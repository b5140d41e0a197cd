------------------------- MODULE OrchestratorProofs -------------------------
(***************************************************************************)
(* Proofs about Orchestrator, for any number of workers and log lines, any *)
(* embedding and similarity, and any set of calls that may fail.           *)
(***************************************************************************)
EXTENDS Orchestrator, FiniteSetTheorems, SequenceTheorems, TLAPS

LEMMA BlankType == Blank \in Job
  BY SMT DEF Blank, Locals, Job

\* What a step that only changes a worker's locals keeps.
LEMMA LocalType ==
  ASSUME TypeOK, NEW w \in Workers, NEW from \in Steps, NEW to \in Steps,
         NEW locals \in Job,
         to # "idle" => locals.log \in Logs,
         to \notin {"idle", "infer"} => locals.vec \in Vectors,
         Local(w, from, to, locals)
  PROVE  TypeOK'
  BY SMT DEF TypeOK, Local, Goto, stores, redis, rest, slack

\* The cache stays a sequence of entries, whatever its order of use.
LEMMA StoreType ==
  ASSUME cache \in Seq(Entry), NEW entry \in Entry
  PROVE  Store(entry) \in Seq(Entry)
<1>1. CASE Held(entry.sig) # {}
  <2> DEFINE i == CHOOSE i \in Held(entry.sig) : TRUE
  <2>1. i \in DOMAIN cache
    BY <1>1 DEF Held
  <2>2. SubSeq(cache, 1, i - 1) \in Seq(Entry) /\ SubSeq(cache, i + 1, Len(cache)) \in Seq(Entry)
    <3> HIDE DEF i
    <3>1. /\ i - 1 \in Int /\ i + 1 \in Int /\ Len(cache) \in Int
          /\ \A k \in 1..(i - 1) : cache[k] \in Entry
          /\ \A k \in (i + 1)..Len(cache) : cache[k] \in Entry
      BY <2>1, SMT
    <3>2. 1 \in Int
      OBVIOUS
    <3> QED
      BY <3>1, <3>2, SubSeqProperties, Zenon
  <2>3. Without(i) \in Seq(Entry)
    BY <2>2, ConcatProperties DEF Without
  <2> QED
    BY <1>1, <2>3, SMT DEF Store
<1>2. CASE Held(entry.sig) = {}
  <2>1. Len(cache) = Capacity => cache # <<>>
    BY OrchestratorAssumption, SMT
  <2> QED
    BY <1>2, <2>1, SMT DEF Store
<1> QED
  BY <1>1, <1>2

\* A row of a job that has a log line and a vector.
LEMMA RowType ==
  ASSUME NEW j \in Job, j.log \in Logs, j.vec \in Vectors,
         NEW action \in AgentActions \cup WorkerActions
  PROVE  RowOf(j, action) \in Row
  BY SMT DEF RowOf, Row, Job


-----------------------------------------------------------------------------
(* Type correctness                                                        *)

LEMMA InitType == Init => TypeOK
  BY BlankType, OrchestratorAssumption, SMT DEF Init, TypeOK, Steps, Blank, Locals

\* Assignments to a field of the locals.
LEMMA JobFields ==
  ASSUME NEW j \in Job
  PROVE  /\ \A v \in Vectors : /\ [j EXCEPT !.vec = v] \in Job
                              /\ [j EXCEPT !.vec = v].log = j.log
                              /\ [j EXCEPT !.vec = v].vec = v
         /\ \A s \in -100..100 : /\ [j EXCEPT !.sim = s] \in Job
                                /\ [j EXCEPT !.sim = s].log = j.log
                                /\ [j EXCEPT !.sim = s].vec = j.vec
         /\ \A n \in Nat \ {0} : /\ [j EXCEPT !.radius = n] \in Job
                                /\ [j EXCEPT !.radius = n].log = j.log
                                /\ [j EXCEPT !.radius = n].vec = j.vec
         /\ \A n \in Nat : /\ [j EXCEPT !.window = n] \in Job
                          /\ [j EXCEPT !.window = n].log = j.log
                          /\ [j EXCEPT !.window = n].vec = j.vec
<1>1. ASSUME NEW v \in Vectors
      PROVE  /\ [j EXCEPT !.vec = v] \in Job
             /\ [j EXCEPT !.vec = v].log = j.log /\ [j EXCEPT !.vec = v].vec = v
  BY SMT DEF Job
<1>2. ASSUME NEW s \in -100..100
      PROVE  /\ [j EXCEPT !.sim = s] \in Job
             /\ [j EXCEPT !.sim = s].log = j.log /\ [j EXCEPT !.sim = s].vec = j.vec
  BY SMT DEF Job
<1>3. ASSUME NEW n \in Nat \ {0}
      PROVE  /\ [j EXCEPT !.radius = n] \in Job
             /\ [j EXCEPT !.radius = n].log = j.log /\ [j EXCEPT !.radius = n].vec = j.vec
  BY SMT DEF Job
<1>4. ASSUME NEW n \in Nat
      PROVE  /\ [j EXCEPT !.window = n] \in Job
             /\ [j EXCEPT !.window = n].log = j.log /\ [j EXCEPT !.window = n].vec = j.vec
  BY SMT DEF Job
<1> QED
  BY <1>1, <1>2, <1>3, <1>4, Zenon

LEMMA NearestType ==
  ASSUME points \subseteq Vectors, NEW v \in Vectors
  PROVE  Nearest(v) \subseteq -100..100
<1>1. \A u \in points : Similarity[<<v, u>>] \in -100..100
  BY OrchestratorAssumption
<1>2. Scores(v) \subseteq -100..100
  BY <1>1 DEF Scores
<1>3. 0 \in -100..100
  BY SMT
<1>4. CASE points = {}
  BY <1>3, <1>4 DEF Nearest
<1>5. CASE points # {}
  <2>1. Nearest(v) = {s \in Scores(v) : \A t \in Scores(v) : s >= t}
    BY <1>5, Zenon DEF Nearest
  <2>2. Nearest(v) \subseteq Scores(v)
    BY <2>1, Zenon
  <2> QED
    BY <1>2, <2>2, Zenon
<1> QED
  BY <1>4, <1>5

\* The steps of processWithAI that set a local.
LEMMA CallsType ==
  ASSUME TypeOK, NEW w \in Workers,
         Infer(w) \/ InferFails(w) \/ Query(w) \/ SCard(w)
  PROVE  TypeOK'
<1>1. job[w] \in Job
  BY DEF TypeOK
<1>2. pc[w] \notin {"idle"} => job[w].log \in Logs
  BY DEF TypeOK
<1>3. pc[w] \notin {"idle", "infer"} => job[w].vec \in Vectors
  BY DEF TypeOK
<1>4. {"infer", "query", "idle", "sadd", "scard", "upsert"} \subseteq Steps
  BY DEF Steps
<1>5. CASE Infer(w)
  <2>1. pc[w] = "infer"
    BY <1>5 DEF Infer, Local
  <2>2. Embedding[job[w].log] \in Vectors
    BY <1>2, <2>1, OrchestratorAssumption
  <2> DEFINE j == [job[w] EXCEPT !.vec = Embedding[job[w].log]]
  <2>3. j \in Job /\ j.log \in Logs /\ j.vec \in Vectors
    BY <1>1, <1>2, <2>1, <2>2, JobFields
  <2>4. Local(w, "infer", "query", j)
    BY <1>5 DEF Infer
  <2> HIDE DEF j
  <2> QED
    BY <1>4, <2>3, <2>4, LocalType
<1>6. CASE InferFails(w)
  <2>1. Local(w, "infer", "idle", Blank)
    BY <1>6 DEF InferFails
  <2> QED
    BY <1>4, <2>1, BlankType, LocalType
<1>7. CASE Query(w)
  <2>1. pc[w] = "query"
    BY <1>7 DEF Query
  <2>2. Nearest(job[w].vec) \cup (IF "query" \in Faults THEN {0} ELSE {}) \subseteq -100..100
    <3>1. points \subseteq Vectors
      BY DEF TypeOK
    <3>2. Nearest(job[w].vec) \subseteq -100..100
      BY <1>3, <2>1, <3>1, NearestType
    <3>3. 0 \in -100..100
      BY SMT
    <3> QED
      BY <3>2, <3>3
  <2>3. PICK s \in -100..100 : Local(w, "query", "sadd", [job[w] EXCEPT !.sim = s])
    BY <1>7, <2>2, Zenon DEF Query
  <2> DEFINE j == [job[w] EXCEPT !.sim = s]
  <2>4. j \in Job /\ j.log \in Logs /\ j.vec \in Vectors
    BY <1>1, <1>2, <1>3, <2>1, JobFields
  <2>5. Local(w, "query", "sadd", j)
    BY <2>3
  <2> HIDE DEF j
  <2> QED
    BY <1>4, <2>4, <2>5, LocalType
<1>8. CASE SCard(w)
  <2>1. pc[w] = "scard"
    BY <1>8 DEF SCard
  <2>2. Cardinality(blast[job[w].vec]) \in Nat
    <3>1. blast[job[w].vec] \in SUBSET Pods
      BY <1>3, <2>1 DEF TypeOK
    <3> QED
      BY <3>1, OrchestratorAssumption, FS_Subset, FS_CardinalityType
  <2> DEFINE radius(n) == IF n = 0 THEN 1 ELSE n
  <2>3. PICK n \in Nat : Local(w, "scard", "upsert", [job[w] EXCEPT !.radius = radius(n)])
    <3>1. {Cardinality(blast[job[w].vec])}
            \cup (IF "redis" \in Faults THEN {0} ELSE {}) \subseteq Nat
      BY <2>2
    <3> QED
      BY <1>8, <3>1, Zenon DEF SCard
  <2> DEFINE j == [job[w] EXCEPT !.radius = radius(n)]
  <2>4. j \in Job /\ j.log \in Logs /\ j.vec \in Vectors
    <3>1. radius(n) \in Nat \ {0}
      BY SMT
    <3> HIDE DEF radius
    <3> QED
      BY <1>1, <1>2, <1>3, <2>1, <3>1, JobFields
  <2>5. Local(w, "scard", "upsert", j)
    BY <2>3
  <2> HIDE DEF j
  <2> QED
    BY <1>4, <2>4, <2>5, LocalType
<1> QED
  BY <1>5, <1>6, <1>7, <1>8

\* Where a worker and its locals are after processWithAI returns.
LEMMA ReturnType ==
  ASSUME TypeOK, NEW w \in Workers, pc[w] \notin {"idle", "infer"}, Return(w)
  PROVE  /\ pc' \in [Workers -> Steps]
         /\ job' \in [Workers -> Job]
         /\ \A x \in Workers :
              /\ pc'[x] # "idle" => job'[x].log \in Logs
              /\ pc'[x] \notin {"idle", "infer"} => job'[x].vec \in Vectors
<1>1. CASE job[w].hit
  <2>1. pc' = [pc EXCEPT ![w] = "idle"] /\ job' = [job EXCEPT ![w] = Blank]
    BY <1>1 DEF Return, Goto
  <2> QED
    BY <2>1, BlankType, SMT DEF TypeOK, Steps
<1>2. CASE ~job[w].hit
  <2>1. pc' = [pc EXCEPT ![w] = "add"] /\ job' = job
    BY <1>2 DEF Return, Goto
  <2> QED
    BY <2>1, SMT DEF TypeOK, Steps
<1> QED
  BY <1>1, <1>2


\* The locals of a worker that has taken a line off the channel.
LEMMA FreshJob ==
  ASSUME NEW n \in Nat, NEW log \in Logs, NEW v \in Vectors \cup {NoVector}
  PROVE  /\ Locals(n, log, v, TRUE) \in Job /\ Locals(n, log, v, FALSE) \in Job
         /\ Locals(n, log, v, TRUE).log = log /\ Locals(n, log, v, FALSE).log = log
         /\ Locals(n, log, v, TRUE).vec = v /\ Locals(n, log, v, FALSE).vec = v
  BY SMT DEF Locals, Job

LEMMA EntryAt ==
  ASSUME cache \in Seq(Entry), NEW i \in DOMAIN cache
  PROVE  cache[i] \in Entry /\ cache[i].vec \in Vectors
<1>1. cache[i] \in Entry
  BY SMT
<1> QED
  BY <1>1 DEF Entry

LEMMA ReceiveType ==
  ASSUME TypeOK, NEW w \in Workers, NEW log \in Logs,
         CacheHit(w, log) \/ CacheMiss(w, log)
  PROVE  TypeOK'
<1>1. received' = received + 1 /\ received + 1 \in Nat
  <2>1. received' = received + 1
    BY DEF CacheHit, CacheMiss, Receive
  <2>2. received \in Nat
    BY DEF TypeOK
  <2> QED
    BY <2>1, <2>2, SMT
<1>2. CASE CacheHit(w, log)
  <2>1. PICK i \in DOMAIN cache :
          /\ job' = [job EXCEPT ![w] = Locals(received + 1, log, cache[i].vec, TRUE)]
          /\ cache' = Store(cache[i])
    BY <1>2, Zenon DEF CacheHit, Held
  <2>2. cache[i] \in Entry /\ cache[i].vec \in Vectors
    <3>1. i \in DOMAIN cache
      BY <2>1
    <3>2. cache \in Seq(Entry)
      BY DEF TypeOK
    <3> QED
      BY <3>1, <3>2, EntryAt
  <2>3. cache' \in Seq(Entry)
    BY <2>1, <2>2, StoreType DEF TypeOK
  <2> DEFINE j == Locals(received + 1, log, cache[i].vec, TRUE)
  <2>4. j \in Job /\ j.log \in Logs /\ j.vec \in Vectors
    <3>1. cache[i].vec \in Vectors \cup {NoVector}
      BY <2>2
    <3>2. j \in Job
      BY <1>1, <3>1, FreshJob, ZenonT(30)
    <3>3. j.log = log
      BY <1>1, <3>1, FreshJob, ZenonT(30)
    <3>4. j.vec = cache[i].vec
      BY <1>1, <3>1, FreshJob, ZenonT(30)
    <3> HIDE DEF j
    <3> QED
      BY <2>2, <3>2, <3>3, <3>4, Zenon
  <2>5. job' = [job EXCEPT ![w] = j]
    BY <2>1
  <2> HIDE DEF j
  <2>6. pc' = [pc EXCEPT ![w] = "query"] /\ UNCHANGED <<stores, rest>>
    BY <1>2, Zenon DEF CacheHit, Goto
  <2> QED
    BY <1>1, <2>3, <2>4, <2>5, <2>6, SMT DEF TypeOK, Steps, stores, redis, rest, slack
<1>3. CASE CacheMiss(w, log)
  <2> DEFINE j == Locals(received + 1, log, NoVector, FALSE)
  <2>1. j \in Job /\ j.log \in Logs
    BY <1>1, FreshJob
  <2>2. job' = [job EXCEPT ![w] = j]
    BY <1>3 DEF CacheMiss
  <2> HIDE DEF j
  <2>3. pc' = [pc EXCEPT ![w] = "infer"] /\ UNCHANGED <<cache, stores, rest>>
    BY <1>3, Zenon DEF CacheMiss, Goto
  <2> QED
    BY <1>1, <2>1, <2>2, <2>3, SMT DEF TypeOK, Steps, stores, redis, rest, slack
<1> QED
  BY <1>2, <1>3

\* The calls that change a store and leave the locals alone.
LEMMA StoresType ==
  ASSUME TypeOK, NEW w \in Workers, SAdd(w) \/ Expire(w) \/ Upsert(w)
  PROVE  TypeOK'
<1>1. pc[w] # "idle" /\ job[w].log \in Logs /\ job[w].vec \in Vectors
  <2>1. pc[w] \in {"sadd", "expire", "upsert"}
    BY DEF SAdd, Expire, Upsert
  <2> QED
    BY <2>1 DEF TypeOK
<1>2. CASE SAdd(w)
  <2>1. PodOf[job[w].log] \in Pods
    BY <1>1, OrchestratorAssumption
  <2>2. blast' \in [Vectors -> SUBSET Pods]
    <3>1. blast' = [blast EXCEPT ![job[w].vec] = @ \cup {PodOf[job[w].log]}] \/ blast' = blast
      BY <1>2 DEF SAdd
    <3>2. blast \in [Vectors -> SUBSET Pods]
      BY DEF TypeOK
    <3> QED
      BY <1>1, <2>1, <3>1, <3>2, ZenonT(30)
  <2> QED
    BY <1>1, <1>2, <2>2, SMT DEF SAdd, TypeOK, Goto, Steps, rest, slack
<1>3. CASE Expire(w)
  <2>1. expiring' \in [Vectors -> BOOLEAN]
    <3>1. expiring' = [expiring EXCEPT ![job[w].vec] = blast[job[w].vec] # {}]
          \/ expiring' = expiring
      BY <1>3 DEF Expire
    <3>2. expiring \in [Vectors -> BOOLEAN]
      BY DEF TypeOK
    <3> QED
      BY <3>1, <3>2, Zenon
  <2> QED
    BY <1>1, <1>3, <2>1, SMT DEF Expire, TypeOK, Goto, Steps, rest, slack
<1>4. CASE Upsert(w)
  BY <1>1, <1>4, SMT DEF Upsert, TypeOK, Goto, Steps, redis, rest, slack
<1> QED
  BY <1>2, <1>3, <1>4

LEMMA SetNXType ==
  ASSUME TypeOK, NEW w \in Workers, SetNX(w) \/ Throttled(w) \/ SetNXFails(w)
  PROVE  TypeOK'
<1>1. pc[w] = "setnx" /\ pc[w] \notin {"idle", "infer"}
  BY DEF SetNX, Throttled, SetNXFails
<1>2. job[w] \in Job /\ job[w].log \in Logs /\ job[w].vec \in Vectors
  BY <1>1 DEF TypeOK
<1>3. CASE SetNX(w)
  <2> DEFINE j == [job[w] EXCEPT !.window = window[job[w].vec]]
  <2>1. j \in Job /\ j.log \in Logs /\ j.vec \in Vectors
    <3>1. window[job[w].vec] \in Nat
      BY <1>2 DEF TypeOK
    <3> QED
      BY <1>2, <3>1, JobFields
  <2>2. job' = [job EXCEPT ![w] = j]
    BY <1>3 DEF SetNX
  <2> HIDE DEF j
  <2>3. /\ throttle' = [throttle EXCEPT ![job[w].vec] = TRUE]
        /\ pc' = [pc EXCEPT ![w] = "decide"]
        /\ UNCHANGED <<received, cache, points, blast, expiring, window, audit, rest>>
    BY <1>3 DEF SetNX, Goto
  <2> QED
    BY <1>2, <2>1, <2>2, <2>3, SMT DEF TypeOK, Steps, rest, slack
<1>4. CASE Throttled(w)
  <2>1. Return(w) /\ UNCHANGED <<received, cache, stores, rest>>
    BY <1>4 DEF Throttled
  <2> QED
    BY <1>1, <2>1, ReturnType DEF TypeOK, stores, redis, rest, slack
<1>5. CASE SetNXFails(w)
  <2>1. /\ Return(w)
        /\ UNCHANGED <<received, cache, points, blast, expiring, window, audit,
                       agents, slack, crashes>>
    BY <1>5 DEF SetNXFails
  <2>2. throttle' \in [Vectors -> BOOLEAN]
    <3>1. throttle' = throttle \/ throttle' = [throttle EXCEPT ![job[w].vec] = TRUE]
      BY <1>5, Zenon DEF SetNXFails
    <3> QED
      BY <3>1 DEF TypeOK
  <2>3. lost' \subseteq Vectors \X Nat
    <3>1. lost \subseteq Vectors \X Nat /\ window[job[w].vec] \in Nat
      BY <1>2 DEF TypeOK
    <3>2. lost' = lost \/ lost' = lost \cup {<<job[w].vec, window[job[w].vec]>>}
      BY <1>5 DEF SetNXFails
    <3> QED
      BY <1>2, <3>1, <3>2
  <2> QED
    BY <1>1, <2>1, <2>2, <2>3, ReturnType DEF TypeOK, slack
<1> QED
  BY <1>3, <1>4, <1>5

\* A row is written, or its window lost.
LEMMA RecordType ==
  ASSUME TypeOK, NEW row \in Row, RecordIncident(row)
  PROVE  audit' \in Seq(Row) /\ lost' \subseteq Vectors \X Nat
<1>1. audit \in Seq(Row) /\ lost \subseteq Vectors \X Nat
  BY DEF TypeOK
<1>2. <<row.q, row.window>> \in Vectors \X Nat
  BY DEF Row
<1>3. audit' = Append(audit, row) \/ audit' = audit
  BY DEF RecordIncident
<1>4. audit' \in Seq(Row)
  BY <1>1, <1>3, SMT
<1>5. lost' = lost \/ lost' = lost \cup {<<row.q, row.window>>}
  BY DEF RecordIncident
<1> QED
  BY <1>1, <1>2, <1>4, <1>5

LEMMA DecideType ==
  ASSUME TypeOK, NEW w \in Workers, Dispatch(w) \/ Record(w)
  PROVE  TypeOK'
<1>1. pc[w] \notin {"idle", "infer"}
  BY DEF Dispatch, Record
<1>2. job[w] \in Job /\ job[w].log \in Logs /\ job[w].vec \in Vectors
  BY <1>1 DEF TypeOK
<1>3. CASE Dispatch(w)
  <2>1. Return(w) /\ UNCHANGED <<received, cache, stores, slack, crashes, lost>>
    BY <1>3 DEF Dispatch
  <2>2. agents' \subseteq {j \in Job : j.log \in Logs /\ j.vec \in Vectors}
    BY <1>2, <1>3 DEF Dispatch, TypeOK
  <2> QED
    BY <1>1, <2>1, <2>2, ReturnType DEF TypeOK, stores, redis, slack
<1>4. CASE Record(w)
  <2>1. Return(w) /\ UNCHANGED <<received, cache, points, redis, agents, posted, crashes>>
    BY <1>4 DEF Record
  <2>2. PICK action \in WorkerActions :
          /\ RecordIncident(RowOf(job[w], action))
          /\ outbox' = outbox \cup {RowOf(job[w], action)}
    BY <1>4, Zenon DEF Record, WorkerActions
  <2>3. RowOf(job[w], action) \in Row
    BY <1>2, RowType
  <2>4. audit' \in Seq(Row) /\ lost' \subseteq Vectors \X Nat /\ outbox' \subseteq Row
    <3> DEFINE row == RowOf(job[w], action)
    <3>1. RecordIncident(row) /\ outbox' = outbox \cup {row} /\ row \in Row
      BY <2>2, <2>3
    <3>2. outbox \subseteq Row
      BY DEF TypeOK
    <3> HIDE DEF row
    <3> QED
      BY <3>1, <3>2, RecordType
  <2> QED
    BY <1>1, <2>1, <2>4, ReturnType DEF TypeOK, redis
<1> QED
  BY <1>3, <1>4

LEMMA AddType ==
  ASSUME TypeOK, NEW w \in Workers, Add(w)
  PROVE  TypeOK'
<1>1. pc[w] = "add"
  BY DEF Add
<1>2. job[w].log \in Logs /\ job[w].vec \in Vectors
  BY <1>1 DEF TypeOK
<1>3. [sig |-> Signature[job[w].log], vec |-> job[w].vec] \in Entry
  BY <1>2, OrchestratorAssumption DEF Entry
<1>4. cache' \in Seq(Entry)
  BY <1>3, StoreType DEF Add, TypeOK
<1> QED
  BY <1>4, BlankType, SMT DEF Add, TypeOK, Goto, Steps, stores, redis, rest, slack

Ticketed == [ev : Nat, q : Vectors, window : Nat]

LEMMA TicketTypes ==
  ASSUME TypeOK
  PROVE  /\ Tickets \subseteq Ticketed
         /\ Owed \subseteq Vectors \X Nat
         /\ Settled \subseteq Vectors \X Nat
<1>1. \A j \in Job : j.vec \in Vectors => Ticket(j) \in Ticketed
  BY SMT DEF Job, Ticket, Ticketed
<1>2. \A r \in Row : TicketOf(r) \in Ticketed
  BY SMT DEF Row, TicketOf, Ticketed
<1>3. \A w \in Deciding : job[w] \in Job /\ job[w].vec \in Vectors
  BY DEF Deciding, TypeOK
<1>4. \A a \in agents : a \in Job /\ a.vec \in Vectors
  BY DEF TypeOK
<1>5. \A i \in DOMAIN audit : audit[i] \in Row
  BY SMT DEF TypeOK
<1>6. outbox \cup posted \subseteq Row
  BY DEF TypeOK
<1>7. Pending \subseteq Ticketed
  BY <1>1, <1>3, <1>4, Zenon DEF Pending
<1>8. Recorded \subseteq Ticketed
  BY <1>2, <1>5, Zenon DEF Recorded
<1>9. Alerted \subseteq Ticketed
  BY <1>2, <1>6, Zenon DEF Alerted
<1>10. \A t \in Ticketed : <<t.q, t.window>> \in Vectors \X Nat
  BY DEF Ticketed
<1>11. Owed \subseteq Vectors \X Nat /\ Settled \subseteq Vectors \X Nat
  BY <1>7, <1>8, <1>10, Zenon DEF Owed, Settled
<1> QED
  BY <1>7, <1>8, <1>9, <1>11 DEF Tickets

\* The steps of agents, alert goroutines, expiries and restarts.
LEMMA WorldType ==
  ASSUME TypeOK,
         \/ \E a \in agents : AgentRecords(a)
         \/ \E alert \in outbox : Post(alert)
         \/ \E q \in Vectors : ThrottleLapses(q) \/ BlastLapses(q)
         \/ Crash
  PROVE  TypeOK'
<1>1. ASSUME NEW a \in agents, AgentRecords(a)
      PROVE  TypeOK'
  <2>1. a \in Job /\ a.log \in Logs /\ a.vec \in Vectors
    BY DEF TypeOK
  <2>2. PICK action \in AgentActions :
          /\ RecordIncident(RowOf(a, action))
          /\ outbox' = outbox \cup {RowOf(a, action)}
    BY <1>1, Zenon DEF AgentRecords
  <2> DEFINE row == RowOf(a, action)
  <2>3. row \in Row
    BY <2>1, RowType
  <2>4. RecordIncident(row)
    BY <2>2
  <2>5. outbox' = outbox \cup {row}
    BY <2>2
  <2> HIDE DEF row
  <2>6. audit' \in Seq(Row) /\ lost' \subseteq Vectors \X Nat /\ outbox' \subseteq Row
    <3>1. outbox \subseteq Row
      BY DEF TypeOK
    <3> QED
      BY <2>3, <2>4, <2>5, <3>1, RecordType
  <2>7. /\ agents' \subseteq agents
        /\ UNCHANGED <<received, pc, job, cache, points, redis, posted, crashes>>
    BY <1>1, Zenon DEF AgentRecords
  <2> QED
    BY <2>6, <2>7 DEF TypeOK, redis
<1>2. ASSUME NEW alert \in outbox, Post(alert)
      PROVE  TypeOK'
  BY <1>2, Zenon DEF Post, TypeOK, redis
<1>3. ASSUME NEW q \in Vectors, ThrottleLapses(q)
      PROVE  TypeOK'
  BY <1>3, SMT DEF ThrottleLapses, TypeOK, rest, slack
<1>4. ASSUME NEW q \in Vectors, BlastLapses(q)
      PROVE  TypeOK'
  <2>1. blast' \in [Vectors -> SUBSET Pods] /\ expiring' \in [Vectors -> BOOLEAN]
    BY <1>4 DEF BlastLapses, TypeOK
  <2> QED
    BY <1>4, <2>1, Zenon DEF BlastLapses, TypeOK, rest, slack
<1>5. CASE Crash
  <2>1. lost' \subseteq Vectors \X Nat
    BY <1>5, TicketTypes, Zenon DEF Crash, TypeOK
  <2> QED
    BY <1>5, <2>1, BlankType, SMT DEF Crash, TypeOK, Steps, redis
<1> QED
  BY <1>1, <1>2, <1>3, <1>4, <1>5

LEMMA NextType == TypeOK /\ [Next]_vars => TypeOK'
<1> SUFFICES ASSUME TypeOK, [Next]_vars
             PROVE  TypeOK'
  OBVIOUS
<1>1. ASSUME NEW w \in Workers, NEW log \in Logs, CacheHit(w, log) \/ CacheMiss(w, log)
      PROVE  TypeOK'
  BY <1>1, ReceiveType
<1>2. ASSUME NEW w \in Workers, Process(w)
      PROVE  TypeOK'
  BY <1>2, CallsType, StoresType, SetNXType, DecideType, AddType DEF Process
<1>3. CASE UNCHANGED vars
  BY <1>3, Zenon DEF TypeOK, vars, stores, redis, rest, slack
<1>4. CASE Drained
  BY <1>3, <1>4 DEF Drained
<1> QED
  BY <1>1, <1>2, <1>3, <1>4, WorldType DEF Next

\* The variables keep their types: in particular every worker past a step has
\* what the step yields, and no blast radius is ever zero.
THEOREM TypeCorrect == Spec => []TypeOK
  BY InitType, NextType, PTL DEF Spec

-----------------------------------------------------------------------------
(* One event and one row for an incident and a throttle window             *)

\* A ticket is for a window that has begun; the key is there while it lasts.
Begun(t) == t.window <= window[t.q] /\ (t.window = window[t.q] => throttle[t.q])

\* Whoever has yet to record an incident is alone in its window: no other
\* worker, no agent and no row has it.
PendingAlone ==
    /\ \A w, x \in Deciding : SameWindow(Ticket(job[w]), Ticket(job[x])) => w = x
    /\ \A w \in Deciding, a \in agents : ~SameWindow(Ticket(job[w]), Ticket(a))
    /\ \A a, b \in agents : SameWindow(Ticket(a), Ticket(b)) => a = b
    /\ \A t \in Pending, r \in Recorded : ~SameWindow(t, r)

\* Neither property is inductive alone: that SETNX finds the key absent says
\* something of the tickets only through the windows that have begun.
GateInv ==
    /\ \A t \in Tickets : Begun(t)
    /\ OneEventPerWindow
    /\ PendingAlone
    /\ OneRowPerWindow

\* A step that brings no ticket, and ends windows at most.
QuietStep ==
    /\ \A w \in Workers : pc'[w] = "decide" => pc[w] = "decide" /\ job'[w] = job[w]
    /\ agents' \subseteq agents
    /\ audit' = audit
    /\ outbox' \cup posted' \subseteq outbox \cup posted
    /\ \A q \in Vectors : \/ window'[q] = window[q] /\ (throttle[q] => throttle'[q])
                          \/ window'[q] = window[q] + 1

LEMMA QuietGate ==
  ASSUME TypeOK, GateInv, QuietStep
  PROVE  GateInv'
<1>1. Deciding' \subseteq Deciding /\ \A w \in Deciding' : job'[w] = job[w]
  BY DEF QuietStep, Deciding
<1>2. Pending' \subseteq Pending
  BY <1>1, Zenon DEF QuietStep, Pending, Ticket
<1>3. Recorded' = Recorded
  BY DEF QuietStep, Recorded
<1>4. Alerted' \subseteq Alerted
  BY Zenon DEF QuietStep, Alerted, TicketOf
<1>5. Tickets' \subseteq Tickets
  BY <1>2, <1>3, <1>4 DEF Tickets
<1>6. (\A t \in Tickets : Begun(t))'
  <2> SUFFICES ASSUME NEW t \in Tickets'
               PROVE  Begun(t)'
    OBVIOUS
  <2>1. t \in Ticketed /\ Begun(t)
    BY <1>5, TicketTypes DEF GateInv
  <2>2. t.q \in Vectors /\ t.window \in Nat /\ window[t.q] \in Nat
    BY <2>1 DEF Ticketed, TypeOK
  <2> QED
    BY <2>1, <2>2, SMT DEF Begun, QuietStep
<1>7. OneEventPerWindow'
  BY <1>5 DEF GateInv, OneEventPerWindow, SameWindow
<1>8. PendingAlone'
  <2>1. \A w, x \in Deciding' : SameWindow(Ticket(job'[w]), Ticket(job'[x])) => w = x
    BY <1>1, Zenon DEF GateInv, PendingAlone
  <2>2. \A w \in Deciding', a \in agents' : ~SameWindow(Ticket(job'[w]), Ticket(a))
    BY <1>1, Zenon DEF GateInv, PendingAlone, QuietStep
  <2>3. \A a, b \in agents' : SameWindow(Ticket(a), Ticket(b)) => a = b
    BY Zenon DEF GateInv, PendingAlone, QuietStep
  <2>4. \A t \in Pending', r \in Recorded' : ~SameWindow(t, r)
    BY <1>2, <1>3, Zenon DEF GateInv, PendingAlone
  <2> QED
    BY <2>1, <2>2, <2>3, <2>4, Zenon DEF PendingAlone, SameWindow, Ticket
<1>9. OneRowPerWindow'
  BY DEF GateInv, OneRowPerWindow, SameWindow, QuietStep
<1> QED
  BY <1>6, <1>7, <1>8, <1>9 DEF GateInv

LEMMA InitGate == Init => GateInv
<1> SUFFICES ASSUME Init
             PROVE  GateInv
  OBVIOUS
<1>1. Deciding = {} /\ agents = {} /\ DOMAIN audit = {} /\ outbox \cup posted = {}
  BY SMT DEF Init, Deciding
<1>2. Tickets = {} /\ Pending = {}
  BY <1>1, Zenon DEF Tickets, Pending, Recorded, Alerted
<1> QED
  BY <1>1, <1>2 DEF GateInv, OneEventPerWindow, PendingAlone, OneRowPerWindow

\* SETNX brings a ticket for the window that begins, which nobody has.
LEMMA SetNXGate ==
  ASSUME TypeOK, GateInv, NEW w \in Workers, SetNX(w)
  PROVE  GateInv'
<1> DEFINE q == job[w].vec
           t0 == [ev |-> job[w].ev, q |-> q, window |-> window[q]]
<1>1. /\ pc[w] = "setnx" /\ ~throttle[q]
      /\ throttle' = [throttle EXCEPT ![q] = TRUE]
      /\ job' = [job EXCEPT ![w].window = window[q]]
      /\ pc' = [pc EXCEPT ![w] = "decide"]
      /\ UNCHANGED <<window, audit, agents, outbox, posted>>
  BY DEF SetNX, Goto, rest, slack
<1>2. job[w] \in Job /\ q \in Vectors /\ window[q] \in Nat
  <2>1. job[w] \in Job /\ q \in Vectors
    BY <1>1 DEF TypeOK
  <2> QED
    BY <2>1 DEF TypeOK
<1>3. Ticket(job'[w]) = t0
  <2>1. job'[w] = [job[w] EXCEPT !.window = window[q]]
    BY <1>1 DEF TypeOK
  <2>2. ASSUME NEW j \in Job, NEW n \in Nat
        PROVE  Ticket([j EXCEPT !.window = n]) = [ev |-> j.ev, q |-> j.vec, window |-> n]
    BY SMT DEF Job, Ticket
  <2> QED
    BY <1>2, <2>1, <2>2
<1>4. Deciding' = Deciding \cup {w} /\ w \notin Deciding
  BY <1>1 DEF Deciding, TypeOK
<1>5. \A x \in Deciding : x # w /\ job'[x] = job[x]
  BY <1>1, <1>4 DEF Deciding, TypeOK
<1>6. Pending' \subseteq Pending \cup {t0}
  BY <1>1, <1>3, <1>4, <1>5, Zenon DEF Pending, Ticket
<1>7. Recorded' = Recorded /\ Alerted' = Alerted
  BY <1>1 DEF Recorded, Alerted
<1>8. Tickets' \subseteq Tickets \cup {t0}
  BY <1>6, <1>7 DEF Tickets
<1> HIDE DEF q
<1>9. \A t \in Tickets : ~SameWindow(t, t0) /\ ~SameWindow(t0, t)
  <2> SUFFICES ASSUME NEW t \in Tickets, t.q = q, t.window = window[q]
               PROVE  FALSE
    BY DEF SameWindow
  <2> QED
    BY <1>1 DEF GateInv, Begun
<1>10. (\A t \in Tickets : Begun(t))'
  <2> SUFFICES ASSUME NEW t \in Tickets'
               PROVE  Begun(t)'
    OBVIOUS
  <2>1. CASE t \in Tickets
    <3>1. t \in Ticketed /\ Begun(t)
      BY <2>1, TicketTypes DEF GateInv
    <3>2. t.q \in Vectors
      BY <3>1 DEF Ticketed
    <3>3. throttle[t.q] => throttle'[t.q]
      BY <1>1, <1>2, <3>2 DEF TypeOK
    <3> QED
      BY <1>1, <3>1, <3>3 DEF Begun
  <2>2. CASE t = t0
    <3>1. t.window = window'[t.q] /\ t.q = q
      BY <1>1, <2>2
    <3>2. throttle'[q]
      BY <1>1, <1>2 DEF TypeOK
    <3>3. window'[q] \in Nat
      BY <1>1, <1>2
    <3> QED
      BY <3>1, <3>2, <3>3, SMT DEF Begun
  <2> QED
    BY <1>8, <2>1, <2>2
<1>11. OneEventPerWindow'
  BY <1>8, <1>9, Zenon DEF GateInv, OneEventPerWindow, SameWindow
<1>12. PendingAlone'
  <2>0. /\ \A x \in Deciding : Ticket(job[x]) \in Tickets
        /\ \A a \in agents : Ticket(a) \in Tickets
        /\ Recorded \subseteq Tickets
    BY Zenon DEF Tickets, Pending
  <2>1. \A x, y \in Deciding' : SameWindow(Ticket(job'[x]), Ticket(job'[y])) => x = y
    <3> SUFFICES ASSUME NEW x \in Deciding', NEW y \in Deciding', x # y
                 PROVE  ~SameWindow(Ticket(job'[x]), Ticket(job'[y]))
      OBVIOUS
    <3>1. CASE x = w
      <4>1. y \in Deciding /\ job'[y] = job[y]
        BY <1>4, <1>5, <3>1
      <4> QED
        BY <1>3, <1>9, <2>0, <3>1, <4>1
    <3>2. CASE y = w
      <4>1. x \in Deciding /\ job'[x] = job[x]
        BY <1>4, <1>5, <3>2
      <4> QED
        BY <1>3, <1>9, <2>0, <3>2, <4>1
    <3>3. CASE x # w /\ y # w
      <4>1. x \in Deciding /\ job'[x] = job[x] /\ y \in Deciding /\ job'[y] = job[y]
        BY <1>4, <1>5, <3>3
      <4> QED
        BY <4>1 DEF GateInv, PendingAlone
    <3> QED
      BY <3>1, <3>2, <3>3
  <2>2. \A x \in Deciding', a \in agents' : ~SameWindow(Ticket(job'[x]), Ticket(a))
    BY <1>1, <1>3, <1>4, <1>5, <1>9, <2>0, ZenonT(30) DEF GateInv, PendingAlone
  <2>3. \A a, b \in agents' : SameWindow(Ticket(a), Ticket(b)) => a = b
    BY <1>1 DEF GateInv, PendingAlone
  <2>4. \A t \in Pending', r \in Recorded' : ~SameWindow(t, r)
    BY <1>6, <1>7, <1>9, <2>0, Zenon DEF GateInv, PendingAlone
  <2> QED
    BY <2>1, <2>2, <2>3, <2>4, Zenon DEF PendingAlone, SameWindow, Ticket
<1>13. OneRowPerWindow'
  BY <1>1 DEF GateInv, OneRowPerWindow, SameWindow
<1> QED
  BY <1>10, <1>11, <1>12, <1>13 DEF GateInv

\* A worker that returns has left the decision.
LEMMA ReturnDeciding ==
  ASSUME TypeOK, NEW w \in Workers, pc[w] = "decide", Return(w)
  PROVE  /\ Deciding' = Deciding \ {w} /\ w \in Deciding
         /\ \A x \in Deciding' : job'[x] = job[x]
  BY DEF Return, Goto, Deciding, TypeOK

\* Dispatch hands the ticket of the worker to the agent.
LEMMA DispatchGate ==
  ASSUME TypeOK, GateInv, NEW w \in Workers, Dispatch(w)
  PROVE  GateInv'
<1>1. /\ pc[w] = "decide" /\ Return(w)
      /\ agents' = agents \cup {job[w]}
      /\ UNCHANGED <<audit, outbox, posted, throttle, window>>
  BY DEF Dispatch, stores, redis, slack
<1>2. /\ Deciding' = Deciding \ {w} /\ w \in Deciding
      /\ \A x \in Deciding' : x \in Deciding /\ x # w /\ job'[x] = job[x]
  BY <1>1, ReturnDeciding
<1>3. Pending' \subseteq Pending
  BY <1>1, <1>2, Zenon DEF Pending, Ticket
<1>4. Recorded' = Recorded /\ Alerted' = Alerted
  BY <1>1 DEF Recorded, Alerted
<1>5. Tickets' \subseteq Tickets
  BY <1>3, <1>4 DEF Tickets
<1>6. (\A t \in Tickets : Begun(t))'
  BY <1>1, <1>5 DEF GateInv, Begun
<1>7. OneEventPerWindow'
  BY <1>5 DEF GateInv, OneEventPerWindow, SameWindow
<1>8. PendingAlone'
  <2>1. \A x, y \in Deciding' : SameWindow(Ticket(job'[x]), Ticket(job'[y])) => x = y
    BY <1>2, Zenon DEF GateInv, PendingAlone
  <2>2. \A x \in Deciding', a \in agents' : ~SameWindow(Ticket(job'[x]), Ticket(a))
    BY <1>1, <1>2, Zenon DEF GateInv, PendingAlone
  <2>3. \A a, b \in agents' : SameWindow(Ticket(a), Ticket(b)) => a = b
    <3>1. \A a \in agents : /\ ~SameWindow(Ticket(job[w]), Ticket(a))
                           /\ ~SameWindow(Ticket(a), Ticket(job[w]))
      BY <1>2 DEF GateInv, PendingAlone, SameWindow
    <3> QED
      BY <1>1, <3>1, Zenon DEF GateInv, PendingAlone
  <2>4. \A t \in Pending', r \in Recorded' : ~SameWindow(t, r)
    BY <1>3, <1>4 DEF GateInv, PendingAlone
  <2> QED
    BY <2>1, <2>2, <2>3, <2>4, Zenon DEF PendingAlone, SameWindow, Ticket
<1>9. OneRowPerWindow'
  BY <1>1 DEF GateInv, OneRowPerWindow, SameWindow
<1> QED
  BY <1>6, <1>7, <1>8, <1>9 DEF GateInv

\* What Record and AgentRecords have in common: a pending ticket t becomes
\* that of a row (if the insert succeeds) and of an alert.
LEMMA SettleGate ==
  ASSUME TypeOK, GateInv, NEW t \in Pending, NEW row \in Row, TicketOf(row) = t,
         RecordIncident(row), outbox' = outbox \cup {row},
         UNCHANGED <<posted, throttle, window>>,
         Pending' \subseteq Pending, \A p \in Pending' : ~SameWindow(p, t)
  PROVE  /\ (\A s \in Tickets : Begun(s))'
         /\ OneEventPerWindow'
         /\ \A p \in Pending', r \in Recorded' : ~SameWindow(p, r)
         /\ OneRowPerWindow'
<1>1. audit \in Seq(Row)
  BY DEF TypeOK
<1>2. Recorded' \subseteq Recorded \cup {t} /\ OneRowPerWindow'
  <2>1. CASE audit' = Append(audit, row)
    <3>1. /\ DOMAIN audit' = DOMAIN audit \cup {Len(audit) + 1}
          /\ audit'[Len(audit) + 1] = row
          /\ \A i \in DOMAIN audit : audit'[i] = audit[i]
      BY <1>1, <2>1, SMT
    <3>2. Recorded' \subseteq Recorded \cup {t}
      BY <3>1, Zenon DEF Recorded, TicketOf
    <3>3. \A i \in DOMAIN audit : ~SameWindow(audit[i], row) /\ ~SameWindow(row, audit[i])
      <4>1. \A i \in DOMAIN audit : ~SameWindow(t, TicketOf(audit[i]))
        BY Zenon DEF GateInv, PendingAlone, Recorded
      <4>2. t.q = row.q /\ t.window = row.window
        BY DEF TicketOf
      <4>3. \A i \in DOMAIN audit : TicketOf(audit[i]).q = audit[i].q
                                   /\ TicketOf(audit[i]).window = audit[i].window
        BY DEF TicketOf
      <4> QED
        BY <4>1, <4>2, <4>3, Zenon DEF SameWindow
    <3>4. OneRowPerWindow'
      <4> SUFFICES ASSUME NEW i \in DOMAIN audit', NEW k \in DOMAIN audit',
                          SameWindow(audit'[i], audit'[k])
                   PROVE  i = k
        BY DEF OneRowPerWindow, SameWindow
      <4>1. CASE i \in DOMAIN audit /\ k \in DOMAIN audit
        BY <3>1, <4>1 DEF GateInv, OneRowPerWindow
      <4>2. CASE i \notin DOMAIN audit \/ k \notin DOMAIN audit
        BY <3>1, <3>3, <4>2, Zenon
      <4> QED
        BY <4>1, <4>2
    <3> QED
      BY <3>2, <3>4
  <2>2. CASE audit' = audit
    BY <2>2 DEF GateInv, OneRowPerWindow, SameWindow, Recorded
  <2> QED
    BY <2>1, <2>2 DEF RecordIncident
<1>3. Alerted' \subseteq Alerted \cup {t}
  BY Zenon DEF Alerted, TicketOf
<1>4. Tickets' \subseteq Tickets
  BY <1>2, <1>3, Zenon DEF Tickets
<1>5. (\A s \in Tickets : Begun(s))'
  BY <1>4 DEF GateInv, Begun
<1>6. OneEventPerWindow'
  BY <1>4 DEF GateInv, OneEventPerWindow, SameWindow
<1>7. \A p \in Pending', r \in Recorded' : ~SameWindow(p, r)
  BY <1>2, Zenon DEF GateInv, PendingAlone
<1> QED
  BY <1>2, <1>5, <1>6, <1>7

\* A worker that records an incident itself leaves the decision.
LEMMA RecordGate ==
  ASSUME TypeOK, GateInv, NEW w \in Workers, Record(w)
  PROVE  GateInv'
<1>1. /\ pc[w] = "decide" /\ Return(w)
      /\ UNCHANGED <<agents, posted, throttle, window>>
  BY DEF Record, redis
<1>2. PICK action \in WorkerActions :
        /\ RecordIncident(RowOf(job[w], action))
        /\ outbox' = outbox \cup {RowOf(job[w], action)}
  BY Zenon DEF Record, WorkerActions
<1> DEFINE t == Ticket(job[w])
           row == RowOf(job[w], action)
<1>3. /\ Deciding' = Deciding \ {w} /\ w \in Deciding
      /\ \A x \in Deciding' : x \in Deciding /\ x # w /\ job'[x] = job[x]
  BY <1>1, ReturnDeciding
<1>4. t \in Pending
  BY <1>3, Zenon DEF Pending
<1>5. row \in Row
  <2>1. job[w] \in Job /\ job[w].log \in Logs /\ job[w].vec \in Vectors
    BY <1>1 DEF TypeOK
  <2> QED
    BY <2>1, RowType
<1>6. TicketOf(row) = t
  BY DEF TicketOf, RowOf, Ticket
<1>7. Pending' \subseteq Pending
  BY <1>1, <1>3, Zenon DEF Pending, Ticket
<1>8. \A p \in Pending' : ~SameWindow(p, t)
  <2>1. \A x \in Deciding' : ~SameWindow(Ticket(job'[x]), t)
    BY <1>3, Zenon DEF GateInv, PendingAlone
  <2>2. \A a \in agents' : ~SameWindow(Ticket(a), t)
    BY <1>1, <1>3 DEF GateInv, PendingAlone, SameWindow
  <2> QED
    BY <2>1, <2>2, Zenon DEF Pending, Ticket
<1>9. /\ (\A s \in Tickets : Begun(s))'
      /\ OneEventPerWindow'
      /\ \A p \in Pending', r \in Recorded' : ~SameWindow(p, r)
      /\ OneRowPerWindow'
  <2> HIDE DEF t, row
  <2> QED
    BY <1>1, <1>2, <1>4, <1>5, <1>6, <1>7, <1>8, SettleGate DEF row
<1>10. PendingAlone'
  <2>1. \A x, y \in Deciding' : SameWindow(Ticket(job'[x]), Ticket(job'[y])) => x = y
    BY <1>3, Zenon DEF GateInv, PendingAlone
  <2>2. \A x \in Deciding', a \in agents' : ~SameWindow(Ticket(job'[x]), Ticket(a))
    BY <1>1, <1>3, Zenon DEF GateInv, PendingAlone
  <2>3. \A a, b \in agents' : SameWindow(Ticket(a), Ticket(b)) => a = b
    BY <1>1 DEF GateInv, PendingAlone
  <2> QED
    BY <1>9, <2>1, <2>2, <2>3, Zenon DEF PendingAlone, SameWindow, Ticket
<1> QED
  BY <1>9, <1>10 DEF GateInv

\* An agent that records its incident is gone.
LEMMA AgentRecordsGate ==
  ASSUME TypeOK, GateInv, NEW a \in agents, AgentRecords(a)
  PROVE  GateInv'
<1>1. agents' = agents \ {a} /\ UNCHANGED <<pc, job, posted, throttle, window>>
  BY DEF AgentRecords, redis
<1>2. PICK action \in AgentActions :
        /\ RecordIncident(RowOf(a, action))
        /\ outbox' = outbox \cup {RowOf(a, action)}
  BY Zenon DEF AgentRecords
<1> DEFINE t == Ticket(a)
           row == RowOf(a, action)
<1>3. Deciding' = Deciding /\ job' = job
  BY <1>1 DEF Deciding
<1>4. t \in Pending
  BY Zenon DEF Pending
<1>5. row \in Row
  <2>1. a \in Job /\ a.log \in Logs /\ a.vec \in Vectors
    BY DEF TypeOK
  <2> QED
    BY <2>1, RowType
<1>6. TicketOf(row) = t
  BY DEF TicketOf, RowOf, Ticket
<1>7. Pending' \subseteq Pending
  BY <1>1, <1>3, Zenon DEF Pending, Ticket
<1>8. \A p \in Pending' : ~SameWindow(p, t)
  <2>1. \A x \in Deciding' : ~SameWindow(Ticket(job'[x]), t)
    BY <1>3, Zenon DEF GateInv, PendingAlone
  <2>2. \A b \in agents' : ~SameWindow(Ticket(b), t)
    BY <1>1 DEF GateInv, PendingAlone
  <2> QED
    BY <2>1, <2>2, Zenon DEF Pending, Ticket
<1>9. /\ (\A s \in Tickets : Begun(s))'
      /\ OneEventPerWindow'
      /\ \A p \in Pending', r \in Recorded' : ~SameWindow(p, r)
      /\ OneRowPerWindow'
  <2> HIDE DEF t, row
  <2> QED
    BY <1>1, <1>2, <1>4, <1>5, <1>6, <1>7, <1>8, SettleGate DEF row
<1>10. PendingAlone'
  <2>1. \A x, y \in Deciding' : SameWindow(Ticket(job'[x]), Ticket(job'[y])) => x = y
    BY <1>3, Zenon DEF GateInv, PendingAlone
  <2>2. \A x \in Deciding', b \in agents' : ~SameWindow(Ticket(job'[x]), Ticket(b))
    BY <1>1, <1>3, Zenon DEF GateInv, PendingAlone
  <2>3. \A b, c \in agents' : SameWindow(Ticket(b), Ticket(c)) => b = c
    BY <1>1, Zenon DEF GateInv, PendingAlone
  <2> QED
    BY <1>9, <2>1, <2>2, <2>3, Zenon DEF PendingAlone, SameWindow, Ticket
<1> QED
  BY <1>9, <1>10 DEF GateInv

\* A worker that takes a line, calls the engine or a store, or adds to the
\* cache brings no ticket.
LEMMA CallsQuiet ==
  ASSUME TypeOK, NEW w \in Workers,
         \/ \E log \in Logs : CacheHit(w, log) \/ CacheMiss(w, log)
         \/ Infer(w) \/ InferFails(w) \/ Query(w) \/ SCard(w)
         \/ SAdd(w) \/ Expire(w) \/ Upsert(w) \/ Add(w)
  PROVE  QuietStep
<1>1. /\ UNCHANGED <<throttle, window, audit, rest>>
      /\ \E step \in {"query", "infer", "idle", "sadd", "expire", "scard",
                      "upsert", "setnx"} : pc' = [pc EXCEPT ![w] = step]
      /\ \A x \in Workers : x # w => job'[x] = job[x]
  <2>1. CASE \E log \in Logs : CacheHit(w, log) \/ CacheMiss(w, log)
    <3>1. PICK log \in Logs : CacheHit(w, log) \/ CacheMiss(w, log)
      BY <2>1
    <3>2. /\ UNCHANGED <<throttle, window, audit, rest>>
          /\ pc' = [pc EXCEPT ![w] = "query"] \/ pc' = [pc EXCEPT ![w] = "infer"]
      BY <3>1, Zenon DEF CacheHit, CacheMiss, Goto, stores, redis
    <3>3. PICK j : job' = [job EXCEPT ![w] = j]
      BY <3>1, Zenon DEF CacheHit, CacheMiss
    <3>4. \A x \in Workers : x # w => job'[x] = job[x]
      BY <3>3, Zenon DEF TypeOK
    <3> QED
      BY <3>2, <3>4, Zenon
  <2>2. CASE InferFails(w)
    BY <2>2, SMT DEF InferFails, Local, Goto, TypeOK, stores, redis
  <2>3. CASE Infer(w)
    <3> DEFINE j == [job[w] EXCEPT !.vec = Embedding[job[w].log]]
    <3>1. Local(w, "infer", "query", j)
      BY <2>3 DEF Infer
    <3> HIDE DEF j
    <3> QED
      BY <3>1, SMT DEF Local, Goto, TypeOK, stores, redis
  <2>4. CASE Query(w)
    <3>1. PICK s : Local(w, "query", "sadd", [job[w] EXCEPT !.sim = s])
      BY <2>4, Zenon DEF Query
    <3> DEFINE j == [job[w] EXCEPT !.sim = s]
    <3>2. Local(w, "query", "sadd", j)
      BY <3>1
    <3> HIDE DEF j
    <3> QED
      BY <3>2, SMT DEF Local, Goto, TypeOK, stores, redis
  <2>5. CASE SCard(w)
    <3>1. PICK n : Local(w, "scard", "upsert",
                         [job[w] EXCEPT !.radius = IF n = 0 THEN 1 ELSE n])
      BY <2>5, Zenon DEF SCard
    <3> DEFINE j == [job[w] EXCEPT !.radius = IF n = 0 THEN 1 ELSE n]
    <3>2. Local(w, "scard", "upsert", j)
      BY <3>1
    <3> HIDE DEF j
    <3> QED
      BY <3>2, SMT DEF Local, Goto, TypeOK, stores, redis
  <2>6. CASE SAdd(w) \/ Expire(w) \/ Upsert(w)
    BY <2>6 DEF SAdd, Expire, Upsert, Goto, redis
  <2>7. CASE Add(w)
    BY <2>7 DEF Add, Goto, TypeOK, stores, redis
  <2> QED
    BY <2>1, <2>2, <2>3, <2>4, <2>5, <2>6, <2>7
<1>2. \A x \in Workers : pc'[x] = "decide" => pc[x] = "decide" /\ job'[x] = job[x]
  BY <1>1, SMT DEF TypeOK
<1> QED
  BY <1>1, <1>2 DEF QuietStep, rest, slack

\* The throttle turns a worker away, or the call fails and may leave a key
\* that nobody will settle.
LEMMA ThrottledQuiet ==
  ASSUME TypeOK, NEW w \in Workers, Throttled(w) \/ SetNXFails(w)
  PROVE  QuietStep
<1>1. /\ UNCHANGED <<window, audit, agents, slack>>
      /\ Return(w) /\ pc[w] = "setnx"
  BY DEF Throttled, SetNXFails, stores, redis, rest
<1>2. job[w].vec \in Vectors
  BY <1>1 DEF TypeOK
<1>3. \A q \in Vectors : throttle[q] => throttle'[q]
  <2>1. CASE Throttled(w)
    BY <2>1 DEF Throttled, stores, redis
  <2>2. CASE SetNXFails(w)
    <3>1. throttle' = throttle \/ throttle' = [throttle EXCEPT ![job[w].vec] = TRUE]
      BY <2>2, Zenon DEF SetNXFails
    <3> QED
      BY <3>1, <1>2, Zenon DEF TypeOK
  <2> QED
    BY <2>1, <2>2
<1>4. \A x \in Workers : pc'[x] = "decide" => pc[x] = "decide" /\ job'[x] = job[x]
  BY <1>1 DEF Return, Goto, TypeOK
<1> QED
  BY <1>1, <1>3, <1>4 DEF QuietStep, slack

\* Alerts move from the outbox to Slack or are lost; keys lapse; a crash
\* forgets what is pending.
LEMMA WorldQuiet ==
  ASSUME TypeOK,
         \/ \E alert \in outbox : Post(alert)
         \/ \E q \in Vectors : ThrottleLapses(q) \/ BlastLapses(q)
         \/ Crash
         \/ UNCHANGED vars
  PROVE  QuietStep
<1>1. CASE \E alert \in outbox : Post(alert)
  <2>1. outbox' \cup posted' \subseteq outbox \cup posted
    BY <1>1, Zenon DEF Post
  <2>2. UNCHANGED <<pc, job, agents, audit, throttle, window>>
    BY <1>1 DEF Post, redis
  <2> QED
    BY <2>1, <2>2 DEF QuietStep
<1>2. CASE \E q \in Vectors : ThrottleLapses(q)
  <2>1. PICK q \in Vectors : ThrottleLapses(q)
    BY <1>2
  <2>2. UNCHANGED <<pc, job, agents, audit, outbox, posted>>
    BY <2>1 DEF ThrottleLapses, rest, slack
  <2>3. ASSUME NEW x \in Vectors
        PROVE  \/ window'[x] = window[x] /\ (throttle[x] => throttle'[x])
               \/ window'[x] = window[x] + 1
    BY <2>1 DEF ThrottleLapses, TypeOK
  <2> QED
    BY <2>2, <2>3 DEF QuietStep
<1>3. CASE \E q \in Vectors : BlastLapses(q)
  BY <1>3 DEF BlastLapses, QuietStep, rest, slack
<1>4. CASE Crash
  BY <1>4 DEF Crash, QuietStep, redis
<1>5. CASE UNCHANGED vars
  BY <1>5 DEF vars, QuietStep, stores, redis, rest, slack
<1> QED
  BY <1>1, <1>2, <1>3, <1>4, <1>5

LEMMA NextGate == TypeOK /\ GateInv /\ [Next]_vars => GateInv'
<1> SUFFICES ASSUME TypeOK, GateInv, [Next]_vars
             PROVE  GateInv'
  OBVIOUS
<1>1. CASE QuietStep
  BY <1>1, QuietGate
<1>2. ASSUME NEW w \in Workers,
             (\E log \in Logs : CacheHit(w, log) \/ CacheMiss(w, log)) \/ Process(w)
      PROVE  GateInv'
  BY <1>1, <1>2, CallsQuiet, ThrottledQuiet, SetNXGate, DispatchGate, RecordGate
     DEF Process
<1>3. ASSUME NEW a \in agents, AgentRecords(a)
      PROVE  GateInv'
  BY <1>3, AgentRecordsGate
<1>4. CASE \/ \E alert \in outbox : Post(alert)
           \/ \E q \in Vectors : ThrottleLapses(q) \/ BlastLapses(q)
           \/ Crash
           \/ UNCHANGED vars
  BY <1>1, <1>4, WorldQuiet
<1>5. CASE Drained
  BY <1>4, <1>5 DEF Drained
<1> QED
  BY <1>2, <1>3, <1>4, <1>5 DEF Next

THEOREM GateInvariant == Spec => []GateInv
  BY TypeCorrect, InitGate, NextGate, PTL DEF Spec

\* In a throttle window of an incident, everything that was ever let through
\* - workers deciding, agents, rows, alerts - stems from one line of the
\* stream, whatever number of workers, failing calls and crashes.
THEOREM OneEvent == Spec => []OneEventPerWindow
<1>1. GateInv => OneEventPerWindow
  BY DEF GateInv
<1> QED
  BY <1>1, GateInvariant, PTL

\* In a throttle window of an incident the audit trail gets one row at most.
THEOREM OneRow == Spec => []OneRowPerWindow
<1>1. GateInv => OneRowPerWindow
  BY DEF GateInv
<1> QED
  BY <1>1, GateInvariant, PTL

-----------------------------------------------------------------------------
(* Orchestrator implements AlertGate: every step of a worker, an agent,     *)
(* Redis or a crash is a step of the throttle as seen from outside, or      *)
(* leaves it alone.                                                        *)

\* Incidents whose window is open, as Gate defines them.
Open == {q \in Vectors : throttle[q]}

\* Nothing AlertGate speaks of changes.
GateSame == UNCHANGED <<Open, window, Owed, Settled, lost>>

LEMMA SameStep ==
  ASSUME GateSame
  PROVE  UNCHANGED Gate!gateVars
  BY DEF GateSame, Gate!gateVars, Open, Owed, Settled

LEMMA InitImplements == Init => Gate!Init
<1> SUFFICES ASSUME Init
             PROVE  Gate!Init
  OBVIOUS
<1>1. Deciding = {} /\ agents = {} /\ DOMAIN audit = {}
  BY SMT DEF Init, Deciding
<1>2. Pending = {} /\ Recorded = {}
  BY <1>1, Zenon DEF Pending, Recorded
<1>3. {q \in Vectors : throttle[q]} = {} /\ window = [q \in Vectors |-> 0] /\ lost = {}
  BY DEF Init
<1>4. Owed = {} /\ Settled = {}
  BY <1>2, Zenon DEF Owed, Settled
<1> QED
  BY <1>3, <1>4, Zenon DEF Gate!Init

-----------------------------------------------------------------------------
(* Steps that AlertGate does not see                                       *)

\* A worker that does not decide, and is the only one to move.
Elsewhere(w) ==
    /\ pc[w] # "decide" /\ pc'[w] # "decide"
    /\ \A x \in Workers : x # w => pc'[x] = pc[x] /\ job'[x] = job[x]
    /\ agents' = agents
    /\ audit' = audit

LEMMA ElsewherePending ==
  ASSUME NEW w \in Workers, Elsewhere(w)
  PROVE  Pending' = Pending /\ Recorded' = Recorded
<1>1. Deciding' = Deciding /\ \A x \in Deciding : job'[x] = job[x]
  BY Zenon DEF Elsewhere, Deciding
<1>2. Pending' = Pending
  BY <1>1, Zenon DEF Pending, Ticket, Elsewhere
<1> QED
  BY <1>2 DEF Recorded, Elsewhere

\* Taking a line, calling the engine or a store, adding to the cache, and
\* being turned away by the throttle.
LEMMA CallsElsewhere ==
  ASSUME TypeOK, NEW w \in Workers,
         \/ \E log \in Logs : CacheHit(w, log) \/ CacheMiss(w, log)
         \/ Infer(w) \/ InferFails(w) \/ Query(w) \/ SCard(w)
         \/ SAdd(w) \/ Expire(w) \/ Upsert(w) \/ Add(w)
  PROVE  GateSame
<1>1. /\ UNCHANGED <<throttle, window, audit, agents, lost>>
      /\ pc[w] # "decide"
      /\ \E step \in Steps \ {"decide"} : pc' = [pc EXCEPT ![w] = step]
  <2>1. CASE \E log \in Logs : CacheHit(w, log) \/ CacheMiss(w, log)
    <3>1. PICK log \in Logs : CacheHit(w, log) \/ CacheMiss(w, log)
      BY <2>1
    <3>2. /\ UNCHANGED <<throttle, window, audit, rest>>
          /\ pc' = [pc EXCEPT ![w] = "query"] \/ pc' = [pc EXCEPT ![w] = "infer"]
          /\ pc[w] = "idle"
      BY <3>1, Zenon DEF CacheHit, CacheMiss, Receive, Goto, stores, redis
    <3> QED
      BY <3>2 DEF rest, Steps
  <2>2. CASE InferFails(w) \/ Infer(w)
    BY <2>2, Zenon DEF InferFails, Infer, Local, Goto, stores, redis, rest, Steps
  <2>3. CASE Query(w)
    <3>1. /\ pc[w] = "query" /\ pc' = [pc EXCEPT ![w] = "sadd"]
          /\ UNCHANGED <<received, cache, stores, rest>>
      BY <2>3, Zenon DEF Query, Local, Goto
    <3> QED
      BY <3>1 DEF stores, redis, rest, Steps
  <2>4. CASE SCard(w)
    <3>1. /\ pc[w] = "scard" /\ pc' = [pc EXCEPT ![w] = "upsert"]
          /\ UNCHANGED <<received, cache, stores, rest>>
      BY <2>4, Zenon DEF SCard, Local, Goto
    <3> QED
      BY <3>1 DEF stores, redis, rest, Steps
  <2>5. CASE SAdd(w) \/ Expire(w) \/ Upsert(w) \/ Add(w)
    BY <2>5 DEF SAdd, Expire, Upsert, Add, Goto, stores, redis, rest, Steps
  <2> QED
    BY <2>1, <2>2, <2>3, <2>4, <2>5
<1>2. QuietStep
  BY CallsQuiet
<1>3. \A x \in Workers : x # w => pc'[x] = pc[x]
  BY <1>1, Zenon DEF TypeOK
<1>4. Deciding' = Deciding
  BY <1>1, <1>3, Zenon DEF Deciding, TypeOK, Steps
<1>5. \A x \in Deciding : job'[x] = job[x]
  BY <1>2, <1>4, Zenon DEF Deciding, QuietStep
<1>6. Pending' = Pending /\ Recorded' = Recorded
  BY <1>1, <1>4, <1>5, Zenon DEF Pending, Recorded, Ticket
<1> QED
  BY <1>1, <1>6 DEF GateSame, Open, Owed, Settled

LEMMA TurnedAway ==
  ASSUME TypeOK, NEW w \in Workers, pc[w] = "setnx", Return(w),
         UNCHANGED <<audit, agents>>
  PROVE  Pending' = Pending /\ Recorded' = Recorded
<1>1. /\ pc'[w] # "decide"
      /\ \A x \in Workers : x # w => pc'[x] = pc[x] /\ job'[x] = job[x]
  BY DEF Return, Goto, TypeOK
<1> QED
  BY <1>1, ElsewherePending DEF Elsewhere

\* Dispatch hands the debt of the worker to the agent.
LEMMA DispatchSame ==
  ASSUME TypeOK, NEW w \in Workers, Dispatch(w)
  PROVE  GateSame
<1>1. /\ pc[w] = "decide" /\ Return(w)
      /\ agents' = agents \cup {job[w]}
      /\ UNCHANGED <<audit, throttle, window, lost>>
  BY DEF Dispatch, stores, redis
<1>2. /\ Deciding' = Deciding \ {w} /\ w \in Deciding
      /\ \A x \in Deciding' : job'[x] = job[x]
  BY <1>1, ReturnDeciding
<1>3. Pending' = Pending
  BY <1>1, <1>2, Zenon DEF Pending, Ticket
<1>4. Recorded' = Recorded
  BY <1>1 DEF Recorded
<1> QED
  BY <1>1, <1>3, <1>4 DEF GateSame, Open, Owed, Settled

-----------------------------------------------------------------------------
(* Steps that AlertGate sees                                               *)

\* SETNX: the incident is opened, and its row owed.
LEMMA SetNXClaims ==
  ASSUME TypeOK, NEW w \in Workers, SetNX(w)
  PROVE  \E q \in Vectors : Gate!Claim(q)
<1> DEFINE q == job[w].vec
           t0 == [ev |-> job[w].ev, q |-> q, window |-> window[q]]
<1>1. /\ pc[w] = "setnx" /\ ~throttle[q]
      /\ throttle' = [throttle EXCEPT ![q] = TRUE]
      /\ job' = [job EXCEPT ![w].window = window[q]]
      /\ pc' = [pc EXCEPT ![w] = "decide"]
      /\ UNCHANGED <<window, audit, agents, lost>>
  BY DEF SetNX, Goto, rest
<1>2. job[w] \in Job /\ q \in Vectors
  BY <1>1 DEF TypeOK
<1>3. Ticket(job'[w]) = t0
  <2>1. job'[w] = [job[w] EXCEPT !.window = window[q]]
    BY <1>1 DEF TypeOK
  <2>2. ASSUME NEW j \in Job, NEW n
        PROVE  Ticket([j EXCEPT !.window = n]) = [ev |-> j.ev, q |-> j.vec, window |-> n]
    BY SMT DEF Job, Ticket
  <2> QED
    BY <1>2, <2>1, <2>2
<1>4. Deciding' = Deciding \cup {w} /\ w \notin Deciding
  BY <1>1 DEF Deciding, TypeOK
<1>5. \A x \in Deciding : job'[x] = job[x]
  BY <1>1, <1>4 DEF Deciding, TypeOK
<1>6. Pending' = Pending \cup {t0}
  BY <1>1, <1>3, <1>4, <1>5, Zenon DEF Pending, Ticket
<1>7. Recorded' = Recorded
  BY <1>1 DEF Recorded
<1>8. t0.q = q /\ t0.window = window[q]
  OBVIOUS
<1> HIDE DEF q, t0
<1>9. Open' = Open \cup {q} /\ q \notin Open
  BY <1>1, <1>2, Zenon DEF Open, TypeOK
<1>10. Owed' = Owed \cup {<<q, window[q]>>}
  BY <1>6, <1>8, Zenon DEF Owed
<1>11. Settled' = Settled
  BY <1>7 DEF Settled
<1> QED
  BY <1>1, <1>2, <1>9, <1>10, <1>11 DEF Gate!Claim, Open, Owed, Settled

\* The throttle turns a worker away; a call that fails may have burnt the
\* window.
LEMMA ThrottledBurns ==
  ASSUME TypeOK, NEW w \in Workers, Throttled(w) \/ SetNXFails(w)
  PROVE  GateSame \/ \E q \in Vectors : Gate!Burn(q)
<1>1. /\ UNCHANGED <<window, audit, agents>>
      /\ Return(w) /\ pc[w] = "setnx"
  BY DEF Throttled, SetNXFails, stores, redis, rest
<1>2. Pending' = Pending /\ Recorded' = Recorded
  BY <1>1, TurnedAway
<1>3. Owed' = Owed /\ Settled' = Settled
  BY <1>2 DEF Owed, Settled
<1> DEFINE q == job[w].vec
<1>4. q \in Vectors
  BY <1>1 DEF TypeOK
<1>5. CASE Throttled(w)
  <2>1. Open' = Open /\ lost' = lost
    BY <1>5 DEF Throttled, stores, redis, rest, Open
  <2> QED
    BY <1>1, <1>3, <2>1 DEF GateSame
<1>6. CASE SetNXFails(w)
  <2>1. "redis" \in Faults
    BY <1>6 DEF SetNXFails
  <2> HIDE DEF q
  <2>2. CASE UNCHANGED <<throttle, lost>>
    BY <1>1, <1>3, <2>2 DEF GateSame, Open
  <2>3. CASE /\ ~throttle[q]
             /\ throttle' = [throttle EXCEPT ![q] = TRUE]
             /\ lost' = lost \cup {<<q, window[q]>>}
    <3>1. Open' = Open \cup {q} /\ q \notin Open
      BY <1>4, <2>3, Zenon DEF Open, TypeOK
    <3> QED
      BY <1>1, <1>3, <1>4, <2>1, <2>3, <3>1 DEF Gate!Burn, Open
  <2> QED
    BY <1>6, <2>2, <2>3 DEF SetNXFails, q
<1> QED
  BY <1>5, <1>6

\* A pending ticket t is recorded, or its insert fails: the debt is settled,
\* or given up.
LEMMA RecordSettles ==
  ASSUME TypeOK, NEW t \in Pending, NEW row \in Row, TicketOf(row) = t,
         RecordIncident(row), UNCHANGED <<throttle, window>>,
         Pending' = Pending \ {t},
         \A p \in Pending' : ~SameWindow(p, t)
  PROVE  \E c \in Owed : Gate!Settle(c) \/ Gate!GiveUp(c)
<1> DEFINE c == <<t.q, t.window>>
<1>1. c \in Owed
  BY Zenon DEF Owed
<1>2. Owed' = Owed \ {c}
  <2>1. \A p \in Pending' : <<p.q, p.window>> # c
    BY DEF SameWindow
  <2> QED
    BY <2>1, Zenon DEF Owed
<1>3. Open' = Open
  BY DEF Open
<1>4. CASE audit' = Append(audit, row) /\ lost' = lost
  <2>1. /\ DOMAIN audit' = DOMAIN audit \cup {Len(audit) + 1}
        /\ audit'[Len(audit) + 1] = row
        /\ \A i \in DOMAIN audit : audit'[i] = audit[i]
    BY <1>4, SMT DEF TypeOK
  <2>2. Recorded' = Recorded \cup {t}
    <3> DEFINE new == Len(audit) + 1
    <3>1. DOMAIN audit' = DOMAIN audit \cup {new} /\ TicketOf(audit'[new]) = t
      BY <2>1
    <3>2. \A i \in DOMAIN audit : TicketOf(audit'[i]) = TicketOf(audit[i])
      BY <2>1, Zenon
    <3>3. Recorded' = {TicketOf(audit'[i]) : i \in DOMAIN audit'}
      BY DEF Recorded, TicketOf
    <3> HIDE DEF new
    <3>4. Recorded' \subseteq Recorded \cup {t}
      BY <3>1, <3>2, <3>3, Zenon DEF Recorded
    <3>5. Recorded \cup {t} \subseteq Recorded'
      BY <3>1, <3>2, <3>3, Zenon DEF Recorded
    <3> QED
      BY <3>4, <3>5
  <2>3. Settled' = Settled \cup {c}
    BY <2>2, Zenon DEF Settled
  <2> HIDE DEF c
  <2>4. Gate!Settle(c)
    BY <1>1, <1>2, <1>3, <1>4, <2>3, Zenon DEF Gate!Settle, Open
  <2> QED
    BY <1>1, <2>4
<1>5. CASE "db" \in Faults /\ lost' = lost \cup {c} /\ audit' = audit
  <2>1. Settled' = Settled
    BY <1>5 DEF Settled, Recorded
  <2> HIDE DEF c
  <2>2. Gate!GiveUp(c)
    BY <1>1, <1>2, <1>3, <1>5, <2>1, Zenon DEF Gate!GiveUp, Open
  <2> QED
    BY <1>1, <2>2
<1>6. row.q = t.q /\ row.window = t.window
  BY DEF TicketOf
<1> QED
  BY <1>4, <1>5, <1>6 DEF RecordIncident

LEMMA WorkerSettles ==
  ASSUME TypeOK, GateInv, NEW w \in Workers, Record(w)
  PROVE  \E c \in Owed : Gate!Settle(c) \/ Gate!GiveUp(c)
<1>1. /\ pc[w] = "decide" /\ Return(w)
      /\ UNCHANGED <<agents, throttle, window>>
  BY DEF Record, redis
<1>2. PICK action \in WorkerActions : RecordIncident(RowOf(job[w], action))
  BY Zenon DEF Record, WorkerActions
<1> DEFINE t == Ticket(job[w])
           row == RowOf(job[w], action)
<1>3. /\ Deciding' = Deciding \ {w} /\ w \in Deciding
      /\ \A x \in Deciding' : x \in Deciding /\ x # w /\ job'[x] = job[x]
  BY <1>1, ReturnDeciding
<1>4. t \in Pending
  BY <1>3, Zenon DEF Pending
<1>5. row \in Row
  <2>1. job[w] \in Job /\ job[w].log \in Logs /\ job[w].vec \in Vectors
    BY <1>1 DEF TypeOK
  <2> QED
    BY <2>1, RowType
<1>6. TicketOf(row) = t
  BY DEF TicketOf, RowOf, Ticket
<1>7. \A p \in Pending' : ~SameWindow(p, t)
  <2>1. \A x \in Deciding' : ~SameWindow(Ticket(job'[x]), t)
    BY <1>3, Zenon DEF GateInv, PendingAlone
  <2>2. \A a \in agents' : ~SameWindow(Ticket(a), t)
    BY <1>1, <1>3 DEF GateInv, PendingAlone, SameWindow
  <2> QED
    BY <2>1, <2>2, Zenon DEF Pending, Ticket
<1>8. Pending \subseteq Pending' \cup {t} /\ Pending' \subseteq Pending
  BY <1>1, <1>3, Zenon DEF Pending, Ticket
<1>9. Pending' = Pending \ {t}
  <2>1. t \notin Pending'
    BY <1>7, Zenon DEF SameWindow
  <2> HIDE DEF t
  <2> QED
    BY <1>8, <2>1
<1> HIDE DEF t, row
<1> QED
  BY <1>1, <1>2, <1>4, <1>5, <1>6, <1>7, <1>9, RecordSettles DEF row

LEMMA AgentSettles ==
  ASSUME TypeOK, GateInv, NEW a \in agents, AgentRecords(a)
  PROVE  \E c \in Owed : Gate!Settle(c) \/ Gate!GiveUp(c)
<1>1. agents' = agents \ {a} /\ UNCHANGED <<pc, job, throttle, window>>
  BY DEF AgentRecords, redis
<1>2. PICK action \in AgentActions : RecordIncident(RowOf(a, action))
  BY Zenon DEF AgentRecords
<1> DEFINE t == Ticket(a)
           row == RowOf(a, action)
<1>3. Deciding' = Deciding /\ job' = job
  BY <1>1 DEF Deciding
<1>4. t \in Pending
  BY Zenon DEF Pending
<1>5. row \in Row
  <2>1. a \in Job /\ a.log \in Logs /\ a.vec \in Vectors
    BY DEF TypeOK
  <2> QED
    BY <2>1, RowType
<1>6. TicketOf(row) = t
  BY DEF TicketOf, RowOf, Ticket
<1>7. \A p \in Pending' : ~SameWindow(p, t)
  <2>1. \A x \in Deciding' : ~SameWindow(Ticket(job'[x]), t)
    BY <1>3, Zenon DEF GateInv, PendingAlone
  <2>2. \A b \in agents' : ~SameWindow(Ticket(b), t)
    BY <1>1 DEF GateInv, PendingAlone
  <2> QED
    BY <2>1, <2>2, Zenon DEF Pending, Ticket
<1>8. Pending \subseteq Pending' \cup {t} /\ Pending' \subseteq Pending
  BY <1>1, <1>3, Zenon DEF Pending, Ticket
<1>9. Pending' = Pending \ {t}
  <2>1. t \notin Pending'
    BY <1>7, Zenon DEF SameWindow
  <2> HIDE DEF t
  <2> QED
    BY <1>8, <2>1
<1> HIDE DEF t, row
<1> QED
  BY <1>1, <1>2, <1>4, <1>5, <1>6, <1>7, <1>9, RecordSettles DEF row

\* Redis, Slack and the process.
LEMMA WorldImplements ==
  ASSUME TypeOK,
         \/ \E alert \in outbox : Post(alert)
         \/ \E q \in Vectors : ThrottleLapses(q) \/ BlastLapses(q)
         \/ Crash
         \/ UNCHANGED vars
  PROVE  GateSame \/ Gate!Forget \/ \E q \in Vectors : Gate!Lapse(q)
<1>1. CASE (\E alert \in outbox : Post(alert)) \/ (\E q \in Vectors : BlastLapses(q))
           \/ UNCHANGED vars
  <2>1. UNCHANGED <<pc, job, agents, audit, throttle, window, lost>>
    BY <1>1 DEF Post, BlastLapses, vars, stores, redis, rest
  <2> QED
    BY <2>1 DEF GateSame, Open, Owed, Settled, Pending, Recorded, Deciding
<1>2. CASE \E q \in Vectors : ThrottleLapses(q)
  <2>1. PICK q \in Vectors : ThrottleLapses(q)
    BY <1>2
  <2>2. UNCHANGED <<pc, job, agents, audit, lost>>
    BY <2>1 DEF ThrottleLapses, rest
  <2>3. UNCHANGED <<Owed, Settled>>
    BY <2>2 DEF Owed, Settled, Pending, Recorded, Deciding
  <2>4. /\ q \in Open /\ Open' = Open \ {q}
        /\ window' = [window EXCEPT ![q] = @ + 1]
    BY <2>1, Zenon DEF ThrottleLapses, Open, TypeOK
  <2> QED
    BY <2>2, <2>3, <2>4 DEF Gate!Lapse, Open
<1>3. CASE Crash
  <2>1. /\ UNCHANGED <<throttle, window, audit>>
        /\ "crash" \in Faults
        /\ pc' = [w \in Workers |-> "idle"] /\ agents' = {}
        /\ lost' = lost \cup Owed
    BY <1>3 DEF Crash, redis
  <2>2. Deciding' = {}
    BY <2>1 DEF Deciding
  <2>3. Pending' = {}
    BY <2>1, <2>2, Zenon DEF Pending
  <2>4. Owed' = {}
    BY <2>3, Zenon DEF Owed
  <2>5. Open' = Open /\ Settled' = Settled
    BY <2>1 DEF Open, Settled, Recorded
  <2>6. Gate!Forget
    BY <2>1, <2>4, <2>5, Zenon DEF Gate!Forget, Open
  <2> QED
    BY <2>6
<1> QED
  BY <1>1, <1>2, <1>3

LEMMA NextImplements ==
  TypeOK /\ GateInv /\ [Next]_vars => [Gate!Next]_(Gate!gateVars)
<1> SUFFICES ASSUME TypeOK, GateInv, [Next]_vars
             PROVE  Gate!Next \/ UNCHANGED Gate!gateVars
  OBVIOUS
<1> USE SameStep
<1>1. ASSUME NEW w \in Workers,
             (\E log \in Logs : CacheHit(w, log) \/ CacheMiss(w, log)) \/ Process(w)
      PROVE  Gate!Next \/ UNCHANGED Gate!gateVars
  <2>1. CASE SetNX(w)
    BY <2>1, SetNXClaims DEF Gate!Next
  <2>2. CASE Throttled(w) \/ SetNXFails(w)
    BY <2>2, ThrottledBurns DEF Gate!Next
  <2>3. CASE Dispatch(w)
    BY <2>3, DispatchSame
  <2>4. CASE Record(w)
    BY <2>4, WorkerSettles DEF Gate!Next
  <2> QED
    BY <1>1, <2>1, <2>2, <2>3, <2>4, CallsElsewhere DEF Process
<1>2. ASSUME NEW a \in agents, AgentRecords(a)
      PROVE  Gate!Next
  BY <1>2, AgentSettles DEF Gate!Next
<1>3. CASE \/ \E alert \in outbox : Post(alert)
           \/ \E q \in Vectors : ThrottleLapses(q) \/ BlastLapses(q)
           \/ Crash
           \/ UNCHANGED vars
  BY <1>3, WorldImplements DEF Gate!Next
<1>4. CASE Drained
  BY <1>3, <1>4 DEF Drained
<1> QED
  BY <1>1, <1>2, <1>3, <1>4 DEF Next

\* Seen from outside, sixteen workers, their agents, four stores that fail and
\* a process that crashes behave as AlertGate: a window has one debtor, whose
\* debt is settled by one row, or dropped when a call fails.
THEOREM ImplementsGate == Spec => GateSpec
  BY TypeCorrect, GateInvariant, InitImplements, NextImplements, PTL
     DEF Spec, GateSpec, Gate!Spec

-----------------------------------------------------------------------------
(* No window goes missing.  That is a property of AlertGate, and its proof  *)
(* is about the steps of AlertGate that those of Orchestrator have been     *)
(* shown to be; of Orchestrator it needs no more than its types.            *)

\* The windows that have begun, those of all numbers.
HasBegun(q, n) == n < window[q] \/ (n = window[q] /\ q \in Open)

LedgerInv ==
    /\ \A q \in Vectors, n \in Nat : HasBegun(q, n) <=> <<q, n>> \in Owed \cup Settled \cup lost
    /\ Owed \cap Settled = {}
    /\ (Owed \cup Settled) \cap lost = {}

LEMMA InitLedger == Init => LedgerInv
<1> SUFFICES ASSUME Init
             PROVE  LedgerInv
  OBVIOUS
<1>1. Owed = {} /\ Settled = {} /\ lost = {} /\ Open = {} /\ window = [q \in Vectors |-> 0]
  BY InitImplements DEF Gate!Init, Open
<1> QED
  BY <1>1, SMT DEF LedgerInv, HasBegun

\* A window begins, and goes to those who owe it or to the lost.
LEMMA OpenLedger ==
  ASSUME TypeOK, LedgerInv, NEW q \in Vectors, q \notin Open,
         Open' = Open \cup {q}, window' = window, Settled' = Settled,
         \/ Owed' = Owed \cup {<<q, window[q]>>} /\ lost' = lost
         \/ Owed' = Owed /\ lost' = lost \cup {<<q, window[q]>>}
  PROVE  LedgerInv'
<1>1. window[q] \in Nat
  BY DEF TypeOK
<1>2. <<q, window[q]>> \notin Owed \cup Settled \cup lost
  BY <1>1 DEF LedgerInv, HasBegun
<1>3. Owed' \cup Settled' \cup lost' = Owed \cup Settled \cup lost \cup {<<q, window[q]>>}
  OBVIOUS
<1>4. ASSUME NEW p \in Vectors, NEW n \in Nat
      PROVE  HasBegun(p, n)' <=> HasBegun(p, n) \/ <<p, n>> = <<q, window[q]>>
  BY DEF HasBegun
<1>5. ASSUME NEW p \in Vectors, NEW n \in Nat
      PROVE  HasBegun(p, n)' <=> <<p, n>> \in Owed' \cup Settled' \cup lost'
  BY <1>3, <1>4 DEF LedgerInv
<1>6. Owed' \cap Settled' = {} /\ (Owed' \cup Settled') \cap lost' = {}
  BY <1>2 DEF LedgerInv
<1> QED
  BY <1>5, <1>6, Zenon DEF LedgerInv

\* Debts are settled or lost.
LEMMA PayLedger ==
  ASSUME LedgerInv, NEW C \in SUBSET Owed, Open' = Open, window' = window,
         Owed' = Owed \ C,
         \/ Settled' = Settled \cup C /\ lost' = lost
         \/ Settled' = Settled /\ lost' = lost \cup C
  PROVE  LedgerInv'
<1>1. Owed' \cup Settled' \cup lost' = Owed \cup Settled \cup lost
  OBVIOUS
<1>2. \A p \in Vectors, n \in Nat : HasBegun(p, n)' <=> HasBegun(p, n)
  BY DEF HasBegun
<1>3. \A p \in Vectors, n \in Nat : HasBegun(p, n)' <=> <<p, n>> \in Owed' \cup Settled' \cup lost'
  BY <1>1, <1>2 DEF LedgerInv
<1>4. Owed' \cap Settled' = {} /\ (Owed' \cup Settled') \cap lost' = {}
  BY DEF LedgerInv
<1> QED
  BY <1>3, <1>4, Zenon DEF LedgerInv

\* A window that lapses has begun all the same.
LEMMA LapseLedger ==
  ASSUME TypeOK, LedgerInv, NEW q \in Vectors, q \in Open, Open' = Open \ {q},
         window' = [window EXCEPT ![q] = @ + 1],
         UNCHANGED <<Owed, Settled, lost>>
  PROVE  LedgerInv'
<1>1. ASSUME NEW p \in Vectors, NEW n \in Nat
      PROVE  HasBegun(p, n)' <=> HasBegun(p, n)
  <2>1. window[p] \in Nat /\ window'[p] = IF p = q THEN window[p] + 1 ELSE window[p]
    BY DEF TypeOK
  <2> QED
    BY <2>1 DEF HasBegun
<1>2. \A p \in Vectors, n \in Nat : HasBegun(p, n)' <=> <<p, n>> \in Owed' \cup Settled' \cup lost'
  BY <1>1 DEF LedgerInv
<1> QED
  BY <1>2, Zenon DEF LedgerInv

LEMMA GateLedger ==
  TypeOK /\ LedgerInv /\ [Gate!Next]_(Gate!gateVars) => LedgerInv'
<1> SUFFICES ASSUME TypeOK, LedgerInv, [Gate!Next]_(Gate!gateVars)
             PROVE  LedgerInv'
  OBVIOUS
<1>1. ASSUME NEW q \in Vectors, Gate!Claim(q) \/ Gate!Burn(q)
      PROVE  LedgerInv'
  <2>1. /\ q \notin Open /\ Open' = Open \cup {q} /\ window' = window /\ Settled' = Settled
        /\ \/ Owed' = Owed \cup {<<q, window[q]>>} /\ lost' = lost
           \/ Owed' = Owed /\ lost' = lost \cup {<<q, window[q]>>}
    BY <1>1, Zenon DEF Gate!Claim, Gate!Burn, Open
  <2> QED
    BY <2>1, OpenLedger
<1>2. ASSUME NEW q \in Vectors, Gate!Lapse(q)
      PROVE  LedgerInv'
  <2>1. /\ q \in Open /\ Open' = Open \ {q}
        /\ window' = [window EXCEPT ![q] = @ + 1]
        /\ UNCHANGED <<Owed, Settled, lost>>
    BY <1>2, Zenon DEF Gate!Lapse, Open
  <2> QED
    BY <2>1, LapseLedger
<1>3. ASSUME NEW c \in Owed, Gate!Settle(c) \/ Gate!GiveUp(c)
      PROVE  LedgerInv'
  <2>1. /\ Open' = Open /\ window' = window /\ Owed' = Owed \ {c}
        /\ \/ Settled' = Settled \cup {c} /\ lost' = lost
           \/ Settled' = Settled /\ lost' = lost \cup {c}
    BY <1>3, Zenon DEF Gate!Settle, Gate!GiveUp, Open
  <2>2. {c} \in SUBSET Owed
    OBVIOUS
  <2> QED
    BY <2>1, <2>2, PayLedger
<1>4. CASE Gate!Forget
  <2>1. /\ Open' = Open /\ window' = window /\ Owed' = {}
        /\ Settled' = Settled /\ lost' = lost \cup Owed
    BY <1>4, Zenon DEF Gate!Forget, Open
  <2>2. Owed' = Owed \ Owed /\ Owed \in SUBSET Owed
    BY <2>1
  <2> QED
    BY <2>1, <2>2, PayLedger
<1>5. CASE UNCHANGED Gate!gateVars
  <2>1. UNCHANGED <<Open, window, Owed, Settled, lost>>
    BY <1>5, Zenon DEF Gate!gateVars, Open
  <2> QED
    BY <2>1 DEF LedgerInv, HasBegun
<1> QED
  BY <1>1, <1>2, <1>3, <1>4, <1>5 DEF Gate!Next

\* Whatever calls fail and whenever the process dies, each window that has
\* begun is owed by somebody, or recorded, or lost to a failed insert, a SETNX
\* without an answer or a crash, and never two of these (main.go:269-299).
THEOREM WindowsAccounted == Spec => []EveryWindowAccounted
<1>1. LedgerInv => EveryWindowAccounted
  <2> SUFFICES ASSUME LedgerInv
               PROVE  EveryWindowAccounted
    OBVIOUS
  <2>1. ASSUME NEW q \in Vectors, NEW n \in 0..MaxWindows
        PROVE  n < window[q] \/ (n = window[q] /\ throttle[q])
                  <=> <<q, n>> \in Owed \cup Settled \cup lost
    <3>1. n \in Nat
      BY OrchestratorAssumption, SMT
    <3>2. HasBegun(q, n) <=> n < window[q] \/ (n = window[q] /\ throttle[q])
      BY Zenon DEF HasBegun, Open
    <3> QED
      BY <3>1, <3>2, Zenon DEF LedgerInv
  <2> QED
    BY <2>1, Zenon DEF LedgerInv, EveryWindowAccounted
<1>2. TypeOK /\ GateInv /\ LedgerInv /\ [Next]_vars => LedgerInv'
  BY NextImplements, GateLedger
<1> QED
  BY <1>1, <1>2, InitLedger, TypeCorrect, GateInvariant, PTL DEF Spec
=============================================================================
