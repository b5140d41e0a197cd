---------------------------- MODULE StoresProofs ----------------------------
(***************************************************************************)
(* Proofs about the stores of Orchestrator: that the embedding cache is    *)
(* sound, for any number of workers, any capacity and any stream of log    *)
(* lines; and that the audit trail and Slack agree with the vector store,  *)
(* and blast sets with their expiry, as long as the calls they rest on do  *)
(* not fail.                                                               *)
(***************************************************************************)
EXTENDS OrchestratorProofs

-----------------------------------------------------------------------------
(* The cache                                                               *)

\* An answer for a signature: the embedding of some line that has it.
Genuine(sig, vec) == \E log \in Logs : Signature[log] = sig /\ Embedding[log] = vec

\* What a worker brings along is an answer for its line.
JobGenuine == \A w \in Workers : pc[w] \notin {"idle", "infer"} =>
                  Genuine(Signature[job[w].log], job[w].vec)

CacheInv == CacheSound /\ JobGenuine

-----------------------------------------------------------------------------
(* Storing in the cache                                                    *)

LEMMA WithoutAt ==
  ASSUME cache \in Seq(Entry), NEW i \in DOMAIN cache
  PROVE  /\ Without(i) \in Seq(Entry)
         /\ Len(Without(i)) = Len(cache) - 1
         /\ \A k \in 1..(Len(cache) - 1) :
              Without(i)[k] = cache[IF k < i THEN k ELSE k + 1]
<1>1. /\ i \in Nat /\ 1 <= i /\ i <= Len(cache) /\ Len(cache) \in Nat
      /\ i - 1 \in Int /\ i + 1 \in Int /\ 1 \in Int
      /\ \A k \in 1..(i - 1) : cache[k] \in Entry
      /\ \A k \in (i + 1)..Len(cache) : cache[k] \in Entry
  BY SMT
<1> DEFINE front == SubSeq(cache, 1, i - 1)
           back == SubSeq(cache, i + 1, Len(cache))
<1>2. /\ front \in Seq(Entry)
      /\ Len(front) = i - 1
      /\ \A k \in 1..(i - 1) : front[k] = cache[k]
  BY <1>1, SMT
<1>3. /\ back \in Seq(Entry)
      /\ Len(back) = Len(cache) - i
      /\ \A k \in 1..(Len(cache) - i) : back[k] = cache[i + k]
  BY <1>1, SMT
<1> HIDE DEF front, back
<1>4. /\ front \o back \in Seq(Entry)
      /\ Len(front \o back) = Len(front) + Len(back)
      /\ \A k \in 1..(Len(front) + Len(back)) :
           (front \o back)[k] = IF k <= Len(front) THEN front[k] ELSE back[k - Len(front)]
  BY <1>2, <1>3, ConcatProperties, Zenon
<1> DEFINE w == front \o back
<1>5. w \in Seq(Entry) /\ Len(w) = Len(cache) - 1
  BY <1>1, <1>2, <1>3, <1>4, SMT
<1>6. ASSUME NEW k \in 1..(Len(cache) - 1)
      PROVE  w[k] = cache[IF k < i THEN k ELSE k + 1]
  <2> HIDE DEF w
  <2>1. k \in 1..(Len(front) + Len(back))
    BY <1>1, <1>2, <1>3, SMTT(30)
  <2>2. w[k] = IF k <= Len(front) THEN front[k] ELSE back[k - Len(front)]
    BY <1>4, <2>1 DEF w
  <2>3. CASE k < i
    <3>1. k <= Len(front) /\ k \in 1..(i - 1)
      BY <1>1, <1>2, <2>3, SMT
    <3> QED
      BY <1>2, <2>2, <2>3, <3>1
  <2>4. CASE ~(k < i)
    <3>1. ~(k <= Len(front)) /\ k - Len(front) \in 1..(Len(cache) - i)
          /\ i + (k - Len(front)) = k + 1
      BY <1>1, <1>2, <2>4, SMTT(30)
    <3>2. back[k - Len(front)] = cache[i + (k - Len(front))]
      BY <1>3, <3>1
    <3> QED
      BY <2>2, <2>4, <3>1, <3>2
  <2> QED
    BY <2>3, <2>4
<1> QED
  BY <1>5, <1>6 DEF Without, front, back

\* Store keeps entries of other signatures, each once, and puts the new one
\* behind them.
Keeps(s, entry, at) ==
    /\ s \in Seq(Entry)
    /\ Len(s) \in 1..Capacity
    /\ s[Len(s)] = entry
    /\ at \in [1..(Len(s) - 1) -> DOMAIN cache]
    /\ \A k \in 1..(Len(s) - 1) : s[k] = cache[at[k]] /\ cache[at[k]].sig # entry.sig
    /\ \A k, l \in 1..(Len(s) - 1) : at[k] = at[l] => k = l

LEMMA StoreKeeps ==
  ASSUME cache \in Seq(Entry), CacheSound, NEW entry \in Entry
  PROVE  \E at : Keeps(Store(entry), entry, at)
<1>0. Capacity \in Nat /\ Capacity >= 1 /\ Len(cache) \in Nat /\ Len(cache) <= Capacity
  BY OrchestratorAssumption, SMT DEF CacheSound
<1>1. CASE Held(entry.sig) # {}
  <2> DEFINE i == CHOOSE i \in Held(entry.sig) : TRUE
  <2>1. i \in DOMAIN cache /\ cache[i].sig = entry.sig
    BY <1>1 DEF Held
  <2>2. Store(entry) = Append(Without(i), entry)
    BY <1>1, Zenon DEF Store
  <2> HIDE DEF i
  <2>3. /\ Without(i) \in Seq(Entry) /\ Len(Without(i)) = Len(cache) - 1
        /\ \A k \in 1..(Len(cache) - 1) : Without(i)[k] = cache[IF k < i THEN k ELSE k + 1]
    BY <2>1, WithoutAt
  <2> DEFINE w == Without(i)
             s == Append(w, entry)
             at == [k \in 1..(Len(s) - 1) |-> IF k < i THEN k ELSE k + 1]
  <2>4. /\ s \in Seq(Entry) /\ Len(s) = Len(cache) /\ s[Len(s)] = entry
        /\ \A k \in 1..(Len(cache) - 1) : s[k] = w[k]
    <3> HIDE DEF w
    <3>1. w \in Seq(Entry) /\ Len(w) = Len(cache) - 1
      BY <2>3 DEF w
    <3> QED
      BY <3>1, SMT
  <2> HIDE DEF w, s
  <2>5. i \in 1..Len(cache)
    BY <2>1, SMT
  <2>6. ASSUME NEW k \in 1..(Len(s) - 1)
        PROVE  at[k] = (IF k < i THEN k ELSE k + 1) /\ at[k] \in DOMAIN cache /\ at[k] # i
    BY <1>0, <2>4, <2>5, SMT
  <2>7. \A k, l \in 1..(Len(s) - 1) : at[k] = at[l] => k = l
    BY <1>0, <2>4, <2>5, SMT
  <2>8. ASSUME NEW k \in 1..(Len(s) - 1)
        PROVE  s[k] = cache[at[k]] /\ cache[at[k]].sig # entry.sig
    <3>1. k \in 1..(Len(cache) - 1)
      BY <2>4
    <3>2. s[k] = cache[at[k]]
      BY <2>3, <2>4, <2>6, <3>1 DEF w
    <3>3. cache[at[k]].sig # cache[i].sig
      BY <2>1, <2>6 DEF CacheSound
    <3> QED
      BY <2>1, <3>2, <3>3
  <2>9. at \in [1..(Len(s) - 1) -> DOMAIN cache]
    BY <2>6
  <2>10. Len(s) \in 1..Capacity
    BY <1>0, <2>4, <2>5, SMT
  <2> HIDE DEF at
  <2>11. Keeps(s, entry, at)
    BY <2>4, <2>7, <2>8, <2>9, <2>10 DEF Keeps
  <2> QED
    BY <2>2, <2>11 DEF s, w
<1>2. CASE Held(entry.sig) = {}
  <2>1. \A k \in DOMAIN cache : cache[k].sig # entry.sig
    BY <1>2 DEF Held
  <2>2. CASE Len(cache) = Capacity
    <3> DEFINE s == Append(Tail(cache), entry)
               at == [k \in 1..(Len(s) - 1) |-> k + 1]
    <3>1. Store(entry) = s
      BY <1>2, <2>2, Zenon DEF Store
    <3>2. /\ s \in Seq(Entry) /\ Len(s) = Len(cache) /\ s[Len(s)] = entry
          /\ \A k \in 1..(Len(cache) - 1) : s[k] = cache[k + 1]
      <4>1. cache # <<>>
        BY <1>0, <2>2, SMT
      <4> QED
        BY <4>1, SMT
    <3> HIDE DEF s
    <3>3. /\ \A k \in 1..(Len(s) - 1) : at[k] = k + 1 /\ at[k] \in DOMAIN cache
          /\ \A k, l \in 1..(Len(s) - 1) : at[k] = at[l] => k = l
          /\ Len(s) \in 1..Capacity
      BY <1>0, <2>2, <3>2, SMT
    <3>4. at \in [1..(Len(s) - 1) -> DOMAIN cache]
      BY <3>3
    <3> HIDE DEF at
    <3>5. Keeps(s, entry, at)
      BY <2>1, <3>2, <3>3, <3>4 DEF Keeps
    <3> QED
      BY <3>1, <3>5
  <2>3. CASE Len(cache) # Capacity
    <3> DEFINE s == Append(cache, entry)
               at == [k \in 1..(Len(s) - 1) |-> k]
    <3>1. Store(entry) = s
      BY <1>2, <2>3, Zenon DEF Store
    <3>2. /\ s \in Seq(Entry) /\ Len(s) = Len(cache) + 1 /\ s[Len(s)] = entry
          /\ \A k \in 1..Len(cache) : s[k] = cache[k]
      BY SMT
    <3> HIDE DEF s
    <3>3. /\ \A k \in 1..(Len(s) - 1) : at[k] = k /\ at[k] \in DOMAIN cache
          /\ \A k, l \in 1..(Len(s) - 1) : at[k] = at[l] => k = l
          /\ Len(s) \in 1..Capacity
          /\ \A k \in 1..(Len(s) - 1) : k \in 1..Len(cache)
      BY <1>0, <2>3, <3>2, SMT
    <3>4. at \in [1..(Len(s) - 1) -> DOMAIN cache]
      BY <3>3
    <3> HIDE DEF at
    <3>5. Keeps(s, entry, at)
      BY <2>1, <3>2, <3>3, <3>4 DEF Keeps
    <3> QED
      BY <3>1, <3>5
  <2> QED
    BY <2>2, <2>3
<1> QED
  BY <1>1, <1>2

LEMMA StoreSound ==
  ASSUME cache \in Seq(Entry), CacheSound, NEW entry \in Entry,
         Genuine(entry.sig, entry.vec), cache' = Store(entry)
  PROVE  CacheSound'
<1>1. PICK at : Keeps(cache', entry, at)
  BY StoreKeeps
<1> DEFINE n == Len(cache')
<1>2. /\ n \in Nat /\ 1 <= n /\ n <= Capacity
      /\ \A k \in DOMAIN cache' : k \in 1..(n - 1) \/ k = n
  BY <1>1, OrchestratorAssumption, SMT DEF Keeps
<1>3. \A k \in 1..(n - 1) : /\ at[k] \in DOMAIN cache
                           /\ cache'[k] = cache[at[k]] /\ cache'[k].sig # entry.sig
  BY <1>1 DEF Keeps
<1>4. cache'[n] = entry
  BY <1>1 DEF Keeps
<1>5. ASSUME NEW k \in DOMAIN cache', NEW l \in DOMAIN cache', cache'[k].sig = cache'[l].sig
      PROVE  k = l
  <2>1. CASE k \in 1..(n - 1) /\ l \in 1..(n - 1)
    <3>1. at[k] = at[l]
      BY <1>3, <1>5, <2>1 DEF CacheSound
    <3> QED
      BY <1>1, <2>1, <3>1 DEF Keeps
  <2> QED
    BY <1>2, <1>3, <1>4, <1>5, <2>1
<1>6. ASSUME NEW k \in DOMAIN cache'
      PROVE  Genuine(cache'[k].sig, cache'[k].vec)
  <2>1. CASE k \in 1..(n - 1)
    BY <1>3, <2>1 DEF CacheSound, Genuine
  <2> QED
    BY <1>2, <1>4, <2>1
<1> QED
  BY <1>2, <1>5, <1>6 DEF CacheSound, Genuine

-----------------------------------------------------------------------------
(* The steps of the cache                                                  *)

LEMMA InitCache == Init => CacheInv
  BY OrchestratorAssumption, SMT DEF Init, CacheInv, CacheSound, JobGenuine

\* A step of worker w after which it is where it has nothing to bring, or has
\* brought it already.
LEMMA WorkerGenuine ==
  ASSUME TypeOK, JobGenuine, NEW w \in Workers, NEW to, NEW j,
         pc' = [pc EXCEPT ![w] = to], job' = [job EXCEPT ![w] = j],
         to \notin {"idle", "infer"} => Genuine(Signature[j.log], j.vec)
  PROVE  JobGenuine'
<1>1. pc \in [Workers -> Steps] /\ job \in [Workers -> Job]
  BY DEF TypeOK
<1>2. ASSUME NEW x \in Workers, pc'[x] \notin {"idle", "infer"}
      PROVE  Genuine(Signature[job'[x].log], job'[x].vec)
  <2>1. CASE x = w
    BY <1>1, <1>2, <2>1
  <2>2. CASE x # w
    BY <1>1, <1>2, <2>2 DEF JobGenuine
  <2> QED
    BY <2>1, <2>2
<1> QED
  BY <1>2 DEF JobGenuine, Genuine

\* Steps that leave the cache alone, and line and embedding of each worker.
LEMMA KeepGenuine ==
  ASSUME CacheInv, cache' = cache,
         \A x \in Workers : pc'[x] \notin {"idle", "infer"} =>
             /\ pc[x] \notin {"idle", "infer"}
             /\ job'[x].log = job[x].log /\ job'[x].vec = job[x].vec
  PROVE  CacheInv'
<1>1. JobGenuine'
  BY DEF CacheInv, JobGenuine, Genuine
<1> QED
  BY <1>1 DEF CacheInv, CacheSound

LEMMA ReturnKeeps ==
  ASSUME TypeOK, NEW w \in Workers, pc[w] \notin {"idle", "infer"}, Return(w)
  PROVE  \A x \in Workers : pc'[x] \notin {"idle", "infer"} =>
             /\ pc[x] \notin {"idle", "infer"}
             /\ job'[x].log = job[x].log /\ job'[x].vec = job[x].vec
<1>1. CASE job[w].hit
  <2>1. pc' = [pc EXCEPT ![w] = "idle"] /\ job' = [job EXCEPT ![w] = Blank]
    BY <1>1 DEF Return, Goto
  <2> QED
    BY <2>1 DEF TypeOK
<1>2. CASE ~job[w].hit
  <2>1. pc' = [pc EXCEPT ![w] = "add"] /\ job' = job
    BY <1>2 DEF Return, Goto
  <2> QED
    BY <2>1 DEF TypeOK
<1> QED
  BY <1>1, <1>2

LEMMA ReceiveCache ==
  ASSUME TypeOK, CacheInv, NEW w \in Workers, NEW log \in Logs,
         CacheHit(w, log) \/ CacheMiss(w, log)
  PROVE  CacheInv'
<1>1. CASE CacheHit(w, log)
  <2>1. PICK i \in Held(Signature[log]) :
          /\ job' = [job EXCEPT ![w] = Locals(received + 1, log, cache[i].vec, TRUE)]
          /\ cache' = Store(cache[i])
    BY <1>1, Zenon DEF CacheHit
  <2>2. i \in DOMAIN cache /\ cache[i].sig = Signature[log]
    BY <2>1 DEF Held
  <2>3. cache \in Seq(Entry) /\ cache[i] \in Entry
    BY <2>2, EntryAt DEF TypeOK
  <2>4. Genuine(cache[i].sig, cache[i].vec)
    BY <2>2 DEF CacheInv, CacheSound, Genuine
  <2>5. CacheSound'
    BY <2>1, <2>3, <2>4, StoreSound DEF CacheInv
  <2> DEFINE j == Locals(received + 1, log, cache[i].vec, TRUE)
  <2>6. j.log = log /\ j.vec = cache[i].vec
    BY DEF Locals
  <2>7. pc' = [pc EXCEPT ![w] = "query"] /\ job' = [job EXCEPT ![w] = j]
    BY <1>1, <2>1, Zenon DEF CacheHit, Goto
  <2> HIDE DEF j
  <2>8. JobGenuine'
    BY <2>2, <2>4, <2>6, <2>7, WorkerGenuine DEF CacheInv
  <2> QED
    BY <2>5, <2>8 DEF CacheInv
<1>2. CASE CacheMiss(w, log)
  <2> DEFINE j == Locals(received + 1, log, NoVector, FALSE)
  <2>1. pc' = [pc EXCEPT ![w] = "infer"] /\ job' = [job EXCEPT ![w] = j] /\ cache' = cache
    BY <1>2, Zenon DEF CacheMiss, Goto
  <2> HIDE DEF j
  <2>2. JobGenuine'
    BY <2>1, WorkerGenuine DEF CacheInv
  <2> QED
    BY <2>1, <2>2 DEF CacheInv, CacheSound
<1> QED
  BY <1>1, <1>2

LEMMA InferCache ==
  ASSUME TypeOK, CacheInv, NEW w \in Workers, Infer(w) \/ InferFails(w)
  PROVE  CacheInv'
<1>1. pc[w] = "infer" /\ job[w] \in Job /\ job[w].log \in Logs
  BY DEF Infer, InferFails, Local, TypeOK
<1>2. CASE Infer(w)
  <2> DEFINE j == [job[w] EXCEPT !.vec = Embedding[job[w].log]]
  <2>1. pc' = [pc EXCEPT ![w] = "query"] /\ job' = [job EXCEPT ![w] = j] /\ cache' = cache
    BY <1>2 DEF Infer, Local, Goto
  <2>2. j.log = job[w].log /\ j.vec = Embedding[job[w].log]
    <3>1. Embedding[job[w].log] \in Vectors
      BY <1>1, OrchestratorAssumption
    <3> QED
      BY <1>1, <3>1, JobFields
  <2> HIDE DEF j
  <2>3. Genuine(Signature[j.log], j.vec)
    BY <1>1, <2>2 DEF Genuine
  <2>4. JobGenuine'
    BY <2>1, <2>3, WorkerGenuine DEF CacheInv
  <2> QED
    BY <2>1, <2>4 DEF CacheInv, CacheSound
<1>3. CASE InferFails(w)
  <2>1. pc' = [pc EXCEPT ![w] = "idle"] /\ job' = [job EXCEPT ![w] = Blank] /\ cache' = cache
    BY <1>3 DEF InferFails, Local, Goto
  <2>2. JobGenuine'
    BY <2>1, WorkerGenuine DEF CacheInv
  <2> QED
    BY <2>1, <2>2 DEF CacheInv, CacheSound
<1> QED
  BY <1>2, <1>3

LEMMA CallsCache ==
  ASSUME TypeOK, CacheInv, NEW w \in Workers,
         Query(w) \/ SAdd(w) \/ Expire(w) \/ SCard(w) \/ Upsert(w) \/ SetNX(w)
  PROVE  CacheInv'
<1>1. pc[w] \notin {"idle", "infer"} /\ job[w] \in Job
  BY DEF Query, SAdd, Expire, SCard, Upsert, SetNX, TypeOK, Local
<1>2. PICK to \in Steps : pc' = [pc EXCEPT ![w] = to]
  BY Zenon DEF Query, SAdd, Expire, SCard, Upsert, SetNX, Local, Goto, Steps
<1>3. cache' = cache
  BY Zenon DEF Query, SAdd, Expire, SCard, Upsert, SetNX, Local
<1>4. job' = job \/ \E j : job' = [job EXCEPT ![w] = j]
                          /\ j.log = job[w].log /\ j.vec = job[w].vec
  <2>1. CASE Query(w)
    <3>1. PICK s : job' = [job EXCEPT ![w] = [job[w] EXCEPT !.sim = s]]
      BY <2>1, Zenon DEF Query, Local
    <3>2. [job[w] EXCEPT !.sim = s].log = job[w].log /\ [job[w] EXCEPT !.sim = s].vec = job[w].vec
      BY <1>1 DEF Job
    <3> QED
      BY <3>1, <3>2
  <2>2. CASE SCard(w)
    <3>1. PICK r : job' = [job EXCEPT ![w] = [job[w] EXCEPT !.radius = r]]
      BY <2>2, Zenon DEF SCard, Local
    <3>2. [job[w] EXCEPT !.radius = r].log = job[w].log
          /\ [job[w] EXCEPT !.radius = r].vec = job[w].vec
      BY <1>1 DEF Job
    <3> QED
      BY <3>1, <3>2
  <2>3. CASE SetNX(w)
    <3> DEFINE j == [job[w] EXCEPT !.window = window[job[w].vec]]
    <3>1. job' = [job EXCEPT ![w] = j]
      BY <2>3 DEF SetNX
    <3>2. j.log = job[w].log /\ j.vec = job[w].vec
      BY <1>1 DEF Job
    <3> QED
      BY <3>1, <3>2
  <2>4. CASE SAdd(w) \/ Expire(w) \/ Upsert(w)
    BY <2>4 DEF SAdd, Expire, Upsert
  <2> QED
    BY <2>1, <2>2, <2>3, <2>4
<1>5. ASSUME NEW x \in Workers, pc'[x] \notin {"idle", "infer"}
      PROVE  /\ pc[x] \notin {"idle", "infer"}
             /\ job'[x].log = job[x].log /\ job'[x].vec = job[x].vec
  <2>1. pc \in [Workers -> Steps] /\ job \in [Workers -> Job]
    BY DEF TypeOK
  <2>2. CASE x = w
    BY <1>1, <1>4, <2>1, <2>2
  <2>3. CASE x # w
    BY <1>2, <1>4, <1>5, <2>1, <2>3
  <2> QED
    BY <2>2, <2>3
<1> QED
  BY <1>3, <1>5, KeepGenuine

LEMMA ReturnCache ==
  ASSUME TypeOK, CacheInv, NEW w \in Workers,
         Throttled(w) \/ SetNXFails(w) \/ Dispatch(w) \/ Record(w)
  PROVE  CacheInv'
<1>1. pc[w] \notin {"idle", "infer"} /\ Return(w) /\ cache' = cache
  BY DEF Throttled, SetNXFails, Dispatch, Record
<1> QED
  BY <1>1, ReturnKeeps, KeepGenuine

LEMMA AddCache ==
  ASSUME TypeOK, CacheInv, NEW w \in Workers, Add(w)
  PROVE  CacheInv'
<1> DEFINE entry == [sig |-> Signature[job[w].log], vec |-> job[w].vec]
<1>1. pc[w] = "add" /\ job[w].log \in Logs /\ job[w].vec \in Vectors
  BY DEF Add, TypeOK
<1>2. entry \in Entry
  BY <1>1, OrchestratorAssumption DEF Entry
<1>3. Genuine(entry.sig, entry.vec)
  BY <1>1 DEF CacheInv, JobGenuine
<1>4. cache' = Store(entry)
  BY DEF Add
<1> HIDE DEF entry
<1>5. CacheSound'
  BY <1>2, <1>3, <1>4, StoreSound DEF CacheInv, TypeOK
<1>6. pc' = [pc EXCEPT ![w] = "idle"] /\ job' = [job EXCEPT ![w] = Blank]
  BY DEF Add, Goto
<1>7. JobGenuine'
  BY <1>6, WorkerGenuine DEF CacheInv
<1> QED
  BY <1>5, <1>7 DEF CacheInv

LEMMA WorldCache ==
  ASSUME TypeOK, CacheInv,
         \/ \E a \in agents : AgentRecords(a)
         \/ \E alert \in outbox : Post(alert)
         \/ \E q \in Vectors : ThrottleLapses(q) \/ BlastLapses(q)
         \/ UNCHANGED vars
  PROVE  CacheInv'
<1>1. UNCHANGED <<pc, job, cache>>
  BY Zenon DEF AgentRecords, Post, ThrottleLapses, BlastLapses, vars
<1> QED
  BY <1>1, KeepGenuine

LEMMA CrashCache == Crash => CacheInv'
<1> SUFFICES ASSUME Crash PROVE CacheInv'
  OBVIOUS
<1>1. cache' = <<>> /\ \A w \in Workers : pc'[w] = "idle"
  BY DEF Crash
<1>2. CacheSound'
  BY <1>1, OrchestratorAssumption, SMT DEF CacheSound
<1> QED
  BY <1>1, <1>2 DEF CacheInv, JobGenuine

LEMMA NextCache == TypeOK /\ CacheInv /\ [Next]_vars => CacheInv'
<1> SUFFICES ASSUME TypeOK, CacheInv, [Next]_vars PROVE CacheInv'
  OBVIOUS
<1>1. ASSUME NEW w \in Workers, NEW log \in Logs, CacheHit(w, log) \/ CacheMiss(w, log)
      PROVE  CacheInv'
  BY <1>1, ReceiveCache
<1>2. ASSUME NEW w \in Workers, Process(w)
      PROVE  CacheInv'
  BY <1>2, InferCache, CallsCache, ReturnCache, AddCache DEF Process
<1>3. CASE Drained
  BY <1>3, WorldCache DEF Drained
<1> QED
  BY <1>1, <1>2, <1>3, WorldCache, CrashCache DEF Next

\* However the workers' look-ups, answers of the engine and Adds interleave,
\* the cache has one entry for a signature, at most Capacity of them, and each
\* is the embedding of a line with that signature.
THEOREM CacheIsSound == Spec => []CacheSound
<1>1. CacheInv => CacheSound
  BY DEF CacheInv
<1>2. Spec => []CacheInv
  BY TypeCorrect, InitCache, NextCache, PTL DEF Spec
<1> QED
  BY <1>1, <1>2, PTL

-----------------------------------------------------------------------------
(* Every incident has its point                                            *)

\* A ticket is given out after the upsert: the point must be there from then on.
PointInv ==
    /\ IncidentHasPoint
    /\ \A w \in Workers : pc[w] = "setnx" => job[w].vec \in points

\* No step removes a point, and after each step a worker before its SETNX has
\* been there already, or has upserted just now.
LEMMA NextPoints ==
  ASSUME TypeOK, "upsert" \notin Faults, [Next]_vars
  PROVE  /\ points \subseteq points'
         /\ \A x \in Workers : pc'[x] = "setnx" =>
              \/ pc[x] = "setnx" /\ job'[x].vec = job[x].vec
              \/ job'[x].vec \in points'
<1> DEFINE Here(x) == pc'[x] = "setnx" => \/ pc[x] = "setnx" /\ job'[x].vec = job[x].vec
                                         \/ job'[x].vec \in points'
<1>1. pc \in [Workers -> Steps] /\ job \in [Workers -> Job]
  BY DEF TypeOK
<1>2. ASSUME NEW w \in Workers, NEW to, to # "setnx", pc' = [pc EXCEPT ![w] = to],
             job' = job \/ \E j : job' = [job EXCEPT ![w] = j]
      PROVE  \A x \in Workers : Here(x)
  <2>1. \A x \in Workers : x # w => pc'[x] = pc[x] /\ job'[x] = job[x]
    BY <1>1, <1>2
  <2>2. pc'[w] = to
    BY <1>1, <1>2
  <2> QED
    BY <1>2, <2>1, <2>2, Zenon
<1>3. ASSUME NEW w \in Workers, NEW log \in Logs, CacheHit(w, log) \/ CacheMiss(w, log)
      PROVE  points \subseteq points' /\ \A x \in Workers : Here(x)
  <2>1. points' = points
    BY <1>3, Zenon DEF CacheHit, CacheMiss, stores
  <2>2. /\ \E j : job' = [job EXCEPT ![w] = j]
        /\ pc' = [pc EXCEPT ![w] = "query"] \/ pc' = [pc EXCEPT ![w] = "infer"]
    BY <1>3, Zenon DEF CacheHit, CacheMiss, Goto
  <2> QED
    BY <1>2, <2>1, <2>2
<1>4. ASSUME NEW w \in Workers, Process(w)
      PROVE  points \subseteq points' /\ \A x \in Workers : Here(x)
  <2>1. CASE Upsert(w)
    <3>1. /\ points' = points \cup {job[w].vec} /\ job' = job
          /\ pc' = [pc EXCEPT ![w] = "setnx"]
      BY <2>1 DEF Upsert, Goto
    <3>2. \A x \in Workers : x # w => pc'[x] = pc[x]
      BY <1>1, <3>1
    <3> QED
      BY <3>1, <3>2
  <2>2. CASE Infer(w) \/ InferFails(w) \/ Query(w) \/ SCard(w)
    <3>1. points' = points
      BY <2>2, Zenon DEF Infer, InferFails, Query, SCard, Local, stores
    <3>2. /\ \E j : job' = [job EXCEPT ![w] = j]
          /\ \E to : to # "setnx" /\ pc' = [pc EXCEPT ![w] = to]
      <4>1. "query" # "setnx" /\ "idle" # "setnx" /\ "sadd" # "setnx" /\ "upsert" # "setnx"
        OBVIOUS
      <4> QED
        BY <2>2, <4>1, Zenon DEF Infer, InferFails, Query, SCard, Local, Goto
    <3> QED
      BY <1>2, <3>1, <3>2, Zenon
  <2>3. CASE SAdd(w) \/ Expire(w) \/ SetNX(w) \/ Add(w)
    <3>1. points' = points
      BY <2>3, Zenon DEF SAdd, Expire, SetNX, Add, stores
    <3>2. /\ job' = job \/ \E j : job' = [job EXCEPT ![w] = j]
          /\ \E to : to # "setnx" /\ pc' = [pc EXCEPT ![w] = to]
      <4>1. "expire" # "setnx" /\ "scard" # "setnx" /\ "decide" # "setnx" /\ "idle" # "setnx"
        OBVIOUS
      <4>2. CASE SAdd(w)
        BY <4>1, <4>2, Zenon DEF SAdd, Goto
      <4>3. CASE Expire(w)
        BY <4>1, <4>3, Zenon DEF Expire, Goto
      <4>4. CASE SetNX(w)
        <5>1. job' = [job EXCEPT ![w] = [job[w] EXCEPT !.window = window[job[w].vec]]]
          BY <4>4 DEF SetNX
        <5>2. pc' = [pc EXCEPT ![w] = "decide"]
          BY <4>4 DEF SetNX, Goto
        <5> QED
          BY <4>1, <5>1, <5>2, Zenon
      <4>5. CASE Add(w)
        BY <4>1, <4>5, Zenon DEF Add, Goto
      <4> QED
        BY <2>3, <4>2, <4>3, <4>4, <4>5
    <3> QED
      BY <1>2, <3>1, <3>2, Zenon
  <2>4. CASE Throttled(w) \/ SetNXFails(w) \/ Dispatch(w) \/ Record(w)
    <3>1. points' = points /\ Return(w)
      BY <2>4, Zenon DEF Throttled, SetNXFails, Dispatch, Record, stores
    <3>2. /\ job' = job \/ \E j : job' = [job EXCEPT ![w] = j]
          /\ \E to : to # "setnx" /\ pc' = [pc EXCEPT ![w] = to]
      <4>1. "idle" # "setnx" /\ "add" # "setnx"
        OBVIOUS
      <4> QED
        BY <3>1, <4>1, Zenon DEF Return, Goto
    <3> QED
      BY <1>2, <3>1, <3>2, Zenon
  <2> QED
    BY <1>4, <2>1, <2>2, <2>3, <2>4 DEF Process
<1>5. ASSUME UNCHANGED <<pc, job, points>>
      PROVE  points \subseteq points' /\ \A x \in Workers : Here(x)
  BY <1>5
<1>6. ASSUME Crash
      PROVE  points \subseteq points' /\ \A x \in Workers : Here(x)
  BY <1>6 DEF Crash
<1>7. ASSUME \/ \E a \in agents : AgentRecords(a)
             \/ \E alert \in outbox : Post(alert)
             \/ \E q \in Vectors : ThrottleLapses(q) \/ BlastLapses(q)
             \/ Drained
             \/ UNCHANGED vars
      PROVE  points \subseteq points' /\ \A x \in Workers : Here(x)
  <2>1. UNCHANGED <<pc, job, points>>
    BY <1>7, Zenon DEF AgentRecords, Post, ThrottleLapses, BlastLapses, Drained, vars, stores
  <2> QED
    BY <1>5, <2>1
<1> HIDE DEF Here
<1>8. points \subseteq points' /\ \A x \in Workers : Here(x)
  BY <1>3, <1>4, <1>6, <1>7, Zenon DEF Next
<1> QED
  BY <1>8, Zenon DEF Here

\* A ticket that is new belongs to a worker whose SETNX has created the key.
LEMMA NextTickets ==
  ASSUME TypeOK, [Next]_vars, NEW t \in Tickets'
  PROVE  \/ t \in Tickets
         \/ \E w \in Workers : pc[w] = "setnx" /\ t.q = job[w].vec
<1>1. ASSUME QuietStep
      PROVE  t \in Tickets
  <2>1. Deciding' \subseteq Deciding /\ \A w \in Deciding' : job'[w] = job[w]
    BY <1>1 DEF QuietStep, Deciding
  <2>2. Pending' \subseteq Pending
    BY <1>1, <2>1, Zenon DEF QuietStep, Pending, Ticket
  <2>3. Recorded' = Recorded
    BY <1>1 DEF QuietStep, Recorded
  <2>4. Alerted' \subseteq Alerted
    BY <1>1, Zenon DEF QuietStep, Alerted, TicketOf
  <2> QED
    BY <2>2, <2>3, <2>4 DEF Tickets
<1>2. ASSUME NEW w \in Workers, SetNX(w)
      PROVE  \/ t \in Tickets
             \/ pc[w] = "setnx" /\ t.q = job[w].vec
  <2> DEFINE j == [job[w] EXCEPT !.window = window[job[w].vec]]
  <2>1. /\ pc' = [pc EXCEPT ![w] = "decide"] /\ job' = [job EXCEPT ![w] = j]
        /\ agents' = agents /\ audit' = audit /\ outbox' = outbox /\ posted' = posted
        /\ pc[w] = "setnx"
    BY <1>2 DEF SetNX, Goto, rest, slack
  <2>2. job[w] \in Job /\ j.vec = job[w].vec
    BY DEF TypeOK, Job
  <2> HIDE DEF j
  <2>3. Recorded' = Recorded /\ Alerted' = Alerted
    BY <2>1 DEF Recorded, Alerted
  <2>4. \A x \in Workers : pc'[x] = "decide" => x = w \/ (pc[x] = "decide" /\ job'[x] = job[x])
    BY <2>1 DEF TypeOK
  <2>5. job'[w] = j
    BY <2>1 DEF TypeOK
  <2>6. ASSUME t \in Pending'
        PROVE  t \in Pending \/ t.q = job[w].vec
    <3>1. CASE \E a \in agents' : t = Ticket(a)
      BY <2>1, <3>1, Zenon DEF Pending
    <3>2. CASE \E x \in Deciding' : t = Ticket(job'[x])
      <4>1. PICK x \in Deciding' : t = Ticket(job'[x])
        BY <3>2
      <4>2. x \in Workers /\ pc'[x] = "decide"
        BY <4>1 DEF Deciding
      <4>3. CASE x = w
        BY <2>2, <2>5, <4>1, <4>3 DEF Ticket
      <4>4. CASE x # w
        BY <2>4, <4>1, <4>2, <4>4, Zenon DEF Pending, Deciding
      <4> QED
        BY <4>3, <4>4
    <3> QED
      BY <2>6, <3>1, <3>2, Zenon DEF Pending, Ticket
  <2> QED
    BY <2>1, <2>3, <2>6 DEF Tickets
<1>3. ASSUME NEW w \in Workers, Dispatch(w)
      PROVE  t \in Tickets
  <2>1. /\ pc[w] = "decide" /\ Return(w)
        /\ agents' = agents \cup {job[w]}
        /\ UNCHANGED <<audit, outbox, posted>>
    BY <1>3 DEF Dispatch, stores, slack
  <2>2. w \in Deciding /\ \A x \in Deciding' : x \in Deciding /\ job'[x] = job[x]
    BY <2>1, ReturnDeciding
  <2>3. Pending' \subseteq Pending
    BY <2>1, <2>2, Zenon DEF Pending, Ticket
  <2>4. Recorded' = Recorded /\ Alerted' = Alerted
    BY <2>1 DEF Recorded, Alerted
  <2> QED
    BY <2>3, <2>4 DEF Tickets
<1>4. ASSUME NEW row, TicketOf(row) \in Tickets, Pending' \subseteq Pending,
             RecordIncident(row), outbox' = outbox \cup {row}, posted' = posted
      PROVE  t \in Tickets
  <2>1. Recorded' \subseteq Recorded \cup {TicketOf(row)}
    <3>1. audit \in Seq(Row)
      BY DEF TypeOK
    <3>2. CASE audit' = Append(audit, row)
      <4>1. /\ DOMAIN audit' = DOMAIN audit \cup {Len(audit) + 1}
            /\ audit'[Len(audit) + 1] = row
            /\ \A i \in DOMAIN audit : audit'[i] = audit[i]
        BY <3>1, <3>2, SMT
      <4> QED
        BY <4>1, Zenon DEF Recorded, TicketOf
    <3>3. CASE audit' = audit
      BY <3>3 DEF Recorded
    <3> QED
      BY <1>4, <3>2, <3>3 DEF RecordIncident
  <2>2. Alerted' \subseteq Alerted \cup {TicketOf(row)}
    BY <1>4, Zenon DEF Alerted, TicketOf
  <2> QED
    BY <1>4, <2>1, <2>2, Zenon DEF Tickets
<1>5. ASSUME NEW w \in Workers, Record(w)
      PROVE  t \in Tickets
  <2>1. pc[w] = "decide" /\ Return(w) /\ agents' = agents /\ posted' = posted
    BY <1>5 DEF Record
  <2>2. w \in Deciding /\ \A x \in Deciding' : x \in Deciding /\ job'[x] = job[x]
    BY <2>1, ReturnDeciding
  <2>3. Pending' \subseteq Pending
    BY <2>1, <2>2, Zenon DEF Pending, Ticket
  <2>4. PICK action : /\ RecordIncident(RowOf(job[w], action))
                     /\ outbox' = outbox \cup {RowOf(job[w], action)}
    BY <1>5, Zenon DEF Record
  <2>5. TicketOf(RowOf(job[w], action)) = Ticket(job[w])
    BY DEF TicketOf, RowOf, Ticket
  <2>6. Ticket(job[w]) \in Tickets
    BY <2>2, Zenon DEF Tickets, Pending
  <2> QED
    BY <1>4, <2>1, <2>3, <2>4, <2>5, <2>6
<1>6. ASSUME NEW a \in agents, AgentRecords(a)
      PROVE  t \in Tickets
  <2>1. agents' \subseteq agents /\ UNCHANGED <<pc, job, posted>>
    BY <1>6 DEF AgentRecords
  <2>2. Pending' \subseteq Pending
    BY <2>1, Zenon DEF Pending, Deciding, Ticket
  <2>3. PICK action : /\ RecordIncident(RowOf(a, action))
                     /\ outbox' = outbox \cup {RowOf(a, action)}
    BY <1>6, Zenon DEF AgentRecords
  <2>4. TicketOf(RowOf(a, action)) = Ticket(a)
    BY DEF TicketOf, RowOf, Ticket
  <2>5. Ticket(a) \in Tickets
    BY Zenon DEF Tickets, Pending
  <2> QED
    BY <1>4, <2>1, <2>2, <2>3, <2>4, <2>5
<1>7. ASSUME \/ \E alert \in outbox : Post(alert)
             \/ \E q \in Vectors : ThrottleLapses(q) \/ BlastLapses(q)
             \/ Crash \/ Drained \/ UNCHANGED vars
      PROVE  t \in Tickets
  BY <1>1, <1>7, WorldQuiet DEF Drained
<1>8. ASSUME NEW w \in Workers,
             (\E log \in Logs : CacheHit(w, log) \/ CacheMiss(w, log)) \/ Process(w)
      PROVE  t \in Tickets \/ (pc[w] = "setnx" /\ t.q = job[w].vec)
  BY <1>1, <1>2, <1>3, <1>5, <1>8, CallsQuiet, ThrottledQuiet DEF Process
<1> QED
  BY <1>6, <1>7, <1>8, Zenon DEF Next

LEMMA NextPoint ==
  "upsert" \notin Faults /\ TypeOK /\ PointInv /\ [Next]_vars => PointInv'
<1> SUFFICES ASSUME "upsert" \notin Faults, TypeOK, PointInv, [Next]_vars
             PROVE  PointInv'
  OBVIOUS
<1>1. ASSUME NEW t \in Tickets'
      PROVE  t.q \in points'
  <2>1. t.q \in points
    BY NextTickets DEF PointInv, IncidentHasPoint
  <2> QED
    BY <2>1, NextPoints
<1>2. ASSUME NEW w \in Workers, pc'[w] = "setnx"
      PROVE  job'[w].vec \in points'
  BY <1>2, NextPoints DEF PointInv
<1> QED
  BY <1>1, <1>2 DEF PointInv, IncidentHasPoint

\* What the trail and Slack show can be found in the vector store, whatever
\* else fails or dies, as long as upserts do not fail (main.go:263).
THEOREM PointExists == "upsert" \notin Faults => (Spec => []IncidentHasPoint)
<1> SUFFICES ASSUME "upsert" \notin Faults
             PROVE  Spec => []IncidentHasPoint
  OBVIOUS
<1>1. Init => PointInv
  <2> SUFFICES ASSUME Init
               PROVE  PointInv
    OBVIOUS
  <2>1. Deciding = {} /\ agents = {} /\ DOMAIN audit = {} /\ outbox \cup posted = {}
    BY SMT DEF Init, Deciding
  <2>2. Tickets = {}
    BY <2>1, Zenon DEF Tickets, Pending, Recorded, Alerted
  <2>3. \A w \in Workers : pc[w] # "setnx"
    BY DEF Init
  <2> QED
    BY <2>2, <2>3 DEF PointInv, IncidentHasPoint
<1>2. TypeOK /\ PointInv /\ [Next]_vars => PointInv'
  BY NextPoint
<1>3. PointInv => IncidentHasPoint
  BY DEF PointInv
<1> QED
  BY <1>1, <1>2, <1>3, TypeCorrect, PTL DEF Spec

-----------------------------------------------------------------------------
(* Blast radii expire                                                      *)

\* A worker about to set the expiry of q.
Expiring(q) == \E w \in Workers : pc[w] = "expire" /\ job[w].vec = q

\* A step that leaves the blast sets, their expiry and the workers before
\* EXPIRE as they are.
BlastQuiet ==
    /\ UNCHANGED <<blast, expiring>>
    /\ \A w \in Workers : pc[w] = "expire" => pc'[w] = "expire" /\ job'[w].vec = job[w].vec

LEMMA NextBlast ==
  /\ "redis" \notin Faults /\ "crash" \notin Faults
  /\ TypeOK /\ BlastRadiusExpires /\ [Next]_vars
  => BlastRadiusExpires'
<1> SUFFICES ASSUME "redis" \notin Faults, "crash" \notin Faults,
                    TypeOK, BlastRadiusExpires, [Next]_vars
             PROVE  BlastRadiusExpires'
  OBVIOUS
<1>1. pc \in [Workers -> Steps] /\ job \in [Workers -> Job]
      /\ blast \in [Vectors -> SUBSET Pods] /\ expiring \in [Vectors -> BOOLEAN]
  BY DEF TypeOK
<1>2. ASSUME BlastQuiet
      PROVE  BlastRadiusExpires'
  <2>1. ASSUME NEW q \in Vectors, blast'[q] # {}, ~expiring'[q]
        PROVE  \E w \in Workers : pc'[w] = "expire" /\ job'[w].vec = q
    <3>1. PICK w \in Workers : pc[w] = "expire" /\ job[w].vec = q
      BY <1>2, <2>1 DEF BlastQuiet, BlastRadiusExpires
    <3> QED
      BY <1>2, <3>1 DEF BlastQuiet
  <2> QED
    BY <2>1, Zenon DEF BlastRadiusExpires
<1>3. ASSUME NEW w \in Workers, pc[w] # "expire", UNCHANGED <<blast, expiring>>,
             \E to : pc' = [pc EXCEPT ![w] = to],
             job' = job \/ \E j : job' = [job EXCEPT ![w] = j]
      PROVE  BlastRadiusExpires'
  <2>1. \A x \in Workers : x # w => pc'[x] = pc[x] /\ job'[x] = job[x]
    BY <1>1, <1>3
  <2>2. BlastQuiet
    BY <1>3, <2>1, Zenon DEF BlastQuiet
  <2> QED
    BY <1>2, <2>2
<1>4. ASSUME NEW w \in Workers, NEW log \in Logs, CacheHit(w, log) \/ CacheMiss(w, log)
      PROVE  BlastRadiusExpires'
  <2>1. pc[w] # "expire"
    BY <1>4 DEF CacheHit, CacheMiss, Receive
  <2>2. /\ UNCHANGED <<blast, expiring>>
        /\ \E to : pc' = [pc EXCEPT ![w] = to]
        /\ \E j : job' = [job EXCEPT ![w] = j]
    BY <1>4, Zenon DEF CacheHit, CacheMiss, Goto, stores, redis
  <2> QED
    BY <1>3, <2>1, <2>2
<1>5. ASSUME NEW w \in Workers, SAdd(w)
      PROVE  BlastRadiusExpires'
  <2> DEFINE q == job[w].vec
  <2>1. /\ \A p \in Vectors : p # q => blast'[p] = blast[p]
        /\ expiring' = expiring
        /\ \A x \in Workers : x # w => pc'[x] = pc[x]
        /\ pc'[w] = "expire" /\ pc[w] = "sadd" /\ job' = job
    BY <1>1, <1>5 DEF SAdd, Goto
  <2>2. ASSUME NEW p \in Vectors, blast'[p] # {}, ~expiring'[p]
        PROVE  \E x \in Workers : pc'[x] = "expire" /\ job'[x].vec = p
    <3>1. CASE p = q
      BY <2>1, <3>1
    <3>2. CASE p # q
      <4>1. PICK x \in Workers : pc[x] = "expire" /\ job[x].vec = p
        BY <2>1, <2>2, <3>2 DEF BlastRadiusExpires
      <4>2. x # w
        BY <2>1, <4>1
      <4> QED
        BY <2>1, <4>1, <4>2
    <3> QED
      BY <3>1, <3>2
  <2> QED
    BY <2>2, Zenon DEF BlastRadiusExpires
<1>6. ASSUME NEW w \in Workers, Expire(w)
      PROVE  BlastRadiusExpires'
  <2> DEFINE q == job[w].vec
  <2>1. q \in Vectors /\ pc[w] = "expire"
    BY <1>6 DEF Expire, TypeOK
  <2>2. /\ expiring' = [expiring EXCEPT ![q] = blast[q] # {}]
        /\ blast' = blast /\ job' = job
        /\ pc' = [pc EXCEPT ![w] = "scard"]
    BY <1>6 DEF Expire, Goto
  <2>3. /\ \A p \in Vectors : p # q => expiring'[p] = expiring[p]
        /\ expiring'[q] = (blast[q] # {})
        /\ \A x \in Workers : x # w => pc'[x] = pc[x]
    BY <1>1, <2>1, <2>2
  <2> HIDE DEF q
  <2>4. ASSUME NEW p \in Vectors, blast'[p] # {}, ~expiring'[p]
        PROVE  \E x \in Workers : pc'[x] = "expire" /\ job'[x].vec = p
    <3>1. p # q
      BY <2>2, <2>3, <2>4
    <3>2. PICK x \in Workers : pc[x] = "expire" /\ job[x].vec = p
      BY <2>2, <2>3, <2>4, <3>1, Zenon DEF BlastRadiusExpires
    <3>3. x # w
      BY <3>1, <3>2 DEF q
    <3> QED
      BY <2>2, <2>3, <3>2, <3>3
  <2> QED
    BY <2>4, Zenon DEF BlastRadiusExpires
<1>7. ASSUME NEW w \in Workers, Infer(w) \/ InferFails(w) \/ Query(w) \/ SCard(w)
      PROVE  BlastRadiusExpires'
  <2>1. /\ UNCHANGED <<blast, expiring>>
        /\ \E j : job' = [job EXCEPT ![w] = j]
        /\ \E to : pc' = [pc EXCEPT ![w] = to]
    BY <1>7, Zenon DEF Infer, InferFails, Query, SCard, Local, Goto, stores, redis
  <2>2. pc[w] # "expire"
    <3>1. pc[w] = "infer" \/ pc[w] = "query" \/ pc[w] = "scard"
      BY <1>7, Zenon DEF Infer, InferFails, Query, SCard, Local
    <3> QED
      BY <3>1
  <2> QED
    BY <1>3, <2>1, <2>2
<1>8. ASSUME NEW w \in Workers,
             \/ Upsert(w) \/ SetNX(w) \/ Throttled(w) \/ SetNXFails(w)
             \/ Dispatch(w) \/ Record(w) \/ Add(w)
      PROVE  BlastRadiusExpires'
  <2>1. UNCHANGED <<blast, expiring>>
    BY <1>8, Zenon DEF Upsert, SetNX, Throttled, SetNXFails, Dispatch, Record, Add,
                       stores, redis
  <2>2. pc[w] # "expire"
    <3>1. pc[w] = "upsert" \/ pc[w] = "setnx" \/ pc[w] = "decide" \/ pc[w] = "add"
      BY <1>8, Zenon DEF Upsert, SetNX, Throttled, SetNXFails, Dispatch, Record, Add
    <3> QED
      BY <3>1
  <2>3. /\ job' = job \/ \E j : job' = [job EXCEPT ![w] = j]
        /\ \E to : pc' = [pc EXCEPT ![w] = to]
    <3>1. CASE Upsert(w)
      BY <3>1, Zenon DEF Upsert, Goto
    <3>2. CASE SetNX(w)
      <4>1. job' = [job EXCEPT ![w] = [job[w] EXCEPT !.window = window[job[w].vec]]]
        BY <3>2 DEF SetNX
      <4>2. pc' = [pc EXCEPT ![w] = "decide"]
        BY <3>2 DEF SetNX, Goto
      <4> QED
        BY <4>1, <4>2, Zenon
    <3>3. CASE Throttled(w) \/ SetNXFails(w) \/ Dispatch(w) \/ Record(w)
      <4>1. Return(w)
        BY <3>3, Zenon DEF Throttled, SetNXFails, Dispatch, Record
      <4> QED
        BY <4>1, Zenon DEF Return, Goto
    <3>4. CASE Add(w)
      BY <3>4, Zenon DEF Add, Goto
    <3> QED
      BY <1>8, <3>1, <3>2, <3>3, <3>4
  <2> QED
    BY <1>3, <2>1, <2>2, <2>3
<1>9. ASSUME NEW q \in Vectors, BlastLapses(q)
      PROVE  BlastRadiusExpires'
  <2>1. /\ \A p \in Vectors : p # q => blast'[p] = blast[p] /\ expiring'[p] = expiring[p]
        /\ blast'[q] = {}
        /\ UNCHANGED <<pc, job>>
    BY <1>1, <1>9 DEF BlastLapses
  <2> QED
    BY <2>1, Zenon DEF BlastRadiusExpires
<1>10. ASSUME \/ \E a \in agents : AgentRecords(a)
              \/ \E alert \in outbox : Post(alert)
              \/ \E q \in Vectors : ThrottleLapses(q)
              \/ Drained
              \/ UNCHANGED vars
       PROVE  BlastRadiusExpires'
  <2>1. UNCHANGED <<pc, job, blast, expiring>>
    BY <1>10, Zenon DEF AgentRecords, Post, ThrottleLapses, Drained, vars, stores, redis
  <2> QED
    BY <1>2, <2>1 DEF BlastQuiet
<1>11. ASSUME NEW w \in Workers, Process(w)
       PROVE  BlastRadiusExpires'
  BY <1>5, <1>6, <1>7, <1>8, <1>11, Zenon DEF Process
<1>12. ~Crash
  BY DEF Crash
<1> QED
  BY <1>4, <1>9, <1>10, <1>11, <1>12, Zenon DEF Next

\* No blast set stays for ever, whatever the workers that share it do at the
\* same time, as long as Redis answers and nobody dies between SADD and EXPIRE
\* (main.go:202-203).
THEOREM BlastForgotten ==
  "redis" \notin Faults /\ "crash" \notin Faults => (Spec => []BlastRadiusExpires)
<1> SUFFICES ASSUME "redis" \notin Faults, "crash" \notin Faults
             PROVE  Spec => []BlastRadiusExpires
  OBVIOUS
<1>1. Init => BlastRadiusExpires
  BY DEF Init, BlastRadiusExpires
<1>2. TypeOK /\ BlastRadiusExpires /\ [Next]_vars => BlastRadiusExpires'
  BY NextBlast
<1> QED
  BY <1>1, <1>2, TypeCorrect, PTL DEF Spec
=============================================================================
