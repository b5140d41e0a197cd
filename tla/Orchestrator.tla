---------------------------- MODULE Orchestrator ----------------------------
(***************************************************************************)
(* The Go orchestrator: the workers that take log lines off logChan, the   *)
(* embedding cache they share (cache.go), processWithAI with each of its   *)
(* calls to the engine, to Qdrant and to Redis as a step of its own, the   *)
(* agents it dispatches, the audit table and the alerts to Slack.          *)
(*                                                                         *)
(* An incident identity (qID) is the sha256 of the embedding.  It is       *)
(* modelled by the embedding itself: distinct vectors have distinct ids.   *)
(* Similarities are percentages.                                           *)
(***************************************************************************)
EXTENDS Integers, Sequences, FiniteSets

CONSTANTS
    Workers,      \* the goroutines that range over logChan
    Logs,         \* log lines
    Vectors,      \* embeddings, and so incident identities
    Pods,         \* what ExtractPodID yields
    Sigs,         \* fuzzy hashes
    Embedding,    \* [Logs -> Vectors], what the engine answers
    Signature,    \* [Logs -> Sigs], getFuzzyHash
    PodOf,        \* [Logs -> Pods], ExtractPodID
    Tagged,       \* log lines with the text LEVEL=ERROR or LEVEL=FATAL
    Similarity,   \* [Vectors \X Vectors -> -100..100], Qdrant's cosine score
    Seeded,       \* vectors that are in Qdrant before the orchestrator starts
    Capacity,     \* entries the cache holds
    Faults,       \* the calls that may fail in this instance
    NoLog, NoVector,
    MaxLogs,      \* bound: log lines received
    MaxWindows,   \* bound: throttle windows of an incident that lapse
    MaxCrashes    \* bound: restarts

FaultKinds == {"infer", "query", "redis", "upsert", "db", "slack", "crash"}

ASSUME OrchestratorAssumption ==
    /\ Embedding \in [Logs -> Vectors]
    /\ Signature \in [Logs -> Sigs]
    /\ PodOf \in [Logs -> Pods]
    /\ Tagged \subseteq Logs
    /\ Similarity \in [Vectors \X Vectors -> -100..100]
    /\ Seeded \subseteq Vectors
    /\ Capacity \in Nat \ {0}
    /\ Faults \subseteq FaultKinds
    /\ NoLog \notin Logs
    /\ NoVector \notin Vectors
    /\ MaxLogs \in Nat
    /\ MaxWindows \in Nat
    /\ MaxCrashes \in Nat
    /\ IsFiniteSet(Pods)

VARIABLES
    received,  \* log lines taken off the channel; numbers them
    pc,        \* pc[w]: the call worker w makes next
    job,       \* job[w]: the locals of its processWithAI
    cache,     \* the LRU, least recently used first
    points,    \* ids of the points of the Qdrant collection
    blast,     \* blast[q]: the Redis set blast:<q>
    expiring,  \* expiring[q]: blast:<q> has a time to live
    throttle,  \* throttle[q]: the Redis key throttle:<q> exists
    window,    \* window[q]: how many times that key has expired
    agents,    \* dispatched agents that have not recorded their incident
    audit,     \* the rows of audit_logs, oldest first
    outbox,    \* alerts a goroutine is about to post
    posted,    \* alerts Slack has received
    crashes,
    lost       \* history: <<incident, window>> begun, and never to be recorded

redis == <<blast, expiring, throttle, window>>
slack == <<outbox, posted>>
stores == <<points, redis, audit>>
rest == <<agents, slack, crashes, lost>>
vars == <<received, pc, job, cache, stores, rest>>

-----------------------------------------------------------------------------
(* Locals, rows and alerts                                                 *)

Steps == {"idle", "infer", "query", "sadd", "expire", "scard", "upsert",
          "setnx", "decide", "add"}

Job == [ev : Nat, log : Logs \cup {NoLog}, vec : Vectors \cup {NoVector},
        hit : BOOLEAN, sim : -100..100, radius : Nat \ {0}, window : Nat]

\* The locals of a worker that has line n of the stream, and its embedding
\* when the cache has one.
Locals(n, log, vec, hit) ==
    [ev |-> n, log |-> log, vec |-> vec, hit |-> hit,
     sim |-> 0, radius |-> 1, window |-> 0]

Blank == Locals(0, NoLog, NoVector, FALSE)

Entry == [sig : Sigs, vec : Vectors]

AgentActions == {"AI_ANALYZED", "AGENT_FIXED"}
WorkerActions == {"CACHED_DUPLICATE", "AI_PROCESSED"}

\* A row, and the alert that goes with it: which line of the stream it is
\* about, its incident, the throttle window it was let through in, and what
\* was done about it.
Row == [ev : Nat, q : Vectors, window : Nat, log : Logs, sim : -100..100,
        action : AgentActions \cup WorkerActions]

RowOf(j, action) == [ev |-> j.ev, q |-> j.vec, window |-> j.window,
                     log |-> j.log, sim |-> j.sim, action |-> action]

\* A line of the stream let through the throttle, as its worker, its agent
\* and its row show it.
Ticket(j) == [ev |-> j.ev, q |-> j.vec, window |-> j.window]
TicketOf(row) == [ev |-> row.ev, q |-> row.q, window |-> row.window]

Deciding == {w \in Workers : pc[w] = "decide"}
Pending == {Ticket(job[w]) : w \in Deciding} \cup {Ticket(a) : a \in agents}
Recorded == {TicketOf(audit[i]) : i \in DOMAIN audit}

\* Windows whose row somebody has yet to write, and those that have it.
Owed == {<<t.q, t.window>> : t \in Pending}
Settled == {<<t.q, t.window>> : t \in Recorded}

-----------------------------------------------------------------------------
(* The cache                                                               *)

Held(sig) == {i \in DOMAIN cache : cache[i].sig = sig}

\* Mutant: Add does not look for the entry it replaces.
StoreAppends(entry) == IF Len(cache) = Capacity
                       THEN Append(Tail(cache), entry)
                       ELSE Append(cache, entry)

\* Mutant: nothing is evicted.
StoreGrows(entry) ==
    IF Held(entry.sig) # {}
    THEN Append(SelectSeq(cache, LAMBDA e : e # cache[CHOOSE i \in Held(entry.sig) : TRUE]), entry)
    ELSE Append(cache, entry)

\* The other entries, in their order.
Without(i) == SubSeq(cache, 1, i - 1) \o SubSeq(cache, i + 1, Len(cache))

\* An entry becomes the most recent one; when it is new and the cache is
\* full, the least recent one leaves.
Store(entry) ==
    IF Held(entry.sig) # {}
    THEN Append(Without(CHOOSE i \in Held(entry.sig) : TRUE), entry)
    ELSE IF Len(cache) = Capacity
         THEN Append(Tail(cache), entry)
         ELSE Append(cache, entry)

-----------------------------------------------------------------------------
(* A worker                                                                *)

Goto(w, step) == pc' = [pc EXCEPT ![w] = step]

\* processWithAI returns an embedding: worker adds it unless it came from
\* the cache.
Return(w) == IF job[w].hit
             THEN Goto(w, "idle") /\ job' = [job EXCEPT ![w] = Blank]
             ELSE Goto(w, "add") /\ UNCHANGED job

\* A call that touches nothing but the worker's own locals.
Local(w, from, to, locals) ==
    /\ pc[w] = from
    /\ Goto(w, to)
    /\ job' = [job EXCEPT ![w] = locals]
    /\ UNCHANGED <<received, cache, stores, rest>>

Receive(w) == /\ pc[w] = "idle"
              /\ received < MaxLogs
              /\ received' = received + 1

CacheHit(w, log) ==
    /\ Receive(w)
    /\ \E i \in Held(Signature[log]) :
         /\ job' = [job EXCEPT ![w] = Locals(received + 1, log, cache[i].vec, TRUE)]
         /\ cache' = Store(cache[i])
    /\ Goto(w, "query")
    /\ UNCHANGED <<stores, rest>>

CacheMiss(w, log) ==
    /\ Receive(w)
    /\ Held(Signature[log]) = {}
    /\ job' = [job EXCEPT ![w] = Locals(received + 1, log, NoVector, FALSE)]
    /\ Goto(w, "infer")
    /\ UNCHANGED <<cache, stores, rest>>

Infer(w) == Local(w, "infer", "query",
                  [job[w] EXCEPT !.vec = Embedding[job[w].log]])

\* An error, the two-second timeout, or an embedding that is too short: the
\* log line is dropped.
InferFails(w) == "infer" \in Faults /\ Local(w, "infer", "idle", Blank)

Scores(v) == {Similarity[<<v, u>>] : u \in points}

\* The score of the nearest point; zero when there is no point.
Nearest(v) == IF points = {} THEN {0}
              ELSE {s \in Scores(v) : \A t \in Scores(v) : s >= t}

Query(w) ==
    /\ pc[w] = "query"
    /\ \E s \in Nearest(job[w].vec) \cup (IF "query" \in Faults THEN {0} ELSE {}) :
         Local(w, "query", "sadd", [job[w] EXCEPT !.sim = s])

SAdd(w) ==
    /\ pc[w] = "sadd"
    /\ \/ blast' = [blast EXCEPT ![job[w].vec] = @ \cup {PodOf[job[w].log]}]
       \/ "redis" \in Faults /\ UNCHANGED blast
    /\ Goto(w, "expire")
    /\ UNCHANGED <<received, job, cache, points, expiring, throttle, window,
                   audit, rest>>

\* Mutant: the expiry is never set.
ExpireForgotten(w) ==
    /\ pc[w] = "expire"
    /\ Goto(w, "scard")
    /\ UNCHANGED <<received, job, cache, stores, rest>>

\* EXPIRE does nothing to a key that is not there.
Expire(w) ==
    /\ pc[w] = "expire"
    /\ LET q == job[w].vec IN
         \/ expiring' = [expiring EXCEPT ![q] = blast[q] # {}]
         \/ "redis" \in Faults /\ UNCHANGED expiring
    /\ Goto(w, "scard")
    /\ UNCHANGED <<received, job, cache, points, blast, throttle, window, audit,
                   rest>>

\* Mutant: the answer zero is not replaced.
SCardNoFloor(w) ==
    Local(w, "scard", "upsert",
          [job[w] EXCEPT !.radius = Cardinality(blast[job[w].vec])])

\* A radius of zero, which an empty set or a failed call gives, counts as one.
SCard(w) ==
    /\ pc[w] = "scard"
    /\ \E n \in {Cardinality(blast[job[w].vec])}
                 \cup (IF "redis" \in Faults THEN {0} ELSE {}) :
         Local(w, "scard", "upsert",
               [job[w] EXCEPT !.radius = IF n = 0 THEN 1 ELSE n])

\* Mutant: an incident that is familiar is not stored again.
UpsertNovel(w) ==
    /\ pc[w] = "upsert"
    /\ points' = IF job[w].sim >= 85 THEN points ELSE points \cup {job[w].vec}
    /\ Goto(w, "setnx")
    /\ UNCHANGED <<received, job, cache, redis, audit, rest>>

Upsert(w) ==
    /\ pc[w] = "upsert"
    /\ \/ points' = points \cup {job[w].vec}
       \/ "upsert" \in Faults /\ UNCHANGED points
    /\ Goto(w, "setnx")
    /\ UNCHANGED <<received, job, cache, redis, audit, rest>>

\* Mutant: SET instead of SETNX.
SetNXPlain(w) ==
    /\ pc[w] = "setnx"
    /\ throttle' = [throttle EXCEPT ![job[w].vec] = TRUE]
    /\ job' = [job EXCEPT ![w].window = window[job[w].vec]]
    /\ Goto(w, "decide")
    /\ UNCHANGED <<received, cache, points, blast, expiring, window, audit,
                   rest>>

\* SETNX creates the key: this worker alerts for the window that begins.
SetNX(w) ==
    /\ pc[w] = "setnx"
    /\ LET q == job[w].vec IN
         /\ ~throttle[q]
         /\ throttle' = [throttle EXCEPT ![q] = TRUE]
         /\ job' = [job EXCEPT ![w].window = window[q]]
    /\ Goto(w, "decide")
    /\ UNCHANGED <<received, cache, points, blast, expiring, window, audit,
                   rest>>

\* Mutant: no return when throttled.
ThrottledGoesOn(w) ==
    /\ pc[w] = "setnx"
    /\ throttle[job[w].vec]
    /\ Goto(w, "decide")
    /\ UNCHANGED <<received, job, cache, stores, rest>>

\* The key exists.
Throttled(w) ==
    /\ pc[w] = "setnx"
    /\ throttle[job[w].vec]
    /\ Return(w)
    /\ UNCHANGED <<received, cache, stores, rest>>

\* The call fails: the error is discarded and the zero value reads as
\* throttled.  When Redis had executed it all the same, the window has begun
\* and nobody knows.
SetNXFails(w) ==
    /\ pc[w] = "setnx"
    /\ "redis" \in Faults
    /\ LET q == job[w].vec IN
         \/ UNCHANGED <<throttle, lost>>
         \/ /\ ~throttle[q]
            /\ throttle' = [throttle EXCEPT ![q] = TRUE]
            /\ lost' = lost \cup {<<q, window[q]>>}
    /\ Return(w)
    /\ UNCHANGED <<received, cache, points, blast, expiring, window, audit,
                   agents, slack, crashes>>

\* RecordIncident: an insert that fails is only logged.
RecordIncident(row) ==
    \/ audit' = Append(audit, row) /\ UNCHANGED lost
    \/ /\ "db" \in Faults
       /\ lost' = lost \cup {<<row.q, row.window>>}
       /\ UNCHANGED audit

Familiar(sim) == sim >= 85 /\ sim <= 98
Investigate(j) == j.log \in Tagged \/ Familiar(j.sim)

\* Mutant: the worker goes on to record what it gave to the agent.
DispatchFallsThrough(w) ==
    /\ pc[w] = "decide"
    /\ Investigate(job[w])
    /\ agents' = agents \cup {job[w]}
    /\ RecordIncident(RowOf(job[w], "AI_PROCESSED"))
    /\ Return(w)
    /\ UNCHANGED <<received, cache, points, redis, slack, crashes>>

\* Mutant: the goroutine is not started.
DispatchForgotten(w) ==
    /\ pc[w] = "decide"
    /\ Investigate(job[w])
    /\ Return(w)
    /\ UNCHANGED <<received, cache, stores, rest>>

\* The agent runs in a goroutine of its own, with the locals it captured.
Dispatch(w) ==
    /\ pc[w] = "decide"
    /\ Investigate(job[w])
    /\ agents' = agents \cup {job[w]}
    /\ Return(w)
    /\ UNCHANGED <<received, cache, stores, slack, crashes, lost>>

\* Mutant: a duplicate is suppressed.
RecordNovel(w) ==
    /\ pc[w] = "decide"
    /\ ~Investigate(job[w])
    /\ IF job[w].sim > 99
       THEN UNCHANGED <<audit, lost, outbox>>
       ELSE /\ RecordIncident(RowOf(job[w], "AI_PROCESSED"))
            /\ outbox' = outbox \cup {RowOf(job[w], "AI_PROCESSED")}
    /\ Return(w)
    /\ UNCHANGED <<received, cache, points, redis, agents, posted, crashes>>

\* Otherwise the worker records the incident itself, and starts the goroutine
\* that posts the alert.  Starting it is no step of its own: nobody sees the
\* goroutine before it posts, which is Post.
Record(w) ==
    /\ pc[w] = "decide"
    /\ ~Investigate(job[w])
    /\ LET action == IF job[w].sim > 99 THEN "CACHED_DUPLICATE" ELSE "AI_PROCESSED"
       IN  /\ RecordIncident(RowOf(job[w], action))
           /\ outbox' = outbox \cup {RowOf(job[w], action)}
    /\ Return(w)
    /\ UNCHANGED <<received, cache, points, redis, agents, posted, crashes>>

Add(w) ==
    /\ pc[w] = "add"
    /\ cache' = Store([sig |-> Signature[job[w].log], vec |-> job[w].vec])
    /\ job' = [job EXCEPT ![w] = Blank]
    /\ Goto(w, "idle")
    /\ UNCHANGED <<received, stores, rest>>

-----------------------------------------------------------------------------
(* Agents, alerts and the world                                            *)

\* Mutant: the alert goes out, the incident is not recorded.
AgentAlertsOnly(a) ==
    /\ \E action \in AgentActions : outbox' = outbox \cup {RowOf(a, action)}
    /\ agents' = agents \ {a}
    /\ UNCHANGED <<received, pc, job, cache, points, redis, audit, posted,
                   crashes, lost>>

\* Investigator.Run has come to its conclusion: the agent records it, and
\* then posts the alert.
AgentRecords(a) ==
    /\ \E action \in AgentActions :
         /\ RecordIncident(RowOf(a, action))
         /\ outbox' = outbox \cup {RowOf(a, action)}
    /\ agents' = agents \ {a}
    /\ UNCHANGED <<received, pc, job, cache, points, redis, posted, crashes>>

\* SendSlackAlert: nobody reads the error it returns.
Post(alert) ==
    /\ outbox' = outbox \ {alert}
    /\ \/ posted' = posted \cup {alert}
       \/ "slack" \in Faults /\ UNCHANGED posted
    /\ UNCHANGED <<received, pc, job, cache, points, redis, agents, audit,
                   crashes, lost>>

\* Five minutes after SETNX.
ThrottleLapses(q) ==
    /\ throttle[q]
    /\ window[q] < MaxWindows
    /\ throttle' = [throttle EXCEPT ![q] = FALSE]
    /\ window' = [window EXCEPT ![q] = @ + 1]
    /\ UNCHANGED <<received, pc, job, cache, points, blast, expiring, audit, rest>>

\* Ten minutes after the last EXPIRE.
BlastLapses(q) ==
    /\ expiring[q]
    /\ blast' = [blast EXCEPT ![q] = {}]
    /\ expiring' = [expiring EXCEPT ![q] = FALSE]
    /\ UNCHANGED <<received, pc, job, cache, points, throttle, window, audit, rest>>

\* The process dies and starts again: what it held in memory is gone, the
\* stores keep what they have, and the consumer starts at the end of the
\* topic, so the lines in flight are not read again: the windows they have
\* opened stay without a row.
Crash ==
    /\ "crash" \in Faults
    /\ crashes < MaxCrashes
    /\ crashes' = crashes + 1
    /\ pc' = [w \in Workers |-> "idle"]
    /\ job' = [w \in Workers |-> Blank]
    /\ cache' = <<>>
    /\ agents' = {}
    /\ outbox' = {}
    /\ lost' = lost \cup Owed
    /\ UNCHANGED <<received, points, redis, audit, posted>>

\* All lines of the bounded stream are done with.
Drained ==
    /\ received = MaxLogs
    /\ \A w \in Workers : pc[w] = "idle"
    /\ agents = {}
    /\ outbox = {}
    /\ UNCHANGED vars

-----------------------------------------------------------------------------

Init ==
    /\ received = 0
    /\ pc = [w \in Workers |-> "idle"]
    /\ job = [w \in Workers |-> Blank]
    /\ cache = <<>>
    /\ points = Seeded
    /\ blast = [q \in Vectors |-> {}]
    /\ expiring = [q \in Vectors |-> FALSE]
    /\ throttle = [q \in Vectors |-> FALSE]
    /\ window = [q \in Vectors |-> 0]
    /\ agents = {}
    /\ audit = <<>>
    /\ outbox = {}
    /\ posted = {}
    /\ crashes = 0
    /\ lost = {}

Process(w) ==
    \/ Infer(w) \/ InferFails(w)
    \/ Query(w)
    \/ SAdd(w) \/ Expire(w) \/ SCard(w)
    \/ Upsert(w)
    \/ SetNX(w) \/ Throttled(w) \/ SetNXFails(w)
    \/ Dispatch(w) \/ Record(w)
    \/ Add(w)

Next ==
    \/ \E w \in Workers : \/ \E log \in Logs : CacheHit(w, log) \/ CacheMiss(w, log)
                          \/ Process(w)
    \/ \E a \in agents : AgentRecords(a)
    \/ \E alert \in outbox : Post(alert)
    \/ \E q \in Vectors : ThrottleLapses(q) \/ BlastLapses(q)
    \/ Crash
    \/ Drained

Spec == Init /\ [][Next]_vars

\* Workers and goroutines that can run do run: the Go scheduler is preemptive
\* and every call they make returns, if only with an error.  That the calls of
\* a worker to Qdrant return (main.go:188, 242) is assumed of Qdrant: they have
\* no deadline.  Nothing is said of new lines, of expiries or of crashes.
Fairness ==
    /\ \A w \in Workers : WF_vars(Process(w))
    /\ WF_vars(\E a \in agents : AgentRecords(a))
    /\ WF_vars(\E alert \in outbox : Post(alert))

FairSpec == Spec /\ Fairness

-----------------------------------------------------------------------------
(* Correctness                                                             *)

\* The types of the variables; a worker past a step has what the step yields,
\* and no blast radius is zero (it divides the trust score).
TypeOK ==
    /\ received \in Nat
    /\ pc \in [Workers -> Steps]
    /\ job \in [Workers -> Job]
    /\ \A w \in Workers :
         /\ pc[w] # "idle" => job[w].log \in Logs
         /\ pc[w] \notin {"idle", "infer"} => job[w].vec \in Vectors
    /\ cache \in Seq(Entry)
    /\ points \subseteq Vectors
    /\ blast \in [Vectors -> SUBSET Pods]
    /\ expiring \in [Vectors -> BOOLEAN]
    /\ throttle \in [Vectors -> BOOLEAN]
    /\ window \in [Vectors -> Nat]
    /\ agents \subseteq {j \in Job : j.log \in Logs /\ j.vec \in Vectors}
    /\ audit \in Seq(Row)
    /\ outbox \subseteq Row
    /\ posted \subseteq Row
    /\ crashes \in Nat
    /\ lost \subseteq Vectors \X Nat

Alerted == {TicketOf(alert) : alert \in outbox \cup posted}
Tickets == Pending \cup Recorded \cup Alerted

SameWindow(s, t) == s.q = t.q /\ s.window = t.window

\* The throttle (SetNX at main.go:269) lets one log line per incident and
\* window through, whatever the sixteen workers, the agents and the alert
\* goroutines do at once, and whatever call fails or crash intervenes.
OneEventPerWindow == \A s, t \in Tickets : SameWindow(s, t) => s.ev = t.ev

\* No incident is recorded twice in a window: not by two workers, nor by a
\* worker and an agent (RecordIncident at main.go:286, 292 and 298).
OneRowPerWindow ==
    \A i, k \in DOMAIN audit : SameWindow(audit[i], audit[k]) => i = k

\* No window goes missing.  Each one the throttle has begun (main.go:269) is
\* owed by one worker or agent, or has its row, or is one of those that a
\* failed insert (trace.go:75), a SETNX that was executed but returned an error
\* or a crash is known to have cost; never two of these, so that what was
\* given up is not recorded later.
EveryWindowAccounted ==
    /\ \A q \in Vectors, n \in 0..MaxWindows :
         n < window[q] \/ (n = window[q] /\ throttle[q])
            <=> <<q, n>> \in Owed \cup Settled \cup lost
    /\ Owed \cap Settled = {}
    /\ (Owed \cup Settled) \cap lost = {}

\* The cache that sixteen workers fill without a lock around look-up and Add
\* has one entry for a signature, never more than its capacity, and what it
\* answers for a log line is the embedding of a line with that signature.
CacheSound ==
    /\ Len(cache) <= Capacity
    /\ \A i, k \in DOMAIN cache : cache[i].sig = cache[k].sig => i = k
    /\ \A i \in DOMAIN cache :
         \E log \in Logs : Signature[log] = cache[i].sig
                         /\ Embedding[log] = cache[i].vec

\* An incident the audit trail or Slack shows can be found in the vector
\* store (unless an upsert failed): the later duplicates match against it.
IncidentHasPoint == \A t \in Tickets : t.q \in points

\* A blast radius is forgotten some time: a blast set without an expiry is
\* one whose worker is about to set it (unless that call fails).
BlastRadiusExpires ==
    \A q \in Vectors : blast[q] # {} /\ ~expiring[q] =>
        \E w \in Workers : pc[w] = "expire" /\ job[w].vec = q

\* Whoever opens a window does record the incident, even when the window
\* lapses before the agent is done (without failing calls and crashes).
ClaimIsRecorded ==
    \A q \in Vectors, n \in 0..MaxWindows :
        (throttle[q] /\ window[q] = n) ~>
        (\E t \in Recorded : t.q = q /\ t.window = n)

\* The throttle seen from outside: one debtor per incident and window, whose
\* debt is settled by one row, or given up by the failure that costs it.
Gate == INSTANCE AlertGate WITH
            Incidents <- Vectors,
            MayBurn   <- "redis" \in Faults,
            MayGiveUp <- "db" \in Faults,
            MayForget <- "crash" \in Faults,
            open      <- {q \in Vectors : throttle[q]},
            owed      <- Owed,
            settled   <- Settled

GateSpec == Gate!Spec

-----------------------------------------------------------------------------
(* What the documentation says and the code does not do                    *)

AtRest == agents = {} /\ \A w \in Workers : pc[w] = "idle"

\* README.md:42: "Above 0.99 is a duplicate, suppressed.  Below 0.85 is
\* genuinely novel, logged".  A row that says CACHED_DUPLICATE then has the
\* incident it duplicates in the trail as well, or in the seeded history.
DuplicateHasOriginal ==
    AtRest => \A i \in DOMAIN audit : audit[i].action = "CACHED_DUPLICATE" =>
        \/ \E k \in DOMAIN audit \ {i} : Similarity[<<audit[i].q, audit[k].q>>] > 99
        \/ \E u \in Seeded : Similarity[<<audit[i].q, u>>] > 99
=============================================================================
