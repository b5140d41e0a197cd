-------------------------- MODULE InferenceEngine --------------------------
(***************************************************************************)
(* The C++ engine: the gRPC handlers of InferenceServiceImpl::RunInference *)
(* (src/main.cpp), SimpleQueue, and the workers of ThreadPool that take    *)
(* batches off it, drop what has waited for more than 100 ms, run the      *)
(* model and hand each row of the output to the promise of its request.    *)
(* When the projection file is missing, main returns and ~ThreadPool sends *)
(* the workers a poison pill each.                                         *)
(*                                                                         *)
(* Time is nondeterministic: what a batch finds late, and when a handler   *)
(* has waited for five seconds.  A request that outlives its handler's     *)
(* five seconds is late.  An embedding is modelled by the request whose    *)
(* tokens the model was given.                                             *)
(***************************************************************************)
EXTENDS Integers, Sequences, FiniteSets

CONSTANTS
    Requests,     \* calls of RunInference
    Workers,      \* the threads of the pool
    ModelOf,      \* [Requests -> model ids]
    Loaded,       \* the models of session_pools
    BatchSize,    \* 32 in the code
    DepthLimit,   \* 500 in the code
    MaxHandlers,  \* calls that execute at a time, which the clients bound
    SlowCalls,    \* those that may time out while their request is in work
    RunMayFail,   \* Ort::Session::Run may throw
    Pill, NoEmbedding

ASSUME EngineAssumption ==
    /\ IsFiniteSet(Requests)
    /\ IsFiniteSet(Workers)
    /\ BatchSize \in Nat \ {0}
    /\ DepthLimit \in Nat
    /\ MaxHandlers \in Nat \ {0}
    /\ SlowCalls \subseteq Requests
    /\ RunMayFail \in BOOLEAN
    /\ Pill \notin Requests
    /\ NoEmbedding \notin Requests

VARIABLES
    phase,    \* "serving", "stopping" (in ~ThreadPool), "exited", "crashed"
    handler,  \* handler[r]: where RunInference is for call r
    reply,    \* reply[r]: what its caller has received
    promise,  \* promise[r]: the state its future shares
    queue,    \* SimpleQueue::queue_
    depth,    \* SimpleQueue::current_queue_depth
    wpc,      \* wpc[w]: where worker w is in worker_loop
    local,    \* local[w]: its batch, valid_indices and output rows
    pills     \* pills ~ThreadPool has yet to push

calls == <<handler, reply>>
pool == <<wpc, local>>
vars == <<phase, calls, promise, queue, depth, pool, pills>>

-----------------------------------------------------------------------------

Unset == [set |-> FALSE, emb |-> NoEmbedding, stale |-> FALSE]
Stale == [set |-> TRUE, emb |-> NoEmbedding, stale |-> TRUE]
Result(r) == [set |-> TRUE, emb |-> r, stale |-> FALSE]

NoReply == [status |-> "none", emb |-> NoEmbedding, stale |-> FALSE]
Status(code) == [NoReply EXCEPT !.status = code]
Answered(p) == [status |-> "OK", emb |-> p.emb, stale |-> p.stale]

NoBatch == [batch |-> <<>>, valid |-> <<>>, out |-> <<>>]

Executing == {r \in Requests : handler[r] \in {"admitted", "waiting"}}
Queued == {queue[i] : i \in DOMAIN queue}
InBatch(w) == {local[w].batch[i] : i \in DOMAIN local[w].batch}

\* Each request of the domain of result gets its result; set_value throws
\* when there is one, and the exception is swallowed.
Fulfil(result) ==
    promise' = [r \in Requests |->
        IF r \in DOMAIN result /\ ~promise[r].set THEN result[r] ELSE promise[r]]

-----------------------------------------------------------------------------
(* RunInference                                                            *)

Done(r, answer) == /\ handler' = [handler EXCEPT ![r] = "done"]
                   /\ reply' = [reply EXCEPT ![r] = answer]

Reject(r) ==
    /\ phase = "serving" /\ handler[r] = "new"
    /\ depth > DepthLimit
    /\ Done(r, Status("RESOURCE_EXHAUSTED"))
    /\ UNCHANGED <<phase, promise, queue, depth, pool, pills>>

\* Mutant: the depth is not looked at.
AdmitAlways(r) ==
    /\ phase = "serving" /\ handler[r] = "new"
    /\ Cardinality(Executing) < MaxHandlers
    /\ handler' = [handler EXCEPT ![r] = "admitted"]
    /\ UNCHANGED <<phase, reply, promise, queue, depth, pool, pills>>

\* The depth is read without the queue's lock, and the tokenizer runs before
\* the push.
Admit(r) ==
    /\ phase = "serving" /\ handler[r] = "new"
    /\ Cardinality(Executing) < MaxHandlers
    /\ depth <= DepthLimit
    /\ handler' = [handler EXCEPT ![r] = "admitted"]
    /\ UNCHANGED <<phase, reply, promise, queue, depth, pool, pills>>

Push(r) ==
    /\ phase = "serving" /\ handler[r] = "admitted"
    /\ handler' = [handler EXCEPT ![r] = "waiting"]
    /\ queue' = Append(queue, r)
    /\ depth' = depth + 1
    /\ UNCHANGED <<phase, reply, promise, pool, pills>>

Answer(r) ==
    /\ phase = "serving" /\ handler[r] = "waiting"
    /\ promise[r].set /\ ~promise[r].stale
    /\ Done(r, Answered(promise[r]))
    /\ UNCHANGED <<phase, promise, queue, depth, pool, pills>>

\* The handler projects the empty embedding of a stale result: it reads 384
\* floats of a vector that has none.  The process dies, or the reply carries
\* coordinates made of whatever was there.
AnswerStale(r) ==
    /\ phase = "serving" /\ handler[r] = "waiting"
    /\ promise[r].stale
    /\ \/ /\ phase' = "crashed"
          /\ Done(r, Status("UNAVAILABLE"))
       \/ /\ UNCHANGED phase
          /\ Done(r, Answered(promise[r]))
    /\ UNCHANGED <<promise, queue, depth, pool, pills>>

\* A batch has taken the request and nobody will ever fulfil its promise.
Abandoned(r) ==
    /\ handler[r] = "waiting" /\ ~promise[r].set
    /\ r \notin Queued
    /\ \A w \in Workers : r \notin InBatch(w)

\* Mutant: a failed batch is not waited out (wait instead of wait_for).
TimeoutOnlySlow(r) ==
    /\ phase = "serving" /\ handler[r] = "waiting" /\ ~promise[r].set
    /\ r \in SlowCalls /\ ~Abandoned(r)
    /\ Done(r, Status("DEADLINE_EXCEEDED"))
    /\ UNCHANGED <<phase, promise, queue, depth, pool, pills>>

Timeout(r) ==
    /\ phase = "serving" /\ handler[r] = "waiting" /\ ~promise[r].set
    /\ r \in SlowCalls \/ Abandoned(r)
    /\ Done(r, Status("DEADLINE_EXCEEDED"))
    /\ UNCHANGED <<phase, promise, queue, depth, pool, pills>>

\* The caller of a process that is gone.
Unavailable(r) ==
    /\ phase \in {"crashed", "exited"} /\ handler[r] # "done"
    /\ Done(r, Status("UNAVAILABLE"))
    /\ UNCHANGED <<phase, promise, queue, depth, pool, pills>>

-----------------------------------------------------------------------------
(* worker_loop                                                             *)

At(w, step) == phase \in {"serving", "stopping"} /\ wpc[w] = step

\* Mutant: the last request of the batch stays in the queue.
TakeBatchLeavesLast(w, n) ==
    /\ queue' = SubSeq(queue, n, Len(queue))
    /\ depth' = depth - n + 1
    /\ wpc' = [wpc EXCEPT ![w] = IF queue[1] = Pill THEN "stopped" ELSE "filter"]
    /\ local' = [local EXCEPT ![w].batch = SubSeq(queue, 1, n)]
    /\ UNCHANGED <<phase, calls, promise, pills>>

\* Mutant: fetch_sub(1) for the whole batch.
TakeBatchCountsOne(w, n) ==
    /\ queue' = SubSeq(queue, n + 1, Len(queue))
    /\ depth' = depth - 1
    /\ wpc' = [wpc EXCEPT ![w] = IF queue[1] = Pill THEN "stopped" ELSE "filter"]
    /\ local' = [local EXCEPT ![w].batch = SubSeq(queue, 1, n)]
    /\ UNCHANGED <<phase, calls, promise, pills>>

\* What pop_batch does to the queue, and to which step its result leads.
TakeBatch(w, n) ==
    LET batch == SubSeq(queue, 1, n) IN
        /\ queue' = SubSeq(queue, n + 1, Len(queue))
        /\ depth' = depth - n
        /\ IF batch[1] = Pill
           THEN /\ wpc' = [wpc EXCEPT ![w] = "stopped"]
                /\ UNCHANGED local
           ELSE /\ wpc' = [wpc EXCEPT ![w] = "filter"]
                /\ local' = [local EXCEPT ![w].batch = batch]
        /\ UNCHANGED <<phase, calls, promise, pills>>

\* Mutant: the wait for a full batch has no timeout.
PopFullBatch(w) ==
    /\ At(w, "pop")
    /\ Len(queue) >= BatchSize
    /\ TakeBatch(w, BatchSize)

\* At the latest when the 25 ms are over, with what there is.  Only the first
\* request of the batch is looked at for a pill.
PopBatch(w) ==
    /\ At(w, "pop")
    /\ queue # <<>>
    /\ TakeBatch(w, IF Len(queue) < BatchSize THEN Len(queue) ELSE BatchSize)

\* The 25 ms are over and there is nothing: around again.
PopNothing(w) ==
    /\ At(w, "pop")
    /\ queue = <<>>
    /\ UNCHANGED vars

\* The members of S in increasing order (there is one such sequence).
Increasing(S) == {s \in [1..Cardinality(S) -> S] :
                    \A i, k \in 1..Cardinality(S) : i < k => s[i] < s[k]}

\* The 100 ms are over for some of the batch, among them all whose handlers
\* have given up; the rows of the others form the input.
Filter(w) ==
    /\ At(w, "filter")
    /\ \E late \in SUBSET InBatch(w) :
         /\ {r \in InBatch(w) : r \in Requests /\ handler[r] = "done"} \subseteq late
         /\ Fulfil([r \in late |-> Stale])
         /\ \E valid \in Increasing({i \in DOMAIN local[w].batch :
                                       local[w].batch[i] \notin late}) :
              IF valid = <<>>
              THEN /\ wpc' = [wpc EXCEPT ![w] = "pop"]
                   /\ local' = [local EXCEPT ![w] = NoBatch]
              ELSE /\ wpc' = [wpc EXCEPT ![w] = "run"]
                   /\ local' = [local EXCEPT ![w].valid = valid]
    /\ UNCHANGED <<phase, calls, queue, depth, pills>>

\* The session is the one of the first request of the batch, late or not.
HeadModel(w) == ModelOf[local[w].batch[1]]

\* Mutant: the input has the first requests of the batch, late or not.
RunFirstRows(w) ==
    /\ At(w, "run")
    /\ HeadModel(w) \in Loaded
    /\ local' = [local EXCEPT ![w].out = [b \in DOMAIN local[w].valid |->
                                            local[w].batch[b]]]
    /\ wpc' = [wpc EXCEPT ![w] = "deliver"]
    /\ UNCHANGED <<phase, calls, promise, queue, depth, pills>>

Run(w) ==
    /\ At(w, "run")
    /\ HeadModel(w) \in Loaded
    /\ local' = [local EXCEPT ![w].out = [b \in DOMAIN local[w].valid |->
                                            local[w].batch[local[w].valid[b]]]]
    /\ wpc' = [wpc EXCEPT ![w] = "deliver"]
    /\ UNCHANGED <<phase, calls, promise, queue, depth, pills>>

\* session_pools.at or Run throws: the catch block leaves the promises alone.
Fail(w) ==
    /\ At(w, "run")
    /\ HeadModel(w) \notin Loaded \/ RunMayFail
    /\ local' = [local EXCEPT ![w] = NoBatch]
    /\ wpc' = [wpc EXCEPT ![w] = "pop"]
    /\ UNCHANGED <<phase, calls, promise, queue, depth, pills>>

\* Mutant: the rows are counted from one.
DeliverFromOne(w) ==
    /\ At(w, "deliver")
    /\ LET valid == local[w].valid
           out == local[w].out
           row(r) == CHOOSE b \in DOMAIN out : local[w].batch[valid[b]] = r
       IN  Fulfil([r \in {local[w].batch[valid[b]] : b \in DOMAIN out \ {1}} |->
                      Result(out[row(r)])])
    /\ wpc' = [wpc EXCEPT ![w] = "pop"]
    /\ local' = [local EXCEPT ![w] = NoBatch]
    /\ UNCHANGED <<phase, calls, queue, depth, pills>>

\* Row b is the embedding of request valid_indices[b].
Deliver(w) ==
    /\ At(w, "deliver")
    /\ LET valid == local[w].valid
           out == local[w].out
           row(r) == CHOOSE b \in DOMAIN out : local[w].batch[valid[b]] = r
       IN  Fulfil([r \in {local[w].batch[valid[b]] : b \in DOMAIN out} |->
                      Result(out[row(r)])])
    /\ wpc' = [wpc EXCEPT ![w] = "pop"]
    /\ local' = [local EXCEPT ![w] = NoBatch]
    /\ UNCHANGED <<phase, calls, queue, depth, pills>>

-----------------------------------------------------------------------------
(* The end of main                                                         *)

\* Mutant: one pill too many.
PushPillOneMore ==
    /\ phase = "stopping" /\ pills >= 0
    /\ pills' = pills - 1
    /\ queue' = Append(queue, Pill)
    /\ depth' = depth + 1
    /\ UNCHANGED <<phase, calls, promise, pool>>

\* ~ThreadPool pushes a pill for each worker ...
PushPill ==
    /\ phase = "stopping" /\ pills > 0
    /\ pills' = pills - 1
    /\ queue' = Append(queue, Pill)
    /\ depth' = depth + 1
    /\ UNCHANGED <<phase, calls, promise, pool>>

\* ... and joins them.
Join ==
    /\ phase = "stopping" /\ pills = 0
    /\ \A w \in Workers : wpc[w] = "stopped"
    /\ phase' = "exited"
    /\ UNCHANGED <<calls, promise, queue, depth, pool, pills>>

\* The process is gone and every caller knows.
Gone ==
    /\ phase \in {"crashed", "exited"}
    /\ \A r \in Requests : handler[r] = "done"
    /\ UNCHANGED vars

-----------------------------------------------------------------------------

\* The pool runs; projector.init has succeeded or failed.
Init ==
    /\ phase \in {"serving", "stopping"}
    /\ handler = [r \in Requests |-> "new"]
    /\ reply = [r \in Requests |-> NoReply]
    /\ promise = [r \in Requests |-> Unset]
    /\ queue = <<>>
    /\ depth = 0
    /\ wpc = [w \in Workers |-> "pop"]
    /\ local = [w \in Workers |-> NoBatch]
    /\ pills = Cardinality(Workers)

Call(r) == Reject(r) \/ Admit(r) \/ Push(r) \/ Answer(r) \/ AnswerStale(r)
           \/ Timeout(r) \/ Unavailable(r)

Work(w) == PopBatch(w) \/ PopNothing(w) \/ Filter(w) \/ Run(w) \/ Fail(w) \/ Deliver(w)

Next == \/ \E r \in Requests : Call(r)
        \/ \E w \in Workers : Work(w)
        \/ PushPill
        \/ Join
        \/ Gone

Spec == Init /\ [][Next]_vars

\* Threads that can run do run, and every wait in the code is a timed one.  A
\* call need not be made: Admit and Reject are not fair.
Fairness ==
    /\ \A r \in Requests : WF_vars(Push(r) \/ Answer(r) \/ AnswerStale(r)
                                   \/ Timeout(r) \/ Unavailable(r))
    /\ \A w \in Workers : WF_vars(Work(w))
    /\ WF_vars(PushPill \/ Join)

FairSpec == Spec /\ Fairness

-----------------------------------------------------------------------------
(* Correctness                                                             *)

\* The types of the variables.
TypeOK ==
    /\ phase \in {"serving", "stopping", "exited", "crashed"}
    /\ handler \in [Requests -> {"new", "admitted", "waiting", "done"}]
    /\ reply \in [Requests ->
         [status : {"none", "OK", "RESOURCE_EXHAUSTED", "DEADLINE_EXCEEDED", "UNAVAILABLE"},
          emb : Requests \cup {NoEmbedding}, stale : BOOLEAN]]
    /\ promise \in [Requests -> [set : BOOLEAN, emb : Requests \cup {NoEmbedding},
                                 stale : BOOLEAN]]
    /\ queue \in Seq(Requests \cup {Pill})
    /\ depth \in Int
    /\ wpc \in [Workers -> {"pop", "filter", "run", "deliver", "stopped"}]
    /\ local \in [Workers -> [batch : Seq(Requests \cup {Pill}), valid : Seq(Nat),
                              out : Seq(Requests \cup {Pill})]]
    /\ pills \in Nat

\* The depth that RunInference reads without the lock is the length of the
\* queue, and although handlers that all saw room push later, the queue
\* exceeds the limit by no more than the calls that execute at a time.
DepthBounded ==
    /\ depth = Len(queue)
    /\ phase = "serving" => Len(queue) <= DepthLimit + MaxHandlers

\* A caller gets the embedding of its own log line, whatever its batch, and
\* whichever rows of the batch were dropped as late.
OwnEmbedding ==
    \A r \in Requests : reply[r].status = "OK" /\ ~reply[r].stale => reply[r].emb = r

\* No request is taken twice, or computed while it is queued: two workers
\* never have the same promise to fulfil.
TakenOnce ==
    /\ \A i, k \in DOMAIN queue : queue[i] = queue[k] /\ queue[i] # Pill => i = k
    /\ \A w \in Workers : InBatch(w) \cap Queued \subseteq {Pill}
    /\ \A w1, w2 \in Workers : w1 # w2 => InBatch(w1) \cap InBatch(w2) \subseteq {Pill}

\* A caller is left to its timeout only by a batch that fails: neither the
\* pills, nor a batch cut off the queue, nor the rows of a batch of which some
\* requests are late lose a request (thread_pool.hpp:62-176).
OnlyFailedBatchAbandons ==
    [][\A r \in Requests : Abandoned(r)' /\ ~Abandoned(r) =>
          \E w \in Workers : Fail(w) /\ r \in InBatch(w)]_vars

\* A batch that is not full does not wait for ever (README of the engine, line
\* 30: "ensuring no single request waits indefinitely under low load"): each
\* queued request is taken by some worker.
QueuedIsTaken == \A r \in Requests :
    (r \in Queued) ~> (r \notin Queued \/ phase = "crashed")

\* Every call returns, if only with DEADLINE_EXCEEDED or UNAVAILABLE.
CallReturns == \A r \in Requests : (handler[r] = "waiting") ~> (handler[r] = "done")

Waiting == {r \in Requests : handler[r] = "waiting"}
Open == {r \in Requests :
           /\ ~promise[r].set
           /\ \/ r \in Queued
              \/ \E w \in Workers : \E i \in DOMAIN local[w].batch : local[w].batch[i] = r}
Computed == {r \in Requests : promise[r].set /\ ~promise[r].stale}
Late == {r \in Requests : promise[r].set /\ promise[r].stale}

\* What a reply is to the caller of r.
Outcome(r, answer) == IF answer.status # "OK" THEN answer.status
                      ELSE IF answer.stale THEN "late"
                      ELSE IF answer.emb = r THEN "own" ELSE "foreign"

\* The engine seen by its callers: neither the batches, nor the late requests
\* among others, nor a depth that is read without the lock show.
Service == INSTANCE RequestReply WITH
               Calls    <- Requests,
               Limit    <- DepthLimit,
               Slow     <- SlowCalls,
               serving  <- phase = "serving",
               waiting  <- Waiting,
               open     <- Open,
               computed <- Computed,
               late     <- Late,
               answer   <- [r \in Requests |-> Outcome(r, reply[r])]

ServiceSpec == Service!Spec

-----------------------------------------------------------------------------
(* What the code, its comments and clients expect and what is not so       *)

\* InferenceResult and the protocol have an is_stale flag, which worker_loop
\* sets for a late request and the handler copies into the reply (main.cpp:92):
\* the caller of a late request is told so.
LateIsReported ==
    \A r \in Requests : promise[r].stale /\ handler[r] = "done" =>
        reply[r].status \in {"OK", "DEADLINE_EXCEEDED"}

\* testing.py:35 expects an embedding for model "embedder".  A request for a
\* loaded model is not abandoned because of another client's model id.
LoadedIsServed ==
    ~RunMayFail => \A r \in Requests : Abandoned(r) => ModelOf[r] \notin Loaded

\* When projection.bin cannot be loaded, main returns 1: the process exits.
FailedBootExits == (phase = "stopping") ~> (phase = "exited")
=============================================================================
