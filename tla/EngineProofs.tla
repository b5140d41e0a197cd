---------------------------- MODULE EngineProofs ----------------------------
(***************************************************************************)
(* Proofs about InferenceEngine, for any number of requests and workers,   *)
(* any batch size and depth limit, whatever is late and whatever fails.    *)
(***************************************************************************)
EXTENDS InferenceEngine, FiniteSetTheorems, FunctionTheorems, SequenceTheorems, TLAPS

Item == Requests \cup {Pill}
Embeddings == Requests \cup {NoEmbedding}
PromiseState == [set : BOOLEAN, emb : Embeddings, stale : BOOLEAN]
Reply == [status : {"none", "OK", "RESOURCE_EXHAUSTED", "DEADLINE_EXCEEDED", "UNAVAILABLE"},
          emb : Embeddings, stale : BOOLEAN]
Batch == [batch : Seq(Item), valid : Seq(Nat), out : Seq(Item)]

\* A result is stale, or is computed from the tokens of its request.
Own(r, p) == p.set /\ ~p.stale => p.emb = r

\* Each row that is about to be delivered was computed for the request that
\* valid_indices names.
RowsInv == \A w \in Workers :
    /\ wpc[w] \in {"run", "deliver"} =>
         \A b \in DOMAIN local[w].valid : local[w].valid[b] \in DOMAIN local[w].batch
    /\ wpc[w] = "deliver" =>
         /\ DOMAIN local[w].out = DOMAIN local[w].valid
         /\ \A b \in DOMAIN local[w].out :
              local[w].out[b] = local[w].batch[local[w].valid[b]]

PromiseInv == \A r \in Requests : Own(r, promise[r])

EngineInv == TypeOK /\ RowsInv /\ PromiseInv /\ OwnEmbedding

-----------------------------------------------------------------------------
(* Values                                                                  *)

LEMMA Values ==
  /\ Unset \in PromiseState /\ Stale \in PromiseState
  /\ \A r \in Requests : Own(r, Unset) /\ Own(r, Stale)
  /\ \A r \in Requests : Result(r) \in PromiseState /\ Own(r, Result(r))
  /\ NoReply \in Reply /\ NoReply.status # "OK"
  /\ \A code \in {"RESOURCE_EXHAUSTED", "DEADLINE_EXCEEDED", "UNAVAILABLE"} :
       Status(code) \in Reply /\ Status(code).status # "OK"
  /\ \A p \in PromiseState : /\ Answered(p) \in Reply
                             /\ Answered(p).emb = p.emb /\ Answered(p).stale = p.stale
  /\ NoBatch \in Batch
<1>1. /\ Unset \in PromiseState /\ Stale \in PromiseState
      /\ \A r \in Requests : Own(r, Unset) /\ Own(r, Stale)
  BY DEF Unset, Stale, PromiseState, Embeddings, Own
<1>2. \A r \in Requests : Result(r) \in PromiseState /\ Own(r, Result(r))
  BY DEF Result, PromiseState, Embeddings, Own
<1>3. NoReply \in Reply /\ NoReply.status # "OK"
  BY DEF NoReply, Reply, Embeddings
<1>4. \A code \in {"RESOURCE_EXHAUSTED", "DEADLINE_EXCEEDED", "UNAVAILABLE"} :
       Status(code) \in Reply /\ Status(code).status # "OK"
  BY DEF Status, NoReply, Reply, Embeddings
<1>5. \A p \in PromiseState : /\ Answered(p) \in Reply
                             /\ Answered(p).emb = p.emb /\ Answered(p).stale = p.stale
  BY DEF Answered, Reply, PromiseState, Embeddings
<1>6. NoBatch \in Batch
  BY DEF NoBatch, Batch, Item
<1> QED
  BY <1>1, <1>2, <1>3, <1>4, <1>5, <1>6

\* TypeOK in terms of these sets.
LEMMA Types ==
  TypeOK <=> /\ phase \in {"serving", "stopping", "exited", "crashed"}
             /\ handler \in [Requests -> {"new", "admitted", "waiting", "done"}]
             /\ reply \in [Requests -> Reply]
             /\ promise \in [Requests -> PromiseState]
             /\ queue \in Seq(Item)
             /\ depth \in Int
             /\ wpc \in [Workers -> {"pop", "filter", "run", "deliver", "stopped"}]
             /\ local \in [Workers -> Batch]
             /\ pills \in Nat
  BY DEF TypeOK, Reply, PromiseState, Batch, Item, Embeddings

\* What to show of a step, part by part.
LEMMA Assemble ==
  ASSUME phase' \in {"serving", "stopping", "exited", "crashed"},
         handler' \in [Requests -> {"new", "admitted", "waiting", "done"}],
         reply' \in [Requests -> Reply],
         promise' \in [Requests -> PromiseState],
         queue' \in Seq(Item), depth' \in Int, pills' \in Nat,
         wpc' \in [Workers -> {"pop", "filter", "run", "deliver", "stopped"}],
         local' \in [Workers -> Batch],
         RowsInv', PromiseInv', OwnEmbedding'
  PROVE  EngineInv'
  BY DEF EngineInv, TypeOK, Reply, PromiseState, Batch, Item, Embeddings

\* Parts that do not change.
LEMMA Same ==
  ASSUME EngineInv
  PROVE  /\ UNCHANGED phase => phase' \in {"serving", "stopping", "exited", "crashed"}
         /\ UNCHANGED handler => handler' \in [Requests -> {"new", "admitted", "waiting", "done"}]
         /\ UNCHANGED reply => reply' \in [Requests -> Reply] /\ OwnEmbedding'
         /\ UNCHANGED promise => promise' \in [Requests -> PromiseState] /\ PromiseInv'
         /\ UNCHANGED queue => queue' \in Seq(Item)
         /\ UNCHANGED depth => depth' \in Int
         /\ UNCHANGED pills => pills' \in Nat
         /\ UNCHANGED <<wpc, local>> =>
              /\ wpc' \in [Workers -> {"pop", "filter", "run", "deliver", "stopped"}]
              /\ local' \in [Workers -> Batch] /\ RowsInv'
<1>1. /\ phase \in {"serving", "stopping", "exited", "crashed"}
      /\ handler \in [Requests -> {"new", "admitted", "waiting", "done"}]
      /\ reply \in [Requests -> Reply] /\ promise \in [Requests -> PromiseState]
      /\ queue \in Seq(Item) /\ depth \in Int /\ pills \in Nat
      /\ wpc \in [Workers -> {"pop", "filter", "run", "deliver", "stopped"}]
      /\ local \in [Workers -> Batch]
  BY Types DEF EngineInv
<1>2. UNCHANGED reply => OwnEmbedding'
  BY DEF EngineInv, OwnEmbedding
<1>3. UNCHANGED promise => PromiseInv'
  BY DEF EngineInv, PromiseInv, Own
<1>4. UNCHANGED <<wpc, local>> => RowsInv'
  BY DEF EngineInv, RowsInv
<1> QED
  BY <1>1, <1>2, <1>3, <1>4

\* Promises after set_value of some results.
LEMMA FulfilOwn ==
  ASSUME promise \in [Requests -> PromiseState], PromiseInv, NEW result, Fulfil(result),
         \A r \in Requests \cap DOMAIN result : result[r] \in PromiseState /\ Own(r, result[r])
  PROVE  promise' \in [Requests -> PromiseState] /\ PromiseInv'
<1>1. promise' = [r \in Requests |->
          IF r \in DOMAIN result /\ ~promise[r].set THEN result[r] ELSE promise[r]]
  BY DEF Fulfil
<1>2. ASSUME NEW r \in Requests
      PROVE  promise'[r] \in PromiseState /\ Own(r, promise'[r])
  <2>1. promise'[r] = IF r \in DOMAIN result /\ ~promise[r].set THEN result[r] ELSE promise[r]
    BY <1>1
  <2>2. CASE r \in DOMAIN result /\ ~promise[r].set
    <3>1. promise'[r] = result[r]
      BY <2>1, <2>2
    <3> QED
      BY <2>2, <3>1
  <2>3. CASE ~(r \in DOMAIN result /\ ~promise[r].set)
    <3>1. promise'[r] = promise[r]
      BY <2>1, <2>3
    <3> QED
      BY <3>1 DEF PromiseInv
  <2> QED
    BY <2>2, <2>3
<1>3. promise' \in [Requests -> PromiseState]
  BY <1>1, <1>2
<1> QED
  BY <1>2, <1>3 DEF PromiseInv

-----------------------------------------------------------------------------
(* The steps                                                               *)

LEMMA InitEngine == Init => EngineInv
<1> SUFFICES ASSUME Init PROVE EngineInv
  OBVIOUS
<1>1. pills \in Nat
  BY EngineAssumption, FS_CardinalityType DEF Init
<1>2. TypeOK
  BY <1>1, Values, Types DEF Init
<1>3. PromiseInv /\ OwnEmbedding
  BY Values DEF Init, PromiseInv, OwnEmbedding
<1>4. RowsInv
  BY DEF Init, RowsInv
<1> QED
  BY <1>2, <1>3, <1>4 DEF EngineInv

\* A handler ends with a reply.
LEMMA DoneOwn ==
  ASSUME EngineInv, NEW r \in Requests, NEW answer \in Reply, Done(r, answer),
         answer.status = "OK" /\ ~answer.stale => answer.emb = r
  PROVE  /\ handler' \in [Requests -> {"new", "admitted", "waiting", "done"}]
         /\ reply' \in [Requests -> Reply]
         /\ OwnEmbedding'
<1>1. /\ handler \in [Requests -> {"new", "admitted", "waiting", "done"}]
      /\ reply \in [Requests -> Reply]
  BY Types DEF EngineInv
<1>2. /\ handler' = [handler EXCEPT ![r] = "done"]
      /\ reply' = [reply EXCEPT ![r] = answer]
  BY DEF Done
<1>3. OwnEmbedding'
  BY <1>1, <1>2 DEF EngineInv, OwnEmbedding
<1> QED
  BY <1>1, <1>2, <1>3

LEMMA CallEngine ==
  ASSUME EngineInv, NEW r \in Requests, Call(r)
  PROVE  EngineInv'
<1>0. promise[r] \in PromiseState /\ Own(r, promise[r])
  BY Types DEF EngineInv, PromiseInv
<1>1. CASE Reject(r) \/ Timeout(r) \/ Unavailable(r)
  <2>1. PICK code \in {"RESOURCE_EXHAUSTED", "DEADLINE_EXCEEDED", "UNAVAILABLE"} :
          Done(r, Status(code))
    BY <1>1 DEF Reject, Timeout, Unavailable
  <2>2. /\ handler' \in [Requests -> {"new", "admitted", "waiting", "done"}]
        /\ reply' \in [Requests -> Reply]
        /\ OwnEmbedding'
    BY <2>1, Values, DoneOwn
  <2>3. UNCHANGED <<phase, promise, queue, depth, wpc, local, pills>>
    BY <1>1 DEF Reject, Timeout, Unavailable, pool
  <2> QED
    BY <2>2, <2>3, Same, Assemble
<1>2. CASE Admit(r)
  <2>1. handler' = [handler EXCEPT ![r] = "admitted"]
        /\ UNCHANGED <<phase, reply, promise, queue, depth, wpc, local, pills>>
    BY <1>2 DEF Admit, pool
  <2>2. handler' \in [Requests -> {"new", "admitted", "waiting", "done"}]
    BY <2>1, Types DEF EngineInv
  <2> QED
    BY <2>1, <2>2, Same, Assemble
<1>3. CASE Push(r)
  <2>1. /\ handler' = [handler EXCEPT ![r] = "waiting"]
        /\ queue' = Append(queue, r) /\ depth' = depth + 1
        /\ UNCHANGED <<phase, reply, promise, wpc, local, pills>>
    BY <1>3 DEF Push, pool
  <2>2. r \in Item
    BY DEF Item
  <2>3. /\ queue \in Seq(Item) /\ depth \in Int
        /\ handler \in [Requests -> {"new", "admitted", "waiting", "done"}]
    BY Types DEF EngineInv
  <2>4. queue' \in Seq(Item) /\ depth' \in Int
    BY <2>1, <2>2, <2>3, SMT
  <2>5. handler' \in [Requests -> {"new", "admitted", "waiting", "done"}]
    BY <2>1, <2>3
  <2> QED
    BY <2>1, <2>4, <2>5, Same, Assemble
<1>4. CASE Answer(r) \/ (AnswerStale(r) /\ phase' = phase)
  <2>1. /\ UNCHANGED phase
        /\ \/ Done(r, Answered(promise[r])) /\ promise[r].set
           \/ Done(r, Answered(promise[r])) /\ promise[r].stale
           \/ Done(r, Status("UNAVAILABLE"))
    BY <1>4, Zenon DEF Answer, AnswerStale
  <2>2. /\ handler' \in [Requests -> {"new", "admitted", "waiting", "done"}]
        /\ reply' \in [Requests -> Reply]
        /\ OwnEmbedding'
    BY <1>0, <2>1, Values, DoneOwn DEF Own
  <2>3. UNCHANGED <<phase, promise, queue, depth, wpc, local, pills>>
    BY <1>4, <2>1 DEF Answer, AnswerStale, pool
  <2> QED
    BY <2>2, <2>3, Same, Assemble
<1>5. CASE AnswerStale(r) /\ phase' = "crashed" /\ Done(r, Status("UNAVAILABLE"))
  <2>1. /\ handler' \in [Requests -> {"new", "admitted", "waiting", "done"}]
        /\ reply' \in [Requests -> Reply]
        /\ OwnEmbedding'
    BY <1>5, Values, DoneOwn
  <2>2. UNCHANGED <<promise, queue, depth, wpc, local, pills>>
    BY <1>5 DEF AnswerStale, pool
  <2> QED
    BY <1>5, <2>1, <2>2, Same, Assemble
<1> QED
  BY <1>1, <1>2, <1>3, <1>4, <1>5 DEF Call, AnswerStale

\* A step of worker w that leaves the calls and the promises alone.
LEMMA WorkerEngine ==
  ASSUME EngineInv, NEW w \in Workers,
         NEW step \in {"pop", "filter", "run", "deliver", "stopped"}, NEW b \in Batch,
         wpc' = [wpc EXCEPT ![w] = step], local' = [local EXCEPT ![w] = b],
         step \in {"run", "deliver"} => \A i \in DOMAIN b.valid : b.valid[i] \in DOMAIN b.batch,
         step = "deliver" => /\ DOMAIN b.out = DOMAIN b.valid
                             /\ \A i \in DOMAIN b.out : b.out[i] = b.batch[b.valid[i]]
  PROVE  /\ wpc' \in [Workers -> {"pop", "filter", "run", "deliver", "stopped"}]
         /\ local' \in [Workers -> Batch]
         /\ RowsInv'
<1>1. /\ wpc \in [Workers -> {"pop", "filter", "run", "deliver", "stopped"}]
      /\ local \in [Workers -> Batch]
  BY Types DEF EngineInv
<1>2. /\ wpc' \in [Workers -> {"pop", "filter", "run", "deliver", "stopped"}]
      /\ local' \in [Workers -> Batch]
  BY <1>1
<1>3. ASSUME NEW x \in Workers, x # w
      PROVE  wpc'[x] = wpc[x] /\ local'[x] = local[x]
  BY <1>1, <1>3
<1>4. wpc'[w] = step /\ local'[w] = b
  BY <1>1
<1>5. RowsInv
  BY DEF EngineInv
<1>6. ASSUME NEW x \in Workers
      PROVE  /\ wpc'[x] \in {"run", "deliver"} =>
                  \A i \in DOMAIN local'[x].valid :
                      local'[x].valid[i] \in DOMAIN local'[x].batch
             /\ wpc'[x] = "deliver" =>
                  /\ DOMAIN local'[x].out = DOMAIN local'[x].valid
                  /\ \A i \in DOMAIN local'[x].out :
                       local'[x].out[i] = local'[x].batch[local'[x].valid[i]]
  <2>1. CASE x = w
    BY <1>4, <2>1
  <2>2. CASE x # w
    BY <1>3, <1>5, <2>2 DEF RowsInv
  <2> QED
    BY <2>1, <2>2
<1>7. RowsInv'
  BY <1>6 DEF RowsInv
<1> QED
  BY <1>2, <1>7

LEMMA TakeEngine ==
  ASSUME EngineInv, NEW w \in Workers, NEW n \in Nat, n <= Len(queue), TakeBatch(w, n)
  PROVE  EngineInv'
<1> DEFINE batch == SubSeq(queue, 1, n)
<1>1. queue \in Seq(Item) /\ depth \in Int /\ local[w] \in Batch
  BY Types DEF EngineInv
<1>2. /\ batch \in Seq(Item) /\ SubSeq(queue, n + 1, Len(queue)) \in Seq(Item)
      /\ depth - n \in Int
  BY <1>1, SMT
<1>3. queue' \in Seq(Item) /\ depth' \in Int
  BY <1>2 DEF TakeBatch
<1>4. UNCHANGED <<phase, handler, reply, promise, pills>>
  BY Zenon DEF TakeBatch, calls
<1> DEFINE b == [local[w] EXCEPT !.batch = batch]
<1>5. \/ wpc' = [wpc EXCEPT ![w] = "stopped"] /\ local' = local
      \/ wpc' = [wpc EXCEPT ![w] = "filter"] /\ local' = [local EXCEPT ![w] = b]
  BY Zenon DEF TakeBatch
<1>6. b \in Batch /\ local = [local EXCEPT ![w] = local[w]]
  <2> HIDE DEF batch
  <2> QED
    BY <1>1, <1>2, Types DEF Batch, EngineInv
<1> HIDE DEF b
<1>7. /\ wpc' \in [Workers -> {"pop", "filter", "run", "deliver", "stopped"}]
      /\ local' \in [Workers -> Batch]
      /\ RowsInv'
  <2>1. CASE wpc' = [wpc EXCEPT ![w] = "stopped"] /\ local' = local
    BY <1>1, <1>6, <2>1, WorkerEngine
  <2>2. CASE wpc' = [wpc EXCEPT ![w] = "filter"] /\ local' = [local EXCEPT ![w] = b]
    BY <1>6, <2>2, WorkerEngine
  <2> QED
    BY <1>5, <2>1, <2>2
<1> QED
  BY <1>3, <1>4, <1>7, Same, Assemble

\* The valid indices are indices of the batch.
LEMMA IncreasingType ==
  ASSUME NEW s \in Seq(Item), NEW S \in SUBSET DOMAIN s, NEW valid \in Increasing(S)
  PROVE  valid \in Seq(Nat) /\ \A i \in DOMAIN valid : valid[i] \in DOMAIN s
<1>1. DOMAIN s = 1..Len(s) /\ Len(s) \in Nat
  OBVIOUS
<1>2. IsFiniteSet(DOMAIN s)
  BY <1>1, FS_Interval
<1>3. Cardinality(S) \in Nat
  BY <1>2, FS_Subset, FS_CardinalityType
<1>4. valid \in [1..Cardinality(S) -> S]
  BY DEF Increasing
<1>5. S \subseteq Nat
  BY <1>1
<1> QED
  BY <1>3, <1>4, <1>5

LEMMA FilterEngine ==
  ASSUME EngineInv, NEW w \in Workers, Filter(w)
  PROVE  EngineInv'
<1>1. PICK late \in SUBSET InBatch(w) :
        /\ Fulfil([r \in late |-> Stale])
        /\ \E valid \in Increasing({i \in DOMAIN local[w].batch :
                                      local[w].batch[i] \notin late}) :
             IF valid = <<>>
             THEN /\ wpc' = [wpc EXCEPT ![w] = "pop"]
                  /\ local' = [local EXCEPT ![w] = NoBatch]
             ELSE /\ wpc' = [wpc EXCEPT ![w] = "run"]
                  /\ local' = [local EXCEPT ![w].valid = valid]
  BY Zenon DEF Filter
<1>2. local[w] \in Batch /\ local[w].batch \in Seq(Item) /\ promise \in [Requests -> PromiseState]
  BY Types DEF EngineInv, Batch
<1>3. promise' \in [Requests -> PromiseState] /\ PromiseInv'
  <2> DEFINE result == [r \in late |-> Stale]
  <2>1. \A r \in Requests \cap DOMAIN result : result[r] \in PromiseState /\ Own(r, result[r])
    BY Values
  <2>2. Fulfil(result)
    BY <1>1
  <2> HIDE DEF result
  <2> QED
    BY <1>2, <2>1, <2>2, FulfilOwn DEF EngineInv
<1> DEFINE S == {i \in DOMAIN local[w].batch : local[w].batch[i] \notin late}
<1>4. PICK valid \in Increasing(S) :
        \/ /\ wpc' = [wpc EXCEPT ![w] = "pop"]
           /\ local' = [local EXCEPT ![w] = NoBatch]
        \/ /\ wpc' = [wpc EXCEPT ![w] = "run"]
           /\ local' = [local EXCEPT ![w].valid = valid]
  BY <1>1, Zenon
<1>5. valid \in Seq(Nat) /\ \A i \in DOMAIN valid : valid[i] \in DOMAIN local[w].batch
  <2>1. S \in SUBSET DOMAIN local[w].batch
    OBVIOUS
  <2> HIDE DEF S
  <2> QED
    BY <1>2, <2>1, IncreasingType
<1> DEFINE b == [local[w] EXCEPT !.valid = valid]
<1>6. b \in Batch /\ b.valid = valid /\ b.batch = local[w].batch
  BY <1>2, <1>5 DEF Batch
<1>7. /\ wpc' \in [Workers -> {"pop", "filter", "run", "deliver", "stopped"}]
      /\ local' \in [Workers -> Batch]
      /\ RowsInv'
  <2>1. CASE wpc' = [wpc EXCEPT ![w] = "pop"] /\ local' = [local EXCEPT ![w] = NoBatch]
    BY <2>1, Values, WorkerEngine
  <2>2. CASE wpc' = [wpc EXCEPT ![w] = "run"] /\ local' = [local EXCEPT ![w] = b]
    <3> HIDE DEF b
    <3> QED
      BY <1>5, <1>6, <2>2, WorkerEngine
  <2> QED
    BY <1>4, <2>1, <2>2
<1>8. UNCHANGED <<phase, handler, reply, queue, depth, pills>>
  BY DEF Filter, calls
<1> QED
  BY <1>3, <1>7, <1>8, Same, Assemble

LEMMA RunEngine ==
  ASSUME EngineInv, NEW w \in Workers, Run(w) \/ Fail(w)
  PROVE  EngineInv'
<1>1. local[w] \in Batch /\ local[w].batch \in Seq(Item) /\ local[w].valid \in Seq(Nat)
  BY Types DEF EngineInv, Batch
<1>2. UNCHANGED <<phase, handler, reply, promise, queue, depth, pills>>
  BY DEF Run, Fail, calls
<1>3. /\ wpc' \in [Workers -> {"pop", "filter", "run", "deliver", "stopped"}]
      /\ local' \in [Workers -> Batch]
      /\ RowsInv'
  <2>1. CASE Run(w)
    <3> DEFINE out == [b \in DOMAIN local[w].valid |-> local[w].batch[local[w].valid[b]]]
               b == [local[w] EXCEPT !.out = out]
    <3>1. wpc' = [wpc EXCEPT ![w] = "deliver"] /\ local' = [local EXCEPT ![w] = b]
      BY <2>1 DEF Run
    <3>2. \A i \in DOMAIN local[w].valid : local[w].valid[i] \in DOMAIN local[w].batch
      BY <2>1 DEF Run, At, EngineInv, RowsInv
    <3>3. out \in Seq(Item) /\ DOMAIN out = DOMAIN local[w].valid
      <4>1. \A i \in DOMAIN local[w].valid : local[w].batch[local[w].valid[i]] \in Item
        BY <1>1, <3>2
      <4>2. Len(local[w].valid) \in Nat /\ DOMAIN local[w].valid = 1..Len(local[w].valid)
        BY <1>1
      <4>3. out \in [1..Len(local[w].valid) -> Item]
        BY <4>1, <4>2
      <4>4. DOMAIN out = DOMAIN local[w].valid
        OBVIOUS
      <4> HIDE DEF out
      <4> QED
        BY <4>2, <4>3, <4>4, SMT
    <3>4. \A i \in DOMAIN out : out[i] = local[w].batch[local[w].valid[i]]
      OBVIOUS
    <3> HIDE DEF out
    <3>5. b \in Batch /\ b.valid = local[w].valid /\ b.batch = local[w].batch /\ b.out = out
      BY <1>1, <3>3 DEF Batch
    <3> HIDE DEF b
    <3> QED
      BY <3>1, <3>2, <3>3, <3>4, <3>5, WorkerEngine
  <2>2. CASE Fail(w)
    BY <2>2, Values, WorkerEngine DEF Fail
  <2> QED
    BY <2>1, <2>2
<1> QED
  BY <1>2, <1>3, Same, Assemble

LEMMA DeliverEngine ==
  ASSUME EngineInv, NEW w \in Workers, Deliver(w)
  PROVE  EngineInv'
<1> DEFINE valid == local[w].valid
           out == local[w].out
           row(r) == CHOOSE b \in DOMAIN out : local[w].batch[valid[b]] = r
           result == [r \in {local[w].batch[valid[b]] : b \in DOMAIN out} |->
                         Result(out[row(r)])]
<1>1. Fulfil(result)
  BY DEF Deliver
<1>2. ASSUME NEW r \in Requests \cap DOMAIN result
      PROVE  result[r] \in PromiseState /\ Own(r, result[r])
  <2>1. PICK b \in DOMAIN out : local[w].batch[valid[b]] = r
    BY <1>2
  <2>2. row(r) \in DOMAIN out /\ local[w].batch[valid[row(r)]] = r
    BY <2>1
  <2>3. out[row(r)] = r
    BY <2>2 DEF Deliver, At, EngineInv, RowsInv
  <2>4. result[r] = Result(out[row(r)])
    BY <1>2
  <2>5. result[r] = Result(r)
    BY <2>3, <2>4
  <2> HIDE DEF result
  <2> QED
    BY <2>5, Values
<1>3. promise' \in [Requests -> PromiseState] /\ PromiseInv'
  <2> HIDE DEF result
  <2> QED
    BY <1>1, <1>2, FulfilOwn, Types DEF EngineInv
<1>4. /\ wpc' \in [Workers -> {"pop", "filter", "run", "deliver", "stopped"}]
      /\ local' \in [Workers -> Batch]
      /\ RowsInv'
  BY Values, WorkerEngine DEF Deliver
<1>5. UNCHANGED <<phase, handler, reply, queue, depth, pills>>
  BY DEF Deliver, calls
<1> QED
  BY <1>3, <1>4, <1>5, Same, Assemble

LEMMA StopEngine ==
  ASSUME EngineInv, PushPill \/ Join
  PROVE  EngineInv'
<1>1. CASE PushPill
  <2>1. /\ queue' = Append(queue, Pill) /\ depth' = depth + 1 /\ pills' = pills - 1
        /\ pills > 0
        /\ UNCHANGED <<phase, handler, reply, promise, wpc, local>>
    BY <1>1 DEF PushPill, calls, pool
  <2>2. queue \in Seq(Item) /\ Pill \in Item /\ depth \in Int /\ pills \in Nat
    BY Types DEF EngineInv, Item
  <2>3. queue' \in Seq(Item) /\ depth' \in Int /\ pills' \in Nat
    BY <2>1, <2>2, SMT
  <2> QED
    BY <2>1, <2>3, Same, Assemble
<1>2. CASE Join
  <2>1. phase' = "exited" /\ UNCHANGED <<handler, reply, promise, queue, depth, wpc, local, pills>>
    BY <1>2 DEF Join, calls, pool
  <2> QED
    BY <2>1, Same, Assemble
<1> QED
  BY <1>1, <1>2

LEMMA StutterEngine == EngineInv /\ UNCHANGED vars => EngineInv'
  BY Same, Assemble DEF vars, calls, pool

LEMMA NextEngine == EngineInv /\ [Next]_vars => EngineInv'
<1> SUFFICES ASSUME EngineInv, [Next]_vars PROVE EngineInv'
  OBVIOUS
<1>1. ASSUME NEW r \in Requests, Call(r) PROVE EngineInv'
  BY <1>1, CallEngine
<1>2. ASSUME NEW w \in Workers, PopBatch(w) PROVE EngineInv'
  <2> DEFINE n == IF Len(queue) < BatchSize THEN Len(queue) ELSE BatchSize
  <2>1. Len(queue) \in Nat
    BY Types DEF EngineInv
  <2>2. n \in Nat /\ n <= Len(queue)
    BY <2>1, EngineAssumption, SMT
  <2>3. TakeBatch(w, n)
    BY <1>2 DEF PopBatch
  <2> HIDE DEF n
  <2> QED
    BY <2>2, <2>3, TakeEngine
<1>3. ASSUME NEW w \in Workers, Work(w) PROVE EngineInv'
  BY <1>2, <1>3, FilterEngine, RunEngine, DeliverEngine, StutterEngine DEF Work, PopNothing
<1>4. CASE Gone \/ UNCHANGED vars
  BY <1>4, StutterEngine DEF Gone
<1> QED
  BY <1>1, <1>3, <1>4, StopEngine DEF Next

LEMMA EngineInvariant == Spec => []EngineInv
  BY InitEngine, NextEngine, PTL DEF Spec

\* Every variable keeps its type.
THEOREM TypeCorrect == Spec => []TypeOK
<1>1. EngineInv => TypeOK
  BY DEF EngineInv
<1> QED
  BY <1>1, EngineInvariant, PTL

\* An answer that is not stale is the embedding of the caller's own log line,
\* however requests are batched, dropped as late and timed out.
THEOREM OwnAnswer == Spec => []OwnEmbedding
<1>1. EngineInv => OwnEmbedding
  BY DEF EngineInv
<1> QED
  BY <1>1, EngineInvariant, PTL

-----------------------------------------------------------------------------
(* The depth of the queue                                                  *)

Admitted == {r \in Requests : handler[r] = "admitted"}

\* Whoever has been admitted may push: that is what the bound has to leave
\* room for while the server runs.
DepthInv ==
    /\ depth = Len(queue)
    /\ phase = "serving" => Len(queue) + Cardinality(Admitted) <= DepthLimit + MaxHandlers

LEMMA AdmittedFinite ==
  ASSUME NEW S \in SUBSET Requests
  PROVE  IsFiniteSet(S) /\ Cardinality(S) \in Nat
  BY EngineAssumption, FS_Subset, FS_CardinalityType

LEMMA DepthImplies == EngineInv /\ DepthInv => DepthBounded
<1> SUFFICES ASSUME EngineInv, DepthInv PROVE DepthBounded
  OBVIOUS
<1>1. Len(queue) \in Nat
  BY Types DEF EngineInv
<1>2. Cardinality(Admitted) \in Nat
  BY AdmittedFinite DEF Admitted
<1> QED
  BY <1>1, <1>2, EngineAssumption, SMT DEF DepthInv, DepthBounded

LEMMA InitDepth == Init => DepthInv
<1> SUFFICES ASSUME Init PROVE DepthInv
  OBVIOUS
<1>1. Admitted = {}
  BY DEF Init, Admitted
<1>2. Cardinality(Admitted) = 0
  BY <1>1, FS_EmptySet
<1> QED
  BY <1>2, EngineAssumption, SMT DEF Init, DepthInv

\* Steps that neither lengthen the queue nor admit a call.
LEMMA ShrinkDepth ==
  ASSUME EngineInv, DepthInv, queue' \in Seq(Item), Len(queue') <= Len(queue),
         depth' = Len(queue'), Admitted' \subseteq Admitted,
         phase' = "serving" => phase = "serving"
  PROVE  DepthInv'
<1>1. Len(queue) \in Nat /\ Len(queue') \in Nat
  BY Types DEF EngineInv
<1>2. /\ Cardinality(Admitted) \in Nat /\ Cardinality(Admitted') \in Nat
      /\ Cardinality(Admitted') <= Cardinality(Admitted)
  <2>1. Admitted \in SUBSET Requests /\ Admitted' \in SUBSET Admitted
    BY DEF Admitted
  <2> QED
    BY <2>1, AdmittedFinite, FS_Subset, FS_CardinalityType
<1> QED
  BY <1>1, <1>2, EngineAssumption, SMT DEF DepthInv

LEMMA CallDepth ==
  ASSUME EngineInv, DepthInv, NEW r \in Requests, Call(r)
  PROVE  DepthInv'
<1>1. /\ handler \in [Requests -> {"new", "admitted", "waiting", "done"}]
      /\ queue \in Seq(Item) /\ Len(queue) \in Nat /\ r \in Item
  BY Types DEF EngineInv, Item
<1>2. CASE Admit(r)
  <2>1. /\ phase = "serving" /\ phase' = "serving" /\ handler[r] = "new"
        /\ Cardinality(Executing) < MaxHandlers /\ depth <= DepthLimit
        /\ handler' = [handler EXCEPT ![r] = "admitted"]
        /\ queue' = queue /\ depth' = depth
    BY <1>2 DEF Admit
  <2>2. Admitted' = Admitted \cup {r} /\ r \notin Admitted
    BY <1>1, <2>1 DEF Admitted
  <2>3. Cardinality(Admitted') = Cardinality(Admitted) + 1
    BY <2>2, AdmittedFinite, FS_AddElement DEF Admitted
  <2>4. /\ Cardinality(Admitted) <= Cardinality(Executing)
        /\ Cardinality(Admitted) \in Nat /\ Cardinality(Executing) \in Nat
    <3>1. Executing \in SUBSET Requests /\ Admitted \in SUBSET Executing
      BY DEF Executing, Admitted
    <3> QED
      BY <3>1, AdmittedFinite, FS_Subset
  <2> QED
    BY <1>1, <2>1, <2>3, <2>4, EngineAssumption, SMT DEF DepthInv
<1>3. CASE Push(r)
  <2>1. /\ phase = "serving" /\ phase' = "serving" /\ handler[r] = "admitted"
        /\ handler' = [handler EXCEPT ![r] = "waiting"]
        /\ queue' = Append(queue, r) /\ depth' = depth + 1
    BY <1>3 DEF Push
  <2>2. Admitted' = Admitted \ {r} /\ r \in Admitted
    BY <1>1, <2>1 DEF Admitted
  <2>3. Cardinality(Admitted') = Cardinality(Admitted) - 1 /\ Cardinality(Admitted) \in Nat
    BY <2>2, AdmittedFinite, FS_RemoveElement DEF Admitted
  <2>4. Len(queue') = Len(queue) + 1
    BY <1>1, <2>1, SMT
  <2> QED
    BY <1>1, <2>1, <2>3, <2>4, EngineAssumption, SMT DEF DepthInv
<1>4. CASE Reject(r) \/ Answer(r) \/ AnswerStale(r) \/ Timeout(r) \/ Unavailable(r)
  <2>1. PICK answer : Done(r, answer)
    BY <1>4, Zenon DEF Reject, Answer, AnswerStale, Timeout, Unavailable
  <2>2. Admitted' \subseteq Admitted
    BY <1>1, <2>1 DEF Admitted, Done
  <2>3. queue' = queue /\ depth' = depth
    BY <1>4 DEF Reject, Answer, AnswerStale, Timeout, Unavailable
  <2>4. phase' = "serving" => phase = "serving"
    BY <1>4 DEF Reject, Answer, AnswerStale, Timeout, Unavailable
  <2> QED
    BY <1>1, <2>2, <2>3, <2>4, ShrinkDepth DEF DepthInv
<1> QED
  BY <1>2, <1>3, <1>4 DEF Call

LEMMA PopDepth ==
  ASSUME EngineInv, DepthInv, NEW w \in Workers, PopBatch(w)
  PROVE  DepthInv'
<1> DEFINE n == IF Len(queue) < BatchSize THEN Len(queue) ELSE BatchSize
<1>1. queue \in Seq(Item) /\ Len(queue) \in Nat
  BY Types DEF EngineInv
<1>2. n \in Nat /\ n <= Len(queue)
  BY <1>1, EngineAssumption, SMT
<1>3. /\ queue' = SubSeq(queue, n + 1, Len(queue)) /\ depth' = depth - n
      /\ UNCHANGED <<phase, handler>>
  BY Zenon DEF PopBatch, TakeBatch, calls
<1> HIDE DEF n
<1>4. queue' \in Seq(Item) /\ Len(queue') = Len(queue) - n
  BY <1>1, <1>2, <1>3, SMT
<1>5. depth' = Len(queue') /\ Len(queue') <= Len(queue)
  BY <1>1, <1>2, <1>3, <1>4, SMT DEF DepthInv
<1>6. Admitted' \subseteq Admitted
  BY <1>3 DEF Admitted
<1> QED
  BY <1>3, <1>4, <1>5, <1>6, ShrinkDepth

LEMMA NextDepth == EngineInv /\ DepthInv /\ [Next]_vars => DepthInv'
<1> SUFFICES ASSUME EngineInv, DepthInv, [Next]_vars PROVE DepthInv'
  OBVIOUS
<1>1. ASSUME NEW r \in Requests, Call(r) PROVE DepthInv'
  BY <1>1, CallDepth
<1>2. ASSUME NEW w \in Workers, PopBatch(w) PROVE DepthInv'
  BY <1>2, PopDepth
<1>3. CASE UNCHANGED <<phase, handler, queue, depth>>
  BY <1>3 DEF DepthInv, Admitted
<1>4. ASSUME NEW w \in Workers, Work(w) PROVE DepthInv'
  <2>1. CASE PopBatch(w)
    BY <1>2, <2>1
  <2>2. CASE PopNothing(w)
    BY <1>3, <2>2 DEF PopNothing, vars, calls
  <2>3. CASE Filter(w) \/ Run(w) \/ Fail(w) \/ Deliver(w)
    BY <1>3, <2>3, Zenon DEF Filter, Run, Fail, Deliver, calls
  <2> QED
    BY <1>4, <2>1, <2>2, <2>3 DEF Work
<1>5. CASE PushPill
  <2>1. queue \in Seq(Item) /\ Pill \in Item
    BY Types DEF EngineInv, Item
  <2>2. phase' = "stopping" /\ queue' = Append(queue, Pill) /\ depth' = depth + 1
    BY <1>5 DEF PushPill
  <2>3. depth' = Len(queue')
    BY <2>1, <2>2, SMT DEF DepthInv
  <2> QED
    BY <2>2, <2>3 DEF DepthInv
<1>6. CASE Join
  BY <1>6 DEF Join, DepthInv
<1>7. CASE Gone \/ UNCHANGED vars
  BY <1>3, <1>7 DEF Gone, vars, calls
<1> QED
  BY <1>1, <1>4, <1>5, <1>6, <1>7 DEF Next

\* The counter RunInference reads is the length of the queue, and the queue
\* exceeds the limit by no more than the calls that execute at a time.
THEOREM DepthIsBounded == Spec => []DepthBounded
<1>1. Spec => []DepthInv
  BY InitDepth, NextDepth, EngineInvariant, PTL DEF Spec
<1> QED
  BY <1>1, DepthImplies, EngineInvariant, PTL

-----------------------------------------------------------------------------
(* No request is taken twice                                               *)

Early == {r \in Requests : handler[r] \in {"new", "admitted"}}

\* A call that has not pushed its request yet has it nowhere, which is why
\* Push brings no second one.
TakenInv ==
    /\ TakenOnce
    /\ \A r \in Early : r \notin Queued /\ \A w \in Workers : r \notin InBatch(w)

\* Batches stay as they are or are given up.
LEMMA KeepTaken ==
  ASSUME TakenInv, queue' = queue, Early' \subseteq Early,
         \A w \in Workers : local'[w].batch = local[w].batch \/ local'[w].batch = <<>>
  PROVE  TakenInv'
<1>1. Queued' = Queued
  BY DEF Queued
<1>2. ASSUME NEW w \in Workers
      PROVE  InBatch(w)' \subseteq InBatch(w)
  <2>1. CASE local'[w].batch = local[w].batch
    BY <2>1 DEF InBatch
  <2>2. CASE local'[w].batch = <<>>
    <3>1. DOMAIN local'[w].batch = {}
      BY <2>2, SMT
    <3> QED
      BY <3>1, Zenon DEF InBatch
  <2> QED
    BY <2>1, <2>2
<1>3. TakenOnce'
  <2>1. \A i, k \in DOMAIN queue' : queue'[i] = queue'[k] /\ queue'[i] # Pill => i = k
    BY DEF TakenInv, TakenOnce
  <2>2. ASSUME NEW w \in Workers
        PROVE  InBatch(w)' \cap Queued' \subseteq {Pill}
    BY <1>1, <1>2 DEF TakenInv, TakenOnce
  <2>3. ASSUME NEW w1 \in Workers, NEW w2 \in Workers, w1 # w2
        PROVE  InBatch(w1)' \cap InBatch(w2)' \subseteq {Pill}
    <3>1. InBatch(w1)' \subseteq InBatch(w1) /\ InBatch(w2)' \subseteq InBatch(w2)
      BY <1>2
    <3>2. InBatch(w1) \cap InBatch(w2) \subseteq {Pill}
      BY <2>3 DEF TakenInv, TakenOnce
    <3> QED
      BY <3>1, <3>2
  <2> QED
    BY <2>1, <2>2, <2>3 DEF TakenOnce
<1>4. ASSUME NEW r \in Early', NEW w \in Workers
      PROVE  r \notin Queued' /\ r \notin InBatch(w)'
  BY <1>1, <1>2, <1>4 DEF TakenInv
<1>5. ASSUME NEW r \in Early'
      PROVE  r \notin Queued'
  BY <1>1, <1>5 DEF TakenInv
<1> QED
  BY <1>3, <1>4, <1>5 DEF TakenInv

LEMMA AppendAt ==
  ASSUME NEW q \in Seq(Item), NEW e \in Item
  PROVE  \A i \in DOMAIN Append(q, e) : \/ i \in DOMAIN q /\ Append(q, e)[i] = q[i]
                                        \/ i = Len(q) + 1 /\ Append(q, e)[i] = e
  BY SMT

\* A pill, or the request of a call that has it nowhere, at the end of the queue.
LEMMA AppendTaken ==
  ASSUME TypeOK, TakenInv, NEW e \in Item, queue' = Append(queue, e), local' = local,
         Early' \subseteq Early \ {e},
         e = Pill \/ e \in Early
  PROVE  TakenInv'
<1>1. queue \in Seq(Item)
  BY Types
<1>2. \A i \in DOMAIN queue' : \/ i \in DOMAIN queue /\ queue'[i] = queue[i]
                               \/ i = Len(queue) + 1 /\ queue'[i] = e
  BY <1>1, AppendAt
<1>3. Queued' \subseteq Queued \cup {e}
  BY <1>2, Zenon DEF Queued
<1>4. \A w \in Workers : InBatch(w)' = InBatch(w)
  BY DEF InBatch
<1>5. e # Pill => e \notin Queued /\ \A w \in Workers : e \notin InBatch(w)
  BY DEF TakenInv
<1>6. \A i, k \in DOMAIN queue' : queue'[i] = queue'[k] /\ queue'[i] # Pill => i = k
  <2> SUFFICES ASSUME NEW i \in DOMAIN queue', NEW k \in DOMAIN queue',
                      queue'[i] = queue'[k], queue'[i] # Pill
               PROVE  i = k
    OBVIOUS
  <2>1. CASE i \in DOMAIN queue /\ queue'[i] = queue[i] /\ k \in DOMAIN queue /\ queue'[k] = queue[k]
    BY <2>1 DEF TakenInv, TakenOnce
  <2>2. CASE queue'[i] = e /\ k \in DOMAIN queue /\ queue'[k] = queue[k]
    BY <1>5, <2>2, Zenon DEF Queued
  <2>3. CASE queue'[k] = e /\ i \in DOMAIN queue /\ queue'[i] = queue[i]
    BY <1>5, <2>3, Zenon DEF Queued
  <2> QED
    BY <1>2, <2>1, <2>2, <2>3
<1>7. \A w \in Workers : InBatch(w)' \cap Queued' \subseteq {Pill}
  BY <1>3, <1>4, <1>5 DEF TakenInv, TakenOnce
<1>8. \A w1, w2 \in Workers : w1 # w2 => InBatch(w1)' \cap InBatch(w2)' \subseteq {Pill}
  BY <1>4 DEF TakenInv, TakenOnce
<1>9. \A r \in Early' : r \notin Queued' /\ \A w \in Workers : r \notin InBatch(w)'
  BY <1>3, <1>4 DEF TakenInv
<1> QED
  BY <1>6, <1>7, <1>8, <1>9 DEF TakenInv, TakenOnce

\* The batch and what is left of the queue are distinct parts of it.
LEMMA SplitQueue ==
  ASSUME NEW q \in Seq(Item), NEW n \in Nat, n <= Len(q)
  PROVE  LET batch == SubSeq(q, 1, n)
             tail == SubSeq(q, n + 1, Len(q))
         IN  /\ \A i \in DOMAIN batch : i \in DOMAIN q /\ batch[i] = q[i] /\ i <= n
             /\ \A k \in DOMAIN tail : n + k \in DOMAIN q /\ tail[k] = q[n + k]
             /\ \A i \in DOMAIN batch, k \in DOMAIN tail : i # n + k
             /\ \A i, k \in DOMAIN tail : n + i = n + k => i = k
  BY SMT

LEMMA TakeTaken ==
  ASSUME TypeOK, TakenInv, NEW w \in Workers, NEW n \in Nat, n <= Len(queue),
         TakeBatch(w, n)
  PROVE  TakenInv'
<1> DEFINE batch == SubSeq(queue, 1, n)
           tail == SubSeq(queue, n + 1, Len(queue))
<1>1. queue \in Seq(Item) /\ local \in [Workers -> Batch]
  BY Types
<1>2. /\ queue' = tail /\ handler' = handler
      /\ local' = local \/ local' = [local EXCEPT ![w].batch = batch]
  BY Zenon DEF TakeBatch, calls
<1>3. /\ \A i \in DOMAIN batch : i \in DOMAIN queue /\ batch[i] = queue[i]
      /\ \A k \in DOMAIN tail : n + k \in DOMAIN queue /\ tail[k] = queue[n + k]
      /\ \A i \in DOMAIN batch, k \in DOMAIN tail : i # n + k
      /\ \A i, k \in DOMAIN tail : n + i = n + k => i = k
  BY <1>1, SplitQueue
<1> DEFINE B == {batch[i] : i \in DOMAIN batch}
<1> HIDE DEF batch, tail
<1>4. Queued' \subseteq Queued
  BY <1>2, <1>3, Zenon DEF Queued
<1>5. B \subseteq Queued
  BY <1>3, Zenon DEF Queued
<1>6. B \cap Queued' \subseteq {Pill}
  <2> SUFFICES ASSUME NEW i \in DOMAIN batch, NEW k \in DOMAIN tail, batch[i] = tail[k],
                      batch[i] # Pill
               PROVE  FALSE
    BY <1>2, Zenon DEF Queued
  <2>1. i = n + k
    BY <1>3 DEF TakenInv, TakenOnce
  <2> QED
    BY <1>3, <2>1
<1>7. \A x \in Workers : x # w => InBatch(x)' = InBatch(x)
  BY <1>1, <1>2, Zenon DEF InBatch, Batch
<1>8. InBatch(w)' = InBatch(w) \/ InBatch(w)' = B
  <2>1. CASE local' = local
    BY <2>1 DEF InBatch
  <2>2. CASE local' = [local EXCEPT ![w].batch = batch]
    <3>1. local'[w].batch = batch
      BY <1>1, <2>2 DEF Batch
    <3> QED
      BY <3>1 DEF InBatch
  <2> QED
    BY <1>2, <2>1, <2>2
<1> HIDE DEF B
<1>9. \A i, k \in DOMAIN queue' : queue'[i] = queue'[k] /\ queue'[i] # Pill => i = k
  <2> SUFFICES ASSUME NEW i \in DOMAIN tail, NEW k \in DOMAIN tail, tail[i] = tail[k],
                      tail[i] # Pill
               PROVE  i = k
    BY <1>2
  <2>1. n + i = n + k
    BY <1>3 DEF TakenInv, TakenOnce
  <2> QED
    BY <1>3, <2>1
<1>10. ASSUME NEW x \in Workers
       PROVE  InBatch(x)' \cap Queued' \subseteq {Pill}
  <2>1. InBatch(x) \cap Queued \subseteq {Pill}
    BY DEF TakenInv, TakenOnce
  <2> QED
    BY <1>4, <1>6, <1>7, <1>8, <2>1
<1>11. ASSUME NEW x \in Workers, x # w
       PROVE  InBatch(x)' \cap InBatch(w)' \subseteq {Pill}
  <2>1. /\ InBatch(x) \cap Queued \subseteq {Pill}
        /\ InBatch(x) \cap InBatch(w) \subseteq {Pill}
    BY <1>11 DEF TakenInv, TakenOnce
  <2>2. InBatch(x)' = InBatch(x)
    BY <1>7, <1>11
  <2> QED
    BY <1>5, <1>8, <2>1, <2>2
<1>12. ASSUME NEW x \in Workers, NEW y \in Workers, x # y, x # w, y # w
       PROVE  InBatch(x)' \cap InBatch(y)' \subseteq {Pill}
  <2>1. InBatch(x)' = InBatch(x) /\ InBatch(y)' = InBatch(y)
    BY <1>7, <1>12
  <2>2. InBatch(x) \cap InBatch(y) \subseteq {Pill}
    BY <1>12 DEF TakenInv, TakenOnce
  <2> QED
    BY <2>1, <2>2
<1>13. \A x, y \in Workers : x # y => InBatch(x)' \cap InBatch(y)' \subseteq {Pill}
  <2> SUFFICES ASSUME NEW x \in Workers, NEW y \in Workers, x # y
               PROVE  InBatch(x)' \cap InBatch(y)' \subseteq {Pill}
    OBVIOUS
  <2>1. CASE x = w
    <3>1. InBatch(y)' \cap InBatch(w)' \subseteq {Pill}
      BY <1>11, <2>1
    <3> QED
      BY <2>1, <3>1
  <2>2. CASE y = w
    BY <1>11, <2>2
  <2>3. CASE x # w /\ y # w
    BY <1>12, <2>3
  <2> QED
    BY <2>1, <2>2, <2>3
<1>14. Early' = Early
  BY <1>2 DEF Early
<1>15. ASSUME NEW r \in Early', NEW x \in Workers
       PROVE  r \notin Queued' /\ r \notin InBatch(x)'
  <2>1. r \notin Queued /\ r \notin InBatch(x) /\ r \notin InBatch(w)
    BY <1>14 DEF TakenInv
  <2> QED
    BY <1>4, <1>5, <1>7, <1>8, <2>1
<1>16. ASSUME NEW r \in Early'
       PROVE  r \notin Queued'
  BY <1>15
<1> QED
  BY <1>9, <1>10, <1>13, <1>15, <1>16 DEF TakenInv, TakenOnce

LEMMA NextTaken == EngineInv /\ TakenInv /\ [Next]_vars => TakenInv'
<1> SUFFICES ASSUME EngineInv, TakenInv, [Next]_vars PROVE TakenInv'
  OBVIOUS
<1>0. /\ TypeOK /\ queue \in Seq(Item) /\ Len(queue) \in Nat
      /\ local \in [Workers -> Batch]
      /\ handler \in [Requests -> {"new", "admitted", "waiting", "done"}]
  BY Types DEF EngineInv
<1>1. ASSUME queue' = queue, local' = local, Early' \subseteq Early
      PROVE  TakenInv'
  BY <1>1, KeepTaken
<1>2. ASSUME NEW r \in Requests, Call(r) PROVE TakenInv'
  <2>1. CASE Push(r)
    <3>1. /\ queue' = Append(queue, r) /\ local' = local /\ handler[r] = "admitted"
          /\ handler' = [handler EXCEPT ![r] = "waiting"]
      BY <2>1 DEF Push, pool
    <3>2. r \in Early /\ Early' \subseteq Early \ {r} /\ r \in Item
      BY <1>0, <3>1 DEF Early, Item
    <3> QED
      BY <1>0, <3>1, <3>2, AppendTaken
  <2>2. CASE Admit(r)
    <3>1. /\ queue' = queue /\ local' = local /\ handler[r] = "new"
          /\ handler' = [handler EXCEPT ![r] = "admitted"]
      BY <2>2 DEF Admit, pool
    <3>2. Early' \subseteq Early
      BY <1>0, <3>1 DEF Early
    <3> QED
      BY <1>1, <3>1, <3>2
  <2>3. CASE Reject(r) \/ Answer(r) \/ AnswerStale(r) \/ Timeout(r) \/ Unavailable(r)
    <3>1. PICK answer : Done(r, answer)
      BY <2>3, Zenon DEF Reject, Answer, AnswerStale, Timeout, Unavailable
    <3>2. Early' \subseteq Early
      BY <1>0, <3>1 DEF Early, Done
    <3>3. queue' = queue /\ local' = local
      BY <2>3 DEF Reject, Answer, AnswerStale, Timeout, Unavailable, pool
    <3> QED
      BY <1>1, <3>2, <3>3
  <2> QED
    BY <1>2, <2>1, <2>2, <2>3 DEF Call
<1>3. ASSUME NEW w \in Workers, Work(w) PROVE TakenInv'
  <2>1. CASE PopBatch(w)
    <3> DEFINE n == IF Len(queue) < BatchSize THEN Len(queue) ELSE BatchSize
    <3>1. n \in Nat /\ n <= Len(queue)
      BY <1>0, EngineAssumption, SMT
    <3>2. TakeBatch(w, n)
      BY <2>1 DEF PopBatch
    <3> HIDE DEF n
    <3> QED
      BY <1>0, <3>1, <3>2, TakeTaken
  <2>2. CASE PopNothing(w)
    BY <1>1, <2>2 DEF PopNothing, vars, calls, pool, Early
  <2>3. CASE Filter(w) \/ Run(w) \/ Fail(w) \/ Deliver(w)
    <3>1. queue' = queue /\ handler' = handler
      BY <2>3, Zenon DEF Filter, Run, Fail, Deliver, calls
    <3>2. \/ local' = [local EXCEPT ![w] = NoBatch]
          \/ \E v : local' = [local EXCEPT ![w].valid = v]
          \/ \E o : local' = [local EXCEPT ![w].out = o]
      <4>1. CASE Filter(w)
        BY <4>1, Zenon DEF Filter
      <4>2. CASE Run(w)
        BY <4>2, Zenon DEF Run
      <4>3. CASE Fail(w) \/ Deliver(w)
        BY <4>3, Zenon DEF Fail, Deliver
      <4> QED
        BY <2>3, <4>1, <4>2, <4>3
    <3>3. ASSUME NEW x \in Workers
          PROVE  local'[x].batch = local[x].batch \/ local'[x].batch = <<>>
      <4>1. CASE local' = [local EXCEPT ![w] = NoBatch]
        BY <1>0, <4>1 DEF NoBatch
      <4>2. CASE \E v : local' = [local EXCEPT ![w].valid = v]
        BY <1>0, <4>2 DEF Batch
      <4>3. CASE \E o : local' = [local EXCEPT ![w].out = o]
        BY <1>0, <4>3 DEF Batch
      <4> QED
        BY <3>2, <4>1, <4>2, <4>3
    <3> QED
      BY <3>1, <3>3, KeepTaken DEF Early
  <2> QED
    BY <1>3, <2>1, <2>2, <2>3 DEF Work
<1>4. CASE PushPill
  <2>1. queue' = Append(queue, Pill) /\ local' = local /\ handler' = handler
    BY <1>4 DEF PushPill, pool, calls
  <2>2. Pill \in Item /\ Early' \subseteq Early \ {Pill}
    BY <2>1, EngineAssumption DEF Early, Item
  <2> QED
    BY <1>0, <2>1, <2>2, AppendTaken
<1>5. CASE Join \/ Gone \/ UNCHANGED vars
  BY <1>1, <1>5 DEF Join, Gone, vars, calls, pool, Early
<1> QED
  BY <1>2, <1>3, <1>4, <1>5 DEF Next

\* No two workers ever have the same promise to fulfil, and no request is in
\* a batch and in the queue.
THEOREM TakenAtMostOnce == Spec => []TakenOnce
<1>1. Init => TakenInv
  <2> SUFFICES ASSUME Init PROVE TakenInv
    OBVIOUS
  <2>1. DOMAIN queue = {} /\ \A w \in Workers : DOMAIN local[w].batch = {}
    BY SMT DEF Init, NoBatch
  <2>2. Queued = {} /\ \A w \in Workers : InBatch(w) = {}
    BY <2>1, Zenon DEF Queued, InBatch
  <2> QED
    BY <2>1, <2>2 DEF TakenInv, TakenOnce
<1>2. TakenInv => TakenOnce
  BY DEF TakenInv
<1> QED
  BY <1>1, <1>2, NextTaken, EngineInvariant, PTL DEF Spec

-----------------------------------------------------------------------------
(* The engine is a service that answers each call by itself                *)

\* A result is set for a request that a batch has taken, and only then.
DecidedInv ==
    \A r \in Requests : /\ promise[r].stale => promise[r].set
                        /\ promise[r].set => r \notin Early /\ r \notin Queued

\* Nobody is answered before the handler returns.
AnswerInv == \A r \in Requests : handler[r] # "done" => reply[r].status = "none"

\* While requests are served there is no pill.
PillInv == phase = "serving" => Pill \notin Queued

\* valid_indices has every request of the batch that was not dropped.
Covered(w) ==
    \A r \in InBatch(w) \cap Requests :
        ~promise[r].set => \E b \in DOMAIN local[w].valid :
                               local[w].batch[local[w].valid[b]] = r

CoverInv == \A w \in Workers : wpc[w] \in {"run", "deliver"} => Covered(w)

\* What a step on behalf of one worker may do.
OnlyWorker(w) ==
    /\ UNCHANGED <<phase, handler, reply, queue>>
    /\ \A x \in Workers \ {w} : wpc'[x] = wpc[x] /\ local'[x] = local[x]

LEMMA IncreasingOnto ==
  ASSUME NEW S \in SUBSET Nat, IsFiniteSet(S), NEW f \in Increasing(S)
  PROVE  \A i \in S : \E b \in DOMAIN f : f[b] = i
<1> DEFINE n == Cardinality(S)
<1>1. n \in Nat
  BY FS_CardinalityType
<1>2. f \in [1..n -> S] /\ \A i, k \in 1..n : i < k => f[i] < f[k]
  BY Zenon DEF Increasing
<1>3. IsFiniteSet(1..n) /\ Cardinality(1..n) = n
  BY <1>1, FS_Interval, SMT
<1> HIDE DEF n
<1>4. ASSUME NEW i \in 1..n, NEW k \in 1..n, f[i] = f[k]
      PROVE  i = k
  <2>1. f[i] \in Nat /\ f[k] \in Nat
    BY <1>2
  <2>2. ~(i < k) /\ ~(k < i)
    BY <1>2, <1>4, <2>1
  <2> QED
    BY <1>1, <2>2
<1>5. f \in Injection(1..n, S)
  BY <1>2, <1>4, Fun_IsInj
<1>6. f \in Surjection(1..n, S)
  BY <1>3, <1>5, FS_Injection DEF n
<1>7. \A i \in S : \E b \in 1..n : f[b] = i
  BY <1>6 DEF Surjection
<1> QED
  BY <1>2, <1>7

\* The late requests get the stale result; if any are left, they are the ones
\* of valid_indices.
LEMMA FilterFacts ==
  ASSUME EngineInv, NEW w \in Workers, Filter(w)
  PROVE  /\ OnlyWorker(w)
         /\ \E late \in SUBSET InBatch(w) :
              /\ \A r \in Requests :
                   promise'[r] = IF r \in late /\ ~promise[r].set THEN Stale ELSE promise[r]
              /\ \/ wpc'[w] = "pop" /\ local'[w].batch = <<>> /\ InBatch(w) \subseteq late
                 \/ /\ wpc'[w] = "run" /\ local'[w].batch = local[w].batch
                    /\ \A r \in InBatch(w) \ late : \E b \in DOMAIN local'[w].valid :
                         local[w].batch[local'[w].valid[b]] = r
<1>0. /\ local \in [Workers -> Batch] /\ local[w].batch \in Seq(Item)
      /\ wpc \in [Workers -> {"pop", "filter", "run", "deliver", "stopped"}]
  BY Types DEF EngineInv, Batch
<1>1. PICK late \in SUBSET InBatch(w) :
        /\ Fulfil([r \in late |-> Stale])
        /\ \E valid \in Increasing({i \in DOMAIN local[w].batch :
                                      local[w].batch[i] \notin late}) :
             IF valid = <<>>
             THEN /\ wpc' = [wpc EXCEPT ![w] = "pop"]
                  /\ local' = [local EXCEPT ![w] = NoBatch]
             ELSE /\ wpc' = [wpc EXCEPT ![w] = "run"]
                  /\ local' = [local EXCEPT ![w].valid = valid]
  BY Zenon DEF Filter
<1> DEFINE S == {i \in DOMAIN local[w].batch : local[w].batch[i] \notin late}
<1>2. PICK valid \in Increasing(S) :
        \/ /\ valid = <<>> /\ wpc' = [wpc EXCEPT ![w] = "pop"]
           /\ local' = [local EXCEPT ![w] = NoBatch]
        \/ /\ wpc' = [wpc EXCEPT ![w] = "run"]
           /\ local' = [local EXCEPT ![w].valid = valid]
  BY <1>1, Zenon
<1>3. S \in SUBSET Nat /\ IsFiniteSet(S)
  <2>1. DOMAIN local[w].batch = 1..Len(local[w].batch) /\ Len(local[w].batch) \in Nat
    BY <1>0
  <2>2. IsFiniteSet(DOMAIN local[w].batch)
    BY <2>1, FS_Interval
  <2>3. S \in SUBSET DOMAIN local[w].batch
    OBVIOUS
  <2> HIDE DEF S
  <2>4. IsFiniteSet(S)
    BY <2>2, <2>3, FS_Subset
  <2>5. S \in SUBSET Nat
    BY <2>1, <2>3, SMT
  <2> QED
    BY <2>4, <2>5
<1>4. \A i \in S : \E b \in DOMAIN valid : valid[b] = i
  <2> HIDE DEF S
  <2> QED
    BY <1>3, IncreasingOnto
<1>5. ASSUME NEW r \in InBatch(w) \ late
      PROVE  \E b \in DOMAIN valid : local[w].batch[valid[b]] = r
  <2>1. PICK i \in DOMAIN local[w].batch : local[w].batch[i] = r
    BY <1>5, Zenon DEF InBatch
  <2>2. i \in S
    BY <1>5, <2>1
  <2>3. PICK b \in DOMAIN valid : valid[b] = i
    BY <1>4, <2>2
  <2> QED
    BY <2>1, <2>3
<1>6. \A r \in Requests :
        promise'[r] = IF r \in late /\ ~promise[r].set THEN Stale ELSE promise[r]
  BY <1>1, Zenon DEF Fulfil
<1> HIDE DEF S
<1>7. \/ wpc'[w] = "pop" /\ local'[w].batch = <<>> /\ InBatch(w) \subseteq late
      \/ /\ wpc'[w] = "run" /\ local'[w].batch = local[w].batch
         /\ \A r \in InBatch(w) \ late : \E b \in DOMAIN local'[w].valid :
              local[w].batch[local'[w].valid[b]] = r
  <2>1. CASE /\ valid = <<>> /\ wpc' = [wpc EXCEPT ![w] = "pop"]
             /\ local' = [local EXCEPT ![w] = NoBatch]
    <3>1. DOMAIN valid = {}
      BY <2>1, SMT
    <3>2. InBatch(w) \subseteq late
      BY <1>5, <3>1
    <3>3. wpc'[w] = "pop" /\ local'[w].batch = <<>>
      BY <1>0, <2>1 DEF NoBatch
    <3> QED
      BY <3>2, <3>3
  <2>2. CASE wpc' = [wpc EXCEPT ![w] = "run"] /\ local' = [local EXCEPT ![w].valid = valid]
    <3>1. wpc'[w] = "run" /\ local'[w].batch = local[w].batch /\ local'[w].valid = valid
      BY <1>0, <2>2 DEF Batch
    <3> QED
      BY <1>5, <3>1
  <2> QED
    BY <1>2, <2>1, <2>2
<1>8. OnlyWorker(w)
  <2>1. UNCHANGED <<phase, handler, reply, queue>>
    BY DEF Filter, calls
  <2>2. ASSUME NEW x \in Workers \ {w} PROVE wpc'[x] = wpc[x] /\ local'[x] = local[x]
    BY <1>0, <1>2, <2>2
  <2> QED
    BY <2>1, <2>2 DEF OnlyWorker
<1> QED
  BY <1>6, <1>7, <1>8

RowSet(w) == {local[w].batch[local[w].valid[b]] : b \in DOMAIN local[w].valid}

\* Each request of valid_indices gets a result, and the batch is done with.
LEMMA DeliverFacts ==
  ASSUME EngineInv, NEW w \in Workers, Deliver(w)
  PROVE  /\ OnlyWorker(w) /\ wpc[w] = "deliver"
         /\ wpc'[w] = "pop" /\ local'[w].batch = <<>>
         /\ RowSet(w) \subseteq InBatch(w)
         /\ \A r \in Requests : IF r \in RowSet(w) /\ ~promise[r].set
                                THEN promise'[r].set /\ ~promise'[r].stale
                                ELSE promise'[r] = promise[r]
<1> DEFINE valid == local[w].valid
           out == local[w].out
           row(r) == CHOOSE b \in DOMAIN out : local[w].batch[valid[b]] = r
           result == [r \in {local[w].batch[valid[b]] : b \in DOMAIN out} |->
                         Result(out[row(r)])]
<1>0. /\ local \in [Workers -> Batch]
      /\ wpc \in [Workers -> {"pop", "filter", "run", "deliver", "stopped"}]
  BY Types DEF EngineInv
<1>1. /\ Fulfil(result) /\ wpc[w] = "deliver"
      /\ wpc' = [wpc EXCEPT ![w] = "pop"] /\ local' = [local EXCEPT ![w] = NoBatch]
      /\ UNCHANGED <<phase, handler, reply, queue>>
  BY DEF Deliver, At, calls
<1>2. DOMAIN out = DOMAIN valid /\ \A b \in DOMAIN valid : valid[b] \in DOMAIN local[w].batch
  BY <1>1 DEF EngineInv, RowsInv
<1>3. DOMAIN result = RowSet(w)
  BY <1>2 DEF RowSet
<1>4. \A r \in DOMAIN result : result[r].set /\ ~result[r].stale
  BY DEF Result
<1> HIDE DEF result
<1>5. ASSUME NEW r \in Requests
      PROVE  IF r \in RowSet(w) /\ ~promise[r].set
             THEN promise'[r].set /\ ~promise'[r].stale
             ELSE promise'[r] = promise[r]
  <2>1. promise'[r] = IF r \in DOMAIN result /\ ~promise[r].set THEN result[r] ELSE promise[r]
    BY <1>1, Zenon DEF Fulfil
  <2> QED
    BY <1>3, <1>4, <2>1
<1>6. RowSet(w) \subseteq InBatch(w)
  BY <1>2, Zenon DEF RowSet, InBatch
<1>7. wpc'[w] = "pop" /\ local'[w].batch = <<>> /\ OnlyWorker(w)
  BY <1>0, <1>1 DEF NoBatch, OnlyWorker
<1> QED
  BY <1>1, <1>5, <1>6, <1>7

\* The queue after a batch has been taken, or something was pushed.
LEMMA PopFacts ==
  ASSUME EngineInv, NEW w \in Workers, PopBatch(w)
  PROVE  /\ Queued' \subseteq Queued
         /\ UNCHANGED <<phase, handler, reply, promise>>
         /\ wpc'[w] \notin {"run", "deliver"}
         /\ \A x \in Workers \ {w} : wpc'[x] = wpc[x] /\ local'[x] = local[x]
         /\ InBatch(w)' \subseteq InBatch(w) \cup Queued
<1> DEFINE n == IF Len(queue) < BatchSize THEN Len(queue) ELSE BatchSize
           batch == SubSeq(queue, 1, n)
           tail == SubSeq(queue, n + 1, Len(queue))
<1>0. /\ queue \in Seq(Item) /\ Len(queue) \in Nat /\ local \in [Workers -> Batch]
      /\ wpc \in [Workers -> {"pop", "filter", "run", "deliver", "stopped"}]
  BY Types DEF EngineInv
<1>1. n \in Nat /\ n <= Len(queue)
  BY <1>0, EngineAssumption, SMT
<1>2. TakeBatch(w, n)
  BY DEF PopBatch
<1> HIDE DEF n
<1>3. /\ queue' = tail /\ UNCHANGED <<phase, handler, reply, promise>>
      /\ wpc' = [wpc EXCEPT ![w] = "stopped"] \/ wpc' = [wpc EXCEPT ![w] = "filter"]
      /\ local' = local \/ local' = [local EXCEPT ![w].batch = batch]
  BY <1>2, Zenon DEF TakeBatch, calls
<1>4. /\ \A i \in DOMAIN batch : i \in DOMAIN queue /\ batch[i] = queue[i]
      /\ \A k \in DOMAIN tail : n + k \in DOMAIN queue /\ tail[k] = queue[n + k]
  BY <1>0, <1>1, SplitQueue
<1> HIDE DEF batch, tail
<1>5. Queued' \subseteq Queued
  BY <1>3, <1>4, Zenon DEF Queued
<1>6. InBatch(w)' \subseteq InBatch(w) \cup Queued
  <2>1. CASE local' = local
    BY <2>1 DEF InBatch
  <2>2. CASE local' = [local EXCEPT ![w].batch = batch]
    <3>1. local'[w].batch = batch
      BY <1>0, <2>2 DEF Batch
    <3> QED
      BY <1>4, <3>1, Zenon DEF InBatch, Queued
  <2> QED
    BY <1>3, <2>1, <2>2
<1>7. /\ wpc'[w] \notin {"run", "deliver"}
      /\ \A x \in Workers \ {w} : wpc'[x] = wpc[x] /\ local'[x] = local[x]
  BY <1>0, <1>3
<1> QED
  BY <1>3, <1>5, <1>6, <1>7

LEMMA AppendQueued ==
  ASSUME queue \in Seq(Item), NEW e \in Item, queue' = Append(queue, e)
  PROVE  Queued' = Queued \cup {e}
<1>1. /\ \A i \in DOMAIN queue : i \in DOMAIN queue' /\ queue'[i] = queue[i]
      /\ Len(queue) + 1 \in DOMAIN queue' /\ queue'[Len(queue) + 1] = e
      /\ \A i \in DOMAIN queue' : \/ i \in DOMAIN queue /\ queue'[i] = queue[i]
                                  \/ queue'[i] = e
  BY SMT
<1> QED
  BY <1>1, Zenon DEF Queued

LEMMA NextPill == EngineInv /\ PillInv /\ [Next]_vars => PillInv'
<1> SUFFICES ASSUME EngineInv, PillInv, [Next]_vars, phase' = "serving"
             PROVE  Pill \notin Queued'
  BY DEF PillInv
<1>0. queue \in Seq(Item) /\ Pill \in Item /\ Pill \notin Requests /\ Requests \subseteq Item
  BY Types, EngineAssumption DEF EngineInv, Item
<1>1. CASE UNCHANGED <<phase, queue>>
  BY <1>1 DEF PillInv, Queued
<1>2. ASSUME NEW r \in Requests, Call(r) PROVE Pill \notin Queued'
  <2>1. CASE Push(r)
    <3>1. phase = "serving" /\ queue' = Append(queue, r)
      BY <2>1 DEF Push
    <3> QED
      BY <1>0, <3>1, AppendQueued DEF PillInv
  <2>2. CASE Reject(r) \/ Admit(r) \/ Answer(r) \/ AnswerStale(r) \/ Timeout(r) \/ Unavailable(r)
    <3>1. queue' = queue /\ phase = "serving"
      BY <2>2 DEF Reject, Admit, Answer, AnswerStale, Timeout, Unavailable
    <3> QED
      BY <1>1, <3>1
  <2> QED
    BY <1>2, <2>1, <2>2 DEF Call
<1>3. ASSUME NEW w \in Workers, Work(w) PROVE Pill \notin Queued'
  <2>1. CASE PopBatch(w)
    BY <2>1, PopFacts DEF PillInv
  <2>2. CASE Filter(w) \/ Run(w) \/ Fail(w) \/ Deliver(w)
    BY <1>1, <2>2, Zenon DEF Filter, Run, Fail, Deliver
  <2>3. CASE PopNothing(w)
    BY <1>1, <2>3 DEF PopNothing, vars
  <2> QED
    BY <1>3, <2>1, <2>2, <2>3 DEF Work
<1>4. CASE PushPill
  BY <1>4 DEF PushPill
<1>5. CASE Join \/ Gone \/ UNCHANGED vars
  BY <1>1, <1>5 DEF Join, Gone, vars
<1> QED
  BY <1>2, <1>3, <1>4, <1>5 DEF Next

LEMMA NextAnswer == EngineInv /\ AnswerInv /\ [Next]_vars => AnswerInv'
<1> SUFFICES ASSUME EngineInv, AnswerInv, [Next]_vars PROVE AnswerInv'
  OBVIOUS
<1>0. /\ handler \in [Requests -> {"new", "admitted", "waiting", "done"}]
      /\ reply \in [Requests -> Reply]
  BY Types DEF EngineInv
<1>1. CASE UNCHANGED <<handler, reply>>
  BY <1>1 DEF AnswerInv
<1>2. ASSUME NEW r \in Requests, Call(r) PROVE AnswerInv'
  <2>1. CASE Admit(r) \/ Push(r)
    <3>1. reply' = reply /\ handler[r] # "done"
          /\ \A x \in Requests \ {r} : handler'[x] = handler[x]
      BY <1>0, <2>1 DEF Admit, Push
    <3> QED
      BY <3>1 DEF AnswerInv
  <2>2. CASE Reject(r) \/ Answer(r) \/ AnswerStale(r) \/ Timeout(r) \/ Unavailable(r)
    <3>1. PICK answer : Done(r, answer)
      BY <2>2, Zenon DEF Reject, Answer, AnswerStale, Timeout, Unavailable
    <3>2. /\ handler'[r] = "done"
          /\ \A x \in Requests \ {r} : handler'[x] = handler[x] /\ reply'[x] = reply[x]
      BY <1>0, <3>1 DEF Done
    <3> QED
      BY <3>2 DEF AnswerInv
  <2> QED
    BY <1>2, <2>1, <2>2 DEF Call
<1>3. ASSUME NEW w \in Workers, Work(w) PROVE AnswerInv'
  <2>1. CASE PopBatch(w)
    BY <1>1, <2>1, PopFacts
  <2>2. CASE Filter(w) \/ Run(w) \/ Fail(w) \/ Deliver(w)
    BY <1>1, <2>2, Zenon DEF Filter, Run, Fail, Deliver, calls
  <2>3. CASE PopNothing(w)
    BY <1>1, <2>3 DEF PopNothing, vars, calls
  <2> QED
    BY <1>3, <2>1, <2>2, <2>3 DEF Work
<1>4. CASE PushPill \/ Join \/ Gone \/ UNCHANGED vars
  BY <1>1, <1>4 DEF PushPill, Join, Gone, vars, calls
<1> QED
  BY <1>2, <1>3, <1>4 DEF Next

\* A result of the batch of w, and nothing else about the requests changes.
LEMMA DecideKeeps ==
  ASSUME TakenInv, DecidedInv, NEW w \in Workers, UNCHANGED <<handler, queue>>,
         \A r \in Requests : \/ promise'[r] = promise[r]
                             \/ r \in InBatch(w) /\ promise'[r].set
  PROVE  DecidedInv'
<1> SUFFICES ASSUME NEW r \in Requests
             PROVE  /\ promise'[r].stale => promise'[r].set
                    /\ promise'[r].set => r \notin Early /\ r \notin Queued
  BY DEF DecidedInv, Early, Queued
<1>1. CASE promise'[r] = promise[r]
  BY <1>1 DEF DecidedInv
<1>2. CASE r \in InBatch(w) /\ promise'[r].set
  <2>1. r \notin Queued
    <3>1. r # Pill
      BY EngineAssumption
    <3> QED
      BY <1>2, <3>1 DEF TakenInv, TakenOnce
  <2>2. r \notin Early
    BY <1>2 DEF TakenInv
  <2> QED
    BY <1>2, <2>1, <2>2
<1> QED
  BY <1>1, <1>2

LEMMA NextDecided == EngineInv /\ TakenInv /\ DecidedInv /\ [Next]_vars => DecidedInv'
<1> SUFFICES ASSUME EngineInv, TakenInv, DecidedInv, [Next]_vars PROVE DecidedInv'
  OBVIOUS
<1>0. /\ handler \in [Requests -> {"new", "admitted", "waiting", "done"}]
      /\ queue \in Seq(Item) /\ Pill \in Item /\ Pill \notin Requests /\ Requests \subseteq Item
  BY Types, EngineAssumption DEF EngineInv, Item
<1>1. ASSUME promise' = promise, Early' \subseteq Early, Queued' \subseteq Queued \cup {Pill}
      PROVE  DecidedInv'
  BY <1>0, <1>1 DEF DecidedInv
<1>2. ASSUME NEW r \in Requests, Call(r) PROVE DecidedInv'
  <2>1. CASE Push(r)
    <3>1. /\ promise' = promise /\ handler[r] = "admitted" /\ queue' = Append(queue, r)
          /\ handler' = [handler EXCEPT ![r] = "waiting"]
      BY <2>1 DEF Push
    <3>2. Early' \subseteq Early /\ r \in Early
      BY <1>0, <3>1 DEF Early
    <3>3. Queued' = Queued \cup {r}
      BY <1>0, <3>1, AppendQueued
    <3> QED
      BY <3>1, <3>2, <3>3 DEF DecidedInv
  <2>2. CASE Admit(r)
    <3>1. /\ promise' = promise /\ handler[r] = "new" /\ queue' = queue
          /\ handler' = [handler EXCEPT ![r] = "admitted"]
      BY <2>2 DEF Admit
    <3>2. Early' \subseteq Early /\ Queued' = Queued
      BY <1>0, <3>1 DEF Early, Queued
    <3> QED
      BY <1>1, <3>1, <3>2
  <2>3. CASE Reject(r) \/ Answer(r) \/ AnswerStale(r) \/ Timeout(r) \/ Unavailable(r)
    <3>1. PICK answer : Done(r, answer)
      BY <2>3, Zenon DEF Reject, Answer, AnswerStale, Timeout, Unavailable
    <3>2. Early' \subseteq Early
      BY <1>0, <3>1 DEF Early, Done
    <3>3. promise' = promise /\ Queued' = Queued
      BY <2>3 DEF Reject, Answer, AnswerStale, Timeout, Unavailable, Queued
    <3> QED
      BY <1>1, <3>2, <3>3
  <2> QED
    BY <1>2, <2>1, <2>2, <2>3 DEF Call
<1>3. ASSUME NEW w \in Workers, Work(w) PROVE DecidedInv'
  <2>1. CASE PopBatch(w)
    <3>1. promise' = promise /\ Early' = Early /\ Queued' \subseteq Queued
      BY <2>1, PopFacts DEF Early
    <3> QED
      BY <1>1, <3>1
  <2>2. CASE Filter(w)
    <3>1. PICK late \in SUBSET InBatch(w) : \A r \in Requests :
            promise'[r] = IF r \in late /\ ~promise[r].set THEN Stale ELSE promise[r]
      BY <2>2, FilterFacts
    <3>2. \A r \in Requests : promise'[r] = promise[r] \/ (r \in InBatch(w) /\ promise'[r].set)
      BY <3>1 DEF Stale
    <3>3. UNCHANGED <<handler, queue>>
      BY <2>2, FilterFacts DEF OnlyWorker
    <3> QED
      BY <3>2, <3>3, DecideKeeps
  <2>3. CASE Deliver(w)
    <3>1. \A r \in Requests : promise'[r] = promise[r] \/ (r \in InBatch(w) /\ promise'[r].set)
      BY <2>3, DeliverFacts
    <3>2. UNCHANGED <<handler, queue>>
      BY <2>3, DeliverFacts DEF OnlyWorker
    <3> QED
      BY <3>1, <3>2, DecideKeeps
  <2>4. CASE Run(w) \/ Fail(w) \/ PopNothing(w)
    <3>1. promise' = promise /\ handler' = handler /\ queue' = queue
      BY <2>4, Zenon DEF Run, Fail, PopNothing, vars, calls
    <3> QED
      BY <1>1, <3>1 DEF Early, Queued
  <2> QED
    BY <1>3, <2>1, <2>2, <2>3, <2>4 DEF Work
<1>4. CASE PushPill
  <2>1. promise' = promise /\ handler' = handler /\ queue' = Append(queue, Pill)
    BY <1>4 DEF PushPill, calls
  <2> QED
    BY <1>0, <1>1, <2>1, AppendQueued DEF Early
<1>5. CASE Join \/ Gone \/ UNCHANGED vars
  BY <1>1, <1>5 DEF Join, Gone, vars, calls, Early, Queued
<1> QED
  BY <1>2, <1>3, <1>4, <1>5 DEF Next

\* A result that is there stays, and the other workers' batches stay covered.
LEMMA KeepCover ==
  ASSUME CoverInv, NEW w \in Workers,
         \A x \in Workers \ {w} : wpc'[x] = wpc[x] /\ local'[x] = local[x],
         \A r \in Requests : promise[r].set => promise'[r].set,
         wpc'[w] \in {"run", "deliver"} => Covered(w)'
  PROVE  CoverInv'
<1> SUFFICES ASSUME NEW x \in Workers, wpc'[x] \in {"run", "deliver"}
             PROVE  Covered(x)'
  BY DEF CoverInv
<1>1. CASE x = w
  BY <1>1
<1>2. CASE x # w
  <2>1. Covered(x) /\ local'[x] = local[x]
    BY <1>2 DEF CoverInv
  <2> QED
    BY <2>1 DEF Covered, InBatch
<1> QED
  BY <1>1, <1>2

LEMMA NextCover == EngineInv /\ CoverInv /\ [Next]_vars => CoverInv'
<1> SUFFICES ASSUME EngineInv, CoverInv, [Next]_vars PROVE CoverInv'
  OBVIOUS
<1>0. /\ local \in [Workers -> Batch]
      /\ wpc \in [Workers -> {"pop", "filter", "run", "deliver", "stopped"}]
  BY Types DEF EngineInv
<1>1. CASE UNCHANGED <<wpc, local, promise>>
  BY <1>1 DEF CoverInv, Covered, InBatch
<1>2. ASSUME NEW r \in Requests, Call(r) PROVE CoverInv'
  BY <1>1, <1>2 DEF Call, Reject, Admit, Push, Answer, AnswerStale, Timeout, Unavailable, pool
<1>3. ASSUME NEW w \in Workers, Work(w) PROVE CoverInv'
  <2>1. CASE PopBatch(w)
    BY <2>1, PopFacts, KeepCover
  <2>2. CASE Filter(w)
    <3>1. PICK late \in SUBSET InBatch(w) :
            /\ \A r \in Requests :
                 promise'[r] = IF r \in late /\ ~promise[r].set THEN Stale ELSE promise[r]
            /\ \/ wpc'[w] = "pop" /\ local'[w].batch = <<>> /\ InBatch(w) \subseteq late
               \/ /\ wpc'[w] = "run" /\ local'[w].batch = local[w].batch
                  /\ \A r \in InBatch(w) \ late : \E b \in DOMAIN local'[w].valid :
                       local[w].batch[local'[w].valid[b]] = r
      BY <2>2, FilterFacts
    <3>2. \A r \in Requests : promise[r].set \/ r \in late => promise'[r].set
      BY <3>1 DEF Stale
    <3>3. ASSUME wpc'[w] \in {"run", "deliver"} PROVE Covered(w)'
      <4>1. /\ local'[w].batch = local[w].batch
            /\ \A r \in InBatch(w) \ late : \E b \in DOMAIN local'[w].valid :
                 local[w].batch[local'[w].valid[b]] = r
        BY <3>1, <3>3
      <4>2. InBatch(w)' = InBatch(w)
        BY <4>1 DEF InBatch
      <4> QED
        BY <3>2, <4>1, <4>2 DEF Covered
    <3> QED
      BY <2>2, <3>2, <3>3, FilterFacts, KeepCover DEF OnlyWorker
  <2>3. CASE Run(w)
    <3>1. PICK out : local' = [local EXCEPT ![w].out = out]
      BY <2>3, Zenon DEF Run
    <3>2. wpc[w] = "run" /\ promise' = promise /\ wpc' = [wpc EXCEPT ![w] = "deliver"]
      BY <2>3 DEF Run, At
    <3>3. /\ local'[w].batch = local[w].batch /\ local'[w].valid = local[w].valid
          /\ \A x \in Workers \ {w} : wpc'[x] = wpc[x] /\ local'[x] = local[x]
      BY <1>0, <3>1, <3>2 DEF Batch
    <3>4. Covered(w)'
      BY <3>2, <3>3 DEF CoverInv, Covered, InBatch
    <3> QED
      BY <3>2, <3>3, <3>4, KeepCover
  <2>4. CASE Fail(w)
    <3>1. /\ promise' = promise /\ wpc' = [wpc EXCEPT ![w] = "pop"]
          /\ local' = [local EXCEPT ![w] = NoBatch]
      BY <2>4 DEF Fail
    <3>2. /\ wpc'[w] = "pop"
          /\ \A x \in Workers \ {w} : wpc'[x] = wpc[x] /\ local'[x] = local[x]
      BY <1>0, <3>1
    <3> QED
      BY <3>1, <3>2, KeepCover
  <2>5. CASE Deliver(w)
    <3>1. \A r \in Requests : promise[r].set => promise'[r].set
      BY <2>5, DeliverFacts
    <3> QED
      BY <2>5, <3>1, DeliverFacts, KeepCover DEF OnlyWorker
  <2>6. CASE PopNothing(w)
    BY <1>1, <2>6 DEF PopNothing, vars, pool
  <2> QED
    BY <1>3, <2>1, <2>2, <2>3, <2>4, <2>5, <2>6 DEF Work
<1>4. CASE PushPill \/ Join \/ Gone \/ UNCHANGED vars
  BY <1>1, <1>4 DEF PushPill, Join, Gone, vars, pool
<1> QED
  BY <1>2, <1>3, <1>4 DEF Next

ServiceInv == EngineInv /\ DepthInv /\ TakenInv /\ DecidedInv /\ AnswerInv /\ PillInv /\ CoverInv

LEMMA ServiceInvariant == Spec => []ServiceInv
<1>1. Init => TakenInv /\ DecidedInv /\ AnswerInv /\ PillInv /\ CoverInv
  <2> SUFFICES ASSUME Init PROVE TakenInv /\ DecidedInv /\ AnswerInv /\ PillInv /\ CoverInv
    OBVIOUS
  <2>1. DOMAIN queue = {} /\ \A w \in Workers : DOMAIN local[w].batch = {}
    BY SMT DEF Init, NoBatch
  <2>2. Queued = {} /\ \A w \in Workers : InBatch(w) = {}
    BY <2>1, Zenon DEF Queued, InBatch
  <2>3. TakenInv
    BY <2>1, <2>2 DEF TakenInv, TakenOnce
  <2>4. DecidedInv /\ AnswerInv
    BY DEF Init, DecidedInv, AnswerInv, Unset, NoReply
  <2>5. PillInv /\ CoverInv
    BY <2>2 DEF Init, PillInv, CoverInv
  <2> QED
    BY <2>3, <2>4, <2>5
<1> QED
  BY <1>1, InitEngine, InitDepth, NextEngine, NextDepth, NextTaken, NextDecided, NextAnswer,
     NextPill, NextCover, PTL DEF Spec, ServiceInv

\* The answers, as Service defines them.
Answers == [r \in Requests |-> Outcome(r, reply[r])]

BatchOf(l) == {l.batch[i] : i \in DOMAIN l.batch}

LEMMA OpenType == Open \in SUBSET Requests /\ Open' \in SUBSET Requests
  BY Zenon DEF Open

LEMMA OpenStep ==
  ASSUME NEW r \in Requests
  PROVE  /\ r \in Open <=> /\ ~promise[r].set
                          /\ \/ r \in Queued
                             \/ \E x \in Workers : r \in BatchOf(local[x])
         /\ r \in Open' <=> /\ ~promise'[r].set
                           /\ \/ r \in Queued'
                              \/ \E x \in Workers : r \in BatchOf(local'[x])
  BY Zenon DEF Open, BatchOf

LEMMA EmptyBatch == ASSUME NEW l, l.batch = <<>> PROVE BatchOf(l) = {}
<1>1. DOMAIN l.batch = {}
  BY SMT
<1> QED
  BY <1>1, Zenon DEF BatchOf

LEMMA SameService ==
  ASSUME (phase' = "serving") = (phase = "serving"),
         UNCHANGED <<handler, reply, promise>>, Open' = Open
  PROVE  UNCHANGED Service!serviceVars
  BY DEF Service!serviceVars, Waiting, Computed, Late

\* Requests that a batch has taken and nobody will answer.
LEMMA AbandonStep ==
  ASSUME UNCHANGED <<phase, handler, reply, promise>>, Open' \subseteq Open
  PROVE  Service!Abandon(Open \ Open') /\ Open \ Open' \in SUBSET Requests
<1>1. /\ Waiting' = Waiting /\ Computed' = Computed /\ Late' = Late /\ Answers' = Answers
      /\ (phase' = "serving") = (phase = "serving")
  BY DEF Waiting, Computed, Late, Answers
<1>2. Open' = Open \ (Open \ Open') /\ Open \ Open' \in SUBSET Requests
  BY OpenType
<1> QED
  BY <1>1, <1>2 DEF Service!Abandon, Answers

\* A handler that returns, as the caller sees it.
LEMMA ReturnStep ==
  ASSUME EngineInv, NEW r \in Requests, NEW answer, Done(r, answer),
         UNCHANGED <<promise, queue, local>>
  PROVE  /\ Waiting' = Waiting \ {r}
         /\ Answers' = [Answers EXCEPT ![r] = Outcome(r, answer)]
         /\ UNCHANGED <<Open, Computed, Late>>
<1>1. /\ handler \in [Requests -> {"new", "admitted", "waiting", "done"}]
      /\ reply \in [Requests -> Reply]
      /\ handler' = [handler EXCEPT ![r] = "done"] /\ reply' = [reply EXCEPT ![r] = answer]
  BY Types DEF EngineInv, Done
<1>2. Waiting' = Waiting \ {r}
  BY <1>1 DEF Waiting
<1>3. Answers' = [Answers EXCEPT ![r] = Outcome(r, answer)]
  <2>1. ASSUME NEW x \in Requests
        PROVE  Answers'[x] = [Answers EXCEPT ![r] = Outcome(r, answer)][x]
    <3>1. reply'[x] = IF x = r THEN answer ELSE reply[x]
      BY <1>1
    <3> QED
      BY <3>1, Zenon DEF Answers
  <2> QED
    BY <2>1, Zenon DEF Answers
<1>4. UNCHANGED <<Open, Computed, Late>>
  BY DEF Open, Computed, Late, Queued
<1> QED
  BY <1>2, <1>3, <1>4

\* Each queued request is open, and none is queued twice: the depth is not
\* more than the number of open requests.
LEMMA DepthIsOpen ==
  ASSUME ServiceInv, phase = "serving"
  PROVE  depth <= Cardinality(Open) /\ depth \in Nat /\ Cardinality(Open) \in Nat
<1>1. queue \in Seq(Item) /\ Len(queue) \in Nat /\ depth = Len(queue)
  BY Types DEF ServiceInv, EngineInv, DepthInv
<1>2. \A i \in DOMAIN queue : queue[i] \in Open
  <2> SUFFICES ASSUME NEW i \in DOMAIN queue PROVE queue[i] \in Open
    OBVIOUS
  <2>1. queue[i] \in Queued /\ queue[i] \in Item
    BY <1>1 DEF Queued
  <2>2. queue[i] \in Requests
    BY <2>1 DEF ServiceInv, PillInv, Item
  <2>3. ~promise[queue[i]].set
    BY <2>1, <2>2, Zenon DEF ServiceInv, DecidedInv
  <2> QED
    BY <2>1, <2>2, <2>3, Zenon DEF Open
<1>3. \A i, k \in DOMAIN queue : queue[i] = queue[k] => i = k
  <2>1. \A i \in DOMAIN queue : queue[i] # Pill
    BY Zenon DEF ServiceInv, PillInv, Queued
  <2> QED
    BY <2>1, Zenon DEF ServiceInv, TakenInv, TakenOnce
<1> DEFINE n == Len(queue)
<1>4. queue \in [1..n -> Open]
  <2>1. queue = [i \in 1..n |-> queue[i]] /\ DOMAIN queue = 1..n
    BY <1>1
  <2> QED
    BY <1>2, <2>1, Zenon
<1>5. DOMAIN queue = 1..n
  BY <1>1
<1>6. queue \in Injection(1..n, Open)
  BY <1>3, <1>4, <1>5, Fun_IsInj, Zenon
<1>7. IsFiniteSet(Open) /\ Cardinality(Open) \in Nat
  BY AdmittedFinite DEF Open
<1>8. IsFiniteSet(1..n) /\ Cardinality(1..n) = n
  <2>1. 1 \in Int /\ n \in Int /\ (IF 1 > n THEN 0 ELSE n - 1 + 1) = n
    BY <1>1
  <2> HIDE DEF n
  <2> QED
    BY <2>1, FS_Interval
<1>9. Cardinality(1..n) <= Cardinality(Open)
  BY <1>6, <1>7, FS_Injection
<1> QED
  BY <1>1, <1>7, <1>8, <1>9

LEMMA SameCardinality == \A S : Service!Cardinality(S) = Cardinality(S)
  BY DEF Service!Cardinality, Cardinality

LEMMA InitService == Init => Service!Init
<1> SUFFICES ASSUME Init PROVE Service!Init
  OBVIOUS
<1>1. Waiting = {} /\ Open \subseteq {} /\ Computed = {} /\ Late = {}
  <2>1. DOMAIN queue = {} /\ \A w \in Workers : DOMAIN local[w].batch = {}
    BY SMT DEF Init, NoBatch
  <2>2. Queued = {} /\ Open \subseteq {}
    BY <2>1, Zenon DEF Queued, Open
  <2> QED
    BY <2>2 DEF Init, Waiting, Computed, Late, Unset
<1>2. Answers = [r \in Requests |-> "none"]
  BY DEF Init, Answers, Outcome, NoReply
<1> QED
  BY <1>1, <1>2 DEF Service!Init, Answers

LEMMA CallService ==
  ASSUME ServiceInv, NEW r \in Requests, Call(r)
  PROVE  Service!Next \/ UNCHANGED Service!serviceVars
<1>0. /\ EngineInv /\ queue \in Seq(Item) /\ r \in Item
      /\ handler \in [Requests -> {"new", "admitted", "waiting", "done"}]
      /\ reply \in [Requests -> Reply] /\ promise \in [Requests -> PromiseState]
  BY Types DEF ServiceInv, EngineInv, Item
<1>1. handler[r] # "done" => Answers[r] = "none"
  BY DEF ServiceInv, AnswerInv, Answers, Outcome
<1>2. CASE Reject(r)
  <2>1. /\ phase = "serving" /\ phase' = phase /\ handler[r] = "new" /\ depth > DepthLimit
        /\ Done(r, Status("RESOURCE_EXHAUSTED")) /\ UNCHANGED <<promise, queue, local>>
    BY <1>2 DEF Reject, pool
  <2>2. r \notin Waiting /\ Waiting' = Waiting
        /\ Answers' = [Answers EXCEPT ![r] = "RESOURCE_EXHAUSTED"]
        /\ UNCHANGED <<Open, Computed, Late>>
    BY <1>0, <2>1, ReturnStep DEF Waiting, Outcome, Status, NoReply
  <2>3. Cardinality(Open) > DepthLimit
    BY <2>1, DepthIsOpen, EngineAssumption, SMT
  <2>4. Service!Refuse(r)
    BY <1>1, <2>1, <2>2, <2>3, SameCardinality DEF Service!Refuse, Service!New, Answers
  <2> QED
    BY <2>4 DEF Service!Next
<1>3. CASE Admit(r)
  <2>1. /\ UNCHANGED <<phase, reply, promise, queue, local>> /\ handler[r] = "new"
        /\ handler' = [handler EXCEPT ![r] = "admitted"]
    BY <1>3 DEF Admit, pool
  <2>2. Waiting' = Waiting /\ Answers' = Answers /\ UNCHANGED <<Open, Computed, Late>>
    BY <1>0, <2>1 DEF Waiting, Answers, Open, Computed, Late, Queued
  <2> QED
    BY <2>1, <2>2 DEF Service!serviceVars, Answers
<1>4. CASE Push(r)
  <2>1. /\ UNCHANGED <<phase, reply, promise, local>> /\ phase = "serving"
        /\ handler[r] = "admitted" /\ handler' = [handler EXCEPT ![r] = "waiting"]
        /\ queue' = Append(queue, r)
    BY <1>4 DEF Push, pool
  <2>2. /\ r \notin Waiting /\ Waiting' = Waiting \cup {r}
        /\ Answers' = Answers /\ UNCHANGED <<Computed, Late>>
    BY <1>0, <2>1 DEF Waiting, Answers, Computed, Late
  <2>3. r \in Early
    BY <2>1 DEF Early
  <2>4. ~promise[r].set /\ r \notin Queued /\ \A w \in Workers : r \notin InBatch(w)
    BY <2>3 DEF ServiceInv, DecidedInv, TakenInv
  <2>5. Queued' = Queued \cup {r}
    BY <1>0, <2>1, AppendQueued
  <2>6. Open' = Open \cup {r} /\ r \notin Open \cup Computed \cup Late
    <3>1. r \notin Open \cup Computed \cup Late
      BY <2>4 DEF Open, InBatch, Computed, Late
    <3>2. \A x \in Requests : x \in Open' <=> x \in Open \cup {r}
      BY <2>1, <2>4, <2>5, OpenStep
    <3>3. Open' \in SUBSET Requests
      BY OpenType
    <3> QED
      BY <3>1, <3>2, <3>3, OpenType
  <2>7. Service!Take(r)
    BY <1>1, <2>1, <2>2, <2>6 DEF Service!Take, Service!New, Answers
  <2> QED
    BY <2>7 DEF Service!Next
<1>5. ASSUME NEW answer, Done(r, answer), handler[r] = "waiting", phase = "serving",
             UNCHANGED <<promise, queue, local>>
      PROVE  /\ r \in Waiting /\ Waiting' = Waiting \ {r}
             /\ Answers' = [Answers EXCEPT ![r] = Outcome(r, answer)]
             /\ UNCHANGED <<Open, Computed, Late>>
  BY <1>0, <1>5, ReturnStep DEF Waiting
<1>6. CASE Answer(r)
  <2>1. /\ Done(r, Answered(promise[r])) /\ handler[r] = "waiting" /\ phase = "serving"
        /\ phase' = phase /\ UNCHANGED <<promise, queue, local>>
        /\ promise[r].set /\ ~promise[r].stale
    BY <1>6 DEF Answer, pool
  <2>2. Outcome(r, Answered(promise[r])) = "own"
    BY <2>1 DEF Outcome, Answered, ServiceInv, EngineInv, PromiseInv, Own
  <2>3. r \in Computed
    BY <2>1 DEF Computed
  <2>4. Service!Reply(r)
    BY <1>5, <2>1, <2>2, <2>3 DEF Service!Reply, Service!Return, Answers
  <2> QED
    BY <2>4 DEF Service!Next
<1>7. CASE AnswerStale(r)
  <2>1. /\ handler[r] = "waiting" /\ phase = "serving" /\ promise[r].stale
        /\ UNCHANGED <<promise, queue, local>>
        /\ \/ phase' = "crashed" /\ Done(r, Status("UNAVAILABLE"))
           \/ phase' = phase /\ Done(r, Answered(promise[r]))
    BY <1>7 DEF AnswerStale, pool
  <2>2. r \in Late
    BY <2>1 DEF Late, ServiceInv, DecidedInv
  <2>3. CASE phase' = "crashed" /\ Done(r, Status("UNAVAILABLE"))
    <3>1. Outcome(r, Status("UNAVAILABLE")) = "UNAVAILABLE"
      BY DEF Outcome, Status, NoReply
    <3>2. Service!Die(r)
      BY <1>5, <2>1, <2>2, <2>3, <3>1 DEF Service!Die, Service!Return, Answers
    <3> QED
      BY <3>2 DEF Service!Next
  <2>4. CASE phase' = phase /\ Done(r, Answered(promise[r]))
    <3>1. Outcome(r, Answered(promise[r])) = "late"
      BY <2>1 DEF Outcome, Answered
    <3>2. Service!Reply(r)
      BY <1>5, <2>1, <2>2, <2>4, <3>1 DEF Service!Reply, Service!Return, Answers
    <3> QED
      BY <3>2 DEF Service!Next
  <2> QED
    BY <2>1, <2>3, <2>4
<1>8. CASE Timeout(r)
  <2>1. /\ Done(r, Status("DEADLINE_EXCEEDED")) /\ handler[r] = "waiting" /\ phase = "serving"
        /\ phase' = phase /\ UNCHANGED <<promise, queue, local>> /\ ~promise[r].set
        /\ r \in SlowCalls \/ Abandoned(r)
    BY <1>8 DEF Timeout, pool
  <2>2. Outcome(r, Status("DEADLINE_EXCEEDED")) = "DEADLINE_EXCEEDED"
    BY DEF Outcome, Status, NoReply
  <2>3. /\ r \notin Computed \cup Late
        /\ r \in SlowCalls \/ r \notin Open
    BY <2>1, Zenon DEF Computed, Late, Open, Abandoned, InBatch
  <2>4. Service!GiveUp(r)
    BY <1>5, <2>1, <2>2, <2>3 DEF Service!GiveUp, Service!Return, Answers
  <2> QED
    BY <2>4 DEF Service!Next
<1>9. CASE Unavailable(r)
  <2>1. /\ Done(r, Status("UNAVAILABLE")) /\ handler[r] # "done" /\ phase # "serving"
        /\ phase' = phase /\ UNCHANGED <<promise, queue, local>>
    BY <1>9 DEF Unavailable, pool
  <2>2. Outcome(r, Status("UNAVAILABLE")) = "UNAVAILABLE"
    BY DEF Outcome, Status, NoReply
  <2>3. Service!Lost(r)
    BY <1>0, <1>1, <2>1, <2>2, ReturnStep DEF Service!Lost, Service!Return, Answers
  <2> QED
    BY <2>3 DEF Service!Next
<1> QED
  BY <1>2, <1>3, <1>4, <1>6, <1>7, <1>8, <1>9 DEF Call

LEMMA WorkService ==
  ASSUME ServiceInv, NEW w \in Workers, Work(w)
  PROVE  Service!Next \/ UNCHANGED Service!serviceVars
<1>0. /\ EngineInv /\ local \in [Workers -> Batch] /\ promise \in [Requests -> PromiseState]
  BY Types DEF ServiceInv, EngineInv
<1>1. ASSUME UNCHANGED <<phase, handler, reply, promise>>, Open' \subseteq Open
      PROVE  Service!Next
  BY <1>1, AbandonStep DEF Service!Next
<1>a. Open \in SUBSET Requests /\ Open' \in SUBSET Requests
  BY OpenType
<1>b. \A x \in Workers : InBatch(x) = BatchOf(local[x])
  BY DEF InBatch, BatchOf
<1>2. CASE PopBatch(w)
  <2>1. /\ UNCHANGED <<phase, handler, reply, promise>> /\ Queued' \subseteq Queued
        /\ \A x \in Workers \ {w} : local'[x] = local[x]
        /\ InBatch(w)' \subseteq InBatch(w) \cup Queued
    BY <1>0, <1>2, PopFacts
  <2>2. BatchOf(local'[w]) \subseteq BatchOf(local[w]) \cup Queued
    BY <2>1 DEF InBatch, BatchOf
  <2>3. \A r \in Requests : r \in Open' => r \in Open
    BY <2>1, <2>2, OpenStep
  <2> QED
    BY <1>1, <1>a, <2>1, <2>3
<1>3. CASE Filter(w)
  <2>1. PICK late \in SUBSET InBatch(w) :
          /\ \A r \in Requests :
               promise'[r] = IF r \in late /\ ~promise[r].set THEN Stale ELSE promise[r]
          /\ \/ wpc'[w] = "pop" /\ local'[w].batch = <<>> /\ InBatch(w) \subseteq late
             \/ /\ wpc'[w] = "run" /\ local'[w].batch = local[w].batch
                /\ \A r \in InBatch(w) \ late : \E b \in DOMAIN local'[w].valid :
                     local[w].batch[local'[w].valid[b]] = r
    BY <1>0, <1>3, FilterFacts
  <2>2. OnlyWorker(w)
    BY <1>0, <1>3, FilterFacts
  <2> DEFINE S == {r \in Requests \cap late : ~promise[r].set}
  <2>3. /\ Waiting' = Waiting /\ Answers' = Answers
        /\ (phase' = "serving") = (phase = "serving")
    BY <2>2 DEF OnlyWorker, Waiting, Answers
  <2>4. \A r \in Requests : r \in S => promise'[r].set /\ promise'[r].stale /\ ~promise[r].set
    BY <2>1 DEF Stale
  <2>5. \A r \in Requests : r \notin S => promise'[r] = promise[r]
    BY <2>1
  <2>6. S \subseteq Open
    BY <1>b, OpenStep
  <2>7. /\ BatchOf(local'[w]) \subseteq BatchOf(local[w])
        /\ BatchOf(local[w]) \subseteq BatchOf(local'[w]) \cup late
    <3>1. CASE local'[w].batch = <<>> /\ InBatch(w) \subseteq late
      BY <1>b, <3>1, EmptyBatch
    <3>2. CASE local'[w].batch = local[w].batch
      BY <3>2 DEF BatchOf
    <3> QED
      BY <2>1, <3>1, <3>2
  <2>8. Queued' = Queued /\ \A x \in Workers \ {w} : local'[x] = local[x]
    BY <2>2 DEF OnlyWorker, Queued
  <2>9. ASSUME NEW r \in Requests
        PROVE  r \in Open' <=> r \in Open /\ r \notin S
    <3>1. CASE r \in S
      BY <2>4, <3>1, OpenStep
    <3>2. CASE r \notin S
      <4>1. promise'[r] = promise[r]
        BY <2>5, <3>2
      <4>2. ~promise[r].set => r \notin late
        BY <3>2
      <4>3. ~promise[r].set => (r \in BatchOf(local'[w]) <=> r \in BatchOf(local[w]))
        BY <2>7, <4>2
      <4>4. ~promise[r].set =>
              \A x \in Workers : r \in BatchOf(local'[x]) <=> r \in BatchOf(local[x])
        BY <2>8, <4>3
      <4> QED
        BY <2>8, <3>2, <4>1, <4>4, OpenStep
    <3> QED
      BY <3>1, <3>2
  <2>10. S \in SUBSET Requests
    OBVIOUS
  <2> HIDE DEF S
  <2>11. Open' = Open \ S
    BY <1>a, <2>9
  <2>12. Late' = Late \cup S
    BY <2>4, <2>5, <2>10 DEF Late
  <2>13. Computed' = Computed
    BY <2>4, <2>5 DEF Computed
  <2>14. Service!Drop(S)
    BY <2>3, <2>6, <2>11, <2>12, <2>13 DEF Service!Drop, Answers
  <2> QED
    BY <2>10, <2>14 DEF Service!Next
<1>4. CASE Deliver(w)
  <2>1. /\ OnlyWorker(w) /\ wpc[w] = "deliver" /\ local'[w].batch = <<>>
        /\ RowSet(w) \subseteq InBatch(w)
        /\ \A r \in Requests : IF r \in RowSet(w) /\ ~promise[r].set
                               THEN promise'[r].set /\ ~promise'[r].stale
                               ELSE promise'[r] = promise[r]
    BY <1>0, <1>4, DeliverFacts
  <2> DEFINE S == {r \in Requests \cap RowSet(w) : ~promise[r].set}
  <2>2. /\ Waiting' = Waiting /\ Answers' = Answers
        /\ (phase' = "serving") = (phase = "serving")
    BY <2>1 DEF OnlyWorker, Waiting, Answers
  <2>3. \A r \in Requests : r \in S => promise'[r].set /\ ~promise'[r].stale /\ ~promise[r].set
    BY <2>1
  <2>4. \A r \in Requests : r \notin S => promise'[r] = promise[r]
    BY <2>1
  <2>5. S \subseteq Open
    BY <1>b, <2>1, OpenStep
  <2>6. BatchOf(local'[w]) = {}
    BY <2>1, EmptyBatch
  <2>7. Queued' = Queued /\ \A x \in Workers \ {w} : local'[x] = local[x]
    BY <2>1 DEF OnlyWorker, Queued
  <2>8. \A r \in Requests : r \in BatchOf(local[w]) /\ ~promise[r].set => r \in S
    <3>1. Covered(w)
      BY <2>1 DEF ServiceInv, CoverInv
    <3>2. \A r \in InBatch(w) \cap Requests : ~promise[r].set => r \in RowSet(w)
      BY <3>1, Zenon DEF Covered, RowSet
    <3> QED
      BY <1>b, <3>2
  <2>9. ASSUME NEW r \in Requests
        PROVE  r \in Open' <=> r \in Open /\ r \notin S
    <3>1. CASE r \in S
      BY <2>3, <3>1, OpenStep
    <3>2. CASE r \notin S
      <4>1. promise'[r] = promise[r]
        BY <2>4, <3>2
      <4>2. ~promise[r].set => r \notin BatchOf(local[w]) /\ r \notin BatchOf(local'[w])
        BY <2>6, <2>8, <3>2
      <4>3. ~promise[r].set =>
              \A x \in Workers : r \in BatchOf(local'[x]) <=> r \in BatchOf(local[x])
        BY <2>7, <4>2
      <4> QED
        BY <2>7, <3>2, <4>1, <4>3, OpenStep
    <3> QED
      BY <3>1, <3>2
  <2>10. S \in SUBSET Requests
    OBVIOUS
  <2> HIDE DEF S
  <2>11. Open' = Open \ S
    BY <1>a, <2>9
  <2>12. Computed' = Computed \cup S
    BY <2>3, <2>4, <2>10 DEF Computed
  <2>13. Late' = Late
    BY <2>3, <2>4 DEF Late
  <2>14. Service!Compute(S)
    BY <2>2, <2>5, <2>11, <2>12, <2>13 DEF Service!Compute, Answers
  <2> QED
    BY <2>10, <2>14 DEF Service!Next
<1>5. CASE Run(w) \/ Fail(w) \/ PopNothing(w)
  <2>1. UNCHANGED <<phase, handler, reply, promise, queue>>
    BY <1>5 DEF Run, Fail, PopNothing, vars, calls
  <2>2. \/ local' = local
        \/ local' = [local EXCEPT ![w] = NoBatch]
        \/ \E out : local' = [local EXCEPT ![w].out = out]
    BY <1>5, Zenon DEF Run, Fail, PopNothing, vars, pool
  <2>3. ASSUME NEW x \in Workers
        PROVE  BatchOf(local'[x]) \subseteq BatchOf(local[x])
    <3>1. local'[x].batch = local[x].batch \/ local'[x].batch = <<>>
      <4>1. CASE local' = [local EXCEPT ![w] = NoBatch]
        BY <1>0, <4>1 DEF NoBatch
      <4>2. ASSUME NEW out, local' = [local EXCEPT ![w].out = out]
            PROVE  local'[x].batch = local[x].batch
        BY <1>0, <4>2 DEF Batch
      <4> QED
        BY <2>2, <4>1, <4>2
    <3>2. CASE local'[x].batch = <<>>
      BY <3>2, EmptyBatch
    <3> QED
      BY <3>1, <3>2 DEF BatchOf
  <2>4. \A r \in Requests : r \in Open' => r \in Open
    <3>1. Queued' = Queued
      BY <2>1 DEF Queued
    <3> QED
      BY <2>1, <2>3, <3>1, OpenStep
  <2> QED
    BY <1>1, <1>a, <2>1, <2>4
<1> QED
  BY <1>2, <1>3, <1>4, <1>5 DEF Work

\* Seen by its callers, the engine answers each call by itself and once, with
\* its own embedding when there is one, and refuses none while no more than
\* the limit are open: whatever the batches, the late requests, the errors.
THEOREM ImplementsService == Spec => ServiceSpec
<1>1. ServiceInv /\ [Next]_vars => [Service!Next]_(Service!serviceVars)
  <2> SUFFICES ASSUME ServiceInv, [Next]_vars
               PROVE  Service!Next \/ UNCHANGED Service!serviceVars
    OBVIOUS
  <2>1. CASE PushPill \/ Join \/ Gone \/ UNCHANGED vars
    <3>1. /\ UNCHANGED <<handler, reply, promise, local>>
          /\ (phase' = "serving") = (phase = "serving")
      BY <2>1 DEF PushPill, Join, Gone, vars, calls, pool
    <3>2. Queued' \cap Requests = Queued \cap Requests
      <4>1. CASE PushPill
        <5>1. queue \in Seq(Item) /\ Pill \in Item /\ queue' = Append(queue, Pill)
          BY <4>1, Types DEF ServiceInv, EngineInv, PushPill, Item
        <5> QED
          BY <5>1, AppendQueued, EngineAssumption
      <4>2. CASE Join \/ Gone \/ UNCHANGED vars
        BY <4>2 DEF Join, Gone, vars, Queued
      <4> QED
        BY <2>1, <4>1, <4>2
    <3>3. Open' = Open
      <4>1. \A r \in Requests : r \in Queued' <=> r \in Queued
        BY <3>2
      <4>2. \A r \in Requests : r \in Open' <=> r \in Open
        BY <3>1, <4>1, OpenStep
      <4>3. Open \in SUBSET Requests /\ Open' \in SUBSET Requests
        BY OpenType
      <4> QED
        BY <4>2, <4>3
    <3> QED
      BY <3>1, <3>3, SameService
  <2> QED
    BY <2>1, CallService, WorkService DEF Next
<1> QED
  BY <1>1, InitService, ServiceInvariant, PTL DEF Spec, ServiceSpec, Service!Spec

-----------------------------------------------------------------------------
(* What is in a batch                                                      *)

OneToOne(s) == \A i, k \in DOMAIN s : s[i] = s[k] => i = k

\* A batch has no pill, and no request or row twice.
Clean(l) == Pill \notin BatchOf(l) /\ OneToOne(l.batch) /\ OneToOne(l.valid)

RowsIn(l) == {l.batch[l.valid[b]] : b \in DOMAIN l.valid}

\* The requests whose promises a worker at a step has yet to fulfil.
Awaits(step, l) == IF step = "filter" THEN BatchOf(l)
                   ELSE IF step \in {"run", "deliver"} THEN RowsIn(l)
                   ELSE {}

\* The destructor runs before anything is served, or not at all.
PillsOnly == phase = "stopping" => Queued \subseteq {Pill}

BatchInv == \A w \in Workers : Clean(local[w])

\* No worker has a promise to fulfil that has been fulfilled.
UnsetInv == \A w \in Workers : \A r \in Requests :
                r \in Awaits(wpc[w], local[w]) => ~promise[r].set

PoolInv == PillsOnly /\ BatchInv /\ UnsetInv

\* What the steps of the pool rest on.
PoolFacts == EngineInv /\ TakenInv /\ DecidedInv /\ PillInv /\ PoolInv

\* Two sets of one size.
LEMMA ImageSize ==
  ASSUME NEW S, IsFiniteSet(S), NEW T, NEW f \in [S -> T],
         \A x, y \in S : f[x] = f[y] => x = y,
         \A t \in T : \E x \in S : f[x] = t
  PROVE  IsFiniteSet(T) /\ Cardinality(T) = Cardinality(S)
<1>1. f \in Injection(S, T)
  BY Fun_IsInj
<1>2. f \in Surjection(S, T)
  BY Fun_IsSurj
<1>3. f \in Bijection(S, T)
  BY <1>1, <1>2 DEF Bijection
<1>4. ExistsBijection(S, T)
  BY <1>3 DEF ExistsBijection
<1> QED
  BY <1>4, FS_Bijection

LEMMA SequenceSize ==
  ASSUME NEW X, NEW s \in Seq(X)
  PROVE  /\ DOMAIN s = 1..Len(s) /\ Len(s) \in Nat
         /\ IsFiniteSet(DOMAIN s) /\ Cardinality(DOMAIN s) = Len(s)
<1>1. DOMAIN s = 1..Len(s) /\ Len(s) \in Nat
  OBVIOUS
<1>2. 1 \in Int /\ Len(s) \in Int /\ (IF 1 > Len(s) THEN 0 ELSE Len(s) - 1 + 1) = Len(s)
  BY <1>1
<1>3. IsFiniteSet(1..Len(s)) /\ Cardinality(1..Len(s)) = Len(s)
  BY <1>2, FS_Interval
<1> QED
  BY <1>1, <1>3

LEMMA CleanNone == Clean(NoBatch) /\ BatchOf(NoBatch) = {} /\ RowsIn(NoBatch) = {}
<1>1. DOMAIN NoBatch.batch = {} /\ DOMAIN NoBatch.valid = {}
  BY SMT DEF NoBatch
<1> QED
  BY <1>1, Zenon DEF Clean, OneToOne, BatchOf, RowsIn

\* The requests a worker has yet to decide are of its batch.
LEMMA AwaitsBatch ==
  ASSUME EngineInv, NEW w \in Workers
  PROVE  Awaits(wpc[w], local[w]) \subseteq InBatch(w)
<1>1. wpc[w] \in {"run", "deliver"} => RowsIn(local[w]) \subseteq InBatch(w)
  BY Zenon DEF EngineInv, RowsInv, RowsIn, InBatch
<1> QED
  BY <1>1 DEF Awaits, InBatch, BatchOf

\* The filter drops the requests of the batch that are not among its rows.
LEMMA FilterSplits ==
  ASSUME PoolFacts, NEW w \in Workers, Filter(w)
  PROVE  /\ OnlyWorker(w) /\ wpc[w] = "filter"
         /\ Clean(local'[w])
         /\ \E late \in SUBSET (InBatch(w) \cap Requests) :
              /\ \A r \in Requests : promise'[r] = IF r \in late THEN Stale ELSE promise[r]
              /\ \A r \in late : ~promise[r].set
              /\ IsFiniteSet(late)
              /\ Cardinality(late) = Len(local[w].batch) - Len(local'[w].valid)
              /\ Awaits(wpc'[w], local'[w]) \subseteq InBatch(w) \ late
<1> DEFINE batch == local[w].batch
<1>0. /\ local \in [Workers -> Batch] /\ local[w] \in Batch /\ batch \in Seq(Item)
      /\ wpc \in [Workers -> {"pop", "filter", "run", "deliver", "stopped"}]
  BY Types DEF PoolFacts, EngineInv, Batch
<1>1. wpc[w] = "filter" /\ UNCHANGED <<phase, handler, reply, queue>>
  BY DEF Filter, At, calls
<1>2. PICK late \in SUBSET InBatch(w) :
        /\ Fulfil([r \in late |-> Stale])
        /\ \E valid \in Increasing({i \in DOMAIN local[w].batch :
                                      local[w].batch[i] \notin late}) :
             IF valid = <<>>
             THEN /\ wpc' = [wpc EXCEPT ![w] = "pop"]
                  /\ local' = [local EXCEPT ![w] = NoBatch]
             ELSE /\ wpc' = [wpc EXCEPT ![w] = "run"]
                  /\ local' = [local EXCEPT ![w].valid = valid]
  BY Zenon DEF Filter
<1> DEFINE I == {i \in DOMAIN batch : batch[i] \notin late}
           J == {i \in DOMAIN batch : batch[i] \in late}
<1>3. PICK valid \in Increasing(I) :
        \/ /\ valid = <<>> /\ wpc' = [wpc EXCEPT ![w] = "pop"]
           /\ local' = [local EXCEPT ![w] = NoBatch]
        \/ /\ wpc' = [wpc EXCEPT ![w] = "run"]
           /\ local' = [local EXCEPT ![w].valid = valid]
  BY <1>2, Zenon
<1>4. /\ DOMAIN batch = 1..Len(batch) /\ Len(batch) \in Nat
      /\ IsFiniteSet(DOMAIN batch) /\ Cardinality(DOMAIN batch) = Len(batch)
  BY <1>0, SequenceSize
<1>5. /\ I \in SUBSET Nat /\ IsFiniteSet(I) /\ IsFiniteSet(J)
      /\ I \cup J = DOMAIN batch /\ I \cap J = {}
      /\ Cardinality(I) \in Nat /\ Cardinality(J) \in Nat
  <2>1. I \in SUBSET DOMAIN batch /\ J \in SUBSET DOMAIN batch
        /\ I \cup J = DOMAIN batch /\ I \cap J = {}
    OBVIOUS
  <2>2. DOMAIN batch \in SUBSET Nat
    BY <1>4
  <2> HIDE DEF I, J
  <2> QED
    BY <1>4, <2>1, <2>2, FS_Subset, FS_CardinalityType
<1>6. Cardinality(J) = Len(batch) - Cardinality(I)
  <2> HIDE DEF I, J
  <2>1. Cardinality(DOMAIN batch) = Cardinality(I) + Cardinality(J) - Cardinality({})
    BY <1>5, FS_Union
  <2>2. Cardinality({}) = 0
    BY FS_EmptySet
  <2> QED
    BY <1>4, <1>5, <2>1, <2>2
<1>7. IsFiniteSet(late) /\ Cardinality(late) = Cardinality(J)
  <2> DEFINE f == [i \in J |-> batch[i]]
  <2>1. f \in [J -> late]
    OBVIOUS
  <2>2. \A x, y \in J : f[x] = f[y] => x = y
    BY DEF PoolFacts, PoolInv, BatchInv, Clean, OneToOne
  <2>3. \A t \in late : \E x \in J : f[x] = t
    BY DEF InBatch
  <2> HIDE DEF f, J
  <2> QED
    BY <1>5, <2>1, <2>2, <2>3, ImageSize
<1>8. /\ valid \in Seq(Nat) /\ Len(valid) = Cardinality(I) /\ OneToOne(valid)
      /\ \A b \in DOMAIN valid : valid[b] \in I
  <2> HIDE DEF I
  <2>1. valid \in [1..Cardinality(I) -> I]
        /\ \A i, k \in 1..Cardinality(I) : i < k => valid[i] < valid[k]
    BY <1>3 DEF Increasing
  <2> DEFINE n == Cardinality(I)
  <2>2. valid \in Seq(Nat) /\ Len(valid) = n /\ DOMAIN valid = 1..n
    <3>1. n \in Nat /\ valid \in [1..n -> Nat]
      BY <1>5, <2>1
    <3> HIDE DEF n
    <3> QED
      BY <3>1
  <2>3. ASSUME NEW i \in DOMAIN valid, NEW k \in DOMAIN valid, valid[i] = valid[k]
        PROVE  i = k
    <3>1. ~(i < k) /\ ~(k < i) /\ i \in Nat /\ k \in Nat
      BY <1>5, <2>1, <2>2, <2>3
    <3> QED
      BY <3>1
  <2> QED
    BY <2>1, <2>2, <2>3 DEF OneToOne
<1>9. OnlyWorker(w)
  BY <1>0, <1>1, <1>3 DEF OnlyWorker
<1>10. late \in SUBSET (InBatch(w) \cap Requests) /\ \A r \in late : ~promise[r].set
  <2>0. Clean(local[w]) /\ Awaits(wpc[w], local[w]) = InBatch(w)
    BY <1>1 DEF PoolFacts, PoolInv, BatchInv, Awaits, InBatch, BatchOf
  <2>1. InBatch(w) \subseteq Item /\ Pill \notin InBatch(w)
    BY <1>0, <1>4, <2>0 DEF InBatch, Clean, BatchOf
  <2>2. \A r \in InBatch(w) \cap Requests : ~promise[r].set
    BY <2>0 DEF PoolFacts, PoolInv, UnsetInv
  <2> QED
    BY <2>1, <2>2 DEF Item
<1>11. \A r \in Requests : promise'[r] = IF r \in late THEN Stale ELSE promise[r]
  <2> DEFINE result == [r \in late |-> Stale]
  <2>1. DOMAIN result = late /\ \A r \in late : result[r] = Stale
    OBVIOUS
  <2>2. Fulfil(result)
    BY <1>2
  <2> HIDE DEF result
  <2>3. ASSUME NEW r \in Requests
        PROVE  promise'[r] = IF r \in DOMAIN result /\ ~promise[r].set THEN result[r] ELSE promise[r]
    BY <2>2, Zenon DEF Fulfil
  <2> QED
    BY <1>10, <2>1, <2>3
<1>12. CASE valid = <<>> /\ wpc' = [wpc EXCEPT ![w] = "pop"]
            /\ local' = [local EXCEPT ![w] = NoBatch]
  <2>1. wpc'[w] = "pop" /\ local'[w] = NoBatch /\ local'[w].valid = valid
    BY <1>0, <1>12 DEF NoBatch
  <2>2. Awaits(wpc'[w], local'[w]) = {} /\ Clean(local'[w])
    BY <2>1, CleanNone DEF Awaits
  <2> HIDE DEF I, J
  <2> QED
    BY <1>1, <1>6, <1>7, <1>8, <1>9, <1>10, <1>11, <2>1, <2>2
<1>13. CASE wpc' = [wpc EXCEPT ![w] = "run"] /\ local' = [local EXCEPT ![w].valid = valid]
  <2>1. wpc'[w] = "run" /\ local'[w].valid = valid /\ local'[w].batch = batch
    BY <1>0, <1>13 DEF Batch
  <2>2. RowsIn(local'[w]) \subseteq InBatch(w) \ late
    BY <1>8, <2>1 DEF RowsIn, InBatch
  <2>3. Awaits(wpc'[w], local'[w]) \subseteq InBatch(w) \ late
    BY <2>1, <2>2 DEF Awaits
  <2>4. Clean(local'[w])
    <3>1. Clean(local[w])
      BY DEF PoolFacts, PoolInv, BatchInv
    <3> QED
      BY <1>8, <2>1, <3>1 DEF Clean, BatchOf
  <2> HIDE DEF I, J
  <2> QED
    BY <1>1, <1>6, <1>7, <1>8, <1>9, <1>10, <1>11, <2>1, <2>3, <2>4
<1> QED
  BY <1>3, <1>12, <1>13

\* What is delivered is the result of each row, for requests that had none.
LEMMA DeliverSplits ==
  ASSUME PoolFacts, NEW w \in Workers, Deliver(w)
  PROVE  /\ OnlyWorker(w) /\ local'[w] = NoBatch
         /\ Awaits(wpc[w], local[w]) = RowsIn(local[w]) /\ Awaits(wpc'[w], local'[w]) = {}
         /\ RowsIn(local[w]) \in SUBSET Requests
         /\ IsFiniteSet(RowsIn(local[w]))
         /\ Cardinality(RowsIn(local[w])) = Len(local[w].valid)
         /\ \A r \in Requests : IF r \in RowsIn(local[w])
                                THEN ~promise[r].set /\ promise'[r].set /\ ~promise'[r].stale
                                ELSE promise'[r] = promise[r]
<1> DEFINE batch == local[w].batch
           valid == local[w].valid
           R == RowsIn(local[w])
<1>0. /\ local \in [Workers -> Batch] /\ batch \in Seq(Item) /\ valid \in Seq(Nat)
      /\ Clean(local[w])
  BY Types DEF PoolFacts, PoolInv, EngineInv, Batch, BatchInv
<1>1. /\ EngineInv /\ OnlyWorker(w) /\ wpc[w] = "deliver" /\ wpc'[w] = "pop"
      /\ R \subseteq InBatch(w)
      /\ \A r \in Requests : IF r \in R /\ ~promise[r].set
                             THEN promise'[r].set /\ ~promise'[r].stale
                             ELSE promise'[r] = promise[r]
  BY DeliverFacts DEF PoolFacts, RowSet, RowsIn
<1>2. local'[w] = NoBatch
  BY <1>0 DEF Deliver
<1>3. Awaits(wpc[w], local[w]) = R /\ Awaits(wpc'[w], local'[w]) = {}
  BY <1>1 DEF Awaits
<1>4. \A r \in Requests : r \in R => ~promise[r].set
  BY <1>3 DEF PoolFacts, PoolInv, UnsetInv
<1>5. R \in SUBSET Requests
  <2>1. InBatch(w) \subseteq Item /\ Pill \notin InBatch(w)
    BY <1>0 DEF InBatch, Clean, BatchOf
  <2> QED
    BY <1>1, <2>1 DEF Item
<1>6. IsFiniteSet(R) /\ Cardinality(R) = Len(valid)
  <2> DEFINE f == [b \in DOMAIN valid |-> batch[valid[b]]]
  <2>1. f \in [DOMAIN valid -> R] /\ \A t \in R : \E b \in DOMAIN valid : f[b] = t
    BY Zenon DEF RowsIn
  <2>2. \A b \in DOMAIN valid : valid[b] \in DOMAIN batch
    BY <1>1 DEF EngineInv, RowsInv
  <2>3. \A x, y \in DOMAIN valid : f[x] = f[y] => x = y
    BY <1>0, <2>2 DEF Clean, OneToOne
  <2>4. IsFiniteSet(DOMAIN valid) /\ Cardinality(DOMAIN valid) = Len(valid)
    BY <1>0, SequenceSize
  <2> HIDE DEF f, R, valid
  <2> QED
    BY <2>1, <2>3, <2>4, ImageSize
<1> QED
  BY <1>1, <1>2, <1>3, <1>4, <1>5, <1>6

\* What is taken off the queue is decided by nobody else.
LEMMA PopSplits ==
  ASSUME PoolFacts, NEW w \in Workers, PopBatch(w)
  PROVE  /\ Queued' \subseteq Queued /\ UNCHANGED <<phase, promise>>
         /\ \A x \in Workers \ {w} : wpc'[x] = wpc[x] /\ local'[x] = local[x]
         /\ Clean(local'[w]) /\ local'[w].valid = local[w].valid
         /\ Awaits(wpc'[w], local'[w]) \subseteq Queued
<1> DEFINE n == IF Len(queue) < BatchSize THEN Len(queue) ELSE BatchSize
           batch == SubSeq(queue, 1, n)
           B == {batch[i] : i \in DOMAIN batch}
<1>0. /\ EngineInv /\ queue \in Seq(Item) /\ Len(queue) \in Nat /\ local \in [Workers -> Batch]
      /\ wpc \in [Workers -> {"pop", "filter", "run", "deliver", "stopped"}]
      /\ Clean(local[w])
  BY Types DEF PoolFacts, PoolInv, BatchInv, EngineInv
<1>1. n \in Nat /\ n <= Len(queue) /\ 1 <= n
  BY <1>0, EngineAssumption, SMT DEF PopBatch
<1>2. TakeBatch(w, n)
  BY DEF PopBatch
<1> HIDE DEF n
<1>3. /\ \A i \in DOMAIN batch : i \in DOMAIN queue /\ batch[i] = queue[i]
      /\ 1 \in DOMAIN batch
  <2>1. 1 \in DOMAIN batch
    BY <1>0, <1>1
  <2> QED
    BY <1>0, <1>1, <2>1, SplitQueue
<1>4. \/ wpc' = [wpc EXCEPT ![w] = "stopped"] /\ local' = local
      \/ /\ batch[1] # Pill /\ wpc' = [wpc EXCEPT ![w] = "filter"]
         /\ local' = [local EXCEPT ![w].batch = batch]
  BY <1>2, Zenon DEF TakeBatch
<1>5. phase \in {"serving", "stopping"}
  BY DEF PopBatch, At
<1> HIDE DEF batch
<1>6. B \subseteq Queued
  BY <1>3, Zenon DEF Queued
<1>7. CASE wpc' = [wpc EXCEPT ![w] = "stopped"] /\ local' = local
  <2>1. Awaits(wpc'[w], local'[w]) = {} /\ local'[w] = local[w]
    BY <1>0, <1>7 DEF Awaits
  <2> QED
    BY <1>0, <2>1, PopFacts
<1>8. CASE /\ batch[1] # Pill /\ wpc' = [wpc EXCEPT ![w] = "filter"]
           /\ local' = [local EXCEPT ![w].batch = batch]
  <2>1. wpc'[w] = "filter" /\ local'[w].batch = batch /\ local'[w].valid = local[w].valid
    BY <1>0, <1>8 DEF Batch
  <2>2. Pill \notin Queued
    <3>1. batch[1] \in Queued
      BY <1>3, <1>6
    <3> QED
      BY <1>5, <1>8, <3>1 DEF PoolFacts, PillInv, PoolInv, PillsOnly
  <2>3. OneToOne(batch)
    <3>1. \A i, k \in DOMAIN queue : queue[i] = queue[k] => i = k
      BY <2>2 DEF PoolFacts, TakenInv, TakenOnce, Queued
    <3> QED
      BY <1>3, <3>1 DEF OneToOne
  <2>4. BatchOf(local'[w]) = B
    BY <2>1 DEF BatchOf
  <2>5. Clean(local'[w])
    BY <1>0, <1>6, <2>1, <2>2, <2>3, <2>4 DEF Clean
  <2>6. Awaits(wpc'[w], local'[w]) \subseteq Queued
    BY <1>6, <2>1, <2>4 DEF Awaits
  <2> QED
    BY <1>0, <2>1, <2>5, <2>6, PopFacts
<1> QED
  BY <1>4, <1>7, <1>8

-----------------------------------------------------------------------------
(* The steps of the pool                                                   *)

\* A worker that decides requests of its batch, and leaves with requests that
\* nobody has decided.
LEMMA WorkerPool ==
  ASSUME PoolFacts, NEW w \in Workers, UNCHANGED phase, Queued' \subseteq Queued,
         \A x \in Workers \ {w} : wpc'[x] = wpc[x] /\ local'[x] = local[x],
         Clean(local'[w]),
         \A r \in Requests : promise'[r] = promise[r] \/ r \in InBatch(w),
         \A r \in Requests : r \in Awaits(wpc'[w], local'[w]) => ~promise'[r].set
  PROVE  PoolInv'
<1>1. PillsOnly'
  BY DEF PoolFacts, PoolInv, PillsOnly
<1>2. BatchInv'
  BY DEF PoolFacts, PoolInv, BatchInv
<1>3. ASSUME NEW x \in Workers, NEW r \in Requests, r \in Awaits(wpc'[x], local'[x])
      PROVE  ~promise'[r].set
  <2>1. CASE x = w
    BY <1>3, <2>1
  <2>2. CASE x # w
    <3>1. r \in Awaits(wpc[x], local[x])
      BY <1>3, <2>2
    <3>2. r \in InBatch(x) /\ ~promise[r].set
      BY <3>1, AwaitsBatch DEF PoolFacts, PoolInv, UnsetInv
    <3>3. r \notin InBatch(w)
      BY <2>2, <3>2, EngineAssumption DEF PoolFacts, TakenInv, TakenOnce
    <3> QED
      BY <3>2, <3>3
  <2> QED
    BY <2>1, <2>2
<1>4. UnsetInv'
  BY <1>3 DEF UnsetInv
<1> QED
  BY <1>1, <1>2, <1>4 DEF PoolInv

\* A call decides nothing, and only pushes its own request.
LEMMA CallPool ==
  ASSUME PoolFacts, NEW r \in Requests, Call(r)
  PROVE  PoolInv'
<1>1. UNCHANGED <<promise, wpc, local>>
  BY Zenon DEF Call, Reject, Admit, Push, Answer, AnswerStale, Timeout, Unavailable, pool
<1>2. PillsOnly'
  <2>1. CASE Push(r)
    BY <2>1 DEF Push, PillsOnly
  <2>2. CASE Reject(r) \/ Admit(r) \/ Answer(r) \/ AnswerStale(r) \/ Timeout(r) \/ Unavailable(r)
    <3>1. queue' = queue /\ (phase' = phase \/ phase' = "crashed")
      BY <2>2, Zenon DEF Reject, Admit, Answer, AnswerStale, Timeout, Unavailable
    <3> QED
      BY <3>1 DEF PoolFacts, PoolInv, PillsOnly, Queued
  <2> QED
    BY <2>1, <2>2 DEF Call
<1> QED
  BY <1>1, <1>2 DEF PoolFacts, PoolInv, BatchInv, UnsetInv

LEMMA WorkPool ==
  ASSUME PoolFacts, NEW w \in Workers, Work(w)
  PROVE  PoolInv'
<1>0. /\ local \in [Workers -> Batch] /\ Clean(local[w]) /\ EngineInv
      /\ wpc \in [Workers -> {"pop", "filter", "run", "deliver", "stopped"}]
  BY Types DEF PoolFacts, PoolInv, BatchInv, EngineInv
<1>1. CASE PopBatch(w)
  <2>1. \A r \in Requests : r \in Awaits(wpc'[w], local'[w]) => ~promise'[r].set
    BY <1>1, PopSplits DEF PoolFacts, DecidedInv
  <2> QED
    BY <1>1, <2>1, PopSplits, WorkerPool
<1>2. CASE Filter(w)
  <2>1. PICK late \in SUBSET (InBatch(w) \cap Requests) :
          /\ \A r \in Requests : promise'[r] = IF r \in late THEN Stale ELSE promise[r]
          /\ Awaits(wpc'[w], local'[w]) \subseteq InBatch(w) \ late
    BY <1>2, FilterSplits
  <2>2. /\ OnlyWorker(w) /\ Clean(local'[w])
        /\ Awaits(wpc[w], local[w]) = InBatch(w)
    BY <1>2, FilterSplits DEF Awaits, InBatch, BatchOf
  <2>3. \A r \in Requests : r \in InBatch(w) => ~promise[r].set
    BY <2>2 DEF PoolFacts, PoolInv, UnsetInv
  <2>4. \A r \in Requests : r \in Awaits(wpc'[w], local'[w]) => ~promise'[r].set
    BY <2>1, <2>3
  <2>5. \A r \in Requests : promise'[r] = promise[r] \/ r \in InBatch(w)
    BY <2>1
  <2>6. UNCHANGED phase /\ Queued' \subseteq Queued
        /\ \A x \in Workers \ {w} : wpc'[x] = wpc[x] /\ local'[x] = local[x]
    BY <2>2 DEF OnlyWorker, Queued
  <2> QED
    BY <2>2, <2>4, <2>5, <2>6, WorkerPool
<1>3. CASE Deliver(w)
  <2>1. /\ OnlyWorker(w) /\ local'[w] = NoBatch /\ Awaits(wpc'[w], local'[w]) = {}
        /\ \A r \in Requests : promise'[r] = promise[r] \/ r \in RowsIn(local[w])
    BY <1>3, DeliverSplits
  <2>2. RowsIn(local[w]) \subseteq InBatch(w)
    BY <1>0, <1>3, DeliverSplits, AwaitsBatch
  <2>3. UNCHANGED phase /\ Queued' \subseteq Queued
        /\ \A x \in Workers \ {w} : wpc'[x] = wpc[x] /\ local'[x] = local[x]
    BY <2>1 DEF OnlyWorker, Queued
  <2> QED
    BY <2>1, <2>2, <2>3, CleanNone, WorkerPool
<1>4. CASE Run(w) \/ Fail(w)
  <2>1. /\ UNCHANGED <<phase, promise, queue>>
        /\ \A x \in Workers \ {w} : wpc'[x] = wpc[x] /\ local'[x] = local[x]
    BY <1>0, <1>4 DEF Run, Fail
  <2>2. Clean(local'[w]) /\ Awaits(wpc'[w], local'[w]) \subseteq Awaits(wpc[w], local[w])
    <3>1. CASE Run(w)
      <4>1. /\ local'[w].batch = local[w].batch /\ local'[w].valid = local[w].valid
            /\ wpc[w] = "run" /\ wpc'[w] = "deliver"
        BY <1>0, <3>1 DEF Run, At, Batch
      <4> QED
        BY <1>0, <4>1 DEF Clean, BatchOf, Awaits, RowsIn
    <3>2. CASE Fail(w)
      <4>1. local'[w] = NoBatch /\ wpc'[w] = "pop"
        BY <1>0, <3>2 DEF Fail
      <4> QED
        BY <4>1, CleanNone DEF Awaits
    <3> QED
      BY <1>4, <3>1, <3>2
  <2>3. \A r \in Requests : r \in Awaits(wpc'[w], local'[w]) => ~promise'[r].set
    BY <2>1, <2>2 DEF PoolFacts, PoolInv, UnsetInv
  <2>4. Queued' \subseteq Queued
    BY <2>1 DEF Queued
  <2> QED
    BY <2>1, <2>2, <2>3, <2>4, WorkerPool
<1>5. CASE PopNothing(w)
  BY <1>5 DEF PopNothing, vars, pool, PoolFacts, PoolInv, PillsOnly, BatchInv, UnsetInv, Queued
<1> QED
  BY <1>1, <1>2, <1>3, <1>4, <1>5 DEF Work

LEMMA NextPool == PoolFacts /\ [Next]_vars => PoolInv'
<1> SUFFICES ASSUME PoolFacts, [Next]_vars PROVE PoolInv'
  OBVIOUS
<1>1. CASE PushPill
  <2>1. UNCHANGED <<promise, wpc, local>> /\ queue' = Append(queue, Pill)
    BY <1>1 DEF PushPill, pool
  <2>2. Queued' = Queued \cup {Pill} /\ phase' = phase
    <3>1. queue \in Seq(Item) /\ Pill \in Item
      BY Types DEF PoolFacts, EngineInv, Item
    <3> QED
      BY <1>1, <2>1, <3>1, AppendQueued DEF PushPill
  <2> QED
    BY <2>1, <2>2 DEF PoolFacts, PoolInv, PillsOnly, BatchInv, UnsetInv
<1>2. CASE Join \/ Gone \/ UNCHANGED vars
  <2>1. UNCHANGED <<promise, wpc, local, queue>> /\ (phase' = "stopping" => phase = "stopping")
    BY <1>2 DEF Join, Gone, vars, pool
  <2> QED
    BY <2>1 DEF PoolFacts, PoolInv, PillsOnly, BatchInv, UnsetInv, Queued
<1> QED
  BY <1>1, <1>2, CallPool, WorkPool DEF Next

LEMMA PoolInvariant == Spec => []PoolFacts
<1>1. Init => PoolInv
  <2> SUFFICES ASSUME Init PROVE PoolInv
    OBVIOUS
  <2>1. Queued = {}
    <3>1. DOMAIN queue = {}
      BY SMT DEF Init
    <3> QED
      BY <3>1, Zenon DEF Queued
  <2>2. \A w \in Workers : local[w] = NoBatch /\ wpc[w] = "pop"
    BY DEF Init
  <2> QED
    BY <2>1, <2>2, CleanNone DEF PoolInv, PillsOnly, BatchInv, UnsetInv, Awaits
<1>2. ServiceInv /\ PoolInv => PoolFacts
  BY DEF ServiceInv, PoolFacts
<1> QED
  BY <1>1, <1>2, NextPool, ServiceInvariant, PTL DEF Spec

-----------------------------------------------------------------------------
(* Who is abandoned                                                        *)

\* A worker has a batch from when it takes one to when it is done with it.
HoldInv == \A w \in Workers :
    /\ wpc[w] = "pop" => local[w].batch = <<>>
    /\ wpc[w] \in {"filter", "run", "deliver"} => Len(local[w].batch) # 0

HoldFacts == PoolFacts /\ CoverInv /\ HoldInv

\* The queue is what a batch takes and what it leaves.
LEMMA PopTakes ==
  ASSUME HoldFacts, NEW w \in Workers, PopBatch(w)
  PROVE  \/ wpc'[w] = "stopped" /\ Queued \subseteq {Pill}
         \/ /\ wpc'[w] = "filter" /\ Len(local'[w].batch) # 0
            /\ Queued \subseteq Queued' \cup InBatch(w)'
<1> DEFINE n == IF Len(queue) < BatchSize THEN Len(queue) ELSE BatchSize
           batch == SubSeq(queue, 1, n)
           tail == SubSeq(queue, n + 1, Len(queue))
<1>0. /\ EngineInv /\ queue \in Seq(Item) /\ Len(queue) \in Nat /\ local \in [Workers -> Batch]
      /\ wpc \in [Workers -> {"pop", "filter", "run", "deliver", "stopped"}]
  BY Types DEF HoldFacts, PoolFacts, EngineInv
<1>1. n \in Nat /\ n <= Len(queue) /\ 1 <= n
  BY <1>0, EngineAssumption, SMT DEF PopBatch
<1>2. TakeBatch(w, n) /\ phase \in {"serving", "stopping"}
  BY DEF PopBatch, At
<1> HIDE DEF n
<1>3. queue' = tail
      /\ IF batch[1] = Pill
         THEN wpc' = [wpc EXCEPT ![w] = "stopped"]
         ELSE /\ wpc' = [wpc EXCEPT ![w] = "filter"]
              /\ local' = [local EXCEPT ![w].batch = batch]
  BY <1>2, Zenon DEF TakeBatch
<1>4. 1 \in DOMAIN batch /\ Len(batch) # 0 /\ batch[1] = queue[1] /\ 1 \in DOMAIN queue
  BY <1>0, <1>1
<1>5. \A i \in DOMAIN queue : \/ i \in DOMAIN batch /\ batch[i] = queue[i]
                              \/ i - n \in DOMAIN tail /\ tail[i - n] = queue[i]
  BY <1>0, <1>1
<1> HIDE DEF batch, tail
<1>6. CASE batch[1] = Pill
  <2>1. Pill \in Queued
    BY <1>4, <1>6 DEF Queued
  <2>2. Queued \subseteq {Pill}
    BY <1>2, <2>1 DEF HoldFacts, PoolFacts, PillInv, PoolInv, PillsOnly
  <2> QED
    BY <1>0, <1>3, <1>6, <2>2
<1>7. CASE batch[1] # Pill
  <2>1. wpc'[w] = "filter" /\ local'[w].batch = batch
    BY <1>0, <1>3, <1>7 DEF Batch
  <2>2. Queued \subseteq Queued' \cup InBatch(w)'
    <3>1. ASSUME NEW i \in DOMAIN queue PROVE queue[i] \in Queued' \cup InBatch(w)'
      <4>1. CASE i \in DOMAIN batch /\ batch[i] = queue[i]
        BY <2>1, <4>1, Zenon DEF InBatch
      <4>2. CASE i - n \in DOMAIN tail /\ tail[i - n] = queue[i]
        BY <1>3, <4>2, Zenon DEF Queued
      <4> QED
        BY <1>5, <4>1, <4>2
    <3> QED
      BY <3>1 DEF Queued
  <2> QED
    BY <1>4, <2>1, <2>2
<1> QED
  BY <1>6, <1>7

LEMMA NextHold == HoldFacts /\ [Next]_vars => HoldInv'
<1> SUFFICES ASSUME HoldFacts, [Next]_vars PROVE HoldInv'
  OBVIOUS
<1>0. /\ EngineInv /\ local \in [Workers -> Batch]
      /\ wpc \in [Workers -> {"pop", "filter", "run", "deliver", "stopped"}]
  BY Types DEF HoldFacts, PoolFacts, EngineInv
<1>1. CASE UNCHANGED <<wpc, local>>
  BY <1>1 DEF HoldFacts, HoldInv
<1>2. ASSUME NEW r \in Requests, Call(r) PROVE HoldInv'
  BY <1>1, <1>2, Zenon DEF Call, Reject, Admit, Push, Answer, AnswerStale, Timeout, Unavailable, pool
<1>3. ASSUME NEW w \in Workers,
             \A x \in Workers \ {w} : wpc'[x] = wpc[x] /\ local'[x] = local[x],
             \/ wpc'[w] = "pop" /\ local'[w].batch = <<>>
             \/ wpc'[w] = "stopped"
             \/ wpc'[w] # "pop" /\ Len(local'[w].batch) # 0
      PROVE  HoldInv'
  BY <1>3 DEF HoldFacts, HoldInv
<1>4. ASSUME NEW w \in Workers, Work(w) PROVE HoldInv'
  <2>1. CASE PopBatch(w)
    <3>1. \A x \in Workers \ {w} : wpc'[x] = wpc[x] /\ local'[x] = local[x]
      BY <1>0, <2>1, PopFacts
    <3> QED
      BY <1>3, <2>1, <3>1, PopTakes
  <2>2. CASE Filter(w)
    <3>1. OnlyWorker(w) /\ \/ wpc'[w] = "pop" /\ local'[w].batch = <<>>
                           \/ wpc'[w] = "run" /\ local'[w].batch = local[w].batch
      BY <1>0, <2>2, FilterFacts
    <3>2. wpc[w] = "filter"
      BY <2>2 DEF Filter, At
    <3>3. Len(local[w].batch) # 0
      BY <3>2 DEF HoldFacts, HoldInv
    <3> QED
      BY <1>3, <3>1, <3>3 DEF OnlyWorker
  <2>3. CASE Run(w)
    <3>1. /\ wpc[w] = "run" /\ wpc'[w] = "deliver" /\ local'[w].batch = local[w].batch
          /\ \A x \in Workers \ {w} : wpc'[x] = wpc[x] /\ local'[x] = local[x]
      BY <1>0, <2>3 DEF Run, At, Batch
    <3>2. Len(local[w].batch) # 0
      BY <3>1 DEF HoldFacts, HoldInv
    <3> QED
      BY <1>3, <3>1, <3>2
  <2>4. CASE Fail(w) \/ Deliver(w)
    <3>1. wpc' = [wpc EXCEPT ![w] = "pop"] /\ local' = [local EXCEPT ![w] = NoBatch]
      BY <2>4 DEF Fail, Deliver
    <3>2. /\ wpc'[w] = "pop" /\ local'[w] = NoBatch
          /\ \A x \in Workers \ {w} : wpc'[x] = wpc[x] /\ local'[x] = local[x]
      BY <1>0, <3>1
    <3> QED
      BY <1>3, <3>2 DEF NoBatch
  <2>5. CASE PopNothing(w)
    BY <1>1, <2>5 DEF PopNothing, vars, pool
  <2> QED
    BY <1>4, <2>1, <2>2, <2>3, <2>4, <2>5 DEF Work
<1>5. CASE PushPill \/ Join \/ Gone \/ UNCHANGED vars
  BY <1>1, <1>5 DEF PushPill, Join, Gone, vars, pool
<1> QED
  BY <1>2, <1>4, <1>5 DEF Next

LEMMA HoldInvariant == Spec => []HoldFacts
<1>1. Init => HoldInv
  BY DEF Init, HoldInv, NoBatch
<1>2. ServiceInv => CoverInv
  BY DEF ServiceInv
<1> QED
  BY <1>1, <1>2, NextHold, PoolInvariant, ServiceInvariant, PTL DEF Spec, HoldFacts

\* A request that waits for its result, and a step after which nobody has it.
LEMMA AbandonedBy ==
  ASSUME HoldFacts, [Next]_vars, NEW r \in Requests, Abandoned(r)', ~Abandoned(r)
  PROVE  \E w \in Workers : Fail(w) /\ r \in InBatch(w)
<1>0. /\ EngineInv /\ local \in [Workers -> Batch] /\ r # Pill /\ Pill \in Item /\ r \in Item
      /\ queue \in Seq(Item) /\ handler \in [Requests -> {"new", "admitted", "waiting", "done"}]
      /\ wpc \in [Workers -> {"pop", "filter", "run", "deliver", "stopped"}]
  BY Types, EngineAssumption DEF HoldFacts, PoolFacts, EngineInv, Item
<1>1. /\ handler'[r] = "waiting" /\ ~promise'[r].set /\ r \notin Queued'
      /\ \A w \in Workers : r \notin InBatch(w)'
  BY DEF Abandoned
<1>2. \/ handler[r] # "waiting" \/ promise[r].set \/ r \in Queued
      \/ \E w \in Workers : r \in InBatch(w)
  BY DEF Abandoned
<1>3. ASSUME UNCHANGED <<handler, promise, local>>, Queued \subseteq Queued' PROVE FALSE
  <2>1. \A w \in Workers : InBatch(w)' = InBatch(w)
    BY <1>3 DEF InBatch
  <2> QED
    BY <1>1, <1>2, <1>3, <2>1
<1>4. ASSUME NEW x \in Requests, Call(x) PROVE FALSE
  <2>1. UNCHANGED <<promise, local>>
    BY <1>4, Zenon DEF Call, Reject, Admit, Push, Answer, AnswerStale, Timeout, Unavailable, pool
  <2>2. \A w \in Workers : InBatch(w)' = InBatch(w)
    BY <2>1 DEF InBatch
  <2>3. CASE Push(x)
    <3>1. handler' = [handler EXCEPT ![x] = "waiting"] /\ queue' = Append(queue, x) /\ x \in Item
      BY <2>3 DEF Push, Item
    <3>2. Queued' = Queued \cup {x}
      BY <1>0, <3>1, AppendQueued
    <3>3. x # r
      BY <1>1, <3>2
    <3>4. handler'[r] = handler[r]
      BY <1>0, <3>1, <3>3
    <3> QED
      BY <1>1, <1>2, <2>1, <2>2, <3>2, <3>4
  <2>4. CASE Reject(x) \/ Admit(x) \/ Answer(x) \/ AnswerStale(x) \/ Timeout(x) \/ Unavailable(x)
    <3>1. queue' = queue /\ \E step \in {"admitted", "done"} :
                              handler' = [handler EXCEPT ![x] = step]
      BY <2>4, Zenon DEF Reject, Admit, Answer, AnswerStale, Timeout, Unavailable, Done
    <3>2. handler'[r] = handler[r]
      BY <1>0, <1>1, <3>1
    <3>3. Queued' = Queued
      BY <3>1 DEF Queued
    <3> QED
      BY <1>1, <1>2, <2>1, <2>2, <3>2, <3>3
  <2> QED
    BY <1>4, <2>3, <2>4 DEF Call
\* A worker that keeps the results there are, and the requests of others.
<1>5. ASSUME NEW w \in Workers, handler' = handler,
             promise[r].set => promise'[r].set,
             \A x \in Workers \ {w} : local'[x] = local[x],
             r \in Queued => r \in Queued' \cup InBatch(w)'
      PROVE  r \in InBatch(w) /\ r \notin InBatch(w)'
  <2>1. \A x \in Workers \ {w} : InBatch(x)' = InBatch(x)
    BY <1>5 DEF InBatch
  <2> QED
    BY <1>1, <1>2, <1>5, <2>1
<1>6. ASSUME NEW w \in Workers, Work(w), ~Fail(w) PROVE FALSE
  <2>1. CASE PopBatch(w)
    <3>1. InBatch(w) = {}
      <4>1. wpc[w] = "pop"
        BY <2>1 DEF PopBatch, At
      <4>2. DOMAIN local[w].batch = {}
        BY <4>1, SMT DEF HoldFacts, HoldInv
      <4> QED
        BY <4>2, Zenon DEF InBatch
    <3>2. /\ UNCHANGED <<handler, promise>> /\ \A x \in Workers \ {w} : local'[x] = local[x]
      BY <1>0, <2>1, PopFacts
    <3>3. r \in Queued => r \in Queued' \cup InBatch(w)'
      BY <1>0, <2>1, PopTakes
    <3> QED
      BY <1>5, <3>1, <3>2, <3>3
  <2>2. CASE Filter(w)
    <3>1. PICK late \in SUBSET InBatch(w) :
            /\ \A q \in Requests :
                 promise'[q] = IF q \in late /\ ~promise[q].set THEN Stale ELSE promise[q]
            /\ \/ wpc'[w] = "pop" /\ local'[w].batch = <<>> /\ InBatch(w) \subseteq late
               \/ wpc'[w] = "run" /\ local'[w].batch = local[w].batch
      BY <1>0, <2>2, FilterFacts
    <3>2. OnlyWorker(w)
      BY <1>0, <2>2, FilterFacts
    <3>3. promise[r].set \/ r \in late => promise'[r].set
      BY <3>1 DEF Stale
    <3>4. local'[w].batch = local[w].batch => InBatch(w)' = InBatch(w)
      BY DEF InBatch
    <3>5. handler' = handler /\ Queued' = Queued /\ \A x \in Workers \ {w} : local'[x] = local[x]
      BY <3>2 DEF OnlyWorker, Queued
    <3>6. r \in InBatch(w) /\ r \notin InBatch(w)'
      BY <1>5, <3>3, <3>5
    <3> QED
      BY <1>1, <3>1, <3>3, <3>4, <3>6
  <2>3. CASE Run(w)
    <3>1. /\ UNCHANGED <<handler, promise, queue>> /\ local'[w].batch = local[w].batch
          /\ \A x \in Workers \ {w} : local'[x] = local[x]
      BY <1>0, <2>3 DEF Run, Batch, calls
    <3>2. InBatch(w)' = InBatch(w) /\ Queued' = Queued
      BY <3>1 DEF InBatch, Queued
    <3> QED
      BY <1>5, <3>1, <3>2
  <2>4. CASE Deliver(w)
    <3>1. /\ OnlyWorker(w) /\ wpc[w] = "deliver"
          /\ IF r \in RowSet(w) /\ ~promise[r].set
             THEN promise'[r].set ELSE promise'[r] = promise[r]
      BY <1>0, <2>4, DeliverFacts
    <3>2. handler' = handler /\ Queued' = Queued /\ \A x \in Workers \ {w} : local'[x] = local[x]
      BY <3>1 DEF OnlyWorker, Queued
    <3>3. r \in InBatch(w)
      BY <1>5, <3>1, <3>2
    <3>4. ~promise[r].set => r \in RowSet(w)
      BY <3>1, <3>3, Zenon DEF HoldFacts, CoverInv, Covered, RowSet
    <3> QED
      BY <1>1, <3>1, <3>4
  <2>5. CASE PopNothing(w)
    <3>1. UNCHANGED <<handler, promise, local>> /\ Queued' = Queued
      BY <2>5 DEF PopNothing, vars, calls, pool, Queued
    <3> QED
      BY <1>3, <3>1
  <2> QED
    BY <1>6, <2>1, <2>2, <2>3, <2>4, <2>5 DEF Work
<1>7. ASSUME NEW w \in Workers, Fail(w) PROVE r \in InBatch(w)
  <2>1. /\ UNCHANGED <<handler, promise, queue>>
        /\ \A x \in Workers \ {w} : local'[x] = local[x]
    BY <1>0, <1>7 DEF Fail, calls
  <2>2. Queued' = Queued
    BY <2>1 DEF Queued
  <2> QED
    BY <1>5, <2>1, <2>2
<1>8. CASE PushPill \/ Join \/ Gone \/ UNCHANGED vars
  <2>1. UNCHANGED <<handler, promise, local>>
    BY <1>8 DEF PushPill, Join, Gone, vars, calls, pool
  <2>2. Queued \subseteq Queued'
    <3>1. CASE PushPill
      BY <1>0, <3>1, AppendQueued DEF PushPill
    <3>2. CASE Join \/ Gone \/ UNCHANGED vars
      BY <3>2 DEF Join, Gone, vars, Queued
    <3> QED
      BY <1>8, <3>1, <3>2
  <2> QED
    BY <1>3, <2>1, <2>2
<1> QED
  BY <1>4, <1>6, <1>7, <1>8 DEF Next

\* However the batches are cut, filtered and delivered, and whatever else the
\* handlers, the other workers and the destructor do, only a batch that fails
\* leaves a request to its handler's timeout (thread_pool.hpp:172).
THEOREM OnlyFailures == Spec => OnlyFailedBatchAbandons
<1>1. HoldFacts /\ [Next]_vars =>
        [\A r \in Requests : Abandoned(r)' /\ ~Abandoned(r) =>
            \E w \in Workers : Fail(w) /\ r \in InBatch(w)]_vars
  BY AbandonedBy
<1> QED
  BY <1>1, HoldInvariant, PTL DEF Spec, OnlyFailedBatchAbandons

NoneAbandoned == \A r \in Requests : ~Abandoned(r)

\* While every client asks for a model that is loaded and the model does not
\* throw, no request is abandoned: what testing.py:35 expects is broken by
\* those two and by nothing else.
THEOREM ServedUnlessFailed ==
  ASSUME ~RunMayFail, \A r \in Requests : ModelOf[r] \in Loaded
  PROVE  Spec => []LoadedIsServed
<1>1. ASSUME HoldFacts, NEW w \in Workers PROVE ~Fail(w)
  <2> SUFFICES ASSUME At(w, "run") PROVE HeadModel(w) \in Loaded
    BY DEF Fail
  <2>1. Len(local[w].batch) # 0 /\ local[w].batch \in Seq(Item)
    BY <1>1, Types DEF At, HoldFacts, HoldInv, PoolFacts, EngineInv, Batch
  <2>2. 1 \in DOMAIN local[w].batch /\ local[w].batch[1] \in Item
    BY <2>1
  <2>3. local[w].batch[1] # Pill
    BY <1>1, <2>2 DEF HoldFacts, PoolFacts, PoolInv, BatchInv, Clean, BatchOf
  <2> QED
    BY <2>2, <2>3 DEF HeadModel, Item
<1>2. Init => NoneAbandoned
  BY DEF Init, NoneAbandoned, Abandoned
<1>3. HoldFacts /\ NoneAbandoned /\ [Next]_vars => NoneAbandoned'
  BY <1>1, AbandonedBy DEF NoneAbandoned
<1>4. NoneAbandoned => LoadedIsServed
  BY DEF NoneAbandoned, LoadedIsServed
<1> QED
  BY <1>2, <1>3, <1>4, HoldInvariant, PTL DEF Spec
=============================================================================
