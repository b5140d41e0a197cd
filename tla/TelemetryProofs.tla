-------------------------- MODULE TelemetryProofs --------------------------
(***************************************************************************)
(* Proofs about Telemetry: the pool with its counters is the pool, and the *)
(* counters say what the pool does, for any number of requests and workers *)
(* and wherever the snapshots of the broadcaster fall.                     *)
(***************************************************************************)
EXTENDS Telemetry, EngineProofs

-----------------------------------------------------------------------------
(* The pool, and the workers that are active                               *)

\* The pool with its counters and its broadcaster is the pool: counting delays
\* no worker for ever and changes nothing else.  What is proved of Spec holds
\* with the counters as well.
THEOREM TelemetryImplements == TSpec => Spec
<1>1. TInit => Init
  BY DEF TInit
<1>2. [TNext]_tvars => [Next]_vars
  <2> SUFFICES ASSUME [TNext]_tvars PROVE [Next]_vars
    OBVIOUS
  <2>1. ASSUME NEW r \in Requests, Call(r) PROVE [Next]_vars
    BY <2>1 DEF Next
  <2>2. ASSUME NEW w \in Workers, TWork(w) PROVE [Next]_vars
    <3>1. CASE TPop(w) \/ TFilter(w) \/ End(w) \/ Catch(w) \/ TDeliver(w)
      <4>1. Work(w)
        BY <3>1, Zenon DEF TPop, TFilter, End, Catch, TDeliver, Work
      <4> QED
        BY <4>1 DEF Next
    <3>2. CASE Begin(w) \/ Decrement(w) \/ CountTasks(w) \/ CountTotal(w)
      BY <3>2, Zenon DEF Begin, Decrement, CountTasks, CountTotal
    <3> QED
      BY <2>2, <3>1, <3>2 DEF TWork
  <2>3. CASE Snapshot
    BY <2>3 DEF Snapshot
  <2>4. CASE PushPill \/ Join \/ Gone
    BY <2>4 DEF Next
  <2>5. CASE UNCHANGED tvars
    BY <2>5 DEF tvars
  <2> QED
    BY <2>1, <2>2, <2>3, <2>4, <2>5 DEF TNext
<1> QED
  BY <1>1, <1>2, PTL DEF TSpec, Spec

CountType == count \in [Workers -> {"none", "running", "caught", "ran", "tasks", "totals"}]

CountInv == CountType /\ active \in Int /\ ActiveExact

\* The workers that are counted as active.
Busy == Counted({"running", "caught"})

LEMMA BusyFinite == IsFiniteSet(Busy) /\ Cardinality(Busy) \in Nat
<1>1. Busy \in SUBSET Workers
  BY DEF Busy, Counted
<1> QED
  BY <1>1, EngineAssumption, FS_Subset, FS_CardinalityType

\* What a step of one worker does to the counter and to its place.
LEMMA CountingActive ==
  ASSUME CountInv, NEW w \in Workers,
         NEW from \in {"none", "running", "caught", "ran", "tasks", "totals"},
         NEW to \in {"none", "running", "caught", "ran", "tasks", "totals"},
         Counting(w, from, to),
         LET before == from \in {"running", "caught"}
             after == to \in {"running", "caught"}
         IN  \/ before = after /\ active' = active
             \/ ~before /\ after /\ active' = active + 1
             \/ before /\ ~after /\ active' = active - 1
  PROVE  CountInv'
<1>1. /\ count[w] = from /\ count' = [count EXCEPT ![w] = to]
      /\ CountType /\ CountType' /\ active \in Int /\ active' \in Int
      /\ active = Cardinality(Busy)
  BY DEF Counting, CountInv, CountType, ActiveExact, Busy
<1>2. Cardinality(Busy) \in Nat /\ IsFiniteSet(Busy)
  BY BusyFinite
<1>3. (w \in Busy <=> from \in {"running", "caught"})
      /\ Busy' = IF to \in {"running", "caught"} THEN Busy \cup {w} ELSE Busy \ {w}
  BY <1>1 DEF Busy, Counted, CountType
<1>4. /\ w \notin Busy => Cardinality(Busy \cup {w}) = Cardinality(Busy) + 1
      /\ w \in Busy => Cardinality(Busy \ {w}) = Cardinality(Busy) - 1
  BY <1>2, FS_AddElement, FS_RemoveElement
<1>5. (w \in Busy => Busy \cup {w} = Busy) /\ (w \notin Busy => Busy \ {w} = Busy)
  OBVIOUS
<1>6. active' = Cardinality(Busy')
  <2>1. CASE to \in {"running", "caught"}
    BY <1>1, <1>3, <1>4, <1>5, <2>1
  <2>2. CASE to \notin {"running", "caught"}
    BY <1>1, <1>3, <1>4, <1>5, <2>2
  <2> QED
    BY <2>1, <2>2
<1> QED
  BY <1>1, <1>6 DEF CountInv, ActiveExact, Busy

LEMMA NextCount == CountInv /\ [TNext]_tvars => CountInv'
<1> SUFFICES ASSUME CountInv, [TNext]_tvars PROVE CountInv'
  OBVIOUS
<1>1. ASSUME UNCHANGED <<count, active>> PROVE CountInv'
  BY <1>1 DEF CountInv, CountType, ActiveExact, Counted
<1>2. ASSUME NEW w \in Workers, TWork(w) PROVE CountInv'
  <2>1. CASE TPop(w) \/ TFilter(w)
    BY <1>1, <2>1, Zenon DEF TPop, TFilter, Uncounted, tele
  <2>2. CASE Begin(w)
    <3>1. Counting(w, "none", "running") /\ active' = active + 1
      BY <2>2 DEF Begin
    <3> QED
      BY <3>1, CountingActive
  <2>3. CASE End(w)
    <3>1. Counting(w, "running", "ran") /\ active' = active - 1
      BY <2>3 DEF End
    <3> QED
      BY <3>1, CountingActive
  <2>4. CASE Catch(w)
    <3>1. Counting(w, "running", IF active > 0 THEN "caught" ELSE "none") /\ active' = active
      BY <2>4 DEF Catch
    <3>2. active > 0
      <4>1. w \in Busy
        BY <3>1 DEF Counting, Busy, Counted
      <4>2. Cardinality(Busy) # 0
        BY <4>1, BusyFinite, FS_EmptySet
      <4> QED
        BY <4>2, BusyFinite DEF CountInv, ActiveExact, Busy
    <3>3. Counting(w, "running", "caught")
      BY <3>1, <3>2
    <3> QED
      BY <3>1, <3>3, CountingActive
  <2>5. CASE Decrement(w)
    <3>1. Counting(w, "caught", "none") /\ active' = active - 1
      BY <2>5 DEF Decrement
    <3> QED
      BY <3>1, CountingActive
  <2>6. CASE CountTasks(w)
    <3>1. Counting(w, "ran", "tasks") /\ active' = active
      BY <2>6 DEF CountTasks
    <3> QED
      BY <3>1, CountingActive
  <2>7. CASE CountTotal(w)
    <3>1. Counting(w, "tasks", "totals") /\ active' = active
      BY <2>7 DEF CountTotal
    <3> QED
      BY <3>1, CountingActive
  <2>8. CASE TDeliver(w)
    <3>1. Counting(w, "totals", "none") /\ active' = active
      BY <2>8 DEF TDeliver
    <3> QED
      BY <3>1, CountingActive
  <2> QED
    BY <1>2, <2>1, <2>2, <2>3, <2>4, <2>5, <2>6, <2>7, <2>8 DEF TWork
<1>3. CASE Snapshot
  BY <1>1, <1>3 DEF Snapshot
<1>4. CASE UNCHANGED tele
  BY <1>1, <1>4 DEF tele
<1>5. CASE UNCHANGED tvars
  BY <1>4, <1>5 DEF tvars
<1> QED
  BY <1>2, <1>3, <1>4, <1>5 DEF TNext

\* active_workers is the number of workers that run the model or are about to
\* decrement it, however many fail at once: it is never negative, and the test
\* before the decrement (thread_pool.hpp:174) never fails.
THEOREM ActiveIsExact == TSpec => []ActiveExact
<1>1. TInit => CountInv
  <2> SUFFICES ASSUME TInit PROVE CountInv
    OBVIOUS
  <2>1. CountType /\ active = 0
    BY DEF TInit, CountType
  <2>2. Busy = {}
    BY DEF TInit, Busy, Counted
  <2> QED
    BY <2>1, <2>2, FS_EmptySet DEF CountInv, ActiveExact, Busy
<1>2. CountInv => ActiveExact
  BY DEF CountInv
<1> QED
  BY <1>1, <1>2, NextCount, PTL DEF TSpec

-----------------------------------------------------------------------------
(* The sums                                                                *)

Tasks == Counted({"tasks"})
Totals == Counted({"totals"})
Processed == With(FALSE)
Dropped == With(TRUE)

\* RowsOf, for given batches.
Pairs(l, W) == UNION {{w} \X DOMAIN l[w].valid : w \in W}

TeleType == /\ CountType
            /\ window \in [tasks : Int, dropped : Int]
            /\ total \in [tasks : Int, batches : Int]
            /\ shown \in [tasks : Int, dropped : Int]

SumInv == TeleType /\ NoUpdateLost /\ CountedOnce

LEMMA PairsFinite ==
  ASSUME NEW l \in [Workers -> Batch], NEW W \in SUBSET Workers
  PROVE  IsFiniteSet(Pairs(l, W)) /\ Cardinality(Pairs(l, W)) \in Nat
<1> DEFINE rows == {{w} \X DOMAIN l[w].valid : w \in W}
           f == [w \in W |-> {w} \X DOMAIN l[w].valid]
<1>1. IsFiniteSet(W)
  BY EngineAssumption, FS_Subset
<1>2. f \in Surjection(W, rows)
  <2>1. f \in [W -> rows] /\ \A t \in rows : \E w \in W : f[w] = t
    BY Zenon
  <2> HIDE DEF f, rows
  <2> QED
    BY <2>1, Fun_IsSurj
<1>3. \A t \in rows : IsFiniteSet(t)
  <2> SUFFICES ASSUME NEW w \in W PROVE IsFiniteSet({w} \X DOMAIN l[w].valid)
    BY Zenon
  <2>1. l[w].valid \in Seq(Nat)
    BY DEF Batch
  <2>2. IsFiniteSet(DOMAIN l[w].valid)
    BY <2>1, SequenceSize
  <2> QED
    BY <2>2, FS_Singleton, FS_Product
<1> HIDE DEF f, rows
<1>4. IsFiniteSet(rows)
  BY <1>1, <1>2, FS_Surjection
<1>5. IsFiniteSet(UNION rows)
  BY <1>3, <1>4, FS_UNION
<1> QED
  BY <1>5, FS_CardinalityType DEF Pairs, rows

\* One more worker.
LEMMA PairsAdd ==
  ASSUME NEW l \in [Workers -> Batch], NEW W \in SUBSET Workers, NEW w \in Workers \ W
  PROVE  Cardinality(Pairs(l, W \cup {w})) = Cardinality(Pairs(l, W)) + Len(l[w].valid)
<1> DEFINE P == Pairs(l, W)
           Q == {w} \X DOMAIN l[w].valid
<1>1. IsFiniteSet(P) /\ Cardinality(P) \in Nat
  BY PairsFinite
<1>2. IsFiniteSet(Q) /\ Cardinality(Q) = Len(l[w].valid) /\ Len(l[w].valid) \in Nat
  <2>1. l[w].valid \in Seq(Nat)
    BY DEF Batch
  <2> DEFINE D == DOMAIN l[w].valid
             n == Len(l[w].valid)
  <2>2. IsFiniteSet(D) /\ Cardinality(D) = n /\ n \in Nat
    BY <2>1, SequenceSize
  <2> HIDE DEF D
  <2>3. IsFiniteSet({w} \X D) /\ Cardinality({w} \X D) = Cardinality({w}) * Cardinality(D)
    BY <2>2, FS_Singleton, FS_Product
  <2>4. Cardinality({w}) = 1
    BY FS_Singleton
  <2> HIDE DEF n
  <2>5. Cardinality({w} \X D) = n
    BY <2>2, <2>3, <2>4
  <2> QED
    BY <2>2, <2>3, <2>5 DEF D, n
<1>3. Pairs(l, W \cup {w}) = P \cup Q
  BY Zenon DEF Pairs
<1>4. P \cap Q = {}
  <2>1. \A p \in P : p[1] \in W
    BY DEF Pairs
  <2>2. \A q \in Q : q[1] = w
    OBVIOUS
  <2> QED
    BY <2>1, <2>2
<1> HIDE DEF P, Q
<1>5. Cardinality(P \cup Q) = Cardinality(P) + Cardinality(Q) - Cardinality({})
  BY <1>1, <1>2, <1>4, FS_Union
<1>6. Cardinality({}) = 0
  BY FS_EmptySet
<1>7. Cardinality(P \cup Q) = Cardinality(P) + Len(l[w].valid)
  BY <1>1, <1>2, <1>5, <1>6
<1> QED
  BY <1>3, <1>7, Zenon DEF P

LEMMA PairsSame ==
  ASSUME NEW l, NEW m, NEW W, \A w \in W : m[w].valid = l[w].valid
  PROVE  Pairs(m, W) = Pairs(l, W)
BY Zenon DEF Pairs

\* What the invariants say of the sums.
LEMMA Sums ==
  /\ NoUpdateLost <=>
       shown.tasks + window.tasks = total.tasks + Cardinality(Pairs(local, Tasks))
  /\ CountedOnce <=>
       /\ total.tasks = Cardinality(Processed) + Cardinality(Pairs(local, Totals))
       /\ shown.dropped + window.dropped = Cardinality(Dropped)
<1>1. /\ RowsOf(Counted({"tasks"})) = Pairs(local, Tasks)
      /\ RowsOf(Counted({"totals"})) = Pairs(local, Totals)
  BY Zenon DEF RowsOf, Pairs, Tasks, Totals
<1> QED
  BY <1>1, Zenon DEF NoUpdateLost, CountedOnce, Processed, Dropped

LEMMA SumsNext ==
  /\ NoUpdateLost' <=>
       shown'.tasks + window'.tasks = total'.tasks + Cardinality(Pairs(local', Tasks'))
  /\ CountedOnce' <=>
       /\ total'.tasks = Cardinality(Processed') + Cardinality(Pairs(local', Totals'))
       /\ shown'.dropped + window'.dropped = Cardinality(Dropped')
<1>1. /\ RowsOf(Counted({"tasks"}))' = Pairs(local', Tasks')
      /\ RowsOf(Counted({"totals"}))' = Pairs(local', Totals')
  BY Zenon DEF RowsOf, Pairs, Tasks, Totals
<1> QED
  BY <1>1, Zenon DEF NoUpdateLost, CountedOnce, Processed, Dropped

LEMMA SumTypes ==
  ASSUME PoolFacts, TeleType
  PROVE  /\ local \in [Workers -> Batch]
         /\ Tasks \in SUBSET Workers /\ Totals \in SUBSET Workers
         /\ Cardinality(Pairs(local, Tasks)) \in Nat /\ Cardinality(Pairs(local, Totals)) \in Nat
         /\ IsFiniteSet(Processed) /\ Cardinality(Processed) \in Nat
         /\ IsFiniteSet(Dropped) /\ Cardinality(Dropped) \in Nat
         /\ window.tasks \in Int /\ window.dropped \in Int /\ total.tasks \in Int
         /\ shown.tasks \in Int /\ shown.dropped \in Int
<1>1. local \in [Workers -> Batch]
  BY Types DEF PoolFacts, EngineInv
<1>2. Tasks \in SUBSET Workers /\ Totals \in SUBSET Workers
  BY DEF Tasks, Totals, Counted
<1>3. Processed \in SUBSET Requests /\ Dropped \in SUBSET Requests
  BY DEF Processed, Dropped, With
<1>4. /\ IsFiniteSet(Processed) /\ Cardinality(Processed) \in Nat
      /\ IsFiniteSet(Dropped) /\ Cardinality(Dropped) \in Nat
  BY <1>3, EngineAssumption, FS_Subset, FS_CardinalityType
<1>5. Cardinality(Pairs(local, Tasks)) \in Nat /\ Cardinality(Pairs(local, Totals)) \in Nat
  BY <1>1, <1>2, PairsFinite
<1> QED
  BY <1>1, <1>2, <1>4, <1>5 DEF TeleType

\* The place of a worker in the counting.
LEMMA CountingSets ==
  ASSUME CountType, NEW w \in Workers,
         NEW from \in {"none", "running", "caught", "ran", "tasks", "totals"},
         NEW to \in {"none", "running", "caught", "ran", "tasks", "totals"},
         Counting(w, from, to)
  PROVE  /\ CountType'
         /\ (w \in Tasks <=> from = "tasks") /\ (w \in Totals <=> from = "totals")
         /\ Tasks' = IF to = "tasks" THEN Tasks \cup {w} ELSE Tasks \ {w}
         /\ Totals' = IF to = "totals" THEN Totals \cup {w} ELSE Totals \ {w}
BY DEF Counting, CountType, Tasks, Totals, Counted

\* Steps that add nothing and that the sums do not see.
LEMMA QuietSums ==
  ASSUME SumInv, TeleType', Tasks' = Tasks, Totals' = Totals,
         \A w \in Tasks \cup Totals : local'[w].valid = local[w].valid,
         promise' = promise, total'.tasks = total.tasks,
         shown'.tasks + window'.tasks = shown.tasks + window.tasks,
         shown'.dropped + window'.dropped = shown.dropped + window.dropped
  PROVE  SumInv'
<1>1. Pairs(local', Tasks') = Pairs(local, Tasks) /\ Pairs(local', Totals') = Pairs(local, Totals)
  BY PairsSame
<1>2. Processed' = Processed /\ Dropped' = Dropped
  BY DEF Processed, Dropped, With
<1> QED
  BY <1>1, <1>2, Sums, SumsNext DEF SumInv

-----------------------------------------------------------------------------
(* The steps of the counters                                               *)

\* A step of a worker that is not between its counters.
LEMMA QuietWorker ==
  ASSUME PoolFacts, SumInv, NEW w \in Workers,
         NEW from \in {"none", "running", "caught", "ran"},
         NEW to \in {"none", "running", "caught", "ran"},
         Counting(w, from, to),
         \A x \in Workers \ {w} : local'[x] = local[x],
         promise' = promise, UNCHANGED <<window, total, shown>>
  PROVE  SumInv'
<1>1. /\ CountType' /\ w \notin Tasks /\ w \notin Totals
      /\ Tasks' = Tasks /\ Totals' = Totals
  <2>1. CountType /\ from # "tasks" /\ from # "totals" /\ to # "tasks" /\ to # "totals"
    BY DEF SumInv, TeleType
  <2>2. /\ CountType' /\ w \notin Tasks /\ w \notin Totals
        /\ Tasks' = Tasks \ {w} /\ Totals' = Totals \ {w}
    BY <2>1, CountingSets
  <2> QED
    BY <2>2
<1>2. \A x \in Tasks \cup Totals : local'[x].valid = local[x].valid
  BY <1>1 DEF Tasks, Totals, Counted
<1>3. TeleType'
  BY <1>1 DEF SumInv, TeleType
<1> QED
  BY <1>1, <1>2, <1>3, QuietSums

\* What the filter drops is counted, and is now in the results.
LEMMA FilterSums ==
  ASSUME PoolFacts, SumInv, NEW w \in Workers, TFilter(w)
  PROVE  SumInv'
<1>1. PICK late \in SUBSET (InBatch(w) \cap Requests) :
        /\ \A r \in Requests : promise'[r] = IF r \in late THEN Stale ELSE promise[r]
        /\ \A r \in late : ~promise[r].set
        /\ IsFiniteSet(late)
        /\ Cardinality(late) = Len(local[w].batch) - Len(local'[w].valid)
  BY FilterSplits DEF TFilter
<1>2. /\ OnlyWorker(w) /\ count[w] = "none" /\ UNCHANGED <<count, total, shown>>
      /\ window' = [window EXCEPT !.dropped = @ + Len(local[w].batch) - Len(local'[w].valid)]
  BY FilterSplits DEF TFilter
<1>3. /\ Cardinality(late) \in Nat
      /\ Len(local[w].batch) - Len(local'[w].valid) \in Int
      /\ Len(local[w].batch) \in Int /\ Len(local'[w].valid) \in Int
  <2>1. local[w] \in Batch /\ local'[w] \in Batch
    <3>1. TypeOK /\ TypeOK'
      BY FilterEngine DEF PoolFacts, EngineInv, TFilter
    <3> QED
      BY <3>1 DEF TypeOK, Batch, Item
  <2>2. local[w].batch \in Seq(Item) /\ local'[w].valid \in Seq(Nat)
    BY <2>1 DEF Batch
  <2>3. Cardinality(late) \in Nat
    BY <1>1, FS_CardinalityType
  <2> QED
    BY <2>2, <2>3
<1>4. /\ window'.tasks = window.tasks
      /\ window'.dropped = window.dropped + Cardinality(late)
      /\ TeleType'
  <2> DEFINE k == Len(local[w].batch)
             m == Len(local'[w].valid)
  <2>1. window \in [tasks : Int, dropped : Int] /\ TeleType
    BY DEF SumInv, TeleType
  <2> HIDE DEF k, m
  <2>2. window' = [window EXCEPT !.dropped = @ + k - m] /\ k \in Int /\ m \in Int
        /\ Cardinality(late) = k - m
    BY <1>1, <1>2, <1>3 DEF k, m
  <2>3. /\ window' \in [tasks : Int, dropped : Int]
        /\ window'.tasks = window.tasks /\ window'.dropped = window.dropped + (k - m)
    BY <2>1, <2>2
  <2> QED
    BY <1>2, <2>1, <2>2, <2>3 DEF TeleType, CountType
<1>5. /\ Tasks' = Tasks /\ Totals' = Totals
      /\ w \notin Tasks /\ w \notin Totals
  BY <1>2 DEF Tasks, Totals, Counted
<1>6. Pairs(local', Tasks') = Pairs(local, Tasks) /\ Pairs(local', Totals') = Pairs(local, Totals)
  <2>1. \A x \in Tasks \cup Totals : local'[x].valid = local[x].valid
    BY <1>2, <1>5 DEF OnlyWorker, Tasks, Totals, Counted
  <2> QED
    BY <1>5, <2>1, PairsSame
<1>7. Processed' = Processed /\ Dropped' = Dropped \cup late /\ Dropped \cap late = {}
  BY <1>1 DEF Processed, Dropped, With, Stale
<1>8. Cardinality(Dropped') = Cardinality(Dropped) + Cardinality(late)
  <2>1. IsFiniteSet(Dropped) /\ Cardinality(Dropped) \in Nat
    BY SumTypes DEF SumInv
  <2>2. Cardinality(Dropped \cup late) = Cardinality(Dropped) + Cardinality(late) - Cardinality({})
    BY <1>1, <1>7, <2>1, FS_Union
  <2>3. Cardinality({}) = 0
    BY FS_EmptySet
  <2> QED
    BY <1>3, <1>7, <2>1, <2>2, <2>3
<1>9. NoUpdateLost'
  BY <1>2, <1>4, <1>6, Sums, SumsNext DEF SumInv
<1>10. CountedOnce'
  <2>1. total'.tasks = Cardinality(Processed') + Cardinality(Pairs(local', Totals'))
    BY <1>2, <1>6, <1>7, Sums DEF SumInv
  <2>2. shown'.dropped + window'.dropped = Cardinality(Dropped')
    <3>1. /\ shown.dropped + window.dropped = Cardinality(Dropped)
          /\ shown.dropped \in Int /\ window.dropped \in Int /\ shown' = shown
      BY <1>2, Sums, SumTypes DEF SumInv
    <3> QED
      BY <1>3, <1>4, <1>8, <3>1
  <2> QED
    BY <2>1, <2>2, SumsNext
<1> QED
  BY <1>4, <1>9, <1>10 DEF SumInv

\* A worker counts its rows in the window: they are not in the total yet.
LEMMA CountTasksSums ==
  ASSUME PoolFacts, SumInv, NEW w \in Workers, CountTasks(w)
  PROVE  SumInv'
<1> DEFINE n == Len(local[w].valid)
<1>1. /\ Counting(w, "ran", "tasks") /\ UNCHANGED <<local, promise, total, shown>>
      /\ window' = [window EXCEPT !.tasks = @ + n]
  BY DEF CountTasks, Rows, vars, pool
<1>2. n \in Nat /\ local \in [Workers -> Batch]
  BY SumTypes DEF Batch, SumInv
<1>3. /\ CountType' /\ w \notin Tasks /\ w \notin Totals
      /\ Tasks' = Tasks \cup {w} /\ Totals' = Totals
  BY <1>1, CountingSets DEF SumInv, TeleType
<1>4. Cardinality(Pairs(local', Tasks')) = Cardinality(Pairs(local, Tasks)) + n
  BY <1>1, <1>3, SumTypes, PairsAdd DEF SumInv
<1>5. Pairs(local', Totals') = Pairs(local, Totals) /\ Processed' = Processed /\ Dropped' = Dropped
  BY <1>1, <1>3 DEF Processed, Dropped, With
<1> HIDE DEF n
<1>6. /\ window'.tasks = window.tasks + n /\ window'.dropped = window.dropped
      /\ TeleType'
  BY <1>1, <1>2, <1>3 DEF SumInv, TeleType
<1>7. NoUpdateLost'
  <2>1. shown.tasks + window.tasks = total.tasks + Cardinality(Pairs(local, Tasks))
    BY Sums DEF SumInv
  <2>2. shown'.tasks + window'.tasks = total'.tasks + Cardinality(Pairs(local', Tasks'))
    BY <1>1, <1>2, <1>4, <1>6, <2>1, SumTypes DEF SumInv
  <2> QED
    BY <2>2, SumsNext
<1>8. CountedOnce'
  BY <1>1, <1>5, <1>6, Sums, SumsNext DEF SumInv
<1> QED
  BY <1>6, <1>7, <1>8 DEF SumInv

\* It counts them in the total: their results are not set yet.
LEMMA CountTotalSums ==
  ASSUME PoolFacts, SumInv, NEW w \in Workers, CountTotal(w)
  PROVE  SumInv'
<1> DEFINE n == Len(local[w].valid)
<1>1. /\ Counting(w, "tasks", "totals") /\ UNCHANGED <<local, promise, window, shown>>
      /\ total' = [tasks |-> total.tasks + n, batches |-> total.batches + 1]
  BY DEF CountTotal, Rows, vars, pool
<1>2. n \in Nat /\ local \in [Workers -> Batch]
  BY SumTypes DEF Batch, SumInv
<1>3. /\ CountType' /\ w \in Tasks /\ w \notin Totals
      /\ Tasks' = Tasks \ {w} /\ Totals' = Totals \cup {w}
  BY <1>1, CountingSets DEF SumInv, TeleType
<1>4. Cardinality(Pairs(local', Totals')) = Cardinality(Pairs(local, Totals)) + n
  BY <1>1, <1>3, SumTypes, PairsAdd DEF SumInv
<1>5. Cardinality(Pairs(local, Tasks)) = Cardinality(Pairs(local', Tasks')) + n
  <2>1. /\ Tasks \ {w} \in SUBSET Workers /\ w \in Workers \ (Tasks \ {w})
        /\ (Tasks \ {w}) \cup {w} = Tasks
    BY <1>3, SumTypes DEF SumInv
  <2> QED
    BY <1>1, <1>2, <1>3, <2>1, PairsAdd
<1>6. Processed' = Processed /\ Dropped' = Dropped
  BY <1>1 DEF Processed, Dropped, With
<1>7. Cardinality(Pairs(local', Tasks')) \in Nat
  <2>1. Tasks \ {w} \in SUBSET Workers
    BY SumTypes DEF SumInv
  <2> QED
    BY <1>1, <1>2, <1>3, <2>1, PairsFinite
<1> HIDE DEF n
<1>8. total'.tasks = total.tasks + n /\ TeleType'
  BY <1>1, <1>2, <1>3 DEF SumInv, TeleType
<1>9. NoUpdateLost'
  <2>1. shown.tasks + window.tasks = total.tasks + Cardinality(Pairs(local, Tasks))
    BY Sums DEF SumInv
  <2>2. shown'.tasks + window'.tasks = total'.tasks + Cardinality(Pairs(local', Tasks'))
    BY <1>1, <1>2, <1>5, <1>7, <1>8, <2>1, SumTypes DEF SumInv
  <2> QED
    BY <2>2, SumsNext
<1>10. CountedOnce'
  <2>1. total.tasks = Cardinality(Processed) + Cardinality(Pairs(local, Totals))
    BY Sums DEF SumInv
  <2>2. total'.tasks = Cardinality(Processed') + Cardinality(Pairs(local', Totals'))
    BY <1>2, <1>4, <1>6, <1>8, <2>1, SumTypes DEF SumInv
  <2>3. shown'.dropped + window'.dropped = Cardinality(Dropped')
    BY <1>1, <1>6, Sums DEF SumInv
  <2> QED
    BY <2>2, <2>3, SumsNext
<1> QED
  BY <1>8, <1>9, <1>10 DEF SumInv

\* The results of the rows are set, and the worker has none to deliver.
LEMMA DeliverSums ==
  ASSUME PoolFacts, SumInv, NEW w \in Workers, TDeliver(w)
  PROVE  SumInv'
<1> DEFINE n == Len(local[w].valid)
           R == RowsIn(local[w])
<1>1. Counting(w, "totals", "none") /\ UNCHANGED <<window, total, shown>> /\ Deliver(w)
  BY DEF TDeliver
<1>2. /\ OnlyWorker(w) /\ R \in SUBSET Requests /\ IsFiniteSet(R) /\ Cardinality(R) = n
      /\ \A r \in Requests : IF r \in R
                             THEN ~promise[r].set /\ promise'[r].set /\ ~promise'[r].stale
                             ELSE promise'[r] = promise[r]
  BY <1>1, DeliverSplits
<1>3. n \in Nat /\ local \in [Workers -> Batch]
  BY SumTypes DEF Batch, SumInv
<1>4. /\ CountType' /\ w \notin Tasks /\ w \in Totals
      /\ Tasks' = Tasks /\ Totals' = Totals \ {w}
  BY <1>1, CountingSets DEF SumInv, TeleType
<1>5. Pairs(local', Tasks') = Pairs(local, Tasks)
      /\ Pairs(local', Totals') = Pairs(local, Totals \ {w})
  <2>1. \A x \in Tasks \cup (Totals \ {w}) : local'[x].valid = local[x].valid
    BY <1>2, <1>4 DEF OnlyWorker, Tasks, Totals, Counted
  <2> QED
    BY <1>4, <2>1, PairsSame
<1>6. Cardinality(Pairs(local, Totals)) = Cardinality(Pairs(local', Totals')) + n
  <2>1. /\ Totals \ {w} \in SUBSET Workers /\ w \in Workers \ (Totals \ {w})
        /\ (Totals \ {w}) \cup {w} = Totals
    BY <1>4, SumTypes DEF SumInv
  <2> QED
    BY <1>3, <1>5, <2>1, PairsAdd
<1>7. Cardinality(Pairs(local', Totals')) \in Nat
  <2>1. Totals \ {w} \in SUBSET Workers
    BY SumTypes DEF SumInv
  <2> QED
    BY <1>3, <1>5, <2>1, PairsFinite
<1>8. Processed' = Processed \cup R /\ Processed \cap R = {} /\ Dropped' = Dropped
  <2>1. \A r \in Requests : promise'[r].set => promise'[r].stale \in BOOLEAN
    BY DeliverEngine, Types, <1>1 DEF PoolFacts, EngineInv, TypeOK
  <2> QED
    BY <1>2, <2>1 DEF Processed, Dropped, With
<1> HIDE DEF n, R
<1>9. Cardinality(Processed') = Cardinality(Processed) + n
  <2>1. IsFiniteSet(Processed) /\ Cardinality(Processed) \in Nat
    BY SumTypes DEF SumInv
  <2>2. Cardinality(Processed \cup R) = Cardinality(Processed) + Cardinality(R) - Cardinality({})
    BY <1>2, <1>8, <2>1, FS_Union
  <2>3. Cardinality({}) = 0
    BY FS_EmptySet
  <2> QED
    BY <1>2, <1>3, <1>8, <2>1, <2>2, <2>3
<1>10. NoUpdateLost'
  BY <1>1, <1>5, Sums, SumsNext DEF SumInv
<1>11. CountedOnce'
  <2>1. total.tasks = Cardinality(Processed) + Cardinality(Pairs(local, Totals))
    BY Sums DEF SumInv
  <2>2. total'.tasks = Cardinality(Processed') + Cardinality(Pairs(local', Totals'))
    BY <1>1, <1>3, <1>6, <1>7, <1>9, <2>1, SumTypes DEF SumInv
  <2>3. shown'.dropped + window'.dropped = Cardinality(Dropped')
    BY <1>1, <1>8, Sums DEF SumInv
  <2> QED
    BY <2>2, <2>3, SumsNext
<1>12. TeleType'
  BY <1>1, <1>4 DEF SumInv, TeleType
<1> QED
  BY <1>10, <1>11, <1>12 DEF SumInv

LEMMA WorkerSums ==
  ASSUME PoolFacts, SumInv, NEW w \in Workers, TWork(w)
  PROVE  SumInv'
<1>0. CountType /\ local \in [Workers -> Batch]
  BY SumTypes DEF SumInv, TeleType
<1>1. CASE TPop(w)
  <2>1. /\ \A x \in Workers : local'[x].valid = local[x].valid
        /\ promise' = promise /\ UNCHANGED tele
    <3>1. CASE PopBatch(w)
      BY <1>1, <3>1, PopSplits DEF TPop, Uncounted
    <3>2. CASE PopNothing(w)
      BY <1>1, <3>2 DEF TPop, Uncounted, PopNothing, vars, pool
    <3> QED
      BY <1>1, <3>1, <3>2 DEF TPop
  <2>2. TeleType' /\ Tasks' = Tasks /\ Totals' = Totals
    BY <2>1 DEF tele, SumInv, TeleType, CountType, Tasks, Totals, Counted
  <2>3. Tasks \cup Totals \in SUBSET Workers
    BY SumTypes DEF SumInv
  <2> QED
    BY <2>1, <2>2, <2>3, QuietSums DEF tele
<1>2. CASE Begin(w)
  <2>1. /\ Counting(w, "none", "running") /\ UNCHANGED <<window, total, shown>>
        /\ promise' = promise /\ \A x \in Workers \ {w} : local'[x] = local[x]
    BY <1>2 DEF Begin, vars, pool
  <2> QED
    BY <2>1, QuietWorker
<1>3. CASE End(w)
  <2>1. /\ Counting(w, "running", "ran") /\ UNCHANGED <<window, total, shown>>
        /\ promise' = promise /\ \A x \in Workers \ {w} : local'[x] = local[x]
    BY <1>0, <1>3 DEF End, Run
  <2> QED
    BY <2>1, QuietWorker
<1>4. CASE Catch(w)
  <2>1. /\ Counting(w, "running", IF active > 0 THEN "caught" ELSE "none")
        /\ UNCHANGED <<window, total, shown>>
        /\ promise' = promise /\ \A x \in Workers \ {w} : local'[x] = local[x]
    BY <1>0, <1>4 DEF Catch, Fail
  <2>2. CASE active > 0
    <3>1. Counting(w, "running", "caught")
      BY <2>1, <2>2
    <3> QED
      BY <2>1, <3>1, QuietWorker
  <2>3. CASE ~(active > 0)
    <3>1. Counting(w, "running", "none")
      BY <2>1, <2>3
    <3> QED
      BY <2>1, <3>1, QuietWorker
  <2> QED
    BY <2>2, <2>3
<1>5. CASE Decrement(w)
  <2>1. /\ Counting(w, "caught", "none") /\ UNCHANGED <<window, total, shown>>
        /\ promise' = promise /\ \A x \in Workers \ {w} : local'[x] = local[x]
    BY <1>5 DEF Decrement, vars, pool
  <2> QED
    BY <2>1, QuietWorker
<1> QED
  BY <1>1, <1>2, <1>3, <1>4, <1>5, FilterSums, CountTasksSums, CountTotalSums, DeliverSums
  DEF TWork

LEMMA NextSums == PoolFacts /\ SumInv /\ [TNext]_tvars => SumInv'
<1> SUFFICES ASSUME PoolFacts, SumInv, [TNext]_tvars PROVE SumInv'
  OBVIOUS
<1>1. ASSUME UNCHANGED <<local, promise>>, UNCHANGED tele PROVE SumInv'
  <2>1. TeleType' /\ Tasks' = Tasks /\ Totals' = Totals
    BY <1>1 DEF tele, SumInv, TeleType, CountType, Tasks, Totals, Counted
  <2> QED
    BY <1>1, <2>1, QuietSums DEF tele
<1>2. ASSUME NEW r \in Requests, Call(r), UNCHANGED tele PROVE SumInv'
  <2>1. UNCHANGED <<local, promise>>
    BY <1>2, Zenon DEF Call, Reject, Admit, Push, Answer, AnswerStale, Timeout, Unavailable, pool
  <2> QED
    BY <1>1, <1>2, <2>1
<1>3. CASE Snapshot
  <2>1. /\ UNCHANGED <<local, promise, count, total>>
        /\ shown' = [tasks |-> shown.tasks + window.tasks,
                     dropped |-> shown.dropped + window.dropped]
        /\ window' = [tasks |-> 0, dropped |-> 0]
    BY <1>3 DEF Snapshot, vars, pool
  <2>2. /\ window.tasks \in Int /\ window.dropped \in Int
        /\ shown.tasks \in Int /\ shown.dropped \in Int
    BY SumTypes DEF SumInv
  <2>3. TeleType' /\ Tasks' = Tasks /\ Totals' = Totals
    BY <2>1, <2>2 DEF SumInv, TeleType, CountType, Tasks, Totals, Counted
  <2>4. /\ shown'.tasks + window'.tasks = shown.tasks + window.tasks
        /\ shown'.dropped + window'.dropped = shown.dropped + window.dropped
    BY <2>1, <2>2
  <2> QED
    BY <2>1, <2>3, <2>4, QuietSums
<1>4. CASE (PushPill \/ Join \/ Gone) /\ UNCHANGED tele
  <2>1. UNCHANGED <<local, promise>>
    BY <1>4 DEF PushPill, Join, Gone, vars, pool
  <2> QED
    BY <1>1, <1>4, <2>1
<1>5. CASE UNCHANGED tvars
  BY <1>1, <1>5 DEF tvars, vars, pool
<1> QED
  BY <1>2, <1>3, <1>4, <1>5, WorkerSums DEF TNext

LEMMA InitSums == TInit => SumInv
<1> SUFFICES ASSUME TInit PROVE SumInv
  OBVIOUS
<1>1. TeleType
  BY DEF TInit, TeleType, CountType
<1>2. Tasks = {} /\ Totals = {}
  BY DEF TInit, Tasks, Totals, Counted
<1>3. Pairs(local, Tasks) = {} /\ Pairs(local, Totals) = {}
  BY <1>2, Zenon DEF Pairs
<1>4. Processed = {} /\ Dropped = {}
  BY DEF TInit, Init, Processed, Dropped, With, Unset
<1>5. /\ shown.tasks = 0 /\ shown.dropped = 0 /\ window.tasks = 0 /\ window.dropped = 0
      /\ total.tasks = 0
  BY DEF TInit
<1>6. Cardinality({}) = 0
  BY FS_EmptySet
<1>7. NoUpdateLost /\ CountedOnce
  BY <1>3, <1>4, <1>5, <1>6, Sums
<1> QED
  BY <1>1, <1>7 DEF SumInv

LEMMA SumInvariant == TSpec => []SumInv
<1>1. PoolFacts /\ SumInv /\ [TNext]_tvars => SumInv'
  BY NextSums
<1> QED
  BY <1>1, InitSums, TelemetryImplements, PoolInvariant, PTL DEF TSpec

\* However the snapshots fall between the counters of the workers, what the
\* dashboard has been sent and what the next snapshot will send is what
\* total_processed counts, but for the batches between the two: an exchange
\* loses no update.
THEOREM NoneLost == TSpec => []NoUpdateLost
<1>1. SumInv => NoUpdateLost
  BY DEF SumInv
<1> QED
  BY <1>1, SumInvariant, PTL

\* Every request that has a result is counted exactly once, as processed or as
\* dropped: no request is in two batches, none is decided twice, and the rows
\* and the late requests of a batch are all of it.
THEOREM CountersAgree == TSpec => []CountedOnce
<1>1. SumInv => CountedOnce
  BY DEF SumInv
<1> QED
  BY <1>1, SumInvariant, PTL

-----------------------------------------------------------------------------
(* What carries over from the pool                                         *)

\* With the counters as well, the depth is exact and bounded, each caller gets
\* the embedding of its own line, and no request is taken twice.
COROLLARY TelemetrySafe == TSpec => [](TypeOK /\ DepthBounded /\ OwnEmbedding /\ TakenOnce)
  BY TelemetryImplements, TypeCorrect, DepthIsBounded, OwnAnswer, TakenAtMostOnce, PTL

\* The engine with its counters is that service, too.
COROLLARY TelemetryService == TSpec => ServiceSpec
  BY TelemetryImplements, ImplementsService
=============================================================================
