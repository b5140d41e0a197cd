----------------------------- MODULE Telemetry -----------------------------
(***************************************************************************)
(* The counters of ThreadPool (thread_pool.hpp) on top of InferenceEngine, *)
(* and the broadcaster (src/main.cpp) that reads and resets some of them   *)
(* every 100 ms and sends what it read to the dashboard of the engine      *)
(* (the dropped requests it reads and resets, and never sends).            *)
(*                                                                         *)
(* What a run adds to one counter and to the next are steps of their own.  *)
(* The filter of a batch is one step, as in InferenceEngine, and so are    *)
(* the exchanges of a snapshot: nobody reads two counters together.        *)
(***************************************************************************)
EXTENDS InferenceEngine

VARIABLES
    count,      \* count[w]: what worker w has counted of its batch
    active,     \* active_workers
    window,     \* [tasks, dropped]: telemetry, since the last snapshot
    total,      \* [tasks, batches]: total_processed, total_batches
    shown       \* [tasks, dropped]: the sums of what the snapshots returned

tele == <<count, active, window, total, shown>>
tvars == <<vars, tele>>

-----------------------------------------------------------------------------

Counting(w, from, to) == count[w] = from /\ count' = [count EXCEPT ![w] = to]

Uncounted(w) == count[w] = "none" /\ UNCHANGED tele

TPop(w) == (PopBatch(w) \/ PopNothing(w)) /\ Uncounted(w)

\* Each late request of the batch is counted as dropped.
TFilter(w) ==
    /\ Filter(w)
    /\ count[w] = "none"
    /\ window' = [window EXCEPT !.dropped = @ + Len(local[w].batch)
                                              - Len(local'[w].valid)]
    /\ UNCHANGED <<count, active, total, shown>>

\* active_workers++, and the model runs.
Begin(w) ==
    /\ At(w, "run")
    /\ Counting(w, "none", "running")
    /\ active' = active + 1
    /\ UNCHANGED <<vars, window, total, shown>>

\* The model has run.
End(w) ==
    /\ Run(w)
    /\ Counting(w, "running", "ran")
    /\ active' = active - 1
    /\ UNCHANGED <<window, total, shown>>

\* Mutant: the exception leaves the counter as it is.
CatchForgets(w) ==
    /\ Fail(w)
    /\ Counting(w, "running", "none")
    /\ UNCHANGED <<active, window, total, shown>>

\* An exception of the model (thread_pool.hpp:119-125) is caught.  One of the
\* lines before it, when the worker is not counted yet, or of those after the
\* decrement, would reach the same handler: only memory that runs out makes
\* them throw, and they are left out.  That active_workers is positive is
\* tested in one step ...
Catch(w) ==
    /\ Fail(w)
    /\ Counting(w, "running", IF active > 0 THEN "caught" ELSE "none")
    /\ UNCHANGED <<active, window, total, shown>>

\* ... and it is decremented in another.
Decrement(w) ==
    /\ At(w, "pop")
    /\ Counting(w, "caught", "none")
    /\ active' = active - 1
    /\ UNCHANGED <<vars, window, total, shown>>

Rows(w) == Len(local[w].valid)

\* Mutant: store instead of fetch_add.
CountTasksStores(w) ==
    /\ At(w, "deliver")
    /\ Counting(w, "ran", "tasks")
    /\ window' = [window EXCEPT !.tasks = Rows(w)]
    /\ UNCHANGED <<vars, active, total, shown>>

CountTasks(w) ==
    /\ At(w, "deliver")
    /\ Counting(w, "ran", "tasks")
    /\ window' = [window EXCEPT !.tasks = @ + Rows(w)]
    /\ UNCHANGED <<vars, active, total, shown>>

\* Mutant: the whole batch is counted, late requests too.
CountTotalBatch(w) ==
    /\ At(w, "deliver")
    /\ Counting(w, "tasks", "totals")
    /\ total' = [tasks |-> total.tasks + Len(local[w].batch), batches |-> total.batches + 1]
    /\ UNCHANGED <<vars, active, window, shown>>

CountTotal(w) ==
    /\ At(w, "deliver")
    /\ Counting(w, "tasks", "totals")
    /\ total' = [tasks |-> total.tasks + Rows(w), batches |-> total.batches + 1]
    /\ UNCHANGED <<vars, active, window, shown>>

TDeliver(w) ==
    /\ Deliver(w)
    /\ Counting(w, "totals", "none")
    /\ UNCHANGED <<active, window, total, shown>>

\* get_and_reset_telemetry by the broadcaster, which main starts before it
\* loads the projection.
Snapshot ==
    /\ phase \in {"serving", "stopping"}
    /\ shown' = [tasks |-> shown.tasks + window.tasks,
                 dropped |-> shown.dropped + window.dropped]
    /\ window' = [tasks |-> 0, dropped |-> 0]
    /\ UNCHANGED <<vars, count, active, total>>

-----------------------------------------------------------------------------

TInit ==
    /\ Init
    /\ count = [w \in Workers |-> "none"]
    /\ active = 0
    /\ window = [tasks |-> 0, dropped |-> 0]
    /\ total = [tasks |-> 0, batches |-> 0]
    /\ shown = [tasks |-> 0, dropped |-> 0]

TWork(w) == \/ TPop(w) \/ TFilter(w)
            \/ Begin(w) \/ End(w) \/ Catch(w) \/ Decrement(w)
            \/ CountTasks(w) \/ CountTotal(w) \/ TDeliver(w)

TNext == \/ \E r \in Requests : Call(r) /\ UNCHANGED tele
         \/ \E w \in Workers : TWork(w)
         \/ Snapshot
         \/ (PushPill \/ Join \/ Gone) /\ UNCHANGED tele

TSpec == TInit /\ [][TNext]_tvars

\* As in InferenceEngine; that the broadcaster runs is not needed.
TFairSpec ==
    /\ TSpec
    /\ \A r \in Requests : WF_tvars((Push(r) \/ Answer(r) \/ AnswerStale(r)
                                     \/ Timeout(r) \/ Unavailable(r)) /\ UNCHANGED tele)
    /\ \A w \in Workers : WF_tvars(TWork(w))
    /\ WF_tvars((PushPill \/ Join) /\ UNCHANGED tele)

-----------------------------------------------------------------------------
(* Correctness                                                             *)

Counted(steps) == {w \in Workers : count[w] \in steps}

\* The rows that the workers in W have to deliver.
RowsOf(W) == UNION {{w} \X DOMAIN local[w].valid : w \in W}

\* active_workers is the number of workers that run the model or are about to
\* decrement it, so it is never negative, however many runs of the model fail
\* at once: for these the test at thread_pool.hpp:174 is always true.
ActiveExact == active = Cardinality(Counted({"running", "caught"}))

\* Blog.md:232 of the engine: "`.exchange(0)` reads and resets in one atomic
\* step, so no updates are lost".  What the snapshots have returned and what
\* the next will return is what total_processed counts, but for the
\* batches that are between the two counters (thread_pool.hpp:134-135).
NoUpdateLost ==
    shown.tasks + window.tasks = total.tasks + Cardinality(RowsOf(Counted({"tasks"})))

\* A request is counted once, as processed or as dropped, whichever batch it
\* was in: the counters agree with the results the callers can see.
With(stale) == {r \in Requests : promise[r].set /\ promise[r].stale = stale}
CountedOnce ==
    /\ total.tasks = Cardinality(With(FALSE)) + Cardinality(RowsOf(Counted({"totals"})))
    /\ shown.dropped + window.dropped = Cardinality(With(TRUE))
=============================================================================
