---------------------------- MODULE RequestReply ----------------------------
(***************************************************************************)
(* What the engine promises its callers, without queue, batches, workers   *)
(* or promises.  A call that is taken is open until it is computed, found  *)
(* late or abandoned, each at most once and by itself, whatever batch it   *)
(* was in.  Its caller gets one answer: its own embedding if that has been *)
(* computed, and none is kept from it; and no call is refused unless more  *)
(* than Limit are open.                                                    *)
(***************************************************************************)
EXTENDS Naturals, FiniteSets

CONSTANTS Calls,     \* calls of RunInference
          Limit,     \* open calls up to which none is refused
          Slow       \* those that may be given up while they are open

VARIABLES serving,   \* the process answers
          waiting,   \* calls that have been taken and not answered
          open,      \* calls that have been taken and not decided
          computed,  \* calls whose embedding is there
          late,      \* calls that were dropped as late
          answer     \* answer[r]: what the caller of r has got

serviceVars == <<serving, waiting, open, computed, late, answer>>

Init == /\ serving \in BOOLEAN
        /\ waiting = {}
        /\ open = {}
        /\ computed = {}
        /\ late = {}
        /\ answer = [r \in Calls |-> "none"]

New(r) == r \notin waiting /\ answer[r] = "none"

Take(r) == /\ serving /\ New(r)
           /\ r \notin open \cup computed \cup late
           /\ waiting' = waiting \cup {r}
           /\ open' = open \cup {r}
           /\ UNCHANGED <<serving, computed, late, answer>>

Refuse(r) == /\ serving /\ New(r)
             /\ Cardinality(open) > Limit
             /\ answer' = [answer EXCEPT ![r] = "RESOURCE_EXHAUSTED"]
             /\ UNCHANGED <<serving, waiting, open, computed, late>>

\* What a batch decides of its calls, whether or not they are waited for.
Compute(S) == /\ S \subseteq open
              /\ open' = open \ S
              /\ computed' = computed \cup S
              /\ UNCHANGED <<serving, waiting, late, answer>>

Drop(S) == /\ S \subseteq open
           /\ open' = open \ S
           /\ late' = late \cup S
           /\ UNCHANGED <<serving, waiting, computed, answer>>

Abandon(S) == /\ S \subseteq open
              /\ open' = open \ S
              /\ UNCHANGED <<serving, waiting, computed, late, answer>>

Return(r, what) == /\ waiting' = waiting \ {r}
                   /\ answer' = [answer EXCEPT ![r] = what]
                   /\ UNCHANGED <<open, computed, late>>

\* The call returns the result that is there.
Reply(r) == /\ serving /\ r \in waiting
            /\ \/ r \in computed /\ Return(r, "own")
               \/ r \in late /\ Return(r, "late")
            /\ UNCHANGED serving

\* It returns without one only when there is none, and while it is open only
\* after the full five seconds.
GiveUp(r) == /\ serving /\ r \in waiting
             /\ r \notin computed \cup late
             /\ r \in Slow \/ r \notin open
             /\ Return(r, "DEADLINE_EXCEEDED")
             /\ UNCHANGED serving

\* A late result may be the end of the process.
Die(r) == /\ serving /\ r \in waiting \cap late
          /\ serving' = FALSE
          /\ Return(r, "UNAVAILABLE")

Lost(r) == /\ ~serving /\ answer[r] = "none"
           /\ Return(r, "UNAVAILABLE")
           /\ UNCHANGED serving

Next == \/ \E r \in Calls : \/ Take(r) \/ Refuse(r)
                            \/ Reply(r) \/ GiveUp(r) \/ Die(r) \/ Lost(r)
        \/ \E S \in SUBSET Calls : Compute(S) \/ Drop(S) \/ Abandon(S)

Spec == Init /\ [][Next]_serviceVars
=============================================================================
