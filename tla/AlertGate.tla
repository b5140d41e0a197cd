----------------------------- MODULE AlertGate -----------------------------
(***************************************************************************)
(* What the alert throttle of main.go promises, without its stores, its    *)
(* workers or its agents: an incident identity is open for one alert at a  *)
(* time.  Whoever opens it owes the incident exactly one row of the audit  *)
(* trail; until the window lapses nobody else can owe one.  Three failures *)
(* cost a window its row, each in its own way, and nothing else does.      *)
(***************************************************************************)
EXTENDS Naturals

CONSTANTS Incidents,   \* identities of incidents (qID)
          MayBurn,     \* the opener may not learn that it has opened
          MayGiveUp,   \* the row may fail to be written
          MayForget    \* all debtors may die at once

VARIABLES open,        \* incidents whose window is open
          window,      \* how many windows of an incident have lapsed
          owed,        \* <<incident, window>> somebody has yet to record
          settled,     \* <<incident, window>> recorded
          lost         \* <<incident, window>> nobody will ever record

gateVars == <<open, window, owed, settled, lost>>

Init == /\ open = {}
        /\ window = [q \in Incidents |-> 0]
        /\ owed = {}
        /\ settled = {}
        /\ lost = {}

\* The first caller opens the window and owes the row.
Claim(q) == /\ q \notin open
            /\ open' = open \cup {q}
            /\ owed' = owed \cup {<<q, window[q]>>}
            /\ UNCHANGED <<window, settled, lost>>

\* The window opens, and whoever opened it never learns that it did.
Burn(q) == /\ MayBurn
           /\ q \notin open
           /\ open' = open \cup {q}
           /\ lost' = lost \cup {<<q, window[q]>>}
           /\ UNCHANGED <<window, owed, settled>>

\* The row is written.
Settle(c) == /\ c \in owed
             /\ owed' = owed \ {c}
             /\ settled' = settled \cup {c}
             /\ UNCHANGED <<open, window, lost>>

\* The insert fails and is not tried again.
GiveUp(c) == /\ MayGiveUp
             /\ c \in owed
             /\ owed' = owed \ {c}
             /\ lost' = lost \cup {c}
             /\ UNCHANGED <<open, window, settled>>

\* Whoever owes a row dies.
Forget == /\ MayForget
          /\ owed' = {}
          /\ lost' = lost \cup owed
          /\ UNCHANGED <<open, window, settled>>

Lapse(q) == /\ q \in open
            /\ open' = open \ {q}
            /\ window' = [window EXCEPT ![q] = @ + 1]
            /\ UNCHANGED <<owed, settled, lost>>

Next == \/ \E q \in Incidents : Claim(q) \/ Burn(q) \/ Lapse(q)
        \/ \E c \in owed : Settle(c) \/ GiveUp(c)
        \/ Forget

Spec == Init /\ [][Next]_gateVars
=============================================================================
