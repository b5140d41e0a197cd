----------------------------- MODULE Dashboard -----------------------------
(***************************************************************************)
(* The read side: the three handlers of the API (api.go) and the page that *)
(* calls them (App.jsx, api.js, galaxy.jsx), over the stores that Seeder   *)
(* and the orchestrator write.                                             *)
(*                                                                         *)
(* The page polls every five seconds, whether or not the polls before have *)
(* been answered; a click asks for the details of an incident, and neither *)
(* another click nor closing the pane cancels that request.  Answers come  *)
(* in any order.                                                           *)
(***************************************************************************)
EXTENDS Seeder

CONSTANTS
    Polls,         \* calls of loadData at a time (a bound)
    Requests,      \* detail requests at a time (a bound)
    PageSize,      \* 50 in the code
    ScrollLimit,   \* 2200 in the code
    NoIncident

ASSUME DashboardAssumption ==
    /\ PageSize \in Nat \ {0}
    /\ ScrollLimit \in Nat
    /\ NoIncident \notin Incidents

VARIABLES
    ui,         \* "up", or "blank" once a render has thrown
    status,
    feed,       \* incidents: the ids of the rows listed
    galaxy,     \* spatialData: the points drawn
    polls,      \* polls[s]: the two requests of a call of loadData
    selected,   \* selectedId
    pane,       \* selectedIncident: the id of its row, 0 for null
    details,    \* details[r]: a detail request
    stray       \* a detail request has failed, or answered too late

view == <<ui, status, feed, galaxy>>
detail == <<selected, pane, details, stray>>
page == <<view, polls, detail>>
vars == <<trail, seeder, page>>

-----------------------------------------------------------------------------
(* The API                                                                 *)

\* /incidents for a trail of n rows: the newest come first.
Newest(n) == [k \in 1..(IF n < PageSize THEN n ELSE PageSize) |-> n - k + 1]

\* /spatial: Scroll returns as many points as the limit allows.
Scrolls == {S \in SUBSET points : /\ Cardinality(S) <= ScrollLimit
                                  /\ S = points \/ Cardinality(S) = ScrollLimit}

\* /incident/<q>: there is no ORDER BY and no index, SQLite scans the table
\* in the order of the ids and QueryRow takes the first row.
RowsOf(q) == {i \in DOMAIN audit : audit[i].q = q}
First(S) == CHOOSE i \in S : \A k \in S : i <= k

-----------------------------------------------------------------------------
(* Polling                                                                 *)

Unasked == [incidents |-> "none", ids |-> <<>>, spatial |-> "none", drawn |-> {}]
Asked == [Unasked EXCEPT !.incidents = "asked", !.spatial = "asked"]

\* Mutant: loadData is called when the page is mounted, and not again.
PollOnce(s) ==
    /\ ui = "up" /\ polls[s] = Unasked /\ status = "CONNECTING"
    /\ polls' = [polls EXCEPT ![s] = Asked]
    /\ UNCHANGED <<trail, seeder, view, detail>>

\* loadData, when the page is mounted and every five seconds.
Poll(s) ==
    /\ ui = "up" /\ polls[s] = Unasked
    /\ polls' = [polls EXCEPT ![s] = Asked]
    /\ UNCHANGED <<trail, seeder, view, detail>>

ServeIncidents(s) ==
    /\ polls[s].incidents = "asked"
    /\ polls' = [polls EXCEPT ![s].incidents = "served", ![s].ids = Newest(Len(audit))]
    /\ UNCHANGED <<trail, seeder, view, detail>>

\* rows.Next returns FALSE at the end of the rows and after an error alike, and
\* nobody asks rows.Err: the rows read so far are the answer.
Truncate(s) ==
    /\ polls[s].incidents = "asked"
    /\ \E k \in 0..Len(Newest(Len(audit))) - 1 :
          polls' = [polls EXCEPT ![s].incidents = "served",
                                 ![s].ids = SubSeq(Newest(Len(audit)), 1, k)]
    /\ UNCHANGED <<trail, seeder, view, detail>>

ServeSpatial(s) ==
    /\ polls[s].spatial = "asked"
    /\ \E S \in Scrolls : polls' = [polls EXCEPT ![s].spatial = "served", ![s].drawn = S]
    /\ UNCHANGED <<trail, seeder, view, detail>>

\* Promise.all rejects at the first failure; the other answer is ignored.
Reject(s) ==
    /\ "asked" \in {polls[s].incidents, polls[s].spatial}
    /\ status' = "OFFLINE"
    /\ polls' = [polls EXCEPT ![s] = Unasked]
    /\ UNCHANGED <<trail, seeder, ui, feed, galaxy, detail>>

Fresh == /\ feed' = <<>> /\ galaxy' = {}
         /\ status' = "CONNECTING"
         /\ polls' = [s \in Polls |-> Unasked]
         /\ selected' = NoIncident /\ pane' = 0
         /\ details' = [r \in Requests |-> NoIncident]
         /\ stray' = FALSE

\* Both answers are there.  A list without rows is a nil slice, in JSON null,
\* and incidents.map throws: React unmounts the page, as there is no error
\* boundary.
Resolve(s) ==
    /\ polls[s].incidents = "served" /\ polls[s].spatial = "served"
    /\ IF polls[s].ids = <<>>
       THEN ui' = "blank" /\ Fresh
       ELSE /\ feed' = polls[s].ids
            /\ galaxy' = polls[s].drawn
            /\ status' = "ONLINE"
            /\ polls' = [polls EXCEPT ![s] = Unasked]
            /\ UNCHANGED <<ui, detail>>
    /\ UNCHANGED <<trail, seeder>>

\* The user reloads a page that has gone blank.
Reload ==
    /\ ui = "blank"
    /\ ui' = "up"
    /\ Fresh
    /\ UNCHANGED <<trail, seeder>>

\* Nothing happens on a blank page.
Blank == ui = "blank" /\ UNCHANGED vars

-----------------------------------------------------------------------------
(* The detail pane                                                         *)

\* A click on a row of the feed.  The effect runs when selectedId changes.
Select(q) ==
    /\ \E k \in DOMAIN feed : audit[feed[k]].q = q
    /\ q # selected
    /\ selected' = q
    /\ \E r \in Requests : /\ details[r] = NoIncident
                           /\ details' = [details EXCEPT ![r] = q]
    /\ UNCHANGED <<trail, seeder, view, polls, pane, stray>>

\* Mutant: the selection is kept.
CloseKeepsSelection ==
    /\ pane # 0
    /\ pane' = 0
    /\ UNCHANGED <<trail, seeder, view, polls, selected, details, stray>>

Close ==
    /\ pane # 0
    /\ pane' = 0
    /\ selected' = NoIncident
    /\ UNCHANGED <<trail, seeder, view, polls, details, stray>>

\* The answer is shown, whatever is selected by now.
DetailArrives(r) ==
    /\ details[r] # NoIncident
    /\ RowsOf(details[r]) # {}
    /\ pane' = First(RowsOf(details[r]))
    /\ stray' = (stray \/ details[r] # selected)
    /\ details' = [details EXCEPT ![r] = NoIncident]
    /\ UNCHANGED <<trail, seeder, view, polls, selected>>

\* An error, or 404: the pane stays as it is.
DetailFails(r) ==
    /\ details[r] # NoIncident
    /\ stray' = TRUE
    /\ details' = [details EXCEPT ![r] = NoIncident]
    /\ UNCHANGED <<trail, seeder, view, polls, selected, pane>>

-----------------------------------------------------------------------------

Init ==
    /\ SeederInit
    /\ ui = "up" /\ status = "CONNECTING"
    /\ feed = <<>> /\ galaxy = {}
    /\ polls = [s \in Polls |-> Unasked]
    /\ selected = NoIncident /\ pane = 0
    /\ details = [r \in Requests |-> NoIncident]
    /\ stray = FALSE

Load(s) == \/ Poll(s) \/ ServeIncidents(s) \/ Truncate(s) \/ ServeSpatial(s)
           \/ Reject(s) \/ Resolve(s)

Answer(r) == DetailArrives(r) \/ DetailFails(r)

Next == \/ (SeederNext \/ OrchestratorWrites) /\ UNCHANGED page
        \/ \E s \in Polls : Load(s)
        \/ \E q \in Incidents : Select(q)
        \/ Close
        \/ \E r \in Requests : Answer(r)
        \/ Reload
        \/ Blank

Spec == Init /\ [][Next]_vars

\* The timer fires, the handlers answer a poll or fail and the browser runs its
\* callbacks.  The user and the writers may do nothing, and details may never be
\* answered.
Fairness == \A s \in Polls : WF_vars(Load(s))

FairSpec == Spec /\ Fairness

-----------------------------------------------------------------------------
(* Correctness                                                             *)

\* The types of the variables.
TypeOK ==
    /\ SeederTypeOK
    /\ ui \in {"up", "blank"}
    /\ status \in {"CONNECTING", "ONLINE", "OFFLINE"}
    /\ feed \in Seq(Nat)
    /\ galaxy \subseteq Incidents
    /\ polls \in [Polls -> [incidents : {"none", "asked", "served"}, ids : Seq(Nat),
                            spatial : {"none", "asked", "served"},
                            drawn : SUBSET Incidents]]
    /\ selected \in Incidents \cup {NoIncident}
    /\ pane \in 0..Len(audit)
    /\ details \in [Requests -> Incidents \cup {NoIncident}]
    /\ stray \in BOOLEAN

\* The pane shows the incident that is selected, or that one is still asked
\* for; nothing is shown when nothing is selected.  Only an answer that comes
\* when something else is selected, or one that fails, can change this.
PaneAgrees ==
    ~stray => IF selected = NoIncident THEN pane = 0
              ELSE \/ \E r \in Requests : details[r] = selected
                   \/ pane # 0 /\ audit[pane].q = selected

Shown == audit # <<>> =>
         /\ feed # <<>> /\ feed[1] = Len(audit)
         /\ Cardinality(points) <= ScrollLimit => galaxy = points
         /\ status = "ONLINE"

\* When nothing is written any more, the page ends up showing the stores as
\* they are, although old polls may be answered after newer ones; unless it
\* is blank, or polls fail or lists are cut short again and again.
ViewConverges == \/ <>[](ui = "up" => Shown)
                 \/ []<><<\E s \in Polls : Reject(s) \/ Truncate(s)>>_vars

-----------------------------------------------------------------------------
(* What the documentation says and the code does not do                    *)

Traces(q) == {i \in RowsOf(q) : audit[i].action \in {"AI_ANALYZED", "AGENT_FIXED"}}

\* README.md:184 says "You can inspect exactly what the agent thought about any
\* incident, at any time", and README.md:118 "/incident/:id -> Full ReAct trace by
\* incident ID": an incident that an agent has investigated is answered with the
\* trace of some agent.
TraceIsInspectable ==
    [][\A r \in Requests :
          DetailArrives(r) /\ Traces(details[r]) # {} => pane' \in Traces(details[r])]_vars
=============================================================================
