--------------------------- MODULE DashboardProofs ---------------------------
(***************************************************************************)
(* Proofs about Seeder and Dashboard, for any file, any runs and failures  *)
(* of the seeder, and any number of polls and requests under way.          *)
(***************************************************************************)
EXTENDS Dashboard, FiniteSetTheorems, SequenceTheorems, WellFoundedInduction, TLAPS

LEMMA AppendAt ==
  ASSUME NEW S, NEW s \in Seq(S), NEW e \in S
  PROVE  /\ Append(s, e) \in Seq(S) /\ Len(Append(s, e)) = Len(s) + 1
         /\ DOMAIN Append(s, e) = DOMAIN s \cup {Len(s) + 1}
         /\ Append(s, e)[Len(s) + 1] = e
         /\ \A i \in DOMAIN s : Append(s, e)[i] = s[i]
  BY SMT

LEMMA FirstIsMember ==
  ASSUME NEW S \in SUBSET Nat, S # {}
  PROVE  First(S) \in S
<1>1. PICK i \in S : \A k \in S : ~(<<k, i>> \in OpToRel(<, Nat))
  BY NatLessThanWellFounded, WFMin
<1>2. \A k \in S : ~(k < i)
  BY <1>1 DEF OpToRel
<1>3. \A k \in S : i <= k
  BY <1>2, SMT
<1> QED
  BY <1>3, Zenon DEF First

-----------------------------------------------------------------------------
(* The writers                                                             *)

Written == SeederNext \/ OrchestratorWrites

LEMMA InsertType ==
  ASSUME SeederTypeOK, NEW row \in Row, RecordIncident(row)
  PROVE  audit' \in Seq(Row) /\ Len(audit) <= Len(audit')
         /\ \A i \in DOMAIN audit : i \in DOMAIN audit' /\ audit'[i] = audit[i]
<1>1. audit \in Seq(Row)
  BY DEF SeederTypeOK
<1>2. CASE audit' = Append(audit, row)
  <2>1. Len(audit) <= Len(audit) + 1
    BY <1>1, SMT
  <2> QED
    BY <1>1, <1>2, <2>1, AppendAt
<1>3. CASE audit' = audit
  <2>1. Len(audit) <= Len(audit)
    BY <1>1, SMT
  <2> QED
    BY <1>1, <1>3, <2>1
<1> QED
  BY <1>2, <1>3 DEF RecordIncident

LEMMA SeedRow ==
  ASSUME SeederTypeOK, step # "off", line <= Len(SeedFile)
  PROVE  SeedFile[line] \in Incidents /\ [q |-> SeedFile[line], action |-> "SEEDED_LOG"] \in Row
<1>1. line \in DOMAIN SeedFile
  BY SeederAssumption, SMT DEF SeederTypeOK
<1>2. SeedFile[line] \in Incidents
  BY <1>1, SeederAssumption
<1> QED
  BY <1>2 DEF Row

\* What a writer does to the trail: rows stay where they are.
LEMMA WriterType ==
  ASSUME SeederTypeOK, Written
  PROVE  /\ SeederTypeOK'
         /\ Len(audit) <= Len(audit')
         /\ \A i \in DOMAIN audit : i \in DOMAIN audit' /\ audit'[i] = audit[i]
<1>0. /\ audit \in Seq(Row) /\ points \subseteq Incidents
      /\ line \in 1..Len(SeedFile) + 1 /\ Len(SeedFile) \in Nat /\ line \in Nat
      /\ runs \in Nat /\ stops \in Nat /\ 1 \in 1..Len(SeedFile) + 1
  BY SeederAssumption, SMT DEF SeederTypeOK
<1> DEFINE Kept == /\ Len(audit) <= Len(audit')
                   /\ \A i \in DOMAIN audit : i \in DOMAIN audit' /\ audit'[i] = audit[i]
<1>1. audit' = audit => Kept
  BY <1>0, SMT
<1>2. line <= Len(SeedFile) => line + 1 \in 1..Len(SeedFile) + 1
  BY <1>0, SMT
<1>3. CASE StartSeeder
  <2>1. runs' \in Nat
    BY <1>0, <1>3 DEF StartSeeder
  <2> HIDE DEF Kept
  <2>2. Kept
    BY <1>1, <1>3 DEF StartSeeder, trail
  <2>3. SeederTypeOK'
    BY <1>3, <2>1 DEF StartSeeder, SeederTypeOK, trail
  <2> QED
    BY <2>2, <2>3 DEF Kept
<1>4. CASE EmbedFails
  <2> HIDE DEF Kept
  <2>1. line' \in 1..Len(SeedFile) + 1
    BY <1>2, <1>4 DEF EmbedFails, More
  <2>2. Kept
    BY <1>1, <1>4 DEF EmbedFails, trail
  <2>3. step' = "next"
    BY <1>4 DEF EmbedFails, More
  <2>4. SeederTypeOK'
    BY <1>4, <2>1, <2>3 DEF EmbedFails, SeederTypeOK, trail
  <2> QED
    BY <2>2, <2>4 DEF Kept
<1>5. CASE UpsertSeed
  <2> HIDE DEF Kept
  <2>1. SeedFile[line] \in Incidents
    BY <1>5, SeedRow DEF UpsertSeed, More
  <2>2. points' \subseteq Incidents /\ failed' \in BOOLEAN
    BY <1>0, <1>5, <2>1 DEF UpsertSeed
  <2>3. Kept
    BY <1>1, <1>5 DEF UpsertSeed
  <2>4. SeederTypeOK'
    BY <1>5, <2>2 DEF UpsertSeed, More, SeederTypeOK
  <2> QED
    BY <2>3, <2>4 DEF Kept
<1>6. CASE RecordSeed
  <2>1. step = "record" /\ line <= Len(SeedFile)
    BY <1>6 DEF RecordSeed, SeederTypeOK
  <2>2. Kept /\ audit' \in Seq(Row)
    BY <1>6, <2>1, SeedRow, InsertType DEF RecordSeed
  <2> HIDE DEF Kept
  <2>3. /\ step' \in {"off", "next"} /\ line' \in 1..Len(SeedFile) + 1
        /\ failed' \in BOOLEAN /\ stops' \in Nat
    <3>1. CASE failed
      <4>1. step' = "off" /\ line' = 1 /\ failed' = FALSE /\ stops' = stops + 1
        BY <1>6, <3>1, Zenon DEF RecordSeed, Exit
      <4>2. stops + 1 \in Nat
        BY <1>0, SMT
      <4> QED
        BY <1>0, <4>1, <4>2
    <3>2. CASE ~failed
      BY <1>0, <1>2, <1>6, <2>1, <3>2 DEF RecordSeed, SeederTypeOK
    <3> QED
      BY <3>1, <3>2
  <2>4. SeederTypeOK'
    BY <1>6, <2>2, <2>3 DEF RecordSeed, SeederTypeOK
  <2> QED
    BY <2>2, <2>4 DEF Kept
<1>7. CASE EndSeeder
  <2> HIDE DEF Kept
  <2>1. Kept
    BY <1>1, <1>7 DEF EndSeeder, trail
  <2>2. SeederTypeOK'
    BY <1>0, <1>7 DEF EndSeeder, Exit, SeederTypeOK, trail
  <2> QED
    BY <2>1, <2>2 DEF Kept
<1>8. ASSUME NEW q \in Met, OrchestratorUpserts(q)
      PROVE  SeederTypeOK' /\ Kept
  <2> HIDE DEF Kept
  <2>1. q \in Incidents
    BY SeederAssumption
  <2>2. Kept
    BY <1>1, <1>8 DEF OrchestratorUpserts
  <2>3. SeederTypeOK'
    BY <1>8, <2>1 DEF OrchestratorUpserts, SeederTypeOK, seeder
  <2> QED
    BY <2>2, <2>3
<1>9. ASSUME NEW q \in Met, NEW action \in RowActions, OrchestratorRecords(q, action)
      PROVE  SeederTypeOK' /\ Kept
  <2>1. [q |-> q, action |-> action] \in Row
    BY SeederAssumption DEF Row
  <2>2. Kept /\ audit' \in Seq(Row)
    BY <1>9, <2>1, InsertType DEF OrchestratorRecords
  <2> HIDE DEF Kept
  <2>3. SeederTypeOK'
    BY <1>9, <2>2 DEF OrchestratorRecords, SeederTypeOK, seeder
  <2> QED
    BY <2>2, <2>3
<1> QED
  BY <1>3, <1>4, <1>5, <1>6, <1>7, <1>8, <1>9 DEF Written, SeederNext, OrchestratorWrites

-----------------------------------------------------------------------------
(* Rows of the seeder and points                                           *)

\* The row the seeder is about to write has its point, if the upsert has not
\* failed.
SeedInv ==
    /\ SeederTypeOK
    /\ step = "record" /\ ~failed => SeedFile[line] \in points
    /\ SeedRowHasPoint

LEMMA OrphansFinite == SeederTypeOK => IsFiniteSet(Orphans) /\ Cardinality(Orphans) \in Nat
<1> SUFFICES ASSUME SeederTypeOK PROVE IsFiniteSet(Orphans) /\ Cardinality(Orphans) \in Nat
  OBVIOUS
<1>1. Len(audit) \in Nat /\ DOMAIN audit = 1..Len(audit)
  BY DEF SeederTypeOK
<1>2. IsFiniteSet(DOMAIN audit)
  BY <1>1, FS_Interval
<1>3. Orphans \in SUBSET DOMAIN audit
  BY DEF Orphans
<1> QED
  BY <1>2, <1>3, FS_Subset, FS_CardinalityType

\* Fewer orphans at no fewer stops.
LEMMA FewerOrphans ==
  ASSUME SeederTypeOK, SeedRowHasPoint, Orphans' \subseteq Orphans, stops' = stops
  PROVE  SeedRowHasPoint'
<1>1. /\ Cardinality(Orphans) \in Nat /\ Cardinality(Orphans') \in Nat
      /\ Cardinality(Orphans') <= Cardinality(Orphans)
  BY OrphansFinite, FS_Subset, FS_CardinalityType
<1> QED
  BY <1>1, SMT DEF SeedRowHasPoint, SeederTypeOK

\* The only row that can become an orphan is the one that is written.
LEMMA InsertOrphans ==
  ASSUME SeederTypeOK, NEW row \in Row, RecordIncident(row), points' = points
  PROVE  /\ Orphans' \subseteq Orphans \cup {Len(audit) + 1}
         /\ row.action # "SEEDED_LOG" \/ row.q \in points => Orphans' \subseteq Orphans
<1>1. audit \in Seq(Row)
  BY DEF SeederTypeOK
<1>2. CASE audit' = Append(audit, row)
  <2>1. /\ DOMAIN audit' = DOMAIN audit \cup {Len(audit) + 1}
        /\ audit'[Len(audit) + 1] = row
        /\ \A i \in DOMAIN audit : audit'[i] = audit[i]
    BY <1>1, <1>2, AppendAt
  <2> QED
    BY <2>1, Zenon DEF Orphans
<1>3. CASE audit' = audit
  BY <1>3 DEF Orphans
<1> QED
  BY <1>2, <1>3 DEF RecordIncident

LEMMA NextSeed == SeedInv /\ Written => SeedInv'
<1> SUFFICES ASSUME SeedInv, Written PROVE SeedInv'
  OBVIOUS
<1>0. SeederTypeOK /\ SeederTypeOK' /\ SeedRowHasPoint
  BY WriterType DEF SeedInv
<1> DEFINE Ready == step' = "record" /\ ~failed' => SeedFile[line'] \in points'
<1>1. ASSUME audit' = audit, points \subseteq points', stops' = stops
      PROVE  SeedRowHasPoint'
  <2>1. Orphans' \subseteq Orphans
    BY <1>1 DEF Orphans
  <2> QED
    BY <1>0, <1>1, <2>1, FewerOrphans
<1>2. CASE StartSeeder \/ EmbedFails \/ EndSeeder
  <2>1. UNCHANGED <<audit, points, stops>> /\ step' # "record"
    BY <1>2 DEF StartSeeder, EmbedFails, EndSeeder, More, Exit, trail
  <2> QED
    BY <1>0, <1>1, <2>1 DEF SeedInv
<1>3. CASE UpsertSeed
  <2>1. /\ audit' = audit /\ stops' = stops /\ line' = line /\ points \subseteq points'
        /\ ~failed' => SeedFile[line] \in points'
    BY <1>3 DEF UpsertSeed
  <2> QED
    BY <1>0, <1>1, <2>1 DEF SeedInv
<1>4. CASE RecordSeed
  <2> DEFINE row == [q |-> SeedFile[line], action |-> "SEEDED_LOG"]
  <2>1. /\ step = "record" /\ line <= Len(SeedFile) /\ step' # "record"
        /\ RecordIncident(row) /\ points' = points
        /\ IF failed THEN stops' = stops + 1 ELSE stops' = stops
    BY <1>0, <1>4 DEF RecordSeed, Exit, SeederTypeOK
  <2>2. row \in Row /\ row.q = SeedFile[line]
    BY <1>0, <2>1, SeedRow
  <2> HIDE DEF row
  <2>3. CASE failed
    <3>1. Orphans' \subseteq Orphans \cup {Len(audit) + 1}
      BY <1>0, <2>1, <2>2, InsertOrphans
    <3>2. Cardinality(Orphans') <= Cardinality(Orphans) + 1
      <4>1. /\ IsFiniteSet(Orphans \cup {Len(audit) + 1})
            /\ Cardinality(Orphans \cup {Len(audit) + 1}) <= Cardinality(Orphans) + 1
        <5>1. IsFiniteSet(Orphans) /\ Cardinality(Orphans) \in Nat
          BY <1>0, OrphansFinite
        <5>2. Cardinality(Orphans) <= Cardinality(Orphans) + 1
              /\ Cardinality(Orphans) + 1 <= Cardinality(Orphans) + 1
          BY <5>1, SMT
        <5> QED
          BY <5>1, <5>2, FS_AddElement
      <4>2. /\ Cardinality(Orphans') <= Cardinality(Orphans \cup {Len(audit) + 1})
            /\ Cardinality(Orphans') \in Nat
            /\ Cardinality(Orphans \cup {Len(audit) + 1}) \in Nat
        BY <3>1, <4>1, FS_Subset, FS_CardinalityType
      <4>3. Cardinality(Orphans) \in Nat
        BY <1>0, OrphansFinite
      <4> QED
        BY <4>1, <4>2, <4>3, SMT
    <3>3. Cardinality(Orphans) \in Nat /\ Cardinality(Orphans') \in Nat /\ stops \in Nat
      <4>1. IsFiniteSet(Orphans \cup {Len(audit) + 1})
        BY <1>0, OrphansFinite, FS_AddElement
      <4> QED
        BY <1>0, <3>1, <4>1, OrphansFinite, FS_Subset, FS_CardinalityType DEF SeederTypeOK
    <3>4. SeedRowHasPoint'
      BY <1>0, <2>1, <2>3, <3>2, <3>3, SMT DEF SeedRowHasPoint
    <3> QED
      BY <1>0, <2>1, <3>4 DEF SeedInv
  <2>4. CASE ~failed
    <3>1. row.q \in points
      BY <2>1, <2>2, <2>4 DEF SeedInv
    <3>2. Orphans' \subseteq Orphans
      BY <1>0, <2>1, <2>2, <3>1, InsertOrphans
    <3>3. SeedRowHasPoint'
      BY <1>0, <2>1, <2>4, <3>2, FewerOrphans
    <3> QED
      BY <1>0, <2>1, <3>3 DEF SeedInv
  <2> QED
    BY <2>3, <2>4
<1>5. ASSUME NEW q \in Met, OrchestratorUpserts(q)
      PROVE  SeedInv'
  <2>1. points \subseteq points' /\ UNCHANGED <<audit, step, line, failed, stops>>
    BY <1>5 DEF OrchestratorUpserts, seeder
  <2>2. Ready
    BY <2>1 DEF SeedInv
  <2> QED
    BY <1>0, <1>1, <2>1, <2>2 DEF SeedInv
<1>6. ASSUME NEW q \in Met, NEW action \in RowActions, OrchestratorRecords(q, action)
      PROVE  SeedInv'
  <2> DEFINE row == [q |-> q, action |-> action]
  <2>1. RecordIncident(row) /\ UNCHANGED <<points, step, line, failed, stops>>
    BY <1>6 DEF OrchestratorRecords, seeder
  <2>2. row \in Row /\ row.action # "SEEDED_LOG"
    BY SeederAssumption DEF Row
  <2> HIDE DEF row
  <2>3. Orphans' \subseteq Orphans
    BY <1>0, <2>1, <2>2, InsertOrphans
  <2>4. SeedRowHasPoint'
    BY <1>0, <2>1, <2>3, FewerOrphans
  <2>5. Ready
    BY <2>1 DEF SeedInv
  <2> QED
    BY <1>0, <2>4, <2>5 DEF SeedInv
<1> QED
  BY <1>2, <1>3, <1>4, <1>5, <1>6 DEF Written, SeederNext, OrchestratorWrites

\* No more rows of the seeder lack a point than upserts have failed it: it dies
\* of the first, whatever the orchestrator writes at the same time.
THEOREM SeedRows == Spec => []SeedRowHasPoint
<1>1. Init => SeedInv
  <2> SUFFICES ASSUME Init PROVE SeedInv
    OBVIOUS
  <2>1. audit \in Seq(Row) /\ DOMAIN audit = {} /\ 1 \in 1..Len(SeedFile) + 1
    BY SeederAssumption, SMT DEF Init, SeederInit
  <2>2. SeederTypeOK
    BY <2>1 DEF Init, SeederInit, SeederTypeOK
  <2>3. Cardinality(Orphans) = 0
    BY <2>1, FS_EmptySet DEF Orphans
  <2>4. SeedRowHasPoint
    BY <2>3 DEF Init, SeederInit, SeedRowHasPoint
  <2> QED
    BY <2>2, <2>4 DEF Init, SeederInit, SeedInv
<1>2. SeedInv /\ [Next]_vars => SeedInv'
  <2> SUFFICES ASSUME SeedInv, [Next]_vars PROVE SeedInv'
    OBVIOUS
  <2>1. CASE UNCHANGED <<trail, seeder>>
    BY <2>1 DEF SeedInv, SeederTypeOK, SeedRowHasPoint, Orphans, trail, seeder
  <2>2. CASE Written
    BY <2>2, NextSeed
  <2>3. CASE \/ \E s \in Polls : Load(s)
             \/ \E q \in Incidents : Select(q)
             \/ Close \/ Reload \/ Blank
             \/ \E r \in Requests : Answer(r)
             \/ UNCHANGED vars
    <3>1. UNCHANGED <<trail, seeder>>
      BY <2>3, Zenon DEF Load, Poll, ServeIncidents, Truncate, ServeSpatial, Reject, Resolve, Select,
                        Close, Reload, Blank, Answer, DetailArrives, DetailFails, vars
    <3> QED
      BY <2>1, <3>1
  <2> QED
    BY <2>2, <2>3 DEF Next, Written
<1>3. SeedInv => SeedRowHasPoint
  BY DEF SeedInv
<1> QED
  BY <1>1, <1>2, <1>3, PTL DEF Spec

-----------------------------------------------------------------------------
(* The pane                                                                *)

\* Of the types, those of the pane and the requests; then PaneAgrees.
PaneInv ==
    /\ SeederTypeOK
    /\ selected \in Incidents \cup {NoIncident}
    /\ pane \in 0..Len(audit)
    /\ details \in [Requests -> Incidents \cup {NoIncident}]
    /\ stray \in BOOLEAN
    /\ PaneAgrees

LEMMA FreshPane == SeederTypeOK /\ Fresh /\ UNCHANGED <<trail, seeder>> => PaneInv'
<1> SUFFICES ASSUME SeederTypeOK, Fresh, UNCHANGED <<trail, seeder>> PROVE PaneInv'
  OBVIOUS
<1>1. SeederTypeOK' /\ 0 \in 0..Len(audit')
  BY SMT DEF SeederTypeOK, trail, seeder
<1> QED
  BY <1>1 DEF Fresh, PaneInv, PaneAgrees

\* The first row of an incident, when it has one.
LEMMA FirstRow ==
  ASSUME SeederTypeOK, NEW q, RowsOf(q) # {}
  PROVE  First(RowsOf(q)) \in 1..Len(audit) /\ audit[First(RowsOf(q))].q = q
<1>1. RowsOf(q) \in SUBSET Nat
  BY SMT DEF RowsOf, SeederTypeOK
<1>2. First(RowsOf(q)) \in RowsOf(q)
  BY <1>1, FirstIsMember
<1> HIDE DEF First
<1>3. DOMAIN audit = 1..Len(audit)
  BY DEF SeederTypeOK
<1> QED
  BY <1>2, <1>3 DEF RowsOf

LEMMA NextPane == PaneInv /\ [Next]_vars => PaneInv'
<1> SUFFICES ASSUME PaneInv, [Next]_vars PROVE PaneInv'
  OBVIOUS
<1>0. /\ SeederTypeOK /\ Len(audit) \in Nat /\ pane \in 0..Len(audit)
      /\ details \in [Requests -> Incidents \cup {NoIncident}]
      /\ NoIncident \notin Incidents /\ DOMAIN audit = 1..Len(audit)
  BY DashboardAssumption DEF PaneInv, SeederTypeOK
<1>1. CASE Written /\ UNCHANGED page
  <2>1. /\ SeederTypeOK' /\ Len(audit) <= Len(audit')
        /\ \A i \in DOMAIN audit : audit'[i] = audit[i]
    BY <1>0, <1>1, WriterType
  <2>2. Len(audit') \in Nat
    BY <2>1 DEF SeederTypeOK
  <2>3. pane' = pane /\ pane' \in 0..Len(audit')
    BY <1>0, <1>1, <2>1, <2>2, SMT DEF page, detail
  <2>4. pane # 0 => audit'[pane] = audit[pane]
    <3>1. pane # 0 => pane \in 1..Len(audit)
      BY <1>0, SMT
    <3> QED
      BY <1>0, <2>1, <3>1
  <2>5. UNCHANGED <<selected, details, stray>>
    BY <1>1 DEF page, detail
  <2>6. PaneAgrees'
    BY <2>3, <2>4, <2>5 DEF PaneInv, PaneAgrees
  <2> QED
    BY <2>1, <2>3, <2>5, <2>6 DEF PaneInv
<1>2. CASE UNCHANGED <<trail, seeder, detail>>
  BY <1>2 DEF PaneInv, PaneAgrees, SeederTypeOK, trail, seeder, detail
<1>3. CASE UNCHANGED <<trail, seeder>> /\ Fresh
  BY <1>0, <1>3, FreshPane
<1>4. ASSUME NEW s \in Polls, Load(s) PROVE PaneInv'
  <2>1. CASE Poll(s) \/ ServeIncidents(s) \/ Truncate(s) \/ ServeSpatial(s) \/ Reject(s)
    BY <1>2, <2>1, Zenon DEF Poll, ServeIncidents, Truncate, ServeSpatial, Reject
  <2>2. CASE Resolve(s)
    <3>1. CASE polls[s].ids = <<>>
      BY <1>3, <2>2, <3>1 DEF Resolve
    <3>2. CASE polls[s].ids # <<>>
      BY <1>2, <2>2, <3>2 DEF Resolve
    <3> QED
      BY <3>1, <3>2
  <2> QED
    BY <1>4, <2>1, <2>2 DEF Load
<1>5. ASSUME UNCHANGED <<trail, seeder>>
      PROVE  SeederTypeOK' /\ audit' = audit
  BY <1>0, <1>5 DEF SeederTypeOK, trail, seeder
<1>6. ASSUME NEW q \in Incidents, Select(q) PROVE PaneInv'
  <2>1. /\ selected' = q /\ pane' = pane /\ stray' = stray /\ UNCHANGED <<trail, seeder>>
    BY <1>6 DEF Select
  <2>2. PICK r \in Requests : details' = [details EXCEPT ![r] = q]
    BY <1>6 DEF Select
  <2>3. /\ details' \in [Requests -> Incidents \cup {NoIncident}]
        /\ details'[r] = q
    BY <1>0, <2>2
  <2>4. PaneAgrees'
    BY <1>0, <2>1, <2>3 DEF PaneAgrees
  <2> QED
    BY <1>0, <1>5, <2>1, <2>3, <2>4 DEF PaneInv
<1>7. CASE Close
  <2>1. /\ selected' = NoIncident /\ pane' = 0 /\ UNCHANGED <<trail, seeder, details, stray>>
    BY <1>7 DEF Close
  <2>2. 0 \in 0..Len(audit)
    BY <1>0, SMT
  <2> QED
    BY <1>0, <1>5, <2>1, <2>2 DEF PaneInv, PaneAgrees
<1>8. ASSUME NEW r \in Requests, DetailArrives(r) PROVE PaneInv'
  <2> DEFINE row == First(RowsOf(details[r]))
  <2>1. /\ details[r] # NoIncident /\ RowsOf(details[r]) # {} /\ pane' = row
        /\ stray' = (stray \/ details[r] # selected)
        /\ details' = [details EXCEPT ![r] = NoIncident]
        /\ UNCHANGED <<trail, seeder, selected>>
    BY <1>8 DEF DetailArrives
  <2>2. row \in 1..Len(audit) /\ audit[row].q = details[r]
    BY <1>0, <2>1, FirstRow
  <2> HIDE DEF row
  <2>3. pane' \in 0..Len(audit) /\ pane' # 0
    BY <1>0, <2>1, <2>2, SMT
  <2>4. details' \in [Requests -> Incidents \cup {NoIncident}]
    BY <1>0, <2>1
  <2>5. PaneAgrees'
    BY <1>5, <2>1, <2>2, <2>3 DEF PaneAgrees
  <2>6. stray' \in BOOLEAN
    BY <2>1 DEF PaneInv
  <2> QED
    BY <1>5, <2>1, <2>3, <2>4, <2>5, <2>6 DEF PaneInv
<1>9. ASSUME NEW r \in Requests, DetailFails(r) PROVE PaneInv'
  <2>1. /\ stray' = TRUE /\ details' = [details EXCEPT ![r] = NoIncident]
        /\ UNCHANGED <<trail, seeder, selected, pane>>
    BY <1>9 DEF DetailFails
  <2>2. details' \in [Requests -> Incidents \cup {NoIncident}]
    BY <1>0, <2>1
  <2> QED
    BY <1>0, <1>5, <2>1, <2>2 DEF PaneInv, PaneAgrees
<1>10. CASE Reload
  BY <1>3, <1>10 DEF Reload
<1>11. CASE Blank \/ UNCHANGED vars
  BY <1>2, <1>11 DEF Blank, vars, page
<1> QED
  BY <1>1, <1>4, <1>6, <1>7, <1>8, <1>9, <1>10, <1>11 DEF Next, Written, Answer

LEMMA InitPane == Init => PaneInv
<1> SUFFICES ASSUME Init PROVE PaneInv
  OBVIOUS
<1>0. /\ audit = <<>> /\ points = {} /\ step = "off" /\ line = 1
      /\ failed = FALSE /\ runs = 0 /\ stops = 0
  BY DEF Init, SeederInit
<1>1. audit \in Seq(Row) /\ 0 \in 0..Len(audit)
  BY <1>0, SMT
<1>2. line \in 1..Len(SeedFile) + 1
  <2>1. Len(SeedFile) \in Nat
    BY SeederAssumption, SMT
  <2> QED
    BY <1>0, <2>1, SMT
<1>3. SeederTypeOK
  BY <1>0, <1>1, <1>2 DEF SeederTypeOK
<1> QED
  BY <1>1, <1>3 DEF Init, PaneInv, PaneAgrees

LEMMA PaneInvariant == Spec => []PaneInv
  BY InitPane, NextPane, PTL DEF Spec

\* The pane shows what is selected, in whatever order the answers come, until
\* one comes for something else or fails (App.jsx:35, 47).
THEOREM PaneIsSelected == Spec => []PaneAgrees
<1>1. PaneInv => PaneAgrees
  BY DEF PaneInv
<1> QED
  BY <1>1, PaneInvariant, PTL

-----------------------------------------------------------------------------
(* The page                                                                *)

PollState(n, P) == [incidents : {"none", "asked", "served"}, ids : Seq(1..n),
                    spatial : {"none", "asked", "served"}, drawn : SUBSET P]

\* Whatever is listed or drawn, or about to be, is in the stores.
StoredInv ==
    /\ SeederTypeOK
    /\ ui \in {"up", "blank"}
    /\ status \in {"CONNECTING", "ONLINE", "OFFLINE"}
    /\ feed \in Seq(1..Len(audit))
    /\ galaxy \subseteq points
    /\ polls \in [Polls -> PollState(Len(audit), points)]

\* The stores grow.
LEMMA Grow ==
  ASSUME NEW n \in Nat, NEW m \in Nat, n <= m, NEW P, NEW Q, P \subseteq Q
  PROVE  Seq(1..n) \subseteq Seq(1..m) /\ PollState(n, P) \subseteq PollState(m, Q)
<1>1. 1..n \subseteq 1..m
  OBVIOUS
<1>2. \A s \in Seq(1..n) : s \in Seq(1..m)
  BY <1>1, SMT
<1> QED
  BY <1>2 DEF PollState

LEMMA WriterGrows == Written => points \subseteq points'
<1>1. SeederNext => points \subseteq points'
  BY DEF SeederNext, StartSeeder, EmbedFails, UpsertSeed, RecordSeed, EndSeeder, trail
<1>2. OrchestratorWrites => points \subseteq points'
  BY DEF OrchestratorWrites, OrchestratorUpserts, OrchestratorRecords
<1> QED
  BY <1>1, <1>2 DEF Written

LEMMA NewestRows ==
  ASSUME NEW n \in Nat
  PROVE  Newest(n) \in Seq(1..n)
<1> DEFINE m == IF n < PageSize THEN n ELSE PageSize
<1>1. m \in Nat /\ m <= n
  BY DashboardAssumption
<1>2. \A k \in 1..m : n - k + 1 \in 1..n
  BY <1>1
<1>3. Newest(n) = [k \in 1..m |-> n - k + 1]
  BY DEF Newest
<1> HIDE DEF m
<1> QED
  BY <1>1, <1>2, <1>3

LEMMA NextStored == StoredInv /\ [Next]_vars => StoredInv'
<1> SUFFICES ASSUME StoredInv, [Next]_vars PROVE StoredInv'
  OBVIOUS
<1> DEFINE n == Len(audit)
<1>0. /\ SeederTypeOK /\ n \in Nat /\ polls \in [Polls -> PollState(n, points)]
      /\ Unasked \in PollState(n, points) /\ Asked \in PollState(n, points)
      /\ feed \in Seq(1..n) /\ galaxy \subseteq points
      /\ ui \in {"up", "blank"} /\ status \in {"CONNECTING", "ONLINE", "OFFLINE"}
  <2>1. <<>> \in Seq(1..n)
    BY SMT
  <2>2. Unasked \in PollState(n, points) /\ Asked \in PollState(n, points)
    BY <2>1, Zenon DEF Unasked, Asked, PollState
  <2>3. n \in Nat
    BY DEF StoredInv, SeederTypeOK
  <2> QED
    BY <2>2, <2>3 DEF StoredInv
<1> HIDE DEF n
<1>1. CASE Written /\ UNCHANGED page
  <2>1. SeederTypeOK' /\ n <= Len(audit') /\ Len(audit') \in Nat
    <3>1. SeederTypeOK' /\ n <= Len(audit')
      BY <1>0, <1>1, WriterType DEF n
    <3> QED
      BY <3>1 DEF SeederTypeOK
  <2>2. /\ Seq(1..n) \subseteq Seq(1..Len(audit'))
        /\ PollState(n, points) \subseteq PollState(Len(audit'), points')
        /\ points \subseteq points'
    BY <1>0, <1>1, <2>1, Grow, WriterGrows
  <2>3. UNCHANGED <<ui, status, feed, galaxy, polls>>
    BY <1>1 DEF page, view
  <2>4. polls' \in [Polls -> PollState(Len(audit'), points')]
    BY <1>0, <2>2, <2>3
  <2> QED
    BY <1>0, <2>1, <2>2, <2>3, <2>4 DEF StoredInv
<1>2. ASSUME UNCHANGED <<trail, seeder>>
      PROVE  SeederTypeOK' /\ Len(audit') = n /\ points' = points
  BY <1>0, <1>2 DEF SeederTypeOK, trail, seeder, n
<1>3. CASE UNCHANGED <<trail, seeder, view, polls>>
  BY <1>0, <1>2, <1>3 DEF StoredInv, view, n
<1>4. ASSUME UNCHANGED <<trail, seeder>>, Fresh, ui' \in {"up", "blank"} PROVE StoredInv'
  <2>1. /\ feed' = <<>> /\ galaxy' = {} /\ status' = "CONNECTING"
        /\ polls' = [s \in Polls |-> Unasked]
    BY <1>4 DEF Fresh
  <2>2. feed' \in Seq(1..n) /\ polls' \in [Polls -> PollState(n, points)]
    BY <1>0, <2>1
  <2> QED
    BY <1>2, <1>4, <2>1, <2>2 DEF StoredInv
<1>5. ASSUME NEW s \in Polls, NEW p \in PollState(n, points), polls' = [polls EXCEPT ![s] = p],
             UNCHANGED <<trail, seeder, view>>
      PROVE  StoredInv'
  <2>1. polls' \in [Polls -> PollState(n, points)]
    BY <1>0, <1>5
  <2> QED
    BY <1>0, <1>2, <1>5, <2>1 DEF StoredInv, view
<1>6. ASSUME NEW s \in Polls, Load(s) PROVE StoredInv'
  <2>0. polls[s] \in PollState(n, points)
    BY <1>0
  <2>1. CASE Poll(s)
    BY <1>0, <1>5, <2>1 DEF Poll
  <2>2. CASE ServeIncidents(s)
    <3> DEFINE p == [polls[s] EXCEPT !.incidents = "served", !.ids = Newest(n)]
    <3>1. p \in PollState(n, points)
      BY <1>0, <2>0, NewestRows DEF PollState
    <3>2. polls' = [polls EXCEPT ![s] = p] /\ UNCHANGED <<trail, seeder, view>>
      BY <2>2 DEF ServeIncidents, n
    <3> QED
      BY <1>5, <3>1, <3>2
  <2>3. CASE ServeSpatial(s)
    <3>1. PICK S \in Scrolls :
            polls' = [polls EXCEPT ![s].spatial = "served", ![s].drawn = S]
      BY <2>3 DEF ServeSpatial
    <3> DEFINE p == [polls[s] EXCEPT !.spatial = "served", !.drawn = S]
    <3>2. p \in PollState(n, points)
      BY <2>0 DEF PollState, Scrolls
    <3>3. polls' = [polls EXCEPT ![s] = p] /\ UNCHANGED <<trail, seeder, view>>
      BY <2>3, <3>1 DEF ServeSpatial
    <3> QED
      BY <1>5, <3>2, <3>3
  <2>6. CASE Truncate(s)
    <3>1. PICK k \in 0..Len(Newest(n)) - 1 :
            polls' = [polls EXCEPT ![s].incidents = "served",
                                   ![s].ids = SubSeq(Newest(n), 1, k)]
      BY <2>6 DEF Truncate, n
    <3> DEFINE p == [polls[s] EXCEPT !.incidents = "served", !.ids = SubSeq(Newest(n), 1, k)]
    <3>2. SubSeq(Newest(n), 1, k) \in Seq(1..n)
      <4>1. Newest(n) \in Seq(1..n) /\ k \in 0..Len(Newest(n))
        <5>1. Newest(n) \in Seq(1..n) /\ Len(Newest(n)) \in Nat
          BY <1>0, NewestRows
        <5> QED
          BY <5>1, SMT
      <4>2. k \in Int /\ 1 \in Int /\ \A i \in 1..k : Newest(n)[i] \in 1..n
        <5>1. \A t \in Seq(1..n) : \A j \in 0..Len(t) :
                 j \in Int /\ 1 \in Int /\ \A i \in 1..j : t[i] \in 1..n
          BY <1>0, SMT
        <5> QED
          BY <4>1, <5>1, Zenon
      <4> QED
        BY <4>2, SubSeqProperties, Zenon
    <3>3. p \in PollState(n, points)
      BY <2>0, <3>2 DEF PollState
    <3>4. polls' = [polls EXCEPT ![s] = p] /\ UNCHANGED <<trail, seeder, view>>
      BY <2>6, <3>1 DEF Truncate
    <3> QED
      BY <1>5, <3>3, <3>4
  <2>4. CASE Reject(s)
    <3>1. /\ polls' = [polls EXCEPT ![s] = Unasked] /\ status' = "OFFLINE"
          /\ UNCHANGED <<trail, seeder, ui, feed, galaxy>>
      BY <2>4 DEF Reject
    <3>2. polls' \in [Polls -> PollState(n, points)]
      BY <1>0, <3>1
    <3> QED
      BY <1>0, <1>2, <3>1, <3>2 DEF StoredInv
  <2>5. CASE Resolve(s)
    <3>1. CASE polls[s].ids = <<>>
      BY <1>4, <2>5, <3>1 DEF Resolve
    <3>2. CASE polls[s].ids # <<>>
      <4>1. /\ feed' = polls[s].ids /\ galaxy' = polls[s].drawn /\ status' = "ONLINE"
            /\ polls' = [polls EXCEPT ![s] = Unasked] /\ UNCHANGED <<trail, seeder, ui>>
        BY <2>5, <3>2 DEF Resolve
      <4>2. feed' \in Seq(1..n) /\ galaxy' \subseteq points
        BY <2>0, <4>1 DEF PollState
      <4>3. polls' \in [Polls -> PollState(n, points)]
        BY <1>0, <4>1
      <4> QED
        BY <1>0, <1>2, <4>1, <4>2, <4>3 DEF StoredInv
    <3> QED
      BY <3>1, <3>2
  <2> QED
    BY <1>6, <2>1, <2>2, <2>3, <2>4, <2>5, <2>6 DEF Load
<1>7. CASE Reload
  BY <1>4, <1>7 DEF Reload
<1>8. CASE (\E q \in Incidents : Select(q)) \/ Close \/ (\E r \in Requests : Answer(r))
           \/ Blank \/ UNCHANGED vars
  <2>1. UNCHANGED <<trail, seeder, view, polls>>
    BY <1>8, Zenon DEF Select, Close, Answer, DetailArrives, DetailFails, Blank, vars, page
  <2> QED
    BY <1>3, <2>1
<1> QED
  BY <1>1, <1>6, <1>7, <1>8 DEF Next, Written

LEMMA StoredInvariant == Spec => []StoredInv
<1>1. Init => StoredInv
  <2> SUFFICES ASSUME Init PROVE StoredInv
    OBVIOUS
  <2>1. PaneInv
    BY InitPane
  <2>2. \A n : <<>> \in Seq(1..n)
    BY SMT
  <2>3. Unasked \in PollState(Len(audit), points)
    BY <2>2, Zenon DEF Unasked, PollState
  <2>4. polls \in [Polls -> PollState(Len(audit), points)]
    BY <2>3 DEF Init
  <2> QED
    BY <2>1, <2>2, <2>4 DEF Init, StoredInv, PaneInv
<1> QED
  BY <1>1, NextStored, PTL DEF Spec

\* The types of the variables.
THEOREM TypeCorrect == Spec => []TypeOK
<1>1. StoredInv /\ PaneInv => TypeOK
  <2> SUFFICES ASSUME StoredInv, PaneInv PROVE TypeOK
    OBVIOUS
  <2>1. Len(audit) \in Nat /\ points \subseteq Incidents
    BY DEF StoredInv, SeederTypeOK
  <2>2. \A s \in Seq(1..Len(audit)) : s \in Seq(Nat)
    BY <2>1
  <2>3. polls \in [Polls -> [incidents : {"none", "asked", "served"}, ids : Seq(Nat),
                            spatial : {"none", "asked", "served"},
                            drawn : SUBSET Incidents]]
    <3>1. \A p \in PollState(Len(audit), points) :
            p \in [incidents : {"none", "asked", "served"}, ids : Seq(Nat),
                   spatial : {"none", "asked", "served"}, drawn : SUBSET Incidents]
      BY <2>1, <2>2 DEF PollState
    <3> QED
      BY <3>1 DEF StoredInv
  <2> QED
    BY <2>1, <2>2, <2>3 DEF StoredInv, PaneInv, TypeOK
<1> QED
  BY <1>1, StoredInvariant, PaneInvariant, PTL

\* However old the answers the page has taken, each row it lists is a row of the
\* trail, and each point it draws is in the vector store: a click on a row asks
\* for an incident that has one.
THEOREM ShownIsStored ==
  Spec => []((\A k \in DOMAIN feed : feed[k] \in DOMAIN audit) /\ galaxy \subseteq points)
<1>1. StoredInv => (\A k \in DOMAIN feed : feed[k] \in DOMAIN audit) /\ galaxy \subseteq points
  <2> SUFFICES ASSUME StoredInv
               PROVE  (\A k \in DOMAIN feed : feed[k] \in DOMAIN audit) /\ galaxy \subseteq points
    OBVIOUS
  <2>1. DOMAIN audit = 1..Len(audit) /\ feed \in Seq(1..Len(audit)) /\ galaxy \subseteq points
    BY DEF StoredInv, SeederTypeOK
  <2> QED
    BY <2>1
<1> QED
  BY <1>1, StoredInvariant, PTL
=============================================================================
