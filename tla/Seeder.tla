------------------------------- MODULE Seeder -------------------------------
(***************************************************************************)
(* The writers of the two stores the dashboard shows: the audit trail and  *)
(* the points of Qdrant.  The seeder (seed.go) embeds each line of         *)
(* seed_logs.txt, upserts its point, records its row and only then looks   *)
(* at the error of the upsert.  It can be run again, and interrupted       *)
(* anywhere.  The orchestrator writes at the same time; of Orchestrator    *)
(* only its upserts and inserts are left.                                  *)
(***************************************************************************)
EXTENDS Integers, Sequences, FiniteSets

CONSTANTS
    Incidents,     \* qIDs
    SeedFile,      \* the incidents the engine makes of the lines of the file
    Met,           \* the incidents whose lines reach the orchestrator
    SeedFaults,    \* which calls may fail: "infer" and "upsert" of the seeder, "insert"
                   \* of either, "orchestrator" (its upsert); "kill" of the seeder
    RowActions,    \* what the orchestrator's rows say
    MaxRows,       \* bound: rows of the trail
    MaxRuns        \* bound: runs of the seeder

ASSUME SeederAssumption ==
    /\ SeedFile \in Seq(Incidents)
    /\ Met \subseteq Incidents
    /\ "SEEDED_LOG" \notin RowActions
    /\ MaxRows \in Nat
    /\ MaxRuns \in Nat

VARIABLES
    audit,    \* the rows of audit_logs; the id of a row is its position
    points,   \* ids of the points of incident_vectors
    step,     \* the call the seeder makes next; "off" when it does not run
    line,     \* the line of the file it is at
    failed,   \* the upsert of that line has returned an error
    runs,
    stops     \* runs that log.Fatalf has ended

trail == <<audit, points>>
seeder == <<step, line, failed, runs, stops>>

-----------------------------------------------------------------------------

Row == [q : Incidents, action : RowActions \cup {"SEEDED_LOG"}]

\* RecordIncident: an insert that fails (the database is locked for more than
\* busy_timeout) is only logged.
RecordIncident(row) ==
    \/ Len(audit) < MaxRows /\ audit' = Append(audit, row)
    \/ "insert" \in SeedFaults /\ UNCHANGED audit

StartSeeder ==
    /\ step = "off" /\ runs < MaxRuns
    /\ runs' = runs + 1
    /\ step' = "next"
    /\ UNCHANGED <<trail, line, failed, stops>>

More == step = "next" /\ line <= Len(SeedFile)

\* Mutant: the end of the file is not noticed.
EmbedFailsBeyond ==
    /\ step = "next" /\ "infer" \in SeedFaults
    /\ line' = line + 1
    /\ UNCHANGED <<trail, step, failed, runs, stops>>

\* The engine does not answer: the line is skipped.
EmbedFails ==
    /\ More /\ "infer" \in SeedFaults
    /\ line' = line + 1
    /\ UNCHANGED <<trail, step, failed, runs, stops>>

\* The engine embeds the line, and its point is upserted; a call that returns
\* an error may have been executed.
UpsertSeed ==
    /\ More
    /\ \/ failed' = FALSE /\ points' = points \cup {SeedFile[line]}
       \/ /\ "upsert" \in SeedFaults /\ failed' = TRUE
          /\ points' \in {points, points \cup {SeedFile[line]}}
    /\ step' = "record"
    /\ UNCHANGED <<audit, line, runs, stops>>

Exit == step' = "off" /\ line' = 1 /\ failed' = FALSE

\* Mutant: log.Printf instead of log.Fatalf.
RecordSeedGoesOn ==
    /\ step = "record"
    /\ RecordIncident([q |-> SeedFile[line], action |-> "SEEDED_LOG"])
    /\ step' = "next" /\ line' = line + 1 /\ failed' = FALSE
    /\ UNCHANGED <<points, runs, stops>>

\* The row is written whether or not there is a point; then log.Fatalf when
\* there is none.
RecordSeed ==
    /\ step = "record"
    /\ RecordIncident([q |-> SeedFile[line], action |-> "SEEDED_LOG"])
    /\ IF failed
       THEN Exit /\ stops' = stops + 1
       ELSE step' = "next" /\ line' = line + 1 /\ UNCHANGED <<failed, stops>>
    /\ UNCHANGED <<points, runs>>

\* The end of the file, or an interrupt anywhere.
EndSeeder ==
    /\ \/ step = "next" /\ line > Len(SeedFile)
       \/ step # "off" /\ "kill" \in SeedFaults
    /\ Exit
    /\ UNCHANGED <<trail, runs, stops>>

SeederInit ==
    /\ audit = <<>> /\ points = {}
    /\ step = "off" /\ line = 1 /\ failed = FALSE
    /\ runs = 0 /\ stops = 0

SeederNext == \/ StartSeeder \/ EmbedFails \/ UpsertSeed
              \/ RecordSeed \/ EndSeeder

-----------------------------------------------------------------------------
(* The orchestrator's writes                                               *)

OrchestratorUpserts(q) ==
    /\ q \notin points
    /\ points' = points \cup {q}
    /\ UNCHANGED <<audit, seeder>>

\* After its upsert, whose error is only logged: then there may be no point.
OrchestratorRecords(q, action) ==
    /\ q \in points \/ "orchestrator" \in SeedFaults
    /\ RecordIncident([q |-> q, action |-> action])
    /\ UNCHANGED <<points, seeder>>

OrchestratorWrites ==
    \E q \in Met : \/ OrchestratorUpserts(q)
                   \/ \E action \in RowActions : OrchestratorRecords(q, action)

-----------------------------------------------------------------------------

(* Correctness                                                             *)

\* The types of the stores and of the seeder; a row is only recorded for a line
\* of the file.
SeederTypeOK ==
    /\ audit \in Seq(Row)
    /\ points \subseteq Incidents
    /\ step \in {"off", "next", "record"}
    /\ line \in 1..Len(SeedFile) + 1
    /\ step = "record" => line <= Len(SeedFile)
    /\ failed \in BOOLEAN
    /\ runs \in Nat
    /\ stops \in Nat

Orphans == {i \in DOMAIN audit : audit[i].action = "SEEDED_LOG"
                               /\ audit[i].q \notin points}

\* The seeder records a row before it looks at the error of the upsert
\* (seed.go:90-94).  Since it then dies, no more rows of the seeder lack a
\* point than it has died so.
SeedRowHasPoint == Cardinality(Orphans) <= stops
=============================================================================
