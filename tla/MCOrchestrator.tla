--------------------------- MODULE MCOrchestrator ---------------------------
(***************************************************************************)
(* Small instances of Orchestrator for TLC, with the signatures that       *)
(* FuzzyHash makes of the lines of the stream:                             *)
(*   warn1  "TIME=1 LEVEL=WARN MSG=slow SOURCE=pod-1": neither severe nor  *)
(*          tagged                                                         *)
(*   warn2  the same message, later and from pod-2: another text and so    *)
(*          another vector, one that is familiar                           *)
(*   red    "TIME=2 LEVEL=ERROR MSG=pool SOURCE=db-primary": tagged        *)
(***************************************************************************)
EXTENDS Orchestrator, TLC

CONSTANTS warn1, warn2, red,   \* log lines
          u, v, x,             \* their vectors
          pod1, pod2, db

Capitals == "TIME=" :> "time=" @@ "LEVEL=" :> "level=" @@ "WARN" :> "warn"
            @@ "ERROR" :> "error" @@ "MSG=" :> "msg=" @@ "SOURCE=" :> "source="
MCLower(fragment) == IF fragment \in DOMAIN Capitals THEN Capitals[fragment] ELSE fragment

Hash == INSTANCE FuzzyHash WITH Lower <- MCLower

Line(time, level, msg, source) ==
    << <<"TIME=", time>>, <<"LEVEL=", level>>, <<"MSG=", msg>>, <<"SOURCE=">> \o source >>

Text == warn1 :> Line("1", "WARN", "slow", <<"pod-", "1">>)
        @@ warn2 :> Line("2", "WARN", "slow", <<"pod-", "2">>)
        @@ red :> Line("2", "ERROR", "pool", <<"db-primary">>)

LineEmbedding == warn1 :> u @@ warn2 :> v @@ red :> x
LineSignature == warn1 :> Hash!getFuzzyHash(Text[warn1])
                 @@ warn2 :> Hash!getFuzzyHash(Text[warn2])
                 @@ red :> Hash!getFuzzyHash(Text[red])
LinePod == warn1 :> pod1 @@ warn2 :> pod2 @@ red :> db

MCEmbedding == [log \in Logs |-> LineEmbedding[log]]
MCSignature == [log \in Logs |-> LineSignature[log]]
MCSigs == {MCSignature[log] : log \in Logs}
MCPodOf == [log \in Logs |-> LinePod[log]]
MCTagged == Logs \cap {red}

\* u and v are close to each other, x is far from both.
MCSimilarity ==
    [p \in Vectors \X Vectors |-> IF p[1] = p[2] THEN 100
                                  ELSE IF x \in {p[1], p[2]} THEN 40 ELSE 95]

WorkerSymmetry == Permutations(Workers)
=============================================================================
