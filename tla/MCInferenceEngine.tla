------------------------- MODULE MCInferenceEngine -------------------------
(***************************************************************************)
(* Small instances of InferenceEngine for TLC: calls of the orchestrator,  *)
(* which names the model "embedder", and one of client.py, which asks for  *)
(* "classifier", a model the engine does not load.                         *)
(***************************************************************************)
EXTENDS Telemetry, InputTensor, TLC

CONSTANTS r1, r2, r3, c1

MCModelOf == [r \in Requests |-> IF r = c1 THEN "classifier" ELSE "embedder"]
MCLoaded == {"embedder"}

MCVocabFile == << <<"a">>, <<>>, <<"a", "b">>, <<"#", "#", "b">>, <<"#", "#", "b", "c">>,
                  <<"a">>, <<"#", "#", "b", "b">> >>
MCChars == {"a", "b", "c", "A", "#"}
MCLower(char) == IF char = "A" THEN "a" ELSE char

\* A short text, one that leaves no room for the separator, and one that
\* leaves just that.
ab == <<"a", "b">>
abb == <<"A", "b", "b">>
MCText == [r \in Requests |->
             CASE r = r1 -> << ab, <<"c">> >>
               [] r = c1 -> << abb, abb, abb, <<"a", "b", "c">> >>
               [] OTHER  -> << abb, abb, <<"b">>, ab >>]

\* Every word of up to four letters.
ASSUME WordsAreSpelled == \A word \in UNION {[1..n -> {"a", "b", "c"}] : n \in 1..4} :
                             Spelled(word)
=============================================================================
