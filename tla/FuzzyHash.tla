------------------------------ MODULE FuzzyHash ------------------------------
(***************************************************************************)
(* The signature of a log line in the embedding cache (cache.go).  A line  *)
(* is a sequence of words and a word a sequence of fragments, chosen so    *)
(* that two sequences of fragments never spell the same text and none of   *)
(* the three noisy texts straddles two of them.  FNV-1a is taken to have   *)
(* no collisions: the hash is the text that was written to it.             *)
(***************************************************************************)
EXTENDS SequencesExt

CONSTANT Lower(_)   \* strings.ToLower of a fragment

Noise == {"pod-", "127.0.0.1", "time="}

IsNoisy(word) == \E i \in DOMAIN word : word[i] \in Noise

\* Words are compared in lower case; the others are hashed one after another,
\* with nothing between them.
getFuzzyHash(words) ==
    FlattenSeq(SelectSeq([k \in DOMAIN words |->
                            [i \in DOMAIN words[k] |-> Lower(words[k][i])]],
                         LAMBDA word : ~IsNoisy(word)))
=============================================================================
