---------------------------- MODULE InputTensor ----------------------------
(***************************************************************************)
(* What the model is given: the rows that Tokenizer makes of the log lines *)
(* of the valid requests of a batch, one after another, which ONNX reads   *)
(* in rows of 128 (thread_pool.hpp:76-110).                                *)
(***************************************************************************)
EXTENDS InferenceEngine, Tokenizer

CONSTANT Text    \* Text[r]: the words of the log line of call r

ASSUME TextAssumption == Text \in [Requests -> Seq(Seq(Chars))]

\* The tokens that RunInference queues with the promise of each request.
Row == [r \in Requests |-> tokenize(Text[r])]

\* batch_tokens of worker w: the rows of the valid requests one after another.
BatchTokens(w) == FlattenSeq([b \in DOMAIN local[w].valid |->
                                Row[local[w].batch[local[w].valid[b]]]])

\* Whatever the lengths of the lines, row b of the tensor is that of the b-th
\* valid request, and the tokens are as many as the shape says.
RowsAligned ==
    \A w \in Workers : wpc[w] = "run" =>
        LET valid == local[w].valid IN
        /\ Len(BatchTokens(w)) = Len(valid) * MaxLength
        /\ \A b \in DOMAIN valid :
             SubSeq(BatchTokens(w), (b - 1) * MaxLength + 1, b * MaxLength)
               = Row[local[w].batch[valid[b]]]
=============================================================================
