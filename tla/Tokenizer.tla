------------------------------ MODULE Tokenizer ------------------------------
(***************************************************************************)
(* WordPiece as the C++ engine does it (src/tokenizer.cpp).  A text is a   *)
(* sequence of words, what >> finds between blanks, and a word a sequence  *)
(* of characters.  The row of a text is what RunInference queues and       *)
(* worker_loop concatenates to the input tensor.                           *)
(***************************************************************************)
EXTENDS Integers, SequencesExt

CONSTANTS
    Chars,       \* the characters of words
    VocabFile,   \* the lines of vocab.txt
    MaxLength,   \* 128 in the code
    Lower(_)     \* tolower of a character

ASSUME TokenizerAssumption ==
    /\ VocabFile \in Seq(Seq(Chars))
    /\ MaxLength \in Nat \ {0}

Unknown == 100
Cls == 101
Sep == 102
Bad == -1    \* no piece fits here

-----------------------------------------------------------------------------

\* Blank lines count, and of equal lines the last one gives the index, from 0.
vocab == [line \in ToSet(VocabFile) \ {<<>>} |->
            Max({i \in DOMAIN VocabFile : VocabFile[i] = line}) - 1]

\* A piece that does not begin the word is looked up behind ##.
Piece(word, start, end) ==
    (IF start = 1 THEN <<>> ELSE <<"#", "#">>) \o SubSeq(word, start, end)

\* Again and again the longest piece that fits; the whole word is unknown when
\* at some place none does.
wordpiece_tokenize(word) ==
    LET Ends(start) == {end \in start..Len(word) :
                          Piece(word, start, end) \in DOMAIN vocab}
        ids[start \in 1..Len(word) + 1] ==
          IF start > Len(word) THEN <<>>
          ELSE IF Ends(start) = {} THEN <<Bad>>
          ELSE LET end == Max(Ends(start))
               IN  <<vocab[Piece(word, start, end)]>> \o ids[end + 1]
    IN  IF Contains(ids[1], Bad) THEN <<Unknown>> ELSE ids[1]

\* Mutant: a text that fills the row is not cut.
ResizeLate(ids) == IF Len(ids) > MaxLength THEN SubSeq(ids, 1, MaxLength - 1) ELSE ids

\* Room is made for the separator.
Resize(ids) == IF Len(ids) >= MaxLength THEN SubSeq(ids, 1, MaxLength - 1) ELSE ids

tokenize(text) ==
    LET low(word) == [i \in DOMAIN word |-> Lower(word[i])]
        ids == Resize(<<Cls>> \o FlattenSeq([k \in DOMAIN text |->
                                               wordpiece_tokenize(low(text[k]))]))
               \o <<Sep>>
    IN  ids \o [i \in 1..MaxLength - Len(ids) |-> 0]

-----------------------------------------------------------------------------
(* The reference                                                           *)

\* The pieces of word end at the places of ends, one after another, and each of
\* them is the longest that fits where it begins.
PieceStart(ends, i) == IF i = 1 THEN 1 ELSE ends[i - 1] + 1
LongestPieces(word, ends) ==
    /\ PieceStart(ends, Len(ends) + 1) = Len(word) + 1
    /\ \A i \in DOMAIN ends :
         /\ PieceStart(ends, i) <= ends[i]
         /\ Piece(word, PieceStart(ends, i), ends[i]) \in DOMAIN vocab
         /\ \A end \in ends[i] + 1..Len(word) :
              Piece(word, PieceStart(ends, i), end) \notin DOMAIN vocab

Divisions(word) == {ends \in UNION {[1..k -> 1..Len(word)] : k \in 0..Len(word)} :
                      LongestPieces(word, ends)}

\* The ids of a word are those of its longest pieces, or the unknown one when
\* there is no such division (tokenizer.cpp:64-101).
Spelled(word) ==
    /\ Divisions(word) = {} => wordpiece_tokenize(word) = <<Unknown>>
    /\ \A ends \in Divisions(word) :
         wordpiece_tokenize(word) =
           [i \in DOMAIN ends |-> vocab[Piece(word, PieceStart(ends, i), ends[i])]]
=============================================================================
