--------------------------- MODULE LineSequences ---------------------------
(***************************************************************************)
(* What the rules about lines do with sequences: select by position, drop  *)
(* repetitions, map and add up.  They are recursive functions, because the *)
(* provers see no definition of SelectSeq and of the library's folds.      *)
(***************************************************************************)
EXTENDS Naturals, Sequences

\* The elements at some positions, in order.
Picked(seq, at) ==
    LET picked[i \in 0 .. Len(seq)] ==
            IF i = 0 THEN <<>>
            ELSE IF i \in at THEN Append(picked[i - 1], seq[i]) ELSE picked[i - 1]
    IN  picked[Len(seq)]

Select(seq, Holds(_)) == Picked(seq, {i \in DOMAIN seq : Holds(seq[i])})

\* The first of the elements with one key, in order.
FirstOccurrences(seq, Key(_)) ==
    Picked(seq, {i \in DOMAIN seq : \A j \in 1 .. i - 1 : Key(seq[j]) # Key(seq[i])})

\* The same for neighbours only.
Unrepeated(seq, Key(_)) ==
    Picked(seq, {i \in DOMAIN seq : i > 1 => Key(seq[i - 1]) # Key(seq[i])})

Map(seq, F(_)) == [i \in DOMAIN seq |-> F(seq[i])]

Total(counts) ==
    LET total[i \in 0 .. Len(counts)] == IF i = 0 THEN 0 ELSE total[i - 1] + counts[i]
    IN  total[Len(counts)]
=============================================================================
