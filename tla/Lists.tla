------------------------------- MODULE Lists -------------------------------
(***************************************************************************)
(* Sorting and filtering, as the iterators of the source do them.  The     *)
(* SelectSeq of the standard modules says the same, but the provers cannot *)
(* look into it.                                                           *)
(***************************************************************************)
EXTENDS Naturals, FiniteSets, SequencesExt

\* Those under x in an order given by its pairs.
Under(R, S, x) == {y \in S : <<y, x>> \in R}

Ranked(S, R) ==
    [k \in 1 .. Cardinality(S) |->
        CHOOSE x \in S : Cardinality(Under(R, S, x)) = k - 1]

\* The elements of S in the order of less, a strict total order on S.
OrderOf(S, less(_, _)) == {p \in S \X S : less(p[1], p[2])}

Sorted(S, less(_, _)) == Ranked(S, OrderOf(S, less))

\* The elements at some positions, in the order of the sequence.
Sublist(seq, K) ==
    LET upto[k \in 0 .. Len(seq)] ==
            IF k = 0 THEN <<>>
            ELSE IF k \in K THEN Append(upto[k - 1], seq[k]) ELSE upto[k - 1]
    IN  upto[Len(seq)]

Selected(seq, test(_)) == Sublist(seq, {k \in DOMAIN seq : test(seq[k])})
=============================================================================
