------------------------------- MODULE Filters -------------------------------
(***************************************************************************)
(* SelectSeq, written out as a recursive function: the provers do not know *)
(* the definition of the standard module's operator.                       *)
(***************************************************************************)
EXTENDS Naturals, Sequences

(* The elements of s that pass the test, in their order. *)
Filter(s, Test(_)) ==
    LET Kept[i \in 0 .. Len(s)] ==
          IF i = 0 THEN <<>>
          ELSE IF Test(s[i]) THEN Append(Kept[i - 1], s[i])
          ELSE Kept[i - 1]
    IN Kept[Len(s)]
=============================================================================
