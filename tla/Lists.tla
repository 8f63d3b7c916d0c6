-------------------------------- MODULE Lists --------------------------------
(***************************************************************************)
(* Lists of values, as the runtime filters them: the elements that meet a  *)
(* condition, in their order.  A condition is the set of the values that   *)
(* meet it; Sequences has SelectSeq for the same purpose, of which the     *)
(* proof system does not know the definition.                              *)
(***************************************************************************)
EXTENDS Naturals, Sequences

\* The elements of a list.
SetOf(s) == {s[i] : i \in DOMAIN s}

\* The elements of s that are in S, in their order.
Kept(s, S) ==
    LET upTo[i \in 0..Len(s)] ==
            IF i = 0 THEN <<>>
            ELSE IF s[i] \in S THEN Append(upTo[i - 1], s[i]) ELSE upTo[i - 1]
    IN  upTo[Len(s)]

\* The elements of s that are not in S.
Dropped(s, S) == Kept(s, SetOf(s) \ S)
=============================================================================
