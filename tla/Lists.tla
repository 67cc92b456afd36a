------------------------------- MODULE Lists -------------------------------
(***************************************************************************)
(* Lists that the code builds by going through another list and keeping    *)
(* some of it, in the same order.                                          *)
(***************************************************************************)
EXTENDS Naturals, Sequences

\* What of the list is in the set.
Kept(list, set) ==
    LET kept[i \in 0..Len(list)] ==
            IF i = 0 THEN <<>>
            ELSE IF list[i] \in set THEN Append(kept[i - 1], list[i])
            ELSE kept[i - 1]
    IN kept[Len(list)]
=============================================================================
