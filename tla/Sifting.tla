------------------------------ MODULE Sifting ------------------------------
(***************************************************************************)
(* Rows taken out of an ordered list, the others left in their order: what *)
(* Vec::retain and an SQL DELETE do.                                       *)
(***************************************************************************)
EXTENDS Naturals, Sequences

Sift(list, drop) ==
  LET kept[i \in 0 .. Len(list)] ==
        IF i = 0 THEN <<>>
        ELSE IF list[i] \in drop THEN kept[i - 1] ELSE Append(kept[i - 1], list[i])
  IN  kept[Len(list)]
=============================================================================
