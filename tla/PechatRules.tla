----------------------------- MODULE PechatRules -----------------------------
(***************************************************************************)
(* Which printing press ("pechat") may take an order.  A press prints 7, 8 *)
(* or 9 colours; an order names the rolls and the width it needs.          *)
(***************************************************************************)
EXTENDS Integers, Sequences, SequencesExt

CONSTANTS
  Colors,      \* the colours of a title's press, absent for other machines
  Laminators   \* the titles that are a laminator's

NoColors == 0  \* the title or the order names no press
Unstated == 0  \* the rolls or the width of an order that states none

ColorCount(title) == IF title \in DOMAIN Colors THEN Colors[title] ELSE NoColors

\* The plate is a multiple of 50 mm, 1300 the largest.
Rubber(width) == 50 * Max({1, Min({26, (width + 49) \div 50})})

LaminatsiyaRubberTooLarge(map) ==
  /\ map.width > 0 /\ Rubber(map.width) > 1050
  /\ \E n \in Range(map.nodes) : n.kind \in {"apparatus", "task"}
                                   /\ n.title \in Laminators

Required(size, seven, eight) ==
  IF size <= seven THEN 7 ELSE IF size <= eight THEN 8 ELSE 9

Recommended(map) ==
  LET needs == (IF map.rolls > 0 THEN {Required(map.rolls, 7, 8)} ELSE {}) \cup
               (IF map.width > 0 THEN {Required(Rubber(map.width), 800, 1000)} ELSE {})
  IN  IF needs = {} \/ map.rolls > 9 THEN NoColors ELSE Max(needs)

CanHandle(count, map) ==
  /\ map.rolls <= count
  /\ map.width > 0 =>
       Rubber(map.width) \in CASE count = 7 -> 0..800
                               [] count = 8 -> 150..1000
                               [] count = 9 -> 800..1300

\* Down to fewer colours the order must fit; up, or from a machine that is
\* no press, one that does not say what it needs may not take the largest.
PechatCanMove(count, map, source) ==
  /\ count >= Recommended(map)
  /\ IF count < source THEN map.width > 0 /\ CanHandle(count, map)
     ELSE IF Unstated \in {map.rolls, map.width} THEN count # 9
     ELSE CanHandle(count, map)

-----------------------------------------------------------------------------
Apparatus(map) == {n \in Range(map.nodes) : n.kind = "apparatus"}
OrderColors(map) == Max({NoColors} \cup {ColorCount(n.title) : n \in Apparatus(map)})

\* The groups of alternatives whose order is assigned to from.
GroupsAssigned(map, from) ==
  {n.group : n \in {n \in Apparatus(map) : n.group # "" /\ n.assigned = from}}

MoveAllowed(map, from, to) ==
  IF {from, to} \cap Laminators # {}
  THEN LET groups == GroupsAssigned(map, from)
       IN  /\ {from, to} \subseteq Laminators
           /\ \/ groups = {}
              \/ \E n \in Apparatus(map) : n.group \in groups /\ n.title = to
  ELSE \/ ColorCount(to) = NoColors
       \/ /\ ~map.flexo
          /\ PechatCanMove(ColorCount(to), map,
                           IF ColorCount(from) # NoColors THEN ColorCount(from)
                           ELSE OrderColors(map))

\* An order among alternatives is assigned anew, any other has its nodes
\* named anew.
Reassigned(map, from, to) ==
  LET groups == GroupsAssigned(map, from)
      move(n) == IF n.kind # "apparatus" THEN n
                 ELSE IF n.group \in groups THEN [n EXCEPT !.assigned = to]
                 ELSE IF groups = {} /\ n.title = from THEN [n EXCEPT !.title = to]
                 ELSE n
  IN  [map EXCEPT !.nodes = [i \in DOMAIN map.nodes |-> move(map.nodes[i])]]
=============================================================================
