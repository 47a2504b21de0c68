----------------------------- MODULE ItemGroups -----------------------------
(***************************************************************************)
(* Item groups and the items in them, kept by ERPNext and changed from     *)
(* here (core/admin/service/mutations, erpnext/admin/write). A node that   *)
(* gets a child must be marked as a group first; each of the requests to   *)
(* ERPNext is a step of its own.                                           *)
(***************************************************************************)
EXTENDS AccessRequests

CONSTANTS
  Groups,       \* names of nodes, those there are and those to be created
  Root,         \* All Item Groups
  FirstTree,    \* node -> its parent, for the nodes there are
  FirstGroups,  \* the nodes marked as groups; old trees have unmarked ones
  GroupItems    \* items, all in the root at first

ASSUME GroupsAssumption == FirstGroups \subseteq Groups

VARIABLES
  parent,       \* node -> its parent, or None
  isGroup,      \* nodes marked as groups
  itemGroup,    \* item -> its node
  placed        \* history: nodes whose place was set from here

groupVars == <<parent, isGroup, itemGroup, placed>>

Nodes == {g \in Groups : parent[g] # None} \cup {Root}
Children(g) == {x \in Groups : parent[x] = g}

(* ERPNext refuses a node under itself; the depth of the tree is bounded   *)
(* by the number of its nodes.                                             *)
Above[g \in Groups \cup {Root}, n \in 0..Cardinality(Groups)] ==
  IF n = 0 \/ g = Root \/ parent[g] = None THEN {g} ELSE {g} \cup Above[parent[g], n - 1]
Under(g) == {x \in Groups : g \in Above[x, Cardinality(Groups)]}

AskCreateGroup(h, name, under, mark) ==
  /\ Begin(h, "createGroup", "parentRow", {"groups"}, [name |-> name, parent |-> under, mark |-> mark])
  /\ UNCHANGED groupVars

AskMoveGroup(h, name, under) ==
  /\ Begin(h, "moveGroup", IF name \in {Root, under} THEN "refused" ELSE "row",
           {"groups"}, [name |-> name, parent |-> under])
  /\ UNCHANGED groupVars

AskMoveItems(h, items, group) ==
  /\ Begin(h, "moveItems", IF items = {} THEN "refused" ELSE "item",
           {"groups"}, [items |-> items, parent |-> group])
  /\ UNCHANGED groupVars

Refused(h) == At(h, "refused") /\ Finish(h) /\ NoFault /\ UNCHANGED groupVars

(* The node that moves: one with children that is not marked is marked.    *)
ReadRow(h) ==
  /\ At(h, "row")
  /\ LET g == jobs[h].arg.name IN
     IF g \notin Nodes THEN Finish(h)
     ELSE Go(h, IF g \notin isGroup /\ Children(g) # {} THEN "promote" ELSE "parentRow")
  /\ NoFault /\ UNCHANGED groupVars

Promote(h) ==
  /\ At(h, "promote")
  /\ isGroup' = isGroup \cup {jobs[h].arg.name}
  /\ Go(h, "parentRow") /\ NoFault /\ UNCHANGED <<parent, itemGroup, placed>>

ReadParent_BadMarksRoot(h) ==
  /\ At(h, "parentRow")
  /\ LET p == jobs[h].arg.parent IN
     IF p \notin Nodes THEN Finish(h) ELSE Go(h, IF p \in isGroup THEN "place" ELSE "promoteParent")
  /\ NoFault /\ UNCHANGED groupVars

(* The parent must accept children.                                        *)
ReadParent(h) ==
  /\ At(h, "parentRow")
  /\ LET p == jobs[h].arg.parent IN
     IF p \notin Nodes THEN Finish(h)
     ELSE Go(h, IF p = Root \/ p \in isGroup THEN "place" ELSE "promoteParent")
  /\ NoFault /\ UNCHANGED groupVars

PromoteParent(h) ==
  /\ At(h, "promoteParent")
  /\ isGroup' = isGroup \cup {jobs[h].arg.parent}
  /\ Go(h, "place") /\ NoFault /\ UNCHANGED <<parent, itemGroup, placed>>

Place(h) ==
  /\ At(h, "place")
  /\ LET job == jobs[h]
         g == job.arg.name
         refused == IF job.op = "createGroup" THEN g \in Nodes
                    ELSE job.arg.parent \in Under(g) IN
     IF refused THEN Finish(h) /\ UNCHANGED groupVars
     ELSE /\ parent' = [parent EXCEPT ![g] = job.arg.parent]
          /\ isGroup' = IF job.op = "createGroup" /\ job.arg.mark THEN isGroup \cup {g} ELSE isGroup
          /\ placed' = placed \cup {g}
          /\ Finish(h) /\ UNCHANGED itemGroup
  /\ NoFault

(* Items move one by one; those that could not are told.                   *)
MoveItem(h) ==
  /\ At(h, "item")
  /\ LET left == jobs[h].arg.items
         i == CHOOSE x \in left : TRUE IN
     IF left = {} THEN Finish(h) /\ NoFault /\ UNCHANGED itemGroup
     ELSE \E ok \in BOOLEAN :
       /\ Outcome(ok)
       /\ itemGroup' = IF ok THEN [itemGroup EXCEPT ![i] = jobs[h].arg.parent] ELSE itemGroup
       /\ Continue(h, [jobs[h] EXCEPT !.arg.items = @ \ {i}])
  /\ UNCHANGED <<parent, isGroup, placed>>

GroupWaits == {"row", "promote", "parentRow", "promoteParent", "place"}
GroupFails(h) ==
  Working(h) /\ jobs[h].pc \in GroupWaits /\ Fault /\ Finish(h) /\ UNCHANGED groupVars

GroupStep(h) ==
  \/ \E g \in Groups, p \in Groups \cup {Root}, mark \in BOOLEAN : AskCreateGroup(h, g, p, mark)
  \/ \E g \in Groups, p \in Groups \cup {Root} : AskMoveGroup(h, g, p)
  \/ \E items \in SUBSET GroupItems, g \in Groups : AskMoveItems(h, items, g)
  \/ Refused(h) \/ ReadRow(h) \/ Promote(h) \/ ReadParent(h) \/ PromoteParent(h) \/ Place(h)
  \/ MoveItem(h) \/ GroupFails(h)

GroupsInit ==
  /\ parent = [g \in Groups |-> IF g \in DOMAIN FirstTree THEN FirstTree[g] ELSE None]
  /\ isGroup = FirstGroups
  /\ itemGroup = [i \in GroupItems |-> Root]
  /\ placed = {}
==============================================================================
