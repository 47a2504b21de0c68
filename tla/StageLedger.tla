---------------------------- MODULE StageLedger ----------------------------
(***************************************************************************)
(* What the apparatus queues promise the shop floor, with no queue, no     *)
(* store and no request left in it: every production order has a plan, a   *)
(* list of work stages, and goes through that list strictly one stage at a *)
(* time; a stage is started once, finished once, and never undone.         *)
(*                                                                         *)
(* ProductionQueue (core/production_map) is shown to implement this when   *)
(* every apparatus has one operator and no write is torn.                  *)
(***************************************************************************)
EXTENDS Naturals, Sequences

CONSTANTS
  Orders,       \* production orders
  Plan          \* Plan[o]: the work stages of order o, first to last

VARIABLE ledger \* ledger[o][i]: how far stage i of order o has come

Stages(o) == 1 .. Len(Plan[o])

Init == ledger = [o \in Orders |-> [i \in Stages(o) |-> "pending"]]

Start(o, i) ==
  /\ ledger[o][i] = "pending"
  /\ i > 1 => ledger[o][i - 1] = "completed"
  /\ ledger' = [ledger EXCEPT ![o][i] = "in_progress"]

Complete(o, i) ==
  /\ ledger[o][i] = "in_progress"
  /\ ledger' = [ledger EXCEPT ![o][i] = "completed"]

Next == \E o \in Orders : \E i \in Stages(o) : Start(o, i) \/ Complete(o, i)

Spec == Init /\ [][Next]_ledger
=============================================================================
