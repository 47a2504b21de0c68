--------------------------- MODULE MCQueueLedger ---------------------------
(***************************************************************************)
(* The instances of MCProductionQueue in which every map keeps its plan.   *)
(***************************************************************************)
EXTENDS MCProductionQueue, ProductionQueueLedger

MCPlan == [o \in MCOrders |-> <<press, lam>>]
=============================================================================
