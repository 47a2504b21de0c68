----------------------- MODULE ProductionQueueLedger -----------------------
(***************************************************************************)
(* ProductionQueue against StageLedger.  While every map keeps the work    *)
(* stages of its plan and each station of a plan occurs in it once, the    *)
(* row of order o under the title of its i-th stage is the ledger's entry  *)
(* for that stage, and every action of the queue is a ledger step or       *)
(* leaves the ledger alone.                                                *)
(***************************************************************************)
EXTENDS ProductionQueue

CONSTANT Plan   \* Plan[o]: the titles of order o's stages

PlanRow(m) ==
  /\ Len(m.stages) = Len(Plan[m.order])
  /\ \A i \in DOMAIN m.stages : m.stages[i].station = Plan[m.order][i]

ASSUME PlanAssumption ==
  /\ Plan \in [Orders -> Seq(Stations)]
  /\ \A o \in Orders : \A i, j \in DOMAIN Plan[o] :
       TitlesMatch(Plan[o][i], Plan[o][j]) => i = j
  /\ \A r \in InitialRoutes, o \in Orders : PlanRow([order |-> o, stages |-> r[o]])
  /\ \A batch \in Saves : \A i \in DOMAIN batch : PlanRow(batch[i])
  /\ MoveLists = {}

stageLedger ==
  [o \in Orders |-> [i \in DOMAIN Plan[o] |-> queueStates[Plan[o][i]][o]]]

Ledger == INSTANCE StageLedger WITH ledger <- stageLedger

\* Requests of many operators, reading and writing whole tables in between
\* each other, add up to orders going through their stages one at a time, in
\* the order of the map, each stage once (chain::order_ready_for_station).
ImplementsLedger == Ledger!Spec
=============================================================================
