------------------------- MODULE MCProductionQueue -------------------------
(***************************************************************************)
(* Small instances of ProductionQueue: two orders through a press and a    *)
(* laminator, and a second press to move them to.                          *)
(***************************************************************************)
EXTENDS ProductionQueue

CONSTANTS press, press2, lam, lamA, wpress, wpress2, wlam

MCOrders == {1, 2}
OneTitleEach == {<<s, s>> : s \in Stations}
LamAlias == OneTitleEach \cup {<<lam, lamA>>, <<lamA, lam>>}
At(s) == [station |-> s, task |-> FALSE, assigned |-> NoStation]
Task(s) == [station |-> s, task |-> TRUE, assigned |-> NoStation]
PressThenLam == <<At(press), Task(lam)>>
SameRoute == [o \in MCOrders |-> PressThenLam]
Map(o) == [order |-> o, stages |-> PressThenLam]

\* An admin saves one map, the ERP sync all of them in one batch.
Resaves == {<<Map(1)>>, <<Map(2)>>}
MCRoutes == {SameRoute}
BothListed == {MCOrders}
NothingListed == {{}}

\* chain: the press queue is planned, the laminator's is reordered at will;
\* its operator asks under two titles of the machine, planners use one.
ChainAssigned == wpress :> {press} @@ wlam :> {lam}
ChainInitialSequences ==
  {[s \in Stations |-> IF s = lamA THEN NoSequence ELSE <<1, 2>>]}
ChainKeys == {lam}
ChainChoices == {<<1, 2>>, <<2, 1>>}

\* shared: two operators of the press.
SharedAssigned == wpress :> {press} @@ wpress2 :> {press}

\* faults: both orders appear by a sync and are moved to the second press in
\* one batch, order 1 by its title, order 2 by its alternative assignment,
\* and back by the next sync; writes are torn.
FaultAssigned == wpress :> {press, press2} @@ wlam :> {lam}
Alternatives == <<[At(press) EXCEPT !.assigned = press]>>
FaultRoutes == {1 :> PressThenLam @@ 2 :> Alternatives}
NoInitialSequences == {[s \in Stations |-> NoSequence]}
PressMoves == {<<o, press, press2>> : o \in MCOrders}
BatchMove == {<<1, 2>>}
Syncs == {<<Map(1), [order |-> 2, stages |-> Alternatives]>>}
=============================================================================
