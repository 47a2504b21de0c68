----------------------- MODULE ProductionQueueProofs -----------------------
(***************************************************************************)
(* Proofs about ProductionQueue, for every set of orders, apparatus,       *)
(* operators and planners and every assignment; then about the ledger of   *)
(* stages it implements. Plan, and what is assumed of it, is of the second *)
(* part alone.                                                             *)
(***************************************************************************)
EXTENDS ProductionQueueLedger, LeastNumbers, TLAPS

\* A request is kept under a title that matches the one it asked for
\* (resolve_apparatus_storage_key).
LEMMA StorageKeyMatches ==
  ASSUME NEW s \in Stations, NEW known \in SUBSET Stations
  PROVE  /\ StorageKey(s, known) \in Stations
         /\ TitlesMatch(s, StorageKey(s, known))
  BY MatchesAssumption DEF StorageKey, TitlesMatch

LEMMA KnownKeysType ==
  ASSUME NEW seqs, NEW states
  PROVE  KnownKeys(seqs, states) \in SUBSET Stations
  BY DEF KnownKeys

LEMMA IdleTypes ==
  /\ IdleRequest \in Request
  /\ NoRow \in [Orders -> QueueState]
  /\ NoRows \in [Stations -> [Orders -> QueueState]]
  /\ NoSequences \in [Stations -> Seq(Orders) \cup {NoSequence}]
  /\ NoWrite \in [key : Stations, row : [Orders -> QueueState]]
<1>1. IdleRequest \in Request
  BY OrdersAssumption, StationsAssumption DEF IdleRequest, Request, Action
<1>2. NoRow \in [Orders -> QueueState]
  BY DEF NoRow, QueueState
<1>3. QED
  BY <1>1, <1>2 DEF NoRows, NoSequences, NoWrite, Request

\* The rows a decision writes are the rows it read, one of them advanced.
LEMMA DecisionType ==
  ASSUME NEW seqs,
         NEW states \in [Stations -> [Orders -> QueueState]],
         NEW s \in Stations, NEW o \in Orders, NEW a \in Action
  PROVE  Decision(seqs, states, s, o, a) \in [key : Stations, row : [Orders -> QueueState]]
<1> DEFINE key == StorageKey(s, KnownKeys(seqs, states))
<1>1. key \in Stations
  BY StorageKeyMatches, KnownKeysType
<1>2. Yields[a] \in QueueState
  BY DEF Yields, Action, QueueState
<1>3. [states[key] EXCEPT ![o] = Yields[a]] \in [Orders -> QueueState]
  BY <1>1, <1>2
<1>4. QED
  BY <1>1, <1>3 DEF Decision

LEMMA PutMapsType ==
  ASSUME maps \subseteq Orders, newer \subseteq maps \X maps,
         route \in [Orders -> Seq(Stage)],
         NEW batch \in Seq(MapRow), PutMaps(batch)
  PROVE  /\ maps' \subseteq Orders
         /\ newer' \subseteq maps' \X maps'
         /\ route' \in [Orders -> Seq(Stage)]
<1> DEFINE ids == {batch[i].order : i \in DOMAIN batch}
           row(o) == CHOOSE i \in DOMAIN batch : batch[i].order = o
<1>1. \A i \in DOMAIN batch : batch[i] \in MapRow
  OBVIOUS
<1>2. ids \subseteq Orders
  BY <1>1 DEF MapRow
<1>3. maps' \subseteq Orders /\ newer' \subseteq maps' \X maps'
  BY <1>2 DEF PutMaps
<1>4. ASSUME NEW o \in ids PROVE batch[row(o)].stages \in Seq(Stage)
  <2>1. row(o) \in DOMAIN batch
    OBVIOUS
  <2>2. QED
    BY <2>1, <1>1 DEF MapRow
<1>5. route' \in [Orders -> Seq(Stage)]
  BY <1>4 DEF PutMaps
<1>6. QED
  BY <1>3, <1>5

LEMMA ReassignedType ==
  ASSUME NEW stages \in Seq(Stage), NEW from \in Stations, NEW to \in Stations
  PROVE  Reassigned(stages, from, to) \in Seq(Stage)
<1>1. \A i \in DOMAIN stages : stages[i] \in Stage
  OBVIOUS
<1>2. \A i \in DOMAIN stages :
        /\ [stages[i] EXCEPT !.assigned = to] \in Stage
        /\ [stages[i] EXCEPT !.station = to] \in Stage
  BY <1>1 DEF Stage
<1>3. \A i \in DOMAIN stages : Reassigned(stages, from, to)[i] \in Stage
  BY <1>1, <1>2 DEF Reassigned
<1>4. DOMAIN Reassigned(stages, from, to) = 1 .. Len(stages) /\ Len(stages) \in Nat
  BY DEF Reassigned
<1>5. Reassigned(stages, from, to) \in [1 .. Len(stages) -> Stage]
  BY <1>3, <1>4 DEF Reassigned
<1>6. QED
  BY <1>4, <1>5

LEMMA ForgetType ==
  ASSUME TypeOK, NEW w \in Workers, Forget(w)
  PROVE  /\ pc' \in [Workers -> {"idle", "read_states", "read_maps", "put"}]
         /\ request' \in [Workers -> Request]
         /\ seqsRead' \in [Workers -> [Stations -> Seq(Orders) \cup {NoSequence}]]
         /\ statesRead' \in [Workers -> [Stations -> [Orders -> QueueState]]]
         /\ write' \in [Workers -> [key : Stations, row : [Orders -> QueueState]]]
  BY IdleTypes DEF TypeOK, Forget

LEMMA StepTyped == TypeOK /\ [Next]_vars => TypeOK'
<1> SUFFICES ASSUME TypeOK, [Next]_vars PROVE TypeOK'
  OBVIOUS
<1>1. ASSUME NEW w \in Workers, ReadSequences(w) PROVE TypeOK'
  BY <1>1 DEF ReadSequences, TypeOK, store
<1>2. ASSUME NEW w \in Workers, ReadQueueStates(w) PROVE TypeOK'
  BY <1>2 DEF ReadQueueStates, TypeOK, store
<1>3. ASSUME NEW w \in Workers, ReadMapsAccept(w) PROVE TypeOK'
  <2> DEFINE r == request[w]
  <2>1. Decision(seqsRead[w], statesRead[w], r.station, r.order, r.action)
          \in [key : Stations, row : [Orders -> QueueState]]
    BY DecisionType DEF TypeOK, Request
  <2>2. QED
    BY <1>3, <2>1, IdleTypes DEF ReadMapsAccept, TypeOK, store
<1>4. ASSUME NEW w \in Workers, ReadMapsRefuse(w) PROVE TypeOK'
  BY <1>4, ForgetType DEF ReadMapsRefuse, TypeOK, store
<1>5. ASSUME NEW w \in Workers, PutQueueStates(w) PROVE TypeOK'
  BY <1>5, ForgetType DEF PutQueueStates, TypeOK
<1>6. CASE SetSequence
  BY <1>6, PlannersAssumption DEF SetSequence, TypeOK, locals
<1>7. CASE SaveMaps
  BY <1>7, PutMapsType, PlannersAssumption DEF SaveMaps, TypeOK, locals
<1>8. ASSUME NEW p \in Planners, ReadForMove(p) PROVE TypeOK'
  <2>1. PICK ids \in MoveLists, from \in Stations, to \in Stations :
          /\ \A i \in DOMAIN ids : ids[i] \in maps
          /\ moving' = [moving EXCEPT ![p] = MovedMaps(ids, from, to)]
    BY <1>8 DEF ReadForMove
  <2> DEFINE batch == MovedMaps(ids, from, to)
  <2>2. ids \in Seq(Orders) /\ DOMAIN ids = 1 .. Len(ids) /\ Len(ids) \in Nat
    BY PlannersAssumption
  <2>3. \A i \in DOMAIN ids : route[ids[i]] \in Seq(Stage)
    BY <2>1 DEF TypeOK
  <2>4. \A i \in DOMAIN ids : batch[i] \in MapRow
    BY <2>2, <2>3, ReassignedType DEF MapRow, MovedMaps
  <2>5. batch \in Seq(MapRow)
    BY <2>2, <2>4 DEF MovedMaps
  <2>6. QED
    BY <1>8, <2>1, <2>5 DEF ReadForMove, TypeOK, store, locals
<1>9. ASSUME NEW p \in Planners, WriteMove(p) PROVE TypeOK'
  <2>1. moving[p] \in Seq(MapRow) /\ PutMaps(moving[p])
    BY <1>9 DEF WriteMove, TypeOK
  <2>2. QED
    BY <1>9, <2>1, PutMapsType DEF WriteMove, TypeOK, locals
<1>10. ASSUME NEW w \in Workers, TornPut(w) PROVE TypeOK'
  BY <1>10, ForgetType DEF TornPut, TypeOK, QueueState
<1>11. ASSUME NEW w \in Workers, StoreFailed(w) PROVE TypeOK'
  BY <1>11, ForgetType DEF StoreFailed, TypeOK, store
<1>12. CASE Restart
  BY <1>12, IdleTypes DEF Restart, TypeOK, store
<1>13. CASE UNCHANGED vars
  BY <1>13 DEF vars, locals, TypeOK
<1>14. QED
  BY <1>1, <1>2, <1>3, <1>4, <1>5, <1>6, <1>7, <1>8, <1>9, <1>10, <1>11, <1>12, <1>13
     DEF Next, NormalNext, OperatorStep, PlannerStep, Fault

\* Everything the model holds keeps its type, faults included.
THEOREM TypeCorrect == Spec => []TypeOK
<1>1. Init => TypeOK
  BY InitialAssumption, IdleTypes DEF Init, TypeOK
<1>2. QED
  BY <1>1, StepTyped, PTL DEF Spec

-----------------------------------------------------------------------------
(***************************************************************************)
(* With one operator per apparatus, what a request has read of its own     *)
(* rows is still in the store when it writes.                              *)
(***************************************************************************)
Current(w) ==
  LET s == request[w].station
      o == request[w].order
      k == write[w].key
  IN  /\ pc[w] # "idle" => MayRequest(w, s)
      /\ pc[w] = "read_maps" =>
           \A l \in Stations : TitlesMatch(s, l) => statesRead[w][l] = queueStates[l]
      /\ pc[w] = "put" =>
           /\ TitlesMatch(s, k)
           /\ queueStates[k][o] = Needs[request[w].action]
           /\ write[w].row = [queueStates[k] EXCEPT ![o] = Yields[request[w].action]]

ReadIsCurrent == \A w \in Workers : Current(w)

IInv == TypeOK /\ ReadIsCurrent

LEMMA InitReadIsCurrent == Init => ReadIsCurrent
  BY DEF Init, ReadIsCurrent, Current

LEMMA IdleIsCurrent ==
  ASSUME NEW w \in Workers, pc'[w] = "idle" PROVE Current(w)'
  BY DEF Current

LEMMA CurrentKept ==
  ASSUME IInv, NEW v \in Workers,
         pc'[v] = pc[v], request'[v] = request[v],
         statesRead'[v] = statesRead[v], write'[v] = write[v],
         \A l \in Stations :
           pc[v] # "idle" /\ TitlesMatch(request[v].station, l) =>
             queueStates'[l] = queueStates[l]
  PROVE  Current(v)'
<1>1. Current(v) /\ write[v].key \in Stations
  BY DEF IInv, ReadIsCurrent, TypeOK
<1>2. MayRequest(v, request[v].station)' = MayRequest(v, request[v].station)
  BY DEF MayRequest, TitlesMatch
<1>3. \A l : TitlesMatch(request[v].station, l)' = TitlesMatch(request[v].station, l)
  BY DEF TitlesMatch
<1>4. QED
  BY <1>1, <1>2, <1>3 DEF Current, MayRequest, TitlesMatch

\* A write lands on rows no other operator has read for its own request.
LEMMA OthersRowsUntouched ==
  ASSUME IInv, Exclusive, NEW w \in Workers, pc[w] = "put",
         NEW v \in Workers, v # w, pc[v] # "idle",
         NEW k \in Stations, TitlesMatch(request[v].station, k)
  PROVE  k # write[w].key
<1>1. MayRequest(w, request[w].station) /\ TitlesMatch(request[w].station, write[w].key)
  BY DEF IInv, ReadIsCurrent, Current
<1>2. MayRequest(v, request[v].station)
  BY DEF IInv, ReadIsCurrent, Current
<1>3. request[w].station \in Stations /\ request[v].station \in Stations
  BY DEF IInv, TypeOK, Request
<1>4. QED
  BY <1>1, <1>2, <1>3 DEF Exclusive

\* Any change of one operator's rows, followed by forgetting the request,
\* leaves everybody else's copies current.
LEMMA WriteKeepsCurrent ==
  ASSUME IInv, Exclusive, NEW w \in Workers, pc[w] = "put", Forget(w),
         NEW row \in [Orders -> QueueState],
         queueStates' = [queueStates EXCEPT ![write[w].key] = row]
  PROVE  ReadIsCurrent'
<1> SUFFICES ASSUME NEW v \in Workers PROVE Current(v)'
  BY DEF ReadIsCurrent
<1>1. CASE v = w
  BY <1>1, IdleIsCurrent DEF Forget, IInv, TypeOK
<1>2. CASE v # w
  <2>1. /\ pc'[v] = pc[v] /\ request'[v] = request[v]
        /\ statesRead'[v] = statesRead[v] /\ write'[v] = write[v]
    BY <1>2 DEF Forget, IInv, TypeOK
  <2>2. ASSUME NEW l \in Stations, pc[v] # "idle", TitlesMatch(request[v].station, l)
        PROVE  queueStates'[l] = queueStates[l]
    BY <1>2, <2>2, OthersRowsUntouched DEF IInv, TypeOK
  <2>3. QED
    BY <2>1, <2>2, CurrentKept
<1>3. QED
  BY <1>1, <1>2

\* A step of w that leaves the rows and the other operators' locals alone.
LEMMA LocalStepKeepsCurrent ==
  ASSUME IInv, NEW w \in Workers, UNCHANGED queueStates, Current(w)',
         \A v \in Workers : v # w =>
           /\ pc'[v] = pc[v] /\ request'[v] = request[v]
           /\ statesRead'[v] = statesRead[v] /\ write'[v] = write[v]
  PROVE  ReadIsCurrent'
<1> SUFFICES ASSUME NEW v \in Workers, v # w PROVE Current(v)'
  BY DEF ReadIsCurrent
<1>1. QED
  BY CurrentKept

LEMMA StepReadIsCurrent ==
  ASSUME IInv, Exclusive, [Next]_vars
  PROVE  ReadIsCurrent'
<1> USE DEF IInv
<1>1. ASSUME NEW w \in Workers, ReadSequences(w) PROVE ReadIsCurrent'
  <2>1. PICK r \in Request : MayRequest(w, r.station) /\ request' = [request EXCEPT ![w] = r]
    BY <1>1 DEF ReadSequences
  <2>2. pc'[w] = "read_states" /\ request'[w] = r
    BY <1>1, <2>1 DEF ReadSequences, TypeOK
  <2>3. Current(w)'
    BY <2>1, <2>2 DEF Current, MayRequest, TitlesMatch
  <2>4. QED
    BY <1>1, <2>1, <2>3, LocalStepKeepsCurrent DEF ReadSequences, TypeOK, store
<1>2. ASSUME NEW w \in Workers, ReadQueueStates(w) PROVE ReadIsCurrent'
  <2>1. pc[w] = "read_states" /\ pc'[w] = "read_maps" /\ request' = request
    BY <1>2 DEF ReadQueueStates, TypeOK
  <2>2. statesRead'[w] = queueStates /\ queueStates' = queueStates
    BY <1>2 DEF ReadQueueStates, TypeOK, store
  <2>3. MayRequest(w, request[w].station)
    BY <2>1 DEF ReadIsCurrent, Current
  <2>4. Current(w)'
    BY <2>1, <2>2, <2>3 DEF Current, MayRequest, TitlesMatch
  <2>5. QED
    BY <1>2, <2>4, LocalStepKeepsCurrent DEF ReadQueueStates, TypeOK, store
<1>3. ASSUME NEW w \in Workers, ReadMapsAccept(w) PROVE ReadIsCurrent'
  <2> DEFINE s == request[w].station
             o == request[w].order
             a == request[w].action
             key == StorageKey(s, KnownKeys(seqsRead[w], statesRead[w]))
  <2>1. s \in Stations /\ o \in Orders /\ a \in Action
    BY DEF TypeOK, Request
  <2>2. key \in Stations /\ TitlesMatch(s, key)
    BY <2>1, StorageKeyMatches, KnownKeysType
  <2>3. statesRead[w][key] = queueStates[key] /\ MayRequest(w, s)
    BY <1>3, <2>2 DEF ReadMapsAccept, ReadIsCurrent, Current
  <2>4. statesRead[w][key][o] = Needs[a]
    BY <1>3 DEF ReadMapsAccept, Accepts
  <2>5. write'[w] = [key |-> key, row |-> [statesRead[w][key] EXCEPT ![o] = Yields[a]]]
    BY <1>3 DEF ReadMapsAccept, Decision, TypeOK
  <2>6. pc'[w] = "put" /\ request' = request /\ queueStates' = queueStates
    BY <1>3 DEF ReadMapsAccept, TypeOK, store
  <2>7. Current(w)'
    BY <2>2, <2>3, <2>4, <2>5, <2>6 DEF Current, MayRequest, TitlesMatch
  <2>8. QED
    BY <1>3, <2>7, LocalStepKeepsCurrent DEF ReadMapsAccept, TypeOK, store
<1>4. ASSUME NEW w \in Workers, ReadMapsRefuse(w) PROVE ReadIsCurrent'
  BY <1>4, IdleIsCurrent, LocalStepKeepsCurrent DEF ReadMapsRefuse, Forget, TypeOK, store
<1>5. ASSUME NEW w \in Workers, PutQueueStates(w) PROVE ReadIsCurrent'
  BY <1>5, WriteKeepsCurrent DEF PutQueueStates, TypeOK
<1>6. ASSUME NEW w \in Workers, TornPut(w) PROVE ReadIsCurrent'
  <2>1. PICK cut \in Orders : queueStates' = [queueStates EXCEPT ![write[w].key] =
          [o \in Orders |-> IF o < cut THEN write[w].row[o] ELSE "pending"]]
    BY <1>6 DEF TornPut
  <2>2. [o \in Orders |-> IF o < cut THEN write[w].row[o] ELSE "pending"]
          \in [Orders -> QueueState]
    BY DEF TypeOK, QueueState
  <2>3. QED
    BY <1>6, <2>1, <2>2, WriteKeepsCurrent DEF TornPut
<1>7. ASSUME NEW w \in Workers, StoreFailed(w) PROVE ReadIsCurrent'
  BY <1>7, IdleIsCurrent, LocalStepKeepsCurrent DEF StoreFailed, Forget, TypeOK, store
<1>8. CASE Restart
  BY <1>8, IdleIsCurrent DEF Restart, ReadIsCurrent
<1>9. ASSUME UNCHANGED <<locals, queueStates>> PROVE ReadIsCurrent'
  BY <1>9, CurrentKept DEF locals, ReadIsCurrent
<1>10. QED
  BY <1>1, <1>2, <1>3, <1>4, <1>5, <1>6, <1>7, <1>8, <1>9
     DEF Next, NormalNext, OperatorStep, PlannerStep, Fault, SetSequence, SaveMaps,
         ReadForMove, WriteMove, vars, store

\* The write of a request advances its order by one and rewrites the rest of
\* the rows as they are.
LEMMA PutAdvances ==
  ASSUME IInv, NEW w \in Workers, pc[w] = "put"
  PROVE  LET k == write[w].key
             o == request[w].order
         IN  /\ k \in Stations /\ o \in Orders
             /\ Rank[write[w].row[o]] = Rank[queueStates[k][o]] + 1
             /\ \A p \in Orders : p # o => write[w].row[p] = queueStates[k][p]
<1> DEFINE k == write[w].key
           o == request[w].order
           a == request[w].action
<1>1. k \in Stations /\ o \in Orders /\ a \in Action /\ queueStates[k] \in [Orders -> QueueState]
  BY DEF IInv, TypeOK, Request
<1>2. queueStates[k][o] = Needs[a] /\ write[w].row = [queueStates[k] EXCEPT ![o] = Yields[a]]
  BY DEF IInv, ReadIsCurrent, Current
<1>3. Rank[Yields[a]] = Rank[Needs[a]] + 1
  BY <1>1 DEF Rank, Yields, Needs, Action
<1>4. QED
  BY <1>1, <1>2, <1>3

LEMMA RankType == \A q \in QueueState : Rank[q] \in 0 .. 2
  BY DEF Rank, QueueState

LEMMA PutIsEarnedAndKept ==
  ASSUME IInv, NEW w \in Workers, PutQueueStates(w)
  PROVE  EarnedStep /\ KeptStep
<1> DEFINE k == write[w].key
           o == request[w].order
<1>1. /\ k \in Stations /\ o \in Orders
      /\ Rank[write[w].row[o]] = Rank[queueStates[k][o]] + 1
      /\ \A p \in Orders : p # o => write[w].row[p] = queueStates[k][p]
  BY PutAdvances DEF PutQueueStates
<1>2. /\ queueStates'[k] = write[w].row
      /\ \A l \in Stations : l # k => queueStates'[l] = queueStates[l]
  BY <1>1 DEF PutQueueStates, IInv, TypeOK
<1>3. \A l \in Stations, p \in Orders : Rank[queueStates[l][p]] \in 0 .. 2
  BY RankType DEF IInv, TypeOK
<1>4. \A l \in Stations, p \in Orders :
        Rank[queueStates'[l][p]] =
          IF l = k /\ p = o THEN Rank[queueStates[l][p]] + 1 ELSE Rank[queueStates[l][p]]
  BY <1>1, <1>2
<1>5. QED
  BY <1>3, <1>4 DEF EarnedStep, KeptStep

LEMMA TornPutIsEarned ==
  ASSUME IInv, NEW w \in Workers, TornPut(w)
  PROVE  EarnedStep
<1> DEFINE k == write[w].key
           o == request[w].order
<1>1. /\ k \in Stations /\ o \in Orders
      /\ Rank[write[w].row[o]] = Rank[queueStates[k][o]] + 1
      /\ \A p \in Orders : p # o => write[w].row[p] = queueStates[k][p]
  BY PutAdvances DEF TornPut
<1>2. PICK cut \in Orders : queueStates' = [queueStates EXCEPT ![write[w].key] =
        [p \in Orders |-> IF p < cut THEN write[w].row[p] ELSE "pending"]]
  BY DEF TornPut
<1>3. /\ \A p \in Orders : queueStates'[k][p] \in {write[w].row[p], "pending"}
      /\ \A l \in Stations : l # k => queueStates'[l] = queueStates[l]
  BY <1>1, <1>2 DEF IInv, TypeOK
<1>4. \A l \in Stations, p \in Orders : Rank[queueStates[l][p]] \in 0 .. 2
  BY RankType DEF IInv, TypeOK
<1>5. Rank["pending"] = 0
  BY DEF Rank
<1>6. \A l \in Stations, p \in Orders :
        \/ Rank[queueStates'[l][p]] = 0
        \/ Rank[queueStates'[l][p]] =
             IF l = k /\ p = o THEN Rank[queueStates[l][p]] + 1 ELSE Rank[queueStates[l][p]]
  BY <1>1, <1>3, <1>5
<1>7. \A l \in Stations, p \in Orders :
        /\ Rank[queueStates'[l][p]] <= Rank[queueStates[l][p]] + 1
        /\ Rank[queueStates'[l][p]] > Rank[queueStates[l][p]] => l = k /\ p = o
  BY <1>4, <1>6
<1>8. QED
  BY <1>7 DEF EarnedStep

LEMMA SameRowsIsEarnedAndKept ==
  ASSUME IInv, UNCHANGED queueStates
  PROVE  EarnedStep /\ KeptStep
<1>1. \A l \in Stations, p \in Orders : Rank[queueStates[l][p]] \in 0 .. 2
  BY RankType DEF IInv, TypeOK
<1>2. QED
  BY <1>1 DEF EarnedStep, KeptStep

LEMMA NormalStepIsEarnedAndKept ==
  ASSUME IInv, [NormalNext]_vars
  PROVE  EarnedStep /\ KeptStep
<1>1. ASSUME NEW w \in Workers, PutQueueStates(w) PROVE EarnedStep /\ KeptStep
  BY <1>1, PutIsEarnedAndKept
<1>2. CASE UNCHANGED queueStates
  BY <1>2, SameRowsIsEarnedAndKept
<1>3. QED
  BY <1>1, <1>2
     DEF NormalNext, OperatorStep, PlannerStep, ReadSequences, ReadQueueStates,
         ReadMapsAccept, ReadMapsRefuse, SetSequence, SaveMaps, ReadForMove, WriteMove,
         vars, store

LEMMA StepIsEarned ==
  ASSUME IInv, [Next]_vars
  PROVE  EarnedStep
<1>1. CASE [NormalNext]_vars
  BY <1>1, NormalStepIsEarnedAndKept
<1>2. ASSUME NEW w \in Workers, TornPut(w) PROVE EarnedStep
  BY <1>2, TornPutIsEarned
<1>3. CASE UNCHANGED queueStates
  BY <1>3, SameRowsIsEarnedAndKept
<1>4. QED
  BY <1>1, <1>2, <1>3 DEF Next, Fault, StoreFailed, Restart, store

\* With one operator per apparatus, what a request read of its own rows is
\* still in the store when it writes, across faults, saves and moves.
THEOREM ReadsStayCurrent == Exclusive => (Spec => []ReadIsCurrent)
<1> SUFFICES ASSUME Exclusive PROVE Spec => []ReadIsCurrent
  OBVIOUS
<1>1. Init => ReadIsCurrent
  BY InitReadIsCurrent
<1>2. TypeOK /\ ReadIsCurrent /\ [Next]_vars => ReadIsCurrent'
  BY StepReadIsCurrent DEF IInv
<1>3. Spec => []TypeOK
  BY TypeCorrect
<1>4. QED
  BY <1>1, <1>2, <1>3, PTL DEF Spec

\* With one operator per apparatus, no step credits an apparatus with work
\* nobody did, torn writes and restarts included.
THEOREM ProgressEarned == Exclusive => (Spec => ProgressIsEarned)
<1> SUFFICES ASSUME Exclusive PROVE Spec => ProgressIsEarned
  OBVIOUS
<1>1. Spec => []TypeOK
  BY TypeCorrect
<1>2. Spec => []ReadIsCurrent
  BY ReadsStayCurrent
<1>3. TypeOK /\ ReadIsCurrent /\ [Next]_vars => [EarnedStep]_vars
  BY StepIsEarned DEF IInv
<1>4. QED
  BY <1>1, <1>2, <1>3, PTL DEF Spec, ProgressIsEarned

\* With one operator per apparatus and no faults, no order ever goes back.
THEOREM ProgressKept == Exclusive => (NormalSpec => ProgressIsKept)
<1> SUFFICES ASSUME Exclusive PROVE NormalSpec => ProgressIsKept
  OBVIOUS
<1>1. [NormalNext]_vars => [Next]_vars
  BY DEF Next
<1>2. NormalSpec => Spec
  BY <1>1, PTL DEF NormalSpec, Spec
<1>3. Spec => []TypeOK
  BY TypeCorrect
<1>4. Spec => []ReadIsCurrent
  BY ReadsStayCurrent
<1>5. TypeOK /\ ReadIsCurrent /\ [NormalNext]_vars => [KeptStep]_vars
  BY NormalStepIsEarnedAndKept DEF IInv
<1>6. QED
  BY <1>2, <1>3, <1>4, <1>5, PTL DEF NormalSpec, ProgressIsKept

-----------------------------------------------------------------------------
(***************************************************************************)
(* One key per apparatus.  Titles fall into classes, one per machine (what *)
(* warehouse_base_title leaves of them), and planners sequence a machine   *)
(* from the start under one of its titles, or never.  Then the keys a      *)
(* request may choose from (resolve_apparatus_storage_key), stale as its   *)
(* copies are, hold at most one of its machine, and no write adds another. *)
(***************************************************************************)
\* Titles of the same machine, whichever two are compared.
TitlesAreClasses ==
  \A s, t, u \in Stations : TitlesMatch(s, t) /\ TitlesMatch(t, u) => TitlesMatch(s, u)

\* Planners and the store at the start have a sequence under this title, or
\* neither ever has.
Sequenced(k) == \A q \in InitialSequences : q[k] # NoSequence
Unsequenced(k) == k \notin SequenceKeys /\ \A q \in InitialSequences : q[k] = NoSequence

\* A machine is sequenced under one of its titles.
OneTitlePlanned ==
  /\ \A k \in Stations : Sequenced(k) \/ Unsequenced(k)
  /\ \A k, l \in Stations : TitlesMatch(k, l) /\ Sequenced(k) /\ Sequenced(l) => k = l

OneKeyEach == Exclusive /\ TitlesAreClasses /\ OneTitlePlanned

\* The keys resolve_apparatus_storage_key would find in the store.
Known == KnownKeys(sequences, queueStates)

\* Who read the sequences when makes no difference to which titles have one.
SequencedInv ==
  /\ \A k \in Stations : sequences[k] # NoSequence <=> Sequenced(k)
  /\ \A w \in Workers, k \in Stations :
       pc[w] \in {"read_states", "read_maps"} =>
         (seqsRead[w][k] # NoSequence <=> Sequenced(k))

OneKnown ==
  \A k, l \in Known : TitlesMatch(k, l) => k = l

\* A decided write goes to the key its machine has, if it has one.
WritesKnown ==
  \A w \in Workers : pc[w] = "put" =>
     \A l \in Known : TitlesMatch(request[w].station, l) => l = write[w].key

KeyInv == SequencedInv /\ OneKnown /\ WritesKnown

LEMMA InitKeyInv ==
  ASSUME OneKeyEach, Init
  PROVE  KeyInv
<1>1. SequencedInv
  BY InitialAssumption DEF OneKeyEach, OneTitlePlanned, Init, SequencedInv, Sequenced, Unsequenced
<1>2. \A k \in Known : Sequenced(k)
  BY <1>1 DEF Init, Known, KnownKeys, HasRows, NoRows, NoRow, SequencedInv
<1>3. OneKnown
  BY <1>2 DEF OneKnown, OneKeyEach, OneTitlePlanned, Known, KnownKeys
<1>4. WritesKnown
  BY DEF Init, WritesKnown
<1> QED
  BY <1>1, <1>3, <1>4 DEF KeyInv

\* Planners overwrite rows of apparatus_sequences, they make and delete none.
LEMMA StepSequenced ==
  ASSUME OneKeyEach, IInv, SequencedInv, [Next]_vars
  PROVE  SequencedInv'
<1> USE DEF IInv
<1>1. ASSUME NEW w \in Workers, ReadSequences(w) PROVE SequencedInv'
  BY <1>1 DEF ReadSequences, SequencedInv, store, TypeOK
<1>2. ASSUME NEW w \in Workers, ReadQueueStates(w) PROVE SequencedInv'
  BY <1>2 DEF ReadQueueStates, SequencedInv, store, TypeOK
<1>3. ASSUME NEW w \in Workers, ReadMapsAccept(w) PROVE SequencedInv'
  BY <1>3 DEF ReadMapsAccept, SequencedInv, store, TypeOK
<1>4. ASSUME NEW w \in Workers, Forget(w), UNCHANGED sequences PROVE SequencedInv'
  BY <1>4 DEF Forget, SequencedInv, TypeOK
<1>5. CASE SetSequence
  <2>1. PICK k \in SequenceKeys, q \in SequenceChoices :
          sequences' = [sequences EXCEPT ![k] = q]
    BY <1>5 DEF SetSequence
  <2>2. q # NoSequence /\ k \in Stations /\ Sequenced(k)
    BY PlannersAssumption, NoSequenceAssumption DEF OneKeyEach, OneTitlePlanned, Unsequenced
  <2> QED
    BY <1>5, <2>1, <2>2 DEF SetSequence, SequencedInv, locals, TypeOK
<1>6. CASE UNCHANGED <<sequences, locals>>
  BY <1>6 DEF SequencedInv, locals
<1>7. CASE Restart
  BY <1>7 DEF Restart, SequencedInv, store
<1> QED
  BY <1>1, <1>2, <1>3, <1>4, <1>5, <1>6, <1>7
     DEF Next, NormalNext, OperatorStep, PlannerStep, Fault, SaveMaps, ReadForMove, WriteMove,
         ReadMapsRefuse, PutQueueStates, TornPut, StoreFailed, vars, store

\* The keys a request knows, of its own apparatus, are those of the store.
LEMMA KnownIsCurrent ==
  ASSUME IInv, SequencedInv, NEW w \in Workers, pc[w] = "read_maps",
         NEW l \in Stations, TitlesMatch(request[w].station, l)
  PROVE  l \in KnownKeys(seqsRead[w], statesRead[w]) <=> l \in Known
<1>1. statesRead[w][l] = queueStates[l]
  BY DEF IInv, ReadIsCurrent, Current
<1>2. seqsRead[w][l] # NoSequence <=> sequences[l] # NoSequence
  BY DEF SequencedInv
<1> QED
  BY <1>1, <1>2 DEF Known, KnownKeys

\* The key a request decides on is the only one its apparatus then has.
LEMMA DecisionIsKnown ==
  ASSUME OneKeyEach, IInv, SequencedInv, OneKnown,
         NEW w \in Workers, pc[w] = "read_maps",
         NEW l \in Known, TitlesMatch(request[w].station, l)
  PROVE  l = StorageKey(request[w].station, KnownKeys(seqsRead[w], statesRead[w]))
<1> DEFINE s == request[w].station
           known == KnownKeys(seqsRead[w], statesRead[w])
           key == StorageKey(s, known)
<1>1. s \in Stations /\ known \in SUBSET Stations /\ l \in Stations /\ l \in known
  BY KnownKeysType, KnownIsCurrent DEF IInv, TypeOK, Request, Known, KnownKeys
<1>2. key \in known /\ key \in Stations /\ TitlesMatch(s, key)
  BY <1>1, StorageKeyMatches DEF StorageKey
<1>3. key \in Known
  BY <1>2, KnownIsCurrent
<1>4. TitlesMatch(l, key)
  <2>1. TitlesMatch(l, s)
    BY <1>1, MatchesAssumption DEF TitlesMatch
  <2> QED
    BY <1>1, <1>2, <2>1 DEF OneKeyEach, TitlesAreClasses
<1> QED
  BY <1>3, <1>4 DEF OneKnown

\* A step after which an apparatus has no key it did not have, and in which
\* nobody decides.
LEMMA FewerKeys ==
  ASSUME OneKnown, WritesKnown, Known' \subseteq Known,
         \A w \in Workers : pc'[w] = "put" =>
           pc[w] = "put" /\ request'[w] = request[w] /\ write'[w] = write[w]
  PROVE  OneKnown' /\ WritesKnown'
  BY DEF OneKnown, WritesKnown, TitlesMatch

\* The one write that may add a key.
LEMMA PutKeepsKeys ==
  ASSUME OneKeyEach, IInv, KeyInv, NEW w \in Workers, pc[w] = "put", Forget(w),
         NEW row, queueStates' = [queueStates EXCEPT ![write[w].key] = row],
         UNCHANGED sequences
  PROVE  OneKnown' /\ WritesKnown'
<1> DEFINE k == write[w].key
           s == request[w].station
<1>1. k \in Stations /\ s \in Stations /\ TitlesMatch(s, k)
  BY DEF IInv, TypeOK, Request, ReadIsCurrent, Current
<1>2. Known' \subseteq Known \cup {k}
  BY <1>1 DEF Known, KnownKeys, HasRows, IInv, TypeOK
<1>3. ASSUME NEW l \in Known, TitlesMatch(l, k) PROVE l = k
  <2>1. l \in Stations /\ TitlesMatch(k, l)
    BY <1>1, <1>3, MatchesAssumption DEF Known, KnownKeys, TitlesMatch
  <2>2. TitlesMatch(s, l)
    BY <1>1, <2>1 DEF OneKeyEach, TitlesAreClasses
  <2> QED
    BY <2>2 DEF KeyInv, WritesKnown
<1>4. OneKnown'
  <2> SUFFICES ASSUME NEW a \in Known', NEW b \in Known', TitlesMatch(a, b)
               PROVE  a = b
    BY DEF OneKnown, TitlesMatch
  <2>1. TitlesMatch(b, a)
    BY MatchesAssumption DEF Known, KnownKeys, TitlesMatch
  <2> QED
    BY <1>2, <1>3, <2>1 DEF KeyInv, OneKnown
<1>5. WritesKnown'
  <2> SUFFICES ASSUME NEW v \in Workers, pc'[v] = "put", NEW l \in Known',
                      TitlesMatch(request'[v].station, l)
               PROVE  l = write'[v].key
    BY DEF WritesKnown, TitlesMatch
  <2>1. /\ v # w /\ pc[v] = "put"
        /\ request'[v] = request[v] /\ write'[v] = write[v]
    BY DEF Forget, IInv, TypeOK
  <2>2. l # k
    BY <1>1, <2>1, OthersRowsUntouched DEF OneKeyEach
  <2> QED
    BY <1>2, <2>1, <2>2 DEF KeyInv, WritesKnown
<1> QED
  BY <1>4, <1>5

LEMMA StepKeyInv ==
  ASSUME OneKeyEach, IInv, KeyInv, [Next]_vars
  PROVE  KeyInv'
<1>1. SequencedInv'
  BY StepSequenced DEF KeyInv
<1>2. CASE UNCHANGED queueStates
  <2>1. Known' \subseteq Known
    BY <1>1, <1>2 DEF Known, KnownKeys, KeyInv, SequencedInv
  <2>2. ASSUME NEW w \in Workers, ReadMapsAccept(w) PROVE OneKnown' /\ WritesKnown'
    <3>1. /\ pc[w] = "read_maps" /\ request' = request
          /\ write'[w].key = StorageKey(request[w].station, KnownKeys(seqsRead[w], statesRead[w]))
          /\ \A v \in Workers \ {w} : pc'[v] = pc[v] /\ write'[v] = write[v]
      BY <2>2 DEF ReadMapsAccept, Decision, IInv, TypeOK
    <3>2. OneKnown'
      BY <2>1 DEF KeyInv, OneKnown, TitlesMatch
    <3>3. \A l \in Known : TitlesMatch(request[w].station, l) => l = write'[w].key
      BY <3>1, DecisionIsKnown DEF KeyInv
    <3>4. WritesKnown'
      BY <2>1, <3>1, <3>3 DEF KeyInv, WritesKnown, TitlesMatch
    <3> QED
      BY <3>2, <3>4
  <2>3. CASE \A w \in Workers : ~ReadMapsAccept(w)
    <3>1. \A w \in Workers : pc'[w] = "put" =>
            pc[w] = "put" /\ request'[w] = request[w] /\ write'[w] = write[w]
      BY <2>3 DEF IInv, TypeOK, Next, NormalNext, OperatorStep, PlannerStep, Fault,
           ReadSequences, ReadQueueStates, ReadMapsRefuse, PutQueueStates, SetSequence,
           SaveMaps, ReadForMove, WriteMove, TornPut, StoreFailed, Restart, Forget,
           vars, store, locals
    <3> QED
      BY <1>1, <2>1, <3>1, FewerKeys DEF KeyInv
  <2> QED
    BY <1>1, <2>2, <2>3 DEF KeyInv
<1>3. ASSUME NEW w \in Workers, PutQueueStates(w) \/ TornPut(w) PROVE KeyInv'
  <2>1. /\ pc[w] = "put" /\ Forget(w) /\ UNCHANGED sequences
        /\ \E row : queueStates' = [queueStates EXCEPT ![write[w].key] = row]
    BY <1>3 DEF PutQueueStates, TornPut
  <2> QED
    BY <1>1, <2>1, PutKeepsKeys DEF KeyInv
<1> QED
  BY <1>2, <1>3 DEF Next, NormalNext, OperatorStep, PlannerStep, Fault,
       ReadSequences, ReadQueueStates, ReadMapsAccept, ReadMapsRefuse, SetSequence,
       SaveMaps, ReadForMove, WriteMove, StoreFailed, Restart, vars, store

LEMMA KeyInvHolds ==
  ASSUME OneKeyEach
  PROVE  Spec => []KeyInv
<1>1. Init => KeyInv
  BY InitKeyInv
<1>2. TypeOK /\ ReadIsCurrent /\ KeyInv /\ [Next]_vars => KeyInv'
  BY StepKeyInv DEF IInv
<1>3. Spec => []TypeOK
  BY TypeCorrect
<1>4. Spec => []ReadIsCurrent
  BY ReadsStayCurrent DEF OneKeyEach
<1> QED
  BY <1>1, <1>2, <1>3, <1>4, PTL DEF Spec

\* While every machine has one operator and is sequenced under at most one of
\* its titles, its rows are under one key at any time, faults included:
\* resolve_apparatus_storage_key answers the same to every title of it, on
\* copies that may be stale, so no two titles ever share out one queue.
THEOREM KeysAreOne == OneKeyEach => (Spec => []OneKeyPerApparatus)
<1> SUFFICES ASSUME OneKeyEach PROVE Spec => []OneKeyPerApparatus
  OBVIOUS
<1>1. KeyInv => OneKeyPerApparatus
  BY DEF KeyInv, OneKnown, Known, KnownKeys, OneKeyPerApparatus
<1> QED
  BY <1>1, KeyInvHolds, PTL

-----------------------------------------------------------------------------
(***************************************************************************)
(* Why the requests of many operators, each reading and writing whole      *)
(* tables, add up to orders worked in sequence and stage by stage, when    *)
(* every map keeps the stages of its plan.                                 *)
(***************************************************************************)

\* An order kept off an apparatus (pechat.rs) is kept off by any of its titles.
BlockedByClass ==
  \A o \in Orders : \A s, t \in Stations :
    TitlesMatch(s, t) /\ <<o, s>> \in Blocked => <<o, t>> \in Blocked

\* Saves are of maps that were there from the start.
Resaved ==
  \A m \in InitialMaps, batch \in Saves : \A i \in DOMAIN batch : batch[i].order \in m

\* The titles of the plans are the ones planners sequence.
PlanSequenced == \A o \in Orders : \A i \in DOMAIN Plan[o] : Sequenced(Plan[o][i])

\* What visible_for_apparatus answers, from the plan alone.
PlanVisible(s, o) ==
  /\ \E i \in DOMAIN Plan[o] : TitlesMatch(Plan[o][i], s)
  /\ <<o, s>> \notin Blocked

\* No saved map has left its plan, and none is about to.
PlanKept ==
  /\ \A o \in Orders : PlanRow([order |-> o, stages |-> route[o]])
  /\ \A p \in Planners : moving[p] = <<>>

\* The apparatus has its whole queue stored, and planners leave it alone.
Whole(k) ==
  k \in Stations \ SequenceKeys /\ sequences[k] # NoSequence /\ maps \subseteq ToSet(sequences[k])

\* p is before o in the list.
Before(list, p, o) == \E i \in DOMAIN list : list[i] = p /\ \A j \in 1 .. i : list[j] # o

\* WorkedInSequence, said of the plan and the stored list.
InSequence ==
  \A k \in Stations : Whole(k) => \A o, p \in maps :
    /\ PlanVisible(k, o) /\ PlanVisible(k, p)
    /\ Before(sequences[k], o, p)
    /\ queueStates[k][p] # "pending"
    => queueStates[k][o] = "completed"

\* Copies of such a sequence are never stale.
SequencesRead ==
  \A w \in Workers : pc[w] \in {"read_states", "read_maps"} =>
    \A k \in Stations \ SequenceKeys : seqsRead[w][k] = sequences[k]

\* Everything ahead of a decided write is completed, and stays so until the
\* write lands.
HeadIsWritten ==
  \A w \in Workers : pc[w] = "put" =>
    LET k == write[w].key
        o == request[w].order
    IN  /\ o \in maps
        /\ Whole(k) => \A p \in maps :
             PlanVisible(k, p) /\ Before(sequences[k], p, o) => queueStates[k][p] = "completed"

SequenceInv == maps \in InitialMaps /\ SequencesRead /\ HeadIsWritten /\ InSequence

\* A copy of the queue tables shows every stage at what it is or once was.
ReadIsBehind ==
  \A w \in Workers : pc[w] = "read_maps" =>
    \A k \in Stations, o \in Orders : Rank[statesRead[w][k][o]] <= Rank[queueStates[k][o]]

\* A decided write is of a stage of the plan, under its title there, and a
\* start only after the stage before.
StageIsWritten ==
  \A w \in Workers : pc[w] = "put" =>
    LET o == request[w].order
    IN  \E i \in DOMAIN Plan[o] :
          /\ Plan[o][i] = write[w].key
          /\ request[w].action = "start" /\ i > 1 =>
               queueStates[Plan[o][i - 1]][o] = "completed"

LedgerInv == ReadIsBehind /\ StageIsWritten

-----------------------------------------------------------------------------
(***************************************************************************)
(* The maps keep their plan, so what a handler reads of them, and when,    *)
(* makes no difference.                                                    *)
(***************************************************************************)
LEMMA PlanTypes ==
  ASSUME NEW o \in Orders
  PROVE  /\ Plan[o] \in Seq(Stations) /\ DOMAIN Plan[o] = 1 .. Len(Plan[o])
         /\ \A i \in DOMAIN Plan[o] : i \in Nat /\ Plan[o][i] \in Stations
  BY PlanAssumption

\* A title is that of at most one stage of a plan.
LEMMA OneStageEach ==
  ASSUME TitlesAreClasses, NEW o \in Orders, NEW s \in Stations,
         NEW i \in DOMAIN Plan[o], NEW j \in DOMAIN Plan[o],
         TitlesMatch(Plan[o][i], s), TitlesMatch(Plan[o][j], s)
  PROVE  i = j
<1>1. Plan[o][i] \in Stations /\ Plan[o][j] \in Stations
  BY PlanTypes
<1>2. TitlesMatch(s, Plan[o][j])
  BY <1>1, MatchesAssumption DEF TitlesMatch
<1>3. TitlesMatch(Plan[o][i], Plan[o][j])
  BY <1>1, <1>2 DEF TitlesAreClasses
<1> QED
  BY <1>3, PlanAssumption

\* first_stage_at answers with the stage of the plan.
LEMMA StageIsPlanned ==
  ASSUME TitlesAreClasses, TypeOK, PlanKept, NEW o \in Orders, NEW s \in Stations
  PROVE  /\ DOMAIN route[o] = DOMAIN Plan[o]
         /\ \A i \in DOMAIN Plan[o] : route[o][i].station = Plan[o][i]
         /\ StageAt(route[o], s) > 0 => \E i \in DOMAIN Plan[o] : TitlesMatch(Plan[o][i], s)
         /\ \A i \in DOMAIN Plan[o] : TitlesMatch(Plan[o][i], s) => StageAt(route[o], s) = i
<1> DEFINE here == {i \in DOMAIN route[o] : TitlesMatch(route[o][i].station, s)}
<1>1. /\ DOMAIN route[o] = DOMAIN Plan[o]
      /\ \A i \in DOMAIN Plan[o] : route[o][i].station = Plan[o][i]
  BY PlanTypes DEF PlanKept, PlanRow, TypeOK
<1>2. StageAt(route[o], s) = IF here = {} THEN 0 ELSE CHOOSE i \in here : \A j \in here : i <= j
  BY DEF StageAt
<1>3. ASSUME NEW i \in DOMAIN Plan[o], TitlesMatch(Plan[o][i], s)
      PROVE  StageAt(route[o], s) = i
  <2>1. here = {i} /\ i \in Nat
    BY <1>1, <1>3, OneStageEach, PlanTypes
  <2> HIDE DEF here
  <2> QED
    BY <1>2, <2>1
<1>4. StageAt(route[o], s) > 0 => \E i \in DOMAIN Plan[o] : TitlesMatch(Plan[o][i], s)
  <2>1. here # {} => \E i \in DOMAIN Plan[o] : TitlesMatch(Plan[o][i], s)
    BY <1>1
  <2> HIDE DEF here
  <2> QED
    BY <1>2, <2>1
<1> QED
  BY <1>1, <1>3, <1>4

LEMMA VisibleIsPlanned ==
  ASSUME TitlesAreClasses, TypeOK, PlanKept, NEW o \in Orders, NEW s \in Stations
  PROVE  Visible(s, o) <=> PlanVisible(s, o)
<1>1. \A i \in DOMAIN Plan[o] : i > 0
  BY PlanTypes
<1> QED
  BY <1>1, StageIsPlanned DEF Visible, PlanVisible

\* One machine shows an order under all of its titles or under none.
LEMMA VisibleByClass ==
  ASSUME TitlesAreClasses, BlockedByClass, NEW o \in Orders,
         NEW s \in Stations, NEW k \in Stations, TitlesMatch(s, k), PlanVisible(k, o)
  PROVE  PlanVisible(s, o)
<1>1. TitlesMatch(k, s)
  BY MatchesAssumption DEF TitlesMatch
<1>2. \A i \in DOMAIN Plan[o] : TitlesMatch(Plan[o][i], k) => TitlesMatch(Plan[o][i], s)
  BY <1>1, PlanTypes DEF TitlesAreClasses
<1> QED
  BY <1>2 DEF PlanVisible, BlockedByClass

\* put_maps_batch of maps that keep their plan.
LEMMA PutMapsKeepsPlan ==
  ASSUME TypeOK, PlanKept, NEW batch \in Saves, PutMaps(batch)
  PROVE  \A o \in Orders : PlanRow([order |-> o, stages |-> route'[o]])
<1> SUFFICES ASSUME NEW o \in Orders PROVE PlanRow([order |-> o, stages |-> route'[o]])
  OBVIOUS
<1> DEFINE mine == {i \in DOMAIN batch : batch[i].order = o}
           row == CHOOSE i \in DOMAIN batch : batch[i].order = o
<1>1. CASE \E i \in DOMAIN batch : batch[i].order = o
  <2>1. row \in DOMAIN batch /\ batch[row].order = o
    BY <1>1
  <2>2. route'[o] = batch[row].stages
    BY <1>1 DEF PutMaps
  <2>3. PlanRow(batch[row])
    BY <2>1, PlanAssumption
  <2> QED
    BY <2>1, <2>2, <2>3 DEF PlanRow
<1>2. CASE ~ \E i \in DOMAIN batch : batch[i].order = o
  <2>1. route'[o] = route[o]
    BY <1>2 DEF PutMaps
  <2> QED
    BY <2>1 DEF PlanKept
<1> QED
  BY <1>1, <1>2

LEMMA StepKeepsPlan ==
  ASSUME TypeOK, PlanKept, [NormalNext]_vars
  PROVE  PlanKept'
<1>1. CASE SaveMaps
  BY <1>1, PutMapsKeepsPlan DEF SaveMaps, PlanKept, PlanRow
<1>2. ASSUME NEW p \in Planners, ReadForMove(p) \/ WriteMove(p) PROVE FALSE
  BY <1>2, PlanAssumption DEF ReadForMove, WriteMove, PlanKept
<1>3. CASE UNCHANGED <<route, moving>>
  BY <1>3 DEF PlanKept, PlanRow
<1> QED
  BY <1>1, <1>2, <1>3
     DEF NormalNext, OperatorStep, PlannerStep, ReadSequences, ReadQueueStates,
         ReadMapsAccept, ReadMapsRefuse, PutQueueStates, SetSequence, vars, store

LEMMA InitKeepsPlan == Init => PlanKept
  BY PlanAssumption DEF Init, PlanKept, PlanRow

-----------------------------------------------------------------------------
(***************************************************************************)
(* In sequence: a write is of the first order that was not completed when  *)
(* it was decided, and what was ahead of it then still is, and done.       *)
(***************************************************************************)
\* Where the whole queue is stored, saved_at plays no part in it.
LEMMA AheadIsBefore ==
  ASSUME NEW k \in Stations, Whole(k), NEW o \in maps, NEW p \in maps
  PROVE  Ahead(sequences[k], p, o) <=> Before(sequences[k], p, o)
  BY DEF Whole, Ahead, Before

LEMMA MapsStay ==
  ASSUME Resaved, maps \in InitialMaps, [NormalNext]_vars, PlanKept
  PROVE  maps' = maps
<1>1. ASSUME NEW batch \in Saves, PutMaps(batch) PROVE maps' = maps
  BY <1>1 DEF PutMaps, Resaved
<1>2. ASSUME NEW p \in Planners, WriteMove(p) PROVE FALSE
  BY <1>2 DEF WriteMove, PlanKept
<1> QED
  BY <1>1, <1>2
     DEF NormalNext, OperatorStep, PlannerStep, ReadSequences, ReadQueueStates, SaveMaps,
         ReadMapsAccept, ReadMapsRefuse, PutQueueStates, SetSequence, ReadForMove, vars, store

\* Sequences planners leave alone stay.
LEMMA SequencesStay ==
  ASSUME TypeOK, [NormalNext]_vars, NEW k \in Stations \ SequenceKeys
  PROVE  sequences'[k] = sequences[k]
<1>1. CASE SetSequence
  BY <1>1 DEF SetSequence, TypeOK
<1>2. CASE UNCHANGED sequences
  BY <1>2
<1> QED
  BY <1>1, <1>2
     DEF NormalNext, OperatorStep, PlannerStep, ReadSequences, ReadQueueStates, SaveMaps,
         ReadMapsAccept, ReadMapsRefuse, PutQueueStates, ReadForMove, WriteMove, vars, store

LEMMA InitSequenceInv == Init => SequenceInv
<1> SUFFICES ASSUME Init PROVE SequenceInv
  OBVIOUS
<1>1. \A k \in Stations : \A o \in maps : queueStates[k][o] = "pending"
  BY InitialAssumption DEF Init, NoRows, NoRow
<1> QED
  BY <1>1 DEF Init, SequenceInv, SequencesRead, HeadIsWritten, InSequence

\* The order a request is accepted for is the head of its queue.
LEMMA AcceptedIsHead ==
  ASSUME TitlesAreClasses, BlockedByClass, IInv, PlanKept, SequenceInv,
         NEW w \in Workers, ReadMapsAccept(w)
  PROVE  LET k == write'[w].key
             o == request[w].order
         IN  /\ o \in maps
             /\ Whole(k) => \A p \in maps :
                  PlanVisible(k, p) /\ Before(sequences[k], p, o) => queueStates[k][p] = "completed"
<1> DEFINE s == request[w].station
           o == request[w].order
           k == StorageKey(s, KnownKeys(seqsRead[w], statesRead[w]))
<1>1. s \in Stations /\ k \in Stations /\ TitlesMatch(s, k) /\ write'[w].key = k
  <2>1. s \in Stations
    BY DEF IInv, TypeOK, Request
  <2>2. write'[w].key = k
    BY DEF ReadMapsAccept, Decision, IInv, TypeOK
  <2> QED
    BY <2>1, <2>2, StorageKeyMatches, KnownKeysType
<1>2. o \in maps /\ FirstActionable(seqsRead[w][k], statesRead[w][k], s, o)
  BY DEF ReadMapsAccept, Accepts
<1>3. statesRead[w][k] = queueStates[k]
  BY <1>1 DEF ReadMapsAccept, IInv, ReadIsCurrent, Current
<1>4. ASSUME Whole(k), NEW p \in maps, PlanVisible(k, p), Before(sequences[k], p, o)
      PROVE  queueStates[k][p] = "completed"
  <2>1. seqsRead[w][k] = sequences[k]
    BY <1>4 DEF ReadMapsAccept, SequenceInv, SequencesRead, Whole
  <2>2. p \in Orders
    BY DEF IInv, TypeOK
  <2>3. Visible(s, p)
    BY <1>1, <1>4, <2>2, VisibleByClass, VisibleIsPlanned DEF IInv
  <2>4. Ahead(sequences[k], p, o)
    BY <1>1, <1>2, <1>4, AheadIsBefore
  <2> QED
    BY <1>2, <1>3, <2>1, <2>3, <2>4 DEF FirstActionable
<1> QED
  BY <1>1, <1>2, <1>4

LEMMA BeforeItself ==
  ASSUME NEW list \in Seq(Orders), NEW o
  PROVE  ~Before(list, o, o)
<1>1. \A i \in DOMAIN list : i \in 1 .. i
  OBVIOUS
<1> QED
  BY <1>1 DEF Before

LEMMA PutKeepsSequence ==
  ASSUME IInv, SequenceInv, NEW w \in Workers, PutQueueStates(w)
  PROVE  InSequence'
<1> DEFINE k == write[w].key
           o == request[w].order
           a == request[w].action
<1>1. /\ pc[w] = "put" /\ UNCHANGED <<maps, sequences>>
      /\ queueStates' = [queueStates EXCEPT ![k] = write[w].row]
  BY DEF PutQueueStates
<1>2. /\ k \in Stations /\ o \in Orders /\ a \in Action
      /\ queueStates \in [Stations -> [Orders -> QueueState]]
      /\ maps \subseteq Orders
  BY DEF IInv, TypeOK, Request
<1>3. /\ queueStates[k][o] = Needs[a]
      /\ write[w].row = [queueStates[k] EXCEPT ![o] = Yields[a]]
  BY <1>1 DEF IInv, ReadIsCurrent, Current
<1>4. queueStates[k][o] # "completed"
  BY <1>2, <1>3 DEF Needs, Action
<1>5. /\ \A p \in Orders : p # o => queueStates'[k][p] = queueStates[k][p]
      /\ \A l \in Stations : l # k => queueStates'[l] = queueStates[l]
  BY <1>1, <1>2, <1>3
<1> SUFFICES ASSUME NEW l \in Stations, Whole(l), NEW p \in maps, NEW q \in maps,
                    PlanVisible(l, p), PlanVisible(l, q), Before(sequences[l], p, q),
                    queueStates'[l][q] # "pending"
             PROVE  queueStates'[l][p] = "completed"
  BY <1>1 DEF InSequence, Whole, PlanVisible, TitlesMatch
<1>6. CASE l # k
  BY <1>5, <1>6 DEF SequenceInv, InSequence
<1>7. CASE l = k /\ q # o
  <2>1. queueStates[k][p] = "completed"
    BY <1>2, <1>5, <1>7 DEF SequenceInv, InSequence
  <2> QED
    BY <1>2, <1>4, <1>5, <1>7, <2>1
<1>8. CASE l = k /\ q = o
  <2>1. queueStates[k][p] = "completed"
    BY <1>1, <1>8 DEF SequenceInv, HeadIsWritten
  <2> QED
    BY <1>2, <1>4, <1>5, <1>8, <2>1
<1> QED
  BY <1>6, <1>7, <1>8

LEMMA StepSequenceInv ==
  ASSUME Exclusive, TitlesAreClasses, BlockedByClass, Resaved,
         IInv, PlanKept, SequenceInv, [NormalNext]_vars
  PROVE  SequenceInv'
<1>1. maps' = maps /\ \A k \in Stations \ SequenceKeys : sequences'[k] = sequences[k]
  BY MapsStay, SequencesStay DEF IInv, SequenceInv
<1>2. \A k \in Stations : Whole(k)' <=> Whole(k)
  BY <1>1 DEF Whole
<1>3. SequencesRead'
  <2>1. ASSUME NEW w \in Workers, pc'[w] \in {"read_states", "read_maps"}
        PROVE  \/ seqsRead'[w] = sequences
               \/ pc[w] \in {"read_states", "read_maps"} /\ seqsRead'[w] = seqsRead[w]
    BY <2>1 DEF IInv, TypeOK, NormalNext, OperatorStep, PlannerStep, ReadSequences,
         ReadQueueStates, ReadMapsAccept, ReadMapsRefuse, PutQueueStates, SetSequence,
         SaveMaps, ReadForMove, WriteMove, Forget, vars, store, locals
  <2> QED
    BY <1>1, <2>1 DEF SequenceInv, SequencesRead
<1>4. InSequence'
  <2>1. CASE UNCHANGED queueStates
    BY <1>1, <1>2, <2>1 DEF SequenceInv, InSequence, Whole, PlanVisible, TitlesMatch
  <2>2. ASSUME NEW w \in Workers, PutQueueStates(w) PROVE InSequence'
    BY <2>2, PutKeepsSequence
  <2> QED
    BY <2>1, <2>2
       DEF NormalNext, OperatorStep, PlannerStep, ReadSequences, ReadQueueStates, SaveMaps,
           ReadMapsAccept, ReadMapsRefuse, SetSequence, ReadForMove, WriteMove, vars, store
<1>5. HeadIsWritten'
  <2> SUFFICES ASSUME NEW v \in Workers, pc'[v] = "put"
               PROVE  LET k == write'[v].key
                          o == request'[v].order
                      IN  /\ o \in maps
                          /\ Whole(k) => \A p \in maps :
                               PlanVisible(k, p) /\ Before(sequences[k], p, o)
                                 => queueStates'[k][p] = "completed"
    BY <1>1, <1>2 DEF HeadIsWritten, Whole, PlanVisible, TitlesMatch, IInv, TypeOK
  <2>1. CASE ReadMapsAccept(v)
    BY <2>1, AcceptedIsHead DEF ReadMapsAccept, store
  <2>2. CASE ~ReadMapsAccept(v)
    <3>1. pc[v] = "put" /\ request'[v] = request[v] /\ write'[v] = write[v]
      BY <2>2 DEF IInv, TypeOK, NormalNext, OperatorStep, PlannerStep, ReadSequences,
           ReadQueueStates, ReadMapsAccept, ReadMapsRefuse, PutQueueStates, SetSequence,
           SaveMaps, ReadForMove, WriteMove, Forget, vars, store, locals
    <3>2. ASSUME NEW w \in Workers, PutQueueStates(w)
          PROVE  queueStates'[write[v].key] = queueStates[write[v].key]
      <4>1. w # v
        BY <3>1, <3>2 DEF PutQueueStates, Forget, IInv, TypeOK
      <4>2. write[v].key # write[w].key
        BY <3>1, <3>2, <4>1, OthersRowsUntouched
           DEF PutQueueStates, IInv, TypeOK, ReadIsCurrent, Current
      <4> QED
        BY <3>2, <4>2 DEF PutQueueStates, IInv, TypeOK
    <3>3. queueStates'[write[v].key] = queueStates[write[v].key]
      BY <3>2 DEF NormalNext, OperatorStep, PlannerStep, ReadSequences, ReadQueueStates,
           SaveMaps, ReadMapsAccept, ReadMapsRefuse, SetSequence, ReadForMove, WriteMove,
           vars, store
    <3> QED
      BY <3>1, <3>3 DEF SequenceInv, HeadIsWritten
  <2> QED
    BY <2>1, <2>2
<1> QED
  BY <1>1, <1>3, <1>4, <1>5 DEF SequenceInv

LEMMA InSequenceIsWorked ==
  ASSUME TitlesAreClasses, IInv, PlanKept, SequenceInv
  PROVE  WorkedInSequence
<1> SUFFICES ASSUME NEW k \in Stations \ SequenceKeys, NEW o \in maps, NEW p \in maps,
                    sequences[k] # NoSequence, maps \subseteq ToSet(sequences[k]),
                    Visible(k, o), Visible(k, p), Ahead(sequences[k], o, p),
                    queueStates[k][p] # "pending"
             PROVE  queueStates[k][o] = "completed"
  BY DEF WorkedInSequence
<1>1. Whole(k) /\ o \in Orders /\ p \in Orders
  BY DEF Whole, IInv, TypeOK
<1>2. PlanVisible(k, o) /\ PlanVisible(k, p) /\ Before(sequences[k], o, p)
  BY <1>1, VisibleIsPlanned, AheadIsBefore DEF IInv
<1> QED
  BY <1>1, <1>2 DEF SequenceInv, InSequence

LEMMA IInvHolds ==
  ASSUME Exclusive
  PROVE  NormalSpec => []IInv
<1>1. [NormalNext]_vars => [Next]_vars
  BY DEF Next
<1>2. NormalSpec => Spec
  BY <1>1, PTL DEF NormalSpec, Spec
<1>3. Spec => []TypeOK
  BY TypeCorrect
<1>4. Spec => []ReadIsCurrent
  BY ReadsStayCurrent
<1>5. TypeOK /\ ReadIsCurrent => IInv
  BY DEF IInv
<1> QED
  BY <1>2, <1>3, <1>4, <1>5, PTL

LEMMA PlanKeptHolds ==
  ASSUME Exclusive
  PROVE  NormalSpec => []PlanKept
<1>1. IInv /\ PlanKept /\ [NormalNext]_vars => PlanKept'
  BY StepKeepsPlan DEF IInv
<1> QED
  BY <1>1, IInvHolds, InitKeepsPlan, PTL DEF NormalSpec

\* With one operator per apparatus and maps that keep their plan, a queue
\* that is stored whole is worked strictly in its sequence, whichever of its
\* titles a request uses and whatever else planners and operators do
\* meanwhile (first_actionable_order_id on copies that may be stale).
THEOREM SequenceIsWorked ==
  Exclusive /\ TitlesAreClasses /\ BlockedByClass /\ Resaved
    => (NormalSpec => []WorkedInSequence)
<1> SUFFICES ASSUME Exclusive, TitlesAreClasses, BlockedByClass, Resaved
             PROVE  NormalSpec => []WorkedInSequence
  OBVIOUS
<1>1. IInv /\ PlanKept /\ SequenceInv /\ [NormalNext]_vars => SequenceInv'
  BY StepSequenceInv
<1>2. NormalSpec => []SequenceInv
  BY <1>1, IInvHolds, PlanKeptHolds, InitSequenceInv, PTL DEF NormalSpec
<1>3. IInv /\ PlanKept /\ SequenceInv => WorkedInSequence
  BY InSequenceIsWorked
<1> QED
  BY <1>2, <1>3, IInvHolds, PlanKeptHolds, PTL

-----------------------------------------------------------------------------
(***************************************************************************)
(* Stage by stage: the refinement of StageLedger.                          *)
(***************************************************************************)
LEMMA RankOrder ==
  ASSUME NEW q \in QueueState, NEW r \in QueueState, Rank[q] <= Rank[r]
  PROVE  (q = "completed" => r = "completed") /\ (q # "pending" => r # "pending")
  BY DEF QueueState, Rank

\* The title of a stage is known to every request that decides.
LEMMA PlanTitleIsKnown ==
  ASSUME OneKeyEach, PlanSequenced, IInv, KeyInv, NEW w \in Workers, pc[w] = "read_maps",
         NEW o \in Orders, NEW i \in DOMAIN Plan[o]
  PROVE  /\ Plan[o][i] \in Stations /\ Plan[o][i] \in Known
         /\ Plan[o][i] \in KnownKeys(seqsRead[w], statesRead[w])
<1>1. Plan[o][i] \in Stations /\ Sequenced(Plan[o][i])
  BY PlanTypes DEF PlanSequenced
<1> QED
  BY <1>1 DEF KeyInv, SequencedInv, Known, KnownKeys

\* The stage before is looked up under its own title, stale as the copy is.
LEMMA StageBeforeIsDone ==
  ASSUME OneKeyEach, PlanSequenced, IInv, KeyInv, LedgerInv,
         NEW w \in Workers, pc[w] = "read_maps",
         NEW o \in Orders, NEW i \in DOMAIN Plan[o],
         StationState(seqsRead[w], statesRead[w], Plan[o][i], o) = "completed"
  PROVE  queueStates[Plan[o][i]][o] = "completed"
<1> DEFINE t == Plan[o][i]
           states == statesRead[w]
           others == {k \in Stations : HasRows(states[k]) /\ TitlesMatch(k, t)}
<1>1. /\ t \in Stations /\ t \in Known /\ t \in KnownKeys(seqsRead[w], states)
      /\ states \in [Stations -> [Orders -> QueueState]]
      /\ queueStates \in [Stations -> [Orders -> QueueState]]
  BY PlanTitleIsKnown DEF IInv, TypeOK
<1>2. StorageKey(t, KnownKeys(seqsRead[w], states)) = t
  BY <1>1 DEF StorageKey
<1>3. \A k \in others : k = t
  <2> SUFFICES ASSUME NEW k \in Stations, HasRows(states[k]), TitlesMatch(k, t)
               PROVE  k = t
    OBVIOUS
  <2>1. HasRows(queueStates[k])
    <3>1. PICK p \in Orders : states[k][p] # "pending"
      BY DEF HasRows
    <3>2. Rank[states[k][p]] <= Rank[queueStates[k][p]]
      BY DEF LedgerInv, ReadIsBehind
    <3>3. states[k][p] \in QueueState /\ queueStates[k][p] \in QueueState
      BY <1>1
    <3>4. queueStates[k][p] # "pending"
      BY <3>1, <3>2, <3>3, RankOrder
    <3> QED
      BY <3>4 DEF HasRows
  <2>2. k \in Known
    BY <2>1 DEF Known, KnownKeys
  <2> QED
    BY <1>1, <2>2 DEF KeyInv, OneKnown
<1>4. HasRows(states[t])
  <2>1. ASSUME ~HasRows(states[t]) PROVE others = {}
    BY <1>3, <2>1
  <2>2. ASSUME ~HasRows(states[t]), others = {}
        PROVE  StationState(seqsRead[w], states, t, o) = "pending"
    BY <1>2, <2>2, Zenon DEF StationState
  <2> QED
    BY <2>1, <2>2
<1>5. states[t][o] = "completed"
  BY <1>2, <1>4 DEF StationState
<1> QED
  BY <1>1, <1>5, RankOrder DEF LedgerInv, ReadIsBehind

\* A request is accepted for a stage of the plan, stored under the plan's
\* title, and a start only after the stage before.
LEMMA AcceptedIsStage ==
  ASSUME OneKeyEach, PlanSequenced, IInv, KeyInv, PlanKept, LedgerInv,
         NEW w \in Workers, ReadMapsAccept(w)
  PROVE  LET o == request[w].order
         IN  \E i \in DOMAIN Plan[o] :
               /\ Plan[o][i] = write'[w].key
               /\ request[w].action = "start" /\ i > 1 =>
                    queueStates[Plan[o][i - 1]][o] = "completed"
<1> DEFINE s == request[w].station
           o == request[w].order
           known == KnownKeys(seqsRead[w], statesRead[w])
<1>1. /\ pc[w] = "read_maps" /\ s \in Stations /\ o \in Orders
      /\ write'[w].key = StorageKey(s, known)
      /\ Visible(s, o)
      /\ request[w].action = "start" => ReadyForStation(seqsRead[w], statesRead[w], s, o)
  BY DEF ReadMapsAccept, Accepts, Decision, FirstActionable, IInv, TypeOK, Request
<1>2. PICK i \in DOMAIN Plan[o] : TitlesMatch(Plan[o][i], s)
  BY <1>1, StageIsPlanned DEF Visible, OneKeyEach, IInv
<1>3. /\ Plan[o][i] \in Stations /\ Plan[o][i] \in Known
      /\ i \in Nat /\ DOMAIN Plan[o] = 1 .. Len(Plan[o])
  BY <1>1, PlanTypes, PlanTitleIsKnown
<1>4. Plan[o][i] = StorageKey(s, known)
  <2>1. TitlesMatch(s, Plan[o][i])
    BY <1>1, <1>2, <1>3, MatchesAssumption DEF TitlesMatch
  <2> QED
    BY <1>1, <1>3, <2>1, DecisionIsKnown DEF KeyInv
<1>5. ASSUME request[w].action = "start", i > 1
      PROVE  queueStates[Plan[o][i - 1]][o] = "completed"
  <2>1. i - 1 \in DOMAIN Plan[o]
    BY <1>3, <1>5
  <2>2. StageAt(route[o], s) = i /\ route[o][i - 1].station = Plan[o][i - 1]
    BY <1>1, <1>2, <2>1, StageIsPlanned DEF OneKeyEach, IInv
  <2>3. StationState(seqsRead[w], statesRead[w], Plan[o][i - 1], o) = "completed"
    BY <1>1, <1>5, <2>2 DEF ReadyForStation
  <2> QED
    BY <1>1, <2>1, <2>3, StageBeforeIsDone
<1> QED
  BY <1>1, <1>4, <1>5

LEMMA InitLedgerInv == Init => LedgerInv
  BY DEF Init, LedgerInv, ReadIsBehind, StageIsWritten

LEMMA StepLedgerInv ==
  ASSUME OneKeyEach, PlanSequenced, IInv, KeyInv, PlanKept, LedgerInv, [NormalNext]_vars
  PROVE  LedgerInv'
<1>1. KeptStep
  BY NormalStepIsEarnedAndKept
<1>2. \A k \in Stations, o \in Orders :
        queueStates[k][o] \in QueueState /\ queueStates'[k][o] \in QueueState
  <2>1. TypeOK'
    BY StepTyped DEF IInv, Next
  <2> QED
    BY <2>1 DEF IInv, TypeOK
<1>3. ReadIsBehind'
  <2> SUFFICES ASSUME NEW w \in Workers, pc'[w] = "read_maps",
                      NEW k \in Stations, NEW o \in Orders
               PROVE  Rank[statesRead'[w][k][o]] <= Rank[queueStates'[k][o]]
    BY DEF ReadIsBehind
  <2>1. \/ statesRead'[w] = queueStates
        \/ pc[w] = "read_maps" /\ statesRead'[w] = statesRead[w]
    BY DEF IInv, TypeOK, NormalNext, OperatorStep, PlannerStep, ReadSequences,
         ReadQueueStates, ReadMapsAccept, ReadMapsRefuse, PutQueueStates, SetSequence,
         SaveMaps, ReadForMove, WriteMove, Forget, vars, store, locals
  <2>2. Rank[statesRead'[w][k][o]] <= Rank[queueStates[k][o]]
    BY <2>1 DEF LedgerInv, ReadIsBehind, QueueState, Rank, IInv, TypeOK
  <2>3. /\ Rank[statesRead'[w][k][o]] \in Nat /\ Rank[queueStates[k][o]] \in Nat
        /\ Rank[queueStates'[k][o]] \in Nat
    <3>1. statesRead'[w][k][o] \in QueueState
      BY <1>2, <2>1 DEF IInv, TypeOK
    <3> QED
      BY <1>2, <3>1, RankType
  <2> QED
    <3>1. Rank[queueStates[k][o]] <= Rank[queueStates'[k][o]]
      BY <1>1 DEF KeptStep
    <3> HIDE DEF Rank
    <3> QED
      BY <2>2, <2>3, <3>1
<1>4. StageIsWritten'
  <2> SUFFICES ASSUME NEW w \in Workers, pc'[w] = "put"
               PROVE  LET o == request'[w].order
                      IN  \E i \in DOMAIN Plan[o] :
                            /\ Plan[o][i] = write'[w].key
                            /\ request'[w].action = "start" /\ i > 1 =>
                                 queueStates'[Plan[o][i - 1]][o] = "completed"
    BY DEF StageIsWritten
  <2>1. CASE ReadMapsAccept(w)
    BY <2>1, AcceptedIsStage DEF ReadMapsAccept, store
  <2>2. CASE ~ReadMapsAccept(w)
    <3> DEFINE o == request[w].order
    <3>1. pc[w] = "put" /\ request'[w] = request[w] /\ write'[w] = write[w]
      BY <2>2 DEF IInv, TypeOK, NormalNext, OperatorStep, PlannerStep, ReadSequences,
           ReadQueueStates, ReadMapsAccept, ReadMapsRefuse, PutQueueStates, SetSequence,
           SaveMaps, ReadForMove, WriteMove, Forget, vars, store, locals
    <3>2. o \in Orders
      BY DEF IInv, TypeOK, Request
    <3>3. PICK i \in DOMAIN Plan[o] :
            /\ Plan[o][i] = write[w].key
            /\ request[w].action = "start" /\ i > 1 =>
                 queueStates[Plan[o][i - 1]][o] = "completed"
      BY <3>1 DEF LedgerInv, StageIsWritten
    <3>4. i > 1 => Plan[o][i - 1] \in Stations
      BY <3>2, PlanTypes
    <3>5. ASSUME NEW k \in Stations, queueStates[k][o] = "completed"
          PROVE  queueStates'[k][o] = "completed"
      BY <1>1, <1>2, <3>2, <3>5, RankOrder DEF KeptStep
    <3> QED
      BY <3>1, <3>3, <3>4, <3>5
  <2> QED
    BY <2>1, <2>2
<1> QED
  BY <1>3, <1>4 DEF LedgerInv

LEMMA LedgerInvHolds ==
  ASSUME OneKeyEach, PlanSequenced
  PROVE  NormalSpec => [](IInv /\ LedgerInv)
<1>1. NormalSpec => []IInv
  BY IInvHolds DEF OneKeyEach
<1>2. NormalSpec => []PlanKept
  BY PlanKeptHolds DEF OneKeyEach
<1>3. NormalSpec => []KeyInv
  <2>1. [NormalNext]_vars => [Next]_vars
    BY DEF Next
  <2> QED
    BY <2>1, KeyInvHolds, PTL DEF NormalSpec, Spec
<1>4. IInv /\ KeyInv /\ PlanKept /\ LedgerInv /\ [NormalNext]_vars => LedgerInv'
  BY StepLedgerInv
<1> QED
  BY <1>1, <1>2, <1>3, <1>4, InitLedgerInv, PTL DEF NormalSpec

\* A write changes one entry of the ledger, and by one stage state.
LEMMA PutIsLedgerStep ==
  ASSUME TitlesAreClasses, IInv, LedgerInv, NEW w \in Workers, PutQueueStates(w)
  PROVE  Ledger!Next
<1> DEFINE k == write[w].key
           o == request[w].order
           a == request[w].action
<1>1. /\ pc[w] = "put" /\ k \in Stations /\ o \in Orders /\ a \in Action
      /\ queueStates \in [Stations -> [Orders -> QueueState]]
      /\ queueStates' = [queueStates EXCEPT ![k] = write[w].row]
      /\ queueStates[k][o] = Needs[a]
      /\ write[w].row = [queueStates[k] EXCEPT ![o] = Yields[a]]
  BY DEF PutQueueStates, IInv, TypeOK, Request, ReadIsCurrent, Current
<1>2. PICK i \in DOMAIN Plan[o] :
        /\ Plan[o][i] = k
        /\ a = "start" /\ i > 1 => queueStates[Plan[o][i - 1]][o] = "completed"
  BY <1>1 DEF LedgerInv, StageIsWritten
<1>3. /\ i \in Ledger!Stages(o)
      /\ \A p \in Orders : DOMAIN Plan[p] = Ledger!Stages(p)
      /\ i \in Nat /\ (i > 1 => i - 1 \in DOMAIN Plan[o])
  BY <1>1, PlanTypes DEF Ledger!Stages
<1>4. \A p \in Orders : \A j \in DOMAIN Plan[p] :
        queueStates'[Plan[p][j]][p] =
          IF p = o /\ j = i THEN Yields[a] ELSE queueStates[Plan[p][j]][p]
  <2> SUFFICES ASSUME NEW p \in Orders, NEW j \in DOMAIN Plan[p]
               PROVE  queueStates'[Plan[p][j]][p] =
                        IF p = o /\ j = i THEN Yields[a] ELSE queueStates[Plan[p][j]][p]
    OBVIOUS
  <2>1. Plan[p][j] \in Stations
    BY PlanTypes
  <2>2. p = o /\ Plan[p][j] = k => j = i
    BY <1>1, <1>2, OneStageEach, MatchesAssumption DEF TitlesMatch
  <2> QED
    BY <1>1, <1>2, <2>1, <2>2
<1> HIDE DEF k, o, a
<1>5. stageLedger' = [stageLedger EXCEPT ![o][i] = Yields[a]]
  <2>1. /\ stageLedger' =
             [p \in Orders |-> [j \in DOMAIN Plan[p] |-> queueStates'[Plan[p][j]][p]]]
        /\ stageLedger =
             [p \in Orders |-> [j \in DOMAIN Plan[p] |-> queueStates[Plan[p][j]][p]]]
    BY DEF stageLedger
  <2>2. [stageLedger EXCEPT ![o][i] = Yields[a]]
          = [p \in Orders |-> [j \in DOMAIN Plan[p] |->
               IF p = o /\ j = i THEN Yields[a] ELSE queueStates[Plan[p][j]][p]]]
    BY <1>1, <1>2, <2>1
  <2>3. [p \in Orders |-> [j \in DOMAIN Plan[p] |-> queueStates'[Plan[p][j]][p]]]
          = [p \in Orders |-> [j \in DOMAIN Plan[p] |->
               IF p = o /\ j = i THEN Yields[a] ELSE queueStates[Plan[p][j]][p]]]
    BY <1>4
  <2> QED
    BY <2>1, <2>2, <2>3, Zenon
<1>6. /\ stageLedger[o][i] = Needs[a]
      /\ i > 1 => stageLedger[o][i - 1] = queueStates[Plan[o][i - 1]][o]
  BY <1>1, <1>2, <1>3 DEF stageLedger
<1>7. CASE a = "start"
  <2>1. Needs[a] = "pending" /\ Yields[a] = "in_progress"
    BY <1>7 DEF Needs, Yields
  <2>2. i > 1 => stageLedger[o][i - 1] = "completed"
    BY <1>2, <1>6, <1>7
  <2>3. Ledger!Start(o, i)
    BY <1>5, <1>6, <2>1, <2>2, Zenon DEF Ledger!Start
  <2> QED
    BY <1>1, <1>3, <2>3 DEF Ledger!Next
<1>8. CASE a = "complete"
  <2>1. Needs[a] = "in_progress" /\ Yields[a] = "completed"
    BY <1>8 DEF Needs, Yields
  <2>2. Ledger!Complete(o, i)
    BY <1>5, <1>6, <2>1, Zenon DEF Ledger!Complete
  <2> QED
    BY <1>1, <1>3, <2>2 DEF Ledger!Next
<1> QED
  BY <1>1, <1>7, <1>8 DEF Action

LEMMA InitIsLedgerInit == Init => Ledger!Init
<1>1. \A o \in Orders : DOMAIN Plan[o] = Ledger!Stages(o)
  BY PlanTypes DEF Ledger!Stages
<1>2. \A o \in Orders : \A i \in DOMAIN Plan[o] : NoRows[Plan[o][i]][o] = "pending"
  BY PlanTypes DEF NoRows, NoRow
<1> QED
  BY <1>1, <1>2 DEF Init, Ledger!Init, stageLedger

LEMMA StepIsLedgerStep ==
  ASSUME TitlesAreClasses, IInv, LedgerInv, [NormalNext]_vars
  PROVE  [Ledger!Next]_stageLedger
<1>1. CASE \E w \in Workers : PutQueueStates(w)
  BY <1>1, PutIsLedgerStep
<1>2. CASE ~ \E w \in Workers : PutQueueStates(w)
  <2>1. queueStates' = queueStates
    BY <1>2 DEF NormalNext, OperatorStep, PlannerStep, ReadSequences, ReadQueueStates,
         ReadMapsAccept, ReadMapsRefuse, SetSequence, SaveMaps, ReadForMove, WriteMove,
         vars, store
  <2> QED
    BY <2>1 DEF stageLedger
<1> QED
  BY <1>1, <1>2

\* With one operator per apparatus, one title per apparatus in the plans and
\* no torn write, what operators do to the queue tables is what StageLedger
\* says the shop floor does: each stage of each order started once, finished
\* once, in the order of its map (chain::order_ready_for_station, decided on
\* copies other requests may have made stale).
THEOREM QueueImplementsLedger ==
  OneKeyEach /\ PlanSequenced => (NormalSpec => ImplementsLedger)
<1> SUFFICES ASSUME OneKeyEach, PlanSequenced
             PROVE  NormalSpec => ImplementsLedger
  OBVIOUS
<1>1. IInv /\ LedgerInv /\ [NormalNext]_vars => [Ledger!Next]_stageLedger
  BY StepIsLedgerStep DEF OneKeyEach
<1> QED
  BY <1>1, LedgerInvHolds, InitIsLedgerInit, PTL
     DEF NormalSpec, ImplementsLedger, Ledger!Spec

-----------------------------------------------------------------------------
(***************************************************************************)
(* Why the queues do not wedge. An order that is not finished waits for    *)
(* those ahead of it in its queue or for its stage before. Ahead is        *)
(* well-founded: a stored sequence has a first order, and of any maps one  *)
(* was saved last. And where the routes go one way, the stage before is at *)
(* a station of lower rank, so that the waiting ends at a station of least *)
(* rank with work left.                                                    *)
(***************************************************************************)

\* The maps can be ranked so that every route goes up, and no order is hidden
\* at a station where its next one waits for it (pechat_flexo_block).
RoutesGoOneWay ==
  \E rank \in [Stations -> Nat] : \A o \in maps, s \in Stations :
    LET i == StageAt(route[o], s)
    IN  i > 1 => /\ rank[route[o][i - 1].station] < rank[s]
                 /\ <<o, route[o][i - 1].station>> \notin Blocked

\* Where there is work there is an operator for it.
Staffed ==
  \A s \in Stations : (\E o \in maps : Visible(s, o)) => \E w \in Workers : MayRequest(w, s)

\* Of any maps, one was saved last (list_maps: ORDER BY saved_at DESC).
NewestFirst ==
  \A U \in SUBSET maps : U # {} => \E o \in U : \A p \in U : <<p, o>> \notin newer

LEMMA InitNewestFirst == Init => NewestFirst
<1> SUFFICES ASSUME Init, NEW U \in SUBSET maps, U # {}
             PROVE  \E o \in U : \A p \in U : <<p, o>> \notin newer
  BY DEF NewestFirst
<1>1. maps \subseteq Nat /\ newer = {x \in maps \X maps : x[1] < x[2]}
  BY InitialAssumption, OrdersAssumption DEF Init
<1>2. PICK o \in U : \A p \in U : o <= p
  BY <1>1, LeastNumber
<1>3. ASSUME NEW p \in U, <<p, o>> \in newer PROVE FALSE
  <2>1. p < o
    BY <1>1, <1>3
  <2> QED
    BY <1>1, <1>2, <2>1
<1> QED
  BY <1>2, <1>3

\* Maps that are saved come before all others, the last of them first.
LEMMA PutMapsNewestFirst ==
  ASSUME TypeOK, NewestFirst, NEW batch \in Seq(MapRow), PutMaps(batch)
  PROVE  NewestFirst'
<1> DEFINE ids == {batch[i].order : i \in DOMAIN batch}
           row(o) == CHOOSE i \in DOMAIN batch : batch[i].order = o
<1>1. maps' = maps \cup ids
  BY DEF PutMaps
<1>2. newer' = {x \in maps' \X maps' :
                  IF x[1] \in ids THEN x[2] \in ids => row(x[1]) > row(x[2])
                  ELSE x[2] \notin ids /\ x \in newer}
  BY DEF PutMaps
<1>3. \A o \in ids : row(o) \in DOMAIN batch
  OBVIOUS
<1>4. Len(batch) \in Nat /\ DOMAIN batch = 1 .. Len(batch)
  OBVIOUS
<1> HIDE DEF ids, row
<1>5. ASSUME NEW o, NEW p, <<p, o>> \in newer'
      PROVE  IF p \in ids THEN o \in ids => row(p) > row(o)
             ELSE o \notin ids /\ <<p, o>> \in newer
  BY <1>2, <1>5
<1> SUFFICES ASSUME NEW U \in SUBSET maps', U # {}
             PROVE  \E o \in U : \A p \in U : <<p, o>> \notin newer'
  BY DEF NewestFirst
<1>6. CASE U \cap ids = {}
  <2>1. U \in SUBSET maps
    BY <1>1, <1>6
  <2>2. PICK o \in U : \A p \in U : <<p, o>> \notin newer
    BY <2>1 DEF NewestFirst
  <2> QED
    BY <1>5, <1>6, <2>2
<1>7. CASE U \cap ids # {}
  <2> DEFINE left(o) == Len(batch) - row(o)
             T == {left(o) : o \in U \cap ids}
  <2>1. \A o \in ids : left(o) \in Nat
    BY <1>3, <1>4
  <2>2. T \in SUBSET Nat /\ T # {}
    BY <1>7, <2>1
  <2>3. PICK m \in T : \A k \in T : m <= k
    <3> HIDE DEF T
    <3> QED
      BY <2>2, LeastNumber
  <2>4. PICK o \in U \cap ids : m = left(o)
    OBVIOUS
  <2>5. ASSUME NEW p \in U, <<p, o>> \in newer' PROVE FALSE
    <3>1. p \in ids /\ row(p) > row(o)
      BY <1>5, <2>4, <2>5
    <3>2. left(o) <= left(p)
      BY <2>3, <2>4, <2>5, <3>1
    <3>3. row(p) \in Nat /\ row(o) \in Nat
      BY <1>3, <1>4, <2>4, <3>1
    <3> QED
      BY <1>4, <3>1, <3>2, <3>3
  <2> QED
    BY <2>4, <2>5
<1> QED
  BY <1>6, <1>7

LEMMA StepNewestFirst ==
  ASSUME TypeOK, NewestFirst, [Next]_vars
  PROVE  NewestFirst'
<1>1. ASSUME UNCHANGED <<maps, newer>> PROVE NewestFirst'
  BY <1>1 DEF NewestFirst
<1>2. CASE SaveMaps
  BY <1>2, PlannersAssumption, PutMapsNewestFirst DEF SaveMaps
<1>3. ASSUME NEW p \in Planners, WriteMove(p) PROVE NewestFirst'
  <2>1. moving[p] \in Seq(MapRow) /\ PutMaps(moving[p])
    BY <1>3 DEF WriteMove, TypeOK
  <2> QED
    BY <2>1, PutMapsNewestFirst
<1>4. CASE OperatorStep
  BY <1>1, <1>4 DEF OperatorStep, ReadSequences, ReadQueueStates, ReadMapsAccept,
     ReadMapsRefuse, PutQueueStates, store
<1>5. CASE SetSequence \/ \E p \in Planners : ReadForMove(p)
  BY <1>1, <1>5 DEF SetSequence, ReadForMove, store
<1>6. CASE Fault \/ UNCHANGED vars
  BY <1>1, <1>6 DEF Fault, TornPut, StoreFailed, Restart, store, vars
<1> QED
  BY <1>2, <1>3, <1>4, <1>5, <1>6 DEF Next, NormalNext, PlannerStep

\* Of any of the orders, one has none of the others ahead of it.
LEMMA FirstOfQueue ==
  ASSUME TypeOK, NewestFirst, NEW k \in Stations, NEW U \in SUBSET maps, U # {}
  PROVE  \E o \in U : \A p \in U : ~Ahead(sequences[k], p, o)
<1> DEFINE listed == IF sequences[k] = NoSequence THEN <<>> ELSE sequences[k]
           T == {i \in DOMAIN listed : listed[i] \in U}
<1>1. listed \in Seq(Orders)
  BY DEF TypeOK
<1>2. \A p, o : Ahead(sequences[k], p, o) <=>
        \/ \E i \in DOMAIN listed : listed[i] = p /\ \A j \in 1 .. i : listed[j] # o
        \/ {o, p} \cap ToSet(listed) = {} /\ <<p, o>> \in newer
  BY DEF Ahead
<1>3. ToSet(listed) = {listed[i] : i \in DOMAIN listed}
  BY DEF ToSet
<1> HIDE DEF listed
<1>4. DOMAIN listed = 1 .. Len(listed) /\ Len(listed) \in Nat
  BY <1>1
<1>5. CASE T = {}
  <2>1. PICK o \in U : \A p \in U : <<p, o>> \notin newer
    BY DEF NewestFirst
  <2>2. ASSUME NEW p \in U, Ahead(sequences[k], p, o) PROVE FALSE
    <3>1. PICK i \in DOMAIN listed : listed[i] = p
      BY <1>2, <2>1, <2>2
    <3> QED
      BY <1>5, <3>1
  <2> QED
    BY <2>1, <2>2
<1>6. CASE T # {}
  <2>1. T \in SUBSET Nat
    BY <1>4
  <2>2. PICK m \in T : \A i \in T : m <= i
    <3> HIDE DEF T
    <3> QED
      BY <1>6, <2>1, LeastNumber
  <2>3. listed[m] \in U /\ m \in 1 .. Len(listed)
    BY <1>4
  <2>4. ASSUME NEW p \in U, Ahead(sequences[k], p, listed[m]) PROVE FALSE
    <3>1. listed[m] \in ToSet(listed)
      BY <1>3, <1>4, <2>3
    <3>2. PICK i \in DOMAIN listed : listed[i] = p /\ \A j \in 1 .. i : listed[j] # listed[m]
      BY <1>2, <2>4, <3>1
    <3>3. m <= i /\ i \in Nat
      BY <1>4, <2>2, <2>4, <3>2
    <3>4. m \in 1 .. i
      BY <1>4, <2>3, <3>3
    <3> QED
      BY <3>2, <3>4
  <2> QED
    BY <2>3, <2>4
<1> QED
  BY <1>5, <1>6

\* The stage of an order at a station is one of its stages, if it has one there.
LEMMA StageAtIs ==
  ASSUME NEW stages \in Seq(Stage), NEW s
  PROVE  /\ StageAt(stages, s) = 0 \/ StageAt(stages, s) \in DOMAIN stages
         /\ \A i \in DOMAIN stages : TitlesMatch(stages[i].station, s) => StageAt(stages, s) > 0
<1> DEFINE here == {i \in DOMAIN stages : TitlesMatch(stages[i].station, s)}
<1>1. StageAt(stages, s) = IF here = {} THEN 0 ELSE CHOOSE i \in here : \A j \in here : i <= j
  BY DEF StageAt
<1>2. DOMAIN stages \in SUBSET Nat /\ \A i \in DOMAIN stages : i > 0
  OBVIOUS
<1>3. here \in SUBSET DOMAIN stages
  OBVIOUS
<1>4. CASE here = {}
  BY <1>1, <1>4
<1>5. CASE here # {}
  <2> HIDE DEF here
  <2>1. \E i \in here : \A j \in here : i <= j
    BY <1>2, <1>3, <1>5, LeastNumber
  <2>2. StageAt(stages, s) \in here
    BY <1>1, <1>5, <2>1
  <2> QED
    BY <1>2, <1>3, <2>2
<1> QED
  BY <1>4, <1>5

\* Where what is ahead of an order and before it is finished, its next step
\* is accepted.
LEMMA HeadProceeds ==
  ASSUME TypeOK, NEW s \in Stations, NEW o \in Orders, Unfinished(s, o),
         ReadyForStation(sequences, queueStates, s, o),
         \A p \in maps : Unfinished(s, p) =>
           ~Ahead(sequences[StorageKey(s, KnownKeys(sequences, queueStates))], p, o)
  PROVE  \E a \in Action : Accepts(sequences, queueStates, s, o, a)
<1> DEFINE key == StorageKey(s, KnownKeys(sequences, queueStates))
<1>1. key \in Stations
  BY KnownKeysType, StorageKeyMatches
<1>2. o \in maps /\ Visible(s, o) /\ queueStates[key][o] # "completed"
  BY DEF Unfinished
<1>3. queueStates[key][o] \in QueueState
  BY <1>1 DEF TypeOK
<1>4. FirstActionable(sequences[key], queueStates[key], s, o)
  BY <1>2 DEF FirstActionable, Unfinished
<1> HIDE DEF key
<1>5. CASE queueStates[key][o] = "pending"
  BY <1>2, <1>4, <1>5 DEF Accepts, Needs, Action, key
<1>6. CASE queueStates[key][o] = "in_progress"
  BY <1>2, <1>4, <1>6 DEF Accepts, Needs, Action, key
<1> QED
  BY <1>2, <1>3, <1>5, <1>6 DEF QueueState

\* What is finished at the station of the stage before is finished for the
\* stage after (queue_state_for_station resolves the key the handler does).
LEMMA FinishedIsReady ==
  ASSUME TypeOK, NEW t \in Stations, NEW o \in maps, Visible(t, o), ~Unfinished(t, o)
  PROVE  StationState(sequences, queueStates, t, o) = "completed"
<1> DEFINE key == StorageKey(t, KnownKeys(sequences, queueStates))
<1>1. queueStates[key][o] = "completed" /\ o \in Orders
  BY DEF Unfinished, TypeOK
<1>2. HasRows(queueStates[key])
  BY <1>1 DEF HasRows
<1> HIDE DEF key
<1> QED
  BY <1>1, <1>2 DEF StationState, key

LEMMA NobodyWedged ==
  ASSUME TypeOK, NewestFirst, RoutesGoOneWay, Staffed
  PROVE  CanProceed
<1> DEFINE Open == {s \in Stations : \E o \in Orders : Unfinished(s, o)}
<1> SUFFICES ASSUME Open # {}
             PROVE  \E w \in Workers, r \in Request :
                      /\ MayRequest(w, r.station)
                      /\ Accepts(sequences, queueStates, r.station, r.order, r.action)
  BY DEF CanProceed
<1>1. PICK rank \in [Stations -> Nat] : \A o \in maps, s \in Stations :
        LET i == StageAt(route[o], s)
        IN  i > 1 => /\ rank[route[o][i - 1].station] < rank[s]
                     /\ <<o, route[o][i - 1].station>> \notin Blocked
  BY DEF RoutesGoOneWay
<1>2. PICK s \in Open : \A t \in Open : rank[s] <= rank[t]
  <2> DEFINE T == {rank[t] : t \in Open}
  <2>1. T \in SUBSET Nat /\ T # {}
    OBVIOUS
  <2>2. PICK m \in T : \A k \in T : m <= k
    <3> HIDE DEF T
    <3> QED
      BY <2>1, LeastNumber
  <2> QED
    BY <2>2
<1> DEFINE U == {o \in Orders : Unfinished(s, o)}
           key == StorageKey(s, KnownKeys(sequences, queueStates))
<1>3. U \in SUBSET maps /\ U # {} /\ key \in Stations
  BY KnownKeysType, StorageKeyMatches DEF Unfinished
<1>4. PICK o \in U : \A p \in U : ~Ahead(sequences[key], p, o)
  <2> HIDE DEF U, key
  <2> QED
    BY <1>3, FirstOfQueue
<1>5. o \in maps /\ o \in Orders /\ Unfinished(s, o) /\ s \in Stations
  BY <1>3
<1>6. ReadyForStation(sequences, queueStates, s, o)
  <2> DEFINE i == StageAt(route[o], s)
             t == route[o][i - 1].station
  <2> SUFFICES ASSUME i > 1 PROVE StationState(sequences, queueStates, t, o) = "completed"
    BY DEF ReadyForStation
  <2>1. rank[t] < rank[s] /\ <<o, t>> \notin Blocked
    BY <1>1, <1>5
  <2>2. /\ i - 1 \in DOMAIN route[o] /\ t \in Stations
        /\ \A j \in DOMAIN route[o] : route[o][j].station \in Stations
    <3>1. route[o] \in Seq(Stage)
      BY <1>5 DEF TypeOK
    <3>2. i \in DOMAIN route[o]
      BY <3>1, StageAtIs
    <3>3. i - 1 \in DOMAIN route[o]
      BY <3>1, <3>2
    <3>4. \A j \in DOMAIN route[o] : route[o][j] \in Stage
      BY <3>1
    <3> QED
      BY <3>3, <3>4 DEF Stage
  <2> HIDE DEF i, t
  <2>3. Visible(t, o)
    <3>1. route[o] \in Seq(Stage)
      BY <1>5 DEF TypeOK
    <3>2. i - 1 \in DOMAIN route[o] /\ TitlesMatch(route[o][i - 1].station, t)
      BY <2>2, MatchesAssumption DEF TitlesMatch, t
    <3>3. StageAt(route[o], t) > 0
      BY <3>1, <3>2, StageAtIs
    <3> QED
      BY <2>1, <3>3 DEF Visible
  <2>4. ~Unfinished(t, o)
    <3> SUFFICES ASSUME Unfinished(t, o) PROVE FALSE
      OBVIOUS
    <3>1. t \in Open
      BY <1>5, <2>2
    <3>2. rank[s] <= rank[t]
      BY <1>2, <3>1
    <3>3. rank[s] \in Nat /\ rank[t] \in Nat
      BY <1>5, <2>2
    <3> QED
      BY <2>1, <3>2, <3>3
  <2> QED
    BY <1>5, <2>2, <2>3, <2>4, FinishedIsReady
<1>7. PICK a \in Action : Accepts(sequences, queueStates, s, o, a)
  <2>1. \A p \in maps : Unfinished(s, p) => ~Ahead(sequences[key], p, o)
    BY <1>4 DEF TypeOK
  <2> QED
    BY <1>5, <1>6, <2>1, HeadProceeds
<1>8. PICK w \in Workers : MayRequest(w, s)
  BY <1>5 DEF Staffed, Unfinished
<1> DEFINE r == [station |-> s, order |-> o, action |-> a]
<1>9. r \in Request /\ r.station = s /\ r.order = o /\ r.action = a
  BY <1>5 DEF Request
<1> HIDE DEF r
<1> QED
  BY <1>7, <1>8, <1>9

\* The queues never wedge while the routes go one way and every apparatus has
\* an operator: whatever the sequences planners store, in whatever order maps
\* are saved, under whatever titles a machine is asked for, and whatever torn
\* writes have lost, some operator's next request is accepted.
THEOREM QueuesNeverWedge == Spec => [](RoutesGoOneWay /\ Staffed => CanProceed)
<1>1. TypeOK /\ NewestFirst => (RoutesGoOneWay /\ Staffed => CanProceed)
  BY NobodyWedged
<1>2. TypeOK /\ NewestFirst /\ [Next]_vars => NewestFirst'
  BY StepNewestFirst
<1> QED
  BY <1>1, <1>2, InitNewestFirst, TypeCorrect, PTL DEF Spec
=============================================================================
