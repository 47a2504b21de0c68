-------------------------- MODULE ProductionQueue --------------------------
(***************************************************************************)
(* The apparatus queues of core/production_map: operators start and finish *)
(* orders on their apparatus while planners reorder the queues, save maps  *)
(* and move orders between apparatus.                                      *)
(*                                                                         *)
(* The service keeps nothing in memory: each handler reads the SQLite      *)
(* store, decides, and writes back.  The store serialises single calls     *)
(* with a mutex (Mutex<Connection>), nothing spans two calls, so a handler *)
(* is one action per store call it makes, with what it has read so far in  *)
(* its own locals.                                                         *)
(*                                                                         *)
(* A production map is here the list of work stages chain.rs walks out of  *)
(* its graph; the graph, the formulas and the order numbers are left out.  *)
(***************************************************************************)
EXTENDS Naturals, SequencesExt

CONSTANTS
  Orders,           \* order (map) ids; naturals, in the order SQLite sorts them
  Stations,         \* apparatus titles
  Workers,          \* operators' clients, one request at a time each
  Planners,         \* admins' clients
  NoStation,        \* no alternative assignment
  NoSequence,       \* no apparatus_sequences row
  Matches,          \* pairs of titles apparatus_titles_match accepts
  Assigned,         \* Assigned[w]: titles assigned to the operator w
  Blocked,          \* <<order, title>>: flexo order, colour pechat
  MoveAllowed,      \* <<order, from, to>>: moves the pechat rules accept
  MoveLists,        \* lists of ids a planner may move in one request
  Saves,            \* batches of maps saved by an admin or the ERP sync
  SequenceKeys,     \* titles under which a planner stores a sequence
  SequenceChoices,  \* sequences a planner stores
  InitialMaps,      \* what the store holds when the server starts
  InitialRoutes,
  InitialSequences

QueueState == {"pending", "in_progress", "completed"}
Action == {"start", "complete"}
Stage == [station : Stations, task : BOOLEAN, assigned : Stations \cup {NoStation}]
MapRow == [order : Orders, stages : Seq(Stage)]
Request == [station : Stations, order : Orders, action : Action]

ASSUME OrdersAssumption == Orders \subseteq Nat /\ Orders # {}
ASSUME StationsAssumption == Stations # {} /\ NoStation \notin Stations
ASSUME NoSequenceAssumption == NoSequence \notin Seq(Orders)
ASSUME MatchesAssumption ==
  /\ Matches \subseteq Stations \X Stations
  /\ \A s \in Stations : <<s, s>> \in Matches
  /\ \A s, t \in Stations : <<s, t>> \in Matches => <<t, s>> \in Matches
ASSUME AssignedAssumption == Assigned \in [Workers -> SUBSET Stations]
ASSUME PlannersAssumption ==
  /\ SequenceKeys \subseteq Stations
  /\ SequenceChoices \subseteq Seq(Orders)
  /\ MoveLists \subseteq Seq(Orders)
  /\ Saves \subseteq Seq(MapRow)
ASSUME InitialAssumption ==
  /\ InitialMaps \subseteq SUBSET Orders
  /\ InitialRoutes \subseteq [Orders -> Seq(Stage)]
  /\ InitialSequences \subseteq [Stations -> Seq(Orders) \cup {NoSequence}]

VARIABLES
  maps,         \* ids of the saved maps
  newer,        \* <<o, p>>: map o was saved after map p (saved_at)
  route,        \* route[o]: work stages of map o
  sequences,    \* apparatus_sequences: row of each title, or NoSequence
  queueStates,  \* apparatus_queue_states; a row that is absent is "pending"
  pc,           \* pc[w]: the next store call of operator w's request
  request,      \* request[w]: what it asks for, kept while it runs
  seqsRead,     \* seqsRead[w], statesRead[w]: its copies of the two tables
  statesRead,
  write,        \* write[w]: the rows it has decided to store, and where
  moving        \* moving[p]: maps planner p's move is about to write back

store == <<maps, newer, route, sequences, queueStates>>
locals == <<pc, request, seqsRead, statesRead, write>>
vars == <<maps, newer, route, sequences, queueStates, locals, moving>>

NoRow == [o \in Orders |-> "pending"]
NoRows == [s \in Stations |-> NoRow]
NoSequences == [s \in Stations |-> NoSequence]
IdleRequest == [station |-> CHOOSE s \in Stations : TRUE,
                order |-> CHOOSE o \in Orders : TRUE, action |-> "start"]
NoWrite == [key |-> IdleRequest.station, row |-> NoRow]

-----------------------------------------------------------------------------
(***************************************************************************)
(* queue_state.rs and chain.rs: pure functions of what was read.           *)
(***************************************************************************)
TitlesMatch(s, t) == <<s, t>> \in Matches

HasRows(row) == \E o \in Orders : row[o] # "pending"

KnownKeys(seqs, states) ==
  {k \in Stations : seqs[k] # NoSequence \/ HasRows(states[k])}

\* (Mutant) the requested title is the key, suffix or not.
StorageKey_AsRequested(s, known) == s

\* The exact title if it is already a key, else some key that matches it.
StorageKey(s, known) ==
  IF s \notin known /\ \E k \in known : TitlesMatch(s, k)
  THEN CHOOSE k \in known : TitlesMatch(s, k)
  ELSE s

\* First stage of the order at the station, 0 if it has none there.
StageAt(stages, s) ==
  LET here == {i \in DOMAIN stages : TitlesMatch(stages[i].station, s)}
  IN  IF here = {} THEN 0 ELSE CHOOSE i \in here : \A j \in here : i <= j

\* queue_state_for_station: unlike the handler it falls back to any matching
\* key that has rows when the resolved key has none.
StationState(seqs, states, s, o) ==
  LET key == StorageKey(s, KnownKeys(seqs, states))
      others == {k \in Stations : HasRows(states[k]) /\ TitlesMatch(k, s)}
  IN  CASE HasRows(states[key]) -> states[key][o]
        [] ~HasRows(states[key]) /\ others # {} -> states[CHOOSE k \in others : TRUE][o]
        [] OTHER -> "pending"

\* (Mutant) the stage before is not looked at.
ReadyForStation_Always(seqs, states, s, o) == TRUE

ReadyForStation(seqs, states, s, o) ==
  LET i == StageAt(route[o], s)
  IN  i > 1 => StationState(seqs, states, route[o][i - 1].station, o) = "completed"

Visible(s, o) == StageAt(route[o], s) > 0 /\ <<o, s>> \notin Blocked

\* p comes before o in the effective sequence: stored orders first, as stored,
\* then the others as the maps are listed, last saved first (saved_at DESC).
Ahead(stored, p, o) ==
  LET listed == IF stored = NoSequence THEN <<>> ELSE stored
  IN  \/ \E i \in DOMAIN listed :
           listed[i] = p /\ \A j \in 1 .. i : listed[j] # o
      \/ {o, p} \cap ToSet(listed) = {} /\ <<p, o>> \in newer

\* (Mutant) a started order no longer holds the queue.
FirstActionable_PastStarted(stored, row, s, o) ==
  /\ Visible(s, o) /\ row[o] # "completed"
  /\ \A p \in maps : Visible(s, p) /\ Ahead(stored, p, o) => row[p] # "pending"

\* (Mutant) only the head of the queue, finished or not.
FirstActionable_Head(stored, row, s, o) ==
  Visible(s, o) /\ \A p \in maps : Visible(s, p) => ~Ahead(stored, p, o)

\* o is the first order of the effective sequence that is not completed.
FirstActionable(stored, row, s, o) ==
  /\ Visible(s, o) /\ row[o] # "completed"
  /\ \A p \in maps : Visible(s, p) /\ Ahead(stored, p, o) => row[p] = "completed"

Needs == [start |-> "pending", complete |-> "in_progress"]
\* (Mutant) a state parse() does not know is stored.
Yields_Unparsable == [start |-> "in_progress", complete |-> "done"]

Yields == [start |-> "in_progress", complete |-> "completed"]

\* apply_apparatus_queue_action's checks, on the tables as they were read.
Accepts(seqs, states, s, o, a) ==
  LET key == StorageKey(s, KnownKeys(seqs, states))
  IN  /\ o \in maps
      /\ a = "start" => ReadyForStation(seqs, states, s, o)
      /\ FirstActionable(seqs[key], states[key], s, o)
      /\ states[key][o] = Needs[a]

\* (Mutant) only the order's own row is written back after the DELETE.
Decision_OwnRowOnly(seqs, states, s, o, a) ==
  [key |-> StorageKey(s, KnownKeys(seqs, states)),
   row |-> [NoRow EXCEPT ![o] = Yields[a]]]

Decision(seqs, states, s, o, a) ==
  LET key == StorageKey(s, KnownKeys(seqs, states))
  IN  [key |-> key, row |-> [states[key] EXCEPT ![o] = Yields[a]]]

\* apparatus_matches_assigned
MayRequest(w, s) == \E t \in Assigned[w] : TitlesMatch(s, t)

-----------------------------------------------------------------------------
(***************************************************************************)
(* POST queue/action: three reads, a decision, one write.  A request for   *)
(* an apparatus that is not the operator's, or one the checks refuse,      *)
(* answers with an error and leaves no trace.                              *)
(***************************************************************************)
Forget(w) ==
  /\ pc' = [pc EXCEPT ![w] = "idle"]
  /\ request' = [request EXCEPT ![w] = IdleRequest]
  /\ seqsRead' = [seqsRead EXCEPT ![w] = NoSequences]
  /\ statesRead' = [statesRead EXCEPT ![w] = NoRows]
  /\ write' = [write EXCEPT ![w] = NoWrite]

ReadSequences(w) ==
  /\ pc[w] = "idle"
  /\ \E r \in Request :
       /\ MayRequest(w, r.station)
       /\ request' = [request EXCEPT ![w] = r]
  /\ pc' = [pc EXCEPT ![w] = "read_states"]
  /\ seqsRead' = [seqsRead EXCEPT ![w] = sequences]
  /\ UNCHANGED <<store, statesRead, write, moving>>

ReadQueueStates(w) ==
  /\ pc[w] = "read_states"
  /\ pc' = [pc EXCEPT ![w] = "read_maps"]
  /\ statesRead' = [statesRead EXCEPT ![w] = queueStates]
  /\ UNCHANGED <<store, request, seqsRead, write, moving>>

ReadMapsAccept(w) ==
  LET r == request[w]
  IN  /\ pc[w] = "read_maps"
      /\ Accepts(seqsRead[w], statesRead[w], r.station, r.order, r.action)
      /\ pc' = [pc EXCEPT ![w] = "put"]
      /\ write' = [write EXCEPT ![w] =
                     Decision(seqsRead[w], statesRead[w], r.station, r.order, r.action)]
      /\ seqsRead' = [seqsRead EXCEPT ![w] = NoSequences]
      /\ statesRead' = [statesRead EXCEPT ![w] = NoRows]
      /\ UNCHANGED <<store, request, moving>>

ReadMapsRefuse(w) ==
  LET r == request[w]
  IN  /\ pc[w] = "read_maps"
      /\ ~Accepts(seqsRead[w], statesRead[w], r.station, r.order, r.action)
      /\ Forget(w)
      /\ UNCHANGED <<store, moving>>

\* DELETE the apparatus' rows, INSERT the decided ones: whatever was stored
\* since they were read is replaced.
PutQueueStates(w) ==
  /\ pc[w] = "put"
  /\ queueStates' = [queueStates EXCEPT ![write[w].key] = write[w].row]
  /\ Forget(w)
  /\ UNCHANGED <<maps, newer, route, sequences, moving>>

-----------------------------------------------------------------------------
(***************************************************************************)
(* Planners: sequences, map saves and moves.                               *)
(***************************************************************************)
SetSequence ==
  /\ \E k \in SequenceKeys, q \in SequenceChoices :
       sequences' = [sequences EXCEPT ![k] = q]
  /\ UNCHANGED <<maps, newer, route, queueStates, locals, moving>>

\* put_maps_batch, one transaction, ids distinct; put_map is a batch of one.
\* Two saves never share a microsecond of saved_at.
PutMaps(batch) ==
  LET ids == {batch[i].order : i \in DOMAIN batch}
      row(o) == CHOOSE i \in DOMAIN batch : batch[i].order = o
  IN  /\ maps' = maps \cup ids
      /\ newer' = {x \in maps' \X maps' :
                     IF x[1] \in ids THEN x[2] \in ids => row(x[1]) > row(x[2])
                     ELSE x[2] \notin ids /\ x \in newer}
      /\ route' = [o \in Orders |-> IF o \in ids THEN batch[row(o)].stages ELSE route[o]]

SaveMaps ==
  /\ \E batch \in Saves : PutMaps(batch)
  /\ UNCHANGED <<sequences, queueStates, locals, moving>>

\* Alternative groups first: only their assignment changes, and it is one for
\* the whole group.  Without one the apparatus nodes titled like the source
\* are retitled.  Nodes off the path chain.rs walks are not modelled.
InAlternatives(stages, from) ==
  \E i \in DOMAIN stages :
    stages[i].assigned # NoStation /\ TitlesMatch(stages[i].assigned, from)

Reassigned(stages, from, to) ==
  [i \in DOMAIN stages |->
     IF InAlternatives(stages, from)
     THEN IF stages[i].assigned # NoStation /\ TitlesMatch(stages[i].assigned, from)
          THEN [stages[i] EXCEPT !.assigned = to] ELSE stages[i]
     ELSE IF ~stages[i].task /\ TitlesMatch(stages[i].station, from)
          THEN [stages[i] EXCEPT !.station = to] ELSE stages[i]]

MovedMaps(ids, from, to) ==
  [i \in DOMAIN ids |->
     [order |-> ids[i], stages |-> Reassigned(route[ids[i]], from, to)]]

\* move_apparatus(_batch) up to its write: one read of the maps, all or none.
ReadForMove(p) ==
  /\ moving[p] = <<>>
  /\ \E ids \in MoveLists, from, to \in Stations :
       /\ from # to
       /\ \A i \in DOMAIN ids :
            /\ ids[i] \in maps
            /\ <<ids[i], from, to>> \in MoveAllowed
            /\ \/ InAlternatives(route[ids[i]], from)
               \/ \E j \in DOMAIN route[ids[i]] :
                    ~route[ids[i]][j].task /\ TitlesMatch(route[ids[i]][j].station, from)
       /\ moving' = [moving EXCEPT ![p] = MovedMaps(ids, from, to)]
  /\ UNCHANGED <<store, locals>>

WriteMove(p) ==
  /\ moving[p] # <<>>
  /\ PutMaps(moving[p])
  /\ moving' = [moving EXCEPT ![p] = <<>>]
  /\ UNCHANGED <<sequences, queueStates, locals>>

-----------------------------------------------------------------------------
(***************************************************************************)
(* Faults.  put_apparatus_queue_states runs outside a transaction: the     *)
(* DELETE and each INSERT commit alone, rows in id order.                  *)
(***************************************************************************)
\* (Mutant) a torn write is retried later from the same copy.
TornPut_Retried(w) ==
  /\ pc[w] = "put"
  /\ queueStates' = [queueStates EXCEPT ![write[w].key] = NoRow]
  /\ UNCHANGED <<maps, newer, route, sequences, locals, moving>>

TornPut(w) ==
  /\ pc[w] = "put"
  /\ \E cut \in Orders :
       queueStates' = [queueStates EXCEPT ![write[w].key] =
         [o \in Orders |-> IF o < cut THEN write[w].row[o] ELSE "pending"]]
  /\ Forget(w)
  /\ UNCHANGED <<maps, newer, route, sequences, moving>>

\* A store call of the request returns StoreFailed before it wrote anything.
StoreFailed(w) ==
  /\ pc[w] # "idle"
  /\ Forget(w)
  /\ UNCHANGED <<store, moving>>

\* The process dies and restarts: requests are gone, the tables stay.
Restart ==
  /\ \E w \in Workers : pc[w] # "idle" \/ \E p \in Planners : moving[p] # <<>>
  /\ pc' = [w \in Workers |-> "idle"]
  /\ request' = [w \in Workers |-> IdleRequest]
  /\ seqsRead' = [w \in Workers |-> NoSequences]
  /\ statesRead' = [w \in Workers |-> NoRows]
  /\ write' = [w \in Workers |-> NoWrite]
  /\ moving' = [p \in Planners |-> <<>>]
  /\ UNCHANGED store

-----------------------------------------------------------------------------
Init ==
  /\ maps \in InitialMaps
  /\ newer = {x \in maps \X maps : x[1] < x[2]}
  /\ route \in InitialRoutes
  /\ sequences \in InitialSequences
  /\ queueStates = NoRows
  /\ pc = [w \in Workers |-> "idle"]
  /\ request = [w \in Workers |-> IdleRequest]
  /\ seqsRead = [w \in Workers |-> NoSequences]
  /\ statesRead = [w \in Workers |-> NoRows]
  /\ write = [w \in Workers |-> NoWrite]
  /\ moving = [p \in Planners |-> <<>>]

OperatorStep ==
  \E w \in Workers :
    \/ ReadSequences(w)
    \/ ReadQueueStates(w)
    \/ ReadMapsAccept(w)
    \/ ReadMapsRefuse(w)
    \/ PutQueueStates(w)

PlannerStep ==
  \/ SetSequence
  \/ SaveMaps
  \/ \E p \in Planners : ReadForMove(p) \/ WriteMove(p)

Fault ==
  \/ \E w \in Workers : TornPut(w) \/ StoreFailed(w)
  \/ Restart

NormalNext == OperatorStep \/ PlannerStep
NormalSpec == Init /\ [][NormalNext]_vars

Next == NormalNext \/ Fault
Spec == Init /\ [][Next]_vars

-----------------------------------------------------------------------------
(***************************************************************************)
(* Properties.                                                             *)
(***************************************************************************)
\* Every table, local copy and pending write has its type; an idle operator
\* holds nothing (queue_state.rs, production_map_store.rs).
TypeOK ==
  /\ maps \subseteq Orders
  /\ newer \subseteq maps \X maps
  /\ route \in [Orders -> Seq(Stage)]
  /\ sequences \in [Stations -> Seq(Orders) \cup {NoSequence}]
  /\ queueStates \in [Stations -> [Orders -> QueueState]]
  /\ pc \in [Workers -> {"idle", "read_states", "read_maps", "put"}]
  /\ request \in [Workers -> Request]
  /\ seqsRead \in [Workers -> [Stations -> Seq(Orders) \cup {NoSequence}]]
  /\ statesRead \in [Workers -> [Stations -> [Orders -> QueueState]]]
  /\ write \in [Workers -> [key : Stations, row : [Orders -> QueueState]]]
  /\ moving \in [Planners -> Seq(MapRow)]

\* No two operators may ask for apparatus that can share a storage key.
Exclusive ==
  \A v, w \in Workers : v # w =>
    \A s, t, k \in Stations :
      ~ /\ MayRequest(v, s) /\ TitlesMatch(s, k)
        /\ MayRequest(w, t) /\ TitlesMatch(t, k)

Rank == [pending |-> 0, in_progress |-> 1, completed |-> 2]

\* A step takes at most one order of an apparatus forward, and by one stage
\* state only, whatever else a torn write loses: an operator's whole-table
\* write (DELETE, then INSERTs of what it read) never brings in progress
\* nobody made.
EarnedStep ==
  \A k \in Stations : \A o, p \in Orders :
    /\ Rank[queueStates'[k][o]] <= Rank[queueStates[k][o]] + 1
    /\ /\ Rank[queueStates'[k][o]] > Rank[queueStates[k][o]]
       /\ Rank[queueStates'[k][p]] > Rank[queueStates[k][p]]
       => o = p
ProgressIsEarned == [][EarnedStep]_vars

\* Without faults no order ever goes back on any apparatus: no started or
\* finished stage is undone by another request's write, a reordering, a map
\* save or a move.
KeptStep ==
  \A k \in Stations : \A o \in Orders :
    Rank[queueStates[k][o]] <= Rank[queueStates'[k][o]]
ProgressIsKept == [][KeptStep]_vars

\* Where the whole queue of an apparatus is stored and planners leave it
\* alone, orders are worked strictly in that sequence, one at a time, however
\* often their maps are saved again (first_actionable_order_id).
WorkedInSequence ==
  \A k \in Stations \ SequenceKeys : \A o, p \in maps :
    /\ sequences[k] # NoSequence /\ maps \subseteq ToSet(sequences[k])
    /\ Visible(k, o) /\ Visible(k, p)
    /\ Ahead(sequences[k], o, p)
    /\ queueStates[k][p] # "pending"
    => queueStates[k][o] = "completed"

Unfinished(s, o) ==
  /\ o \in maps /\ Visible(s, o)
  /\ queueStates[StorageKey(s, KnownKeys(sequences, queueStates))][o] # "completed"

\* The queues never wedge: while an order has an unfinished stage, some
\* operator has a request the server would accept at once, although each
\* queue only ever offers its head and a head may wait for another station.
CanProceed ==
  (\E s \in Stations, o \in Orders : Unfinished(s, o)) =>
    \E w \in Workers, r \in Request :
      /\ MayRequest(w, r.station)
      /\ Accepts(sequences, queueStates, r.station, r.order, r.action)

\* The titles of one apparatus ("Laminatsiya", "Laminatsiya - A") keep their
\* rows under one key, whichever title each request uses
\* (resolve_apparatus_storage_key).
OneKeyPerApparatus ==
  \A k, l \in Stations :
    TitlesMatch(k, l) /\ HasRows(queueStates[k]) /\ HasRows(queueStates[l]) => k = l

\* "Starts or completes the current actionable order": at the moment an
\* operator's write lands, its order is the one the queue then offers.
ActsOnActionable ==
  [][\A w \in Workers : PutQueueStates(w) =>
       LET k == write[w].key
       IN  FirstActionable(sequences[k], queueStates[k],
                           request[w].station, request[w].order)]_vars
=============================================================================
