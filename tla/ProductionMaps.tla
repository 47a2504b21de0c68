---------------------------- MODULE ProductionMaps ----------------------------
(***************************************************************************)
(* The store of production maps and queues with those who change it, the   *)
(* operators' live feeds that follow it, and a client that runs a map,     *)
(* answering the conditions it stops at.                                   *)
(***************************************************************************)
EXTENDS MapPrograms

CONSTANTS
  InitialMaps,   \* what the store may hold at first, newest first
  Drafts,        \* the maps that may be saved
  Moves,         \* <<id, from, to>> an order may be asked to move
  Sequences,     \* what the planners may store
  Tables,        \* the sets of queue rows an operator's action may leave
  Feeds,         \* the subscribers of the live feed
  Inputs,        \* <<quantity, variables>> a run may be asked with
  Answers,       \* the values given to a variable
  Capacity,      \* the notifications kept for a subscriber
  MaxWrites, MaxErrors, MaxConnects   \* bounds of the instance

VARIABLES
  maps,         \* the maps stored, newest first
  sequences,    \* the planned sequences
  rows,         \* the queue rows
  unannounced,  \* writes done and not yet notified
  silent,       \* whether rows were cut with nothing notified since
  feed,         \* feed[f]: one subscriber's stream
  inbox,        \* inbox[f]: its receiver of notifications
  asked,        \* the client's latest run
  count         \* the writes, errors and connections so far

store == <<maps, sequences, rows>>
vars == <<maps, sequences, rows, unannounced, silent, feed, inbox, asked, count>>

Nothing == <<>>
Off == [at |-> "off", copy |-> Nothing, sent |-> Nothing, failed |-> FALSE]
Empty == [pending |-> 0, lagged |-> FALSE]
NoRun == [map |-> Nothing, qty |-> 0, input |-> NoVariables,
          result |-> Ends(Start(0, NoVariables), "")]

Init ==
  /\ maps \in InitialMaps
  /\ sequences = Nothing /\ rows = {}
  /\ unannounced = 0 /\ silent = FALSE
  /\ feed = [f \in Feeds |-> Off]
  /\ inbox = [f \in Feeds |-> Empty]
  /\ asked = NoRun
  /\ count = [writes |-> 0, errors |-> 0, connects |-> 0]

Counted(what, bound) ==
  count[what] < bound /\ count' = [count EXCEPT ![what] = @ + 1]

-----------------------------------------------------------------------------
(* The writers: each writes, then notifies *)

Stored(map) == <<map>> \o SelectSeq(maps, LAMBDA m : m.id # map.id)

Written ==
  /\ Counted("writes", MaxWrites)
  /\ unannounced' = unannounced + 1
  /\ UNCHANGED <<silent, feed, inbox, asked>>

UpsertMap(map) ==
  /\ Compiles(Normalized(map))
  /\ maps' = Stored(Normalized(map))
  /\ Written /\ UNCHANGED <<sequences, rows>>

\* A new order whose template was refused is deleted again; the previous
\* version of any other is put back, which writes and notifies as a save.
RestoreMap(id) ==
  /\ maps' = SelectSeq(maps, LAMBDA m : m.id # id)
  /\ Written /\ UNCHANGED <<sequences, rows>>

MoveApparatus(id, from, to) ==
  \E map \in Range(maps) :
    /\ map.id = id /\ from # to
    /\ MoveAllowed(map, from, to)
    /\ \/ GroupsAssigned(map, from) # {}
       \/ \E n \in Apparatus(map) : n.title = from
    /\ UpsertMap(Reassigned(map, from, to))

SetApparatusSequence(sequence) ==
  sequences' = sequence /\ Written /\ UNCHANGED <<maps, rows>>

PutQueueStates(table) ==
  rows' = table /\ Written /\ UNCHANGED <<maps, sequences>>

\* Deleting and inserting the rows is no transaction: an error leaves the
\* first of them, and nobody is notified.
PutQueueStatesFails(table) ==
  /\ rows' \in SUBSET table /\ rows' # table
  /\ Counted("writes", MaxWrites)
  /\ silent' = TRUE
  /\ UNCHANGED <<maps, sequences, unannounced, feed, inbox, asked>>

Connected(f) == feed[f].at # "off"

\* A receiver that has fallen behind keeps the newest notifications.

Delivered_BadWaiters(f) ==
  IF feed[f].at # "wait" THEN inbox[f]
  ELSE [pending |-> Min({Capacity, inbox[f].pending + 1}),
        lagged |-> inbox[f].lagged \/ inbox[f].pending = Capacity]

Delivered(f) ==
  IF ~Connected(f) THEN inbox[f]
  ELSE [pending |-> Min({Capacity, inbox[f].pending + 1}),
        lagged |-> inbox[f].lagged \/ inbox[f].pending = Capacity]

NotifyLive ==
  /\ unannounced > 0 /\ unannounced' = unannounced - 1
  /\ silent' = FALSE
  /\ inbox' = [f \in Feeds |-> Delivered(f)]
  /\ UNCHANGED <<store, feed, asked, count>>

-----------------------------------------------------------------------------
(* A live feed: a snapshot in three reads, sent if it is new, then the     *)
(* next notification                                                       *)

FeedStep(f, stream) ==
  feed' = [feed EXCEPT ![f] = stream] /\ UNCHANGED <<store, unannounced, silent, asked>>

Listed == SelectSeq(maps, Compiles)
Snapshot == <<Listed, sequences, rows>>

Connect(f) ==
  /\ ~Connected(f) /\ Counted("connects", MaxConnects)
  /\ FeedStep(f, [Off EXCEPT !.at = "maps"]) /\ UNCHANGED inbox

Disconnect(f) ==
  /\ Connected(f) /\ FeedStep(f, Off)
  /\ inbox' = [inbox EXCEPT ![f] = Empty] /\ UNCHANGED count

ReadMaps(f) ==
  /\ feed[f].at = "maps"
  /\ FeedStep(f, [feed[f] EXCEPT !.at = "sequences", !.copy = <<Listed>>])
  /\ UNCHANGED <<inbox, count>>

ReadSequences(f) ==
  /\ feed[f].at = "sequences"
  /\ FeedStep(f, [feed[f] EXCEPT !.at = "states", !.copy = Append(@, sequences)])
  /\ UNCHANGED <<inbox, count>>

\* An unchanged snapshot is not sent again.
ReadQueueStates(f) ==
  /\ feed[f].at = "states"
  /\ FeedStep(f, [at |-> "wait", copy |-> Nothing, failed |-> FALSE,
                  sent |-> Append(feed[f].copy, rows)])
  /\ UNCHANGED <<inbox, count>>

\* A failed read is reported and not tried again before a notification.
ReadFails(f) ==
  /\ feed[f].at \in {"maps", "sequences", "states"}
  /\ Counted("errors", MaxErrors)
  /\ FeedStep(f, [feed[f] EXCEPT !.at = "wait", !.copy = Nothing, !.failed = TRUE])
  /\ UNCHANGED inbox

\* To have lagged is reported first, and is a reason to look like any other.
Receive(f) ==
  /\ feed[f].at = "wait"
  /\ \/ /\ inbox[f].lagged
        /\ inbox' = [inbox EXCEPT ![f].lagged = FALSE]
     \/ /\ ~inbox[f].lagged /\ inbox[f].pending > 0
        /\ inbox' = [inbox EXCEPT ![f].pending = @ - 1]
  /\ FeedStep(f, [feed[f] EXCEPT !.at = "maps"]) /\ UNCHANGED count

Streaming(f) == ReadMaps(f) \/ ReadSequences(f) \/ ReadQueueStates(f) \/ Receive(f)

-----------------------------------------------------------------------------
(* The client *)

\* The newest map that has the id or makes the product asked for.
Found(id, product) ==
  SelectSeq(maps, LAMBDA m : m.id = id \/ m.product = product)

RunOn(map, qty, input) ==
  /\ asked' = [map |-> map, qty |-> qty, input |-> input,
               result |-> RunMap(map, qty, input)]
  /\ UNCHANGED <<store, unannounced, silent, feed, inbox, count>>

Run ==
  \E map \in UNION {{Found(m.id, "")[1], Found("", m.product)[1]} : m \in Range(maps)},
     q \in Inputs :
    RunOn(map, q[1], q[2])

Answer ==
  /\ asked.result.status = "awaiting"
  /\ \E found \in {Found(asked.map.id, "")}, value \in Answers :
       /\ found # <<>>
       /\ RunOn(found[1], asked.qty, (asked.result.awaiting :> value) @@ asked.input)

-----------------------------------------------------------------------------
Next ==
  \/ \E map \in Drafts : UpsertMap(map)
  \/ \E map \in Range(maps) : RestoreMap(map.id)
  \/ \E m \in Moves : MoveApparatus(m[1], m[2], m[3])
  \/ \E s \in Sequences : SetApparatusSequence(s)
  \/ \E t \in Tables : PutQueueStates(t) \/ PutQueueStatesFails(t)
  \/ NotifyLive
  \/ \E f \in Feeds :
       Connect(f) \/ Disconnect(f) \/ ReadFails(f) \/ Streaming(f)
  \/ Run \/ Answer

\* Nothing stands between a write and its notification but the runtime, and
\* a connected stream is polled as soon as it can go on.
Spec ==
  /\ Init /\ [][Next]_vars
  /\ WF_vars(NotifyLive) /\ \A f \in Feeds : WF_vars(Streaming(f))

-----------------------------------------------------------------------------
(* Properties *)

InProgram(visited, map) ==
  LET program == Program(map)
      place(id) == {i \in DOMAIN program : program[i].node = id}
  IN  \A i, j \in DOMAIN visited : i < j =>
        \E a \in place(visited[i]), b \in place(visited[j]) : a < b

\* What a run drafts: its work, in order, for what the program says.
DraftsItsWork(run, map) ==
  LET work == SelectSeq(run.visited, LAMBDA id : NodeOf(map, id).kind \in WorkKinds)
  IN  /\ [i \in DOMAIN run.tasks |-> run.tasks[i].node] = work
      /\ \A t \in Range(run.tasks) :
           t.qty > 0 /\ [node |-> t.node, op |-> t.op] \in Range(Program(map))

\* The same map was run with a value for the variable it awaited.
Answered ==
  /\ asked.result.status = "awaiting"
  /\ asked'.map = asked.map /\ asked'.qty = asked.qty
  /\ \E value \in Answers :
       asked'.input = (asked.result.awaiting :> value) @@ asked.input

(* A run that does not fail keeps to the program the map was listed with:  *)
(* no node twice or before one it depends on, a task for each work node,   *)
(* and the same again, and more, once the client has answered for a        *)
(* variable, unless the map was changed in between.                        *)
RunFollowsProgram ==
  [][LET run == asked'.result
         before == asked.result
     IN  asked' # asked /\ run.status # "failed" =>
           /\ InProgram(run.visited, asked'.map)
           /\ DraftsItsWork(run, asked'.map)
           /\ Answered =>
                /\ IsPrefix(before.visited, run.visited)
                /\ IsPrefix(before.tasks, run.tasks)
                /\ run.awaiting # before.awaiting]_asked

(* A connected operator ends up with what is stored, however many of the   *)
(* notifications were dropped, unless the last reading failed or the last  *)
(* change was rows cut by an error, which is not notified.                 *)
FeedsCatchUp ==
  <>[](\A f \in Feeds : Connected(f) =>
         silent \/ feed[f].failed \/ feed[f].sent = Snapshot)
=============================================================================
