--------------------------- MODULE AccessRequests ---------------------------
(***************************************************************************)
(* Requests that log people in and out and that administer who may do      *)
(* what. A request is an async handler: it takes one step at a time, at    *)
(* each lock, storage transaction or ERPNext request it waits for, and the *)
(* other handlers act in between.                                          *)
(***************************************************************************)
EXTENDS Integers, Sequences, FiniteSets, TLC

CONSTANTS
  Handlers,            \* requests that may be served at the same time
  None,
  Mixes                \* what a behaviour is made of, with its bounds:
                       \* [ops, backend, person, requests, faults, clock]

ASSUME AccessAssumption ==
  /\ None \notin Nat
  /\ \A m \in Mixes : m.backend \in {"json", "lmdb"} /\ {m.requests, m.faults, m.clock} \subseteq Nat

(* Strings the requests write themselves (a prover is not told that a      *)
(* string constant is a string).                                           *)
ASSUME WordsAssumption == {"", "old", "new", "chosen", "werka", "Werka"} \subseteq STRING

(* A table in which some entries come before those of another one.         *)
Over(first, rest) ==
  [k \in DOMAIN first \cup DOMAIN rest |-> IF k \in DOMAIN first THEN first[k] ELSE rest[k]]
Only(key, value) == [k \in {key} |-> value]

VARIABLES
  jobs,      \* handler -> the request it serves
  requests, faults,
  now,       \* the clock, in units of a quarter of a code window
  mix        \* the operations and the backend of this behaviour

requestVars == <<jobs, requests, faults, now, mix>>

(* LOCAL_STORE_BACKEND: the local stores are LMDB environments or JSON     *)
(* files that are rewritten whole.                                         *)
Lmdb == mix.backend = "lmdb"

Idle == [op |-> "idle"]
Working(h) == jobs[h].op # "idle"
At(h, pc) == Working(h) /\ jobs[h].pc = pc

(* What a request that touches the same data as another's ends for both    *)
(* is their being alone (a history variable, for the properties).          *)
On(h, keys) == Working(h) /\ jobs[h].keys \cap keys # {}

Begin(h, op, pc, keys, arg) ==
  /\ ~Working(h) /\ requests < mix.requests /\ op \in mix.ops
  /\ requests' = requests + 1
  /\ jobs' = [g \in Handlers |->
       IF g = h THEN [op |-> op, pc |-> pc, keys |-> keys, arg |-> arg, copy |-> None,
                      phase |-> "get", alone |-> \A f \in Handlers : ~On(f, keys)]
       ELSE IF On(g, keys) THEN [jobs[g] EXCEPT !.alone = FALSE] ELSE jobs[g]]
  /\ UNCHANGED <<faults, now, mix>>

Continue(h, job) == jobs' = [jobs EXCEPT ![h] = job] /\ UNCHANGED <<requests, now, mix>>
Go(h, pc) == Continue(h, [jobs[h] EXCEPT !.pc = pc])
GoWith(h, pc, copy) == Continue(h, [jobs[h] EXCEPT !.pc = pc, !.copy = copy])
(* The request is answered, or refused.                                    *)
Finish(h) == Continue(h, Idle)

(* A storage transaction or an ERPNext request fails, or the client hangs  *)
(* up and the handler is dropped where it waits.                           *)
Fault == faults < mix.faults /\ faults' = faults + 1
NoFault == UNCHANGED faults
Outcome(ok) == IF ok THEN NoFault ELSE Fault

Dropped(h) == Working(h) /\ Fault /\ Finish(h)

Tick == now < mix.clock /\ now' = now + 1 /\ UNCHANGED <<jobs, requests, faults, mix>>

(* The server stops and starts again: every request is lost.               *)
Stopped ==
  /\ Fault /\ jobs' = [h \in Handlers |-> Idle]
  /\ UNCHANGED <<requests, now, mix>>

RequestsInit ==
  /\ mix \in Mixes
  /\ jobs = [h \in Handlers |-> Idle] /\ requests = 0 /\ faults = 0 /\ now = 0
==============================================================================
