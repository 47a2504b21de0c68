---------------------------- MODULE StockRequests ----------------------------
(***************************************************************************)
(* Requests that write stock documents to ERPNext (core/werka,             *)
(* core/customer with erpnext/purchase_receipt and erpnext/delivery_note). *)
(* A request is a handler that takes one ERPNext request at a time: each   *)
(* of them, with the answer it gets, is an atomic step, and other          *)
(* requests and the users of the ERPNext desk act in between. Nothing is   *)
(* locked and nothing is persisted on this server.                         *)
(***************************************************************************)
EXTENDS Integers, Sequences, FiniteSets

CONSTANTS
  Handlers,               \* requests that may be served at the same time
  None,
  DirectDb,               \* is the database of ERPNext read directly
  MaxRequests, MaxFaults, MaxDesk  \* bounds: requests, faults, desk actions

ASSUME RequestsAssumption ==
  DirectDb \in BOOLEAN /\ {MaxRequests, MaxFaults, MaxDesk} \subseteq Nat

VARIABLES
  jobs,      \* handler -> the request it serves, or how the last one ended
  requests, faults, desk

requestVars == <<jobs, requests, faults, desk>>

(* "lost" ends a request that failed when an answer of ERPNext did not     *)
(* arrive or a clean-up failed, "kept" one whose undo ERPNext refused; the *)
(* client sees an error in all cases.                                      *)
Results == {"ok", "error", "kept", "lost"}
Idle(result) == [op |-> "idle", result |-> result]
Working(h) == jobs[h].op # "idle"
On(h, doc) == Working(h) /\ jobs[h].doc = doc

(* What an ERPNext request may come to: done; done, but the answer is lost *)
(* or cannot be read; refused. All but the first are faults unless the     *)
(* state of the document explains a refusal.                               *)
Outcomes == {"ok", "lost", "refused"}
Faulty(outcome) ==
  IF outcome = "ok" THEN UNCHANGED faults ELSE faults < MaxFaults /\ faults' = faults + 1
Answered(outcome, refusable) ==
  IF outcome = "refused" /\ refusable THEN UNCHANGED faults ELSE Faulty(outcome)

(* Whoever touches a document that a request works on ends its being alone *)
(* (a history variable, for the properties).                               *)
Disturb(js, doc) ==
  [h \in Handlers |-> IF js[h].op # "idle" /\ js[h].doc = doc
                      THEN [js[h] EXCEPT !.alone = FALSE] ELSE js[h]]

Begin(h, op, pc, doc, arg) ==
  /\ ~Working(h) /\ requests < MaxRequests
  /\ requests' = requests + 1
  /\ jobs' = [Disturb(jobs, doc) EXCEPT ![h] =
       [op |-> op, pc |-> pc, doc |-> doc, arg |-> arg, copy |-> None, attempt |-> 0,
        lost |-> FALSE, alone |-> \A g \in Handlers : ~On(g, doc)]]
  /\ UNCHANGED <<faults, desk>>

At(h, pc) == Working(h) /\ jobs[h].pc = pc
Continue(h, job) == jobs' = [jobs EXCEPT ![h] = job] /\ UNCHANGED <<requests, desk>>
Go(h, pc) == Continue(h, [jobs[h] EXCEPT !.pc = pc])
Finish(h, result) == Continue(h, Idle(result))
Failure(h) == IF jobs[h].lost THEN "lost" ELSE "error"

(* A read that fails. *)
ReadFails(h, next) ==
  faults < MaxFaults /\ faults' = faults + 1 /\ Continue(h, next)

(* The client hangs up or the server stops: the handler is dropped at the  *)
(* ERPNext request it waits for.                                           *)
Dropped(h) ==
  /\ Working(h)
  /\ faults < MaxFaults /\ faults' = faults + 1
  /\ Finish(h, "lost")

DeskActs(doc) ==
  /\ desk < MaxDesk /\ desk' = desk + 1
  /\ jobs' = Disturb(jobs, doc)
  /\ UNCHANGED <<requests, faults>>

RequestsInit ==
  jobs = [h \in Handlers |-> Idle("ok")] /\ requests = 0 /\ faults = 0 /\ desk = 0
==============================================================================
