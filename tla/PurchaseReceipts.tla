-------------------------- MODULE PurchaseReceipts --------------------------
(***************************************************************************)
(* Goods that arrive: a supplier announces a delivery or the warehouse     *)
(* (werka) records one nobody announced; the warehouse accepts a quantity, *)
(* and the supplier answers an unannounced delivery and acknowledges a     *)
(* decision. A delivery is a Purchase Receipt of ERPNext; what the server  *)
(* wants to remember about it goes to the document's remarks.              *)
(***************************************************************************)
EXTENDS StockRequests

CONSTANTS
  Suppliers,
  Barred,         \* suppliers the admin has blocked or removed,
  Linked,         \* those the item is linked to in ERPNext
  Assigned,       \* and those the admin assigned it to, in this server's store
  LinksReadable,  \* whether ERPNext lets the server read the links
  Quantities,     \* what a delivery may hold
  Decisions,      \* [accepted, returned] of confirm requests
  MaxReceipts     \* bound

ASSUME ReceiptsAssumption ==
  /\ UNION {Barred, Linked, Assigned} \subseteq Suppliers /\ LinksReadable \in BOOLEAN
  /\ Quantities \subseteq Int
  /\ Decisions \subseteq [accepted : Int, returned : Int]
  /\ MaxReceipts \in Nat

VARIABLE receipts   \* the Purchase Receipts of ERPNext, by number

Receipt(n) == <<"receipt", n>>

(* Remarks: the state of an unannounced delivery, the decision of the      *)
(* warehouse, the acknowledgment of the supplier.                          *)
NoRemarks == [unannounced |-> "none", decision |-> None, ack |-> FALSE]
NewReceipt(s, qty) ==
  [status |-> "draft", supplier |-> s, marker |-> qty, qty |-> qty, rejected |-> 0,
   remarks |-> NoRemarks, rev |-> 0]

(* sent_qty of the views: what the marker says, if that is more.           *)
Sent(doc) == IF doc.marker > doc.qty THEN doc.marker ELSE doc.qty

WithUnannounced(remarks, state) == [remarks EXCEPT !.unannounced = state]
WithAck(remarks) == [remarks EXCEPT !.ack = TRUE]
WithDecision(remarks, note) ==
  IF note = None THEN remarks ELSE [remarks EXCEPT !.decision = note, !.ack = FALSE]

-----------------------------------------------------------------------------
(* ERPNext *)

StoredReceipt(n, doc) ==
  receipts' = [receipts EXCEPT ![n] = [doc EXCEPT !.rev = receipts[n].rev + 1]]

(* PUT of the remarks alone: not compared with the version, allowed on a   *)
(* draft, perhaps on a submitted document, never on a cancelled one.       *)
PutRemarks(h, n, remarks, outcome) ==
  /\ outcome # "refused" => receipts[n].status # "cancelled"
  /\ Answered(outcome, receipts[n].status # "draft")
  /\ IF outcome = "refused" THEN UNCHANGED receipts
     ELSE StoredReceipt(n, [receipts[n] EXCEPT !.remarks = remarks])

(* PUT of a whole document. An older version may be refused; a document    *)
(* that is not a draft any more is refused, unless nothing changes.        *)
Same(doc, other) ==
  [doc EXCEPT !.rev = 0, !.status = "draft"] = [other EXCEPT !.rev = 0, !.status = "draft"]
PutWhole(n, doc, version, outcome) ==
  LET now == receipts[n]
      unchanged == now.status = "submitted" /\ Same(doc, now)
  IN  /\ outcome # "refused" => now.status = "draft" \/ unchanged
      /\ Answered(outcome, version # now.rev \/ now.status # "draft")
      /\ IF outcome = "refused" THEN UNCHANGED receipts
         ELSE StoredReceipt(n, [doc EXCEPT !.status = now.status])

(* frappe.client.submit with the document as it was read. *)
Mismatch(n, seen) == receipts[n].rev # seen.rev
SubmitReceipt(n, outcome) ==
  /\ outcome # "refused" => receipts[n].status # "cancelled"
  /\ Answered(outcome, receipts[n].status = "cancelled")
  /\ IF outcome = "refused" THEN UNCHANGED receipts
     ELSE StoredReceipt(n, [receipts[n] EXCEPT !.status = "submitted"])

-----------------------------------------------------------------------------
(* A new delivery *)

(* The suppliers of the item: from the database if it can be read, else    *)
(* from ERPNext, and from the admin's store if ERPNext forbids it.         *)
ItemSuppliers == IF DirectDb \/ LinksReadable THEN Linked ELSE Assigned
MayDispatch(s) == s \notin Barred /\ s \in ItemSuppliers
MayRecord(s) ==
  /\ s \notin Barred
  /\ s \in (IF DirectDb THEN Linked ELSE {}) \cup (IF LinksReadable THEN Linked ELSE Assigned)
ValidCreate(job) ==
  /\ IF job.op = "dispatch" THEN MayDispatch(job.arg.supplier) ELSE MayRecord(job.arg.supplier)
  /\ job.arg.qty > 0

(* create_draft_purchase_receipt: the document is read back, so "ok" is    *)
(* both answers.                                                           *)
Create(s, qty, outcome) ==
  /\ Len(receipts) < MaxReceipts
  /\ Faulty(outcome)
  /\ receipts' = IF outcome = "refused" THEN receipts ELSE Append(receipts, NewReceipt(s, qty))

Dispatch(h, s, qty) ==
  /\ Begin(h, "dispatch", "create", Receipt(None), [supplier |-> s, qty |-> qty])
  /\ UNCHANGED receipts
Unannounced(h, s, qty) ==
  /\ Begin(h, "unannounced", "create", Receipt(None), [supplier |-> s, qty |-> qty])
  /\ UNCHANGED receipts

(* The supplier's state, its items and the input are checked first.        *)
CreateRefused(h) ==
  /\ At(h, "create") /\ jobs[h].doc = Receipt(None)
  /\ ~ValidCreate(jobs[h])
  /\ Finish(h, "error")
  /\ UNCHANGED <<receipts, faults>>

CreateDone(h) ==
  /\ At(h, "create") /\ jobs[h].doc = Receipt(None)
  /\ ValidCreate(jobs[h])
  /\ \E outcome \in Outcomes :
       /\ Create(jobs[h].arg.supplier, jobs[h].arg.qty, outcome)
       /\ IF outcome # "ok"
          THEN Finish(h, IF outcome = "lost" THEN "lost" ELSE "error")
          ELSE IF jobs[h].op = "dispatch" THEN Finish(h, "ok")
          ELSE Continue(h, [jobs[h] EXCEPT !.doc = Receipt(Len(receipts) + 1), !.pc = "mark"])

(* The "pending" mark of an unannounced delivery is a request of its own.  *)
MarkUnannounced(h) ==
  /\ At(h, "mark")
  /\ \E outcome \in Outcomes :
       /\ PutRemarks(h, jobs[h].doc[2], WithUnannounced(NoRemarks, "pending"), outcome)
       /\ Finish(h, IF outcome = "ok" THEN "ok" ELSE "lost")

-----------------------------------------------------------------------------
(* The warehouse confirms *)

Implied(doc, accepted) == IF doc.qty > accepted THEN doc.qty - accepted ELSE 0

(* build_accord_decision_note: nothing is noted, and the returned quantity *)
(* is not looked at, when all is accepted.                                 *)
NoteOf(doc, d) ==
  IF Implied(doc, d.accepted) = 0 THEN None
  ELSE [accepted |-> d.accepted,
        returned |-> IF d.returned = 0 THEN Implied(doc, d.accepted) ELSE d.returned]

ValidDecision_Negative(doc, d) ==
  /\ d.accepted <= doc.qty
  /\ Implied(doc, d.accepted) > 0 => d.returned >= 0 /\ d.returned <= Implied(doc, d.accepted)

ValidDecision_Unbounded(doc, d) == d.accepted >= 0

ValidDecision(doc, d) ==
  /\ d.accepted >= 0 /\ d.accepted <= doc.qty
  /\ Implied(doc, d.accepted) > 0 => d.returned >= 0 /\ d.returned <= Implied(doc, d.accepted)

FullReturn(doc, d) == d.accepted = 0 /\ d.returned >= doc.qty /\ doc.qty > 0

(* update_first_receipt_item and the decision in the remarks.              *)
Decided(doc, d) ==
  [doc EXCEPT !.qty = d.accepted, !.rejected = d.returned,
              !.remarks = WithDecision(@, NoteOf(doc, d))]

Confirm(h, n, d) ==
  /\ n \in DOMAIN receipts
  /\ Begin(h, "confirm", "fetch", Receipt(n), d)
  /\ UNCHANGED receipts

Fetch(h) ==
  /\ At(h, "fetch")
  /\ UNCHANGED receipts
  /\ LET doc == receipts[jobs[h].doc[2]]
         d   == jobs[h].arg
     IN  \/ /\ UNCHANGED faults
            /\ IF ~ValidDecision(doc, d) THEN Finish(h, "error")
               ELSE Continue(h, [jobs[h] EXCEPT !.copy = doc,
                      !.pc = IF FullReturn(doc, d) THEN "note" ELSE "write"])
         \/ ReadFails(h, Idle("error"))

(* Everything goes back: the receipt stays a draft with a note.            *)
NoteFullReturn(h) ==
  /\ At(h, "note")
  /\ LET copy == jobs[h].copy
     IN  \E outcome \in Outcomes :
           /\ PutRemarks(h, jobs[h].doc[2], Decided(copy, jobs[h].arg).remarks, outcome)
           /\ Finish(h, IF outcome = "refused" THEN "error" ELSE outcome)

WriteDecision(h) ==
  /\ At(h, "write")
  /\ LET copy == jobs[h].copy
     IN  \E outcome \in Outcomes :
           /\ PutWhole(jobs[h].doc[2], Decided(copy, jobs[h].arg), copy.rev, outcome)
           /\ CASE outcome = "ok" -> Go(h, "latest")
                [] outcome = "lost" -> Finish(h, "lost")
                [] OTHER -> Finish(h, "error")

(* submit_doc: read, submit, and once more after a mismatch of versions.   *)
ReadLatest(h) ==
  /\ At(h, "latest") /\ jobs[h].doc[1] = "receipt"
  /\ UNCHANGED receipts
  /\ \/ /\ UNCHANGED faults
        /\ Continue(h, [jobs[h] EXCEPT !.pc = "submit",
             !.arg = [accepted |-> @.accepted, returned |-> @.returned,
                      seen |-> receipts[jobs[h].doc[2]]]])
     \/ ReadFails(h, [jobs[h] EXCEPT !.pc = "undo"])

AfterSubmit_NoUndo(h, outcome) == Finish(h, IF outcome = "ok" THEN "ok" ELSE "error")

AfterSubmit(h, outcome) ==
  IF outcome = "ok" THEN Finish(h, "ok")
  ELSE Continue(h, [jobs[h] EXCEPT !.pc = "undo", !.lost = outcome = "lost"])

SubmitDecision(h) ==
  /\ At(h, "submit") /\ jobs[h].doc[1] = "receipt"
  /\ LET n == jobs[h].doc[2]
     IN  IF Mismatch(n, jobs[h].arg.seen)
         THEN /\ IF jobs[h].attempt = 0
                 THEN Continue(h, [jobs[h] EXCEPT !.pc = "latest", !.attempt = 1])
                 ELSE AfterSubmit(h, "refused")
              /\ UNCHANGED <<receipts, faults>>
         ELSE \E outcome \in Outcomes :
                SubmitReceipt(n, outcome) /\ AfterSubmit(h, outcome)

AfterUndo(h, outcome) ==
  CASE outcome = "ok" -> Failure(h)
    [] outcome = "refused" /\ ~jobs[h].lost -> "kept"
    [] OTHER -> "lost"

(* The original document is written back, with the version it was read in. *)
(* The request's own write has made a newer one, so ERPNext may refuse     *)
(* without anybody's interference, and the decision then stays written.    *)
Undo(h) ==
  /\ At(h, "undo")
  /\ LET copy == jobs[h].copy
     IN  \E outcome \in Outcomes :
           /\ PutWhole(jobs[h].doc[2], copy, copy.rev, outcome)
           /\ Finish(h, AfterUndo(h, outcome))

-----------------------------------------------------------------------------
(* The supplier answers *)

Respond(h, n, s, approve) ==
  /\ n \in DOMAIN receipts
  /\ Begin(h, "respond", "read", Receipt(n), [supplier |-> s, approve |-> approve])
  /\ UNCHANGED receipts

MayRespond(doc, s) == doc.supplier = s /\ doc.remarks.unannounced = "pending"
ReadResponse(h) ==
  /\ At(h, "read")
  /\ UNCHANGED receipts
  /\ LET doc == receipts[jobs[h].doc[2]]
     IN  \/ /\ UNCHANGED faults
            /\ IF ~MayRespond(doc, jobs[h].arg.supplier) THEN Finish(h, "error")
               ELSE Continue(h, [jobs[h] EXCEPT !.pc = "respond", !.copy = doc])
         \/ ReadFails(h, Idle("error"))

(* An approval then confirms the quantity that was read, as a warehouse    *)
(* confirmation would, on the document as it is by then.                   *)
WriteResponse(h) ==
  /\ At(h, "respond")
  /\ LET copy  == jobs[h].copy
         state == IF jobs[h].arg.approve THEN "approved" ELSE "rejected"
     IN  \E outcome \in Outcomes :
           /\ PutRemarks(h, jobs[h].doc[2], WithUnannounced(copy.remarks, state), outcome)
           /\ IF outcome = "ok" /\ jobs[h].arg.approve
              THEN Continue(h, [jobs[h] EXCEPT !.pc = "fetch",
                     !.arg = [accepted |-> copy.qty, returned |-> 0]])
              ELSE Finish(h, IF outcome = "refused" THEN "error" ELSE outcome)

(* A comment that says the supplier agrees is noted in the remarks, read   *)
(* before the note is added; how the write ends is ignored. The comment    *)
(* itself is text and goes first.                                          *)
Acknowledge(h, n, s) ==
  /\ n \in DOMAIN receipts
  /\ Begin(h, "ack", "ack_read", Receipt(n), [supplier |-> s])
  /\ UNCHANGED receipts

(* authorize_notification_detail *)
MayOpen(doc, s) == doc.supplier = s
ReadAck(h) ==
  /\ At(h, "ack_read")
  /\ UNCHANGED receipts
  /\ LET doc == receipts[jobs[h].doc[2]]
     IN  \/ /\ UNCHANGED faults
            /\ IF ~MayOpen(doc, jobs[h].arg.supplier) THEN Finish(h, "error")
               ELSE Continue(h, [jobs[h] EXCEPT !.pc = "ack_write", !.copy = doc])
         \/ ReadFails(h, Idle("error"))

WriteAck(h) ==
  /\ At(h, "ack_write")
  /\ \E outcome \in Outcomes :
       PutRemarks(h, jobs[h].doc[2], WithAck(jobs[h].copy.remarks), outcome)
  /\ Finish(h, "ok")

-----------------------------------------------------------------------------
(* Desk users save a draft again or cancel a receipt that is booked.       *)
DeskReceipt(n) ==
  /\ n \in DOMAIN receipts
  /\ DeskActs(Receipt(n))
  /\ \/ receipts[n].status = "draft" /\ StoredReceipt(n, receipts[n])
     \/ receipts[n].status = "submitted" /\ StoredReceipt(n, [receipts[n] EXCEPT !.status = "cancelled"])

ReceiptStep(h) ==
  \/ \E s \in Suppliers, qty \in Quantities : Dispatch(h, s, qty) \/ Unannounced(h, s, qty)
  \/ CreateRefused(h) \/ CreateDone(h) \/ MarkUnannounced(h)
  \/ \E n \in 1 .. MaxReceipts, d \in Decisions : Confirm(h, n, d)
  \/ Fetch(h) \/ NoteFullReturn(h) \/ WriteDecision(h)
  \/ ReadLatest(h) \/ SubmitDecision(h) \/ Undo(h)
  \/ \E n \in 1 .. MaxReceipts, s \in Suppliers, approve \in BOOLEAN : Respond(h, n, s, approve)
  \/ ReadResponse(h) \/ WriteResponse(h)
  \/ \E n \in 1 .. MaxReceipts, s \in Suppliers : Acknowledge(h, n, s)
  \/ ReadAck(h) \/ WriteAck(h)

TypeOfReceipts ==
  /\ receipts \in Seq([status : {"draft", "submitted", "cancelled"}, supplier : Suppliers,
       marker : Nat, qty : Nat, rejected : Int, rev : Nat,
       remarks : [unannounced : {"none", "pending", "approved", "rejected"},
                  decision : {None} \cup [accepted : Nat, returned : Nat], ack : BOOLEAN]])
  /\ Len(receipts) <= MaxReceipts
==============================================================================
