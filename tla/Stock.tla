-------------------------------- MODULE Stock --------------------------------
(***************************************************************************)
(* The stock documents of ERPNext as the warehouse, the suppliers and the  *)
(* customers work on them at the same time, and what they are shown.       *)
(***************************************************************************)
EXTENDS WerkaReads

vars == <<requestVars, receipts, noteVars>>

Init ==
  /\ RequestsInit
  /\ receipts = <<>>
  /\ notes = <<>> /\ returns = <<>>

Next ==
  \/ \E h \in Handlers :
       \/ ReceiptStep(h) /\ UNCHANGED noteVars
       \/ NoteStep(h) /\ UNCHANGED receipts
       \/ Dropped(h) /\ UNCHANGED <<receipts, noteVars>>
  \/ \E n \in 1 .. MaxReceipts : DeskReceipt(n) /\ UNCHANGED noteVars
  \/ \E n \in 1 .. MaxNotes : DeskNote(n) /\ UNCHANGED receipts

Spec == Init /\ [][Next]_vars

-----------------------------------------------------------------------------
(* Properties *)

(* The state is what the code can make it: documents with the fields they  *)
(* have, and every open request at a step of its own kind.                 *)
TypeOK ==
  /\ TypeOfReceipts /\ TypeOfNotes
  /\ {requests, faults, desk} \subseteq Nat
  /\ \A h \in Handlers :
       Working(h) => /\ jobs[h].op \in {"dispatch", "unannounced", "confirm", "respond", "ack",
                                        "issue", "answer"}
                     /\ jobs[h].attempt \in Nat /\ {jobs[h].lost, jobs[h].alone} \subseteq BOOLEAN

(* No more is booked in than the supplier sent, whichever confirmations,   *)
(* approvals and undone confirmations of a delivery overlap.               *)
NeverMoreThanSent ==
  \A n \in DOMAIN receipts :
    receipts[n].status = "submitted" => receipts[n].qty <= receipts[n].marker

(* A confirmation nothing interferes with books its whole decision or      *)
(* nothing: answered ok, the document is booked with the decision; failed  *)
(* for another reason than a lost answer, it is no more booked than when   *)
(* it was read, and reads as it did or, when ERPNext refused the undo, as  *)
(* the draft the decision was written to.                                  *)
ConfirmIsWhole ==
  [][\A h \in Handlers :
       (Working(h) /\ jobs[h].op = "confirm" /\ jobs[h].alone /\ ~Working(h)'
        /\ jobs[h].copy # None) =>
         LET copy == jobs[h].copy
             now  == receipts'[jobs[h].doc[2]]
             done == Decided(copy, jobs[h].arg)
         IN  CASE jobs'[h].result = "ok" ->
                    IF FullReturn(copy, jobs[h].arg)
                    THEN now.status = copy.status /\ now.remarks = done.remarks
                    ELSE now.status = "submitted" /\ Same(now, done)
               [] jobs'[h].result = "error" -> now.status = copy.status /\ Same(now, copy)
               [] jobs'[h].result = "kept" -> now.status = copy.status /\ Same(now, done)
               [] OTHER -> TRUE]_vars

(* A scanned source is issued once: two notes that are not cancelled carry *)
(* the same source only if the second was checked before the first was     *)
(* made, or against more notes than a search reads.                        *)
SourceIssuedOnce ==
  \A m \in DOMAIN notes, n \in DOMAIN notes :
    (m < n /\ notes[m].key # None /\ notes[m].key = notes[n].key
     /\ {notes[m].status, notes[n].status} \subseteq {"draft", "submitted"})
      => notes[n].checked < m

(* A note that is booked is one the customer can see and answer.           *)
BookedIsVisible ==
  \A n \in DOMAIN notes : notes[n].status = "submitted" => CustomerVisible(notes[n])

(* An issue that fails for another reason than a lost answer or a deletion *)
(* that ERPNext refuses leaves no draft behind and nothing booked.         *)
FailedIssueLeavesNothing ==
  [][\A h \in Handlers :
       (Working(h) /\ jobs[h].op = "issue" /\ jobs'[h] = Idle("error")
        /\ jobs[h].doc # Note(None))
         => notes'[jobs[h].doc[2]].status \in {"deleted", "cancelled"}]_vars

(* What a customer is said to have sent back has come back in ERPNext too: *)
(* a rejected note is returned whole, a partly accepted one at least in    *)
(* part, and never more comes back than was sent.                          *)
StateBackedByReturn ==
  \A n \in DOMAIN notes :
    /\ Returned(n) <= notes[n].qty
    /\ notes[n].state = REJECTED => Returned(n) = notes[n].qty
    /\ notes[n].state = PARTIAL => Returned(n) > 0

(* An answer that nothing interfered with, on a note without other         *)
(* returns, shows the same on the customer's screen, on the warehouse's    *)
(* and behind the notification, each of which works it out for itself.     *)
AnswerIsSeenByAll ==
  [][\A h \in Handlers, n \in DOMAIN notes :
       (On(h, Note(n)) /\ jobs[h].op = "answer" /\ jobs[h].alone /\ jobs'[h] = Idle("ok"))
         => (Cardinality(ReturnsOf(n)) <= 1 =>
               {CustomerRecord(n), NotifiedRecord(n)} \subseteq NoteRecords)']_vars

(* The home page counts what the pending list shows, and the SQL of both   *)
(* agrees with the Rust it replaces. The list behind a total has the       *)
(* documents that were counted, with the same quantities, and every        *)
(* document is in the list of exactly one kind.                            *)
ListsAddUp ==
  /\ SqlPending = PendingList
  /\ SqlSummary("pending") = Cardinality(SqlPending)
  /\ \A kind \in {"pending", "confirmed"} : RowSummary(kind) = SqlSummary(kind)
  /\ \A kind \in Kinds :
       {r.id : r \in Details(kind)} = {r.id : r \in BreakdownRows(kind)}
  /\ \A kind \in {"confirmed", "returned"} : Details(kind) = BreakdownRows(kind)
  /\ \A r \in ReceiptRecords \cup NoteRecords :
       \E kind \in Kinds : /\ \E d \in Details(kind) : d.id = r.id
                           /\ \A other \in Kinds \ {kind} : \A d \in Details(other) : d.id # r.id

(* The parties see one another's documents: a booked delivery reads the    *)
(* same from the database and through ERPNext, a supplier loses none of    *)
(* its deliveries between the two, the customers together have the notes   *)
(* the warehouse counts, and what the archive lists as received or sent    *)
(* back adds up to what was sent and is in the history, unless there is    *)
(* more of it than the history reads or shows.                             *)
ViewsAgree ==
  /\ \A n \in DOMAIN receipts :
       receipts[n].status # "draft" => DispatchRecord(n).status = ReceiptRecord(n).status
  /\ \A s \in Suppliers :
       /\ SupplierCount(s, "submitted") = DispatchCount(s, "submitted")
       /\ SupplierCount(s, "pending") + SupplierCount(s, "returned")
            = DispatchCount(s, "pending") + DispatchCount(s, "returned")
       /\ SupplierDetails(s, "returned") \subseteq DetailRows("returned")
  /\ \A c \in Customers :
       CustomerCount(c, "confirmed") = Cardinality(CustomerDetails(c, "confirmed"))
  /\ SumOver([c \in Customers |-> CustomerCount(c, "pending")])
       = Cardinality(ShownNotes("pending"))
  /\ SumOver([c \in Customers |-> CustomerCount(c, "rejected")])
       = Cardinality(ShownNotes("returned"))
  /\ \A acks \in 0 .. HistoryLimit :
       (/\ Cardinality(ReceiptRecords) <= HistoryLimit /\ Cardinality(NoteRecords) <= HistoryLimit
        /\ Cardinality(ReceiptRecords \cup DecidedNotes(NoteRecords)) + acks <= HistoryLimit)
         => \A shown \in HistoryRows(acks) :
              Archive("received") \cup Archive("returned") \subseteq shown
  /\ ArchiveQty("received") + Returns(Archive("received"))
       = SumOver([r \in Archive("received") |-> r.sent])
==============================================================================
