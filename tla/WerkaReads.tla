----------------------------- MODULE WerkaReads -----------------------------
(***************************************************************************)
(* What the screens show of the stock documents: the warehouse's home      *)
(* page, lists, totals, history and archive (erpdb over the database of    *)
(* ERPNext), the supplier's and the customer's. Several of them exist      *)
(* twice, as Rust over rows and as SQL that does the same in the database, *)
(* or as a read of the database and a read through ERPNext's interface.    *)
(***************************************************************************)
EXTENDS PurchaseReceipts, DeliveryNotes, Functions

CONSTANT HistoryLimit   \* rows the history reads of each kind, and shows

ASSUME ReadsAssumption == HistoryLimit \in Nat

Kinds == {"pending", "confirmed", "returned"}

(* purchase_receipt_status_from_quantities *)
FromQuantities(sent, accepted) ==
  IF accepted <= 0 THEN "rejected"
  ELSE IF sent > 0 /\ accepted < sent THEN "partial" ELSE "accepted"

(* classify_werka_receipt *)
ReceiptStatus(doc) ==
  CASE doc.status = "cancelled" -> "cancelled"
    [] doc.status = "submitted" -> FromQuantities(Sent(doc), doc.qty)
    [] OTHER -> "draft"
Included(doc) ==
  /\ ~(doc.status = "draft" /\ doc.remarks.unannounced = "pending")
  /\ ~(ReceiptStatus(doc) = "accepted" /\ doc.remarks.unannounced = "approved")

(* purchase_receipt_to_record *)
ReceiptRecord(n) ==
  LET doc == receipts[n]
      status == ReceiptStatus(doc)
  IN  [id |-> Receipt(n), status |-> status, sent |-> Sent(doc),
       accepted |-> IF status \in {"accepted", "partial"} THEN doc.qty ELSE 0]
ReceiptRecords == {ReceiptRecord(n) : n \in DOMAIN receipts}

-----------------------------------------------------------------------------
(* Delivery notes as the rows of the database: a return note is one more,  *)
(* with a negative quantity and none of the custom fields.                 *)
NoteRows ==
  {[id |-> Note(n), status |-> notes[n].status, flow |-> notes[n].flow,
    state |-> notes[n].state, qty |-> notes[n].qty, returned |-> Returned(n)] :
     n \in {m \in DOMAIN notes : notes[m].status # "deleted"}}
  \cup
  {[id |-> <<"return", r>>, status |-> returns[r].status, flow |-> 0,
    state |-> 0, qty |-> -returns[r].qty, returned |-> 0] : r \in DOMAIN returns}

(* delivery_visible, delivery_status_from_state *)
Visible(row) == row.status = "submitted" /\ row.flow = 1
NoteStatus(row) ==
  IF row.status # "submitted" THEN "draft"
  ELSE IF row.flow # 1 THEN "pending"
  ELSE CASE row.state = REJECTED -> "rejected"
         [] row.state = CONFIRMED -> "accepted"
         [] row.state = PARTIAL -> "partial"
         [] OTHER -> "pending"

Positive(x) == IF x > 0 THEN x ELSE 0
(* delivery_note_decision_quantities *)
PartialAccepted(row) ==
  Positive(row.qty - (IF row.returned <= 0 THEN Positive(row.qty) ELSE row.returned))
NoteRecord(row) ==
  LET status == NoteStatus(row)
  IN  [id |-> row.id, status |-> status, sent |-> row.qty,
       accepted |-> CASE status = "accepted" -> row.qty
                      [] status = "partial" -> PartialAccepted(row)
                      [] OTHER -> 0]
NoteRecords == {NoteRecord(row) : row \in NoteRows}

-----------------------------------------------------------------------------
(* Home page and pending list *)

InKind(record, kind) ==
  CASE kind = "pending" -> record.status \in {"pending", "draft"}
    [] kind = "confirmed" -> record.status = "accepted"
    [] OTHER -> record.status \in {"partial", "rejected", "cancelled"}

(* build_werka_summary: what the Rust counts, of both kinds of documents.  *)
Shown(kind) ==
  {n \in DOMAIN receipts : Included(receipts[n]) /\ InKind(ReceiptRecord(n), kind)}
ShownNotes(kind) == {row \in NoteRows : Visible(row) /\ InKind(NoteRecord(row), kind)}
RowSummary(kind) == Cardinality(Shown(kind)) + Cardinality(ShownNotes(kind))

(* WERKA_SUMMARY_PUSHDOWN_SQL: an approved receipt is left out whatever    *)
(* quantity was accepted.                                                  *)
CountedReceipt_Pending(doc) ==
  ~(doc.status = "submitted" /\ doc.remarks.unannounced = "approved")

CountedReceipt(doc) ==
  /\ ~(doc.status = "draft" /\ doc.remarks.unannounced = "pending")
  /\ ~(doc.status = "submitted" /\ doc.remarks.unannounced = "approved")

SqlStatus(row) ==
  CASE row.state = 2 -> "rejected" [] row.state = 3 -> "accepted"
    [] row.state = 4 -> "partial" [] OTHER -> "pending"
SqlSummary(kind) ==
  Cardinality({n \in DOMAIN receipts :
                 CountedReceipt(receipts[n]) /\ InKind(ReceiptRecord(n), kind)})
  + Cardinality({row \in NoteRows : row.status = "submitted" /\ row.flow = 1
                   /\ InKind([status |-> SqlStatus(row)], kind)})

(* build_werka_pending and WERKA_PENDING_PUSHDOWN_SQL *)
PendingList ==
  {ReceiptRecord(n) : n \in Shown("pending")}
  \cup {NoteRecord(row) : row \in ShownNotes("pending")}
SqlPending ==
  {[id |-> Receipt(n), status |-> "draft", sent |-> Sent(receipts[n]), accepted |-> 0] :
     n \in {m \in DOMAIN receipts : /\ receipts[m].status = "draft"
                                    /\ receipts[m].remarks.unannounced # "pending"}}
  \cup
  {[id |-> row.id, status |-> "pending", sent |-> row.qty, accepted |-> 0] :
     row \in {r \in NoteRows : r.status = "submitted" /\ r.flow = 1 /\ r.state \notin {2, 3, 4}}}

-----------------------------------------------------------------------------
(* Totals of a kind and the list behind them *)

(* WERKA_STATUS_BREAKDOWN_PUSHDOWN_SQL: every receipt and every note.      *)
SqlAccepted(doc) == IF doc.status = "submitted" /\ doc.qty > 0 THEN doc.qty ELSE 0
SqlNoteAccepted(row) ==
  CASE row.state = 3 -> row.qty
    [] row.state = 4 -> Positive(row.qty - (IF row.returned <= 0 THEN row.qty ELSE row.returned))
    [] OTHER -> 0
BreakdownRows(kind) ==
  {r \in {[ReceiptRecord(n) EXCEPT !.accepted = SqlAccepted(receipts[n])] :
            n \in DOMAIN receipts} : InKind(r, kind)}
  \cup
  {r \in {[NoteRecord(row) EXCEPT !.accepted = SqlNoteAccepted(row)] : row \in NoteRows} :
     InKind(r, kind)}

(* build_werka_status_details, read for "pending" only.                    *)
DetailRows(kind) == {r \in ReceiptRecords \cup NoteRecords : InKind(r, kind)}

(* WERKA_STATUS_DETAILS_CONFIRMED_SQL *)
SqlConfirmed ==
  {[id |-> Receipt(n), status |-> "accepted", sent |-> Sent(receipts[n]),
    accepted |-> receipts[n].qty] :
     n \in {m \in DOMAIN receipts : /\ receipts[m].status = "submitted" /\ receipts[m].qty > 0
                                    /\ receipts[m].qty >= Sent(receipts[m])}}
  \cup
  {[id |-> row.id, status |-> "accepted", sent |-> row.qty, accepted |-> row.qty] :
     row \in {r \in NoteRows : r.status = "submitted" /\ r.flow = 1 /\ r.state = 3}}

(* WERKA_STATUS_DETAILS_RETURNED_SQL *)
SqlReturnedReceipt(doc) ==
  \/ doc.status = "cancelled"
  \/ doc.status = "submitted" /\ (doc.qty <= 0 \/ doc.qty < Sent(doc))

SqlReturned ==
  {[id |-> Receipt(n),
    status |-> IF receipts[n].status = "cancelled" THEN "cancelled"
               ELSE IF receipts[n].qty <= 0 THEN "rejected" ELSE "partial",
    sent |-> Sent(receipts[n]),
    accepted |-> IF /\ receipts[n].status = "submitted" /\ receipts[n].qty > 0
                    /\ receipts[n].qty < Sent(receipts[n]) THEN receipts[n].qty ELSE 0] :
     n \in {m \in DOMAIN receipts : SqlReturnedReceipt(receipts[m])}}
  \cup
  {[id |-> row.id, status |-> IF row.state = 4 THEN "partial" ELSE "rejected",
    sent |-> row.qty, accepted |-> IF row.state = 4 THEN PartialAccepted(row) ELSE 0] :
     row \in {r \in NoteRows : r.status = "submitted" /\ r.flow = 1 /\ r.state \in {2, 4}}}

Details(kind) ==
  CASE kind = "pending" -> DetailRows("pending")
    [] kind = "confirmed" -> SqlConfirmed
    [] OTHER -> SqlReturned

SumOver(f) == FoldFunction(+, 0, f)
Returns(rows) == SumOver([r \in rows |-> Positive(r.sent - r.accepted)])

-----------------------------------------------------------------------------
(* History and archive *)

(* A list that ends at HistoryLimit, of which some places may be taken.    *)
(* Which rows are left out is a matter of names and of labels.             *)
Cut(rows, taken) ==
  IF Cardinality(rows) + taken <= HistoryLimit THEN {rows}
  ELSE {some \in SUBSET rows : /\ Cardinality(some) <= HistoryLimit
                               /\ Cardinality(some) + taken >= HistoryLimit}

DecidedNotes(rows) == {r \in rows : r.status \in {"accepted", "partial", "rejected"}}

(* build_werka_history: what it may show of receipts and decided notes     *)
(* beside the acknowledgments that were read. Each of the three reads is   *)
(* limited, and so is the list they become.                                *)
HistoryRows(acks) ==
  UNION {Cut(some \cup DecidedNotes(others), acks) :
           some \in Cut(ReceiptRecords, 0), others \in Cut(NoteRecords, 0)}

(* archive_includes_record of the documents that are shown at all.         *)
Archive(kind) ==
  (IF kind \in {"received", "returned"}
   THEN {r \in {ReceiptRecord(n) : n \in {m \in DOMAIN receipts : Included(receipts[m])}} :
           r.status \in IF kind = "received" THEN {"accepted", "partial"}
                        ELSE {"partial", "rejected", "cancelled"}}
   ELSE {})
  \cup
  (IF kind \in {"sent", "returned"}
   THEN {r \in {NoteRecord(row) : row \in {q \in NoteRows : Visible(q)}} :
           kind = "sent" \/ r.status \in {"partial", "rejected", "cancelled"}}
   ELSE {})

(* archive_metric_qty *)
ArchiveMetric(kind, r) ==
  CASE kind = "received" -> IF r.accepted > 0 THEN r.accepted ELSE r.sent
    [] kind = "returned" -> Positive(r.sent - r.accepted)
    [] OTHER -> r.sent
ArchiveQty(kind) == SumOver([r \in Archive(kind) |-> ArchiveMetric(kind, r)])

-----------------------------------------------------------------------------
(* The supplier's own deliveries *)

(* As the database is read (erpdb/supplier_read.rs) ...                    *)
SupplierKind(record, kind) ==
  InKind(record, IF kind = "submitted" THEN "confirmed" ELSE kind)
Own(s) == {n \in DOMAIN receipts : receipts[n].supplier = s}
SupplierCount(s, kind) == Cardinality({n \in Own(s) : SupplierKind(ReceiptRecord(n), kind)})
SupplierDetails(s, kind) ==
  {ReceiptRecord(n) : n \in {m \in Own(s) : /\ Included(receipts[m])
                                            /\ SupplierKind(ReceiptRecord(m), kind)}}

(* ... and as the documents are read through ERPNext (unannounced.rs): a   *)
(* delivery that was rejected or sent back whole counts as cancelled.      *)
SentBack(doc) ==
  LET note == doc.remarks.decision
  IN  note # None /\ note.accepted <= 0 /\ note.returned >= Sent(doc) /\ note.returned > 0
DispatchStatus_AnyDocument(doc) ==
  IF doc.status = "cancelled" \/ SentBack(doc) THEN "cancelled"
  ELSE IF doc.status = "submitted" THEN FromQuantities(Sent(doc), doc.qty)
  ELSE "draft"

DispatchStatus(doc) ==
  CASE \/ doc.status = "cancelled"
       \/ doc.status = "draft" /\ (doc.remarks.unannounced = "rejected" \/ SentBack(doc))
         -> "cancelled"
    [] doc.status = "submitted" -> FromQuantities(Sent(doc), doc.qty)
    [] OTHER -> "draft"

DispatchRecord(n) ==
  [id |-> Receipt(n), status |-> DispatchStatus(receipts[n]), sent |-> Sent(receipts[n]),
   accepted |-> IF receipts[n].status = "submitted" THEN receipts[n].qty ELSE 0]
DispatchCount(s, kind) == Cardinality({n \in Own(s) : SupplierKind(DispatchRecord(n), kind)})

-----------------------------------------------------------------------------
(* The customer's deliveries (core/customer) *)

CustomerVisible(doc) == doc.status = "submitted" /\ doc.flow = 1

(* customer_decision_quantities: the remarks first, then what ERPNext has. *)
CustomerAccepted(n) ==
  LET doc == notes[n]
      said == IF doc.decision = None THEN [accepted |-> 0, returned |-> 0] ELSE doc.decision
      back == IF said.returned <= 0 THEN Returned(n) ELSE said.returned
  IN  CASE StatusOf(doc) = "accepted" -> IF said.accepted <= 0 THEN doc.qty ELSE said.accepted
        [] StatusOf(doc) = "partial" ->
             IF said.accepted <= 0 /\ back > 0 THEN Positive(doc.qty - back) ELSE said.accepted
        [] StatusOf(doc) = "rejected" -> 0
        [] OTHER -> said.accepted
CustomerRecord(n) ==
  [id |-> Note(n), status |-> StatusOf(notes[n]), sent |-> notes[n].qty,
   accepted |-> CustomerAccepted(n)]

OwnNotes(c) ==
  {n \in DOMAIN notes : notes[n].status # "deleted" /\ notes[n].customer = c
                         /\ CustomerVisible(notes[n])}
CustomerHistory(c) == {CustomerRecord(n) : n \in OwnNotes(c)}
CustomerDetails(c, kind) ==
  {r \in CustomerHistory(c) :
     IF kind = "rejected" THEN r.status \in {"rejected", "partial"}
     ELSE r.status = IF kind = "confirmed" THEN "accepted" ELSE kind}
CustomerCount(c, kind) ==
  LET Is(status) == CASE kind = "confirmed" -> status = "accepted"
                      [] kind = "rejected" -> status \in {"partial", "rejected"}
                      [] OTHER -> status \notin {"accepted", "partial", "rejected"}
  IN  Cardinality({n \in OwnNotes(c) : Is(StatusOf(notes[n]))})

-----------------------------------------------------------------------------
(* The detail behind a notification of a note (core/werka/notification.rs).*)
NotifiedAccepted(n) ==
  LET doc == notes[n]
  IN  CASE StatusOf(doc) = "accepted" -> doc.qty
        [] StatusOf(doc) = "partial" -> IF Returned(n) > 0 THEN Positive(doc.qty - Returned(n))
                                        ELSE doc.qty
        [] OTHER -> 0
NotifiedRecord(n) ==
  [id |-> Note(n), status |-> StatusOf(notes[n]), sent |-> notes[n].qty,
   accepted |-> NotifiedAccepted(n)]
=============================================================================
