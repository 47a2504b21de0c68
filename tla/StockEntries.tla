---------------------------- MODULE StockEntries ----------------------------
(***************************************************************************)
(* ERPNext's stock entries as the server's client and its direct reads see *)
(* them (erpnext/stock_entry.rs, erpdb/stock_entry.rs). An entry is a      *)
(* draft, submitted or deleted; a document that changed since it was read  *)
(* is not submitted; of a request that fails the server cannot tell        *)
(* whether ERPNext carried it out.                                         *)
(***************************************************************************)
EXTENDS Integers, Sequences, SequencesExt, FiniteSets, FiniteSetsExt

CONSTANTS Items, Warehouses,
          Blank,          \* an empty string
          NoBarcode,      \* a line without a barcode
          MaxEntries      \* bound: stock entries that are ever created

ASSUME EntriesAssumption ==
  /\ Blank \notin Items \union Warehouses
  /\ MaxEntries \in Nat

VARIABLES entries,  \* the documents, in order of creation
          stamp     \* the database clock, for "modified"

(* One row of the document; a row takes from or puts into its warehouse. *)
Line(item, warehouse, qty, barcode, in) ==
  [item |-> item, warehouse |-> warehouse, qty |-> qty, barcode |-> barcode, in |-> in]

Entry(kind, lines) ==
  [kind |-> kind, lines |-> lines, status |-> "draft", modified |-> stamp + 1]

(* validate_create_input. *)
ValidReceipt(item, warehouse, qty) == item # Blank /\ warehouse # Blank /\ qty > 0

ReceiptLines(item, warehouse, qty, barcode) == <<Line(item, warehouse, qty, barcode, TRUE)>>

(* validate_rezka_repack_input. *)
ValidRepack(source, outputs) ==
  /\ source.item # Blank /\ source.warehouse # Blank /\ source.qty > 0
  /\ Len(outputs) >= 2
  /\ \A i \in DOMAIN outputs :
       /\ outputs[i].item # Blank /\ outputs[i].warehouse # Blank /\ outputs[i].qty > 0
       /\ outputs[i].qr => outputs[i].epc # NoBarcode

RepackSourceLine(source) ==
  Line(source.item, source.warehouse, source.qty, source.barcode, FALSE)

RepackOutputLine(output) ==
  Line(output.item, output.warehouse, output.qty, IF output.qr THEN output.epc ELSE NoBarcode, TRUE)

RepackLines(source, outputs) ==
  <<RepackSourceLine(source)>> \o [i \in DOMAIN outputs |-> RepackOutputLine(outputs[i])]

(* What happens to a request: ERPNext does it and the answer arrives, it   *)
(* does it and the answer is lost, or it does not do it.                   *)
Outcomes == {"ok", "lost", "refused"}

Created(kind, lines, outcome) ==
  /\ Len(entries) < MaxEntries
  /\ entries' = IF outcome = "refused" THEN entries ELSE Append(entries, Entry(kind, lines))
  /\ stamp' = IF outcome = "refused" THEN stamp ELSE stamp + 1

Submitted(e, outcome) ==
  /\ entries' = IF outcome = "refused" THEN entries
                ELSE [entries EXCEPT ![e].status = "submitted", ![e].modified = stamp + 1]
  /\ stamp' = IF outcome = "refused" THEN stamp ELSE stamp + 1

(* ERPNext deletes drafts only. *)
Deleted(e, outcome) ==
  /\ entries[e].status # "draft" => outcome = "refused"
  /\ entries' = IF outcome = "refused" THEN entries ELSE [entries EXCEPT ![e].status = "deleted"]
  /\ UNCHANGED stamp

(* Somebody saves the draft on the desk. *)
DeskEdit(e) ==
  /\ entries[e].status = "draft"
  /\ entries' = [entries EXCEPT ![e].modified = stamp + 1]
  /\ stamp' = stamp + 1

-----------------------------------------------------------------------------
(* The rows that carry a barcode, newest document first, lines in order. *)
RowsWith(barcode) ==
  {row \in {<<e, i>> : e \in DOMAIN entries, i \in 1 .. 4} :
     /\ entries[row[1]].status # "deleted"
     /\ row[2] \in DOMAIN entries[row[1]].lines
     /\ entries[row[1]].lines[row[2]].barcode = barcode}

Before(r, s) ==
  \/ entries[r[1]].modified > entries[s[1]].modified
  \/ r[1] = s[1] /\ r[2] < s[2]

(* source_by_barcode: the first of them whose document is submitted. *)
SourceRows(barcode) ==
  LET submitted == {r \in RowsWith(barcode) : entries[r[1]].status = "submitted"}
  IN  {r \in submitted : \A s \in submitted \ {r} : Before(r, s)}

SourceOf(row) ==
  LET line == entries[row[1]].lines[row[2]]
  IN  [entry |-> row[1], barcode |-> line.barcode, item |-> line.item,
       qty |-> line.qty, warehouse |-> line.warehouse]

(* source_entry_from_stock_entry: what can be split at all. *)
ValidSource(source) ==
  source.barcode # NoBarcode /\ source.item # Blank /\ source.warehouse # Blank /\ source.qty > 0

=============================================================================
