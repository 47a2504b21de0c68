------------------------------ MODULE Printing ------------------------------
(***************************************************************************)
(* Printing labels and recording them in ERPNext: material receipts        *)
(* (core/gscale), splits of a roll (core/rezka) and the batch an operator  *)
(* prints in (core/rps_batch). A receipt's draft is made by a spawned      *)
(* recorder while the printer prints; the recorder then learns how the     *)
(* print ended. A split makes its draft first and prints one label after   *)
(* the other. An ERPNext request, an answer of the printer and a store     *)
(* call are the atomic steps.                                              *)
(***************************************************************************)
EXTENDS StockEntries, Epc

CONSTANTS
  Owners,          \* batch owners (BatchOwner::from_principal)
  NoOwner, NoBatch,
  MinQty,          \* MIN_BATCH_QTY_KG
  ReceiptRequests, \* [item, warehouse, gross, tare] of gscale clients
  BatchRequests,   \* [item, warehouse, tare] that start a batch
  Grosses,         \* what a batch print may weigh
  SplitRequests,   \* sequences of [item, warehouse, qty, scrap, qr]
  RollBarcode,     \* the barcode of a roll that is already in stock
  RollQty,         \* and its weight
  Salt(_, _),      \* of a generator ("gscale", "rezka") since a restart
  MaxJobs, MaxClock,   \* bounds: jobs, readings of the clock,
  MaxEvents, MaxFaults  \* batch commands, edits on the desk and other readings, faults

ASSUME PrintingAssumption ==
  /\ NoOwner \notin Owners
  /\ {MinQty, RollQty} \subseteq Nat \ {0}
  /\ {MaxJobs, MaxClock, MaxEvents, MaxFaults} \subseteq Nat

(* Requests are decoded before they are checked: a name may be blank and a *)
(* weight may be any number.                                               *)
ItemName == Items \union {Blank}
WarehouseName == Warehouses \union {Blank}
ReceiptRequest == [item : ItemName, warehouse : WarehouseName, gross : Int, tare : Int]
BatchRequest == [item : ItemName, warehouse : WarehouseName, tare : Int]
SplitOutput ==
  [item : ItemName, warehouse : WarehouseName, qty : Int, scrap : BOOLEAN, qr : BOOLEAN]

ASSUME RequestsAssumption ==
  /\ ReceiptRequests \subseteq ReceiptRequest
  /\ BatchRequests \subseteq BatchRequest
  /\ Grosses \subseteq Int
  /\ SplitRequests \subseteq Seq(SplitOutput)

(* A salt has the width of a tail. *)
ASSUME SaltAssumption ==
  \A k \in {"receipt", "split"}, boot \in 0 .. MaxFaults :
    Salt(k, boot) \subseteq 0 .. WordBits - 1

VARIABLES
  jobs,      \* accepted requests: [kind, owner, lines, source]
  print,     \* "open" while the printer works, then how the print ended
  printed,   \* lines of the job whose label the printer has confirmed
  erp,       \* where the job's work in ERPNext is
  attempt,   \* of submit_stock_entry_draft
  draft,     \* the entry made for the job, 0 when its name is not known
  seen,      \* "modified" of the document as it was fetched for submitting
  labels,    \* the numbers that are out on paper
  clock, generators, \* clock: the reading taken last
  fresh,     \* history: lines numbered since their generator was last overtaken
  batches,   \* the store of core/rps_batch
  stopping,  \* the copy a stop has read
  late,      \* the handler of a late error of the job
  lateCopy,  \* the batch that handler has read
  halted,    \* history: owners whose batch was stopped and not started since
  events, faults

printVars == <<jobs, print, printed, erp, attempt, draft, seen, labels>>
epcVars   == <<clock, generators, fresh>>
batchVars == <<batches, stopping, late, lateCopy, halted>>
erpVars   == <<entries, stamp>>
vars == <<printVars, epcVars, batchVars, erpVars, events, faults>>

Jobs == DOMAIN jobs
IsReceipt(j) == jobs[j].kind = "receipt"

-----------------------------------------------------------------------------
(* Requests *)

(* NormalizedMaterialReceiptJob::from_request: the net weight, or 0. *)
TareOf(request) == IF request.tare > 0 THEN request.tare ELSE 0
NetOf(request) ==
  IF request.gross > TareOf(request) THEN request.gross - TareOf(request) ELSE 0

ValidMaterial(request) ==
  /\ request.item # Blank /\ request.warehouse # Blank
  /\ request.gross >= MinQty
  /\ NetOf(request) >= MinQty

(* material_receipt_request: a print in a batch takes all but the weight   *)
(* from the batch.                                                         *)
InBatch(batch, gross) ==
  [item |-> batch.item, warehouse |-> batch.warehouse, gross |-> gross, tare |-> batch.tare]

(* normalize_start *)
ValidStart(request) == request.item # Blank /\ request.warehouse # Blank
NewBatch(request) ==
  [active |-> TRUE, item |-> request.item, warehouse |-> request.warehouse,
   tare |-> TareOf(request), error |-> FALSE]
InactiveBatch ==
  [active |-> FALSE, item |-> Blank, warehouse |-> Blank, tare |-> 0, error |-> FALSE]

(* NormalizedRezkaSplit::from_request: scrap gets no label, an output      *)
(* without a label may leave the item to the source.                       *)
HasLabel(output) == output.qr /\ ~output.scrap
ItemOf(output, source) ==
  IF ~HasLabel(output) /\ output.item = Blank THEN source.item ELSE output.item
SumOf(amounts) ==
  LET Upto[i \in 0 .. Len(amounts)] == IF i = 0 THEN 0 ELSE Upto[i - 1] + amounts[i]
  IN  Upto[Len(amounts)]
TotalQty(lines) == SumOf([i \in DOMAIN lines |-> lines[i].qty])
ValidSplit_LabelledOnly(outputs, source) ==
  /\ ValidSource(source)
  /\ Len(outputs) >= 2
  /\ \A i \in DOMAIN outputs : outputs[i].warehouse # Blank /\ outputs[i].qty > 0
  /\ TotalQty(SelectSeq(outputs, HasLabel)) = source.qty

ValidSplit(outputs, source) ==
  /\ ValidSource(source)
  /\ Len(outputs) >= 2
  /\ \A i \in DOMAIN outputs :
       /\ ItemOf(outputs[i], source) # Blank
       /\ outputs[i].warehouse # Blank /\ outputs[i].qty > 0
  /\ TotalQty(outputs) = source.qty

(* The lines as they are accepted: numbers are drawn later.                *)
SplitLines(outputs, source) ==
  [i \in DOMAIN outputs |->
    [item |-> ItemOf(outputs[i], source), warehouse |-> outputs[i].warehouse,
     qty |-> outputs[i].qty, qr |-> HasLabel(outputs[i]), epc |-> NoBarcode]]

(* The lines that get a label, and the one that is at the printer or next. *)
Printable(j) == {i \in DOMAIN jobs[j].lines : jobs[j].lines[i].qr}
AtHead(j) ==
  LET left == Printable(j) \ printed[j] IN {i \in left : \A k \in left : i <= k}
HeadNumber(j) == {jobs[j].lines[i].epc : i \in AtHead(j)}

(* The lines of a job that wait for a number, and the one that is next.    *)
Unnumbered(job) == {i \in DOMAIN job.lines : job.lines[i].qr /\ job.lines[i].epc = NoBarcode}
NextUnnumbered(job) == {i \in Unnumbered(job) : \A k \in Unnumbered(job) : i <= k}

-----------------------------------------------------------------------------
(* Numbers are drawn one by one, and requests may draw in turns. The clock *)
(* is read before the generator is locked, and the system's clock may be   *)
(* set back: a reading may be any, older than the generator's last as well. *)
(* Bound: a reading that is not the one before is an event.                 *)
Command == events < MaxEvents /\ events' = events + 1

Reads(now) == clock' = now /\ IF now = clock THEN UNCHANGED events ELSE Command

NumberedBy(job, i, now) == [job EXCEPT !.lines[i].epc = NextEpc(generators[job.kind], now)]
AfterNumber(job, i) == IF Unnumbered(job) = {i} THEN "create" ELSE "number"

(* The generator moves on; line i of job j has the number.                 *)
Draws(kind, now, j, i) ==
  /\ Reads(now)
  /\ generators' = [generators EXCEPT ![kind] = Advance(@, now)]
  /\ fresh' = {line \in fresh : now < generators[kind].last => jobs[line[1]].kind # kind}
               \union {<<j, i>>}

(* next_epc for the labels after the first.                                *)
Draw(j) ==
  /\ erp[j] = "number"
  /\ \E i \in NextUnnumbered(jobs[j]), now \in 1 .. MaxClock :
       /\ Draws(jobs[j].kind, now, j, i)
       /\ jobs' = [jobs EXCEPT ![j] = NumberedBy(jobs[j], i, now)]
       /\ erp' = [erp EXCEPT ![j] = AfterNumber(jobs[j], i)]
  /\ UNCHANGED <<print, printed, attempt, draft, seen, labels, batchVars, erpVars, faults>>

-----------------------------------------------------------------------------
(* Bound: so many jobs; once none can come, no owner starts or stops.      *)
MoreJobs == Len(jobs) < MaxJobs

(* A request is accepted and the job begins, with the number of its first  *)
(* label if it has one.                                                    *)
Begin(job) ==
  /\ MoreJobs
  /\ \/ /\ Unnumbered(job) = {}
        /\ jobs' = Append(jobs, job)
        /\ erp' = Append(erp, "create")
        /\ UNCHANGED <<epcVars, events>>
     \/ \E i \in NextUnnumbered(job), now \in 1 .. MaxClock :
          /\ Draws(job.kind, now, Len(jobs) + 1, i)
          /\ jobs' = Append(jobs, NumberedBy(job, i, now))
          /\ erp' = Append(erp, AfterNumber(job, i))
  /\ print' = Append(print, "open")
  /\ printed' = Append(printed, {})
  /\ attempt' = Append(attempt, 0)
  /\ draft' = Append(draft, 0)
  /\ seen' = Append(seen, 0)
  /\ late' = Append(late, "none")
  /\ lateCopy' = Append(lateCopy, NoBatch)
  /\ UNCHANGED <<labels, batches, stopping, halted, entries, stamp, faults>>

BeginReceipt(request, owner) ==
  /\ ValidMaterial(request)
  /\ ValidReceipt(request.item, request.warehouse, NetOf(request))
  /\ Begin([kind |-> "receipt", owner |-> owner, source |-> NoBatch,
            lines |-> <<[item |-> request.item, warehouse |-> request.warehouse,
                         qty |-> NetOf(request), qr |-> TRUE, epc |-> NoBarcode]>>])

(* POST gscale/material-receipt/print *)
PrintReceipt == \E request \in ReceiptRequests : BeginReceipt(request, NoOwner)

(* POST rps-batch/print *)
MayPrintIn_Stopped(o) == batches[o] # NoBatch

MayPrintIn(o) == batches[o] # NoBatch /\ batches[o].active

PrintInBatch(o) ==
  /\ MayPrintIn(o)
  /\ \E gross \in Grosses : BeginReceipt(InBatch(batches[o], gross), o)

(* POST rezka/split: the source is read and checked. *)
Split ==
  \E barcode \in {RollBarcode} \union labels, outputs \in SplitRequests :
    \E row \in SourceRows(barcode) :
      LET source == SourceOf(row)
      IN  /\ ValidSplit(outputs, source)
          /\ Begin([kind |-> "split", owner |-> NoOwner, source |-> source,
                    lines |-> SplitLines(outputs, source)])

-----------------------------------------------------------------------------
(* The printer *)

(* Printed and confirmed. A split goes on to its next label, or to submit. *)
AtPrinter(j) ==
  /\ print[j] = "open"
  /\ IF IsReceipt(j) THEN erp[j] # "number" ELSE erp[j] = "print"

PrintDone(j) ==
  /\ AtPrinter(j)
  /\ \E i \in AtHead(j) :
       LET done == printed[j] \union {i}
           last == Printable(j) \subseteq done
       IN  /\ labels' = labels \union {jobs[j].lines[i].epc}
           /\ printed' = [printed EXCEPT ![j] = done]
           /\ print' = [print EXCEPT ![j] = IF last THEN "yes" ELSE @]
           /\ erp' = [erp EXCEPT ![j] = IF last /\ ~IsReceipt(j) THEN "fetch" ELSE @]
  /\ UNCHANGED <<jobs, attempt, draft, seen, epcVars, batchVars, erpVars, events, faults>>

(* An error, a timeout or a status that is not done; the label may be out. *)
(* The same goes for a client that hangs up on a receipt: its handler is   *)
(* dropped and with it the sender the recorder waits for.                  *)
PrintFails(j) ==
  /\ AtPrinter(j)
  /\ \E out \in SUBSET HeadNumber(j) : labels' = labels \union out
  /\ print' = [print EXCEPT ![j] = "no"]
  /\ erp' = [erp EXCEPT ![j] = IF IsReceipt(j) THEN @ ELSE "delete"]
  /\ UNCHANGED <<jobs, printed, attempt, draft, seen, epcVars, batchVars, erpVars, events, faults>>

(* A client hangs up on a split: nobody is left to submit or delete it. *)
HangUp(j) ==
  /\ ~IsReceipt(j)
  /\ erp[j] \in {"print", "fetch", "post", "delete"}
  /\ faults < MaxFaults
  /\ faults' = faults + 1
  /\ erp' = [erp EXCEPT ![j] = "dropped"]
  /\ UNCHANGED <<jobs, print, printed, attempt, draft, seen, labels,
                 epcVars, batchVars, erpVars, events>>

-----------------------------------------------------------------------------
(* The work in ERPNext: the recorder of a receipt, the handler of a split. *)

Faulty(outcome) ==
  /\ outcome # "ok" => faults < MaxFaults
  /\ faults' = IF outcome = "ok" THEN faults ELSE faults + 1

(* The recorder's error goes to the batch the print belongs to, if any. *)
Report(j) ==
  late' = IF IsReceipt(j) /\ jobs[j].owner # NoOwner
          THEN [late EXCEPT ![j] = "get"] ELSE late

EndsWith(j, step, outcome) ==
  /\ erp' = [erp EXCEPT ![j] = IF outcome = "ok" THEN step ELSE "failed"]
  /\ IF outcome = "ok" THEN UNCHANGED late ELSE Report(j)

LinesOf(j) ==
  IF IsReceipt(j)
  THEN ReceiptLines(jobs[j].lines[1].item, jobs[j].lines[1].warehouse,
                    jobs[j].lines[1].qty, jobs[j].lines[1].epc)
  ELSE RepackLines(jobs[j].source, jobs[j].lines)

AfterCreate_NoWait(j) ==
  IF IsReceipt(j) \/ Printable(j) = {} THEN "fetch" ELSE "print"

AfterCreate(j) ==
  IF IsReceipt(j) THEN "wait" ELSE IF Printable(j) = {} THEN "fetch" ELSE "print"

CreateDraft(j) ==
  /\ erp[j] = "create"
  /\ ~IsReceipt(j) => ValidRepack(jobs[j].source, jobs[j].lines)
  /\ \E outcome \in Outcomes :
       /\ Faulty(outcome)
       /\ Created(jobs[j].kind, LinesOf(j), outcome)
       /\ EndsWith(j, AfterCreate(j), outcome)
       /\ draft' = [draft EXCEPT ![j] = IF outcome = "ok" THEN Len(entries) + 1 ELSE 0]
  /\ UNCHANGED <<jobs, print, printed, attempt, seen, labels, epcVars,
                 batches, stopping, lateCopy, halted, events>>

LearnPrint_KeepsDraft(j) ==
  /\ erp[j] = "wait" /\ print[j] # "open"
  /\ erp' = [erp EXCEPT ![j] = IF print[j] = "yes" THEN "fetch" ELSE "done"]
  /\ UNCHANGED <<jobs, print, printed, attempt, draft, seen, labels,
                 epcVars, batchVars, erpVars, events, faults>>

(* record_parallel_material_receipt_inner: print_result_rx.await *)
LearnPrint(j) ==
  /\ erp[j] = "wait" /\ print[j] # "open"
  /\ erp' = [erp EXCEPT ![j] = IF print[j] = "yes" THEN "fetch" ELSE "delete"]
  /\ UNCHANGED <<jobs, print, printed, attempt, draft, seen, labels,
                 epcVars, batchVars, erpVars, events, faults>>

(* submit_stock_entry_draft: fetch, then post what was fetched; a document *)
(* that changed in between is fetched once more.                           *)
Fetch(j) ==
  /\ erp[j] = "fetch"
  /\ \E outcome \in Outcomes \ {"lost"} :
       /\ Faulty(outcome)
       /\ EndsWith(j, "post", outcome)
       /\ seen' = IF outcome = "ok" THEN [seen EXCEPT ![j] = entries[draft[j]].modified] ELSE seen
  /\ UNCHANGED <<jobs, print, printed, attempt, draft, labels, epcVars, erpVars,
                 batches, stopping, lateCopy, halted, events>>

Post(j) ==
  /\ erp[j] = "post" /\ seen[j] = entries[draft[j]].modified
  /\ \E outcome \in Outcomes :
       /\ Faulty(outcome)
       /\ Submitted(draft[j], outcome)
       /\ EndsWith(j, "done", outcome)
  /\ UNCHANGED <<jobs, print, printed, attempt, draft, seen, labels, epcVars,
                 batches, stopping, lateCopy, halted, events>>

PostMismatch_Retries(j) ==
  /\ erp[j] = "post" /\ seen[j] # entries[draft[j]].modified
  /\ attempt' = [attempt EXCEPT ![j] = @ + 1]
  /\ erp' = [erp EXCEPT ![j] = "fetch"]
  /\ UNCHANGED <<jobs, print, printed, draft, seen, labels, epcVars, erpVars,
                 batchVars, events, faults>>

PostMismatch(j) ==
  /\ erp[j] = "post" /\ seen[j] # entries[draft[j]].modified
  /\ attempt' = [attempt EXCEPT ![j] = 1]
  /\ IF attempt[j] = 0
     THEN erp' = [erp EXCEPT ![j] = "fetch"] /\ UNCHANGED late
     ELSE erp' = [erp EXCEPT ![j] = "failed"] /\ Report(j)
  /\ UNCHANGED <<jobs, print, printed, draft, seen, labels, epcVars, erpVars,
                 batches, stopping, lateCopy, halted, events, faults>>

(* A split ignores the answer. *)
DeleteDraft(j) ==
  /\ erp[j] = "delete"
  /\ \E outcome \in Outcomes :
       /\ Faulty(outcome)
       /\ Deleted(draft[j], outcome)
       /\ EndsWith(j, "done", outcome)
  /\ UNCHANGED <<jobs, print, printed, attempt, draft, seen, labels, epcVars,
                 batches, stopping, lateCopy, halted, events>>

-----------------------------------------------------------------------------
(* The batch *)

Start(o) ==
  /\ MoreJobs /\ Command
  /\ \E request \in BatchRequests :
       /\ ValidStart(request)
       /\ batches' = [batches EXCEPT ![o] = NewBatch(request)]
  /\ halted' = halted \ {o}
  /\ UNCHANGED <<printVars, epcVars, stopping, late, lateCopy, erpVars, faults>>

StopReads(o) ==
  /\ MoreJobs /\ Command
  /\ stopping[o] = NoBatch
  /\ stopping' = [stopping EXCEPT ![o] = IF batches[o] = NoBatch THEN InactiveBatch ELSE batches[o]]
  /\ UNCHANGED <<printVars, epcVars, batches, late, lateCopy, halted, erpVars, faults>>

(* A late error that was read before is not yet written: it may still undo *)
(* the stop, so the stop does not count.                                   *)
ErrorPending(o) == \E j \in Jobs : jobs[j].owner = o /\ late[j] = "put"

StopWrites(o) ==
  /\ stopping[o] # NoBatch
  /\ batches' = [batches EXCEPT ![o] = [stopping[o] EXCEPT !.active = FALSE]]
  /\ stopping' = [stopping EXCEPT ![o] = NoBatch]
  /\ halted' = IF ErrorPending(o) THEN halted ELSE halted \union {o}
  /\ UNCHANGED <<printVars, epcVars, late, lateCopy, erpVars, events, faults>>

(* record_late_error *)
LateReads(j) ==
  /\ late[j] = "get"
  /\ late' = [late EXCEPT ![j] = IF batches[jobs[j].owner] = NoBatch THEN "over" ELSE "put"]
  /\ lateCopy' = [lateCopy EXCEPT ![j] = batches[jobs[j].owner]]
  /\ UNCHANGED <<printVars, epcVars, batches, stopping, halted, erpVars, events, faults>>

LateWrites(j) ==
  /\ late[j] = "put"
  /\ late' = [late EXCEPT ![j] = "over"]
  /\ batches' = [batches EXCEPT ![jobs[j].owner] = [lateCopy[j] EXCEPT !.error = TRUE]]
  /\ lateCopy' = [lateCopy EXCEPT ![j] = NoBatch]
  /\ UNCHANGED <<printVars, epcVars, stopping, halted, erpVars, events, faults>>

-----------------------------------------------------------------------------
(* The world *)

(* Bound: only a document somebody is about to post is edited; an edit      *)
(* before it is fetched is one nobody sees.                                *)
Desk ==
  /\ Command
  /\ \E j \in Jobs : erp[j] = "post" /\ DeskEdit(draft[j])
  /\ UNCHANGED <<printVars, epcVars, batchVars, faults>>

(* The server restarts: tasks and copies are gone, generators are new, and *)
(* labels that were asked for may still come out.                          *)
Restart ==
  /\ faults < MaxFaults
  /\ faults' = faults + 1
  /\ erp' = [j \in Jobs |-> IF erp[j] \in {"done", "failed"} THEN erp[j] ELSE "dropped"]
  /\ print' = [j \in Jobs |-> IF AtPrinter(j) \/ erp[j] = "number" THEN "no" ELSE print[j]]
  /\ late' = [j \in Jobs |-> IF late[j] = "none" THEN "none" ELSE "over"]
  /\ lateCopy' = [j \in Jobs |-> NoBatch]
  /\ stopping' = [o \in Owners |-> NoBatch]
  /\ generators' = [k \in DOMAIN generators |-> NewGenerator(Salt(k, faults + 1))]
  /\ \E late_labels \in SUBSET {j \in Jobs : AtPrinter(j)} :
       labels' = labels \union UNION {HeadNumber(j) : j \in late_labels}
  /\ UNCHANGED <<jobs, printed, attempt, draft, seen, clock, fresh, batches, halted,
                 erpVars, events>>

Roll(item, warehouse, qty) ==
  [kind |-> "receipt", lines |-> ReceiptLines(item, warehouse, qty, RollBarcode),
   status |-> "submitted", modified |-> 0]

Init ==
  /\ \E item \in Items, warehouse \in Warehouses : entries = <<Roll(item, warehouse, RollQty)>>
  /\ stamp = 0
  /\ jobs = <<>> /\ print = <<>> /\ printed = <<>> /\ erp = <<>> /\ attempt = <<>>
  /\ draft = <<>> /\ seen = <<>> /\ labels = {} /\ late = <<>> /\ lateCopy = <<>>
  /\ generators = [k \in {"receipt", "split"} |-> NewGenerator(Salt(k, 0))]
  /\ batches = [o \in Owners |-> NoBatch]
  /\ stopping = [o \in Owners |-> NoBatch]
  /\ clock = 1 /\ fresh = {} /\ halted = {} /\ events = 0 /\ faults = 0

ErpStep(j) ==
  \/ Draw(j) \/ CreateDraft(j) \/ LearnPrint(j) \/ Fetch(j) \/ Post(j) \/ PostMismatch(j) \/ DeleteDraft(j)
PrinterStep(j) == PrintDone(j) \/ PrintFails(j)
LateStep(j) == LateReads(j) \/ LateWrites(j)
BatchStep(o) == PrintInBatch(o) \/ Start(o) \/ StopReads(o) \/ StopWrites(o)

Next ==
  \/ PrintReceipt \/ Split \/ Desk \/ Restart
  \/ \E j \in Jobs : ErpStep(j) \/ PrinterStep(j) \/ LateStep(j) \/ HangUp(j)
  \/ \E o \in Owners : BatchStep(o)

Spec == Init /\ [][Next]_vars

(* A spawned task and an open request are polled until they end, and the   *)
(* printer's client gives up after its timeout.                            *)
FairSpec ==
  /\ Spec
  /\ \A j \in 1 .. MaxJobs :
       WF_vars(j \in Jobs /\ ErpStep(j)) /\ WF_vars(j \in Jobs /\ PrinterStep(j))

-----------------------------------------------------------------------------
(* Properties *)

Outputs == [item : Items, warehouse : Warehouses, qty : Nat, qr : BOOLEAN,
            epc : [clock : SUBSET (0 .. ClockBits - 1), tail : SUBSET (0 .. WordBits - 1)]
                    \union {NoBarcode}]

Batch == [active : BOOLEAN, item : ItemName, warehouse : WarehouseName,
          tare : Nat, error : BOOLEAN]

(* The types of the variables. *)
TypeOK ==
  /\ \A j \in Jobs :
       /\ jobs[j].owner \in Owners \union {NoOwner}
       /\ \A i \in DOMAIN jobs[j].lines : jobs[j].lines[i] \in Outputs
       /\ print[j] \in {"open", "yes", "no"}
       /\ erp[j] \in {"number", "create", "wait", "print", "fetch", "post", "delete",
                     "done", "failed", "dropped"}
       /\ printed[j] \subseteq Printable(j)
       /\ attempt[j] \in 0 .. 1
       /\ draft[j] \in 0 .. Len(entries)
       /\ late[j] \in {"none", "get", "put", "over"}
       /\ lateCopy[j] \in Batch \union {NoBatch}
  /\ batches \in [Owners -> Batch \union {NoBatch}]
  /\ stopping \in [Owners -> Batch \union {NoBatch}]
  /\ halted \subseteq Owners

(* Stock is only ever booked for labels that are out: an entry the server  *)
(* submits belongs to a print that ended well, and every number it carries *)
(* is on paper. The recorder and the printer run in parallel, a split      *)
(* prints several labels, and either may fail or be cut off anywhere.      *)
BookedStockIsLabelled ==
  \A j \in Jobs :
    draft[j] # 0 /\ entries[draft[j]].status = "submitted" =>
      /\ print[j] # "no"
      /\ \A i \in DOMAIN jobs[j].lines :
           jobs[j].lines[i].qr => jobs[j].lines[i].epc \in labels

(* No number is given to two rolls, by whichever path, in whichever        *)
(* nanosecond, however the draws of several requests mix and over          *)
(* restarts: what a scan finds is one roll. A generator repeats itself only *)
(* when it is overtaken in between, by a reading older than its last one:   *)
(* the clock was set back, or a request with a later reading got the lock   *)
(* between the reading and the draw.                                       *)
NumbersAreUnique ==
  \A i, j \in Jobs : \A k \in DOMAIN jobs[i].lines, l \in DOMAIN jobs[j].lines :
    /\ jobs[i].lines[k].epc # NoBarcode
    /\ jobs[i].lines[k].epc = jobs[j].lines[l].epc
    /\ jobs[i].kind # jobs[j].kind \/ {<<i, k>>, <<j, l>>} \subseteq fresh
    => i = j /\ k = l

(* A split neither makes nor loses material: what a repack puts into stock *)
(* is what it takes out, scrap and lines without a label included, also    *)
(* when the roll it splits came out of an earlier split.                   *)
Put(lines)   == [i \in DOMAIN lines |-> IF lines[i].in THEN lines[i].qty ELSE 0]
Taken(lines) == [i \in DOMAIN lines |-> IF lines[i].in THEN 0 ELSE lines[i].qty]
Conserves(lines) == SumOf(Put(lines)) = SumOf(Taken(lines))

SplitsConserve ==
  \A e \in DOMAIN entries : entries[e].kind = "split" => Conserves(entries[e].lines)

(* After a stop, nothing is printed in the batch until it is started again *)
(* (unless a late error was being written while it was stopped).           *)
QuietAfterStop ==
  [][Len(jobs') > Len(jobs) => jobs'[Len(jobs')].owner \notin halted]_vars

(* In the end stock and paper agree: a job that ERPNext did not fail and   *)
(* nothing cut off is booked if its labels were printed, and leaves no     *)
(* draft behind if they were not. Nothing is lost between the printer and  *)
(* the recorder, whichever ends first.                                     *)
JobsAreSettled ==
  <>[](\A j \in Jobs :
         \/ erp[j] \in {"failed", "dropped"}
         \/ /\ draft[j] # 0
            /\ print[j] # "open" \/ Printable(j) = {}
            /\ entries[draft[j]].status = (IF print[j] = "no" THEN "deleted" ELSE "submitted"))

=============================================================================
