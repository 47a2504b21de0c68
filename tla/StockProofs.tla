----------------------------- MODULE StockProofs -----------------------------
(***************************************************************************)
(* The stock documents of ERPNext under requests that overlap at every     *)
(* step, for any number of requests, receipts and notes.                   *)
(***************************************************************************)
EXTENDS Stock, LeastNumbers, FiniteSetTheorems, TLAPS

-----------------------------------------------------------------------------
(***************************************************************************)
(* The types of the documents, and what a request is known to hold at each *)
(* of its steps. Documents are written over in ERPNext while a request     *)
(* holds a copy, so what it knows is what no write changes: the document   *)
(* is there, with the quantity it was made with.                           *)
(***************************************************************************)
RemarksType ==
  [unannounced : {"none", "pending", "approved", "rejected"},
   decision : {None} \cup [accepted : Nat, returned : Nat], ack : BOOLEAN]
ReceiptType ==
  [status : {"draft", "submitted", "cancelled"}, supplier : Suppliers,
   marker : Nat, qty : Nat, rejected : Int, rev : Nat, remarks : RemarksType]
NoteType ==
  [status : {"draft", "submitted", "cancelled", "deleted"},
   customer : Customers, qty : Nat, key : Sources, flow : {0, 1}, state : 0 .. 4,
   rev : Nat, checked : Nat, decision : {None} \cup [accepted : Nat, returned : Nat]]
ReturnType == [of : Nat, qty : Nat, status : {"draft", "submitted"}]
IssueLines == UNION {{lines[i] : i \in DOMAIN lines} : lines \in IssueRequests}
Lines == Seq(IssueLines) \ {<<>>}

\* What a receipt never holds more of than it was sent with.
Fits(doc) == doc.qty <= doc.marker

\* A note carries the source and the customer of a line that was asked for.
Issued(doc) == \E line \in IssueLines : doc.key = line.key /\ doc.customer = line.customer

\* A note is shown to its customer before it is booked.
Revealed(doc) == doc.status = "submitted" => doc.flow = 1

ReceiptsTyped ==
  /\ receipts \in Seq(ReceiptType) /\ Len(receipts) <= MaxReceipts
  /\ \A n \in DOMAIN receipts : Fits(receipts[n])
NotesTyped ==
  /\ notes \in Seq(NoteType) /\ Len(notes) <= MaxNotes
  /\ \A n \in DOMAIN notes : Issued(notes[n]) /\ Revealed(notes[n])
ReturnsTyped ==
  returns \in Seq(ReturnType) /\ \A r \in DOMAIN returns : returns[r].of \in DOMAIN notes

ReceiptOps == {"dispatch", "unannounced", "confirm", "respond", "ack"}
Deciding == {"note", "write", "latest", "submit", "undo"}
ReceiptPcs == {"create", "mark", "fetch", "read", "respond", "ack_read", "ack_write"} \cup Deciding
Issuing == {"check", "create", "open", "latest", "submit", "delete"}
Answering == {"get", "map", "insert", "book", "remarks", "state"}

IsJob(j) ==
  j = [op |-> j.op, pc |-> j.pc, doc |-> j.doc, arg |-> j.arg, copy |-> j.copy,
       attempt |-> j.attempt, lost |-> j.lost, alone |-> j.alone]

ReceiptJob(j) ==
  LET n == j.doc[2]
  IN  /\ j.pc \in ReceiptPcs /\ j.op \in ReceiptOps
      /\ j.op = "confirm" => j.pc \in {"fetch"} \cup Deciding
      /\ j.pc = "create" =>
           /\ j.doc = Receipt(None) /\ j.op \in {"dispatch", "unannounced"}
           /\ j.arg.supplier \in Suppliers /\ j.arg.qty \in Int
      /\ j.pc # "create" => n \in DOMAIN receipts
      /\ j.pc \in {"fetch"} \cup Deciding => j.arg.accepted \in Int /\ j.arg.returned \in Int
      /\ j.pc \in {"respond", "ack_write"} \cup Deciding =>
           /\ j.copy \in ReceiptType /\ Fits(j.copy)
           /\ j.copy.marker = receipts[n].marker
      /\ j.pc \in Deciding => ValidDecision(j.copy, j.arg)

NoteJob(j) ==
  LET n == j.doc[2]
  IN  /\ j.pc \in Issuing \cup Answering
      /\ j.pc \in Issuing => j.op = "issue" /\ j.arg.lines \in Lines
      /\ j.pc \in Answering => j.op = "answer"
      /\ j.pc \in {"check", "create"} => j.doc = Note(None)
      /\ j.pc = "create" => j.copy \in 0 .. Len(notes)
      /\ j.pc \notin {"check", "create"} => n \in DOMAIN notes
      /\ j.pc \in {"latest", "submit"} => notes[n].flow = 1
      /\ j.pc \in Answering \ {"get"} =>
           /\ j.arg.state \in {REJECTED, CONFIRMED, PARTIAL}
           /\ j.arg.accepted \in Nat /\ j.arg.returned \in Nat
      /\ j.pc = "map" => j.arg.returned > 0
      /\ j.pc \in {"insert", "book"} => j.arg.back \in Nat \ {0}
      /\ j.pc = "book" => j.attempt \in DOMAIN returns

OpenJob(j) ==
  /\ IsJob(j) /\ j.attempt \in Nat
  /\ j.lost \in BOOLEAN /\ j.alone \in BOOLEAN
  /\ j.doc = <<j.doc[1], j.doc[2]>>
  /\ \/ j.doc[1] = "receipt" /\ ReceiptJob(j)
     \/ j.doc[1] = "note" /\ NoteJob(j)

Typed ==
  /\ ReceiptsTyped /\ NotesTyped /\ ReturnsTyped
  /\ requests \in Nat /\ faults \in Nat /\ desk \in Nat
  /\ jobs = [h \in Handlers |-> jobs[h]]
  /\ \A h \in Handlers : Working(h) => OpenJob(jobs[h])
-----------------------------------------------------------------------------
(***************************************************************************)
(* What a step leaves of the documents and of the requests of others.      *)
(***************************************************************************)
Later(doc, new) ==
  /\ new.customer = doc.customer /\ new.qty = doc.qty /\ new.key = doc.key
  /\ new.checked = doc.checked
  /\ doc.flow = 1 => new.flow = 1
  /\ new.status \in LiveStatus => doc.status \in LiveStatus
  /\ new.status = "submitted" => doc.status = "submitted" \/ doc.flow = 1

ReceiptsKept ==
  /\ DOMAIN receipts \subseteq DOMAIN receipts'
  /\ \A n \in DOMAIN receipts : receipts'[n].marker = receipts[n].marker
NotesKept ==
  /\ DOMAIN notes \subseteq DOMAIN notes' /\ Len(notes) <= Len(notes')
  /\ \A n \in DOMAIN notes : Later(notes[n], notes'[n])
ReturnsKept == DOMAIN returns \subseteq DOMAIN returns'
Kept == ReceiptsKept /\ NotesKept /\ ReturnsKept

\* Another request is where it was, but perhaps not alone any more.
SameJob(g) ==
  \/ jobs'[g] = jobs[g]
  \/ Working(g) /\ jobs'[g] = [jobs[g] EXCEPT !.alone = FALSE]

OthersKept(h) ==
  jobs' = [g \in Handlers |-> jobs'[g]] /\ \A g \in Handlers \ {h} : SameJob(g)

LEMMA Continues ==
  ASSUME Typed, NEW h \in Handlers, NEW job, Continue(h, job)
  PROVE  OthersKept(h) /\ jobs'[h] = job /\ requests' \in Nat /\ desk' \in Nat
<1>1. jobs' = [jobs EXCEPT ![h] = job] /\ UNCHANGED <<requests, desk>>
  BY DEF Continue
<1>2. jobs = [g \in Handlers |-> jobs[g]] /\ requests \in Nat /\ desk \in Nat
  BY DEF Typed
<1>3. /\ jobs' = [g \in Handlers |-> jobs'[g]] /\ jobs'[h] = job
      /\ \A g \in Handlers \ {h} : jobs'[g] = jobs[g]
  BY <1>1, <1>2, Zenon
<1> QED
  BY <1>1, <1>2, <1>3 DEF OthersKept, SameJob

LEMMA Disturbed ==
  ASSUME Typed, NEW doc, NEW js, js = Disturb(jobs, doc)
  PROVE  /\ js = [g \in Handlers |-> js[g]]
         /\ \A g \in Handlers :
              js[g] = jobs[g] \/ (Working(g) /\ js[g] = [jobs[g] EXCEPT !.alone = FALSE])
  BY DEF Disturb, Working

NewJob(h, op, pc, doc, arg) ==
  [op |-> op, pc |-> pc, doc |-> doc, arg |-> arg, copy |-> None, attempt |-> 0,
   lost |-> FALSE, alone |-> \A g \in Handlers : ~On(g, doc)]

LEMMA Begins ==
  ASSUME Typed, NEW h \in Handlers, NEW op, NEW pc, NEW doc, NEW arg,
         Begin(h, op, pc, doc, arg)
  PROVE  /\ OthersKept(h) /\ jobs'[h] = NewJob(h, op, pc, doc, arg)
         /\ requests' \in Nat /\ faults' \in Nat /\ desk' \in Nat
<1> DEFINE job == NewJob(h, op, pc, doc, arg)
<1>1. PICK js : js = Disturb(jobs, doc)
  OBVIOUS
<1>2. /\ jobs' = [js EXCEPT ![h] = job]
      /\ requests' = requests + 1 /\ UNCHANGED <<faults, desk>>
  BY <1>1 DEF Begin, NewJob
<1>3. /\ js = [g \in Handlers |-> js[g]]
      /\ \A g \in Handlers :
           js[g] = jobs[g] \/ (Working(g) /\ js[g] = [jobs[g] EXCEPT !.alone = FALSE])
  BY <1>1, Disturbed
<1> HIDE DEF job
<1>4. /\ jobs' = [g \in Handlers |-> jobs'[g]] /\ jobs'[h] = job
      /\ \A g \in Handlers \ {h} : jobs'[g] = js[g]
  BY <1>2, <1>3, Zenon
<1>5. OthersKept(h)
  BY <1>3, <1>4 DEF OthersKept, SameJob
<1> QED
  BY <1>2, <1>4, <1>5 DEF Typed, job

\* An answer takes a fault from those that are left, or nothing.
LEMMA FaultsTyped ==
  ASSUME Typed, NEW outcome, NEW b
  PROVE  /\ Faulty(outcome) => faults' \in Nat
         /\ Answered(outcome, b) => faults' \in Nat
  BY DEF Typed, Faulty, Answered

\* What was known of a document is known of what a write makes of it.
LEMMA OpenJobKept ==
  ASSUME Typed, Kept, NEW j, OpenJob(j)
  PROVE  OpenJob(j)'
<1>1. ASSUME ReceiptJob(j) PROVE ReceiptJob(j)'
  BY <1>1 DEF ReceiptJob, Kept, ReceiptsKept, Deciding
<1>2. ASSUME NoteJob(j) PROVE NoteJob(j)'
  <2>1. 0 .. Len(notes) \subseteq 0 .. Len(notes')
    BY DEF Typed, NotesTyped, Kept, NotesKept
  <2> QED
    BY <1>2, <2>1 DEF NoteJob, Kept, NotesKept, ReturnsKept, Later
<1> QED
  BY <1>1, <1>2 DEF OpenJob

LEMMA SameJobOpen ==
  ASSUME NEW j, OpenJob(j), NEW k, k = [j EXCEPT !.alone = FALSE]
  PROVE  OpenJob(k)
<1>1. IsJob(j)
  BY DEF OpenJob
<1>2. k = [op |-> j.op, pc |-> j.pc, doc |-> j.doc, arg |-> j.arg, copy |-> j.copy,
           attempt |-> j.attempt, lost |-> j.lost, alone |-> FALSE]
  BY <1>1 DEF IsJob
<1>3. /\ k.op = j.op /\ k.pc = j.pc /\ k.doc = j.doc /\ k.arg = j.arg /\ k.copy = j.copy
      /\ k.attempt = j.attempt /\ k.lost = j.lost /\ k.alone = FALSE
  BY <1>2
<1>4. IsJob(k)
  BY <1>2, <1>3 DEF IsJob
<1>5. (ReceiptJob(j) => ReceiptJob(k)) /\ (NoteJob(j) => NoteJob(k))
  BY <1>3 DEF ReceiptJob, NoteJob
<1> QED
  BY <1>3, <1>4, <1>5 DEF OpenJob

\* A step of h that leaves the documents as they have to be.
LEMMA StepOf ==
  ASSUME Typed, Kept, NEW h \in Handlers, OthersKept(h),
         Working(h)' => OpenJob(jobs[h])'
  PROVE  /\ jobs' = [g \in Handlers |-> jobs'[g]]
         /\ \A g \in Handlers : (Working(g) => OpenJob(jobs[g]))'
<1>1. ASSUME NEW g \in Handlers \ {h}, Working(g)' PROVE OpenJob(jobs[g])'
  <2>1. CASE jobs'[g] = jobs[g]
    <3>1. Working(g)
      BY <1>1, <2>1 DEF Working
    <3>2. PICK j : j = jobs[g]
      OBVIOUS
    <3>3. OpenJob(j)'
      BY <3>1, <3>2, OpenJobKept DEF Typed
    <3> QED
      BY <2>1, <3>2, <3>3
  <2>2. CASE Working(g) /\ jobs'[g] = [jobs[g] EXCEPT !.alone = FALSE]
    <3>1. PICK j : j = jobs'[g]
      OBVIOUS
    <3>2. OpenJob(j)
      BY <2>2, <3>1, SameJobOpen DEF Typed
    <3>3. OpenJob(j)'
      BY <3>2, OpenJobKept
    <3> QED
      BY <3>1, <3>3
  <2> QED
    BY <2>1, <2>2 DEF OthersKept, SameJob
<1> QED
  BY <1>1 DEF OthersKept

-----------------------------------------------------------------------------
(***************************************************************************)
(* Writes of receipts.                                                     *)
(***************************************************************************)
LEMMA ReceiptIs ==
  ASSUME Typed, NEW n \in DOMAIN receipts
  PROVE  receipts[n] \in ReceiptType /\ Fits(receipts[n]) /\ n \in 1 .. Len(receipts)
  BY DEF Typed, ReceiptsTyped

LEMMA ReceiptsSame ==
  ASSUME Typed, UNCHANGED receipts
  PROVE  ReceiptsTyped' /\ ReceiptsKept
  BY DEF Typed, ReceiptsTyped, ReceiptsKept

LEMMA ReceiptWritten ==
  ASSUME Typed, NEW n \in DOMAIN receipts, NEW doc \in ReceiptType,
         Fits(doc), doc.marker = receipts[n].marker, StoredReceipt(n, doc)
  PROVE  ReceiptsTyped' /\ ReceiptsKept
<1>1. PICK new : new = [doc EXCEPT !.rev = receipts[n].rev + 1]
  OBVIOUS
<1>2. receipts' = [receipts EXCEPT ![n] = new]
  BY <1>1 DEF StoredReceipt
<1>3. receipts[n].rev \in Nat
  BY ReceiptIs DEF ReceiptType
<1>4. new \in ReceiptType /\ Fits(new) /\ new.marker = receipts[n].marker
  BY <1>1, <1>3 DEF ReceiptType, Fits
<1>5. receipts \in Seq(ReceiptType)
  BY DEF Typed, ReceiptsTyped
<1>6. receipts' \in Seq(ReceiptType) /\ Len(receipts') = Len(receipts)
      /\ DOMAIN receipts' = DOMAIN receipts
  BY <1>2, <1>4, <1>5
<1>7. \A m \in DOMAIN receipts : receipts'[m] = IF m = n THEN new ELSE receipts[m]
  BY <1>2, <1>5
<1> QED
  BY <1>4, <1>6, <1>7 DEF Typed, ReceiptsTyped, ReceiptsKept

LEMMA PutRemarksTyped ==
  ASSUME Typed, NEW n \in DOMAIN receipts, NEW remarks \in RemarksType,
         NEW h, NEW outcome, PutRemarks(h, n, remarks, outcome)
  PROVE  ReceiptsTyped' /\ ReceiptsKept /\ faults' \in Nat
<1>1. faults' \in Nat
  BY FaultsTyped DEF PutRemarks
<1>2. PICK doc : doc = [receipts[n] EXCEPT !.remarks = remarks]
  OBVIOUS
<1>3. doc \in ReceiptType /\ Fits(doc) /\ doc.marker = receipts[n].marker
  BY <1>2, ReceiptIs DEF ReceiptType, Fits
<1>4. UNCHANGED receipts \/ StoredReceipt(n, doc)
  BY <1>2 DEF PutRemarks
<1> QED
  BY <1>1, <1>3, <1>4, ReceiptsSame, ReceiptWritten

LEMMA PutWholeTyped ==
  ASSUME Typed, NEW n \in DOMAIN receipts, NEW doc \in ReceiptType,
         Fits(doc), doc.marker = receipts[n].marker,
         NEW version, NEW outcome, PutWhole(n, doc, version, outcome)
  PROVE  ReceiptsTyped' /\ ReceiptsKept /\ faults' \in Nat
<1>1. faults' \in Nat
  BY FaultsTyped DEF PutWhole
<1>2. PICK new : new = [doc EXCEPT !.status = receipts[n].status]
  OBVIOUS
<1>3. new \in ReceiptType /\ Fits(new) /\ new.marker = receipts[n].marker
  BY <1>2, ReceiptIs DEF ReceiptType, Fits
<1>4. UNCHANGED receipts \/ StoredReceipt(n, new)
  BY <1>2 DEF PutWhole
<1> QED
  BY <1>1, <1>3, <1>4, ReceiptsSame, ReceiptWritten

LEMMA StatusWritten ==
  ASSUME Typed, NEW n \in DOMAIN receipts, NEW status \in {"draft", "submitted", "cancelled"},
         StoredReceipt(n, [receipts[n] EXCEPT !.status = status])
  PROVE  ReceiptsTyped' /\ ReceiptsKept
<1>1. PICK doc : doc = [receipts[n] EXCEPT !.status = status]
  OBVIOUS
<1>2. doc \in ReceiptType /\ Fits(doc) /\ doc.marker = receipts[n].marker
  BY <1>1, ReceiptIs DEF ReceiptType, Fits
<1> QED
  BY <1>1, <1>2, ReceiptWritten

LEMMA SubmitReceiptTyped ==
  ASSUME Typed, NEW n \in DOMAIN receipts, NEW outcome, SubmitReceipt(n, outcome)
  PROVE  ReceiptsTyped' /\ ReceiptsKept /\ faults' \in Nat
<1>1. faults' \in Nat
  BY FaultsTyped DEF SubmitReceipt
<1>2. UNCHANGED receipts \/ StoredReceipt(n, [receipts[n] EXCEPT !.status = "submitted"])
  BY DEF SubmitReceipt
<1> QED
  BY <1>1, <1>2, ReceiptsSame, StatusWritten

LEMMA CreateTyped ==
  ASSUME Typed, NEW s \in Suppliers, NEW qty \in Int, qty > 0, NEW outcome, Create(s, qty, outcome)
  PROVE  /\ ReceiptsTyped' /\ ReceiptsKept /\ faults' \in Nat
         /\ outcome # "refused" => Len(receipts) + 1 \in DOMAIN receipts'
<1>1. faults' \in Nat
  BY FaultsTyped DEF Create
<1>2. CASE outcome = "refused"
  BY <1>1, <1>2, ReceiptsSame DEF Create
<1>3. CASE outcome # "refused"
  <2>1. PICK new : new = NewReceipt(s, qty)
    OBVIOUS
  <2>2. new \in ReceiptType /\ Fits(new)
    BY <2>1 DEF NewReceipt, NoRemarks, ReceiptType, RemarksType, Fits
  <2>3. receipts' = Append(receipts, new) /\ Len(receipts) < MaxReceipts
    BY <1>3, <2>1 DEF Create
  <2>4. receipts \in Seq(ReceiptType) /\ \A n \in DOMAIN receipts : Fits(receipts[n])
    BY DEF Typed, ReceiptsTyped
  <2>5. /\ receipts' \in Seq(ReceiptType) /\ Len(receipts') = Len(receipts) + 1
        /\ \A n \in 1 .. Len(receipts) : receipts'[n] = receipts[n]
        /\ receipts'[Len(receipts) + 1] = new
    BY <2>2, <2>3, <2>4
  <2>6. /\ DOMAIN receipts = 1 .. Len(receipts) /\ DOMAIN receipts' = 1 .. Len(receipts) + 1
        /\ Len(receipts) \in Nat
    BY <2>4, <2>5
  <2> QED
    BY <1>1, <2>2, <2>3, <2>4, <2>5, <2>6, ReceiptsAssumption DEF ReceiptsTyped, ReceiptsKept
<1> QED
  BY <1>2, <1>3

LEMMA NotesSame ==
  ASSUME Typed, UNCHANGED noteVars
  PROVE  NotesTyped' /\ ReturnsTyped' /\ NotesKept /\ ReturnsKept
<1>1. Len(notes) \in Nat
  BY DEF Typed, NotesTyped
<1> QED
  BY <1>1 DEF Typed, NotesTyped, ReturnsTyped, NotesKept, ReturnsKept, Later, noteVars

-----------------------------------------------------------------------------
(***************************************************************************)
(* The requests about receipts.                                            *)
(***************************************************************************)
Moved(h) == Typed' /\ Kept /\ OthersKept(h)

LEMMA ReceiptsMove ==
  ASSUME Typed, NEW h \in Handlers, UNCHANGED noteVars, ReceiptsTyped', ReceiptsKept,
         OthersKept(h), requests' \in Nat, faults' \in Nat, desk' \in Nat,
         Working(h)' => OpenJob(jobs[h])'
  PROVE  Moved(h)
<1>1. NotesTyped' /\ ReturnsTyped' /\ Kept
  BY NotesSame DEF Kept
<1> QED
  BY <1>1, StepOf DEF Typed, Moved

LEMMA RequestIs ==
  ASSUME Typed, NEW h \in Handlers, Working(h)
  PROVE  OpenJob(jobs[h]) /\ IsJob(jobs[h])
  BY DEF Typed, OpenJob

\* A step of a request is one about receipts, or one about notes.
LEMMA ReceiptRequestIs ==
  ASSUME Typed, NEW h \in Handlers, Working(h),
         jobs[h].pc \in ReceiptPcs \ Issuing \/ jobs[h].doc[1] = "receipt"
  PROVE  jobs[h].doc[1] = "receipt" /\ ReceiptJob(jobs[h])
<1>1. OpenJob(jobs[h])
  BY RequestIs
<1> QED
  BY <1>1 DEF OpenJob, NoteJob, ReceiptPcs, Deciding, Issuing, Answering

LEMMA EndsTyped ==
  ASSUME NEW h, NEW result, jobs'[h] = Idle(result)
  PROVE  ~Working(h)'
  BY DEF Idle, Working

LEMMA FreshJob ==
  ASSUME NEW h, NEW op, NEW pc, NEW doc, NEW arg
  PROVE  LET j == NewJob(h, op, pc, doc, arg)
         IN  /\ IsJob(j) /\ j.attempt \in Nat /\ j.lost \in BOOLEAN /\ j.alone \in BOOLEAN
             /\ j.op = op /\ j.pc = pc /\ j.doc = doc /\ j.arg = arg /\ j.copy = None
  BY DEF NewJob, IsJob

LEMMA DispatchTyped ==
  ASSUME Typed, NEW h \in Handlers, NEW s \in Suppliers, NEW qty \in Quantities,
         Dispatch(h, s, qty) \/ Unannounced(h, s, qty), UNCHANGED noteVars
  PROVE  Moved(h)
<1>1. PICK op \in {"dispatch", "unannounced"} :
        Begin(h, op, "create", Receipt(None), [supplier |-> s, qty |-> qty]) /\ UNCHANGED receipts
  BY DEF Dispatch, Unannounced
<1>2. PICK arg : arg = [supplier |-> s, qty |-> qty]
  OBVIOUS
<1>3. /\ OthersKept(h) /\ jobs'[h] = NewJob(h, op, "create", Receipt(None), arg)
      /\ requests' \in Nat /\ faults' \in Nat /\ desk' \in Nat
  BY <1>1, <1>2, Begins
<1>4. PICK j : j = NewJob(h, op, "create", Receipt(None), arg)
  OBVIOUS
<1>5. OpenJob(j)'
  <2>1. /\ IsJob(j) /\ j.attempt \in Nat /\ j.lost \in BOOLEAN /\ j.alone \in BOOLEAN
        /\ j.op = op /\ j.pc = "create" /\ j.doc = Receipt(None) /\ j.arg = arg
    BY <1>4, FreshJob
  <2>2. arg.supplier \in Suppliers /\ arg.qty \in Int
    BY <1>2, ReceiptsAssumption
  <2> QED
    BY <2>1, <2>2 DEF OpenJob, ReceiptJob, ReceiptPcs, ReceiptOps, Deciding, Receipt
<1> QED
  BY <1>1, <1>3, <1>4, <1>5, ReceiptsSame, ReceiptsMove

\* The other requests about a receipt that is there.
LEMMA ReceiptBegins ==
  ASSUME Typed, NEW h \in Handlers, NEW n \in DOMAIN receipts, NEW op \in ReceiptOps,
         NEW pc \in {"fetch", "read", "ack_read"}, NEW arg,
         op = "confirm" => pc = "fetch",
         pc = "fetch" => arg.accepted \in Int /\ arg.returned \in Int,
         Begin(h, op, pc, Receipt(n), arg), UNCHANGED receipts, UNCHANGED noteVars
  PROVE  Moved(h)
<1>1. /\ OthersKept(h) /\ jobs'[h] = NewJob(h, op, pc, Receipt(n), arg)
      /\ requests' \in Nat /\ faults' \in Nat /\ desk' \in Nat
  BY Begins
<1>2. PICK j : j = NewJob(h, op, pc, Receipt(n), arg)
  OBVIOUS
<1>3. /\ IsJob(j) /\ j.attempt \in Nat /\ j.lost \in BOOLEAN /\ j.alone \in BOOLEAN
      /\ j.op = op /\ j.pc = pc /\ j.doc = Receipt(n) /\ j.arg = arg
  BY <1>2, FreshJob
<1>4. OpenJob(j)'
  BY <1>3 DEF OpenJob, ReceiptJob, ReceiptPcs, Deciding, Receipt
<1> QED
  BY <1>1, <1>2, <1>4, ReceiptsSame, ReceiptsMove

LEMMA CreateRefusedTyped ==
  ASSUME Typed, NEW h \in Handlers, CreateRefused(h), UNCHANGED noteVars
  PROVE  Moved(h)
<1>1. Finish(h, "error") /\ UNCHANGED <<receipts, faults>>
  BY DEF CreateRefused
<1>2. OthersKept(h) /\ jobs'[h] = Idle("error") /\ requests' \in Nat /\ desk' \in Nat
  BY <1>1, Continues DEF Finish
<1> QED
  BY <1>1, <1>2, EndsTyped, ReceiptsSame, ReceiptsMove DEF Typed

LEMMA CreateDoneTyped ==
  ASSUME Typed, NEW h \in Handlers, CreateDone(h), UNCHANGED noteVars
  PROVE  Moved(h)
<1>1. PICK j : j = jobs[h]
  OBVIOUS
<1>2. Working(h) /\ j.pc = "create" /\ j.doc = Receipt(None) /\ ValidCreate(j)
  BY <1>1 DEF CreateDone, At
<1>3. ReceiptJob(j) /\ IsJob(j) /\ OpenJob(j)
  BY <1>1, <1>2, ReceiptRequestIs, RequestIs DEF Receipt
<1>4. j.arg.supplier \in Suppliers /\ j.arg.qty \in Int /\ j.arg.qty > 0
  BY <1>2, <1>3 DEF ReceiptJob, ValidCreate
<1>5. PICK outcome \in Outcomes :
        /\ Create(j.arg.supplier, j.arg.qty, outcome)
        /\ IF outcome # "ok"
           THEN Finish(h, IF outcome = "lost" THEN "lost" ELSE "error")
           ELSE IF j.op = "dispatch" THEN Finish(h, "ok")
           ELSE Continue(h, [j EXCEPT !.doc = Receipt(Len(receipts) + 1), !.pc = "mark"])
  BY <1>1 DEF CreateDone
<1>6. /\ ReceiptsTyped' /\ ReceiptsKept /\ faults' \in Nat
      /\ outcome # "refused" => Len(receipts) + 1 \in DOMAIN receipts'
  BY <1>4, <1>5, CreateTyped
<1>7. ASSUME NEW result, Finish(h, result) PROVE Moved(h)
  <2>1. OthersKept(h) /\ jobs'[h] = Idle(result) /\ requests' \in Nat /\ desk' \in Nat
    BY <1>7, Continues DEF Finish
  <2> QED
    BY <1>6, <2>1, EndsTyped, ReceiptsMove
<1>8. ASSUME outcome = "ok", j.op # "dispatch",
             Continue(h, [j EXCEPT !.doc = Receipt(Len(receipts) + 1), !.pc = "mark"])
      PROVE  Moved(h)
  <2>1. PICK m : m = Len(receipts) + 1
    OBVIOUS
  <2>2. PICK k : k = [j EXCEPT !.doc = Receipt(m), !.pc = "mark"]
    OBVIOUS
  <2>3. OthersKept(h) /\ jobs'[h] = k /\ requests' \in Nat /\ desk' \in Nat
    BY <1>8, <2>1, <2>2, Continues
  <2>4. /\ IsJob(k) /\ k.op = j.op /\ k.pc = "mark" /\ k.doc = <<"receipt", m>>
        /\ k.attempt = j.attempt /\ k.lost = j.lost /\ k.alone = j.alone
    BY <1>3, <2>2 DEF IsJob, Receipt
  <2>5. m \in DOMAIN receipts'
    BY <1>6, <1>8, <2>1
  <2>6. OpenJob(k)'
    BY <1>2, <1>3, <2>4, <2>5 DEF OpenJob, ReceiptJob, ReceiptPcs, ReceiptOps, Deciding
  <2> QED
    BY <1>6, <2>3, <2>6, ReceiptsMove
<1> QED
  BY <1>5, <1>7, <1>8

LEMMA ReceiptEnds ==
  ASSUME Typed, NEW h \in Handlers, UNCHANGED noteVars, ReceiptsTyped', ReceiptsKept,
         faults' \in Nat, NEW result, Finish(h, result)
  PROVE  Moved(h)
<1>1. OthersKept(h) /\ jobs'[h] = Idle(result) /\ requests' \in Nat /\ desk' \in Nat
  BY Continues DEF Finish
<1> QED
  BY <1>1, EndsTyped, ReceiptsMove

LEMMA ReceiptGoesOn ==
  ASSUME Typed, NEW h \in Handlers, UNCHANGED noteVars, ReceiptsTyped', ReceiptsKept,
         faults' \in Nat, NEW k, Continue(h, k), OpenJob(k)'
  PROVE  Moved(h)
<1>1. OthersKept(h) /\ jobs'[h] = k /\ requests' \in Nat /\ desk' \in Nat
  BY Continues
<1> QED
  BY <1>1, ReceiptsMove

LEMMA ReadFailsTyped ==
  ASSUME Typed, NEW h, NEW next, ReadFails(h, next)
  PROVE  faults' \in Nat /\ Continue(h, next)
  BY DEF Typed, ReadFails

LEMMA NotedTyped ==
  ASSUME NEW doc \in ReceiptType, NEW d, d.accepted \in Int, d.returned \in Int,
         ValidDecision(doc, d)
  PROVE  NoteOf(doc, d) \in {None} \cup [accepted : Nat, returned : Nat]
<1>1. doc.qty \in Nat /\ d.accepted \in Nat /\ d.accepted <= doc.qty
  BY DEF ReceiptType, ValidDecision
<1>2. Implied(doc, d.accepted) \in Nat
  BY <1>1 DEF Implied
<1>3. ASSUME Implied(doc, d.accepted) # 0
      PROVE  (IF d.returned = 0 THEN Implied(doc, d.accepted) ELSE d.returned) \in Nat
  BY <1>2, <1>3 DEF ValidDecision
<1> QED
  BY <1>1, <1>3 DEF NoteOf

LEMMA DecidedTyped ==
  ASSUME NEW doc \in ReceiptType, Fits(doc), NEW d, d.accepted \in Int, d.returned \in Int,
         ValidDecision(doc, d), NEW new, new = Decided(doc, d)
  PROVE  /\ new \in ReceiptType /\ Fits(new) /\ new.marker = doc.marker
         /\ new.remarks \in RemarksType
<1>1. PICK note : note = NoteOf(doc, d)
  OBVIOUS
<1>2. note \in {None} \cup [accepted : Nat, returned : Nat]
  BY <1>1, NotedTyped
<1>3. PICK remarks : remarks = WithDecision(doc.remarks, note)
  OBVIOUS
<1>4. doc.remarks \in RemarksType
  BY DEF ReceiptType
<1>5. remarks \in RemarksType
  BY <1>2, <1>3, <1>4 DEF WithDecision, RemarksType
<1>6. new = [doc EXCEPT !.qty = d.accepted, !.rejected = d.returned, !.remarks = remarks]
  BY <1>1, <1>3 DEF Decided
<1>7. doc.qty \in Nat /\ d.accepted \in Nat /\ d.accepted <= doc.qty
  BY DEF ReceiptType, ValidDecision
<1>8. new \in ReceiptType
  BY <1>5, <1>6, <1>7 DEF ReceiptType
<1>9. new.qty = d.accepted /\ new.marker = doc.marker /\ new.remarks = remarks
  BY <1>6 DEF ReceiptType
<1>10. doc.marker \in Nat
  BY DEF ReceiptType
<1> QED
  BY <1>5, <1>7, <1>8, <1>9, <1>10 DEF Fits

LEMMA DecidingIs ==
  ASSUME Typed, NEW h \in Handlers, Working(h), NEW j, j = jobs[h],
         j.pc \in Deciding, j.pc \notin {"latest", "submit"} \/ j.doc[1] = "receipt"
  PROVE  /\ OpenJob(j) /\ ReceiptJob(j) /\ IsJob(j) /\ j.doc[1] = "receipt"
         /\ j.doc[2] \in DOMAIN receipts
         /\ j.copy \in ReceiptType /\ Fits(j.copy) /\ j.copy.marker = receipts[j.doc[2]].marker
         /\ j.arg.accepted \in Int /\ j.arg.returned \in Int /\ ValidDecision(j.copy, j.arg)
<1>1. j.pc \in ReceiptPcs \ Issuing \/ j.doc[1] = "receipt"
  BY DEF ReceiptPcs, Deciding, Issuing
<1>2. ReceiptJob(j) /\ j.doc[1] = "receipt" /\ OpenJob(j) /\ IsJob(j)
  BY <1>1, ReceiptRequestIs, RequestIs
<1>3. j.pc # "create"
  BY DEF Deciding
<1> QED
  BY <1>2, <1>3 DEF ReceiptJob

LEMMA MarkTyped ==
  ASSUME Typed, NEW h \in Handlers, MarkUnannounced(h), UNCHANGED noteVars
  PROVE  Moved(h)
<1>1. Working(h) /\ jobs[h].pc = "mark"
  BY DEF MarkUnannounced, At
<1>2. jobs[h].doc[2] \in DOMAIN receipts
  BY <1>1, ReceiptRequestIs DEF ReceiptJob, ReceiptPcs, Issuing
<1>3. PICK outcome \in Outcomes :
        /\ PutRemarks(h, jobs[h].doc[2], WithUnannounced(NoRemarks, "pending"), outcome)
        /\ Finish(h, IF outcome = "ok" THEN "ok" ELSE "lost")
  BY DEF MarkUnannounced
<1>4. WithUnannounced(NoRemarks, "pending") \in RemarksType
  BY DEF WithUnannounced, NoRemarks, RemarksType
<1> QED
  BY <1>2, <1>3, <1>4, PutRemarksTyped, ReceiptEnds

LEMMA FetchTyped ==
  ASSUME Typed, NEW h \in Handlers, Fetch(h), UNCHANGED noteVars
  PROVE  Moved(h)
<1>1. PICK j : j = jobs[h]
  OBVIOUS
<1>2. Working(h) /\ j.pc = "fetch" /\ UNCHANGED receipts
  BY <1>1 DEF Fetch, At
<1>3. ReceiptJob(j) /\ IsJob(j) /\ OpenJob(j) /\ j.doc[1] = "receipt"
  BY <1>1, <1>2, ReceiptRequestIs, RequestIs DEF ReceiptPcs, Issuing
<1>4. PICK doc : doc = receipts[j.doc[2]]
  OBVIOUS
<1>5. /\ j.doc[2] \in DOMAIN receipts /\ j.arg.accepted \in Int /\ j.arg.returned \in Int
      /\ doc \in ReceiptType /\ Fits(doc)
  BY <1>2, <1>3, <1>4, ReceiptIs DEF ReceiptJob
<1>6. CASE ReadFails(h, Idle("error"))
  BY <1>2, <1>6, ReadFailsTyped, ReceiptsSame, ReceiptEnds DEF Finish
<1>7. CASE UNCHANGED faults /\ ~ValidDecision(doc, j.arg) /\ Finish(h, "error")
  BY <1>2, <1>7, ReceiptsSame, ReceiptEnds DEF Typed
<1>8. ASSUME UNCHANGED faults, ValidDecision(doc, j.arg), NEW pc \in {"note", "write"},
             Continue(h, [j EXCEPT !.copy = doc, !.pc = pc])
      PROVE  Moved(h)
  <2>1. PICK k : k = [j EXCEPT !.copy = doc, !.pc = pc]
    OBVIOUS
  <2>2. /\ IsJob(k) /\ k.op = j.op /\ k.pc = pc /\ k.doc = j.doc /\ k.arg = j.arg /\ k.copy = doc
        /\ k.attempt = j.attempt /\ k.lost = j.lost /\ k.alone = j.alone
    BY <1>3, <2>1 DEF IsJob
  <2>3. ReceiptJob(k)
    BY <1>3, <1>4, <1>5, <1>8, <2>2 DEF ReceiptJob, ReceiptPcs, Deciding
  <2>4. OpenJob(k)
    BY <1>3, <2>2, <2>3 DEF OpenJob
  <2>5. OpenJob(k)'
    BY <1>2, <2>4, NotesSame, ReceiptsSame, OpenJobKept DEF Kept
  <2> QED
    BY <1>2, <1>8, <2>1, <2>5, ReceiptsSame, ReceiptGoesOn DEF Typed
<1> QED
  <2>1. PICK pc \in {"note", "write"} : pc = (IF FullReturn(doc, j.arg) THEN "note" ELSE "write")
    OBVIOUS
  <2> QED
    BY <1>1, <1>4, <1>6, <1>7, <1>8, <2>1 DEF Fetch

LEMMA NoteFullReturnTyped ==
  ASSUME Typed, NEW h \in Handlers, NoteFullReturn(h), UNCHANGED noteVars
  PROVE  Moved(h)
<1>1. PICK j : j = jobs[h]
  OBVIOUS
<1>2. Working(h) /\ j.pc = "note"
  BY <1>1 DEF NoteFullReturn, At
<1>3. PICK new : new = Decided(j.copy, j.arg)
  OBVIOUS
<1>4. j.doc[2] \in DOMAIN receipts /\ new.remarks \in RemarksType
  BY <1>1, <1>2, <1>3, DecidingIs, DecidedTyped DEF Deciding
<1>5. PICK outcome \in Outcomes :
        /\ PutRemarks(h, j.doc[2], new.remarks, outcome)
        /\ Finish(h, IF outcome = "refused" THEN "error" ELSE outcome)
  BY <1>1, <1>3 DEF NoteFullReturn
<1> QED
  BY <1>4, <1>5, PutRemarksTyped, ReceiptEnds

\* From one step of a decision to another.
LEMMA DecisionGoesOn ==
  ASSUME Typed, NEW h \in Handlers, Working(h), NEW j, j = jobs[h],
         j.pc \in Deciding, j.pc \notin {"latest", "submit"} \/ j.doc[1] = "receipt",
         UNCHANGED noteVars, ReceiptsTyped', ReceiptsKept, faults' \in Nat,
         NEW k, Continue(h, k), IsJob(k), k.op = j.op, k.pc \in Deciding, k.doc = j.doc,
         k.arg.accepted = j.arg.accepted, k.arg.returned = j.arg.returned, k.copy = j.copy,
         k.attempt \in Nat, k.lost \in BOOLEAN, k.alone = j.alone
  PROVE  Moved(h)
<1>1. /\ OpenJob(j) /\ ReceiptJob(j) /\ j.doc[1] = "receipt" /\ j.doc[2] \in DOMAIN receipts
      /\ j.copy \in ReceiptType /\ Fits(j.copy) /\ j.copy.marker = receipts[j.doc[2]].marker
      /\ j.arg.accepted \in Int /\ j.arg.returned \in Int /\ ValidDecision(j.copy, j.arg)
  BY DecidingIs
<1>2. ValidDecision(k.copy, k.arg)
  BY <1>1 DEF ValidDecision
<1>3. ReceiptJob(k)
  BY <1>1, <1>2 DEF ReceiptJob, ReceiptPcs, Deciding
<1>4. OpenJob(k)
  BY <1>1, <1>3 DEF OpenJob
<1>5. OpenJob(k)'
  BY <1>4, NotesSame, OpenJobKept DEF Kept
<1> QED
  BY <1>5, ReceiptGoesOn

LEMMA WriteDecisionTyped ==
  ASSUME Typed, NEW h \in Handlers, WriteDecision(h), UNCHANGED noteVars
  PROVE  Moved(h)
<1>1. PICK j : j = jobs[h]
  OBVIOUS
<1>2. Working(h) /\ j.pc = "write" /\ j.pc \in Deciding
  BY <1>1 DEF WriteDecision, At, Deciding
<1>3. IsJob(j) /\ j.attempt \in Nat /\ j.lost \in BOOLEAN
  BY <1>1, <1>2, RequestIs DEF OpenJob
<1>4. PICK new : new = Decided(j.copy, j.arg)
  OBVIOUS
<1>5. /\ j.doc[2] \in DOMAIN receipts /\ new \in ReceiptType /\ Fits(new)
      /\ new.marker = receipts[j.doc[2]].marker
  BY <1>1, <1>2, <1>4, DecidingIs, DecidedTyped
<1>6. PICK outcome \in Outcomes :
        /\ PutWhole(j.doc[2], new, j.copy.rev, outcome)
        /\ CASE outcome = "ok" -> Go(h, "latest")
             [] outcome = "lost" -> Finish(h, "lost")
             [] OTHER -> Finish(h, "error")
  BY <1>1, <1>4 DEF WriteDecision
<1>7. ReceiptsTyped' /\ ReceiptsKept /\ faults' \in Nat
  BY <1>5, <1>6, PutWholeTyped
<1>8. ASSUME Continue(h, [j EXCEPT !.pc = "latest"]) PROVE Moved(h)
  <2>1. PICK k : k = [j EXCEPT !.pc = "latest"]
    OBVIOUS
  <2>2. /\ IsJob(k) /\ k.op = j.op /\ k.pc = "latest" /\ k.doc = j.doc /\ k.arg = j.arg
        /\ k.copy = j.copy /\ k.attempt = j.attempt /\ k.lost = j.lost /\ k.alone = j.alone
    BY <1>3, <2>1 DEF IsJob
  <2> QED
    BY <1>1, <1>2, <1>3, <1>7, <1>8, <2>1, <2>2, DecisionGoesOn DEF Deciding
<1> QED
  BY <1>1, <1>6, <1>7, <1>8, ReceiptEnds DEF Go

LEMMA ReadLatestTyped ==
  ASSUME Typed, NEW h \in Handlers, ReadLatest(h), UNCHANGED noteVars
  PROVE  Moved(h)
<1>1. PICK j : j = jobs[h]
  OBVIOUS
<1>2. /\ Working(h) /\ j.pc = "latest" /\ j.doc[1] = "receipt" /\ j.pc \in Deciding
      /\ UNCHANGED receipts
  BY <1>1 DEF ReadLatest, At, Deciding
<1>3. IsJob(j) /\ j.attempt \in Nat /\ j.lost \in BOOLEAN
  BY <1>1, <1>2, RequestIs DEF OpenJob
<1>4. PICK arg : arg = [accepted |-> j.arg.accepted, returned |-> j.arg.returned,
                        seen |-> receipts[j.doc[2]]]
  OBVIOUS
<1>5. CASE UNCHANGED faults /\ Continue(h, [j EXCEPT !.pc = "submit", !.arg = arg])
  <2>1. PICK k : k = [j EXCEPT !.pc = "submit", !.arg = arg]
    OBVIOUS
  <2>2. /\ IsJob(k) /\ k.op = j.op /\ k.pc = "submit" /\ k.doc = j.doc /\ k.arg = arg
        /\ k.copy = j.copy /\ k.attempt = j.attempt /\ k.lost = j.lost /\ k.alone = j.alone
    BY <1>3, <2>1 DEF IsJob
  <2>3. faults' \in Nat
    BY <1>5 DEF Typed
  <2>4. k.arg.accepted = j.arg.accepted /\ k.arg.returned = j.arg.returned
    BY <1>4, <2>2
  <2>5. ReceiptsTyped' /\ ReceiptsKept
    BY <1>2, ReceiptsSame
  <2>6. Continue(h, k) /\ k.pc \in Deciding
    BY <1>5, <2>1, <2>2 DEF Deciding
  <2> QED
    BY <1>1, <1>2, <1>3, <2>2, <2>3, <2>4, <2>5, <2>6, DecisionGoesOn
<1>6. CASE ReadFails(h, [j EXCEPT !.pc = "undo"])
  <2>1. PICK k : k = [j EXCEPT !.pc = "undo"]
    OBVIOUS
  <2>2. /\ IsJob(k) /\ k.op = j.op /\ k.pc = "undo" /\ k.doc = j.doc /\ k.arg = j.arg
        /\ k.copy = j.copy /\ k.attempt = j.attempt /\ k.lost = j.lost /\ k.alone = j.alone
    BY <1>3, <2>1 DEF IsJob
  <2>3. faults' \in Nat /\ Continue(h, k) /\ k.pc \in Deciding
    BY <1>6, <2>1, <2>2, ReadFailsTyped DEF Deciding
  <2>4. ReceiptsTyped' /\ ReceiptsKept
    BY <1>2, ReceiptsSame
  <2> QED
    BY <1>1, <1>2, <1>3, <2>2, <2>3, <2>4, DecisionGoesOn
<1> QED
  BY <1>1, <1>4, <1>5, <1>6 DEF ReadLatest

LEMMA SubmitDecisionTyped ==
  ASSUME Typed, NEW h \in Handlers, SubmitDecision(h), UNCHANGED noteVars
  PROVE  Moved(h)
<1>1. PICK j : j = jobs[h]
  OBVIOUS
<1>2. Working(h) /\ j.pc = "submit" /\ j.doc[1] = "receipt" /\ j.pc \in Deciding
  BY <1>1 DEF SubmitDecision, At, Deciding
<1>3. IsJob(j) /\ j.attempt \in Nat /\ j.lost \in BOOLEAN /\ j.doc[2] \in DOMAIN receipts
  BY <1>1, <1>2, DecidingIs DEF OpenJob
<1>4. ASSUME ReceiptsTyped', ReceiptsKept, faults' \in Nat, NEW outcome, AfterSubmit(h, outcome)
      PROVE  Moved(h)
  <2>1. CASE outcome = "ok"
    BY <1>4, <2>1, ReceiptEnds DEF AfterSubmit
  <2>2. CASE outcome # "ok"
    <3>1. PICK lost \in BOOLEAN : lost = (outcome = "lost")
      OBVIOUS
    <3>2. PICK k : k = [j EXCEPT !.pc = "undo", !.lost = lost]
      OBVIOUS
    <3>3. /\ IsJob(k) /\ k.op = j.op /\ k.pc = "undo" /\ k.doc = j.doc /\ k.arg = j.arg
          /\ k.copy = j.copy /\ k.attempt = j.attempt /\ k.lost = lost /\ k.alone = j.alone
      BY <1>3, <3>2 DEF IsJob
    <3>4. Continue(h, k) /\ k.pc \in Deciding
      BY <1>1, <1>4, <2>2, <3>1, <3>2, <3>3 DEF AfterSubmit, Deciding
    <3> QED
      BY <1>1, <1>2, <1>3, <1>4, <3>1, <3>3, <3>4, DecisionGoesOn
  <2> QED
    BY <2>1, <2>2
<1>5. ASSUME NEW outcome, SubmitReceipt(j.doc[2], outcome), AfterSubmit(h, outcome)
      PROVE  Moved(h)
  BY <1>3, <1>4, <1>5, SubmitReceiptTyped
<1>6. ASSUME UNCHANGED <<receipts, faults>>, AfterSubmit(h, "refused")
      PROVE  Moved(h)
  BY <1>4, <1>6, ReceiptsSame DEF Typed
<1>7. ASSUME UNCHANGED <<receipts, faults>>,
             Continue(h, [j EXCEPT !.pc = "latest", !.attempt = 1])
      PROVE  Moved(h)
  <2>1. PICK k : k = [j EXCEPT !.pc = "latest", !.attempt = 1]
    OBVIOUS
  <2>2. /\ IsJob(k) /\ k.op = j.op /\ k.pc = "latest" /\ k.doc = j.doc /\ k.arg = j.arg
        /\ k.copy = j.copy /\ k.attempt = 1 /\ k.lost = j.lost /\ k.alone = j.alone
    BY <1>3, <2>1 DEF IsJob
  <2>3. ReceiptsTyped' /\ ReceiptsKept /\ faults' \in Nat
    BY <1>7, ReceiptsSame DEF Typed
  <2>4. Continue(h, k) /\ k.pc \in Deciding
    BY <1>7, <2>1, <2>2 DEF Deciding
  <2> QED
    BY <1>1, <1>2, <1>3, <2>2, <2>3, <2>4, DecisionGoesOn
<1> QED
  BY <1>1, <1>5, <1>6, <1>7 DEF SubmitDecision

LEMMA UndoTyped ==
  ASSUME Typed, NEW h \in Handlers, Undo(h), UNCHANGED noteVars
  PROVE  Moved(h)
<1>1. PICK j : j = jobs[h]
  OBVIOUS
<1>2. Working(h) /\ j.pc = "undo" /\ j.pc \in Deciding
  BY <1>1 DEF Undo, At, Deciding
<1>3. /\ j.doc[2] \in DOMAIN receipts /\ j.copy \in ReceiptType /\ Fits(j.copy)
      /\ j.copy.marker = receipts[j.doc[2]].marker
  BY <1>1, <1>2, DecidingIs
<1>4. PICK outcome \in Outcomes :
        /\ PutWhole(j.doc[2], j.copy, j.copy.rev, outcome)
        /\ Finish(h, AfterUndo(h, outcome))
  BY <1>1 DEF Undo
<1> QED
  BY <1>3, <1>4, PutWholeTyped, ReceiptEnds

\* What the supplier's requests read, and hold until they write.
LEMMA ReadsReceipt ==
  ASSUME Typed, NEW h \in Handlers, Working(h), NEW j, j = jobs[h],
         j.pc \in {"read", "ack_read"}, NEW pc \in {"respond", "ack_write"},
         UNCHANGED receipts, UNCHANGED noteVars,
         \/ UNCHANGED faults /\ Finish(h, "error")
         \/ UNCHANGED faults /\ Continue(h, [j EXCEPT !.pc = pc, !.copy = receipts[j.doc[2]]])
         \/ ReadFails(h, Idle("error"))
  PROVE  Moved(h)
<1>1. ReceiptJob(j) /\ IsJob(j) /\ OpenJob(j) /\ j.doc[1] = "receipt"
  BY ReceiptRequestIs, RequestIs DEF ReceiptPcs, Issuing
<1>2. PICK doc : doc = receipts[j.doc[2]]
  OBVIOUS
<1>3. j.doc[2] \in DOMAIN receipts /\ doc \in ReceiptType /\ Fits(doc) /\ j.op \in ReceiptOps \ {"confirm"}
  BY <1>1, <1>2, ReceiptIs DEF ReceiptJob, Deciding
<1>4. CASE ReadFails(h, Idle("error"))
  BY <1>4, ReadFailsTyped, ReceiptsSame, ReceiptEnds DEF Finish
<1>5. CASE UNCHANGED faults /\ Finish(h, "error")
  BY <1>5, ReceiptsSame, ReceiptEnds DEF Typed
<1>6. CASE UNCHANGED faults /\ Continue(h, [j EXCEPT !.pc = pc, !.copy = doc])
  <2>1. PICK k : k = [j EXCEPT !.pc = pc, !.copy = doc]
    OBVIOUS
  <2>2. /\ IsJob(k) /\ k.op = j.op /\ k.pc = pc /\ k.doc = j.doc /\ k.arg = j.arg /\ k.copy = doc
        /\ k.attempt = j.attempt /\ k.lost = j.lost /\ k.alone = j.alone
    BY <1>1, <2>1 DEF IsJob
  <2>3. ReceiptJob(k)
    BY <1>1, <1>2, <1>3, <2>2 DEF ReceiptJob, ReceiptPcs, Deciding
  <2>4. OpenJob(k)'
    BY <1>1, <2>2, <2>3, NotesSame, ReceiptsSame, OpenJobKept DEF Kept, OpenJob
  <2>5. Continue(h, k)
    BY <1>6, <2>1
  <2> QED
    BY <1>6, <2>4, <2>5, ReceiptsSame, ReceiptGoesOn DEF Typed
<1> QED
  BY <1>2, <1>4, <1>5, <1>6

LEMMA ReadResponseTyped ==
  ASSUME Typed, NEW h \in Handlers, ReadResponse(h) \/ ReadAck(h), UNCHANGED noteVars
  PROVE  Moved(h)
<1>1. PICK j : j = jobs[h]
  OBVIOUS
<1>2. CASE ReadResponse(h)
  <2>1. Working(h) /\ j.pc = "read" /\ UNCHANGED receipts
    BY <1>1, <1>2 DEF ReadResponse, At
  <2>2. \/ UNCHANGED faults /\ Finish(h, "error")
        \/ UNCHANGED faults /\ Continue(h, [j EXCEPT !.pc = "respond", !.copy = receipts[j.doc[2]]])
        \/ ReadFails(h, Idle("error"))
    BY <1>1, <1>2 DEF ReadResponse
  <2> QED
    BY <1>1, <2>1, <2>2, ReadsReceipt
<1>3. CASE ReadAck(h)
  <2>1. Working(h) /\ j.pc = "ack_read" /\ UNCHANGED receipts
    BY <1>1, <1>3 DEF ReadAck, At
  <2>2. \/ UNCHANGED faults /\ Finish(h, "error")
        \/ UNCHANGED faults /\ Continue(h, [j EXCEPT !.pc = "ack_write", !.copy = receipts[j.doc[2]]])
        \/ ReadFails(h, Idle("error"))
    BY <1>1, <1>3 DEF ReadAck
  <2> QED
    BY <1>1, <2>1, <2>2, ReadsReceipt
<1> QED
  BY <1>2, <1>3

\* The requests that write remarks over those they read.
LEMMA CopyIs ==
  ASSUME Typed, NEW h \in Handlers, Working(h), NEW j, j = jobs[h],
         j.pc \in {"respond", "ack_write"}
  PROVE  /\ OpenJob(j) /\ ReceiptJob(j) /\ IsJob(j) /\ j.doc[1] = "receipt"
         /\ j.doc[2] \in DOMAIN receipts /\ j.op \in ReceiptOps \ {"confirm"}
         /\ j.copy \in ReceiptType
<1>1. ReceiptJob(j) /\ IsJob(j) /\ OpenJob(j) /\ j.doc[1] = "receipt"
  BY ReceiptRequestIs, RequestIs DEF ReceiptPcs, Issuing
<1> QED
  BY <1>1 DEF ReceiptJob, Deciding

LEMMA WriteResponseTyped ==
  ASSUME Typed, NEW h \in Handlers, WriteResponse(h), UNCHANGED noteVars
  PROVE  Moved(h)
<1>1. PICK j : j = jobs[h]
  OBVIOUS
<1>2. Working(h) /\ j.pc = "respond"
  BY <1>1 DEF WriteResponse, At
<1>3. /\ OpenJob(j) /\ ReceiptJob(j) /\ IsJob(j) /\ j.doc[1] = "receipt"
      /\ j.doc[2] \in DOMAIN receipts /\ j.copy \in ReceiptType /\ j.op \in ReceiptOps
  BY <1>1, <1>2, CopyIs
<1>4. PICK state \in {"approved", "rejected"} :
        state = (IF j.arg.approve THEN "approved" ELSE "rejected")
  OBVIOUS
<1>5. PICK remarks : remarks = WithUnannounced(j.copy.remarks, state)
  OBVIOUS
<1>6. remarks \in RemarksType
  BY <1>3, <1>5 DEF WithUnannounced, ReceiptType, RemarksType
<1>7. PICK outcome \in Outcomes :
        /\ PutRemarks(h, j.doc[2], remarks, outcome)
        /\ IF outcome = "ok" /\ j.arg.approve
           THEN Continue(h, [j EXCEPT !.pc = "fetch", !.arg = [accepted |-> j.copy.qty, returned |-> 0]])
           ELSE Finish(h, IF outcome = "refused" THEN "error" ELSE outcome)
  BY <1>1, <1>4, <1>5 DEF WriteResponse
<1>8. ReceiptsTyped' /\ ReceiptsKept /\ faults' \in Nat
  BY <1>3, <1>6, <1>7, PutRemarksTyped
<1>9. CASE Continue(h, [j EXCEPT !.pc = "fetch", !.arg = [accepted |-> j.copy.qty, returned |-> 0]])
  <2>1. PICK k : k = [j EXCEPT !.pc = "fetch", !.arg = [accepted |-> j.copy.qty, returned |-> 0]]
    OBVIOUS
  <2>2. /\ IsJob(k) /\ k.op = j.op /\ k.pc = "fetch" /\ k.doc = j.doc /\ k.copy = j.copy
        /\ k.arg.accepted = j.copy.qty /\ k.arg.returned = 0
        /\ k.attempt = j.attempt /\ k.lost = j.lost /\ k.alone = j.alone
    BY <1>3, <2>1 DEF IsJob
  <2>3. j.copy.qty \in Int
    BY <1>3 DEF ReceiptType
  <2>4. ReceiptJob(k)
    BY <1>3, <2>2, <2>3 DEF ReceiptJob, ReceiptPcs, Deciding
  <2>5. OpenJob(k)'
    BY <1>3, <1>8, <2>2, <2>4, NotesSame, OpenJobKept DEF Kept, OpenJob
  <2> QED
    BY <1>8, <1>9, <2>1, <2>5, ReceiptGoesOn
<1> QED
  BY <1>7, <1>8, <1>9, ReceiptEnds

LEMMA WriteAckTyped ==
  ASSUME Typed, NEW h \in Handlers, WriteAck(h), UNCHANGED noteVars
  PROVE  Moved(h)
<1>1. PICK j : j = jobs[h]
  OBVIOUS
<1>2. Working(h) /\ j.pc = "ack_write"
  BY <1>1 DEF WriteAck, At
<1>3. j.doc[2] \in DOMAIN receipts /\ j.copy \in ReceiptType
  BY <1>1, <1>2, CopyIs
<1>4. PICK remarks : remarks = WithAck(j.copy.remarks)
  OBVIOUS
<1>5. remarks \in RemarksType
  BY <1>3, <1>4 DEF WithAck, ReceiptType, RemarksType
<1>6. PICK outcome \in Outcomes : PutRemarks(h, j.doc[2], remarks, outcome)
  BY <1>1, <1>4 DEF WriteAck
<1> QED
  BY <1>3, <1>5, <1>6, PutRemarksTyped, ReceiptEnds DEF WriteAck

LEMMA ReceiptStepTyped ==
  ASSUME Typed, NEW h \in Handlers, ReceiptStep(h), UNCHANGED noteVars
  PROVE  Moved(h)
<1>1. CASE \E s \in Suppliers, qty \in Quantities : Dispatch(h, s, qty) \/ Unannounced(h, s, qty)
  BY <1>1, DispatchTyped
<1>2. ASSUME NEW n \in 1 .. MaxReceipts, NEW d \in Decisions, Confirm(h, n, d) PROVE Moved(h)
  <2>1. d.accepted \in Int /\ d.returned \in Int
    BY ReceiptsAssumption
  <2> QED
    BY <1>2, <2>1, ReceiptBegins DEF Confirm, ReceiptOps
<1>3. ASSUME NEW n \in 1 .. MaxReceipts, NEW s \in Suppliers, NEW approve \in BOOLEAN,
             Respond(h, n, s, approve)
      PROVE  Moved(h)
  BY <1>3, ReceiptBegins DEF Respond, ReceiptOps
<1>4. ASSUME NEW n \in 1 .. MaxReceipts, NEW s \in Suppliers, Acknowledge(h, n, s) PROVE Moved(h)
  BY <1>4, ReceiptBegins DEF Acknowledge, ReceiptOps
<1>5. CASE CreateRefused(h) \/ CreateDone(h) \/ MarkUnannounced(h)
  BY <1>5, CreateRefusedTyped, CreateDoneTyped, MarkTyped
<1>6. CASE Fetch(h) \/ NoteFullReturn(h) \/ WriteDecision(h)
  BY <1>6, FetchTyped, NoteFullReturnTyped, WriteDecisionTyped
<1>7. CASE ReadLatest(h) \/ SubmitDecision(h) \/ Undo(h)
  BY <1>7, ReadLatestTyped, SubmitDecisionTyped, UndoTyped
<1>8. CASE ReadResponse(h) \/ WriteResponse(h) \/ ReadAck(h) \/ WriteAck(h)
  BY <1>8, ReadResponseTyped, WriteResponseTyped, WriteAckTyped
<1> QED
  BY <1>1, <1>2, <1>3, <1>4, <1>5, <1>6, <1>7, <1>8 DEF ReceiptStep

-----------------------------------------------------------------------------
(***************************************************************************)
(* What has come back of a note, and how it changes with the list of the   *)
(* returns.                                                                *)
(***************************************************************************)
Part(rs, S, i) == IF i \in S /\ i <= Len(rs) THEN rs[i].qty ELSE 0

LEMMA PartTyped ==
  ASSUME NEW rs \in Seq(ReturnType), NEW S, NEW i \in 1 .. Len(rs)
  PROVE  rs[i].qty \in Nat /\ Part(rs, S, i) \in Nat
<1>1. rs[i] \in ReturnType
  OBVIOUS
<1>2. rs[i].qty \in Nat
  BY <1>1 DEF ReturnType
<1> QED
  BY <1>2 DEF Part

LEMMA TotalIs ==
  ASSUME NEW rs \in Seq(ReturnType), NEW S
  PROVE  \E f : /\ f \in [0 .. Len(rs) -> Nat] /\ f[0] = 0
                /\ \A i \in 1 .. Len(rs) : f[i] = f[i - 1] + Part(rs, S, i)
                /\ Total(rs, S) = f[Len(rs)]
<1> DEFINE n == Len(rs)
           part(i) == IF i \in S THEN rs[i].qty ELSE 0
           next(f, i) == IF i = 0 THEN 0 ELSE f[i - 1] + part(i)
           Def(f, k) == f = [i \in 0 .. k |-> next(f, i)]
           Sum == CHOOSE f : Def(f, n)
           defined == {k \in 0 .. n : \E f \in [0 .. k -> Nat] : Def(f, k)}
<1>1. Total(rs, S) = Sum[n]
  BY Zenon DEF Total
<1>2. n \in Nat /\ \A i \in 1 .. n : part(i) \in Nat /\ part(i) = Part(rs, S, i)
  BY PartTyped DEF Part
<1> HIDE DEF n, part
<1>3. 0 \in defined
  <2> DEFINE f == [i \in 0 .. 0 |-> 0]
  <2>1. f \in [0 .. 0 -> Nat] /\ f = [i \in 0 .. 0 |-> f[i]]
    OBVIOUS
  <2>2. \A i \in 0 .. 0 : f[i] = next(f, i)
    OBVIOUS
  <2> HIDE DEF f, next
  <2>3. Def(f, 0)
    BY <2>1, <2>2
  <2> HIDE DEF Def
  <2> QED
    BY <1>2, <2>1, <2>3
<1>4. ASSUME NEW k \in 1 .. n, k - 1 \in defined PROVE k \in defined
  <2>1. PICK f \in [0 .. k - 1 -> Nat] : Def(f, k - 1)
    BY <1>4
  <2> DEFINE h == [i \in 0 .. k |-> IF i = k THEN f[k - 1] + part(k) ELSE f[i]]
  <2>2. h \in [0 .. k -> Nat]
    BY <1>2
  <2>3. \A i \in 0 .. k - 1 : f[i] = next(f, i)
    <3> HIDE DEF next
    <3> QED
      BY <2>1
  <2>4. \A i \in 0 .. k : h[i] = next(h, i)
    BY <2>3
  <2>5. h = [i \in 0 .. k |-> h[i]]
    OBVIOUS
  <2> HIDE DEF h, next
  <2>6. Def(h, k)
    BY <2>4, <2>5
  <2> HIDE DEF Def
  <2>7. \E g \in [0 .. k -> Nat] : Def(g, k)
    BY <2>2, <2>6, Zenon
  <2>8. k \in 0 .. n
    BY <1>2
  <2> QED
    BY <2>7, <2>8
<1>5. defined = 0 .. n
  <2>1. defined \in SUBSET (0 .. n)
    BY DEF defined
  <2> HIDE DEF defined
  <2> QED
    BY <1>2, <1>3, <1>4, <2>1, StepByStep
<1>6. Def(Sum, n)
  <2> HIDE DEF Def
  <2>1. \E f : Def(f, n)
    BY <1>2, <1>5
  <2> QED
    BY <2>1
<1> HIDE DEF Sum
<1>7. \A i \in 0 .. n : Sum[i] = next(Sum, i)
  <2> HIDE DEF next
  <2> QED
    BY <1>6
<1>8. /\ Sum[0] = 0
      /\ \A i \in 1 .. n : Sum[i] = Sum[i - 1] + Part(rs, S, i)
  BY <1>2, <1>7
<1> DEFINE natural == {i \in 0 .. n : Sum[i] \in Nat}
<1>9. natural = 0 .. n
  <2>1. 0 \in natural /\ natural \in SUBSET (0 .. n)
    BY <1>2, <1>8
  <2>2. ASSUME NEW i \in 1 .. n, i - 1 \in natural PROVE i \in natural
    BY <1>2, <1>8, <2>2
  <2> HIDE DEF natural
  <2> QED
    BY <1>2, <2>1, <2>2, StepByStep
<1>10. Sum = [i \in 0 .. n |-> Sum[i]]
  BY <1>6
<1>11. Sum \in [0 .. n -> Nat]
  BY <1>9, <1>10
<1> QED
  BY <1>1, <1>8, <1>11 DEF n

LEMMA TotalTyped ==
  ASSUME NEW rs \in Seq(ReturnType), NEW S
  PROVE  Total(rs, S) \in Nat
<1>1. Len(rs) \in 0 .. Len(rs)
  OBVIOUS
<1> QED
  BY <1>1, TotalIs

\* One return more, or one that counts for more than it did.
LEMMA TotalChanges ==
  ASSUME NEW rs \in Seq(ReturnType), NEW rs1 \in Seq(ReturnType), Len(rs) <= Len(rs1),
         NEW S, NEW S1, NEW k \in 1 .. Len(rs1), NEW d \in Nat,
         \A i \in 1 .. Len(rs1) :
           Part(rs1, S1, i) = Part(rs, S, i) + (IF i = k THEN d ELSE 0)
  PROVE  Total(rs1, S1) = Total(rs, S) + d
<1> DEFINE m == Len(rs)
           n == Len(rs1)
<1>1. m \in Nat /\ n \in Nat /\ m <= n /\ k \in 1 .. n
  OBVIOUS
<1>2. PICK f : /\ f \in [0 .. m -> Nat] /\ f[0] = 0
               /\ \A i \in 1 .. m : f[i] = f[i - 1] + Part(rs, S, i)
               /\ Total(rs, S) = f[m]
  BY TotalIs
<1>3. PICK f1 : /\ f1 \in [0 .. n -> Nat] /\ f1[0] = 0
                /\ \A i \in 1 .. n : f1[i] = f1[i - 1] + Part(rs1, S1, i)
                /\ Total(rs1, S1) = f1[n]
  BY TotalIs
<1>4. \A i \in 1 .. n : i > m => Part(rs, S, i) = 0
  BY DEF Part
<1>5. \A i \in 1 .. m : Part(rs, S, i) \in Nat
  BY PartTyped
<1> HIDE DEF m, n
<1> DEFINE upto(i) == IF i <= m THEN f[i] ELSE f[m]
           T == {i \in 0 .. n : f1[i] = upto(i) + (IF i >= k THEN d ELSE 0)}
<1>6. 0 \in T
  BY <1>1, <1>2, <1>3
<1>7. ASSUME NEW i \in 1 .. n, i - 1 \in T PROVE i \in T
  <2>1. f1[i] = f1[i - 1] + (Part(rs, S, i) + (IF i = k THEN d ELSE 0))
    BY <1>3 DEF n
  <2>2. upto(i) = upto(i - 1) + Part(rs, S, i)
    <3>1. CASE i <= m
      BY <1>1, <1>2, <3>1
    <3>2. CASE i > m /\ i - 1 = m
      BY <1>1, <1>2, <1>4, <3>2
    <3>3. CASE i - 1 > m
      BY <1>1, <1>2, <1>4, <3>3
    <3> QED
      BY <1>1, <3>1, <3>2, <3>3
  <2>3. f1[i - 1] = upto(i - 1) + (IF i - 1 >= k THEN d ELSE 0)
    BY <1>7
  <2>4. upto(i - 1) \in Nat /\ Part(rs, S, i) \in Nat
    BY <1>1, <1>2, <1>4, <1>5
  <2> HIDE DEF upto
  <2> QED
    BY <1>1, <2>1, <2>2, <2>3, <2>4
<1>8. T = 0 .. n
  <2>1. T \in SUBSET (0 .. n)
    BY DEF T
  <2> HIDE DEF T
  <2> QED
    BY <1>1, <1>6, <1>7, <2>1, StepByStep
<1>9. f1[n] = upto(n) + (IF n >= k THEN d ELSE 0)
  BY <1>1, <1>8
<1>10. upto(n) = f[m]
  BY <1>1
<1> QED
  BY <1>1, <1>2, <1>3, <1>9, <1>10

-----------------------------------------------------------------------------
(***************************************************************************)
(* Writes of notes.                                                        *)
(***************************************************************************)
NotesMoved == NotesTyped' /\ ReturnsTyped' /\ NotesKept /\ ReturnsKept

LEMMA NoteIs ==
  ASSUME Typed, NEW n \in DOMAIN notes
  PROVE  /\ notes[n] \in NoteType /\ n \in 1 .. Len(notes)
         /\ Issued(notes[n]) /\ Revealed(notes[n])
  BY DEF Typed, NotesTyped

LEMMA NoteWritten ==
  ASSUME Typed, NEW n \in DOMAIN notes, NEW doc \in NoteType, Later(notes[n], doc),
         StoredNote(n, doc), UNCHANGED returns
  PROVE  NotesMoved
<1>1. PICK new : new = [doc EXCEPT !.rev = notes[n].rev + 1]
  OBVIOUS
<1>2. notes' = [notes EXCEPT ![n] = new]
  BY <1>1 DEF StoredNote
<1>3. notes[n].rev \in Nat
  BY NoteIs DEF NoteType
<1>4. new \in NoteType /\ Later(notes[n], new)
  BY <1>1, <1>3 DEF NoteType, Later
<1>5. notes \in Seq(NoteType)
  BY DEF Typed, NotesTyped
<1>6. /\ notes' \in Seq(NoteType) /\ Len(notes') = Len(notes) /\ Len(notes) \in Nat
      /\ DOMAIN notes' = DOMAIN notes
  BY <1>2, <1>4, <1>5
<1>7. \A m \in DOMAIN notes : notes'[m] = IF m = n THEN new ELSE notes[m]
  BY <1>2, <1>5
<1>8. NotesKept
  BY <1>4, <1>6, <1>7 DEF NotesKept, Later
<1>9. \A m \in DOMAIN notes : Issued(notes'[m]) /\ Revealed(notes'[m])
  BY <1>6, <1>8, NoteIs DEF NotesKept, Later, Issued, Revealed
<1> QED
  BY <1>6, <1>8, <1>9 DEF NotesMoved, Typed, NotesTyped, ReturnsTyped, ReturnsKept, Issued, Revealed

LEMMA NotesUnmoved ==
  ASSUME Typed, UNCHANGED noteVars
  PROVE  NotesMoved
  BY NotesSame DEF NotesMoved

LEMMA PutFieldsTyped ==
  ASSUME Typed, NEW n \in DOMAIN notes, NEW doc \in NoteType, Later(notes[n], doc),
         NEW outcome, PutFields(n, doc, outcome), UNCHANGED returns
  PROVE  NotesMoved /\ faults' \in Nat
<1>1. faults' \in Nat
  BY FaultsTyped DEF PutFields
<1>2. UNCHANGED notes \/ StoredNote(n, doc)
  BY DEF PutFields
<1> QED
  BY <1>1, <1>2, NotesUnmoved, NoteWritten DEF noteVars

LEMMA PutStateTyped ==
  ASSUME Typed, NEW n \in DOMAIN notes, NEW state \in 0 .. 4,
         NEW outcome, PutState(n, state, outcome), UNCHANGED returns
  PROVE  NotesMoved /\ faults' \in Nat
<1>1. PICK doc : doc = [notes[n] EXCEPT !.flow = 1, !.state = state]
  OBVIOUS
<1>2. doc \in NoteType /\ Later(notes[n], doc)
  BY <1>1, NoteIs DEF NoteType, Later
<1>3. PutFields(n, doc, outcome)
  BY <1>1 DEF PutState
<1> QED
  BY <1>2, <1>3, PutFieldsTyped

LEMMA PutStateShows ==
  ASSUME Typed, NEW n \in DOMAIN notes, NEW state, NEW outcome, outcome # "refused",
         PutState(n, state, outcome)
  PROVE  notes'[n].flow = 1 /\ notes'[n].state = state
<1>1. notes[n] \in NoteType
  BY NoteIs
<1>2. PICK doc : doc = [notes[n] EXCEPT !.flow = 1, !.state = state]
  OBVIOUS
<1>3. doc.flow = 1 /\ doc.state = state /\ doc = [notes[n] EXCEPT !.flow = 1, !.state = state]
  BY <1>1, <1>2 DEF NoteType
<1>4. PICK new : new = [doc EXCEPT !.rev = notes[n].rev + 1]
  OBVIOUS
<1>5. new.flow = 1 /\ new.state = state
  BY <1>1, <1>2, <1>4 DEF NoteType
<1>6. notes' = [notes EXCEPT ![n] = new]
  BY <1>2, <1>4 DEF PutState, PutFields, StoredNote
<1> QED
  BY <1>5, <1>6

LEMMA NoteStatusWritten ==
  ASSUME Typed, NEW n \in DOMAIN notes, UNCHANGED returns,
         NEW status \in {"draft", "submitted", "cancelled", "deleted"},
         status \in LiveStatus => notes[n].status \in LiveStatus,
         status = "submitted" => notes[n].status = "submitted" \/ notes[n].flow = 1,
         StoredNote(n, [notes[n] EXCEPT !.status = status])
  PROVE  NotesMoved
<1>1. PICK doc : doc = [notes[n] EXCEPT !.status = status]
  OBVIOUS
<1>2. doc \in NoteType /\ Later(notes[n], doc)
  BY <1>1, NoteIs DEF NoteType, Later
<1> QED
  BY <1>1, <1>2, NoteWritten

-----------------------------------------------------------------------------
(***************************************************************************)
(* The requests about notes.                                               *)
(***************************************************************************)
LEMMA NotesMove ==
  ASSUME Typed, NEW h \in Handlers, UNCHANGED receipts, NotesMoved,
         OthersKept(h), requests' \in Nat, faults' \in Nat, desk' \in Nat,
         Working(h)' => OpenJob(jobs[h])'
  PROVE  Moved(h)
<1>1. ReceiptsTyped' /\ Kept
  BY ReceiptsSame DEF Kept, NotesMoved
<1> QED
  BY <1>1, StepOf DEF Typed, NotesMoved, Moved

LEMMA NoteEnds ==
  ASSUME Typed, NEW h \in Handlers, UNCHANGED receipts, NotesMoved,
         faults' \in Nat, NEW result, Finish(h, result)
  PROVE  Moved(h)
<1>1. OthersKept(h) /\ jobs'[h] = Idle(result) /\ requests' \in Nat /\ desk' \in Nat
  BY Continues DEF Finish
<1> QED
  BY <1>1, EndsTyped, NotesMove

LEMMA NoteGoesOn ==
  ASSUME Typed, NEW h \in Handlers, UNCHANGED receipts, NotesMoved,
         faults' \in Nat, NEW k, Continue(h, k), OpenJob(k)'
  PROVE  Moved(h)
<1>1. OthersKept(h) /\ jobs'[h] = k /\ requests' \in Nat /\ desk' \in Nat
  BY Continues
<1> QED
  BY <1>1, NotesMove

LEMMA NoteRequestIs ==
  ASSUME Typed, NEW h \in Handlers, Working(h), NEW j, j = jobs[h],
         j.pc \in (Issuing \cup Answering) \ ReceiptPcs \/ j.doc[1] = "note"
  PROVE  /\ j.doc[1] = "note" /\ NoteJob(j) /\ OpenJob(j) /\ IsJob(j)
         /\ j.attempt \in Nat /\ j.lost \in BOOLEAN /\ j.alone \in BOOLEAN
<1>1. OpenJob(jobs[h])
  BY RequestIs
<1> QED
  BY <1>1 DEF OpenJob, ReceiptJob

\* A step of an issue or of an answer to a later one of the same note.
LEMMA NoteStepsOn ==
  ASSUME Typed, NEW h \in Handlers, Working(h), NEW j, j = jobs[h], j.doc[1] = "note",
         UNCHANGED receipts, NotesMoved, faults' \in Nat,
         NEW k, Continue(h, k), IsJob(k), k.doc[1] = "note", k.doc = <<k.doc[1], k.doc[2]>>,
         k.attempt \in Nat, k.lost = j.lost, k.alone = j.alone, NoteJob(k) \/ NoteJob(k)'
  PROVE  Moved(h)
<1>1. j.lost \in BOOLEAN /\ j.alone \in BOOLEAN
  BY NoteRequestIs
<1>2. Kept
  BY ReceiptsSame DEF Kept, NotesMoved
<1>3. CASE NoteJob(k)
  <2>1. OpenJob(k)
    BY <1>1, <1>3 DEF OpenJob
  <2>2. OpenJob(k)'
    BY <1>2, <2>1, OpenJobKept
  <2> QED
    BY <2>2, NoteGoesOn
<1>4. CASE NoteJob(k)'
  <2>1. OpenJob(k)'
    BY <1>1, <1>4 DEF OpenJob
  <2> QED
    BY <2>1, NoteGoesOn
<1> QED
  BY <1>3, <1>4

LEMMA LineIs ==
  ASSUME NEW line \in IssueLines
  PROVE  line \in [customer : Customers, qty : Int, key : Sources]
<1> DEFINE S == [customer : Customers, qty : Int, key : Sources]
<1>1. PICK lines \in IssueRequests : \E i \in DOMAIN lines : line = lines[i]
  BY DEF IssueLines
<1>2. lines \in Seq(S)
  BY NotesAssumption
<1> HIDE DEF S
<1>3. line \in S
  BY <1>1, <1>2
<1> QED
  BY <1>3 DEF S

LEMMA LinesAre ==
  ASSUME NEW lines \in Lines
  PROVE  /\ Head(lines) \in IssueLines
         /\ Head(lines) \in [customer : Customers, qty : Int, key : Sources]
         /\ Tail(lines) # <<>> => Tail(lines) \in Lines
<1>1. lines \in Seq(IssueLines) /\ lines # <<>>
  BY DEF Lines
<1>2. Head(lines) \in IssueLines /\ Tail(lines) \in Seq(IssueLines)
  BY <1>1
<1> QED
  BY <1>2, LineIs DEF Lines

LEMMA EndLineTyped ==
  ASSUME Typed, NEW h \in Handlers, Working(h), NEW j, j = jobs[h], j.doc[1] = "note",
         j.pc \in Issuing, UNCHANGED receipts, NotesMoved, faults' \in Nat,
         NEW result, EndLine(h, result)
  PROVE  Moved(h)
<1>1. NoteJob(j) /\ IsJob(j)
  BY NoteRequestIs
<1>2. j.arg.lines \in Lines /\ j.op = "issue"
  BY <1>1 DEF NoteJob
<1>3. PICK rest : rest = Tail(j.arg.lines)
  OBVIOUS
<1>4. CASE rest # <<>>
  <2>1. PICK arg : arg = [lines |-> rest]
    OBVIOUS
  <2>2. PICK k : k = [j EXCEPT !.pc = "check", !.doc = Note(None), !.attempt = 0,
                        !.lost = FALSE, !.copy = None, !.arg = arg]
    OBVIOUS
  <2>3. /\ IsJob(k) /\ k.op = j.op /\ k.pc = "check" /\ k.doc = Note(None) /\ k.arg = arg
        /\ k.attempt = 0 /\ k.lost = FALSE /\ k.alone = j.alone
    BY <1>1, <2>2 DEF IsJob
  <2>4. Continue(h, k)
    BY <1>3, <1>4, <2>1, <2>2 DEF EndLine
  <2>5. k.arg.lines \in Lines
    BY <1>2, <1>3, <1>4, <2>1, <2>3, LinesAre
  <2>6. /\ k.alone \in BOOLEAN
        /\ k.lost \in BOOLEAN
        /\ k.op = "issue" /\ k.attempt \in Nat
    <3>1. j.alone \in BOOLEAN
      BY NoteRequestIs
    <3>2. k.alone \in BOOLEAN
      BY <2>3, <3>1, Zenon
    <3>3. k.lost \in BOOLEAN
      BY <2>3, Zenon
    <3>4. k.op = "issue" /\ k.attempt \in Nat
      BY <1>2, <2>3
    <3> QED
      BY <3>2, <3>3, <3>4
  <2>7. k.doc = <<"note", None>> /\ k.doc[1] = "note" /\ k.doc[2] = None
    BY <2>3 DEF Note
  <2>8. NoteJob(k)'
    BY <2>3, <2>5, <2>6 DEF NoteJob, Issuing, Answering
  <2>9. OpenJob(k)'
    BY <2>3, <2>6, <2>7, <2>8 DEF OpenJob
  <2> QED
    BY <2>4, <2>9, NoteGoesOn
<1>5. CASE rest = <<>>
  BY <1>3, <1>5, NoteEnds DEF EndLine
<1> QED
  BY <1>4, <1>5

LEMMA IssueTyped ==
  ASSUME Typed, NEW h \in Handlers, NEW lines \in IssueRequests, Issue(h, lines),
         UNCHANGED receipts
  PROVE  Moved(h)
<1>1. PICK arg : arg = [lines |-> lines]
  OBVIOUS
<1>2. Begin(h, "issue", "check", Note(None), arg) /\ UNCHANGED noteVars
  BY <1>1 DEF Issue
<1>3. /\ OthersKept(h) /\ jobs'[h] = NewJob(h, "issue", "check", Note(None), arg)
      /\ requests' \in Nat /\ faults' \in Nat /\ desk' \in Nat
  BY <1>2, Begins
<1>4. PICK k : k = NewJob(h, "issue", "check", Note(None), arg)
  OBVIOUS
<1>5. /\ IsJob(k) /\ k.attempt \in Nat /\ k.lost \in BOOLEAN /\ k.alone \in BOOLEAN
      /\ k.op = "issue" /\ k.pc = "check" /\ k.doc = Note(None) /\ k.arg = arg
  BY <1>4, FreshJob
<1>6. lines \in Lines
  <2>1. /\ lines \in Seq([customer : Customers, qty : Int, key : Sources])
        /\ lines # <<>>
    BY NotesAssumption
  <2>2. \A i \in DOMAIN lines : lines[i] \in IssueLines
    BY DEF IssueLines
  <2> QED
    BY <2>1, <2>2 DEF Lines
<1>7. OpenJob(k)'
  BY <1>1, <1>5, <1>6 DEF OpenJob, NoteJob, Issuing, Answering, Note
<1> QED
  BY <1>2, <1>3, <1>4, <1>7, NotesUnmoved, NotesMove

LEMMA NoteGoes ==
  ASSUME Typed, NEW h \in Handlers, Working(h), NEW j, j = jobs[h], j.doc[1] = "note",
         UNCHANGED receipts, NotesMoved, faults' \in Nat, NEW pc, Go(h, pc),
         \/ j.pc = "open" /\ pc = "latest" /\ notes'[j.doc[2]].flow = 1
         \/ j.pc \in {"open", "latest", "submit"} /\ pc = "delete"
         \/ j.pc \in {"book", "remarks"} /\ pc \in {"remarks", "state"}
  PROVE  Moved(h)
<1>1. PICK k : k = [j EXCEPT !.pc = pc]
  OBVIOUS
<1>2. NoteJob(j) /\ IsJob(j) /\ j.attempt \in Nat /\ j.doc = <<j.doc[1], j.doc[2]>>
  BY NoteRequestIs DEF OpenJob
<1>3. /\ IsJob(k) /\ k.op = j.op /\ k.pc = pc /\ k.doc = j.doc /\ k.arg = j.arg
      /\ k.copy = j.copy /\ k.attempt = j.attempt /\ k.lost = j.lost /\ k.alone = j.alone
  BY <1>1, <1>2 DEF IsJob
<1>4. pc = "latest" => NoteJob(k)'
  BY <1>2, <1>3 DEF NotesMoved, NotesKept, NoteJob, Issuing, Answering
<1>5. pc # "latest" => NoteJob(k)
  BY <1>2, <1>3 DEF NoteJob, Issuing, Answering
<1>6. Continue(h, k)
  BY <1>1 DEF Go
<1> QED
  BY <1>2, <1>3, <1>4, <1>5, <1>6, NoteStepsOn

LEMMA CheckSourceTyped ==
  ASSUME Typed, NEW h \in Handlers, CheckSource(h), UNCHANGED receipts
  PROVE  Moved(h)
<1>1. PICK j : j = jobs[h]
  OBVIOUS
<1>2. Working(h) /\ j.pc = "check" /\ UNCHANGED noteVars
  BY <1>1 DEF CheckSource, At
<1>3. /\ j.doc[1] = "note" /\ NoteJob(j) /\ IsJob(j) /\ j.attempt \in Nat
      /\ j.doc = Note(None) /\ j.op = "issue" /\ j.arg.lines \in Lines
  BY <1>1, <1>2, NoteRequestIs DEF Issuing, Answering, ReceiptPcs, Deciding, NoteJob
<1>4. NotesMoved
  BY <1>2, NotesUnmoved
<1>5. ASSUME faults' \in Nat, EndLine(h, "error") PROVE Moved(h)
  BY <1>1, <1>2, <1>3, <1>4, <1>5, EndLineTyped DEF Issuing
<1>6. PICK line : line = Head(j.arg.lines)
  OBVIOUS
<1>7. ASSUME UNCHANGED faults, NEW len \in {0, Len(notes)},
             Continue(h, [j EXCEPT !.pc = "create", !.copy = len])
      PROVE  Moved(h)
  <2>1. PICK k : k = [j EXCEPT !.pc = "create", !.copy = len]
    OBVIOUS
  <2>2. /\ IsJob(k) /\ k.op = j.op /\ k.pc = "create" /\ k.doc = j.doc /\ k.arg = j.arg
        /\ k.copy = len /\ k.attempt = j.attempt /\ k.lost = j.lost /\ k.alone = j.alone
    BY <1>3, <2>1 DEF IsJob
  <2>3. len \in 0 .. Len(notes)
    BY <1>7 DEF Typed, NotesTyped
  <2>4. NoteJob(k)
    BY <1>3, <2>2, <2>3 DEF NoteJob, Issuing, Answering
  <2>5. k.doc[1] = "note" /\ k.doc = <<k.doc[1], k.doc[2]>>
    BY <1>3, <2>2 DEF Note
  <2>6. faults' \in Nat
    BY <1>7 DEF Typed
  <2> QED
    BY <1>1, <1>2, <1>3, <1>4, <1>7, <2>1, <2>2, <2>4, <2>5, <2>6, NoteStepsOn
<1>8. faults' \in Nat
  BY DEF CheckSource, Typed
<1>9. \/ EndLine(h, "error")
      \/ /\ UNCHANGED faults
         /\ Continue(h, [j EXCEPT !.pc = "create",
                                 !.copy = IF SearchEnds(line) THEN Len(notes) ELSE 0])
  BY <1>1, <1>6 DEF CheckSource
<1> QED
  BY <1>5, <1>7, <1>8, <1>9

LEMMA NoteCreated ==
  ASSUME Typed, NEW line \in IssueLines, line.qty > 0, NEW checked \in 0 .. Len(notes),
         Len(notes) < MaxNotes, notes' = Append(notes, NewNote(line, checked)), UNCHANGED returns
  PROVE  NotesMoved /\ Len(notes) + 1 \in DOMAIN notes'
<1>1. PICK new : new = NewNote(line, checked)
  OBVIOUS
<1>2. line.customer \in Customers /\ line.qty \in Nat /\ line.key \in Sources
  <2>1. line \in [customer : Customers, qty : Int, key : Sources]
    BY LineIs
  <2> QED
    BY <2>1
<1>3. notes \in Seq(NoteType) /\ Len(notes) \in Nat /\ checked \in Nat
  BY DEF Typed, NotesTyped
<1>4. new \in NoteType
  BY <1>1, <1>2, <1>3 DEF NewNote, NoteType
<1>5. Issued(new) /\ Revealed(new)
  BY <1>1 DEF NewNote, Issued, Revealed
<1>6. /\ notes' \in Seq(NoteType) /\ Len(notes') = Len(notes) + 1
      /\ \A n \in 1 .. Len(notes) : notes'[n] = notes[n]
      /\ notes'[Len(notes) + 1] = new
  BY <1>1, <1>3, <1>4
<1>7. DOMAIN notes = 1 .. Len(notes) /\ DOMAIN notes' = 1 .. Len(notes) + 1
  BY <1>3, <1>6
<1>8. NotesKept
  BY <1>3, <1>6, <1>7 DEF NotesKept, Later
<1>9. NotesTyped'
  <2>1. ASSUME NEW n \in DOMAIN notes' PROVE Issued(notes'[n]) /\ Revealed(notes'[n])
    <3>1. CASE n \in DOMAIN notes
      BY <1>6, <1>7, <3>1, NoteIs
    <3>2. CASE n \notin DOMAIN notes
      BY <1>3, <1>5, <1>6, <1>7, <2>1, <3>2
    <3> QED
      BY <3>1, <3>2
  <2>2. Len(notes') <= MaxNotes
    BY <1>3, <1>6, NotesAssumption
  <2> QED
    BY <1>6, <2>1, <2>2 DEF NotesTyped, Issued, Revealed
<1> QED
  BY <1>3, <1>7, <1>8, <1>9 DEF NotesMoved, Typed, ReturnsTyped, ReturnsKept

LEMMA CreateNoteTyped ==
  ASSUME Typed, NEW h \in Handlers, CreateNote(h), UNCHANGED receipts
  PROVE  Moved(h)
<1>1. PICK j : j = jobs[h]
  OBVIOUS
<1>2. Working(h) /\ j.pc = "create" /\ j.doc = Note(None) /\ UNCHANGED returns
  BY <1>1 DEF CreateNote, At
<1>3. /\ j.doc[1] = "note" /\ NoteJob(j) /\ IsJob(j) /\ j.attempt \in Nat
      /\ j.op = "issue" /\ j.arg.lines \in Lines /\ j.copy \in 0 .. Len(notes)
  <2>1. j.doc[1] = "note"
    BY <1>2 DEF Note
  <2> QED
    BY <1>1, <1>2, <2>1, NoteRequestIs DEF NoteJob, Issuing
<1>4. PICK line : line = Head(j.arg.lines)
  OBVIOUS
<1>5. line \in IssueLines /\ line.qty \in Int
  BY <1>3, <1>4, LinesAre, LineIs
<1>6. ASSUME NotesMoved, faults' \in Nat, NEW result, EndLine(h, result) PROVE Moved(h)
  BY <1>1, <1>2, <1>3, <1>6, EndLineTyped DEF Issuing
<1>7. CASE line.qty <= 0
  <2>1. EndLine(h, "error") /\ UNCHANGED <<notes, faults>>
    BY <1>1, <1>4, <1>7 DEF CreateNote
  <2> QED
    BY <1>2, <1>6, <2>1, NotesUnmoved DEF Typed, noteVars
<1>8. CASE line.qty > 0
  <2>1. /\ Len(notes) < MaxNotes
        /\ \E outcome \in Outcomes :
             /\ Faulty(outcome)
             /\ notes' = IF outcome = "refused" THEN notes
                         ELSE Append(notes, NewNote(line, j.copy))
             /\ CASE outcome = "ok" ->
                       Continue(h, [j EXCEPT !.pc = "open", !.doc = Note(Len(notes) + 1)])
                  [] outcome = "lost" -> EndLine(h, "lost")
                  [] OTHER -> EndLine(h, "error")
    BY <1>1, <1>4, <1>5, <1>8 DEF CreateNote
  <2>2. PICK outcome \in Outcomes :
          /\ Faulty(outcome)
          /\ notes' = IF outcome = "refused" THEN notes
                      ELSE Append(notes, NewNote(line, j.copy))
          /\ CASE outcome = "ok" ->
                    Continue(h, [j EXCEPT !.pc = "open", !.doc = Note(Len(notes) + 1)])
               [] outcome = "lost" -> EndLine(h, "lost")
               [] OTHER -> EndLine(h, "error")
    BY <2>1
  <2>3. faults' \in Nat
    BY <2>2, FaultsTyped
  <2>4. CASE outcome = "refused"
    BY <1>2, <1>6, <2>2, <2>3, <2>4, NotesUnmoved DEF noteVars
  <2>5. CASE outcome # "refused"
    <3>1. NotesMoved /\ Len(notes) + 1 \in DOMAIN notes'
      BY <1>2, <1>3, <1>5, <1>8, <2>1, <2>2, <2>5, NoteCreated
    <3>2. CASE outcome = "lost"
      BY <1>6, <2>2, <2>3, <3>1, <3>2
    <3>3. CASE outcome = "ok"
      <4>1. PICK m : m = Len(notes) + 1
        OBVIOUS
      <4>2. PICK k : k = [j EXCEPT !.pc = "open", !.doc = Note(m)]
        OBVIOUS
      <4>3. Continue(h, k)
        BY <2>2, <3>3, <4>1, <4>2
      <4>4. /\ IsJob(k) /\ k.op = j.op /\ k.pc = "open" /\ k.doc = <<"note", m>> /\ k.arg = j.arg
            /\ k.attempt = j.attempt /\ k.lost = j.lost /\ k.alone = j.alone
        BY <1>3, <4>2 DEF IsJob, Note
      <4>5. m \in DOMAIN notes'
        BY <3>1, <4>1
      <4>6. NoteJob(k)'
        BY <1>3, <4>4, <4>5 DEF NoteJob, Issuing, Answering
      <4> QED
        BY <1>1, <1>2, <1>3, <2>3, <3>1, <4>3, <4>4, <4>6, NoteStepsOn
    <3> QED
      BY <2>5, <3>2, <3>3 DEF Outcomes
  <2> QED
    BY <2>4, <2>5
<1> QED
  BY <1>5, <1>7, <1>8

\* Where an issue is when it has a note.
LEMMA NoteHeld ==
  ASSUME Typed, NEW h \in Handlers, Working(h), NEW j, j = jobs[h],
         j.pc \in (Issuing \cup Answering) \ ReceiptPcs \/ j.doc[1] = "note",
         j.pc \notin {"check", "create"}
  PROVE  /\ j.doc[1] = "note" /\ NoteJob(j) /\ IsJob(j) /\ j.attempt \in Nat
         /\ j.doc[2] \in DOMAIN notes /\ j.doc = <<j.doc[1], j.doc[2]>>
  BY NoteRequestIs DEF NoteJob, OpenJob

LEMMA OpenNoteTyped ==
  ASSUME Typed, NEW h \in Handlers, OpenNote(h), UNCHANGED receipts
  PROVE  Moved(h)
<1>1. PICK j : j = jobs[h]
  OBVIOUS
<1>2. Working(h) /\ j.pc = "open" /\ UNCHANGED returns
  BY <1>1 DEF OpenNote, At
<1>3. j.doc[1] = "note" /\ j.doc[2] \in DOMAIN notes
  BY <1>1, <1>2, NoteHeld DEF Issuing, ReceiptPcs, Deciding
<1>4. PICK outcome \in Outcomes :
        /\ PutState(j.doc[2], PENDING, outcome)
        /\ Go(h, IF outcome = "ok" THEN "latest" ELSE "delete")
  BY <1>1 DEF OpenNote
<1>5. PENDING \in 0 .. 4
  BY DEF PENDING
<1>6. NotesMoved /\ faults' \in Nat
  BY <1>2, <1>3, <1>4, <1>5, PutStateTyped
<1>7. CASE outcome = "ok"
  <2>1. notes'[j.doc[2]].flow = 1
    BY <1>3, <1>4, <1>7, PutStateShows
  <2> QED
    BY <1>1, <1>2, <1>3, <1>4, <1>6, <1>7, <2>1, NoteGoes
<1>8. CASE outcome # "ok"
  BY <1>1, <1>2, <1>3, <1>4, <1>6, <1>8, NoteGoes
<1> QED
  BY <1>7, <1>8

LEMMA ReadNoteTyped ==
  ASSUME Typed, NEW h \in Handlers, ReadNote(h), UNCHANGED receipts
  PROVE  Moved(h)
<1>1. PICK j : j = jobs[h]
  OBVIOUS
<1>2. Working(h) /\ j.pc = "latest" /\ j.doc[1] = "note" /\ UNCHANGED noteVars
  BY <1>1 DEF ReadNote, At
<1>3. /\ NoteJob(j) /\ IsJob(j) /\ j.attempt \in Nat /\ j.doc = <<j.doc[1], j.doc[2]>>
      /\ j.doc[2] \in DOMAIN notes
  BY <1>1, <1>2, NoteHeld
<1>4. NotesMoved
  BY <1>2, NotesUnmoved
<1>5. PICK rev : rev = notes[j.doc[2]].rev
  OBVIOUS
<1>6. CASE UNCHANGED faults /\ Continue(h, [j EXCEPT !.pc = "submit", !.copy = rev])
  <2>1. PICK k : k = [j EXCEPT !.pc = "submit", !.copy = rev]
    OBVIOUS
  <2>2. /\ IsJob(k) /\ k.op = j.op /\ k.pc = "submit" /\ k.doc = j.doc /\ k.arg = j.arg
        /\ k.copy = rev /\ k.attempt = j.attempt /\ k.lost = j.lost /\ k.alone = j.alone
    BY <1>3, <2>1 DEF IsJob
  <2>3. NoteJob(k)
    BY <1>2, <1>3, <2>2 DEF NoteJob, Issuing, Answering
  <2>4. faults' \in Nat
    BY <1>6 DEF Typed
  <2> QED
    BY <1>1, <1>2, <1>3, <1>4, <1>6, <2>1, <2>2, <2>3, <2>4, NoteStepsOn
<1>7. CASE ReadFails(h, [j EXCEPT !.pc = "delete"])
  BY <1>1, <1>2, <1>4, <1>7, ReadFailsTyped, NoteGoes DEF Go
<1> QED
  BY <1>1, <1>5, <1>6, <1>7 DEF ReadNote

LEMMA SubmitNoteTyped ==
  ASSUME Typed, NEW h \in Handlers, SubmitNote(h), UNCHANGED receipts
  PROVE  Moved(h)
<1>1. PICK j : j = jobs[h]
  OBVIOUS
<1>2. Working(h) /\ j.pc = "submit" /\ j.doc[1] = "note" /\ UNCHANGED returns
  BY <1>1 DEF SubmitNote, At
<1>3. /\ NoteJob(j) /\ IsJob(j) /\ j.attempt \in Nat /\ j.doc = <<j.doc[1], j.doc[2]>>
      /\ j.doc[2] \in DOMAIN notes
  BY <1>1, <1>2, NoteHeld
<1>4. notes[j.doc[2]].flow = 1
  BY <1>2, <1>3 DEF NoteJob
<1>5. ASSUME UNCHANGED <<notes, faults>>, Go(h, "delete") PROVE Moved(h)
  <2>1. NotesMoved /\ faults' \in Nat
    BY <1>2, <1>5, NotesUnmoved DEF Typed, noteVars
  <2> QED
    BY <1>1, <1>2, <1>5, <2>1, NoteGoes
<1>6. ASSUME UNCHANGED <<notes, faults>>,
             Continue(h, [j EXCEPT !.pc = "latest", !.attempt = 1])
      PROVE  Moved(h)
  <2>1. PICK k : k = [j EXCEPT !.pc = "latest", !.attempt = 1]
    OBVIOUS
  <2>2. /\ IsJob(k) /\ k.op = j.op /\ k.pc = "latest" /\ k.doc = j.doc /\ k.arg = j.arg
        /\ k.copy = j.copy /\ k.attempt = 1 /\ k.lost = j.lost /\ k.alone = j.alone
    BY <1>3, <2>1 DEF IsJob
  <2>3. NoteJob(k)
    BY <1>2, <1>3, <2>2 DEF NoteJob, Issuing, Answering
  <2>4. NotesMoved /\ faults' \in Nat
    BY <1>2, <1>6, NotesUnmoved DEF Typed, noteVars
  <2>5. Continue(h, k) /\ k.attempt \in Nat
    BY <1>6, <2>1, <2>2
  <2> QED
    BY <1>1, <1>2, <1>3, <2>2, <2>3, <2>4, <2>5, NoteStepsOn
<1>7. ASSUME NEW outcome \in Outcomes,
             outcome # "refused" => notes[j.doc[2]].status = "draft",
             Answered(outcome, notes[j.doc[2]].status # "draft"),
             IF outcome = "refused" THEN UNCHANGED notes
             ELSE StoredNote(j.doc[2], [notes[j.doc[2]] EXCEPT !.status = "submitted"]),
             AfterSubmitNote(h, outcome)
      PROVE  Moved(h)
  <2>1. faults' \in Nat
    BY <1>7, FaultsTyped
  <2>2. NotesMoved
    <3>1. CASE outcome = "refused"
      BY <1>2, <1>7, <3>1, NotesUnmoved DEF noteVars
    <3>2. CASE outcome # "refused"
      <4>1. /\ notes[j.doc[2]].status \in LiveStatus
            /\ StoredNote(j.doc[2], [notes[j.doc[2]] EXCEPT !.status = "submitted"])
        BY <1>7, <3>2 DEF LiveStatus
      <4> QED
        BY <1>2, <1>3, <1>4, <4>1, NoteStatusWritten
    <3> QED
      BY <3>1, <3>2
  <2>3. CASE outcome = "ok"
    <3>1. EndLine(h, "ok")
      BY <1>7, <2>3 DEF AfterSubmitNote
    <3> QED
      BY <1>1, <1>2, <2>1, <2>2, <3>1, EndLineTyped DEF Issuing
  <2>4. CASE outcome # "ok"
    <3>1. Go(h, "delete")
      BY <1>7, <2>4 DEF AfterSubmitNote
    <3> QED
      BY <1>1, <1>2, <2>1, <2>2, <3>1, NoteGoes
  <2> QED
    BY <2>3, <2>4
<1> QED
  BY <1>1, <1>5, <1>6, <1>7 DEF SubmitNote

LEMMA DeleteNoteTyped ==
  ASSUME Typed, NEW h \in Handlers, DeleteNote(h), UNCHANGED receipts
  PROVE  Moved(h)
<1>1. PICK j : j = jobs[h]
  OBVIOUS
<1>2. Working(h) /\ j.pc = "delete" /\ UNCHANGED returns
  BY <1>1 DEF DeleteNote, At
<1>3. j.doc[1] = "note" /\ j.doc[2] \in DOMAIN notes
  BY <1>1, <1>2, NoteHeld DEF Issuing, ReceiptPcs, Deciding
<1>4. PICK outcome \in Outcomes :
        /\ outcome # "refused" => notes[j.doc[2]].status = "draft"
        /\ Answered(outcome, notes[j.doc[2]].status # "draft")
        /\ IF outcome = "refused" THEN UNCHANGED notes
           ELSE StoredNote(j.doc[2], [notes[j.doc[2]] EXCEPT !.status = "deleted"])
        /\ EndLine(h, IF outcome = "refused" THEN "lost" ELSE "error")
  BY <1>1 DEF DeleteNote
<1>5. faults' \in Nat
  BY <1>4, FaultsTyped
<1>6. NotesMoved
  BY <1>2, <1>3, <1>4, NoteStatusWritten, NotesUnmoved DEF noteVars, LiveStatus
<1> QED
  BY <1>1, <1>2, <1>3, <1>4, <1>5, <1>6, EndLineTyped DEF Issuing

LEMMA AnswerTyped ==
  ASSUME Typed, NEW h \in Handlers, NEW n, NEW c, NEW answer, Answer(h, n, c, answer),
         UNCHANGED receipts
  PROVE  Moved(h)
<1>1. PICK arg : arg = [mode |-> answer.mode, returned |-> answer.returned, customer |-> c]
  OBVIOUS
<1>2. n \in DOMAIN notes /\ Begin(h, "answer", "get", Note(n), arg) /\ UNCHANGED noteVars
  BY <1>1 DEF Answer, Exists
<1>3. /\ OthersKept(h) /\ jobs'[h] = NewJob(h, "answer", "get", Note(n), arg)
      /\ requests' \in Nat /\ faults' \in Nat /\ desk' \in Nat
  BY <1>2, Begins
<1>4. PICK k : k = NewJob(h, "answer", "get", Note(n), arg)
  OBVIOUS
<1>5. /\ IsJob(k) /\ k.attempt \in Nat /\ k.lost \in BOOLEAN /\ k.alone \in BOOLEAN
      /\ k.op = "answer" /\ k.pc = "get" /\ k.doc = Note(n)
  BY <1>4, FreshJob
<1>6. n \in DOMAIN notes'
  BY <1>2 DEF noteVars
<1>7. OpenJob(k)'
  BY <1>5, <1>6 DEF OpenJob, NoteJob, Issuing, Answering, Note
<1> QED
  BY <1>2, <1>3, <1>4, <1>7, NotesUnmoved, NotesMove

\* What normalize_customer_delivery_decision makes of an answer.
LEMMA NormalizedIs ==
  ASSUME NEW doc \in NoteType, NEW answer, NEW d, d = Normalized(doc, answer), d # None
  PROVE  /\ d.state \in {REJECTED, CONFIRMED, PARTIAL} /\ doc.status = "submitted"
         /\ d.accepted \in Nat /\ d.returned \in 0 .. doc.qty
         /\ d.state = CONFIRMED => d.returned = 0
         /\ d.state = REJECTED => d.returned = doc.qty /\ d.returned > 0
         /\ d.state = PARTIAL => d.returned > 0
<1>1. doc.qty \in Nat
  BY DEF NoteType
<1>2. REJECTED # CONFIRMED /\ REJECTED # PARTIAL /\ CONFIRMED # PARTIAL
  BY DEF REJECTED, CONFIRMED, PARTIAL
<1>3. \A state, accepted, returned :
        LET e == Decision(state, accepted, returned)
        IN  e.state = state /\ e.accepted = accepted /\ e.returned = returned
  BY DEF Decision
<1>4. StatusOf(doc) \in {"pending", "accepted"} => doc.status = "submitted"
  BY DEF StatusOf
<1>5. CASE doc.qty > 0 /\ StatusOf(doc) = "pending" /\ d = Decision(CONFIRMED, doc.qty, 0)
  BY <1>1, <1>2, <1>3, <1>4, <1>5
<1>6. CASE /\ doc.qty > 0 /\ StatusOf(doc) \in {"pending", "accepted"}
           /\ d = Decision(REJECTED, 0, doc.qty)
  BY <1>1, <1>2, <1>3, <1>4, <1>6
<1>7. ASSUME NEW back \in 1 .. doc.qty, StatusOf(doc) \in {"pending", "accepted"},
             d = Decision(PARTIAL, doc.qty - back, back)
      PROVE  /\ d.state = PARTIAL /\ doc.status = "submitted"
             /\ d.accepted \in Nat /\ d.returned \in 1 .. doc.qty
  BY <1>1, <1>3, <1>4, <1>7
<1>8. \/ doc.qty > 0 /\ StatusOf(doc) = "pending" /\ d = Decision(CONFIRMED, doc.qty, 0)
      \/ /\ doc.qty > 0 /\ StatusOf(doc) \in {"pending", "accepted"}
         /\ d = Decision(REJECTED, 0, doc.qty)
      \/ \E back \in 1 .. doc.qty : /\ StatusOf(doc) \in {"pending", "accepted"}
                                    /\ d = Decision(PARTIAL, doc.qty - back, back)
  <2>1. \A back : back \in 1 .. doc.qty - 1 => back \in 1 .. doc.qty
    BY <1>1
  <2>2. \A back : back \in 1 .. doc.qty => doc.qty > 0
    BY <1>1
  <2> QED
    BY <2>1, <2>2 DEF Normalized
<1>9. CASE \E back \in 1 .. doc.qty : /\ StatusOf(doc) \in {"pending", "accepted"}
                                      /\ d = Decision(PARTIAL, doc.qty - back, back)
  <2>1. /\ d.state = PARTIAL /\ doc.status = "submitted"
        /\ d.accepted \in Nat /\ d.returned \in 1 .. doc.qty
    BY <1>7, <1>9
  <2> QED
    BY <1>1, <1>2, <2>1
<1> QED
  BY <1>5, <1>6, <1>8, <1>9

LEMMA GetNoteTyped ==
  ASSUME Typed, NEW h \in Handlers, GetNote(h), UNCHANGED receipts
  PROVE  Moved(h)
<1>1. PICK j : j = jobs[h]
  OBVIOUS
<1>2. Working(h) /\ j.pc = "get" /\ UNCHANGED noteVars
  BY <1>1 DEF GetNote, At
<1>3. /\ j.doc[1] = "note" /\ NoteJob(j) /\ IsJob(j) /\ j.attempt \in Nat
      /\ j.doc = <<j.doc[1], j.doc[2]>> /\ j.doc[2] \in DOMAIN notes
  BY <1>1, <1>2, NoteHeld DEF Answering, ReceiptPcs, Deciding
<1>4. NotesMoved
  BY <1>2, NotesUnmoved
<1>5. PICK doc : doc = notes[j.doc[2]]
  OBVIOUS
<1>6. PICK d : d = Normalized(doc, j.arg)
  OBVIOUS
<1>7. CASE ReadFails(h, Idle("error"))
  BY <1>4, <1>7, ReadFailsTyped, NoteEnds DEF Finish
<1>8. CASE UNCHANGED faults /\ Finish(h, "error")
  BY <1>4, <1>8, NoteEnds DEF Typed
<1>9. ASSUME UNCHANGED faults, d # None, NEW pc, pc = (IF d.returned > 0 THEN "map" ELSE "remarks"),
             Continue(h, [j EXCEPT !.copy = doc, !.arg = d, !.pc = pc])
      PROVE  Moved(h)
  <2>1. PICK k : k = [j EXCEPT !.copy = doc, !.arg = d, !.pc = pc]
    OBVIOUS
  <2>2. /\ IsJob(k) /\ k.op = j.op /\ k.pc = pc /\ k.doc = j.doc /\ k.arg = d
        /\ k.copy = doc /\ k.attempt = j.attempt /\ k.lost = j.lost /\ k.alone = j.alone
    BY <1>3, <2>1 DEF IsJob
  <2>3. doc \in NoteType
    BY <1>3, <1>5, NoteIs
  <2>4. /\ d.state \in {REJECTED, CONFIRMED, PARTIAL} /\ d.accepted \in Nat
        /\ d.returned \in 0 .. doc.qty /\ doc.qty \in Nat
    BY <1>6, <1>9, <2>3, NormalizedIs DEF NoteType
  <2>5. d.returned \in Nat
    BY <2>4
  <2>6. NoteJob(k)
    BY <1>2, <1>3, <1>9, <2>2, <2>4, <2>5 DEF NoteJob, Issuing, Answering
  <2>7. faults' \in Nat
    BY <1>9 DEF Typed
  <2>8. Continue(h, k)
    BY <1>9, <2>1
  <2> QED
    BY <1>1, <1>2, <1>3, <1>4, <2>2, <2>6, <2>7, <2>8, NoteStepsOn
<1> QED
  BY <1>1, <1>5, <1>6, <1>7, <1>8, <1>9 DEF GetNote

LEMMA ReturnedIs ==
  ASSUME Typed, NEW n
  PROVE  Returned(n) \in Nat /\ returns \in Seq(ReturnType)
  BY TotalTyped DEF Typed, ReturnsTyped, Returned

LEMMA MapReturnTyped ==
  ASSUME Typed, NEW h \in Handlers, MapReturn(h), UNCHANGED receipts
  PROVE  Moved(h)
<1>1. PICK j : j = jobs[h]
  OBVIOUS
<1>2. Working(h) /\ j.pc = "map" /\ UNCHANGED noteVars
  BY <1>1 DEF MapReturn, At
<1>3. /\ j.doc[1] = "note" /\ NoteJob(j) /\ IsJob(j) /\ j.attempt \in Nat
      /\ j.doc = <<j.doc[1], j.doc[2]>> /\ j.doc[2] \in DOMAIN notes
  BY <1>1, <1>2, NoteHeld DEF Answering, ReceiptPcs, Deciding
<1>4. /\ j.op = "answer" /\ j.arg.state \in {REJECTED, CONFIRMED, PARTIAL}
      /\ j.arg.accepted \in Nat /\ j.arg.returned \in Nat \ {0}
  BY <1>2, <1>3 DEF NoteJob, Issuing, Answering
<1>5. NotesMoved
  BY <1>2, NotesUnmoved
<1>6. PICK left : left = notes[j.doc[2]].qty - Returned(j.doc[2])
  OBVIOUS
<1>7. left \in Int
  BY <1>3, <1>6, NoteIs, ReturnedIs DEF NoteType
<1>8. PICK back : back = QtyBack(j.copy.qty, left, j.arg.returned)
  OBVIOUS
<1>9. PICK arg : arg = [state |-> j.arg.state, accepted |-> j.arg.accepted,
                        returned |-> j.arg.returned, back |-> back]
  OBVIOUS
<1>10. CASE ReadFails(h, Idle("error"))
  BY <1>5, <1>10, ReadFailsTyped, NoteEnds DEF Finish
<1>11. CASE UNCHANGED faults /\ Finish(h, Failure(h))
  BY <1>5, <1>11, NoteEnds DEF Typed
<1>12. ASSUME UNCHANGED faults, left > 0, Continue(h, [j EXCEPT !.pc = "insert", !.arg = arg])
       PROVE  Moved(h)
  <2>1. PICK k : k = [j EXCEPT !.pc = "insert", !.arg = arg]
    OBVIOUS
  <2>2. /\ IsJob(k) /\ k.op = j.op /\ k.pc = "insert" /\ k.doc = j.doc /\ k.arg = arg
        /\ k.copy = j.copy /\ k.attempt = j.attempt /\ k.lost = j.lost /\ k.alone = j.alone
    BY <1>3, <2>1 DEF IsJob
  <2>3. back \in Nat \ {0}
    BY <1>4, <1>7, <1>8, <1>12 DEF QtyBack
  <2>4. /\ arg.state \in {REJECTED, CONFIRMED, PARTIAL} /\ arg.back = back
        /\ arg.accepted \in Nat /\ arg.returned \in Nat
    BY <1>4, <1>9
  <2>5. NoteJob(k)
    BY <1>3, <1>4, <2>2, <2>3, <2>4 DEF NoteJob, Issuing, Answering
  <2>6. faults' \in Nat
    BY <1>12 DEF Typed
  <2>7. Continue(h, k)
    BY <1>12, <2>1
  <2> QED
    BY <1>1, <1>2, <1>3, <1>5, <2>2, <2>5, <2>6, <2>7, NoteStepsOn
<1> QED
  BY <1>1, <1>6, <1>7, <1>8, <1>9, <1>10, <1>11, <1>12 DEF MapReturn

LEMMA ReturnsWritten ==
  ASSUME Typed, UNCHANGED notes, returns' \in Seq(ReturnType), Len(returns) <= Len(returns'),
         \A r \in DOMAIN returns' : returns'[r].of \in DOMAIN notes
  PROVE  NotesMoved
<1>1. NotesTyped' /\ NotesKept
  <2>1. Len(notes) \in Nat
    BY DEF Typed, NotesTyped
  <2> QED
    BY <2>1 DEF Typed, NotesTyped, NotesKept, Later
<1>2. returns \in Seq(ReturnType)
  BY DEF Typed, ReturnsTyped
<1>3. ReturnsKept
  BY <1>2 DEF ReturnsKept
<1> QED
  BY <1>1, <1>3 DEF NotesMoved, ReturnsTyped

\* The return notes there may be of a note.
LEMMA ReturnAdded ==
  ASSUME Typed, NEW n \in DOMAIN notes, NEW back \in Nat, NEW r,
         r = [of |-> n, qty |-> back, status |-> "draft"]
  PROVE  LET rs == Append(returns, r)
         IN  /\ rs \in Seq(ReturnType) /\ Len(rs) = Len(returns) + 1 /\ rs[Len(rs)] = r
             /\ \A i \in 1 .. Len(returns) : rs[i] = returns[i]
             /\ \A i \in DOMAIN rs : rs[i].of \in DOMAIN notes
<1>1. n \in Nat /\ returns \in Seq(ReturnType)
  BY NoteIs DEF Typed, ReturnsTyped
<1>2. r \in ReturnType /\ r.of = n
  BY <1>1 DEF ReturnType
<1>3. PICK rs : rs = Append(returns, r)
  OBVIOUS
<1>4. /\ rs \in Seq(ReturnType) /\ Len(rs) = Len(returns) + 1 /\ rs[Len(rs)] = r
      /\ \A i \in 1 .. Len(returns) : rs[i] = returns[i]
      /\ DOMAIN returns = 1 .. Len(returns) /\ DOMAIN rs = 1 .. Len(returns) + 1
      /\ Len(returns) \in Nat
  BY <1>1, <1>2, <1>3
<1>5. ASSUME NEW i \in DOMAIN rs PROVE rs[i].of \in DOMAIN notes
  <2>1. CASE i \in 1 .. Len(returns)
    BY <1>4, <2>1 DEF Typed, ReturnsTyped
  <2>2. CASE i = Len(rs)
    BY <1>2, <1>4, <2>2
  <2> QED
    BY <1>4, <2>1, <2>2
<1> QED
  BY <1>3, <1>4, <1>5

LEMMA InsertReturnTyped ==
  ASSUME Typed, NEW h \in Handlers, InsertReturn(h), UNCHANGED receipts
  PROVE  Moved(h)
<1>1. PICK j : j = jobs[h]
  OBVIOUS
<1>2. Working(h) /\ j.pc = "insert" /\ UNCHANGED notes
  BY <1>1 DEF InsertReturn, At
<1>3. /\ j.doc[1] = "note" /\ NoteJob(j) /\ IsJob(j) /\ j.attempt \in Nat
      /\ j.doc = <<j.doc[1], j.doc[2]>> /\ j.doc[2] \in DOMAIN notes
  BY <1>1, <1>2, NoteHeld DEF Answering, ReceiptPcs, Deciding
<1>4. /\ j.op = "answer" /\ j.arg.state \in {REJECTED, CONFIRMED, PARTIAL}
      /\ j.arg.accepted \in Nat /\ j.arg.returned \in Nat /\ j.arg.back \in Nat \ {0}
  BY <1>2, <1>3 DEF NoteJob, Issuing, Answering
<1>5. PICK r : r = [of |-> j.doc[2], qty |-> j.arg.back, status |-> "draft"]
  OBVIOUS
<1>6. \E outcome \in Outcomes :
        /\ faults' \in Nat
        /\ returns' = IF outcome = "refused" THEN returns ELSE Append(returns, r)
        /\ CASE outcome = "ok" ->
                  Continue(h, [j EXCEPT !.pc = "book", !.attempt = Len(returns) + 1])
             [] outcome = "lost" -> Finish(h, "lost")
             [] OTHER -> Finish(h, "error")
  BY <1>1, <1>5, FaultsTyped DEF InsertReturn
<1>7. PICK outcome \in Outcomes :
        /\ faults' \in Nat
        /\ returns' = IF outcome = "refused" THEN returns ELSE Append(returns, r)
        /\ CASE outcome = "ok" ->
                  Continue(h, [j EXCEPT !.pc = "book", !.attempt = Len(returns) + 1])
             [] outcome = "lost" -> Finish(h, "lost")
             [] OTHER -> Finish(h, "error")
  BY <1>6
<1>8. faults' \in Nat
  BY <1>7
<1>9. CASE outcome = "refused"
  BY <1>2, <1>7, <1>8, <1>9, NotesUnmoved, NoteEnds DEF noteVars
<1>10. CASE outcome # "refused"
  <2>1. returns' = Append(returns, r) /\ Len(returns) \in Nat
    BY <1>7, <1>10 DEF Typed, ReturnsTyped
  <2>2. /\ returns' \in Seq(ReturnType) /\ Len(returns') = Len(returns) + 1
        /\ \A i \in DOMAIN returns' : returns'[i].of \in DOMAIN notes
    BY <1>3, <1>4, <1>5, <2>1, ReturnAdded
  <2>3. NotesMoved
    BY <1>2, <2>1, <2>2, ReturnsWritten
  <2>4. CASE outcome = "lost"
    BY <1>7, <1>8, <2>3, <2>4, NoteEnds
  <2>5. CASE outcome = "ok"
    <3>1. PICK m : m = Len(returns) + 1
      OBVIOUS
    <3>2. PICK k : k = [j EXCEPT !.pc = "book", !.attempt = m]
      OBVIOUS
    <3>3. Continue(h, k)
      BY <1>7, <2>5, <3>1, <3>2
    <3>4. /\ IsJob(k) /\ k.op = j.op /\ k.pc = "book" /\ k.doc = j.doc /\ k.arg = j.arg
          /\ k.copy = j.copy /\ k.attempt = m /\ k.lost = j.lost /\ k.alone = j.alone
      BY <1>3, <3>2 DEF IsJob
    <3>5. m \in Nat /\ m \in DOMAIN returns' /\ j.doc[2] \in DOMAIN notes'
      BY <1>2, <1>3, <2>1, <2>2, <3>1
    <3>6. NoteJob(k)'
      BY <1>4, <3>4, <3>5 DEF NoteJob, Issuing, Answering
    <3> QED
      BY <1>1, <1>2, <1>3, <1>8, <2>3, <3>3, <3>4, <3>5, <3>6, NoteStepsOn
  <2> QED
    BY <1>10, <2>4, <2>5 DEF Outcomes
<1> QED
  BY <1>9, <1>10

LEMMA BookReturnTyped ==
  ASSUME Typed, NEW h \in Handlers, BookReturn(h), UNCHANGED receipts
  PROVE  Moved(h)
<1>1. PICK j : j = jobs[h]
  OBVIOUS
<1>2. Working(h) /\ j.pc = "book" /\ UNCHANGED notes
  BY <1>1 DEF BookReturn, At
<1>3. j.doc[1] = "note" /\ j.attempt \in DOMAIN returns
  BY <1>1, <1>2, NoteHeld DEF Answering, ReceiptPcs, Deciding, NoteJob
<1>4. PICK r : r = j.attempt
  OBVIOUS
<1>5. \E outcome \in Outcomes :
        /\ faults' \in Nat
        /\ returns' = IF outcome = "refused" THEN returns
                      ELSE [returns EXCEPT ![r].status = "submitted"]
        /\ IF outcome = "ok" THEN Go(h, "remarks") ELSE Finish(h, "lost")
  BY <1>1, <1>4, FaultsTyped DEF BookReturn
<1>6. PICK outcome \in Outcomes :
        /\ faults' \in Nat
        /\ returns' = IF outcome = "refused" THEN returns
                      ELSE [returns EXCEPT ![r].status = "submitted"]
        /\ IF outcome = "ok" THEN Go(h, "remarks") ELSE Finish(h, "lost")
  BY <1>5
<1>7. faults' \in Nat
  BY <1>6
<1>8. NotesMoved
  <2>1. CASE outcome = "refused"
    BY <1>2, <1>6, <2>1, NotesUnmoved DEF noteVars
  <2>2. CASE outcome # "refused"
    <3>1. PICK new : new = [returns[r] EXCEPT !.status = "submitted"]
      OBVIOUS
    <3>2. returns' = [returns EXCEPT ![r] = new]
      BY <1>6, <2>2, <3>1
    <3>3. returns \in Seq(ReturnType) /\ \A i \in DOMAIN returns : returns[i].of \in DOMAIN notes
      BY DEF Typed, ReturnsTyped
    <3>4. returns[r] \in ReturnType
      BY <1>3, <1>4, <3>3
    <3>5. new \in ReturnType /\ new.of = returns[r].of
      BY <3>1, <3>4 DEF ReturnType
    <3>6. /\ returns' \in Seq(ReturnType) /\ Len(returns') = Len(returns)
          /\ DOMAIN returns' = DOMAIN returns /\ Len(returns) \in Nat
      <4>1. r \in DOMAIN returns /\ returns \in Seq(ReturnType)
        BY <1>3, <1>4, <3>3
      <4>2. new \in ReturnType
        BY <3>5
      <4> HIDE DEF ReturnType
      <4> QED
        BY <3>2, <4>1, <4>2
    <3>7. \A i \in DOMAIN returns : returns'[i] = IF i = r THEN new ELSE returns[i]
      BY <3>2, <3>3
    <3>8. \A i \in DOMAIN returns' : returns'[i].of \in DOMAIN notes
      BY <1>3, <1>4, <3>3, <3>5, <3>6, <3>7
    <3> QED
      BY <1>2, <3>6, <3>8, ReturnsWritten
  <2> QED
    BY <2>1, <2>2
<1>9. CASE outcome = "ok"
  BY <1>1, <1>2, <1>3, <1>6, <1>7, <1>8, <1>9, NoteGoes
<1>10. CASE outcome # "ok"
  BY <1>6, <1>7, <1>8, <1>10, NoteEnds
<1> QED
  BY <1>9, <1>10

LEMMA WriteRemarksTyped ==
  ASSUME Typed, NEW h \in Handlers, WriteRemarks(h), UNCHANGED receipts
  PROVE  Moved(h)
<1>1. PICK j : j = jobs[h]
  OBVIOUS
<1>2. Working(h) /\ j.pc = "remarks" /\ UNCHANGED returns
  BY <1>1 DEF WriteRemarks, At
<1>3. j.doc[1] = "note" /\ j.doc[2] \in DOMAIN notes /\ NoteJob(j)
  BY <1>1, <1>2, NoteHeld DEF Answering, ReceiptPcs, Deciding
<1>4. j.arg.accepted \in Nat /\ j.arg.returned \in Nat
  BY <1>2, <1>3 DEF NoteJob, Answering
<1>5. PICK d : d = [accepted |-> j.arg.accepted, returned |-> j.arg.returned]
  OBVIOUS
<1>6. CASE Go(h, "state") /\ UNCHANGED <<notes, faults>>
  <2>1. NotesMoved /\ faults' \in Nat
    BY <1>2, <1>6, NotesUnmoved DEF Typed, noteVars
  <2> QED
    BY <1>1, <1>2, <1>3, <1>6, <2>1, NoteGoes
<1>7. ASSUME NEW outcome \in Outcomes,
             PutFields(j.doc[2], [notes[j.doc[2]] EXCEPT !.decision = d], outcome),
             IF outcome = "ok" THEN Go(h, "state") ELSE Finish(h, "lost")
      PROVE  Moved(h)
  <2>1. PICK doc : doc = [notes[j.doc[2]] EXCEPT !.decision = d]
    OBVIOUS
  <2>2. d \in [accepted : Nat, returned : Nat]
    BY <1>4, <1>5
  <2>3. doc \in NoteType /\ Later(notes[j.doc[2]], doc)
    <3>1. PICK n : n = notes[j.doc[2]]
      OBVIOUS
    <3>2. n \in NoteType /\ doc = [n EXCEPT !.decision = d]
      BY <1>3, <2>1, <3>1, NoteIs
    <3>3. d \in {None} \cup [accepted : Nat, returned : Nat]
      BY <2>2
    <3>4. doc \in NoteType /\ Later(n, doc)
      BY <3>2, <3>3 DEF NoteType, Later
    <3> QED
      BY <3>1, <3>4
  <2>4. NotesMoved /\ faults' \in Nat
    BY <1>2, <1>3, <1>7, <2>1, <2>3, PutFieldsTyped
  <2>5. CASE outcome = "ok"
    BY <1>1, <1>2, <1>3, <1>7, <2>4, <2>5, NoteGoes
  <2>6. CASE outcome # "ok"
    BY <1>7, <2>4, <2>6, NoteEnds
  <2> QED
    BY <2>5, <2>6
<1> QED
  BY <1>1, <1>5, <1>6, <1>7 DEF WriteRemarks

LEMMA WriteStateTyped ==
  ASSUME Typed, NEW h \in Handlers, WriteState(h), UNCHANGED receipts
  PROVE  Moved(h)
<1>1. PICK j : j = jobs[h]
  OBVIOUS
<1>2. Working(h) /\ j.pc = "state" /\ UNCHANGED returns
  BY <1>1 DEF WriteState, At
<1>3. j.doc[2] \in DOMAIN notes /\ j.arg.state \in {REJECTED, CONFIRMED, PARTIAL}
  BY <1>1, <1>2, NoteHeld DEF NoteJob, Answering, ReceiptPcs, Deciding
<1>4. PICK outcome \in Outcomes :
        /\ PutState(j.doc[2], j.arg.state, outcome)
        /\ Finish(h, IF outcome = "ok" THEN "ok" ELSE "lost")
  BY <1>1 DEF WriteState
<1>5. j.arg.state \in 0 .. 4
  BY <1>3 DEF REJECTED, CONFIRMED, PARTIAL
<1>6. NotesMoved /\ faults' \in Nat
  BY <1>2, <1>3, <1>4, <1>5, PutStateTyped
<1> QED
  BY <1>4, <1>6, NoteEnds

LEMMA NoteStepTyped ==
  ASSUME Typed, NEW h \in Handlers, NoteStep(h), UNCHANGED receipts
  PROVE  Moved(h)
<1>1. CASE \E lines \in IssueRequests : Issue(h, lines)
  BY <1>1, IssueTyped
<1>2. CASE CheckSource(h) \/ CreateNote(h) \/ OpenNote(h)
  BY <1>2, CheckSourceTyped, CreateNoteTyped, OpenNoteTyped
<1>3. CASE ReadNote(h) \/ SubmitNote(h) \/ DeleteNote(h)
  BY <1>3, ReadNoteTyped, SubmitNoteTyped, DeleteNoteTyped
<1>4. CASE \E n \in 1 .. MaxNotes, c \in Customers, answer \in Responses : Answer(h, n, c, answer)
  BY <1>4, AnswerTyped
<1>5. CASE GetNote(h) \/ MapReturn(h) \/ InsertReturn(h)
  BY <1>5, GetNoteTyped, MapReturnTyped, InsertReturnTyped
<1>6. CASE BookReturn(h) \/ WriteRemarks(h) \/ WriteState(h)
  BY <1>6, BookReturnTyped, WriteRemarksTyped, WriteStateTyped
<1> QED
  BY <1>1, <1>2, <1>3, <1>4, <1>5, <1>6 DEF NoteStep

-----------------------------------------------------------------------------
(***************************************************************************)
(* Users of the ERPNext desk, requests that are dropped, and the type      *)
(* invariant.                                                              *)
(***************************************************************************)
\* Nobody's request moves: all of them are the same, or not alone any more.
AllKept == jobs' = [g \in Handlers |-> jobs'[g]] /\ \A g \in Handlers : SameJob(g)

LEMMA DeskTyped ==
  ASSUME Typed, NEW doc, DeskActs(doc), ReceiptsTyped', ReceiptsKept, NotesMoved
  PROVE  Typed' /\ Kept /\ AllKept
<1>1. PICK js : js = Disturb(jobs, doc)
  OBVIOUS
<1>2. jobs' = js /\ desk' = desk + 1 /\ UNCHANGED <<requests, faults>>
  BY <1>1 DEF DeskActs
<1>3. AllKept
  BY <1>1, <1>2, Disturbed DEF AllKept, SameJob
<1>4. Kept
  BY DEF Kept, NotesMoved
<1>5. ASSUME NEW g \in Handlers, Working(g)' PROVE OpenJob(jobs[g])'
  <2>1. CASE jobs'[g] = jobs[g]
    <3>1. Working(g)
      BY <1>5, <2>1 DEF Working
    <3>2. PICK j : j = jobs[g]
      OBVIOUS
    <3>3. OpenJob(j)'
      BY <1>4, <3>1, <3>2, OpenJobKept DEF Typed
    <3> QED
      BY <2>1, <3>2, <3>3
  <2>2. CASE Working(g) /\ jobs'[g] = [jobs[g] EXCEPT !.alone = FALSE]
    <3>1. PICK j : j = jobs'[g]
      OBVIOUS
    <3>2. OpenJob(j)
      BY <2>2, <3>1, SameJobOpen DEF Typed
    <3>3. OpenJob(j)'
      BY <1>4, <3>2, OpenJobKept
    <3> QED
      BY <3>1, <3>3
  <2> QED
    BY <1>3, <2>1, <2>2 DEF AllKept, SameJob
<1> QED
  BY <1>2, <1>3, <1>4, <1>5 DEF Typed, AllKept, NotesMoved

LEMMA DeskReceiptTyped ==
  ASSUME Typed, NEW n, DeskReceipt(n), UNCHANGED noteVars
  PROVE  Typed' /\ Kept /\ AllKept
<1>1. n \in DOMAIN receipts /\ DeskActs(Receipt(n))
  BY DEF DeskReceipt
<1>2. receipts[n] \in ReceiptType /\ Fits(receipts[n])
  BY <1>1, ReceiptIs
<1>3. \/ StoredReceipt(n, receipts[n])
      \/ StoredReceipt(n, [receipts[n] EXCEPT !.status = "cancelled"])
  BY DEF DeskReceipt
<1>4. ReceiptsTyped' /\ ReceiptsKept
  BY <1>1, <1>2, <1>3, ReceiptWritten, StatusWritten
<1> QED
  BY <1>1, <1>4, NotesUnmoved, DeskTyped

LEMMA DeskNoteTyped ==
  ASSUME Typed, NEW n, DeskNote(n), UNCHANGED receipts
  PROVE  Typed' /\ Kept /\ AllKept
<1>1. n \in DOMAIN notes /\ DeskActs(Note(n)) /\ UNCHANGED returns
  BY DEF DeskNote, Exists
<1>2. notes[n] \in NoteType /\ Later(notes[n], notes[n])
  BY <1>1, NoteIs DEF Later
<1>3. \/ StoredNote(n, notes[n])
      \/ StoredNote(n, [notes[n] EXCEPT !.status = "cancelled"])
  BY DEF DeskNote
<1>4. NotesMoved
  BY <1>1, <1>2, <1>3, NoteWritten, NoteStatusWritten DEF LiveStatus
<1> QED
  BY <1>1, <1>4, ReceiptsSame, DeskTyped

LEMMA DroppedTyped ==
  ASSUME Typed, NEW h \in Handlers, Dropped(h), UNCHANGED <<receipts, noteVars>>
  PROVE  Moved(h)
<1>1. faults' \in Nat /\ Finish(h, "lost")
  BY DEF Dropped, Typed
<1> QED
  BY <1>1, ReceiptsSame, ReceiptEnds

LEMMA InitTyped ==
  ASSUME Init
  PROVE  Typed
<1>1. /\ jobs = [h \in Handlers |-> Idle("ok")] /\ requests = 0 /\ faults = 0 /\ desk = 0
      /\ receipts = <<>> /\ notes = <<>> /\ returns = <<>>
  BY DEF Init, RequestsInit
<1>2. \A h \in Handlers : ~Working(h)
  BY <1>1 DEF Working, Idle
<1>3. ReceiptsTyped /\ NotesTyped /\ ReturnsTyped
  BY <1>1, ReceiptsAssumption, NotesAssumption DEF ReceiptsTyped, NotesTyped, ReturnsTyped
<1>4. jobs = [h \in Handlers |-> jobs[h]]
  BY <1>1
<1> QED
  BY <1>1, <1>2, <1>3, <1>4 DEF Typed

LEMMA StutterTyped ==
  ASSUME Typed, UNCHANGED vars
  PROVE  Typed'
<1>1. /\ UNCHANGED <<jobs, requests, faults, desk>> /\ UNCHANGED receipts /\ UNCHANGED noteVars
  BY DEF vars, requestVars
<1>2. ReceiptsTyped' /\ NotesMoved
  BY <1>1, ReceiptsSame, NotesUnmoved
<1>3. ASSUME NEW h \in Handlers, Working(h)' PROVE OpenJob(jobs[h])'
  <2>1. PICK j : j = jobs[h]
    OBVIOUS
  <2>2. OpenJob(j)
    BY <1>1, <1>3, <2>1, RequestIs DEF Working
  <2>3. OpenJob(j)'
    BY <1>1, <1>2, <2>2, ReceiptsSame, OpenJobKept DEF Kept, NotesMoved
  <2> QED
    BY <1>1, <2>1, <2>3
<1> QED
  BY <1>1, <1>2, <1>3 DEF Typed, NotesMoved

LEMMA StepTyped ==
  ASSUME Typed, [Next]_vars
  PROVE  Typed'
<1>1. ASSUME NEW h \in Handlers, ReceiptStep(h), UNCHANGED noteVars PROVE Typed'
  BY <1>1, ReceiptStepTyped DEF Moved
<1>2. ASSUME NEW h \in Handlers, NoteStep(h), UNCHANGED receipts PROVE Typed'
  BY <1>2, NoteStepTyped DEF Moved
<1>3. ASSUME NEW h \in Handlers, Dropped(h), UNCHANGED <<receipts, noteVars>> PROVE Typed'
  BY <1>3, DroppedTyped DEF Moved
<1>4. ASSUME NEW n, DeskReceipt(n), UNCHANGED noteVars PROVE Typed'
  BY <1>4, DeskReceiptTyped
<1>5. ASSUME NEW n, DeskNote(n), UNCHANGED receipts PROVE Typed'
  BY <1>5, DeskNoteTyped
<1> QED
  BY <1>1, <1>2, <1>3, <1>4, <1>5, StutterTyped DEF Next

THEOREM StockTyped == Spec => []Typed
<1>1. Init => Typed
  BY InitTyped
<1>2. Typed /\ [Next]_vars => Typed'
  BY StepTyped
<1> QED
  BY <1>1, <1>2, PTL DEF Spec

LEMMA TypedIsTypeOK ==
  ASSUME Typed
  PROVE  TypeOK
<1>1. TypeOfReceipts
  BY DEF Typed, ReceiptsTyped, ReceiptType, RemarksType, TypeOfReceipts
<1>2. TypeOfNotes
  BY DEF Typed, NotesTyped, ReturnsTyped, NoteType, ReturnType, TypeOfNotes
<1>3. ASSUME NEW h \in Handlers, Working(h)
      PROVE  /\ jobs[h].op \in {"dispatch", "unannounced", "confirm", "respond", "ack",
                                "issue", "answer"}
             /\ jobs[h].attempt \in Nat /\ {jobs[h].lost, jobs[h].alone} \subseteq BOOLEAN
  <2>1. OpenJob(jobs[h])
    BY <1>3, RequestIs
  <2>2. /\ jobs[h].attempt \in Nat /\ jobs[h].lost \in BOOLEAN
        /\ jobs[h].alone \in BOOLEAN
    BY <2>1 DEF OpenJob
  <2>3. ReceiptJob(jobs[h]) \/ NoteJob(jobs[h])
    BY <2>1 DEF OpenJob
  <2>4. jobs[h].op \in ReceiptOps \cup {"issue", "answer"}
    BY <2>3 DEF ReceiptJob, NoteJob
  <2>5. {jobs[h].lost, jobs[h].alone} \subseteq BOOLEAN
    BY <2>2, Zenon
  <2> QED
    BY <2>2, <2>4, <2>5 DEF ReceiptOps
<1>4. {requests, faults, desk} \subseteq Nat
  BY DEF Typed
<1> QED
  BY <1>1, <1>2, <1>3, <1>4 DEF TypeOK

-----------------------------------------------------------------------------
(***************************************************************************)
(* What follows from the types.                                            *)
(***************************************************************************)
(* Documents keep the fields that they have and every open request is at a *)
(* step of its own kind, on a document that is there, however the requests *)
(* and the users of ERPNext overlap.                                       *)
THEOREM StockTypeCorrect == Spec => []TypeOK
<1>1. Typed => TypeOK
  BY TypedIsTypeOK
<1> QED
  BY <1>1, StockTyped, PTL

(* Whichever confirmations, approvals and undone confirmations overlap on  *)
(* a delivery, no more of it is booked in than was sent: every quantity    *)
(* that is written was checked against a copy of the same document, and no *)
(* write changes what was sent.                                            *)
THEOREM ReceiptsWithinSent == Spec => []NeverMoreThanSent
<1>1. Typed => NeverMoreThanSent
  BY DEF Typed, ReceiptsTyped, Fits, NeverMoreThanSent
<1> QED
  BY <1>1, StockTyped, PTL

(* The note is opened to the customer before it is submitted and no write  *)
(* closes it again, so what is booked is what the customer can answer.     *)
THEOREM NotesVisible == Spec => []BookedIsVisible
<1>1. Typed => BookedIsVisible
  BY DEF Typed, NotesTyped, Revealed, CustomerVisible, BookedIsVisible
<1> QED
  BY <1>1, StockTyped, PTL

\* The step of a request is a step on a document of its kind.
LEMMA ReceiptStepIs ==
  ASSUME Typed, NEW h \in Handlers, ReceiptStep(h), Working(h)
  PROVE  jobs[h].doc[1] = "receipt" /\ ReceiptJob(jobs[h])
<1>1. jobs[h].pc \in ReceiptPcs \ Issuing \/ jobs[h].doc[1] = "receipt"
  BY DEF ReceiptStep, Dispatch, Unannounced, Confirm, Respond, Acknowledge, Begin,
         CreateRefused, CreateDone, MarkUnannounced, Fetch, NoteFullReturn, WriteDecision,
         ReadLatest, SubmitDecision, Undo, ReadResponse, WriteResponse, ReadAck, WriteAck,
         At, Receipt, ReceiptPcs, Issuing, Deciding
<1> QED
  BY <1>1, ReceiptRequestIs

LEMMA NoteStepIs ==
  ASSUME Typed, NEW h \in Handlers, NoteStep(h), Working(h)
  PROVE  jobs[h].doc[1] = "note" /\ NoteJob(jobs[h])
<1>1. /\ \A lines : ~Issue(h, lines)
      /\ \A n, c, answer : ~Answer(h, n, c, answer)
  BY DEF Issue, Answer, Begin
<1>2. CASE CreateNote(h) \/ ReadNote(h) \/ SubmitNote(h)
  <2>1. jobs[h].doc[1] = "note"
    BY <1>2 DEF CreateNote, ReadNote, SubmitNote, Note
  <2> QED
    BY <2>1, NoteRequestIs
<1>3. CASE \/ CheckSource(h) \/ OpenNote(h) \/ DeleteNote(h) \/ GetNote(h) \/ MapReturn(h)
           \/ InsertReturn(h) \/ BookReturn(h) \/ WriteRemarks(h) \/ WriteState(h)
  <2>1. jobs[h].pc \in {"check", "open", "delete"} \cup Answering
    BY <1>3 DEF CheckSource, OpenNote, DeleteNote, GetNote, MapReturn, InsertReturn, BookReturn,
                WriteRemarks, WriteState, At, Answering
  <2>2. jobs[h].pc \in (Issuing \cup Answering) \ ReceiptPcs
    BY <2>1 DEF Issuing, Answering, ReceiptPcs, Deciding
  <2> QED
    BY <2>2, NoteRequestIs
<1> QED
  BY <1>1, <1>2, <1>3 DEF NoteStep

\* A request that was open and is not at another step has not ended.
LEMMA OthersGoOn ==
  ASSUME Typed, NEW h \in Handlers, Working(h), SameJob(h)
  PROVE  /\ jobs'[h].op = jobs[h].op /\ jobs'[h].pc = jobs[h].pc /\ jobs'[h].doc = jobs[h].doc
         /\ jobs'[h].arg = jobs[h].arg /\ jobs'[h].copy = jobs[h].copy
         /\ jobs'[h].attempt = jobs[h].attempt /\ jobs'[h].lost = jobs[h].lost
         /\ jobs'[h].alone = jobs[h].alone \/ jobs'[h].alone = FALSE
<1>1. PICK j : j = jobs[h]
  OBVIOUS
<1>2. IsJob(j)
  BY <1>1, RequestIs
<1>3. ASSUME NEW k, k = [j EXCEPT !.alone = FALSE]
      PROVE  /\ k.op = j.op /\ k.pc = j.pc /\ k.doc = j.doc /\ k.arg = j.arg /\ k.copy = j.copy
             /\ k.attempt = j.attempt /\ k.lost = j.lost /\ k.alone = FALSE
  BY <1>2, <1>3 DEF IsJob
<1> QED
  BY <1>1, <1>3 DEF SameJob

\* Whose step it is: every other open request goes on.
LEMMA StepsOfOne ==
  ASSUME Typed, [Next]_vars
  PROVE  /\ Kept
         /\ \/ \E h \in Handlers :
                 /\ OthersKept(h)
                 /\ \/ ReceiptStep(h) /\ UNCHANGED noteVars
                    \/ NoteStep(h) /\ UNCHANGED receipts
                    \/ Dropped(h) /\ UNCHANGED <<receipts, noteVars>>
            \/ /\ AllKept
               /\ \/ \E n \in 1 .. MaxReceipts : DeskReceipt(n) /\ UNCHANGED noteVars
                  \/ \E n \in 1 .. MaxNotes : DeskNote(n) /\ UNCHANGED receipts
                  \/ UNCHANGED vars
<1>1. ASSUME NEW h \in Handlers,
             \/ ReceiptStep(h) /\ UNCHANGED noteVars
             \/ NoteStep(h) /\ UNCHANGED receipts
             \/ Dropped(h) /\ UNCHANGED <<receipts, noteVars>>
      PROVE  Kept /\ OthersKept(h)
  BY <1>1, ReceiptStepTyped, NoteStepTyped, DroppedTyped DEF Moved
<1>2. CASE UNCHANGED vars
  <2>1. UNCHANGED jobs /\ UNCHANGED receipts /\ UNCHANGED noteVars
    BY <1>2 DEF vars, requestVars
  <2>2. jobs = [g \in Handlers |-> jobs[g]]
    BY DEF Typed
  <2>3. AllKept
    BY <2>1, <2>2 DEF AllKept, SameJob
  <2>4. Kept
    BY <2>1, ReceiptsSame, NotesSame DEF Kept
  <2> QED
    BY <1>2, <2>3, <2>4
<1>3. CASE Next
  <2>1. ASSUME NEW h \in Handlers, ReceiptStep(h), UNCHANGED noteVars PROVE Kept /\ OthersKept(h)
    BY <1>1, <2>1
  <2>2. ASSUME NEW h \in Handlers, NoteStep(h), UNCHANGED receipts PROVE Kept /\ OthersKept(h)
    BY <1>1, <2>2
  <2>3. ASSUME NEW h \in Handlers, Dropped(h), UNCHANGED <<receipts, noteVars>>
        PROVE  Kept /\ OthersKept(h)
    BY <1>1, <2>3
  <2>4. ASSUME NEW n, DeskReceipt(n), UNCHANGED noteVars PROVE Kept /\ AllKept
    BY <2>4, DeskReceiptTyped
  <2>5. ASSUME NEW n, DeskNote(n), UNCHANGED receipts PROVE Kept /\ AllKept
    BY <2>5, DeskNoteTyped
  <2>6. CASE \E h \in Handlers :
               \/ ReceiptStep(h) /\ UNCHANGED noteVars
               \/ NoteStep(h) /\ UNCHANGED receipts
               \/ Dropped(h) /\ UNCHANGED <<receipts, noteVars>>
    BY <2>1, <2>2, <2>3, <2>6
  <2>7. CASE \E n \in 1 .. MaxReceipts : DeskReceipt(n) /\ UNCHANGED noteVars
    BY <2>4, <2>7
  <2>8. CASE \E n \in 1 .. MaxNotes : DeskNote(n) /\ UNCHANGED receipts
    BY <2>5, <2>8
  <2> QED
    BY <1>3, <2>6, <2>7, <2>8, Zenon DEF Next
<1> QED
  BY <1>2, <1>3

LEMMA GoesTo ==
  ASSUME Typed, NEW h \in Handlers, Working(h), NEW pc, Go(h, pc)
  PROVE  /\ jobs'[h] = [jobs[h] EXCEPT !.pc = pc]
         /\ jobs'[h].op = jobs[h].op /\ jobs'[h].pc = pc /\ jobs'[h].doc = jobs[h].doc
         /\ jobs'[h].arg = jobs[h].arg /\ jobs'[h].copy = jobs[h].copy
         /\ jobs'[h].attempt = jobs[h].attempt /\ jobs'[h].lost = jobs[h].lost
         /\ jobs'[h].alone = jobs[h].alone
<1>1. PICK j : j = jobs[h]
  OBVIOUS
<1>2. PICK k : k = [j EXCEPT !.pc = pc]
  OBVIOUS
<1>3. IsJob(j) /\ jobs'[h] = k
  BY <1>1, <1>2, RequestIs, Continues DEF Go
<1>4. /\ k.op = j.op /\ k.pc = pc /\ k.doc = j.doc /\ k.arg = j.arg /\ k.copy = j.copy
      /\ k.attempt = j.attempt /\ k.lost = j.lost /\ k.alone = j.alone
  BY <1>2, <1>3 DEF IsJob
<1> QED
  BY <1>1, <1>2, <1>3, <1>4

LEMMA EndLineIs ==
  ASSUME Typed, NEW h \in Handlers, Working(h), NEW result, EndLine(h, result)
  PROVE  \/ jobs'[h] = Idle(result)
         \/ jobs'[h].op = jobs[h].op /\ jobs'[h].pc = "check"
<1>1. PICK j : j = jobs[h]
  OBVIOUS
<1>2. PICK k : k = [j EXCEPT !.pc = "check", !.doc = Note(None), !.attempt = 0,
                      !.lost = FALSE, !.copy = None, !.arg = [lines |-> Tail(j.arg.lines)]]
  OBVIOUS
<1>3. jobs'[h] = Idle(result) \/ jobs'[h] = k
  BY <1>1, <1>2, Continues DEF EndLine, Finish
<1>4. IsJob(j)
  BY <1>1, RequestIs
<1>5. k.op = j.op /\ k.pc = "check"
  BY <1>2, <1>4 DEF IsJob
<1> QED
  BY <1>1, <1>3, <1>5

LEMMA FailedIssue ==
  ASSUME Typed, [Next]_vars, NEW h \in Handlers, Working(h), jobs[h].op = "issue",
         jobs'[h] = Idle("error"), jobs[h].doc # Note(None)
  PROVE  notes'[jobs[h].doc[2]].status \in {"deleted", "cancelled"}
<1>1. jobs'[h].op = "idle" /\ jobs'[h] # Idle("lost") /\ jobs'[h] # Idle("ok")
  BY DEF Idle
<1>2. ~SameJob(h)
  BY <1>1, OthersGoOn
<1>3. CASE Dropped(h)
  BY <1>1, <1>3, Continues DEF Dropped, Finish
<1>4. CASE ReceiptStep(h)
  BY <1>4, ReceiptStepIs DEF ReceiptJob, ReceiptOps
<1>5. CASE NoteStep(h)
  <2>1. PICK j : j = jobs[h]
    OBVIOUS
  <2>2. j.pc \in {"open", "latest", "submit", "delete"} /\ j.doc[2] \in DOMAIN notes
    BY <1>5, <2>1, NoteStepIs DEF NoteJob, Issuing, Answering
  <2>3. ASSUME NEW pc PROVE ~Go(h, pc)
    BY <1>1, <2>3, GoesTo
  <2>4. OpenNote(h) \/ ReadNote(h) \/ SubmitNote(h) \/ DeleteNote(h)
    BY <1>5, <2>1, <2>2 DEF NoteStep, Issue, Answer, Begin, CheckSource, CreateNote, GetNote,
      MapReturn, InsertReturn, BookReturn, WriteRemarks, WriteState, At
  <2>5. ~OpenNote(h)
    BY <2>3 DEF OpenNote
  <2>6. ~ReadNote(h)
    <3>1. ASSUME NEW rev, Continue(h, [j EXCEPT !.pc = "submit", !.copy = rev]) PROVE FALSE
      <4>1. IsJob(j)
        BY <2>1, RequestIs
      <4>2. PICK k : k = [j EXCEPT !.pc = "submit", !.copy = rev]
        OBVIOUS
      <4>3. k.op = "issue"
        BY <2>1, <4>1, <4>2 DEF IsJob
      <4>4. jobs'[h] = k
        BY <3>1, <4>2, Continues
      <4> QED
        BY <1>1, <4>3, <4>4
    <3>2. ASSUME ReadFails(h, [j EXCEPT !.pc = "delete"]) PROVE FALSE
      BY <2>1, <2>3, <3>2 DEF ReadFails, Go
    <3> QED
      BY <2>1, <3>1, <3>2 DEF ReadNote
  <2>7. ~SubmitNote(h)
    <3>1. ASSUME jobs'[h] = [j EXCEPT !.pc = "latest", !.attempt = 1] PROVE FALSE
      <4>1. IsJob(j)
        BY <2>1, RequestIs
      <4>2. PICK k : k = [j EXCEPT !.pc = "latest", !.attempt = 1]
        OBVIOUS
      <4>3. k.op = "issue"
        BY <2>1, <4>1, <4>2 DEF IsJob
      <4> QED
        BY <1>1, <3>1, <4>2, <4>3
    <3>2. ~EndLine(h, "ok")
      BY <1>1, EndLineIs
    <3> QED
      BY <2>1, <2>3, <3>1, <3>2, Continues DEF SubmitNote, AfterSubmitNote
  <2>8. CASE DeleteNote(h)
    <3>1. PICK n : n = j.doc[2]
      OBVIOUS
    <3>2. PICK outcome \in Outcomes :
            /\ IF outcome = "refused" THEN UNCHANGED notes
               ELSE StoredNote(n, [notes[n] EXCEPT !.status = "deleted"])
            /\ EndLine(h, IF outcome = "refused" THEN "lost" ELSE "error")
      BY <2>1, <2>8, <3>1 DEF DeleteNote
    <3>3. outcome # "refused"
      BY <1>1, <3>2, EndLineIs
    <3>4. PICK doc : doc = [notes[n] EXCEPT !.status = "deleted"]
      OBVIOUS
    <3>5. PICK new : new = [doc EXCEPT !.rev = notes[n].rev + 1]
      OBVIOUS
    <3>6. notes' = [notes EXCEPT ![n] = new]
      BY <3>2, <3>3, <3>4, <3>5 DEF StoredNote
    <3>7. new.status = "deleted"
      BY <2>2, <3>1, <3>4, <3>5, NoteIs DEF NoteType
    <3>8. notes'[n] = new
      BY <2>2, <3>1, <3>6
    <3> QED
      BY <2>1, <3>1, <3>7, <3>8
  <2> QED
    BY <2>4, <2>5, <2>6, <2>7, <2>8
<1> QED
  BY <1>2, <1>3, <1>4, <1>5, StepsOfOne DEF AllKept, OthersKept

(* Whatever the other requests and the users of ERPNext do in between, an  *)
(* issue that is answered with an error that is not about a lost answer    *)
(* has deleted the draft it made.                                          *)
THEOREM FailedIssuesUndone == Spec => FailedIssueLeavesNothing
<1>1. Typed /\ [Next]_vars =>
        [\A h \in Handlers :
           (Working(h) /\ jobs[h].op = "issue" /\ jobs'[h] = Idle("error")
            /\ jobs[h].doc # Note(None))
             => notes'[jobs[h].doc[2]].status \in {"deleted", "cancelled"}]_vars
  BY FailedIssue
<1> QED
  BY <1>1, StockTyped, PTL DEF Spec, FailedIssueLeavesNothing

-----------------------------------------------------------------------------
(***************************************************************************)
(* From which step of a request to which.                                  *)
(***************************************************************************)
LEMMA ContinueGoes ==
  ASSUME Typed, NEW h \in Handlers, NEW k, Continue(h, k)
  PROVE  jobs'[h] = k
  BY Continues

LEMMA FinishGoes ==
  ASSUME Typed, NEW h \in Handlers, NEW result, Finish(h, result)
  PROVE  ~Working(h)'
  BY ContinueGoes, EndsTyped DEF Finish

LEMMA EndLineGoes ==
  ASSUME Typed, NEW h \in Handlers, Working(h), NEW result, EndLine(h, result)
  PROVE  Working(h)' => jobs'[h].pc = "check"
<1>1. jobs'[h] = Idle(result) => ~Working(h)'
  BY EndsTyped
<1> QED
  BY <1>1, EndLineIs

LEMMA BeginGoes ==
  ASSUME Typed, NEW h \in Handlers, NEW op, NEW pc, NEW doc, NEW arg,
         Begin(h, op, pc, doc, arg)
  PROVE  /\ ~Working(h) /\ jobs'[h].op = op /\ jobs'[h].pc = pc /\ jobs'[h].doc = doc
         /\ jobs'[h].arg = arg /\ jobs'[h].copy = None
<1>1. PICK k : k = NewJob(h, op, pc, doc, arg)
  OBVIOUS
<1>2. k.op = op /\ k.pc = pc /\ k.doc = doc /\ k.arg = arg /\ k.copy = None
  BY <1>1, FreshJob
<1>3. jobs'[h] = k /\ ~Working(h)
  BY <1>1, Begins DEF Begin
<1> QED
  BY <1>2, <1>3

LEMMA GetNoteGoes ==
  ASSUME Typed, NEW h \in Handlers, GetNote(h), Working(h)', NEW n, n = jobs[h].doc[2],
         NEW d, d = Normalized(notes[n], jobs[h].arg)
  PROVE  /\ d # None /\ jobs'[h].doc = jobs[h].doc /\ jobs'[h].arg = d
         /\ jobs'[h].copy = notes[n]
         /\ jobs'[h].pc = (IF d.returned > 0 THEN "map" ELSE "remarks")
<1>1. PICK j : j = jobs[h]
  OBVIOUS
<1>2. Working(h)
  BY DEF GetNote, At
<1>3. IsJob(j)
  BY <1>1, <1>2, RequestIs
<1>4. PICK pc : pc = (IF d.returned > 0 THEN "map" ELSE "remarks")
  OBVIOUS
<1>5. PICK k : k = [j EXCEPT !.copy = notes[n], !.arg = d, !.pc = pc]
  OBVIOUS
<1>6. k.doc = j.doc /\ k.arg = d /\ k.copy = notes[n] /\ k.pc = pc
  BY <1>3, <1>5 DEF IsJob
<1>7. ~ReadFails(h, Idle("error")) /\ ~Finish(h, "error")
  BY FinishGoes, ReadFailsTyped DEF Finish
<1>8. d # None /\ Continue(h, k)
  BY <1>1, <1>4, <1>5, <1>7 DEF GetNote
<1>9. jobs'[h] = k
  BY <1>8, ContinueGoes
<1> QED
  BY <1>1, <1>4, <1>6, <1>8, <1>9

LEMMA MapReturnGoes ==
  ASSUME Typed, NEW h \in Handlers, MapReturn(h), Working(h)', NEW n, n = jobs[h].doc[2],
         NEW left, left = notes[n].qty - Returned(n)
  PROVE  /\ left > 0 /\ jobs'[h].pc = "insert" /\ jobs'[h].doc = jobs[h].doc
         /\ jobs'[h].arg.state = jobs[h].arg.state
         /\ jobs'[h].arg.back = QtyBack(jobs[h].copy.qty, left, jobs[h].arg.returned)
<1>1. PICK j : j = jobs[h]
  OBVIOUS
<1>2. Working(h)
  BY DEF MapReturn, At
<1>3. IsJob(j) /\ n \in DOMAIN notes
  BY <1>1, <1>2, RequestIs, NoteHeld DEF MapReturn, At, Answering, ReceiptPcs, Deciding
<1>4. left \in Int
  BY <1>3, NoteIs, ReturnedIs DEF NoteType
<1>5. PICK back : back = QtyBack(j.copy.qty, left, j.arg.returned)
  OBVIOUS
<1>6. PICK arg : arg = [state |-> j.arg.state, accepted |-> j.arg.accepted,
                        returned |-> j.arg.returned, back |-> back]
  OBVIOUS
<1>7. PICK k : k = [j EXCEPT !.pc = "insert", !.arg = arg]
  OBVIOUS
<1>8. /\ k.doc = j.doc /\ k.arg = arg /\ k.pc = "insert"
      /\ arg.state = j.arg.state /\ arg.back = back
  BY <1>3, <1>6, <1>7 DEF IsJob
<1>9. ~ReadFails(h, Idle("error")) /\ ~Finish(h, Failure(h))
  BY FinishGoes, ReadFailsTyped DEF Finish
<1>10. ~(left <= 0) /\ Continue(h, k)
  BY <1>1, <1>5, <1>6, <1>7, <1>9 DEF MapReturn
<1>11. jobs'[h] = k
  BY <1>10, ContinueGoes
<1> QED
  BY <1>1, <1>4, <1>5, <1>8, <1>10, <1>11

LEMMA NoteStepGoes ==
  ASSUME Typed, NEW h \in Handlers, NoteStep(h), Working(h)'
  PROVE  \/ jobs'[h].pc \in {"check", "open", "latest", "submit", "delete", "get"}
         \/ CheckSource(h) /\ jobs'[h].pc = "create"
         \/ GetNote(h) /\ jobs'[h].pc \in {"map", "remarks"}
         \/ MapReturn(h) /\ jobs'[h].pc = "insert"
         \/ InsertReturn(h) /\ jobs'[h].pc = "book"
         \/ BookReturn(h) /\ jobs'[h].pc = "remarks"
         \/ WriteRemarks(h) /\ jobs'[h].pc = "state"
<1>1. ASSUME NEW lines \in IssueRequests, Issue(h, lines) PROVE jobs'[h].pc = "check"
  BY <1>1, BeginGoes DEF Issue
<1>2. ASSUME NEW n, NEW c, NEW answer, Answer(h, n, c, answer) PROVE jobs'[h].pc = "get"
  BY <1>2, BeginGoes DEF Answer
<1>3. CASE \/ CheckSource(h) \/ CreateNote(h) \/ OpenNote(h) \/ ReadNote(h)
           \/ SubmitNote(h) \/ DeleteNote(h)
  <2>1. Working(h)
    BY <1>3 DEF CheckSource, CreateNote, OpenNote, ReadNote, SubmitNote, DeleteNote, At
  <2>2. PICK j : j = jobs[h]
    OBVIOUS
  <2>3. IsJob(j)
    BY <2>1, <2>2, RequestIs
  <2>4. \A result : EndLine(h, result) => jobs'[h].pc = "check"
    BY <2>1, EndLineGoes
  <2>5. \A pc : Go(h, pc) => jobs'[h].pc = pc
    BY <2>1, GoesTo
  <2>6. ASSUME NEW copy, Continue(h, [j EXCEPT !.pc = "create", !.copy = copy])
        PROVE  jobs'[h].pc = "create"
    BY <2>3, <2>6, ContinueGoes DEF IsJob
  <2>7. ASSUME NEW doc, Continue(h, [j EXCEPT !.pc = "open", !.doc = doc])
        PROVE  jobs'[h].pc = "open"
    BY <2>3, <2>7, ContinueGoes DEF IsJob
  <2>8. ASSUME NEW copy, Continue(h, [j EXCEPT !.pc = "submit", !.copy = copy])
        PROVE  jobs'[h].pc = "submit"
    BY <2>3, <2>8, ContinueGoes DEF IsJob
  <2>9. ASSUME Continue(h, [j EXCEPT !.pc = "latest", !.attempt = 1])
        PROVE  jobs'[h].pc = "latest"
    BY <2>3, <2>9, ContinueGoes DEF IsJob
  <2>10. CASE CheckSource(h)
    BY <2>2, <2>4, <2>6, <2>10 DEF CheckSource
  <2>11. CASE CreateNote(h)
    BY <2>2, <2>4, <2>7, <2>11 DEF CreateNote, Outcomes
  <2>12. CASE OpenNote(h)
    BY <2>5, <2>12 DEF OpenNote
  <2>13. CASE ReadNote(h)
    BY <2>2, <2>5, <2>8, <2>13, ReadFailsTyped DEF ReadNote, Go
  <2>14. CASE SubmitNote(h)
    BY <2>2, <2>4, <2>5, <2>9, <2>14 DEF SubmitNote, AfterSubmitNote
  <2>15. CASE DeleteNote(h)
    BY <2>4, <2>15 DEF DeleteNote
  <2> QED
    BY <1>3, <2>10, <2>11, <2>12, <2>13, <2>14, <2>15
<1>4. CASE \/ InsertReturn(h) \/ BookReturn(h) \/ WriteRemarks(h) \/ WriteState(h)
  <2>1. Working(h)
    BY <1>4 DEF InsertReturn, BookReturn, WriteRemarks, WriteState, At
  <2>2. PICK j : j = jobs[h]
    OBVIOUS
  <2>3. IsJob(j)
    BY <2>1, <2>2, RequestIs
  <2>4. \A result : ~Finish(h, result)
    BY FinishGoes
  <2>5. \A pc : Go(h, pc) => jobs'[h].pc = pc
    BY <2>1, GoesTo
  <2>6. ASSUME NEW attempt, Continue(h, [j EXCEPT !.pc = "book", !.attempt = attempt])
        PROVE  jobs'[h].pc = "book"
    BY <2>3, <2>6, ContinueGoes DEF IsJob
  <2>7. CASE InsertReturn(h)
    BY <2>2, <2>4, <2>6, <2>7 DEF InsertReturn, Outcomes
  <2>8. CASE BookReturn(h)
    BY <2>4, <2>5, <2>8 DEF BookReturn
  <2>9. CASE WriteRemarks(h)
    BY <2>4, <2>5, <2>9 DEF WriteRemarks
  <2>10. CASE WriteState(h)
    BY <2>4, <2>10 DEF WriteState
  <2> QED
    BY <1>4, <2>7, <2>8, <2>9, <2>10
<1>5. CASE GetNote(h)
  <2>1. jobs'[h].pc \in {"map", "remarks"}
    BY <1>5, GetNoteGoes
  <2> QED
    BY <1>5, <2>1
<1>6. CASE MapReturn(h)
  BY <1>6, MapReturnGoes
<1> QED
  BY <1>1, <1>2, <1>3, <1>4, <1>5, <1>6 DEF NoteStep

LEMMA ReceiptStepGoes ==
  ASSUME Typed, NEW h \in Handlers, ReceiptStep(h), UNCHANGED noteVars, Working(h)'
  PROVE  jobs'[h].doc[1] = "receipt"
<1>1. ASSUME NEW op, NEW pc, NEW n, NEW arg, Begin(h, op, pc, Receipt(n), arg)
      PROVE  jobs'[h].doc[1] = "receipt"
  <2>1. jobs'[h].doc = Receipt(n)
    BY <1>1, BeginGoes
  <2> QED
    BY <2>1 DEF Receipt
<1>2. CASE ~Working(h)
  <2>1. \/ \E s \in Suppliers, qty \in Quantities : Dispatch(h, s, qty) \/ Unannounced(h, s, qty)
        \/ \E n \in 1 .. MaxReceipts, d \in Decisions : Confirm(h, n, d)
        \/ \E n \in 1 .. MaxReceipts, s \in Suppliers, approve \in BOOLEAN : Respond(h, n, s, approve)
        \/ \E n \in 1 .. MaxReceipts, s \in Suppliers : Acknowledge(h, n, s)
    BY <1>2 DEF ReceiptStep, CreateRefused, CreateDone, MarkUnannounced, Fetch,
       NoteFullReturn, WriteDecision, ReadLatest, SubmitDecision, Undo, ReadResponse,
       WriteResponse, ReadAck, WriteAck, At
  <2> QED
    BY <1>1, <2>1 DEF Dispatch, Unannounced, Confirm, Respond, Acknowledge
<1>3. CASE Working(h)
  <2>1. PICK j : j = jobs[h]
    OBVIOUS
  <2>2. IsJob(j) /\ j.doc[1] = "receipt"
    BY <1>3, <2>1, RequestIs, ReceiptStepIs
  <2>3. \A result : ~Finish(h, result)
    BY FinishGoes
  <2>4. \A pc : Go(h, pc) => jobs'[h].doc[1] = "receipt"
    BY <1>3, <2>1, <2>2, GoesTo
  <2>5. ASSUME NEW pc, NEW lost, Continue(h, [j EXCEPT !.pc = pc, !.lost = lost])
        PROVE  jobs'[h].doc[1] = "receipt"
    BY <2>2, <2>5, ContinueGoes DEF IsJob
  <2>6. ASSUME NEW pc, NEW arg, Continue(h, [j EXCEPT !.pc = pc, !.arg = arg])
        PROVE  jobs'[h].doc[1] = "receipt"
    BY <2>2, <2>6, ContinueGoes DEF IsJob
  <2>7. ASSUME NEW pc, NEW copy, \/ Continue(h, [j EXCEPT !.pc = pc, !.copy = copy])
                                 \/ Continue(h, [j EXCEPT !.copy = copy, !.pc = pc])
        PROVE  jobs'[h].doc[1] = "receipt"
    BY <2>2, <2>7, ContinueGoes DEF IsJob
  <2>8. ASSUME Continue(h, [j EXCEPT !.pc = "latest", !.attempt = 1])
        PROVE  jobs'[h].doc[1] = "receipt"
    BY <2>2, <2>8, ContinueGoes DEF IsJob
  <2>9. ASSUME NEW pc, NEW n, Continue(h, [j EXCEPT !.doc = Receipt(n), !.pc = pc])
        PROVE  jobs'[h].doc[1] = "receipt"
    <3>1. PICK doc : doc = Receipt(n)
      OBVIOUS
    <3>2. PICK k : k = [j EXCEPT !.doc = doc, !.pc = pc]
      OBVIOUS
    <3>3. k.doc = doc
      BY <2>2, <3>2 DEF IsJob
    <3>4. jobs'[h] = k
      BY <2>9, <3>1, <3>2, ContinueGoes
    <3> QED
      BY <3>1, <3>3, <3>4 DEF Receipt
  <2>10. CASE CreateRefused(h) \/ CreateDone(h) \/ MarkUnannounced(h)
    BY <2>1, <2>3, <2>9, <2>10 DEF CreateRefused, CreateDone, MarkUnannounced
  <2>11. CASE Fetch(h) \/ NoteFullReturn(h) \/ WriteDecision(h)
    BY <2>1, <2>3, <2>4, <2>7, <2>11, ReadFailsTyped
       DEF Fetch, NoteFullReturn, WriteDecision, Finish, Outcomes
  <2>12. CASE ReadLatest(h) \/ SubmitDecision(h) \/ Undo(h)
    <3>1. \A outcome : AfterSubmit(h, outcome) => jobs'[h].doc[1] = "receipt"
      BY <2>1, <2>3, <2>5 DEF AfterSubmit
    <3>2. CASE ReadLatest(h)
      BY <2>1, <2>4, <2>6, <3>2, ReadFailsTyped DEF ReadLatest, Go
    <3> QED
      BY <2>1, <2>3, <2>8, <2>12, <3>1, <3>2 DEF SubmitDecision, Undo
  <2>13. CASE ReadResponse(h) \/ WriteResponse(h) \/ ReadAck(h) \/ WriteAck(h)
    BY <2>1, <2>3, <2>6, <2>7, <2>13, ReadFailsTyped
       DEF ReadResponse, WriteResponse, ReadAck, WriteAck, Finish
  <2>14. ~(\E op, pc, doc, arg : Begin(h, op, pc, doc, arg))
    BY <1>3 DEF Begin
  <2> QED
    BY <2>10, <2>11, <2>12, <2>13, <2>14
       DEF ReceiptStep, Dispatch, Unannounced, Confirm, Respond, Acknowledge
<1> QED
  BY <1>2, <1>3

-----------------------------------------------------------------------------
(***************************************************************************)
(* A scanned source is issued once. A request that is about to make a note *)
(* knows of the notes there were when it looked the source up; a note that *)
(* is not live never comes back to life, so what it knows stays true.      *)
(* Through ERPNext only the notes of the customer are looked at, which is  *)
(* enough when a source is issued to one customer.                         *)
(***************************************************************************)
OneCustomerPerSource ==
  \A l \in IssueLines, m \in IssueLines :
    (l.key # None /\ l.key = m.key) => l.customer = m.customer

SourceFree(j) ==
  LET line == Head(j.arg.lines)
  IN  (j.pc = "create" /\ j.doc = Note(None) /\ line.key # None) =>
        \A m \in 1 .. j.copy : notes[m].key = line.key => notes[m].status \notin LiveStatus

SourceInv ==
  SourceIssuedOnce /\ \A h \in Handlers : Working(h) => SourceFree(jobs[h])

LEMMA SourceFreeKept ==
  ASSUME Typed, NotesKept, NEW j, NoteJob(j), SourceFree(j)
  PROVE  SourceFree(j)'
<1> SUFFICES ASSUME j.pc = "create", j.doc = Note(None), Head(j.arg.lines).key # None,
                    NEW m \in 1 .. j.copy, notes'[m].key = Head(j.arg.lines).key
             PROVE  notes'[m].status \notin LiveStatus
  BY DEF SourceFree
<1>1. m \in DOMAIN notes
  BY DEF NoteJob, Typed, NotesTyped
<1>2. notes'[m].key = notes[m].key
      /\ (notes'[m].status \in LiveStatus => notes[m].status \in LiveStatus)
  BY <1>1 DEF NotesKept, Later
<1> QED
  BY <1>2 DEF SourceFree

\* A search that ends before its limit has read every note it is about.
LEMMA SearchFinds ==
  ASSUME Typed, NEW line, SearchEnds(line), NEW read \in Searched(line),
         NEW m \in DOMAIN notes, notes[m].status \in LiveStatus,
         DirectDb \/ notes[m].customer = line.customer
  PROVE  m \in read
<1>1. CASE DirectDb
  BY <1>1 DEF Searched, LiveNotes
<1>2. CASE ~DirectDb
  <2>1. PICK own : own = NotesOf(line.customer)
    OBVIOUS
  <2>2. PICK back : back = Cardinality(ReturnRows(line.customer))
    OBVIOUS
  <2>3. m \in own /\ own \subseteq 1 .. Len(notes) /\ Len(notes) \in Nat
    BY <1>2, <2>1 DEF NotesOf, LiveNotes, Typed, NotesTyped
  <2>4. IsFiniteSet(own) /\ Cardinality(own) \in Nat
    <3>1. IsFiniteSet(1 .. Len(notes))
      BY <2>3, FS_Interval
    <3>2. IsFiniteSet(own)
      BY <2>3, <3>1, FS_Subset
    <3> QED
      BY <3>2, FS_CardinalityType
  <2>5. back \in Nat
    <3>1. Len(returns) \in Nat /\ DOMAIN returns = 1 .. Len(returns)
      BY DEF Typed, ReturnsTyped
    <3>2. ReturnRows(line.customer) \in SUBSET (1 .. Len(returns))
      BY <3>1 DEF ReturnRows
    <3>3. IsFiniteSet(1 .. Len(returns))
      BY <3>1, FS_Interval
    <3>4. IsFiniteSet(ReturnRows(line.customer))
      BY <3>2, <3>3, FS_Subset
    <3> QED
      BY <2>2, <3>4, FS_CardinalityType
  <2>6. Cardinality(own) + back <= SearchLimit
    BY <1>2, <2>1, <2>2 DEF SearchEnds
  <2>7. PICK before \in 0 .. back : read = Newest(own, SearchLimit - before)
    BY <1>2, <2>1, <2>2 DEF Searched
  <2>8. PICK ahead : ahead = {n \in own : n > m}
    OBVIOUS
  <2>9. ahead \subseteq own \ {m}
    BY <2>3, <2>8
  <2>10. Cardinality(own \ {m}) = Cardinality(own) - 1 /\ IsFiniteSet(own \ {m})
    BY <2>3, <2>4, FS_RemoveElement
  <2>11. Cardinality(ahead) <= Cardinality(own) - 1 /\ Cardinality(ahead) \in Nat
    BY <2>9, <2>10, FS_Subset, FS_CardinalityType
  <2>12. Cardinality(ahead) < SearchLimit - before
    BY <2>4, <2>5, <2>6, <2>7, <2>11, NotesAssumption
  <2> QED
    BY <2>3, <2>7, <2>8, <2>12 DEF Newest
<1> QED
  BY <1>1, <1>2

\* The source was looked up, and nobody has it.
LEMMA CheckedIsFree ==
  ASSUME Typed, DirectDb \/ OneCustomerPerSource, NEW h \in Handlers, CheckSource(h),
         Working(h)', jobs'[h].pc = "create"
  PROVE  SourceFree(jobs[h])'
<1>1. PICK j : j = jobs[h]
  OBVIOUS
<1>2. Working(h) /\ j.pc = "check" /\ UNCHANGED noteVars
  BY <1>1 DEF CheckSource, At
<1>3. IsJob(j) /\ j.arg.lines \in Lines
  BY <1>1, <1>2, NoteRequestIs DEF Issuing, Answering, ReceiptPcs, Deciding, NoteJob
<1>4. PICK line : line = Head(j.arg.lines)
  OBVIOUS
<1>5. line \in IssueLines
  BY <1>3, <1>4, LinesAre
<1>6. PICK k : k = [j EXCEPT !.pc = "create",
                             !.copy = IF SearchEnds(line) THEN Len(notes) ELSE 0]
  OBVIOUS
<1>7. k.arg = j.arg /\ k.copy = IF SearchEnds(line) THEN Len(notes) ELSE 0
  BY <1>3, <1>6 DEF IsJob
<1>8. ~EndLine(h, "error")
  BY <1>2, EndLineGoes
<1>9. PICK read \in Searched(line) : ~SourceExists(line, read) /\ jobs'[h] = k
  BY <1>1, <1>4, <1>6, <1>8, ContinueGoes DEF CheckSource
<1>10. ASSUME line.key # None, NEW m \in 1 .. k.copy, notes[m].key = line.key
       PROVE  notes[m].status \notin LiveStatus
  <2> SUFFICES ASSUME notes[m].status \in LiveStatus PROVE FALSE
    OBVIOUS
  <2>1. SearchEnds(line) /\ m \in 1 .. Len(notes)
    BY <1>7, <1>10
  <2>2. m \in DOMAIN notes /\ Issued(notes[m])
    BY <2>1, NoteIs DEF Typed, NotesTyped
  <2>3. DirectDb \/ notes[m].customer = line.customer
    BY <1>5, <1>10, <2>2 DEF OneCustomerPerSource, Issued
  <2>4. m \in read
    BY <1>9, <2>1, <2>2, <2>3, SearchFinds
  <2> QED
    BY <1>9, <1>10, <2>4 DEF SourceExists
<1>11. PICK k1 : k1 = jobs'[h]
  OBVIOUS
<1>12. k1.arg = j.arg /\ k1.copy = k.copy /\ notes' = notes
  BY <1>2, <1>7, <1>9, <1>11 DEF noteVars
<1>13. SourceFree(k1)'
  BY <1>4, <1>10, <1>12 DEF SourceFree
<1> QED
  BY <1>11, <1>13

LEMMA SourceFreeStep ==
  ASSUME Typed, SourceInv, DirectDb \/ OneCustomerPerSource, [Next]_vars,
         NEW h \in Handlers, Working(h)'
  PROVE  SourceFree(jobs[h])'
<1>1. NotesKept
  BY StepsOfOne DEF Kept
<1>2. CASE SameJob(h)
  <2>1. PICK j : j = jobs[h]
    OBVIOUS
  <2>2. PICK k : k = jobs'[h]
    OBVIOUS
  <2>3. Working(h) /\ SourceFree(j)
    BY <1>2, <2>1 DEF SameJob, Working, SourceInv
  <2>4. k.pc = j.pc /\ k.doc = j.doc /\ k.arg = j.arg /\ k.copy = j.copy
    BY <1>2, <2>1, <2>2, <2>3, OthersGoOn
  <2>5. CASE NoteJob(j)
    <3>1. SourceFree(j)'
      BY <1>1, <2>3, <2>5, SourceFreeKept
    <3>2. SourceFree(k)'
      BY <2>4, <3>1 DEF SourceFree
    <3> QED
      BY <2>2, <3>2
  <2>6. CASE ~NoteJob(j)
    <3>1. k.doc[1] = "receipt"
      BY <2>1, <2>3, <2>4, <2>6, RequestIs DEF OpenJob
    <3>2. SourceFree(k)'
      BY <3>1 DEF SourceFree, Note
    <3> QED
      BY <2>2, <3>2
  <2> QED
    BY <2>5, <2>6
<1>3. CASE Dropped(h)
  BY <1>3, FinishGoes DEF Dropped
<1>4. CASE ReceiptStep(h) /\ UNCHANGED noteVars
  <2>1. PICK k : k = jobs'[h]
    OBVIOUS
  <2>2. k.doc[1] = "receipt"
    BY <1>4, <2>1, ReceiptStepGoes
  <2>3. SourceFree(k)'
    BY <2>2 DEF SourceFree, Note
  <2> QED
    BY <2>1, <2>3
<1>5. CASE NoteStep(h)
  <2>1. PICK k : k = jobs'[h]
    OBVIOUS
  <2>2. CASE k.pc = "create"
    BY <1>5, <2>1, <2>2, NoteStepGoes, CheckedIsFree
  <2>3. CASE k.pc # "create"
    <3>1. SourceFree(k)'
      BY <2>3 DEF SourceFree
    <3> QED
      BY <2>1, <3>1
  <2> QED
    BY <2>2, <2>3
<1> QED
  BY <1>2, <1>3, <1>4, <1>5, StepsOfOne DEF AllKept, OthersKept

\* A step makes no note, or one of the source that was looked up.
LEMMA NotesAdded ==
  ASSUME Typed, [Next]_vars
  PROVE  \/ DOMAIN notes' = DOMAIN notes
         \/ \E h \in Handlers :
              LET line == Head(jobs[h].arg.lines)
              IN  /\ Working(h) /\ jobs[h].pc = "create" /\ jobs[h].doc = Note(None)
                  /\ notes' = Append(notes, NewNote(line, jobs[h].copy))
<1>1. ASSUME NEW n, NEW doc, StoredNote(n, doc) PROVE DOMAIN notes' = DOMAIN notes
  BY <1>1 DEF StoredNote
<1>2. ASSUME UNCHANGED noteVars \/ UNCHANGED notes PROVE DOMAIN notes' = DOMAIN notes
  BY <1>2 DEF noteVars
<1>3. \A n, doc, outcome : PutFields(n, doc, outcome) => DOMAIN notes' = DOMAIN notes
  BY <1>1 DEF PutFields
<1>4. ASSUME NEW h \in Handlers, NoteStep(h), ~CreateNote(h) PROVE DOMAIN notes' = DOMAIN notes
  <2>1. CASE OpenNote(h) \/ WriteRemarks(h) \/ WriteState(h)
    BY <1>3, <2>1 DEF OpenNote, WriteRemarks, WriteState, PutState
  <2>2. CASE SubmitNote(h) \/ DeleteNote(h)
    BY <1>1, <2>2 DEF SubmitNote, DeleteNote
  <2> QED
    BY <1>2, <1>4, <2>1, <2>2 DEF NoteStep, Issue, CheckSource, ReadNote, Answer, GetNote,
       MapReturn, InsertReturn, BookReturn
<1>5. ASSUME NEW h \in Handlers, CreateNote(h)
      PROVE  LET line == Head(jobs[h].arg.lines)
             IN  /\ Working(h) /\ jobs[h].pc = "create" /\ jobs[h].doc = Note(None)
                 /\ UNCHANGED notes \/ notes' = Append(notes, NewNote(line, jobs[h].copy))
  BY <1>5 DEF CreateNote, At
<1>6. ASSUME NEW h \in Handlers, CreateNote(h), DOMAIN notes' # DOMAIN notes
      PROVE  LET line == Head(jobs[h].arg.lines)
             IN  /\ Working(h) /\ jobs[h].pc = "create" /\ jobs[h].doc = Note(None)
                 /\ notes' = Append(notes, NewNote(line, jobs[h].copy))
  BY <1>5, <1>6
<1>7. ASSUME NEW n, DeskNote(n) PROVE DOMAIN notes' = DOMAIN notes
  BY <1>1, <1>7 DEF DeskNote
<1>8. UNCHANGED vars => UNCHANGED noteVars
  BY DEF vars
<1> QED
  BY <1>2, <1>4, <1>6, <1>7, <1>8, StepsOfOne

LEMMA IssuedOnceStep ==
  ASSUME Typed, SourceInv, [Next]_vars
  PROVE  SourceIssuedOnce'
<1> SUFFICES ASSUME NEW m \in DOMAIN notes', NEW n \in DOMAIN notes',
                    m < n, notes'[m].key # None, notes'[m].key = notes'[n].key,
                    {notes'[m].status, notes'[n].status} \subseteq LiveStatus
             PROVE  notes'[n].checked < m
  BY DEF SourceIssuedOnce, LiveStatus
<1>1. /\ notes \in Seq(NoteType) /\ Len(notes) \in Nat /\ DOMAIN notes = 1 .. Len(notes)
      /\ NotesKept
  BY StepsOfOne DEF Typed, NotesTyped, Kept
<1>2. notes'[m].status \in LiveStatus /\ notes'[n].status \in LiveStatus
  OBVIOUS
<1>3. CASE DOMAIN notes' = DOMAIN notes
  <2>1. Later(notes[m], notes'[m]) /\ Later(notes[n], notes'[n])
    BY <1>1, <1>3 DEF NotesKept
  <2>2. /\ notes[m].key # None /\ notes[m].key = notes[n].key
        /\ {notes[m].status, notes[n].status} \subseteq {"draft", "submitted"}
    BY <1>2, <2>1 DEF Later, LiveStatus
  <2>3. notes[n].checked < m
    BY <1>3, <2>2 DEF SourceInv, SourceIssuedOnce
  <2> QED
    BY <2>1, <2>3 DEF Later
<1>4. ASSUME NEW h \in Handlers, NEW line, line = Head(jobs[h].arg.lines),
             Working(h), jobs[h].pc = "create", jobs[h].doc = Note(None),
             notes' = Append(notes, NewNote(line, jobs[h].copy))
      PROVE  notes'[n].checked < m
  <2>1. PICK new : new = NewNote(line, jobs[h].copy)
    OBVIOUS
  <2>2. new.key = line.key /\ new.checked = jobs[h].copy
    BY <2>1 DEF NewNote
  <2>3. jobs[h].copy \in 0 .. Len(notes)
    <3>1. jobs[h].doc[1] = "note"
      BY <1>4 DEF Note
    <3> QED
      BY <1>4, <3>1, NoteRequestIs DEF NoteJob
  <2>4. /\ DOMAIN notes' = 1 .. Len(notes) + 1
        /\ \A i \in 1 .. Len(notes) : notes'[i] = notes[i]
        /\ notes'[Len(notes) + 1] = new
    BY <1>1, <1>4, <2>1
  <2>5. m \in 1 .. Len(notes)
    BY <1>1, <2>4
  <2>6. CASE n \in 1 .. Len(notes)
    <3>1. notes[n].checked < m
      BY <1>1, <1>2, <2>4, <2>5, <2>6 DEF SourceInv, SourceIssuedOnce, LiveStatus
    <3> QED
      BY <2>4, <2>6, <3>1
  <2>7. CASE n = Len(notes) + 1
    <3>1. notes[m].key = line.key /\ line.key # None /\ notes[m].status \in LiveStatus
      BY <1>2, <2>2, <2>4, <2>5, <2>7
    <3>2. m \notin 1 .. jobs[h].copy
      BY <1>4, <3>1 DEF SourceInv, SourceFree
    <3>3. jobs[h].copy < m
      BY <2>3, <2>5, <3>2
    <3> QED
      BY <2>2, <2>4, <2>7, <3>3
  <2> QED
    BY <1>1, <2>4, <2>6, <2>7
<1> QED
  BY <1>3, <1>4, NotesAdded

(* A scanned source is on two notes that count only if the second issue    *)
(* looked before the first note was there, whatever becomes of both: with  *)
(* the database at hand for any sources, without it for those that are     *)
(* issued to one customer, unless the customer had more notes and returns  *)
(* by then than one search reads.                                          *)
THEOREM SourcesIssuedOnce ==
  ASSUME DirectDb \/ OneCustomerPerSource
  PROVE  Spec => []SourceIssuedOnce
<1>1. Init => SourceInv
  <2> SUFFICES ASSUME Init PROVE SourceInv
    OBVIOUS
  <2>1. notes = <<>> /\ \A h \in Handlers : ~Working(h)
    BY DEF Init, RequestsInit, Idle, Working
  <2> QED
    BY <2>1 DEF SourceInv, SourceIssuedOnce
<1>2. Typed /\ SourceInv /\ [Next]_vars => SourceInv'
  <2> SUFFICES ASSUME Typed, SourceInv, [Next]_vars PROVE SourceInv'
    OBVIOUS
  <2>1. SourceIssuedOnce'
    BY IssuedOnceStep
  <2>2. \A h \in Handlers : Working(h)' => SourceFree(jobs[h])'
    BY SourceFreeStep
  <2> QED
    BY <2>1, <2>2 DEF SourceInv
<1>3. SourceInv => SourceIssuedOnce
  BY DEF SourceInv
<1> QED
  BY <1>1, <1>2, <1>3, StockTyped, PTL DEF Spec

-----------------------------------------------------------------------------
(***************************************************************************)
(* What a customer is said to have sent back has come back. The state of a *)
(* note is written last, from a decision whose return was booked before;   *)
(* what has come back of a note only grows, and never over what was sent.  *)
(***************************************************************************)
ReturnKnown(j) ==
  LET n == j.doc[2]
      whole == j.arg.state = REJECTED
  IN  /\ j.pc = "map" => j.copy.qty = notes[n].qty /\ (whole => j.arg.returned = j.copy.qty)
      /\ j.pc \in {"insert", "book"} => (whole => Returned(n) + j.arg.back >= notes[n].qty)
      /\ j.pc = "book" => returns[j.attempt] = [of |-> n, qty |-> j.arg.back, status |-> "draft"]
      /\ j.pc \in {"remarks", "state"} =>
           /\ whole => Returned(n) = notes[n].qty
           /\ j.arg.state = PARTIAL => Returned(n) > 0

OneReturnEach ==
  \A g \in Handlers, h \in Handlers :
    (g # h /\ At(g, "book") /\ At(h, "book")) => jobs[g].attempt # jobs[h].attempt

ReturnInv ==
  /\ StateBackedByReturn /\ OneReturnEach
  /\ \A h \in Handlers : Working(h) => ReturnKnown(jobs[h])

\* A return note that is not booked yet adds nothing.
LEMMA ReturnsAppended ==
  ASSUME Typed, NEW r \in ReturnType, r.status = "draft", returns' = Append(returns, r), NEW n
  PROVE  Returned(n)' = Returned(n)
<1>1. returns \in Seq(ReturnType)
  BY DEF Typed, ReturnsTyped
<1>2. PICK rs : rs = returns'
  OBVIOUS
<1>3. PICK S : S = ReturnsOf(n)
  OBVIOUS
<1>4. PICK S1 : S1 = ReturnsOf(n)'
  OBVIOUS
<1>5. /\ rs \in Seq(ReturnType) /\ Len(rs) = Len(returns) + 1 /\ rs[Len(rs)] = r
      /\ \A i \in 1 .. Len(returns) : rs[i] = returns[i]
      /\ Len(returns) \in Nat /\ DOMAIN returns = 1 .. Len(returns) /\ DOMAIN rs = 1 .. Len(rs)
  BY <1>1, <1>2
<1>6. \A i \in DOMAIN returns : i \in S <=> (returns[i].of = n /\ returns[i].status = "submitted")
  BY <1>3 DEF ReturnsOf
<1>7. \A i \in DOMAIN rs : i \in S1 <=> (rs[i].of = n /\ rs[i].status = "submitted")
  BY <1>2, <1>4 DEF ReturnsOf
<1>8. \A i \in 1 .. Len(rs) :
        Part(rs, S1, i) = Part(returns, S, i) + (IF i = Len(rs) THEN 0 ELSE 0)
  <2> SUFFICES ASSUME NEW i \in 1 .. Len(rs) PROVE Part(rs, S1, i) = Part(returns, S, i) + 0
    OBVIOUS
  <2>1. CASE i \in 1 .. Len(returns)
    <3>1. i \in S <=> i \in S1
      BY <1>5, <1>6, <1>7, <2>1
    <3>2. Part(returns, S, i) \in Nat
      BY <1>1, <2>1, PartTyped
    <3> QED
      BY <1>5, <2>1, <3>1, <3>2 DEF Part
  <2>2. CASE i = Len(rs)
    BY <1>5, <1>7, <2>2 DEF Part
  <2> QED
    BY <1>5, <2>1, <2>2
<1>9. Total(rs, S1) = Total(returns, S) + 0
  BY <1>1, <1>5, <1>8, TotalChanges
<1>10. Returned(n) = Total(returns, S) /\ Returned(n)' = Total(rs, S1)
  BY <1>2, <1>3, <1>4 DEF Returned
<1>11. Total(returns, S) \in Nat
  BY <1>1, TotalTyped
<1> QED
  BY <1>9, <1>10, <1>11

\* One that is booked adds what it holds, to its own note.
LEMMA ReturnsBooked ==
  ASSUME Typed, NEW r \in DOMAIN returns, returns[r].status = "draft",
         returns' = [returns EXCEPT ![r].status = "submitted"], NEW n
  PROVE  Returned(n)' = Returned(n) + (IF returns[r].of = n THEN returns[r].qty ELSE 0)
<1>1. returns \in Seq(ReturnType)
  BY DEF Typed, ReturnsTyped
<1>2. PICK rs : rs = returns'
  OBVIOUS
<1>3. PICK S : S = ReturnsOf(n)
  OBVIOUS
<1>4. PICK S1 : S1 = ReturnsOf(n)'
  OBVIOUS
<1>5. PICK new : new = [returns[r] EXCEPT !.status = "submitted"]
  OBVIOUS
<1>6. PICK d \in Nat : d = (IF returns[r].of = n THEN returns[r].qty ELSE 0)
  <2>1. returns[r] \in ReturnType
    BY <1>1
  <2>2. returns[r].qty \in Nat
    BY <2>1 DEF ReturnType
  <2> QED
    BY <2>2
<1>7. new \in ReturnType /\ new.of = returns[r].of /\ new.qty = returns[r].qty
      /\ new.status = "submitted"
  <2>1. returns[r] \in ReturnType
    BY <1>1
  <2> QED
    BY <1>5, <2>1 DEF ReturnType
<1>8. rs = [returns EXCEPT ![r] = new]
  BY <1>2, <1>5
<1>9. /\ rs \in Seq(ReturnType) /\ Len(rs) = Len(returns) /\ Len(returns) \in Nat
      /\ DOMAIN returns = 1 .. Len(returns) /\ DOMAIN rs = 1 .. Len(rs)
      /\ \A i \in DOMAIN returns : rs[i] = IF i = r THEN new ELSE returns[i]
  <2>1. new \in ReturnType
    BY <1>7
  <2> HIDE DEF ReturnType
  <2> QED
    BY <1>1, <1>8, <2>1
<1>10. \A i \in DOMAIN returns : i \in S <=> (returns[i].of = n /\ returns[i].status = "submitted")
  BY <1>3 DEF ReturnsOf
<1>11. \A i \in DOMAIN rs : i \in S1 <=> (rs[i].of = n /\ rs[i].status = "submitted")
  BY <1>2, <1>4 DEF ReturnsOf
<1>12. \A i \in 1 .. Len(rs) :
         Part(rs, S1, i) = Part(returns, S, i) + (IF i = r THEN d ELSE 0)
  <2> SUFFICES ASSUME NEW i \in 1 .. Len(rs)
               PROVE  Part(rs, S1, i) = Part(returns, S, i) + (IF i = r THEN d ELSE 0)
    OBVIOUS
  <2>1. CASE i # r
    <3>1. i \in S <=> i \in S1
      BY <1>9, <1>10, <1>11, <2>1
    <3>2. Part(returns, S, i) \in Nat
      BY <1>1, <1>9, PartTyped
    <3> QED
      BY <1>9, <2>1, <3>1, <3>2 DEF Part
  <2>2. CASE i = r
    <3>1. i \notin S /\ (i \in S1 <=> returns[r].of = n)
      BY <1>7, <1>9, <1>10, <1>11, <2>2
    <3>2. Part(returns, S, i) = 0
      BY <3>1 DEF Part
    <3>3. Part(rs, S1, i) = d
      BY <1>6, <1>7, <1>9, <2>2, <3>1 DEF Part
    <3> QED
      BY <2>2, <3>2, <3>3
  <2> QED
    BY <2>1, <2>2
<1>13. Total(rs, S1) = Total(returns, S) + d
  <2>1. r \in 1 .. Len(rs) /\ Len(returns) <= Len(rs)
    BY <1>9
  <2> QED
    BY <1>1, <1>6, <1>9, <1>12, <2>1, TotalChanges
<1>14. Returned(n) = Total(returns, S) /\ Returned(n)' = Total(rs, S1)
  BY <1>2, <1>3, <1>4 DEF Returned
<1> QED
  BY <1>6, <1>13, <1>14

LEMMA NothingReturned ==
  ASSUME Typed, NEW n, n \notin DOMAIN notes
  PROVE  Returned(n) = 0
<1>1. returns \in Seq(ReturnType) /\ ReturnsOf(n) = {}
  BY DEF Typed, ReturnsTyped, ReturnsOf
<1>2. <<>> \in Seq(ReturnType) /\ Len(<<>>) = 0 /\ Len(returns) \in Nat
  BY <1>1
<1>3. PICK none : none = <<>>
  OBVIOUS
<1>4. Total(none, {}) = 0
  BY <1>2, <1>3, TotalIs
<1>5. CASE returns = <<>>
  BY <1>1, <1>3, <1>4, <1>5 DEF Returned
<1>6. CASE returns # <<>>
  <2>1. 1 \in 1 .. Len(returns)
    BY <1>1, <1>6
  <2>2. \A i \in 1 .. Len(returns) :
          Part(returns, {}, i) = Part(none, {}, i) + (IF i = 1 THEN 0 ELSE 0)
    BY DEF Part
  <2>3. none \in Seq(ReturnType) /\ Len(none) <= Len(returns)
    BY <1>2, <1>3
  <2>4. Total(returns, {}) = Total(none, {}) + 0
    BY <1>1, <2>1, <2>2, <2>3, TotalChanges
  <2> QED
    BY <1>1, <1>4, <2>4 DEF Returned
<1> QED
  BY <1>5, <1>6

\* The steps that make and that book a return note.
NewReturn(j) == [of |-> j.doc[2], qty |-> j.arg.back, status |-> "draft"]

LEMMA InsertReturnIs ==
  ASSUME Typed, NEW h \in Handlers, InsertReturn(h), NEW j, j = jobs[h]
  PROVE  /\ Working(h) /\ NoteJob(j) /\ j.pc = "insert" /\ UNCHANGED notes
         /\ UNCHANGED returns \/ returns' = Append(returns, NewReturn(j))
         /\ Working(h)' => /\ returns' = Append(returns, NewReturn(j))
                           /\ jobs'[h].pc = "book" /\ jobs'[h].attempt = Len(returns) + 1
                           /\ jobs'[h].doc = j.doc /\ jobs'[h].arg = j.arg
<1>1. Working(h) /\ j.pc = "insert" /\ UNCHANGED notes
  BY DEF InsertReturn, At
<1>2. NoteJob(j) /\ IsJob(j)
  BY <1>1, NoteHeld DEF Answering, ReceiptPcs, Deciding
<1>3. PICK r : r = NewReturn(j)
  OBVIOUS
<1>4. PICK k : k = [j EXCEPT !.pc = "book", !.attempt = Len(returns) + 1]
  OBVIOUS
<1>5. k.pc = "book" /\ k.attempt = Len(returns) + 1 /\ k.doc = j.doc /\ k.arg = j.arg
  BY <1>2, <1>4 DEF IsJob
<1>6. \E outcome \in Outcomes :
        /\ returns' = IF outcome = "refused" THEN returns ELSE Append(returns, r)
        /\ CASE outcome = "ok" -> Continue(h, k)
             [] outcome = "lost" -> Finish(h, "lost")
             [] OTHER -> Finish(h, "error")
  BY <1>3, <1>4 DEF InsertReturn, NewReturn
<1>7. PICK outcome \in Outcomes :
        /\ returns' = IF outcome = "refused" THEN returns ELSE Append(returns, r)
        /\ CASE outcome = "ok" -> Continue(h, k)
             [] outcome = "lost" -> Finish(h, "lost")
             [] OTHER -> Finish(h, "error")
  BY <1>6
<1>8. CASE outcome = "ok"
  BY <1>1, <1>2, <1>3, <1>5, <1>7, <1>8, ContinueGoes
<1>9. CASE outcome # "ok"
  <2>1. ~Working(h)'
    BY <1>7, <1>9, FinishGoes
  <2> QED
    BY <1>1, <1>2, <1>3, <1>7, <2>1
<1> QED
  BY <1>8, <1>9

BooksReturn(r, n) ==
  /\ Returned(n) + returns[r].qty <= notes[n].qty
  /\ returns' = [returns EXCEPT ![r].status = "submitted"]

LEMMA BookReturnIs ==
  ASSUME Typed, NEW h \in Handlers, BookReturn(h), ReturnKnown(jobs[h]),
         NEW j, j = jobs[h], NEW r, r = j.attempt, NEW n, n = j.doc[2]
  PROVE  /\ Working(h) /\ NoteJob(j) /\ j.pc = "book" /\ UNCHANGED notes
         /\ n \in DOMAIN notes /\ r \in DOMAIN returns /\ returns[r] = NewReturn(j)
         /\ UNCHANGED returns \/ BooksReturn(r, n)
         /\ Working(h)' => /\ BooksReturn(r, n)
                           /\ jobs'[h].doc = j.doc /\ jobs'[h].arg = j.arg
<1>1. Working(h) /\ j.pc = "book" /\ UNCHANGED notes
  BY DEF BookReturn, At
<1>2. NoteJob(j) /\ IsJob(j) /\ n \in DOMAIN notes
  BY <1>1, NoteHeld DEF Answering, ReceiptPcs, Deciding
<1>3. r \in DOMAIN returns /\ returns[r] = NewReturn(j)
  BY <1>1, <1>2 DEF NoteJob, ReturnKnown, NewReturn
<1>4. returns[r].of = n /\ returns[r].qty = j.arg.back
  BY <1>3 DEF NewReturn
<1>5. PICK outcome \in Outcomes :
        /\ outcome # "refused" => BooksReturn(r, n)
        /\ outcome = "refused" => UNCHANGED returns
        /\ IF outcome = "ok" THEN Go(h, "remarks") ELSE Finish(h, "lost")
  BY <1>4 DEF BookReturn, BooksReturn
<1>6. outcome # "ok" => ~Working(h)'
  BY <1>5, FinishGoes
<1>7. outcome = "ok" => jobs'[h].doc = j.doc /\ jobs'[h].arg = j.arg
  BY <1>1, <1>5, GoesTo
<1> QED
  BY <1>1, <1>2, <1>3, <1>5, <1>6, <1>7

\* Nothing else touches the return notes.
LEMMA ReturnsMove ==
  ASSUME Typed, [Next]_vars
  PROVE  \/ UNCHANGED returns
         \/ \E h \in Handlers : OthersKept(h) /\ (InsertReturn(h) \/ BookReturn(h))
<1>1. ASSUME NEW h \in Handlers, NoteStep(h)
      PROVE  UNCHANGED returns \/ InsertReturn(h) \/ BookReturn(h)
  BY <1>1 DEF NoteStep, Issue, CheckSource, CreateNote, OpenNote, ReadNote, SubmitNote,
     DeleteNote, Answer, GetNote, MapReturn, WriteRemarks, WriteState, noteVars
<1>2. \A n : DeskNote(n) => UNCHANGED returns
  BY DEF DeskNote
<1>3. UNCHANGED noteVars \/ UNCHANGED vars => UNCHANGED returns
  BY DEF noteVars, vars
<1> QED
  BY <1>1, <1>2, <1>3, StepsOfOne

\* A return that a request is about to book is touched by nobody else.
LEMMA ReturnStays ==
  ASSUME Typed, ReturnInv, [Next]_vars, NEW g \in Handlers, At(g, "book"), SameJob(g)
  PROVE  returns'[jobs[g].attempt] = returns[jobs[g].attempt]
<1>1. PICK i : i = jobs[g].attempt
  OBVIOUS
<1>2. i \in DOMAIN returns /\ returns \in Seq(ReturnType)
  BY <1>1, NoteRequestIs DEF At, Answering, Issuing, ReceiptPcs, Deciding, NoteJob, Typed,
     ReturnsTyped
<1>3. ASSUME NEW h \in Handlers, InsertReturn(h) PROVE returns'[i] = returns[i]
  <2>1. PICK r : r = NewReturn(jobs[h])
    OBVIOUS
  <2>2. returns' = returns \/ returns' = Append(returns, r)
    BY <1>3, <2>1, InsertReturnIs
  <2> QED
    BY <1>2, <2>2
<1>4. ASSUME NEW h \in Handlers, BookReturn(h) PROVE returns'[i] = returns[i]
  <2>1. PICK r : r = jobs[h].attempt
    OBVIOUS
  <2>2. At(h, "book") /\ ReturnKnown(jobs[h])
    BY <1>4 DEF BookReturn, At, ReturnInv
  <2>3. CASE h = g
    <3>1. Working(g)' /\ jobs'[g].pc = "book"
      BY OthersGoOn DEF At, Working
    <3>2. ~InsertReturn(g) /\ NoteStep(g)
      BY <1>4, <2>2, <2>3 DEF InsertReturn, At, NoteStep
    <3> QED
      BY <3>1, <3>2, NoteStepGoes
  <2>4. CASE h # g
    <3>1. r # i
      BY <1>1, <2>1, <2>2, <2>4 DEF ReturnInv, OneReturnEach
    <3>2. UNCHANGED returns \/ returns' = [returns EXCEPT ![r].status = "submitted"]
      BY <1>4, <2>1, <2>2, BookReturnIs DEF BooksReturn
    <3> QED
      BY <1>2, <3>1, <3>2
  <2> QED
    BY <2>3, <2>4
<1>5. returns'[i] = returns[i]
  BY <1>3, <1>4, ReturnsMove
<1> QED
  BY <1>1, <1>5

\* What has come back of a note only grows, and fits the note.
LEMMA ReturnsGrow ==
  ASSUME Typed, ReturnInv, [Next]_vars, NEW n \in DOMAIN notes
  PROVE  /\ n \in DOMAIN notes' /\ notes'[n].qty = notes[n].qty
         /\ Returned(n) \in Nat /\ Returned(n)' \in Nat
         /\ Returned(n) <= Returned(n)' /\ Returned(n)' <= notes'[n].qty
<1>1. n \in DOMAIN notes' /\ notes'[n].qty = notes[n].qty
  BY StepsOfOne DEF Kept, NotesKept, Later
<1>2. PICK q : q = notes[n].qty
  OBVIOUS
<1>3. PICK a : a = Returned(n)
  OBVIOUS
<1>4. PICK b : b = Returned(n)'
  OBVIOUS
<1>5. a \in Nat /\ q \in Nat /\ a <= q
  BY <1>2, <1>3, ReturnedIs, NoteIs DEF NoteType, ReturnInv, StateBackedByReturn
<1>6. b = a \/ (b \in Nat /\ a <= b /\ b <= q)
  <2>1. UNCHANGED returns => b = a
    BY <1>3, <1>4 DEF Returned, ReturnsOf
  <2>2. ASSUME NEW h \in Handlers, InsertReturn(h) PROVE b = a
    <3>1. PICK j : j = jobs[h]
      OBVIOUS
    <3>2. PICK r : r = NewReturn(j)
      OBVIOUS
    <3>3. j.doc[2] \in DOMAIN notes /\ j.arg.back \in Nat
      BY <2>2, <3>1, InsertReturnIs DEF NoteJob
    <3>4. r \in ReturnType /\ r.status = "draft"
      BY <3>2, <3>3, NoteIs DEF NewReturn, ReturnType
    <3>5. UNCHANGED returns \/ returns' = Append(returns, r)
      BY <2>2, <3>1, <3>2, InsertReturnIs
    <3> QED
      BY <1>3, <1>4, <2>1, <3>4, <3>5, ReturnsAppended
  <2>3. ASSUME NEW h \in Handlers, BookReturn(h)
        PROVE  b = a \/ (b \in Nat /\ a <= b /\ b <= q)
    <3>1. PICK j : j = jobs[h]
      OBVIOUS
    <3>2. PICK r : r = j.attempt
      OBVIOUS
    <3>3. PICK m : m = j.doc[2]
      OBVIOUS
    <3>4. ReturnKnown(j)
      BY <2>3, <3>1 DEF BookReturn, At, ReturnInv
    <3>5. /\ NoteJob(j) /\ j.pc = "book"
          /\ r \in DOMAIN returns /\ returns[r] = NewReturn(j)
          /\ UNCHANGED returns \/ BooksReturn(r, m)
      BY <2>3, <3>1, <3>2, <3>3, <3>4, BookReturnIs
    <3>6. PICK back \in Nat : back = j.arg.back
      BY <3>5 DEF NoteJob
    <3>7. returns[r].of = m /\ returns[r].qty = back /\ returns[r].status = "draft"
      BY <3>3, <3>5, <3>6 DEF NewReturn
    <3>8. CASE BooksReturn(r, m)
      <4>1. b = a + (IF returns[r].of = n THEN returns[r].qty ELSE 0)
        BY <1>3, <1>4, <3>5, <3>7, <3>8, ReturnsBooked DEF BooksReturn
      <4>2. CASE m = n
        <5>1. a + back <= q /\ b = a + back
          BY <1>2, <1>3, <3>7, <3>8, <4>1, <4>2 DEF BooksReturn
        <5> QED
          BY <1>5, <3>6, <5>1
      <4>3. CASE m # n
        BY <1>5, <3>7, <4>1, <4>3
      <4> QED
        BY <4>2, <4>3
    <3> QED
      BY <2>1, <3>5, <3>8
  <2> QED
    BY <2>1, <2>2, <2>3, ReturnsMove
<1> QED
  BY <1>1, <1>2, <1>3, <1>4, <1>5, <1>6

\* What a request knows of its note and its return holds while others work.
LEMMA ReturnKnownKept ==
  ASSUME Typed, ReturnInv, [Next]_vars, NEW g \in Handlers, Working(g), SameJob(g)
  PROVE  ReturnKnown(jobs[g])'
<1>1. PICK j : j = jobs[g]
  OBVIOUS
<1>2. PICK k : k = jobs'[g]
  OBVIOUS
<1>3. /\ k.pc = j.pc /\ k.doc = j.doc /\ k.arg = j.arg /\ k.copy = j.copy
      /\ k.attempt = j.attempt
  BY <1>1, <1>2, OthersGoOn
<1>4. ReturnKnown(j)
  BY <1>1 DEF ReturnInv
<1>5. CASE j.pc \notin {"map", "insert", "book", "remarks", "state"}
  <2>1. ReturnKnown(k)'
    BY <1>3, <1>5 DEF ReturnKnown
  <2> QED
    BY <1>2, <2>1
<1>6. CASE j.pc \in {"map", "insert", "book", "remarks", "state"}
  <2>1. NoteJob(j) /\ j.doc[2] \in DOMAIN notes
    BY <1>1, <1>6, NoteHeld DEF Answering, ReceiptPcs, Deciding
  <2>2. PICK n : n = j.doc[2]
    OBVIOUS
  <2>3. PICK a : a = Returned(n)
    OBVIOUS
  <2>4. PICK b : b = Returned(n)'
    OBVIOUS
  <2>5. PICK q : q = notes[n].qty
    OBVIOUS
  <2>6. notes'[n].qty = q /\ a \in Nat /\ b \in Nat /\ a <= b /\ b <= q /\ q \in Nat
    BY <2>1, <2>2, <2>3, <2>4, <2>5, ReturnsGrow, NoteIs DEF NoteType
  <2>7. j.pc \in {"insert", "book"} => j.arg.back \in Nat
    BY <2>1 DEF NoteJob
  <2>8. j.pc = "book" => returns'[j.attempt] = returns[j.attempt]
    BY <1>1, ReturnStays DEF At
  <2>9. /\ j.pc = "map" => j.copy.qty = q /\ (j.arg.state = REJECTED => j.arg.returned = j.copy.qty)
        /\ j.pc \in {"insert", "book"} /\ j.arg.state = REJECTED => b + j.arg.back >= q
        /\ j.pc = "book" =>
             returns'[j.attempt] = [of |-> n, qty |-> j.arg.back, status |-> "draft"]
        /\ j.pc \in {"remarks", "state"} /\ j.arg.state = REJECTED => b = q
        /\ j.pc \in {"remarks", "state"} /\ j.arg.state = PARTIAL => b > 0
    BY <1>4, <2>2, <2>3, <2>5, <2>6, <2>7, <2>8 DEF ReturnKnown
  <2>10. ReturnKnown(k)'
    BY <1>3, <2>2, <2>4, <2>6, <2>9 DEF ReturnKnown
  <2> QED
    BY <1>2, <2>10
<1> QED
  BY <1>5, <1>6

\* What a request comes to know by its own step.
LEMMA ReturnKnownStep ==
  ASSUME Typed, ReturnInv, [Next]_vars, NEW h \in Handlers, NoteStep(h), Working(h)'
  PROVE  ReturnKnown(jobs[h])'
<1>1. PICK j : j = jobs[h]
  OBVIOUS
<1>2. PICK k : k = jobs'[h]
  OBVIOUS
<1>3. PICK n : n = j.doc[2]
  OBVIOUS
<1>4. ASSUME At(h, "get") \/ At(h, "map") \/ At(h, "insert") \/ At(h, "book") \/ At(h, "remarks")
      PROVE  /\ NoteJob(j) /\ n \in DOMAIN notes /\ notes[n] \in NoteType /\ ReturnKnown(j)
  <2>1. Working(h) /\ j.pc \in Answering
    BY <1>1, <1>4 DEF At, Answering
  <2>2. NoteJob(j) /\ n \in DOMAIN notes
    BY <1>1, <1>3, <2>1, NoteHeld DEF Answering, Issuing, ReceiptPcs, Deciding
  <2> QED
    BY <1>1, <2>1, <2>2, NoteIs DEF ReturnInv
<1>5. UNCHANGED noteVars => Returned(n)' = Returned(n) /\ notes' = notes /\ returns' = returns
  BY DEF Returned, ReturnsOf, noteVars
<1>6. REJECTED # CONFIRMED /\ PARTIAL # CONFIRMED
  BY DEF REJECTED, CONFIRMED, PARTIAL
<1>7. CASE GetNote(h) /\ k.pc \in {"map", "remarks"}
  <2>1. n \in DOMAIN notes /\ notes[n] \in NoteType /\ UNCHANGED noteVars
    BY <1>4, <1>7 DEF GetNote
  <2>2. PICK d : d = Normalized(notes[n], j.arg)
    OBVIOUS
  <2>3. /\ d # None /\ k.doc = j.doc /\ k.arg = d /\ k.copy = notes[n]
        /\ k.pc = (IF d.returned > 0 THEN "map" ELSE "remarks")
    BY <1>1, <1>2, <1>3, <1>7, <2>2, GetNoteGoes
  <2>4. /\ d.state \in {REJECTED, CONFIRMED, PARTIAL}
        /\ d.state = REJECTED => d.returned = notes[n].qty /\ d.returned > 0
        /\ d.state = PARTIAL => d.returned > 0
    BY <2>1, <2>2, <2>3, NormalizedIs
  <2>5. ReturnKnown(k)'
    BY <1>3, <1>5, <1>6, <2>1, <2>3, <2>4 DEF ReturnKnown
  <2> QED
    BY <1>2, <2>5
<1>8. CASE MapReturn(h) /\ k.pc = "insert"
  <2>1. n \in DOMAIN notes /\ notes[n] \in NoteType /\ UNCHANGED noteVars /\ ReturnKnown(j)
        /\ j.pc = "map"
    BY <1>1, <1>4, <1>8 DEF MapReturn, At
  <2>2. PICK q \in Nat : q = notes[n].qty
    BY <2>1 DEF NoteType
  <2>3. PICK a \in Nat : a = Returned(n)
    BY ReturnedIs
  <2>4. /\ k.doc = j.doc /\ k.arg.state = j.arg.state
        /\ k.arg.back = QtyBack(j.copy.qty, q - a, j.arg.returned)
    BY <1>1, <1>2, <1>3, <1>8, <2>2, <2>3, MapReturnGoes
  <2>5. j.copy.qty = q /\ (j.arg.state = REJECTED => j.arg.returned = q)
    BY <1>3, <2>1, <2>2 DEF ReturnKnown
  <2>6. j.arg.state = REJECTED => k.arg.back = q - a
    BY <2>4, <2>5 DEF QtyBack
  <2>7. j.arg.state = REJECTED => a + k.arg.back >= q
    BY <2>2, <2>3, <2>6
  <2>8. Returned(n)' = a /\ notes'[n].qty = q
    BY <1>5, <2>1, <2>2, <2>3
  <2>9. ReturnKnown(k)'
    BY <1>3, <1>8, <2>4, <2>7, <2>8 DEF ReturnKnown
  <2> QED
    BY <1>2, <2>9
<1>9. CASE InsertReturn(h) /\ k.pc = "book"
  <2>1. n \in DOMAIN notes /\ NoteJob(j) /\ ReturnKnown(j) /\ j.pc = "insert"
    BY <1>1, <1>4, <1>9 DEF InsertReturn, At
  <2>2. PICK r : r = NewReturn(j)
    OBVIOUS
  <2>3. /\ returns' = Append(returns, r) /\ UNCHANGED notes /\ k.attempt = Len(returns) + 1
        /\ k.doc = j.doc /\ k.arg = j.arg
    BY <1>1, <1>2, <1>9, <2>2, InsertReturnIs
  <2>4. j.arg.back \in Nat
    BY <2>1 DEF NoteJob
  <2>5. r \in ReturnType /\ r.status = "draft"
        /\ r = [of |-> n, qty |-> j.arg.back, status |-> "draft"]
    BY <1>3, <2>1, <2>2, <2>4, NoteIs DEF NewReturn, ReturnType
  <2>6. Returned(n)' = Returned(n)
    BY <2>3, <2>5, ReturnsAppended
  <2>7. returns'[k.attempt] = r
    <3>1. returns \in Seq(ReturnType)
      BY DEF Typed, ReturnsTyped
    <3> QED
      BY <2>3, <3>1
  <2>8. ReturnKnown(k)'
    BY <1>3, <1>9, <2>1, <2>3, <2>5, <2>6, <2>7 DEF ReturnKnown
  <2> QED
    BY <1>2, <2>8
<1>10. CASE BookReturn(h) /\ k.pc = "remarks"
  <2>1. n \in DOMAIN notes /\ notes[n] \in NoteType /\ NoteJob(j) /\ ReturnKnown(j) /\ j.pc = "book"
    BY <1>1, <1>4, <1>10 DEF BookReturn, At
  <2>2. PICK r : r = j.attempt
    OBVIOUS
  <2>3. /\ r \in DOMAIN returns /\ returns[r] = NewReturn(j) /\ UNCHANGED notes
        /\ BooksReturn(r, n) /\ k.doc = j.doc /\ k.arg = j.arg
    BY <1>1, <1>2, <1>3, <1>10, <2>1, <2>2, BookReturnIs
  <2>4. PICK back \in Nat \ {0} : back = j.arg.back
    BY <2>1 DEF NoteJob
  <2>5. returns[r].of = n /\ returns[r].qty = back /\ returns[r].status = "draft"
    BY <1>3, <2>3, <2>4 DEF NewReturn
  <2>6. PICK q \in Nat : q = notes[n].qty
    BY <2>1 DEF NoteType
  <2>7. PICK a \in Nat : a = Returned(n)
    BY ReturnedIs
  <2>8. Returned(n)' = a + back
    BY <2>3, <2>5, <2>7, ReturnsBooked DEF BooksReturn
  <2>9. a + back <= q
    BY <2>3, <2>5, <2>6, <2>7 DEF BooksReturn
  <2>10. j.arg.state = REJECTED => a + back >= q
    BY <1>3, <2>1, <2>4, <2>6, <2>7 DEF ReturnKnown
  <2>11. a + back > 0 /\ (j.arg.state = REJECTED => a + back = q)
    BY <2>9, <2>10
  <2>12. notes'[n].qty = q
    BY <2>3, <2>6
  <2>13. ReturnKnown(k)'
    BY <1>3, <1>10, <2>3, <2>8, <2>11, <2>12 DEF ReturnKnown
  <2> QED
    BY <1>2, <2>13
<1>11. CASE WriteRemarks(h) /\ k.pc = "state"
  <2>1. n \in DOMAIN notes /\ ReturnKnown(j) /\ j.pc = "remarks" /\ Working(h) /\ UNCHANGED returns
    BY <1>1, <1>4, <1>11 DEF WriteRemarks, At
  <2>2. k.doc = j.doc /\ k.arg = j.arg
    <3>1. ~Finish(h, "lost")
      BY FinishGoes
    <3>2. Go(h, "state")
      BY <1>11, <3>1 DEF WriteRemarks
    <3> QED
      BY <1>1, <1>2, <2>1, <3>2, GoesTo
  <2>3. Returned(n)' = Returned(n) /\ notes'[n].qty = notes[n].qty
    BY <2>1, ReturnsGrow DEF Returned, ReturnsOf
  <2>4. ReturnKnown(k)'
    BY <1>3, <1>11, <2>1, <2>2, <2>3 DEF ReturnKnown
  <2> QED
    BY <1>2, <2>4
<1>12. CASE k.pc \in {"check", "open", "latest", "submit", "delete", "get", "create"}
  <2>1. ReturnKnown(k)'
    BY <1>12 DEF ReturnKnown
  <2> QED
    BY <1>2, <2>1
<1> QED
  BY <1>2, <1>7, <1>8, <1>9, <1>10, <1>11, <1>12, NoteStepGoes

LEMMA ReturnKnownNext ==
  ASSUME Typed, ReturnInv, [Next]_vars, NEW h \in Handlers, Working(h)'
  PROVE  ReturnKnown(jobs[h])'
<1>1. CASE SameJob(h)
  <2>1. Working(h)
    BY <1>1 DEF SameJob, Working
  <2> QED
    BY <1>1, <2>1, ReturnKnownKept
<1>2. CASE NoteStep(h)
  BY <1>2, ReturnKnownStep
<1>3. CASE ReceiptStep(h) /\ UNCHANGED noteVars
  <2>1. PICK k : k = jobs'[h]
    OBVIOUS
  <2>2. k.doc[1] = "receipt"
    BY <1>3, <2>1, ReceiptStepGoes
  <2>3. OpenJob(k)'
    BY <2>1, StepTyped DEF Typed
  <2>4. k.pc \in ReceiptPcs
    BY <2>2, <2>3 DEF OpenJob, ReceiptJob
  <2>5. ReturnKnown(k)'
    BY <2>4 DEF ReceiptPcs, Deciding, ReturnKnown
  <2> QED
    BY <2>1, <2>5
<1>4. ~Dropped(h)
  BY FinishGoes DEF Dropped
<1> QED
  BY <1>1, <1>2, <1>3, <1>4, StepsOfOne DEF AllKept, OthersKept

LEMMA OneReturnEachStep ==
  ASSUME Typed, ReturnInv, [Next]_vars
  PROVE  OneReturnEach'
<1>1. ASSUME NEW g \in Handlers, At(g, "book")', SameJob(g)
      PROVE  /\ At(g, "book") /\ jobs'[g].attempt = jobs[g].attempt
             /\ jobs[g].attempt \in 1 .. Len(returns)
  <2>1. Working(g)
    BY <1>1 DEF SameJob, At, Working
  <2>2. At(g, "book") /\ jobs'[g].attempt = jobs[g].attempt
    BY <1>1, <2>1, OthersGoOn DEF At
  <2>3. jobs[g].attempt \in DOMAIN returns /\ returns \in Seq(ReturnType)
    BY <2>1, <2>2, NoteRequestIs DEF At, Answering, Issuing, ReceiptPcs, Deciding, NoteJob,
       Typed, ReturnsTyped
  <2> QED
    BY <2>2, <2>3
<1>2. ASSUME NEW h \in Handlers, At(h, "book")', ~SameJob(h)
      PROVE  OthersKept(h) /\ jobs'[h].attempt = Len(returns) + 1 /\ Len(returns) \in Nat
  <2>1. Working(h)' /\ jobs'[h].pc = "book"
    BY <1>2 DEF At
  <2>2. ~Dropped(h)
    BY <2>1, FinishGoes DEF Dropped
  <2>3. ~(ReceiptStep(h) /\ UNCHANGED noteVars)
    <3>1. PICK k : k = jobs'[h]
      OBVIOUS
    <3>2. OpenJob(k)'
      BY <2>1, <3>1, StepTyped DEF Typed
    <3>3. k.pc \notin ReceiptPcs
      BY <2>1, <3>1 DEF ReceiptPcs, Deciding
    <3>4. k.doc[1] # "receipt"
      BY <3>2, <3>3 DEF OpenJob, ReceiptJob
    <3> QED
      BY <2>1, <3>1, <3>4, ReceiptStepGoes
  <2>4. OthersKept(h) /\ NoteStep(h)
    BY <1>2, <2>2, <2>3, StepsOfOne DEF AllKept, OthersKept
  <2>5. InsertReturn(h)
    BY <2>1, <2>4, NoteStepGoes
  <2> QED
    BY <2>1, <2>4, <2>5, InsertReturnIs DEF Typed, ReturnsTyped
<1> SUFFICES ASSUME NEW g \in Handlers, NEW h \in Handlers, g # h,
                    At(g, "book")', At(h, "book")'
             PROVE  jobs'[g].attempt # jobs'[h].attempt
  BY DEF OneReturnEach
<1>3. CASE SameJob(g) /\ SameJob(h)
  BY <1>1, <1>3 DEF ReturnInv, OneReturnEach
<1>4. CASE ~SameJob(g)
  <2>1. SameJob(h) /\ jobs'[g].attempt = Len(returns) + 1 /\ Len(returns) \in Nat
    BY <1>2, <1>4 DEF OthersKept
  <2> QED
    BY <1>1, <2>1
<1>5. CASE ~SameJob(h)
  <2>1. SameJob(g) /\ jobs'[h].attempt = Len(returns) + 1 /\ Len(returns) \in Nat
    BY <1>2, <1>5 DEF OthersKept
  <2> QED
    BY <1>1, <2>1
<1> QED
  BY <1>3, <1>4, <1>5

\* Who writes the state of a note.
LEMMA NoteStates ==
  ASSUME Typed, [Next]_vars, NEW n \in DOMAIN notes
  PROVE  \/ notes'[n].state = notes[n].state \/ notes'[n].state = PENDING
         \/ \E h \in Handlers : /\ At(h, "state") /\ jobs[h].doc[2] = n /\ UNCHANGED returns
                                /\ notes'[n].state = jobs[h].arg.state
<1>1. notes \in Seq(NoteType) /\ Len(notes) \in Nat /\ DOMAIN notes = 1 .. Len(notes)
  BY DEF Typed, NotesTyped
<1>2. UNCHANGED notes \/ UNCHANGED noteVars \/ UNCHANGED vars => notes'[n] = notes[n]
  BY DEF noteVars, vars
<1>3. ASSUME NEW m \in DOMAIN notes, NEW doc, NEW new, doc \in NoteType,
             new = [doc EXCEPT !.rev = notes[m].rev + 1], notes' = [notes EXCEPT ![m] = new]
      PROVE  notes'[n].state = (IF n = m THEN doc.state ELSE notes[n].state)
  <2>1. new.state = doc.state
    BY <1>3 DEF NoteType
  <2>2. notes'[n] = IF n = m THEN new ELSE notes[n]
    BY <1>3
  <2> QED
    BY <2>1, <2>2
<1>4. ASSUME NEW m \in DOMAIN notes, NEW doc \in NoteType, StoredNote(m, doc)
      PROVE  notes'[n].state = (IF n = m THEN doc.state ELSE notes[n].state)
  <2>1. PICK new : new = [doc EXCEPT !.rev = notes[m].rev + 1]
    OBVIOUS
  <2> QED
    BY <1>3, <1>4, <2>1 DEF StoredNote
<1>5. ASSUME NEW m \in DOMAIN notes, NEW doc \in NoteType, StoredNote(m, doc),
             doc.state = notes[m].state
      PROVE  notes'[n].state = notes[n].state
  BY <1>4, <1>5
<1>6. ASSUME NEW m \in DOMAIN notes, NEW status \in {"draft", "submitted", "cancelled", "deleted"},
             StoredNote(m, [notes[m] EXCEPT !.status = status])
      PROVE  notes'[n].state = notes[n].state
  <2>1. PICK doc : doc = [notes[m] EXCEPT !.status = status]
    OBVIOUS
  <2>2. doc \in NoteType /\ doc.state = notes[m].state
    BY <2>1, NoteIs DEF NoteType
  <2> QED
    BY <1>5, <1>6, <2>1, <2>2
<1>7. ASSUME NEW m \in DOMAIN notes, NEW state \in 0 .. 4, NEW outcome, PutState(m, state, outcome)
      PROVE  notes'[n].state = notes[n].state \/ (n = m /\ notes'[n].state = state)
  <2>1. PICK doc : doc = [notes[m] EXCEPT !.flow = 1, !.state = state]
    OBVIOUS
  <2>2. doc \in NoteType /\ doc.state = state
    BY <2>1, NoteIs DEF NoteType
  <2>3. UNCHANGED notes \/ StoredNote(m, doc)
    BY <1>7, <2>1 DEF PutState, PutFields
  <2> QED
    BY <1>2, <1>4, <2>2, <2>3
<1>8. ASSUME NEW h \in Handlers, OpenNote(h)
      PROVE  notes'[n].state = notes[n].state \/ notes'[n].state = PENDING
  <2>1. jobs[h].doc[2] \in DOMAIN notes
    BY <1>8, NoteHeld DEF OpenNote, At, Issuing, ReceiptPcs, Deciding
  <2>2. PENDING \in 0 .. 4
    BY DEF PENDING
  <2> QED
    BY <1>7, <1>8, <2>1, <2>2 DEF OpenNote
<1>9. ASSUME NEW h \in Handlers, WriteState(h)
      PROVE  \/ notes'[n].state = notes[n].state
             \/ /\ At(h, "state") /\ jobs[h].doc[2] = n /\ UNCHANGED returns
                /\ notes'[n].state = jobs[h].arg.state
  <2>1. At(h, "state") /\ UNCHANGED returns
    BY <1>9 DEF WriteState
  <2>2. jobs[h].doc[2] \in DOMAIN notes /\ NoteJob(jobs[h])
    BY <2>1, NoteHeld DEF At, Answering, Issuing, ReceiptPcs, Deciding
  <2>3. jobs[h].arg.state \in 0 .. 4
    BY <2>1, <2>2 DEF NoteJob, At, Answering, REJECTED, CONFIRMED, PARTIAL
  <2> QED
    BY <1>7, <1>9, <2>1, <2>2, <2>3 DEF WriteState
<1>10. ASSUME NEW h \in Handlers, WriteRemarks(h) PROVE notes'[n].state = notes[n].state
  <2>1. PICK j : j = jobs[h]
    OBVIOUS
  <2>2. j.doc[2] \in DOMAIN notes /\ NoteJob(j) /\ j.pc = "remarks"
    BY <1>10, <2>1, NoteHeld DEF WriteRemarks, At, Answering, Issuing, ReceiptPcs, Deciding
  <2>3. PICK d : d = [accepted |-> j.arg.accepted, returned |-> j.arg.returned]
    OBVIOUS
  <2>4. d \in {None} \cup [accepted : Nat, returned : Nat]
    BY <2>2, <2>3 DEF NoteJob, Answering
  <2>5. PICK old : old = notes[j.doc[2]]
    OBVIOUS
  <2>6. PICK doc : doc = [old EXCEPT !.decision = d]
    OBVIOUS
  <2>7. old \in NoteType
    BY <2>2, <2>5, NoteIs
  <2>8. doc \in NoteType /\ doc.state = old.state
    BY <2>4, <2>6, <2>7 DEF NoteType
  <2>9. UNCHANGED notes \/ StoredNote(j.doc[2], doc)
    BY <1>10, <2>1, <2>3, <2>5, <2>6 DEF WriteRemarks, PutFields
  <2> QED
    BY <1>2, <1>5, <2>2, <2>5, <2>8, <2>9
<1>11. ASSUME NEW h \in Handlers, SubmitNote(h) \/ DeleteNote(h)
       PROVE  notes'[n].state = notes[n].state
  <2>1. jobs[h].doc[2] \in DOMAIN notes
    BY <1>11, NoteHeld DEF SubmitNote, DeleteNote, At, Issuing, ReceiptPcs, Deciding
  <2>2. UNCHANGED notes
        \/ StoredNote(jobs[h].doc[2], [notes[jobs[h].doc[2]] EXCEPT !.status = "submitted"])
        \/ StoredNote(jobs[h].doc[2], [notes[jobs[h].doc[2]] EXCEPT !.status = "deleted"])
    BY <1>11 DEF SubmitNote, DeleteNote
  <2> QED
    BY <1>2, <1>6, <2>1, <2>2
<1>12. ASSUME NEW h \in Handlers, CreateNote(h) PROVE notes'[n] = notes[n]
  <2>1. UNCHANGED notes \/ \E new : notes' = Append(notes, new)
    BY <1>12 DEF CreateNote
  <2> QED
    BY <1>1, <2>1
<1>13. ASSUME NEW m, DeskNote(m) PROVE notes'[n].state = notes[n].state
  <2>1. m \in DOMAIN notes
    BY <1>13 DEF DeskNote, Exists
  <2>2. StoredNote(m, notes[m]) \/ StoredNote(m, [notes[m] EXCEPT !.status = "cancelled"])
    BY <1>13 DEF DeskNote
  <2>3. notes[m] \in NoteType
    BY <2>1, NoteIs
  <2> QED
    BY <1>5, <1>6, <2>1, <2>2, <2>3
<1>14. ASSUME NEW h \in Handlers, NoteStep(h)
       PROVE  \/ notes'[n].state = notes[n].state \/ notes'[n].state = PENDING
              \/ /\ At(h, "state") /\ jobs[h].doc[2] = n /\ UNCHANGED returns
                 /\ notes'[n].state = jobs[h].arg.state
  <2>1. \/ UNCHANGED notes \/ UNCHANGED noteVars
        \/ CreateNote(h) \/ OpenNote(h) \/ SubmitNote(h) \/ DeleteNote(h)
        \/ WriteRemarks(h) \/ WriteState(h)
    BY <1>14 DEF NoteStep, Issue, CheckSource, ReadNote, Answer, GetNote, MapReturn,
       InsertReturn, BookReturn
  <2> QED
    BY <1>2, <1>8, <1>9, <1>10, <1>11, <1>12, <2>1
<1> QED
  BY <1>2, <1>13, <1>14, StepsOfOne

LEMMA BackedStep ==
  ASSUME Typed, ReturnInv, [Next]_vars
  PROVE  StateBackedByReturn'
<1>1. REJECTED # PENDING /\ PARTIAL # PENDING /\ PENDING # 0 /\ REJECTED # 0 /\ PARTIAL # 0
  BY DEF REJECTED, PARTIAL, PENDING
<1> SUFFICES ASSUME NEW n \in DOMAIN notes'
             PROVE  /\ Returned(n)' <= notes'[n].qty
                    /\ notes'[n].state = REJECTED => Returned(n)' = notes'[n].qty
                    /\ notes'[n].state = PARTIAL => Returned(n)' > 0
  BY DEF StateBackedByReturn
<1>2. CASE n \in DOMAIN notes
  <2>1. PICK a : a = Returned(n)
    OBVIOUS
  <2>2. PICK b : b = Returned(n)'
    OBVIOUS
  <2>3. PICK q : q = notes[n].qty
    OBVIOUS
  <2>4. notes'[n].qty = q /\ a \in Nat /\ b \in Nat /\ a <= b /\ b <= q /\ q \in Nat
    BY <1>2, <2>1, <2>2, <2>3, ReturnsGrow, NoteIs DEF NoteType
  <2>5. /\ notes[n].state = REJECTED => a = q
        /\ notes[n].state = PARTIAL => a > 0
    BY <1>2, <2>1, <2>3 DEF ReturnInv, StateBackedByReturn
  <2>6. CASE notes'[n].state = notes[n].state
    BY <2>2, <2>4, <2>5, <2>6
  <2>7. CASE notes'[n].state = PENDING
    BY <1>1, <2>2, <2>4, <2>7
  <2>8. ASSUME NEW h \in Handlers, At(h, "state"), jobs[h].doc[2] = n, UNCHANGED returns,
               notes'[n].state = jobs[h].arg.state
        PROVE  /\ notes'[n].state = REJECTED => b = q
               /\ notes'[n].state = PARTIAL => b > 0
    <3>1. ReturnKnown(jobs[h]) /\ jobs[h].pc = "state"
      BY <2>8 DEF At, ReturnInv
    <3>2. a = b
      BY <2>1, <2>2, <2>8 DEF Returned, ReturnsOf
    <3> QED
      BY <2>1, <2>3, <2>8, <3>1, <3>2 DEF ReturnKnown
  <2> QED
    BY <1>2, <2>2, <2>4, <2>6, <2>7, <2>8, NoteStates
<1>3. CASE n \notin DOMAIN notes
  <2>1. \A h \in Handlers : ~InsertReturn(h) /\ ~BookReturn(h)
    BY <1>3 DEF InsertReturn, BookReturn
  <2>2. UNCHANGED returns
    BY <2>1, ReturnsMove
  <2>3. Returned(n)' = 0
    BY <1>3, <2>2, NothingReturned DEF Returned, ReturnsOf
  <2>4. PICK h \in Handlers :
          /\ Working(h) /\ jobs[h].pc = "create" /\ jobs[h].doc = Note(None)
          /\ notes' = Append(notes, NewNote(Head(jobs[h].arg.lines), jobs[h].copy))
    BY <1>3, NotesAdded
  <2>5. PICK new : new = NewNote(Head(jobs[h].arg.lines), jobs[h].copy)
    OBVIOUS
  <2>6. new.state = 0
    BY <2>5 DEF NewNote
  <2>7. notes'[n] = new
    BY <1>3, <2>4, <2>5 DEF Typed, NotesTyped
  <2>8. notes'[n].qty \in Nat
    <3>1. NotesTyped'
      BY StepTyped DEF Typed
    <3>2. notes'[n] \in NoteType
      BY <3>1 DEF NotesTyped
    <3> QED
      BY <3>2 DEF NoteType
  <2> QED
    BY <1>1, <2>3, <2>6, <2>7, <2>8
<1> QED
  BY <1>2, <1>3

LEMMA ReturnsStep ==
  ASSUME Typed, ReturnInv, [Next]_vars
  PROVE  ReturnInv'
<1>1. \A h \in Handlers : Working(h)' => ReturnKnown(jobs[h])'
  BY ReturnKnownNext
<1> QED
  BY <1>1, BackedStep, OneReturnEachStep DEF ReturnInv

(* What the customer is said to have sent back has come back, however      *)
(* answers, claims, the desk and lost connections interleave: a rejected   *)
(* note is returned whole, a partly accepted one at least in part, and     *)
(* never more than was sent.                                               *)
THEOREM StatesBacked == Spec => []StateBackedByReturn
<1>1. Init => ReturnInv
  <2> SUFFICES ASSUME Init PROVE ReturnInv
    OBVIOUS
  <2>1. notes = <<>> /\ \A h \in Handlers : ~Working(h)
    BY DEF Init, RequestsInit, Idle, Working
  <2> QED
    BY <2>1 DEF ReturnInv, StateBackedByReturn, OneReturnEach, At
<1>2. Typed /\ ReturnInv /\ [Next]_vars => ReturnInv'
  BY ReturnsStep
<1>3. ReturnInv => StateBackedByReturn
  BY DEF ReturnInv
<1> QED
  BY <1>1, <1>2, <1>3, StockTyped, PTL DEF Spec
-----------------------------------------------------------------------------
(***************************************************************************)
(* Requests that are alone with their document. Whoever begins to work on  *)
(* a document, or touches it on the desk, ends the being alone of those    *)
(* that work on it, and no other step writes a document that is not the    *)
(* request's own: what a request that is alone read is still there.        *)
(***************************************************************************)
Writing == {"confirm", "answer"}
Without == {"create", "check"}

\* Nobody else works on the document of a request that is alone with it.
AloneInv ==
  \A h \in Handlers, g \in Handlers :
    (g # h /\ Working(h) /\ jobs[h].op \in Writing /\ jobs[h].alone /\ On(g, jobs[h].doc))
      => jobs[g].pc \in Without

\* What ERPNext holds while a confirmation that is alone is at each step.
ConfirmKnows(j) ==
  LET now  == receipts[j.doc[2]]
      done == Decided(j.copy, j.arg)
  IN  /\ j.pc = "fetch" => j.copy = None
      /\ j.pc \in {"note", "write"} => now = j.copy
      /\ j.pc \in Deciding => (FullReturn(j.copy, j.arg) <=> j.pc = "note")
      /\ j.pc # "undo" => ~j.lost
      /\ (j.pc \in {"latest", "submit", "undo"} /\ ~j.lost) =>
           Same(now, done) /\ now.status = j.copy.status
      /\ j.pc = "submit" => j.arg.seen = now

ConfirmInv ==
  \A h \in Handlers :
    (Working(h) /\ jobs[h].op = "confirm" /\ jobs[h].alone) => ConfirmKnows(jobs[h])

LEMMA NewcomerDisturbs ==
  ASSUME Typed, NEW g \in Handlers, NEW op, NEW pc, NEW doc, NEW arg, Begin(g, op, pc, doc, arg),
         NEW h \in Handlers \ {g}, On(h, doc)
  PROVE  ~jobs'[h].alone
<1>1. PICK j : j = jobs[h]
  OBVIOUS
<1>2. IsJob(j)
  BY <1>1, RequestIs DEF On
<1>3. PICK js : js = Disturb(jobs, doc)
  OBVIOUS
<1>4. js = [k \in Handlers |-> js[k]] /\ js[h] = [j EXCEPT !.alone = FALSE]
  BY <1>1, <1>3 DEF Disturb, On, Working
<1>5. js[h].alone = FALSE
  BY <1>2, <1>4 DEF IsJob
<1>6. PICK job : jobs' = [js EXCEPT ![g] = job]
  BY <1>3 DEF Begin
<1>7. jobs'[h] = js[h]
  BY <1>4, <1>6, Zenon
<1> QED
  BY <1>5, <1>7

LEMMA DeskDisturbs ==
  ASSUME Typed, NEW doc, DeskActs(doc), NEW h \in Handlers, On(h, doc)
  PROVE  ~jobs'[h].alone
<1>1. PICK j : j = jobs[h]
  OBVIOUS
<1>2. IsJob(j)
  BY <1>1, RequestIs DEF On
<1>3. jobs'[h] = [j EXCEPT !.alone = FALSE]
  BY <1>1 DEF DeskActs, Disturb, On, Working
<1> QED
  BY <1>2, <1>3 DEF IsJob

\* The requests that decide about a receipt, and those that answer a note.
LEMMA WritingIs ==
  ASSUME Typed, NEW h \in Handlers, Working(h), NEW j, j = jobs[h]
  PROVE  /\ IsJob(j) /\ j.doc = <<j.doc[1], j.doc[2]>> /\ j.alone \in BOOLEAN
         /\ j.op = "confirm" => /\ j.doc[1] = "receipt" /\ j.doc[2] \in DOMAIN receipts
                                /\ j.pc \in {"fetch"} \cup Deciding /\ ReceiptJob(j)
         /\ j.op = "answer" => /\ j.doc[1] = "note" /\ j.doc[2] \in DOMAIN notes
                               /\ j.pc \in Answering /\ NoteJob(j)
         /\ j.op \in Writing => j.pc \notin Without
<1>1. OpenJob(j) /\ IsJob(j)
  BY RequestIs
<1>2. ASSUME j.op = "confirm"
      PROVE  /\ j.doc[1] = "receipt" /\ ReceiptJob(j) /\ j.pc \in {"fetch"} \cup Deciding
             /\ j.doc[2] \in DOMAIN receipts
  BY <1>1, <1>2 DEF OpenJob, ReceiptJob, NoteJob, Issuing, Answering, Deciding
<1>3. ASSUME j.op = "answer"
      PROVE  /\ j.doc[1] = "note" /\ NoteJob(j) /\ j.pc \in Answering
             /\ j.doc[2] \in DOMAIN notes
  BY <1>1, <1>3 DEF OpenJob, ReceiptJob, ReceiptOps, NoteJob, Issuing, Answering
<1>4. j.doc = <<j.doc[1], j.doc[2]>> /\ j.alone \in BOOLEAN
  BY <1>1 DEF OpenJob
<1> QED
  BY <1>1, <1>2, <1>3, <1>4 DEF Writing, Without, Deciding, Answering

\* Where a step leaves the request that takes it, and the one it begins.
Stays(g) ==
  /\ Working(g) /\ jobs[g].pc \notin Without
  /\ jobs'[g].op = jobs[g].op /\ jobs'[g].doc = jobs[g].doc /\ jobs'[g].alone = jobs[g].alone
Starts(g) == \E op, pc, doc, arg : Begin(g, op, pc, doc, arg)

LEMMA ReceiptRequestGoes ==
  ASSUME Typed, NEW g \in Handlers, ReceiptStep(g), Working(g)'
  PROVE  \/ Starts(g)
         \/ Stays(g)
         \/ /\ Working(g) /\ jobs'[g].op = jobs[g].op /\ jobs[g].op \notin Writing
            /\ jobs'[g].doc = Receipt(Len(receipts) + 1)
<1>1. CASE ~Working(g)
  <2>1. \/ \E s \in Suppliers, qty \in Quantities : Dispatch(g, s, qty) \/ Unannounced(g, s, qty)
        \/ \E n \in 1 .. MaxReceipts, d \in Decisions : Confirm(g, n, d)
        \/ \E n \in 1 .. MaxReceipts, s \in Suppliers, approve \in BOOLEAN : Respond(g, n, s, approve)
        \/ \E n \in 1 .. MaxReceipts, s \in Suppliers : Acknowledge(g, n, s)
    BY <1>1 DEF ReceiptStep, CreateRefused, CreateDone, MarkUnannounced, Fetch,
       NoteFullReturn, WriteDecision, ReadLatest, SubmitDecision, Undo, ReadResponse,
       WriteResponse, ReadAck, WriteAck, At
  <2> QED
    BY <2>1, Zenon DEF Starts, Dispatch, Unannounced, Confirm, Respond, Acknowledge
<1>2. CASE Working(g)
  <2>1. PICK j : j = jobs[g]
    OBVIOUS
  <2>2. IsJob(j)
    BY <1>2, <2>1, RequestIs
  <2>3. \A result : ~Finish(g, result)
    BY FinishGoes
  <2>4. SUFFICES ASSUME NEW k, jobs'[g] = k, NEW n, n = Len(receipts) + 1,
                        \/ CreateRefused(g) \/ CreateDone(g)
                        \/ MarkUnannounced(g) \/ Fetch(g) \/ NoteFullReturn(g) \/ WriteDecision(g)
                        \/ ReadLatest(g) \/ SubmitDecision(g) \/ Undo(g)
                        \/ ReadResponse(g) \/ WriteResponse(g) \/ ReadAck(g) \/ WriteAck(g)
                 PROVE  \/ /\ j.pc \notin Without
                           /\ k.op = j.op /\ k.doc = j.doc /\ k.alone = j.alone
                        \/ k.op = j.op /\ j.op \notin Writing /\ k.doc = Receipt(n)
    <3>1. ~(\E op, pc, doc, arg : Begin(g, op, pc, doc, arg))
      BY <1>2 DEF Begin
    <3>2. \/ CreateRefused(g) \/ CreateDone(g)
          \/ MarkUnannounced(g) \/ Fetch(g) \/ NoteFullReturn(g) \/ WriteDecision(g)
          \/ ReadLatest(g) \/ SubmitDecision(g) \/ Undo(g)
          \/ ReadResponse(g) \/ WriteResponse(g) \/ ReadAck(g) \/ WriteAck(g)
      BY <3>1 DEF ReceiptStep, Dispatch, Unannounced, Confirm, Respond, Acknowledge
    <3> QED
      BY <1>2, <2>1, <2>4, <3>2 DEF Stays
  <2> DEFINE Same1 == k.op = j.op /\ k.doc = j.doc /\ k.alone = j.alone
  <2>5. \A pc : Continue(g, [j EXCEPT !.pc = pc]) => Same1
    BY <2>2, <2>4, ContinueGoes DEF IsJob
  <2>6. \A pc, lost : Continue(g, [j EXCEPT !.pc = pc, !.lost = lost]) => Same1
    BY <2>2, <2>4, ContinueGoes DEF IsJob
  <2>7. \A pc, arg : Continue(g, [j EXCEPT !.pc = pc, !.arg = arg]) => Same1
    BY <2>2, <2>4, ContinueGoes DEF IsJob
  <2>8. \A pc, copy : (\/ Continue(g, [j EXCEPT !.pc = pc, !.copy = copy])
                       \/ Continue(g, [j EXCEPT !.copy = copy, !.pc = pc])) => Same1
    BY <2>2, <2>4, ContinueGoes DEF IsJob
  <2>9. Continue(g, [j EXCEPT !.pc = "latest", !.attempt = 1]) => Same1
    BY <2>2, <2>4, ContinueGoes DEF IsJob
  <2>10. ASSUME Continue(g, [j EXCEPT !.doc = Receipt(n), !.pc = "mark"])
         PROVE  k.op = j.op /\ k.doc = Receipt(n)
    <3>1. PICK doc : doc = Receipt(n)
      OBVIOUS
    <3>2. k = [j EXCEPT !.doc = doc, !.pc = "mark"]
      BY <2>4, <2>10, <3>1, ContinueGoes
    <3> QED
      BY <2>2, <3>1, <3>2 DEF IsJob
  <2> HIDE DEF Same1
  <2>11. CASE CreateRefused(g)
    BY <2>3, <2>11 DEF CreateRefused
  <2>12. CASE CreateDone(g)
    <3>1. j.pc = "create" /\ j.doc = Receipt(None)
      BY <2>1, <2>12 DEF CreateDone, At
    <3>2. j.op \notin Writing
      BY <1>2, <2>1, <3>1, WritingIs DEF Without
    <3> QED
      BY <2>1, <2>3, <2>4, <2>10, <2>12, <3>2 DEF CreateDone
  <2>13. CASE MarkUnannounced(g)
    BY <2>3, <2>13 DEF MarkUnannounced
  <2>14. CASE Fetch(g) \/ NoteFullReturn(g) \/ WriteDecision(g)
    <3>1. j.pc \notin Without
      BY <2>1, <2>14 DEF Fetch, NoteFullReturn, WriteDecision, At, Without
    <3>2. Same1
      BY <2>1, <2>3, <2>5, <2>8, <2>14, ReadFailsTyped
         DEF Fetch, NoteFullReturn, WriteDecision, Finish, Go, Outcomes
    <3> QED
      BY <3>1, <3>2 DEF Same1
  <2>15. CASE ReadLatest(g) \/ SubmitDecision(g) \/ Undo(g)
    <3>1. j.pc \notin Without
      BY <2>1, <2>15 DEF ReadLatest, SubmitDecision, Undo, At, Without
    <3>2. \A outcome : AfterSubmit(g, outcome) => Same1
      BY <2>1, <2>3, <2>6 DEF AfterSubmit
    <3>3. CASE ReadLatest(g)
      BY <2>1, <2>5, <2>7, <3>1, <3>3, ReadFailsTyped DEF ReadLatest, Same1
    <3>4. CASE SubmitDecision(g) \/ Undo(g)
      BY <2>1, <2>3, <2>9, <3>1, <3>2, <3>4 DEF SubmitDecision, Undo, Same1
    <3> QED
      BY <2>15, <3>3, <3>4
  <2>16. CASE ReadResponse(g) \/ WriteResponse(g) \/ ReadAck(g) \/ WriteAck(g)
    <3>1. j.pc \notin Without
      BY <2>1, <2>16 DEF ReadResponse, WriteResponse, ReadAck, WriteAck, At, Without
    <3>2. Same1
      BY <2>1, <2>3, <2>7, <2>8, <2>16, ReadFailsTyped
         DEF ReadResponse, WriteResponse, ReadAck, WriteAck, Finish
    <3> QED
      BY <3>1, <3>2 DEF Same1
  <2> QED
    BY <2>4, <2>11, <2>12, <2>13, <2>14, <2>15, <2>16
<1> QED
  BY <1>1, <1>2

LEMMA NoteRequestGoes ==
  ASSUME Typed, NEW g \in Handlers, NoteStep(g), Working(g)'
  PROVE  \/ Starts(g)
         \/ Stays(g)
         \/ Working(g) /\ jobs'[g].op \notin Writing /\ jobs'[g].pc \in Without
         \/ Working(g) /\ jobs'[g].op \notin Writing /\ jobs'[g].doc = Note(Len(notes) + 1)
<1>1. CASE ~Working(g)
  <2>1. \/ \E lines \in IssueRequests : Issue(g, lines)
        \/ \E n \in 1 .. MaxNotes, c \in Customers, answer \in Responses : Answer(g, n, c, answer)
    BY <1>1 DEF NoteStep, CheckSource, CreateNote, OpenNote, ReadNote, SubmitNote, DeleteNote,
       GetNote, MapReturn, InsertReturn, BookReturn, WriteRemarks, WriteState, At
  <2> QED
    BY <2>1, Zenon DEF Starts, Issue, Answer
<1>2. CASE Working(g)
  <2>1. PICK j : j = jobs[g]
    OBVIOUS
  <2>2. IsJob(j) /\ NoteJob(j)
    BY <1>2, <2>1, RequestIs, NoteStepIs
  <2>3. \A result : ~Finish(g, result)
    BY FinishGoes
  <2>4. SUFFICES ASSUME NEW k, jobs'[g] = k, NEW n, n = Len(notes) + 1,
                        \/ CheckSource(g) \/ CreateNote(g) \/ OpenNote(g)
                        \/ ReadNote(g) \/ SubmitNote(g) \/ DeleteNote(g)
                        \/ GetNote(g) \/ MapReturn(g) \/ InsertReturn(g) \/ BookReturn(g)
                        \/ WriteRemarks(g) \/ WriteState(g)
                 PROVE  \/ /\ j.pc \notin Without
                           /\ k.op = j.op /\ k.doc = j.doc /\ k.alone = j.alone
                        \/ k.op \notin Writing /\ k.pc \in Without
                        \/ k.op \notin Writing /\ k.doc = Note(n)
    <3>1. ~(\E op, pc, doc, arg : Begin(g, op, pc, doc, arg))
      BY <1>2 DEF Begin
    <3>2. \/ CheckSource(g) \/ CreateNote(g) \/ OpenNote(g)
          \/ ReadNote(g) \/ SubmitNote(g) \/ DeleteNote(g)
          \/ GetNote(g) \/ MapReturn(g) \/ InsertReturn(g) \/ BookReturn(g)
          \/ WriteRemarks(g) \/ WriteState(g)
      BY <3>1 DEF NoteStep, Issue, Answer
    <3> QED
      BY <1>2, <2>1, <2>4, <3>2 DEF Stays
  <2> DEFINE Same1 == k.op = j.op /\ k.doc = j.doc /\ k.alone = j.alone
             Issues == k.op \notin Writing /\ k.pc \in Without
  <2>5. \A pc : Continue(g, [j EXCEPT !.pc = pc]) => Same1
    BY <2>2, <2>4, ContinueGoes DEF IsJob
  <2>6. \A pc, arg : Continue(g, [j EXCEPT !.pc = pc, !.arg = arg]) => Same1
    BY <2>2, <2>4, ContinueGoes DEF IsJob
  <2>7. \A pc, copy : Continue(g, [j EXCEPT !.pc = pc, !.copy = copy]) => Same1 /\ k.pc = pc
    BY <2>2, <2>4, ContinueGoes DEF IsJob
  <2>8. \A pc, attempt : Continue(g, [j EXCEPT !.pc = pc, !.attempt = attempt]) => Same1
    BY <2>2, <2>4, ContinueGoes DEF IsJob
  <2>9. \A copy, arg, pc : Continue(g, [j EXCEPT !.copy = copy, !.arg = arg, !.pc = pc]) => Same1
    BY <2>2, <2>4, ContinueGoes DEF IsJob
  <2>10. ASSUME Continue(g, [j EXCEPT !.pc = "open", !.doc = Note(n)])
         PROVE  k.op = j.op /\ k.doc = Note(n)
    <3>1. PICK doc : doc = Note(n)
      OBVIOUS
    <3>2. k = [j EXCEPT !.pc = "open", !.doc = doc]
      BY <2>4, <2>10, <3>1, ContinueGoes
    <3> QED
      BY <2>2, <3>1, <3>2 DEF IsJob
  <2>11. ASSUME j.pc \in Issuing, NEW result, EndLine(g, result) PROVE Issues
    <3>1. k # Idle(result)
      BY <2>4 DEF Working, Idle
    <3>2. k.op = j.op /\ k.pc = "check"
      BY <1>2, <2>1, <2>4, <2>11, <3>1, EndLineIs
    <3> QED
      BY <2>2, <2>11, <3>2 DEF NoteJob, Writing, Without
  <2> HIDE DEF Same1, Issues
  <2>12. CASE CheckSource(g) \/ CreateNote(g)
    <3>1. j.pc \in Issuing
      BY <2>1, <2>12 DEF CheckSource, CreateNote, At, Issuing
    <3>2. j.op \notin Writing
      BY <2>2, <3>1 DEF NoteJob, Writing
    <3>3. CASE CheckSource(g)
      <4>1. ASSUME NEW copy, Continue(g, [j EXCEPT !.pc = "create", !.copy = copy]) PROVE Issues
        <5>1. k.op = j.op /\ k.pc = "create"
          BY <2>7, <4>1 DEF Same1
        <5> QED
          BY <3>2, <5>1 DEF Issues, Without
      <4>2. Issues
        BY <2>1, <2>11, <3>1, <3>3, <4>1 DEF CheckSource
      <4> QED
        BY <4>2 DEF Issues
    <3>4. CASE CreateNote(g)
      <4>1. Issues \/ (k.op = j.op /\ k.doc = Note(n))
        BY <2>1, <2>4, <2>10, <2>11, <3>1, <3>4 DEF CreateNote, Outcomes
      <4> QED
        BY <3>2, <4>1 DEF Issues
    <3> QED
      BY <2>12, <3>3, <3>4
  <2>13. CASE OpenNote(g) \/ ReadNote(g) \/ SubmitNote(g) \/ DeleteNote(g)
    <3>1. j.pc \in Issuing /\ j.pc \notin Without
      BY <2>1, <2>13 DEF OpenNote, ReadNote, SubmitNote, DeleteNote, At, Issuing, Without
    <3>2. CASE OpenNote(g)
      BY <2>1, <2>5, <3>1, <3>2 DEF OpenNote, Go, Same1
    <3>3. CASE ReadNote(g)
      BY <2>1, <2>5, <2>7, <3>1, <3>3, ReadFailsTyped DEF ReadNote, Same1
    <3>4. CASE SubmitNote(g)
      BY <2>1, <2>5, <2>8, <2>11, <3>1, <3>4 DEF SubmitNote, AfterSubmitNote, Go, Same1, Issues
    <3>5. CASE DeleteNote(g)
      BY <2>1, <2>11, <3>1, <3>5 DEF DeleteNote, Issues
    <3> QED
      BY <2>13, <3>2, <3>3, <3>4, <3>5
  <2>14. CASE \/ GetNote(g) \/ MapReturn(g) \/ InsertReturn(g) \/ BookReturn(g)
              \/ WriteRemarks(g) \/ WriteState(g)
    <3>1. j.pc \notin Without
      BY <2>1, <2>14 DEF GetNote, MapReturn, InsertReturn, BookReturn, WriteRemarks, WriteState,
                         At, Without
    <3>2. Same1
      <4>1. CASE GetNote(g)
        BY <2>1, <2>3, <2>9, <4>1, ReadFailsTyped DEF GetNote, Finish
      <4>2. CASE MapReturn(g)
        BY <2>1, <2>3, <2>6, <4>2, ReadFailsTyped DEF MapReturn, Finish
      <4>3. CASE InsertReturn(g)
        BY <2>1, <2>3, <2>8, <4>3 DEF InsertReturn, Outcomes
      <4>4. CASE BookReturn(g)
        BY <2>1, <2>3, <2>5, <4>4 DEF BookReturn, Go
      <4>5. CASE WriteRemarks(g)
        BY <2>1, <2>3, <2>5, <4>5 DEF WriteRemarks, Go
      <4>6. CASE WriteState(g)
        BY <2>1, <2>3, <4>6 DEF WriteState
      <4> QED
        BY <2>14, <4>1, <4>2, <4>3, <4>4, <4>5, <4>6
    <3> QED
      BY <3>1, <3>2 DEF Same1
  <2> QED
    BY <2>4, <2>12, <2>13, <2>14
<1> QED
  BY <1>1, <1>2

\* A request that starts is alone, or nobody is alone with its document.
LEMMA StartsAlone ==
  ASSUME Typed, NEW g \in Handlers, Starts(g)
  PROVE  /\ ~Working(g)
         /\ \A h \in Handlers \ {g} :
              On(h, jobs'[g].doc) => ~jobs'[h].alone /\ ~jobs'[g].alone
<1>1. PICK op, pc, doc, arg : Begin(g, op, pc, doc, arg)
  BY DEF Starts
<1>2. ~Working(g) /\ jobs'[g].doc = doc
  BY <1>1, BeginGoes
<1>3. ASSUME NEW h \in Handlers \ {g}, On(h, doc) PROVE ~jobs'[h].alone /\ ~jobs'[g].alone
  <2>1. ~jobs'[h].alone
    BY <1>1, <1>3, NewcomerDisturbs
  <2>2. jobs'[g] = NewJob(g, op, pc, doc, arg)
    BY <1>1, Begins
  <2>3. jobs'[g].alone = (\A q \in Handlers : ~On(q, doc))
    BY <2>2 DEF NewJob
  <2> QED
    BY <1>3, <2>1, <2>3
<1> QED
  BY <1>2, <1>3

\* Which requests there are after a step: another one is where it was; the
\* one that takes the step starts, stays on its document, or has a document
\* that was not there.
Moves(h) ==
  \/ Starts(h)
  \/ Stays(h)
  \/ Working(h) /\ jobs'[h].op \notin Writing /\ jobs'[h].pc \in Without
  \/ Working(h) /\ jobs'[h].op \notin Writing
     /\ jobs'[h].doc \in {Receipt(Len(receipts) + 1), Note(Len(notes) + 1)}

LEMMA RequestMoves ==
  ASSUME Typed, [Next]_vars
  PROVE  \/ \E h \in Handlers :
              /\ OthersKept(h)
              /\ Working(h)' => Moves(h)
         \/ AllKept
<1>1. ASSUME NEW h \in Handlers, ReceiptStep(h) \/ NoteStep(h) \/ Dropped(h), Working(h)'
      PROVE  Moves(h)
  <2>1. CASE ReceiptStep(h)
    BY <1>1, <2>1, ReceiptRequestGoes DEF Moves
  <2>2. CASE NoteStep(h)
    BY <1>1, <2>2, NoteRequestGoes DEF Moves
  <2>3. CASE Dropped(h)
    BY <1>1, <2>3, FinishGoes DEF Dropped
  <2> QED
    BY <1>1, <2>1, <2>2, <2>3
<1> QED
  BY <1>1, StepsOfOne

LEMMA OthersAlone ==
  ASSUME Typed, NEW h \in Handlers, SameJob(h), Working(h)'
  PROVE  /\ Working(h) /\ jobs'[h].op = jobs[h].op /\ jobs'[h].doc = jobs[h].doc
         /\ jobs'[h].pc = jobs[h].pc /\ (jobs'[h].alone => jobs[h].alone)
<1>1. Working(h)
  BY DEF SameJob, Working
<1>2. jobs[h].alone \in BOOLEAN
  BY <1>1, WritingIs
<1> QED
  BY <1>1, <1>2, OthersGoOn

LEMMA AloneStep ==
  ASSUME Typed, AloneInv, [Next]_vars
  PROVE  AloneInv'
<1> SUFFICES ASSUME NEW h \in Handlers, NEW g \in Handlers, g # h,
                    Working(h)', jobs'[h].op \in Writing, jobs'[h].alone,
                    Working(g)', jobs'[g].doc = jobs'[h].doc
             PROVE  jobs'[g].pc \in Without
  BY DEF AloneInv, On, Working
<1>1. ASSUME SameJob(g), SameJob(h) PROVE jobs'[g].pc \in Without
  BY <1>1, OthersAlone DEF AloneInv, On
<1>2. ASSUME Moves(g), SameJob(h) PROVE jobs'[g].pc \in Without
  <2>1. /\ Working(h) /\ jobs'[h].op = jobs[h].op /\ jobs'[h].doc = jobs[h].doc
        /\ jobs'[h].pc = jobs[h].pc /\ jobs[h].alone
    BY <1>2, OthersAlone
  <2>2. CASE Starts(g)
    BY <2>1, <2>2, StartsAlone DEF On
  <2>3. CASE Stays(g)
    <3>1. On(g, jobs[h].doc)
      BY <2>1, <2>3 DEF Stays, On
    <3>2. jobs[g].pc \in Without
      BY <2>1, <3>1 DEF AloneInv
    <3> QED
      BY <2>3, <3>2 DEF Stays
  <2>4. CASE jobs'[g].doc \in {Receipt(Len(receipts) + 1), Note(Len(notes) + 1)}
    <3>1. \/ jobs[h].doc[1] = "receipt" /\ jobs[h].doc[2] \in DOMAIN receipts
          \/ jobs[h].doc[1] = "note" /\ jobs[h].doc[2] \in DOMAIN notes
      BY <2>1, WritingIs DEF Writing
    <3>2. Len(receipts) + 1 \notin DOMAIN receipts /\ Len(notes) + 1 \notin DOMAIN notes
      BY DEF Typed, ReceiptsTyped, NotesTyped
    <3> QED
      BY <2>1, <2>4, <3>1, <3>2 DEF Receipt, Note
  <2> QED
    BY <1>2, <2>2, <2>3, <2>4 DEF Moves
<1>3. ASSUME SameJob(g), Moves(h) PROVE jobs'[g].pc \in Without
  <2>1. /\ Working(g) /\ jobs'[g].op = jobs[g].op /\ jobs'[g].doc = jobs[g].doc
        /\ jobs'[g].pc = jobs[g].pc
    BY <1>3, OthersAlone
  <2>2. CASE Starts(h)
    BY <2>1, <2>2, StartsAlone DEF On
  <2>3. CASE Stays(h)
    <3>1. /\ Working(h) /\ jobs[h].op \in Writing /\ jobs[h].alone /\ On(g, jobs[h].doc)
      BY <2>1, <2>3 DEF Stays, On
    <3> QED
      BY <2>1, <3>1 DEF AloneInv
  <2> QED
    BY <1>3, <2>2, <2>3 DEF Moves
<1>4. CASE AllKept
  BY <1>1, <1>4 DEF AllKept
<1>5. ASSUME NEW q \in Handlers, OthersKept(q), Working(q)' => Moves(q)
      PROVE  jobs'[g].pc \in Without
  <2>1. CASE q = g
    BY <1>2, <1>5, <2>1 DEF OthersKept
  <2>2. CASE q = h
    BY <1>3, <1>5, <2>2 DEF OthersKept
  <2>3. CASE q # g /\ q # h
    BY <1>1, <1>5, <2>3 DEF OthersKept
  <2> QED
    BY <2>1, <2>2, <2>3
<1> QED
  BY <1>4, <1>5, RequestMoves

\* A receipt is written by a request that works on it, or on the desk.
LEMMA ReceiptsOfOthers ==
  ASSUME Typed, NEW g \in Handlers, ReceiptStep(g), NEW n \in DOMAIN receipts,
         On(g, Receipt(n)) => jobs[g].pc \in Without
  PROVE  receipts'[n] = receipts[n]
<1>1. PICK j : j = jobs[g]
  OBVIOUS
<1>2. ASSUME NEW m, m # n, NEW doc, StoredReceipt(m, doc) PROVE receipts'[n] = receipts[n]
  BY <1>2 DEF StoredReceipt, Typed, ReceiptsTyped
<1>3. CASE CreateDone(g)
  <2>1. receipts' = receipts \/ \E doc : receipts' = Append(receipts, doc)
    BY <1>3 DEF CreateDone, Create
  <2>2. receipts \in Seq(ReceiptType)
    BY DEF Typed, ReceiptsTyped
  <2> QED
    BY <2>1, <2>2
<1>4. CASE \/ MarkUnannounced(g) \/ NoteFullReturn(g) \/ WriteDecision(g)
           \/ SubmitDecision(g) \/ Undo(g) \/ WriteResponse(g) \/ WriteAck(g)
  <2>1. /\ Working(g) /\ j.pc \notin Without
        /\ j.pc \in {"mark", "note", "write", "undo", "respond", "ack_write"} \/ j.doc[1] = "receipt"
    BY <1>1, <1>4 DEF MarkUnannounced, NoteFullReturn, WriteDecision, SubmitDecision, Undo,
                      WriteResponse, WriteAck, At, Without
  <2>2. j.pc \in ReceiptPcs \ Issuing \/ j.doc[1] = "receipt"
    BY <2>1 DEF ReceiptPcs, Deciding, Issuing
  <2>3. j.doc[1] = "receipt" /\ OpenJob(j)
    BY <1>1, <2>1, <2>2, ReceiptRequestIs, RequestIs
  <2>4. j.doc = Receipt(j.doc[2])
    BY <2>3 DEF OpenJob, Receipt
  <2>5. PICK m : m = j.doc[2]
    OBVIOUS
  <2>6. m # n
    BY <1>1, <2>1, <2>4, <2>5 DEF On
  <2>7. \A remarks, outcome : PutRemarks(g, m, remarks, outcome) => receipts'[n] = receipts[n]
    BY <1>2, <2>6 DEF PutRemarks
  <2>8. \A doc, version, outcome : PutWhole(m, doc, version, outcome) => receipts'[n] = receipts[n]
    BY <1>2, <2>6 DEF PutWhole
  <2>9. \A outcome : SubmitReceipt(m, outcome) => receipts'[n] = receipts[n]
    BY <1>2, <2>6 DEF SubmitReceipt
  <2> QED
    BY <1>1, <1>4, <2>5, <2>7, <2>8, <2>9
       DEF MarkUnannounced, NoteFullReturn, WriteDecision, SubmitDecision, Undo,
           WriteResponse, WriteAck
<1> QED
  BY <1>3, <1>4 DEF ReceiptStep, Dispatch, Unannounced, CreateRefused, Confirm, Fetch,
     ReadLatest, Respond, ReadResponse, Acknowledge, ReadAck

\* What is known of a receipt is known while it is as it was.
LEMMA ConfirmKnowsKept ==
  ASSUME NEW j, ConfirmKnows(j), receipts'[j.doc[2]] = receipts[j.doc[2]]
  PROVE  ConfirmKnows(j)'
  BY DEF ConfirmKnows

\* The fields that two versions of a receipt agree in.
LEMMA SameIs ==
  ASSUME NEW a \in ReceiptType, NEW b \in ReceiptType
  PROVE  Same(a, b) <=> /\ a.supplier = b.supplier /\ a.marker = b.marker /\ a.qty = b.qty
                        /\ a.rejected = b.rejected /\ a.remarks = b.remarks
<1>1. PICK x : x = [a EXCEPT !.rev = 0, !.status = "draft"]
  OBVIOUS
<1>2. PICK y : y = [b EXCEPT !.rev = 0, !.status = "draft"]
  OBVIOUS
<1>3. /\ x = [status |-> "draft", supplier |-> a.supplier, marker |-> a.marker, qty |-> a.qty,
              rejected |-> a.rejected, rev |-> 0, remarks |-> a.remarks]
      /\ y = [status |-> "draft", supplier |-> b.supplier, marker |-> b.marker, qty |-> b.qty,
              rejected |-> b.rejected, rev |-> 0, remarks |-> b.remarks]
  BY <1>1, <1>2 DEF ReceiptType
<1>4. Same(a, b) <=> x = y
  BY <1>1, <1>2 DEF Same
<1> QED
  BY <1>3, <1>4

LEMMA StoredIs ==
  ASSUME Typed, NEW n \in DOMAIN receipts, NEW doc \in ReceiptType, StoredReceipt(n, doc)
  PROVE  /\ receipts'[n] \in ReceiptType /\ Same(receipts'[n], doc)
         /\ receipts'[n].status = doc.status /\ receipts'[n].remarks = doc.remarks
<1>1. PICK new : new = [doc EXCEPT !.rev = receipts[n].rev + 1]
  OBVIOUS
<1>2. receipts[n].rev \in Nat
  BY ReceiptIs DEF ReceiptType
<1>3. /\ new \in ReceiptType /\ new.status = doc.status /\ new.remarks = doc.remarks
      /\ new.supplier = doc.supplier /\ new.marker = doc.marker /\ new.qty = doc.qty
      /\ new.rejected = doc.rejected
  BY <1>1, <1>2 DEF ReceiptType
<1>4. Same(new, doc)
  BY <1>3, SameIs
<1>5. receipts'[n] = new
  BY <1>1 DEF StoredReceipt, Typed, ReceiptsTyped
<1> QED
  BY <1>3, <1>4, <1>5

\* How a confirmation may end.
Settled(j, result, now) ==
  LET done == Decided(j.copy, j.arg)
  IN  CASE result = "ok" ->
             IF FullReturn(j.copy, j.arg)
             THEN now.status = j.copy.status /\ now.remarks = done.remarks
             ELSE now.status = "submitted" /\ Same(now, done)
        [] result = "error" -> now.status = j.copy.status /\ Same(now, j.copy)
        [] result = "kept" -> now.status = j.copy.status /\ Same(now, done)
        [] OTHER -> TRUE
ConfirmMoves(h, j) ==
  /\ Working(h)' => ConfirmKnows(jobs[h])'
  /\ (~Working(h)' /\ j.copy # None) => Settled(j, jobs'[h].result, receipts'[j.doc[2]])

LEMMA ConfirmEnds ==
  ASSUME Typed, NEW h \in Handlers, NEW j, NEW result, Finish(h, result),
         j.copy # None => Settled(j, result, receipts'[j.doc[2]])
  PROVE  ConfirmMoves(h, j)
<1>1. jobs'[h] = Idle(result) /\ ~Working(h)'
  BY ContinueGoes, FinishGoes DEF Finish
<1>2. jobs'[h].result = result
  BY <1>1 DEF Idle
<1> QED
  BY <1>1, <1>2 DEF ConfirmMoves

LEMMA ConfirmGoesOn ==
  ASSUME Typed, NEW h \in Handlers, NEW j, NEW k, Continue(h, k), k.op = "confirm",
         ConfirmKnows(k)'
  PROVE  ConfirmMoves(h, j)
<1>1. jobs'[h] = k
  BY ContinueGoes
<1>2. Working(h)'
  BY <1>1 DEF Working
<1>3. ConfirmKnows(jobs[h])'
  BY <1>1
<1> QED
  BY <1>2, <1>3 DEF ConfirmMoves

LEMMA FetchKnows ==
  ASSUME Typed, NEW h \in Handlers, NEW j, j = jobs[h], j.op = "confirm", ConfirmKnows(j), Fetch(h)
  PROVE  ConfirmMoves(h, j)
<1>1. Working(h) /\ j.pc = "fetch" /\ UNCHANGED receipts
  BY DEF Fetch, At
<1>2. j.copy = None /\ IsJob(j)
  BY <1>1, RequestIs DEF ConfirmKnows
<1>3. PICK doc : doc = receipts[j.doc[2]]
  OBVIOUS
<1>4. PICK pc : pc = (IF FullReturn(doc, j.arg) THEN "note" ELSE "write")
  OBVIOUS
<1>5. ASSUME NEW result, Finish(h, result) PROVE ConfirmMoves(h, j)
  BY <1>2, <1>5, ConfirmEnds
<1>6. ASSUME Continue(h, [j EXCEPT !.copy = doc, !.pc = pc]) PROVE ConfirmMoves(h, j)
  <2>1. PICK k : k = [j EXCEPT !.copy = doc, !.pc = pc]
    OBVIOUS
  <2>2. /\ k.op = j.op /\ k.pc = pc /\ k.doc = j.doc /\ k.arg = j.arg /\ k.copy = doc
        /\ k.lost = j.lost
    BY <1>2, <2>1 DEF IsJob
  <2>3. receipts'[k.doc[2]] = k.copy
    BY <1>1, <1>3, <2>2
  <2>4. ConfirmKnows(k)'
    BY <1>1, <1>4, <2>2, <2>3 DEF ConfirmKnows, Deciding
  <2> QED
    BY <1>6, <2>1, <2>2, <2>4, ConfirmGoesOn
<1> QED
  BY <1>3, <1>4, <1>5, <1>6, ReadFailsTyped DEF Fetch, Finish

\* What the steps of a decision start from.
LEMMA DecidingFrom ==
  ASSUME Typed, NEW h \in Handlers, Working(h), NEW j, j = jobs[h], j.op = "confirm",
         j.pc \in Deciding, NEW done, done = Decided(j.copy, j.arg)
  PROVE  /\ IsJob(j) /\ j.doc[2] \in DOMAIN receipts /\ receipts[j.doc[2]] \in ReceiptType
         /\ j.copy \in ReceiptType /\ done \in ReceiptType /\ done.status = j.copy.status
         /\ j.arg.accepted \in Int /\ j.arg.returned \in Int
<1>1. j.doc[1] = "receipt"
  BY WritingIs
<1>2. /\ IsJob(j) /\ j.doc[2] \in DOMAIN receipts /\ j.copy \in ReceiptType /\ Fits(j.copy)
      /\ j.arg.accepted \in Int /\ j.arg.returned \in Int /\ ValidDecision(j.copy, j.arg)
  BY <1>1, DecidingIs
<1>3. done \in ReceiptType
  BY <1>2, DecidedTyped
<1>4. done.status = j.copy.status
  BY <1>2 DEF Decided, ReceiptType
<1> QED
  BY <1>2, <1>3, <1>4, ReceiptIs

LEMMA NoteKnows ==
  ASSUME Typed, NEW h \in Handlers, NEW j, j = jobs[h], j.op = "confirm", ConfirmKnows(j),
         NoteFullReturn(h)
  PROVE  ConfirmMoves(h, j)
<1>1. Working(h) /\ j.pc = "note" /\ j.pc \in Deciding
  BY DEF NoteFullReturn, At, Deciding
<1>2. PICK done : done = Decided(j.copy, j.arg)
  OBVIOUS
<1>3. PICK n : n = j.doc[2]
  OBVIOUS
<1>4. n \in DOMAIN receipts /\ j.copy \in ReceiptType /\ done \in ReceiptType
  BY <1>1, <1>2, <1>3, DecidingFrom
<1>5. receipts[n] = j.copy /\ FullReturn(j.copy, j.arg)
  BY <1>1, <1>3 DEF ConfirmKnows
<1>6. PICK outcome \in Outcomes :
        /\ PutRemarks(h, n, done.remarks, outcome)
        /\ Finish(h, IF outcome = "refused" THEN "error" ELSE outcome)
  BY <1>2, <1>3 DEF NoteFullReturn
<1>7. CASE outcome = "ok"
  <2>1. PICK doc : doc = [j.copy EXCEPT !.remarks = done.remarks]
    OBVIOUS
  <2>2. doc \in ReceiptType /\ doc.status = j.copy.status /\ doc.remarks = done.remarks
    BY <1>4, <2>1 DEF ReceiptType
  <2>3. StoredReceipt(n, doc)
    BY <1>5, <1>6, <1>7, <2>1 DEF PutRemarks
  <2>4. receipts'[n].status = j.copy.status /\ receipts'[n].remarks = done.remarks
    BY <1>4, <2>2, <2>3, StoredIs
  <2>5. Settled(j, "ok", receipts'[n])
    BY <1>2, <1>5, <2>4 DEF Settled
  <2> QED
    BY <1>3, <1>6, <1>7, <2>5, ConfirmEnds
<1>8. CASE outcome = "refused"
  <2>1. receipts'[n] = j.copy
    BY <1>5, <1>6, <1>8 DEF PutRemarks
  <2>2. Settled(j, "error", receipts'[n])
    BY <1>4, <2>1, SameIs DEF Settled
  <2> QED
    BY <1>3, <1>6, <1>8, <2>2, ConfirmEnds
<1>9. CASE outcome = "lost"
  <2>1. Settled(j, "lost", receipts'[n])
    BY DEF Settled
  <2> QED
    BY <1>3, <1>6, <1>9, <2>1, ConfirmEnds
<1> QED
  BY <1>7, <1>8, <1>9 DEF Outcomes

LEMMA WriteKnows ==
  ASSUME Typed, NEW h \in Handlers, NEW j, j = jobs[h], j.op = "confirm", ConfirmKnows(j),
         WriteDecision(h)
  PROVE  ConfirmMoves(h, j)
<1>1. Working(h) /\ j.pc = "write" /\ j.pc \in Deciding
  BY DEF WriteDecision, At, Deciding
<1>2. PICK done : done = Decided(j.copy, j.arg)
  OBVIOUS
<1>3. PICK n : n = j.doc[2]
  OBVIOUS
<1>4. /\ IsJob(j) /\ n \in DOMAIN receipts /\ j.copy \in ReceiptType /\ done \in ReceiptType
      /\ done.status = j.copy.status
  BY <1>1, <1>2, <1>3, DecidingFrom
<1>5. receipts[n] = j.copy /\ ~FullReturn(j.copy, j.arg)
  BY <1>1, <1>3 DEF ConfirmKnows
<1>6. PICK outcome \in Outcomes :
        /\ PutWhole(n, done, j.copy.rev, outcome)
        /\ CASE outcome = "ok" -> Go(h, "latest")
             [] outcome = "lost" -> Finish(h, "lost")
             [] OTHER -> Finish(h, "error")
  BY <1>2, <1>3 DEF WriteDecision
<1>7. CASE outcome = "ok"
  <2>1. PICK doc : doc = [done EXCEPT !.status = j.copy.status]
    OBVIOUS
  <2>2. doc \in ReceiptType /\ doc.status = j.copy.status /\ Same(doc, done)
    <3>1. /\ doc \in ReceiptType /\ doc.status = j.copy.status
          /\ doc.supplier = done.supplier /\ doc.marker = done.marker /\ doc.qty = done.qty
          /\ doc.rejected = done.rejected /\ doc.remarks = done.remarks
      BY <1>4, <2>1 DEF ReceiptType
    <3> QED
      BY <1>4, <3>1, SameIs
  <2>3. StoredReceipt(n, doc)
    BY <1>5, <1>6, <1>7, <2>1 DEF PutWhole
  <2>4. /\ receipts'[n] \in ReceiptType /\ receipts'[n].status = j.copy.status
        /\ Same(receipts'[n], doc)
    BY <1>4, <2>2, <2>3, StoredIs
  <2>5. Same(receipts'[n], done)
    BY <1>4, <2>2, <2>4, SameIs
  <2>6. PICK k : k = [j EXCEPT !.pc = "latest"]
    OBVIOUS
  <2>7. /\ k.op = j.op /\ k.pc = "latest" /\ k.doc = j.doc /\ k.arg = j.arg /\ k.copy = j.copy
        /\ k.lost = j.lost
    BY <1>4, <2>6 DEF IsJob
  <2>8. ConfirmKnows(k)'
    BY <1>1, <1>2, <1>3, <1>5, <2>4, <2>5, <2>7 DEF ConfirmKnows
  <2> QED
    BY <1>6, <1>7, <2>6, <2>7, <2>8, ConfirmGoesOn DEF Go
<1>8. CASE outcome = "refused"
  <2>1. receipts'[n] = j.copy
    BY <1>5, <1>6, <1>8 DEF PutWhole
  <2>2. Settled(j, "error", receipts'[n])
    BY <1>4, <2>1, SameIs DEF Settled
  <2> QED
    BY <1>3, <1>6, <1>8, <2>2, ConfirmEnds
<1>9. CASE outcome = "lost"
  <2>1. Settled(j, "lost", receipts'[n])
    BY DEF Settled
  <2> QED
    BY <1>3, <1>6, <1>9, <2>1, ConfirmEnds
<1> QED
  BY <1>7, <1>8, <1>9 DEF Outcomes

\* From the write of the decision on: the quantities of the request stay.
LEMMA DecidedSame ==
  ASSUME NEW doc, NEW d, NEW e, e.accepted = d.accepted, e.returned = d.returned
  PROVE  /\ Decided(doc, e) = Decided(doc, d)
         /\ FullReturn(doc, e) <=> FullReturn(doc, d)
<1>1. NoteOf(doc, e) = NoteOf(doc, d)
  BY DEF NoteOf
<1> QED
  BY <1>1 DEF Decided, FullReturn

LEMMA LatestKnows ==
  ASSUME Typed, NEW h \in Handlers, NEW j, j = jobs[h], j.op = "confirm", ConfirmKnows(j),
         ReadLatest(h)
  PROVE  ConfirmMoves(h, j)
<1>1. Working(h) /\ j.pc = "latest" /\ j.pc \in Deciding /\ UNCHANGED receipts
  BY DEF ReadLatest, At, Deciding
<1>2. IsJob(j)
  BY <1>1, RequestIs
<1>3. PICK arg : arg = [accepted |-> j.arg.accepted, returned |-> j.arg.returned,
                        seen |-> receipts[j.doc[2]]]
  OBVIOUS
<1>4. CASE Continue(h, [j EXCEPT !.pc = "submit", !.arg = arg])
  <2>1. PICK k : k = [j EXCEPT !.pc = "submit", !.arg = arg]
    OBVIOUS
  <2>2. /\ k.op = j.op /\ k.pc = "submit" /\ k.doc = j.doc /\ k.arg = arg /\ k.copy = j.copy
        /\ k.lost = j.lost
    BY <1>2, <2>1 DEF IsJob
  <2>3. /\ Decided(k.copy, k.arg) = Decided(j.copy, j.arg)
        /\ FullReturn(k.copy, k.arg) <=> FullReturn(j.copy, j.arg)
    BY <1>3, <2>2, DecidedSame
  <2>4. ConfirmKnows(k)'
    BY <1>1, <1>3, <2>2, <2>3 DEF ConfirmKnows
  <2> QED
    BY <1>4, <2>1, <2>2, <2>4, ConfirmGoesOn
<1>5. CASE ReadFails(h, [j EXCEPT !.pc = "undo"])
  <2>1. PICK k : k = [j EXCEPT !.pc = "undo"]
    OBVIOUS
  <2>2. /\ k.op = j.op /\ k.pc = "undo" /\ k.doc = j.doc /\ k.arg = j.arg /\ k.copy = j.copy
        /\ k.lost = j.lost
    BY <1>2, <2>1 DEF IsJob
  <2>3. ConfirmKnows(k)'
    BY <1>1, <2>2 DEF ConfirmKnows
  <2> QED
    BY <1>5, <2>1, <2>2, <2>3, ReadFailsTyped, ConfirmGoesOn
<1> QED
  BY <1>3, <1>4, <1>5 DEF ReadLatest

LEMMA SubmitKnows ==
  ASSUME Typed, NEW h \in Handlers, NEW j, j = jobs[h], j.op = "confirm", ConfirmKnows(j),
         SubmitDecision(h)
  PROVE  ConfirmMoves(h, j)
<1>1. Working(h) /\ j.pc = "submit" /\ j.pc \in Deciding
  BY DEF SubmitDecision, At, Deciding
<1>2. PICK done : done = Decided(j.copy, j.arg)
  OBVIOUS
<1>3. PICK n : n = j.doc[2]
  OBVIOUS
<1>4. /\ IsJob(j) /\ n \in DOMAIN receipts /\ receipts[n] \in ReceiptType
      /\ j.copy \in ReceiptType /\ done \in ReceiptType
  BY <1>1, <1>2, <1>3, DecidingFrom
<1>5. /\ ~FullReturn(j.copy, j.arg) /\ Same(receipts[n], done)
      /\ receipts[n].status = j.copy.status /\ j.arg.seen = receipts[n]
  BY <1>1, <1>2, <1>3 DEF ConfirmKnows
<1>6. PICK outcome \in Outcomes : SubmitReceipt(n, outcome) /\ AfterSubmit(h, outcome)
  <2>1. ~Mismatch(n, j.arg.seen)
    BY <1>5 DEF Mismatch
  <2> QED
    BY <1>3, <2>1 DEF SubmitDecision
<1>7. CASE outcome = "ok"
  <2>1. PICK doc : doc = [receipts[n] EXCEPT !.status = "submitted"]
    OBVIOUS
  <2>2. /\ doc \in ReceiptType /\ doc.status = "submitted"
        /\ doc.supplier = receipts[n].supplier /\ doc.marker = receipts[n].marker
        /\ doc.qty = receipts[n].qty /\ doc.rejected = receipts[n].rejected
        /\ doc.remarks = receipts[n].remarks
    BY <1>4, <2>1 DEF ReceiptType
  <2>3. StoredReceipt(n, doc)
    BY <1>6, <1>7, <2>1 DEF SubmitReceipt
  <2>4. /\ receipts'[n] \in ReceiptType /\ receipts'[n].status = "submitted"
        /\ Same(receipts'[n], doc)
    BY <1>4, <2>2, <2>3, StoredIs
  <2>5. Same(receipts'[n], done)
    BY <1>4, <1>5, <2>2, <2>4, SameIs
  <2>6. Settled(j, "ok", receipts'[n])
    BY <1>2, <1>5, <2>4, <2>5 DEF Settled
  <2> QED
    BY <1>3, <1>6, <1>7, <2>6, ConfirmEnds DEF AfterSubmit
<1>8. CASE outcome # "ok"
  <2>1. PICK lost \in BOOLEAN : lost = (outcome = "lost")
    OBVIOUS
  <2>2. PICK k : k = [j EXCEPT !.pc = "undo", !.lost = lost]
    OBVIOUS
  <2>3. /\ k.op = j.op /\ k.pc = "undo" /\ k.doc = j.doc /\ k.arg = j.arg /\ k.copy = j.copy
        /\ k.lost = lost
    BY <1>4, <2>2 DEF IsJob
  <2>4. ~lost => receipts' = receipts
    BY <1>6, <1>8, <2>1 DEF SubmitReceipt, Outcomes
  <2>5. ConfirmKnows(k)'
    BY <1>2, <1>3, <1>5, <2>3, <2>4 DEF ConfirmKnows
  <2>6. Continue(h, k)
    BY <1>6, <1>8, <2>1, <2>2 DEF AfterSubmit
  <2> QED
    BY <2>3, <2>5, <2>6, ConfirmGoesOn
<1> QED
  BY <1>7, <1>8

LEMMA UndoKnows ==
  ASSUME Typed, NEW h \in Handlers, NEW j, j = jobs[h], j.op = "confirm", ConfirmKnows(j),
         Undo(h)
  PROVE  ConfirmMoves(h, j)
<1>1. Working(h) /\ j.pc = "undo" /\ j.pc \in Deciding
  BY DEF Undo, At, Deciding
<1>2. PICK n : n = j.doc[2]
  OBVIOUS
<1>3. n \in DOMAIN receipts /\ receipts[n] \in ReceiptType /\ j.copy \in ReceiptType
  BY <1>1, <1>2, DecidingFrom
<1>4. PICK outcome \in Outcomes :
        /\ PutWhole(n, j.copy, j.copy.rev, outcome)
        /\ Finish(h, AfterUndo(h, outcome))
  BY <1>2 DEF Undo
<1>5. CASE outcome = "ok" /\ ~j.lost
  <2>1. PICK doc : doc = [j.copy EXCEPT !.status = receipts[n].status]
    OBVIOUS
  <2>2. /\ doc \in ReceiptType /\ doc.status = receipts[n].status
        /\ doc.supplier = j.copy.supplier /\ doc.marker = j.copy.marker
        /\ doc.qty = j.copy.qty /\ doc.rejected = j.copy.rejected
        /\ doc.remarks = j.copy.remarks
    BY <1>3, <2>1 DEF ReceiptType
  <2>3. StoredReceipt(n, doc)
    BY <1>4, <1>5, <2>1 DEF PutWhole
  <2>4. /\ receipts'[n] \in ReceiptType /\ receipts'[n].status = doc.status
        /\ Same(receipts'[n], doc)
    BY <1>3, <2>2, <2>3, StoredIs
  <2>5. Same(receipts'[n], j.copy)
    BY <1>3, <2>2, <2>4, SameIs
  <2>6. receipts[n].status = j.copy.status
    BY <1>1, <1>2, <1>5 DEF ConfirmKnows
  <2>7. Settled(j, "error", receipts'[n])
    BY <2>2, <2>4, <2>5, <2>6 DEF Settled
  <2> QED
    BY <1>2, <1>4, <1>5, <2>7, ConfirmEnds DEF AfterUndo, Failure
<1>6. CASE outcome = "refused" /\ ~j.lost
  <2>1. receipts'[n] = receipts[n]
    BY <1>4, <1>6 DEF PutWhole
  <2>2. Same(receipts[n], Decided(j.copy, j.arg)) /\ receipts[n].status = j.copy.status
    BY <1>1, <1>2, <1>6 DEF ConfirmKnows
  <2>3. Settled(j, "kept", receipts'[n])
    BY <2>1, <2>2 DEF Settled
  <2> QED
    BY <1>2, <1>4, <1>6, <2>3, ConfirmEnds DEF AfterUndo
<1>7. CASE outcome = "lost" \/ j.lost
  <2>1. Settled(j, "lost", receipts'[n])
    BY DEF Settled
  <2> QED
    BY <1>2, <1>4, <1>7, <2>1, ConfirmEnds DEF AfterUndo, Failure
<1> QED
  BY <1>5, <1>6, <1>7 DEF Outcomes

\* The step of a confirmation that is alone, whichever it is.
LEMMA OwnConfirmStep ==
  ASSUME Typed, ConfirmInv, [Next]_vars, NEW h \in Handlers,
         ReceiptStep(h) \/ NoteStep(h) \/ Dropped(h),
         NEW j, j = jobs[h], Working(h), j.op = "confirm", j.alone
  PROVE  ConfirmMoves(h, j)
<1>1. ConfirmKnows(j)
  BY DEF ConfirmInv
<1>2. IsJob(j) /\ j.doc[1] = "receipt" /\ j.pc \in {"fetch"} \cup Deciding
  BY WritingIs
<1>3. ~NoteStep(h)
  BY <1>2, NoteStepIs
<1>4. CASE Dropped(h)
  <2>1. Settled(j, "lost", receipts'[j.doc[2]])
    BY DEF Settled
  <2> QED
    BY <1>4, <2>1, ConfirmEnds DEF Dropped
<1>5. CASE ReceiptStep(h)
  <2>1. ~(\E op, pc, doc, arg : Begin(h, op, pc, doc, arg))
    BY DEF Begin
  <2>2. \/ Fetch(h) \/ NoteFullReturn(h) \/ WriteDecision(h)
        \/ ReadLatest(h) \/ SubmitDecision(h) \/ Undo(h)
    BY <1>2, <1>5, <2>1 DEF ReceiptStep, Dispatch, Unannounced, Confirm, Respond, Acknowledge,
       CreateRefused, CreateDone, MarkUnannounced, ReadResponse, WriteResponse, ReadAck,
       WriteAck, At, Deciding
  <2> QED
    BY <1>1, <2>2, FetchKnows, NoteKnows, WriteKnows, LatestKnows, SubmitKnows, UndoKnows
<1> QED
  BY <1>3, <1>4, <1>5

\* What the others leave of the document of a request that is alone.
LEMMA ReceiptLeftAlone ==
  ASSUME Typed, AloneInv, NEW h \in Handlers,
         NEW j, j = jobs[h], Working(h), j.op = "confirm", j.alone, jobs'[h] = j,
         \/ UNCHANGED receipts
         \/ \E g \in Handlers \ {h} : ReceiptStep(g)
         \/ \E m \in 1 .. MaxReceipts : DeskReceipt(m)
  PROVE  receipts'[j.doc[2]] = receipts[j.doc[2]]
<1>1. /\ IsJob(j) /\ j.doc = Receipt(j.doc[2]) /\ j.doc[2] \in DOMAIN receipts
  BY WritingIs DEF Receipt
<1>2. PICK n : n = j.doc[2]
  OBVIOUS
<1>3. ASSUME NEW g \in Handlers \ {h}, ReceiptStep(g) PROVE receipts'[n] = receipts[n]
  <2>1. On(g, Receipt(n)) => jobs[g].pc \in Without
    BY <1>1, <1>2 DEF AloneInv, Writing
  <2> QED
    BY <1>1, <1>2, <1>3, <2>1, ReceiptsOfOthers
<1>4. ASSUME NEW m, DeskReceipt(m) PROVE receipts'[n] = receipts[n]
  <2>1. m # n
    BY <1>1, <1>2, <1>4, DeskDisturbs DEF DeskReceipt, On
  <2>2. \E doc : StoredReceipt(m, doc)
    BY <1>4 DEF DeskReceipt
  <2> QED
    BY <1>1, <1>2, <2>1, <2>2 DEF StoredReceipt, Typed, ReceiptsTyped
<1>5. CASE UNCHANGED receipts
  BY <1>5
<1> QED
  BY <1>2, <1>3, <1>4, <1>5

LEMMA UnchangedIs ==
  ASSUME Typed, UNCHANGED vars
  PROVE  AllKept
<1>1. jobs = [g \in Handlers |-> jobs[g]] /\ UNCHANGED jobs
  BY DEF Typed, vars, requestVars
<1> QED
  BY <1>1 DEF AllKept, SameJob

\* What a request that is not open yet may begin.
LEMMA OpenSteps ==
  ASSUME NEW h \in Handlers, ReceiptStep(h) \/ NoteStep(h) \/ Dropped(h), ~Working(h)
  PROVE  \/ \E s \in Suppliers, qty \in Quantities : Dispatch(h, s, qty) \/ Unannounced(h, s, qty)
         \/ \E n \in 1 .. MaxReceipts, d \in Decisions : Confirm(h, n, d)
         \/ \E n \in 1 .. MaxReceipts, s \in Suppliers, approve \in BOOLEAN : Respond(h, n, s, approve)
         \/ \E n \in 1 .. MaxReceipts, s \in Suppliers : Acknowledge(h, n, s)
         \/ \E lines \in IssueRequests : Issue(h, lines)
         \/ \E n \in 1 .. MaxNotes, c \in Customers, answer \in Responses : Answer(h, n, c, answer)
  BY DEF ReceiptStep, CreateRefused, CreateDone, MarkUnannounced, Fetch,
     NoteFullReturn, WriteDecision, SubmitDecision, ReadLatest, Undo, ReadResponse,
     WriteResponse, ReadAck, WriteAck, At, NoteStep, CheckSource, CreateNote, OpenNote,
     ReadNote, SubmitNote, DeleteNote, GetNote, MapReturn, InsertReturn, BookReturn,
     WriteRemarks, WriteState, Dropped

\* A request that others leave alone is as it was.
LEMMA StillAlone ==
  ASSUME Typed, NEW h \in Handlers, SameJob(h), Working(h), jobs'[h].alone
  PROVE  jobs'[h] = jobs[h]
<1>1. PICK j : j = jobs[h]
  OBVIOUS
<1>2. IsJob(j)
  BY <1>1, RequestIs
<1>3. ASSUME jobs'[h] = [j EXCEPT !.alone = FALSE] PROVE FALSE
  BY <1>2, <1>3 DEF IsJob
<1> QED
  BY <1>1, <1>3 DEF SameJob

LEMMA ConfirmStep ==
  ASSUME Typed, AloneInv, ConfirmInv, [Next]_vars
  PROVE  ConfirmInv'
<1> SUFFICES ASSUME NEW h \in Handlers, Working(h)', jobs'[h].op = "confirm", jobs'[h].alone
             PROVE  ConfirmKnows(jobs[h])'
  BY DEF ConfirmInv
<1>1. ASSUME NEW g \in Handlers, OthersKept(g),
             ReceiptStep(g) \/ NoteStep(g) \/ Dropped(g),
             g = h
      PROVE  ConfirmKnows(jobs[h])'
  <2>1. Moves(h)
    BY <1>1, ReceiptRequestGoes, NoteRequestGoes, FinishGoes DEF Moves, Dropped
  <2>2. CASE Starts(h)
    <3>1. PICK op, pc, doc, arg : Begin(h, op, pc, doc, arg)
      BY <2>2 DEF Starts
    <3>2. PICK k : k = NewJob(h, op, pc, doc, arg)
      OBVIOUS
    <3>3. jobs'[h] = k /\ k.op = op /\ k.pc = pc /\ k.copy = None /\ k.lost = FALSE
      BY <3>1, <3>2, Begins DEF NewJob
    <3>4. pc = "fetch"
      <4>1. ~Working(h)
        BY <3>1 DEF Begin
      <4>2. PICK n, d : Confirm(h, n, d)
        <5>1. \/ \E s \in Suppliers, qty \in Quantities : Dispatch(h, s, qty) \/ Unannounced(h, s, qty)
              \/ \E n \in 1 .. MaxReceipts, d \in Decisions : Confirm(h, n, d)
              \/ \E n \in 1 .. MaxReceipts, s \in Suppliers, approve \in BOOLEAN : Respond(h, n, s, approve)
              \/ \E n \in 1 .. MaxReceipts, s \in Suppliers : Acknowledge(h, n, s)
              \/ \E lines \in IssueRequests : Issue(h, lines)
              \/ \E n \in 1 .. MaxNotes, c \in Customers, answer \in Responses : Answer(h, n, c, answer)
          BY <1>1, <4>1, OpenSteps
        <5>2. \A o, p, q, a : Begin(h, o, p, q, a) => o = "confirm"
          BY BeginGoes
        <5> QED
          BY <5>1, <5>2 DEF Dispatch, Unannounced, Respond, Acknowledge, Issue, Answer
      <4> QED
        BY <3>3, <4>2, BeginGoes DEF Confirm
    <3>5. ConfirmKnows(k)'
      BY <3>3, <3>4 DEF ConfirmKnows, Deciding
    <3> QED
      BY <3>3, <3>5
  <2>3. CASE Stays(h)
    <3>1. PICK j : j = jobs[h]
      OBVIOUS
    <3>2. Working(h) /\ j.op = "confirm" /\ j.alone
      BY <2>3, <3>1 DEF Stays
    <3>3. ConfirmMoves(h, j)
      BY <1>1, <3>1, <3>2, OwnConfirmStep
    <3> QED
      BY <3>3 DEF ConfirmMoves
  <2> QED
    BY <2>1, <2>2, <2>3 DEF Moves, Writing
<1>2. ASSUME SameJob(h), \/ UNCHANGED receipts
                         \/ \E g \in Handlers \ {h} : ReceiptStep(g)
                         \/ \E m \in 1 .. MaxReceipts : DeskReceipt(m)
      PROVE  ConfirmKnows(jobs[h])'
  <2>1. PICK j : j = jobs[h]
    OBVIOUS
  <2>2. Working(h) /\ j.op = "confirm" /\ j.alone
    BY <1>2, <2>1, OthersAlone
  <2>3. jobs'[h] = j
    BY <1>2, <2>1, <2>2, StillAlone
  <2>4. receipts'[j.doc[2]] = receipts[j.doc[2]]
    BY <1>2, <2>1, <2>2, <2>3, ReceiptLeftAlone
  <2>5. ConfirmKnows(j)'
    BY <2>1, <2>2, <2>4, ConfirmKnowsKept DEF ConfirmInv
  <2> QED
    BY <2>3, <2>5
<1>3. CASE \/ UNCHANGED vars
           \/ \E n \in 1 .. MaxReceipts : DeskReceipt(n) /\ UNCHANGED noteVars
           \/ \E n \in 1 .. MaxNotes : DeskNote(n) /\ UNCHANGED receipts
  <2>1. AllKept
    BY <1>3, DeskReceiptTyped, DeskNoteTyped, UnchangedIs
  <2> QED
    BY <1>2, <1>3, <2>1 DEF AllKept, vars
<1>4. ASSUME NEW g \in Handlers, OthersKept(g), g # h,
             \/ ReceiptStep(g) /\ UNCHANGED noteVars
             \/ NoteStep(g) /\ UNCHANGED receipts
             \/ Dropped(g) /\ UNCHANGED <<receipts, noteVars>>
      PROVE  ConfirmKnows(jobs[h])'
  BY <1>2, <1>4 DEF OthersKept
<1> QED
  BY <1>1, <1>3, <1>4, StepsOfOne

(* A confirmation that has its delivery to itself books its decision whole *)
(* or not at all. What it read is still there when it writes, so a write   *)
(* that is refused leaves the delivery as it was, and the version it       *)
(* submits is the one it wrote. When that fails, the undo is written over  *)
(* a newer version than it names: ERPNext may take it, and the document    *)
(* reads as before, or refuse it, and the decision stays in a document     *)
(* that is no more booked than it was. Nothing is said of a confirmation   *)
(* whose answers were lost.                                                *)
THEOREM ConfirmsWhole == Spec => ConfirmIsWhole
<1> DEFINE Inv == AloneInv /\ ConfirmInv
<1>1. Init => Inv
  BY DEF Init, RequestsInit, Idle, AloneInv, ConfirmInv, Working
<1>2. Typed /\ Inv /\ [Next]_vars => Inv'
  BY AloneStep, ConfirmStep
<1>3. Typed /\ Inv /\ [Next]_vars =>
        [\A h \in Handlers :
           (Working(h) /\ jobs[h].op = "confirm" /\ jobs[h].alone /\ ~Working(h)'
            /\ jobs[h].copy # None) =>
             LET copy == jobs[h].copy
                 now  == receipts'[jobs[h].doc[2]]
                 done == Decided(copy, jobs[h].arg)
             IN  CASE jobs'[h].result = "ok" ->
                        IF FullReturn(copy, jobs[h].arg)
                        THEN now.status = copy.status /\ now.remarks = done.remarks
                        ELSE now.status = "submitted" /\ Same(now, done)
                   [] jobs'[h].result = "error" -> now.status = copy.status /\ Same(now, copy)
                   [] jobs'[h].result = "kept" -> now.status = copy.status /\ Same(now, done)
                   [] OTHER -> TRUE]_vars
  <2> SUFFICES ASSUME Typed, Inv, [Next]_vars, NEW h \in Handlers,
                      Working(h), jobs[h].op = "confirm", jobs[h].alone, ~Working(h)',
                      jobs[h].copy # None
               PROVE  Settled(jobs[h], jobs'[h].result, receipts'[jobs[h].doc[2]])
    BY DEF Settled
  <2>1. ~SameJob(h)
    BY OthersGoOn DEF Working
  <2>2. ReceiptStep(h) \/ NoteStep(h) \/ Dropped(h)
    BY <2>1, StepsOfOne, UnchangedIs, DeskReceiptTyped, DeskNoteTyped DEF OthersKept, AllKept
  <2>3. ConfirmMoves(h, jobs[h])
    BY <2>2, OwnConfirmStep
  <2> QED
    BY <2>3 DEF ConfirmMoves
<1> QED
  BY <1>1, <1>2, <1>3, StockTyped, PTL DEF Spec, ConfirmIsWhole

-----------------------------------------------------------------------------
(***************************************************************************)
(* Answers that are alone with their note. The decision follows from the   *)
(* note as it was read, what is sent back and what the remarks say are     *)
(* written before the state, and none of it is touched by others: when the *)
(* state is there, the quantity that each screen works out for itself is   *)
(* the one that was decided.                                               *)
(***************************************************************************)
AnswerKnows(j) ==
  LET n == j.doc[2]
      note == notes[n]
      partial == j.arg.state = PARTIAL
  IN  j.pc \in Answering \ {"get"} =>
        /\ note.status = "submitted"
        /\ j.arg.state = CONFIRMED => j.arg.accepted = note.qty /\ j.arg.returned = 0
        /\ partial => /\ j.arg.returned \in 1 .. note.qty - 1
                      /\ j.arg.accepted = note.qty - j.arg.returned
        /\ j.pc # "state" => j.copy.decision = note.decision
        /\ (partial /\ j.pc = "map") => j.copy.qty = note.qty
        /\ (partial /\ j.pc \in {"insert", "book"}) => j.arg.back = j.arg.returned
        /\ (partial /\ j.pc \in {"remarks", "state"}) =>
             \E r \in ReturnsOf(n) : returns[r].qty = j.arg.returned
        /\ j.pc = "state" =>
             note.decision = [accepted |-> j.arg.accepted, returned |-> j.arg.returned]

AnswerInv ==
  \A h \in Handlers :
    (Working(h) /\ jobs[h].op = "answer" /\ jobs[h].alone) => AnswerKnows(jobs[h])

\* A note is written by a request that works on it, or on the desk.
LEMMA NotesOfOthers ==
  ASSUME Typed, NEW g \in Handlers, NoteStep(g), NEW n \in DOMAIN notes,
         On(g, Note(n)) => jobs[g].pc \in Without
  PROVE  notes'[n] = notes[n]
<1>1. PICK j : j = jobs[g]
  OBVIOUS
<1>2. ASSUME NEW m, m # n, NEW doc, StoredNote(m, doc) PROVE notes'[n] = notes[n]
  BY <1>2 DEF StoredNote, Typed, NotesTyped
<1>3. CASE CreateNote(g)
  <2>1. notes' = notes \/ \E doc : notes' = Append(notes, doc)
    BY <1>3 DEF CreateNote
  <2>2. notes \in Seq(NoteType)
    BY DEF Typed, NotesTyped
  <2> QED
    BY <2>1, <2>2
<1>4. CASE \/ OpenNote(g) \/ SubmitNote(g) \/ DeleteNote(g) \/ WriteRemarks(g) \/ WriteState(g)
  <2>1. Working(g) /\ j.pc \notin Without
    BY <1>1, <1>4 DEF OpenNote, SubmitNote, DeleteNote, WriteRemarks, WriteState, At, Without
  <2>2. NoteStep(g)
    BY <1>4 DEF NoteStep
  <2>3. j.doc[1] = "note" /\ OpenJob(j)
    BY <1>1, <2>1, <2>2, NoteStepIs, RequestIs
  <2>4. j.doc = Note(j.doc[2])
    BY <2>3 DEF OpenJob, Note
  <2>5. PICK m : m = j.doc[2]
    OBVIOUS
  <2>6. m # n
    BY <1>1, <2>1, <2>4, <2>5 DEF On
  <2>7. \A doc, outcome : PutFields(m, doc, outcome) => notes'[n] = notes[n]
    BY <1>2, <2>6 DEF PutFields
  <2>8. \A state, outcome : PutState(m, state, outcome) => notes'[n] = notes[n]
    BY <2>7 DEF PutState
  <2>9. \A doc : StoredNote(m, doc) => notes'[n] = notes[n]
    BY <1>2, <2>6
  <2> QED
    BY <1>1, <1>4, <2>5, <2>7, <2>8, <2>9
       DEF OpenNote, SubmitNote, DeleteNote, WriteRemarks, WriteState
<1>5. UNCHANGED noteVars => notes' = notes
  BY DEF noteVars
<1> QED
  BY <1>3, <1>4, <1>5 DEF NoteStep, Issue, CheckSource, ReadNote, Answer, GetNote, MapReturn,
     InsertReturn, BookReturn

\* A return that is booked stays booked, with what it holds.
LEMMA ReturnsStand ==
  ASSUME Typed, [Next]_vars, NEW n, NEW r \in ReturnsOf(n)
  PROVE  r \in ReturnsOf(n)' /\ returns'[r].qty = returns[r].qty
<1>1. returns \in Seq(ReturnType) /\ r \in DOMAIN returns
      /\ returns[r].of = n /\ returns[r].status = "submitted"
  BY DEF Typed, ReturnsTyped, ReturnsOf
<1>2. returns[r] \in ReturnType
  BY <1>1
<1>3. SUFFICES /\ r \in DOMAIN returns' /\ returns'[r].of = n
               /\ returns'[r].status = "submitted" /\ returns'[r].qty = returns[r].qty
  BY DEF ReturnsOf
<1>4. CASE UNCHANGED returns
  BY <1>1, <1>4
<1>5. CASE \E new : returns' = Append(returns, new)
  BY <1>1, <1>5
<1>6. CASE \E i : returns' = [returns EXCEPT ![i].status = "submitted"]
  <2>1. PICK i : returns' = [returns EXCEPT ![i].status = "submitted"]
    BY <1>6
  <2>2. CASE i = r
    <3>1. PICK new : new = [returns[r] EXCEPT !.status = "submitted"]
      OBVIOUS
    <3>2. new.of = returns[r].of /\ new.qty = returns[r].qty /\ new.status = "submitted"
      BY <1>2, <3>1 DEF ReturnType
    <3>3. r \in DOMAIN returns' /\ returns'[r] = new
      BY <1>1, <2>1, <2>2, <3>1
    <3> QED
      BY <1>1, <3>2, <3>3
  <2>3. CASE i # r
    BY <1>1, <2>1, <2>3
  <2> QED
    BY <2>2, <2>3
<1>7. \A h : InsertReturn(h) => UNCHANGED returns \/ \E new : returns' = Append(returns, new)
  BY DEF InsertReturn
<1>8. \A h : BookReturn(h) =>
        UNCHANGED returns \/ \E i : returns' = [returns EXCEPT ![i].status = "submitted"]
  BY DEF BookReturn
<1> QED
  BY <1>4, <1>5, <1>6, <1>7, <1>8, ReturnsMove

LEMMA AnswerKnowsKept ==
  ASSUME Typed, [Next]_vars, NEW j, AnswerKnows(j), notes'[j.doc[2]] = notes[j.doc[2]]
  PROVE  AnswerKnows(j)'
<1>1. PICK n : n = j.doc[2]
  OBVIOUS
<1>2. (\E r \in ReturnsOf(n) : returns[r].qty = j.arg.returned) =>
        \E r \in ReturnsOf(n)' : returns'[r].qty = j.arg.returned
  BY ReturnsStand
<1> QED
  BY <1>1, <1>2 DEF AnswerKnows

\* The quantities of a decision add up to what was sent.
LEMMA NormalizedFits ==
  ASSUME NEW doc \in NoteType, NEW answer, NEW d, d = Normalized(doc, answer), d # None
  PROVE  /\ d.state = CONFIRMED => d.accepted = doc.qty /\ d.returned = 0
         /\ d.state = PARTIAL => /\ d.returned \in 1 .. doc.qty - 1
                                 /\ d.accepted = doc.qty - d.returned
<1>1. doc.qty \in Nat
  BY DEF NoteType
<1>2. REJECTED # CONFIRMED /\ REJECTED # PARTIAL /\ CONFIRMED # PARTIAL
  BY DEF REJECTED, CONFIRMED, PARTIAL
<1>3. \A state, accepted, returned :
        LET e == Decision(state, accepted, returned)
        IN  e.state = state /\ e.accepted = accepted /\ e.returned = returned
  BY DEF Decision
<1>4. \/ d = Decision(CONFIRMED, doc.qty, 0)
      \/ d = Decision(REJECTED, 0, doc.qty)
      \/ \E back \in 1 .. doc.qty - 1 : d = Decision(PARTIAL, doc.qty - back, back)
  <2>1. \A back : (back \in 1 .. doc.qty /\ back # doc.qty) => back \in 1 .. doc.qty - 1
    BY <1>1
  <2> QED
    BY <2>1 DEF Normalized
<1> QED
  BY <1>2, <1>3, <1>4

\* How an answer may end.
SeenByAll(n) ==
  Cardinality(ReturnsOf(n)) <= 1 => {CustomerRecord(n), NotifiedRecord(n)} \subseteq NoteRecords
AnswerMoves(h, j) ==
  /\ Working(h)' => AnswerKnows(jobs[h])'
  /\ jobs'[h] = Idle("ok") => SeenByAll(j.doc[2])'

LEMMA AnswerEnds ==
  ASSUME Typed, NEW h \in Handlers, NEW j, NEW result, Finish(h, result),
         result # "ok" \/ SeenByAll(j.doc[2])'
  PROVE  AnswerMoves(h, j)
<1>1. jobs'[h] = Idle(result) /\ ~Working(h)'
  BY ContinueGoes, FinishGoes DEF Finish
<1>2. jobs'[h].result = result /\ Idle("ok").result = "ok"
  BY <1>1 DEF Idle
<1>3. result = "ok" \/ jobs'[h] # Idle("ok")
  BY <1>2
<1> QED
  BY <1>1, <1>3 DEF AnswerMoves

LEMMA AnswerGoesOn ==
  ASSUME Typed, NEW h \in Handlers, NEW j, NEW k, Continue(h, k), k.op = "answer", AnswerKnows(k)'
  PROVE  AnswerMoves(h, j)
<1>1. jobs'[h] = k
  BY ContinueGoes
<1>2. jobs'[h] # Idle("ok")
  BY <1>1 DEF Idle
<1>3. AnswerKnows(jobs[h])'
  BY <1>1
<1> QED
  BY <1>2, <1>3 DEF AnswerMoves

\* What the steps of an answer start from.
LEMMA AnsweringFrom ==
  ASSUME Typed, NEW h \in Handlers, Working(h), NEW j, j = jobs[h], j.op = "answer"
  PROVE  /\ IsJob(j) /\ NoteJob(j) /\ j.doc[2] \in DOMAIN notes
         /\ notes[j.doc[2]] \in NoteType /\ notes[j.doc[2]].qty \in Nat
         /\ j.pc \in Answering \ {"get"} =>
              /\ j.arg.state \in {REJECTED, CONFIRMED, PARTIAL}
              /\ j.arg.accepted \in Nat /\ j.arg.returned \in Nat
  BY WritingIs, NoteIs DEF NoteType, NoteJob

LEMMA GetKnows ==
  ASSUME Typed, NEW h \in Handlers, NEW j, j = jobs[h], j.op = "answer", GetNote(h)
  PROVE  AnswerMoves(h, j)
<1>1. Working(h) /\ j.pc = "get" /\ UNCHANGED noteVars
  BY DEF GetNote, At
<1>2. PICK n : n = j.doc[2]
  OBVIOUS
<1>3. PICK doc : doc = notes[n]
  OBVIOUS
<1>4. IsJob(j) /\ doc \in NoteType
  BY <1>1, <1>2, <1>3, AnsweringFrom
<1>5. PICK d : d = Normalized(doc, j.arg)
  OBVIOUS
<1>6. PICK pc : pc = (IF d.returned > 0 THEN "map" ELSE "remarks")
  OBVIOUS
<1>7. ASSUME Finish(h, "error") PROVE AnswerMoves(h, j)
  BY <1>7, AnswerEnds
<1>8. ASSUME d # None, Continue(h, [j EXCEPT !.copy = doc, !.arg = d, !.pc = pc])
      PROVE  AnswerMoves(h, j)
  <2>1. PICK k : k = [j EXCEPT !.copy = doc, !.arg = d, !.pc = pc]
    OBVIOUS
  <2>2. k.op = j.op /\ k.pc = pc /\ k.doc = j.doc /\ k.arg = d /\ k.copy = doc
    BY <1>4, <2>1 DEF IsJob
  <2>3. /\ doc.status = "submitted"
        /\ d.state = CONFIRMED => d.accepted = doc.qty /\ d.returned = 0
        /\ d.state = PARTIAL => /\ d.returned \in 1 .. doc.qty - 1
                                /\ d.accepted = doc.qty - d.returned
    BY <1>4, <1>5, <1>8, NormalizedIs, NormalizedFits
  <2>4. pc # "state" /\ pc \notin {"insert", "book"} /\ (d.state = PARTIAL => pc = "map")
    BY <1>4, <1>6, <2>3 DEF NoteType
  <2>5. notes'[n] = doc /\ k.doc[2] = n
    BY <1>1, <1>2, <1>3, <2>2 DEF noteVars
  <2>6. AnswerKnows(k)'
    BY <2>2, <2>3, <2>4, <2>5 DEF AnswerKnows
  <2> QED
    BY <1>8, <2>1, <2>2, <2>6, AnswerGoesOn
<1>9. ReadFails(h, Idle("error")) => AnswerMoves(h, j)
  BY <1>7, ReadFailsTyped DEF Finish
<1> QED
  BY <1>2, <1>3, <1>5, <1>6, <1>7, <1>8, <1>9 DEF GetNote

LEMMA MapKnows ==
  ASSUME Typed, NEW h \in Handlers, NEW j, j = jobs[h], j.op = "answer", AnswerKnows(j),
         MapReturn(h)
  PROVE  AnswerMoves(h, j)
<1>1. Working(h) /\ j.pc = "map" /\ j.pc \in Answering \ {"get"} /\ UNCHANGED noteVars
  BY DEF MapReturn, At, Answering
<1>2. PICK n : n = j.doc[2]
  OBVIOUS
<1>3. IsJob(j) /\ notes[n].qty \in Nat
      /\ j.arg.state \in {REJECTED, CONFIRMED, PARTIAL}
  BY <1>1, <1>2, AnsweringFrom
<1>4. PICK back : back = QtyBack(j.copy.qty, notes[n].qty - Returned(n), j.arg.returned)
  OBVIOUS
<1>5. PICK arg : arg = [state |-> j.arg.state, accepted |-> j.arg.accepted,
                        returned |-> j.arg.returned, back |-> back]
  OBVIOUS
<1>6. ASSUME NEW result, result # "ok", Finish(h, result) PROVE AnswerMoves(h, j)
  BY <1>6, AnswerEnds
<1>7. ASSUME Continue(h, [j EXCEPT !.pc = "insert", !.arg = arg]) PROVE AnswerMoves(h, j)
  <2>1. PICK k : k = [j EXCEPT !.pc = "insert", !.arg = arg]
    OBVIOUS
  <2>2. k.op = j.op /\ k.pc = "insert" /\ k.doc = j.doc /\ k.arg = arg /\ k.copy = j.copy
    BY <1>3, <2>1 DEF IsJob
  <2>3. /\ arg.state = j.arg.state /\ arg.accepted = j.arg.accepted
        /\ arg.returned = j.arg.returned /\ arg.back = back
    BY <1>5
  <2>4. j.arg.state = PARTIAL => back = j.arg.returned
    <3>1. j.arg.state = PARTIAL => /\ j.copy.qty = notes[n].qty
                                   /\ j.arg.returned \in 1 .. notes[n].qty - 1
      BY <1>1, <1>2 DEF AnswerKnows
    <3>2. j.arg.state = PARTIAL => j.arg.returned # j.copy.qty
      BY <1>3, <3>1
    <3> QED
      BY <1>4, <3>2 DEF QtyBack
  <2>5. notes'[n] = notes[n] /\ k.doc[2] = n
    BY <1>1, <1>2, <2>2 DEF noteVars
  <2>6. AnswerKnows(k)'
    BY <1>1, <1>2, <2>2, <2>3, <2>4, <2>5 DEF AnswerKnows
  <2> QED
    BY <1>7, <2>1, <2>2, <2>6, AnswerGoesOn
<1>8. ReadFails(h, Idle("error")) => AnswerMoves(h, j)
  BY <1>6, ReadFailsTyped DEF Finish
<1>9. Failure(h) # "ok"
  BY DEF Failure
<1> QED
  BY <1>2, <1>4, <1>5, <1>6, <1>7, <1>8, <1>9 DEF MapReturn

LEMMA InsertKnows ==
  ASSUME Typed, NEW h \in Handlers, NEW j, j = jobs[h], j.op = "answer", AnswerKnows(j),
         InsertReturn(h)
  PROVE  AnswerMoves(h, j)
<1>1. Working(h) /\ j.pc = "insert" /\ j.pc \in Answering \ {"get"} /\ UNCHANGED notes
  BY DEF InsertReturn, At, Answering
<1>2. IsJob(j)
  BY <1>1, AnsweringFrom
<1>3. PICK attempt : attempt = Len(returns) + 1
  OBVIOUS
<1>4. ASSUME Continue(h, [j EXCEPT !.pc = "book", !.attempt = attempt])
      PROVE  AnswerMoves(h, j)
  <2>1. PICK k : k = [j EXCEPT !.pc = "book", !.attempt = attempt]
    OBVIOUS
  <2>2. k.op = j.op /\ k.pc = "book" /\ k.doc = j.doc /\ k.arg = j.arg /\ k.copy = j.copy
    BY <1>2, <2>1 DEF IsJob
  <2>3. AnswerKnows(k)'
    BY <1>1, <2>2 DEF AnswerKnows
  <2> QED
    BY <1>4, <2>1, <2>2, <2>3, AnswerGoesOn
<1>5. \/ Continue(h, [j EXCEPT !.pc = "book", !.attempt = attempt])
      \/ Finish(h, "lost") \/ Finish(h, "error")
  BY <1>3 DEF InsertReturn, Outcomes
<1> QED
  BY <1>4, <1>5, AnswerEnds

LEMMA BookKnows ==
  ASSUME Typed, NEW h \in Handlers, NEW j, j = jobs[h], j.op = "answer", AnswerKnows(j),
         ReturnKnown(j), BookReturn(h)
  PROVE  AnswerMoves(h, j)
<1>1. PICK r : r = j.attempt
  OBVIOUS
<1>2. PICK n : n = j.doc[2]
  OBVIOUS
<1>3. /\ Working(h) /\ NoteJob(j) /\ j.pc = "book" /\ UNCHANGED notes
      /\ r \in DOMAIN returns /\ returns[r] = NewReturn(j)
      /\ Working(h)' => BooksReturn(r, n)
  BY <1>1, <1>2, BookReturnIs
<1>4. returns[r].of = n /\ returns[r].qty = j.arg.back /\ returns[r] \in ReturnType
  BY <1>2, <1>3 DEF NewReturn, Typed, ReturnsTyped
<1>5. CASE Finish(h, "lost")
  BY <1>5, AnswerEnds
<1>6. CASE Go(h, "remarks")
  <2>1. PICK k : k = [j EXCEPT !.pc = "remarks"]
    OBVIOUS
  <2>2. Continue(h, k) /\ jobs'[h] = k
    BY <1>6, <2>1, ContinueGoes DEF Go
  <2>3. k.op = j.op /\ k.pc = "remarks" /\ k.doc = j.doc /\ k.arg = j.arg /\ k.copy = j.copy
    BY <1>3, <2>1, RequestIs DEF IsJob
  <2>4. BooksReturn(r, n)
    BY <1>3, <2>2, <2>3 DEF Working
  <2>5. PICK new : new = [returns[r] EXCEPT !.status = "submitted"]
    OBVIOUS
  <2>6. new.of = n /\ new.qty = j.arg.back /\ new.status = "submitted"
    BY <1>4, <2>5 DEF ReturnType
  <2>7. r \in DOMAIN returns' /\ returns'[r] = new
    BY <1>3, <2>4, <2>5 DEF BooksReturn, Typed, ReturnsTyped
  <2>8. r \in ReturnsOf(n)' /\ returns'[r].qty = j.arg.back
    BY <2>6, <2>7 DEF ReturnsOf
  <2>9. j.arg.state = PARTIAL => \E i \in ReturnsOf(n)' : returns'[i].qty = j.arg.returned
    BY <1>3, <2>8 DEF AnswerKnows, Answering
  <2>10. AnswerKnows(k)'
    BY <1>2, <1>3, <2>3, <2>9 DEF AnswerKnows, Answering
  <2> QED
    BY <2>2, <2>3, <2>10, AnswerGoesOn
<1> QED
  BY <1>5, <1>6 DEF BookReturn

LEMMA RemarksKnows ==
  ASSUME Typed, NEW h \in Handlers, NEW j, j = jobs[h], j.op = "answer", AnswerKnows(j),
         WriteRemarks(h)
  PROVE  AnswerMoves(h, j)
<1>1. Working(h) /\ j.pc = "remarks" /\ j.pc \in Answering \ {"get"} /\ UNCHANGED returns
  BY DEF WriteRemarks, At, Answering
<1>2. PICK n : n = j.doc[2]
  OBVIOUS
<1>3. PICK old : old = notes[n]
  OBVIOUS
<1>4. /\ IsJob(j) /\ n \in DOMAIN notes /\ old \in NoteType
      /\ j.arg.accepted \in Nat /\ j.arg.returned \in Nat
  BY <1>1, <1>2, <1>3, AnsweringFrom
<1>5. PICK d : d = [accepted |-> j.arg.accepted, returned |-> j.arg.returned]
  OBVIOUS
<1>6. ASSUME notes'[n].status = old.status, notes'[n].qty = old.qty, notes'[n].decision = d,
             Go(h, "state")
      PROVE  AnswerMoves(h, j)
  <2>1. PICK k : k = [j EXCEPT !.pc = "state"]
    OBVIOUS
  <2>2. k.op = j.op /\ k.pc = "state" /\ k.doc = j.doc /\ k.arg = j.arg
    BY <1>4, <2>1 DEF IsJob
  <2>3. ReturnsOf(n)' = ReturnsOf(n) /\ returns' = returns
    BY <1>1 DEF ReturnsOf
  <2>4. AnswerKnows(k)'
    BY <1>1, <1>2, <1>3, <1>5, <1>6, <2>2, <2>3 DEF AnswerKnows
  <2> QED
    BY <1>6, <2>1, <2>2, <2>4, AnswerGoesOn DEF Go
<1>7. CASE j.copy.decision = d /\ Go(h, "state") /\ UNCHANGED notes
  BY <1>1, <1>2, <1>3, <1>6, <1>7 DEF AnswerKnows
<1>8. CASE Finish(h, "lost")
  BY <1>8, AnswerEnds
<1>9. ASSUME Go(h, "state"), PutFields(n, [notes[n] EXCEPT !.decision = d], "ok")
      PROVE  AnswerMoves(h, j)
  <2>1. PICK doc : doc = [old EXCEPT !.decision = d]
    OBVIOUS
  <2>2. PICK new : new = [doc EXCEPT !.rev = old.rev + 1]
    OBVIOUS
  <2>3. new.status = old.status /\ new.qty = old.qty /\ new.decision = d
    BY <1>4, <2>1, <2>2 DEF NoteType
  <2>4. notes'[n] = new
    BY <1>3, <1>4, <1>9, <2>1, <2>2 DEF PutFields, StoredNote, Typed, NotesTyped
  <2> QED
    BY <1>6, <1>9, <2>3, <2>4
<1> QED
  BY <1>2, <1>5, <1>7, <1>8, <1>9 DEF WriteRemarks

\* One return, and what it brings back.
LEMMA OneReturned ==
  ASSUME NEW rs \in Seq(ReturnType), NEW r \in 1 .. Len(rs), NEW S, \A i : i \in S <=> i = r
  PROVE  Total(rs, S) = rs[r].qty
<1>1. PICK none : none = <<>>
  OBVIOUS
<1>2. none \in Seq(ReturnType) /\ Len(none) = 0 /\ Len(rs) \in Nat
  BY <1>1
<1>3. PICK d \in Nat : d = rs[r].qty
  BY PartTyped
<1>4. \A i \in 1 .. Len(rs) : Part(rs, S, i) = Part(none, S, i) + (IF i = r THEN d ELSE 0)
  BY <1>2, <1>3 DEF Part
<1>5. none \in Seq(ReturnType) /\ Len(none) <= Len(rs)
  BY <1>2
<1>6. Total(rs, S) = Total(none, S) + d
  BY <1>4, <1>5, TotalChanges
<1>7. Total(none, S) = 0
  BY <1>2, TotalIs
<1> QED
  BY <1>3, <1>6, <1>7

LEMMA OnlyReturn ==
  ASSUME Typed, NEW n, NEW r \in ReturnsOf(n), Cardinality(ReturnsOf(n)) <= 1
  PROVE  Returned(n) = returns[r].qty
<1>1. returns \in Seq(ReturnType) /\ DOMAIN returns = 1 .. Len(returns)
      /\ r \in 1 .. Len(returns)
  BY DEF Typed, ReturnsTyped, ReturnsOf
<1>2. IsFiniteSet(1 .. Len(returns))
  BY <1>1, FS_Interval
<1>3. IsFiniteSet(ReturnsOf(n))
  BY <1>1, <1>2, FS_Subset DEF ReturnsOf
<1>4. Cardinality({r}) = 1 /\ Cardinality(ReturnsOf(n)) \in Nat
  BY <1>3, FS_Singleton, FS_CardinalityType
<1>5. {r} = ReturnsOf(n)
  BY <1>3, <1>4, FS_Subset
<1>6. PICK S : S = ReturnsOf(n)
  OBVIOUS
<1>7. Total(returns, S) = returns[r].qty
  BY <1>1, <1>5, <1>6, OneReturned
<1> QED
  BY <1>6, <1>7 DEF Returned

\* What each screen makes of a note whose state and remarks agree.
Shows(doc, back) ==
  /\ doc \in NoteType /\ doc.status = "submitted" /\ doc.flow = 1
  /\ doc.state \in {REJECTED, CONFIRMED, PARTIAL}
  /\ doc.state = CONFIRMED => doc.decision = [accepted |-> doc.qty, returned |-> 0]
  /\ doc.state = PARTIAL => /\ back \in 1 .. doc.qty - 1
                            /\ doc.decision = [accepted |-> doc.qty - back, returned |-> back]

ShownQty(doc, back) ==
  IF doc.state = CONFIRMED THEN doc.qty ELSE IF doc.state = PARTIAL THEN doc.qty - back ELSE 0

RowOf(n, doc, back) ==
  [id |-> Note(n), status |-> doc.status, flow |-> doc.flow, state |-> doc.state,
   qty |-> doc.qty, returned |-> back]

RecordOf(n, doc, back) ==
  [id |-> Note(n), status |-> StatusOf(doc), sent |-> doc.qty, accepted |-> ShownQty(doc, back)]

LEMMA StatusIs ==
  ASSUME NEW doc, NEW back, Shows(doc, back)
  PROVE  /\ doc.qty \in Nat
         /\ doc.state = CONFIRMED => StatusOf(doc) = "accepted"
         /\ doc.state = PARTIAL => StatusOf(doc) = "partial"
         /\ doc.state = REJECTED => StatusOf(doc) = "rejected"
  BY DEF Shows, NoteType, StatusOf, REJECTED, CONFIRMED, PARTIAL

LEMMA WarehouseSees ==
  ASSUME NEW n, NEW doc, NEW back, Shows(doc, back)
  PROVE  NoteRecord(RowOf(n, doc, back)) = RecordOf(n, doc, back)
<1>1. PICK row : row = RowOf(n, doc, back)
  OBVIOUS
<1>2. /\ row.id = Note(n) /\ row.status = "submitted" /\ row.flow = 1 /\ row.state = doc.state
      /\ row.qty = doc.qty /\ row.returned = back
  BY <1>1 DEF RowOf, Shows
<1>3. NoteStatus(row) = StatusOf(doc)
  BY <1>2 DEF NoteStatus, StatusOf, Shows
<1>4. REJECTED # CONFIRMED /\ REJECTED # PARTIAL /\ CONFIRMED # PARTIAL
  BY DEF REJECTED, CONFIRMED, PARTIAL
<1>5. doc.state = PARTIAL => PartialAccepted(row) = doc.qty - back
  BY <1>2, StatusIs DEF PartialAccepted, Positive, Shows
<1>6. (CASE NoteStatus(row) = "accepted" -> row.qty
         [] NoteStatus(row) = "partial" -> PartialAccepted(row)
         [] OTHER -> 0) = ShownQty(doc, back)
  BY <1>2, <1>3, <1>4, <1>5, StatusIs DEF ShownQty, Shows
<1>7. NoteRecord(row) = RecordOf(n, doc, back)
  BY <1>2, <1>3, <1>6 DEF NoteRecord, RecordOf
<1> QED
  BY <1>1, <1>7

LEMMA CustomerSees ==
  ASSUME NEW n, NEW doc, NEW back, doc = notes'[n], back = Returned(n)', Shows(doc, back)
  PROVE  CustomerRecord(n)' = RecordOf(n, doc, back)
<1>1. REJECTED # CONFIRMED /\ REJECTED # PARTIAL /\ CONFIRMED # PARTIAL
  BY DEF REJECTED, CONFIRMED, PARTIAL
<1>2. PICK said : said = IF doc.decision = None THEN [accepted |-> 0, returned |-> 0] ELSE doc.decision
  OBVIOUS
<1>3. PICK whence : whence = IF said.returned <= 0 THEN back ELSE said.returned
  OBVIOUS
<1>4. CustomerAccepted(n)' =
        CASE StatusOf(doc) = "accepted" -> IF said.accepted <= 0 THEN doc.qty ELSE said.accepted
          [] StatusOf(doc) = "partial" ->
               IF said.accepted <= 0 /\ whence > 0 THEN Positive(doc.qty - whence)
               ELSE said.accepted
          [] StatusOf(doc) = "rejected" -> 0
          [] OTHER -> said.accepted
  BY <1>2, <1>3 DEF CustomerAccepted
<1>5. CASE doc.state = CONFIRMED
  <2>1. said.accepted \in {0, doc.qty}
    BY <1>2, <1>5 DEF Shows
  <2>2. CustomerAccepted(n)' = doc.qty
    BY <1>4, <1>5, <2>1, StatusIs
  <2> QED
    BY <1>5, <2>2 DEF CustomerRecord, RecordOf, ShownQty
<1>6. CASE doc.state = PARTIAL
  <2>1. back \in 1 .. doc.qty - 1 /\ doc.qty \in Nat
    BY <1>6, StatusIs DEF Shows
  <2>2. \/ said.accepted = 0 /\ said.returned = 0
        \/ said.accepted = doc.qty - back /\ said.returned = back
    BY <1>2, <1>6 DEF Shows
  <2>3. whence = back
    BY <1>3, <2>1, <2>2
  <2>4. Positive(doc.qty - whence) = doc.qty - back
    BY <2>1, <2>3 DEF Positive
  <2>5. CustomerAccepted(n)' = doc.qty - back
    BY <1>4, <1>6, <2>1, <2>2, <2>3, <2>4, StatusIs
  <2> QED
    BY <1>1, <1>6, <2>5 DEF CustomerRecord, RecordOf, ShownQty
<1>7. CASE doc.state = REJECTED
  <2>1. CustomerAccepted(n)' = 0
    BY <1>4, <1>7, StatusIs
  <2> QED
    BY <1>1, <1>7, <2>1 DEF CustomerRecord, RecordOf, ShownQty
<1> QED
  BY <1>5, <1>6, <1>7 DEF Shows

LEMMA NotificationSees ==
  ASSUME NEW n, NEW doc, NEW back, doc = notes'[n], back = Returned(n)', Shows(doc, back)
  PROVE  NotifiedRecord(n)' = RecordOf(n, doc, back)
<1>1. REJECTED # CONFIRMED /\ REJECTED # PARTIAL /\ CONFIRMED # PARTIAL
  BY DEF REJECTED, CONFIRMED, PARTIAL
<1>2. NotifiedAccepted(n)' =
        CASE StatusOf(doc) = "accepted" -> doc.qty
          [] StatusOf(doc) = "partial" -> IF back > 0 THEN Positive(doc.qty - back) ELSE doc.qty
          [] OTHER -> 0
  BY DEF NotifiedAccepted
<1>3. doc.state = PARTIAL => back > 0 /\ Positive(doc.qty - back) = doc.qty - back
  BY StatusIs DEF Shows, Positive
<1>4. NotifiedAccepted(n)' = ShownQty(doc, back)
  BY <1>1, <1>2, <1>3, StatusIs DEF ShownQty, Shows
<1> QED
  BY <1>4 DEF NotifiedRecord, RecordOf

LEMMA ScreensAgree ==
  ASSUME NEW n \in DOMAIN notes', NEW doc, NEW back, doc = notes'[n], back = Returned(n)',
         Shows(doc, back)
  PROVE  ({CustomerRecord(n), NotifiedRecord(n)} \subseteq NoteRecords)'
<1>1. PICK row : row = RowOf(n, doc, back)
  OBVIOUS
<1>2. row \in NoteRows'
  BY <1>1 DEF NoteRows, RowOf, Shows
<1>3. NoteRecord(row) \in NoteRecords'
  BY <1>2 DEF NoteRecords
<1>4. NoteRecord(row) = RecordOf(n, doc, back)
  BY <1>1, WarehouseSees
<1>5. CustomerRecord(n)' = RecordOf(n, doc, back) /\ NotifiedRecord(n)' = RecordOf(n, doc, back)
  BY CustomerSees, NotificationSees
<1> QED
  BY <1>3, <1>4, <1>5

\* The last step of an answer.
LEMMA StateShows ==
  ASSUME Typed, NEW h \in Handlers, NEW j, j = jobs[h], j.op = "answer", AnswerKnows(j),
         WriteState(h)
  PROVE  AnswerMoves(h, j)
<1>1. Working(h) /\ j.pc = "state" /\ j.pc \in Answering \ {"get"} /\ UNCHANGED returns
  BY DEF WriteState, At, Answering
<1>2. PICK n : n = j.doc[2]
  OBVIOUS
<1>3. PICK old : old = notes[n]
  OBVIOUS
<1>4. PICK state : state = j.arg.state
  OBVIOUS
<1>5. /\ n \in DOMAIN notes /\ old \in NoteType /\ old.qty \in Nat
      /\ state \in {REJECTED, CONFIRMED, PARTIAL}
  BY <1>1, <1>2, <1>3, <1>4, AnsweringFrom
<1>6. /\ old.status = "submitted"
      /\ old.decision = [accepted |-> j.arg.accepted, returned |-> j.arg.returned]
      /\ state = CONFIRMED => j.arg.accepted = old.qty /\ j.arg.returned = 0
      /\ state = PARTIAL => /\ j.arg.returned \in 1 .. old.qty - 1
                            /\ j.arg.accepted = old.qty - j.arg.returned
                            /\ \E r \in ReturnsOf(n) : returns[r].qty = j.arg.returned
  BY <1>1, <1>2, <1>3, <1>4 DEF AnswerKnows
<1>7. ASSUME NEW outcome, outcome # "ok", Finish(h, "lost") PROVE AnswerMoves(h, j)
  BY <1>7, AnswerEnds
<1>8. ASSUME PutState(n, state, "ok"), Finish(h, "ok") PROVE AnswerMoves(h, j)
  <2>1. PICK mid : mid = [old EXCEPT !.flow = 1, !.state = state]
    OBVIOUS
  <2>2. PICK doc : doc = [mid EXCEPT !.rev = old.rev + 1]
    OBVIOUS
  <2>3. /\ doc \in NoteType /\ doc.status = "submitted" /\ doc.flow = 1 /\ doc.state = state
        /\ doc.qty = old.qty /\ doc.decision = old.decision
    <3>1. state \in 0 .. 4
      BY <1>5 DEF REJECTED, CONFIRMED, PARTIAL
    <3>2. /\ mid \in NoteType /\ mid.status = "submitted" /\ mid.flow = 1 /\ mid.state = state
          /\ mid.qty = old.qty /\ mid.decision = old.decision
      BY <1>5, <1>6, <2>1, <3>1 DEF NoteType
    <3>3. old.rev \in Nat
      BY <1>5 DEF NoteType
    <3> QED
      BY <2>2, <3>2, <3>3 DEF NoteType
  <2>4. n \in DOMAIN notes' /\ notes'[n] = doc
    BY <1>3, <1>5, <1>8, <2>1, <2>2
       DEF PutState, PutFields, StoredNote, Typed, NotesTyped
  <2>5. PICK back : back = Returned(n)
    OBVIOUS
  <2>6. Returned(n)' = back /\ ReturnsOf(n)' = ReturnsOf(n)
    BY <1>1, <2>5 DEF Returned, ReturnsOf
  <2>7. ASSUME Cardinality(ReturnsOf(n)) <= 1
        PROVE  ({CustomerRecord(n), NotifiedRecord(n)} \subseteq NoteRecords)'
    <3>1. state = PARTIAL => back = j.arg.returned
      BY <1>6, <2>5, <2>7, OnlyReturn
    <3>2. Shows(doc, back)
      BY <1>5, <1>6, <2>3, <3>1 DEF Shows
    <3> QED
      BY <2>4, <2>6, <3>2, ScreensAgree
  <2>8. SeenByAll(n)'
    BY <2>6, <2>7 DEF SeenByAll
  <2> QED
    BY <1>2, <1>8, <2>8, AnswerEnds
<1> QED
  BY <1>2, <1>4, <1>7, <1>8 DEF WriteState, Outcomes

\* The step of an answer that is alone, whichever it is.
LEMMA OwnAnswerStep ==
  ASSUME Typed, AnswerInv, ReturnInv, [Next]_vars, NEW h \in Handlers,
         ReceiptStep(h) \/ NoteStep(h) \/ Dropped(h),
         NEW j, j = jobs[h], Working(h), j.op = "answer", j.alone
  PROVE  AnswerMoves(h, j)
<1>1. AnswerKnows(j) /\ ReturnKnown(j)
  BY DEF AnswerInv, ReturnInv
<1>2. IsJob(j) /\ j.doc[1] = "note" /\ j.pc \in Answering
  BY WritingIs
<1>3. ~ReceiptStep(h)
  BY <1>2, ReceiptStepIs
<1>4. CASE Dropped(h)
  BY <1>4, AnswerEnds DEF Dropped
<1>5. CASE NoteStep(h)
  <2>1. ~(\E op, pc, doc, arg : Begin(h, op, pc, doc, arg))
    BY DEF Begin
  <2>2. \/ GetNote(h) \/ MapReturn(h) \/ InsertReturn(h) \/ BookReturn(h)
        \/ WriteRemarks(h) \/ WriteState(h)
    BY <1>2, <1>5, <2>1 DEF NoteStep, Issue, Answer, CheckSource, CreateNote, OpenNote,
       ReadNote, SubmitNote, DeleteNote, At, Answering
  <2> QED
    BY <1>1, <2>2, GetKnows, MapKnows, InsertKnows, BookKnows, RemarksKnows, StateShows
<1> QED
  BY <1>3, <1>4, <1>5

LEMMA NoteLeftAlone ==
  ASSUME Typed, AloneInv, NEW h \in Handlers,
         NEW j, j = jobs[h], Working(h), j.op = "answer", j.alone, jobs'[h] = j,
         \/ UNCHANGED notes
         \/ \E g \in Handlers \ {h} : NoteStep(g)
         \/ \E m \in 1 .. MaxNotes : DeskNote(m)
  PROVE  notes'[j.doc[2]] = notes[j.doc[2]]
<1>1. /\ IsJob(j) /\ j.doc = Note(j.doc[2]) /\ j.doc[2] \in DOMAIN notes
  BY WritingIs DEF Note
<1>2. PICK n : n = j.doc[2]
  OBVIOUS
<1>3. ASSUME NEW g \in Handlers \ {h}, NoteStep(g) PROVE notes'[n] = notes[n]
  <2>1. On(g, Note(n)) => jobs[g].pc \in Without
    BY <1>1, <1>2 DEF AloneInv, Writing
  <2> QED
    BY <1>1, <1>2, <1>3, <2>1, NotesOfOthers
<1>4. ASSUME NEW m, DeskNote(m) PROVE notes'[n] = notes[n]
  <2>1. m # n
    BY <1>1, <1>2, <1>4, DeskDisturbs DEF DeskNote, On
  <2>2. \E doc : StoredNote(m, doc)
    BY <1>4 DEF DeskNote
  <2> QED
    BY <1>1, <1>2, <2>1, <2>2 DEF StoredNote, Typed, NotesTyped
<1>5. CASE UNCHANGED notes
  BY <1>5
<1> QED
  BY <1>2, <1>3, <1>4, <1>5

LEMMA AnswerStep ==
  ASSUME Typed, AloneInv, AnswerInv, ReturnInv, [Next]_vars
  PROVE  AnswerInv'
<1> SUFFICES ASSUME NEW h \in Handlers, Working(h)', jobs'[h].op = "answer", jobs'[h].alone
             PROVE  AnswerKnows(jobs[h])'
  BY DEF AnswerInv
<1>1. ASSUME NEW g \in Handlers, OthersKept(g),
             ReceiptStep(g) \/ NoteStep(g) \/ Dropped(g),
             g = h
      PROVE  AnswerKnows(jobs[h])'
  <2>1. Moves(h)
    BY <1>1, ReceiptRequestGoes, NoteRequestGoes, FinishGoes DEF Moves, Dropped
  <2>2. CASE Starts(h)
    <3>1. PICK op, pc, doc, arg : Begin(h, op, pc, doc, arg)
      BY <2>2 DEF Starts
    <3>2. PICK k : k = NewJob(h, op, pc, doc, arg)
      OBVIOUS
    <3>3. jobs'[h] = k /\ k.op = op /\ k.pc = pc
      BY <3>1, <3>2, Begins DEF NewJob
    <3>4. pc = "get"
      <4>1. ~Working(h)
        BY <3>1 DEF Begin
      <4>2. PICK n, c, answer : Answer(h, n, c, answer)
        <5>1. \/ \E s \in Suppliers, qty \in Quantities : Dispatch(h, s, qty) \/ Unannounced(h, s, qty)
              \/ \E n \in 1 .. MaxReceipts, d \in Decisions : Confirm(h, n, d)
              \/ \E n \in 1 .. MaxReceipts, s \in Suppliers, approve \in BOOLEAN : Respond(h, n, s, approve)
              \/ \E n \in 1 .. MaxReceipts, s \in Suppliers : Acknowledge(h, n, s)
              \/ \E lines \in IssueRequests : Issue(h, lines)
              \/ \E n \in 1 .. MaxNotes, c \in Customers, answer \in Responses : Answer(h, n, c, answer)
          BY <1>1, <4>1, OpenSteps
        <5>2. \A o, p, q, a : Begin(h, o, p, q, a) => o = "answer"
          BY BeginGoes
        <5> QED
          BY <5>1, <5>2 DEF Dispatch, Unannounced, Confirm, Respond, Acknowledge, Issue
      <4> QED
        BY <3>3, <4>2, BeginGoes DEF Answer
    <3>5. AnswerKnows(k)'
      BY <3>3, <3>4 DEF AnswerKnows
    <3> QED
      BY <3>3, <3>5
  <2>3. CASE Stays(h)
    <3>1. PICK j : j = jobs[h]
      OBVIOUS
    <3>2. Working(h) /\ j.op = "answer" /\ j.alone
      BY <2>3, <3>1 DEF Stays
    <3>3. AnswerMoves(h, j)
      BY <1>1, <3>1, <3>2, OwnAnswerStep
    <3> QED
      BY <3>3 DEF AnswerMoves
  <2> QED
    BY <2>1, <2>2, <2>3 DEF Moves, Writing
<1>2. ASSUME SameJob(h), \/ UNCHANGED notes
                         \/ \E g \in Handlers \ {h} : NoteStep(g)
                         \/ \E m \in 1 .. MaxNotes : DeskNote(m)
      PROVE  AnswerKnows(jobs[h])'
  <2>1. PICK j : j = jobs[h]
    OBVIOUS
  <2>2. Working(h) /\ j.op = "answer" /\ j.alone
    BY <1>2, <2>1, OthersAlone
  <2>3. jobs'[h] = j
    BY <1>2, <2>1, <2>2, StillAlone
  <2>4. notes'[j.doc[2]] = notes[j.doc[2]]
    BY <1>2, <2>1, <2>2, <2>3, NoteLeftAlone
  <2>5. AnswerKnows(j)'
    BY <2>1, <2>2, <2>4, AnswerKnowsKept DEF AnswerInv
  <2> QED
    BY <2>3, <2>5
<1>3. CASE \/ UNCHANGED vars
           \/ \E n \in 1 .. MaxReceipts : DeskReceipt(n) /\ UNCHANGED noteVars
           \/ \E n \in 1 .. MaxNotes : DeskNote(n) /\ UNCHANGED receipts
  <2>1. AllKept
    BY <1>3, DeskReceiptTyped, DeskNoteTyped, UnchangedIs
  <2> QED
    BY <1>2, <1>3, <2>1 DEF AllKept, vars, noteVars
<1>4. ASSUME NEW g \in Handlers, OthersKept(g), g # h,
             \/ ReceiptStep(g) /\ UNCHANGED noteVars
             \/ NoteStep(g) /\ UNCHANGED receipts
             \/ Dropped(g) /\ UNCHANGED <<receipts, noteVars>>
      PROVE  AnswerKnows(jobs[h])'
  BY <1>2, <1>4 DEF OthersKept, noteVars
<1> QED
  BY <1>1, <1>3, <1>4, StepsOfOne

(* An answer that has its note to itself is seen alike by all three: the   *)
(* quantities the customer reads from the remarks, and those the warehouse *)
(* and the notification compute from what came back, are the ones that     *)
(* were decided, as long as the note has no return of another origin.      *)
THEOREM AnswersSeenByAll == Spec => AnswerIsSeenByAll
<1> DEFINE Inv == AloneInv /\ AnswerInv /\ ReturnInv
<1>1. Init => Inv
  <2> SUFFICES ASSUME Init PROVE Inv
    OBVIOUS
  <2>1. notes = <<>> /\ \A h \in Handlers : ~Working(h)
    BY DEF Init, RequestsInit, Idle, Working
  <2> QED
    BY <2>1 DEF AloneInv, AnswerInv, ReturnInv, StateBackedByReturn, OneReturnEach, At
<1>2. Typed /\ Inv /\ [Next]_vars => Inv'
  BY AloneStep, AnswerStep, ReturnsStep
<1>3. Typed /\ Inv /\ [Next]_vars =>
        [\A h \in Handlers, n \in DOMAIN notes :
           (On(h, Note(n)) /\ jobs[h].op = "answer" /\ jobs[h].alone /\ jobs'[h] = Idle("ok"))
             => (Cardinality(ReturnsOf(n)) <= 1 =>
                   {CustomerRecord(n), NotifiedRecord(n)} \subseteq NoteRecords)']_vars
  <2> SUFFICES ASSUME Typed, Inv, [Next]_vars, NEW h \in Handlers, NEW n \in DOMAIN notes,
                      On(h, Note(n)), jobs[h].op = "answer", jobs[h].alone, jobs'[h] = Idle("ok")
               PROVE  SeenByAll(n)'
    BY DEF SeenByAll
  <2>1. Working(h) /\ jobs[h].doc[2] = n /\ ~Working(h)'
    BY DEF On, Note, Working, Idle
  <2>2. ~SameJob(h)
    BY <2>1, OthersGoOn DEF Working
  <2>3. ReceiptStep(h) \/ NoteStep(h) \/ Dropped(h)
    BY <2>2, StepsOfOne, UnchangedIs, DeskReceiptTyped, DeskNoteTyped DEF OthersKept, AllKept
  <2>4. PICK j : j = jobs[h]
    OBVIOUS
  <2>5. AnswerMoves(h, j)
    BY <2>1, <2>3, <2>4, OwnAnswerStep
  <2> QED
    BY <2>1, <2>4, <2>5 DEF AnswerMoves
<1> QED
  BY <1>1, <1>2, <1>3, StockTyped, PTL DEF Spec, AnswerIsSeenByAll

-----------------------------------------------------------------------------
(***************************************************************************)
(* The lists and the totals of the warehouse. Each is a selection of the   *)
(* receipts and of the rows of delivery notes, so that two of them agree   *)
(* if they agree on every document, and a total counts a list if no two    *)
(* documents show under one name.                                          *)
(***************************************************************************)
LEMMA ReceiptHolds ==
  ASSUME Typed, NEW n \in DOMAIN receipts, NEW doc, doc = receipts[n]
  PROVE  /\ doc.status \in {"draft", "submitted", "cancelled"}
         /\ doc.qty \in Nat /\ Sent(doc) \in Nat /\ doc.qty <= Sent(doc)
         /\ doc.remarks.unannounced \in {"none", "pending", "approved", "rejected"}
<1>1. doc \in ReceiptType
  BY ReceiptIs
<1>2. doc.marker \in Nat /\ doc.qty \in Nat /\ doc.remarks \in RemarksType
  BY <1>1 DEF ReceiptType
<1> QED
  BY <1>1, <1>2 DEF ReceiptType, RemarksType, Sent

LEMMA RowIs ==
  ASSUME Typed, NEW row \in NoteRows
  PROVE  /\ row.qty \in Int /\ row.returned \in Nat
         /\ row.flow # 0 => row.qty \in Nat
         /\ row.id[1] \in {"note", "return"}
<1>1. CASE \E n \in DOMAIN notes : row =
             [id |-> Note(n), status |-> notes[n].status, flow |-> notes[n].flow,
              state |-> notes[n].state, qty |-> notes[n].qty, returned |-> Returned(n)]
  <2>1. PICK n \in DOMAIN notes : row =
             [id |-> Note(n), status |-> notes[n].status, flow |-> notes[n].flow,
              state |-> notes[n].state, qty |-> notes[n].qty, returned |-> Returned(n)]
    BY <1>1
  <2>2. notes[n].qty \in Nat
    BY NoteIs DEF NoteType
  <2>3. Returned(n) \in Nat
    BY ReturnedIs
  <2> QED
    BY <2>1, <2>2, <2>3 DEF Note
<1>2. CASE \E r \in DOMAIN returns : row =
             [id |-> <<"return", r>>, status |-> returns[r].status, flow |-> 0,
              state |-> 0, qty |-> -returns[r].qty, returned |-> 0]
  <2>1. PICK r \in DOMAIN returns : row =
             [id |-> <<"return", r>>, status |-> returns[r].status, flow |-> 0,
              state |-> 0, qty |-> -returns[r].qty, returned |-> 0]
    BY <1>2
  <2>2. returns \in Seq(ReturnType)
    BY DEF Typed, ReturnsTyped
  <2>3. returns[r] \in ReturnType
    BY <2>2
  <2> QED
    BY <2>1, <2>3 DEF ReturnType
<1> QED
  BY <1>1, <1>2 DEF NoteRows

LEMMA RowsDiffer ==
  ASSUME NEW row \in NoteRows, NEW other \in NoteRows, row.id = other.id
  PROVE  row = other
  BY DEF NoteRows, Note

\* Every document has one status, and its quantities with it.
LEMMA ReceiptShows ==
  ASSUME Typed, NEW n \in DOMAIN receipts, NEW doc, doc = receipts[n], NEW r,
         r = ReceiptRecord(n)
  PROVE  /\ r = [id |-> Receipt(n), status |-> ReceiptStatus(doc), sent |-> Sent(doc),
                 accepted |-> r.accepted]
         /\ r.accepted = (IF r.status \in {"accepted", "partial"} THEN doc.qty ELSE 0)
         /\ r.status \in {"draft", "accepted", "partial", "rejected", "cancelled"}
         /\ r.status = "draft" <=> doc.status = "draft"
         /\ r.status = "cancelled" <=> doc.status = "cancelled"
         /\ r.status = "accepted"
              <=> doc.status = "submitted" /\ doc.qty > 0 /\ doc.qty >= Sent(doc)
         /\ r.status = "rejected" <=> doc.status = "submitted" /\ doc.qty <= 0
         /\ r.status = "partial"
              <=> doc.status = "submitted" /\ doc.qty > 0 /\ doc.qty < Sent(doc)
<1>1. /\ r = [id |-> Receipt(n), status |-> ReceiptStatus(doc), sent |-> Sent(doc),
              accepted |-> r.accepted]
      /\ r.accepted = (IF r.status \in {"accepted", "partial"} THEN doc.qty ELSE 0)
  BY DEF ReceiptRecord
<1>2. r.status = ReceiptStatus(doc)
  BY <1>1
<1>3. /\ doc.status \in {"draft", "submitted", "cancelled"}
      /\ doc.qty \in Nat /\ Sent(doc) \in Nat /\ doc.qty <= Sent(doc)
  BY ReceiptHolds
<1>4. CASE doc.status = "submitted"
  <2>1. r.status = FromQuantities(Sent(doc), doc.qty)
    BY <1>2, <1>4 DEF ReceiptStatus
  <2> QED
    BY <1>1, <1>3, <1>4, <2>1 DEF FromQuantities
<1>5. CASE doc.status # "submitted"
  <2>1. r.status = doc.status
    BY <1>2, <1>3, <1>5 DEF ReceiptStatus
  <2> QED
    BY <1>1, <1>3, <1>5, <2>1
<1> QED
  BY <1>4, <1>5

LEMMA RowShows ==
  ASSUME Typed, NEW row \in NoteRows, NEW r, r = NoteRecord(row)
  PROVE  /\ r = [id |-> row.id, status |-> NoteStatus(row), sent |-> row.qty,
                 accepted |-> r.accepted]
         /\ r.status \in {"draft", "pending", "accepted", "partial", "rejected"}
         /\ r.status = "draft" <=> row.status # "submitted"
         /\ r.status = "rejected" <=> Visible(row) /\ row.state = REJECTED
         /\ r.status = "accepted" <=> Visible(row) /\ row.state = CONFIRMED
         /\ r.status = "partial" <=> Visible(row) /\ row.state = PARTIAL
         /\ r.accepted = (IF r.status = "accepted" THEN row.qty
                          ELSE IF r.status = "partial" THEN PartialAccepted(row) ELSE 0)
<1>1. r = [id |-> row.id, status |-> NoteStatus(row), sent |-> row.qty,
           accepted |-> r.accepted]
  BY DEF NoteRecord
<1>2. r.status = NoteStatus(row)
  BY <1>1
<1>3. /\ r.status \in {"draft", "pending", "accepted", "partial", "rejected"}
      /\ r.status = "draft" <=> row.status # "submitted"
      /\ r.status = "rejected" <=> Visible(row) /\ row.state = REJECTED
      /\ r.status = "accepted" <=> Visible(row) /\ row.state = CONFIRMED
      /\ r.status = "partial" <=> Visible(row) /\ row.state = PARTIAL
  BY <1>2 DEF NoteStatus, Visible, REJECTED, CONFIRMED, PARTIAL
<1>4. r.accepted = (IF r.status = "accepted" THEN row.qty
                    ELSE IF r.status = "partial" THEN PartialAccepted(row) ELSE 0)
  BY <1>2 DEF NoteRecord
<1> QED
  BY <1>1, <1>3, <1>4

\* What the SQL works out for a document that is shown.
LEMMA SqlReadsNotes ==
  ASSUME Typed, NEW row \in NoteRows, Visible(row)
  PROVE  /\ SqlStatus(row) = NoteStatus(row)
         /\ SqlNoteAccepted(row) = NoteRecord(row).accepted
<1>1. SqlStatus(row) = NoteStatus(row)
  BY DEF SqlStatus, NoteStatus, Visible, REJECTED, CONFIRMED, PARTIAL
<1>2. row.qty \in Int /\ row.returned \in Nat
  BY RowIs
<1>3. SqlNoteAccepted(row) = (IF row.state = 3 THEN row.qty
                              ELSE IF row.state = 4 THEN PartialAccepted(row) ELSE 0)
  BY <1>2 DEF SqlNoteAccepted, PartialAccepted, Positive
<1> QED
  BY <1>1, <1>3, RowShows DEF REJECTED, CONFIRMED, PARTIAL

LEMMA SqlReadsReceipts ==
  ASSUME Typed, NEW n \in DOMAIN receipts, NEW doc, doc = receipts[n]
  PROVE  ReceiptRecord(n).accepted = SqlAccepted(doc)
<1>1. doc.qty \in Nat
  BY ReceiptHolds
<1>2. PICK r : r = ReceiptRecord(n)
  OBVIOUS
<1> QED
  BY <1>1, <1>2, ReceiptShows, ReceiptHolds DEF SqlAccepted

\* The two counts of the home page select the same documents.
LEMMA SameCounted ==
  ASSUME Typed, NEW kind \in {"pending", "confirmed"}
  PROVE  /\ Shown(kind) = {n \in DOMAIN receipts :
                             CountedReceipt(receipts[n]) /\ InKind(ReceiptRecord(n), kind)}
         /\ ShownNotes(kind) = {row \in NoteRows : row.status = "submitted" /\ row.flow = 1
                                  /\ InKind([status |-> SqlStatus(row)], kind)}
<1>1. ASSUME NEW n \in DOMAIN receipts, InKind(ReceiptRecord(n), kind)
      PROVE  Included(receipts[n]) <=> CountedReceipt(receipts[n])
  <2>1. PICK doc : doc = receipts[n]
    OBVIOUS
  <2>2. PICK r : r = ReceiptRecord(n)
    OBVIOUS
  <2>3. r.status = ReceiptStatus(doc)
    BY <2>1, <2>2, ReceiptShows
  <2>4. r.status \in {"draft", "accepted"}
    BY <1>1, <2>1, <2>2, ReceiptShows DEF InKind
  <2> QED
    BY <2>1, <2>2, <2>3, <2>4, ReceiptShows DEF Included, CountedReceipt
<1>2. ASSUME NEW row \in NoteRows, Visible(row)
      PROVE  InKind(NoteRecord(row), kind) <=> InKind([status |-> SqlStatus(row)], kind)
  <2>1. NoteRecord(row).status = SqlStatus(row)
    BY <1>2, SqlReadsNotes, RowShows
  <2> QED
    BY <2>1 DEF InKind
<1> QED
  BY <1>1, <1>2 DEF Shown, ShownNotes, Visible

\* The list of what is pending, as the database makes it.
LEMMA PendingAgrees ==
  ASSUME Typed
  PROVE  SqlPending = PendingList
<1>1. ASSUME NEW n \in DOMAIN receipts
      PROVE  n \in Shown("pending")
               <=> receipts[n].status = "draft" /\ receipts[n].remarks.unannounced # "pending"
  <2>1. PICK doc : doc = receipts[n]
    OBVIOUS
  <2>2. PICK r : r = ReceiptRecord(n)
    OBVIOUS
  <2>3. r.status = ReceiptStatus(doc) /\ (InKind(r, "pending") <=> doc.status = "draft")
    BY <2>1, <2>2, ReceiptShows DEF InKind
  <2>4. doc.status = "draft" => r.status = "draft"
    BY <2>1, <2>2, ReceiptShows
  <2> QED
    BY <2>1, <2>2, <2>3, <2>4 DEF Shown, Included
<1>2. ASSUME NEW n \in DOMAIN receipts, receipts[n].status = "draft"
      PROVE  ReceiptRecord(n) =
               [id |-> Receipt(n), status |-> "draft", sent |-> Sent(receipts[n]), accepted |-> 0]
  <2>1. PICK r : r = ReceiptRecord(n)
    OBVIOUS
  <2>2. r.status = "draft"
    BY <1>2, <2>1, ReceiptShows
  <2>3. r.accepted = 0 /\ ReceiptStatus(receipts[n]) = "draft"
    BY <2>1, <2>2, ReceiptShows
  <2> QED
    BY <2>1, <2>3, ReceiptShows
<1>3. ASSUME NEW row \in NoteRows
      PROVE  row \in ShownNotes("pending")
               <=> row.status = "submitted" /\ row.flow = 1 /\ row.state \notin {2, 3, 4}
  <2>1. PICK r : r = NoteRecord(row)
    OBVIOUS
  <2>2. InKind(r, "pending") /\ Visible(row)
          <=> Visible(row) /\ row.state \notin {REJECTED, CONFIRMED, PARTIAL}
    BY <2>1, RowShows DEF InKind, Visible
  <2> QED
    BY <2>1, <2>2 DEF ShownNotes, Visible, REJECTED, CONFIRMED, PARTIAL
<1>4. ASSUME NEW row \in NoteRows, row.status = "submitted" /\ row.flow = 1,
             row.state \notin {2, 3, 4}
      PROVE  NoteRecord(row) =
               [id |-> row.id, status |-> "pending", sent |-> row.qty, accepted |-> 0]
  <2>1. PICK r : r = NoteRecord(row)
    OBVIOUS
  <2>2. r.status = "pending"
    BY <1>4, <2>1, RowShows DEF Visible, REJECTED, CONFIRMED, PARTIAL
  <2>3. r.accepted = 0 /\ NoteStatus(row) = "pending"
    BY <2>1, <2>2, RowShows
  <2> QED
    BY <2>1, <2>3, RowShows
<1>5. {ReceiptRecord(n) : n \in Shown("pending")} =
      {[id |-> Receipt(n), status |-> "draft", sent |-> Sent(receipts[n]), accepted |-> 0] :
         n \in {m \in DOMAIN receipts : /\ receipts[m].status = "draft"
                                        /\ receipts[m].remarks.unannounced # "pending"}}
  <2>1. Shown("pending") = {m \in DOMAIN receipts :
                              /\ receipts[m].status = "draft"
                              /\ receipts[m].remarks.unannounced # "pending"}
    BY <1>1 DEF Shown
  <2> QED
    BY <1>2, <2>1
<1>6. {NoteRecord(row) : row \in ShownNotes("pending")} =
      {[id |-> row.id, status |-> "pending", sent |-> row.qty, accepted |-> 0] :
         row \in {r \in NoteRows :
                    r.status = "submitted" /\ r.flow = 1 /\ r.state \notin {2, 3, 4}}}
  <2>1. ShownNotes("pending") = {r \in NoteRows :
                                   r.status = "submitted" /\ r.flow = 1 /\ r.state \notin {2, 3, 4}}
    BY <1>3 DEF ShownNotes
  <2> QED
    BY <1>4, <2>1
<1> QED
  BY <1>5, <1>6 DEF SqlPending, PendingList

\* There are only so many documents.
LEMMA RowsAreFinite ==
  ASSUME Typed
  PROVE  IsFiniteSet(DOMAIN receipts) /\ IsFiniteSet(NoteRows)
<1>1. /\ Len(receipts) \in Nat /\ DOMAIN receipts = 1 .. Len(receipts)
      /\ Len(notes) \in Nat /\ DOMAIN notes = 1 .. Len(notes)
      /\ Len(returns) \in Nat /\ DOMAIN returns = 1 .. Len(returns)
  BY DEF Typed, ReceiptsTyped, NotesTyped, ReturnsTyped
<1>2. IsFiniteSet(DOMAIN receipts) /\ IsFiniteSet(DOMAIN notes) /\ IsFiniteSet(DOMAIN returns)
  BY <1>1, FS_Interval
<1>3. PICK ids : ids = {Note(n) : n \in DOMAIN notes}
                         \cup {<<"return", r>> : r \in DOMAIN returns}
  OBVIOUS
<1>4. IsFiniteSet({Note(n) : n \in DOMAIN notes})
  <2>1. PICK S : S = {Note(n) : n \in DOMAIN notes}
    OBVIOUS
  <2>2. PICK f : f = [i \in S |-> i[2]]
    OBVIOUS
  <2>3. f \in Injection(S, DOMAIN notes)
    BY <2>1, <2>2 DEF Injection, IsInjective, Note
  <2> QED
    BY <1>2, <2>1, <2>3, FS_Injection
<1>5. IsFiniteSet({<<"return", r>> : r \in DOMAIN returns})
  <2>1. PICK S : S = {<<"return", r>> : r \in DOMAIN returns}
    OBVIOUS
  <2>2. PICK f : f = [i \in S |-> i[2]]
    OBVIOUS
  <2>3. f \in Injection(S, DOMAIN returns)
    BY <2>1, <2>2 DEF Injection, IsInjective
  <2> QED
    BY <1>2, <2>1, <2>3, FS_Injection
<1>6. IsFiniteSet(ids)
  BY <1>3, <1>4, <1>5, FS_Union
<1>7. PICK f : f = [row \in NoteRows |-> row.id]
  OBVIOUS
<1>8. \A row \in NoteRows : row.id \in ids
  BY <1>3 DEF NoteRows
<1>9. f \in Injection(NoteRows, ids)
  BY <1>7, <1>8, RowsDiffer DEF Injection, IsInjective
<1> QED
  BY <1>2, <1>6, <1>9, FS_Injection

LEMMA AsMany ==
  ASSUME NEW S, NEW T, IsFiniteSet(S), NEW f \in [S -> T],
         \A x \in S : \A y \in S : f[x] = f[y] => x = y,
         \A t \in T : \E x \in S : f[x] = t
  PROVE  IsFiniteSet(T) /\ Cardinality(T) = Cardinality(S)
<1>1. f \in Injection(S, T)
  BY DEF Injection, IsInjective
<1>2. f \in Surjection(S, T)
  BY DEF Surjection
<1>3. f \in Bijection(S, T)
  BY <1>1, <1>2 DEF Bijection
<1>4. ExistsBijection(S, T)
  BY <1>3, Zenon DEF ExistsBijection
<1> QED
  BY <1>4, FS_Bijection

LEMMA CountedApart ==
  ASSUME NEW S, NEW T, IsFiniteSet(S), IsFiniteSet(T), S \cap T = {}
  PROVE  Cardinality(S \cup T) = Cardinality(S) + Cardinality(T)
<1>1. Cardinality(S) \in Nat /\ Cardinality(T) \in Nat
  BY FS_CardinalityType
<1>2. Cardinality(S \cap T) = 0
  BY FS_EmptySet
<1>3. Cardinality(S \cup T) = Cardinality(S) + Cardinality(T) - Cardinality(S \cap T)
  BY FS_Union
<1> QED
  BY <1>1, <1>2, <1>3

\* The number on the home page is the length of the list behind it.
LEMMA PendingIsCounted ==
  ASSUME Typed
  PROVE  SqlSummary("pending") = Cardinality(SqlPending)
<1> DEFINE Receipts == {n \in DOMAIN receipts :
                          CountedReceipt(receipts[n]) /\ InKind(ReceiptRecord(n), "pending")}
           Rows == {row \in NoteRows : row.status = "submitted" /\ row.flow = 1
                      /\ InKind([status |-> SqlStatus(row)], "pending")}
           Listed == {ReceiptRecord(n) : n \in Shown("pending")}
           ListedNotes == {NoteRecord(row) : row \in ShownNotes("pending")}
<1>1. Receipts = Shown("pending")
  BY SameCounted
<1>2. Rows = ShownNotes("pending")
  BY SameCounted
<1>3. IsFiniteSet(Shown("pending")) /\ IsFiniteSet(ShownNotes("pending"))
  BY RowsAreFinite, FS_Subset DEF Shown, ShownNotes
<1>4. \A n \in DOMAIN receipts : ReceiptRecord(n).id = Receipt(n)
  BY ReceiptShows
<1>5. \A row \in NoteRows : NoteRecord(row).id = row.id
  BY RowShows
<1>6. IsFiniteSet(Listed) /\ Cardinality(Listed) = Cardinality(Shown("pending"))
  <2>1. PICK f : f = [n \in Shown("pending") |-> ReceiptRecord(n)]
    OBVIOUS
  <2>2. \A n \in Shown("pending") : \A m \in Shown("pending") : f[n] = f[m] => n = m
    BY <1>4, <2>1 DEF Shown, Receipt
  <2> QED
    BY <1>3, <2>1, <2>2, AsMany
<1>7. IsFiniteSet(ListedNotes) /\ Cardinality(ListedNotes) = Cardinality(ShownNotes("pending"))
  <2>1. PICK f : f = [row \in ShownNotes("pending") |-> NoteRecord(row)]
    OBVIOUS
  <2>2. \A row \in ShownNotes("pending") : \A other \in ShownNotes("pending") :
          f[row] = f[other] => row = other
    BY <1>5, <2>1, RowsDiffer DEF ShownNotes
  <2> QED
    BY <1>3, <2>1, <2>2, AsMany
<1>8. Listed \cap ListedNotes = {}
  <2>1. ASSUME NEW n \in Shown("pending"), NEW row \in ShownNotes("pending")
        PROVE  ReceiptRecord(n) # NoteRecord(row)
    <3>1. n \in DOMAIN receipts /\ row \in NoteRows
      BY DEF Shown, ShownNotes
    <3>2. row.id[1] \in {"note", "return"} /\ Receipt(n)[1] = "receipt"
      BY <3>1, RowIs DEF Receipt
    <3> QED
      BY <1>4, <1>5, <3>1, <3>2
  <2> QED
    BY <2>1
<1>9. Cardinality(Listed \cup ListedNotes) = Cardinality(Listed) + Cardinality(ListedNotes)
  <2>1. PICK A : A = Listed
    OBVIOUS
  <2>2. PICK B : B = ListedNotes
    OBVIOUS
  <2>3. IsFiniteSet(A) /\ IsFiniteSet(B) /\ A \cap B = {}
    BY <1>6, <1>7, <1>8, <2>1, <2>2
  <2> QED
    BY <2>1, <2>2, <2>3, CountedApart
<1>10. SqlPending = Listed \cup ListedNotes
  BY PendingAgrees DEF PendingList
<1>11. SqlSummary("pending") = Cardinality(Receipts) + Cardinality(Rows)
  BY DEF SqlSummary
<1> QED
  BY <1>1, <1>2, <1>6, <1>7, <1>9, <1>10, <1>11

\* The list of a kind has the documents that its total counts, and for what
\* is decided the same of each.
LEMMA ConfirmedAgrees ==
  ASSUME Typed
  PROVE  SqlConfirmed = BreakdownRows("confirmed")
<1> DEFINE Counted(n) == [ReceiptRecord(n) EXCEPT !.accepted = SqlAccepted(receipts[n])]
           Picked(n) == /\ receipts[n].status = "submitted" /\ receipts[n].qty > 0
                        /\ receipts[n].qty >= Sent(receipts[n])
           Listed(n) == [id |-> Receipt(n), status |-> "accepted", sent |-> Sent(receipts[n]),
                         accepted |-> receipts[n].qty]
           CountedNote(row) == [NoteRecord(row) EXCEPT !.accepted = SqlNoteAccepted(row)]
           PickedNote(row) == row.status = "submitted" /\ row.flow = 1 /\ row.state = 3
           ListedNote(row) == [id |-> row.id, status |-> "accepted", sent |-> row.qty,
                              accepted |-> row.qty]
<1>1. ASSUME NEW n \in DOMAIN receipts, NEW r,
             r = Counted(n)
      PROVE  /\ InKind(r, "confirmed") <=> Picked(n)
             /\ InKind(r, "confirmed") => r = Listed(n)
  <2>1. r = ReceiptRecord(n)
    BY <1>1, SqlReadsReceipts, ReceiptShows
  <2> QED
    BY <2>1, ReceiptShows DEF InKind
<1>2. ASSUME NEW row \in NoteRows, NEW r,
             r = CountedNote(row)
      PROVE  /\ InKind(r, "confirmed") <=> PickedNote(row)
             /\ InKind(r, "confirmed") => r = ListedNote(row)
  <2>1. r.status = NoteRecord(row).status
    BY <1>2, RowShows
  <2>2. InKind(r, "confirmed") <=> row.status = "submitted" /\ row.flow = 1 /\ row.state = 3
    BY <2>1, RowShows DEF InKind, Visible, CONFIRMED
  <2>3. ASSUME Visible(row)
        PROVE  r = NoteRecord(row)
    BY <1>2, <2>3, SqlReadsNotes, RowShows
  <2> QED
    BY <2>2, <2>3, RowShows DEF InKind, Visible, CONFIRMED
<1>3. ASSUME NEW r \in BreakdownRows("confirmed")
      PROVE  r \in SqlConfirmed
  <2>1. CASE \E n \in DOMAIN receipts : r = Counted(n) /\ InKind(r, "confirmed")
    <3>1. PICK n \in DOMAIN receipts : r = Counted(n) /\ InKind(r, "confirmed")
      BY <2>1
    <3>2. r = Listed(n) /\ Picked(n)
      BY <1>1, <3>1
    <3> QED
      BY <3>2 DEF SqlConfirmed
  <2>2. CASE \E row \in NoteRows : r = CountedNote(row) /\ InKind(r, "confirmed")
    <3>1. PICK row \in NoteRows : r = CountedNote(row) /\ InKind(r, "confirmed")
      BY <2>2
    <3>2. r = ListedNote(row) /\ PickedNote(row)
      BY <1>2, <3>1
    <3> QED
      BY <3>2 DEF SqlConfirmed
  <2> QED
    BY <1>3, <2>1, <2>2 DEF BreakdownRows
<1>4. ASSUME NEW r \in SqlConfirmed
      PROVE  r \in BreakdownRows("confirmed")
  <2>1. CASE \E n \in DOMAIN receipts : r = Listed(n) /\ Picked(n)
    <3>1. PICK n \in DOMAIN receipts : r = Listed(n) /\ Picked(n)
      BY <2>1
    <3>2. PICK c : c = Counted(n)
      OBVIOUS
    <3>3. r = c /\ InKind(r, "confirmed")
      BY <1>1, <3>1, <3>2
    <3> QED
      BY <3>2, <3>3 DEF BreakdownRows
  <2>2. CASE \E row \in NoteRows : r = ListedNote(row) /\ PickedNote(row)
    <3>1. PICK row \in NoteRows : r = ListedNote(row) /\ PickedNote(row)
      BY <2>2
    <3>2. PICK c : c = CountedNote(row)
      OBVIOUS
    <3>3. r = c /\ InKind(r, "confirmed")
      BY <1>2, <3>1, <3>2
    <3> QED
      BY <3>2, <3>3 DEF BreakdownRows
  <2> QED
    BY <1>4, <2>1, <2>2 DEF SqlConfirmed
<1> QED
  BY <1>3, <1>4

LEMMA ReturnedAgrees ==
  ASSUME Typed
  PROVE  SqlReturned = BreakdownRows("returned")
<1> DEFINE Counted(n) == [ReceiptRecord(n) EXCEPT !.accepted = SqlAccepted(receipts[n])]
           Picked(n) == SqlReturnedReceipt(receipts[n])
           Listed(n) == [id |-> Receipt(n),
              status |-> IF receipts[n].status = "cancelled" THEN "cancelled"
                         ELSE IF receipts[n].qty <= 0 THEN "rejected" ELSE "partial",
              sent |-> Sent(receipts[n]),
              accepted |-> IF /\ receipts[n].status = "submitted" /\ receipts[n].qty > 0
                              /\ receipts[n].qty < Sent(receipts[n])
                           THEN receipts[n].qty ELSE 0]
           CountedNote(row) == [NoteRecord(row) EXCEPT !.accepted = SqlNoteAccepted(row)]
           PickedNote(row) == row.status = "submitted" /\ row.flow = 1 /\ row.state \in {2, 4}
           ListedNote(row) == [id |-> row.id, status |-> IF row.state = 4 THEN "partial" ELSE "rejected",
              sent |-> row.qty, accepted |-> IF row.state = 4 THEN PartialAccepted(row) ELSE 0]
<1>1. ASSUME NEW n \in DOMAIN receipts, NEW r,
             r = Counted(n)
      PROVE  /\ InKind(r, "returned") <=> Picked(n)
             /\ InKind(r, "returned") => r = Listed(n)
  <2>1. r = ReceiptRecord(n)
    BY <1>1, SqlReadsReceipts, ReceiptShows
  <2>2. PICK doc : doc = receipts[n]
    OBVIOUS
  <2>3. /\ doc.status \in {"draft", "submitted", "cancelled"}
        /\ doc.qty \in Nat /\ Sent(doc) \in Nat /\ doc.qty <= Sent(doc)
    BY <2>2, ReceiptHolds
  <2>4. /\ r.status = "draft" <=> doc.status = "draft"
        /\ r.status = "cancelled" <=> doc.status = "cancelled"
        /\ r.status = "rejected" <=> doc.status = "submitted" /\ doc.qty <= 0
        /\ r.status = "partial"
             <=> doc.status = "submitted" /\ doc.qty > 0 /\ doc.qty < Sent(doc)
        /\ r.status \in {"draft", "accepted", "partial", "rejected", "cancelled"}
    BY <2>1, <2>2, ReceiptShows
  <2>5. InKind(r, "returned") <=> SqlReturnedReceipt(doc)
    BY <2>3, <2>4 DEF InKind, SqlReturnedReceipt
  <2>6. /\ r = [id |-> Receipt(n), status |-> r.status, sent |-> Sent(doc),
                accepted |-> r.accepted]
        /\ r.accepted = (IF r.status \in {"accepted", "partial"} THEN doc.qty ELSE 0)
    BY <2>1, <2>2, ReceiptShows
  <2>7. ASSUME InKind(r, "returned")
        PROVE  /\ r.status = (IF doc.status = "cancelled" THEN "cancelled"
                              ELSE IF doc.qty <= 0 THEN "rejected" ELSE "partial")
               /\ r.accepted = (IF doc.status = "submitted" /\ doc.qty > 0 /\ doc.qty < Sent(doc)
                                THEN doc.qty ELSE 0)
    BY <2>3, <2>4, <2>6, <2>7 DEF InKind
  <2> QED
    BY <2>2, <2>5, <2>6, <2>7
<1>2. ASSUME NEW row \in NoteRows, NEW r,
             r = CountedNote(row)
      PROVE  /\ InKind(r, "returned") <=> PickedNote(row)
             /\ InKind(r, "returned") => r = ListedNote(row)
  <2>1. r.status = NoteRecord(row).status
    BY <1>2, RowShows
  <2>2. InKind(r, "returned") <=> row.status = "submitted" /\ row.flow = 1 /\ row.state \in {2, 4}
    BY <2>1, RowShows DEF InKind, Visible, REJECTED, PARTIAL
  <2>3. ASSUME Visible(row)
        PROVE  r = NoteRecord(row)
    BY <1>2, <2>3, SqlReadsNotes, RowShows
  <2> QED
    BY <2>2, <2>3, RowShows DEF InKind, Visible, REJECTED, CONFIRMED, PARTIAL
<1>3. ASSUME NEW r \in BreakdownRows("returned")
      PROVE  r \in SqlReturned
  <2>1. CASE \E n \in DOMAIN receipts : r = Counted(n) /\ InKind(r, "returned")
    <3>1. PICK n \in DOMAIN receipts : r = Counted(n) /\ InKind(r, "returned")
      BY <2>1
    <3>2. r = Listed(n) /\ Picked(n)
      BY <1>1, <3>1
    <3> QED
      BY <3>2 DEF SqlReturned
  <2>2. CASE \E row \in NoteRows : r = CountedNote(row) /\ InKind(r, "returned")
    <3>1. PICK row \in NoteRows : r = CountedNote(row) /\ InKind(r, "returned")
      BY <2>2
    <3>2. r = ListedNote(row) /\ PickedNote(row)
      BY <1>2, <3>1
    <3> QED
      BY <3>2 DEF SqlReturned
  <2> QED
    BY <1>3, <2>1, <2>2 DEF BreakdownRows
<1>4. ASSUME NEW r \in SqlReturned
      PROVE  r \in BreakdownRows("returned")
  <2>1. CASE \E n \in DOMAIN receipts : r = Listed(n) /\ Picked(n)
    <3>1. PICK n \in DOMAIN receipts : r = Listed(n) /\ Picked(n)
      BY <2>1
    <3>2. PICK c : c = Counted(n)
      OBVIOUS
    <3>3. r = c /\ InKind(r, "returned")
      BY <1>1, <3>1, <3>2
    <3> QED
      BY <3>2, <3>3 DEF BreakdownRows
  <2>2. CASE \E row \in NoteRows : r = ListedNote(row) /\ PickedNote(row)
    <3>1. PICK row \in NoteRows : r = ListedNote(row) /\ PickedNote(row)
      BY <2>2
    <3>2. PICK c : c = CountedNote(row)
      OBVIOUS
    <3>3. r = c /\ InKind(r, "returned")
      BY <1>2, <3>1, <3>2
    <3> QED
      BY <3>2, <3>3 DEF BreakdownRows
  <2> QED
    BY <1>4, <2>1, <2>2 DEF SqlReturned
<1> QED
  BY <1>3, <1>4

\* The totals name a document under its own name and kind.
LEMMA TotalsNameAll ==
  ASSUME Typed, NEW kind
  PROVE  {r.id : r \in BreakdownRows(kind)} = {r.id : r \in DetailRows(kind)}
<1>1. ASSUME NEW n \in DOMAIN receipts, NEW r,
             r = [ReceiptRecord(n) EXCEPT !.accepted = SqlAccepted(receipts[n])]
      PROVE  r.id = ReceiptRecord(n).id /\ (InKind(r, kind) <=> InKind(ReceiptRecord(n), kind))
  BY <1>1, ReceiptShows DEF InKind
<1>2. ASSUME NEW row \in NoteRows, NEW r,
             r = [NoteRecord(row) EXCEPT !.accepted = SqlNoteAccepted(row)]
      PROVE  r.id = NoteRecord(row).id /\ (InKind(r, kind) <=> InKind(NoteRecord(row), kind))
  BY <1>2, RowShows DEF InKind
<1>3. ASSUME NEW r \in BreakdownRows(kind)
      PROVE  \E d \in DetailRows(kind) : d.id = r.id
  <2>1. CASE \E n \in DOMAIN receipts :
               /\ r = [ReceiptRecord(n) EXCEPT !.accepted = SqlAccepted(receipts[n])]
               /\ InKind(r, kind)
    BY <1>1, <2>1 DEF DetailRows, ReceiptRecords
  <2>2. CASE \E row \in NoteRows :
               /\ r = [NoteRecord(row) EXCEPT !.accepted = SqlNoteAccepted(row)]
               /\ InKind(r, kind)
    BY <1>2, <2>2 DEF DetailRows, NoteRecords
  <2> QED
    BY <2>1, <2>2 DEF BreakdownRows
<1>4. ASSUME NEW d \in DetailRows(kind)
      PROVE  \E r \in BreakdownRows(kind) : r.id = d.id
  <2>1. CASE \E n \in DOMAIN receipts : d = ReceiptRecord(n)
    <3>1. PICK n \in DOMAIN receipts : d = ReceiptRecord(n)
      BY <2>1
    <3>2. PICK r : r = [ReceiptRecord(n) EXCEPT !.accepted = SqlAccepted(receipts[n])]
      OBVIOUS
    <3>3. r.id = d.id /\ InKind(r, kind)
      BY <1>1, <3>1, <3>2 DEF DetailRows
    <3>4. r \in BreakdownRows(kind)
      BY <3>2, <3>3 DEF BreakdownRows
    <3> QED
      BY <3>3, <3>4
  <2>2. CASE \E row \in NoteRows : d = NoteRecord(row)
    <3>1. PICK row \in NoteRows : d = NoteRecord(row)
      BY <2>2
    <3>2. PICK r : r = [NoteRecord(row) EXCEPT !.accepted = SqlNoteAccepted(row)]
      OBVIOUS
    <3>3. r.id = d.id /\ InKind(r, kind)
      BY <1>2, <3>1, <3>2 DEF DetailRows
    <3>4. r \in BreakdownRows(kind)
      BY <3>2, <3>3 DEF BreakdownRows
    <3> QED
      BY <3>3, <3>4
  <2> QED
    BY <2>1, <2>2 DEF DetailRows, ReceiptRecords, NoteRecords
<1> QED
  BY <1>3, <1>4

LEMMA ListsNameAll ==
  ASSUME Typed, NEW kind \in Kinds
  PROVE  /\ {r.id : r \in Details(kind)} = {r.id : r \in BreakdownRows(kind)}
         /\ {r.id : r \in Details(kind)} = {r.id : r \in DetailRows(kind)}
  BY TotalsNameAll, ConfirmedAgrees, ReturnedAgrees DEF Kinds, Details

\* No two documents show under one name, and each is of one kind.
LEMMA OneKindEach ==
  ASSUME Typed, NEW r \in ReceiptRecords \cup NoteRecords
  PROVE  /\ \A d \in ReceiptRecords \cup NoteRecords : d.id = r.id => d = r
         /\ \E kind \in Kinds : /\ InKind(r, kind)
                                /\ \A other \in Kinds \ {kind} : ~InKind(r, other)
<1>1. \A n \in DOMAIN receipts : ReceiptRecord(n).id = Receipt(n)
  BY ReceiptShows
<1>2. \A row \in NoteRows : NoteRecord(row).id = row.id /\ row.id[1] \in {"note", "return"}
  BY RowShows, RowIs
<1>3. ASSUME NEW d \in ReceiptRecords \cup NoteRecords, d.id = r.id
      PROVE  d = r
  <2>1. CASE r \in ReceiptRecords
    <3>1. PICK n \in DOMAIN receipts : r = ReceiptRecord(n)
      BY <2>1 DEF ReceiptRecords
    <3>2. d.id[1] = "receipt" /\ d.id[2] = n
      BY <1>1, <1>3, <3>1 DEF Receipt
    <3>3. d \notin NoteRecords
      BY <1>2, <3>2 DEF NoteRecords
    <3>4. PICK m \in DOMAIN receipts : d = ReceiptRecord(m)
      BY <3>3 DEF ReceiptRecords
    <3>5. m = n
      BY <1>1, <3>2, <3>4 DEF Receipt
    <3> QED
      BY <3>1, <3>4, <3>5
  <2>2. CASE r \in NoteRecords
    <3>1. PICK row \in NoteRows : r = NoteRecord(row)
      BY <2>2 DEF NoteRecords
    <3>2. d.id = row.id /\ d.id[1] \in {"note", "return"}
      BY <1>2, <1>3, <3>1
    <3>3. d \notin ReceiptRecords
      BY <1>1, <3>2 DEF ReceiptRecords, Receipt
    <3>4. PICK other \in NoteRows : d = NoteRecord(other)
      BY <3>3 DEF NoteRecords
    <3>5. other = row
      BY <1>2, <3>2, <3>4, RowsDiffer
    <3> QED
      BY <3>1, <3>4, <3>5
  <2> QED
    BY <2>1, <2>2
<1>4. r.status \in {"draft", "pending", "accepted", "partial", "rejected", "cancelled"}
  <2>1. CASE r \in ReceiptRecords
    BY <2>1, ReceiptShows DEF ReceiptRecords
  <2>2. CASE r \in NoteRecords
    BY <2>2, RowShows DEF NoteRecords
  <2> QED
    BY <2>1, <2>2
<1>5. PICK kind : kind = (IF r.status \in {"draft", "pending"} THEN "pending"
                          ELSE IF r.status = "accepted" THEN "confirmed" ELSE "returned")
  OBVIOUS
<1>6. kind \in Kinds /\ InKind(r, kind) /\ \A other \in Kinds \ {kind} : ~InKind(r, other)
  BY <1>4, <1>5 DEF Kinds, InKind
<1> QED
  BY <1>3, <1>6

LEMMA TypedAddsUp ==
  ASSUME Typed
  PROVE  ListsAddUp
<1>1. ASSUME NEW r \in ReceiptRecords \cup NoteRecords
      PROVE  \E kind \in Kinds :
               /\ \E d \in Details(kind) : d.id = r.id
               /\ \A other \in Kinds \ {kind} : \A d \in Details(other) : d.id # r.id
  <2>1. PICK kind \in Kinds : /\ InKind(r, kind)
                              /\ \A other \in Kinds \ {kind} : ~InKind(r, other)
    BY OneKindEach
  <2>2. ASSUME NEW k \in Kinds
        PROVE  (\E d \in Details(k) : d.id = r.id) <=> InKind(r, k)
    <3>1. (\E d \in Details(k) : d.id = r.id) <=> \E d \in DetailRows(k) : d.id = r.id
      <4>1. (\E d \in Details(k) : d.id = r.id) <=> r.id \in {d.id : d \in Details(k)}
        BY Zenon
      <4>2. (\E d \in DetailRows(k) : d.id = r.id) <=> r.id \in {d.id : d \in DetailRows(k)}
        BY Zenon
      <4> QED
        BY <4>1, <4>2, ListsNameAll
    <3>2. (\E d \in DetailRows(k) : d.id = r.id) <=> InKind(r, k)
      BY OneKindEach DEF DetailRows
    <3> QED
      BY <3>1, <3>2
  <2> QED
    BY <2>1, <2>2
<1>2. \A kind \in {"confirmed", "returned"} : Details(kind) = BreakdownRows(kind)
  BY ConfirmedAgrees, ReturnedAgrees DEF Details
<1>3. \A kind \in Kinds : {r.id : r \in Details(kind)} = {r.id : r \in BreakdownRows(kind)}
  BY ListsNameAll
<1>4. \A kind \in {"pending", "confirmed"} : RowSummary(kind) = SqlSummary(kind)
  BY SameCounted DEF RowSummary, SqlSummary
<1> QED
  BY <1>1, <1>2, <1>3, <1>4, PendingAgrees, PendingIsCounted DEF ListsAddUp

(* The home page counts what the pending list shows, every list has what   *)
(* its total counted, the SQL agrees with the Rust it replaces, and every  *)
(* document is of one kind, whatever the documents of ERPNext are between  *)
(* any two steps.                                                          *)
THEOREM ListsAgree == Spec => []ListsAddUp
<1>1. Typed => ListsAddUp
  BY TypedAddsUp
<1> QED
  BY <1>1, StockTyped, PTL

-----------------------------------------------------------------------------
(***************************************************************************)
(* Sums over finite sets. The elements are taken one by one, in an order   *)
(* nothing is known of; the sums over the parts of the set determine the   *)
(* whole.                                                                  *)
(***************************************************************************)

\* What is taken first when a finite set is gone through.
Pick(s) == CHOOSE x \in s : TRUE

LEMMA PickIsOf ==
  ASSUME NEW S, NEW s \in SUBSET S, s # {}
  PROVE  Pick(s) \in s /\ Pick(s) \in S /\ s \ {Pick(s)} \in SUBSET S
<1>1. \E x \in s : TRUE
  OBVIOUS
<1>2. Pick(s) \in s
  BY <1>1, Zenon DEF Pick
<1> QED
  BY <1>2

\* What holds of the empty set, and of a set if it holds of what is left of
\* it, holds of every part of a finite set.
LEMMA OneByOne ==
  ASSUME NEW S, IsFiniteSet(S), NEW T \in SUBSET SUBSET S, {} \in T,
         \A s \in SUBSET S : s # {} /\ s \ {Pick(s)} \in T => s \in T
  PROVE  T = SUBSET S
<1>1. PICK n : n = Cardinality(S)
  OBVIOUS
<1>2. n \in Nat
  BY <1>1, FS_CardinalityType
<1>3. ASSUME NEW s \in SUBSET S
      PROVE  IsFiniteSet(s) /\ Cardinality(s) \in 0 .. n
  <2>1. IsFiniteSet(s) /\ Cardinality(s) <= n
    BY <1>1, FS_Subset
  <2>2. Cardinality(s) \in Nat
    BY <2>1, FS_CardinalityType
  <2> QED
    BY <1>2, <2>1, <2>2
<1> DEFINE Levels == {k \in 0 .. n : \A s \in SUBSET S : Cardinality(s) = k => s \in T}
<1>4. 0 \in Levels
  <2>1. \A s \in SUBSET S : Cardinality(s) = 0 => s = {}
    BY <1>3, FS_EmptySet
  <2> QED
    BY <1>2, <2>1
<1>5. ASSUME NEW k \in 1 .. n, k - 1 \in Levels
      PROVE  k \in Levels
  <2>1. ASSUME NEW s \in SUBSET S, Cardinality(s) = k
        PROVE  s \in T
    <3>1. s # {}
      BY <1>2, <2>1, FS_EmptySet
    <3>2. Pick(s) \in s /\ s \ {Pick(s)} \in SUBSET S
      BY <3>1, PickIsOf
    <3>3. Cardinality(s \ {Pick(s)}) = k - 1
      BY <1>3, <2>1, <3>2, FS_RemoveElement
    <3>4. s \ {Pick(s)} \in T
      BY <1>5, <3>2, <3>3
    <3> QED
      BY <3>1, <3>4
  <2> QED
    BY <1>2, <2>1
<1>6. Levels = 0 .. n
  <2>1. Levels \in SUBSET (0 .. n)
    BY DEF Levels
  <2> HIDE DEF Levels
  <2> QED
    BY <1>2, <1>4, <1>5, <2>1, StepByStep
<1> QED
  BY <1>3, <1>6

\* The sums g over the parts of a set.
Adds(g, f, S) ==
  /\ g \in [SUBSET S -> Int] /\ g[{}] = 0
  /\ \A s \in SUBSET S : s # {} => g[s] = f[Pick(s)] + g[s \ {Pick(s)}]

LEMMA AddsUp ==
  ASSUME NEW S, IsFiniteSet(S), NEW f \in [S -> Int]
  PROVE  \E g : Adds(g, f, S)
<1>1. PICK n : n = Cardinality(S)
  OBVIOUS
<1>2. n \in Nat
  BY <1>1, FS_CardinalityType
<1>3. ASSUME NEW s \in SUBSET S
      PROVE  IsFiniteSet(s) /\ Cardinality(s) \in 0 .. n
  <2>1. IsFiniteSet(s) /\ Cardinality(s) <= n
    BY <1>1, FS_Subset
  <2>2. Cardinality(s) \in Nat
    BY <2>1, FS_CardinalityType
  <2> QED
    BY <1>2, <2>1, <2>2
<1> DEFINE Below(g, k) ==
             /\ g \in [SUBSET S -> Int] /\ g[{}] = 0
             /\ \A s \in SUBSET S : s # {} /\ Cardinality(s) <= k
                                      => g[s] = f[Pick(s)] + g[s \ {Pick(s)}]
           Levels == {k \in 0 .. n : \E g : Below(g, k)}
<1>4. 0 \in Levels
  <2>1. PICK g : g = [s \in SUBSET S |-> 0]
    OBVIOUS
  <2>2. g \in [SUBSET S -> Int] /\ g[{}] = 0
    BY <2>1
  <2>3. \A s \in SUBSET S : s # {} => ~(Cardinality(s) <= 0)
    BY <1>3, FS_EmptySet
  <2>4. Below(g, 0)
    BY <2>2, <2>3
  <2> HIDE DEF Below
  <2> QED
    BY <1>2, <2>4
<1>5. ASSUME NEW k \in 1 .. n, k - 1 \in Levels
      PROVE  k \in Levels
  <2>1. PICK g : Below(g, k - 1)
    BY <1>5
  <2>2. PICK e : e = [s \in SUBSET S |-> IF Cardinality(s) = k
                                         THEN f[Pick(s)] + g[s \ {Pick(s)}] ELSE g[s]]
    OBVIOUS
  <2>3. ASSUME NEW s \in SUBSET S, s # {}
        PROVE  /\ f[Pick(s)] \in Int /\ g[s \ {Pick(s)}] \in Int
               /\ Cardinality(s \ {Pick(s)}) = Cardinality(s) - 1
    <3>1. Pick(s) \in s /\ Pick(s) \in S /\ s \ {Pick(s)} \in SUBSET S
      BY <2>3, PickIsOf
    <3>2. Cardinality(s \ {Pick(s)}) = Cardinality(s) - 1
      BY <1>3, <3>1, FS_RemoveElement
    <3>3. g \in [SUBSET S -> Int]
      BY <2>1
    <3> QED
      BY <3>1, <3>2, <3>3
  <2>4. Cardinality({}) # k
    BY FS_EmptySet
  <2>5. e \in [SUBSET S -> Int]
    <3>1. \A s \in SUBSET S : Cardinality(s) = k => s # {}
      BY <2>4
    <3>2. g \in [SUBSET S -> Int]
      BY <2>1
    <3> QED
      BY <2>2, <2>3, <3>1, <3>2
  <2>6. e[{}] = 0
    BY <2>1, <2>2, <2>4
  <2>7. ASSUME NEW s \in SUBSET S, s # {}, Cardinality(s) <= k
        PROVE  e[s] = f[Pick(s)] + e[s \ {Pick(s)}]
    <3>1. s \ {Pick(s)} \in SUBSET S /\ Cardinality(s \ {Pick(s)}) = Cardinality(s) - 1
      BY <2>3, <2>7
    <3>2. Cardinality(s) \in Nat
      BY <1>2, <1>3
    <3>3. e[s \ {Pick(s)}] = g[s \ {Pick(s)}]
      BY <2>2, <2>7, <3>1, <3>2
    <3>4. CASE Cardinality(s) = k
      BY <2>2, <3>3, <3>4
    <3>5. CASE Cardinality(s) # k
      <4>1. Cardinality(s) <= k - 1
        BY <2>7, <3>2, <3>5
      <4>2. g[s] = f[Pick(s)] + g[s \ {Pick(s)}]
        BY <2>1, <2>7, <4>1
      <4> QED
        BY <2>2, <3>3, <3>5, <4>2
    <3> QED
      BY <3>4, <3>5
  <2>8. Below(e, k)
    BY <2>5, <2>6, <2>7
  <2> HIDE DEF Below
  <2> QED
    BY <1>2, <2>8
<1>6. Levels = 0 .. n
  <2>1. Levels \in SUBSET (0 .. n)
    BY DEF Levels
  <2> HIDE DEF Levels
  <2> QED
    BY <1>2, <1>4, <1>5, <2>1, StepByStep
<1>7. PICK g : Below(g, n)
  <2>1. n \in Levels
    <3> HIDE DEF Levels
    <3> QED
      BY <1>2, <1>6
  <2> HIDE DEF Below
  <2> QED
    BY <2>1
<1>8. \A s \in SUBSET S : Cardinality(s) <= n
  BY <1>2, <1>3
<1>9. Adds(g, f, S)
  BY <1>7, <1>8 DEF Adds
<1> QED
  BY <1>9

LEMMA SumOverIs ==
  ASSUME NEW S, IsFiniteSet(S), NEW f \in [S -> Int]
  PROVE  \E g : Adds(g, f, S) /\ SumOver(f) = g[S]
<1> DEFINE next(iter, s) == IF s = {} THEN 0
                            ELSE LET x == CHOOSE x \in s : TRUE IN f[x] + iter[s \ {x}]
           Def(iter) == iter = [s \in SUBSET DOMAIN f |-> next(iter, s)]
           All == CHOOSE iter : Def(iter)
<1>1. SumOver(f) = All[DOMAIN f]
  BY Zenon DEF SumOver, FoldFunction, FoldFunctionOnSet, MapThenFoldSet
<1>2. DOMAIN f = S
  OBVIOUS
<1>3. PICK g : Adds(g, f, S)
  BY AddsUp
<1>4. \A iter, s : next(iter, s) = IF s = {} THEN 0 ELSE f[Pick(s)] + iter[s \ {Pick(s)}]
  BY Zenon DEF Pick
<1> HIDE DEF next
<1>5. Def(g)
  <2>1. \A s \in SUBSET S : g[s] = next(g, s)
    BY <1>3, <1>4 DEF Adds
  <2>2. g = [s \in SUBSET S |-> g[s]]
    BY <1>3 DEF Adds
  <2> QED
    BY <1>2, <2>1, <2>2
<1>6. Def(All)
  <2> HIDE DEF Def
  <2> QED
    BY <1>5
<1>7. All[{}] = 0 /\ \A s \in SUBSET S : s # {} => All[s] = f[Pick(s)] + All[s \ {Pick(s)}]
  <2>1. \A s \in SUBSET S : All[s] = next(All, s)
    <3> HIDE DEF All
    <3> QED
      BY <1>2, <1>6
  <2> HIDE DEF All
  <2> QED
    BY <1>4, <2>1
<1> DEFINE T == {s \in SUBSET S : All[s] = g[s]}
<1> HIDE DEF All
<1>8. {} \in T
  BY <1>3, <1>7 DEF Adds
<1>9. ASSUME NEW s \in SUBSET S, s # {}, s \ {Pick(s)} \in T
      PROVE  s \in T
  BY <1>3, <1>7, <1>9 DEF Adds
<1>10. T = SUBSET S
  <2>1. T \in SUBSET SUBSET S
    BY DEF T
  <2> HIDE DEF T
  <2> QED
    BY <1>8, <1>9, <2>1, OneByOne
<1>11. All[S] = g[S]
  BY <1>10
<1> QED
  BY <1>1, <1>2, <1>3, <1>11

\* Sums of what adds up element by element.
LEMMA SumsTogether ==
  ASSUME NEW S, IsFiniteSet(S), NEW f \in [S -> Int], NEW g \in [S -> Int], NEW h \in [S -> Int],
         \A x \in S : f[x] + g[x] = h[x]
  PROVE  SumOver(f) + SumOver(g) = SumOver(h)
<1>1. PICK a : Adds(a, f, S) /\ SumOver(f) = a[S]
  BY SumOverIs
<1>2. PICK b : Adds(b, g, S) /\ SumOver(g) = b[S]
  BY SumOverIs
<1>3. PICK c : Adds(c, h, S) /\ SumOver(h) = c[S]
  BY SumOverIs
<1> DEFINE T == {s \in SUBSET S : a[s] + b[s] = c[s]}
<1>4. {} \in T
  BY <1>1, <1>2, <1>3 DEF Adds
<1>5. ASSUME NEW s \in SUBSET S, s # {}, s \ {Pick(s)} \in T
      PROVE  s \in T
  <2>1. PICK x \in S : x = Pick(s)
    BY <1>5, PickIsOf
  <2>2. PICK rest \in SUBSET S : rest = s \ {x}
    OBVIOUS
  <2>3. a[rest] + b[rest] = c[rest] /\ a[rest] \in Int /\ b[rest] \in Int /\ c[rest] \in Int
    BY <1>1, <1>2, <1>3, <1>5, <2>1, <2>2 DEF Adds
  <2>4. a[s] = f[x] + a[rest] /\ b[s] = g[x] + b[rest] /\ c[s] = h[x] + c[rest]
    BY <1>1, <1>2, <1>3, <1>5, <2>1, <2>2 DEF Adds
  <2>5. f[x] \in Int /\ g[x] \in Int /\ h[x] \in Int /\ f[x] + g[x] = h[x]
    BY <2>1
  <2> QED
    BY <2>3, <2>4, <2>5
<1>6. T = SUBSET S
  <2>1. T \in SUBSET SUBSET S
    BY DEF T
  <2> HIDE DEF T
  <2> QED
    BY <1>4, <1>5, <2>1, OneByOne
<1>7. S \in T
  BY <1>6
<1> QED
  BY <1>1, <1>2, <1>3, <1>7

\* What each owner counts of a set adds up to the set.
LEMMA SumOfCounts ==
  ASSUME NEW S, IsFiniteSet(S), NEW N, IsFiniteSet(N), NEW owner \in [N -> S],
         NEW f \in [S -> Int], \A c \in S : f[c] = Cardinality({n \in N : owner[n] = c})
  PROVE  SumOver(f) = Cardinality(N)
<1>1. PICK g : Adds(g, f, S) /\ SumOver(f) = g[S]
  BY SumOverIs
<1> DEFINE Of(s) == {n \in N : owner[n] \in s}
           T == {s \in SUBSET S : g[s] = Cardinality(Of(s))}
<1>2. {} \in T
  <2>1. Of({}) = {}
    OBVIOUS
  <2> QED
    BY <1>1, <2>1, FS_EmptySet DEF Adds
<1>3. ASSUME NEW s \in SUBSET S, s # {}, s \ {Pick(s)} \in T
      PROVE  s \in T
  <2>1. PICK x \in S : x = Pick(s) /\ x \in s
    BY <1>3, PickIsOf
  <2>2. PICK rest \in SUBSET S : rest = s \ {x}
    OBVIOUS
  <2>3. PICK own : own = {n \in N : owner[n] = x}
    OBVIOUS
  <2>4. PICK others : others = Of(rest)
    OBVIOUS
  <2>5. g[s] = f[x] + g[rest] /\ f[x] = Cardinality(own) /\ g[rest] = Cardinality(others)
    BY <1>1, <1>3, <2>1, <2>2, <2>3, <2>4 DEF Adds
  <2>6. Of(s) = own \cup others /\ own \cap others = {}
    BY <2>1, <2>2, <2>3, <2>4
  <2>7. IsFiniteSet(own) /\ IsFiniteSet(others)
    <3>1. own \in SUBSET N /\ others \in SUBSET N
      BY <2>3, <2>4
    <3> QED
      BY <3>1, FS_Subset
  <2>8. Cardinality(own \cup others) = Cardinality(own) + Cardinality(others)
    BY <2>6, <2>7, CountedApart
  <2> QED
    BY <2>5, <2>6, <2>8
<1>4. T = SUBSET S
  <2>1. T \in SUBSET SUBSET S
    BY DEF T
  <2> HIDE DEF T
  <2> QED
    BY <1>2, <1>3, <2>1, OneByOne
<1>5. S \in T /\ Of(S) = N
  BY <1>4
<1> QED
  BY <1>1, <1>5

-----------------------------------------------------------------------------
(***************************************************************************)
(* What the parties see of one another's documents.                        *)
(***************************************************************************)

\* The supplier's deliveries through ERPNext and from the database: one that
\* is booked has the same status, and the accepted ones are the same.
LEMMA DispatchShows ==
  ASSUME Typed, NEW n \in DOMAIN receipts, NEW r, r = ReceiptRecord(n),
         NEW d, d = DispatchRecord(n)
  PROVE  /\ receipts[n].status # "draft" => d.status = r.status
         /\ d.status \in {"draft", "accepted", "partial", "rejected", "cancelled"}
         /\ d.status = "accepted" <=> r.status = "accepted"
<1>1. PICK doc : doc = receipts[n]
  OBVIOUS
<1>2. d.status = DispatchStatus(doc)
  BY <1>1 DEF DispatchRecord
<1>3. r.status = ReceiptStatus(doc)
  BY <1>1 DEF ReceiptRecord
<1>4. doc.status \in {"draft", "submitted", "cancelled"}
  BY <1>1, ReceiptHolds
<1>5. CASE doc.status = "submitted"
  <2>1. d.status = FromQuantities(Sent(doc), doc.qty) /\ r.status = d.status
    BY <1>2, <1>3, <1>5 DEF DispatchStatus, ReceiptStatus
  <2> QED
    BY <2>1, ReceiptShows
<1>6. CASE doc.status = "cancelled"
  <2>1. d.status = "cancelled" /\ r.status = "cancelled"
    BY <1>2, <1>3, <1>6 DEF DispatchStatus, ReceiptStatus
  <2> QED
    BY <2>1
<1>7. CASE doc.status = "draft"
  <2>1. d.status \in {"cancelled", "draft"} /\ r.status = "draft"
    BY <1>2, <1>3, <1>7 DEF DispatchStatus, ReceiptStatus
  <2> QED
    BY <1>1, <1>7, <2>1
<1> QED
  BY <1>4, <1>5, <1>6, <1>7

\* Two ways to take a finite set apart.
LEMMA ApartAsMany ==
  ASSUME NEW All, IsFiniteSet(All), NEW P, NEW R, NEW Q, NEW V,
         P \cup R = All, P \cap R = {}, Q \cup V = All, Q \cap V = {}
  PROVE  Cardinality(P) + Cardinality(R) = Cardinality(Q) + Cardinality(V)
<1>1. P \in SUBSET All /\ R \in SUBSET All /\ Q \in SUBSET All /\ V \in SUBSET All
  OBVIOUS
<1>2. IsFiniteSet(P) /\ IsFiniteSet(R) /\ IsFiniteSet(Q) /\ IsFiniteSet(V)
  BY <1>1, FS_Subset
<1>3. Cardinality(P \cup R) = Cardinality(P) + Cardinality(R)
  BY <1>2, CountedApart
<1>4. Cardinality(Q \cup V) = Cardinality(Q) + Cardinality(V)
  BY <1>2, CountedApart
<1> QED
  BY <1>3, <1>4

LEMMA SupplierKindIs ==
  ASSUME NEW record
  PROVE  /\ SupplierKind(record, "submitted") <=> record.status = "accepted"
         /\ SupplierKind(record, "pending") <=> record.status \in {"pending", "draft"}
         /\ SupplierKind(record, "returned")
              <=> record.status \in {"partial", "rejected", "cancelled"}
  BY DEF SupplierKind, InKind

\* A supplier loses none of its deliveries between the two reads.
LEMMA SuppliersCount ==
  ASSUME Typed, NEW s
  PROVE  /\ SupplierCount(s, "submitted") = DispatchCount(s, "submitted")
         /\ SupplierCount(s, "pending") + SupplierCount(s, "returned")
              = DispatchCount(s, "pending") + DispatchCount(s, "returned")
         /\ SupplierDetails(s, "returned") \subseteq DetailRows("returned")
<1> DEFINE Read(kind) == {n \in Own(s) : SupplierKind(ReceiptRecord(n), kind)}
           Asked(kind) == {n \in Own(s) : SupplierKind(DispatchRecord(n), kind)}
<1>1. Own(s) \in SUBSET DOMAIN receipts
  BY DEF Own
<1>2. \A n \in Own(s) :
        /\ ReceiptRecord(n).status \in {"draft", "accepted", "partial", "rejected", "cancelled"}
        /\ DispatchRecord(n).status \in {"draft", "accepted", "partial", "rejected", "cancelled"}
        /\ DispatchRecord(n).status = "accepted" <=> ReceiptRecord(n).status = "accepted"
  BY <1>1, ReceiptShows, DispatchShows
<1>3. Read("submitted") = Asked("submitted")
  BY <1>2, SupplierKindIs
<1>4. PICK All : All = {n \in Own(s) : ReceiptRecord(n).status # "accepted"}
  OBVIOUS
<1>5. Read("pending") \cup Read("returned") = All /\ Read("pending") \cap Read("returned") = {}
  BY <1>2, <1>4, SupplierKindIs
<1>6. Asked("pending") \cup Asked("returned") = All /\ Asked("pending") \cap Asked("returned") = {}
  BY <1>2, <1>4, SupplierKindIs
<1>7. IsFiniteSet(All)
  <2>1. All \in SUBSET DOMAIN receipts
    BY <1>1, <1>4
  <2> QED
    BY <2>1, RowsAreFinite, FS_Subset
<1>8. /\ \A kind : SupplierCount(s, kind) = Cardinality(Read(kind))
      /\ \A kind : DispatchCount(s, kind) = Cardinality(Asked(kind))
  BY DEF SupplierCount, DispatchCount
<1>9. SupplierDetails(s, "returned") \subseteq DetailRows("returned")
  <2>1. \A r : SupplierKind(r, "returned") <=> InKind(r, "returned")
    BY DEF SupplierKind
  <2> QED
    BY <1>1, <2>1 DEF SupplierDetails, DetailRows, ReceiptRecords
<1> HIDE DEF Read, Asked
<1>10. Cardinality(Read("pending")) + Cardinality(Read("returned"))
         = Cardinality(Asked("pending")) + Cardinality(Asked("returned"))
  BY <1>5, <1>6, <1>7, ApartAsMany
<1> QED
  BY <1>3, <1>8, <1>9, <1>10

\* Notes are told apart, and there are only so many.
LEMMA NotesAreFinite ==
  ASSUME Typed
  PROVE  IsFiniteSet(DOMAIN notes)
<1>1. Len(notes) \in Nat /\ DOMAIN notes = 1 .. Len(notes)
  BY DEF Typed, NotesTyped
<1> QED
  BY <1>1, FS_Interval

\* The notes that are accepted for a customer are those on its list.
LEMMA CustomersCount ==
  ASSUME Typed, NEW c
  PROVE  CustomerCount(c, "confirmed") = Cardinality(CustomerDetails(c, "confirmed"))
<1>1. PICK N : N = {n \in OwnNotes(c) : StatusOf(notes[n]) = "accepted"}
  OBVIOUS
<1>2. CustomerCount(c, "confirmed") = Cardinality(N)
  BY <1>1 DEF CustomerCount
<1>3. PICK f : f = [n \in N |-> CustomerRecord(n)]
  OBVIOUS
<1>4. \A n : CustomerRecord(n).id[2] = n /\ CustomerRecord(n).status = StatusOf(notes[n])
  BY DEF CustomerRecord, Note
<1>5. PICK D : D = CustomerDetails(c, "confirmed")
  OBVIOUS
<1>6. \A r : r \in D <=> \E n \in N : r = CustomerRecord(n)
  BY <1>1, <1>4, <1>5 DEF CustomerDetails, CustomerHistory
<1>7. IsFiniteSet(N)
  <2>1. N \in SUBSET DOMAIN notes
    BY <1>1 DEF OwnNotes
  <2> QED
    BY <2>1, NotesAreFinite, FS_Subset
<1>8. f \in [N -> D]
  BY <1>3, <1>6
<1>9. \A n \in N : \A m \in N : f[n] = f[m] => n = m
  BY <1>3, <1>4
<1>10. \A r \in D : \E n \in N : f[n] = r
  BY <1>3, <1>6
<1> QED
  BY <1>2, <1>5, <1>7, <1>8, <1>9, <1>10, AsMany

\* The notes that are shown, by number.
ShownNumbers(kind) ==
  {n \in DOMAIN notes : CustomerVisible(notes[n]) /\ InKind([status |-> StatusOf(notes[n])], kind)}

LEMMA NumbersShown ==
  ASSUME Typed, NEW kind
  PROVE  /\ IsFiniteSet(ShownNumbers(kind))
         /\ Cardinality(ShownNotes(kind)) = Cardinality(ShownNumbers(kind))
<1> DEFINE ShownAs(n) == [id |-> Note(n), status |-> notes[n].status, flow |-> notes[n].flow,
                          state |-> notes[n].state, qty |-> notes[n].qty, returned |-> Returned(n)]
<1>1. PICK N : N = ShownNumbers(kind)
  OBVIOUS
<1>2. PICK D : D = ShownNotes(kind)
  OBVIOUS
<1>3. IsFiniteSet(N)
  <2>1. N \in SUBSET DOMAIN notes
    BY <1>1 DEF ShownNumbers
  <2> QED
    BY <2>1, NotesAreFinite, FS_Subset
<1>4. \A n : ShownAs(n).id[2] = n
  BY DEF Note
<1>5. ASSUME NEW n \in DOMAIN notes
      PROVE  /\ Visible(ShownAs(n)) <=> CustomerVisible(notes[n])
             /\ NoteStatus(ShownAs(n)) = StatusOf(notes[n])
             /\ CustomerVisible(notes[n]) => ShownAs(n) \in NoteRows
  <2>1. Visible(ShownAs(n)) <=> CustomerVisible(notes[n])
    BY DEF Visible, CustomerVisible
  <2>2. NoteStatus(ShownAs(n)) = StatusOf(notes[n])
    BY DEF NoteStatus, StatusOf
  <2>3. CustomerVisible(notes[n]) => ShownAs(n) \in NoteRows
    BY DEF CustomerVisible, NoteRows
  <2> QED
    BY <2>1, <2>2, <2>3
<1>6. \A row \in NoteRows : Visible(row) => \E n \in DOMAIN notes : row = ShownAs(n)
  BY DEF NoteRows, Visible
<1>7. \A row : InKind(NoteRecord(row), kind) <=> InKind([status |-> NoteStatus(row)], kind)
  BY DEF InKind, NoteRecord
<1> HIDE DEF RowOf
<1>8. ASSUME NEW n \in N PROVE ShownAs(n) \in D
  BY <1>1, <1>2, <1>5, <1>7 DEF ShownNumbers, ShownNotes
<1>9. ASSUME NEW row \in D PROVE \E n \in N : ShownAs(n) = row
  <2>1. row \in NoteRows /\ Visible(row) /\ InKind(NoteRecord(row), kind)
    BY <1>2 DEF ShownNotes
  <2>2. PICK n \in DOMAIN notes : row = ShownAs(n)
    BY <1>6, <2>1
  <2> QED
    BY <1>1, <1>5, <1>7, <2>1, <2>2 DEF ShownNumbers
<1>10. PICK f : f = [n \in N |-> ShownAs(n)]
  OBVIOUS
<1>11. f \in [N -> D]
  BY <1>8, <1>10
<1>12. \A n \in N : \A m \in N : f[n] = f[m] => n = m
  BY <1>4, <1>10
<1>13. \A row \in D : \E n \in N : f[n] = row
  BY <1>9, <1>10
<1> QED
  BY <1>1, <1>2, <1>3, <1>11, <1>12, <1>13, AsMany

\* What a customer's count of a kind counts.
LEMMA CustomerCounts ==
  ASSUME Typed, NEW c
  PROVE  /\ CustomerCount(c, "pending")
              = Cardinality({n \in ShownNumbers("pending") : notes[n].customer = c})
         /\ CustomerCount(c, "rejected")
              = Cardinality({n \in ShownNumbers("returned") : notes[n].customer = c})
<1>1. \A n \in DOMAIN notes : CustomerVisible(notes[n]) =>
        /\ notes[n].status # "deleted"
        /\ StatusOf(notes[n]) \in {"pending", "accepted", "partial", "rejected"}
  BY DEF CustomerVisible, StatusOf
<1>2. PICK pending : pending =
        {n \in OwnNotes(c) : StatusOf(notes[n]) \notin {"accepted", "partial", "rejected"}}
  OBVIOUS
<1>3. PICK back : back = {n \in OwnNotes(c) : StatusOf(notes[n]) \in {"partial", "rejected"}}
  OBVIOUS
<1>4. CustomerCount(c, "pending") = Cardinality(pending)
  BY <1>2 DEF CustomerCount
<1>5. CustomerCount(c, "rejected") = Cardinality(back)
  BY <1>3 DEF CustomerCount
<1>6. \A n \in DOMAIN notes :
        /\ InKind([status |-> StatusOf(notes[n])], "pending")
             <=> StatusOf(notes[n]) \in {"pending", "draft"}
        /\ InKind([status |-> StatusOf(notes[n])], "returned")
             <=> StatusOf(notes[n]) \in {"partial", "rejected", "cancelled"}
  BY DEF InKind
<1>7. pending = {n \in ShownNumbers("pending") : notes[n].customer = c}
  BY <1>1, <1>2, <1>6 DEF OwnNotes, ShownNumbers
<1>8. back = {n \in ShownNumbers("returned") : notes[n].customer = c}
  BY <1>1, <1>3, <1>6 DEF OwnNotes, ShownNumbers
<1> QED
  BY <1>4, <1>5, <1>7, <1>8

\* The customers together have the notes that the warehouse counts.
LEMMA CustomersTogether ==
  ASSUME Typed, NEW kind, NEW f, f = [c \in Customers |-> f[c]],
         \A c \in Customers :
           f[c] = Cardinality({n \in ShownNumbers(kind) : notes[n].customer = c})
  PROVE  SumOver(f) = Cardinality(ShownNotes(kind))
<1>1. PICK N : N = ShownNumbers(kind)
  OBVIOUS
<1>2. IsFiniteSet(N) /\ Cardinality(ShownNotes(kind)) = Cardinality(N)
  BY <1>1, NumbersShown
<1>3. PICK owner : owner = [n \in N |-> notes[n].customer]
  OBVIOUS
<1>4. owner \in [N -> Customers]
  <2>1. \A n \in N : n \in DOMAIN notes
    BY <1>1 DEF ShownNumbers
  <2>2. \A n \in N : notes[n].customer \in Customers
    BY <2>1, NoteIs DEF NoteType
  <2> QED
    BY <1>3, <2>2
<1>5. ASSUME NEW c \in Customers
      PROVE  f[c] = Cardinality({n \in N : owner[n] = c}) /\ f[c] \in Int
  <2>1. PICK own : own = {n \in N : owner[n] = c}
    OBVIOUS
  <2>2. own = {n \in ShownNumbers(kind) : notes[n].customer = c}
    BY <1>1, <1>3, <2>1
  <2>3. own \in SUBSET N
    BY <2>1
  <2>4. Cardinality(own) \in Nat
    BY <1>2, <2>3, FS_Subset, FS_CardinalityType
  <2> QED
    BY <2>1, <2>2, <2>4
<1>6. f \in [Customers -> Int]
  BY <1>5
<1>7. IsFiniteSet(Customers)
  BY NotesAssumption
<1> QED
  BY <1>2, <1>4, <1>5, <1>6, <1>7, SumOfCounts

\* What is archived is in the history, while nothing of it is cut.
LEMMA ArchiveIsHistory ==
  ASSUME Typed, NEW acks \in Nat,
         Cardinality(ReceiptRecords) <= HistoryLimit, Cardinality(NoteRecords) <= HistoryLimit,
         Cardinality(ReceiptRecords \cup DecidedNotes(NoteRecords)) + acks <= HistoryLimit,
         NEW shown \in HistoryRows(acks)
  PROVE  Archive("received") \cup Archive("returned") \subseteq shown
<1>1. ASSUME NEW r \in Archive("received") PROVE r \in ReceiptRecords
  BY <1>1 DEF Archive, ReceiptRecords
<1>2. ASSUME NEW r \in Archive("returned")
      PROVE  r \in ReceiptRecords
             \/ (r \in NoteRecords /\ r.status \in {"partial", "rejected", "cancelled"})
  BY <1>2 DEF Archive, ReceiptRecords, NoteRecords
<1>3. \A r \in NoteRecords : r.status # "cancelled"
  BY RowShows DEF NoteRecords
<1>4. shown = ReceiptRecords \cup DecidedNotes(NoteRecords)
  <2>1. PICK A : A = ReceiptRecords
    OBVIOUS
  <2>2. PICK N : N = NoteRecords
    OBVIOUS
  <2>3. IsFiniteSet(A) /\ IsFiniteSet(N)
    <3>1. IsFiniteSet(DOMAIN receipts) /\ IsFiniteSet(NoteRows)
      BY RowsAreFinite
    <3>2. PICK f : f = [n \in DOMAIN receipts |-> ReceiptRecord(n)]
      OBVIOUS
    <3>3. PICK g : g = [row \in NoteRows |-> NoteRecord(row)]
      OBVIOUS
    <3>4. f \in Surjection(DOMAIN receipts, A)
      BY <2>1, <3>2 DEF Surjection, ReceiptRecords
    <3>5. g \in Surjection(NoteRows, N)
      BY <2>2, <3>3 DEF Surjection, NoteRecords
    <3> QED
      BY <3>1, <3>4, <3>5, FS_Surjection
  <2>4. Cardinality(A) \in Nat /\ Cardinality(N) \in Nat
    BY <2>3, FS_CardinalityType
  <2>5. Cut(A, 0) = {A} /\ Cut(N, 0) = {N}
    BY <2>1, <2>2, <2>4, ReadsAssumption DEF Cut
  <2>6. Cut(A \cup DecidedNotes(N), acks) = {A \cup DecidedNotes(N)}
    BY <2>1, <2>2 DEF Cut
  <2>7. PICK some \in Cut(ReceiptRecords, 0), others \in Cut(NoteRecords, 0) :
          shown \in Cut(some \cup DecidedNotes(others), acks)
    BY DEF HistoryRows
  <2>8. some = A /\ others = N
    BY <2>1, <2>2, <2>5, <2>7
  <2> QED
    BY <2>1, <2>2, <2>6, <2>7, <2>8
<1> QED
  BY <1>1, <1>2, <1>3, <1>4 DEF DecidedNotes

\* What is archived as received, and what went back of it, is what was sent.
LEMMA ArchiveAddsUp ==
  ASSUME Typed
  PROVE  ArchiveQty("received") + Returns(Archive("received"))
           = SumOver([r \in Archive("received") |-> r.sent])
<1>1. PICK A : A = Archive("received")
  OBVIOUS
<1>2. ASSUME NEW r \in A
      PROVE  \E n \in DOMAIN receipts :
               r = ReceiptRecord(n) /\ r.status \in {"accepted", "partial"}
  BY <1>1, <1>2 DEF Archive
<1>3. IsFiniteSet(A)
  <2>1. PICK f : f = [r \in A |-> r.id[2]]
    OBVIOUS
  <2>2. \A n \in DOMAIN receipts : ReceiptRecord(n).id[2] = n
    BY DEF ReceiptRecord, Receipt
  <2>3. f \in Injection(A, DOMAIN receipts)
    BY <1>2, <2>1, <2>2 DEF Injection, IsInjective
  <2> QED
    BY <2>3, RowsAreFinite, FS_Injection
<1>4. ASSUME NEW r \in A
      PROVE  r.sent \in Nat /\ r.accepted \in Nat /\ r.accepted > 0 /\ r.accepted <= r.sent
  <2>1. PICK n \in DOMAIN receipts : r = ReceiptRecord(n) /\ r.status \in {"accepted", "partial"}
    BY <1>2
  <2>2. PICK doc : doc = receipts[n]
    OBVIOUS
  <2>3. doc.qty \in Nat /\ Sent(doc) \in Nat /\ doc.qty <= Sent(doc)
    BY <2>2, ReceiptHolds
  <2>4. r.accepted = doc.qty /\ doc.qty > 0
    BY <2>1, <2>2, ReceiptShows
  <2>5. r.sent = Sent(doc)
    BY <2>1, <2>2 DEF ReceiptRecord
  <2> QED
    BY <2>3, <2>4, <2>5
<1>5. PICK kept : kept = [r \in A |-> ArchiveMetric("received", r)]
  OBVIOUS
<1>6. PICK back : back = [r \in A |-> Positive(r.sent - r.accepted)]
  OBVIOUS
<1>7. PICK sent : sent = [r \in A |-> r.sent]
  OBVIOUS
<1>8. ASSUME NEW r \in A
      PROVE  /\ kept[r] \in Int /\ back[r] \in Int /\ sent[r] \in Int
             /\ kept[r] + back[r] = sent[r]
  BY <1>4, <1>5, <1>6, <1>7 DEF ArchiveMetric, Positive
<1>9. kept \in [A -> Int] /\ back \in [A -> Int] /\ sent \in [A -> Int]
  BY <1>5, <1>6, <1>7, <1>8
<1>10. SumOver(kept) + SumOver(back) = SumOver(sent)
  BY <1>3, <1>8, <1>9, SumsTogether
<1> QED
  BY <1>1, <1>5, <1>6, <1>7, <1>10 DEF ArchiveQty, Returns

LEMMA TypedViewsAgree ==
  ASSUME Typed
  PROVE  ViewsAgree
<1>1. \A n \in DOMAIN receipts :
        receipts[n].status # "draft" => DispatchRecord(n).status = ReceiptRecord(n).status
  BY DispatchShows
<1>2. SumOver([c \in Customers |-> CustomerCount(c, "pending")])
        = Cardinality(ShownNotes("pending"))
  <2>1. PICK f : f = [c \in Customers |-> CustomerCount(c, "pending")]
    OBVIOUS
  <2>2. f = [c \in Customers |-> f[c]]
    BY <2>1
  <2>3. \A c \in Customers :
          f[c] = Cardinality({n \in ShownNumbers("pending") : notes[n].customer = c})
    BY <2>1, CustomerCounts
  <2> QED
    BY <2>1, <2>2, <2>3, CustomersTogether
<1>3. SumOver([c \in Customers |-> CustomerCount(c, "rejected")])
        = Cardinality(ShownNotes("returned"))
  <2>1. PICK f : f = [c \in Customers |-> CustomerCount(c, "rejected")]
    OBVIOUS
  <2>2. f = [c \in Customers |-> f[c]]
    BY <2>1
  <2>3. \A c \in Customers :
          f[c] = Cardinality({n \in ShownNumbers("returned") : notes[n].customer = c})
    BY <2>1, CustomerCounts
  <2> QED
    BY <2>1, <2>2, <2>3, CustomersTogether
<1>4. \A acks \in 0 .. HistoryLimit :
        (/\ Cardinality(ReceiptRecords) <= HistoryLimit /\ Cardinality(NoteRecords) <= HistoryLimit
         /\ Cardinality(ReceiptRecords \cup DecidedNotes(NoteRecords)) + acks <= HistoryLimit)
          => \A shown \in HistoryRows(acks) :
               Archive("received") \cup Archive("returned") \subseteq shown
  BY ArchiveIsHistory, ReadsAssumption
<1> QED
  BY <1>1, <1>2, <1>3, <1>4, SuppliersCount, CustomersCount, ArchiveAddsUp
     DEF ViewsAgree

(* The parties see one another's documents: a booked delivery reads the    *)
(* same from the database and through ERPNext, a supplier loses none       *)
(* between the two, the customers together have the notes the warehouse    *)
(* counts, and the archive of what was received adds up to what was sent   *)
(* and is in the history while that has place for everything, for any      *)
(* documents, suppliers and customers.                                     *)
THEOREM ViewsOfOneAnother == Spec => []ViewsAgree
<1>1. Typed => ViewsAgree
  BY TypedViewsAgree
<1> QED
  BY <1>1, StockTyped, PTL
==============================================================================
