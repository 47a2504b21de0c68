--------------------------- MODULE PrintingProofs ---------------------------
(***************************************************************************)
(* Printing: the types, why nothing is booked that is not on paper, and    *)
(* why a stopped batch stays quiet.                                        *)
(***************************************************************************)
EXTENDS Printing, LeastNumbers, TLAPS

-----------------------------------------------------------------------------
(***************************************************************************)
(* The types of the state and of what it is made of.                       *)
(***************************************************************************)
Kinds == {"receipt", "split"}
Number == [clock : SUBSET (0 .. ClockBits - 1), tail : SUBSET (0 .. WordBits - 1)]
Barcode == Number \union {NoBarcode, RollBarcode}

LineType == [item : ItemName, warehouse : WarehouseName, qty : Int, barcode : Barcode, in : BOOLEAN]
EntryType == [kind : Kinds, lines : Seq(LineType),
              status : {"draft", "submitted", "deleted"}, modified : Nat]
Source == [entry : Nat, barcode : Barcode, item : ItemName, qty : Int, warehouse : WarehouseName]
Job == [kind : Kinds, owner : Owners \union {NoOwner}, lines : Seq(Outputs),
        source : Source \union {NoBatch}]
PrintStates == {"open", "yes", "no"}
LateStates == {"none", "get", "put", "over"}
ErpStates ==
  {"number", "create", "wait", "print", "fetch", "post", "delete", "done", "failed", "dropped"}

\* Where a job knows the draft it made and is not through with it.
Drafted == {"wait", "print", "fetch", "post", "delete"}

EntriesTyped == entries \in Seq(EntryType) /\ stamp \in Nat

JobsTyped ==
  /\ jobs \in Seq(Job)
  /\ \A j \in Jobs : /\ IsReceipt(j) => Len(jobs[j].lines) = 1
                     /\ ~IsReceipt(j) => jobs[j].source \in Source
  /\ print \in [Jobs -> PrintStates]
  /\ printed \in [Jobs -> SUBSET Nat]
  /\ \A j \in Jobs : printed[j] \subseteq Printable(j)
  /\ erp \in [Jobs -> ErpStates]
  /\ attempt \in [Jobs -> 0 .. 1]
  /\ draft \in [Jobs -> 0 .. Len(entries)]
  /\ \A j \in Jobs : erp[j] \in Drafted => draft[j] # 0

\* What a counter is, modulo a power the provers cannot take, does not matter.
Salted(g) == "salt" \in DOMAIN g /\ g.salt \subseteq 0 .. WordBits - 1

EpcTyped ==
  /\ clock \in Nat /\ faults \in 0 .. MaxFaults
  /\ DOMAIN generators = Kinds /\ \A k \in Kinds : Salted(generators[k])

BatchesTyped ==
  /\ batches \in [Owners -> Batch \union {NoBatch}]
  /\ stopping \in [Owners -> Batch \union {NoBatch}]
  /\ halted \subseteq Owners
  /\ late \in [Jobs -> LateStates]
  /\ lateCopy \in [Jobs -> Batch \union {NoBatch}]
  /\ \A j \in Jobs : late[j] \in {"get", "put"} => jobs[j].owner \in Owners
  /\ \A j \in Jobs : late[j] = "put" => lateCopy[j] # NoBatch

Typed == EntriesTyped /\ JobsTyped /\ EpcTyped /\ BatchesTyped

-----------------------------------------------------------------------------
\* A list as the function it is.
LEMMA Listed ==
  ASSUME NEW n \in Nat, NEW S, NEW s \in [1 .. n -> S]
  PROVE  s \in Seq(S) /\ Len(s) = n
  OBVIOUS

\* A list with one value more, v at place n + 1.
Grown(n, s, s1, v) ==
  /\ \A i \in 1 .. n : s1[i] = s[i]
  /\ s1[n + 1] = v

LEMMA Appended ==
  ASSUME NEW n \in Nat, NEW S, NEW s \in [1 .. n -> S], NEW e \in S,
         NEW s1, s1 = Append(s, e)
  PROVE  s1 \in [1 .. n + 1 -> S] /\ Grown(n, s, s1, e)
<1>1. s \in Seq(S) /\ Len(s) = n
  BY Listed
<1>2. s1 \in Seq(S) /\ Len(s1) = n + 1
  BY <1>1
<1>3. s1 \in [1 .. n + 1 -> S]
  <2>1. \A t \in Seq(S) : t \in [1 .. Len(t) -> S]
    OBVIOUS
  <2> QED
    BY <1>2, <2>1
<1>4. \A i \in 1 .. n : s1[i] = s[i]
  BY <1>1
<1>5. s1[n + 1] = e
  BY <1>1
<1> QED
  BY <1>3, <1>4, <1>5 DEF Grown

\* A list with one value replaced.
LEMMA Updated ==
  ASSUME NEW S, NEW s \in Seq(S), NEW e, NEW v \in S
  PROVE  /\ [s EXCEPT ![e] = v] \in Seq(S)
         /\ DOMAIN [s EXCEPT ![e] = v] = DOMAIN s
         /\ Len([s EXCEPT ![e] = v]) = Len(s)
         /\ \A i \in DOMAIN s : i # e => [s EXCEPT ![e] = v][i] = s[i]
         /\ e \in DOMAIN s => [s EXCEPT ![e] = v][e] = v
<1>1. Len(s) \in Nat /\ s \in [1 .. Len(s) -> S]
  OBVIOUS
<1>2. [s EXCEPT ![e] = v] \in [1 .. Len(s) -> S]
  BY <1>1
<1> QED
  BY <1>1, <1>2, Listed

LEMMA JobsAreNumbered ==
  ASSUME Typed
  PROVE  Jobs = 1 .. Len(jobs) /\ Len(jobs) \in Nat
<1>1. jobs \in Seq(Job)
  BY DEF Typed, JobsTyped
<1> QED
  BY <1>1 DEF Jobs

LEMMA JobTyped ==
  ASSUME Typed, NEW j \in Jobs
  PROVE  /\ jobs[j].kind \in Kinds /\ jobs[j].owner \in Owners \union {NoOwner}
         /\ jobs[j].lines \in Seq(Outputs)
<1>1. jobs[j] \in Job
  BY DEF Typed, JobsTyped, Jobs
<1> QED
  BY <1>1 DEF Job

\* Numbers have the width of their parts, whatever clock and salt they have.
LEMMA NumberTyped ==
  ASSUME NEW g, Salted(g), NEW ns \in Nat
  PROVE  NextEpc(g, ns) \in Number /\ Salted(Advance(g, ns))
<1>1. Salted(Advance(g, ns))
  BY DEF Advance, Salted
<1>2. \A n : Bits(n, ClockBits) \subseteq 0 .. ClockBits - 1 /\ Bits(n, WordBits) \subseteq 0 .. WordBits - 1
  BY DEF Bits
<1>3. ASSUME NEW word \in SUBSET (0 .. WordBits - 1), NEW n \in Nat
      PROVE  RotateLeft(word, n) \subseteq 0 .. WordBits - 1
  <2> SUFFICES ASSUME NEW i \in word PROVE (i + n) % WordBits \in 0 .. WordBits - 1
    BY DEF RotateLeft
  <2>1. i + n \in Nat
    OBVIOUS
  <2> QED
    BY <2>1, WidthAssumption
<1>4. ASSUME NEW salt \in SUBSET (0 .. WordBits - 1), NEW seq
      PROVE  Tail32(ns, seq, salt) \subseteq 0 .. WordBits - 1
  <2> DEFINE atom == Bits(ns \div 1000, WordBits)
             turned == RotateLeft(Bits(ns, WordBits), 13)
             counted == RotateLeft(Bits(seq, WordBits), 7)
             width == 0 .. WordBits - 1
  <2>1. {atom, turned, counted, salt} \subseteq SUBSET width /\ 0 \in width
    BY <1>2, <1>3, WidthAssumption
  <2>2. Tail32(ns, seq, salt) = Xor(Xor(Xor(atom, turned), counted), salt) \union {0}
    BY DEF Tail32
  <2> HIDE DEF atom, turned, counted, width
  <2>3. Tail32(ns, seq, salt) \subseteq width
    BY <2>1, <2>2 DEF Xor
  <2> QED
    BY <2>3 DEF width
<1> QED
  BY <1>1, <1>2, <1>4 DEF NextEpc, FormatEpc, Salted, Number

\* A number is put on a line: the work the job asks for stays what it was.
SameWork(job, old) ==
  /\ job.kind = old.kind /\ job.owner = old.owner /\ job.source = old.source
  /\ Len(job.lines) = Len(old.lines) /\ DOMAIN job.lines = DOMAIN old.lines
  /\ \A k \in DOMAIN old.lines :
       job.lines[k].qr = old.lines[k].qr /\ job.lines[k].qty = old.lines[k].qty

LEMMA NumberedTyped ==
  ASSUME EpcTyped, NEW job \in Job, NEW i \in Unnumbered(job), NEW now \in 1 .. MaxClock
  PROVE  NumberedBy(job, i, now) \in Job /\ SameWork(NumberedBy(job, i, now), job)
<1> DEFINE number == NextEpc(generators[job.kind], now)
           new == [job.lines[i] EXCEPT !.epc = number]
           lines == [job.lines EXCEPT ![i] = new]
<1>1. job.kind \in Kinds /\ job.lines \in Seq(Outputs) /\ i \in DOMAIN job.lines
  BY DEF Job, Unnumbered
<1>2. number \in Number
  <2>1. now \in Nat /\ Salted(generators[job.kind])
    BY <1>1, PrintingAssumption DEF EpcTyped
  <2> QED
    BY <2>1, NumberTyped
<1>3. job.lines[i] \in Outputs
  BY <1>1
<1>4. new \in Outputs /\ new.qr = job.lines[i].qr /\ new.qty = job.lines[i].qty
  <2> HIDE DEF number
  <2> QED
    BY <1>2, <1>3 DEF Outputs, Number
<1>5. NumberedBy(job, i, now) = [job EXCEPT !.lines = lines]
  BY Zenon DEF NumberedBy
<1> HIDE DEF new, number
<1>6. /\ lines \in Seq(Outputs) /\ Len(lines) = Len(job.lines) /\ DOMAIN lines = DOMAIN job.lines
      /\ \A k \in DOMAIN job.lines :
           lines[k].qr = job.lines[k].qr /\ lines[k].qty = job.lines[k].qty
  BY <1>1, <1>4, Updated
<1> HIDE DEF lines
<1>7. [job EXCEPT !.lines = lines] \in Job
  BY <1>6 DEF Job
<1> QED
  BY <1>5, <1>6, <1>7 DEF SameWork, Job

\* The generators stay salted, whichever reading a number is drawn with.
LEMMA DrawsTyped ==
  ASSUME EpcTyped, UNCHANGED faults, NEW kind \in Kinds, NEW now \in 1 .. MaxClock,
         NEW j, NEW i, Draws(kind, now, j, i)
  PROVE  EpcTyped'
<1>1. now \in Nat /\ clock' = now
  BY PrintingAssumption DEF Draws, Reads
<1>2. generators' = [generators EXCEPT ![kind] = Advance(@, now)]
  BY DEF Draws
<1>3. Salted(Advance(generators[kind], now))
  BY <1>1, NumberTyped DEF EpcTyped
<1> QED
  BY <1>1, <1>2, <1>3 DEF EpcTyped

\* What a split reads is a roll with a name, a place and a weight.
LEMMA SourceTyped ==
  ASSUME EntriesTyped, NEW barcode, NEW row \in SourceRows(barcode)
  PROVE  SourceOf(row) \in Source
<1>1. PICK e \in DOMAIN entries, i \in 1 .. 4 :
        row = <<e, i>> /\ i \in DOMAIN entries[e].lines
  BY DEF SourceRows, RowsWith
<1>2. entries[e] \in EntryType /\ e \in Nat
  BY DEF EntriesTyped
<1>3. entries[e].lines[i] \in LineType
  BY <1>1, <1>2 DEF EntryType
<1> QED
  BY <1>1, <1>2, <1>3 DEF SourceOf, Source, LineType

LEMMA SplitLinesTyped ==
  ASSUME NEW outputs \in SplitRequests, NEW source \in Source, ValidSplit(outputs, source)
  PROVE  SplitLines(outputs, source) \in Seq(Outputs)
<1> DEFINE line(i) == [item |-> ItemOf(outputs[i], source), warehouse |-> outputs[i].warehouse,
                       qty |-> outputs[i].qty, qr |-> HasLabel(outputs[i]), epc |-> NoBarcode]
<1>1. /\ outputs \in Seq(SplitOutput)
      /\ Len(outputs) \in Nat /\ DOMAIN outputs = 1 .. Len(outputs)
  BY RequestsAssumption
<1>2. ASSUME NEW i \in DOMAIN outputs PROVE line(i) \in Outputs
  <2>1. outputs[i] \in SplitOutput
    BY <1>1
  <2>2. ItemOf(outputs[i], source) \in Items
    BY <2>1 DEF ValidSplit, ItemOf, Source, SplitOutput, ItemName
  <2>3. outputs[i].warehouse \in Warehouses /\ outputs[i].qty \in Nat
    BY <2>1 DEF ValidSplit, SplitOutput, WarehouseName
  <2>4. HasLabel(outputs[i]) \in BOOLEAN
    BY <2>1 DEF HasLabel, SplitOutput
  <2> QED
    BY <2>2, <2>3, <2>4, Zenon DEF Outputs
<1>3. SplitLines(outputs, source) = [i \in 1 .. Len(outputs) |-> line(i)]
  BY <1>1 DEF SplitLines
<1> HIDE DEF line
<1> QED
  BY <1>1, <1>2, <1>3

\* What a split is going to print weighs what was asked for.
LEMMA SplitWeighs ==
  ASSUME NEW outputs \in SplitRequests, NEW source, ValidSplit(outputs, source)
  PROVE  TotalQty(SplitLines(outputs, source)) = source.qty
<1> DEFINE lines == SplitLines(outputs, source)
<1>1. DOMAIN lines = DOMAIN outputs /\ \A i \in DOMAIN outputs : lines[i].qty = outputs[i].qty
  BY DEF SplitLines
<1> HIDE DEF lines
<1>2. [i \in DOMAIN lines |-> lines[i].qty] = [i \in DOMAIN outputs |-> outputs[i].qty]
  BY <1>1
<1>3. TotalQty(lines) = TotalQty(outputs)
  BY <1>2 DEF TotalQty
<1> QED
  BY <1>3 DEF ValidSplit, lines

\* The document a job asks ERPNext for.
LEMMA LinesOfTyped ==
  ASSUME Typed, NEW j \in Jobs
  PROVE  LinesOf(j) \in Seq(LineType)
<1>1. /\ jobs[j] \in Job
      /\ IsReceipt(j) => Len(jobs[j].lines) = 1
      /\ ~IsReceipt(j) => jobs[j].source \in Source
  BY DEF Typed, JobsTyped, Jobs
<1>2. jobs[j].lines \in Seq(Outputs)
  BY <1>1 DEF Job
<1>3. ASSUME NEW o \in Outputs
      PROVE  /\ RepackOutputLine(o) \in LineType
             /\ Line(o.item, o.warehouse, o.qty, o.epc, TRUE) \in LineType
  BY DEF Outputs, LineType, Line, RepackOutputLine, ItemName, WarehouseName, Barcode, Number
<1>4. CASE IsReceipt(j)
  <2>1. 1 \in 1 .. Len(jobs[j].lines)
    <3>1. Len(jobs[j].lines) = 1
      BY <1>1, <1>4 DEF IsReceipt
    <3> QED
      BY <3>1
  <2>2. jobs[j].lines[1] \in Outputs
    BY <1>2, <2>1
  <2> QED
    <3> DEFINE o == jobs[j].lines[1]
               line == Line(o.item, o.warehouse, o.qty, o.epc, TRUE)
    <3>1. line \in LineType /\ LinesOf(j) = <<line>>
      BY <1>3, <1>4, <2>2 DEF LinesOf, ReceiptLines
    <3> HIDE DEF line
    <3> QED
      BY <3>1
<1>5. CASE ~IsReceipt(j)
  <2> DEFINE outputs == jobs[j].lines
             puts == [i \in 1 .. Len(outputs) |-> RepackOutputLine(outputs[i])]
  <2>1. RepackSourceLine(jobs[j].source) \in LineType
    <3>1. jobs[j].source \in Source
      BY <1>1, <1>5
    <3> QED
      BY <3>1, Zenon DEF RepackSourceLine, Line, LineType, Source
  <2>2. puts \in Seq(LineType)
    <3>1. DOMAIN outputs = 1 .. Len(outputs) /\ Len(outputs) \in Nat
      BY <1>2
    <3>2. ASSUME NEW i \in 1 .. Len(outputs) PROVE RepackOutputLine(outputs[i]) \in LineType
      <4>1. outputs[i] \in Outputs
        BY <1>2
      <4> QED
        BY <4>1, <1>3
    <3>3. puts \in [1 .. Len(outputs) -> LineType]
      BY <3>2
    <3>4. Len(outputs) \in Nat
      BY <3>1
    <3> HIDE DEF puts, outputs
    <3> QED
      BY <3>3, <3>4, Listed
  <2>3. <<RepackSourceLine(jobs[j].source)>> \in Seq(LineType)
    BY <2>1
  <2>4. LinesOf(j) = <<RepackSourceLine(jobs[j].source)>> \o puts
    <3>1. DOMAIN outputs = 1 .. Len(outputs)
      BY <1>2
    <3> QED
      BY <1>5, <3>1 DEF LinesOf, RepackLines
  <2> HIDE DEF puts
  <2> QED
    BY <2>2, <2>3, <2>4
<1> QED
  BY <1>4, <1>5

-----------------------------------------------------------------------------
(***************************************************************************)
(* What a request does to the documents of ERPNext.                        *)
(***************************************************************************)
LEMMA CreatedTyped ==
  ASSUME EntriesTyped, NEW kind \in Kinds, NEW lines \in Seq(LineType), NEW outcome,
         Created(kind, lines, outcome)
  PROVE  /\ EntriesTyped'
         /\ Len(entries) <= Len(entries')
         /\ \A e \in DOMAIN entries : entries'[e] = entries[e]
         /\ outcome = "ok" => /\ Len(entries') = Len(entries) + 1
                              /\ entries'[Len(entries) + 1].status = "draft"
<1> DEFINE new == Entry(kind, lines)
<1>1. new \in EntryType /\ new.status = "draft"
  BY DEF Entry, EntryType, EntriesTyped
<1>2. entries \in Seq(EntryType) /\ stamp \in Nat /\ Len(entries) \in Nat
  BY DEF EntriesTyped
<1>3. CASE outcome = "refused"
  BY <1>2, <1>3 DEF Created, EntriesTyped
<1>4. CASE outcome # "refused"
  <2>1. entries' = Append(entries, new) /\ stamp' = stamp + 1
    BY <1>4 DEF Created
  <2> HIDE DEF new
  <2> QED
    BY <1>1, <1>2, <2>1 DEF EntriesTyped
<1> QED
  BY <1>3, <1>4

\* A document is changed in place: the others stay.
LEMMA RewrittenTyped ==
  ASSUME EntriesTyped, NEW e \in DOMAIN entries, NEW new \in EntryType,
         entries' = [entries EXCEPT ![e] = new], stamp' \in Nat
  PROVE  /\ EntriesTyped'
         /\ Len(entries') = Len(entries)
         /\ \A i \in DOMAIN entries : i # e => entries'[i] = entries[i]
         /\ entries'[e] = new
<1>1. entries \in Seq(EntryType)
  BY DEF EntriesTyped
<1>2. /\ entries' \in Seq(EntryType) /\ Len(entries') = Len(entries)
      /\ \A i \in DOMAIN entries : i # e => entries'[i] = entries[i]
      /\ entries'[e] = new
  BY <1>1, Updated
<1> QED
  BY <1>2 DEF EntriesTyped

LEMMA SubmittedTyped ==
  ASSUME EntriesTyped, NEW e \in DOMAIN entries, NEW outcome, Submitted(e, outcome)
  PROVE  /\ EntriesTyped'
         /\ Len(entries') = Len(entries)
         /\ \A i \in DOMAIN entries : i # e => entries'[i] = entries[i]
<1>1. entries[e] \in EntryType /\ stamp \in Nat
  BY DEF EntriesTyped
<1>2. CASE outcome = "refused"
  BY <1>2 DEF Submitted, EntriesTyped
<1>3. CASE outcome # "refused"
  <2> DEFINE new == [entries[e] EXCEPT !.status = "submitted", !.modified = stamp + 1]
  <2>1. new \in EntryType
    <3> DEFINE mid == [entries[e] EXCEPT !.status = "submitted"]
    <3>1. mid \in EntryType
      BY <1>1 DEF EntryType
    <3>2. new = [mid EXCEPT !.modified = stamp + 1]
      BY Zenon
    <3> HIDE DEF mid, new
    <3> QED
      BY <1>1, <3>1, <3>2 DEF EntryType
  <2>2. entries' = [entries EXCEPT ![e] = new]
    BY <1>3, Zenon DEF Submitted
  <2>3. stamp' \in Nat
    BY <1>1, <1>3 DEF Submitted
  <2> HIDE DEF new
  <2> QED
    BY <2>1, <2>2, <2>3, RewrittenTyped
<1> QED
  BY <1>2, <1>3

LEMMA DeletedTyped ==
  ASSUME EntriesTyped, NEW e \in DOMAIN entries, NEW outcome, Deleted(e, outcome)
  PROVE  /\ EntriesTyped'
         /\ Len(entries') = Len(entries)
         /\ \A i \in DOMAIN entries : i # e => entries'[i] = entries[i]
         /\ entries'[e].status = "submitted" => entries[e].status = "submitted"
<1>1. entries[e] \in EntryType /\ stamp' \in Nat
  BY DEF EntriesTyped, Deleted
<1>2. CASE outcome = "refused"
  BY <1>2 DEF Deleted, EntriesTyped
<1>3. CASE outcome # "refused"
  <2> DEFINE new == [entries[e] EXCEPT !.status = "deleted"]
  <2>1. new \in EntryType /\ new.status = "deleted"
    BY <1>1 DEF EntryType
  <2>2. entries' = [entries EXCEPT ![e] = new]
    BY <1>3, Zenon DEF Deleted
  <2> HIDE DEF new
  <2> QED
    BY <1>1, <2>1, <2>2, RewrittenTyped
<1> QED
  BY <1>2, <1>3

LEMMA DeskEditTyped ==
  ASSUME EntriesTyped, NEW e \in DOMAIN entries, DeskEdit(e)
  PROVE  /\ EntriesTyped'
         /\ Len(entries') = Len(entries)
         /\ \A i \in DOMAIN entries :
              entries'[i].status = "submitted" => entries[i].status = "submitted"
<1>1. entries[e] \in EntryType /\ stamp \in Nat
  BY DEF EntriesTyped
<1> DEFINE new == [entries[e] EXCEPT !.modified = stamp + 1]
<1>2. new \in EntryType /\ new.status = entries[e].status
  BY <1>1 DEF EntryType
<1>3. entries' = [entries EXCEPT ![e] = new]
  BY Zenon DEF DeskEdit
<1>4. stamp' \in Nat
  BY <1>1 DEF DeskEdit
<1> HIDE DEF new
<1> QED
  BY <1>2, <1>3, <1>4, RewrittenTyped

-----------------------------------------------------------------------------
(***************************************************************************)
(* A job begins.                                                           *)
(***************************************************************************)

\* What is on record when a job has begun, with the number of its first label
\* or without one.
Starts(job, step) ==
  /\ jobs' = Append(jobs, job) /\ erp' = Append(erp, step)
  /\ print' = Append(print, "open") /\ printed' = Append(printed, {})
  /\ attempt' = Append(attempt, 0) /\ draft' = Append(draft, 0)
  /\ late' = Append(late, "none") /\ lateCopy' = Append(lateCopy, NoBatch)
  /\ UNCHANGED <<labels, batches, stopping, halted, entries, stamp>>

FirstSteps == {"create", "number"}

\* What a request has to be for a job to begin.
Proper(job) ==
  /\ job.kind = "receipt" => Len(job.lines) = 1
  /\ job.kind # "receipt" => job.source \in Source /\ TotalQty(job.lines) = job.source.qty

\* A job of an owner begins.
JobBegins(owner) ==
  \E job \in Job, step \in FirstSteps :
    job.owner = owner /\ Proper(job) /\ Starts(job, step) /\ EpcTyped'

LEMMA SameWeight ==
  ASSUME NEW job, NEW old, SameWork(job, old)
  PROVE  TotalQty(job.lines) = TotalQty(old.lines)
<1>1. [i \in DOMAIN job.lines |-> job.lines[i].qty] = [i \in DOMAIN old.lines |-> old.lines[i].qty]
  BY DEF SameWork
<1> QED
  BY <1>1 DEF TotalQty

LEMMA BeginStarts ==
  ASSUME Typed, NEW job \in Job, Proper(job), Begin(job)
  PROVE  JobBegins(job.owner)
<1>1. CASE jobs' = Append(jobs, job) /\ erp' = Append(erp, "create") /\ UNCHANGED epcVars
  <2>1. EpcTyped'
    BY <1>1 DEF Begin, Typed, EpcTyped, epcVars
  <2>2. Starts(job, "create")
    BY <1>1 DEF Begin, Starts
  <2> QED
    BY <2>1, <2>2 DEF JobBegins, FirstSteps
<1>2. ASSUME NEW i \in NextUnnumbered(job), NEW now \in 1 .. MaxClock,
             Draws(job.kind, now, Len(jobs) + 1, i),
             jobs' = Append(jobs, NumberedBy(job, i, now)),
             erp' = Append(erp, AfterNumber(job, i))
      PROVE  JobBegins(job.owner)
  <2> DEFINE new == NumberedBy(job, i, now)
             step == AfterNumber(job, i)
  <2>1. job.kind \in Kinds /\ i \in Unnumbered(job)
    BY DEF Job, NextUnnumbered
  <2>2. new \in Job /\ SameWork(new, job)
    BY <2>1, NumberedTyped DEF Typed
  <2>3. EpcTyped'
    BY <1>2, <2>1, DrawsTyped DEF Begin, Typed
  <2>4. step \in FirstSteps
    BY DEF AfterNumber, FirstSteps
  <2> HIDE DEF new, step
  <2>5. Starts(new, step)
    BY <1>2 DEF Begin, Starts, new, step
  <2>6. Proper(new) /\ new.owner = job.owner
    BY <2>2, SameWeight DEF SameWork, Proper
  <2> QED
    BY <2>2, <2>3, <2>4, <2>5, <2>6 DEF JobBegins
<1> QED
  BY <1>1, <1>2 DEF Begin

\* What is said of all jobs is said of the new one and of those before it.
LEMMA BeginAppends ==
  ASSUME Typed, NEW job \in Job, NEW step, Starts(job, step)
  PROVE  /\ Len(jobs') = Len(jobs) + 1 /\ Jobs' = 1 .. Len(jobs) + 1
         /\ jobs' \in Seq(Job)
         /\ jobs'[Len(jobs) + 1] = job
         /\ \A j \in Jobs : jobs'[j] = jobs[j] /\ j # Len(jobs) + 1
         /\ \A j \in Jobs' : j \in Jobs \/ j = Len(jobs) + 1
<1>1. jobs \in Seq(Job) /\ Len(jobs) \in Nat /\ Jobs = 1 .. Len(jobs)
  BY JobsAreNumbered DEF Typed, JobsTyped
<1>2. jobs' = Append(jobs, job)
  BY DEF Starts
<1>3. jobs' \in Seq(Job) /\ Len(jobs') = Len(jobs) + 1
  BY <1>1, <1>2
<1> QED
  BY <1>1, <1>2, <1>3 DEF Jobs

\* The lists of the jobs grow by what a job begins with.
LEMMA BeginGrows ==
  ASSUME Typed, NEW job \in Job, NEW step \in FirstSteps, Starts(job, step)
  PROVE  /\ print' \in [Jobs' -> PrintStates] /\ Grown(Len(jobs), print, print', "open")
         /\ printed' \in [Jobs' -> SUBSET Nat] /\ Grown(Len(jobs), printed, printed', {})
         /\ erp' \in [Jobs' -> ErpStates] /\ Grown(Len(jobs), erp, erp', step)
         /\ attempt' \in [Jobs' -> 0 .. 1]
         /\ draft' \in [Jobs' -> 0 .. Len(entries')] /\ Grown(Len(jobs), draft, draft', 0)
         /\ late' \in [Jobs' -> LateStates] /\ Grown(Len(jobs), late, late', "none")
         /\ lateCopy' \in [Jobs' -> Batch \union {NoBatch}]
         /\ Grown(Len(jobs), lateCopy, lateCopy', NoBatch)
<1> DEFINE n == Len(jobs)
<1>1. n \in Nat /\ Jobs = 1 .. n /\ Jobs' = 1 .. n + 1
  BY BeginAppends, JobsAreNumbered
<1> HIDE DEF n
<1>2. print' \in [Jobs' -> PrintStates] /\ Grown(n, print, print', "open")
  <2>1. print \in [1 .. n -> PrintStates] /\ "open" \in PrintStates /\ print' = Append(print, "open")
    BY <1>1 DEF Typed, JobsTyped, Starts, PrintStates
  <2> QED
    BY <1>1, <2>1, Appended
<1>3. printed' \in [Jobs' -> SUBSET Nat] /\ Grown(n, printed, printed', {})
  <2>1. printed \in [1 .. n -> SUBSET Nat] /\ {} \in SUBSET Nat /\ printed' = Append(printed, {})
    BY <1>1 DEF Typed, JobsTyped, Starts
  <2> QED
    BY <1>1, <2>1, Appended
<1>4. erp' \in [Jobs' -> ErpStates] /\ Grown(n, erp, erp', step)
  <2>1. erp \in [1 .. n -> ErpStates] /\ step \in ErpStates /\ erp' = Append(erp, step)
    BY <1>1 DEF Typed, JobsTyped, Starts, FirstSteps, ErpStates
  <2> QED
    BY <1>1, <2>1, Appended
<1>5. attempt' \in [Jobs' -> 0 .. 1]
  <2>1. attempt \in [1 .. n -> 0 .. 1] /\ 0 \in 0 .. 1 /\ attempt' = Append(attempt, 0)
    BY <1>1 DEF Typed, JobsTyped, Starts
  <2> QED
    BY <1>1, <2>1, Appended
<1>6. draft' \in [Jobs' -> 0 .. Len(entries')] /\ Grown(n, draft, draft', 0)
  <2> DEFINE Range0 == 0 .. Len(entries)
  <2>1. entries' = entries /\ 0 \in Range0
    BY DEF Starts, Typed, EntriesTyped
  <2>2. draft \in [1 .. n -> Range0] /\ draft' = Append(draft, 0)
    BY <1>1 DEF Typed, JobsTyped, Starts
  <2>3. draft' \in [Jobs' -> Range0] /\ Grown(n, draft, draft', 0)
    <3> HIDE DEF Range0
    <3> QED
      BY <1>1, <2>1, <2>2, Appended
  <2> QED
    BY <2>1, <2>3
<1>7. late' \in [Jobs' -> LateStates] /\ Grown(n, late, late', "none")
  <2>1. late \in [1 .. n -> LateStates] /\ "none" \in LateStates /\ late' = Append(late, "none")
    BY <1>1 DEF Typed, BatchesTyped, Starts, LateStates
  <2> QED
    BY <1>1, <2>1, Appended
<1>8. lateCopy' \in [Jobs' -> Batch \union {NoBatch}] /\ Grown(n, lateCopy, lateCopy', NoBatch)
  <2> DEFINE Copies == Batch \union {NoBatch}
  <2>1. lateCopy \in [1 .. n -> Copies] /\ NoBatch \in Copies /\ lateCopy' = Append(lateCopy, NoBatch)
    BY <1>1 DEF Typed, BatchesTyped, Starts
  <2> HIDE DEF Copies
  <2>2. lateCopy' \in [Jobs' -> Copies] /\ Grown(n, lateCopy, lateCopy', NoBatch)
    BY <1>1, <2>1, Appended
  <2> QED
    BY <2>2 DEF Copies
<1> QED
  BY <1>2, <1>3, <1>4, <1>5, <1>6, <1>7, <1>8 DEF n

LEMMA BeginTyped ==
  ASSUME Typed, NEW job \in Job, NEW step \in FirstSteps, Proper(job), Starts(job, step), EpcTyped'
  PROVE  Typed'
<1> DEFINE n == Len(jobs)
<1>1. /\ n \in Nat /\ Jobs = 1 .. n /\ Jobs' = 1 .. n + 1
      /\ jobs' \in Seq(Job) /\ Grown(n, jobs, jobs', job)
  BY BeginAppends, JobsAreNumbered DEF Grown
<1>2. EntriesTyped'
  BY DEF Typed, EntriesTyped, Starts, erpVars
<1> HIDE DEF n
<1>3. /\ print' \in [Jobs' -> PrintStates]
      /\ attempt' \in [Jobs' -> 0 .. 1]
  BY BeginGrows
<1>4. printed' \in [Jobs' -> SUBSET Nat] /\ Grown(n, printed, printed', {})
  BY BeginGrows DEF n
<1>5. erp' \in [Jobs' -> ErpStates] /\ Grown(n, erp, erp', step)
  BY BeginGrows DEF n
<1>6. draft' \in [Jobs' -> 0 .. Len(entries')] /\ Grown(n, draft, draft', 0)
  BY BeginGrows DEF n
<1>7. late' \in [Jobs' -> LateStates] /\ Grown(n, late, late', "none")
  BY BeginGrows DEF n
<1>8. lateCopy' \in [Jobs' -> Batch \union {NoBatch}] /\ Grown(n, lateCopy, lateCopy', NoBatch)
  BY BeginGrows DEF n
<1>9. \A j \in Jobs' : \/ j \in Jobs /\ j \in 1 .. n
                       \/ j = n + 1 /\ jobs'[j] = job
  BY <1>1 DEF Grown
<1>10. JobsTyped'
  <2>1. ASSUME NEW j \in Jobs'
        PROVE  /\ jobs'[j].kind = "receipt" => Len(jobs'[j].lines) = 1
               /\ jobs'[j].kind # "receipt" => jobs'[j].source \in Source
    <3>1. CASE j \in Jobs
      BY <1>1, <3>1 DEF Typed, JobsTyped, IsReceipt, Grown
    <3> QED
      BY <1>9, <3>1 DEF Proper
  <2>2. ASSUME NEW j \in Jobs'
        PROVE  printed'[j] \subseteq {i \in DOMAIN jobs'[j].lines : jobs'[j].lines[i].qr}
    <3>1. CASE j \in Jobs /\ j \in 1 .. n
      <4>1. printed'[j] = printed[j] /\ jobs'[j] = jobs[j]
        BY <1>1, <1>4, <3>1 DEF Grown
      <4> QED
        BY <3>1, <4>1 DEF Typed, JobsTyped, Printable
    <3>2. CASE j = n + 1
      BY <1>4, <3>2 DEF Grown
    <3> QED
      BY <1>9, <3>1, <3>2
  <2>3. ASSUME NEW j \in Jobs', erp'[j] \in Drafted PROVE draft'[j] # 0
    <3>1. CASE j \in Jobs /\ j \in 1 .. n
      <4>1. erp'[j] = erp[j] /\ draft'[j] = draft[j]
        BY <1>5, <1>6, <3>1 DEF Grown
      <4> QED
        BY <2>3, <3>1, <4>1 DEF Typed, JobsTyped
    <3>2. CASE j = n + 1
      BY <1>5, <2>3, <3>2 DEF Drafted, FirstSteps, Grown
    <3> QED
      BY <1>9, <3>1, <3>2
  <2> QED
    BY <1>1, <1>3, <1>4, <1>5, <1>6, <2>1, <2>2, <2>3 DEF JobsTyped, Printable, IsReceipt
<1>11. BatchesTyped'
  <2>1. \A j \in Jobs' : late'[j] \in {"get", "put"} => jobs'[j].owner \in Owners
    BY <1>1, <1>7, <1>9 DEF Typed, BatchesTyped, Grown
  <2>2. \A j \in Jobs' : late'[j] = "put" => lateCopy'[j] # NoBatch
    BY <1>1, <1>7, <1>8 DEF Typed, BatchesTyped, Grown
  <2>3. UNCHANGED <<batches, stopping, halted>>
    BY DEF Starts
  <2> QED
    BY <1>7, <1>8, <2>1, <2>2, <2>3 DEF Typed, BatchesTyped
<1> QED
  BY <1>2, <1>10, <1>11 DEF Typed

LEMMA ReceiptBegins ==
  ASSUME Typed, NEW request \in ReceiptRequest, NEW owner \in Owners \union {NoOwner},
         BeginReceipt(request, owner)
  PROVE  JobBegins(owner)
<1> DEFINE line == [item |-> request.item, warehouse |-> request.warehouse,
                    qty |-> NetOf(request), qr |-> TRUE, epc |-> NoBarcode]
           job == [kind |-> "receipt", owner |-> owner, source |-> NoBatch, lines |-> <<line>>]
<1>1. Begin(job)
  BY DEF BeginReceipt
<1>2. request.item \in Items /\ request.warehouse \in Warehouses /\ NetOf(request) \in Nat
  BY DEF BeginReceipt, ValidMaterial, ReceiptRequest, ItemName, WarehouseName, NetOf, TareOf
<1>3. line \in Outputs
  BY <1>2, Zenon DEF Outputs
<1> HIDE DEF line
<1>4. job \in Job /\ Proper(job) /\ job.owner = owner
  BY <1>3 DEF Job, Kinds, Proper
<1> HIDE DEF job
<1> QED
  BY <1>1, <1>4, BeginStarts

LEMMA SplitBegins ==
  ASSUME Typed, Split
  PROVE  JobBegins(NoOwner)
<1>1. PICK barcode \in {RollBarcode} \union labels, outputs \in SplitRequests :
        \E row \in SourceRows(barcode) :
          LET source == SourceOf(row)
          IN  /\ ValidSplit(outputs, source)
              /\ Begin([kind |-> "split", owner |-> NoOwner, source |-> source,
                        lines |-> SplitLines(outputs, source)])
  BY DEF Split
<1>2. PICK row \in SourceRows(barcode) :
        LET source == SourceOf(row)
        IN  /\ ValidSplit(outputs, source)
            /\ Begin([kind |-> "split", owner |-> NoOwner, source |-> source,
                      lines |-> SplitLines(outputs, source)])
  BY <1>1
<1> DEFINE source == SourceOf(row)
           lines == SplitLines(outputs, source)
           job == [kind |-> "split", owner |-> NoOwner, source |-> source, lines |-> lines]
<1>3. source \in Source
  BY SourceTyped DEF Typed
<1>4. lines \in Seq(Outputs) /\ TotalQty(lines) = source.qty
  BY <1>2, <1>3, SplitLinesTyped, SplitWeighs
<1>5. Begin(job)
  BY <1>2
<1> HIDE DEF lines, source
<1>6. job \in Job /\ Proper(job) /\ job.owner = NoOwner
  BY <1>3, <1>4 DEF Job, Kinds, Proper
<1> HIDE DEF job
<1> QED
  BY <1>5, <1>6, BeginStarts

LEMMA RequestBegins ==
  ASSUME Typed, PrintReceipt \/ Split
  PROVE  JobBegins(NoOwner)
BY RequestsAssumption, ReceiptBegins, SplitBegins DEF PrintReceipt

LEMMA BatchBegins ==
  ASSUME Typed, NEW o \in Owners, PrintInBatch(o)
  PROVE  JobBegins(o) /\ MayPrintIn(o)
<1>1. PICK gross \in Grosses : BeginReceipt(InBatch(batches[o], gross), o)
  BY DEF PrintInBatch
<1>2. batches[o] \in Batch /\ MayPrintIn(o)
  BY DEF PrintInBatch, MayPrintIn, Typed, BatchesTyped
<1>3. InBatch(batches[o], gross) \in ReceiptRequest
  BY <1>2, RequestsAssumption DEF InBatch, ReceiptRequest, Batch
<1> QED
  BY <1>1, <1>2, <1>3, ReceiptBegins

-----------------------------------------------------------------------------
(***************************************************************************)
(* The steps of a job.                                                     *)
(***************************************************************************)

\* An error is reported where there is a batch to report it to.
LEMMA ReportTyped ==
  ASSUME Typed, NEW j \in Jobs, UNCHANGED late \/ Report(j),
         UNCHANGED <<jobs, batches, stopping, lateCopy, halted>>
  PROVE  BatchesTyped'
<1>1. /\ late \in [Jobs -> LateStates] /\ Jobs' = Jobs
      /\ \A k \in Jobs : late[k] \in {"get", "put"} => jobs[k].owner \in Owners
      /\ \A k \in Jobs : late[k] = "put" => lateCopy[k] # NoBatch
  BY DEF Typed, BatchesTyped, Jobs
<1>2. CASE UNCHANGED late
  BY <1>1, <1>2 DEF Typed, BatchesTyped
<1>3. CASE late' = [late EXCEPT ![j] = "get"] /\ jobs[j].owner # NoOwner
  <2>1. jobs[j].owner \in Owners
    BY <1>3, JobTyped
  <2>2. late' \in [Jobs -> LateStates]
    BY <1>1, <1>3 DEF LateStates
  <2>3. \A k \in Jobs : late'[k] = IF k = j THEN "get" ELSE late[k]
    BY <1>1, <1>3
  <2> QED
    BY <1>1, <2>1, <2>2, <2>3 DEF Typed, BatchesTyped
<1> QED
  BY <1>2, <1>3 DEF Report

LEMMA EndsTyped ==
  ASSUME Typed, NEW j \in Jobs, NEW step \in ErpStates, NEW outcome,
         EndsWith(j, step, outcome),
         UNCHANGED <<jobs, batches, stopping, lateCopy, halted>>
  PROVE  /\ BatchesTyped'
         /\ erp' \in [Jobs -> ErpStates]
         /\ \A k \in Jobs : k # j => erp'[k] = erp[k]
         /\ outcome = "ok" => erp'[j] = step
         /\ outcome # "ok" => erp'[j] = "failed"
<1>1. BatchesTyped'
  BY ReportTyped DEF EndsWith
<1>2. erp \in [Jobs -> ErpStates]
  BY DEF Typed, JobsTyped
<1>3. erp' = [erp EXCEPT ![j] = IF outcome = "ok" THEN step ELSE "failed"]
  BY DEF EndsWith
<1> QED
  BY <1>1, <1>2, <1>3 DEF ErpStates

LEMMA FaultyTyped ==
  ASSUME Typed, NEW outcome, Faulty(outcome), UNCHANGED epcVars
  PROVE  EpcTyped'
BY PrintingAssumption DEF Typed, EpcTyped, Faulty, epcVars

\* The jobs themselves, their printer and their attempts are left alone.
LEMMA JobsKept ==
  ASSUME Typed, UNCHANGED <<jobs, print, printed, attempt>>,
         erp' \in [Jobs -> ErpStates], draft' \in [Jobs -> 0 .. Len(entries')],
         \A j \in Jobs : erp'[j] \in Drafted => draft'[j] # 0
  PROVE  JobsTyped'
<1>1. Jobs' = Jobs /\ \A j : (IsReceipt(j)' <=> IsReceipt(j)) /\ Printable(j)' = Printable(j)
  BY DEF Jobs, IsReceipt, Printable
<1> QED
  BY <1>1 DEF Typed, JobsTyped

LEMMA CreateDraftTyped ==
  ASSUME Typed, NEW j \in Jobs, CreateDraft(j)
  PROVE  Typed'
<1>1. PICK outcome \in Outcomes :
        /\ Faulty(outcome)
        /\ Created(jobs[j].kind, LinesOf(j), outcome)
        /\ EndsWith(j, AfterCreate(j), outcome)
        /\ draft' = [draft EXCEPT ![j] = IF outcome = "ok" THEN Len(entries) + 1 ELSE 0]
  BY DEF CreateDraft
<1>2. jobs[j].kind \in Kinds
  BY JobTyped
<1>3. /\ EntriesTyped' /\ Len(entries) <= Len(entries')
      /\ outcome = "ok" => Len(entries') = Len(entries) + 1
  BY <1>1, <1>2, LinesOfTyped, CreatedTyped DEF Typed
<1>4. AfterCreate(j) \in ErpStates
  BY DEF AfterCreate, ErpStates
<1>5. /\ BatchesTyped' /\ erp' \in [Jobs -> ErpStates]
      /\ \A k \in Jobs : k # j => erp'[k] = erp[k]
      /\ outcome # "ok" => erp'[j] = "failed"
  BY <1>1, <1>4, EndsTyped DEF CreateDraft
<1>6. draft \in [Jobs -> 0 .. Len(entries)] /\ Len(entries) \in Nat /\ Len(entries') \in Nat
  BY <1>3 DEF Typed, JobsTyped, EntriesTyped
<1>7. draft' \in [Jobs -> 0 .. Len(entries')]
  BY <1>1, <1>3, <1>6
<1>8. \A k \in Jobs : erp'[k] \in Drafted => draft'[k] # 0
  <2>1. \A k \in Jobs : erp[k] \in Drafted => draft[k] # 0
    BY DEF Typed, JobsTyped
  <2>2. "failed" \notin Drafted
    BY DEF Drafted
  <2> QED
    BY <1>1, <1>5, <1>6, <2>1, <2>2
<1> QED
  BY <1>1, <1>3, <1>5, <1>7, <1>8, FaultyTyped, JobsKept DEF CreateDraft, Typed

\* A request about the draft of a job, and where the job goes from there.
LEMMA DraftStepTyped ==
  ASSUME Typed, NEW j \in Jobs, NEW outcome, NEW step \in ErpStates,
         erp[j] \in Drafted, Faulty(outcome), EndsWith(j, step, outcome),
         EntriesTyped', Len(entries') = Len(entries),
         UNCHANGED <<jobs, print, printed, attempt, draft, epcVars, batches, stopping, lateCopy, halted>>
  PROVE  Typed'
<1>1. /\ BatchesTyped' /\ erp' \in [Jobs -> ErpStates]
      /\ \A k \in Jobs : k # j => erp'[k] = erp[k]
  BY EndsTyped
<1>2. /\ draft \in [Jobs -> 0 .. Len(entries)]
      /\ \A k \in Jobs : erp[k] \in Drafted => draft[k] # 0
  BY DEF Typed, JobsTyped
<1>3. \A k \in Jobs : erp'[k] \in Drafted => draft'[k] # 0
  BY <1>1, <1>2
<1>4. draft' \in [Jobs -> 0 .. Len(entries')]
  BY <1>2
<1> QED
  BY <1>1, <1>3, <1>4, FaultyTyped, JobsKept DEF Typed

LEMMA DraftIsEntry ==
  ASSUME Typed, NEW j \in Jobs, erp[j] \in Drafted
  PROVE  draft[j] \in DOMAIN entries
<1>1. draft[j] \in 0 .. Len(entries) /\ draft[j] # 0
  BY DEF Typed, JobsTyped
<1>2. Len(entries) \in Nat /\ DOMAIN entries = 1 .. Len(entries)
  BY DEF Typed, EntriesTyped
<1> QED
  BY <1>1, <1>2

\* What a job asks of ERPNext, its numbers drawn.
ErpRequest(j) ==
  \/ CreateDraft(j) \/ LearnPrint(j) \/ Fetch(j) \/ Post(j) \/ PostMismatch(j) \/ DeleteDraft(j)

\* The next label of a job gets its number.
LEMMA DrawSteps ==
  ASSUME Typed, NEW j \in Jobs, Draw(j)
  PROVE  /\ erp[j] = "number" /\ EpcTyped'
         /\ \E new \in Job, step \in FirstSteps :
              /\ SameWork(new, jobs[j]) /\ jobs' = [jobs EXCEPT ![j] = new]
              /\ erp' = [erp EXCEPT ![j] = step]
         /\ UNCHANGED <<print, printed, attempt, draft, labels, batchVars, erpVars, faults>>
<1>1. PICK i \in NextUnnumbered(jobs[j]), now \in 1 .. MaxClock :
        /\ Draws(jobs[j].kind, now, j, i)
        /\ jobs' = [jobs EXCEPT ![j] = NumberedBy(jobs[j], i, now)]
        /\ erp' = [erp EXCEPT ![j] = AfterNumber(jobs[j], i)]
  BY DEF Draw
<1> DEFINE new == NumberedBy(jobs[j], i, now)
           step == AfterNumber(jobs[j], i)
<1>2. jobs[j] \in Job /\ i \in Unnumbered(jobs[j]) /\ jobs[j].kind \in Kinds
  BY JobTyped DEF Typed, JobsTyped, Jobs, NextUnnumbered
<1>3. new \in Job /\ SameWork(new, jobs[j])
  BY <1>2, NumberedTyped DEF Typed
<1>4. EpcTyped'
  BY <1>1, <1>2, DrawsTyped DEF Draw, Typed
<1>5. step \in FirstSteps
  BY DEF AfterNumber, FirstSteps
<1> HIDE DEF new, step
<1> QED
  BY <1>1, <1>3, <1>4, <1>5 DEF Draw, new, step

LEMMA DrawTyped ==
  ASSUME Typed, NEW j \in Jobs, Draw(j)
  PROVE  Typed'
<1>1. PICK new \in Job, step \in FirstSteps :
        /\ SameWork(new, jobs[j]) /\ jobs' = [jobs EXCEPT ![j] = new]
        /\ erp' = [erp EXCEPT ![j] = step]
  BY DrawSteps
<1>2. /\ EpcTyped'
      /\ UNCHANGED <<print, printed, attempt, draft, batchVars, erpVars>>
  BY DrawSteps
<1>3. jobs \in Seq(Job) /\ erp \in [Jobs -> ErpStates]
  BY DEF Typed, JobsTyped
<1>4. /\ jobs' \in Seq(Job) /\ Jobs' = Jobs /\ jobs'[j] = new
      /\ \A k \in Jobs : k # j => jobs'[k] = jobs[k]
  BY <1>1, <1>3, Updated DEF Jobs
<1>5. \A k \in Jobs : /\ IsReceipt(k)' <=> IsReceipt(k)
                      /\ jobs'[k].owner = jobs[k].owner /\ jobs'[k].source = jobs[k].source
                      /\ Len(jobs'[k].lines) = Len(jobs[k].lines)
                      /\ Printable(k)' = Printable(k)
  BY <1>1, <1>4 DEF SameWork, IsReceipt, Printable
<1>6. /\ erp' \in [Jobs -> ErpStates] /\ \A k \in Jobs : k # j => erp'[k] = erp[k]
      /\ erp'[j] \notin Drafted
  BY <1>1, <1>3 DEF FirstSteps, ErpStates, Drafted
<1>7. JobsTyped'
  BY <1>2, <1>4, <1>5, <1>6 DEF Typed, JobsTyped, erpVars
<1>8. EntriesTyped' /\ BatchesTyped'
  BY <1>2, <1>4, <1>5 DEF Typed, EntriesTyped, BatchesTyped, erpVars, batchVars
<1> QED
  BY <1>2, <1>7, <1>8 DEF Typed

LEMMA ErpStepTyped ==
  ASSUME Typed, NEW j \in Jobs, ErpStep(j)
  PROVE  Typed'
<1>1. /\ erp \in [Jobs -> ErpStates] /\ draft \in [Jobs -> 0 .. Len(entries)]
      /\ \A k \in Jobs : erp[k] \in Drafted => draft[k] # 0
  BY DEF Typed, JobsTyped
<1>2. CASE CreateDraft(j)
  BY <1>2, CreateDraftTyped
<1>3. CASE LearnPrint(j)
  <2>1. erp' = [erp EXCEPT ![j] = IF print[j] = "yes" THEN "fetch" ELSE "delete"] /\ erp[j] = "wait"
    BY <1>3 DEF LearnPrint
  <2>2. erp' \in [Jobs -> ErpStates]
    BY <1>1, <2>1 DEF ErpStates
  <2>3. \A k \in Jobs : erp'[k] \in Drafted => draft'[k] # 0
    BY <1>1, <1>3, <2>1 DEF LearnPrint, Drafted
  <2>4. UNCHANGED <<jobs, print, printed, attempt, draft, epcVars, batchVars, erpVars, faults>>
    BY <1>3 DEF LearnPrint
  <2>5. JobsTyped'
    BY <1>1, <2>2, <2>3, <2>4, JobsKept DEF erpVars
  <2>6. EntriesTyped' /\ EpcTyped'
    BY <2>4 DEF Typed, EntriesTyped, EpcTyped, erpVars, epcVars
  <2>7. BatchesTyped'
    BY <2>4, ReportTyped DEF batchVars
  <2> QED
    BY <2>5, <2>6, <2>7 DEF Typed
<1>4. CASE Fetch(j)
  <2>1. PICK outcome \in Outcomes : Faulty(outcome) /\ EndsWith(j, "post", outcome)
    BY <1>4 DEF Fetch
  <2>2. "post" \in ErpStates /\ erp[j] \in Drafted
    BY <1>4 DEF Fetch, ErpStates, Drafted
  <2>3. /\ UNCHANGED <<jobs, print, printed, attempt, draft, epcVars, batches, stopping, lateCopy, halted>>
        /\ UNCHANGED <<entries, stamp>>
    BY <1>4 DEF Fetch, erpVars
  <2>4. EntriesTyped' /\ Len(entries') = Len(entries)
    BY <2>3 DEF Typed, EntriesTyped
  <2> QED
    BY <2>1, <2>2, <2>3, <2>4, DraftStepTyped
<1>5. CASE Post(j)
  <2>1. PICK outcome \in Outcomes :
          Faulty(outcome) /\ Submitted(draft[j], outcome) /\ EndsWith(j, "done", outcome)
    BY <1>5 DEF Post
  <2>2. "done" \in ErpStates /\ erp[j] \in Drafted
    BY <1>5 DEF Post, ErpStates, Drafted
  <2>3. UNCHANGED <<jobs, print, printed, attempt, draft, epcVars, batches, stopping, lateCopy, halted>>
    BY <1>5 DEF Post
  <2>4. EntriesTyped' /\ Len(entries') = Len(entries)
    BY <2>1, <2>2, DraftIsEntry, SubmittedTyped DEF Typed
  <2> QED
    BY <2>1, <2>2, <2>3, <2>4, DraftStepTyped
<1>6. CASE PostMismatch(j)
  <2>1. /\ erp[j] = "post" /\ attempt' = [attempt EXCEPT ![j] = 1]
        /\ \E step \in {"fetch", "failed"} : erp' = [erp EXCEPT ![j] = step]
        /\ UNCHANGED late \/ Report(j)
    BY <1>6 DEF PostMismatch
  <2>2. /\ UNCHANGED <<jobs, print, printed, draft, epcVars, batches, stopping, lateCopy, halted, faults>>
        /\ UNCHANGED <<entries, stamp>>
    BY <1>6 DEF PostMismatch, erpVars
  <2>3. erp' \in [Jobs -> ErpStates] /\ \A k \in Jobs : erp'[k] \in Drafted => draft'[k] # 0
    BY <1>1, <2>1, <2>2 DEF ErpStates, Drafted
  <2>4. attempt' \in [Jobs -> 0 .. 1]
    BY <2>1 DEF Typed, JobsTyped
  <2>5. Jobs' = Jobs /\ \A k : (IsReceipt(k)' <=> IsReceipt(k)) /\ Printable(k)' = Printable(k)
    BY <2>2 DEF Jobs, IsReceipt, Printable
  <2>6. JobsTyped'
    BY <2>2, <2>3, <2>4, <2>5 DEF Typed, JobsTyped
  <2>7. EntriesTyped' /\ EpcTyped'
    BY <2>2 DEF Typed, EntriesTyped, EpcTyped, epcVars
  <2>8. BatchesTyped'
    BY <2>1, <2>2, ReportTyped
  <2> QED
    BY <2>6, <2>7, <2>8 DEF Typed
<1>7. CASE DeleteDraft(j)
  <2>1. PICK outcome \in Outcomes :
          Faulty(outcome) /\ Deleted(draft[j], outcome) /\ EndsWith(j, "done", outcome)
    BY <1>7 DEF DeleteDraft
  <2>2. "done" \in ErpStates /\ erp[j] \in Drafted
    BY <1>7 DEF DeleteDraft, ErpStates, Drafted
  <2>3. UNCHANGED <<jobs, print, printed, attempt, draft, epcVars, batches, stopping, lateCopy, halted>>
    BY <1>7 DEF DeleteDraft
  <2>4. EntriesTyped' /\ Len(entries') = Len(entries)
    BY <2>1, <2>2, DraftIsEntry, DeletedTyped DEF Typed
  <2> QED
    BY <2>1, <2>2, <2>3, <2>4, DraftStepTyped
<1> QED
  BY <1>2, <1>3, <1>4, <1>5, <1>6, <1>7, DrawTyped DEF ErpStep

\* The labels of a job are confirmed one by one, or its print ends.
LEMMA PrinterStepTyped ==
  ASSUME Typed, NEW j \in Jobs, PrinterStep(j)
  PROVE  Typed'
<1>1. /\ print \in [Jobs -> PrintStates] /\ printed \in [Jobs -> SUBSET Nat]
      /\ erp \in [Jobs -> ErpStates] /\ draft \in [Jobs -> 0 .. Len(entries)]
      /\ \A k \in Jobs : erp[k] \in Drafted => draft[k] # 0
      /\ \A k \in Jobs : printed[k] \subseteq Printable(k)
  BY DEF Typed, JobsTyped
<1>2. UNCHANGED <<jobs, attempt, draft, epcVars, batchVars, erpVars, faults>>
  BY DEF PrinterStep, PrintDone, PrintFails
<1>3. PICK x \in PrintStates, step \in {erp[j], "fetch", "delete"}, done \in SUBSET Printable(j) :
        /\ print' = [print EXCEPT ![j] = x]
        /\ erp' = [erp EXCEPT ![j] = step]
        /\ printed' = [printed EXCEPT ![j] = done]
        /\ step # erp[j] => erp[j] = "print"
  <2>1. printed = [printed EXCEPT ![j] = printed[j]] /\ erp = [erp EXCEPT ![j] = erp[j]]
    BY <1>1
  <2>2. print[j] \in PrintStates /\ {"yes", "no"} \subseteq PrintStates
    BY <1>1 DEF PrintStates
  <2>3. CASE PrintDone(j)
    <3>1. PICK i \in AtHead(j) :
            LET done == printed[j] \union {i}
                last == Printable(j) \subseteq done
            IN  /\ printed' = [printed EXCEPT ![j] = done]
                /\ print' = [print EXCEPT ![j] = IF last THEN "yes" ELSE @]
                /\ erp' = [erp EXCEPT ![j] = IF last /\ ~IsReceipt(j) THEN "fetch" ELSE @]
      BY <2>3 DEF PrintDone
    <3> DEFINE done == printed[j] \union {i}
               last == Printable(j) \subseteq done
               x == IF last THEN "yes" ELSE print[j]
               step == IF last /\ ~IsReceipt(j) THEN "fetch" ELSE erp[j]
    <3>2. done \in SUBSET Printable(j)
      BY <1>1 DEF AtHead
    <3>3. x \in PrintStates /\ step \in {erp[j], "fetch", "delete"}
      BY <2>2
    <3>4. step # erp[j] => erp[j] = "print"
      BY <2>3 DEF PrintDone, AtPrinter
    <3>5. /\ print' = [print EXCEPT ![j] = x] /\ erp' = [erp EXCEPT ![j] = step]
          /\ printed' = [printed EXCEPT ![j] = done]
      BY <3>1, Zenon
    <3> HIDE DEF done, x, step
    <3> QED
      BY <3>2, <3>3, <3>4, <3>5
  <2>4. CASE PrintFails(j)
    <3> DEFINE step == IF IsReceipt(j) THEN erp[j] ELSE "delete"
    <3>1. print' = [print EXCEPT ![j] = "no"] /\ erp' = [erp EXCEPT ![j] = step] /\ printed' = printed
      BY <2>4, Zenon DEF PrintFails
    <3>2. step \in {erp[j], "fetch", "delete"} /\ (step # erp[j] => erp[j] = "print")
      BY <2>4 DEF PrintFails, AtPrinter
    <3>3. printed[j] \in SUBSET Printable(j)
      BY <1>1
    <3> HIDE DEF step
    <3> QED
      BY <2>1, <2>2, <3>1, <3>2, <3>3
  <2> QED
    BY <2>3, <2>4 DEF PrinterStep
<1>4. /\ print' \in [Jobs -> PrintStates]
      /\ erp' \in [Jobs -> ErpStates]
      /\ \A k \in Jobs : erp'[k] \in Drafted => draft'[k] # 0
  BY <1>1, <1>2, <1>3 DEF ErpStates, Drafted
<1>5. Printable(j) \in SUBSET Nat
  <2>1. jobs[j].lines \in Seq(Outputs)
    BY JobTyped
  <2> QED
    BY <2>1 DEF Printable
<1>6. /\ printed' \in [Jobs -> SUBSET Nat]
      /\ \A k \in Jobs : printed'[k] \subseteq Printable(k)
  BY <1>1, <1>3, <1>5
<1>7. Jobs' = Jobs /\ \A k : (IsReceipt(k)' <=> IsReceipt(k)) /\ Printable(k)' = Printable(k)
  BY <1>2 DEF Jobs, IsReceipt, Printable
<1>8. JobsTyped'
  BY <1>2, <1>4, <1>6, <1>7 DEF Typed, JobsTyped, erpVars
<1>9. EntriesTyped' /\ EpcTyped'
  BY <1>2 DEF Typed, EntriesTyped, EpcTyped, erpVars, epcVars
<1>10. BatchesTyped'
  BY <1>2, ReportTyped DEF batchVars
<1> QED
  BY <1>8, <1>9, <1>10 DEF Typed

LEMMA HangUpTyped ==
  ASSUME Typed, NEW j \in Jobs, HangUp(j)
  PROVE  Typed'
<1>1. UNCHANGED <<jobs, print, printed, attempt, draft, epcVars, batchVars, erpVars>>
  BY DEF HangUp
<1>2. erp' = [erp EXCEPT ![j] = "dropped"]
  BY DEF HangUp
<1>3. erp \in [Jobs -> ErpStates] /\ draft \in [Jobs -> 0 .. Len(entries)]
      /\ \A k \in Jobs : erp[k] \in Drafted => draft[k] # 0
  BY DEF Typed, JobsTyped
<1>4. /\ erp' \in [Jobs -> ErpStates]
      /\ \A k \in Jobs : erp'[k] \in Drafted => draft'[k] # 0
  BY <1>1, <1>2, <1>3 DEF ErpStates, Drafted
<1>5. JobsTyped'
  BY <1>1, <1>3, <1>4, JobsKept DEF erpVars
<1>6. EntriesTyped'
  BY <1>1 DEF Typed, EntriesTyped, erpVars
<1>7. EpcTyped'
  BY <1>1, PrintingAssumption DEF Typed, EpcTyped, epcVars, HangUp
<1>8. BatchesTyped'
  BY <1>1, ReportTyped DEF batchVars
<1> QED
  BY <1>5, <1>6, <1>7, <1>8 DEF Typed

-----------------------------------------------------------------------------
(***************************************************************************)
(* The batch, the desk and restarts.                                       *)
(***************************************************************************)

\* Everything but the batches and the reports stays.
LEMMA OnlyBatches ==
  ASSUME Typed, UNCHANGED <<printVars, epcVars, erpVars, faults>>, BatchesTyped'
  PROVE  Typed'
<1>1. JobsTyped'
  BY JobsKept DEF printVars, erpVars, Typed, JobsTyped
<1>2. EntriesTyped' /\ EpcTyped'
  BY DEF Typed, EntriesTyped, EpcTyped, erpVars, epcVars
<1> QED
  BY <1>1, <1>2 DEF Typed

LEMMA BatchStepTyped ==
  ASSUME Typed, NEW o \in Owners, Start(o) \/ StopReads(o) \/ StopWrites(o)
  PROVE  Typed'
<1>1. /\ batches \in [Owners -> Batch \union {NoBatch}]
      /\ stopping \in [Owners -> Batch \union {NoBatch}]
      /\ halted \subseteq Owners
  BY DEF Typed, BatchesTyped
<1>2. UNCHANGED <<printVars, epcVars, erpVars, faults, late, lateCopy>>
  BY DEF Start, StopReads, StopWrites
<1>3. /\ batches' \in [Owners -> Batch \union {NoBatch}]
      /\ stopping' \in [Owners -> Batch \union {NoBatch}]
      /\ halted' \subseteq Owners
  <2>1. CASE Start(o)
    <3>1. PICK request \in BatchRequests :
            ValidStart(request) /\ batches' = [batches EXCEPT ![o] = NewBatch(request)]
      BY <2>1 DEF Start
    <3>2. request \in BatchRequest
      BY RequestsAssumption
    <3>3. NewBatch(request) \in Batch
      BY <3>2 DEF NewBatch, Batch, BatchRequest, TareOf
    <3> HIDE DEF NewBatch
    <3> QED
      BY <1>1, <2>1, <3>1, <3>3 DEF Start
  <2>2. CASE StopReads(o)
    <3>1. InactiveBatch \in Batch
      BY DEF InactiveBatch, Batch, ItemName, WarehouseName
    <3>2. stopping' = [stopping EXCEPT ![o] = IF batches[o] = NoBatch THEN InactiveBatch ELSE batches[o]]
      BY <2>2 DEF StopReads
    <3> QED
      BY <1>1, <2>2, <3>1, <3>2 DEF StopReads
  <2>3. CASE StopWrites(o)
    <3>1. stopping[o] \in Batch
      BY <1>1, <2>3 DEF StopWrites
    <3>2. [stopping[o] EXCEPT !.active = FALSE] \in Batch
      BY <3>1 DEF Batch
    <3>3. /\ batches' = [batches EXCEPT ![o] = [stopping[o] EXCEPT !.active = FALSE]]
          /\ stopping' = [stopping EXCEPT ![o] = NoBatch]
          /\ halted' \subseteq halted \union {o}
      BY <2>3 DEF StopWrites
    <3> QED
      BY <1>1, <3>2, <3>3
  <2> QED
    BY <2>1, <2>2, <2>3
<1>4. Jobs' = Jobs /\ UNCHANGED jobs
  BY <1>2 DEF printVars, Jobs
<1>5. BatchesTyped'
  BY <1>2, <1>3, <1>4 DEF Typed, BatchesTyped
<1> QED
  BY <1>2, <1>5, OnlyBatches

LEMMA LateStepTyped ==
  ASSUME Typed, NEW j \in Jobs, LateStep(j)
  PROVE  Typed'
<1>1. /\ batches \in [Owners -> Batch \union {NoBatch}]
      /\ late \in [Jobs -> LateStates] /\ lateCopy \in [Jobs -> Batch \union {NoBatch}]
      /\ \A k \in Jobs : late[k] \in {"get", "put"} => jobs[k].owner \in Owners
      /\ \A k \in Jobs : late[k] = "put" => lateCopy[k] # NoBatch
  BY DEF Typed, BatchesTyped
<1>2. UNCHANGED <<printVars, epcVars, erpVars, faults, stopping, halted>>
  BY DEF LateStep, LateReads, LateWrites
<1>3. Jobs' = Jobs /\ UNCHANGED jobs
  BY <1>2 DEF printVars, Jobs
<1>4. /\ batches' \in [Owners -> Batch \union {NoBatch}]
      /\ late' \in [Jobs -> LateStates] /\ lateCopy' \in [Jobs -> Batch \union {NoBatch}]
      /\ \A k \in Jobs : late'[k] \in {"get", "put"} => late[k] \in {"get", "put"}
      /\ \A k \in Jobs : late'[k] = "put" => lateCopy'[k] # NoBatch
  <2>1. CASE LateReads(j)
    <3> DEFINE b == batches[jobs[j].owner]
    <3>1. jobs[j].owner \in Owners /\ late[j] = "get"
      BY <1>1, <2>1 DEF LateReads
    <3>2. b \in Batch \union {NoBatch}
      BY <1>1, <3>1
    <3>3. /\ late' = [late EXCEPT ![j] = IF b = NoBatch THEN "over" ELSE "put"]
          /\ lateCopy' = [lateCopy EXCEPT ![j] = b]
          /\ batches' = batches
      BY <2>1 DEF LateReads
    <3> HIDE DEF b
    <3> QED
      BY <1>1, <3>1, <3>2, <3>3 DEF LateStates
  <2>2. CASE LateWrites(j)
    <3>1. jobs[j].owner \in Owners /\ lateCopy[j] \in Batch
      BY <1>1, <2>2 DEF LateWrites
    <3>2. [lateCopy[j] EXCEPT !.error = TRUE] \in Batch
      BY <3>1 DEF Batch
    <3>3. batches' \in [Owners -> Batch \union {NoBatch}]
      BY <1>1, <2>2, <3>1, <3>2 DEF LateWrites
    <3>4. late' = [late EXCEPT ![j] = "over"] /\ lateCopy' = [lateCopy EXCEPT ![j] = NoBatch]
      BY <2>2 DEF LateWrites
    <3> QED
      BY <1>1, <3>3, <3>4 DEF LateStates
  <2> QED
    BY <2>1, <2>2 DEF LateStep
<1>5. BatchesTyped'
  BY <1>1, <1>2, <1>3, <1>4 DEF Typed, BatchesTyped
<1> QED
  BY <1>2, <1>5, OnlyBatches

LEMMA DeskTyped ==
  ASSUME Typed, Desk
  PROVE  Typed'
<1>1. PICK e \in DOMAIN entries : DeskEdit(e)
  BY DraftIsEntry DEF Desk, Drafted
<1>2. EntriesTyped' /\ Len(entries') = Len(entries)
  BY <1>1, DeskEditTyped DEF Typed
<1>3. UNCHANGED <<printVars, epcVars, batchVars, faults>>
  BY DEF Desk
<1>4. JobsTyped'
  BY <1>2, <1>3, JobsKept DEF printVars, Typed, JobsTyped
<1>5. EpcTyped'
  BY <1>3 DEF Typed, EpcTyped, epcVars
<1>6. BatchesTyped'
  BY <1>3 DEF Typed, BatchesTyped, batchVars, printVars, Jobs
<1> QED
  BY <1>2, <1>4, <1>5, <1>6 DEF Typed

LEMMA RestartTyped ==
  ASSUME Typed, Restart
  PROVE  Typed'
<1>1. /\ erp' = [j \in Jobs |-> IF erp[j] \in {"done", "failed"} THEN erp[j] ELSE "dropped"]
      /\ print' = [j \in Jobs |-> IF AtPrinter(j) \/ erp[j] = "number" THEN "no" ELSE print[j]]
      /\ late' = [j \in Jobs |-> IF late[j] = "none" THEN "none" ELSE "over"]
      /\ lateCopy' = [j \in Jobs |-> NoBatch]
      /\ stopping' = [o \in Owners |-> NoBatch]
      /\ UNCHANGED <<jobs, printed, attempt, draft, clock, batches, halted>>
      /\ UNCHANGED <<entries, stamp>>
  BY DEF Restart, erpVars
<1>2. Jobs' = Jobs /\ \A k : (IsReceipt(k)' <=> IsReceipt(k)) /\ Printable(k)' = Printable(k)
  BY <1>1 DEF Jobs, IsReceipt, Printable
<1>3. JobsTyped'
  <2>1. print' \in [Jobs -> PrintStates]
    BY <1>1 DEF Typed, JobsTyped, PrintStates
  <2>2. erp' \in [Jobs -> ErpStates] /\ \A j \in Jobs : erp'[j] \notin Drafted
    BY <1>1 DEF Drafted, ErpStates
  <2> QED
    BY <1>1, <1>2, <2>1, <2>2 DEF Typed, JobsTyped
<1>4. EpcTyped'
  <2>1. generators' = [k \in Kinds |-> NewGenerator(Salt(k, faults + 1))] /\ faults' = faults + 1
    BY DEF Restart, Typed, EpcTyped
  <2>2. faults + 1 \in 0 .. MaxFaults
    BY PrintingAssumption DEF Restart, Typed, EpcTyped
  <2>3. ASSUME NEW k \in Kinds PROVE Salted(NewGenerator(Salt(k, faults + 1)))
    <3>1. Salt(k, faults + 1) \subseteq 0 .. WordBits - 1
      BY <2>2, SaltAssumption DEF Kinds
    <3> QED
      BY <3>1, WidthAssumption DEF Salted, NewGenerator
  <2> QED
    BY <1>1, <2>1, <2>2, <2>3 DEF Typed, EpcTyped
<1>5. BatchesTyped'
  BY <1>1, <1>2 DEF Typed, BatchesTyped, LateStates
<1>6. EntriesTyped'
  BY <1>1 DEF Typed, EntriesTyped
<1> QED
  BY <1>3, <1>4, <1>5, <1>6 DEF Typed

LEMMA InitTyped ==
  ASSUME Init
  PROVE  Typed
<1>1. PICK item \in Items, warehouse \in Warehouses : entries = <<Roll(item, warehouse, RollQty)>>
  BY DEF Init
<1>2. Roll(item, warehouse, RollQty) \in EntryType
  <2> DEFINE line == Line(item, warehouse, RollQty, RollBarcode, TRUE)
  <2>1. line \in LineType
    BY PrintingAssumption DEF Line, LineType, ItemName, WarehouseName, Barcode
  <2>2. Roll(item, warehouse, RollQty) =
          [kind |-> "receipt", lines |-> <<line>>, status |-> "submitted", modified |-> 0]
    BY DEF Roll, ReceiptLines
  <2> HIDE DEF line
  <2> QED
    BY <2>1, <2>2 DEF EntryType, Kinds
<1>3. EntriesTyped
  BY <1>1, <1>2 DEF EntriesTyped, Init
<1>4. Jobs = {}
  BY DEF Init, Jobs
<1>5. JobsTyped
  BY <1>4 DEF Init, JobsTyped
<1>6. EpcTyped
  <2>1. generators = [k \in Kinds |-> NewGenerator(Salt(k, 0))] /\ clock = 1 /\ faults = 0
    BY DEF Init, Kinds
  <2>2. 0 \in 0 .. MaxFaults
    BY PrintingAssumption
  <2>3. ASSUME NEW k \in Kinds PROVE Salted(NewGenerator(Salt(k, 0)))
    <3>1. Salt(k, 0) \subseteq 0 .. WordBits - 1
      BY <2>2, SaltAssumption DEF Kinds
    <3> QED
      BY <3>1, WidthAssumption DEF Salted, NewGenerator
  <2> QED
    BY <2>1, <2>2, <2>3 DEF EpcTyped
<1>7. BatchesTyped
  BY <1>4 DEF Init, BatchesTyped
<1> QED
  BY <1>3, <1>5, <1>6, <1>7 DEF Typed

LEMMA StepTyped ==
  ASSUME Typed, [Next]_vars
  PROVE  Typed'
<1>1. ASSUME NEW owner, JobBegins(owner) PROVE Typed'
  BY <1>1, BeginTyped DEF JobBegins
<1>2. CASE PrintReceipt \/ Split
  BY <1>1, <1>2, RequestBegins
<1>3. CASE Desk
  BY <1>3, DeskTyped
<1>4. CASE Restart
  BY <1>4, RestartTyped
<1>5. ASSUME NEW j \in Jobs, ErpStep(j) \/ PrinterStep(j) \/ LateStep(j) \/ HangUp(j) PROVE Typed'
  BY <1>5, ErpStepTyped, PrinterStepTyped, LateStepTyped, HangUpTyped
<1>6. ASSUME NEW o \in Owners, BatchStep(o) PROVE Typed'
  <2>1. CASE PrintInBatch(o)
    BY <1>1, <2>1, BatchBegins
  <2> QED
    BY <1>6, <2>1, BatchStepTyped DEF BatchStep
<1>7. CASE UNCHANGED vars
  <2>1. UNCHANGED <<printVars, epcVars, batchVars, erpVars, faults>>
    BY <1>7 DEF vars
  <2>2. BatchesTyped'
    BY <2>1 DEF batchVars, printVars, Typed, BatchesTyped, Jobs
  <2> QED
    BY <2>1, <2>2, OnlyBatches
<1> QED
  BY <1>2, <1>3, <1>4, <1>5, <1>6, <1>7 DEF Next

LEMMA TypedHolds == Spec => []Typed
<1>1. Init => Typed
  BY InitTyped
<1>2. Typed /\ [Next]_vars => Typed'
  BY StepTyped
<1> QED
  BY <1>1, <1>2, PTL DEF Spec

\* The state of the printing services is what they take it for, over all
\* requests, answers of the printer and of ERPNext, restarts and batches: a
\* draft that is fetched, posted or deleted is one ERPNext has named, and an
\* error is only ever written into a batch that was there when it was read.
THEOREM PrintingTyped == Spec => []TypeOK
<1>1. Typed => TypeOK
  <2> SUFFICES ASSUME Typed PROVE TypeOK
    OBVIOUS
  <2>1. ASSUME NEW j \in Jobs
        PROVE  /\ jobs[j].owner \in Owners \union {NoOwner}
               /\ \A i \in DOMAIN jobs[j].lines : jobs[j].lines[i] \in Outputs
    BY JobTyped
  <2>2. ASSUME NEW j \in Jobs
        PROVE  /\ print[j] \in PrintStates /\ erp[j] \in ErpStates
               /\ printed[j] \subseteq Printable(j) /\ attempt[j] \in 0 .. 1
               /\ draft[j] \in 0 .. Len(entries)
               /\ late[j] \in LateStates /\ lateCopy[j] \in Batch \union {NoBatch}
    BY DEF Typed, JobsTyped, BatchesTyped
  <2>3. /\ batches \in [Owners -> Batch \union {NoBatch}]
        /\ stopping \in [Owners -> Batch \union {NoBatch}]
        /\ halted \subseteq Owners
    BY DEF Typed, BatchesTyped
  <2> QED
    BY <2>1, <2>2, <2>3 DEF TypeOK, PrintStates, ErpStates, LateStates
<1> QED
  BY <1>1, TypedHolds, PTL

-----------------------------------------------------------------------------
(***************************************************************************)
(* Nothing is booked that is not on paper. What holds of a job on its way: *)
(* a line that is confirmed is out, a print that ended well has confirmed  *)
(* all its lines, and once the job is allowed to submit, or is booked, its *)
(* print can no longer fail, as nobody is at the printer for it any more.  *)
(* No two jobs work on one document.                                       *)
(***************************************************************************)
Booked(j) == draft[j] # 0 /\ entries[draft[j]].status = "submitted"
AllOut(j) == Printable(j) \subseteq printed[j]
MayBook(j) == print[j] # "no" /\ AllOut(j) /\ (IsReceipt(j) => print[j] = "yes")

JobInv(j) ==
  /\ \A i \in printed[j] : jobs[j].lines[i].epc \in labels
  /\ print[j] = "yes" => AllOut(j)
  /\ IsReceipt(j) => erp[j] # "print"
  /\ ~IsReceipt(j) => erp[j] # "wait" /\ (erp[j] = "create" => print[j] = "open")
  /\ erp[j] = "number" => print[j] = "open" /\ printed[j] = {}
  /\ erp[j] \in {"fetch", "post"} => MayBook(j)
  /\ Booked(j) => erp[j] \in {"done", "failed"} /\ MayBook(j)

DraftsApart == \A j, k \in Jobs : j # k /\ draft[j] # 0 => draft[j] # draft[k]

LabelledInv == DraftsApart /\ \A j \in Jobs : JobInv(j)

\* A job nothing happens to.
LEMMA JobKept ==
  ASSUME NEW j \in Jobs, JobInv(j), labels \subseteq labels',
         jobs'[j] = jobs[j], print'[j] = print[j], printed'[j] = printed[j],
         erp'[j] = erp[j], draft'[j] = draft[j],
         draft[j] # 0 /\ entries'[draft[j]].status = "submitted"
           => entries[draft[j]].status = "submitted"
  PROVE  JobInv(j)'
<1>1. /\ IsReceipt(j)' <=> IsReceipt(j)
      /\ Printable(j)' = Printable(j)
  BY DEF IsReceipt, Printable
<1>2. /\ MayBook(j)' <=> MayBook(j)
      /\ AllOut(j)' <=> AllOut(j)
  BY <1>1 DEF MayBook, AllOut
<1>3. Booked(j)' => Booked(j)
  BY DEF Booked
<1> QED
  BY <1>1, <1>2, <1>3 DEF JobInv

LEMMA BeginLabelled ==
  ASSUME Typed, LabelledInv, NEW job \in Job, NEW step \in FirstSteps, Starts(job, step)
  PROVE  LabelledInv'
<1> DEFINE n == Len(jobs)
<1>1. /\ n \in Nat /\ Jobs = 1 .. n /\ Jobs' = 1 .. n + 1
      /\ \A j \in Jobs : jobs'[j] = jobs[j]
  BY BeginAppends, JobsAreNumbered
<1>2. /\ Grown(n, print, print', "open") /\ Grown(n, printed, printed', {})
      /\ Grown(n, erp, erp', step) /\ Grown(n, draft, draft', 0)
  BY BeginGrows
<1>3. UNCHANGED <<labels, entries>>
  BY DEF Starts
<1> HIDE DEF n
<1>4. ASSUME NEW j \in Jobs
      PROVE  /\ print'[j] = print[j] /\ printed'[j] = printed[j]
             /\ erp'[j] = erp[j] /\ draft'[j] = draft[j]
  BY <1>1, <1>2 DEF Grown
<1>5. ASSUME NEW j \in Jobs PROVE JobInv(j)'
  BY <1>1, <1>3, <1>4, JobKept DEF LabelledInv
<1>6. /\ print'[n + 1] = "open" /\ printed'[n + 1] = {}
      /\ erp'[n + 1] = step /\ draft'[n + 1] = 0
  BY <1>2 DEF Grown
<1>7. ASSUME NEW j, j = n + 1 PROVE JobInv(j)'
  BY <1>6, <1>7 DEF JobInv, Booked, AllOut, FirstSteps
<1>8. \A j \in Jobs' : j \in Jobs \/ j = n + 1
  BY <1>1
<1>9. DraftsApart'
  BY <1>4, <1>6, <1>8 DEF LabelledInv, DraftsApart
<1> QED
  BY <1>5, <1>7, <1>8, <1>9 DEF LabelledInv

\* A step of one job that touches no document but its own.
LEMMA OneJobSteps ==
  ASSUME Typed, LabelledInv, NEW j \in Jobs, labels \subseteq labels',
         UNCHANGED jobs, JobInv(j)', DraftsApart',
         \A k \in Jobs : k # j => /\ print'[k] = print[k] /\ printed'[k] = printed[k]
                                  /\ erp'[k] = erp[k] /\ draft'[k] = draft[k],
         \A e \in DOMAIN entries : e # draft[j] => entries'[e] = entries[e]
  PROVE  LabelledInv'
<1>1. Jobs' = Jobs
  BY DEF Jobs
<1>2. ASSUME NEW k \in Jobs, k # j PROVE JobInv(k)'
  <2>1. ASSUME draft[k] # 0 PROVE entries'[draft[k]] = entries[draft[k]]
    <3>1. draft[k] # draft[j]
      BY <1>2, <2>1 DEF LabelledInv, DraftsApart
    <3>2. draft[k] \in 0 .. Len(entries) /\ Len(entries) \in Nat /\ DOMAIN entries = 1 .. Len(entries)
      BY DEF Typed, JobsTyped, EntriesTyped
    <3> QED
      BY <2>1, <3>1, <3>2
  <2> QED
    BY <1>2, <2>1, JobKept DEF LabelledInv
<1> QED
  BY <1>1, <1>2 DEF LabelledInv

LEMMA PrinterLabelled ==
  ASSUME Typed, LabelledInv, NEW j \in Jobs, PrinterStep(j)
  PROVE  LabelledInv'
<1>1. /\ print[j] = "open" /\ (~IsReceipt(j) => erp[j] = "print") /\ erp[j] # "number"
      /\ UNCHANGED <<jobs, draft, entries>>
  BY DEF PrinterStep, PrintDone, PrintFails, AtPrinter, erpVars
<1>2. JobInv(j)
  BY DEF LabelledInv
<1>3. ~Booked(j) /\ erp[j] \notin {"fetch", "post"}
  BY <1>1, <1>2 DEF JobInv, MayBook
<1>4. /\ print \in [Jobs -> PrintStates] /\ printed \in [Jobs -> SUBSET Nat]
      /\ erp \in [Jobs -> ErpStates]
  BY DEF Typed, JobsTyped
<1>5. /\ IsReceipt(j)' <=> IsReceipt(j)
      /\ Printable(j)' = Printable(j)
      /\ ~Booked(j)'
  BY <1>1, <1>3 DEF IsReceipt, Printable, Booked
<1>6. DraftsApart'
  BY <1>1 DEF LabelledInv, DraftsApart, Jobs
<1>7. CASE PrintDone(j)
  <2>1. PICK i \in AtHead(j) :
          LET done == printed[j] \union {i}
              last == Printable(j) \subseteq done
          IN  /\ labels' = labels \union {jobs[j].lines[i].epc}
              /\ printed' = [printed EXCEPT ![j] = done]
              /\ print' = [print EXCEPT ![j] = IF last THEN "yes" ELSE @]
              /\ erp' = [erp EXCEPT ![j] = IF last /\ ~IsReceipt(j) THEN "fetch" ELSE @]
    BY <1>7 DEF PrintDone
  <2> DEFINE done == printed[j] \union {i}
             last == Printable(j) \subseteq done
  <2>2. /\ labels' = labels \union {jobs[j].lines[i].epc}
        /\ printed'[j] = done
        /\ last => print'[j] = "yes"
        /\ ~last => print'[j] = "open"
        /\ last /\ ~IsReceipt(j) => erp'[j] = "fetch"
        /\ ~last \/ IsReceipt(j) => erp'[j] = erp[j]
    BY <1>1, <1>4, <2>1
  <2>3. AllOut(j)' <=> last
    BY <1>5, <2>2 DEF AllOut
  <2>4. \A l \in printed'[j] : jobs'[j].lines[l].epc \in labels'
    BY <1>1, <1>2, <2>2 DEF JobInv
  <2> HIDE DEF last
  <2>5. JobInv(j)'
    BY <1>1, <1>2, <1>3, <1>5, <2>2, <2>3, <2>4 DEF JobInv, MayBook
  <2>6. labels \subseteq labels'
    BY <2>2
  <2>7. \A k \in Jobs : k # j => /\ print'[k] = print[k] /\ printed'[k] = printed[k]
                                 /\ erp'[k] = erp[k] /\ draft'[k] = draft[k]
    BY <1>1, <1>4, <2>1
  <2> QED
    BY <1>1, <1>6, <2>5, <2>6, <2>7, OneJobSteps
<1>8. CASE PrintFails(j)
  <2>1. /\ print' = [print EXCEPT ![j] = "no"] /\ UNCHANGED printed
        /\ erp' = [erp EXCEPT ![j] = IF IsReceipt(j) THEN @ ELSE "delete"]
        /\ labels \subseteq labels'
    BY <1>8 DEF PrintFails
  <2>2. /\ print'[j] = "no" /\ printed'[j] = printed[j]
        /\ IsReceipt(j) => erp'[j] = erp[j]
        /\ ~IsReceipt(j) => erp'[j] = "delete"
    BY <1>4, <2>1
  <2>3. JobInv(j)'
    BY <1>1, <1>2, <1>3, <1>5, <2>1, <2>2 DEF JobInv
  <2>4. \A k \in Jobs : k # j => /\ print'[k] = print[k] /\ printed'[k] = printed[k]
                                 /\ erp'[k] = erp[k] /\ draft'[k] = draft[k]
    BY <1>1, <1>4, <2>1
  <2> QED
    BY <1>1, <1>6, <2>1, <2>3, <2>4, OneJobSteps
<1> QED
  BY <1>7, <1>8 DEF PrinterStep

\* A step of the recorder or of the handler of a split: the print is left
\* alone, and the step is taken only where the job may take it.
LEMMA ErpMoves ==
  ASSUME Typed, LabelledInv, NEW j \in Jobs, NEW step,
         UNCHANGED <<jobs, print, printed, labels>>,
         erp' = [erp EXCEPT ![j] = step],
         \A k \in Jobs : k # j => draft'[k] = draft[k],
         DraftsApart',
         \A e \in DOMAIN entries : e # draft[j] => entries'[e] = entries[e],
         step = "print" => ~IsReceipt(j),
         step = "wait" => IsReceipt(j),
         step \notin FirstSteps,
         step \in {"fetch", "post"} => MayBook(j),
         Booked(j)' => step \in {"done", "failed"} /\ MayBook(j)
  PROVE  LabelledInv'
<1>1. /\ IsReceipt(j)' <=> IsReceipt(j)
      /\ Printable(j)' = Printable(j)
  BY DEF IsReceipt, Printable
<1>2. /\ MayBook(j)' <=> MayBook(j)
      /\ AllOut(j)' <=> AllOut(j)
  BY <1>1 DEF MayBook, AllOut
<1>3. erp \in [Jobs -> ErpStates]
  BY DEF Typed, JobsTyped
<1>4. erp'[j] = step /\ \A k \in Jobs : k # j => erp'[k] = erp[k]
  BY <1>3
<1>5. JobInv(j)'
  BY <1>1, <1>2, <1>4 DEF JobInv, LabelledInv, FirstSteps
<1> QED
  BY <1>4, <1>5, OneJobSteps

\* Lines that are on paper have their numbers: a draw leaves them alone.
LEMMA DrawLabelled ==
  ASSUME Typed, LabelledInv, NEW j \in Jobs, Draw(j)
  PROVE  LabelledInv'
<1>1. PICK new \in Job, step \in FirstSteps :
        /\ SameWork(new, jobs[j]) /\ jobs' = [jobs EXCEPT ![j] = new]
        /\ erp' = [erp EXCEPT ![j] = step]
  BY DrawSteps
<1>2. /\ erp[j] = "number"
      /\ UNCHANGED <<print, printed, draft, labels, entries>>
  BY DrawSteps DEF erpVars
<1>3. jobs \in Seq(Job) /\ erp \in [Jobs -> ErpStates]
  BY DEF Typed, JobsTyped
<1>4. /\ Jobs' = Jobs /\ jobs'[j] = new /\ erp'[j] = step
      /\ \A k \in Jobs : k # j => jobs'[k] = jobs[k] /\ erp'[k] = erp[k]
  BY <1>1, <1>3, Updated DEF Jobs
<1>5. JobInv(j) /\ printed[j] = {} /\ print[j] = "open" /\ ~Booked(j)
  BY <1>2 DEF LabelledInv, JobInv
<1>6. ~Booked(j)' /\ (IsReceipt(j)' <=> IsReceipt(j))
  BY <1>1, <1>2, <1>4, <1>5 DEF Booked, IsReceipt, SameWork
<1>7. JobInv(j)'
  BY <1>2, <1>4, <1>5, <1>6 DEF JobInv, FirstSteps
<1>8. ASSUME NEW k \in Jobs, k # j PROVE JobInv(k)'
  BY <1>2, <1>4, <1>8, JobKept DEF LabelledInv
<1>9. DraftsApart'
  BY <1>2, <1>4 DEF LabelledInv, DraftsApart
<1> QED
  BY <1>4, <1>7, <1>8, <1>9 DEF LabelledInv

LEMMA ErpRequestLabelled ==
  ASSUME Typed, LabelledInv, NEW j \in Jobs, ErpRequest(j)
  PROVE  LabelledInv'
<1>1. /\ JobInv(j)
      /\ erp \in [Jobs -> ErpStates] /\ draft \in [Jobs -> 0 .. Len(entries)]
      /\ EntriesTyped
      /\ UNCHANGED <<jobs, print, printed, labels>>
  BY DEF LabelledInv, Typed, JobsTyped, ErpRequest, CreateDraft, LearnPrint, Fetch, Post,
         PostMismatch, DeleteDraft
<1>2. UNCHANGED draft => DraftsApart'
  BY <1>1 DEF LabelledInv, DraftsApart, Jobs
<1>3. CASE CreateDraft(j)
  <2>1. PICK outcome \in Outcomes :
          /\ Created(jobs[j].kind, LinesOf(j), outcome)
          /\ erp' = [erp EXCEPT ![j] = IF outcome = "ok" THEN AfterCreate(j) ELSE "failed"]
          /\ draft' = [draft EXCEPT ![j] = IF outcome = "ok" THEN Len(entries) + 1 ELSE 0]
    BY <1>3 DEF CreateDraft, EndsWith
  <2> DEFINE step == IF outcome = "ok" THEN AfterCreate(j) ELSE "failed"
  <2>2. jobs[j].kind \in Kinds /\ erp[j] = "create" /\ Len(entries) \in Nat
    BY <1>1, <1>3, JobTyped DEF CreateDraft, EntriesTyped
  <2>3. /\ \A e \in DOMAIN entries : entries'[e] = entries[e]
        /\ outcome = "ok" => entries'[Len(entries) + 1].status = "draft"
    BY <1>1, <2>1, <2>2, LinesOfTyped, CreatedTyped
  <2>4. \A k \in Jobs : k # j => draft'[k] = draft[k] /\ draft[k] \in 0 .. Len(entries)
    BY <1>1, <2>1
  <2>5. draft'[j] = IF outcome = "ok" THEN Len(entries) + 1 ELSE 0
    BY <1>1, <2>1
  <2>6. DraftsApart'
    BY <1>1, <2>2, <2>4, <2>5 DEF LabelledInv, DraftsApart, Jobs
  <2>7. ~Booked(j)'
    BY <2>3, <2>5 DEF Booked
  <2>8. step = "fetch" => MayBook(j)
    BY <1>1, <2>2 DEF AfterCreate, JobInv, MayBook, AllOut, IsReceipt
  <2>9. /\ step = "print" => ~IsReceipt(j)
        /\ step = "wait" => IsReceipt(j)
        /\ step \notin FirstSteps /\ step # "post"
      BY DEF AfterCreate, IsReceipt, FirstSteps
  <2>10. erp' = [erp EXCEPT ![j] = step]
    BY <2>1
  <2> HIDE DEF step
  <2> QED
    BY <1>1, <2>3, <2>4, <2>6, <2>7, <2>8, <2>9, <2>10, ErpMoves DEF FirstSteps
<1>4. CASE LearnPrint(j)
  <2> DEFINE step == IF print[j] = "yes" THEN "fetch" ELSE "delete"
  <2>1. erp[j] = "wait" /\ erp' = [erp EXCEPT ![j] = step] /\ UNCHANGED <<draft, entries>>
    BY <1>4 DEF LearnPrint, erpVars
  <2>2. step = "fetch" => MayBook(j)
    BY <1>1, <2>1 DEF JobInv, MayBook
  <2>3. ~Booked(j)'
    BY <1>1, <2>1 DEF JobInv, Booked
  <2>4. step \in {"fetch", "delete"}
    OBVIOUS
  <2> HIDE DEF step
  <2> QED
    BY <1>1, <1>2, <2>1, <2>2, <2>3, <2>4, ErpMoves DEF FirstSteps
<1>5. CASE Fetch(j)
  <2>1. PICK outcome \in Outcomes : erp' = [erp EXCEPT ![j] = IF outcome = "ok" THEN "post" ELSE "failed"]
    BY <1>5 DEF Fetch, EndsWith
  <2> DEFINE step == IF outcome = "ok" THEN "post" ELSE "failed"
  <2>2. erp[j] = "fetch" /\ UNCHANGED <<draft, entries>>
    BY <1>5 DEF Fetch, erpVars
  <2>3. MayBook(j) /\ ~Booked(j)'
    BY <1>1, <2>2 DEF JobInv, Booked
  <2>4. step \in {"post", "failed"} /\ erp' = [erp EXCEPT ![j] = step]
    BY <2>1
  <2> HIDE DEF step
  <2> QED
    BY <1>1, <1>2, <2>2, <2>3, <2>4, ErpMoves DEF FirstSteps
<1>6. CASE Post(j)
  <2>1. PICK outcome \in Outcomes :
          /\ Submitted(draft[j], outcome)
          /\ erp' = [erp EXCEPT ![j] = IF outcome = "ok" THEN "done" ELSE "failed"]
    BY <1>6 DEF Post, EndsWith
  <2> DEFINE step == IF outcome = "ok" THEN "done" ELSE "failed"
  <2>2. erp[j] = "post" /\ UNCHANGED draft
    BY <1>6 DEF Post
  <2>3. draft[j] \in DOMAIN entries
    BY <2>2, DraftIsEntry DEF Drafted
  <2>4. \A e \in DOMAIN entries : e # draft[j] => entries'[e] = entries[e]
    BY <1>1, <2>1, <2>3, SubmittedTyped
  <2>5. MayBook(j)
    BY <1>1, <2>2 DEF JobInv
  <2>6. step \in {"done", "failed"} /\ erp' = [erp EXCEPT ![j] = step]
    BY <2>1
  <2> HIDE DEF step
  <2> QED
    BY <1>1, <1>2, <2>2, <2>4, <2>5, <2>6, ErpMoves DEF FirstSteps
<1>7. CASE PostMismatch(j)
  <2>1. PICK step \in {"fetch", "failed"} : erp' = [erp EXCEPT ![j] = step]
    BY <1>7 DEF PostMismatch
  <2>2. erp[j] = "post" /\ UNCHANGED <<draft, entries>>
    BY <1>7 DEF PostMismatch, erpVars
  <2>3. MayBook(j) /\ ~Booked(j)'
    BY <1>1, <2>2 DEF JobInv, Booked
  <2> QED
    BY <1>1, <1>2, <2>1, <2>2, <2>3, ErpMoves DEF FirstSteps
<1>8. CASE DeleteDraft(j)
  <2>1. PICK outcome \in Outcomes :
          /\ Deleted(draft[j], outcome)
          /\ erp' = [erp EXCEPT ![j] = IF outcome = "ok" THEN "done" ELSE "failed"]
    BY <1>8 DEF DeleteDraft, EndsWith
  <2> DEFINE step == IF outcome = "ok" THEN "done" ELSE "failed"
  <2>2. erp[j] = "delete" /\ UNCHANGED draft
    BY <1>8 DEF DeleteDraft
  <2>3. draft[j] \in DOMAIN entries
    BY <2>2, DraftIsEntry DEF Drafted
  <2>4. /\ \A e \in DOMAIN entries : e # draft[j] => entries'[e] = entries[e]
        /\ entries'[draft[j]].status = "submitted" => entries[draft[j]].status = "submitted"
    BY <1>1, <2>1, <2>3, DeletedTyped
  <2>5. ~Booked(j)'
    BY <1>1, <2>2, <2>4 DEF JobInv, Booked
  <2>6. step \in {"done", "failed"} /\ erp' = [erp EXCEPT ![j] = step]
    BY <2>1
  <2> HIDE DEF step
  <2> QED
    BY <1>1, <1>2, <2>2, <2>4, <2>5, <2>6, ErpMoves DEF FirstSteps
<1> QED
  BY <1>3, <1>4, <1>5, <1>6, <1>7, <1>8 DEF ErpRequest

LEMMA ErpStepLabelled ==
  ASSUME Typed, LabelledInv, NEW j \in Jobs, ErpStep(j)
  PROVE  LabelledInv'
BY ErpRequestLabelled, DrawLabelled DEF ErpStep, ErpRequest

LEMMA HangUpLabelled ==
  ASSUME Typed, LabelledInv, NEW j \in Jobs, HangUp(j)
  PROVE  LabelledInv'
<1>1. /\ erp[j] \in {"print", "fetch", "post", "delete"} /\ erp' = [erp EXCEPT ![j] = "dropped"]
      /\ UNCHANGED <<jobs, print, printed, draft, labels, entries>>
  BY DEF HangUp, erpVars
<1>2. ~Booked(j)'
  BY <1>1 DEF LabelledInv, JobInv, Booked
<1>3. DraftsApart'
  BY <1>1 DEF LabelledInv, DraftsApart, Jobs
<1> QED
  BY <1>1, <1>2, <1>3, ErpMoves DEF FirstSteps

LEMMA RestartLabelled ==
  ASSUME Typed, LabelledInv, Restart
  PROVE  LabelledInv'
<1>1. /\ erp' = [j \in Jobs |-> IF erp[j] \in {"done", "failed"} THEN erp[j] ELSE "dropped"]
      /\ print' = [j \in Jobs |-> IF AtPrinter(j) \/ erp[j] = "number" THEN "no" ELSE print[j]]
      /\ UNCHANGED <<jobs, printed, draft, entries>>
      /\ labels \subseteq labels'
  BY DEF Restart, erpVars
<1>2. ASSUME NEW j \in Jobs PROVE JobInv(j)'
  <2>1. JobInv(j)
    BY DEF LabelledInv
  <2>2. /\ IsReceipt(j)' <=> IsReceipt(j)
        /\ Printable(j)' = Printable(j)
    BY <1>1 DEF IsReceipt, Printable
  <2>3. /\ Booked(j)' <=> Booked(j)
        /\ AllOut(j)' <=> AllOut(j)
    BY <1>1, <2>2 DEF Booked, AllOut
  <2>4. \/ erp'[j] = erp[j] /\ erp[j] \in {"done", "failed"}
        \/ erp'[j] = "dropped" /\ erp[j] \notin {"done", "failed"}
    BY <1>1
  <2>5. /\ print'[j] = "yes" => print[j] = "yes"
        /\ print'[j] = print[j] \/ AtPrinter(j) \/ erp[j] = "number"
    BY <1>1
  <2>6. Booked(j) => print'[j] = print[j]
    <3>1. Booked(j) => ~(AtPrinter(j) \/ erp[j] = "number")
      BY <2>1 DEF JobInv, MayBook, AtPrinter
    <3> QED
      BY <2>5, <3>1
  <2>7. Booked(j)' => erp'[j] \in {"done", "failed"} /\ MayBook(j)'
    BY <2>1, <2>2, <2>3, <2>4, <2>6 DEF JobInv, MayBook
  <2> QED
    BY <1>1, <2>1, <2>2, <2>3, <2>4, <2>5, <2>7 DEF JobInv
<1>3. DraftsApart' /\ Jobs' = Jobs
  BY <1>1 DEF LabelledInv, DraftsApart, Jobs
<1> QED
  BY <1>2, <1>3 DEF LabelledInv

\* What leaves the jobs alone and submits no document.
LEMMA ElsewhereLabelled ==
  ASSUME Typed, LabelledInv, UNCHANGED printVars,
         \A e \in DOMAIN entries :
           entries'[e].status = "submitted" => entries[e].status = "submitted"
  PROVE  LabelledInv'
<1>1. UNCHANGED <<jobs, print, printed, erp, draft, labels>>
  BY DEF printVars
<1>2. Jobs' = Jobs
  BY <1>1 DEF Jobs
<1>3. ASSUME NEW j \in Jobs PROVE JobInv(j)'
  <2>1. draft[j] # 0 => draft[j] \in DOMAIN entries
    BY DEF Typed, JobsTyped, EntriesTyped
  <2> QED
    BY <1>1, <2>1, JobKept DEF LabelledInv
<1>4. DraftsApart'
  BY <1>1, <1>2 DEF LabelledInv, DraftsApart
<1> QED
  BY <1>2, <1>3, <1>4 DEF LabelledInv

LEMMA StepLabelled ==
  ASSUME Typed, LabelledInv, [Next]_vars
  PROVE  LabelledInv'
<1>1. ASSUME NEW owner, JobBegins(owner) PROVE LabelledInv'
  BY <1>1, BeginLabelled DEF JobBegins
<1>2. CASE PrintReceipt \/ Split
  BY <1>1, <1>2, RequestBegins
<1>3. CASE Desk
  <2>1. PICK e \in DOMAIN entries : DeskEdit(e)
    BY <1>3, DraftIsEntry DEF Desk, Drafted
  <2>2. UNCHANGED printVars
    BY <1>3 DEF Desk
  <2> QED
    BY <2>1, <2>2, DeskEditTyped, ElsewhereLabelled DEF Typed
<1>4. CASE Restart
  BY <1>4, RestartLabelled
<1>5. ASSUME NEW j \in Jobs, ErpStep(j) \/ PrinterStep(j) \/ HangUp(j) PROVE LabelledInv'
  BY <1>5, ErpStepLabelled, PrinterLabelled, HangUpLabelled
<1>6. ASSUME UNCHANGED printVars, UNCHANGED erpVars PROVE LabelledInv'
  BY <1>6, ElsewhereLabelled DEF erpVars
<1>7. ASSUME NEW j \in Jobs, LateStep(j) PROVE LabelledInv'
  BY <1>6, <1>7 DEF LateStep, LateReads, LateWrites
<1>8. ASSUME NEW o \in Owners, BatchStep(o) PROVE LabelledInv'
  BY <1>1, <1>6, <1>8, BatchBegins DEF BatchStep, Start, StopReads, StopWrites
<1>9. CASE UNCHANGED vars
  BY <1>6, <1>9 DEF vars
<1> QED
  BY <1>2, <1>3, <1>4, <1>5, <1>7, <1>8, <1>9 DEF Next

LEMMA LabelledHolds == Spec => []LabelledInv
<1>1. Init => LabelledInv
  BY DEF Init, LabelledInv, DraftsApart, Jobs
<1>2. Typed /\ LabelledInv /\ [Next]_vars => LabelledInv'
  BY StepLabelled
<1> QED
  BY <1>1, <1>2, TypedHolds, PTL DEF Spec

\* Stock is only booked for labels that are on paper: whatever the order in
\* which recorder and printer end, whichever of ERPNext's answers is lost,
\* however often the server restarts and for any number of labels of a split.
THEOREM BookedIsLabelled == Spec => []BookedStockIsLabelled
<1>1. Typed /\ LabelledInv => BookedStockIsLabelled
  <2> SUFFICES ASSUME LabelledInv, NEW j \in Jobs, Booked(j)
               PROVE  /\ print[j] # "no"
                      /\ \A i \in DOMAIN jobs[j].lines :
                           jobs[j].lines[i].qr => jobs[j].lines[i].epc \in labels
    BY DEF BookedStockIsLabelled, Booked
  <2>1. MayBook(j) /\ \A i \in printed[j] : jobs[j].lines[i].epc \in labels
    BY DEF LabelledInv, JobInv
  <2> QED
    BY <2>1 DEF MayBook, AllOut, Printable
<1> QED
  BY <1>1, TypedHolds, LabelledHolds, PTL

-----------------------------------------------------------------------------
(***************************************************************************)
(* A stopped batch stays quiet: it is inactive until it is started, and    *)
(* the error that is written into it late is a copy of an inactive batch,  *)
(* since it was read after the stop.                                       *)
(***************************************************************************)
QuietInv ==
  /\ \A o \in halted : ~MayPrintIn(o)
  /\ \A j \in Jobs : late[j] = "put" /\ jobs[j].owner \in halted => ~lateCopy[j].active

LEMMA InitQuiet == Init => QuietInv
BY DEF Init, QuietInv, Jobs

LEMMA StepQuiet ==
  ASSUME Typed, QuietInv, [Next]_vars
  PROVE  QuietInv'
<1>1. /\ batches \in [Owners -> Batch \union {NoBatch}]
      /\ stopping \in [Owners -> Batch \union {NoBatch}]
      /\ late \in [Jobs -> LateStates] /\ lateCopy \in [Jobs -> Batch \union {NoBatch}]
      /\ halted \subseteq Owners
      /\ \A k \in Jobs : late[k] \in {"get", "put"} => jobs[k].owner \in Owners
      /\ \A k \in Jobs : late[k] = "put" => lateCopy[k] # NoBatch
  BY DEF Typed, BatchesTyped
\* As long as the batches stay and no more is read, so does the invariant.
<1>2. ASSUME UNCHANGED <<jobs, batches, lateCopy, halted>>,
             \A j \in Jobs : late'[j] = "put" => late[j] = "put"
      PROVE  QuietInv'
  BY <1>2 DEF QuietInv, MayPrintIn, Jobs
<1>3. ASSUME NEW owner, JobBegins(owner) PROVE QuietInv'
  <2>2. PICK job \in Job, step \in FirstSteps : Starts(job, step)
    BY <1>3 DEF JobBegins
  <2> DEFINE n == Len(jobs)
  <2>3. /\ \A j \in Jobs' : j \in Jobs \/ j = n + 1
        /\ \A j \in Jobs : jobs'[j] = jobs[j] /\ j \in 1 .. n
    BY <2>2, BeginAppends, JobsAreNumbered
  <2>4. Grown(n, late, late', "none") /\ Grown(n, lateCopy, lateCopy', NoBatch)
    BY <2>2, BeginGrows
  <2>5. UNCHANGED <<batches, halted>>
    BY <2>2 DEF Starts
  <2> HIDE DEF n
  <2> QED
    BY <2>3, <2>4, <2>5 DEF QuietInv, MayPrintIn, Grown
<1>4. CASE PrintReceipt \/ Split
  BY <1>3, <1>4, RequestBegins
<1>5. CASE Desk
  BY <1>2, <1>5 DEF Desk, batchVars, printVars
<1>6. CASE Restart
  <2>1. /\ late' = [j \in Jobs |-> IF late[j] = "none" THEN "none" ELSE "over"]
        /\ UNCHANGED <<jobs, batches, halted>>
    BY <1>6 DEF Restart
  <2> QED
    BY <2>1 DEF QuietInv, MayPrintIn, Jobs
<1>7. ASSUME NEW j \in Jobs, ErpStep(j) \/ PrinterStep(j) \/ HangUp(j) PROVE QuietInv'
  <2>0. CASE Draw(j)
    <3>1. PICK new \in Job : SameWork(new, jobs[j]) /\ jobs' = [jobs EXCEPT ![j] = new]
      BY <2>0, DrawSteps
    <3>2. UNCHANGED batchVars
      BY <2>0, DrawSteps
    <3>3. jobs \in Seq(Job)
      BY DEF Typed, JobsTyped
    <3>4. Jobs' = Jobs /\ \A k \in Jobs : jobs'[k].owner = jobs[k].owner
      BY <3>1, <3>3, Updated DEF Jobs, SameWork
    <3> QED
      BY <3>2, <3>4 DEF QuietInv, MayPrintIn, batchVars
  <2>1. CASE ErpRequest(j) \/ PrinterStep(j) \/ HangUp(j)
    <3>1. UNCHANGED <<jobs, batches, lateCopy, halted>>
      BY <2>1 DEF ErpRequest, CreateDraft, LearnPrint, Fetch, Post, PostMismatch, DeleteDraft,
                  PrinterStep, PrintDone, PrintFails, HangUp, batchVars
    <3>2. UNCHANGED late \/ late' = [late EXCEPT ![j] = "get"]
      BY <2>1 DEF ErpRequest, CreateDraft, LearnPrint, Fetch, Post, PostMismatch, DeleteDraft,
                  PrinterStep, PrintDone, PrintFails, HangUp, batchVars, EndsWith, Report
    <3> QED
      BY <1>1, <1>2, <3>1, <3>2
  <2> QED
    BY <1>7, <2>0, <2>1 DEF ErpStep, ErpRequest
<1>8. ASSUME NEW j \in Jobs, LateStep(j) PROVE QuietInv'
  <2>1. UNCHANGED <<jobs, halted>> /\ Jobs' = Jobs
    BY <1>8 DEF LateStep, LateReads, LateWrites, printVars, Jobs
  <2>2. CASE LateReads(j)
    <3>1. late[j] = "get" /\ jobs[j].owner \in Owners
      BY <1>1, <2>2 DEF LateReads
    <3>2. /\ late' = [late EXCEPT ![j] = IF batches[jobs[j].owner] = NoBatch THEN "over" ELSE "put"]
          /\ lateCopy' = [lateCopy EXCEPT ![j] = batches[jobs[j].owner]]
          /\ UNCHANGED batches
      BY <2>2 DEF LateReads
    <3> QED
      BY <1>1, <2>1, <3>1, <3>2 DEF QuietInv, MayPrintIn
  <2>3. CASE LateWrites(j)
    <3>1. late[j] = "put" /\ jobs[j].owner \in Owners /\ lateCopy[j] \in Batch
      BY <1>1, <2>3 DEF LateWrites
    <3>2. /\ late' = [late EXCEPT ![j] = "over"]
          /\ batches' = [batches EXCEPT ![jobs[j].owner] = [lateCopy[j] EXCEPT !.error = TRUE]]
          /\ lateCopy' = [lateCopy EXCEPT ![j] = NoBatch]
      BY <2>3 DEF LateWrites
    <3>3. [lateCopy[j] EXCEPT !.error = TRUE].active = lateCopy[j].active
      BY <3>1 DEF Batch
    <3> QED
      BY <1>1, <2>1, <3>1, <3>2, <3>3 DEF QuietInv, MayPrintIn
  <2> QED
    BY <1>8, <2>2, <2>3 DEF LateStep
<1>9. ASSUME NEW o \in Owners, BatchStep(o) PROVE QuietInv'
  <2>1. CASE PrintInBatch(o)
    BY <1>3, <2>1, BatchBegins
  <2>2. CASE Start(o)
    <3>1. /\ batches' \in [DOMAIN batches -> {batches'[p] : p \in DOMAIN batches}]
          /\ \A p \in Owners : p # o => batches'[p] = batches[p]
          /\ halted' = halted \ {o}
          /\ UNCHANGED <<jobs, late, lateCopy>>
      BY <1>1, <2>2 DEF Start, printVars
    <3> QED
      BY <1>1, <3>1 DEF QuietInv, MayPrintIn, Jobs
  <2>3. CASE StopReads(o)
    BY <1>2, <2>3 DEF StopReads, printVars
  <2>4. CASE StopWrites(o)
    <3>1. stopping[o] \in Batch
      BY <1>1, <2>4 DEF StopWrites
    <3>2. [stopping[o] EXCEPT !.active = FALSE].active = FALSE
      BY <3>1 DEF Batch
    <3>3. /\ batches' = [batches EXCEPT ![o] = [stopping[o] EXCEPT !.active = FALSE]]
          /\ halted' = IF ErrorPending(o) THEN halted ELSE halted \union {o}
          /\ UNCHANGED <<jobs, late, lateCopy>>
      BY <2>4 DEF StopWrites, printVars
    <3>4. \A p \in halted' : ~MayPrintIn(p)'
      BY <1>1, <3>2, <3>3 DEF QuietInv, MayPrintIn
    <3>5. \A j \in Jobs' : late'[j] = "put" /\ jobs'[j].owner \in halted' => ~lateCopy'[j].active
      BY <3>3 DEF QuietInv, ErrorPending, Jobs
    <3> QED
      BY <3>4, <3>5 DEF QuietInv
  <2> QED
    BY <1>9, <2>1, <2>2, <2>3, <2>4 DEF BatchStep
<1>10. CASE UNCHANGED vars
  BY <1>2, <1>10 DEF vars, batchVars, printVars
<1> QED
  BY <1>4, <1>5, <1>6, <1>7, <1>8, <1>9, <1>10 DEF Next

\* After a stop nothing is printed in the batch until it is started again,
\* for any number of operators, of prints whose errors come late and of
\* stops that overlap them.
THEOREM StoppedIsQuiet == Spec => QuietAfterStop
<1> DEFINE Quiet == Len(jobs') > Len(jobs) => jobs'[Len(jobs')].owner \notin halted
<1>1. ASSUME Typed, QuietInv, [Next]_vars PROVE Quiet
  <2>1. ASSUME NEW owner, JobBegins(owner), owner \notin halted PROVE Quiet
    <3>1. PICK job \in Job, step \in FirstSteps : job.owner = owner /\ Starts(job, step)
      BY <2>1 DEF JobBegins
    <3>2. jobs'[Len(jobs')] = job
      BY <1>1, <3>1, BeginAppends
    <3> QED
      BY <2>1, <3>1, <3>2
  <2>2. CASE PrintReceipt \/ Split
    <3>1. NoOwner \notin halted
      BY <1>1, PrintingAssumption DEF Typed, BatchesTyped
    <3> QED
      BY <1>1, <2>1, <2>2, <3>1, RequestBegins
  <2>3. ASSUME NEW o \in Owners, PrintInBatch(o) PROVE Quiet
    BY <1>1, <2>1, <2>3, BatchBegins DEF QuietInv
  <2>4. CASE UNCHANGED jobs
    BY <1>1, <2>4 DEF Typed, JobsTyped
  <2>6. ASSUME NEW j \in Jobs, Draw(j) PROVE Quiet
    <3>1. PICK new \in Job : jobs' = [jobs EXCEPT ![j] = new]
      BY <1>1, <2>6, DrawSteps
    <3>2. jobs \in Seq(Job)
      BY <1>1 DEF Typed, JobsTyped
    <3>3. Len(jobs') = Len(jobs) /\ Len(jobs) \in Nat
      BY <3>1, <3>2, Updated
    <3> QED
      BY <3>3
  <2>5. (\/ Desk \/ Restart
         \/ \E j \in Jobs : ErpRequest(j) \/ PrinterStep(j) \/ LateStep(j) \/ HangUp(j)
         \/ \E o \in Owners : Start(o) \/ StopReads(o) \/ StopWrites(o)
         \/ UNCHANGED vars) => UNCHANGED jobs
    BY DEF Desk, Restart, ErpRequest, CreateDraft, LearnPrint, Fetch, Post, PostMismatch, DeleteDraft,
           PrinterStep, PrintDone, PrintFails, LateStep, LateReads, LateWrites, HangUp,
           Start, StopReads, StopWrites, vars, printVars
  <2> QED
    BY <1>1, <2>2, <2>3, <2>4, <2>5, <2>6 DEF Next, BatchStep, ErpStep, ErpRequest
<1>2. Spec => []QuietInv
  <2>1. Init => QuietInv
    BY InitQuiet
  <2>2. Typed /\ QuietInv /\ [Next]_vars => QuietInv'
    BY StepQuiet
  <2> QED
    BY <2>1, <2>2, TypedHolds, PTL DEF Spec
<1>3. Typed /\ QuietInv /\ [Next]_vars => [Quiet]_vars
  BY <1>1
<1> QED
  BY <1>2, <1>3, TypedHolds, PTL DEF Spec, QuietAfterStop

-----------------------------------------------------------------------------
(***************************************************************************)
(* Sums over lists, and what a split puts into stock and takes out of it.  *)
(***************************************************************************)

\* The sums a list of numbers has been added up to.
Sums(f, s) ==
  /\ f \in [0 .. Len(s) -> Int] /\ f[0] = 0
  /\ \A i \in 1 .. Len(s) : f[i] = f[i - 1] + s[i]

LEMMA SumIs ==
  ASSUME NEW s \in Seq(Int)
  PROVE  \E f : Sums(f, s) /\ SumOf(s) = f[Len(s)]
<1> DEFINE n == Len(s)
           part(i) == s[i]
           next(f, i) == IF i = 0 THEN 0 ELSE f[i - 1] + part(i)
           Def(f, k) == f = [i \in 0 .. k |-> next(f, i)]
           Upto == CHOOSE f : Def(f, n)
           defined == {k \in 0 .. n : \E f \in [0 .. k -> Int] : Def(f, k)}
<1>1. SumOf(s) = Upto[n]
  BY Zenon DEF SumOf
<1>2. n \in Nat /\ \A i \in 1 .. n : part(i) \in Int /\ part(i) = s[i]
  OBVIOUS
<1> HIDE DEF n, part
<1>3. 0 \in defined
  <2> DEFINE f == [i \in 0 .. 0 |-> 0]
  <2>1. f \in [0 .. 0 -> Int] /\ f = [i \in 0 .. 0 |-> f[i]]
    OBVIOUS
  <2>2. \A i \in 0 .. 0 : f[i] = next(f, i)
    OBVIOUS
  <2> HIDE DEF f, next
  <2>3. Def(f, 0)
    BY <2>1, <2>2
  <2> HIDE DEF Def
  <2> QED
    BY <1>2, <2>1, <2>3
<1>4. ASSUME NEW k \in 1 .. n, k - 1 \in defined PROVE k \in defined
  <2>1. PICK f \in [0 .. k - 1 -> Int] : Def(f, k - 1)
    BY <1>4
  <2> DEFINE h == [i \in 0 .. k |-> IF i = k THEN f[k - 1] + part(k) ELSE f[i]]
  <2>2. h \in [0 .. k -> Int]
    BY <1>2
  <2>3. \A i \in 0 .. k - 1 : f[i] = next(f, i)
    <3> HIDE DEF next
    <3> QED
      BY <2>1
  <2>4. \A i \in 0 .. k : h[i] = next(h, i)
    BY <2>3
  <2>5. h = [i \in 0 .. k |-> h[i]]
    OBVIOUS
  <2> HIDE DEF h, next
  <2>6. Def(h, k)
    BY <2>4, <2>5
  <2> HIDE DEF Def
  <2>7. \E g \in [0 .. k -> Int] : Def(g, k)
    BY <2>2, <2>6, Zenon
  <2>8. k \in 0 .. n
    BY <1>2
  <2> QED
    BY <2>7, <2>8
<1>5. defined = 0 .. n
  <2>1. defined \in SUBSET (0 .. n)
    BY DEF defined
  <2> HIDE DEF defined
  <2> QED
    BY <1>2, <1>3, <1>4, <2>1, StepByStep
<1>6. Def(Upto, n)
  <2> HIDE DEF Def
  <2>1. \E f : Def(f, n)
    BY <1>2, <1>5
  <2> QED
    BY <2>1
<1> HIDE DEF Upto
<1>7. \A i \in 0 .. n : Upto[i] = next(Upto, i)
  <2> HIDE DEF next
  <2> QED
    BY <1>6
<1>8. /\ Upto[0] = 0
      /\ \A i \in 1 .. n : Upto[i] = Upto[i - 1] + s[i]
  BY <1>2, <1>7
<1> DEFINE whole == {i \in 0 .. n : Upto[i] \in Int}
<1>9. whole = 0 .. n
  <2>1. 0 \in whole /\ whole \in SUBSET (0 .. n)
    BY <1>2, <1>8
  <2>2. ASSUME NEW i \in 1 .. n, i - 1 \in whole PROVE i \in whole
    BY <1>2, <1>8, <2>2
  <2> HIDE DEF whole
  <2> QED
    BY <1>2, <2>1, <2>2, StepByStep
<1>10. Upto = [i \in 0 .. n |-> Upto[i]]
  BY <1>6
<1>11. Upto \in [0 .. n -> Int]
  BY <1>9, <1>10
<1> QED
  BY <1>1, <1>8, <1>11 DEF n, Sums

\* A number put in front is added; nothing but zeros adds up to zero.
LEMMA SumGrows ==
  ASSUME NEW s \in Seq(Int), NEW v \in Int, NEW t \in Seq(Int),
         Len(t) = Len(s) + 1, t[1] = v, \A i \in 1 .. Len(s) : t[i + 1] = s[i]
  PROVE  SumOf(t) = v + SumOf(s)
<1>1. PICK f : Sums(f, s) /\ SumOf(s) = f[Len(s)]
  BY SumIs
<1>2. PICK g : Sums(g, t) /\ SumOf(t) = g[Len(t)]
  BY SumIs
<1>3. Len(s) \in Nat /\ \A i \in 1 .. Len(s) : s[i] \in Int
  OBVIOUS
<1> DEFINE agree == {i \in 0 .. Len(s) : g[i + 1] = v + f[i]}
<1>4. f[0] = 0 /\ \A i \in 1 .. Len(s) : f[i] \in Int /\ f[i - 1] \in Int /\ f[i] = f[i - 1] + s[i]
  <2>1. \A i \in 1 .. Len(s) : i \in 0 .. Len(s) /\ i - 1 \in 0 .. Len(s)
    BY <1>3
  <2> QED
    BY <1>1, <2>1 DEF Sums
<1>5. /\ g[0] = 0
      /\ \A i \in 1 .. Len(s) + 1 : g[i] \in Int /\ g[i] = g[i - 1] + t[i]
  <2>1. \A i \in 1 .. Len(s) + 1 : i \in 0 .. Len(t)
    BY <1>3
  <2> QED
    BY <1>2, <2>1 DEF Sums
<1>6. 0 \in agree /\ agree \in SUBSET (0 .. Len(s))
  <2>1. g[1] = g[0] + t[1]
    BY <1>3, <1>5
  <2> QED
    BY <1>3, <1>4, <1>5, <2>1
<1>7. ASSUME NEW i \in 1 .. Len(s), i - 1 \in agree PROVE i \in agree
  <2>1. g[i + 1] = g[i] + s[i] /\ g[i] = v + f[i - 1]
    <3>1. i + 1 \in 1 .. Len(s) + 1 /\ (i + 1) - 1 = i /\ (i - 1) + 1 = i
      BY <1>3
    <3>2. g[i + 1] = g[(i + 1) - 1] + t[i + 1]
      BY <1>5, <3>1
    <3> QED
      BY <1>7, <3>1, <3>2
  <2>2. f[i] = f[i - 1] + s[i] /\ f[i - 1] \in Int /\ s[i] \in Int
    BY <1>3, <1>4
  <2>3. g[i + 1] = v + f[i]
    <3> HIDE DEF agree
    <3> QED
      BY <2>1, <2>2
  <2> QED
    BY <1>3, <2>3
<1>8. agree = 0 .. Len(s)
  <2> HIDE DEF agree
  <2> QED
    BY <1>3, <1>6, <1>7, StepByStep
<1> QED
  BY <1>1, <1>2, <1>3, <1>8

LEMMA ZerosAddUp ==
  ASSUME NEW s \in Seq(Int), \A i \in 1 .. Len(s) : s[i] = 0
  PROVE  SumOf(s) = 0
<1>1. PICK f : Sums(f, s) /\ SumOf(s) = f[Len(s)]
  BY SumIs
<1>2. Len(s) \in Nat
  OBVIOUS
<1> DEFINE zero == {i \in 0 .. Len(s) : f[i] = 0}
<1>3. 0 \in zero /\ zero \in SUBSET (0 .. Len(s))
  BY <1>1, <1>2 DEF Sums
<1>4. ASSUME NEW i \in 1 .. Len(s), i - 1 \in zero PROVE i \in zero
  <2>1. f[i] = f[i - 1] + s[i]
    BY <1>1 DEF Sums
  <2> QED
    BY <1>2, <1>4, <2>1
<1>5. zero = 0 .. Len(s)
  <2> HIDE DEF zero
  <2> QED
    BY <1>2, <1>3, <1>4, StepByStep
<1> QED
  BY <1>1, <1>2, <1>5


LEMMA RepackConserves ==
  ASSUME NEW source \in Source, NEW outputs \in Seq(Outputs), TotalQty(outputs) = source.qty
  PROVE  Conserves(RepackLines(source, outputs))
<1> DEFINE n == Len(outputs)
           first == RepackSourceLine(source)
           rest == [i \in DOMAIN outputs |-> RepackOutputLine(outputs[i])]
           lines == RepackLines(source, outputs)
           qtys == [i \in DOMAIN outputs |-> outputs[i].qty]
           zeros == [i \in 1 .. n |-> 0]
<1>1. n \in Nat /\ DOMAIN outputs = 1 .. n
  OBVIOUS
<1>2. \A i \in 1 .. n : outputs[i].qty \in Int
  <2>1. \A i \in 1 .. n : outputs[i] \in Outputs
    BY <1>1
  <2> QED
    BY <2>1 DEF Outputs
<1>3. first.qty = source.qty /\ ~first.in /\ source.qty \in Int
  BY DEF RepackSourceLine, Line, Source
<1>4. \A i \in 1 .. n : rest[i].qty = outputs[i].qty /\ rest[i].in
  BY <1>1 DEF RepackOutputLine, Line
<1>5. /\ DOMAIN lines = 1 .. n + 1 /\ lines[1] = first
      /\ \A i \in 1 .. n : lines[i + 1] = rest[i]
  <2> DEFINE Whatever == {first} \union {rest[i] : i \in 1 .. n}
  <2>1. rest \in [1 .. n -> Whatever] /\ first \in Whatever
    BY <1>1
  <2>2. lines = <<first>> \o rest
    BY DEF RepackLines
  <2> HIDE DEF n, first, rest, lines, Whatever
  <2>3. rest \in Seq(Whatever) /\ Len(rest) = n
    BY <1>1, <2>1, Listed
  <2>4. <<first>> \in Seq(Whatever) /\ Len(<<first>>) = 1
    BY <2>1
  <2>5. lines \in Seq(Whatever) /\ Len(lines) = n + 1
    BY <1>1, <2>2, <2>3, <2>4
  <2> QED
    BY <1>1, <2>2, <2>3, <2>4, <2>5
<1>6. qtys \in Seq(Int) /\ Len(qtys) = n /\ \A i \in 1 .. n : qtys[i] = outputs[i].qty
  BY <1>1, <1>2
<1>7. zeros \in Seq(Int) /\ Len(zeros) = n /\ \A i \in 1 .. n : zeros[i] = 0
  BY <1>1
<1>8. SumOf(qtys) = source.qty /\ SumOf(zeros) = 0
  BY <1>7, ZerosAddUp DEF TotalQty
<1> HIDE DEF n, first, rest, lines, qtys, zeros
<1>9. SumOf(Put(lines)) = 0 + SumOf(qtys)
  <2> DEFINE put == Put(lines)
  <2>1. put = [i \in 1 .. n + 1 |-> IF lines[i].in THEN lines[i].qty ELSE 0]
    BY <1>5 DEF Put
  <2>2. put[1] = 0 /\ \A i \in 1 .. n : put[i + 1] = qtys[i]
    <3>1. 1 \in 1 .. n + 1 /\ \A i \in 1 .. n : i + 1 \in 1 .. n + 1
      BY <1>1
    <3> HIDE DEF put
    <3> QED
      BY <1>3, <1>4, <1>5, <1>6, <2>1, <3>1
  <2>3. \A i \in 1 .. n + 1 : put[i] \in Int
    <3>1. \A i \in 1 .. n + 1 : i = 1 \/ (i - 1 \in 1 .. n /\ (i - 1) + 1 = i)
      BY <1>1
    <3> HIDE DEF put
    <3> QED
      BY <1>2, <1>6, <2>2, <3>1
  <2>4. put \in [1 .. n + 1 -> Int]
    BY <2>1, <2>3
  <2> HIDE DEF put
  <2>5. put \in Seq(Int) /\ Len(put) = n + 1
    BY <1>1, <2>4, Listed
  <2>6. ASSUME NEW v \in Int, v = 0 PROVE SumOf(put) = v + SumOf(qtys)
    BY <1>6, <2>2, <2>5, <2>6, SumGrows
  <2> QED
    BY <2>6 DEF put
<1>10. SumOf(Taken(lines)) = source.qty + SumOf(zeros)
  <2> DEFINE taken == Taken(lines)
  <2>1. taken = [i \in 1 .. n + 1 |-> IF lines[i].in THEN 0 ELSE lines[i].qty]
    BY <1>5 DEF Taken
  <2>2. taken[1] = source.qty /\ \A i \in 1 .. n : taken[i + 1] = zeros[i]
    <3>1. 1 \in 1 .. n + 1 /\ \A i \in 1 .. n : i + 1 \in 1 .. n + 1
      BY <1>1
    <3> HIDE DEF taken
    <3> QED
      BY <1>3, <1>4, <1>5, <1>7, <2>1, <3>1
  <2>3. \A i \in 1 .. n + 1 : taken[i] \in Int
    <3>1. \A i \in 1 .. n + 1 : i = 1 \/ (i - 1 \in 1 .. n /\ (i - 1) + 1 = i)
      BY <1>1
    <3> HIDE DEF taken
    <3> QED
      BY <1>3, <1>7, <2>2, <3>1
  <2>4. taken \in [1 .. n + 1 -> Int]
    BY <2>1, <2>3
  <2> HIDE DEF taken
  <2>5. taken \in Seq(Int) /\ Len(taken) = n + 1
    BY <1>1, <2>4, Listed
  <2> QED
    BY <1>3, <1>7, <2>2, <2>5, SumGrows DEF taken
<1> QED
  BY <1>3, <1>8, <1>9, <1>10 DEF Conserves, lines

\* Documents are added; the lines of one that is there do not change.
LinesStay ==
  /\ DOMAIN entries \subseteq DOMAIN entries'
  /\ \A e \in DOMAIN entries :
       entries'[e].kind = entries[e].kind /\ entries'[e].lines = entries[e].lines

LEMMA RewrittenStays ==
  ASSUME EntriesTyped, NEW e \in DOMAIN entries, NEW new \in EntryType,
         new.kind = entries[e].kind, new.lines = entries[e].lines,
         entries' = [entries EXCEPT ![e] = new]
  PROVE  LinesStay /\ DOMAIN entries' = DOMAIN entries
<1>1. entries \in Seq(EntryType)
  BY DEF EntriesTyped
<1> QED
  BY <1>1, Updated DEF LinesStay

LEMMA SubmittedStays ==
  ASSUME EntriesTyped, NEW e \in DOMAIN entries, NEW outcome, Submitted(e, outcome)
  PROVE  LinesStay /\ DOMAIN entries' = DOMAIN entries
<1>1. entries[e] \in EntryType /\ stamp \in Nat
  BY DEF EntriesTyped
<1>2. CASE outcome = "refused"
  BY <1>2 DEF Submitted, LinesStay
<1>3. CASE outcome # "refused"
  <2> DEFINE mid == [entries[e] EXCEPT !.status = "submitted"]
             new == [mid EXCEPT !.modified = stamp + 1]
  <2>1. mid \in EntryType /\ mid.kind = entries[e].kind /\ mid.lines = entries[e].lines
    BY <1>1 DEF EntryType
  <2>2. entries' = [entries EXCEPT ![e] = new]
    BY <1>3, Zenon DEF Submitted
  <2> HIDE DEF mid
  <2>3. new \in EntryType /\ new.kind = entries[e].kind /\ new.lines = entries[e].lines
    BY <1>1, <2>1 DEF EntryType
  <2> HIDE DEF new
  <2> QED
    BY <2>2, <2>3, RewrittenStays
<1> QED
  BY <1>2, <1>3

LEMMA DeletedStays ==
  ASSUME EntriesTyped, NEW e \in DOMAIN entries, NEW outcome, Deleted(e, outcome)
  PROVE  LinesStay /\ DOMAIN entries' = DOMAIN entries
<1>1. entries[e] \in EntryType
  BY DEF EntriesTyped
<1>2. CASE outcome = "refused"
  BY <1>2 DEF Deleted, LinesStay
<1>3. CASE outcome # "refused"
  <2> DEFINE new == [entries[e] EXCEPT !.status = "deleted"]
  <2>1. new \in EntryType /\ new.kind = entries[e].kind /\ new.lines = entries[e].lines
    BY <1>1 DEF EntryType
  <2>2. entries' = [entries EXCEPT ![e] = new]
    BY <1>3, Zenon DEF Deleted
  <2> HIDE DEF new
  <2> QED
    BY <2>1, <2>2, RewrittenStays
<1> QED
  BY <1>2, <1>3

LEMMA DeskEditStays ==
  ASSUME EntriesTyped, NEW e \in DOMAIN entries, DeskEdit(e)
  PROVE  LinesStay /\ DOMAIN entries' = DOMAIN entries
<1>1. entries[e] \in EntryType /\ stamp \in Nat
  BY DEF EntriesTyped
<1> DEFINE new == [entries[e] EXCEPT !.modified = stamp + 1]
<1>2. new \in EntryType /\ new.kind = entries[e].kind /\ new.lines = entries[e].lines
  BY <1>1 DEF EntryType
<1>3. entries' = [entries EXCEPT ![e] = new]
  BY Zenon DEF DeskEdit
<1> HIDE DEF new
<1> QED
  BY <1>2, <1>3, RewrittenStays

\* What a split is going to put into stock weighs what it takes out, and so
\* does every document that was made of one.
Weighed == \A j \in Jobs : ~IsReceipt(j) => TotalQty(jobs[j].lines) = jobs[j].source.qty
ConservingInv == Weighed /\ SplitsConserve

\* No document is added, and none of the jobs changes.
LEMMA ElsewhereConserves ==
  ASSUME ConservingInv, UNCHANGED jobs, LinesStay, DOMAIN entries' = DOMAIN entries
  PROVE  ConservingInv'
<1>1. Jobs' = Jobs /\ \A j : IsReceipt(j)' <=> IsReceipt(j)
  BY DEF Jobs, IsReceipt
<1>2. Weighed'
  BY <1>1 DEF ConservingInv, Weighed
<1>3. SplitsConserve'
  BY DEF ConservingInv, SplitsConserve, LinesStay, Conserves, Put, Taken
<1> QED
  BY <1>2, <1>3 DEF ConservingInv

LEMMA UntouchedConserves ==
  ASSUME ConservingInv, UNCHANGED <<jobs, entries>>
  PROVE  ConservingInv'
BY ElsewhereConserves DEF LinesStay

LEMMA BeginConserves ==
  ASSUME Typed, ConservingInv, NEW owner, JobBegins(owner)
  PROVE  ConservingInv'
<1>1. PICK job \in Job, step \in FirstSteps : Proper(job) /\ Starts(job, step)
  BY DEF JobBegins
<1>2. Starts(job, step)
  BY <1>1
<1>3. /\ jobs'[Len(jobs) + 1] = job
      /\ \A j \in Jobs : jobs'[j] = jobs[j]
      /\ \A j \in Jobs' : j \in Jobs \/ j = Len(jobs) + 1
  BY <1>2, BeginAppends
<1>4. entries' = entries
  BY <1>2 DEF Starts
<1>5. Weighed'
  <2> SUFFICES ASSUME NEW j \in Jobs', jobs'[j].kind # "receipt"
               PROVE  TotalQty(jobs'[j].lines) = jobs'[j].source.qty
    BY DEF Weighed, IsReceipt, TotalQty
  <2>1. CASE j \in Jobs
    BY <1>3, <2>1 DEF ConservingInv, Weighed, IsReceipt
  <2>2. CASE j = Len(jobs) + 1
    BY <1>1, <1>3, <2>2 DEF Proper
  <2> QED
    BY <1>3, <2>1, <2>2
<1>6. SplitsConserve'
  BY <1>4 DEF ConservingInv, SplitsConserve
<1> QED
  BY <1>5, <1>6 DEF ConservingInv

\* The document of a split is made of a job that weighs what it takes.
LEMMA CreateConserves ==
  ASSUME Typed, ConservingInv, NEW j \in Jobs, CreateDraft(j)
  PROVE  ConservingInv'
<1>1. PICK outcome \in Outcomes : Created(jobs[j].kind, LinesOf(j), outcome)
  BY DEF CreateDraft
<1>2. UNCHANGED jobs
  BY DEF CreateDraft
<1>3. CASE outcome = "refused"
  BY <1>1, <1>2, <1>3, UntouchedConserves DEF Created
<1>4. CASE outcome # "refused"
  <2> DEFINE new == Entry(jobs[j].kind, LinesOf(j))
             n == Len(entries)
  <2>1. entries' = Append(entries, new)
    BY <1>1, <1>4 DEF Created
  <2>2. new.kind = jobs[j].kind /\ new.lines = LinesOf(j) /\ new \in EntryType
    <3>1. jobs[j].kind \in Kinds /\ LinesOf(j) \in Seq(LineType) /\ stamp \in Nat
      BY JobTyped, LinesOfTyped DEF Typed, EntriesTyped
    <3> QED
      BY <3>1 DEF Entry, EntryType
  <2>3. entries \in Seq(EntryType)
    BY DEF Typed, EntriesTyped
  <2> HIDE DEF new
  <2>4. /\ entries'[n + 1] = new /\ DOMAIN entries' = 1 .. n + 1 /\ DOMAIN entries = 1 .. n
        /\ \A e \in 1 .. n : entries'[e] = entries[e]
        /\ n \in Nat
    BY <2>1, <2>2, <2>3
  <2>5. new.kind = "split" => Conserves(new.lines)
    <3> SUFFICES ASSUME jobs[j].kind = "split" PROVE Conserves(LinesOf(j))
      BY <2>2
    <3>1. ~IsReceipt(j)
      BY DEF IsReceipt
    <3>2. /\ jobs[j].source \in Source /\ jobs[j].lines \in Seq(Outputs)
          /\ TotalQty(jobs[j].lines) = jobs[j].source.qty
      BY <3>1, JobTyped DEF Typed, JobsTyped, ConservingInv, Weighed
    <3> QED
      BY <3>1, <3>2, RepackConserves DEF LinesOf
  <2>6. SplitsConserve'
    <3> SUFFICES ASSUME NEW e \in DOMAIN entries', entries'[e].kind = "split"
                 PROVE  Conserves(entries'[e].lines)
      BY DEF SplitsConserve, Conserves, Put, Taken
    <3>1. e \in 1 .. n \/ e = n + 1
      <4> HIDE DEF n
      <4> QED
        BY <2>4
    <3>2. CASE e \in 1 .. n
      BY <2>4, <3>2 DEF ConservingInv, SplitsConserve
    <3>3. CASE e = n + 1
      BY <2>4, <2>5, <3>3
    <3> QED
      BY <3>1, <3>2, <3>3
  <2>7. Weighed'
    <3>1. Jobs' = Jobs
      BY <1>2 DEF Jobs
    <3> QED
      BY <1>2, <3>1 DEF ConservingInv, Weighed, IsReceipt
  <2> QED
    BY <2>6, <2>7 DEF ConservingInv
<1> QED
  BY <1>3, <1>4

LEMMA DrawConserves ==
  ASSUME Typed, ConservingInv, NEW j \in Jobs, Draw(j)
  PROVE  ConservingInv'
<1>1. PICK new \in Job : SameWork(new, jobs[j]) /\ jobs' = [jobs EXCEPT ![j] = new]
  BY DrawSteps
<1>2. entries' = entries
  BY DrawSteps DEF erpVars
<1>3. jobs \in Seq(Job)
  BY DEF Typed, JobsTyped
<1>4. /\ Jobs' = Jobs /\ jobs'[j] = new
      /\ \A k \in Jobs : k # j => jobs'[k] = jobs[k]
  BY <1>1, <1>3, Updated DEF Jobs
<1>5. TotalQty(new.lines) = TotalQty(jobs[j].lines)
  BY <1>1, SameWeight
<1>6. Weighed'
  <2> SUFFICES ASSUME NEW k \in Jobs, jobs'[k].kind # "receipt"
               PROVE  TotalQty(jobs'[k].lines) = jobs'[k].source.qty
    BY <1>4 DEF Weighed, IsReceipt, TotalQty
  <2>1. jobs'[k].kind = jobs[k].kind /\ jobs'[k].source = jobs[k].source
    BY <1>1, <1>4 DEF SameWork
  <2>2. TotalQty(jobs'[k].lines) = TotalQty(jobs[k].lines)
    BY <1>4, <1>5
  <2> QED
    BY <2>1, <2>2 DEF ConservingInv, Weighed, IsReceipt
<1>7. SplitsConserve'
  BY <1>2 DEF ConservingInv, SplitsConserve
<1> QED
  BY <1>6, <1>7 DEF ConservingInv

LEMMA StepConserves ==
  ASSUME Typed, ConservingInv, [Next]_vars
  PROVE  ConservingInv'
<1>1. ASSUME NEW owner, JobBegins(owner) PROVE ConservingInv'
  BY <1>1, BeginConserves
<1>2. CASE PrintReceipt \/ Split
  BY <1>1, <1>2, RequestBegins
<1>3. CASE Desk
  <2>1. PICK e \in DOMAIN entries : DeskEdit(e)
    BY <1>3, DraftIsEntry DEF Desk, Drafted
  <2>2. UNCHANGED jobs
    BY <1>3 DEF Desk, printVars
  <2> QED
    BY <2>1, <2>2, DeskEditStays, ElsewhereConserves DEF Typed
<1>4. ASSUME UNCHANGED <<jobs, entries>> PROVE ConservingInv'
  BY <1>4, UntouchedConserves
<1>5. ASSUME NEW j \in Jobs, Post(j) PROVE ConservingInv'
  <2>1. PICK outcome \in Outcomes : Submitted(draft[j], outcome)
    BY <1>5 DEF Post
  <2>2. draft[j] \in DOMAIN entries /\ UNCHANGED jobs
    BY <1>5, DraftIsEntry DEF Post, Drafted
  <2> QED
    BY <2>1, <2>2, SubmittedStays, ElsewhereConserves DEF Typed
<1>6. ASSUME NEW j \in Jobs, DeleteDraft(j) PROVE ConservingInv'
  <2>1. PICK outcome \in Outcomes : Deleted(draft[j], outcome)
    BY <1>6 DEF DeleteDraft
  <2>2. draft[j] \in DOMAIN entries /\ UNCHANGED jobs
    BY <1>6, DraftIsEntry DEF DeleteDraft, Drafted
  <2> QED
    BY <2>1, <2>2, DeletedStays, ElsewhereConserves DEF Typed
<1>7. ASSUME NEW j \in Jobs, LearnPrint(j) \/ Fetch(j) \/ PostMismatch(j) \/ PrinterStep(j)
                             \/ LateStep(j) \/ HangUp(j)
      PROVE  UNCHANGED <<jobs, entries>>
  BY <1>7 DEF LearnPrint, Fetch, PostMismatch, PrinterStep, PrintDone, PrintFails,
              LateStep, LateReads, LateWrites, HangUp, printVars, erpVars
<1>8. ASSUME NEW j \in Jobs, ErpStep(j) \/ PrinterStep(j) \/ LateStep(j) \/ HangUp(j)
      PROVE  ConservingInv'
  BY <1>4, <1>5, <1>6, <1>7, <1>8, CreateConserves, DrawConserves DEF ErpStep
<1>9. ASSUME NEW o \in Owners, BatchStep(o) PROVE ConservingInv'
  <2>1. CASE PrintInBatch(o)
    BY <1>1, <2>1, BatchBegins
  <2>2. CASE Start(o) \/ StopReads(o) \/ StopWrites(o)
    BY <1>4, <2>2 DEF Start, StopReads, StopWrites, printVars, erpVars
  <2> QED
    BY <1>9, <2>1, <2>2 DEF BatchStep
<1>10. CASE Restart \/ UNCHANGED vars
  BY <1>4, <1>10 DEF Restart, vars, printVars, erpVars
<1> QED
  BY <1>2, <1>3, <1>8, <1>9, <1>10 DEF Next

\* A split neither makes nor loses material, for any number of outputs, with
\* or without labels, and for rolls that come out of splits themselves: what
\* is checked of the request is what is booked, whatever is lost, cut off or
\* edited on the desk in between.
THEOREM SplitsAreConserved == Spec => []SplitsConserve
<1>1. Init => ConservingInv
  BY DEF Init, Roll, ConservingInv, Weighed, SplitsConserve, Jobs
<1>2. Typed /\ ConservingInv /\ [Next]_vars => ConservingInv'
  BY StepConserves
<1>3. ConservingInv => SplitsConserve
  BY DEF ConservingInv
<1> QED
  BY <1>1, <1>2, <1>3, TypedHolds, PTL DEF Spec
=============================================================================
