---------------------------- MODULE DeliveryNotes ----------------------------
(***************************************************************************)
(* Goods that leave: the warehouse issues a product to a customer as a     *)
(* Delivery Note of ERPNext, perhaps from a scanned source that must not   *)
(* be issued twice; the customer accepts, rejects or accepts in part, or   *)
(* claims after accepting, and what comes back becomes a return note.      *)
(* What the phone applications show is kept in custom fields of the note.  *)
(***************************************************************************)
EXTENDS StockRequests

CONSTANTS
  Customers,
  IssueRequests,  \* sequences of [customer, qty, key]: one line, or a batch
  Responses,      \* [mode, returned] of customers
  SearchLimit,    \* rows one search through ERPNext reads
  MaxNotes        \* bound

(* What issue requests name as scanned sources, None for the others.       *)
Sources ==
  {None} \cup UNION {{lines[i].key : i \in DOMAIN lines} : lines \in IssueRequests}

(* A request without lines is refused at once.                             *)
ASSUME NotesAssumption ==
  /\ IssueRequests \subseteq Seq([customer : Customers, qty : Int, key : Sources]) \ {<<>>}
  /\ IsFiniteSet(Customers) /\ {SearchLimit, MaxNotes} \subseteq Nat

VARIABLES
  notes,      \* the Delivery Notes of ERPNext, by number
  returns     \* and the return notes: [of, qty, status]

noteVars == <<notes, returns>>

Note(n) == <<"note", n>>

(* accord_customer_state *)
PENDING == 1
REJECTED == 2
CONFIRMED == 3
PARTIAL == 4

(* "checked" is a history variable: the notes there were when the source   *)
(* of this one was looked up, 0 if there were more than the search reads.  *)
NewNote(line, checked) ==
  [status |-> "draft", customer |-> line.customer, qty |-> line.qty, key |-> line.key,
   flow |-> 0, state |-> 0, decision |-> None, rev |-> 0, checked |-> checked]

Exists(n) == n \in DOMAIN notes /\ notes[n].status # "deleted"
StoredNote(n, doc) == notes' = [notes EXCEPT ![n] = [doc EXCEPT !.rev = notes[n].rev + 1]]

ReturnsOf(n) == {r \in DOMAIN returns : returns[r].of = n /\ returns[r].status = "submitted"}
Total(rs, S) ==
  LET Sum[r \in 0 .. Len(rs)] ==
        IF r = 0 THEN 0 ELSE Sum[r - 1] + (IF r \in S THEN rs[r].qty ELSE 0)
  IN  Sum[Len(rs)]
Returned(n) == Total(returns, ReturnsOf(n))

-----------------------------------------------------------------------------
(* ERPNext *)

(* PUT of some custom fields or of the remarks: no comparison of versions. *)
PutFields(n, doc, outcome) ==
  /\ outcome # "refused" => notes[n].status \in {"draft", "submitted"}
  /\ Answered(outcome, notes[n].status \notin {"draft", "submitted"})
  /\ IF outcome = "refused" THEN UNCHANGED notes ELSE StoredNote(n, doc)
PutState(n, state, outcome) ==
  PutFields(n, [notes[n] EXCEPT !.flow = 1, !.state = state], outcome)

-----------------------------------------------------------------------------
(* The warehouse issues *)

(* customer_issue_source_exists asks the database for any note; when that  *)
(* cannot be read directly, ..._by_scan asks ERPNext for the customer's,   *)
(* the last names first and no more than SearchLimit rows. The customer's  *)
(* return notes are among the rows and hold no source; they are named      *)
(* apart, so how many of them come before a note is left open.             *)
LiveStatus_Submitted == {"submitted"}

LiveStatus == {"draft", "submitted"}

LiveNotes == {n \in DOMAIN notes : notes[n].status \in LiveStatus}
NotesOf(c) == {n \in LiveNotes : notes[n].customer = c}
ReturnRows(c) == {r \in DOMAIN returns : notes[returns[r].of].customer = c}
Newest(S, limit) == {n \in S : Cardinality({m \in S : m > n}) < limit}

SearchEnds(line) ==
  DirectDb \/ Cardinality(NotesOf(line.customer)) + Cardinality(ReturnRows(line.customer))
                 <= SearchLimit
Searched(line) ==
  IF DirectDb THEN {LiveNotes}
  ELSE {Newest(NotesOf(line.customer), SearchLimit - before) :
          before \in 0 .. Cardinality(ReturnRows(line.customer))}
SourceExists(line, read) == line.key # None /\ \E n \in read : notes[n].key = line.key

Issue(h, lines) ==
  /\ Begin(h, "issue", "check", Note(None), [lines |-> lines])
  /\ UNCHANGED noteVars

(* The next line of a batch begins whatever became of this one.            *)
EndLine(h, result) ==
  LET rest == Tail(jobs[h].arg.lines)
  IN  IF rest = <<>> THEN Finish(h, result)
      ELSE Continue(h, [jobs[h] EXCEPT !.pc = "check", !.doc = Note(None), !.attempt = 0,
                          !.lost = FALSE, !.copy = None, !.arg = [lines |-> rest]])

CheckSource(h) ==
  /\ At(h, "check")
  /\ UNCHANGED noteVars
  /\ \/ /\ UNCHANGED faults
        /\ LET line == Head(jobs[h].arg.lines)
           IN  \E read \in Searched(line) :
                 IF SourceExists(line, read) THEN EndLine(h, "error")
                 ELSE Continue(h, [jobs[h] EXCEPT !.pc = "create",
                                     !.copy = IF SearchEnds(line) THEN Len(notes) ELSE 0])
     \/ faults < MaxFaults /\ faults' = faults + 1 /\ EndLine(h, "error")

(* create_draft_delivery_note, after the item, the warehouse and the       *)
(* company were read.                                                      *)
CreateNote(h) ==
  /\ At(h, "create") /\ jobs[h].doc = Note(None)
  /\ UNCHANGED returns
  /\ LET line == Head(jobs[h].arg.lines)
     IN  IF line.qty <= 0 THEN EndLine(h, "error") /\ UNCHANGED <<notes, faults>>
         ELSE /\ Len(notes) < MaxNotes
              /\ \E outcome \in Outcomes :
                   /\ Faulty(outcome)
                   /\ notes' = IF outcome = "refused" THEN notes
                               ELSE Append(notes, NewNote(line, jobs[h].copy))
                   /\ CASE outcome = "ok" ->
                             Continue(h, [jobs[h] EXCEPT !.pc = "open",
                                                         !.doc = Note(Len(notes) + 1)])
                        [] outcome = "lost" -> EndLine(h, "lost")
                        [] OTHER -> EndLine(h, "error")

(* The note becomes visible to the customer before it is submitted.        *)
OpenNote_Later(h) == At(h, "open") /\ Go(h, "latest") /\ UNCHANGED <<noteVars, faults>>

OpenNote(h) ==
  /\ At(h, "open")
  /\ UNCHANGED returns
  /\ \E outcome \in Outcomes :
       /\ PutState(jobs[h].doc[2], PENDING, outcome)
       /\ Go(h, IF outcome = "ok" THEN "latest" ELSE "delete")

ReadNote(h) ==
  /\ At(h, "latest") /\ jobs[h].doc[1] = "note"
  /\ UNCHANGED noteVars
  /\ \/ /\ Exists(jobs[h].doc[2])
        /\ UNCHANGED faults
        /\ Continue(h, [jobs[h] EXCEPT !.pc = "submit", !.copy = notes[jobs[h].doc[2]].rev])
     \/ ReadFails(h, [jobs[h] EXCEPT !.pc = "delete"])

AfterSubmitNote_Keep(h, outcome) ==
  IF outcome = "ok" THEN EndLine(h, "ok")
  ELSE EndLine(h, IF outcome = "lost" THEN "lost" ELSE "error")

AfterSubmitNote(h, outcome) ==
  IF outcome = "ok" THEN EndLine(h, "ok") ELSE Go(h, "delete")

SubmitNote(h) ==
  /\ At(h, "submit") /\ jobs[h].doc[1] = "note"
  /\ UNCHANGED returns
  /\ LET n == jobs[h].doc[2]
     IN  IF notes[n].rev # jobs[h].copy
         THEN /\ IF jobs[h].attempt = 0
                 THEN Continue(h, [jobs[h] EXCEPT !.pc = "latest", !.attempt = 1])
                 ELSE Go(h, "delete")
              /\ UNCHANGED <<notes, faults>>
         ELSE \E outcome \in Outcomes :
                /\ outcome # "refused" => notes[n].status = "draft"
                /\ Answered(outcome, notes[n].status # "draft")
                /\ IF outcome = "refused" THEN UNCHANGED notes
                   ELSE StoredNote(n, [notes[n] EXCEPT !.status = "submitted"])
                /\ AfterSubmitNote(h, outcome)

(* How the deletion ends is ignored. ERPNext deletes drafts only.          *)
DeleteNote(h) ==
  /\ At(h, "delete")
  /\ UNCHANGED returns
  /\ LET n == jobs[h].doc[2]
     IN  \E outcome \in Outcomes :
           /\ outcome # "refused" => notes[n].status = "draft"
           /\ Answered(outcome, notes[n].status # "draft")
           /\ IF outcome = "refused" THEN UNCHANGED notes
              ELSE StoredNote(n, [notes[n] EXCEPT !.status = "deleted"])
           /\ EndLine(h, IF outcome = "refused" THEN "lost" ELSE "error")

-----------------------------------------------------------------------------
(* The customer answers *)

(* customer_delivery_status *)
StatusOf(doc) ==
  IF doc.status # "submitted" THEN "draft"
  ELSE IF doc.flow # 1 THEN "pending"
  ELSE CASE doc.state = REJECTED -> "rejected"
         [] doc.state = CONFIRMED -> "accepted"
         [] doc.state = PARTIAL -> "partial"
         [] OTHER -> "pending"

(* normalize_customer_delivery_decision: the state and the quantities, or  *)
(* None when the answer does not fit the note.                             *)
Decision(state, accepted, returned) ==
  [state |-> state, accepted |-> accepted, returned |-> returned]
Normalized(doc, answer) ==
  LET pending == StatusOf(doc) = "pending"
      back    == answer.returned
  IN  CASE doc.qty > 0 /\ pending /\ answer.mode = "AcceptAll" ->
             Decision(CONFIRMED, doc.qty, 0)
        [] doc.qty > 0 /\ pending /\ answer.mode = "RejectAll" ->
             Decision(REJECTED, 0, doc.qty)
        [] pending /\ answer.mode = "AcceptPartial" /\ back \in 1 .. doc.qty - 1 ->
             Decision(PARTIAL, doc.qty - back, back)
        [] StatusOf(doc) = "accepted" /\ answer.mode = "ClaimAfterAccept"
             /\ back \in 1 .. doc.qty ->
             IF back = doc.qty THEN Decision(REJECTED, 0, doc.qty)
             ELSE Decision(PARTIAL, doc.qty - back, back)
        [] OTHER -> None

Answer(h, n, c, answer) ==
  /\ Exists(n)
  /\ Begin(h, "answer", "get", Note(n),
           [mode |-> answer.mode, returned |-> answer.returned, customer |-> c])
  /\ UNCHANGED noteVars

GetNote(h) ==
  /\ At(h, "get")
  /\ UNCHANGED noteVars
  /\ LET n == jobs[h].doc[2]
         decision == Normalized(notes[n], jobs[h].arg)
     IN  \/ /\ UNCHANGED faults
            /\ IF ~Exists(n) \/ notes[n].customer # jobs[h].arg.customer \/ decision = None
               THEN Finish(h, "error")
               ELSE Continue(h, [jobs[h] EXCEPT !.copy = notes[n], !.arg = decision,
                      !.pc = IF decision.returned > 0 THEN "map" ELSE "remarks"])
         \/ ReadFails(h, Idle("error"))

(* make_sales_return proposes what has not been returned yet; a part of    *)
(* the note replaces that quantity.                                        *)
QtyBack_Whole(whole, left, returned) == left

QtyBack(whole, left, returned) == IF returned = whole THEN left ELSE returned

MapReturn(h) ==
  /\ At(h, "map")
  /\ UNCHANGED noteVars
  /\ LET n == jobs[h].doc[2]
         d == jobs[h].arg
         left == notes[n].qty - Returned(n)
         back == QtyBack(jobs[h].copy.qty, left, d.returned)
     IN  \/ /\ UNCHANGED faults
            /\ IF notes[n].status # "submitted" \/ left <= 0 THEN Finish(h, Failure(h))
               ELSE Continue(h, [jobs[h] EXCEPT !.pc = "insert",
                     !.arg = [state |-> d.state, accepted |-> d.accepted,
                              returned |-> d.returned, back |-> back]])
         \/ ReadFails(h, Idle("error"))

InsertReturn(h) ==
  /\ At(h, "insert")
  /\ UNCHANGED notes
  /\ LET n == jobs[h].doc[2]
         open == notes[n].status = "submitted" /\ Returned(n) + jobs[h].arg.back <= notes[n].qty
     IN  \E outcome \in Outcomes :
           /\ outcome # "refused" => open
           /\ Answered(outcome, ~open)
           /\ returns' = IF outcome = "refused" THEN returns
                         ELSE Append(returns, [of |-> n, qty |-> jobs[h].arg.back,
                                               status |-> "draft"])
           /\ CASE outcome = "ok" ->
                     Continue(h, [jobs[h] EXCEPT !.pc = "book", !.attempt = Len(returns) + 1])
                [] outcome = "lost" -> Finish(h, "lost")
                [] OTHER -> Finish(h, "error")

(* The return is submitted as it was inserted; there is no second try and  *)
(* a draft that is not booked stays.                                       *)
BookReturn_Skipped(h) == At(h, "book") /\ Go(h, "remarks") /\ UNCHANGED <<noteVars, faults>>

BookReturn(h) ==
  /\ At(h, "book")
  /\ UNCHANGED notes
  /\ LET r == jobs[h].attempt
         n == returns[r].of
         open == notes[n].status = "submitted" /\ Returned(n) + returns[r].qty <= notes[n].qty
     IN  \E outcome \in Outcomes :
           /\ outcome # "refused" => open
           /\ Answered(outcome, ~open)
           /\ returns' = IF outcome = "refused" THEN returns
                         ELSE [returns EXCEPT ![r].status = "submitted"]
           /\ IF outcome = "ok" THEN Go(h, "remarks") ELSE Finish(h, "lost")

WriteRemarks(h) ==
  /\ At(h, "remarks")
  /\ UNCHANGED returns
  /\ LET n == jobs[h].doc[2]
         d == [accepted |-> jobs[h].arg.accepted, returned |-> jobs[h].arg.returned]
     IN  IF jobs[h].copy.decision = d THEN Go(h, "state") /\ UNCHANGED <<notes, faults>>
         ELSE \E outcome \in Outcomes :
                /\ PutFields(n, [notes[n] EXCEPT !.decision = d], outcome)
                /\ IF outcome = "ok" THEN Go(h, "state")
                   ELSE Finish(h, "lost")

WriteState(h) ==
  /\ At(h, "state")
  /\ UNCHANGED returns
  /\ \E outcome \in Outcomes :
       /\ PutState(jobs[h].doc[2], jobs[h].arg.state, outcome)
       /\ Finish(h, IF outcome = "ok" THEN "ok" ELSE "lost")

-----------------------------------------------------------------------------
DeskNote(n) ==
  /\ Exists(n)
  /\ DeskActs(Note(n))
  /\ UNCHANGED returns
  /\ \/ notes[n].status = "draft" /\ StoredNote(n, notes[n])
     \/ /\ notes[n].status = "submitted" /\ ReturnsOf(n) = {}
        /\ StoredNote(n, [notes[n] EXCEPT !.status = "cancelled"])

NoteStep(h) ==
  \/ \E lines \in IssueRequests : Issue(h, lines)
  \/ CheckSource(h) \/ CreateNote(h) \/ OpenNote(h)
  \/ ReadNote(h) \/ SubmitNote(h) \/ DeleteNote(h)
  \/ \E n \in 1 .. MaxNotes, c \in Customers, answer \in Responses : Answer(h, n, c, answer)
  \/ GetNote(h) \/ MapReturn(h) \/ InsertReturn(h) \/ BookReturn(h)
  \/ WriteRemarks(h) \/ WriteState(h)

TypeOfNotes ==
  /\ notes \in Seq([status : {"draft", "submitted", "cancelled", "deleted"},
       customer : Customers, qty : Nat, key : Sources, flow : {0, 1}, state : 0 .. 4,
       rev : Nat, checked : Nat, decision : {None} \cup [accepted : Nat, returned : Nat]])
  /\ returns \in Seq([of : Nat, qty : Nat, status : {"draft", "submitted"}])
  /\ Len(notes) <= MaxNotes
  /\ \A r \in DOMAIN returns : returns[r].of \in DOMAIN notes
==============================================================================
