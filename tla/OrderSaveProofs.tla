-------------------------- MODULE OrderSaveProofs --------------------------
(***************************************************************************)
(* No interleaving of requests, rollbacks, crashes and ERP batches gives   *)
(* two maps one order number, for any clients, ids and numbers.            *)
(*                                                                         *)
(* NumbersUnique is inductive once the values about to be written are      *)
(* known to be maps: every write to the table goes through PutAllowed      *)
(* under the store's mutex.  The batch is the case to argue: it is as good *)
(* as its orders written one by one, each checked against what the ones    *)
(* before it left, so the first to break the rule would have been refused. *)
(***************************************************************************)
EXTENDS OrderSave, LeastNumbers, FiniteSetTheorems, TLAPS

Book == [Ids -> Map \cup {NoMap}]

Unique(book) ==
  \A a, b \in Ids :
    /\ book[a] # NoMap /\ book[b] # NoMap
    /\ book[a].number = book[b].number /\ book[a].number # NoNumber
    => a = b

TaskSteps == {"sheet", "append", "erp"}
Task == [id : Ids, map : Map, product : Titles, step : TaskSteps]

StoresTyped == maps \in Book /\ workOrders \in Seq(Order) /\ fetched \in Seq(Order)

LocalsTyped ==
  /\ DOMAIN pc = Clients /\ DOMAIN request = Clients /\ DOMAIN previous = Clients
  /\ \A c \in Clients :
       /\ pc[c] # "idle" => request[c] \in Request
       /\ previous[c] \in Map \cup {NoMap}

TasksTyped ==
  /\ DOMAIN task = Clients
  /\ \A c \in Clients : task[c] # NoTask => task[c] \in Task

Typed == StoresTyped /\ LocalsTyped /\ TasksTyped

IInv == Typed /\ Unique(maps)

-----------------------------------------------------------------------------
\* One checked write (put_map) keeps the numbers of a book apart.
LEMMA WriteKeepsUnique ==
  ASSUME NEW book \in Book, Unique(book),
         NEW id \in Ids, NEW m \in Map, PutAllowed(book, id, m)
  PROVE  [book EXCEPT ![id] = m] \in Book /\ Unique([book EXCEPT ![id] = m])
  BY SentinelAssumption DEF Unique, PutAllowed, Book

\* So does deleting a map (delete_map).
LEMMA DeleteKeepsUnique ==
  ASSUME NEW book \in Book, Unique(book), NEW id \in Ids
  PROVE  [book EXCEPT ![id] = NoMap] \in Book /\ Unique([book EXCEPT ![id] = NoMap])
  BY DEF Unique, Book

\* The n-th order of a batch is written over what the first n - 1 left.
LEMMA BatchStep ==
  ASSUME NEW book \in Book, NEW batch \in Seq(Order), NEW n \in 1 .. Len(batch),
         BookAfter(book, batch, n - 1) \in Book
  PROVE  BookAfter(book, batch, n)
           = [BookAfter(book, batch, n - 1) EXCEPT ![batch[n].id] = batch[n].map]
PROOF
<1> DEFINE mine(k, id) == {i \in 1 .. k : batch[i].id = id}
<1>1. ASSUME NEW id \in Ids, id = batch[n].id
      PROVE  BookAfter(book, batch, n)[id] = batch[n].map
  <2>1. n \in mine(n, id) /\ \A j \in mine(n, id) : j <= n
    BY <1>1
  <2>2. \A i \in mine(n, id) : (\A j \in mine(n, id) : j <= i) => i = n
    BY <2>1
  <2>3. (CHOOSE i \in mine(n, id) : \A j \in mine(n, id) : j <= i) = n
    <3> HIDE DEF mine
    <3> QED
      BY <2>1, <2>2
  <2> QED
    BY <2>1, <2>3 DEF BookAfter
<1>2. ASSUME NEW id \in Ids, id # batch[n].id
      PROVE  BookAfter(book, batch, n)[id] = BookAfter(book, batch, n - 1)[id]
  <2>1. mine(n, id) = mine(n - 1, id)
    BY <1>2
  <2>2. \A k \in Nat : BookAfter(book, batch, k)[id]
                       = IF mine(k, id) = {} THEN book[id]
                         ELSE batch[CHOOSE i \in mine(k, id) :
                                      \A j \in mine(k, id) : j <= i].map
    BY DEF BookAfter
  <2>3. n \in Nat /\ n - 1 \in Nat
    OBVIOUS
  <2> HIDE DEF mine
  <2> QED
    BY <2>1, <2>2, <2>3
<1>3. batch[n].id \in Ids
  <2>1. batch[n] \in Order
    OBVIOUS
  <2> QED
    BY <2>1 DEF Order
<1>4. DOMAIN BookAfter(book, batch, n) = Ids
  BY DEF BookAfter
<1>5. BookAfter(book, batch, n) = [id \in Ids |-> BookAfter(book, batch, n)[id]]
  BY DEF BookAfter
<1> QED
  BY <1>1, <1>2, <1>3, <1>5 DEF Book

\* A batch that is accepted keeps the numbers of a book apart.
LEMMA BatchKeepsUnique ==
  ASSUME NEW book \in Book, Unique(book),
         NEW batch \in Seq(Order), BatchAllowed(book, batch)
  PROVE  /\ BookAfter(book, batch, Len(batch)) \in Book
         /\ Unique(BookAfter(book, batch, Len(batch)))
PROOF
<1> DEFINE Good(n) == BookAfter(book, batch, n) \in Book /\ Unique(BookAfter(book, batch, n))
           good == {n \in 0 .. Len(batch) : Good(n)}
<1>1. BookAfter(book, batch, 0) = book
  BY DEF BookAfter, Book
<1>2. ASSUME NEW n \in 1 .. Len(batch), Good(n - 1)
      PROVE  Good(n)
  <2>1. batch[n].id \in Ids /\ batch[n].map \in Map
    <3>1. batch[n] \in Order
      OBVIOUS
    <3> QED
      BY <3>1 DEF Order
  <2>2. PutAllowed(BookAfter(book, batch, n - 1), batch[n].id, batch[n].map)
    BY DEF BatchAllowed
  <2> QED
    BY <1>2, <2>1, <2>2, BatchStep, WriteKeepsUnique
<1>3. good = 0 .. Len(batch)
  <2>1. good \in SUBSET (0 .. Len(batch)) /\ 0 \in good
    BY <1>1
  <2>2. \A n \in 1 .. Len(batch) : n - 1 \in good => n \in good
    BY <1>2
  <2>3. Len(batch) \in Nat
    OBVIOUS
  <2> HIDE DEF good
  <2> QED
    BY <2>1, <2>2, <2>3, StepByStep
<1> QED
  BY <1>3

-----------------------------------------------------------------------------
\* The steps of a client's request and of its task, local by local.
LEMMA ForgetTyped ==
  ASSUME LocalsTyped, NEW c \in Clients, Forget(c)
  PROVE  LocalsTyped'
  BY DEF Forget, LocalsTyped

LEMMA SpawnTyped ==
  ASSUME TasksTyped, NEW c \in Clients, request[c] \in Request, Spawn(c)
  PROVE  TasksTyped'
PROOF
<1> DEFINE new == Integrations(request[c])
<1>1. new \in Task
  <2>1. request[c].id \in Ids /\ request[c].map \in Map /\ request[c].product \in Titles
    BY DEF Request
  <2> QED
    BY <2>1 DEF Integrations, Task, TaskSteps
<1>2. task' = IF previous[c] = NoMap /\ request[c].template # "none"
                  /\ IsSheetOrder(request[c].id, request[c].map)
               THEN [task EXCEPT ![c] = new] ELSE task
  BY Zenon DEF Spawn
<1> HIDE DEF new
<1> QED
  BY <1>1, <1>2 DEF TasksTyped

LEMMA StepNames == "append" \in TaskSteps /\ "erp" \in TaskSteps
  BY DEF TaskSteps

LEMMA AdvanceTyped ==
  ASSUME TasksTyped, NEW c \in Clients, task[c] # NoTask,
         NEW step \in TaskSteps, Advance(c, step)
  PROVE  TasksTyped'
PROOF
<1>1. task[c] \in Task
  BY DEF TasksTyped
<1>2. [task[c] EXCEPT !.step = step] \in Task
  BY <1>1 DEF Task
<1>3. task' = [task EXCEPT ![c] = [task[c] EXCEPT !.step = step]]
  BY DEF Advance
<1> QED
  BY <1>2, <1>3 DEF TasksTyped

\* What comes back of an order is one, with its id and its number.
LEMMA SentBack ==
  ASSUME NEW t \in Task
  PROVE  LET w == ThereAndBack(t)
         IN  /\ w \in Order /\ w.id = t.id
             /\ w.map.number = t.map.number /\ w.map.title = t.product
  BY DEF ThereAndBack, Task, Order, Map

LEMMA InitInv == Init => IInv
  BY IdsAssumption DEF Init, IInv, Typed, StoresTyped, LocalsTyped, TasksTyped, Unique, Book, NoMaps

\* What a rollback leaves is a book, with its numbers apart.
LEMMA RestoredKeepsUnique ==
  ASSUME IInv, NEW c \in Clients, pc[c] = "rollback"
  PROVE  LET after == Restored(request[c].id, request[c].exact, previous[c])
         IN  after \in Book /\ Unique(after)
PROOF
<1>1. request[c].id \in Ids /\ previous[c] \in Map \cup {NoMap}
  BY DEF IInv, Typed, LocalsTyped, Request
<1> QED
  BY <1>1, WriteKeepsUnique, DeleteKeepsUnique DEF Restored, IInv, Typed, StoresTyped

\* Each client step keeps the invariant.
LEMMA SaveStepInv ==
  ASSUME IInv, NEW c \in Clients, SaveStep(c)
  PROVE  IInv'
PROOF
<1> USE DEF IInv
<1>1. CASE ReadPrevious(c)
  <2>1. PICK r \in SaveRequests[c] :
          /\ request' = [request EXCEPT ![c] = r]
          /\ previous' = [previous EXCEPT ![c] = maps[r.id]]
    BY <1>1 DEF ReadPrevious
  <2>2. r \in Request
    BY RequestsAssumption
  <2>3. maps[r.id] \in Map \cup {NoMap}
    BY <2>2 DEF Typed, StoresTyped, Book, Request
  <2>4. LocalsTyped'
    BY <1>1, <2>1, <2>2, <2>3 DEF ReadPrevious, Typed, LocalsTyped
  <2> QED
    BY <1>1, <2>4 DEF ReadPrevious, stores, Typed, StoresTyped, TasksTyped, Unique
<1>2. CASE PutMap(c)
  <2>1. request[c] \in Request
    BY <1>2 DEF PutMap, Typed, LocalsTyped
  <2>2. request[c].id \in Ids /\ request[c].map \in Map
    BY <2>1 DEF Request
  <2>3. maps' \in Book /\ Unique(maps')
    BY <1>2, <2>2, WriteKeepsUnique DEF PutMap, WriteMap, Typed, StoresTyped
  <2>4. LocalsTyped'
    <3>1. CASE StoresTemplate(request[c])
      BY <1>2, <2>1, <3>1 DEF PutMap, Typed, LocalsTyped
    <3>2. CASE ~StoresTemplate(request[c])
      BY <1>2, <3>2, ForgetTyped DEF PutMap, Typed
    <3> QED
      BY <3>1, <3>2
  <2>5. TasksTyped'
    <3>1. CASE StoresTemplate(request[c])
      BY <1>2, <3>1 DEF PutMap, Typed, TasksTyped
    <3>2. CASE ~StoresTemplate(request[c])
      BY <1>2, <2>1, <3>2, SpawnTyped DEF PutMap, Typed
    <3> QED
      BY <3>1, <3>2
  <2> QED
    BY <1>2, <2>3, <2>4, <2>5 DEF PutMap, Typed, StoresTyped
<1>3. CASE PutMapRefused(c)
  BY <1>3, ForgetTyped DEF PutMapRefused, stores, Typed, StoresTyped, TasksTyped, Unique
<1>4. CASE PutTemplate(c)
  <2>1. request[c] \in Request
    BY <1>4 DEF PutTemplate, Typed, LocalsTyped
  <2>2. LocalsTyped' /\ TasksTyped'
    BY <1>4, <2>1, ForgetTyped, SpawnTyped DEF PutTemplate, Typed
  <2> QED
    BY <1>4, <2>2 DEF PutTemplate, Typed, StoresTyped, Unique
<1>5. CASE PutTemplateFails(c)
  BY <1>5 DEF PutTemplateFails, stores, Typed, StoresTyped, LocalsTyped, TasksTyped, Unique
<1>6. CASE Rollback(c)
  <2>1. maps' \in Book /\ Unique(maps')
    BY <1>6, RestoredKeepsUnique DEF Rollback
  <2> QED
    BY <1>6, <2>1, ForgetTyped DEF Rollback, Typed, StoresTyped, TasksTyped
<1>7. CASE StoreFailed(c)
  BY <1>7, ForgetTyped DEF StoreFailed, stores, Typed, StoresTyped, TasksTyped, Unique
<1>8. CASE SavePlain(c)
  <2>1. PICK s \in PlainSaves[c] :
          PutAllowed(maps, s.id, s.map) /\ maps' = [maps EXCEPT ![s.id] = s.map]
    BY <1>8 DEF SavePlain
  <2>2. s.id \in Ids /\ s.map \in Map
    BY RequestsAssumption DEF Order
  <2>3. maps' \in Book /\ Unique(maps')
    BY <2>1, <2>2, WriteKeepsUnique DEF Typed, StoresTyped
  <2> QED
    BY <1>8, <2>3 DEF SavePlain, locals, Typed, StoresTyped, LocalsTyped, TasksTyped
<1>9. CASE DeleteTemplate(c)
  BY <1>9 DEF DeleteTemplate, locals, Typed, StoresTyped, LocalsTyped, TasksTyped, Unique
<1> QED
  BY <1>1, <1>2, <1>3, <1>4, <1>5, <1>6, <1>7, <1>8, <1>9 DEF SaveStep

\* So does each step of a spawned task.
LEMMA TaskStepInv ==
  ASSUME IInv, NEW c \in Clients, TaskStep(c)
  PROVE  IInv'
PROOF
<1> USE DEF IInv
<1>1. CASE ReadCodes(c)
  <2>1. task[c] # NoTask /\ (Advance(c, "append") \/ Advance(c, "erp"))
    BY <1>1 DEF ReadCodes
  <2>2. TasksTyped'
    BY <2>1, AdvanceTyped, StepNames, Zenon DEF Typed
  <2> QED
    BY <1>1, <2>2 DEF ReadCodes, stores, locals, Typed, StoresTyped, LocalsTyped, Unique
<1>2. CASE AppendRow(c)
  <2>1. task[c] # NoTask /\ Advance(c, "erp")
    BY <1>2 DEF AppendRow
  <2>2. TasksTyped'
    BY <2>1, AdvanceTyped, StepNames, Zenon DEF Typed
  <2> QED
    BY <1>2, <2>2 DEF AppendRow, locals, Typed, StoresTyped, LocalsTyped, Unique
<1>3. CASE SheetFails(c)
  <2>1. task[c] # NoTask /\ Advance(c, "erp")
    BY <1>3 DEF SheetFails
  <2>2. TasksTyped'
    BY <2>1, AdvanceTyped, StepNames, Zenon DEF Typed
  <2> QED
    BY <1>3, <2>2 DEF SheetFails, stores, locals, Typed, StoresTyped, LocalsTyped, Unique
<1>4. CASE SaveWorkOrder(c)
  <2>1. ThereAndBack(task[c]) \in Order
    BY <1>4, SentBack DEF SaveWorkOrder, Typed, TasksTyped
  <2>2. workOrders' \in Seq(Order)
    BY <1>4, <2>1 DEF SaveWorkOrder, Typed, StoresTyped
  <2> QED
    BY <1>4, <2>2 DEF SaveWorkOrder, locals, Typed, StoresTyped, LocalsTyped, TasksTyped, Unique
<1>5. CASE ErpFails(c)
  BY <1>5 DEF ErpFails, stores, locals, Typed, StoresTyped, LocalsTyped, TasksTyped, Unique
<1> QED
  BY <1>1, <1>2, <1>3, <1>4, <1>5 DEF TaskStep

LEMMA StepInv == IInv /\ [Next]_vars => IInv'
PROOF
<1> SUFFICES ASSUME IInv, [Next]_vars
             PROVE  IInv'
  OBVIOUS
<1>1. ASSUME NEW c \in Clients, SaveStep(c) \/ TaskStep(c)
      PROVE  IInv'
  BY <1>1, SaveStepInv, TaskStepInv
<1>2. CASE FetchWorkOrders
  BY <1>2 DEF FetchWorkOrders, stores, locals, IInv, Typed, StoresTyped, LocalsTyped, TasksTyped, Unique
<1>3. CASE SyncErp
  <2>1. maps' \in Book /\ Unique(maps')
    BY <1>3, BatchKeepsUnique DEF SyncErp, IInv, Typed, StoresTyped
  <2> QED
    BY <1>3, <2>1 DEF SyncErp, locals, IInv, Typed, StoresTyped, LocalsTyped, TasksTyped
<1>4. CASE SheetSync \/ SyncFails
  BY <1>4 DEF SheetSync, SyncReadMaps, SyncReadTemplates, SyncReadCodes, SyncAppend,
              SyncFails, stores, locals, IInv, Typed, StoresTyped,
              LocalsTyped, TasksTyped, Unique
<1>5. CASE Crash
  BY <1>5 DEF Crash, stores, IInv, Typed, StoresTyped, LocalsTyped, TasksTyped, Unique
<1>6. CASE UNCHANGED vars
  BY <1>6 DEF vars, stores, locals, IInv, Typed, StoresTyped, LocalsTyped, TasksTyped, Unique
<1> QED
  BY <1>1, <1>2, <1>3, <1>4, <1>5, <1>6 DEF Next

LEMMA IInvHolds == Spec => []IInv
  BY InitInv, StepInv, PTL DEF Spec

\* reject_duplicate_order_number, under the store's mutex, holds for every
\* way a map is written: an order number names one map.
THEOREM NumbersStayUnique == Spec => []NumbersUnique
PROOF
<1>1. IInv => NumbersUnique
  BY DEF IInv, Unique, NumbersUnique
<1> QED
  BY <1>1, IInvHolds, PTL

-----------------------------------------------------------------------------
(***************************************************************************)
(* When a map and its work order agree, and when a rollback is exact.      *)
(*                                                                         *)
(* Neither holds of every instance: the runs orders_renumber and           *)
(* orders_rollback show how each is lost.  The theorems say that three     *)
(* habits of the admins are enough to keep both, whatever the requests,    *)
(* crashes, failed writes and ERP batches: an order is one admin's, it is  *)
(* always saved with its number, and ids are sent as they are stored.      *)
(*                                                                         *)
(* The argument: the number of an order that has one is immutable, and the *)
(* title goes with the number (PutAllowed), so a save of an order that is  *)
(* there changes nothing; only the request that made an order can change   *)
(* its map, by undoing it, and then nothing has been sent to ERPNext.      *)
(***************************************************************************)

Saves(c) == {[id |-> r.id, map |-> r.map] : r \in SaveRequests[c]} \cup PlainSaves[c]

Owns(c, id) == \E s \in Saves(c) : s.id = id

OneAdminEach ==
  \A c, d \in Clients : \A id \in Ids : Owns(c, id) /\ Owns(d, id) => c = d

\* An order carries a number whenever it is saved, other maps never do.
NumberFits(id, m) == id \in Zakaz <=> m.number # NoNumber
AlwaysNumbered == \A c \in Clients : \A s \in Saves(c) : NumberFits(s.id, s.map)

SpelledAsStored == \A c \in Clients : \A r \in SaveRequests[c] : r.exact

Orderly == OneAdminEach /\ AlwaysNumbered /\ SpelledAsStored

-----------------------------------------------------------------------------
(***************************************************************************)
(* The inductive invariant, over the types of OrderSaveProofs.             *)
(***************************************************************************)
MapsNumbered == \A id \in Ids : maps[id] # NoMap => NumberFits(id, maps[id])

Ordered(id) == \E i \in DOMAIN workOrders : workOrders[i].id = id

\* What a request knows of its map: before the write it is as it was read,
\* after it as written, and an order that was there is as it was.
RequestKnows(c) ==
  LET r == request[c]
  IN  /\ r \in SaveRequests[c]
      /\ task[c] = NoTask
      /\ previous[c] # NoMap => NumberFits(r.id, previous[c])
      /\ previous[c] = NoMap => ~Ordered(r.id)
      /\ pc[c] = "put_map" => maps[r.id] = previous[c]
      /\ pc[c] # "put_map" =>
           /\ maps[r.id] = r.map
           /\ previous[c] # NoMap /\ r.id \in Zakaz => previous[c] = r.map

TaskKnows(c) ==
  LET t == task[c]
  IN  /\ Owns(c, t.id) /\ t.id \in Zakaz
      /\ maps[t.id] = t.map
      /\ t.product = t.map.title \/ NamesAnother(t.id)
      /\ ~Ordered(t.id)

OrdersAgree ==
  /\ ErpAgrees
  /\ \A i \in DOMAIN workOrders : workOrders[i].id \in Zakaz
  /\ \A i, j \in DOMAIN workOrders : workOrders[i].id = workOrders[j].id => i = j
  /\ \A i \in DOMAIN fetched : \E j \in DOMAIN workOrders : workOrders[j] = fetched[i]

ErpInv ==
  /\ MapsNumbered
  /\ \A c \in Clients : pc[c] # "idle" => RequestKnows(c)
  /\ \A c \in Clients : task[c] # NoTask => TaskKnows(c)
  /\ OrdersAgree

-----------------------------------------------------------------------------
\* Some numbers up to n have a greatest one among them.
LEMMA GreatestNumber ==
  ASSUME NEW n \in Nat, NEW T \in SUBSET (1 .. n), T # {}
  PROVE  \E m \in T : \A k \in T : k <= m
<1> DEFINE U == {n - k : k \in T}
<1>1. U \in SUBSET Nat /\ U # {}
  <2>1. \A k \in T : n - k \in Nat
    OBVIOUS
  <2> QED
    BY <2>1
<1>2. PICK u \in U : \A v \in U : u <= v
  <2> HIDE DEF U
  <2> QED
    BY <1>1, LeastNumber
<1>3. PICK m \in T : u = n - m
  OBVIOUS
<1>4. \A k \in T : n - m <= n - k
  BY <1>2, <1>3
<1> QED
  BY <1>4

\* A sequence with an element before it.
LEMMA Prepended ==
  ASSUME NEW S, NEW s \in Seq(S), NEW x \in S
  PROVE  LET t == <<x>> \o s
         IN  /\ DOMAIN t \subseteq Nat /\ 1 \in DOMAIN t /\ t[1] = x
             /\ \A i \in DOMAIN s : i + 1 \in DOMAIN t /\ t[i + 1] = s[i]
             /\ \A i \in DOMAIN t : i # 1 => i - 1 \in DOMAIN s /\ t[i] = s[i - 1]
<1> DEFINE t == <<x>> \o s
<1>1. t \in Seq(S) /\ Len(t) = Len(s) + 1
  OBVIOUS
<1>2. ASSUME NEW i \in DOMAIN t, i # 1
      PROVE  i - 1 \in DOMAIN s /\ t[i] = s[i - 1]
  <2>1. i \in 1 .. Len(s) + 1
    BY <1>1
  <2> QED
    BY <1>2, <2>1
<1> QED
  BY <1>1, <1>2

\* It has distinct ids if the sequence has and the element's is another.
LEMMA PrependedApart ==
  ASSUME NEW s \in Seq(Order), NEW x \in Order,
         \A i, j \in DOMAIN s : s[i].id = s[j].id => i = j,
         \A i \in DOMAIN s : s[i].id # x.id
  PROVE  LET t == <<x>> \o s
         IN  \A i, j \in DOMAIN t : t[i].id = t[j].id => i = j
<1> DEFINE t == <<x>> \o s
<1>1. /\ DOMAIN t \subseteq Nat /\ t[1] = x
      /\ \A i \in DOMAIN t : i # 1 => i - 1 \in DOMAIN s /\ t[i] = s[i - 1]
  BY Prepended
<1> HIDE DEF t
<1> SUFFICES ASSUME NEW i \in DOMAIN t, NEW j \in DOMAIN t, t[i].id = t[j].id
             PROVE  i = j
  BY DEF t
<1>2. CASE i = 1 \/ j = 1
  BY <1>1, <1>2
<1>3. CASE i # 1 /\ j # 1
  <2>1. i - 1 = j - 1
    BY <1>1, <1>3
  <2> QED
    BY <1>1, <2>1
<1> QED
  BY <1>2, <1>3

\* An order that is there is saved as it is, or refused: its number is
\* immutable and whoever has its number has its title (put_map).
LEMMA OrderSavedAsItIs ==
  ASSUME NEW book \in Book, NEW id \in Ids, NEW m \in Map, PutAllowed(book, id, m),
         id \in Zakaz, m.number # NoNumber, book[id] # NoMap, book[id].number # NoNumber
  PROVE  book[id] = m
<1>1. book[id] \in Map
  BY DEF Book
<1>2. book[id].number = m.number /\ book[id].title = m.title
  BY DEF PutAllowed
<1> QED
  BY <1>1, <1>2 DEF Map

LEMMA SavesAreOrders ==
  ASSUME NEW c \in Clients
  PROVE  /\ Saves(c) \subseteq Order
         /\ \A r \in SaveRequests[c] :
              r \in Request /\ [id |-> r.id, map |-> r.map] \in Saves(c)
<1>1. SaveRequests[c] \subseteq Request /\ PlainSaves[c] \subseteq Order
  BY RequestsAssumption
<1>2. \A r \in Request : [id |-> r.id, map |-> r.map] \in Order
  BY DEF Request, Order
<1> QED
  BY <1>1, <1>2 DEF Saves

\* A request is for a map of its own client, numbered as its id says.
LEMMA RequestIsOwn ==
  ASSUME Orderly, NEW c \in Clients, NEW r \in SaveRequests[c]
  PROVE  /\ r.id \in Ids /\ r.map \in Map /\ r.exact
         /\ Owns(c, r.id) /\ NumberFits(r.id, r.map)
<1>1. [id |-> r.id, map |-> r.map] \in Saves(c) /\ [id |-> r.id, map |-> r.map] \in Order
  BY SavesAreOrders
<1>2. r.id \in Ids /\ r.map \in Map
  BY <1>1 DEF Order
<1>3. Owns(c, r.id) /\ NumberFits(r.id, r.map)
  BY <1>1 DEF Owns, Orderly, AlwaysNumbered
<1> QED
  BY <1>2, <1>3 DEF Orderly, SpelledAsStored

\* Orders on their way to or back from ERPNext are maps.
LEMMA SentAreMaps ==
  ASSUME IInv
  PROVE  /\ \A i \in DOMAIN workOrders : workOrders[i].id \in Ids /\ workOrders[i].map \in Map
         /\ \A i \in DOMAIN fetched : fetched[i].id \in Ids /\ fetched[i].map \in Map
         /\ \A c \in Clients : task[c] # NoTask => task[c].id \in Ids /\ task[c].map \in Map
<1>1. ASSUME NEW s \in Seq(Order), NEW i \in DOMAIN s
      PROVE  s[i].id \in Ids /\ s[i].map \in Map
  <2>1. s[i] \in Order
    OBVIOUS
  <2> QED
    BY <2>1 DEF Order
<1> QED
  BY <1>1 DEF IInv, Typed, StoresTyped, TasksTyped, Task

\* What the other clients know survives a client's write to a map of its
\* own, and so does the agreement with ERPNext if nothing was sent of it or
\* it is written as it is.
LEMMA OwnWrite ==
  ASSUME Orderly, IInv, ErpInv, NEW c \in Clients, NEW id \in Ids, Owns(c, id),
         NEW m \in Map \cup {NoMap}, maps' = [maps EXCEPT ![id] = m],
         m # NoMap => NumberFits(id, m),
         Ordered(id) => maps[id] = m,
         task[c] # NoTask /\ task[c].id = id => maps[id] = m,
         UNCHANGED <<workOrders, fetched>>,
         \A d \in Clients \ {c} : pc'[d] = pc[d] /\ request'[d] = request[d]
                                  /\ previous'[d] = previous[d] /\ task'[d] = task[d]
  PROVE  /\ MapsNumbered' /\ OrdersAgree'
         /\ \A d \in Clients \ {c} : pc'[d] # "idle" => RequestKnows(d)'
         /\ \A d \in Clients \ {c} : task'[d] # NoTask => TaskKnows(d)'
         /\ task'[c] = task[c] /\ task'[c] # NoTask => TaskKnows(c)'
<1>1. maps \in Book
  BY DEF IInv, Typed, StoresTyped
<1>2. MapsNumbered'
  BY <1>1 DEF ErpInv, MapsNumbered, Book
<1>3. \A i \in DOMAIN workOrders : maps'[workOrders[i].id] = maps[workOrders[i].id]
  BY <1>1 DEF Ordered, Book
<1>4. OrdersAgree'
  BY <1>3 DEF ErpInv, OrdersAgree, ErpAgrees
<1>5. \A other \in Ids : Ordered(other)' <=> Ordered(other)
  BY DEF Ordered
<1>6. ASSUME NEW d \in Clients \ {c}, pc'[d] # "idle"
      PROVE  RequestKnows(d)'
  <2>1. RequestKnows(d)
    BY <1>6 DEF ErpInv
  <2>2. Owns(d, request[d].id) /\ request[d].id \in Ids
    BY <2>1, RequestIsOwn DEF RequestKnows
  <2>3. maps'[request[d].id] = maps[request[d].id]
    BY <1>1, <2>2 DEF Orderly, OneAdminEach, Book
  <2> QED
    BY <1>5, <2>1, <2>2, <2>3 DEF RequestKnows
<1>7. ASSUME NEW d \in Clients, task'[d] = task[d], task'[d] # NoTask
      PROVE  TaskKnows(d)'
  <2>1. TaskKnows(d) /\ task[d].id \in Ids
    BY <1>7, SentAreMaps DEF ErpInv
  <2>2. maps'[task[d].id] = maps[task[d].id]
    BY <1>1, <1>7, <2>1 DEF TaskKnows, Orderly, OneAdminEach, Book
  <2> QED
    BY <1>5, <1>7, <2>1, <2>2 DEF TaskKnows
<1> QED
  BY <1>2, <1>4, <1>6, <1>7

\* Steps that leave maps, work orders, requests and tasks alone, whatever of
\* the work orders the ERP sync has read.
LEMMA FetchKeepsErpInv ==
  ASSUME ErpInv, UNCHANGED <<maps, workOrders, pc, request, previous, task>>,
         \A i \in DOMAIN fetched' : \E j \in DOMAIN workOrders : workOrders[j] = fetched'[i]
  PROVE  ErpInv'
<1>1. \A c \in Clients : pc'[c] # "idle" => RequestKnows(c)'
  BY DEF ErpInv, RequestKnows, Ordered
<1>2. \A c \in Clients : task'[c] # NoTask => TaskKnows(c)'
  BY DEF ErpInv, TaskKnows, Ordered
<1>3. MapsNumbered' /\ OrdersAgree'
  BY DEF ErpInv, MapsNumbered, OrdersAgree, ErpAgrees
<1> QED
  BY <1>1, <1>2, <1>3 DEF ErpInv

LEMMA ErpInvStutters ==
  ASSUME ErpInv, UNCHANGED <<maps, workOrders, fetched, pc, request, previous, task>>
  PROVE  ErpInv'
<1>1. \A i \in DOMAIN fetched' : \E j \in DOMAIN workOrders : workOrders[j] = fetched'[i]
  BY DEF ErpInv, OrdersAgree
<1> QED
  BY <1>1, FetchKeepsErpInv

\* A client forgets its request; what the others know is left.
LEMMA ForgetKeepsErpInv ==
  ASSUME IInv, ErpInv, NEW c \in Clients, Forget(c),
         UNCHANGED <<maps, workOrders, fetched, task>>
  PROVE  ErpInv'
<1>1. pc'[c] = "idle"
  BY DEF Forget, IInv, Typed, LocalsTyped
<1>2. \A d \in Clients \ {c} :
        pc'[d] = pc[d] /\ request'[d] = request[d] /\ previous'[d] = previous[d]
  BY DEF Forget, IInv, Typed, LocalsTyped
<1>3. \A d \in Clients \ {c} : RequestKnows(d)' <=> RequestKnows(d)
  BY <1>2 DEF RequestKnows, Ordered
<1>4. \A d \in Clients : TaskKnows(d)' <=> TaskKnows(d)
  BY DEF TaskKnows, Ordered
<1> QED
  BY <1>1, <1>2, <1>3, <1>4 DEF ErpInv, MapsNumbered, OrdersAgree, ErpAgrees

LEMMA InitErpInv == Init => ErpInv
  BY DEF Init, ErpInv, MapsNumbered, OrdersAgree, ErpAgrees, NoMaps

LEMMA ReadPreviousKeepsErpInv ==
  ASSUME Orderly, IInv, ErpInv, NEW c \in Clients, ReadPrevious(c)
  PROVE  ErpInv'
<1>1. PICK r \in SaveRequests[c] :
        /\ request' = [request EXCEPT ![c] = r]
        /\ previous' = [previous EXCEPT ![c] = maps[r.id]]
  BY DEF ReadPrevious
<1>2. r.id \in Ids
  BY RequestIsOwn
<1>3. pc'[c] = "put_map" /\ request'[c] = r /\ previous'[c] = maps[r.id]
  BY <1>1 DEF ReadPrevious, IInv, Typed, LocalsTyped
<1>4. \A d \in Clients \ {c} :
        pc'[d] = pc[d] /\ request'[d] = request[d] /\ previous'[d] = previous[d]
  BY <1>1 DEF ReadPrevious, IInv, Typed, LocalsTyped
<1>5. UNCHANGED <<maps, workOrders, fetched, task>> /\ task[c] = NoTask
  BY DEF ReadPrevious, stores
<1>6. RequestKnows(c)'
  <2>1. maps[r.id] # NoMap => NumberFits(r.id, maps[r.id])
    BY <1>2 DEF ErpInv, MapsNumbered
  <2>2. Ordered(r.id) => maps[r.id] # NoMap
    BY SentAreMaps, SentinelAssumption DEF Ordered, ErpInv, OrdersAgree, ErpAgrees
  <2> QED
    BY <1>1, <1>3, <1>5, <2>1, <2>2 DEF RequestKnows, Ordered
<1>7. \A d \in Clients \ {c} : RequestKnows(d)' <=> RequestKnows(d)
  BY <1>4, <1>5 DEF RequestKnows, Ordered
<1>8. \A d \in Clients : TaskKnows(d)' <=> TaskKnows(d)
  BY <1>5 DEF TaskKnows, Ordered
<1> QED
  BY <1>4, <1>5, <1>6, <1>7, <1>8 DEF ErpInv, MapsNumbered, OrdersAgree, ErpAgrees

\* What Spawn leaves behind, the map being as the request wrote it.
LEMMA SpawnKnows ==
  ASSUME Orderly, NEW c \in Clients, DOMAIN task = Clients,
         request[c] \in SaveRequests[c], task[c] = NoTask,
         maps'[request[c].id] = request[c].map,
         previous[c] = NoMap => ~Ordered(request[c].id),
         UNCHANGED workOrders, Spawn(c)
  PROVE  /\ task'[c] # NoTask => TaskKnows(c)'
         /\ \A d \in Clients \ {c} : task'[d] = task[d]
<1> DEFINE r == request[c]
           new == Integrations(r)
<1>1. Owns(c, r.id)
  BY RequestIsOwn
<1>2. \/ task' = task
      \/ /\ previous[c] = NoMap /\ IsSheetOrder(r.id, r.map) /\ r.template # "none"
         /\ task' = [task EXCEPT ![c] = new]
  BY Zenon DEF Spawn
<1>3. /\ new.id = r.id /\ new.map = r.map
      /\ r.template # "none" => new.product = new.map.title \/ NamesAnother(new.id)
  BY DEF Integrations, NamesAnother
<1> HIDE DEF new
<1>4. ASSUME task'[c] # NoTask
      PROVE  TaskKnows(c)'
  <2>1. task'[c] = new /\ previous[c] = NoMap /\ r.id \in Zakaz /\ r.template # "none"
    BY <1>2, <1>4 DEF IsSheetOrder
  <2> QED
    BY <1>1, <1>3, <2>1 DEF TaskKnows, Ordered
<1> QED
  BY <1>2, <1>4

LEMMA PutMapKeepsErpInv ==
  ASSUME Orderly, IInv, ErpInv, NEW c \in Clients, PutMap(c)
  PROVE  ErpInv'
<1> DEFINE r == request[c]
<1>1. /\ pc[c] = "put_map" /\ PutAllowed(maps, r.id, r.map)
      /\ maps' = [maps EXCEPT ![r.id] = r.map]
      /\ UNCHANGED <<workOrders, fetched>>
  BY DEF PutMap, WriteMap
<1>2. RequestKnows(c)
  BY <1>1 DEF ErpInv
<1>3. /\ r \in SaveRequests[c] /\ r.id \in Ids /\ r.map \in Map
      /\ Owns(c, r.id) /\ NumberFits(r.id, r.map)
  BY <1>2, RequestIsOwn DEF RequestKnows
<1>4. maps \in Book /\ DOMAIN task = Clients
  BY DEF IInv, Typed, StoresTyped, TasksTyped
<1>5. previous[c] # NoMap /\ r.id \in Zakaz => maps[r.id] = r.map
  BY <1>1, <1>2, <1>3, <1>4, OrderSavedAsItIs DEF RequestKnows, NumberFits
<1>6. Ordered(r.id) => maps[r.id] = r.map
  BY <1>2, <1>5 DEF RequestKnows, Ordered, ErpInv, OrdersAgree
<1>7. maps'[r.id] = r.map
  BY <1>1, <1>3, <1>4 DEF Book
<1>8. r.map # NoMap
  BY <1>3, SentinelAssumption
<1>9. CASE StoresTemplate(r)
  <2>1. pc' = [pc EXCEPT ![c] = "put_template"] /\ UNCHANGED <<request, previous, task>>
    BY <1>9 DEF PutMap
  <2>2. pc'[c] = "put_template" /\ \A d \in Clients \ {c} : pc'[d] = pc[d]
    BY <2>1 DEF IInv, Typed, LocalsTyped
  <2>3. RequestKnows(c)'
    BY <1>1, <1>2, <1>5, <1>7, <2>1, <2>2 DEF RequestKnows, Ordered
  <2>4. /\ MapsNumbered' /\ OrdersAgree'
        /\ \A d \in Clients \ {c} : pc'[d] # "idle" => RequestKnows(d)'
        /\ \A d \in Clients : task'[d] # NoTask => TaskKnows(d)'
    BY <1>1, <1>2, <1>3, <1>6, <1>8, <2>1, <2>2, OwnWrite DEF RequestKnows
  <2> QED
    BY <2>2, <2>3, <2>4 DEF ErpInv
<1>10. CASE ~StoresTemplate(r)
  <2>1. Forget(c) /\ Spawn(c)
    BY <1>10 DEF PutMap
  <2>2. /\ pc'[c] = "idle"
        /\ \A d \in Clients \ {c} :
             pc'[d] = pc[d] /\ request'[d] = request[d] /\ previous'[d] = previous[d]
    BY <2>1 DEF Forget, IInv, Typed, LocalsTyped
  <2>3. /\ task'[c] # NoTask => TaskKnows(c)'
        /\ \A d \in Clients \ {c} : task'[d] = task[d]
    BY <1>1, <1>2, <1>3, <1>4, <1>7, <2>1, SpawnKnows DEF RequestKnows
  <2>4. /\ MapsNumbered' /\ OrdersAgree'
        /\ \A d \in Clients \ {c} : pc'[d] # "idle" => RequestKnows(d)'
        /\ \A d \in Clients \ {c} : task'[d] # NoTask => TaskKnows(d)'
    BY <1>1, <1>2, <1>3, <1>6, <1>8, <2>2, <2>3, OwnWrite DEF RequestKnows
  <2> QED
    BY <2>2, <2>3, <2>4 DEF ErpInv
<1> QED
  BY <1>9, <1>10

LEMMA PutTemplateKeepsErpInv ==
  ASSUME Orderly, IInv, ErpInv, NEW c \in Clients, PutTemplate(c)
  PROVE  ErpInv'
<1>1. /\ pc[c] = "put_template" /\ Forget(c) /\ Spawn(c)
      /\ UNCHANGED <<maps, workOrders, fetched>>
  BY DEF PutTemplate
<1>2. RequestKnows(c)
  BY <1>1 DEF ErpInv
<1>3. /\ pc'[c] = "idle"
      /\ \A d \in Clients \ {c} :
           pc'[d] = pc[d] /\ request'[d] = request[d] /\ previous'[d] = previous[d]
  BY <1>1 DEF Forget, IInv, Typed, LocalsTyped
<1>4. /\ task'[c] # NoTask => TaskKnows(c)'
      /\ \A d \in Clients \ {c} : task'[d] = task[d]
  <2>1. DOMAIN task = Clients
    BY DEF IInv, Typed, TasksTyped
  <2> QED
    BY <1>1, <1>2, <2>1, SpawnKnows DEF RequestKnows
<1>5. \A d \in Clients \ {c} : (pc'[d] # "idle" => RequestKnows(d)')
                              /\ (task'[d] # NoTask => TaskKnows(d)')
  BY <1>1, <1>3, <1>4 DEF ErpInv, RequestKnows, TaskKnows, Ordered
<1>6. MapsNumbered' /\ OrdersAgree'
  BY <1>1 DEF ErpInv, MapsNumbered, OrdersAgree, ErpAgrees
<1> QED
  BY <1>3, <1>4, <1>5, <1>6 DEF ErpInv

LEMMA PutTemplateFailsKeepsErpInv ==
  ASSUME IInv, ErpInv, NEW c \in Clients, PutTemplateFails(c)
  PROVE  ErpInv'
<1>1. /\ pc[c] = "put_template"
      /\ UNCHANGED <<maps, workOrders, fetched, request, previous, task>>
      /\ pc'[c] = "rollback" /\ \A d \in Clients \ {c} : pc'[d] = pc[d]
  BY DEF PutTemplateFails, stores, IInv, Typed, LocalsTyped
<1>2. \A d \in Clients : pc'[d] # "idle" => RequestKnows(d)'
  BY <1>1 DEF ErpInv, RequestKnows, Ordered
<1>3. \A d \in Clients : TaskKnows(d)' <=> TaskKnows(d)
  BY <1>1 DEF TaskKnows, Ordered
<1> QED
  BY <1>1, <1>2, <1>3 DEF ErpInv, MapsNumbered, OrdersAgree, ErpAgrees

\* A rollback finds what its request wrote and puts back what it found.
LEMMA RollbackIsExact ==
  ASSUME Orderly, IInv, ErpInv, NEW c \in Clients, Rollback(c)
  PROVE  /\ maps[request[c].id] = request[c].map
         /\ maps' = [maps EXCEPT ![request[c].id] = previous[c]]
<1> DEFINE r == request[c]
<1>1. pc[c] = "rollback" /\ maps' = Restored(r.id, r.exact, previous[c])
  BY DEF Rollback
<1>2. RequestKnows(c)
  BY <1>1 DEF ErpInv
<1>3. /\ r.id \in Ids /\ r.exact /\ r.map \in Map /\ NumberFits(r.id, r.map)
      /\ maps \in Book /\ previous[c] \in Map \cup {NoMap}
  BY <1>2, RequestIsOwn DEF RequestKnows, IInv, Typed, StoresTyped, LocalsTyped
<1>4. maps[r.id] = r.map
  BY <1>1, <1>2 DEF RequestKnows
<1>5. CASE previous[c] = NoMap
  BY <1>1, <1>3, <1>4, <1>5 DEF Restored
<1>6. CASE previous[c] # NoMap /\ r.id \in Zakaz
  <2>1. previous[c] = r.map
    BY <1>1, <1>2, <1>6 DEF RequestKnows
  <2>2. [maps EXCEPT ![r.id] = previous[c]] = maps
    BY <1>3, <1>4, <2>1 DEF Book
  <2> QED
    BY <1>1, <1>4, <1>6, <2>2 DEF Restored
<1>7. CASE previous[c] # NoMap /\ r.id \notin Zakaz
  <2>1. previous[c].number = NoNumber
    BY <1>2, <1>7 DEF RequestKnows, NumberFits
  <2>2. PutAllowed(maps, r.id, previous[c])
    BY <1>7, <2>1 DEF PutAllowed
  <2> QED
    BY <1>1, <1>4, <1>7, <2>2 DEF Restored
<1> QED
  BY <1>5, <1>6, <1>7

LEMMA RollbackKeepsErpInv ==
  ASSUME Orderly, IInv, ErpInv, NEW c \in Clients, Rollback(c)
  PROVE  ErpInv'
<1> DEFINE r == request[c]
<1>1. /\ pc[c] = "rollback" /\ Forget(c) /\ UNCHANGED <<workOrders, fetched, task>>
      /\ maps[r.id] = r.map /\ maps' = [maps EXCEPT ![r.id] = previous[c]]
  BY RollbackIsExact DEF Rollback
<1>2. RequestKnows(c)
  BY <1>1 DEF ErpInv
<1>3. r.id \in Ids /\ Owns(c, r.id) /\ previous[c] \in Map \cup {NoMap}
  BY <1>2, RequestIsOwn DEF RequestKnows, IInv, Typed, LocalsTyped
<1>4. Ordered(r.id) => maps[r.id] = previous[c]
  BY <1>1, <1>2 DEF RequestKnows, Ordered, ErpInv, OrdersAgree
<1>5. /\ pc'[c] = "idle"
      /\ \A d \in Clients \ {c} :
           pc'[d] = pc[d] /\ request'[d] = request[d] /\ previous'[d] = previous[d]
  BY <1>1 DEF Forget, IInv, Typed, LocalsTyped
<1>6. /\ MapsNumbered' /\ OrdersAgree'
      /\ \A d \in Clients \ {c} : pc'[d] # "idle" => RequestKnows(d)'
      /\ \A d \in Clients : task'[d] # NoTask => TaskKnows(d)'
  BY <1>1, <1>2, <1>3, <1>4, <1>5, OwnWrite DEF RequestKnows
<1> QED
  BY <1>5, <1>6 DEF ErpInv

LEMMA SavePlainKeepsErpInv ==
  ASSUME Orderly, IInv, ErpInv, NEW c \in Clients, SavePlain(c)
  PROVE  ErpInv'
<1>1. PICK s \in PlainSaves[c] :
        PutAllowed(maps, s.id, s.map) /\ maps' = [maps EXCEPT ![s.id] = s.map]
  BY DEF SavePlain
<1>2. pc[c] = "idle" /\ UNCHANGED <<workOrders, fetched, pc, request, previous, task>>
  BY DEF SavePlain, locals
<1>3. s \in Saves(c) /\ s.id \in Ids /\ s.map \in Map
  BY RequestsAssumption DEF Saves, Order
<1>4. Owns(c, s.id) /\ NumberFits(s.id, s.map) /\ s.map # NoMap
  BY <1>3, SentinelAssumption DEF Owns, Orderly, AlwaysNumbered
<1>5. maps[s.id] # NoMap /\ s.id \in Zakaz => maps[s.id] = s.map
  BY <1>1, <1>3, <1>4, OrderSavedAsItIs
     DEF NumberFits, ErpInv, MapsNumbered, IInv, Typed, StoresTyped
<1>6. Ordered(s.id) => maps[s.id] = s.map
  BY <1>5, SentAreMaps, SentinelAssumption DEF Ordered, ErpInv, OrdersAgree, ErpAgrees
<1>7. task[c] # NoTask /\ task[c].id = s.id => maps[s.id] = s.map
  BY <1>5, SentAreMaps, SentinelAssumption DEF ErpInv, TaskKnows
<1>8. /\ MapsNumbered' /\ OrdersAgree'
      /\ \A d \in Clients \ {c} : pc'[d] # "idle" => RequestKnows(d)'
      /\ \A d \in Clients : task'[d] # NoTask => TaskKnows(d)'
  BY <1>1, <1>2, <1>3, <1>4, <1>6, <1>7, OwnWrite
<1> QED
  BY <1>2, <1>8 DEF ErpInv

LEMMA SaveStepKeepsErpInv ==
  ASSUME Orderly, IInv, ErpInv, NEW c \in Clients, SaveStep(c)
  PROVE  ErpInv'
<1>1. CASE PutMapRefused(c) \/ StoreFailed(c)
  BY <1>1, ForgetKeepsErpInv DEF PutMapRefused, StoreFailed, stores
<1>2. CASE DeleteTemplate(c)
  BY <1>2, ErpInvStutters DEF DeleteTemplate, locals
<1> QED
  BY <1>1, <1>2, ReadPreviousKeepsErpInv, PutMapKeepsErpInv, PutTemplateKeepsErpInv,
     PutTemplateFailsKeepsErpInv, RollbackKeepsErpInv, SavePlainKeepsErpInv DEF SaveStep

\* A task moves on, its order being the same.
LEMMA AdvanceKeepsErpInv ==
  ASSUME IInv, ErpInv, NEW c \in Clients, task[c] # NoTask, NEW step, Advance(c, step),
         UNCHANGED <<maps, workOrders, fetched, pc, request, previous>>
  PROVE  ErpInv'
<1>1. task[c] \in Task /\ DOMAIN task = Clients
  BY DEF IInv, Typed, TasksTyped
<1>2. /\ task'[c].id = task[c].id /\ task'[c].map = task[c].map
      /\ task'[c].product = task[c].product
      /\ \A d \in Clients \ {c} : task'[d] = task[d]
  BY <1>1 DEF Advance, Task
<1>3. \A d \in Clients : task'[d] # NoTask => TaskKnows(d)'
  BY <1>2 DEF ErpInv, TaskKnows, Ordered
<1>4. \A d \in Clients : pc'[d] # "idle" => RequestKnows(d)'
  BY <1>2 DEF ErpInv, RequestKnows, Ordered
<1>5. MapsNumbered' /\ OrdersAgree'
  BY DEF ErpInv, MapsNumbered, OrdersAgree, ErpAgrees
<1> QED
  BY <1>3, <1>4, <1>5 DEF ErpInv

\* The task is over, its work order written or not.
LEMMA TaskEndKeepsErpInv ==
  ASSUME Orderly, IInv, ErpInv, NEW c \in Clients, task[c] # NoTask,
         task' = [task EXCEPT ![c] = NoTask],
         workOrders' \in {workOrders, <<ThereAndBack(task[c])>> \o workOrders},
         UNCHANGED <<maps, fetched, pc, request, previous>>
  PROVE  ErpInv'
<1> DEFINE t == task[c]
           new == ThereAndBack(t)
<1>1. /\ TaskKnows(c) /\ t.id \in Ids /\ DOMAIN task = Clients
      /\ workOrders \in Seq(Order) /\ new \in Order
      /\ new.id = t.id /\ new.map.number = t.map.number /\ new.map.title = t.product
  BY SentBack DEF ErpInv, IInv, Typed, TasksTyped, StoresTyped, Task
<1>2. \A d \in Clients \ {c} : task'[d] = task[d]
  OBVIOUS
<1>3. /\ task'[c] = NoTask
      /\ \A d \in Clients \ {c} : task[d] # NoTask => task[d].id # t.id
      /\ \A d \in Clients \ {c} : pc[d] # "idle" => request[d].id # t.id
  <2>1. \A d \in Clients \ {c} : ~Owns(d, t.id)
    BY <1>1 DEF TaskKnows, Orderly, OneAdminEach
  <2> QED
    BY <1>1, <2>1, RequestIsOwn DEF ErpInv, TaskKnows, RequestKnows
<1>4. pc[c] = "idle"
  BY DEF ErpInv, RequestKnows
<1>5. CASE workOrders' = workOrders
  <2>1. \A d \in Clients : task'[d] # NoTask => TaskKnows(d)'
    BY <1>2, <1>3, <1>5 DEF ErpInv, TaskKnows, Ordered
  <2>2. \A d \in Clients : pc'[d] # "idle" => RequestKnows(d)'
    BY <1>2, <1>3, <1>5 DEF ErpInv, RequestKnows, Ordered
  <2>3. MapsNumbered' /\ OrdersAgree'
    BY <1>5 DEF ErpInv, MapsNumbered, OrdersAgree, ErpAgrees
  <2> QED
    BY <2>1, <2>2, <2>3 DEF ErpInv
<1>6. CASE workOrders' = <<new>> \o workOrders
  <2>1. /\ 1 \in DOMAIN workOrders' /\ workOrders'[1] = new
        /\ \A i \in DOMAIN workOrders :
             i + 1 \in DOMAIN workOrders' /\ workOrders'[i + 1] = workOrders[i]
        /\ \A i \in DOMAIN workOrders' :
             \/ i = 1
             \/ i - 1 \in DOMAIN workOrders /\ workOrders'[i] = workOrders[i - 1]
    <3> HIDE DEF new
    <3> QED
      BY <1>1, <1>6, Prepended
  <2>2. \A id \in Ids : Ordered(id)' <=> id = t.id \/ Ordered(id)
    <3> HIDE DEF new
    <3> QED
      BY <1>1, <2>1, Zenon DEF Ordered
  <2>3. \A d \in Clients : task'[d] # NoTask => TaskKnows(d)'
    BY <1>2, <1>3, <2>2, SentAreMaps DEF ErpInv, TaskKnows
  <2>4. ASSUME NEW d \in Clients, pc'[d] # "idle"
        PROVE  RequestKnows(d)'
    <3>1. d # c /\ RequestKnows(d)
      BY <1>4, <2>4 DEF ErpInv
    <3>2. request[d].id \in Ids /\ request[d].id # t.id
      BY <1>3, <2>4, <3>1, RequestIsOwn DEF RequestKnows
    <3>3. Ordered(request[d].id)' <=> Ordered(request[d].id)
      BY <2>2, <3>2
    <3> QED
      BY <1>2, <3>1, <3>3 DEF RequestKnows
  <2>5. ASSUME NEW i \in DOMAIN workOrders'
        PROVE  /\ workOrders'[i].id \in Zakaz
               /\ maps[workOrders'[i].id] # NoMap
               /\ maps[workOrders'[i].id].number = workOrders'[i].map.number
               /\ \/ maps[workOrders'[i].id].title = workOrders'[i].map.title
                  \/ NamesAnother(workOrders'[i].id)
    <3>1. CASE i = 1
      <4>1. maps[t.id] = t.map /\ t.map # NoMap
        BY <1>1, SentAreMaps, SentinelAssumption DEF TaskKnows
      <4> HIDE DEF new
      <4> QED
        BY <1>1, <2>1, <3>1, <4>1 DEF TaskKnows
    <3>2. CASE i # 1
      <4>1. i - 1 \in DOMAIN workOrders /\ workOrders'[i] = workOrders[i - 1]
        BY <2>1, <2>5, <3>2
      <4> QED
        BY <4>1 DEF ErpInv, OrdersAgree, ErpAgrees
    <3> QED
      BY <3>1, <3>2
  <2>6. \A i, j \in DOMAIN workOrders' : workOrders'[i].id = workOrders'[j].id => i = j
    <3>1. \A i \in DOMAIN workOrders : workOrders[i].id # new.id
      BY <1>1 DEF TaskKnows, Ordered
    <3> HIDE DEF new
    <3> QED
      BY <1>1, <1>6, <3>1, PrependedApart DEF ErpInv, OrdersAgree
  <2>7. \A i \in DOMAIN fetched' : \E j \in DOMAIN workOrders' : workOrders'[j] = fetched'[i]
    BY <2>1 DEF ErpInv, OrdersAgree
  <2> QED
    BY <2>3, <2>4, <2>5, <2>6, <2>7 DEF ErpInv, MapsNumbered, OrdersAgree, ErpAgrees
<1> QED
  BY <1>5, <1>6

LEMMA TaskStepKeepsErpInv ==
  ASSUME Orderly, IInv, ErpInv, NEW c \in Clients, TaskStep(c)
  PROVE  ErpInv'
<1>1. CASE ReadCodes(c)
  BY <1>1, AdvanceKeepsErpInv DEF ReadCodes, stores, locals
<1>2. CASE AppendRow(c)
  BY <1>2, AdvanceKeepsErpInv DEF AppendRow, locals
<1>3. CASE SheetFails(c)
  BY <1>3, AdvanceKeepsErpInv DEF SheetFails, stores, locals
<1>4. CASE SaveWorkOrder(c)
  BY <1>4, TaskEndKeepsErpInv DEF SaveWorkOrder, locals
<1>5. CASE ErpFails(c)
  BY <1>5, TaskEndKeepsErpInv DEF ErpFails, stores, locals
<1> QED
  BY <1>1, <1>2, <1>3, <1>4, <1>5 DEF TaskStep

\* A batch of work orders that is not refused is what the maps already are:
\* the first order of an id has the number its map has, and so the title.
LEMMA AllowedIsWhatIsThere ==
  ASSUME IInv, ErpInv, BatchAllowed(maps, fetched), NEW i \in DOMAIN fetched
  PROVE  fetched[i].map = maps[fetched[i].id]
<1> DEFINE id == fetched[i].id
           mine == {k \in 1 .. Len(fetched) : fetched[k].id = id}
<1>1. /\ DOMAIN fetched = 1 .. Len(fetched) /\ Len(fetched) \in Nat
      /\ id \in Ids /\ maps \in Book
  BY SentAreMaps DEF IInv, Typed, StoresTyped
<1>2. PICK first \in mine : \A k \in mine : first <= k
  <2>1. mine \in SUBSET Nat /\ i \in mine
    BY <1>1
  <2> HIDE DEF mine
  <2> QED
    BY <2>1, LeastNumber
<1>3. fetched[first] = fetched[i]
  <2>1. first \in DOMAIN fetched /\ fetched[first].id = id
    BY <1>1
  <2>2. PICK j \in DOMAIN workOrders : workOrders[j] = fetched[first]
    BY <2>1 DEF ErpInv, OrdersAgree
  <2>3. PICK k \in DOMAIN workOrders : workOrders[k] = fetched[i]
    BY DEF ErpInv, OrdersAgree
  <2>4. j = k
    BY <2>1, <2>2, <2>3 DEF ErpInv, OrdersAgree
  <2> QED
    BY <2>2, <2>3, <2>4
<1>4. BookAfter(maps, fetched, first - 1)[id] = maps[id]
  <2>1. {k \in 1 .. first - 1 : fetched[k].id = id} = {}
    BY <1>1, <1>2
  <2> QED
    BY <1>1, <2>1 DEF BookAfter
<1>5. PutAllowed(BookAfter(maps, fetched, first - 1), id, fetched[i].map)
  BY <1>1, <1>2, <1>3 DEF BatchAllowed
<1>6. /\ maps[id] # NoMap /\ maps[id].number = fetched[i].map.number
      /\ maps[id].number # NoNumber
  BY <1>1 DEF ErpInv, OrdersAgree, ErpAgrees, MapsNumbered, NumberFits
<1>7. maps[id].title = fetched[i].map.title
  BY <1>1, <1>4, <1>5, <1>6 DEF PutAllowed
<1>8. maps[id] \in Map /\ fetched[i].map \in Map
  BY <1>1, <1>6, SentAreMaps DEF Book
<1> QED
  BY <1>6, <1>7, <1>8 DEF Map

\* The ERP sync writes back what the maps already are, or nothing.
LEMMA SyncErpChangesNothing ==
  ASSUME IInv, ErpInv, SyncErp
  PROVE  maps' = maps
<1>1. DOMAIN fetched = 1 .. Len(fetched) /\ maps \in Book
  BY DEF IInv, Typed, StoresTyped
<1>2. ASSUME BatchAllowed(maps, fetched), NEW id \in Ids
      PROVE  BookAfter(maps, fetched, Len(fetched))[id] = maps[id]
  <2> DEFINE mine == {i \in 1 .. Len(fetched) : fetched[i].id = id}
             last == CHOOSE i \in mine : \A j \in mine : j <= i
  <2>1. ASSUME mine # {}
        PROVE  fetched[last].map = maps[id]
    <3>1. \E i \in mine : \A j \in mine : j <= i
      <4>1. Len(fetched) \in Nat /\ mine \in SUBSET (1 .. Len(fetched))
        BY DEF IInv, Typed, StoresTyped
      <4> HIDE DEF mine
      <4> QED
        BY <2>1, <4>1, GreatestNumber
    <3>2. last \in mine
      <4> HIDE DEF mine
      <4> QED
        BY <3>1
    <3> QED
      BY <1>1, <1>2, <3>2, AllowedIsWhatIsThere
  <2> QED
    BY <2>1 DEF BookAfter
<1>3. CASE BatchAllowed(maps, fetched)
  BY <1>1, <1>2, <1>3 DEF SyncErp, BookAfter, Book
<1>4. CASE ~BatchAllowed(maps, fetched)
  BY <1>4 DEF SyncErp
<1> QED
  BY <1>3, <1>4

LEMMA StepKeepsErpInv ==
  ASSUME Orderly, IInv, ErpInv, [Next]_vars
  PROVE  ErpInv'
<1>1. ASSUME NEW c \in Clients, SaveStep(c) \/ TaskStep(c)
      PROVE  ErpInv'
  BY <1>1, SaveStepKeepsErpInv, TaskStepKeepsErpInv
<1>2. CASE FetchWorkOrders
  BY <1>2, FetchKeepsErpInv DEF FetchWorkOrders, stores, locals
<1>3. CASE SyncErp
  BY <1>3, SyncErpChangesNothing, FetchKeepsErpInv DEF SyncErp, locals
<1>4. CASE SheetSync \/ SyncFails \/ UNCHANGED vars
  BY <1>4, ErpInvStutters DEF SheetSync, SyncReadMaps, SyncReadTemplates, SyncReadCodes,
                              SyncAppend, SyncFails, stores, locals, vars
<1>5. CASE Crash
  <2>1. /\ fetched' = <<>> /\ UNCHANGED <<maps, workOrders>>
        /\ \A c \in Clients : pc'[c] = "idle" /\ task'[c] = NoTask
    BY <1>5 DEF Crash, stores
  <2> QED
    BY <2>1 DEF ErpInv, MapsNumbered, OrdersAgree, ErpAgrees
<1> QED
  BY <1>1, <1>2, <1>3, <1>4, <1>5 DEF Next

LEMMA ErpInvHolds ==
  ASSUME Orderly
  PROVE  Spec => []ErpInv
<1>1. IInv /\ ErpInv /\ [Next]_vars => ErpInv'
  BY StepKeepsErpInv
<1> QED
  BY <1>1, IInvHolds, InitErpInv, PTL DEF Spec

-----------------------------------------------------------------------------
\* A set has at most one element when its elements are all the same.
LEMMA AtMostOne ==
  ASSUME NEW S, \A x, y \in S : x = y
  PROVE  Cardinality(S) = IF S = {} THEN 0 ELSE 1
<1>1. CASE S = {}
  BY <1>1, FS_EmptySet
<1>2. CASE S # {}
  <2>1. PICK x \in S : S = {x}
    BY <1>2
  <2> QED
    BY <1>2, <2>1, FS_Singleton
<1> QED
  BY <1>1, <1>2

\* Under those habits an order goes to ERPNext at most once, however often
\* it is saved, undone, or lost between the map and its integrations.
THEOREM OneWorkOrderEach == Orderly => (Spec => []OneWorkOrder)
<1> SUFFICES ASSUME Orderly PROVE Spec => []OneWorkOrder
  OBVIOUS
<1>1. ASSUME ErpInv, NEW id \in Ids
      PROVE  Cardinality({i \in DOMAIN workOrders : workOrders[i].id = id})
               + Cardinality({c \in Clients : task[c] # NoTask /\ task[c].id = id}) <= 1
  <2> DEFINE sent == {i \in DOMAIN workOrders : workOrders[i].id = id}
             owed == {c \in Clients : task[c] # NoTask /\ task[c].id = id}
  <2>1. \A i, j \in sent : i = j
    BY <1>1 DEF ErpInv, OrdersAgree
  <2>2. \A c, d \in owed : c = d
    BY <1>1 DEF ErpInv, TaskKnows, Orderly, OneAdminEach
  <2>3. sent = {} \/ owed = {}
    BY <1>1 DEF ErpInv, TaskKnows, Ordered
  <2> HIDE DEF sent, owed
  <2>4. /\ Cardinality(sent) = IF sent = {} THEN 0 ELSE 1
        /\ Cardinality(owed) = IF owed = {} THEN 0 ELSE 1
    BY <2>1, <2>2, AtMostOne
  <2>5. Cardinality(sent) + Cardinality(owed) <= 1
    BY <2>3, <2>4
  <2> QED
    BY <2>5 DEF sent, owed
<1>2. ErpInv => OneWorkOrder
  BY <1>1 DEF OneWorkOrder
<1> QED
  BY <1>2, ErpInvHolds, PTL

\* Under those habits a work order keeps the number of its map and, unless
\* a template of the order names another product, the product: no other
\* order makes the ERP sync refuse its batch.
THEOREM ErpStaysInStep == Orderly => (Spec => []ErpAgrees)
<1> SUFFICES ASSUME Orderly PROVE Spec => []ErpAgrees
  OBVIOUS
<1>1. ErpInv => ErpAgrees
  BY DEF ErpInv, OrdersAgree
<1> QED
  BY <1>1, ErpInvHolds, PTL

\* Under those habits a template that fails undoes the map it came with and
\* nothing else: the rollback takes away what its request wrote and leaves
\* what it found.
THEOREM RollbackIsItsOwn == Orderly => (Spec => RollbackRestores)
<1> SUFFICES ASSUME Orderly PROVE Spec => RollbackRestores
  OBVIOUS
<1> DEFINE Exact == \A c \in Clients : Rollback(c) =>
                      /\ maps[request[c].id] = request[c].map
                      /\ maps'[request[c].id] = previous[c]
<1>1. ASSUME IInv, ErpInv, NEW c \in Clients, Rollback(c)
      PROVE  /\ maps[request[c].id] = request[c].map
             /\ maps'[request[c].id] = previous[c]
  <2>1. pc[c] # "idle" /\ maps \in Book
    BY <1>1 DEF Rollback, IInv, Typed, StoresTyped
  <2>2. request[c].id \in Ids
    BY <1>1, <2>1, RequestIsOwn DEF ErpInv, RequestKnows
  <2> QED
    BY <1>1, <2>1, <2>2, RollbackIsExact DEF Book
<1>2. IInv /\ ErpInv /\ [Next]_vars => [Exact]_vars
  BY <1>1
<1> QED
  BY <1>2, IInvHolds, ErpInvHolds, PTL DEF Spec, RollbackRestores

-----------------------------------------------------------------------------
(***************************************************************************)
(* The stores a map's number does not depend on: the templates, the sheet, *)
(* the steps of the requests and the locals of the sheet sync.  What has   *)
(* to be argued is the template table: Saved takes the row of the same     *)
(* owner and code out before it puts the new one on top, and Sift keeps    *)
(* the rows it does not drop as they were and apart (SiftLeaves).          *)
(***************************************************************************)

SaveSteps == {"idle", "put_map", "put_template", "rollback"}

OnePerCode(list) ==
  \A i, j \in DOMAIN list :
    list[i].owner = list[j].owner /\ list[i].code = list[j].code => i = j

SyncTyped ==
  sync \in [at : {"maps", "templates", "codes", "append"}, book : Book, codes : SUBSET Numbers]

RestTyped ==
  /\ templates \in Seq(Template) /\ OnePerCode(templates)
  /\ sheet \in [Numbers -> Nat]
  /\ pc \in [Clients -> SaveSteps]
  /\ \A c \in Clients : pc[c] = "idle" => request[c] = NoRequest
  /\ SyncTyped

\* Rows that are left when others are deleted: still templates, still one per
\* owner and code, and each one that was there and is not dropped.
LEMMA SiftedTemplates ==
  ASSUME NEW list \in Seq(Template), OnePerCode(list), NEW drop
  PROVE  /\ Sift(list, drop) \in Seq(Template) /\ OnePerCode(Sift(list, drop))
         /\ \A i \in DOMAIN Sift(list, drop) :
              \E j \in DOMAIN list : Sift(list, drop)[i] = list[j] /\ list[j] \notin drop
<1>1. PICK rest : rest = Sift(list, drop)
  OBVIOUS
<1>2. rest \in Seq(Template) /\ \E g : LeftOf(rest, list, drop, g, Len(list))
  BY <1>1, SiftLeaves
<1>3. PICK g : LeftOf(rest, list, drop, g, Len(list))
  BY <1>2
<1>4. DOMAIN rest = 1 .. Len(rest) /\ DOMAIN list = 1 .. Len(list)
  BY <1>2
<1>5. /\ \A i \in DOMAIN rest : g[i] \in DOMAIN list /\ rest[i] = list[g[i]] /\ rest[i] \notin drop
      /\ \A i, j \in DOMAIN rest : g[i] = g[j] => i = j
  BY <1>3, <1>4 DEF LeftOf
<1>6. OnePerCode(rest)
  BY <1>5 DEF OnePerCode
<1>7. \A i \in DOMAIN rest : \E j \in DOMAIN list : rest[i] = list[j] /\ list[j] \notin drop
  BY <1>5
<1> QED
  BY <1>1, <1>2, <1>6, <1>7

\* One row per owner and code (the ON CONFLICT of the template's INSERT).
LEMMA SavedTemplates ==
  ASSUME templates \in Seq(Template), OnePerCode(templates), NEW t \in Template
  PROVE  Saved(t) \in Seq(Template) /\ OnePerCode(Saved(t))
<1>1. PICK drop : drop = Rows(t.owner, t.code)
  OBVIOUS
<1>2. PICK rest : rest = Sift(templates, drop)
  OBVIOUS
<1>3. /\ rest \in Seq(Template) /\ OnePerCode(rest)
      /\ \A i \in DOMAIN rest :
           \E j \in DOMAIN templates : rest[i] = templates[j] /\ templates[j] \notin drop
  BY <1>2, SiftedTemplates
<1>4. \A j \in DOMAIN templates :
        templates[j] \notin drop => ~(templates[j].owner = t.owner /\ templates[j].code = t.code)
  BY <1>1 DEF Rows, Range
<1>5. \A i \in DOMAIN rest : ~(rest[i].owner = t.owner /\ rest[i].code = t.code)
  BY <1>3, <1>4
<1>6. PICK after : after = <<t>> \o rest
  OBVIOUS
<1>7. after \in Seq(Template)
  BY <1>3, <1>6
<1>8. /\ DOMAIN after = 1 .. Len(rest) + 1 /\ DOMAIN rest = 1 .. Len(rest) /\ Len(rest) \in Nat
      /\ after[1] = t
      /\ \A i \in 2 .. Len(rest) + 1 : after[i] = rest[i - 1]
  BY <1>3, <1>6
<1>9. OnePerCode(after)
  <2> SUFFICES ASSUME NEW i \in DOMAIN after, NEW j \in DOMAIN after,
                      after[i].owner = after[j].owner, after[i].code = after[j].code
               PROVE  i = j
    BY DEF OnePerCode
  <2>1. CASE i = 1 /\ j # 1
    <3>1. j - 1 \in DOMAIN rest /\ after[j] = rest[j - 1]
      BY <1>8, <2>1
    <3> QED
      BY <1>5, <1>8, <2>1, <3>1
  <2>2. CASE i # 1 /\ j = 1
    <3>1. i - 1 \in DOMAIN rest /\ after[i] = rest[i - 1]
      BY <1>8, <2>2
    <3> QED
      BY <1>5, <1>8, <2>2, <3>1
  <2>3. CASE i # 1 /\ j # 1
    <3>1. /\ i - 1 \in DOMAIN rest /\ after[i] = rest[i - 1]
          /\ j - 1 \in DOMAIN rest /\ after[j] = rest[j - 1]
      BY <1>8, <2>3
    <3>2. i - 1 = j - 1
      BY <1>3, <3>1 DEF OnePerCode
    <3> QED
      BY <1>8, <3>2
  <2> QED
    BY <2>1, <2>2, <2>3
<1>10. Saved(t) = after
  BY <1>1, <1>2, <1>6 DEF Saved
<1> QED
  BY <1>7, <1>9, <1>10

LEMMA InitRest == Init => RestTyped
<1> SUFFICES ASSUME Init PROVE RestTyped
  OBVIOUS
<1>1. SyncTyped
  BY DEF Init, SyncTyped, SyncIdle, NoMaps, Book
<1>2. templates \in Seq(Template) /\ OnePerCode(templates)
  BY DEF Init, OnePerCode
<1> QED
  BY <1>1, <1>2 DEF Init, RestTyped, SaveSteps

\* A request that ends leaves its client idle, holding nothing.
LEMMA ForgetRest ==
  ASSUME IInv, RestTyped, NEW c \in Clients, Forget(c)
  PROVE  /\ pc' \in [Clients -> SaveSteps]
         /\ \A d \in Clients : pc'[d] = "idle" => request'[d] = NoRequest
  BY DEF Forget, RestTyped, SaveSteps, IInv, Typed, LocalsTyped

LEMMA SaveStepRest ==
  ASSUME IInv, RestTyped, NEW c \in Clients, SaveStep(c)
  PROVE  RestTyped'
<1>1. DOMAIN pc = Clients /\ DOMAIN request = Clients
  BY DEF IInv, Typed, LocalsTyped
<1>2. CASE ReadPrevious(c)
  <2>1. PICK r \in SaveRequests[c] : request' = [request EXCEPT ![c] = r]
    BY <1>2 DEF ReadPrevious
  <2>2. pc' = [pc EXCEPT ![c] = "put_map"] /\ UNCHANGED <<templates, sheet, sync>>
    BY <1>2 DEF ReadPrevious, stores
  <2>3. \A d \in Clients : pc'[d] = "idle" => request'[d] = NoRequest
    BY <1>1, <2>1, <2>2 DEF RestTyped
  <2> QED
    BY <2>2, <2>3 DEF RestTyped, SaveSteps, SyncTyped
<1>3. CASE PutMap(c)
  <2>1. UNCHANGED <<templates, sheet, sync>>
    BY <1>3 DEF PutMap
  <2>2. CASE StoresTemplate(request[c])
    <3>1. pc' = [pc EXCEPT ![c] = "put_template"] /\ request' = request
      BY <1>3, <2>2 DEF PutMap
    <3> QED
      BY <1>1, <2>1, <3>1 DEF RestTyped, SaveSteps, SyncTyped
  <2>3. CASE ~StoresTemplate(request[c])
    <3>1. Forget(c)
      BY <1>3, <2>3 DEF PutMap
    <3> QED
      BY <2>1, <3>1, ForgetRest DEF RestTyped, SyncTyped
  <2> QED
    BY <2>2, <2>3
<1>4. CASE PutMapRefused(c) \/ StoreFailed(c) \/ Rollback(c)
  <2>1. Forget(c) /\ UNCHANGED <<templates, sheet, sync>>
    BY <1>4 DEF PutMapRefused, StoreFailed, Rollback, stores
  <2> QED
    BY <2>1, ForgetRest DEF RestTyped, SyncTyped
<1>5. CASE PutTemplate(c)
  <2>1. PICK t : t = [owner |-> c, code |-> request[c].code,
                      source |-> request[c].id, kind |-> request[c].kind]
    OBVIOUS
  <2>2. templates' = Saved(t) /\ Forget(c) /\ UNCHANGED <<sheet, sync>>
    BY <1>5, <2>1 DEF PutTemplate
  <2>3. t \in Template
    <3>1. request[c] \in Request
      BY <1>5 DEF PutTemplate, IInv, Typed, LocalsTyped
    <3> QED
      BY <2>1, <3>1 DEF Request, Template
  <2>4. templates' \in Seq(Template) /\ OnePerCode(templates')
    BY <2>2, <2>3, SavedTemplates DEF RestTyped
  <2> QED
    BY <2>2, <2>4, ForgetRest DEF RestTyped, SyncTyped
<1>6. CASE PutTemplateFails(c)
  <2>1. pc' = [pc EXCEPT ![c] = "rollback"] /\ UNCHANGED <<templates, sheet, request, sync>>
    BY <1>6 DEF PutTemplateFails, stores
  <2> QED
    BY <1>1, <2>1 DEF RestTyped, SaveSteps, SyncTyped
<1>7. CASE SavePlain(c)
  BY <1>7 DEF SavePlain, locals, RestTyped, SyncTyped
<1>8. CASE DeleteTemplate(c)
  <2>1. PICK n \in Deletes[c] : templates' = Sift(templates, Rows(c, n))
    BY <1>8 DEF DeleteTemplate
  <2>2. templates' \in Seq(Template) /\ OnePerCode(templates')
    BY <2>1, SiftedTemplates DEF RestTyped
  <2> QED
    BY <1>8, <2>2 DEF DeleteTemplate, locals, RestTyped, SyncTyped
<1> QED
  BY <1>2, <1>3, <1>4, <1>5, <1>6, <1>7, <1>8 DEF SaveStep

LEMMA TaskStepRest ==
  ASSUME IInv, RestTyped, NEW c \in Clients, TaskStep(c)
  PROVE  RestTyped'
<1>1. CASE AppendRow(c)
  <2>1. sheet' = [sheet EXCEPT ![task[c].map.number] = @ + 1]
    BY <1>1 DEF AppendRow
  <2>2. sheet' \in [Numbers -> Nat]
    <3>1. CASE task[c].map.number \in Numbers
      BY <2>1, <3>1 DEF RestTyped
    <3>2. CASE task[c].map.number \notin Numbers
      BY <2>1, <3>2 DEF RestTyped
    <3> QED
      BY <3>1, <3>2
  <2> QED
    BY <1>1, <2>2 DEF AppendRow, locals, RestTyped, SyncTyped
<1>2. CASE ~AppendRow(c)
  <2>1. UNCHANGED <<templates, sheet, pc, request, sync>>
    BY <1>2 DEF TaskStep, ReadCodes, SheetFails, SaveWorkOrder, ErpFails, stores, locals
  <2> QED
    BY <2>1 DEF RestTyped, SyncTyped
<1> QED
  BY <1>1, <1>2

\* The codes the sheet sync appends are numbers of maps it has read.
LEMMA SheetSyncRest ==
  ASSUME IInv, RestTyped, SheetSync \/ SyncFails
  PROVE  RestTyped'
<1>1. maps \in Book /\ NoMaps \in Book
  BY DEF IInv, Typed, StoresTyped, NoMaps, Book
<1>2. UNCHANGED <<templates, pc, request>>
  BY DEF SheetSync, SyncReadMaps, SyncReadTemplates, SyncReadCodes, SyncAppend, SyncFails,
         stores, locals
<1>3. CASE SyncReadMaps
  BY <1>1, <1>2, <1>3 DEF SyncReadMaps, stores, RestTyped, SyncTyped
<1>4. CASE SyncReadTemplates
  <2>1. PICK from : from = ListedTemplates
    OBVIOUS
  <2>2. sync' = [at |-> "codes", book |-> NoMaps,
                 codes |-> {sync.book[id].number : id \in {i \in Ids : Sheetable(sync.book, i, from)}}]
    BY <1>4, <2>1 DEF SyncReadTemplates
  <2>3. ASSUME NEW id \in Ids, Sheetable(sync.book, id, from)
        PROVE  sync.book[id].number \in Numbers
    <3>1. sync.book[id] \in Map /\ sync.book[id].number # NoNumber
      BY <2>3 DEF Sheetable, IsSheetOrder, RestTyped, SyncTyped, Book
    <3> QED
      BY <3>1 DEF Map
  <2>4. {sync.book[id].number : id \in {i \in Ids : Sheetable(sync.book, i, from)}} \subseteq Numbers
    BY <2>3
  <2>5. SyncTyped'
    BY <1>1, <2>2, <2>4 DEF SyncTyped
  <2> QED
    BY <1>2, <1>4, <2>5 DEF SyncReadTemplates, stores, RestTyped
<1>5. CASE SyncReadCodes
  <2>1. sync' = [sync EXCEPT !.at = "append", !.codes = {n \in sync.codes : sheet[n] = 0}]
    BY <1>5 DEF SyncReadCodes
  <2>2. SyncTyped'
    BY <2>1 DEF RestTyped, SyncTyped
  <2> QED
    BY <1>2, <1>5, <2>2 DEF SyncReadCodes, stores, RestTyped
<1>6. CASE SyncAppend
  <2>1. /\ sheet' = [n \in Numbers |-> IF n \in sync.codes THEN sheet[n] + 1 ELSE sheet[n]]
        /\ sync' = SyncIdle
    BY <1>6 DEF SyncAppend
  <2>2. sheet' \in [Numbers -> Nat]
    BY <2>1 DEF RestTyped
  <2>3. SyncTyped'
    BY <1>1, <2>1 DEF SyncIdle, SyncTyped
  <2> QED
    BY <1>2, <2>2, <2>3 DEF RestTyped
<1>7. CASE SyncFails
  <2>1. SyncTyped'
    BY <1>1, <1>7 DEF SyncFails, SyncIdle, SyncTyped
  <2> QED
    BY <1>2, <1>7, <2>1 DEF SyncFails, stores, RestTyped
<1> QED
  BY <1>3, <1>4, <1>5, <1>6, <1>7 DEF SheetSync

LEMMA StepRest == IInv /\ RestTyped /\ [Next]_vars => RestTyped'
<1> SUFFICES ASSUME IInv, RestTyped, [Next]_vars PROVE RestTyped'
  OBVIOUS
<1>1. ASSUME NEW c \in Clients, SaveStep(c) \/ TaskStep(c)
      PROVE  RestTyped'
  BY <1>1, SaveStepRest, TaskStepRest
<1>2. CASE FetchWorkOrders \/ SyncErp \/ UNCHANGED vars
  BY <1>2 DEF FetchWorkOrders, SyncErp, stores, locals, vars, RestTyped, SyncTyped
<1>3. CASE SheetSync \/ SyncFails
  BY <1>3, SheetSyncRest
<1>4. CASE Crash
  <2>1. /\ pc' = [c \in Clients |-> "idle"] /\ request' = [c \in Clients |-> NoRequest]
        /\ sync' = SyncIdle /\ UNCHANGED <<templates, sheet>>
    BY <1>4 DEF Crash, stores
  <2>2. SyncTyped'
    BY <2>1 DEF SyncIdle, SyncTyped, NoMaps, Book
  <2> QED
    BY <2>1, <2>2 DEF RestTyped, SaveSteps
<1> QED
  BY <1>1, <1>2, <1>3, <1>4 DEF Next

\* The stores and the locals keep their types through every interleaving and
\* every crash: a client that waits holds nothing of its last request, a
\* template is stored once per owner and code, however it was saved or its
\* code freed and taken again, and the sheet sync only ever appends numbers.
THEOREM OrdersTyped == Spec => []TypeOK
<1>1. ASSUME IInv, RestTyped
      PROVE  TypeOK
  <2>1. \A c \in Clients : task[c] = NoTask \/ [id |-> task[c].id, map |-> task[c].map] \in Order
    BY <1>1 DEF IInv, Typed, TasksTyped, Task, Order
  <2>2. \A c \in Clients : request[c] \in IF pc[c] = "idle" THEN {NoRequest} ELSE Request
    BY <1>1 DEF IInv, Typed, LocalsTyped, RestTyped
  <2>3. \A c \in Clients : previous[c] \in Map \cup {NoMap}
    BY <1>1 DEF IInv, Typed, LocalsTyped
  <2>4. sync.book \in [Ids -> Map \cup {NoMap}] /\ sync.codes \subseteq Numbers
    BY <1>1 DEF RestTyped, SyncTyped, Book
  <2> QED
    BY <1>1, <2>1, <2>2, <2>3, <2>4
       DEF IInv, Typed, StoresTyped, RestTyped, OnePerCode, SaveSteps, TypeOK, Book
<1> QED
  BY <1>1, IInvHolds, InitRest, StepRest, PTL DEF Spec
=============================================================================
