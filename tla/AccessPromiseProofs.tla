------------------------- MODULE AccessPromiseProofs -------------------------
(***************************************************************************)
(* What is kept of what was confirmed of a supplier: that it is blocked or *)
(* removed, its code, its phone and its items, here and in ERPNext, under  *)
(* requests that overlap at every step; that a blocked one does not log    *)
(* in; what is kept of a nickname; and, with the invariants of the other   *)
(* records, that all of what was acknowledged is kept.                     *)
(***************************************************************************)
EXTENDS AccessProofs

-----------------------------------------------------------------------------
(***************************************************************************)
(* What was confirmed of a supplier. Nothing keeps the names of suppliers  *)
(* and customers apart, and the store knows a person by the name alone: a  *)
(* change of the customer leaves of what was confirmed of the supplier of  *)
(* that name only that it is blocked.                                      *)
(***************************************************************************)
SupplierWork == SupplierOps \cup {"createSupplier"}
PhoneWork == {"supplierPhone", "customerPhone", "createCustomer", "createSupplier"}

IsPromise(p) ==
  p = [blocked |-> p.blocked, removed |-> p.removed, code |-> p.code, phone |-> p.phone,
       items |-> [i \in Items |-> p.items[i]], rows |-> [i \in Items |-> p.rows[i]]]
\* A promise that says no more than another one.
Less(p, q) ==
  /\ p.blocked # None => q.blocked = p.blocked
  /\ p.removed # None => q.removed = p.removed
  /\ p.code # None => q.code = p.code
  /\ p.phone # None => q.phone = p.phone
  /\ \A i \in Items : p.items[i] # None => q.items[i] = p.items[i]
  /\ \A i \in Items : p.rows[i] # None => q.rows[i] = p.rows[i]

\* What a request confirms when it ends alone.
Wish(p, op, arg) == LET it(v) == v IN Intended(p, op, arg, it)
Goal(j, told) == IF j.alone THEN Wish(told[j.arg.ref], j.op, j.arg) ELSE told[j.arg.ref]
\* Nothing is known of what it is about to change.
Untouched(p, op, arg) ==
  /\ op \in {"block", "unblock", "remove", "restore"} => p.blocked = None
  /\ op \in {"remove", "restore", "createSupplier"} => p.removed = None
  /\ op = "regenerate" => p.code = None
  /\ op = "supplierPhone" => p.phone = None
  /\ op \in {"assign", "unassign"} => p.items[arg.item] = None /\ p.rows[arg.item] = None
  /\ op = "items" => \A i \in Items : p.items[i] = None /\ p.rows[i] = None
  /\ op \in CustomerChanges =>
       p.blocked \in {TRUE, None} /\ p.removed = None /\ p.code = None /\ p.phone = None

AsState(v) == IF v = None THEN NoState ELSE v
Fulfils(r, p, s) ==
  /\ p.blocked # None => s.blocked = p.blocked
  /\ p.removed # None => s.removed = p.removed
  /\ p.code # None => SupplierCode(r, s) = p.code
  /\ \A i \in Items : p.items[i] # None => (i \in s.items) = p.items[i]
SupplierRows(r, rows) == {row \in rows : row.kind = "supplier" /\ row.ref = r}
Rows(r, p, rows) == \A i \in Items : p.rows[i] # None => HasRow(i, r, rows) = p.rows[i]
PartyHeld(r) ==
  /\ parties[r] = None => promised[r].blocked = None /\ promised[r].phone = None
  /\ promised[r].phone # None => PhoneOf(r) = promised[r].phone

WritePcs == {"restate", "put", "write"}
\* What a request asks for, where it is, and what it holds there, when told
\* has been confirmed, and erp and rows are in ERPNext.
PersonAsks(op, arg, told) ==
  /\ op \in SupplierWork => arg.ref \in Suppliers
  /\ op \in CustomerWork => arg.ref \in Customers
  /\ op \in PhoneWork => arg.phone \in Phones
  /\ Untouched(told[arg.ref], op, arg)
PersonAt(op, pc, r, told, erp) ==
  /\ op \in SupplierOps \cup {"regenerateCustomer"} /\ pc \notin {"entry", "stateCodes"} =>
       erp[r] # None
  /\ op = "createSupplier" /\ pc \in WritePcs => erp[r] # None /\ told[r].blocked = None
  /\ pc = "erpPhone" => op \in {"supplierPhone", "customerPhone"}
  /\ pc = "erpCode" => op = "regenerateCustomer"
  /\ pc = "search" => op = "createCustomer"
  /\ pc = "post" => op \in {"createSupplier", "createCustomer"}
  /\ pc \in WritePcs => op # "supplierPhone"
\* A request deletes rows of its own item: the supplier's, or customers'.
DeletesOwn(j) ==
  \A row \in j.copy :
    IF j.op = "unassignCustomer" THEN row.kind = "customer"
    ELSE row.kind = "supplier" /\ row.ref = j.arg.ref /\ row.item = j.arg.item
PersonHolds(j, told) ==
  LET r == j.arg.ref IN
  /\ j.pc \in HeldPcs => Fulfils(r, IF j.pc = "put" THEN Goal(j, told) ELSE told[r], j.copy)
  /\ j.pc = "write" => \A x \in Refs :
       Fulfils(x, IF x = r THEN Goal(j, told) ELSE told[x], AsState(j.copy[x]))
  /\ j.pc = "deleteRows" => DeletesOwn(j)
\* What is still to be done to the rows, of those the catalog told rightly.
ItemsReady(pc, r, arg, rows) ==
  /\ arg.add \subseteq arg.items /\ arg.drop \cap arg.items = {}
  /\ pc # "sync" => arg.item \notin arg.items
  /\ \A i \in arg.right \cap arg.items : i \in arg.add \/ HasRow(i, r, rows)
  /\ \A i \in arg.right \ arg.items :
       HasRow(i, r, rows) => i \in arg.drop \/ (pc # "sync" /\ i = arg.item)
RowsReady(j, told, rows) ==
  LET r == j.arg.ref IN
  j.alone =>
    /\ j.pc \in WritePcs => Rows(r, Goal(j, told), rows)
    /\ j.op = "items" /\ j.pc \in {"sync", "rows", "deleteRows"} => ItemsReady(j.pc, r, j.arg, rows)
    /\ j.pc = "deleteRows" /\ j.op # "unassignCustomer" =>
         \A row \in SupplierRows(r, rows) : row.item = j.arg.item => row \in j.copy

PersonJob(j, told, erp, rows) ==
  j.pc \in StatePcs =>
    /\ PersonAsks(j.op, j.arg, told) /\ PersonAt(j.op, j.pc, j.arg.ref, told, erp)
    /\ PersonHolds(j, told) /\ RowsReady(j, told, rows)

Told ==
  /\ promised = [r \in Refs |-> promised[r]]
  /\ \A r \in Refs : IsPromise(promised[r]) /\ (r \notin Suppliers => promised[r] = NoPromise)
  /\ parties \in [Parties -> PartyRecords \cup {None}]
KeptAll == \A r \in Refs : Fulfils(r, promised[r], StateFor(r)) /\ Rows(r, promised[r], assigned)
PromiseInv ==
  /\ Told /\ KeptAll
  /\ \A r \in Parties : PartyHeld(r)
  /\ \A h \in Handlers : Working(h) => PersonJob(jobs[h], promised, parties, assigned)

WishOf(w, p, op, arg) ==
  /\ IsPromise(w)
  /\ w.blocked = IF op \in {"block", "unblock"} THEN op = "block"
                 ELSE IF op \in {"remove", "restore"} THEN op = "remove"
                 ELSE IF op \in CustomerChanges THEN (IF p.blocked = TRUE THEN TRUE ELSE None)
                 ELSE p.blocked
  /\ w.removed = IF op \in {"remove", "restore"} THEN op = "remove"
                 ELSE IF op = "createSupplier" THEN FALSE
                 ELSE IF op \in CustomerChanges THEN None ELSE p.removed
  /\ w.code = IF op = "regenerate" THEN arg.code
              ELSE IF op \in CustomerChanges THEN None ELSE p.code
  /\ w.phone = IF op = "supplierPhone" THEN arg.phone
               ELSE IF op \in CustomerChanges THEN None ELSE p.phone
  /\ \A i \in Items :
       /\ w.items[i] = IF op \in {"assign", "unassign"} /\ i = arg.item THEN op = "assign"
                       ELSE IF op = "items" THEN i \in arg.items ELSE p.items[i]
       /\ w.rows[i] = IF op \in {"assign", "unassign"} /\ i = arg.item THEN op = "assign"
                      ELSE IF op = "items" THEN (IF i \in arg.right THEN i \in arg.items ELSE None)
                      ELSE p.rows[i]

LEMMA WishIs ==
  ASSUME NEW p, IsPromise(p), NEW op \in StateOps, NEW arg,
         op \in {"assign", "unassign"} => arg.item \in Items, NEW w, w = Wish(p, op, arg)
  PROVE  WishOf(w, p, op, arg)
<1>1. IsPromise(w)
  BY DEF Wish, Intended, IsPromise
<1>2. w.blocked = IF op \in {"block", "unblock"} THEN op = "block"
                  ELSE IF op \in {"remove", "restore"} THEN op = "remove"
                  ELSE IF op \in CustomerChanges THEN (IF p.blocked = TRUE THEN TRUE ELSE None)
                  ELSE p.blocked
  BY DEF Wish, Intended, CustomerChanges
<1>3. w.removed = IF op \in {"remove", "restore"} THEN op = "remove"
                  ELSE IF op = "createSupplier" THEN FALSE
                  ELSE IF op \in CustomerChanges THEN None ELSE p.removed
  BY DEF Wish, Intended, CustomerChanges
<1>4. w.code = IF op = "regenerate" THEN arg.code
               ELSE IF op \in CustomerChanges THEN None ELSE p.code
  BY DEF Wish, Intended, CustomerChanges
<1>5. w.phone = IF op = "supplierPhone" THEN arg.phone
                ELSE IF op \in CustomerChanges THEN None ELSE p.phone
  BY DEF Wish, Intended, CustomerChanges
<1>6. ASSUME NEW i \in Items
      PROVE  w.items[i] = IF op \in {"assign", "unassign"} /\ i = arg.item THEN op = "assign"
                          ELSE IF op = "items" THEN i \in arg.items ELSE p.items[i]
  BY DEF Wish, Intended
<1>7. ASSUME NEW i \in Items
      PROVE  w.rows[i] = IF op \in {"assign", "unassign"} /\ i = arg.item THEN op = "assign"
                         ELSE IF op = "items" THEN (IF i \in arg.right THEN i \in arg.items ELSE None)
                         ELSE p.rows[i]
  BY DEF Wish, Intended
<1> QED
  BY <1>1, <1>2, <1>3, <1>4, <1>5, <1>6, <1>7 DEF WishOf

\* What is still known when a request has begun.
Begun(p, op, arg) == LET nothing(v) == None IN Intended(p, op, arg, nothing)

LEMMA BegunIs ==
  ASSUME NEW p, IsPromise(p), NEW op \in StateOps, NEW arg,
         op \in {"assign", "unassign"} => arg.item \in Items, NEW w, w = Begun(p, op, arg)
  PROVE  IsPromise(w) /\ Less(w, p) /\ Untouched(w, op, arg)
<1>1. IsPromise(w)
  BY DEF Begun, Intended, IsPromise
<1>2. w.blocked = IF op \in {"block", "unblock", "remove", "restore"} THEN None
                  ELSE IF op \in CustomerChanges THEN (IF p.blocked = TRUE THEN TRUE ELSE None)
                  ELSE p.blocked
  BY DEF Begun, Intended, CustomerChanges
<1>3. w.removed = IF op \in {"remove", "restore", "createSupplier"} \cup CustomerChanges THEN None
                  ELSE p.removed
  BY DEF Begun, Intended, CustomerChanges
<1>4. w.code = IF op \in {"regenerate"} \cup CustomerChanges THEN None ELSE p.code
  BY DEF Begun, Intended, CustomerChanges
<1>5. w.phone = IF op \in {"supplierPhone"} \cup CustomerChanges THEN None ELSE p.phone
  BY DEF Begun, Intended, CustomerChanges
<1>6. ASSUME NEW i \in Items
      PROVE  /\ w.items[i] \in {p.items[i], None}
             /\ op = "items" \/ (op \in {"assign", "unassign"} /\ i = arg.item) => w.items[i] = None
  BY DEF Begun, Intended
<1>7. ASSUME NEW i \in Items
      PROVE  /\ w.rows[i] \in {p.rows[i], None}
             /\ op = "items" \/ (op \in {"assign", "unassign"} /\ i = arg.item) => w.rows[i] = None
  BY DEF Begun, Intended
<1>8. Less(w, p)
  BY <1>2, <1>3, <1>4, <1>5, <1>6, <1>7 DEF Less
<1>9. op \in {"block", "unblock", "remove", "restore"} => w.blocked = None
  BY <1>2
<1>10. op \in CustomerChanges =>
         w.blocked \in {TRUE, None} /\ w.removed = None /\ w.code = None /\ w.phone = None
  BY <1>2, <1>3, <1>4, <1>5 DEF CustomerChanges
<1>11. Untouched(w, op, arg)
  BY <1>3, <1>4, <1>5, <1>6, <1>7, <1>9, <1>10 DEF Untouched
<1> QED
  BY <1>1, <1>8, <1>11

LEMMA NoPromiseIs ==
  /\ IsPromise(NoPromise) /\ \A q : Less(NoPromise, q)
  /\ \A op, arg : (op \in {"assign", "unassign"} => arg.item \in Items)
       => Untouched(NoPromise, op, arg)
<1>1. PICK p : p = NoPromise
  OBVIOUS
<1>2. /\ p.blocked = None /\ p.removed = None /\ p.code = None /\ p.phone = None
      /\ \A i \in Items : p.items[i] = None /\ p.rows[i] = None
  BY <1>1 DEF NoPromise
<1>3. IsPromise(p)
  BY <1>1 DEF IsPromise, NoPromise
<1>4. \A q : Less(p, q)
  BY <1>2 DEF Less
<1>5. \A op, arg : (op \in {"assign", "unassign"} => arg.item \in Items) => Untouched(p, op, arg)
  BY <1>2 DEF Untouched
<1> QED
  BY <1>1, <1>3, <1>4, <1>5

LEMMA LessKeeps ==
  ASSUME NEW p, NEW q, Less(p, q)
  PROVE  /\ \A r, s : Fulfils(r, q, s) => Fulfils(r, p, s)
         /\ \A r, rows : Rows(r, q, rows) => Rows(r, p, rows)
         /\ \A op, arg : (op \in {"assign", "unassign"} => arg.item \in Items) /\ Untouched(q, op, arg)
              => Untouched(p, op, arg)
<1>1. ASSUME NEW r, NEW s, Fulfils(r, q, s) PROVE Fulfils(r, p, s)
  BY <1>1 DEF Fulfils, Less
<1>2. ASSUME NEW r, NEW rows, Rows(r, q, rows) PROVE Rows(r, p, rows)
  BY <1>2 DEF Rows, Less
<1>3. ASSUME NEW op, NEW arg, op \in {"assign", "unassign"} => arg.item \in Items, Untouched(q, op, arg)
      PROVE  Untouched(p, op, arg)
  <2>1. \A i \in Items : (q.items[i] = None => p.items[i] = None) /\ (q.rows[i] = None => p.rows[i] = None)
    BY DEF Less
  <2>2. op \in {"block", "unblock", "remove", "restore"} => p.blocked = None
    BY <1>3 DEF Untouched, Less
  <2>3. op \in {"remove", "restore", "createSupplier"} => p.removed = None
    BY <1>3 DEF Untouched, Less
  <2>4. (op = "regenerate" => p.code = None) /\ (op = "supplierPhone" => p.phone = None)
    BY <1>3 DEF Untouched, Less
  <2>5. op \in {"assign", "unassign"} => p.items[arg.item] = None /\ p.rows[arg.item] = None
    BY <1>3, <2>1 DEF Untouched
  <2>6. op = "items" => \A i \in Items : p.items[i] = None /\ p.rows[i] = None
    BY <1>3, <2>1 DEF Untouched
  <2>7. op \in CustomerChanges =>
          p.blocked \in {TRUE, None} /\ p.removed = None /\ p.code = None /\ p.phone = None
    BY <1>3 DEF Untouched, Less
  <2> QED
    BY <2>2, <2>3, <2>4, <2>5, <2>6, <2>7 DEF Untouched
<1> QED
  BY <1>1, <1>2, <1>3

LEMMA LessSelf ==
  ASSUME NEW p
  PROVE  Less(p, p)
  BY DEF Less

LEMMA ChangesApart ==
  /\ CustomerChanges \cap SupplierWork = {} /\ CustomerChanges \subseteq StateOps
  /\ {"block", "unblock", "remove", "restore", "createSupplier", "regenerate", "supplierPhone"}
       \cap CustomerChanges = {}
  BY DEF CustomerChanges, SupplierWork, SupplierOps, StateOps

LEMMA LessWish ==
  ASSUME NEW p, NEW q, IsPromise(p), IsPromise(q), Less(p, q), NEW op \in StateOps, NEW arg,
         op \in {"assign", "unassign"} => arg.item \in Items
  PROVE  /\ Less(Wish(p, op, arg), Wish(q, op, arg))
         /\ Untouched(q, op, arg) => Less(p, Wish(q, op, arg))
<1>1. PICK v, w : v = Wish(p, op, arg) /\ w = Wish(q, op, arg)
  OBVIOUS
<1>2. WishOf(v, p, op, arg) /\ WishOf(w, q, op, arg)
  BY <1>1, WishIs
<1>3. Less(v, w)
  <2>1. v.blocked # None => w.blocked = v.blocked
    BY <1>2, StatesAssumption DEF WishOf, Less
  <2>2. v.removed # None => w.removed = v.removed
    BY <1>2 DEF WishOf, Less
  <2>3. v.code # None => w.code = v.code
    BY <1>2 DEF WishOf, Less
  <2>4. v.phone # None => w.phone = v.phone
    BY <1>2 DEF WishOf, Less
  <2>5. ASSUME NEW i \in Items, v.items[i] # None PROVE w.items[i] = v.items[i]
    BY <1>2, <2>5 DEF WishOf, Less
  <2>6. ASSUME NEW i \in Items, v.rows[i] # None PROVE w.rows[i] = v.rows[i]
    BY <1>2, <2>6 DEF WishOf, Less
  <2> QED
    BY <2>1, <2>2, <2>3, <2>4, <2>5, <2>6 DEF Less
<1>4. ASSUME Untouched(q, op, arg) PROVE Less(p, w)
  <2>1. p.blocked # None => w.blocked = p.blocked
    BY <1>2, <1>4, ChangesApart DEF WishOf, Less, Untouched
  <2>2. p.removed # None => w.removed = p.removed
    BY <1>2, <1>4, ChangesApart DEF WishOf, Less, Untouched
  <2>3. p.code # None => w.code = p.code
    BY <1>2, <1>4, ChangesApart DEF WishOf, Less, Untouched
  <2>4. p.phone # None => w.phone = p.phone
    BY <1>2, <1>4, ChangesApart DEF WishOf, Less, Untouched
  <2>5. ASSUME NEW i \in Items, p.items[i] # None PROVE w.items[i] = p.items[i]
    <3>1. q.items[i] = p.items[i]
      BY <2>5 DEF Less
    <3>2. op # "items" /\ ~(op \in {"assign", "unassign"} /\ i = arg.item)
      BY <1>4, <2>5, <3>1 DEF Untouched
    <3> QED
      BY <1>2, <3>1, <3>2 DEF WishOf
  <2>6. ASSUME NEW i \in Items, p.rows[i] # None PROVE w.rows[i] = p.rows[i]
    <3>1. q.rows[i] = p.rows[i]
      BY <2>6 DEF Less
    <3>2. op # "items" /\ ~(op \in {"assign", "unassign"} /\ i = arg.item)
      BY <1>4, <2>6, <3>1 DEF Untouched
    <3> QED
      BY <1>2, <3>1, <3>2 DEF WishOf
  <2> QED
    BY <2>1, <2>2, <2>3, <2>4, <2>5, <2>6 DEF Less
<1> QED
  BY <1>1, <1>3, <1>4

-----------------------------------------------------------------------------
\* Two promises that say no less than nothing are the same.
LEMMA LessNothing ==
  ASSUME NEW p, IsPromise(p), Less(p, NoPromise)
  PROVE  p = NoPromise
<1>1. PICK q : q = NoPromise
  OBVIOUS
<1>2. PICK old : old = [i \in Items |-> None]
  OBVIOUS
<1>0. PICK its, rws : /\ its = p.items /\ its = [i \in Items |-> its[i]]
                      /\ rws = p.rows /\ rws = [i \in Items |-> rws[i]]
  BY DEF IsPromise
<1>3. /\ q = [blocked |-> None, removed |-> None, code |-> None, phone |-> None, items |-> old,
              rows |-> old]
      /\ \A i \in Items : q.items[i] = None /\ q.rows[i] = None
  BY <1>1, <1>2 DEF NoPromise
<1>4. /\ p.blocked = None /\ p.removed = None /\ p.code = None /\ p.phone = None
      /\ \A i \in Items : its[i] = None /\ rws[i] = None
  BY <1>0, <1>1, <1>3 DEF Less
<1>5. its = old /\ rws = old
  BY <1>0, <1>2, <1>4
<1>6. p = [blocked |-> p.blocked, removed |-> p.removed, code |-> p.code, phone |-> p.phone,
           items |-> its, rows |-> rws]
  BY <1>0 DEF IsPromise
<1> QED
  BY <1>1, <1>2, <1>3, <1>4, <1>5, <1>6

\* Nothing is claimed of who is not a supplier.
LEMMA NothingHeld ==
  ASSUME PromiseInv, NEW r \in Refs \ Suppliers
  PROVE  /\ promised[r] = NoPromise
         /\ \A s : Fulfils(r, promised[r], s)
         /\ \A rows : Rows(r, promised[r], rows)
         /\ promised[r].blocked = None /\ promised[r].phone = None
<1>1. PICK p : p = promised[r] /\ p = NoPromise
  BY DEF PromiseInv, Told
<1>2. /\ p.blocked = None /\ p.removed = None /\ p.code = None /\ p.phone = None
      /\ \A i \in Items : p.items[i] = None /\ p.rows[i] = None
  BY <1>1 DEF NoPromise
<1>4. \A s : Fulfils(r, p, s)
  BY <1>2 DEF Fulfils
<1>5. \A rows : Rows(r, p, rows)
  BY <1>2 DEF Rows
<1> QED
  BY <1>1, <1>2, <1>4, <1>5

\* What is known of a request about a person.
Asks(j) ==
  /\ j.pc \in StatePcs /\ j.op \in StateOps /\ j.arg.ref \in Refs /\ ArgTyped(j.op, j.arg)
  /\ j.op \in OpsAt(j.pc) /\ CopyTyped(j.pc, j.copy)
  /\ j.op \in {"assign", "unassign"} => j.arg.item \in Items
  /\ IsPromise(promised[j.arg.ref]) /\ Untouched(promised[j.arg.ref], j.op, j.arg)
  /\ PersonAsks(j.op, j.arg, promised) /\ PersonAt(j.op, j.pc, j.arg.ref, promised, parties)
  /\ PersonHolds(j, promised) /\ RowsReady(j, promised, assigned)

LEMMA AsksIs ==
  ASSUME Typed, PromiseInv, NEW h \in Handlers, Working(h), jobs[h].pc \in StatePcs
  PROVE  Asks(jobs[h])
<1>1. PICK j : j = jobs[h]
  OBVIOUS
<1>2. /\ j.op \in OpsAt(j.pc) /\ j.arg.ref \in Refs /\ ArgTyped(j.op, j.arg)
      /\ CopyTyped(j.pc, j.copy)
  BY <1>1, StateJobIs
<1>3. j.op \in StateOps
  BY <1>2 DEF OpsAt, StateOps, SupplierOps
<1>4. PersonJob(j, promised, parties, assigned)
  BY <1>1 DEF PromiseInv
<1>5. /\ PersonAsks(j.op, j.arg, promised) /\ PersonAt(j.op, j.pc, j.arg.ref, promised, parties)
  /\ PersonHolds(j, promised) /\ RowsReady(j, promised, assigned)
  BY <1>1, <1>4 DEF PersonJob
<1>6. IsPromise(promised[j.arg.ref])
  BY <1>2 DEF PromiseInv, Told
<1>7. Untouched(promised[j.arg.ref], j.op, j.arg)
  BY <1>5 DEF PersonAsks
<1>8. j.op \in {"assign", "unassign"} => j.arg.item \in Items
  BY <1>2 DEF ArgTyped, ItemOps
<1> QED
  BY <1>1, <1>2, <1>3, <1>5, <1>6, <1>7, <1>8 DEF Asks

\* What is confirmed says no less than what was.
LEMMA GoalIs ==
  ASSUME NEW j, Asks(j)
  PROVE  LET p == promised[j.arg.ref]
             w == Wish(p, j.op, j.arg) IN
         /\ WishOf(w, p, j.op, j.arg) /\ Less(p, w)
         /\ Goal(j, promised) = (IF j.alone THEN w ELSE p) /\ Less(Goal(j, promised), w) /\ Less(p, Goal(j, promised))
<1>1. PICK p, w : p = promised[j.arg.ref] /\ w = Wish(p, j.op, j.arg)
  OBVIOUS
<1>2. IsPromise(p) /\ Untouched(p, j.op, j.arg) /\ j.op \in StateOps
      /\ (j.op \in {"assign", "unassign"} => j.arg.item \in Items)
  BY <1>1 DEF Asks
<1>3. WishOf(w, p, j.op, j.arg)
  BY <1>1, <1>2, WishIs
<1>4. Less(p, p) /\ Less(w, w)
  BY LessSelf
<1>5. Less(p, w)
  BY <1>1, <1>2, <1>4, LessWish
<1>6. Goal(j, promised) = IF j.alone THEN w ELSE p
  BY <1>1 DEF Goal
<1> QED
  BY <1>1, <1>3, <1>4, <1>5, <1>6

\* A promise that is the same with less said.
Smaller(x) == Less(promised'[x], promised[x])

LEMMA GoalShrinks ==
  ASSUME NEW j, NEW k, Asks(j), j.op = k.op, j.arg = k.arg, k.alone => j.alone,
         IsPromise(promised'[j.arg.ref]), Smaller(j.arg.ref)
  PROVE  Less(Goal(k, promised'), Goal(j, promised))
<1>1. PICK p, q : p = promised'[j.arg.ref] /\ q = promised[j.arg.ref]
  OBVIOUS
<1>2. /\ IsPromise(p) /\ IsPromise(q) /\ Less(p, q) /\ j.op \in StateOps /\ Untouched(q, j.op, j.arg)
      /\ (j.op \in {"assign", "unassign"} => j.arg.item \in Items)
  BY <1>1 DEF Asks, Smaller
<1>3. Less(Wish(p, j.op, j.arg), Wish(q, j.op, j.arg)) /\ Less(p, Wish(q, j.op, j.arg))
  BY <1>2, LessWish
<1>4. /\ Goal(j, promised) = IF j.alone THEN Wish(q, j.op, j.arg) ELSE q
      /\ Goal(k, promised') = IF k.alone THEN Wish(p, j.op, j.arg) ELSE p
  BY <1>1 DEF Goal
<1> QED
  BY <1>1, <1>2, <1>3, <1>4

\* A step of another request spares what a request relies on.
Spared(j) ==
  LET r == j.arg.ref IN
  /\ Smaller(r) /\ (j.pc = "write" => \A x \in Refs : Smaller(x))
  /\ j.alone => SupplierRows(r, assigned') = SupplierRows(r, assigned)

LEMMA SameRows ==
  ASSUME NEW r, NEW a, NEW b, SupplierRows(r, a) = SupplierRows(r, b)
  PROVE  \A i : HasRow(i, r, a) = HasRow(i, r, b)
<1>1. \A i, c : HasRow(i, r, c) <=> \E row \in SupplierRows(r, c) : row.item = i
  BY DEF HasRow, SupplierRows
<1>2. \A i, c : HasRow(i, r, c) \in BOOLEAN
  BY DEF HasRow
<1> QED
  BY <1>1, <1>2

LEMMA SparedJob ==
  ASSUME Typed, PromiseInv, Told', NEW j, NEW k, Asks(j), Spared(j),
         k.op = j.op, k.pc = j.pc, k.arg = j.arg, k.copy = j.copy, k.alone => j.alone
  PROVE  PersonHolds(k, promised') /\ RowsReady(k, promised', assigned')
<1>1. PICK r : r = j.arg.ref
  OBVIOUS
<1>2. IsPromise(promised'[r]) /\ r \in Refs /\ Smaller(r)
  BY <1>1 DEF Told, Asks, Spared
<1>3. PICK old, goal : old = Goal(j, promised) /\ goal = Goal(k, promised')
  OBVIOUS
<1>4. Less(goal, old)
  BY <1>1, <1>2, <1>3, GoalShrinks
<1>5. ASSUME NEW x, Smaller(x), NEW s, Fulfils(x, promised[x], s)
      PROVE  Fulfils(x, promised'[x], s)
  BY <1>5, LessKeeps DEF Smaller
<1>6. ASSUME NEW s, Fulfils(r, old, s) PROVE Fulfils(r, goal, s)
  BY <1>4, <1>6, LessKeeps
<1>7. ASSUME k.pc \in HeldPcs
      PROVE  Fulfils(r, IF k.pc = "put" THEN goal ELSE promised'[r], k.copy)
  <2>1. Fulfils(r, IF j.pc = "put" THEN old ELSE promised[r], j.copy)
    BY <1>1, <1>3, <1>7 DEF Asks, PersonHolds
  <2>2. CASE k.pc = "put"
    BY <1>6, <2>1, <2>2
  <2>3. CASE k.pc # "put"
    BY <1>2, <1>5, <2>1, <2>3
  <2> QED
    BY <2>2, <2>3
<1>8. ASSUME k.pc = "write", NEW x \in Refs
      PROVE  Fulfils(x, IF x = r THEN goal ELSE promised'[x], AsState(k.copy[x]))
  <2>1. Fulfils(x, IF x = r THEN old ELSE promised[x], AsState(j.copy[x]))
    BY <1>1, <1>3, <1>8 DEF Asks, PersonHolds
  <2>2. CASE x = r
    BY <1>6, <2>1, <2>2
  <2>3. CASE x # r
    <3>1. Smaller(x)
      BY <1>8 DEF Spared
    <3> QED
      BY <1>5, <2>1, <2>3, <3>1
  <2> QED
    BY <2>2, <2>3
<1>9. k.pc = "deleteRows" => DeletesOwn(k)
  BY DEF Asks, PersonHolds, DeletesOwn
<1>10. PersonHolds(k, promised')
  BY <1>1, <1>3, <1>7, <1>8, <1>9 DEF PersonHolds
<1>11. CASE ~k.alone
  BY <1>10, <1>11 DEF RowsReady
<1>12. CASE k.alone
  <2>1. /\ j.pc \in WritePcs => Rows(r, old, assigned)
        /\ j.op = "items" /\ j.pc \in {"sync", "rows", "deleteRows"} =>
             ItemsReady(j.pc, r, j.arg, assigned)
        /\ j.pc = "deleteRows" /\ j.op # "unassignCustomer" =>
             \A row \in SupplierRows(r, assigned) : row.item = j.arg.item => row \in j.copy
    BY <1>1, <1>3, <1>12 DEF Asks, RowsReady
  <2>2. /\ SupplierRows(r, assigned') = SupplierRows(r, assigned)
        /\ \A i : HasRow(i, r, assigned') = HasRow(i, r, assigned)
    BY <1>1, <1>12, SameRows DEF Spared
  <2>3. j.pc \in WritePcs => Rows(r, goal, assigned')
    BY <1>4, <2>1, <2>2 DEF Rows, Less
  <2>4. ItemsReady(j.pc, r, j.arg, assigned) => ItemsReady(j.pc, r, j.arg, assigned')
    BY <2>2 DEF ItemsReady
  <2> QED
    BY <1>1, <1>3, <1>10, <2>1, <2>2, <2>3, <2>4 DEF RowsReady
<1> QED
  BY <1>11, <1>12

LEMMA PersonOthers ==
  ASSUME Typed, PromiseInv, NEW h \in Handlers, OthersKept(h), Told',
         \A r \in Parties : parties[r] # None => parties'[r] # None,
         NEW g \in Handlers \ {h}, Working(g)',
         Working(g) /\ jobs[g].pc \in StatePcs => Spared(jobs[g])
  PROVE  PersonJob(jobs'[g], promised', parties', assigned')
<1>1. PICK j, k : j = jobs[g] /\ k = jobs'[g]
  OBVIOUS
<1>2. k = j \/ k = [j EXCEPT !.alone = FALSE]
  BY <1>1 DEF OthersKept, SameJob
<1>3. Working(g)
  BY <1>1, <1>2 DEF OthersKept, SameJob, Working
<1>4. IsJob(j)
  BY <1>1, <1>3, JobOf
<1>5. k.op = j.op /\ k.pc = j.pc /\ k.arg = j.arg /\ k.copy = j.copy /\ (k.alone => j.alone)
  BY <1>2, <1>4 DEF IsJob
<1>6. CASE k.pc \notin StatePcs
  BY <1>1, <1>6 DEF PersonJob
<1>7. CASE k.pc \in StatePcs
  <2>1. Asks(j) /\ Spared(j)
    BY <1>1, <1>3, <1>5, <1>7, AsksIs
  <2>2. PICK r : r = j.arg.ref
    OBVIOUS
  <2>3. Less(promised'[r], promised[r])
    BY <2>1, <2>2 DEF Spared, Smaller
  <2>4. PersonAsks(k.op, k.arg, promised')
    <3>1. Untouched(promised'[r], k.op, k.arg)
      BY <1>5, <2>1, <2>2, <2>3, LessKeeps DEF Asks
    <3> QED
      BY <1>5, <2>1, <2>2, <3>1 DEF Asks, PersonAsks
  <2>5. PersonAt(k.op, k.pc, k.arg.ref, promised', parties')
    <3>1. PersonAt(j.op, j.pc, r, promised, parties) /\ PersonAsks(j.op, j.arg, promised)
      BY <2>1, <2>2 DEF Asks
    <3>2. promised[r].blocked = None => promised'[r].blocked = None
      BY <2>3 DEF Less
    <3>3. j.op \in SupplierOps \cup {"regenerateCustomer", "createSupplier"} => r \in Parties
      BY <2>2, <3>1 DEF PersonAsks, SupplierWork, CustomerWork, Parties
    <3> QED
      BY <1>5, <2>2, <3>1, <3>2, <3>3 DEF PersonAt
  <2>6. PersonHolds(k, promised') /\ RowsReady(k, promised', assigned')
    BY <1>5, <2>1, SparedJob
  <2> QED
    BY <1>1, <2>4, <2>5, <2>6 DEF PersonJob
<1> QED
  BY <1>6, <1>7

\* What a step has to show of its own.
LEMMA PromiseFrom ==
  ASSUME Typed, PromiseInv, NEW h \in Handlers, OthersKept(h), Told', KeptAll',
         \A r \in Parties : PartyHeld(r)',
         \A r \in Parties : parties[r] # None => parties'[r] # None,
         \A g \in Handlers \ {h} : Working(g) /\ jobs[g].pc \in StatePcs => Spared(jobs[g]),
         Working(h)' => PersonJob(jobs'[h], promised', parties', assigned')
  PROVE  PromiseInv'
<1>1. ASSUME NEW g \in Handlers, Working(g)'
      PROVE  PersonJob(jobs'[g], promised', parties', assigned')
  BY <1>1, PersonOthers
<1> QED
  BY <1>1 DEF PromiseInv

PeopleKept == UNCHANGED <<mix, states, oldStates, parties, assigned, promised>>

LEMMA PromiseQuiet ==
  ASSUME Typed, PromiseInv, NEW h \in Handlers, OthersKept(h), PeopleKept,
         Working(h)' => PersonJob(jobs'[h], promised, parties, assigned)
  PROVE  PromiseInv'
<1>1. UNCHANGED <<mix, states, oldStates, parties, assigned, promised>>
  BY DEF PeopleKept
<1>2. Told'
  BY <1>1 DEF PromiseInv, Told
<1>3. \A r : StateFor(r)' = StateFor(r)
  BY <1>1 DEF StateFor, Migrated, Lmdb
<1>4. KeptAll'
  BY <1>1, <1>3 DEF PromiseInv, KeptAll
<1>5. \A r \in Parties : PartyHeld(r)'
  BY <1>1 DEF PromiseInv, PartyHeld, PhoneOf
<1>6. \A x : Smaller(x)
  BY <1>1, LessSelf DEF Smaller
<1>7. \A g \in Handlers \ {h} : Spared(jobs[g])
  BY <1>1, <1>6 DEF Spared
<1> QED
  BY <1>1, <1>2, <1>4, <1>5, <1>7, PromiseFrom

LEMMA PromiseEnds ==
  ASSUME Typed, PromiseInv, NEW h \in Handlers, PeopleKept, Finish(h)
  PROVE  PromiseInv'
<1>1. OthersKept(h) /\ ~Working(h)'
  BY LandsIdle DEF Leads, Lands
<1> QED
  BY <1>1, PromiseQuiet

LEMMA PersonMoves ==
  ASSUME Typed, PromiseInv, NEW h \in Handlers, Working(h), PeopleKept,
         NEW pc, NEW arg, NEW copy, NEW phase, NEW k, k = Moved(jobs[h], pc, arg, copy, phase),
         Continue(h, k), PersonAsks(jobs[h].op, arg, promised),
         PersonAt(jobs[h].op, pc, arg.ref, promised, parties),
         PersonHolds(k, promised), RowsReady(k, promised, assigned)
  PROVE  PromiseInv'
<1>1. k.op = jobs[h].op /\ k.pc = pc /\ k.arg = arg
  BY MovedIs
<1>2. OthersKept(h) /\ jobs'[h] = k
  BY Continues
<1>3. PersonJob(k, promised, parties, assigned)
  BY <1>1 DEF PersonJob
<1> QED
  BY <1>2, <1>3, PromiseQuiet

LEMMA PersonGoes ==
  ASSUME Typed, PromiseInv, NEW h \in Handlers, Working(h), jobs[h].pc \in StatePcs, PeopleKept,
         NEW pc, PersonAt(jobs[h].op, pc, jobs[h].arg.ref, promised, parties),
         pc \notin HeldPcs \cup WritePcs \cup {"sync", "deleteRows"},
         pc = "rows" => jobs[h].op # "items", Go(h, pc)
  PROVE  PromiseInv'
<1>1. PICK k : k = Moved(jobs[h], pc, jobs[h].arg, jobs[h].copy, jobs[h].phase)
  OBVIOUS
<1>2. Continue(h, k) /\ k.pc = pc
  BY <1>1, Goes, MovedIs
<1>3. pc \notin HeldPcs /\ pc \notin WritePcs /\ pc # "write" /\ pc # "put" /\ pc # "sync" /\ pc # "deleteRows"
  BY DEF WritePcs
<1>4. PersonHolds(k, promised)
  BY <1>2, <1>3 DEF PersonHolds
<1>5. RowsReady(k, promised, assigned)
  <2>1. k.op = jobs[h].op
    BY <1>1, MovedIs
  <2> QED
    BY <1>2, <1>3, <2>1 DEF RowsReady
<1>6. PersonAsks(jobs[h].op, jobs[h].arg, promised)
  BY AsksIs DEF Asks
<1> QED
  BY <1>1, <1>2, <1>4, <1>5, <1>6, PersonMoves

\* A request that confirms alone has nobody beside it.
LEMMA AloneOnRef ==
  ASSUME Typed, Alone, NEW g \in Handlers, NEW h \in Handlers \ {g}, Working(g), Working(h),
         jobs[g].pc \in StatePcs, jobs[h].pc \in StatePcs, jobs[g].alone \/ jobs[h].alone
  PROVE  jobs[g].arg.ref # jobs[h].arg.ref /\ Lmdb
<1>1. KeysOf(jobs[g].arg.ref) \subseteq jobs[g].keys /\ KeysOf(jobs[h].arg.ref) \subseteq jobs[h].keys
  BY StateJobIs
<1>2. jobs[g].keys \cap jobs[h].keys = {}
  BY DEF Alone, On
<1>3. \A r, s : KeysOf(r) \cap KeysOf(s) = {} => r # s /\ Lmdb
  BY DEF KeysOf, SettingsKeys, Keys
<1> QED
  BY <1>1, <1>2, <1>3

-----------------------------------------------------------------------------
(***************************************************************************)
(* A state that is read, changed and about to be written.                  *)
(***************************************************************************)
LEMMA PersonPuts ==
  ASSUME Typed, PromiseInv, NEW h \in Handlers, Working(h), jobs[h].pc \in StatePcs, PeopleKept,
         NEW op, op = jobs[h].op, NEW r, r = jobs[h].arg.ref, NEW arg, arg.ref = r,
         op \in {"assign", "unassign"} => arg.item \in Items,
         PersonAsks(op, arg, promised), PersonAt(op, "put", r, promised, parties),
         NEW s, NEW phase, Continue(h, Moved(jobs[h], "put", arg, s, phase)),
         NEW w, w = Wish(promised[r], op, arg), Fulfils(r, w, s),
         jobs[h].alone => Rows(r, w, assigned)
  PROVE  PromiseInv'
<1>1. PICK k : k = Moved(jobs[h], "put", arg, s, phase)
  OBVIOUS
<1>2. k.op = op /\ k.pc = "put" /\ k.arg = arg /\ k.copy = s /\ k.alone = jobs[h].alone
  BY <1>1, MovedIs
<1>3. PICK p : p = promised[r]
  OBVIOUS
<1>4. IsPromise(p) /\ op \in StateOps /\ Untouched(p, op, arg) /\ Less(p, p)
  BY <1>3, AsksIs, LessSelf DEF Asks, PersonAsks
<1>5. Less(p, w) /\ Less(w, w)
  BY <1>3, <1>4, LessWish, LessSelf
<1>6. Goal(k, promised) = IF k.alone THEN w ELSE p
  BY <1>2, <1>3 DEF Goal
<1>7. Fulfils(r, Goal(k, promised), s)
  BY <1>5, <1>6, LessKeeps
<1>8. PersonHolds(k, promised)
  BY <1>2, <1>7 DEF PersonHolds
<1>9. RowsReady(k, promised, assigned)
  BY <1>2, <1>6 DEF RowsReady
<1>10. Continue(h, k) /\ PersonAsks(jobs[h].op, arg, promised)
       /\ PersonAt(jobs[h].op, "put", arg.ref, promised, parties)
  BY <1>1
<1> QED
  BY <1>1, <1>8, <1>9, <1>10, PersonMoves

\* A change of a customer says nothing more of the supplier.
LEMMA SameWish ==
  ASSUME NEW p, IsPromise(p), NEW op \in StateOps \ SupplierWork, NEW arg, Untouched(p, op, arg)
  PROVE  Wish(p, op, arg) = p
<1>1. PICK w : w = Wish(p, op, arg)
  OBVIOUS
<1>2. op \notin {"block", "unblock", "remove", "restore", "regenerate", "supplierPhone", "assign",
                 "unassign", "items", "createSupplier"}
  BY DEF SupplierWork, SupplierOps
<1>3. WishOf(w, p, op, arg)
  BY <1>1, <1>2, WishIs
<1>4. w.blocked = p.blocked /\ w.removed = p.removed /\ w.code = p.code /\ w.phone = p.phone
  BY <1>2, <1>3 DEF WishOf, Untouched
<1>5. \A i \in Items : w.items[i] = p.items[i] /\ w.rows[i] = p.rows[i]
  BY <1>2, <1>3 DEF WishOf
<1>6. PICK its, rws : its = [i \in Items |-> p.items[i]] /\ rws = [i \in Items |-> p.rows[i]]
  OBVIOUS
<1>7. its = [i \in Items |-> w.items[i]] /\ rws = [i \in Items |-> w.rows[i]]
  BY <1>5, <1>6
<1>8. /\ p = [blocked |-> p.blocked, removed |-> p.removed, code |-> p.code, phone |-> p.phone,
              items |-> its, rows |-> rws]
      /\ w = [blocked |-> w.blocked, removed |-> w.removed, code |-> w.code, phone |-> w.phone,
              items |-> its, rows |-> rws]
  BY <1>3, <1>6, <1>7, Zenon DEF WishOf, IsPromise
<1> QED
  BY <1>1, <1>4, <1>8, Zenon

LEMMA WishRows ==
  ASSUME NEW w, NEW p, NEW op, NEW arg, WishOf(w, p, op, arg), op \notin {"assign", "unassign", "items"},
         NEW r, NEW rows, Rows(r, p, rows)
  PROVE  Rows(r, w, rows)
  BY DEF WishOf, Rows

LEMMA KeptIs ==
  ASSUME Typed, PromiseInv, NEW r \in Refs
  PROVE  /\ StateFor(r) \in StateRecords /\ IsPromise(promised[r])
         /\ Fulfils(r, promised[r], StateFor(r)) /\ Rows(r, promised[r], assigned)
  BY StateTyped DEF Typed, PromiseInv, Told, KeptAll

\* A change of the state of a supplier, by what it is.
LEMMA SupplierPuts ==
  ASSUME Typed, PromiseInv, NEW h \in Handlers, Working(h), jobs[h].pc = "state", PeopleKept,
         NEW op, op = jobs[h].op, NEW r, r = jobs[h].arg.ref, NEW s, s = StateFor(r),
         NEW t, GoWith(h, "put", t),
         \/ op \in {"block", "unblock"} /\ t = [s EXCEPT !.blocked = op = "block"]
         \/ op \in {"remove", "restore"} /\ t = [s EXCEPT !.removed = op = "remove", !.blocked = op = "remove"]
         \/ op = "removeCustomer" /\ t = [s EXCEPT !.removed = TRUE, !.blocked = TRUE]
  PROVE  PromiseInv'
<1>1. jobs[h].pc \in StatePcs
  BY DEF StatePcs, AdminWaits
<1>2. PICK arg : arg = jobs[h].arg
  OBVIOUS
<1>3. /\ op \in StateOps /\ arg.ref = r /\ r \in Refs /\ IsPromise(promised[r])
      /\ PersonAsks(op, arg, promised) /\ PersonAt(op, "state", r, promised, parties)
      /\ Untouched(promised[r], op, arg)
  BY <1>1, <1>2, AsksIs DEF Asks
<1>4. op \notin {"assign", "unassign", "items", "createSupplier", "supplierPhone", "regenerate"}
  OBVIOUS
<1>5. PICK p, w : p = promised[r] /\ w = Wish(p, op, arg)
  OBVIOUS
<1>6. WishOf(w, p, op, arg)
  BY <1>3, <1>4, <1>5, WishIs
<1>7. s \in StateRecords /\ Fulfils(r, p, s) /\ Rows(r, p, assigned)
  BY <1>3, <1>5, KeptIs
<1>8. Rows(r, w, assigned)
  BY <1>4, <1>6, <1>7, WishRows
<1>9. PersonAt(op, "put", r, promised, parties)
  BY <1>3, <1>4 DEF PersonAt
<1>10. Fulfils(r, w, t)
  <2>1. CASE op \in {"block", "unblock"}
    <3>1. t.blocked = (op = "block") /\ t.removed = s.removed /\ t.code = s.code /\ t.items = s.items
      BY <1>7, <2>1 DEF StateRecords
    <3>2. w.blocked = (op = "block") /\ w.removed = p.removed /\ w.code = p.code
          /\ \A i \in Items : w.items[i] = p.items[i]
      BY <1>6, <2>1 DEF WishOf, CustomerChanges
    <3> QED
      BY <1>7, <3>1, <3>2 DEF Fulfils, SupplierCode
  <2>2. CASE op \in {"remove", "restore"}
    <3>1. /\ t.blocked = (op = "remove") /\ t.removed = (op = "remove") /\ t.code = s.code
          /\ t.items = s.items
      BY <1>7, <2>2 DEF StateRecords
    <3>2. w.blocked = (op = "remove") /\ w.removed = (op = "remove") /\ w.code = p.code
          /\ \A i \in Items : w.items[i] = p.items[i]
      BY <1>6, <2>2 DEF WishOf, CustomerChanges
    <3> QED
      BY <1>7, <3>1, <3>2 DEF Fulfils, SupplierCode
  <2>3. CASE op = "removeCustomer"
    <3>1. t.blocked
      BY <1>7, <2>3 DEF StateRecords
    <3>2. w = p
      BY <1>3, <1>5, <2>3, SameWish DEF SupplierWork, SupplierOps
    <3>4. t.items = s.items /\ t.blocked = TRUE
      BY <1>7, <2>3 DEF StateRecords
    <3> QED
      BY <1>3, <1>5, <1>7, <2>3, <3>2, <3>4 DEF Fulfils, Untouched, CustomerChanges
  <2> QED
    BY <2>1, <2>2, <2>3
<1>11. Continue(h, Moved(jobs[h], "put", arg, t, jobs[h].phase))
  BY <1>2, Goes
<1> QED
  BY <1>1, <1>2, <1>3, <1>4, <1>5, <1>8, <1>9, <1>10, <1>11, PersonPuts

LEMMA StateHeld ==
  ASSUME Typed, PromiseInv, NEW h \in Handlers, Working(h), jobs[h].pc \in StatePcs, PeopleKept,
         NEW op, op = jobs[h].op, NEW r, r = jobs[h].arg.ref, NEW arg, arg.ref = r,
         PersonAsks(op, arg, promised), NEW pc \in {"codes", "prefix", "werkaCode"},
         PersonAt(op, pc, r, promised, parties),
         NEW s, NEW phase, Continue(h, Moved(jobs[h], pc, arg, s, phase)),
         Fulfils(r, promised[r], s)
  PROVE  PromiseInv'
<1>1. PICK k : k = Moved(jobs[h], pc, arg, s, phase)
  OBVIOUS
<1>2. k.op = op /\ k.pc = pc /\ k.arg = arg /\ k.copy = s /\ k.alone = jobs[h].alone
  BY <1>1, MovedIs
<1>3. pc # "put" /\ pc # "write" /\ pc \notin WritePcs /\ pc # "sync" /\ pc # "deleteRows"
  BY DEF WritePcs
<1>4. PersonHolds(k, promised)
  BY <1>2, <1>3 DEF PersonHolds
<1>5. RowsReady(k, promised, assigned)
  BY <1>2, <1>3 DEF RowsReady
<1>6. Continue(h, k) /\ PersonAsks(jobs[h].op, arg, promised)
      /\ PersonAt(jobs[h].op, pc, arg.ref, promised, parties)
  BY <1>1
<1> QED
  BY <1>1, <1>4, <1>5, <1>6, PersonMoves

LEMMA SupplierStatePromise ==
  ASSUME Typed, PromiseInv, NEW h \in Handlers, SupplierState(h)
  PROVE  PromiseInv'
<1>1. PICK op, r, s : op = jobs[h].op /\ r = jobs[h].arg.ref /\ s = StateFor(r)
  OBVIOUS
<1>2. /\ Working(h) /\ jobs[h].pc = "state" /\ op \in SupplierOps /\ SupplierNext(h, s)
      /\ UNCHANGED adminVars
  BY <1>1 DEF SupplierState, At, Ref
<1>3. jobs[h].pc \in StatePcs
  BY <1>2 DEF StatePcs, AdminWaits
<1>4. PersonAsks(op, jobs[h].arg, promised) /\ PersonAt(op, "state", r, promised, parties) /\ r \in Refs
  BY <1>1, <1>2, <1>3, AsksIs DEF Asks
<1>5. \A job : Continue(h, job) => PeopleKept
  BY <1>2 DEF Continue, PeopleKept, adminVars
<1>6. CASE Finish(h)
  BY <1>5, <1>6, PromiseEnds DEF Finish
<1>7. ASSUME NEW pc \in {"erpPhone", "insertRow", "rows", "known"}, Go(h, pc),
             pc = "erpPhone" => op = "supplierPhone", pc = "rows" => op = "unassign"
      PROVE  PromiseInv'
  <2>1. PeopleKept
    BY <1>5, <1>7 DEF Go
  <2>2. PersonAt(op, pc, r, promised, parties)
    BY <1>4, <1>7 DEF PersonAt, WritePcs
  <2>3. pc \notin HeldPcs \cup WritePcs \cup {"sync", "deleteRows"}
    BY DEF HeldPcs, WritePcs
  <2> QED
    BY <1>1, <1>2, <1>3, <1>7, <2>1, <2>2, <2>3, PersonGoes
<1>8. CASE op \in {"block", "unblock"} /\ GoWith(h, "put", [s EXCEPT !.blocked = op = "block"])
  <2>1. PICK t : t = [s EXCEPT !.blocked = op = "block"]
    OBVIOUS
  <2>2. GoWith(h, "put", t) /\ PeopleKept
    BY <1>5, <1>8, <2>1 DEF GoWith
  <2> QED
    BY <1>1, <1>2, <1>8, <2>1, <2>2, SupplierPuts
<1>9. CASE /\ op \in {"remove", "restore"}
           /\ GoWith(h, "put", [s EXCEPT !.removed = op = "remove", !.blocked = op = "remove"])
  <2>1. PICK t : t = [s EXCEPT !.removed = op = "remove", !.blocked = op = "remove"]
    OBVIOUS
  <2>2. GoWith(h, "put", t) /\ PeopleKept
    BY <1>5, <1>9, <2>1 DEF GoWith
  <2> QED
    BY <1>1, <1>2, <1>9, <2>1, <2>2, SupplierPuts
<1>10. CASE op = "regenerate" /\ GoWith(h, "codes", s)
  <2>1. Continue(h, Moved(jobs[h], "codes", jobs[h].arg, s, jobs[h].phase)) /\ PeopleKept
    BY <1>2, <1>5, <1>10, Goes DEF GoWith
  <2>2. PersonAt(op, "codes", r, promised, parties)
    BY <1>4 DEF PersonAt, WritePcs
  <2>3. Fulfils(r, promised[r], s)
    BY <1>1, <1>4, KeptIs
  <2> QED
    BY <1>1, <1>2, <1>3, <1>4, <2>1, <2>2, <2>3, StateHeld
<1>11. \/ Finish(h)
       \/ op \in {"block", "unblock"} /\ GoWith(h, "put", [s EXCEPT !.blocked = op = "block"])
       \/ /\ op \in {"remove", "restore"}
          /\ GoWith(h, "put", [s EXCEPT !.removed = op = "remove", !.blocked = op = "remove"])
       \/ op = "regenerate" /\ GoWith(h, "codes", s)
       \/ op = "supplierPhone" /\ Go(h, "erpPhone")
       \/ Go(h, "insertRow") \/ (op = "unassign" /\ Go(h, "rows")) \/ Go(h, "known")
  BY <1>1, <1>2, Zenon DEF SupplierNext, SupplierOps
<1> QED
  BY <1>6, <1>7, <1>8, <1>9, <1>10, <1>11

-----------------------------------------------------------------------------
(***************************************************************************)
(* New codes.                                                              *)
(***************************************************************************)
LEMMA BumpFulfils ==
  ASSUME NEW s \in StateRecords, NEW r, NEW p, Fulfils(r, p, s)
  PROVE  Fulfils(r, p, Bump(s))
<1> DEFINE fresh == s.started = None \/ now - s.started >= Window
<1>1. PICK started, count, cooldown, b :
        /\ started = IF fresh THEN now ELSE s.started
        /\ count = IF fresh THEN 1 ELSE s.count + 1
        /\ cooldown = IF count >= MaxCodeRegens THEN started + Window
                      ELSE IF fresh THEN None ELSE s.cooldown
        /\ b = [s EXCEPT !.started = started, !.count = count, !.cooldown = cooldown]
  OBVIOUS
<1>2. Bump(s) = b
  BY <1>1, Zenon DEF Bump
<1>3. b.code = s.code /\ b.blocked = s.blocked /\ b.removed = s.removed /\ b.items = s.items
  BY <1>1 DEF StateRecords
<1>4. Fulfils(r, p, b)
  BY <1>3 DEF Fulfils, SupplierCode
<1> QED
  BY <1>2, <1>4

\* A request for a code may ask for any one.
LEMMA RegenAsks ==
  ASSUME NEW op \in RegenOps, NEW arg, NEW arg2, arg2.ref = arg.ref, PersonAsks(op, arg, promised)
  PROVE  PersonAsks(op, arg2, promised)
  BY DEF PersonAsks, PhoneWork, RegenOps, Untouched

LEMMA CodePuts ==
  ASSUME Typed, PromiseInv, NEW h \in Handlers, Working(h), jobs[h].pc \in {"codes", "prefix", "werkaCode"},
         PeopleKept, NEW j, j = jobs[h], NEW code \in AccessCodes,
         NEW arg, arg.ref = j.arg.ref, j.op = "regenerate" => arg.code = code,
         NEW s \in StateRecords, Fulfils(j.arg.ref, promised[j.arg.ref], s), NEW c, c = [s EXCEPT !.code = code], NEW phase,
         Continue(h, Moved(j, "put", arg, c, phase))
  PROVE  PromiseInv'
<1>1. /\ j.pc \in StatePcs /\ j.pc \in HeldPcs /\ j.pc \notin {"put", "entry", "stateCodes"}
  BY DEF StatePcs, AdminWaits, HeldPcs
<1>2. Asks(j)
  BY <1>1, AsksIs
<1>3. PICK op, r : op = j.op /\ r = j.arg.ref
  OBVIOUS
<1>4. op \in RegenOps /\ op \notin {"assign", "unassign", "items", "createSupplier", "supplierPhone"}
  BY <1>2, <1>3 DEF Asks, OpsAt, RegenOps
<1>5. /\ op \in StateOps /\ r \in Refs /\ PersonAsks(op, j.arg, promised) /\ Fulfils(r, promised[r], s)
      /\ PersonAt(op, j.pc, r, promised, parties)
  BY <1>1, <1>2, <1>3 DEF Asks
<1>6. PersonAsks(op, arg, promised)
  BY <1>3, <1>4, <1>5, RegenAsks
<1>7. PersonAt(op, "put", r, promised, parties)
  BY <1>1, <1>4, <1>5 DEF PersonAt
<1>8. PICK p, w : p = promised[r] /\ w = Wish(p, op, arg)
  OBVIOUS
<1>9. IsPromise(p) /\ Rows(r, p, assigned)
  BY <1>5, <1>8, KeptIs
<1>10. WishOf(w, p, op, arg)
  BY <1>4, <1>5, <1>8, <1>9, WishIs
<1>11. Rows(r, w, assigned)
  BY <1>4, <1>9, <1>10, WishRows
<1>12. /\ c.code = code /\ c.blocked = s.blocked /\ c.removed = s.removed /\ c.items = s.items
       /\ SupplierCode(r, c) = code
  <2>1. c.code = code /\ c.blocked = s.blocked /\ c.removed = s.removed /\ c.items = s.items
    BY <1>5 DEF StateRecords
  <2> QED
    BY <2>1, StatesAssumption DEF SupplierCode
<1>13. Fulfils(r, w, c)
  <2>1. CASE op = "regenerate"
    <3>1. w.code = code
      BY <1>3, <1>10, <2>1 DEF WishOf
    <3>2. w.blocked = p.blocked /\ w.removed = p.removed /\ \A i \in Items : w.items[i] = p.items[i]
      BY <1>10, <2>1 DEF WishOf, CustomerChanges
    <3> QED
      BY <1>5, <1>8, <1>12, <3>1, <3>2 DEF Fulfils
  <2>2. CASE op # "regenerate"
    <3>1. op \notin SupplierWork
      BY <1>4, <2>2 DEF RegenOps, SupplierWork, SupplierOps
    <3>2. w = p
      <4>1. arg.ref = r /\ Untouched(promised[arg.ref], op, arg)
        BY <1>3, <1>6, Zenon DEF PersonAsks
      <4>2. Untouched(p, op, arg)
        BY <1>8, <4>1, Zenon
      <4>3. op \in StateOps \ SupplierWork
        BY <1>5, <3>1, Zenon
      <4> QED
        BY <1>8, <1>9, <4>2, <4>3, SameWish, Zenon
    <3>3. CASE r \notin Suppliers
      BY <1>5, <1>8, <3>2, <3>3, NothingHeld
    <3>4. CASE r \in Suppliers
      <4>1. op = "regenerateCustomer"
        <5>1. op = "regenerateWerka" => r = Keeper
          BY <1>1, <1>3, StateJobIs
        <5>2. r # Keeper
          BY <3>4, AdminStatesAssumption DEF Keeper
        <5> QED
          BY <1>4, <2>2, <5>1, <5>2 DEF RegenOps
      <4>2. Untouched(p, op, arg)
        BY <1>3, <1>6, <1>8 DEF PersonAsks
      <4> QED
        BY <1>5, <1>8, <1>12, <3>2, <4>1, <4>2 DEF Fulfils, Untouched, CustomerChanges
    <3> QED
      BY <3>3, <3>4
  <2> QED
    BY <2>1, <2>2
<1>14. Continue(h, Moved(jobs[h], "put", arg, c, phase))
  OBVIOUS
<1> QED
  BY <1>1, <1>3, <1>4, <1>6, <1>7, <1>8, <1>11, <1>13, <1>14, PersonPuts

LEMMA HeldIs ==
  ASSUME Typed, PromiseInv, NEW h \in Handlers, Working(h), jobs[h].pc \in {"codes", "prefix", "werkaCode"}
  PROVE  /\ jobs[h].pc \in StatePcs /\ Asks(jobs[h]) /\ jobs[h].copy \in StateRecords
         /\ Fulfils(jobs[h].arg.ref, promised[jobs[h].arg.ref], jobs[h].copy)
<1>1. jobs[h].pc \in StatePcs /\ jobs[h].pc \in HeldPcs /\ jobs[h].pc # "put"
  BY DEF StatePcs, AdminWaits, HeldPcs
<1>2. Asks(jobs[h])
  BY <1>1, AsksIs
<1> QED
  BY <1>1, <1>2 DEF Asks, PersonHolds, CopyTyped

LEMMA CodesPromise ==
  ASSUME Typed, PromiseInv, NEW h \in Handlers, RegenerateCode(h) \/ CustomerCode(h) \/ WerkaCode(h)
  PROVE  PromiseInv'
<1>1. Working(h) /\ UNCHANGED adminVars
  BY DEF RegenerateCode, CustomerCode, WerkaCode, At
<1>2. \A job : Continue(h, job) => PeopleKept
  BY <1>1 DEF Continue, PeopleKept, adminVars
<1>3. PICK j, s : j = jobs[h] /\ s = j.copy
  OBVIOUS
<1>4. IsJob(j)
  BY <1>1, <1>3, JobOf
<1>5. jobs[h].pc \in {"codes", "prefix", "werkaCode"}
  BY DEF RegenerateCode, CustomerCode, WerkaCode, At
<1>6. /\ ArgTyped(j.op, j.arg) /\ j.op \in OpsAt(j.pc) /\ s \in StateRecords
      /\ Fulfils(j.arg.ref, promised[j.arg.ref], s)
  BY <1>1, <1>3, <1>5, HeldIs DEF Asks
<1>7. CASE RegenerateCode(h)
  <2>1. CASE Finish(h)
    BY <1>2, <2>1, PromiseEnds DEF Finish
  <2>2. CASE ~Finish(h)
    <3>1. PICK code, b, c, n, arg :
            /\ code \in RandomCodes("10", ExistingCodes) /\ b = Bump(s) /\ c = [b EXCEPT !.code = code]
            /\ n = now /\ arg = [j.arg EXCEPT !.code = code, !.made = n]
            /\ Continue(h, [j EXCEPT !.pc = "put", !.arg.code = code, !.arg.made = n, !.copy = c])
      BY <1>3, <1>7, <2>2 DEF RegenerateCode
    <3>2. Continue(h, Moved(j, "put", arg, c, j.phase))
      <4>1. PICK k : k = [j EXCEPT !.pc = "put", !.arg.code = code, !.arg.made = n, !.copy = c]
        OBVIOUS
      <4>2. k = Moved(j, "put", arg, c, j.phase)
        BY <1>4, <3>1, <4>1 DEF IsJob, Moved
      <4> QED
        BY <3>1, <4>1, <4>2
    <3>3. j.op = "regenerate"
      BY <1>3, <1>7 DEF RegenerateCode
    <3>4. j.arg = [ref |-> j.arg.ref, code |-> j.arg.code, made |-> j.arg.made]
      BY <1>6, <3>3 DEF ArgTyped
    <3>5. arg = [ref |-> j.arg.ref, code |-> code, made |-> n]
      BY <3>1, <3>4
    <3>6. arg.ref = j.arg.ref /\ arg.code = code
      BY <3>5
    <3>7. code \in AccessCodes
      BY <3>1, NewCodes
    <3>8. b \in StateRecords
      BY <1>6, <3>1, BumpTyped, AccessAssumption DEF Typed
    <3>9. Fulfils(j.arg.ref, promised[j.arg.ref], b)
      BY <1>6, <3>1, BumpFulfils
    <3>10. PeopleKept
      BY <1>2, <3>2
    <3> QED
      BY <1>1, <1>3, <1>5, <3>1, <3>2, <3>6, <3>7, <3>8, <3>9, <3>10, CodePuts
  <2> QED
    BY <2>1, <2>2
<1>8. CASE CustomerCode(h)
  <2>1. PICK code, c, arg :
          /\ code \in RandomCodes(CustomerPrefix(Ref(h)), jobs[h].arg.existing)
          /\ c = [s EXCEPT !.code = code] /\ arg = [j.arg EXCEPT !.code = code]
          /\ Continue(h, [j EXCEPT !.pc = "put", !.arg.code = code, !.copy.code = code])
    BY <1>3, <1>8, Zenon DEF CustomerCode
  <2>2. code \in AccessCodes
    <3>1. PICK p, known : p = CustomerPrefix(Ref(h)) /\ known = jobs[h].arg.existing
      OBVIOUS
    <3>2. p \in {"10", "20", "30", "40"}
      BY <3>1 DEF CustomerPrefix
    <3> QED
      BY <2>1, <3>1, <3>2, NewCodes
  <2>3. Continue(h, Moved(j, "put", arg, c, j.phase))
    <3>1. [j EXCEPT !.pc = "put", !.arg.code = code, !.copy.code = code]
            = Moved(j, "put", [j.arg EXCEPT !.code = code], [j.copy EXCEPT !.code = code], j.phase)
      BY <1>4, CodeCopyExcept
    <3> QED
      BY <1>3, <2>1, <3>1
  <2>4. j.op = "regenerateCustomer"
    <3>1. j.pc = "prefix"
      BY <1>3, <1>8 DEF CustomerCode, At
    <3> QED
      BY <1>6, <3>1 DEF OpsAt
  <2>5. j.arg = [ref |-> j.arg.ref, existing |-> j.arg.existing, made |-> j.arg.made, code |-> j.arg.code]
    BY <1>6, <2>4 DEF ArgTyped
  <2>6. arg = [ref |-> j.arg.ref, existing |-> j.arg.existing, made |-> j.arg.made, code |-> code]
    BY <2>1, <2>5
  <2>7. arg.ref = j.arg.ref /\ PeopleKept
    BY <1>2, <2>3, <2>6
  <2> QED
    BY <1>1, <1>3, <1>5, <1>6, <2>1, <2>2, <2>3, <2>4, <2>7, CodePuts
<1>9. CASE WerkaCode(h)
  <2>1. PICK code, c, arg :
          /\ code \in RandomCodes("20", {}) /\ c = [s EXCEPT !.code = code]
          /\ arg = [j.arg EXCEPT !.code = code]
          /\ Continue(h, [j EXCEPT !.pc = "put", !.arg.code = code, !.copy.code = code])
    BY <1>3, <1>9 DEF WerkaCode
  <2>2. Continue(h, Moved(j, "put", arg, c, j.phase))
    <3>1. [j EXCEPT !.pc = "put", !.arg.code = code, !.copy.code = code]
            = Moved(j, "put", [j.arg EXCEPT !.code = code], [j.copy EXCEPT !.code = code], j.phase)
      BY <1>4, CodeCopyExcept
    <3> QED
      BY <1>3, <2>1, <3>1
  <2>3. code \in AccessCodes
    BY <2>1, NewCodes
  <2>4. j.op = "regenerateWerka"
    <3>1. j.pc = "werkaCode"
      BY <1>3, <1>9 DEF WerkaCode, At
    <3> QED
      BY <1>6, <3>1 DEF OpsAt
  <2>5. j.arg = [ref |-> j.arg.ref, code |-> j.arg.code, made |-> j.arg.made]
    BY <1>6, <2>4 DEF ArgTyped
  <2>6. arg = [ref |-> j.arg.ref, code |-> code, made |-> j.arg.made]
    BY <2>1, <2>5
  <2>7. arg.ref = j.arg.ref /\ PeopleKept
    BY <1>2, <2>2, <2>6
  <2> QED
    BY <1>1, <1>3, <1>5, <1>6, <2>1, <2>2, <2>3, <2>4, <2>7, CodePuts
<1> QED
  BY <1>7, <1>8, <1>9

\* The state of a customer, or of the warehouse keeper, is read.
LEMMA CodeBegun ==
  ASSUME Typed, PromiseInv, NEW h \in Handlers, Working(h), jobs[h].pc \in {"state", "werkaState"},
         jobs[h].op \in {"regenerateCustomer", "regenerateWerka"}, PeopleKept,
         NEW s, s = StateFor(jobs[h].arg.ref), NEW pc \in {"prefix", "werkaCode"}, NEW n,
         Continue(h, [jobs[h] EXCEPT !.pc = pc, !.arg.made = n, !.copy = Bump(s)])
  PROVE  PromiseInv'
<1>1. PICK j, b, arg : j = jobs[h] /\ b = Bump(s) /\ arg = [j.arg EXCEPT !.made = n]
  OBVIOUS
<1>2. jobs[h].pc \in StatePcs
  BY DEF StatePcs, AdminWaits
<1>3. IsJob(j) /\ Asks(j)
  BY <1>1, <1>2, JobOf, AsksIs
<1>4. Continue(h, Moved(j, pc, arg, b, j.phase))
  <2>1. PICK k : k = [j EXCEPT !.pc = pc, !.arg.made = n, !.copy = b]
    OBVIOUS
  <2>2. k = Moved(j, pc, arg, b, j.phase)
    BY <1>1, <1>3, <2>1 DEF IsJob, Moved
  <2> QED
    BY <1>1, <2>1, <2>2
<1>5. arg.ref = j.arg.ref
  <2>1. \/ j.arg = [ref |-> j.arg.ref, code |-> j.arg.code, made |-> j.arg.made]
        \/ j.arg = [ref |-> j.arg.ref, existing |-> j.arg.existing, made |-> j.arg.made,
                    code |-> j.arg.code]
    BY <1>1, <1>3 DEF Asks, ArgTyped
  <2> QED
    BY <1>1, <2>1
<1>6. j.op \in RegenOps /\ PersonAsks(j.op, j.arg, promised) /\ j.arg.ref \in Refs
      /\ PersonAt(j.op, j.pc, j.arg.ref, promised, parties)
  BY <1>1, <1>3 DEF Asks, RegenOps
<1>7. PersonAsks(j.op, arg, promised)
  BY <1>5, <1>6, RegenAsks
<1>8. PersonAt(j.op, pc, j.arg.ref, promised, parties)
  BY <1>1, <1>6 DEF PersonAt, WritePcs
<1>9. Fulfils(j.arg.ref, promised[j.arg.ref], b)
  BY <1>1, <1>6, KeptIs, BumpFulfils
<1> QED
  BY <1>1, <1>2, <1>4, <1>5, <1>7, <1>8, <1>9, StateHeld

LEMMA CustomerStatePromise ==
  ASSUME Typed, PromiseInv, NEW h \in Handlers, CustomerState(h)
  PROVE  PromiseInv'
<1>1. PICK j, r, s : j = jobs[h] /\ r = j.arg.ref /\ s = StateFor(r)
  OBVIOUS
<1>2. Working(h) /\ j.pc = "state" /\ j.op \notin SupplierOps /\ UNCHANGED adminVars
  BY <1>1 DEF CustomerState, At
<1>3. \A job : Continue(h, job) => PeopleKept
  BY <1>2 DEF Continue, PeopleKept, adminVars
<1>4. jobs[h].pc \in StatePcs
  BY <1>1, <1>2 DEF StatePcs, AdminWaits
<1>5. Asks(j)
  BY <1>1, <1>2, <1>4, AsksIs
<1>6. j.op \in {"removeCustomer", "regenerateCustomer", "assignCustomer", "unassignCustomer"}
  BY <1>2, <1>5 DEF Asks, OpsAt
<1>7. CASE Finish(h)
  BY <1>3, <1>7, PromiseEnds DEF Finish
<1>8. CASE ~Finish(h) /\ j.op = "removeCustomer"
  <2>1. PICK t : t = [s EXCEPT !.removed = TRUE, !.blocked = TRUE] /\ GoWith(h, "put", t)
    BY <1>1, <1>8 DEF CustomerState, Ref
  <2>2. PeopleKept
    BY <1>3, <2>1 DEF GoWith
  <2> QED
    BY <1>1, <1>2, <1>8, <2>1, <2>2, SupplierPuts
<1>9. CASE ~Finish(h) /\ j.op = "regenerateCustomer"
  <2>1. PICK n : Continue(h, [jobs[h] EXCEPT !.pc = "prefix", !.arg.made = n, !.copy = Bump(s)])
    BY <1>1, <1>9 DEF CustomerState, Ref
  <2>2. PeopleKept
    BY <1>3, <2>1
  <2> QED
    BY <1>1, <1>2, <1>9, <2>1, <2>2, CodeBegun
<1>10. CASE ~Finish(h) /\ j.op \in {"assignCustomer", "unassignCustomer"}
  <2>1. PICK pc \in {"insertRow", "rows"} : Go(h, pc)
    BY <1>1, <1>10 DEF CustomerState
  <2>2. PeopleKept
    BY <1>3, <2>1 DEF Go
  <2>3. PersonAt(j.op, pc, r, promised, parties)
    BY <1>2, <1>10 DEF PersonAt, WritePcs
  <2>4. pc \notin HeldPcs \cup WritePcs \cup {"sync", "deleteRows"}
    BY DEF HeldPcs, WritePcs
  <2>5. jobs[h].op # "items" /\ PersonAt(jobs[h].op, pc, jobs[h].arg.ref, promised, parties)
    BY <1>1, <1>10, <2>3
  <2> QED
    BY <1>2, <1>4, <1>1, <2>1, <2>2, <2>4, <2>5, PersonGoes
<1> QED
  BY <1>6, <1>7, <1>8, <1>9, <1>10

LEMMA WerkaStatePromise ==
  ASSUME Typed, PromiseInv, NEW h \in Handlers, WerkaState(h)
  PROVE  PromiseInv'
<1>1. Working(h) /\ jobs[h].pc = "werkaState" /\ UNCHANGED adminVars
  BY DEF WerkaState, At
<1>2. \A job : Continue(h, job) => PeopleKept
  BY <1>1 DEF Continue, PeopleKept, adminVars
<1>3. jobs[h].pc \in StatePcs
  BY <1>1 DEF StatePcs
<1>4. jobs[h].op = "regenerateWerka"
  BY <1>1, <1>3, StateJobIs DEF OpsAt
<1>5. jobs[h].arg.ref = Keeper
  BY <1>1, <1>3, <1>4, StateJobIs
<1>6. CASE Finish(h)
  BY <1>2, <1>6, PromiseEnds DEF Finish
<1>7. CASE ~Finish(h)
  <2>1. PICK s, n : /\ s = StateFor(Keeper)
                    /\ Continue(h, [jobs[h] EXCEPT !.pc = "werkaCode", !.arg.made = n, !.copy = Bump(s)])
    BY <1>7 DEF WerkaState
  <2>2. PeopleKept
    BY <1>2, <2>1
  <2> QED
    BY <1>1, <1>4, <1>5, <2>1, <2>2, CodeBegun
<1> QED
  BY <1>6, <1>7

-----------------------------------------------------------------------------
(***************************************************************************)
(* The items of a supplier.                                                *)
(***************************************************************************)
RowsMove(h) ==
  /\ OthersKept(h) /\ UNCHANGED <<mix, states, oldStates, parties, promised>>
  /\ \A x \in Refs \ {jobs[h].arg.ref} : SupplierRows(x, assigned') = SupplierRows(x, assigned)
  /\ Rows(jobs[h].arg.ref, promised[jobs[h].arg.ref], assigned')

LEMMA RowsFrom ==
  ASSUME Typed, Alone, PromiseInv, NEW h \in Handlers, Working(h), jobs[h].pc \in StatePcs, RowsMove(h),
         Working(h)' => PersonJob(jobs'[h], promised, parties, assigned')
  PROVE  PromiseInv'
<1>1. UNCHANGED <<mix, states, oldStates, parties, promised>>
  BY DEF RowsMove
<1>2. Told'
  BY <1>1 DEF PromiseInv, Told
<1>3. \A r : StateFor(r)' = StateFor(r)
  BY <1>1 DEF StateFor, Migrated, Lmdb
<1>4. PICK r : r = jobs[h].arg.ref
  OBVIOUS
<1>5. ASSUME NEW x \in Refs PROVE Rows(x, promised[x], assigned')
  <2>1. CASE x = r
    BY <1>4, <2>1 DEF RowsMove
  <2>2. CASE x # r
    <3>1. Rows(x, promised[x], assigned)
      BY KeptIs
    <3>2. \A i : HasRow(i, x, assigned') = HasRow(i, x, assigned)
      BY <1>4, <2>2, SameRows DEF RowsMove
    <3> QED
      BY <3>1, <3>2 DEF Rows
  <2> QED
    BY <2>1, <2>2
<1>6. KeptAll'
  BY <1>1, <1>3, <1>5 DEF PromiseInv, KeptAll
<1>7. \A x \in Parties : PartyHeld(x)'
  BY <1>1 DEF PromiseInv, PartyHeld, PhoneOf
<1>8. \A x : Smaller(x)
  BY <1>1, LessSelf DEF Smaller
<1>9. ASSUME NEW g \in Handlers \ {h}, Working(g), jobs[g].pc \in StatePcs PROVE Spared(jobs[g])
  <2>1. jobs[g].alone => jobs[g].arg.ref # r
    BY <1>4, <1>9, AloneOnRef
  <2>2. jobs[g].arg.ref \in Refs
    BY <1>9, StateJobIs
  <2> QED
    BY <1>4, <1>8, <2>1, <2>2 DEF Spared, RowsMove
<1> QED
  BY <1>1, <1>2, <1>6, <1>7, <1>9, PromiseFrom DEF RowsMove

\* The next step of a request for items, and what it has to bring along.
LEMMA RowsGo ==
  ASSUME Typed, Alone, PromiseInv, NEW h \in Handlers, Working(h), jobs[h].pc \in StatePcs, RowsMove(h),
         jobs[h].op \in {"items", "assign", "unassign", "unassignCustomer"},
         jobs[h].pc \notin {"entry", "stateCodes"},
         NEW pc \in {"sync", "rows", "deleteRows", "restate"},
         NEW arg, arg.ref = jobs[h].arg.ref, arg = jobs[h].arg \/ jobs[h].op = "items",
         NEW copy, NEW phase, NEW k, k = Moved(jobs[h], pc, arg, copy, phase), Continue(h, k),
         pc = "deleteRows" => DeletesOwn(k), RowsReady(k, promised, assigned')
  PROVE  PromiseInv'
<1>1. k.op = jobs[h].op /\ k.pc = pc /\ k.arg = arg /\ k.copy = copy
  BY MovedIs
<1>2. PICK op, r : op = jobs[h].op /\ r = jobs[h].arg.ref
  OBVIOUS
<1>3. /\ PersonAsks(op, jobs[h].arg, promised) /\ PersonAt(op, jobs[h].pc, r, promised, parties)
      /\ Untouched(promised[r], op, jobs[h].arg)
  BY <1>2, AsksIs DEF Asks
<1>4. Untouched(promised[r], op, arg)
  BY <1>2, <1>3 DEF Untouched
<1>5. PersonAsks(op, arg, promised)
  BY <1>2, <1>3, <1>4 DEF PersonAsks, PhoneWork
<1>6. PersonAt(op, pc, r, promised, parties)
  BY <1>2, <1>3 DEF PersonAt, SupplierOps
<1>7. PersonHolds(k, promised)
  BY <1>1 DEF PersonHolds, HeldPcs
<1>8. PersonJob(k, promised, parties, assigned')
  BY <1>1, <1>2, <1>5, <1>6, <1>7 DEF PersonJob
<1>9. jobs'[h] = k
  BY Continues
<1> QED
  BY <1>8, <1>9, RowsFrom

\* The rows are as asked: the list of the state is next.
LEMMA RowsToRestate ==
  ASSUME Typed, Alone, PromiseInv, NEW h \in Handlers, Working(h), jobs[h].pc \in StatePcs, RowsMove(h),
         jobs[h].pc \notin {"entry", "stateCodes"}, Go(h, "restate"), NEW op, op = jobs[h].op,
         op \in {"assign", "unassign", "items"}, NEW r, r = jobs[h].arg.ref, NEW w,
         w = Wish(promised[r], op, jobs[h].arg), jobs[h].alone => Rows(r, w, assigned')
  PROVE  PromiseInv'
<1>1. PICK k : k = Moved(jobs[h], "restate", jobs[h].arg, jobs[h].copy, jobs[h].phase)
  OBVIOUS
<1>2. Continue(h, k) /\ k.op = op /\ k.pc = "restate" /\ k.arg = jobs[h].arg /\ k.alone = jobs[h].alone
  BY <1>1, Goes, MovedIs
<1>3. k.alone => Goal(k, promised) = w
  BY <1>2 DEF Goal
<1>4. RowsReady(k, promised, assigned')
  BY <1>2, <1>3 DEF RowsReady
<1> QED
  BY <1>1, <1>2, <1>4, RowsGo

RowsEnd(h) == Finish(h) /\ RowsMove(h)

LEMMA RowsEnds ==
  ASSUME Typed, Alone, PromiseInv, NEW h \in Handlers, Working(h), jobs[h].pc \in StatePcs, RowsEnd(h)
  PROVE  PromiseInv'
<1>1. ~Working(h)'
  BY LandsIdle DEF RowsEnd
<1> QED
  BY <1>1, RowsFrom DEF RowsEnd

\* The rows that came or went are the supplier's own rows of one item.
Changed(rows, new) == (new \ rows) \cup (rows \ new)

LEMMA OwnRows ==
  ASSUME Typed, PromiseInv, NEW h \in Handlers, Working(h), jobs[h].pc \in StatePcs,
         NEW r, r = jobs[h].arg.ref, NEW i \in Items,
         \A row \in Changed(assigned, assigned') : row.kind = "supplier" /\ row.ref = r /\ row.item = i,
         promised[r].rows[i] = None,
         NEW k, Continue(h, k), UNCHANGED <<states, oldStates, parties, promised>>
  PROVE  /\ RowsMove(h)
         /\ \A z \in Items \ {i} : HasRow(z, r, assigned') = HasRow(z, r, assigned)
<1>1. OthersKept(h) /\ UNCHANGED mix
  BY Continues
<1>2. r \in Refs
  BY StateJobIs
<1>3. \A x \in Refs \ {r} : SupplierRows(x, assigned') = SupplierRows(x, assigned)
  BY DEF SupplierRows, Changed
<1>4. \A z \in Items \ {i} : HasRow(z, r, assigned') = HasRow(z, r, assigned)
  BY DEF HasRow, Changed
<1>5. Rows(r, promised[r], assigned)
  BY <1>2, KeptIs
<1>6. Rows(r, promised[r], assigned')
  BY <1>4, <1>5 DEF Rows
<1> QED
  BY <1>1, <1>3, <1>4, <1>6 DEF RowsMove

\* What is done to rows of customers says nothing of suppliers.
LEMMA CustomerRows ==
  ASSUME Typed, PromiseInv, NEW h \in Handlers, Working(h), jobs[h].pc \in StatePcs,
         \A row \in Changed(assigned, assigned') : row.kind = "customer",
         NEW k, Continue(h, k), UNCHANGED <<states, oldStates, parties, promised>>
  PROVE  RowsMove(h)
<1>1. OthersKept(h) /\ UNCHANGED mix
  BY Continues
<1>2. PICK r : r = jobs[h].arg.ref /\ r \in Refs
  BY StateJobIs
<1>3. \A x : SupplierRows(x, assigned') = SupplierRows(x, assigned)
  BY DEF SupplierRows, Changed
<1>4. \A i : HasRow(i, r, assigned') = HasRow(i, r, assigned)
  BY <1>3, SameRows
<1>5. Rows(r, promised[r], assigned)
  BY <1>2, KeptIs
<1>6. Rows(r, promised[r], assigned')
  BY <1>4, <1>5 DEF Rows
<1> QED
  BY <1>1, <1>2, <1>3, <1>6 DEF RowsMove

LEMMA NoRows ==
  ASSUME Typed, PromiseInv, NEW h \in Handlers, Working(h), jobs[h].pc \in StatePcs,
         NEW k, Continue(h, k), UNCHANGED <<states, oldStates, parties, assigned, promised>>
  PROVE  RowsMove(h)
<1>1. Changed(assigned, assigned') = {}
  BY DEF Changed
<1> QED
  BY <1>1, CustomerRows

LEMMA KnownPromise ==
  ASSUME Typed, Alone, PromiseInv, NEW h \in Handlers, KnownItems(h)
  PROVE  PromiseInv'
<1>1. Working(h) /\ jobs[h].pc = "known" /\ UNCHANGED adminVars
  BY Zenon DEF KnownItems, At
<1>2. PICK j, r : j = jobs[h] /\ r = j.arg.ref
  OBVIOUS
<1>3. jobs[h].pc \in StatePcs
  BY <1>1 DEF StatePcs, AdminWaits
<1>4. Asks(j)
  BY <1>1, <1>2, <1>3, AsksIs
<1>5. j.op = "items" /\ ItemsArg(j.arg)
  BY <1>1, <1>2, <1>4 DEF Asks, OpsAt, ArgTyped
<1>6. UNCHANGED <<states, oldStates, parties, assigned, promised>>
  BY <1>1 DEF adminVars
<1>7. CASE Finish(h)
  <2>1. PeopleKept
    BY <1>6, <1>7 DEF Finish, Continue, PeopleKept
  <2> QED
    BY <1>7, <2>1, PromiseEnds
<1>8. CASE ~Finish(h)
  <2>1. PICK has \in SUBSET Items :
          GoAsking(h, "sync", [jobs[h].arg EXCEPT !.right = ToldRightly(h, has),
            !.add = jobs[h].arg.items \ has, !.drop = has \ jobs[h].arg.items])
    BY <1>8, Zenon DEF KnownItems
  <2>2. PICK arg, right :
          /\ right = ToldRightly(h, has)
          /\ arg = [jobs[h].arg EXCEPT !.right = right, !.add = jobs[h].arg.items \ has,
                                       !.drop = has \ jobs[h].arg.items]
    OBVIOUS
  <2>3. /\ arg.ref = r /\ arg.items = j.arg.items /\ arg.right = right
        /\ arg.add = j.arg.items \ has /\ arg.drop = has \ j.arg.items
    BY <1>2, <1>5, <2>2 DEF ItemsArg
  <2>4. PICK k : k = Moved(jobs[h], "sync", arg, jobs[h].copy, jobs[h].phase)
    OBVIOUS
  <2>5. Continue(h, k)
    BY <1>1, <2>1, <2>2, <2>4, AskingIs
  <2>6. k.op = "items" /\ k.pc = "sync" /\ k.arg = arg
    BY <1>2, <1>5, <2>4, MovedIs
  <2>7. RowsMove(h)
    BY <1>1, <1>3, <1>6, <2>5, NoRows
  <2>8. \A i \in right : i \in Items /\ (i \in has <=> HasRow(i, r, assigned))
    BY <1>2, <2>2 DEF ToldRightly, Ref
  <2>9. ItemsReady("sync", r, arg, assigned)
    BY <2>3, <2>8 DEF ItemsReady
  <2>10. RowsReady(k, promised, assigned')
    BY <1>6, <2>3, <2>6, <2>9 DEF RowsReady, WritePcs
  <2> QED
    BY <1>1, <1>2, <1>3, <1>5, <2>3, <2>4, <2>5, <2>7, <2>10, RowsGo
<1> QED
  BY <1>7, <1>8

LEMMA SyncPromise ==
  ASSUME Typed, Alone, PromiseInv, NEW h \in Handlers, SyncItems(h)
  PROVE  PromiseInv'
<1>1. Working(h) /\ jobs[h].pc = "sync" /\ UNCHANGED <<states, oldStates, parties, promised>>
  BY Zenon DEF SyncItems, At
<1>2. PICK j, r : j = jobs[h] /\ r = j.arg.ref
  OBVIOUS
<1>3. jobs[h].pc \in StatePcs
  BY <1>1 DEF StatePcs, AdminWaits
<1>4. Asks(j)
  BY <1>1, <1>2, <1>3, AsksIs
<1>5. j.op = "items" /\ ItemsArg(j.arg) /\ RowsReady(j, promised, assigned)
  BY <1>1, <1>2, <1>4 DEF Asks, OpsAt, ArgTyped
<1>6. \A i \in Items : promised[r].rows[i] = None
  BY <1>2, <1>4, <1>5 DEF Asks, Untouched
<1>7. j.alone => ItemsReady("sync", r, j.arg, assigned)
  BY <1>1, <1>2, <1>5 DEF RowsReady
<1>8. CASE \E i \in j.arg.add :
             /\ assigned' = assigned \cup {NewRow("supplier", i, Ref(h), h)}
             /\ GoAsking(h, "sync", [j.arg EXCEPT !.add = @ \ {i}])
  <2>1. PICK i \in j.arg.add :
             /\ assigned' = assigned \cup {NewRow("supplier", i, Ref(h), h)}
             /\ GoAsking(h, "sync", [j.arg EXCEPT !.add = @ \ {i}])
    BY <1>8
  <2>2. PICK row : row = NewRow("supplier", i, Ref(h), h)
    OBVIOUS
  <2>3. row.kind = "supplier" /\ row.item = i /\ row.ref = r /\ i \in Items
    BY <1>2, <1>5, <2>2 DEF NewRow, Ref, ItemsArg
  <2>4. PICK arg : arg = [j.arg EXCEPT !.add = @ \ {i}]
    OBVIOUS
  <2>5. /\ arg.ref = r /\ arg.items = j.arg.items /\ arg.right = j.arg.right
        /\ arg.add = j.arg.add \ {i} /\ arg.drop = j.arg.drop
    BY <1>2, <1>5, <2>4 DEF ItemsArg
  <2>6. PICK k : k = Moved(jobs[h], "sync", arg, jobs[h].copy, jobs[h].phase)
    OBVIOUS
  <2>7. Continue(h, k)
    BY <1>1, <2>1, <2>4, <2>6, AskingIs
  <2>8. k.op = "items" /\ k.pc = "sync" /\ k.arg = arg /\ k.alone = j.alone
    BY <1>2, <1>5, <2>6, MovedIs
  <2>9. \A x \in Changed(assigned, assigned') : x.kind = "supplier" /\ x.ref = r /\ x.item = i
    BY <2>1, <2>2, <2>3 DEF Changed
  <2>10. RowsMove(h) /\ \A z \in Items \ {i} : HasRow(z, r, assigned') = HasRow(z, r, assigned)
    BY <1>1, <1>2, <1>3, <1>6, <2>3, <2>7, <2>9, OwnRows
  <2>11. HasRow(i, r, assigned')
    BY <2>1, <2>2, <2>3 DEF HasRow
  <2>12. j.alone => ItemsReady("sync", r, arg, assigned')
    BY <1>5, <1>7, <2>5, <2>10, <2>11 DEF ItemsReady, ItemsArg
  <2>13. RowsReady(k, promised, assigned')
    BY <2>5, <2>8, <2>12 DEF RowsReady, WritePcs
  <2> QED
    BY <1>1, <1>2, <1>3, <1>5, <2>5, <2>6, <2>7, <2>10, <2>13, RowsGo
<1>9. CASE \E i \in j.arg.drop :
             /\ j.arg.add = {} /\ UNCHANGED assigned
             /\ GoAsking(h, "rows", [j.arg EXCEPT !.item = i, !.drop = @ \ {i}])
  <2>1. PICK i \in j.arg.drop :
             UNCHANGED assigned /\ GoAsking(h, "rows", [j.arg EXCEPT !.item = i, !.drop = @ \ {i}])
    BY <1>9, Zenon
  <2>2. PICK arg : arg = [j.arg EXCEPT !.item = i, !.drop = @ \ {i}]
    OBVIOUS
  <2>3. /\ arg.ref = r /\ arg.items = j.arg.items /\ arg.right = j.arg.right
        /\ arg.add = j.arg.add /\ arg.drop = j.arg.drop \ {i} /\ arg.item = i
    BY <1>2, <1>5, <2>2 DEF ItemsArg
  <2>4. PICK k : k = Moved(jobs[h], "rows", arg, jobs[h].copy, jobs[h].phase)
    OBVIOUS
  <2>5. Continue(h, k)
    BY <1>1, <2>1, <2>2, <2>4, AskingIs
  <2>6. k.op = "items" /\ k.pc = "rows" /\ k.arg = arg /\ k.alone = j.alone
    BY <1>2, <1>5, <2>4, MovedIs
  <2>7. RowsMove(h)
    BY <1>1, <1>3, <2>1, <2>5, NoRows
  <2>8. j.alone => ItemsReady("rows", r, arg, assigned')
    BY <1>7, <2>1, <2>3 DEF ItemsReady
  <2>9. RowsReady(k, promised, assigned')
    BY <2>3, <2>6, <2>8 DEF RowsReady, WritePcs
  <2> QED
    BY <1>1, <1>2, <1>3, <1>5, <2>3, <2>4, <2>5, <2>7, <2>9, RowsGo
<1>10. CASE j.arg.add = {} /\ j.arg.drop = {} /\ Go(h, "restate") /\ UNCHANGED assigned
  <2>1. PICK k : Continue(h, k)
    BY <1>10 DEF Go
  <2>2. RowsMove(h)
    BY <1>1, <1>3, <1>10, <2>1, NoRows
  <2>3. PICK p, w : p = promised[r] /\ w = Wish(p, "items", j.arg)
    OBVIOUS
  <2>4. WishOf(w, p, "items", j.arg)
    BY <1>2, <1>4, <1>5, <2>3, WishIs DEF Asks
  <2>5. \A i \in Items : w.rows[i] = IF i \in j.arg.right THEN i \in j.arg.items ELSE None
    BY <2>4 DEF WishOf
  <2>6. ASSUME j.alone PROVE Rows(r, w, assigned')
    <3>1. ASSUME NEW i \in Items, w.rows[i] # None PROVE HasRow(i, r, assigned') = w.rows[i]
      <4>1. i \in j.arg.right /\ w.rows[i] = (i \in j.arg.items)
        BY <2>5, <3>1
      <4>2. HasRow(i, r, assigned) <=> i \in j.arg.items
        BY <1>7, <1>10, <2>6, <4>1 DEF ItemsReady
      <4>3. HasRow(i, r, assigned) \in BOOLEAN
        BY DEF HasRow
      <4> QED
        BY <1>10, <4>1, <4>2, <4>3
    <3> QED
      BY <3>1 DEF Rows
  <2> QED
    BY <1>1, <1>2, <1>3, <1>5, <1>10, <2>2, <2>3, <2>6, RowsToRestate
<1>11. \/ \E i \in jobs[h].arg.add :
               /\ assigned' = assigned \cup {NewRow("supplier", i, Ref(h), h)}
               /\ GoAsking(h, "sync", [jobs[h].arg EXCEPT !.add = @ \ {i}])
       \/ \E i \in jobs[h].arg.drop :
               /\ jobs[h].arg.add = {} /\ UNCHANGED assigned
               /\ GoAsking(h, "rows", [jobs[h].arg EXCEPT !.item = i, !.drop = @ \ {i}])
       \/ jobs[h].arg.add = {} /\ jobs[h].arg.drop = {} /\ Go(h, "restate") /\ UNCHANGED assigned
  BY Zenon DEF SyncItems
<1> QED
  BY <1>2, <1>8, <1>9, <1>10, <1>11, Zenon

LEMMA InsertPromise ==
  ASSUME Typed, Alone, PromiseInv, NEW h \in Handlers, InsertRow(h)
  PROVE  PromiseInv'
<1>1. PICK j, r, i, row :
        /\ j = jobs[h] /\ r = j.arg.ref /\ i = j.arg.item
        /\ row = NewRow(IF j.op = "assign" THEN "supplier" ELSE "customer", i, r, h)
  OBVIOUS
<1>2. /\ Working(h) /\ j.pc = "insertRow" /\ UNCHANGED <<states, oldStates, parties, promised>>
      /\ assigned' = assigned \cup {row}
  BY <1>1 DEF InsertRow, At, Ref
<1>3. jobs[h].pc \in StatePcs
  BY <1>1, <1>2 DEF StatePcs, AdminWaits
<1>4. Asks(j)
  BY <1>1, <1>2, <1>3, AsksIs
<1>5. j.op \in {"assign", "assignCustomer"} /\ i \in Items /\ r \in Refs
  BY <1>1, <1>2, <1>4 DEF Asks, OpsAt, ArgTyped, ItemOps
<1>6. row.kind = (IF j.op = "assign" THEN "supplier" ELSE "customer") /\ row.ref = r /\ row.item = i
  BY <1>1 DEF NewRow
<1>7. CASE j.op = "assign"
  <2>1. Go(h, "restate")
    BY <1>1, <1>7 DEF InsertRow
  <2>2. PICK k : Continue(h, k)
    BY <2>1 DEF Go
  <2>3. promised[r].rows[i] = None
    BY <1>1, <1>4, <1>7 DEF Asks, Untouched
  <2>4. \A x \in Changed(assigned, assigned') : x.kind = "supplier" /\ x.ref = r /\ x.item = i
    BY <1>2, <1>6, <1>7 DEF Changed
  <2>5. RowsMove(h) /\ \A z \in Items \ {i} : HasRow(z, r, assigned') = HasRow(z, r, assigned)
    <3>1. Working(h) /\ UNCHANGED <<states, oldStates, parties, promised>> /\ r = jobs[h].arg.ref
      BY <1>1, <1>2
    <3> QED
      BY <1>3, <1>5, <2>2, <2>3, <2>4, <3>1, OwnRows
  <2>6. PICK p, w : p = promised[r] /\ w = Wish(p, "assign", j.arg)
    OBVIOUS
  <2>7. WishOf(w, p, "assign", j.arg)
    BY <1>1, <1>4, <1>7, <2>6, WishIs DEF Asks
  <2>8. Rows(r, p, assigned)
    BY <1>5, <2>6, KeptIs
  <2>9. \A z \in Items : w.rows[z] = IF z = i THEN TRUE ELSE p.rows[z]
    BY <1>1, <2>7 DEF WishOf
  <2>10. HasRow(i, r, assigned') = TRUE
    BY <1>2, <1>6, <1>7 DEF HasRow
  <2>11. Rows(r, w, assigned')
    BY <2>5, <2>8, <2>9, <2>10 DEF Rows
  <2> QED
    BY <1>1, <1>2, <1>3, <1>7, <2>1, <2>5, <2>6, <2>11, RowsToRestate
<1>8. CASE j.op = "assignCustomer"
  <2>1. Finish(h)
    BY <1>1, <1>8 DEF InsertRow
  <2>2. \A x \in Changed(assigned, assigned') : x.kind = "customer"
    BY <1>2, <1>6, <1>8 DEF Changed
  <2>3. Continue(h, Idle)
    BY <2>1 DEF Finish
  <2>4. RowsMove(h)
    BY <1>1, <1>2, <1>3, <2>2, <2>3, CustomerRows
  <2> QED
    BY <1>1, <1>2, <1>3, <2>1, <2>4, RowsEnds DEF RowsEnd
<1> QED
  BY <1>5, <1>7, <1>8

LEMMA ReadRowsPromise ==
  ASSUME Typed, Alone, PromiseInv, NEW h \in Handlers, ReadRows(h)
  PROVE  PromiseInv'
<1>1. PICK j, r, i, rows, k :
        /\ j = jobs[h] /\ r = j.arg.ref /\ i = j.arg.item
        /\ rows = (IF j.op = "unassignCustomer" THEN ItemRows("customer", i)
                   ELSE {row \in ItemRows("supplier", i) : row.ref = r})
        /\ k = Moved(j, "deleteRows", j.arg, rows, j.phase)
  OBVIOUS
<1>2. Working(h) /\ j.pc = "rows" /\ UNCHANGED adminVars /\ GoWith(h, "deleteRows", rows)
  BY <1>1 DEF ReadRows, At, Ref
<1>3. jobs[h].pc \in StatePcs
  BY <1>1, <1>2 DEF StatePcs, AdminWaits
<1>4. Asks(j)
  BY <1>1, <1>2, <1>3, AsksIs
<1>5. j.op \in {"unassign", "unassignCustomer", "items"} /\ RowsReady(j, promised, assigned)
  BY <1>1, <1>2, <1>4 DEF Asks, OpsAt
<1>6. Continue(h, k)
  BY <1>1, <1>2, Goes
<1>7. UNCHANGED <<states, oldStates, parties, assigned, promised>>
  BY <1>2 DEF adminVars
<1>8. RowsMove(h)
  BY <1>1, <1>2, <1>3, <1>6, <1>7, NoRows
<1>9. k.op = j.op /\ k.pc = "deleteRows" /\ k.arg = j.arg /\ k.copy = rows /\ k.alone = j.alone
  BY <1>1, MovedIs
<1>10. DeletesOwn(k)
  BY <1>1, <1>9 DEF DeletesOwn, ItemRows
<1>11. j.op # "unassignCustomer" => \A row \in SupplierRows(r, assigned) : row.item = i => row \in rows
  BY <1>1 DEF SupplierRows, ItemRows
<1>12. j.alone /\ j.op = "items" => ItemsReady("deleteRows", r, j.arg, assigned)
  <2>1. j.alone /\ j.op = "items" => ItemsReady("rows", r, j.arg, assigned)
    BY <1>1, <1>2, <1>5 DEF RowsReady
  <2> QED
    BY <2>1 DEF ItemsReady
<1>13. RowsReady(k, promised, assigned')
  <2>1. r = j.arg.ref /\ i = j.arg.item /\ assigned' = assigned
    BY <1>1, <1>7
  <2> QED
    BY <1>9, <1>11, <1>12, <2>1 DEF RowsReady, WritePcs
<1> QED
  BY <1>1, <1>2, <1>3, <1>5, <1>6, <1>8, <1>10, <1>13, RowsGo

\* One row of those that were read goes.
LEMMA RowGoes ==
  ASSUME Typed, Alone, PromiseInv, NEW h \in Handlers, Working(h), NEW j, j = jobs[h], j.pc = "deleteRows",
         j.op \in {"unassign", "items"}, Asks(j), NEW r, r = j.arg.ref, NEW i \in Items, i = j.arg.item,
         promised[r].rows[i] = None, UNCHANGED <<states, oldStates, parties, promised>>,
         NEW row \in j.copy, assigned' = assigned \ {row},
         GoWith(h, "deleteRows", j.copy \ {row}) \/ Finish(h)
  PROVE  PromiseInv'
<1>1. jobs[h].pc \in StatePcs
  BY DEF StatePcs, AdminWaits
<1>2. PICK k, rows : rows = j.copy \ {row} /\ k = Moved(j, "deleteRows", j.arg, rows, j.phase)
  OBVIOUS
<1>3. Continue(h, k) \/ Finish(h)
  BY <1>2, Goes
<1>4. PICK q : Continue(h, q)
  BY <1>3 DEF Finish
<1>5. DeletesOwn(j) /\ RowsReady(j, promised, assigned)
  BY DEF Asks, PersonHolds
<1>6. row.kind = "supplier" /\ row.ref = r /\ row.item = i
  BY <1>5 DEF DeletesOwn
<1>7. \A x \in Changed(assigned, assigned') : x.kind = "supplier" /\ x.ref = r /\ x.item = i
  BY <1>6 DEF Changed
<1>8. RowsMove(h) /\ \A z \in Items \ {i} : HasRow(z, r, assigned') = HasRow(z, r, assigned)
  BY <1>1, <1>4, <1>7, OwnRows
<1>9. CASE Finish(h)
  BY <1>1, <1>8, <1>9, RowsEnds DEF RowsEnd
<1>10. CASE Continue(h, k)
  <2>1. k.op = j.op /\ k.pc = "deleteRows" /\ k.arg = j.arg /\ k.copy = rows /\ k.alone = j.alone
    BY <1>2, MovedIs
  <2>2. DeletesOwn(k)
    <3>1. \A x \in rows : x \in j.copy
      BY <1>2
    <3> QED
      BY <1>5, <2>1, <3>1 DEF DeletesOwn
  <2>3. ASSUME j.alone PROVE \A x \in SupplierRows(r, assigned') : x.item = i => x \in rows
    <3>1. \A x \in SupplierRows(r, assigned) : x.item = i => x \in j.copy
      BY <1>5, <2>3 DEF RowsReady
    <3>2. \A x \in SupplierRows(r, assigned') : x \in SupplierRows(r, assigned) /\ x # row
      BY DEF SupplierRows
    <3> QED
      BY <1>2, <3>1, <3>2
  <2>4. ASSUME j.alone, j.op = "items" PROVE ItemsReady("deleteRows", r, j.arg, assigned')
    <3>1. ItemsReady("deleteRows", r, j.arg, assigned)
      BY <1>5, <2>4 DEF RowsReady
    <3>2. i \notin j.arg.items /\ j.arg.right \subseteq Items
      BY <2>4, <3>1 DEF ItemsReady, Asks, ArgTyped, ItemsArg
    <3>3. \A z \in j.arg.right \ {i} : HasRow(z, r, assigned') = HasRow(z, r, assigned)
      BY <1>8, <3>2
    <3> QED
      BY <3>1, <3>2, <3>3 DEF ItemsReady
  <2>5. RowsReady(k, promised, assigned')
    BY <2>1, <2>3, <2>4 DEF RowsReady, WritePcs
  <2> QED
    BY <1>1, <1>2, <1>8, <1>10, <2>2, <2>5, RowsGo
<1> QED
  BY <1>3, <1>9, <1>10

LEMMA DeletePromise ==
  ASSUME Typed, Alone, PromiseInv, NEW h \in Handlers, DeleteRows(h)
  PROVE  PromiseInv'
<1>1. PICK j, r, i, rows : j = jobs[h] /\ r = j.arg.ref /\ i = j.arg.item /\ rows = j.copy
  OBVIOUS
<1>2. Working(h) /\ j.pc = "deleteRows" /\ UNCHANGED <<states, oldStates, parties, promised>>
  BY <1>1 DEF DeleteRows, At
<1>3. jobs[h].pc \in StatePcs
  BY <1>1, <1>2 DEF StatePcs, AdminWaits
<1>4. Asks(j)
  BY <1>1, <1>2, <1>3, AsksIs
<1>5. /\ j.op \in {"unassign", "unassignCustomer", "items"} /\ r \in Refs
      /\ DeletesOwn(j) /\ RowsReady(j, promised, assigned)
  BY <1>1, <1>2, <1>4 DEF Asks, OpsAt, PersonHolds
<1>6. CASE j.op \in {"unassign", "items"} /\ \E row \in rows :
             /\ assigned' = assigned \ {row}
             /\ GoWith(h, "deleteRows", rows \ {row}) \/ Finish(h)
  <2>1. PICK row \in rows :
             /\ assigned' = assigned \ {row}
             /\ GoWith(h, "deleteRows", rows \ {row}) \/ Finish(h)
    BY <1>6
  <2>2. i \in Items
    <3>1. AreRows(rows) /\ row.item = i
      BY <1>1, <1>2, <1>4, <1>5, <1>6 DEF Asks, CopyTyped, DeletesOwn
    <3> QED
      BY <3>1 DEF AreRows
  <2>3. promised[r].rows[i] = None
    BY <1>1, <1>4, <1>6, <2>2 DEF Asks, Untouched
  <2> QED
    BY <1>1, <1>2, <1>4, <1>6, <2>1, <2>2, <2>3, RowGoes
<1>7. CASE j.op \in {"unassign", "items"} /\ rows = {} /\ UNCHANGED assigned
           /\ Go(h, IF j.op = "items" THEN "sync" ELSE "restate")
  <2>1. PICK q : Continue(h, q)
    BY <1>7 DEF Go
  <2>2. RowsMove(h)
    BY <1>1, <1>2, <1>3, <1>7, <2>1, NoRows
  <2>3. j.alone => ~HasRow(i, r, assigned)
    <3>1. j.alone => \A row \in SupplierRows(r, assigned) : row.item # i
      BY <1>1, <1>2, <1>5, <1>7 DEF RowsReady
    <3> QED
      BY <3>1 DEF HasRow, SupplierRows
  <2>4. CASE j.op = "items"
    <3>1. PICK k : k = Moved(jobs[h], "sync", jobs[h].arg, jobs[h].copy, jobs[h].phase)
      OBVIOUS
    <3>2. Continue(h, k) /\ k.op = "items" /\ k.pc = "sync" /\ k.arg = j.arg /\ k.alone = j.alone
      BY <1>1, <1>2, <1>7, <2>4, <3>1, Goes, MovedIs
    <3>3. j.alone => ItemsReady("deleteRows", r, j.arg, assigned)
      BY <1>1, <1>2, <1>5, <2>4 DEF RowsReady
    <3>4. j.alone => ItemsReady("sync", r, j.arg, assigned)
      BY <1>1, <2>3, <3>3 DEF ItemsReady
    <3>5. RowsReady(k, promised, assigned')
      BY <1>1, <1>7, <3>2, <3>4 DEF RowsReady, WritePcs
    <3> QED
      BY <1>1, <1>2, <1>3, <2>2, <2>4, <3>1, <3>2, <3>5, RowsGo
  <2>5. CASE j.op = "unassign"
    <3>1. Go(h, "restate")
      BY <1>7, <2>5
    <3>2. PICK p, w : p = promised[r] /\ w = Wish(p, "unassign", j.arg)
      OBVIOUS
    <3>3. WishOf(w, p, "unassign", j.arg)
      BY <1>1, <1>4, <2>5, <3>2, WishIs DEF Asks
    <3>4. Rows(r, p, assigned)
      BY <1>5, <3>2, KeptIs
    <3>5. \A z \in Items : w.rows[z] = IF z = i THEN FALSE ELSE p.rows[z]
      BY <1>1, <3>3 DEF WishOf
    <3>6. HasRow(i, r, assigned) \in BOOLEAN
      BY DEF HasRow
    <3>7. j.alone => Rows(r, w, assigned')
      BY <1>7, <2>3, <3>4, <3>5, <3>6 DEF Rows
    <3> QED
      BY <1>1, <1>2, <1>3, <2>2, <2>5, <3>1, <3>2, <3>7, RowsToRestate
  <2> QED
    BY <1>7, <2>4, <2>5
<1>8. CASE j.op = "unassignCustomer"
  <2>1. Finish(h) /\ assigned' = (assigned \ ItemRows("customer", i)) \cup {row \in rows : row.ref # r}
    BY <1>1, <1>8 DEF DeleteRows, Ref
  <2>2. \A row \in rows : row.kind = "customer"
    BY <1>1, <1>5, <1>8 DEF DeletesOwn
  <2>3. \A row \in Changed(assigned, assigned') : row.kind = "customer"
    BY <2>1, <2>2 DEF Changed, ItemRows
  <2>4. Continue(h, Idle)
    BY <2>1 DEF Finish
  <2>5. RowsMove(h)
    BY <1>1, <1>2, <1>3, <2>3, <2>4, CustomerRows
  <2> QED
    BY <1>1, <1>2, <1>3, <2>1, <2>5, RowsEnds DEF RowsEnd
<1>9. j.op # "unassignCustomer" => DeleteRow(h)
  BY <1>1 DEF DeleteRows
<1> QED
  BY <1>1, <1>5, <1>6, <1>7, <1>8, <1>9 DEF DeleteRow

-----------------------------------------------------------------------------
(***************************************************************************)
(* Steps that read.                                                        *)
(***************************************************************************)
LEMMA EntryPromise ==
  ASSUME Typed, PromiseInv, NEW h \in Handlers, Entry(h)
  PROVE  PromiseInv'
<1>1. Working(h) /\ jobs[h].pc = "entry" /\ UNCHANGED adminVars
  BY DEF Entry, At
<1>2. jobs[h].pc \in StatePcs
  BY <1>1 DEF StatePcs, AdminWaits
<1>3. \A job : Continue(h, job) => PeopleKept
  BY <1>1 DEF Continue, PeopleKept, adminVars
<1>4. CASE Finish(h)
  BY <1>3, <1>4, PromiseEnds DEF Finish
<1>5. CASE ~Finish(h)
  <2>1. Go(h, "state") /\ parties[jobs[h].arg.ref] # None
    BY <1>5 DEF Entry, Ref
  <2>2. PeopleKept
    BY <1>3, <2>1 DEF Go
  <2>3. PersonAt(jobs[h].op, "state", jobs[h].arg.ref, promised, parties)
    BY <2>1 DEF PersonAt, WritePcs
  <2>4. "state" \notin HeldPcs \cup WritePcs \cup {"sync", "deleteRows"}
    BY DEF HeldPcs, WritePcs
  <2> QED
    BY <1>1, <1>2, <2>1, <2>2, <2>3, <2>4, PersonGoes
<1> QED
  BY <1>4, <1>5

LEMMA StateCodesPromise ==
  ASSUME Typed, PromiseInv, NEW h \in Handlers, StateCodes(h)
  PROVE  PromiseInv'
<1>1. PICK j : j = jobs[h]
  OBVIOUS
<1>2. Working(h) /\ j.pc = "stateCodes" /\ UNCHANGED adminVars
  BY <1>1 DEF StateCodes, At
<1>3. jobs[h].pc \in StatePcs
  BY <1>1, <1>2 DEF StatePcs, AdminWaits
<1>4. \A job : Continue(h, job) => PeopleKept
  BY <1>2 DEF Continue, PeopleKept, adminVars
<1>5. IsJob(j) /\ Asks(j)
  BY <1>1, <1>2, <1>3, JobOf, AsksIs
<1>6. CASE Finish(h)
  BY <1>4, <1>6, PromiseEnds DEF Finish
<1>7. CASE ~Finish(h)
  <2>1. PICK codes, arg, k :
          /\ codes = ExistingStateCodes /\ arg = [j.arg EXCEPT !.existing = codes]
          /\ k = [j EXCEPT !.pc = "state", !.arg.existing = codes]
          /\ Continue(h, k) /\ parties[j.arg.ref] # None
    BY <1>1, <1>7 DEF StateCodes, Ref
  <2>2. k = Moved(j, "state", arg, j.copy, j.phase)
    BY <1>5, <2>1 DEF IsJob, Moved
  <2>3. j.op = "regenerateCustomer" /\ j.op \in RegenOps
    BY <1>2, <1>5 DEF Asks, OpsAt, RegenOps
  <2>4. j.arg = [ref |-> j.arg.ref, existing |-> j.arg.existing, made |-> j.arg.made,
                 code |-> j.arg.code]
    BY <1>5, <2>3 DEF Asks, ArgTyped
  <2>5. arg.ref = j.arg.ref
    BY <2>1, <2>4
  <2>6. PersonAsks(j.op, arg, promised)
    BY <1>5, <2>3, <2>5, RegenAsks DEF Asks
  <2>7. PersonAt(j.op, "state", arg.ref, promised, parties)
    BY <2>1, <2>5 DEF PersonAt, WritePcs
  <2>8. k.pc = "state"
    BY <2>2, MovedIs
  <2>9. PersonHolds(k, promised) /\ RowsReady(k, promised, assigned)
    BY <2>8 DEF PersonHolds, RowsReady, HeldPcs, WritePcs
  <2>10. PeopleKept
    BY <1>4, <2>1
  <2> QED
    BY <1>1, <1>2, <2>1, <2>2, <2>6, <2>7, <2>9, <2>10, PersonMoves
<1> QED
  BY <1>6, <1>7

LEMMA SearchPromise ==
  ASSUME Typed, PromiseInv, NEW h \in Handlers, SearchPhone(h)
  PROVE  PromiseInv'
<1>1. Working(h) /\ jobs[h].pc = "search" /\ UNCHANGED adminVars
  BY DEF SearchPhone, At
<1>2. jobs[h].pc \in StatePcs
  BY <1>1 DEF StatePcs, AdminWaits
<1>3. \A job : Continue(h, job) => PeopleKept
  BY <1>1 DEF Continue, PeopleKept, adminVars
<1>4. CASE Finish(h)
  BY <1>3, <1>4, PromiseEnds DEF Finish
<1>5. CASE ~Finish(h)
  <2>1. Go(h, "post")
    BY <1>5 DEF SearchPhone
  <2>2. PeopleKept
    BY <1>3, <2>1 DEF Go
  <2>3. PersonAt(jobs[h].op, "search", jobs[h].arg.ref, promised, parties)
    BY <1>1, <1>2, AsksIs DEF Asks
  <2>4. PersonAt(jobs[h].op, "post", jobs[h].arg.ref, promised, parties)
    BY <2>3 DEF PersonAt, WritePcs, SupplierOps
  <2>5. "post" \notin HeldPcs \cup WritePcs \cup {"sync", "deleteRows"}
    BY DEF HeldPcs, WritePcs
  <2> QED
    BY <1>1, <1>2, <2>1, <2>2, <2>4, <2>5, PersonGoes
<1> QED
  BY <1>4, <1>5

\* A step that is not about a person's state leaves what is known as it is.
LEMMA ElsewherePromise ==
  ASSUME Typed, PromiseInv, NEW h \in Handlers, NEW pcs, Lands(h, pcs), pcs \cap StatePcs = {},
         UNCHANGED adminVars
  PROVE  PromiseInv'
<1>1. OthersKept(h) /\ PeopleKept
  BY DEF Lands, PeopleKept, adminVars
<1>2. Working(h)' => jobs'[h].pc \notin StatePcs
  BY DEF Lands
<1>3. Working(h)' => PersonJob(jobs'[h], promised, parties, assigned)
  BY <1>2 DEF PersonJob
<1> QED
  BY <1>1, <1>3, PromiseQuiet

LEMMA FailsPromise ==
  ASSUME Typed, PromiseInv, NEW h \in Handlers, Finish(h), UNCHANGED adminVars
  PROVE  PromiseInv'
<1>1. \A job : Continue(h, job) => PeopleKept
  BY DEF Continue, PeopleKept, adminVars
<1> QED
  BY <1>1, PromiseEnds DEF Finish

-----------------------------------------------------------------------------
(***************************************************************************)
(* A request about a person begins: nothing is known any more of what it   *)
(* is about to change.                                                     *)
(***************************************************************************)
FirstPcs == {"entry", "stateCodes", "erpPhone", "search", "post"}
FirstAt(op, pc) ==
  /\ pc \in FirstPcs
  /\ op \in SupplierOps \cup {"regenerateCustomer"} => pc \in {"entry", "stateCodes"}
  /\ pc = "erpPhone" => op = "customerPhone"
  /\ pc = "search" => op = "createCustomer"
  /\ pc = "post" => op = "createSupplier"
Sensible(op, arg) ==
  /\ op \in StateOps
  /\ op \in SupplierWork => arg.ref \in Suppliers
  /\ op \in CustomerWork => arg.ref \in Customers
  /\ op \in PhoneWork => arg.phone \in Phones
  /\ op \in {"assign", "unassign"} => arg.item \in Items

LEMMA BeginPromise ==
  ASSUME Typed, PromiseInv, NEW h \in Handlers, NEW op, NEW pc, NEW r \in Refs, NEW arg, arg.ref = r,
         BeginState(h, op, pc, r, arg), UNCHANGED <<stateVars, erpVars>>, FirstAt(op, pc), Sensible(op, arg)
  PROVE  PromiseInv'
<1>1. PICK keys, gone, q : /\ keys = Keys(r) /\ gone = Raced(keys) /\ q = Begun(promised[r], op, arg)
                           /\ Begin(h, op, pc, keys, arg)
  BY DEF BeginState
<1>2. OthersKept(h) /\ UNCHANGED mix /\ jobs'[h] = NewJob(h, op, pc, keys, arg)
  BY <1>1, Begins
<1>3. PICK lost : lost = {x \in Refs : gone /\ (x = r \/ ~Lmdb)}
  OBVIOUS
<1>4. promised' = [x \in Refs |-> IF x \in lost THEN NoPromise ELSE IF x = r THEN q ELSE promised[x]]
  <2>1. promised' = [x \in Refs |-> IF gone /\ (x = r \/ ~Lmdb) THEN NoPromise
                                    ELSE IF x = r THEN q ELSE promised[x]]
    BY <1>1, Zenon DEF BeginState, Begun
  <2> QED
    BY <1>3, <2>1
<1>5. UNCHANGED <<states, oldStates, parties, assigned>>
  BY DEF stateVars, erpVars
<1>6. \A x \in Refs : IsPromise(promised[x]) /\ (x \notin Suppliers => promised[x] = NoPromise)
  BY DEF PromiseInv, Told
<1>7. IsPromise(q) /\ Less(q, promised[r]) /\ Untouched(q, op, arg)
  BY <1>1, <1>6, BegunIs DEF Sensible
<1>8. ASSUME NEW x \in Refs PROVE IsPromise(promised'[x]) /\ Less(promised'[x], promised[x])
  <2>1. CASE x \in lost
    BY <1>4, <2>1, NoPromiseIs
  <2>2. CASE x \notin lost /\ x = r
    BY <1>4, <1>7, <2>2
  <2>3. CASE x \notin lost /\ x # r
    BY <1>4, <1>6, <2>3, LessSelf
  <2> QED
    BY <2>1, <2>2, <2>3
<1>9. Untouched(promised'[r], op, arg)
  <2>1. CASE r \in lost
    BY <1>4, <2>1, NoPromiseIs DEF Sensible
  <2>2. CASE r \notin lost
    BY <1>4, <1>7, <2>2
  <2> QED
    BY <2>1, <2>2
<1>10. Told'
  <2>1. promised' = [x \in Refs |-> promised'[x]]
    BY <1>4
  <2>2. ASSUME NEW x \in Refs, x \notin Suppliers PROVE promised'[x] = NoPromise
    BY <1>6, <1>8, <2>2, LessNothing
  <2>3. parties' \in [Parties -> PartyRecords \cup {None}]
    BY <1>5 DEF PromiseInv, Told
  <2> QED
    BY <1>8, <2>1, <2>2, <2>3 DEF Told
<1>11. KeptAll'
  <2>1. \A x : StateFor(x)' = StateFor(x)
    BY <1>2, <1>5 DEF StateFor, Migrated, Lmdb
  <2>2. ASSUME NEW x \in Refs
        PROVE  Fulfils(x, promised'[x], StateFor(x)') /\ Rows(x, promised'[x], assigned')
    <3>1. Fulfils(x, promised[x], StateFor(x)) /\ Rows(x, promised[x], assigned)
      BY KeptIs
    <3>2. Less(promised'[x], promised[x])
      BY <1>8
    <3> QED
      BY <1>5, <2>1, <3>1, <3>2, LessKeeps
  <2> QED
    BY <2>2 DEF KeptAll
<1>12. ASSUME NEW x \in Parties PROVE PartyHeld(x)'
  <2>1. Less(promised'[x], promised[x])
    BY <1>8 DEF Parties, Refs
  <2>2. PartyHeld(x)
    BY DEF PromiseInv
  <2> QED
    BY <1>5, <2>1, <2>2 DEF PartyHeld, PhoneOf, Less
<1>13. ASSUME NEW g \in Handlers \ {h}, Working(g), jobs[g].pc \in StatePcs PROVE Spared(jobs[g])
  <2>1. jobs[g].arg.ref \in Refs
    BY <1>13, StateJobIs
  <2> QED
    BY <1>5, <1>8, <2>1 DEF Spared, Smaller
<1>14. PersonJob(jobs'[h], promised', parties', assigned')
  <2>1. PICK k : k = jobs'[h] /\ k.op = op /\ k.pc = pc /\ k.arg = arg
    BY <1>2, NewJobIs
  <2>2. pc \notin HeldPcs /\ pc \notin WritePcs /\ pc # "write" /\ pc # "sync" /\ pc # "deleteRows" /\ pc # "rows"
    BY DEF FirstAt, FirstPcs, HeldPcs, WritePcs
  <2>3. PersonAsks(op, arg, promised')
    BY <1>9 DEF PersonAsks, Sensible
  <2>4. PersonAt(op, pc, r, promised', parties')
    BY <2>2 DEF PersonAt, FirstAt, FirstPcs
  <2>5. PersonHolds(k, promised') /\ RowsReady(k, promised', assigned')
    BY <2>1, <2>2 DEF PersonHolds, RowsReady
  <2> QED
    BY <2>1, <2>3, <2>4, <2>5 DEF PersonJob
<1> QED
  BY <1>2, <1>5, <1>10, <1>11, <1>12, <1>13, <1>14, PromiseFrom

LEMMA PersonBegins ==
  ASSUME Typed, PromiseInv, NEW h \in Handlers, AdminBegin(h)
  PROVE  PromiseInv'
<1>1. ASSUME NEW op \in StateOps, NEW r \in Suppliers, NEW arg, arg.ref = r, AskSupplier(h, op, r, arg),
             op \notin CustomerWork \cup {"createSupplier"},
             op = "supplierPhone" => arg.phone \in Phones,
             op \in {"assign", "unassign"} => arg.item \in Items
      PROVE  PromiseInv'
  <2>1. FirstAt(op, "entry")
    BY DEF FirstAt, FirstPcs
  <2>2. Sensible(op, arg)
    BY <1>1 DEF Sensible, PhoneWork, CustomerWork
  <2>3. r \in Refs
    BY DEF Refs
  <2> QED
    BY <1>1, <2>1, <2>2, <2>3, BeginPromise DEF AskSupplier
<1>2. ASSUME NEW op \in StateOps, NEW r \in Customers, NEW arg, arg.ref = r, AskCustomer(h, op, r, arg),
             op \in CustomerWork,
             op \in {"customerPhone", "createCustomer"} => arg.phone \in Phones
      PROVE  PromiseInv'
  <2>1. PICK pc : /\ pc = CASE op = "customerPhone" -> "erpPhone"
                            [] op = "regenerateCustomer" -> "stateCodes"
                            [] op = "createCustomer" -> "search"
                            [] OTHER -> "entry"
                  /\ BeginState(h, op, pc, r, arg) /\ UNCHANGED <<stateVars, erpVars>>
    BY <1>2, Zenon DEF AskCustomer
  <2>2. FirstAt(op, pc)
    BY <1>2, <2>1 DEF FirstAt, FirstPcs, CustomerWork, SupplierOps
  <2>3. Sensible(op, arg)
    BY <1>2 DEF Sensible, PhoneWork, CustomerWork, SupplierWork, SupplierOps
  <2>4. r \in Refs
    BY DEF Refs
  <2> QED
    BY <1>2, <2>1, <2>2, <2>3, <2>4, BeginPromise
<1>3. CASE \E op \in {"block", "unblock", "remove", "restore"}, r \in Suppliers :
             AskSupplier(h, op, r, [ref |-> r])
  <2>1. PICK op, r, arg :
          /\ op \in {"block", "unblock", "remove", "restore"} /\ r \in Suppliers
          /\ arg = [ref |-> r] /\ AskSupplier(h, op, r, arg)
    BY <1>3
  <2>2. op \in StateOps /\ arg.ref = r /\ op \notin CustomerWork \cup {"createSupplier"}
    BY <2>1 DEF StateOps, CustomerWork
  <2> QED
    BY <1>1, <2>1, <2>2
<1>4. CASE \E r \in Suppliers : AskSupplier(h, "regenerate", r, [ref |-> r, code |-> None, made |-> None])
  <2>1. PICK r, arg :
          /\ r \in Suppliers
          /\ arg = [ref |-> r, code |-> None, made |-> None] /\ AskSupplier(h, "regenerate", r, arg)
    BY <1>4
  <2>2. "regenerate" \in StateOps /\ arg.ref = r /\ "regenerate" \notin CustomerWork \cup {"createSupplier"}
    BY <2>1 DEF StateOps, CustomerWork
  <2> QED
    BY <1>1, <2>1, <2>2
<1>5. CASE \E r \in Suppliers, p \in Phones : AskSupplier(h, "supplierPhone", r, [ref |-> r, phone |-> p])
  <2>1. PICK r, p, arg :
          /\ r \in Suppliers /\ p \in Phones
          /\ arg = [ref |-> r, phone |-> p] /\ AskSupplier(h, "supplierPhone", r, arg)
    BY <1>5
  <2>2. /\ "supplierPhone" \in StateOps /\ arg.ref = r /\ arg.phone \in Phones
        /\ "supplierPhone" \notin CustomerWork \cup {"createSupplier"}
    BY <2>1 DEF StateOps, CustomerWork
  <2> QED
    BY <1>1, <2>1, <2>2
<1>6. CASE \E op \in {"assign", "unassign"}, r \in Suppliers, i \in Items :
             AskSupplier(h, op, r, [ref |-> r, item |-> i])
  <2>1. PICK op, r, i, arg :
          /\ op \in {"assign", "unassign"} /\ r \in Suppliers /\ i \in Items
          /\ arg = [ref |-> r, item |-> i] /\ AskSupplier(h, op, r, arg)
    BY <1>6
  <2>2. op \in StateOps /\ arg.ref = r /\ arg.item \in Items /\ op \notin CustomerWork \cup {"createSupplier"}
    BY <2>1 DEF StateOps, CustomerWork
  <2> QED
    BY <1>1, <2>1, <2>2
<1>7. CASE \E r \in Suppliers, s \in SUBSET Items : 
             AskSupplier(h, "items", r, [ref |-> r, items |-> s, right |-> {}, add |-> {}, drop |-> {},
                                         item |-> None])
  <2>1. PICK r, s, arg :
          /\ r \in Suppliers /\ s \in SUBSET Items
          /\ arg = [ref |-> r, items |-> s, right |-> {}, add |-> {}, drop |-> {}, item |-> None]
          /\ AskSupplier(h, "items", r, arg)
    BY <1>7
  <2>2. "items" \in StateOps /\ arg.ref = r /\ "items" \notin CustomerWork \cup {"createSupplier"}
    BY <2>1 DEF StateOps, CustomerWork
  <2> QED
    BY <1>1, <2>1, <2>2
<1>8. CASE \E r \in Suppliers \cap Absentees : AskNewSupplier(h, r, FirstPhone)
  <2>1. PICK r, arg :
          /\ r \in Suppliers
          /\ arg = [ref |-> r, phone |-> FirstPhone] /\ BeginState(h, "createSupplier", "post", r, arg)
          /\ UNCHANGED <<stateVars, erpVars>>
    BY <1>8 DEF AskNewSupplier
  <2>2. FirstAt("createSupplier", "post")
    BY DEF FirstAt, FirstPcs, SupplierOps
  <2>3. Sensible("createSupplier", arg)
    BY <2>1, AdminStatesAssumption DEF Sensible, StateOps, CustomerWork
  <2>4. r \in Refs /\ arg.ref = r
    BY <2>1 DEF Refs
  <2> QED
    BY <2>1, <2>2, <2>3, <2>4, BeginPromise
<1>9. CASE \E r \in Customers :
             AskCustomer(h, "regenerateCustomer", r,
                         [ref |-> r, existing |-> {}, made |-> None, code |-> None])
  <2>1. PICK r, arg :
          /\ r \in Customers
          /\ arg = [ref |-> r, existing |-> {}, made |-> None, code |-> None]
          /\ AskCustomer(h, "regenerateCustomer", r, arg)
    BY <1>9
  <2>2. "regenerateCustomer" \in StateOps /\ arg.ref = r /\ "regenerateCustomer" \in CustomerWork
    BY <2>1 DEF StateOps, CustomerWork
  <2> QED
    BY <1>2, <2>1, <2>2
<1>10. CASE \E r \in Customers : AskCustomer(h, "removeCustomer", r, [ref |-> r])
  <2>1. PICK r, arg :
          /\ r \in Customers
          /\ arg = [ref |-> r] /\ AskCustomer(h, "removeCustomer", r, arg)
    BY <1>10
  <2>2. "removeCustomer" \in StateOps /\ arg.ref = r /\ "removeCustomer" \in CustomerWork
    BY <2>1 DEF StateOps, CustomerWork
  <2> QED
    BY <1>2, <2>1, <2>2
<1>11. CASE \E op \in {"customerPhone", "createCustomer"}, r \in Customers, p \in Phones :
              AskCustomer(h, op, r, [ref |-> r, phone |-> p])
  <2>1. PICK op, r, p, arg :
          /\ op \in {"customerPhone", "createCustomer"} /\ r \in Customers /\ p \in Phones
          /\ arg = [ref |-> r, phone |-> p] /\ AskCustomer(h, op, r, arg)
    BY <1>11
  <2>2. op \in StateOps /\ arg.ref = r /\ arg.phone \in Phones /\ op \in CustomerWork
    BY <2>1 DEF StateOps, CustomerWork
  <2> QED
    BY <1>2, <2>1, <2>2
<1>12. CASE \E op \in {"assignCustomer", "unassignCustomer"}, r \in Customers, i \in Items :
              AskCustomer(h, op, r, [ref |-> r, item |-> i])
  <2>1. PICK op, r, i, arg :
          /\ op \in {"assignCustomer", "unassignCustomer"} /\ r \in Customers /\ i \in Items
          /\ arg = [ref |-> r, item |-> i] /\ AskCustomer(h, op, r, arg)
    BY <1>12
  <2>2. op \in StateOps /\ arg.ref = r /\ op \in CustomerWork
    BY <2>1 DEF StateOps, CustomerWork
  <2> QED
    BY <1>2, <2>1, <2>2
<1>13. CASE \E r \in Parties : AskLogin(h, r)
  <2>1. PICK r, arg : Begin(h, "login", "find", {h}, arg) /\ UNCHANGED adminVars
    BY <1>13 DEF AskLogin
  <2>2. Lands(h, {"find"})
    BY <2>1, LandsFirst DEF Leads
  <2>3. {"find"} \cap StatePcs = {}
    BY DEF StatePcs, AdminWaits
  <2> QED
    BY <2>1, <2>2, <2>3, ElsewherePromise
<1> QED
  BY <1>3, <1>4, <1>5, <1>6, <1>7, <1>8, <1>9, <1>10, <1>11, <1>12, <1>13, Zenon DEF AdminBegin

LEMMA KeeperBegins ==
  ASSUME Typed, PromiseInv, NEW h \in Handlers, AskWerkaCode(h)
  PROVE  PromiseInv'
<1>1. PICK arg : /\ arg = [ref |-> Keeper, code |-> None, made |-> None]
                 /\ Begin(h, "regenerateWerka", "werkaState", SettingsKeys, arg)
  BY DEF AskWerkaCode
<1>2. OthersKept(h) /\ jobs'[h] = NewJob(h, "regenerateWerka", "werkaState", SettingsKeys, arg) /\ UNCHANGED mix
  BY <1>1, Begins
<1>3. PeopleKept
  BY <1>2 DEF AskWerkaCode, PeopleKept
<1>4. PICK k : k = jobs'[h] /\ k.op = "regenerateWerka" /\ k.pc = "werkaState" /\ k.arg = arg
  BY <1>2, NewJobIs
<1>5. PersonAsks("regenerateWerka", arg, promised)
  BY DEF PersonAsks, SupplierWork, SupplierOps, CustomerWork, PhoneWork, Untouched, CustomerChanges
<1>6. PersonAt("regenerateWerka", "werkaState", arg.ref, promised, parties)
  BY DEF PersonAt, SupplierOps, WritePcs
<1>7. PersonHolds(k, promised) /\ RowsReady(k, promised, assigned)
  BY <1>4 DEF PersonHolds, RowsReady, HeldPcs, WritePcs
<1>8. PersonJob(k, promised, parties, assigned)
  BY <1>4, <1>5, <1>6, <1>7 DEF PersonJob
<1> QED
  BY <1>2, <1>3, <1>4, <1>8, PromiseQuiet

-----------------------------------------------------------------------------
(***************************************************************************)
(* What is written is confirmed.                                           *)
(***************************************************************************)
LEMMA GoalSame ==
  ASSUME NEW j, Asks(j), j.op \notin SupplierWork
  PROVE  Goal(j, promised) = promised[j.arg.ref]
<1>1. PICK p, w : p = promised[j.arg.ref] /\ w = Wish(p, j.op, j.arg)
  OBVIOUS
<1>2. w = p
  BY <1>1, SameWish DEF Asks
<1> QED
  BY <1>1, <1>2 DEF Goal

LEMMA GoalTyped ==
  ASSUME PromiseInv, NEW j, Asks(j), NEW r, r = j.arg.ref, NEW q, q = Goal(j, promised)
  PROVE  /\ IsPromise(q) /\ (r \notin Suppliers => q = NoPromise)
         /\ \A rows : Rows(r, promised[r], rows) /\ (j.alone => Rows(r, q, rows)) => Rows(r, q, rows)
<1>1. PICK p, w : p = promised[r] /\ w = Wish(p, j.op, j.arg)
  OBVIOUS
<1>2. IsPromise(p) /\ WishOf(w, p, j.op, j.arg) /\ q = (IF j.alone THEN w ELSE p)
  BY <1>1, GoalIs DEF Asks
<1>3. r \notin Suppliers => q = NoPromise
  <2>1. r \notin Suppliers => j.op \notin SupplierWork
    BY DEF Asks, PersonAsks
  <2>2. r \notin Suppliers => p = NoPromise
    BY <1>1 DEF Asks, PromiseInv, Told
  <2> QED
    BY <1>1, <2>1, <2>2, GoalSame
<1>4. IsPromise(q)
  BY <1>2 DEF WishOf
<1>5. \A rows : Rows(r, p, rows) /\ (j.alone => Rows(r, q, rows)) => Rows(r, q, rows)
  BY <1>2
<1> QED
  BY <1>1, <1>3, <1>4, <1>5

Tells(h) ==
  LET r == jobs[h].arg.ref IN
  promised' = [x \in Refs |-> IF x = r THEN Goal(jobs[h], promised) ELSE promised[x]]

LEMMA ConfirmTells ==
  ASSUME PromiseInv, NEW h \in Handlers, jobs[h].arg.ref \in Refs, Asks(jobs[h]),
         Confirm(h) \/ (promised' = promised /\ jobs[h].op \notin SupplierWork)
  PROVE  Tells(h)
<1>1. PICK j, r, w : j = jobs[h] /\ r = j.arg.ref /\ w = Wish(promised[r], j.op, j.arg)
  OBVIOUS
<1>2. promised = [x \in Refs |-> promised[x]]
  BY DEF PromiseInv, Told
<1>3. Goal(j, promised) = IF j.alone THEN w ELSE promised[r]
  BY <1>1 DEF Goal
<1>4. CASE Confirm(h)
  <2>1. promised' = IF j.alone THEN [promised EXCEPT ![r] = w] ELSE promised
    BY <1>1, <1>4, Zenon DEF Confirm, Wish
  <2> QED
    BY <1>1, <1>2, <1>3, <2>1 DEF Tells
<1>5. CASE promised' = promised /\ jobs[h].op \notin SupplierWork
  <2>1. Goal(j, promised) = promised[r]
    BY <1>1, <1>5, GoalSame
  <2> QED
    BY <1>1, <1>2, <1>5, <2>1 DEF Tells
<1> QED
  BY <1>4, <1>5

LEMMA TellsPromise ==
  ASSUME Typed, Alone, PromiseInv, NEW h \in Handlers, Working(h), jobs[h].pc \in StatePcs,
         OthersKept(h), UNCHANGED assigned, Tells(h),
         \A x \in Refs : Fulfils(x, promised'[x], StateFor(x)'),
         jobs[h].alone => Rows(jobs[h].arg.ref, Goal(jobs[h], promised), assigned),
         parties' \in [Parties -> PartyRecords \cup {None}],
         \A x \in Parties : parties[x] # None => parties'[x] # None,
         \A x \in Parties : PartyHeld(x)',
         Working(h)' => PersonJob(jobs'[h], promised', parties', assigned')
  PROVE  PromiseInv'
<1>1. PICK j, r, p, q : /\ j = jobs[h] /\ r = j.arg.ref /\ p = promised[r] /\ q = Goal(j, promised)
                        /\ promised' = [x \in Refs |-> IF x = r THEN q ELSE promised[x]]
  BY DEF Tells
<1>2. Asks(j) /\ r \in Refs
  BY <1>1, AsksIs DEF Asks
<1>3. IsPromise(q) /\ (r \notin Suppliers => q = NoPromise)
  BY <1>1, <1>2, GoalTyped
<1>4. \A x \in Refs : IsPromise(promised[x]) /\ (x \notin Suppliers => promised[x] = NoPromise)
  BY DEF PromiseInv, Told
<1>5. Told'
  <2>1. promised' = [x \in Refs |-> promised'[x]]
    BY <1>1
  <2>2. \A x \in Refs : IsPromise(promised'[x]) /\ (x \notin Suppliers => promised'[x] = NoPromise)
    BY <1>1, <1>3, <1>4
  <2> QED
    BY <2>1, <2>2 DEF Told
<1>6. ASSUME NEW x \in Refs PROVE Rows(x, promised'[x], assigned')
  <2>1. Rows(x, promised[x], assigned)
    BY KeptIs
  <2>2. CASE x = r
    <3>1. Rows(r, q, assigned)
      BY <1>1, <1>2, <2>1, <2>2, GoalTyped
    <3> QED
      BY <1>1, <2>2, <3>1
  <2>3. CASE x # r
    BY <1>1, <2>1, <2>3
  <2> QED
    BY <2>2, <2>3
<1>7. KeptAll'
  BY <1>6 DEF KeptAll
<1>8. ~j.alone => q = p
  BY <1>1 DEF Goal
<1>9. ASSUME NEW g \in Handlers \ {h}, Working(g), jobs[g].pc \in StatePcs PROVE Spared(jobs[g])
  <2>1. jobs[g].arg.ref \in Refs /\ CopyTyped(jobs[g].pc, jobs[g].copy)
    BY <1>9, StateJobIs
  <2>2. \A x : Less(promised[x], promised[x])
    BY LessSelf
  <2>3. CASE j.alone
    <3>1. jobs[g].arg.ref # r /\ Lmdb
      BY <1>1, <1>9, <2>3, AloneOnRef
    <3>2. jobs[g].pc # "write"
      BY <2>1, <3>1 DEF CopyTyped
    <3>3. Smaller(jobs[g].arg.ref)
      BY <1>1, <2>1, <2>2, <3>1 DEF Smaller
    <3> QED
      BY <3>2, <3>3 DEF Spared
  <2>4. CASE ~j.alone
    <3>1. \A x \in Refs : Smaller(x)
      BY <1>1, <1>8, <2>2, <2>4 DEF Smaller
    <3> QED
      BY <2>1, <3>1 DEF Spared
  <2> QED
    BY <2>3, <2>4
<1> QED
  BY <1>5, <1>7, <1>9, PromiseFrom

\* Only a change of the phone changes what is said of it.
LEMMA TellsParties ==
  ASSUME Typed, PromiseInv, NEW h \in Handlers, Working(h), jobs[h].pc \in StatePcs, Tells(h),
         UNCHANGED parties, jobs[h].op # "supplierPhone",
         jobs[h].op \in SupplierWork => parties[jobs[h].arg.ref] # None
  PROVE  \A x \in Parties : PartyHeld(x)'
<1>1. PICK j, r, p, q : /\ j = jobs[h] /\ r = j.arg.ref /\ p = promised[r] /\ q = Goal(j, promised)
                        /\ promised' = [x \in Refs |-> IF x = r THEN q ELSE promised[x]]
  BY DEF Tells
<1>2. Asks(j) /\ r \in Refs
  BY <1>1, AsksIs DEF Asks
<1>3. PICK w : WishOf(w, p, j.op, j.arg) /\ q = (IF j.alone THEN w ELSE p)
  BY <1>1, <1>2, GoalIs
<1>4. q.phone = p.phone
  BY <1>1, <1>2, <1>3 DEF WishOf, Asks, Untouched
<1>5. parties[r] = None => q = p
  BY <1>1, <1>2, GoalSame
<1>6. ASSUME NEW x \in Parties PROVE PartyHeld(x)'
  <2>1. PartyHeld(x) /\ x \in Refs
    BY DEF PromiseInv, Parties, Refs
  <2>2. PICK new : new = promised'[x] /\ new.phone = promised[x].phone
                   /\ (parties[x] = None => new = promised[x])
    BY <1>1, <1>4, <1>5, <2>1
  <2> QED
    BY <2>1, <2>2 DEF PartyHeld, PhoneOf
<1> QED
  BY <1>6

LEMMA StoredTells ==
  ASSUME Typed, PromiseInv, NEW h \in Handlers, Working(h), jobs[h].pc \in {"put", "write"}, Stored(h)
  PROVE  /\ Tells(h) /\ OthersKept(h) /\ UNCHANGED mix
         /\ Working(h)' => PersonJob(jobs'[h], promised', parties, assigned)
<1>1. jobs[h].pc \in StatePcs
  BY DEF StatePcs, AdminWaits
<1>2. PICK j, op, r : j = jobs[h] /\ op = j.op /\ r = j.arg.ref
  OBVIOUS
<1>3. r \in Refs /\ PersonAsks(op, j.arg, promised) /\ PersonAt(op, j.pc, r, promised, parties)
      /\ Asks(jobs[h])
  BY <1>1, <1>2, AsksIs DEF Asks
<1>4. CASE op = "regenerateCustomer"
  <2>1. Go(h, "erpCode") /\ promised' = promised
    BY <1>2, <1>4 DEF Stored
  <2>2. PICK k : k = Moved(j, "erpCode", j.arg, j.copy, j.phase)
    OBVIOUS
  <2>3. Continue(h, k) /\ k.op = op /\ k.pc = "erpCode" /\ k.arg = j.arg
    BY <1>2, <2>1, <2>2, Goes, MovedIs
  <2>4. OthersKept(h) /\ jobs'[h] = k /\ UNCHANGED mix
    BY <2>3, Continues
  <2>5. Tells(h)
    <3>1. op \notin SupplierWork
      BY <1>4 DEF SupplierWork, SupplierOps
    <3> QED
      BY <1>2, <1>3, <2>1, <3>1, ConfirmTells
  <2>6. PersonAt(op, "erpCode", r, promised, parties)
    BY <1>2, <1>3, <1>4 DEF PersonAt, WritePcs
  <2>7. PersonHolds(k, promised) /\ RowsReady(k, promised, assigned)
    BY <2>3 DEF PersonHolds, RowsReady, HeldPcs, WritePcs
  <2>8. PersonJob(k, promised', parties, assigned)
    BY <1>2, <1>3, <2>1, <2>3, <2>6, <2>7 DEF PersonJob
  <2> QED
    BY <2>4, <2>5, <2>8
<1>5. CASE op = "regenerateWerka"
  <2>1. Go(h, "config") /\ promised' = promised
    BY <1>2, <1>5 DEF Stored
  <2>2. Lands(h, {"config"})
    BY <2>1, LandsAt DEF Leads
  <2>3. OthersKept(h) /\ UNCHANGED mix /\ (Working(h)' => jobs'[h].pc = "config")
    BY <2>2 DEF Lands
  <2>4. Tells(h)
    <3>1. op \notin SupplierWork
      BY <1>5 DEF SupplierWork, SupplierOps
    <3> QED
      BY <1>2, <1>3, <2>1, <3>1, ConfirmTells
  <2>5. "config" \notin StatePcs
    BY DEF StatePcs, AdminWaits
  <2> QED
    BY <2>3, <2>4, <2>5 DEF PersonJob
<1>6. CASE op \notin {"regenerateCustomer", "regenerateWerka"}
  <2>1. Confirm(h)
    BY <1>2, <1>6 DEF Stored
  <2>2. Tells(h)
    <3>1. Confirm(h) \/ (promised' = promised /\ jobs[h].op \notin SupplierWork)
      BY <2>1
    <3>2. jobs[h].arg.ref \in Refs /\ Asks(jobs[h])
      BY <1>2, <1>3
    <3> QED
      BY <3>1, <3>2, ConfirmTells
  <2>3. Finish(h)
    BY <2>1 DEF Confirm
  <2>4. Lands(h, {}) /\ ~Working(h)'
    BY <2>3, LandsIdle DEF Leads
  <2> QED
    BY <2>2, <2>4 DEF Lands
<1> QED
  BY <1>4, <1>5, <1>6

LEMMA StoresPromise ==
  ASSUME Typed, Alone, PromiseInv, NEW h \in Handlers, Working(h), jobs[h].pc \in {"put", "write"}, Stored(h),
         UNCHANGED <<parties, assigned>>,
         \A x \in Refs : Fulfils(x, IF x = jobs[h].arg.ref THEN Goal(jobs[h], promised) ELSE promised[x],
                                 StateFor(x)')
  PROVE  PromiseInv'
<1>1. jobs[h].pc \in StatePcs /\ jobs[h].pc \in WritePcs /\ jobs[h].pc \notin {"entry", "stateCodes"}
  BY DEF StatePcs, AdminWaits, WritePcs
<1>2. Tells(h) /\ OthersKept(h) /\ (Working(h)' => PersonJob(jobs'[h], promised', parties', assigned'))
  BY StoredTells
<1>3. PICK j, op, r : j = jobs[h] /\ op = j.op /\ r = j.arg.ref
  OBVIOUS
<1>4. r \in Refs /\ PersonAt(op, j.pc, r, promised, parties) /\ RowsReady(j, promised, assigned)
  BY <1>1, <1>3, AsksIs DEF Asks
<1>5. op # "supplierPhone" /\ (op \in SupplierWork => parties[r] # None)
  BY <1>1, <1>3, <1>4 DEF PersonAt, SupplierWork
<1>6. \A x \in Parties : PartyHeld(x)'
  BY <1>1, <1>2, <1>3, <1>5, TellsParties
<1>7. \A x \in Refs : Fulfils(x, promised'[x], StateFor(x)')
  BY <1>2 DEF Tells
<1>8. j.alone => Rows(r, Goal(j, promised), assigned)
  BY <1>1, <1>3, <1>4 DEF RowsReady
<1>9. parties' \in [Parties -> PartyRecords \cup {None}]
  BY DEF PromiseInv, Told
<1> QED
  BY <1>1, <1>2, <1>3, <1>6, <1>7, <1>8, <1>9, TellsPromise

LEMMA PutPromise ==
  ASSUME Typed, Alone, PromiseInv, NEW h \in Handlers, PutState(h)
  PROVE  PromiseInv'
<1>1. PICK j, r, q, s : j = jobs[h] /\ r = j.arg.ref /\ q = Goal(j, promised) /\ s = j.copy
  OBVIOUS
<1>2. Working(h) /\ j.pc = "put" /\ UNCHANGED <<oldStates, parties, assigned>>
  BY <1>1 DEF PutState, At, erpVars
<1>3. jobs[h].pc \in StatePcs /\ "put" \in HeldPcs /\ "put" \in WritePcs
  BY <1>1, <1>2 DEF StatePcs, AdminWaits, HeldPcs, WritePcs
<1>4. Asks(j)
  BY <1>1, <1>2, <1>3, AsksIs
<1>5. /\ r \in Refs /\ s \in StateRecords /\ s # None /\ Fulfils(r, q, s)
      /\ PersonAsks(j.op, j.arg, promised) /\ PersonAt(j.op, "put", r, promised, parties)
      /\ RowsReady(j, promised, assigned)
  BY <1>1, <1>2, <1>3, <1>4, StatesAssumption DEF Asks, PersonHolds, CopyTyped
<1>6. states \in [Refs -> StateRecords \cup {None}]
  BY DEF Typed, AdminTyped
<1>7. \A x \in Refs : Fulfils(x, promised[x], StateFor(x))
  BY KeptIs
<1>8. CASE Lmdb
  <2>1. states' = [Migrated EXCEPT ![r] = s] /\ Stored(h)
    BY <1>1, <1>8 DEF PutState, Ref
  <2>2. UNCHANGED mix
    BY <1>1, <1>2, <2>1, StoredTells
  <2>3. Lmdb'
    BY <1>8, <2>2 DEF Lmdb
  <2>4. \A x \in Refs : states'[x] = IF x = r THEN s ELSE Migrated[x]
    BY <2>1 DEF Migrated
  <2>5. \A x \in Refs : Migrated'[x] = IF states'[x] = None THEN oldStates[x] ELSE states'[x]
    BY <1>2, <2>3 DEF Migrated
  <2>6. \A x \in Refs : Migrated[x] = IF states[x] = None THEN oldStates[x] ELSE states[x]
    BY <1>8 DEF Migrated
  <2>7. \A x \in Refs : Migrated'[x] = IF x = r THEN s ELSE Migrated[x]
    BY <1>5, <2>4, <2>5, <2>6
  <2>8. \A x \in Refs : StateFor(x)' = IF x = r THEN s ELSE StateFor(x)
    BY <1>5, <2>7 DEF StateFor
  <2>9. \A x \in Refs : Fulfils(x, IF x = r THEN q ELSE promised[x], StateFor(x)')
    BY <1>5, <1>7, <2>8
  <2> QED
    BY <1>1, <1>2, <2>1, <2>9, StoresPromise
<1>9. CASE ~Lmdb
  <2>1. PICK all, k : /\ all = [states EXCEPT ![r] = s] /\ k = [j EXCEPT !.pc = "write", !.copy = all]
                      /\ Continue(h, k) /\ UNCHANGED <<states, promised>>
    BY <1>1, <1>9 DEF PutState, Ref
  <2>2. k = Moved(j, "write", j.arg, all, j.phase)
    <3>1. IsJob(j)
      BY <1>1, <1>2, JobOf
    <3> QED
      BY <2>1, <3>1 DEF IsJob, Moved
  <2>3. k.op = j.op /\ k.pc = "write" /\ k.arg = j.arg /\ k.copy = all /\ k.alone = j.alone
    BY <2>2, MovedIs
  <2>4. PeopleKept
    BY <1>2, <2>1 DEF Continue, PeopleKept
  <2>5. \A x \in Refs : StateFor(x) = AsState(states[x])
    BY <1>9 DEF StateFor, Migrated, AsState
  <2>6. \A x \in Refs : AsState(all[x]) = IF x = r THEN s ELSE StateFor(x)
    BY <1>5, <1>6, <2>1, <2>5 DEF AsState
  <2>7. Goal(k, promised) = q
    BY <1>1, <2>3 DEF Goal
  <2>8. PersonHolds(k, promised)
    <3>1. \A x \in Refs : Fulfils(x, IF x = r THEN q ELSE promised[x], AsState(all[x]))
      BY <1>5, <1>7, <2>6
    <3> QED
      BY <1>1, <2>3, <2>7, <3>1 DEF PersonHolds, HeldPcs
  <2>9. RowsReady(k, promised, assigned)
    <3>1. j.alone => Rows(r, q, assigned)
      BY <1>1, <1>2, <1>3, <1>5 DEF RowsReady
    <3> QED
      BY <1>1, <2>3, <2>7, <3>1 DEF RowsReady
  <2>10. PersonAt(j.op, "write", r, promised, parties)
    BY <1>5 DEF PersonAt, WritePcs
  <2> QED
    BY <1>1, <1>2, <1>5, <2>1, <2>2, <2>4, <2>8, <2>9, <2>10, PersonMoves
<1> QED
  BY <1>8, <1>9

LEMMA WritePromise ==
  ASSUME Typed, Alone, PromiseInv, NEW h \in Handlers, WriteFile(h)
  PROVE  PromiseInv'
<1>1. PICK j, r, q, all : j = jobs[h] /\ r = j.arg.ref /\ q = Goal(j, promised) /\ all = j.copy
  OBVIOUS
<1>2. /\ Working(h) /\ j.pc = "write" /\ UNCHANGED <<oldStates, parties, assigned>>
      /\ states' = all /\ Stored(h)
  BY <1>1 DEF WriteFile, At, erpVars
<1>3. jobs[h].pc \in StatePcs
  BY <1>1, <1>2 DEF StatePcs, AdminWaits
<1>4. Asks(j)
  BY <1>1, <1>2, <1>3, AsksIs
<1>5. ~Lmdb /\ \A x \in Refs : Fulfils(x, IF x = r THEN q ELSE promised[x], AsState(all[x]))
  BY <1>1, <1>2, <1>4 DEF Asks, PersonHolds, CopyTyped
<1>6. UNCHANGED mix
  BY <1>1, <1>2, StoredTells
<1>7. ~Lmdb'
  BY <1>5, <1>6 DEF Lmdb
<1>8. \A x \in Refs : StateFor(x)' = AsState(all[x])
  BY <1>2, <1>7 DEF StateFor, Migrated, AsState
<1>9. \A x \in Refs : Fulfils(x, IF x = r THEN q ELSE promised[x], StateFor(x)')
  BY <1>5, <1>8
<1> QED
  BY <1>1, <1>2, <1>9, StoresPromise

\* The state of a supplier is read again, to be written with the change.
LEMMA RestatedFulfils ==
  ASSUME NEW s \in StateRecords, NEW r, NEW p, Fulfils(r, p, s), NEW j, NEW op, op = j.op, NEW w,
         WishOf(w, p, op, j.arg), op \in {"assign", "unassign", "items", "createSupplier"},
         op \in {"assign", "unassign"} => j.arg.item \in Items,
         op = "items" => j.arg.items \in SUBSET Items, op = "createSupplier" => p.blocked = None
  PROVE  Fulfils(r, w, Restated(j, s))
<1>1. PICK t : t = Restated(j, s)
  OBVIOUS
<1>2. CASE op = "createSupplier"
  <2>1. t.removed = FALSE /\ t.blocked = FALSE /\ t.code = s.code /\ t.items = s.items
    BY <1>1, <1>2 DEF Restated, StateRecords
  <2>2. /\ w.removed = FALSE /\ w.blocked = None /\ w.code = p.code
        /\ \A i \in Items : w.items[i] = p.items[i]
    BY <1>2 DEF WishOf, CustomerChanges
  <2> QED
    BY <1>1, <2>1, <2>2, StatesAssumption DEF Fulfils, SupplierCode
<1>3. CASE op # "createSupplier"
  <2>1. /\ t.removed = s.removed /\ t.blocked = s.blocked /\ t.code = s.code
        /\ t.items = CASE op = "assign" -> s.items \cup {j.arg.item}
                       [] op = "unassign" -> s.items \ {j.arg.item}
                       [] op = "items" -> j.arg.items
    BY <1>1, <1>3 DEF Restated, StateRecords
  <2>2. w.removed = p.removed /\ w.blocked = p.blocked /\ w.code = p.code
    BY <1>3 DEF WishOf, CustomerChanges
  <2>3. ASSUME NEW i \in Items, w.items[i] # None PROVE (i \in t.items) = w.items[i]
    <3>1. CASE op = "items"
      <4>1. w.items[i] = (i \in j.arg.items) /\ t.items = j.arg.items
        BY <2>1, <2>3, <3>1 DEF WishOf
      <4> QED
        BY <4>1
    <3>2. CASE op \in {"assign", "unassign"} /\ i = j.arg.item
      <4>1. w.items[i] = (op = "assign")
        BY <2>3, <3>2 DEF WishOf
      <4>2. i \in t.items <=> op = "assign"
        BY <2>1, <3>2
      <4> QED
        BY <4>1, <4>2
    <3>3. CASE op \in {"assign", "unassign"} /\ i # j.arg.item
      <4>1. w.items[i] = p.items[i]
        BY <2>3, <3>3 DEF WishOf
      <4>2. i \in t.items <=> i \in s.items
        BY <2>1, <3>3
      <4>3. (i \in s.items) = p.items[i]
        BY <2>3, <4>1 DEF Fulfils
      <4> QED
        BY <4>1, <4>2, <4>3
    <3> QED
      BY <1>3, <3>1, <3>2, <3>3
  <2>4. Fulfils(r, w, t)
    BY <2>1, <2>2, <2>3 DEF Fulfils, SupplierCode
  <2> QED
    BY <1>1, <2>4
<1> QED
  BY <1>2, <1>3

LEMMA RestatePromise ==
  ASSUME Typed, Alone, PromiseInv, NEW h \in Handlers, Restate(h)
  PROVE  PromiseInv'
<1>1. PICK j, op, r, s, p, w :
        /\ j = jobs[h] /\ op = j.op /\ r = j.arg.ref /\ s = StateFor(r) /\ p = promised[r]
        /\ w = Wish(p, op, j.arg)
  OBVIOUS
<1>2. Working(h) /\ j.pc = "restate" /\ UNCHANGED <<states, oldStates, parties, assigned>>
  BY <1>1 DEF Restate, At, stateVars, erpVars
<1>3. jobs[h].pc \in StatePcs /\ "restate" \in WritePcs
  BY <1>1, <1>2 DEF StatePcs, AdminWaits, WritePcs
<1>4. Asks(j)
  BY <1>1, <1>2, <1>3, AsksIs
<1>5. /\ op \in {"assign", "unassign", "items", "createSupplier"} /\ r \in Refs
      /\ PersonAsks(op, j.arg, promised) /\ PersonAt(op, "restate", r, promised, parties)
      /\ RowsReady(j, promised, assigned)
  BY <1>1, <1>2, <1>4 DEF Asks, OpsAt
<1>6. /\ op \in {"assign", "unassign"} => j.arg.item \in Items
      /\ op = "items" => j.arg.items \in SUBSET Items
  BY <1>1, <1>4 DEF Asks, ArgTyped, ItemsArg
<1>7. WishOf(w, p, op, j.arg) /\ Goal(j, promised) = (IF j.alone THEN w ELSE p) /\ Less(p, w)
  BY <1>1, <1>4, GoalIs
<1>8. s \in StateRecords /\ Fulfils(r, p, s)
  BY <1>1, <1>5, KeptIs
<1>9. j.alone => Rows(r, w, assigned)
  BY <1>1, <1>2, <1>3, <1>5, <1>7 DEF RowsReady
<1>10. op = "createSupplier" => p.blocked = None
  BY <1>1, <1>3, <1>5 DEF PersonAt
<1>11. CASE op = "createSupplier" /\ ~s.removed
  <2>1. Confirm(h)
    BY <1>1, <1>11 DEF Restate, Ref
  <2>2. Tells(h)
    BY <1>1, <1>4, <1>5, <2>1, ConfirmTells
  <2>3. Finish(h)
    BY <2>1 DEF Confirm
  <2>4. OthersKept(h) /\ UNCHANGED mix /\ ~Working(h)'
    BY <2>3, LandsIdle DEF Leads, Lands
  <2>5. \A x : StateFor(x)' = StateFor(x)
    BY <1>2, <2>4 DEF StateFor, Migrated, Lmdb
  <2>6. Fulfils(r, w, s)
    <3>1. w.removed = FALSE /\ w.blocked = p.blocked /\ w.code = p.code /\ \A i \in Items : w.items[i] = p.items[i]
      BY <1>7, <1>11 DEF WishOf, CustomerChanges
    <3>2. s.removed = FALSE
      BY <1>8, <1>11 DEF StateRecords
    <3> QED
      BY <1>8, <3>1, <3>2 DEF Fulfils
  <2>7. \A x \in Refs : Fulfils(x, promised'[x], StateFor(x)')
    <3>1. \A x \in Refs : promised'[x] = IF x = r THEN Goal(j, promised) ELSE promised[x]
      BY <1>1, <2>2 DEF Tells
    <3> QED
      BY <1>1, <1>7, <1>8, <2>5, <2>6, <3>1, KeptIs
  <2>8. \A x \in Parties : PartyHeld(x)'
    <3>1. parties[r] # None
      BY <1>3, <1>5, <1>11 DEF PersonAt
    <3> QED
      BY <1>1, <1>2, <1>3, <1>11, <2>2, <3>1, TellsParties
  <2>9. jobs[h].alone => Rows(jobs[h].arg.ref, Goal(jobs[h], promised), assigned)
    BY <1>1, <1>7, <1>9
  <2>10. parties' \in [Parties -> PartyRecords \cup {None}]
    BY <1>2 DEF PromiseInv, Told
  <2> QED
    BY <1>1, <1>2, <1>3, <2>2, <2>4, <2>7, <2>8, <2>9, <2>10, TellsPromise
<1>12. CASE ~(op = "createSupplier" /\ ~s.removed)
  <2>1. PICK t : t = Restated(j, s) /\ GoWith(h, "put", t) /\ promised' = promised
    BY <1>1, <1>12 DEF Restate, Ref
  <2>2. Continue(h, Moved(jobs[h], "put", j.arg, t, j.phase))
    BY <1>1, <1>2, <2>1, Goes
  <2>3. PeopleKept
    BY <1>2, <2>1, <2>2 DEF Continue, PeopleKept
  <2>4. Fulfils(r, w, t)
    BY <1>1, <1>5, <1>6, <1>7, <1>8, <1>10, <2>1, RestatedFulfils
  <2>5. PersonAt(op, "put", r, promised, parties)
    BY <1>5 DEF PersonAt, WritePcs
  <2> QED
    BY <1>1, <1>2, <1>3, <1>5, <1>6, <1>9, <2>2, <2>3, <2>4, <2>5, PersonPuts
<1> QED
  BY <1>11, <1>12

-----------------------------------------------------------------------------
(***************************************************************************)
(* What ERPNext keeps of a person changes.                                 *)
(***************************************************************************)
PhoneIn(record) ==
  IF record.mobile # None THEN record.mobile
  ELSE IF record.details.kind = "phone" THEN record.details.value ELSE None

LEMMA PartyPromise ==
  ASSUME Typed, Alone, PromiseInv, NEW h \in Handlers, Working(h), jobs[h].pc \in StatePcs, OthersKept(h),
         UNCHANGED <<mix, states, oldStates, assigned>>, NEW r \in Parties, r = jobs[h].arg.ref,
         NEW new \in PartyRecords, parties' = [parties EXCEPT ![r] = new],
         promised' = promised \/ (Tells(h) /\ jobs[h].op = "supplierPhone"),
         promised'[r].phone # None => PhoneIn(new) = promised'[r].phone,
         Working(h)' => PersonJob(jobs'[h], promised', parties', assigned')
  PROVE  PromiseInv'
<1>1. parties \in [Parties -> PartyRecords \cup {None}] /\ new # None
  BY StatesAssumption DEF PromiseInv, Told
<1>2. /\ parties' \in [Parties -> PartyRecords \cup {None}] /\ parties'[r] = new
      /\ \A x \in Parties \ {r} : parties'[x] = parties[x]
  BY <1>1
<1>3. \A x \in Parties : parties[x] # None => parties'[x] # None
  BY <1>1, <1>2
<1>4. \A x : StateFor(x)' = StateFor(x)
  BY DEF StateFor, Migrated, Lmdb
<1>5. PartyHeld(r)'
  <2>1. PhoneOf(r)' = PhoneIn(new)
    BY <1>2 DEF PhoneOf, PhoneIn
  <2> QED
    BY <1>1, <1>2, <2>1 DEF PartyHeld
<1>6. \A x \in Parties \ {r} : promised'[x] = promised[x]
  BY DEF Tells, Parties, Refs
<1>7. ASSUME NEW x \in Parties PROVE PartyHeld(x)'
  <2>1. CASE x = r
    BY <1>5, <2>1
  <2>2. CASE x # r
    <3>1. PartyHeld(x)
      BY DEF PromiseInv
    <3> QED
      BY <1>2, <1>6, <2>2, <3>1 DEF PartyHeld, PhoneOf
  <2> QED
    BY <2>1, <2>2
<1>8. CASE promised' = promised
  <2>1. Told'
    BY <1>2, <1>8 DEF PromiseInv, Told
  <2>2. KeptAll'
    BY <1>4, <1>8 DEF PromiseInv, KeptAll
  <2>3. \A g \in Handlers \ {h} : Spared(jobs[g])
    BY <1>8, LessSelf DEF Spared, Smaller
  <2> QED
    BY <1>3, <1>7, <2>1, <2>2, <2>3, PromiseFrom
<1>9. CASE Tells(h) /\ jobs[h].op = "supplierPhone"
  <2>1. PICK j, p, q : j = jobs[h] /\ p = promised[r] /\ q = Goal(j, promised)
    OBVIOUS
  <2>2. PICK w : WishOf(w, p, "supplierPhone", j.arg) /\ q = (IF j.alone THEN w ELSE p)
    BY <1>9, <2>1, AsksIs, GoalIs
  <2>3. /\ q.blocked = p.blocked /\ q.removed = p.removed /\ q.code = p.code
        /\ \A i \in Items : q.items[i] = p.items[i] /\ q.rows[i] = p.rows[i]
    BY <2>2 DEF WishOf, CustomerChanges
  <2>4. ASSUME NEW x \in Refs PROVE Fulfils(x, promised'[x], StateFor(x)')
    <3>1. Fulfils(x, promised[x], StateFor(x))
      BY KeptIs
    <3>2. CASE x # r
      BY <1>4, <1>9, <3>1, <3>2 DEF Tells
    <3>3. CASE x = r
      <4>1. promised'[x] = q
        BY <1>9, <2>1, <3>3 DEF Tells
      <4> QED
        BY <1>4, <2>1, <2>3, <3>1, <3>3, <4>1 DEF Fulfils
    <3> QED
      BY <3>2, <3>3
  <2>5. Rows(r, q, assigned)
    <3>1. Rows(r, p, assigned)
      BY <2>1, KeptIs DEF Parties, Refs
    <3> QED
      BY <2>3, <3>1 DEF Rows
  <2> QED
    BY <1>2, <1>3, <1>7, <1>9, <2>1, <2>4, <2>5, TellsPromise
<1> QED
  BY <1>8, <1>9

LEMMA CodeLinePromise ==
  ASSUME Typed, Alone, PromiseInv, NEW h \in Handlers, UpdateCustomerCode(h)
  PROVE  PromiseInv'
<1>1. PICK j, r, line : /\ j = jobs[h] /\ r = j.arg.ref
                        /\ line = [kind |-> "code", value |-> j.arg.code]
  OBVIOUS
<1>2. /\ Working(h) /\ j.pc = "erpCode" /\ UNCHANGED <<states, oldStates, assigned, promised>> /\ Finish(h)
      /\ parties' = [parties EXCEPT ![r].details = line]
  BY <1>1 DEF UpdateCustomerCode, At, Ref, stateVars
<1>3. jobs[h].pc \in StatePcs
  BY <1>1, <1>2 DEF StatePcs, AdminWaits
<1>4. Asks(j)
  BY <1>1, <1>2, <1>3, AsksIs
<1>5. /\ PersonAsks(j.op, j.arg, promised) /\ PersonAt(j.op, "erpCode", r, promised, parties) /\ r \in Refs
  BY <1>1, <1>2, <1>4 DEF Asks
<1>6. j.op = "regenerateCustomer"
  BY <1>5 DEF PersonAt
<1>7. r \in Customers /\ r \in Parties /\ parties[r] # None
  BY <1>1, <1>5, <1>6 DEF PersonAsks, PersonAt, CustomerWork, Parties
<1>8. parties \in [Parties -> PartyRecords \cup {None}]
  BY DEF PromiseInv, Told
<1>9. PICK new : new = [parties[r] EXCEPT !.details = line]
  OBVIOUS
<1>10. parties' = [parties EXCEPT ![r] = new]
  BY <1>2, <1>7, <1>8, <1>9
<1>11. new \in PartyRecords
  <2>1. j.arg.code \in AccessCodes \cup {None}
    BY <1>1, <1>4, <1>6 DEF Asks, ArgTyped
  <2>2. line \in [kind : {"", "phone", "code"}, value : Phones \cup AccessCodes \cup {None}]
    BY <1>1, <2>1
  <2>3. parties[r] \in PartyRecords
    BY <1>7, <1>8
  <2> QED
    BY <1>9, <2>2, <2>3 DEF PartyRecords
<1>12. promised'[r].phone = None
  BY <1>1, <1>2, <1>4, <1>6 DEF Asks, Untouched, CustomerChanges
<1>13. OthersKept(h) /\ UNCHANGED mix /\ ~Working(h)'
  BY <1>2, LandsIdle DEF Leads, Lands
<1> QED
  BY <1>1, <1>2, <1>3, <1>7, <1>10, <1>11, <1>12, <1>13, PartyPromise

LEMMA PhonePromise ==
  ASSUME Typed, Alone, PromiseInv, NEW h \in Handlers, UpdatePhone(h)
  PROVE  PromiseInv'
<1>1. PICK j, r, line, new :
        /\ j = jobs[h] /\ r = j.arg.ref /\ line = [kind |-> "phone", value |-> j.arg.phone]
        /\ new = IF j.op = "supplierPhone" THEN [mobile |-> line.value, details |-> line]
                 ELSE [parties[r] EXCEPT !.details = line]
  OBVIOUS
<1>2. /\ Working(h) /\ j.pc = "erpPhone" /\ UNCHANGED <<states, oldStates, assigned>>
      /\ IF parties[r] = None THEN Finish(h) /\ UNCHANGED promised ELSE Confirm(h)
  BY <1>1 DEF UpdatePhone, At, Ref, stateVars
<1>3. parties' = [parties EXCEPT ![r] = IF parties[r] = None THEN None ELSE new]
  BY <1>1 DEF UpdatePhone, Ref
<1>4. jobs[h].pc \in StatePcs
  BY <1>1, <1>2 DEF StatePcs, AdminWaits
<1>5. Asks(j)
  BY <1>1, <1>2, <1>4, AsksIs
<1>6. /\ PersonAsks(j.op, j.arg, promised) /\ PersonAt(j.op, "erpPhone", r, promised, parties) /\ r \in Refs
      /\ Untouched(promised[r], j.op, j.arg)
  BY <1>1, <1>2, <1>5 DEF Asks
<1>7. j.op \in {"supplierPhone", "customerPhone"}
  BY <1>6 DEF PersonAt
<1>8. /\ r \in Parties /\ j.arg.phone \in Phones
      /\ j.op = "supplierPhone" => r \in Suppliers
      /\ j.op = "customerPhone" => r \in Customers
  BY <1>1, <1>6, <1>7 DEF PersonAsks, CustomerWork, SupplierWork, SupplierOps, PhoneWork, Parties
<1>9. parties \in [Parties -> PartyRecords \cup {None}]
  BY DEF PromiseInv, Told
<1>10. OthersKept(h) /\ UNCHANGED mix /\ ~Working(h)'
  <2>1. Finish(h)
    BY <1>2 DEF Confirm
  <2> QED
    BY <2>1, LandsIdle DEF Leads, Lands
<1>11. CASE parties[r] = None
  <2>1. parties' = parties
    BY <1>3, <1>8, <1>9, <1>11
  <2>2. PeopleKept
    BY <1>2, <1>10, <1>11, <2>1 DEF PeopleKept
  <2> QED
    BY <1>2, <1>11, <2>2, PromiseEnds
<1>12. CASE parties[r] # None
  <2>1. Tells(h)
    BY <1>1, <1>2, <1>5, <1>6, <1>12, ConfirmTells
  <2>2. parties' = [parties EXCEPT ![r] = new]
    BY <1>3, <1>12
  <2>3. line \in [kind : {"", "phone", "code"}, value : Phones \cup AccessCodes \cup {None}] /\ line.value \in Phones
    BY <1>1, <1>8
  <2>4. parties[r] \in PartyRecords
    BY <1>8, <1>9, <1>12
  <2>5. new \in PartyRecords
    <3>1. CASE j.op = "supplierPhone"
      BY <1>1, <2>3, <3>1 DEF PartyRecords
    <3>2. CASE j.op # "supplierPhone"
      BY <1>1, <2>3, <2>4, <3>2 DEF PartyRecords
    <3> QED
      BY <3>1, <3>2
  <2>6. CASE j.op = "supplierPhone"
    <3>1. PICK p, q : p = promised[r] /\ q = Goal(j, promised)
      OBVIOUS
    <3>2. PICK w : WishOf(w, p, j.op, j.arg) /\ q = (IF j.alone THEN w ELSE p)
      BY <1>1, <1>5, <3>1, GoalIs
    <3>3. w.phone = j.arg.phone /\ p.phone = None
      BY <1>6, <2>6, <3>1, <3>2 DEF WishOf, Untouched
    <3>4. promised'[r] = q
      BY <1>1, <1>6, <2>1, <3>1 DEF Tells
    <3>5. new.mobile = j.arg.phone
      BY <1>1, <2>6
    <3>6. promised'[r].phone # None => PhoneIn(new) = promised'[r].phone
      BY <3>2, <3>3, <3>4, <3>5 DEF PhoneIn
    <3> QED
      BY <1>1, <1>2, <1>4, <1>8, <1>10, <2>1, <2>2, <2>5, <2>6, <3>6, PartyPromise
  <2>7. CASE j.op = "customerPhone"
    <3>1. j.op \notin SupplierWork
      BY <2>7 DEF SupplierWork, SupplierOps
    <3>2. Goal(j, promised) = promised[r]
      BY <1>1, <1>5, <3>1, GoalSame
    <3>3. promised' = promised
      <4>1. promised = [x \in Refs |-> promised[x]]
        BY DEF PromiseInv, Told
      <4> QED
        BY <1>1, <2>1, <3>2, <4>1 DEF Tells
    <3>4. promised'[r].phone = None
      BY <1>6, <2>7, <3>3 DEF Untouched, CustomerChanges
    <3> QED
      BY <1>1, <1>2, <1>4, <1>8, <1>10, <2>2, <2>5, <3>3, <3>4, PartyPromise
  <2> QED
    BY <1>7, <2>6, <2>7
<1> QED
  BY <1>11, <1>12

LEMMA CreatePromise ==
  ASSUME Typed, Alone, PromiseInv, NEW h \in Handlers, CreateParty(h)
  PROVE  PromiseInv'
<1>1. PICK j, op, r, p, new :
        /\ j = jobs[h] /\ op = j.op /\ r = j.arg.ref /\ p = promised[r]
        /\ new = [mobile |-> j.arg.phone,
                  details |-> IF op = "createSupplier" THEN [kind |-> "phone", value |-> j.arg.phone]
                              ELSE [kind |-> "", value |-> None]]
  OBVIOUS
<1>2. Working(h) /\ j.pc = "post" /\ UNCHANGED <<states, oldStates, assigned, promised>>
  BY <1>1 DEF CreateParty, At, stateVars
<1>3. jobs[h].pc \in StatePcs /\ "restate" \in WritePcs
  BY <1>1, <1>2 DEF StatePcs, AdminWaits, WritePcs
<1>4. Asks(j)
  BY <1>1, <1>2, <1>3, AsksIs
<1>5. PersonAsks(op, j.arg, promised) /\ PersonAt(op, "post", r, promised, parties) /\ r \in Refs
  BY <1>1, <1>2, <1>4 DEF Asks
<1>6. op \in {"createSupplier", "createCustomer"}
  BY <1>5 DEF PersonAt
<1>7. r \in Parties /\ j.arg.phone \in Phones
  BY <1>1, <1>5, <1>6 DEF PersonAsks, CustomerWork, SupplierWork, PhoneWork, Parties
<1>8. parties \in [Parties -> PartyRecords \cup {None}] /\ PartyHeld(r)
  BY <1>7 DEF PromiseInv, Told
<1>9. new \in PartyRecords
  <2>1. [kind |-> "phone", value |-> j.arg.phone] \in [kind : {"", "phone", "code"}, value : Phones \cup AccessCodes \cup {None}]
    BY <1>7
  <2>2. [kind |-> "", value |-> None] \in [kind : {"", "phone", "code"}, value : Phones \cup AccessCodes \cup {None}]
    OBVIOUS
  <2>3. new.mobile = j.arg.phone /\ new = [mobile |-> new.mobile, details |-> new.details]
        /\ new.details \in [kind : {"", "phone", "code"}, value : Phones \cup AccessCodes \cup {None}]
    BY <1>1, <2>1, <2>2
  <2> QED
    BY <1>7, <2>3 DEF PartyRecords
<1>10. CASE parties[r] # None
  <2>1. Finish(h) /\ UNCHANGED parties
    BY <1>1, <1>10 DEF CreateParty, Ref
  <2>2. PeopleKept
    BY <1>2, <2>1 DEF Finish, Continue, PeopleKept
  <2> QED
    BY <2>1, <2>2, PromiseEnds
<1>11. CASE parties[r] = None
  <2>1. parties' = [parties EXCEPT ![r] = new]
    BY <1>1, <1>11 DEF CreateParty, Ref
  <2>2. p.phone = None /\ p.blocked = None
    BY <1>1, <1>8, <1>11 DEF PartyHeld
  <2>3. promised'[r].phone = None
    BY <1>1, <1>2, <2>2
  <2>4. CASE op = "createCustomer"
    <3>1. Finish(h)
      BY <1>1, <1>11, <2>4 DEF CreateParty, Ref
    <3>2. OthersKept(h) /\ UNCHANGED mix /\ ~Working(h)'
      BY <3>1, LandsIdle DEF Leads, Lands
    <3> QED
      BY <1>1, <1>2, <1>3, <1>7, <1>9, <2>1, <2>3, <3>2, PartyPromise
  <2>5. CASE op = "createSupplier"
    <3>1. Go(h, "restate")
      BY <1>1, <1>11, <2>5 DEF CreateParty, Ref
    <3>2. PICK k : k = Moved(j, "restate", j.arg, j.copy, j.phase)
      OBVIOUS
    <3>3. /\ Continue(h, k)
          /\ k.op = op /\ k.pc = "restate" /\ k.arg = j.arg /\ k.alone = j.alone
      <4>1. Continue(h, k)
        BY <1>1, <1>2, <3>1, <3>2, Goes
      <4>2. k.op = op /\ k.pc = "restate" /\ k.arg = j.arg /\ k.alone = j.alone
        BY <1>1, <3>2 DEF Moved
      <4> QED
        BY <4>1, <4>2
    <3>4. OthersKept(h) /\ jobs'[h] = k /\ UNCHANGED mix
      BY <3>3, Continues
    <3>5. parties'[r] # None
      <4>1. new # None
        BY <1>9, StatesAssumption
      <4> QED
        BY <1>7, <1>8, <2>1, <4>1
    <3>6. PersonAt(op, "restate", r, promised, parties')
      BY <1>1, <2>2, <2>5, <3>5 DEF PersonAt, SupplierOps, WritePcs
    <3>7. PersonHolds(k, promised)
      BY <3>3 DEF PersonHolds, HeldPcs
    <3>8. RowsReady(k, promised, assigned)
      <4>1. PICK w : w = Wish(p, op, j.arg) /\ WishOf(w, p, op, j.arg)
        BY <1>1, <1>4, GoalIs
      <4>2. k.alone => Goal(k, promised) = w
        BY <1>1, <3>3, <4>1 DEF Goal
      <4>3. Rows(r, p, assigned)
        BY <1>1, <1>5, KeptIs
      <4>4. Rows(r, w, assigned)
        BY <2>5, <4>1, <4>3, WishRows
      <4> QED
        BY <1>1, <3>3, <4>2, <4>4 DEF RowsReady
    <3>9. PersonJob(k, promised', parties', assigned')
      BY <1>1, <1>2, <1>5, <3>3, <3>6, <3>7, <3>8 DEF PersonJob
    <3> QED
      BY <1>1, <1>2, <1>3, <1>7, <1>9, <2>1, <2>3, <3>4, <3>9, PartyPromise
  <2> QED
    BY <1>6, <2>4, <2>5
<1> QED
  BY <1>10, <1>11

-----------------------------------------------------------------------------
(***************************************************************************)
(* A nickname that was confirmed, alone, is in the memory and in the file: *)
(* a request reads all the preferences and writes all of them, so that one *)
(* which is alone has the nickname in what it read, and the old file is    *)
(* only copied where nothing was chosen yet.                               *)
(***************************************************************************)
NicknameKept == chosen = "chosen" => prefs # None /\ prefs.nickname = "chosen" /\ prefsDisk = prefs

PrefsJob(j) ==
  /\ j.op \in ProfileOps /\ j.pc \in TokenPcs => "prefs" \in j.keys
  /\ j.pc = "migratePrefs" => chosen # "chosen"
  /\ j.pc = "putPrefs" /\ j.alone /\ chosen = "chosen" =>
       j.op = "nickname" \/ j.copy.nickname = "chosen"

PrefsInv == NicknameKept /\ \A h \in Handlers : Working(h) => PrefsJob(jobs[h])

LEMMA PrefsPcs ==
  /\ {"refresh", "upload", "prefs", "migratePrefs", "putPrefs"} \subseteq ProfilePcs
  /\ ProfilePcs \subseteq TokenPcs
  /\ {"serve", "lookup", "expire"} \subseteq TokenPcs
  BY DEF TokenPcs, ProfilePcs, LoadPcs

\* A request at one of these steps works on the preferences.
LEMMA WorksOnPrefs ==
  ASSUME Typed, PrefsInv, NEW g \in Handlers, Working(g), jobs[g].pc \in ProfilePcs
  PROVE  "prefs" \in jobs[g].keys /\ jobs[g].op \in ProfileOps
<1>1. jobs[g].op \in ProfileOps
  BY JobOf DEF OpenJob, SessionJob
<1> QED
  BY <1>1, PrefsPcs DEF PrefsInv, PrefsJob

LEMMA PrefsOthers ==
  ASSUME Typed, Alone, PrefsInv, NEW h \in Handlers, OthersKept(h),
         \/ chosen' = chosen \/ chosen' # "chosen"
         \/ Working(h) /\ jobs[h].alone /\ "prefs" \in jobs[h].keys
  PROVE  \A g \in Handlers \ {h} : Working(g)' => PrefsJob(jobs[g])'
<1> SUFFICES ASSUME NEW g \in Handlers \ {h}, Working(g)' PROVE PrefsJob(jobs[g])'
  OBVIOUS
<1>1. /\ Working(g) /\ jobs'[g].pc = jobs[g].pc /\ jobs'[g].op = jobs[g].op
      /\ jobs'[g].keys = jobs[g].keys /\ jobs'[g].copy = jobs[g].copy
      /\ jobs'[g].alone => jobs[g].alone
  BY SameFields
<1>2. PrefsJob(jobs[g])
  BY <1>1 DEF PrefsInv
<1>3. CASE chosen' = chosen \/ chosen' # "chosen"
  BY <1>1, <1>2, <1>3 DEF PrefsJob
<1>4. CASE Working(h) /\ jobs[h].alone /\ "prefs" \in jobs[h].keys
  <2>1. "prefs" \notin jobs[g].keys
    BY <1>1, <1>4 DEF Alone, On
  <2>2. jobs[g].pc \notin ProfilePcs
    BY <1>1, <2>1, WorksOnPrefs
  <2> QED
    BY <1>1, <1>2, <2>2, PrefsPcs DEF PrefsJob
<1> QED
  BY <1>3, <1>4

\* Steps that leave the preferences alone.
LEMMA PrefsQuiet ==
  ASSUME Typed, Alone, PrefsInv, NEW h \in Handlers, OthersKept(h), NicknameKept',
         chosen' = chosen \/ chosen' # "chosen",
         Working(h)' => /\ jobs'[h].pc \notin {"migratePrefs", "putPrefs"}
                        /\ \/ jobs'[h].pc \notin TokenPcs \/ jobs'[h].op \notin ProfileOps
                           \/ "prefs" \in jobs'[h].keys
  PROVE  PrefsInv'
<1>1. Working(h)' => PrefsJob(jobs[h])'
  BY DEF PrefsJob
<1>2. \A g \in Handlers \ {h} : Working(g)' => PrefsJob(jobs[g])'
  BY PrefsOthers
<1> QED
  BY <1>1, <1>2 DEF PrefsInv

\* Where a request that has read the preferences goes on.
LEMMA PrefsLead ==
  ASSUME Typed, NEW h \in Handlers, Working(h), jobs[h].pc \in {"prefs", "migratePrefs"},
         NEW stored, PrefsLoaded(h, stored)
  PROVE  /\ Leads(h, {"putPrefs", "lookup"})
         /\ jobs'[h].pc = "putPrefs" => jobs'[h].copy = stored
<1>1. PICK j : j = jobs[h]
  OBVIOUS
<1>2. IsJob(j) /\ j.op \in ProfileOps /\ j.arg = [token |-> j.arg.token, principal |-> j.arg.principal]
  BY <1>1, JobOf, PrefsPcs DEF OpenJob, SessionJob
<1>3. CASE j.phase = "edit"
  <2>1. GoWith(h, "putPrefs", stored)
    BY <1>1, <1>3 DEF PrefsLoaded
  <2>2. PICK k : k = Moved(j, "putPrefs", j.arg, stored, j.phase)
    OBVIOUS
  <2>3. Continue(h, k)
    BY <1>1, <2>1, <2>2, Goes
  <2>4. k.copy = stored /\ jobs'[h] = k
    BY <2>2, <2>3, MovedIs, Continues
  <2> QED
    BY <2>1, <2>4, LandsAt
<1>4. CASE j.phase # "edit"
  <2>1. PICK p : p = Merge(j.arg.principal, stored)
    OBVIOUS
  <2>2. PICK k : /\ k = [j EXCEPT !.pc = "lookup", !.phase = "update", !.arg.principal = Merge(@, stored)]
                 /\ Continue(h, k)
    BY <1>1, <1>4 DEF PrefsLoaded
  <2>3. k = WithPerson(j, "lookup", "update", p)
    BY <2>1, <2>2 DEF WithPerson
  <2>4. k = Moved(j, "lookup", [token |-> j.arg.token, principal |-> p], j.copy, "update")
    BY <1>2, <2>3, WithPersonIs
  <2>5. k.pc = "lookup" /\ jobs'[h] = k
    BY <2>2, <2>4, MovedIs, Continues
  <2>6. Leads(h, {"putPrefs", "lookup"})
    BY <1>1, <2>2, <2>4, LandsAt
  <2> QED
    BY <2>5, <2>6
<1> QED
  BY <1>3, <1>4

\* A request of a profile at its next step, other than after reading.
LEMMA ProfileLeads ==
  ASSUME Typed, NEW h \in Handlers, ServeProfile(h) \/ Refresh(h) \/ Upload(h) \/ StorePrefs(h)
  PROVE  Leads(h, {"refresh", "upload", "prefs", "lookup"})
<1>1. PICK j : j = jobs[h]
  OBVIOUS
<1>2. Working(h) /\ j.op \in ProfileOps /\ j.pc \in {"serve", "refresh", "upload", "putPrefs"}
  <2>1. Working(h) /\ j.pc \in {"serve", "refresh", "upload", "putPrefs"}
    BY <1>1 DEF ServeProfile, Refresh, Upload, StorePrefs, At
  <2>2. j.pc # "serve" => j.op \in ProfileOps
    BY <1>1, <2>1, JobOf, PrefsPcs DEF OpenJob, SessionJob
  <2>3. j.pc = "serve" => j.op \in ProfileOps
    BY <1>1 DEF ServeProfile, Refresh, Upload, StorePrefs, At
  <2> QED
    BY <2>1, <2>2, <2>3
<1>3. IsJob(j) /\ j.arg = [token |-> j.arg.token, principal |-> j.arg.principal]
  BY <1>1, <1>2, JobOf, PrefsPcs DEF OpenJob, SessionJob
<1>4. ASSUME NEW pc \in {"refresh", "upload", "prefs", "lookup"}, NEW p, NEW phase,
             Continue(h, WithPerson(j, pc, phase, p))
      PROVE  Leads(h, {"refresh", "upload", "prefs", "lookup"})
  <2>1. Continue(h, Moved(j, pc, [token |-> j.arg.token, principal |-> p], j.copy, phase))
    BY <1>3, <1>4, WithPersonIs
  <2> QED
    BY <1>1, <1>2, <2>1, LandsAt
<1>5. CASE ServeProfile(h)
  <2>1. PICK pc \in {"refresh", "upload", "prefs", "lookup"}, phase \in {"update", "edit"} :
          Continue(h, [jobs[h] EXCEPT !.pc = pc, !.phase = phase, !.arg.principal = jobs[h].copy])
    BY <1>5 DEF ServeProfile
  <2> QED
    BY <1>1, <1>4, <2>1 DEF WithPerson
<1>6. CASE Refresh(h)
  <2>1. PICK ok \in BOOLEAN :
          Continue(h, [jobs[h] EXCEPT !.pc = "prefs", !.phase = "merge",
            !.arg.principal.avatar = IF ok /\ jobs[h].arg.principal.role = "supplier"
                                        /\ photo # "" THEN photo ELSE @])
    BY <1>6 DEF Refresh
  <2>2. PICK k : /\ k = [j EXCEPT !.pc = "prefs", !.phase = "merge",
                           !.arg.principal.avatar = IF ok /\ j.arg.principal.role = "supplier"
                                                       /\ photo # "" THEN photo ELSE @]
                 /\ Continue(h, k)
    BY <1>1, <2>1
  <2>3. PICK q, p : /\ q = j.arg.principal
                    /\ p = [q EXCEPT !.avatar = IF ok /\ q.role = "supplier" /\ photo # ""
                                                THEN photo ELSE q.avatar]
    OBVIOUS
  <2>4. k = WithPerson(j, "prefs", "merge", p)
    BY <1>3, <2>2, <2>3 DEF WithPerson, IsJob
  <2> QED
    BY <1>4, <2>2, <2>4
<1>7. CASE Upload(h)
  <2>1. CASE Finish(h)
    BY <2>1, LandsIdle
  <2>2. CASE ~Finish(h)
    <3>1. Continue(h, [j EXCEPT !.pc = "prefs", !.arg.principal.avatar = "new"])
      BY <1>1, <1>7, <2>2 DEF Upload
    <3>2. PICK p : p = [j.arg.principal EXCEPT !.avatar = "new"]
      OBVIOUS
    <3>3. PICK k : k = [j EXCEPT !.pc = "prefs", !.arg.principal.avatar = "new"]
      OBVIOUS
    <3>4. k = WithPerson(j, "prefs", j.phase, p)
      BY <1>3, <3>2, <3>3 DEF WithPerson, IsJob
    <3> QED
      BY <1>4, <3>1, <3>3, <3>4
  <2> QED
    BY <2>1, <2>2
<1>8. CASE StorePrefs(h)
  <2>1. CASE Finish(h)
    BY <2>1, LandsIdle
  <2>2. CASE ~Finish(h)
    <3>1. Continue(h, [j EXCEPT !.pc = "prefs", !.phase = "merge"])
      BY <1>1, <1>8, <2>2 DEF StorePrefs
    <3>2. PICK k : k = [j EXCEPT !.pc = "prefs", !.phase = "merge"]
      OBVIOUS
    <3>3. IsJob(j)
      BY <1>3
    <3>4. k = Moved(j, "prefs", j.arg, j.copy, "merge")
      BY <3>2, <3>3 DEF IsJob, Moved
    <3>5. Continue(h, Moved(j, "prefs", j.arg, j.copy, "merge"))
      BY <3>1, <3>2, <3>4
    <3> QED
      BY <1>1, <1>2, <3>5, LandsAt
  <2> QED
    BY <2>1, <2>2
<1> QED
  BY <1>5, <1>6, <1>7, <1>8

\* Where a request that finds, ends or renews its session goes.
WalkPcs ==
  {"read", "renew", "erase", "serve", "expire", "fill", "readRaw", "migrate", "dropRaw",
   "forget", "renewed"}

LEMMA LoadedLeads ==
  ASSUME Typed, NEW h \in Handlers, Working(h), NEW record, Loaded(h, record)
  PROVE  Leads(h, WalkPcs)
<1>1. CASE jobs[h].phase = "update"
  BY <1>1, LandsAt DEF Loaded, WalkPcs
<1>2. CASE jobs[h].phase # "update" /\ IsExpired(record)
  BY <1>2, LandsAt DEF Loaded, WalkPcs
<1>3. CASE jobs[h].phase # "update" /\ ~IsExpired(record)
  BY <1>3, LandsAt DEF Loaded, WalkPcs
<1> QED
  BY <1>1, <1>2, <1>3

LEMMA SessionWalks ==
  ASSUME Typed, NEW h \in Handlers, Finding(h) \/ Ending(h)
  PROVE  Working(h) /\ jobs[h].pc \in TokenPcs /\ Leads(h, WalkPcs) /\ UNCHANGED profileVars
<1>1. /\ Working(h) /\ UNCHANGED profileVars
      /\ jobs[h].pc \in {"lookup", "read", "readRaw", "migrate", "dropRaw", "fill", "expire",
                         "erase", "forget", "renew", "renewed"}
  <2>1. CASE Finding(h)
    BY <2>1 DEF Finding, LookupCache, ReadStore, ReadRawKey, MigrateRawKey, DropRawKey, FillCache, At
  <2>2. CASE Ending(h)
    BY <2>2 DEF Ending, ExpireStored, Erase, EraseCached, Renew, Renewed, At
  <2> QED
    BY <2>1, <2>2
<1>2. jobs[h].pc \in TokenPcs
  BY <1>1 DEF TokenPcs, LoadPcs, RecordPcs, ProfilePcs
<1>3. ASSUME NEW pc \in WalkPcs, Go(h, pc) \/ \E copy : GoWith(h, pc, copy)
      PROVE  Leads(h, WalkPcs)
  BY <1>1, <1>3, LandsAt
<1>4. {"read", "renew", "erase", "serve", "readRaw", "migrate", "dropRaw", "forget", "renewed"}
        \subseteq WalkPcs
  BY DEF WalkPcs
<1>5. CASE LookupCache(h)
  <2>1. PICK t, record : t = Token(h) /\ record = cache[t]
    OBVIOUS
  <2>2. CASE record = None
    <3>1. Go(h, "read")
      BY <1>5, <2>1, <2>2 DEF LookupCache
    <3> QED
      BY <1>1, <1>2, <1>3, <1>4, <3>1
  <2>3. CASE record # None /\ jobs[h].phase = "update"
    <3>1. GoWith(h, "renew", record)
      BY <1>5, <2>1, <2>3 DEF LookupCache
    <3> QED
      BY <1>1, <1>2, <1>3, <1>4, <3>1
  <2>4. CASE record # None /\ jobs[h].phase # "update" /\ IsExpired(record)
    <3>1. Go(h, "erase")
      BY <1>5, <2>1, <2>4 DEF LookupCache
    <3> QED
      BY <1>1, <1>2, <1>3, <1>4, <3>1
  <2>5. CASE record # None /\ jobs[h].phase # "update" /\ ~IsExpired(record)
    <3>1. GoWith(h, "serve", record.principal)
      BY <1>5, <2>1, <2>5 DEF LookupCache
    <3> QED
      BY <1>1, <1>2, <1>3, <1>4, <3>1
  <2> QED
    BY <1>1, <1>2, <2>2, <2>3, <2>4, <2>5
<1>6. CASE ReadStore(h)
  <2>1. CASE sessions[Token(h)] = None
    <3>1. Go(h, "readRaw")
      BY <1>6, <2>1 DEF ReadStore
    <3> QED
      BY <1>1, <1>2, <1>3, <1>4, <3>1
  <2>2. CASE sessions[Token(h)] # None
    <3>1. \E record : Loaded(h, record)
      BY <1>6, <2>2 DEF ReadStore
    <3> QED
      BY <1>1, <1>2, <3>1, LoadedLeads
  <2> QED
    BY <2>1, <2>2
<1>7. CASE ReadRawKey(h)
  <2>1. Finish(h) \/ \E copy : GoWith(h, "migrate", copy)
    BY <1>7 DEF ReadRawKey
  <2> QED
    BY <1>1, <1>2, <1>3, <1>4, <2>1, LandsIdle
<1>8. CASE MigrateRawKey(h)
  <2>1. Finish(h) \/ Go(h, "dropRaw")
    BY <1>8 DEF MigrateRawKey
  <2> QED
    BY <1>1, <1>2, <1>3, <1>4, <2>1, LandsIdle
<1>9. CASE DropRawKey(h)
  <2>1. Loaded(h, jobs[h].copy)
    BY <1>9 DEF DropRawKey
  <2> QED
    BY <1>1, <1>2, <2>1, LoadedLeads
<1>10. CASE FillCache(h)
  <2>1. \E copy : GoWith(h, "serve", copy)
    BY <1>10 DEF FillCache
  <2> QED
    BY <1>1, <1>2, <1>3, <1>4, <2>1
<1>11. CASE ExpireStored(h) \/ EraseCached(h) \/ Renewed(h)
  <2>1. Finish(h)
    BY <1>11 DEF ExpireStored, EraseCached, Renewed
  <2> QED
    BY <1>1, <1>2, <2>1, LandsIdle
<1>12. CASE Erase(h)
  <2>1. Go(h, "forget")
    BY <1>12 DEF Erase, Go
  <2> QED
    BY <1>1, <1>2, <1>3, <1>4, <2>1
<1>13. CASE Renew(h)
  <2>1. Finish(h) \/ \E copy : GoWith(h, "renewed", copy)
    BY <1>13 DEF Renew
  <2> QED
    BY <1>1, <1>2, <1>3, <1>4, <2>1, LandsIdle
<1> QED
  BY <1>5, <1>6, <1>7, <1>8, <1>9, <1>10, <1>11, <1>12, <1>13 DEF Finding, Ending

\* A request with a session that leaves the preferences alone.
LEMMA PrefsWalk ==
  ASSUME Typed, Alone, PrefsInv, NEW h \in Handlers, Working(h), jobs[h].pc \in TokenPcs,
         NEW pcs, Leads(h, pcs), pcs \cap {"migratePrefs", "putPrefs"} = {},
         NicknameKept', chosen' = chosen \/ chosen' # "chosen"
  PROVE  PrefsInv'
<1>1. PrefsJob(jobs[h])
  BY DEF PrefsInv
<1>2. OthersKept(h)
  BY DEF Leads, Lands
<1>3. Working(h)' => /\ jobs'[h].pc \notin {"migratePrefs", "putPrefs"}
                     /\ jobs'[h].op = jobs[h].op /\ jobs'[h].keys = jobs[h].keys
  BY DEF Leads, Lands, Remains
<1> QED
  BY <1>1, <1>2, <1>3, PrefsQuiet DEF PrefsJob

LEMMA PrefsAsked ==
  ASSUME Typed, Alone, PrefsInv, NEW h \in Handlers, UNCHANGED profileVars,
         NEW op, NEW pc \in {"erase", "lookup"}, NEW keys, NEW arg, Begin(h, op, pc, keys, arg),
         op \notin ProfileOps \/ "prefs" \in keys
  PROVE  PrefsInv'
<1>1. OthersKept(h) /\ jobs'[h] = NewJob(h, op, pc, keys, arg)
  BY Begins
<1>2. jobs'[h].op = op /\ jobs'[h].pc = pc /\ jobs'[h].keys = keys
  BY <1>1, NewJobIs
<1>3. NicknameKept'
  BY DEF PrefsInv, NicknameKept, profileVars
<1> QED
  BY <1>1, <1>2, <1>3, PrefsQuiet DEF profileVars

LEMMA SessionKeepsPrefs ==
  ASSUME Typed, Alone, PrefsInv, NEW h \in Handlers,
         CreateStored(h) \/ CreateCached(h) \/ Finding(h) \/ Ending(h) \/ Asking(h)
  PROVE  PrefsInv'
<1>1. UNCHANGED profileVars => NicknameKept' /\ chosen' = chosen
  BY DEF PrefsInv, NicknameKept, profileVars
<1>2. ASSUME Finish(h), UNCHANGED profileVars PROVE PrefsInv'
  <2>1. OthersKept(h) /\ ~Working(h)'
    BY <1>2, LandsIdle DEF Leads, Lands
  <2> QED
    BY <1>1, <1>2, <2>1, PrefsQuiet
<1>3. CASE CreateStored(h)
  <2>1. PICK j : j = jobs[h]
    OBVIOUS
  <2>2. UNCHANGED profileVars /\ Working(h)
    BY <1>3 DEF CreateStored, At
  <2>3. CASE Finish(h)
    BY <1>2, <2>2, <2>3
  <2>4. CASE ~Finish(h)
    <3>1. PICK t, record : Continue(h, [j EXCEPT !.pc = "keep", !.keys = {t}, !.copy = record])
      BY <1>3, <2>1, <2>4 DEF CreateStored
    <3>2. PICK k : k = [j EXCEPT !.pc = "keep", !.keys = {t}, !.copy = record]
      OBVIOUS
    <3>3. k.pc = "keep"
      BY <2>1, <2>2, <3>2, JobOf DEF IsJob
    <3>4. OthersKept(h) /\ jobs'[h] = k
      BY <3>1, <3>2, Continues
    <3>5. "keep" \notin TokenPcs
      BY DEF TokenPcs, LoadPcs, RecordPcs, ProfilePcs
    <3> QED
      BY <1>1, <2>2, <3>3, <3>4, <3>5, PrefsQuiet
  <2> QED
    BY <2>3, <2>4
<1>4. CASE CreateCached(h)
  BY <1>2, <1>4 DEF CreateCached
<1>5. CASE Finding(h) \/ Ending(h)
  <2>1. Working(h) /\ jobs[h].pc \in TokenPcs /\ Leads(h, WalkPcs) /\ UNCHANGED profileVars
    BY <1>5, SessionWalks
  <2>2. WalkPcs \cap {"migratePrefs", "putPrefs"} = {}
    BY DEF WalkPcs
  <2> QED
    BY <1>1, <2>1, <2>2, PrefsWalk
<1>6. CASE Asking(h)
  <2>1. UNCHANGED profileVars
    BY <1>6 DEF Asking, Logout, Ask, AskAct
  <2>2. CASE \E t \in issued : Logout(h, t)
    <3>1. PICK t, arg : Begin(h, "logout", "erase", {t}, arg)
      BY <2>2 DEF Logout
    <3> QED
      BY <2>1, <3>1, PrefsAsked DEF ProfileOps
  <2>3. CASE \E t \in issued, op \in ProfileOps : Ask(h, op, t)
    <3>1. PICK t, op, arg : Begin(h, op, "lookup", {t, "prefs"}, arg)
      BY <2>3 DEF Ask
    <3> QED
      BY <2>1, <3>1, PrefsAsked
  <2>4. CASE \E t \in issued, c \in DOMAIN Capabilities : AskAct(h, t, c)
    <3>1. PICK t, arg : Begin(h, "act", "lookup", {t}, arg)
      BY <2>4 DEF AskAct
    <3> QED
      BY <2>1, <3>1, PrefsAsked DEF ProfileOps
  <2> QED
    BY <1>6, <2>2, <2>3, <2>4 DEF Asking
<1> QED
  BY <1>3, <1>4, <1>5, <1>6

LEMMA ProfileKeepsPrefs ==
  ASSUME Typed, Alone, PrefsInv, NEW h \in Handlers, ProfileSteps(h)
  PROVE  PrefsInv'
<1>1. {"serve", "refresh", "upload", "prefs", "migratePrefs", "putPrefs"} \subseteq TokenPcs
  BY PrefsPcs
<1>2. CASE ServeProfile(h) \/ Refresh(h) \/ Upload(h)
  <2>1. Leads(h, {"refresh", "upload", "prefs", "lookup"})
    BY <1>2, ProfileLeads
  <2>2. Working(h) /\ jobs[h].pc \in TokenPcs
    BY <1>1, <1>2 DEF ServeProfile, Refresh, Upload, At
  <2>3. UNCHANGED <<prefs, prefsDisk, chosen>>
    BY <1>2 DEF ServeProfile, Refresh, Upload, profileVars
  <2>4. NicknameKept'
    BY <2>3 DEF PrefsInv, NicknameKept
  <2> QED
    BY <2>1, <2>2, <2>3, <2>4, PrefsWalk
<1>3. ASSUME Working(h), jobs[h].pc \in {"prefs", "migratePrefs"}, NEW stored, PrefsLoaded(h, stored),
             NicknameKept', UNCHANGED chosen, chosen = "chosen" => stored.nickname = "chosen"
      PROVE  PrefsInv'
  <2>1. Leads(h, {"putPrefs", "lookup"}) /\ (jobs'[h].pc = "putPrefs" => jobs'[h].copy = stored)
    BY <1>3, PrefsLead
  <2>2. "prefs" \in jobs[h].keys
    BY <1>3, PrefsPcs, WorksOnPrefs
  <2>3. OthersKept(h) /\ (Working(h)' => jobs'[h].pc \in {"putPrefs", "lookup"}
                                         /\ jobs'[h].keys = jobs[h].keys)
    BY <1>3, <2>1 DEF Leads, Lands, Remains
  <2>4. Working(h)' => PrefsJob(jobs[h])'
    BY <1>3, <2>1, <2>2, <2>3 DEF PrefsJob
  <2>5. \A g \in Handlers \ {h} : Working(g)' => PrefsJob(jobs[g])'
    BY <1>3, <2>3, PrefsOthers
  <2> QED
    BY <1>3, <2>4, <2>5 DEF PrefsInv
<1>4. CASE GetPrefs(h)
  <2>1. Working(h) /\ jobs[h].pc = "prefs" /\ UNCHANGED <<prefs, prefsDisk, chosen>>
    BY <1>4 DEF GetPrefs, At, profileVars
  <2>2. NicknameKept' /\ NicknameKept
    BY <2>1 DEF PrefsInv, NicknameKept
  <2>3. CASE prefs # None
    <3>1. PrefsLoaded(h, prefs)
      BY <1>4, <2>3 DEF GetPrefs
    <3> QED
      BY <1>3, <2>1, <2>2, <3>1 DEF NicknameKept
  <2>4. CASE prefs = None /\ Lmdb /\ prefsLegacy # None
    <3>1. GoWith(h, "migratePrefs", prefsLegacy) /\ chosen # "chosen"
      BY <1>4, <2>2, <2>4 DEF GetPrefs, NicknameKept
    <3>2. Leads(h, {"migratePrefs"})
      BY <2>1, <3>1, LandsAt
    <3>3. "prefs" \in jobs[h].keys
      BY <2>1, PrefsPcs, WorksOnPrefs
    <3>4. OthersKept(h) /\ (Working(h)' => jobs'[h].pc = "migratePrefs"
                                           /\ jobs'[h].keys = jobs[h].keys)
      BY <2>1, <3>2 DEF Leads, Lands, Remains
    <3>5. Working(h)' => PrefsJob(jobs[h])'
      BY <2>1, <3>1, <3>3, <3>4 DEF PrefsJob
    <3>6. \A g \in Handlers \ {h} : Working(g)' => PrefsJob(jobs[g])'
      BY <2>1, <3>4, PrefsOthers
    <3> QED
      BY <2>2, <3>5, <3>6 DEF PrefsInv
  <2>5. CASE prefs = None /\ ~(Lmdb /\ prefsLegacy # None)
    <3>1. PrefsLoaded(h, NoPrefs) /\ chosen # "chosen"
      BY <1>4, <2>2, <2>5 DEF GetPrefs, NicknameKept
    <3> QED
      BY <1>3, <2>1, <2>2, <3>1
  <2> QED
    BY <2>3, <2>4, <2>5
<1>5. CASE MigratePrefs(h)
  <2>1. Working(h) /\ jobs[h].pc = "migratePrefs" /\ UNCHANGED chosen
    BY <1>5 DEF MigratePrefs, At
  <2>2. chosen # "chosen"
    BY <2>1 DEF PrefsInv, PrefsJob
  <2>3. NicknameKept'
    BY <2>1, <2>2 DEF NicknameKept
  <2>4. CASE Finish(h)
    BY <2>1, <2>3, <2>4, LandsIdle, PrefsQuiet DEF Leads, Lands
  <2>5. CASE ~Finish(h)
    <3>1. PrefsLoaded(h, jobs[h].copy) \/ PrefsLoaded(h, NoPrefs)
      BY <1>5, <2>5 DEF MigratePrefs
    <3> QED
      BY <1>3, <2>1, <2>2, <2>3, <3>1
  <2> QED
    BY <2>4, <2>5
<1>6. CASE StorePrefs(h)
  <2>1. Working(h) /\ jobs[h].pc = "putPrefs"
    BY <1>6 DEF StorePrefs, At
  <2>2. Leads(h, {"refresh", "upload", "prefs", "lookup"})
    BY <1>6, ProfileLeads
  <2>3. PICK j : j = jobs[h]
    OBVIOUS
  <2>4. "prefs" \in jobs[h].keys /\ PrefsJob(j) /\ j.copy \in Preferences
    BY <2>1, <2>3, PrefsPcs, WorksOnPrefs, JobOf DEF PrefsInv, OpenJob, SessionJob
  <2>5. PICK ok \in BOOLEAN :
          /\ PutPrefs(Edited(j), ok)
          /\ chosen' = IF ok /\ j.alone
                       THEN IF j.op = "nickname" THEN "chosen" ELSE chosen ELSE None
    BY <1>6, <2>3 DEF StorePrefs
  <2>6. PICK new : new = Edited(j)
    OBVIOUS
  <2>7. ASSUME chosen' = "chosen"
        PROVE  ok /\ j.alone /\ (j.op # "nickname" => j.copy.nickname = "chosen")
    <3>1. ok /\ j.alone /\ (j.op # "nickname" => chosen = "chosen")
      BY <2>5, <2>7, SessionsAssumption
    <3>2. PrefsJob(j) /\ j.pc = "putPrefs"
      BY <2>1, <2>3, <2>4
    <3>3. j.op # "nickname" => j.copy.nickname = "chosen"
      BY <3>1, <3>2 DEF PrefsJob
    <3> QED
      BY <3>1, <3>3
  <2>8. chosen' = "chosen" => new.nickname = "chosen" /\ new # None
    <3>1. PICK c : c = j.copy
      OBVIOUS
    <3>2. c = [nickname |-> c.nickname, avatar |-> c.avatar]
      BY <2>4, <3>1 DEF Preferences
    <3>3. PICK a : a = j.arg.principal.avatar
      OBVIOUS
    <3>4. \/ j.op = "nickname" /\ new = [c EXCEPT !.nickname = "chosen"]
          \/ j.op # "nickname" /\ new = [c EXCEPT !.avatar = a]
      BY <2>6, <3>1, <3>3 DEF Edited
    <3>5. chosen' = "chosen" => new.nickname = "chosen"
      BY <2>7, <3>1, <3>2, <3>4
    <3>6. new \in Preferences
      BY <2>4, <2>6, <2>3, <2>1, EditedTyped, JobOf, PrefsPcs DEF OpenJob, SessionJob
    <3> QED
      BY <3>5, <3>6, RecordsAssumption DEF Preferences
  <2>9. NicknameKept'
    <3>1. chosen' = "chosen" => prefs' = new /\ prefsDisk' = new
      BY <2>5, <2>6, <2>7 DEF PutPrefs
    <3> QED
      BY <2>8, <3>1 DEF NicknameKept
  <2>10. OthersKept(h) /\ (Working(h)' => jobs'[h].pc \in {"refresh", "upload", "prefs", "lookup"}
                                          /\ jobs'[h].keys = jobs[h].keys)
    BY <2>1, <2>2 DEF Leads, Lands, Remains
  <2>11. Working(h)' => PrefsJob(jobs[h])'
    BY <2>4, <2>10 DEF PrefsJob
  <2>12. chosen' # "chosen" \/ jobs[h].alone
    BY <2>3, <2>7
  <2>13. \A g \in Handlers \ {h} : Working(g)' => PrefsJob(jobs[g])'
    BY <2>1, <2>4, <2>10, <2>12, PrefsOthers
  <2> QED
    BY <2>9, <2>11, <2>13 DEF PrefsInv
<1> QED
  BY <1>2, <1>4, <1>5, <1>6 DEF ProfileSteps

LEMMA PrefsInvStep ==
  ASSUME Typed, Alone, PrefsInv, [Next]_accessVars
  PROVE  PrefsInv'
<1>1. UNCHANGED profileVars => NicknameKept' /\ UNCHANGED chosen
  BY DEF PrefsInv, NicknameKept, profileVars
<1>2. CASE UNCHANGED <<jobs, profileVars>>
  BY <1>2 DEF profileVars, PrefsInv, NicknameKept, PrefsJob, Working
<1>3. CASE UNCHANGED accessVars
  BY <1>2, <1>3 DEF accessVars, requestVars
<1>4. CASE Rest
  <2>1. CASE Tick /\ UNCHANGED profileVars
    BY <1>2, <2>1 DEF Tick
  <2>2. CASE Restart
    <3>1. prefs' = prefsDisk /\ UNCHANGED <<prefsDisk, chosen>>
      BY <2>2 DEF Restart, SessionsRestart
    <3>2. NicknameKept'
      BY <3>1 DEF PrefsInv, NicknameKept
    <3> QED
      BY <2>2, <3>2, NobodyWorks DEF PrefsInv
  <2> QED
    BY <1>4, <2>1, <2>2 DEF Rest
<1>5. ASSUME NEW h \in Handlers, SessionNext(h) PROVE PrefsInv'
  <2>1. SessionStep(h) \/ Asking(h)
    BY <1>5 DEF SessionNext, Asking
  <2>2. \/ CreateStored(h) \/ CreateCached(h) \/ Finding(h) \/ Ending(h) \/ ProfileSteps(h) \/ Asking(h)
    BY <2>1 DEF SessionStep, Finding, Ending, ProfileSteps, Asking
  <2> QED
    BY <2>2, SessionKeepsPrefs, ProfileKeepsPrefs
<1>6. /\ (RolePcs \cup PersonPcs \cup SettingPcs \cup KeeperPcs \cup PushPcs \cup GroupPcs)
           \cap TokenPcs = {}
      /\ {"migratePrefs", "putPrefs"} \subseteq TokenPcs /\ "config" \notin TokenPcs
  BY DEF TokenPcs, LoadPcs, RecordPcs, ProfilePcs, RolePcs, PersonPcs, AdminWaits, SettingPcs,
     KeeperPcs, PushPcs, GroupPcs
<1>7. ASSUME NEW h \in Handlers,
             \/ RolesNext(h) \/ PeopleNext(h) \/ SettingsNext(h)
             \/ KeeperNext(h) \/ PushNext(h) \/ GroupsNext(h) \/ DropNext(h)
      PROVE  PrefsInv'
  <2>1. UNCHANGED profileVars
    BY <1>7 DEF RolesNext, PeopleNext, SettingsNext, KeeperNext, PushNext, GroupsNext, DropNext
  <2>2. PICK pcs : Lands(h, pcs) /\ pcs \cap TokenPcs = {}
    BY <1>6, <1>7, StepsLand DEF Leads, KeeperStored
  <2>3. OthersKept(h) /\ (Working(h)' => jobs'[h].pc \notin TokenPcs)
    BY <2>2 DEF Lands
  <2> QED
    BY <1>1, <1>6, <2>1, <2>3, PrefsQuiet
<1> QED
  BY <1>3, <1>4, <1>5, <1>7, StepsAre

LEMMA PrefsInvFirst ==
  ASSUME Init
  PROVE  PrefsInv
<1>1. chosen = None /\ \A h \in Handlers : ~Working(h)
  BY DEF Init, RequestsInit, SessionsInit, Working, Idle
<1> QED
  BY <1>1, SessionsAssumption DEF PrefsInv, NicknameKept

-----------------------------------------------------------------------------
(***************************************************************************)
(* All steps.                                                              *)
(***************************************************************************)
LEMMA LoginPromise ==
  ASSUME Typed, PromiseInv, NEW h \in Handlers, SearchParties(h) \/ DecideLogin(h) \/ AdminFails(h)
  PROVE  PromiseInv'
<1>1. UNCHANGED adminVars
  BY DEF SearchParties, DecideLogin, AdminFails, Fails
<1>2. CASE Finish(h)
  BY <1>1, <1>2, FailsPromise
<1>3. CASE ~Finish(h)
  <2>1. Working(h) /\ \E copy : \E pc \in {"decide", "create"} : GoWith(h, pc, copy)
    BY <1>3 DEF SearchParties, DecideLogin, AdminFails, Fails, At
  <2>2. Lands(h, {"decide", "create"})
    BY <2>1, LandsAt DEF Leads
  <2>3. {"decide", "create"} \cap StatePcs = {}
    BY DEF StatePcs, AdminWaits
  <2> QED
    BY <1>1, <2>2, <2>3, ElsewherePromise
<1> QED
  BY <1>2, <1>3

LEMMA PeoplePromise ==
  ASSUME Typed, Alone, PromiseInv, NEW h \in Handlers, AdminStep(h) \/ AdminBegin(h)
  PROVE  PromiseInv'
<1>1. CASE AdminBegin(h)
  BY <1>1, PersonBegins
<1>2. CASE Entry(h) \/ SupplierState(h) \/ RegenerateCode(h) \/ CustomerCode(h)
  BY <1>2, EntryPromise, SupplierStatePromise, CodesPromise
<1>3. CASE KnownItems(h) \/ SyncItems(h) \/ InsertRow(h) \/ ReadRows(h) \/ DeleteRows(h)
  BY <1>3, KnownPromise, SyncPromise, InsertPromise, ReadRowsPromise, DeletePromise
<1>4. CASE Restate(h) \/ PutState(h) \/ WriteFile(h)
  BY <1>4, RestatePromise, PutPromise, WritePromise
<1>5. CASE StateCodes(h) \/ CustomerState(h) \/ UpdateCustomerCode(h) \/ UpdatePhone(h)
  BY <1>5, StateCodesPromise, CustomerStatePromise, CodeLinePromise, PhonePromise
<1>6. CASE SearchPhone(h) \/ CreateParty(h) \/ SearchParties(h) \/ DecideLogin(h) \/ AdminFails(h)
  BY <1>6, SearchPromise, CreatePromise, LoginPromise
<1> QED
  BY <1>1, <1>2, <1>3, <1>4, <1>5, <1>6 DEF AdminStep

LEMMA KeeperPromise ==
  ASSUME Typed, PromiseInv, NEW h \in Handlers, WerkaStep(h)
  PROVE  PromiseInv'
<1>1. CASE AskWerkaCode(h) \/ WerkaState(h) \/ WerkaCode(h)
  BY <1>1, KeeperBegins, WerkaStatePromise, CodesPromise
<1>2. CASE LoginWerka(h)
  <2>1. PICK arg : Begin(h, "login", "compare", {h}, arg) /\ UNCHANGED adminVars
    BY <1>2 DEF LoginWerka
  <2>2. Lands(h, {"compare"})
    BY <2>1, LandsFirst DEF Leads
  <2>3. {"compare"} \cap StatePcs = {}
    BY DEF StatePcs, AdminWaits
  <2> QED
    BY <2>1, <2>2, <2>3, ElsewherePromise
<1>3. CASE WerkaConfig(h) \/ WerkaIdentity(h) \/ WerkaPersist(h) \/ CompareWerka(h)
  <2>1. UNCHANGED adminVars
    BY <1>3 DEF WerkaConfig, WerkaIdentity, WerkaPersist, CompareWerka
  <2>2. CASE Finish(h)
    BY <2>1, <2>2, FailsPromise
  <2>3. CASE ~Finish(h)
    <3>1. /\ Working(h)
          /\ \E pc \in {"identity", "persist", "settings", "create"} : Go(h, pc) \/ \E copy : GoWith(h, pc, copy)
      BY <1>3, <2>3 DEF WerkaConfig, WerkaIdentity, WerkaPersist, CompareWerka, At
    <3>2. Lands(h, {"identity", "persist", "settings", "create"})
      BY <3>1, LandsAt DEF Leads
    <3>3. {"identity", "persist", "settings", "create"} \cap StatePcs = {}
      BY DEF StatePcs, AdminWaits
    <3> QED
      BY <2>1, <3>2, <3>3, ElsewherePromise
  <2> QED
    BY <2>2, <2>3
<1> QED
  BY <1>1, <1>2, <1>3 DEF WerkaStep

LEMMA PromiseInvStep ==
  ASSUME Typed, Alone, PromiseInv, [Next]_accessVars
  PROVE  PromiseInv'
<1>1. CASE UNCHANGED <<mix, adminVars>> /\ (UNCHANGED jobs \/ \A h \in Handlers : ~Working(h)')
  <2>1. UNCHANGED <<mix, states, oldStates, parties, assigned, promised>>
    BY <1>1 DEF adminVars
  <2>2. \A x : StateFor(x)' = StateFor(x)
    BY <2>1 DEF StateFor, Migrated, Lmdb
  <2>3. Told' /\ KeptAll' /\ \A x \in Parties : PartyHeld(x)'
    BY <2>1, <2>2 DEF PromiseInv, Told, KeptAll, PartyHeld, PhoneOf
  <2>4. \A h \in Handlers : Working(h)' => PersonJob(jobs'[h], promised', parties', assigned')
    <3>1. CASE UNCHANGED jobs
      BY <2>1, <3>1 DEF PromiseInv, Working
    <3>2. CASE \A h \in Handlers : ~Working(h)'
      BY <3>2
    <3> QED
      BY <1>1, <3>1, <3>2
  <2> QED
    BY <2>3, <2>4 DEF PromiseInv
<1>2. CASE UNCHANGED accessVars
  BY <1>1, <1>2 DEF accessVars, requestVars
<1>3. CASE Rest
  <2>1. CASE Tick /\ UNCHANGED adminVars
    BY <1>1, <2>1 DEF Tick
  <2>2. CASE Restart
    BY <1>1, <2>2, NobodyWorks DEF Restart, Stopped
  <2> QED
    BY <1>3, <2>1, <2>2 DEF Rest
<1>4. ASSUME NEW h \in Handlers, PeopleNext(h) \/ KeeperNext(h) PROVE PromiseInv'
  BY <1>4, PeoplePromise, KeeperPromise DEF PeopleNext, KeeperNext
<1>5. (TokenPcs \cup {"keep"} \cup RolePcs \cup SettingPcs \cup PushPcs \cup GroupPcs) \cap StatePcs = {}
  BY CodePcsAre DEF CodePcs
<1>6. ASSUME NEW h \in Handlers,
             \/ SessionNext(h) \/ RolesNext(h) \/ SettingsNext(h)
             \/ PushNext(h) \/ GroupsNext(h) \/ DropNext(h)
      PROVE  PromiseInv'
  <2>1. UNCHANGED adminVars
    BY <1>6 DEF SessionNext, RolesNext, SettingsNext, PushNext, GroupsNext, DropNext
  <2>2. \E pcs : Lands(h, pcs) /\ pcs \cap StatePcs = {}
    BY <1>5, <1>6, StepsLand DEF Leads
  <2> QED
    BY <2>1, <2>2, ElsewherePromise
<1> QED
  BY <1>2, <1>3, <1>4, <1>6, StepsAre

LEMMA PromiseInvFirst ==
  ASSUME Init
  PROVE  PromiseInv
<1>1. promised = [r \in Refs |-> NoPromise] /\ FirstPhone \in Phones
  BY AdminStatesAssumption DEF Init, AdminInit
<1>2. PICK first : first = [mobile |-> FirstPhone, details |-> [kind |-> "", value |-> None]]
  OBVIOUS
<1>3. first \in PartyRecords
  <2>1. [kind |-> "", value |-> None] \in [kind : {"", "phone", "code"}, value : Phones \cup AccessCodes \cup {None}]
    OBVIOUS
  <2> QED
    BY <1>1, <1>2, <2>1 DEF PartyRecords
<1>4. parties = [r \in Parties |-> IF r \in Absentees THEN None ELSE first]
  BY <1>2 DEF Init, AdminInit
<1>5. Told
  <2>1. \A r \in Refs : promised[r] = NoPromise
    BY <1>1
  <2>2. promised = [r \in Refs |-> promised[r]]
    BY <1>1
  <2>3. parties \in [Parties -> PartyRecords \cup {None}]
    BY <1>3, <1>4
  <2> QED
    BY <2>1, <2>2, <2>3, NoPromiseIs DEF Told
<1>6. PICK p : /\ p = NoPromise /\ p.blocked = None /\ p.removed = None /\ p.code = None /\ p.phone = None
               /\ \A i \in Items : p.items[i] = None /\ p.rows[i] = None
  <2>1. PICK old : old = [i \in Items |-> None]
    OBVIOUS
  <2>2. PICK q : q = [blocked |-> None, removed |-> None, code |-> None, phone |-> None, items |-> old,
                     rows |-> old]
    OBVIOUS
  <2>3. NoPromise = q
    BY <2>1, <2>2 DEF NoPromise
  <2> QED
    BY <2>1, <2>2, <2>3
<1>8. \A r, s, rows : Fulfils(r, p, s) /\ Rows(r, p, rows)
  BY <1>6 DEF Fulfils, Rows
<1>9. KeptAll
  BY <1>1, <1>6, <1>8 DEF KeptAll
<1>10. \A r \in Parties : PartyHeld(r)
  BY <1>1, <1>6 DEF PartyHeld, Parties, Refs
<1>11. \A h \in Handlers : ~Working(h)
  BY DEF Init, RequestsInit, Working, Idle
<1> QED
  BY <1>5, <1>9, <1>10, <1>11 DEF PromiseInv

LEMMA PromisesAre ==
  ASSUME PromiseInv
  PROVE  PromisesHold
<1>1. ASSUME NEW r \in Suppliers
      PROVE  LET p == promised[r] IN
             /\ p.blocked # None => StateFor(r).blocked = p.blocked
             /\ p.removed # None => StateFor(r).removed = p.removed
             /\ p.code # None => SupplierCode(r, StateFor(r)) = p.code
             /\ p.phone # None => PhoneOf(r) = p.phone
             /\ \A i \in Items : p.items[i] # None => (i \in StateFor(r).items) = p.items[i]
             /\ \A i \in Items : p.rows[i] # None => HasRow(i, r, assigned) = p.rows[i]
  <2>1. r \in Refs /\ r \in Parties
    BY <1>1 DEF Refs, Parties
  <2>2. Fulfils(r, promised[r], StateFor(r)) /\ Rows(r, promised[r], assigned) /\ PartyHeld(r)
    BY <2>1 DEF PromiseInv, KeptAll
  <2> QED
    BY <2>2 DEF Fulfils, Rows, PartyHeld
<1> QED
  BY <1>1 DEF PromisesHold

LEMMA BarredShown ==
  ASSUME PromiseInv, NEW r \in Suppliers, promised[r].blocked = TRUE
  PROVE  r \in InactiveSuppliers
<1>1. r \in Refs /\ r \in Parties
  BY DEF Refs, Parties
<1>2. Fulfils(r, promised[r], StateFor(r)) /\ PartyHeld(r)
  BY <1>1 DEF PromiseInv, KeptAll
<1>3. parties[r] # None
  BY <1>2, StatesAssumption DEF PartyHeld
<1> QED
  BY <1>2, <1>3, StatesAssumption DEF Fulfils, InactiveSuppliers, SupplierEntries

\* Only its own steps bring a request on.
LEMMA MoverIs ==
  ASSUME Typed, [Next]_accessVars, NEW h \in Handlers, Working(h), Working(h)',
         jobs'[h].pc # jobs[h].pc
  PROVE  \/ SessionNext(h) \/ RolesNext(h) \/ PeopleNext(h) \/ SettingsNext(h)
         \/ KeeperNext(h) \/ PushNext(h) \/ GroupsNext(h)
<1>1. jobs' # jobs
  OBVIOUS
<1>2. ~Rest
  <2>1. CASE Tick
    BY <1>1, <2>1 DEF Tick
  <2>2. CASE Restart
    BY <2>2, NobodyWorks
  <2> QED
    BY <2>1, <2>2 DEF Rest
<1>3. Next
  BY <1>1 DEF accessVars, requestVars
<1>4. PICK g \in Handlers :
        \/ SessionNext(g) \/ RolesNext(g) \/ PeopleNext(g) \/ SettingsNext(g)
        \/ KeeperNext(g) \/ PushNext(g) \/ GroupsNext(g) \/ DropNext(g)
  BY <1>2, <1>3, StepsAre
<1>5. OthersKept(g)
  BY <1>4, StepsLand DEF Leads, Lands, KeeperStored
<1>6. g = h
  BY <1>5, SameFields
<1>7. ~DropNext(h)
  BY LandsIdle DEF DropNext, Dropped
<1> QED
  BY <1>4, <1>6, <1>7

LEMMA DecidesLogin ==
  ASSUME Typed, [Next]_accessVars, NEW h \in Handlers, Reaches(h, "login", "decide", "create")
  PROVE  DecideLogin(h)
<1>1. /\ Working(h) /\ Working(h)' /\ jobs[h].pc = "decide" /\ jobs'[h].pc = "create"
  BY DEF Reaches, At, Working
<1>2. \/ SessionNext(h) \/ RolesNext(h) \/ PeopleNext(h) \/ SettingsNext(h)
      \/ KeeperNext(h) \/ PushNext(h) \/ GroupsNext(h)
  BY <1>1, MoverIs
<1>3. "create" \notin TokenPcs \cup {"keep"} \cup RolePcs \cup SettingPcs \cup PushPcs \cup GroupPcs
  BY DEF TokenPcs, LoadPcs, RecordPcs, ProfilePcs, RolePcs, SettingPcs, PushPcs, GroupPcs
<1>4. PeopleNext(h) \/ KeeperNext(h)
  BY <1>1, <1>2, <1>3, StepsLand DEF Leads, Lands
<1>5. CASE KeeperNext(h)
  BY <1>1, <1>5 DEF KeeperNext, WerkaStep, AskWerkaCode, LoginWerka, Begin, WerkaState, WerkaCode,
     WerkaConfig, WerkaIdentity, WerkaPersist, CompareWerka, At
<1>6. CASE AdminBegin(h)
  BY <1>1, <1>6 DEF AdminBegin, AskSupplier, AskNewSupplier, AskCustomer, AskLogin, BeginState, Begin
<1>7. CASE AdminFails(h)
  <2>1. Finish(h)
    BY <1>7 DEF AdminFails, Fails
  <2> QED
    BY <1>1, <2>1, LandsIdle
<1>8. CASE AdminStep(h) /\ ~AdminFails(h)
  BY <1>1, <1>8 DEF AdminStep, At, Entry, SupplierState, RegenerateCode, KnownItems, SyncItems,
     InsertRow, ReadRows, DeleteRows, Restate, PutState, WriteFile, StateCodes, CustomerState,
     CustomerCode, UpdateCustomerCode, UpdatePhone, SearchPhone, CreateParty, SearchParties
<1> QED
  BY <1>4, <1>5, <1>6, <1>7, <1>8 DEF PeopleNext

LEMMA JudgesAct ==
  ASSUME Typed, [Next]_accessVars, NEW h \in Handlers, Reaches(h, "act", "judge", "granted")
  PROVE  Judge(h)
<1>1. /\ Working(h) /\ Working(h)' /\ jobs[h].pc = "judge" /\ jobs'[h].pc = "granted"
  BY DEF Reaches, At, Working
<1>2. \/ SessionNext(h) \/ RolesNext(h) \/ PeopleNext(h) \/ SettingsNext(h)
      \/ KeeperNext(h) \/ PushNext(h) \/ GroupsNext(h)
  BY <1>1, MoverIs
<1>3. "granted" \notin TokenPcs \cup {"keep"} \cup PersonPcs \cup SettingPcs \cup KeeperPcs
                         \cup PushPcs \cup GroupPcs \cup {"config"}
  BY DEF TokenPcs, LoadPcs, RecordPcs, ProfilePcs, PersonPcs, AdminWaits, SettingPcs, KeeperPcs,
     PushPcs, GroupPcs
<1>4. RolesNext(h)
  BY <1>1, <1>2, <1>3, StepsLand DEF Leads, Lands, KeeperStored
<1> QED
  BY <1>1, <1>4 DEF RolesNext, RoleStep, AskRole, AskAssignment, BeginRole, Begin, At, Invalid,
     PutRole, CheckRole, PutAssignment, Authorize, Act

\* A login that goes on is of a person whose blocking has not been confirmed.
LEMMA BarredKeptOut ==
  ASSUME Typed, PromiseInv, NEW h \in Handlers, DecideLogin(h), Working(h)'
  PROVE  promised[jobs'[h].copy.ref].blocked # TRUE
<1>1. Working(h) /\ jobs[h].pc = "decide" /\ jobs[h].copy \subseteq Parties
  <2>1. Working(h) /\ jobs[h].pc = "decide"
    BY DEF DecideLogin, At
  <2>2. AdminJob(jobs[h])
    BY <2>1, JobOf DEF OpenJob
  <2> QED
    BY <2>1, <2>2 DEF AdminJob
<1>2. PICK found :
        found = {r \in jobs[h].copy : IF r \in Suppliers THEN LoginSupplier(r, jobs[h].arg.code)
                                      ELSE LoginCustomerParty(r, jobs[h].arg.code)}
  OBVIOUS
<1>3. CASE Finish(h)
  BY <1>3, LandsIdle
<1>4. CASE ~Finish(h)
  <2>1. PICK role : role = RoleOfCode(jobs[h].arg.code)
    OBVIOUS
  <2>2. PICK r \in found :
          GoWith(h, "create", [role |-> role, ref |-> r, name |-> r, avatar |-> ""])
    BY <1>2, <1>4, <2>1 DEF DecideLogin
  <2>3. PICK copy : copy = [role |-> role, ref |-> r, name |-> r, avatar |-> ""]
    OBVIOUS
  <2>4. PICK k : k = Moved(jobs[h], "create", jobs[h].arg, copy, jobs[h].phase)
    OBVIOUS
  <2>5. jobs'[h].copy.ref = r
    <3>1. Continue(h, k)
      BY <1>1, <2>2, <2>3, <2>4, Goes
    <3>2. jobs'[h] = k
      BY <3>1, Continues
    <3>3. k.copy = copy /\ copy.ref = r
      BY <2>3, <2>4 DEF Moved
    <3> QED
      BY <3>2, <3>3
  <2>6. r \in Parties /\ r \in Refs
    BY <1>1, <1>2 DEF Parties, Refs
  <2>7. CASE r \in Suppliers
    <3>1. ~StateFor(r).blocked
      BY <1>2, <2>7 DEF LoginSupplier
    <3>2. Fulfils(r, promised[r], StateFor(r))
      BY <2>6 DEF PromiseInv, KeptAll
    <3> QED
      BY <2>5, <3>1, <3>2, StatesAssumption DEF Fulfils
  <2>8. CASE r \notin Suppliers
    BY <2>5, <2>6, <2>8, NothingHeld, StatesAssumption
  <2> QED
    BY <2>7, <2>8
<1> QED
  BY <1>3, <1>4

\* A person who may act has what the definition of the role says.
LEMMA GrantsKept ==
  ASSUME Typed, RoleInv, NEW h \in Handlers, Judge(h), Working(h)'
  PROVE  GrantKept(jobs[h])
<1>1. PICK a, needs, principal :
        a = jobs[h].copy.assignment /\ needs = jobs[h].arg.needs /\ principal = jobs[h].copy.principal
  OBVIOUS
<1>2. ~Finish(h)
  BY LandsIdle
<1>3. Allowed(principal, a, needs)
  BY <1>1, <1>2 DEF Judge
<1>4. ASSUME a # None, <<"role", a.role>> \in DOMAIN roleKept, roleKept[<<"role", a.role>>] # None
      PROVE  needs \in roleKept[<<"role", a.role>>]
  <2>1. a.role \in DOMAIN AllRoles /\ needs \in AllRoles[a.role]
    BY <1>3, <1>4 DEF Allowed
  <2>2. a.role \notin DOMAIN SystemRoles
    BY <1>4 DEF RoleInv, RoleKey
  <2>3. PICK id, k : id = a.role /\ k = <<"role", id>> /\ k[1] = "role" /\ k[2] = id
    <3>1. PICK id : id = a.role
      OBVIOUS
    <3>2. <<"role", id>>[1] = "role" /\ <<"role", id>>[2] = id
      OBVIOUS
    <3> QED
      BY <3>1, <3>2
  <2>4. InMemory.roles[a.role] = roleKept[<<"role", a.role>>]
    BY <1>4, <2>3 DEF RoleInv, RolesHold
  <2>5. AllRoles[a.role] = InMemory.roles[a.role]
    BY <2>1, <2>2 DEF AllRoles, Over
  <2> QED
    BY <2>1, <2>4, <2>5
<1> QED
  BY <1>1, <1>4 DEF GrantKept

LEMMA BarredStep ==
  ASSUME Typed, PromiseInv, RoleInv, [Next]_accessVars
  PROVE  [\A h \in Handlers :
            /\ Reaches(h, "login", "decide", "create") =>
                 promised[jobs'[h].copy.ref].blocked # TRUE
            /\ Reaches(h, "act", "judge", "granted") => GrantKept(jobs[h])]_accessVars
<1>1. ASSUME NEW h \in Handlers, Reaches(h, "login", "decide", "create")
      PROVE  promised[jobs'[h].copy.ref].blocked # TRUE
  BY <1>1, DecidesLogin, BarredKeptOut DEF Reaches, Working
<1>2. ASSUME NEW h \in Handlers, Reaches(h, "act", "judge", "granted")
      PROVE  GrantKept(jobs[h])
  <2>1. Judge(h)
    BY <1>2, JudgesAct
  <2>2. Working(h)'
    BY <1>2 DEF Reaches, Working
  <2> QED
    BY <2>1, <2>2, GrantsKept
<1> QED
  BY <1>1, <1>2

(* What was confirmed of a supplier and not raced is what the store says   *)
(* of it, and what ERPNext says of its phone and of the rows of its items, *)
(* until it is changed by a request about it, or about a customer of the   *)
(* same name (store/admin_state_store keeps both under it): of a whole set *)
(* of items, only the rows which the catalog told the request rightly, for *)
(* that is read late, in part and without what is disabled (core/admin).   *)
THEOREM SupplierPromisesHold == Spec => []PromisesHold
<1>1. Init => Typed /\ SessionInv /\ PromiseInv
  BY InitTyped, SessionsBegin, PromiseInvFirst
<1>2. Typed /\ SessionInv /\ PromiseInv /\ [Next]_accessVars
        => Typed' /\ SessionInv' /\ PromiseInv'
  BY TypedStep, SessionsStep, PromiseInvStep DEF SessionInv
<1>3. PromiseInv => PromisesHold
  BY PromisesAre
<1> QED
  BY <1>1, <1>2, <1>3, PTL DEF Spec

(* A supplier whose blocking was confirmed does not log in until that is   *)
(* taken back, and the list of inactive suppliers shows it, whatever names *)
(* suppliers and customers share; and whoever is let through to act with   *)
(* an assigned role has what the confirmed definition of that role grants  *)
(* (core/admin/login, core/authz).                                         *)
THEOREM BarredStaysOutHolds == Spec => BarredStaysOut
<1>1. Init => Typed /\ SessionInv /\ RoleInv /\ PromiseInv
  BY InitTyped, SessionsBegin, RoleInvFirst, PromiseInvFirst
<1>2. Typed /\ SessionInv /\ RoleInv /\ PromiseInv /\ [Next]_accessVars
        => Typed' /\ SessionInv' /\ RoleInv' /\ PromiseInv'
  BY TypedStep, SessionsStep, RoleInvStep, PromiseInvStep DEF SessionInv
<1>3. Typed /\ RoleInv /\ PromiseInv /\ [Next]_accessVars
        => [\A h \in Handlers :
              /\ Reaches(h, "login", "decide", "create") =>
                   promised[jobs'[h].copy.ref].blocked # TRUE
              /\ Reaches(h, "act", "judge", "granted") => GrantKept(jobs[h])]_accessVars
  BY BarredStep
<1>4. PromiseInv => \A r \in Suppliers : promised[r].blocked = TRUE => r \in InactiveSuppliers
  BY BarredShown
<1> QED
  BY <1>1, <1>2, <1>3, <1>4, PTL DEF Spec, BarredStaysOut

(* What was acknowledged is kept, all of it: the promises about suppliers, *)
(* the roles, the owners of devices, the code of the warehouse keeper, the *)
(* groups that take children, and the nickname, in the memory and in the   *)
(* file (core/admin, core/authz, core/profile, store); the rows of a whole *)
(* set of items as far as the catalog told the request rightly.            *)
THEOREM AcknowledgedIsKept == Spec => []AcknowledgedHolds
<1> DEFINE AllInv == GroupInv /\ CodeInv /\ RoleInv /\ PromiseInv /\ PushInv /\ PrefsInv
<1>1. Init => Typed /\ SessionInv /\ AllInv
  BY InitTyped, SessionsBegin, GroupInvFirst, CodeInvFirst, RoleInvFirst, PromiseInvFirst,
     PushInvFirst, PrefsInvFirst
<1>2. Typed /\ SessionInv /\ AllInv /\ [Next]_accessVars => Typed' /\ SessionInv' /\ AllInv'
  BY TypedStep, SessionsStep, GroupInvStep, CodeInvStep, RoleInvStep, PromiseInvStep,
     PushInvStep, PrefsInvStep DEF SessionInv
<1>3. AllInv => AcknowledgedHolds
  <2>1. AllInv => PromisesHold /\ OneOwner
    BY PromisesAre, OwnerIsOne
  <2>2. AllInv => RolesHold /\ CodeAgrees /\ GroupsAccept
    BY DEF RoleInv, CodeInv, GroupInv
  <2>3. AllInv => (chosen = "chosen" => prefs # None /\ prefs.nickname = "chosen" /\ prefsDisk = prefs)
    BY DEF PrefsInv, NicknameKept
  <2> QED
    BY <2>1, <2>2, <2>3 DEF AcknowledgedHolds
<1> QED
  BY <1>1, <1>2, <1>3, PTL DEF Spec
==============================================================================
