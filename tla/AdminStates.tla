----------------------------- MODULE AdminStates -----------------------------
(***************************************************************************)
(* What this server keeps about suppliers and customers (core/admin with   *)
(* store/admin_state_store), what ERPNext keeps of them (erpnext/admin),   *)
(* and the login that reads both (core/auth). A change of a person's state *)
(* reads the whole record, and writes it whole later; no lock is held in   *)
(* between.                                                                *)
(***************************************************************************)
EXTENDS Roles

CONSTANTS
  Suppliers, Customers,    \* refs, those of ERPNext and those to be created
  Absentees,               \* those not in ERPNext yet
  Items, Codes, Phones, FirstPhone,
  Window, MaxCodeRegens    \* CODE_REGEN_WINDOW_SECONDS, MAX_CODE_REGENS_PER_WINDOW

ASSUME AdminStatesAssumption ==
  /\ Absentees \subseteq Suppliers \cup Customers /\ FirstPhone \in Phones
  /\ {Window, MaxCodeRegens} \subseteq Nat \ {0}
  /\ Suppliers \cup Customers \subseteq STRING \ {"werka"} /\ Codes \subseteq STRING

Refs == Suppliers \cup Customers \cup {"werka"}
Parties == Suppliers \cup Customers

VARIABLES
  states,      \* ref -> the record of the store, or None
  oldStates,   \* the records of the JSON file of an earlier version (LMDB)
  parties,     \* ref -> [mobile, details] in ERPNext, or None
  assigned,    \* rows of the items in ERPNext (AreRows)
  promised,    \* history: ref -> what was confirmed and not raced since
  regens       \* history: ref -> when stored codes were made, or None after a race

stateVars == <<states, oldStates>>
erpVars == <<parties, assigned>>
adminVars == <<states, oldStates, parties, assigned, promised, regens>>

------------------------------------------------------------------------------
(* The stores. The LMDB store first copies the records of the old file it  *)
(* does not have; since none is ever deleted, it reads as if they were     *)
(* there. The JSON store reads its file, changes it and writes it back.    *)
NoState == [code |-> None, blocked |-> FALSE, removed |-> FALSE, items |-> {},
            started |-> None, count |-> 0, cooldown |-> None]
AccessCodes == [prefix : {"10", "20", "30", "40"}, n : STRING]
StateRecords == [code : AccessCodes \cup {None}, blocked : BOOLEAN, removed : BOOLEAN,
                 items : SUBSET Items, started : Nat \cup {None}, count : Nat,
                 cooldown : Nat \cup {None}]

(* What ERPNext keeps of a person: the phone, and a line of the details.   *)
PartyRecords == [mobile : Phones \cup {None},
                 details : [kind : {"", "phone", "code"},
                            value : Phones \cup AccessCodes \cup {None}]]

(* A row of an item names a supplier or a customer. ERPNext gives each row *)
(* a name of its own, and does not mind several for one supplier.          *)
AreRows(rows) ==
  \A row \in rows : row.kind \in {"supplier", "customer"} /\ row.item \in Items /\ row.ref \in Parties
NewRow(kind, item, r, h) ==
  [kind |-> kind, item |-> item, ref |-> r, name |-> <<requests, h>>]
HasRow(item, r, rows) ==
  \E row \in rows : row.kind = "supplier" /\ row.item = item /\ row.ref = r

ASSUME StatesAssumption ==
  None \notin StateRecords /\ None \notin AccessCodes /\ None \notin PartyRecords \cup BOOLEAN

Migrated_BadOldFileWins ==
  [r \in Refs |-> IF Lmdb /\ oldStates[r] # None THEN oldStates[r] ELSE states[r]]

Migrated == [r \in Refs |-> IF Lmdb /\ states[r] = None THEN oldStates[r] ELSE states[r]]

StateFor(r) == IF Migrated[r] = None THEN NoState ELSE Migrated[r]

(* A change by JSON may undo the change of any other record.               *)
Keys(r) == IF Lmdb THEN {r} ELSE {r, "states"}

CodeLocked(state) == state.cooldown # None /\ now < state.cooldown

(* The code of a supplier is derived from the ref until one is made.       *)
SupplierCode(r, state) ==
  IF state.code # None THEN state.code ELSE [prefix |-> "10", n |-> r]

SupplierEntries == {r \in Suppliers : parties[r] # None}
AdminSuppliers == {r \in SupplierEntries : ~StateFor(r).removed}
InactiveSuppliers ==
  {r \in SupplierEntries : StateFor(r).blocked \/ StateFor(r).removed}
SupplierSummary ==
  [total |-> Cardinality(SupplierEntries), blocked |-> Cardinality(InactiveSuppliers),
   active |-> Cardinality(SupplierEntries) - Cardinality(InactiveSuppliers)]
CustomersPage == {r \in Customers : parties[r] # None /\ ~StateFor(r).removed}

ExistingCodes ==
  {SupplierCode(r, StateFor(r)) : r \in AdminSuppliers}
ExistingStateCodes == {StateFor(r).code : r \in {x \in Refs : StateFor(x).code # None}}

Bump_BadOffByOne(state) ==
  LET fresh == state.started = None \/ now - state.started >= Window
      started == IF fresh THEN now ELSE state.started
      count == IF fresh THEN 1 ELSE state.count + 1 IN
  [state EXCEPT !.started = started, !.count = count,
     !.cooldown = IF count > MaxCodeRegens THEN started + Window
                  ELSE IF fresh THEN None ELSE @]

(* A new code: the window of the first one is over, or the count goes on   *)
(* and the last one of the window starts the cooldown.                     *)
Bump(state) ==
  LET fresh == state.started = None \/ now - state.started >= Window
      started == IF fresh THEN now ELSE state.started
      count == IF fresh THEN 1 ELSE state.count + 1 IN
  [state EXCEPT !.started = started, !.count = count,
     !.cooldown = IF count >= MaxCodeRegens THEN started + Window
                  ELSE IF fresh THEN None ELSE @]

RandomCodes(prefix, existing) == {[prefix |-> prefix, n |-> c] : c \in Codes} \ existing
CustomerPrefix(r) ==
  IF LET known == InMemory.assignments IN
     \E k \in DOMAIN known : known[k].role = "aparatchi" /\ known[k].ref = r
  THEN "40" ELSE "30"

------------------------------------------------------------------------------
(* What a request confirms about its ref; while it runs, nothing is known. *)
(* The items are those of the state, the rows those of ERPNext: of a whole *)
(* set of items, only the rows the request was told rightly. The store     *)
(* knows a person by the ref alone: what is changed of a customer is       *)
(* changed of the supplier of that name too, who only stays blocked.       *)
CustomerChanges == {"removeCustomer", "regenerateCustomer", "customerPhone"}
NoPromise == [blocked |-> None, removed |-> None, code |-> None, phone |-> None,
              items |-> [i \in Items |-> None], rows |-> [i \in Items |-> None]]
Intended(promise, op, arg, value(_)) ==
  [blocked |-> CASE op \in {"block", "unblock"} -> value(op = "block")
                 [] op \in {"remove", "restore"} -> value(op = "remove")
                 [] op \in CustomerChanges -> IF promise.blocked = TRUE THEN TRUE ELSE None
                 [] OTHER -> promise.blocked,
   removed |-> CASE op \in {"remove", "restore"} -> value(op = "remove")
                 [] op = "createSupplier" -> value(FALSE)
                 [] op \in CustomerChanges -> None
                 [] OTHER -> promise.removed,
   code |-> CASE op = "regenerate" -> value(arg.code)
              [] op \in CustomerChanges -> None
              [] OTHER -> promise.code,
   phone |-> CASE op = "supplierPhone" -> value(arg.phone)
               [] op \in CustomerChanges -> None
               [] OTHER -> promise.phone,
   items |-> [i \in Items |->
     CASE op \in {"assign", "unassign"} /\ i = arg.item -> value(op = "assign")
       [] op = "items" -> value(i \in arg.items)
       [] OTHER -> promise.items[i]],
   rows |-> [i \in Items |->
     CASE op \in {"assign", "unassign"} /\ i = arg.item -> value(op = "assign")
       [] op = "items" -> IF i \in arg.right THEN value(i \in arg.items) ELSE None
       [] OTHER -> promise.rows[i]]]

(* A request that overlaps another on the same ref, or on the same JSON    *)
(* file, makes what is kept uncertain.                                     *)
Raced(keys) == \E g \in Handlers : On(g, keys)
StateOps == {"block", "unblock", "remove", "restore", "assign", "unassign", "items",
             "supplierPhone", "regenerate", "createSupplier", "regenerateCustomer",
             "removeCustomer", "customerPhone", "createCustomer", "assignCustomer",
             "unassignCustomer", "regenerateWerka"}

BeginState(h, op, pc, r, arg) ==
  LET nothing(v) == None
      keys == Keys(r) IN
  /\ Begin(h, op, pc, keys, arg)
  /\ promised' = [x \in Refs |->
       IF Raced(keys) /\ (x = r \/ ~Lmdb) THEN NoPromise
       ELSE IF x = r THEN Intended(promised[r], op, arg, nothing) ELSE promised[x]]
  /\ regens' = [x \in Refs |-> IF Raced(keys) /\ (x = r \/ ~Lmdb) THEN None ELSE regens[x]]

(* The answer.                                                             *)
Confirm(h) ==
  LET it(v) == v
      r == jobs[h].arg.ref IN
  /\ promised' = IF jobs[h].alone
                 THEN [promised EXCEPT ![r] = Intended(@, jobs[h].op, jobs[h].arg, it)]
                 ELSE promised
  /\ Finish(h)

------------------------------------------------------------------------------
(* Suppliers: the entry in ERPNext, then the state here.                   *)
SupplierOps == {"block", "unblock", "remove", "restore", "assign", "unassign", "items",
                "supplierPhone", "regenerate"}

AskSupplier(h, op, r, arg) ==
  /\ BeginState(h, op, "entry", r, arg)
  /\ UNCHANGED <<stateVars, erpVars>>

Ref(h) == jobs[h].arg.ref
Fails(h) == Fault /\ Finish(h) /\ UNCHANGED adminVars

Entry(h) ==
  /\ At(h, "entry")
  /\ IF parties[Ref(h)] = None THEN Finish(h) ELSE Go(h, "state")
  /\ NoFault /\ UNCHANGED adminVars

(* The next step, and the state that is to be written if it is that.       *)
SupplierNext(h, state) ==
  LET op == jobs[h].op IN
  IF state.removed /\ op # "restore" THEN Finish(h)
  ELSE CASE op \in {"block", "unblock"} -> GoWith(h, "put", [state EXCEPT !.blocked = op = "block"])
    [] op \in {"remove", "restore"} ->
         GoWith(h, "put", [state EXCEPT !.removed = op = "remove", !.blocked = op = "remove"])
    [] op = "regenerate" -> GoWith(h, "codes", state)
    [] op = "supplierPhone" -> Go(h, "erpPhone")
    [] op = "assign" -> Go(h, "insertRow")
    [] op = "unassign" -> Go(h, "rows")
    [] op = "items" -> Go(h, "known")

SupplierState(h) ==
  /\ At(h, "state") /\ jobs[h].op \in SupplierOps
  /\ SupplierNext(h, StateFor(Ref(h)))
  /\ NoFault /\ UNCHANGED adminVars

RegenerateCode(h) ==
  /\ At(h, "codes") /\ jobs[h].op = "regenerate"
  /\ IF CodeLocked(jobs[h].copy) THEN Finish(h)
     ELSE \E code \in RandomCodes("10", ExistingCodes) :
            Continue(h, [jobs[h] EXCEPT !.pc = "put", !.arg.code = code,
                                        !.arg.made = now, !.copy = [Bump(@) EXCEPT !.code = code]])
  /\ NoFault /\ UNCHANGED adminVars

(* Items of a supplier: rows in ERPNext, then the list of the state. The   *)
(* items must be known. The rows there are are read from a catalog that is *)
(* as old as its last sync, at most 200 of them and without the items that *)
(* are disabled or not stocked: the answer may be of any items.            *)
GoAsking(h, pc, arg) == Continue(h, [jobs[h] EXCEPT !.pc = pc, !.arg = arg])
ToldRightly(h, has) == {i \in Items : i \in has <=> HasRow(i, Ref(h), assigned)}

KnownItems(h) ==
  /\ At(h, "known")
  /\ LET arg == jobs[h].arg IN
     \/ arg.items # {} /\ Finish(h)
     \/ \E has \in SUBSET Items :
          GoAsking(h, "sync", [arg EXCEPT !.right = ToldRightly(h, has), !.add = arg.items \ has,
                                          !.drop = has \ arg.items])
  /\ NoFault /\ UNCHANGED adminVars

(* What is missing is added item by item, what is superfluous dropped.     *)
SyncItems(h) ==
  /\ At(h, "sync")
  /\ LET arg == jobs[h].arg IN
     \/ \E i \in arg.add :
          /\ assigned' = assigned \cup {NewRow("supplier", i, Ref(h), h)}
          /\ GoAsking(h, "sync", [arg EXCEPT !.add = @ \ {i}])
     \/ \E i \in arg.drop :
          /\ arg.add = {} /\ UNCHANGED assigned
          /\ GoAsking(h, "rows", [arg EXCEPT !.item = i, !.drop = @ \ {i}])
     \/ arg.add = {} /\ arg.drop = {} /\ Go(h, "restate") /\ UNCHANGED assigned
  /\ NoFault /\ UNCHANGED <<states, oldStates, parties, promised, regens>>

InsertRow(h) ==
  /\ At(h, "insertRow")
  /\ LET kind == IF jobs[h].op = "assign" THEN "supplier" ELSE "customer" IN
     assigned' = assigned \cup {NewRow(kind, jobs[h].arg.item, Ref(h), h)}
  /\ IF jobs[h].op = "assign" THEN Go(h, "restate") ELSE Finish(h)
  /\ NoFault /\ UNCHANGED <<states, oldStates, parties, promised, regens>>

(* An item is read with its rows: those of the supplier are then deleted   *)
(* one by one, and the default supplier is cleared; those of a customer    *)
(* are dropped by writing back all the other customers' that were read.    *)
ItemRows(kind, item) == {row \in assigned : row.kind = kind /\ row.item = item}

ReadRows(h) ==
  /\ At(h, "rows")
  /\ GoWith(h, "deleteRows",
       IF jobs[h].op = "unassignCustomer" THEN ItemRows("customer", jobs[h].arg.item)
       ELSE {row \in ItemRows("supplier", jobs[h].arg.item) : row.ref = Ref(h)})
  /\ NoFault /\ UNCHANGED adminVars

(* A row that is gone already is not found, and the request fails.         *)
DeleteRow(h) ==
  \/ \E row \in jobs[h].copy :
       /\ assigned' = assigned \ {row}
       /\ IF row \in assigned THEN GoWith(h, "deleteRows", jobs[h].copy \ {row}) ELSE Finish(h)
  \/ /\ jobs[h].copy = {} /\ UNCHANGED assigned
     /\ Go(h, IF jobs[h].op = "items" THEN "sync" ELSE "restate")

DeleteRows(h) ==
  /\ At(h, "deleteRows")
  /\ IF jobs[h].op # "unassignCustomer" THEN DeleteRow(h)
     ELSE /\ assigned' = (assigned \ ItemRows("customer", jobs[h].arg.item))
                         \cup {row \in jobs[h].copy : row.ref # Ref(h)}
          /\ Finish(h)
  /\ NoFault /\ UNCHANGED <<states, oldStates, parties, promised, regens>>

Restated_BadFresh(job, state) ==
  CASE job.op = "assign" -> [NoState EXCEPT !.items = state.items \cup {job.arg.item}]
    [] job.op = "unassign" -> [NoState EXCEPT !.items = state.items \ {job.arg.item}]
    [] job.op = "items" -> [NoState EXCEPT !.items = job.arg.items]
    [] job.op = "createSupplier" -> NoState

Restated(job, state) ==
  CASE job.op = "assign" -> [state EXCEPT !.items = @ \cup {job.arg.item}]
    [] job.op = "unassign" -> [state EXCEPT !.items = @ \ {job.arg.item}]
    [] job.op = "items" -> [state EXCEPT !.items = job.arg.items]
    [] job.op = "createSupplier" -> [state EXCEPT !.removed = FALSE, !.blocked = FALSE]

Restate(h) ==
  /\ At(h, "restate")
  /\ LET state == StateFor(Ref(h)) IN
     IF jobs[h].op = "createSupplier" /\ ~state.removed
     THEN Confirm(h) ELSE GoWith(h, "put", Restated(jobs[h], state)) /\ UNCHANGED promised
  /\ NoFault /\ UNCHANGED <<stateVars, erpVars, regens>>

------------------------------------------------------------------------------
(* Writing a state.                                                        *)
Stored(h) ==
  /\ regens' = IF jobs[h].op \in {"regenerate", "regenerateCustomer", "regenerateWerka"}
                  /\ regens[Ref(h)] # None
               THEN [regens EXCEPT ![Ref(h)] = Append(@, jobs[h].arg.made)] ELSE regens
  /\ IF jobs[h].op = "regenerateCustomer" THEN Go(h, "erpCode") /\ UNCHANGED promised
     ELSE IF jobs[h].op = "regenerateWerka" THEN Go(h, "config") /\ UNCHANGED promised
     ELSE Confirm(h)

PutState(h) ==
  /\ At(h, "put")
  /\ IF Lmdb
     THEN states' = [Migrated EXCEPT ![Ref(h)] = jobs[h].copy] /\ Stored(h)
     ELSE /\ Continue(h, [jobs[h] EXCEPT !.pc = "write",
                            !.copy = [states EXCEPT ![Ref(h)] = jobs[h].copy]])
          /\ UNCHANGED <<states, promised, regens>>
  /\ NoFault /\ UNCHANGED <<oldStates, erpVars>>

WriteFile(h) ==
  /\ At(h, "write")
  /\ states' = jobs[h].copy /\ Stored(h)
  /\ NoFault /\ UNCHANGED <<oldStates, erpVars>>

------------------------------------------------------------------------------
(* Customers. Their phone is the mobile number and, without one, a line of *)
(* the details, which hold one line only: the phone or the code.           *)
PhoneOf(r) == IF parties[r].mobile # None THEN parties[r].mobile
              ELSE IF parties[r].details.kind = "phone" THEN parties[r].details.value ELSE None

AskCustomer(h, op, r, arg) ==
  /\ BeginState(h, op, CASE op = "customerPhone" -> "erpPhone"
                         [] op = "regenerateCustomer" -> "stateCodes"
                         [] op = "createCustomer" -> "search"
                         [] OTHER -> "entry", r, arg)
  /\ UNCHANGED <<stateVars, erpVars>>

StateCodes(h) ==
  /\ At(h, "stateCodes")
  /\ IF parties[Ref(h)] = None THEN Finish(h)
     ELSE Continue(h, [jobs[h] EXCEPT !.pc = "state", !.arg.existing = ExistingStateCodes])
  /\ NoFault /\ UNCHANGED adminVars

CustomerState(h) ==
  /\ At(h, "state") /\ jobs[h].op \notin SupplierOps
  /\ LET op == jobs[h].op
         state == StateFor(Ref(h)) IN
     IF op = "removeCustomer"
     THEN GoWith(h, "put", [state EXCEPT !.removed = TRUE, !.blocked = TRUE])
     ELSE IF op = "regenerateCustomer"
     THEN IF CodeLocked(state) THEN Finish(h)
          ELSE Continue(h, [jobs[h] EXCEPT !.pc = "prefix", !.arg.made = now,
                                           !.copy = Bump(state)])
     ELSE IF state.removed THEN Finish(h)
     ELSE Go(h, IF op = "assignCustomer" THEN "insertRow" ELSE "rows")
  /\ NoFault /\ UNCHANGED adminVars

CustomerCode(h) ==
  /\ At(h, "prefix")
  /\ \E code \in RandomCodes(CustomerPrefix(Ref(h)), jobs[h].arg.existing) :
       Continue(h, [jobs[h] EXCEPT !.pc = "put", !.arg.code = code, !.copy.code = code])
  /\ NoFault /\ UNCHANGED adminVars

UpdateCustomerCode(h) ==
  /\ At(h, "erpCode")
  /\ parties' = [parties EXCEPT ![Ref(h)].details =
                   [kind |-> "code", value |-> jobs[h].arg.code]]
  /\ Finish(h)
  /\ NoFault /\ UNCHANGED <<stateVars, assigned, promised, regens>>

UpdatePhone(h) ==
  /\ At(h, "erpPhone")
  /\ LET line == [kind |-> "phone", value |-> jobs[h].arg.phone] IN
     parties' = [parties EXCEPT ![Ref(h)] =
       IF @ = None THEN None
       ELSE IF jobs[h].op = "supplierPhone" THEN [mobile |-> line.value, details |-> line]
       ELSE [@ EXCEPT !.details = line]]
  /\ IF parties[Ref(h)] = None THEN Finish(h) /\ UNCHANGED promised ELSE Confirm(h)
  /\ NoFault /\ UNCHANGED <<stateVars, assigned, regens>>

(* A customer is created unless one with the phone is found.               *)
SearchPhone(h) ==
  /\ At(h, "search")
  /\ IF \E r \in Customers : parties[r] # None /\ PhoneOf(r) = jobs[h].arg.phone
     THEN Finish(h) ELSE Go(h, "post")
  /\ NoFault /\ UNCHANGED adminVars

CreateParty(h) ==
  /\ At(h, "post")
  /\ IF parties[Ref(h)] # None THEN Finish(h) /\ UNCHANGED parties
     ELSE /\ parties' = [parties EXCEPT ![Ref(h)] =
               [mobile |-> jobs[h].arg.phone,
                details |-> IF jobs[h].op = "createSupplier"
                            THEN [kind |-> "phone", value |-> jobs[h].arg.phone]
                            ELSE [kind |-> "", value |-> None]]]
          /\ IF jobs[h].op = "createSupplier" THEN Go(h, "restate") ELSE Finish(h)
  /\ NoFault /\ UNCHANGED <<stateVars, assigned, promised, regens>>

AskNewSupplier(h, r, p) ==
  /\ BeginState(h, "createSupplier", "post", r, [ref |-> r, phone |-> p])
  /\ UNCHANGED <<stateVars, erpVars>>

------------------------------------------------------------------------------
(* Login: who has the phone, then what is known of them here. The person   *)
(* enters the phone and the code that are theirs at that time.             *)
AskLogin(h, r) ==
  /\ parties[r] # None
  /\ Begin(h, "login", "find", {h},
       [ref |-> r, phone |-> PhoneOf(r),
        code |-> IF r \in Suppliers THEN SupplierCode(r, StateFor(r)) ELSE StateFor(r).code])
  /\ UNCHANGED adminVars

(* The code says whose it may be: a supplier's or a customer's.            *)
SearchParties(h) ==
  /\ At(h, "find")
  /\ LET code == jobs[h].arg.code
         kind == IF code # None /\ code.prefix = "10" THEN Suppliers ELSE Customers IN
     IF code = None THEN Finish(h)
     ELSE GoWith(h, "decide", {r \in kind : parties[r] # None /\ PhoneOf(r) = jobs[h].arg.phone})
  /\ NoFault /\ UNCHANGED adminVars

LoginSupplier_BadIgnoresBlocked(r, code) ==
  ~StateFor(r).removed /\ SupplierCode(r, StateFor(r)) = code

LoginSupplier(r, code) ==
  ~StateFor(r).removed /\ ~StateFor(r).blocked /\ SupplierCode(r, StateFor(r)) = code

LoginCustomerParty(r, code) == StateFor(r).code # None /\ StateFor(r).code = code

RoleOfCode(code) ==
  CASE code.prefix = "10" -> "supplier" [] code.prefix = "20" -> "werka"
    [] code.prefix = "40" -> "aparatchi" [] code.prefix = "30" -> "customer"

DecideLogin(h) ==
  /\ At(h, "decide")
  /\ LET code == jobs[h].arg.code
         found == {r \in jobs[h].copy : IF r \in Suppliers THEN LoginSupplier(r, code)
                                        ELSE LoginCustomerParty(r, code)} IN
     IF found = {} THEN Finish(h)
     ELSE \E r \in found :
       GoWith(h, "create", [role |-> RoleOfCode(code), ref |-> r, name |-> r, avatar |-> ""])
  /\ NoFault /\ UNCHANGED adminVars

------------------------------------------------------------------------------
AdminWaits == {"entry", "state", "codes", "known", "sync", "insertRow", "rows", "deleteRows",
               "restate", "put", "write", "stateCodes", "prefix", "erpCode", "erpPhone",
               "search", "post", "find", "decide"}
AdminFails(h) == Working(h) /\ jobs[h].pc \in AdminWaits /\ Fails(h)

AdminStep(h) ==
  \/ Entry(h) \/ SupplierState(h) \/ RegenerateCode(h)
  \/ KnownItems(h) \/ SyncItems(h) \/ InsertRow(h) \/ ReadRows(h) \/ DeleteRows(h) \/ Restate(h)
  \/ PutState(h) \/ WriteFile(h)
  \/ StateCodes(h) \/ CustomerState(h) \/ CustomerCode(h) \/ UpdateCustomerCode(h)
  \/ UpdatePhone(h) \/ SearchPhone(h) \/ CreateParty(h)
  \/ SearchParties(h) \/ DecideLogin(h) \/ AdminFails(h)

AdminBegin(h) ==
  \/ \E op \in {"block", "unblock", "remove", "restore"}, r \in Suppliers :
       AskSupplier(h, op, r, [ref |-> r])
  \/ \E r \in Suppliers : AskSupplier(h, "regenerate", r, [ref |-> r, code |-> None, made |-> None])
  \/ \E r \in Suppliers, p \in Phones : AskSupplier(h, "supplierPhone", r, [ref |-> r, phone |-> p])
  \/ \E op \in {"assign", "unassign"}, r \in Suppliers, i \in Items :
       AskSupplier(h, op, r, [ref |-> r, item |-> i])
  \/ \E r \in Suppliers, s \in SUBSET Items :
       AskSupplier(h, "items", r, [ref |-> r, items |-> s, right |-> {}, add |-> {}, drop |-> {},
                                   item |-> None])
  \/ \E r \in Suppliers \cap Absentees : AskNewSupplier(h, r, FirstPhone)
  \/ \E r \in Customers : 
       AskCustomer(h, "regenerateCustomer", r,
                   [ref |-> r, existing |-> {}, made |-> None, code |-> None])
  \/ \E r \in Customers : AskCustomer(h, "removeCustomer", r, [ref |-> r])
  \/ \E op \in {"customerPhone", "createCustomer"}, r \in Customers, p \in Phones :
       AskCustomer(h, op, r, [ref |-> r, phone |-> p])
  \/ \E op \in {"assignCustomer", "unassignCustomer"}, r \in Customers, i \in Items :
       AskCustomer(h, op, r, [ref |-> r, item |-> i])
  \/ \E r \in Parties : AskLogin(h, r)

AdminInit ==
  /\ states = [r \in Refs |-> None]
  /\ oldStates \in IF Lmdb THEN {[r \in Refs |->
                       IF r \in Absentees \cap Suppliers
                       THEN [NoState EXCEPT !.blocked = TRUE, !.removed = TRUE]
                       ELSE IF r \in Suppliers
                       THEN [NoState EXCEPT !.code = [prefix |-> "10", n |-> "old"]]
                       ELSE None]}
                   ELSE {states}
  /\ parties = [r \in Parties |-> IF r \in Absentees THEN None ELSE
                  [mobile |-> FirstPhone, details |-> [kind |-> "", value |-> None]]]
  /\ assigned = {}
  /\ promised = [r \in Refs |-> NoPromise]
  /\ regens = [r \in Refs |-> <<>>]
==============================================================================
