----------------------------- MODULE OrderSave -----------------------------
(***************************************************************************)
(* Saving an order: PUT production-maps/with-order writes the map, then    *)
(* the calculate-order template, undoes the map if the template fails, and *)
(* leaves a task that writes the order to the Google sheet and to ERPNext. *)
(* Two background loops work on the same stores: the hourly sheet sync     *)
(* appends what the sheet lacks, the minutely ERP sync writes the work     *)
(* orders it finds back over the maps.                                     *)
(*                                                                         *)
(* Maps and templates are two SQLite files, each behind its own mutex; the *)
(* sheet and ERPNext answer over HTTP.  Every read and every write of any  *)
(* of the four is one action.                                              *)
(*                                                                         *)
(* Of a map only its order number and its identity matter here, of a       *)
(* template what the sheet sync looks it up by and the product it names,   *)
(* which need not be its map's; kg is positive.                            *)
(***************************************************************************)
EXTENDS Naturals, FiniteSets, SequencesExt, Sifting

CONSTANTS
  Ids,           \* map ids, as stored: trimmed, lower case
  Zakaz,         \* those that start with "zakaz-"
  Numbers,       \* four-digit order numbers
  NoNumber,      \* a blank order number
  Codes,         \* codes of templates; an order's is its number
  Titles,        \* title and product code of a map
  Kinds,         \* quick_template_key: what list_all deduplicates by
  Clients,       \* admins, each with its own templates, one request at a time
  SaveRequests,  \* SaveRequests[c]: with-order requests of client c
  PlainSaves,    \* PlainSaves[c]: maps it saves without a template
  Deletes,       \* Deletes[c]: codes of templates it deletes
  NoMap, NoTask,
  MaxFaults      \* crashes and failed sheet syncs, together

Map == [number : Numbers \cup {NoNumber}, title : Titles]
Order == [id : Ids, map : Map]
\* template: none, its own, or the quick template of another map it was
\* opened from.  exact: the id is spelled as it is stored.
\* product: what the template names, with the item code it has or, if it has
\* none, the map's.
Request == [id : Ids, map : Map, template : {"none", "own", "clone"},
            code : Codes, kind : Kinds, exact : BOOLEAN, product : Titles]
Template == [owner : Clients, code : Codes, source : Ids, kind : Kinds]

ASSUME IdsAssumption == Ids # {} /\ Zakaz \subseteq Ids /\ Numbers \subseteq Codes
ASSUME SentinelAssumption == NoMap \notin Map /\ NoTask \notin Order /\ NoNumber \notin Numbers
ASSUME RequestsAssumption ==
  \A c \in Clients :
    /\ SaveRequests[c] \subseteq Request
    /\ PlainSaves[c] \subseteq Order
    /\ Deletes[c] \subseteq Codes

VARIABLES
  maps,         \* maps[id]: the stored map, or NoMap
  templates,    \* stored templates, last saved first
  sheet,        \* sheet[n]: rows of the sheet with order code n
  workOrders,   \* ERPNext work orders made from maps, last first
  pc,           \* pc[c]: the next step of client c's with-order request
  request,      \* request[c], previous[c]: its locals
  previous,
  task,         \* task[c]: the integrations of the order c created last
  fetched,      \* work orders the ERP sync has read
  sync,         \* the sheet sync: next step, maps read, codes to append
  faults

stores == <<maps, templates, sheet, workOrders>>
locals == <<pc, request, previous>>
vars == <<stores, locals, task, fetched, sync, faults>>

NoRequest == [id |-> CHOOSE i \in Ids : TRUE]
NoMaps == [i \in Ids |-> NoMap]
SyncIdle == [at |-> "maps", book |-> NoMaps, codes |-> {}]

-----------------------------------------------------------------------------
\* is_sheet_order_map
IsSheetOrder(id, m) == id \in Zakaz /\ m.number # NoNumber

\* (Mutant) the number is compared with the map's own only.
PutAllowed_OwnNumber(book, id, m) ==
  id \in Zakaz /\ m.number # NoNumber /\ book[id] # NoMap
  => book[id].number \in {NoNumber, m.number}

\* The checks of put_map: reject_order_number_immutable, then
\* reject_duplicate_order_number.
PutAllowed(book, id, m) ==
  /\ id \in Zakaz /\ m.number # NoNumber /\ book[id] # NoMap
     => book[id].number \in {NoNumber, m.number}
  /\ \A other \in Ids :
       m.number # NoNumber /\ book[other] # NoMap /\ book[other].number = m.number
       => other = id /\ book[other].title = m.title

\* put_maps_batch: book after the first n orders of a batch.
BookAfter(book, batch, n) ==
  [id \in Ids |->
     LET mine == {i \in 1 .. n : batch[i].id = id}
     IN  IF mine = {} THEN book[id]
         ELSE batch[CHOOSE i \in mine : \A j \in mine : j <= i].map]

BatchAllowed(book, batch) ==
  \A i \in DOMAIN batch :
    PutAllowed(BookAfter(book, batch, i - 1), batch[i].id, batch[i].map)

\* is_quick_template_order_clone looks at the id as the client spelled it.
IsQuickClone(r) == r.template = "clone" /\ r.exact /\ IsSheetOrder(r.id, r.map)

StoresTemplate(r) == r.template # "none" /\ ~IsQuickClone(r)

\* (Mutant) INSERT without the ON CONFLICT.
Saved_Inserted(t) == <<t>> \o templates

Rows(owner, code) == {u \in Range(templates) : u.owner = owner /\ u.code = code}

\* One row per owner and code; a saved row becomes the newest.
Saved(t) == <<t>> \o Sift(templates, Rows(t.owner, t.code))

\* list_all: of the templates alike in everything but number, the newest.
ListedTemplates ==
  {templates[i] : i \in {j \in DOMAIN templates :
     \A k \in 1 .. j - 1 : templates[k].kind # templates[j].kind}}

\* missing_order_rows, before the codes of the sheet are taken out.
Sheetable(book, id, from) ==
  /\ book[id] # NoMap /\ IsSheetOrder(id, book[id])
  /\ \E t \in from : t.source = id \/ t.code = book[id].number

-----------------------------------------------------------------------------
(***************************************************************************)
(* PUT production-maps/with-order.                                         *)
(***************************************************************************)
Forget(c) ==
  /\ pc' = [pc EXCEPT ![c] = "idle"]
  /\ request' = [request EXCEPT ![c] = NoRequest]
  /\ previous' = [previous EXCEPT ![c] = NoMap]

\* What the spawned task takes along: the map saved and the product of the
\* template.
Integrations(r) == [id |-> r.id, map |-> r.map, product |-> r.product, step |-> "sheet"]

\* (Mutant) every save of an order is sent to the sheet and to ERPNext.
Spawn_OnEverySave(c) ==
  LET r == request[c]
  IN  task' = IF r.template # "none" /\ IsSheetOrder(r.id, r.map)
              THEN [task EXCEPT ![c] = Integrations(r)]
              ELSE task

\* spawn_order_integrations, for an order that was not there before.
Spawn(c) ==
  LET r == request[c]
  IN  task' = IF previous[c] = NoMap /\ r.template # "none" /\ IsSheetOrder(r.id, r.map)
              THEN [task EXCEPT ![c] = Integrations(r)]
              ELSE task

\* Bound: a client's next save waits for the integrations of its last one.
ReadPrevious(c) ==
  /\ pc[c] = "idle" /\ task[c] = NoTask
  /\ \E r \in SaveRequests[c] :
       /\ request' = [request EXCEPT ![c] = r]
       /\ previous' = [previous EXCEPT ![c] = maps[r.id]]
  /\ pc' = [pc EXCEPT ![c] = "put_map"]
  /\ UNCHANGED <<stores, task, fetched, sync, faults>>

WriteMap(c) == maps' = [maps EXCEPT ![request[c].id] = request[c].map]

\* (Mutant) the integrations start before the template is stored.
PutMap_SpawnsFirst(c) ==
  LET r == request[c]
  IN  /\ pc[c] = "put_map"
      /\ PutAllowed(maps, r.id, r.map)
      /\ WriteMap(c) /\ Spawn(c)
      /\ IF StoresTemplate(r)
         THEN pc' = [pc EXCEPT ![c] = "put_template"] /\ UNCHANGED <<request, previous>>
         ELSE Forget(c)
      /\ UNCHANGED <<templates, sheet, workOrders, fetched, sync, faults>>

PutMap(c) ==
  LET r == request[c]
  IN  /\ pc[c] = "put_map"
      /\ PutAllowed(maps, r.id, r.map)
      /\ WriteMap(c)
      /\ IF StoresTemplate(r)
         THEN pc' = [pc EXCEPT ![c] = "put_template"] /\ UNCHANGED <<request, previous, task>>
         ELSE Forget(c) /\ Spawn(c)
      /\ UNCHANGED <<templates, sheet, workOrders, fetched, sync, faults>>

PutMapRefused(c) ==
  /\ pc[c] = "put_map"
  /\ ~PutAllowed(maps, request[c].id, request[c].map)
  /\ Forget(c)
  /\ UNCHANGED <<stores, task, fetched, sync, faults>>

PutTemplate(c) ==
  LET r == request[c]
  IN  /\ pc[c] = "put_template"
      /\ templates' = Saved([owner |-> c, code |-> r.code,
                             source |-> r.id, kind |-> r.kind])
      /\ Forget(c) /\ Spawn(c)
      /\ UNCHANGED <<maps, sheet, workOrders, fetched, sync, faults>>

PutTemplateFails(c) ==
  /\ pc[c] = "put_template"
  /\ pc' = [pc EXCEPT ![c] = "rollback"]
  /\ UNCHANGED <<stores, request, previous, task, fetched, sync, faults>>

\* (Mutant) the map is deleted, whether the request made it or not.
Restored_Deleted(id, exact, before) ==
  IF exact THEN [maps EXCEPT ![id] = NoMap] ELSE maps

\* restore_map: put the previous map back, checks and all, or delete the new
\* one by the id as the client spelled it.
Restored(id, exact, before) ==
  IF before = NoMap
  THEN IF exact THEN [maps EXCEPT ![id] = NoMap] ELSE maps
  ELSE IF PutAllowed(maps, id, before) THEN [maps EXCEPT ![id] = before] ELSE maps

Rollback(c) ==
  /\ pc[c] = "rollback"
  /\ maps' = Restored(request[c].id, request[c].exact, previous[c])
  /\ Forget(c)
  /\ UNCHANGED <<templates, sheet, workOrders, task, fetched, sync, faults>>

\* put_map or restore_map answers StoreFailed.
StoreFailed(c) ==
  /\ pc[c] \in {"put_map", "rollback"}
  /\ Forget(c)
  /\ UNCHANGED <<stores, task, fetched, sync, faults>>

\* PUT production-maps, and DELETE of a template.
SavePlain(c) ==
  /\ pc[c] = "idle"
  /\ \E s \in PlainSaves[c] :
       /\ PutAllowed(maps, s.id, s.map)
       /\ maps' = [maps EXCEPT ![s.id] = s.map]
  /\ UNCHANGED <<templates, sheet, workOrders, locals, task, fetched, sync, faults>>

DeleteTemplate(c) ==
  /\ pc[c] = "idle"
  /\ \E n \in Deletes[c] :
       templates' = Sift(templates, Rows(c, n))
  /\ UNCHANGED <<maps, sheet, workOrders, locals, task, fetched, sync, faults>>

-----------------------------------------------------------------------------
(***************************************************************************)
(* The spawned task: append_order (read the codes, append unless there),   *)
(* then, whatever became of it, save_order.  A write that fails after it   *)
(* was done looks the same from here as one that succeeds.                 *)
(***************************************************************************)
Advance(c, step) == task' = [task EXCEPT ![c].step = step]

ReadCodes(c) ==
  /\ task[c] # NoTask /\ task[c].step = "sheet"
  /\ Advance(c, IF sheet[task[c].map.number] = 0 THEN "append" ELSE "erp")
  /\ UNCHANGED <<stores, locals, fetched, sync, faults>>

AppendRow(c) ==
  /\ task[c] # NoTask /\ task[c].step = "append"
  /\ sheet' = [sheet EXCEPT ![task[c].map.number] = @ + 1]
  /\ Advance(c, "erp")
  /\ UNCHANGED <<maps, templates, workOrders, locals, fetched, sync, faults>>

SheetFails(c) ==
  /\ task[c] # NoTask /\ task[c].step \in {"sheet", "append"}
  /\ Advance(c, "erp")
  /\ UNCHANGED <<stores, locals, fetched, sync, faults>>

\* build_work_order_payload and work_order_document_to_map: the map an order
\* comes back as has the product its template named, not the map's own.
ThereAndBack(t) == [id |-> t.id, map |-> [t.map EXCEPT !.title = t.product]]

SaveWorkOrder(c) ==
  /\ task[c] # NoTask /\ task[c].step = "erp"
  /\ workOrders' = <<ThereAndBack(task[c])>> \o workOrders
  /\ task' = [task EXCEPT ![c] = NoTask]
  /\ UNCHANGED <<maps, templates, sheet, locals, fetched, sync, faults>>

ErpFails(c) ==
  /\ task[c] # NoTask /\ task[c].step = "erp"
  /\ task' = [task EXCEPT ![c] = NoTask]
  /\ UNCHANGED <<stores, locals, fetched, sync, faults>>

-----------------------------------------------------------------------------
(***************************************************************************)
(* Background loops.                                                       *)
(***************************************************************************)
FetchWorkOrders ==
  /\ fetched = <<>> /\ workOrders # <<>>
  /\ fetched' = workOrders
  /\ UNCHANGED <<stores, locals, task, sync, faults>>

\* sync_erp_work_orders_once: all of them or, if one is refused, none.
SyncErp ==
  /\ fetched # <<>>
  /\ maps' = IF BatchAllowed(maps, fetched)
             THEN BookAfter(maps, fetched, Len(fetched)) ELSE maps
  /\ fetched' = <<>>
  /\ UNCHANGED <<templates, sheet, workOrders, locals, task, sync, faults>>

SyncReadMaps ==
  /\ sync.at = "maps"
  /\ sync' = [at |-> "templates", book |-> maps, codes |-> {}]
  /\ UNCHANGED <<stores, locals, task, fetched, faults>>

SyncReadTemplates ==
  /\ sync.at = "templates"
  /\ sync' = [at |-> "codes", book |-> NoMaps,
              codes |-> {sync.book[id].number : id \in {i \in Ids : Sheetable(sync.book, i, ListedTemplates)}}]
  /\ UNCHANGED <<stores, locals, task, fetched, faults>>

\* (Mutant) a sheet with any row in it is taken for complete.
SyncReadCodes_AnyRow ==
  /\ sync.at = "codes"
  /\ sync' = [sync EXCEPT !.at = "append",
                !.codes = IF \E n \in Numbers : sheet[n] > 0 THEN {} ELSE @]
  /\ UNCHANGED <<stores, locals, task, fetched, faults>>

SyncReadCodes ==
  /\ sync.at = "codes"
  /\ sync' = [sync EXCEPT !.at = "append", !.codes = {n \in @ : sheet[n] = 0}]
  /\ UNCHANGED <<stores, locals, task, fetched, faults>>

SyncAppend ==
  /\ sync.at = "append"
  /\ sheet' = [n \in Numbers |-> IF n \in sync.codes THEN sheet[n] + 1 ELSE sheet[n]]
  /\ sync' = SyncIdle
  /\ UNCHANGED <<maps, templates, workOrders, locals, task, fetched, faults>>

\* A read or the append fails: the loop sleeps and starts over.
SyncFails ==
  /\ sync.at # "maps" /\ faults < MaxFaults
  /\ sync' = SyncIdle
  /\ faults' = faults + 1
  /\ UNCHANGED <<stores, locals, task, fetched>>

\* The process dies: requests, spawned tasks and the loops' locals are gone.
Crash ==
  /\ faults < MaxFaults
  /\ faults' = faults + 1
  /\ pc' = [c \in Clients |-> "idle"]
  /\ request' = [c \in Clients |-> NoRequest]
  /\ previous' = [c \in Clients |-> NoMap]
  /\ task' = [c \in Clients |-> NoTask]
  /\ fetched' = <<>>
  /\ sync' = SyncIdle
  /\ UNCHANGED stores

-----------------------------------------------------------------------------
Init ==
  /\ maps = NoMaps
  /\ templates = <<>>
  /\ sheet = [n \in Numbers |-> 0]
  /\ workOrders = <<>>
  /\ pc = [c \in Clients |-> "idle"]
  /\ request = [c \in Clients |-> NoRequest]
  /\ previous = [c \in Clients |-> NoMap]
  /\ task = [c \in Clients |-> NoTask]
  /\ fetched = <<>>
  /\ sync = SyncIdle
  /\ faults = 0

SaveStep(c) ==
  \/ ReadPrevious(c)
  \/ PutMap(c)
  \/ PutMapRefused(c)
  \/ PutTemplate(c)
  \/ PutTemplateFails(c)
  \/ Rollback(c)
  \/ StoreFailed(c)
  \/ SavePlain(c)
  \/ DeleteTemplate(c)

TaskStep(c) ==
  \/ ReadCodes(c)
  \/ AppendRow(c)
  \/ SheetFails(c)
  \/ SaveWorkOrder(c)
  \/ ErpFails(c)

SheetSync ==
  \/ SyncReadMaps
  \/ SyncReadTemplates
  \/ SyncReadCodes
  \/ SyncAppend

Next ==
  \/ \E c \in Clients : SaveStep(c) \/ TaskStep(c)
  \/ FetchWorkOrders
  \/ SyncErp
  \/ SheetSync
  \/ SyncFails
  \/ Crash

Spec == Init /\ [][Next]_vars

\* run_order_sheets_sync_loop never ends while its interval is not zero; the
\* runtime polls it again and again.
FairSpec == Spec /\ WF_vars(SheetSync)

-----------------------------------------------------------------------------
(***************************************************************************)
(* Properties.                                                             *)
(***************************************************************************)
\* Stores and locals have their types, a waiting client holds nothing, and
\* a template is stored once per owner and code.
TypeOK ==
  /\ maps \in [Ids -> Map \cup {NoMap}]
  /\ templates \in Seq(Template)
  /\ \A i, j \in DOMAIN templates :
       templates[i].owner = templates[j].owner /\ templates[i].code = templates[j].code => i = j
  /\ sheet \in [Numbers -> Nat]
  /\ workOrders \in Seq(Order) /\ fetched \in Seq(Order)
  /\ pc \in [Clients -> {"idle", "put_map", "put_template", "rollback"}]
  /\ \A c \in Clients :
       /\ request[c] \in IF pc[c] = "idle" THEN {NoRequest} ELSE Request
       /\ previous[c] \in Map \cup {NoMap}
       /\ task[c] = NoTask \/ [id |-> task[c].id, map |-> task[c].map] \in Order
  /\ sync.book \in [Ids -> Map \cup {NoMap}] /\ sync.codes \subseteq Numbers

\* No two maps carry one order number, whoever wrote them: requests, their
\* rollbacks, and whole batches from ERPNext, checked row by row inside one
\* transaction (reject_duplicate_order_number).
NumbersUnique ==
  \A a, b \in Ids :
    /\ maps[a] # NoMap /\ maps[b] # NoMap
    /\ maps[a].number = maps[b].number /\ maps[a].number # NoNumber
    => a = b

\* An order reaches ERPNext at most once however often it is saved, undone
\* and saved again: save_order does not look whether it is there already.
OneWorkOrder ==
  \A id \in Ids :
    Cardinality({i \in DOMAIN workOrders : workOrders[i].id = id})
      + Cardinality({c \in Clients : task[c] # NoTask /\ task[c].id = id}) <= 1

\* An order some request gives a template that names another product.
NamesAnother(id) ==
  \E c \in Clients : \E r \in SaveRequests[c] :
    r.id = id /\ r.template # "none" /\ r.product # r.map.title

\* A work order carries the number its map still has and, unless a template
\* of the order names another product, the product: the ERP sync, all or
\* nothing, is refused for the orders whose templates do, and for no other.
ErpAgrees ==
  \A i \in DOMAIN workOrders :
    LET w == workOrders[i]
    IN  /\ maps[w.id] # NoMap /\ maps[w.id].number = w.map.number
        /\ maps[w.id].title = w.map.title \/ NamesAnother(w.id)

\* "ERPNext becomes the authoritative read source for opened production
\* orders": what a sync has read is what the maps then are.
SyncIsTakenOver ==
  [][SyncErp => \A i \in DOMAIN fetched :
                   maps'[fetched[i].id] = fetched[i].map]_vars

\* Rolling back undoes this request's write and nothing else: what it takes
\* away is what it wrote, what it leaves is what it found.
RollbackRestores ==
  [][\A c \in Clients : Rollback(c) =>
       /\ maps[request[c].id] = request[c].map
       /\ maps'[request[c].id] = previous[c]]_vars

\* "order_number_immutable": an order never carries another number than the
\* one it went to ERPNext with.
NumberImmutable ==
  \A i \in DOMAIN workOrders :
    LET m == maps[workOrders[i].id]
    IN  m # NoMap /\ m.number # NoNumber => m.number = workOrders[i].map.number

\* An order with a template gets its row in the sheet, though its own append
\* failed or died with the process, unless it loses map or template first.
Wanted(id) == Sheetable(maps, id, ToSet(templates))
SheetComplete ==
  \A id \in Ids : \A n \in Numbers :
    (Wanted(id) /\ maps[id].number = n) ~> (sheet[n] > 0 \/ ~Wanted(id))
=============================================================================
