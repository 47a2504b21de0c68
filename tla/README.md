# Verification of the Accord mobile server

TLA+ models of `accord_mobile_server_rs`, the backend of a packaging
factory's mobile apps: planners draw production maps and queue orders on
machines, operators start and finish them, and the server keeps SQLite/LMDB
stores, a Google sheet and ERPNext in step. Paths below are relative to the
repository; `PROJECT.json` maps every definition to the lines it models.

## 1. Inventory

Legend: **M** modelled, **P** partly, **–** not.

| Component | State | Operations | Hard behaviour | Correct when |
|---|---|---|---|---|
| **M** Production map queues (`core/production_map`, `store/production_map_store.rs`) | tables of maps, sequences, queue states; each request's copies of them | queue action, sequence, save, move, batch move, ERP batch | decisions on copies read earlier; whole-table writes outside a transaction; keys and queue order derived from what is stored | orders are worked in sequence, stage after stage, nothing is undone, nothing wedges |
| **M** Order save and integrations (`http/handlers/admin/production_maps.rs`, `google_sheets.rs`, `erpnext/production_order.rs`, loops in `app.rs`) | maps, templates, sheet, work orders; request locals, spawned tasks, loops' copies | with-order save and rollback, plain save, template delete, sheet append, ERP save, both syncs | a saga over four stores; crashes lose spawned tasks; all-or-nothing batches; two writers of the sheet | one map per number, one work order per order, rollback undoes exactly its write, the sheet ends up complete |
| **M** Pechat rules (`core/production_map/pechat.rs`), **P** map compiler and runner (`core/production_map/mod.rs`) | none; a run's variables are the client's | normalise, validate, order, compile, run, answer a condition | graph shapes, errors met at the save or only in a run | a run follows the program and goes on where it was answered |
| **M** Live feed (`production_map_live`) | broadcast channel, last payload per subscriber | notify, snapshot, lag, error | a write and its notification, and the three reads, are apart; lag drops notifications | a subscriber ends with the last state |
| **M** Label printing and roll splitting (`core/gscale`, `core/rezka`), RPS batch (`core/rps_batch`) | ERP drafts, printed labels, spawned recorders; one batch per owner | receive, print, split, start and stop a batch | ERP and printer in parallel, partial prints, late errors, restarts | booked stock is labelled, splits conserve weight, stopped means quiet |
| **M** Warehouse stock, customer flows (`core/werka`, `core/customer`, `erpnext/purchase_receipt`, `erpnext/delivery_note`) | ERPNext's documents and their remarks | announce, confirm, answer, acknowledge, issue, accept, reject, claim; undo | a handler is several ERP requests, overlapped by others and by the desk | decisions whole or undone, returns behind what a customer is told |
| **P** Direct MariaDB reads (`erpdb`) | none | home, lists, totals, history, archive, catalog listings | everything computed twice, in SQL and Rust, or in MariaDB and ERPNext | lists add up, views agree |
| **M** Catalog cache (`erpdb/catalog_cache`) | SQLite copy of six ERP tables | full and delta sync, reads | statistics, rows and keys read at different moments; commits out of stamp order | answers recent, fallback harmless, catches up |
| **M** Sessions, profiles, authentication, roles (`core/session`, `core/profile`, `core/auth`, `core/authz`, `store/role_store.rs`) | cache and LMDB or JSON store; role memory and file | login, lookup, renew, log out, expire; define and assign roles | cache filled after a store read; memory changed before its file; migration | sessions end when they should, the barred stay out |
| **P** Admin directory (`core/admin`, `store/admin_state_store.rs`), **M** settings, push tokens, item groups | people, codes, regeneration budget, .env, tokens, ERP's item tree | assign, remove, restore, regenerate, change settings, move items, register devices | read-modify-write, counters at their limit, several requests to ERP | what was confirmed is kept, the budget holds |
| **P** ERPNext client, scale client | the remote's | requests, timeouts | a failed request may have been carried out | modelled with their callers |
| **–** Apparatus groups | one list | replace as a whole | none | – |
| **–** Calculator (`core/formula.rs`), AI proxy, PDF, wiring | – | – | pure arithmetic or I/O | – |

How they interact: HTTP handlers hold no state; they call a service that reads
and writes a store or sends requests to ERPNext. Every store call takes that
store's mutex and nothing spans two calls, so *the store call, or the ERPNext
request with its answer, is the atomic step* in all modules. Shared state is
only in the stores, in ERPNext, in the sheet and in the caches named above. The
background loops and the spawned tasks run in the same process and die with it.

## 2. Modules

| Module | Content |
|---|---|
| `StageLedger` | the promise: each order goes through its plan one stage at a time, each stage started and finished once |
| `ProductionQueue` | the queues, one action per store call |
| `ProductionQueueLedger` | the refinement mapping from the first to the second |
| `ProductionQueueProofs` | proofs about `ProductionQueue`: types, current reads, progress, one key per machine, sequence, that it implements `StageLedger`, and that it never wedges |
| `OrderSave` | the with-order saga, its integrations and both sync loops |
| `OrderSaveProofs` | proofs about `OrderSave`: types, unique numbers, one work order and what it agrees on with its map, a rollback is exact |
| `PechatRules`, `MapPrograms` | pure: which press takes an order; checking, compiling and running a map |
| `ProductionMaps` | the stored maps and queues with their writers, the live feeds, and a client that runs maps |
| `Epc`, `StockEntries` | the label numbers bit by bit; ERPNext's stock entries |
| `Printing` | receipts, splits and batches |
| `PrintingProofs` | proofs about `Printing`: types, booked stock, splits that conserve weight, stopped batches |
| `Sifting` | rows taken out of a list, the others left in their order |
| `LeastNumbers` | lemmas the proofs use for induction over numbers, and what `Sift` leaves |
| `StockRequests` | handlers that take one ERPNext request at a time |
| `PurchaseReceipts`, `DeliveryNotes` | goods that arrive; goods that leave and come back |
| `WerkaReads`, `Stock` | what the screens show of them; all of it at once |
| `StockProofs` | proofs about `Stock`: types, quantities booked, visible notes, sources, returns, whole confirmations, answers all see alike, lists that add up, views that agree |
| `AccessRequests` | handlers that take one step at a time |
| `Sessions`, `Roles`, `AdminStates`, `Settings`, `PushTokens`, `ItemGroups` | one module per store or service |
| `Access` | all of those at once, with restarts |
| `AccessProofs` | proofs about `Access`: types, the budget of new codes, the end of sessions, and what is kept of groups, the keeper's code, roles and devices |
| `AccessPromiseProofs` | proofs about `Access`: what is kept of a supplier and of a nickname, that the blocked stay out, and all that was acknowledged |
| `CatalogSync`, `CatalogReads`, `Catalog` | the copy and its loop; every listing twice; both together |
| `CatalogProofs` | proofs about `Catalog`: the sync's invariant, recent answers, agreeing listings |
| `MC*` | instances for TLC |

### ProductionQueue

`maps`, `newer`, `route`, `sequences`, `queueStates` are the three tables
(`newer` is the `saved_at` order, `route[o]` the stages `chain.rs` walks out of
map *o*). An operator's queue action is `ReadSequences`, `ReadQueueStates`,
`ReadMapsAccept`/`ReadMapsRefuse` and `PutQueueStates`, one per store call of
`apply_apparatus_queue_action`; `seqsRead`, `statesRead`, `write` are its
locals. Planners act by `SetSequence`, `SaveMaps`, `ReadForMove`/`WriteMove`.
Faults: `TornPut` (the table is deleted, then only a prefix of the rows is
inserted), `StoreFailed`, `Restart`. `Accepts` and `Decision` are the pure part,
made of `StorageKey`, `ReadyForStation` and `FirstActionable`.

Abstractions: titles match by the relation `Matches` (symmetric and reflexive,
as `apparatus_titles_match` is), the pechat rules are `MoveAllowed` and
`Blocked`, batches hold distinct ids, no two saves share a microsecond.

### OrderSave

`maps`, `templates`, `sheet`, `workOrders` are the four stores. A with-order
request is `ReadPrevious`, `PutMap`/`PutMapRefused`, `PutTemplate`/
`PutTemplateFails`, `Rollback`, with `StoreFailed` at each write; a new order
leaves `task[c]`, whose steps are `ReadCodes`, `AppendRow`, `SaveWorkOrder` and
their failures. The loops are `FetchWorkOrders`+`SyncErp` and `SyncReadMaps`,
`SyncReadTemplates`, `SyncReadCodes`, `SyncAppend`. `Crash` drops all locals,
tasks and loop copies.

A work order is made of the template first and of the map second: its product
is `request[c].product`, which need not be the map's title. `ThereAndBack` is the
map that is read back from it, with the template's product for a title.

Abstractions: of a map only number and title/product matter, of a template its
owner, code, source map, product and `quick_template_key`. kg is positive. A
client's next save waits for the integrations of its last one.

### ProductionMaps

`PechatRules` and `MapPrograms` are operators on one map. `Valid`, `Ordered` and
`Compiles` are `compile_map`; `Walk` with `Visit` and `Follow` is
`run_map_with_variables`. An expression is its tree, evaluated left to right
with the first error, which is what makes a condition that is wrong to the
right of its first variable pass the save and fail in the run. In
`ProductionMaps` a writer changes the store (`UpsertMap`, `RestoreMap`,
`MoveApparatus`, `SetApparatusSequence`, `PutQueueStates`) and notifies in a later
step (`NotifyLive`); `PutQueueStatesFails` cuts rows and never notifies. A feed is
`Connect`, three reads, `Receive`, with `inbox[f]` the receiver that lags beyond
`Capacity`. `Run` and `Answer` are two requests of a client, each on the maps then
stored.

### Printing

A job is a request with its spawned recorder: `ErpStep` is the next request of
the recorder or the splitter, `PrinterStep` the next answer of the printer.
Failures are the printer's, ERPNext's (carried out or not), a client that hangs
up, and a restart, each counted in `MaxFaults`. A number is drawn per label, in
steps several requests may take in turns. The clock is read before the generator
is locked, so `Draws` may have any reading: older than the generator's last one
too, which begins the count again (`fresh` holds the labels since). A reading
other than the one before is an event. `Epc` computes the number by sets
of bits, with the width and the clock's length as constants (16 and 4 in the
instance, 32 and 56 in the code).

### Stock

`StockRequests` gives each handler a kind, a step and its locals;
`PurchaseReceipts` and `DeliveryNotes` say what each step sends and how the
document answers, with `modified` checks where ERPNext makes them. The desk may
cancel or edit. Writing a receipt makes a new `modified`, so that the undo of a
confirmation, which sends the version read before it, is ordinarily refused and
the request ends as `kept`. `WerkaReads` has every read twice where the code
has, so that `ListsAddUp` and `ViewsAgree` compare independent definitions.
`SearchLimit` is the 200 notes read when a source is looked for without the
database (`DirectDb`), `HistoryLimit` the 120 rows of each read of the history and
of the history itself; which rows a limit leaves out is left open. The lists of
the warehouse are those of the database whatever `DirectDb` says.

### Access

The same shape: a handler of `AccessRequests` runs one step at a time, drawn from
one of twenty mixes of two requests. `Sessions` has the cache, the LMDB store with
its index and the JSON store; `Roles` the memory and the file; `AdminStates` the
state of a supplier or customer, its codes with `Window` and `MaxCodeRegens`, and
the login; `Settings` the configuration, the live identity, the credentials and
the .env file; `PushTokens` the owner index and both backends; `ItemGroups` the
tree kept by ERPNext. `Restart` forgets memory and reads what is stored.

ERPNext's rows of items have names of their own (`assigned`): a POST adds a row
even where there is one, and an item's rows of a supplier are read and then
deleted one by one, each by a request. The list a whole set of items is compared
with comes from the catalog cache, is up to a sync interval old, at most 200 rows
long and without disabled items: in `KnownItems` it may be any, and
`ToldRightly` is what of it is true. A supplier and a customer of one name share
one record of the state store and, a simplification, of `parties`; the instance of
the run has no such name.

### Catalog

`CatalogSync` lets ERPNext stamp a transaction and commit it later (`BeginEdit`,
`CommitEdit`); `SyncStep` is one query of the loop. `window[p]` is the history
of a row since the last completed sync began, the other histories name the
tables a delta could not see whole. Links have rows with names of their own, so a
pair may be there more than once: `repeats` has the further rows, `RowCount` counts
them as `COUNT(*)` does, and a query finds one of a pair's rows, the one stored last
(`Found`). A link that comes again makes its table `blind` for deltas, as a row
committed behind its stamp does; a full sync that finds no repeats ends both.
`CatalogReads` gives each listing its cache
and its MariaDB version; `Answer` picks one as the readers do. Pages, search and
ranking only choose among entries.

## 3. Runs

| Run | Instance | Shows |
|---|---|---|
| `queue_chain` | 2 orders, press then laminator, laminator under two titles, 1 operator each, laminator re-sequenced at will, maps saved again | `WorkedInSequence`, `CanProceed`, `OneKeyPerApparatus`, `ProgressIsKept`, and `ImplementsLedger` |
| `queue_faults` | 2 orders that appear by a sync and are moved in one batch from one press to another and back, torn writes, failures, restarts | `CanProceed`, `ProgressIsEarned` |
| `queue_shared` (violation) | 2 operators of one press | `ActsOnActionable` fails: a lost update |
| `orders` | 2 admins with an order each, saved with its template, opened from a quick one, or saved alone under the other's number or another title; one template names another product; one crash or failed sync | `NumbersUnique`, `OneWorkOrder`, `ErpAgrees`, `RollbackRestores`, `SheetComplete` |
| `orders_products` (violation) | a template that names another product than its map | `SyncIsTakenOver` fails: the whole batch is refused |
| `orders_renumber` (violation) | a save without the number in between | `NumberImmutable` fails |
| `orders_rollback` (violation) | id sent with a capital | `RollbackRestores` fails |
| `maps` | orders that ask for a variable once or twice, a fork, a circle, a wide laminate; 2 writes, 1 feed with a capacity of one notification, 1 failed read | `RunFollowsProgram`, `FeedsCatchUp` |
| `printing` | 2 jobs out of receipts, splits and batch prints, 1 fault, 2 events, a clock of 2 values read in any order | `BookedStockIsLabelled`, `NumbersAreUnique`, `SplitsConserve`, `QuietAfterStop`, `JobsAreSettled` |
| `stock` | 2 handlers, 3 requests, 2 receipts, 2 notes, no database at hand, searches of 1 note and a history of 3 rows, 1 fault, 1 desk action | `NeverMoreThanSent`, `ConfirmIsWhole`, `SourceIssuedOnce`, `BookedIsVisible`, `FailedIssueLeavesNothing`, `StateBackedByReturn`, `AnswerIsSeenByAll`, `ListsAddUp`, `ViewsAgree` |
| `access` | 2 handlers in one of 20 mixes, failed saves, hang-ups, restarts, clock, both backends | `SessionsEndProperly`, `BarredStaysOut`, `AcknowledgedHolds`, `RegenBudget` |
| `catalog` | 3 small ERPNexts: items, parties and links changing hands, links that come again, one table with rows hidden between two queries; 2 open transactions, 1 fault | `AnswersAreRecent`, `FallbackAgrees`, `CatchesUp` |

Bounds. Two orders are enough for every question about order and interference
(a queue has a first and another); two stages for the one about predecessors;
two titles of one machine for the one about keys. Two operators are in flight
at once, each with all its reads done at different moments. `MaxFaults = 1` in
`orders` allows a crash or a failed sync at any step; failures of a store or a
service within a request are not bounded. `MaxFaults` is also why
`SheetComplete` makes sense: a sync that fails for ever completes nothing.

In `maps` two writes around one read are enough to drop a notification with
`Capacity` 1 (256 in the code); one feed is enough because feeds do not affect
one another. In `printing`, `stock` and `access` two requests overlap at
every step; the third of `stock` meets what the first two left. One fault at
any step is enough for each failure path and what follows it. `stock` and
`access` treat the two handlers alike (`SYMMETRY`; neither run has liveness).
`catalog` has as many transactions as it takes to commit one behind another's
stamp and to hide a row between two queries. `SearchLimit` 1 and `HistoryLimit` 3
are less than the documents there can be, so both sides of each limit occur.

What the passing runs assume, and what happens without it:

- `queue_chain` stores the whole sequence of each machine under one title.
  `queue_shared` shows what fails when a machine has two operators. Without a
  stored sequence the queue is "last saved first", and saving a map again while
  another order runs lets a second one be started: the code means the order of
  the queue at each moment, so no run claims otherwise. A sequence stored under a second title of the machine gives
  it two keys, since a planner's write does not resolve the key
  `resolve_apparatus_storage_key` is there to unify.
- Both orders take the same route. Orders with opposite routes, queued against
  each other, can wait for one another for ever: each queue offers only its
  head. So can the later stages of an order blocked on a colour press for
  being flexo. These are properties of the plan, not of an interleaving.
- A route names each station once; `StageAt` takes the first of several, so a
  second visit to the same station has no state of its own. The alternative
  assignment of a node is stored by a move but `chain.rs` reads only titles.
- `orders` gives each order one admin. Two admins that create one id at once
  both find it new; the code then makes two work orders, and the rollback of
  one deletes the map of the other. A rollback that puts a map back can also
  itself be refused, when its number was taken meanwhile.
- In `orders`, templates of different orders differ in more than the number.
  `list_all` drops all but the newest of templates alike but for it, so the sheet
  sync does not find the older order's.
- A work order whose template names another product than its map is read back
  with that product, `is_same_zakaz` takes it for another order with the number,
  and the sync is refused for all orders, every minute, until the map or the
  template is changed by hand. `ErpAgrees` excepts the product of such orders and
  nothing else; `orders_products` is the finding.
- A row may be appended twice, by the task and the sync at once: only
  completeness of the sheet is claimed.

- Runs: a node other than a condition is left by its first edge only, so the
  other branches of a fork compile but are not run; a path that has no edge
  ends the run before its end node, without an error. A quotient is whole in
  the instance's maps.
- Feeds: a failed reading is not retried before the next notification, and rows
  cut by a failing write are not announced; `FeedsCatchUp` excepts both.
- Printing: a reading of the clock that is older than the generator's last one
  begins the count again, and a number given before can come again: the clock was
  set back, or a request with a later reading locked between two with the same.
  `NumbersAreUnique` is of the labels drawn since the last such event. The code lets
  a roll's barcode be split twice, a late error read before a stop revive or
  replace a batch, and an orphan draft remain when a client hangs up or the
  server restarts; the properties except exactly those.
- Stock: overlapping requests can each be answered while one undoes the other:
  overlapping confirmations, a stale acknowledgement that erases a decision,
  an answer repeated after its state update was lost (a second return), two
  customer answers mixed. A crash or a lost answer between the requests of one
  handler leaves what it has done. The properties speak of handlers nothing
  interfered with, and of what holds whatever interferes. A confirmation that is
  not submitted leaves a draft with the decision in it whenever ERPNext refuses
  the undo, as it does when nobody else has written; `ConfirmIsWhole` says that
  the draft then has the whole decision and was not booked. A source older than
  the notes one search reads is issued again. What is decided is in the history
  as long as the history has place. In the views, the
  pending details include returned and cancelled notes, the supplier's view
  from the database shows sent-back drafts as drafts and the one from
  ERPNext as cancelled, and a history filter on an event type matches nothing.
- Access: a logout overlapped by a lookup or a renewal of its token is undone;
  changes that overlap in the JSON backend, or in one record, lose one another;
  two creations at once may share a phone; the legacy push file is migrated
  again at each restart; a settings form opened before a regeneration writes
  the old code back; of a whole set of items ERPNext gets only what the catalog
  did not tell wrongly, while the request is answered ok. `update_settings` persists `WERKA_NAME`, `ADMINKA_PHONE` and
  `ADMINKA_NAME`; `config.rs` reads the keeper's name from `MOBILE_DEV_WERKA_NAME` and
  has the admin's phone and name as literals, so these three are lost at a restart.
- Catalog: a row committed behind a stamp already read waits for a full sync, and
  so does a table where a pair came again: the count is of rows, the cache's of
  pairs, so that one link too many makes up for one deleted, and the deleted one
  is served. A row that comes or goes between two queries waits for the next
  sync. The repository's
  README documents `ERP_CATALOG_CACHE_SYNC_INTERVAL_SECONDS`, the code reads
  `ERP_CATALOG_CACHE_SYNC_INTERVAL_MS`.

Fairness. The queues need none: they are safety properties, an operator may stop
at any time, and `CanProceed` says a request exists, not that it is sent. Nothing
is assumed of clients, admins, operators, the desk or the ERP loop anywhere. What
is assumed is that a task the runtime holds is polled until it ends:

- `SheetComplete`: `WF_vars(SheetSync)`; with a non-zero interval
  `run_order_sheets_sync_loop` never returns.
- `CatchesUp`: `WF_syncVars(SyncStep)`, for the same reason.
- `JobsAreSettled`: each job's next ERPNext request and next printer answer; the
  HTTP clients time out.
- `FeedsCatchUp`: the notification after a write, with no await between, and the
  steps of a connected stream.

## 4. Proofs

Each theorem holds for every value of the constants: orders, stations,
operators, planners, clients, ids, numbers and requests of any number and
content. Every inductive invariant named here was first checked by TLC on the
instance of the component's run. A theorem with a hypothesis says so, and the
hypothesis is one the passing run meets; where a violation run drops it, the
property is lost.

### Queues (`ProductionQueueProofs`)

- `TypeCorrect`: `Spec => []TypeOK`, with faults. `TypeOK` is inductive itself;
  the lemmas say that `Decision` yields a row, and that `PutMaps` keeps maps,
  listing order and routes typed.
- `ReadsStayCurrent`: `Exclusive => (Spec => []ReadIsCurrent)`. `Exclusive` says no
  two operators may ask for machines that can share a key. Then between its
  reads and its write the rows under any key an operator may use are those it
  read: only it writes them. The next two rest on this strengthening, because
  the write replaces a whole table: without knowing that the copy is current
  nothing can be said of what it replaces.
- `ProgressEarned` (`ProgressIsEarned`, with faults) and `ProgressKept`
  (`ProgressIsKept`, without), both from `ReadIsCurrent`, under `Exclusive`.
- `KeysAreOne` (`OneKeyPerApparatus`), under `OneKeyEach`: `Exclusive`, titles fall
  into classes, and each machine is sequenced under at most one title. The
  invariant `KeyInv` says that which titles have a sequence never changes, that
  of the keys in the store no two are of one machine, and that a decided write
  goes to the key its machine has: otherwise a write decided before the machine
  had a key could open a second one.
- `SequenceIsWorked` (`WorkedInSequence`), without faults, under `Exclusive`, title
  classes, blocking by class, and saves of maps that are there
  already. The invariant is said of the plan, not of
  the copies: `PlanKept` makes what a request reads of the maps irrelevant, and
  `SequenceInv` adds that what is ahead of a decided write is completed. It stays
  so until the write lands because nobody else writes those rows.
- `QueueImplementsLedger` (`ImplementsLedger`), without faults, under `OneKeyEach` and
  `PlanSequenced` (the plans name the titles planners sequence): initial states
  map to initial states, `PutQueueStates` to `Start`, `Complete` or a stutter, all
  else to a stutter. Upstream rows belong to other operators, so a copy of them
  may be stale; `LedgerInv` says it is only ever behind, which is enough, since a
  completed stage stays completed.

- `QueuesNeverWedge` (`CanProceed`), with faults, where `RoutesGoOneWay` (the
  stations can be ranked so that routes go up, and no stage before another is
  blocked) and `Staffed` (each machine with work has an operator): a queue's first
  order waits only for a stage at a station of lower rank, so the waiting ends at
  a station of least rank with work left. `NewestFirst` is the invariant: of any
  maps one was saved last, so a queue with no sequence has a head as well.

`PlanAssumption` of the refinement leaves out planners' moves: a moved order
leaves its plan.

### Order saves (`OrderSaveProofs`)

- `NumbersStayUnique`: `Spec => []NumbersUnique`, with no hypothesis. The invariant
  adds the types of what is about to be written. The batch is the argument:
  `BookAfter` at *n* is one checked write over `BookAfter` at *n - 1*
  (`BatchStep`), and the first order of a batch to break the rule would have been
  refused.
- `OneWorkOrderEach` (`OneWorkOrder`), `ErpStaysInStep` (`ErpAgrees`) and
  `RollbackIsItsOwn` (`RollbackRestores`), over retries, crashes, lost
  writes and ERP batches of any length, under `Orderly`: an order is saved by one
  admin, whenever it is saved it has its number, and ids are sent as they are
  stored. `orders_renumber` drops the second habit and `orders_rollback` the third,
  and each loses the property. `ErpStaysInStep` promises the number of every order in
  ERPNext, and the product of those whose templates name no other
  (`NamesAnother`), so it says for which orders alone a batch can be refused. `ErpInv` says what a request knows of its map
  between two steps and that a task's order is not yet in ERPNext: the
  properties alone are not inductive, since a rollback
  would be free to remove a map whose work order was made.

- `OrdersTyped` (`TypeOK`), with no hypothesis. `RestTyped` types the tables and
  the requests, `SyncTyped` the copies of the loops, and `OnePerCode` says that the
  template table has one row per owner and code: the upsert takes the rows of
  its key out before it adds one, a rollback puts back the row it took. What a
  DELETE leaves of a list is `Sift`, whose result `SiftLeaves` describes once, by
  the places of what is left: still in order, each place once, nothing that was
  to go, everything else. The prover has no rules for a recursive filter.

### Printing (`PrintingProofs`)

With no hypothesis beyond the types of requests and salts; splits
of any length, any number of jobs and operators, over failures and restarts.

- `PrintingTyped` (`TypeOK`). A job is given its numbers one by one, so a line is
  typed with and without its number.
- `BookedIsLabelled` (`BookedStockIsLabelled`). The property is not inductive: a
  draft is submitted requests after its labels were reported. `LabelledInv` adds
  that a job that may still submit has a print that cannot fail any more, and
  that no two jobs work on one draft, so the submission of one books nothing of
  another's.
- `SplitsAreConserved` (`SplitsConserve`). `SumOf` is a function over the positions
  of the outputs, so the lemmas on it (`SumIs`, `SumGrows`) are by induction over
  numbers (`LeastNumbers!StepByStep`): like terms have like sums, a number put in
  front is added. `ConservingInv` adds what a job carries: the lines of a split weigh what its
  source does from the validation on, whatever numbers they are given.
- `StoppedIsQuiet` (`QuietAfterStop`). `QuietInv` says that a batch that was stopped
  and not started again is not active.

### Stock (`StockProofs`)

Any number of requests, receipts, notes and returns; lost answers, refusals,
hang-ups and the desk included; finitely many customers (`NotesAssumption`). No
hypothesis but one, on the sources.

- `StockTypeCorrect` (`TypeOK`), from `Typed`, which says for each step of a
  request what it holds: the document exists, a copy of a receipt has its
  quantity as announced, a decision is valid, a return it is about to book is
  there. A copy may be stale in everything else, so these are the facts no
  write changes (`Kept`): each lemma on a step shows that it keeps them for the
  requests of others (`Moved`), and the theorems below reuse that.
- `ReceiptsWithinSent` (`NeverMoreThanSent`) and `NotesVisible` (`BookedIsVisible`)
  follow from `Typed`: a valid decision fits what was sent, and an issue submits
  only after the field that shows the note was written.
- `FailedIssuesUndone` (`FailedIssueLeavesNothing`), an action property, from the
  same invariant.
- `SourcesIssuedOnce` (`SourceIssuedOnce`), if the database is read directly or each
  source is issued to one customer, because through ERPNext only the notes of
  the customer are searched, and of those the first `SearchLimit`. A note carries
  how many notes its check covered (`checked`), none where the customer had more
  than one search reads: the theorem then promises nothing of it. `SourceInv` adds
  that what a request found free is still free among the notes it saw: a note once
  cancelled or deleted stays so.
- `StatesBacked` (`StateBackedByReturn`). The state of a note is written two steps
  after its return was booked, from a copy older still. `ReturnInv` carries the
  argument along: a request that has booked knows that enough has come back, one
  that is about to book knows that its return is enough, and no two requests book
  the same return; what has come back only grows (`ReturnsGrow`). The sum over the
  return notes is handled by `TotalChanges`: appending a draft changes nothing,
  booking one adds its quantity.
- `ConfirmsWhole` (`ConfirmIsWhole`), an action property. The answer comes up to
  five requests after the receipt was read, so `AloneInv` first says which
  requests nothing interferes with (no other one works on their document, and
  nobody did since they began), and `ConfirmInv` what such a confirmation knows
  at each of its steps: the receipt reads as it did before, or as its last
  request made it, and the undo it may still send either restores the former or is
  refused and leaves a draft with the whole decision. A refused undo is an outcome
  of its own (`kept`), not a lost answer.
- `AnswersSeenByAll` (`AnswerIsSeenByAll`). A customer's answer is shown from
  the state field to one screen and from the returns to others. `AnswerInv` says
  what an answer nothing interferes with has written of either and what its
  return adds; it rests on `ReturnInv`, because the return is booked before the
  state is written, and another return of the note would be counted with it.
- `ListsAgree` (`ListsAddUp`) needs `Typed` only. Counting is avoided: the lists
  and the totals are compared document by document, since no two documents share
  a name and each is of exactly one kind.
- `ViewsOfOneAnother` (`ViewsAgree`) needs `Typed` only, too. Totals of different
  parties are compared by lemmas on `SumOver` (`SumOverIs`, `SumsTogether`,
  `SumOfCounts`), counts by pairing the rows of two lists; the archive is within the
  history while that has place for everything, and `Cut` is all that is said of the
  rows a limit leaves out.

### Access (`AccessProofs`, `AccessPromiseProofs`)

Any number of handlers, tokens, people, codes and groups, any mix of requests,
both backends, faults and restarts. No hypothesis but the types of the constants.

- `AccessTyped` (`TypeOK`), from `Typed`, which says for each step what the request
  holds: a token that was issued and is among its keys, a principal once a
  session was read, the whole record before a state is written back, the whole
  file in the JSON backend. `OpenJobKept` keeps it for the others while one
  request moves; `Elsewhere` stands for the steps that touch neither sessions
  nor profiles, and `Rest` for those that touch no state with a code.
- `CodesWithinBudget` (`RegenBudget`). The count is read in one step and written in
  another, so the property alone says nothing of what is about to be written.
  `RegenInv` adds that a request on its way carries the count of the store, or
  that count and one more for the code it makes (`Counted`), that two requests
  on the way to one record are known to have raced, and that a JSON file about to
  be written agrees with the store on every record but its own.
- `SessionsEnd` (`SessionsEndProperly`). The stores alone do not tell why a session
  stays: a purge deletes by the index, and a logout may overlap a read that is
  about to fill the cache. `SessionInv` says that the index has no entry but that of
  the stored record (`Indexed`), that the JSON file holds nothing unexpired that
  the memory has not, unless a write of it failed (`Files`), that what is given is
  never more than a renewal gives and is covered by the record that a restart
  finds (`Granting`), and what a request on its way knows: a record it carries to
  the store or the cache covers what is given (`JobGrants`), a request that ends a
  session nobody raced has already emptied the store (`JobEnds`), and one that is
  alone shares its token with no other (`Alone`). `Effect` is all that a step may do
  to the tokens of others; `TokensKept` and `OthersGrant` use nothing else.

What was acknowledged is kept (`AcknowledgedHolds`) is proved part by part. Every
request works on keys, and the properties speak of those that were alone on
theirs, so each invariant has the same form: what is confirmed is stored, and a
request on its way, alone or not, holds what it must for its next write to leave
it so. `StepsLand` lists where each kind of step leads, so that each part has to
look at its own steps only. `MoverIs` serves `BarredStaysOut` in the same way.

- `GroupsAcceptChildren` (`GroupsAccept`), by `GroupInv`: a request at the placing
  step has a parent that is a group, and a group stays one.
- `KeeperCodeAgrees` (`CodeAgrees`), by `CodeInv`: the code goes to the state, the
  configuration, the identity and the file in four steps; the invariant says
  which of them agree at each, and that the lock of the configuration is held by
  the request that is about to give it back.
- `RolesAreKept` (`RolesHold`), by `RoleInv`: a request that has read the roles, and
  is alone, has every confirmed one in its copy, since the JSON file is rewritten
  from it. The memory keeps what the file refused; a confirmed entry is in both.
- `DevicesHaveOneOwner` (`OneOwner`), by `PushInv`: the lists of the LMDB store and
  its index of owners say the same, which is why a registration finds the one
  list it has to take the device from; the JSON file, which is what the next
  process reads, has every confirmed device too. Nobody registers the device of
  the legacy file in the claim, because each start migrates that file again.
- The nickname, by `PrefsInv`: preferences are read and written whole, so a request
  about the avatar that is alone carries the confirmed nickname in its copy, and
  the old file is only copied where nothing was confirmed yet.
- `SupplierPromisesHold` (`PromisesHold`), by `PromiseInv`. The state store keeps a
  supplier and a customer of the same name under that name alone, so a request
  about the customer rewrites the supplier's record without being a request
  about the supplier: what was confirmed of it is then forgotten
  (`CustomerChanges`), except that it is blocked. Two promises are made of items:
  of the stored set, and of the rows in ERPNext, the latter for a whole set only as
  far as the catalog told the request rightly (`arg.right`). `PromiseInv` says of
  each step what the request's copy of a record has of what is confirmed, of the
  code lines in ERPNext's details, and which rows of an item are read and not
  deleted yet.
- `AcknowledgedIsKept` (`AcknowledgedHolds`), all of these at once.
- `BarredStaysOutHolds` (`BarredStaysOut`): a blocked flag is only changed by a
  request about the supplier, not even by one about a customer of the name, and `DecidesLogin` shows that a login
  reads it in the step that lets the person in. The other half compares what
  `Judge` grants with `RoleInv`.

Two errors of the model, which no run had shown, were found by proofs that
did not go through. `unassign_supplier_item` and `unassign_customer_item` read and
delete rows of different tables; the model had kept one list for both, so a
customer's removal was believed to delete a supplier's rows. `ReadRows` and
`DeleteRows` now tell them apart, and one mix of `access` has both. The other is
of the budget: a new code of the warehouse keeper, overlapped in the JSON backend
by a new code of another record, was not counted as a race, and the file the
one writes undoes the count of the other. Both writes replace the whole file
(`store/admin_state_store`), so `AskWerkaCode` now forgets every count that such a
race makes uncertain, as `BeginState` did.

### Catalog (`CatalogProofs`)

Any tables, keys, rows and transactions (`InstancesAssumption`: finitely many
places, and a row is not its absence), any number of them open at a time, any
interleaving of commits with the queries, failures and restarts.

- `CatalogInSync`: `SyncInv` is inductive. Each conjunct is what one of a delta's
  three queries has established and what no later commit may undo unless it
  makes the table `blind` or `hidden`. The hard case is a table whose count agrees, so
  that its keys are not asked for: `CountIsAccounted` keeps the set of rows that were
  counted, each one of the cache's or one the query for changed rows will find,
  and if no changed row is new to the cache, that set is the cache's own
  (`UnkeyedIsCurrent`). That argument is about pairs, while the count is of rows:
  `RepeatsShown` says that a table with a repeated pair is blind, so that elsewhere
  the two are the same number. The mutant of `NeedsKeys` shows what the second half of the
  test is for.
- `ReadsAreRecent` (`AnswersAreRecent`) follows: whatever is served, absences
  included, is in the window of its row.
- `FallbackChangesNothing` (`FallbackAgrees`) compares the seventeen listings of
  `CatalogReads` query by query; it needs nothing of the sync.

### Only model-checked, and why

- Liveness: `SheetComplete`, `JobsAreSettled`, `CatchesUp`, `FeedsCatchUp`.
- `NumbersAreUnique`, which is arithmetic on powers of two: that `FormatEpc` gives
  different readings and counts different numbers is beyond the provers.
- The run `maps`, whose operators are recursive.

## 5. Findings

1. `queue_shared`: the queue action's read-decide-write is not atomic; the doc
   comment of the handler says it acts on the *current* actionable order.
2. `orders_renumber`: a blank number bypasses `order_number_immutable`.
3. `orders_rollback`: the rollback deletes by the un-normalised id.
4. `orders_products`: the plan of the work-order sync makes ERPNext the source to
   read opened orders from; a template that names another product than its map has
   the whole batch refused, in each sync.

## 6. Plan

`NumbersAreUnique`, if `FormatEpc` is shown one-to-one bit by bit; planners' moves
under `QueueImplementsLedger`, with a ledger that may change an order's plan.

Not modelled: apparatus groups (a list replaced as a whole), the calculator of
`core/formula.rs` and the other pure arithmetic of order sheets (table look-ups and
rounding on floating point numbers), the AI proxy, PDF layout, and the wiring of
the process. Of the ERPNext and scale clients only what an answer, an error
or a timeout means to the caller. Left out everywhere: text formats, paging and
ranking, locale, logging.

## 7. Running

    tlc -config queue_chain.cfg MCQueueLedger
    tlc -config orders.cfg MCOrderSave
    tlc -config maps.cfg MCProductionMaps
    tlc -config printing.cfg MCPrinting
    tlc -config stock.cfg MCStock
    tlc -config access.cfg MCAccess
    tlc -config catalog.cfg MCCatalog
    tlapm ProductionQueueProofs.tla
    tlapm OrderSaveProofs.tla
    tlapm LeastNumbers.tla
    tlapm PrintingProofs.tla
    tlapm StockProofs.tla
    tlapm AccessProofs.tla
    tlapm AccessPromiseProofs.tla
    tlapm CatalogProofs.tla

The other `queue_*.cfg` belong to `MCProductionQueue`, the other `orders*.cfg` to
`MCOrderSave`.
