------------------------------ MODULE CatalogSync ------------------------------
(***************************************************************************)
(* The SQLite copy of ERPNext's catalog tables and the loop that keeps it: *)
(* a full sync reads every table and replaces them all, a delta sync reads *)
(* the statistics of every table, then the rows modified after the newest  *)
(* one it has, then, where rows must have gone, the keys, and applies it   *)
(* all at once.  Each query is a step of its own and sees what is          *)
(* committed then.  ERPNext stamps a row with the time of the change and   *)
(* commits it later, so stamps need not be committed in order; and it has  *)
(* the rows that link an item and a party by names of their own, so a pair *)
(* may come more than once where the cache has it once.                    *)
(***************************************************************************)
EXTENDS Integers, Sequences, FiniteSets, FiniteSetsExt

CONSTANTS
  Gone,        \* the row of a key a table does not have
  Instances,   \* what ERPNext holds, the tables of links, what may change,
               \*   and a bound on the changes: [tables, links, rows, edits, changes]
  MaxOpen,     \* bound on transactions open at a time
  MaxFaults    \* bound on failed syncs and restarts

ASSUME BoundsAssumption == MaxOpen \in Nat /\ MaxFaults \in Nat

TablesIn(i) == {i.tables[n] : n \in DOMAIN i.tables}

\* Every row there ever is, as the pair of its table and key.
PlacesIn(i) == UNION ({DOMAIN e : e \in i.edits} \cup
                      {{<<t, k>> : k \in DOMAIN i.rows[t]} : t \in TablesIn(i)})

\* Two functions as one; the first is used where both have an entry.
Over(first, rest) ==
  [k \in DOMAIN first \cup DOMAIN rest |-> IF k \in DOMAIN first THEN first[k] ELSE rest[k]]

Only(key, value) == [k \in {key} |-> value]

Stamped(row, at) == Over([modified |-> at], row)

\* A row is not Gone, and the places are those of the tables.
ASSUME InstancesAssumption ==
  \A i \in Instances :
    /\ i.tables \in Seq(STRING) /\ i.changes \in Nat
    /\ IsFiniteSet(PlacesIn(i))
    /\ \A p \in PlacesIn(i) : p = <<p[1], p[2]>> /\ p[1] \in TablesIn(i)
    /\ \A t \in TablesIn(i) : \A k \in DOMAIN i.rows[t] :
         \A n \in 0 .. i.changes : Stamped(i.rows[t][k], n) # Gone
    /\ \A e \in i.edits : \A p \in DOMAIN e :
         \A n \in 0 .. i.changes : e[p] # Gone => Stamped(e[p], n) # Gone

VARIABLES
  instance,    \* the instance in play
  remote,      \* per table, the committed rows by key, of a pair's its last
  repeats,     \* the other rows of pairs that come again: [place, row]
  open,        \* transactions stamped and not committed: [edit, stamp]
  stamp,       \* ERPNext's clock
  local,       \* per table, the cached rows by key
  ready,       \* whether a sync has completed since the start
  fullNeeded,  \* whether the next sync is a full one
  sync,        \* the running sync's locals, by table
  faults,      \* failures so far
  window,      \* history: what each row has been since the last sync that
  current,     \*   saw its table whole began, and since this one began
  blind,       \* history: tables whose changes the deltas may miss: a row was
               \*   committed behind its stamp, or a pair came again
  hidden       \* history: tables a row came to or went from unseen

remoteVars == <<instance, remote, repeats, open, stamp>>
cacheVars == <<local, ready, fullNeeded, sync, faults>>
windowVars == <<window, current, blind, hidden>>
syncVars == <<remoteVars, cacheVars, windowVars>>

Tables == TablesIn(instance)

Places == PlacesIn(instance)

RowIn(catalog, p) == IF p[2] \in DOMAIN catalog[p[1]] THEN catalog[p[1]][p[2]] ELSE Gone

-----------------------------------------------------------------------------
(* ERPNext                                                                 *)

\* An edit gives places new rows; Gone deletes.
Edited(t, tx) ==
  LET touched == {p[2] : p \in {p \in DOMAIN tx.edit : p[1] = t}}
      put     == {k \in touched : tx.edit[<<t, k>>] # Gone}
  IN  [k \in (DOMAIN remote[t] \ touched) \cup put |->
         IF k \in put THEN Stamped(tx.edit[<<t, k>>], tx.stamp) ELSE remote[t][k]]

\* A transaction writes: MariaDB locks the rows until it commits.
BeginEdit(edit) ==
  /\ stamp < instance.changes /\ Cardinality(open) < MaxOpen
  /\ \A tx \in open : DOMAIN tx.edit \cap DOMAIN edit = {}
  /\ \E p \in DOMAIN edit : edit[p] # Gone \/ RowIn(remote, p) # Gone
  /\ stamp' = stamp + 1
  /\ open' = open \cup {[edit |-> edit, stamp |-> stamp']}
  /\ UNCHANGED <<instance, remote, repeats, cacheVars, windowVars>>

Newest(rows) == Max({0} \cup {rows[k].modified : k \in DOMAIN rows})

Running == sync.kind # "idle"

\* The newest stamp the next delta sync may start from.
Seen(t) ==
  Max({Newest(local[t])} \cup
      (IF Running /\ t \in DOMAIN sync.changed THEN {Newest(sync.changed[t])} ELSE {}))

Puts(t, tx) == \E p \in DOMAIN tx.edit : p[1] = t /\ tx.edit[p] # Gone

\* A row newer than the cache's is counted and deleted before the query for
\* changed rows; or a row that query did not find is made again, after it,
\* under a key the cache still has and before the keys are read.
HidesARow(t, tx) ==
  /\ sync.kind = "delta" /\ t \in DOMAIN sync.count
  /\ \E p \in DOMAIN tx.edit :
       /\ p[1] = t
       /\ \/ /\ t \notin DOMAIN sync.changed
             /\ tx.edit[p] = Gone /\ RowIn(remote, p) # RowIn(local, p)
          \/ /\ t \in DOMAIN sync.changed /\ t \notin DOMAIN sync.keys
             /\ tx.edit[p] # Gone /\ RowIn(remote, p) = Gone /\ RowIn(local, p) # Gone

\* A link may be written beside the one there is, which no index forbids; a
\* deleted pair goes with all its rows.
Repeated(tx, beside) ==
  {r \in repeats : r.place \in DOMAIN tx.edit => tx.edit[r.place] # Gone}
    \cup {[place |-> p, row |-> RowIn(remote, p)] : p \in beside}

Repeatable(tx) ==
  {p \in DOMAIN tx.edit :
     p[1] \in instance.links /\ tx.edit[p] # Gone /\ RowIn(remote, p) # Gone}

CommitEdit(tx) ==
  /\ tx \in open
  /\ open' = open \ {tx}
  /\ remote' = [t \in Tables |-> Edited(t, tx)]
  /\ \E beside \in SUBSET Repeatable(tx) : repeats' = Repeated(tx, beside)
  /\ window' = [p \in Places |-> window[p] \cup {RowIn(remote', p)}]
  /\ current' = [p \in Places |-> current[p] \cup {RowIn(remote', p)}]
  /\ blind' = blind \cup {t \in Tables : Puts(t, tx) /\ tx.stamp <= Seen(t)}
                   \cup {r.place[1] : r \in repeats'}
  /\ hidden' = hidden \cup {t \in Tables : HidesARow(t, tx)}
  /\ UNCHANGED <<instance, stamp, cacheVars>>

\* One of the rows of a pair is deleted, an older one or the last.
DeleteRepeated(r) ==
  /\ r \in repeats
  /\ \A tx \in open : r.place \notin DOMAIN tx.edit
  /\ repeats' = repeats \ {r}
  /\ \/ UNCHANGED remote
     \/ remote' = [remote EXCEPT ![r.place[1]][r.place[2]] = r.row]
  /\ UNCHANGED <<instance, open, stamp, cacheVars, windowVars>>

-----------------------------------------------------------------------------
(* A sync                                                                  *)

Idle == [kind |-> "idle"]

RepeatsAt(p) == {r.row : r \in {r \in repeats : r.place = p}}

Now == [p \in Places |-> {RowIn(remote, p)} \cup RepeatsAt(p)]

\* The queries go through the tables in a fixed order.
NextTable(done) ==
  instance.tables[Min({i \in DOMAIN instance.tables : instance.tables[i] \notin done})]

Begins(locals) ==
  /\ ~Running
  /\ sync' = locals
  /\ current' = Now /\ hidden' = {}
  /\ UNCHANGED <<remoteVars, local, ready, fullNeeded, faults, window, blind>>

BeginFull == fullNeeded /\ Begins([kind |-> "full", changed |-> <<>>])

BeginDelta_BadStops ==
  ~ready /\ ~fullNeeded
  /\ Begins([kind |-> "delta", count |-> <<>>, changed |-> <<>>, keys |-> <<>>])

BeginDelta ==
  ~fullNeeded /\ Begins([kind |-> "delta", count |-> <<>>, changed |-> <<>>, keys |-> <<>>])

Query(locals) ==
  /\ sync' = locals
  /\ UNCHANGED <<remoteVars, local, ready, fullNeeded, faults, window, current, hidden>>

RepeatsIn(t) == {r \in repeats : r.place[1] = t}

\* The rows of a table a query finds, those newer than n, as they are stored:
\* of a pair's the one that is stored last.
Found(t, n) ==
  LET newer(k) == {row \in {remote[t][k]} \cup RepeatsAt(<<t, k>>) : row.modified > n}
      keys == {k \in DOMAIN remote[t] : newer(k) # {}}
  IN  {rows \in [keys -> UNION {newer(k) : k \in keys}] : \A k \in keys : rows[k] \in newer(k)}

SelectTable ==
  /\ sync.kind = "full" /\ DOMAIN sync.changed # Tables
  /\ LET t == NextTable(DOMAIN sync.changed)
     IN  /\ \E rows \in Found(t, -1) :
              Query([sync EXCEPT !.changed = Over(@, Only(t, rows))])
         /\ blind' = {u \in blind : u = t => RepeatsIn(t) # {}}

\* COUNT(*) counts a pair as often as it comes.
RowCount(t) == Cardinality(DOMAIN remote[t]) + Cardinality(RepeatsIn(t))

FetchTableStats ==
  /\ sync.kind = "delta" /\ DOMAIN sync.count # Tables
  /\ LET t == NextTable(DOMAIN sync.count)
     IN  Query([sync EXCEPT !.count = Over(@, Only(t, RowCount(t)))])
  /\ UNCHANGED blind

\* Only this loop writes the store, so its rows are still those of the start.
Changed(t) == Found(t, Newest(local[t]))

SelectChanged ==
  /\ sync.kind = "delta" /\ DOMAIN sync.count = Tables /\ DOMAIN sync.changed # Tables
  /\ LET t == NextTable(DOMAIN sync.changed)
     IN  \E rows \in Changed(t) : Query([sync EXCEPT !.changed = Over(@, Only(t, rows))])
  /\ UNCHANGED blind

MissingChangedKeys(t) == \E k \in DOMAIN sync.changed[t] : k \notin DOMAIN local[t]

NeedsKeys_BadCountOnly(t) == Cardinality(DOMAIN local[t]) # sync.count[t]

NeedsKeys(t) == Cardinality(DOMAIN local[t]) # sync.count[t] \/ MissingChangedKeys(t)

\* What is left of the rows the cache has and those just read.
RetainKeys(t, rows) ==
  IF t \in DOMAIN sync.keys THEN [k \in DOMAIN rows \cap sync.keys[t] |-> rows[k]] ELSE rows

TablesToKey == {t \in Tables : NeedsKeys(t)}

FetchKeys ==
  /\ sync.kind = "delta" /\ DOMAIN sync.changed = Tables
  /\ DOMAIN sync.keys # TablesToKey
  /\ LET t == NextTable((Tables \ TablesToKey) \cup DOMAIN sync.keys)
     IN  Query([sync EXCEPT !.keys = Over(@, Only(t, DOMAIN remote[t]))])
  /\ UNCHANGED blind

\* The loop after a sync that went well.  A table it did not see whole keeps
\* its older window.
Completed(whole) ==
  /\ ready' = TRUE /\ fullNeeded' = FALSE /\ sync' = Idle
  /\ window' = [p \in Places |-> IF p[1] \in whole THEN current[p] ELSE window[p]]
  /\ UNCHANGED <<remoteVars, faults, current, blind, hidden>>

ReplaceCatalog ==
  /\ sync.kind = "full" /\ DOMAIN sync.changed = Tables
  /\ local' = sync.changed
  /\ Completed(Tables)

ApplyDelta ==
  /\ sync.kind = "delta" /\ DOMAIN sync.changed = Tables
  /\ DOMAIN sync.keys = TablesToKey
  /\ local' = [t \in Tables |-> RetainKeys(t, Over(sync.changed[t], local[t]))]
  /\ Completed(Tables \ (blind \cup hidden))

Fault == faults < MaxFaults /\ faults' = faults + 1

\* A query or the transaction fails: nothing is written.
SyncFails ==
  /\ Running /\ Fault
  /\ sync' = Idle /\ fullNeeded' = TRUE
  /\ UNCHANGED <<remoteVars, local, ready, windowVars>>

\* The file outlives the process; that it is complete does not.
Restart ==
  /\ Fault
  /\ sync' = Idle /\ fullNeeded' = TRUE /\ ready' = FALSE
  /\ UNCHANGED <<remoteVars, local, windowVars>>

SyncStep ==
  \/ BeginFull \/ BeginDelta
  \/ SelectTable \/ FetchTableStats \/ SelectChanged \/ FetchKeys
  \/ ReplaceCatalog \/ ApplyDelta

SyncInit ==
  /\ instance \in Instances
  /\ remote = [t \in Tables |->
                 [k \in DOMAIN instance.rows[t] |-> Stamped(instance.rows[t][k], 0)]]
  /\ repeats = {} /\ open = {} /\ stamp = 0
  /\ local = [t \in Tables |-> <<>>] /\ ready = FALSE /\ fullNeeded = TRUE
  /\ sync = Idle /\ faults = 0
  /\ window = Now /\ current = Now /\ blind = {} /\ hidden = {}
=============================================================================
