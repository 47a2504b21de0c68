---------------------------- MODULE CatalogProofs ----------------------------
(***************************************************************************)
(* What a reader of the catalog is served is no older than the last sync,  *)
(* for any tables, rows and transactions of ERPNext, and is what MariaDB   *)
(* would have answered on the same rows.                                   *)
(*                                                                         *)
(* A delta is three queries per table with commits between them.  The      *)
(* invariant follows what each has established: the copy lacks no row it   *)
(* will not ask for (LocalCovers), what was read again was so while the    *)
(* sync ran (ReadIsCurrent), a row that is new would have been read        *)
(* (NewIsRead), and one that was not read again is as it was or has gone   *)
(* for as long as the sync runs (KeptIsCurrent).  Where the keys are not   *)
(* asked for, the count stands for them: every row counted is accounted    *)
(* for by one of the cache or one read (CountIsAccounted), so that a cache *)
(* of as many rows as were counted has no row that has gone.  That holds   *)
(* only where no pair comes twice (RepeatsShown).                          *)
(***************************************************************************)
EXTENDS Catalog, LeastNumbers, FiniteSetTheorems

\* The rows of a table, of a copy of it or of a part of it.
TableOK(t, rows) ==
  \A k \in DOMAIN rows :
    <<t, k>> \in Places /\ rows[k] # Gone /\ rows[k].modified \in 0 .. stamp

\* The copy has the committed rows that are no newer than n, as they are.
Covers(t, rows, n) ==
  \A k \in DOMAIN remote[t] :
    remote[t][k].modified <= n => k \in DOMAIN rows /\ rows[k] = remote[t][k]

CatalogTyped ==
  /\ instance \in Instances
  /\ stamp \in 0 .. instance.changes
  /\ ready \in BOOLEAN /\ fullNeeded \in BOOLEAN
  /\ \A tx \in open : tx.edit \in instance.edits /\ tx.stamp \in 0 .. stamp
  /\ DOMAIN remote = Tables
  /\ \A t \in Tables : TableOK(t, remote[t]) /\ TableOK(t, local[t])
  /\ ~fullNeeded => ready

\* Further rows are of pairs there are, in tables the deltas are blind to.
RepeatsShown ==
  \A r \in repeats :
    /\ r.place \in Places /\ r.place[1] \in blind
    /\ r.place[2] \in DOMAIN remote[r.place[1]]
    /\ r.row # Gone /\ r.row.modified \in 0 .. stamp /\ r.row \in current[r.place]

FullShape == sync = [kind |-> "full", changed |-> sync.changed] /\ fullNeeded

DeltaShape ==
  /\ sync = [kind |-> "delta", count |-> sync.count, changed |-> sync.changed,
             keys |-> sync.keys]
  /\ ~fullNeeded
  /\ DOMAIN sync.count \subseteq Tables /\ DOMAIN sync.keys \subseteq TablesToKey
  /\ DOMAIN sync.changed # {} => DOMAIN sync.count = Tables
  /\ DOMAIN sync.keys # {} => DOMAIN sync.changed = Tables

\* How far a sync is: its queries come in turn.
SyncShaped ==
  /\ sync = Idle \/ FullShape \/ DeltaShape
  /\ Running => /\ DOMAIN sync.changed \subseteq Tables
                /\ \A t \in DOMAIN sync.changed : TableOK(t, sync.changed[t])

\* The windows hold what there is and what the cache serves.
WindowsHold ==
  \A p \in Places :
    /\ RowIn(remote, p) \in current[p] /\ current[p] \subseteq window[p]
    /\ ready => RowIn(local, p) \in window[p]

\* The cache lacks no row it will not ask for.
LocalCovers ==
  ~fullNeeded => \A t \in Tables \ blind : Covers(t, local[t], Newest(local[t]))

\* What a sync read was so while it ran.
ReadIsCurrent ==
  Running =>
    \A p \in Places : p[1] \in DOMAIN sync.changed =>
      IF p[2] \in DOMAIN sync.changed[p[1]]
      THEN sync.changed[p[1]][p[2]] \in current[p]
      ELSE sync.kind = "full" => Gone \in current[p]

FullCovers ==
  sync.kind = "full" =>
    \A t \in DOMAIN sync.changed \ blind :
      Covers(t, sync.changed[t], Newest(sync.changed[t]))

DeltaCovers ==
  sync.kind = "delta" =>
    \A t \in DOMAIN sync.changed \ blind :
      /\ Covers(t, Over(sync.changed[t], local[t]), Seen(t))
      /\ t \in DOMAIN sync.keys =>
           \A k \in DOMAIN remote[t] : remote[t][k].modified <= Seen(t) => k \in sync.keys[t]

KeysAreCurrent ==
  sync.kind = "delta" =>
    \A p \in Places : p[1] \in DOMAIN sync.keys /\ p[2] \notin sync.keys[p[1]] =>
      Gone \in current[p]

\* A row the cache has not was not there when its table was asked.
NewIsRead ==
  sync.kind = "delta" =>
    \A p \in Places :
      p[1] \in DOMAIN sync.changed \ blind
        /\ p[2] \notin DOMAIN local[p[1]] \cup DOMAIN sync.changed[p[1]] =>
          Gone \in current[p]

\* A row of the cache that was not read again is as it was or gone.
KeptIsCurrent ==
  sync.kind = "delta" =>
    \A p \in Places :
      p[1] \in DOMAIN sync.changed \ (blind \cup hidden)
        /\ p[2] \in DOMAIN local[p[1]] \ DOMAIN sync.changed[p[1]] =>
          \/ RowIn(local, p) \in current[p]
          \/ IF p[1] \in DOMAIN sync.keys THEN p[2] \notin sync.keys[p[1]]
                                          ELSE RowIn(remote, p) = Gone

\* A row that was counted is the cache's or is read with the changed ones.
Accounted(p) ==
  LET t == p[1]
      k == p[2]
  IN  \/ k \in DOMAIN local[t] /\ local[t][k] \in current[p]
      \/ IF t \in DOMAIN sync.changed
         THEN k \in DOMAIN sync.changed[t]
         ELSE k \in DOMAIN remote[t] /\ remote[t][k].modified > Newest(local[t])

CountIsAccounted ==
  sync.kind = "delta" =>
    \A t \in DOMAIN sync.count \ (blind \cup hidden) :
      \E counted \in SUBSET Places :
        /\ \A p \in counted : p[1] = t /\ Accounted(p)
        /\ Cardinality(counted) = sync.count[t]

SyncInv ==
  /\ CatalogTyped /\ RepeatsShown
  /\ SyncShaped /\ WindowsHold /\ LocalCovers /\ ReadIsCurrent
  /\ FullCovers /\ DeltaCovers /\ KeysAreCurrent /\ NewIsRead /\ KeptIsCurrent
  /\ CountIsAccounted

-----------------------------------------------------------------------------
(* Numbers, tables and places                                              *)

\* A set of numbers with a bound has a greatest one.
LEMMA MaxIs ==
  ASSUME NEW n \in Nat, NEW S \in SUBSET (0 .. n), S # {}
  PROVE  Max(S) \in S /\ \A y \in S : Max(S) >= y
<1> DEFINE Short == {n - y : y \in S}
<1>1. Short \in SUBSET Nat /\ Short # {}
  <2>1. \A y \in S : y \in 0 .. n
    OBVIOUS
  <2>2. \A y \in S : n - y \in Nat
    BY <2>1
  <2> QED
    BY <2>2
<1>2. PICK m \in Short : \A k \in Short : m <= k
  <2> HIDE DEF Short
  <2> QED
    BY <1>1, LeastNumber
<1>3. PICK x \in S : m = n - x
  OBVIOUS
<1>4. \A y \in S : x >= y
  <2> TAKE y \in S
  <2>1. m <= n - y
    BY <1>2
  <2> QED
    BY <2>1, <1>3
<1> QED
  BY <1>4, Zenon DEF Max

LEMMA MinIs ==
  ASSUME NEW S \in SUBSET Nat, S # {}
  PROVE  Min(S) \in S
<1>1. \E x \in S : \A y \in S : x =< y
  BY LeastNumber
<1> QED
  BY <1>1, Zenon DEF Min

\* Where all stamps are within a bound, the newest one is.
LEMMA NewestIs ==
  ASSUME NEW n \in Nat, NEW rows, \A k \in DOMAIN rows : rows[k].modified \in 0 .. n
  PROVE  /\ Newest(rows) \in 0 .. n
         /\ \A k \in DOMAIN rows : rows[k].modified <= Newest(rows)
         /\ Newest(rows) = 0 \/ \E k \in DOMAIN rows : rows[k].modified = Newest(rows)
<1> DEFINE S == {0} \cup {rows[k].modified : k \in DOMAIN rows}
<1>1. S \in SUBSET (0 .. n) /\ S # {}
  OBVIOUS
<1>2. Max(S) \in S /\ \A y \in S : Max(S) >= y
  <2> HIDE DEF S
  <2> QED
    BY <1>1, MaxIs
<1>3. Newest(rows) = Max(S)
  BY DEF Newest
<1>4. \A k \in DOMAIN rows : rows[k].modified \in S
  OBVIOUS
<1>5. Max(S) = 0 \/ \E k \in DOMAIN rows : rows[k].modified = Max(S)
  BY <1>2, Zenon
<1> HIDE DEF S
<1> QED
  BY <1>1, <1>2, <1>3, <1>4, <1>5

LEMMA PlacesAre ==
  ASSUME instance \in Instances
  PROVE  /\ \A p \in Places : p = <<p[1], p[2]>> /\ p[1] \in Tables
         /\ IsFiniteSet(Places)
  BY InstancesAssumption, Zenon DEF Places, Tables

\* A table has as many places as it has keys.
LEMMA KeysCount ==
  ASSUME instance \in Instances, NEW t, NEW keys, \A k \in keys : <<t, k>> \in Places
  PROVE  /\ IsFiniteSet({<<t, k>> : k \in keys})
         /\ Cardinality({<<t, k>> : k \in keys}) = Cardinality(keys)
<1> DEFINE S == {<<t, k>> : k \in keys}
           f == [p \in S |-> p[2]]
<1>1. /\ \A p \in S : p = <<t, p[2]>> /\ p[2] \in keys
      /\ \A k \in keys : <<t, k>> \in S
      /\ S \in SUBSET Places
  OBVIOUS
<1>2. IsFiniteSet(S)
  <2>1. IsFiniteSet(Places)
    BY PlacesAre
  <2> HIDE DEF S
  <2> QED
    BY <1>1, <2>1, FS_Subset
<1> HIDE DEF S
<1>3. f \in [S -> keys]
  BY <1>1
<1>4. \A p, q \in S : f[p] = f[q] => p = q
  <2> TAKE p, q \in S
  <2>1. p = <<t, f[p]>> /\ q = <<t, f[q]>>
    BY <1>1
  <2> QED
    BY <2>1
<1>5. \A k \in keys : \E p \in S : f[p] = k
  <2> TAKE k \in keys
  <2>1. <<t, k>> \in S /\ f[<<t, k>>] = k
    BY <1>1
  <2> QED
    BY <2>1
<1> HIDE DEF f
<1>6. f \in Bijection(S, keys)
  BY <1>3, <1>4, <1>5 DEF Bijection, Injection, Surjection, IsInjective
<1>7. Cardinality(S) = Cardinality(keys)
  BY <1>2, <1>6, FS_Bijection DEF ExistsBijection
<1> QED
  BY <1>2, <1>7 DEF S

LEMMA NextTableIs ==
  ASSUME instance \in Instances, NEW done \in SUBSET Tables, done # Tables
  PROVE  NextTable(done) \in Tables \ done
<1> DEFINE Left == {i \in DOMAIN instance.tables : instance.tables[i] \notin done}
<1>1. instance.tables \in Seq(STRING)
  BY InstancesAssumption, Zenon
<1>2. Left \in SUBSET Nat
  BY <1>1
<1>3. Left # {}
  BY DEF Tables, TablesIn
<1>4. Min(Left) \in Left
  <2> HIDE DEF Left
  <2> QED
    BY <1>2, <1>3, MinIs
<1> QED
  BY <1>4 DEF NextTable, Tables, TablesIn

LEMMA SeenIs ==
  ASSUME CatalogTyped, SyncShaped, NEW t \in Tables
  PROVE  /\ Newest(local[t]) \in 0 .. stamp /\ Seen(t) \in 0 .. stamp
         /\ Newest(local[t]) <= Seen(t)
         /\ Running /\ t \in DOMAIN sync.changed =>
              /\ Newest(sync.changed[t]) \in 0 .. stamp
              /\ Newest(sync.changed[t]) <= Seen(t)
              /\ Seen(t) \in {Newest(local[t]), Newest(sync.changed[t])}
         /\ ~(Running /\ t \in DOMAIN sync.changed) => Seen(t) = Newest(local[t])
<1>1. stamp \in Nat
  BY InstancesAssumption DEF CatalogTyped
<1>2. Newest(local[t]) \in 0 .. stamp
  <2>1. \A k \in DOMAIN local[t] : local[t][k].modified \in 0 .. stamp
    BY DEF CatalogTyped, TableOK
  <2> QED
    BY <1>1, <2>1, NewestIs
<1>3. CASE Running /\ t \in DOMAIN sync.changed
  <2>1. \A k \in DOMAIN sync.changed[t] : sync.changed[t][k].modified \in 0 .. stamp
    BY <1>3 DEF SyncShaped, TableOK
  <2>2. Newest(sync.changed[t]) \in 0 .. stamp
    BY <1>1, <2>1, NewestIs
  <2> DEFINE S == {Newest(local[t])} \cup {Newest(sync.changed[t])}
  <2>3. S \in SUBSET (0 .. stamp) /\ S # {}
    BY <1>2, <2>2
  <2>4. Max(S) \in S /\ \A y \in S : Max(S) >= y
    <3> HIDE DEF S
    <3> QED
      BY <1>1, <2>3, MaxIs
  <2>5. Seen(t) = Max(S)
    BY <1>3 DEF Seen
  <2>6. Newest(local[t]) \in S /\ Newest(sync.changed[t]) \in S
    OBVIOUS
  <2>7. Max(S) \in {Newest(local[t]), Newest(sync.changed[t])}
    BY <2>4
  <2> HIDE DEF S
  <2> QED
    BY <1>2, <1>3, <2>2, <2>3, <2>4, <2>5, <2>6, <2>7
<1>4. CASE ~(Running /\ t \in DOMAIN sync.changed)
  <2> DEFINE S == {Newest(local[t])}
  <2>1. Max(S) \in S
    <3>1. S \in SUBSET (0 .. stamp) /\ S # {}
      BY <1>2
    <3> HIDE DEF S
    <3> QED
      BY <1>1, <3>1, MaxIs
  <2>2. S \cup {} = S
    OBVIOUS
  <2>3. Seen(t) = Max(S)
    BY <1>4, <2>2, Zenon DEF Seen
  <2> QED
    BY <1>2, <1>4, <2>1, <2>3
<1> QED
  BY <1>3, <1>4

-----------------------------------------------------------------------------
(* The start, and steps that leave the catalogs alone                      *)

LEMMA StampedIs ==
  ASSUME NEW row, NEW at
  PROVE  Stamped(row, at).modified = at
  BY DEF Stamped, Over

LEMMA InitSynced == SyncInit => SyncInv
<1> SUFFICES ASSUME SyncInit PROVE SyncInv
  OBVIOUS
<1>i. instance \in Instances
  BY DEF SyncInit
<1>n. instance.changes \in Nat
  BY <1>i, InstancesAssumption, Zenon
<1>r. ASSUME NEW t \in Tables
      PROVE  TableOK(t, remote[t])
  <2> SUFFICES ASSUME NEW k \in DOMAIN remote[t]
               PROVE  <<t, k>> \in Places /\ remote[t][k] # Gone
                        /\ remote[t][k].modified \in 0 .. stamp
    BY DEF TableOK
  <2>1. k \in DOMAIN instance.rows[t]
        /\ remote[t][k] = Stamped(instance.rows[t][k], 0)
    BY DEF SyncInit
  <2>2. <<t, k>> \in Places
    <3> DEFINE Given == {{<<u, j>> : j \in DOMAIN instance.rows[u]} : u \in TablesIn(instance)}
    <3>1. <<t, k>> \in {<<t, j>> : j \in DOMAIN instance.rows[t]}
      BY <2>1
    <3>2. {<<t, j>> : j \in DOMAIN instance.rows[t]} \in Given
      BY DEF Tables
    <3> HIDE DEF Given
    <3>3. <<t, k>> \in UNION ({DOMAIN e : e \in instance.edits} \cup Given)
      BY <3>1, <3>2
    <3> QED
      BY <3>3, Zenon DEF Given, Places, PlacesIn
  <2>3. 0 \in 0 .. instance.changes
    BY <1>n
  <2>4. Stamped(instance.rows[t][k], 0) # Gone
    BY <2>1, <2>3, <1>i, InstancesAssumption, Zenon DEF Tables
  <2>5. Stamped(instance.rows[t][k], 0).modified = 0
    BY StampedIs
  <2> QED
    BY <2>1, <2>2, <2>4, <2>5 DEF SyncInit
<1>l. \A t \in Tables : DOMAIN local[t] = {}
  BY DEF SyncInit
<1>1. CatalogTyped
  <2>3. DOMAIN remote = Tables
    BY DEF SyncInit
  <2>1. \A t \in Tables : TableOK(t, local[t])
    BY <1>l, Zenon DEF TableOK
  <2>2. stamp \in 0 .. instance.changes /\ ready \in BOOLEAN /\ fullNeeded = TRUE /\ open = {}
    <3>1. stamp = 0 /\ ready = FALSE /\ fullNeeded = TRUE /\ open = {}
      BY Zenon DEF SyncInit
    <3>2. 0 \in 0 .. instance.changes
      BY <1>n
    <3> QED
      BY <3>1, <3>2, Zenon
  <2> QED
    BY <1>i, <1>r, <2>1, <2>2, <2>3, Zenon DEF CatalogTyped
<1>2. SyncShaped
  BY DEF SyncInit, SyncShaped, Running, Idle
<1>3. WindowsHold /\ RepeatsShown
  BY DEF SyncInit, WindowsHold, RepeatsShown, Now
<1>4. LocalCovers
  BY DEF SyncInit, LocalCovers
<1>5. sync.kind = "idle"
  BY DEF SyncInit, Idle
<1>6. ReadIsCurrent
  BY <1>5 DEF ReadIsCurrent, Running
<1>7. FullCovers /\ DeltaCovers /\ KeysAreCurrent /\ NewIsRead /\ KeptIsCurrent
        /\ CountIsAccounted
  BY <1>5 DEF FullCovers, DeltaCovers, KeysAreCurrent, NewIsRead, KeptIsCurrent,
              CountIsAccounted
<1> QED
  BY <1>1, <1>2, <1>3, <1>4, <1>6, <1>7 DEF SyncInv

\* Nothing of a sync is left when it has ended.
LEMMA IdleKeeps ==
  ASSUME sync' = Idle
  PROVE  ReadIsCurrent' /\ FullCovers' /\ DeltaCovers' /\ KeysAreCurrent' /\ NewIsRead'
           /\ KeptIsCurrent' /\ CountIsAccounted'
<1>1. sync'.kind = "idle"
  BY DEF Idle
<1> QED
  BY <1>1 DEF ReadIsCurrent, Running, FullCovers, DeltaCovers, KeysAreCurrent, NewIsRead,
              KeptIsCurrent, CountIsAccounted

\* ERPNext's clock and the transactions not committed are nobody's business.
LEMMA RestKeeps ==
  ASSUME SyncInv, CatalogTyped', stamp' \in Nat, stamp <= stamp',
         UNCHANGED <<instance, remote, repeats, cacheVars, windowVars>>
  PROVE  SyncInv'
<1> USE DEF cacheVars, windowVars
<1>1. Tables' = Tables /\ Places' = Places
  BY DEF Tables, Places
<1>2. stamp \in Nat
  BY InstancesAssumption DEF SyncInv, CatalogTyped
<1>3. SyncShaped'
  <2>1. \A t, rows : TableOK(t, rows) => TableOK(t, rows)'
    BY <1>1, <1>2 DEF TableOK
  <2>2. (sync' = Idle \/ FullShape' \/ DeltaShape') /\ Running' = Running
    BY <1>1 DEF SyncInv, SyncShaped, FullShape, DeltaShape, Running, TablesToKey,
                NeedsKeys, MissingChangedKeys
  <2> QED
    BY <1>1, <2>1, <2>2 DEF SyncInv, SyncShaped
<1>4. WindowsHold' /\ LocalCovers' /\ ReadIsCurrent' /\ FullCovers' /\ KeysAreCurrent'
        /\ NewIsRead' /\ KeptIsCurrent'
  BY <1>1 DEF SyncInv, WindowsHold, LocalCovers, ReadIsCurrent, FullCovers, KeysAreCurrent,
              NewIsRead, KeptIsCurrent, RowIn, Covers, Newest, Running
<1>7. RepeatsShown'
  BY <1>1, <1>2 DEF SyncInv, RepeatsShown
<1>5. DeltaCovers'
  <2>1. \A t : Seen(t)' = Seen(t)
    BY DEF Seen, Running
  <2> QED
    BY <1>1, <2>1 DEF SyncInv, DeltaCovers, Covers
<1>6. CountIsAccounted'
  <2> SUFFICES ASSUME sync'.kind = "delta",
                      NEW t \in DOMAIN sync'.count \ (blind' \cup hidden')
               PROVE  \E counted \in SUBSET Places' :
                        /\ \A p \in counted : p[1] = t /\ Accounted(p)'
                        /\ Cardinality(counted) = sync'.count[t]
    BY Zenon DEF CountIsAccounted
  <2>1. PICK counted \in SUBSET Places :
               /\ \A p \in counted : p[1] = t /\ Accounted(p)
               /\ Cardinality(counted) = sync.count[t]
    BY DEF SyncInv, CountIsAccounted
  <2>2. \A p : Accounted(p)' = Accounted(p)
    BY DEF Accounted, Newest
  <2> QED
    BY <1>1, <2>1, <2>2
<1> QED
  BY <1>3, <1>4, <1>5, <1>6, <1>7 DEF SyncInv

LEMMA StutterKeeps ==
  ASSUME SyncInv, UNCHANGED syncVars
  PROVE  SyncInv'
<1> USE DEF syncVars, remoteVars, cacheVars, windowVars
<1>1. Tables' = Tables /\ Places' = Places
  BY DEF Tables, Places
<1>2. CatalogTyped'
  BY <1>1 DEF SyncInv, CatalogTyped, TableOK
<1>3. stamp' \in Nat /\ stamp <= stamp'
  BY InstancesAssumption DEF SyncInv, CatalogTyped
<1> QED
  BY <1>2, <1>3, RestKeeps

LEMMA BeginEditKeeps ==
  ASSUME SyncInv, NEW edit \in instance.edits, BeginEdit(edit)
  PROVE  SyncInv'
<1>1. Tables' = Tables /\ Places' = Places
  BY DEF BeginEdit, Tables, Places
<1>2. instance.changes \in Nat /\ stamp \in Nat /\ stamp' = stamp + 1 /\ stamp < instance.changes
  BY InstancesAssumption DEF SyncInv, CatalogTyped, BeginEdit
<1>3. \A t, rows : TableOK(t, rows) => TableOK(t, rows)'
  BY <1>1, <1>2 DEF TableOK
<1>4. ASSUME NEW tx \in open'
      PROVE  tx.edit \in instance.edits /\ tx.stamp \in 0 .. stamp'
  <2>1. tx \in open \/ tx = [edit |-> edit, stamp |-> stamp']
    BY DEF BeginEdit
  <2>2. CASE tx \in open
    BY <2>2, <1>2 DEF SyncInv, CatalogTyped
  <2>3. CASE tx = [edit |-> edit, stamp |-> stamp']
    BY <2>3, <1>2
  <2> QED
    BY <2>1, <2>2, <2>3
<1>5. CatalogTyped'
  <2>1. UNCHANGED <<instance, ready, fullNeeded, remote, local>>
    BY DEF BeginEdit, cacheVars
  <2>2. stamp' \in 0 .. instance.changes
    BY <1>2
  <2> QED
    BY <1>1, <1>3, <1>4, <2>1, <2>2 DEF SyncInv, CatalogTyped
<1>6. stamp' \in Nat /\ stamp <= stamp'
  BY <1>2
<1> QED
  BY <1>5, <1>6, RestKeeps DEF BeginEdit

\* A sync that fails and a process that stops leave what there was before.
LEMMA AbandonKeeps ==
  ASSUME SyncInv, SyncFails \/ Restart
  PROVE  SyncInv'
<1> USE DEF SyncFails, Restart, remoteVars, windowVars
<1>1. UNCHANGED <<instance, remote, repeats, open, stamp, local, window, current, blind, hidden>>
        /\ sync' = Idle /\ fullNeeded' = TRUE /\ ready' \in {ready, FALSE}
  OBVIOUS
<1> USE DEF Tables, Places
<1>2. CatalogTyped'
  BY <1>1 DEF SyncInv, CatalogTyped, TableOK
<1>3. SyncShaped'
  BY <1>1 DEF SyncShaped, Running, Idle
<1>4. WindowsHold' /\ LocalCovers' /\ RepeatsShown'
  BY <1>1 DEF SyncInv, WindowsHold, LocalCovers, RepeatsShown, RowIn
<1> QED
  BY <1>1, <1>2, <1>3, <1>4, IdleKeeps DEF SyncInv

LEMMA BeginKeeps ==
  ASSUME SyncInv, BeginFull \/ BeginDelta
  PROVE  SyncInv'
<1> DEFINE None == <<>>
<1>e. DOMAIN None = {}
  OBVIOUS
<1>1. /\ UNCHANGED <<instance, remote, repeats, open, stamp, local, ready, fullNeeded, window,
                     blind>>
      /\ current' = Now /\ hidden' = {}
      /\ \/ sync' = [kind |-> "full", changed |-> None] /\ fullNeeded
         \/ /\ sync' = [kind |-> "delta", count |-> None, changed |-> None, keys |-> None]
            /\ ~fullNeeded
  BY DEF BeginFull, BeginDelta, Begins, remoteVars
<1>2. Tables' = Tables /\ Places' = Places
  BY <1>1 DEF Tables, Places
<1> HIDE DEF None
<1>3. DOMAIN sync'.changed = {} /\ (sync'.kind = "delta" => DOMAIN sync'.count = {} /\ DOMAIN sync'.keys = {})
  BY <1>e, <1>1
<1>4. CatalogTyped'
  BY <1>1, <1>2 DEF SyncInv, CatalogTyped, TableOK
<1>5. SyncShaped'
  <2>1. FullShape' \/ DeltaShape'
    BY <1>e, <1>1 DEF FullShape, DeltaShape
  <2> QED
    BY <2>1, <1>3 DEF SyncShaped
<1>6. WindowsHold'
  <2> SUFFICES ASSUME NEW p \in Places
               PROVE  /\ RowIn(remote, p)' \in current'[p] /\ current'[p] \subseteq window'[p]
                      /\ ready' => RowIn(local, p)' \in window'[p]
    BY <1>2, Zenon DEF WindowsHold
  <2>1. current'[p] = {RowIn(remote, p)} \cup RepeatsAt(p)
    BY <1>1 DEF Now
  <2>2. RowIn(remote, p)' = RowIn(remote, p) /\ RowIn(local, p)' = RowIn(local, p)
    BY <1>1 DEF RowIn
  <2>3. RepeatsAt(p) \subseteq current[p]
    BY DEF RepeatsAt, SyncInv, RepeatsShown
  <2> QED
    BY <1>1, <2>1, <2>2, <2>3 DEF SyncInv, WindowsHold
<1>9. RepeatsShown'
  <2>1. \A r \in repeats : r.row \in current'[r.place]
    BY <1>1 DEF Now, RepeatsAt, SyncInv, RepeatsShown
  <2> QED
    BY <2>1, <1>1, <1>2 DEF SyncInv, RepeatsShown
<1>7. LocalCovers'
  BY <1>1, <1>2 DEF SyncInv, LocalCovers, Covers, Newest
<1>8. ReadIsCurrent' /\ FullCovers' /\ DeltaCovers' /\ KeysAreCurrent' /\ NewIsRead'
        /\ KeptIsCurrent' /\ CountIsAccounted'
  BY <1>3 DEF ReadIsCurrent, FullCovers, DeltaCovers, KeysAreCurrent, NewIsRead,
              KeptIsCurrent, CountIsAccounted
<1> QED
  BY <1>4, <1>5, <1>6, <1>7, <1>8, <1>9 DEF SyncInv

-----------------------------------------------------------------------------
(* The queries of a sync                                                   *)

\* The name of a sync tells its shape.
LEMMA KindIsShape ==
  ASSUME SyncShaped
  PROVE  /\ sync.kind = "full" => FullShape
         /\ sync.kind = "delta" => DeltaShape
         /\ Running <=> sync.kind \in {"full", "delta"}
<1>1. Idle.kind = "idle" /\ (FullShape => sync.kind = "full") /\ (DeltaShape => sync.kind = "delta")
  BY DEF Idle, FullShape, DeltaShape
<1> QED
  BY <1>1 DEF SyncShaped, Running

\* What a query finds: rows the table has, newer than asked for, all of them
\* and as they are where no pair comes twice.
LEMMA FoundIs ==
  ASSUME SyncInv, NEW t \in Tables, NEW n, NEW rows \in Found(t, n)
  PROVE  /\ DOMAIN rows \subseteq DOMAIN remote[t]
         /\ \A k \in DOMAIN remote[t] : remote[t][k].modified > n => k \in DOMAIN rows
         /\ \A k \in DOMAIN rows : rows[k].modified > n /\ rows[k] \in current[<<t, k>>]
         /\ t \notin blind => \A k \in DOMAIN rows : rows[k] = remote[t][k]
         /\ TableOK(t, rows)
<1> DEFINE newer(k) == {row \in {remote[t][k]} \cup RepeatsAt(<<t, k>>) : row.modified > n}
           keys == {k \in DOMAIN remote[t] : newer(k) # {}}
           values == UNION {newer(k) : k \in keys}
<1>1. rows \in {f \in [keys -> values] : \A k \in keys : f[k] \in newer(k)}
  BY Zenon DEF Found
<1>2. DOMAIN rows = keys /\ \A k \in keys : rows[k] \in newer(k)
  <2> HIDE DEF newer, keys, values
  <2> QED
    BY <1>1
<1>3. \A k \in DOMAIN remote[t] : remote[t][k].modified > n => k \in keys
  <2> TAKE k \in DOMAIN remote[t]
  <2> HAVE remote[t][k].modified > n
  <2>1. remote[t][k] \in newer(k)
    OBVIOUS
  <2> QED
    BY <2>1
<1>4. \A k \in keys : k \in DOMAIN remote[t]
  OBVIOUS
<1>5. ASSUME NEW k \in keys
      PROVE  /\ rows[k].modified > n
             /\ rows[k] = remote[t][k] \/ \E r \in repeats : r.place = <<t, k>> /\ r.row = rows[k]
  <2>1. rows[k] \in newer(k)
    BY <1>2
  <2> QED
    BY <2>1 DEF RepeatsAt
<1> HIDE DEF newer, keys, values
<1>6. ASSUME NEW k \in keys
      PROVE  /\ <<t, k>> \in Places /\ rows[k] # Gone /\ rows[k].modified \in 0 .. stamp
             /\ rows[k] \in current[<<t, k>>]
             /\ t \notin blind => rows[k] = remote[t][k]
  <2>1. /\ <<t, k>> \in Places /\ remote[t][k] # Gone /\ remote[t][k].modified \in 0 .. stamp
        /\ remote[t][k] = RowIn(remote, <<t, k>>)
    BY <1>4 DEF SyncInv, CatalogTyped, TableOK, RowIn
  <2>2. remote[t][k] \in current[<<t, k>>]
    BY <2>1 DEF SyncInv, WindowsHold
  <2>3. ASSUME NEW r \in repeats, r.place = <<t, k>>, r.row = rows[k]
        PROVE  /\ rows[k] # Gone /\ rows[k].modified \in 0 .. stamp
               /\ rows[k] \in current[<<t, k>>] /\ t \in blind
    BY <2>3 DEF SyncInv, RepeatsShown
  <2> QED
    BY <2>1, <2>2, <2>3, <1>5
<1> QED
  BY <1>2, <1>3, <1>4, <1>5, <1>6 DEF TableOK

\* A query changes the sync's own state only.
LEMMA QueryKeeps ==
  ASSUME SyncInv, UNCHANGED <<remoteVars, local, ready, fullNeeded, window, current>>,
         \A r \in repeats : r.place[1] \in blind => r.place[1] \in blind',
         blind' = blind \/ fullNeeded
  PROVE  /\ Tables' = Tables /\ Places' = Places
         /\ CatalogTyped' /\ RepeatsShown' /\ WindowsHold' /\ LocalCovers'
         /\ \A t, rows : TableOK(t, rows) => TableOK(t, rows)'
<1> USE DEF remoteVars
<1>1. Tables' = Tables /\ Places' = Places
  BY DEF Tables, Places
<1>2. CatalogTyped'
  BY <1>1 DEF SyncInv, CatalogTyped, TableOK
<1>3. WindowsHold'
  BY <1>1 DEF SyncInv, WindowsHold, RowIn
<1>4. LocalCovers'
  BY <1>1 DEF SyncInv, LocalCovers, Covers, Newest
<1>5. \A t, rows : TableOK(t, rows) => TableOK(t, rows)'
  BY <1>1 DEF TableOK
<1>6. RepeatsShown'
  BY <1>1 DEF SyncInv, RepeatsShown
<1> QED
  BY <1>1, <1>2, <1>3, <1>4, <1>5, <1>6

LEMMA SelectTableKeeps ==
  ASSUME SyncInv, SelectTable
  PROVE  SyncInv'
<1> DEFINE t == NextTable(DOMAIN sync.changed)
<1>s. FullShape
  BY KindIsShape DEF SyncInv, SelectTable
<1>d. DOMAIN sync.changed \in SUBSET Tables
  BY KindIsShape DEF SyncInv, SyncShaped, SelectTable
<1>t. t \in Tables \ DOMAIN sync.changed
  <2>1. instance \in Instances /\ DOMAIN sync.changed # Tables
    BY DEF SyncInv, CatalogTyped, SelectTable
  <2> QED
    BY <2>1, <1>d, NextTableIs
<1>z. PICK rows \in Found(t, -1) :
             /\ sync' = [sync EXCEPT !.changed = Over(sync.changed, Only(t, rows))]
             /\ blind' = {u \in blind : u = t => RepeatsIn(t) # {}}
             /\ UNCHANGED <<remoteVars, local, ready, fullNeeded, faults, window, current, hidden>>
  BY DEF SelectTable, Query
<1>0. /\ sync' = [sync EXCEPT !.changed = Over(sync.changed, Only(t, rows))]
      /\ UNCHANGED <<remoteVars, local, ready, fullNeeded, faults, window, current, hidden>>
  BY <1>z
<1>b. /\ \A r \in repeats : r.place[1] \in blind => r.place[1] \in blind'
      /\ \A u : u # t => (u \in blind' <=> u \in blind)
      /\ t \notin blind' => t \notin blind \/ RepeatsIn(t) = {}
  BY <1>z DEF RepeatsIn
<1> HIDE DEF t
<1>f. /\ TableOK(t, rows)
      /\ \A k \in DOMAIN rows : rows[k] \in current[<<t, k>>]
      /\ DOMAIN rows = DOMAIN remote[t]
  <2>1. \A k \in DOMAIN remote[t] : remote[t][k].modified > -1
    <3>1. stamp \in Nat
      BY InstancesAssumption DEF SyncInv, CatalogTyped
    <3>2. \A k \in DOMAIN remote[t] : remote[t][k].modified \in 0 .. stamp
      BY <1>t DEF SyncInv, CatalogTyped, TableOK
    <3> QED
      BY <3>1, <3>2
  <2> QED
    BY <2>1, <1>t, FoundIs
<1>g. t \notin blind' => \A k \in DOMAIN rows : rows[k] = remote[t][k]
  <2>1. CASE t \notin blind
    BY <2>1, <1>t, FoundIs
  <2>2. CASE RepeatsIn(t) = {}
    <3>1. \A k : RepeatsAt(<<t, k>>) = {}
      BY <2>2 DEF RepeatsIn, RepeatsAt
    <3> DEFINE newer(k) == {row \in {remote[t][k]} \cup RepeatsAt(<<t, k>>) : row.modified > -1}
               keys == {k \in DOMAIN remote[t] : newer(k) # {}}
               values == UNION {newer(k) : k \in keys}
    <3>2. rows \in {f \in [keys -> values] : \A k \in keys : f[k] \in newer(k)}
      BY Zenon DEF Found
    <3>3. \A k \in DOMAIN rows : rows[k] \in newer(k)
      <4> HIDE DEF newer, keys, values
      <4> QED
        BY <3>2
    <3> QED
      BY <3>1, <3>3
  <2> QED
    BY <2>1, <2>2, <1>b
<1>1. /\ DOMAIN sync'.changed = DOMAIN sync.changed \cup {t}
      /\ sync'.changed[t] = rows
      /\ \A u \in DOMAIN sync.changed : sync'.changed[u] = sync.changed[u]
      /\ sync' = [kind |-> "full", changed |-> sync'.changed]
  <2> DEFINE More == Over(sync.changed, Only(t, rows))
  <2>1. sync' = [kind |-> "full", changed |-> More]
    BY <1>0, <1>s DEF FullShape
  <2>2. /\ DOMAIN More = DOMAIN sync.changed \cup {t}
        /\ More[t] = rows
        /\ \A u \in DOMAIN sync.changed : More[u] = sync.changed[u]
    BY <1>t DEF Over, Only
  <2> HIDE DEF More
  <2> QED
    BY <2>1, <2>2
<1>k. sync'.kind = "full"
  BY <1>1
<1>2. /\ Tables' = Tables /\ Places' = Places
      /\ CatalogTyped' /\ RepeatsShown' /\ WindowsHold' /\ LocalCovers'
      /\ \A u, some : TableOK(u, some) => TableOK(u, some)'
  <2>1. fullNeeded
    BY <1>s DEF FullShape
  <2> QED
    BY <2>1, <1>0, <1>b, QueryKeeps
<1>3. SyncShaped'
  <2>1. FullShape'
    BY <1>0, <1>1, <1>s DEF FullShape
  <2>2. ASSUME NEW u \in DOMAIN sync'.changed
        PROVE  u \in Tables /\ TableOK(u, sync'.changed[u])
    <3>1. CASE u = t
      BY <3>1, <1>1, <1>t, <1>f
    <3>2. CASE u # t
      <4>1. u \in DOMAIN sync.changed /\ Running
        BY <3>2, <1>1, KindIsShape DEF SyncInv, SelectTable
      <4> QED
        BY <4>1, <1>1 DEF SyncInv, SyncShaped
    <3> QED
      BY <3>1, <3>2
  <2> QED
    BY <2>1, <2>2, <1>2 DEF SyncShaped
<1>4. ReadIsCurrent'
  <2> SUFFICES ASSUME NEW p \in Places, p[1] \in DOMAIN sync'.changed
               PROVE  IF p[2] \in DOMAIN sync'.changed[p[1]]
                      THEN sync'.changed[p[1]][p[2]] \in current[p]
                      ELSE Gone \in current[p]
    BY <1>0, <1>2 DEF ReadIsCurrent
  <2>1. CASE p[1] = t
    <3>1. p = <<t, p[2]>>
      BY <2>1, PlacesAre DEF SyncInv, CatalogTyped
    <3>2. CASE p[2] \in DOMAIN rows
      <4>1. rows[p[2]] \in current[<<t, p[2]>>]
        BY <3>2, <1>f
      <4> QED
        BY <2>1, <3>1, <3>2, <4>1, <1>1
    <3>3. CASE p[2] \notin DOMAIN rows
      BY <2>1, <3>3, <1>1, <1>f DEF SyncInv, WindowsHold, RowIn
    <3> QED
      BY <3>2, <3>3
  <2>2. CASE p[1] # t
    <3>1. p[1] \in DOMAIN sync.changed /\ Running
      BY <2>2, <1>1, KindIsShape DEF SyncInv, SelectTable
    <3> QED
      BY <3>1, <1>1 DEF SyncInv, ReadIsCurrent, SelectTable
  <2> QED
    BY <2>1, <2>2
<1>5. FullCovers'
  <2> SUFFICES ASSUME NEW u \in DOMAIN sync'.changed \ blind'
               PROVE  Covers(u, sync.changed[u], Newest(sync.changed[u]))'
    BY DEF FullCovers
  <2>1. CASE u = t
    <3>1. DOMAIN rows = DOMAIN remote[t] /\ \A k \in DOMAIN rows : rows[k] = remote[t][k]
      BY <2>1, <1>f, <1>g
    <3> QED
      BY <2>1, <3>1, <1>0, <1>1 DEF Covers, remoteVars
  <2>2. CASE u # t
    <3>1. u \in DOMAIN sync.changed \ blind
      BY <2>2, <1>b, <1>1
    <3>2. Covers(u, sync.changed[u], Newest(sync.changed[u]))
      BY <3>1 DEF SyncInv, FullCovers, SelectTable
    <3> QED
      BY <3>1, <3>2, <1>0, <1>1 DEF Covers, Newest, remoteVars
  <2> QED
    BY <2>1, <2>2
<1>6. DeltaCovers' /\ KeysAreCurrent' /\ NewIsRead' /\ KeptIsCurrent' /\ CountIsAccounted'
  BY <1>k DEF DeltaCovers, KeysAreCurrent, NewIsRead, KeptIsCurrent, CountIsAccounted
<1> QED
  BY <1>2, <1>3, <1>4, <1>5, <1>6 DEF SyncInv

LEMMA FetchTableStatsKeeps ==
  ASSUME SyncInv, FetchTableStats
  PROVE  SyncInv'
<1> DEFINE t == NextTable(DOMAIN sync.count)
           size == RowCount(t)
<1>s. DeltaShape
  BY KindIsShape DEF SyncInv, FetchTableStats
<1>t. t \in Tables \ DOMAIN sync.count
  <2>1. instance \in Instances /\ DOMAIN sync.count # Tables
    BY DEF SyncInv, CatalogTyped, FetchTableStats
  <2>2. DOMAIN sync.count \in SUBSET Tables
    BY <1>s DEF DeltaShape
  <2> QED
    BY <2>1, <2>2, NextTableIs
<1>0. /\ sync' = [sync EXCEPT !.count = Over(sync.count, Only(t, size))]
      /\ UNCHANGED <<remoteVars, local, ready, fullNeeded, faults, window, current, hidden, blind>>
  BY DEF FetchTableStats, Query
<1> HIDE DEF t, size
<1>1. /\ DOMAIN sync'.count = DOMAIN sync.count \cup {t}
      /\ sync'.count[t] = size
      /\ \A u \in DOMAIN sync.count : sync'.count[u] = sync.count[u]
      /\ sync' = [kind |-> "delta", count |-> sync'.count, changed |-> sync.changed,
                  keys |-> sync.keys]
  <2> DEFINE More == Over(sync.count, Only(t, size))
  <2>1. sync' = [kind |-> "delta", count |-> More, changed |-> sync.changed,
                 keys |-> sync.keys]
    BY <1>0, <1>s DEF DeltaShape
  <2>2. /\ DOMAIN More = DOMAIN sync.count \cup {t}
        /\ More[t] = size
        /\ \A u \in DOMAIN sync.count : More[u] = sync.count[u]
    BY <1>t DEF Over, Only
  <2> HIDE DEF More
  <2> QED
    BY <2>1, <2>2
<1>k. sync'.kind = "delta" /\ sync'.changed = sync.changed /\ sync'.keys = sync.keys
  BY <1>1
<1>n. DOMAIN sync.changed = {} /\ DOMAIN sync.keys = {}
  <2>1. DOMAIN sync.count # Tables
    BY DEF FetchTableStats
  <2> QED
    BY <1>t, <2>1, <1>s DEF DeltaShape
<1>2. /\ Tables' = Tables /\ Places' = Places
      /\ CatalogTyped' /\ RepeatsShown' /\ WindowsHold' /\ LocalCovers'
      /\ \A u, rows : TableOK(u, rows) => TableOK(u, rows)'
  BY <1>0, QueryKeeps
<1>3. SyncShaped'
  <2>1. DOMAIN sync'.count \subseteq Tables
    BY <1>1, <1>t, <1>s DEF DeltaShape
  <2>2. DeltaShape'
    BY <2>1, <1>0, <1>1, <1>2, <1>n, <1>s DEF DeltaShape
  <2> QED
    BY <2>2, <1>k, <1>n DEF SyncShaped
<1>4. ReadIsCurrent' /\ FullCovers' /\ DeltaCovers' /\ KeysAreCurrent' /\ NewIsRead'
        /\ KeptIsCurrent'
  BY <1>k, <1>n DEF ReadIsCurrent, FullCovers, DeltaCovers, KeysAreCurrent, NewIsRead,
              KeptIsCurrent
<1>5. CountIsAccounted'
  <2> SUFFICES ASSUME NEW u \in DOMAIN sync'.count \ (blind \cup hidden)
               PROVE  \E counted \in SUBSET Places :
                        /\ \A p \in counted : p[1] = u /\ Accounted(p)'
                        /\ Cardinality(counted) = sync'.count[u]
    BY <1>0, <1>2, Zenon DEF CountIsAccounted
  <2>a. \A p : Accounted(p)' = Accounted(p)
    BY <1>0, <1>k DEF Accounted, Newest, remoteVars
  <2>1. CASE u = t
    <3> DEFINE counted == {<<t, k>> : k \in DOMAIN remote[t]}
    <3>1. ASSUME NEW k \in DOMAIN remote[t]
          PROVE  <<t, k>> \in Places /\ Accounted(<<t, k>>)
      <4>1. <<t, k>> \in Places /\ remote[t][k].modified \in Int /\ Newest(local[t]) \in Int
        <5>1. TableOK(t, remote[t]) /\ stamp \in 0 .. instance.changes /\ instance.changes \in Nat
          BY <1>t, InstancesAssumption DEF SyncInv, CatalogTyped
        <5>2. Newest(local[t]) \in 0 .. stamp
          BY <1>t, SeenIs DEF SyncInv
        <5> QED
          BY <5>1, <5>2 DEF TableOK
      <4>2. CASE remote[t][k].modified <= Newest(local[t])
        <5>1. k \in DOMAIN local[t] /\ local[t][k] = remote[t][k]
          <6>1. Covers(t, local[t], Newest(local[t]))
            BY <1>s, <1>t, <2>1 DEF SyncInv, LocalCovers, DeltaShape
          <6> QED
            BY <4>2, <6>1 DEF Covers
        <5>2. RowIn(remote, <<t, k>>) \in current[<<t, k>>]
          BY <4>1 DEF SyncInv, WindowsHold
        <5>3. RowIn(remote, <<t, k>>) = remote[t][k]
          BY DEF RowIn
        <5> QED
          BY <4>1, <5>1, <5>2, <5>3 DEF Accounted
      <4>3. CASE remote[t][k].modified > Newest(local[t])
        BY <4>1, <4>3, <1>n DEF Accounted
      <4> QED
        BY <4>1, <4>2, <4>3
    <3>2. counted \in SUBSET Places /\ \A p \in counted : p[1] = t /\ Accounted(p)
      BY <3>1
    <3>3. Cardinality(counted) = size
      <4>1. IsFiniteSet(counted) /\ Cardinality(counted) = Cardinality(DOMAIN remote[t])
        BY <3>1, KeysCount DEF SyncInv, CatalogTyped
      <4>2. Cardinality(DOMAIN remote[t]) \in Nat
        <5> HIDE DEF counted
        <5> QED
          BY <4>1, FS_CardinalityType
      <4>3. RepeatsIn(t) = {}
        BY <2>1 DEF RepeatsIn, SyncInv, RepeatsShown
      <4>4. Cardinality(RepeatsIn(t)) = 0
        BY <4>3, FS_EmptySet
      <4> QED
        BY <4>1, <4>2, <4>4 DEF size, RowCount
    <3> HIDE DEF counted
    <3> QED
      BY <2>1, <2>a, <1>1, <3>2, <3>3
  <2>2. CASE u # t
    <3>1. u \in DOMAIN sync.count
      BY <2>2, <1>1
    <3>2. PICK counted \in SUBSET Places :
                 /\ \A p \in counted : p[1] = u /\ Accounted(p)
                 /\ Cardinality(counted) = sync.count[u]
      BY <3>1 DEF SyncInv, CountIsAccounted, FetchTableStats
    <3> QED
      BY <2>a, <3>1, <3>2, <1>1
  <2> QED
    BY <2>1, <2>2
<1> QED
  BY <1>2, <1>3, <1>4, <1>5 DEF SyncInv

LEMMA SelectChangedKeeps ==
  ASSUME SyncInv, SelectChanged
  PROVE  SyncInv'
<1> DEFINE t == NextTable(DOMAIN sync.changed)
<1>s. DeltaShape
  BY KindIsShape DEF SyncInv, SelectChanged
<1>t. t \in Tables \ DOMAIN sync.changed
  <2>1. instance \in Instances /\ DOMAIN sync.changed # Tables
    BY DEF SyncInv, CatalogTyped, SelectChanged
  <2>2. DOMAIN sync.changed \in SUBSET Tables
    BY KindIsShape DEF SyncInv, SyncShaped, SelectChanged
  <2> QED
    BY <2>1, <2>2, NextTableIs
<1>0. PICK rows \in Changed(t) :
      /\ sync' = [sync EXCEPT !.changed = Over(sync.changed, Only(t, rows))]
      /\ UNCHANGED <<remoteVars, local, ready, fullNeeded, faults, window, current, hidden, blind>>
  BY DEF SelectChanged, Query
<1>r. /\ DOMAIN rows \subseteq DOMAIN remote[t]
      /\ \A k \in DOMAIN remote[t] : remote[t][k].modified > Newest(local[t]) => k \in DOMAIN rows
      /\ \A k \in DOMAIN rows : rows[k] \in current[<<t, k>>]
      /\ t \notin blind => \A k \in DOMAIN rows : rows[k] = remote[t][k]
      /\ TableOK(t, rows)
  BY <1>t, FoundIs DEF Changed
<1> HIDE DEF t
<1>1. /\ DOMAIN sync'.changed = DOMAIN sync.changed \cup {t}
      /\ sync'.changed[t] = rows
      /\ \A u \in DOMAIN sync.changed : sync'.changed[u] = sync.changed[u]
      /\ sync' = [kind |-> "delta", count |-> sync.count, changed |-> sync'.changed,
                  keys |-> sync.keys]
  <2> DEFINE More == Over(sync.changed, Only(t, rows))
  <2>1. sync' = [kind |-> "delta", count |-> sync.count, changed |-> More,
                 keys |-> sync.keys]
    BY <1>0, <1>s DEF DeltaShape
  <2>2. /\ DOMAIN More = DOMAIN sync.changed \cup {t}
        /\ More[t] = rows
        /\ \A u \in DOMAIN sync.changed : More[u] = sync.changed[u]
    BY <1>t DEF Over, Only
  <2> HIDE DEF More
  <2> QED
    BY <2>1, <2>2
<1>k. /\ sync'.kind = "delta" /\ sync'.count = sync.count /\ sync'.keys = sync.keys
      /\ sync.kind = "delta" /\ Running
  <2>1. sync.kind = "delta"
    BY DEF SelectChanged
  <2> QED
    BY <2>1, <1>1 DEF Running
<1>n. DOMAIN sync.keys = {} /\ DOMAIN sync.count = Tables
  <2>1. DOMAIN sync.changed # Tables /\ DOMAIN sync.count = Tables
    BY DEF SelectChanged
  <2> QED
    BY <2>1, <1>s DEF DeltaShape
<1>2. /\ Tables' = Tables /\ Places' = Places
      /\ CatalogTyped' /\ RepeatsShown' /\ WindowsHold' /\ LocalCovers'
      /\ \A u, some : TableOK(u, some) => TableOK(u, some)'
  BY <1>0, QueryKeeps
<1>o. TableOK(t, remote[t]) /\ TableOK(t, rows)
  BY <1>t, <1>r DEF SyncInv, CatalogTyped
<1>m. /\ Newest(local[t]) \in Int
      /\ \A k \in DOMAIN remote[t] : remote[t][k].modified \in Int
  <2>1. stamp \in 0 .. instance.changes /\ instance.changes \in Nat
    BY InstancesAssumption DEF SyncInv, CatalogTyped
  <2>2. Newest(local[t]) \in 0 .. stamp
    BY <1>t, SeenIs DEF SyncInv
  <2>3. \A k \in DOMAIN remote[t] : remote[t][k].modified \in 0 .. stamp
    BY <1>o, Zenon DEF TableOK
  <2> QED
    BY <2>1, <2>2, <2>3
\* A row that is not read again is the cache's.
<1>a. ASSUME t \notin blind, NEW k \in DOMAIN remote[t] \ DOMAIN rows
      PROVE  k \in DOMAIN local[t] /\ local[t][k] = remote[t][k]
  <2>1. remote[t][k].modified <= Newest(local[t])
    BY <1>r, <1>m
  <2>2. Covers(t, local[t], Newest(local[t]))
    BY <1>a, <1>s, <1>t DEF SyncInv, LocalCovers, DeltaShape
  <2> QED
    BY <2>1, <2>2 DEF Covers
<1>3. SyncShaped'
  <2>2. DeltaShape'
    BY <1>0, <1>1, <1>2, <1>n, <1>s DEF DeltaShape
  <2>3. ASSUME NEW u \in DOMAIN sync'.changed
        PROVE  u \in Tables /\ TableOK(u, sync'.changed[u])
    <3>1. CASE u = t
      BY <3>1, <1>1, <1>t, <1>o
    <3>2. CASE u # t
      BY <3>2, <1>1, <1>k DEF SyncInv, SyncShaped
    <3> QED
      BY <3>1, <3>2
  <2> QED
    BY <2>2, <2>3, <1>2 DEF SyncShaped
<1>4. ReadIsCurrent'
  <2> SUFFICES ASSUME NEW p \in Places, p[1] \in DOMAIN sync'.changed,
                      p[2] \in DOMAIN sync'.changed[p[1]]
               PROVE  sync'.changed[p[1]][p[2]] \in current[p]
    BY <1>0, <1>2, <1>k DEF ReadIsCurrent
  <2>1. CASE p[1] = t
    <3>1. p = <<t, p[2]>> /\ p[2] \in DOMAIN rows
      BY <2>1, <1>1, PlacesAre DEF SyncInv, CatalogTyped
    <3>2. rows[p[2]] \in current[<<t, p[2]>>]
      BY <3>1, <1>r
    <3> QED
      BY <2>1, <3>1, <3>2, <1>1
  <2>2. CASE p[1] # t
    BY <2>2, <1>1, <1>k DEF SyncInv, ReadIsCurrent
  <2> QED
    BY <2>1, <2>2
<1>5. DeltaCovers'
  <2> SUFFICES ASSUME NEW u \in DOMAIN sync'.changed \ blind
               PROVE  Covers(u, Over(sync.changed[u], local[u]), Seen(u))'
    BY <1>0, <1>k, <1>n DEF DeltaCovers
  <2>1. CASE u = t
    <3>1. ASSUME NEW k \in DOMAIN remote[t]
          PROVE  k \in DOMAIN Over(rows, local[t]) /\ Over(rows, local[t])[k] = remote[t][k]
      <4>1. CASE k \in DOMAIN rows
        BY <4>1, <2>1, <1>r DEF Over
      <4>2. CASE k \notin DOMAIN rows
        <5>1. k \in DOMAIN local[t] /\ local[t][k] = remote[t][k]
          BY <4>2, <2>1, <1>a
        <5> QED
          BY <4>2, <5>1 DEF Over
      <4> QED
        BY <4>1, <4>2
    <3> QED
      BY <2>1, <3>1, <1>0, <1>1 DEF Covers, remoteVars
  <2>2. CASE u # t
    <3>1. u \in DOMAIN sync.changed \ blind
      BY <2>2, <1>1
    <3>2. Covers(u, Over(sync.changed[u], local[u]), Seen(u))
      BY <3>1, <1>k DEF SyncInv, DeltaCovers
    <3>3. Seen(u)' = Seen(u)
      <4>1. /\ local'[u] = local[u] /\ sync'.changed[u] = sync.changed[u]
            /\ u \in DOMAIN sync.changed /\ u \in DOMAIN sync'.changed
        BY <3>1, <1>0, <1>1
      <4>2. Running /\ Running'
        BY <1>k DEF Running
      <4>3. Seen(u) = Max({Newest(local[u])} \cup {Newest(sync.changed[u])})
        BY <4>1, <4>2, Zenon DEF Seen
      <4>4. Seen(u)' = Max({Newest(local'[u])} \cup {Newest(sync'.changed[u])})
        BY <4>1, <4>2, Zenon DEF Seen, Newest
      <4> QED
        BY <4>1, <4>3, <4>4
    <3> QED
      BY <3>1, <3>2, <3>3, <1>0, <1>1 DEF Covers, remoteVars, Over
  <2> QED
    BY <2>1, <2>2
<1>6. NewIsRead'
  <2> SUFFICES ASSUME NEW p \in Places, p[1] \in DOMAIN sync'.changed \ blind,
                      p[2] \notin DOMAIN local[p[1]] \cup DOMAIN sync'.changed[p[1]]
               PROVE  Gone \in current[p]
    BY <1>0, <1>2 DEF NewIsRead
  <2>1. CASE p[1] = t
    <3>1. p[2] \notin DOMAIN remote[t]
      BY <2>1, <1>1, <1>a
    <3> QED
      BY <2>1, <3>1 DEF SyncInv, WindowsHold, RowIn
  <2>2. CASE p[1] # t
    BY <2>2, <1>1, <1>k DEF SyncInv, NewIsRead
  <2> QED
    BY <2>1, <2>2
<1>7. KeptIsCurrent'
  <2>r. \A p : RowIn(local, p)' = RowIn(local, p) /\ RowIn(remote, p)' = RowIn(remote, p)
    BY <1>0 DEF RowIn, remoteVars
  <2> SUFFICES ASSUME NEW p \in Places, p[1] \in DOMAIN sync'.changed \ (blind \cup hidden),
                      p[2] \in DOMAIN local[p[1]] \ DOMAIN sync'.changed[p[1]]
               PROVE  RowIn(local, p) \in current[p] \/ RowIn(remote, p) = Gone
    BY <2>r, <1>0, <1>2, <1>n, <1>k DEF KeptIsCurrent
  <2>1. CASE p[1] = t
    <3>1. CASE p[2] \in DOMAIN remote[t]
      <4>1. local[t][p[2]] = remote[t][p[2]]
        BY <2>1, <3>1, <1>1, <1>a
      <4> QED
        BY <2>1, <3>1, <4>1 DEF SyncInv, WindowsHold, RowIn
    <3>2. CASE p[2] \notin DOMAIN remote[t]
      BY <2>1, <3>2 DEF RowIn
    <3> QED
      BY <3>1, <3>2
  <2>2. CASE p[1] # t
    BY <2>2, <1>1, <1>k, <1>n DEF SyncInv, KeptIsCurrent
  <2> QED
    BY <2>1, <2>2
<1>8. CountIsAccounted'
  <2> SUFFICES ASSUME NEW u \in DOMAIN sync.count \ (blind \cup hidden)
               PROVE  \E counted \in SUBSET Places :
                        /\ \A p \in counted : p[1] = u /\ Accounted(p)'
                        /\ Cardinality(counted) = sync.count[u]
    BY <1>0, <1>2, <1>k, Zenon DEF CountIsAccounted
  <2>1. PICK counted \in SUBSET Places :
               /\ \A p \in counted : p[1] = u /\ Accounted(p)
               /\ Cardinality(counted) = sync.count[u]
    BY <1>k DEF SyncInv, CountIsAccounted
  <2>2. \A p : p[1] = t /\ Accounted(p) => Accounted(p)'
    BY <1>0, <1>1, <1>r, <1>t DEF Accounted
  <2>3. \A p : p[1] # t /\ Accounted(p) => Accounted(p)'
    BY <1>0, <1>1 DEF Accounted, Newest, remoteVars
  <2> QED
    BY <2>1, <2>2, <2>3
<1>9. FullCovers' /\ KeysAreCurrent'
  BY <1>k, <1>n DEF FullCovers, KeysAreCurrent
<1> QED
  BY <1>2, <1>3, <1>4, <1>5, <1>6, <1>7, <1>8, <1>9 DEF SyncInv

LEMMA FetchKeysKeeps ==
  ASSUME SyncInv, FetchKeys
  PROVE  SyncInv'
<1> DEFINE t == NextTable((Tables \ TablesToKey) \cup DOMAIN sync.keys)
           keys == DOMAIN remote[t]
<1>s. DeltaShape
  BY KindIsShape DEF SyncInv, FetchKeys
<1>t. t \in TablesToKey \ DOMAIN sync.keys
  <2> DEFINE done == (Tables \ TablesToKey) \cup DOMAIN sync.keys
  <2>1. instance \in Instances /\ DOMAIN sync.keys # TablesToKey
    BY DEF SyncInv, CatalogTyped, FetchKeys
  <2>2. TablesToKey \subseteq Tables /\ DOMAIN sync.keys \subseteq TablesToKey
    BY <1>s DEF DeltaShape, TablesToKey
  <2>3. done \in SUBSET Tables /\ done # Tables
    BY <2>1, <2>2
  <2> HIDE DEF done
  <2>4. NextTable(done) \in Tables \ done
    BY <2>1, <2>3, NextTableIs
  <2> QED
    BY <2>4 DEF done
<1>0. /\ sync' = [sync EXCEPT !.keys = Over(sync.keys, Only(t, keys))]
      /\ UNCHANGED <<remoteVars, local, ready, fullNeeded, faults, window, current, hidden, blind>>
  BY DEF FetchKeys, Query
<1> HIDE DEF t
<1>1. /\ DOMAIN sync'.keys = DOMAIN sync.keys \cup {t}
      /\ sync'.keys[t] = keys
      /\ \A u \in DOMAIN sync.keys : sync'.keys[u] = sync.keys[u]
      /\ sync' = [kind |-> "delta", count |-> sync.count, changed |-> sync.changed,
                  keys |-> sync'.keys]
  <2> DEFINE More == Over(sync.keys, Only(t, keys))
  <2>1. sync' = [kind |-> "delta", count |-> sync.count, changed |-> sync.changed,
                 keys |-> More]
    BY <1>0, <1>s DEF DeltaShape
  <2>2. /\ DOMAIN More = DOMAIN sync.keys \cup {t}
        /\ More[t] = keys
        /\ \A u \in DOMAIN sync.keys : More[u] = sync.keys[u]
    BY <1>t DEF Over, Only
  <2> HIDE DEF More
  <2> QED
    BY <2>1, <2>2
<1>k. /\ sync'.kind = "delta" /\ sync'.count = sync.count /\ sync'.changed = sync.changed
      /\ sync.kind = "delta" /\ Running /\ Running'
  <2>1. sync.kind = "delta"
    BY DEF FetchKeys
  <2> QED
    BY <2>1, <1>1 DEF Running
<1>n. DOMAIN sync.changed = Tables
  BY DEF FetchKeys
<1>2. /\ Tables' = Tables /\ Places' = Places
      /\ CatalogTyped' /\ RepeatsShown' /\ WindowsHold' /\ LocalCovers'
      /\ \A u, some : TableOK(u, some) => TableOK(u, some)'
  BY <1>0, QueryKeeps
<1>f. TablesToKey' = TablesToKey
  BY <1>0, <1>2, <1>k DEF TablesToKey, NeedsKeys, MissingChangedKeys
<1>e. \A u : Seen(u)' = Seen(u)
  <2>1. local' = local
    BY <1>0
  <2> QED
    BY <2>1, <1>k, Zenon DEF Seen
<1>r. \A p : RowIn(local, p)' = RowIn(local, p) /\ RowIn(remote, p)' = RowIn(remote, p)
  BY <1>0 DEF RowIn, remoteVars
<1>3. SyncShaped'
  <2>1. DeltaShape'
    BY <1>0, <1>1, <1>2, <1>f, <1>n, <1>s, <1>t DEF DeltaShape
  <2> QED
    BY <2>1, <1>2, <1>k DEF SyncInv, SyncShaped
<1>4. ReadIsCurrent'
  BY <1>0, <1>2, <1>k DEF SyncInv, ReadIsCurrent
<1>5. DeltaCovers'
  <2> SUFFICES ASSUME NEW u \in DOMAIN sync.changed \ blind
               PROVE  /\ Covers(u, Over(sync.changed[u], local[u]), Seen(u))
                      /\ u \in DOMAIN sync'.keys =>
                           \A k \in DOMAIN remote[u] :
                             remote[u][k].modified <= Seen(u) => k \in sync'.keys[u]
    <3>1. local' = local /\ remote' = remote /\ blind' = blind
      BY <1>0 DEF remoteVars
    <3>2. \A u : Covers(u, Over(sync.changed[u], local[u]), Seen(u))'
                 = Covers(u, Over(sync.changed[u], local[u]), Seen(u))
      BY <3>1, <1>k, <1>e DEF Covers, Over
    <3> QED
      BY <3>1, <3>2, <1>k, <1>e DEF DeltaCovers
  <2>1. CASE u = t
    BY <2>1, <1>1, <1>k DEF SyncInv, DeltaCovers
  <2>2. CASE u # t
    BY <2>2, <1>1, <1>k DEF SyncInv, DeltaCovers
  <2> QED
    BY <2>1, <2>2
<1>6. KeysAreCurrent'
  <2> SUFFICES ASSUME NEW p \in Places, p[1] \in DOMAIN sync'.keys,
                      p[2] \notin sync'.keys[p[1]]
               PROVE  Gone \in current[p]
    BY <1>0, <1>2 DEF KeysAreCurrent
  <2>1. CASE p[1] = t
    BY <2>1, <1>1 DEF SyncInv, WindowsHold, RowIn
  <2>2. CASE p[1] # t
    BY <2>2, <1>1, <1>k DEF SyncInv, KeysAreCurrent
  <2> QED
    BY <2>1, <2>2
<1>7. NewIsRead'
  BY <1>0, <1>2, <1>k DEF SyncInv, NewIsRead
<1>8. KeptIsCurrent'
  <2> SUFFICES ASSUME NEW p \in Places, p[1] \in DOMAIN sync.changed \ (blind \cup hidden),
                      p[2] \in DOMAIN local[p[1]] \ DOMAIN sync.changed[p[1]]
               PROVE  \/ RowIn(local, p) \in current[p]
                      \/ IF p[1] \in DOMAIN sync'.keys THEN p[2] \notin sync'.keys[p[1]]
                                                       ELSE RowIn(remote, p) = Gone
    BY <1>0, <1>2, <1>k, <1>r DEF KeptIsCurrent
  <2>0. \/ RowIn(local, p) \in current[p]
        \/ IF p[1] \in DOMAIN sync.keys THEN p[2] \notin sync.keys[p[1]]
                                        ELSE RowIn(remote, p) = Gone
    BY <1>k DEF SyncInv, KeptIsCurrent
  <2>1. CASE p[1] = t
    <3>1. TableOK(t, remote[t])
      BY <1>t DEF SyncInv, CatalogTyped, TablesToKey
    <3>2. RowIn(remote, p) = Gone => p[2] \notin DOMAIN remote[t]
      BY <2>1, <3>1 DEF TableOK, RowIn
    <3> QED
      BY <2>0, <2>1, <3>2, <1>1, <1>t
  <2>2. CASE p[1] # t
    BY <2>0, <2>2, <1>1
  <2> QED
    BY <2>1, <2>2
<1>9. CountIsAccounted'
  <2> SUFFICES ASSUME NEW u \in DOMAIN sync.count \ (blind \cup hidden)
               PROVE  \E counted \in SUBSET Places :
                        /\ \A p \in counted : p[1] = u /\ Accounted(p)'
                        /\ Cardinality(counted) = sync.count[u]
    BY <1>0, <1>2, <1>k, Zenon DEF CountIsAccounted
  <2>1. PICK counted \in SUBSET Places :
               /\ \A p \in counted : p[1] = u /\ Accounted(p)
               /\ Cardinality(counted) = sync.count[u]
    BY <1>k DEF SyncInv, CountIsAccounted
  <2>2. \A p : Accounted(p)' = Accounted(p)
    BY <1>0, <1>k DEF Accounted, Newest, remoteVars
  <2> QED
    BY <2>1, <2>2
<1>10. FullCovers'
  BY <1>k DEF FullCovers
<1> QED
  BY <1>2, <1>3, <1>4, <1>5, <1>6, <1>7, <1>8, <1>9, <1>10 DEF SyncInv

-----------------------------------------------------------------------------
(* The end of a sync                                                       *)

LEMMA ReplaceCatalogKeeps ==
  ASSUME SyncInv, ReplaceCatalog
  PROVE  SyncInv'
<1>0. /\ local' = sync.changed /\ ready' = TRUE /\ fullNeeded' = FALSE /\ sync' = Idle
      /\ UNCHANGED <<instance, remote, repeats, open, stamp, current, blind, hidden>>
      /\ window' = [p \in Places |-> IF p[1] \in Tables THEN current[p] ELSE window[p]]
      /\ DOMAIN sync.changed = Tables /\ sync.kind = "full"
  BY DEF ReplaceCatalog, Completed, remoteVars
<1>r. Running
  BY <1>0 DEF Running
<1>1. Tables' = Tables /\ Places' = Places
  BY <1>0 DEF Tables, Places
<1>2. \A t, rows : TableOK(t, rows) => TableOK(t, rows)'
  BY <1>0, <1>1 DEF TableOK
<1>3. CatalogTyped'
  <2>1. \A t \in Tables : TableOK(t, remote[t]) /\ TableOK(t, sync.changed[t])
    BY <1>0, <1>r DEF SyncInv, CatalogTyped, SyncShaped
  <2> QED
    BY <1>0, <1>1, <1>2, <2>1 DEF SyncInv, CatalogTyped
<1>4. SyncShaped'
  BY <1>0 DEF SyncShaped, Running, Idle
<1>5. WindowsHold'
  <2> SUFFICES ASSUME NEW p \in Places
               PROVE  /\ RowIn(remote, p)' \in current[p] /\ current[p] \subseteq window'[p]
                      /\ RowIn(local, p)' \in window'[p]
    BY <1>0, <1>1, Zenon DEF WindowsHold
  <2>1. RowIn(remote, p) \in current[p] /\ current[p] \subseteq window[p]
    BY DEF SyncInv, WindowsHold
  <2>2. current[p] \subseteq window'[p]
    BY <2>1, <1>0
  <2>3. RowIn(remote, p)' = RowIn(remote, p)
    BY <1>0 DEF RowIn
  <2>4. p[1] \in Tables
    BY PlacesAre DEF SyncInv, CatalogTyped
  <2>5. RowIn(local, p)' \in current[p]
    BY <2>4, <1>0, <1>r DEF SyncInv, ReadIsCurrent, RowIn
  <2> QED
    BY <2>1, <2>2, <2>3, <2>5
<1>6. LocalCovers'
  BY <1>0, <1>1 DEF SyncInv, FullCovers, LocalCovers, Covers, Newest
<1>7. RepeatsShown'
  BY <1>0, <1>1 DEF SyncInv, RepeatsShown
<1> QED
  BY <1>0, <1>3, <1>4, <1>5, <1>6, <1>7, IdleKeeps DEF SyncInv

\* Where the count is the cache's and no changed row is new to it, the rows
\* counted are the cache's own.
LEMMA UnkeyedIsCurrent ==
  ASSUME SyncInv, sync.kind = "delta", DOMAIN sync.changed = Tables,
         NEW p \in Places, p[1] \in Tables \ (blind \cup hidden), ~NeedsKeys(p[1]),
         p[2] \in DOMAIN local[p[1]] \ DOMAIN sync.changed[p[1]]
  PROVE  RowIn(local, p) \in current[p]
<1> DEFINE t == p[1]
           mine == {<<t, k>> : k \in DOMAIN local[t]}
<1>0. \A q \in Places : q = <<q[1], q[2]>>
  BY PlacesAre DEF SyncInv, CatalogTyped
<1>1. t \in DOMAIN sync.count \ (blind \cup hidden)
  BY KindIsShape DEF SyncInv, DeltaShape
<1>2. PICK counted \in SUBSET Places :
             /\ \A q \in counted : q[1] = t /\ Accounted(q)
             /\ Cardinality(counted) = sync.count[t]
  BY <1>1 DEF SyncInv, CountIsAccounted
<1>3. ASSUME NEW q \in counted
      PROVE  q \in mine
  <2>1. q[1] = t /\ q = <<t, q[2]>>
    BY <1>0, <1>2
  <2>2. q[2] \in DOMAIN local[t]
    BY <2>1, <1>2 DEF Accounted, NeedsKeys, MissingChangedKeys
  <2> QED
    BY <2>1, <2>2
<1>4. IsFiniteSet(mine) /\ Cardinality(mine) = Cardinality(DOMAIN local[t])
  <2>1. instance \in Instances /\ \A k \in DOMAIN local[t] : <<t, k>> \in Places
    BY DEF SyncInv, CatalogTyped, TableOK
  <2> HIDE DEF t
  <2> QED
    BY <2>1, KeysCount
<1>5. Cardinality(DOMAIN local[t]) = sync.count[t]
  BY DEF NeedsKeys
<1>6. <<t, p[2]>> \in mine /\ p = <<t, p[2]>>
  BY <1>0
<1> HIDE DEF mine
<1>7. mine = counted
  BY <1>2, <1>3, <1>4, <1>5, FS_Subset
<1>8. Accounted(p)
  BY <1>2, <1>6, <1>7
<1> QED
  BY <1>8 DEF Accounted, RowIn

LEMMA ApplyDeltaKeeps ==
  ASSUME SyncInv, ApplyDelta
  PROVE  SyncInv'
<1>0. /\ local' = [t \in Tables |-> RetainKeys(t, Over(sync.changed[t], local[t]))]
      /\ ready' = TRUE /\ fullNeeded' = FALSE /\ sync' = Idle
      /\ UNCHANGED <<instance, remote, repeats, open, stamp, current, blind, hidden>>
      /\ window' = [p \in Places |->
                      IF p[1] \in Tables \ (blind \cup hidden) THEN current[p] ELSE window[p]]
      /\ DOMAIN sync.changed = Tables /\ DOMAIN sync.keys = TablesToKey /\ sync.kind = "delta"
  BY DEF ApplyDelta, Completed, remoteVars
<1>r. Running /\ DeltaShape /\ ready /\ ~fullNeeded
  BY <1>0, KindIsShape DEF SyncInv, CatalogTyped, DeltaShape
<1>1. Tables' = Tables /\ Places' = Places
  BY <1>0 DEF Tables, Places
<1>2. \A t, rows : TableOK(t, rows) => TableOK(t, rows)'
  BY <1>0, <1>1 DEF TableOK
<1>m. ASSUME NEW t \in Tables, NEW k
      PROVE  /\ k \in DOMAIN local'[t] <=>
                  /\ k \in DOMAIN local[t] \cup DOMAIN sync.changed[t]
                  /\ t \in DOMAIN sync.keys => k \in sync.keys[t]
             /\ k \in DOMAIN local'[t] =>
                  local'[t][k] = IF k \in DOMAIN sync.changed[t] THEN sync.changed[t][k]
                                                                 ELSE local[t][k]
  BY <1>0 DEF RetainKeys, Over
<1>t. \A t \in Tables : TableOK(t, local[t]) /\ TableOK(t, sync.changed[t])
  BY <1>0, <1>r DEF SyncInv, CatalogTyped, SyncShaped
<1>u. ASSUME NEW t \in Tables
      PROVE  TableOK(t, local'[t])
  BY <1>t, <1>m DEF TableOK
<1>3. CatalogTyped'
  <2>1. \A t \in Tables : TableOK(t, remote[t])
    BY DEF SyncInv, CatalogTyped
  <2> QED
    BY <1>0, <1>1, <1>2, <1>u, <2>1 DEF SyncInv, CatalogTyped
<1>4. SyncShaped'
  BY <1>0 DEF SyncShaped, Running, Idle
<1>5. WindowsHold'
  <2> SUFFICES ASSUME NEW p \in Places
               PROVE  /\ RowIn(remote, p)' \in current[p] /\ current[p] \subseteq window'[p]
                      /\ RowIn(local, p)' \in window'[p]
    BY <1>0, <1>1, Zenon DEF WindowsHold
  <2> DEFINE t == p[1]
             k == p[2]
  <2>1. /\ RowIn(remote, p) \in current[p] /\ current[p] \subseteq window[p]
        /\ RowIn(local, p) \in window[p]
    BY <1>r DEF SyncInv, WindowsHold
  <2>2. current[p] \subseteq window'[p]
    BY <2>1, <1>0
  <2>3. RowIn(remote, p)' = RowIn(remote, p)
    BY <1>0 DEF RowIn
  <2>4. t \in Tables
    BY PlacesAre DEF SyncInv, CatalogTyped
  <2>5. t \in blind \cup hidden => RowIn(local, p) \in window'[p]
    BY <2>1, <1>0
  <2>6. RowIn(local, p)' = IF k \in DOMAIN local'[t] THEN local'[t][k] ELSE Gone
    BY DEF RowIn
  <2> SUFFICES RowIn(local, p)' \in window'[p]
    BY <2>1, <2>2, <2>3
  <2>7. CASE k \in DOMAIN local'[t] /\ k \in DOMAIN sync.changed[t]
    <3>1. sync.changed[t][k] \in current[p]
      BY <2>4, <2>7, <1>0, <1>r DEF SyncInv, ReadIsCurrent
    <3> QED
      BY <2>2, <2>4, <2>6, <2>7, <3>1, <1>m
  <2>8. CASE k \in DOMAIN local'[t] /\ k \notin DOMAIN sync.changed[t]
    <3>1. k \in DOMAIN local[t] /\ RowIn(local, p)' = RowIn(local, p)
      BY <2>4, <2>6, <2>8, <1>m DEF RowIn
    <3>2. CASE t \in blind \cup hidden
      BY <2>5, <3>1, <3>2
    <3>3. CASE t \notin blind \cup hidden /\ t \in DOMAIN sync.keys
      <4>1. k \in sync.keys[t]
        BY <2>4, <2>8, <3>3, <1>m
      <4>2. RowIn(local, p) \in current[p]
        BY <2>4, <2>8, <3>1, <3>3, <4>1, <1>0 DEF SyncInv, KeptIsCurrent
      <4> QED
        BY <2>2, <3>1, <4>2
    <3>4. CASE t \notin blind \cup hidden /\ t \notin DOMAIN sync.keys
      <4>1. ~NeedsKeys(t)
        BY <2>4, <3>4, <1>0 DEF TablesToKey
      <4>2. RowIn(local, p) \in current[p]
        BY <2>4, <2>8, <3>1, <3>4, <4>1, <1>0, UnkeyedIsCurrent
      <4> QED
        BY <2>2, <3>1, <4>2
    <3> QED
      BY <3>2, <3>3, <3>4
  <2>9. CASE k \notin DOMAIN local'[t]
    <3>1. RowIn(local, p)' = Gone
      BY <2>6, <2>9
    <3>2. CASE t \in DOMAIN sync.keys /\ k \notin sync.keys[t]
      <4>1. Gone \in current[p]
        BY <3>2, <1>0 DEF SyncInv, KeysAreCurrent
      <4> QED
        BY <2>2, <3>1, <4>1
    <3>3. CASE k \notin DOMAIN local[t] \cup DOMAIN sync.changed[t]
      <4>1. CASE t \in blind
        BY <2>5, <3>1, <3>3, <4>1 DEF RowIn
      <4>2. CASE t \notin blind
        <5>1. Gone \in current[p]
          BY <2>4, <3>3, <4>2, <1>0 DEF SyncInv, NewIsRead
        <5> QED
          BY <2>2, <3>1, <5>1
      <4> QED
        BY <4>1, <4>2
    <3> QED
      BY <2>4, <2>9, <3>2, <3>3, <1>m
  <2> QED
    BY <2>7, <2>8, <2>9
<1>6. LocalCovers'
  <2> SUFFICES ASSUME NEW t \in Tables \ blind, NEW k \in DOMAIN remote[t],
                      remote[t][k].modified <= Newest(local'[t])
               PROVE  k \in DOMAIN local'[t] /\ local'[t][k] = remote[t][k]
    <3>1. \A t : Newest(local[t])' = Newest(local'[t])
      BY DEF Newest
    <3> QED
      BY <3>1, <1>0, <1>1 DEF LocalCovers, Covers
  <2>1. stamp \in Nat
    BY InstancesAssumption DEF SyncInv, CatalogTyped
  <2>2. /\ Newest(local'[t]) \in 0 .. stamp
        /\ \/ Newest(local'[t]) = 0
           \/ \E j \in DOMAIN local'[t] : local'[t][j].modified = Newest(local'[t])
    <3>1. \A j \in DOMAIN local'[t] : local'[t][j].modified \in 0 .. stamp
      BY <1>u DEF TableOK
    <3> QED
      BY <2>1, <3>1, NewestIs
  <2>3. /\ Seen(t) \in 0 .. stamp /\ Newest(local[t]) <= Seen(t)
        /\ Newest(sync.changed[t]) <= Seen(t)
        /\ Newest(local[t]) \in 0 .. stamp /\ Newest(sync.changed[t]) \in 0 .. stamp
    BY <1>0, <1>r, SeenIs DEF SyncInv
  <2>4. Newest(local'[t]) <= Seen(t)
    <3>1. CASE Newest(local'[t]) = 0
      BY <2>1, <2>3, <3>1
    <3>2. ASSUME NEW j \in DOMAIN local'[t], local'[t][j].modified = Newest(local'[t])
          PROVE  Newest(local'[t]) <= Seen(t)
      <4>1. CASE j \in DOMAIN sync.changed[t]
        <5>1. local'[t][j] = sync.changed[t][j]
          BY <4>1, <1>m
        <5>2. sync.changed[t][j].modified <= Newest(sync.changed[t])
          <6>1. \A i \in DOMAIN sync.changed[t] : sync.changed[t][i].modified \in 0 .. stamp
            BY <1>t DEF TableOK
          <6> QED
            BY <2>1, <4>1, <6>1, NewestIs
        <5> QED
          BY <2>1, <2>2, <2>3, <3>2, <5>1, <5>2
      <4>2. CASE j \notin DOMAIN sync.changed[t]
        <5>1. local'[t][j] = local[t][j] /\ j \in DOMAIN local[t]
          BY <4>2, <1>m
        <5>2. local[t][j].modified <= Newest(local[t])
          <6>1. \A i \in DOMAIN local[t] : local[t][i].modified \in 0 .. stamp
            BY <1>t DEF TableOK
          <6> QED
            BY <2>1, <5>1, <6>1, NewestIs
        <5> QED
          BY <2>1, <2>2, <2>3, <3>2, <5>1, <5>2
      <4> QED
        BY <4>1, <4>2
    <3> QED
      BY <2>2, <3>1, <3>2
  <2>5. remote[t][k].modified \in 0 .. stamp
    BY DEF SyncInv, CatalogTyped, TableOK
  <2>6. remote[t][k].modified <= Seen(t)
    BY <2>1, <2>2, <2>3, <2>4, <2>5
  <2>7. /\ k \in DOMAIN Over(sync.changed[t], local[t])
        /\ Over(sync.changed[t], local[t])[k] = remote[t][k]
        /\ t \in DOMAIN sync.keys => k \in sync.keys[t]
    BY <2>6, <1>0 DEF SyncInv, DeltaCovers, Covers
  <2>8. /\ k \in DOMAIN sync.changed[t] \cup DOMAIN local[t]
        /\ remote[t][k] = IF k \in DOMAIN sync.changed[t] THEN sync.changed[t][k] ELSE local[t][k]
    BY <2>7 DEF Over
  <2> QED
    BY <2>7, <2>8, <1>m
<1>7. RepeatsShown'
  BY <1>0, <1>1 DEF SyncInv, RepeatsShown
<1> QED
  BY <1>0, <1>3, <1>4, <1>5, <1>6, <1>7, IdleKeeps DEF SyncInv

-----------------------------------------------------------------------------
(* A commit of ERPNext                                                     *)

LEMMA CommitIs ==
  ASSUME CatalogTyped, NEW tx \in open, CommitEdit(tx), NEW p \in Places
  PROVE  /\ p \in DOMAIN tx.edit /\ tx.edit[p] # Gone =>
              /\ p[2] \in DOMAIN remote'[p[1]]
              /\ remote'[p[1]][p[2]] = Stamped(tx.edit[p], tx.stamp)
              /\ Puts(p[1], tx)
         /\ p \in DOMAIN tx.edit /\ tx.edit[p] = Gone => p[2] \notin DOMAIN remote'[p[1]]
         /\ p \notin DOMAIN tx.edit =>
              /\ p[2] \in DOMAIN remote'[p[1]] <=> p[2] \in DOMAIN remote[p[1]]
              /\ p[2] \in DOMAIN remote'[p[1]] => remote'[p[1]][p[2]] = remote[p[1]][p[2]]
<1> DEFINE t == p[1]
           k == p[2]
           touched == {q[2] : q \in {q \in DOMAIN tx.edit : q[1] = t}}
           put == {j \in touched : tx.edit[<<t, j>>] # Gone}
<1>1. p = <<t, k>> /\ t \in Tables
  BY PlacesAre DEF CatalogTyped
<1>2. \A q \in DOMAIN tx.edit : q = <<q[1], q[2]>>
  <2>1. tx.edit \in instance.edits /\ instance \in Instances
    BY DEF CatalogTyped
  <2>2. DOMAIN tx.edit \subseteq Places
    BY <2>1 DEF Places, PlacesIn
  <2> QED
    BY <2>1, <2>2, PlacesAre
<1>3. k \in touched <=> p \in DOMAIN tx.edit
  <2>1. ASSUME NEW q \in DOMAIN tx.edit, q[1] = t, q[2] = k
        PROVE  q = p
    BY <1>1, <1>2, <2>1
  <2>2. p \in DOMAIN tx.edit => k \in touched
    BY <1>1
  <2> QED
    BY <2>1, <2>2
<1>4. remote'[t] = Edited(t, tx)
  BY <1>1 DEF CommitEdit
<1>5. remote'[t] = [j \in (DOMAIN remote[t] \ touched) \cup put |->
                      IF j \in put THEN Stamped(tx.edit[<<t, j>>], tx.stamp) ELSE remote[t][j]]
  BY <1>4, Zenon DEF Edited
<1>6. k \in put <=> p \in DOMAIN tx.edit /\ tx.edit[p] # Gone
  BY <1>1, <1>3
<1> HIDE DEF touched, put
<1>7. /\ k \in DOMAIN remote'[t] <=> (k \in DOMAIN remote[t] /\ k \notin touched) \/ k \in put
      /\ k \in DOMAIN remote'[t] =>
           remote'[t][k] = IF k \in put THEN Stamped(tx.edit[<<t, k>>], tx.stamp) ELSE remote[t][k]
  BY <1>5
<1>8. p \in DOMAIN tx.edit /\ tx.edit[p] # Gone => Puts(t, tx)
  BY DEF Puts
<1> QED
  BY <1>1, <1>3, <1>6, <1>7, <1>8

LEMMA CommitPlaces ==
  ASSUME CatalogTyped, NEW tx \in open, CommitEdit(tx), NEW t \in Tables,
         NEW k \in DOMAIN remote'[t]
  PROVE  <<t, k>> \in Places
<1> DEFINE touched == {q[2] : q \in {q \in DOMAIN tx.edit : q[1] = t}}
           put == {j \in touched : tx.edit[<<t, j>>] # Gone}
<1>1. remote'[t] = Edited(t, tx)
  BY DEF CommitEdit
<1>2. remote'[t] = [j \in (DOMAIN remote[t] \ touched) \cup put |->
                      IF j \in put THEN Stamped(tx.edit[<<t, j>>], tx.stamp) ELSE remote[t][j]]
  BY <1>1, Zenon DEF Edited
<1>3. put \subseteq touched
  OBVIOUS
<1>4. k \in DOMAIN remote[t] \/ k \in touched
  <2> HIDE DEF touched, put
  <2> QED
    BY <1>2, <1>3
<1>5. CASE k \in DOMAIN remote[t]
  BY <1>5 DEF CatalogTyped, TableOK
<1>6. CASE k \in touched
  <2>1. PICK q \in DOMAIN tx.edit : q[1] = t /\ q[2] = k
    BY <1>6
  <2>2. q \in Places
    BY DEF CatalogTyped, Places, PlacesIn
  <2>3. q = <<q[1], q[2]>>
    BY <2>2, PlacesAre DEF CatalogTyped
  <2> QED
    BY <2>1, <2>2, <2>3
<1> QED
  BY <1>4, <1>5, <1>6

\* The rows of a transaction are no rows that are gone.
LEMMA StampedIsNotGone ==
  ASSUME CatalogTyped, NEW tx \in open, NEW p \in DOMAIN tx.edit, tx.edit[p] # Gone
  PROVE  /\ Stamped(tx.edit[p], tx.stamp) # Gone
         /\ Stamped(tx.edit[p], tx.stamp).modified = tx.stamp
         /\ tx.stamp \in 0 .. stamp
<1>1. tx.edit \in instance.edits /\ instance \in Instances /\ tx.stamp \in 0 .. stamp
        /\ stamp \in 0 .. instance.changes
  BY DEF CatalogTyped
<1>2. instance.changes \in Nat
  BY <1>1, InstancesAssumption, Zenon
<1>3. tx.stamp \in 0 .. instance.changes
  BY <1>1, <1>2
<1>4. Stamped(tx.edit[p], tx.stamp) # Gone
  BY <1>1, <1>3, InstancesAssumption, Zenon
<1> QED
  BY <1>1, <1>4, StampedIs

\* Where nothing is blind, a row no newer than what was read was there before.
LEMMA OldStays ==
  ASSUME SyncInv, NEW tx \in open, CommitEdit(tx), NEW t \in Tables \ blind',
         NEW k \in DOMAIN remote'[t], remote'[t][k].modified <= Seen(t)
  PROVE  k \in DOMAIN remote[t] /\ remote'[t][k] = remote[t][k]
<1> DEFINE p == <<t, k>>
<1>1. p \in Places /\ p[1] = t /\ p[2] = k
  BY CommitPlaces DEF SyncInv
<1>2. ~(p \in DOMAIN tx.edit /\ tx.edit[p] # Gone)
  <2> SUFFICES ASSUME p \in DOMAIN tx.edit, tx.edit[p] # Gone PROVE FALSE
    OBVIOUS
  <2>1. remote'[t][k] = Stamped(tx.edit[p], tx.stamp) /\ Puts(t, tx)
    BY <1>1, CommitIs DEF SyncInv
  <2>2. remote'[t][k].modified = tx.stamp
    BY <2>1, StampedIsNotGone DEF SyncInv
  <2>3. t \in blind'
    BY <2>1, <2>2 DEF CommitEdit
  <2> QED
    BY <2>3
<1> HIDE DEF p
<1> QED
  BY <1>1, <1>2, CommitIs DEF SyncInv

LEMMA CommitEditKeeps ==
  ASSUME SyncInv, NEW tx \in open, CommitEdit(tx)
  PROVE  SyncInv'
<1>0. /\ open' = open \ {tx}
      /\ window' = [p \in Places |-> window[p] \cup {RowIn(remote', p)}]
      /\ current' = [p \in Places |-> current[p] \cup {RowIn(remote', p)}]
      /\ blind' = blind \cup {t \in Tables : Puts(t, tx) /\ tx.stamp <= Seen(t)}
                       \cup {r.place[1] : r \in repeats'}
      /\ hidden' = hidden \cup {t \in Tables : HidesARow(t, tx)}
      /\ UNCHANGED <<instance, stamp, local, ready, fullNeeded, sync>>
  BY DEF CommitEdit, cacheVars
<1>1. Tables' = Tables /\ Places' = Places
  BY <1>0 DEF Tables, Places
<1>2. \A t, rows : TableOK(t, rows) => TableOK(t, rows)'
  BY <1>0, <1>1 DEF TableOK
<1>p. \A p \in Places : p = <<p[1], p[2]>> /\ p[1] \in Tables
  BY PlacesAre DEF SyncInv, CatalogTyped
<1>c. \A p \in Places : current[p] \subseteq current'[p] /\ window[p] \subseteq window'[p]
  BY <1>0
<1>l. \A p : RowIn(local, p)' = RowIn(local, p)
  BY <1>0 DEF RowIn
<1>s. \A t \in Tables : Seen(t)' = Seen(t) /\ Newest(local[t])' = Newest(local[t])
                          /\ Newest(sync.changed[t])' = Newest(sync.changed[t])
  BY <1>0 DEF Seen, Running, Newest
<1>r. Running' = Running
  BY <1>0 DEF Running
<1>b. stamp \in Nat
  BY InstancesAssumption DEF SyncInv, CatalogTyped
<1>d. DOMAIN remote' = Tables
  BY DEF CommitEdit
<1>a. ASSUME NEW t \in Tables
      PROVE  TableOK(t, remote'[t])
  <2> SUFFICES ASSUME NEW k \in DOMAIN remote'[t]
               PROVE  <<t, k>> \in Places /\ remote'[t][k] # Gone
                        /\ remote'[t][k].modified \in 0 .. stamp
    BY DEF TableOK
  <2> DEFINE p == <<t, k>>
  <2>1. p \in Places /\ p[1] = t /\ p[2] = k
    BY CommitPlaces DEF SyncInv
  <2>2. CASE p \in DOMAIN tx.edit /\ tx.edit[p] # Gone
    <3>1. remote'[t][k] = Stamped(tx.edit[p], tx.stamp)
      BY <2>1, <2>2, CommitIs DEF SyncInv
    <3> QED
      BY <2>1, <2>2, <3>1, StampedIsNotGone DEF SyncInv
  <2>3. CASE ~(p \in DOMAIN tx.edit /\ tx.edit[p] # Gone)
    <3>1. k \in DOMAIN remote[t] /\ remote'[t][k] = remote[t][k]
      BY <2>1, <2>3, CommitIs DEF SyncInv
    <3> QED
      BY <2>1, <3>1 DEF SyncInv, CatalogTyped, TableOK
  <2> QED
    BY <2>2, <2>3
<1>n. \A t \in Tables : \A k \in DOMAIN remote'[t] : remote'[t][k].modified \in Nat
  <2>1. \A t \in Tables : \A k \in DOMAIN remote'[t] : remote'[t][k].modified \in 0 .. stamp
    BY <1>a, Zenon DEF TableOK
  <2> QED
    BY <2>1, <1>b
<1>3. CatalogTyped'
  BY <1>0, <1>1, <1>2, <1>a, <1>d DEF SyncInv, CatalogTyped
<1>13. RepeatsShown'
  <2>1. PICK beside \in SUBSET Repeatable(tx) : repeats' = Repeated(tx, beside)
    BY Zenon DEF CommitEdit
  <2> SUFFICES ASSUME NEW r \in repeats'
               PROVE  /\ r.place \in Places /\ r.place[1] \in blind'
                      /\ r.place[2] \in DOMAIN remote'[r.place[1]]
                      /\ r.row # Gone /\ r.row.modified \in 0 .. stamp
                      /\ r.row \in current'[r.place]
    BY <1>0, <1>1 DEF RepeatsShown
  <2>2. r.place[1] \in blind'
    BY <1>0
  <2>3. CASE r \in repeats /\ (r.place \in DOMAIN tx.edit => tx.edit[r.place] # Gone)
    <3>1. /\ r.place \in Places /\ r.place[2] \in DOMAIN remote[r.place[1]]
          /\ r.row # Gone /\ r.row.modified \in 0 .. stamp /\ r.row \in current[r.place]
      BY <2>3 DEF SyncInv, RepeatsShown
    <3>2. r.place[2] \in DOMAIN remote'[r.place[1]]
      BY <2>3, <3>1, CommitIs DEF SyncInv
    <3> QED
      BY <2>2, <3>1, <3>2, <1>c
  <2>4. ASSUME NEW p \in beside, r = [place |-> p, row |-> RowIn(remote, p)]
        PROVE  /\ r.place \in Places /\ r.place[2] \in DOMAIN remote'[r.place[1]]
               /\ r.row # Gone /\ r.row.modified \in 0 .. stamp
               /\ r.row \in current'[r.place]
    <3>0. r.place = p /\ r.row = RowIn(remote, p)
      BY <2>4
    <3>1. p \in DOMAIN tx.edit /\ tx.edit[p] # Gone /\ RowIn(remote, p) # Gone
      BY DEF Repeatable
    <3>2. p \in Places
      BY <3>1 DEF SyncInv, CatalogTyped, Places, PlacesIn
    <3>3. p[2] \in DOMAIN remote'[p[1]]
      BY <3>1, <3>2, CommitIs DEF SyncInv
    <3>4. p[2] \in DOMAIN remote[p[1]] /\ RowIn(remote, p) = remote[p[1]][p[2]] /\ p[1] \in Tables
      BY <3>1, <3>2, <1>p DEF RowIn
    <3>5. RowIn(remote, p).modified \in 0 .. stamp
      BY <3>4 DEF SyncInv, CatalogTyped, TableOK
    <3>6. RowIn(remote, p) \in current'[p]
      BY <3>2, <1>c DEF SyncInv, WindowsHold
    <3> QED
      BY <3>0, <3>1, <3>2, <3>3, <3>5, <3>6
  <2> QED
    BY <2>1, <2>2, <2>3, <2>4 DEF Repeated
<1>4. SyncShaped'
  <2>1. TablesToKey' = TablesToKey
    BY <1>0, <1>1 DEF TablesToKey, NeedsKeys, MissingChangedKeys
  <2> QED
    BY <1>0, <1>1, <1>2, <1>r, <2>1 DEF SyncInv, SyncShaped, FullShape, DeltaShape
<1>5. WindowsHold'
  <2> SUFFICES ASSUME NEW p \in Places
               PROVE  /\ RowIn(remote, p)' \in current'[p] /\ current'[p] \subseteq window'[p]
                      /\ ready => RowIn(local, p) \in window'[p]
    BY <1>0, <1>1, <1>l DEF WindowsHold
  <2>1. RowIn(remote, p)' = RowIn(remote', p)
    BY DEF RowIn
  <2>2. current[p] \subseteq window[p] /\ (ready => RowIn(local, p) \in window[p])
    BY DEF SyncInv, WindowsHold
  <2> QED
    BY <1>0, <2>1, <2>2
<1>6. LocalCovers'
  <2> SUFFICES ASSUME ~fullNeeded, NEW t \in Tables \ blind', NEW k \in DOMAIN remote'[t],
                      remote'[t][k].modified <= Newest(local[t])
               PROVE  k \in DOMAIN local[t] /\ local[t][k] = remote'[t][k]
    BY <1>0, <1>1, <1>s DEF LocalCovers, Covers
  <2>1. remote'[t][k].modified <= Seen(t)
    <3>1. Newest(local[t]) \in 0 .. stamp /\ Seen(t) \in 0 .. stamp /\ Newest(local[t]) <= Seen(t)
      BY SeenIs DEF SyncInv
    <3>2. remote'[t][k].modified \in Nat
      BY <1>n
    <3> QED
      BY <1>b, <3>1, <3>2
  <2>2. k \in DOMAIN remote[t] /\ remote'[t][k] = remote[t][k]
    BY <2>1, OldStays
  <2>3. t \notin blind
    BY <1>0
  <2> QED
    BY <2>2, <2>3 DEF SyncInv, LocalCovers, Covers
<1>7. ReadIsCurrent'
  BY <1>0, <1>1, <1>c, <1>r DEF SyncInv, ReadIsCurrent
<1>8. FullCovers'
  <2> SUFFICES ASSUME sync.kind = "full", NEW t \in DOMAIN sync.changed \ blind',
                      NEW k \in DOMAIN remote'[t],
                      remote'[t][k].modified <= Newest(sync.changed[t])
               PROVE  k \in DOMAIN sync.changed[t] /\ sync.changed[t][k] = remote'[t][k]
    BY <1>0, <1>1 DEF FullCovers, Covers, Newest
  <2>0. t \in Tables /\ Running
    BY KindIsShape DEF SyncInv, SyncShaped
  <2>1. remote'[t][k].modified <= Seen(t)
    <3>1. Newest(sync.changed[t]) \in 0 .. stamp /\ Seen(t) \in 0 .. stamp
            /\ Newest(sync.changed[t]) <= Seen(t)
      BY <2>0, SeenIs DEF SyncInv
    <3>2. remote'[t][k].modified \in Nat
      BY <2>0, <1>n
    <3> QED
      BY <1>b, <3>1, <3>2
  <2>2. k \in DOMAIN remote[t] /\ remote'[t][k] = remote[t][k]
    BY <2>0, <2>1, OldStays
  <2>3. t \notin blind
    BY <1>0
  <2> QED
    BY <2>2, <2>3 DEF SyncInv, FullCovers, Covers
<1>9. DeltaCovers'
  <2> SUFFICES ASSUME sync.kind = "delta", NEW t \in DOMAIN sync.changed \ blind',
                      NEW k \in DOMAIN remote'[t], remote'[t][k].modified <= Seen(t)
               PROVE  /\ k \in DOMAIN Over(sync.changed[t], local[t])
                      /\ Over(sync.changed[t], local[t])[k] = remote'[t][k]
                      /\ t \in DOMAIN sync.keys => k \in sync.keys[t]
    <3>1. DOMAIN sync.changed \subseteq Tables \/ sync.kind # "delta"
      BY KindIsShape DEF SyncInv, SyncShaped
    <3> QED
      BY <1>0, <1>s, <3>1 DEF DeltaCovers, Covers
  <2>0. t \in Tables /\ Running
    BY KindIsShape DEF SyncInv, SyncShaped
  <2>2. k \in DOMAIN remote[t] /\ remote'[t][k] = remote[t][k]
    BY <2>0, OldStays
  <2>3. t \notin blind
    BY <1>0
  <2> QED
    BY <2>2, <2>3 DEF SyncInv, DeltaCovers, Covers
<1>10. KeysAreCurrent' /\ NewIsRead'
  BY <1>0, <1>1, <1>c DEF SyncInv, KeysAreCurrent, NewIsRead
<1>11. KeptIsCurrent'
  <2> SUFFICES ASSUME sync.kind = "delta", NEW p \in Places,
                      p[1] \in DOMAIN sync.changed \ (blind' \cup hidden'),
                      p[2] \in DOMAIN local[p[1]] \ DOMAIN sync.changed[p[1]]
               PROVE  \/ RowIn(local, p) \in current'[p]
                      \/ IF p[1] \in DOMAIN sync.keys THEN p[2] \notin sync.keys[p[1]]
                                                      ELSE RowIn(remote, p)' = Gone
    BY <1>0, <1>1, <1>l DEF KeptIsCurrent
  <2>1. p[1] \notin blind /\ p[1] \notin hidden
    BY <1>0
  <2>2. \/ RowIn(local, p) \in current[p]
        \/ IF p[1] \in DOMAIN sync.keys THEN p[2] \notin sync.keys[p[1]]
                                        ELSE RowIn(remote, p) = Gone
    BY <2>1 DEF SyncInv, KeptIsCurrent
  <2> SUFFICES ASSUME p[1] \notin DOMAIN sync.keys, RowIn(remote, p) = Gone
               PROVE  RowIn(remote, p)' = Gone
    BY <2>2, <1>c
  <2>3. RowIn(local, p) # Gone
    BY <1>p DEF SyncInv, CatalogTyped, TableOK, RowIn
  <2>4. ~(p \in DOMAIN tx.edit /\ tx.edit[p] # Gone)
    <3> SUFFICES ASSUME p \in DOMAIN tx.edit, tx.edit[p] # Gone PROVE FALSE
      OBVIOUS
    <3>1. p[1] \in DOMAIN sync.count
      BY <1>p, KindIsShape DEF SyncInv, DeltaShape
    <3>2. HidesARow(p[1], tx)
      BY <2>3, <3>1 DEF HidesARow
    <3> QED
      BY <1>0, <1>p, <3>2
  <2>5. p[2] \notin DOMAIN remote[p[1]]
    BY <1>p DEF SyncInv, CatalogTyped, TableOK, RowIn
  <2>6. p[2] \notin DOMAIN remote'[p[1]]
    BY <2>4, <2>5, CommitIs DEF SyncInv
  <2> QED
    BY <2>6 DEF RowIn
<1>12. CountIsAccounted'
  <2> SUFFICES ASSUME sync.kind = "delta",
                      NEW t \in DOMAIN sync.count \ (blind' \cup hidden')
               PROVE  \E counted \in SUBSET Places :
                        /\ \A p \in counted : p[1] = t /\ Accounted(p)'
                        /\ Cardinality(counted) = sync.count[t]
    BY <1>0, <1>1, Zenon DEF CountIsAccounted
  <2>0. t \notin blind /\ t \notin hidden /\ t \in Tables
    BY <1>0, KindIsShape DEF SyncInv, DeltaShape
  <2>1. PICK counted \in SUBSET Places :
               /\ \A p \in counted : p[1] = t /\ Accounted(p)
               /\ Cardinality(counted) = sync.count[t]
    BY <2>0 DEF SyncInv, CountIsAccounted
  <2>2. \A p \in counted : p[2] \in DOMAIN local[t] /\ local[t][p[2]] \in current[p]
                             => Accounted(p)'
    BY <2>1, <1>0, <1>c DEF Accounted
  <2>3. t \in DOMAIN sync.changed =>
          \A p \in counted : p[2] \in DOMAIN sync.changed[t] => Accounted(p)'
    BY <2>1, <1>0 DEF Accounted
  <2>4. ASSUME t \notin DOMAIN sync.changed, NEW p \in counted, p[2] \in DOMAIN remote[t],
               remote[t][p[2]].modified > Newest(local[t])
        PROVE  p[2] \in DOMAIN remote'[t] /\ remote'[t][p[2]].modified > Newest(local[t])
    <3>0. p \in Places /\ p[1] = t
      BY <2>1
    <3>1. CASE p \notin DOMAIN tx.edit
      BY <2>4, <3>0, <3>1, CommitIs DEF SyncInv
    <3>2. CASE p \in DOMAIN tx.edit /\ tx.edit[p] # Gone
      <4>1. p[2] \in DOMAIN remote'[t] /\ remote'[t][p[2]].modified = tx.stamp /\ Puts(t, tx)
              /\ tx.stamp \in 0 .. stamp
        BY <3>0, <3>2, CommitIs, StampedIsNotGone DEF SyncInv
      <4>2. ~(tx.stamp <= Seen(t))
        BY <2>0, <4>1, <1>0
      <4>3. Newest(local[t]) \in 0 .. stamp /\ Seen(t) \in 0 .. stamp /\ Newest(local[t]) <= Seen(t)
        BY <2>0, SeenIs DEF SyncInv
      <4> QED
        BY <4>1, <4>2, <4>3, <1>b
    <3>3. CASE p \in DOMAIN tx.edit /\ tx.edit[p] = Gone
      <4>1. RowIn(remote, p) # RowIn(local, p)
        <5>1. RowIn(remote, p) = remote[t][p[2]] /\ remote[t][p[2]] # Gone
          BY <2>0, <2>4, <3>0 DEF RowIn, SyncInv, CatalogTyped, TableOK
        <5>2. CASE p[2] \in DOMAIN local[t]
          <6>1. local[t][p[2]].modified <= Newest(local[t]) /\ Newest(local[t]) \in 0 .. stamp
            <7>1. \A k \in DOMAIN local[t] : local[t][k].modified \in 0 .. stamp
              BY <2>0 DEF SyncInv, CatalogTyped, TableOK
            <7> QED
              BY <5>2, <7>1, <1>b, NewestIs
          <6>2. local[t][p[2]].modified \in 0 .. stamp
            BY <2>0, <5>2 DEF SyncInv, CatalogTyped, TableOK
          <6>3. remote[t][p[2]].modified \in 0 .. stamp
            BY <2>0, <2>4 DEF SyncInv, CatalogTyped, TableOK
          <6>4. local[t][p[2]].modified # remote[t][p[2]].modified
            BY <2>4, <6>1, <6>2, <6>3, <1>b
          <6> QED
            BY <3>0, <5>1, <5>2, <6>4 DEF RowIn
        <5>3. CASE p[2] \notin DOMAIN local[t]
          BY <3>0, <5>1, <5>3 DEF RowIn
        <5> QED
          BY <5>2, <5>3
      <4>2. HidesARow(t, tx)
        BY <2>4, <3>0, <3>3, <4>1 DEF HidesARow
      <4> QED
        BY <2>0, <4>2, <1>0
    <3> QED
      BY <3>1, <3>2, <3>3
  <2>5. t \notin DOMAIN sync.changed =>
          \A p \in counted : p[2] \in DOMAIN remote[t] /\ remote[t][p[2]].modified > Newest(local[t])
                               => Accounted(p)'
    BY <2>1, <2>4, <1>0, <1>s, <2>0 DEF Accounted
  <2>6. \A p \in counted : Accounted(p)'
    <3> TAKE p \in counted
    <3>1. p[1] = t /\ Accounted(p)
      BY <2>1
    <3>2. \/ p[2] \in DOMAIN local[t] /\ local[t][p[2]] \in current[p]
          \/ IF t \in DOMAIN sync.changed
             THEN p[2] \in DOMAIN sync.changed[t]
             ELSE p[2] \in DOMAIN remote[t] /\ remote[t][p[2]].modified > Newest(local[t])
      BY <3>1 DEF Accounted
    <3> QED
      BY <3>2, <2>2, <2>3, <2>5
  <2> QED
    BY <2>1, <2>6
<1> QED
  BY <1>3, <1>4, <1>5, <1>6, <1>7, <1>8, <1>9, <1>10, <1>11, <1>12, <1>13 DEF SyncInv

\* A row less of a pair: only tables the deltas are blind to have such pairs.
LEMMA DeleteRepeatedKeeps ==
  ASSUME SyncInv, NEW r \in repeats, DeleteRepeated(r)
  PROVE  SyncInv'
<1> DEFINE t == r.place[1]
           k == r.place[2]
<1>0. /\ repeats' = repeats \ {r}
      /\ UNCHANGED <<instance, open, stamp, local, ready, fullNeeded, sync, window, current,
                     blind, hidden>>
  BY DEF DeleteRepeated, cacheVars, windowVars
<1>r. /\ r.place \in Places /\ t \in blind /\ k \in DOMAIN remote[t] /\ t \in Tables
      /\ r.place = <<t, k>>
      /\ r.row # Gone /\ r.row.modified \in 0 .. stamp /\ r.row \in current[r.place]
  BY PlacesAre DEF SyncInv, RepeatsShown, CatalogTyped
<1>1. Tables' = Tables /\ Places' = Places
  BY <1>0 DEF Tables, Places
<1>2. \A u, rows : TableOK(u, rows) => TableOK(u, rows)'
  BY <1>0, <1>1 DEF TableOK
<1>3. /\ DOMAIN remote' = Tables /\ \A u \in Tables \ {t} : remote'[u] = remote[u]
      /\ DOMAIN remote'[t] = DOMAIN remote[t]
      /\ \A j \in DOMAIN remote[t] \ {k} : remote'[t][j] = remote[t][j]
      /\ remote'[t][k] \in {remote[t][k], r.row}
  <2>1. remote' = remote \/ remote' = [remote EXCEPT ![t][k] = r.row]
    BY DEF DeleteRepeated
  <2>2. DOMAIN remote = Tables
    BY DEF SyncInv, CatalogTyped
  <2>3. CASE remote' = [remote EXCEPT ![t][k] = r.row]
    <3>1. remote'[t] = [remote[t] EXCEPT ![k] = r.row]
      BY <2>2, <2>3, <1>r
    <3>2. DOMAIN remote' = Tables /\ \A u \in Tables \ {t} : remote'[u] = remote[u]
      BY <2>2, <2>3
    <3> QED
      BY <3>1, <3>2, <1>r
  <2> QED
    BY <2>1, <2>2, <2>3
<1> HIDE DEF t, k
<1>4. ASSUME NEW u \in Tables
      PROVE  TableOK(u, remote'[u]) /\ DOMAIN remote'[u] = DOMAIN remote[u]
  <2>1. TableOK(u, remote[u])
    BY DEF SyncInv, CatalogTyped
  <2>2. CASE u = t
    BY <2>1, <2>2, <1>3, <1>r DEF TableOK
  <2>3. CASE u # t
    BY <2>1, <2>3, <1>3
  <2> QED
    BY <2>2, <2>3
<1>5. CatalogTyped'
  BY <1>0, <1>1, <1>2, <1>3, <1>4 DEF SyncInv, CatalogTyped
<1>6. RepeatsShown'
  <2>1. \A s \in repeats : s.place[1] \in Tables
    BY PlacesAre DEF SyncInv, RepeatsShown, CatalogTyped
  <2> QED
    BY <2>1, <1>0, <1>1, <1>4 DEF SyncInv, RepeatsShown
<1>7. SyncShaped'
  <2>1. TablesToKey' = TablesToKey /\ Running' = Running
    BY <1>0, <1>1 DEF TablesToKey, NeedsKeys, MissingChangedKeys, Running
  <2> QED
    BY <1>0, <1>1, <1>2, <2>1 DEF SyncInv, SyncShaped, FullShape, DeltaShape
<1>8. /\ \A u \in Tables \ blind : remote'[u] = remote[u]
      /\ \A p \in Places : /\ p[1] \in Tables
                           /\ RowIn(local, p)' = RowIn(local, p)
                           /\ RowIn(remote, p)' = Gone <=> RowIn(remote, p) = Gone
                           /\ p[1] \notin blind => RowIn(remote, p)' = RowIn(remote, p)
  <2>1. \A u \in Tables \ blind : remote'[u] = remote[u]
    BY <1>3, <1>r
  <2>2. \A p \in Places : p[1] \in Tables
    BY PlacesAre DEF SyncInv, CatalogTyped
  <2>3. \A p \in Places : RowIn(remote, p)' = Gone <=> RowIn(remote, p) = Gone
    BY <2>2, <1>4 DEF RowIn, SyncInv, CatalogTyped, TableOK
  <2> QED
    BY <2>1, <2>2, <2>3, <1>0 DEF RowIn
<1>9. WindowsHold'
  <2> SUFFICES ASSUME NEW p \in Places
               PROVE  RowIn(remote, p)' \in current[p]
    BY <1>0, <1>1, <1>8 DEF SyncInv, WindowsHold
  <2>1. RowIn(remote, p) \in current[p]
    BY DEF SyncInv, WindowsHold
  <2>2. CASE p = r.place
    <3>1. RowIn(remote, p)' \in {RowIn(remote, p), r.row}
      BY <2>2, <1>r, <1>3, <1>4 DEF RowIn
    <3> QED
      BY <2>1, <2>2, <3>1, <1>r
  <2>3. CASE p # r.place
    <3>1. p = <<p[1], p[2]>> /\ p[1] \in Tables
      BY PlacesAre DEF SyncInv, CatalogTyped
    <3>2. p[1] # t \/ p[2] # k
      BY <2>3, <3>1, <1>r
    <3>3. RowIn(remote, p)' = RowIn(remote, p)
      BY <3>1, <3>2, <1>3, <1>4 DEF RowIn
    <3> QED
      BY <2>1, <3>3
  <2> QED
    BY <2>2, <2>3
<1>10. /\ \A u : Seen(u)' = Seen(u) /\ Newest(local[u])' = Newest(local[u])
       /\ \A u : Newest(sync.changed[u])' = Newest(sync.changed[u])
       /\ Running' = Running
  BY <1>0 DEF Seen, Newest, Running
<1>11. sync.kind \in {"full", "delta"} => DOMAIN sync.changed \subseteq Tables
  BY KindIsShape DEF SyncInv, SyncShaped
<1>12. LocalCovers' /\ FullCovers' /\ DeltaCovers'
  <2>1. LocalCovers'
    BY <1>0, <1>1, <1>8, <1>10 DEF SyncInv, LocalCovers, Covers
  <2>2. FullCovers'
    BY <1>0, <1>8, <1>10, <1>11 DEF SyncInv, FullCovers, Covers
  <2>3. DeltaCovers'
    BY <1>0, <1>8, <1>10, <1>11 DEF SyncInv, DeltaCovers, Covers
  <2> QED
    BY <2>1, <2>2, <2>3
<1>13. ReadIsCurrent' /\ KeysAreCurrent' /\ NewIsRead' /\ KeptIsCurrent'
  BY <1>0, <1>1, <1>8, <1>10 DEF SyncInv, ReadIsCurrent, KeysAreCurrent, NewIsRead, KeptIsCurrent
<1>14. CountIsAccounted'
  <2> SUFFICES ASSUME sync.kind = "delta", NEW u \in DOMAIN sync.count \ (blind \cup hidden)
               PROVE  \E counted \in SUBSET Places :
                        /\ \A p \in counted : p[1] = u /\ Accounted(p)'
                        /\ Cardinality(counted) = sync.count[u]
    BY <1>0, <1>1, Zenon DEF CountIsAccounted
  <2>0. remote'[u] = remote[u]
    BY <1>8, KindIsShape DEF SyncInv, DeltaShape
  <2>1. PICK counted \in SUBSET Places :
               /\ \A p \in counted : p[1] = u /\ Accounted(p)
               /\ Cardinality(counted) = sync.count[u]
    BY DEF SyncInv, CountIsAccounted
  <2>2. \A p : p[1] = u /\ Accounted(p) => Accounted(p)'
    BY <2>0, <1>0, <1>10 DEF Accounted
  <2> QED
    BY <2>1, <2>2
<1> QED
  BY <1>5, <1>6, <1>7, <1>9, <1>12, <1>13, <1>14 DEF SyncInv

-----------------------------------------------------------------------------
(* The theorems                                                            *)

LEMMA SyncStays == SyncInv /\ [Next]_syncVars => SyncInv'
<1> SUFFICES ASSUME SyncInv, [Next]_syncVars PROVE SyncInv'
  OBVIOUS
<1>1. CASE UNCHANGED syncVars
  BY <1>1, StutterKeeps
<1>2. ASSUME NEW edit \in instance.edits, BeginEdit(edit)
      PROVE  SyncInv'
  BY <1>2, BeginEditKeeps
<1>3. ASSUME NEW tx \in open, CommitEdit(tx)
      PROVE  SyncInv'
  BY <1>3, CommitEditKeeps
<1>6. ASSUME NEW r \in repeats, DeleteRepeated(r)
      PROVE  SyncInv'
  BY <1>6, DeleteRepeatedKeeps
<1>4. CASE SyncStep
  BY <1>4, BeginKeeps, SelectTableKeeps, FetchTableStatsKeeps, SelectChangedKeeps,
     FetchKeysKeeps, ReplaceCatalogKeeps, ApplyDeltaKeeps DEF SyncStep
<1>5. CASE SyncFails \/ Restart
  BY <1>5, AbandonKeeps
<1> QED
  BY <1>1, <1>2, <1>3, <1>4, <1>5, <1>6 DEF Next

(* The cache, the running sync and the windows agree in every state, with  *)
(* ERPNext committing between any two queries (run_catalog_cache_sync_loop,*)
(* sync_catalog_once and sync_catalog_delta_once).                         *)
THEOREM CatalogInSync == Spec => []SyncInv
  BY InitSynced, SyncStays, PTL DEF Spec

(* Rows that have gone, rows that are new and rows that changed behind a   *)
(* count that did not: a delta finds them all by its three queries, however*)
(* many commits fall between them, so what the cache serves is no older    *)
(* than the last sync.                                                     *)
THEOREM ReadsAreRecent == Spec => []AnswersAreRecent
<1>1. SyncInv => AnswersAreRecent
  BY DEF SyncInv, WindowsHold, AnswersAreRecent, Source
<1> QED
  BY <1>1, CatalogInSync, PTL

-----------------------------------------------------------------------------
(* The two readers                                                         *)

\* Where every enabled item is stocked, the listings of the warehouse from
\* MariaDB have no more items than those of the cache; they never have fewer.
LEMMA SoldAreEnabled ==
  ASSUME NEW items
  PROVE  /\ Sold(items) \subseteq Enabled(items)
         /\ (~ \E i \in Enabled(items) : ~items[i].stock) => Sold(items) = Enabled(items)
  BY DEF Sold

LEMMA AdminAgrees ==
  ASSUME NEW kind \in AdminKinds, NEW c
  PROVE  AdminAnswer(kind, TRUE, c) = AdminAnswer(kind, FALSE, c)
<1> USE DEF AdminAnswer
<1>1. CASE kind = "items_page"
  BY <1>1 DEF ItemsPage, DirectItemsPage
<1>2. CASE kind = "items_page_by_group"
  BY <1>2 DEF ItemsPageByGroup, DirectItemsPageByGroup
<1>3. CASE kind = "item_groups"
  BY <1>3 DEF ItemGroups, DirectItemGroups
<1>4. CASE kind = "item_group_tree"
  BY <1>4 DEF ItemGroupTree, DirectItemGroupTree
<1>5. CASE kind = "suppliers_page"
  BY <1>5 DEF SuppliersPage, DirectSuppliersPage
<1>6. CASE kind = "customers_page"
  BY <1>6 DEF CustomersPage, DirectCustomersPage
<1>7. CASE kind = "supplier_by_ref"
  BY <1>7 DEF SupplierByRef, DirectSupplierByRef
<1>8. CASE kind = "customer_by_ref"
  BY <1>8 DEF CustomerByRef, DirectCustomerByRef
<1>9. CASE kind = "assigned_supplier_items"
  BY <1>9 DEF AssignedSupplierItems, DirectAssignedItems
<1>10. CASE kind = "customer_items"
  BY <1>10 DEF CustomerItems, DirectCustomerItems
<1> QED
  BY <1>1, <1>2, <1>3, <1>4, <1>5, <1>6, <1>7, <1>8, <1>9, <1>10 DEF AdminKinds

LEMMA ProfileAgrees ==
  ASSUME NEW kind \in ProfileKinds, NEW c
  PROVE  ProfileAnswer(kind, TRUE, c) = ProfileAnswer(kind, FALSE, c)
<1>1. \A row : ProfilePhone(row) = DirectProfilePhone(row)
  BY DEF ProfilePhone, DirectProfilePhone
<1>2. CASE kind = "get_supplier_profile"
  BY <1>1, <1>2 DEF ProfileAnswer, SupplierProfile, DirectSupplierProfile
<1>3. CASE kind = "get_customer_profile"
  BY <1>1, <1>3 DEF ProfileAnswer, CustomerProfile, DirectCustomerProfile
<1> QED
  BY <1>2, <1>3 DEF ProfileKinds

\* The listings of the warehouse, item by item.
LEMMA WerkaAgrees ==
  ASSUME NEW kind \in DOMAIN TablesOf \ (AdminKinds \cup ProfileKinds), NEW c
  PROVE  /\ WerkaAnswer(kind, TRUE, c) \subseteq WerkaAnswer(kind, FALSE, c)
         /\ (~ \E i \in Enabled(c.items) : ~c.items[i].stock) =>
              WerkaAnswer(kind, TRUE, c) = WerkaAnswer(kind, FALSE, c)
<1> DEFINE AllStocked == ~ \E i \in Enabled(c.items) : ~c.items[i].stock
<1>1. Sold(c.items) \subseteq Enabled(c.items) /\ (AllStocked => Sold(c.items) = Enabled(c.items))
  BY SoldAreEnabled
<1> HIDE DEF AllStocked
<1>2. /\ SupplierItems(c) \subseteq ReadWerkaSupplierItems(c)
      /\ AllStocked => SupplierItems(c) = ReadWerkaSupplierItems(c)
      /\ AssignedSupplierItems(c) = SupplierItems(c)
  BY <1>1 DEF SupplierItems, AssignedSupplierItems, ReadWerkaSupplierItems
<1>3. /\ CustomerItems(c) \subseteq ReadWerkaCustomerItems(c)
      /\ AllStocked => CustomerItems(c) = ReadWerkaCustomerItems(c)
  BY <1>1 DEF CustomerItems, ReadWerkaCustomerItems
<1>4. /\ WerkaSuppliers(c) \subseteq ReadWerkaSuppliers(c)
      /\ AllStocked => WerkaSuppliers(c) = ReadWerkaSuppliers(c)
  BY <1>2 DEF WerkaSuppliers, ReadWerkaSuppliers
<1>5. /\ WerkaCustomers(c) \subseteq ReadWerkaCustomers(c)
      /\ AllStocked => WerkaCustomers(c) = ReadWerkaCustomers(c)
  BY <1>3 DEF WerkaCustomers, ReadWerkaCustomers
<1>6. /\ CustomerItemOptions(c) \subseteq ReadCustomerItemOptions(c)
      /\ AllStocked => CustomerItemOptions(c) = ReadCustomerItemOptions(c)
  BY <1>3 DEF CustomerItemOptions, ReadCustomerItemOptions
<1>7. kind \in {"werka_suppliers", "werka_customers", "werka_supplier_items",
                "werka_customer_items", "werka_customer_item_options"}
  BY DEF TablesOf, AdminKinds, ProfileKinds
<1>8. /\ WerkaAnswer(kind, TRUE, c) \subseteq WerkaAnswer(kind, FALSE, c)
      /\ AllStocked => WerkaAnswer(kind, TRUE, c) = WerkaAnswer(kind, FALSE, c)
  BY <1>2, <1>3, <1>4, <1>5, <1>6, <1>7 DEF WerkaAnswer
<1> QED
  BY <1>8 DEF AllStocked

(* The queries on SQLite and those on MariaDB, written one by one in       *)
(* catalog_cache/readers and in erpdb, answer alike on the same rows,      *)
(* disabled parties, numbers kept in notes and links of disabled items     *)
(* included; the warehouse's alone differ, by items that are not stocked.  *)
THEOREM FallbackChangesNothing == Spec => []FallbackAgrees
<1>1. FallbackAgrees
  <2> SUFFICES ASSUME local = remote, NEW kind \in Kinds
               PROVE  LET cached == Answer(kind, TRUE, local)
                          direct == Answer(kind, FALSE, remote)
                      IN  /\ cached \subseteq direct
                          /\ cached = direct \/ /\ kind \notin AdminKinds \cup ProfileKinds
                                                /\ \E i \in Enabled(remote.items) :
                                                     ~remote.items[i].stock
    BY Zenon DEF FallbackAgrees
  <2>0. AdminKinds \cap ProfileKinds = {}
    BY DEF AdminKinds, ProfileKinds
  <2>1. CASE kind \in AdminKinds
    BY <2>0, <2>1, AdminAgrees DEF Answer
  <2>2. CASE kind \in ProfileKinds
    BY <2>0, <2>2, ProfileAgrees DEF Answer
  <2>3. CASE kind \notin AdminKinds \cup ProfileKinds
    BY <2>3, WerkaAgrees DEF Answer, Kinds
  <2> QED
    BY <2>1, <2>2, <2>3
<1> QED
  BY <1>1, PTL
=============================================================================
