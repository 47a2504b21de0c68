---------------------------- MODULE AccessProofs ----------------------------
(***************************************************************************)
(* Access under requests that overlap at every step, with faults and       *)
(* restarts: what every record holds, that nobody is made more codes       *)
(* within a window than the service allows, that a session ends by a       *)
(* logout or by expiring and by nothing else, and what is kept of what was *)
(* confirmed: the groups that hold children, the code of the warehouse     *)
(* keeper, roles, owners of devices. Each has an invariant                 *)
(* of its own, which says what a request holds between two of its steps;   *)
(* a request that is alone on its keys keeps it by what the others leave   *)
(* alone, and one that is not confirms nothing.                            *)
(***************************************************************************)
EXTENDS Access, LeastNumbers, FiniteSetTheorems, TLAPS
-----------------------------------------------------------------------------
(***************************************************************************)
(* The types of the stores, and what a request holds at each of its steps. *)
(***************************************************************************)
Preferences == [nickname : STRING, avatar : STRING]
StoredRecords == RecordsOf(IF Lmdb THEN 0..4 ELSE DOMAIN StoredRole)

SessionsTyped ==
  /\ sessions \in [Tokens -> StoredRecords \cup {None}]
  /\ disk \in [Tokens -> StoredRecords \cup {None}]
  /\ rawKeys \in [Tokens -> SessionRecords \cup {None}]
  /\ cache \in [Tokens -> SessionRecords \cup {None}]
  /\ expiry \subseteq Nat \X Tokens
  /\ granted \in [Tokens -> Nat \cup {None}]
  /\ issued \subseteq Tokens

ProfilesTyped ==
  /\ prefs \in Preferences \cup {None} /\ prefsDisk \in Preferences \cup {None}
  /\ prefsLegacy \in Preferences \cup {None} /\ photo \in STRING

AdminTyped ==
  /\ states \in [Refs -> StateRecords \cup {None}]
  /\ oldStates \in [Refs -> StateRecords \cup {None}]
  /\ AreRows(assigned)
  /\ regens \in [Refs -> Seq(Nat) \cup {None}]

SettingsTyped ==
  /\ config = [name |-> config.name, code |-> config.code, key |-> config.key]
  /\ config.name \in STRING
  /\ identity = [name |-> identity.name, code |-> identity.code]
  /\ identity.name \in STRING
  /\ configLock \in Handlers \cup {None}
  /\ "MOBILE_DEV_WERKA_NAME" \notin DOMAIN env

LoadPcs == {"lookup", "read", "readRaw", "migrate", "dropRaw"}
RecordPcs == {"migrate", "dropRaw", "fill", "renewed"}
ProfilePcs == {"renew", "renewed", "refresh", "upload", "prefs", "migratePrefs", "putPrefs"}
TokenPcs == LoadPcs \cup RecordPcs \cup ProfilePcs \cup {"serve", "expire", "erase", "forget"}

IsJob(j) ==
  j = [op |-> j.op, pc |-> j.pc, keys |-> j.keys, arg |-> j.arg, copy |-> j.copy,
       phase |-> j.phase, alone |-> j.alone]

SessionJob(j) ==
  /\ j.pc \in TokenPcs => /\ j.arg.token \in issued \cap j.keys
                          /\ j.op \in ProfileOps \cup {"act", "logout"}
  /\ j.pc \in TokenPcs /\ j.op \in ProfileOps =>
       j.arg = [token |-> j.arg.token, principal |-> j.arg.principal]
  /\ j.pc \in ProfilePcs \/ (j.pc \in LoadPcs /\ j.phase = "update") =>
       j.op \in ProfileOps /\ j.arg.principal \in Principals
  /\ j.pc = "keep" => \E t \in Tokens \ issued : j.keys = {t}
  /\ j.pc \in RecordPcs \cup {"keep"} => j.copy \in SessionRecords
  /\ j.pc \in {"create", "serve"} => j.copy \in Principals
  /\ j.pc \in {"migratePrefs", "putPrefs"} => j.copy \in Preferences

ItemOps == {"assign", "unassign", "assignCustomer", "unassignCustomer"}
RegenOps == {"regenerate", "regenerateCustomer", "regenerateWerka"}
HeldPcs == {"codes", "prefix", "werkaCode", "put"}
StatePcs == (AdminWaits \ {"find", "decide"}) \cup {"werkaState", "werkaCode"}
KeysOf(r) == IF r = Keeper THEN SettingsKeys ELSE Keys(r)
OpsAt(pc) ==
  CASE pc \in {"entry", "state"} -> SupplierOps \cup {"removeCustomer", "regenerateCustomer",
                                                      "assignCustomer", "unassignCustomer"}
    [] pc = "codes" -> {"regenerate"}
    [] pc \in {"stateCodes", "prefix"} -> {"regenerateCustomer"}
    [] pc \in {"werkaState", "werkaCode"} -> {"regenerateWerka"}
    [] pc \in {"known", "sync"} -> {"items"}
    [] pc = "insertRow" -> {"assign", "assignCustomer"}
    [] pc \in {"rows", "deleteRows"} -> {"unassign", "unassignCustomer", "items"}
    [] pc = "restate" -> {"assign", "unassign", "items", "createSupplier"}
    [] OTHER -> StateOps

\* A request for a whole set of items, and how far it is.
ItemsArg(arg) ==
  /\ arg = [ref |-> arg.ref, items |-> arg.items, right |-> arg.right, add |-> arg.add,
            drop |-> arg.drop, item |-> arg.item]
  /\ arg.items \subseteq Items /\ arg.right \subseteq Items
  /\ arg.add \subseteq Items /\ arg.drop \subseteq Items

AdminJob(j) ==
  /\ j.pc \in StatePcs =>
       /\ j.op \in OpsAt(j.pc) /\ KeysOf(j.arg.ref) \subseteq j.keys
       /\ IF j.op = "regenerateWerka" THEN j.arg.ref = Keeper ELSE j.arg.ref \in Parties
       /\ j.op \in ItemOps => j.arg.item \in Items
       /\ j.op = "items" => ItemsArg(j.arg)
       /\ j.op \in {"regenerate", "regenerateWerka"} =>
            j.arg = [ref |-> j.arg.ref, code |-> j.arg.code, made |-> j.arg.made]
       /\ j.op = "regenerateCustomer" =>
            /\ j.arg = [ref |-> j.arg.ref, existing |-> j.arg.existing, made |-> j.arg.made,
                        code |-> j.arg.code]
            /\ j.arg.code \in AccessCodes \cup {None}
       /\ j.op \in RegenOps /\ j.pc \in {"put", "write", "prefix", "werkaCode"} =>
            j.arg.made \in 0..now
  /\ j.pc \in HeldPcs => j.copy \in StateRecords
  /\ j.pc = "write" => ~Lmdb /\ j.copy \in [Refs -> StateRecords \cup {None}]
  /\ j.pc = "deleteRows" => AreRows(j.copy)
  /\ j.pc = "find" => j.arg.code \in AccessCodes \cup {None}
  /\ j.pc = "decide" => j.copy \subseteq Parties /\ j.arg.code \in AccessCodes

OtherJob(j) ==
  /\ j.pc = "lock" => j.arg.name \in STRING
  /\ j.pc \in GroupWaits => j.arg.name \in Groups
  /\ j.pc = "promoteParent" => j.arg.parent \in Groups

OpenJob(j) ==
  IsJob(j) /\ j.alone \in BOOLEAN /\ SessionJob(j) /\ AdminJob(j) /\ OtherJob(j)

\* Two logins are never given the same token.
TokensDiffer ==
  \A g, h \in Handlers : g # h /\ At(g, "keep") /\ At(h, "keep") => jobs[g].keys # jobs[h].keys

Typed ==
  /\ mix \in Mixes /\ now \in 0..mix.clock
  /\ jobs = [h \in Handlers |-> jobs[h]]
  /\ \A h \in Handlers : Working(h) => OpenJob(jobs[h])
  /\ SessionsTyped /\ ProfilesTyped /\ AdminTyped /\ SettingsTyped /\ isGroup \subseteq Groups
  /\ TokensDiffer

-----------------------------------------------------------------------------
StateJob(h, r) == Working(h) /\ jobs[h].pc \in StatePcs /\ (jobs[h].arg.ref = r \/ ~Lmdb)

SameRegens(s, t) == s.started = t.started /\ s.count = t.count /\ s.cooldown = t.cooldown

First(q) == q[1] + Window
Counts(state, q) ==
  IF q = <<>> THEN state.started = None
  ELSE now < First(q) => /\ state.started = q[1] /\ state.count = Len(q)
                         /\ Len(q) >= MaxCodeRegens => state.cooldown = First(q)
Counted(state, q, made) ==
  IF q = <<>> THEN Counts(state, <<made>>)
  ELSE made < First(q) => Len(q) < MaxCodeRegens /\ Counts(state, Append(q, made))

WithinBudget(q) ==
  Cardinality({i \in DOMAIN q : q[i] < First(q)}) <= MaxCodeRegens

RegenJob(j) ==
  LET r == j.arg.ref
      state == IF j.pc = "write" THEN j.copy[r] ELSE j.copy
      bumped == j.op \in RegenOps /\ j.pc # "codes"
  IN  regens[r] # None /\ j.pc \in HeldPcs \cup {"write"} =>
        /\ state # None
        /\ IF bumped THEN Counted(state, regens[r], j.arg.made) ELSE SameRegens(state, StateFor(r))

WritesLatest(j) ==
  j.pc = "write" => \A x \in Refs \ {j.arg.ref} : regens[x] # None => j.copy[x] = states[x]

RegenInv ==
  /\ \A r \in Refs, g, h \in Handlers :
       regens[r] # None /\ g # h => ~(StateJob(g, r) /\ StateJob(h, r))
  /\ \A r \in Refs : regens[r] # None =>
       /\ Counts(StateFor(r), regens[r])
       /\ regens[r] # <<>> => WithinBudget(regens[r])
  /\ \A h \in Handlers : Working(h) /\ jobs[h].pc \in StatePcs => RegenJob(jobs[h]) /\ WritesLatest(jobs[h])

-----------------------------------------------------------------------------
(***************************************************************************)
(* What a step leaves of the requests of others.                           *)
(***************************************************************************)
\* Another request is where it was, but perhaps not alone any more.
SameJob(g) ==
  \/ jobs'[g] = jobs[g]
  \/ Working(g) /\ jobs'[g] = [jobs[g] EXCEPT !.alone = FALSE]

OthersKept(h) ==
  jobs' = [g \in Handlers |-> jobs'[g]] /\ \A g \in Handlers \ {h} : SameJob(g)

LEMMA Continues ==
  ASSUME Typed, NEW h \in Handlers, NEW job, Continue(h, job)
  PROVE  /\ OthersKept(h) /\ jobs'[h] = job /\ UNCHANGED <<now, mix>>
         /\ \A g \in Handlers \ {h} : jobs'[g] = jobs[g]
<1>1. jobs' = [jobs EXCEPT ![h] = job] /\ UNCHANGED <<now, mix>>
  BY DEF Continue
<1>2. jobs = [g \in Handlers |-> jobs[g]]
  BY DEF Typed
<1>3. /\ jobs' = [g \in Handlers |-> jobs'[g]] /\ jobs'[h] = job
      /\ \A g \in Handlers \ {h} : jobs'[g] = jobs[g]
  BY <1>1, <1>2, Zenon
<1> QED
  BY <1>1, <1>2, <1>3 DEF OthersKept, SameJob

NewJob(h, op, pc, keys, arg) ==
  [op |-> op, pc |-> pc, keys |-> keys, arg |-> arg, copy |-> None, phase |-> "get",
   alone |-> \A f \in Handlers : ~On(f, keys)]

LEMMA Begins ==
  ASSUME Typed, NEW h \in Handlers, NEW op, NEW pc, NEW keys, NEW arg,
         Begin(h, op, pc, keys, arg)
  PROVE  /\ OthersKept(h) /\ jobs'[h] = NewJob(h, op, pc, keys, arg)
         /\ UNCHANGED <<faults, now, mix>> /\ ~Working(h)
         /\ \A g \in Handlers \ {h} :
              jobs'[g] = IF On(g, keys) THEN [jobs[g] EXCEPT !.alone = FALSE] ELSE jobs[g]
<1> DEFINE job == NewJob(h, op, pc, keys, arg)
<1>1. /\ jobs' = [g \in Handlers |->
                    IF g = h THEN job
                    ELSE IF On(g, keys) THEN [jobs[g] EXCEPT !.alone = FALSE] ELSE jobs[g]]
      /\ UNCHANGED <<faults, now, mix>> /\ ~Working(h)
  BY DEF Begin, NewJob
<1> HIDE DEF job
<1>2. /\ jobs' = [g \in Handlers |-> jobs'[g]] /\ jobs'[h] = job
      /\ \A g \in Handlers \ {h} :
           jobs'[g] = IF On(g, keys) THEN [jobs[g] EXCEPT !.alone = FALSE] ELSE jobs[g]
  BY <1>1, Zenon
<1>3. OthersKept(h)
  BY <1>2 DEF OthersKept, SameJob, On
<1> QED
  BY <1>1, <1>2, <1>3 DEF job

\* A request at its next step.
Moved(j, pc, arg, copy, phase) ==
  [op |-> j.op, pc |-> pc, keys |-> j.keys, arg |-> arg, copy |-> copy, phase |-> phase,
   alone |-> j.alone]

LEMMA MovedIs ==
  ASSUME NEW j, NEW pc, NEW arg, NEW copy, NEW phase, NEW k, k = Moved(j, pc, arg, copy, phase)
  PROVE  /\ IsJob(k) /\ k.op = j.op /\ k.pc = pc /\ k.keys = j.keys /\ k.arg = arg
         /\ k.copy = copy /\ k.phase = phase /\ k.alone = j.alone
  BY DEF Moved, IsJob

LEMMA JobOf ==
  ASSUME Typed, NEW h \in Handlers, Working(h)
  PROVE  OpenJob(jobs[h]) /\ IsJob(jobs[h])
  BY DEF Typed, OpenJob

\* The new record is named first: the provers find its fields then.
LEMMA ExceptIs ==
  ASSUME NEW j, IsJob(j), NEW pc, NEW copy, NEW phase, NEW arg
  PROVE  /\ [j EXCEPT !.pc = pc] = Moved(j, pc, j.arg, j.copy, j.phase)
         /\ [j EXCEPT !.pc = pc, !.copy = copy] = Moved(j, pc, j.arg, copy, j.phase)
         /\ [j EXCEPT !.pc = pc, !.arg = arg] = Moved(j, pc, arg, j.copy, j.phase)
         /\ [j EXCEPT !.pc = pc, !.arg = arg, !.copy = copy] = Moved(j, pc, arg, copy, j.phase)
         /\ [j EXCEPT !.pc = pc, !.phase = phase] = Moved(j, pc, j.arg, j.copy, phase)
         /\ [j EXCEPT !.pc = pc, !.phase = phase, !.arg = arg] = Moved(j, pc, arg, j.copy, phase)
         /\ [j EXCEPT !.arg = arg] = Moved(j, j.pc, arg, j.copy, j.phase)
<1>1. [j EXCEPT !.pc = pc] = Moved(j, pc, j.arg, j.copy, j.phase)
  <2>1. PICK k : k = [j EXCEPT !.pc = pc]
    OBVIOUS
  <2>2. k = Moved(j, pc, j.arg, j.copy, j.phase)
    BY <2>1 DEF IsJob, Moved
  <2> QED
    BY <2>1, <2>2
<1>2. [j EXCEPT !.pc = pc, !.copy = copy] = Moved(j, pc, j.arg, copy, j.phase)
  <2>1. PICK k : k = [j EXCEPT !.pc = pc, !.copy = copy]
    OBVIOUS
  <2>2. k = Moved(j, pc, j.arg, copy, j.phase)
    BY <2>1 DEF IsJob, Moved
  <2> QED
    BY <2>1, <2>2
<1>3. [j EXCEPT !.pc = pc, !.arg = arg] = Moved(j, pc, arg, j.copy, j.phase)
  <2>1. PICK k : k = [j EXCEPT !.pc = pc, !.arg = arg]
    OBVIOUS
  <2>2. k = Moved(j, pc, arg, j.copy, j.phase)
    BY <2>1 DEF IsJob, Moved
  <2> QED
    BY <2>1, <2>2
<1>4. [j EXCEPT !.pc = pc, !.arg = arg, !.copy = copy] = Moved(j, pc, arg, copy, j.phase)
  <2>1. PICK k : k = [j EXCEPT !.pc = pc, !.arg = arg, !.copy = copy]
    OBVIOUS
  <2>2. k = Moved(j, pc, arg, copy, j.phase)
    BY <2>1 DEF IsJob, Moved
  <2> QED
    BY <2>1, <2>2
<1>5. [j EXCEPT !.pc = pc, !.phase = phase] = Moved(j, pc, j.arg, j.copy, phase)
  <2>1. PICK k : k = [j EXCEPT !.pc = pc, !.phase = phase]
    OBVIOUS
  <2>2. k = Moved(j, pc, j.arg, j.copy, phase)
    BY <2>1 DEF IsJob, Moved
  <2> QED
    BY <2>1, <2>2
<1>6. [j EXCEPT !.pc = pc, !.phase = phase, !.arg = arg] = Moved(j, pc, arg, j.copy, phase)
  <2>1. PICK k : k = [j EXCEPT !.pc = pc, !.phase = phase, !.arg = arg]
    OBVIOUS
  <2>2. k = Moved(j, pc, arg, j.copy, phase)
    BY <2>1 DEF IsJob, Moved
  <2> QED
    BY <2>1, <2>2
<1>7. [j EXCEPT !.arg = arg] = Moved(j, j.pc, arg, j.copy, j.phase)
  <2>1. PICK k : k = [j EXCEPT !.arg = arg]
    OBVIOUS
  <2>2. k = Moved(j, j.pc, arg, j.copy, j.phase)
    BY <2>1 DEF IsJob, Moved
  <2> QED
    BY <2>1, <2>2
<1> QED
  BY <1>1, <1>2, <1>3, <1>4, <1>5, <1>6, <1>7

LEMMA Goes ==
  ASSUME Typed, NEW h \in Handlers, Working(h), NEW pc, NEW copy
  PROVE  /\ Go(h, pc) => Continue(h, Moved(jobs[h], pc, jobs[h].arg, jobs[h].copy, jobs[h].phase))
         /\ GoWith(h, pc, copy) => Continue(h, Moved(jobs[h], pc, jobs[h].arg, copy, jobs[h].phase))
<1>1. PICK j : j = jobs[h]
  OBVIOUS
<1>2. IsJob(j)
  BY <1>1, JobOf
<1>3. /\ [j EXCEPT !.pc = pc] = Moved(j, pc, j.arg, j.copy, j.phase)
      /\ [j EXCEPT !.pc = pc, !.copy = copy] = Moved(j, pc, j.arg, copy, j.phase)
  BY <1>2, ExceptIs
<1>4. Go(h, pc) => Continue(h, Moved(j, pc, j.arg, j.copy, j.phase))
  <2>1. Go(h, pc) => Continue(h, [j EXCEPT !.pc = pc])
    BY <1>1 DEF Go
  <2> QED
    BY <1>3, <2>1
<1>5. GoWith(h, pc, copy) => Continue(h, Moved(j, pc, j.arg, copy, j.phase))
  <2>1. GoWith(h, pc, copy) => Continue(h, [j EXCEPT !.pc = pc, !.copy = copy])
    BY <1>1 DEF GoWith
  <2> QED
    BY <1>3, <2>1
<1> QED
  BY <1>1, <1>4, <1>5

-----------------------------------------------------------------------------
(***************************************************************************)
(* The requests stay typed.                                                *)
(***************************************************************************)
Later == /\ mix' = mix /\ now <= now' /\ now' \in Nat /\ issued \subseteq issued'

\* The token that was just made for a login is given to nobody else.
TokensFree(j) == j.pc = "keep" => j.keys \cap (issued' \ issued) = {}

LEMMA OpenJobKept ==
  ASSUME Typed, Later, NEW j, OpenJob(j), TokensFree(j)
  PROVE  OpenJob(j)'
<1>1. SessionJob(j)'
  <2>1. j.pc = "keep" => \E t \in Tokens \ issued' : j.keys = {t}
    BY DEF OpenJob, SessionJob, TokensFree
  <2> QED
    BY <2>1 DEF OpenJob, SessionJob, Later
<1>2. AdminJob(j)'
  <2>1. KeysOf(j.arg.ref)' = KeysOf(j.arg.ref) /\ Lmdb' = Lmdb
    BY DEF KeysOf, SettingsKeys, Keys, Lmdb, Later
  <2>2. 0 .. now \subseteq 0 .. now'
    BY AccessAssumption DEF Typed, Later
  <2> QED
    BY <2>1, <2>2 DEF OpenJob, AdminJob
<1>3. OtherJob(j)'
  BY DEF OpenJob, OtherJob
<1> QED
  BY <1>1, <1>2, <1>3 DEF OpenJob

LEMMA NotAloneOpen ==
  ASSUME NEW j, OpenJob(j), NEW k, k = [j EXCEPT !.alone = FALSE]
  PROVE  /\ OpenJob(k) /\ k.keys = j.keys /\ k.pc = j.pc /\ k.op = j.op /\ k.arg = j.arg
         /\ k.copy = j.copy /\ k.phase = j.phase /\ k.alone = FALSE
<1>1. IsJob(j)
  BY DEF OpenJob
<1>2. k = [op |-> j.op, pc |-> j.pc, keys |-> j.keys, arg |-> j.arg, copy |-> j.copy,
           phase |-> j.phase, alone |-> FALSE]
  BY <1>1 DEF IsJob
<1>3. /\ k.op = j.op /\ k.pc = j.pc /\ k.keys = j.keys /\ k.arg = j.arg /\ k.copy = j.copy
      /\ k.phase = j.phase /\ k.alone = FALSE
  BY <1>2
<1>4. IsJob(k)
  BY <1>2, <1>3 DEF IsJob
<1>5. SessionJob(k) /\ AdminJob(k) /\ OtherJob(k)
  BY <1>3 DEF OpenJob, SessionJob, AdminJob, OtherJob
<1> QED
  BY <1>3, <1>4, <1>5 DEF OpenJob

JobsTyped ==
  /\ jobs = [h \in Handlers |-> jobs[h]]
  /\ \A h \in Handlers : Working(h) => OpenJob(jobs[h])

\* A step of h that leaves the tokens and the clock as they have to be.
LEMMA StepOf ==
  ASSUME Typed, Later, NEW h \in Handlers, OthersKept(h),
         Working(h)' => OpenJob(jobs[h])',
         \A g \in Handlers \ {h} : Working(g) => TokensFree(jobs[g])
  PROVE  JobsTyped'
<1>1. ASSUME NEW g \in Handlers \ {h}, Working(g)' PROVE OpenJob(jobs[g])'
  <2>1. CASE jobs'[g] = jobs[g]
    <3>1. Working(g)
      BY <1>1, <2>1 DEF Working
    <3>2. PICK j : j = jobs[g]
      OBVIOUS
    <3>3. OpenJob(j)'
      BY <3>1, <3>2, OpenJobKept, JobOf
    <3> QED
      BY <2>1, <3>2, <3>3
  <2>2. CASE Working(g) /\ jobs'[g] = [jobs[g] EXCEPT !.alone = FALSE]
    <3>1. PICK j, k : j = jobs[g] /\ k = [j EXCEPT !.alone = FALSE]
      OBVIOUS
    <3>2. OpenJob(k) /\ k.keys = j.keys /\ k.pc = j.pc
      BY <2>2, <3>1, NotAloneOpen, JobOf
    <3>3. TokensFree(k)
      BY <2>2, <3>1, <3>2 DEF TokensFree
    <3>4. OpenJob(k)'
      BY <3>2, <3>3, OpenJobKept
    <3> QED
      BY <2>2, <3>1, <3>4
  <2> QED
    BY <2>1, <2>2 DEF OthersKept, SameJob
<1> QED
  BY <1>1 DEF OthersKept, JobsTyped

\* What Continue and Begin give when no token is issued.
LEMMA StayTyped ==
  ASSUME Typed, NEW h \in Handlers, UNCHANGED issued
  PROVE  /\ \A j : Continue(h, j) /\ (j = Idle \/ OpenJob(j)) => JobsTyped'
         /\ \A op, pc, keys, arg :
              Begin(h, op, pc, keys, arg) /\ OpenJob(NewJob(h, op, pc, keys, arg)) => JobsTyped'
<1>1. ASSUME UNCHANGED <<now, mix>> PROVE Later
  BY <1>1, AccessAssumption DEF Later, Typed
<1>2. \A g \in Handlers : TokensFree(jobs[g])
  BY DEF TokensFree
<1>3. ASSUME NEW j, UNCHANGED <<now, mix>>, OpenJob(j) PROVE OpenJob(j)'
  BY <1>1, <1>3, OpenJobKept DEF TokensFree
<1>4. ASSUME NEW j, Continue(h, j), j = Idle \/ OpenJob(j) PROVE JobsTyped'
  <2>1. OthersKept(h) /\ jobs'[h] = j /\ UNCHANGED <<now, mix>>
    BY <1>4, Continues
  <2>2. Working(h)' => OpenJob(jobs[h])'
    BY <1>3, <1>4, <2>1 DEF Working, Idle
  <2> QED
    BY <1>1, <1>2, <2>1, <2>2, StepOf
<1>5. ASSUME NEW op, NEW pc, NEW keys, NEW arg, Begin(h, op, pc, keys, arg),
             OpenJob(NewJob(h, op, pc, keys, arg))
      PROVE  JobsTyped'
  <2>1. PICK j : j = NewJob(h, op, pc, keys, arg)
    OBVIOUS
  <2>2. OthersKept(h) /\ jobs'[h] = j /\ UNCHANGED <<now, mix>>
    BY <1>5, <2>1, Begins
  <2>3. OpenJob(j)'
    BY <1>3, <1>5, <2>1, <2>2
  <2> QED
    BY <1>1, <1>2, <2>2, <2>3, StepOf
<1> QED
  BY <1>4, <1>5

-----------------------------------------------------------------------------
(***************************************************************************)
(* Steps that are beside what is proved here: roles, settings, devices,    *)
(* groups and logins change neither a session nor the state of a person.   *)
(***************************************************************************)
Beside(j) == j.pc \notin TokenPcs \cup {"keep"} \cup StatePcs

FreePcs ==
  {"invalid", "putRole", "roles", "putAssignment", "judge", "granted",
   "readKey", "writeKey", "runtime", "settings", "config", "identity", "persist", "compare",
   "register", "unregister", "list", "token", "send", "stale", "refused", "item"}

Aside(h) ==
  \/ \E j : /\ Continue(h, j)
            /\ j = Idle \/ (/\ Working(h) /\ OpenJob(j) /\ Beside(j)
                            /\ j.keys = jobs[h].keys /\ j.alone = jobs[h].alone)
  \/ \E op, pc, keys, arg :
       /\ Begin(h, op, pc, keys, arg)
       /\ OpenJob(NewJob(h, op, pc, keys, arg)) /\ Beside(NewJob(h, op, pc, keys, arg))

LEMMA FreeOpen ==
  ASSUME NEW j, IsJob(j), j.alone \in BOOLEAN, j.pc \in FreePcs
  PROVE  OpenJob(j) /\ Beside(j)
<1>1. /\ j.pc \notin TokenPcs \cup {"create", "keep"} \cup StatePcs \cup GroupWaits
      /\ j.pc \notin {"find", "decide", "lock", "promoteParent"}
  BY DEF FreePcs, TokenPcs, LoadPcs, RecordPcs, ProfilePcs, StatePcs, AdminWaits, GroupWaits
<1>2. SessionJob(j)
  <2>1. /\ j.pc \notin TokenPcs /\ j.pc \notin ProfilePcs /\ j.pc \notin LoadPcs
        /\ j.pc \notin RecordPcs \cup {"keep"} /\ j.pc \notin {"create", "serve", "keep"}
        /\ j.pc \notin {"migratePrefs", "putPrefs"}
    BY <1>1 DEF TokenPcs, ProfilePcs
  <2> QED
    BY <2>1 DEF SessionJob
<1>3. AdminJob(j)
  BY <1>1 DEF AdminJob, HeldPcs, StatePcs, AdminWaits
<1>4. OtherJob(j)
  BY <1>1 DEF OtherJob
<1> QED
  BY <1>1, <1>2, <1>3, <1>4 DEF OpenJob, Beside

LEMMA AsideEnds ==
  ASSUME NEW h \in Handlers, Finish(h)
  PROVE  Aside(h)
  BY DEF Aside, Finish

LEMMA AsideGoes ==
  ASSUME Typed, NEW h \in Handlers, Working(h), NEW pc \in FreePcs
  PROVE  /\ Go(h, pc) => Aside(h)
         /\ \A copy : GoWith(h, pc, copy) => Aside(h)
         /\ \A arg, copy, phase : Continue(h, Moved(jobs[h], pc, arg, copy, phase)) => Aside(h)
<1>1. ASSUME NEW arg, NEW copy, NEW phase, Continue(h, Moved(jobs[h], pc, arg, copy, phase))
      PROVE  Aside(h)
  <2>1. PICK k : k = Moved(jobs[h], pc, arg, copy, phase)
    OBVIOUS
  <2>2. IsJob(k) /\ k.pc = pc /\ k.keys = jobs[h].keys /\ k.alone = jobs[h].alone
    BY <2>1, MovedIs
  <2>3. k.alone \in BOOLEAN
    BY <2>2, JobOf DEF OpenJob
  <2>4. OpenJob(k) /\ Beside(k)
    BY <2>2, <2>3, FreeOpen
  <2> QED
    BY <1>1, <2>1, <2>2, <2>4 DEF Aside
<1>2. /\ Go(h, pc) => Aside(h)
      /\ \A copy : GoWith(h, pc, copy) => Aside(h)
  BY <1>1, Goes
<1> QED
  BY <1>1, <1>2

LEMMA NewJobIs ==
  ASSUME NEW h, NEW op, NEW pc, NEW keys, NEW arg, NEW k, k = NewJob(h, op, pc, keys, arg)
  PROVE  /\ IsJob(k) /\ k.op = op /\ k.pc = pc /\ k.keys = keys /\ k.arg = arg
         /\ k.copy = None /\ k.phase = "get" /\ k.alone \in BOOLEAN
         /\ k.alone => \A f \in Handlers : ~On(f, keys)
<1>1. PICK alone : alone = (\A f \in Handlers : ~On(f, keys)) /\ alone \in BOOLEAN
  OBVIOUS
<1>2. k = [op |-> op, pc |-> pc, keys |-> keys, arg |-> arg, copy |-> None, phase |-> "get",
           alone |-> alone]
  BY <1>1, Zenon DEF NewJob
<1> QED
  BY <1>1, <1>2 DEF IsJob

LEMMA AsideBegins ==
  ASSUME NEW h \in Handlers, NEW op, NEW pc \in FreePcs, NEW keys, NEW arg,
         Begin(h, op, pc, keys, arg)
  PROVE  Aside(h)
<1>1. PICK k : k = NewJob(h, op, pc, keys, arg)
  OBVIOUS
<1>2. IsJob(k) /\ k.alone \in BOOLEAN /\ k.pc \in FreePcs
  BY <1>1, NewJobIs
<1>3. OpenJob(k) /\ Beside(k)
  BY <1>2, FreeOpen
<1> QED
  BY <1>1, <1>3 DEF Aside

LEMMA RolesAside ==
  ASSUME Typed, NEW h \in Handlers
  PROVE  /\ RoleStep(h) => Aside(h)
         /\ \A id, caps : AskRole(h, id, caps) => Aside(h)
         /\ \A role, ref, id : AskAssignment(h, role, ref, id) => Aside(h)
<1>1. ASSUME RoleStep(h) PROVE Aside(h)
  <2>1. {"putAssignment", "judge", "granted"} \subseteq FreePcs
    BY DEF FreePcs
  <2>2. ASSUME Invalid(h) \/ PutRole(h) \/ PutAssignment(h) \/ Act(h) PROVE Aside(h)
    BY <2>2, AsideEnds DEF Invalid, PutRole, PutAssignment, Act
  <2>3. ASSUME CheckRole(h) PROVE Aside(h)
    BY <2>1, <2>3, AsideEnds, AsideGoes DEF CheckRole, At
  <2>4. ASSUME Authorize(h) PROVE Aside(h)
    BY <2>1, <2>4, AsideGoes DEF Authorize, At
  <2>5. ASSUME Judge(h) PROVE Aside(h)
    BY <2>1, <2>5, AsideEnds, AsideGoes DEF Judge, At
  <2> QED
    BY <1>1, <2>2, <2>3, <2>4, <2>5 DEF RoleStep
<1>2. ASSUME NEW id, NEW caps, AskRole(h, id, caps) PROVE Aside(h)
  <2>1. PICK pc, keys, arg : pc \in {"putRole", "invalid"} /\ Begin(h, "putRole", pc, keys, arg)
    BY <1>2 DEF AskRole, BeginRole
  <2>2. pc \in FreePcs
    BY <2>1 DEF FreePcs
  <2> QED
    BY <2>1, <2>2, AsideBegins
<1>3. ASSUME NEW role, NEW ref, NEW id, AskAssignment(h, role, ref, id) PROVE Aside(h)
  <2>1. PICK keys, arg : Begin(h, "assignRole", "roles", keys, arg)
    BY <1>3 DEF AskAssignment, BeginRole
  <2>2. "roles" \in FreePcs
    BY DEF FreePcs
  <2> QED
    BY <2>1, <2>2, AsideBegins
<1> QED
  BY <1>1, <1>2, <1>3

LEMMA PushAside ==
  ASSUME Typed, NEW h \in Handlers, PushStep(h)
  PROVE  Aside(h)
<1>1. {"register", "unregister", "list", "token", "send", "stale"} \subseteq FreePcs
  BY DEF FreePcs
<1>2. ASSUME NEW op \in {"register", "unregister"}, NEW p \in People, NEW d \in Devices,
             AskPush(h, op, p, d)
      PROVE  Aside(h)
  BY <1>1, <1>2, AsideBegins DEF AskPush
<1>3. ASSUME Register(h) \/ Unregister(h) PROVE Aside(h)
  BY <1>3, AsideEnds DEF Register, Unregister
<1>4. ASSUME NEW p \in People, AskSend(h, p) PROVE Aside(h)
  BY <1>1, <1>4, AsideBegins DEF AskSend
<1>5. ASSUME ListDevices(h) PROVE Aside(h)
  BY <1>1, <1>5, AsideEnds, AsideGoes DEF ListDevices, At
<1>6. ASSUME AccessToken(h) PROVE Aside(h)
  BY <1>1, <1>6, AsideEnds, AsideGoes DEF AccessToken, At
<1>7. ASSUME SendOne(h) PROVE Aside(h)
  BY <1>1, <1>7, AsideEnds, AsideGoes DEF SendOne, At
<1>8. ASSUME DropStale(h) PROVE Aside(h)
  BY <1>1, <1>8, AsideGoes DEF DropStale, At
<1> QED
  BY <1>2, <1>3, <1>4, <1>5, <1>6, <1>7, <1>8 DEF PushStep

\* What a request beside the proofs has to hold.
LEMMA BesideOpen ==
  ASSUME NEW j, IsJob(j), j.alone \in BOOLEAN, Beside(j), OtherJob(j),
         j.pc = "create" => j.copy \in Principals,
         j.pc = "find" => j.arg.code \in AccessCodes \cup {None},
         j.pc = "decide" => j.copy \subseteq Parties /\ j.arg.code \in AccessCodes
  PROVE  OpenJob(j)
<1>1. /\ j.pc \notin TokenPcs /\ j.pc \notin ProfilePcs /\ j.pc \notin LoadPcs
      /\ j.pc \notin RecordPcs \cup {"keep"} /\ j.pc \notin {"serve", "keep"}
      /\ j.pc \notin {"migratePrefs", "putPrefs"}
  BY DEF Beside, TokenPcs, ProfilePcs
<1>2. SessionJob(j)
  BY <1>1 DEF SessionJob
<1>3. /\ j.pc \notin StatePcs /\ j.pc \notin HeldPcs
      /\ j.pc \notin {"write", "sync", "deleteRows"}
  BY DEF Beside, StatePcs, HeldPcs, AdminWaits
<1>4. AdminJob(j)
  BY <1>3 DEF AdminJob
<1> QED
  BY <1>2, <1>4 DEF OpenJob

LEMMA AsideMoves ==
  ASSUME Typed, NEW h \in Handlers, Working(h), NEW pc, NEW arg, NEW copy, NEW phase,
         Continue(h, Moved(jobs[h], pc, arg, copy, phase)),
         pc \notin TokenPcs \cup {"keep"} \cup StatePcs,
         pc = "create" => copy \in Principals,
         pc = "find" => arg.code \in AccessCodes \cup {None},
         pc = "decide" => copy \subseteq Parties /\ arg.code \in AccessCodes,
         pc = "lock" => arg.name \in STRING,
         pc \in GroupWaits => arg.name \in Groups,
         pc = "promoteParent" => arg.parent \in Groups
  PROVE  Aside(h)
<1>1. PICK k : k = Moved(jobs[h], pc, arg, copy, phase)
  OBVIOUS
<1>2. /\ IsJob(k) /\ k.pc = pc /\ k.keys = jobs[h].keys /\ k.alone = jobs[h].alone
      /\ k.arg = arg /\ k.copy = copy
  BY <1>1, MovedIs
<1>3. k.alone \in BOOLEAN
  BY <1>2, JobOf DEF OpenJob
<1>4. OtherJob(k) /\ Beside(k)
  BY <1>2 DEF OtherJob, Beside
<1>5. OpenJob(k)
  BY <1>2, <1>3, <1>4, BesideOpen
<1> QED
  BY <1>1, <1>2, <1>4, <1>5 DEF Aside

LEMMA AsideNew ==
  ASSUME NEW h \in Handlers, NEW op, NEW pc, NEW keys, NEW arg,
         Begin(h, op, pc, keys, arg),
         pc \notin TokenPcs \cup {"create", "decide", "keep"} \cup StatePcs,
         pc = "find" => arg.code \in AccessCodes \cup {None},
         pc = "lock" => arg.name \in STRING,
         pc \in GroupWaits => arg.name \in Groups,
         pc # "promoteParent"
  PROVE  Aside(h)
<1>1. PICK k : k = NewJob(h, op, pc, keys, arg)
  OBVIOUS
<1>2. IsJob(k) /\ k.alone \in BOOLEAN /\ k.pc = pc /\ k.arg = arg
  BY <1>1, NewJobIs
<1>3. OtherJob(k) /\ Beside(k)
  BY <1>2 DEF OtherJob, Beside
<1>4. OpenJob(k)
  BY <1>2, <1>3, BesideOpen
<1> QED
  BY <1>1, <1>3, <1>4 DEF Aside

-----------------------------------------------------------------------------
LEMMA GroupsAside ==
  ASSUME Typed, NEW h \in Handlers, GroupStep(h)
  PROVE  Aside(h) /\ isGroup' \subseteq Groups
<1> USE DEF GroupWaits
<1>0. /\ GroupWaits \cap (TokenPcs \cup {"create", "decide", "keep"} \cup StatePcs) = {}
      /\ {"refused", "item"} \subseteq FreePcs
  BY DEF TokenPcs, LoadPcs, RecordPcs, ProfilePcs, StatePcs, AdminWaits, FreePcs
<1>1. isGroup \subseteq Groups
  BY DEF Typed
<1>2. ASSUME Working(h), jobs[h].pc \in GroupWaits
      PROVE  /\ jobs[h].arg.name \in Groups
             /\ jobs[h].pc = "promoteParent" => jobs[h].arg.parent \in Groups
  BY <1>2, JobOf DEF OpenJob, OtherJob
<1>3. ASSUME Working(h), jobs[h].pc \in GroupWaits, NEW pc \in GroupWaits, Go(h, pc),
             pc = "promoteParent" => jobs[h].arg.parent \in Groups
      PROVE  Aside(h)
  BY <1>0, <1>2, <1>3, Goes, AsideMoves
<1>4. ASSUME NEW g \in Groups, NEW p, NEW mark, AskCreateGroup(h, g, p, mark)
      PROVE  Aside(h) /\ isGroup' \subseteq Groups
  <2>1. PICK arg : arg = [name |-> g, parent |-> p, mark |-> mark]
    OBVIOUS
  <2>2. arg.name \in Groups
    BY <2>1
  <2> QED
    BY <1>0, <1>1, <1>4, <2>1, <2>2, AsideNew DEF AskCreateGroup, groupVars
<1>5. ASSUME NEW g \in Groups, NEW p, AskMoveGroup(h, g, p)
      PROVE  Aside(h) /\ isGroup' \subseteq Groups
  <2>1. PICK arg : arg = [name |-> g, parent |-> p]
    OBVIOUS
  <2>2. arg.name \in Groups
    BY <2>1
  <2>3. \/ Begin(h, "moveGroup", "refused", {"groups"}, arg)
        \/ Begin(h, "moveGroup", "row", {"groups"}, arg)
    BY <1>5, <2>1 DEF AskMoveGroup
  <2> QED
    BY <1>0, <1>1, <1>5, <2>2, <2>3, AsideNew, AsideBegins DEF AskMoveGroup, groupVars
<1>6. ASSUME NEW items, NEW g, AskMoveItems(h, items, g)
      PROVE  Aside(h) /\ isGroup' \subseteq Groups
  <2>1. PICK pc, arg : pc \in {"refused", "item"} /\ Begin(h, "moveItems", pc, {"groups"}, arg)
    BY <1>6 DEF AskMoveItems
  <2> QED
    BY <1>0, <1>1, <1>6, <2>1, AsideBegins DEF AskMoveItems, groupVars
<1>7. ASSUME Refused(h) \/ GroupFails(h) PROVE Aside(h) /\ isGroup' \subseteq Groups
  BY <1>1, <1>7, AsideEnds DEF Refused, GroupFails, groupVars
<1>8. ASSUME ReadRow(h) PROVE Aside(h) /\ isGroup' \subseteq Groups
  BY <1>1, <1>3, <1>8, AsideEnds DEF ReadRow, At, groupVars
<1>9. ASSUME Promote(h) PROVE Aside(h) /\ isGroup' \subseteq Groups
  BY <1>1, <1>2, <1>3, <1>9 DEF Promote, At
<1>10. ASSUME ReadParent(h) PROVE Aside(h) /\ isGroup' \subseteq Groups
  <2>1. jobs[h].arg.parent \in Nodes \ {Root} => jobs[h].arg.parent \in Groups
    BY DEF Nodes
  <2> QED
    BY <1>1, <1>3, <1>10, <2>1, AsideEnds DEF ReadParent, At, groupVars
<1>11. ASSUME PromoteParent(h) PROVE Aside(h) /\ isGroup' \subseteq Groups
  BY <1>1, <1>2, <1>3, <1>11 DEF PromoteParent, At
<1>12. ASSUME Place(h) PROVE Aside(h) /\ isGroup' \subseteq Groups
  BY <1>1, <1>2, <1>12, AsideEnds DEF Place, At, groupVars
<1>13. ASSUME MoveItem(h) PROVE Aside(h) /\ isGroup' \subseteq Groups
  <2>1. CASE Finish(h)
    BY <1>1, <1>13, <2>1, AsideEnds DEF MoveItem
  <2>2. CASE ~Finish(h)
    <3>1. /\ Working(h) /\ jobs[h].pc = "item" /\ UNCHANGED isGroup
          /\ \E arg : Continue(h, [jobs[h] EXCEPT !.arg = arg])
      BY <1>13, <2>2 DEF MoveItem, At
    <3>2. PICK j, arg : j = jobs[h] /\ Continue(h, [j EXCEPT !.arg = arg])
      BY <3>1
    <3>3. IsJob(j)
      BY <3>1, <3>2, JobOf
    <3>4. [j EXCEPT !.arg = arg] = Moved(j, j.pc, arg, j.copy, j.phase) /\ j.pc = "item"
      BY <3>1, <3>2, <3>3, ExceptIs
    <3> QED
      BY <1>0, <1>1, <3>1, <3>2, <3>4, AsideGoes
  <2> QED
    BY <2>1, <2>2
<1> QED
  BY <1>4, <1>5, <1>6, <1>7, <1>8, <1>9, <1>10, <1>11, <1>12, <1>13 DEF GroupStep

-----------------------------------------------------------------------------
LEMMA ArgExcept ==
  ASSUME NEW j, IsJob(j), NEW pc, NEW v
  PROVE  [j EXCEPT !.pc = pc, !.arg.key = v]
           = Moved(j, pc, [j.arg EXCEPT !.key = v], j.copy, j.phase)
<1>1. PICK k : k = [j EXCEPT !.pc = pc, !.arg.key = v]
  OBVIOUS
<1>2. k = Moved(j, pc, [j.arg EXCEPT !.key = v], j.copy, j.phase)
  BY <1>1 DEF IsJob, Moved
<1> QED
  BY <1>1, <1>2

LEMMA EnvKept ==
  ASSUME SettingsTyped
  PROVE  /\ \A c : Upsert(Persisted(c)) => "MOBILE_DEV_WERKA_NAME" \notin DOMAIN env'
         /\ \A v : Upsert(Only("MOBILE_DEV_WERKA_CODE", v)) =>
                     "MOBILE_DEV_WERKA_NAME" \notin DOMAIN env'
<1>1. ASSUME NEW c, Upsert(Persisted(c)) PROVE "MOBILE_DEV_WERKA_NAME" \notin DOMAIN env'
  <2>1. DOMAIN Persisted(c) = {"WERKA_NAME", "MOBILE_DEV_WERKA_CODE"}
    BY DEF Persisted, Over, Only
  <2> HIDE DEF Persisted
  <2>2. DOMAIN env' = DOMAIN Persisted(c) \cup DOMAIN env
    BY <1>1 DEF Upsert, Over
  <2> QED
    BY <2>1, <2>2 DEF SettingsTyped
<1>2. ASSUME NEW v, Upsert(Only("MOBILE_DEV_WERKA_CODE", v))
      PROVE  "MOBILE_DEV_WERKA_NAME" \notin DOMAIN env'
  BY <1>2 DEF Upsert, Over, Only, SettingsTyped
<1> QED
  BY <1>1, <1>2

LEMMA IdentityTyped ==
  ASSUME NEW c, c.name \in STRING, NEW i, i = Identity(c)
  PROVE  i = [name |-> i.name, code |-> i.code] /\ i.name \in STRING
<1>1. PICK name : name = IF c.name = "" THEN "Werka" ELSE c.name
  OBVIOUS
<1>2. name \in STRING
  <2>1. "Werka" \in STRING
    BY WordsAssumption
  <2>2. CASE c.name = ""
    BY <1>1, <2>1, <2>2
  <2>3. CASE c.name # ""
    BY <1>1, <2>3
  <2> QED
    BY <2>2, <2>3
<1>3. i = [name |-> name, code |-> c.code]
  BY <1>1 DEF Identity
<1>4. i.name = name /\ i.code = c.code
  BY <1>3
<1> QED
  BY <1>2, <1>3, <1>4

LEMMA UpdateAside ==
  ASSUME Typed, NEW h \in Handlers, UpdateStep(h)
  PROVE  Aside(h) /\ SettingsTyped'
<1>1. SettingsTyped
  BY DEF Typed
<1>2. /\ {"readKey", "writeKey", "runtime", "settings"} \subseteq FreePcs
      /\ "lock" \notin TokenPcs \cup {"create", "decide", "keep"} \cup StatePcs
      /\ "lock" \notin GroupWaits
  BY DEF FreePcs, TokenPcs, LoadPcs, RecordPcs, ProfilePcs, StatePcs, AdminWaits, GroupWaits
<1>3. ASSUME NEW name \in Names, NEW key, AskUpdate(h, name, key) PROVE Aside(h) /\ SettingsTyped'
  <2>1. PICK arg : arg = [name |-> name, key |-> key, code |-> config.code]
    OBVIOUS
  <2>2. arg.name \in STRING
    BY <2>1, SettingsAssumption
  <2>3. Begin(h, "updateSettings", "lock", SettingsKeys, arg)
    BY <1>3, <2>1 DEF AskUpdate
  <2>4. Aside(h)
    BY <1>2, <2>2, <2>3, AsideNew
  <2> QED
    BY <1>1, <1>3, <2>4 DEF AskUpdate, SettingsTyped
<1>4. ASSUME Update(h) PROVE Aside(h) /\ SettingsTyped'
  <2>1. Working(h) /\ jobs[h].pc = "lock"
    BY <1>4 DEF Update, At
  <2>2. jobs[h].arg.name \in STRING
    BY <2>1, JobOf DEF OpenJob, OtherJob
  <2>3. PICK pc \in FreePcs : Go(h, pc)
    BY <1>2, <1>4 DEF Update
  <2>4. Aside(h)
    BY <2>1, <2>3, AsideGoes
  <2>5. PICK c, name, code, key : /\ c = config /\ name = jobs[h].arg.name /\ name \in STRING
                                  /\ config' = [c EXCEPT !.name = name, !.code = code, !.key = key]
    BY <1>4, <2>2 DEF Update
  <2>6. config' = [name |-> name, code |-> code, key |-> key]
    BY <1>1, <2>5 DEF SettingsTyped
  <2>7. configLock' = h /\ UNCHANGED <<identity, env>>
    BY <1>4 DEF Update
  <2> QED
    BY <1>1, <2>4, <2>5, <2>6, <2>7 DEF SettingsTyped
<1>5. ASSUME ReadCredentials(h) PROVE Aside(h) /\ SettingsTyped'
  <2>1. Working(h)
    BY <1>5 DEF ReadCredentials, At
  <2>2. PICK j : j = jobs[h]
    OBVIOUS
  <2>3. Continue(h, [j EXCEPT !.pc = "writeKey", !.arg.key = credentials])
    BY <1>5, <2>2 DEF ReadCredentials
  <2>4. IsJob(j)
    BY <2>1, <2>2, JobOf
  <2>5. PICK v : v = credentials
    OBVIOUS
  <2>6. [j EXCEPT !.pc = "writeKey", !.arg.key = v]
          = Moved(j, "writeKey", [j.arg EXCEPT !.key = v], j.copy, j.phase)
    BY <2>4, ArgExcept
  <2>7. Aside(h)
    BY <1>2, <2>1, <2>2, <2>3, <2>5, <2>6, AsideGoes
  <2> QED
    BY <1>1, <1>5, <2>7 DEF ReadCredentials, settingsVars, SettingsTyped
<1>6. ASSUME WriteCredentials(h) PROVE Aside(h) /\ SettingsTyped'
  <2>1. Working(h) /\ Go(h, "runtime")
    BY <1>6 DEF WriteCredentials, At
  <2>2. Aside(h)
    BY <1>2, <2>1, AsideGoes
  <2>3. PICK c, key : c = config /\ config' = [c EXCEPT !.key = key]
    BY <1>6 DEF WriteCredentials
  <2>4. config' = [name |-> c.name, code |-> c.code, key |-> key]
    BY <1>1, <2>3 DEF SettingsTyped
  <2>5. UNCHANGED <<configLock, identity, env>>
    BY <1>6 DEF WriteCredentials
  <2> QED
    BY <1>1, <2>2, <2>3, <2>4, <2>5 DEF SettingsTyped
<1>7. ASSUME CredentialsFail(h) PROVE Aside(h) /\ SettingsTyped'
  BY <1>1, <1>7, AsideEnds DEF CredentialsFail, Unlock, SettingsTyped
<1>8. ASSUME Runtime(h) PROVE Aside(h) /\ SettingsTyped'
  <2>1. Working(h) /\ (Go(h, "settings") \/ Finish(h))
    BY <1>8 DEF Runtime, At
  <2>2. Aside(h)
    BY <1>2, <2>1, AsideGoes, AsideEnds
  <2>3. identity' = Identity(config) /\ configLock' = None /\ UNCHANGED config
    BY <1>8 DEF Runtime, SetRuntimeIdentity
  <2>4. identity' = [name |-> identity'.name, code |-> identity'.code] /\ identity'.name \in STRING
    BY <1>1, <2>3, IdentityTyped DEF SettingsTyped
  <2>5. "MOBILE_DEV_WERKA_NAME" \notin DOMAIN env'
    BY <1>1, <1>8, EnvKept DEF Runtime, SettingsTyped
  <2> QED
    BY <1>1, <2>2, <2>3, <2>4, <2>5 DEF SettingsTyped
<1>9. ASSUME ReadSettings(h) PROVE Aside(h) /\ SettingsTyped'
  BY <1>1, <1>9, AsideEnds DEF ReadSettings, SettingsTyped
<1> QED
  BY <1>3, <1>4, <1>5, <1>6, <1>7, <1>8, <1>9 DEF UpdateStep

-----------------------------------------------------------------------------
(***************************************************************************)
(* States, and the logins that read them.                                  *)
(***************************************************************************)
LEMMA NoStateTyped ==
  NoState \in StateRecords
<1>1. None \in AccessCodes \cup {None} /\ None \in Nat \cup {None} /\ {} \in SUBSET Items
  OBVIOUS
<1> QED
  BY <1>1 DEF NoState, StateRecords

LEMMA StateTyped ==
  ASSUME AdminTyped, NEW r \in Refs
  PROVE  Migrated[r] \in StateRecords \cup {None} /\ StateFor(r) \in StateRecords
<1>1. states[r] \in StateRecords \cup {None} /\ oldStates[r] \in StateRecords \cup {None}
  BY DEF AdminTyped
<1>2. Migrated[r] \in StateRecords \cup {None}
  BY <1>1 DEF Migrated
<1>3. StateFor(r) \in StateRecords
  BY <1>2, NoStateTyped DEF StateFor
<1> QED
  BY <1>2, <1>3

LEMMA CodeTyped ==
  ASSUME AdminTyped, NEW r \in Parties
  PROVE  /\ StateFor(r).code \in AccessCodes \cup {None}
         /\ SupplierCode(r, StateFor(r)) \in AccessCodes
<1>1. r \in Refs /\ r \in STRING
  BY AdminStatesAssumption DEF Refs, Parties
<1>2. PICK s : s = StateFor(r)
  OBVIOUS
<1>3. s \in StateRecords
  BY <1>1, <1>2, StateTyped
<1>4. s.code \in AccessCodes \cup {None}
  BY <1>3 DEF StateRecords
<1>5. [prefix |-> "10", n |-> r] \in AccessCodes
  BY <1>1 DEF AccessCodes
<1>6. SupplierCode(r, s) \in AccessCodes
  BY <1>4, <1>5 DEF SupplierCode
<1> QED
  BY <1>2, <1>4, <1>6

LEMMA LoginPcs ==
  /\ {"find", "decide", "create"} \cap (TokenPcs \cup {"keep"} \cup StatePcs) = {}
  /\ {"find", "decide", "create"} \cap (GroupWaits \cup {"lock", "promoteParent"}) = {}
  BY DEF TokenPcs, LoadPcs, RecordPcs, ProfilePcs, StatePcs, AdminWaits, GroupWaits

LEMMA LoginsAside ==
  ASSUME Typed, NEW h \in Handlers
  PROVE  /\ \A r \in Parties : AskLogin(h, r) => Aside(h)
         /\ SearchParties(h) => Aside(h)
         /\ DecideLogin(h) => Aside(h)
         /\ AdminFails(h) => Aside(h)
<1>1. AdminTyped
  BY DEF Typed
<1>2. ASSUME NEW r \in Parties, AskLogin(h, r) PROVE Aside(h)
  <2>1. PICK code, arg :
          /\ code = IF r \in Suppliers THEN SupplierCode(r, StateFor(r)) ELSE StateFor(r).code
          /\ arg = [ref |-> r, phone |-> PhoneOf(r), code |-> code]
    OBVIOUS
  <2>2. code \in AccessCodes \cup {None}
    BY <1>1, <2>1, CodeTyped
  <2>3. arg.code \in AccessCodes \cup {None}
    BY <2>1, <2>2
  <2>4. Begin(h, "login", "find", {h}, arg)
    BY <1>2, <2>1 DEF AskLogin
  <2> QED
    BY <2>3, <2>4, LoginPcs, AsideNew
<1>3. ASSUME SearchParties(h) PROVE Aside(h)
  <2>1. Working(h) /\ jobs[h].pc = "find"
    BY <1>3 DEF SearchParties, At
  <2>2. jobs[h].arg.code \in AccessCodes \cup {None}
    BY <2>1, JobOf DEF OpenJob, AdminJob
  <2>3. CASE jobs[h].arg.code = None
    BY <1>3, <2>3, AsideEnds DEF SearchParties
  <2>4. CASE jobs[h].arg.code # None
    <3>1. PICK kind, copy :
            /\ kind \subseteq Parties /\ GoWith(h, "decide", copy)
            /\ copy = {r \in kind : parties[r] # None /\ PhoneOf(r) = jobs[h].arg.phone}
      BY <1>3, <2>4 DEF SearchParties, Parties
    <3>2. copy \subseteq Parties /\ jobs[h].arg.code \in AccessCodes
      BY <2>2, <2>4, <3>1
    <3>3. Continue(h, Moved(jobs[h], "decide", jobs[h].arg, copy, jobs[h].phase))
      BY <2>1, <3>1, Goes
    <3>4. /\ "decide" \notin TokenPcs \cup {"keep"} \cup StatePcs
          /\ "decide" \notin GroupWaits \cup {"lock", "promoteParent", "create", "find"}
      BY LoginPcs
    <3> QED
      BY <2>1, <3>2, <3>3, <3>4, AsideMoves
  <2> QED
    BY <2>3, <2>4
<1>4. ASSUME DecideLogin(h) PROVE Aside(h)
  <2>1. Working(h) /\ jobs[h].pc = "decide"
    BY <1>4 DEF DecideLogin, At
  <2>2. jobs[h].copy \subseteq Parties /\ jobs[h].arg.code \in AccessCodes
    BY <2>1, JobOf DEF OpenJob, AdminJob
  <2>3. CASE Finish(h)
    BY <2>3, AsideEnds
  <2>4. CASE ~Finish(h)
    <3>1. PICK r, copy :
            /\ r \in Parties /\ GoWith(h, "create", copy)
            /\ copy = [role |-> RoleOfCode(jobs[h].arg.code), ref |-> r, name |-> r, avatar |-> ""]
      BY <1>4, <2>2, <2>4 DEF DecideLogin
    <3>2. r \in STRING /\ "" \in STRING
      BY <3>1, AdminStatesAssumption, WordsAssumption DEF Parties
    <3>3. jobs[h].arg.code.prefix \in {"10", "20", "30", "40"}
      BY <2>2 DEF AccessCodes
    <3>4. RoleOfCode(jobs[h].arg.code) \in DOMAIN StoredRole
      BY <3>3 DEF RoleOfCode, StoredRole
    <3>5. copy \in Principals
      BY <3>1, <3>2, <3>4 DEF Principals, PrincipalsOf
    <3>6. Continue(h, Moved(jobs[h], "create", jobs[h].arg, copy, jobs[h].phase))
      BY <2>1, <3>1, Goes
    <3> QED
      BY <2>1, <3>5, <3>6, LoginPcs, AsideMoves
  <2> QED
    BY <2>3, <2>4
<1>5. ASSUME AdminFails(h) PROVE Aside(h)
  BY <1>5, AsideEnds DEF AdminFails, Fails
<1> QED
  BY <1>2, <1>3, <1>4, <1>5

\* The steps about the warehouse keeper that leave the states alone.
KeeperStep(h) ==
  WerkaConfig(h) \/ WerkaIdentity(h) \/ WerkaPersist(h) \/ LoginWerka(h) \/ CompareWerka(h)

LEMMA KeeperAside ==
  ASSUME Typed, NEW h \in Handlers, KeeperStep(h)
  PROVE  Aside(h) /\ SettingsTyped' /\ UNCHANGED adminVars
<1>1. SettingsTyped
  BY DEF Typed
<1>2. {"identity", "persist", "settings", "compare"} \subseteq FreePcs
  BY DEF FreePcs
<1>3. ASSUME WerkaConfig(h) PROVE Aside(h) /\ SettingsTyped' /\ UNCHANGED adminVars
  <2>1. Working(h) /\ Go(h, "identity")
    BY <1>3 DEF WerkaConfig, At
  <2>2. Aside(h)
    BY <1>2, <2>1, AsideGoes
  <2>3. PICK c, code : c = config /\ config' = [c EXCEPT !.code = code]
    BY <1>3 DEF WerkaConfig
  <2>4. config' = [name |-> c.name, code |-> code, key |-> c.key]
    BY <1>1, <2>3 DEF SettingsTyped
  <2>5. UNCHANGED <<configLock, identity, env, adminVars>>
    BY <1>3 DEF WerkaConfig
  <2> QED
    BY <1>1, <2>2, <2>3, <2>4, <2>5 DEF SettingsTyped
<1>4. ASSUME WerkaIdentity(h) PROVE Aside(h) /\ SettingsTyped' /\ UNCHANGED adminVars
  <2>1. Working(h) /\ Go(h, "persist")
    BY <1>4 DEF WerkaIdentity, At
  <2>2. Aside(h)
    BY <1>2, <2>1, AsideGoes
  <2>3. identity' = Identity(config) /\ UNCHANGED <<config, configLock, env, adminVars>>
    BY <1>4 DEF WerkaIdentity, SetRuntimeIdentity
  <2>4. identity' = [name |-> identity'.name, code |-> identity'.code] /\ identity'.name \in STRING
    BY <1>1, <2>3, IdentityTyped DEF SettingsTyped
  <2> QED
    BY <1>1, <2>2, <2>3, <2>4 DEF SettingsTyped
<1>5. ASSUME WerkaPersist(h) PROVE Aside(h) /\ SettingsTyped' /\ UNCHANGED adminVars
  <2>1. Working(h) /\ (Go(h, "settings") \/ Finish(h))
    BY <1>5 DEF WerkaPersist, At
  <2>2. Aside(h)
    BY <1>2, <2>1, AsideGoes, AsideEnds
  <2>3. "MOBILE_DEV_WERKA_NAME" \notin DOMAIN env'
    BY <1>1, <1>5, EnvKept DEF WerkaPersist, SettingsTyped
  <2>4. UNCHANGED <<config, configLock, identity, adminVars>>
    BY <1>5 DEF WerkaPersist
  <2> QED
    BY <1>1, <2>2, <2>3, <2>4 DEF SettingsTyped
<1>6. ASSUME LoginWerka(h) PROVE Aside(h) /\ SettingsTyped' /\ UNCHANGED adminVars
  <2>1. Aside(h)
    BY <1>2, <1>6, AsideBegins DEF LoginWerka
  <2> QED
    BY <1>1, <1>6, <2>1 DEF LoginWerka, settingsVars, SettingsTyped
<1>7. ASSUME CompareWerka(h) PROVE Aside(h) /\ SettingsTyped' /\ UNCHANGED adminVars
  <2>1. Working(h)
    BY <1>7 DEF CompareWerka, At
  <2>2. CASE Finish(h)
    BY <1>1, <1>7, <2>2, AsideEnds DEF CompareWerka, settingsVars, SettingsTyped
  <2>3. CASE ~Finish(h)
    <3>1. PICK copy :
            /\ GoWith(h, "create", copy)
            /\ copy = [role |-> "werka", ref |-> Keeper, name |-> identity.name, avatar |-> ""]
      BY <1>7, <2>3 DEF CompareWerka
    <3>2. copy \in Principals
      <4>1. {"", Keeper, identity.name} \subseteq STRING /\ "werka" \in DOMAIN StoredRole
        BY <1>1, WordsAssumption DEF SettingsTyped, Keeper, StoredRole
      <4> QED
        BY <3>1, <4>1 DEF Principals, PrincipalsOf
    <3>3. Continue(h, Moved(jobs[h], "create", jobs[h].arg, copy, jobs[h].phase))
      BY <2>1, <3>1, Goes
    <3>4. Aside(h)
      BY <2>1, <3>2, <3>3, LoginPcs, AsideMoves
    <3> QED
      BY <1>1, <1>7, <3>4 DEF CompareWerka, settingsVars, SettingsTyped
  <2> QED
    BY <2>2, <2>3
<1> QED
  BY <1>3, <1>4, <1>5, <1>6, <1>7 DEF KeeperStep

-----------------------------------------------------------------------------
(***************************************************************************)
(* Steps about the state of a person.                                      *)
(***************************************************************************)
\* Whatever a request does that is not about a session.
Elsewhere(h) ==
  \/ \E j : /\ Continue(h, j)
            /\ j = Idle \/ (/\ Working(h) /\ OpenJob(j) /\ j.pc \notin TokenPcs \cup {"keep"}
                            /\ j.keys = jobs[h].keys /\ j.alone = jobs[h].alone)
  \/ \E op, pc, keys, arg :
       /\ Begin(h, op, pc, keys, arg)
       /\ OpenJob(NewJob(h, op, pc, keys, arg))
       /\ NewJob(h, op, pc, keys, arg).pc \notin TokenPcs \cup {"keep"}

\* A step to a place where the request holds no state.
Plain(h) ==
  \E j : /\ Continue(h, j)
         /\ j = Idle \/
              (/\ Working(h) /\ OpenJob(j)
               /\ j.pc \notin TokenPcs \cup {"keep", "write"} \cup HeldPcs
               /\ j.pc \in StatePcs => jobs[h].pc \in StatePcs /\ j.arg.ref = jobs[h].arg.ref
               /\ j.keys = jobs[h].keys /\ j.alone = jobs[h].alone)

LEMMA PlainEnds ==
  ASSUME NEW h \in Handlers, Finish(h)
  PROVE  Plain(h)
  BY DEF Plain, Finish

LEMMA AllElsewhere ==
  ASSUME NEW h \in Handlers
  PROVE  (Aside(h) => Elsewhere(h)) /\ (Plain(h) => Elsewhere(h))
<1>1. ASSUME Aside(h) PROVE Elsewhere(h)
  <2>1. CASE \E j : /\ Continue(h, j)
                    /\ j = Idle \/ (/\ Working(h) /\ OpenJob(j) /\ Beside(j)
                                    /\ j.keys = jobs[h].keys /\ j.alone = jobs[h].alone)
    BY <2>1 DEF Elsewhere, Beside
  <2>2. CASE \E op, pc, keys, arg :
               /\ Begin(h, op, pc, keys, arg)
               /\ OpenJob(NewJob(h, op, pc, keys, arg)) /\ Beside(NewJob(h, op, pc, keys, arg))
    BY <2>2 DEF Elsewhere, Beside
  <2> QED
    BY <1>1, <2>1, <2>2 DEF Aside
<1>2. ASSUME Plain(h) PROVE Elsewhere(h)
  BY <1>2 DEF Plain, Elsewhere
<1> QED
  BY <1>1, <1>2

LEMMA StatePcsAre ==
  /\ StatePcs \cap (TokenPcs \cup {"create", "keep", "lock", "find", "decide", "promoteParent"}) = {}
  /\ StatePcs \cap GroupWaits = {} /\ HeldPcs \cup {"write", "sync", "deleteRows"} \subseteq StatePcs
  BY DEF TokenPcs, LoadPcs, RecordPcs, ProfilePcs, StatePcs, HeldPcs, AdminWaits, GroupWaits

LEMMA StateOpen ==
  ASSUME NEW j, IsJob(j), j.alone \in BOOLEAN, j.pc \in StatePcs, AdminJob(j)
  PROVE  OpenJob(j) /\ j.pc \notin TokenPcs \cup {"keep"}
<1>1. /\ j.pc \notin TokenPcs \cup {"create", "keep", "lock", "promoteParent"}
      /\ j.pc \notin GroupWaits
  BY StatePcsAre
<1>2. /\ j.pc \notin TokenPcs /\ j.pc \notin ProfilePcs /\ j.pc \notin LoadPcs
      /\ j.pc \notin RecordPcs \cup {"keep"} /\ j.pc \notin {"create", "serve"}
      /\ j.pc \notin {"migratePrefs", "putPrefs", "keep"}
  BY <1>1 DEF TokenPcs, ProfilePcs
<1>3. SessionJob(j)
  BY <1>2 DEF SessionJob
<1>4. OtherJob(j)
  BY <1>1 DEF OtherJob
<1> QED
  BY <1>1, <1>3, <1>4 DEF OpenJob

\* What a request asks for, which no step of it changes.
ArgTyped(op, arg) ==
  /\ op \in ItemOps => arg.item \in Items
  /\ op = "items" => ItemsArg(arg)
  /\ op \in {"regenerate", "regenerateWerka"} =>
       arg = [ref |-> arg.ref, code |-> arg.code, made |-> arg.made]
  /\ op = "regenerateCustomer" =>
       /\ arg = [ref |-> arg.ref, existing |-> arg.existing, made |-> arg.made, code |-> arg.code]
       /\ arg.code \in AccessCodes \cup {None}

CopyTyped(pc, copy) ==
  /\ pc \in HeldPcs => copy \in StateRecords
  /\ pc = "write" => ~Lmdb /\ copy \in [Refs -> StateRecords \cup {None}]
  /\ pc = "deleteRows" => AreRows(copy)

MadeAt(op, pc, arg) ==
  op \in RegenOps /\ pc \in {"put", "write", "prefix", "werkaCode"} => arg.made \in 0..now

LEMMA StateJobIs ==
  ASSUME Typed, NEW h \in Handlers, Working(h), jobs[h].pc \in StatePcs
  PROVE  /\ jobs[h].op \in OpsAt(jobs[h].pc) /\ KeysOf(jobs[h].arg.ref) \subseteq jobs[h].keys
         /\ IF jobs[h].op = "regenerateWerka" THEN jobs[h].arg.ref = Keeper
            ELSE jobs[h].arg.ref \in Parties
         /\ jobs[h].arg.ref \in Refs
         /\ ArgTyped(jobs[h].op, jobs[h].arg) /\ CopyTyped(jobs[h].pc, jobs[h].copy)
         /\ MadeAt(jobs[h].op, jobs[h].pc, jobs[h].arg)
<1>1. AdminJob(jobs[h])
  BY JobOf DEF OpenJob
<1> QED
  BY <1>1 DEF AdminJob, ArgTyped, CopyTyped, MadeAt, Refs, Keeper, Parties

LEMMA StateMoved ==
  ASSUME Typed, NEW h \in Handlers, Working(h), jobs[h].pc \in StatePcs,
         NEW pc \in StatePcs, jobs[h].op \in OpsAt(pc), NEW arg, arg.ref = jobs[h].arg.ref,
         NEW copy, NEW phase,
         ArgTyped(jobs[h].op, arg), CopyTyped(pc, copy), MadeAt(jobs[h].op, pc, arg)
  PROVE  LET k == Moved(jobs[h], pc, arg, copy, phase) IN
         /\ OpenJob(k) /\ k.pc = pc /\ k.pc \notin TokenPcs \cup {"keep"} /\ k.arg = arg
         /\ k.keys = jobs[h].keys /\ k.alone = jobs[h].alone /\ k.copy = copy
         /\ k.op = jobs[h].op
<1>1. PICK k : k = Moved(jobs[h], pc, arg, copy, phase)
  OBVIOUS
<1>2. /\ IsJob(k) /\ k.pc = pc /\ k.keys = jobs[h].keys /\ k.alone = jobs[h].alone
      /\ k.arg = arg /\ k.copy = copy /\ k.op = jobs[h].op
  BY <1>1, MovedIs
<1>3. k.alone \in BOOLEAN
  BY <1>2, JobOf DEF OpenJob
<1>4. pc \notin {"find", "decide"}
  BY StatePcsAre
<1>5. AdminJob(k)
  BY <1>2, <1>4, StateJobIs DEF AdminJob, ArgTyped, CopyTyped, MadeAt
<1>6. OpenJob(k) /\ k.pc \notin TokenPcs \cup {"keep"}
  BY <1>2, <1>3, <1>5, StateOpen
<1> QED
  BY <1>1, <1>2, <1>6

\* A step on, with the same request, to a place where no state is held.
LEMMA PlainGoes ==
  ASSUME Typed, NEW h \in Handlers, Working(h), jobs[h].pc \in StatePcs,
         NEW pc \in StatePcs \ (HeldPcs \cup {"write"}), jobs[h].op \in OpsAt(pc), NEW copy
  PROVE  /\ pc # "deleteRows" /\ Go(h, pc) => Plain(h)
         /\ CopyTyped(pc, copy) /\ GoWith(h, pc, copy) => Plain(h)
<1>1. ArgTyped(jobs[h].op, jobs[h].arg)
  BY StateJobIs
<1>2. MadeAt(jobs[h].op, pc, jobs[h].arg)
  BY DEF MadeAt, HeldPcs
<1>3. ASSUME NEW c, CopyTyped(pc, c),
             Continue(h, Moved(jobs[h], pc, jobs[h].arg, c, jobs[h].phase))
      PROVE  Plain(h)
  <2>1. PICK k : k = Moved(jobs[h], pc, jobs[h].arg, c, jobs[h].phase)
    OBVIOUS
  <2>2. /\ OpenJob(k) /\ k.pc = pc /\ k.pc \notin TokenPcs \cup {"keep"}
        /\ k.arg = jobs[h].arg /\ k.keys = jobs[h].keys /\ k.alone = jobs[h].alone
    BY <1>1, <1>2, <1>3, <2>1, StateMoved
  <2>3. Continue(h, k)
    BY <1>3, <2>1
  <2> QED
    BY <2>2, <2>3 DEF Plain
<1>4. ASSUME pc # "deleteRows", Go(h, pc) PROVE Plain(h)
  <2>1. CopyTyped(pc, jobs[h].copy)
    BY <1>4 DEF CopyTyped
  <2> QED
    BY <1>3, <1>4, <2>1, Goes
<1>5. ASSUME CopyTyped(pc, copy), GoWith(h, pc, copy) PROVE Plain(h)
  BY <1>3, <1>5, Goes
<1> QED
  BY <1>4, <1>5

-----------------------------------------------------------------------------
LEMMA ExistingExcept ==
  ASSUME NEW j, IsJob(j), NEW pc, NEW v
  PROVE  [j EXCEPT !.pc = pc, !.arg.existing = v]
           = Moved(j, pc, [j.arg EXCEPT !.existing = v], j.copy, j.phase)
<1>1. PICK k : k = [j EXCEPT !.pc = pc, !.arg.existing = v]
  OBVIOUS
<1>2. k = Moved(j, pc, [j.arg EXCEPT !.existing = v], j.copy, j.phase)
  BY <1>1 DEF IsJob, Moved
<1> QED
  BY <1>1, <1>2

ItemSteps(h) ==
  KnownItems(h) \/ SyncItems(h) \/ InsertRow(h) \/ ReadRows(h) \/ DeleteRows(h)

LEMMA PlainMoves ==
  ASSUME Typed, NEW h \in Handlers, Working(h), jobs[h].pc \in StatePcs,
         NEW pc \in StatePcs \ (HeldPcs \cup {"write"}), jobs[h].op \in OpsAt(pc),
         NEW arg, arg.ref = jobs[h].arg.ref, ArgTyped(jobs[h].op, arg), NEW copy, CopyTyped(pc, copy),
         NEW phase, Continue(h, Moved(jobs[h], pc, arg, copy, phase))
  PROVE  Plain(h)
<1>1. MadeAt(jobs[h].op, pc, arg)
  BY DEF MadeAt, HeldPcs
<1>2. PICK k : k = Moved(jobs[h], pc, arg, copy, phase)
  OBVIOUS
<1>3. /\ OpenJob(k) /\ k.pc = pc /\ k.pc \notin TokenPcs \cup {"keep"}
      /\ k.arg = arg /\ k.keys = jobs[h].keys /\ k.alone = jobs[h].alone
  BY <1>1, <1>2, StateMoved
<1>4. Continue(h, k)
  BY <1>2
<1> QED
  BY <1>3, <1>4 DEF Plain

LEMMA AskingIs ==
  ASSUME Typed, NEW h \in Handlers, Working(h), NEW pc, NEW arg, GoAsking(h, pc, arg)
  PROVE  Continue(h, Moved(jobs[h], pc, arg, jobs[h].copy, jobs[h].phase))
<1>1. PICK j : j = jobs[h]
  OBVIOUS
<1>2. IsJob(j)
  BY <1>1, JobOf
<1>3. PICK k : k = [j EXCEPT !.pc = pc, !.arg = arg]
  OBVIOUS
<1>4. k = Moved(j, pc, arg, j.copy, j.phase)
  BY <1>2, <1>3 DEF IsJob, Moved
<1>5. Continue(h, k)
  BY <1>1, <1>3 DEF GoAsking
<1> QED
  BY <1>1, <1>4, <1>5

LEMMA ItemsMoves ==
  ASSUME Typed, NEW h \in Handlers, Working(h), jobs[h].pc \in {"known", "sync"},
         NEW pc \in {"sync", "rows"}, NEW arg, arg.ref = jobs[h].arg.ref, ItemsArg(arg),
         GoAsking(h, pc, arg)
  PROVE  Plain(h)
<1>0. Continue(h, Moved(jobs[h], pc, arg, jobs[h].copy, jobs[h].phase))
  BY AskingIs
<1>1. jobs[h].pc \in StatePcs /\ pc \in StatePcs /\ pc \notin HeldPcs /\ pc # "write"
      /\ pc # "deleteRows"
  BY DEF StatePcs, AdminWaits, HeldPcs
<1>2. jobs[h].op \in OpsAt(jobs[h].pc)
  BY <1>1, StateJobIs
<1>3. jobs[h].op = "items"
  BY <1>2 DEF OpsAt
<1>4. jobs[h].op \in OpsAt(pc)
  BY <1>3 DEF OpsAt
<1>5. ArgTyped(jobs[h].op, arg)
  BY <1>3 DEF ArgTyped, ItemOps
<1>6. CopyTyped(pc, jobs[h].copy)
  BY <1>1 DEF CopyTyped
<1> QED
  BY <1>0, <1>1, <1>4, <1>5, <1>6, PlainMoves

LEMMA RowTyped ==
  ASSUME NEW kind \in {"supplier", "customer"}, NEW item \in Items, NEW r \in Parties,
         NEW h \in Handlers, NEW rows, AreRows(rows)
  PROVE  AreRows(rows \cup {NewRow(kind, item, r, h)})
<1>1. PICK row : row = NewRow(kind, item, r, h)
  OBVIOUS
<1>2. row.kind = kind /\ row.item = item /\ row.ref = r
  BY <1>1 DEF NewRow
<1> QED
  BY <1>1, <1>2 DEF AreRows

LEMMA FewerRows ==
  ASSUME NEW rows, AreRows(rows), NEW some \in SUBSET rows
  PROVE  AreRows(some)
  BY DEF AreRows

LEMMA ItemsPlain ==
  ASSUME Typed, NEW h \in Handlers, ItemSteps(h)
  PROVE  Plain(h) /\ AdminTyped' /\ UNCHANGED <<states, oldStates, regens>>
<1>1. /\ AdminTyped /\ AreRows(assigned)
      /\ \A s : AreRows(s) /\ assigned' = s
                /\ UNCHANGED <<states, oldStates, regens>> => AdminTyped'
  BY DEF Typed, AdminTyped, Refs, Parties
<1>2. /\ {"sync", "restate", "deleteRows"} \subseteq StatePcs \ (HeldPcs \cup {"write"})
      /\ {"known", "insertRow", "rows", "sync", "deleteRows"} \subseteq StatePcs
  BY DEF StatePcs, AdminWaits, HeldPcs
<1>3. ASSUME Working(h), jobs[h].pc \in StatePcs, jobs[h].op # "regenerateWerka"
      PROVE  Ref(h) \in Parties
  BY <1>3, StateJobIs DEF Ref
<1>4. PICK j : j = jobs[h]
  OBVIOUS
<1>5. CASE KnownItems(h)
  <2>0. Working(h) /\ jobs[h].pc = "known" /\ UNCHANGED adminVars
    BY <1>5, Zenon DEF KnownItems, At
  <2>1. Working(h) /\ j.pc = "known" /\ UNCHANGED <<states, oldStates, assigned, regens>>
    BY <1>4, <2>0 DEF adminVars
  <2>2. j.op \in OpsAt("known") /\ ArgTyped(j.op, j.arg) /\ IsJob(j)
    BY <1>2, <1>4, <2>1, StateJobIs, JobOf DEF OpenJob
  <2>3. ItemsArg(j.arg)
    BY <2>2 DEF OpsAt, ArgTyped
  <2>4. CASE Finish(h)
    BY <1>1, <2>1, <2>4, PlainEnds
  <2>5. CASE ~Finish(h)
    <3>1. PICK has \in SUBSET Items :
            GoAsking(h, "sync", [jobs[h].arg EXCEPT !.right = ToldRightly(h, has),
              !.add = jobs[h].arg.items \ has, !.drop = has \ jobs[h].arg.items])
      BY <1>5, <2>5, Zenon DEF KnownItems
    <3>2. PICK arg : arg = [jobs[h].arg EXCEPT !.right = ToldRightly(h, has),
              !.add = jobs[h].arg.items \ has, !.drop = has \ jobs[h].arg.items]
      OBVIOUS
    <3>3. ToldRightly(h, has) \subseteq Items
      BY DEF ToldRightly
    <3>4. ItemsArg(arg) /\ arg.ref = j.arg.ref
      BY <1>4, <2>3, <3>2, <3>3 DEF ItemsArg
    <3>5. Plain(h)
      BY <1>4, <2>1, <3>1, <3>2, <3>4, ItemsMoves
    <3> QED
      BY <1>1, <2>1, <3>5
  <2> QED
    BY <2>4, <2>5
<1>6. CASE SyncItems(h)
  <2>0. Working(h) /\ jobs[h].pc = "sync" /\ UNCHANGED <<states, oldStates, regens>>
    BY <1>6, Zenon DEF SyncItems, At
  <2>1. Working(h) /\ j.pc = "sync" /\ UNCHANGED <<states, oldStates, regens>>
    BY <1>4, <2>0
  <2>2. j.op \in OpsAt("sync") /\ ArgTyped(j.op, j.arg) /\ IsJob(j)
    BY <1>2, <1>4, <2>1, StateJobIs, JobOf DEF OpenJob
  <2>3. ItemsArg(j.arg) /\ j.op = "items" /\ j.op \in OpsAt("restate")
    BY <2>2 DEF OpsAt, ArgTyped
  <2>4. CASE \E i \in j.arg.add :
               /\ assigned' = assigned \cup {NewRow("supplier", i, Ref(h), h)}
               /\ GoAsking(h, "sync", [j.arg EXCEPT !.add = @ \ {i}])
    <3>1. PICK i \in j.arg.add :
               /\ assigned' = assigned \cup {NewRow("supplier", i, Ref(h), h)}
               /\ GoAsking(h, "sync", [j.arg EXCEPT !.add = @ \ {i}])
      BY <2>4
    <3>2. PICK arg : arg = [j.arg EXCEPT !.add = @ \ {i}]
      OBVIOUS
    <3>5. ItemsArg(arg) /\ arg.ref = j.arg.ref
      BY <2>3, <3>2 DEF ItemsArg
    <3>6. Plain(h)
      BY <1>4, <2>1, <3>1, <3>2, <3>5, ItemsMoves
    <3>7. i \in Items /\ Ref(h) \in Parties
      BY <1>2, <1>3, <1>4, <2>1, <2>3 DEF ItemsArg
    <3>8. AreRows(assigned')
      BY <1>1, <3>1, <3>7, RowTyped
    <3> QED
      BY <1>1, <2>1, <3>1, <3>6, <3>8
  <2>5. CASE \E i \in j.arg.drop :
               UNCHANGED assigned /\ GoAsking(h, "rows", [j.arg EXCEPT !.item = i, !.drop = @ \ {i}])
    <3>1. PICK i \in j.arg.drop :
               UNCHANGED assigned /\ GoAsking(h, "rows", [j.arg EXCEPT !.item = i, !.drop = @ \ {i}])
      BY <2>5, Zenon
    <3>2. PICK arg : arg = [j.arg EXCEPT !.item = i, !.drop = @ \ {i}]
      OBVIOUS
    <3>5. ItemsArg(arg) /\ arg.ref = j.arg.ref
      BY <2>3, <3>2 DEF ItemsArg
    <3>6. Plain(h)
      BY <1>4, <2>1, <3>1, <3>2, <3>5, ItemsMoves
    <3> QED
      BY <1>1, <2>1, <3>1, <3>6
  <2>6. CASE Go(h, "restate") /\ UNCHANGED assigned
    <3>1. Plain(h)
      BY <1>2, <1>4, <2>1, <2>3, <2>6, PlainGoes
    <3> QED
      BY <1>1, <2>1, <2>6, <3>1
  <2>7. \/ \E i \in jobs[h].arg.add :
               /\ assigned' = assigned \cup {NewRow("supplier", i, Ref(h), h)}
               /\ GoAsking(h, "sync", [jobs[h].arg EXCEPT !.add = @ \ {i}])
        \/ \E i \in jobs[h].arg.drop :
               /\ UNCHANGED assigned
               /\ GoAsking(h, "rows", [jobs[h].arg EXCEPT !.item = i, !.drop = @ \ {i}])
        \/ Go(h, "restate") /\ UNCHANGED assigned
    BY <1>6, Zenon DEF SyncItems
  <2> QED
    BY <1>4, <2>4, <2>5, <2>6, <2>7, Zenon
<1>7. CASE InsertRow(h)
  <2>1. Working(h) /\ jobs[h].pc = "insertRow"
    BY <1>7 DEF InsertRow, At
  <2>2. jobs[h].op \in OpsAt("insertRow")
    BY <1>2, <2>1, StateJobIs
  <2>3. jobs[h].op \in ItemOps /\ (jobs[h].op = "assign" => jobs[h].op \in OpsAt("restate"))
    BY <2>2 DEF OpsAt, ItemOps
  <2>4. PICK kind \in {"supplier", "customer"} :
          assigned' = assigned \cup {NewRow(kind, jobs[h].arg.item, Ref(h), h)}
    BY <1>7 DEF InsertRow
  <2>5. jobs[h].arg.item \in Items /\ Ref(h) \in Parties
    BY <1>2, <1>3, <2>1, <2>3, StateJobIs DEF ArgTyped, ItemOps
  <2>6. AreRows(assigned')
    BY <1>1, <2>4, <2>5, RowTyped
  <2>7. UNCHANGED <<states, oldStates, regens>>
    BY <1>7 DEF InsertRow
  <2>8. Plain(h)
    BY <1>2, <1>7, <2>1, <2>3, PlainGoes, PlainEnds DEF InsertRow
  <2> QED
    BY <1>1, <2>6, <2>7, <2>8
<1>8. CASE ReadRows(h)
  <2>1. Working(h) /\ jobs[h].pc = "rows"
    BY <1>8 DEF ReadRows, At
  <2>2. jobs[h].op \in OpsAt("rows")
    BY <1>2, <2>1, StateJobIs
  <2>3. jobs[h].op \in OpsAt("deleteRows")
    BY <2>2 DEF OpsAt
  <2>4. PICK copy : copy \subseteq assigned /\ GoWith(h, "deleteRows", copy)
    BY <1>8 DEF ReadRows, ItemRows
  <2>5. CopyTyped("deleteRows", copy)
    BY <1>1, <2>4, FewerRows DEF CopyTyped, HeldPcs
  <2>6. Plain(h)
    BY <1>2, <2>1, <2>3, <2>4, <2>5, PlainGoes
  <2> QED
    BY <1>1, <1>8, <2>6 DEF ReadRows, adminVars
<1>9. CASE DeleteRows(h)
  <2>1. Working(h) /\ jobs[h].pc = "deleteRows" /\ UNCHANGED <<states, oldStates, regens>>
    BY <1>9 DEF DeleteRows, At
  <2>2. jobs[h].op \in OpsAt("deleteRows") /\ CopyTyped("deleteRows", jobs[h].copy)
    BY <1>2, <2>1, StateJobIs
  <2>3. AreRows(jobs[h].copy)
    BY <2>2 DEF CopyTyped
  <2>4. CASE jobs[h].op = "unassignCustomer"
    <3>1. Finish(h) /\ assigned' = (assigned \ ItemRows("customer", jobs[h].arg.item))
                                   \cup {row \in jobs[h].copy : row.ref # Ref(h)}
      BY <1>9, <2>4 DEF DeleteRows
    <3>2. AreRows(assigned')
      BY <1>1, <2>3, <3>1 DEF AreRows
    <3>3. Plain(h)
      BY <2>1, <3>1, PlainEnds
    <3> QED
      BY <1>1, <2>1, <3>2, <3>3
  <2>5. CASE jobs[h].op # "unassignCustomer"
    <3>1. DeleteRow(h)
      BY <1>9, <2>5 DEF DeleteRows
    <3>2. /\ jobs[h].op = "items" => jobs[h].op \in OpsAt("sync")
          /\ jobs[h].op # "items" => jobs[h].op \in OpsAt("restate")
      BY <2>2, <2>5 DEF OpsAt
    <3>3. CASE \E row \in jobs[h].copy :
                 /\ assigned' = assigned \ {row}
                 /\ IF row \in assigned THEN GoWith(h, "deleteRows", jobs[h].copy \ {row})
                    ELSE Finish(h)
      <4>1. PICK row, copy :
              /\ assigned' = assigned \ {row} /\ copy = jobs[h].copy \ {row}
              /\ GoWith(h, "deleteRows", copy) \/ Finish(h)
        BY <3>3
      <4>2. CopyTyped("deleteRows", copy) /\ AreRows(assigned')
        BY <1>1, <2>3, <4>1, FewerRows DEF CopyTyped, HeldPcs
      <4>3. Plain(h)
        BY <1>2, <2>1, <2>2, <4>1, <4>2, PlainGoes, PlainEnds
      <4> QED
        BY <1>1, <2>1, <4>2, <4>3
    <3>4. CASE Go(h, IF jobs[h].op = "items" THEN "sync" ELSE "restate") /\ UNCHANGED assigned
      <4>1. Plain(h)
        BY <1>2, <2>1, <3>2, <3>4, PlainGoes
      <4> QED
        BY <1>1, <2>1, <3>4, <4>1
    <3> QED
      BY <3>1, <3>3, <3>4 DEF DeleteRow
  <2> QED
    BY <2>4, <2>5
<1> QED
  BY <1>5, <1>6, <1>7, <1>8, <1>9 DEF ItemSteps

PartySteps(h) ==
  Entry(h) \/ StateCodes(h) \/ UpdateCustomerCode(h) \/ UpdatePhone(h) \/ SearchPhone(h)
  \/ CreateParty(h)

LEMMA PartiesPlain ==
  ASSUME Typed, NEW h \in Handlers, PartySteps(h)
  PROVE  Plain(h) /\ AdminTyped' /\ UNCHANGED <<states, oldStates, regens>>
<1>1. /\ AdminTyped
      /\ UNCHANGED <<states, oldStates, assigned, regens>> => AdminTyped'
  BY DEF Typed, AdminTyped
<1>2. UNCHANGED <<states, oldStates, assigned, regens>>
  BY DEF PartySteps, Entry, StateCodes, UpdateCustomerCode, UpdatePhone, SearchPhone, CreateParty,
         adminVars, stateVars
<1>3. /\ {"state", "post", "restate"} \subseteq StatePcs \ (HeldPcs \cup {"write"})
      /\ {"entry", "stateCodes", "search", "post"} \subseteq StatePcs
  BY DEF StatePcs, AdminWaits, HeldPcs
<1>4. CASE Entry(h)
  <2>1. Working(h) /\ jobs[h].pc = "entry"
    BY <1>4 DEF Entry, At
  <2>2. jobs[h].op \in OpsAt("entry")
    BY <1>3, <2>1, StateJobIs
  <2>3. jobs[h].op \in OpsAt("state")
    BY <2>2 DEF OpsAt
  <2>4. Plain(h)
    BY <1>3, <1>4, <2>1, <2>3, PlainGoes, PlainEnds DEF Entry
  <2> QED
    BY <1>1, <1>2, <2>4
<1>5. CASE StateCodes(h)
  <2>1. Working(h) /\ jobs[h].pc = "stateCodes"
    BY <1>5 DEF StateCodes, At
  <2>2. jobs[h].op \in OpsAt("stateCodes")
    BY <1>3, <2>1, StateJobIs
  <2>3. jobs[h].op = "regenerateCustomer" /\ jobs[h].op \in OpsAt("state")
    BY <2>2 DEF OpsAt
  <2>4. CASE Finish(h)
    BY <1>1, <1>2, <2>4, PlainEnds
  <2>5. CASE ~Finish(h)
    <3>1. PICK j, e, arg : /\ j = jobs[h] /\ e = ExistingStateCodes
                           /\ arg = [j.arg EXCEPT !.existing = e]
      OBVIOUS
    <3>2. Continue(h, [j EXCEPT !.pc = "state", !.arg.existing = e])
      BY <1>5, <2>5, <3>1 DEF StateCodes
    <3>3. IsJob(j)
      BY <2>1, <3>1, JobOf
    <3>4. [j EXCEPT !.pc = "state", !.arg.existing = e] = Moved(j, "state", arg, j.copy, j.phase)
      <4>1. [j EXCEPT !.pc = "state", !.arg.existing = e]
              = Moved(j, "state", [j.arg EXCEPT !.existing = e], j.copy, j.phase)
        BY <3>3, ExistingExcept
      <4> QED
        BY <3>1, <4>1
    <3>5. j.arg = [ref |-> j.arg.ref, existing |-> j.arg.existing, made |-> j.arg.made,
            code |-> j.arg.code] /\ j.arg.code \in AccessCodes \cup {None}
      BY <1>3, <2>1, <2>3, <3>1, StateJobIs DEF ArgTyped
    <3>6. arg = [ref |-> j.arg.ref, existing |-> e, made |-> j.arg.made, code |-> j.arg.code]
      BY <3>1, <3>5
    <3>7. arg.ref = j.arg.ref /\ ArgTyped(j.op, arg)
      BY <2>3, <3>1, <3>5, <3>6 DEF ArgTyped, ItemOps
    <3>8. CopyTyped("state", j.copy) /\ MadeAt(j.op, "state", arg)
      BY DEF CopyTyped, MadeAt, HeldPcs
    <3>9. PICK k : k = Moved(j, "state", arg, j.copy, j.phase)
      OBVIOUS
    <3>10. k = Moved(jobs[h], "state", arg, j.copy, jobs[h].phase)
      BY <3>1, <3>9
    <3>11. jobs[h].pc \in StatePcs /\ "state" \in StatePcs /\ jobs[h].op \in OpsAt("state")
           /\ arg.ref = jobs[h].arg.ref /\ ArgTyped(jobs[h].op, arg)
           /\ MadeAt(jobs[h].op, "state", arg)
      BY <1>3, <2>1, <2>3, <3>1, <3>7, <3>8
    <3>12. /\ OpenJob(k) /\ k.pc = "state" /\ k.pc \notin TokenPcs \cup {"keep"}
           /\ k.arg = arg /\ k.keys = jobs[h].keys /\ k.alone = jobs[h].alone
      BY <2>1, <3>8, <3>10, <3>11, StateMoved
    <3>13. Continue(h, k)
      BY <3>2, <3>4, <3>9
    <3>14. Plain(h)
      BY <1>3, <2>1, <3>11, <3>12, <3>13 DEF Plain
    <3> QED
      BY <1>1, <1>2, <3>14
  <2> QED
    BY <2>4, <2>5
<1>6. CASE UpdateCustomerCode(h)
  BY <1>1, <1>2, <1>6, PlainEnds DEF UpdateCustomerCode
<1>7. CASE UpdatePhone(h)
  BY <1>1, <1>2, <1>7, PlainEnds DEF UpdatePhone, Confirm
<1>8. CASE SearchPhone(h)
  <2>1. Working(h) /\ jobs[h].pc = "search"
    BY <1>8 DEF SearchPhone, At
  <2>2. jobs[h].op \in OpsAt("search")
    BY <1>3, <2>1, StateJobIs
  <2>3. jobs[h].op \in OpsAt("post")
    BY <2>2 DEF OpsAt
  <2>4. Plain(h)
    BY <1>3, <1>8, <2>1, <2>3, PlainGoes, PlainEnds DEF SearchPhone
  <2> QED
    BY <1>1, <1>2, <2>4
<1>9. CASE CreateParty(h)
  <2>1. Working(h) /\ jobs[h].pc = "post"
    BY <1>9 DEF CreateParty, At
  <2>2. jobs[h].op = "createSupplier" => jobs[h].op \in OpsAt("restate")
    BY DEF OpsAt
  <2>3. Plain(h)
    BY <1>3, <1>9, <2>1, <2>2, PlainGoes, PlainEnds DEF CreateParty
  <2> QED
    BY <1>1, <1>2, <2>3
<1> QED
  BY <1>4, <1>5, <1>6, <1>7, <1>8, <1>9 DEF PartySteps

-----------------------------------------------------------------------------
\* A request about r begins: where another one is at it, codes are not counted.
RacedOut(r) ==
  [x \in Refs |-> IF Raced(KeysOf(r)) /\ (x = r \/ ~Lmdb) THEN None ELSE regens[x]]

Starts(h) ==
  \E op, pc, arg :
    /\ Begin(h, op, pc, KeysOf(arg.ref), arg) /\ OpenJob(NewJob(h, op, pc, KeysOf(arg.ref), arg))
    /\ pc \in StatePcs \ (HeldPcs \cup {"write"}) /\ arg.ref \in Refs
    /\ regens' = RacedOut(arg.ref) /\ UNCHANGED <<states, oldStates>>

LEMMA StartsWith ==
  ASSUME Typed, NEW h \in Handlers, NEW op, NEW pc, NEW arg,
         Begin(h, op, pc, KeysOf(arg.ref), arg), op \in OpsAt(pc),
         pc \in StatePcs \ (HeldPcs \cup {"write", "sync", "deleteRows"}),
         IF op = "regenerateWerka" THEN arg.ref = Keeper ELSE arg.ref \in Parties,
         ArgTyped(op, arg), regens' = RacedOut(arg.ref),
         UNCHANGED <<states, oldStates, assigned>>
  PROVE  Starts(h) /\ AdminTyped'
<1>1. PICK k : k = NewJob(h, op, pc, KeysOf(arg.ref), arg)
  OBVIOUS
<1>2. /\ IsJob(k) /\ k.op = op /\ k.pc = pc /\ k.keys = KeysOf(arg.ref) /\ k.arg = arg
      /\ k.alone \in BOOLEAN
  BY <1>1, NewJobIs
<1>3. pc \notin {"find", "decide"} \cup HeldPcs \cup {"write", "sync", "deleteRows"}
  BY StatePcsAre
<1>4. AdminJob(k)
  BY <1>2, <1>3 DEF AdminJob, ArgTyped, HeldPcs
<1>5. OpenJob(k)
  BY <1>2, <1>4, StateOpen
<1>6. arg.ref \in Refs
  BY DEF Refs, Keeper, Parties
<1>7. AdminTyped'
  <2>1. regens \in [Refs -> Seq(Nat) \cup {None}]
    BY DEF Typed, AdminTyped
  <2>2. regens' \in [Refs -> Seq(Nat) \cup {None}]
    BY <2>1 DEF RacedOut
  <2> QED
    BY <2>2 DEF Typed, AdminTyped, Refs, Parties
<1> QED
  BY <1>1, <1>5, <1>6, <1>7 DEF Starts

LEMMA StateBegins ==
  ASSUME Typed, NEW h \in Handlers, NEW op, NEW pc, NEW arg,
         BeginState(h, op, pc, arg.ref, arg), op \in OpsAt(pc),
         pc \in {"entry", "post", "erpPhone", "stateCodes", "search"},
         op # "regenerateWerka", arg.ref \in Parties, ArgTyped(op, arg),
         UNCHANGED <<stateVars, erpVars>>
  PROVE  Starts(h) /\ AdminTyped'
<1>1. arg.ref # Keeper
  BY AdminStatesAssumption DEF Keeper, Parties
<1>2. Keys(arg.ref) = KeysOf(arg.ref)
  BY <1>1 DEF KeysOf
<1>3. Begin(h, op, pc, KeysOf(arg.ref), arg) /\ regens' = RacedOut(arg.ref)
  BY <1>2 DEF BeginState, RacedOut
<1>4. pc \in StatePcs \ (HeldPcs \cup {"write", "sync", "deleteRows"})
  BY DEF StatePcs, AdminWaits, HeldPcs
<1>5. UNCHANGED <<states, oldStates, assigned>>
  BY DEF stateVars, erpVars
<1> QED
  BY <1>1, <1>3, <1>4, <1>5, StartsWith


LEMMA PartiesStart ==
  ASSUME Typed, NEW h \in Handlers, AdminBegin(h), \A r \in Parties : ~AskLogin(h, r)
  PROVE  Starts(h) /\ AdminTyped'
<1>1. ASSUME NEW op, NEW r \in Suppliers, NEW arg, AskSupplier(h, op, r, arg),
             op \in SupplierOps, arg.ref = r, ArgTyped(op, arg)
      PROVE  Starts(h) /\ AdminTyped'
  <2>1. op \in OpsAt("entry") /\ op # "regenerateWerka" /\ r \in Parties
    BY <1>1 DEF OpsAt, SupplierOps, Parties
  <2>2. BeginState(h, op, "entry", arg.ref, arg) /\ UNCHANGED <<stateVars, erpVars>>
    BY <1>1 DEF AskSupplier
  <2> QED
    BY <1>1, <2>1, <2>2, StateBegins
<1>2. ASSUME NEW op, NEW r \in Customers, NEW arg, AskCustomer(h, op, r, arg), arg.ref = r,
             op \in {"regenerateCustomer", "removeCustomer", "customerPhone", "createCustomer",
                     "assignCustomer", "unassignCustomer"},
             ArgTyped(op, arg)
      PROVE  Starts(h) /\ AdminTyped'
  <2>1. op # "regenerateWerka" /\ r \in Parties
    BY <1>2 DEF Parties
  <2>2. PICK pc \in {"entry", "erpPhone", "stateCodes", "search"} :
          /\ BeginState(h, op, pc, arg.ref, arg)
          /\ op \in OpsAt(pc)
    BY <1>2 DEF AskCustomer, OpsAt, StateOps
  <2>3. UNCHANGED <<stateVars, erpVars>>
    BY <1>2 DEF AskCustomer
  <2> QED
    BY <1>2, <2>1, <2>2, <2>3, StateBegins
<1>3. ASSUME NEW r \in Suppliers, NEW p, AskNewSupplier(h, r, p) PROVE Starts(h) /\ AdminTyped'
  <2>1. PICK arg : arg = [ref |-> r, phone |-> p]
    OBVIOUS
  <2>2. arg.ref = r /\ r \in Parties
    BY <2>1 DEF Parties
  <2>3. /\ BeginState(h, "createSupplier", "post", arg.ref, arg)
        /\ UNCHANGED <<stateVars, erpVars>>
    BY <1>3, <2>1, <2>2 DEF AskNewSupplier
  <2>4. "createSupplier" \in OpsAt("post") /\ ArgTyped("createSupplier", arg)
    BY DEF OpsAt, StateOps, ArgTyped, ItemOps
  <2> QED
    BY <2>2, <2>3, <2>4, StateBegins
<1>4. ASSUME NEW op \in {"block", "unblock", "remove", "restore"}, NEW r \in Suppliers,
             AskSupplier(h, op, r, [ref |-> r])
      PROVE  Starts(h) /\ AdminTyped'
  <2>1. PICK arg : arg = [ref |-> r]
    OBVIOUS
  <2>2. arg.ref = r /\ op \in SupplierOps /\ ArgTyped(op, arg)
    BY <2>1 DEF SupplierOps, ArgTyped, ItemOps
  <2> QED
    BY <1>1, <1>4, <2>1, <2>2
<1>5. ASSUME NEW r \in Suppliers, AskSupplier(h, "regenerate", r, [ref |-> r, code |-> None, made |-> None])
      PROVE  Starts(h) /\ AdminTyped'
  <2>1. PICK arg : arg = [ref |-> r, code |-> None, made |-> None]
    OBVIOUS
  <2>2. arg.ref = r /\ "regenerate" \in SupplierOps /\ ArgTyped("regenerate", arg)
    BY <2>1 DEF SupplierOps, ArgTyped, ItemOps
  <2> QED
    BY <1>1, <1>5, <2>1, <2>2
<1>6. ASSUME NEW r \in Suppliers, NEW p, AskSupplier(h, "supplierPhone", r, [ref |-> r, phone |-> p])
      PROVE  Starts(h) /\ AdminTyped'
  <2>1. PICK arg : arg = [ref |-> r, phone |-> p]
    OBVIOUS
  <2>2. arg.ref = r /\ "supplierPhone" \in SupplierOps /\ ArgTyped("supplierPhone", arg)
    BY <2>1 DEF SupplierOps, ArgTyped, ItemOps
  <2> QED
    BY <1>1, <1>6, <2>1, <2>2
<1>7. ASSUME NEW op \in {"assign", "unassign"}, NEW r \in Suppliers, NEW i \in Items,
             AskSupplier(h, op, r, [ref |-> r, item |-> i])
      PROVE  Starts(h) /\ AdminTyped'
  <2>1. PICK arg : arg = [ref |-> r, item |-> i]
    OBVIOUS
  <2>2. arg.ref = r /\ op \in SupplierOps /\ ArgTyped(op, arg)
    BY <2>1 DEF SupplierOps, ArgTyped, ItemOps
  <2> QED
    BY <1>1, <1>7, <2>1, <2>2
<1>8. ASSUME NEW r \in Suppliers, NEW s \in SUBSET Items,
             AskSupplier(h, "items", r, [ref |-> r, items |-> s, right |-> {}, add |-> {},
                                         drop |-> {}, item |-> None])
      PROVE  Starts(h) /\ AdminTyped'
  <2>1. PICK arg : arg = [ref |-> r, items |-> s, right |-> {}, add |-> {}, drop |-> {}, item |-> None]
    OBVIOUS
  <2>2. arg.ref = r /\ "items" \in SupplierOps /\ ItemsArg(arg)
    BY <2>1 DEF SupplierOps, ItemsArg
  <2>3. ArgTyped("items", arg)
    BY <2>2 DEF ArgTyped, ItemOps
  <2> QED
    BY <1>1, <1>8, <2>1, <2>2, <2>3
<1>9. ASSUME NEW r \in Customers,
             AskCustomer(h, "regenerateCustomer", r, [ref |-> r, existing |-> {}, made |-> None, code |-> None])
      PROVE  Starts(h) /\ AdminTyped'
  <2>1. PICK arg : arg = [ref |-> r, existing |-> {}, made |-> None, code |-> None]
    OBVIOUS
  <2>2. arg.ref = r /\ ArgTyped("regenerateCustomer", arg)
    BY <2>1 DEF ArgTyped, ItemOps
  <2> QED
    BY <1>2, <1>9, <2>1, <2>2
<1>10. ASSUME NEW r \in Customers, AskCustomer(h, "removeCustomer", r, [ref |-> r])
       PROVE  Starts(h) /\ AdminTyped'
  <2>1. PICK arg : arg = [ref |-> r]
    OBVIOUS
  <2>2. arg.ref = r /\ ArgTyped("removeCustomer", arg)
    BY <2>1 DEF ArgTyped, ItemOps
  <2> QED
    BY <1>2, <1>10, <2>1, <2>2
<1>11. ASSUME NEW op \in {"customerPhone", "createCustomer"}, NEW r \in Customers, NEW p,
              AskCustomer(h, op, r, [ref |-> r, phone |-> p])
       PROVE  Starts(h) /\ AdminTyped'
  <2>1. PICK arg : arg = [ref |-> r, phone |-> p]
    OBVIOUS
  <2>2. arg.ref = r /\ ArgTyped(op, arg)
    BY <2>1 DEF ArgTyped, ItemOps
  <2> QED
    BY <1>2, <1>11, <2>1, <2>2
<1>12. ASSUME NEW op \in {"assignCustomer", "unassignCustomer"}, NEW r \in Customers,
              NEW i \in Items, AskCustomer(h, op, r, [ref |-> r, item |-> i])
       PROVE  Starts(h) /\ AdminTyped'
  <2>1. PICK arg : arg = [ref |-> r, item |-> i]
    OBVIOUS
  <2>2. arg.ref = r /\ ArgTyped(op, arg)
    BY <2>1 DEF ArgTyped, ItemOps
  <2> QED
    BY <1>2, <1>12, <2>1, <2>2
<1> QED
  BY <1>3, <1>4, <1>5, <1>6, <1>7, <1>8, <1>9, <1>10, <1>11, <1>12 DEF AdminBegin

LEMMA KeeperStarts ==
  ASSUME Typed, NEW h \in Handlers, AskWerkaCode(h)
  PROVE  Starts(h) /\ AdminTyped' /\ SettingsTyped'
<1>1. PICK arg : arg = [ref |-> Keeper, code |-> None, made |-> None]
  OBVIOUS
<1>2. arg.ref = Keeper /\ ArgTyped("regenerateWerka", arg)
  BY <1>1 DEF ArgTyped, ItemOps
<1>3. KeysOf(arg.ref) = SettingsKeys
  BY <1>2 DEF KeysOf
<1>4. Begin(h, "regenerateWerka", "werkaState", KeysOf(arg.ref), arg) /\ regens' = RacedOut(arg.ref)
  BY <1>1, <1>2, <1>3 DEF AskWerkaCode, RacedOut
<1>5. /\ "regenerateWerka" \in OpsAt("werkaState")
      /\ "werkaState" \in StatePcs \ (HeldPcs \cup {"write", "sync", "deleteRows"})
  BY DEF OpsAt, StatePcs, AdminWaits, HeldPcs
<1>6. UNCHANGED <<states, oldStates, assigned>>
  BY DEF AskWerkaCode
<1>7. Starts(h) /\ AdminTyped'
  BY <1>2, <1>4, <1>5, <1>6, StartsWith
<1> QED
  BY <1>7 DEF AskWerkaCode, Typed, SettingsTyped

-----------------------------------------------------------------------------
(***************************************************************************)
(* Counting codes: a request that holds a state to write knows the codes   *)
(* of the window, and a new one is only made while there are few enough.   *)
(***************************************************************************)
LEMMA Bumped ==
  ASSUME NEW s \in StateRecords, NEW q \in Seq(Nat), now \in Nat, Counts(s, q), ~CodeLocked(s)
  PROVE  Counted(Bump(s), q, now)
<1>1. /\ s.started \in Nat \cup {None} /\ s.count \in Nat /\ Window \in Nat \ {0}
      /\ MaxCodeRegens \in Nat \ {0} /\ None \notin Nat
      /\ s = [code |-> s.code, blocked |-> s.blocked, removed |-> s.removed, items |-> s.items,
              started |-> s.started, count |-> s.count, cooldown |-> s.cooldown]
  BY AdminStatesAssumption, AccessAssumption DEF StateRecords
<1> DEFINE fresh == s.started = None \/ now - s.started >= Window
<1>2. PICK started, count, cooldown, b :
        /\ started = IF fresh THEN now ELSE s.started
        /\ count = IF fresh THEN 1 ELSE s.count + 1
        /\ cooldown = IF count >= MaxCodeRegens THEN started + Window
                      ELSE IF fresh THEN None ELSE s.cooldown
        /\ b = [s EXCEPT !.started = started, !.count = count, !.cooldown = cooldown]
  OBVIOUS
<1>3. Bump(s) = b
  BY <1>2, Zenon DEF Bump
<1>4. b.started = started /\ b.count = count /\ b.cooldown = cooldown
  BY <1>1, <1>2
<1>5. CASE q = <<>>
  <2>1. started = now /\ count = 1 /\ fresh
    BY <1>2, <1>5 DEF Counts
  <2>2. <<now>> # <<>> /\ <<now>>[1] = now /\ Len(<<now>>) = 1
    OBVIOUS
  <2>3. Counts(b, <<now>>)
    BY <1>1, <1>2, <1>4, <2>1, <2>2 DEF Counts, First
  <2> QED
    BY <1>3, <1>5, <2>3 DEF Counted
<1>6. CASE q # <<>> /\ now < First(q)
  <2>1. /\ s.started = q[1] /\ s.count = Len(q) /\ q[1] \in Nat /\ Len(q) \in Nat
        /\ Len(q) >= MaxCodeRegens => s.cooldown = First(q)
    BY <1>6 DEF Counts
  <2>2. Len(q) < MaxCodeRegens
    <3>1. SUFFICES ASSUME Len(q) >= MaxCodeRegens PROVE FALSE
      BY <1>1, <2>1
    <3>2. s.cooldown = q[1] + Window /\ now < s.cooldown
      BY <1>6, <2>1, <3>1 DEF First
    <3>3. s.cooldown # None
      BY <1>1, <2>1, <3>2
    <3> QED
      BY <3>2, <3>3 DEF CodeLocked
  <2>3. ~fresh
    BY <1>1, <1>2, <1>6, <2>1 DEF First
  <2>4. started = q[1] /\ count = Len(q) + 1
    BY <1>2, <2>1, <2>3
  <2>5. PICK a : a = Append(q, now)
    OBVIOUS
  <2>6. a # <<>> /\ a[1] = q[1] /\ Len(a) = Len(q) + 1
    BY <1>6, <2>5
  <2>7. Counts(b, a)
    BY <1>1, <1>2, <1>4, <2>1, <2>4, <2>6 DEF Counts, First
  <2> QED
    BY <1>3, <1>6, <2>2, <2>5, <2>7 DEF Counted
<1>7. CASE q # <<>> /\ ~(now < First(q))
  BY <1>7 DEF Counted
<1> QED
  BY <1>5, <1>6, <1>7

LEMMA BumpTyped ==
  ASSUME NEW s \in StateRecords, now \in Nat
  PROVE  Bump(s) \in StateRecords
<1>1. /\ Window \in Nat \ {0} /\ None \notin Nat
      /\ s.started \in Nat \cup {None} /\ s.count \in Nat /\ s.cooldown \in Nat \cup {None}
  BY AdminStatesAssumption, AccessAssumption DEF StateRecords
<1> DEFINE fresh == s.started = None \/ now - s.started >= Window
<1>2. PICK started, count, cooldown :
        /\ started = IF fresh THEN now ELSE s.started
        /\ count = IF fresh THEN 1 ELSE s.count + 1
        /\ cooldown = IF count >= MaxCodeRegens THEN started + Window
                      ELSE IF fresh THEN None ELSE s.cooldown
  OBVIOUS
<1>3. Bump(s) = [s EXCEPT !.started = started, !.count = count, !.cooldown = cooldown]
  BY <1>2, Zenon DEF Bump
<1>4. started \in Nat /\ count \in Nat /\ cooldown \in Nat \cup {None}
  BY <1>1, <1>2
<1> QED
  BY <1>3, <1>4 DEF StateRecords

\* The code itself does not matter for how codes are counted.
LEMMA CodeAside ==
  ASSUME NEW s \in StateRecords, NEW code \in AccessCodes
  PROVE  LET t == [s EXCEPT !.code = code] IN
         /\ t \in StateRecords
         /\ \A q : (Counts(s, q) => Counts(t, q)) /\ \A m : Counted(s, q, m) => Counted(t, q, m)
<1>1. PICK t : t = [s EXCEPT !.code = code]
  OBVIOUS
<1>2. t \in StateRecords /\ t.started = s.started /\ t.count = s.count /\ t.cooldown = s.cooldown
  BY <1>1 DEF StateRecords
<1>3. ASSUME NEW q PROVE Counts(s, q) => Counts(t, q)
  BY <1>2 DEF Counts
<1>4. ASSUME NEW q, NEW m PROVE Counted(s, q, m) => Counted(t, q, m)
  BY <1>3 DEF Counted
<1> QED
  BY <1>1, <1>2, <1>3, <1>4

LEMMA NewCodes ==
  ASSUME NEW prefix \in {"10", "20", "30", "40"}, NEW known, NEW code \in RandomCodes(prefix, known)
  PROVE  code \in AccessCodes
<1>1. PICK c \in Codes : code = [prefix |-> prefix, n |-> c]
  BY DEF RandomCodes
<1>2. c \in STRING
  BY AdminStatesAssumption
<1> QED
  BY <1>1, <1>2 DEF AccessCodes

-----------------------------------------------------------------------------
\* A step on to a place where the request holds the state to write.
Takes(h) ==
  /\ Working(h) /\ jobs[h].pc \in StatePcs /\ UNCHANGED <<states, oldStates, regens>>
  /\ \E j : /\ Continue(h, j) /\ OpenJob(j) /\ j.pc \in HeldPcs \cup {"write"}
            /\ j.arg.ref = jobs[h].arg.ref /\ j.keys = jobs[h].keys /\ j.alone = jobs[h].alone
            /\ RegenInv => RegenJob(j) /\ WritesLatest(j)

LEMMA TakesWith ==
  ASSUME Typed, NEW h \in Handlers, Working(h), jobs[h].pc \in StatePcs,
         NEW pc \in HeldPcs, jobs[h].op \in OpsAt(pc), NEW arg, arg.ref = jobs[h].arg.ref,
         ArgTyped(jobs[h].op, arg), MadeAt(jobs[h].op, pc, arg),
         NEW copy \in StateRecords, NEW phase,
         Continue(h, Moved(jobs[h], pc, arg, copy, phase)),
         UNCHANGED <<states, oldStates, regens>>,
         RegenInv /\ regens[arg.ref] # None =>
           IF jobs[h].op \in RegenOps /\ pc # "codes"
           THEN Counted(copy, regens[arg.ref], arg.made)
           ELSE SameRegens(copy, StateFor(arg.ref))
  PROVE  Takes(h)
<1>1. pc \in StatePcs /\ pc \notin {"write", "sync", "deleteRows"}
  BY StatePcsAre DEF HeldPcs
<1>2. CopyTyped(pc, copy)
  BY <1>1 DEF CopyTyped
<1>3. PICK k : k = Moved(jobs[h], pc, arg, copy, phase)
  OBVIOUS
<1>4. /\ OpenJob(k) /\ k.pc = pc /\ k.arg = arg /\ k.keys = jobs[h].keys
      /\ k.alone = jobs[h].alone /\ k.copy = copy /\ k.op = jobs[h].op
  BY <1>1, <1>2, <1>3, StateMoved
<1>5. copy # None
  BY StatesAssumption
<1>6. RegenInv => RegenJob(k) /\ WritesLatest(k)
  <2>1. ASSUME RegenInv, regens[arg.ref] # None PROVE RegenJob(k)
    BY <1>1, <1>4, <1>5, <2>1 DEF RegenJob
  <2>2. regens[arg.ref] = None => RegenJob(k)
    BY <1>4 DEF RegenJob
  <2>3. WritesLatest(k)
    BY <1>1, <1>4 DEF WritesLatest
  <2> QED
    BY <2>1, <2>2, <2>3
<1> QED
  BY <1>3, <1>4, <1>6 DEF Takes

\* What RegenInv says of the state a request is about, and of the one it holds.
LEMMA CountsAre ==
  ASSUME RegenInv, NEW h \in Handlers, Working(h), jobs[h].pc \in StatePcs,
         jobs[h].arg.ref \in Refs, regens[jobs[h].arg.ref] # None
  PROVE  /\ Counts(StateFor(jobs[h].arg.ref), regens[jobs[h].arg.ref])
         /\ RegenJob(jobs[h])
  BY DEF RegenInv

-----------------------------------------------------------------------------
LEMMA CodeCopyExcept ==
  ASSUME NEW j, IsJob(j), NEW pc, NEW v
  PROVE  [j EXCEPT !.pc = pc, !.arg.code = v, !.copy.code = v]
           = Moved(j, pc, [j.arg EXCEPT !.code = v], [j.copy EXCEPT !.code = v], j.phase)
<1>1. PICK k : k = [j EXCEPT !.pc = pc, !.arg.code = v, !.copy.code = v]
  OBVIOUS
<1>2. k = Moved(j, pc, [j.arg EXCEPT !.code = v], [j.copy EXCEPT !.code = v], j.phase)
  BY <1>1 DEF IsJob, Moved
<1> QED
  BY <1>1, <1>2

LEMMA StatesKept ==
  ASSUME Typed, UNCHANGED <<states, oldStates, assigned, regens>>
  PROVE  AdminTyped'
  BY DEF Typed, AdminTyped, Refs, Parties

\* To write a state that has been changed in another respect than the codes.
LEMMA PutsState ==
  ASSUME Typed, NEW h \in Handlers, Working(h), jobs[h].pc \in StatePcs,
         jobs[h].op \notin RegenOps, jobs[h].op \in StateOps,
         NEW copy \in StateRecords, SameRegens(copy, StateFor(Ref(h))),
         GoWith(h, "put", copy), UNCHANGED <<states, oldStates, regens>>
  PROVE  Takes(h)
<1>1. "put" \in HeldPcs /\ jobs[h].op \in OpsAt("put")
  BY DEF HeldPcs, OpsAt
<1>2. ArgTyped(jobs[h].op, jobs[h].arg) /\ MadeAt(jobs[h].op, "put", jobs[h].arg)
  BY StateJobIs DEF MadeAt
<1>3. Continue(h, Moved(jobs[h], "put", jobs[h].arg, copy, jobs[h].phase))
  BY Goes
<1> QED
  BY <1>1, <1>2, <1>3, TakesWith DEF Ref

LEMMA SupplierStateTakes ==
  ASSUME Typed, NEW h \in Handlers, SupplierState(h)
  PROVE  (Plain(h) \/ Takes(h)) /\ AdminTyped' /\ UNCHANGED <<states, oldStates, regens>>
<1>1. /\ Working(h) /\ jobs[h].pc = "state" /\ jobs[h].op \in SupplierOps
      /\ UNCHANGED <<states, oldStates, assigned, regens>>
  BY DEF SupplierState, At, adminVars
<1>2. AdminTyped'
  BY <1>1, StatesKept
<1>3. /\ "state" \in StatePcs
      /\ {"erpPhone", "insertRow", "rows", "known"} \subseteq StatePcs \ (HeldPcs \cup {"write"})
  BY DEF StatePcs, AdminWaits, HeldPcs
<1>4. PICK s : s = StateFor(Ref(h))
  OBVIOUS
<1>5. s \in StateRecords
  BY <1>1, <1>3, <1>4, StateJobIs, StateTyped DEF Ref, Typed
<1>6. SupplierNext(h, s)
  BY <1>4 DEF SupplierState
<1>7. CASE Finish(h)
  BY <1>1, <1>2, <1>7, PlainEnds
<1>8. CASE ~Finish(h) /\ jobs[h].op \in {"block", "unblock"}
  <2>1. PICK v, copy :
          v \in BOOLEAN /\ copy = [s EXCEPT !.blocked = v] /\ GoWith(h, "put", copy)
    <3>1. PICK v \in BOOLEAN : v = (jobs[h].op = "block")
      OBVIOUS
    <3> QED
      BY <1>6, <1>8, <3>1, Zenon DEF SupplierNext
  <2>2. copy \in StateRecords /\ SameRegens(copy, s)
    BY <1>5, <2>1 DEF StateRecords, SameRegens
  <2>3. jobs[h].op \notin RegenOps /\ jobs[h].op \in StateOps
    BY <1>8 DEF RegenOps, StateOps
  <2>4. Takes(h)
    BY <1>1, <1>3, <1>4, <2>1, <2>2, <2>3, PutsState
  <2> QED
    BY <1>1, <1>2, <2>4
<1>9. CASE ~Finish(h) /\ jobs[h].op \in {"remove", "restore"}
  <2>1. PICK v, copy :
          v \in BOOLEAN /\ copy = [s EXCEPT !.removed = v, !.blocked = v] /\ GoWith(h, "put", copy)
    <3>1. PICK v \in BOOLEAN : v = (jobs[h].op = "remove")
      OBVIOUS
    <3> QED
      BY <1>6, <1>9, <3>1, Zenon DEF SupplierNext
  <2>2. copy \in StateRecords /\ SameRegens(copy, s)
    BY <1>5, <2>1 DEF StateRecords, SameRegens
  <2>3. jobs[h].op \notin RegenOps /\ jobs[h].op \in StateOps
    BY <1>9 DEF RegenOps, StateOps
  <2>4. Takes(h)
    BY <1>1, <1>3, <1>4, <2>1, <2>2, <2>3, PutsState
  <2> QED
    BY <1>1, <1>2, <2>4
<1>10. CASE ~Finish(h) /\ jobs[h].op = "regenerate"
  <2>1. GoWith(h, "codes", s)
    BY <1>6, <1>10 DEF SupplierNext
  <2>2. Continue(h, Moved(jobs[h], "codes", jobs[h].arg, s, jobs[h].phase))
    BY <1>1, <2>1, Goes
  <2>3. "codes" \in HeldPcs /\ jobs[h].op \in OpsAt("codes")
    BY <1>10 DEF HeldPcs, OpsAt
  <2>4. ArgTyped(jobs[h].op, jobs[h].arg) /\ MadeAt(jobs[h].op, "codes", jobs[h].arg)
    BY <1>1, <1>3, StateJobIs DEF MadeAt
  <2>5. SameRegens(s, StateFor(jobs[h].arg.ref))
    BY <1>4 DEF SameRegens, Ref
  <2>6. Takes(h)
    BY <1>1, <1>3, <1>5, <2>2, <2>3, <2>4, <2>5, TakesWith
  <2> QED
    BY <1>1, <1>2, <2>6
<1>11. CASE ~Finish(h) /\ jobs[h].op \in {"supplierPhone", "assign", "unassign", "items"}
  <2>1. PICK pc : /\ pc \in {"erpPhone", "insertRow", "rows", "known"} /\ Go(h, pc)
                  /\ jobs[h].op \in OpsAt(pc)
    <3>1. /\ "supplierPhone" \in OpsAt("erpPhone") /\ "assign" \in OpsAt("insertRow")
          /\ "unassign" \in OpsAt("rows") /\ "items" \in OpsAt("known")
      BY DEF OpsAt, StateOps
    <3>2. \/ jobs[h].op = "supplierPhone" /\ Go(h, "erpPhone")
          \/ jobs[h].op = "assign" /\ Go(h, "insertRow")
          \/ jobs[h].op = "unassign" /\ Go(h, "rows")
          \/ jobs[h].op = "items" /\ Go(h, "known")
      BY <1>6, <1>11 DEF SupplierNext
    <3> QED
      BY <3>1, <3>2
  <2>2. Plain(h)
    BY <1>1, <1>3, <2>1, PlainGoes
  <2> QED
    BY <1>1, <1>2, <2>2
<1> QED
  BY <1>1, <1>7, <1>8, <1>9, <1>10, <1>11 DEF SupplierOps

LEMMA RestateTakes ==
  ASSUME Typed, NEW h \in Handlers, Restate(h)
  PROVE  (Plain(h) \/ Takes(h)) /\ AdminTyped' /\ UNCHANGED <<states, oldStates, regens>>
<1>1. /\ Working(h) /\ jobs[h].pc = "restate"
      /\ UNCHANGED <<states, oldStates, assigned, regens>>
  BY DEF Restate, At, stateVars, erpVars
<1>2. AdminTyped'
  BY <1>1, StatesKept
<1>3. "restate" \in StatePcs
  BY DEF StatePcs, AdminWaits
<1>4. PICK s, j : s = StateFor(Ref(h)) /\ j = jobs[h]
  OBVIOUS
<1>5. s \in StateRecords
  BY <1>1, <1>3, <1>4, StateJobIs, StateTyped DEF Ref, Typed
<1>6. j.op \in OpsAt("restate") /\ ArgTyped(j.op, j.arg)
  BY <1>1, <1>3, <1>4, StateJobIs
<1>7. j.op \in {"assign", "unassign", "items", "createSupplier"}
  BY <1>6 DEF OpsAt
<1>8. CASE Confirm(h)
  BY <1>1, <1>2, <1>8, PlainEnds DEF Confirm
<1>9. CASE ~Confirm(h)
  <2>1. PICK copy : copy = Restated(j, s) /\ GoWith(h, "put", copy)
    BY <1>4, <1>9 DEF Restate
  <2>2. copy \in StateRecords /\ SameRegens(copy, s)
    <3>1. CASE j.op = "assign"
      <4>1. j.arg.item \in Items
        BY <1>6, <3>1 DEF ArgTyped, ItemOps
      <4>2. copy = [s EXCEPT !.items = s.items \cup {j.arg.item}]
        BY <2>1, <3>1 DEF Restated
      <4> QED
        BY <1>5, <4>1, <4>2 DEF StateRecords, SameRegens
    <3>2. CASE j.op = "unassign"
      <4>1. copy = [s EXCEPT !.items = s.items \ {j.arg.item}]
        BY <2>1, <3>2 DEF Restated
      <4> QED
        BY <1>5, <4>1 DEF StateRecords, SameRegens
    <3>3. CASE j.op = "items"
      <4>1. j.arg.items \in SUBSET Items
        BY <1>6, <3>3 DEF ArgTyped, ItemsArg, ItemOps
      <4>2. copy = [s EXCEPT !.items = j.arg.items]
        BY <2>1, <3>3 DEF Restated
      <4> QED
        BY <1>5, <4>1, <4>2 DEF StateRecords, SameRegens
    <3>4. CASE j.op = "createSupplier"
      <4>1. copy = [s EXCEPT !.removed = FALSE, !.blocked = FALSE]
        BY <2>1, <3>4 DEF Restated
      <4> QED
        BY <1>5, <4>1 DEF StateRecords, SameRegens
    <3> QED
      BY <1>7, <3>1, <3>2, <3>3, <3>4
  <2>3. j.op \notin RegenOps /\ j.op \in StateOps
    BY <1>7 DEF RegenOps, StateOps
  <2>4. Takes(h)
    BY <1>1, <1>3, <1>4, <2>1, <2>2, <2>3, PutsState
  <2> QED
    BY <1>1, <1>2, <2>4
<1> QED
  BY <1>8, <1>9

\* To hold the state with a new code counted in it.
LEMMA TakesCode ==
  ASSUME Typed, NEW h \in Handlers, Working(h), jobs[h].pc \in StatePcs,
         jobs[h].op \in RegenOps, NEW pc \in HeldPcs \ {"codes"}, jobs[h].op \in OpsAt(pc),
         NEW arg, arg.ref = jobs[h].arg.ref, ArgTyped(jobs[h].op, arg), arg.made \in 0..now,
         NEW copy \in StateRecords, NEW phase,
         Continue(h, Moved(jobs[h], pc, arg, copy, phase)),
         UNCHANGED <<states, oldStates, regens>>,
         RegenInv /\ regens[arg.ref] # None => Counted(copy, regens[arg.ref], arg.made)
  PROVE  Takes(h)
<1>1. MadeAt(jobs[h].op, pc, arg)
  BY DEF MadeAt
<1> QED
  BY <1>1, TakesWith

\* A code is made of a state that allows it.
LEMMA MakesCode ==
  ASSUME Typed, NEW h \in Handlers, Working(h), jobs[h].pc \in StatePcs,
         NEW s \in StateRecords, ~CodeLocked(s), SameRegens(s, StateFor(Ref(h))) \/ ~RegenInv
  PROVE  /\ Bump(s) \in StateRecords
         /\ RegenInv /\ regens[Ref(h)] # None => Counted(Bump(s), regens[Ref(h)], now)
<1>1. now \in Nat /\ Ref(h) \in Refs /\ regens \in [Refs -> Seq(Nat) \cup {None}]
  BY AccessAssumption, StateJobIs DEF Typed, AdminTyped, Ref
<1>2. Bump(s) \in StateRecords
  BY <1>1, BumpTyped
<1>3. ASSUME RegenInv, regens[Ref(h)] # None PROVE Counted(Bump(s), regens[Ref(h)], now)
  <2>1. PICK q : q = regens[Ref(h)]
    OBVIOUS
  <2>2. q \in Seq(Nat)
    BY <1>1, <1>3, <2>1
  <2>3. Counts(StateFor(Ref(h)), q)
    BY <1>1, <1>3, <2>1, CountsAre DEF Ref
  <2>4. Counts(s, q)
    BY <1>3, <2>3 DEF Counts, SameRegens
  <2> QED
    BY <1>1, <2>1, <2>2, <2>4, Bumped
<1> QED
  BY <1>2, <1>3

LEMMA RegenerateTakes ==
  ASSUME Typed, NEW h \in Handlers, RegenerateCode(h)
  PROVE  (Plain(h) \/ Takes(h)) /\ AdminTyped' /\ UNCHANGED <<states, oldStates, regens>>
<1>1. /\ Working(h) /\ jobs[h].pc = "codes" /\ jobs[h].op = "regenerate"
      /\ UNCHANGED <<states, oldStates, assigned, regens>>
  BY DEF RegenerateCode, At, adminVars
<1>2. AdminTyped'
  BY <1>1, StatesKept
<1>3. /\ "codes" \in StatePcs /\ "codes" \in HeldPcs /\ "put" \in HeldPcs \ {"codes"}
      /\ "regenerate" \in RegenOps /\ "regenerate" \in OpsAt("put")
  BY DEF StatePcs, AdminWaits, HeldPcs, RegenOps, OpsAt, StateOps
<1>4. PICK j, s : j = jobs[h] /\ s = j.copy
  OBVIOUS
<1>5. /\ IsJob(j) /\ s \in StateRecords /\ ArgTyped(j.op, j.arg) /\ j.arg.ref \in Refs
  BY <1>1, <1>3, <1>4, JobOf, StateJobIs DEF CopyTyped
<1>6. CASE Finish(h)
  BY <1>1, <1>2, <1>6, PlainEnds
<1>7. CASE ~Finish(h)
  <2>1. ~CodeLocked(s)
    BY <1>4, <1>7 DEF RegenerateCode
  <2>2. PICK code, b, c, n, arg :
          /\ code \in RandomCodes("10", ExistingCodes) /\ b = Bump(s)
          /\ c = [b EXCEPT !.code = code] /\ n = now
          /\ arg = [j.arg EXCEPT !.code = code, !.made = n]
          /\ Continue(h, [j EXCEPT !.pc = "put", !.arg.code = code, !.arg.made = n, !.copy = c])
    BY <1>4, <1>7 DEF RegenerateCode
  <2>3. Continue(h, Moved(j, "put", arg, c, j.phase))
    <3>1. PICK k : k = [j EXCEPT !.pc = "put", !.arg.code = code, !.arg.made = n, !.copy = c]
      OBVIOUS
    <3>2. k = Moved(j, "put", arg, c, j.phase)
      BY <1>5, <2>2, <3>1 DEF IsJob, Moved
    <3> QED
      BY <2>2, <3>1, <3>2
  <2>4. j.arg = [ref |-> j.arg.ref, code |-> j.arg.code, made |-> j.arg.made]
    BY <1>1, <1>4, <1>5 DEF ArgTyped
  <2>5. arg = [ref |-> j.arg.ref, code |-> code, made |-> n]
    BY <2>2, <2>4
  <2>6. arg.ref = j.arg.ref /\ arg.made = n /\ ArgTyped(j.op, arg)
    BY <1>1, <1>4, <2>5 DEF ArgTyped, ItemOps
  <2>7. n \in 0..now
    BY <2>2, AccessAssumption DEF Typed
  <2>8. SameRegens(s, StateFor(Ref(h))) \/ ~RegenInv \/ regens[Ref(h)] = None
    BY <1>1, <1>3, <1>4, <1>5, CountsAre DEF RegenJob, Ref
  <2>9. /\ b \in StateRecords
        /\ RegenInv /\ regens[Ref(h)] # None => Counted(b, regens[Ref(h)], n)
    <3>1. b \in StateRecords
      BY <1>5, <2>2, BumpTyped, AccessAssumption DEF Typed
    <3>2. ASSUME RegenInv, regens[Ref(h)] # None PROVE Counted(b, regens[Ref(h)], n)
      BY <1>1, <1>3, <1>5, <2>1, <2>2, <2>8, <3>2, MakesCode
    <3> QED
      BY <3>1, <3>2
  <2>10. code \in AccessCodes
    BY <2>2, NewCodes
  <2>11. /\ c \in StateRecords
         /\ \A q, m : Counted(b, q, m) => Counted(c, q, m)
    BY <2>2, <2>9, <2>10, CodeAside
  <2>12. RegenInv /\ regens[arg.ref] # None => Counted(c, regens[arg.ref], arg.made)
    BY <1>4, <2>6, <2>9, <2>11 DEF Ref
  <2>13. Takes(h)
    BY <1>1, <1>3, <1>4, <2>3, <2>6, <2>7, <2>11, <2>12, TakesCode
  <2> QED
    BY <1>1, <1>2, <2>13
<1> QED
  BY <1>6, <1>7

LEMMA CustomerStateTakes ==
  ASSUME Typed, NEW h \in Handlers, CustomerState(h)
  PROVE  (Plain(h) \/ Takes(h)) /\ AdminTyped' /\ UNCHANGED <<states, oldStates, regens>>
<1>1. /\ Working(h) /\ jobs[h].pc = "state" /\ jobs[h].op \notin SupplierOps
      /\ UNCHANGED <<states, oldStates, assigned, regens>>
  BY DEF CustomerState, At, adminVars
<1>2. AdminTyped'
  BY <1>1, StatesKept
<1>3. /\ "state" \in StatePcs /\ "prefix" \in HeldPcs \ {"codes"}
      /\ {"insertRow", "rows"} \subseteq StatePcs \ (HeldPcs \cup {"write"})
      /\ "assignCustomer" \in OpsAt("insertRow") /\ "unassignCustomer" \in OpsAt("rows")
      /\ "regenerateCustomer" \in OpsAt("prefix") /\ "regenerateCustomer" \in RegenOps
      /\ "removeCustomer" \in StateOps /\ "removeCustomer" \notin RegenOps
  BY DEF StatePcs, AdminWaits, HeldPcs, OpsAt, RegenOps, StateOps
<1>4. PICK s, j : s = StateFor(Ref(h)) /\ j = jobs[h]
  OBVIOUS
<1>5. /\ s \in StateRecords /\ IsJob(j) /\ j.op \in OpsAt("state") /\ ArgTyped(j.op, j.arg)
  BY <1>1, <1>3, <1>4, StateJobIs, StateTyped, JobOf DEF Ref, Typed
<1>6. j.op \in {"removeCustomer", "regenerateCustomer", "assignCustomer", "unassignCustomer"}
  BY <1>1, <1>4, <1>5 DEF OpsAt
<1>7. CASE Finish(h)
  BY <1>1, <1>2, <1>7, PlainEnds
<1>8. CASE ~Finish(h) /\ j.op = "removeCustomer"
  <2>1. PICK copy : copy = [s EXCEPT !.removed = TRUE, !.blocked = TRUE] /\ GoWith(h, "put", copy)
    BY <1>4, <1>8 DEF CustomerState
  <2>2. copy \in StateRecords /\ SameRegens(copy, s)
    BY <1>5, <2>1 DEF StateRecords, SameRegens
  <2>3. Takes(h)
    BY <1>1, <1>3, <1>4, <1>8, <2>1, <2>2, PutsState
  <2> QED
    BY <1>1, <1>2, <2>3
<1>9. CASE ~Finish(h) /\ j.op = "regenerateCustomer"
  <2>1. ~CodeLocked(s)
    BY <1>4, <1>9 DEF CustomerState
  <2>2. PICK b, n, arg :
          /\ b = Bump(s) /\ n = now /\ arg = [j.arg EXCEPT !.made = n]
          /\ Continue(h, [j EXCEPT !.pc = "prefix", !.arg.made = n, !.copy = b])
    BY <1>4, <1>9 DEF CustomerState
  <2>3. Continue(h, Moved(j, "prefix", arg, b, j.phase))
    <3>1. PICK k : k = [j EXCEPT !.pc = "prefix", !.arg.made = n, !.copy = b]
      OBVIOUS
    <3>2. k = Moved(j, "prefix", arg, b, j.phase)
      BY <1>5, <2>2, <3>1 DEF IsJob, Moved
    <3> QED
      BY <2>2, <3>1, <3>2
  <2>4. j.arg = [ref |-> j.arg.ref, existing |-> j.arg.existing, made |-> j.arg.made,
            code |-> j.arg.code] /\ j.arg.code \in AccessCodes \cup {None}
    BY <1>5, <1>9 DEF ArgTyped
  <2>5. arg = [ref |-> j.arg.ref, existing |-> j.arg.existing, made |-> n, code |-> j.arg.code]
    BY <2>2, <2>4
  <2>6. arg.ref = j.arg.ref /\ arg.made = n /\ ArgTyped(j.op, arg)
    BY <1>9, <2>4, <2>5 DEF ArgTyped, ItemOps
  <2>7. n \in 0..now
    BY <2>2, AccessAssumption DEF Typed
  <2>8. SameRegens(s, StateFor(Ref(h)))
    BY <1>4 DEF SameRegens
  <2>9. /\ b \in StateRecords
        /\ RegenInv /\ regens[Ref(h)] # None => Counted(b, regens[Ref(h)], n)
    BY <1>1, <1>3, <1>5, <2>1, <2>2, <2>8, MakesCode
  <2>10. RegenInv /\ regens[arg.ref] # None => Counted(b, regens[arg.ref], arg.made)
    BY <1>4, <2>6, <2>9 DEF Ref
  <2>11. Takes(h)
    BY <1>1, <1>3, <1>4, <1>9, <2>3, <2>6, <2>7, <2>9, <2>10, TakesCode
  <2> QED
    BY <1>1, <1>2, <2>11
<1>10. CASE ~Finish(h) /\ j.op \in {"assignCustomer", "unassignCustomer"}
  <2>1. \/ j.op = "assignCustomer" /\ Go(h, "insertRow")
        \/ j.op = "unassignCustomer" /\ Go(h, "rows")
    BY <1>4, <1>10 DEF CustomerState
  <2>2. Plain(h)
    BY <1>1, <1>3, <1>4, <2>1, PlainGoes
  <2> QED
    BY <1>1, <1>2, <2>2
<1> QED
  BY <1>6, <1>7, <1>8, <1>9, <1>10

LEMMA CustomerCodeTakes ==
  ASSUME Typed, NEW h \in Handlers, CustomerCode(h)
  PROVE  Takes(h) /\ AdminTyped' /\ UNCHANGED <<states, oldStates, regens>>
<1>1. /\ Working(h) /\ jobs[h].pc = "prefix"
      /\ UNCHANGED <<states, oldStates, assigned, regens>>
  BY DEF CustomerCode, At, adminVars
<1>2. AdminTyped'
  BY <1>1, StatesKept
<1>3. /\ "prefix" \in StatePcs /\ "prefix" \in HeldPcs /\ "put" \in HeldPcs \ {"codes"}
      /\ "regenerateCustomer" \in OpsAt("put") /\ "regenerateCustomer" \in RegenOps
  BY DEF StatePcs, AdminWaits, HeldPcs, OpsAt, RegenOps, StateOps
<1>4. PICK j, s : j = jobs[h] /\ s = j.copy
  OBVIOUS
<1>5. /\ j.op \in OpsAt("prefix") /\ ArgTyped(j.op, j.arg) /\ CopyTyped("prefix", s)
      /\ MadeAt(j.op, "prefix", j.arg) /\ j.arg.ref \in Refs /\ IsJob(j)
  BY <1>1, <1>3, <1>4, StateJobIs, JobOf
<1>6. j.op = "regenerateCustomer" /\ s \in StateRecords /\ j.arg.made \in 0..now
  <2>1. j.op = "regenerateCustomer"
    BY <1>5 DEF OpsAt
  <2> QED
    BY <1>3, <1>5, <2>1 DEF CopyTyped, MadeAt
<1>7. PICK code, c, arg :
        /\ c = [s EXCEPT !.code = code] /\ arg = [j.arg EXCEPT !.code = code]
        /\ Continue(h, [j EXCEPT !.pc = "put", !.arg.code = code, !.copy.code = code])
        /\ code \in RandomCodes(CustomerPrefix(Ref(h)), jobs[h].arg.existing)
  BY <1>4 DEF CustomerCode
<1>8. code \in AccessCodes
  <2>1. PICK p, known : p = CustomerPrefix(Ref(h)) /\ known = jobs[h].arg.existing
    OBVIOUS
  <2>2. p \in {"10", "20", "30", "40"}
    BY <2>1 DEF CustomerPrefix
  <2> QED
    BY <1>7, <2>1, <2>2, NewCodes
<1>9. /\ c \in StateRecords
      /\ \A q, m : Counted(s, q, m) => Counted(c, q, m)
  BY <1>6, <1>7, <1>8, CodeAside
<1>10. Continue(h, Moved(j, "put", arg, c, j.phase))
  <2>1. [j EXCEPT !.pc = "put", !.arg.code = code, !.copy.code = code]
          = Moved(j, "put", [j.arg EXCEPT !.code = code], [j.copy EXCEPT !.code = code], j.phase)
    BY <1>5, CodeCopyExcept
  <2> QED
    BY <1>4, <1>7, <2>1
<1>14. arg.ref = j.arg.ref /\ arg.made = j.arg.made /\ ArgTyped(j.op, arg)
  <2>1. j.arg = [ref |-> j.arg.ref, existing |-> j.arg.existing, made |-> j.arg.made,
                 code |-> j.arg.code]
    BY <1>5, <1>6 DEF ArgTyped
  <2>2. arg = [ref |-> j.arg.ref, existing |-> j.arg.existing, made |-> j.arg.made, code |-> code]
    BY <1>7, <2>1
  <2> QED
    BY <1>6, <1>8, <2>2 DEF ArgTyped, ItemOps
<1>11. RegenInv /\ regens[j.arg.ref] # None => Counted(s, regens[j.arg.ref], j.arg.made)
  <2>1. RegenInv /\ regens[j.arg.ref] # None => RegenJob(j)
    BY <1>1, <1>3, <1>4, <1>5, CountsAre
  <2> QED
    BY <1>1, <1>3, <1>4, <1>6, <2>1 DEF RegenJob
<1>12. RegenInv /\ regens[arg.ref] # None => Counted(c, regens[arg.ref], arg.made)
  BY <1>9, <1>11, <1>14
<1>13. Takes(h)
  BY <1>1, <1>3, <1>4, <1>6, <1>9, <1>10, <1>12, <1>14, TakesCode
<1> QED
  BY <1>1, <1>2, <1>13

LEMMA WerkaStateTakes ==
  ASSUME Typed, NEW h \in Handlers, WerkaState(h)
  PROVE  (Plain(h) \/ Takes(h)) /\ AdminTyped' /\ UNCHANGED <<states, oldStates, regens>>
<1>1. /\ Working(h) /\ jobs[h].pc = "werkaState"
      /\ UNCHANGED <<states, oldStates, assigned, regens>>
  BY DEF WerkaState, At, adminVars
<1>2. AdminTyped'
  BY <1>1, StatesKept
<1>3. /\ "werkaState" \in StatePcs /\ "werkaCode" \in HeldPcs \ {"codes"}
      /\ "regenerateWerka" \in OpsAt("werkaCode") /\ "regenerateWerka" \in RegenOps
  BY DEF StatePcs, AdminWaits, HeldPcs, OpsAt, RegenOps
<1>4. PICK s, j : s = StateFor(Keeper) /\ j = jobs[h]
  OBVIOUS
<1>5. /\ s \in StateRecords /\ IsJob(j) /\ j.op \in OpsAt("werkaState") /\ ArgTyped(j.op, j.arg)
      /\ IF j.op = "regenerateWerka" THEN j.arg.ref = Keeper ELSE j.arg.ref \in Parties
  BY <1>1, <1>3, <1>4, StateJobIs, StateTyped, JobOf DEF Keeper, Refs, Typed
<1>6. j.op = "regenerateWerka" /\ j.arg.ref = Keeper
  <2>1. j.op = "regenerateWerka"
    BY <1>5 DEF OpsAt
  <2> QED
    BY <1>5, <2>1
<1>7. CASE Finish(h)
  BY <1>1, <1>2, <1>7, PlainEnds
<1>8. CASE ~Finish(h)
  <2>1. ~CodeLocked(s)
    BY <1>4, <1>8 DEF WerkaState
  <2>2. PICK b, n, arg :
          /\ b = Bump(s) /\ n = now /\ arg = [j.arg EXCEPT !.made = n]
          /\ Continue(h, [j EXCEPT !.pc = "werkaCode", !.arg.made = n, !.copy = b])
    BY <1>4, <1>8 DEF WerkaState
  <2>3. Continue(h, Moved(j, "werkaCode", arg, b, j.phase))
    <3>1. PICK k : k = [j EXCEPT !.pc = "werkaCode", !.arg.made = n, !.copy = b]
      OBVIOUS
    <3>2. k = Moved(j, "werkaCode", arg, b, j.phase)
      BY <1>5, <2>2, <3>1 DEF IsJob, Moved
    <3> QED
      BY <2>2, <3>1, <3>2
  <2>4. j.arg = [ref |-> j.arg.ref, code |-> j.arg.code, made |-> j.arg.made]
    BY <1>5, <1>6 DEF ArgTyped
  <2>5. arg = [ref |-> j.arg.ref, code |-> j.arg.code, made |-> n]
    BY <2>2, <2>4
  <2>6. arg.ref = j.arg.ref /\ arg.made = n /\ ArgTyped(j.op, arg)
    BY <1>6, <2>5 DEF ArgTyped, ItemOps
  <2>7. n \in 0..now
    BY <2>2, AccessAssumption DEF Typed
  <2>8. SameRegens(s, StateFor(Ref(h)))
    BY <1>4, <1>6 DEF SameRegens, Ref
  <2>9. /\ b \in StateRecords
        /\ RegenInv /\ regens[Ref(h)] # None => Counted(b, regens[Ref(h)], n)
    BY <1>1, <1>3, <1>5, <2>1, <2>2, <2>8, MakesCode
  <2>10. RegenInv /\ regens[arg.ref] # None => Counted(b, regens[arg.ref], arg.made)
    BY <1>4, <2>6, <2>9 DEF Ref
  <2>11. Takes(h)
    BY <1>1, <1>3, <1>4, <1>6, <2>3, <2>6, <2>7, <2>9, <2>10, TakesCode
  <2> QED
    BY <1>1, <1>2, <2>11
<1> QED
  BY <1>7, <1>8

LEMMA WerkaCodeTakes ==
  ASSUME Typed, NEW h \in Handlers, WerkaCode(h)
  PROVE  Takes(h) /\ AdminTyped' /\ UNCHANGED <<states, oldStates, regens>>
<1>1. /\ Working(h) /\ jobs[h].pc = "werkaCode"
      /\ UNCHANGED <<states, oldStates, assigned, regens>>
  BY DEF WerkaCode, At, adminVars
<1>2. AdminTyped'
  BY <1>1, StatesKept
<1>3. /\ "werkaCode" \in StatePcs /\ "werkaCode" \in HeldPcs /\ "put" \in HeldPcs \ {"codes"}
      /\ "regenerateWerka" \in OpsAt("put") /\ "regenerateWerka" \in RegenOps
  BY DEF StatePcs, AdminWaits, HeldPcs, OpsAt, RegenOps, StateOps
<1>4. PICK j, s : j = jobs[h] /\ s = j.copy
  OBVIOUS
<1>5. /\ IsJob(j) /\ j.op \in OpsAt("werkaCode") /\ ArgTyped(j.op, j.arg)
      /\ CopyTyped("werkaCode", s) /\ MadeAt(j.op, "werkaCode", j.arg) /\ j.arg.ref \in Refs
  BY <1>1, <1>3, <1>4, StateJobIs, JobOf
<1>6. j.op = "regenerateWerka" /\ s \in StateRecords /\ j.arg.made \in 0..now
  <2>1. j.op = "regenerateWerka"
    BY <1>5 DEF OpsAt
  <2> QED
    BY <1>3, <1>5, <2>1 DEF CopyTyped, MadeAt
<1>7. PICK code, c, arg :
        /\ code \in RandomCodes("20", {}) /\ c = [s EXCEPT !.code = code]
        /\ arg = [j.arg EXCEPT !.code = code]
        /\ Continue(h, [j EXCEPT !.pc = "put", !.arg.code = code, !.copy.code = code])
  BY <1>4 DEF WerkaCode
<1>8. Continue(h, Moved(j, "put", arg, c, j.phase))
  <2>1. [j EXCEPT !.pc = "put", !.arg.code = code, !.copy.code = code]
          = Moved(j, "put", [j.arg EXCEPT !.code = code], [j.copy EXCEPT !.code = code], j.phase)
    BY <1>5, CodeCopyExcept
  <2> QED
    BY <1>4, <1>7, <2>1
<1>9. code \in AccessCodes
  BY <1>7, NewCodes
<1>10. /\ c \in StateRecords
       /\ \A q, m : Counted(s, q, m) => Counted(c, q, m)
  BY <1>6, <1>7, <1>9, CodeAside
<1>11. arg.ref = j.arg.ref /\ arg.made = j.arg.made /\ ArgTyped(j.op, arg)
  <2>1. j.arg = [ref |-> j.arg.ref, code |-> j.arg.code, made |-> j.arg.made]
    BY <1>5, <1>6 DEF ArgTyped
  <2>2. arg = [ref |-> j.arg.ref, code |-> code, made |-> j.arg.made]
    BY <1>7, <2>1
  <2> QED
    BY <1>6, <2>2 DEF ArgTyped, ItemOps
<1>12. RegenInv /\ regens[j.arg.ref] # None => Counted(s, regens[j.arg.ref], j.arg.made)
  <2>1. RegenInv /\ regens[j.arg.ref] # None => RegenJob(j)
    BY <1>1, <1>3, <1>4, <1>5, CountsAre
  <2> QED
    BY <1>1, <1>3, <1>4, <1>6, <2>1 DEF RegenJob
<1>13. RegenInv /\ regens[arg.ref] # None => Counted(c, regens[arg.ref], arg.made)
  BY <1>10, <1>11, <1>12
<1>14. Takes(h)
  BY <1>1, <1>3, <1>4, <1>6, <1>8, <1>10, <1>11, <1>13, TakesCode
<1> QED
  BY <1>1, <1>2, <1>14

-----------------------------------------------------------------------------
LEMMA FreePlain ==
  ASSUME Typed, NEW h \in Handlers, Working(h), NEW pc \in FreePcs, Go(h, pc)
  PROVE  Plain(h)
<1>1. PICK k : k = Moved(jobs[h], pc, jobs[h].arg, jobs[h].copy, jobs[h].phase)
  OBVIOUS
<1>2. /\ IsJob(k) /\ k.pc = pc /\ k.keys = jobs[h].keys /\ k.alone = jobs[h].alone
  BY <1>1, MovedIs
<1>3. k.alone \in BOOLEAN
  BY <1>2, JobOf DEF OpenJob
<1>4. OpenJob(k) /\ Beside(k)
  BY <1>2, <1>3, FreeOpen
<1>5. k.pc \notin TokenPcs \cup {"keep", "write"} \cup HeldPcs /\ k.pc \notin StatePcs
  BY <1>4, StatePcsAre DEF Beside
<1>6. Continue(h, k)
  BY <1>1, Goes
<1> QED
  BY <1>2, <1>4, <1>5, <1>6 DEF Plain

\* A state is written, and a code that was made of it is counted.
Stores(h) ==
  LET j == jobs[h]
      r == j.arg.ref IN
  /\ Plain(h) /\ Working(h) /\ j.pc = IF Lmdb THEN "put" ELSE "write"
  /\ UNCHANGED oldStates
  /\ states' = IF Lmdb THEN [Migrated EXCEPT ![r] = j.copy] ELSE j.copy
  /\ regens' = IF j.op \in RegenOps /\ regens[r] # None
               THEN [regens EXCEPT ![r] = Append(@, j.arg.made)] ELSE regens

LEMMA StoredPlain ==
  ASSUME Typed, NEW h \in Handlers, Working(h), jobs[h].pc \in StatePcs, Stored(h)
  PROVE  Plain(h)
<1>1. CASE jobs[h].op = "regenerateCustomer"
  <2>1. Go(h, "erpCode")
    BY <1>1 DEF Stored
  <2>2. jobs[h].op \in OpsAt("erpCode")
    BY <1>1 DEF OpsAt, StateOps
  <2>3. "erpCode" \in StatePcs \ (HeldPcs \cup {"write"}) /\ "erpCode" \notin {"sync", "deleteRows"}
    BY DEF StatePcs, AdminWaits, HeldPcs
  <2> QED
    BY <2>1, <2>2, <2>3, PlainGoes
<1>2. CASE jobs[h].op = "regenerateWerka"
  <2>1. Go(h, "config") /\ "config" \in FreePcs
    BY <1>2 DEF Stored, FreePcs
  <2> QED
    BY <2>1, FreePlain
<1>3. CASE jobs[h].op \notin {"regenerateCustomer", "regenerateWerka"}
  <2>1. Finish(h)
    BY <1>3 DEF Stored, Confirm
  <2> QED
    BY <2>1, PlainEnds
<1> QED
  BY <1>1, <1>2, <1>3

LEMMA StoresState ==
  ASSUME Typed, NEW h \in Handlers, Working(h), Stored(h), UNCHANGED <<oldStates, assigned>>,
         jobs[h].pc = IF Lmdb THEN "put" ELSE "write",
         states' = IF Lmdb THEN [Migrated EXCEPT ![jobs[h].arg.ref] = jobs[h].copy] ELSE jobs[h].copy
  PROVE  Stores(h) /\ AdminTyped'
<1>1. jobs[h].pc \in {"put", "write"} /\ {"put", "write"} \subseteq StatePcs /\ "put" \in HeldPcs
  BY StatePcsAre DEF HeldPcs
<1>2. Plain(h)
  BY <1>1, StoredPlain
<1>3. PICK j, r : j = jobs[h] /\ r = j.arg.ref
  OBVIOUS
<1>4. /\ r \in Refs /\ CopyTyped(j.pc, j.copy) /\ MadeAt(j.op, j.pc, j.arg)
  BY <1>1, <1>3, StateJobIs
<1>5. /\ states \in [Refs -> StateRecords \cup {None}] /\ oldStates \in [Refs -> StateRecords \cup {None}]
      /\ regens \in [Refs -> Seq(Nat) \cup {None}] /\ AreRows(assigned)
      /\ \A x \in Refs : Migrated[x] \in StateRecords \cup {None}
  BY StateTyped DEF Typed, AdminTyped
<1>6. regens' = IF j.op \in RegenOps /\ regens[r] # None
                THEN [regens EXCEPT ![r] = Append(@, j.arg.made)] ELSE regens
  BY <1>3 DEF Stored, RegenOps, Ref
<1>7. Stores(h)
  BY <1>2, <1>3, <1>6 DEF Stores
<1>8. states' \in [Refs -> StateRecords \cup {None}]
  <2>1. CASE Lmdb
    <3>1. j.copy \in StateRecords
      BY <1>1, <1>3, <1>4, <2>1 DEF CopyTyped
    <3>2. Migrated \in [Refs -> StateRecords \cup {None}]
      BY <1>5 DEF Migrated
    <3> HIDE DEF Migrated
    <3> QED
      BY <1>3, <2>1, <3>1, <3>2
  <2>2. CASE ~Lmdb
    BY <1>3, <1>4, <2>2 DEF CopyTyped
  <2> QED
    BY <2>1, <2>2
<1>9. regens' \in [Refs -> Seq(Nat) \cup {None}]
  <2>1. CASE j.op \in RegenOps /\ regens[r] # None
    <3>1. j.arg.made \in Nat
      BY <1>1, <1>3, <1>4, <2>1, AccessAssumption DEF MadeAt, Typed
    <3>2. regens[r] \in Seq(Nat)
      BY <1>4, <1>5, <2>1
    <3>3. PICK q : q = Append(regens[r], j.arg.made)
      OBVIOUS
    <3>4. q \in Seq(Nat)
      BY <3>1, <3>2, <3>3
    <3>5. regens' = [regens EXCEPT ![r] = q]
      BY <1>6, <2>1, <3>3
    <3> QED
      BY <1>4, <1>5, <3>4, <3>5
  <2>2. CASE ~(j.op \in RegenOps /\ regens[r] # None)
    BY <1>5, <1>6, <2>2
  <2> QED
    BY <2>1, <2>2
<1> QED
  BY <1>5, <1>7, <1>8, <1>9 DEF AdminTyped, Refs, Parties

LEMMA WritesTake ==
  ASSUME Typed, NEW h \in Handlers, PutState(h) \/ WriteFile(h)
  PROVE  (Takes(h) \/ Stores(h)) /\ AdminTyped'
<1>1. CASE PutState(h) /\ Lmdb
  <2>1. /\ Working(h) /\ jobs[h].pc = "put" /\ Stored(h) /\ UNCHANGED <<oldStates, assigned>>
        /\ states' = [Migrated EXCEPT ![jobs[h].arg.ref] = jobs[h].copy]
    BY <1>1 DEF PutState, At, erpVars, Ref
  <2> QED
    BY <1>1, <2>1, StoresState
<1>2. CASE WriteFile(h)
  <2>1. /\ Working(h) /\ jobs[h].pc = "write" /\ Stored(h) /\ UNCHANGED <<oldStates, assigned>>
        /\ states' = jobs[h].copy
    BY <1>2 DEF WriteFile, At, erpVars
  <2>2. ~Lmdb
    BY <2>1, StateJobIs, StatePcsAre DEF CopyTyped
  <2> QED
    BY <2>1, <2>2, StoresState
<1>3. CASE PutState(h) /\ ~Lmdb
  <2>1. PICK j, r, c, s : /\ j = jobs[h] /\ r = j.arg.ref /\ s = j.copy /\ c = [states EXCEPT ![r] = s]
                          /\ Continue(h, [j EXCEPT !.pc = "write", !.copy = c])
    BY <1>3 DEF PutState, Ref
  <2>2. /\ Working(h) /\ j.pc = "put" /\ UNCHANGED <<states, oldStates, assigned, regens>>
    BY <1>3, <2>1 DEF PutState, At, erpVars
  <2>3. {"put", "write"} \subseteq StatePcs /\ "put" \in HeldPcs /\ "write" \notin HeldPcs
    BY StatePcsAre DEF HeldPcs
  <2>4. /\ r \in Refs /\ CopyTyped("put", s) /\ MadeAt(j.op, "put", j.arg) /\ ArgTyped(j.op, j.arg)
        /\ j.op \in OpsAt("put") /\ IsJob(j)
    BY <2>1, <2>2, <2>3, StateJobIs, JobOf
  <2>5. s \in StateRecords /\ states \in [Refs -> StateRecords \cup {None}]
    BY <2>3, <2>4 DEF CopyTyped, Typed, AdminTyped
  <2>6. /\ c \in [Refs -> StateRecords \cup {None}] /\ c[r] = s
        /\ \A x \in Refs \ {r} : c[x] = states[x]
    BY <2>1, <2>4, <2>5
  <2>7. CopyTyped("write", c) /\ MadeAt(j.op, "write", j.arg) /\ j.op \in OpsAt("write")
    BY <1>3, <2>3, <2>4, <2>6 DEF CopyTyped, MadeAt, OpsAt
  <2>8. PICK k : k = Moved(j, "write", j.arg, c, j.phase)
    OBVIOUS
  <2>9. /\ OpenJob(k) /\ k.pc = "write" /\ k.arg = j.arg /\ k.keys = j.keys
        /\ k.alone = j.alone /\ k.copy = c /\ k.op = j.op
    <3>1. jobs[h].pc \in StatePcs /\ "write" \in StatePcs /\ j.arg.ref = jobs[h].arg.ref
      BY <2>1, <2>2, <2>3
    <3>2. /\ jobs[h].op \in OpsAt("write") /\ ArgTyped(jobs[h].op, j.arg)
          /\ CopyTyped("write", c) /\ MadeAt(jobs[h].op, "write", j.arg)
      BY <2>1, <2>4, <2>7
    <3>3. k = Moved(jobs[h], "write", j.arg, c, j.phase)
      BY <2>1, <2>8
    <3>4. /\ OpenJob(k) /\ k.pc = "write" /\ k.arg = j.arg /\ k.keys = jobs[h].keys
          /\ k.alone = jobs[h].alone /\ k.copy = c /\ k.op = jobs[h].op
      BY <2>2, <3>1, <3>2, <3>3, StateMoved
    <3> QED
      BY <2>1, <3>4
  <2>10. Continue(h, k)
    <3>1. [j EXCEPT !.pc = "write", !.copy = c] = Moved(j, "write", j.arg, c, j.phase)
      BY <2>4, ExceptIs
    <3> QED
      BY <2>1, <2>8, <3>1
  <2>11. RegenInv => RegenJob(k) /\ WritesLatest(k)
    <3>1. WritesLatest(k)
      BY <2>1, <2>6, <2>9 DEF WritesLatest
    <3>2. ASSUME RegenInv, regens[r] # None PROVE RegenJob(k)
      <4>1. RegenJob(j)
        BY <2>1, <2>2, <2>3, <2>4, <3>2, CountsAre
      <4>2. IF j.op \in RegenOps THEN Counted(s, regens[r], j.arg.made)
            ELSE SameRegens(s, StateFor(r))
        BY <2>1, <2>2, <2>3, <3>2, <4>1 DEF RegenJob
      <4>3. s # None
        BY <2>5, StatesAssumption
      <4> QED
        BY <2>1, <2>6, <2>9, <4>2, <4>3 DEF RegenJob
    <3>3. regens[r] = None => RegenJob(k)
      BY <2>1, <2>9 DEF RegenJob
    <3> QED
      BY <3>1, <3>2, <3>3
  <2>12. Takes(h)
    BY <2>1, <2>2, <2>3, <2>9, <2>10, <2>11 DEF Takes
  <2> QED
    BY <2>2, <2>12, StatesKept
<1> QED
  BY <1>1, <1>2, <1>3

-----------------------------------------------------------------------------
LEMMA CountsLater ==
  ASSUME now \in Nat, now' \in Nat, now <= now', NEW s, NEW q \in Seq(Nat)
  PROVE  /\ Counts(s, q) => Counts(s, q)'
         /\ \A m \in Nat : Counted(s, q, m) => Counted(s, q, m)'
<1>1. ASSUME NEW p \in Seq(Nat), Counts(s, p) PROVE Counts(s, p)'
  <2>1. p # <<>> => First(p) \in Nat
    BY AdminStatesAssumption DEF First
  <2> QED
    BY <1>1, <2>1 DEF Counts, First
<1>2. ASSUME NEW m \in Nat, Counted(s, q, m) PROVE Counted(s, q, m)'
  <2>1. CASE q = <<>>
    <3>1. <<m>> \in Seq(Nat) /\ Counts(s, <<m>>)
      BY <1>2, <2>1 DEF Counted
    <3>2. Counts(s, <<m>>)'
      BY <1>1, <3>1
    <3> QED
      BY <2>1, <3>2 DEF Counted
  <2>2. CASE q # <<>>
    <3>1. PICK a : a = Append(q, m)
      OBVIOUS
    <3>2. a \in Seq(Nat)
      BY <3>1
    <3>3. m < First(q) => Len(q) < MaxCodeRegens /\ Counts(s, a)
      BY <1>2, <2>2, <3>1 DEF Counted
    <3>4. m < First(q) => Len(q) < MaxCodeRegens /\ Counts(s, a)'
      BY <1>1, <3>2, <3>3
    <3> QED
      BY <2>2, <3>1, <3>4 DEF Counted, First
  <2> QED
    BY <2>1, <2>2
<1> QED
  BY <1>1, <1>2

LEMMA RegenJobLater ==
  ASSUME Typed, now' \in Nat, now <= now', NEW j, RegenJob(j), j.arg.ref \in Refs,
         j.op \in RegenOps /\ j.pc \in (HeldPcs \ {"codes"}) \cup {"write"} => j.arg.made \in Nat,
         regens'[j.arg.ref] # None => /\ regens'[j.arg.ref] = regens[j.arg.ref]
                                      /\ StateFor(j.arg.ref)' = StateFor(j.arg.ref)
  PROVE  RegenJob(j)'
<1>1. PICK r, q, state : /\ r = j.arg.ref /\ q = regens[r]
                         /\ state = IF j.pc = "write" THEN j.copy[r] ELSE j.copy
  OBVIOUS
<1>2. CASE regens'[r] = None \/ j.pc \notin HeldPcs \cup {"write"}
  BY <1>1, <1>2 DEF RegenJob
<1>3. CASE regens'[r] # None /\ j.pc \in HeldPcs \cup {"write"}
  <2>1. q # None /\ regens'[r] = q /\ StateFor(r)' = StateFor(r)
    BY <1>1, <1>3
  <2>2. q \in Seq(Nat) /\ now \in Nat
    BY <1>1, <2>1, AccessAssumption DEF Typed, AdminTyped
  <2>3. /\ state # None
        /\ IF j.op \in RegenOps /\ j.pc # "codes" THEN Counted(state, q, j.arg.made)
           ELSE SameRegens(state, StateFor(r))
    BY <1>1, <1>3, <2>1 DEF RegenJob
  <2>4. CASE j.op \in RegenOps /\ j.pc # "codes"
    <3>1. j.arg.made \in Nat
      BY <1>3, <2>4
    <3>2. Counted(state, q, j.arg.made)'
      BY <2>2, <2>3, <2>4, <3>1, CountsLater
    <3> QED
      BY <1>1, <1>3, <2>1, <2>3, <2>4, <3>2 DEF RegenJob
  <2>5. CASE ~(j.op \in RegenOps /\ j.pc # "codes")
    BY <1>1, <1>3, <2>1, <2>3, <2>5 DEF RegenJob, SameRegens
  <2> QED
    BY <2>4, <2>5
<1> QED
  BY <1>2, <1>3

\* What is said of a request at a state after a step.
RegenKept(g) ==
  Working(g)' /\ jobs'[g].pc \in StatePcs =>
    /\ Working(g) /\ jobs[g].pc \in StatePcs /\ jobs'[g].arg.ref = jobs[g].arg.ref
    /\ \E j : j = jobs'[g] /\ OpenJob(j) /\ RegenJob(j) /\ WritesLatest(j)

LEMMA OthersRegen ==
  ASSUME Typed, RegenInv, NEW h \in Handlers, OthersKept(h), NEW g \in Handlers \ {h}
  PROVE  RegenKept(g)
<1>1. SUFFICES ASSUME Working(g)', jobs'[g].pc \in StatePcs
               PROVE  /\ Working(g) /\ jobs[g].pc \in StatePcs /\ jobs'[g].arg.ref = jobs[g].arg.ref
                      /\ \E j : j = jobs'[g] /\ OpenJob(j) /\ RegenJob(j) /\ WritesLatest(j)
  BY DEF RegenKept
<1>2. CASE jobs'[g] = jobs[g]
  <2>1. Working(g) /\ jobs[g].pc \in StatePcs
    BY <1>1, <1>2 DEF Working
  <2> QED
    BY <1>2, <2>1, JobOf DEF RegenInv
<1>3. CASE Working(g) /\ jobs'[g] = [jobs[g] EXCEPT !.alone = FALSE]
  <2>1. PICK j, k : j = jobs[g] /\ k = [j EXCEPT !.alone = FALSE]
    OBVIOUS
  <2>2. OpenJob(k) /\ k.pc = j.pc /\ k.op = j.op /\ k.arg = j.arg /\ k.copy = j.copy
    <3>1. OpenJob(j)
      BY <1>3, <2>1, JobOf
    <3>2. k = [j EXCEPT !.alone = FALSE]
      BY <2>1
    <3> QED
      BY <3>1, <3>2, NotAloneOpen, Zenon
  <2>3. jobs[g].pc \in StatePcs
    BY <1>1, <1>3, <2>1, <2>2
  <2>4. RegenJob(j) /\ WritesLatest(j)
    BY <1>3, <2>1, <2>3 DEF RegenInv
  <2>5. RegenJob(k) /\ WritesLatest(k)
    BY <2>2, <2>4 DEF RegenJob, WritesLatest
  <2> QED
    BY <1>3, <2>1, <2>2, <2>3, <2>5
<1> QED
  BY <1>2, <1>3 DEF OthersKept, SameJob

LEMMA MadeTyped ==
  ASSUME Typed, NEW j, OpenJob(j), j.pc \in StatePcs
  PROVE  /\ j.op \in RegenOps /\ j.pc \in (HeldPcs \ {"codes"}) \cup {"write"} => j.arg.made \in Nat
         /\ j.arg.ref \in Refs
<1>1. AdminJob(j) /\ 0..now \subseteq Nat
  BY AccessAssumption DEF OpenJob, Typed
<1> QED
  BY <1>1 DEF AdminJob, HeldPcs, Refs, Keeper, Parties

\* A step that writes no state and begins nothing about one.
LEMMA RegenQuiet ==
  ASSUME Typed, RegenInv, UNCHANGED <<states, oldStates, regens, mix>>,
         now' \in Nat, now <= now', \A g \in Handlers : RegenKept(g)
  PROVE  RegenInv'
<1>1. \A r \in Refs : StateFor(r)' = StateFor(r)
  BY DEF StateFor, Migrated, Lmdb
<1>2. Lmdb' = Lmdb
  BY DEF Lmdb
<1>3. ASSUME NEW r \in Refs, NEW g \in Handlers, NEW h \in Handlers, regens'[r] # None, g # h
      PROVE  ~(StateJob(g, r) /\ StateJob(h, r))'
  <2>1. StateJob(g, r)' => StateJob(g, r)
    BY <1>2 DEF StateJob, RegenKept
  <2>2. StateJob(h, r)' => StateJob(h, r)
    BY <1>2 DEF StateJob, RegenKept
  <2> QED
    BY <1>3, <2>1, <2>2 DEF RegenInv
<1>4. ASSUME NEW r \in Refs, regens'[r] # None
      PROVE  Counts(StateFor(r), regens[r])' /\ (regens'[r] # <<>> => WithinBudget(regens[r])')
  <2>1. PICK s, q : s = StateFor(r) /\ q = regens[r]
    OBVIOUS
  <2>2. q \in Seq(Nat) /\ now \in Nat
    BY <1>4, <2>1, AccessAssumption DEF Typed, AdminTyped
  <2>3. Counts(s, q) /\ (q # <<>> => WithinBudget(q))
    BY <1>4, <2>1 DEF RegenInv
  <2>4. Counts(s, q)'
    BY <2>2, <2>3, CountsLater
  <2>5. s = StateFor(r)' /\ q = regens'[r]
    BY <1>1, <2>1
  <2> QED
    BY <2>3, <2>4, <2>5 DEF Counts, WithinBudget, First
<1>5. ASSUME NEW h \in Handlers, Working(h)', jobs'[h].pc \in StatePcs
      PROVE  RegenJob(jobs[h])' /\ WritesLatest(jobs[h])'
  <2>1. PICK j : j = jobs'[h] /\ OpenJob(j) /\ RegenJob(j) /\ WritesLatest(j)
    BY <1>5 DEF RegenKept
  <2>2. /\ j.op \in RegenOps /\ j.pc \in (HeldPcs \ {"codes"}) \cup {"write"} => j.arg.made \in Nat
        /\ j.arg.ref \in Refs
    BY <1>5, <2>1, MadeTyped
  <2>3. RegenJob(j)'
    BY <1>1, <2>1, <2>2, RegenJobLater
  <2>4. WritesLatest(j)'
    BY <2>1 DEF WritesLatest
  <2> QED
    BY <2>1, <2>3, <2>4
<1> QED
  BY <1>3, <1>4, <1>5 DEF RegenInv

-----------------------------------------------------------------------------
\* The steps that are quiet.
LEMMA ContinueRegen ==
  ASSUME Typed, RegenInv, NEW h \in Handlers, NEW j, Continue(h, j),
         UNCHANGED <<states, oldStates, regens>>,
         \/ j = Idle
         \/ j.pc \notin StatePcs
         \/ /\ Working(h) /\ jobs[h].pc \in StatePcs /\ j.arg.ref = jobs[h].arg.ref
            /\ OpenJob(j) /\ RegenJob(j) /\ WritesLatest(j)
  PROVE  RegenInv'
<1>1. OthersKept(h) /\ jobs'[h] = j /\ UNCHANGED <<now, mix>>
  BY Continues
<1>2. RegenKept(h)
  BY <1>1 DEF RegenKept, Working, Idle
<1>3. \A g \in Handlers : RegenKept(g)
  BY <1>1, <1>2, OthersRegen
<1>4. now' \in Nat /\ now <= now'
  BY <1>1, AccessAssumption DEF Typed
<1> QED
  BY <1>1, <1>3, <1>4, RegenQuiet

LEMMA PlainRegen ==
  ASSUME Typed, RegenInv, NEW h \in Handlers, Plain(h), UNCHANGED <<states, oldStates, regens>>
  PROVE  RegenInv'
<1>1. PICK j : /\ Continue(h, j)
               /\ j = Idle \/
                    (/\ Working(h) /\ OpenJob(j)
                     /\ j.pc \notin TokenPcs \cup {"keep", "write"} \cup HeldPcs
                     /\ j.pc \in StatePcs => jobs[h].pc \in StatePcs /\ j.arg.ref = jobs[h].arg.ref
                     /\ j.keys = jobs[h].keys /\ j.alone = jobs[h].alone)
  BY DEF Plain
<1>2. j # Idle => RegenJob(j) /\ WritesLatest(j)
  BY <1>1 DEF RegenJob, WritesLatest
<1> QED
  BY <1>1, <1>2, ContinueRegen

LEMMA AsideRegen ==
  ASSUME Typed, RegenInv, NEW h \in Handlers, Aside(h), UNCHANGED <<states, oldStates, regens>>
  PROVE  RegenInv'
<1>1. CASE \E j : /\ Continue(h, j)
                  /\ j = Idle \/ (/\ Working(h) /\ OpenJob(j) /\ Beside(j)
                                  /\ j.keys = jobs[h].keys /\ j.alone = jobs[h].alone)
  BY <1>1, ContinueRegen DEF Beside
<1>2. CASE \E op, pc, keys, arg :
             /\ Begin(h, op, pc, keys, arg)
             /\ OpenJob(NewJob(h, op, pc, keys, arg)) /\ Beside(NewJob(h, op, pc, keys, arg))
  <2>1. PICK op, pc, keys, arg, j :
          /\ Begin(h, op, pc, keys, arg) /\ j = NewJob(h, op, pc, keys, arg) /\ Beside(j)
    BY <1>2
  <2>2. OthersKept(h) /\ jobs'[h] = j /\ UNCHANGED <<now, mix>>
    BY <2>1, Begins
  <2>3. RegenKept(h)
    BY <2>1, <2>2 DEF RegenKept, Beside
  <2>4. \A g \in Handlers : RegenKept(g)
    BY <2>2, <2>3, OthersRegen
  <2>5. now' \in Nat /\ now <= now'
    BY <2>2, AccessAssumption DEF Typed
  <2> QED
    BY <2>2, <2>4, <2>5, RegenQuiet
<1> QED
  BY <1>1, <1>2 DEF Aside

LEMMA TakesRegen ==
  ASSUME Typed, RegenInv, NEW h \in Handlers, Takes(h)
  PROVE  RegenInv'
<1>1. PICK j : /\ Continue(h, j) /\ OpenJob(j) /\ j.arg.ref = jobs[h].arg.ref
               /\ RegenJob(j) /\ WritesLatest(j)
  BY DEF Takes
<1>2. Working(h) /\ jobs[h].pc \in StatePcs /\ UNCHANGED <<states, oldStates, regens>>
  BY DEF Takes
<1> QED
  BY <1>1, <1>2, ContinueRegen

-----------------------------------------------------------------------------
\* Where nobody else is at the state of r, nobody is beside the one who begins.
LEMMA NobodyElse ==
  ASSUME Typed, NEW h \in Handlers, NEW g \in Handlers, NEW r \in Refs, NEW x \in Refs,
         StateJob(g, x), x = r \/ ~Lmdb, ~Raced(KeysOf(r))
  PROVE  FALSE
<1>1. Working(g) /\ jobs[g].pc \in StatePcs /\ (jobs[g].arg.ref = x \/ ~Lmdb)
  BY DEF StateJob
<1>2. KeysOf(jobs[g].arg.ref) \subseteq jobs[g].keys
  BY <1>1, StateJobIs
<1>3. KeysOf(r) \cap KeysOf(jobs[g].arg.ref) # {}
  <2>1. CASE Lmdb
    <3>1. jobs[g].arg.ref = r /\ KeysOf(r) # {}
      BY <1>1, <2>1 DEF KeysOf, SettingsKeys, Keys
    <3> QED
      BY <3>1
  <2>2. CASE ~Lmdb
    <3>1. "states" \in KeysOf(r) /\ "states" \in KeysOf(jobs[g].arg.ref)
      BY <2>2 DEF KeysOf, SettingsKeys, Keys
    <3> QED
      BY <3>1
  <2> QED
    BY <2>1, <2>2
<1>4. On(g, KeysOf(r))
  BY <1>1, <1>2, <1>3 DEF On
<1> QED
  BY <1>4 DEF Raced

LEMMA StartsRegen ==
  ASSUME Typed, RegenInv, NEW h \in Handlers, Starts(h)
  PROVE  RegenInv'
<1>1. PICK op, pc, arg, r, j :
        /\ r = arg.ref /\ Begin(h, op, pc, KeysOf(r), arg) /\ j = NewJob(h, op, pc, KeysOf(r), arg)
        /\ pc \in StatePcs \ (HeldPcs \cup {"write"}) /\ r \in Refs
        /\ regens' = RacedOut(r) /\ UNCHANGED <<states, oldStates>>
  BY DEF Starts
<1>2. OthersKept(h) /\ jobs'[h] = j /\ UNCHANGED <<now, mix>> /\ ~Working(h)
  BY <1>1, Begins
<1>3. IsJob(j) /\ j.pc = pc /\ j.arg = arg
  BY <1>1, NewJobIs
<1>4. \A g \in Handlers \ {h} : RegenKept(g)
  BY <1>2, OthersRegen
<1>5. now \in Nat /\ now' \in Nat /\ now <= now' /\ Lmdb' = Lmdb
  BY <1>2, AccessAssumption DEF Typed, Lmdb
<1>6. \A x \in Refs : StateFor(x)' = StateFor(x)
  BY <1>1, <1>2 DEF StateFor, Migrated, Lmdb
<1>7. \A x \in Refs : regens'[x] # None => /\ regens'[x] = regens[x]
                                           /\ ~(Raced(KeysOf(r)) /\ (x = r \/ ~Lmdb))
  BY <1>1 DEF RacedOut
<1>8. ASSUME NEW x \in Refs, NEW g \in Handlers, NEW f \in Handlers, regens'[x] # None, g # f,
             StateJob(g, x)', StateJob(f, x)'
      PROVE  FALSE
  <2>1. ASSUME NEW e \in Handlers \ {h}, StateJob(e, x)' PROVE StateJob(e, x)
    BY <1>4, <1>5, <2>1 DEF StateJob, RegenKept
  <2>2. ASSUME NEW e \in Handlers \ {h}, StateJob(e, x), StateJob(h, x)' PROVE FALSE
    <3>1. x = r \/ ~Lmdb
      BY <1>1, <1>2, <1>3, <1>5, <2>2 DEF StateJob
    <3>2. ~Raced(KeysOf(r))
      BY <1>7, <1>8, <3>1
    <3> QED
      BY <1>1, <2>2, <3>1, <3>2, NobodyElse
  <2>3. g # h /\ f # h => ~(StateJob(g, x) /\ StateJob(f, x))
    BY <1>7, <1>8 DEF RegenInv
  <2> QED
    BY <1>8, <2>1, <2>2, <2>3
<1>9. ASSUME NEW x \in Refs, regens'[x] # None
      PROVE  Counts(StateFor(x), regens[x])' /\ (regens'[x] # <<>> => WithinBudget(regens[x])')
  <2>1. PICK s, q : s = StateFor(x) /\ q = regens[x]
    OBVIOUS
  <2>2. s = StateFor(x)' /\ q = regens'[x]
    BY <1>6, <1>7, <1>9, <2>1
  <2>3. q \in Seq(Nat)
    BY <1>9, <2>1, <2>2 DEF Typed, AdminTyped
  <2>4. Counts(s, q) /\ (q # <<>> => WithinBudget(q))
    BY <1>9, <2>1, <2>2 DEF RegenInv
  <2>5. Counts(s, q)'
    BY <1>5, <2>3, <2>4, CountsLater
  <2> QED
    BY <2>2, <2>4, <2>5 DEF Counts, WithinBudget, First
<1>10. ASSUME NEW g \in Handlers, Working(g)', jobs'[g].pc \in StatePcs
       PROVE  RegenJob(jobs[g])' /\ WritesLatest(jobs[g])'
  <2>1. CASE g = h
    <3>1. RegenJob(j)' /\ WritesLatest(j)'
      BY <1>1, <1>3 DEF RegenJob, WritesLatest
    <3> QED
      BY <1>2, <2>1, <3>1
  <2>2. CASE g # h
    <3>1. PICK k : k = jobs'[g] /\ OpenJob(k) /\ RegenJob(k) /\ WritesLatest(k)
      BY <1>4, <1>10, <2>2 DEF RegenKept
    <3>2. /\ k.op \in RegenOps /\ k.pc \in (HeldPcs \ {"codes"}) \cup {"write"} => k.arg.made \in Nat
          /\ k.arg.ref \in Refs
      BY <1>10, <3>1, MadeTyped
    <3>3. RegenJob(k)'
      BY <1>5, <1>6, <1>7, <3>1, <3>2, RegenJobLater
    <3>4. WritesLatest(k)'
      BY <1>1, <1>7, <3>1 DEF WritesLatest
    <3> QED
      BY <3>1, <3>3, <3>4
  <2> QED
    BY <2>1, <2>2
<1> QED
  BY <1>8, <1>9, <1>10 DEF RegenInv

LEMMA BudgetGrows ==
  ASSUME NEW q \in Seq(Nat), NEW m \in Nat, q # <<>> => WithinBudget(q),
         q # <<>> /\ m < First(q) => Len(q) < MaxCodeRegens
  PROVE  WithinBudget(Append(q, m))
<1>1. PICK a, within : a = Append(q, m) /\ within = {i \in DOMAIN a : a[i] < First(a)}
  OBVIOUS
<1>2. /\ a \in Seq(Nat) /\ Len(a) = Len(q) + 1 /\ DOMAIN a = 1..Len(q) + 1 /\ Len(q) \in Nat
      /\ a[Len(q) + 1] = m /\ \A i \in 1..Len(q) : a[i] = q[i]
  BY <1>1
<1>3. MaxCodeRegens \in Nat \ {0} /\ Window \in Nat
  BY AdminStatesAssumption
<1>4. ASSUME Len(q) < MaxCodeRegens PROVE Cardinality(within) <= MaxCodeRegens
  <2>1. within \in SUBSET (1..Len(q) + 1)
    BY <1>1, <1>2
  <2>2. IsFiniteSet(1..Len(q) + 1) /\ Cardinality(1..Len(q) + 1) = Len(q) + 1
    BY <1>2, FS_Interval
  <2>3. Cardinality(within) <= Len(q) + 1 /\ IsFiniteSet(within)
    BY <2>1, <2>2, FS_Subset
  <2>4. Cardinality(within) \in Nat
    BY <2>3, FS_CardinalityType
  <2> QED
    BY <1>2, <1>3, <1>4, <2>3, <2>4
<1>5. CASE q = <<>>
  BY <1>1, <1>3, <1>4, <1>5 DEF WithinBudget
<1>6. CASE q # <<>> /\ m < First(q)
  BY <1>1, <1>4, <1>6 DEF WithinBudget
<1>7. CASE q # <<>> /\ ~(m < First(q))
  <2>1. First(a) = First(q)
    BY <1>2, <1>7 DEF First
  <2>2. within = {i \in DOMAIN q : q[i] < First(q)}
    BY <1>1, <1>2, <1>7, <2>1
  <2> QED
    BY <1>1, <1>7, <2>2 DEF WithinBudget
<1> QED
  BY <1>5, <1>6, <1>7

LEMMA StoresRegen ==
  ASSUME Typed, RegenInv, NEW h \in Handlers, Stores(h)
  PROVE  RegenInv'
<1>1. PICK j, r, w, n : /\ j = jobs[h] /\ r = j.arg.ref
                        /\ w = IF j.pc = "write" THEN j.copy[r] ELSE j.copy
                        /\ n = regens'
  OBVIOUS
<1>2. /\ Plain(h) /\ Working(h) /\ j.pc = IF Lmdb THEN "put" ELSE "write"
      /\ UNCHANGED oldStates
      /\ states' = IF Lmdb THEN [Migrated EXCEPT ![r] = j.copy] ELSE j.copy
      /\ n = IF j.op \in RegenOps /\ regens[r] # None
             THEN [regens EXCEPT ![r] = Append(@, j.arg.made)] ELSE regens
  BY <1>1 DEF Stores
<1>3. PICK k : /\ Continue(h, k)
               /\ k = Idle \/
                    (/\ OpenJob(k)
                     /\ k.pc \notin TokenPcs \cup {"keep", "write"} \cup HeldPcs
                     /\ k.pc \in StatePcs => k.arg.ref = r)
  BY <1>1, <1>2 DEF Plain
<1>4. OthersKept(h) /\ jobs'[h] = k /\ UNCHANGED <<now, mix>>
  BY <1>3, Continues
<1>5. /\ now \in Nat /\ now' \in Nat /\ now <= now' /\ Lmdb' = Lmdb
      /\ regens \in [Refs -> Seq(Nat) \cup {None}]
  BY <1>4, AccessAssumption DEF Typed, AdminTyped, Lmdb
<1>6. /\ {"put", "write"} \subseteq StatePcs /\ "put" \in HeldPcs /\ "write" \notin HeldPcs
      /\ j.pc \in {"put", "write"}
  BY <1>2, StatePcsAre DEF HeldPcs
<1>7. r \in Refs /\ CopyTyped(j.pc, j.copy) /\ MadeAt(j.op, j.pc, j.arg)
  BY <1>1, <1>2, <1>6, StateJobIs
<1>8. RegenJob(j) /\ WritesLatest(j)
  BY <1>1, <1>2, <1>6 DEF RegenInv
<1>9. \A x \in Refs : /\ n[x] # None => regens[x] # None
                      /\ x # r => n[x] = regens[x]
  BY <1>2, <1>5, <1>7
<1>10. \A g \in Handlers \ {h} : RegenKept(g)
  BY <1>4, OthersRegen
<1>11. ASSUME NEW x \in Refs \ {r}, n[x] # None PROVE StateFor(x)' = StateFor(x)
  <2>1. CASE Lmdb
    <3>1. states'[x] = Migrated[x] /\ oldStates'[x] = oldStates[x]
      BY <1>2, <2>1 DEF Migrated
    <3>2. Migrated'[x] = Migrated[x]
      BY <1>5, <2>1, <3>1 DEF Migrated
    <3> QED
      BY <3>2 DEF StateFor
  <2>2. CASE ~Lmdb
    <3>1. states'[x] = states[x]
      BY <1>1, <1>2, <1>8, <1>9, <1>11, <2>2 DEF WritesLatest
    <3>2. Migrated'[x] = Migrated[x]
      BY <1>5, <2>2, <3>1 DEF Migrated
    <3> QED
      BY <3>2 DEF StateFor
  <2> QED
    BY <2>1, <2>2
<1>12. ASSUME n[r] # None PROVE StateFor(r)' = w
  <2>1. regens[r] # None /\ w # None
    BY <1>1, <1>6, <1>7, <1>8, <1>9, <1>12 DEF RegenJob
  <2>2. states'[r] = w
    <3>1. CASE Lmdb
      <4>1. r \in DOMAIN Migrated
        BY <1>7 DEF Migrated
      <4> HIDE DEF Migrated
      <4> QED
        BY <1>1, <1>2, <3>1, <4>1
    <3>2. CASE ~Lmdb
      BY <1>1, <1>2, <3>2
    <3> QED
      BY <3>1, <3>2
  <2> QED
    BY <1>7, <2>1, <2>2 DEF StateFor, Migrated
<1>13. ASSUME NEW x \in Refs, NEW g \in Handlers, NEW f \in Handlers, n[x] # None, g # f,
              StateJob(g, x)', StateJob(f, x)'
       PROVE  FALSE
  <2>1. ASSUME NEW e \in Handlers, StateJob(e, x)' PROVE StateJob(e, x)
    <3>1. CASE e = h
      BY <1>1, <1>2, <1>3, <1>4, <1>5, <1>6, <2>1, <3>1 DEF StateJob, Working, Idle
    <3>2. CASE e # h
      BY <1>5, <1>10, <2>1, <3>2 DEF StateJob, RegenKept
    <3> QED
      BY <3>1, <3>2
  <2> QED
    BY <1>9, <1>13, <2>1 DEF RegenInv
<1>14. ASSUME n[r] # None
       PROVE  Counts(w, n[r]) /\ (n[r] # <<>> => WithinBudget(n[r]))
  <2>1. PICK q : q = regens[r]
    OBVIOUS
  <2>2. q # None /\ q \in Seq(Nat) /\ Counts(StateFor(r), q) /\ (q # <<>> => WithinBudget(q))
    BY <1>5, <1>7, <1>9, <1>14, <2>1 DEF RegenInv
  <2>3. IF j.op \in RegenOps THEN Counted(w, q, j.arg.made) ELSE SameRegens(w, StateFor(r))
    BY <1>1, <1>6, <1>8, <2>1, <2>2 DEF RegenJob, HeldPcs
  <2>4. CASE j.op \in RegenOps
    <3>1. PICK m, a : m = j.arg.made /\ a = Append(q, m)
      OBVIOUS
    <3>2. m \in 0..now /\ m \in Nat /\ n[r] = a
      BY <1>2, <1>5, <1>6, <1>7, <2>1, <2>2, <2>4, <3>1 DEF MadeAt
    <3>3. Counted(w, q, m)
      BY <2>3, <2>4, <3>1
    <3>4. WithinBudget(a)
      BY <2>2, <3>1, <3>2, <3>3, BudgetGrows DEF Counted
    <3>5. Counts(w, a)
      <4>1. CASE q = <<>>
        BY <3>1, <3>3, <4>1 DEF Counted
      <4>2. CASE q # <<>> /\ m < First(q)
        BY <3>1, <3>3, <4>2 DEF Counted
      <4>3. CASE q # <<>> /\ ~(m < First(q))
        <5>1. a # <<>> /\ First(a) = First(q) /\ First(q) \in Nat
          BY <2>2, <3>1, <3>2, <4>3, AdminStatesAssumption DEF First
        <5> QED
          BY <1>5, <3>2, <4>3, <5>1 DEF Counts
      <4> QED
        BY <4>1, <4>2, <4>3
    <3> QED
      BY <3>2, <3>4, <3>5
  <2>5. CASE j.op \notin RegenOps
    <3>1. n[r] = q
      BY <1>2, <2>1, <2>5
    <3> QED
      BY <2>2, <2>3, <2>5, <3>1 DEF Counts, SameRegens
  <2> QED
    BY <2>4, <2>5
<1>15. ASSUME NEW x \in Refs, n[x] # None
       PROVE  Counts(StateFor(x), regens[x])' /\ (n[x] # <<>> => WithinBudget(n[x]))
  <2>1. CASE x = r
    BY <1>1, <1>4, <1>12, <1>14, <1>15, <2>1 DEF Counts, First
  <2>2. CASE x # r
    <3>1. StateFor(x)' = StateFor(x) /\ regens'[x] = regens[x]
      BY <1>1, <1>9, <1>11, <1>15, <2>2
    <3>2. Counts(StateFor(x), regens[x]) /\ (regens[x] # <<>> => WithinBudget(regens[x]))
      BY <1>9, <1>15 DEF RegenInv
    <3> QED
      BY <1>1, <1>4, <3>1, <3>2 DEF Counts, First
  <2> QED
    BY <2>1, <2>2
<1>16. ASSUME NEW g \in Handlers, Working(g)', jobs'[g].pc \in StatePcs
       PROVE  RegenJob(jobs[g])' /\ WritesLatest(jobs[g])'
  <2>1. CASE g = h
    <3>1. RegenJob(k)' /\ WritesLatest(k)'
      BY <1>3, <1>4, <1>16, <2>1 DEF RegenJob, WritesLatest, Working, Idle
    <3> QED
      BY <1>4, <2>1, <3>1
  <2>2. CASE g # h
    <3>1. PICK i : i = jobs'[g] /\ OpenJob(i) /\ RegenJob(i) /\ WritesLatest(i)
      BY <1>10, <1>16, <2>2 DEF RegenKept
    <3>2. /\ i.op \in RegenOps /\ i.pc \in (HeldPcs \ {"codes"}) \cup {"write"} => i.arg.made \in Nat
          /\ i.arg.ref \in Refs
      BY <1>16, <3>1, MadeTyped
    <3>3. Working(g) /\ jobs[g].pc \in StatePcs /\ jobs[g].arg.ref = i.arg.ref
      BY <1>10, <1>16, <2>2, <3>1 DEF RegenKept
    <3>4. ASSUME NEW x \in Refs, n[x] # None, (i.arg.ref = x /\ r = x) \/ ~Lmdb PROVE FALSE
      BY <1>1, <1>2, <1>6, <1>9, <2>2, <3>3, <3>4 DEF RegenInv, StateJob
    <3>5. n[i.arg.ref] # None => /\ n[i.arg.ref] = regens[i.arg.ref]
                                 /\ StateFor(i.arg.ref)' = StateFor(i.arg.ref)
      BY <1>9, <1>11, <3>2, <3>4
    <3>6. RegenJob(i)'
      BY <1>1, <1>5, <3>1, <3>2, <3>5, RegenJobLater
    <3>7. i.pc = "write" => ~Lmdb
      BY <3>1, <1>6 DEF OpenJob, AdminJob
    <3>8. WritesLatest(i)'
      BY <1>1, <3>4, <3>7 DEF WritesLatest
    <3> QED
      BY <3>1, <3>6, <3>8
  <2> QED
    BY <2>1, <2>2
<1>17. \A x \in Refs : n[x] # <<>> /\ WithinBudget(n[x]) => WithinBudget(regens[x])'
  BY <1>1 DEF WithinBudget, First
<1> QED
  BY <1>1, <1>13, <1>15, <1>16, <1>17 DEF RegenInv

-----------------------------------------------------------------------------
(***************************************************************************)
(* Records of sessions, and what storing one does.                         *)
(***************************************************************************)
LEMMA RecordTyped ==
  ASSUME Typed, NEW p \in Principals
  PROVE  SessionRecord(p) \in SessionRecords
<1>1. Ttl # None => now + Ttl \in Nat
  BY SessionsAssumption, AccessAssumption DEF Typed
<1> QED
  BY <1>1 DEF SessionRecord, SessionRecords, RecordsOf, Principals

LEMMA RolesAre ==
  /\ \A role \in DOMAIN StoredRole : StoredRole[role] \in 0..4
  /\ \A n \in 0..4 : \E role \in DOMAIN StoredRole : StoredRole[role] = n
<1>1. /\ StoredRole["supplier"] = 0 /\ StoredRole["werka"] = 1 /\ StoredRole["customer"] = 2
      /\ StoredRole["admin"] = 3 /\ StoredRole["aparatchi"] = 4
      /\ DOMAIN StoredRole = {"supplier", "werka", "customer", "admin", "aparatchi"}
  BY DEF StoredRole
<1>2. 0..4 = {0, 1, 2, 3, 4}
  OBVIOUS
<1> QED
  BY <1>1, <1>2

LEMMA EncodeTyped ==
  ASSUME NEW record \in SessionRecords
  PROVE  Encode(record) \in StoredRecords /\ Encode(record).expires = record.expires
<1>1. PICK p, e : p = record.principal /\ e = Encode(record)
  OBVIOUS
<1>2. /\ record = [principal |-> p, expires |-> record.expires] /\ p \in Principals
      /\ record.expires \in Nat \cup {None}
  BY <1>1 DEF SessionRecords, RecordsOf, Principals
<1>3. CASE ~Lmdb
  BY <1>1, <1>3 DEF Encode, StoredRecords, SessionRecords
<1>4. CASE Lmdb
  <2>1. PICK n : n = StoredRole[p.role]
    OBVIOUS
  <2>2. n \in 0..4
    BY <1>2, <2>1, RolesAre DEF Principals, PrincipalsOf
  <2>3. PICK x : x = [p EXCEPT !.role = n]
    OBVIOUS
  <2>4. x \in PrincipalsOf(0..4)
    BY <1>2, <2>2, <2>3 DEF Principals, PrincipalsOf
  <2>5. e = [record EXCEPT !.principal.role = n]
    BY <1>1, <1>4, <2>1 DEF Encode
  <2>6. e = [principal |-> x, expires |-> record.expires]
    BY <1>1, <1>2, <2>3, <2>5
  <2>7. e \in RecordsOf(0..4) /\ e.expires = record.expires
    BY <1>2, <2>4, <2>6 DEF RecordsOf
  <2> QED
    BY <1>1, <1>4, <2>7 DEF StoredRecords
<1> QED
  BY <1>3, <1>4

LEMMA DecodeTyped ==
  ASSUME NEW stored \in StoredRecords
  PROVE  Decode(stored) \in SessionRecords /\ Decode(stored).expires = stored.expires
<1>1. CASE ~Lmdb
  BY <1>1 DEF Decode, StoredRecords, SessionRecords
<1>2. CASE Lmdb
  <2>1. PICK p, d : p = stored.principal /\ d = Decode(stored)
    OBVIOUS
  <2>2. /\ stored = [principal |-> p, expires |-> stored.expires] /\ p \in PrincipalsOf(0..4)
        /\ stored.expires \in Nat \cup {None}
    BY <1>2, <2>1 DEF StoredRecords, RecordsOf
  <2>3. PICK role : role = CHOOSE r \in DOMAIN StoredRole : StoredRole[r] = p.role
    OBVIOUS
  <2>4. role \in DOMAIN StoredRole
    BY <2>2, <2>3, RolesAre DEF PrincipalsOf
  <2>5. PICK x : x = [p EXCEPT !.role = role]
    OBVIOUS
  <2>6. x \in Principals
    BY <2>2, <2>4, <2>5 DEF Principals, PrincipalsOf
  <2>7. d = [stored EXCEPT !.principal.role = role]
    BY <1>2, <2>1, <2>3 DEF Decode
  <2>8. d = [principal |-> x, expires |-> stored.expires]
    BY <2>1, <2>2, <2>5, <2>7
  <2>9. d \in SessionRecords /\ d.expires = stored.expires
    BY <2>2, <2>6, <2>8 DEF SessionRecords, RecordsOf, Principals
  <2> QED
    BY <2>1, <2>9
<1> QED
  BY <1>1, <1>2

LEMMA NoRecord ==
  None \notin SessionRecords /\ None \notin StoredRecords
  BY RecordsAssumption DEF SessionRecords, StoredRecords

StoreTyped ==
  /\ sessions \in [Tokens -> StoredRecords \cup {None}]
  /\ disk \in [Tokens -> StoredRecords \cup {None}]
  /\ rawKeys \in [Tokens -> SessionRecords \cup {None}]
  /\ expiry \subseteq Nat \X Tokens

LEMMA IndexTyped ==
  ASSUME NEW t \in Tokens, NEW record, record = None \/ record.expires \in Nat \cup {None}
  PROVE  IndexOf(record, t) \subseteq Nat \X Tokens
  BY DEF IndexOf

LEMMA PutTyped ==
  ASSUME StoreTyped, UNCHANGED mix, NEW t \in Tokens, NEW record \in SessionRecords,
         NEW ok \in BOOLEAN, StorePut(t, record, ok)
  PROVE  StoreTyped'
<1>1. StoredRecords' = StoredRecords
  BY DEF StoredRecords, Lmdb
<1>2. CASE UNCHANGED storeVars
  BY <1>1, <1>2 DEF StoreTyped, storeVars
<1>3. CASE Lmdb /\ PutLmdb(t, record)
  <2>1. PICK e : e = Encode(record)
    OBVIOUS
  <2>2. e \in StoredRecords
    BY <2>1, EncodeTyped
  <2>3. Purged \in [Tokens -> StoredRecords \cup {None}]
    BY DEF Purged, StoreTyped
  <2>4. sessions' = [Purged EXCEPT ![t] = e] /\ disk' = sessions' /\ UNCHANGED rawKeys
    BY <1>3, <2>1 DEF PutLmdb
  <2>5. IndexOf(record, t) \subseteq Nat \X Tokens
    BY IndexTyped DEF SessionRecords, RecordsOf
  <2>6. expiry' \subseteq Nat \X Tokens
    BY <1>3, <2>5 DEF PutLmdb, Due, StoreTyped
  <2> HIDE DEF Purged
  <2>7. sessions' \in [Tokens -> StoredRecords \cup {None}]
    BY <2>2, <2>3, <2>4
  <2> QED
    BY <1>1, <2>4, <2>6, <2>7 DEF StoreTyped
<1>4. CASE ~Lmdb /\ WriteJson([sessions EXCEPT ![t] = record], ok)
  <2>1. record \in StoredRecords
    BY <1>4 DEF StoredRecords, SessionRecords
  <2> QED
    BY <1>1, <1>4, <2>1 DEF WriteJson, StoreTyped
<1> QED
  BY <1>2, <1>3, <1>4 DEF StorePut

LEMMA DeleteTyped ==
  ASSUME StoreTyped, UNCHANGED mix, NEW t \in Tokens, NEW ok \in BOOLEAN, StoreDelete(t, ok)
  PROVE  StoreTyped'
<1>1. StoredRecords' = StoredRecords
  BY DEF StoredRecords, Lmdb
<1>2. CASE UNCHANGED storeVars
  BY <1>1, <1>2 DEF StoreTyped, storeVars
<1>3. CASE Lmdb /\ DeleteLmdb(t)
  BY <1>1, <1>3 DEF DeleteLmdb, StoreTyped
<1>4. CASE ~Lmdb /\ WriteJson([sessions EXCEPT ![t] = None], ok)
  BY <1>1, <1>4 DEF WriteJson, StoreTyped
<1> QED
  BY <1>2, <1>3, <1>4 DEF StoreDelete

-----------------------------------------------------------------------------
(***************************************************************************)
(* Steps of a request that has a token.                                    *)
(***************************************************************************)
LEMMA SameFields ==
  ASSUME Typed, NEW h \in Handlers, OthersKept(h), NEW g \in Handlers \ {h}
  PROVE  /\ Working(g)' <=> Working(g)
         /\ Working(g) => /\ jobs'[g].pc = jobs[g].pc /\ jobs'[g].op = jobs[g].op
                          /\ jobs'[g].keys = jobs[g].keys /\ jobs'[g].arg = jobs[g].arg
                          /\ jobs'[g].copy = jobs[g].copy /\ jobs'[g].phase = jobs[g].phase
                          /\ jobs'[g].alone => jobs[g].alone /\ jobs'[g] = jobs[g]
<1>1. CASE jobs'[g] = jobs[g]
  BY <1>1 DEF Working
<1>2. CASE Working(g) /\ jobs'[g] = [jobs[g] EXCEPT !.alone = FALSE]
  <2>1. PICK j, k : j = jobs[g] /\ k = [j EXCEPT !.alone = FALSE]
    OBVIOUS
  <2>2. OpenJob(j)
    BY <1>2, <2>1, JobOf
  <2>3. k = [j EXCEPT !.alone = FALSE]
    BY <2>1
  <2>4. /\ k.keys = j.keys /\ k.pc = j.pc /\ k.op = j.op /\ k.arg = j.arg
        /\ k.copy = j.copy /\ k.phase = j.phase /\ k.alone = FALSE
    BY <2>2, <2>3, NotAloneOpen, Zenon
  <2> QED
    BY <1>2, <2>1, <2>4 DEF Working
<1> QED
  BY <1>1, <1>2 DEF OthersKept, SameJob

LEMMA DifferKept ==
  ASSUME Typed, NEW h \in Handlers, OthersKept(h),
         At(h, "keep")' => \A g \in Handlers \ {h} : At(g, "keep") => jobs[g].keys # jobs'[h].keys
  PROVE  TokensDiffer'
<1>1. \A g \in Handlers \ {h} : At(g, "keep")' => At(g, "keep") /\ jobs'[g].keys = jobs[g].keys
  BY SameFields DEF At
<1>2. TokensDiffer
  BY DEF Typed
<1> QED
  BY <1>1, <1>2 DEF TokensDiffer

Sessional(h) ==
  /\ OthersKept(h) /\ UNCHANGED <<now, mix>>
  /\ Working(h)' => jobs'[h].pc \in TokenPcs \cup {"keep"}

SessionMove(h) == JobsTyped' /\ TokensDiffer' /\ Sessional(h)

LEMMA TokenEnds ==
  ASSUME Typed, NEW h \in Handlers, Finish(h), UNCHANGED issued
  PROVE  SessionMove(h)
<1>1. Continue(h, Idle)
  BY DEF Finish
<1>2. OthersKept(h) /\ jobs'[h] = Idle /\ UNCHANGED <<now, mix>>
  BY <1>1, Continues
<1>3. JobsTyped'
  BY <1>1, StayTyped
<1>4. ~Working(h)'
  BY <1>2 DEF Working, Idle
<1>5. TokensDiffer'
  BY <1>2, <1>4, DifferKept DEF At
<1> QED
  BY <1>2, <1>3, <1>4, <1>5 DEF SessionMove, Sessional

LEMMA TokenPcsAre ==
  /\ TokenPcs \cap (StatePcs \cup GroupWaits) = {}
  /\ TokenPcs \cap {"create", "keep", "lock", "find", "decide", "promoteParent"} = {}
  BY DEF TokenPcs, LoadPcs, RecordPcs, ProfilePcs, StatePcs, AdminWaits, GroupWaits

\* What a request with a token holds at each step.
Carries(op, pc, arg, copy, phase) ==
  /\ op \in ProfileOps => arg = [token |-> arg.token, principal |-> arg.principal]
  /\ pc \in ProfilePcs \/ (pc \in LoadPcs /\ phase = "update") =>
       op \in ProfileOps /\ arg.principal \in Principals
  /\ pc \in RecordPcs => copy \in SessionRecords
  /\ pc = "serve" => copy \in Principals
  /\ pc \in {"migratePrefs", "putPrefs"} => copy \in Preferences

LEMMA TokenJobIs ==
  ASSUME Typed, NEW h \in Handlers, Working(h), jobs[h].pc \in TokenPcs
  PROVE  /\ Token(h) \in issued \cap jobs[h].keys /\ Token(h) \in Tokens
         /\ jobs[h].op \in ProfileOps \cup {"act", "logout"} /\ IsJob(jobs[h])
         /\ Carries(jobs[h].op, jobs[h].pc, jobs[h].arg, jobs[h].copy, jobs[h].phase)
<1>1. SessionJob(jobs[h]) /\ IsJob(jobs[h]) /\ issued \subseteq Tokens
  BY JobOf DEF OpenJob, Typed, SessionsTyped
<1>2. Token(h) \in issued \cap jobs[h].keys /\ jobs[h].op \in ProfileOps \cup {"act", "logout"}
  BY <1>1 DEF SessionJob, Token
<1> QED
  BY <1>1, <1>2 DEF SessionJob, Carries

LEMMA TokenOpen ==
  ASSUME NEW j, IsJob(j), j.alone \in BOOLEAN, j.pc \in TokenPcs,
         j.arg.token \in issued \cap j.keys, j.op \in ProfileOps \cup {"act", "logout"},
         Carries(j.op, j.pc, j.arg, j.copy, j.phase)
  PROVE  OpenJob(j)
<1>1. /\ j.pc \notin StatePcs /\ j.pc \notin GroupWaits
      /\ j.pc \notin {"create", "keep", "lock", "find", "decide", "promoteParent"}
  BY TokenPcsAre
<1>2. SessionJob(j)
  BY <1>1 DEF SessionJob, Carries
<1>3. AdminJob(j)
  BY <1>1, StatePcsAre DEF AdminJob
<1>4. OtherJob(j)
  BY <1>1 DEF OtherJob
<1> QED
  BY <1>2, <1>3, <1>4 DEF OpenJob

LEMMA TokenMoves ==
  ASSUME Typed, NEW h \in Handlers, Working(h), jobs[h].pc \in TokenPcs, UNCHANGED issued,
         NEW pc \in TokenPcs, NEW arg, arg.token = Token(h), NEW copy, NEW phase,
         Carries(jobs[h].op, pc, arg, copy, phase),
         Continue(h, Moved(jobs[h], pc, arg, copy, phase))
  PROVE  SessionMove(h)
<1>1. PICK k : k = Moved(jobs[h], pc, arg, copy, phase)
  OBVIOUS
<1>2. /\ IsJob(k) /\ k.pc = pc /\ k.keys = jobs[h].keys /\ k.alone = jobs[h].alone
      /\ k.arg = arg /\ k.copy = copy /\ k.op = jobs[h].op /\ k.phase = phase
  BY <1>1, MovedIs
<1>3. k.alone \in BOOLEAN
  BY <1>2, JobOf DEF OpenJob
<1>4. k.arg.token \in issued \cap k.keys /\ k.op \in ProfileOps \cup {"act", "logout"}
  BY <1>2, TokenJobIs
<1>5. OpenJob(k)
  BY <1>2, <1>3, <1>4, TokenOpen
<1>6. Continue(h, k)
  BY <1>1
<1>7. OthersKept(h) /\ jobs'[h] = k /\ UNCHANGED <<now, mix>>
  BY <1>6, Continues
<1>8. JobsTyped'
  BY <1>5, <1>6, StayTyped
<1>9. pc # "keep"
  BY TokenPcsAre
<1>10. TokensDiffer'
  BY <1>2, <1>7, <1>9, DifferKept DEF At
<1> QED
  BY <1>2, <1>7, <1>8, <1>10 DEF SessionMove, Sessional

\* The same request at its next step, and with another copy.
LEMMA TokenGoes ==
  ASSUME Typed, NEW h \in Handlers, Working(h), jobs[h].pc \in TokenPcs, UNCHANGED issued,
         NEW pc \in TokenPcs, NEW copy
  PROVE  /\ Go(h, pc) /\ Carries(jobs[h].op, pc, jobs[h].arg, jobs[h].copy, jobs[h].phase)
              => SessionMove(h)
         /\ GoWith(h, pc, copy) /\ Carries(jobs[h].op, pc, jobs[h].arg, copy, jobs[h].phase)
              => SessionMove(h)
<1>1. jobs[h].arg.token = Token(h)
  BY DEF Token
<1>2. ASSUME NEW c, Carries(jobs[h].op, pc, jobs[h].arg, c, jobs[h].phase),
             Continue(h, Moved(jobs[h], pc, jobs[h].arg, c, jobs[h].phase))
      PROVE  SessionMove(h)
  BY <1>1, <1>2, TokenMoves
<1> QED
  BY <1>2, Goes

-----------------------------------------------------------------------------
LEMMA SessionsSplit ==
  /\ SessionsTyped <=> /\ StoreTyped /\ cache \in [Tokens -> SessionRecords \cup {None}]
                       /\ granted \in [Tokens -> Nat \cup {None}] /\ issued \subseteq Tokens
  /\ Typed => /\ SessionsTyped /\ ProfilesTyped
              /\ UNCHANGED <<mix, storeVars>> => StoreTyped'
  BY DEF SessionsTyped, StoreTyped, storeVars, Typed, StoredRecords, Lmdb

LEMMA ProfilesKept ==
  ASSUME Typed, UNCHANGED profileVars
  PROVE  ProfilesTyped'
  BY DEF Typed, ProfilesTyped, profileVars, Preferences

SessionTypes == SessionsTyped' /\ ProfilesTyped'

LEMMA MoveTypes ==
  ASSUME Typed, NEW h \in Handlers, SessionMove(h), UNCHANGED <<issued, profileVars>>,
         StoreTyped' \/ UNCHANGED storeVars,
         cache' \in [Tokens -> SessionRecords \cup {None}] \/ UNCHANGED cache,
         granted' \in [Tokens -> Nat \cup {None}] \/ UNCHANGED granted
  PROVE  SessionTypes
<1>1. UNCHANGED mix
  BY DEF SessionMove, Sessional
<1>2. StoreTyped'
  BY <1>1, SessionsSplit
<1>3. /\ cache' \in [Tokens -> SessionRecords \cup {None}]
      /\ granted' \in [Tokens -> Nat \cup {None}] /\ issued' \subseteq Tokens
  BY SessionsSplit
<1>4. SessionsTyped'
  BY <1>2, <1>3 DEF SessionsTyped, StoreTyped
<1> QED
  BY <1>4, ProfilesKept DEF SessionTypes

LEMMA LoadedMoves ==
  ASSUME Typed, NEW h \in Handlers, Working(h), jobs[h].pc \in LoadPcs, UNCHANGED issued,
         NEW record \in SessionRecords, Loaded(h, record)
  PROVE  SessionMove(h)
<1>1. /\ jobs[h].pc \in TokenPcs /\ {"renew", "expire", "fill"} \subseteq TokenPcs
      /\ {"expire", "fill"} \cap (ProfilePcs \cup LoadPcs) = {} /\ "fill" \in RecordPcs
      /\ {"renew", "expire"} \cap RecordPcs = {} /\ "renew" \in ProfilePcs
  BY DEF TokenPcs, LoadPcs, RecordPcs, ProfilePcs
<1>2. Carries(jobs[h].op, jobs[h].pc, jobs[h].arg, jobs[h].copy, jobs[h].phase)
  BY <1>1, TokenJobIs
<1>3. CASE jobs[h].phase = "update"
  <2>1. Carries(jobs[h].op, "renew", jobs[h].arg, record, jobs[h].phase)
    BY <1>1, <1>2, <1>3 DEF Carries
  <2>2. GoWith(h, "renew", record)
    BY <1>3 DEF Loaded
  <2> QED
    BY <1>1, <2>1, <2>2, TokenGoes
<1>4. CASE jobs[h].phase # "update" /\ IsExpired(record)
  <2>1. Carries(jobs[h].op, "expire", jobs[h].arg, jobs[h].copy, jobs[h].phase)
    BY <1>1, <1>2 DEF Carries
  <2>2. Go(h, "expire")
    BY <1>4 DEF Loaded
  <2> QED
    BY <1>1, <2>1, <2>2, TokenGoes
<1>5. CASE jobs[h].phase # "update" /\ ~IsExpired(record)
  <2>1. Carries(jobs[h].op, "fill", jobs[h].arg, record, jobs[h].phase)
    BY <1>1, <1>2 DEF Carries
  <2>2. GoWith(h, "fill", record)
    BY <1>5 DEF Loaded
  <2> QED
    BY <1>1, <2>1, <2>2, TokenGoes
<1> QED
  BY <1>3, <1>4, <1>5

LEMMA UntilTyped ==
  ASSUME Typed, NEW record \in SessionRecords \cup StoredRecords
  PROVE  Until(record) \in Nat
<1>1. mix.clock \in Nat
  BY AccessAssumption DEF Typed
<1>2. record.expires \in Nat \cup {None}
  BY DEF SessionRecords, StoredRecords, RecordsOf
<1> QED
  BY <1>1, <1>2 DEF Until

\* Finding the session of a request.
Finding(h) ==
  \/ LookupCache(h) \/ ReadStore(h) \/ ReadRawKey(h) \/ MigrateRawKey(h) \/ DropRawKey(h)
  \/ FillCache(h)

LEMMA FindingTyped ==
  ASSUME Typed, NEW h \in Handlers, Finding(h)
  PROVE  SessionMove(h) /\ SessionTypes
<1>1. /\ {"lookup", "read", "readRaw", "migrate", "dropRaw"} = LoadPcs /\ LoadPcs \subseteq TokenPcs
      /\ {"fill", "erase", "serve", "renew"} \subseteq TokenPcs /\ "renew" \in ProfilePcs
      /\ LoadPcs \cap ProfilePcs = {} /\ {"erase", "serve", "fill"} \cap (LoadPcs \cup ProfilePcs) = {}
      /\ RecordPcs = {"migrate", "dropRaw", "fill", "renewed"}
  BY DEF TokenPcs, LoadPcs, RecordPcs, ProfilePcs
<1>2. PICK j, t : j = jobs[h] /\ t = Token(h)
  OBVIOUS
<1>3. ASSUME Working(h), j.pc \in TokenPcs
      PROVE  t \in Tokens /\ Carries(j.op, j.pc, j.arg, j.copy, j.phase)
  BY <1>2, <1>3, TokenJobIs
<1>4. /\ StoreTyped /\ cache \in [Tokens -> SessionRecords \cup {None}]
      /\ granted \in [Tokens -> Nat \cup {None}]
  BY SessionsSplit
<1>5. CASE LookupCache(h)
  <2>1. Working(h) /\ j.pc = "lookup" /\ UNCHANGED <<storeVars, cache, issued, profileVars>>
    BY <1>2, <1>5 DEF LookupCache, At
  <2>2. PICK record : record = cache[t]
    OBVIOUS
  <2>3. record \in SessionRecords \cup {None}
    BY <1>1, <1>3, <1>4, <2>1, <2>2
  <2>4. SessionMove(h)
    <3>1. CASE record = None
      <4>1. Go(h, "read")
        BY <1>2, <1>5, <2>2, <3>1 DEF LookupCache
      <4>2. Carries(j.op, "read", j.arg, j.copy, j.phase)
        BY <1>1, <1>3, <2>1 DEF Carries
      <4> QED
        BY <1>1, <1>2, <2>1, <4>1, <4>2, TokenGoes
    <3>2. CASE record # None /\ j.phase = "update"
      <4>1. GoWith(h, "renew", record)
        BY <1>2, <1>5, <2>2, <3>2 DEF LookupCache
      <4>2. Carries(j.op, "renew", j.arg, record, j.phase)
        BY <1>1, <1>3, <2>1, <3>2 DEF Carries
      <4> QED
        BY <1>1, <1>2, <2>1, <4>1, <4>2, TokenGoes
    <3>3. CASE record # None /\ j.phase # "update" /\ IsExpired(record)
      <4>1. Go(h, "erase")
        BY <1>2, <1>5, <2>2, <3>3 DEF LookupCache
      <4>2. Carries(j.op, "erase", j.arg, j.copy, j.phase)
        BY <1>1, <1>3, <2>1 DEF Carries
      <4> QED
        BY <1>1, <1>2, <2>1, <4>1, <4>2, TokenGoes
    <3>4. CASE record # None /\ j.phase # "update" /\ ~IsExpired(record)
      <4>1. PICK p : p = record.principal /\ GoWith(h, "serve", p)
        BY <1>2, <1>5, <2>2, <3>4 DEF LookupCache
      <4>2. p \in Principals
        BY <2>3, <3>4, <4>1 DEF SessionRecords, RecordsOf, Principals
      <4>3. Carries(j.op, "serve", j.arg, p, j.phase)
        BY <1>1, <1>3, <2>1, <4>2 DEF Carries
      <4> QED
        BY <1>1, <1>2, <2>1, <4>1, <4>3, TokenGoes
    <3> QED
      BY <3>1, <3>2, <3>3, <3>4
  <2>5. granted' \in [Tokens -> Nat \cup {None}]
    BY <1>4, <1>5 DEF LookupCache
  <2> QED
    BY <2>1, <2>4, <2>5, MoveTypes
<1>6. CASE ReadStore(h)
  <2>1. /\ Working(h) /\ j.pc = "read"
        /\ UNCHANGED <<storeVars, cache, granted, issued, profileVars>>
    BY <1>2, <1>6 DEF ReadStore, At, sessionVars, storeVars
  <2>2. PICK stored : stored = sessions[t]
    OBVIOUS
  <2>3. stored \in StoredRecords \cup {None}
    BY <1>1, <1>3, <1>4, <2>1, <2>2 DEF StoreTyped
  <2>4. SessionMove(h)
    <3>1. CASE stored = None
      <4>1. Go(h, "readRaw")
        BY <1>2, <1>6, <2>2, <3>1 DEF ReadStore
      <4>2. Carries(j.op, "readRaw", j.arg, j.copy, j.phase)
        BY <1>1, <1>3, <2>1 DEF Carries
      <4> QED
        BY <1>1, <1>2, <2>1, <4>1, <4>2, TokenGoes
    <3>2. CASE stored # None
      <4>1. PICK record : record = Decode(stored) /\ Loaded(h, record)
        BY <1>2, <1>6, <2>2, <3>2 DEF ReadStore
      <4>2. record \in SessionRecords
        BY <2>3, <3>2, <4>1, DecodeTyped
      <4> QED
        BY <1>1, <1>2, <2>1, <4>1, <4>2, LoadedMoves
    <3> QED
      BY <3>1, <3>2
  <2> QED
    BY <2>1, <2>4, MoveTypes
<1>7. CASE ReadRawKey(h)
  <2>1. /\ Working(h) /\ j.pc = "readRaw"
        /\ UNCHANGED <<storeVars, cache, granted, issued, profileVars>>
    BY <1>2, <1>7 DEF ReadRawKey, At, sessionVars, storeVars
  <2>2. SessionMove(h)
    <3>1. CASE Finish(h)
      BY <2>1, <3>1, TokenEnds
    <3>2. CASE ~Finish(h)
      <4>1. PICK record : record = rawKeys[t] /\ record # None /\ GoWith(h, "migrate", record)
        BY <1>2, <1>7, <3>2 DEF ReadRawKey
      <4>2. record \in SessionRecords
        BY <1>1, <1>3, <1>4, <2>1, <4>1 DEF StoreTyped
      <4>3. Carries(j.op, "migrate", j.arg, record, j.phase)
        BY <1>1, <1>3, <2>1, <4>2 DEF Carries
      <4> QED
        BY <1>1, <1>2, <2>1, <4>1, <4>3, TokenGoes
    <3> QED
      BY <3>1, <3>2
  <2> QED
    BY <2>1, <2>2, MoveTypes
<1>8. CASE MigrateRawKey(h)
  <2>1. /\ Working(h) /\ j.pc = "migrate" /\ UNCHANGED <<cache, granted, issued, profileVars>>
    BY <1>2, <1>8 DEF MigrateRawKey, At
  <2>2. PICK ok \in BOOLEAN : /\ StorePut(t, j.copy, ok)
                              /\ IF ok THEN Go(h, "dropRaw") ELSE Finish(h)
    BY <1>2, <1>8 DEF MigrateRawKey
  <2>3. j.copy \in SessionRecords
    BY <1>1, <1>3, <2>1 DEF Carries
  <2>4. Carries(j.op, "dropRaw", j.arg, j.copy, j.phase)
    BY <1>1, <1>3, <2>1, <2>3 DEF Carries
  <2>5. SessionMove(h)
    BY <1>1, <1>2, <2>1, <2>2, <2>4, TokenGoes, TokenEnds
  <2>6. StoreTyped'
    BY <1>1, <1>3, <1>4, <2>1, <2>2, <2>3, <2>5, PutTyped DEF SessionMove, Sessional
  <2> QED
    BY <2>1, <2>5, <2>6, MoveTypes
<1>9. CASE DropRawKey(h)
  <2>1. /\ Working(h) /\ j.pc = "dropRaw"
        /\ UNCHANGED <<sessions, expiry, disk, cache, granted, issued, profileVars>>
        /\ rawKeys' = [rawKeys EXCEPT ![t] = None] /\ Loaded(h, j.copy)
    BY <1>2, <1>9 DEF DropRawKey, At
  <2>2. j.copy \in SessionRecords
    BY <1>1, <1>3, <2>1 DEF Carries
  <2>3. SessionMove(h)
    BY <1>1, <1>2, <2>1, <2>2, LoadedMoves
  <2>4. StoreTyped'
    BY <1>4, <2>1, <2>3 DEF StoreTyped, StoredRecords, Lmdb, SessionMove, Sessional
  <2> QED
    BY <2>1, <2>3, <2>4, MoveTypes
<1>10. CASE FillCache(h)
  <2>1. /\ Working(h) /\ j.pc = "fill" /\ UNCHANGED <<storeVars, granted, issued, profileVars>>
        /\ cache' = [cache EXCEPT ![t] = j.copy]
    BY <1>2, <1>10 DEF FillCache, At, Remember
  <2>2. j.copy \in SessionRecords
    BY <1>1, <1>3, <2>1 DEF Carries
  <2>3. PICK p : p = j.copy.principal /\ GoWith(h, "serve", p)
    BY <1>2, <1>10 DEF FillCache
  <2>4. p \in Principals
    BY <2>2, <2>3 DEF SessionRecords, RecordsOf, Principals
  <2>5. Carries(j.op, "serve", j.arg, p, j.phase)
    BY <1>1, <1>3, <2>1, <2>4 DEF Carries
  <2>6. SessionMove(h)
    BY <1>1, <1>2, <2>1, <2>3, <2>5, TokenGoes
  <2>7. cache' \in [Tokens -> SessionRecords \cup {None}]
    BY <1>4, <2>1, <2>2
  <2> QED
    BY <2>1, <2>6, <2>7, MoveTypes
<1> QED
  BY <1>5, <1>6, <1>7, <1>8, <1>9, <1>10 DEF Finding

-----------------------------------------------------------------------------
\* Ending a session and renewing one.
Ending(h) ==
  ExpireStored(h) \/ Erase(h) \/ EraseCached(h) \/ Renew(h) \/ Renewed(h)

LEMMA EndingTyped ==
  ASSUME Typed, NEW h \in Handlers, Ending(h)
  PROVE  SessionMove(h) /\ SessionTypes
<1>1. /\ {"expire", "erase", "forget", "renew", "renewed"} \subseteq TokenPcs
      /\ "forget" \notin LoadPcs \cup ProfilePcs \cup RecordPcs
      /\ "renewed" \in ProfilePcs \cap RecordPcs /\ "renew" \in ProfilePcs
      /\ "renewed" \notin LoadPcs
  BY DEF TokenPcs, LoadPcs, RecordPcs, ProfilePcs
<1>2. PICK j, t : j = jobs[h] /\ t = Token(h)
  OBVIOUS
<1>3. ASSUME Working(h), j.pc \in TokenPcs
      PROVE  t \in Tokens /\ Carries(j.op, j.pc, j.arg, j.copy, j.phase)
  BY <1>2, <1>3, TokenJobIs
<1>4. /\ StoreTyped /\ cache \in [Tokens -> SessionRecords \cup {None}]
      /\ granted \in [Tokens -> Nat \cup {None}]
  BY SessionsSplit
<1>5. ASSUME NEW job, Continue(h, job) PROVE UNCHANGED mix
  BY <1>5 DEF Continue
<1>6. CASE ExpireStored(h)
  <2>1. /\ Working(h) /\ j.pc = "expire" /\ Finish(h)
        /\ UNCHANGED <<cache, issued, profileVars>>
        /\ granted' = [granted EXCEPT ![t] = None]
    BY <1>2, <1>6 DEF ExpireStored, At
  <2>2. PICK ok \in BOOLEAN : StoreDelete(t, ok)
    BY <1>2, <1>6 DEF ExpireStored
  <2>3. UNCHANGED mix
    BY <2>1, <1>5 DEF Finish
  <2>4. t \in Tokens
    BY <1>1, <1>3, <2>1
  <2>5. SessionMove(h)
    BY <2>1, TokenEnds
  <2>6. StoreTyped'
    BY <1>4, <2>2, <2>3, <2>4, DeleteTyped
  <2>7. granted' \in [Tokens -> Nat \cup {None}]
    BY <1>4, <2>1
  <2> QED
    BY <2>1, <2>5, <2>6, <2>7, MoveTypes
<1>7. CASE Erase(h)
  <2>1. /\ Working(h) /\ j.pc = "erase" /\ UNCHANGED <<cache, granted, issued, profileVars>>
        /\ Continue(h, [jobs[h] EXCEPT !.pc = "forget"])
    BY <1>2, <1>7 DEF Erase, At
  <2>2. PICK ok \in BOOLEAN : StoreDelete(t, ok)
    BY <1>2, <1>7 DEF Erase
  <2>3. UNCHANGED mix
    BY <2>1, <1>5
  <2>4. t \in Tokens /\ Carries(j.op, "forget", j.arg, j.copy, j.phase)
    BY <1>1, <1>3, <2>1 DEF Carries
  <2>5. Go(h, "forget")
    BY <2>1 DEF Go
  <2>6. SessionMove(h)
    BY <1>1, <1>2, <2>1, <2>4, <2>5, TokenGoes
  <2>7. StoreTyped'
    BY <1>4, <2>2, <2>3, <2>4, DeleteTyped
  <2> QED
    BY <2>1, <2>6, <2>7, MoveTypes
<1>8. CASE EraseCached(h)
  <2>1. /\ Working(h) /\ j.pc = "forget" /\ Finish(h)
        /\ UNCHANGED <<storeVars, granted, issued, profileVars>>
        /\ cache' = [cache EXCEPT ![t] = None]
    BY <1>2, <1>8 DEF EraseCached, At, Forget
  <2>2. SessionMove(h)
    BY <2>1, TokenEnds
  <2>3. cache' \in [Tokens -> SessionRecords \cup {None}]
    BY <1>4, <2>1
  <2> QED
    BY <2>1, <2>2, <2>3, MoveTypes
<1>9. CASE Renew(h)
  <2>1. Working(h) /\ j.pc = "renew" /\ UNCHANGED <<cache, issued, profileVars>>
    BY <1>2, <1>9 DEF Renew, At
  <2>2. PICK record : record = SessionRecord(j.arg.principal)
    OBVIOUS
  <2>3. PICK ok \in BOOLEAN :
          /\ StorePut(t, record, ok)
          /\ IF ok THEN GoWith(h, "renewed", record) ELSE Finish(h)
          /\ granted' = IF ok /\ j.alone /\ granted[t] # None
                        THEN [granted EXCEPT ![t] = Until(record)] ELSE granted
    BY <1>2, <1>9, <2>2 DEF Renew
  <2>4. t \in Tokens /\ j.op \in ProfileOps /\ j.arg.principal \in Principals
    BY <1>1, <1>3, <2>1 DEF Carries
  <2>5. record \in SessionRecords
    BY <2>2, <2>4, RecordTyped
  <2>6. Carries(j.op, "renewed", j.arg, record, j.phase)
    BY <1>1, <1>3, <2>1, <2>4, <2>5 DEF Carries
  <2>7. SessionMove(h)
    BY <1>1, <1>2, <2>1, <2>3, <2>6, TokenGoes, TokenEnds
  <2>8. UNCHANGED mix
    BY <2>7 DEF SessionMove, Sessional
  <2>9. StoreTyped'
    BY <1>4, <2>3, <2>4, <2>5, <2>8, PutTyped
  <2>10. granted' \in [Tokens -> Nat \cup {None}]
    <3>1. Until(record) \in Nat
      BY <2>5, UntilTyped
    <3> QED
      BY <1>4, <2>3, <3>1
  <2> QED
    BY <2>1, <2>7, <2>9, <2>10, MoveTypes
<1>10. CASE Renewed(h)
  <2>1. /\ Working(h) /\ j.pc = "renewed" /\ Finish(h)
        /\ UNCHANGED <<storeVars, granted, issued, profileVars>>
        /\ cache' = [cache EXCEPT ![t] = j.copy]
    BY <1>2, <1>10 DEF Renewed, At, Remember
  <2>2. SessionMove(h)
    BY <2>1, TokenEnds
  <2>3. j.copy \in SessionRecords
    BY <1>1, <1>3, <2>1 DEF Carries
  <2>4. cache' \in [Tokens -> SessionRecords \cup {None}]
    BY <1>4, <2>1, <2>3
  <2> QED
    BY <2>1, <2>2, <2>4, MoveTypes
<1> QED
  BY <1>6, <1>7, <1>8, <1>9, <1>10 DEF Ending

-----------------------------------------------------------------------------
(***************************************************************************)
(* The profile of the person who asks.                                     *)
(***************************************************************************)
WithPerson(j, pc, phase, p) ==
  [j EXCEPT !.pc = pc, !.phase = phase, !.arg.principal = p]

LEMMA WithPersonIs ==
  ASSUME NEW j, IsJob(j), j.arg = [token |-> j.arg.token, principal |-> j.arg.principal],
         NEW pc, NEW phase, NEW p
  PROVE  WithPerson(j, pc, phase, p)
           = Moved(j, pc, [token |-> j.arg.token, principal |-> p], j.copy, phase)
<1>1. PICK a : a = j.arg
  OBVIOUS
<1>2. PICK b : b = [a EXCEPT !.principal = p]
  OBVIOUS
<1>3. b = [token |-> j.arg.token, principal |-> p]
  BY <1>1, <1>2
<1>4. j = [op |-> j.op, pc |-> j.pc, keys |-> j.keys, arg |-> a, copy |-> j.copy,
           phase |-> j.phase, alone |-> j.alone]
  BY <1>1 DEF IsJob
<1>5. PICK k : k = [j EXCEPT !.pc = pc, !.phase = phase, !.arg.principal = p]
  OBVIOUS
<1>6. k = [op |-> j.op, pc |-> pc, keys |-> j.keys, arg |-> b, copy |-> j.copy,
           phase |-> phase, alone |-> j.alone]
  BY <1>1, <1>2, <1>4, <1>5
<1> QED
  BY <1>3, <1>5, <1>6 DEF Moved, WithPerson

\* A request about a profile goes on, with what is known of its person.
Profiled(h) ==
  \/ Finish(h)
  \/ \E pc, p, copy, phase :
       /\ pc \in ProfilePcs \cup {"lookup"}
       /\ Continue(h, Moved(jobs[h], pc, [token |-> Token(h), principal |-> p], copy, phase))

LEMMA ProfileMoves ==
  ASSUME Typed, NEW h \in Handlers, Working(h), jobs[h].pc \in TokenPcs,
         jobs[h].op \in ProfileOps, UNCHANGED issued,
         NEW pc \in ProfilePcs \cup {"lookup"}, NEW p \in Principals, NEW phase, NEW copy,
         pc = "renewed" => copy \in SessionRecords,
         pc \in {"migratePrefs", "putPrefs"} => copy \in Preferences,
         Continue(h, Moved(jobs[h], pc, [token |-> Token(h), principal |-> p], copy, phase))
  PROVE  SessionMove(h) /\ Profiled(h)
<1>1. /\ pc \in TokenPcs /\ pc # "serve"
      /\ pc \in RecordPcs => pc = "renewed"
  BY DEF TokenPcs, LoadPcs, RecordPcs, ProfilePcs
<1>2. PICK a, t : t = Token(h) /\ a = [token |-> t, principal |-> p]
  OBVIOUS
<1>3. a.token = Token(h) /\ a = [token |-> a.token, principal |-> a.principal] /\ a.principal = p
  BY <1>2
<1>4. Carries(jobs[h].op, pc, a, copy, phase)
  BY <1>1, <1>3 DEF Carries
<1>5. Continue(h, Moved(jobs[h], pc, a, copy, phase))
  BY <1>2
<1>6. Profiled(h)
  BY DEF Profiled
<1> QED
  BY <1>1, <1>3, <1>4, <1>5, <1>6, TokenMoves

LEMMA MergeTyped ==
  ASSUME NEW p \in Principals, NEW q \in Preferences
  PROVE  Merge(p, q) \in Principals
<1>1. PICK n : n = IF q.nickname # "" THEN q.nickname ELSE p.name
  OBVIOUS
<1>2. PICK a : a = IF q.avatar # "" THEN q.avatar ELSE p.avatar
  OBVIOUS
<1>3. n \in STRING /\ a \in STRING
  BY <1>1, <1>2 DEF Principals, PrincipalsOf, Preferences
<1>4. Merge(p, q) = [p EXCEPT !.name = n, !.avatar = a]
  BY <1>1, <1>2 DEF Merge, Principals, PrincipalsOf
<1> QED
  BY <1>3, <1>4 DEF Principals, PrincipalsOf

LEMMA NoPrefsTyped ==
  NoPrefs \in Preferences
  BY WordsAssumption DEF NoPrefs, Preferences

LEMMA PrefsMove ==
  ASSUME Typed, NEW h \in Handlers, Working(h), jobs[h].pc \in {"prefs", "migratePrefs"},
         UNCHANGED issued, NEW stored \in Preferences, PrefsLoaded(h, stored)
  PROVE  SessionMove(h) /\ Profiled(h)
<1>1. /\ {"prefs", "migratePrefs", "putPrefs"} \subseteq ProfilePcs
      /\ ProfilePcs \subseteq TokenPcs
  BY DEF TokenPcs, ProfilePcs
<1>2. PICK j, t : j = jobs[h] /\ t = Token(h)
  OBVIOUS
<1>3. Carries(j.op, j.pc, j.arg, j.copy, j.phase) /\ IsJob(j)
  BY <1>1, <1>2, TokenJobIs
<1>4. /\ j.op \in ProfileOps /\ j.arg.principal \in Principals
      /\ j.arg = [token |-> j.arg.token, principal |-> j.arg.principal]
      /\ j.arg.token = t
  BY <1>1, <1>2, <1>3 DEF Carries, Token
<1>5. CASE j.phase = "edit"
  <2>1. GoWith(h, "putPrefs", stored)
    BY <1>2, <1>5 DEF PrefsLoaded
  <2>2. Continue(h, Moved(j, "putPrefs", j.arg, stored, j.phase))
    BY <1>2, <2>1, Goes
  <2>3. Continue(h, Moved(j, "putPrefs", [token |-> t, principal |-> j.arg.principal],
                          stored, j.phase))
    BY <1>4, <2>2
  <2> QED
    BY <1>1, <1>2, <1>4, <2>3, ProfileMoves
<1>6. CASE j.phase # "edit"
  <2>1. PICK p : p = Merge(j.arg.principal, stored)
    OBVIOUS
  <2>2. p \in Principals
    BY <1>4, <2>1, MergeTyped
  <2>3. PICK k : /\ k = [j EXCEPT !.pc = "lookup", !.phase = "update",
                                  !.arg.principal = Merge(@, stored)]
                 /\ Continue(h, k)
    BY <1>2, <1>6 DEF PrefsLoaded
  <2>4. k = WithPerson(j, "lookup", "update", p)
    BY <2>1, <2>3 DEF WithPerson
  <2>5. k = Moved(j, "lookup", [token |-> j.arg.token, principal |-> p], j.copy, "update")
    BY <1>3, <1>4, <2>4, WithPersonIs
  <2>6. j.arg.token = Token(h)
    BY <1>2 DEF Token
  <2>7. Continue(h, Moved(jobs[h], "lookup", [token |-> Token(h), principal |-> p],
                          jobs[h].copy, "update"))
    BY <1>2, <2>3, <2>5, <2>6
  <2>8. jobs[h].op \in ProfileOps /\ jobs[h].pc \in TokenPcs
    BY <1>1, <1>2, <1>4
  <2>9. "lookup" \in ProfilePcs \cup {"lookup"}
    OBVIOUS
  <2> QED
    BY <2>2, <2>7, <2>8, <2>9, ProfileMoves
<1> QED
  BY <1>5, <1>6

ProfileSteps(h) ==
  \/ ServeProfile(h) \/ Refresh(h) \/ Upload(h) \/ GetPrefs(h) \/ MigratePrefs(h)
  \/ StorePrefs(h)

LEMMA PrefsKept ==
  ASSUME Typed, NEW h \in Handlers, SessionMove(h), UNCHANGED sessionVars,
         prefs' \in Preferences \cup {None} /\ prefsDisk' \in Preferences \cup {None},
         UNCHANGED prefsLegacy, photo' \in STRING
  PROVE  SessionTypes
<1>1. UNCHANGED mix
  BY DEF SessionMove, Sessional
<1>2. SessionsTyped'
  BY <1>1, SessionsSplit DEF sessionVars, storeVars, SessionsTyped, StoreTyped
<1>3. ProfilesTyped'
  BY SessionsSplit DEF ProfilesTyped, Preferences
<1> QED
  BY <1>2, <1>3 DEF SessionTypes

LEMMA PutPrefsTyped ==
  ASSUME Typed, NEW new \in Preferences, NEW ok \in BOOLEAN, PutPrefs(new, ok)
  PROVE  /\ prefs' \in Preferences \cup {None} /\ prefsDisk' \in Preferences \cup {None}
         /\ UNCHANGED prefsLegacy /\ photo' \in STRING
  BY SessionsSplit DEF PutPrefs, ProfilesTyped

LEMMA EditedTyped ==
  ASSUME NEW j, j.copy \in Preferences, j.arg.principal \in Principals
  PROVE  Edited(j) \in Preferences
<1>1. PICK c, a : c = j.copy /\ a = j.arg.principal.avatar
  OBVIOUS
<1>2. c \in Preferences /\ a \in STRING
  BY <1>1 DEF Principals, PrincipalsOf
<1>3. Edited(j) \in {[c EXCEPT !.nickname = "chosen"], [c EXCEPT !.avatar = a]}
  BY <1>1 DEF Edited
<1> QED
  BY <1>2, <1>3, WordsAssumption DEF Preferences

LEMMA ProfileTyped ==
  ASSUME Typed, NEW h \in Handlers, ProfileSteps(h)
  PROVE  SessionMove(h) /\ SessionTypes /\ Profiled(h)
<1>1. /\ {"refresh", "upload", "prefs", "migratePrefs", "putPrefs"} \subseteq ProfilePcs
      /\ ProfilePcs \subseteq TokenPcs /\ "serve" \in TokenPcs
      /\ {"refresh", "upload", "prefs", "migratePrefs", "putPrefs"} \cap {"renewed"} = {}
  BY DEF TokenPcs, ProfilePcs
<1>2. PICK j, t : j = jobs[h] /\ t = Token(h)
  OBVIOUS
<1>3. ASSUME Working(h), j.pc \in TokenPcs, j.op \in ProfileOps
      PROVE  /\ IsJob(j) /\ Carries(j.op, j.pc, j.arg, j.copy, j.phase)
             /\ j.arg = [token |-> j.arg.token, principal |-> j.arg.principal]
             /\ j.arg.token = Token(h)
  <2>1. IsJob(j) /\ Carries(j.op, j.pc, j.arg, j.copy, j.phase)
    BY <1>2, <1>3, TokenJobIs
  <2> QED
    BY <1>2, <1>3, <2>1 DEF Carries, Token
<1>4. ASSUME Working(h), j.pc \in ProfilePcs
      PROVE  j.op \in ProfileOps /\ j.arg.principal \in Principals
  BY <1>1, <1>2, <1>4, TokenJobIs DEF Carries
<1>5. ProfilesTyped
  BY SessionsSplit
<1>6. CASE ServeProfile(h)
  <2>1. /\ Working(h) /\ j.pc = "serve" /\ j.op \in ProfileOps
        /\ UNCHANGED <<sessionVars, profileVars, issued>>
    BY <1>2, <1>6 DEF ServeProfile, At, sessionVars
  <2>2. PICK p, pc, phase :
          /\ p = j.copy /\ pc \in {"refresh", "prefs", "upload", "lookup"}
          /\ Continue(h, [jobs[h] EXCEPT !.pc = pc, !.phase = phase, !.arg.principal = p])
    BY <1>2, <1>6 DEF ServeProfile
  <2>3. p \in Principals
    BY <1>1, <1>3, <2>1, <2>2 DEF Carries
  <2>4. PICK k : k = [j EXCEPT !.pc = pc, !.phase = phase, !.arg.principal = p] /\ Continue(h, k)
    BY <1>2, <2>2
  <2>5. k = WithPerson(j, pc, phase, p)
    BY <2>4 DEF WithPerson
  <2>6. k = Moved(j, pc, [token |-> j.arg.token, principal |-> p], j.copy, phase)
    BY <1>1, <1>3, <2>1, <2>5, WithPersonIs
  <2>7. Continue(h, Moved(jobs[h], pc, [token |-> Token(h), principal |-> p], jobs[h].copy, phase))
    BY <1>1, <1>2, <1>3, <2>1, <2>4, <2>6
  <2>8. pc \in ProfilePcs \cup {"lookup"} /\ pc # "renewed" /\ pc \notin {"migratePrefs", "putPrefs"}
    BY <1>1, <2>2
  <2>9. jobs[h].op \in ProfileOps /\ jobs[h].pc \in TokenPcs
    BY <1>1, <1>2, <2>1
  <2>10. SessionMove(h) /\ Profiled(h)
    BY <2>1, <2>3, <2>7, <2>8, <2>9, ProfileMoves
  <2> QED
    BY <1>5, <2>1, <2>10, PrefsKept DEF profileVars, ProfilesTyped
<1>7. CASE Refresh(h)
  <2>1. /\ Working(h) /\ j.pc = "refresh" /\ UNCHANGED <<sessionVars, profileVars, issued>>
    BY <1>2, <1>7 DEF Refresh, At, sessionVars
  <2>2. j.op \in ProfileOps /\ j.arg.principal \in Principals
    BY <1>1, <1>4, <2>1
  <2>3. PICK ok \in BOOLEAN :
          Continue(h, [jobs[h] EXCEPT !.pc = "prefs", !.phase = "merge",
            !.arg.principal.avatar = IF ok /\ jobs[h].arg.principal.role = "supplier"
                                        /\ photo # "" THEN photo ELSE @])
    BY <1>7 DEF Refresh
  <2>4. PICK k : /\ k = [j EXCEPT !.pc = "prefs", !.phase = "merge",
                           !.arg.principal.avatar = IF ok /\ j.arg.principal.role = "supplier"
                                                       /\ photo # "" THEN photo ELSE @]
                 /\ Continue(h, k)
    BY <1>2, <2>3
  <2>5. PICK q, p : /\ q = j.arg.principal
                    /\ p = [q EXCEPT !.avatar = IF ok /\ q.role = "supplier" /\ photo # ""
                                                THEN photo ELSE q.avatar]
    OBVIOUS
  <2>6. p \in Principals
    BY <1>5, <2>2, <2>5 DEF Principals, PrincipalsOf, ProfilesTyped
  <2>7. k = WithPerson(j, "prefs", "merge", p)
    BY <1>1, <1>3, <2>1, <2>2, <2>4, <2>5 DEF WithPerson, IsJob
  <2>8. k = Moved(j, "prefs", [token |-> j.arg.token, principal |-> p], j.copy, "merge")
    BY <1>1, <1>3, <2>1, <2>2, <2>7, WithPersonIs
  <2>9. Continue(h, Moved(jobs[h], "prefs", [token |-> Token(h), principal |-> p],
                          jobs[h].copy, "merge"))
    BY <1>1, <1>2, <1>3, <2>1, <2>2, <2>4, <2>8
  <2>10. jobs[h].op \in ProfileOps /\ jobs[h].pc \in TokenPcs
    BY <1>1, <1>2, <2>1, <2>2
  <2>11. "prefs" \in ProfilePcs \cup {"lookup"}
    BY <1>1
  <2>12. SessionMove(h) /\ Profiled(h)
    BY <2>1, <2>6, <2>9, <2>10, <2>11, ProfileMoves
  <2> QED
    BY <1>5, <2>1, <2>12, PrefsKept DEF profileVars, ProfilesTyped
<1>8. CASE Upload(h)
  <2>1. /\ Working(h) /\ j.pc = "upload"
        /\ UNCHANGED <<sessionVars, prefs, prefsDisk, prefsLegacy, issued>>
    BY <1>2, <1>8 DEF Upload, At, sessionVars
  <2>2. j.op \in ProfileOps /\ j.arg.principal \in Principals
    BY <1>1, <1>4, <2>1
  <2>3. photo' \in STRING
    BY <1>5, <1>8, WordsAssumption DEF Upload, ProfilesTyped
  <2>4. CASE Finish(h)
    BY <1>5, <2>1, <2>3, <2>4, TokenEnds, PrefsKept DEF ProfilesTyped, Profiled
  <2>5. CASE ~Finish(h)
    <3>1. PICK k : k = [j EXCEPT !.pc = "prefs", !.arg.principal.avatar = "new"] /\ Continue(h, k)
      BY <1>2, <1>8, <2>5 DEF Upload
    <3>2. PICK q, p : q = j.arg.principal /\ p = [q EXCEPT !.avatar = "new"]
      OBVIOUS
    <3>3. p \in Principals
      BY <2>2, <3>2, WordsAssumption DEF Principals, PrincipalsOf
    <3>4. k = WithPerson(j, "prefs", j.phase, p)
      BY <1>1, <1>3, <2>1, <2>2, <3>1, <3>2 DEF WithPerson, IsJob
    <3>5. k = Moved(j, "prefs", [token |-> j.arg.token, principal |-> p], j.copy, j.phase)
      BY <1>1, <1>3, <2>1, <2>2, <3>4, WithPersonIs
    <3>6. Continue(h, Moved(jobs[h], "prefs", [token |-> Token(h), principal |-> p],
                            jobs[h].copy, jobs[h].phase))
      BY <1>1, <1>2, <1>3, <2>1, <2>2, <3>1, <3>5
    <3>7. jobs[h].op \in ProfileOps /\ jobs[h].pc \in TokenPcs
      BY <1>1, <1>2, <2>1, <2>2
    <3>8. "prefs" \in ProfilePcs \cup {"lookup"}
      BY <1>1
    <3>9. SessionMove(h) /\ Profiled(h)
      BY <2>1, <3>3, <3>6, <3>7, <3>8, ProfileMoves
    <3> QED
      BY <1>5, <2>1, <2>3, <3>9, PrefsKept DEF ProfilesTyped
  <2> QED
    BY <2>4, <2>5
<1>9. CASE GetPrefs(h)
  <2>1. Working(h) /\ j.pc = "prefs" /\ UNCHANGED <<sessionVars, profileVars, issued>>
    BY <1>2, <1>9 DEF GetPrefs, At, sessionVars
  <2>2. j.op \in ProfileOps /\ j.arg.principal \in Principals
    BY <1>1, <1>4, <2>1
  <2>3. jobs[h].pc \in {"prefs", "migratePrefs"}
    BY <1>2, <2>1
  <2>4. SessionMove(h) /\ Profiled(h)
    <3>1. CASE prefs # None
      <4>1. prefs \in Preferences /\ PrefsLoaded(h, prefs)
        BY <1>5, <1>9, <3>1 DEF GetPrefs, ProfilesTyped
      <4> QED
        BY <2>1, <2>3, <4>1, PrefsMove
    <3>2. CASE prefs = None /\ Lmdb /\ prefsLegacy # None
      <4>1. PICK q : q = prefsLegacy /\ GoWith(h, "migratePrefs", q)
        BY <1>9, <3>2 DEF GetPrefs
      <4>2. q \in Preferences
        BY <1>5, <3>2, <4>1 DEF ProfilesTyped
      <4>3. Carries(j.op, "migratePrefs", j.arg, q, j.phase)
        <5>1. "migratePrefs" \notin RecordPcs /\ j.op \in ProfileOps
          BY <2>2 DEF RecordPcs
        <5>2. j.arg = [token |-> j.arg.token, principal |-> j.arg.principal]
          BY <1>1, <1>3, <2>1, <2>2
        <5> QED
          BY <2>2, <4>2, <5>1, <5>2 DEF Carries
      <4>4. Continue(h, Moved(j, "migratePrefs", j.arg, q, j.phase))
        BY <1>2, <2>1, <4>1, Goes
      <4>5. Profiled(h)
        <5>1. j.arg = [token |-> Token(h), principal |-> j.arg.principal]
          BY <1>1, <1>3, <2>1, <2>2
        <5>2. Continue(h, Moved(jobs[h], "migratePrefs",
                                [token |-> Token(h), principal |-> j.arg.principal], q, j.phase))
          BY <1>2, <4>4, <5>1
        <5> QED
          BY <1>1, <5>2 DEF Profiled
      <4> QED
        BY <1>1, <1>2, <2>1, <4>1, <4>3, <4>5, TokenGoes
    <3>3. CASE prefs = None /\ ~(Lmdb /\ prefsLegacy # None)
      <4>1. PrefsLoaded(h, NoPrefs)
        BY <1>9, <3>3 DEF GetPrefs
      <4> QED
        BY <2>1, <2>3, <4>1, NoPrefsTyped, PrefsMove
    <3> QED
      BY <3>1, <3>2, <3>3
  <2> QED
    BY <1>5, <2>1, <2>4, PrefsKept DEF profileVars, ProfilesTyped
<1>10. CASE MigratePrefs(h)
  <2>1. Working(h) /\ j.pc = "migratePrefs" /\ UNCHANGED <<sessionVars, issued>>
    BY <1>2, <1>10 DEF MigratePrefs, At, sessionVars
  <2>2. j.copy \in Preferences
    <3>1. Carries(j.op, j.pc, j.arg, j.copy, j.phase)
      BY <1>1, <1>3, <1>4, <2>1
    <3> QED
      BY <2>1, <3>1 DEF Carries
  <2>3. jobs[h].pc \in {"prefs", "migratePrefs"}
    BY <1>2, <2>1
  <2>4. PICK ok \in BOOLEAN :
          /\ PutPrefs(j.copy, ok)
          /\ PrefsLoaded(h, j.copy) \/ Finish(h) \/ PrefsLoaded(h, NoPrefs)
    BY <1>2, <1>10 DEF MigratePrefs
  <2>5. SessionMove(h) /\ Profiled(h)
    <3>1. CASE PrefsLoaded(h, j.copy)
      BY <2>1, <2>2, <2>3, <3>1, PrefsMove
    <3>2. CASE PrefsLoaded(h, NoPrefs)
      BY <2>1, <2>3, <3>2, NoPrefsTyped, PrefsMove
    <3>3. CASE Finish(h)
      BY <2>1, <3>3, TokenEnds DEF Profiled
    <3> QED
      BY <2>4, <3>1, <3>2, <3>3
  <2>6. /\ prefs' \in Preferences \cup {None} /\ prefsDisk' \in Preferences \cup {None}
        /\ UNCHANGED prefsLegacy /\ photo' \in STRING
    BY <2>2, <2>4, PutPrefsTyped
  <2> QED
    BY <2>1, <2>5, <2>6, PrefsKept
<1>11. CASE StorePrefs(h)
  <2>1. Working(h) /\ j.pc = "putPrefs" /\ UNCHANGED <<sessionVars, issued>>
    BY <1>2, <1>11 DEF StorePrefs, At, sessionVars
  <2>2. j.op \in ProfileOps /\ j.arg.principal \in Principals
    BY <1>1, <1>4, <2>1
  <2>3. j.copy \in Preferences
    <3>1. Carries(j.op, j.pc, j.arg, j.copy, j.phase)
      BY <1>1, <1>3, <2>1, <2>2
    <3> QED
      BY <2>1, <3>1 DEF Carries
  <2>4. PICK ok \in BOOLEAN :
          /\ PutPrefs(Edited(j), ok)
          /\ IF ok THEN Continue(h, [jobs[h] EXCEPT !.pc = "prefs", !.phase = "merge"])
             ELSE Finish(h)
    BY <1>2, <1>11 DEF StorePrefs
  <2>5. PICK e : e = Edited(j)
    OBVIOUS
  <2>6. e \in Preferences
    BY <2>2, <2>3, <2>5, EditedTyped
  <2>7. SessionMove(h) /\ Profiled(h)
    <3>1. CASE Finish(h)
      BY <2>1, <3>1, TokenEnds DEF Profiled
    <3>2. CASE ~Finish(h)
      <4>1. PICK k : k = [j EXCEPT !.pc = "prefs", !.phase = "merge"] /\ Continue(h, k)
        BY <1>2, <2>4, <3>2
      <4>2. IsJob(j) /\ j.arg = [token |-> j.arg.token, principal |-> j.arg.principal]
        BY <1>1, <1>3, <2>1, <2>2
      <4>3. k = Moved(j, "prefs", j.arg, j.copy, "merge")
        BY <4>1, <4>2 DEF IsJob, Moved
      <4>4. Continue(h, Moved(jobs[h], "prefs", [token |-> Token(h), principal |-> j.arg.principal],
                              jobs[h].copy, "merge"))
        BY <1>2, <4>1, <4>2, <4>3 DEF Token
      <4>5. jobs[h].op \in ProfileOps /\ jobs[h].pc \in TokenPcs
        BY <1>1, <1>2, <2>1, <2>2
      <4>6. "prefs" \in ProfilePcs \cup {"lookup"}
        BY <1>1
      <4> QED
        BY <2>1, <2>2, <4>4, <4>5, <4>6, ProfileMoves
    <3> QED
      BY <3>1, <3>2
  <2>8. /\ prefs' \in Preferences \cup {None} /\ prefsDisk' \in Preferences \cup {None}
        /\ UNCHANGED prefsLegacy /\ photo' \in STRING
    BY <2>4, <2>5, <2>6, PutPrefsTyped
  <2> QED
    BY <2>1, <2>7, <2>8, PrefsKept
<1> QED
  BY <1>6, <1>7, <1>8, <1>9, <1>10, <1>11 DEF ProfileSteps

-----------------------------------------------------------------------------
\* Asking with a token, and being given one.
LEMMA TokenBegins ==
  ASSUME Typed, NEW h \in Handlers, NEW t \in issued, NEW op \in ProfileOps \cup {"act", "logout"},
         NEW pc \in {"lookup", "erase"}, NEW keys, t \in keys, NEW arg, arg.token = t,
         op \in ProfileOps => arg = [token |-> arg.token, principal |-> arg.principal],
         Begin(h, op, pc, keys, arg), UNCHANGED issued
  PROVE  SessionMove(h)
<1>1. PICK k : k = NewJob(h, op, pc, keys, arg)
  OBVIOUS
<1>2. /\ IsJob(k) /\ k.op = op /\ k.pc = pc /\ k.keys = keys /\ k.arg = arg
      /\ k.copy = None /\ k.phase = "get" /\ k.alone \in BOOLEAN
  BY <1>1, NewJobIs
<1>3. pc \in TokenPcs /\ pc \notin ProfilePcs \cup RecordPcs \cup {"serve", "keep"}
      /\ pc \notin {"migratePrefs", "putPrefs"}
  BY DEF TokenPcs, LoadPcs, RecordPcs, ProfilePcs
<1>4. Carries(k.op, k.pc, k.arg, k.copy, k.phase)
  BY <1>2, <1>3 DEF Carries
<1>5. OpenJob(k)
  BY <1>2, <1>3, <1>4, TokenOpen
<1>6. JobsTyped'
  BY <1>1, <1>5, StayTyped
<1>7. OthersKept(h) /\ jobs'[h] = k /\ UNCHANGED <<now, mix>>
  BY <1>1, Begins
<1>8. TokensDiffer'
  BY <1>2, <1>3, <1>7, DifferKept DEF At
<1> QED
  BY <1>2, <1>3, <1>6, <1>7, <1>8 DEF SessionMove, Sessional

Asking(h) ==
  \/ \E t \in issued : Logout(h, t)
  \/ \E t \in issued, op \in ProfileOps : Ask(h, op, t)
  \/ \E t \in issued, c \in DOMAIN Capabilities : AskAct(h, t, c)

LEMMA AskingTyped ==
  ASSUME Typed, NEW h \in Handlers, Asking(h)
  PROVE  SessionMove(h) /\ SessionTypes
<1>1. CASE \E t \in issued : Logout(h, t)
  <2>1. PICK t \in issued : Logout(h, t)
    BY <1>1
  <2>2. PICK arg : arg = [token |-> t] /\ Begin(h, "logout", "erase", {t}, arg)
    BY <2>1 DEF Logout
  <2>3. UNCHANGED <<storeVars, cache, issued, profileVars>>
    BY <2>1 DEF Logout
  <2>4. SessionMove(h)
    BY <2>2, <2>3, TokenBegins DEF ProfileOps
  <2>5. granted' \in [Tokens -> Nat \cup {None}]
    BY <2>1, SessionsSplit DEF Logout
  <2> QED
    BY <2>3, <2>4, <2>5, MoveTypes
<1>2. CASE \E t \in issued, op \in ProfileOps : Ask(h, op, t)
  <2>1. PICK t \in issued, op \in ProfileOps : Ask(h, op, t)
    BY <1>2
  <2>2. PICK arg : /\ arg = [token |-> t, principal |-> None]
                   /\ Begin(h, op, "lookup", {t, "prefs"}, arg)
    BY <2>1 DEF Ask
  <2>3. UNCHANGED <<storeVars, cache, issued, granted, profileVars>>
    BY <2>1 DEF Ask, sessionVars, storeVars
  <2>4. arg.token = t /\ arg = [token |-> arg.token, principal |-> arg.principal]
    BY <2>2
  <2>5. SessionMove(h)
    BY <2>2, <2>3, <2>4, TokenBegins
  <2> QED
    BY <2>3, <2>5, MoveTypes
<1>3. CASE \E t \in issued, c \in DOMAIN Capabilities : AskAct(h, t, c)
  <2>1. PICK t \in issued, c \in DOMAIN Capabilities : AskAct(h, t, c)
    BY <1>3
  <2>2. PICK arg : arg = [token |-> t, needs |-> c] /\ Begin(h, "act", "lookup", {t}, arg)
    BY <2>1 DEF AskAct
  <2>3. UNCHANGED <<storeVars, cache, issued, granted, profileVars>>
    BY <2>1 DEF AskAct, sessionVars, storeVars
  <2>4. arg.token = t
    BY <2>2
  <2>5. SessionMove(h)
    BY <2>2, <2>3, <2>4, TokenBegins DEF ProfileOps
  <2> QED
    BY <2>3, <2>5, MoveTypes
<1> QED
  BY <1>1, <1>2, <1>3 DEF Asking

Keeping(j, t, record) ==
  [op |-> j.op, pc |-> "keep", keys |-> {t}, arg |-> j.arg, copy |-> record,
   phase |-> j.phase, alone |-> j.alone]

LEMMA KeepOpen ==
  ASSUME NEW j, OpenJob(j), NEW t \in Tokens \ issued, NEW record \in SessionRecords, NEW k,
         k = Keeping(j, t, record)
  PROVE  /\ OpenJob(k) /\ k.pc = "keep" /\ k.keys = {t} /\ k.copy = record
         /\ k.alone = j.alone
<1>1. IsJob(j) /\ j.alone \in BOOLEAN
  BY DEF OpenJob
<1>3. /\ IsJob(k) /\ k.pc = "keep" /\ k.keys = {t} /\ k.copy = record
      /\ k.alone = j.alone
  BY DEF IsJob, Keeping
<1>4. "keep" \notin TokenPcs \cup StatePcs \cup GroupWaits
  BY TokenPcsAre, StatePcsAre DEF GroupWaits
<1>5. "keep" \notin ProfilePcs \cup LoadPcs
  BY <1>4 DEF TokenPcs
<1>6. SessionJob(k)
  BY <1>3, <1>4, <1>5 DEF SessionJob
<1>7. AdminJob(k)
  BY <1>3, <1>4, StatePcsAre DEF AdminJob
<1>8. OtherJob(k)
  BY <1>3, <1>4 DEF OtherJob
<1> QED
  BY <1>1, <1>3, <1>6, <1>7, <1>8 DEF OpenJob

LEMMA StoredTyped ==
  ASSUME Typed, NEW h \in Handlers, CreateStored(h)
  PROVE  SessionMove(h) /\ SessionTypes
<1>1. PICK j : j = jobs[h]
  OBVIOUS
<1>2. Working(h) /\ j.pc = "create" /\ UNCHANGED <<cache, issued, granted, profileVars>>
  BY <1>1 DEF CreateStored, At
<1>3. OpenJob(j) /\ j.copy \in Principals
  BY <1>1, <1>2, JobOf DEF OpenJob, SessionJob
<1>4. PICK record : record = SessionRecord(j.copy)
  OBVIOUS
<1>5. record \in SessionRecords
  BY <1>3, <1>4, RecordTyped
<1>6. PICK t \in Fresh, ok \in BOOLEAN :
        /\ StorePut(t, record, ok)
        /\ IF ok THEN Continue(h, [jobs[h] EXCEPT !.pc = "keep", !.keys = {t}, !.copy = record])
           ELSE Finish(h)
  BY <1>1, <1>4 DEF CreateStored
<1>7. t \in Tokens \ issued /\ \A g \in Handlers : ~On(g, {t})
  BY <1>6 DEF Fresh
<1>8. SessionMove(h)
  <2>1. CASE Finish(h)
    BY <1>2, <2>1, TokenEnds
  <2>2. CASE ~Finish(h)
    <3>1. PICK k : /\ k = [j EXCEPT !.pc = "keep", !.keys = {t}, !.copy = record]
                   /\ Continue(h, k)
      BY <1>1, <1>6, <2>2
    <3>2. OpenJob(k) /\ k.pc = "keep" /\ k.keys = {t}
      <4>1. k = Keeping(j, t, record)
        BY <1>3, <3>1 DEF OpenJob, IsJob, Keeping
      <4> QED
        BY <1>3, <1>5, <1>7, <4>1, KeepOpen
    <3>3. JobsTyped'
      BY <1>2, <3>1, <3>2, StayTyped
    <3>4. OthersKept(h) /\ jobs'[h] = k /\ UNCHANGED <<now, mix>>
      BY <3>1, Continues
    <3>5. \A g \in Handlers \ {h} : At(g, "keep") => jobs[g].keys # {t}
      BY <1>7 DEF On, At
    <3>6. TokensDiffer'
      BY <3>2, <3>4, <3>5, DifferKept
    <3> QED
      BY <3>2, <3>3, <3>4, <3>6 DEF SessionMove, Sessional
  <2> QED
    BY <2>1, <2>2
<1>9. UNCHANGED mix
  BY <1>8 DEF SessionMove, Sessional
<1>10. StoreTyped'
  BY <1>5, <1>6, <1>7, <1>9, SessionsSplit, PutTyped
<1> QED
  BY <1>2, <1>8, <1>10, MoveTypes

LEMMA CachedTyped ==
  ASSUME Typed, NEW h \in Handlers, CreateCached(h)
  PROVE  SessionMove(h) /\ SessionTypes
<1>1. PICK j : j = jobs[h]
  OBVIOUS
<1>2. Working(h) /\ j.pc = "keep" /\ Finish(h) /\ UNCHANGED <<storeVars, profileVars>>
  BY <1>1 DEF CreateCached, At
<1>3. SessionJob(j)
  BY <1>1, <1>2, JobOf DEF OpenJob
<1>4. PICK t \in Tokens \ issued : j.keys = {t}
  BY <1>2, <1>3 DEF SessionJob
<1>5. (CHOOSE x \in j.keys : TRUE) = t
  BY <1>4
<1>6. /\ cache' = [cache EXCEPT ![t] = j.copy]
      /\ granted' = [granted EXCEPT ![t] = Until(j.copy)]
      /\ issued' = issued \cup {t}
  BY <1>1, <1>5 DEF CreateCached, Remember
<1>7. j.copy \in SessionRecords
  BY <1>2, <1>3 DEF SessionJob
<1>8. Continue(h, Idle)
  BY <1>2 DEF Finish
<1>9. OthersKept(h) /\ jobs'[h] = Idle /\ UNCHANGED <<now, mix>>
  BY <1>8, Continues
<1>10. now \in Nat
  BY AccessAssumption DEF Typed
<1>11. ASSUME NEW g \in Handlers \ {h}, Working(g) PROVE TokensFree(jobs[g])
  <2>1. CASE jobs[g].pc = "keep"
    <3>1. SessionJob(jobs[g])
      BY <1>11, JobOf DEF OpenJob
    <3>2. PICK s \in Tokens \ issued : jobs[g].keys = {s}
      BY <2>1, <3>1 DEF SessionJob
    <3>3. jobs[g].keys # jobs[h].keys
      BY <1>1, <1>2, <1>11, <2>1 DEF Typed, TokensDiffer, At
    <3> QED
      BY <1>1, <1>4, <1>6, <3>2, <3>3 DEF TokensFree
  <2>2. CASE jobs[g].pc # "keep"
    BY <2>2 DEF TokensFree
  <2> QED
    BY <2>1, <2>2
<1>12. ~Working(h)'
  BY <1>9 DEF Working, Idle
<1>13. Later
  BY <1>6, <1>9, <1>10 DEF Later
<1>14. JobsTyped'
  BY <1>9, <1>11, <1>12, <1>13, StepOf
<1>15. TokensDiffer'
  BY <1>9, <1>12, DifferKept DEF At
<1>16. SessionMove(h)
  BY <1>9, <1>12, <1>14, <1>15 DEF SessionMove, Sessional
<1>17. SessionsTyped'
  <2>1. Until(j.copy) \in Nat
    BY <1>7, UntilTyped
  <2>2. /\ cache' \in [Tokens -> SessionRecords \cup {None}]
        /\ granted' \in [Tokens -> Nat \cup {None}] /\ issued' \subseteq Tokens
    BY <1>6, <1>7, <2>1, SessionsSplit
  <2>3. StoreTyped'
    BY <1>2, <1>9, SessionsSplit
  <2> QED
    BY <2>2, <2>3 DEF SessionsTyped, StoreTyped
<1> QED
  BY <1>2, <1>16, <1>17, ProfilesKept DEF SessionTypes

-----------------------------------------------------------------------------
(***************************************************************************)
(* What the requests that are not about a session may do.                  *)
(***************************************************************************)
Quiet(h) == (Aside(h) \/ Plain(h)) /\ UNCHANGED <<states, oldStates, regens>>
AdminMove(h) == Quiet(h) \/ Takes(h) \/ Starts(h) \/ Stores(h)

LEMMA AdminKept ==
  ASSUME Typed, UNCHANGED adminVars
  PROVE  AdminTyped' /\ UNCHANGED <<states, oldStates, regens>>
  BY DEF Typed, AdminTyped, adminVars

LEMMA SettingsKept ==
  ASSUME Typed, UNCHANGED settingsVars
  PROVE  SettingsTyped'
  BY DEF Typed, SettingsTyped, settingsVars

LEMMA AdminMoves ==
  ASSUME Typed, NEW h \in Handlers, AdminStep(h) \/ AdminBegin(h)
  PROVE  AdminMove(h) /\ AdminTyped'
<1>1. CASE ItemSteps(h) \/ PartySteps(h)
  BY <1>1, ItemsPlain, PartiesPlain DEF AdminMove, Quiet
<1>2. CASE SupplierState(h) \/ RegenerateCode(h) \/ Restate(h) \/ CustomerState(h) \/ CustomerCode(h)
  BY <1>2, SupplierStateTakes, RegenerateTakes, RestateTakes, CustomerStateTakes,
     CustomerCodeTakes DEF AdminMove, Quiet
<1>3. CASE PutState(h) \/ WriteFile(h)
  BY <1>3, WritesTake DEF AdminMove
<1>4. CASE SearchParties(h) \/ DecideLogin(h) \/ AdminFails(h) \/ \E r \in Parties : AskLogin(h, r)
  <2>1. Aside(h)
    BY <1>4, LoginsAside
  <2>2. UNCHANGED adminVars
    BY <1>4 DEF SearchParties, DecideLogin, AdminFails, Fails, AskLogin, adminVars
  <2> QED
    BY <2>1, <2>2, AdminKept DEF AdminMove, Quiet
<1>5. CASE AdminBegin(h) /\ \A r \in Parties : ~AskLogin(h, r)
  BY <1>5, PartiesStart DEF AdminMove
<1> QED
  BY <1>1, <1>2, <1>3, <1>4, <1>5 DEF AdminStep, ItemSteps, PartySteps

LEMMA WerkaMoves ==
  ASSUME Typed, NEW h \in Handlers, WerkaStep(h)
  PROVE  AdminMove(h) /\ AdminTyped' /\ SettingsTyped'
<1>1. CASE AskWerkaCode(h)
  BY <1>1, KeeperStarts DEF AdminMove
<1>2. CASE WerkaState(h) \/ WerkaCode(h)
  <2>1. UNCHANGED settingsVars
    BY <1>2 DEF WerkaState, WerkaCode
  <2> QED
    BY <1>2, <2>1, WerkaStateTakes, WerkaCodeTakes, SettingsKept DEF AdminMove, Quiet
<1>3. CASE KeeperStep(h)
  BY <1>3, KeeperAside, AdminKept DEF AdminMove, Quiet
<1> QED
  BY <1>1, <1>2, <1>3 DEF WerkaStep, KeeperStep

LEMMA MovesElsewhere ==
  ASSUME Typed, NEW h \in Handlers, AdminMove(h)
  PROVE  Elsewhere(h)
<1>1. CASE Quiet(h) \/ Stores(h)
  <2>1. Aside(h) \/ Plain(h)
    BY <1>1 DEF Quiet, Stores
  <2> QED
    BY <2>1, AllElsewhere
<1>2. CASE Takes(h)
  <2>1. PICK j : /\ Continue(h, j) /\ OpenJob(j) /\ j.pc \in HeldPcs \cup {"write"}
                 /\ j.keys = jobs[h].keys /\ j.alone = jobs[h].alone
    BY <1>2 DEF Takes
  <2>2. j.pc \notin TokenPcs \cup {"keep"}
    BY <2>1, StatePcsAre
  <2>3. Working(h)
    BY <1>2 DEF Takes
  <2> QED
    BY <2>1, <2>2, <2>3 DEF Elsewhere
<1>3. CASE Starts(h)
  <2>1. PICK op, pc, keys, arg :
          /\ Begin(h, op, pc, keys, arg) /\ OpenJob(NewJob(h, op, pc, keys, arg))
          /\ pc \in StatePcs
    BY <1>3 DEF Starts
  <2>2. PICK k : k = NewJob(h, op, pc, keys, arg)
    OBVIOUS
  <2>3. k.pc = pc
    BY <2>2, NewJobIs
  <2>4. NewJob(h, op, pc, keys, arg).pc \notin TokenPcs \cup {"keep"}
    BY <2>1, <2>2, <2>3, StatePcsAre
  <2> QED
    BY <2>1, <2>4 DEF Elsewhere
<1> QED
  BY <1>1, <1>2, <1>3 DEF AdminMove

LEMMA MovesRegen ==
  ASSUME Typed, RegenInv, NEW h \in Handlers, AdminMove(h)
  PROVE  RegenInv'
  BY PlainRegen, AsideRegen, TakesRegen, StartsRegen, StoresRegen DEF AdminMove, Quiet

LEMMA ElsewhereTyped ==
  ASSUME Typed, NEW h \in Handlers, Elsewhere(h), UNCHANGED issued
  PROVE  JobsTyped' /\ TokensDiffer' /\ UNCHANGED <<now, mix>>
<1>1. CASE \E j : /\ Continue(h, j)
                  /\ j = Idle \/ (/\ Working(h) /\ OpenJob(j) /\ j.pc \notin TokenPcs \cup {"keep"}
                                  /\ j.keys = jobs[h].keys /\ j.alone = jobs[h].alone)
  <2>1. PICK j : /\ Continue(h, j)
                 /\ j = Idle \/ (OpenJob(j) /\ j.pc # "keep")
    BY <1>1
  <2>2. OthersKept(h) /\ jobs'[h] = j /\ UNCHANGED <<now, mix>>
    BY <2>1, Continues
  <2>3. ~At(h, "keep")'
    BY <2>1, <2>2 DEF At, Working, Idle
  <2> QED
    BY <2>1, <2>2, <2>3, StayTyped, DifferKept
<1>2. CASE \E op, pc, keys, arg :
             /\ Begin(h, op, pc, keys, arg)
             /\ OpenJob(NewJob(h, op, pc, keys, arg))
             /\ NewJob(h, op, pc, keys, arg).pc \notin TokenPcs \cup {"keep"}
  <2>1. PICK op, pc, keys, arg :
             /\ Begin(h, op, pc, keys, arg)
             /\ OpenJob(NewJob(h, op, pc, keys, arg))
             /\ NewJob(h, op, pc, keys, arg).pc # "keep"
    BY <1>2
  <2>2. OthersKept(h) /\ jobs'[h] = NewJob(h, op, pc, keys, arg) /\ UNCHANGED <<now, mix>>
    BY <2>1, Begins
  <2>3. ~At(h, "keep")'
    BY <2>1, <2>2 DEF At
  <2>4. JobsTyped'
    BY <2>1, StayTyped
  <2> QED
    BY <2>2, <2>3, <2>4, DifferKept
<1> QED
  BY <1>1, <1>2 DEF Elsewhere

-----------------------------------------------------------------------------
(***************************************************************************)
(* What every step does.                                                   *)
(***************************************************************************)
LEMMA TypedFrom ==
  ASSUME Typed, JobsTyped', TokensDiffer', UNCHANGED <<now, mix>>, SessionTypes,
         AdminTyped', SettingsTyped', isGroup' \subseteq Groups
  PROVE  Typed'
  BY DEF Typed, JobsTyped, SessionTypes

LEMMA SessionsKept ==
  ASSUME Typed, UNCHANGED <<mix, sessionVars, profileVars>>
  PROVE  SessionTypes /\ UNCHANGED issued
<1>1. StoreTyped' /\ UNCHANGED <<cache, granted, issued>>
  BY SessionsSplit DEF sessionVars, storeVars
<1>2. SessionsTyped'
  BY <1>1, SessionsSplit DEF SessionsTyped, StoreTyped
<1> QED
  BY <1>1, <1>2, ProfilesKept DEF SessionTypes

LEMMA GroupsKept ==
  ASSUME Typed, UNCHANGED groupVars
  PROVE  isGroup' \subseteq Groups
  BY DEF Typed, groupVars

SessionNext(h) ==
  /\ SessionStep(h) \/ \E t \in issued, c \in DOMAIN Capabilities : AskAct(h, t, c)
  /\ UNCHANGED <<roleVars, adminVars, settingsVars, pushVars, groupVars>>

OtherNext(h) ==
  /\ AdminMove(h) /\ AdminTyped' /\ SettingsTyped' /\ isGroup' \subseteq Groups
  /\ UNCHANGED <<sessionVars, profileVars>>

LEMMA SessionsMove ==
  ASSUME Typed, NEW h \in Handlers, SessionNext(h)
  PROVE  SessionMove(h) /\ SessionTypes /\ UNCHANGED adminVars
<1>1. SessionStep(h) \/ Asking(h)
  BY DEF SessionNext, Asking
<1>2. \/ CreateStored(h) \/ CreateCached(h) \/ Finding(h) \/ Ending(h) \/ ProfileSteps(h) \/ Asking(h)
  BY <1>1 DEF SessionStep, Finding, Ending, ProfileSteps, Asking
<1>3. SessionMove(h) /\ SessionTypes
  BY <1>2, StoredTyped, CachedTyped, FindingTyped, EndingTyped, ProfileTyped, AskingTyped
<1>4. UNCHANGED adminVars
  BY DEF SessionNext
<1> QED
  BY <1>3, <1>4

Rest ==
  \/ Tick /\ UNCHANGED <<sessionVars, profileVars, roleVars, adminVars, settingsVars, pushVars, groupVars>>
  \/ Restart

LEMMA NextIs ==
  ASSUME Typed, Next
  PROVE  (\E h \in Handlers : SessionNext(h) \/ OtherNext(h)) \/ Rest
<1>1. CASE Rest
  BY <1>1
<1>2. CASE ~Rest
  <2>1. PICK h \in Handlers :
       \/ SessionStep(h) /\ UNCHANGED <<roleVars, adminVars, settingsVars, pushVars, groupVars>>
       \/ /\ \E t \in issued, c \in DOMAIN Capabilities : AskAct(h, t, c)
          /\ UNCHANGED <<roleVars, adminVars, settingsVars, pushVars, groupVars>>
       \/ /\ \/ RoleStep(h)
             \/ \E id \in CustomRoles, caps \in SUBSET DOMAIN Capabilities : AskRole(h, id, caps)
             \/ \E role \in {"customer", "aparatchi"}, ref \in Customers \ Absentees,
                   id \in CustomRoles \cup {"werka", "aparatchi"} : AskAssignment(h, role, ref, id)
          /\ UNCHANGED <<sessionVars, profileVars, adminVars, settingsVars, pushVars, groupVars>>
       \/ /\ AdminStep(h) \/ AdminBegin(h)
          /\ UNCHANGED <<sessionVars, profileVars, roleVars, settingsVars, pushVars, groupVars>>
       \/ /\ UpdateStep(h)
          /\ UNCHANGED <<sessionVars, profileVars, roleVars, adminVars, pushVars, groupVars>>
       \/ /\ WerkaStep(h)
          /\ UNCHANGED <<sessionVars, profileVars, roleVars, pushVars, groupVars>>
       \/ PushStep(h) /\ UNCHANGED <<sessionVars, profileVars, roleVars, adminVars, settingsVars, groupVars>>
       \/ GroupStep(h) /\ UNCHANGED <<sessionVars, profileVars, roleVars, adminVars, settingsVars, pushVars>>
       \/ /\ Dropped(h) /\ SettingsDropped(h)
          /\ UNCHANGED <<sessionVars, profileVars, roleVars, adminVars, pushVars, groupVars>>
    BY <1>2, Zenon DEF Next, Rest
  <2>2. CASE \/ SessionStep(h) /\ UNCHANGED <<roleVars, adminVars, settingsVars, pushVars, groupVars>>
             \/ /\ \E t \in issued, c \in DOMAIN Capabilities : AskAct(h, t, c)
                /\ UNCHANGED <<roleVars, adminVars, settingsVars, pushVars, groupVars>>
    BY <2>2 DEF SessionNext
  <2>3. CASE /\ \/ RoleStep(h)
                \/ \E id \in CustomRoles, caps \in SUBSET DOMAIN Capabilities : AskRole(h, id, caps)
                \/ \E role \in {"customer", "aparatchi"}, ref \in Customers \ Absentees,
                      id \in CustomRoles \cup {"werka", "aparatchi"} : AskAssignment(h, role, ref, id)
             /\ UNCHANGED <<sessionVars, profileVars, adminVars, settingsVars, pushVars, groupVars>>
    <3>1. Aside(h)
      BY <2>3, RolesAside
    <3> QED
      BY <2>3, <3>1, AdminKept, SettingsKept, GroupsKept DEF OtherNext, AdminMove, Quiet
  <2>4. CASE /\ AdminStep(h) \/ AdminBegin(h)
             /\ UNCHANGED <<sessionVars, profileVars, roleVars, settingsVars, pushVars, groupVars>>
    BY <2>4, AdminMoves, SettingsKept, GroupsKept DEF OtherNext
  <2>5. CASE /\ UpdateStep(h)
             /\ UNCHANGED <<sessionVars, profileVars, roleVars, adminVars, pushVars, groupVars>>
    BY <2>5, UpdateAside, AdminKept, GroupsKept DEF OtherNext, AdminMove, Quiet
  <2>6. CASE /\ WerkaStep(h)
             /\ UNCHANGED <<sessionVars, profileVars, roleVars, pushVars, groupVars>>
    BY <2>6, WerkaMoves, GroupsKept DEF OtherNext
  <2>7. CASE PushStep(h) /\ UNCHANGED <<sessionVars, profileVars, roleVars, adminVars, settingsVars, groupVars>>
    BY <2>7, PushAside, AdminKept, SettingsKept, GroupsKept DEF OtherNext, AdminMove, Quiet
  <2>8. CASE GroupStep(h) /\ UNCHANGED <<sessionVars, profileVars, roleVars, adminVars, settingsVars, pushVars>>
    BY <2>8, GroupsAside, AdminKept, SettingsKept DEF OtherNext, AdminMove, Quiet
  <2>9. CASE /\ Dropped(h) /\ SettingsDropped(h)
             /\ UNCHANGED <<sessionVars, profileVars, roleVars, adminVars, pushVars, groupVars>>
    <3>1. Aside(h)
      BY <2>9, AsideEnds DEF Dropped
    <3>2. SettingsTyped'
      BY <2>9 DEF SettingsDropped, Unlock, Typed, SettingsTyped
    <3> QED
      BY <2>9, <3>1, <3>2, AdminKept, GroupsKept DEF OtherNext, AdminMove, Quiet
  <2> QED
    BY <2>1, <2>2, <2>3, <2>4, <2>5, <2>6, <2>7, <2>8, <2>9
<1> QED
  BY <1>1, <1>2

LEMMA TickTyped ==
  ASSUME Typed, Tick,
         UNCHANGED <<sessionVars, profileVars, adminVars, settingsVars, groupVars>>
  PROVE  Typed'
<1>1. UNCHANGED <<jobs, mix>> /\ now' = now + 1 /\ now < mix.clock
  BY DEF Tick
<1>2. now \in Nat /\ mix \in Mixes /\ mix.clock \in Nat
  BY AccessAssumption DEF Typed
<1>3. now' \in 0..mix.clock
  BY <1>1, <1>2 DEF Typed
<1>4. SessionTypes /\ UNCHANGED issued
  BY <1>1, SessionsKept
<1>5. Later
  BY <1>1, <1>2, <1>4 DEF Later
<1>6. JobsTyped'
  <2>1. ASSUME NEW h \in Handlers, Working(h)' PROVE OpenJob(jobs[h])'
    <3>1. PICK j : j = jobs[h] /\ OpenJob(j)
      BY <1>1, <2>1, JobOf DEF Working
    <3>2. OpenJob(j)'
      BY <1>4, <1>5, <3>1, OpenJobKept DEF TokensFree
    <3> QED
      BY <1>1, <3>1, <3>2
  <2> QED
    BY <1>1, <2>1 DEF JobsTyped, Typed
<1>7. TokensDiffer'
  BY <1>1 DEF Typed, TokensDiffer, At, Working
<1>8. AdminTyped' /\ SettingsTyped' /\ isGroup' \subseteq Groups
  BY AdminKept, SettingsKept, GroupsKept
<1> QED
  BY <1>1, <1>2, <1>3, <1>4, <1>6, <1>7, <1>8 DEF Typed, JobsTyped, SessionTypes

LEMMA RestartTyped ==
  ASSUME Typed, Restart
  PROVE  Typed'
<1>1. jobs' = [h \in Handlers |-> Idle] /\ UNCHANGED <<now, mix>>
  BY DEF Restart, Stopped
<1>2. \A h \in Handlers : ~Working(h)'
  BY <1>1 DEF Working, Idle
<1>3. JobsTyped' /\ TokensDiffer'
  BY <1>1, <1>2 DEF JobsTyped, TokensDiffer, At
<1>4. SessionTypes
  <2>1. /\ cache' = [t \in Tokens |-> None]
        /\ sessions' = IF Lmdb THEN sessions
                       ELSE [t \in Tokens |-> IF disk[t] # None /\ IsExpired(disk[t])
                                              THEN None ELSE disk[t]]
        /\ prefs' = prefsDisk
        /\ UNCHANGED <<rawKeys, expiry, disk, issued, granted, prefsDisk, prefsLegacy, photo>>
    BY DEF Restart, SessionsRestart
  <2>2. StoredRecords' = StoredRecords
    BY <1>1 DEF StoredRecords, Lmdb
  <2>3. SessionsTyped'
    BY <2>1, <2>2, SessionsSplit DEF SessionsTyped
  <2>4. ProfilesTyped'
    BY <2>1, SessionsSplit DEF ProfilesTyped, Preferences
  <2> QED
    BY <2>3, <2>4 DEF SessionTypes
<1>5. SettingsTyped'
  <2>1. PICK c : c = FromEnv(env)
    OBVIOUS
  <2>2. /\ config' = c /\ identity' = Identity(c) /\ configLock' = None /\ UNCHANGED env
    BY <2>1 DEF Restart, SettingsRestart
  <2>3. c = [name |-> "Werka", code |-> env["MOBILE_DEV_WERKA_CODE"], key |-> env["ERP_API_KEY"]]
    BY <2>1 DEF FromEnv, Typed, SettingsTyped
  <2>4. c = [name |-> c.name, code |-> c.code, key |-> c.key] /\ c.name \in STRING
    BY <2>3, WordsAssumption
  <2>5. PICK i : i = Identity(c)
    OBVIOUS
  <2>6. i = [name |-> i.name, code |-> i.code] /\ i.name \in STRING
    BY <2>4, <2>5, IdentityTyped
  <2> QED
    BY <2>2, <2>4, <2>5, <2>6 DEF Typed, SettingsTyped
<1>6. AdminTyped' /\ isGroup' \subseteq Groups
  BY AdminKept, GroupsKept DEF Restart
<1> QED
  BY <1>1, <1>3, <1>4, <1>5, <1>6, TypedFrom

LEMMA TypedStep ==
  ASSUME Typed, [Next]_accessVars
  PROVE  Typed'
<1>1. ASSUME NEW h \in Handlers, SessionNext(h) PROVE Typed'
  <2>1. SessionMove(h) /\ SessionTypes
    BY <1>1, SessionsMove
  <2>2. UNCHANGED <<adminVars, settingsVars, groupVars>>
    BY <1>1 DEF SessionNext
  <2> QED
    BY <2>1, <2>2, AdminKept, SettingsKept, GroupsKept, TypedFrom DEF SessionMove, Sessional
<1>2. ASSUME NEW h \in Handlers, OtherNext(h) PROVE Typed'
  <2>1. Elsewhere(h) /\ UNCHANGED issued
    BY <1>2, MovesElsewhere DEF OtherNext, sessionVars
  <2>2. JobsTyped' /\ TokensDiffer' /\ UNCHANGED <<now, mix>>
    BY <2>1, ElsewhereTyped
  <2>3. SessionTypes
    BY <1>2, <2>2, SessionsKept DEF OtherNext
  <2> QED
    BY <1>2, <2>2, <2>3, TypedFrom DEF OtherNext
<1>3. CASE Rest
  BY <1>3, TickTyped, RestartTyped DEF Rest
<1>4. CASE UNCHANGED accessVars
  <2>1. /\ UNCHANGED <<jobs, now, mix, sessionVars, profileVars, adminVars, settingsVars, groupVars>>
    BY <1>4 DEF accessVars, requestVars
  <2>2. SessionTypes /\ UNCHANGED issued
    BY <2>1, SessionsKept
  <2>3. JobsTyped'
    <3>1. Later
      BY <2>1, <2>2, AccessAssumption DEF Later, Typed
    <3>2. ASSUME NEW h \in Handlers, Working(h)' PROVE OpenJob(jobs[h])'
      <4>1. PICK j : j = jobs[h] /\ OpenJob(j)
        BY <2>1, <3>2, JobOf DEF Working
      <4>2. OpenJob(j)'
        BY <2>2, <3>1, <4>1, OpenJobKept DEF TokensFree
      <4> QED
        BY <2>1, <4>1, <4>2
    <3> QED
      BY <2>1, <3>2 DEF JobsTyped, Typed
  <2>4. TokensDiffer'
    BY <2>1 DEF Typed, TokensDiffer, At, Working
  <2> QED
    BY <2>1, <2>2, <2>3, <2>4, AdminKept, SettingsKept, GroupsKept, TypedFrom
<1> QED
  BY <1>1, <1>2, <1>3, <1>4, NextIs

LEMMA SessionsRegen ==
  ASSUME Typed, RegenInv, NEW h \in Handlers, Sessional(h), UNCHANGED adminVars
  PROVE  RegenInv'
<1>1. OthersKept(h) /\ UNCHANGED <<now, mix, states, oldStates, regens>>
  BY DEF Sessional, adminVars
<1>2. now' \in Nat /\ now <= now'
  BY <1>1, AccessAssumption DEF Typed
<1>3. RegenKept(h)
  <2>1. Working(h)' => jobs'[h].pc \notin StatePcs
    BY StatePcsAre DEF Sessional
  <2> QED
    BY <2>1 DEF RegenKept
<1>4. \A g \in Handlers : RegenKept(g)
  BY <1>1, <1>3, OthersRegen
<1> QED
  BY <1>1, <1>2, <1>4, RegenQuiet

LEMMA RestRegen ==
  ASSUME Typed, RegenInv, Rest \/ UNCHANGED accessVars
  PROVE  RegenInv'
<1>1. UNCHANGED <<mix, states, oldStates, regens>>
  BY DEF Rest, Tick, Restart, Stopped, adminVars, accessVars, requestVars
<1>2. now' \in Nat /\ now <= now'
  BY AccessAssumption DEF Rest, Tick, Restart, Stopped, accessVars, requestVars, Typed
<1>3. UNCHANGED jobs \/ jobs' = [h \in Handlers |-> Idle]
  BY DEF Rest, Tick, Restart, Stopped, accessVars, requestVars
<1>4. ASSUME NEW g \in Handlers PROVE RegenKept(g)
  <2>1. CASE UNCHANGED jobs
    <3>1. ASSUME Working(g)', jobs'[g].pc \in StatePcs
          PROVE  /\ Working(g) /\ jobs[g].pc \in StatePcs
                 /\ OpenJob(jobs[g]) /\ RegenJob(jobs[g]) /\ WritesLatest(jobs[g])
      BY <2>1, <3>1, JobOf DEF RegenInv, Working
    <3> QED
      BY <2>1, <3>1 DEF RegenKept
  <2>2. CASE jobs' = [h \in Handlers |-> Idle]
    BY <2>2 DEF RegenKept, Working, Idle
  <2> QED
    BY <1>3, <2>1, <2>2
<1> QED
  BY <1>1, <1>2, <1>4, RegenQuiet

LEMMA RegenStep ==
  ASSUME Typed, RegenInv, [Next]_accessVars
  PROVE  RegenInv'
<1>1. ASSUME NEW h \in Handlers, SessionNext(h) PROVE RegenInv'
  BY <1>1, SessionsMove, SessionsRegen DEF SessionMove
<1>2. ASSUME NEW h \in Handlers, OtherNext(h) PROVE RegenInv'
  BY <1>2, MovesRegen DEF OtherNext
<1> QED
  BY <1>1, <1>2, NextIs, RestRegen

-----------------------------------------------------------------------------
(***************************************************************************)
(* The first state.                                                        *)
(***************************************************************************)
LEMMA SessionsFirst ==
  ASSUME mix \in Mixes, now = 0, SessionsInit
  PROVE  SessionsTyped /\ ProfilesTyped
<1>1. PICK old : old = [principal |-> mix.person, expires |-> Ttl]
  OBVIOUS
<1>2. old \in SessionRecords /\ old.expires = Ttl
  BY <1>1, RecordsAssumption, SessionsAssumption DEF SessionRecords, RecordsOf, Principals
<1>3. Until(old) \in Nat
  BY <1>2, SessionsAssumption, AccessAssumption DEF Until
<1>4. ~Lmdb => StoredRecords = SessionRecords
  BY DEF StoredRecords, SessionRecords
<1>5. /\ sessions = [t \in Tokens |-> IF t = OldToken THEN IF Lmdb THEN None ELSE old ELSE None]
      /\ disk = sessions
      /\ rawKeys = [t \in Tokens |-> IF t = OldToken THEN IF Lmdb THEN old ELSE None ELSE None]
      /\ expiry = {} /\ cache = [t \in Tokens |-> IF t = OldToken THEN None ELSE None]
      /\ granted = [t \in Tokens |-> IF t = OldToken THEN Until(old) ELSE None]
      /\ issued = {OldToken}
  BY <1>1 DEF SessionsInit
<1>6. SessionsTyped
  BY <1>2, <1>3, <1>4, <1>5, SessionsAssumption DEF SessionsTyped
<1>7. ProfilesTyped
  <2>1. PICK q : q = [NoPrefs EXCEPT !.nickname = "old"]
    OBVIOUS
  <2>2. q \in Preferences
    BY <2>1, NoPrefsTyped, WordsAssumption DEF Preferences
  <2>3. /\ prefs = None /\ prefsDisk = None /\ photo = ""
        /\ prefsLegacy = IF Lmdb THEN q ELSE None
    BY <2>1 DEF SessionsInit
  <2> QED
    BY <2>2, <2>3, WordsAssumption DEF ProfilesTyped
<1> QED
  BY <1>6, <1>7

LEMMA AdminFirst ==
  ASSUME AdminInit
  PROVE  AdminTyped /\ \A r \in Refs : StateFor(r).started = None
<1>1. PICK a, b : /\ a = [NoState EXCEPT !.blocked = TRUE, !.removed = TRUE]
                  /\ b = [NoState EXCEPT !.code = [prefix |-> "10", n |-> "old"]]
  OBVIOUS
<1>2. [prefix |-> "10", n |-> "old"] \in AccessCodes
  BY WordsAssumption DEF AccessCodes
<1>3. a \in StateRecords /\ b \in StateRecords /\ a.started = None /\ b.started = None
  BY <1>1, <1>2, NoStateTyped DEF StateRecords, NoState
<1>4. \A r \in Refs : states[r] = None /\ oldStates[r] \in {a, b, None}
  BY <1>1 DEF AdminInit
<1>5. /\ states = [r \in Refs |-> None]
      /\ oldStates \in [Refs -> StateRecords \cup {None}]
  BY <1>1, <1>3 DEF AdminInit
<1>6. AdminTyped
  <2>1. regens = [r \in Refs |-> <<>>] /\ assigned = {}
    BY Zenon DEF AdminInit
  <2>2. regens \in [Refs -> Seq(Nat) \cup {None}]
    <3>1. <<>> \in Seq(Nat)
      OBVIOUS
    <3> QED
      BY <2>1, <3>1
  <2>3. states \in [Refs -> StateRecords \cup {None}]
    BY <1>5
  <2>4. AreRows(assigned)
    BY <2>1 DEF AreRows
  <2> QED
    BY <1>5, <2>1, <2>2, <2>3, <2>4 DEF AdminTyped
<1>7. ASSUME NEW r \in Refs PROVE StateFor(r).started = None
  <2>1. Migrated[r] \in {a, b, None}
    BY <1>4 DEF Migrated
  <2> QED
    BY <1>3, <2>1, StatesAssumption DEF StateFor, NoState
<1> QED
  BY <1>6, <1>7

LEMMA SettingsFirst ==
  ASSUME SettingsInit
  PROVE  SettingsTyped
<1>1. /\ env = Over(Only("MOBILE_DEV_WERKA_CODE", FirstCode), Only("ERP_API_KEY", "k1"))
      /\ config = FromEnv(env) /\ identity = Identity(config) /\ configLock = None
  BY DEF SettingsInit
<1>2. "MOBILE_DEV_WERKA_NAME" \notin DOMAIN env
  BY <1>1 DEF Over, Only
<1>3. config = [name |-> "Werka", code |-> env["MOBILE_DEV_WERKA_CODE"], key |-> env["ERP_API_KEY"]]
  BY <1>1, <1>2 DEF FromEnv
<1>4. config = [name |-> config.name, code |-> config.code, key |-> config.key]
      /\ config.name \in STRING
  BY <1>3, WordsAssumption
<1>5. identity = [name |-> identity.name, code |-> identity.code] /\ identity.name \in STRING
  BY <1>1, <1>4, IdentityTyped
<1> QED
  BY <1>1, <1>2, <1>4, <1>5 DEF SettingsTyped

LEMMA InitTyped ==
  ASSUME Init
  PROVE  Typed /\ RegenInv
<1>1. /\ mix \in Mixes /\ jobs = [h \in Handlers |-> Idle] /\ now = 0
      /\ SessionsInit /\ AdminInit /\ SettingsInit /\ GroupsInit
  BY DEF Init, RequestsInit
<1>2. \A h \in Handlers : ~Working(h)
  BY <1>1 DEF Working, Idle
<1>3. now \in 0..mix.clock
  BY <1>1, AccessAssumption
<1>4. Typed
  BY <1>1, <1>2, <1>3, SessionsFirst, AdminFirst, SettingsFirst, GroupsAssumption
     DEF Typed, GroupsInit, TokensDiffer, At
<1>5. \A r \in Refs : regens[r] = <<>>
  BY <1>1 DEF AdminInit
<1>6. \A r \in Refs : Counts(StateFor(r), regens[r])
  BY <1>1, <1>5, AdminFirst DEF Counts
<1> QED
  BY <1>2, <1>4, <1>5, <1>6 DEF RegenInv, StateJob

-----------------------------------------------------------------------------
(***************************************************************************)
(* The theorems.                                                           *)
(***************************************************************************)
LEMMA TypedIs ==
  ASSUME Typed
  PROVE  TypeOK
<1>1. ASSUME NEW t \in Tokens
      PROVE  {rawKeys[t], cache[t]} \cup {Decode(s) : s \in {sessions[t], disk[t]} \ {None}}
               \subseteq SessionRecords \cup {None}
  <2>1. /\ rawKeys[t] \in SessionRecords \cup {None} /\ cache[t] \in SessionRecords \cup {None}
        /\ sessions[t] \in StoredRecords \cup {None} /\ disk[t] \in StoredRecords \cup {None}
    BY <1>1 DEF Typed, SessionsTyped
  <2>2. \A s \in {sessions[t], disk[t]} \ {None} : Decode(s) \in SessionRecords
    BY <2>1, DecodeTyped
  <2> QED
    BY <2>1, <2>2
<1>2. \A r \in Refs : StateFor(r) \in StateRecords
  BY StateTyped DEF Typed
<1>3. expiry \subseteq Nat \X Tokens
  BY DEF Typed, SessionsTyped
<1>4. AreRows(assigned)
  BY DEF Typed, AdminTyped
<1>5. /\ identity = [name |-> identity.name, code |-> identity.code]
      /\ configLock \in Handlers \cup {None} /\ isGroup \subseteq Groups
  BY DEF Typed, SettingsTyped
<1>6. DOMAIN identity = {"name", "code"}
  BY <1>5
<1> QED
  BY <1>1, <1>2, <1>3, <1>4, <1>5, <1>6 DEF TypeOK

LEMMA BudgetIs ==
  ASSUME RegenInv
  PROVE  RegenBudget
  BY DEF RegenInv, RegenBudget, WithinBudget, First

(* Every record has the fields its kind has, wherever it is kept and       *)
(* whatever requests, faults and restarts come between.                    *)
THEOREM AccessTyped == Spec => []TypeOK
<1>1. Init => Typed
  BY InitTyped
<1>2. Typed /\ [Next]_accessVars => Typed'
  BY TypedStep
<1>3. Typed => TypeOK
  BY TypedIs
<1> QED
  BY <1>1, <1>2, <1>3, PTL DEF Spec

(* No person is made more codes within a window than the service allows:   *)
(* the count is in the record that the store holds, and every request      *)
(* writes back the count it read (core/admin/service/codes).               *)
THEOREM CodesWithinBudget == Spec => []RegenBudget
<1>1. Init => Typed /\ RegenInv
  BY InitTyped
<1>2. Typed /\ RegenInv /\ [Next]_accessVars => Typed' /\ RegenInv'
  BY TypedStep, RegenStep
<1>3. RegenInv => RegenBudget
  BY BudgetIs
<1> QED
  BY <1>1, <1>2, <1>3, PTL DEF Spec
-----------------------------------------------------------------------------
(***************************************************************************)
(* Sessions end properly: what the stores, the histories and the requests  *)
(* on their way know of each other.                                        *)
(***************************************************************************)
Alone ==
  \A g, h \in Handlers : g # h /\ Working(h) /\ jobs[h].alone => ~On(g, jobs[h].keys)

(* The index has the time of every stored session that has one.            *)
Indexed ==
  \A e \in expiry : e \in IndexOf(sessions[e[2]], e[2])

Files ==
  IF Lmdb THEN disk = sessions
  ELSE /\ expiry = {} /\ rawKeys = [t \in Tokens |-> None]
       /\ \A t \in Tokens \ doubtful : disk[t] # None => IsExpired(disk[t]) \/ sessions[t] # None

(* What is given is never more than a renewal gives.                       *)
Longest == IF Ttl = None THEN mix.clock + 1 ELSE now + Ttl
Covers(record, t) == record # None /\ granted[t] <= Until(record)
Held(t) ==
  IF Lmdb THEN Covers(IF sessions[t] # None THEN sessions[t] ELSE rawKeys[t], t)
  ELSE Covers(sessions[t], t) /\ Covers(disk[t], t)
Live(t) == granted[t] # None /\ now < granted[t]

Granting ==
  /\ \A t \in Tokens : granted[t] # None => granted[t] <= Longest /\ t \in issued
  /\ \A t \in Tokens : Live(t) => Held(t)

JobGrants(j) ==
  /\ j.pc = "keep" => \A t \in j.keys :
       /\ granted[t] = None
       /\ Until(j.copy) <= Longest
       /\ now < Until(j.copy) => /\ sessions[t] # None /\ sessions[t].expires = j.copy.expires
                                 /\ ~Lmdb => disk[t] # None /\ disk[t].expires = j.copy.expires
  /\ j.pc \in {"erase", "forget"} => granted[j.arg.token] = None
  /\ j.pc = "readRaw" /\ Live(j.arg.token) =>
       rawKeys[j.arg.token] = None \/ Covers(rawKeys[j.arg.token], j.arg.token)
  /\ j.pc = "migrate" /\ Live(j.arg.token) => Covers(j.copy, j.arg.token)
  /\ j.pc = "dropRaw" /\ Live(j.arg.token) => sessions[j.arg.token] # None

EndingPcs == {"lookup", "read", "readRaw", "erase", "forget"}
Ended(t) ==
  /\ t \in issued /\ sessions[t] = None /\ rawKeys[t] = None /\ cache[t] = None
  /\ disk[t] = None \/ IsExpired(disk[t])
JobEnds(j) ==
  /\ j.pc \in TokenPcs /\ j.arg.token \in ended => j.pc \in EndingPcs
  /\ j.pc = "forget" /\ j.op = "logout" /\ j.alone /\ j.arg.token \notin doubtful =>
       /\ sessions[j.arg.token] = None /\ rawKeys[j.arg.token] = None
       /\ disk[j.arg.token] = None \/ IsExpired(disk[j.arg.token])

SessionInv ==
  /\ Alone /\ Indexed /\ Files /\ Granting /\ \A t \in ended : Ended(t)
  /\ \A h \in Handlers : Working(h) => JobGrants(jobs[h]) /\ JobEnds(jobs[h])

-----------------------------------------------------------------------------
\* Who is alone.
LEMMA AloneContinues ==
  ASSUME Typed, Alone, NEW h \in Handlers, NEW job, Continue(h, job),
         \/ job = Idle
         \/ Working(h) /\ job.keys = jobs[h].keys /\ job.alone = jobs[h].alone
         \/ \A g \in Handlers : ~On(g, job.keys)
  PROVE  Alone'
<1>1. /\ jobs'[h] = job /\ \A g \in Handlers \ {h} : jobs'[g] = jobs[g]
  BY Continues
<1>2. \A keys : \A g \in Handlers \ {h} : On(g, keys)' <=> On(g, keys)
  BY <1>1 DEF On, Working
<1>3. ASSUME NEW e \in Handlers, NEW f \in Handlers, e # f, Working(f)', jobs'[f].alone,
             NEW keys, keys = jobs'[f].keys, On(e, keys)'
      PROVE  FALSE
  <2>1. CASE f = h
    <3>1. job # Idle
      BY <1>1, <1>3, <2>1 DEF Working, Idle
    <3>2. On(e, keys) /\ keys = job.keys
      BY <1>1, <1>2, <1>3, <2>1
    <3> QED
      BY <1>1, <1>3, <2>1, <3>1, <3>2 DEF Alone
  <2>2. CASE e = h
    <3>1. Working(f) /\ jobs[f].alone /\ keys = jobs[f].keys
      BY <1>1, <1>3, <2>2 DEF Working
    <3>2. ~On(h, keys)
      BY <1>3, <2>2, <3>1 DEF Alone
    <3>3. job # Idle /\ job.keys \cap keys # {}
      BY <1>1, <1>3, <2>2 DEF On, Working, Idle
    <3>4. CASE Working(h) /\ job.keys = jobs[h].keys
      BY <3>2, <3>3, <3>4 DEF On
    <3>5. CASE \A g \in Handlers : ~On(g, job.keys)
      BY <3>1, <3>3, <3>5 DEF On
    <3> QED
      BY <3>3, <3>4, <3>5
  <2>3. CASE e # h /\ f # h
    <3>1. Working(f) /\ jobs[f].alone /\ keys = jobs[f].keys /\ On(e, keys)
      BY <1>1, <1>2, <1>3, <2>3 DEF Working
    <3> QED
      BY <1>3, <3>1 DEF Alone
  <2> QED
    BY <2>1, <2>2, <2>3
<1> QED
  BY <1>3 DEF Alone, On

LEMMA AloneBegins ==
  ASSUME Typed, Alone, NEW h \in Handlers, NEW op, NEW pc, NEW keys, NEW arg,
         Begin(h, op, pc, keys, arg)
  PROVE  Alone'
<1>1. /\ OthersKept(h) /\ jobs'[h] = NewJob(h, op, pc, keys, arg)
      /\ \A g \in Handlers \ {h} :
           jobs'[g] = IF On(g, keys) THEN [jobs[g] EXCEPT !.alone = FALSE] ELSE jobs[g]
  BY Begins
<1>2. jobs'[h].keys = keys /\ (jobs'[h].alone => \A f \in Handlers : ~On(f, keys))
  BY <1>1, NewJobIs
<1>3. \A x : \A g \in Handlers \ {h} : On(g, x)' <=> On(g, x)
  BY <1>1, SameFields DEF On
<1>4. ASSUME NEW f \in Handlers \ {h}, Working(f)', jobs'[f].alone
      PROVE  Working(f) /\ jobs'[f] = jobs[f] /\ ~On(f, keys)
  <2>1. Working(f) /\ jobs'[f] = jobs[f]
    BY <1>1, <1>4, SameFields
  <2>2. ASSUME On(f, keys) PROVE FALSE
    <3>1. PICK j, k : j = jobs[f] /\ k = [j EXCEPT !.alone = FALSE]
      OBVIOUS
    <3>2. k.alone = FALSE
      BY <2>1, <3>1, JobOf, NotAloneOpen, Zenon
    <3>3. jobs'[f] = k
      BY <1>1, <2>2, <3>1
    <3> QED
      BY <1>4, <3>2, <3>3
  <2> QED
    BY <2>1, <2>2
<1>5. ASSUME NEW e \in Handlers, NEW f \in Handlers, e # f, Working(f)', jobs'[f].alone,
             NEW x, x = jobs'[f].keys, On(e, x)'
      PROVE  FALSE
  <2>1. CASE f = h
    BY <1>2, <1>3, <1>5, <2>1
  <2>2. CASE e = h
    <3>1. keys \cap x # {} /\ x = jobs[f].keys /\ Working(f) /\ ~On(f, keys)
      BY <1>2, <1>4, <1>5, <2>2 DEF On
    <3> QED
      BY <3>1 DEF On
  <2>3. CASE e # h /\ f # h
    BY <1>3, <1>4, <1>5, <2>3 DEF Alone
  <2> QED
    BY <2>1, <2>2, <2>3
<1> QED
  BY <1>5 DEF Alone, On

-----------------------------------------------------------------------------
\* What storing and forgetting a session do to the stores.
Past(x) == sessions[x] # None /\ sessions[x].expires # None /\ sessions[x].expires <= now
Gentle(x) ==
  /\ sessions'[x] = sessions[x] \/ (sessions'[x] = None /\ Past(x))
  /\ rawKeys'[x] = rawKeys[x] /\ disk'[x] \in {disk[x], sessions'[x]}

LEMMA IndexIs ==
  ASSUME NEW record, NEW x, NEW e
  PROVE  e \in IndexOf(record, x)
           <=> record # None /\ record.expires # None /\ e = <<record.expires, x>>
  BY DEF IndexOf

LEMMA PurgedIs ==
  ASSUME Typed, Indexed, NEW x \in Tokens
  PROVE  /\ Purged[x] = sessions[x] \/ (Purged[x] = None /\ Past(x))
         /\ \A e \in expiry \ Due : e[2] = x => Purged[x] = sessions[x]
<1>1. \A e \in expiry : e[2] = x =>
        sessions[x] # None /\ sessions[x].expires # None /\ e = <<sessions[x].expires, x>>
  BY IndexIs DEF Indexed
<1>2. \A e \in Due : e[2] = x => Past(x)
  BY <1>1 DEF Due, Past
<1>3. \A e \in expiry \ Due, d \in Due : ~(e[2] = x /\ d[2] = x)
  BY <1>1 DEF Due
<1> QED
  BY <1>2, <1>3 DEF Purged

LEMMA PutEffect ==
  ASSUME Typed, Indexed, Files, UNCHANGED <<now, mix, doubtful>>, NEW t \in Tokens,
         NEW record \in SessionRecords, NEW ok \in BOOLEAN, StorePut(t, record, ok)
  PROVE  /\ Indexed' /\ Files' /\ rawKeys' = rawKeys /\ \A x \in Tokens \ {t} : Gentle(x)
         /\ ok \/ ~Lmdb => sessions'[t] # None /\ sessions'[t].expires = record.expires
         /\ ok => disk'[t] = sessions'[t]
         /\ ~ok => disk'[t] = disk[t] /\ (Lmdb => sessions' = sessions)
<1>1. /\ StoreTyped /\ Lmdb' = Lmdb
  BY SessionsSplit DEF Lmdb
<1>2. record # None
  BY NoRecord
<1>3. CASE Lmdb /\ ok
  <2>1. PICK e : e = Encode(record)
    OBVIOUS
  <2>2. e # None /\ e.expires = record.expires
    BY <2>1, EncodeTyped, NoRecord
  <2>3. /\ sessions' = [Purged EXCEPT ![t] = e] /\ disk' = sessions' /\ UNCHANGED rawKeys
        /\ expiry' = ((expiry \ Due) \ IndexOf(Purged[t], t)) \cup IndexOf(record, t)
    BY <1>3, <2>1 DEF StorePut, PutLmdb
  <2>4. DOMAIN Purged = Tokens
    BY DEF Purged
  <2>5. sessions'[t] = e /\ \A x \in Tokens \ {t} : sessions'[x] = Purged[x]
    BY <2>3, <2>4
  <2>6. \A x \in Tokens \ {t} : Gentle(x)
    BY <2>3, <2>5, PurgedIs DEF Gentle
  <2>7. ASSUME NEW d \in expiry' PROVE d \in IndexOf(sessions'[d[2]], d[2])
    <3>1. CASE d \in IndexOf(record, t)
      <4>1. record.expires # None /\ d = <<record.expires, t>>
        BY <3>1, IndexIs
      <4> QED
        BY <2>2, <2>5, <4>1, IndexIs
    <3>2. CASE d \notin IndexOf(record, t)
      <4>1. d \in expiry \ Due /\ d \notin IndexOf(Purged[t], t)
        BY <2>3, <3>2
      <4>2. PICK x \in Tokens : x = d[2]
        BY <1>1, <4>1 DEF StoreTyped
      <4>3. Purged[x] = sessions[x] /\ d \in IndexOf(sessions[x], x)
        BY <4>1, <4>2, PurgedIs DEF Indexed
      <4>4. x # t
        BY <4>1, <4>3
      <4> QED
        BY <2>5, <4>2, <4>3, <4>4
    <3> QED
      BY <3>1, <3>2
  <2>8. Indexed'
    BY <2>7 DEF Indexed
  <2>9. Files'
    BY <1>1, <1>3, <2>3 DEF Files
  <2> QED
    BY <1>3, <2>2, <2>3, <2>5, <2>6, <2>8, <2>9
<1>4. CASE Lmdb /\ ~ok
  <2>1. UNCHANGED storeVars
    BY <1>4 DEF StorePut
  <2>2. Indexed' /\ Files'
    BY <1>1, <1>4, <2>1 DEF Indexed, Files, storeVars
  <2> QED
    BY <1>4, <2>1, <2>2 DEF storeVars, Gentle
<1>5. CASE ~Lmdb
  <2>1. /\ sessions' = [sessions EXCEPT ![t] = record] /\ disk' = IF ok THEN sessions' ELSE disk
        /\ UNCHANGED <<rawKeys, expiry>>
    BY <1>5 DEF StorePut, WriteJson
  <2>2. sessions'[t] = record /\ \A x \in Tokens \ {t} : sessions'[x] = sessions[x]
    BY <1>1, <2>1 DEF StoreTyped
  <2>3. Indexed'
    BY <1>5, <2>1 DEF Indexed, Files
  <2>4. Files'
    <3>1. ASSUME NEW x \in Tokens \ doubtful, disk'[x] # None
          PROVE  IsExpired(disk'[x]) \/ sessions'[x] # None
      BY <1>2, <1>5, <2>1, <2>2, <3>1 DEF Files
    <3> QED
      BY <1>1, <1>5, <2>1, <3>1 DEF Files, IsExpired
  <2> QED
    BY <1>2, <1>5, <2>1, <2>2, <2>3, <2>4 DEF Gentle
<1> QED
  BY <1>3, <1>4, <1>5

LEMMA DeleteEffect ==
  ASSUME Typed, Indexed, Files, UNCHANGED <<now, mix>>, NEW t \in Tokens, NEW ok \in BOOLEAN,
         StoreDelete(t, ok), doubtful' = IF ok THEN doubtful ELSE doubtful \cup {t}
  PROVE  /\ Indexed' /\ Files' /\ \A x \in Tokens \ {t} : Gentle(x)
         /\ sessions'[t] \in {sessions[t], None} /\ rawKeys'[t] \in {rawKeys[t], None}
         /\ disk'[t] \in {disk[t], None}
         /\ ok => /\ sessions'[t] = None /\ rawKeys'[t] = None
                  /\ disk'[t] = None \/ IsExpired(disk'[t]) \/ t \in doubtful
<1>1. /\ StoreTyped /\ Lmdb' = Lmdb
  BY SessionsSplit DEF Lmdb
<1>2. CASE UNCHANGED storeVars /\ (Lmdb => ~ok)
  <2>1. Indexed'
    BY <1>2 DEF Indexed, storeVars
  <2>2. Files'
    BY <1>1, <1>2 DEF Files, storeVars, IsExpired
  <2>3. ok => sessions[t] = None /\ ~Lmdb
    BY <1>2, <1>1 DEF StoreDelete, WriteJson, storeVars, StoreTyped
  <2>4. ok => rawKeys[t] = None /\ (disk[t] = None \/ IsExpired(disk[t]) \/ t \in doubtful)
    BY <2>3 DEF Files
  <2> QED
    BY <1>2, <2>1, <2>2, <2>3, <2>4 DEF storeVars, Gentle
<1>3. CASE Lmdb /\ ok
  <2>1. /\ sessions' = [sessions EXCEPT ![t] = None] /\ disk' = sessions'
        /\ expiry' = expiry \ IndexOf(sessions[t], t) /\ rawKeys' = [rawKeys EXCEPT ![t] = None]
    BY <1>3 DEF StoreDelete, DeleteLmdb
  <2>2. /\ sessions'[t] = None /\ rawKeys'[t] = None
        /\ \A x \in Tokens \ {t} : sessions'[x] = sessions[x] /\ rawKeys'[x] = rawKeys[x]
    BY <1>1, <2>1 DEF StoreTyped
  <2>3. ASSUME NEW d \in expiry' PROVE d \in IndexOf(sessions'[d[2]], d[2])
    <3>1. PICK x \in Tokens : x = d[2]
      BY <1>1, <2>1 DEF StoreTyped
    <3>2. d \in IndexOf(sessions[x], x) /\ d \notin IndexOf(sessions[t], t)
      BY <2>1, <3>1 DEF Indexed
    <3> QED
      BY <2>2, <3>1, <3>2
  <2>4. Indexed' /\ Files'
    BY <1>1, <1>3, <2>1, <2>3 DEF Indexed, Files
  <2> QED
    BY <1>3, <2>1, <2>2, <2>4 DEF Gentle
<1>4. CASE ~Lmdb /\ WriteJson([sessions EXCEPT ![t] = None], ok)
  <2>1. /\ sessions' = [sessions EXCEPT ![t] = None] /\ disk' = IF ok THEN sessions' ELSE disk
        /\ UNCHANGED <<rawKeys, expiry>>
    BY <1>4 DEF WriteJson
  <2>2. sessions'[t] = None /\ \A x \in Tokens \ {t} : sessions'[x] = sessions[x]
    BY <1>1, <2>1 DEF StoreTyped
  <2>3. Indexed' /\ rawKeys[t] = None
    BY <1>4, <2>1 DEF Indexed, Files
  <2>4. Files'
    <3>1. ASSUME NEW x \in Tokens \ doubtful', disk'[x] # None
          PROVE  IsExpired(disk'[x]) \/ sessions'[x] # None
      BY <1>4, <2>1, <2>2, <3>1 DEF Files
    <3> QED
      BY <1>1, <1>4, <2>1, <3>1 DEF Files, IsExpired
  <2> QED
    BY <1>4, <2>1, <2>2, <2>3, <2>4 DEF Gentle
<1> QED
  BY <1>2, <1>3, <1>4 DEF StoreDelete

-----------------------------------------------------------------------------
\* What a step of one request about a token leaves to the others.
Exclusive(h, t) == \A g \in Handlers \ {h} : ~On(g, {t})

SameToken(x) ==
  /\ granted'[x] = granted[x] /\ cache'[x] = cache[x]
  /\ x \in issued' <=> x \in issued
  /\ x \in ended' <=> x \in ended
  /\ x \in doubtful => x \in doubtful'

Shared(h, t) ==
  /\ rawKeys'[t] \in {rawKeys[t], None}
  /\ granted'[t] \in {granted[t], None} \/ (granted[t] # None /\ Exclusive(h, t))
  /\ t \in ended' => t \in ended \/ Exclusive(h, t)
  /\ granted'[t] # None /\ now < granted'[t] /\ sessions[t] # None => sessions'[t] # None
  /\ \/ On(h, {t})
     \/ sessions'[t] = sessions[t] /\ rawKeys'[t] = rawKeys[t] /\ disk'[t] = disk[t]
  /\ t \in doubtful => t \in doubtful'

Effect(h, t) ==
  /\ t \in Tokens /\ OthersKept(h) /\ UNCHANGED <<now, mix>>
  /\ Indexed' /\ Files' /\ issued \subseteq issued' /\ ended' \subseteq ended \cup {t}
  /\ \A x \in Tokens \ {t} : Gentle(x) /\ SameToken(x)
  /\ \/ Gentle(t) /\ SameToken(t)
     \/ t \in issued /\ Shared(h, t)
     \/ t \notin issued /\ \A g \in Handlers \ {h} : At(g, "keep") => jobs[g].keys # {t}

LEMMA RecordsAre ==
  ASSUME Typed, NEW x \in Tokens
  PROVE  /\ granted[x] \in Nat \cup {None} /\ None \notin Nat /\ now \in Nat
         /\ sessions[x] # None => /\ sessions[x].expires \in Nat \cup {None}
                                  /\ Until(sessions[x]) \in Nat
         /\ disk[x] # None => disk[x].expires \in Nat \cup {None} /\ Until(disk[x]) \in Nat
         /\ rawKeys[x] # None => rawKeys[x].expires \in Nat \cup {None} /\ Until(rawKeys[x]) \in Nat
         /\ now <= mix.clock /\ mix.clock \in Nat
<1>1. /\ sessions[x] \in StoredRecords \cup {None} /\ disk[x] \in StoredRecords \cup {None}
      /\ rawKeys[x] \in SessionRecords \cup {None} /\ granted[x] \in Nat \cup {None}
  BY DEF Typed, SessionsTyped
<1>2. now \in Nat /\ now <= mix.clock /\ mix.clock \in Nat
  BY AccessAssumption DEF Typed
<1>3. \A r \in SessionRecords \cup StoredRecords : r.expires \in Nat \cup {None} /\ Until(r) \in Nat
  BY UntilTyped DEF SessionRecords, StoredRecords, RecordsOf
<1> QED
  BY <1>1, <1>2, <1>3, AccessAssumption

\* What is needed after now is not past.
LEMMA NotPast ==
  ASSUME Typed, NEW x \in Tokens, sessions[x] # None, now < Until(sessions[x])
  PROVE  ~Past(x)
  BY RecordsAre DEF Past, Until

LEMMA HeldOthers ==
  ASSUME Typed, Granting, NEW x \in Tokens, Gentle(x), SameToken(x), UNCHANGED <<now, mix>>,
         Live(x)'
  PROVE  Held(x)'
<1>1. Live(x) /\ Held(x) /\ Lmdb' = Lmdb
  BY DEF Live, SameToken, Granting, Lmdb
<1>2. \A r : Covers(r, x)' <=> Covers(r, x)
  BY DEF Covers, Until, SameToken
<1>3. sessions[x] # None => sessions'[x] = sessions[x]
  <2>1. ASSUME sessions[x] # None PROVE now < Until(sessions[x])
    BY <1>1, <2>1, RecordsAre DEF Live, Held, Covers
  <2> QED
    BY <2>1, NotPast DEF Gentle
<1>4. sessions[x] = None => sessions'[x] = None
  BY DEF Gentle, Past
<1>5. CASE Lmdb
  BY <1>1, <1>2, <1>3, <1>4, <1>5 DEF Held, Gentle
<1>6. CASE ~Lmdb
  <2>1. Covers(sessions[x], x) /\ Covers(disk[x], x)
    BY <1>1, <1>6 DEF Held
  <2>2. sessions'[x] = sessions[x]
    BY <1>3, <2>1 DEF Covers
  <2>3. Covers(sessions'[x], x) /\ Covers(disk'[x], x)
    BY <2>1, <2>2 DEF Gentle
  <2> QED
    BY <1>1, <1>2, <1>6, <2>3 DEF Held
<1> QED
  BY <1>5, <1>6

LEMMA EndedOthers ==
  ASSUME NEW x \in Tokens, Ended(x), Gentle(x), SameToken(x), UNCHANGED now
  PROVE  Ended(x)'
  BY DEF Ended, Gentle, SameToken, Past, IsExpired

Owns(t) ==
  /\ granted'[t] # None => granted'[t] <= Longest /\ t \in issued'
  /\ Live(t)' => Held(t)'
  /\ t \in ended' => Ended(t)'

LEMMA TokensKept ==
  ASSUME Typed, SessionInv, NEW h \in Handlers, NEW t, Effect(h, t), Owns(t)
  PROVE  Granting' /\ \A x \in ended' : Ended(x)'
<1>1. Granting /\ Longest' = Longest
  BY DEF SessionInv, Effect, Longest
<1>2. ASSUME NEW x \in Tokens \ {t}, granted'[x] # None
      PROVE  granted'[x] <= Longest' /\ x \in issued'
  BY <1>1, <1>2 DEF Effect, SameToken, Granting
<1>3. ASSUME NEW x \in Tokens \ {t}, Live(x)' PROVE Held(x)'
  BY <1>1, <1>3, HeldOthers DEF Effect
<1>4. ASSUME NEW x \in Tokens \ {t}, x \in ended' PROVE Ended(x)'
  BY <1>4, EndedOthers DEF Effect, SameToken, SessionInv
<1>5. Granting'
  BY <1>1, <1>2, <1>3 DEF Owns, Granting
<1>6. ended' \subseteq Tokens
  BY DEF Effect, SessionInv, Ended, Typed, SessionsTyped
<1> QED
  BY <1>4, <1>5, <1>6 DEF Owns

Nowhere(x) ==
  sessions[x] = None /\ rawKeys[x] = None /\ (disk[x] = None \/ IsExpired(disk[x]))

LEMMA OthersSee ==
  ASSUME Typed, SessionInv, NEW h \in Handlers, NEW t, Effect(h, t),
         NEW g \in Handlers \ {h}, Working(g), NEW s \in issued \cap jobs[g].keys
  PROVE  /\ s \in Tokens /\ granted'[s] \in {granted[s], None} /\ rawKeys'[s] \in {rawKeys[s], None}
         /\ s \in ended' => s \in ended
         /\ s \in doubtful => s \in doubtful'
         /\ Live(s)' /\ sessions[s] # None => sessions'[s] # None
         /\ jobs[g].alone /\ Nowhere(s) => Nowhere(s)'
<1>1. s \in Tokens /\ On(g, {s}) /\ now' = now
  BY DEF On, Effect, Typed, SessionsTyped
<1>2. CASE Gentle(s) /\ SameToken(s)
  <2>1. Gentle(s) /\ SameToken(s)
    BY <1>2
  <2>2. Live(s)' /\ sessions[s] # None => sessions'[s] # None
    <3>1. ASSUME Live(s)', sessions[s] # None PROVE now < Until(sessions[s])
      BY <1>1, <2>1, <3>1, RecordsAre DEF Live, SameToken, SessionInv, Granting, Held, Covers
    <3> QED
      BY <1>1, <2>1, <3>1, NotPast DEF Gentle
  <2>3. Nowhere(s) => Nowhere(s)'
    BY <1>1, <2>1 DEF Nowhere, Gentle, Past, IsExpired
  <2> QED
    BY <1>1, <2>1, <2>2, <2>3 DEF Gentle, SameToken
<1>3. CASE s = t /\ Shared(h, t)
  <2>1. Shared(h, t) /\ ~Exclusive(h, t)
    BY <1>1, <1>3 DEF Exclusive
  <2>2. Live(s)' /\ sessions[s] # None => sessions'[s] # None
    BY <1>1, <1>3, <2>1 DEF Live, Shared
  <2>3. ASSUME jobs[g].alone, Nowhere(s) PROVE Nowhere(s)'
    <3>1. ~On(h, {t})
      BY <1>3, <2>3 DEF SessionInv, Alone, On
    <3> QED
      BY <1>1, <1>3, <2>1, <2>3, <3>1 DEF Shared, Nowhere, IsExpired
  <2> QED
    BY <1>1, <1>3, <2>1, <2>2, <2>3 DEF Shared
<1> QED
  BY <1>1, <1>2, <1>3 DEF Effect

LEMMA OthersKeep ==
  ASSUME Typed, SessionInv, NEW h \in Handlers, NEW t, Effect(h, t),
         NEW g \in Handlers \ {h}, Working(g), jobs[g].pc = "keep"
  PROVE  JobGrants(jobs[g])'
<1>1. PICK j, k : j = jobs[g] /\ k = jobs'[g]
  OBVIOUS
<1>2. k.pc = "keep" /\ k.keys = j.keys /\ k.copy = j.copy
  BY <1>1, SameFields DEF Effect
<1>3. JobGrants(j) /\ SessionJob(j)
  BY <1>1, JobOf DEF SessionInv, OpenJob
<1>4. PICK s \in Tokens \ issued : j.keys = {s}
  BY <1>1, <1>3 DEF SessionJob
<1>5. s # t \/ (Gentle(t) /\ SameToken(t))
  BY <1>1, <1>4 DEF Effect, At
<1>6. Gentle(s) /\ SameToken(s) /\ UNCHANGED <<now, mix>>
  BY <1>4, <1>5 DEF Effect
<1>7. /\ granted[s] = None /\ Until(j.copy) <= Longest
      /\ now < Until(j.copy) => /\ sessions[s] # None /\ sessions[s].expires = j.copy.expires
                                /\ ~Lmdb => disk[s] # None /\ disk[s].expires = j.copy.expires
  BY <1>1, <1>3, <1>4 DEF JobGrants
<1>8. Until(j.copy)' = Until(j.copy) /\ Longest' = Longest /\ Lmdb' = Lmdb
  BY <1>6 DEF Until, Longest, Lmdb
<1>9. now < Until(j.copy) => sessions'[s] = sessions[s]
  <2>1. ASSUME now < Until(j.copy) PROVE now < Until(sessions[s])
    BY <1>7, <2>1 DEF Until
  <2> QED
    BY <1>4, <1>6, <1>7, <2>1, NotPast DEF Gentle
<1>10. /\ granted'[s] = None /\ Until(j.copy) <= Longest
       /\ now < Until(j.copy) => /\ sessions'[s] # None /\ sessions'[s].expires = j.copy.expires
                                 /\ ~Lmdb => disk'[s] # None /\ disk'[s].expires = j.copy.expires
  BY <1>6, <1>7, <1>9 DEF Gentle, SameToken
<1> QED
  BY <1>1, <1>2, <1>4, <1>6, <1>8, <1>10 DEF JobGrants

LEMMA OthersGrant ==
  ASSUME Typed, SessionInv, NEW h \in Handlers, NEW t, Effect(h, t),
         NEW g \in Handlers \ {h}, Working(g)'
  PROVE  JobGrants(jobs[g])' /\ JobEnds(jobs[g])'
<1>1. PICK j, k : j = jobs[g] /\ k = jobs'[g]
  OBVIOUS
<1>2. /\ Working(g) /\ k.pc = j.pc /\ k.op = j.op /\ k.keys = j.keys /\ k.arg = j.arg
      /\ k.copy = j.copy /\ (k.alone => j.alone)
  BY <1>1, SameFields DEF Effect
<1>3. JobGrants(j) /\ JobEnds(j) /\ SessionJob(j)
  BY <1>1, <1>2, JobOf DEF SessionInv, OpenJob
<1>4. "keep" \notin TokenPcs /\ {"erase", "forget", "readRaw", "migrate", "dropRaw"} \subseteq TokenPcs
  BY TokenPcsAre DEF TokenPcs, LoadPcs
<1>5. CASE j.pc = "keep"
  BY <1>1, <1>2, <1>4, <1>5, OthersKeep DEF JobEnds
<1>6. CASE j.pc \in TokenPcs
  <2>1. PICK s : s = j.arg.token /\ s \in issued \cap j.keys
    BY <1>3, <1>6 DEF SessionJob
  <2>2. /\ s \in Tokens /\ granted'[s] \in {granted[s], None} /\ rawKeys'[s] \in {rawKeys[s], None}
        /\ s \in ended' => s \in ended
        /\ s \in doubtful => s \in doubtful'
        /\ Live(s)' /\ sessions[s] # None => sessions'[s] # None
        /\ j.alone /\ Nowhere(s) => Nowhere(s)'
    BY <1>1, <1>2, <2>1, OthersSee
  <2>3. UNCHANGED <<now, mix>>
    BY DEF Effect
  <2>4. Live(s)' => Live(s) /\ granted'[s] = granted[s]
    BY <2>2, <2>3 DEF Live
  <2>5. \A r : Live(s)' /\ Covers(r, s) => Covers(r, s)'
    BY <2>3, <2>4 DEF Covers, Until
  <2>6. JobGrants(k)'
    <3>1. k.pc \in {"erase", "forget"} => granted'[s] = None
      BY <1>2, <1>3, <2>1, <2>2 DEF JobGrants
    <3>2. k.pc = "readRaw" /\ Live(s)' => rawKeys'[s] = None \/ Covers(rawKeys[s], s)'
      BY <1>2, <1>3, <2>1, <2>2, <2>4, <2>5 DEF JobGrants
    <3>3. k.pc = "migrate" /\ Live(s)' => Covers(k.copy, s)'
      BY <1>2, <1>3, <2>1, <2>4, <2>5 DEF JobGrants
    <3>4. k.pc = "dropRaw" /\ Live(s)' => sessions'[s] # None
      BY <1>2, <1>3, <2>1, <2>2, <2>4 DEF JobGrants
    <3> QED
      BY <1>2, <1>4, <1>6, <2>1, <3>1, <3>2, <3>3, <3>4 DEF JobGrants
  <2>7. JobEnds(k)'
    <3>1. k.pc \in TokenPcs /\ s \in ended' => k.pc \in EndingPcs
      BY <1>2, <1>3, <2>1, <2>2 DEF JobEnds
    <3>2. k.pc = "forget" /\ k.op = "logout" /\ k.alone /\ s \notin doubtful' => Nowhere(s)'
      <4>1. j.pc = "forget" /\ j.op = "logout" /\ j.alone /\ s \notin doubtful => Nowhere(s)
        BY <1>3, <2>1 DEF JobEnds, Nowhere
      <4> QED
        BY <1>2, <2>2, <4>1
    <3> QED
      BY <1>2, <2>1, <3>1, <3>2 DEF JobEnds, Nowhere
  <2> QED
    BY <1>1, <2>6, <2>7
<1>7. CASE j.pc \notin TokenPcs \cup {"keep"}
  BY <1>1, <1>2, <1>4, <1>7 DEF JobGrants, JobEnds
<1> QED
  BY <1>5, <1>6, <1>7

-----------------------------------------------------------------------------
\* A step of a request about a token, put together.
JobSettled(h) == Working(h)' => JobGrants(jobs[h])' /\ JobEnds(jobs[h])'

LEMMA Settles ==
  ASSUME Typed, SessionInv, NEW h \in Handlers, NEW t, Effect(h, t), Owns(t), Alone',
         JobSettled(h)
  PROVE  SessionInv'
<1>1. Granting' /\ \A x \in ended' : Ended(x)'
  BY TokensKept
<1>2. ASSUME NEW g \in Handlers, Working(g)' PROVE JobGrants(jobs[g])' /\ JobEnds(jobs[g])'
  BY <1>2, OthersGrant DEF JobSettled
<1>3. Indexed' /\ Files'
  BY DEF Effect
<1> QED
  BY <1>1, <1>2, <1>3 DEF SessionInv

LEMMA Undisturbed ==
  ASSUME Typed, SessionInv, NEW h \in Handlers, OthersKept(h), NEW t \in Tokens,
         UNCHANGED <<now, mix, sessionVars>>
  PROVE  Effect(h, t) /\ Owns(t)
<1>1. /\ UNCHANGED <<sessions, rawKeys, expiry, disk, cache, issued, granted, ended, doubtful>>
      /\ Lmdb' = Lmdb /\ UNCHANGED <<now, mix>>
  BY DEF sessionVars, Lmdb
<1>2. \A x \in Tokens : Gentle(x) /\ SameToken(x)
  BY <1>1 DEF Gentle, SameToken
<1>3. Indexed' /\ Files'
  BY <1>1 DEF SessionInv, Indexed, Files, IsExpired
<1>4. Effect(h, t)
  BY <1>1, <1>2, <1>3 DEF Effect
<1>5. Live(t)' => Held(t)'
  BY <1>1, <1>2, HeldOthers DEF SessionInv
<1>6. t \in ended' => Ended(t)'
  BY <1>1, <1>2, EndedOthers DEF SessionInv
<1>7. granted'[t] # None => granted'[t] <= Longest /\ t \in issued'
  BY <1>1 DEF SessionInv, Granting
<1> QED
  BY <1>4, <1>5, <1>6, <1>7 DEF Owns

\* The steps that are about no token.
GrantPcs == {"keep", "erase", "forget", "readRaw", "migrate", "dropRaw"}

LEMMA PlainJob ==
  ASSUME NEW h \in Handlers, jobs'[h].pc \notin GrantPcs,
         jobs'[h].pc \in TokenPcs /\ jobs'[h].arg.token \in ended' => jobs'[h].pc \in EndingPcs
  PROVE  JobSettled(h)
  BY DEF JobSettled, JobGrants, JobEnds, GrantPcs

LEMMA ElsewhereSessions ==
  ASSUME Typed, SessionInv, NEW h \in Handlers, Elsewhere(h), UNCHANGED sessionVars
  PROVE  SessionInv'
<1>1. OldToken \in Tokens
  BY SessionsAssumption
<1>2. {"erase", "forget", "readRaw", "migrate", "dropRaw"} \subseteq TokenPcs
  BY DEF TokenPcs, LoadPcs
<1>3. CASE \E j : /\ Continue(h, j)
                  /\ j = Idle \/ (/\ Working(h) /\ OpenJob(j) /\ j.pc \notin TokenPcs \cup {"keep"}
                                  /\ j.keys = jobs[h].keys /\ j.alone = jobs[h].alone)
  <2>1. PICK j : /\ Continue(h, j)
                 /\ j = Idle \/ (/\ Working(h) /\ OpenJob(j) /\ j.pc \notin TokenPcs \cup {"keep"}
                                 /\ j.keys = jobs[h].keys /\ j.alone = jobs[h].alone)
    BY <1>3
  <2>2. OthersKept(h) /\ UNCHANGED <<now, mix>> /\ jobs'[h] = j
    BY <2>1, Continues
  <2>3. Alone'
    BY <2>1, AloneContinues DEF SessionInv
  <2>4. JobSettled(h)
    <3>1. CASE j = Idle
      BY <2>2, <3>1 DEF JobSettled, Working, Idle
    <3>2. CASE j.pc \notin TokenPcs \cup {"keep"}
      BY <1>2, <2>2, <3>2, PlainJob DEF GrantPcs
    <3> QED
      BY <2>1, <3>1, <3>2
  <2> QED
    BY <1>1, <2>2, <2>3, <2>4, Undisturbed, Settles
<1>4. CASE \E op, pc, keys, arg :
             /\ Begin(h, op, pc, keys, arg)
             /\ OpenJob(NewJob(h, op, pc, keys, arg))
             /\ NewJob(h, op, pc, keys, arg).pc \notin TokenPcs \cup {"keep"}
  <2>1. PICK op, pc, keys, arg :
             /\ Begin(h, op, pc, keys, arg)
             /\ NewJob(h, op, pc, keys, arg).pc \notin TokenPcs \cup {"keep"}
    BY <1>4
  <2>2. OthersKept(h) /\ UNCHANGED <<now, mix>> /\ jobs'[h] = NewJob(h, op, pc, keys, arg)
    BY <2>1, Begins
  <2>3. Alone'
    BY <2>1, AloneBegins DEF SessionInv
  <2>4. JobSettled(h)
    BY <1>2, <2>1, <2>2, PlainJob DEF GrantPcs
  <2> QED
    BY <1>1, <2>2, <2>3, <2>4, Undisturbed, Settles
<1> QED
  BY <1>3, <1>4 DEF Elsewhere

-----------------------------------------------------------------------------
\* The request of a step, and its token.
LEMMA TokenKnown ==
  ASSUME Typed, SessionInv, NEW h \in Handlers, Working(h), jobs[h].pc \in TokenPcs
  PROVE  /\ Token(h) \in Tokens /\ Token(h) \in issued /\ On(h, {Token(h)})
         /\ JobGrants(jobs[h]) /\ JobEnds(jobs[h])
         /\ jobs[h].alone => Exclusive(h, Token(h))
<1>1. Token(h) \in issued \cap jobs[h].keys /\ Token(h) \in Tokens
  BY TokenJobIs
<1>2. jobs[h].alone => Exclusive(h, Token(h))
  BY <1>1 DEF SessionInv, Alone, Exclusive, On
<1> QED
  BY <1>1, <1>2 DEF SessionInv, On

\* The request at its next step.
Steps(h, pc, copy) ==
  /\ OthersKept(h) /\ UNCHANGED <<now, mix>> /\ (Alone => Alone')
  /\ jobs'[h].pc = pc /\ jobs'[h].arg.token = Token(h) /\ jobs'[h].copy = copy
  /\ jobs'[h].op = jobs[h].op /\ jobs'[h].alone = jobs[h].alone
Leaves(h) == OthersKept(h) /\ UNCHANGED <<now, mix>> /\ (Alone => Alone') /\ ~Working(h)'

LEMMA StepMoves ==
  ASSUME Typed, NEW h \in Handlers, Working(h), NEW pc, NEW arg, arg.token = Token(h),
         NEW copy, NEW phase, Continue(h, Moved(jobs[h], pc, arg, copy, phase))
  PROVE  Steps(h, pc, copy)
<1>1. PICK k : k = Moved(jobs[h], pc, arg, copy, phase)
  OBVIOUS
<1>2. /\ k.pc = pc /\ k.keys = jobs[h].keys /\ k.alone = jobs[h].alone
      /\ k.arg = arg /\ k.copy = copy /\ k.op = jobs[h].op
  BY <1>1, MovedIs
<1>3. Continue(h, k)
  BY <1>1
<1>4. OthersKept(h) /\ jobs'[h] = k /\ UNCHANGED <<now, mix>>
  BY <1>3, Continues
<1>5. Alone => Alone'
  BY <1>2, <1>3, AloneContinues
<1> QED
  BY <1>2, <1>4, <1>5 DEF Steps

LEMMA StepGoes ==
  ASSUME Typed, NEW h \in Handlers, Working(h), NEW pc, NEW copy
  PROVE  /\ Go(h, pc) => Steps(h, pc, jobs[h].copy)
         /\ GoWith(h, pc, copy) => Steps(h, pc, copy)
<1>1. jobs[h].arg.token = Token(h)
  BY DEF Token
<1>2. ASSUME NEW c, Continue(h, Moved(jobs[h], pc, jobs[h].arg, c, jobs[h].phase))
      PROVE  Steps(h, pc, c)
  BY <1>1, <1>2, StepMoves
<1> QED
  BY <1>2, Goes

LEMMA StepEnds ==
  ASSUME Typed, NEW h \in Handlers, Finish(h)
  PROVE  Leaves(h)
<1>1. Continue(h, Idle)
  BY DEF Finish
<1> QED
  BY <1>1, Continues, AloneContinues DEF Leaves, Working, Idle

\* What a request holds once it is at its next step.
LEMMA Settled ==
  ASSUME NEW h \in Handlers, NEW pc, NEW copy, Steps(h, pc, copy), NEW t, t = Token(h),
         pc # "keep", t \in ended' => pc \in EndingPcs,
         pc \in {"erase", "forget"} => granted'[t] = None,
         pc = "readRaw" /\ Live(t)' => rawKeys'[t] = None \/ Covers(rawKeys[t], t)',
         pc = "migrate" /\ Live(t)' => Covers(copy, t)',
         pc = "dropRaw" /\ Live(t)' => sessions'[t] # None,
         pc = "forget" /\ jobs[h].op = "logout" /\ jobs[h].alone /\ t \notin doubtful' => Nowhere(t)'
  PROVE  JobSettled(h)
<1>1. PICK j : j = jobs'[h]
  OBVIOUS
<1>2. j.pc = pc /\ j.arg.token = t /\ j.copy = copy /\ j.op = jobs[h].op /\ j.alone = jobs[h].alone
  BY <1>1 DEF Steps
<1>3. JobGrants(j)'
  BY <1>1, <1>2 DEF JobGrants
<1>4. JobEnds(j)'
  BY <1>1, <1>2 DEF JobEnds, Nowhere
<1> QED
  BY <1>1, <1>3, <1>4 DEF JobSettled

\* A step that changes nothing about sessions but where the request is.
LEMMA QuietStep ==
  ASSUME Typed, SessionInv, NEW h \in Handlers, Working(h), jobs[h].pc \in TokenPcs,
         UNCHANGED sessionVars, Leaves(h) \/ (\E pc, copy : Steps(h, pc, copy)), JobSettled(h)
  PROVE  SessionInv'
<1>1. OthersKept(h) /\ UNCHANGED <<now, mix>> /\ Alone'
  BY DEF Leaves, Steps, SessionInv
<1> QED
  BY <1>1, TokenKnown, Undisturbed, Settles

LEMMA StoreQuiet ==
  ASSUME Typed, SessionInv, UNCHANGED <<now, mix, storeVars>>, doubtful \subseteq doubtful'
  PROVE  Indexed' /\ Files' /\ \A x \in Tokens : Gentle(x)
<1>1. UNCHANGED <<sessions, rawKeys, expiry, disk>> /\ Lmdb' = Lmdb /\ UNCHANGED <<now, mix>>
  BY DEF storeVars, Lmdb
<1> QED
  BY <1>1 DEF SessionInv, Indexed, Files, IsExpired, Gentle

LEMMA TokenStep ==
  ASSUME Typed, SessionInv, NEW h \in Handlers, Working(h), jobs[h].pc \in TokenPcs,
         NEW t, t = Token(h), Leaves(h) \/ (\E pc, copy : Steps(h, pc, copy)),
         Indexed', Files', UNCHANGED issued, ended' \subseteq ended \cup {t},
         \A x \in Tokens \ {t} : Gentle(x) /\ SameToken(x),
         rawKeys'[t] \in {rawKeys[t], None},
         granted'[t] \in {granted[t], None} \/ (granted[t] # None /\ jobs[h].alone),
         t \in ended' => t \in ended \/ jobs[h].alone, t \in doubtful => t \in doubtful',
         Live(t)' /\ sessions[t] # None => sessions'[t] # None,
         Owns(t), JobSettled(h)
  PROVE  SessionInv'
<1>1. t \in Tokens /\ t \in issued /\ On(h, {t}) /\ (jobs[h].alone => Exclusive(h, t))
  BY TokenKnown
<1>2. OthersKept(h) /\ UNCHANGED <<now, mix>> /\ Alone'
  BY DEF Leaves, Steps, SessionInv
<1>3. Live(t)' <=> granted'[t] # None /\ now < granted'[t]
  BY <1>2 DEF Live
<1>4. Shared(h, t)
  BY <1>1, <1>3 DEF Shared
<1>5. Effect(h, t)
  BY <1>1, <1>2, <1>4 DEF Effect
<1> QED
  BY <1>2, <1>5, Settles

LEMMA QuietSteps ==
  ASSUME Typed, SessionInv, NEW h \in Handlers, Working(h), jobs[h].pc \in TokenPcs,
         UNCHANGED sessionVars, NEW pc, NEW copy, Steps(h, pc, copy), pc \notin GrantPcs,
         pc \in EndingPcs \/ Token(h) \notin ended
  PROVE  SessionInv'
<1>1. PICK t : t = Token(h)
  OBVIOUS
<1>2. ended' = ended
  BY DEF sessionVars
<1>3. JobSettled(h)
  BY <1>1, <1>2, Settled DEF GrantPcs
<1> QED
  BY <1>3, QuietStep

LEMMA QuietEnds ==
  ASSUME Typed, SessionInv, NEW h \in Handlers, Working(h), jobs[h].pc \in TokenPcs,
         UNCHANGED sessionVars, Finish(h)
  PROVE  SessionInv'
<1>1. Leaves(h)
  BY StepEnds
<1>2. JobSettled(h)
  BY <1>1 DEF Leaves, JobSettled
<1> QED
  BY <1>1, <1>2, QuietStep

LEMMA LoadedSteps ==
  ASSUME Typed, NEW h \in Handlers, Working(h), NEW record, Loaded(h, record)
  PROVE  \E pc \in {"renew", "expire", "fill"} : \E copy : Steps(h, pc, copy)
  BY StepGoes DEF Loaded

\* A token that was ended is not being used.
LEMMA NotEnded ==
  ASSUME Typed, SessionInv, NEW h \in Handlers, Working(h), jobs[h].pc \in TokenPcs,
         NEW t, t = Token(h),
         jobs[h].pc \notin EndingPcs \/ ~Ended(t)
  PROVE  t \notin ended
  BY TokenKnown DEF JobEnds, SessionInv, Token

LEMMA FindPcs ==
  /\ {"lookup", "read", "readRaw", "migrate", "dropRaw", "fill", "renew", "expire", "serve",
      "erase", "forget", "renewed"} \subseteq TokenPcs
  /\ EndingPcs = {"lookup", "read", "readRaw", "erase", "forget"}
  /\ GrantPcs = {"keep", "erase", "forget", "readRaw", "migrate", "dropRaw"}
  BY DEF TokenPcs, LoadPcs, RecordPcs, ProfilePcs, EndingPcs, GrantPcs

LEMMA ReadingSessions ==
  ASSUME Typed, SessionInv, NEW h \in Handlers, ReadStore(h) \/ ReadRawKey(h)
  PROVE  SessionInv'
<1>1. PICK j, t : j = jobs[h] /\ t = Token(h)
  OBVIOUS
<1>2. Working(h) /\ j.pc \in {"read", "readRaw"} /\ UNCHANGED sessionVars
  BY <1>1 DEF ReadStore, ReadRawKey, At
<1>3. j.pc \in TokenPcs /\ t \in Tokens /\ JobGrants(j)
  BY <1>1, <1>2, FindPcs, TokenKnown
<1>4. ended' = ended /\ granted' = granted /\ rawKeys' = rawKeys
  BY <1>2 DEF sessionVars
<1>5. ASSUME NEW pc, NEW copy, Steps(h, pc, copy)
      PROVE  Live(t)' => Live(t)
  BY <1>4, <1>5 DEF Live, Steps
<1>6. \A c : UNCHANGED mix => (Covers(c, t)' <=> Covers(c, t))
  BY <1>4 DEF Covers, Until
<1>7. CASE ReadStore(h) /\ sessions[t] = None
  <2>1. Steps(h, "readRaw", j.copy)
    BY <1>1, <1>2, <1>7, StepGoes DEF ReadStore
  <2>2. Live(t) => rawKeys[t] = None \/ Covers(rawKeys[t], t)
    BY <1>3, <1>7 DEF SessionInv, Granting, Held, Covers
  <2>3. Live(t)' => rawKeys'[t] = None \/ Covers(rawKeys[t], t)'
    BY <1>4, <1>5, <1>6, <2>1, <2>2 DEF Steps
  <2>4. JobSettled(h)
    BY <1>1, <2>1, <2>3, Settled, FindPcs
  <2> QED
    BY <1>1, <1>2, <1>3, <2>1, <2>4, QuietStep
<1>8. CASE ReadStore(h) /\ sessions[t] # None
  <2>1. PICK record : Loaded(h, record)
    BY <1>1, <1>8 DEF ReadStore
  <2>2. PICK pc \in {"renew", "expire", "fill"} : \E copy : Steps(h, pc, copy)
    BY <1>2, <2>1, LoadedSteps
  <2>3. t \notin ended
    BY <1>1, <1>2, <1>3, <1>8, NotEnded DEF Ended
  <2> QED
    BY <1>1, <1>2, <1>3, <2>2, <2>3, QuietSteps, FindPcs
<1>9. CASE ReadRawKey(h) /\ Finish(h)
  BY <1>1, <1>2, <1>3, <1>9, QuietEnds
<1>10. CASE ReadRawKey(h) /\ ~Finish(h)
  <2>1. j.pc = "readRaw" /\ rawKeys[t] # None /\ GoWith(h, "migrate", rawKeys[t])
    BY <1>1, <1>10 DEF ReadRawKey, At
  <2>2. PICK c : c = rawKeys[t]
    OBVIOUS
  <2>3. Steps(h, "migrate", c)
    BY <1>2, <2>1, <2>2, StepGoes
  <2>4. Live(t) => Covers(c, t)
    BY <1>1, <1>3, <2>1, <2>2 DEF JobGrants, Token
  <2>5. Live(t)' => Covers(c, t)'
    BY <1>5, <1>6, <2>3, <2>4 DEF Steps
  <2>6. t \notin ended
    BY <1>1, <1>2, <1>3, <2>1, NotEnded DEF Ended
  <2>7. JobSettled(h)
    BY <1>1, <1>4, <2>3, <2>5, <2>6, Settled
  <2> QED
    BY <1>1, <1>2, <1>3, <2>3, <2>7, QuietStep
<1> QED
  BY <1>7, <1>8, <1>9, <1>10

\* A token of which nothing but the record in the cache changes, or that is
\* no longer given.
LEMMA OwnStays ==
  ASSUME Typed, SessionInv, NEW t \in Tokens, UNCHANGED <<now, mix>>, Gentle(t),
         granted'[t] \in {granted[t], None}, issued \subseteq issued',
         t \in ended' => t \in ended /\ cache'[t] = None
  PROVE  Owns(t)
<1>1. Granting /\ Longest' = Longest /\ Lmdb' = Lmdb
  BY DEF SessionInv, Longest, Lmdb
<1>2. granted'[t] # None => granted'[t] <= Longest /\ t \in issued'
  BY <1>1 DEF Granting
<1>3. ASSUME Live(t)' PROVE Held(t)'
  <2>1. granted'[t] = granted[t] /\ Live(t) /\ Held(t)
    BY <1>1, <1>3 DEF Live, Granting
  <2>2. \A r : Covers(r, t)' <=> Covers(r, t)
    BY <2>1 DEF Covers, Until
  <2>3. sessions[t] # None => sessions'[t] = sessions[t]
    <3>1. ASSUME sessions[t] # None PROVE now < Until(sessions[t])
      BY <2>1, <3>1, RecordsAre DEF Live, Held, Covers
    <3> QED
      BY <3>1, NotPast DEF Gentle
  <2>4. sessions[t] = None => sessions'[t] = None
    BY DEF Gentle, Past
  <2>5. CASE Lmdb
    BY <1>1, <2>1, <2>2, <2>3, <2>4, <2>5 DEF Held, Gentle
  <2>6. CASE ~Lmdb
    <3>1. Covers(sessions[t], t) /\ Covers(disk[t], t)
      BY <2>1, <2>6 DEF Held
    <3>2. Covers(sessions'[t], t) /\ Covers(disk'[t], t)
      BY <2>3, <3>1 DEF Gentle, Covers
    <3> QED
      BY <1>1, <2>2, <2>6, <3>2 DEF Held
  <2> QED
    BY <2>5, <2>6
<1>4. t \in ended' => Ended(t)'
  BY DEF SessionInv, Ended, Gentle, Past, IsExpired
<1> QED
  BY <1>2, <1>3, <1>4 DEF Owns

LEMMA LookupSessions ==
  ASSUME Typed, SessionInv, NEW h \in Handlers, LookupCache(h)
  PROVE  SessionInv'
<1>1. PICK j, t, record : j = jobs[h] /\ t = Token(h) /\ record = cache[t]
  OBVIOUS
<1>2. /\ Working(h) /\ j.pc = "lookup" /\ UNCHANGED <<storeVars, cache, issued, ended, doubtful>>
      /\ granted' = granted \/ granted' = [granted EXCEPT ![t] = None]
  BY <1>1 DEF LookupCache, At, endedVars
<1>3. j.pc \in TokenPcs /\ t \in Tokens
  BY <1>1, <1>2, FindPcs, TokenKnown
<1>4. record # None => t \notin ended
  BY <1>1, <1>2, <1>3, NotEnded DEF Ended
<1>5. granted \in [Tokens -> Nat \cup {None}]
  BY DEF Typed, SessionsTyped
<1>6. /\ \A x \in Tokens \ {t} : SameToken(x)
      /\ granted'[t] \in {granted[t], None}
  BY <1>2, <1>3, <1>5 DEF SameToken
<1>7. (\E pc, copy : Steps(h, pc, copy)) /\ JobSettled(h)
  <2>1. CASE record = None
    <3>1. Steps(h, "read", j.copy)
      BY <1>1, <1>2, <2>1, StepGoes DEF LookupCache
    <3> QED
      BY <1>1, <3>1, Settled, FindPcs
  <2>2. CASE record # None /\ j.phase = "update"
    <3>1. Steps(h, "renew", record)
      BY <1>1, <1>2, <2>2, StepGoes DEF LookupCache
    <3> QED
      BY <1>1, <1>2, <1>4, <2>2, <3>1, Settled, FindPcs
  <2>3. CASE record # None /\ j.phase # "update" /\ IsExpired(record)
    <3>1. Steps(h, "erase", j.copy)
      BY <1>1, <1>2, <2>3, StepGoes DEF LookupCache
    <3>2. granted'[t] = None
      BY <1>1, <1>3, <1>5, <2>3 DEF LookupCache
    <3> QED
      BY <1>1, <3>1, <3>2, Settled, FindPcs
  <2>4. CASE record # None /\ j.phase # "update" /\ ~IsExpired(record)
    <3>1. PICK p : p = record.principal /\ GoWith(h, "serve", p)
      BY <1>1, <2>4 DEF LookupCache
    <3>2. Steps(h, "serve", p)
      BY <1>2, <3>1, StepGoes
    <3> QED
      BY <1>1, <1>2, <1>4, <2>4, <3>2, Settled, FindPcs
  <2> QED
    BY <2>1, <2>2, <2>3, <2>4
<1>8. UNCHANGED <<now, mix>>
  BY <1>7 DEF Steps
<1>9. Indexed' /\ Files' /\ \A x \in Tokens : Gentle(x)
  BY <1>2, <1>8, StoreQuiet
<1>10. Owns(t)
  <2>1. t \in ended' => t \in ended /\ cache'[t] = None
    BY <1>2 DEF SessionInv, Ended
  <2> QED
    BY <1>2, <1>3, <1>6, <1>8, <1>9, <2>1, OwnStays
<1>11. rawKeys'[t] = rawKeys[t] /\ sessions' = sessions
  BY <1>2 DEF storeVars
<1> QED
  BY <1>1, <1>2, <1>3, <1>6, <1>7, <1>9, <1>10, <1>11, TokenStep

LEMMA FillSessions ==
  ASSUME Typed, SessionInv, NEW h \in Handlers, FillCache(h) \/ Renewed(h)
  PROVE  SessionInv'
<1>1. PICK j, t : j = jobs[h] /\ t = Token(h)
  OBVIOUS
<1>2. /\ Working(h) /\ j.pc \in {"fill", "renewed"} /\ cache' = [cache EXCEPT ![t] = j.copy]
      /\ UNCHANGED <<storeVars, granted, issued, ended, doubtful>>
  BY <1>1 DEF FillCache, Renewed, Remember, At, endedVars
<1>3. j.pc \in TokenPcs /\ t \in Tokens
  BY <1>1, <1>2, FindPcs, TokenKnown
<1>4. t \notin ended
  BY <1>1, <1>2, <1>3, NotEnded, FindPcs
<1>5. cache \in [Tokens -> SessionRecords \cup {None}]
  BY DEF Typed, SessionsTyped
<1>6. \A x \in Tokens \ {t} : SameToken(x)
  BY <1>2, <1>5 DEF SameToken
<1>7. (Leaves(h) \/ (\E pc, copy : Steps(h, pc, copy))) /\ JobSettled(h)
  <2>1. CASE FillCache(h)
    <3>1. PICK p : GoWith(h, "serve", p)
      BY <2>1 DEF FillCache
    <3>2. Steps(h, "serve", p)
      BY <1>2, <3>1, StepGoes
    <3> QED
      BY <1>1, <1>2, <1>4, <3>2, Settled, FindPcs
  <2>2. CASE Renewed(h)
    <3>1. Leaves(h)
      BY <2>2, StepEnds DEF Renewed
    <3> QED
      BY <3>1 DEF Leaves, JobSettled
  <2> QED
    BY <2>1, <2>2
<1>8. UNCHANGED <<now, mix>>
  BY <1>7 DEF Steps, Leaves
<1>9. Indexed' /\ Files' /\ \A x \in Tokens : Gentle(x)
  BY <1>2, <1>8, StoreQuiet
<1>10. Owns(t)
  BY <1>2, <1>3, <1>4, <1>8, <1>9, OwnStays
<1>11. rawKeys' = rawKeys /\ sessions' = sessions
  BY <1>2 DEF storeVars
<1> QED
  BY <1>1, <1>2, <1>3, <1>4, <1>6, <1>7, <1>9, <1>10, <1>11, TokenStep

\* A session that is stored covers what was given.
LEMMA PutOwn ==
  ASSUME Typed, SessionInv, UNCHANGED <<now, mix, doubtful>>, NEW t \in Tokens,
         NEW record \in SessionRecords, NEW ok \in BOOLEAN, StorePut(t, record, ok),
         t \in issued', t \notin ended', granted'[t] # None => granted'[t] <= Longest,
         Live(t)' => granted'[t] <= Until(record), ~ok => granted'[t] = granted[t]
  PROVE  Owns(t) /\ (Live(t)' /\ sessions[t] # None => sessions'[t] # None)
<1>1. /\ rawKeys' = rawKeys
      /\ ok \/ ~Lmdb => sessions'[t] # None /\ sessions'[t].expires = record.expires
      /\ ok => disk'[t] = sessions'[t]
      /\ ~ok => disk'[t] = disk[t] /\ (Lmdb => sessions' = sessions)
  BY PutEffect DEF SessionInv
<1>2. Lmdb' = Lmdb
  BY DEF Lmdb
<1>3. PICK s, d : s = sessions'[t] /\ d = disk[t]
  OBVIOUS
<1>4. Live(t)' /\ (ok \/ ~Lmdb) => Covers(s, t)'
  BY <1>1, <1>3 DEF Covers, Until
<1>5. \A r : ~ok /\ Covers(r, t) => Covers(r, t)'
  BY DEF Covers, Until
<1>6. Live(t)' /\ ~ok => Held(t)
  BY DEF Live, SessionInv, Granting
<1>7. ASSUME Live(t)' PROVE Held(t)'
  <2>1. CASE ok /\ Lmdb
    BY <1>1, <1>2, <1>3, <1>4, <1>7, <2>1 DEF Held
  <2>2. CASE ok /\ ~Lmdb
    <3>1. disk'[t] = s /\ sessions'[t] = s /\ Covers(s, t)'
      BY <1>1, <1>3, <1>4, <1>7, <2>2
    <3> QED
      BY <1>2, <2>2, <3>1 DEF Held
  <2>3. CASE ~ok /\ Lmdb
    BY <1>1, <1>2, <1>5, <1>6, <1>7, <2>3 DEF Held
  <2>4. CASE ~ok /\ ~Lmdb
    <3>1. disk'[t] = d /\ sessions'[t] = s /\ Covers(s, t)' /\ Covers(d, t)'
      BY <1>1, <1>3, <1>4, <1>5, <1>6, <1>7, <2>4 DEF Held
    <3> QED
      BY <1>2, <2>4, <3>1 DEF Held
  <2> QED
    BY <2>1, <2>2, <2>3, <2>4
<1> QED
  BY <1>1, <1>7 DEF Owns

LEMMA MigrateSessions ==
  ASSUME Typed, SessionInv, NEW h \in Handlers, MigrateRawKey(h)
  PROVE  SessionInv'
<1>1. PICK j, t : j = jobs[h] /\ t = Token(h)
  OBVIOUS
<1>2. /\ Working(h) /\ j.pc = "migrate" /\ UNCHANGED <<cache, granted, issued, ended, doubtful>>
  BY <1>1 DEF MigrateRawKey, At, endedVars
<1>3. PICK ok \in BOOLEAN : /\ StorePut(t, j.copy, ok)
                            /\ IF ok THEN Go(h, "dropRaw") ELSE Finish(h)
  BY <1>1 DEF MigrateRawKey
<1>4. j.pc \in TokenPcs /\ t \in Tokens /\ t \in issued /\ JobGrants(j) /\ j.copy \in SessionRecords
  BY <1>1, <1>2, FindPcs, TokenKnown, TokenJobIs DEF Carries, RecordPcs
<1>5. t \notin ended
  BY <1>1, <1>2, <1>4, NotEnded, FindPcs
<1>6. ok => Steps(h, "dropRaw", j.copy)
  BY <1>1, <1>2, <1>3, StepGoes
<1>7. ~ok => Leaves(h)
  BY <1>3, StepEnds
<1>8. UNCHANGED <<now, mix, doubtful>>
  BY <1>2, <1>6, <1>7 DEF Steps, Leaves
<1>9. Live(t)' => granted'[t] <= Until(j.copy)
  BY <1>1, <1>2, <1>4, <1>8 DEF JobGrants, Live, Covers, Token
<1>10. granted'[t] # None => granted'[t] <= Longest
  BY <1>2, <1>4 DEF SessionInv, Granting
<1>11. Owns(t) /\ (Live(t)' /\ sessions[t] # None => sessions'[t] # None)
  BY <1>2, <1>3, <1>4, <1>5, <1>8, <1>9, <1>10, PutOwn
<1>12. /\ Indexed' /\ Files' /\ rawKeys' = rawKeys /\ \A x \in Tokens \ {t} : Gentle(x)
       /\ ok => sessions'[t] # None
  BY <1>3, <1>4, <1>8, PutEffect DEF SessionInv
<1>13. JobSettled(h)
  <2>1. CASE ok
    BY <1>1, <1>2, <1>5, <1>6, <1>12, <2>1, Settled
  <2>2. CASE ~ok
    BY <1>7, <2>2 DEF Leaves, JobSettled
  <2> QED
    BY <2>1, <2>2
<1>14. \A x \in Tokens \ {t} : SameToken(x)
  BY <1>2 DEF SameToken
<1> QED
  BY <1>1, <1>2, <1>4, <1>6, <1>7, <1>11, <1>12, <1>13, <1>14, TokenStep

LEMMA DropSessions ==
  ASSUME Typed, SessionInv, NEW h \in Handlers, DropRawKey(h)
  PROVE  SessionInv'
<1>1. PICK j, t : j = jobs[h] /\ t = Token(h)
  OBVIOUS
<1>2. /\ Working(h) /\ j.pc = "dropRaw" /\ rawKeys' = [rawKeys EXCEPT ![t] = None]
      /\ UNCHANGED <<sessions, expiry, disk, cache, granted, issued, ended, doubtful>>
  BY <1>1 DEF DropRawKey, At, endedVars
<1>3. j.pc \in TokenPcs /\ t \in Tokens /\ JobGrants(j)
  BY <1>1, <1>2, FindPcs, TokenKnown
<1>4. t \notin ended
  BY <1>1, <1>2, <1>3, NotEnded, FindPcs
<1>5. PICK pc \in {"renew", "expire", "fill"} : \E copy : Steps(h, pc, copy)
  BY <1>1, <1>2, LoadedSteps DEF DropRawKey
<1>6. UNCHANGED <<now, mix>> /\ Lmdb' = Lmdb
  BY <1>5 DEF Steps, Lmdb
<1>7. rawKeys \in [Tokens -> SessionRecords \cup {None}]
  BY DEF Typed, SessionsTyped
<1>8. rawKeys'[t] = None /\ \A x \in Tokens \ {t} : rawKeys'[x] = rawKeys[x]
  BY <1>2, <1>3, <1>7
<1>9. \A x \in Tokens \ {t} : Gentle(x) /\ SameToken(x)
  BY <1>2, <1>8 DEF Gentle, SameToken
<1>10. Indexed' /\ Files'
  <2>1. Indexed'
    BY <1>2 DEF SessionInv, Indexed
  <2>2. rawKeys = [x \in Tokens |-> None] => rawKeys' = rawKeys
    BY <1>2, <1>3
  <2> QED
    BY <1>2, <1>6, <2>1, <2>2 DEF SessionInv, Files, IsExpired
<1>11. JobSettled(h)
  BY <1>1, <1>2, <1>4, <1>5, Settled, FindPcs
<1>12. Owns(t)
  <2>1. granted'[t] # None => granted'[t] <= Longest /\ t \in issued'
    BY <1>2, <1>3 DEF SessionInv, Granting
  <2>2. ASSUME Live(t)' PROVE Held(t)'
    <3>1. Live(t) /\ Held(t)
      BY <1>2, <1>3, <1>6, <2>2 DEF Live, SessionInv, Granting
    <3>2. sessions[t] # None
      BY <1>1, <1>2, <1>3, <3>1 DEF JobGrants, Token
    <3>3. \A r : Covers(r, t) => Covers(r, t)'
      BY <1>2, <1>6 DEF Covers, Until
    <3> QED
      BY <1>2, <1>6, <3>1, <3>2, <3>3 DEF Held
  <2> QED
    BY <1>2, <1>4, <2>1, <2>2 DEF Owns
<1> QED
  BY <1>1, <1>2, <1>3, <1>4, <1>5, <1>8, <1>9, <1>10, <1>11, <1>12, TokenStep

LEMMA Lasts ==
  ASSUME Typed, NEW p
  PROVE  Until(SessionRecord(p)) = Longest
<1>1. now \in Nat
  BY AccessAssumption DEF Typed
<1>2. Ttl # None => now + Ttl # None
  BY <1>1, SessionsAssumption, AccessAssumption
<1> QED
  BY <1>2 DEF Until, Longest, SessionRecord

LEMMA RenewSessions ==
  ASSUME Typed, SessionInv, NEW h \in Handlers, Renew(h)
  PROVE  SessionInv'
<1>1. PICK j, t : j = jobs[h] /\ t = Token(h)
  OBVIOUS
<1>2. /\ Working(h) /\ j.pc = "renew" /\ UNCHANGED <<cache, issued, ended, doubtful>>
  BY <1>1 DEF Renew, At, endedVars
<1>3. PICK record : record = SessionRecord(j.arg.principal)
  OBVIOUS
<1>4. PICK ok \in BOOLEAN :
        /\ StorePut(t, record, ok)
        /\ IF ok THEN GoWith(h, "renewed", record) ELSE Finish(h)
        /\ granted' = IF ok /\ j.alone /\ granted[t] # None
                      THEN [granted EXCEPT ![t] = Until(record)] ELSE granted
  BY <1>1, <1>3 DEF Renew
<1>5. /\ j.pc \in TokenPcs /\ t \in Tokens /\ t \in issued /\ j.arg.principal \in Principals
  BY <1>1, <1>2, FindPcs, TokenKnown, TokenJobIs DEF Carries, ProfilePcs
<1>6. record \in SessionRecords
  BY <1>3, <1>5, RecordTyped
<1>7. t \notin ended
  BY <1>1, <1>2, <1>5, NotEnded, FindPcs
<1>8. ok => Steps(h, "renewed", record)
  BY <1>1, <1>2, <1>4, StepGoes
<1>9. ~ok => Leaves(h)
  BY <1>4, StepEnds
<1>10. UNCHANGED <<now, mix, doubtful>>
  BY <1>2, <1>8, <1>9 DEF Steps, Leaves
<1>11. Until(record) = Longest
  BY <1>3, Lasts
<1>12. granted \in [Tokens -> Nat \cup {None}] /\ Until(record) \in Nat
  BY <1>6, UntilTyped DEF Typed, SessionsTyped
<1>13. /\ granted'[t] \in {granted[t], None} \/ (granted[t] # None /\ j.alone)
       /\ granted'[t] # None => granted'[t] <= Until(record)
       /\ ~ok => granted'[t] = granted[t]
       /\ \A x \in Tokens \ {t} : granted'[x] = granted[x]
  BY <1>4, <1>5, <1>11, <1>12 DEF SessionInv, Granting
<1>14. Owns(t) /\ (Live(t)' /\ sessions[t] # None => sessions'[t] # None)
  <2>1. Live(t)' => granted'[t] <= Until(record)
    BY <1>13 DEF Live
  <2> QED
    BY <1>2, <1>4, <1>5, <1>6, <1>7, <1>10, <1>11, <1>13, <2>1, PutOwn
<1>15. Indexed' /\ Files' /\ rawKeys' = rawKeys /\ \A x \in Tokens \ {t} : Gentle(x)
  BY <1>4, <1>5, <1>6, <1>10, PutEffect DEF SessionInv
<1>16. JobSettled(h)
  <2>1. CASE ok
    BY <1>1, <1>2, <1>7, <1>8, <2>1, Settled
  <2>2. CASE ~ok
    BY <1>9, <2>2 DEF Leaves, JobSettled
  <2> QED
    BY <2>1, <2>2
<1>17. \A x \in Tokens \ {t} : SameToken(x)
  BY <1>2, <1>13 DEF SameToken
<1> QED
  BY <1>1, <1>2, <1>5, <1>8, <1>9, <1>13, <1>14, <1>15, <1>16, <1>17, TokenStep

LEMMA ExpireSessions ==
  ASSUME Typed, SessionInv, NEW h \in Handlers, ExpireStored(h)
  PROVE  SessionInv'
<1>1. PICK j, t : j = jobs[h] /\ t = Token(h)
  OBVIOUS
<1>2. /\ Working(h) /\ j.pc = "expire" /\ UNCHANGED <<cache, issued, ended>>
      /\ granted' = [granted EXCEPT ![t] = None]
  BY <1>1 DEF ExpireStored, At
<1>3. PICK ok \in BOOLEAN :
        StoreDelete(t, ok) /\ doubtful' = IF ok THEN doubtful ELSE doubtful \cup {t}
  BY <1>1 DEF ExpireStored, Doubt
<1>4. j.pc \in TokenPcs /\ t \in Tokens
  BY <1>1, <1>2, FindPcs, TokenKnown
<1>5. t \notin ended
  BY <1>1, <1>2, <1>4, NotEnded, FindPcs
<1>6. Leaves(h)
  BY StepEnds DEF ExpireStored
<1>7. UNCHANGED <<now, mix>>
  BY <1>6 DEF Leaves
<1>8. /\ Indexed' /\ Files' /\ \A x \in Tokens \ {t} : Gentle(x)
      /\ rawKeys'[t] \in {rawKeys[t], None}
  BY <1>3, <1>4, <1>7, DeleteEffect DEF SessionInv
<1>9. granted'[t] = None /\ \A x \in Tokens \ {t} : granted'[x] = granted[x]
  BY <1>2, <1>4 DEF Typed, SessionsTyped
<1>10. \A x \in Tokens \ {t} : SameToken(x)
  BY <1>2, <1>3, <1>9 DEF SameToken
<1>11. ~Live(t)' /\ Owns(t)
  BY <1>2, <1>5, <1>9 DEF Live, Owns
<1>12. JobSettled(h)
  BY <1>6 DEF Leaves, JobSettled
<1> QED
  BY <1>1, <1>2, <1>3, <1>4, <1>5, <1>6, <1>8, <1>9, <1>10, <1>11, <1>12, TokenStep

LEMMA EraseSessions ==
  ASSUME Typed, SessionInv, NEW h \in Handlers, Erase(h)
  PROVE  SessionInv'
<1>1. PICK j, t : j = jobs[h] /\ t = Token(h)
  OBVIOUS
<1>2. Working(h) /\ j.pc = "erase" /\ UNCHANGED <<cache, issued, granted, ended>>
  BY <1>1 DEF Erase, At
<1>3. PICK ok \in BOOLEAN :
        StoreDelete(t, ok) /\ doubtful' = IF ok THEN doubtful ELSE doubtful \cup {t}
  BY <1>1 DEF Erase, Doubt
<1>4. j.pc \in TokenPcs /\ t \in Tokens /\ t \in issued /\ JobGrants(j)
  BY <1>1, <1>2, FindPcs, TokenKnown
<1>5. granted'[t] = None
  BY <1>1, <1>2, <1>4 DEF JobGrants, Token
<1>6. Steps(h, "forget", j.copy)
  BY <1>1, <1>2, StepGoes DEF Erase, Go
<1>7. UNCHANGED <<now, mix>>
  BY <1>6 DEF Steps
<1>8. /\ Indexed' /\ Files' /\ \A x \in Tokens \ {t} : Gentle(x)
      /\ sessions'[t] \in {sessions[t], None} /\ rawKeys'[t] \in {rawKeys[t], None}
      /\ disk'[t] \in {disk[t], None}
      /\ ok => /\ sessions'[t] = None /\ rawKeys'[t] = None
               /\ disk'[t] = None \/ IsExpired(disk'[t]) \/ t \in doubtful
  BY <1>3, <1>4, <1>7, DeleteEffect DEF SessionInv
<1>9. \A x \in Tokens \ {t} : SameToken(x)
  BY <1>2, <1>3 DEF SameToken
<1>10. t \in ended' => Ended(t)'
  BY <1>2, <1>4, <1>7, <1>8 DEF SessionInv, Ended, IsExpired
<1>11. ~Live(t)' /\ Owns(t)
  BY <1>5, <1>10 DEF Live, Owns
<1>12. t \notin doubtful' => Nowhere(t)'
  BY <1>3, <1>7, <1>8 DEF Nowhere, IsExpired
<1>13. JobSettled(h)
  BY <1>1, <1>5, <1>6, <1>12, Settled, FindPcs
<1> QED
  BY <1>1, <1>2, <1>3, <1>4, <1>6, <1>8, <1>9, <1>11, <1>13, TokenStep

LEMMA ForgetSessions ==
  ASSUME Typed, SessionInv, NEW h \in Handlers, EraseCached(h)
  PROVE  SessionInv'
<1>1. PICK j, t : j = jobs[h] /\ t = Token(h)
  OBVIOUS
<1>2. /\ Working(h) /\ j.pc = "forget" /\ UNCHANGED <<storeVars, issued, granted, doubtful>>
      /\ cache' = [cache EXCEPT ![t] = None]
      /\ ended' = IF j.op = "logout" /\ j.alone /\ t \notin doubtful
                  THEN ended \cup {t} ELSE ended
  BY <1>1 DEF EraseCached, At, Forget
<1>3. j.pc \in TokenPcs /\ t \in Tokens /\ t \in issued /\ JobGrants(j) /\ JobEnds(j)
  BY <1>1, <1>2, FindPcs, TokenKnown
<1>4. granted'[t] = None
  BY <1>1, <1>2, <1>3 DEF JobGrants, Token
<1>5. Leaves(h)
  BY StepEnds DEF EraseCached
<1>6. UNCHANGED <<now, mix>>
  BY <1>5 DEF Leaves
<1>7. Indexed' /\ Files' /\ \A x \in Tokens : Gentle(x)
  BY <1>2, <1>6, StoreQuiet
<1>8. cache'[t] = None /\ \A x \in Tokens \ {t} : cache'[x] = cache[x]
  BY <1>2, <1>3 DEF Typed, SessionsTyped
<1>9. \A x \in Tokens \ {t} : SameToken(x)
  BY <1>2, <1>8 DEF SameToken
<1>10. UNCHANGED <<sessions, rawKeys, disk>>
  BY <1>2 DEF storeVars
<1>11. ASSUME t \in ended' PROVE Ended(t)'
  <2>1. Nowhere(t)
    BY <1>1, <1>2, <1>3, <1>11 DEF SessionInv, Ended, JobEnds, Nowhere, Token
  <2> QED
    BY <1>2, <1>3, <1>6, <1>8, <1>10, <2>1 DEF Nowhere, Ended, IsExpired
<1>12. ~Live(t)' /\ Owns(t)
  BY <1>4, <1>11 DEF Live, Owns
<1>13. JobSettled(h)
  BY <1>5 DEF Leaves, JobSettled
<1> QED
  BY <1>1, <1>2, <1>3, <1>5, <1>7, <1>9, <1>10, <1>12, <1>13, TokenStep

\* Profiles, asking with a token, and being given one.
LEMMA ProfileSessions ==
  ASSUME Typed, SessionInv, NEW h \in Handlers, ProfileSteps(h)
  PROVE  SessionInv'
<1>1. PICK j, t : j = jobs[h] /\ t = Token(h)
  OBVIOUS
<1>2. /\ Working(h) /\ UNCHANGED sessionVars
      /\ j.pc \in {"serve", "refresh", "upload", "prefs", "migratePrefs", "putPrefs"}
  BY <1>1 DEF ProfileSteps, ServeProfile, Refresh, Upload, GetPrefs, MigratePrefs, StorePrefs, At
<1>3. j.pc \in TokenPcs /\ j.pc \notin EndingPcs
  BY <1>2 DEF TokenPcs, ProfilePcs, EndingPcs
<1>4. t \notin ended
  BY <1>1, <1>2, <1>3, NotEnded
<1>5. Profiled(h)
  BY ProfileTyped
<1>6. CASE Finish(h)
  BY <1>1, <1>2, <1>3, <1>6, QuietEnds
<1>7. CASE ~Finish(h)
  <2>1. PICK pc, p, copy, phase :
          /\ pc \in ProfilePcs \cup {"lookup"}
          /\ Continue(h, Moved(jobs[h], pc, [token |-> Token(h), principal |-> p], copy, phase))
    BY <1>5, <1>7 DEF Profiled
  <2>2. PICK a : a = [token |-> Token(h), principal |-> p]
    OBVIOUS
  <2>3. a.token = Token(h) /\ Continue(h, Moved(jobs[h], pc, a, copy, phase))
    BY <2>1, <2>2
  <2>4. Steps(h, pc, copy)
    BY <1>2, <2>3, StepMoves
  <2>5. pc \notin GrantPcs
    BY <2>1 DEF ProfilePcs, GrantPcs
  <2> QED
    BY <1>1, <1>2, <1>3, <1>4, <2>4, <2>5, QuietSteps
<1> QED
  BY <1>6, <1>7

LEMMA LogoutSessions ==
  ASSUME Typed, SessionInv, NEW h \in Handlers, NEW t \in issued, Logout(h, t)
  PROVE  SessionInv'
<1>1. PICK arg : arg = [token |-> t] /\ Begin(h, "logout", "erase", {t}, arg)
  BY DEF Logout
<1>2. PICK k : k = NewJob(h, "logout", "erase", {t}, arg)
  OBVIOUS
<1>3. k.pc = "erase" /\ k.arg.token = t
  BY <1>1, <1>2, NewJobIs
<1>4. OthersKept(h) /\ UNCHANGED <<now, mix>> /\ jobs'[h] = k
  BY <1>1, <1>2, Begins
<1>5. Alone'
  BY <1>1, AloneBegins DEF SessionInv
<1>6. /\ granted' = [granted EXCEPT ![t] = None]
      /\ UNCHANGED <<storeVars, cache, issued, ended, doubtful>>
  BY DEF Logout, endedVars
<1>7. t \in Tokens
  BY DEF Typed, SessionsTyped
<1>8. granted'[t] = None /\ \A x \in Tokens \ {t} : granted'[x] = granted[x]
  BY <1>6, <1>7 DEF Typed, SessionsTyped
<1>9. Indexed' /\ Files' /\ \A x \in Tokens : Gentle(x)
  BY <1>4, <1>6, StoreQuiet
<1>10. \A x \in Tokens \ {t} : SameToken(x)
  BY <1>6, <1>8 DEF SameToken
<1>11. UNCHANGED <<sessions, rawKeys, disk>>
  BY <1>6 DEF storeVars
<1>12. Shared(h, t)
  BY <1>6, <1>8, <1>11 DEF Shared
<1>13. Effect(h, t)
  BY <1>4, <1>6, <1>7, <1>9, <1>10, <1>12 DEF Effect
<1>14. Owns(t)
  <2>1. t \in ended' => t \in ended /\ cache'[t] = None
    BY <1>6 DEF SessionInv, Ended
  <2> QED
    BY <1>4, <1>6, <1>7, <1>8, <1>9, <2>1, OwnStays
<1>15. JobSettled(h)
  <2>1. JobGrants(k)'
    BY <1>3, <1>8 DEF JobGrants
  <2>2. JobEnds(k)'
    BY <1>3, FindPcs DEF JobEnds
  <2> QED
    BY <1>4, <2>1, <2>2 DEF JobSettled
<1> QED
  BY <1>5, <1>13, <1>14, <1>15, Settles

LEMMA AskSessions ==
  ASSUME Typed, SessionInv, NEW h \in Handlers, UNCHANGED sessionVars,
         NEW op, NEW keys, NEW arg, Begin(h, op, "lookup", keys, arg)
  PROVE  SessionInv'
<1>1. OldToken \in Tokens
  BY SessionsAssumption
<1>2. PICK k : k = NewJob(h, op, "lookup", keys, arg)
  OBVIOUS
<1>3. k.pc = "lookup"
  BY <1>2, NewJobIs
<1>4. OthersKept(h) /\ UNCHANGED <<now, mix>> /\ jobs'[h] = k
  BY <1>2, Begins
<1>5. Alone'
  BY AloneBegins DEF SessionInv
<1>6. JobSettled(h)
  BY <1>3, <1>4, PlainJob, FindPcs
<1> QED
  BY <1>1, <1>4, <1>5, <1>6, Undisturbed, Settles

LEMMA AskingSessions ==
  ASSUME Typed, SessionInv, NEW h \in Handlers, Asking(h)
  PROVE  SessionInv'
<1>1. CASE \E t \in issued : Logout(h, t)
  BY <1>1, LogoutSessions
<1>2. CASE \E t \in issued, op \in ProfileOps : Ask(h, op, t)
  BY <1>2, AskSessions DEF Ask
<1>3. CASE \E t \in issued, c \in DOMAIN Capabilities : AskAct(h, t, c)
  BY <1>3, AskSessions DEF AskAct
<1> QED
  BY <1>1, <1>2, <1>3 DEF Asking

LEMMA StoredSessions ==
  ASSUME Typed, SessionInv, NEW h \in Handlers, CreateStored(h)
  PROVE  SessionInv'
<1>1. PICK j, record : j = jobs[h] /\ record = SessionRecord(j.copy)
  OBVIOUS
<1>2. Working(h) /\ j.pc = "create" /\ UNCHANGED <<cache, issued, granted, ended, doubtful>>
  BY <1>1 DEF CreateStored, At, endedVars
<1>3. OpenJob(j) /\ record \in SessionRecords /\ Until(record) = Longest
  BY <1>1, <1>2, JobOf, RecordTyped, Lasts DEF OpenJob, SessionJob
<1>4. PICK t \in Fresh, ok \in BOOLEAN :
        /\ StorePut(t, record, ok)
        /\ IF ok THEN Continue(h, [jobs[h] EXCEPT !.pc = "keep", !.keys = {t}, !.copy = record])
           ELSE Finish(h)
  BY <1>1 DEF CreateStored
<1>5. t \in Tokens \ issued /\ \A g \in Handlers : ~On(g, {t})
  BY <1>4 DEF Fresh
<1>6. granted'[t] = None /\ t \notin ended'
  BY <1>2, <1>5 DEF SessionInv, Granting, Ended
<1>7. PICK k : k = [j EXCEPT !.pc = "keep", !.keys = {t}, !.copy = record]
  OBVIOUS
<1>8. k.pc = "keep" /\ k.keys = {t} /\ k.copy = record
  <2>1. k = Keeping(j, t, record)
    BY <1>3, <1>7 DEF OpenJob, IsJob, Keeping
  <2> QED
    BY <1>3, <1>5, <2>1, KeepOpen
<1>9. IF ok THEN Continue(h, k) ELSE Leaves(h)
  BY <1>1, <1>4, <1>7, StepEnds
<1>10. ok => OthersKept(h) /\ UNCHANGED <<now, mix>> /\ jobs'[h] = k /\ Alone'
  BY <1>5, <1>8, <1>9, Continues, AloneContinues DEF SessionInv
<1>11. OthersKept(h) /\ UNCHANGED <<now, mix, doubtful>> /\ Alone'
  BY <1>2, <1>9, <1>10 DEF Leaves, SessionInv
<1>12. /\ Indexed' /\ Files' /\ \A x \in Tokens \ {t} : Gentle(x)
       /\ ok => /\ sessions'[t] # None /\ sessions'[t].expires = record.expires
                /\ disk'[t] = sessions'[t]
  BY <1>3, <1>4, <1>5, <1>11, PutEffect DEF SessionInv
<1>13. Effect(h, t)
  <2>1. \A x \in Tokens : SameToken(x)
    BY <1>2 DEF SameToken
  <2>2. \A g \in Handlers \ {h} : At(g, "keep") => jobs[g].keys # {t}
    BY <1>5 DEF At, On
  <2> QED
    BY <1>2, <1>5, <1>11, <1>12, <2>1, <2>2 DEF Effect
<1>14. Owns(t)
  BY <1>6 DEF Owns, Live
<1>15. JobSettled(h)
  <2>1. CASE ok
    <3>1. PICK s : s = sessions'[t]
      OBVIOUS
    <3>2. s # None /\ s.expires = record.expires /\ disk'[t] = s
      BY <1>12, <2>1, <3>1
    <3>3. Until(record)' = Until(record) /\ Longest' = Longest /\ Lmdb' = Lmdb
      BY <1>11 DEF Until, Longest, Lmdb
    <3>4. Until(record) <= Longest
      BY <1>3, UntilTyped
    <3>5. JobGrants(k)'
      BY <1>6, <1>8, <1>11, <3>1, <3>2, <3>3, <3>4 DEF JobGrants
    <3>6. JobEnds(k)'
      BY <1>8, TokenPcsAre DEF JobEnds
    <3> QED
      BY <1>10, <2>1, <3>5, <3>6 DEF JobSettled
  <2>2. CASE ~ok
    BY <1>9, <2>2 DEF Leaves, JobSettled
  <2> QED
    BY <2>1, <2>2
<1> QED
  BY <1>11, <1>13, <1>14, <1>15, Settles

LEMMA CachedSessions ==
  ASSUME Typed, SessionInv, NEW h \in Handlers, CreateCached(h)
  PROVE  SessionInv'
<1>1. PICK j : j = jobs[h]
  OBVIOUS
<1>2. Working(h) /\ j.pc = "keep" /\ UNCHANGED <<storeVars, ended, doubtful>>
  BY <1>1 DEF CreateCached, At, endedVars
<1>3. SessionJob(j) /\ JobGrants(j)
  BY <1>1, <1>2, JobOf DEF OpenJob, SessionInv
<1>4. PICK t \in Tokens \ issued : j.keys = {t}
  BY <1>2, <1>3 DEF SessionJob
<1>5. (CHOOSE x \in j.keys : TRUE) = t
  BY <1>4
<1>6. /\ cache' = [cache EXCEPT ![t] = j.copy]
      /\ granted' = [granted EXCEPT ![t] = Until(j.copy)]
      /\ issued' = issued \cup {t}
  BY <1>1, <1>5 DEF CreateCached, Remember
<1>7. Leaves(h)
  BY StepEnds DEF CreateCached
<1>8. OthersKept(h) /\ UNCHANGED <<now, mix>> /\ Alone' /\ JobSettled(h)
  BY <1>7 DEF Leaves, JobSettled, SessionInv
<1>9. Indexed' /\ Files' /\ \A x \in Tokens : Gentle(x)
  BY <1>2, <1>8, StoreQuiet
<1>10. /\ granted'[t] = Until(j.copy)
       /\ \A x \in Tokens \ {t} : granted'[x] = granted[x] /\ cache'[x] = cache[x]
  BY <1>4, <1>6 DEF Typed, SessionsTyped
<1>11. \A x \in Tokens \ {t} : SameToken(x)
  BY <1>2, <1>6, <1>10 DEF SameToken
<1>12. Effect(h, t)
  <2>1. \A g \in Handlers \ {h} : At(g, "keep") => jobs[g].keys # {t}
    BY <1>1, <1>2, <1>4 DEF Typed, TokensDiffer, At
  <2> QED
    BY <1>2, <1>4, <1>6, <1>8, <1>9, <1>11, <2>1 DEF Effect
<1>13. /\ Until(j.copy) <= Longest
       /\ now < Until(j.copy) => /\ sessions[t] # None /\ sessions[t].expires = j.copy.expires
                                 /\ ~Lmdb => disk[t] # None /\ disk[t].expires = j.copy.expires
  BY <1>2, <1>3, <1>4 DEF JobGrants
<1>14. UNCHANGED <<sessions, rawKeys, disk>> /\ Lmdb' = Lmdb
  BY <1>2, <1>8 DEF storeVars, Lmdb
<1>15. Until(j.copy) \in Nat
  BY <1>2, <1>3, UntilTyped DEF SessionJob
<1>16. Owns(t)
  <2>1. ASSUME Live(t)' PROVE Held(t)'
    <3>1. now < Until(j.copy)
      BY <1>8, <1>10, <2>1 DEF Live
    <3>2. PICK s, d : s = sessions[t] /\ d = disk[t]
      OBVIOUS
    <3>3. s # None /\ s.expires = j.copy.expires /\ (~Lmdb => d # None /\ d.expires = j.copy.expires)
      BY <1>13, <3>1, <3>2
    <3>4. \A r : r # None /\ r.expires = j.copy.expires => Covers(r, t)'
      BY <1>8, <1>10, <1>15 DEF Covers, Until
    <3> QED
      BY <1>14, <3>2, <3>3, <3>4 DEF Held
  <2>2. t \notin ended'
    BY <1>2, <1>4 DEF SessionInv, Ended
  <2>3. granted'[t] <= Longest /\ t \in issued'
    BY <1>6, <1>10, <1>13
  <2> QED
    BY <2>1, <2>2, <2>3 DEF Owns
<1> QED
  BY <1>8, <1>12, <1>16, Settles

-----------------------------------------------------------------------------
\* The clock, restarts and the first state.
LEMMA TickSessions ==
  ASSUME Typed, SessionInv, Tick, UNCHANGED sessionVars
  PROVE  SessionInv'
<1>1. /\ UNCHANGED <<jobs, mix, sessions, rawKeys, expiry, disk, cache, issued, granted, ended, doubtful>>
      /\ now' = now + 1
  BY DEF Tick, sessionVars
<1>2. now \in Nat /\ Lmdb' = Lmdb
  BY <1>1, AccessAssumption DEF Typed, Lmdb
<1>3. Alone' /\ Indexed'
  BY <1>1 DEF SessionInv, Alone, On, Working, Indexed
<1>4. \A t \in Tokens : disk[t] # None /\ IsExpired(disk[t]) => IsExpired(disk[t])'
  BY <1>1, <1>2, RecordsAre, AccessAssumption DEF IsExpired
<1>5. Files'
  BY <1>1, <1>2, <1>4 DEF SessionInv, Files
<1>6. Longest \in Nat /\ Longest <= Longest' /\ Longest' \in Nat
  BY <1>1, <1>2, SessionsAssumption, AccessAssumption DEF Longest, Typed
<1>7. \A t : \A r : Covers(r, t)' <=> Covers(r, t)
  BY <1>1 DEF Covers, Until
<1>8. \A t \in Tokens : Live(t)' => Live(t)
  BY <1>1, <1>2, RecordsAre DEF Live
<1>9. \A t \in Tokens : Held(t) => Held(t)'
  BY <1>1, <1>2, <1>7 DEF Held
<1>10. Granting'
  <2>1. ASSUME NEW t \in Tokens, granted'[t] # None PROVE granted'[t] <= Longest' /\ t \in issued'
    <3>1. granted[t] <= Longest /\ t \in issued /\ granted[t] \in Nat
      BY <1>1, <2>1, RecordsAre DEF SessionInv, Granting
    <3> QED
      BY <1>1, <1>6, <3>1
  <2>2. \A t \in Tokens : Live(t)' => Held(t)'
    BY <1>8, <1>9 DEF SessionInv, Granting
  <2> QED
    BY <2>1, <2>2 DEF Granting
<1>11. \A t \in ended' : Ended(t)'
  <2>1. ASSUME NEW t \in ended PROVE Ended(t)'
    <3>1. t \in Tokens /\ Ended(t)
      BY DEF SessionInv, Ended, Typed, SessionsTyped
    <3> QED
      BY <1>1, <1>4, <3>1 DEF Ended
  <2> QED
    BY <1>1, <2>1
<1>12. ASSUME NEW h \in Handlers, Working(h)' PROVE JobGrants(jobs[h])' /\ JobEnds(jobs[h])'
  <2>1. PICK j : j = jobs[h]
    OBVIOUS
  <2>2. Working(h) /\ SessionJob(j) /\ JobGrants(j) /\ JobEnds(j)
    BY <1>1, <1>12, <2>1, JobOf DEF Working, OpenJob, SessionInv
  <2>3. JobGrants(j)'
    <3>1. CASE j.pc = "keep"
      <4>1. PICK s \in Tokens \ issued : j.keys = {s}
        BY <2>2, <3>1 DEF SessionJob
      <4>2. Until(j.copy) \in Nat /\ Until(j.copy)' = Until(j.copy)
        BY <1>1, <2>2, <3>1, UntilTyped DEF SessionJob, Until
      <4>3. Until(j.copy) <= Longest'
        BY <1>6, <2>2, <3>1, <4>1, <4>2 DEF JobGrants
      <4> QED
        BY <1>1, <1>2, <2>2, <3>1, <4>1, <4>2, <4>3 DEF JobGrants
    <3>2. CASE j.pc \in TokenPcs
      <4>1. j.arg.token \in Tokens
        BY <2>2, <3>2 DEF SessionJob, Typed, SessionsTyped
      <4>2. j.pc # "keep"
        BY <3>2, TokenPcsAre
      <4> QED
        BY <1>1, <1>7, <1>8, <2>2, <4>1, <4>2 DEF JobGrants
    <3>3. CASE j.pc \notin TokenPcs \cup {"keep"}
      BY <3>3, FindPcs DEF JobGrants
    <3> QED
      BY <3>1, <3>2, <3>3
  <2>4. JobEnds(j)'
    <3>1. CASE j.pc \in TokenPcs
      <4>1. j.arg.token \in Tokens
        BY <2>2, <3>1 DEF SessionJob, Typed, SessionsTyped
      <4> QED
        BY <1>1, <1>4, <2>2, <4>1 DEF JobEnds
    <3>2. CASE j.pc \notin TokenPcs
      BY <3>2, FindPcs DEF JobEnds
    <3> QED
      BY <3>1, <3>2
  <2> QED
    BY <1>1, <2>1, <2>3, <2>4
<1> QED
  BY <1>3, <1>5, <1>10, <1>11, <1>12 DEF SessionInv

LEMMA RestartSessions ==
  ASSUME Typed, SessionInv, Restart
  PROVE  SessionInv'
<1>1. /\ jobs' = [h \in Handlers |-> Idle] /\ UNCHANGED <<now, mix>>
      /\ UNCHANGED <<rawKeys, expiry, disk, issued, granted, ended, doubtful>>
      /\ cache' = [t \in Tokens |-> None]
      /\ sessions' = IF Lmdb THEN sessions
                     ELSE [t \in Tokens |-> IF disk[t] # None /\ IsExpired(disk[t])
                                            THEN None ELSE disk[t]]
  BY DEF Restart, Stopped, SessionsRestart, endedVars
<1>2. \A h \in Handlers : ~Working(h)'
  BY <1>1 DEF Working, Idle
<1>3. Lmdb' = Lmdb /\ now \in Nat
  BY <1>1, AccessAssumption DEF Lmdb, Typed
<1>4. Alone'
  BY <1>2 DEF Alone, On
<1>5. Indexed'
  BY <1>1 DEF SessionInv, Indexed, Files
<1>6. \A r : IsExpired(r)' <=> IsExpired(r)
  BY <1>1 DEF IsExpired
<1>7. ASSUME ~Lmdb, NEW t \in Tokens
      PROVE  sessions'[t] = IF disk[t] # None /\ IsExpired(disk[t]) THEN None ELSE disk[t]
  BY <1>1, <1>7
<1>8. Files'
  <2>1. ASSUME ~Lmdb, NEW t \in Tokens, disk[t] # None
        PROVE  IsExpired(disk[t])' \/ sessions'[t] # None
    BY <1>1, <1>6, <1>7, <2>1
  <2> QED
    BY <1>1, <1>3, <1>6, <2>1 DEF SessionInv, Files
<1>9. Granting'
  <2>1. Longest' = Longest
    BY <1>1 DEF Longest
  <2>2. \A t : \A r : Covers(r, t)' <=> Covers(r, t)
    BY <1>1 DEF Covers, Until
  <2>3. ASSUME NEW t \in Tokens, Live(t)' PROVE Held(t)'
    <3>1. Live(t) /\ Held(t)
      BY <1>1, <2>3 DEF Live, SessionInv, Granting
    <3>2. CASE Lmdb
      BY <1>1, <1>3, <2>2, <3>1, <3>2 DEF Held
    <3>3. CASE ~Lmdb
      <4>1. Covers(disk[t], t) /\ disk[t] # None
        BY <3>1, <3>3 DEF Held, Covers
      <4>2. ~IsExpired(disk[t])
        BY <3>1, <4>1, RecordsAre DEF Live, Covers, Until, IsExpired
      <4>3. sessions'[t] = disk[t]
        BY <1>7, <3>3, <4>2
      <4> QED
        BY <1>1, <1>3, <2>2, <3>3, <4>1, <4>3 DEF Held
    <3> QED
      BY <3>2, <3>3
  <2> QED
    BY <1>1, <2>1, <2>3 DEF SessionInv, Granting
<1>10. \A t \in ended' : Ended(t)'
  <2>1. ASSUME NEW t \in ended PROVE Ended(t)'
    <3>1. t \in Tokens /\ Ended(t)
      BY DEF SessionInv, Ended, Typed, SessionsTyped
    <3>2. sessions'[t] = None
      BY <1>1, <1>7, <3>1 DEF Ended
    <3>3. cache'[t] = None
      BY <1>1, <3>1
    <3> QED
      BY <1>1, <1>6, <3>1, <3>2, <3>3 DEF Ended
  <2> QED
    BY <1>1, <2>1
<1> QED
  BY <1>2, <1>4, <1>5, <1>8, <1>9, <1>10 DEF SessionInv

LEMMA SessionsStep ==
  ASSUME Typed, SessionInv, [Next]_accessVars
  PROVE  SessionInv'
<1>1. ASSUME NEW h \in Handlers, SessionNext(h) PROVE SessionInv'
  <2>1. SessionStep(h) \/ Asking(h)
    BY <1>1 DEF SessionNext, Asking
  <2>2. CASE CreateStored(h) \/ CreateCached(h) \/ Asking(h) \/ ProfileSteps(h)
    BY <2>2, StoredSessions, CachedSessions, AskingSessions, ProfileSessions
  <2>3. CASE Finding(h)
    BY <2>3, LookupSessions, ReadingSessions, MigrateSessions, DropSessions, FillSessions
       DEF Finding
  <2>4. CASE Ending(h)
    BY <2>4, ExpireSessions, EraseSessions, ForgetSessions, RenewSessions, FillSessions DEF Ending
  <2> QED
    BY <2>1, <2>2, <2>3, <2>4 DEF SessionStep, Finding, Ending, ProfileSteps, Asking
<1>2. ASSUME NEW h \in Handlers, OtherNext(h) PROVE SessionInv'
  BY <1>2, MovesElsewhere, ElsewhereSessions DEF OtherNext
<1>3. CASE Rest
  BY <1>3, TickSessions, RestartSessions DEF Rest
<1>4. CASE UNCHANGED accessVars
  <2>1. UNCHANGED <<jobs, now, mix, sessions, rawKeys, expiry, disk, cache, issued, granted, ended, doubtful>>
    BY <1>4 DEF accessVars, requestVars, sessionVars
  <2> QED
    BY <2>1 DEF SessionInv, Alone, On, Working, Indexed, Files, Lmdb, IsExpired, Granting,
                Longest, Live, Held, Covers, Until, Ended, JobGrants, JobEnds
<1> QED
  BY <1>1, <1>2, <1>3, <1>4, NextIs

LEMMA SessionsBegin ==
  ASSUME Init
  PROVE  SessionInv
<1>1. mix \in Mixes /\ now = 0 /\ jobs = [h \in Handlers |-> Idle] /\ SessionsInit
  BY DEF Init, RequestsInit
<1>2. PICK old : old = [principal |-> mix.person, expires |-> Ttl]
  OBVIOUS
<1>3. /\ sessions = [t \in Tokens |-> IF t = OldToken THEN IF Lmdb THEN None ELSE old ELSE None]
      /\ disk = sessions
      /\ rawKeys = [t \in Tokens |-> IF t = OldToken THEN IF Lmdb THEN old ELSE None ELSE None]
      /\ expiry = {} /\ ended = {} /\ issued = {OldToken}
      /\ granted = [t \in Tokens |-> IF t = OldToken THEN Until(old) ELSE None]
  BY <1>1, <1>2 DEF SessionsInit
<1>4. old.expires = Ttl /\ old # None /\ mix.clock \in Nat
  <2>1. old \in SessionRecords
    BY <1>1, <1>2, RecordsAssumption, SessionsAssumption DEF SessionRecords, RecordsOf, Principals
  <2> QED
    BY <1>1, <1>2, <2>1, NoRecord, AccessAssumption
<1>5. Until(old) = Longest /\ Longest \in Nat
  BY <1>1, <1>4, SessionsAssumption, AccessAssumption DEF Until, Longest
<1>6. \A h \in Handlers : ~Working(h)
  BY <1>1 DEF Working, Idle
<1>7. Alone /\ Indexed
  BY <1>3, <1>6 DEF Alone, On, Indexed
<1>8. Files
  BY <1>3 DEF Files
<1>9. Granting
  <2>1. \A t \in Tokens : granted[t] # None => granted[t] <= Longest /\ t \in issued
    BY <1>3, <1>5
  <2>2. ASSUME NEW t \in Tokens, Live(t) PROVE Held(t)
    <3>1. t = OldToken /\ granted[t] = Until(old)
      BY <1>3, <2>2 DEF Live
    <3>2. Covers(old, t)
      BY <1>4, <1>5, <3>1 DEF Covers
    <3>3. IF Lmdb THEN sessions[t] = None /\ rawKeys[t] = old ELSE sessions[t] = old /\ disk[t] = old
      BY <1>3, <3>1
    <3> QED
      BY <3>2, <3>3 DEF Held
  <2> QED
    BY <2>1, <2>2 DEF Granting
<1> QED
  BY <1>3, <1>6, <1>7, <1>8, <1>9 DEF SessionInv

LEMMA SessionsAre ==
  ASSUME Typed, SessionInv
  PROVE  SessionsEndProperly
<1>1. ASSUME NEW t \in ended
      PROVE  /\ {sessions[t], rawKeys[t], cache[t]} = {None}
             /\ disk[t] = None \/ IsExpired(Decode(disk[t]))
  <2>1. Ended(t) /\ t \in Tokens
    BY DEF SessionInv, Ended, Typed, SessionsTyped
  <2>2. disk[t] # None => Decode(disk[t]).expires = disk[t].expires
    BY <2>1, DecodeTyped DEF Typed, SessionsTyped
  <2> QED
    BY <2>1, <2>2 DEF Ended, IsExpired
<1>2. ASSUME NEW t \in Tokens, granted[t] # None, now < granted[t]
      PROVE  sessions[t] # None \/ rawKeys[t] # None
  BY <1>2 DEF SessionInv, Granting, Live, Held, Covers
<1> QED
  BY <1>1, <1>2 DEF SessionsEndProperly

(* A token whose logout was answered is nowhere any more, but for an       *)
(* expired record in the file, and one that nobody logged out is in the    *)
(* store until the time it was last given, whatever else is stored,        *)
(* purged, renewed, migrated or lost with the cache, on either store and   *)
(* with any number of requests (core/session/manager, core/session/store). *)
THEOREM SessionsEnd == Spec => []SessionsEndProperly
<1>1. Init => Typed /\ SessionInv
  BY InitTyped, SessionsBegin
<1>2. Typed /\ SessionInv /\ [Next]_accessVars => Typed' /\ SessionInv'
  BY TypedStep, SessionsStep
<1>3. Typed /\ SessionInv => SessionsEndProperly
  BY SessionsAre
<1> QED
  BY <1>1, <1>2, <1>3, PTL DEF Spec

-----------------------------------------------------------------------------
(***************************************************************************)
(* Where the steps of each kind of request lead.                           *)
(***************************************************************************)
GroupPcs == {"parentRow", "row", "refused", "item", "promote", "promoteParent", "place"}
RolePcs == {"invalid", "putRole", "roles", "putAssignment", "judge", "granted"}
SettingPcs == {"lock", "readKey", "writeKey", "runtime", "settings"}
KeeperPcs == {"werkaState", "werkaCode", "put", "config", "identity", "persist", "settings",
              "compare", "create"}
PushPcs == {"register", "unregister", "list", "token", "send", "stale"}
PersonPcs == AdminWaits \cup {"create"}

Lands(h, pcs) ==
  OthersKept(h) /\ UNCHANGED mix /\ (Working(h)' => jobs'[h].pc \in pcs)
\* A request that goes on stays the one it is.
Remains(h) ==
  Working(h) /\ Working(h)' =>
    jobs'[h].op = jobs[h].op /\ jobs'[h].keys = jobs[h].keys /\ jobs'[h].alone = jobs[h].alone
Leads(h, pcs) == Lands(h, pcs) /\ Remains(h)

LEMMA LandsAt ==
  ASSUME Typed, NEW h \in Handlers, Working(h), NEW pc, NEW copy, NEW arg, NEW phase,
         NEW pcs, pc \in pcs
  PROVE  /\ Go(h, pc) => Leads(h, pcs)
         /\ GoWith(h, pc, copy) => Leads(h, pcs)
         /\ Continue(h, Moved(jobs[h], pc, arg, copy, phase)) => Leads(h, pcs)
<1>1. ASSUME NEW a, NEW c, NEW p, Continue(h, Moved(jobs[h], pc, a, c, p)) PROVE Leads(h, pcs)
  <2>1. PICK k : k = Moved(jobs[h], pc, a, c, p)
    OBVIOUS
  <2>2. k.pc = pc /\ k.op = jobs[h].op /\ k.keys = jobs[h].keys /\ k.alone = jobs[h].alone
    BY <2>1, MovedIs
  <2>3. OthersKept(h) /\ jobs'[h] = k /\ UNCHANGED mix
    BY <1>1, <2>1, Continues
  <2> QED
    BY <2>2, <2>3 DEF Leads, Lands, Remains
<1> QED
  BY <1>1, Goes

LEMMA LandsIdle ==
  ASSUME Typed, NEW h \in Handlers, Finish(h)
  PROVE  /\ \A pcs : Leads(h, pcs)
         /\ ~Working(h)' /\ \A g \in Handlers \ {h} : jobs'[g] = jobs[g]
<1>1. Continue(h, Idle)
  BY DEF Finish
<1>2. OthersKept(h) /\ jobs'[h] = Idle /\ UNCHANGED mix /\ \A g \in Handlers \ {h} : jobs'[g] = jobs[g]
  BY <1>1, Continues
<1>3. ~Working(h)'
  BY <1>2 DEF Working, Idle
<1> QED
  BY <1>2, <1>3 DEF Leads, Lands, Remains

LEMMA LandsFirst ==
  ASSUME Typed, NEW h \in Handlers, NEW op, NEW pc, NEW keys, NEW arg, Begin(h, op, pc, keys, arg),
         NEW pcs, pc \in pcs
  PROVE  Leads(h, pcs)
<1>1. OthersKept(h) /\ jobs'[h] = NewJob(h, op, pc, keys, arg) /\ UNCHANGED mix /\ ~Working(h)
  BY Begins
<1>2. jobs'[h].pc = pc
  BY <1>1, NewJobIs
<1> QED
  BY <1>1, <1>2 DEF Leads, Lands, Remains

\* Requests about item groups.
LEMMA GroupsLand ==
  ASSUME Typed, NEW h \in Handlers, GroupStep(h)
  PROVE  Leads(h, GroupPcs)
<1>1. CASE \/ \E g \in Groups, p \in Groups \cup {Root}, mark \in BOOLEAN : AskCreateGroup(h, g, p, mark)
           \/ \E g \in Groups, p \in Groups \cup {Root} : AskMoveGroup(h, g, p)
           \/ \E items \in SUBSET GroupItems, g \in Groups : AskMoveItems(h, items, g)
  <2>1. PICK op, pc, keys, arg : Begin(h, op, pc, keys, arg) /\ pc \in GroupPcs
    BY <1>1 DEF AskCreateGroup, AskMoveGroup, AskMoveItems, GroupPcs
  <2> QED
    BY <2>1, LandsFirst
<1>2. CASE Refused(h) \/ GroupFails(h)
  BY <1>2, LandsIdle DEF Refused, GroupFails
<1>3. CASE ReadRow(h) \/ Promote(h) \/ ReadParent(h) \/ PromoteParent(h) \/ Place(h)
  <2>1. Working(h) /\ (Finish(h) \/ \E pc \in GroupPcs : Go(h, pc))
    BY <1>3 DEF ReadRow, Promote, ReadParent, PromoteParent, Place, GroupPcs, At
  <2> QED
    BY <2>1, LandsIdle, LandsAt
<1>4. CASE MoveItem(h)
  <2>1. CASE Finish(h)
    BY <2>1, LandsIdle
  <2>2. CASE ~Finish(h)
    <3>1. Working(h) /\ jobs[h].pc = "item"
      BY <1>4 DEF MoveItem, At
    <3>2. PICK v : Continue(h, [jobs[h] EXCEPT !.arg.items = v])
      BY <1>4, <2>2 DEF MoveItem
    <3>3. PICK j : j = jobs[h]
      OBVIOUS
    <3>4. IsJob(j) /\ j.pc = "item"
      BY <3>1, <3>3, JobOf
    <3>5. PICK k : k = [j EXCEPT !.arg.items = v]
      OBVIOUS
    <3>6. k.pc = "item" /\ k.op = j.op /\ k.keys = j.keys /\ k.alone = j.alone
      BY <3>4, <3>5 DEF IsJob
    <3>7. OthersKept(h) /\ jobs'[h] = k /\ UNCHANGED mix
      BY <3>2, <3>3, <3>5, Continues
    <3> QED
      BY <3>3, <3>6, <3>7 DEF Leads, Lands, Remains, GroupPcs
  <2> QED
    BY <2>1, <2>2
<1> QED
  BY <1>1, <1>2, <1>3, <1>4 DEF GroupStep

\* Requests about roles.
LEMMA RolesLand ==
  ASSUME Typed, NEW h \in Handlers
  PROVE  /\ RoleStep(h) => Leads(h, RolePcs)
         /\ \A id, caps : AskRole(h, id, caps) => Leads(h, RolePcs)
         /\ \A role, ref, id : AskAssignment(h, role, ref, id) => Leads(h, RolePcs)
<1>1. ASSUME RoleStep(h) PROVE Leads(h, RolePcs)
  <2>1. Working(h) /\ (Finish(h) \/ \E pc \in RolePcs : Go(h, pc) \/ \E copy : GoWith(h, pc, copy))
    BY <1>1 DEF RoleStep, Invalid, PutRole, CheckRole, PutAssignment, Authorize, Judge, Act, RolePcs, At
  <2> QED
    BY <2>1, LandsIdle, LandsAt
<1>2. ASSUME NEW id, NEW caps, AskRole(h, id, caps) PROVE Leads(h, RolePcs)
  <2>1. PICK pc, keys, arg : Begin(h, "putRole", pc, keys, arg) /\ pc \in RolePcs
    BY <1>2 DEF AskRole, BeginRole, RolePcs
  <2> QED
    BY <2>1, LandsFirst
<1>3. ASSUME NEW role, NEW ref, NEW id, AskAssignment(h, role, ref, id) PROVE Leads(h, RolePcs)
  <2>1. PICK keys, arg : Begin(h, "assignRole", "roles", keys, arg) /\ "roles" \in RolePcs
    BY <1>3 DEF AskAssignment, BeginRole, RolePcs
  <2> QED
    BY <2>1, LandsFirst
<1> QED
  BY <1>1, <1>2, <1>3

\* Requests about devices.
LEMMA PushLands ==
  ASSUME Typed, NEW h \in Handlers, PushStep(h)
  PROVE  Leads(h, PushPcs)
<1>1. CASE \/ \E op \in {"register", "unregister"}, p \in People, d \in Devices : AskPush(h, op, p, d)
           \/ \E p \in People : AskSend(h, p)
  <2>1. PICK op, pc, keys, arg : Begin(h, op, pc, keys, arg) /\ pc \in PushPcs
    BY <1>1 DEF AskPush, AskSend, PushPcs
  <2> QED
    BY <2>1, LandsFirst
<1>2. CASE \/ Register(h) \/ Unregister(h) \/ ListDevices(h) \/ AccessToken(h) \/ SendOne(h)
           \/ DropStale(h)
  <2>1. Working(h) /\ (Finish(h) \/ \E pc \in PushPcs : Go(h, pc) \/ \E copy : GoWith(h, pc, copy))
    <3>1. CASE Register(h) \/ Unregister(h)
      BY <1>2, <3>1 DEF Register, Unregister, At
    <3>2. CASE ListDevices(h)
      BY <3>2 DEF ListDevices, PushPcs, At
    <3>3. CASE AccessToken(h)
      BY <3>3 DEF AccessToken, PushPcs, At
    <3>4. CASE SendOne(h)
      BY <3>4 DEF SendOne, PushPcs, At
    <3>5. CASE DropStale(h)
      BY <3>5 DEF DropStale, PushPcs, At
    <3> QED
      BY <1>2, <3>1, <3>2, <3>3, <3>4, <3>5
  <2> QED
    BY <2>1, LandsIdle, LandsAt
<1> QED
  BY <1>1, <1>2 DEF PushStep

\* Requests about settings.
LEMMA SettingsLand ==
  ASSUME Typed, NEW h \in Handlers, UpdateStep(h)
  PROVE  Leads(h, SettingPcs)
<1>1. CASE \E name \in Names, key \in {"", "k2"} : AskUpdate(h, name, key)
  <2>1. PICK op, pc, keys, arg : Begin(h, op, pc, keys, arg) /\ pc \in SettingPcs
    BY <1>1 DEF AskUpdate, SettingPcs
  <2> QED
    BY <2>1, LandsFirst
<1>2. CASE Update(h) \/ WriteCredentials(h) \/ CredentialsFail(h) \/ Runtime(h) \/ ReadSettings(h)
  <2>1. Working(h) /\ (Finish(h) \/ \E pc \in SettingPcs : Go(h, pc))
    BY <1>2 DEF Update, WriteCredentials, CredentialsFail, Runtime, ReadSettings, SettingPcs, At
  <2> QED
    BY <2>1, LandsIdle, LandsAt
<1>3. CASE ReadCredentials(h)
  <2>1. Working(h) /\ Continue(h, [jobs[h] EXCEPT !.pc = "writeKey", !.arg.key = credentials])
    BY <1>3 DEF ReadCredentials, At
  <2>2. [jobs[h] EXCEPT !.pc = "writeKey", !.arg.key = credentials]
          = Moved(jobs[h], "writeKey", [jobs[h].arg EXCEPT !.key = credentials], jobs[h].copy,
                  jobs[h].phase)
    BY <2>1, JobOf, ArgExcept
  <2>3. "writeKey" \in SettingPcs
    BY DEF SettingPcs
  <2> QED
    BY <2>1, <2>2, <2>3, LandsAt
<1> QED
  BY <1>1, <1>2, <1>3 DEF UpdateStep

\* Requests about people; a new code of the warehouse keeper goes on from here.
KeeperStored(h) ==
  /\ Leads(h, {"config"}) /\ Working(h) /\ jobs[h].op = "regenerateWerka"
  /\ jobs[h].pc \in {"put", "write"}

LEMMA PeopleLand ==
  ASSUME Typed, NEW h \in Handlers, AdminStep(h) \/ AdminBegin(h)
  PROVE  Leads(h, PersonPcs) \/ KeeperStored(h)
<1>1. CASE AdminBegin(h)
  <2>1. PICK op, pc, keys, arg : Begin(h, op, pc, keys, arg) /\ pc \in PersonPcs
    <3>1. CASE \E op, r, arg : AskSupplier(h, op, r, arg)
      BY <3>1 DEF AskSupplier, BeginState, PersonPcs, AdminWaits
    <3>2. CASE \E op, r, arg : AskCustomer(h, op, r, arg)
      BY <3>2 DEF AskCustomer, BeginState, PersonPcs, AdminWaits
    <3>3. CASE \E r, p : AskNewSupplier(h, r, p)
      BY <3>3 DEF AskNewSupplier, BeginState, PersonPcs, AdminWaits
    <3>4. CASE \E r : AskLogin(h, r)
      BY <3>4 DEF AskLogin, PersonPcs, AdminWaits
    <3>5. \/ \E op, r, arg : AskSupplier(h, op, r, arg) \/ AskCustomer(h, op, r, arg)
          \/ \E r, p : AskNewSupplier(h, r, p)
          \/ \E r : AskLogin(h, r)
      BY <1>1, Zenon DEF AdminBegin
    <3> QED
      BY <3>1, <3>2, <3>3, <3>4, <3>5
  <2> QED
    BY <2>1, LandsFirst
<1>2. ASSUME NEW pc \in PersonPcs, NEW k, Continue(h, k), IsJob(k), k.pc = pc,
             k.op = jobs[h].op, k.keys = jobs[h].keys, k.alone = jobs[h].alone
      PROVE  Leads(h, PersonPcs)
  <2>1. OthersKept(h) /\ jobs'[h] = k /\ UNCHANGED mix
    BY <1>2, Continues
  <2> QED
    BY <1>2, <2>1 DEF Leads, Lands, Remains
<1>10. ASSUME NEW arg, NEW pc \in PersonPcs, Working(h), GoAsking(h, pc, arg)
      PROVE  Leads(h, PersonPcs)
  <2>1. PICK j : j = jobs[h]
    OBVIOUS
  <2>2. IsJob(j)
    BY <1>10, <2>1, JobOf
  <2>3. PICK k : k = [j EXCEPT !.pc = pc, !.arg = arg]
    OBVIOUS
  <2>4. IsJob(k) /\ k.pc = pc /\ k.op = j.op /\ k.keys = j.keys /\ k.alone = j.alone
    BY <2>2, <2>3 DEF IsJob
  <2>5. Continue(h, k)
    BY <1>10, <2>1, <2>3 DEF GoAsking
  <2> QED
    BY <1>2, <2>1, <2>4, <2>5
<1>12. CASE KnownItems(h)
  <2>1. Working(h) /\ "sync" \in PersonPcs
    <3>1. Working(h)
      BY <1>12, Zenon DEF KnownItems, At
    <3> QED
      BY <3>1 DEF PersonPcs, AdminWaits
  <2>2. CASE Finish(h)
    BY <2>1, <2>2, LandsIdle
  <2>3. CASE \E arg : GoAsking(h, "sync", arg)
    BY <1>10, <2>1, <2>3
  <2> QED
    BY <1>12, <2>2, <2>3, Zenon DEF KnownItems
<1>13. CASE SyncItems(h)
  <2>1. Working(h) /\ {"sync", "rows", "restate"} \subseteq PersonPcs
    <3>1. Working(h)
      BY <1>13, Zenon DEF SyncItems, At
    <3> QED
      BY <3>1 DEF PersonPcs, AdminWaits
  <2>2. CASE Go(h, "restate")
    BY <2>1, <2>2, LandsAt
  <2>3. CASE \E arg : GoAsking(h, "sync", arg) \/ GoAsking(h, "rows", arg)
    BY <1>10, <2>1, <2>3
  <2> QED
    BY <1>13, <2>2, <2>3, Zenon DEF SyncItems
<1>14. CASE CustomerCode(h)
  <2>1. Working(h) /\ "put" \in PersonPcs
    <3>1. Working(h)
      BY <1>14, Zenon DEF CustomerCode, At
    <3> QED
      BY <3>1 DEF PersonPcs, AdminWaits
  <2>2. PICK c : Continue(h, [jobs[h] EXCEPT !.pc = "put", !.arg.code = c, !.copy.code = c])
    BY <1>14, Zenon DEF CustomerCode
  <2>3. PICK j : j = jobs[h]
    OBVIOUS
  <2>4. IsJob(j)
    BY <2>1, <2>3, JobOf
  <2>5. PICK k : k = [j EXCEPT !.pc = "put", !.arg.code = c, !.copy.code = c]
    OBVIOUS
  <2>6. IsJob(k) /\ k.pc = "put" /\ k.op = j.op /\ k.keys = j.keys /\ k.alone = j.alone
    BY <2>4, <2>5 DEF IsJob
  <2>7. Continue(h, k)
    BY <2>2, <2>3, <2>5
  <2> QED
    BY <1>2, <2>1, <2>3, <2>6, <2>7
<1>3. CASE Entry(h) \/ SupplierState(h) \/ InsertRow(h) \/ ReadRows(h) \/ DeleteRows(h)
  <2>1. Working(h) /\ (Finish(h) \/ \E pc \in PersonPcs : Go(h, pc) \/ \E copy : GoWith(h, pc, copy))
    <3>1. CASE Entry(h) \/ InsertRow(h) \/ ReadRows(h)
      BY <3>1 DEF Entry, InsertRow, ReadRows, PersonPcs, AdminWaits, At
    <3>2. CASE DeleteRows(h)
      BY <3>2 DEF DeleteRows, DeleteRow, PersonPcs, AdminWaits, At
    <3>3. CASE SupplierState(h)
      <4>1. jobs[h].op \in SupplierOps /\ SupplierNext(h, StateFor(Ref(h))) /\ Working(h)
        BY <3>3 DEF SupplierState, At
      <4> QED
        BY <4>1 DEF SupplierNext, SupplierOps, PersonPcs, AdminWaits
    <3> QED
      BY <1>3, <3>1, <3>2, <3>3
  <2> QED
    BY <2>1, LandsIdle, LandsAt
<1>4. CASE Restate(h) \/ WriteFile(h) \/ (PutState(h) /\ Lmdb)
  <2>1. CASE Working(h) /\ (Finish(h) \/ \E pc \in PersonPcs : Go(h, pc) \/ \E copy : GoWith(h, pc, copy))
    BY <2>1, LandsIdle, LandsAt
  <2>2. CASE Working(h) /\ Go(h, "config") /\ jobs[h].op = "regenerateWerka" /\ jobs[h].pc \in {"put", "write"}
    BY <2>2, LandsAt DEF KeeperStored
  <2> QED
    BY <1>4, <2>1, <2>2 DEF Restate, WriteFile, PutState, Stored, Confirm, PersonPcs, AdminWaits, At
<1>5. CASE \/ UpdateCustomerCode(h) \/ UpdatePhone(h) \/ SearchPhone(h) \/ CreateParty(h)
           \/ SearchParties(h) \/ DecideLogin(h) \/ AdminFails(h)
  <2>1. Working(h) /\ (Finish(h) \/ \E pc \in PersonPcs : Go(h, pc) \/ \E copy : GoWith(h, pc, copy))
    <3>1. CASE UpdateCustomerCode(h) \/ SearchPhone(h) \/ CreateParty(h)
      BY <3>1 DEF UpdateCustomerCode, SearchPhone, CreateParty, PersonPcs, AdminWaits, At
    <3>2. CASE UpdatePhone(h)
      BY <3>2 DEF UpdatePhone, Confirm, PersonPcs, AdminWaits, At
    <3>3. CASE SearchParties(h) \/ DecideLogin(h) \/ AdminFails(h)
      BY <3>3 DEF SearchParties, DecideLogin, AdminFails, Fails, PersonPcs, AdminWaits, At
    <3> QED
      BY <1>5, <3>1, <3>2, <3>3
  <2> QED
    BY <2>1, LandsIdle, LandsAt
<1>6. CASE RegenerateCode(h)
  <2>1. CASE Finish(h)
    BY <2>1, LandsIdle
  <2>2. CASE ~Finish(h)
    <3>1. PICK c, m, s : Continue(h, [jobs[h] EXCEPT !.pc = "put", !.arg.code = c, !.arg.made = m,
                                                     !.copy = s])
      BY <1>6, <2>2 DEF RegenerateCode
    <3>2. PICK j : j = jobs[h]
      OBVIOUS
    <3>3. IsJob(j)
      BY <1>6, <3>2, JobOf DEF RegenerateCode, At
    <3>4. PICK k : k = [j EXCEPT !.pc = "put", !.arg.code = c, !.arg.made = m, !.copy = s]
      OBVIOUS
    <3>5. IsJob(k) /\ k.pc = "put" /\ k.op = j.op /\ k.keys = j.keys /\ k.alone = j.alone
      BY <3>3, <3>4 DEF IsJob
    <3>6. Continue(h, k) /\ "put" \in PersonPcs
      BY <3>1, <3>2, <3>4 DEF PersonPcs, AdminWaits
    <3> QED
      BY <1>2, <3>2, <3>5, <3>6
  <2> QED
    BY <2>1, <2>2
<1>7. CASE PutState(h) /\ ~Lmdb
  <2>1. PICK s : Continue(h, [jobs[h] EXCEPT !.pc = "write", !.copy = s])
    BY <1>7 DEF PutState
  <2>2. GoWith(h, "write", s) /\ Working(h) /\ "write" \in PersonPcs
    BY <1>7, <2>1 DEF GoWith, PutState, At, PersonPcs, AdminWaits
  <2> QED
    BY <2>2, LandsAt
<1>8. CASE StateCodes(h)
  <2>1. CASE Finish(h)
    BY <2>1, LandsIdle
  <2>2. CASE ~Finish(h)
    <3>1. Working(h) /\ Continue(h, [jobs[h] EXCEPT !.pc = "state", !.arg.existing = ExistingStateCodes])
      BY <1>8, <2>2 DEF StateCodes, At
    <3>2. [jobs[h] EXCEPT !.pc = "state", !.arg.existing = ExistingStateCodes]
            = Moved(jobs[h], "state", [jobs[h].arg EXCEPT !.existing = ExistingStateCodes],
                    jobs[h].copy, jobs[h].phase)
      BY <3>1, JobOf, ExistingExcept
    <3>3. "state" \in PersonPcs
      BY DEF PersonPcs, AdminWaits
    <3> QED
      BY <3>1, <3>2, <3>3, LandsAt
  <2> QED
    BY <2>1, <2>2
<1>9. CASE CustomerState(h)
  <2>1. CASE Finish(h)
    BY <2>1, LandsIdle
  <2>2. CASE \E pc \in PersonPcs : Go(h, pc) \/ \E copy : GoWith(h, pc, copy)
    BY <1>9, <2>2, LandsAt DEF CustomerState, At
  <2>3. CASE \E s : Continue(h, [jobs[h] EXCEPT !.pc = "prefix", !.arg.made = now, !.copy = s])
    <3>1. PICK s : Continue(h, [jobs[h] EXCEPT !.pc = "prefix", !.arg.made = now, !.copy = s])
      BY <2>3
    <3>2. PICK j : j = jobs[h]
      OBVIOUS
    <3>3. IsJob(j)
      BY <1>9, <3>2, JobOf DEF CustomerState, At
    <3>4. PICK k : k = [j EXCEPT !.pc = "prefix", !.arg.made = now, !.copy = s]
      OBVIOUS
    <3>5. IsJob(k) /\ k.pc = "prefix" /\ k.op = j.op /\ k.keys = j.keys /\ k.alone = j.alone
      BY <3>3, <3>4 DEF IsJob
    <3>6. Continue(h, k) /\ "prefix" \in PersonPcs
      BY <3>1, <3>2, <3>4 DEF PersonPcs, AdminWaits
    <3> QED
      BY <1>2, <3>2, <3>5, <3>6
  <2> QED
    BY <1>9, <2>1, <2>2, <2>3 DEF CustomerState, PersonPcs, AdminWaits
<1> QED
  BY <1>1, <1>3, <1>4, <1>5, <1>6, <1>7, <1>8, <1>9, <1>12, <1>13, <1>14 DEF AdminStep

\* Requests about the code of the warehouse keeper, and its login.
LEMMA KeeperLands ==
  ASSUME Typed, NEW h \in Handlers, WerkaStep(h)
  PROVE  Leads(h, KeeperPcs)
<1>1. CASE AskWerkaCode(h) \/ LoginWerka(h)
  <2>1. PICK op, pc, keys, arg : Begin(h, op, pc, keys, arg) /\ pc \in KeeperPcs
    BY <1>1 DEF AskWerkaCode, LoginWerka, KeeperPcs
  <2> QED
    BY <2>1, LandsFirst
<1>2. CASE WerkaConfig(h) \/ WerkaIdentity(h) \/ WerkaPersist(h) \/ CompareWerka(h)
  <2>1. Working(h) /\ (Finish(h) \/ \E pc \in KeeperPcs : Go(h, pc) \/ \E copy : GoWith(h, pc, copy))
    BY <1>2 DEF WerkaConfig, WerkaIdentity, WerkaPersist, CompareWerka, KeeperPcs, At
  <2> QED
    BY <2>1, LandsIdle, LandsAt
<1>3. CASE WerkaState(h)
  <2>1. CASE Finish(h)
    BY <2>1, LandsIdle
  <2>2. CASE ~Finish(h)
    <3>1. PICK s : Continue(h, [jobs[h] EXCEPT !.pc = "werkaCode", !.arg.made = now, !.copy = s])
      BY <1>3, <2>2 DEF WerkaState
    <3>2. PICK j : j = jobs[h]
      OBVIOUS
    <3>3. IsJob(j)
      BY <1>3, <3>2, JobOf DEF WerkaState, At
    <3>4. PICK k : k = [j EXCEPT !.pc = "werkaCode", !.arg.made = now, !.copy = s]
      OBVIOUS
    <3>5. k.pc = "werkaCode" /\ k.op = j.op /\ k.keys = j.keys /\ k.alone = j.alone
      BY <3>3, <3>4 DEF IsJob
    <3>6. OthersKept(h) /\ jobs'[h] = k /\ UNCHANGED mix
      BY <3>1, <3>2, <3>4, Continues
    <3> QED
      BY <3>2, <3>5, <3>6 DEF Leads, Lands, Remains, KeeperPcs
  <2> QED
    BY <2>1, <2>2
<1>4. CASE WerkaCode(h)
  <2>1. PICK c : Continue(h, [jobs[h] EXCEPT !.pc = "put", !.arg.code = c, !.copy.code = c])
    BY <1>4 DEF WerkaCode
  <2>2. Working(h)
    BY <1>4 DEF WerkaCode, At
  <2>3. [jobs[h] EXCEPT !.pc = "put", !.arg.code = c, !.copy.code = c]
          = Moved(jobs[h], "put", [jobs[h].arg EXCEPT !.code = c], [jobs[h].copy EXCEPT !.code = c],
                  jobs[h].phase)
    BY <2>2, JobOf, CodeCopyExcept
  <2>4. "put" \in KeeperPcs
    BY DEF KeeperPcs
  <2> QED
    BY <2>1, <2>2, <2>3, <2>4, LandsAt
<1> QED
  BY <1>1, <1>2, <1>3, <1>4 DEF WerkaStep

\* Every step, with the state it leaves alone.
RolesNext(h) ==
  /\ \/ RoleStep(h)
     \/ \E id \in CustomRoles, caps \in SUBSET DOMAIN Capabilities : AskRole(h, id, caps)
     \/ \E role \in {"customer", "aparatchi"}, ref \in Customers \ Absentees,
           id \in CustomRoles \cup {"werka", "aparatchi"} : AskAssignment(h, role, ref, id)
  /\ UNCHANGED <<sessionVars, profileVars, adminVars, settingsVars, pushVars, groupVars>>
PeopleNext(h) ==
  /\ AdminStep(h) \/ AdminBegin(h)
  /\ UNCHANGED <<sessionVars, profileVars, roleVars, settingsVars, pushVars, groupVars>>
SettingsNext(h) ==
  /\ UpdateStep(h)
  /\ UNCHANGED <<sessionVars, profileVars, roleVars, adminVars, pushVars, groupVars>>
KeeperNext(h) ==
  /\ WerkaStep(h)
  /\ UNCHANGED <<sessionVars, profileVars, roleVars, pushVars, groupVars>>
PushNext(h) ==
  PushStep(h) /\ UNCHANGED <<sessionVars, profileVars, roleVars, adminVars, settingsVars, groupVars>>
GroupsNext(h) ==
  GroupStep(h) /\ UNCHANGED <<sessionVars, profileVars, roleVars, adminVars, settingsVars, pushVars>>
DropNext(h) ==
  /\ Dropped(h) /\ SettingsDropped(h)
  /\ UNCHANGED <<sessionVars, profileVars, roleVars, adminVars, pushVars, groupVars>>

LEMMA StepsAre ==
  ASSUME Typed, Next
  PROVE  \/ Rest
         \/ \E h \in Handlers :
              \/ SessionNext(h) \/ RolesNext(h) \/ PeopleNext(h) \/ SettingsNext(h)
              \/ KeeperNext(h) \/ PushNext(h) \/ GroupsNext(h) \/ DropNext(h)
<1>1. CASE Rest
  BY <1>1
<1>2. CASE ~Rest
  BY <1>2, Zenon DEF Next, Rest, SessionNext, RolesNext, PeopleNext, SettingsNext, KeeperNext,
     PushNext, GroupsNext, DropNext
<1> QED
  BY <1>1, <1>2

LEMMA StepsLand ==
  ASSUME Typed, NEW h \in Handlers
  PROVE  /\ SessionNext(h) => Lands(h, TokenPcs \cup {"keep"})
         /\ RolesNext(h) => Leads(h, RolePcs)
         /\ PeopleNext(h) => Leads(h, PersonPcs) \/ KeeperStored(h)
         /\ SettingsNext(h) => Leads(h, SettingPcs)
         /\ KeeperNext(h) => Leads(h, KeeperPcs)
         /\ PushNext(h) => Leads(h, PushPcs)
         /\ GroupsNext(h) => Leads(h, GroupPcs)
         /\ DropNext(h) => Leads(h, {})
<1>1. SessionNext(h) => Lands(h, TokenPcs \cup {"keep"})
  BY SessionsMove DEF SessionMove, Sessional, Leads, Lands
<1>2. DropNext(h) => Leads(h, {})
  BY LandsIdle DEF DropNext, Dropped
<1> QED
  BY <1>1, <1>2, RolesLand, PeopleLand, SettingsLand, KeeperLands, PushLands, GroupsLand
     DEF RolesNext, PeopleNext, SettingsNext, KeeperNext, PushNext, GroupsNext

-----------------------------------------------------------------------------
(***************************************************************************)
(* The parents of nodes that were placed from here accept children: a      *)
(* request that is about to place a node has seen to it, and no node ever  *)
(* stops being a group.                                                    *)
(***************************************************************************)
GroupInv ==
  /\ parent = [g \in Groups |-> parent[g]] /\ placed \subseteq Groups
  /\ GroupsAccept
  /\ \A h \in Handlers : At(h, "place") => jobs[h].arg.parent \in isGroup \cup {Root}

LEMMA GroupJobs ==
  ASSUME Typed, GroupInv, NEW h \in Handlers, OthersKept(h), isGroup \subseteq isGroup',
         At(h, "place")' => jobs'[h].arg.parent \in isGroup' \cup {Root}
  PROVE  \A g \in Handlers : At(g, "place")' => jobs'[g].arg.parent \in isGroup' \cup {Root}
<1>1. ASSUME NEW g \in Handlers \ {h}, At(g, "place")'
      PROVE  jobs'[g].arg.parent \in isGroup' \cup {Root}
  <2>1. At(g, "place") /\ jobs'[g].arg = jobs[g].arg
    BY <1>1, SameFields DEF At
  <2> QED
    BY <2>1 DEF GroupInv
<1> QED
  BY <1>1

LEMMA GroupQuiet ==
  ASSUME Typed, GroupInv, NEW h \in Handlers, NEW pcs, Lands(h, pcs), "place" \notin pcs,
         UNCHANGED groupVars
  PROVE  GroupInv'
<1>1. UNCHANGED <<parent, isGroup, placed>>
  BY DEF groupVars
<1>2. ~At(h, "place")' /\ OthersKept(h)
  BY DEF Lands, At
<1>3. \A g \in Handlers : At(g, "place")' => jobs'[g].arg.parent \in isGroup' \cup {Root}
  BY <1>1, <1>2, GroupJobs
<1> QED
  BY <1>1, <1>3 DEF GroupInv, GroupsAccept

LEMMA GroupMoves ==
  ASSUME Typed, GroupInv, NEW h \in Handlers, GroupStep(h)
  PROVE  GroupInv'
<1>1. Lands(h, GroupPcs) /\ OthersKept(h)
  BY GroupsLand DEF Leads, Lands
<1>2. CASE UNCHANGED <<parent, isGroup, placed>> /\ ~At(h, "place")'
  <2>1. \A g \in Handlers : At(g, "place")' => jobs'[g].arg.parent \in isGroup' \cup {Root}
    BY <1>1, <1>2, GroupJobs
  <2> QED
    BY <1>2, <2>1 DEF GroupInv, GroupsAccept
<1>3. CASE \/ \E g \in Groups, p \in Groups \cup {Root}, mark \in BOOLEAN : AskCreateGroup(h, g, p, mark)
           \/ \E g \in Groups, p \in Groups \cup {Root} : AskMoveGroup(h, g, p)
           \/ \E items \in SUBSET GroupItems, g \in Groups : AskMoveItems(h, items, g)
  <2>1. PICK op, pc, keys, arg : Begin(h, op, pc, keys, arg) /\ pc # "place" /\ UNCHANGED groupVars
    BY <1>3 DEF AskCreateGroup, AskMoveGroup, AskMoveItems
  <2>2. Lands(h, {pc})
    BY <2>1, LandsFirst DEF Leads
  <2> QED
    BY <2>1, <2>2, GroupQuiet
<1>4. CASE Refused(h) \/ GroupFails(h) \/ (MoveItem(h) /\ Finish(h))
  <2>1. Finish(h) /\ UNCHANGED <<parent, isGroup, placed>>
    BY <1>4 DEF Refused, GroupFails, MoveItem, groupVars
  <2> QED
    BY <1>2, <2>1, LandsIdle DEF At
<1>5. CASE MoveItem(h) /\ ~Finish(h)
  <2>1. PICK v : Continue(h, [jobs[h] EXCEPT !.arg.items = v])
    BY <1>5 DEF MoveItem
  <2>2. PICK j : j = jobs[h]
    OBVIOUS
  <2>3. IsJob(j) /\ j.pc = "item"
    BY <1>5, <2>2, JobOf DEF MoveItem, At
  <2>4. PICK k : k = [j EXCEPT !.arg.items = v]
    OBVIOUS
  <2>5. k.pc = "item" /\ jobs'[h] = k
    BY <2>1, <2>2, <2>3, <2>4, Continues DEF IsJob
  <2> QED
    BY <1>2, <1>5, <2>5 DEF MoveItem, At
<1>6. CASE ReadRow(h)
  <2>1. Working(h) /\ (Finish(h) \/ Go(h, "promote") \/ Go(h, "parentRow"))
    BY <1>6 DEF ReadRow, At
  <2>2. Lands(h, {"promote", "parentRow"})
    BY <2>1, LandsIdle, LandsAt DEF Leads
  <2> QED
    BY <1>6, <2>2, GroupQuiet DEF ReadRow
<1>7. CASE Promote(h)
  <2>1. Working(h) /\ Go(h, "parentRow") /\ UNCHANGED <<parent, placed>> /\ isGroup \subseteq isGroup'
    BY <1>7 DEF Promote, At
  <2>2. Lands(h, {"parentRow"})
    BY <2>1, LandsAt DEF Leads
  <2>3. ~At(h, "place")'
    BY <2>2 DEF Lands, At
  <2>4. \A g \in Handlers : At(g, "place")' => jobs'[g].arg.parent \in isGroup' \cup {Root}
    BY <1>1, <2>1, <2>3, GroupJobs
  <2> QED
    BY <2>1, <2>4 DEF GroupInv, GroupsAccept
<1>8. ASSUME NEW pc, Working(h), Go(h, pc)
      PROVE  jobs'[h].arg = jobs[h].arg /\ jobs'[h].pc = pc
  <2>1. PICK k : k = Moved(jobs[h], pc, jobs[h].arg, jobs[h].copy, jobs[h].phase)
    OBVIOUS
  <2>2. Continue(h, k)
    BY <1>8, <2>1, Goes
  <2> QED
    BY <2>1, <2>2, Continues, MovedIs
<1>9. CASE ReadParent(h)
  <2>1. Working(h) /\ UNCHANGED groupVars
    BY <1>9 DEF ReadParent, At
  <2>2. CASE Finish(h) \/ Go(h, "promoteParent")
    <3>1. Lands(h, {"promoteParent"})
      BY <2>1, <2>2, LandsIdle, LandsAt DEF Leads
    <3> QED
      BY <2>1, <3>1, GroupQuiet
  <2>3. CASE jobs[h].arg.parent \in isGroup \cup {Root} /\ Go(h, "place")
    <3>1. jobs'[h].arg = jobs[h].arg /\ UNCHANGED <<parent, isGroup, placed>>
      BY <1>8, <2>1, <2>3 DEF groupVars
    <3>2. \A g \in Handlers : At(g, "place")' => jobs'[g].arg.parent \in isGroup' \cup {Root}
      BY <1>1, <2>3, <3>1, GroupJobs
    <3> QED
      BY <3>1, <3>2 DEF GroupInv, GroupsAccept
  <2> QED
    BY <1>9, <2>2, <2>3 DEF ReadParent
<1>10. CASE PromoteParent(h)
  <2>1. /\ Working(h) /\ Go(h, "place") /\ UNCHANGED <<parent, placed>>
        /\ isGroup' = isGroup \cup {jobs[h].arg.parent}
    BY <1>10 DEF PromoteParent, At
  <2>2. jobs'[h].arg.parent \in isGroup'
    BY <1>8, <2>1
  <2>3. \A g \in Handlers : At(g, "place")' => jobs'[g].arg.parent \in isGroup' \cup {Root}
    BY <1>1, <2>1, <2>2, GroupJobs
  <2> QED
    BY <2>1, <2>3 DEF GroupInv, GroupsAccept
<1>11. CASE Place(h)
  <2>1. At(h, "place") /\ Finish(h)
    BY <1>11 DEF Place
  <2>2. ~At(h, "place")'
    BY <2>1, LandsIdle DEF At
  <2>3. CASE UNCHANGED groupVars
    BY <1>2, <2>2, <2>3 DEF groupVars
  <2>4. CASE ~UNCHANGED groupVars
    <3>1. PICK g, p : g = jobs[h].arg.name /\ p = jobs[h].arg.parent
      OBVIOUS
    <3>2. /\ parent' = [parent EXCEPT ![g] = p] /\ isGroup \subseteq isGroup'
          /\ placed' = placed \cup {g}
      BY <1>11, <2>4, <3>1 DEF Place
    <3>3. g \in Groups
      BY <2>1, <3>1 DEF Typed, OpenJob, OtherJob, GroupWaits, At
    <3>4. p \in isGroup \cup {Root}
      BY <2>1, <3>1 DEF GroupInv
    <3>5. /\ parent = [x \in Groups |-> parent[x]] /\ placed \subseteq Groups
          /\ \A x \in placed : parent[x] \in isGroup \cup {Root}
      BY DEF GroupInv, GroupsAccept
    <3>6. /\ parent' = [x \in Groups |-> parent'[x]] /\ placed' \subseteq Groups
          /\ \A x \in placed' : parent'[x] \in isGroup' \cup {Root}
      BY <3>2, <3>3, <3>4, <3>5
    <3>7. \A x \in Handlers : At(x, "place")' => jobs'[x].arg.parent \in isGroup' \cup {Root}
      BY <1>1, <2>2, <3>2, GroupJobs
    <3> QED
      BY <3>6, <3>7 DEF GroupInv, GroupsAccept
  <2> QED
    BY <2>3, <2>4
<1> QED
  BY <1>3, <1>4, <1>5, <1>6, <1>7, <1>9, <1>10, <1>11 DEF GroupStep

LEMMA NobodyWorks ==
  ASSUME Restart
  PROVE  \A h \in Handlers : ~Working(h)'
  BY DEF Restart, Stopped, Working, Idle

LEMMA GroupInvStep ==
  ASSUME Typed, GroupInv, [Next]_accessVars
  PROVE  GroupInv'
<1>1. CASE UNCHANGED <<jobs, parent, isGroup, placed>>
  BY <1>1 DEF GroupInv, GroupsAccept, At, Working
<1>2. CASE UNCHANGED accessVars
  BY <1>1, <1>2 DEF accessVars, requestVars, groupVars
<1>3. CASE Rest
  <2>1. CASE Tick /\ UNCHANGED groupVars
    BY <1>1, <2>1 DEF Tick, groupVars
  <2>2. CASE Restart
    <3>1. UNCHANGED <<parent, isGroup, placed>>
      BY <2>2 DEF Restart, groupVars
    <3> QED
      BY <2>2, <3>1, NobodyWorks DEF GroupInv, GroupsAccept, At
  <2> QED
    BY <1>3, <2>1, <2>2 DEF Rest
<1>4. ASSUME NEW h \in Handlers, GroupsNext(h) PROVE GroupInv'
  BY <1>4, GroupMoves DEF GroupsNext
<1>5. "place" \notin TokenPcs \cup {"keep"} \cup RolePcs \cup PersonPcs \cup SettingPcs \cup KeeperPcs \cup PushPcs
  BY DEF TokenPcs, LoadPcs, RecordPcs, ProfilePcs, RolePcs, PersonPcs, AdminWaits, SettingPcs,
     KeeperPcs, PushPcs
<1>6. ASSUME NEW h \in Handlers,
             \/ SessionNext(h) \/ RolesNext(h) \/ PeopleNext(h) \/ SettingsNext(h)
             \/ KeeperNext(h) \/ PushNext(h) \/ DropNext(h)
      PROVE  GroupInv'
  <2>1. UNCHANGED groupVars
    BY <1>6 DEF SessionNext, RolesNext, PeopleNext, SettingsNext, KeeperNext, PushNext, DropNext
  <2>2. \E pcs : Lands(h, pcs) /\ "place" \notin pcs
    BY <1>5, <1>6, StepsLand DEF Leads, KeeperStored
  <2> QED
    BY <2>1, <2>2, GroupQuiet
<1> QED
  BY <1>2, <1>3, <1>4, <1>6, StepsAre

LEMMA GroupInvFirst ==
  ASSUME Init
  PROVE  GroupInv
<1>1. /\ parent = [g \in Groups |-> parent[g]] /\ placed = {}
  BY DEF Init, GroupsInit
<1>2. \A h \in Handlers : ~Working(h)
  BY DEF Init, RequestsInit, Working, Idle
<1> QED
  BY <1>1, <1>2 DEF GroupInv, GroupsAccept, At

-----------------------------------------------------------------------------
(***************************************************************************)
(* The code of the warehouse keeper is the same in all its places once a   *)
(* change of it, alone with the settings, was answered: while a request    *)
(* about the settings is on its way nothing is settled, and no other one   *)
(* comes between two steps of one that is alone.                           *)
(***************************************************************************)
CodePcs == SettingPcs \cup {"config", "identity", "persist"}
SetsCode(j) == j.pc \in CodePcs \/ (j.pc \in StatePcs /\ j.op = "regenerateWerka")

EnvCode == env["MOBILE_DEV_WERKA_CODE"]
CodeJob(j) ==
  /\ settled = None /\ "settings" \in j.keys
  /\ j.pc \in {"persist", "settings"} /\ j.alone => identity.code = config.code
  /\ j.pc = "settings" /\ j.alone => EnvCode = config.code

CodeInv ==
  /\ CodeAgrees
  /\ \A h \in Handlers : Working(h) /\ SetsCode(jobs[h]) => CodeJob(jobs[h])

\* What the code is said to be, in each of its places.
CodesSame == UNCHANGED <<config.code, identity.code, EnvCode>>

LEMMA CodeFrom ==
  ASSUME Typed, CodeInv, NEW h \in Handlers, OthersKept(h),
         settled' = None \/ (settled' = settled /\ CodesSame) \/ CodeAgrees',
         \A g \in Handlers \ {h} : Working(g) /\ SetsCode(jobs[g]) =>
           settled' = None /\ (jobs'[g].alone => CodesSame),
         Working(h)' /\ SetsCode(jobs[h])' => CodeJob(jobs[h])'
  PROVE  CodeInv'
<1>1. CodeAgrees'
  BY DEF CodeInv, CodeAgrees, CodesSame, EnvCode
<1>2. ASSUME NEW g \in Handlers \ {h}, Working(g)', SetsCode(jobs[g])'
      PROVE  CodeJob(jobs[g])'
  <2>1. PICK j, k : j = jobs[g] /\ k = jobs'[g]
    OBVIOUS
  <2>2. /\ Working(g) /\ k.pc = j.pc /\ k.op = j.op /\ k.keys = j.keys
        /\ k.alone => j.alone
    BY <1>2, <2>1, SameFields
  <2>3. SetsCode(j) /\ CodeJob(j)
    BY <1>2, <2>1, <2>2 DEF SetsCode, CodeInv
  <2>4. settled' = None /\ (k.alone => CodesSame)
    BY <2>1, <2>2, <2>3
  <2>5. CodeJob(k)'
    BY <2>2, <2>3, <2>4 DEF CodeJob, CodesSame, EnvCode
  <2> QED
    BY <2>1, <2>5 DEF CodeJob, EnvCode
<1>3. \A g \in Handlers : Working(g)' /\ SetsCode(jobs[g])' => CodeJob(jobs[g])'
  BY <1>2
<1> QED
  BY <1>1, <1>3 DEF CodeInv

LEMMA SoleSetter ==
  ASSUME Typed, Alone, CodeInv, NEW h \in Handlers, Working(h), SetsCode(jobs[h]),
         NEW g \in Handlers \ {h}, Working(g), SetsCode(jobs[g])
  PROVE  ~jobs[g].alone /\ ~jobs[h].alone
<1>1. "settings" \in jobs[g].keys \cap jobs[h].keys
  BY DEF CodeInv, CodeJob
<1> QED
  BY <1>1 DEF Alone, On

\* A step that changes the settings, by the one request that may.
LEMMA CodeMoves ==
  ASSUME Typed, Alone, CodeInv, NEW h \in Handlers, Working(h), SetsCode(jobs[h]),
         NEW pc, Leads(h, {pc}), settled' = settled,
         pc \in {"persist", "settings"} /\ jobs[h].alone => identity'.code = config'.code,
         pc = "settings" /\ jobs[h].alone => EnvCode' = config'.code
  PROVE  CodeInv'
<1>1. settled' = None /\ OthersKept(h) /\ "settings" \in jobs[h].keys
  BY DEF CodeInv, CodeJob, Leads, Lands
<1>2. ASSUME NEW g \in Handlers \ {h}, Working(g), SetsCode(jobs[g])
      PROVE  settled' = None /\ (jobs'[g].alone => CodesSame)
  <2>1. ~jobs[g].alone
    BY <1>2, SoleSetter
  <2>2. ~jobs'[g].alone
    BY <1>1, <1>2, <2>1, SameFields
  <2> QED
    BY <1>1, <2>2
<1>3. ASSUME Working(h)', SetsCode(jobs[h])' PROVE CodeJob(jobs[h])'
  <2>1. /\ jobs'[h].pc = pc /\ jobs'[h].keys = jobs[h].keys /\ jobs'[h].alone = jobs[h].alone
    BY <1>3 DEF Leads, Lands, Remains
  <2> QED
    BY <1>1, <2>1 DEF CodeJob
<1> QED
  BY <1>1, <1>2, <1>3, CodeFrom

\* A step that leaves the settings alone.
LEMMA CodeBeside ==
  ASSUME Typed, CodeInv, NEW h \in Handlers, OthersKept(h), CodesSame, settled' = settled,
         Working(h)' /\ SetsCode(jobs[h])' =>
           /\ Working(h) /\ SetsCode(jobs[h]) /\ jobs'[h].keys = jobs[h].keys
           /\ jobs'[h].pc \notin {"persist", "settings"}
  PROVE  CodeInv'
<1>1. ASSUME NEW g \in Handlers \ {h}, Working(g), SetsCode(jobs[g])
      PROVE  settled' = None /\ (jobs'[g].alone => CodesSame)
  BY <1>1 DEF CodeInv, CodeJob
<1>2. ASSUME Working(h)', SetsCode(jobs[h])' PROVE CodeJob(jobs[h])'
  <2>1. settled = None /\ "settings" \in jobs[h].keys
    BY <1>2 DEF CodeInv, CodeJob
  <2> QED
    BY <1>2, <2>1 DEF CodeJob
<1> QED
  BY <1>1, <1>2, CodeFrom

LEMMA CodePcsAre ==
  /\ (CodePcs \cup StatePcs) \cap (TokenPcs \cup {"keep", "create", "compare"}) = {}
  /\ (CodePcs \cup StatePcs) \cap (RolePcs \cup GroupPcs) = {}
  /\ (CodePcs \cup StatePcs) \cap PushPcs = {}
  /\ {"persist", "settings"} \cap (PersonPcs \cup {"config"}) = {} /\ CodePcs \cap PersonPcs = {}
  /\ {"put", "write"} \subseteq StatePcs /\ CodePcs \cap StatePcs = {}
  BY DEF CodePcs, SettingPcs, StatePcs, AdminWaits, TokenPcs, LoadPcs, RecordPcs, ProfilePcs,
     RolePcs, GroupPcs, PushPcs, PersonPcs

\* What requests about customers are.
CustomerWork == {"regenerateCustomer", "removeCustomer", "customerPhone", "createCustomer",
                 "assignCustomer", "unassignCustomer"}

\* Of a request about people only the keeper's new code is on its way to the settings.
LEMMA PeopleFrom ==
  ASSUME Typed, NEW h \in Handlers, AdminStep(h) \/ AdminBegin(h), Working(h)', SetsCode(jobs[h])'
  PROVE  /\ Working(h) /\ SetsCode(jobs[h]) /\ jobs'[h].keys = jobs[h].keys
         /\ jobs'[h].pc \notin {"persist", "settings"}
<1>1. CASE AdminBegin(h)
  <2>1. PICK op, pc, keys, arg : Begin(h, op, pc, keys, arg) /\ op # "regenerateWerka" /\ pc \in PersonPcs
    <3>1. CASE \E r, arg : \E op \in SupplierOps : AskSupplier(h, op, r, arg)
      BY <3>1 DEF AskSupplier, BeginState, SupplierOps, PersonPcs, AdminWaits
    <3>2. CASE \E r, p : AskNewSupplier(h, r, p)
      BY <3>2 DEF AskNewSupplier, BeginState, PersonPcs, AdminWaits
    <3>3. CASE \E r, arg : \E op \in CustomerWork : AskCustomer(h, op, r, arg)
      BY <3>3 DEF AskCustomer, CustomerWork, BeginState, PersonPcs, AdminWaits
    <3>4. CASE \E r : AskLogin(h, r)
      BY <3>4 DEF AskLogin, PersonPcs, AdminWaits
    <3>5. \/ \E r, arg : \E op \in SupplierOps : AskSupplier(h, op, r, arg)
          \/ \E r, p : AskNewSupplier(h, r, p)
          \/ \E r, arg : \E op \in CustomerWork : AskCustomer(h, op, r, arg)
          \/ \E r : AskLogin(h, r)
      BY <1>1 DEF AdminBegin, SupplierOps, CustomerWork
    <3> QED
      BY <3>1, <3>2, <3>3, <3>4, <3>5
  <2>2. jobs'[h] = NewJob(h, op, pc, keys, arg)
    BY <2>1, Begins
  <2>3. jobs'[h].op = op /\ jobs'[h].pc = pc
    BY <2>2, NewJobIs
  <2> QED
    BY <2>1, <2>3, CodePcsAre DEF SetsCode
<1>2. CASE SearchParties(h) \/ DecideLogin(h) \/ AdminFails(h)
  <2>1. Working(h) /\ (Finish(h) \/ \E copy : \E pc \in {"decide", "create"} : GoWith(h, pc, copy))
    BY <1>2 DEF SearchParties, DecideLogin, AdminFails, Fails, At
  <2>2. Leads(h, {"decide", "create"})
    BY <2>1, LandsIdle, LandsAt
  <2>3. jobs'[h].pc \in {"decide", "create"}
    BY <2>2 DEF Leads, Lands
  <2>4. {"decide", "create"} \cap (CodePcs \cup StatePcs) = {}
    BY DEF CodePcs, SettingPcs, StatePcs, AdminWaits
  <2> QED
    BY <2>3, <2>4 DEF SetsCode
<1>3. CASE AdminStep(h) /\ ~(SearchParties(h) \/ DecideLogin(h) \/ AdminFails(h))
  <2>1. Working(h) /\ jobs[h].pc \in StatePcs
    BY <1>3 DEF AdminStep, Entry, SupplierState, RegenerateCode, KnownItems, SyncItems, InsertRow,
       ReadRows, DeleteRows, Restate, PutState, WriteFile, StateCodes, CustomerState, CustomerCode,
       UpdateCustomerCode, UpdatePhone, SearchPhone, CreateParty, At, StatePcs, AdminWaits
  <2>2. Leads(h, PersonPcs) \/ KeeperStored(h)
    BY <1>3, PeopleLand
  <2>3. /\ jobs'[h].op = jobs[h].op /\ jobs'[h].keys = jobs[h].keys
        /\ jobs'[h].pc \in PersonPcs \/ jobs[h].op = "regenerateWerka"
        /\ jobs'[h].pc \in PersonPcs \cup {"config"}
    BY <2>1, <2>2 DEF KeeperStored, Leads, Lands, Remains
  <2>4. jobs[h].op = "regenerateWerka"
    BY <2>3, CodePcsAre DEF SetsCode
  <2> QED
    BY <2>1, <2>3, <2>4, CodePcsAre DEF SetsCode
<1> QED
  BY <1>1, <1>2, <1>3

LEMMA SettingSteps ==
  ASSUME Typed, NEW h \in Handlers
  PROVE  /\ At(h, "lock") \/ At(h, "readKey") \/ At(h, "writeKey") \/ At(h, "runtime")
            \/ At(h, "settings") \/ At(h, "config") \/ At(h, "identity") \/ At(h, "persist")
            \/ At(h, "werkaState") \/ At(h, "werkaCode")
              => Working(h) /\ SetsCode(jobs[h])
         /\ \A pc : Working(h) /\ (Go(h, pc) \/ Finish(h)) => Leads(h, {pc})
<1>1. At(h, "werkaState") \/ At(h, "werkaCode") => jobs[h].op = "regenerateWerka"
  BY DEF At, Typed, OpenJob, AdminJob, OpsAt, StatePcs
<1>2. \A pc : Working(h) /\ (Go(h, pc) \/ Finish(h)) => Leads(h, {pc})
  BY LandsAt, LandsIdle
<1> QED
  BY <1>1, <1>2 DEF At, SetsCode, CodePcs, SettingPcs, StatePcs

\* A change of the settings that begins: nothing is settled until it ends.
LEMMA CodeBegins ==
  ASSUME Typed, CodeInv, NEW h \in Handlers, NEW op, NEW pc, NEW arg,
         Begin(h, op, pc, SettingsKeys, arg), settled' = None,
         pc \notin {"persist", "settings"}, UNCHANGED <<config, identity, env>>
  PROVE  CodeInv'
<1>1. OthersKept(h) /\ jobs'[h] = NewJob(h, op, pc, SettingsKeys, arg)
  BY Begins
<1>2. jobs'[h].pc = pc /\ jobs'[h].keys = SettingsKeys
  BY <1>1, NewJobIs
<1>3. "settings" \in SettingsKeys
  BY DEF SettingsKeys
<1>4. CodesSame
  BY DEF CodesSame, EnvCode
<1>5. CodeJob(jobs[h])'
  BY <1>2, <1>3 DEF CodeJob
<1> QED
  BY <1>1, <1>4, <1>5, CodeFrom

LEMMA CodeUpdates ==
  ASSUME Typed, Alone, CodeInv, NEW h \in Handlers, UpdateStep(h)
  PROVE  CodeInv'
<1>1. CASE \E name \in Names, key \in {"", "k2"} : AskUpdate(h, name, key)
  <2>1. PICK arg : /\ Begin(h, "updateSettings", "lock", SettingsKeys, arg)
                   /\ settled' = None /\ UNCHANGED <<config, identity, env>>
    BY <1>1 DEF AskUpdate
  <2> QED
    BY <2>1, CodeBegins
<1>2. CASE Update(h)
  <2>1. PICK pc \in {"runtime", "readKey", "writeKey"} : Go(h, pc)
    BY <1>2 DEF Update
  <2>2. Working(h) /\ SetsCode(jobs[h]) /\ Leads(h, {pc})
    BY <1>2, <2>1, SettingSteps DEF Update, At
  <2>3. settled' = settled
    BY <1>2 DEF Update
  <2> QED
    BY <2>1, <2>2, <2>3, CodeMoves
<1>3. CASE ReadCredentials(h)
  <2>1. Working(h) /\ SetsCode(jobs[h])
    BY <1>3, SettingSteps DEF ReadCredentials
  <2>2. [jobs[h] EXCEPT !.pc = "writeKey", !.arg.key = credentials]
          = Moved(jobs[h], "writeKey", [jobs[h].arg EXCEPT !.key = credentials], jobs[h].copy,
                  jobs[h].phase)
    BY <2>1, JobOf, ArgExcept
  <2>3. Leads(h, {"writeKey"})
    BY <1>3, <2>1, <2>2, LandsAt DEF ReadCredentials
  <2>4. settled' = settled
    BY <1>3 DEF ReadCredentials, settingsVars
  <2> QED
    BY <2>1, <2>3, <2>4, CodeMoves
<1>4. CASE WriteCredentials(h) \/ CredentialsFail(h)
  <2>1. Working(h) /\ SetsCode(jobs[h]) /\ Leads(h, {"runtime"})
    BY <1>4, SettingSteps DEF WriteCredentials, CredentialsFail, At
  <2>2. settled' = settled
    BY <1>4 DEF WriteCredentials, CredentialsFail
  <2> QED
    BY <2>1, <2>2, CodeMoves
<1>5. CASE Runtime(h)
  <2>1. Working(h) /\ SetsCode(jobs[h]) /\ settled' = settled /\ config' = config
    BY <1>5, SettingSteps DEF Runtime
  <2>2. identity'.code = config.code
    BY <1>5 DEF Runtime, SetRuntimeIdentity, Identity
  <2>3. CASE Finish(h)
    <3>1. Leads(h, {"lock"})
      BY <2>1, <2>3, SettingSteps
    <3> QED
      BY <2>1, <3>1, CodeMoves
  <2>4. CASE Upsert(Persisted(config)) /\ Go(h, "settings")
    <3>1. Leads(h, {"settings"})
      BY <2>1, <2>4, SettingSteps
    <3>2. EnvCode' = config.code
      BY <2>4 DEF Upsert, Persisted, Over, Only, EnvCode
    <3> QED
      BY <2>1, <2>2, <3>1, <3>2, CodeMoves
  <2> QED
    BY <1>5, <2>3, <2>4 DEF Runtime
<1>6. CASE ReadSettings(h)
  <2>1. /\ Working(h) /\ SetsCode(jobs[h]) /\ jobs[h].pc = "settings" /\ Finish(h)
        /\ UNCHANGED <<config, identity, env>>
        /\ settled' = IF jobs[h].alone THEN config.code ELSE settled
    BY <1>6, SettingSteps DEF ReadSettings, At
  <2>2. OthersKept(h) /\ ~Working(h)'
    BY <2>1, LandsIdle DEF Leads, Lands
  <2>3. CodeJob(jobs[h]) /\ settled = None
    BY <2>1 DEF CodeInv, CodeJob
  <2>4. CASE jobs[h].alone
    <3>1. CodeAgrees'
      BY <2>1, <2>3, <2>4 DEF CodeAgrees, CodeJob, EnvCode
    <3>2. \A g \in Handlers \ {h} : ~(Working(g) /\ SetsCode(jobs[g]))
      BY <2>1, <2>4, SoleSetter
    <3> QED
      BY <2>2, <3>1, <3>2, CodeFrom
  <2>5. CASE ~jobs[h].alone
    <3>1. settled' = None /\ settled' = settled /\ CodesSame
      BY <2>1, <2>3, <2>5 DEF CodesSame, EnvCode
    <3> QED
      BY <2>2, <3>1, CodeFrom
  <2> QED
    BY <2>4, <2>5
<1> QED
  BY <1>1, <1>2, <1>3, <1>4, <1>5, <1>6 DEF UpdateStep

LEMMA CodeOfKeeper ==
  ASSUME Typed, Alone, CodeInv, NEW h \in Handlers, WerkaStep(h)
  PROVE  CodeInv'
<1>1. CASE AskWerkaCode(h)
  <2>1. PICK arg : Begin(h, "regenerateWerka", "werkaState", SettingsKeys, arg)
    BY <1>1 DEF AskWerkaCode
  <2> QED
    BY <1>1, <2>1, CodeBegins DEF AskWerkaCode
<1>2. CASE WerkaState(h) \/ WerkaCode(h)
  <2>1. Working(h) /\ SetsCode(jobs[h]) /\ jobs[h].pc \in {"werkaState", "werkaCode"}
    BY <1>2, SettingSteps DEF WerkaState, WerkaCode, At
  <2>2. UNCHANGED <<config, identity, env, settled>>
    BY <1>2 DEF WerkaState, WerkaCode, settingsVars
  <2>3. OthersKept(h) /\ CodesSame
    BY <2>2, KeeperLands DEF WerkaStep, Leads, Lands, CodesSame, EnvCode
  <2>4. ASSUME Working(h)'
        PROVE  jobs'[h].keys = jobs[h].keys /\ jobs'[h].pc \in {"werkaCode", "put"}
    <3>1. jobs'[h].keys = jobs[h].keys
      BY <1>2, <2>1, <2>4, KeeperLands DEF WerkaStep, Leads, Remains
    <3>2. PICK j : j = jobs[h]
      OBVIOUS
    <3>3. IsJob(j)
      BY <2>1, <3>2, JobOf
    <3>4. CASE Finish(h)
      BY <2>4, <3>4, LandsIdle
    <3>5. CASE WerkaState(h) /\ ~Finish(h)
      <4>1. PICK s : Continue(h, [jobs[h] EXCEPT !.pc = "werkaCode", !.arg.made = now, !.copy = s])
        BY <3>5 DEF WerkaState
      <4>2. PICK k : k = [j EXCEPT !.pc = "werkaCode", !.arg.made = now, !.copy = s]
        OBVIOUS
      <4>3. k.pc = "werkaCode"
        BY <3>3, <4>2 DEF IsJob
      <4> QED
        BY <3>1, <3>2, <4>1, <4>2, <4>3, Continues
    <3>6. CASE WerkaCode(h)
      <4>1. PICK c : Continue(h, [jobs[h] EXCEPT !.pc = "put", !.arg.code = c, !.copy.code = c])
        BY <3>6 DEF WerkaCode
      <4>2. PICK k : k = [j EXCEPT !.pc = "put", !.arg.code = c, !.copy.code = c]
        OBVIOUS
      <4>3. k.pc = "put"
        BY <3>3, <4>2 DEF IsJob
      <4> QED
        BY <3>1, <3>2, <4>1, <4>2, <4>3, Continues
    <3> QED
      BY <1>2, <3>4, <3>5, <3>6
  <2> QED
    BY <2>1, <2>2, <2>3, <2>4, CodeBeside
<1>3. CASE WerkaConfig(h)
  <2>1. Working(h) /\ SetsCode(jobs[h]) /\ Leads(h, {"identity"}) /\ settled' = settled
    BY <1>3, SettingSteps DEF WerkaConfig, At
  <2> QED
    BY <2>1, CodeMoves
<1>4. CASE WerkaIdentity(h)
  <2>1. Working(h) /\ SetsCode(jobs[h]) /\ Leads(h, {"persist"}) /\ settled' = settled
    BY <1>4, SettingSteps DEF WerkaIdentity, At
  <2>2. identity'.code = config'.code
    BY <1>4 DEF WerkaIdentity, SetRuntimeIdentity, Identity
  <2> QED
    BY <2>1, <2>2, CodeMoves
<1>5. CASE WerkaPersist(h)
  <2>1. /\ Working(h) /\ SetsCode(jobs[h]) /\ settled' = settled /\ jobs[h].pc = "persist"
        /\ UNCHANGED <<config, identity>>
    BY <1>5, SettingSteps DEF WerkaPersist, At
  <2>2. CASE Finish(h)
    <3>1. Leads(h, {"lock"})
      BY <2>1, <2>2, SettingSteps
    <3> QED
      BY <2>1, <3>1, CodeMoves
  <2>3. CASE Upsert(Only("MOBILE_DEV_WERKA_CODE", config.code)) /\ Go(h, "settings")
    <3>1. Leads(h, {"settings"})
      BY <2>1, <2>3, SettingSteps
    <3>2. EnvCode' = config.code
      BY <2>3 DEF Upsert, Over, Only, EnvCode
    <3>3. jobs[h].alone => identity.code = config.code
      BY <2>1 DEF CodeInv, CodeJob
    <3> QED
      BY <2>1, <3>1, <3>2, <3>3, CodeMoves
  <2> QED
    BY <1>5, <2>2, <2>3 DEF WerkaPersist
<1>6. CASE LoginWerka(h) \/ CompareWerka(h)
  <2>1. UNCHANGED <<config, identity, env, settled>> /\ OthersKept(h)
    BY <1>6, KeeperLands DEF LoginWerka, CompareWerka, settingsVars, WerkaStep, Leads, Lands
  <2>2. Leads(h, {"compare", "create"})
    <3>1. CASE LoginWerka(h)
      BY <3>1, LandsFirst DEF LoginWerka
    <3>2. CASE CompareWerka(h)
      BY <3>2, LandsAt, LandsIdle DEF CompareWerka, At
    <3> QED
      BY <1>6, <3>1, <3>2
  <2>3. Working(h)' => ~SetsCode(jobs[h])'
    BY <2>2, CodePcsAre DEF Leads, Lands, SetsCode
  <2> QED
    BY <2>1, <2>3, CodeBeside DEF CodesSame, EnvCode
<1> QED
  BY <1>1, <1>2, <1>3, <1>4, <1>5, <1>6 DEF WerkaStep

LEMMA CodeInvStep ==
  ASSUME Typed, Alone, CodeInv, [Next]_accessVars
  PROVE  CodeInv'
<1>1. CASE UNCHANGED <<jobs, config, identity, env, settled>>
  BY <1>1 DEF CodeInv, CodeAgrees, CodeJob, EnvCode, SetsCode, Working
<1>2. CASE UNCHANGED accessVars
  BY <1>1, <1>2 DEF accessVars, requestVars, settingsVars
<1>3. CASE Rest
  <2>1. CASE Tick /\ UNCHANGED settingsVars
    BY <1>1, <2>1 DEF Tick, settingsVars
  <2>2. CASE Restart
    <3>1. /\ identity' = Identity(FromEnv(env)) /\ config' = FromEnv(env)
          /\ UNCHANGED <<env, settled>>
      BY <2>2 DEF Restart, SettingsRestart
    <3>2. identity'.code = EnvCode /\ config'.code = EnvCode
      BY <3>1 DEF Identity, FromEnv, EnvCode
    <3> QED
      BY <2>2, <3>1, <3>2, NobodyWorks DEF CodeInv, CodeAgrees, EnvCode
  <2> QED
    BY <1>3, <2>1, <2>2 DEF Rest
<1>4. ASSUME NEW h \in Handlers, SettingsNext(h) \/ KeeperNext(h) PROVE CodeInv'
  BY <1>4, CodeUpdates, CodeOfKeeper DEF SettingsNext, KeeperNext
<1>5. ASSUME NEW h \in Handlers,
             \/ SessionNext(h) \/ RolesNext(h) \/ PushNext(h) \/ GroupsNext(h) \/ DropNext(h)
      PROVE  CodeInv'
  <2>1. UNCHANGED <<config, identity, env, settled>>
    BY <1>5 DEF SessionNext, RolesNext, PushNext, GroupsNext, DropNext, settingsVars, SettingsDropped
  <2>2. \E pcs : Lands(h, pcs) /\ pcs \cap (CodePcs \cup StatePcs) = {}
    BY <1>5, StepsLand, CodePcsAre DEF Leads
  <2>3. OthersKept(h) /\ (Working(h)' => ~SetsCode(jobs[h])')
    BY <2>2 DEF Lands, SetsCode
  <2> QED
    BY <2>1, <2>3, CodeBeside DEF CodesSame, EnvCode
<1>6. ASSUME NEW h \in Handlers, PeopleNext(h) PROVE CodeInv'
  <2>1. UNCHANGED <<config, identity, env, settled>>
    BY <1>6 DEF PeopleNext, settingsVars
  <2>2. OthersKept(h)
    BY <1>6, StepsLand DEF Leads, Lands, KeeperStored
  <2>3. Working(h)' /\ SetsCode(jobs[h])' =>
          /\ Working(h) /\ SetsCode(jobs[h]) /\ jobs'[h].keys = jobs[h].keys
          /\ jobs'[h].pc \notin {"persist", "settings"}
    BY <1>6, PeopleFrom DEF PeopleNext
  <2> QED
    BY <2>1, <2>2, <2>3, CodeBeside DEF CodesSame, EnvCode
<1> QED
  BY <1>2, <1>3, <1>4, <1>5, <1>6, StepsAre

LEMMA CodeInvFirst ==
  ASSUME Init
  PROVE  CodeInv
<1>1. settled = None /\ \A h \in Handlers : ~Working(h)
  BY DEF Init, RequestsInit, SettingsInit, Working, Idle
<1> QED
  BY <1>1 DEF CodeInv, CodeAgrees

-----------------------------------------------------------------------------
(***************************************************************************)
(* A confirmed role or assignment is in memory and in the file, whatever   *)
(* other changes fail or are dropped: while one is on its way nothing is   *)
(* known of it, and a change of another one rewrites it as it was.         *)
(***************************************************************************)
RoleKey(id) == <<"role", id>>
AssignedKey(role, ref) == <<"assignment", AssignmentKey(role, ref)>>
KeepsBack(j, key) == ToString(key) \in j.keys /\ key \in DOMAIN roleKept /\ roleKept[key] = None

RoleJob(j) ==
  /\ j.pc = "putRole" => KeepsBack(j, RoleKey(j.arg.id)) /\ j.arg.id \notin DOMAIN SystemRoles
  /\ j.pc \in {"roles", "putAssignment"} => KeepsBack(j, AssignedKey(j.arg.role, j.arg.ref))

Tables(t) == t = [roles |-> t.roles, assignments |-> t.assignments]
RolesShaped ==
  /\ roleFile = [old |-> roleFile.old] \/ Tables(roleFile)
  /\ \A k \in DOMAIN roleKept : k = <<k[1], k[2]>> /\ k[1] \in {"role", "assignment"}

RoleInv ==
  /\ RolesShaped /\ RolesHold
  /\ \A id : RoleKey(id) \in DOMAIN roleKept /\ roleKept[RoleKey(id)] # None
               => id \notin DOMAIN SystemRoles
  /\ \A h \in Handlers : Working(h) => RoleJob(jobs[h])

LEMMA TablesAre ==
  ASSUME RolesShaped
  PROVE  Tables(InMemory) /\ Tables(Load(roleFile))
<1>1. CASE roleFile = [old |-> roleFile.old]
  BY <1>1 DEF Load, InMemory, Tables
<1>2. CASE Tables(roleFile)
  <2>1. Load(roleFile) = roleFile
    BY <1>2 DEF Load, Tables
  <2>2. Tables([roles |-> roles, assignments |-> assignments])
    BY DEF Tables
  <2> QED
    BY <1>2, <2>1, <2>2 DEF InMemory
<1> QED
  BY <1>1, <1>2 DEF RolesShaped

LEMMA SavesTables ==
  ASSUME RolesShaped, NEW new, Tables(new), NEW ok \in BOOLEAN, Save(new, ok)
  PROVE  /\ InMemory' = new /\ Load(roleFile)' = IF ok THEN new ELSE Load(roleFile)
         /\ roleFile' = [old |-> roleFile'.old] \/ Tables(roleFile')
<1>1. Load(new) = new /\ new = [roles |-> new.roles, assignments |-> new.assignments]
  BY DEF Load, Tables
<1>2. InMemory' = new
  BY <1>1 DEF Save, InMemory
<1>3. Load(roleFile)' = IF ok THEN new ELSE Load(roleFile)
  BY <1>1 DEF Save, Load
<1>4. roleFile' = new \/ roleFile' = roleFile
  BY DEF Save
<1>5. roleFile' = [old |-> roleFile'.old] \/ Tables(roleFile')
  BY <1>4 DEF RolesShaped
<1> QED
  BY <1>2, <1>3, <1>5

\* A confirmation touches no request that waits for the same role.
LEMMA RoleOthers ==
  ASSUME Typed, RoleInv, NEW h \in Handlers, OthersKept(h),
         \/ roleKept' = roleKept
         \/ \E key, value :
              /\ Kept(key, value)
              /\ value = None \/ \A g \in Handlers \ {h} : ~On(g, {ToString(key)})
  PROVE  \A g \in Handlers \ {h} : Working(g)' => RoleJob(jobs[g])'
<1>1. ASSUME NEW g \in Handlers \ {h}, Working(g), NEW old, KeepsBack(jobs[g], old)
      PROVE  old \in DOMAIN roleKept' /\ roleKept'[old] = None
  <2>1. CASE roleKept' = roleKept
    BY <1>1, <2>1 DEF KeepsBack
  <2>2. CASE roleKept' # roleKept
    <3>1. PICK key, value : /\ Kept(key, value)
                            /\ value = None \/ \A f \in Handlers \ {h} : ~On(f, {ToString(key)})
      BY <2>2
    <3>2. /\ DOMAIN roleKept' = {key} \cup DOMAIN roleKept
          /\ \A k \in DOMAIN roleKept' : roleKept'[k] = IF k = key THEN value ELSE roleKept[k]
      BY <3>1 DEF Kept, Over, Only
    <3>3. CASE old = key /\ value # None
      <4>1. ToString(old) \in jobs[g].keys
        BY <1>1 DEF KeepsBack
      <4>2. On(g, {ToString(key)})
        BY <1>1, <3>3, <4>1 DEF On
      <4> QED
        BY <3>1, <3>3, <4>2
    <3>4. CASE ~(old = key /\ value # None)
      BY <1>1, <3>2, <3>4 DEF KeepsBack
    <3> QED
      BY <3>3, <3>4
  <2> QED
    BY <2>1, <2>2
<1>2. ASSUME NEW g \in Handlers \ {h}, Working(g)'
      PROVE  RoleJob(jobs[g])'
  <2>1. PICK j, k : j = jobs[g] /\ k = jobs'[g]
    OBVIOUS
  <2>2. Working(g) /\ k.pc = j.pc /\ k.keys = j.keys /\ k.arg = j.arg
    BY <1>2, <2>1, SameFields
  <2>3. RoleJob(j)
    BY <2>1, <2>2 DEF RoleInv
  <2>4. \A old : KeepsBack(j, old) => KeepsBack(k, old)'
    <3>1. ASSUME NEW old, KeepsBack(j, old) PROVE KeepsBack(k, old)'
      BY <1>1, <2>1, <2>2, <3>1 DEF KeepsBack
    <3> QED
      BY <3>1
  <2>5. RoleJob(k)'
    BY <2>2, <2>3, <2>4 DEF RoleJob, SystemRoles
  <2> QED
    BY <2>1, <2>5 DEF RoleJob, KeepsBack
<1> QED
  BY <1>2

WaitsForRole == {"putRole", "roles", "putAssignment"}

LEMMA RoleQuiet ==
  ASSUME Typed, RoleInv, NEW h \in Handlers, OthersKept(h), UNCHANGED roleVars,
         Working(h)' => RoleJob(jobs[h])'
  PROVE  RoleInv'
<1>1. UNCHANGED <<roles, assignments, roleFile, roleMemory, roleKept>>
  BY DEF roleVars
<1>2. InMemory' = InMemory /\ Load(roleFile)' = Load(roleFile)
  BY <1>1 DEF InMemory, Load
<1>3. RolesShaped' /\ RolesHold'
  BY <1>1, <1>2 DEF RoleInv, RolesShaped, RolesHold
<1>4. \A g \in Handlers \ {h} : Working(g)' => RoleJob(jobs[g])'
  BY <1>1, RoleOthers
<1> QED
  BY <1>1, <1>3, <1>4 DEF RoleInv, SystemRoles

\* A request about a role begins: nothing is known of the role.
LEMMA RoleBegins ==
  ASSUME Typed, RoleInv, NEW h \in Handlers, NEW op, NEW pc, NEW arg, NEW key,
         BeginRole(h, op, pc, arg, key), key = <<key[1], key[2]>>, key[1] \in {"role", "assignment"},
         pc = "putRole" => key = RoleKey(arg.id) /\ arg.id \notin DOMAIN SystemRoles,
         pc \in {"roles", "putAssignment"} => key = AssignedKey(arg.role, arg.ref)
  PROVE  RoleInv'
<1>1. /\ Begin(h, op, pc, {ToString(key)}, arg) /\ Kept(key, None)
      /\ UNCHANGED <<roles, assignments, roleFile, roleMemory>>
  BY DEF BeginRole
<1>2. OthersKept(h) /\ jobs'[h] = NewJob(h, op, pc, {ToString(key)}, arg)
  BY <1>1, Begins
<1>3. jobs'[h].pc = pc /\ jobs'[h].keys = {ToString(key)} /\ jobs'[h].arg = arg
  BY <1>2, NewJobIs
<1>4. /\ DOMAIN roleKept' = {key} \cup DOMAIN roleKept
      /\ \A k \in DOMAIN roleKept' : roleKept'[k] = IF k = key THEN None ELSE roleKept[k]
  BY <1>1 DEF Kept, Over, Only
<1>5. InMemory' = InMemory /\ Load(roleFile)' = Load(roleFile)
  BY <1>1 DEF InMemory, Load
<1>6. RolesShaped' /\ RolesHold'
  <2>1. \A k \in DOMAIN roleKept' : roleKept'[k] # None => k \in DOMAIN roleKept /\ roleKept[k] = roleKept'[k]
    BY <1>4
  <2>2. RolesHold'
    BY <1>5, <2>1 DEF RoleInv, RolesHold
  <2> QED
    BY <1>1, <1>4, <2>2 DEF RoleInv, RolesShaped
<1>7. \A id : RoleKey(id) \in DOMAIN roleKept' /\ roleKept'[RoleKey(id)] # None => id \notin DOMAIN SystemRoles'
  BY <1>4 DEF RoleInv, SystemRoles
<1>8. KeepsBack(jobs[h], key)'
  BY <1>3, <1>4 DEF KeepsBack
<1>9. RoleJob(jobs[h])'
  BY <1>3, <1>8 DEF RoleJob, SystemRoles
<1>10. \A g \in Handlers \ {h} : Working(g)' => RoleJob(jobs[g])'
  BY <1>1, <1>2, RoleOthers
<1> QED
  BY <1>6, <1>7, <1>9, <1>10 DEF RoleInv

HasEntry(known, k, v) ==
  LET table == IF k[1] = "role" THEN known.roles ELSE known.assignments IN
  k[2] \in DOMAIN table /\ table[k[2]] = v

\* A change is saved: what is kept of the others stays, and its own is kept
\* if the file has it.
LEMMA RolePuts ==
  ASSUME Typed, Alone, RoleInv, NEW h \in Handlers, Working(h), NEW key, KeepsBack(jobs[h], key),
         \A id : key = RoleKey(id) => id \notin DOMAIN SystemRoles,
         NEW value, NEW new, Tables(new), NEW ok \in BOOLEAN, Save(new, ok), Finish(h),
         IF ok /\ jobs[h].alone THEN Kept(key, value) ELSE UNCHANGED roleKept,
         HasEntry(new, key, value),
         \A k \in DOMAIN roleKept \ {key} :
           HasEntry(InMemory, k, roleKept[k]) => HasEntry(new, k, roleKept[k])
  PROVE  RoleInv'
<1>1. /\ InMemory' = new /\ Load(roleFile)' = IF ok THEN new ELSE Load(roleFile)
      /\ roleFile' = [old |-> roleFile'.old] \/ Tables(roleFile')
  BY SavesTables DEF RoleInv
<1>2. key \in DOMAIN roleKept /\ roleKept[key] = None /\ key = <<key[1], key[2]>>
  BY DEF KeepsBack, RoleInv, RolesShaped
<1>3. \/ roleKept' = roleKept
      \/ /\ ok /\ jobs[h].alone /\ Kept(key, value)
         /\ DOMAIN roleKept' = DOMAIN roleKept
         /\ \A k \in DOMAIN roleKept : roleKept'[k] = IF k = key THEN value ELSE roleKept[k]
  BY <1>2 DEF Kept, Over, Only
<1>4. DOMAIN roleKept' = DOMAIN roleKept
  BY <1>3
<1>5. ASSUME NEW k \in DOMAIN roleKept, roleKept'[k] # None
      PROVE  HasEntry(InMemory', k, roleKept'[k]) /\ HasEntry(Load(roleFile)', k, roleKept'[k])
  <2>1. CASE k = key
    <3>1. ok /\ roleKept'[k] = value
      BY <1>2, <1>3, <1>5, <2>1
    <3> QED
      BY <1>1, <2>1, <3>1
  <2>2. CASE k # key
    <3>1. roleKept'[k] = roleKept[k] /\ roleKept[k] # None
      BY <1>3, <1>5, <2>2
    <3>2. HasEntry(InMemory, k, roleKept[k]) /\ HasEntry(Load(roleFile), k, roleKept[k])
      BY <3>1 DEF RoleInv, RolesHold, HasEntry
    <3>3. HasEntry(new, k, roleKept[k])
      BY <2>2, <3>2
    <3> QED
      BY <1>1, <3>1, <3>2, <3>3
  <2> QED
    BY <2>1, <2>2
<1>6. RolesHold'
  BY <1>4, <1>5 DEF RolesHold, HasEntry
<1>7. RolesShaped'
  BY <1>1, <1>4 DEF RoleInv, RolesShaped
<1>8. \A id : RoleKey(id) \in DOMAIN roleKept' /\ roleKept'[RoleKey(id)] # None
                => id \notin DOMAIN SystemRoles'
  BY <1>3, <1>4 DEF RoleInv, SystemRoles
<1>9. OthersKept(h) /\ ~Working(h)'
  BY LandsIdle DEF Leads, Lands
<1>10. jobs[h].alone => \A g \in Handlers \ {h} : ~On(g, {ToString(key)})
  BY DEF Alone, On, KeepsBack
<1>11. \A g \in Handlers \ {h} : Working(g)' => RoleJob(jobs[g])'
  BY <1>3, <1>9, <1>10, RoleOthers
<1> QED
  BY <1>6, <1>7, <1>8, <1>9, <1>11 DEF RoleInv

LEMMA RoleMoves ==
  ASSUME Typed, Alone, RoleInv, NEW h \in Handlers, RoleStep(h)
  PROVE  RoleInv'
<1>1. Working(h) => RoleJob(jobs[h])
  BY DEF RoleInv
<1>2. OthersKept(h)
  BY RolesLand DEF Leads, Lands
<1>3. CASE PutRole(h)
  <2>1. PICK arg : arg = jobs[h].arg
    OBVIOUS
  <2>2. PICK new : new = [InMemory EXCEPT !.roles = Over(Only(arg.id, arg.caps), @)]
    OBVIOUS
  <2>3. PICK ok \in BOOLEAN :
          /\ Save(new, ok) /\ Finish(h)
          /\ IF ok /\ jobs[h].alone THEN Kept(RoleKey(arg.id), arg.caps) ELSE UNCHANGED roleKept
    BY <1>3, <2>1, <2>2 DEF PutRole, RoleKey
  <2>4. Working(h) /\ KeepsBack(jobs[h], RoleKey(arg.id)) /\ arg.id \notin DOMAIN SystemRoles
    BY <1>1, <1>3, <2>1 DEF PutRole, At, RoleJob
  <2>5. new = [roles |-> Over(Only(arg.id, arg.caps), InMemory.roles),
               assignments |-> InMemory.assignments]
    BY <2>2, TablesAre DEF RoleInv, Tables
  <2>6. /\ Tables(new) /\ DOMAIN new.roles = {arg.id} \cup DOMAIN InMemory.roles
        /\ \A id \in DOMAIN new.roles :
             new.roles[id] = IF id = arg.id THEN arg.caps ELSE InMemory.roles[id]
        /\ new.assignments = InMemory.assignments
    BY <2>5 DEF Tables, Over, Only
  <2>7. HasEntry(new, RoleKey(arg.id), arg.caps)
    BY <2>6 DEF HasEntry, RoleKey
  <2>8. ASSUME NEW k \in DOMAIN roleKept \ {RoleKey(arg.id)}, HasEntry(InMemory, k, roleKept[k])
        PROVE  HasEntry(new, k, roleKept[k])
    <3>1. k = <<k[1], k[2]>>
      BY DEF RoleInv, RolesShaped
    <3>2. k[1] = "role" => k[2] # arg.id
      BY <3>1 DEF RoleKey
    <3> QED
      BY <2>6, <2>8, <3>2 DEF HasEntry
  <2>9. \A id : RoleKey(arg.id) = RoleKey(id) => id \notin DOMAIN SystemRoles
    BY <2>4 DEF RoleKey
  <2> QED
    BY <2>3, <2>4, <2>6, <2>7, <2>8, <2>9, RolePuts
<1>4. CASE PutAssignment(h)
  <2>1. PICK arg : arg = jobs[h].arg
    OBVIOUS
  <2>2. PICK pair : pair = AssignmentKey(arg.role, arg.ref)
    OBVIOUS
  <2>3. PICK value : value = [role |-> arg.id, ref |-> arg.ref]
    OBVIOUS
  <2>4. PICK new : new = [InMemory EXCEPT !.assignments = Over(Only(pair, value), @)]
    OBVIOUS
  <2>5. PICK key : key = <<"assignment", pair>>
    OBVIOUS
  <2>6. PICK ok \in BOOLEAN :
          /\ Save(new, ok) /\ Finish(h)
          /\ IF ok /\ jobs[h].alone THEN Kept(key, value) ELSE UNCHANGED roleKept
    BY <1>4, <2>1, <2>2, <2>3, <2>4, <2>5 DEF PutAssignment
  <2>7. Working(h) /\ KeepsBack(jobs[h], key)
    BY <1>1, <1>4, <2>1, <2>2, <2>5 DEF PutAssignment, At, RoleJob, AssignedKey
  <2>8. new = [roles |-> InMemory.roles, assignments |-> Over(Only(pair, value), InMemory.assignments)]
    BY <2>4, TablesAre DEF RoleInv, Tables
  <2>9. /\ Tables(new) /\ DOMAIN new.assignments = {pair} \cup DOMAIN InMemory.assignments
        /\ \A p \in DOMAIN new.assignments :
             new.assignments[p] = IF p = pair THEN value ELSE InMemory.assignments[p]
        /\ new.roles = InMemory.roles
    BY <2>8 DEF Tables, Over, Only
  <2>10. HasEntry(new, key, value)
    BY <2>5, <2>9 DEF HasEntry
  <2>11. ASSUME NEW k \in DOMAIN roleKept \ {key}, HasEntry(InMemory, k, roleKept[k])
         PROVE  HasEntry(new, k, roleKept[k])
    <3>1. k = <<k[1], k[2]>> /\ k[1] \in {"role", "assignment"}
      BY DEF RoleInv, RolesShaped
    <3>2. k[1] # "role" => k[2] # pair
      BY <2>5, <3>1
    <3> QED
      BY <2>9, <2>11, <3>2 DEF HasEntry
  <2>12. \A id : key # RoleKey(id)
    BY <2>5 DEF RoleKey
  <2> QED
    BY <2>6, <2>7, <2>9, <2>10, <2>11, <2>12, RolePuts
<1>5. ASSUME NEW pc, Working(h), Go(h, pc)
      PROVE  /\ jobs'[h].arg = jobs[h].arg /\ jobs'[h].pc = pc /\ jobs'[h].keys = jobs[h].keys
  <2>1. PICK k : k = Moved(jobs[h], pc, jobs[h].arg, jobs[h].copy, jobs[h].phase)
    OBVIOUS
  <2>2. Continue(h, k)
    BY <1>5, <2>1, Goes
  <2> QED
    BY <2>1, <2>2, Continues, MovedIs
<1>6. CASE CheckRole(h)
  <2>1. Working(h) /\ jobs[h].pc = "roles" /\ UNCHANGED roleVars
    BY <1>6 DEF CheckRole, At
  <2>2. CASE Finish(h)
    BY <1>2, <2>1, <2>2, LandsIdle, RoleQuiet
  <2>3. CASE Go(h, "putAssignment")
    <3>1. roleKept' = roleKept
      BY <2>1 DEF roleVars
    <3>2. RoleJob(jobs[h])'
      BY <1>1, <1>5, <2>1, <2>3, <3>1 DEF RoleJob, KeepsBack
    <3> QED
      BY <1>2, <2>1, <3>2, RoleQuiet
  <2> QED
    BY <1>6, <2>2, <2>3 DEF CheckRole
<1>7. CASE Invalid(h) \/ Authorize(h) \/ Judge(h) \/ Act(h)
  <2>1. /\ UNCHANGED roleVars /\ Working(h)
        /\ Finish(h) \/ Go(h, "granted") \/ \E copy : GoWith(h, "judge", copy)
    BY <1>7 DEF Invalid, Authorize, Judge, Act, At
  <2>2. Leads(h, {"granted", "judge"})
    BY <2>1, LandsIdle, LandsAt
  <2>3. Working(h)' => RoleJob(jobs[h])'
    BY <2>2 DEF Leads, Lands, RoleJob
  <2> QED
    BY <1>2, <2>1, <2>3, RoleQuiet
<1> QED
  BY <1>3, <1>4, <1>6, <1>7 DEF RoleStep

LEMMA RoleInvStep ==
  ASSUME Typed, Alone, RoleInv, [Next]_accessVars
  PROVE  RoleInv'
<1>1. CASE UNCHANGED <<jobs, roleVars>>
  <2>1. UNCHANGED <<jobs, roles, assignments, roleFile, roleMemory, roleKept>>
    BY <1>1 DEF roleVars
  <2>2. InMemory' = InMemory /\ Load(roleFile)' = Load(roleFile)
    BY <2>1 DEF InMemory, Load
  <2> QED
    BY <2>1, <2>2 DEF RoleInv, RolesShaped, RolesHold, RoleJob, KeepsBack, Working, SystemRoles
<1>2. CASE UNCHANGED accessVars
  BY <1>1, <1>2 DEF accessVars, requestVars
<1>3. CASE Rest
  <2>1. CASE Tick /\ UNCHANGED roleVars
    BY <1>1, <2>1 DEF Tick
  <2>2. CASE Restart
    <3>1. UNCHANGED <<roleFile, roleKept>> /\ roleMemory' = FALSE
      BY <2>2 DEF Restart, RolesRestart
    <3>2. InMemory' = Load(roleFile) /\ Load(roleFile)' = Load(roleFile)
      BY <3>1 DEF InMemory, Load
    <3>3. RolesShaped' /\ RolesHold'
      BY <3>1, <3>2 DEF RoleInv, RolesShaped, RolesHold
    <3> QED
      BY <2>2, <3>1, <3>3, NobodyWorks DEF RoleInv, SystemRoles
  <2> QED
    BY <1>3, <2>1, <2>2 DEF Rest
<1>4. ASSUME NEW h \in Handlers, RolesNext(h) PROVE RoleInv'
  <2>1. CASE RoleStep(h)
    BY <2>1, RoleMoves
  <2>2. ASSUME NEW id, NEW caps, AskRole(h, id, caps) PROVE RoleInv'
    <3>1. PICK key : key = RoleKey(id)
      OBVIOUS
    <3>2. PICK arg : arg = [id |-> id, caps |-> caps]
      OBVIOUS
    <3>3. PICK pc : pc = IF ValidCustomRole(id, caps) THEN "putRole" ELSE "invalid"
      OBVIOUS
    <3>4. BeginRole(h, "putRole", pc, arg, key)
      BY <2>2, <3>1, <3>2, <3>3 DEF AskRole, RoleKey
    <3>5. key = <<key[1], key[2]>> /\ key[1] \in {"role", "assignment"}
      BY <3>1 DEF RoleKey
    <3>6. pc = "putRole" => key = RoleKey(arg.id) /\ arg.id \notin DOMAIN SystemRoles
      BY <3>1, <3>2, <3>3 DEF ValidCustomRole
    <3>7. pc \notin {"roles", "putAssignment"}
      BY <3>3
    <3> QED
      BY <3>4, <3>5, <3>6, <3>7, RoleBegins
  <2>3. ASSUME NEW role, NEW ref, NEW id, AskAssignment(h, role, ref, id) PROVE RoleInv'
    <3>1. PICK key : key = AssignedKey(role, ref)
      OBVIOUS
    <3>2. PICK arg : arg = [role |-> role, ref |-> ref, id |-> id]
      OBVIOUS
    <3>3. BeginRole(h, "assignRole", "roles", arg, key)
      BY <2>3, <3>1, <3>2 DEF AskAssignment, AssignedKey
    <3>4. key = <<key[1], key[2]>> /\ key[1] \in {"role", "assignment"}
      BY <3>1 DEF AssignedKey
    <3>5. key = AssignedKey(arg.role, arg.ref)
      BY <3>1, <3>2
    <3> QED
      BY <3>3, <3>4, <3>5, RoleBegins
  <2> QED
    BY <1>4, <2>1, <2>2, <2>3 DEF RolesNext
<1>5. WaitsForRole \cap (TokenPcs \cup {"keep", "config"} \cup PersonPcs \cup SettingPcs \cup KeeperPcs
                         \cup PushPcs \cup GroupPcs) = {}
  BY DEF WaitsForRole, TokenPcs, LoadPcs, RecordPcs, ProfilePcs, PersonPcs, AdminWaits, SettingPcs,
     KeeperPcs, PushPcs, GroupPcs
<1>6. ASSUME NEW h \in Handlers,
             \/ SessionNext(h) \/ PeopleNext(h) \/ SettingsNext(h) \/ KeeperNext(h)
             \/ PushNext(h) \/ GroupsNext(h) \/ DropNext(h)
      PROVE  RoleInv'
  <2>1. UNCHANGED roleVars
    BY <1>6 DEF SessionNext, PeopleNext, SettingsNext, KeeperNext, PushNext, GroupsNext, DropNext
  <2>2. \E pcs : Lands(h, pcs) /\ pcs \cap WaitsForRole = {}
    BY <1>5, <1>6, StepsLand DEF Leads, KeeperStored
  <2>3. OthersKept(h) /\ (Working(h)' => RoleJob(jobs[h])')
    BY <2>2 DEF Lands, WaitsForRole, RoleJob
  <2> QED
    BY <2>1, <2>3, RoleQuiet
<1> QED
  BY <1>2, <1>3, <1>4, <1>6, StepsAre

LEMMA RoleInvFirst ==
  ASSUME Init
  PROVE  RoleInv
<1>1. \A h \in Handlers : ~Working(h)
  BY DEF Init, RequestsInit, Working, Idle
<1>2. roleFile = [old |-> roleFile.old] /\ DOMAIN roleKept = {}
  BY DEF Init, RolesInit, NoRole
<1> QED
  BY <1>1, <1>2 DEF RoleInv, RolesShaped, RolesHold

-----------------------------------------------------------------------------
(***************************************************************************)
(* A device that was registered, alone, is its person's and nobody else's. *)
(* The LMDB store looks the owner of a device up, so that its lists and    *)
(* owners have to agree all along; the JSON store looks through every      *)
(* list, but its file may be behind, and is what the next process reads.   *)
(***************************************************************************)
Has(list, d) == \E i \in DOMAIN list : list[i] = d

Lists(recs) ==
  /\ recs \in [People -> Seq(Devices)]
  /\ \A p \in People : \A i, j \in DOMAIN recs[p] : recs[p][i] = recs[p][j] => i = j

Owners == [Devices -> People \cup {None}]
OwnersAgree(recs, own) == \A p \in People, d \in Devices : Has(recs[p], d) <=> own[d] = p

\* A state of the store, and the person who alone has a device in it.
IsStore(recs, own) == Lists(recs) /\ own \in Owners /\ (Lmdb => OwnersAgree(recs, own))
OnlyHas(recs, d, p) == \A q \in People : Has(recs[q], d) <=> q = p

\* What both states say alike of the devices other than these.
SameBut(recs, old, ds) == \A q \in People : \A d \in Devices \ ds : Has(recs[q], d) <=> Has(old[q], d)

DeviceJob(j) ==
  j.pc \in {"register", "unregister"} =>
    /\ j.arg.person \in People /\ j.arg.device \in Devices /\ j.keys = {j.arg.device}
    /\ registered[j.arg.device] = None

DevicesKept ==
  \A d \in Devices : registered[d] # None =>
    OnlyHas(records, d, registered[d]) /\ (~Lmdb => OnlyHas(recordFile, d, registered[d]))

PushInv ==
  /\ IsStore(records, owner) /\ Lists(recordFile)
  /\ registered \in Owners /\ registered[OldDevice] = None
  /\ DevicesKept
  /\ \A h \in Handlers : Working(h) => DeviceJob(jobs[h])

LEMMA WithoutIs ==
  ASSUME NEW list \in Seq(Devices), \A i, j \in DOMAIN list : list[i] = list[j] => i = j, NEW d,
         NEW rest, rest = Without(list, d)
  PROVE  /\ rest \in Seq(Devices) /\ \A i, j \in DOMAIN rest : rest[i] = rest[j] => i = j
         /\ \A e : Has(rest, e) <=> Has(list, e) /\ e # d
<1>1. rest \in Seq(Devices) /\ \E g : LeftOf(rest, list, {d}, g, Len(list))
  BY SiftLeaves DEF Without
<1>2. PICK g : LeftOf(rest, list, {d}, g, Len(list))
  BY <1>1
<1>3. DOMAIN rest = 1 .. Len(rest) /\ DOMAIN list = 1 .. Len(list)
  BY <1>1
<1>4. /\ \A i \in DOMAIN rest : g[i] \in DOMAIN list /\ rest[i] = list[g[i]] /\ rest[i] # d
      /\ \A i, j \in DOMAIN rest : g[i] = g[j] => i = j
      /\ \A k \in DOMAIN list : list[k] # d => \E i \in DOMAIN rest : g[i] = k
  BY <1>2, <1>3 DEF LeftOf
<1>5. \A i, j \in DOMAIN rest : rest[i] = rest[j] => i = j
  BY <1>4
<1>6. ASSUME NEW e PROVE Has(rest, e) <=> Has(list, e) /\ e # d
  BY <1>4 DEF Has
<1> QED
  BY <1>1, <1>5, <1>6

\* A device at the end of a list it was taken out of.
LEMMA AddedIs ==
  ASSUME NEW list \in Seq(Devices), \A i, j \in DOMAIN list : list[i] = list[j] => i = j,
         NEW d \in Devices, NEW new, new = Append(Without(list, d), d)
  PROVE  /\ new \in Seq(Devices) /\ \A i, j \in DOMAIN new : new[i] = new[j] => i = j
         /\ \A e : Has(new, e) <=> Has(list, e) \/ e = d
<1>1. PICK rest : rest = Without(list, d)
  OBVIOUS
<1>2. /\ rest \in Seq(Devices) /\ \A i, j \in DOMAIN rest : rest[i] = rest[j] => i = j
      /\ \A e : Has(rest, e) <=> Has(list, e) /\ e # d
  BY <1>1, WithoutIs
<1>3. /\ new \in Seq(Devices) /\ Len(rest) \in Nat
      /\ DOMAIN new = 1 .. Len(rest) + 1 /\ DOMAIN rest = 1 .. Len(rest)
      /\ \A i \in 1 .. Len(rest) : new[i] = rest[i]
      /\ new[Len(rest) + 1] = d
  BY <1>1, <1>2
<1>4. \A i \in DOMAIN rest : rest[i] # d
  BY <1>2 DEF Has
<1>5. \A i, j \in DOMAIN new : new[i] = new[j] => i = j
  <2> SUFFICES ASSUME NEW i \in DOMAIN new, NEW j \in DOMAIN new, new[i] = new[j] PROVE i = j
    OBVIOUS
  <2>1. CASE i \in DOMAIN rest /\ j \in DOMAIN rest
    BY <1>2, <1>3, <2>1
  <2>2. CASE i \notin DOMAIN rest \/ j \notin DOMAIN rest
    BY <1>3, <1>4, <2>2
  <2> QED
    BY <2>1, <2>2
<1>6. ASSUME NEW e PROVE Has(new, e) <=> Has(rest, e) \/ e = d
  <2>1. CASE Has(new, e)
    <3>1. PICK i \in DOMAIN new : new[i] = e
      BY <2>1 DEF Has
    <3>2. CASE i \in DOMAIN rest
      BY <1>3, <3>1, <3>2 DEF Has
    <3>3. CASE i \notin DOMAIN rest
      <4>1. e = d
        BY <1>3, <3>1, <3>3
      <4> QED
        BY <2>1, <4>1
    <3> QED
      BY <2>1, <3>2, <3>3
  <2>2. CASE Has(rest, e)
    <3>1. PICK i \in DOMAIN rest : rest[i] = e
      BY <2>2 DEF Has
    <3>2. i \in DOMAIN new /\ new[i] = e
      BY <1>3, <3>1
    <3> QED
      BY <2>2, <3>2 DEF Has
  <2>3. CASE e = d
    <3>1. Len(rest) + 1 \in DOMAIN new
      BY <1>3
    <3> QED
      BY <1>3, <2>3, <3>1 DEF Has
  <2> QED
    BY <2>1, <2>2, <2>3
<1> QED
  BY <1>2, <1>3, <1>5, <1>6

\* Moving a device (the LMDB transaction).
LEMMA MovesDevice ==
  ASSUME NEW recs, NEW own, IsStore(recs, own), Lmdb, NEW p \in People, NEW d \in Devices,
         NEW new, new = MovedTo(recs, own, p, d)
  PROVE  /\ IsStore(new.records, new.owner) /\ SameBut(new.records, recs, {d})
         /\ OnlyHas(new.records, d, p)
<1>1. PICK r : r = [q \in People |->
         IF q = p THEN Append(Without(recs[q], d), d)
         ELSE IF own[d] = q THEN Without(recs[q], d) ELSE recs[q]]
  OBVIOUS
<1>2. new.records = r /\ new.owner = [own EXCEPT ![d] = p]
  BY <1>1 DEF MovedTo
<1>3. /\ recs \in [People -> Seq(Devices)] /\ own \in Owners /\ OwnersAgree(recs, own)
      /\ \A q \in People : \A i, j \in DOMAIN recs[q] : recs[q][i] = recs[q][j] => i = j
  BY DEF IsStore, Lists
<1>4. ASSUME NEW q \in People
      PROVE  /\ r[q] \in Seq(Devices) /\ \A i, j \in DOMAIN r[q] : r[q][i] = r[q][j] => i = j
             /\ \A e \in Devices : Has(r[q], e) <=> (e = d /\ q = p) \/ (e # d /\ Has(recs[q], e))
  <2>1. PICK list : list = recs[q]
    OBVIOUS
  <2>2. list \in Seq(Devices) /\ \A i, j \in DOMAIN list : list[i] = list[j] => i = j
    BY <1>3, <2>1
  <2>3. CASE q = p
    <3>1. r[q] = Append(Without(list, d), d)
      BY <1>1, <2>1, <2>3
    <3>2. /\ r[q] \in Seq(Devices) /\ \A i, j \in DOMAIN r[q] : r[q][i] = r[q][j] => i = j
          /\ \A e : Has(r[q], e) <=> Has(list, e) \/ e = d
      BY <2>2, <3>1, AddedIs
    <3> QED
      BY <2>1, <2>3, <3>2
  <2>4. CASE q # p /\ own[d] = q
    <3>1. r[q] = Without(list, d)
      BY <1>1, <2>1, <2>4
    <3> QED
      BY <2>1, <2>2, <2>4, <3>1, WithoutIs
  <2>5. CASE q # p /\ own[d] # q
    <3>1. r[q] = list /\ ~Has(list, d)
      BY <1>1, <1>3, <2>1, <2>5 DEF OwnersAgree
    <3> QED
      BY <2>1, <2>2, <2>5, <3>1
  <2> QED
    BY <2>3, <2>4, <2>5
<1>5. Lists(r)
  <2>1. r = [q \in People |-> r[q]]
    BY <1>1
  <2>2. r \in [People -> Seq(Devices)]
    BY <1>4, <2>1
  <2> QED
    BY <1>4, <2>2 DEF Lists
<1>6. PICK o : o = [own EXCEPT ![d] = p]
  OBVIOUS
<1>7. o \in Owners /\ \A e \in Devices : o[e] = IF e = d THEN p ELSE own[e]
  BY <1>3, <1>6 DEF Owners
<1>8. OwnersAgree(r, o)
  BY <1>3, <1>4, <1>7 DEF OwnersAgree
<1>9. SameBut(r, recs, {d}) /\ OnlyHas(r, d, p)
  BY <1>4 DEF SameBut, OnlyHas
<1> QED
  BY <1>2, <1>5, <1>6, <1>7, <1>8, <1>9 DEF IsStore

\* What the process sees, the old file copied.
LEMMA CurrentIs ==
  ASSUME PushInv
  PROVE  /\ IsStore(Current.records, Current.owner)
         /\ SameBut(Current.records, records, {OldDevice})
         /\ ~Lmdb => Current.records = records
<1>1. CASE ~Lmdb \/ pushMigrated
  <2>1. Current.records = records /\ Current.owner = owner
    BY <1>1 DEF Current
  <2> QED
    BY <2>1 DEF PushInv, SameBut
<1>2. CASE Lmdb /\ ~pushMigrated
  <2>1. Current = MovedTo(records, owner, OldOwner, OldDevice)
    BY <1>2 DEF Current
  <2> QED
    BY <1>2, <2>1, MovesDevice, PushAssumption DEF PushInv
<1> QED
  BY <1>1, <1>2

LEMMA MoveTokenIs ==
  ASSUME PushInv, NEW p \in People, NEW d \in Devices, NEW new, new = MoveTokenToKey(p, d)
  PROVE  /\ IsStore(new.records, new.owner) /\ OnlyHas(new.records, d, p)
         /\ SameBut(new.records, records, {d, OldDevice})
<1>1. PICK cur : cur = Current
  OBVIOUS
<1>2. IsStore(cur.records, cur.owner) /\ SameBut(cur.records, records, {OldDevice})
  BY <1>1, CurrentIs
<1>3. CASE Lmdb /\ AlreadyRegistered(p, d)
  <2>1. new = cur /\ cur.owner[d] = p
    BY <1>1, <1>3 DEF MoveTokenToKey, AlreadyRegistered
  <2>2. OnlyHas(cur.records, d, p)
    BY <1>2, <1>3, <2>1 DEF IsStore, OwnersAgree, OnlyHas
  <2> QED
    BY <1>2, <2>1, <2>2 DEF SameBut
<1>4. CASE Lmdb /\ ~AlreadyRegistered(p, d)
  <2>1. new = MovedTo(cur.records, cur.owner, p, d)
    BY <1>1, <1>4 DEF MoveTokenToKey
  <2>2. /\ IsStore(new.records, new.owner) /\ SameBut(new.records, cur.records, {d})
        /\ OnlyHas(new.records, d, p)
    BY <1>2, <1>4, <2>1, MovesDevice
  <2> QED
    BY <1>2, <2>2 DEF SameBut
<1>5. CASE ~Lmdb
  <2>1. PICK r : r = [q \in People |-> IF q = p THEN Append(Without(records[q], d), d)
                                       ELSE Without(records[q], d)]
    OBVIOUS
  <2>2. new.records = r /\ new.owner = owner
    BY <1>5, <2>1 DEF MoveTokenToKey
  <2>3. /\ records \in [People -> Seq(Devices)] /\ owner \in Owners
        /\ \A q \in People : \A i, j \in DOMAIN records[q] : records[q][i] = records[q][j] => i = j
    BY DEF PushInv, IsStore, Lists
  <2>4. ASSUME NEW q \in People
        PROVE  /\ r[q] \in Seq(Devices) /\ \A i, j \in DOMAIN r[q] : r[q][i] = r[q][j] => i = j
               /\ \A e \in Devices : Has(r[q], e) <=> (e = d /\ q = p) \/ (e # d /\ Has(records[q], e))
    <3>1. PICK list : list = records[q]
      OBVIOUS
    <3>2. list \in Seq(Devices) /\ \A i, j \in DOMAIN list : list[i] = list[j] => i = j
      BY <2>3, <3>1
    <3>3. CASE q = p
      <4>1. r[q] = Append(Without(list, d), d)
        BY <2>1, <3>1, <3>3
      <4>2. /\ r[q] \in Seq(Devices) /\ \A i, j \in DOMAIN r[q] : r[q][i] = r[q][j] => i = j
            /\ \A e : Has(r[q], e) <=> Has(list, e) \/ e = d
        BY <3>2, <4>1, AddedIs
      <4> QED
        BY <3>1, <3>3, <4>2
    <3>4. CASE q # p
      <4>1. r[q] = Without(list, d)
        BY <2>1, <3>1, <3>4
      <4> QED
        BY <3>1, <3>2, <3>4, <4>1, WithoutIs
    <3> QED
      BY <3>3, <3>4
  <2>5. Lists(r)
    <3>1. r = [q \in People |-> r[q]]
      BY <2>1
    <3>2. r \in [People -> Seq(Devices)]
      BY <2>4, <3>1
    <3> QED
      BY <2>4, <3>2 DEF Lists
  <2>6. SameBut(r, records, {d, OldDevice}) /\ OnlyHas(r, d, p)
    BY <2>4 DEF SameBut, OnlyHas
  <2> QED
    BY <1>5, <2>2, <2>3, <2>5, <2>6 DEF IsStore
<1> QED
  BY <1>3, <1>4, <1>5

LEMMA DeleteTokenIs ==
  ASSUME PushInv, NEW p, NEW d, NEW new, new = DeleteToken(p, d)
  PROVE  /\ IsStore(new.records, new.owner)
         /\ \A q \in People, e \in Devices :
              Has(new.records[q], e) <=> Has(Current.records[q], e) /\ ~(q = p /\ e = d)
<1>1. PICK recs, own : recs = Current.records /\ own = Current.owner
  OBVIOUS
<1>2. IsStore(recs, own)
  BY <1>1, CurrentIs
<1>3. /\ recs \in [People -> Seq(Devices)] /\ own \in Owners /\ (Lmdb => OwnersAgree(recs, own))
      /\ \A q \in People : \A i, j \in DOMAIN recs[q] : recs[q][i] = recs[q][j] => i = j
  BY <1>2 DEF IsStore, Lists
<1>4. PICK r : r = [recs EXCEPT ![p] = Without(recs[p], d)]
  OBVIOUS
<1>5. PICK o : o = IF Lmdb /\ own[d] = p THEN [own EXCEPT ![d] = None] ELSE own
  OBVIOUS
<1>6. new.records = r /\ new.owner = o
  BY <1>1, <1>4, <1>5 DEF DeleteToken
<1>7. ASSUME NEW q \in People
      PROVE  /\ r[q] \in Seq(Devices) /\ \A i, j \in DOMAIN r[q] : r[q][i] = r[q][j] => i = j
             /\ \A e \in Devices : Has(r[q], e) <=> Has(recs[q], e) /\ ~(q = p /\ e = d)
  <2>1. PICK list : list = recs[q]
    OBVIOUS
  <2>2. list \in Seq(Devices) /\ \A i, j \in DOMAIN list : list[i] = list[j] => i = j
    BY <1>3, <2>1
  <2>3. CASE q = p
    <3>1. r[q] = Without(list, d)
      BY <1>3, <1>4, <2>1, <2>3
    <3> QED
      BY <2>1, <2>2, <2>3, <3>1, WithoutIs
  <2>4. CASE q # p
    <3>1. r[q] = list
      BY <1>3, <1>4, <2>1, <2>4
    <3> QED
      BY <2>1, <2>2, <2>4, <3>1
  <2> QED
    BY <2>3, <2>4
<1>8. Lists(r)
  <2>1. r = [q \in People |-> r[q]]
    BY <1>3, <1>4
  <2>2. r \in [People -> Seq(Devices)]
    BY <1>7, <2>1
  <2> QED
    BY <1>7, <2>2 DEF Lists
<1>9. /\ o \in Owners
      /\ \A e \in Devices : o[e] = IF Lmdb /\ e = d /\ own[d] = p THEN None ELSE own[e]
  BY <1>3, <1>5 DEF Owners
<1>10. ASSUME Lmdb PROVE OwnersAgree(r, o)
  BY <1>3, <1>7, <1>9, <1>10, PushAssumption DEF OwnersAgree
<1> QED
  BY <1>1, <1>6, <1>7, <1>8, <1>9, <1>10 DEF IsStore

\* The store after a write that may have failed, and its file.
LEMMA CommitIs ==
  ASSUME PushInv, NEW new, NEW ok \in BOOLEAN, Commit(new, ok), UNCHANGED mix,
         IsStore(new.records, new.owner)
  PROVE  /\ IsStore(records, owner)' /\ Lists(recordFile)'
         /\ records' = IF Lmdb /\ ~ok THEN Current.records ELSE new.records
         /\ ~Lmdb => recordFile' = IF ok THEN new.records ELSE recordFile
<1>1. /\ records' = IF Lmdb /\ ~ok THEN Current.records ELSE new.records
      /\ owner' = IF Lmdb /\ ~ok THEN Current.owner ELSE new.owner
      /\ recordFile' = IF ~Lmdb /\ ok THEN new.records ELSE recordFile
  <2>1. PICK stored : stored = IF Lmdb /\ ~ok THEN Current ELSE new
    OBVIOUS
  <2>2. /\ records' = stored.records /\ owner' = stored.owner
        /\ recordFile' = IF ~Lmdb /\ ok THEN stored.records ELSE recordFile
    BY <2>1 DEF Commit
  <2> QED
    BY <2>1, <2>2
<1>2. Lmdb' <=> Lmdb
  BY DEF Lmdb
<1>3. IsStore(Current.records, Current.owner)
  BY CurrentIs
<1>4. IsStore(records, owner)'
  <2>1. IsStore(records', owner')
    BY <1>1, <1>3
  <2> QED
    BY <1>2, <2>1 DEF IsStore, Lists, OwnersAgree
<1>5. Lists(recordFile)'
  BY <1>1 DEF PushInv, IsStore, Lists
<1> QED
  BY <1>1, <1>4, <1>5

\* Requests on their way, when nobody else works on a device that is settled.
LEMMA DeviceOthers ==
  ASSUME Typed, Alone, PushInv, NEW h \in Handlers, OthersKept(h),
         \A d \in Devices :
           \/ registered'[d] \in {None, registered[d]}
           \/ Working(h) /\ jobs[h].alone /\ d \in jobs[h].keys
  PROVE  \A g \in Handlers \ {h} : Working(g)' => DeviceJob(jobs[g])'
<1> SUFFICES ASSUME NEW g \in Handlers \ {h}, Working(g)', jobs'[g].pc \in {"register", "unregister"}
             PROVE  DeviceJob(jobs[g])'
  BY DEF DeviceJob
<1>1. /\ Working(g) /\ jobs'[g].pc = jobs[g].pc /\ jobs'[g].arg = jobs[g].arg
      /\ jobs'[g].keys = jobs[g].keys
  BY SameFields
<1>2. PICK d : d = jobs[g].arg.device
  OBVIOUS
<1>3. d \in Devices /\ jobs[g].keys = {d} /\ registered[d] = None /\ jobs[g].arg.person \in People
  BY <1>1, <1>2 DEF PushInv, DeviceJob
<1>4. ~(Working(h) /\ jobs[h].alone /\ d \in jobs[h].keys)
  BY <1>1, <1>3 DEF Alone, On
<1>5. registered'[d] = None
  BY <1>3, <1>4
<1> QED
  BY <1>1, <1>2, <1>3, <1>5 DEF DeviceJob

\* Steps that leave the devices alone.
LEMMA PushQuiet ==
  ASSUME Typed, Alone, PushInv, NEW h \in Handlers, NEW pcs, Lands(h, pcs),
         pcs \cap {"register", "unregister"} = {},
         UNCHANGED <<records, owner, recordFile, registered>>
  PROVE  PushInv'
<1>1. OthersKept(h) /\ UNCHANGED mix /\ (Working(h)' => DeviceJob(jobs[h])')
  BY DEF Lands, DeviceJob
<1>2. \A g \in Handlers \ {h} : Working(g)' => DeviceJob(jobs[g])'
  BY <1>1, DeviceOthers
<1>3. Lmdb' <=> Lmdb
  BY <1>1 DEF Lmdb
<1>4. IsStore(records, owner)' /\ Lists(recordFile)' /\ DevicesKept'
  BY <1>3 DEF PushInv, IsStore, Lists, OwnersAgree, DevicesKept, OnlyHas
<1> QED
  BY <1>1, <1>2, <1>4 DEF PushInv

\* A request about a device goes on, and what is registered stays so.
LEMMA PushFrom ==
  ASSUME Typed, Alone, PushInv, NEW h \in Handlers, NEW pcs, Lands(h, pcs),
         pcs \cap {"register", "unregister"} = {},
         IsStore(records, owner)', Lists(recordFile)', DevicesKept',
         registered' \in Owners, registered'[OldDevice] = None,
         \A d \in Devices :
           \/ registered'[d] \in {None, registered[d]}
           \/ Working(h) /\ jobs[h].alone /\ d \in jobs[h].keys
  PROVE  PushInv'
<1>1. OthersKept(h) /\ (Working(h)' => DeviceJob(jobs[h])')
  BY DEF Lands, DeviceJob
<1>2. \A g \in Handlers \ {h} : Working(g)' => DeviceJob(jobs[g])'
  BY <1>1, DeviceOthers
<1> QED
  BY <1>1, <1>2 DEF PushInv

LEMMA AskPushKeeps ==
  ASSUME Typed, Alone, PushInv, NEW h \in Handlers, NEW op \in {"register", "unregister"},
         NEW p \in People, NEW d \in Devices, AskPush(h, op, p, d)
  PROVE  PushInv'
<1>1. /\ Begin(h, op, op, {d}, [person |-> p, device |-> d])
      /\ registered' = [registered EXCEPT ![d] = None]
      /\ UNCHANGED <<records, owner, recordFile>>
  BY DEF AskPush
<1>2. PICK a : a = [person |-> p, device |-> d]
  OBVIOUS
<1>3. a.person = p /\ a.device = d
  BY <1>2
<1>4. OthersKept(h) /\ jobs'[h] = NewJob(h, op, op, {d}, a) /\ UNCHANGED mix
  BY <1>1, <1>2, Begins
<1>5. jobs'[h].arg = a /\ jobs'[h].keys = {d}
  BY <1>4, NewJobIs
<1>6. registered \in Owners
  BY DEF PushInv
<1>7. /\ registered' \in Owners
      /\ \A e \in Devices : registered'[e] = IF e = d THEN None ELSE registered[e]
  BY <1>1, <1>6 DEF Owners
<1>8. \A g \in Handlers \ {h} : Working(g)' => DeviceJob(jobs[g])'
  BY <1>4, <1>7, DeviceOthers
<1>9. DeviceJob(jobs[h])'
  BY <1>3, <1>5, <1>7 DEF DeviceJob
<1>10. Lmdb' <=> Lmdb
  BY <1>4 DEF Lmdb
<1>11. IsStore(records, owner)' /\ Lists(recordFile)'
  BY <1>1, <1>10 DEF PushInv, IsStore, Lists, OwnersAgree
<1>12. DevicesKept'
  BY <1>1, <1>7, <1>10 DEF PushInv, DevicesKept, OnlyHas
<1>13. registered'[OldDevice] = None
  BY <1>7, PushAssumption DEF PushInv
<1> QED
  BY <1>7, <1>8, <1>9, <1>11, <1>12, <1>13 DEF PushInv

\* What is registered, after a write: as it was, or as the write was asked to
\* make it, in the memory and in the file.
LEMMA DevicesWritten ==
  ASSUME PushInv, UNCHANGED mix,
         \A d \in Devices : registered'[d] # None =>
           \/ /\ OnlyHas(records', d, registered'[d])
              /\ ~Lmdb => recordFile' = records'
           \/ /\ registered'[d] = registered[d] /\ OnlyHas(records', d, registered[d])
              /\ ~Lmdb => recordFile' \in {recordFile, records'}
  PROVE  DevicesKept'
<1>1. Lmdb' <=> Lmdb
  BY DEF Lmdb
<1> SUFFICES ASSUME NEW d \in Devices, registered'[d] # None
             PROVE  /\ OnlyHas(records', d, registered'[d])
                    /\ ~Lmdb => OnlyHas(recordFile', d, registered'[d])
  BY <1>1 DEF DevicesKept, OnlyHas
<1>2. registered'[d] = registered[d] => OnlyHas(records, d, registered[d])
                                        /\ (~Lmdb => OnlyHas(recordFile, d, registered[d]))
  BY DEF PushInv, DevicesKept
<1> QED
  BY <1>2

\* A device that is somebody's is so for the process, too.
LEMMA CurrentHas ==
  ASSUME PushInv, NEW d \in Devices, registered[d] # None
  PROVE  OnlyHas(Current.records, d, registered[d])
<1>1. d # OldDevice /\ OnlyHas(records, d, registered[d])
  BY DEF PushInv, DevicesKept
<1> QED
  BY <1>1, CurrentIs DEF SameBut, OnlyHas

LEMMA RegisterKeeps ==
  ASSUME Typed, Alone, PushInv, NEW h \in Handlers, Register(h)
  PROVE  PushInv'
<1>1. PICK p, d : p = jobs[h].arg.person /\ d = jobs[h].arg.device
  OBVIOUS
<1>2. PICK ok \in BOOLEAN :
        /\ Commit(MoveTokenToKey(p, d), ok)
        /\ IF ok THEN Registered(h, d, p) ELSE UNCHANGED registered
        /\ Finish(h)
  BY <1>1 DEF Register
<1>3. /\ Working(h) /\ p \in People /\ d \in Devices /\ jobs[h].keys = {d}
      /\ registered[d] = None
  BY <1>1 DEF Register, At, PushInv, DeviceJob
<1>4. PICK new : new = MoveTokenToKey(p, d)
  OBVIOUS
<1>5. /\ IsStore(new.records, new.owner) /\ OnlyHas(new.records, d, p)
      /\ SameBut(new.records, records, {d, OldDevice})
  BY <1>3, <1>4, MoveTokenIs
<1>6. Lands(h, {}) /\ UNCHANGED mix
  BY <1>2, LandsIdle DEF Leads, Lands
<1>7. /\ IsStore(records, owner)' /\ Lists(recordFile)'
      /\ records' = IF Lmdb /\ ~ok THEN Current.records ELSE new.records
      /\ ~Lmdb => recordFile' = IF ok THEN new.records ELSE recordFile
  BY <1>2, <1>4, <1>5, <1>6, CommitIs
<1>8. registered \in Owners /\ registered[OldDevice] = None
  BY DEF PushInv
<1>9. \/ registered' = registered
      \/ ok /\ jobs[h].alone /\ d # OldDevice /\ registered' = [registered EXCEPT ![d] = p]
  BY <1>2 DEF Registered
<1>10. /\ registered' \in Owners /\ registered'[OldDevice] = None
       /\ \A e \in Devices :
            \/ registered'[e] = registered[e]
            \/ ok /\ jobs[h].alone /\ e = d /\ registered'[e] = p
  BY <1>3, <1>8, <1>9, PushAssumption DEF Owners
<1>11. ASSUME NEW e \in Devices, registered'[e] # None
       PROVE  \/ /\ OnlyHas(records', e, registered'[e])
                 /\ ~Lmdb => recordFile' = records'
              \/ /\ registered'[e] = registered[e] /\ OnlyHas(records', e, registered[e])
                 /\ ~Lmdb => recordFile' \in {recordFile, records'}
  <2>1. CASE registered'[e] = registered[e]
    <3>1. e # d /\ e # OldDevice /\ OnlyHas(records, e, registered[e])
      BY <1>3, <1>11, <2>1 DEF PushInv, DevicesKept
    <3>2. OnlyHas(new.records, e, registered[e])
      BY <1>5, <3>1 DEF SameBut, OnlyHas
    <3>3. OnlyHas(Current.records, e, registered[e])
      BY <1>11, <2>1, CurrentHas
    <3> QED
      BY <1>7, <2>1, <3>2, <3>3
  <2>2. CASE registered'[e] # registered[e]
    <3>1. ok /\ e = d /\ registered'[e] = p
      BY <1>10, <2>2
    <3> QED
      BY <1>5, <1>7, <3>1
  <2> QED
    BY <2>1, <2>2
<1>12. DevicesKept'
  BY <1>6, <1>11, DevicesWritten
<1>13. \A e \in Devices :
         \/ registered'[e] \in {None, registered[e]}
         \/ Working(h) /\ jobs[h].alone /\ e \in jobs[h].keys
  BY <1>3, <1>10
<1> QED
  BY <1>6, <1>7, <1>10, <1>12, <1>13, PushFrom

LEMMA UnregisterKeeps ==
  ASSUME Typed, Alone, PushInv, NEW h \in Handlers, Unregister(h)
  PROVE  PushInv'
<1>1. PICK p, d : p = jobs[h].arg.person /\ d = jobs[h].arg.device
  OBVIOUS
<1>2. PICK ok \in BOOLEAN : Commit(DeleteToken(p, d), ok) /\ Finish(h)
  BY <1>1 DEF Unregister
<1>3. d \in Devices /\ registered[d] = None /\ UNCHANGED registered
  BY <1>1 DEF Unregister, At, PushInv, DeviceJob
<1>4. PICK new : new = DeleteToken(p, d)
  OBVIOUS
<1>5. /\ IsStore(new.records, new.owner)
      /\ \A q \in People, e \in Devices :
           Has(new.records[q], e) <=> Has(Current.records[q], e) /\ ~(q = p /\ e = d)
  BY <1>4, DeleteTokenIs
<1>6. Lands(h, {}) /\ UNCHANGED mix
  BY <1>2, LandsIdle DEF Leads, Lands
<1>7. /\ IsStore(records, owner)' /\ Lists(recordFile)'
      /\ records' = IF Lmdb /\ ~ok THEN Current.records ELSE new.records
      /\ ~Lmdb => recordFile' = IF ok THEN new.records ELSE recordFile
  BY <1>2, <1>4, <1>5, <1>6, CommitIs
<1>8. ASSUME NEW e \in Devices, registered'[e] # None
      PROVE  /\ registered'[e] = registered[e] /\ OnlyHas(records', e, registered[e])
             /\ ~Lmdb => recordFile' \in {recordFile, records'}
  <2>1. e # d /\ OnlyHas(Current.records, e, registered[e])
    BY <1>3, <1>8, CurrentHas
  <2>2. OnlyHas(new.records, e, registered[e])
    BY <1>5, <2>1 DEF OnlyHas
  <2> QED
    BY <1>3, <1>7, <2>1, <2>2
<1>9. DevicesKept'
  BY <1>6, <1>8, DevicesWritten
<1> QED
  BY <1>3, <1>6, <1>7, <1>9, PushFrom DEF PushInv

\* A device the service knows no more leaves only the person it was listed of.
LEMMA DropStaleKeeps ==
  ASSUME Typed, Alone, PushInv, NEW h \in Handlers, DropStale(h)
  PROVE  PushInv'
<1>1. PICK p, d : p = jobs[h].arg.person /\ d = Head(jobs[h].copy.todo)
  OBVIOUS
<1>2. PICK ok \in BOOLEAN :
        /\ Commit(DeleteToken(p, d), ok)
        /\ registered' = IF registered[d] = p THEN [registered EXCEPT ![d] = None] ELSE registered
        /\ GoWith(h, "send", [jobs[h].copy EXCEPT !.todo = Tail(@)])
  BY <1>1 DEF DropStale
<1>3. Working(h) /\ registered \in Owners /\ registered[OldDevice] = None
  BY DEF DropStale, At, PushInv
<1>4. PICK new : new = DeleteToken(p, d)
  OBVIOUS
<1>5. /\ IsStore(new.records, new.owner)
      /\ \A q \in People, e \in Devices :
           Has(new.records[q], e) <=> Has(Current.records[q], e) /\ ~(q = p /\ e = d)
  BY <1>4, DeleteTokenIs
<1>6. Lands(h, {"send"}) /\ UNCHANGED mix
  BY <1>2, <1>3, LandsAt DEF Leads, Lands
<1>7. /\ IsStore(records, owner)' /\ Lists(recordFile)'
      /\ records' = IF Lmdb /\ ~ok THEN Current.records ELSE new.records
      /\ ~Lmdb => recordFile' = IF ok THEN new.records ELSE recordFile
  BY <1>2, <1>4, <1>5, <1>6, CommitIs
<1>8. /\ registered' \in Owners
      /\ \A e \in Devices :
           registered'[e] = IF e = d /\ registered[d] = p THEN None ELSE registered[e]
  BY <1>2, <1>3 DEF Owners
<1>9. registered'[OldDevice] = None
  BY <1>3, <1>8, PushAssumption
<1>10. ASSUME NEW e \in Devices, registered'[e] # None
       PROVE  /\ registered'[e] = registered[e] /\ OnlyHas(records', e, registered[e])
              /\ ~Lmdb => recordFile' \in {recordFile, records'}
  <2>1. registered'[e] = registered[e] /\ ~(e = d /\ registered[e] = p)
    BY <1>8, <1>10
  <2>2. OnlyHas(Current.records, e, registered[e])
    BY <1>10, <2>1, CurrentHas
  <2>3. OnlyHas(new.records, e, registered[e])
    BY <1>5, <2>1, <2>2 DEF OnlyHas
  <2> QED
    BY <1>7, <2>1, <2>2, <2>3
<1>11. DevicesKept'
  BY <1>6, <1>10, DevicesWritten
<1>12. \A e \in Devices : registered'[e] \in {None, registered[e]}
  BY <1>8
<1> QED
  BY <1>6, <1>7, <1>8, <1>9, <1>11, <1>12, PushFrom

LEMMA ListKeeps ==
  ASSUME Typed, Alone, PushInv, NEW h \in Handlers, ListDevices(h)
  PROVE  PushInv'
<1>1. /\ records' = Current.records /\ owner' = Current.owner
      /\ UNCHANGED <<recordFile, registered>>
      /\ Working(h) /\ (Finish(h) \/ \E copy : GoWith(h, "token", copy))
  BY DEF ListDevices, At
<1>2. Lands(h, {"token"}) /\ UNCHANGED mix
  BY <1>1, LandsIdle, LandsAt DEF Leads, Lands
<1>3. Lmdb' <=> Lmdb
  BY <1>2 DEF Lmdb
<1>4. IsStore(Current.records, Current.owner)
  BY CurrentIs
<1>5. IsStore(records', owner')
  BY <1>1, <1>4
<1>6. IsStore(records, owner)' /\ Lists(recordFile)'
  BY <1>1, <1>3, <1>5 DEF PushInv, IsStore, Lists, OwnersAgree
<1>7. ASSUME NEW e \in Devices, registered'[e] # None
      PROVE  /\ registered'[e] = registered[e] /\ OnlyHas(records', e, registered[e])
             /\ ~Lmdb => recordFile' \in {recordFile, records'}
  BY <1>1, <1>7, CurrentHas
<1>8. DevicesKept'
  BY <1>2, <1>7, DevicesWritten
<1> QED
  BY <1>1, <1>2, <1>6, <1>8, PushFrom DEF PushInv

LEMMA PushInvStep ==
  ASSUME Typed, Alone, PushInv, [Next]_accessVars
  PROVE  PushInv'
<1>1. CASE UNCHANGED <<jobs, mix, pushVars>>
  BY <1>1 DEF pushVars, PushInv, IsStore, Lists, Owners, OwnersAgree, OnlyHas, DevicesKept,
     DeviceJob, Working, Lmdb, Has
<1>2. CASE UNCHANGED accessVars
  BY <1>1, <1>2 DEF accessVars, requestVars
<1>3. CASE Rest
  <2>1. CASE Tick /\ UNCHANGED pushVars
    BY <1>1, <2>1 DEF Tick
  <2>2. CASE Restart
    <3>1. /\ records' = IF Lmdb THEN records ELSE recordFile
          /\ UNCHANGED <<owner, recordFile, registered, mix>>
      BY <2>2 DEF Restart, PushRestart, Stopped
    <3>2. Lmdb' <=> Lmdb
      BY <3>1 DEF Lmdb
    <3>3. IsStore(records, owner)' /\ Lists(recordFile)'
      BY <3>1, <3>2 DEF PushInv, IsStore, Lists, OwnersAgree
    <3>4. DevicesKept'
      BY <3>1, <3>2 DEF PushInv, DevicesKept, OnlyHas
    <3> QED
      BY <2>2, <3>1, <3>3, <3>4, NobodyWorks DEF PushInv
  <2> QED
    BY <1>3, <2>1, <2>2 DEF Rest
<1>4. ASSUME NEW h \in Handlers, PushNext(h) PROVE PushInv'
  <2>1. CASE \E op \in {"register", "unregister"}, p \in People, d \in Devices : AskPush(h, op, p, d)
    BY <2>1, AskPushKeeps
  <2>2. CASE Register(h) \/ Unregister(h) \/ DropStale(h) \/ ListDevices(h)
    BY <2>2, RegisterKeeps, UnregisterKeeps, DropStaleKeeps, ListKeeps
  <2>3. CASE (\E p \in People : AskSend(h, p)) \/ AccessToken(h) \/ SendOne(h)
    <3>1. UNCHANGED <<records, owner, recordFile, registered>>
      BY <2>3 DEF AskSend, AccessToken, SendOne, pushVars
    <3>2. CASE \E p \in People : AskSend(h, p)
      <4>1. PICK arg : Begin(h, "send", "list", {h}, arg)
        BY <3>2 DEF AskSend
      <4>2. Lands(h, {"list"})
        BY <4>1, LandsFirst DEF Leads
      <4> QED
        BY <3>1, <4>2, PushQuiet
    <3>3. CASE AccessToken(h) \/ SendOne(h)
      <4>1. Working(h) /\ (Finish(h) \/ \E pc \in {"send", "stale"} : Go(h, pc) \/ \E copy : GoWith(h, pc, copy))
        <5>1. CASE AccessToken(h)
          BY <5>1 DEF AccessToken, At
        <5>2. CASE SendOne(h)
          BY <5>2 DEF SendOne, At
        <5> QED
          BY <3>3, <5>1, <5>2
      <4>2. Lands(h, {"send", "stale"})
        BY <4>1, LandsIdle, LandsAt DEF Leads
      <4> QED
        BY <3>1, <4>2, PushQuiet
    <3> QED
      BY <2>3, <3>2, <3>3
  <2> QED
    BY <1>4, <2>1, <2>2, <2>3 DEF PushNext, PushStep
<1>5. (TokenPcs \cup {"keep"} \cup RolePcs \cup PersonPcs \cup SettingPcs \cup KeeperPcs \cup GroupPcs)
        \cap {"register", "unregister"} = {}
  BY DEF TokenPcs, LoadPcs, RecordPcs, ProfilePcs, RolePcs, PersonPcs, AdminWaits, SettingPcs,
     KeeperPcs, GroupPcs
<1>6. ASSUME NEW h \in Handlers,
             \/ SessionNext(h) \/ RolesNext(h) \/ PeopleNext(h) \/ SettingsNext(h)
             \/ KeeperNext(h) \/ GroupsNext(h) \/ DropNext(h)
      PROVE  PushInv'
  <2>1. UNCHANGED pushVars
    BY <1>6 DEF SessionNext, RolesNext, PeopleNext, SettingsNext, KeeperNext, GroupsNext, DropNext
  <2>2. PICK pcs : Lands(h, pcs) /\ pcs \cap {"register", "unregister"} = {}
    BY <1>5, <1>6, StepsLand DEF Leads, KeeperStored
  <2> QED
    BY <2>1, <2>2, PushQuiet DEF pushVars
<1> QED
  BY <1>2, <1>3, <1>4, <1>6, StepsAre

LEMMA PushInvFirst ==
  ASSUME Init
  PROVE  PushInv
<1>1. /\ records = [p \in People |-> IF p = OldOwner /\ ~Lmdb THEN <<OldDevice>> ELSE <<>>]
      /\ recordFile = records
      /\ owner = [d \in Devices |-> None] /\ registered = [d \in Devices |-> None]
  BY DEF Init, PushInit
<1>2. Lists(records)
  <2>1. ASSUME NEW p \in People
        PROVE  /\ records[p] \in Seq(Devices)
               /\ \A i, j \in DOMAIN records[p] : records[p][i] = records[p][j] => i = j
    <3>1. CASE records[p] = <<>>
      BY <3>1
    <3>2. CASE records[p] = <<OldDevice>>
      BY <3>2, PushAssumption
    <3> QED
      BY <1>1, <3>1, <3>2
  <2>2. records = [p \in People |-> records[p]]
    BY <1>1
  <2>3. records \in [People -> Seq(Devices)]
    BY <2>1, <2>2
  <2> QED
    BY <2>1, <2>3 DEF Lists
<1>3. Lmdb => OwnersAgree(records, owner)
  BY <1>1, PushAssumption DEF OwnersAgree, Has
<1>4. \A h \in Handlers : ~Working(h)
  BY DEF Init, RequestsInit, Working, Idle
<1> QED
  BY <1>1, <1>2, <1>3, <1>4, PushAssumption DEF PushInv, IsStore, Owners, DevicesKept

LEMMA OwnerIsOne ==
  ASSUME PushInv
  PROVE  OneOwner
<1>1. ASSUME NEW d \in Devices, registered[d] # None, NEW p \in People
      PROVE  (\E i \in DOMAIN Current.records[p] : Current.records[p][i] = d) <=> p = registered[d]
  BY <1>1, CurrentHas DEF OnlyHas, Has
<1>2. ASSUME NEW p \in People
      PROVE  \A i, j \in 1 .. Cardinality(Devices) :
               {i, j} \subseteq DOMAIN records[p] /\ records[p][i] = records[p][j] => i = j
  BY DEF PushInv, IsStore, Lists
<1> QED
  BY <1>1, <1>2 DEF OneOwner

-----------------------------------------------------------------------------
(* A group is put only under a group that ERPNext has as one, whatever the *)
(* requests that add, promote and move groups do in between: the parent is *)
(* read, and promoted, before the child is placed (erpdb/admin).           *)
THEOREM GroupsAcceptChildren == Spec => []GroupsAccept
<1>1. Init => Typed /\ GroupInv
  BY InitTyped, GroupInvFirst
<1>2. Typed /\ GroupInv /\ [Next]_accessVars => Typed' /\ GroupInv'
  BY TypedStep, GroupInvStep
<1>3. GroupInv => GroupsAccept
  BY DEF GroupInv
<1> QED
  BY <1>1, <1>2, <1>3, PTL DEF Spec

(* The code of the warehouse keeper, once a change of it was answered that *)
(* no other change of the settings overlapped, is the same in the store,   *)
(* the running identity, the settings and the environment the server       *)
(* starts with, through failures and restarts (core/admin/settings).       *)
THEOREM KeeperCodeAgrees == Spec => []CodeAgrees
<1>1. Init => Typed /\ SessionInv /\ CodeInv
  BY InitTyped, SessionsBegin, CodeInvFirst
<1>2. Typed /\ SessionInv /\ CodeInv /\ [Next]_accessVars => Typed' /\ SessionInv' /\ CodeInv'
  BY TypedStep, SessionsStep, CodeInvStep DEF SessionInv
<1>3. CodeInv => CodeAgrees
  BY DEF CodeInv
<1> QED
  BY <1>1, <1>2, <1>3, PTL DEF Spec

(* A role or an assignment whose change was confirmed, and not raced by    *)
(* another one of it, is in the memory and in the file of the role store   *)
(* as it was confirmed, although the memory changes before the file and    *)
(* keeps what the file refused (store/role_store).                         *)
THEOREM RolesAreKept == Spec => []RolesHold
<1>1. Init => Typed /\ SessionInv /\ RoleInv
  BY InitTyped, SessionsBegin, RoleInvFirst
<1>2. Typed /\ SessionInv /\ RoleInv /\ [Next]_accessVars => Typed' /\ SessionInv' /\ RoleInv'
  BY TypedStep, SessionsStep, RoleInvStep DEF SessionInv
<1>3. RoleInv => RolesHold
  BY DEF RoleInv
<1> QED
  BY <1>1, <1>2, <1>3, PTL DEF Spec

(* A device whose registration was answered, and not raced by another      *)
(* request about it, is listed of the person who registered it and of      *)
(* nobody else, until a request about it comes or the service disowns it:  *)
(* the two stores move it from list to list, fail and start again in       *)
(* between (store/push_token_store).                                       *)
THEOREM DevicesHaveOneOwner == Spec => []OneOwner
<1>1. Init => Typed /\ SessionInv /\ PushInv
  BY InitTyped, SessionsBegin, PushInvFirst
<1>2. Typed /\ SessionInv /\ PushInv /\ [Next]_accessVars => Typed' /\ SessionInv' /\ PushInv'
  BY TypedStep, SessionsStep, PushInvStep DEF SessionInv
<1>3. PushInv => OneOwner
  BY OwnerIsOne
<1> QED
  BY <1>1, <1>2, <1>3, PTL DEF Spec
==============================================================================
