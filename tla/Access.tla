------------------------------- MODULE Access -------------------------------
(***************************************************************************)
(* Who may do what: sessions and profiles, the people administrators       *)
(* manage, roles, settings, devices and item groups, served at the same    *)
(* time, with restarts of the server.                                      *)
(***************************************************************************)
EXTENDS Sessions, Settings, PushTokens, ItemGroups

accessVars == <<requestVars, sessionVars, profileVars, roleVars, adminVars, settingsVars,
                pushVars, groupVars>>

Restart ==
  /\ Stopped
  /\ SessionsRestart /\ RolesRestart /\ SettingsRestart /\ PushRestart
  /\ UNCHANGED <<adminVars, groupVars>>

Next ==
  \/ \E h \in Handlers :
       \/ SessionStep(h) /\ UNCHANGED <<roleVars, adminVars, settingsVars, pushVars, groupVars>>
       \/ /\ \E t \in issued, c \in DOMAIN Capabilities : AskAct(h, t, c)
          /\ UNCHANGED <<roleVars, adminVars, settingsVars, pushVars, groupVars>>
       \/ /\ \/ RoleStep(h)
             \/ \E id \in CustomRoles, caps \in SUBSET DOMAIN Capabilities : AskRole(h, id, caps)
             \/ \E role \in {"customer", "aparatchi"}, ref \in Customers \ Absentees,
                   id \in CustomRoles \cup {"werka", "aparatchi"} : AskAssignment(h, role, ref, id)
          /\ UNCHANGED <<sessionVars, profileVars, adminVars, settingsVars, pushVars, groupVars>>
       \/ /\ AdminStep(h) \/ AdminBegin(h)
          /\ UNCHANGED <<sessionVars, profileVars, roleVars, settingsVars, pushVars, groupVars>>
       \/ /\ UpdateStep(h)
          /\ UNCHANGED <<sessionVars, profileVars, roleVars, adminVars, pushVars, groupVars>>
       \/ /\ WerkaStep(h)
          /\ UNCHANGED <<sessionVars, profileVars, roleVars, pushVars, groupVars>>
       \/ PushStep(h) /\ UNCHANGED <<sessionVars, profileVars, roleVars, adminVars, settingsVars, groupVars>>
       \/ GroupStep(h) /\ UNCHANGED <<sessionVars, profileVars, roleVars, adminVars, settingsVars, pushVars>>
       \/ /\ Dropped(h) /\ SettingsDropped(h)
          /\ UNCHANGED <<sessionVars, profileVars, roleVars, adminVars, pushVars, groupVars>>
  \/ Tick /\ UNCHANGED <<sessionVars, profileVars, roleVars, adminVars, settingsVars, pushVars, groupVars>>
  \/ Restart

Init ==
  /\ RequestsInit /\ SessionsInit /\ RolesInit /\ AdminInit /\ SettingsInit /\ PushInit /\ GroupsInit

Spec == Init /\ [][Next]_accessVars

------------------------------------------------------------------------------
(* Every record has the fields its kind has, wherever it is kept.          *)
TypeOK ==
  /\ \A t \in Tokens :
       {rawKeys[t], cache[t]} \cup {Decode(s) : s \in {sessions[t], disk[t]} \ {None}}
         \subseteq SessionRecords \cup {None}
  /\ expiry \subseteq (Nat \X Tokens)
  /\ \A r \in Refs : StateFor(r) \in StateRecords
  /\ AreRows(assigned)
  /\ DOMAIN identity = {"name", "code"} /\ configLock \in Handlers \cup {None}
  /\ isGroup \subseteq Groups

(* A session ends by logging out or by expiring, and then it has ended:    *)
(* a token whose logout was answered with no other request of it in flight *)
(* is nowhere any more, but for an expired record in the file, and one     *)
(* nobody logged out is in the store until the time it was last given,     *)
(* whatever else was stored, purged, migrated or lost with the cache       *)
(* (core/session/manager, core/session/store).                             *)
SessionsEndProperly ==
  /\ \A t \in ended :
       /\ {sessions[t], rawKeys[t], cache[t]} = {None}
       /\ disk[t] = None \/ IsExpired(Decode(disk[t]))
  /\ \A t \in Tokens : granted[t] # None /\ now < granted[t] =>
       sessions[t] # None \/ rawKeys[t] # None

(* A supplier whose blocking or removal was confirmed, and not raced by    *)
(* another change of the same record, does not log in until that is taken  *)
(* back, although items, codes and phones are changed and the old file is  *)
(* read again in between; the list of inactive suppliers shows it. What a  *)
(* person may do is what the confirmed definition of its role says.        *)
Reaches(h, op, from, to) ==
  At(h, from) /\ jobs[h].op = op /\ jobs'[h].op = op /\ jobs'[h].pc = to

GrantKept(job) ==
  LET role == <<"role", job.copy.assignment.role>> IN
  job.copy.assignment # None /\ role \in DOMAIN roleKept /\ roleKept[role] # None
    => job.arg.needs \in roleKept[role]

BarredStaysOut ==
  /\ [][\A h \in Handlers :
          /\ Reaches(h, "login", "decide", "create") =>
               promised[jobs'[h].copy.ref].blocked # TRUE
          /\ Reaches(h, "act", "judge", "granted") => GrantKept(jobs[h])]_accessVars
  /\ [](\A r \in Suppliers : promised[r].blocked = TRUE => r \in InactiveSuppliers)

(* What was confirmed is kept: the state, the code and the items of a      *)
(* supplier, the rows of the items in ERPNext, the phone, the nickname,    *)
(* the roles in memory and in the file, the code of the warehouse keeper   *)
(* in all four places, the one owner of a device, the parents that accept  *)
(* children. Of a whole set of items, only those rows are as confirmed     *)
(* which the catalog told the request rightly.                             *)
PromisesHold ==
  \A r \in Suppliers :
    LET p == promised[r] IN
    /\ p.blocked # None => StateFor(r).blocked = p.blocked
    /\ p.removed # None => StateFor(r).removed = p.removed
    /\ p.code # None => SupplierCode(r, StateFor(r)) = p.code
    /\ p.phone # None => PhoneOf(r) = p.phone
    /\ \A i \in Items : p.items[i] # None =>
         (i \in StateFor(r).items) = p.items[i]
    /\ \A i \in Items : p.rows[i] # None => HasRow(i, r, assigned) = p.rows[i]

RolesHold ==
  \A k \in DOMAIN roleKept : roleKept[k] # None =>
    \A known \in {InMemory, Load(roleFile)} :
      LET table == IF k[1] = "role" THEN known.roles ELSE known.assignments IN
      k[2] \in DOMAIN table /\ table[k[2]] = roleKept[k]

OneOwner ==
  /\ \A d \in Devices : registered[d] # None =>
       \A p \in People : (\E i \in DOMAIN Current.records[p] : Current.records[p][i] = d)
                         <=> p = registered[d]
  /\ \A p \in People, i, j \in 1..Cardinality(Devices) :
       {i, j} \subseteq DOMAIN records[p] /\ records[p][i] = records[p][j] => i = j

CodeAgrees ==
  settled # None => /\ settled = identity.code /\ settled = config.code
                    /\ settled = env["MOBILE_DEV_WERKA_CODE"]

GroupsAccept == \A g \in placed : parent[g] \in isGroup \cup {Root}

AcknowledgedHolds ==
  /\ PromisesHold /\ RolesHold /\ OneOwner /\ CodeAgrees /\ GroupsAccept
  /\ chosen = "chosen" => prefs # None /\ prefs.nickname = "chosen" /\ prefsDisk = prefs

(* Codes are made at most MaxCodeRegens times within the window that the   *)
(* first of them opened, whatever restarts and other changes come between, *)
(* unless changes of the same record overlap.                              *)
RegenBudget ==
  \A r \in Refs : regens[r] # None /\ regens[r] # <<>> =>
    Cardinality({i \in DOMAIN regens[r] : regens[r][i] < regens[r][1] + Window}) <= MaxCodeRegens
==============================================================================
