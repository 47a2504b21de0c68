------------------------------ MODULE Sessions ------------------------------
(***************************************************************************)
(* Sessions (core/session), their stores, and the profile of the person of *)
(* a session (core/profile, handlers/auth and profile). A session is kept  *)
(* in a store and, by this process, in a cache; a renewal is a write to    *)
(* both. The LMDB store keeps the sessions under the hash of the token,    *)
(* with an index by expiry, and moves a session that an earlier version    *)
(* left under the token itself.                                            *)
(***************************************************************************)
EXTENDS AccessRequests

CONSTANTS
  Tokens,              \* the tokens that may be issued
  OldToken,            \* a session an earlier version left behind
  Ttl                  \* MOBILE_API_SESSION_TTL_HOURS, or None

ASSUME SessionsAssumption ==
  OldToken \in Tokens /\ Ttl \in Nat \cup {None} /\ None # "chosen"

VARIABLES
  sessions,   \* token -> the stored record, by the hash of the token
  rawKeys,    \* token -> the record an earlier version stored
  expiry,     \* the expiry index: <<time, token>>
  disk,       \* what the JSON file holds (LMDB: the sessions)
  cache,      \* token -> the record this process remembers
  prefs, prefsDisk, prefsLegacy,   \* what people chose, the file, the old file
  photo,      \* the image of the person's record in ERPNext
  issued,
  granted,    \* history: token -> expiry of a session nobody ended, or None
  ended,      \* history: tokens whose logout was answered and not raced
  doubtful,   \* history: tokens the store once failed to forget
  chosen      \* history: the nickname that was confirmed to the person

sessionVars == <<sessions, rawKeys, expiry, disk, cache, issued, granted, ended, doubtful>>
profileVars == <<prefs, prefsDisk, prefsLegacy, photo, chosen>>
storeVars == <<sessions, rawKeys, expiry, disk>>
endedVars == <<ended, doubtful>>

------------------------------------------------------------------------------
(* Records. The binary form holds the role as a number; a record of the    *)
(* JSON form, without the mark, is read as it is.                          *)
StoredRole == [supplier |-> 0, werka |-> 1, customer |-> 2, admin |-> 3, aparatchi |-> 4]
Encode(record) ==
  IF Lmdb THEN [record EXCEPT !.principal.role = StoredRole[@]] ELSE record
Decode(stored) ==
  IF ~Lmdb THEN stored
  ELSE [stored EXCEPT !.principal.role = CHOOSE r \in DOMAIN StoredRole : StoredRole[r] = @]

PrincipalsOf(known) == [role : known, ref : STRING, name : STRING, avatar : STRING]
RecordsOf(known) == [principal : PrincipalsOf(known), expires : Nat \cup {None}]
Principals == PrincipalsOf(DOMAIN StoredRole)
SessionRecords == RecordsOf(DOMAIN StoredRole)

ASSUME RecordsAssumption ==
  /\ None \notin RecordsOf(DOMAIN StoredRole) /\ None \notin RecordsOf(0..4)
  /\ None \notin [nickname : STRING, avatar : STRING]
  /\ \A m \in Mixes : m.person \in Principals

SessionRecord(principal) ==
  [principal |-> principal, expires |-> IF Ttl = None THEN None ELSE now + Ttl]
IsExpired(record) == record.expires # None /\ now > record.expires
Until(record) == IF record.expires = None THEN mix.clock + 1 ELSE record.expires

(* The keys of the index sort by time, so that the entries up to now are a *)
(* range of it.                                                            *)
IndexOf(record, t) == IF record = None \/ record.expires = None
                      THEN {} ELSE {<<record.expires, t>>}
Due == {e \in expiry : e[1] <= now}

Purged == [t \in Tokens |-> IF \E e \in Due : e[2] = t THEN None ELSE sessions[t]]

PutLmdb_BadKeepsOldIndex(t, record) ==
  /\ sessions' = [Purged EXCEPT ![t] = Encode(record)]
  /\ expiry' = (expiry \ Due) \cup IndexOf(record, t)
  /\ disk' = sessions'
  /\ UNCHANGED rawKeys

PutLmdb(t, record) ==
  /\ sessions' = [Purged EXCEPT ![t] = Encode(record)]
  /\ expiry' = ((expiry \ Due) \ IndexOf(Purged[t], t)) \cup IndexOf(record, t)
  /\ disk' = sessions'
  /\ UNCHANGED rawKeys

DeleteLmdb(t) ==
  /\ sessions' = [sessions EXCEPT ![t] = None]
  /\ expiry' = expiry \ IndexOf(sessions[t], t)
  /\ rawKeys' = [rawKeys EXCEPT ![t] = None]
  /\ disk' = sessions'

(* The JSON store changes its memory first; the file may not be written.   *)
WriteJson(new, ok) ==
  /\ sessions' = new
  /\ disk' = IF ok THEN new ELSE disk
  /\ UNCHANGED <<rawKeys, expiry>>

StorePut(t, record, ok) ==
  IF Lmdb THEN IF ok THEN PutLmdb(t, record) ELSE UNCHANGED storeVars
  ELSE WriteJson([sessions EXCEPT ![t] = record], ok)

StoreDelete(t, ok) ==
  IF Lmdb THEN IF ok THEN DeleteLmdb(t) ELSE UNCHANGED storeVars
  ELSE IF sessions[t] = None THEN UNCHANGED storeVars
  ELSE WriteJson([sessions EXCEPT ![t] = None], ok)

Forget_BadKeepsCache(t) == cache' = cache

Remember(t, record) == cache' = [cache EXCEPT ![t] = record]
Forget(t) == cache' = [cache EXCEPT ![t] = None]

------------------------------------------------------------------------------
(* A login that was decided is given a token nobody has had.               *)
Fresh == {t \in Tokens \ issued :
            sessions[t] = None /\ \A g \in Handlers : ~On(g, {t})}

CreateStored(h) ==
  /\ At(h, "create")
  /\ \E t \in Fresh, ok \in BOOLEAN :
       LET record == SessionRecord(jobs[h].copy) IN
       /\ StorePut(t, record, ok) /\ Outcome(ok)
       /\ IF ok THEN Continue(h, [jobs[h] EXCEPT !.pc = "keep", !.keys = {t}, !.copy = record])
          ELSE Finish(h)
  /\ UNCHANGED <<cache, issued, granted, endedVars, profileVars>>

CreateCached(h) ==
  /\ At(h, "keep")
  /\ LET t == CHOOSE x \in jobs[h].keys : TRUE IN
     /\ Remember(t, jobs[h].copy)
     /\ granted' = [granted EXCEPT ![t] = Until(jobs[h].copy)]
     /\ issued' = issued \cup {t}
  /\ Finish(h) /\ NoFault
  /\ UNCHANGED <<storeVars, endedVars, profileVars>>

(* Reading the session of a request, first in the cache. A request reads   *)
(* it to know who asks ("get") and again to renew it ("update").           *)
Token(h) == jobs[h].arg.token
Loaded(h, record) ==
  IF jobs[h].phase = "update" THEN GoWith(h, "renew", record)
  ELSE IF IsExpired(record) THEN Go(h, "expire")
  ELSE GoWith(h, "fill", record)

LookupCache(h) ==
  /\ At(h, "lookup")
  /\ LET record == cache[Token(h)] IN
     IF record = None THEN Go(h, "read") /\ UNCHANGED granted
     ELSE IF jobs[h].phase = "update" THEN GoWith(h, "renew", record) /\ UNCHANGED granted
     ELSE IF IsExpired(record)
     THEN Go(h, "erase") /\ granted' = [granted EXCEPT ![Token(h)] = None]
     ELSE GoWith(h, "serve", record.principal) /\ UNCHANGED granted
  /\ NoFault /\ UNCHANGED <<storeVars, cache, issued, endedVars, profileVars>>

ReadStore(h) ==
  /\ At(h, "read")
  /\ LET stored == sessions[Token(h)] IN
     IF stored # None THEN Loaded(h, Decode(stored)) ELSE Go(h, "readRaw")
  /\ NoFault /\ UNCHANGED <<sessionVars, profileVars>>

ReadRawKey(h) ==
  /\ At(h, "readRaw")
  /\ IF ~Lmdb \/ rawKeys[Token(h)] = None THEN Finish(h)
     ELSE GoWith(h, "migrate", rawKeys[Token(h)])
  /\ NoFault /\ UNCHANGED <<sessionVars, profileVars>>

MigrateRawKey(h) ==
  /\ At(h, "migrate")
  /\ \E ok \in BOOLEAN :
       /\ StorePut(Token(h), jobs[h].copy, ok) /\ Outcome(ok)
       /\ IF ok THEN Go(h, "dropRaw") ELSE Finish(h)
  /\ UNCHANGED <<cache, issued, granted, endedVars, profileVars>>

DropRawKey(h) ==
  /\ At(h, "dropRaw")
  /\ rawKeys' = [rawKeys EXCEPT ![Token(h)] = None]
  /\ Loaded(h, jobs[h].copy) /\ NoFault
  /\ UNCHANGED <<sessions, expiry, disk, cache, issued, granted, endedVars, profileVars>>

FillCache(h) ==
  /\ At(h, "fill")
  /\ Remember(Token(h), jobs[h].copy)
  /\ GoWith(h, "serve", jobs[h].copy.principal) /\ NoFault
  /\ UNCHANGED <<storeVars, issued, granted, endedVars, profileVars>>

Doubt(h, ok) == doubtful' = IF ok THEN doubtful ELSE doubtful \cup {Token(h)}

ExpireStored(h) ==
  /\ At(h, "expire")
  /\ \E ok \in BOOLEAN : StoreDelete(Token(h), ok) /\ Outcome(ok) /\ Doubt(h, ok)
  /\ granted' = [granted EXCEPT ![Token(h)] = None]
  /\ Finish(h)
  /\ UNCHANGED <<cache, issued, ended, profileVars>>

(* Ending a session: whether the store could forget it is not looked at.   *)
Erase(h) ==
  /\ At(h, "erase")
  /\ \E ok \in BOOLEAN :
       /\ StoreDelete(Token(h), ok) /\ Outcome(ok) /\ Doubt(h, ok)
       /\ Continue(h, [jobs[h] EXCEPT !.pc = "forget"])
  /\ UNCHANGED <<cache, issued, granted, ended, profileVars>>

EraseCached(h) ==
  /\ At(h, "forget")
  /\ Forget(Token(h))
  /\ ended' = IF jobs[h].op = "logout" /\ jobs[h].alone /\ Token(h) \notin doubtful
              THEN ended \cup {Token(h)} ELSE ended
  /\ Finish(h) /\ NoFault
  /\ UNCHANGED <<storeVars, issued, granted, doubtful, profileVars>>

Logout(h, t) ==
  /\ Begin(h, "logout", "erase", {t}, [token |-> t])
  /\ granted' = [granted EXCEPT ![t] = None]
  /\ UNCHANGED <<storeVars, cache, issued, endedVars, profileVars>>

(* The session is renewed with what is known of its person by now.         *)
Renew(h) ==
  /\ At(h, "renew")
  /\ \E ok \in BOOLEAN :
       LET record == SessionRecord(jobs[h].arg.principal) IN
       /\ StorePut(Token(h), record, ok) /\ Outcome(ok)
       /\ IF ok THEN GoWith(h, "renewed", record) ELSE Finish(h)
       /\ granted' = IF ok /\ jobs[h].alone /\ granted[Token(h)] # None
                     THEN [granted EXCEPT ![Token(h)] = Until(record)] ELSE granted
  /\ UNCHANGED <<cache, issued, endedVars, profileVars>>

Renewed(h) ==
  /\ At(h, "renewed")
  /\ Remember(Token(h), jobs[h].copy) /\ Finish(h) /\ NoFault
  /\ UNCHANGED <<storeVars, issued, granted, endedVars, profileVars>>

------------------------------------------------------------------------------
(* The profile of the person who asks.                                     *)
NoPrefs == [nickname |-> "", avatar |-> ""]
ProfileOps == {"me", "nickname", "avatar"}

Ask(h, op, t) ==
  /\ Begin(h, op, "lookup", {t, "prefs"}, [token |-> t, principal |-> None])
  /\ UNCHANGED <<sessionVars, profileVars>>

(* A request of a handler that needs a capability.                         *)
AskAct(h, t, c) ==
  /\ Begin(h, "act", "lookup", {t}, [token |-> t, needs |-> c])
  /\ UNCHANGED <<sessionVars, profileVars>>

ServeProfile(h) ==
  /\ At(h, "serve") /\ jobs[h].op \in ProfileOps
  /\ LET op == jobs[h].op
         principal == jobs[h].copy
         pc == IF op = "me" THEN "refresh"
               ELSE IF op = "nickname" THEN "prefs"
               ELSE IF principal.role = "supplier" THEN "upload" ELSE "lookup" IN
     Continue(h, [jobs[h] EXCEPT
       !.pc = pc, !.phase = IF pc = "lookup" THEN "update" ELSE "edit",
       !.arg.principal = principal])
  /\ NoFault /\ UNCHANGED <<sessionVars, profileVars>>

(* ERPNext may not answer; the profile is then what it was.                *)
Refresh(h) ==
  /\ At(h, "refresh")
  /\ \E ok \in BOOLEAN :
       /\ Outcome(ok)
       /\ Continue(h, [jobs[h] EXCEPT !.pc = "prefs", !.phase = "merge",
            !.arg.principal.avatar = IF ok /\ jobs[h].arg.principal.role = "supplier"
                                        /\ photo # "" THEN photo ELSE @])
  /\ UNCHANGED <<sessionVars, profileVars>>

Upload(h) ==
  /\ At(h, "upload")
  /\ \E ok \in BOOLEAN :
       /\ Outcome(ok)
       /\ photo' = IF ok THEN "new" ELSE photo
       /\ IF ok THEN Continue(h, [jobs[h] EXCEPT !.pc = "prefs", !.arg.principal.avatar = "new"])
          ELSE Finish(h)
  /\ UNCHANGED <<sessionVars, prefs, prefsDisk, prefsLegacy, chosen>>

Merge(principal, chosenPrefs) ==
  [principal EXCEPT !.name = IF chosenPrefs.nickname # "" THEN chosenPrefs.nickname ELSE @,
                    !.avatar = IF chosenPrefs.avatar # "" THEN chosenPrefs.avatar ELSE @]

PrefsLoaded(h, stored) ==
  IF jobs[h].phase = "edit" THEN GoWith(h, "putPrefs", stored)
  ELSE Continue(h, [jobs[h] EXCEPT !.pc = "lookup", !.phase = "update",
                                   !.arg.principal = Merge(@, stored)])

GetPrefs(h) ==
  /\ At(h, "prefs")
  /\ IF prefs # None THEN PrefsLoaded(h, prefs)
     ELSE IF Lmdb /\ prefsLegacy # None THEN GoWith(h, "migratePrefs", prefsLegacy)
     ELSE PrefsLoaded(h, NoPrefs)
  /\ NoFault /\ UNCHANGED <<sessionVars, profileVars>>

PutPrefs(new, ok) ==
  /\ prefs' = IF Lmdb /\ ~ok THEN prefs ELSE new
  /\ prefsDisk' = IF ok THEN new ELSE prefsDisk
  /\ UNCHANGED <<prefsLegacy, photo>>

(* Preferences of the old JSON file are copied when they are first asked.  *)
MigratePrefs(h) ==
  /\ At(h, "migratePrefs")
  /\ \E ok \in BOOLEAN :
       /\ PutPrefs(jobs[h].copy, ok) /\ Outcome(ok)
       /\ IF ok THEN PrefsLoaded(h, jobs[h].copy)
          ELSE IF jobs[h].phase = "edit" THEN Finish(h)
          ELSE PrefsLoaded(h, NoPrefs)
  /\ UNCHANGED <<sessionVars, chosen>>

Edited_BadDropsNickname(job) ==
  IF job.op = "nickname" THEN [job.copy EXCEPT !.nickname = "chosen"]
  ELSE [NoPrefs EXCEPT !.avatar = job.arg.principal.avatar]

Edited(job) ==
  IF job.op = "nickname" THEN [job.copy EXCEPT !.nickname = "chosen"]
  ELSE [job.copy EXCEPT !.avatar = job.arg.principal.avatar]

StorePrefs(h) ==
  /\ At(h, "putPrefs")
  /\ \E ok \in BOOLEAN :
       /\ PutPrefs(Edited(jobs[h]), ok) /\ Outcome(ok)
       /\ IF ok THEN Continue(h, [jobs[h] EXCEPT !.pc = "prefs", !.phase = "merge"])
          ELSE Finish(h)
       /\ chosen' = IF ok /\ jobs[h].alone
                    THEN IF jobs[h].op = "nickname" THEN "chosen" ELSE chosen
                    ELSE None
  /\ UNCHANGED sessionVars

------------------------------------------------------------------------------
SessionStep(h) ==
  \/ CreateStored(h) \/ CreateCached(h)
  \/ LookupCache(h) \/ ReadStore(h) \/ ReadRawKey(h) \/ MigrateRawKey(h) \/ DropRawKey(h)
  \/ FillCache(h) \/ ExpireStored(h) \/ Erase(h) \/ EraseCached(h)
  \/ Renew(h) \/ Renewed(h)
  \/ ServeProfile(h) \/ Refresh(h) \/ Upload(h) \/ GetPrefs(h) \/ MigratePrefs(h) \/ StorePrefs(h)
  \/ \E t \in issued : Logout(h, t)
  \/ \E t \in issued, op \in ProfileOps : Ask(h, op, t)

(* After a restart the cache is empty; the JSON store drops what expired   *)
(* when it reads its file.                                                 *)
SessionsRestart ==
  /\ cache' = [t \in Tokens |-> None]
  /\ sessions' = IF Lmdb THEN sessions
                 ELSE [t \in Tokens |-> IF disk[t] # None /\ IsExpired(disk[t])
                                        THEN None ELSE disk[t]]
  /\ prefs' = prefsDisk
  /\ UNCHANGED <<rawKeys, expiry, disk, issued, granted, endedVars,
                 prefsDisk, prefsLegacy, photo, chosen>>

SessionsInit ==
  LET old == [principal |-> mix.person, expires |-> Ttl]
      only(record) == [t \in Tokens |-> IF t = OldToken THEN record ELSE None] IN
  /\ sessions = only(IF Lmdb THEN None ELSE old) /\ disk = sessions
  /\ rawKeys = only(IF Lmdb THEN old ELSE None)
  /\ expiry = {} /\ cache = only(None)
  /\ prefs = None /\ prefsDisk = None
  /\ prefsLegacy = IF Lmdb THEN [NoPrefs EXCEPT !.nickname = "old"] ELSE None
  /\ photo = "" /\ chosen = None
  /\ issued = {OldToken} /\ ended = {} /\ doubtful = {}
  /\ granted = only(Until(old))
==============================================================================
