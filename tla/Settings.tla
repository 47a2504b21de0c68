------------------------------ MODULE Settings ------------------------------
(***************************************************************************)
(* The settings an administrator changes while the server runs             *)
(* (core/admin/service, config.rs): the configuration of this process, the *)
(* identity the login compares with, the credentials in the database of    *)
(* ERPNext and those the ERPNext client uses, and the .env file the next   *)
(* process starts from. Only the configuration has a lock, and a change    *)
(* keeps it from the first to the last of them.                            *)
(***************************************************************************)
EXTENDS AdminStates

CONSTANTS Names        \* names the warehouse keeper may be given

ASSUME SettingsAssumption == Names \subseteq STRING

VARIABLES
  config,       \* [name, code, key] of this process
  configLock,   \* the request that writes it, or None
  identity,     \* [name, code] the login compares with
  env,          \* variable -> value, as the .env file has them
  credentials,  \* the key in the database of ERPNext, or None
  erpKey,       \* the key the ERPNext client uses
  settled       \* history: the code that was confirmed and not raced, or None

settingsVars == <<config, configLock, identity, env, credentials, erpKey, settled>>

Keeper == "werka"
FirstCode == [prefix |-> "20", n |-> Keeper]

(* What the process reads from its environment when it starts. The phone   *)
(* and the name of the administrator are fixed.                            *)
FromEnv(file) ==
  [name |-> IF "MOBILE_DEV_WERKA_NAME" \in DOMAIN file THEN file["MOBILE_DEV_WERKA_NAME"]
            ELSE "Werka",
   code |-> file["MOBILE_DEV_WERKA_CODE"], key |-> file["ERP_API_KEY"]]

Upsert(values) == env' = Over(values, env)
Identity(c) == [name |-> IF c.name = "" THEN "Werka" ELSE c.name, code |-> c.code]

SetRuntimeIdentity_BadSkipped(c) == identity' = identity

SetRuntimeIdentity(c) == identity' = Identity(c)

Locked(h) == configLock = h
Unlock(h) == configLock' = IF Locked(h) THEN None ELSE configLock
LockFree == configLock = None

------------------------------------------------------------------------------
(* A change of the settings holds the lock of the configuration while it   *)
(* changes it, the credentials, the two users of both, and the file.       *)
SettingsKeys == IF Lmdb THEN {"settings"} ELSE {"settings", "states"}

AskUpdate(h, name, key) ==
  /\ Begin(h, "updateSettings", "lock", SettingsKeys,
           [name |-> name, key |-> key, code |-> config.code])
  /\ settled' = None
  /\ UNCHANGED <<config, configLock, identity, env, credentials, erpKey>>

(* The form has the code it was filled with when it was opened; a blank    *)
(* key of it keeps the one there is.                                       *)
Update(h) ==
  /\ At(h, "lock") /\ LockFree
  /\ configLock' = h
  /\ config' = [config EXCEPT !.name = jobs[h].arg.name, !.code = jobs[h].arg.code,
                              !.key = IF jobs[h].arg.key = "" THEN @ ELSE jobs[h].arg.key]
  /\ Go(h, IF credentials = None THEN "runtime"
           ELSE IF jobs[h].arg.key = "" THEN "readKey" ELSE "writeKey")
  /\ NoFault /\ UNCHANGED <<identity, env, credentials, erpKey, settled>>

ReadCredentials(h) ==
  /\ At(h, "readKey")
  /\ Continue(h, [jobs[h] EXCEPT !.pc = "writeKey", !.arg.key = credentials])
  /\ NoFault /\ UNCHANGED settingsVars

WriteCredentials(h) ==
  /\ At(h, "writeKey")
  /\ credentials' = jobs[h].arg.key
  /\ config' = [config EXCEPT !.key = jobs[h].arg.key]
  /\ Go(h, "runtime")
  /\ NoFault /\ UNCHANGED <<configLock, identity, env, erpKey, settled>>

(* A failure here leaves the new configuration in force and gives the lock *)
(* back.                                                                   *)
CredentialsFail(h) ==
  /\ At(h, "readKey") \/ At(h, "writeKey")
  /\ Fault /\ Finish(h) /\ Unlock(h)
  /\ UNCHANGED <<config, identity, env, credentials, erpKey, settled>>

Persisted(c) ==
  Over(Only("WERKA_NAME", c.name), Only("MOBILE_DEV_WERKA_CODE", c.code))

Runtime(h) ==
  /\ At(h, "runtime")
  /\ erpKey' = config.key
  /\ SetRuntimeIdentity(config)
  /\ \E ok \in BOOLEAN :
       /\ Outcome(ok)
       /\ IF ok THEN Upsert(Persisted(config)) /\ Go(h, "settings")
          ELSE UNCHANGED env /\ Finish(h)
  /\ configLock' = None
  /\ UNCHANGED <<config, credentials, settled>>

(* The answer: the configuration, and the client uses the credentials the  *)
(* database holds.                                                         *)
ReadSettings(h) ==
  /\ At(h, "settings") /\ LockFree
  /\ erpKey' = IF credentials # None THEN credentials ELSE erpKey
  /\ settled' = IF jobs[h].alone THEN config.code ELSE settled
  /\ Finish(h)
  /\ NoFault /\ UNCHANGED <<config, configLock, identity, env, credentials>>

------------------------------------------------------------------------------
(* A new code of the warehouse keeper: the state of the codes, the         *)
(* configuration, the identity, the file.                                  *)
AskWerkaCode(h) ==
  /\ Begin(h, "regenerateWerka", "werkaState", SettingsKeys,
           [ref |-> Keeper, code |-> None, made |-> None])
  /\ settled' = None
  /\ regens' = [r \in Refs |-> IF Raced(SettingsKeys) /\ (r = Keeper \/ ~Lmdb) THEN None ELSE regens[r]]
  /\ UNCHANGED <<config, configLock, identity, env, credentials, erpKey,
                 states, oldStates, parties, assigned, promised>>

WerkaState(h) ==
  /\ At(h, "werkaState")
  /\ IF CodeLocked(StateFor(Keeper)) THEN Finish(h)
     ELSE Continue(h, [jobs[h] EXCEPT !.pc = "werkaCode", !.arg.made = now,
                                      !.copy = Bump(StateFor(Keeper))])
  /\ NoFault /\ UNCHANGED <<settingsVars, adminVars>>

WerkaCode(h) ==
  /\ At(h, "werkaCode") /\ LockFree
  /\ \E code \in RandomCodes("20", {}) :
       Continue(h, [jobs[h] EXCEPT !.pc = "put", !.arg.code = code, !.copy.code = code])
  /\ NoFault /\ UNCHANGED <<settingsVars, adminVars>>

WerkaConfig(h) ==
  /\ At(h, "config") /\ LockFree
  /\ config' = [config EXCEPT !.code = jobs[h].arg.code]
  /\ Go(h, "identity")
  /\ NoFault
  /\ UNCHANGED <<configLock, identity, env, credentials, erpKey, settled, adminVars>>

WerkaIdentity(h) ==
  /\ At(h, "identity") /\ LockFree
  /\ SetRuntimeIdentity(config)
  /\ Go(h, "persist")
  /\ NoFault
  /\ UNCHANGED <<config, configLock, env, credentials, erpKey, settled, adminVars>>

WerkaPersist(h) ==
  /\ At(h, "persist") /\ LockFree
  /\ \E ok \in BOOLEAN :
       /\ Outcome(ok)
       /\ IF ok THEN Upsert(Only("MOBILE_DEV_WERKA_CODE", config.code)) /\ Go(h, "settings")
          ELSE UNCHANGED env /\ Finish(h)
  /\ UNCHANGED <<config, configLock, identity, credentials, erpKey, settled, adminVars>>

(* The warehouse keeper enters the code that was last told.                *)
LoginWerka(h) ==
  /\ Begin(h, "login", "compare", {h}, [ref |-> Keeper, code |-> config.code])
  /\ UNCHANGED <<settingsVars, adminVars>>

CompareWerka(h) ==
  /\ At(h, "compare")
  /\ IF jobs[h].arg.code = identity.code
     THEN GoWith(h, "create", [role |-> "werka", ref |-> Keeper, name |-> identity.name,
                               avatar |-> ""])
     ELSE Finish(h)
  /\ NoFault /\ UNCHANGED <<settingsVars, adminVars>>

------------------------------------------------------------------------------
UpdateStep(h) ==
  \/ \E name \in Names, key \in {"", "k2"} : AskUpdate(h, name, key)
  \/ Update(h) \/ ReadCredentials(h) \/ WriteCredentials(h) \/ CredentialsFail(h)
  \/ Runtime(h) \/ ReadSettings(h)

WerkaStep(h) ==
  \/ AskWerkaCode(h) \/ WerkaState(h) \/ WerkaCode(h)
  \/ WerkaConfig(h) \/ WerkaIdentity(h) \/ WerkaPersist(h)
  \/ LoginWerka(h) \/ CompareWerka(h)

SettingsRestart ==
  /\ config' = FromEnv(env) /\ identity' = Identity(FromEnv(env))
  /\ erpKey' = FromEnv(env).key /\ configLock' = None
  /\ UNCHANGED <<env, credentials, settled>>

(* A handler that is dropped gives its lock back.                          *)
SettingsDropped(h) ==
  Unlock(h) /\ UNCHANGED <<config, identity, env, credentials, erpKey, settled>>

SettingsInit ==
  /\ env = Over(Only("MOBILE_DEV_WERKA_CODE", FirstCode), Only("ERP_API_KEY", "k1"))
  /\ config = FromEnv(env) /\ identity = Identity(config) /\ erpKey = config.key
  /\ configLock = None
  /\ credentials \in {None} \cup IF "updateSettings" \in mix.ops THEN {"k1"} ELSE {}
  /\ settled = None
==============================================================================
