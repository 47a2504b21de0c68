----------------------------- MODULE PushTokens -----------------------------
(***************************************************************************)
(* The devices push messages go to (core/push, store/push_token_store,     *)
(* fcm.rs): a device token belongs to the last person who registered it.   *)
(* The LMDB store also keeps the owner of each token; the JSON store looks *)
(* a token up everywhere.                                                  *)
(***************************************************************************)
EXTENDS AccessRequests, Sifting

CONSTANTS People, Devices, OldDevice, OldOwner    \* OldDevice: in the old JSON file

ASSUME PushAssumption == OldDevice \in Devices /\ OldOwner \in People /\ None \notin People

VARIABLES
  records,      \* person -> the devices of the store, oldest first
  owner,        \* device -> person, or None (LMDB)
  recordFile,   \* what the JSON file holds
  pushMigrated, \* has this process copied the old file (LMDB)
  accessToken,  \* until when the token of the push service is good, or None
  registered    \* history: device -> whose it was confirmed to be, or None

pushVars == <<records, owner, recordFile, pushMigrated, accessToken, registered>>

Without(list, d) == Sift(list, {d})

(* In one transaction: taken from its owner, added to the new one.         *)
MovedTo(recs, own, p, d) ==
  [records |-> [q \in People |->
     IF q = p THEN Append(Without(recs[q], d), d)
     ELSE IF own[d] = q THEN Without(recs[q], d) ELSE recs[q]],
   owner |-> [own EXCEPT ![d] = p]]

(* The old file is not removed: each process copies it again.              *)
Current ==
  IF ~Lmdb \/ pushMigrated THEN [records |-> records, owner |-> owner]
  ELSE MovedTo(records, owner, OldOwner, OldDevice)

AlreadyRegistered(p, d) ==
  Current.owner[d] = p /\ \E i \in DOMAIN Current.records[p] : Current.records[p][i] = d

MoveTokenToKey(p, d) ==
  IF Lmdb THEN IF AlreadyRegistered(p, d) THEN Current
               ELSE MovedTo(Current.records, Current.owner, p, d)
  ELSE [records |-> [q \in People |-> IF q = p THEN Append(Without(records[q], d), d)
                                      ELSE Without(records[q], d)], owner |-> owner]

DeleteToken(p, d) ==
  [records |-> [Current.records EXCEPT ![p] = Without(@, d)],
   owner |-> IF Lmdb /\ Current.owner[d] = p THEN [Current.owner EXCEPT ![d] = None]
             ELSE Current.owner]

(* LMDB: all or nothing. JSON: the memory, then perhaps the file.          *)
Commit(new, ok) ==
  /\ pushMigrated' = Lmdb
  /\ LET stored == IF Lmdb /\ ~ok THEN Current ELSE new IN
     /\ records' = stored.records /\ owner' = stored.owner
     /\ recordFile' = IF ~Lmdb /\ ok THEN stored.records ELSE recordFile

------------------------------------------------------------------------------
(* The copy of the old file says whose its device is; nothing is confirmed *)
(* of it.                                                                  *)
Registered(h, d, value) ==
  registered' = IF d # OldDevice /\ jobs[h].alone THEN [registered EXCEPT ![d] = value]
                ELSE registered

AskPush(h, op, p, d) ==
  /\ Begin(h, op, op, {d}, [person |-> p, device |-> d])
  /\ registered' = [registered EXCEPT ![d] = None]
  /\ UNCHANGED <<records, owner, recordFile, pushMigrated, accessToken>>

Register(h) ==
  /\ At(h, "register")
  /\ LET p == jobs[h].arg.person
         d == jobs[h].arg.device IN
     \E ok \in BOOLEAN :
       /\ Commit(MoveTokenToKey(p, d), ok) /\ Outcome(ok)
       /\ IF ok THEN Registered(h, d, p) ELSE UNCHANGED registered
       /\ Finish(h)
  /\ UNCHANGED accessToken

Unregister(h) ==
  /\ At(h, "unregister")
  /\ \E ok \in BOOLEAN :
       /\ Commit(DeleteToken(jobs[h].arg.person, jobs[h].arg.device), ok) /\ Outcome(ok)
       /\ Finish(h)
  /\ UNCHANGED <<accessToken, registered>>

------------------------------------------------------------------------------
(* Sending: the devices of the person, a token of the service that is kept *)
(* until it is about to expire, then one message after the other.          *)
AskSend(h, p) ==
  /\ Begin(h, "send", "list", {h}, [person |-> p])
  /\ UNCHANGED pushVars

ListDevices(h) ==
  /\ At(h, "list")
  /\ records' = Current.records /\ owner' = Current.owner /\ pushMigrated' = Lmdb
  /\ LET devices == Current.records[jobs[h].arg.person] IN
     IF devices = <<>> THEN Finish(h)
     ELSE GoWith(h, "token", [todo |-> devices, sent |-> FALSE])
  /\ NoFault /\ UNCHANGED <<recordFile, accessToken, registered>>

AccessToken(h) ==
  /\ At(h, "token")
  /\ \E ok \in BOOLEAN :
       LET good == accessToken # None /\ accessToken > now IN
       /\ IF good THEN ok /\ NoFault ELSE Outcome(ok)
       /\ accessToken' = IF good \/ ~ok THEN accessToken ELSE now + 1
       /\ IF ok THEN Go(h, "send") ELSE Finish(h)
  /\ UNCHANGED <<records, owner, recordFile, pushMigrated, registered>>

(* The service takes the message, fails, or knows the device no more: that *)
(* one is then deleted from the person the message was for.                *)
SendOne(h) ==
  /\ At(h, "send")
  /\ LET todo == jobs[h].copy.todo
         p == jobs[h].arg.person IN
     IF todo = <<>>
     THEN Finish(h) /\ NoFault
     ELSE \/ /\ GoWith(h, "send", [todo |-> Tail(todo), sent |-> TRUE]) /\ NoFault
          \/ /\ GoWith(h, "send", [jobs[h].copy EXCEPT !.todo = Tail(todo)]) /\ Fault
          \/ /\ Go(h, "stale") /\ NoFault
  /\ UNCHANGED pushVars

DropStale(h) ==
  /\ At(h, "stale")
  /\ LET p == jobs[h].arg.person
         d == Head(jobs[h].copy.todo) IN
     \E ok \in BOOLEAN :
       /\ Commit(DeleteToken(p, d), ok) /\ Outcome(ok)
       /\ registered' = IF registered[d] = p THEN [registered EXCEPT ![d] = None] ELSE registered
       /\ GoWith(h, "send", [jobs[h].copy EXCEPT !.todo = Tail(@)])
  /\ UNCHANGED accessToken

------------------------------------------------------------------------------
PushStep(h) ==
  \/ \E op \in {"register", "unregister"}, p \in People, d \in Devices : AskPush(h, op, p, d)
  \/ Register(h) \/ Unregister(h)
  \/ \E p \in People : AskSend(h, p)
  \/ ListDevices(h) \/ AccessToken(h) \/ SendOne(h) \/ DropStale(h)

PushRestart ==
  /\ records' = IF Lmdb THEN records ELSE recordFile
  /\ pushMigrated' = FALSE /\ accessToken' = None
  /\ UNCHANGED <<owner, recordFile, registered>>

PushInit ==
  /\ records = [p \in People |-> IF p = OldOwner /\ ~Lmdb THEN <<OldDevice>> ELSE <<>>]
  /\ recordFile = records
  /\ owner = [d \in Devices |-> None]
  /\ pushMigrated = FALSE /\ accessToken = None
  /\ registered = [d \in Devices |-> None]
==============================================================================
