-------------------------------- MODULE Roles --------------------------------
(***************************************************************************)
(* Role definitions and assignments (core/authz, core/admin/roles,         *)
(* store/role_store) and the question every handler asks: may this person  *)
(* do that. The store keeps both in memory, behind a lock, and writes one  *)
(* file at each change; the memory changes first.                          *)
(***************************************************************************)
EXTENDS AccessRequests

CONSTANTS
  Capabilities,        \* capability -> the roles that have it by default
  CustomRoles          \* role ids that administrators may define

VARIABLES
  roles, assignments,          \* the memory of the store
  roleFile,                    \* [roles, assignments] as the file has them
  roleMemory,                  \* has the file been read
  roleKept                     \* history: <<kind, key>> -> value confirmed and not raced

roleVars == <<roles, assignments, roleFile, roleMemory, roleKept>>

NoRole == [k \in {} |-> None]

------------------------------------------------------------------------------
CapabilityCodesForRole(role) == {c \in DOMAIN Capabilities : role \in Capabilities[c]}
HasCapability(principal, c) == principal.role \in Capabilities[c]

SystemRoles ==
  [id \in {"admin", "werka", "supplier", "customer", "aparatchi"} |->
     IF id = "aparatchi" THEN {"queue.read", "queue.manage"} ELSE CapabilityCodesForRole(id)]
BaseRole(id) == IF id \in DOMAIN SystemRoles \ {"aparatchi"} THEN id ELSE None

(* A custom role has an id of its own and capabilities of the catalogue.   *)
ValidCustomRole(id, caps) ==
  id \notin DOMAIN SystemRoles /\ caps # {} /\ caps \subseteq DOMAIN Capabilities

ValidAssignment(role, id, known) ==
  id \in known /\ (BaseRole(id) = None \/ BaseRole(id) = role)

AssignmentKey(role, ref) == <<role, ref>>

Load_BadLosesAssignments(file) ==
  [roles |-> IF "roles" \in DOMAIN file THEN file.roles ELSE file.old, assignments |-> NoRole]

(* The file of an earlier version holds the roles and nothing else.        *)
Load(file) ==
  IF "roles" \in DOMAIN file THEN file
  ELSE [roles |-> file.old, assignments |-> NoRole]

InMemory == IF roleMemory THEN [roles |-> roles, assignments |-> assignments] ELSE Load(roleFile)

(* Save writes what the memory holds by then; the memory keeps it anyhow.  *)
Save(new, ok) ==
  /\ roles' = new.roles /\ assignments' = new.assignments /\ roleMemory' = TRUE
  /\ roleFile' = IF ok THEN new ELSE roleFile

AllRoles == Over(SystemRoles, InMemory.roles)

------------------------------------------------------------------------------
(* Who a person is judged as. An operator without an assignment of its own *)
(* has the one of the customer it is.                                      *)
PrincipalAssignment(principal, known) ==
  LET own == AssignmentKey(principal.role, principal.ref)
      other == AssignmentKey("customer", principal.ref) IN
  IF own \in DOMAIN known THEN known[own]
  ELSE IF principal.role = "aparatchi" /\ other \in DOMAIN known THEN known[other]
  ELSE None

RoleKeys == {"roles"}
Kept(key, value) == roleKept' = Over(Only(key, value), roleKept)
(* A change of a role leaves the other roles and the assignments alone.    *)
BeginRole(h, op, pc, arg, key) ==
  /\ Begin(h, op, pc, {ToString(key)}, arg)
  /\ Kept(key, None)
  /\ UNCHANGED <<roles, assignments, roleFile, roleMemory>>

AskRole(h, id, caps) ==
  BeginRole(h, "putRole", IF ValidCustomRole(id, caps) THEN "putRole" ELSE "invalid",
            [id |-> id, caps |-> caps], <<"role", id>>)

Invalid(h) == At(h, "invalid") /\ Finish(h) /\ NoFault /\ UNCHANGED roleVars

PutRole(h) ==
  /\ At(h, "putRole")
  /\ LET arg == jobs[h].arg
         new == [InMemory EXCEPT !.roles = Over(Only(arg.id, arg.caps), @)] IN
     \E ok \in BOOLEAN :
       /\ Save(new, ok) /\ Outcome(ok)
       /\ IF ok /\ jobs[h].alone THEN Kept(<<"role", arg.id>>, arg.caps) ELSE UNCHANGED roleKept
       /\ Finish(h)

AskAssignment(h, role, ref, id) ==
  BeginRole(h, "assignRole", "roles", [role |-> role, ref |-> ref, id |-> id],
            <<"assignment", AssignmentKey(role, ref)>>)

CheckRole(h) ==
  /\ At(h, "roles")
  /\ IF ValidAssignment(jobs[h].arg.role, jobs[h].arg.id, DOMAIN AllRoles)
     THEN Go(h, "putAssignment") ELSE Finish(h)
  /\ NoFault /\ UNCHANGED roleVars

PutAssignment(h) ==
  /\ At(h, "putAssignment")
  /\ LET arg == jobs[h].arg
         key == AssignmentKey(arg.role, arg.ref)
         value == [role |-> arg.id, ref |-> arg.ref]
         new == [InMemory EXCEPT !.assignments = Over(Only(key, value), @)] IN
     \E ok \in BOOLEAN :
       /\ Save(new, ok) /\ Outcome(ok)
       /\ IF ok /\ jobs[h].alone THEN Kept(<<"assignment", key>>, value) ELSE UNCHANGED roleKept
       /\ Finish(h)

------------------------------------------------------------------------------
(* A handler that needs a capability: the session, the assignment, then    *)
(* the definition of its role. An assignment of an unknown role is refused *)
(* everything.                                                             *)
Authorize(h) ==
  /\ At(h, "serve") /\ jobs[h].op = "act"
  /\ GoWith(h, "judge", [principal |-> jobs[h].copy,
                         assignment |-> PrincipalAssignment(jobs[h].copy, InMemory.assignments)])
  /\ NoFault /\ UNCHANGED roleVars

Allowed(principal, assignment, c) ==
  IF assignment = None THEN HasCapability(principal, c)
  ELSE assignment.role \in DOMAIN AllRoles /\ c \in AllRoles[assignment.role]

Judge(h) ==
  /\ At(h, "judge")
  /\ IF Allowed(jobs[h].copy.principal, jobs[h].copy.assignment, jobs[h].arg.needs)
     THEN Go(h, "granted") ELSE Finish(h)
  /\ NoFault /\ UNCHANGED roleVars

Act(h) == At(h, "granted") /\ Finish(h) /\ NoFault /\ UNCHANGED roleVars

------------------------------------------------------------------------------
RoleStep(h) ==
  \/ Invalid(h) \/ PutRole(h) \/ CheckRole(h) \/ PutAssignment(h) 
  \/ Authorize(h) \/ Judge(h) \/ Act(h)

RolesRestart ==
  /\ roleMemory' = FALSE /\ roles' = NoRole /\ assignments' = NoRole
  /\ UNCHANGED <<roleFile, roleKept>>

RolesInit ==
  /\ roles = NoRole /\ assignments = NoRole /\ roleMemory = FALSE
  /\ roleFile \in {[old |-> NoRole]} \cup
       IF "act" \in mix.ops THEN {[old |-> [r \in CustomRoles |-> DOMAIN Capabilities]]} ELSE {}
  /\ roleKept = NoRole
==============================================================================
