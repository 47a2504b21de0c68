------------------------------ MODULE MCAccess ------------------------------
(***************************************************************************)
(* Small instances of Access: two requests at a time, drawn in each        *)
(* behaviour from one of the mixes below.                                  *)
(***************************************************************************)
EXTENDS Access

CONSTANTS t0, t1

MCSupplier == [role |-> "supplier", ref |-> "s1", name |-> "s1", avatar |-> ""]
MCOperator == [MCSupplier EXCEPT !.role = "aparatchi", !.ref = "c1"]

Mix(backend, ops, requestBound, faultBound, clock) ==
  [backend |-> backend, ops |-> ops, requests |-> requestBound, faults |-> faultBound,
   clock |-> clock, person |-> IF "act" \in ops THEN MCOperator ELSE MCSupplier]
MCMixes ==
  {Mix("lmdb", {"login", "logout", "me"}, 3, 0, 2),
   Mix("lmdb", {"logout", "me"}, 2, 1, 3), Mix("json", {"logout", "me"}, 2, 1, 3),
   Mix("lmdb", {"nickname", "avatar", "me"}, 2, 2, 0),
   Mix("json", {"nickname", "avatar"}, 3, 1, 0),
   Mix("lmdb", {"block", "regenerate", "login"}, 3, 1, 0),
   Mix("lmdb", {"regenerate", "unassign"}, 4, 0, 2),
   Mix("lmdb", {"block", "assign", "unassign", "items"}, 3, 1, 0),
   Mix("json", {"block", "remove", "restore", "regenerate"}, 3, 1, 0),
   Mix("lmdb", {"unblock", "supplierPhone", "createSupplier", "login"}, 3, 1, 0),
   Mix("lmdb", {"regenerateCustomer", "customerPhone", "createCustomer", "login"}, 3, 1, 0),
   Mix("lmdb", {"assign", "unassignCustomer", "assignCustomer", "removeCustomer"}, 3, 1, 0),
   Mix("lmdb", {"putRole", "assignRole", "act"}, 3, 1, 0),
   Mix("lmdb", {"updateSettings", "login"}, 2, 1, 0),
   Mix("lmdb", {"updateSettings", "regenerateWerka"}, 2, 1, 0),
   Mix("json", {"regenerateWerka", "login"}, 3, 1, 0),
   Mix("lmdb", {"register", "unregister", "send"}, 3, 1, 1),
   Mix("json", {"register", "unregister", "send"}, 3, 1, 0),
   Mix("lmdb", {"createGroup", "moveGroup"}, 2, 1, 0),
   Mix("lmdb", {"createGroup", "moveItems"}, 2, 1, 0)}

MCTokens == {t0, t1}
MCSuppliers == {"s1", "s2"}
MCCustomers == {"c1", "c2"}
MCAbsentees == {"s2", "c2"}
MCCapabilities == [act |-> {"admin", "werka", "supplier"}, see |-> {"admin"}]
Alike == Permutations(Handlers)
MCTree == [g1 |-> "root", g2 |-> "g1"]
==============================================================================
