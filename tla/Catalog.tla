------------------------------- MODULE Catalog -------------------------------
(***************************************************************************)
(* The catalog as the admin's, the warehouse's and the profile pages read  *)
(* it, from the cache while it is ready and from MariaDB otherwise, with   *)
(* ERPNext changing and the cache following.                               *)
(***************************************************************************)
EXTENDS CatalogSync, CatalogReads

Kinds == {kind \in DOMAIN TablesOf : TablesOf[kind] \subseteq Tables}

\* Reading changes nothing: the store answers once it is ready, MariaDB
\* until then, and also in place of an error of the store.
Source == IF ready THEN local ELSE remote

Read(kind) == Answer(kind, ready, Source)

Next ==
  \/ \E edit \in instance.edits : BeginEdit(edit)
  \/ \E tx \in open : CommitEdit(tx)
  \/ \E r \in repeats : DeleteRepeated(r)
  \/ SyncStep \/ SyncFails \/ Restart

\* With an interval above zero the loop never ends and tokio keeps polling.
Spec == SyncInit /\ [][Next]_syncVars /\ WF_syncVars(SyncStep)

-----------------------------------------------------------------------------
(* Properties *)

(* No reader is answered from rows older than the sync before: each row   *)
(* of a table it reads, and each absence of one, was so at a moment since  *)
(* the start of the last completed sync, except for tables a delta cannot  *)
(* see whole: ones a row was committed to behind the newest stamp already  *)
(* read, or where a pair came again so that the count of rows is not the   *)
(* cache's, which keep the window of the last full sync, or ones a row came*)
(* to or went from unseen between two queries, until the next sync.        *)
AnswersAreRecent ==
  \A kind \in Kinds : \A p \in Places :
    p[1] \in TablesOf[kind] => RowIn(Source, p) \in window[p]

(* Once the cache has what ERPNext has, falling back to MariaDB changes no *)
(* answer, except that the warehouse's listings from MariaDB also have the *)
(* items that are not stocked.                                             *)
FallbackAgrees ==
  local = remote =>
    \A kind \in Kinds :
      LET cached == Answer(kind, TRUE, local)
          direct == Answer(kind, FALSE, remote)
      IN  /\ cached \subseteq direct
          /\ cached = direct \/ /\ kind \notin AdminKinds \cup ProfileKinds
                                /\ \E i \in Enabled(remote.items) : ~remote.items[i].stock

(* When ERPNext rests the cache catches up, deletions included, and serves *)
(* it, whatever failed before; only tables a row was committed to behind   *)
(* its stamp, or where a pair came again, wait for a full sync.            *)
CatchesUp == <>[](ready /\ \A t \in Tables \ blind : local[t] = remote[t])
=============================================================================
