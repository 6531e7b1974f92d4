--------------------------- MODULE WordSyncProps ---------------------------
(***************************************************************************)
(* What the vocabulary sync must guarantee.                                *)
(***************************************************************************)
EXTENDS WordSync

Staged(s, i) == Present(req[s].staged[i])

(***************************************************************************)
(* The comment on the advisory lock in word_repository_pg.rs: "Without     *)
(* this lock, an earlier uncommitted revision could be skipped by a        *)
(* concurrent pull".  A revision that is still uncommitted is larger than  *)
(* every device's cursor, every cursor on its way to a device and every    *)
(* committed revision, so the next pull cannot step over it.               *)
(***************************************************************************)
NoRevisionSkipped ==
  \A s \in Requests, i \in Words :
    Staged(s, i) =>
      LET rev == req[s].staged[i].rev IN
      /\ \A j \in Words : row[j].rev < rev
      /\ \A t \in Requests : req[t].next < rev
      /\ \A d \in Devices : cursor[d] < rev /\ run[d].rev < rev

(***************************************************************************)
(* A row the device holds as clean is safe: the server has that version or *)
(* a later one.  This is what lets the device stop offering the row and    *)
(* purge it when it is a tombstone, whatever edits, retries, duplicated    *)
(* requests and crashes came in between.                                   *)
(***************************************************************************)
CleanIsStored ==
  \A d \in Devices, i \in Words :
    Present(db[d][i]) /\ ~db[d][i].dirty => row[i].at >= db[d][i].at

\* The device holds the server's version of the word; a purged tombstone
\* counts as held.
UpToDate(d, i) ==
  \/ SameVersion(db[d][i], row[i])
  \/ ~Present(db[d][i]) /\ row[i].del

\* An answer whose rows are still to be merged carries the word.
AboutToMerge(d, i) ==
  /\ run[d].pc = "merge"
  /\ Present(req[run[d].via].canon[i])

(***************************************************************************)
(* The pull cursor never gets ahead of the data: a row whose revision the  *)
(* cursor covers will not be sent again, so the device must hold it, hold  *)
(* an unsent edit of it, or be about to merge it.                          *)
(***************************************************************************)
CaughtUp ==
  \A d \in Devices, i \in Words :
    Present(row[i]) /\ row[i].rev <= cursor[d] =>
      UpToDate(d, i) \/ db[d][i].dirty \/ AboutToMerge(d, i)

(***************************************************************************)
(* Every change of the feed moves forward twice: to a version stamped      *)
(* later (last write wins, a stale retry never clobbers a newer edit) and  *)
(* to a revision beyond everything a pull may have returned before.        *)
(***************************************************************************)
FeedMovesForward ==
  [][\A i \in Words : row'[i] # row[i] =>
       /\ row'[i].at > row[i].at
       /\ \A j \in Words : row'[i].rev > row[j].rev
       /\ \A d \in Devices : row'[i].rev > cursor[d]]_vars

\* The promise, with the server's rows as the truth and the dirty rows of
\* each device as its drafts.
Promise == INSTANCE LwwNotebook WITH
  Versions <- Version,
  truth <- [i \in Words |-> AsVersion(row[i])],
  draft <- [d \in Devices |-> [i \in Words |->
              IF db[d][i].dirty THEN AsVersion(db[d][i]) ELSE NoVersion]]

\* The sync implements that promise.
KeepsPromise == Promise!Spec

(***************************************************************************)
(* Offline-first: whatever was lost, retried or interrupted, once the user *)
(* stops writing every device ends up with the server's notebook and       *)
(* nothing left to send.                                                   *)
(***************************************************************************)
Converged ==
  \A d \in Devices, i \in Words : UpToDate(d, i) /\ ~db[d][i].dirty

EventuallyConverged == <>[]Converged
=============================================================================
