----------------------------- MODULE WordSync -----------------------------
(***************************************************************************)
(* Offline-first synchronisation of one account's vocabulary: the Rust     *)
(* handler behind POST /vocabulary/sync with its Postgres repository, and  *)
(* the Dart SyncService with its SQLite repository, run by every device    *)
(* signed in to the account.                                               *)
(*                                                                         *)
(* A request is a slot.  The device that sent it waits on the slot; when   *)
(* it gives up (timeout, kill) the slot is an orphan and the server may    *)
(* still carry it out, at any later time.  Inside the server the handler's *)
(* statements are separate steps: take the owner's advisory lock, upsert   *)
(* row after row in the transaction, commit, read the page of changes,     *)
(* read the canonical winners one by one.                                  *)
(***************************************************************************)
EXTENDS WordVersions

CONSTANTS
  Words,        \* word ids
  Foreign,      \* ids whose row on the server belongs to another account
  Requests,     \* slots for requests on their way or in the server
  NoRequest,
  PushLimit,    \* pendingChanges(limit: 200)
  PullLimit,    \* MAX_PULL
  MaxPushes,    \* maxPushBatches
  MaxPages,     \* _maxPagesPerRun
  CrashPoints,  \* where in a run the app may be killed or an await may throw
  MaxStamp,     \* bound: the last instant each device's clock may show
  MaxUpsets     \* bound: lost requests, failed requests, kills and resets

Idle == "idle"
Phases == {Idle, "push", "await", "mark", "merge", "save", "pull"}
Stages == {"free", "sent", "locked", "committed", "pulled"}

ASSUME SyncAssumption ==
  /\ Foreign \subseteq Words
  /\ NoRequest \notin Requests
  /\ PushLimit \in Nat \ {0} /\ PullLimit \in Nat \ {0}
  /\ MaxPushes \in Nat \ {0} /\ MaxPages \in Nat \ {0}
  /\ MaxStamp \in [Devices -> Nat]
  /\ MaxUpsets \in Nat
  /\ CrashPoints \subseteq Phases \ {Idle}

VARIABLES
  row,     \* server: the committed rows of this account
  seq,     \* server: words_sync_revision_seq
  req,     \* the requests, by slot
  db,      \* device: its SQLite table of words
  clock,   \* device: the last stamp it gave out
  cursor,  \* device: the stored preference "sync.cursor.<account>.revision"
  run,     \* device: local state of the synchronise() in progress
  upsets   \* how many faults and resets happened so far

vars == <<row, seq, req, db, clock, cursor, run, upsets>>

FreeRequest ==
  [ stage    |-> "free",
    batch    |-> [i \in Words |-> NoVersion],
    since    |-> 0,
    todo     |-> {},
    staged   |-> [i \in Words |-> NoServerRow],
    accepted |-> {},
    page     |-> [i \in Words |-> NoServerRow],
    canon    |-> [i \in Words |-> NoServerRow],
    next     |-> 0,
    more     |-> FALSE ]

RequestType ==
  [ stage    : Stages,
    batch    : [Words -> Version],
    since    : Nat,
    todo     : SUBSET Words,
    staged   : [Words -> ServerRow],
    accepted : SUBSET Words,
    page     : [Words -> ServerRow],
    canon    : [Words -> ServerRow],
    next     : Nat,
    more     : BOOLEAN ]

NoRun == [pc |-> Idle, via |-> NoRequest, rev |-> 0,
          pushes |-> 0, pages |-> 0, more |-> FALSE]

RunType == [pc : Phases, via : Requests \cup {NoRequest}, rev : Nat,
            pushes : 0 .. MaxPushes, pages : 0 .. MaxPages, more : BOOLEAN]

TypeOK ==
  /\ row \in [Words -> ServerRow]
  /\ seq \in Nat
  /\ req \in [Requests -> RequestType]
  /\ db \in [Devices -> [Words -> LocalRow]]
  /\ clock \in [Devices -> Nat]
  /\ cursor \in [Devices -> Nat]
  /\ run \in [Devices -> RunType]
  /\ upsets \in Nat

Init ==
  /\ row = [i \in Words |-> NoServerRow]
  /\ seq = 0
  /\ req = [s \in Requests |-> FreeRequest]
  /\ db = [d \in Devices |-> [i \in Words |-> NoLocalRow]]
  /\ clock = [d \in Devices |-> 0]
  /\ cursor = [d \in Devices |-> 0]
  /\ run = [d \in Devices |-> NoRun]
  /\ upsets = 0

-----------------------------------------------------------------------------
(* The user writes on a device, at any point of a synchronisation.         *)

\* A device's clock moves forward, but nothing relates two devices' clocks.
Tick(d, t) ==
  /\ t > clock[d]
  /\ clock' = [clock EXCEPT ![d] = t]

\* A new word (its id is fresh) or an imported one (its id is from a backup).
AddWord(d, i, t) ==
  /\ ~Present(db[d][i])
  /\ Tick(d, t)
  /\ db' = [db EXCEPT ![d][i] = Unsent(t, d, FALSE)]
  /\ UNCHANGED <<row, seq, req, cursor, run, upsets>>

\* An edit, a deletion, or an undo: whatever the row says now, it is stamped
\* with this device's clock.  An editor opened before a tombstone arrived
\* brings the word back.
WriteWord(d, i, t, del) ==
  /\ Present(db[d][i])
  /\ Tick(d, t)
  /\ db' = [db EXCEPT ![d][i] = Unsent(t, d, del)]
  /\ UNCHANGED <<row, seq, req, cursor, run, upsets>>

-----------------------------------------------------------------------------
(* SyncService.synchronise(): one run per device at a time.                *)

Dirty(d) == { i \in Words : db[d][i].dirty }

InBatch(r) == { i \in Words : Present(r.batch[i]) }

StartRun(d) ==
  /\ run[d].pc = Idle
  /\ run' = [run EXCEPT ![d] = [NoRun EXCEPT !.pc = "push", !.rev = cursor[d]]]
  /\ UNCHANGED <<row, seq, req, db, clock, cursor, upsets>>

RequestFor(d, P) ==
  [FreeRequest EXCEPT
     !.stage = "sent",
     !.batch = [i \in Words |-> IF i \in P THEN AsVersion(db[d][i])
                                           ELSE NoVersion],
     !.since = run[d].rev,
     !.todo  = P]

\* VocabularyApi.sync: the rows of P and the run's cursor, in a free slot.
Send(d, s, P) ==
  /\ req[s].stage = "free"
  /\ req' = [req EXCEPT ![s] = RequestFor(d, P)]

\* The push loop's request: the oldest unsent edits, at most PushLimit.
SendBatch(d, s) ==
  /\ run[d].pc = "push"
  /\ run[d].pushes < MaxPushes
  /\ Dirty(d) # {}
  /\ \E P \in FirstBy(Dirty(d), PushLimit, [i \in Words |-> db[d][i].at]) :
       Send(d, s, P)
  /\ run' = [run EXCEPT ![d] =
       [run[d] EXCEPT !.pc = "await", !.via = s, !.pushes = @ + 1]]
  /\ UNCHANGED <<row, seq, db, clock, cursor, upsets>>

\* Nothing to push in the first iteration: poll for changes instead.
SendPoll(d, s) ==
  /\ run[d].pc = "push"
  /\ run[d].pushes = 0
  /\ Dirty(d) = {}
  /\ Send(d, s, {})
  /\ run' = [run EXCEPT ![d] = [run[d] EXCEPT !.pc = "await", !.via = s]]
  /\ UNCHANGED <<row, seq, db, clock, cursor, upsets>>

\* Leaves the push loop: it came round again and nothing is left to send.
EndPush(d) ==
  /\ run[d].pc = "push"
  /\ run[d].pushes > 0
  /\ Dirty(d) = {}
  /\ run' = [run EXCEPT ![d] = [run[d] EXCEPT !.pc = "pull"]]
  /\ UNCHANGED <<row, seq, req, db, clock, cursor, upsets>>

\* The pull loop's request.
SendPage(d, s) ==
  /\ run[d].pc = "pull"
  /\ run[d].more
  /\ run[d].pages < MaxPages
  /\ Send(d, s, {})
  /\ run' = [run EXCEPT ![d] =
       [run[d] EXCEPT !.pc = "await", !.via = s, !.pages = @ + 1]]
  /\ UNCHANGED <<row, seq, db, clock, cursor, upsets>>

Answered(s) == req[s].stage = "pulled" /\ req[s].todo = {}

\* The response is here; a poll has nothing to mark.
Receive(d) ==
  /\ run[d].pc = "await"
  /\ Answered(run[d].via)
  /\ run' = [run EXCEPT ![d] = [run[d] EXCEPT !.pc =
       IF InBatch(req[run[d].via]) = {} THEN "merge" ELSE "mark"]]
  /\ UNCHANGED <<row, seq, req, db, clock, cursor, upsets>>

\* Mutant: accepted rows become clean whatever they say by now.
MarkAllSynced(d) ==
  /\ run[d].pc = "mark"
  /\ db' = [db EXCEPT ![d] = [i \in Words |->
       IF i \in req[run[d].via].accepted THEN [db[d][i] EXCEPT !.dirty = FALSE]
                                         ELSE db[d][i]]]
  /\ run' = [run EXCEPT ![d] = [run[d] EXCEPT !.pc = "merge"]]
  /\ UNCHANGED <<row, seq, req, clock, cursor, upsets>>

\* Accepted rows become clean, unless they were written again since the send.
MarkSynced(d) ==
  LET r == req[run[d].via] IN
  /\ run[d].pc = "mark"
  /\ db' = [db EXCEPT ![d] = [i \in Words |->
       IF i \in r.accepted /\ db[d][i].at = r.batch[i].at
       THEN [db[d][i] EXCEPT !.dirty = FALSE]
       ELSE db[d][i]]]
  /\ run' = [run EXCEPT ![d] = [run[d] EXCEPT !.pc = "merge"]]
  /\ UNCHANGED <<row, seq, req, clock, cursor, upsets>>

\* canonical first, then changes, in one SQLite transaction.
MergeFromServer(d) ==
  LET r == req[run[d].via] IN
  /\ run[d].pc = "merge"
  /\ db' = [db EXCEPT ![d] = [i \in Words |->
       MergeRow(MergeRow(db[d][i], r.canon[i]), r.page[i])]]
  /\ run' = [run EXCEPT ![d] = [run[d] EXCEPT !.pc = "save"]]
  /\ UNCHANGED <<row, seq, req, clock, cursor, upsets>>

\* Whether the push loop goes round again after the response r.
PushesOn(d, r) ==
  /\ r.accepted # {}
  /\ Cardinality(InBatch(r)) >= PushLimit
  /\ run[d].pushes < MaxPushes

\* Only now, with every row applied, does the cursor move.
SaveCursor(d) ==
  LET s == run[d].via
      r == req[s] IN
  /\ run[d].pc = "save"
  /\ cursor' = [cursor EXCEPT ![d] = r.next]
  /\ run' = [run EXCEPT ![d] = [run[d] EXCEPT
       !.pc   = IF PushesOn(d, r) THEN "push" ELSE "pull",
       !.via  = NoRequest,
       !.rev  = r.next,
       !.more = r.more]]
  /\ req' = [req EXCEPT ![s] = FreeRequest]
  /\ UNCHANGED <<row, seq, db, clock, upsets>>

\* The end of the run: tombstones the server acknowledged are dropped.
Finish(d) ==
  /\ run[d].pc = "pull"
  /\ ~run[d].more \/ run[d].pages = MaxPages
  /\ db' = [db EXCEPT ![d] = [i \in Words |->
       IF db[d][i].del /\ ~db[d][i].dirty THEN NoLocalRow ELSE db[d][i]]]
  /\ run' = [run EXCEPT ![d] = NoRun]
  /\ UNCHANGED <<row, seq, req, clock, cursor, upsets>>

-----------------------------------------------------------------------------
(* The handler: sync_words::handle and the repository calls it makes.      *)

\* Mutant: the transaction starts without the advisory lock.
StartUnlocked(s) ==
  /\ req[s].stage = "sent"
  /\ req[s].todo # {}
  /\ req' = [req EXCEPT ![s] = [req[s] EXCEPT !.stage = "locked"]]
  /\ UNCHANGED <<row, seq, db, clock, cursor, run, upsets>>

\* The advisory lock of the account, held until the transaction ends.
TakeLock(s) ==
  /\ req[s].stage = "sent"
  /\ req[s].todo # {}
  /\ \A t \in Requests : req[t].stage # "locked"
  /\ req' = [req EXCEPT ![s] = [req[s] EXCEPT !.stage = "locked"]]
  /\ UNCHANGED <<row, seq, db, clock, cursor, run, upsets>>

\* Mutant: only rows the statement returned are acknowledged.
UpsertWinner(s, i) ==
  LET v == req[s].batch[i]
      wins == i \notin Foreign /\ SupersededBy(row[i], v) IN
  /\ req[s].stage = "locked"
  /\ i \in req[s].todo
  /\ seq' = IF wins THEN seq + 1 ELSE seq
  /\ req' = [req EXCEPT ![s] = [req[s] EXCEPT
       !.todo = @ \ {i},
       !.staged = IF wins
         THEN [req[s].staged EXCEPT ![i] = StoredAs(v, seq + 1)]
         ELSE req[s].staged,
       !.accepted = IF wins THEN @ \cup {i} ELSE @]]
  /\ UNCHANGED <<row, db, clock, cursor, run, upsets>>

\* One row of upsert_batch.  The write is staged until the commit; a stale
\* row of one's own counts as accepted, somebody else's row does not.  The
\* sequence also skips numbers (every INSERT draws one before it conflicts);
\* only the order of those stored matters here.
UpsertRow(s, i) ==
  LET v == req[s].batch[i]
      wins == i \notin Foreign /\ SupersededBy(row[i], v) IN
  /\ req[s].stage = "locked"
  /\ i \in req[s].todo
  /\ seq' = IF wins THEN seq + 1 ELSE seq
  /\ req' = [req EXCEPT ![s] = [req[s] EXCEPT
       !.todo = @ \ {i},
       !.staged = IF wins
         THEN [req[s].staged EXCEPT ![i] = StoredAs(v, seq + 1)]
         ELSE req[s].staged,
       !.accepted = IF i \in Foreign THEN @ ELSE @ \cup {i}]]
  /\ UNCHANGED <<row, db, clock, cursor, run, upsets>>

Commit(s) ==
  /\ req[s].stage = "locked"
  /\ req[s].todo = {}
  /\ row' = [i \in Words |-> IF Present(req[s].staged[i]) THEN req[s].staged[i]
                                                         ELSE row[i]]
  /\ req' = [req EXCEPT ![s] = [req[s] EXCEPT
       !.stage = "committed",
       !.staged = [i \in Words |-> NoServerRow]]]
  /\ UNCHANGED <<seq, db, clock, cursor, run, upsets>>

Newer(c) == { i \in Words : row[i].rev > c }

\* changes_since: a page of at most PullLimit rows in revision order, the
\* cursor of its last row, and whether a row was left out.
ChangesSince(s) ==
  LET c == req[s].since IN
  /\ \/ req[s].stage = "committed"
     \/ req[s].stage = "sent" /\ InBatch(req[s]) = {}
  /\ \E P \in FirstBy(Newer(c), PullLimit, [i \in Words |-> row[i].rev]) :
     \E n \in {c} \cup { row[i].rev : i \in P } :
       /\ \A i \in P : row[i].rev <= n
       /\ req' = [req EXCEPT ![s] = [req[s] EXCEPT
            !.stage = "pulled",
            !.page  = [i \in Words |-> IF i \in P THEN row[i] ELSE NoServerRow],
            !.more  = (P # Newer(c)),
            !.next  = n,
            !.todo  = req[s].accepted]]
  /\ UNCHANGED <<row, seq, db, clock, cursor, run, upsets>>

\* find_by_id for one accepted id; each is a query of its own.
FindCanonical(s, i) ==
  /\ req[s].stage = "pulled"
  /\ i \in req[s].todo
  /\ req' = [req EXCEPT ![s] = [req[s] EXCEPT
       !.canon = [req[s].canon EXCEPT ![i] = row[i]],
       !.todo  = @ \ {i}]]
  /\ UNCHANGED <<row, seq, db, clock, cursor, run, upsets>>

-----------------------------------------------------------------------------
(* What goes wrong.                                                        *)

Upset ==
  /\ upsets < MaxUpsets
  /\ upsets' = upsets + 1

\* The device stops in the middle of a run: a timeout while it waits, an
\* exception, or the app is killed.  A request it waited on lives on.
Abandon(d) ==
  /\ run[d].pc \in CrashPoints
  /\ Upset
  /\ run' = [run EXCEPT ![d] = NoRun]
  /\ req' = IF run[d].pc \in {"mark", "merge", "save"}
            THEN [req EXCEPT ![run[d].via] = FreeRequest]
            ELSE req
  /\ UNCHANGED <<row, seq, db, clock, cursor>>

Orphan(s) == \A d \in Devices : run[d].via # s

\* A request nobody waits for never reached the server, or its response has
\* nobody to go to.
Vanish(s) ==
  /\ Orphan(s)
  /\ req[s].stage = "sent" \/ Answered(s)
  /\ req' = [req EXCEPT ![s] = FreeRequest]
  /\ UNCHANGED <<row, seq, db, clock, cursor, run, upsets>>

\* An error or a crash in the server: an open transaction rolls back, and
\* the device, if it still waits, gets an ApiException.
Fail(s) ==
  /\ req[s].stage # "free"
  /\ ~Answered(s)
  /\ Upset
  /\ req' = [req EXCEPT ![s] = FreeRequest]
  /\ run' = [d \in Devices |-> IF run[d].via = s THEN NoRun ELSE run[d]]
  /\ UNCHANGED <<row, seq, db, clock, cursor>>

\* Signing in through the settings screen forgets the cursor, possibly while
\* a run is under way.
ResetCursor(d) ==
  /\ cursor[d] # 0
  /\ Upset
  /\ cursor' = [cursor EXCEPT ![d] = 0]
  /\ UNCHANGED <<row, seq, req, db, clock, run>>

-----------------------------------------------------------------------------
UserStep(d) ==
  \E i \in Words, t \in 1 .. MaxStamp[d] :
    \/ AddWord(d, i, t)
    \/ \E del \in BOOLEAN : WriteWord(d, i, t, del)

RunStep(d) ==
  \/ StartRun(d)
  \/ \E s \in Requests : SendBatch(d, s) \/ SendPoll(d, s) \/ SendPage(d, s)
  \/ EndPush(d)
  \/ Receive(d)
  \/ MarkSynced(d)
  \/ MergeFromServer(d)
  \/ SaveCursor(d)
  \/ Finish(d)

ServerStep(s) ==
  \/ TakeLock(s)
  \/ \E i \in Words : UpsertRow(s, i) \/ FindCanonical(s, i)
  \/ Commit(s)
  \/ ChangesSince(s)

Next ==
  \/ \E d \in Devices : UserStep(d) \/ RunStep(d) \/ Abandon(d) \/ ResetCursor(d)
  \/ \E s \in Requests : ServerStep(s) \/ Vanish(s) \/ Fail(s)

Spec == Init /\ [][Next]_vars

\* The app synchronises again and again (on every resume, after every edit,
\* on demand) and a run goes on until it ends; the server works off what it
\* received, and a response nobody waits for is dropped.
Fairness ==
  /\ \A d \in Devices : WF_vars(RunStep(d))
  /\ \A s \in Requests : WF_vars(ServerStep(s) \/ Vanish(s))

FairSpec == Spec /\ Fairness
=============================================================================
