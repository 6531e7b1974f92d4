# Veea English Notes: TLA+ specifications

Veea English Notes is a Flutter app for collecting vocabulary (SQLite on the
device, `src/lib/`), with iOS extensions that lock distracting apps behind a
vocabulary question (`src/ios/`), and a Rust service with Postgres, Redis and
NATS that keeps an account's words and its sign-ins (`src/cloud/`).  The app is
offline-first: every write goes to SQLite, and the sync reconciles the devices
of an account.

This directory specifies the protocols of that system in TLA+, model-checks
them with TLC and proves the main results with TLAPS.  `PROJECT.json` maps each
definition to the lines it models, each property to a mutation of the code that
breaks it, and each hazard in the code to the properties that watch it.

## 1. The system

| Component | State | Operations | Hard because |
|---|---|---|---|
| Vocabulary sync, server (`cloud/.../sync_words.rs`, `word_repository_pg.rs`) | table `words` (with `sync_revision`), one sequence, an advisory lock per owner | one handler: lock, upsert row by row, commit, page of changes, canonical reads | two devices' transactions interleave with each other's page and canonical reads; requests arrive late, twice, or for nobody |
| Vocabulary sync, device (`sync_service.dart`, `sqlite_vocabulary_repository.dart`) | SQLite rows with `is_dirty`, the stored cursor, the locals of one run | push loop, pull loop, mark, merge, save the cursor, purge tombstones | the user writes between any two awaits; a run may end at any await; clocks of devices are unrelated |
| Outbox, event bus, consumers (`outbox_dispatcher.rs`, `outbox_repository_pg.rs`, `consumer_runtime.rs`, `consumer_worker.rs`) | `outbox_events` (status, retry_count), `inbox_events`, what is on the wire | fetch a batch, publish, mark published or failed; consume, handle, record | several processes; `FOR UPDATE SKIP LOCKED` outside a transaction; crash between effect and mark |
| Accounts and sessions (`application/identity/commands/*.rs`, `user_repository_pg.rs`) | users, refresh tokens | register, log in, refresh (rotate), revoke, change password, identifier or role, delete | reads before the transaction that depends on them; `revoke_all` outside the transaction of the change |
| Phone OTP (`phone_auth.rs`) | `otp_challenges` | request, send, check, consume, sign in | a provider call between two statements; limits counted under locks; attempts counted before the check |
| Identifiers and the texts of a word (`identifier.rs`, `phone_number.rs`, `account_identifier.dart`, `word_dto.rs`, `vocabulary_word.dart`) | none | parse what was typed, in the app, in the commands, for one-time codes; clean, validate and cut the texts of a word | four parsers for one phone, in two languages; what one side stores the other must accept |
| Device session and notebooks (`auth_provider.dart`, `api_client.dart`, `token_store.dart`) | stored session, open notebook, archive, suspension of sync | sign in and out, switch the notebook, refresh tokens, expire | several awaits per operation, re-entered by taps and by 401 answers |
| App gate, Flutter (`app_gate_provider.dart`, `gate_word_queue.dart`) | the round on screen, pending answers, credit, history | start, answer, complete, recover after a restart | native grant and SQLite record are two steps |
| App gate, iOS (`NativeGate*.swift`, `GateMonitor.swift`, `GateShieldAction.swift`) | a state file shared by the app and its extensions under a file lock, the shield, monitors | select, grant, expire, relock | callbacks of old and new monitors in any order, bounded waits |
| HTTP middleware (`idempotency.rs`, `rate_limit.rs`, `redis_cache.rs`) | Redis keys | look up, run, store; count | check-then-act, two commands for one counter |
| Feedback (`feedback_handler.rs`, `feedback_*.dart`) | a local queue, a server table | queue, send, retry | retries after lost answers |
| Learning algorithms (`srs_review.dart`, `backup_service.dart`, `gate_word_queue.dart`) | none | schedule, merge a backup, rotate words | boundaries of the schedule |
| Screens, games, speech, OCR, bootstrap, configuration | none of a protocol | | pure I/O and presentation, not modelled |

How they interact: a repository write in the app triggers `SyncService` through
a callback; `SyncService` calls the sync handler over HTTP through `ApiClient`,
which refreshes tokens on a 401 by calling the refresh command, and suspends the
sync while `AuthProvider` switches notebooks.  The identity commands write
events to the outbox in the transaction of their change; the dispatcher
publishes them and the consumers record them.  The gate reads words from the
same SQLite database and shares a state file with the iOS extensions.

Per component, what makes it correct:

- **Sync**: no device misses a row for good, no edit is lost to anything but a
  later edit, devices agree in the end.  (Section 3.)
- **Outbox**: every committed event is published or given up after its retries;
  marks say what happened; each duplicate has a cause.
- **Accounts**: an identifier has one account; the table and the announced events
  agree; no session without an account; a rotated token is dead; no admin appears
  from nowhere.
- **OTP**: at most five checks per challenge, one consumption, the limits per
  phone and address.
- **Identifiers, texts**: one phone is one account, however and wherever typed;
  what was saved comes back as it was saved.
- **Device session**: notebooks never mix; a session holds its own tokens; nothing
  disappears but what was deleted.
- **Feedback**: a receipt is real; nothing foreign is shown; limits hold.
- **Gate**: one credit per answered round, one pass per credit; an expired pass
  locks again.
- **Middleware**: one run of the handler per idempotency key; a counter expires.

## 2. The modules

Each component has its module, a module `...Props` with the properties, a module
`MC...` with the constants for TLC, and a module `...Proofs` with its theorems.

| Module | What it is |
|---|---|
| `WordVersions` | data: versions of a word, the comparison of the server's upsert (`SupersededBy`) and of the device's merge (`MergeRow`), `FirstBy` for `ORDER BY ... LIMIT` |
| `WordSync` | the sync: server and devices, one action per step, faults, fairness |
| `LwwNotebook` | the abstract specification: one last-write-wins register per word, and drafts; `WordSyncProps` states that `WordSync` implements it |
| `WordSyncProofs` | TLAPS: types, slots, the order of revisions; last write wins, the feed, the refinement, the pull cursor |
| `Accounts`, `AccountsProofs` | the identity commands over the tables of users, refresh tokens and events; TLAPS |
| `AccountDirectory` | the abstract specification of accounts: names, the deleted, who holds which token, which tokens live; `AccountsProps` states that `Accounts` implements it |
| `PhoneOtp`, `PhoneOtpProofs` | challenges, from the request of a code to its consumption; TLAPS |
| `Outbox`, `OutboxProofs` | dispatchers, bus, consumers; TLAPS |
| `Feedback`, `FeedbackProofs` | the queue of reports on the device, the endpoint, the team's answers; TLAPS |
| `DeviceSession`, `DeviceSessionProofs` | the session, the shared refresh, the switch of notebooks beside a sync; TLAPS |
| `NativeGate`, `NativeGateProofs` | the protection of apps by Screen Time on iOS; TLAPS |
| `TypedText`, `Identifiers`, `WordTexts` | a typed text; what the app and the server make of it as an identifier, and as a text of a word; checked together (`MCTexts`) |
| `TextsProofs` | TLAPS: both, for texts of every length |

### Vocabulary sync

| Variable | Code |
|---|---|
| `row`, `seq` | the committed rows of one owner in `words`; `words_sync_revision_seq` |
| `req[s]` | one request in a slot: body (`batch`, `since`), what the handler has done (`stage`, `todo`, `staged` rows of the open transaction, `accepted`), the answer (`page`, `canon`, `next`, `more`) |
| `db[d]` | the device's SQLite table |
| `clock[d]` | the last `updated_at` the device gave out |
| `cursor[d]` | the preference `sync.cursor.<account>.revision` |
| `run[d]` | the locals of `_synchronise()`: where it is, the request awaited, the cursor in memory, the counts of batches and pages |

| Actions | Code |
|---|---|
| `AddWord`, `WriteWord` | `insert`, `update`, `softDelete`, `restore`, each stamping `updated_at` and `is_dirty` |
| `StartRun`, `SendBatch`, `SendPoll`, `EndPush`, `SendPage`, `Receive`, `Finish` | the two loops of `_synchronise()` and the purge at its end |
| `MarkSynced`, `MergeFromServer`, `SaveCursor` | what follows an answer: two SQLite transactions and a preference |
| `TakeLock`, `UpsertRow`, `Commit`, `ChangesSince`, `FindCanonical` | the statements behind `POST /vocabulary/sync` |
| `Abandon`, `Vanish`, `Fail`, `ResetCursor` | a kill, timeout or exception; a request or answer that is lost; an error of the server; a sign-in from the settings screen |

A step is what runs between two awaits or two SQL statements.  The handler's
statements after the commit are separate reads, so another device's transaction
may fall between the page of changes and the canonical rows, and between two
canonical rows.  A device that gives up on a request frees nothing: the request
stays in its slot as an orphan and is carried out later, or never.

What is abstracted:

- The words' text never decides anything in the protocol.  A version is its
  stamp, its author and the tombstone flag.  The author is there to tell apart
  two versions with one stamp.
- A device's own clock gives a later stamp to every write; clocks of two devices
  are unrelated, ties between them included.  A device whose clock is set back
  behaves, for one word, like a second device with an earlier clock.
- The sequence also skips numbers (each `INSERT` draws one before it conflicts).
  Only the order of the stored revisions matters, so `seq` counts those.
- One request is delivered at most once.  The client's retry after a timeout is
  a new request, and it may overlap the old one.
- The list of rows in a batch is the batch's set: a row is upserted at any
  position.  Under the lock, before the commit, the order shows nowhere but in
  the revisions.
- The validation of payloads is in `WordTexts`, `suspend`/`resumeForAccount` in
  `DeviceSession`; the columns of learning progress are left out.

### Accounts

`users` and `tokens` are the tables, `told` the events in the outbox, `call` the
commands in progress.  A command reads, checks and changes a copy on pooled
connections and writes in a transaction of its own; `pc` is what comes next:
`load`, `unique` (the lookup of a new address), `commit`, `revoke`
(`revoke_all_for_user`, outside the transaction of the change), `end` (the
deletion).  Whatever a command has read may be stale when it writes, and
`UpdateUser` writes every column of its copy.  `GiveUp` ends a call at any await:
a constraint, a database error, the timeout of the middleware, which drops the
handler, a crash.  `SignInVerified` is one step, for it runs in one transaction
under the phone's lock and the row's.  `parent` and `under` of a token are
history: the token it was rotated from, and the password its session began with.

- Of the column `status` only `is_active` is read.  No command suspends an
  account: `Suspend` stands for a hand in the database.  `remove_identifier` and
  `activate` have no caller and are not actions.
- Ids are random, so a new account takes an id nobody has used (`Fresh`).
- A hash stands for its password; access tokens for their account.

### One-time codes

`row` is `otp_challenges`, `call` a request in progress: waiting for its two
locks with the time its transaction began, counted, sending, asking the service,
consuming.  Time moves at any point.  `asked` and `verified` are history.  The
rows of an account that is deleted stay in the model (the code cascades), the
deletion of rows older than two days and the `UPDATE` that sets the delivery id
are part of the step they follow.

### Outbox

`event` is `outbox_events`; `worker[w]` a dispatcher with the batch it fetched;
`queue`, `consumer` and `inbox` are the subscriptions, what a consumer is doing,
and `inbox_events`.  `FOR UPDATE SKIP LOCKED` runs outside a transaction, so the
locks are gone when the statement is, and two workers may fetch one event.  `Ok`
from the NATS client says that the message is in its buffer.  The bus is core
NATS, which keeps nothing for a subscriber that is away, though the comment in
`nats_bus.rs:9` speaks of JetStream.

- `main` does not start `ConsumerWorker`; it is modelled as it is written.
- Without NATS the no-op bus discards an event and it is marked published; the
  constant `Bus` has that case, and `MarksAreTrue` excepts it.
- "exactly-once" (`consumer_worker.rs:14`) does not hold: without a `message-id`
  header the id is a hash of the payload, which has the time of publication, so an
  event that is published again is new to the inbox.  Nor is there an order per
  aggregate (`message_envelope.rs:9`): batches are published from several workers.

### Feedback

`outbox`, `owner`, `shown`, `reload` and `run` are the device's table and its
provider, `request` what is at the server (a request may outlive its caller),
`counter` the key in Redis, whose `INCR` and `EXPIRE` are two steps, `report` the
table of the server.  The server lets a request through when its count is within
the limit, looks for the report under an advisory lock, counts the last hour's
and inserts, in one transaction.

### Device session

`stored` is the entry in the keychain, `mem` the provider's state, `sync` the
service with its run, `op` the operation that holds `_busy`, `out` a sign-out,
which nothing guards, `refresh` the one refresh all requests share, `other` a
request beside all that, `book` and `archive` the open notebook and
`account_workspaces`, `server` the accounts' words and tokens.  A request and what
the server does with it are one step, its answer is processed in a later one.

- Requests share a refresh, but nothing else waits for one: a sign-out, a deletion,
  a change of the password and a sign-in clear or write the entry whatever
  `_refreshing` says.  A logout may be answered 200 while a refresh is in flight
  that another request started, on a 401 of its own; and `save()` reads the
  entry (`RefreshReads`) before it writes it back with the new tokens in it
  (`RefreshGranted`), so the session may end before the read or between the two.
  `late` records that such a save was made over a session that had ended
  (`Outlived`: over nothing, or over another account's).  All of it is in the
  runs and in the proofs; what a late save breaks is excepted in the properties, and
  shown by `session_late`.
- A restart may fall between any two steps and any number of times.
- A word is a model value with the notebook it was written in as history; its
  versions are the matter of `WordSync`.  A run uploads the whole notebook.

### Protection of apps on iOS

`file` is `state.json`, `shield` what `ManagedSettingsStore` blocks, `monitor` the
activities `DeviceActivityCenter` knows, `calls` the calls of the monitor extension
the system owes, `main` where the app is in an operation.  Inside the file lock
there are two steps, the file is saved and the shield is applied: a process that is
suspended between them holds the lock (`todo`), one that is killed releases it.
The other processes wait for the lock for a second and then give up
(`MonitorGivesUp`, `MonitorFails`).  `Apply` reads the clock and sets the shield, which
are two statements (`NativeGateShielding.swift:15`, `:18`).  A process suspended between
them still holds the lock, so no other one can save or apply meanwhile: it is `Apply`
at the time that was read, and a relock that gives up on the lock before the shield is
set is `MonitorFails` after it.

- Monitors belong to the system: it may refuse one (`StartMonitoring`), and calls
  the extension when one starts and when it is over, once, at any later time.
  `StopCancels = FALSE` assumes that stopping a monitor does not take back a call
  that is due.  With `TRUE`, `RelockAhead` is violated: the cleanup of a resume
  takes the time anew after its reconcile (`NativeScreenTimeManager.swift:131-133`),
  and a grant that fails has cleaned up without one (`:89`), so a pass that ends
  in between loses its only call and its app stays open until the next one.
- Time is whole: an expiry is rounded to the second of its monitor
  (`NativeGateGrantCoordinator.swift:22-25`), and a unit of the model is any span.

### Texts

The only variable is the text typed so far, so that TLC visits every text up to a
length.  Of characters that all functions treat alike one stands for all; `"~"` is
the no-break space.  Lengths and limits are scaled down.

- Four functions read a phone: `Identifier::parse` and `vietnam_phone` on the server
  (`Parse`, `VietnamPhone`), `AccountIdentifier.parse` and `vietnamPhone` in the app
  (`DeviceParse`, `DeviceVietnamPhone`).  The last one also drops the no-break space,
  which `vietnam_phone` does not; what the app sends is its result.  Parentheses and
  hyphens are dropped by all four, and the dot stands for them.
- The server counts the bytes of an address (`Bytes`), the app UTF-16 units (`Len`).
  A character of `Wide` has one byte more than units; characters with two bytes more
  behave like two of them here, and letters whose small form has another
  length are left out.

## 3. What is checked

| Run | Instance | Properties |
|---|---|---|
| `sync_safe` | 2 devices, 2 words, 2 slots, two writes on one device and one on the other, batches and pages of one row, one page per run, 1 fault outside the merge | `TypeOK`, `NoRevisionSkipped`, `CaughtUp`, `CleanIsStored`, `FeedMovesForward`, `KeepsPromise` |
| `sync_live` | 2 devices, 1 word, 2 slots, the same writes, one batch and two pages per run, 1 fault outside the merge | `EventuallyConverged` |
| `sync_interrupted` | as `sync_live`, with a kill between the two merge transactions allowed | `EventuallyConverged`, violated |
| `accounts` | 2 accounts, one of them an admin, 2 addresses, 2 phones, 3 tokens, 2 calls at a time, 4 in all | `TypeOK`, `KeepsDirectory`, `AnnouncedExistence`, `NoSessionWithoutAccount`, `RotatedIsDead`, `AdminsAreMade` |
| `accounts_password` | the same with 2 tokens, and no call ends early | `SessionsOfThisPassword`, violated |
| `phone_otp` | 2 phones, 1 address, 2 challenges, 2 calls at a time, 2 attempts, windows of 1 and 2 of 4 instants | `TypeOK`, `SpentAsMeant`, `Bounded`, `LimitsHold` |
| `outbox` | 2 dispatchers, 1 consumer, 2 events, 2 retries, 2 faults | `TypeOK`, `MarksAreTrue`, `BoundedDuplicates`, `EventuallySettled`, `EventuallyHandled` |
| `feedback` | 2 owners, 2 reports, 2 requests, limits of 1 and 2, one update by the team, 1 fault | `TypeOK`, `ReceiptsAreReal`, `ShownBelong`, `LimitsHold`, `NeverOlder` |
| `texts` | every text of up to 6 of 9 characters, two of them wide; addresses of up to 6 bytes, local parts of 1 | `StoredIsFound`, `SamePhone`, `AppAgrees`, `SavedComesBack`, `StoredSettles` |
| `session` | 2 accounts, 1 word, 3 tokens, kills at any point | `TypeOK`, `KeptApart`, `OneAccount`, `NotForgotten`, `Survives` |
| `session_late` | the same | `SeparateNotebooks`, violated |
| `gate` | 2 apps, passes of 1 or 2 of 3 instants, 2 passes, 1 kill or failure | `TypeOK`, `ShieldFollows`, `RelockAhead` |

What the properties say of the code:

- `NoRevisionSkipped`: the purpose of the advisory lock.  A revision drawn and
  not yet committed is above every cursor, also the cursors in answers on their
  way.
- `CaughtUp`: a row the cursor covers is never sent again, so the device must
  have it, have its own edit of it, or be about to merge it.  It relates the
  order of the page, the place of the canonical reads after it, and the moment
  the cursor is saved.
- `CleanIsStored`: a row no longer marked dirty is on the server, in that version
  or a later one; a purged tombstone is not coming back.
- `FeedMovesForward`: a retried or duplicated request never replaces a newer
  version, and every change gets a revision no cursor has reached.
- `KeepsPromise`: the refinement of `LwwNotebook`.
- `EventuallyConverged`: when the user stops writing, every device ends up with
  the server's rows and nothing dirty.
- `KeepsDirectory`: the refinement of `AccountDirectory`.  Whatever calls are in
  progress, the tables are those of a directory in which each change happens at
  once: an address is taken while it is nobody else's, a session is opened while its
  account is there, a saved copy changes nothing but an address, and a deletion ends
  every session.  The directory allows no more than the code does not
  prevent: a stale copy may put an earlier address back (`Readdress`), and two
  exchanges of one token may both succeed (`Renew`).
- `AnnouncedExistence`, `AdminsAreMade`: stale copies
  written over a deletion or a lost role.  `NoSessionWithoutAccount`:
  a login that read the account before its deletion.  `RotatedIsDead`: two
  refreshes with one token; both succeed, the token is dead.
- `SpentAsMeant`: of the calls that had the right code confirmed, one spends the
  challenge, in time, for its purpose and its account.  `Bounded`: the attempts are
  counted before the service is asked.  `LimitsHold`: the sliding windows, with
  transactions that waited for their locks with an earlier `now()`.
- `MarksAreTrue`, `BoundedDuplicates`: workers overwrite one another's marks.
  `EventuallySettled`: every event is published or given up, and stays so.
  `EventuallyHandled`: without a fault, every event reaches a handler.
- `ReceiptsAreReal`, `ShownBelong`, `NeverOlder`, `LimitsHold` (of feedback): lost
  answers, lists and deliveries of another account, a retry beside the request it
  repeats.
- `StoredIsFound`, `SamePhone`, `AppAgrees`: the four parsers agree.  What the app
  accepts the server reads as the same, but for an address over the server's
  limits, which it refuses: the form has no limit for the local part, and counts
  other units.
  `SavedComesBack`, `StoredSettles`: the sync gives back what the editor saved,
  and the server accepts again what it stored.
- `KeptApart`, `OneAccount`, `NotForgotten`, `Survives`: no word changes accounts,
  no tokens are stored as another's, no signed-in device stays suspended, a word
  leaves a device only after a deletion.  The first three, but for the part of
  `OneAccount` that a run is of the open notebook, hold until a refresh is saved
  after its session had ended; so does the part of `Survives` that a wipe takes
  nothing of an account that exists.
  That an account finds its archived notebook again (`ArchiveComesBack`) is claimed
  only until the first deletion: `deleteAll` leaves the notebook without an owner,
  `activateNotebook` restores an archive only `if (previous != null)`
  (`sqlite_vocabulary_repository.dart:940`), and so whoever signs in next keeps the
  empty notebook, and its own is overwritten in the archive at the next
  switch.  Its words are still on the server, but the kept cursor does not bring
  them back, and unsent edits are gone.
- `ShieldFollows`: no older state is applied over a newer one, and an old callback
  does not end a renewed pass.  `RelockAhead`: an open protected app always has
  something ahead that will look at the time: a monitor that ends with its pass,
  then a call the system owes, then a process that holds the lock and is about to
  apply.  The excepted case, `missed`, is a relock that was killed or failed, which
  the code only logs.

**Bounds.**  Every bound is a constant.  Two actors, and two slots or calls, are the
least that let one transaction fall between the steps of another, or an orphan
meet its retry.  Batches and pages of one row make every second row take another
round; with one page per run (`sync_safe`) and one batch per run (`sync_live`) a run
also ends with work left.  Two words are needed where the order of the feed matters.
Stamps from 1 to 2 on two devices give earlier, equal and later edits.  Four calls
(`accounts`) are, for example, two refreshes, a change of role and a deletion.  The
limits in `phone_otp` and `feedback` are small so that every one is reached.  Three
tokens (`session`) are two sign-ins and a refresh; two passes (`gate`) a pass and
its renewal.  One fault is enough wherever each fault is repaired by the next
attempt; `outbox` has two, since a retry may fail as well.  Symmetry is used for
safety only.  The runs without `CHECK_DEADLOCK` really stop: the calls, instants
or characters of the bound are used up.

**Fairness.**  `WordSync`: a device keeps running its sync: the app starts one on
every start, resume, change of the network and after every edit, and a run goes
on until it ends; the server works off the requests it received, and a slot nobody
waits for is freed in the end.  `Outbox`: a worker polls in a loop and its process
is started again (`restart: unless-stopped` in the compose file); a consumer reads
what it was sent.  Nothing else is fair: users need not act and nothing need fail.
The other modules state safety only.

### What the violations show

1. `sync_interrupted`.  A losing edit is marked clean by `markSynced` and
   replaced by the winner in `mergeFromServer`, which is another transaction.  A
   kill in between leaves the loser, clean.  If the winner's revision is below
   the cursor, nothing brings it again.  Apart from that point the
   property holds (`sync_live`).
2. `accounts_password`.  A login or a refresh that checked before a change of the
   password, and inserts its token after `revoke_all_for_user`, leaves a session
   that was opened with the old password.  No call fails in the run.
3. `session_late`.  One account's refresh is granted and not saved yet when its session
   ends, by a change of the password in TLC's trace and by a sign-out or a deletion
   as well, for all of them clear the entry and wait for no refresh; another account
   signs in; then the save puts the first one's tokens in the entry
   (`api_client.dart:211`, `token_store.dart:41-42`).  The second one's notebook is open,
   and the next sync uploads it to the first account and merges that one's words into it.

One more was met and has no run.  A backup keeps its ids, so a notebook restored
into another account holds words whose rows on the server belong to the first one.
The server leaves them out of `accepted_ids` "so the client stops retrying it"
(`word_repository_pg.rs:105`), but the client never clears their flag: they stay the
oldest dirty rows, and 200 of them fill every batch of `pendingChanges`, so that the
account's own edits are not sent (`sqlite_vocabulary_repository.dart:752`).  The
constant `Foreign` of `WordSync` is that case; the safety proofs cover it.

## 4. What is proved

### The sync

For any number of devices, words and request slots, any limits, any number of
writes and faults at any point, and rows of other accounts:

| Theorem | Property |
|---|---|
| `TypeCorrect` | `TypeOK` |
| `LockOrdersRevisions` | `NoRevisionSkipped` |
| `CleanRowsAreStored` | `CleanIsStored` |
| `FeedOnlyMovesForward` | `FeedMovesForward` |
| `SyncKeepsPromise` | `KeepsPromise`, the refinement of `LwwNotebook` |
| `CursorNeverPassesARow` | `CaughtUp`, if no fault falls between the two merge transactions |

The assumptions are `SyncAssumption` and `NobodyAssumption`: limits are positive,
ids of nothing are no ids, faults happen inside a run.

The inductive invariant is `IInv`, in three parts, because none of the properties
is inductive alone:

- `TypeInv`: the types and `OwnSlot`.  A device in the middle of a run waits on a
  slot that is not free, no two devices wait on one slot, and a device that is
  processing an answer has a complete one.  Without it `MarkSynced` could read a
  request that changes under it.
- `RevInv`: at most one request is locked and only a locked one has staged rows;
  staged and committed revisions are at most `seq`; and the value of every
  cursor, of a device, of a run, in a request or an answer, is `Published`:
  below every staged revision.  `ChangesSince` keeps that because it
  returns the revision of a committed row, or the cursor it was given.
- `LwwInv`: a staged row is later than the committed one; an accepted row
  is stored, or staged, in the version sent or a later one; a page or a
  canonical row is no later than what is committed; a dirty row is no later than
  the device's clock; a clean row is stored.

`SyncKeepsPromise` then takes each step to a step of `LwwNotebook` or to a
stutter: a write of the user to `Write`, a commit to `Advance`, `MarkSynced` to
`Settle`, and all else, the merge and the purge included, changes neither the
server's rows nor a dirty one.

`CursorNeverPassesARow` needs a second invariant on top, `CursorInv`.  Its
assumption, `"merge" \notin CrashPoints`, is exactly what `sync_interrupted` shows
to be needed.

- `Distinct`: no two rows share a revision, staged ones included.  Without it a
  page could end between two rows of one revision and its cursor cover both.
- `Fresh`, of a request from its page to its last canonical row: the page has
  every row between the two cursors; each row read is still the committed one or
  was replaced at a revision beyond the answer's cursor; an accepted row has its
  canonical row read, or is one of those.
- `Behind`, of a device: its stored cursor, its run's and the one in the answer
  it is about to save cover only rows it holds, has edited or is about to merge.

### One-time codes

For any sets of phones, addresses, accounts, challenges and calls, and any
lengths and limits that satisfy `OtpAssumption` (all positive, the windows in the
order the code has them, a row kept longer than a day):

| Theorem | Property |
|---|---|
| `TypesHold` | `TypeOK` |
| `SpentOnceInTimeForItsPurpose` | `SpentAsMeant` |
| `AttemptsAreBounded` | `Bounded` |
| `LimitsAlwaysHold` | `LimitsHold` |

- `TypeInv` adds to the types what a call in progress holds: the row it is about
  exists, was sent, and has the call's use.
- `SpendInv` adds that a spent challenge is marked consumed, which is why the
  conditional `UPDATE` refuses the second call.
- `CountedAhead`: the questions asked of the service and the calls about to ask are
  together no more than the attempts in the row.  The bound itself is not
  inductive: it needs the calls between the count and the question.
- `LimitInv`: a call that has counted stays within the limits until it inserts its
  row, because it holds the locks of its phone and its address.  Its time may be
  earlier than that of rows inserted since, so the windows of *those* rows must
  have room for it too: the `COUNT` includes the rows that are later than its own
  `now()`.

### Accounts

For any sets of accounts, addresses, phones, tokens and passwords and any number of
calls at a time, under `AccountsAssumption`: ids of nothing are no ids, no address
is a phone, and the accounts there are at the start satisfy the constraints of
the table (each has an identifier, no two share one).

| Theorem | Property |
|---|---|
| `AccountsTyped` | `TypeOK` |
| `CommandsKeepDirectory` | `KeepsDirectory`, the refinement of `AccountDirectory` |
| `IdentifiersUnique` | no two accounts share an address or a phone (`OneAccountPerIdentifier`, of which TLC checks the stronger `KeepsDirectory`) |
| `ExistenceAnnounced` | `AnnouncedExistence` |
| `NoOrphanSession` | `NoSessionWithoutAccount` |
| `RotationKills` | `RotatedIsDead` |
| `AdminsTraced` | `AdminsAreMade` |

What the tables promise depends on what calls in progress are about to write, so
`IInv` says of each call in `CallInv`:

- `Shaped`: which part of a command follows which, and what it carries; only a
  deletion carries the event `deleted`, only a registration `registered`.
- `Reserved`: the id of a registration in progress is used by nothing else.
  Without it, a registration could announce an account that is already there.
- `Rotates`: the token a refresh was asked with is there and its account's.
- `Traced`: an admin's role in a copy was there before, or is announced with it.

Of the tables, `Constrained` are the unique indexes and the check constraint,
`Owned` says that a token in use has an account, and `Rotated` that a token which
was exchanged is not live any more.  The parts prop each other up: that a stale
copy cannot bring a deleted account back follows from `AnnouncedExistence` and
the row the `UPDATE` no longer finds.

The refinement needs one more invariant, `Carries`, of what the copies carry that a
commit writes back whole: a copy about to be saved has the number its account has
*now* (no command changes a number, and none takes it away), the account of a
deletion waiting for its transaction was there before, and a registration
carries one name.  The mapping takes a name to be an address or a phone of the row,
the deleted to be the accounts with an event `deleted`, and the live tokens to
be the usable ones.  `DirectoryStep` then takes each commit to its change:
`register` and a first sign-in by phone to `SignUp`, `login` to `SignIn`, `refresh`
to `Renew`, a saved copy to `Readdress`, the deletion to `Close`, and what ends
tokens (logout, expiry, the revocation of all of an account's) to `SignOut`; reads,
refusals, a suspension and a write that finds no row change nothing.

### Outbox

For any finite sets of workers and events, any consumers, batch size, limit of
retries and number of faults, and both buses (`OutboxAssumption`):

| Theorem | Property |
|---|---|
| `OutboxTyped` | `TypeOK` |
| `MarksTrue` | `MarksAreTrue` |
| `DuplicatesBounded` | `BoundedDuplicates` |

- `Acknowledged`: what a worker is about to mark published was taken by the bus;
  `Consuming`: what a consumer is about to record was handled.
- `Tried` counts: the retries in the row and the workers that have yet to mark a
  refusal are together no more than the refusals.
- `Accounted` counts the duplicates: what was published of an event, and the workers
  `Able` to publish it without a further fault, are at most one round of the workers
  for the commit and one for every fault, less a round for every refusal that is
  not marked yet.  A refusal is a fault and makes the event pending again only when
  it is marked, which is when every worker may fetch it once more.

### Device session

For any accounts, words, tokens and kills (`SessionAssumption`), late refreshes
included:

| Theorem | Property |
|---|---|
| `SessionTyped` | `TypeOK` |
| `NotebooksKeptApart` | `KeptApart` |
| `TokensAndRunsOfOne` | `OneAccount` |
| `NobodyForgotten` | `NotForgotten` |
| `WordsSurvive` | `Survives` |

The invariant has two parts, `Always`, and `InTime`, which holds `~late`: until a refresh
is saved after its session has ended.  Nothing assumes that it is not; the
properties themselves say what does not hold afterwards, and `session_late`
shows that it does not.

- `Session`: whoever is signed in has the notebook open, and it is handed over while
  nobody is.  `Syncing`: a run is of the open notebook, which changes hands only
  while the sync is suspended and idle.  Both hold whatever a refresh does.
- `Owned`: the stored tokens are those of the open notebook's account, and while
  somebody signs in there are none.  A refresh that is saved to the entry it read,
  for the account of its token (`~Outlived`), keeps that; a late one does not.
  `Sent`: what the server was sent is of the notebook it was sent for.
- `Apart`: what is kept for an account, in its archive or on the server, is kept for
  no other one, and for no account but the owner of the notebook it is also in.
- `Given`: a notebook nobody owned, which is being adopted, has nothing kept for an
  account until the session is committed: a sign-in that fails can give it back.
- `Wiping`: at the wipe the server has deleted the notebook's owner; with another
  account's tokens in the entry it would have deleted that one.
- `Archived`: until the first deletion no archive is left behind that the open
  notebook does not have, which is why `activateNotebook` loses no word before one.

### Feedback

For any accounts, requests, reports, limits, updates and faults
(`FeedbackAssumption`: the limits are positive):

| Theorem | Property |
|---|---|
| `FeedbackTyped` | `TypeOK` |
| `ReceiptsReal` | `ReceiptsAreReal` |
| `ShownOfOwner` | `ShownBelong` |
| `LimitsKept` | `LimitsHold` |
| `RepliesNeverOlder` | `NeverOlder` |

- `Authored`: what the server stores, and what a request carries, is of the account
  that wrote it on this device, whoever is signed in by now.
- `Awaiting`: one request at most has somebody waiting, and only that one can hold
  an answer.  This is why an answer that is late cannot replace a newer one.
- `Answering`: an answer is about stored reports of its owner, no newer than the
  server's and no older than the device's.
- `Holding`: who is in the lock of an owner is alone there, and what it has found,
  its report or room within the limit, still holds.
- `Counted`: the counter is not behind the attempts it let through.

### Protection of apps on iOS

For any apps, durations, times, passes and faults (`GateAssumption`, and
`NothingAssumption`: no state of the file is "nothing"):

| Theorem | Property |
|---|---|
| `GateTyped` | `TypeOK` |
| `ShieldTrue` | `ShieldFollows` |
| `RelockComes` | `RelockAhead`, if a stop takes back no call (`~StopCancels`) |

- `Locked`: a process that has saved and not yet applied will apply what is in
  the file, and there is one at most.  This is the purpose of the file lock.
- `Numbered`, `Watching`: the number of a monitor tells its pass, passes have
  different numbers, and a valid one has its monitor.
- `Granting`: the pass that is being granted is nobody's yet, its monitor is started
  before it is stored, and the monitors to be stopped are those of no pass.  So
  no cleanup stops the monitor of a pass that is in the file.

### Texts

For texts of every length over any characters, any digits, country code, mobile
prefixes, parts of speech and limits (`IdentifierAssumption`,
`WordTextsAssumption`: the marks and letters are no digits, a country code and a
mobile number do not begin with 0 and are together a number of a valid length, codes
are not blank, a word and an item of a list may have a character):

| Theorem | Property |
|---|---|
| `StoredIdentifierIsFound` | `StoredIsFound` |
| `OnePhone` | `SamePhone` |
| `ServerReadsAsTheApp` | `AppAgrees` |
| `SavedTextsComeBack`, `SavedIsStored` | `SavedComesBack`; the same of every form, not only of one that is cut from the typed text |
| `StoredTextsSettle`, `StoredAgain` | `StoredSettles`; the same of every payload |

The state is one text, and that it is a sequence of characters is all the invariant
there is.  The work is in the operators:

- Induction goes over sets, which need no operator as a parameter: a set of
  sequences that has the empty one, and with each one its extensions, has all
  (`AllSequences`, from the least element of a set of naturals).  `Without`, which
  drops characters from a text and blank texts from a list, is a recursive function
  and is known by two equations (`WithoutEmpty`, `WithoutAppend`).  All else, that it
  distributes over a concatenation, keeps what is not dropped and is stable, follows
  from them by that induction.
- `TrimParts`: a text is blanks, what `Trim` leaves, and blanks.  So trimming twice
  is trimming once, small letters or a separator put in at any place leave the shape
  of what is trimmed, and what is `Tidy` (trimmed, no blank item) stays as it is.
- `StoredPhone`, `MobileIsNumber`: a stored phone has its shape, and a mobile number
  read for a one-time code is a number in the sense of `PhoneNumber`.
- `OneNumber`: a text that is a phone for a code and an identifier begins with the plus
  and the country code, whichever marks are dropped from it.  A leading "00" would leave "0" at the start of the national number, which is
  no mobile prefix.
- `AddressIsOne`, `StoredEmail`, `UnfitEmail`: of an address the app accepts the server
  reads no phone, and the same address or, when its bytes are over the limits, none.
- The limits of a word matter in one place: what is cut may end in a blank, and is then cut
  again.  `StoredSettles` excepts it.

### Model-checked only

Liveness (`EventuallyConverged`, `EventuallySettled`, `EventuallyHandled`) is beyond
the prover.  All other properties that the passing runs check are proved.

## 5. Not modelled, and why

- **Sync**: the read-only list endpoint.  Progress beside foreign rows is checked by
  no run (end of section 3).  A kill between the two merge transactions is left out
  of `sync_safe`, `sync_live` and the proof of `CaughtUp`; the other proofs allow it,
  and `sync_interrupted` shows what it does.
- **Local store**: `backfillPronunciations` writes whole rows it read before it
  awaited (`sqlite_vocabulary_repository.dart:860`), and undo after a purge updates
  no row (`vocabulary_provider.dart:303`).  Both need the content of a row.
- **Pool of connections**: `find_by_id` takes a second connection while the
  transaction holds one (`phone_auth.rs:164`); as many sign-ins at once as the pool
  has connections wait for each other until the acquire times out.  Connections
  are no part of the models.
- **Feedback**: a report the server refuses for good ends every delivery, and
  those behind it are never sent (`feedback_provider.dart:158` rethrows).  Why one is
  refused for good, a text over a limit or a lost receipt key, is below the
  model.  A report discarded while it is sent stays on the server; `refresh()`
  during another owner's delivery waits for that one only; `forgetOwner` has no
  caller; a crash between `INCR` and `EXPIRE` leaves a counter that never expires
  (`redis_cache.rs:51`), which safety does not mind.
- **Rate limit and idempotency**: the general limit (a fixed window, though
  `rate_limit.rs:11` says sliding) and the response cache keyed by `Idempotency-Key`.
- **Device session**: changing the identifier (`saveIdentifier` reads and writes the
  stored session and may meet a sign-out in between), sessions saved before
  accounts had ids, a second tap on sign-out, requests that outlive their caller.
  A word written while a sign-in that fails is pending belongs to the guest
  afterwards.  A deletion killed before the wipe leaves its words on the device.
- **Identifiers and texts**: the editor has no length limits, so a longer text,
  or a backup with a blank meaning or an id that is no UUID, makes the server refuse
  the batch again and again (`word_dto.rs:43`).  Lists over 25 and items over 1024
  are cut without a word, and the cut version comes back.  "+84 (0)90..." keeps its
  trunk zero; "exactly one @" accepts more than one on the server.  "The rules mirror
  `Identifier::parse`" (`account_identifier.dart:13`) is not so for long or accented
  addresses, which the form accepts and the server refuses: `AppAgrees` says exactly when.
- **iOS gate**: the authorization and its revocation, the status that is shown, an
  unreadable state file.
- **Flutter gate**: rounds, pending answers and credit, and their two steps with the
  native grant: a kill between the grant and its record leaves an answer pending
  (`app_gate_provider.dart:569`).
- **Learning algorithms**: the review schedule, the rotation of gate words, the
  merge of a backup: functions without a protocol; last in the plan.
- **Screens, games, speech, OCR, notifications, bootstrap, configuration,
  observability, OpenAPI**: presentation and pure I/O.

## 6. Plan

Done: the sync, accounts, one-time codes, the outbox, feedback, the device session
and the iOS gate, identifiers and texts, with their proofs; the abstract
specifications of the sync and of accounts, with their refinements.

1. Abstract specifications of the outbox (an event is settled once it is committed)
   and of a device's notebooks (one per account), with refinements of the same kind.
2. `GateRounds`: rounds, pending answers and credit, composed with `NativeGate`.
3. The local store's long operations, the middleware, and the algorithms as
   functions against reference definitions.
