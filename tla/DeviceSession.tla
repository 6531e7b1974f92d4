--------------------------- MODULE DeviceSession ---------------------------
(***************************************************************************)
(* The session of a device and its notebook: signing in and out, deleting  *)
(* the account, changing its password, the refresh all requests share, and *)
(* the synchronisation that is suspended while the notebook changes hands. *)
(* One SQLite database holds the open notebook, the others are archived.   *)
(*                                                                         *)
(* A step is what the app does between two awaits; a request and what the  *)
(* server does with it are one step, its answer is processed in the next.  *)
(***************************************************************************)
EXTENDS Naturals

CONSTANTS
  Accounts, Words, None,
  Guest,        \* the owner of what is written before the first sign-in
  MaxTokens     \* bound: refresh tokens the server issues

ASSUME SessionAssumption ==
  /\ None \notin Accounts /\ Guest \notin Accounts /\ None # Guest
  /\ MaxTokens \in Nat

VARIABLES
  stored,   \* the keychain entry auth.session.v2
  mem,      \* AuthProvider: _state, _accountId
  sync,     \* SyncService: _suspended, _accountId, its run
  op,       \* the operation that holds _busy
  out,      \* signOut, which nothing guards, and the token it revokes
  other,    \* a request beside all that: the profile, an export
  refresh,  \* ApiClient._refreshing
  book,     \* the open notebook: its owner and words
  archive,  \* table account_workspaces
  server,   \* the accounts' words, refresh tokens issued and live, deletions
  home,     \* history: the notebook a word was written in
  late      \* history: a refresh was saved after its session had ended

vars == <<stored, mem, sync, op, out, other, refresh, book, archive, server,
          home, late>>

Owner == Accounts \cup {None}
Token == [account : Owner, n : 0 .. MaxTokens]
NoToken == [account |-> None, n |-> 0]
NoSession == [token |-> NoToken, owner |-> None]
Asleep == [suspended |-> TRUE, account |-> None, run |-> "idle", batch |-> {},
           by |-> None]
NoOp == [kind |-> "none", pc |-> "idle", token |-> NoToken, from |-> None]
NoRefresh == [pc |-> "idle", token |-> NoToken, owner |-> None]
NoSignOut == [pc |-> "idle", token |-> NoToken]
Clearing == [NoSignOut EXCEPT !.pc = "clear"]

TypeOK ==
  /\ stored \in [token : Token, owner : Owner]
  /\ mem \in [state : {"signedIn", "signedOut"}, account : Owner]
  /\ sync \in [suspended : BOOLEAN, account : Owner, batch : SUBSET Words, by : Owner,
               run : {"idle", "read", "waiting", "again", "answered"}]
  /\ op \in [kind : {"none", "signIn", "delete", "password"}, token : Token, from : Owner,
             pc : {"idle", "suspend", "request", "waiting", "again", "activate",
                   "commit", "settle", "rollback", "clear", "wipe"}]
  /\ out \in [pc : {"idle", "suspend", "request", "waiting", "again", "clear"},
              token : Token]
  /\ other \in {"idle", "request", "waiting", "again"}
  /\ refresh \in [pc : {"idle", "asked", "granted", "saving", "rejected"},
                  token : Token, owner : Owner]
  /\ book \in [owner : Owner, words : SUBSET Words]
  /\ archive \in [Accounts -> SUBSET Words]
  /\ server \in [words : [Accounts -> SUBSET Words], issued : 0 .. MaxTokens,
                 live : SUBSET Token, deleted : SUBSET Accounts]
  /\ home \in [Words -> Owner \cup {Guest}]
  /\ late \in BOOLEAN

Init ==
  /\ stored = NoSession /\ mem = [state |-> "signedOut", account |-> None]
  /\ sync = Asleep /\ op = NoOp /\ out = NoSignOut /\ other = "idle"
  /\ refresh = NoRefresh
  /\ book = [owner |-> None, words |-> {}]
  /\ archive = [a \in Accounts |-> {}]
  /\ server = [ words |-> [a \in Accounts |-> {}], issued |-> 0, live |-> {},
                deleted |-> {} ]
  /\ home = [w \in Words |-> None] /\ late = FALSE

SignedIn == mem.state = "signedIn"
SignedOut == [state |-> "signedOut", account |-> None]

\* SyncService.resumeForAccount.
Resumed(a) == [sync EXCEPT !.suspended = FALSE, !.account = a]

-----------------------------------------------------------------------------
(* The notebook.                                                           *)

\* Mutant: the open notebook stays open.
ActivatedInPlace(a) ==
  /\ book' = [book EXCEPT !.owner = a] /\ UNCHANGED archive

\* One transaction.  A notebook nobody owns is adopted, and then an archived
\* one of the account is left where it is.
Activated(a) ==
  LET from == book.owner IN
  IF a = None \/ from = a \/ from = None
  THEN book' = [book EXCEPT !.owner = a] /\ UNCHANGED archive
  ELSE /\ archive' = [archive EXCEPT ![from] = book.words]
       /\ book' = [owner |-> a, words |-> archive[a]]

\* The user writes a word; another device of an account does.
Write(w) ==
  /\ home[w] = None
  /\ home' = [home EXCEPT ![w] = IF book.owner = None THEN Guest ELSE book.owner]
  /\ book' = [book EXCEPT !.words = @ \cup {w}]
  /\ UNCHANGED <<stored, mem, sync, op, out, other, refresh, archive, server,
                 late>>

Elsewhere(w, a) ==
  /\ home[w] = None /\ a \notin server.deleted
  /\ home' = [home EXCEPT ![w] = a]
  /\ server' = [server EXCEPT !.words[a] = @ \cup {w}]
  /\ UNCHANGED <<stored, mem, sync, op, out, other, refresh, book, archive,
                 late>>

-----------------------------------------------------------------------------
(* Requests.  An access token is refused at any time; the request then     *)
(* waits for the one refresh, which it starts if there is none, and is     *)
(* sent again.                                                             *)

\* One that is refused without a refresh token ends the session at once.
CanWait == stored.token # NoToken \/ refresh.pc # "idle"

Wait ==
  /\ CanWait
  /\ refresh' = IF refresh.pc # "idle" THEN refresh
                ELSE [NoRefresh EXCEPT !.pc = "asked", !.token = stored.token]

\* onSessionExpired: nobody waits for a run that may be under way.
Suspended(s) == IF SignedIn THEN [s EXCEPT !.suspended = TRUE] ELSE s

\* The server rotates a live token.
RefreshAtServer ==
  LET new == [account |-> refresh.token.account, n |-> server.issued + 1] IN
  /\ refresh.pc = "asked"
  /\ \/ /\ refresh.token \in server.live /\ server.issued < MaxTokens
        /\ server' = [server EXCEPT !.issued = @ + 1,
                        !.live = (@ \ {refresh.token}) \cup {new}]
        /\ refresh' = [refresh EXCEPT !.pc = "granted", !.token = new]
     \/ /\ refresh.token \notin server.live
        /\ refresh' = [NoRefresh EXCEPT !.pc = "rejected"] /\ UNCHANGED server
  /\ UNCHANGED <<stored, mem, sync, op, out, other, book, archive, home, late>>

\* save() reads the entry, and then writes it back with the new tokens in it.
RefreshReads ==
  /\ refresh.pc = "granted"
  /\ refresh' = [refresh EXCEPT !.pc = "saving", !.owner = stored.owner]
  /\ UNCHANGED <<stored, mem, sync, op, out, other, book, archive, server, home,
                 late>>

Saved == [token |-> refresh.token, owner |-> refresh.owner]

\* clear() and commitSession wait for no refresh: the entry may have gone, or
\* be another account's, before it is read or before it is written back.
Outlived ==
  stored.owner # refresh.owner \/ refresh.owner # refresh.token.account

\* Mutant: a refused request is refused again, and refreshes again.
AskAnew(pc) == IF pc = "waiting" THEN "request" ELSE pc

\* A request is sent a second time, not a third.
Again(pc) == IF pc = "waiting" THEN "again" ELSE pc

RefreshGranted ==
  /\ refresh.pc = "saving"
  /\ stored' = Saved /\ late' = (late \/ Outlived)
  /\ refresh' = NoRefresh
  /\ sync' = [sync EXCEPT !.run = Again(@)]
  /\ op' = [op EXCEPT !.pc = Again(@)]
  /\ out' = [out EXCEPT !.pc = Again(@)]
  /\ other' = Again(other)
  /\ UNCHANGED <<mem, book, archive, server, home>>

Ended(s) == [s EXCEPT !.run = "idle", !.batch = {}, !.by = None]

\* Whoever waited fails; signOut goes on.
WaitersFail(s) ==
  /\ sync' = IF s.run = "waiting" THEN Ended(s) ELSE s
  /\ op' = IF op.pc = "waiting" THEN NoOp ELSE op
  /\ out' = IF out.pc = "waiting" THEN Clearing ELSE out
  /\ other' = IF other = "waiting" THEN "idle" ELSE other

RefreshRejected ==
  /\ refresh.pc = "rejected"
  /\ stored' = NoSession /\ mem' = SignedOut /\ refresh' = NoRefresh
  /\ WaitersFail(Suspended(sync))
  /\ UNCHANGED <<book, archive, server, home, late>>

\* Mutant: the synchronisation stays suspended.
NeverAwake == sync

\* _run's finally.
Awake == IF SignedIn /\ mem.account # None THEN Resumed(mem.account) ELSE sync

\* No answer in time, also to a refresh that was granted.
RefreshLost ==
  /\ refresh.pc # "idle"
  /\ refresh' = NoRefresh
  /\ WaitersFail(IF op.pc = "waiting" THEN Awake ELSE sync)
  /\ UNCHANGED <<stored, mem, book, archive, server, home, late>>

-----------------------------------------------------------------------------
(* A run of the synchronisation: everything in the open notebook goes to   *)
(* the account whose token is sent, everything it has comes back.          *)

StartRun ==
  /\ SignedIn /\ ~sync.suspended /\ sync.run = "idle"
  /\ sync' = [sync EXCEPT !.run = "read", !.batch = book.words]
  /\ UNCHANGED <<stored, mem, op, out, other, refresh, book, archive, server,
                 home, late>>

SyncAnswered ==
  LET a == stored.token.account IN
  /\ sync.run \in {"read", "again"} /\ a \notin server.deleted \cup {None}
  /\ server' = [server EXCEPT !.words[a] = @ \cup sync.batch]
  /\ sync' = [sync EXCEPT !.run = "answered", !.by = a]
  /\ UNCHANGED <<stored, mem, op, out, other, refresh, book, archive, home,
                 late>>

SyncRefused ==
  /\ sync.run = "read"
  /\ \/ Wait /\ sync' = [sync EXCEPT !.run = "waiting"] /\ UNCHANGED mem
     \/ /\ ~CanWait /\ UNCHANGED refresh
        /\ mem' = SignedOut /\ sync' = Ended(Suspended(sync))
  /\ UNCHANGED <<stored, op, out, other, book, archive, server, home, late>>

SyncMerges ==
  /\ sync.run = "answered"
  /\ book' = [book EXCEPT !.words = @ \cup server.words[sync.by]]
  /\ sync' = Ended(sync)
  /\ UNCHANGED <<stored, mem, op, out, other, refresh, archive, server, home,
                 late>>

SyncFails ==
  /\ sync.run \in {"read", "again", "answered"}
  /\ sync' = Ended(sync)
  /\ UNCHANGED <<stored, mem, op, out, other, refresh, book, archive, server,
                 home, late>>

\* Any other request.
OtherStarts ==
  /\ SignedIn /\ other = "idle" /\ other' = "request"
  /\ UNCHANGED <<stored, mem, sync, op, out, refresh, book, archive, server,
                 home, late>>

OtherRefused ==
  /\ other = "request"
  /\ \/ Wait /\ other' = "waiting" /\ UNCHANGED <<mem, sync>>
     \/ /\ ~CanWait /\ other' = "idle" /\ UNCHANGED refresh
        /\ mem' = SignedOut /\ sync' = Suspended(sync)
  /\ UNCHANGED <<stored, op, out, book, archive, server, home, late>>

OtherEnds ==
  /\ other \in {"request", "again"} /\ other' = "idle"
  /\ UNCHANGED <<stored, mem, sync, op, out, refresh, book, archive, server,
                 home, late>>

-----------------------------------------------------------------------------
(* Signing in.  The form is shown to who is signed out.                    *)

\* Mutant: nobody waits for the run.
SuspendedAtOnce == sync.suspended

\* suspend() has returned.
RunEnded == sync.suspended /\ sync.run = "idle"

Begin(kind) ==
  /\ op.kind = "none"
  /\ op' = [NoOp EXCEPT !.kind = kind, !.pc = "suspend"]
  /\ sync' = [sync EXCEPT !.suspended = TRUE]
  /\ UNCHANGED <<stored, mem, out, other, refresh, book, archive, server, home,
                 late>>

SignIn == ~SignedIn /\ Begin("signIn")

\* suspend() returns, and then the server opens a session.
Authenticated(a) ==
  LET new == [account |-> a, n |-> server.issued + 1] IN
  /\ op.kind = "signIn" /\ op.pc = "suspend" /\ RunEnded
  /\ a \notin server.deleted /\ server.issued < MaxTokens
  /\ server' = [server EXCEPT !.issued = @ + 1, !.live = @ \cup {new}]
  /\ op' = [op EXCEPT !.pc = "activate", !.token = new]
  /\ UNCHANGED <<stored, mem, sync, out, other, refresh, book, archive, home,
                 late>>

ActivateNotebook ==
  /\ op.pc = "activate"
  /\ Activated(op.token.account)
  /\ op' = [op EXCEPT !.pc = "commit", !.from = book.owner]
  /\ UNCHANGED <<stored, mem, sync, out, other, refresh, server, home, late>>

CommitSession ==
  /\ op.pc = "commit"
  /\ \/ /\ stored' = [token |-> op.token, owner |-> op.token.account]
        /\ op' = [op EXCEPT !.pc = "settle"]
     \/ op' = [op EXCEPT !.pc = "rollback"] /\ UNCHANGED stored
  /\ UNCHANGED <<mem, sync, out, other, refresh, book, archive, server, home,
                 late>>

Settle ==
  /\ op.pc = "settle"
  /\ mem' = [state |-> "signedIn", account |-> op.token.account]
  /\ sync' = Resumed(op.token.account)
  /\ op' = NoOp
  /\ UNCHANGED <<stored, out, other, refresh, book, archive, server, home,
                 late>>

\* The notebook is given back, maybe to nobody, unless that fails as well.
Rollback ==
  /\ op.pc = "rollback" /\ op' = NoOp
  /\ \/ /\ Activated(op.from)
        /\ home' = [w \in Words |->
             IF op.from = None /\ w \in book.words THEN Guest ELSE home[w]]
     \/ UNCHANGED <<book, archive, home>>
  /\ UNCHANGED <<stored, mem, sync, out, other, refresh, server, late>>

SignInFails ==
  /\ op.kind = "signIn" /\ op.pc \in {"suspend", "activate"} /\ RunEnded
  /\ op' = NoOp
  /\ UNCHANGED <<stored, mem, sync, out, other, refresh, book, archive, server,
                 home, late>>

-----------------------------------------------------------------------------
(* Deleting the account, or changing its password.                         *)

Delete == SignedIn /\ Begin("delete")
ChangePassword == SignedIn /\ Begin("password")

Asking == op.pc \in {"request", "again"}

RunRequest ==
  /\ op.kind \in {"delete", "password"} /\ op.pc = "suspend" /\ RunEnded
  /\ op' = [op EXCEPT !.pc = "request"]
  /\ UNCHANGED <<stored, mem, sync, out, other, refresh, book, archive, server,
                 home, late>>

\* What the server does; either way every session of the account ends.
Revoked(a) ==
  LET live == { t \in server.live : t.account # a } IN
  IF op.kind = "password" THEN [server EXCEPT !.live = live]
  ELSE [server EXCEPT !.live = live, !.deleted = @ \cup {a}, !.words[a] = {}]

RunAnswered ==
  LET a == stored.token.account IN
  /\ Asking /\ a \notin server.deleted \cup {None}
  /\ server' = Revoked(a)
  /\ op' = [op EXCEPT !.pc = "clear"]
  /\ UNCHANGED <<stored, mem, sync, out, other, refresh, book, archive, home,
                 late>>

\* An error, or an answer that is lost.
RunFails ==
  LET a == stored.token.account IN
  /\ Asking
  /\ \/ UNCHANGED server
     \/ a \notin server.deleted \cup {None} /\ server' = Revoked(a)
  /\ op' = NoOp /\ sync' = Awake
  /\ UNCHANGED <<stored, mem, out, other, refresh, book, archive, home, late>>

RunRefused ==
  /\ op.pc = "request"
  /\ \/ Wait /\ op' = [op EXCEPT !.pc = "waiting"] /\ UNCHANGED <<mem, sync>>
     \/ /\ ~CanWait /\ op' = NoOp /\ UNCHANGED refresh
        /\ mem' = SignedOut /\ sync' = Suspended(sync)
  /\ UNCHANGED <<stored, out, other, book, archive, server, home, late>>

ClearAfter ==
  /\ op.pc = "clear"
  /\ stored' = NoSession
  /\ IF op.kind = "delete" THEN op' = [op EXCEPT !.pc = "wipe"] /\ UNCHANGED mem
     ELSE op' = NoOp /\ mem' = SignedOut
  /\ UNCHANGED <<sync, out, other, refresh, book, archive, server, home, late>>

\* Mutant: every account's notebook goes.
AllWiped == [a \in Accounts |-> {}]

\* deleteAll, for the owner of the open notebook.
Wiped == [a \in Accounts |-> IF a = book.owner THEN {} ELSE archive[a]]

Wipe ==
  /\ op.pc = "wipe" /\ op' = NoOp
  /\ archive' = Wiped
  /\ book' = [owner |-> None, words |-> {}]
  /\ mem' = SignedOut
  /\ UNCHANGED <<stored, sync, out, other, refresh, server, home, late>>

WipeFails ==
  /\ op.pc = "wipe" /\ op' = NoOp /\ sync' = Awake
  /\ UNCHANGED <<stored, mem, out, other, refresh, book, archive, server, home,
                 late>>

-----------------------------------------------------------------------------
(* Signing out, also beside one of those.                                  *)

SignOut ==
  /\ SignedIn /\ out.pc = "idle"
  /\ out' = [NoSignOut EXCEPT !.pc = "suspend"]
  /\ sync' = [sync EXCEPT !.suspended = TRUE]
  /\ UNCHANGED <<stored, mem, op, other, refresh, book, archive, server, home,
                 late>>

Logout ==
  /\ out.pc = "suspend" /\ sync.run = "idle"
  /\ out' = [pc |-> IF stored.token = NoToken THEN "clear" ELSE "request",
             token |-> stored.token]
  /\ UNCHANGED <<stored, mem, sync, op, other, refresh, book, archive, server,
                 home, late>>

\* Revoked or not, the session is cleared.
LogoutEnds ==
  /\ out.pc \in {"request", "again"}
  /\ \/ server' = [server EXCEPT !.live = @ \ {out.token}]
     \/ UNCHANGED server
  /\ out' = Clearing
  /\ UNCHANGED <<stored, mem, sync, op, other, refresh, book, archive, home,
                 late>>

LogoutRefused ==
  /\ out.pc = "request"
  /\ \/ Wait /\ out' = [out EXCEPT !.pc = "waiting"] /\ UNCHANGED <<mem, sync>>
     \/ /\ ~CanWait /\ out' = Clearing /\ UNCHANGED refresh
        /\ mem' = SignedOut /\ sync' = Suspended(sync)
  /\ UNCHANGED <<stored, op, other, book, archive, server, home, late>>

\* An answer that is no JSON is no ApiException: the tokens go, and the app
\* stays signed in.
LogoutClears ==
  /\ out.pc = "clear" /\ out' = NoSignOut
  /\ stored' = NoSession
  /\ mem' = SignedOut \/ UNCHANGED mem
  /\ UNCHANGED <<sync, op, other, refresh, book, archive, server, home, late>>

-----------------------------------------------------------------------------
(* The app is killed and starts again.                                     *)

Restart ==
  /\ op' = NoOp /\ out' = NoSignOut /\ other' = "idle" /\ refresh' = NoRefresh
  /\ IF stored.token = NoToken THEN mem' = SignedOut
     ELSE mem' = [state |-> "signedIn", account |-> stored.owner]
  /\ IF stored.token = NoToken \/ stored.owner = None
     THEN sync' = Asleep /\ UNCHANGED <<book, archive>>
     ELSE /\ sync' = [Asleep EXCEPT !.suspended = FALSE, !.account = stored.owner]
          /\ Activated(stored.owner)
  /\ UNCHANGED <<stored, server, home, late>>

Next ==
  \/ \E w \in Words : Write(w) \/ \E a \in Accounts : Elsewhere(w, a)
  \/ RefreshAtServer \/ RefreshReads \/ RefreshGranted \/ RefreshRejected \/ RefreshLost
  \/ StartRun \/ SyncAnswered \/ SyncRefused \/ SyncMerges \/ SyncFails
  \/ OtherStarts \/ OtherRefused \/ OtherEnds
  \/ SignIn \/ (\E a \in Accounts : Authenticated(a))
  \/ ActivateNotebook \/ CommitSession \/ Settle \/ Rollback \/ SignInFails
  \/ Delete \/ ChangePassword \/ RunRequest \/ RunAnswered \/ RunFails
  \/ RunRefused \/ ClearAfter \/ Wipe \/ WipeFails
  \/ SignOut \/ Logout \/ LogoutEnds \/ LogoutRefused \/ LogoutClears
  \/ Restart

Spec == Init /\ [][Next]_vars
=============================================================================
