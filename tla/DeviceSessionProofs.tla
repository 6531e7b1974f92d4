------------------------ MODULE DeviceSessionProofs ------------------------
(***************************************************************************)
(* Proofs about the session of a device and its notebooks, for any sets of *)
(* accounts and words and any number of tokens.                            *)
(***************************************************************************)
EXTENDS DeviceSessionProps, TLAPS

\* What an operation is doing belongs to its kind.
Kinds ==
  /\ op.kind = "none" => op = NoOp
  /\ op.kind = "signIn" => op.pc \in {"suspend", "activate", "commit", "settle", "rollback"}
  /\ op.kind \in {"delete", "password"} =>
       op.pc \in {"suspend", "request", "waiting", "again", "clear", "wipe"}

\* Whoever is signed in has the notebook open, and a notebook is handed over
\* while nobody is.
Session ==
  /\ stored.token # NoToken => stored.token.account \in Accounts
  /\ stored.owner # None => stored.token # NoToken
  /\ refresh.pc \in {"asked", "granted", "saving"} => refresh.token.account \in Accounts
  /\ SignedIn => mem.account \in {None, book.owner}
  /\ op.kind = "signIn" => ~SignedIn
  /\ op.pc \in {"activate", "commit", "settle", "rollback"} => op.token.account \in Accounts
  /\ op.pc \in {"commit", "settle", "rollback"} => book.owner = op.token.account

\* A run is of the open notebook, which changes hands only between runs.
Syncing ==
  /\ op.kind # "none" => sync.suspended
  /\ op.kind # "none" /\ op.pc # "suspend" => sync.run = "idle"
  /\ SignedIn /\ ~sync.suspended => mem.account # None /\ sync.account = mem.account
  /\ sync.run # "idle" => sync.account = book.owner
  /\ sync.run = "idle" => sync.batch = {}
  /\ sync.run # "answered" => sync.by = None
  /\ sync.batch \subseteq book.words

Answered == sync.run = "answered" => sync.by \in Accounts

\* What the server was sent is of the notebook it was sent for.
Sent == sync.run = "answered" => sync.by = book.owner

\* Tokens are those of the open notebook, and there are none while somebody
\* signs in.
Owned ==
  /\ stored.token # NoToken =>
       /\ stored.owner = stored.token.account /\ stored.owner = book.owner
       /\ SignedIn \/ op.pc = "settle"
  /\ SignedIn => mem.account \in Accounts /\ mem.account = book.owner
  /\ op.pc = "wipe" => stored.token = NoToken

\* What is kept for an account, beside the open notebook.
Kept(a) == archive[a] \cup server.words[a]

\* A word is kept for one account at most.
Apart ==
  /\ \A w \in Words : home[w] = None =>
       w \notin book.words /\ \A a \in Accounts : w \notin Kept(a)
  /\ \A a \in Accounts : \A w \in Kept(a) : home[w] \in {a, Guest}
  /\ \A w \in book.words : home[w] \in {book.owner, Guest}
  /\ \A a, b \in Accounts : \A w \in Kept(a) : w \in Kept(b) => a = b
  /\ \A a \in Accounts : \A w \in Kept(a) : w \in book.words => a = book.owner

\* A notebook nobody owned that is now being adopted.
Adopting == op.pc \in {"commit", "rollback"} /\ op.from = None

\* Until that is sure, nothing of it is kept for an account.
Given == Adopting => \A a \in Accounts : \A w \in Kept(a) : w \notin book.words

\* The server has deleted an account.
Gone == op.pc = "wipe" \/ (op.kind = "delete" /\ op.pc = "clear")

\* Until then, no archive is left behind.
Archived ==
  /\ Gone => server.deleted # {}
  /\ server.deleted = {} =>
       /\ \A a \in Accounts : book.owner = a => archive[a] \subseteq book.words
       /\ book.owner = None \/ Adopting => \A a \in Accounts : archive[a] = {}

\* It is the account whose notebook is about to be wiped.
Wiping == Gone => book.owner \in server.deleted

\* What holds whatever a refresh does, and what until one is saved too late.
Always == TypeOK /\ Answered /\ Kinds /\ Session /\ Syncing /\ Archived
InTime == Sent /\ Owned /\ Apart /\ Given /\ NotForgotten /\ Wiping
IInv == Always /\ (~late => InTime)

-----------------------------------------------------------------------------
(* Types.                                                                  *)

StoredType == [token : Token, owner : Owner]
MemType == [state : {"signedIn", "signedOut"}, account : Owner]
SyncType ==
  [suspended : BOOLEAN, account : Owner, batch : SUBSET Words, by : Owner,
   run : {"idle", "read", "waiting", "again", "answered"}]
OpType ==
  [kind : {"none", "signIn", "delete", "password"}, token : Token, from : Owner,
   pc : {"idle", "suspend", "request", "waiting", "again", "activate",
         "commit", "settle", "rollback", "clear", "wipe"}]
OutType == [pc : {"idle", "suspend", "request", "waiting", "again", "clear"}, token : Token]
RefreshType ==
  [pc : {"idle", "asked", "granted", "saving", "rejected"}, token : Token, owner : Owner]
BookType == [owner : Owner, words : SUBSET Words]
ServerType ==
  [words : [Accounts -> SUBSET Words], issued : 0 .. MaxTokens,
   live : SUBSET Token, deleted : SUBSET Accounts]

LEMMA Types ==
  TypeOK <=>
    /\ stored \in StoredType /\ mem \in MemType /\ sync \in SyncType /\ op \in OpType
    /\ out \in OutType /\ other \in {"idle", "request", "waiting", "again"}
    /\ refresh \in RefreshType /\ book \in BookType
    /\ archive \in [Accounts -> SUBSET Words] /\ server \in ServerType
    /\ home \in [Words -> Owner \cup {Guest}] /\ late \in BOOLEAN
BY DEF TypeOK, StoredType, MemType, SyncType, OpType, OutType, RefreshType, BookType,
       ServerType

LEMMA Names ==
  /\ None \notin Accounts /\ Guest \notin Accounts /\ None # Guest
  /\ MaxTokens \in Nat /\ Accounts \subseteq Owner /\ None \in Owner
BY SessionAssumption DEF Owner

LEMMA Constants ==
  /\ NoToken \in Token /\ NoToken.account = None /\ NoSession.token = NoToken
  /\ NoSession \in StoredType /\ SignedOut \in MemType /\ SignedOut.state = "signedOut"
  /\ Asleep \in SyncType /\ NoOp \in OpType /\ NoRefresh \in RefreshType
  /\ NoSignOut \in OutType /\ Clearing \in OutType
BY Names DEF NoToken, Token, NoSession, StoredType, SignedOut, MemType, Asleep, SyncType,
             NoOp, OpType, NoRefresh, RefreshType, NoSignOut, Clearing, OutType

LEMMA NewToken ==
  ASSUME TypeOK, NEW a \in Owner, server.issued < MaxTokens
  PROVE  /\ server.issued + 1 \in 0 .. MaxTokens
         /\ [account |-> a, n |-> server.issued + 1] \in Token
BY Names DEF TypeOK, Token

LEMMA SyncTypes ==
  ASSUME NEW s \in SyncType
  PROVE  /\ Ended(s) \in SyncType /\ Suspended(s) \in SyncType
         /\ \A a \in Owner : [s EXCEPT !.suspended = FALSE, !.account = a] \in SyncType
BY Names DEF SyncType, Ended, Suspended

\* What is left of a run that ended, or is to be suspended.
LEMMA RunEnds ==
  ASSUME NEW s \in SyncType
  PROVE  /\ Ended(s).run = "idle" /\ Ended(s).batch = {} /\ Ended(s).by = None
         /\ Ended(s).suspended = s.suspended /\ Ended(s).account = s.account
         /\ Suspended(s).run = s.run /\ Suspended(s).batch = s.batch
         /\ Suspended(s).by = s.by /\ Suspended(s).account = s.account
         /\ Suspended(s).suspended = (s.suspended \/ SignedIn)
BY DEF SyncType, Ended, Suspended

LEMMA ActivatedTypes ==
  ASSUME TypeOK, NEW a \in Owner, Activated(a)
  PROVE  book' \in BookType /\ archive' \in [Accounts -> SUBSET Words]
BY Types, Names DEF Activated, BookType, Owner

LEMMA WaitTypes ==
  ASSUME TypeOK, Wait
  PROVE  refresh' \in RefreshType
BY Types, Constants DEF Wait, RefreshType, StoredType, NoRefresh

LEMMA WaitersTypes ==
  ASSUME TypeOK, NEW s \in SyncType, WaitersFail(s)
  PROVE  /\ sync' \in SyncType /\ op' \in OpType /\ out' \in OutType
         /\ other' \in {"idle", "request", "waiting", "again"}
         /\ sync'.run = "answered" => sync' = s
<1>1. sync' \in SyncType /\ (sync'.run = "answered" => sync' = s)
  BY SyncTypes, RunEnds DEF WaitersFail
<1>2. op' \in OpType
  BY Types, Constants DEF WaitersFail
<1>3. out' \in OutType
  BY Types, Constants DEF WaitersFail
<1>4. QED BY <1>1, <1>2, <1>3, Types DEF WaitersFail

LEMMA RevokedTypes ==
  ASSUME TypeOK, NEW a \in Accounts
  PROVE  Revoked(a) \in ServerType
BY Types DEF Revoked, ServerType

LEMMA AwakeTypes ==
  ASSUME TypeOK
  PROVE  Awake \in SyncType
<1>1. mem.account \in Owner
  BY Types DEF MemType
<1>2. QED BY <1>1, Types, SyncTypes DEF Awake, Resumed

LEMMA TypesNext ==
  ASSUME stored' \in StoredType, mem' \in MemType, sync' \in SyncType, op' \in OpType,
         out' \in OutType, other' \in {"idle", "request", "waiting", "again"},
         refresh' \in RefreshType, book' \in BookType,
         archive' \in [Accounts -> SUBSET Words], server' \in ServerType,
         home' \in [Words -> Owner \cup {Guest}], late' \in BOOLEAN
  PROVE  TypeOK'
BY DEF TypeOK, StoredType, MemType, SyncType, OpType, OutType, RefreshType, BookType,
       ServerType

TypeInv == TypeOK /\ Answered

LEMMA TypesOfWords ==
  ASSUME TypeInv, \/ \E w \in Words : Write(w) \/ \E a \in Accounts : Elsewhere(w, a)
                  \/ StartRun \/ SyncAnswered \/ SyncRefused \/ SyncMerges \/ SyncFails
  PROVE  TypeInv'
<1>1. ASSUME NEW w \in Words, Write(w) PROVE TypeInv'
  <2>1. book' \in BookType /\ home' \in [Words -> Owner \cup {Guest}]
    BY <1>1, Types, Names DEF TypeInv, Write, BookType
  <2>2. QED BY <1>1, <2>1, Types, TypesNext DEF TypeInv, Answered, Write
<1>2. ASSUME NEW w \in Words, NEW a \in Accounts, Elsewhere(w, a) PROVE TypeInv'
  <2>1. server' \in ServerType /\ home' \in [Words -> Owner \cup {Guest}]
    BY <1>2, Types, Names DEF TypeInv, Elsewhere, ServerType
  <2>2. QED BY <1>2, <2>1, Types, TypesNext DEF TypeInv, Answered, Elsewhere
<1>3. ASSUME StartRun PROVE TypeInv'
  <2>1. sync' \in SyncType /\ sync'.run = "read"
    BY <1>3, Types DEF TypeInv, StartRun, SyncType, BookType
  <2>2. QED BY <1>3, <2>1, Types, TypesNext DEF TypeInv, Answered, StartRun
<1>4. ASSUME SyncAnswered PROVE TypeInv'
  <2>1. PICK a : a = stored.token.account
    OBVIOUS
  <2>2. a \in Accounts
    BY <1>4, <2>1, Types DEF TypeInv, SyncAnswered, StoredType, Token, Owner
  <2>3. sync' \in SyncType /\ sync'.by \in Accounts
    BY <1>4, <2>1, <2>2, Types, Names DEF TypeInv, SyncAnswered, SyncType
  <2>4. server' \in ServerType
    BY <1>4, <2>1, <2>2, Types DEF TypeInv, SyncAnswered, SyncType, ServerType
  <2>5. QED BY <1>4, <2>3, <2>4, Types, TypesNext DEF TypeInv, Answered, SyncAnswered
<1>5. ASSUME SyncRefused PROVE TypeInv'
  <2>1. /\ sync.run = "read" /\ UNCHANGED <<stored, op, out, other, book, archive, server, home, late>>
        /\ \/ Wait /\ sync' = [sync EXCEPT !.run = "waiting"] /\ UNCHANGED mem
           \/ UNCHANGED refresh /\ mem' = SignedOut /\ sync' = Ended(Suspended(sync))
    BY <1>5 DEF SyncRefused
  <2>2. Suspended(sync) \in SyncType
    BY Types, SyncTypes DEF TypeInv
  <2>3. sync' \in SyncType /\ sync'.run # "answered"
    <3>1. CASE sync' = [sync EXCEPT !.run = "waiting"]
      BY <3>1, Types DEF TypeInv, SyncType
    <3>2. CASE sync' = Ended(Suspended(sync))
      BY <2>2, <3>2, SyncTypes, RunEnds
    <3>3. QED BY <2>1, <3>1, <3>2
  <2>4. refresh' \in RefreshType /\ mem' \in MemType
    BY <2>1, Types, WaitTypes, Constants DEF TypeInv
  <2>5. QED BY <2>1, <2>3, <2>4, Types, TypesNext DEF TypeInv, Answered
<1>6. ASSUME SyncMerges PROVE TypeInv'
  <2>1. book' \in BookType
    BY <1>6, Types DEF TypeInv, Answered, SyncMerges, BookType, ServerType
  <2>2. sync' \in SyncType /\ sync'.run = "idle"
    BY <1>6, Types, SyncTypes DEF TypeInv, SyncMerges, Ended, SyncType
  <2>3. QED BY <1>6, <2>1, <2>2, Types, TypesNext DEF TypeInv, Answered, SyncMerges
<1>7. ASSUME SyncFails PROVE TypeInv'
  <2>1. sync' \in SyncType /\ sync'.run = "idle"
    BY <1>7, Types, SyncTypes DEF TypeInv, SyncFails, Ended, SyncType
  <2>2. QED BY <1>7, <2>1, Types, TypesNext DEF TypeInv, Answered, SyncFails
<1>8. QED BY <1>1, <1>2, <1>3, <1>4, <1>5, <1>6, <1>7

LEMMA TypesOfRefresh ==
  ASSUME TypeInv, \/ RefreshAtServer \/ RefreshReads \/ RefreshGranted \/ RefreshRejected
                  \/ RefreshLost \/ OtherStarts \/ OtherRefused \/ OtherEnds
  PROVE  TypeInv'
<1>1. ASSUME RefreshAtServer PROVE TypeInv'
  <2>1. PICK new : new = [account |-> refresh.token.account, n |-> server.issued + 1]
    OBVIOUS
  <2>2. refresh.token \in Token /\ refresh.token.account \in Owner
    BY Types DEF TypeInv, RefreshType, Token
  <2>3. CASE /\ server.issued < MaxTokens
             /\ server' = [server EXCEPT !.issued = @ + 1,
                             !.live = (@ \ {refresh.token}) \cup {new}]
             /\ refresh' = [refresh EXCEPT !.pc = "granted", !.token = new]
    <3>1. server.issued + 1 \in 0 .. MaxTokens /\ new \in Token
      BY <2>1, <2>2, <2>3, NewToken DEF TypeInv
    <3>2. server' \in ServerType /\ refresh' \in RefreshType
      BY <2>3, <3>1, Types DEF TypeInv, ServerType, RefreshType
    <3>3. QED BY <1>1, <3>2, Types, TypesNext DEF TypeInv, Answered, RefreshAtServer
  <2>4. CASE refresh' = [NoRefresh EXCEPT !.pc = "rejected"] /\ UNCHANGED server
    <3>1. refresh' \in RefreshType
      BY <2>4, Constants DEF RefreshType, NoRefresh
    <3>2. QED BY <1>1, <2>4, <3>1, Types, TypesNext DEF TypeInv, Answered, RefreshAtServer
  <2>5. QED BY <1>1, <2>1, <2>3, <2>4 DEF RefreshAtServer
<1>2. ASSUME RefreshGranted PROVE TypeInv'
  <2>1. stored' \in StoredType
    BY <1>2, Types DEF TypeInv, RefreshGranted, Saved, StoredType, RefreshType
  <2>2. sync' \in SyncType /\ (sync'.run = "answered" => sync' = sync)
    BY <1>2, Types DEF TypeInv, RefreshGranted, SyncType, Again
  <2>3. op' \in OpType
    BY <1>2, Types DEF TypeInv, RefreshGranted, OpType, Again
  <2>4. out' \in OutType
    BY <1>2, Types DEF TypeInv, RefreshGranted, OutType, Again
  <2>5. other' \in {"idle", "request", "waiting", "again"} /\ refresh' \in RefreshType
    BY <1>2, Types, Constants DEF TypeInv, RefreshGranted, Again
  <2>6. late' \in BOOLEAN
    BY <1>2, Types DEF TypeInv, RefreshGranted, Outlived
  <2>7. QED
    BY <1>2, <2>1, <2>2, <2>3, <2>4, <2>5, <2>6, Types, TypesNext
       DEF TypeInv, Answered, RefreshGranted
<1>3. ASSUME RefreshRejected PROVE TypeInv'
  <2>1. PICK s : s = Suspended(sync)
    OBVIOUS
  <2>2. s \in SyncType /\ s.run = sync.run /\ s.by = sync.by /\ WaitersFail(s)
    BY <1>3, <2>1, Types, SyncTypes, RunEnds DEF TypeInv, RefreshRejected
  <2>3. /\ sync' \in SyncType /\ op' \in OpType /\ out' \in OutType
        /\ other' \in {"idle", "request", "waiting", "again"}
        /\ sync'.run = "answered" => sync' = s
    BY <2>2, WaitersTypes DEF TypeInv
  <2>4. stored' \in StoredType /\ mem' \in MemType /\ refresh' \in RefreshType
    BY <1>3, Constants DEF RefreshRejected
  <2>5. QED
    BY <1>3, <2>2, <2>3, <2>4, Types, TypesNext DEF TypeInv, Answered, RefreshRejected
<1>4. ASSUME RefreshLost PROVE TypeInv'
  <2>1. PICK s : s = IF op.pc = "waiting" THEN Awake ELSE sync
    OBVIOUS
  <2>2. Awake \in SyncType /\ Awake.run = sync.run /\ Awake.by = sync.by
    BY Types, AwakeTypes DEF TypeInv, Awake, Resumed, SyncType
  <2>3. s \in SyncType /\ s.run = sync.run /\ s.by = sync.by /\ WaitersFail(s)
    BY <1>4, <2>1, <2>2, Types DEF TypeInv, RefreshLost
  <2>4. /\ sync' \in SyncType /\ op' \in OpType /\ out' \in OutType
        /\ other' \in {"idle", "request", "waiting", "again"}
        /\ sync'.run = "answered" => sync' = s
    BY <2>3, WaitersTypes DEF TypeInv
  <2>5. refresh' \in RefreshType
    BY <1>4, Constants DEF RefreshLost
  <2>6. QED
    BY <1>4, <2>3, <2>4, <2>5, Types, TypesNext DEF TypeInv, Answered, RefreshLost
<1>5. ASSUME OtherStarts \/ OtherEnds PROVE TypeInv'
  BY <1>5, Types, TypesNext DEF TypeInv, Answered, OtherStarts, OtherEnds
<1>6. ASSUME OtherRefused PROVE TypeInv'
  <2>1. /\ UNCHANGED <<stored, op, out, book, archive, server, home, late>>
        /\ other' \in {"idle", "waiting"}
        /\ \/ Wait /\ UNCHANGED <<mem, sync>>
           \/ UNCHANGED refresh /\ mem' = SignedOut /\ sync' = Suspended(sync)
    BY <1>6 DEF OtherRefused
  <2>2. sync' \in SyncType /\ sync'.run = sync.run /\ sync'.by = sync.by
    BY <2>1, Types, SyncTypes, RunEnds DEF TypeInv
  <2>3. refresh' \in RefreshType /\ mem' \in MemType
    BY <2>1, Types, WaitTypes, Constants DEF TypeInv
  <2>4. QED BY <2>1, <2>2, <2>3, Types, TypesNext DEF TypeInv, Answered
<1>7. ASSUME RefreshReads PROVE TypeInv'
  <2>1. refresh' \in RefreshType
    BY <1>7, Types DEF TypeInv, RefreshReads, RefreshType, StoredType
  <2>2. QED BY <1>7, <2>1, Types, TypesNext DEF TypeInv, Answered, RefreshReads
<1>8. QED BY <1>1, <1>2, <1>3, <1>4, <1>5, <1>6, <1>7

\* The operation goes on, from where it is.
LEMMA OpTypes ==
  ASSUME TypeOK
  PROVE  \A pc \in {"suspend", "request", "waiting", "again", "activate",
                    "commit", "settle", "rollback", "clear", "wipe"} :
           [op EXCEPT !.pc = pc] \in OpType
BY Types DEF OpType

LEMMA TypesOfSignIn ==
  ASSUME TypeInv, \/ SignIn \/ (\E a \in Accounts : Authenticated(a))
                  \/ ActivateNotebook \/ CommitSession \/ Settle \/ Rollback \/ SignInFails
  PROVE  TypeInv'
<1>1. ASSUME NEW kind \in {"signIn", "delete", "password"}, Begin(kind) PROVE TypeInv'
  <2>1. op' \in OpType
    BY <1>1, Constants DEF Begin, NoOp, OpType
  <2>2. sync' \in SyncType /\ sync'.run = sync.run /\ sync'.by = sync.by
    BY <1>1, Types DEF TypeInv, Begin, SyncType
  <2>3. QED BY <1>1, <2>1, <2>2, Types, TypesNext DEF TypeInv, Answered, Begin
<1>2. ASSUME NEW a \in Accounts, Authenticated(a) PROVE TypeInv'
  <2>1. PICK new : new = [account |-> a, n |-> server.issued + 1]
    OBVIOUS
  <2>2. server.issued + 1 \in 0 .. MaxTokens /\ new \in Token
    BY <1>2, <2>1, NewToken, Names DEF TypeInv, Authenticated
  <2>3. server' \in ServerType
    BY <1>2, <2>1, <2>2, Types DEF TypeInv, Authenticated, ServerType
  <2>4. op' \in OpType
    BY <1>2, <2>1, <2>2, Types DEF TypeInv, Authenticated, OpType
  <2>5. QED BY <1>2, <2>3, <2>4, Types, TypesNext DEF TypeInv, Answered, Authenticated
<1>3. ASSUME ActivateNotebook PROVE TypeInv'
  <2>1. PICK a : a = op.token.account
    OBVIOUS
  <2>2. a \in Owner /\ Activated(a)
    BY <1>3, <2>1, Types DEF TypeInv, ActivateNotebook, OpType, Token
  <2>3. book' \in BookType /\ archive' \in [Accounts -> SUBSET Words]
    BY <2>2, ActivatedTypes DEF TypeInv
  <2>4. op' \in OpType
    BY <1>3, Types DEF TypeInv, ActivateNotebook, OpType, BookType
  <2>5. QED BY <1>3, <2>3, <2>4, Types, TypesNext DEF TypeInv, Answered, ActivateNotebook
<1>4. ASSUME CommitSession PROVE TypeInv'
  <2>1. stored' \in StoredType
    BY <1>4, Types DEF TypeInv, CommitSession, OpType, Token, StoredType
  <2>2. op' \in OpType
    BY <1>4, OpTypes DEF TypeInv, CommitSession
  <2>3. QED BY <1>4, <2>1, <2>2, Types, TypesNext DEF TypeInv, Answered, CommitSession
<1>5. ASSUME Settle PROVE TypeInv'
  <2>1. op.token.account \in Owner
    BY Types DEF TypeInv, OpType, Token
  <2>2. mem' \in MemType /\ op' \in OpType
    BY <1>5, <2>1, Constants DEF Settle, MemType
  <2>3. sync' \in SyncType /\ sync'.run = sync.run /\ sync'.by = sync.by
    BY <1>5, <2>1, Types DEF TypeInv, Settle, Resumed, SyncType
  <2>4. QED BY <1>5, <2>2, <2>3, Types, TypesNext DEF TypeInv, Answered, Settle
<1>6. ASSUME Rollback PROVE TypeInv'
  <2>1. PICK a : a = op.from
    OBVIOUS
  <2>2. a \in Owner /\ op' \in OpType
    BY <1>6, <2>1, Types, Constants DEF TypeInv, Rollback, OpType
  <2>3. CASE /\ Activated(a)
             /\ home' = [w \in Words |->
                           IF op.from = None /\ w \in book.words THEN Guest ELSE home[w]]
    <3>1. book' \in BookType /\ archive' \in [Accounts -> SUBSET Words]
      BY <2>2, <2>3, ActivatedTypes DEF TypeInv
    <3>2. home' \in [Words -> Owner \cup {Guest}]
      BY <2>3, Types DEF TypeInv
    <3>3. QED BY <1>6, <2>2, <3>1, <3>2, Types, TypesNext DEF TypeInv, Answered, Rollback
  <2>4. CASE UNCHANGED <<book, archive, home>>
    BY <1>6, <2>2, <2>4, Types, TypesNext DEF TypeInv, Answered, Rollback
  <2>5. QED BY <1>6, <2>1, <2>3, <2>4 DEF Rollback
<1>7. ASSUME SignInFails PROVE TypeInv'
  BY <1>7, Types, Constants, TypesNext DEF TypeInv, Answered, SignInFails
<1>8. QED BY <1>1, <1>2, <1>3, <1>4, <1>5, <1>6, <1>7 DEF SignIn

LEMMA TypesOfOperations ==
  ASSUME TypeInv, \/ Delete \/ ChangePassword \/ RunRequest \/ RunAnswered \/ RunFails
                  \/ RunRefused \/ ClearAfter \/ Wipe \/ WipeFails
  PROVE  TypeInv'
<1>1. Awake \in SyncType /\ Awake.run = sync.run /\ Awake.by = sync.by
  BY Types, AwakeTypes DEF TypeInv, Awake, Resumed, SyncType
<1>2. ASSUME NEW kind \in {"delete", "password"}, Begin(kind) PROVE TypeInv'
  <2>1. op' \in OpType
    BY <1>2, Constants DEF Begin, NoOp, OpType
  <2>2. sync' \in SyncType /\ sync'.run = sync.run /\ sync'.by = sync.by
    BY <1>2, Types DEF TypeInv, Begin, SyncType
  <2>3. QED BY <1>2, <2>1, <2>2, Types, TypesNext DEF TypeInv, Answered, Begin
<1>3. ASSUME RunRequest PROVE TypeInv'
  BY <1>3, Types, OpTypes, TypesNext DEF TypeInv, Answered, RunRequest
<1>4. ASSUME RunAnswered PROVE TypeInv'
  <2>1. PICK a : a = stored.token.account
    OBVIOUS
  <2>2. a \in Accounts
    BY <1>4, <2>1, Types DEF TypeInv, RunAnswered, StoredType, Token, Owner
  <2>3. server' \in ServerType /\ op' \in OpType
    BY <1>4, <2>1, <2>2, RevokedTypes, OpTypes DEF TypeInv, RunAnswered
  <2>4. QED BY <1>4, <2>3, Types, TypesNext DEF TypeInv, Answered, RunAnswered
<1>5. ASSUME RunFails PROVE TypeInv'
  <2>1. PICK a : a = stored.token.account
    OBVIOUS
  <2>2. server' \in ServerType
    <3>1. CASE UNCHANGED server
      BY <3>1, Types DEF TypeInv
    <3>2. CASE a \notin server.deleted \cup {None} /\ server' = Revoked(a)
      <4>1. a \in Accounts
        BY <2>1, <3>2, Types DEF TypeInv, StoredType, Token, Owner
      <4>2. QED BY <3>2, <4>1, RevokedTypes DEF TypeInv
    <3>3. QED BY <1>5, <2>1, <3>1, <3>2 DEF RunFails
  <2>3. op' \in OpType
    BY <1>5, Constants DEF RunFails
  <2>4. QED BY <1>1, <1>5, <2>2, <2>3, Types, TypesNext DEF TypeInv, Answered, RunFails
<1>6. ASSUME RunRefused PROVE TypeInv'
  <2>1. /\ UNCHANGED <<stored, out, other, book, archive, server, home, late>>
        /\ \/ Wait /\ op' = [op EXCEPT !.pc = "waiting"] /\ UNCHANGED <<mem, sync>>
           \/ /\ op' = NoOp /\ UNCHANGED refresh
              /\ mem' = SignedOut /\ sync' = Suspended(sync)
    BY <1>6 DEF RunRefused
  <2>2. sync' \in SyncType /\ sync'.run = sync.run /\ sync'.by = sync.by
    BY <2>1, Types, SyncTypes, RunEnds DEF TypeInv
  <2>3. refresh' \in RefreshType /\ mem' \in MemType /\ op' \in OpType
    BY <2>1, Types, WaitTypes, OpTypes, Constants DEF TypeInv
  <2>4. QED BY <2>1, <2>2, <2>3, Types, TypesNext DEF TypeInv, Answered
<1>7. ASSUME ClearAfter PROVE TypeInv'
  <2>1. stored' \in StoredType /\ op' \in OpType /\ mem' \in MemType
    BY <1>7, Types, OpTypes, Constants DEF TypeInv, ClearAfter
  <2>2. QED BY <1>7, <2>1, Types, TypesNext DEF TypeInv, Answered, ClearAfter
<1>8. ASSUME Wipe PROVE TypeInv'
  <2>1. archive' \in [Accounts -> SUBSET Words] /\ book' \in BookType
    BY <1>8, Types, Names DEF TypeInv, Wipe, Wiped, BookType
  <2>2. mem' \in MemType /\ op' \in OpType
    BY <1>8, Constants DEF Wipe
  <2>3. QED BY <1>8, <2>1, <2>2, Types, TypesNext DEF TypeInv, Answered, Wipe
<1>9. ASSUME WipeFails PROVE TypeInv'
  BY <1>1, <1>9, Types, Constants, TypesNext DEF TypeInv, Answered, WipeFails
<1>10. QED
  BY <1>2, <1>3, <1>4, <1>5, <1>6, <1>7, <1>8, <1>9 DEF Delete, ChangePassword

LEMMA TypesOfSignOut ==
  ASSUME TypeInv, SignOut \/ Logout \/ LogoutEnds \/ LogoutRefused \/ LogoutClears \/ Restart
  PROVE  TypeInv'
<1>1. ASSUME SignOut PROVE TypeInv'
  <2>1. out' \in OutType
    BY <1>1, Constants DEF SignOut, OutType, NoSignOut
  <2>2. sync' \in SyncType /\ sync'.run = sync.run /\ sync'.by = sync.by
    BY <1>1, Types DEF TypeInv, SignOut, SyncType
  <2>3. QED BY <1>1, <2>1, <2>2, Types, TypesNext DEF TypeInv, Answered, SignOut
<1>2. ASSUME Logout PROVE TypeInv'
  <2>1. out' \in OutType
    BY <1>2, Types DEF TypeInv, Logout, OutType, StoredType
  <2>2. QED BY <1>2, <2>1, Types, TypesNext DEF TypeInv, Answered, Logout
<1>3. ASSUME LogoutEnds PROVE TypeInv'
  <2>1. out' \in OutType /\ server' \in ServerType
    BY <1>3, Types, Constants DEF TypeInv, LogoutEnds, ServerType
  <2>2. QED BY <1>3, <2>1, Types, TypesNext DEF TypeInv, Answered, LogoutEnds
<1>4. ASSUME LogoutRefused PROVE TypeInv'
  <2>1. /\ UNCHANGED <<stored, op, other, book, archive, server, home, late>>
        /\ \/ Wait /\ out' = [out EXCEPT !.pc = "waiting"] /\ UNCHANGED <<mem, sync>>
           \/ /\ out' = Clearing /\ UNCHANGED refresh
              /\ mem' = SignedOut /\ sync' = Suspended(sync)
    BY <1>4 DEF LogoutRefused
  <2>2. sync' \in SyncType /\ sync'.run = sync.run /\ sync'.by = sync.by
    BY <2>1, Types, SyncTypes, RunEnds DEF TypeInv
  <2>3. refresh' \in RefreshType /\ mem' \in MemType
    BY <2>1, Types, WaitTypes, Constants DEF TypeInv
  <2>4. out' \in OutType
    BY <2>1, Types, Constants DEF TypeInv, OutType
  <2>5. QED BY <2>1, <2>2, <2>3, <2>4, Types, TypesNext DEF TypeInv, Answered
<1>5. ASSUME LogoutClears PROVE TypeInv'
  <2>1. stored' \in StoredType /\ mem' \in MemType /\ out' \in OutType
    BY <1>5, Types, Constants DEF TypeInv, LogoutClears
  <2>2. QED BY <1>5, <2>1, Types, TypesNext DEF TypeInv, Answered, LogoutClears
<1>6. ASSUME Restart PROVE TypeInv'
  <2>1. PICK a : a = stored.owner
    OBVIOUS
  <2>2. a \in Owner
    BY <2>1, Types DEF TypeInv, StoredType
  <2>3. /\ op' \in OpType /\ out' \in OutType /\ other' = "idle" /\ refresh' \in RefreshType
    BY <1>6, Types, Constants, Names DEF TypeInv, Restart
  <2>4. mem' \in MemType
    BY <1>6, <2>1, <2>2, Constants DEF Restart, MemType
  <2>5. sync' = Asleep \/ sync' = [Asleep EXCEPT !.suspended = FALSE, !.account = a]
    BY <1>6, <2>1 DEF Restart
  <2>6. sync' \in SyncType /\ sync'.run = "idle"
    BY <2>2, <2>5, Constants DEF Asleep, SyncType
  <2>7. Activated(a) \/ UNCHANGED <<book, archive>>
    BY <1>6, <2>1 DEF Restart
  <2>8. book' \in BookType /\ archive' \in [Accounts -> SUBSET Words]
    BY <2>2, <2>7, Types, ActivatedTypes DEF TypeInv
  <2>9. QED
    BY <1>6, <2>3, <2>4, <2>6, <2>8, Types, TypesNext DEF TypeInv, Answered, Restart
<1>7. QED BY <1>1, <1>2, <1>3, <1>4, <1>5, <1>6

LEMMA TypesInit == Init => TypeInv
<1>1. SUFFICES ASSUME Init PROVE TypeInv
  OBVIOUS
<1>2. /\ stored \in StoredType /\ mem \in MemType /\ sync \in SyncType /\ op \in OpType
      /\ out \in OutType /\ refresh \in RefreshType /\ sync.run = "idle"
  BY <1>1, Constants DEF Init, SignedOut, Asleep
<1>3. /\ book \in BookType /\ server \in ServerType
      /\ home \in [Words -> Owner \cup {Guest}]
  BY <1>1, Names DEF Init, BookType, ServerType
<1>4. late \in BOOLEAN
  BY <1>1 DEF Init
<1>5. QED BY <1>1, <1>2, <1>3, <1>4, Types DEF Init, TypeInv, Answered

LEMMA TypesNextStep == TypeInv /\ [Next]_vars => TypeInv'
<1>1. SUFFICES ASSUME TypeInv, [Next]_vars PROVE TypeInv'
  OBVIOUS
<1>2. CASE UNCHANGED vars
  BY <1>1, <1>2 DEF vars, TypeInv, TypeOK, Answered
<1>3. CASE Next
  BY <1>1, <1>3, TypesOfWords, TypesOfRefresh, TypesOfSignIn, TypesOfOperations,
     TypesOfSignOut DEF Next
<1>4. QED BY <1>1, <1>2, <1>3

(***************************************************************************)
(* The session, the operations, the notebooks and what the server keeps    *)
(* stay in their sets, whatever is restarted or refused in between.        *)
(***************************************************************************)
THEOREM SessionTyped == Spec => []TypeOK
<1>1. TypeInv => TypeOK
  BY DEF TypeInv
<1>2. QED BY <1>1, TypesInit, TypesNextStep, PTL DEF Spec

-----------------------------------------------------------------------------
(* Operations.                                                             *)

\* Who answers, or gives up: an operation that waited goes on, or is over.
Waiters == RefreshGranted \/ RefreshRejected \/ RefreshLost

\* Steps that have nothing to do with an operation under way.
Beside ==
  \/ \E w \in Words : Write(w) \/ \E a \in Accounts : Elsewhere(w, a)
  \/ RefreshAtServer \/ RefreshReads \/ StartRun \/ SyncAnswered \/ SyncRefused
  \/ SyncMerges \/ SyncFails \/ OtherStarts \/ OtherRefused \/ OtherEnds
  \/ SignOut \/ Logout \/ LogoutEnds \/ LogoutRefused \/ LogoutClears

LEMMA BesideOp == Beside => UNCHANGED op
BY DEF Beside, Write, Elsewhere, RefreshAtServer, RefreshReads, StartRun, SyncAnswered,
       SyncRefused, SyncMerges, SyncFails, OtherStarts, OtherRefused, OtherEnds, SignOut, Logout,
       LogoutEnds, LogoutRefused, LogoutClears

LEMMA NextCases ==
  ASSUME [Next]_vars
  PROVE  \/ Beside \/ Waiters \/ SignIn \/ (\E a \in Accounts : Authenticated(a))
         \/ ActivateNotebook \/ CommitSession \/ Settle \/ Rollback \/ SignInFails
         \/ Delete \/ ChangePassword \/ RunRequest \/ RunAnswered \/ RunFails
         \/ RunRefused \/ ClearAfter \/ Wipe \/ WipeFails \/ Restart \/ UNCHANGED vars
BY DEF Next, Beside, Waiters

LEMMA WaitersOp ==
  ASSUME Always, Waiters
  PROVE  op' = op \/ (op.pc = "waiting" /\ op' \in {NoOp, [op EXCEPT !.pc = "again"]})
<1>1. CASE RefreshGranted
  <2>1. op' = [op EXCEPT !.pc = Again(@)]
    BY <1>1 DEF RefreshGranted
  <2>2. QED BY <2>1, Types DEF Always, Again, OpType
<1>2. CASE RefreshRejected \/ RefreshLost
  BY <1>2 DEF RefreshRejected, RefreshLost, WaitersFail
<1>3. QED BY <1>1, <1>2 DEF Waiters

LEMMA KindOf ==
  ASSUME Always
  PROVE  /\ op \in OpType
         /\ op.pc \in {"activate", "commit", "settle", "rollback"} => op.kind = "signIn"
         /\ op.pc \in {"request", "waiting", "again", "clear", "wipe"} =>
              op.kind \in {"delete", "password"}
         /\ op.kind = "none" <=> op.pc = "idle"
BY Types DEF Always, Kinds, OpType, NoOp

LEMMA KindsStep == Always /\ [Next]_vars => Kinds'
<1>1. SUFFICES ASSUME Always, [Next]_vars PROVE Kinds'
  OBVIOUS
<1>2. op' = op => Kinds'
  BY <1>1 DEF Always, Kinds
<1>3. op' = NoOp => Kinds'
  BY DEF Kinds, NoOp
<1>4. ASSUME NEW pc \in {"activate", "commit", "settle", "rollback"}, op.kind = "signIn",
             op'.pc = pc, op'.kind = op.kind
      PROVE  Kinds'
  BY <1>4 DEF Kinds
<1>5. ASSUME NEW pc \in {"request", "waiting", "again", "clear", "wipe"},
             op.kind \in {"delete", "password"}, op'.pc = pc, op'.kind = op.kind
      PROVE  Kinds'
  BY <1>5 DEF Kinds
<1>6. CASE Waiters
  BY <1>1, <1>2, <1>3, <1>5, <1>6, WaitersOp, KindOf DEF OpType
<1>7. CASE SignIn \/ Delete \/ ChangePassword
  BY <1>7 DEF SignIn, Delete, ChangePassword, Begin, NoOp, Kinds
<1>8. CASE (\E a \in Accounts : Authenticated(a)) \/ ActivateNotebook \/ CommitSession
  BY <1>1, <1>4, <1>8, KindOf DEF OpType, Authenticated, ActivateNotebook, CommitSession
<1>9. CASE Settle \/ Rollback \/ SignInFails \/ RunFails \/ Wipe \/ WipeFails \/ Restart
  BY <1>3, <1>9 DEF Settle, Rollback, SignInFails, RunFails, Wipe, WipeFails, Restart
<1>10. CASE RunRequest \/ RunAnswered
  BY <1>1, <1>5, <1>10, KindOf DEF OpType, RunRequest, RunAnswered, Asking
<1>11. CASE RunRefused \/ ClearAfter
  BY <1>1, <1>3, <1>5, <1>11, KindOf DEF OpType, RunRefused, ClearAfter
<1>12. CASE UNCHANGED vars
  BY <1>2, <1>12 DEF vars
<1>13. QED
  BY <1>1, <1>2, <1>6, <1>7, <1>8, <1>9, <1>10, <1>11, <1>12, NextCases, BesideOp

-----------------------------------------------------------------------------
(* Sessions.                                                               *)

\* The operation goes on without a session of its own, or is over.
GoesOn ==
  \/ op' = op
  \/ op.pc # "settle" /\ op' = NoOp
  \/ /\ op.pc # "settle" /\ op'.kind \in {"delete", "password"}
     /\ op'.pc \in {"suspend", "request", "waiting", "again", "clear"}

\* A refresh is still for an account's tokens.
SomeonesTokens ==
  refresh'.pc \in {"asked", "granted", "saving"} => refresh'.token.account \in Accounts

LEMMA WaitersGoOn ==
  ASSUME Always, Waiters
  PROVE  GoesOn
BY WaitersOp, KindOf DEF GoesOn, OpType

LEMMA WaitSomeones ==
  ASSUME Always, Wait \/ UNCHANGED refresh
  PROVE  SomeonesTokens
<1>1. CASE Wait
  <2>1. refresh' = refresh \/ (refresh'.token = stored.token /\ stored.token # NoToken)
    BY <1>1 DEF Wait, CanWait, NoRefresh
  <2>2. QED BY <2>1 DEF Always, Session, SomeonesTokens
<1>2. CASE UNCHANGED refresh
  BY <1>2 DEF Always, Session, SomeonesTokens
<1>3. QED BY <1>1, <1>2

LEMMA SessionKept ==
  ASSUME Always, stored' = stored \/ stored' = NoSession, UNCHANGED mem \/ mem' = SignedOut,
         book'.owner = book.owner, GoesOn, SomeonesTokens
  PROVE  Session'
<1>1. /\ stored'.token # NoToken => stored'.token.account \in Accounts
      /\ stored'.owner # None => stored'.token # NoToken
  BY DEF Always, Session, NoSession
<1>2. SignedIn' => SignedIn /\ UNCHANGED mem
  BY Constants DEF SignedIn
<1>3. QED BY <1>1, <1>2 DEF Always, Session, GoesOn, SomeonesTokens, NoOp

LEMMA SessionBeside ==
  ASSUME Always, Beside
  PROVE  Session'
<1>1. op' = op /\ GoesOn
  BY BesideOp DEF GoesOn
<1>2. /\ stored' = stored \/ stored' = NoSession
      /\ UNCHANGED mem \/ mem' = SignedOut
  BY DEF Beside, Write, Elsewhere, RefreshAtServer, RefreshReads, StartRun, SyncAnswered,
     SyncRefused, SyncMerges, SyncFails, OtherStarts, OtherRefused, OtherEnds, SignOut, Logout,
     LogoutEnds, LogoutRefused, LogoutClears
<1>3. book'.owner = book.owner
  BY Types DEF Always, BookType, Beside, Write, Elsewhere, RefreshAtServer, RefreshReads,
     StartRun, SyncAnswered, SyncRefused, SyncMerges, SyncFails, OtherStarts, OtherRefused,
     OtherEnds, SignOut, Logout, LogoutEnds, LogoutRefused, LogoutClears
<1>4. SomeonesTokens
  <2>1. CASE RefreshAtServer
    <3>1. PICK new : new = [account |-> refresh.token.account, n |-> server.issued + 1]
      OBVIOUS
    <3>2. \/ refresh' = [refresh EXCEPT !.pc = "granted", !.token = new]
          \/ refresh' = [NoRefresh EXCEPT !.pc = "rejected"]
      BY <2>1, <3>1 DEF RefreshAtServer
    <3>3. refresh'.pc = "rejected" \/ refresh'.token = new
      BY <3>2, Types DEF Always, RefreshType, NoRefresh
    <3>4. new.account \in Accounts
      BY <2>1, <3>1 DEF Always, Session, RefreshAtServer
    <3>5. QED BY <3>3, <3>4 DEF SomeonesTokens
  <2>2. CASE RefreshReads
    BY <2>2, Types DEF Always, Session, RefreshReads, RefreshType, SomeonesTokens
  <2>3. CASE ~RefreshAtServer /\ ~RefreshReads
    <3>1. Wait \/ UNCHANGED refresh
      BY <2>3 DEF Beside, Write, Elsewhere, StartRun, SyncAnswered, SyncRefused, SyncMerges,
         SyncFails, OtherStarts, OtherRefused, OtherEnds, SignOut, Logout, LogoutEnds,
         LogoutRefused, LogoutClears
    <3>2. QED BY <3>1, WaitSomeones
  <2>4. QED BY <2>1, <2>2, <2>3
<1>5. QED BY <1>1, <1>2, <1>3, <1>4, SessionKept

LEMMA SessionStep ==
  ASSUME Always, [Next]_vars
  PROVE  Session'
<1>1. CASE Waiters
  <2>1. GoesOn /\ UNCHANGED book
    BY <1>1, WaitersGoOn DEF Waiters, RefreshGranted, RefreshRejected, RefreshLost
  <2>2. SomeonesTokens
    BY <1>1 DEF Waiters, RefreshGranted, RefreshRejected, RefreshLost, NoRefresh, SomeonesTokens
  <2>3. CASE RefreshGranted
    <3>1. stored'.token = refresh.token /\ refresh.token.account \in Accounts /\ UNCHANGED mem
      BY <2>3 DEF Always, Session, RefreshGranted, Saved
    <3>2. stored'.token # NoToken
      BY <3>1, Names, Constants
    <3>3. QED BY <2>1, <2>2, <3>1, <3>2
             DEF Always, Session, SignedIn, GoesOn, SomeonesTokens, NoOp
  <2>4. CASE RefreshRejected \/ RefreshLost
    BY <2>1, <2>2, <2>4, SessionKept DEF RefreshRejected, RefreshLost
  <2>5. QED BY <1>1, <2>3, <2>4 DEF Waiters
<1>2. CASE SignIn
  <2>1. op'.kind = "signIn" /\ op'.pc = "suspend" /\ op.pc = "idle"
    BY <1>2, KindOf DEF SignIn, Begin, NoOp
  <2>2. ~SignedIn /\ UNCHANGED <<stored, mem, refresh, book>>
    BY <1>2 DEF SignIn, Begin
  <2>3. QED BY <2>1, <2>2 DEF Always, Session, SignedIn
<1>3. CASE \E a \in Accounts : Authenticated(a)
  <2>1. PICK a \in Accounts : Authenticated(a)
    BY <1>3
  <2>2. op'.kind = "signIn" /\ op'.pc = "activate" /\ op'.token.account = a
    BY <2>1, KindOf DEF Authenticated, OpType
  <2>3. QED BY <2>1, <2>2 DEF Always, Session, Authenticated, SignedIn
<1>4. CASE ActivateNotebook
  <2>1. /\ op.kind = "signIn" /\ op'.kind = "signIn" /\ op'.pc = "commit"
        /\ op'.token = op.token
    BY <1>4, KindOf DEF ActivateNotebook, OpType
  <2>2. book'.owner = op.token.account
    BY <1>4, Types DEF Always, ActivateNotebook, Activated, BookType
  <2>3. QED BY <1>4, <2>1, <2>2 DEF Always, Session, ActivateNotebook, SignedIn
<1>5. CASE CommitSession
  <2>1. /\ op.kind = "signIn" /\ op'.kind = "signIn" /\ op'.pc \in {"settle", "rollback"}
        /\ op'.token = op.token
    BY <1>5, KindOf DEF CommitSession, OpType
  <2>2. op.token.account \in Accounts /\ book.owner = op.token.account
    BY <1>5 DEF Always, Session, CommitSession
  <2>3. /\ stored'.token # NoToken => stored'.token.account \in Accounts
        /\ stored'.owner # None => stored'.token # NoToken
    BY <1>5, <2>2, Names, Constants DEF Always, Session, CommitSession
  <2>4. QED BY <1>5, <2>1, <2>2, <2>3 DEF Always, Session, CommitSession, SignedIn
<1>6. CASE Settle
  BY <1>6 DEF Always, Session, Settle, SignedIn, NoOp
<1>7. CASE Rollback
  <2>1. ~SignedIn
    BY <1>7, KindOf DEF Always, Session, Rollback
  <2>2. QED BY <1>7, <2>1 DEF Always, Session, Rollback, SignedIn, NoOp
<1>8. CASE \/ SignInFails \/ Delete \/ ChangePassword \/ RunRequest \/ RunAnswered \/ RunFails
           \/ RunRefused \/ WipeFails
  <2>1. /\ UNCHANGED <<stored, book>> /\ (UNCHANGED mem \/ mem' = SignedOut)
        /\ Wait \/ UNCHANGED refresh
    BY <1>8 DEF SignInFails, Delete, ChangePassword, Begin, RunRequest, RunAnswered, RunFails,
       RunRefused, WipeFails
  <2>2. GoesOn
    BY <1>8, KindOf DEF GoesOn, OpType, SignInFails, Delete, ChangePassword, Begin, NoOp,
       RunRequest, RunAnswered, RunFails, RunRefused, WipeFails, Asking
  <2>3. QED BY <2>1, <2>2, WaitSomeones, SessionKept
<1>9. CASE ClearAfter
  <2>1. stored' = NoSession /\ UNCHANGED <<refresh, book>>
    BY <1>9 DEF ClearAfter
  <2>2. \/ op' = NoOp /\ mem' = SignedOut
        \/ op'.kind = "delete" /\ op'.pc = "wipe" /\ UNCHANGED mem
    BY <1>9, KindOf DEF ClearAfter, OpType
  <2>3. QED BY <2>1, <2>2, Constants DEF Always, Session, SignedIn, NoOp, NoSession
<1>10. CASE Wipe
  BY <1>10, Constants DEF Always, Session, Wipe, SignedIn, NoOp
<1>11. CASE Restart
  <2>1. UNCHANGED stored /\ op' = NoOp /\ refresh' = NoRefresh
    BY <1>11 DEF Restart
  <2>2. SignedIn' => mem'.account \in {None, book'.owner}
    <3>1. CASE stored.token = NoToken
      BY <1>11, <3>1, Constants DEF Restart, SignedIn
    <3>2. CASE stored.token # NoToken /\ stored.owner = None
      BY <1>11, <3>2 DEF Restart
    <3>3. CASE stored.token # NoToken /\ stored.owner # None
      <4>1. mem'.account = stored.owner /\ Activated(stored.owner)
        BY <1>11, <3>3 DEF Restart
      <4>2. book'.owner = stored.owner
        BY <4>1, Types DEF Always, Activated, BookType
      <4>3. QED BY <4>1, <4>2
    <3>4. QED BY <3>1, <3>2, <3>3
  <2>3. QED BY <2>1, <2>2 DEF Always, Session, NoOp, NoRefresh
<1>12. CASE UNCHANGED vars
  BY <1>12 DEF vars, Always, Session, SignedIn
<1>13. QED
  BY <1>1, <1>2, <1>3, <1>4, <1>5, <1>6, <1>7, <1>8, <1>9, <1>10, <1>11, <1>12, NextCases,
     SessionBeside

-----------------------------------------------------------------------------
(* Runs of the synchronisation.                                            *)

\* A run is the one it was, or there is none.
SameRun ==
  \/ sync'.run = "idle" /\ sync'.batch = {} /\ sync'.by = None
  \/ /\ sync'.batch = sync.batch /\ sync'.by = sync.by
     /\ sync'.run = "idle" <=> sync.run = "idle"
     /\ sync'.run = "answered" <=> sync.run = "answered"

\* An operation that is under way keeps it suspended and, once it has waited
\* for the run, idle.
Held ==
  op'.kind # "none" => sync'.suspended /\ (op'.pc # "suspend" => sync'.run = "idle")

\* It is resumed for whoever is signed in.
ForOwner ==
  SignedIn' /\ ~sync'.suspended => mem'.account # None /\ sync'.account = mem'.account

LEMMA SyncingKept ==
  ASSUME Always, SameRun, Held, ForOwner, book'.owner = book.owner,
         book.words \subseteq book'.words, sync'.account \in {sync.account, book.owner}
  PROVE  Syncing'
<1>1. sync'.run # "idle" => sync.run # "idle" /\ sync'.account = book'.owner
  BY DEF Always, Syncing, SameRun
<1>2. /\ sync'.run = "idle" => sync'.batch = {}
      /\ sync'.run # "answered" => sync'.by = None
      /\ sync'.batch \subseteq book'.words
  BY DEF Always, Syncing, SameRun
<1>3. QED BY <1>1, <1>2 DEF Syncing, Held, ForOwner

LEMMA HeldStill ==
  ASSUME Always, op' = op \/ op' = NoOp, sync.suspended => sync'.suspended,
         sync.run = "idle" => sync'.run = "idle"
  PROVE  Held
BY DEF Always, Syncing, Held, NoOp

LEMMA OwnerStill ==
  ASSUME Always, mem' = SignedOut \/ UNCHANGED mem, sync'.account = sync.account,
         sync.suspended => sync'.suspended
  PROVE  ForOwner
BY Constants DEF Always, Syncing, ForOwner, SignedIn

LEMMA SyncingBeside ==
  ASSUME Always, Beside
  PROVE  Syncing'
<1>1. op' = op
  BY BesideOp
<1>2. CASE \/ \E w \in Words : Write(w) \/ \E a \in Accounts : Elsewhere(w, a)
           \/ RefreshAtServer \/ RefreshReads \/ OtherStarts \/ OtherEnds
           \/ Logout \/ LogoutEnds \/ LogoutClears
  <2>1. UNCHANGED sync /\ (mem' = SignedOut \/ UNCHANGED mem)
    BY <1>2 DEF Write, Elsewhere, RefreshAtServer, RefreshReads, OtherStarts, OtherEnds,
       Logout, LogoutEnds, LogoutClears
  <2>2. book'.owner = book.owner /\ book.words \subseteq book'.words
    BY <1>2, Types DEF Always, BookType, Write, Elsewhere, RefreshAtServer, RefreshReads,
       OtherStarts, OtherEnds, Logout, LogoutEnds, LogoutClears
  <2>3. SameRun /\ Held /\ ForOwner
    BY <1>1, <2>1, HeldStill, OwnerStill DEF SameRun
  <2>4. QED BY <2>1, <2>2, <2>3, SyncingKept
<1>3. CASE StartRun
  <2>1. /\ ~sync.suspended /\ SignedIn /\ UNCHANGED <<mem, book>>
        /\ sync.run = "idle" /\ sync'.run = "read" /\ sync'.batch = book.words
        /\ sync'.by = sync.by /\ sync'.account = sync.account
        /\ sync'.suspended = sync.suspended
    BY <1>3, Types DEF Always, StartRun, SyncType
  <2>2. op.kind = "none" /\ sync.by = None /\ sync.account = book.owner
    BY <2>1 DEF Always, Syncing, Session
  <2>3. QED BY <1>1, <2>1, <2>2 DEF Always, Syncing, SignedIn
<1>4. CASE SyncAnswered
  <2>1. /\ sync.run # "idle" /\ UNCHANGED <<mem, book>>
        /\ sync'.run = "answered" /\ sync'.batch = sync.batch
        /\ sync'.by = stored.token.account /\ sync'.account = sync.account
        /\ sync'.suspended = sync.suspended
    BY <1>4, Types DEF Always, SyncAnswered, SyncType
  <2>2. QED BY <1>1, <2>1 DEF Always, Syncing, SignedIn
<1>5. CASE SyncRefused
  <2>1. CASE sync' = [sync EXCEPT !.run = "waiting"] /\ UNCHANGED mem
    <3>1. /\ sync.run = "read" /\ sync'.run = "waiting" /\ sync'.batch = sync.batch
          /\ sync'.by = sync.by /\ sync'.account = sync.account
          /\ sync'.suspended = sync.suspended /\ UNCHANGED book
      BY <1>5, <2>1, Types DEF Always, SyncRefused, SyncType
    <3>2. SameRun /\ Held /\ ForOwner
      BY <1>1, <2>1, <3>1, HeldStill, OwnerStill DEF SameRun
    <3>3. QED BY <3>1, <3>2, SyncingKept
  <2>2. CASE mem' = SignedOut /\ sync' = Ended(Suspended(sync))
    <3>1. /\ sync'.run = "idle" /\ sync'.batch = {} /\ sync'.by = None
          /\ sync'.account = sync.account /\ (sync.suspended => sync'.suspended)
      BY <2>2, Types, SyncTypes, RunEnds DEF Always
    <3>2. SameRun /\ Held /\ ForOwner
      BY <1>1, <2>2, <3>1, HeldStill, OwnerStill DEF SameRun
    <3>3. UNCHANGED book
      BY <1>5 DEF SyncRefused
    <3>4. QED BY <3>1, <3>2, <3>3, SyncingKept
  <2>3. QED BY <1>5, <2>1, <2>2 DEF SyncRefused
<1>6. CASE SyncMerges \/ SyncFails
  <2>1. /\ sync'.run = "idle" /\ sync'.batch = {} /\ sync'.by = None
        /\ sync'.account = sync.account /\ sync'.suspended = sync.suspended
        /\ UNCHANGED mem
    BY <1>6, Types, RunEnds DEF Always, SyncMerges, SyncFails
  <2>2. book'.owner = book.owner /\ book.words \subseteq book'.words
    BY <1>6, Types DEF Always, BookType, SyncMerges, SyncFails
  <2>3. SameRun /\ Held /\ ForOwner
    BY <1>1, <2>1, HeldStill, OwnerStill DEF SameRun
  <2>4. QED BY <2>1, <2>2, <2>3, SyncingKept
<1>7. CASE OtherRefused \/ LogoutRefused
  <2>1. /\ UNCHANGED book /\ (mem' = SignedOut \/ UNCHANGED mem)
        /\ sync' = sync \/ sync' = Suspended(sync)
    BY <1>7 DEF OtherRefused, LogoutRefused
  <2>2. /\ sync'.run = sync.run /\ sync'.batch = sync.batch /\ sync'.by = sync.by
        /\ sync'.account = sync.account /\ (sync.suspended => sync'.suspended)
    BY <2>1, Types, RunEnds DEF Always
  <2>3. SameRun /\ Held /\ ForOwner
    BY <1>1, <2>1, <2>2, HeldStill, OwnerStill DEF SameRun
  <2>4. QED BY <2>1, <2>2, <2>3, SyncingKept
<1>8. CASE SignOut
  <2>1. /\ UNCHANGED <<mem, book>> /\ sync'.run = sync.run /\ sync'.batch = sync.batch
        /\ sync'.by = sync.by /\ sync'.account = sync.account /\ sync'.suspended
    BY <1>8, Types DEF Always, SignOut, SyncType
  <2>2. SameRun /\ Held /\ ForOwner
    BY <1>1, <2>1, HeldStill, OwnerStill DEF SameRun
  <2>3. QED BY <2>1, <2>2, SyncingKept
<1>9. QED BY <1>2, <1>3, <1>4, <1>5, <1>6, <1>7, <1>8 DEF Beside

\* Resumed for who is signed in, it is for the owner of the open notebook.
LEMMA AwakeFor ==
  ASSUME Always
  PROVE  /\ Awake.run = sync.run /\ Awake.batch = sync.batch /\ Awake.by = sync.by
         /\ Awake.account \in {sync.account, book.owner}
         /\ SignedIn /\ mem.account # None =>
              Awake.account = mem.account /\ ~Awake.suspended
         /\ SignedIn /\ ~Awake.suspended =>
              mem.account # None /\ Awake.account = mem.account
<1>1. CASE SignedIn /\ mem.account # None
  <2>1. Awake = [sync EXCEPT !.suspended = FALSE, !.account = mem.account]
    BY <1>1 DEF Awake, Resumed
  <2>2. mem.account = book.owner
    BY <1>1 DEF Always, Session
  <2>3. QED BY <1>1, <2>1, <2>2, Types DEF Always, SyncType
<1>2. CASE ~(SignedIn /\ mem.account # None)
  <2>1. Awake = sync
    BY <1>2 DEF Awake
  <2>2. QED BY <1>2, <2>1 DEF Always, Syncing
<1>3. QED BY <1>1, <1>2

\* Who waits for a refresh goes on, or its run is over.
LEMMA SyncingWaiters ==
  ASSUME Always, Waiters
  PROVE  Syncing'
<1>1. PICK s : s = IF RefreshRejected THEN Suspended(sync)
                   ELSE IF RefreshLost /\ op.pc = "waiting" THEN Awake ELSE sync
  OBVIOUS
<1>2. s \in SyncType
  BY <1>1, Types, SyncTypes, AwakeTypes DEF Always
<1>3. /\ s.run = sync.run /\ s.batch = sync.batch /\ s.by = sync.by
      /\ s.account \in {sync.account, book.owner}
  BY <1>1, Types, RunEnds, AwakeFor DEF Always
<1>4. UNCHANGED book
  BY DEF Waiters, RefreshGranted, RefreshRejected, RefreshLost
<1>5. CASE RefreshGranted
  <2>1. /\ sync'.batch = sync.batch /\ sync'.by = sync.by /\ sync'.account = sync.account
        /\ sync'.suspended = sync.suspended /\ UNCHANGED mem
        /\ sync'.run = sync.run \/ (sync.run = "waiting" /\ sync'.run = "again")
    BY <1>5, Types DEF Always, RefreshGranted, Again, SyncType
  <2>2. op'.kind = op.kind /\ (op'.pc = op.pc \/ (op.pc = "waiting" /\ op'.pc = "again"))
    BY <1>5, KindOf DEF RefreshGranted, Again, OpType
  <2>3. SameRun /\ Held /\ ForOwner
    BY <2>1, <2>2, OwnerStill DEF Always, Syncing, SameRun, Held
  <2>4. QED BY <1>4, <2>1, <2>3, SyncingKept
<1>6. CASE ~RefreshGranted
  <2>1. WaitersFail(s)
    BY <1>1, <1>6 DEF Waiters, RefreshRejected, RefreshLost
  <2>2. /\ sync' = s \/ sync' = Ended(s)
        /\ op' = IF op.pc = "waiting" THEN NoOp ELSE op
    BY <2>1 DEF WaitersFail
  <2>3. /\ sync'.account = s.account /\ sync'.suspended = s.suspended
        /\ SameRun
    BY <1>2, <1>3, <2>2, RunEnds DEF SameRun
  <2>4. sync.run = "idle" => sync'.run = "idle"
    BY <1>2, <1>3, <2>2, RunEnds
  <2>5. CASE RefreshRejected
    <3>1. mem' = SignedOut /\ s = Suspended(sync)
      BY <1>1, <2>5 DEF RefreshRejected
    <3>2. s.account = sync.account /\ (sync.suspended => s.suspended)
      BY <3>1, Types, RunEnds DEF Always
    <3>3. Held /\ ForOwner
      BY <2>2, <2>3, <2>4, <3>1, <3>2, HeldStill, OwnerStill
    <3>4. QED BY <1>3, <1>4, <2>3, <3>3, SyncingKept
  <2>6. CASE RefreshLost /\ ~RefreshRejected
    <3>1. UNCHANGED mem /\ s = IF op.pc = "waiting" THEN Awake ELSE sync
      BY <1>1, <2>6 DEF RefreshLost
    <3>2. Held
      <4>1. CASE op.pc = "waiting"
        BY <2>2, <4>1 DEF Held, NoOp
      <4>2. CASE op.pc # "waiting"
        BY <2>2, <2>3, <2>4, <3>1, <4>2, HeldStill
      <4>3. QED BY <4>1, <4>2
    <3>3. ForOwner
      <4>1. CASE op.pc = "waiting"
        BY <2>3, <3>1, <4>1, AwakeFor DEF ForOwner, SignedIn
      <4>2. CASE op.pc # "waiting"
        BY <2>3, <3>1, <4>2, OwnerStill
      <4>3. QED BY <4>1, <4>2
    <3>4. QED BY <1>3, <1>4, <2>3, <3>2, <3>3, SyncingKept
  <2>7. QED BY <1>6, <2>5, <2>6 DEF Waiters
<1>7. QED BY <1>5, <1>6

\* Between two runs the notebook may change hands.
LEMMA SyncingIdle ==
  ASSUME Always, sync.run = "idle", UNCHANGED sync, Held, ForOwner
  PROVE  Syncing'
<1>1. sync'.batch = {} /\ sync'.by = None
  BY DEF Always, Syncing
<1>2. QED BY <1>1 DEF Syncing, Held, ForOwner

LEMMA SyncingAwake ==
  ASSUME Always, sync' = Awake, op' = NoOp, UNCHANGED <<mem, book>>
  PROVE  Syncing'
<1>1. SameRun /\ Held /\ ForOwner
  BY AwakeFor DEF SameRun, Held, ForOwner, SignedIn, NoOp
<1>2. QED BY <1>1, AwakeFor, SyncingKept

LEMMA SyncingStep ==
  ASSUME Always, [Next]_vars
  PROVE  Syncing'
<1>1. CASE SignIn \/ Delete \/ ChangePassword
  <2>1. /\ sync'.run = sync.run /\ sync'.batch = sync.batch /\ sync'.by = sync.by
        /\ sync'.account = sync.account /\ sync'.suspended
        /\ op'.pc = "suspend" /\ UNCHANGED book
    BY <1>1, Types DEF Always, SignIn, Delete, ChangePassword, Begin, SyncType, NoOp
  <2>2. SameRun /\ Held /\ ForOwner
    BY <2>1 DEF SameRun, Held, ForOwner
  <2>3. QED BY <2>1, <2>2, SyncingKept
<1>2. CASE (\E a \in Accounts : Authenticated(a)) \/ RunRequest
  <2>1. UNCHANGED <<sync, mem>> /\ sync.run = "idle" /\ sync.suspended
    BY <1>2 DEF Authenticated, RunRequest, RunEnded
  <2>2. Held /\ ForOwner
    BY <2>1 DEF Held, ForOwner
  <2>3. QED BY <2>1, <2>2, SyncingIdle
<1>3. CASE ActivateNotebook \/ CommitSession \/ RunAnswered
  <2>1. /\ UNCHANGED <<sync, mem>> /\ op.kind # "none" /\ op.pc # "suspend"
    BY <1>3, KindOf DEF ActivateNotebook, CommitSession, RunAnswered, Asking
  <2>2. sync.run = "idle" /\ sync.suspended
    BY <2>1 DEF Always, Syncing
  <2>3. Held /\ ForOwner
    BY <2>1, <2>2 DEF Held, ForOwner
  <2>4. QED BY <2>1, <2>2, <2>3, SyncingIdle
<1>4. CASE Settle
  <2>1. /\ sync.run = "idle" /\ book.owner = op.token.account
        /\ op.token.account # None
    BY <1>4, KindOf, Names DEF Always, Syncing, Session, Settle
  <2>2. /\ sync'.run = "idle" /\ sync'.batch = sync.batch /\ sync'.by = sync.by
        /\ sync'.account = op.token.account /\ UNCHANGED book
        /\ mem'.account = op.token.account /\ op' = NoOp
    BY <1>4, <2>1, Types DEF Always, Settle, Resumed, SyncType
  <2>3. SameRun /\ Held /\ ForOwner
    BY <2>1, <2>2 DEF Always, Syncing, SameRun, Held, ForOwner, NoOp
  <2>4. QED BY <2>1, <2>2, <2>3, SyncingKept
<1>5. CASE Rollback \/ Wipe
  <2>1. op.kind # "none" /\ op.pc # "suspend" /\ UNCHANGED sync /\ op' = NoOp
    BY <1>5, KindOf DEF Rollback, Wipe
  <2>2. sync.run = "idle"
    BY <2>1 DEF Always, Syncing
  <2>3. ~SignedIn'
    BY <1>5, KindOf, Constants DEF Always, Session, Rollback, Wipe, SignedIn
  <2>4. Held /\ ForOwner
    BY <2>1, <2>3 DEF Held, ForOwner, NoOp
  <2>5. QED BY <2>1, <2>2, <2>4, SyncingIdle
<1>6. CASE SignInFails \/ UNCHANGED vars
  <2>1. UNCHANGED <<sync, mem, book>> /\ (op' = op \/ op' = NoOp)
    BY <1>6 DEF SignInFails, vars
  <2>2. SameRun /\ Held /\ ForOwner
    BY <2>1, HeldStill, OwnerStill DEF SameRun
  <2>3. QED BY <2>1, <2>2, SyncingKept
<1>7. CASE RunFails \/ WipeFails
  BY <1>7, SyncingAwake DEF RunFails, WipeFails
<1>8. CASE RunRefused
  <2>1. op.kind # "none" /\ op.pc = "request" /\ UNCHANGED book
    BY <1>8, KindOf DEF RunRefused
  <2>2. sync.run = "idle" /\ sync.suspended
    BY <2>1 DEF Always, Syncing
  <2>3. CASE UNCHANGED <<mem, sync>>
    <3>1. Held /\ ForOwner
      BY <2>2, <2>3 DEF Held, ForOwner
    <3>2. QED BY <2>2, <2>3, <3>1, SyncingIdle
  <2>4. CASE op' = NoOp /\ mem' = SignedOut /\ sync' = Suspended(sync)
    <3>1. /\ sync'.run = sync.run /\ sync'.batch = sync.batch /\ sync'.by = sync.by
          /\ sync'.account = sync.account /\ (sync.suspended => sync'.suspended)
      BY <2>4, Types, RunEnds DEF Always
    <3>2. SameRun /\ Held /\ ForOwner
      BY <2>4, <3>1, HeldStill, OwnerStill DEF SameRun
    <3>3. QED BY <2>1, <3>1, <3>2, SyncingKept
  <2>5. QED BY <1>8, <2>3, <2>4 DEF RunRefused
<1>9. CASE ClearAfter
  <2>1. op.kind # "none" /\ op.pc # "suspend" /\ UNCHANGED sync
    BY <1>9, KindOf DEF ClearAfter
  <2>2. sync.run = "idle" /\ sync.suspended
    BY <2>1 DEF Always, Syncing
  <2>3. Held /\ ForOwner
    BY <2>1, <2>2 DEF Held, ForOwner
  <2>4. QED BY <2>1, <2>2, <2>3, SyncingIdle
<1>10. CASE Restart
  <2>1. op' = NoOp
    BY <1>10 DEF Restart
  <2>2. CASE sync' = Asleep
    BY <2>1, <2>2 DEF Syncing, Asleep, NoOp
  <2>3. CASE /\ mem' = [state |-> "signedIn", account |-> stored.owner]
             /\ stored.owner # None
             /\ sync' = [Asleep EXCEPT !.suspended = FALSE, !.account = stored.owner]
    BY <2>1, <2>3 DEF Syncing, Asleep, NoOp
  <2>4. QED BY <1>10, <2>2, <2>3 DEF Restart
<1>11. QED
  BY <1>1, <1>2, <1>3, <1>4, <1>5, <1>6, <1>7, <1>8, <1>9, <1>10, NextCases,
     SyncingBeside, SyncingWaiters

-----------------------------------------------------------------------------
(* Whose tokens, and whose run.                                            *)

LEMMA SentKept ==
  ASSUME InTime, book'.owner = book.owner,
         sync'.run = "answered" => sync.run = "answered" /\ sync'.by = sync.by
  PROVE  Sent'
BY DEF InTime, Sent

LEMMA SentStep ==
  ASSUME Always, InTime, [Next]_vars
  PROVE  Sent'
<1>1. CASE SyncAnswered
  <2>1. sync'.by = stored.token.account /\ stored.token.account # None /\ UNCHANGED book
    BY <1>1, Types DEF Always, SyncAnswered, SyncType
  <2>2. stored.token.account = book.owner
    BY <2>1, Constants DEF InTime, Owned
  <2>3. QED BY <2>1, <2>2 DEF Sent
<1>2. CASE Beside /\ ~SyncAnswered
  <2>1. book'.owner = book.owner
    BY <1>2, Types DEF Always, BookType, Beside, Write, Elsewhere, RefreshAtServer,
       RefreshReads, StartRun, SyncRefused, SyncMerges, SyncFails, OtherStarts, OtherRefused,
       OtherEnds, SignOut, Logout, LogoutEnds, LogoutRefused, LogoutClears
  <2>2. Suspended(sync) \in SyncType
    BY Types, SyncTypes DEF Always
  <2>3. sync'.run = "answered" => sync.run = "answered" /\ sync'.by = sync.by
    <3>1. CASE SyncRefused \/ OtherRefused \/ LogoutRefused
      <4>1. \/ UNCHANGED sync \/ sync' = [sync EXCEPT !.run = "waiting"]
            \/ sync' = Suspended(sync) \/ sync' = Ended(Suspended(sync))
        BY <3>1 DEF SyncRefused, OtherRefused, LogoutRefused
      <4>2. QED BY <2>2, <4>1, Types, RunEnds DEF Always, SyncType
    <3>2. CASE SyncMerges \/ SyncFails
      BY <3>2, Types, RunEnds DEF Always, SyncMerges, SyncFails
    <3>3. CASE StartRun \/ SignOut
      BY <3>3, Types DEF Always, SyncType, StartRun, SignOut
    <3>4. CASE \/ \E w \in Words : Write(w) \/ \E a \in Accounts : Elsewhere(w, a)
               \/ RefreshAtServer \/ RefreshReads \/ OtherStarts \/ OtherEnds
               \/ Logout \/ LogoutEnds \/ LogoutClears
      BY <3>4 DEF Write, Elsewhere, RefreshAtServer, RefreshReads, OtherStarts, OtherEnds,
         Logout, LogoutEnds, LogoutClears
    <3>5. QED BY <1>2, <3>1, <3>2, <3>3, <3>4 DEF Beside
  <2>4. QED BY <2>1, <2>3, SentKept
<1>3. CASE Waiters
  <2>1. UNCHANGED book
    BY <1>3 DEF Waiters, RefreshGranted, RefreshRejected, RefreshLost
  <2>2. CASE RefreshGranted
    BY <2>1, <2>2, Types, SentKept DEF Always, SyncType, RefreshGranted, Again
  <2>3. CASE RefreshRejected \/ RefreshLost
    <3>1. PICK s : /\ s \in {sync, Suspended(sync), Awake} /\ WaitersFail(s)
      BY <2>3 DEF RefreshRejected, RefreshLost
    <3>2. s \in SyncType /\ s.run = sync.run /\ s.by = sync.by
      BY <3>1, Types, SyncTypes, RunEnds, AwakeTypes, AwakeFor DEF Always
    <3>3. sync' = s \/ sync'.run = "idle"
      BY <3>1, <3>2, RunEnds DEF WaitersFail
    <3>4. QED BY <2>1, <3>2, <3>3, SentKept
  <2>4. QED BY <1>3, <2>2, <2>3 DEF Waiters
<1>4. CASE SignIn \/ Delete \/ ChangePassword \/ Settle \/ RunFails \/ WipeFails \/ RunRefused
  <2>1. /\ UNCHANGED book
        /\ \/ UNCHANGED sync
           \/ sync' \in {Awake, Suspended(sync), Resumed(op.token.account),
                         [sync EXCEPT !.suspended = TRUE]}
    BY <1>4 DEF SignIn, Delete, ChangePassword, Begin, Settle, RunFails, WipeFails, RunRefused
  <2>2. sync'.run = sync.run /\ sync'.by = sync.by
    BY <2>1, Types, AwakeFor, RunEnds DEF Always, SyncType, Resumed
  <2>3. QED BY <2>1, <2>2, SentKept
<1>5. CASE \/ (\E a \in Accounts : Authenticated(a)) \/ CommitSession \/ SignInFails
           \/ RunRequest \/ RunAnswered \/ ClearAfter \/ UNCHANGED vars
  <2>1. UNCHANGED <<sync, book>>
    BY <1>5 DEF Authenticated, CommitSession, SignInFails, RunRequest, RunAnswered,
       ClearAfter, vars
  <2>2. QED BY <2>1, SentKept
<1>6. CASE ActivateNotebook \/ Rollback \/ Wipe
  <2>1. UNCHANGED sync /\ op.kind # "none" /\ op.pc # "suspend"
    BY <1>6, KindOf DEF ActivateNotebook, Rollback, Wipe
  <2>2. QED BY <2>1 DEF Always, Syncing, Sent
<1>7. CASE Restart
  <2>1. \/ sync' = Asleep
        \/ sync' = [Asleep EXCEPT !.suspended = FALSE, !.account = stored.owner]
    BY <1>7 DEF Restart
  <2>2. sync'.run = "idle"
    <3>1. CASE sync' = Asleep
      BY <3>1 DEF Asleep
    <3>2. CASE sync' = [Asleep EXCEPT !.suspended = FALSE, !.account = stored.owner]
      BY <3>2 DEF Asleep
    <3>3. QED BY <2>1, <3>1, <3>2
  <2>3. QED BY <2>2 DEF Sent
<1>8. QED
  BY <1>1, <1>2, <1>3, <1>4, <1>5, <1>6, <1>7, NextCases

\* A session ends, or goes on as it is.
LEMMA OwnedKept ==
  ASSUME Always, InTime, stored' = stored \/ stored' = NoSession,
         UNCHANGED mem \/ (mem' = SignedOut /\ stored'.token = NoToken),
         book'.owner = book.owner, GoesOn
  PROVE  Owned'
<1>1. op'.pc = "wipe" => op.pc = "wipe"
  BY DEF GoesOn, NoOp
<1>2. SignedIn' => SignedIn /\ UNCHANGED mem
  BY Constants DEF SignedIn
<1>3. CASE stored'.token = NoToken
  BY <1>2, <1>3 DEF InTime, Owned
<1>4. CASE stored'.token # NoToken
  <2>1. UNCHANGED <<stored, mem>>
    BY <1>4, Constants
  <2>2. op.pc = "settle" => op'.pc = "settle"
    BY DEF GoesOn
  <2>3. QED BY <1>1, <1>4, <2>1, <2>2 DEF InTime, Owned, SignedIn
<1>5. QED BY <1>3, <1>4

LEMMA OwnedBeside ==
  ASSUME Always, InTime, Beside
  PROVE  Owned'
<1>1. GoesOn
  BY BesideOp DEF GoesOn
<1>2. /\ stored' = stored \/ stored' = NoSession
      /\ UNCHANGED mem \/ (mem' = SignedOut /\ stored'.token = NoToken)
  <2>1. CASE SyncRefused \/ OtherRefused \/ LogoutRefused
    BY <2>1 DEF SyncRefused, OtherRefused, LogoutRefused, CanWait
  <2>2. CASE LogoutClears
    BY <2>2, Constants DEF LogoutClears
  <2>3. CASE ~(SyncRefused \/ OtherRefused \/ LogoutRefused \/ LogoutClears)
    BY <2>3 DEF Beside, Write, Elsewhere, RefreshAtServer, RefreshReads, StartRun,
       SyncAnswered, SyncMerges, SyncFails, OtherStarts, OtherEnds, SignOut, Logout,
       LogoutEnds
  <2>4. QED BY <2>1, <2>2, <2>3
<1>3. book'.owner = book.owner
  BY Types DEF Always, BookType, Beside, Write, Elsewhere, RefreshAtServer, RefreshReads,
     StartRun, SyncAnswered, SyncRefused, SyncMerges, SyncFails, OtherStarts, OtherRefused,
     OtherEnds, SignOut, Logout, LogoutEnds, LogoutRefused, LogoutClears
<1>4. QED BY <1>1, <1>2, <1>3, OwnedKept

\* Once a refresh was late, it was.
LEMMA StillInTime ==
  ASSUME Always, [Next]_vars, ~late'
  PROVE  ~late
<1>1. CASE RefreshGranted
  BY <1>1 DEF RefreshGranted
<1>2. CASE RefreshRejected \/ RefreshLost
  BY <1>2 DEF RefreshRejected, RefreshLost
<1>3. CASE Beside
  BY <1>3 DEF Beside, Write, Elsewhere, RefreshAtServer, RefreshReads, StartRun,
     SyncAnswered, SyncRefused, SyncMerges, SyncFails, OtherStarts, OtherRefused, OtherEnds,
     SignOut, Logout, LogoutEnds, LogoutRefused, LogoutClears
<1>4. CASE \/ SignIn \/ (\E a \in Accounts : Authenticated(a)) \/ ActivateNotebook
           \/ CommitSession \/ Settle \/ Rollback \/ SignInFails \/ Delete \/ ChangePassword
           \/ RunRequest \/ RunAnswered \/ RunFails \/ RunRefused \/ ClearAfter \/ Wipe
           \/ WipeFails \/ Restart \/ UNCHANGED vars
  BY <1>4 DEF SignIn, Begin, Authenticated, ActivateNotebook, CommitSession, Settle, Rollback,
     SignInFails, Delete, ChangePassword, RunRequest, RunAnswered, RunFails, RunRefused,
     ClearAfter, Wipe, WipeFails, Restart, vars
<1>5. QED BY <1>1, <1>2, <1>3, <1>4, NextCases DEF Waiters

\* A refresh that is saved in time is saved over the session it is of.
LEMMA SavedInTime ==
  ASSUME Always, InTime, RefreshGranted, ~late'
  PROVE  /\ stored.token # NoToken /\ stored'.owner = stored.owner
         /\ stored'.token.account = stored.owner
<1>1. stored' = Saved /\ ~Outlived /\ refresh.token.account \in Accounts
  BY DEF RefreshGranted, Always, Session
<1>2. stored.owner = refresh.token.account
  BY <1>1 DEF Outlived
<1>3. QED BY <1>1, <1>2, Names DEF Outlived, Saved, Always, Session

LEMMA OwnedStep ==
  ASSUME Always, InTime, [Next]_vars, ~late'
  PROVE  Owned'
<1>1. CASE RefreshGranted
  <2>1. /\ stored.token # NoToken /\ stored'.owner = stored.owner
        /\ stored'.token.account = stored.owner
    BY <1>1, SavedInTime
  <2>2. UNCHANGED <<mem, book>> /\ GoesOn
    BY <1>1, WaitersGoOn DEF Waiters, RefreshGranted
  <2>3. op.pc # "wipe" /\ (op'.pc = "wipe" => op.pc = "wipe")
    BY <2>1, <2>2 DEF InTime, Owned, GoesOn, NoOp
  <2>4. op.pc = "settle" => op'.pc = "settle"
    BY <2>2 DEF GoesOn
  <2>5. QED BY <2>1, <2>2, <2>3, <2>4 DEF InTime, Owned, SignedIn
<1>2. CASE RefreshRejected \/ RefreshLost
  <2>1. GoesOn
    BY <1>2, WaitersGoOn DEF Waiters
  <2>2. QED BY <1>2, <2>1, OwnedKept, Constants DEF RefreshRejected, RefreshLost
<1>3. CASE \/ SignInFails \/ Delete \/ ChangePassword \/ RunRequest \/ RunAnswered \/ RunFails
           \/ RunRefused \/ WipeFails
  <2>1. /\ UNCHANGED <<stored, book>>
        /\ UNCHANGED mem \/ (mem' = SignedOut /\ stored.token = NoToken)
    BY <1>3 DEF SignInFails, Delete, ChangePassword, Begin, RunRequest, RunAnswered, RunFails,
       RunRefused, WipeFails, CanWait
  <2>2. GoesOn
    BY <1>3, KindOf DEF GoesOn, OpType, SignInFails, Delete, ChangePassword, Begin, NoOp,
       RunRequest, RunAnswered, RunFails, RunRefused, WipeFails, Asking
  <2>3. QED BY <2>1, <2>2, OwnedKept
<1>4. CASE SignIn \/ \E a \in Accounts : Authenticated(a)
  <2>1. /\ UNCHANGED <<stored, mem, book>> /\ op'.pc \in {"suspend", "activate"}
        /\ op.pc # "settle"
    BY <1>4, KindOf DEF OpType, SignIn, Begin, NoOp, Authenticated
  <2>2. QED BY <2>1 DEF InTime, Owned, SignedIn
<1>5. CASE ActivateNotebook \/ Rollback
  <2>1. op.kind = "signIn" /\ op.pc # "settle" /\ op'.pc # "wipe" /\ UNCHANGED <<stored, mem>>
    <3>1. CASE ActivateNotebook
      BY <3>1, KindOf DEF ActivateNotebook, OpType
    <3>2. CASE Rollback
      BY <3>2, KindOf DEF Rollback, NoOp
    <3>3. QED BY <1>5, <3>1, <3>2
  <2>2. ~SignedIn /\ stored.token = NoToken
    BY <2>1 DEF Always, Session, InTime, Owned
  <2>3. QED BY <2>1, <2>2 DEF Owned, SignedIn
<1>6. CASE CommitSession
  <2>1. op.kind = "signIn" /\ UNCHANGED <<mem, book>> /\ op.token.account = book.owner
    BY <1>6, KindOf DEF Always, Session, CommitSession
  <2>2. ~SignedIn /\ stored.token = NoToken
    BY <1>6, <2>1 DEF Always, Session, InTime, Owned, CommitSession
  <2>3. CASE stored' = [token |-> op.token, owner |-> op.token.account] /\ op'.pc = "settle"
    BY <2>1, <2>2, <2>3 DEF Owned, SignedIn
  <2>4. CASE UNCHANGED stored /\ op'.pc = "rollback"
    BY <2>1, <2>2, <2>4 DEF Owned, SignedIn
  <2>5. QED BY <1>6, <2>3, <2>4, KindOf DEF CommitSession, OpType
<1>7. CASE Settle
  <2>1. op.token.account \in Accounts /\ book.owner = op.token.account
    BY <1>7 DEF Always, Session, Settle
  <2>2. QED BY <1>7, <2>1 DEF InTime, Owned, Settle, SignedIn, NoOp
<1>8. CASE ClearAfter
  <2>1. stored'.token = NoToken /\ UNCHANGED book /\ (UNCHANGED mem \/ mem' = SignedOut)
    BY <1>8, Constants DEF ClearAfter
  <2>2. QED BY <2>1, Constants DEF InTime, Owned, SignedIn
<1>9. CASE Wipe
  <2>1. stored'.token = NoToken /\ ~SignedIn'
    BY <1>9, Constants DEF InTime, Owned, Wipe, SignedIn
  <2>2. QED BY <2>1 DEF Owned
<1>10. CASE Restart
  <2>1. op' = NoOp /\ UNCHANGED stored
    BY <1>10 DEF Restart
  <2>2. CASE stored.token = NoToken
    <3>1. ~SignedIn'
      BY <1>10, <2>2, Constants DEF Restart, SignedIn
    <3>2. QED BY <2>1, <2>2, <3>1 DEF Owned
  <2>3. CASE stored.token # NoToken
    <3>1. stored.owner = stored.token.account /\ stored.owner \in Accounts
      BY <2>3 DEF Always, Session, InTime, Owned
    <3>2. /\ mem' = [state |-> "signedIn", account |-> stored.owner]
          /\ Activated(stored.owner)
      BY <1>10, <2>3, <3>1, Names DEF Restart
    <3>3. book'.owner = stored.owner
      BY <3>2, Types DEF Always, Activated, BookType
    <3>4. QED BY <2>1, <3>1, <3>2, <3>3 DEF Owned, SignedIn, NoOp
  <2>4. QED BY <2>2, <2>3
<1>11. CASE UNCHANGED vars
  BY <1>11 DEF vars, InTime, Owned, SignedIn
<1>12. QED
  BY <1>1, <1>2, <1>3, <1>4, <1>5, <1>6, <1>7, <1>8, <1>9, <1>10, <1>11, NextCases,
     OwnedBeside DEF Waiters

-----------------------------------------------------------------------------
(* Words.                                                                  *)

\* Nothing comes into a notebook.
LEMMA ApartKept ==
  ASSUME Always, InTime, UNCHANGED <<book, home>>, \A a \in Accounts : Kept(a)' \subseteq Kept(a)
  PROVE  Apart' /\ ((Adopting' => Adopting) => Given')
BY DEF Always, InTime, Apart, Given

LEMMA WordTypes ==
  ASSUME TypeOK
  PROVE  /\ book.words \subseteq Words /\ \A a \in Accounts : Kept(a) \subseteq Words
         /\ book.owner \in Accounts \/ book.owner = None
         /\ home \in [Words -> Accounts \cup {None, Guest}]
BY Types DEF BookType, ServerType, Kept, Owner

LEMMA ApartActivated ==
  ASSUME Always, InTime, NEW a \in Accounts, Activated(a), UNCHANGED <<home, server>>
  PROVE  Apart'
<1>1. CASE book.owner \in {a, None}
  <2>1. book'.owner = a /\ book'.words = book.words /\ UNCHANGED archive
    BY <1>1, Types, Names DEF Always, InTime, Activated, BookType
  <2>2. \A b \in Accounts : Kept(b)' = Kept(b)
    BY <2>1 DEF Kept
  <2>3. \A w \in book.words : home[w] \in {a, Guest}
    BY <1>1, WordTypes DEF Always, InTime, Apart
  <2>4. QED BY <1>1, <2>1, <2>2, <2>3, Names DEF Always, InTime, Apart
<1>2. CASE book.owner \notin {a, None}
  <2>1. PICK from : from = book.owner
    OBVIOUS
  <2>2. /\ from \in Accounts /\ from # a
        /\ archive' = [archive EXCEPT ![from] = book.words]
        /\ book'.owner = a /\ book'.words = archive[a]
    BY <1>2, <2>1, WordTypes, Names DEF Always, InTime, Activated
  <2>3. /\ Kept(from)' = book.words \cup server.words[from]
        /\ \A b \in Accounts \ {from} : Kept(b)' = Kept(b)
        /\ book'.words \subseteq Kept(a)
    BY <2>2, Types DEF Always, InTime, Kept
  <2>4. server.words[from] \subseteq Kept(from)
    BY DEF Kept
  <2>5. \A w \in Words : home'[w] = None =>
           w \notin book'.words /\ \A b \in Accounts : w \notin Kept(b)'
    BY <2>2, <2>3, <2>4 DEF Always, InTime, Apart
  <2>6. \A b \in Accounts : \A w \in Kept(b)' : home'[w] \in {b, Guest}
    BY <2>1, <2>2, <2>3, <2>4 DEF Always, InTime, Apart
  <2>7. \A w \in book'.words : home'[w] \in {book'.owner, Guest}
    BY <2>2, <2>3 DEF Always, InTime, Apart
  <2>8. \A b, c \in Accounts : \A w \in Kept(b)' : w \in Kept(c)' => b = c
    BY <2>1, <2>2, <2>3, <2>4 DEF Always, InTime, Apart
  <2>9. \A b \in Accounts : \A w \in Kept(b)' : w \in book'.words => b = book'.owner
    BY <2>1, <2>2, <2>3, <2>4 DEF Always, InTime, Apart
  <2>10. QED BY <2>5, <2>6, <2>7, <2>8, <2>9 DEF Apart
<1>3. QED BY <1>1, <1>2

LEMMA ApartBeside ==
  ASSUME Always, InTime, Beside
  PROVE  Apart' /\ Given'
<1>1. op' = op /\ (Adopting' <=> Adopting)
  BY BesideOp DEF Adopting
<1>2. CASE \E w \in Words : Write(w)
  <2>1. PICK w \in Words : Write(w)
    BY <1>2
  <2>2. /\ home[w] = None /\ w \notin book.words /\ \A a \in Accounts : w \notin Kept(a)
        /\ book'.owner = book.owner /\ book'.words = book.words \cup {w}
        /\ \A v \in Words : home'[v] = IF v # w THEN home[v]
                                       ELSE IF book.owner = None THEN Guest ELSE book.owner
    BY <2>1, Types DEF Always, InTime, Apart, Write, BookType
  <2>3. \A a \in Accounts : Kept(a)' = Kept(a)
    BY <2>1 DEF Write, Kept
  <2>4. Apart'
    BY <2>2, <2>3, WordTypes, Names DEF Always, InTime, Apart
  <2>5. Given'
    BY <1>1, <2>2, <2>3 DEF Always, InTime, Given
  <2>6. QED BY <2>4, <2>5
<1>3. CASE \E w \in Words : \E a \in Accounts : Elsewhere(w, a)
  <2>1. PICK w \in Words, a \in Accounts : Elsewhere(w, a)
    BY <1>3
  <2>2. /\ home[w] = None /\ w \notin book.words /\ \A b \in Accounts : w \notin Kept(b)
        /\ UNCHANGED book /\ home' = [home EXCEPT ![w] = a]
    BY <2>1 DEF Always, InTime, Apart, Elsewhere
  <2>3. \A b \in Accounts : Kept(b)' = IF b = a THEN Kept(b) \cup {w} ELSE Kept(b)
    BY <2>1, Types DEF Always, InTime, Elsewhere, Kept, ServerType
  <2>4. \A v \in Words : home'[v] = IF v # w THEN home[v] ELSE a
    BY <2>2, Types DEF Always, InTime
  <2>5. Apart'
    BY <2>2, <2>3, <2>4, WordTypes, Names DEF Always, InTime, Apart
  <2>6. Given'
    BY <1>1, <2>2, <2>3 DEF Always, InTime, Given
  <2>7. QED BY <2>5, <2>6
<1>4. CASE SyncAnswered \/ SyncMerges
  <2>1. sync.run # "idle" /\ ~Adopting
    BY <1>4, KindOf DEF Always, InTime, Syncing, Adopting, SyncAnswered, SyncMerges
  <2>2. CASE SyncAnswered
    <3>1. PICK a : a = stored.token.account
      OBVIOUS
    <3>2. a \in Accounts /\ a = book.owner /\ sync.batch \subseteq book.words
      BY <2>2, <3>1, Types, Constants DEF Always, InTime, Owned, Syncing, SyncAnswered, StoredType,
         Token, Owner
    <3>3. /\ server'.words = [server.words EXCEPT ![a] = @ \cup sync.batch]
          /\ UNCHANGED <<book, home, archive>>
      BY <2>2, <3>1, Types DEF Always, InTime, SyncAnswered, ServerType
    <3>4. \A b \in Accounts : Kept(b)' = IF b = a THEN Kept(b) \cup sync.batch ELSE Kept(b)
      BY <3>2, <3>3, Types DEF Always, InTime, Kept, ServerType
    <3>5. Apart'
      BY <3>2, <3>3, <3>4, WordTypes DEF Always, InTime, Apart
    <3>6. QED BY <1>1, <2>1, <3>5 DEF Given
  <2>3. CASE SyncMerges
    <3>1. PICK a : a = sync.by
      OBVIOUS
    <3>2. a \in Accounts /\ a = book.owner
      BY <2>3, <3>1 DEF Always, InTime, Answered, Sent, SyncMerges
    <3>3. /\ book'.owner = a /\ book'.words = book.words \cup server.words[a]
          /\ server.words[a] \subseteq Kept(a) /\ UNCHANGED home
      BY <2>3, <3>1, <3>2, Types DEF Always, InTime, SyncMerges, BookType, Kept
    <3>4. \A b \in Accounts : Kept(b)' = Kept(b)
      BY <2>3 DEF SyncMerges, Kept
    <3>5. Apart'
      BY <3>2, <3>3, <3>4 DEF Always, InTime, Apart
    <3>6. QED BY <1>1, <2>1, <3>5 DEF Given
  <2>4. QED BY <1>4, <2>2, <2>3
<1>5. CASE \/ RefreshAtServer \/ RefreshReads \/ StartRun \/ SyncRefused \/ SyncFails
           \/ OtherStarts \/ OtherRefused \/ OtherEnds
           \/ SignOut \/ Logout \/ LogoutEnds \/ LogoutRefused \/ LogoutClears
  <2>1. UNCHANGED <<book, home, archive>> /\ server'.words = server.words
    BY <1>5, Types DEF Always, InTime, ServerType, RefreshAtServer, RefreshReads, StartRun, SyncRefused,
       SyncFails, OtherStarts, OtherRefused, OtherEnds, SignOut, Logout, LogoutEnds, LogoutRefused,
       LogoutClears
  <2>2. QED BY <1>1, <2>1, ApartKept DEF Kept
<1>6. QED BY <1>2, <1>3, <1>4, <1>5 DEF Beside

LEMMA RevokedKept ==
  ASSUME TypeOK, NEW a \in Accounts, server' = Revoked(a), UNCHANGED archive
  PROVE  \A b \in Accounts : Kept(b)' \subseteq Kept(b)
BY Types DEF Revoked, ServerType, Kept

LEMMA ApartStep ==
  ASSUME Always, InTime, [Next]_vars
  PROVE  Apart' /\ Given'
<1>1. CASE \/ Waiters \/ SignIn \/ (\E a \in Accounts : Authenticated(a)) \/ CommitSession
           \/ Settle \/ SignInFails \/ Delete \/ ChangePassword \/ RunRequest \/ RunRefused
           \/ ClearAfter \/ WipeFails \/ UNCHANGED vars
  <2>1. UNCHANGED <<book, home, archive>> /\ server'.words = server.words
    BY <1>1, Types DEF Always, InTime, ServerType, Waiters, RefreshGranted, RefreshRejected, RefreshLost,
       SignIn, Begin, Authenticated, CommitSession, Settle, SignInFails, Delete,
       ChangePassword, RunRequest, RunRefused, ClearAfter, WipeFails, vars
  <2>2. Adopting' => Adopting
    <3>1. CASE Waiters
      BY <3>1, WaitersOp, KindOf DEF Adopting, OpType, NoOp
    <3>2. CASE CommitSession \/ UNCHANGED vars
      BY <3>2, KindOf DEF Adopting, OpType, CommitSession, vars
    <3>3. CASE SignIn \/ Delete \/ ChangePassword
      BY <3>3 DEF Adopting, SignIn, Delete, ChangePassword, Begin, NoOp
    <3>4. CASE \E a \in Accounts : Authenticated(a)
      <4>1. op'.pc = "activate"
        BY <3>4, KindOf DEF Authenticated, OpType
      <4>2. QED BY <4>1 DEF Adopting
    <3>5. CASE Settle \/ SignInFails \/ WipeFails
      BY <3>5 DEF Adopting, NoOp, Settle, SignInFails, WipeFails
    <3>6. CASE RunRequest \/ RunRefused \/ ClearAfter
      <4>1. op'.pc \in {"request", "waiting", "wipe", "idle"}
        BY <3>6, KindOf DEF OpType, NoOp, RunRequest, RunRefused, ClearAfter
      <4>2. QED BY <4>1 DEF Adopting
    <3>7. QED BY <1>1, <3>1, <3>2, <3>3, <3>4, <3>5, <3>6
  <2>3. QED BY <2>1, <2>2, ApartKept DEF Kept
<1>2. CASE RunAnswered \/ RunFails
  <2>1. PICK a : a = stored.token.account
    OBVIOUS
  <2>2. \/ UNCHANGED server
        \/ a \notin server.deleted \cup {None} /\ server' = Revoked(a)
    BY <1>2, <2>1 DEF RunAnswered, RunFails
  <2>3. UNCHANGED <<book, home, archive>>
    BY <1>2 DEF RunAnswered, RunFails
  <2>4. \A b \in Accounts : Kept(b)' \subseteq Kept(b)
    <3>1. CASE UNCHANGED server
      BY <2>3, <3>1 DEF Kept
    <3>2. CASE a # None /\ server' = Revoked(a)
      <4>1. a \in Accounts
        BY <2>1, <3>2, Types DEF Always, InTime, StoredType, Token, Owner
      <4>2. QED BY <2>3, <3>2, <4>1, RevokedKept DEF Always, InTime
    <3>3. QED BY <2>2, <3>1, <3>2
  <2>5. ~Adopting'
    BY <1>2, KindOf DEF Adopting, OpType, NoOp, RunAnswered, RunFails
  <2>6. QED BY <2>3, <2>4, <2>5, ApartKept
<1>3. CASE ActivateNotebook
  <2>1. PICK a : a = op.token.account
    OBVIOUS
  <2>2. a \in Accounts /\ Activated(a) /\ UNCHANGED <<home, server>>
    BY <1>3, <2>1 DEF Always, InTime, Session, ActivateNotebook
  <2>3. Apart'
    BY <2>2, ApartActivated
  <2>4. Given'
    <3>1. SUFFICES ASSUME Adopting'
                   PROVE  \A b \in Accounts : \A w \in Kept(b)' : w \notin book'.words
      BY DEF Given
    <3>2. book.owner = None
      BY <1>3, <3>1, KindOf DEF ActivateNotebook, Adopting, OpType
    <3>3. book'.words = book.words /\ UNCHANGED archive
      BY <2>2, <3>2, Types DEF Always, InTime, Activated, BookType
    <3>4. QED BY <2>2, <3>2, <3>3, Names DEF Always, InTime, Apart, Kept
  <2>5. QED BY <2>3, <2>4
<1>4. CASE Rollback
  <2>1. op' = NoOp /\ UNCHANGED server /\ op.kind = "signIn" /\ op.pc = "rollback"
    BY <1>4, KindOf DEF Rollback
  <2>2. Given'
    BY <2>1 DEF Given, Adopting, NoOp
  <2>3. CASE UNCHANGED <<book, archive, home>>
    BY <2>1, <2>2, <2>3, ApartKept DEF Kept
  <2>4. CASE /\ Activated(op.from)
             /\ home' = [w \in Words |->
                           IF op.from = None /\ w \in book.words THEN Guest ELSE home[w]]
    <3>1. CASE op.from = None
      <4>1. book'.owner = None /\ book'.words = book.words /\ UNCHANGED archive
        BY <2>4, <3>1, Types DEF Always, InTime, Activated, BookType
      <4>2. \A a \in Accounts : Kept(a)' = Kept(a)
        BY <2>1, <4>1 DEF Kept
      <4>3. \A w \in Words : home'[w] = IF w \in book.words THEN Guest ELSE home[w]
        BY <2>4, <3>1
      <4>4. \A a \in Accounts : \A w \in Kept(a) : w \notin book.words
        BY <2>1, <3>1 DEF Always, InTime, Given, Adopting
      <4>5. Apart'
        BY <4>1, <4>2, <4>3, <4>4, WordTypes, Names DEF Always, InTime, Apart
      <4>6. QED BY <2>2, <4>5
    <3>2. CASE op.from # None
      <4>1. PICK a : a = op.from
        OBVIOUS
      <4>2. a \in Accounts
        BY <3>2, <4>1, Types DEF Always, InTime, OpType, Owner
      <4>3. home' = home
        BY <2>4, <3>2, Types DEF Always, InTime
      <4>4. Apart'
        BY <2>1, <2>4, <4>1, <4>2, <4>3, ApartActivated
      <4>5. QED BY <2>2, <4>4
    <3>3. QED BY <3>1, <3>2
  <2>5. QED BY <1>4, <2>3, <2>4 DEF Rollback
<1>5. CASE Wipe
  <2>1. book'.words = {} /\ UNCHANGED <<home, server>> /\ op' = NoOp
    BY <1>5 DEF Wipe
  <2>2. \A a \in Accounts : Kept(a)' \subseteq Kept(a)
    BY <1>5, Types DEF Always, InTime, Wipe, Wiped, Kept
  <2>3. Apart'
    BY <2>1, <2>2 DEF Always, InTime, Apart
  <2>4. QED BY <2>1, <2>3 DEF Given, Adopting, NoOp
<1>6. CASE Restart
  <2>1. op' = NoOp /\ UNCHANGED <<server, home>>
    BY <1>6 DEF Restart
  <2>2. Given'
    BY <2>1 DEF Given, Adopting, NoOp
  <2>3. CASE UNCHANGED <<book, archive>>
    BY <2>1, <2>2, <2>3, ApartKept DEF Kept
  <2>4. CASE stored.owner # None /\ Activated(stored.owner)
    <3>1. PICK a : a = stored.owner
      OBVIOUS
    <3>2. a \in Accounts
      BY <2>4, <3>1, Types DEF Always, StoredType, Owner
    <3>3. QED BY <2>1, <2>2, <2>4, <3>1, <3>2, ApartActivated
  <2>5. QED BY <1>6, <2>3, <2>4 DEF Restart
<1>7. QED
  BY <1>1, <1>2, <1>3, <1>4, <1>5, <1>6, NextCases, ApartBeside

-----------------------------------------------------------------------------
(* Who is signed in is synchronised.                                       *)

LEMMA NotForgottenStep ==
  ASSUME Always, InTime, [Next]_vars, ~late'
  PROVE  NotForgotten'
<1>1. SUFFICES ASSUME SignedIn', op'.kind = "none", out'.pc = "idle", sync'.suspended
               PROVE  stored'.token = NoToken
  BY DEF NotForgotten
<1>2. SignedIn /\ op.kind = "none" /\ out.pc = "idle" /\ sync.suspended =>
        stored.token = NoToken
  BY StillInTime DEF Always, InTime, NotForgotten
<1>3. SignedIn => mem.account # None
  BY Names DEF InTime, Owned
<1>4. CASE Beside
  <2>1. op' = op
    BY <1>4, BesideOp
  <2>2. CASE \/ \E w \in Words : Write(w) \/ \E a \in Accounts : Elsewhere(w, a)
             \/ RefreshAtServer \/ RefreshReads \/ OtherStarts \/ OtherEnds
             \/ StartRun \/ SyncAnswered \/ SyncMerges \/ SyncFails
    <3>1. UNCHANGED <<stored, mem, out>> /\ sync'.suspended = sync.suspended
      BY <2>2, Types DEF Always, SyncType, Ended, Write, Elsewhere, RefreshAtServer,
         RefreshReads, OtherStarts, OtherEnds, StartRun, SyncAnswered, SyncMerges, SyncFails
    <3>2. QED BY <1>1, <1>2, <2>1, <3>1 DEF SignedIn
  <2>3. CASE SyncRefused \/ OtherRefused \/ LogoutRefused
    <3>1. CASE UNCHANGED mem
      <4>1. UNCHANGED stored /\ sync'.suspended = sync.suspended /\ (out' = out \/ out'.pc = "waiting")
        BY <2>3, <3>1, <1>1, Types, Constants
           DEF Always, InTime, SyncType, OutType, SyncRefused, OtherRefused, LogoutRefused, SignedIn
      <4>2. QED BY <1>1, <1>2, <2>1, <3>1, <4>1 DEF SignedIn
    <3>2. CASE mem' = SignedOut
      BY <1>1, <3>2, Constants DEF SignedIn
    <3>3. QED BY <2>3, <3>1, <3>2 DEF SyncRefused, OtherRefused, LogoutRefused
  <2>4. CASE SignOut \/ Logout \/ LogoutEnds
    BY <1>1, <2>4, Types DEF Always, OutType, SignOut, Logout, LogoutEnds, NoSignOut, Clearing
  <2>5. CASE LogoutClears
    BY <2>5, Constants DEF LogoutClears
  <2>6. QED BY <1>4, <2>2, <2>3, <2>4, <2>5 DEF Beside
<1>5. CASE RefreshGranted
  <2>1. /\ UNCHANGED mem /\ sync'.suspended = sync.suspended
        /\ op'.kind = op.kind /\ (out'.pc = out.pc \/ out'.pc = "again")
    BY <1>5, Types DEF Always, InTime, SyncType, OpType, OutType, RefreshGranted, Again
  <2>2. stored.token # NoToken
    BY <1>5, SavedInTime
  <2>3. QED BY <1>1, <1>2, <2>1, <2>2 DEF SignedIn
<1>6. CASE RefreshRejected
  BY <1>6, Constants DEF RefreshRejected
<1>7. CASE RefreshLost
  <2>1. UNCHANGED <<mem, stored>>
    BY <1>7 DEF RefreshLost
  <2>2. PICK s : s = IF op.pc = "waiting" THEN Awake ELSE sync
    OBVIOUS
  <2>3. WaitersFail(s) /\ s \in SyncType
    BY <1>7, <2>2, Types, AwakeTypes DEF Always, InTime, RefreshLost
  <2>4. sync'.suspended = s.suspended
    BY <2>3, RunEnds DEF WaitersFail
  <2>5. op.pc # "waiting"
    BY <1>1, <1>3, <2>1, <2>2, <2>4, AwakeFor DEF SignedIn
  <2>6. op' = op /\ (out' = out \/ out'.pc = "clear")
    BY <2>3, <2>5, Types DEF Always, WaitersFail, OutType, NoSignOut, Clearing
  <2>7. QED BY <1>1, <1>2, <2>1, <2>2, <2>4, <2>5, <2>6 DEF SignedIn
<1>8. CASE SignIn \/ Delete \/ ChangePassword
  <2>1. op'.kind \in {"signIn", "delete", "password"}
    BY <1>8 DEF SignIn, Delete, ChangePassword, Begin, NoOp
  <2>2. QED BY <1>1, <2>1
<1>9. CASE \/ (\E a \in Accounts : Authenticated(a)) \/ ActivateNotebook \/ CommitSession
           \/ RunRequest \/ RunAnswered
  <2>1. op'.kind = op.kind /\ op.kind # "none"
    BY <1>9, KindOf DEF OpType, Authenticated, ActivateNotebook, CommitSession, RunRequest,
       RunAnswered, Asking
  <2>2. QED BY <1>1, <2>1
<1>10. CASE Settle
  BY <1>1, <1>10, Types DEF Always, InTime, SyncType, Settle, Resumed
<1>11. CASE Rollback \/ SignInFails
  BY <1>1, <1>11, KindOf DEF Always, InTime, Session, Rollback, SignInFails, SignedIn
<1>12. CASE RunFails \/ WipeFails
  BY <1>1, <1>12, <1>3, AwakeFor DEF RunFails, WipeFails, SignedIn
<1>13. CASE RunRefused
  <2>1. CASE op' = [op EXCEPT !.pc = "waiting"]
    BY <1>1, <1>13, <2>1, KindOf DEF RunRefused, OpType
  <2>2. CASE mem' = SignedOut
    BY <1>1, <2>2, Constants DEF SignedIn
  <2>3. QED BY <1>13, <2>1, <2>2 DEF RunRefused
<1>14. CASE ClearAfter
  BY <1>14, Constants DEF ClearAfter
<1>15. CASE Wipe
  BY <1>1, <1>15, Constants DEF Wipe, SignedIn
<1>16. CASE Restart
  <2>1. stored.token = NoToken \/ stored.owner = None
    BY <1>1, <1>16, Constants DEF Restart, Asleep
  <2>2. stored.token # NoToken => stored.owner \in Accounts
    BY DEF Always, InTime, Session, Owned
  <2>3. QED BY <1>16, <2>1, <2>2, Names DEF Restart
<1>17. CASE UNCHANGED vars
  BY <1>1, <1>2, <1>17 DEF vars, SignedIn
<1>18. QED
  BY <1>4, <1>5, <1>6, <1>7, <1>8, <1>9, <1>10, <1>11, <1>12, <1>13, <1>14, <1>15, <1>16,
     <1>17, NextCases DEF Waiters

-----------------------------------------------------------------------------
(* Deletion.                                                               *)

\* The notebook stays open, and its archive is what it was.
LEMMA ArchivedKept ==
  ASSUME Always, UNCHANGED archive, book'.owner = book.owner, book.words \subseteq book'.words,
         server.deleted \subseteq server'.deleted, Gone' => Gone \/ server'.deleted # {},
         Adopting' => Adopting
  PROVE  Archived'
<1>1. Gone' => server'.deleted # {}
  BY DEF Always, Archived
<1>2. server'.deleted = {} => server.deleted = {}
  OBVIOUS
<1>3. QED BY <1>1, <1>2 DEF Always, Archived

\* A notebook that is opened has all that was archived with it.
LEMMA ArchivedActivated ==
  ASSUME Always, NEW a \in Accounts, Activated(a), UNCHANGED server, ~Gone',
         Adopting' => book.owner = None
  PROVE  Archived'
<1>1. SUFFICES ASSUME server.deleted = {}
               PROVE  /\ book'.owner = a /\ archive'[a] \subseteq book'.words
                      /\ Adopting' => \A b \in Accounts : archive'[b] = {}
  BY Names DEF Archived
<1>2. /\ book.owner = a => archive[a] \subseteq book.words
      /\ book.owner = None => \A b \in Accounts : archive[b] = {}
  BY <1>1 DEF Always, Archived
<1>3. CASE book.owner \in {a, None}
  <2>1. book'.owner = a /\ book'.words = book.words /\ UNCHANGED archive
    BY <1>3, Types, Names DEF Always, Activated, BookType
  <2>2. QED BY <1>2, <1>3, <2>1
<1>4. CASE book.owner \notin {a, None}
  <2>1. PICK from : from = book.owner
    OBVIOUS
  <2>2. /\ from \in Accounts /\ from # a
        /\ archive' = [archive EXCEPT ![from] = book.words]
        /\ book'.owner = a /\ book'.words = archive[a]
    BY <1>4, <2>1, WordTypes, Names DEF Always, Activated
  <2>3. archive'[a] = archive[a]
    BY <2>2, Types DEF Always
  <2>4. QED BY <1>4, <2>2, <2>3
<1>5. QED BY <1>3, <1>4

LEMMA ArchivedStep ==
  ASSUME Always, [Next]_vars
  PROVE  Archived'
<1>1. CASE Beside
  <2>1. (Gone' <=> Gone) /\ (Adopting' <=> Adopting)
    BY <1>1, BesideOp DEF Gone, Adopting
  <2>2. UNCHANGED archive /\ book'.owner = book.owner /\ book.words \subseteq book'.words
    BY <1>1, Types DEF Always, BookType, Beside, Write, Elsewhere, RefreshAtServer, RefreshReads,
       StartRun, SyncAnswered, SyncRefused, SyncMerges, SyncFails, OtherStarts, OtherRefused, OtherEnds,
       SignOut, Logout, LogoutEnds, LogoutRefused, LogoutClears
  <2>3. server'.deleted = server.deleted
    BY <1>1, Types DEF Always, ServerType, Beside, Write, Elsewhere, RefreshAtServer, RefreshReads,
       StartRun, SyncAnswered, SyncRefused, SyncMerges, SyncFails, OtherStarts, OtherRefused, OtherEnds,
       SignOut, Logout, LogoutEnds, LogoutRefused, LogoutClears
  <2>4. QED BY <2>1, <2>2, <2>3, ArchivedKept
<1>2. CASE Waiters
  <2>1. (Gone' => Gone) /\ (Adopting' => Adopting)
    BY <1>2, WaitersOp, KindOf DEF Gone, Adopting, OpType, NoOp
  <2>2. UNCHANGED <<archive, book, server>>
    BY <1>2 DEF Waiters, RefreshGranted, RefreshRejected, RefreshLost
  <2>3. QED BY <2>1, <2>2, ArchivedKept
<1>3. CASE \/ SignIn \/ Delete \/ ChangePassword \/ Settle \/ SignInFails \/ WipeFails
  <2>1. op'.pc = "suspend" \/ op'.pc = "idle"
    <3>1. CASE SignIn \/ Delete \/ ChangePassword
      BY <3>1 DEF SignIn, Delete, ChangePassword, Begin, NoOp
    <3>2. CASE Settle \/ SignInFails \/ WipeFails
      BY <3>2 DEF Settle, SignInFails, WipeFails, NoOp
    <3>3. QED BY <1>3, <3>1, <3>2
  <2>2. UNCHANGED <<archive, book, server>>
    BY <1>3 DEF SignIn, Delete, ChangePassword, Begin, Settle, SignInFails, WipeFails
  <2>3. QED BY <2>1, <2>2, ArchivedKept DEF Gone, Adopting
<1>4. CASE (\E a \in Accounts : Authenticated(a)) \/ RunRequest \/ RunRefused
  <2>1. op'.pc \in {"activate", "request", "waiting", "idle"}
    <3>1. CASE \E a \in Accounts : Authenticated(a)
      BY <3>1, KindOf DEF OpType, Authenticated
    <3>2. CASE RunRequest \/ RunRefused
      BY <3>2, KindOf DEF OpType, RunRequest, RunRefused, NoOp
    <3>3. QED BY <1>4, <3>1, <3>2
  <2>2. UNCHANGED <<archive, book>> /\ server'.deleted = server.deleted
    BY <1>4, Types DEF Always, ServerType, Authenticated, RunRequest, RunRefused
  <2>3. QED BY <2>1, <2>2, ArchivedKept DEF Gone, Adopting
<1>5. CASE CommitSession
  <2>1. op'.pc \in {"settle", "rollback"} /\ op'.from = op.from /\ op.pc = "commit"
    BY <1>5, KindOf DEF OpType, CommitSession
  <2>2. UNCHANGED <<archive, book, server>>
    BY <1>5 DEF CommitSession
  <2>3. QED BY <2>1, <2>2, ArchivedKept DEF Gone, Adopting
<1>6. CASE ClearAfter
  <2>1. (Gone' => Gone) /\ ~Adopting'
    BY <1>6, KindOf DEF OpType, ClearAfter, Gone, Adopting, NoOp
  <2>2. UNCHANGED <<archive, book, server>>
    BY <1>6 DEF ClearAfter
  <2>3. QED BY <2>1, <2>2, ArchivedKept
<1>7. CASE RunAnswered \/ RunFails
  <2>1. PICK a : a = stored.token.account
    OBVIOUS
  <2>2. server' = server \/ server' = Revoked(a)
    BY <1>7, <2>1 DEF RunAnswered, RunFails
  <2>3. server.deleted \subseteq server'.deleted
    BY <2>2, Types DEF Always, Revoked, ServerType
  <2>4. UNCHANGED <<archive, book>>
    BY <1>7 DEF RunAnswered, RunFails
  <2>5. ~Adopting'
    BY <1>7, KindOf DEF Adopting, OpType, NoOp, RunAnswered, RunFails
  <2>6. Gone' => server'.deleted # {}
    <3>1. CASE RunFails
      BY <3>1 DEF RunFails, Gone, NoOp
    <3>2. CASE RunAnswered
      <4>1. op'.pc = "clear" /\ op'.kind = op.kind /\ server' = Revoked(a) /\ a # None
        BY <2>1, <3>2, KindOf DEF RunAnswered, OpType
      <4>2. a \in Accounts
        BY <2>1, <4>1, Types DEF Always, StoredType, Token, Owner
      <4>3. op.kind = "delete" => a \in server'.deleted
        BY <4>1, <4>2, Types DEF Always, Revoked, ServerType
      <4>4. QED BY <4>1, <4>2, <4>3 DEF Gone
    <3>3. QED BY <1>7, <3>1, <3>2
  <2>7. QED BY <2>3, <2>4, <2>5, <2>6, ArchivedKept
<1>8. CASE ActivateNotebook
  <2>1. PICK a : a = op.token.account
    OBVIOUS
  <2>2. a \in Accounts /\ Activated(a) /\ UNCHANGED server
    BY <1>8, <2>1 DEF Always, Session, ActivateNotebook
  <2>3. op'.pc = "commit" /\ op'.from = book.owner
    BY <1>8, KindOf DEF ActivateNotebook, OpType
  <2>4. QED BY <2>2, <2>3, ArchivedActivated DEF Gone, Adopting
<1>9. CASE Rollback
  <2>1. op' = NoOp /\ UNCHANGED server /\ op.pc = "rollback" /\ ~Gone' /\ ~Adopting'
    BY <1>9 DEF Rollback, Gone, Adopting, NoOp
  <2>2. CASE UNCHANGED <<book, archive>>
    BY <2>1, <2>2, ArchivedKept
  <2>3. CASE Activated(op.from) /\ op.from = None
    <3>1. book'.owner = None /\ UNCHANGED archive
      BY <2>3, Types DEF Always, Activated, BookType
    <3>2. server.deleted = {} => \A a \in Accounts : archive[a] = {}
      BY <2>1, <2>3 DEF Always, Archived, Adopting
    <3>3. QED BY <2>1, <3>1, <3>2, Names DEF Archived
  <2>4. CASE Activated(op.from) /\ op.from # None
    <3>1. PICK a : a = op.from
      OBVIOUS
    <3>2. a \in Accounts
      BY <2>4, <3>1, Types DEF Always, OpType, Owner
    <3>3. QED BY <2>1, <2>4, <3>1, <3>2, ArchivedActivated
  <2>5. QED BY <1>9, <2>2, <2>3, <2>4 DEF Rollback
<1>10. CASE Wipe
  <2>1. server.deleted # {}
    BY <1>10 DEF Always, Archived, Gone, Wipe
  <2>2. UNCHANGED server /\ ~Gone'
    BY <1>10 DEF Wipe, Gone, NoOp
  <2>3. QED BY <2>1, <2>2 DEF Archived
<1>11. CASE Restart
  <2>1. UNCHANGED server /\ ~Gone' /\ ~Adopting'
    BY <1>11 DEF Restart, Gone, Adopting, NoOp
  <2>2. CASE UNCHANGED <<book, archive>>
    BY <2>1, <2>2, ArchivedKept
  <2>3. CASE stored.owner # None /\ Activated(stored.owner)
    <3>1. PICK a : a = stored.owner
      OBVIOUS
    <3>2. a \in Accounts
      BY <2>3, <3>1, Types DEF Always, StoredType, Owner
    <3>3. QED BY <2>1, <2>3, <3>1, <3>2, ArchivedActivated
  <2>4. QED BY <1>11, <2>2, <2>3 DEF Restart
<1>12. CASE UNCHANGED vars
  BY <1>12, ArchivedKept DEF vars, Gone, Adopting
<1>13. QED
  BY <1>1, <1>2, <1>3, <1>4, <1>5, <1>6, <1>7, <1>8, <1>9, <1>10, <1>11, <1>12, NextCases

\* Nothing but the deletion itself brings a wipe about, and until then the
\* notebook stays open.
LEMMA GoneStep ==
  ASSUME Always, [Next]_vars, Gone'
  PROVE  \/ RunAnswered /\ op.kind = "delete"
         \/ Gone /\ book'.owner = book.owner /\ server'.deleted = server.deleted
<1>1. CASE Beside
  <2>1. Gone
    BY <1>1, BesideOp DEF Gone
  <2>2. book'.owner = book.owner
    BY <1>1, Types DEF Always, BookType, Beside, Write, Elsewhere, RefreshAtServer,
       RefreshReads, StartRun, SyncAnswered, SyncRefused, SyncMerges, SyncFails, OtherStarts,
       OtherRefused, OtherEnds, SignOut, Logout, LogoutEnds, LogoutRefused, LogoutClears
  <2>3. server'.deleted = server.deleted
    BY <1>1, Types DEF Always, ServerType, Beside, Write, Elsewhere, RefreshAtServer,
       RefreshReads, StartRun, SyncAnswered, SyncRefused, SyncMerges, SyncFails, OtherStarts,
       OtherRefused, OtherEnds, SignOut, Logout, LogoutEnds, LogoutRefused, LogoutClears
  <2>4. QED BY <2>1, <2>2, <2>3
<1>2. CASE Waiters
  <2>1. Gone
    BY <1>2, WaitersOp, KindOf DEF Gone, OpType, NoOp
  <2>2. UNCHANGED <<book, server>>
    BY <1>2 DEF Waiters, RefreshGranted, RefreshRejected, RefreshLost
  <2>3. QED BY <2>1, <2>2
<1>3. CASE ClearAfter \/ UNCHANGED vars
  <2>1. Gone
    BY <1>3, KindOf DEF Gone, OpType, NoOp, ClearAfter, vars
  <2>2. UNCHANGED <<book, server>>
    BY <1>3 DEF ClearAfter, vars
  <2>3. QED BY <2>1, <2>2
<1>4. CASE RunAnswered
  <2>1. op'.kind = op.kind /\ op'.pc = "clear"
    BY <1>4, KindOf DEF RunAnswered, OpType
  <2>2. QED BY <1>4, <2>1 DEF Gone
<1>5. CASE SignIn \/ Delete \/ ChangePassword
  BY <1>5 DEF Gone, SignIn, Delete, ChangePassword, Begin, NoOp
<1>6. CASE \/ Settle \/ Rollback \/ SignInFails \/ RunFails \/ Wipe \/ WipeFails \/ Restart
  BY <1>6 DEF Gone, Settle, Rollback, SignInFails, RunFails, Wipe, WipeFails, Restart, NoOp
<1>7. CASE (\E a \in Accounts : Authenticated(a)) \/ ActivateNotebook
  BY <1>7, KindOf DEF Gone, OpType, Authenticated, ActivateNotebook
<1>8. CASE CommitSession \/ RunRequest \/ RunRefused
  BY <1>8, KindOf DEF Gone, OpType, CommitSession, RunRequest, RunRefused, NoOp
<1>9. QED BY <1>1, <1>2, <1>3, <1>4, <1>5, <1>6, <1>7, <1>8, NextCases

LEMMA WipingStep ==
  ASSUME Always, InTime, [Next]_vars
  PROVE  Wiping'
<1>1. SUFFICES ASSUME Gone' PROVE book'.owner \in server'.deleted
  BY DEF Wiping
<1>2. CASE RunAnswered /\ op.kind = "delete"
  <2>1. PICK a : a = stored.token.account
    OBVIOUS
  <2>2. server' = Revoked(a) /\ a # None /\ UNCHANGED book
    BY <1>2, <2>1 DEF RunAnswered
  <2>3. a = book.owner
    BY <2>1, <2>2, Constants DEF InTime, Owned
  <2>4. a \in server'.deleted
    BY <1>2, <2>2, Types DEF Always, Revoked, ServerType
  <2>5. QED BY <2>2, <2>3, <2>4
<1>3. CASE Gone /\ book'.owner = book.owner /\ server'.deleted = server.deleted
  BY <1>3 DEF InTime, Wiping
<1>4. QED BY <1>1, <1>2, <1>3, GoneStep

-----------------------------------------------------------------------------
(* The invariant.                                                          *)

LEMMA InitInv == Init => IInv
<1>1. SUFFICES ASSUME Init PROVE IInv
  OBVIOUS
<1>2. TypeOK /\ Answered
  BY <1>1, TypesInit DEF TypeInv
<1>3. Kinds /\ Session /\ NotForgotten
  BY <1>1, Constants DEF Init, Kinds, Session, NotForgotten, NoSession, NoRefresh, NoOp, SignedIn
<1>4. Syncing /\ Sent
  BY <1>1 DEF Init, Syncing, Sent, Asleep, NoOp
<1>5. Owned
  BY <1>1, Constants DEF Init, Owned, NoSession, NoOp, SignedIn
<1>6. (\A a \in Accounts : Kept(a) = {} /\ archive[a] = {}) /\ book.words = {} /\ op = NoOp
  BY <1>1 DEF Init, Kept
<1>7. Apart /\ Given /\ Archived /\ Wiping
  BY <1>6 DEF Apart, Given, Archived, Wiping, Adopting, Gone, NoOp
<1>8. QED BY <1>2, <1>3, <1>4, <1>5, <1>7 DEF IInv, Always, InTime

LEMMA NextStep == IInv /\ [Next]_vars => IInv'
<1>1. SUFFICES ASSUME IInv, [Next]_vars PROVE IInv'
  OBVIOUS
<1>2. Always /\ TypeInv
  BY <1>1 DEF IInv, Always, TypeInv
<1>3. Always'
  <2>1. TypeOK' /\ Answered'
    BY <1>1, <1>2, TypesNextStep DEF TypeInv
  <2>2. Kinds' /\ Session' /\ Syncing' /\ Archived'
    BY <1>1, <1>2, KindsStep, SessionStep, SyncingStep, ArchivedStep
  <2>3. QED BY <2>1, <2>2 DEF Always
<1>4. ASSUME ~late' PROVE InTime'
  <2>1. InTime
    BY <1>1, <1>2, <1>4, StillInTime DEF IInv
  <2>2. Sent' /\ Owned' /\ Apart' /\ Given' /\ NotForgotten' /\ Wiping'
    BY <1>1, <1>2, <1>4, <2>1, SentStep, OwnedStep, ApartStep, NotForgottenStep, WipingStep
  <2>3. QED BY <2>2 DEF InTime
<1>5. QED BY <1>3, <1>4 DEF IInv

LEMMA Inductive == Spec => []IInv
BY InitInv, NextStep, PTL DEF Spec

(***************************************************************************)
(* No word written in one account's notebook is in another's, open,        *)
(* archived or on the server, and none that nobody owned goes to two: until *)
(* a refresh is saved after its session has ended.                         *)
(***************************************************************************)
THEOREM NotebooksKeptApart == Spec => []KeptApart
<1>1. IInv => KeptApart
  BY DEF IInv, InTime, Apart, Kept, KeptApart, SeparateNotebooks
<1>2. QED BY <1>1, Inductive, PTL

(***************************************************************************)
(* A run uploads and merges the notebook of the account it runs for,       *)
(* whatever a refresh does; it does so under that account's token, and the *)
(* keychain holds nobody's tokens as a session of another, until a refresh *)
(* is saved after its session has ended.                                   *)
(***************************************************************************)
THEOREM TokensAndRunsOfOne == Spec => []OneAccount
<1>1. IInv => OneAccount
  <2>1. SUFFICES ASSUME IInv PROVE OneAccount
    OBVIOUS
  <2>2. sync.run # "idle" => sync.account = book.owner
    BY <2>1 DEF IInv, Always, Syncing
  <2>3. ~late => (stored.token # NoToken => stored.owner = stored.token.account)
    BY <2>1 DEF IInv, InTime, Owned
  <2>4. ~late => (sync.run # "idle" => sync.by \in {None, book.owner})
    BY <2>1 DEF IInv, Always, Syncing, InTime, Sent
  <2>5. QED BY <2>2, <2>3, <2>4 DEF OneAccount
<1>2. QED BY <1>1, Inductive, PTL

(***************************************************************************)
(* Who is signed in, with nothing under way, is synchronised, unless a     *)
(* sign-out that failed has cleared the tokens, or a refresh was saved     *)
(* after its session had ended.                                            *)
(***************************************************************************)
THEOREM NobodyForgotten == Spec => []NotForgotten
<1>1. IInv => NotForgotten
  BY DEF IInv, InTime, NotForgotten
<1>2. QED BY <1>1, Inductive, PTL

-----------------------------------------------------------------------------
(* What leaves the device.                                                 *)

LEMMA NothingLeaves ==
  ASSUME UNCHANGED archive, book.words \subseteq book'.words
  PROVE  OnDevice \subseteq OnDevice'
BY DEF OnDevice

\* A notebook is archived over words it does not have only after a deletion.
LEMMA LeavesActivated ==
  ASSUME Always, NEW a \in Accounts, Activated(a), NEW w \in OnDevice, w \notin OnDevice'
  PROVE  server.deleted # {} /\ book.owner # a
<1>1. CASE book.owner \in {a, None}
  <2>1. book'.words = book.words /\ UNCHANGED archive
    BY <1>1, Types, Names DEF Always, Activated, BookType
  <2>2. QED BY <2>1, NothingLeaves
<1>2. CASE book.owner \notin {a, None}
  <2>1. PICK from : from = book.owner
    OBVIOUS
  <2>2. /\ from \in Accounts /\ from # a
        /\ archive' = [archive EXCEPT ![from] = book.words]
    BY <1>2, <2>1, WordTypes, Names DEF Always, Activated
  <2>3. \A b \in Accounts : archive'[b] = IF b = from THEN book.words ELSE archive[b]
    BY <2>2, Types DEF Always
  <2>4. w \notin book.words
    BY <2>2, <2>3 DEF OnDevice
  <2>5. PICK b \in Accounts : w \in archive[b]
    BY <2>4 DEF OnDevice
  <2>6. b = from
    BY <2>3, <2>5 DEF OnDevice
  <2>7. QED BY <2>1, <2>2, <2>4, <2>5, <2>6 DEF Always, Archived
<1>3. QED BY <1>1, <1>2

LEMMA LeavesStep ==
  ASSUME Always, [Next]_vars, NEW w \in OnDevice, w \notin OnDevice'
  PROVE  /\ server.deleted # {}
         /\ op.pc = "wipe" /\ InTime => home[w] \in server.deleted \cup {Guest}
<1>1. CASE \/ Waiters \/ SignIn \/ (\E a \in Accounts : Authenticated(a)) \/ CommitSession
           \/ Settle \/ SignInFails \/ Delete \/ ChangePassword \/ RunRequest \/ RunRefused
           \/ ClearAfter \/ WipeFails \/ RunAnswered \/ RunFails \/ UNCHANGED vars
  <2>1. UNCHANGED <<book, archive>>
    BY <1>1 DEF Waiters, RefreshGranted, RefreshRejected, RefreshLost,
       SignIn, Begin, Authenticated, CommitSession, Settle, SignInFails, Delete,
       ChangePassword, RunRequest, RunRefused, ClearAfter, WipeFails, RunAnswered, RunFails, vars
  <2>2. QED BY <2>1, NothingLeaves
<1>2. CASE Beside
  <2>1. UNCHANGED archive /\ book.words \subseteq book'.words
    BY <1>2, Types DEF Always, BookType, Beside, Write, Elsewhere, RefreshAtServer, RefreshReads,
       StartRun, SyncAnswered, SyncRefused, SyncMerges, SyncFails, OtherStarts, OtherRefused, OtherEnds,
       SignOut, Logout, LogoutEnds, LogoutRefused, LogoutClears
  <2>2. QED BY <2>1, NothingLeaves
<1>3. CASE ActivateNotebook
  <2>1. PICK a : a = op.token.account
    OBVIOUS
  <2>2. a \in Accounts /\ Activated(a) /\ op.pc # "wipe"
    BY <1>3, <2>1 DEF Always, Session, ActivateNotebook
  <2>3. QED BY <2>2, LeavesActivated
<1>4. CASE Rollback
  <2>1. op.pc # "wipe"
    BY <1>4 DEF Rollback
  <2>2. CASE UNCHANGED <<book, archive>>
    BY <2>2, NothingLeaves
  <2>3. CASE Activated(op.from)
    <3>1. CASE op.from = None
      <4>1. book'.words = book.words /\ UNCHANGED archive
        BY <2>3, <3>1, Types DEF Always, Activated, BookType
      <4>2. QED BY <4>1, NothingLeaves
    <3>2. CASE op.from # None
      <4>1. PICK a : a = op.from
        OBVIOUS
      <4>2. a \in Accounts
        BY <3>2, <4>1, Types DEF Always, OpType, Owner
      <4>3. QED BY <2>1, <2>3, <4>1, <4>2, LeavesActivated
    <3>3. QED BY <3>1, <3>2
  <2>4. QED BY <1>4, <2>2, <2>3 DEF Rollback
<1>5. CASE Wipe
  <2>1. server.deleted # {}
    BY <1>5 DEF Always, Archived, Gone, Wipe
  <2>2. ASSUME InTime PROVE home[w] \in server.deleted \cup {Guest}
    <3>1. book.owner \in server.deleted /\ book.owner \in Accounts
      BY <1>5, <2>2, Types DEF Always, InTime, Wiping, Gone, Wipe, ServerType
    <3>2. w \in book.words \/ w \in archive[book.owner]
      BY <1>5 DEF Wipe, Wiped, OnDevice
    <3>3. home[w] \in {book.owner, Guest}
      BY <2>2, <3>1, <3>2 DEF InTime, Apart, Kept
    <3>4. QED BY <3>1, <3>3
  <2>3. QED BY <2>1, <2>2
<1>6. CASE Restart
  <2>1. CASE UNCHANGED <<book, archive>>
    BY <2>1, NothingLeaves
  <2>2. CASE stored.token # NoToken /\ stored.owner # None /\ Activated(stored.owner)
    <3>1. PICK a : a = stored.owner
      OBVIOUS
    <3>2. a \in Accounts
      BY <2>2, <3>1, Types DEF Always, StoredType, Owner
    <3>3. op.pc # "wipe" \/ ~InTime
      BY <2>2 DEF InTime, Owned
    <3>4. QED BY <2>2, <3>1, <3>2, <3>3, LeavesActivated
  <2>3. QED BY <1>6, <2>1, <2>2 DEF Restart
<1>7. QED BY <1>1, <1>2, <1>3, <1>4, <1>5, <1>6, NextCases

(***************************************************************************)
(* A word leaves the device only after a deletion the server carried out,  *)
(* and the wipe takes nothing of an account that still exists (unless a    *)
(* refresh was saved after its session had ended); until the first         *)
(* deletion an account that comes back finds its archive.  Neither a kill  *)
(* nor a sign-in that fails loses what was not sent.                       *)
(***************************************************************************)
THEOREM WordsSurvive == Spec => Survives
<1>1. IInv /\ IInv' /\ [Next]_vars =>
        [ /\ \A w \in OnDevice \ OnDevice' :
               /\ server.deleted # {}
               /\ op.pc = "wipe" /\ ~late => home[w] \in server.deleted \cup {Guest}
          /\ server'.deleted = {} => ArchiveComesBack' ]_vars
  <2>1. SUFFICES ASSUME IInv, IInv', [Next]_vars
                 PROVE  /\ \A w \in OnDevice \ OnDevice' :
                             /\ server.deleted # {}
                             /\ op.pc = "wipe" /\ ~late =>
                                  home[w] \in server.deleted \cup {Guest}
                        /\ server'.deleted = {} => ArchiveComesBack'
    OBVIOUS
  <2>2. \A w \in OnDevice \ OnDevice' :
          /\ server.deleted # {}
          /\ op.pc = "wipe" /\ ~late => home[w] \in server.deleted \cup {Guest}
    BY <2>1, LeavesStep DEF IInv
  <2>3. server'.deleted = {} => ArchiveComesBack'
    BY <2>1 DEF IInv, Always, Archived, ArchiveComesBack
  <2>4. QED BY <2>2, <2>3
<1>2. QED BY <1>1, Inductive, PTL DEF Spec, Survives
=============================================================================
