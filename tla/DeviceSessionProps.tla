------------------------- MODULE DeviceSessionProps -------------------------
(***************************************************************************)
(* What docs/account-feedback-rollout.md promises of accounts on a device: *)
(* "These are account-separated notebooks on one device".                  *)
(***************************************************************************)
EXTENDS DeviceSession

OnDevice == book.words \cup UNION { archive[a] : a \in Accounts }

(***************************************************************************)
(* Separate notebooks: no word written in one account's notebook is in     *)
(* another's, open, archived or on the server, and a word of the notebook  *)
(* nobody owned is uploaded to one account.                                *)
(***************************************************************************)
SeparateNotebooks ==
  \A w \in Words :
    /\ \A a \in Accounts :
         \/ w \in archive[a] \cup server.words[a]
         \/ w \in book.words /\ book.owner = a
         => home[w] \in {a, Guest}
    /\ \A a, b \in Accounts :
         w \in server.words[a] \cap server.words[b] => a = b

(***************************************************************************)
(* The notebooks are kept apart through every operation, failure and kill, *)
(* unless a shared refresh was saved after its session had ended.          *)
(***************************************************************************)
KeptApart == ~late => SeparateNotebooks

(***************************************************************************)
(* A run of the synchronisation reads, uploads and merges one notebook: as *)
(* long as it is under way, the open one is that of the account it runs    *)
(* for.  It is also that of the token that was sent, and the keychain      *)
(* entry holds no tokens of one account as the session of another          *)
(* (token_store.dart:4), unless a refresh outlived its session.            *)
(***************************************************************************)
OneAccount ==
  /\ sync.run # "idle" => sync.account = book.owner
  /\ ~late =>
       /\ stored.token # NoToken => stored.owner = stored.token.account
       /\ sync.run # "idle" => sync.by \in {None, book.owner}

(***************************************************************************)
(* Who is signed in, with nothing under way, is synchronised, unless a     *)
(* sign-out failed after it had cleared the tokens (and a late refresh has *)
(* not put others in their place).                                         *)
(***************************************************************************)
NotForgotten ==
  /\ SignedIn /\ op.kind = "none" /\ out.pc = "idle" /\ sync.suspended
  /\ ~late
  => stored.token = NoToken

\* An account that comes back finds the notebook archived for it.
ArchiveComesBack ==
  \A a \in Accounts : book.owner = a => archive[a] \subseteq book.words

(***************************************************************************)
(* Nothing disappears but what was deleted: a word leaves the device only  *)
(* after a deletion the server has carried out, the wipe takes nothing of  *)
(* an account that still exists (unless a refresh outlived its session),   *)
(* and until the first deletion an account that comes back finds the       *)
(* notebook archived for it.                                               *)
(***************************************************************************)
Survives ==
  [][ /\ \A w \in OnDevice \ OnDevice' :
           /\ server.deleted # {}
           /\ op.pc = "wipe" /\ ~late => home[w] \in server.deleted \cup {Guest}
      /\ server'.deleted = {} => ArchiveComesBack' ]_vars
=============================================================================
