--------------------------- MODULE WordVersions ---------------------------
(***************************************************************************)
(* The data the vocabulary sync moves around: versions of a word, ordered  *)
(* by the client clock that stamped them, and the two places that compare  *)
(* them - the server's conditional upsert and the client's merge.          *)
(*                                                                         *)
(* A word's text, meaning, tags and so on never decide anything in the     *)
(* protocol; all it looks at is `updated_at', so a version is its stamp,   *)
(* the device that wrote it (which tells apart two versions with one       *)
(* stamp) and the tombstone flag.  Stamp 0 stands for "no row".            *)
(***************************************************************************)
EXTENDS Naturals, FiniteSets

CONSTANTS
  Devices,  \* the phones signed in to one account
  Nobody    \* the author of the version that is not there

ASSUME NobodyAssumption == Nobody \notin Devices

Authors == Devices \cup {Nobody}

\* What travels: the fields of WordPayload the protocol looks at.
Version == [at : Nat, by : Authors, del : BOOLEAN]

\* A row of the server's table `words': a version and its sync_revision.
ServerRow == [at : Nat, by : Authors, del : BOOLEAN, rev : Nat]

\* A row of the device's SQLite table: a version and its is_dirty flag.
LocalRow == [at : Nat, by : Authors, del : BOOLEAN, dirty : BOOLEAN]

NoVersion == [at |-> 0, by |-> Nobody, del |-> FALSE]
NoServerRow == [at |-> 0, by |-> Nobody, del |-> FALSE, rev |-> 0]
NoLocalRow == [at |-> 0, by |-> Nobody, del |-> FALSE, dirty |-> FALSE]

Present(r) == r.at > 0

SameVersion(r, s) == r.at = s.at /\ r.by = s.by /\ r.del = s.del

\* Mutant: a tie lets the incoming version win.
SupersededOnTie(stored, incoming) == incoming.at >= stored.at

\* Last write wins, and a tie keeps the stored row.
SupersededBy(stored, incoming) == incoming.at > stored.at

\* Mutant: the local flag travels with the payload.
WholeRow(r) == r

AsVersion(r) == [at |-> r.at, by |-> r.by, del |-> r.del]

StoredAs(v, rev) == [at |-> v.at, by |-> v.by, del |-> v.del, rev |-> rev]

Clean(v) == [at |-> v.at, by |-> v.by, del |-> v.del, dirty |-> FALSE]

Unsent(t, d, del) == [at |-> t, by |-> d, del |-> del, dirty |-> TRUE]

\* Mutant: what the server sends always wins.
MergeServerWins(local, incoming) ==
  IF Present(incoming) THEN Clean(incoming) ELSE local

\* One iteration of mergeFromServer: an unsent edit is left alone, and so is
\* a clean row newer than what came in; anything else takes the incoming row.
MergeRow(local, incoming) ==
  IF \/ ~Present(incoming)
     \/ local.dirty
     \/ incoming.at < local.at
  THEN local
  ELSE Clean(incoming)

\* Mutant: a page in no particular order.
UnorderedBy(S, n, key) ==
  { P \in SUBSET S :
      Cardinality(P) = IF Cardinality(S) <= n THEN Cardinality(S) ELSE n }

\* The words a query with ORDER BY key LIMIT n may return from S: every
\* subset of that size no left-out word should have preceded.
FirstBy(S, n, key) ==
  { P \in SUBSET S :
      /\ Cardinality(P) = IF Cardinality(S) <= n THEN Cardinality(S) ELSE n
      /\ \A p \in P, q \in S \ P : key[p] <= key[q] }
=============================================================================
