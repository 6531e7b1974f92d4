--------------------------- MODULE WordTextsProps ---------------------------
(***************************************************************************)
(* What the sync needs of the texts of a word.                             *)
(***************************************************************************)
EXTENDS WordTexts

Cuts == { p \in (0 .. Len(raw)) \X (0 .. Len(raw)) : p[1] <= p[2] }

\* The typed text in three pieces, each in several places of a word.
\* "A" stands for all that is not blank.
Entry(p, all) ==
  LET a == SubSeq(raw, 1, p[1])
      b == SubSeq(raw, p[1] + 1, p[2])
      c == After(raw, p[2]) IN
  [word |-> a, meaning |-> b, pronunciation |-> <<c>>, part |-> <<c>>, source |-> <<b>>,
   examples |-> IF all THEN <<c, a, b>> ELSE <<c>>, tags |-> <<b, c>>]

Entries ==
  IF ToSet(raw) \subseteq {"A", " ", "~"}
  THEN UNION { {Entry(p, FALSE), Entry(p, TRUE)} : p \in Cuts } ELSE {}

Small(w) ==
  /\ Len(w.word) <= MaxWord /\ Len(w.meaning) <= MaxWord
  /\ \A t \in ToSet(w.pronunciation \o w.source) : Len(t) <= MaxText
  /\ \A t \in ToSet(w.examples \o w.tags) : Len(t) <= MaxItem
  /\ Len(w.examples) <= MaxList /\ Len(w.tags) <= MaxList

(***************************************************************************)
(* A word the editor lets the user save, with no text over the server's    *)
(* limits, is accepted, and the row that comes back and is written over    *)
(* the device's own is the same: the sync changes nothing the user wrote,  *)
(* and one row never makes the server refuse a batch.                      *)
(***************************************************************************)
SavedComesBack ==
  \A e \in Entries, part \in {<<>>} \cup { <<c>> : c \in Codes } :
    LET w == Save([e EXCEPT !.part = part]) IN
    w.word # <<>> /\ w.meaning # <<>> /\ Small(w) => IntoDomain(w) = <<w>>

(***************************************************************************)
(* Whatever was sent, an app of any age or a backup included: what the     *)
(* server stored it accepts again when a device edits the word and leaves  *)
(* the texts alone, and stores the same, unless it cut an item (and so may *)
(* have left a blank at its end).  Two devices do not keep rewriting a     *)
(* word.                                                                   *)
(***************************************************************************)
StoredSettles ==
  \A e \in Entries : \A w \in ToSet(IntoDomain(e)) :
    /\ IntoDomain(Save(w)) # <<>>
    /\ (\A t \in ToSet(e.examples \o e.tags) : Len(Trim(t)) <= MaxItem) =>
         IntoDomain(Save(w)) = <<w>>
=============================================================================
