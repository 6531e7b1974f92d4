----------------------------- MODULE WordTexts -----------------------------
(***************************************************************************)
(* The texts of a word.  The app tidies what the user typed before it      *)
(* saves a word; the server checks and tidies what it is sent, refuses the *)
(* word or stores it, and sends it back as stored.  WordVersions and       *)
(* WordSync take the two to agree: there a word is its version.            *)
(*                                                                         *)
(* An optional text is a list of one text or of none.                      *)
(***************************************************************************)
EXTENDS TypedText

CONSTANTS
  Codes,                    \* of the parts of speech
  MaxWord, MaxText,         \* 512, 1024
  MaxItem, MaxList          \* 1024, 25

ASSUME WordTextsAssumption ==
  /\ {MaxWord, MaxItem} \subseteq Nat \ {0} /\ {MaxText, MaxList} \subseteq Nat
  /\ \A c \in Codes : c \in Seq(Characters) \ {<<>>} /\ Trim(c) = c

-----------------------------------------------------------------------------
\* Trimmed, and without the blank ones.
Present(list) ==
  Without([i \in DOMAIN list |-> Trim(list[i])], {<<>>})

\* Mutant: the lists are kept as they were typed.
SaveUncleaned(form) ==
  [form EXCEPT !.word = Trim(@), !.meaning = Trim(@),
               !.pronunciation = Present(@), !.source = Present(@)]

\* The app: a new word, or an edited one.
Save(form) ==
  [form EXCEPT !.word = Trim(@), !.meaning = Trim(@),
               !.pronunciation = Present(@), !.source = Present(@),
               !.examples = Present(@), !.tags = Present(@)]

\* Mutant: blank items are dropped before they are trimmed.
NormaliseOnce(list) ==
  LET l == Without(list, {<<>>}) IN
  [i \in 1 .. Min({Len(l), MaxList}) |->
    SubSeq(Trim(l[i]), 1, Min({Len(Trim(l[i])), MaxItem}))]

\* The server: a list is cut where other texts are refused.
NormaliseList(list) ==
  LET l == Present(list) IN
  [i \in 1 .. Min({Len(l), MaxList}) |-> SubSeq(l[i], 1, Min({Len(l[i]), MaxItem}))]

WordText(t) == Len(Trim(t)) \in 1 .. MaxWord
OptionalText(o) == \A t \in ToSet(o) : Len(Trim(t)) <= MaxText
PartOfSpeech(o) == ToSet(Present(o)) \subseteq Codes

Valid(payload) ==
  /\ WordText(payload.word) /\ WordText(payload.meaning)
  /\ OptionalText(payload.pronunciation) /\ OptionalText(payload.source)
  /\ PartOfSpeech(payload.part)

\* What is stored and sent back, if anything.
IntoDomain(payload) ==
  IF Valid(payload)
  THEN << [payload EXCEPT
             !.word = Trim(@), !.meaning = Trim(@), !.part = Present(@),
             !.pronunciation = Present(@), !.source = Present(@),
             !.examples = NormaliseList(@), !.tags = NormaliseList(@)] >>
  ELSE <<>>
=============================================================================
