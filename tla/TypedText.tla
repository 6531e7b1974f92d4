----------------------------- MODULE TypedText -----------------------------
(***************************************************************************)
(* A text that a user types, character by character, and what the app and  *)
(* the server do with every text: cut the blanks off its ends.             *)
(*                                                                         *)
(* A text is a sequence of characters.  Of characters that are treated     *)
(* alike one stands for all: "A" and "a" for the letters, a dot for the    *)
(* marks in a phone, and "~" for the space that does not break a line,     *)
(* which only some of the functions know.                                  *)
(***************************************************************************)
EXTENDS Naturals, FiniteSetsExt, SequencesExt

CONSTANTS
  Characters,
  MaxTyped      \* bound: characters

VARIABLE raw    \* what is typed

-----------------------------------------------------------------------------
Trim(s) ==
  LET I == { i \in DOMAIN s : s[i] \notin {" ", "~"} }
  IN IF I = {} THEN <<>> ELSE SubSeq(s, Min(I), Max(I))

After(s, n) == SubSeq(s, n + 1, Len(s))

\* s without what is in C.
Without(s, C) ==
  LET W[n \in 0 .. Len(s)] ==
        IF n = 0 THEN <<>>
        ELSE IF s[n] \in C THEN W[n - 1] ELSE Append(W[n - 1], s[n])
  IN  W[Len(s)]

Init == raw = <<>>
Type(c) == Len(raw) < MaxTyped /\ raw' = Append(raw, c)
Next == \E c \in Characters : Type(c)

Spec == Init /\ [][Next]_raw
=============================================================================
