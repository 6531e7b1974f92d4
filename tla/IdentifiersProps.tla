-------------------------- MODULE IdentifiersProps --------------------------
(***************************************************************************)
(* What sign-up and sign-in need of the identifiers people type.           *)
(***************************************************************************)
EXTENDS Identifiers

(***************************************************************************)
(* The identifier in an account, typed as it is stored, is that account's: *)
(* for one that was typed, and for one that came with a one-time code.     *)
(***************************************************************************)
StoredIsFound ==
  \A r \in {Parse(raw), VietnamPhone(raw)} : r # None => Parse(r.value) = r

(***************************************************************************)
(* One text is one phone, or is refused, wherever it is typed.             *)
(*  - "Without normalisation ... would be two different accounts": spacing *)
(*    a phone out, in any place, makes no other phone of it and no         *)
(*    address; nor do capitals make another address.                       *)
(*  - The country is not guessed differently to sign in with a code than   *)
(*    with a password.                                                     *)
(*  - "The shape is decided before validation", but every text that would  *)
(*    be a phone is taken for one - but for the space that does not break  *)
(*    a line, in the middle, which the shape does not know.                *)
(***************************************************************************)
SamePhone ==
  /\ Parse(raw).kind = "phone" =>
       \A i \in 1 .. Len(raw) + 1, c \in {" ", ".", "~"} :
         Parse(InsertAt(raw, i, c)) \in {Parse(raw), None}
  /\ Parse(Lower(raw)) = Parse(raw)
  /\ Parse(raw) # None /\ VietnamPhone(raw) # None => Parse(raw) = VietnamPhone(raw)
  /\ PhoneNumber(raw) # None /\ ~Contains(Trim(raw), "~") =>
       Parse(raw) = PhoneNumber(raw)

\* What the server has room for: the app counts other units, and has no
\* limit for the local part.
Fits(v) ==
  /\ Bytes(v) <= MaxEmail
  /\ Bytes(SubSeq(v, 1, SelectInSeq(v, LAMBDA c : c = "@") - 1)) <= MaxLocal

(***************************************************************************)
(* "The rules mirror Identifier::parse and PhoneNumber on the server": the *)
(* server reads what the app accepted and sends as the app read it, a      *)
(* phone for a one-time code as well, which is the phone the app reads     *)
(* beside a password.  An address is also read as it is, or refused, and   *)
(* it is refused exactly when it is too long for the server.               *)
(***************************************************************************)
AppAgrees ==
  LET r == DeviceParse(raw)
      p == DeviceVietnamPhone(raw) IN
  /\ r.kind = "phone" => Parse(r.value) = r
  /\ r.kind = "email" => Parse(r.value) = IF Fits(r.value) THEN r ELSE None
  /\ p # None => VietnamPhone(p.value) = p /\ r \in {p, None}
=============================================================================
