---------------------------- MODULE Identifiers ----------------------------
(***************************************************************************)
(* What people type to sign up and to sign in - an e-mail address or a     *)
(* phone - and what the server makes of it.  Two spellings of one phone    *)
(* are one account; the identifier found in an account signs in to it; and *)
(* a phone typed for a one-time code is the phone typed with a password.   *)
(***************************************************************************)
EXTENDS TypedText

CONSTANTS
  Digits,
  Wide,                     \* characters of one byte more than UTF-16 units
  CountryCode,              \* 84
  MobileStart,              \* 3, 5, 7, 8, 9
  NationalLength,           \* 9
  MinDigits, MaxDigits,     \* 8, 15
  MaxEmail, MaxLocal        \* 254, 64

ASSUME IdentifierAssumption ==
  /\ Digits \cup {"+", " ", "~", ".", "@", "A"} \subseteq Characters
  /\ Digits \cap {"+", " ", "~", ".", "@", "A", "a"} = {}
  /\ Wide \cap (Digits \cup {"+", " ", ".", "@"}) = {}
  /\ "A" \in Wide <=> "a" \in Wide
  /\ "0" \in Digits /\ MobileStart \subseteq Digits \ {"0"}
  /\ CountryCode \in Seq(Digits \ {"0"})
  /\ {MinDigits, MaxDigits, MaxEmail, MaxLocal} \subseteq Nat
  /\ NationalLength \in Nat \ {0}
  /\ MinDigits <= Len(CountryCode) + NationalLength
  /\ Len(CountryCode) + NationalLength <= MaxDigits
  /\ MaxLocal <= MaxEmail

-----------------------------------------------------------------------------
Lower(s) == [i \in DOMAIN s |-> IF s[i] = "A" THEN "a" ELSE s[i]]

None == [kind |-> "none", value |-> <<>>]
Phone(s) == [kind |-> "phone", value |-> s]
Email(s) == [kind |-> "email", value |-> s]

\* An international prefix, which the rest of s follows.
HasPrefix(s) == IsPrefix(<<"+">>, s) \/ IsPrefix(<<"0", "0">>, s)
Body(s) == IF IsPrefix(<<"+">>, s) THEN After(s, 1) ELSE After(s, 2)

\* The digits of a number: a country code does not begin with 0.
Number(d) ==
  /\ ToSet(d) \subseteq Digits /\ Len(d) \in MinDigits .. MaxDigits /\ d[1] # "0"

\* Mutant: stored without the plus.
PhoneBare(text) ==
  IF HasPrefix(Trim(text)) /\ Number(Without(Body(Trim(text)), {" ", ".", "~"}))
  THEN Phone(Without(Body(Trim(text)), {" ", ".", "~"})) ELSE None

\* Mutant: kept as it was typed.
PhoneAsTyped(text) ==
  IF HasPrefix(Trim(text)) /\ Number(Without(Body(Trim(text)), {" ", ".", "~"}))
  THEN Phone(<<"+">> \o Body(Trim(text))) ELSE None

PhoneNumber(text) ==
  LET s == Trim(text)
      d == Without(Body(s), {" ", ".", "~"}) IN
  IF HasPrefix(s) /\ Number(d) THEN Phone(<<"+">> \o d) ELSE None

LooksLike(text) ==
  LET s == Trim(text) IN
  /\ s # <<>> /\ s[1] \in {"+", "0"}
  /\ \A i \in DOMAIN s : s[i] \in Digits \cup {"+", " ", "."}

\* The server counts bytes, and the app UTF-16 units.
Bytes(s) == Len(s) + Cardinality({ i \in DOMAIN s : s[i] \in Wide })

\* The first @ ends the local part.
EmailAddress(text) ==
  LET s == Lower(Trim(text))
      A == { i \in DOMAIN s : s[i] = "@" } IN
  IF /\ Bytes(s) <= MaxEmail /\ A # {}
     /\ Min(A) # 1 /\ Bytes(SubSeq(s, 1, Min(A) - 1)) <= MaxLocal
     /\ Contains(After(s, Min(A)), ".")
  THEN Email(s) ELSE None

\* The shape decides which it is to be.
Parse(text) ==
  IF LooksLike(Trim(text)) THEN PhoneNumber(Trim(text)) ELSE EmailAddress(Trim(text))

Mobile(n) ==
  /\ Len(n) = NationalLength /\ ToSet(n) \subseteq Digits /\ n[1] \in MobileStart

\* What is left without the marks is a phone for one-time codes, with or
\* without the prefix.
CodePhone(c) ==
  LET p == <<"+">> \o CountryCode
      n == IF IsPrefix(p, c) THEN After(c, Len(p))
           ELSE IF IsPrefix(<<"0">>, c) THEN After(c, 1) ELSE c
  IN IF Mobile(n) THEN Phone(p \o n) ELSE None

VietnamPhone(text) == CodePhone(Without(Trim(text), {" ", "."}))

\* The app's reading of a phone, before it asks for a code.
DeviceVietnamPhone(text) == CodePhone(Without(Trim(text), {" ", ".", "~"}))

\* Mutant: the app does not look at the country code.
DeviceAnyCode(s) ==
  LET d == Without(Body(s), {" ", ".", "~"}) IN
  IF /\ HasPrefix(s)
     /\ ToSet(d) \subseteq Digits /\ Len(d) \in MinDigits .. MaxDigits
  THEN Phone(<<"+">> \o d) ELSE None

\* Its reading of what is typed with a password.
DevicePhone(s) ==
  LET d == Without(Body(s), {" ", ".", "~"}) IN
  IF HasPrefix(s) /\ Number(d) THEN Phone(<<"+">> \o d) ELSE None

DeviceEmail(s) ==
  LET v == Lower(s)
      A == { i \in DOMAIN v : v[i] = "@" }
      domain == After(v, Min(A)) IN
  IF /\ Cardinality(A) = 1 /\ v[1] # "@"
     /\ Contains(domain, ".") /\ domain[1] # "." /\ Last(domain) # "."
     /\ ~Contains(v, " ") /\ Len(v) <= MaxEmail
  THEN Email(v) ELSE None

DeviceParse(text) ==
  LET s == Trim(text) IN
  IF /\ s # <<>> /\ s[1] \in {"+", "0"}
     /\ ToSet(s) \subseteq Digits \cup {"+", " ", "~", "."}
  THEN DevicePhone(s) ELSE DeviceEmail(s)
=============================================================================
