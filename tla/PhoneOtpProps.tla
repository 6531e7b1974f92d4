--------------------------- MODULE PhoneOtpProps ---------------------------
(***************************************************************************)
(* The promises of tests/account_data_integration.rs:                      *)
(* "otp_is_expiring_bounded_single_use_and_purpose_bound", for every       *)
(* interleaving, and the limits on asking for codes.                       *)
(***************************************************************************)
EXTENDS PhoneOtp

(***************************************************************************)
(* Expiring: nobody spends a challenge that is over, not even with a code  *)
(* that was approved in time by a slow service.                            *)
(***************************************************************************)
Expiring == \A v \in verified : v.at < row[v.id].at + Life

(***************************************************************************)
(* Bounded: the service is asked at most MaxAttempts times about one       *)
(* challenge, however many calls try at once, and never about a challenge  *)
(* whose code was not sent.                                                *)
(***************************************************************************)
Bounded ==
  \A c \in Challenges : asked[c] <= MaxAttempts /\ (asked[c] > 0 => row[c].sent)

(***************************************************************************)
(* Single use: of the calls whose code the service approved, one passes.   *)
(***************************************************************************)
SingleUse == \A v, w \in verified : v.id = w.id => v = w

(***************************************************************************)
(* Purpose bound: a code sent to sign in deletes no account, and one sent  *)
(* to delete an account neither signs in nor deletes another.              *)
(***************************************************************************)
PurposeBound == \A v \in verified : v.use = row[v.id].use

(***************************************************************************)
(* What is true of every challenge that was spent, although any number of  *)
(* calls with the right code ask the service about it at once: it was      *)
(* spent by one of them, in its lifetime and for its purpose.              *)
(***************************************************************************)
SpentAsMeant == SingleUse /\ Expiring /\ PurposeBound

\* The challenges of S in the window of that length which ends with c.
Window(S, c, span) ==
  { d \in S : row[d].at <= row[c].at /\ row[d].at + span > row[c].at }

(***************************************************************************)
(* The limits hold in every window of time, although requests wait for     *)
(* their locks with the time they began in hand, are answered in another   *)
(* order than they came, and come from several addresses at once.          *)
(***************************************************************************)
LimitsHold ==
  \A c \in Kept :
    LET P == { d \in Kept : row[d].phone = row[c].phone }
        A == { d \in Kept : row[d].ip = row[c].ip } IN
    /\ Window(P, c, Resend) = {c}
    /\ Cardinality(Window(P, c, Hour)) <= PerHour
    /\ Cardinality(Window(P, c, Day)) <= PerDay
    /\ Cardinality(Window(A, c, Hour)) <= PerIp
=============================================================================
