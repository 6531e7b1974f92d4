------------------------------ MODULE PhoneOtp ------------------------------
(***************************************************************************)
(* One-time codes for a phone: asking for a code to sign in or to delete   *)
(* an account, and spending it.  The code itself is kept and checked by    *)
(* the delivery service; the server keeps a row per challenge.             *)
(*                                                                         *)
(* Postgres' now() is the time a transaction began.  A request that waited *)
(* for its locks counts and stamps with the time it started waiting, so    *)
(* rows need not be written in the order of created_at.                    *)
(***************************************************************************)
EXTENDS Naturals, FiniteSets

CONSTANTS
  Phones, Ips, Users, None,
  PhoneOf,       \* the phone of an account
  Challenges,    \* ids
  Calls,         \* slots for calls in progress
  Available,     \* delivery.available()
  Resend, Life, Hour, Day, Keep,        \* 60 s, 10 min, 1 h, 1 day, 2 days
  PerHour, PerDay, PerIp, MaxAttempts,  \* 5, 20, 20, 5
  MaxTime        \* bound: the last instant

ASSUME OtpAssumption ==
  /\ None \notin Users \cup Phones \cup Challenges
  /\ PhoneOf \in [Users -> Phones]
  /\ Available \in BOOLEAN
  /\ {Resend, Life, Hour, Day, Keep, PerHour, PerDay, PerIp, MaxAttempts}
       \subseteq Nat \ {0}
  /\ Resend <= Hour /\ Hour <= Day /\ Day < Keep
  /\ MaxTime \in Nat

VARIABLES
  row,       \* table otp_challenges
  call,      \* calls in progress
  now,
  asked,     \* history: how often the service was asked about a challenge
  verified   \* history: the calls that spent a challenge

vars == <<row, call, now, asked, verified>>

\* What a code is for: purpose and user_id.
Uses == [purpose : {"signin"}, user : {None}]
          \cup [purpose : {"delete"}, user : Users]
NoUse == [purpose |-> "none", user |-> None]

\* state: a row is deleted once it is two days old.
ChallengeRow ==
  [ state : {"none", "kept", "deleted"}, phone : Phones \cup {None},
    ip : Ips \cup {None}, use : Uses \cup {NoUse}, at : 0 .. MaxTime,
    sent : BOOLEAN, attempts : 0 .. MaxAttempts, consumed : BOOLEAN ]
NoRow == [ state |-> "none", phone |-> None, ip |-> None, use |-> NoUse,
           at |-> 0, sent |-> FALSE, attempts |-> 0, consumed |-> FALSE ]

NoCall == [ pc |-> "idle", id |-> None, use |-> NoUse, phone |-> None,
            ip |-> None, at |-> 0 ]
CallType ==
  [ pc : {"idle", "waiting", "counted", "send", "check", "consume"},
    id : Challenges \cup {None}, use : Uses \cup {NoUse},
    phone : Phones \cup {None}, ip : Ips \cup {None}, at : 0 .. MaxTime ]

TypeOK ==
  /\ row \in [Challenges -> ChallengeRow]
  /\ call \in [Calls -> CallType]
  /\ now \in 0 .. MaxTime
  /\ asked \in [Challenges -> Nat]
  /\ verified \subseteq [id : Challenges, use : Uses, at : 0 .. MaxTime, by : Calls]

Init ==
  /\ row = [c \in Challenges |-> NoRow]
  /\ call = [s \in Calls |-> NoCall]
  /\ now = 0
  /\ asked = [c \in Challenges |-> 0]
  /\ verified = {}

Kept == { c \in Challenges : row[c].state = "kept" }

-----------------------------------------------------------------------------
(* Asking for a code.                                                      *)

\* The transaction begins and waits for the locks of the address and the
\* phone.
RequestChallenge(s, phone, ip, use) ==
  /\ Available /\ call[s].pc = "idle"
  /\ call' = [call EXCEPT ![s] = [ NoCall EXCEPT !.pc = "waiting",
                !.phone = phone, !.ip = ip, !.use = use, !.at = now ]]
  /\ UNCHANGED <<row, now, asked, verified>>

\* To sign in, anyone may ask for any phone; to delete an account, its owner
\* for the phone it has.
Request(s, phone, ip) ==
  RequestChallenge(s, phone, ip, [purpose |-> "signin", user |-> None])
RequestDelete(s, u, ip) ==
  RequestChallenge(s, PhoneOf[u], ip, [purpose |-> "delete", user |-> u])

\* Mutant: no lock.
Unlocked(s) == TRUE

\* No other transaction between its locks and its end has either of them.
Locked(s) ==
  \A r \in Calls \ {s} : call[r].pc = "counted" =>
    call[r].ip # call[s].ip /\ call[r].phone # call[s].phone

\* Kept challenges for the phone, or from the address, after an instant.
PhoneSince(s, span) ==
  { c \in Kept : row[c].phone = call[s].phone /\ row[c].at + span > call[s].at }
IpSince(s, span) ==
  { c \in Kept : row[c].ip = call[s].ip /\ row[c].at + span > call[s].at }

WithinLimits(s) ==
  /\ PhoneSince(s, Resend) = {}
  /\ Cardinality(PhoneSince(s, Hour)) < PerHour
  /\ Cardinality(PhoneSince(s, Day)) < PerDay
  /\ Cardinality(IpSince(s, Hour)) < PerIp

Count(s) ==
  /\ call[s].pc = "waiting" /\ Locked(s) /\ WithinLimits(s)
  /\ call' = [call EXCEPT ![s].pc = "counted"]
  /\ UNCHANGED <<row, now, asked, verified>>

Insert(s, c) ==
  LET r == call[s] IN
  /\ r.pc = "counted" /\ row[c].state = "none"
  /\ row' = [row EXCEPT ![c] = [ NoRow EXCEPT !.state = "kept",
               !.phone = r.phone, !.ip = r.ip, !.use = r.use, !.at = r.at ]]
  /\ call' = [call EXCEPT ![s] = [NoCall EXCEPT !.pc = "send", !.id = c]]
  /\ UNCHANGED <<now, asked, verified>>

\* The service took the message; the row gets its id, and old rows go.
Sent(s) ==
  /\ call[s].pc = "send"
  /\ row' = [c \in Challenges |->
       IF c \in Kept /\ row[c].at + Keep < now
       THEN [row[c] EXCEPT !.state = "deleted"]
       ELSE [row[c] EXCEPT !.sent = @ \/ c = call[s].id]]
  /\ call' = [call EXCEPT ![s] = NoCall]
  /\ UNCHANGED <<now, asked, verified>>

-----------------------------------------------------------------------------
(* Spending it.                                                            *)

\* Mutant: the attempts are not counted.
Uncounted(c) == row

Counted(c) == [row EXCEPT ![c].attempts = @ + 1]

\* Mutant: one attempt too many.
SpendableOnceMore(c, use) ==
  /\ c \in Kept /\ row[c].use = use /\ ~row[c].consumed
  /\ now < row[c].at + Life /\ row[c].attempts <= MaxAttempts /\ row[c].sent

Spendable(c, use) ==
  /\ c \in Kept /\ row[c].use = use /\ ~row[c].consumed
  /\ now < row[c].at + Life /\ row[c].attempts < MaxAttempts /\ row[c].sent

\* One conditional UPDATE counts the attempt before the code is looked at.
Attempt(s, c, use) ==
  /\ Available /\ call[s].pc = "idle" /\ Spendable(c, use)
  /\ row' = Counted(c)
  /\ call' = [call EXCEPT ![s] = [NoCall EXCEPT !.pc = "check", !.id = c,
                                                !.use = use]]
  /\ UNCHANGED <<now, asked, verified>>

\* Verifying a phone to sign in, or to delete the account that is signed in.
Verify(s, c) == Attempt(s, c, [purpose |-> "signin", user |-> None])
DeleteVerified(s, c, u) == Attempt(s, c, [purpose |-> "delete", user |-> u])

\* The service approves a right code, as often as it is asked at once.
Check(s) ==
  /\ call[s].pc = "check"
  /\ asked' = [asked EXCEPT ![call[s].id] = @ + 1]
  /\ \E right \in BOOLEAN :
       call' = [call EXCEPT ![s] = IF right THEN [@ EXCEPT !.pc = "consume"]
                                            ELSE NoCall]
  /\ UNCHANGED <<row, now, verified>>

\* Mutant: whoever had the right code has spent it.
StillApproved(c) == c \in Kept /\ now < row[c].at + Life

Unspent(c) == c \in Kept /\ ~row[c].consumed /\ now < row[c].at + Life

\* A second conditional UPDATE lets one call through.
Consume(s) ==
  LET c == call[s].id IN
  /\ call[s].pc = "consume" /\ Unspent(c)
  /\ row' = [row EXCEPT ![c].consumed = TRUE]
  /\ verified' = verified \cup
       {[id |-> c, use |-> call[s].use, at |-> now, by |-> s]}
  /\ call' = [call EXCEPT ![s] = NoCall]
  /\ UNCHANGED <<now, asked>>

\* A limit, a refused code, an error of the service, a crash.
GiveUp(s) ==
  /\ call[s].pc # "idle"
  /\ call' = [call EXCEPT ![s] = NoCall]
  /\ UNCHANGED <<row, now, asked, verified>>

Tick ==
  /\ now < MaxTime /\ now' = now + 1
  /\ UNCHANGED <<row, call, asked, verified>>

Next ==
  \/ Tick
  \/ \E s \in Calls :
       \/ \E p \in Phones, i \in Ips : Request(s, p, i)
       \/ \E u \in Users, i \in Ips : RequestDelete(s, u, i)
       \/ Count(s) \/ Sent(s) \/ Check(s) \/ Consume(s) \/ GiveUp(s)
       \/ \E c \in Challenges : Insert(s, c) \/ Verify(s, c)
       \/ \E c \in Challenges, u \in Users : DeleteVerified(s, c, u)

Spec == Init /\ [][Next]_vars
=============================================================================
