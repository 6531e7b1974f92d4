--------------------------- MODULE PhoneOtpProofs ---------------------------
(***************************************************************************)
(* Proofs about one-time codes, for every set of phones, addresses,        *)
(* accounts, challenges and calls, every length of the windows and every   *)
(* limit.                                                                  *)
(***************************************************************************)
EXTENDS PhoneOtpProps, FiniteSetTheorems, TLAPS

(***************************************************************************)
(* What a call in progress holds.  From the first UPDATE to the second the *)
(* row it is about has its use, and its code was sent.                     *)
(***************************************************************************)
Own ==
  \A s \in Calls : LET r == call[s] IN
    /\ r.pc \in {"waiting", "counted"} =>
         r.phone \in Phones /\ r.ip \in Ips /\ r.use \in Uses
    /\ r.pc \in {"check", "consume"} =>
         /\ r.id \in Challenges /\ r.use \in Uses
         /\ row[r.id].state # "none" /\ row[r.id].sent /\ row[r.id].use = r.use

TypeInv == TypeOK /\ Own

(***************************************************************************)
(* What was spent is marked as consumed, and no id is used twice.          *)
(***************************************************************************)
Spent ==
  \A v \in verified : row[v.id].state # "none" /\ row[v.id].consumed

SpendInv == Spent /\ SingleUse /\ Expiring /\ PurposeBound

(***************************************************************************)
(* Attempts are counted ahead of the question: the questions asked and the *)
(* calls about to ask are no more than the attempts.                       *)
(***************************************************************************)
Checking(c) == { s \in Calls : call[s].pc = "check" /\ call[s].id = c }

CountedAhead ==
  \A c \in Challenges :
    /\ IsFiniteSet(Checking(c))
    /\ asked[c] + Cardinality(Checking(c)) <= row[c].attempts
    /\ asked[c] > 0 => row[c].state # "none" /\ row[c].sent

(***************************************************************************)
(* A call that has counted stays within the limits until it inserts its    *)
(* row, since no other call with its phone or address has counted.         *)
(***************************************************************************)
Reserved ==
  /\ IsFiniteSet(Kept)
  /\ \A s \in Calls : call[s].pc = "counted" => WithinLimits(s) /\ Locked(s)

LimitInv == Reserved /\ LimitsHold

-----------------------------------------------------------------------------
(* Types.                                                                  *)

LEMMA NothingType == NoRow \in ChallengeRow /\ NoCall \in CallType
BY OtpAssumption DEF NoRow, ChallengeRow, NoCall, CallType, NoUse

LEMMA UseType ==
  /\ [purpose |-> "signin", user |-> None] \in Uses
  /\ \A u \in Users : [purpose |-> "delete", user |-> u] \in Uses
BY DEF Uses

LEMMA InitType == Init => TypeInv
<1> SUFFICES ASSUME Init PROVE TypeInv
  OBVIOUS
<1>1. now \in 0 .. MaxTime
  BY OtpAssumption DEF Init
<1>2. TypeOK
  BY <1>1, NothingType DEF Init, TypeOK
<1>3. Own
  BY DEF Init, Own, NoCall
<1>4. QED BY <1>2, <1>3 DEF TypeInv

LEMMA RequestType ==
  ASSUME TypeInv, NEW s \in Calls, NEW p \in Phones, NEW i \in Ips, NEW u \in Uses,
         RequestChallenge(s, p, i, u)
  PROVE  TypeInv'
<1>1. [NoCall EXCEPT !.pc = "waiting", !.phone = p, !.ip = i, !.use = u, !.at = now]
        \in CallType
  BY NothingType DEF CallType, TypeInv, TypeOK
<1>2. TypeOK'
  BY <1>1 DEF TypeInv, TypeOK, RequestChallenge
<1>3. Own'
  BY DEF TypeInv, TypeOK, Own, RequestChallenge, NoCall, CallType
<1>4. QED BY <1>2, <1>3 DEF TypeInv

LEMMA CountType ==
  ASSUME TypeInv, NEW s \in Calls, Count(s)
  PROVE  TypeInv'
<1>1. [call[s] EXCEPT !.pc = "counted"] \in CallType
  BY DEF CallType, TypeInv, TypeOK
<1>2. TypeOK'
  BY <1>1 DEF TypeInv, TypeOK, Count
<1>3. Own'
  BY DEF TypeInv, TypeOK, Own, Count, CallType
<1>4. QED BY <1>2, <1>3 DEF TypeInv

LEMMA InsertType ==
  ASSUME TypeInv, NEW s \in Calls, NEW c \in Challenges, Insert(s, c)
  PROVE  TypeInv'
<1> DEFINE new == [NoRow EXCEPT !.state = "kept", !.phone = call[s].phone,
                     !.ip = call[s].ip, !.use = call[s].use, !.at = call[s].at]
<1>1. call[s] \in CallType
  BY DEF TypeInv, TypeOK
<1>2. new \in ChallengeRow
  BY <1>1, NothingType DEF ChallengeRow, CallType
<1>3. [NoCall EXCEPT !.pc = "send", !.id = c] \in CallType
  BY NothingType DEF CallType
<1>4. TypeOK'
  BY <1>2, <1>3 DEF TypeInv, TypeOK, Insert
<1>5. Own'
  BY DEF TypeInv, TypeOK, Own, Insert, NoCall, CallType
<1>6. QED BY <1>4, <1>5 DEF TypeInv

\* Sent changes of a row only whether it is kept and that it was sent.
LEMMA SentRows ==
  ASSUME TypeInv, NEW s \in Calls, Sent(s), NEW c \in Challenges
  PROVE  /\ \/ row'[c] = [row[c] EXCEPT !.state = "deleted"] /\ c \in Kept
            \/ row'[c] = [row[c] EXCEPT !.sent = @ \/ c = call[s].id]
         /\ row'[c] \in ChallengeRow
         /\ row'[c].phone = row[c].phone /\ row'[c].ip = row[c].ip
         /\ row'[c].use = row[c].use /\ row'[c].at = row[c].at
         /\ row'[c].attempts = row[c].attempts /\ row'[c].consumed = row[c].consumed
         /\ row[c].sent => row'[c].sent
         /\ row'[c].state = "none" <=> row[c].state = "none"
         /\ row'[c].state = "kept" => row[c].state = "kept"
<1>1. row[c] \in ChallengeRow
  BY DEF TypeInv, TypeOK
<1>2. \/ row'[c] = [row[c] EXCEPT !.state = "deleted"] /\ c \in Kept
      \/ row'[c] = [row[c] EXCEPT !.sent = @ \/ c = call[s].id]
  BY DEF Sent
<1>3. CASE row'[c] = [row[c] EXCEPT !.state = "deleted"] /\ c \in Kept
  BY <1>1, <1>2, <1>3 DEF ChallengeRow, Kept
<1>4. CASE row'[c] = [row[c] EXCEPT !.sent = @ \/ c = call[s].id]
  <2> DEFINE b == row[c].sent \/ c = call[s].id
  <2>1. b \in BOOLEAN
    OBVIOUS
  <2>2. row'[c] = [row[c] EXCEPT !.sent = b]
    BY <1>4
  <2> HIDE DEF b
  <2>3. row'[c].sent = b
    BY <1>1, <2>2 DEF ChallengeRow
  <2>4. row[c].sent => b
    BY DEF b
  <2>5. QED BY <1>1, <1>2, <2>1, <2>2, <2>3, <2>4 DEF ChallengeRow
<1>5. QED BY <1>2, <1>3, <1>4

LEMMA SentType ==
  ASSUME TypeInv, NEW s \in Calls, Sent(s)
  PROVE  TypeInv'
<1>1. row' \in [Challenges -> ChallengeRow]
  BY SentRows DEF Sent
<1>2. TypeOK'
  BY <1>1, NothingType DEF TypeInv, TypeOK, Sent
<1>3. call' = [call EXCEPT ![s] = NoCall] /\ call \in [Calls -> CallType]
  BY DEF Sent, TypeInv, TypeOK
<1>4. \A c \in Challenges :
        /\ row'[c].use = row[c].use /\ (row[c].sent => row'[c].sent)
        /\ (row'[c].state = "none" <=> row[c].state = "none")
  BY SentRows
<1>5. Own'
  BY <1>3, <1>4 DEF TypeInv, Own, NoCall
<1>6. QED BY <1>2, <1>5 DEF TypeInv

\* Attempt changes of a row only the attempts.
LEMMA AttemptRows ==
  ASSUME TypeInv, NEW s \in Calls, NEW c \in Challenges, NEW u \in Uses, Attempt(s, c, u)
  PROVE  /\ row' \in [Challenges -> ChallengeRow]
         /\ \A d \in Challenges :
              /\ row'[d].state = row[d].state /\ row'[d].phone = row[d].phone
              /\ row'[d].ip = row[d].ip /\ row'[d].use = row[d].use
              /\ row'[d].at = row[d].at /\ row'[d].sent = row[d].sent
              /\ row'[d].consumed = row[d].consumed
              /\ row'[d].attempts = IF d = c THEN row[d].attempts + 1
                                             ELSE row[d].attempts
<1>1. row[c] \in ChallengeRow /\ row[c].attempts < MaxAttempts
  BY DEF TypeInv, TypeOK, Attempt, Spendable
<1>2. [row[c] EXCEPT !.attempts = row[c].attempts + 1] \in ChallengeRow
  BY <1>1, OtpAssumption DEF ChallengeRow
<1>3. row' = [row EXCEPT ![c] = [row[c] EXCEPT !.attempts = row[c].attempts + 1]]
  BY DEF Attempt, Counted
<1>4. row \in [Challenges -> ChallengeRow]
  BY DEF TypeInv, TypeOK
<1>5. row' \in [Challenges -> ChallengeRow]
  BY <1>2, <1>3, <1>4
<1>6. \A d \in Challenges \ {c} : row'[d] = row[d]
  BY <1>3, <1>4
<1>7. row'[c] = [row[c] EXCEPT !.attempts = row[c].attempts + 1]
  BY <1>3, <1>4
<1>8. QED BY <1>1, <1>5, <1>6, <1>7 DEF ChallengeRow

LEMMA AttemptType ==
  ASSUME TypeInv, NEW s \in Calls, NEW c \in Challenges, NEW u \in Uses, Attempt(s, c, u)
  PROVE  TypeInv'
<1>1. [NoCall EXCEPT !.pc = "check", !.id = c, !.use = u] \in CallType
  BY NothingType DEF CallType
<1>2. TypeOK'
  BY <1>1, AttemptRows DEF TypeInv, TypeOK, Attempt
<1>3. row[c].state # "none" /\ row[c].sent /\ row[c].use = u
  BY DEF Attempt, Spendable, Kept
<1>4. call' = [call EXCEPT ![s] = [NoCall EXCEPT !.pc = "check", !.id = c, !.use = u]]
  BY DEF Attempt
<1>5. \A d \in Challenges : /\ row'[d].state = row[d].state
                            /\ row'[d].sent = row[d].sent /\ row'[d].use = row[d].use
  BY AttemptRows
<1>6. call \in [Calls -> CallType]
  BY DEF TypeInv, TypeOK
<1>7. Own'
  BY <1>3, <1>4, <1>5, <1>6 DEF TypeInv, Own, NoCall, CallType
<1>8. QED BY <1>2, <1>7 DEF TypeInv

LEMMA CheckType ==
  ASSUME TypeInv, NEW s \in Calls, Check(s)
  PROVE  TypeInv'
<1>1. call[s] \in CallType /\ call[s].id \in Challenges
  BY DEF TypeInv, TypeOK, Own, Check
<1>2. [call[s] EXCEPT !.pc = "consume"] \in CallType
  BY <1>1 DEF CallType
<1>3. \/ call' = [call EXCEPT ![s] = [call[s] EXCEPT !.pc = "consume"]]
      \/ call' = [call EXCEPT ![s] = NoCall]
  BY DEF Check
<1>4. call' \in [Calls -> CallType]
  BY <1>2, <1>3, NothingType DEF TypeInv, TypeOK
<1>5. TypeOK'
  BY <1>1, <1>4 DEF TypeInv, TypeOK, Check
<1>6. Own'
  BY <1>3 DEF TypeInv, TypeOK, Own, Check, NoCall, CallType
<1>7. QED BY <1>5, <1>6 DEF TypeInv

\* Consume changes a row only to consumed.
LEMMA ConsumeRows ==
  ASSUME TypeInv, NEW s \in Calls, Consume(s)
  PROVE  /\ call[s].id \in Challenges
         /\ row' \in [Challenges -> ChallengeRow]
         /\ \A c \in Challenges :
              /\ row'[c].state = row[c].state /\ row'[c].phone = row[c].phone
              /\ row'[c].ip = row[c].ip /\ row'[c].use = row[c].use
              /\ row'[c].at = row[c].at /\ row'[c].sent = row[c].sent
              /\ row'[c].attempts = row[c].attempts
              /\ row'[c].consumed = (row[c].consumed \/ c = call[s].id)
<1>1. call[s].id \in Challenges
  BY DEF TypeInv, TypeOK, Own, Consume
<1>2. \A c \in Challenges : row[c] \in ChallengeRow
  BY DEF TypeInv, TypeOK
<1>3. row' = [row EXCEPT ![call[s].id] = [row[call[s].id] EXCEPT !.consumed = TRUE]]
  BY DEF Consume
<1>4. [row[call[s].id] EXCEPT !.consumed = TRUE] \in ChallengeRow
  BY <1>1, <1>2 DEF ChallengeRow
<1>5. QED BY <1>1, <1>2, <1>3, <1>4 DEF TypeInv, TypeOK, ChallengeRow

LEMMA ConsumeType ==
  ASSUME TypeInv, NEW s \in Calls, Consume(s)
  PROVE  TypeInv'
<1>1. call[s].use \in Uses
  BY DEF TypeInv, Own, Consume
<1>2. verified' \subseteq [id : Challenges, use : Uses, at : 0 .. MaxTime, by : Calls]
  <2>1. verified' = verified \cup
          {[id |-> call[s].id, use |-> call[s].use, at |-> now, by |-> s]}
    BY DEF Consume
  <2>2. call[s].id \in Challenges /\ now \in 0 .. MaxTime
    BY ConsumeRows DEF TypeInv, TypeOK
  <2>3. verified \subseteq [id : Challenges, use : Uses, at : 0 .. MaxTime, by : Calls]
    BY DEF TypeInv, TypeOK
  <2>4. QED BY <1>1, <2>1, <2>2, <2>3
<1>3. TypeOK'
  BY <1>2, ConsumeRows, NothingType DEF TypeInv, TypeOK, Consume
<1>4. call' = [call EXCEPT ![s] = NoCall] /\ call \in [Calls -> CallType]
  BY DEF Consume, TypeInv, TypeOK
<1>5. \A c \in Challenges : /\ row'[c].state = row[c].state
                            /\ row'[c].sent = row[c].sent /\ row'[c].use = row[c].use
  BY ConsumeRows
<1>6. Own'
  BY <1>4, <1>5 DEF TypeInv, Own, NoCall
<1>7. QED BY <1>3, <1>6 DEF TypeInv

LEMMA RestType ==
  ASSUME TypeInv, Tick \/ (\E s \in Calls : GiveUp(s)) \/ UNCHANGED vars
  PROVE  TypeInv'
<1>1. CASE Tick
  <2>1. now' \in 0 .. MaxTime
    BY <1>1, OtpAssumption DEF Tick, TypeInv, TypeOK
  <2>2. QED BY <1>1, <2>1 DEF Tick, TypeInv, TypeOK, Own
<1>2. CASE \E s \in Calls : GiveUp(s)
  BY <1>2, NothingType DEF GiveUp, TypeInv, TypeOK, Own, NoCall
<1>3. CASE UNCHANGED vars
  BY <1>3 DEF vars, TypeInv, TypeOK, Own
<1>4. QED BY <1>1, <1>2, <1>3

\* A step, with what is asked for in its type.
LEMMA Steps ==
  ASSUME [Next]_vars
  PROVE  \/ Tick \/ (\E s \in Calls : GiveUp(s)) \/ UNCHANGED vars
         \/ \E s \in Calls, p \in Phones, i \in Ips, u \in Uses :
              RequestChallenge(s, p, i, u)
         \/ \E s \in Calls : Count(s) \/ Sent(s) \/ Check(s) \/ Consume(s)
         \/ \E s \in Calls, c \in Challenges : Insert(s, c)
         \/ \E s \in Calls, c \in Challenges, u \in Uses : Attempt(s, c, u)
<1>1. \A u \in Users : PhoneOf[u] \in Phones
  BY OtpAssumption
<1>2. QED
  BY <1>1, UseType DEF Next, Request, RequestDelete, Verify, DeleteVerified

LEMMA NextType ==
  ASSUME TypeInv, [Next]_vars
  PROVE  TypeInv'
BY Steps, RestType, RequestType, CountType, SentType, CheckType, ConsumeType,
   InsertType, AttemptType

(***************************************************************************)
(* Every value stays of its type: no challenge has more than MaxAttempts   *)
(* attempts.                                                               *)
(***************************************************************************)
THEOREM TypesHold == Spec => []TypeOK
<1>1. TypeInv => TypeOK
  BY DEF TypeInv
<1>2. QED BY <1>1, InitType, NextType, PTL DEF Spec

-----------------------------------------------------------------------------
(* Spending.                                                               *)

LEMMA SpendKept ==
  ASSUME TypeInv, SpendInv, verified' = verified,
         \A c \in Challenges : row[c].state # "none" =>
           /\ row'[c].state # "none" /\ row'[c].use = row[c].use
           /\ row'[c].at = row[c].at /\ (row[c].consumed => row'[c].consumed)
  PROVE  SpendInv'
<1>1. \A v \in verified : v.id \in Challenges /\ row[v.id].state # "none"
  BY DEF SpendInv, Spent, TypeInv, TypeOK
<1>2. Spent'
  BY <1>1 DEF SpendInv, Spent
<1>3. SingleUse'
  BY DEF SpendInv, SingleUse
<1>4. Expiring'
  BY <1>1 DEF SpendInv, Expiring
<1>5. PurposeBound'
  BY <1>1 DEF SpendInv, PurposeBound
<1>6. QED BY <1>2, <1>3, <1>4, <1>5 DEF SpendInv

LEMMA ConsumeSpends ==
  ASSUME TypeInv, SpendInv, NEW s \in Calls, Consume(s)
  PROVE  SpendInv'
<1> DEFINE c == call[s].id
           new == [id |-> c, use |-> call[s].use, at |-> now, by |-> s]
<1>1. verified' = verified \cup {new}
  BY DEF Consume
<1>2. c \in Challenges /\ ~row[c].consumed /\ now < row[c].at + Life
  BY ConsumeRows DEF Consume, Unspent
<1>3. row[c].state # "none" /\ row[c].use = call[s].use
  BY DEF TypeInv, Own, Consume
<1>4. new.id = c /\ new.use = call[s].use /\ new.at = now
  OBVIOUS
<1>5. \A v \in verified : /\ v.id \in Challenges /\ v.id # c
                          /\ row[v.id].state # "none" /\ row[v.id].consumed
  BY <1>2 DEF SpendInv, Spent, TypeInv, TypeOK
<1> HIDE DEF c, new
<1>6. /\ row'[c].consumed /\ row'[c].state = row[c].state
      /\ row'[c].use = row[c].use /\ row'[c].at = row[c].at
  BY <1>2, ConsumeRows DEF c
<1>7. \A v \in verified :
        /\ row'[v.id].state # "none" /\ row'[v.id].consumed
        /\ row'[v.id].use = row[v.id].use /\ row'[v.id].at = row[v.id].at
  <2>1. \A d \in Challenges : /\ row'[d].state = row[d].state
                              /\ row'[d].use = row[d].use /\ row'[d].at = row[d].at
    BY ConsumeRows
  <2>2. \A d \in Challenges : row[d].consumed => row'[d].consumed
    BY ConsumeRows, Zenon
  <2>3. QED BY <1>5, <2>1, <2>2
<1>8. Spent'
  BY <1>1, <1>3, <1>4, <1>6, <1>7 DEF Spent
<1>9. SingleUse'
  BY <1>1, <1>4, <1>5 DEF SpendInv, SingleUse
<1>10. Expiring'
  BY <1>1, <1>2, <1>4, <1>6, <1>7 DEF SpendInv, Expiring
<1>11. PurposeBound'
  BY <1>1, <1>3, <1>4, <1>6, <1>7 DEF SpendInv, PurposeBound
<1>12. QED BY <1>8, <1>9, <1>10, <1>11 DEF SpendInv

LEMMA NextSpend ==
  ASSUME TypeInv, SpendInv, [Next]_vars
  PROVE  SpendInv'
<1>1. CASE UNCHANGED <<row, verified>>
  BY <1>1, SpendKept
<1>2. ASSUME NEW s \in Calls, NEW c \in Challenges, Insert(s, c)
      PROVE  SpendInv'
  <2>1. \A d \in Challenges \ {c} : row'[d] = row[d]
    BY <1>2 DEF Insert, TypeInv, TypeOK
  <2>2. row[c].state = "none" /\ verified' = verified
    BY <1>2 DEF Insert
  <2>3. QED BY <2>1, <2>2, SpendKept
<1>3. ASSUME NEW s \in Calls, Sent(s)
      PROVE  SpendInv'
  <2>1. verified' = verified
    BY <1>3 DEF Sent
  <2>2. \A d \in Challenges :
          /\ row'[d].state = "none" <=> row[d].state = "none"
          /\ row'[d].use = row[d].use /\ row'[d].at = row[d].at
          /\ row'[d].consumed = row[d].consumed
    BY <1>3, SentRows
  <2>3. QED BY <2>1, <2>2, SpendKept
<1>4. ASSUME NEW s \in Calls, NEW c \in Challenges, NEW u \in Uses, Attempt(s, c, u)
      PROVE  SpendInv'
  <2>1. verified' = verified
    BY <1>4 DEF Attempt
  <2>2. QED BY <1>4, <2>1, AttemptRows, SpendKept
<1>5. QED
  BY <1>1, <1>2, <1>3, <1>4, Steps, ConsumeSpends
     DEF Tick, GiveUp, vars, RequestChallenge, Count, Check

LEMMA InitSpend == Init => SpendInv
BY DEF Init, SpendInv, Spent, SingleUse, Expiring, PurposeBound

(***************************************************************************)
(* A challenge is spent once, in its lifetime, for the purpose and the     *)
(* account it was made for.                                                *)
(***************************************************************************)
THEOREM SpentOnceInTimeForItsPurpose ==
  Spec => []SpentAsMeant
<1>1. Init => TypeInv /\ SpendInv
  BY InitType, InitSpend
<1>2. TypeInv /\ SpendInv /\ [Next]_vars => (TypeInv /\ SpendInv)'
  BY NextType, NextSpend
<1>3. SpendInv => SpentAsMeant
  BY DEF SpendInv, SpentAsMeant
<1>4. QED BY <1>1, <1>2, <1>3, PTL DEF Spec

-----------------------------------------------------------------------------
(* Attempts.                                                               *)

LEMMA AheadKept ==
  ASSUME TypeInv, TypeInv', CountedAhead, asked' = asked,
         \A c \in Challenges :
           /\ Checking(c)' \subseteq Checking(c)
           /\ row'[c].attempts = row[c].attempts
           /\ row[c].state # "none" => row'[c].state # "none"
           /\ row[c].sent => row'[c].sent
  PROVE  CountedAhead'
<1> SUFFICES ASSUME NEW c \in Challenges
    PROVE  /\ IsFiniteSet(Checking(c)')
           /\ asked[c] + Cardinality(Checking(c)') <= row'[c].attempts
           /\ asked[c] > 0 => row'[c].state # "none" /\ row'[c].sent
  BY DEF CountedAhead
<1>1. /\ IsFiniteSet(Checking(c)')
      /\ Cardinality(Checking(c)') <= Cardinality(Checking(c))
      /\ Cardinality(Checking(c)') \in Nat /\ Cardinality(Checking(c)) \in Nat
  BY FS_Subset, FS_CardinalityType DEF CountedAhead
<1>2. asked[c] \in Nat /\ row[c].attempts \in Nat
  BY DEF TypeInv, TypeOK, ChallengeRow
<1>3. asked[c] + Cardinality(Checking(c)) <= row[c].attempts
  BY DEF CountedAhead
<1>4. QED BY <1>1, <1>2, <1>3 DEF CountedAhead

LEMMA InsertAhead ==
  ASSUME TypeInv, CountedAhead, NEW s \in Calls, NEW n \in Challenges, Insert(s, n)
  PROVE  CountedAhead'
<1> SUFFICES ASSUME NEW c \in Challenges
    PROVE  /\ IsFiniteSet(Checking(c)')
           /\ asked[c] + Cardinality(Checking(c)') <= row'[c].attempts
           /\ asked[c] > 0 => row'[c].state # "none" /\ row'[c].sent
  BY DEF CountedAhead, Insert
<1>1. Checking(c)' = Checking(c)
  BY DEF Insert, Checking, NoCall, TypeInv, TypeOK
<1>2. CASE c # n
  <2>1. row'[c] = row[c]
    BY <1>2 DEF Insert, TypeInv, TypeOK
  <2>2. QED BY <1>1, <2>1 DEF CountedAhead
<1>3. CASE c = n
  <2>1. row[n].state = "none" /\ row'[n].attempts = 0
    BY DEF Insert, TypeInv, TypeOK, ChallengeRow, NoRow
  <2>2. Checking(n) = {}
    BY <2>1 DEF Checking, TypeInv, Own
  <2>3. asked[n] = 0
    BY <2>1 DEF CountedAhead, TypeInv, TypeOK
  <2>4. QED BY <1>1, <1>3, <2>1, <2>2, <2>3, FS_EmptySet
<1>4. QED BY <1>2, <1>3

LEMMA AttemptAhead ==
  ASSUME TypeInv, CountedAhead, NEW s \in Calls, NEW n \in Challenges, NEW u \in Uses,
         Attempt(s, n, u)
  PROVE  CountedAhead'
<1> SUFFICES ASSUME NEW c \in Challenges
    PROVE  /\ IsFiniteSet(Checking(c)')
           /\ asked[c] + Cardinality(Checking(c)') <= row'[c].attempts
           /\ asked[c] > 0 => row'[c].state # "none" /\ row'[c].sent
  BY DEF CountedAhead, Attempt
<1>1. asked[c] \in Nat /\ row[c].attempts \in Nat
  BY DEF TypeInv, TypeOK, ChallengeRow
<1>2. IsFiniteSet(Checking(c)) /\ Cardinality(Checking(c)) \in Nat
  BY FS_CardinalityType DEF CountedAhead
<1>3. asked[c] + Cardinality(Checking(c)) <= row[c].attempts
  BY DEF CountedAhead
<1>4. asked[c] > 0 => row'[c].state # "none" /\ row'[c].sent
  BY AttemptRows DEF CountedAhead
<1>5. /\ call \in [Calls -> CallType] /\ call[s].pc = "idle"
      /\ call' = [call EXCEPT ![s] = [NoCall EXCEPT !.pc = "check", !.id = n, !.use = u]]
  BY DEF Attempt, TypeInv, TypeOK
<1>6. CASE c # n
  <2>1. Checking(c)' = Checking(c)
    BY <1>5, <1>6 DEF Checking, NoCall
  <2>2. row'[c].attempts = row[c].attempts
    BY <1>6, AttemptRows
  <2>3. QED BY <1>2, <1>3, <1>4, <2>1, <2>2
<1>7. CASE c = n
  <2>1. Checking(c)' = Checking(c) \cup {s} /\ s \notin Checking(c)
    BY <1>5, <1>7 DEF Checking, NoCall
  <2>2. row'[c].attempts = row[c].attempts + 1
    BY <1>7, AttemptRows
  <2>3. /\ IsFiniteSet(Checking(c)')
        /\ Cardinality(Checking(c)') = Cardinality(Checking(c)) + 1
    BY <1>2, <2>1, FS_AddElement
  <2>4. QED BY <1>1, <1>2, <1>3, <1>4, <2>2, <2>3
<1>8. QED BY <1>6, <1>7

LEMMA CheckAhead ==
  ASSUME TypeInv, CountedAhead, NEW s \in Calls, Check(s)
  PROVE  CountedAhead'
<1> DEFINE n == call[s].id
<1>1. /\ n \in Challenges /\ row[n].state # "none" /\ row[n].sent
      /\ call[s].pc = "check" /\ row' = row /\ asked' = [asked EXCEPT ![n] = @ + 1]
  BY DEF Check, TypeInv, Own
<1>2. s \in Checking(n)
  BY <1>1 DEF Checking
<1>3. \A r \in Calls \ {s} : call'[r] = call[r]
  BY DEF Check, TypeInv, TypeOK
<1>4. call'[s].pc # "check"
  BY DEF Check, TypeInv, TypeOK, CallType, NoCall
<1> HIDE DEF n
<1> SUFFICES ASSUME NEW c \in Challenges
    PROVE  /\ IsFiniteSet(Checking(c)')
           /\ asked'[c] + Cardinality(Checking(c)') <= row[c].attempts
           /\ asked'[c] > 0 => row[c].state # "none" /\ row[c].sent
  BY <1>1 DEF CountedAhead
<1>5. asked \in [Challenges -> Nat] /\ row[c].attempts \in Nat
  BY DEF TypeInv, TypeOK, ChallengeRow
<1>6. IsFiniteSet(Checking(c)) /\ Cardinality(Checking(c)) \in Nat
  BY FS_CardinalityType DEF CountedAhead
<1>7. /\ asked[c] + Cardinality(Checking(c)) <= row[c].attempts
      /\ asked[c] > 0 => row[c].state # "none" /\ row[c].sent
  BY DEF CountedAhead
<1>8. CASE c # n
  <2>1. asked'[c] = asked[c]
    BY <1>1, <1>5, <1>8
  <2>2. Checking(c)' = Checking(c)
    BY <1>3, <1>4, <1>8 DEF Checking, n
  <2>3. QED BY <1>6, <1>7, <2>1, <2>2
<1>9. CASE c = n
  <2>1. asked'[c] = asked[c] + 1
    BY <1>1, <1>5, <1>9
  <2>2. Checking(c)' = Checking(c) \ {s} /\ s \in Checking(c)
    BY <1>2, <1>3, <1>4, <1>9 DEF Checking
  <2>3. /\ IsFiniteSet(Checking(c)')
        /\ Cardinality(Checking(c)') = Cardinality(Checking(c)) - 1
    BY <1>6, <2>2, FS_RemoveElement
  <2>4. QED BY <1>1, <1>5, <1>6, <1>7, <1>9, <2>1, <2>3
<1>10. QED BY <1>8, <1>9

LEMMA NextAhead ==
  ASSUME TypeInv, CountedAhead, [Next]_vars
  PROVE  CountedAhead'
<1>1. TypeInv'
  BY NextType
<1>2. CASE Tick \/ UNCHANGED vars
  BY <1>2 DEF Tick, vars, CountedAhead, Checking
<1>3. ASSUME NEW s \in Calls, UNCHANGED <<row, asked>>, call'[s].pc # "check",
             \A r \in Calls \ {s} : call'[r] = call[r]
      PROVE  CountedAhead'
  <2>1. \A c \in Challenges : Checking(c)' \subseteq Checking(c)
    BY <1>3 DEF Checking
  <2>2. QED BY <1>1, <1>3, <2>1, AheadKept
<1>4. ASSUME NEW s \in Calls, Sent(s)
      PROVE  CountedAhead'
  <2>1. \A c \in Challenges : Checking(c)' \subseteq Checking(c)
    BY <1>4 DEF Checking, Sent, NoCall, TypeInv, TypeOK
  <2>2. asked' = asked
    BY <1>4 DEF Sent
  <2>3. QED BY <1>1, <1>4, <2>1, <2>2, SentRows, AheadKept
<1>5. ASSUME NEW s \in Calls, Consume(s)
      PROVE  CountedAhead'
  <2>1. \A c \in Challenges : Checking(c)' \subseteq Checking(c)
    BY <1>5 DEF Checking, Consume, NoCall, TypeInv, TypeOK
  <2>2. asked' = asked
    BY <1>5 DEF Consume
  <2>3. QED BY <1>1, <1>5, <2>1, <2>2, ConsumeRows, AheadKept
<1>6. ASSUME NEW s \in Calls, GiveUp(s) \/ Count(s)
      PROVE  CountedAhead'
  <2>1. /\ call'[s].pc # "check" /\ UNCHANGED <<row, asked>>
        /\ \A r \in Calls \ {s} : call'[r] = call[r]
    BY <1>6 DEF GiveUp, Count, NoCall, TypeInv, TypeOK, CallType
  <2>2. QED BY <1>3, <2>1
<1>7. ASSUME NEW s \in Calls, NEW p \in Phones, NEW i \in Ips, NEW u \in Uses,
             RequestChallenge(s, p, i, u)
      PROVE  CountedAhead'
  <2>1. /\ call'[s].pc # "check" /\ UNCHANGED <<row, asked>>
        /\ \A r \in Calls \ {s} : call'[r] = call[r]
    BY <1>7 DEF RequestChallenge, NoCall, TypeInv, TypeOK, CallType
  <2>2. QED BY <1>3, <2>1
<1>8. QED
  BY <1>2, <1>4, <1>5, <1>6, <1>7, Steps, InsertAhead, AttemptAhead, CheckAhead

LEMMA InitAhead == Init => CountedAhead
<1> SUFFICES ASSUME Init, NEW c \in Challenges
    PROVE  /\ IsFiniteSet(Checking(c))
           /\ asked[c] + Cardinality(Checking(c)) <= row[c].attempts
           /\ asked[c] > 0 => row[c].state # "none" /\ row[c].sent
  BY DEF CountedAhead
<1>1. Checking(c) = {} /\ asked[c] = 0 /\ row[c].attempts = 0
  BY DEF Init, Checking, NoCall, NoRow
<1>2. QED BY <1>1, FS_EmptySet

(***************************************************************************)
(* The service is asked at most MaxAttempts times about a challenge, and   *)
(* about none before its code was sent.                                    *)
(***************************************************************************)
THEOREM AttemptsAreBounded == Spec => []Bounded
<1>1. TypeInv /\ CountedAhead => Bounded
  <2> SUFFICES ASSUME TypeInv, CountedAhead, NEW c \in Challenges
      PROVE  asked[c] <= MaxAttempts /\ (asked[c] > 0 => row[c].sent)
    BY DEF Bounded
  <2>1. /\ asked[c] \in Nat /\ Cardinality(Checking(c)) \in Nat
        /\ row[c].attempts \in 0 .. MaxAttempts
    BY FS_CardinalityType DEF TypeInv, TypeOK, ChallengeRow, CountedAhead
  <2>2. QED BY <2>1, OtpAssumption DEF CountedAhead
<1>2. Init => TypeInv /\ CountedAhead
  BY InitType, InitAhead
<1>3. TypeInv /\ CountedAhead /\ [Next]_vars => (TypeInv /\ CountedAhead)'
  BY NextType, NextAhead
<1>4. QED BY <1>1, <1>2, <1>3, PTL DEF Spec

-----------------------------------------------------------------------------
(* The limits.                                                             *)

SamePhone(c) == { d \in Kept : row[d].phone = row[c].phone }
SameIp(c) == { d \in Kept : row[d].ip = row[c].ip }

\* LimitsHold for the windows that end with one challenge.
Within(c) ==
  /\ Window(SamePhone(c), c, Resend) = {c}
  /\ Cardinality(Window(SamePhone(c), c, Hour)) <= PerHour
  /\ Cardinality(Window(SamePhone(c), c, Day)) <= PerDay
  /\ Cardinality(Window(SameIp(c), c, Hour)) <= PerIp

LEMMA LimitsSplit == LimitsHold <=> \A c \in Kept : Within(c)
BY DEF LimitsHold, Within, SamePhone, SameIp

LEMMA Lengths ==
  /\ Resend \in Nat /\ Hour \in Nat /\ Day \in Nat
  /\ PerHour \in Nat /\ PerDay \in Nat /\ PerIp \in Nat
  /\ Resend > 0 /\ Hour > 0 /\ Day > 0
BY OtpAssumption

LEMMA KeptType ==
  ASSUME TypeInv, NEW c \in Kept
  PROVE  c \in Challenges /\ row[c] \in ChallengeRow /\ row[c].at \in Nat
BY DEF Kept, TypeInv, TypeOK, ChallengeRow

\* A subset of a set within a bound is within it.
LEMMA FewerElements ==
  ASSUME NEW S, NEW T \in SUBSET S, IsFiniteSet(S), NEW n \in Nat
  PROVE  /\ Cardinality(S) <= n => Cardinality(T) <= n
         /\ Cardinality(S) < n => Cardinality(T) < n
<1>1. Cardinality(T) <= Cardinality(S) /\ IsFiniteSet(T)
  BY FS_Subset
<1>2. Cardinality(T) \in Nat /\ Cardinality(S) \in Nat
  BY <1>1, FS_CardinalityType
<1>3. QED BY <1>1, <1>2

(***************************************************************************)
(* Rows that go, or change in other columns, exceed no limit.              *)
(***************************************************************************)
LEMMA FewerRows ==
  ASSUME TypeInv, LimitInv, Kept' \subseteq Kept,
         \A c \in Kept' : /\ row'[c].phone = row[c].phone
                          /\ row'[c].ip = row[c].ip /\ row'[c].at = row[c].at
  PROVE  IsFiniteSet(Kept)' /\ LimitsHold'
<1>1. IsFiniteSet(Kept)'
  BY FS_Subset DEF LimitInv, Reserved
<1>2. ASSUME NEW c \in Kept' PROVE Within(c)'
  <2>1. SamePhone(c)' \subseteq SamePhone(c) /\ SameIp(c)' \subseteq SameIp(c)
    BY <1>2 DEF SamePhone, SameIp
  <2>2. \A span \in Nat :
          /\ Window(SamePhone(c), c, span)' \subseteq Window(SamePhone(c), c, span)
          /\ Window(SameIp(c), c, span)' \subseteq Window(SameIp(c), c, span)
    BY <1>2, <2>1 DEF Window, SamePhone, SameIp
  <2>3. \A span \in Nat : /\ IsFiniteSet(Window(SamePhone(c), c, span))
                          /\ IsFiniteSet(Window(SameIp(c), c, span))
    <3>1. \A span \in Nat : /\ Window(SamePhone(c), c, span) \subseteq Kept
                            /\ Window(SameIp(c), c, span) \subseteq Kept
      BY DEF Window, SamePhone, SameIp
    <3>2. QED BY <3>1, FS_Subset DEF LimitInv, Reserved
  <2>4. Within(c)
    BY <1>2, LimitsSplit DEF LimitInv
  <2>5. c \in Window(SamePhone(c), c, Resend)'
    BY <1>2, KeptType, Lengths DEF Window, SamePhone
  <2>6. Window(SamePhone(c), c, Resend)' = {c}
    BY <2>2, <2>4, <2>5, Lengths DEF Within
  <2>7. Cardinality(Window(SamePhone(c), c, Hour)') <= PerHour
    BY <2>2, <2>3, <2>4, FewerElements, Lengths DEF Within
  <2>8. Cardinality(Window(SamePhone(c), c, Day)') <= PerDay
    BY <2>2, <2>3, <2>4, FewerElements, Lengths DEF Within
  <2>9. Cardinality(Window(SameIp(c), c, Hour)') <= PerIp
    BY <2>2, <2>3, <2>4, FewerElements, Lengths DEF Within
  <2>10. QED BY <2>6, <2>7, <2>8, <2>9 DEF Within
<1>3. LimitsHold'
  BY <1>2 DEF LimitsHold, Within, SamePhone, SameIp
<1>4. QED BY <1>1, <1>3

\* A call that sees no more rows than before stays within its limits.
LEMMA StillWithin ==
  ASSUME TypeInv, LimitInv, NEW s \in Calls, WithinLimits(s),
         \A span \in Nat : /\ PhoneSince(s, span)' \subseteq PhoneSince(s, span)
                           /\ IpSince(s, span)' \subseteq IpSince(s, span)
  PROVE  WithinLimits(s)'
<1>1. \A span \in Nat :
        PhoneSince(s, span) \subseteq Kept /\ IpSince(s, span) \subseteq Kept
  BY DEF PhoneSince, IpSince
<1>2. \A span \in Nat :
        IsFiniteSet(PhoneSince(s, span)) /\ IsFiniteSet(IpSince(s, span))
  BY <1>1, FS_Subset DEF LimitInv, Reserved
<1>3. PhoneSince(s, Resend)' = {}
  BY Lengths DEF WithinLimits
<1>4. Cardinality(PhoneSince(s, Hour)') < PerHour
  BY <1>2, FewerElements, Lengths DEF WithinLimits
<1>5. Cardinality(PhoneSince(s, Day)') < PerDay
  BY <1>2, FewerElements, Lengths DEF WithinLimits
<1>6. Cardinality(IpSince(s, Hour)') < PerIp
  BY <1>2, FewerElements, Lengths DEF WithinLimits
<1>7. QED BY <1>3, <1>4, <1>5, <1>6 DEF WithinLimits

(***************************************************************************)
(* A step that adds no row and lets no call count keeps the limits.        *)
(***************************************************************************)
LEMMA NothingCounted ==
  ASSUME TypeInv, LimitInv, Kept' \subseteq Kept,
         \A c \in Kept' : /\ row'[c].phone = row[c].phone
                          /\ row'[c].ip = row[c].ip /\ row'[c].at = row[c].at,
         \A r \in Calls : call'[r].pc = "counted" => call'[r] = call[r]
  PROVE  LimitInv'
<1>1. ASSUME NEW r \in Calls, call'[r].pc = "counted"
      PROVE  WithinLimits(r)' /\ Locked(r)'
  <2>1. call'[r] = call[r] /\ WithinLimits(r) /\ Locked(r)
    BY <1>1 DEF LimitInv, Reserved
  <2>2. \A span \in Nat : /\ PhoneSince(r, span)' \subseteq PhoneSince(r, span)
                          /\ IpSince(r, span)' \subseteq IpSince(r, span)
    BY <2>1 DEF PhoneSince, IpSince
  <2>3. WithinLimits(r)'
    BY <2>1, <2>2, StillWithin
  <2>4. Locked(r)'
    BY <2>1 DEF Locked
  <2>5. QED BY <2>3, <2>4
<1>2. QED BY <1>1, FewerRows DEF LimitInv, Reserved

LEMMA CountLimits ==
  ASSUME TypeInv, LimitInv, NEW s \in Calls, Count(s)
  PROVE  LimitInv'
<1>1. /\ row' = row /\ WithinLimits(s) /\ Locked(s) /\ call[s].pc = "waiting"
      /\ call' = [call EXCEPT ![s].pc = "counted"] /\ call \in [Calls -> CallType]
  BY DEF Count, TypeInv, TypeOK
<1>2. \A r \in Calls : /\ call'[r].phone = call[r].phone /\ call'[r].ip = call[r].ip
                       /\ call'[r].at = call[r].at
                       /\ r # s => call'[r].pc = call[r].pc
  BY <1>1 DEF CallType
<1>3. Kept' = Kept
  BY <1>1 DEF Kept
<1>4. ASSUME NEW r \in Calls, call'[r].pc = "counted"
      PROVE  WithinLimits(r)' /\ Locked(r)'
  <2>1. WithinLimits(r)
    BY <1>1, <1>2, <1>4 DEF LimitInv, Reserved
  <2>2. \A span \in Nat : /\ PhoneSince(r, span)' = PhoneSince(r, span)
                          /\ IpSince(r, span)' = IpSince(r, span)
    BY <1>1, <1>2, <1>3 DEF PhoneSince, IpSince
  <2>3. WithinLimits(r)'
    BY <2>1, <2>2, StillWithin
  <2>4. ASSUME NEW q \in Calls \ {r}, call'[q].pc = "counted"
        PROVE  call[q].ip # call[r].ip /\ call[q].phone # call[r].phone
    <3>1. CASE r = s
      <4>1. q \in Calls \ {s} /\ call[q].pc = "counted"
        BY <1>2, <2>4, <3>1
      <4>2. QED BY <1>1, <3>1, <4>1 DEF Locked
    <3>2. CASE r # s
      <4>1. call[r].pc = "counted" /\ Locked(r)
        BY <1>2, <1>4, <3>2 DEF LimitInv, Reserved
      <4>2. CASE q = s
        <5>1. call[r].ip # call[s].ip /\ call[r].phone # call[s].phone
          BY <1>1, <3>2, <4>1 DEF Locked
        <5>2. QED BY <4>2, <5>1
      <4>3. CASE q # s
        <5>1. call[q].pc = "counted"
          BY <1>2, <2>4, <4>3
        <5>2. QED BY <2>4, <4>1, <5>1 DEF Locked
      <4>4. QED BY <4>2, <4>3
    <3>3. QED BY <3>1, <3>2
  <2>5. Locked(r)'
    BY <1>2, <2>4 DEF Locked
  <2>6. QED BY <2>3, <2>5
<1>5. LimitsHold' /\ IsFiniteSet(Kept)'
  BY <1>1, <1>3, FewerRows
<1>6. QED BY <1>4, <1>5 DEF LimitInv, Reserved

-----------------------------------------------------------------------------
(* A new row.                                                              *)

LEMMA InsertRows ==
  ASSUME TypeInv, LimitInv, NEW s \in Calls, NEW n \in Challenges, Insert(s, n)
  PROVE  /\ call[s].pc = "counted" /\ WithinLimits(s) /\ Locked(s)
         /\ call[s].at \in Nat
         /\ n \notin Kept /\ Kept' = Kept \cup {n}
         /\ row'[n].phone = call[s].phone /\ row'[n].ip = call[s].ip
         /\ row'[n].at = call[s].at
         /\ \A c \in Kept : row'[c] = row[c]
<1>1. /\ call[s].pc = "counted" /\ row[n].state = "none"
      /\ row' = [row EXCEPT ![n] = [ NoRow EXCEPT !.state = "kept",
                   !.phone = call[s].phone, !.ip = call[s].ip,
                   !.use = call[s].use, !.at = call[s].at ]]
  BY DEF Insert
<1>2. WithinLimits(s) /\ Locked(s)
  BY <1>1 DEF LimitInv, Reserved
<1>3. call[s] \in CallType /\ row \in [Challenges -> ChallengeRow]
  BY DEF TypeInv, TypeOK
<1>4. call[s].at \in Nat
  BY <1>3 DEF CallType
<1>5. /\ row'[n].state = "kept" /\ row'[n].phone = call[s].phone
      /\ row'[n].ip = call[s].ip /\ row'[n].at = call[s].at
  BY <1>1, <1>3 DEF NoRow
<1>6. \A c \in Challenges \ {n} : row'[c] = row[c]
  BY <1>1, <1>3
<1>7. n \notin Kept /\ Kept' = Kept \cup {n}
  BY <1>1, <1>5, <1>6 DEF Kept
<1>8. \A c \in Kept : row'[c] = row[c]
  BY <1>6, <1>7 DEF Kept
<1>9. QED BY <1>1, <1>2, <1>4, <1>5, <1>7, <1>8

\* One element more keeps to a bound that was not reached.
LEMMA OneMore ==
  ASSUME NEW S, NEW e, NEW T \in SUBSET (S \cup {e}), IsFiniteSet(S),
         NEW n \in Nat, Cardinality(S) < n
  PROVE  Cardinality(T) <= n
<1>1. IsFiniteSet(S \cup {e}) /\ Cardinality(S \cup {e}) \in Nat
      /\ Cardinality(S) \in Nat
  BY FS_AddElement, FS_CardinalityType
<1>2. Cardinality(S \cup {e}) <= n
  BY <1>1, FS_AddElement
<1>3. QED BY <1>1, <1>2, FewerElements

(***************************************************************************)
(* The window of a challenge which the new row falls into holds, besides   *)
(* that row, only rows the call had counted, whichever of the two came     *)
(* first; the other windows are what they were.                            *)
(***************************************************************************)
LEMMA PhoneWindows ==
  ASSUME TypeInv, LimitInv, NEW s \in Calls, NEW n \in Challenges, Insert(s, n),
         NEW c \in Kept', NEW span \in Nat, span > 0
  PROVE  \/ Window(SamePhone(c), c, span)' \subseteq PhoneSince(s, span) \cup {n}
         \/ /\ c \in Kept
            /\ Window(SamePhone(c), c, span)' \subseteq Window(SamePhone(c), c, span)
<1> DEFINE W == Window(SamePhone(c), c, span)'
<1>1. \A d \in Kept : row[d].at \in Nat
  BY KeptType
<1>2. CASE n \in W
  <2>1. /\ row'[c].phone = call[s].phone /\ call[s].at <= row'[c].at
        /\ row'[c].at \in Nat
    BY <1>1, <1>2, InsertRows DEF Window, SamePhone
  <2>2. ASSUME NEW d \in W, d # n PROVE d \in PhoneSince(s, span)
    <3>1. d \in Kept /\ row'[d] = row[d] /\ row[d].at \in Nat
      BY <1>1, <2>2, InsertRows DEF Window, SamePhone
    <3>2. row[d].phone = call[s].phone /\ row[d].at + span > row'[c].at
      BY <2>1, <2>2, <3>1 DEF Window, SamePhone
    <3>3. row[d].at + span > call[s].at
      BY <2>1, <3>1, <3>2, InsertRows
    <3>4. QED BY <3>1, <3>2, <3>3 DEF PhoneSince
  <2>3. QED BY <2>2
<1>3. CASE n \notin W
  <2>1. c # n
    <3>1. SUFFICES ASSUME c = n PROVE n \in W
      BY <1>3
    <3>2. row'[n].at \in Nat /\ n \in Kept'
      BY InsertRows
    <3>3. QED BY <3>1, <3>2 DEF Window, SamePhone
  <2>2. c \in Kept /\ row'[c] = row[c]
    BY <2>1, InsertRows
  <2>3. ASSUME NEW d \in W PROVE d \in Window(SamePhone(c), c, span)
    <3>1. d \in Kept' /\ d # n
      BY <1>3, <2>3 DEF Window, SamePhone
    <3>2. d \in Kept /\ row'[d] = row[d]
      BY <3>1, InsertRows
    <3>3. QED BY <2>2, <2>3, <3>2 DEF Window, SamePhone
  <2>4. QED BY <2>2, <2>3
<1>4. QED BY <1>2, <1>3

LEMMA IpWindows ==
  ASSUME TypeInv, LimitInv, NEW s \in Calls, NEW n \in Challenges, Insert(s, n),
         NEW c \in Kept', NEW span \in Nat, span > 0
  PROVE  \/ Window(SameIp(c), c, span)' \subseteq IpSince(s, span) \cup {n}
         \/ /\ c \in Kept
            /\ Window(SameIp(c), c, span)' \subseteq Window(SameIp(c), c, span)
<1> DEFINE W == Window(SameIp(c), c, span)'
<1>1. \A d \in Kept : row[d].at \in Nat
  BY KeptType
<1>2. CASE n \in W
  <2>1. /\ row'[c].ip = call[s].ip /\ call[s].at <= row'[c].at
        /\ row'[c].at \in Nat
    BY <1>1, <1>2, InsertRows DEF Window, SameIp
  <2>2. ASSUME NEW d \in W, d # n PROVE d \in IpSince(s, span)
    <3>1. d \in Kept /\ row'[d] = row[d] /\ row[d].at \in Nat
      BY <1>1, <2>2, InsertRows DEF Window, SameIp
    <3>2. row[d].ip = call[s].ip /\ row[d].at + span > row'[c].at
      BY <2>1, <2>2, <3>1 DEF Window, SameIp
    <3>3. row[d].at + span > call[s].at
      BY <2>1, <3>1, <3>2, InsertRows
    <3>4. QED BY <3>1, <3>2, <3>3 DEF IpSince
  <2>3. QED BY <2>2
<1>3. CASE n \notin W
  <2>1. c # n
    <3>1. SUFFICES ASSUME c = n PROVE n \in W
      BY <1>3
    <3>2. row'[n].at \in Nat /\ n \in Kept'
      BY InsertRows
    <3>3. QED BY <3>1, <3>2 DEF Window, SameIp
  <2>2. c \in Kept /\ row'[c] = row[c]
    BY <2>1, InsertRows
  <2>3. ASSUME NEW d \in W PROVE d \in Window(SameIp(c), c, span)
    <3>1. d \in Kept' /\ d # n
      BY <1>3, <2>3 DEF Window, SameIp
    <3>2. d \in Kept /\ row'[d] = row[d]
      BY <3>1, InsertRows
    <3>3. QED BY <2>2, <2>3, <3>2 DEF Window, SameIp
  <2>4. QED BY <2>2, <2>3
<1>4. QED BY <1>2, <1>3

LEMMA InsertLimits ==
  ASSUME TypeInv, LimitInv, NEW s \in Calls, NEW n \in Challenges, Insert(s, n)
  PROVE  LimitInv'
<1>1. IsFiniteSet(Kept) /\ LimitsHold
  BY DEF LimitInv, Reserved
<1>2. IsFiniteSet(Kept)'
  BY <1>1, InsertRows, FS_AddElement
<1>3. \A span \in Nat :
        /\ IsFiniteSet(PhoneSince(s, span)) /\ IsFiniteSet(IpSince(s, span))
        /\ \A c \in Kept : /\ IsFiniteSet(Window(SamePhone(c), c, span))
                           /\ IsFiniteSet(Window(SameIp(c), c, span))
  <2>1. \A span \in Nat :
          /\ PhoneSince(s, span) \subseteq Kept /\ IpSince(s, span) \subseteq Kept
          /\ \A c \in Kept : /\ Window(SamePhone(c), c, span) \subseteq Kept
                             /\ Window(SameIp(c), c, span) \subseteq Kept
    BY DEF PhoneSince, IpSince, Window, SamePhone, SameIp
  <2>2. QED BY <1>1, <2>1, FS_Subset
<1>4. ASSUME NEW c \in Kept' PROVE Within(c)'
  <2>1. c \in Kept => Within(c)
    BY <1>1, LimitsSplit
  <2>2. c \in Window(SamePhone(c), c, Resend)'
    <3>1. row'[c].at \in Nat
      BY <1>4, InsertRows, KeptType
    <3>2. QED BY <1>4, <3>1, Lengths DEF Window, SamePhone
  <2>3. Window(SamePhone(c), c, Resend)' = {c}
    <3>1. \/ Window(SamePhone(c), c, Resend)' \subseteq PhoneSince(s, Resend) \cup {n}
          \/ /\ c \in Kept
             /\ Window(SamePhone(c), c, Resend)'
                  \subseteq Window(SamePhone(c), c, Resend)
      BY PhoneWindows, Lengths
    <3>2. PhoneSince(s, Resend) = {}
      BY InsertRows DEF WithinLimits
    <3>3. c \in Kept => Window(SamePhone(c), c, Resend) = {c}
      BY <2>1 DEF Within
    <3>4. QED BY <2>2, <3>1, <3>2, <3>3
  <2>4. ASSUME NEW span \in Nat, span > 0, NEW limit \in Nat,
               Cardinality(PhoneSince(s, span)) < limit,
               c \in Kept => Cardinality(Window(SamePhone(c), c, span)) <= limit
        PROVE  Cardinality(Window(SamePhone(c), c, span)') <= limit
    <3>1. CASE Window(SamePhone(c), c, span)' \subseteq PhoneSince(s, span) \cup {n}
      BY <1>3, <2>4, <3>1, OneMore
    <3>2. CASE /\ c \in Kept
               /\ Window(SamePhone(c), c, span)'
                    \subseteq Window(SamePhone(c), c, span)
      BY <1>3, <2>4, <3>2, FewerElements
    <3>3. QED BY <2>4, <3>1, <3>2, PhoneWindows
  <2>5. ASSUME NEW span \in Nat, span > 0, NEW limit \in Nat,
               Cardinality(IpSince(s, span)) < limit,
               c \in Kept => Cardinality(Window(SameIp(c), c, span)) <= limit
        PROVE  Cardinality(Window(SameIp(c), c, span)') <= limit
    <3>1. CASE Window(SameIp(c), c, span)' \subseteq IpSince(s, span) \cup {n}
      BY <1>3, <2>5, <3>1, OneMore
    <3>2. CASE /\ c \in Kept
               /\ Window(SameIp(c), c, span)' \subseteq Window(SameIp(c), c, span)
      BY <1>3, <2>5, <3>2, FewerElements
    <3>3. QED BY <2>5, <3>1, <3>2, IpWindows
  <2>6. /\ Cardinality(PhoneSince(s, Hour)) < PerHour
        /\ Cardinality(PhoneSince(s, Day)) < PerDay
        /\ Cardinality(IpSince(s, Hour)) < PerIp
    BY InsertRows DEF WithinLimits
  <2>7. Cardinality(Window(SamePhone(c), c, Hour)') <= PerHour
    BY <2>1, <2>4, <2>6, Lengths DEF Within
  <2>8. Cardinality(Window(SamePhone(c), c, Day)') <= PerDay
    BY <2>1, <2>4, <2>6, Lengths DEF Within
  <2>9. Cardinality(Window(SameIp(c), c, Hour)') <= PerIp
    BY <2>1, <2>5, <2>6, Lengths DEF Within
  <2>10. QED BY <2>3, <2>7, <2>8, <2>9 DEF Within
<1>5. LimitsHold'
  BY <1>4 DEF LimitsHold, Within, SamePhone, SameIp
<1>6. \A r \in Calls : call'[r].pc = "counted" => r # s /\ call'[r] = call[r]
  BY DEF Insert, NoCall, TypeInv, TypeOK
<1>7. ASSUME NEW r \in Calls, call'[r].pc = "counted"
      PROVE  WithinLimits(r)' /\ Locked(r)'
  <2>1. r # s /\ call'[r] = call[r] /\ WithinLimits(r) /\ Locked(r)
    BY <1>6, <1>7 DEF LimitInv, Reserved
  <2>2. call[s].phone # call[r].phone /\ call[s].ip # call[r].ip
    BY <2>1, InsertRows DEF Locked
  <2>3. \A span \in Nat : /\ PhoneSince(r, span)' \subseteq PhoneSince(r, span)
                          /\ IpSince(r, span)' \subseteq IpSince(r, span)
    <3>1. \A d \in Kept' : \/ d \in Kept /\ row'[d] = row[d]
                           \/ row'[d].phone = call[s].phone /\ row'[d].ip = call[s].ip
      BY InsertRows
    <3>2. QED BY <2>1, <2>2, <3>1 DEF PhoneSince, IpSince
  <2>4. WithinLimits(r)'
    BY <2>1, <2>3, StillWithin
  <2>5. Locked(r)'
    BY <1>6, <2>1 DEF Locked
  <2>6. QED BY <2>4, <2>5
<1>8. QED BY <1>2, <1>5, <1>7 DEF LimitInv, Reserved

-----------------------------------------------------------------------------

LEMMA NextLimits ==
  ASSUME TypeInv, LimitInv, [Next]_vars
  PROVE  LimitInv'
<1>1. ASSUME row' = row, \A r \in Calls : call'[r].pc = "counted" => call'[r] = call[r]
      PROVE  LimitInv'
  <2>1. Kept' = Kept
    BY <1>1 DEF Kept
  <2>2. QED BY <1>1, <2>1, NothingCounted
<1>2. CASE Tick \/ UNCHANGED vars
  BY <1>1, <1>2 DEF Tick, vars
<1>3. ASSUME NEW s \in Calls, Sent(s)
      PROVE  LimitInv'
  <2>1. /\ Kept' \subseteq Kept
        /\ \A c \in Kept' : /\ row'[c].phone = row[c].phone
                            /\ row'[c].ip = row[c].ip /\ row'[c].at = row[c].at
    BY <1>3, SentRows DEF Kept, Sent, TypeInv, TypeOK, ChallengeRow
  <2>2. \A r \in Calls : call'[r].pc = "counted" => call'[r] = call[r]
    BY <1>3 DEF Sent, NoCall, TypeInv, TypeOK
  <2>3. QED BY <2>1, <2>2, NothingCounted
<1>4. ASSUME NEW s \in Calls, NEW c \in Challenges, NEW u \in Uses, Attempt(s, c, u)
      PROVE  LimitInv'
  <2>1. /\ Kept' \subseteq Kept
        /\ \A d \in Kept' : /\ row'[d].phone = row[d].phone
                            /\ row'[d].ip = row[d].ip /\ row'[d].at = row[d].at
    BY <1>4 DEF Attempt, Counted, Kept, TypeInv, TypeOK, ChallengeRow
  <2>2. \A r \in Calls : call'[r].pc = "counted" => call'[r] = call[r]
    BY <1>4 DEF Attempt, NoCall, TypeInv, TypeOK
  <2>3. QED BY <2>1, <2>2, NothingCounted
<1>5. ASSUME NEW s \in Calls, Consume(s)
      PROVE  LimitInv'
  <2>1. /\ Kept' \subseteq Kept
        /\ \A d \in Kept' : /\ row'[d].phone = row[d].phone
                            /\ row'[d].ip = row[d].ip /\ row'[d].at = row[d].at
    BY <1>5 DEF Consume, Kept, TypeInv, TypeOK, ChallengeRow
  <2>2. \A r \in Calls : call'[r].pc = "counted" => call'[r] = call[r]
    BY <1>5 DEF Consume, NoCall, TypeInv, TypeOK
  <2>3. QED BY <2>1, <2>2, NothingCounted
<1>6. ASSUME NEW s \in Calls, GiveUp(s) \/ Check(s)
      PROVE  LimitInv'
  <2>1. \A r \in Calls : call'[r].pc = "counted" => call'[r] = call[r]
    BY <1>6 DEF GiveUp, Check, NoCall, TypeInv, TypeOK, CallType
  <2>2. QED BY <1>1, <1>6, <2>1 DEF GiveUp, Check
<1>7. ASSUME NEW s \in Calls, NEW p \in Phones, NEW i \in Ips, NEW u \in Uses,
             RequestChallenge(s, p, i, u)
      PROVE  LimitInv'
  <2>1. \A r \in Calls : call'[r].pc = "counted" => call'[r] = call[r]
    BY <1>7 DEF RequestChallenge, NoCall, TypeInv, TypeOK
  <2>2. QED BY <1>1, <1>7, <2>1 DEF RequestChallenge
<1>8. QED
  BY <1>2, <1>3, <1>4, <1>5, <1>6, <1>7, Steps, CountLimits, InsertLimits

LEMMA InitLimits == Init => LimitInv
<1> SUFFICES ASSUME Init PROVE LimitInv
  OBVIOUS
<1>1. Kept = {} /\ \A s \in Calls : call[s].pc # "counted"
  BY DEF Init, Kept, NoRow, NoCall
<1>2. QED BY <1>1, FS_EmptySet DEF LimitInv, Reserved, LimitsHold

(***************************************************************************)
(* No phone and no address gets more codes than its limits in any window,  *)
(* whatever the order in which requests get their locks.                   *)
(***************************************************************************)
THEOREM LimitsAlwaysHold == Spec => []LimitsHold
<1>1. Init => TypeInv /\ LimitInv
  BY InitType, InitLimits
<1>2. TypeInv /\ LimitInv /\ [Next]_vars => (TypeInv /\ LimitInv)'
  BY NextType, NextLimits
<1>3. LimitInv => LimitsHold
  BY DEF LimitInv
<1>4. QED BY <1>1, <1>2, <1>3, PTL DEF Spec
=============================================================================
