--------------------------- MODULE FeedbackProofs ---------------------------
(***************************************************************************)
(* Proofs about feedback, for any accounts, reports and requests, any      *)
(* limits, and any number of updates and faults.                           *)
(***************************************************************************)
EXTENDS FeedbackProps, FiniteSetTheorems, TLAPS

\* At the server there are reports, and requests with reports, of the account
\* that wrote them on the device only, whoever is signed in by now.
Authored ==
  /\ \A r \in Reports :
       /\ outbox[r].state = "none" <=> outbox[r].owner = None
       /\ r \in Stored => report[r].owner = outbox[r].owner
  /\ \A q \in Requests : request[q].pc # "none" =>
       /\ request[q].owner \in Owners
       /\ request[q].id # 0 => outbox[request[q].id].owner = request[q].owner
  /\ run # Idle => /\ run.owner \in Owners
                   /\ \A r \in run.todo : outbox[r].owner = run.owner

\* The delivery waits for one request, and nobody else does; a request that
\* carries a report is under way with that report.
Awaiting ==
  /\ \A q \in Requests :
       /\ request[q].awaited => run.pc = "wait" /\ request[q].pc # "none"
       /\ request[q].pc \in {"answered", "refused"} => request[q].awaited
       /\ request[q].pc \in {"count", "expire", "wait", "found", "insert"} =>
            request[q].id # 0
  /\ \A p, q \in Requests : request[p].awaited /\ request[q].awaited => p = q

\* What an answer says of a report the server has stored, and it is no older
\* than what the device knows.
Answered(q) ==
  request[q].pc = "answered" =>
    \A r \in Reports : request[q].answer[r] >= 0 =>
      /\ report[r].owner = request[q].owner
      /\ request[q].answer[r] <= report[r].edit
      /\ outbox[r].state = "sent" => outbox[r].edit <= request[q].answer[r]

Answering == \A q \in Requests : Answered(q)

\* The reports of an owner that count for certain.
Recent(o) == { r \in Stored : report[r].owner = o /\ report[r].recent }

\* The lock of an owner has one holder, and what it found still holds.
InLock(q) == request[q].pc \in {"found", "insert"}
Holding ==
  /\ \A p, q \in Requests :
       InLock(p) /\ InLock(q) /\ request[p].owner = request[q].owner => p = q
  /\ \A q \in Requests :
       /\ request[q].pc = "found" => report[request[q].id].owner = request[q].owner
       /\ request[q].pc = "insert" => Cardinality(Recent(request[q].owner)) < PerOwner

\* An attempt that was let through is counted.
Counted == passed <= counter.n

IInv == /\ TypeOK /\ Authored /\ Awaiting /\ Answering /\ ReceiptsAreReal
        /\ ShownBelong /\ Holding /\ Counted /\ LimitsHold

-----------------------------------------------------------------------------
(* Numbers and sets.                                                       *)

\* The newest of some reports is one of them.
LEMMA MaxIn ==
  ASSUME NEW S \in SUBSET Reports, S # {}
  PROVE  Max(S) \in S
<1>a. Last \in Nat
  BY FeedbackAssumption
<1>1. PICK less : less = { p \in Nat \X Nat : p[1] < p[2] }
  OBVIOUS
<1>2. IsWellFoundedOn(less, Nat)
  BY <1>1, NatLessThanWellFounded DEF OpToRel
<1>3. PICK T : T = { Last - s : s \in S }
  OBVIOUS
<1>4. T \subseteq Nat /\ T # {}
  BY <1>a, <1>3 DEF Reports
<1>5. PICK t \in T : \A u \in T : ~(<<u, t>> \in less)
  BY <1>2, <1>4, WFMin
<1>6. PICK x \in S : t = Last - x
  BY <1>3
<1>7. ASSUME NEW y \in S PROVE y <= x
  <2>1. PICK p : p = <<Last - y, t>>
    OBVIOUS
  <2>2. Last - y \in T /\ Last - y \in Nat /\ t \in Nat
    BY <1>3, <1>4
  <2>3. p \in Nat \X Nat /\ p[1] = Last - y /\ p[2] = t /\ p \notin less
    BY <1>5, <2>1, <2>2
  <2>4. ~(Last - y < t)
    BY <1>1, <2>3
  <2>5. QED BY <1>a, <1>6, <2>4 DEF Reports
<1>8. \A y \in S : x >= y
  BY <1>a, <1>7 DEF Reports
<1>9. QED BY <1>8 DEF Max

LEMMA MinOf ==
  ASSUME NEW a \in Nat, NEW b \in Nat
  PROVE  Min({a, b}) = IF a <= b THEN a ELSE b
<1>1. PICK m \in {a, b} : m = Min({a, b}) /\ \A y \in {a, b} : m <= y
  <2>1. \E x \in {a, b} : \A y \in {a, b} : x <= y
    OBVIOUS
  <2>2. QED BY <2>1 DEF Min
<1>2. QED BY <1>1

\* Sets of reports are finite, and one more report adds one at most.
LEMMA SomeReports ==
  ASSUME NEW S \in SUBSET Reports
  PROVE  /\ IsFiniteSet(S) /\ Cardinality(S) \in Nat
         /\ \A T : T \subseteq S => Cardinality(T) <= Cardinality(S)
         /\ \A r, T : T \subseteq S \cup {r} => Cardinality(T) <= Cardinality(S) + 1
<1>1. Last \in Nat
  BY FeedbackAssumption
<1>2. IsFiniteSet(Reports)
  BY <1>1, FS_Interval DEF Reports
<1>3. IsFiniteSet(S)
  BY <1>2, FS_Subset
<1>4. Cardinality(S) \in Nat
  BY <1>3, FS_CardinalityType
<1>5. ASSUME NEW T, T \subseteq S PROVE Cardinality(T) <= Cardinality(S)
  BY <1>3, <1>5, FS_Subset
<1>6. ASSUME NEW r, NEW T, T \subseteq S \cup {r}
      PROVE  Cardinality(T) <= Cardinality(S) + 1
  <2>1. IsFiniteSet(S \cup {r})
    BY <1>3, FS_AddElement
  <2>2. Cardinality(S \cup {r}) <= Cardinality(S) + 1
    <3>1. Cardinality(S \cup {r}) =
            IF r \in S THEN Cardinality(S) ELSE Cardinality(S) + 1
      BY <1>3, FS_AddElement
    <3>2. QED BY <1>4, <3>1
  <2>3. Cardinality(T) <= Cardinality(S \cup {r})
    BY <1>6, <2>1, FS_Subset
  <2>4. Cardinality(T) \in Nat /\ Cardinality(S \cup {r}) \in Nat
    <3>1. IsFiniteSet(T)
      BY <1>6, <2>1, FS_Subset
    <3>2. QED BY <2>1, <3>1, FS_CardinalityType
  <2>5. QED BY <1>4, <2>2, <2>3, <2>4
<1>7. QED BY <1>3, <1>4, <1>5, <1>6

-----------------------------------------------------------------------------
(* Types.                                                                  *)

Answers == [Reports -> -1 .. MaxEdits]
RequestType ==
  [ pc : {"none", "count", "expire", "wait", "found", "insert", "mine",
          "answered", "refused"},
    awaited : BOOLEAN, owner : Owners \cup {None}, id : 0 .. Last,
    answer : Answers ]
RunType == [ pc : {"idle", "config", "next", "wait"},
             owner : Owners \cup {None}, todo : SUBSET Reports ]

LEMMA Constants ==
  /\ Last \in Nat /\ Last > 0 /\ PerIp \in Nat /\ PerIp > 0
  /\ PerOwner \in Nat /\ PerOwner > 0 /\ MaxEdits \in Nat /\ MaxFaults \in Nat
  /\ None \notin Owners
BY FeedbackAssumption

LEMMA Nothing ==
  /\ NoRequest \in RequestType /\ NoRequest.answer \in Answers
  /\ Idle \in RunType /\ NotSaved \in Saved /\ NoRow \in Row
  /\ NoRequest.pc = "none" /\ NoRequest.awaited = FALSE /\ NoRequest.id = 0
  /\ NoRequest.owner = None /\ \A r \in Reports : NoRequest.answer[r] = -1
  /\ Idle.pc = "idle" /\ Idle.todo = {}
<1>1. NoRequest.answer \in Answers /\ \A r \in Reports : NoRequest.answer[r] = -1
  BY Constants DEF NoRequest, Answers
<1>2. NoRequest \in RequestType
  BY Constants DEF NoRequest, RequestType, Answers
<1>3. QED BY <1>1, <1>2, Constants
          DEF NoRequest, RunType, Idle, NotSaved, Saved, NoRow, Row

LEMMA Typed ==
  TypeOK <=>
    /\ outbox \in [Reports -> Saved]
    /\ owner \in Owners /\ shown \subseteq Reports /\ reload \subseteq Owners
    /\ run \in RunType /\ request \in [Requests -> RequestType]
    /\ counter \in [n : 0 .. PerIp + 1, ends : BOOLEAN]
    /\ report \in [Reports -> Row]
    /\ passed \in 0 .. PerIp + 1 /\ faults \in 0 .. MaxFaults
BY DEF TypeOK, RunType, RequestType, Answers

LEMMA TypedNext ==
  TypeOK' <=>
    /\ outbox' \in [Reports -> Saved]
    /\ owner' \in Owners /\ shown' \subseteq Reports /\ reload' \subseteq Owners
    /\ run' \in RunType /\ request' \in [Requests -> RequestType]
    /\ counter' \in [n : 0 .. PerIp + 1, ends : BOOLEAN]
    /\ report' \in [Reports -> Row]
    /\ passed' \in 0 .. PerIp + 1 /\ faults' \in 0 .. MaxFaults
BY DEF TypeOK, RunType, RequestType, Answers

\* What the end of a request leaves in its slot.
LEMMA Finished ==
  ASSUME request \in [Requests -> RequestType], NEW q \in Requests,
         NEW pc \in {"answered", "refused"}, NEW a \in Answers, Finish(q, pc, a)
  PROVE  /\ request' \in [Requests -> RequestType]
         /\ \A p \in Requests \ {q} : request'[p] = request[p]
         /\ \/ request'[q] = NoRequest
            \/ /\ request[q].awaited /\ request'[q].awaited
               /\ request'[q].pc = pc /\ request'[q].answer = a
               /\ request'[q].owner = request[q].owner
               /\ request'[q].id = request[q].id
<1>1. PICK f : f = [request[q] EXCEPT !.pc = pc, !.answer = a]
  OBVIOUS
<1>2. f \in RequestType
  BY <1>1 DEF RequestType
<1>3. request' = [request EXCEPT ![q] = IF ~request[q].awaited THEN NoRequest ELSE f]
  BY <1>1 DEF Finish
<1>4. f.pc = pc /\ f.answer = a /\ f.awaited = request[q].awaited
      /\ f.owner = request[q].owner /\ f.id = request[q].id
  BY <1>1 DEF RequestType
<1>5. request' \in [Requests -> RequestType]
  BY <1>2, <1>3, Nothing
<1>6. QED BY <1>3, <1>4, <1>5 DEF RequestType

LEMMA Proceeded ==
  ASSUME request \in [Requests -> RequestType], NEW q \in Requests,
         NEW pc \in {"expire", "wait", "found", "insert"}, Proceed(q, pc)
  PROVE  /\ request' \in [Requests -> RequestType]
         /\ \A p \in Requests \ {q} : request'[p] = request[p]
         /\ request'[q].pc = pc /\ request'[q].awaited = request[q].awaited
         /\ request'[q].owner = request[q].owner
         /\ request'[q].id = request[q].id
BY DEF Proceed, RequestType

\* The slots after the end of a delivery.
LEMMA Stopped ==
  ASSUME TypeOK, Stop
  PROVE  /\ run' = Idle /\ request' \in [Requests -> RequestType]
         /\ UNCHANGED <<outbox, owner, shown, counter, report, passed>>
         /\ \A q \in Requests :
              \/ request'[q] = NoRequest
              \/ /\ request[q].pc \notin {"answered", "refused"}
                 /\ request'[q].pc = request[q].pc /\ ~request'[q].awaited
                 /\ request'[q].owner = request[q].owner
                 /\ request'[q].id = request[q].id
<1>1. ASSUME NEW q \in Requests
      PROVE  /\ Abandoned(q) \in RequestType
             /\ \/ Abandoned(q) = NoRequest
                \/ /\ request[q].pc \notin {"answered", "refused"}
                   /\ Abandoned(q).pc = request[q].pc /\ ~Abandoned(q).awaited
                   /\ Abandoned(q).owner = request[q].owner
                   /\ Abandoned(q).id = request[q].id
  BY Typed, Nothing DEF Abandoned, RequestType
<1>2. request' = [q \in Requests |-> Abandoned(q)]
  BY DEF Stop
<1>3. QED BY <1>1, <1>2 DEF Stop, server

\* The request that is sent.
LEMMA SentRequest ==
  ASSUME TypeOK, NEW q \in Requests, Send(q)
  PROVE  /\ run.pc = "next" /\ request[q] = NoRequest
         /\ run' = [run EXCEPT !.pc = "wait"] /\ run' \in RunType
         /\ request' \in [Requests -> RequestType]
         /\ \A p \in Requests \ {q} : request'[p] = request[p]
         /\ request'[q].awaited /\ request'[q].owner = run.owner
         /\ \/ request'[q].pc = "mine" /\ request'[q].id = 0
            \/ request'[q].pc = "count" /\ request'[q].id \in run.todo
<1>1. /\ run.pc = "next" /\ request[q] = NoRequest
      /\ run' = [run EXCEPT !.pc = "wait"]
  BY DEF Send
<1>2. run' \in RunType
  BY <1>1, Typed DEF RunType
<1>3. PICK f : f = LET r == [NoRequest EXCEPT !.awaited = TRUE, !.owner = run.owner] IN
                     IF run.todo = {} THEN [r EXCEPT !.pc = "mine"]
                     ELSE [r EXCEPT !.pc = "count", !.id = Max(run.todo)]
  OBVIOUS
<1>4. request' = [request EXCEPT ![q] = f]
  BY <1>3 DEF Send
<1>5. run.todo \in SUBSET Reports /\ run.owner \in Owners \cup {None}
  BY Typed DEF RunType
<1>6. CASE run.todo = {}
  <2>1. f = [NoRequest EXCEPT !.awaited = TRUE, !.owner = run.owner, !.pc = "mine"]
    BY <1>3, <1>6, Zenon DEF NoRequest
  <2>2. /\ f \in RequestType /\ f.awaited /\ f.owner = run.owner
        /\ f.pc = "mine" /\ f.id = 0
    BY <2>1, <1>5, Nothing DEF RequestType
  <2>3. QED BY <1>1, <1>2, <1>4, <2>2, Typed
<1>7. CASE run.todo # {}
  <2>1. PICK i : i = Max(run.todo)
    OBVIOUS
  <2>2. i \in run.todo /\ i \in 0 .. Last
    BY <1>5, <1>7, <2>1, MaxIn, Constants DEF Reports
  <2>3. f = [NoRequest EXCEPT !.awaited = TRUE, !.owner = run.owner,
                              !.pc = "count", !.id = i]
    BY <1>3, <1>7, <2>1 DEF NoRequest
  <2>4. /\ f \in RequestType /\ f.awaited /\ f.owner = run.owner
        /\ f.pc = "count" /\ f.id = i
    BY <2>2, <2>3, <1>5, Nothing DEF RequestType
  <2>5. QED BY <1>1, <1>2, <1>4, <2>2, <2>4, Typed
<1>8. QED BY <1>6, <1>7

\* What an answer makes of the reports on the device.
LEMMA Received ==
  ASSUME TypeOK, NEW q \in Requests, Receive(q)
  PROVE  /\ request[q].awaited /\ request[q].pc = "answered"
         /\ request' = [request EXCEPT ![q] = NoRequest]
         /\ outbox' \in [Reports -> Saved]
         /\ \A r \in Reports :
              /\ outbox'[r].owner = outbox[r].owner
              /\ \/ outbox'[r] = outbox[r]
                 \/ /\ outbox[r].state \in {"queued", "sent"}
                    /\ request[q].answer[r] >= 0
                    /\ outbox'[r].state = "sent"
                    /\ outbox'[r].edit = request[q].answer[r]
              /\ outbox'[r].state = "sent" /\ request[q].answer[r] >= 0 =>
                   outbox'[r].edit = request[q].answer[r]
         /\ \/ run' = Idle
            \/ /\ run' = [run EXCEPT !.pc = "next",
                                     !.todo = run.todo \ {request[q].id}]
               /\ reload' = reload
         /\ reload' \in {reload, reload \cup {request[q].owner}}
         /\ UNCHANGED <<owner, shown, counter, report, passed, faults>>
<1>1. /\ request[q].awaited /\ request[q].pc = "answered"
      /\ request' = [request EXCEPT ![q] = NoRequest]
      /\ UNCHANGED <<owner, shown, counter, report, passed, faults>>
  BY DEF Receive, server
<1>2. /\ \/ run' = Idle
         \/ /\ run' = [run EXCEPT !.pc = "next",
                                  !.todo = run.todo \ {request[q].id}]
            /\ reload' = reload
      /\ reload' \in {reload, reload \cup {request[q].owner}}
  BY DEF Receive
<1>3. PICK a \in Answers : a = request[q].answer
  BY Typed DEF RequestType
<1>4. outbox' = [r \in Reports |->
         IF outbox[r].state \in {"queued", "sent"} /\ a[r] >= 0
         THEN [outbox[r] EXCEPT !.state = "sent", !.edit = a[r],
                !.attached = outbox[r].attached /\ request[q].id = 0]
         ELSE outbox[r]]
  BY <1>3 DEF Receive, Acknowledged
<1>5. ASSUME NEW r \in Reports
      PROVE  /\ outbox'[r] \in Saved
             /\ outbox'[r].owner = outbox[r].owner
             /\ \/ outbox'[r] = outbox[r]
                \/ /\ outbox[r].state \in {"queued", "sent"}
                   /\ a[r] >= 0
                   /\ outbox'[r].state = "sent"
                   /\ outbox'[r].edit = a[r]
             /\ outbox'[r].state = "sent" /\ a[r] >= 0 => outbox'[r].edit = a[r]
  <2>1. outbox[r] \in Saved /\ a[r] \in -1 .. MaxEdits
    BY Typed DEF Answers
  <2>2. CASE outbox[r].state \in {"queued", "sent"} /\ a[r] >= 0
    <3>1. PICK b \in BOOLEAN : b = (outbox[r].attached /\ request[q].id = 0)
      OBVIOUS
    <3>2. outbox'[r] = [outbox[r] EXCEPT !.state = "sent", !.edit = a[r],
                                         !.attached = b]
      BY <1>4, <2>2, <3>1
    <3>3. a[r] \in 0 .. MaxEdits
      BY <2>1, <2>2, Constants
    <3>4. QED BY <2>1, <2>2, <3>2, <3>3 DEF Saved
  <2>3. CASE ~(outbox[r].state \in {"queued", "sent"} /\ a[r] >= 0)
    <3>1. outbox'[r] = outbox[r]
      BY <1>4, <2>3
    <3>2. QED BY <2>1, <2>3, <3>1
  <2>4. QED BY <2>2, <2>3
<1>6. outbox' \in [Reports -> Saved]
  <2>1. outbox' = [r \in Reports |-> outbox'[r]]
    BY <1>4
  <2>2. QED BY <2>1, <1>5
<1>7. QED BY <1>1, <1>2, <1>3, <1>5, <1>6

LEMMA CountedAs ==
  ASSUME TypeOK, NEW q \in Requests, Count(q)
  PROVE  /\ request[q].pc = "count"
         /\ counter' = [counter EXCEPT !.n =
              IF counter.n <= PerIp THEN counter.n + 1 ELSE PerIp + 1]
         /\ \/ /\ counter.n < PerIp
               /\ passed' = IF passed <= PerIp THEN passed + 1 ELSE PerIp + 1
               /\ \E pc \in {"expire", "wait"} : Proceed(q, pc)
            \/ Refuse(q) /\ passed' = passed
         /\ UNCHANGED <<outbox, owner, shown, reload, run, report, faults>>
<1>1. PICK n : n = Min({counter.n + 1, PerIp + 1})
  OBVIOUS
<1>2. counter.n \in 0 .. PerIp + 1 /\ passed \in 0 .. PerIp + 1
  BY Typed
<1>3. n = IF counter.n <= PerIp THEN counter.n + 1 ELSE PerIp + 1
  BY <1>1, <1>2, Constants, MinOf
<1>4. Min({passed + 1, PerIp + 1}) = IF passed <= PerIp THEN passed + 1 ELSE PerIp + 1
  BY <1>2, Constants, MinOf
<1>5. /\ request[q].pc = "count" /\ counter' = [counter EXCEPT !.n = n]
      /\ \/ LetThrough(n) /\ passed' = Min({passed + 1, PerIp + 1})
            /\ Proceed(q, IF n = 1 THEN "expire" ELSE "wait")
         \/ ~LetThrough(n) /\ Refuse(q) /\ UNCHANGED passed
      /\ UNCHANGED <<device, report, faults>>
  BY <1>1 DEF Count
<1>6. LetThrough(n) => counter.n < PerIp
  BY <1>2, <1>3, Constants DEF LetThrough
<1>7. Proceed(q, IF n = 1 THEN "expire" ELSE "wait") =>
        \E pc \in {"expire", "wait"} : Proceed(q, pc)
  OBVIOUS
<1>8. QED BY <1>3, <1>4, <1>5, <1>6, <1>7 DEF device

LEMMA Looked ==
  ASSUME NEW q \in Requests, Look(q)
  PROVE  /\ request[q].pc = "wait" /\ Locked(q)
         /\ \/ /\ report[request[q].id].owner = request[q].owner
               /\ Proceed(q, "found")
            \/ /\ Proceed(q, "insert")
               /\ \E n \in Counts(request[q].owner) : ~(n >= PerOwner)
            \/ Refuse(q)
         /\ UNCHANGED <<outbox, owner, shown, reload, run, counter, report,
                        passed, faults>>
BY DEF Look, device, server

LEMMA StoredAs ==
  ASSUME TypeOK, NEW q \in Requests, Store(q), Awaiting
  PROVE  LET r == request[q].id IN
         /\ r \in Reports /\ request[q].pc \in {"found", "insert"}
         /\ \/ Refuse(q) /\ report' = report
            \/ /\ \/ request[q].pc = "found" /\ report' = report
                  \/ /\ request[q].pc = "insert" /\ r \notin Stored
                     /\ report' = [report EXCEPT ![r] =
                          [owner |-> request[q].owner, edit |-> 0, recent |-> TRUE]]
               /\ Finish(q, "answered",
                         [NoRequest.answer EXCEPT ![r] = report'[r].edit])
         /\ UNCHANGED <<outbox, owner, shown, reload, run, counter, passed, faults>>
<1>1. request[q].pc \in {"found", "insert"} /\ request[q].id # 0
  BY DEF Store, Awaiting
<1>2. request[q].id \in 0 .. Last
  BY Typed DEF RequestType
<1>3. request[q].id \in Reports
  BY <1>1, <1>2, Constants DEF Reports
<1>4. QED BY <1>1, <1>3, Zenon DEF Store, device

LEMMA StoredTyped ==
  ASSUME TypeOK, NEW q \in Requests, Store(q), Awaiting
  PROVE  /\ report' \in [Reports -> Row]
         /\ \/ Refuse(q)
            \/ \E a \in Answers :
                 /\ a = [NoRequest.answer EXCEPT ![request[q].id] =
                                                report'[request[q].id].edit]
                 /\ Finish(q, "answered", a)
<1>t. report \in [Reports -> Row] /\ request \in [Requests -> RequestType]
  BY Typed
<1>1. PICK r \in Reports : r = request[q].id
  BY StoredAs
<1>2. report' \in [Reports -> Row]
  <2>1. request[q].owner \in Owners \cup {None}
    BY <1>t DEF RequestType
  <2>2. [owner |-> request[q].owner, edit |-> 0, recent |-> TRUE] \in Row
    BY <2>1, Constants DEF Row
  <2>3. \/ report' = report
        \/ report' = [report EXCEPT ![r] =
             [owner |-> request[q].owner, edit |-> 0, recent |-> TRUE]]
    BY <1>1, StoredAs
  <2>4. QED BY <1>t, <2>2, <2>3
<1>3. CASE ~Refuse(q)
  <2>1. PICK a : a = [NoRequest.answer EXCEPT ![r] = report'[r].edit]
    OBVIOUS
  <2>2. Finish(q, "answered", a)
    BY <1>1, <1>3, <2>1, StoredAs, Zenon
  <2>3. report'[r].edit \in -1 .. MaxEdits
    BY <1>2, Constants DEF Row
  <2>4. a \in Answers
    BY <2>1, <2>3, Nothing DEF Answers
  <2>5. QED BY <1>1, <1>2, <2>1, <2>2, <2>4
<1>4. QED BY <1>2, <1>3

\* Every step is of one of these kinds.
LEMMA Actions ==
  ASSUME Next
  PROVE  \/ \E r \in Reports : Submit(r) \/ Discard(r) \/ AdminUpdate(r) \/ Age(r)
         \/ \E o \in Owners : Activate(o) \/ Listed(o)
         \/ Refresh \/ Deliver \/ WindowEnds
         \/ Stop /\ faults' \in {faults, faults + 1}
              /\ (faults' # faults => faults < MaxFaults)
              /\ (run.pc = "config" \/ run.pc = "wait"
                    \/ \E q \in Requests : request[q].awaited)
         \/ \E q \in Requests :
              \/ Send(q) \/ Receive(q) \/ Count(q) \/ Expire(q) \/ Look(q)
              \/ Store(q) \/ Mine(q) \/ Cut(q)
BY DEF Next, Refused, TimedOut

LEMMA TypeStep ==
  ASSUME TypeOK, Authored, Awaiting, [Next]_vars
  PROVE  TypeOK'
<1>1. CASE UNCHANGED vars
  BY <1>1 DEF vars, device, server, TypeOK
<1>2. CASE Next
  <2>t. /\ outbox \in [Reports -> Saved]
        /\ owner \in Owners /\ shown \subseteq Reports /\ reload \subseteq Owners
        /\ run \in RunType /\ request \in [Requests -> RequestType]
        /\ counter \in [n : 0 .. PerIp + 1, ends : BOOLEAN]
        /\ report \in [Reports -> Row]
        /\ passed \in 0 .. PerIp + 1 /\ faults \in 0 .. MaxFaults
    BY Typed
  <2>1. ASSUME NEW r \in Reports, Submit(r) \/ Discard(r) PROVE TypeOK'
    <3>1. outbox' \in [Reports -> Saved]
      <4>1. CASE Submit(r)
        <5>1. [state |-> "queued", owner |-> owner, edit |-> 0, attached |-> TRUE]
                \in Saved
          BY <2>t, Constants DEF Saved
        <5>2. QED BY <2>t, <4>1, <5>1 DEF Submit
      <4>2. CASE Discard(r)
        <5>1. outbox' = [outbox EXCEPT ![r].state = "discarded"]
          BY <4>2 DEF Discard
        <5>2. QED BY <2>t, <5>1 DEF Saved
      <4>3. QED BY <2>1, <4>1, <4>2
    <3>2. QED BY <2>t, <2>1, <3>1, TypedNext DEF Submit, Discard, server
  <2>2. ASSUME NEW r \in Reports, AdminUpdate(r) \/ Age(r) PROVE TypeOK'
    <3>1. report' \in [Reports -> Row]
      <4>1. CASE AdminUpdate(r)
        <5>1. /\ report' = [report EXCEPT ![r].edit = report[r].edit + 1]
              /\ report[r].edit < MaxEdits
          BY <4>1 DEF AdminUpdate
        <5>2. QED BY <2>t, <5>1, Constants DEF Row
      <4>2. CASE Age(r)
        <5>1. report' = [report EXCEPT ![r].recent = FALSE]
          BY <4>2 DEF Age
        <5>2. QED BY <2>t, <5>1 DEF Row
      <4>3. QED BY <2>2, <4>1, <4>2
    <3>2. QED BY <2>t, <2>2, <3>1, TypedNext DEF AdminUpdate, Age, device
  <2>3. ASSUME NEW o \in Owners, Activate(o) \/ Listed(o) PROVE TypeOK'
    <3>1. Own(o) \subseteq Reports
      BY DEF Own
    <3>2. QED BY <2>t, <2>3, <3>1, TypedNext DEF Activate, Listed, server
  <2>4. CASE Refresh \/ Deliver \/ WindowEnds
    <3>1. run' \in RunType
      <4>1. CASE Refresh
        BY <2>t, <4>1 DEF Refresh, RunType
      <4>2. CASE Deliver
        <5>1. { r \in Own(run.owner) : outbox[r].state = "queued" } \in SUBSET Reports
          BY DEF Own
        <5>2. QED BY <2>t, <4>2, <5>1 DEF Deliver, RunType
      <4>3. CASE WindowEnds
        BY <2>t, <4>3 DEF WindowEnds, device
      <4>4. QED BY <2>4, <4>1, <4>2, <4>3
    <3>2. counter' \in [n : 0 .. PerIp + 1, ends : BOOLEAN] /\ passed' \in 0 .. PerIp + 1
      <4>1. CASE Refresh \/ Deliver
        <5>1. UNCHANGED <<counter, passed>>
          BY <4>1 DEF Refresh, Deliver, server
        <5>2. QED BY <2>t, <5>1
      <4>2. CASE WindowEnds
        <5>1. counter' = [n |-> 0, ends |-> FALSE] /\ passed' = 0
          BY <4>2 DEF WindowEnds
        <5>2. QED BY <5>1, Constants
      <4>3. QED BY <2>4, <4>1, <4>2
    <3>3. QED BY <2>t, <2>4, <3>1, <3>2, TypedNext
              DEF Refresh, Deliver, WindowEnds, server, device
  <2>5. ASSUME Stop, faults' \in {faults, faults + 1},
               faults' # faults => faults < MaxFaults,
               run.pc = "config" \/ run.pc = "wait"
                 \/ \E q \in Requests : request[q].awaited
        PROVE  TypeOK'
    <3>1. run.owner \in Owners
      BY <2>5, Nothing DEF Authored, Awaiting
    <3>2. reload' \subseteq Owners
      BY <2>t, <2>5, <3>1 DEF Stop
    <3>3. faults' \in 0 .. MaxFaults
      BY <2>t, <2>5, Constants
    <3>4. run' \in RunType
      BY <2>5, Stopped, Nothing
    <3>5. QED BY <2>t, <2>5, <3>2, <3>3, <3>4, Stopped, TypedNext
  <2>6. ASSUME NEW q \in Requests, Send(q) PROVE TypeOK'
    <3>1. UNCHANGED <<outbox, owner, shown, reload, server, faults>>
      BY <2>6 DEF Send
    <3>2. QED BY <2>t, <2>6, <3>1, SentRequest, TypedNext DEF server
  <2>7. ASSUME NEW q \in Requests, Receive(q) PROVE TypeOK'
    <3>1. request[q].owner \in Owners
      BY <2>7, Received DEF Authored
    <3>2. request' \in [Requests -> RequestType]
      BY <2>t, <2>7, Received, Nothing
    <3>3. run' \in RunType
      <4>1. CASE run' = Idle
        BY <4>1, Nothing
      <4>2. CASE run' # Idle
        <5>1. run' = [run EXCEPT !.pc = "next", !.todo = run.todo \ {request[q].id}]
          BY <2>7, <4>2, Received
        <5>2. QED BY <2>t, <5>1 DEF RunType
      <4>3. QED BY <4>1, <4>2
    <3>4. reload' \subseteq Owners
      <4>1. reload' \in {reload, reload \cup {request[q].owner}}
        BY <2>7, Received
      <4>2. QED BY <2>t, <3>1, <4>1
    <3>5. outbox' \in [Reports -> Saved]
      BY <2>7, Received
    <3>6. QED BY <2>t, <2>7, <3>2, <3>3, <3>4, <3>5, Received, TypedNext
  <2>8. ASSUME NEW q \in Requests, NEW pc \in {"expire", "wait", "found", "insert"},
               Proceed(q, pc)
        PROVE  request' \in [Requests -> RequestType]
    BY <2>t, <2>8, Proceeded
  <2>9. ASSUME NEW q \in Requests, Refuse(q)
        PROVE  request' \in [Requests -> RequestType]
    <3>1. Finish(q, "refused", NoRequest.answer)
      BY <2>9 DEF Refuse
    <3>2. QED BY <2>t, <3>1, Nothing, Finished
  <2>10. ASSUME NEW q \in Requests, Count(q) PROVE TypeOK'
    <3>1. counter' \in [n : 0 .. PerIp + 1, ends : BOOLEAN] /\ passed' \in 0 .. PerIp + 1
      BY <2>t, <2>10, CountedAs, Constants
    <3>2. request' \in [Requests -> RequestType]
      BY <2>8, <2>9, <2>10, CountedAs
    <3>3. QED BY <2>t, <2>10, <3>1, <3>2, CountedAs, TypedNext
  <2>11. ASSUME NEW q \in Requests, Expire(q) PROVE TypeOK'
    <3>1. counter' \in [n : 0 .. PerIp + 1, ends : BOOLEAN]
      <4>1. PICK b : b = (counter.n > 0)
        BY Zenon
      <4>2. b \in BOOLEAN
        <5>1. (counter.n > 0) \in BOOLEAN
          OBVIOUS
        <5>2. QED BY <4>1, <5>1, Zenon
      <4>3. counter' = [counter EXCEPT !.ends = b]
        BY <2>11, <4>1, Zenon DEF Expire
      <4>4. QED BY <2>t, <4>2, <4>3
    <3>2. Proceed(q, "wait") /\ UNCHANGED <<device, report, passed, faults>>
      BY <2>11 DEF Expire
    <3>3. QED BY <2>t, <2>8, <3>1, <3>2, TypedNext DEF device
  <2>12. ASSUME NEW q \in Requests, Look(q) PROVE TypeOK'
    BY <2>t, <2>8, <2>9, <2>12, Looked, TypedNext
  <2>13. ASSUME NEW q \in Requests, Store(q) PROVE TypeOK'
    <3>1. report' \in [Reports -> Row]
      BY <2>13, StoredTyped
    <3>2. request' \in [Requests -> RequestType]
      BY <2>t, <2>9, <2>13, StoredTyped, Finished
    <3>3. QED BY <2>t, <2>13, <3>1, <3>2, StoredAs, TypedNext
  <2>14. ASSUME NEW q \in Requests, Mine(q) PROVE TypeOK'
    <3>1. PICK a : a = [r \in Reports |->
              IF r \in Stored /\ report[r].owner = request[q].owner
              THEN report[r].edit ELSE -1]
      OBVIOUS
    <3>2. a \in Answers
      BY <2>t, <3>1, Constants DEF Answers, Row
    <3>3. Finish(q, "answered", a) /\ UNCHANGED <<device, server, faults>>
      BY <2>14, <3>1 DEF Mine
    <3>4. QED BY <2>t, <3>2, <3>3, Finished, TypedNext DEF device, server
  <2>15. ASSUME NEW q \in Requests, Cut(q) PROVE TypeOK'
    <3>1. Refuse(q) /\ faults' = faults + 1 /\ faults < MaxFaults
          /\ UNCHANGED <<device, server>>
      BY <2>15 DEF Cut
    <3>2. QED BY <2>t, <2>9, <3>1, Constants, TypedNext DEF device, server
  <2>16. QED BY <1>2, <2>1, <2>2, <2>3, <2>4, <2>5, <2>6, <2>7, <2>10, <2>11,
                <2>12, <2>13, <2>14, <2>15, Actions, Zenon
<1>3. QED BY <1>1, <1>2

-----------------------------------------------------------------------------
(* What a step does to a request, to a report and to the delivery.         *)

WithReport == {"count", "expire", "wait", "found", "insert"}

\* A request in progress goes on with its owner and its report.
GoesOn(q) ==
  /\ request[q].pc \notin {"none", "answered", "refused"}
  /\ request'[q].owner = request[q].owner /\ request'[q].id = request[q].id
  /\ request'[q].awaited => request[q].awaited
  /\ request'[q].pc # "none"
  /\ request'[q].pc \in {"answered", "refused"} => request'[q].awaited
  /\ request'[q].pc \in WithReport => request[q].pc \in WithReport
  /\ request'[q].pc \in {"found", "insert"} =>
       \/ request'[q].pc = request[q].pc
       \/ Look(q) /\ Proceed(q, request'[q].pc)

LEMMA RequestStep ==
  ASSUME TypeOK, Awaiting, Next, NEW q \in Requests
  PROVE  \/ request'[q] = request[q] \/ request'[q] = NoRequest
         \/ Send(q) \/ GoesOn(q)
<1>t. request \in [Requests -> RequestType]
  BY Typed
<1>1. ASSUME NEW p \in Requests, NEW pc \in {"expire", "wait", "found", "insert"},
             Proceed(p, pc), request[p].pc \in WithReport,
             pc \in {"found", "insert"} => Look(p)
      PROVE  request'[q] = request[q] \/ GoesOn(q)
  <2>1. /\ \A s \in Requests \ {p} : request'[s] = request[s]
        /\ request'[p].pc = pc /\ request'[p].awaited = request[p].awaited
        /\ request'[p].owner = request[p].owner
        /\ request'[p].id = request[p].id
    BY <1>t, <1>1, Proceeded
  <2>2. CASE q = p
    BY <1>1, <2>1, <2>2 DEF GoesOn, WithReport
  <2>3. QED BY <2>1, <2>2
<1>2. ASSUME NEW p \in Requests, NEW pc \in {"answered", "refused"}, NEW a \in Answers,
             Finish(p, pc, a),
             request[p].pc \notin {"none", "answered", "refused"}
      PROVE  \/ request'[q] = request[q] \/ request'[q] = NoRequest \/ GoesOn(q)
  <2>1. /\ \A s \in Requests \ {p} : request'[s] = request[s]
        /\ \/ request'[p] = NoRequest
           \/ /\ request[p].awaited /\ request'[p].awaited
              /\ request'[p].pc = pc
              /\ request'[p].owner = request[p].owner
              /\ request'[p].id = request[p].id
    BY <1>t, <1>2, Finished
  <2>2. CASE q = p /\ request'[p] # NoRequest
    BY <1>2, <2>1, <2>2 DEF GoesOn, WithReport
  <2>3. QED BY <2>1, <2>2
<1>3. ASSUME NEW p \in Requests, Refuse(p),
             request[p].pc \notin {"none", "answered", "refused"}
      PROVE  \/ request'[q] = request[q] \/ request'[q] = NoRequest \/ GoesOn(q)
  BY <1>2, <1>3, Nothing DEF Refuse
<1>4. CASE \/ \E r \in Reports : Submit(r) \/ Discard(r) \/ AdminUpdate(r) \/ Age(r)
           \/ \E o \in Owners : Activate(o) \/ Listed(o)
           \/ Refresh \/ Deliver \/ WindowEnds
  BY <1>4 DEF Submit, Discard, AdminUpdate, Age, Activate, Listed, Refresh, Deliver,
              WindowEnds
<1>5. CASE Stop
  <2>1. \/ request'[q] = NoRequest
        \/ /\ request[q].pc \notin {"answered", "refused"}
           /\ request'[q].pc = request[q].pc /\ ~request'[q].awaited
           /\ request'[q].owner = request[q].owner
           /\ request'[q].id = request[q].id
    BY <1>5, Stopped
  <2>2. request'[q] = Abandoned(q)
    BY <1>5 DEF Stop
  <2>3. CASE request[q].pc = "none"
    <3>1. ~request[q].awaited
      BY <2>3 DEF Awaiting
    <3>2. request'[q] = request[q]
      BY <1>t, <2>2, <2>3, <3>1 DEF Abandoned, RequestType
    <3>3. QED BY <3>2
  <2>4. CASE request[q].pc # "none" /\ request'[q] # NoRequest
    BY <2>1, <2>4 DEF GoesOn, WithReport
  <2>5. QED BY <2>3, <2>4
<1>6. ASSUME NEW p \in Requests, Send(p)
      PROVE  request'[q] = request[q] \/ Send(q)
  BY <1>6, SentRequest
<1>7. ASSUME NEW p \in Requests, Receive(p)
      PROVE  request'[q] = request[q] \/ request'[q] = NoRequest
  BY <1>t, <1>7, Received
<1>8. ASSUME NEW p \in Requests, Count(p)
      PROVE  \/ request'[q] = request[q] \/ request'[q] = NoRequest \/ GoesOn(q)
  BY <1>1, <1>3, <1>8, CountedAs DEF WithReport
<1>9. ASSUME NEW p \in Requests, Expire(p)
      PROVE  request'[q] = request[q] \/ GoesOn(q)
  BY <1>1, <1>9 DEF Expire, WithReport
<1>10. ASSUME NEW p \in Requests, Look(p)
       PROVE  \/ request'[q] = request[q] \/ request'[q] = NoRequest \/ GoesOn(q)
  BY <1>1, <1>3, <1>10, Looked DEF WithReport
<1>11. ASSUME NEW p \in Requests, Store(p)
       PROVE  \/ request'[q] = request[q] \/ request'[q] = NoRequest \/ GoesOn(q)
  <2>1. request[p].pc \notin {"none", "answered", "refused"}
    BY <1>11 DEF Store
  <2>2. QED BY <1>2, <1>3, <1>11, <2>1, StoredTyped
<1>12. ASSUME NEW p \in Requests, Mine(p)
       PROVE  \/ request'[q] = request[q] \/ request'[q] = NoRequest \/ GoesOn(q)
  <2>1. PICK a : a = [r \in Reports |->
            IF r \in Stored /\ report[r].owner = request[p].owner
            THEN report[r].edit ELSE -1]
    OBVIOUS
  <2>2. a \in Answers
    BY <2>1, Typed, Constants DEF Answers, Row
  <2>3. Finish(p, "answered", a) /\ request[p].pc = "mine"
    BY <1>12, <2>1 DEF Mine
  <2>4. QED BY <1>2, <2>2, <2>3
<1>13. ASSUME NEW p \in Requests, Cut(p)
       PROVE  \/ request'[q] = request[q] \/ request'[q] = NoRequest \/ GoesOn(q)
  BY <1>3, <1>13 DEF Cut
<1>14. QED BY <1>4, <1>5, <1>6, <1>7, <1>8, <1>9, <1>10, <1>11, <1>12, <1>13,
              Actions, Zenon

\* A report on the device is saved, discarded, or takes an answer.
LEMMA OutboxStep ==
  ASSUME TypeOK, Next, NEW r \in Reports
  PROVE  \/ outbox'[r] = outbox[r]
         \/ /\ Submit(r) /\ outbox[r].state = "none" /\ outbox'[r].state = "queued"
            /\ outbox'[r].owner = owner /\ outbox'[r].attached
         \/ /\ Discard(r) /\ outbox[r].state = "queued"
            /\ outbox'[r].state = "discarded" /\ outbox'[r].owner = outbox[r].owner
         \/ \E q \in Requests :
              /\ Receive(q) /\ outbox[r].state \in {"queued", "sent"}
              /\ request[q].answer[r] >= 0 /\ outbox'[r].state = "sent"
              /\ outbox'[r].owner = outbox[r].owner
              /\ outbox'[r].edit = request[q].answer[r]
<1>t. outbox \in [Reports -> Saved]
  BY Typed
<1>1. ASSUME NEW s \in Reports, Submit(s)
      PROVE  \/ outbox'[r] = outbox[r]
             \/ /\ Submit(r) /\ outbox[r].state = "none" /\ outbox'[r].state = "queued"
                /\ outbox'[r].owner = owner /\ outbox'[r].attached
  <2>1. /\ outbox[s].state = "none"
        /\ outbox' = [outbox EXCEPT ![s] =
             [state |-> "queued", owner |-> owner, edit |-> 0, attached |-> TRUE]]
    BY <1>1 DEF Submit
  <2>2. CASE s = r
    BY <1>t, <1>1, <2>1, <2>2
  <2>3. QED BY <1>t, <2>1, <2>2
<1>2. ASSUME NEW s \in Reports, Discard(s)
      PROVE  \/ outbox'[r] = outbox[r]
             \/ /\ Discard(r) /\ outbox[r].state = "queued"
                /\ outbox'[r].state = "discarded" /\ outbox'[r].owner = outbox[r].owner
  <2>1. /\ outbox[s].state = "queued"
        /\ outbox' = [outbox EXCEPT ![s].state = "discarded"]
    BY <1>2 DEF Discard
  <2>2. CASE s = r
    BY <1>t, <1>2, <2>1, <2>2 DEF Saved
  <2>3. QED BY <1>t, <2>1, <2>2
<1>3. CASE \/ \E s \in Reports : AdminUpdate(s) \/ Age(s)
           \/ \E o \in Owners : Activate(o) \/ Listed(o)
           \/ Refresh \/ Deliver \/ WindowEnds \/ Stop
           \/ \E q \in Requests : \/ Send(q) \/ Expire(q) \/ Look(q)
                                  \/ Mine(q) \/ Cut(q)
  BY <1>3 DEF AdminUpdate, Age, Activate, Listed, Refresh, Deliver, WindowEnds, Stop,
              Send, Expire, Look, Mine, Cut, device
<1>4. CASE \E q \in Requests : Count(q) \/ Store(q)
  BY <1>4 DEF Count, Store, device
<1>5. ASSUME NEW q \in Requests, Receive(q)
      PROVE  \/ outbox'[r] = outbox[r]
             \/ /\ Receive(q) /\ outbox[r].state \in {"queued", "sent"}
                /\ request[q].answer[r] >= 0 /\ outbox'[r].state = "sent"
                /\ outbox'[r].owner = outbox[r].owner
                /\ outbox'[r].edit = request[q].answer[r]
  BY <1>5, Received
<1>6. QED BY <1>1, <1>2, <1>3, <1>4, <1>5, Actions, Zenon

\* The server keeps its reports; it stores one for a request that inserts it.
LEMMA ReportStep ==
  ASSUME TypeOK, Awaiting, Next, NEW r \in Reports
  PROVE  \/ /\ report'[r].owner = report[r].owner
            /\ report'[r].edit >= report[r].edit
            /\ report'[r].recent => report[r].recent
         \/ /\ report[r].owner = None
            /\ \E q \in Requests :
                 /\ Store(q) /\ request[q].pc = "insert" /\ request[q].id = r
                 /\ report'[r].owner = request[q].owner
                 /\ \A s \in Reports \ {r} : report'[s] = report[s]
<1>t. report \in [Reports -> Row]
  BY Typed
<1>1. ASSUME NEW s \in Reports, AdminUpdate(s) \/ Age(s)
      PROVE  /\ report'[r].owner = report[r].owner
             /\ report'[r].edit >= report[r].edit
             /\ report'[r].recent => report[r].recent
  <2>1. CASE AdminUpdate(s)
    <3>1. report' = [report EXCEPT ![s].edit = report[s].edit + 1]
      BY <2>1 DEF AdminUpdate
    <3>2. QED BY <1>t, <3>1, Constants DEF Row
  <2>2. CASE Age(s)
    <3>1. report' = [report EXCEPT ![s].recent = FALSE]
      BY <2>2 DEF Age
    <3>2. QED BY <1>t, <3>1, Constants DEF Row
  <2>3. QED BY <1>1, <2>1, <2>2
<1>2. report' = report =>
        /\ report'[r].owner = report[r].owner
        /\ report'[r].edit >= report[r].edit
        /\ report'[r].recent => report[r].recent
  BY <1>t, Constants DEF Row
<1>3. CASE \/ \E s \in Reports : Submit(s) \/ Discard(s)
           \/ \E o \in Owners : Activate(o) \/ Listed(o)
           \/ Refresh \/ Deliver \/ WindowEnds \/ Stop
           \/ \E q \in Requests : \/ Send(q) \/ Receive(q) \/ Count(q) \/ Expire(q)
                                  \/ Look(q) \/ Mine(q) \/ Cut(q)
  <2>1. report' = report
    BY <1>3 DEF Submit, Discard, Activate, Listed, Refresh, Deliver, WindowEnds, Stop,
                Send, Receive, Count, Expire, Look, Mine, Cut, server
  <2>2. QED BY <1>2, <2>1
<1>4. ASSUME NEW q \in Requests, Store(q), report' # report
      PROVE  \/ report'[r] = report[r]
             \/ /\ report[r].owner = None
                /\ request[q].pc = "insert" /\ request[q].id = r
                /\ report'[r].owner = request[q].owner
                /\ \A s \in Reports \ {r} : report'[s] = report[s]
  <2>1. PICK s \in Reports : s = request[q].id
    BY <1>4, StoredAs
  <2>2. /\ request[q].pc = "insert" /\ s \notin Stored
        /\ report' = [report EXCEPT ![s] =
             [owner |-> request[q].owner, edit |-> 0, recent |-> TRUE]]
    BY <1>4, <2>1, StoredAs
  <2>3. CASE s = r
    BY <1>t, <2>1, <2>2, <2>3 DEF Stored
  <2>4. CASE s # r
    BY <1>t, <2>2, <2>4
  <2>5. QED BY <2>3, <2>4
<1>5. ASSUME NEW q \in Requests, Store(q)
      PROVE  \/ /\ report'[r].owner = report[r].owner
                /\ report'[r].edit >= report[r].edit
                /\ report'[r].recent => report[r].recent
             \/ /\ report[r].owner = None
                /\ Store(q) /\ request[q].pc = "insert" /\ request[q].id = r
                /\ report'[r].owner = request[q].owner
                /\ \A s \in Reports \ {r} : report'[s] = report[s]
  <2>1. report'[r] = report[r] =>
          /\ report'[r].owner = report[r].owner
          /\ report'[r].edit >= report[r].edit
          /\ report'[r].recent => report[r].recent
    BY <1>t, Constants DEF Row
  <2>2. QED BY <1>2, <1>4, <1>5, <2>1
<1>6. QED BY <1>1, <1>3, <1>5, Actions, Zenon

-----------------------------------------------------------------------------
(* The parts of the invariant.                                             *)

\* Nobody takes a report over.
LEMMA AuthorStays ==
  ASSUME TypeOK, Authored, Next, NEW r \in Reports, outbox[r].owner # None
  PROVE  outbox'[r].owner = outbox[r].owner /\ outbox'[r].state # "none"
<1>1. outbox[r].state # "none"
  BY DEF Authored
<1>2. QED BY <1>1, OutboxStep

LEMMA AuthoredStep ==
  ASSUME TypeOK, Authored, Awaiting, [Next]_vars
  PROVE  Authored'
<1>1. CASE UNCHANGED vars
  BY <1>1 DEF vars, device, server, Authored, Stored
<1>2. CASE Next
  <2>t. /\ owner \in Owners /\ run \in RunType /\ request \in [Requests -> RequestType]
        /\ report \in [Reports -> Row]
    BY Typed
  <2>1. ASSUME NEW r \in Reports
        PROVE  outbox'[r].state = "none" <=> outbox'[r].owner = None
    BY <1>2, <2>t, OutboxStep, Constants DEF Authored
  <2>2. ASSUME NEW r \in Reports, report'[r].owner # None
        PROVE  report'[r].owner = outbox'[r].owner
    <3>1. CASE report'[r].owner = report[r].owner
      <4>1. report[r].owner = outbox[r].owner /\ outbox[r].owner # None
        BY <2>2, <3>1 DEF Authored, Stored
      <4>2. QED BY <1>2, <3>1, <4>1, AuthorStays
    <3>2. CASE report'[r].owner # report[r].owner
      <4>1. PICK q \in Requests :
              /\ Store(q) /\ request[q].pc = "insert" /\ request[q].id = r
              /\ report'[r].owner = request[q].owner
        BY <1>2, <3>2, ReportStep
      <4>2. r # 0
        BY Constants DEF Reports
      <4>3. outbox[r].owner = request[q].owner
        BY <4>1, <4>2 DEF Authored
      <4>4. QED BY <1>2, <2>2, <4>1, <4>3, AuthorStays
    <3>3. QED BY <3>1, <3>2
  <2>3. ASSUME NEW q \in Requests, request'[q].pc # "none"
        PROVE  /\ request'[q].owner \in Owners
               /\ request'[q].id # 0 =>
                    outbox'[request'[q].id].owner = request'[q].owner
    <3>1. CASE GoesOn(q) \/ request'[q] = request[q]
      <4>1. /\ request[q].pc # "none"
            /\ request'[q].owner = request[q].owner /\ request'[q].id = request[q].id
        BY <2>3, <3>1 DEF GoesOn
      <4>2. /\ request[q].owner \in Owners
            /\ request[q].id # 0 => outbox[request[q].id].owner = request[q].owner
        BY <4>1 DEF Authored
      <4>3. CASE request[q].id # 0
        <5>1. PICK r \in Reports : r = request[q].id
          BY <2>t, <4>3, Constants DEF RequestType, Reports
        <5>2. outbox'[r].owner = outbox[r].owner
          BY <1>2, <4>2, <4>3, <5>1, Constants, AuthorStays
        <5>3. QED BY <4>1, <4>2, <5>1, <5>2
      <4>4. QED BY <4>1, <4>2, <4>3
    <3>2. CASE Send(q)
      <4>1. /\ run.pc = "next" /\ request'[q].owner = run.owner
            /\ request'[q].id = 0 \/ request'[q].id \in run.todo
        BY <3>2, SentRequest
      <4>2. run.owner \in Owners /\ \A r \in run.todo : outbox[r].owner = run.owner
        BY <4>1, Nothing DEF Authored
      <4>3. UNCHANGED outbox
        BY <3>2 DEF Send
      <4>4. QED BY <4>1, <4>2, <4>3
    <3>3. CASE request'[q] = NoRequest
      BY <2>3, <3>3, Nothing
    <3>4. QED BY <1>2, <3>1, <3>2, <3>3, RequestStep
  <2>4. ASSUME run' # Idle
        PROVE  run'.owner \in Owners /\ \A r \in run'.todo : outbox'[r].owner = run'.owner
    <3>1. ASSUME run'.owner = run.owner, run'.todo \subseteq run.todo, run # Idle
          PROVE  /\ run'.owner \in Owners
                 /\ \A r \in run'.todo : outbox'[r].owner = run'.owner
      <4>1. run.owner \in Owners /\ \A r \in run.todo : outbox[r].owner = run.owner
        BY <3>1 DEF Authored
      <4>2. ASSUME NEW r \in run'.todo PROVE outbox'[r].owner = run'.owner
        <5>1. r \in Reports /\ outbox[r].owner = run.owner
          BY <2>t, <3>1, <4>1, <4>2 DEF RunType
        <5>2. outbox[r].owner # None
          BY <4>1, <5>1, Constants
        <5>3. QED BY <1>2, <3>1, <5>1, <5>2, AuthorStays
      <4>3. QED BY <3>1, <4>1, <4>2
    <3>2. CASE run' = run
      BY <2>4, <3>1, <3>2
    <3>3. CASE Refresh
      BY <2>t, <3>3 DEF Refresh
    <3>4. CASE Deliver
      <4>1. /\ run.pc = "config" /\ outbox' = outbox
            /\ run' = [run EXCEPT !.pc = "next", !.todo =
                 { r \in Own(run.owner) : outbox[r].state = "queued" }]
        BY <3>4 DEF Deliver
      <4>2. run'.owner = run.owner /\ run.owner \in Owners
        BY <2>t, <4>1, Nothing DEF RunType, Authored
      <4>3. \A r \in run'.todo : outbox[r].owner = run.owner
        BY <2>t, <4>1 DEF RunType, Own
      <4>4. QED BY <4>1, <4>2, <4>3
    <3>5. CASE \E q \in Requests : Send(q)
      <4>1. run.pc = "next" /\ run' = [run EXCEPT !.pc = "wait"]
        BY <3>5, SentRequest
      <4>2. QED BY <2>t, <3>1, <4>1, Nothing DEF RunType
    <3>6. ASSUME NEW q \in Requests, Receive(q)
          PROVE  /\ run'.owner \in Owners
                 /\ \A r \in run'.todo : outbox'[r].owner = run'.owner
      <4>1. /\ request[q].awaited
            /\ run' = [run EXCEPT !.pc = "next",
                                  !.todo = run.todo \ {request[q].id}]
        BY <2>4, <3>6, Received
      <4>2. run # Idle
        BY <4>1, Nothing DEF Awaiting
      <4>3. QED BY <2>t, <3>1, <4>1, <4>2 DEF RunType
    <3>7. CASE \/ \E r \in Reports : Submit(r) \/ Discard(r) \/ AdminUpdate(r) \/ Age(r)
               \/ \E o \in Owners : Activate(o) \/ Listed(o)
               \/ WindowEnds
               \/ \E q \in Requests : \/ Count(q) \/ Expire(q) \/ Look(q) \/ Store(q)
                                      \/ Mine(q) \/ Cut(q)
      <4>1. run' = run
        BY <3>7 DEF Submit, Discard, AdminUpdate, Age, Activate, Listed, WindowEnds,
                    Count, Expire, Look, Store, Mine, Cut, device
      <4>2. QED BY <3>2, <4>1
    <3>8. ~Stop
      BY <2>4 DEF Stop
    <3>9. QED BY <1>2, <3>3, <3>4, <3>5, <3>6, <3>7, <3>8, Actions, Zenon
  <2>5. QED BY <2>1, <2>2, <2>3, <2>4 DEF Authored, Stored
<1>3. QED BY <1>1, <1>2

LEMMA AwaitingStep ==
  ASSUME TypeOK, Awaiting, [Next]_vars
  PROVE  Awaiting'
<1>1. CASE UNCHANGED vars
  BY <1>1 DEF vars, device, server, Awaiting
<1>2. CASE Next
  <2>t. run \in RunType /\ request \in [Requests -> RequestType]
    BY Typed
  \* Who is awaited after a step.
  <2>1. ASSUME NEW q \in Requests, request'[q].awaited
        PROVE  \/ request[q].awaited
               \/ Send(q) /\ \A p \in Requests : ~request[p].awaited
    <3>1. Send(q) => \A p \in Requests : ~request[p].awaited
      BY SentRequest DEF Awaiting
    <3>2. QED BY <1>2, <2>1, <3>1, RequestStep, Nothing DEF GoesOn
  <2>2. ASSUME NEW p \in Requests, NEW q \in Requests,
               request'[p].awaited, request'[q].awaited
        PROVE  p = q
    <3>1. request[p].awaited /\ request[q].awaited => p = q
      BY DEF Awaiting
    <3>2. ASSUME NEW s \in Requests, NEW u \in Requests, Send(s),
                 request'[u].awaited, ~request[u].awaited
          PROVE  u = s
      BY <3>2, <2>t, SentRequest
    <3>3. QED BY <2>1, <2>2, <3>1, <3>2
  <2>3. ASSUME NEW q \in Requests, request'[q].awaited
        PROVE  run'.pc = "wait" /\ request'[q].pc # "none"
    <3>1. CASE Send(q)
      BY <2>t, <3>1, SentRequest DEF RunType
    <3>2. CASE ~Send(q)
      <4>1. request[q].awaited /\ run.pc = "wait" /\ request[q].pc # "none"
        BY <2>1, <2>3, <3>2 DEF Awaiting
      <4>2. ~Stop
        BY <2>3, Stopped, Nothing
      <4>3. \A p \in Requests : ~Receive(p)
        <5>1. ASSUME NEW p \in Requests, Receive(p) PROVE FALSE
          <6>1. request[p].awaited /\ request' = [request EXCEPT ![p] = NoRequest]
            BY <5>1, Received
          <6>2. p = q
            BY <4>1, <6>1 DEF Awaiting
          <6>3. QED BY <2>t, <2>3, <6>1, <6>2, Nothing
        <5>2. QED BY <5>1
      <4>4. ~Refresh /\ ~Deliver /\ \A p \in Requests : ~Send(p)
        BY <4>1, SentRequest DEF Refresh, Deliver
      <4>5. run' = run
        <5>1. CASE \/ \E r \in Reports : Submit(r) \/ Discard(r) \/ AdminUpdate(r) \/ Age(r)
                   \/ \E o \in Owners : Activate(o) \/ Listed(o)
                   \/ WindowEnds
                   \/ \E p \in Requests : \/ Count(p) \/ Expire(p) \/ Look(p) \/ Store(p)
                                          \/ Mine(p) \/ Cut(p)
          BY <5>1 DEF Submit, Discard, AdminUpdate, Age, Activate, Listed, WindowEnds,
                      Count, Expire, Look, Store, Mine, Cut, device
        <5>2. QED BY <1>2, <4>2, <4>3, <4>4, <5>1, Actions, Zenon
      <4>6. request'[q].pc # "none"
        <5>1. CASE request'[q] = request[q]
          BY <4>1, <5>1
        <5>2. CASE request'[q] = NoRequest
          BY <2>3, <5>2, Nothing
        <5>3. CASE GoesOn(q)
          BY <5>3 DEF GoesOn
        <5>4. QED BY <1>2, <3>2, <5>1, <5>2, <5>3, RequestStep
      <4>7. QED BY <4>1, <4>5, <4>6
    <3>3. QED BY <3>1, <3>2
  <2>4. ASSUME NEW q \in Requests, request'[q].pc \in {"answered", "refused"}
        PROVE  request'[q].awaited
    <3>1. Send(q) => request'[q].awaited
      BY SentRequest
    <3>2. QED BY <1>2, <2>4, <3>1, RequestStep, Nothing DEF GoesOn, Awaiting
  <2>5. ASSUME NEW q \in Requests, request'[q].pc \in WithReport
        PROVE  request'[q].id # 0
    <3>1. CASE Send(q)
      <4>1. request'[q].id \in run.todo \/ request'[q].pc = "mine"
        BY <3>1, SentRequest
      <4>2. request'[q].pc # "mine"
        BY <2>5 DEF WithReport
      <4>3. QED BY <2>t, <4>1, <4>2, Constants DEF RunType, Reports
    <3>2. CASE ~Send(q)
      BY <1>2, <2>5, <3>2, RequestStep, Nothing DEF GoesOn, Awaiting, WithReport
    <3>3. QED BY <3>1, <3>2
  <2>6. QED BY <2>2, <2>3, <2>4, <2>5 DEF Awaiting, WithReport
<1>3. QED BY <1>1, <1>2

\* Every step of the server that answers does so from the report it reads.
LEMMA AnsweredNow ==
  ASSUME TypeOK, Authored, Awaiting, Holding, ReceiptsAreReal, Next,
         NEW q \in Requests, request'[q].pc = "answered", request'[q] # request[q],
         NEW r \in Reports, request'[q].answer[r] >= 0
  PROVE  /\ Store(q) \/ Mine(q)
         /\ report'[r].owner = request'[q].owner
         /\ request'[q].answer[r] = report'[r].edit
         /\ outbox' = outbox
<1>t. report \in [Reports -> Row] /\ request \in [Requests -> RequestType]
  BY Typed
<1>1. /\ request[q].pc \notin {"none", "answered", "refused"}
      /\ request'[q].owner = request[q].owner /\ request'[q].id = request[q].id
  <2>1. GoesOn(q)
    BY RequestStep, Nothing, SentRequest
  <2>2. QED BY <2>1 DEF GoesOn
<1>2. CASE Store(q)
  <2>1. ~Refuse(q)
    BY <1>t, Nothing, Finished DEF Refuse
  <2>2. PICK i \in Reports : i = request[q].id
    BY <1>2, StoredAs
  <2>3. PICK a \in Answers :
          /\ a = [NoRequest.answer EXCEPT ![i] = report'[i].edit]
          /\ Finish(q, "answered", a)
    BY <1>2, <2>1, <2>2, StoredTyped
  <2>4. request'[q].answer = a
    BY <1>t, <2>3, Nothing, Finished
  <2>5. r = i /\ a[r] = report'[i].edit
    BY <2>3, <2>4, Nothing DEF Answers
  <2>6. report'[i].owner = request[q].owner
    <3>1. CASE request[q].pc = "found"
      <4>1. report' = report
        BY <1>2, <2>1, <3>1, StoredAs
      <4>2. QED BY <2>2, <3>1, <4>1 DEF Holding
    <3>2. CASE request[q].pc # "found"
      <4>1. report' = [report EXCEPT ![i] =
              [owner |-> request[q].owner, edit |-> 0, recent |-> TRUE]]
        BY <1>2, <2>1, <2>2, <3>2, StoredAs
      <4>2. QED BY <1>t, <4>1
    <3>3. QED BY <3>1, <3>2
  <2>7. outbox' = outbox
    BY <1>2, StoredAs
  <2>8. QED BY <1>1, <1>2, <2>4, <2>5, <2>6, <2>7
<1>3. CASE Mine(q)
  <2>1. PICK a : a = [s \in Reports |->
            IF s \in Stored /\ report[s].owner = request[q].owner
            THEN report[s].edit ELSE -1]
    OBVIOUS
  <2>2. a \in Answers
    BY <1>t, <2>1, Constants DEF Answers, Row
  <2>3. Finish(q, "answered", a) /\ UNCHANGED <<device, server, faults>>
    BY <1>3, <2>1 DEF Mine
  <2>4. request'[q].answer = a
    BY <1>t, <2>2, <2>3, Nothing, Finished
  <2>5. r \in Stored /\ report[r].owner = request[q].owner /\ a[r] = report[r].edit
    BY <2>1, <2>4
  <2>6. report' = report /\ outbox' = outbox
    BY <2>3 DEF device, server
  <2>7. QED BY <1>1, <1>3, <2>4, <2>5, <2>6
<1>4. CASE ~Store(q) /\ ~Mine(q)
  <2>1. ASSUME NEW p \in Requests, NEW pc \in {"expire", "wait", "found", "insert"},
               Proceed(p, pc)
        PROVE  FALSE
    BY <1>t, <2>1, Proceeded
  <2>2. ASSUME NEW p \in Requests, Refuse(p)
        PROVE  FALSE
    BY <1>t, <2>2, Nothing, Finished DEF Refuse
  <2>3. ASSUME NEW p \in Requests, NEW a \in Answers, Finish(p, "answered", a)
        PROVE  p = q
    BY <1>t, <2>3, Finished
  <2>4. ~Stop
    BY Stopped, Nothing
  <2>5. \A p \in Requests : ~Send(p) /\ ~Receive(p)
    <3>1. ASSUME NEW p \in Requests, Send(p) PROVE FALSE
      BY <3>1, SentRequest
    <3>2. ASSUME NEW p \in Requests, Receive(p) PROVE FALSE
      BY <1>t, <3>2, Received, Nothing
    <3>3. QED BY <3>1, <3>2
  <2>6. \A p \in Requests : ~Count(p) /\ ~Expire(p) /\ ~Look(p) /\ ~Cut(p)
    BY <2>1, <2>2, CountedAs, Looked DEF Expire, Cut
  <2>7. \A p \in Requests : ~Store(p)
    BY <1>4, <2>2, <2>3, StoredTyped
  <2>8. ASSUME NEW p \in Requests, Mine(p) PROVE FALSE
    <3>1. PICK a : a = [s \in Reports |->
              IF s \in Stored /\ report[s].owner = request[p].owner
              THEN report[s].edit ELSE -1]
      OBVIOUS
    <3>2. a \in Answers
      BY <1>t, <3>1, Constants DEF Answers, Row
    <3>3. Finish(p, "answered", a)
      BY <2>8, <3>1 DEF Mine
    <3>4. QED BY <1>4, <2>3, <2>8, <3>2, <3>3
  <2>9. request' = request
    BY <2>4, <2>5, <2>6, <2>7, <2>8, Actions
       DEF Submit, Discard, AdminUpdate, Age, Activate, Listed, Refresh, Deliver,
           WindowEnds
  <2>10. QED BY <2>9
<1>5. QED BY <1>2, <1>3, <1>4

LEMMA AnsweringStep ==
  ASSUME TypeOK, Authored, Awaiting, Answering, ReceiptsAreReal, Holding, [Next]_vars
  PROVE  Answering'
<1>1. CASE UNCHANGED vars
  BY <1>1 DEF vars, device, server, Answering, Answered
<1>2. CASE Next
  <2>t. /\ outbox \in [Reports -> Saved] /\ report \in [Reports -> Row]
        /\ request \in [Requests -> RequestType]
        /\ outbox' \in [Reports -> Saved] /\ report' \in [Reports -> Row]
        /\ request' \in [Requests -> RequestType]
    BY TypeStep, Typed, TypedNext
  <2>1. ASSUME NEW q \in Requests, request'[q].pc = "answered",
               NEW r \in Reports, request'[q].answer[r] >= 0
        PROVE  /\ report'[r].owner = request'[q].owner
               /\ request'[q].answer[r] <= report'[r].edit
               /\ outbox'[r].state = "sent" => outbox'[r].edit <= request'[q].answer[r]
    <3>1. CASE request'[q] # request[q]
      <4>1. /\ report'[r].owner = request'[q].owner
            /\ request'[q].answer[r] = report'[r].edit
            /\ outbox' = outbox
        BY <1>2, <2>1, <3>1, AnsweredNow
      <4>2. ASSUME outbox[r].state = "sent"
            PROVE  outbox[r].edit <= report'[r].edit
        <5>1. report[r].owner = outbox[r].owner /\ outbox[r].edit <= report[r].edit
          BY <4>2 DEF ReceiptsAreReal
        <5>2. report[r].owner # None
          BY <4>2, <5>1 DEF Authored
        <5>3. report'[r].edit >= report[r].edit
          BY <1>2, <5>2, ReportStep
        <5>4. QED BY <2>t, <5>1, <5>3, Constants DEF Row, Saved
      <4>3. report'[r].edit \in Int
        BY <2>t, Constants DEF Row
      <4>4. QED BY <4>1, <4>2, <4>3
    <3>2. CASE request'[q] = request[q]
      <4>1. /\ report[r].owner = request[q].owner
            /\ request[q].answer[r] <= report[r].edit
            /\ outbox[r].state = "sent" => outbox[r].edit <= request[q].answer[r]
        BY <2>1, <3>2 DEF Answering, Answered
      <4>2. request[q].owner \in Owners
        BY <2>1, <3>2 DEF Authored
      <4>3. /\ report'[r].owner = report[r].owner
            /\ report'[r].edit >= report[r].edit
        BY <1>2, <4>1, <4>2, ReportStep, Constants
      <4>4. request[q].answer[r] <= report'[r].edit
        BY <2>t, <4>1, <4>3, Constants DEF Row, RequestType, Answers
      <4>5. outbox'[r].state = "sent" => outbox'[r].edit <= request[q].answer[r]
        <5>1. \A p \in Requests : ~Receive(p)
          <6>1. ASSUME NEW p \in Requests, Receive(p) PROVE FALSE
            <7>1. /\ request[p].awaited /\ request' = [request EXCEPT ![p] = NoRequest]
              BY <6>1, Received
            <7>2. p = q
              BY <2>1, <3>2, <7>1 DEF Awaiting
            <7>3. QED BY <2>t, <2>1, <7>1, <7>2, Nothing
          <6>2. QED BY <6>1
        <5>2. CASE outbox'[r] = outbox[r]
          BY <4>1, <5>2
        <5>3. CASE outbox'[r] # outbox[r]
          BY <1>2, <5>1, <5>3, OutboxStep
        <5>4. QED BY <5>2, <5>3
      <4>6. QED BY <3>2, <4>1, <4>3, <4>4, <4>5
    <3>3. QED BY <3>1, <3>2
  <2>2. QED BY <2>1 DEF Answering, Answered
<1>3. QED BY <1>1, <1>2

\* Answers, and nothing else, make a report a receipt.
LEMMA ReceiptsStep ==
  ASSUME TypeOK, Authored, Awaiting, Answering, ReceiptsAreReal, [Next]_vars
  PROVE  ReceiptsAreReal'
<1>1. CASE UNCHANGED vars
  BY <1>1 DEF vars, device, server, ReceiptsAreReal
<1>2. CASE Next
  <2>t. /\ outbox \in [Reports -> Saved] /\ report \in [Reports -> Row]
        /\ report' \in [Reports -> Row]
    BY TypeStep, Typed, TypedNext
  <2>1. ASSUME NEW r \in Reports, outbox'[r].state = "sent"
        PROVE  report'[r].owner = outbox'[r].owner /\ outbox'[r].edit <= report'[r].edit
    <3>1. CASE outbox'[r] = outbox[r]
      <4>1. report[r].owner = outbox[r].owner /\ outbox[r].edit <= report[r].edit
        BY <2>1, <3>1 DEF ReceiptsAreReal
      <4>2. report[r].owner # None
        BY <2>1, <3>1, <4>1 DEF Authored
      <4>3. report'[r].owner = report[r].owner /\ report'[r].edit >= report[r].edit
        BY <1>2, <4>2, ReportStep
      <4>4. QED BY <2>t, <3>1, <4>1, <4>3, Constants DEF Saved, Row
    <3>2. CASE outbox'[r] # outbox[r]
      <4>1. PICK q \in Requests :
              /\ Receive(q) /\ outbox'[r].owner = outbox[r].owner
              /\ request[q].answer[r] >= 0
              /\ outbox'[r].edit = request[q].answer[r]
        BY <1>2, <2>1, <3>2, OutboxStep
      <4>2. request[q].pc = "answered" /\ report' = report
        BY <4>1, Received
      <4>3. report[r].owner = request[q].owner /\ request[q].answer[r] <= report[r].edit
        BY <4>1, <4>2 DEF Answering, Answered
      <4>4. request[q].owner \in Owners
        BY <4>2 DEF Authored
      <4>5. report[r].owner = outbox[r].owner
        BY <4>3, <4>4, Constants DEF Authored, Stored
      <4>6. QED BY <4>1, <4>2, <4>3, <4>5
    <3>3. QED BY <3>1, <3>2
  <2>2. ASSUME NEW r \in Reports, outbox'[r].state = "queued"
        PROVE  outbox'[r].attached
    BY <1>2, <2>2, OutboxStep DEF ReceiptsAreReal
  <2>3. QED BY <2>1, <2>2 DEF ReceiptsAreReal
<1>3. QED BY <1>1, <1>2

LEMMA ShownStep ==
  ASSUME TypeOK, Authored, ShownBelong, [Next]_vars
  PROVE  ShownBelong'
<1>1. CASE UNCHANGED vars
  BY <1>1 DEF vars, device, ShownBelong
<1>2. CASE Next
  <2>t. shown \subseteq Reports /\ owner \in Owners
    BY Typed
  <2>1. ASSUME NEW o \in Owners, Activate(o)
        PROVE  ShownBelong'
    BY <2>1 DEF Activate, ShownBelong
  <2>2. ASSUME NEW o \in Owners, Listed(o)
        PROVE  ShownBelong'
    <3>1. /\ shown' = IF o = owner THEN Own(o) ELSE shown
          /\ outbox' = outbox /\ owner' = owner
      BY <2>2 DEF Listed
    <3>2. \A r \in Own(o) : outbox[r].owner = o
      BY DEF Own
    <3>3. QED BY <3>1, <3>2 DEF ShownBelong
  <2>3. ASSUME shown' = shown, owner' = owner
        PROVE  ShownBelong'
    <3>1. ASSUME NEW r \in shown PROVE outbox'[r].owner = owner
      <4>1. r \in Reports /\ outbox[r].owner = owner /\ outbox[r].owner # None
        BY <2>t, <3>1, Constants DEF ShownBelong
      <4>2. QED BY <1>2, <4>1, AuthorStays
    <3>2. QED BY <2>3, <3>1 DEF ShownBelong
  <2>4. CASE \/ \E r \in Reports : Submit(r) \/ Discard(r) \/ AdminUpdate(r) \/ Age(r)
             \/ Refresh \/ Deliver \/ WindowEnds \/ Stop
             \/ \E q \in Requests :
                  \/ Send(q) \/ Receive(q) \/ Count(q) \/ Expire(q) \/ Look(q)
                  \/ Store(q) \/ Mine(q) \/ Cut(q)
    <3>1. shown' = shown /\ owner' = owner
      BY <2>4 DEF Submit, Discard, AdminUpdate, Age, Refresh, Deliver, WindowEnds, Stop,
                  Send, Receive, Count, Expire, Look, Store, Mine, Cut, device
    <3>2. QED BY <2>3, <3>1
  <2>5. QED BY <1>2, <2>1, <2>2, <2>4, Actions, Zenon
<1>3. QED BY <1>1, <1>2

\* The counter is never behind the attempts it let through.
LEMMA CountedStep ==
  ASSUME TypeOK, Counted, passed <= PerIp, [Next]_vars
  PROVE  Counted' /\ (passed <= PerIp)'
<1>t. counter \in [n : 0 .. PerIp + 1, ends : BOOLEAN] /\ passed \in 0 .. PerIp + 1
  BY Typed
<1>1. CASE UNCHANGED <<counter, passed>>
  BY <1>1 DEF Counted
<1>2. ASSUME NEW q \in Requests, Count(q)
      PROVE  Counted' /\ (passed <= PerIp)'
  <2>1. /\ counter'.n = IF counter.n <= PerIp THEN counter.n + 1 ELSE PerIp + 1
        /\ \/ /\ counter.n < PerIp
              /\ passed' = IF passed <= PerIp THEN passed + 1 ELSE PerIp + 1
           \/ passed' = passed
    BY <1>t, <1>2, CountedAs
  <2>2. QED BY <1>t, <2>1, Constants DEF Counted
<1>3. ASSUME NEW q \in Requests, Expire(q)
      PROVE  Counted' /\ (passed <= PerIp)'
  <2>1. passed' = passed /\ counter'.n = counter.n
    BY <1>t, <1>3 DEF Expire
  <2>2. QED BY <2>1 DEF Counted
<1>4. CASE WindowEnds
  BY <1>4, Constants DEF WindowEnds, Counted
<1>5. CASE \/ \E r \in Reports : Submit(r) \/ Discard(r) \/ AdminUpdate(r) \/ Age(r)
           \/ \E o \in Owners : Activate(o) \/ Listed(o)
           \/ Refresh \/ Deliver \/ Stop
           \/ \E q \in Requests :
                Send(q) \/ Receive(q) \/ Look(q) \/ Store(q) \/ Mine(q) \/ Cut(q)
  <2>1. UNCHANGED <<counter, passed>>
    BY <1>5 DEF Submit, Discard, AdminUpdate, Age, Activate, Listed, Refresh, Deliver,
                Stop, Send, Receive, Look, Store, Mine, Cut, server
  <2>2. QED BY <1>1, <2>1
<1>6. CASE UNCHANGED vars
  BY <1>1, <1>6 DEF vars, server
<1>7. QED BY <1>2, <1>3, <1>4, <1>5, <1>6, Actions, Zenon

LEMMA RecentReports ==
  /\ \A o : Recent(o) \in SUBSET Reports
  /\ \A o : Recent(o)' \in SUBSET Reports
BY DEF Recent, Stored

\* What counts for an owner grows by a report that is inserted, and only so.
LEMMA RecentStep ==
  ASSUME TypeOK, Awaiting, Next, NEW o \in Owners
  PROVE  \/ Recent(o)' \subseteq Recent(o)
         \/ \E q \in Requests :
              /\ Store(q) /\ request[q].pc = "insert" /\ request[q].owner = o
              /\ Recent(o)' \subseteq Recent(o) \cup {request[q].id}
<1>1. ASSUME NEW r \in Recent(o)', r \notin Recent(o)
      PROVE  \E q \in Requests :
              /\ Store(q) /\ request[q].pc = "insert" /\ request[q].owner = o
              /\ Recent(o)' \subseteq Recent(o) \cup {request[q].id}
  <2>1. r \in Reports /\ report'[r].owner = o /\ report'[r].recent
    BY <1>1 DEF Recent, Stored
  <2>2. ~(report'[r].owner = report[r].owner /\ (report'[r].recent => report[r].recent))
    BY <1>1, <2>1, Constants DEF Recent, Stored
  <2>3. PICK q \in Requests :
          /\ Store(q) /\ request[q].pc = "insert" /\ request[q].id = r
          /\ report'[r].owner = request[q].owner
          /\ \A s \in Reports \ {r} : report'[s] = report[s]
    BY <2>1, <2>2, ReportStep
  <2>4. Recent(o)' \subseteq Recent(o) \cup {r}
    BY <2>3 DEF Recent, Stored
  <2>5. QED BY <2>1, <2>3, <2>4
<1>2. QED BY <1>1

\* A request that is in the lock was there before, or has just looked.
LEMMA Entered ==
  ASSUME TypeOK, Awaiting, Next, NEW q \in Requests, InLock(q)'
  PROVE  /\ request'[q].owner = request[q].owner /\ request'[q].id = request[q].id
         /\ \/ InLock(q) /\ request'[q].pc = request[q].pc
            \/ Look(q) /\ Proceed(q, request'[q].pc)
<1>1. request'[q].pc \in {"found", "insert"}
  BY DEF InLock
<1>2. request'[q] # NoRequest /\ ~Send(q)
  BY <1>1, Nothing, SentRequest
<1>3. QED BY <1>1, <1>2, RequestStep DEF GoesOn, InLock

LEMMA HoldingStep ==
  ASSUME TypeOK, Authored, Awaiting, Holding, [Next]_vars
  PROVE  Holding'
<1>1. CASE UNCHANGED vars
  BY <1>1 DEF vars, device, server, Holding, InLock, Recent, Stored
<1>2. CASE Next
  <2>t. request \in [Requests -> RequestType]
    BY Typed
  <2>1. ASSUME NEW p \in Requests, NEW q \in Requests, InLock(p)', InLock(q)',
               request'[p].owner = request'[q].owner
        PROVE  p = q
    <3>1. ASSUME NEW s \in Requests, NEW u \in Requests, s # u,
                 Look(s), Proceed(s, request'[s].pc), InLock(s)', InLock(u)',
                 request'[s].owner = request'[u].owner
          PROVE  FALSE
      <4>1. request'[u] = request[u]
        BY <2>t, <3>1 DEF Proceed
      <4>2. InLock(u)
        BY <3>1, <4>1 DEF InLock
      <4>3. request[u].owner # request[s].owner
        BY <3>1, <4>2, Looked DEF Locked, InLock
      <4>4. QED BY <1>2, <3>1, <4>1, <4>3, Entered
    <3>2. InLock(p) /\ InLock(q) /\ request[p].owner = request[q].owner => p = q
      BY DEF Holding
    <3>3. QED BY <1>2, <2>1, <3>1, <3>2, Entered
  <2>2. ASSUME NEW q \in Requests, request'[q].pc = "found"
        PROVE  report'[request'[q].id].owner = request'[q].owner
    <3>1. /\ request'[q].owner = request[q].owner /\ request'[q].id = request[q].id
          /\ request[q].pc = "found" \/ (Look(q) /\ Proceed(q, "found"))
      BY <1>2, <2>2, Entered DEF InLock
    <3>2. report[request[q].id].owner = request[q].owner
      <4>1. CASE request[q].pc = "found"
        BY <4>1 DEF Holding
      <4>2. CASE Look(q)
        <5>1. ~Refuse(q)
          BY <2>t, <2>2, Nothing, Finished DEF Refuse
        <5>2. ~Proceed(q, "insert")
          BY <2>t, <2>2, Proceeded
        <5>3. QED BY <4>2, <5>1, <5>2, Looked
      <4>3. QED BY <3>1, <4>1, <4>2
    <3>3. request[q].pc \in WithReport /\ request[q].pc # "none"
      BY <3>1 DEF Look, WithReport
    <3>4. request[q].owner \in Owners /\ request[q].id # 0
      BY <3>3 DEF Authored, Awaiting, WithReport
    <3>5. PICK r \in Reports : r = request[q].id
      BY <2>t, <3>4, Constants DEF RequestType, Reports
    <3>6. report'[r].owner = report[r].owner
      BY <1>2, <3>2, <3>4, <3>5, ReportStep, Constants
    <3>7. QED BY <3>1, <3>2, <3>5, <3>6
  <2>3. ASSUME NEW q \in Requests, request'[q].pc = "insert",
               NEW o, o = request'[q].owner
        PROVE  Cardinality(Recent(o)') < PerOwner
    <3>1. /\ o = request[q].owner
          /\ request[q].pc = "insert" \/ (Look(q) /\ Proceed(q, "insert"))
      BY <1>2, <2>3, Entered DEF InLock
    <3>2. o \in Owners
      BY <3>1 DEF Authored, Look
    <3>r. /\ Recent(o) \in SUBSET Reports /\ Recent(o)' \in SUBSET Reports
          /\ Cardinality(Recent(o)) \in Nat /\ Cardinality(Recent(o)') \in Nat
      BY RecentReports, SomeReports
    <3>3. CASE request[q].pc = "insert"
      <4>1. Cardinality(Recent(o)) < PerOwner
        BY <3>1, <3>3 DEF Holding
      <4>2. ~Store(q)
        BY <2>t, <2>3, StoredTyped, Finished, Nothing DEF Refuse
      <4>3. Recent(o)' \subseteq Recent(o)
        <5>1. ASSUME NEW p \in Requests,
                     Store(p), request[p].pc = "insert", request[p].owner = o
              PROVE  FALSE
          <6>1. p = q
            BY <3>1, <3>3, <5>1 DEF Holding, InLock
          <6>2. QED BY <4>2, <5>1, <6>1
        <5>2. QED BY <1>2, <3>2, <5>1, RecentStep
      <4>4. QED BY <3>r, <4>1, <4>3, SomeReports, Constants
    <3>4. CASE Look(q) /\ Proceed(q, "insert")
      <4>1. ~Refuse(q) /\ ~Proceed(q, "found")
        BY <2>t, <2>3, Nothing, Finished, Proceeded DEF Refuse
      <4>2. /\ report' = report
            /\ \E n \in Counts(request[q].owner) : ~(n >= PerOwner)
        BY <3>4, <4>1, Looked
      <4>3. PICK T \in SUBSET { r \in Stored : report[r].owner = o } :
              /\ Recent(o) \subseteq T /\ ~(Cardinality(T) >= PerOwner)
        BY <3>1, <4>2 DEF Counts, Recent
      <4>4. T \in SUBSET Reports
        BY DEF Stored
      <4>5. Cardinality(T) \in Nat /\ Cardinality(Recent(o)) <= Cardinality(T)
        BY <4>3, <4>4, SomeReports
      <4>6. Recent(o)' = Recent(o)
        BY <4>2 DEF Recent, Stored
      <4>7. QED BY <3>r, <4>3, <4>5, <4>6, Constants
    <3>5. QED BY <3>1, <3>3, <3>4
  <2>4. ASSUME NEW q \in Requests, request'[q].pc = "insert"
        PROVE  Cardinality(Recent(request[q].owner))' < PerOwner
    <3>1. PICK o : o = request'[q].owner
      OBVIOUS
    <3>2. Cardinality(Recent(o)') < PerOwner
      BY <2>3, <2>4, <3>1
    <3>3. Recent(o)' = Recent(request[q].owner)'
      BY <3>1 DEF Recent, Stored
    <3>4. QED BY <3>2, <3>3
  <2>5. QED BY <2>1, <2>2, <2>4 DEF Holding
<1>3. QED BY <1>1, <1>2

LEMMA LimitsStep ==
  ASSUME TypeOK, Awaiting, Holding, Counted, LimitsHold, [Next]_vars
  PROVE  LimitsHold'
<1>1. (passed <= PerIp)'
  BY CountedStep DEF LimitsHold
<1>2. ASSUME NEW o \in Owners PROVE Cardinality(Recent(o)') <= PerOwner
  <2>r. /\ Recent(o) \in SUBSET Reports /\ Recent(o)' \in SUBSET Reports
        /\ Cardinality(Recent(o)) \in Nat /\ Cardinality(Recent(o)') \in Nat
    BY RecentReports, SomeReports
  <2>1. Cardinality(Recent(o)) <= PerOwner
    BY DEF LimitsHold, Recent
  <2>2. CASE Recent(o)' \subseteq Recent(o)
    BY <2>r, <2>1, <2>2, SomeReports, Constants
  <2>3. ASSUME NEW q \in Requests, request[q].pc = "insert", request[q].owner = o,
               Recent(o)' \subseteq Recent(o) \cup {request[q].id}
        PROVE  Cardinality(Recent(o)') <= PerOwner
    <3>1. Cardinality(Recent(o)) < PerOwner
      BY <2>3 DEF Holding
    <3>2. Cardinality(Recent(o)') <= Cardinality(Recent(o)) + 1
      BY <2>r, <2>3, SomeReports
    <3>3. QED BY <2>r, <3>1, <3>2, Constants
  <2>4. CASE UNCHANGED vars
    <3>1. Recent(o)' = Recent(o)
      BY <2>4 DEF vars, server, Recent, Stored
    <3>2. QED BY <2>1, <3>1
  <2>5. QED BY <2>2, <2>3, <2>4, RecentStep
<1>3. QED BY <1>1, <1>2 DEF LimitsHold, Recent

-----------------------------------------------------------------------------
(* The theorems.                                                           *)

LEMMA InitHolds == Init => IInv
<1> SUFFICES ASSUME Init PROVE IInv
  OBVIOUS
<1>1. TypeOK
  BY Nothing, Constants, Typed DEF Init
<1>2. Authored
  BY Nothing, Constants DEF Init, Authored, Stored, NotSaved, NoRow
<1>3. Awaiting /\ Answering
  BY Nothing DEF Init, Awaiting, Answering, Answered
<1>4. ReceiptsAreReal /\ ShownBelong
  BY DEF Init, ReceiptsAreReal, ShownBelong, NotSaved
<1>5. \A o : Recent(o) = {}
  BY DEF Init, Recent, Stored, NoRow
<1>6. Cardinality({}) = 0
  BY FS_EmptySet
<1>7. Holding
  BY Nothing DEF Init, Holding, InLock
<1>8. Counted /\ LimitsHold
  <2>1. \A o \in Owners : Cardinality(Recent(o)) <= PerOwner
    BY <1>5, <1>6, Constants
  <2>2. passed = 0 /\ counter.n = 0
    BY DEF Init
  <2>3. QED BY <2>1, <2>2, Constants DEF Counted, LimitsHold, Recent
<1>9. QED BY <1>1, <1>2, <1>3, <1>4, <1>7, <1>8 DEF IInv

LEMMA StepKeeps == IInv /\ [Next]_vars => IInv'
<1> SUFFICES ASSUME IInv, [Next]_vars PROVE IInv'
  OBVIOUS
<1>1. TypeOK' /\ Authored' /\ Awaiting' /\ Answering' /\ ReceiptsAreReal'
  BY TypeStep, AuthoredStep, AwaitingStep, AnsweringStep, ReceiptsStep DEF IInv
<1>2. ShownBelong' /\ Holding' /\ Counted' /\ LimitsHold'
  BY ShownStep, HoldingStep, CountedStep, LimitsStep DEF IInv, LimitsHold
<1>3. QED BY <1>1, <1>2 DEF IInv

LEMMA Inductive == Spec => []IInv
BY InitHolds, StepKeeps, PTL DEF Spec

\* Every variable keeps its type: a request that carries a report carries one
\* there is (feedback_provider.dart), and counters stay within their bounds.
THEOREM FeedbackTyped == Spec => []TypeOK
<1>1. IInv => TypeOK
  BY DEF IInv
<1>2. QED BY <1>1, Inductive, PTL

\* A report shown as received is stored under its author, in an update at least
\* as new, and an unsent one is kept whole (feedback_repository.dart), for any
\* accounts, reports, requests that run on unattended, and lost answers.
THEOREM ReceiptsReal == Spec => []ReceiptsAreReal
<1>1. IInv => ReceiptsAreReal
  BY DEF IInv
<1>2. QED BY <1>1, Inductive, PTL

\* The reports on the screen are those of who is signed in, for any number of
\* lists awaited when the account changes (feedback_provider.dart).
THEOREM ShownOfOwner == Spec => []ShownBelong
<1>1. IInv => ShownBelong
  BY DEF IInv
<1>2. QED BY <1>1, Inductive, PTL

\* An owner stays within PerOwner new reports an hour and an address within
\* PerIp attempts a window, for any limits and any number of requests at once
\* (feedback_handler.rs).
THEOREM LimitsKept == Spec => []LimitsHold
<1>1. IInv => LimitsHold
  BY DEF IInv
<1>2. QED BY <1>1, Inductive, PTL

LEMMA NoStepBack ==
  ASSUME IInv, [Next]_vars
  PROVE  [ \A r \in Reports : outbox[r].state = "sent" => outbox'[r].edit >= outbox[r].edit
         ]_vars
<1>1. CASE UNCHANGED vars
  BY <1>1
<1>2. CASE Next
  <2>t. outbox \in [Reports -> Saved]
    BY Typed DEF IInv
  <2>1. ASSUME NEW r \in Reports, outbox[r].state = "sent"
        PROVE  outbox'[r].edit >= outbox[r].edit
    <3>1. CASE outbox'[r] = outbox[r]
      BY <2>t, <3>1, Constants DEF Saved
    <3>2. CASE outbox'[r] # outbox[r]
      <4>1. PICK q \in Requests :
              /\ Receive(q) /\ request[q].answer[r] >= 0
              /\ outbox'[r].edit = request[q].answer[r]
        BY <1>2, <2>1, <3>2, OutboxStep DEF IInv
      <4>2. request[q].pc = "answered"
        BY <4>1, Received DEF IInv
      <4>3. outbox[r].edit <= request[q].answer[r]
        BY <2>1, <4>1, <4>2 DEF IInv, Answering, Answered
      <4>4. request[q].answer[r] \in Int /\ outbox[r].edit \in Int
        BY <2>t, Typed, Constants DEF IInv, RequestType, Answers, Saved
      <4>5. QED BY <4>1, <4>3, <4>4
    <3>3. QED BY <3>1, <3>2
  <2>2. QED BY <2>1
<1>3. QED BY <1>1, <1>2

\* The team's status and reply never go back on the device: an answer that was
\* on its way while a newer one arrived is nobody's any more.
THEOREM RepliesNeverOlder == Spec => NeverOlder
<1>1. IInv /\ [Next]_vars =>
        [ \A r \in Reports : outbox[r].state = "sent" => outbox'[r].edit >= outbox[r].edit
        ]_vars
  BY NoStepBack
<1>2. QED BY <1>1, Inductive, PTL DEF Spec, NeverOlder

=============================================================================
