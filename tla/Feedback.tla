------------------------------ MODULE Feedback ------------------------------
(***************************************************************************)
(* Feedback reports: saved on the device for the account (or the guest)    *)
(* that wrote them, sent when there is a connection, sent again under the  *)
(* same id when the answer was lost, and answered by the team.             *)
(*                                                                         *)
(* Every report of this device comes from one address, so one counter in   *)
(* Redis limits it.  A receipt key stands for its owner.                   *)
(***************************************************************************)
EXTENDS Integers, FiniteSets, FiniteSetsExt

CONSTANTS
  Owners, None,
  Last,        \* reports are 1 .. Last, in the order they are written
  Requests,    \* slots for requests at the server
  PerIp, PerOwner,   \* 50 attempts, 10 new reports an hour
  MaxEdits,    \* bound: updates by the team of a report
  MaxFaults    \* bound: requests and answers that are lost or late

ASSUME FeedbackAssumption ==
  /\ None \notin Owners /\ {Last, PerIp, PerOwner} \subseteq Nat \ {0}
  /\ {MaxEdits, MaxFaults} \subseteq Nat

Reports == 1 .. Last

VARIABLES
  outbox,    \* device, table feedback_outbox
  owner,     \* device, _owner
  shown,     \* device, reports
  reload,    \* device, the owners whose list is awaited
  run,       \* device, _delivery
  request,   \* requests at the server, and their answers
  counter,   \* Redis, the count of the address and whether it will expire
  report,    \* server, table feedback_reports
  passed,    \* history: attempts let through in this window
  faults

device == <<outbox, owner, shown, reload, run>>
server == <<counter, report, passed>>
vars == <<device, request, server, faults>>

\* status and team_reply are the number of the team's last update, 0 for
\* received; attached is the screenshot.
Saved == [ state : {"none", "queued", "sent", "discarded"},
           owner : Owners \cup {None}, edit : 0 .. MaxEdits, attached : BOOLEAN ]
NotSaved == [state |-> "none", owner |-> None, edit |-> 0, attached |-> FALSE]

\* recent: created within the hour.
Row == [owner : Owners \cup {None}, edit : 0 .. MaxEdits, recent : BOOLEAN]
NoRow == [owner |-> None, edit |-> 0, recent |-> FALSE]
Stored == { r \in Reports : report[r].owner # None }

Idle == [pc |-> "idle", owner |-> None, todo |-> {}]
NoRequest == [ pc |-> "none", awaited |-> FALSE, owner |-> None, id |-> 0,
               answer |-> [r \in Reports |-> -1] ]

TypeOK ==
  /\ outbox \in [Reports -> Saved]
  /\ owner \in Owners /\ shown \subseteq Reports /\ reload \subseteq Owners
  /\ run \in [ pc : {"idle", "config", "next", "wait"},
               owner : Owners \cup {None}, todo : SUBSET Reports ]
  /\ request \in [Requests ->
       [ pc : {"none", "count", "expire", "wait", "found", "insert", "mine",
               "answered", "refused"},
         awaited : BOOLEAN, owner : Owners \cup {None}, id : 0 .. Last,
         answer : [Reports -> -1 .. MaxEdits] ]]
  /\ counter \in [n : 0 .. PerIp + 1, ends : BOOLEAN]
  /\ report \in [Reports -> Row]
  /\ passed \in 0 .. PerIp + 1 /\ faults \in 0 .. MaxFaults

Init ==
  /\ outbox = [r \in Reports |-> NotSaved]
  /\ owner \in Owners /\ shown = {} /\ reload = {}
  /\ run = Idle
  /\ request = [q \in Requests |-> NoRequest]
  /\ counter = [n |-> 0, ends |-> FALSE]
  /\ report = [r \in Reports |-> NoRow]
  /\ passed = 0 /\ faults = 0

-----------------------------------------------------------------------------
(* The device: saving, showing and discarding reports.                     *)

Own(o) ==
  { r \in Reports : outbox[r].owner = o /\ outbox[r].state \in {"queued", "sent"} }

Submit(r) ==
  /\ outbox[r].state = "none" /\ \A s \in 1 .. r - 1 : outbox[s].state # "none"
  /\ outbox' = [outbox EXCEPT ![r] =
       [state |-> "queued", owner |-> owner, edit |-> 0, attached |-> TRUE]]
  /\ reload' = reload \cup {owner}
  /\ UNCHANGED <<owner, shown, run, request, server, faults>>

\* Another account is signed in, or none.
Activate(o) ==
  /\ o # owner
  /\ owner' = o /\ shown' = {} /\ reload' = reload \cup {o}
  /\ UNCHANGED <<outbox, run, request, server, faults>>

\* Mutant: the list is shown to whoever is signed in by now.
ListedForAll(o) ==
  /\ o \in reload
  /\ reload' = reload \ {o} /\ shown' = Own(o)
  /\ UNCHANGED <<outbox, owner, run, request, server, faults>>

\* A list arrives.  The database answers in order: the last list is the
\* newest, and one answer stands for those awaited for the same owner.
Listed(o) ==
  /\ o \in reload
  /\ reload' = reload \ {o}
  /\ shown' = IF o = owner THEN Own(o) ELSE shown
  /\ UNCHANGED <<outbox, owner, run, request, server, faults>>

Discard(r) ==
  /\ r \in shown /\ outbox[r].owner = owner /\ outbox[r].state = "queued"
  /\ outbox' = [outbox EXCEPT ![r].state = "discarded"]
  /\ reload' = reload \cup {owner}
  /\ UNCHANGED <<owner, shown, run, request, server, faults>>

-----------------------------------------------------------------------------
(* The device: delivery.                                                   *)

\* One at a time: a refresh in the meantime waits for this one instead.
Refresh ==
  /\ run.pc = "idle"
  /\ run' = [pc |-> "config", owner |-> owner, todo |-> {}]
  /\ UNCHANGED <<outbox, owner, shown, reload, request, server, faults>>

\* The configuration arrived; the reports to send are read once.
Deliver ==
  /\ run.pc = "config"
  /\ run' = [run EXCEPT !.pc = "next", !.todo =
       { r \in Own(run.owner) : outbox[r].state = "queued" }]
  /\ UNCHANGED <<outbox, owner, shown, reload, request, server, faults>>

\* The newest report goes first; after the last, ask for the team's answers.
Send(q) ==
  /\ run.pc = "next" /\ request[q] = NoRequest
  /\ run' = [run EXCEPT !.pc = "wait"]
  /\ request' = [request EXCEPT ![q] =
       LET r == [NoRequest EXCEPT !.awaited = TRUE, !.owner = run.owner] IN
       IF run.todo = {} THEN [r EXCEPT !.pc = "mine"]
       ELSE [r EXCEPT !.pc = "count", !.id = Max(run.todo)]]
  /\ UNCHANGED <<outbox, owner, shown, reload, server, faults>>

\* Mutant: the screenshot goes with the attempt.
SentOrTried(q) ==
  LET a == request[q].answer IN
  [r \in Reports |->
     IF outbox[r].state \in {"queued", "sent"} /\ a[r] >= 0
     THEN [outbox[r] EXCEPT !.state = "sent", !.edit = a[r], !.attached = FALSE]
     ELSE [outbox[r] EXCEPT !.attached = FALSE]]

\* Rows that are still there take the server's status.  The answer to a report
\* drops its screenshot too, the list of answers does not.
Acknowledged(q) ==
  LET a == request[q].answer IN
  [r \in Reports |->
     IF outbox[r].state \in {"queued", "sent"} /\ a[r] >= 0
     THEN [outbox[r] EXCEPT !.state = "sent", !.edit = a[r],
                            !.attached = @ /\ request[q].id = 0]
     ELSE outbox[r]]

\* The answer to a report, or the list of answers that ends the delivery.
Receive(q) ==
  /\ request[q].awaited /\ request[q].pc = "answered"
  /\ outbox' = Acknowledged(q)
  /\ request' = [request EXCEPT ![q] = NoRequest]
  /\ IF request[q].id = 0
     THEN run' = Idle /\ reload' = reload \cup {request[q].owner}
     ELSE /\ run' = [run EXCEPT !.pc = "next", !.todo = @ \ {request[q].id}]
          /\ UNCHANGED reload
  /\ UNCHANGED <<owner, shown, server, faults>>

\* Mutant: an answer that comes too late is taken all the same.
StillAwaited(q) ==
  IF request[q].pc = "refused" THEN NoRequest ELSE request[q]

\* A request nobody waits for goes on without an answer.
Abandoned(q) ==
  IF request[q].pc \in {"answered", "refused"} THEN NoRequest
  ELSE [request[q] EXCEPT !.awaited = FALSE]

\* The delivery ends.
Stop ==
  /\ run' = Idle /\ reload' = reload \cup {run.owner}
  /\ request' = [q \in Requests |-> Abandoned(q)]
  /\ UNCHANGED <<outbox, owner, shown, server>>

\* The server refused.
Refused ==
  /\ \E q \in Requests : request[q].awaited /\ request[q].pc = "refused"
  /\ Stop /\ UNCHANGED faults

\* Mutant: the timer outlives the delivery.
TimedOutLater == faults < MaxFaults /\ Stop /\ faults' = faults + 1

\* No answer came in time, or there is no connection.
TimedOut ==
  /\ run.pc \in {"config", "wait"} /\ faults < MaxFaults
  /\ Stop /\ faults' = faults + 1

-----------------------------------------------------------------------------
(* The server.                                                             *)

\* A request is done: its answer goes to the delivery that waits for it.
Finish(q, pc, a) ==
  request' = [request EXCEPT ![q] =
    IF ~@.awaited THEN NoRequest ELSE [@ EXCEPT !.pc = pc, !.answer = a]]

Refuse(q) == Finish(q, "refused", NoRequest.answer)
Proceed(q, pc) == request' = [request EXCEPT ![q].pc = pc]

\* Above the limit the count makes no difference any more.
LetThrough(n) == n <= PerIp

\* INCR; the first count of a window is still to be given its end.
Count(q) ==
  LET n == Min({counter.n + 1, PerIp + 1}) IN
  /\ request[q].pc = "count"
  /\ counter' = [counter EXCEPT !.n = n]
  /\ \/ LetThrough(n) /\ passed' = Min({passed + 1, PerIp + 1})
        /\ Proceed(q, IF n = 1 THEN "expire" ELSE "wait")
     \/ ~LetThrough(n) /\ Refuse(q) /\ UNCHANGED passed
  /\ UNCHANGED <<device, report, faults>>

\* EXPIRE.
Expire(q) ==
  /\ request[q].pc = "expire"
  /\ counter' = [counter EXCEPT !.ends = (counter.n > 0)]
  /\ Proceed(q, "wait")
  /\ UNCHANGED <<device, report, passed, faults>>

\* Mutant: no lock.
Unlocked(q) == TRUE

\* The lock of the owner is held from here to the end of the transaction.
Locked(q) ==
  \A p \in Requests : request[p].pc \in {"found", "insert"} =>
    request[p].owner # request[q].owner

\* now() is when the transaction began: a row that is a little older than an
\* hour may still be counted.
Counts(o) ==
  { Cardinality(S) : S \in
      { T \in SUBSET { r \in Stored : report[r].owner = o } :
          { r \in Stored : report[r].owner = o /\ report[r].recent } \subseteq T } }

Look(q) ==
  LET r == request[q].id IN
  /\ request[q].pc = "wait" /\ Locked(q)
  /\ IF report[r].owner = request[q].owner THEN Proceed(q, "found")
     ELSE \E n \in Counts(request[q].owner) :
            IF r \in Stored \/ n >= PerOwner THEN Refuse(q)
                                             ELSE Proceed(q, "insert")
  /\ UNCHANGED <<device, server, faults>>

\* Insert if it is new, read the status, commit.  The primary key refuses a
\* second row.
Store(q) ==
  LET r == request[q].id IN
  /\ request[q].pc \in {"found", "insert"}
  /\ IF request[q].pc = "insert" /\ r \in Stored
     THEN Refuse(q) /\ UNCHANGED report
     ELSE /\ report' = IF request[q].pc = "found" THEN report ELSE
               [report EXCEPT ![r] =
                  [owner |-> request[q].owner, edit |-> 0, recent |-> TRUE]]
          /\ Finish(q, "answered", [NoRequest.answer EXCEPT ![r] = report'[r].edit])
  /\ UNCHANGED <<device, counter, passed, faults>>

\* The statuses of the owner's reports.
Mine(q) ==
  /\ request[q].pc = "mine"
  /\ Finish(q, "answered",
       [r \in Reports |-> IF r \in Stored /\ report[r].owner = request[q].owner
                          THEN report[r].edit ELSE -1])
  /\ UNCHANGED <<device, server, faults>>

AdminUpdate(r) ==
  /\ r \in Stored /\ report[r].edit < MaxEdits
  /\ report' = [report EXCEPT ![r].edit = @ + 1]
  /\ UNCHANGED <<device, request, counter, passed, faults>>

\* A request that was not answered is cut off (timeout, crash, connection).
Cut(q) ==
  /\ request[q].pc \notin {"none", "answered", "refused"} /\ faults < MaxFaults
  /\ faults' = faults + 1 /\ Refuse(q)
  /\ UNCHANGED <<device, server>>

\* An hour is over: for the counter, for a report.
WindowEnds ==
  /\ counter.ends
  /\ counter' = [n |-> 0, ends |-> FALSE] /\ passed' = 0
  /\ UNCHANGED <<device, request, report, faults>>
Age(r) ==
  /\ report[r].recent
  /\ report' = [report EXCEPT ![r].recent = FALSE]
  /\ UNCHANGED <<device, request, counter, passed, faults>>

-----------------------------------------------------------------------------
Next ==
  \/ \E r \in Reports : Submit(r) \/ Discard(r) \/ AdminUpdate(r) \/ Age(r)
  \/ \E o \in Owners : Activate(o) \/ Listed(o)
  \/ Refresh \/ Deliver \/ Refused \/ TimedOut \/ WindowEnds
  \/ \E q \in Requests :
       \/ Send(q) \/ Receive(q)
       \/ Count(q) \/ Expire(q) \/ Look(q) \/ Store(q) \/ Mine(q) \/ Cut(q)

Spec == Init /\ [][Next]_vars
=============================================================================
