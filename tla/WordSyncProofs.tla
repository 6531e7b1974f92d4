-------------------------- MODULE WordSyncProofs --------------------------
(***************************************************************************)
(* Proofs about the vocabulary sync, for every set of devices, words and   *)
(* requests and every value of the limits.                                 *)
(***************************************************************************)
EXTENDS WordSyncProps, TLAPS

\* The phases in which a device holds on to a request, and those in which
\* it works on the answer.
Holding == {"await", "mark", "merge", "save"}
Applying == {"mark", "merge", "save"}

(***************************************************************************)
(* A device that waits for a request or applies its answer holds a slot of *)
(* its own, and the slot it applies holds a complete answer.               *)
(***************************************************************************)
OwnSlot ==
  \A d \in Devices :
    /\ run[d].pc \in Holding => run[d].via \in Requests
    /\ run[d].via \in Requests => run[d].pc \in Holding
    /\ run[d].pc \in Holding => req[run[d].via].stage # "free"
    /\ run[d].pc \in Applying => Answered(run[d].via)
    /\ \A e \in Devices :
         run[d].via \in Requests /\ run[e].via = run[d].via => d = e

TypeInv == TypeOK /\ OwnSlot

-----------------------------------------------------------------------------
(* Types of the operators the actions are built from.                      *)

LEMMA FreeRequestType == FreeRequest \in RequestType /\ NoRun \in RunType
BY SyncAssumption, NobodyAssumption
   DEF FreeRequest, RequestType, NoRun, RunType, Stages, Phases, Idle, Version,
       ServerRow, Authors, NoVersion, NoServerRow

LEMMA NoRowType ==
  NoVersion \in Version /\ NoServerRow \in ServerRow /\ NoLocalRow \in LocalRow
BY DEF NoVersion, Version, NoServerRow, ServerRow, NoLocalRow, LocalRow, Authors

LEMMA MergeRowType ==
  ASSUME NEW l \in LocalRow, NEW r \in ServerRow
  PROVE  MergeRow(l, r) \in LocalRow
BY DEF MergeRow, Clean, LocalRow, ServerRow

\* What the steps of a run do to its record.
LEMMA RunPcType ==
  ASSUME NEW r \in RunType, NEW pc \in Phases
  PROVE  [r EXCEPT !.pc = pc] \in RunType
BY DEF RunType

LEMMA RunViaType ==
  ASSUME NEW r \in RunType, NEW pc \in Phases, NEW s \in Requests
  PROVE  [r EXCEPT !.pc = pc, !.via = s] \in RunType
BY DEF RunType

LEMMA RunPushType ==
  ASSUME NEW r \in RunType, NEW pc \in Phases, NEW s \in Requests, r.pushes < MaxPushes
  PROVE  [r EXCEPT !.pc = pc, !.via = s, !.pushes = @ + 1] \in RunType
<1>1. r.pushes + 1 \in 0 .. MaxPushes
  BY SyncAssumption DEF RunType
<1>2. QED BY <1>1 DEF RunType

LEMMA RunPageType ==
  ASSUME NEW r \in RunType, NEW pc \in Phases, NEW s \in Requests, r.pages < MaxPages
  PROVE  [r EXCEPT !.pc = pc, !.via = s, !.pages = @ + 1] \in RunType
<1>1. r.pages + 1 \in 0 .. MaxPages
  BY SyncAssumption DEF RunType
<1>2. QED BY <1>1 DEF RunType

LEMMA RunSaveType ==
  ASSUME NEW r \in RunType, NEW pc \in Phases, NEW n \in Nat, NEW m \in BOOLEAN
  PROVE  [r EXCEPT !.pc = pc, !.via = NoRequest, !.rev = n, !.more = m] \in RunType
BY DEF RunType

\* What the steps of the server do to a request.
LEMMA RequestStageType ==
  ASSUME NEW r \in RequestType, NEW stage \in Stages
  PROVE  [r EXCEPT !.stage = stage] \in RequestType
BY DEF RequestType

LEMMA RequestUpsertType ==
  ASSUME NEW r \in RequestType, NEW todo \in SUBSET Words, NEW accepted \in SUBSET Words,
         NEW rows \in [Words -> ServerRow]
  PROVE  [r EXCEPT !.todo = todo, !.staged = rows, !.accepted = accepted] \in RequestType
BY DEF RequestType

LEMMA RequestCommitType ==
  ASSUME NEW r \in RequestType, NEW stage \in Stages, NEW rows \in [Words -> ServerRow]
  PROVE  [r EXCEPT !.stage = stage, !.staged = rows] \in RequestType
BY DEF RequestType

LEMMA RequestPageType ==
  ASSUME NEW r \in RequestType, NEW stage \in Stages, NEW todo \in SUBSET Words,
         NEW rows \in [Words -> ServerRow], NEW n \in Nat, NEW m \in BOOLEAN
  PROVE  [r EXCEPT !.stage = stage, !.page = rows, !.more = m, !.next = n, !.todo = todo]
           \in RequestType
BY DEF RequestType

LEMMA RequestCanonType ==
  ASSUME NEW r \in RequestType, NEW todo \in SUBSET Words, NEW rows \in [Words -> ServerRow]
  PROVE  [r EXCEPT !.canon = rows, !.todo = todo] \in RequestType
BY DEF RequestType

\* The fields of a request and of a run, in a typed state.
LEMMA FieldTypes ==
  ASSUME TypeInv
  PROVE  /\ TypeOK
         /\ \A d \in Devices : run[d] \in RunType /\ run[d].rev \in Nat
         /\ \A d \in Devices : run[d].pc \in Holding => run[d].via \in Requests
         /\ \A s \in Requests :
              /\ req[s] \in RequestType
              /\ req[s].since \in Nat /\ req[s].next \in Nat /\ req[s].more \in BOOLEAN
              /\ req[s].todo \in SUBSET Words /\ req[s].accepted \in SUBSET Words
              /\ req[s].batch \in [Words -> Version]
              /\ req[s].staged \in [Words -> ServerRow]
              /\ req[s].page \in [Words -> ServerRow]
              /\ req[s].canon \in [Words -> ServerRow]
<1>1. TypeOK /\ OwnSlot
  BY DEF TypeInv
<1>2. \A d \in Devices : run[d] \in RunType
  BY <1>1 DEF TypeOK
<1>3. \A s \in Requests : req[s] \in RequestType
  BY <1>1 DEF TypeOK
<1>4. \A r \in RunType : r.rev \in Nat
  BY DEF RunType
<1>5. \A r \in RequestType :
        /\ r.since \in Nat /\ r.next \in Nat /\ r.more \in BOOLEAN
        /\ r.todo \in SUBSET Words /\ r.accepted \in SUBSET Words
        /\ r.batch \in [Words -> Version]
        /\ r.staged \in [Words -> ServerRow]
        /\ r.page \in [Words -> ServerRow]
        /\ r.canon \in [Words -> ServerRow]
  BY DEF RequestType
<1>6. \A d \in Devices : run[d].pc \in Holding => run[d].via \in Requests
  BY <1>1 DEF OwnSlot
<1>7. QED BY <1>1, <1>2, <1>3, <1>4, <1>5, <1>6

LEMMA RequestForType ==
  ASSUME TypeOK, NEW d \in Devices, NEW P \in SUBSET Words
  PROVE  RequestFor(d, P) \in RequestType
<1> DEFINE b == [i \in Words |-> IF i \in P THEN AsVersion(db[d][i]) ELSE NoVersion]
<1>1. \A i \in Words : AsVersion(db[d][i]) \in Version
  BY DEF TypeOK, LocalRow, AsVersion, Version
<1>2. b \in [Words -> Version]
  BY <1>1, NoRowType
<1>3. run[d].rev \in Nat
  BY DEF TypeOK, RunType
<1> HIDE DEF b
<1>4. [FreeRequest EXCEPT !.stage = "sent", !.batch = b, !.since = run[d].rev,
                         !.todo = P] \in RequestType
  BY <1>2, <1>3, FreeRequestType DEF RequestType, Stages
<1>5. QED BY <1>4 DEF RequestFor, b

-----------------------------------------------------------------------------
(* The type invariant.                                                     *)

LEMMA InitType == Init => TypeInv
<1> SUFFICES ASSUME Init PROVE TypeInv OBVIOUS
<1>1. TypeOK
  BY FreeRequestType, NoRowType DEF Init, TypeOK
<1>2. OwnSlot
  BY SyncAssumption DEF Init, OwnSlot, NoRun, Idle, Holding, Applying
<1>3. QED BY <1>1, <1>2 DEF TypeInv

\* One entry of a typed function changes to a value of the type.
LEMMA TypedUpdate ==
  ASSUME NEW S, NEW T, NEW f \in [S -> T], NEW x \in S, NEW y \in T
  PROVE  [f EXCEPT ![x] = y] \in [S -> T]
OBVIOUS

\* A step of a user writes one word with the device's next stamp.
LEMMA UserTypeStep ==
  ASSUME TypeOK, NEW d \in Devices, NEW i \in Words, NEW t \in 1 .. MaxStamp[d],
         NEW del \in BOOLEAN, Tick(d, t),
         db' = [db EXCEPT ![d][i] = Unsent(t, d, del)],
         UNCHANGED <<row, seq, req, cursor, run, upsets>>
  PROVE  TypeOK'
<1>1. t \in Nat
  BY SyncAssumption
<1>2. Unsent(t, d, del) \in LocalRow
  BY <1>1 DEF Unsent, LocalRow, Authors
<1>3. db' \in [Devices -> [Words -> LocalRow]]
  BY <1>2 DEF TypeOK
<1>4. clock' \in [Devices -> Nat]
  BY <1>1 DEF Tick, TypeOK
<1>5. QED BY <1>3, <1>4 DEF TypeOK

\* A step that changes requests only.
LEMMA RequestTypeStep ==
  ASSUME TypeOK, req' \in [Requests -> RequestType],
         UNCHANGED <<row, seq, db, clock, cursor, run, upsets>>
  PROVE  TypeOK'
BY DEF TypeOK

LEMMA TypeStep == TypeInv /\ [Next]_vars => TypeOK'
<1> SUFFICES ASSUME TypeInv, [Next]_vars PROVE TypeOK' OBVIOUS
<1>t. TypeOK
  BY FieldTypes
<1>a. \A d \in Devices : run[d] \in RunType /\ run[d].rev \in Nat
  BY FieldTypes
<1>b. \A s \in Requests : req[s] \in RequestType
  BY FieldTypes
<1>c. \A d \in Devices : run[d].pc \in Holding => run[d].via \in Requests
  BY FieldTypes
<1>f. run \in [Devices -> RunType] /\ req \in [Requests -> RequestType]
  BY <1>t DEF TypeOK
<1>g. "await" \in Phases
  BY DEF Phases
<1>1. ASSUME NEW d \in Devices, NEW i \in Words, NEW t \in 1 .. MaxStamp[d],
             AddWord(d, i, t)
      PROVE TypeOK'
  BY <1>1, <1>t, UserTypeStep DEF AddWord
<1>2. ASSUME NEW d \in Devices, NEW i \in Words, NEW t \in 1 .. MaxStamp[d],
             NEW del \in BOOLEAN, WriteWord(d, i, t, del)
      PROVE TypeOK'
  BY <1>2, <1>t, UserTypeStep DEF WriteWord
<1>3. ASSUME NEW d \in Devices, StartRun(d) PROVE TypeOK'
  <2>1. cursor[d] \in Nat
    BY <1>t DEF TypeOK
  <2>2. [NoRun EXCEPT !.pc = "push", !.rev = cursor[d]] \in RunType
    BY <2>1, FreeRequestType DEF RunType, Phases
  <2>3. run' \in [Devices -> RunType]
    BY <1>3, <1>f, <2>2, TypedUpdate DEF StartRun
  <2>4. QED BY <1>3, <1>t, <2>3 DEF StartRun, TypeOK
<1>4. ASSUME NEW d \in Devices, NEW s \in Requests, NEW P \in SUBSET Words, Send(d, s, P)
      PROVE req' \in [Requests -> RequestType]
  <2>1. RequestFor(d, P) \in RequestType
    BY <1>t, RequestForType
  <2>2. QED BY <1>4, <1>f, <2>1, TypedUpdate DEF Send
<1>5. ASSUME NEW d \in Devices, NEW s \in Requests, SendBatch(d, s) PROVE TypeOK'
  <2>1. PICK P \in SUBSET Words : Send(d, s, P)
    BY <1>5 DEF SendBatch, FirstBy, Dirty
  <2>2. req' \in [Requests -> RequestType]
    BY <1>4, <2>1
  <2>3. [run[d] EXCEPT !.pc = "await", !.via = s, !.pushes = @ + 1] \in RunType
    BY <1>5, <1>a, <1>g, RunPushType DEF SendBatch
  <2>4. run' \in [Devices -> RunType]
    BY <1>5, <1>f, <2>3, TypedUpdate DEF SendBatch
  <2>5. UNCHANGED <<row, seq, db, clock, cursor, upsets>>
    BY <1>5 DEF SendBatch
  <2>6. QED BY <1>t, <2>2, <2>4, <2>5 DEF TypeOK
<1>6. ASSUME NEW d \in Devices, NEW s \in Requests, SendPoll(d, s) PROVE TypeOK'
  <2>1. req' \in [Requests -> RequestType]
    BY <1>4, <1>6 DEF SendPoll
  <2>2. [run[d] EXCEPT !.pc = "await", !.via = s] \in RunType
    BY <1>a, <1>g, RunViaType
  <2>3. run' \in [Devices -> RunType]
    BY <1>6, <1>f, <2>2, TypedUpdate DEF SendPoll
  <2>4. UNCHANGED <<row, seq, db, clock, cursor, upsets>>
    BY <1>6 DEF SendPoll
  <2>5. QED BY <1>t, <2>1, <2>3, <2>4 DEF TypeOK
<1>7. ASSUME NEW d \in Devices, NEW s \in Requests, SendPage(d, s) PROVE TypeOK'
  <2>1. req' \in [Requests -> RequestType]
    BY <1>4, <1>7 DEF SendPage
  <2>2. [run[d] EXCEPT !.pc = "await", !.via = s, !.pages = @ + 1] \in RunType
    BY <1>7, <1>a, <1>g, RunPageType DEF SendPage
  <2>3. run' \in [Devices -> RunType]
    BY <1>7, <1>f, <2>2, TypedUpdate DEF SendPage
  <2>4. UNCHANGED <<row, seq, db, clock, cursor, upsets>>
    BY <1>7 DEF SendPage
  <2>5. QED BY <1>t, <2>1, <2>3, <2>4 DEF TypeOK
<1>8. ASSUME NEW d \in Devices, NEW pc \in Phases, run' = [run EXCEPT ![d] = [run[d] EXCEPT !.pc = pc]]
      PROVE run' \in [Devices -> RunType]
  <2>1. [run[d] EXCEPT !.pc = pc] \in RunType
    BY <1>a, RunPcType
  <2>2. QED BY <1>8, <1>f, <2>1, TypedUpdate
<1>9. ASSUME NEW d \in Devices, EndPush(d) PROVE TypeOK'
  <2>1. run' \in [Devices -> RunType]
    BY <1>8, <1>9 DEF EndPush, Phases
  <2>2. UNCHANGED <<row, seq, req, db, clock, cursor, upsets>>
    BY <1>9 DEF EndPush
  <2>3. QED BY <1>t, <2>1, <2>2 DEF TypeOK
<1>10. ASSUME NEW d \in Devices, Receive(d) PROVE TypeOK'
  <2>1. run' \in [Devices -> RunType]
    BY <1>8, <1>10 DEF Receive, Phases
  <2>2. UNCHANGED <<row, seq, req, db, clock, cursor, upsets>>
    BY <1>10 DEF Receive
  <2>3. QED BY <1>t, <2>1, <2>2 DEF TypeOK
<1>11. ASSUME NEW d \in Devices, MarkSynced(d) PROVE TypeOK'
  <2>1. \A l \in LocalRow : [l EXCEPT !.dirty = FALSE] \in LocalRow
    BY DEF LocalRow
  <2>2. db \in [Devices -> [Words -> LocalRow]]
    BY <1>t DEF TypeOK
  <2>3. db' \in [Devices -> [Words -> LocalRow]]
    BY <1>11, <2>1, <2>2 DEF MarkSynced
  <2>4. run' \in [Devices -> RunType]
    BY <1>8, <1>11 DEF MarkSynced, Phases
  <2>5. UNCHANGED <<row, seq, req, clock, cursor, upsets>>
    BY <1>11 DEF MarkSynced
  <2>6. QED BY <1>t, <2>3, <2>4, <2>5 DEF TypeOK
<1>12. ASSUME NEW d \in Devices, MergeFromServer(d) PROVE TypeOK'
  <2>1. run[d].via \in Requests
    BY <1>12, <1>c DEF MergeFromServer, Holding
  <2>2. db \in [Devices -> [Words -> LocalRow]]
    BY <1>t DEF TypeOK
  <2>3. /\ req[run[d].via].canon \in [Words -> ServerRow]
        /\ req[run[d].via].page \in [Words -> ServerRow]
    BY <2>1, FieldTypes
  <2>4. \A i \in Words :
          MergeRow(MergeRow(db[d][i], req[run[d].via].canon[i]),
                   req[run[d].via].page[i]) \in LocalRow
    BY <2>2, <2>3, MergeRowType
  <2>5. db' \in [Devices -> [Words -> LocalRow]]
    BY <1>12, <2>2, <2>4 DEF MergeFromServer
  <2>6. run' \in [Devices -> RunType]
    BY <1>8, <1>12 DEF MergeFromServer, Phases
  <2>7. UNCHANGED <<row, seq, req, clock, cursor, upsets>>
    BY <1>12 DEF MergeFromServer
  <2>8. QED BY <1>t, <2>5, <2>6, <2>7 DEF TypeOK
<1>13. ASSUME NEW d \in Devices, SaveCursor(d) PROVE TypeOK'
  <2> DEFINE q == req[run[d].via]
             pc == IF PushesOn(d, q) THEN "push" ELSE "pull"
             r == [run[d] EXCEPT !.pc = pc, !.via = NoRequest, !.rev = q.next, !.more = q.more]
  <2>1. run[d].via \in Requests
    BY <1>13, <1>c DEF SaveCursor, Holding
  <2>2. q.next \in Nat /\ q.more \in BOOLEAN
    BY <2>1, FieldTypes
  <2>3. pc \in Phases
    BY DEF Phases
  <2>4. r \in RunType
    <3> HIDE DEF pc, q
    <3>1. QED BY <1>a, <2>2, <2>3, RunSaveType
  <2>5. /\ run' = [run EXCEPT ![d] = r]
        /\ cursor' = [cursor EXCEPT ![d] = q.next]
        /\ req' = [req EXCEPT ![run[d].via] = FreeRequest]
        /\ UNCHANGED <<row, seq, db, clock, upsets>>
    BY <1>13 DEF SaveCursor
  <2> HIDE DEF r, q
  <2>6. run' \in [Devices -> RunType]
    BY <1>f, <2>4, <2>5, TypedUpdate
  <2>7. req' \in [Requests -> RequestType]
    BY <1>f, <2>1, <2>5, FreeRequestType, TypedUpdate
  <2>8. cursor' \in [Devices -> Nat]
    BY <1>t, <2>2, <2>5 DEF TypeOK
  <2>9. QED BY <1>t, <2>5, <2>6, <2>7, <2>8 DEF TypeOK
<1>14. ASSUME NEW d \in Devices, Finish(d) PROVE TypeOK'
  <2>1. db \in [Devices -> [Words -> LocalRow]]
    BY <1>t DEF TypeOK
  <2>2. db' \in [Devices -> [Words -> LocalRow]]
    BY <1>14, <2>1, NoRowType DEF Finish
  <2>3. run' \in [Devices -> RunType]
    BY <1>14, <1>f, FreeRequestType, TypedUpdate DEF Finish
  <2>4. UNCHANGED <<row, seq, req, clock, cursor, upsets>>
    BY <1>14 DEF Finish
  <2>5. QED BY <1>t, <2>2, <2>3, <2>4 DEF TypeOK
<1>15. ASSUME NEW s \in Requests, TakeLock(s) PROVE TypeOK'
  <2>1. [req[s] EXCEPT !.stage = "locked"] \in RequestType
    BY <1>b, RequestStageType DEF Stages
  <2>2. req' \in [Requests -> RequestType]
    BY <1>15, <1>f, <2>1, TypedUpdate DEF TakeLock
  <2>3. UNCHANGED <<row, seq, db, clock, cursor, run, upsets>>
    BY <1>15 DEF TakeLock
  <2>4. QED BY <1>t, <2>2, <2>3, RequestTypeStep
<1>16. ASSUME NEW s \in Requests, NEW i \in Words, UpsertRow(s, i) PROVE TypeOK'
  <2> DEFINE v == req[s].batch[i]
             staged == IF i \notin Foreign /\ SupersededBy(row[i], v)
                       THEN [req[s].staged EXCEPT ![i] = StoredAs(v, seq + 1)]
                       ELSE req[s].staged
             todo == req[s].todo \ {i}
             accepted == IF i \in Foreign THEN req[s].accepted
                         ELSE req[s].accepted \cup {i}
             q == [req[s] EXCEPT !.todo = todo, !.staged = staged, !.accepted = accepted]
  <2>1. v \in Version /\ seq \in Nat /\ req[s].staged \in [Words -> ServerRow]
    BY <1>t, FieldTypes DEF TypeOK
  <2>2. StoredAs(v, seq + 1) \in ServerRow
    BY <2>1 DEF StoredAs, Version, ServerRow
  <2>3. staged \in [Words -> ServerRow]
    BY <2>1, <2>2
  <2>4. todo \in SUBSET Words /\ accepted \in SUBSET Words
    BY FieldTypes
  <2>5. req' = [req EXCEPT ![s] = q]
    BY <1>16 DEF UpsertRow
  <2>6. q \in RequestType
    <3> HIDE DEF staged, todo, accepted
    <3>1. QED BY <1>b, <2>3, <2>4, RequestUpsertType
  <2>7. req' \in [Requests -> RequestType]
    <3> HIDE DEF q
    <3>1. QED BY <1>f, <2>5, <2>6, TypedUpdate
  <2>8. seq' \in Nat /\ UNCHANGED <<row, db, clock, cursor, run, upsets>>
    BY <1>16, <2>1 DEF UpsertRow
  <2>9. QED BY <1>t, <2>7, <2>8 DEF TypeOK
<1>17. ASSUME NEW s \in Requests, Commit(s) PROVE TypeOK'
  <2> DEFINE none == [i \in Words |-> NoServerRow]
             q == [req[s] EXCEPT !.stage = "committed", !.staged = none]
  <2>1. none \in [Words -> ServerRow] /\ "committed" \in Stages
    BY NoRowType DEF Stages
  <2>2. q \in RequestType
    <3> HIDE DEF none
    <3>1. QED BY <1>b, <2>1, RequestCommitType
  <2>3. req' = [req EXCEPT ![s] = q]
    BY <1>17 DEF Commit
  <2>4. req' \in [Requests -> RequestType]
    <3> HIDE DEF q
    <3>1. QED BY <1>f, <2>2, <2>3, TypedUpdate
  <2>5. row \in [Words -> ServerRow] /\ req[s].staged \in [Words -> ServerRow]
    BY <1>t, FieldTypes DEF TypeOK
  <2>6. row' \in [Words -> ServerRow]
    BY <1>17, <2>5 DEF Commit
  <2>7. UNCHANGED <<seq, db, clock, cursor, run, upsets>>
    BY <1>17 DEF Commit
  <2>8. QED BY <1>t, <2>4, <2>6, <2>7 DEF TypeOK
<1>18. ASSUME NEW s \in Requests, ChangesSince(s) PROVE TypeOK'
  <2> DEFINE page(P) == [i \in Words |-> IF i \in P THEN row[i] ELSE NoServerRow]
             more(P) == P # Newer(req[s].since)
             q(P, n) == [req[s] EXCEPT !.stage = "pulled", !.page = page(P),
                                       !.more = more(P), !.next = n,
                                       !.todo = req[s].accepted]
  <2>1. PICK P \in FirstBy(Newer(req[s].since), PullLimit, [i \in Words |-> row[i].rev]) :
          \E n \in {req[s].since} \cup {row[i].rev : i \in P} :
            req' = [req EXCEPT ![s] = q(P, n)]
    BY <1>18 DEF ChangesSince
  <2> HIDE DEF q
  <2>2. PICK n \in {req[s].since} \cup {row[i].rev : i \in P} :
          req' = [req EXCEPT ![s] = q(P, n)]
    BY <2>1, Zenon
  <2>3. row \in [Words -> ServerRow] /\ P \in SUBSET Words
    BY <1>t DEF TypeOK, FirstBy, Newer
  <2>4. \A i \in Words : row[i].rev \in Nat
    BY <2>3 DEF ServerRow
  <2>5. n \in Nat
    BY <2>3, <2>4, FieldTypes
  <2>6. page(P) \in [Words -> ServerRow]
    BY <2>3, NoRowType
  <2>7. more(P) \in BOOLEAN /\ "pulled" \in Stages /\ req[s].accepted \in SUBSET Words
    BY FieldTypes DEF Stages
  <2>8. q(P, n) \in RequestType
    <3> HIDE DEF page, more
    <3>1. QED BY <1>b, <2>5, <2>6, <2>7, RequestPageType DEF q
  <2>9. req' \in [Requests -> RequestType]
    BY <1>f, <2>2, <2>8, TypedUpdate
  <2>10. UNCHANGED <<row, seq, db, clock, cursor, run, upsets>>
    BY <1>18 DEF ChangesSince
  <2>11. QED BY <1>t, <2>9, <2>10, RequestTypeStep
<1>19. ASSUME NEW s \in Requests, NEW i \in Words, FindCanonical(s, i) PROVE TypeOK'
  <2> DEFINE canon == [req[s].canon EXCEPT ![i] = row[i]]
             todo == req[s].todo \ {i}
             q == [req[s] EXCEPT !.canon = canon, !.todo = todo]
  <2>1. row[i] \in ServerRow
    BY <1>t DEF TypeOK
  <2>2. canon \in [Words -> ServerRow] /\ todo \in SUBSET Words
    BY <2>1, FieldTypes
  <2>3. q \in RequestType
    <3> HIDE DEF canon, todo
    <3>1. QED BY <1>b, <2>2, RequestCanonType
  <2>4. req' = [req EXCEPT ![s] = q]
    BY <1>19 DEF FindCanonical
  <2>5. req' \in [Requests -> RequestType]
    <3> HIDE DEF q
    <3>1. QED BY <1>f, <2>3, <2>4, TypedUpdate
  <2>6. UNCHANGED <<row, seq, db, clock, cursor, run, upsets>>
    BY <1>19 DEF FindCanonical
  <2>7. QED BY <1>t, <2>5, <2>6, RequestTypeStep
<1>20. ASSUME Upset PROVE upsets' \in Nat
  BY <1>20, <1>t DEF Upset, TypeOK
<1>21. ASSUME NEW d \in Devices, Abandon(d) PROVE TypeOK'
  <2>1. run' \in [Devices -> RunType]
    BY <1>21, <1>f, FreeRequestType, TypedUpdate DEF Abandon
  <2>2. run[d].pc \in {"mark", "merge", "save"} => run[d].via \in Requests
    BY <1>c DEF Holding
  <2>3. req' \in [Requests -> RequestType]
    BY <1>21, <1>f, <2>2, FreeRequestType, TypedUpdate DEF Abandon
  <2>4. Upset /\ UNCHANGED <<row, seq, db, clock, cursor>>
    BY <1>21 DEF Abandon
  <2>5. QED BY <1>t, <1>20, <2>1, <2>3, <2>4 DEF TypeOK
<1>22. ASSUME NEW s \in Requests, Vanish(s) PROVE TypeOK'
  <2>1. req' \in [Requests -> RequestType]
    BY <1>22, <1>f, FreeRequestType, TypedUpdate DEF Vanish
  <2>2. UNCHANGED <<row, seq, db, clock, cursor, run, upsets>>
    BY <1>22 DEF Vanish
  <2>3. QED BY <1>t, <2>1, <2>2, RequestTypeStep
<1>23. ASSUME NEW s \in Requests, Fail(s) PROVE TypeOK'
  <2>1. req' \in [Requests -> RequestType]
    BY <1>23, <1>f, FreeRequestType, TypedUpdate DEF Fail
  <2>2. run' \in [Devices -> RunType]
    BY <1>23, <1>a, FreeRequestType DEF Fail
  <2>3. Upset /\ UNCHANGED <<row, seq, db, clock, cursor>>
    BY <1>23 DEF Fail
  <2>4. QED BY <1>t, <1>20, <2>1, <2>2, <2>3 DEF TypeOK
<1>24. ASSUME NEW d \in Devices, ResetCursor(d) PROVE TypeOK'
  <2>1. cursor' \in [Devices -> Nat]
    BY <1>24, <1>t DEF ResetCursor, TypeOK
  <2>2. Upset /\ UNCHANGED <<row, seq, req, db, clock, run>>
    BY <1>24 DEF ResetCursor
  <2>3. QED BY <1>t, <1>20, <2>1, <2>2 DEF TypeOK
<1>25. CASE UNCHANGED vars
  BY <1>25, <1>t DEF vars, TypeOK
<1>26. QED
  BY <1>1, <1>2, <1>3, <1>5, <1>6, <1>7, <1>9, <1>10, <1>11, <1>12, <1>13, <1>14,
     <1>15, <1>16, <1>17, <1>18, <1>19, <1>21, <1>22, <1>23, <1>24, <1>25
     DEF Next, UserStep, RunStep, ServerStep

\* A slot a server step works on is not answered yet, so whoever holds it
\* still waits; the step leaves it taken.
LEMMA OwnSlotServerStep ==
  ASSUME TypeInv, NEW s \in Requests, UNCHANGED run,
         ~Answered(s), req'[s].stage # "free",
         \A t \in Requests \ {s} : req'[t] = req[t]
  PROVE  OwnSlot'
<1>1. \A d \in Devices : run[d].pc \in Holding => run[d].via \in Requests
  BY DEF TypeInv, OwnSlot
<1>2. \A d \in Devices : run[d].pc \in Applying => run[d].via # s
  BY DEF TypeInv, OwnSlot
<1>3. \A d \in Devices : run[d].pc \in Applying => run[d].pc \in Holding
  BY DEF Applying, Holding
<1>4. QED BY <1>1, <1>2, <1>3 DEF TypeInv, OwnSlot, Answered

\* A step of d that neither takes nor drops a slot nor starts applying.
LEMMA OwnSlotDeviceStep ==
  ASSUME TypeInv, NEW d \in Devices, UNCHANGED req, NEW r \in RunType,
         run' = [run EXCEPT ![d] = r], r.via = run[d].via,
         r.pc \in Holding <=> run[d].pc \in Holding,
         r.pc \in Applying => Answered(run[d].via)
  PROVE  OwnSlot'
<1>1. \A e \in Devices : run'[e] = IF e = d THEN r ELSE run[e]
  BY DEF TypeInv, TypeOK
<1>2. QED BY <1>1 DEF TypeInv, OwnSlot, Answered

\* A step of d that takes the free slot s.
LEMMA OwnSlotTake ==
  ASSUME TypeInv, NEW d \in Devices, NEW s \in Requests, NEW r \in RunType,
         req[s].stage = "free", run[d].pc \notin Holding,
         run' = [run EXCEPT ![d] = r], r.via = s, r.pc = "await",
         \A t \in Requests : t # s => req'[t] = req[t], req'[s].stage # "free"
  PROVE  OwnSlot'
<1>1. \A e \in Devices : run'[e] = IF e = d THEN r ELSE run[e]
  BY DEF TypeInv, TypeOK
<1>2. \A e \in Devices : e # d => run[e].via # s
  BY DEF TypeInv, OwnSlot
<1>3. QED BY <1>1, <1>2 DEF TypeInv, OwnSlot, Answered, Holding, Applying

\* A step after which d holds no slot; nobody else's slot changes.
LEMMA OwnSlotDrop ==
  ASSUME TypeInv, NEW d \in Devices, NEW r \in RunType,
         run' = [run EXCEPT ![d] = r], r.via = NoRequest, r.pc \notin Holding,
         \A t \in Requests : t # run[d].via => req'[t] = req[t]
  PROVE  OwnSlot'
<1>1. \A e \in Devices : run'[e] = IF e = d THEN r ELSE run[e]
  BY DEF TypeInv, TypeOK
<1>2. \A e \in Devices : e # d /\ run[e].via \in Requests => run[e].via # run[d].via
  BY DEF TypeInv, OwnSlot
<1>3. r.pc \notin Applying /\ r.via \notin Requests
  BY SyncAssumption DEF Applying, Holding
<1>4. QED BY <1>1, <1>2, <1>3 DEF TypeInv, OwnSlot, Answered, Holding, Applying

LEMMA OwnSlotStep == TypeInv /\ [Next]_vars => OwnSlot'
<1> SUFFICES ASSUME TypeInv, [Next]_vars PROVE OwnSlot' OBVIOUS
<1>a. TypeOK /\ OwnSlot
  BY DEF TypeInv
<1>b. \A d \in Devices : run[d] \in RunType
  BY <1>a DEF TypeOK
<1>c. ASSUME NEW d \in Devices, run[d].pc \notin Holding PROVE run[d].via = NoRequest
  BY <1>a, <1>b, <1>c DEF OwnSlot, RunType
<1>d. \A s \in Requests, r \in RequestType : [req EXCEPT ![s] = r][s] = r
  BY <1>a DEF TypeOK
<1>1. ASSUME UNCHANGED <<run, req>> PROVE OwnSlot'
  BY <1>1, <1>a DEF OwnSlot, Answered
<1>2. ASSUME NEW d \in Devices, StartRun(d) PROVE OwnSlot'
  <2>1. [NoRun EXCEPT !.pc = "push", !.rev = cursor[d]] \in RunType
    BY <1>a, FreeRequestType DEF RunType, TypeOK, Phases
  <2>2. run[d].via = NoRequest /\ run[d].pc \notin Holding
    BY <1>2, <1>c DEF StartRun, Idle, Holding
  <2>3. QED BY <1>2, <2>1, <2>2, OwnSlotDeviceStep DEF StartRun, NoRun, Idle, Holding, Applying
<1>3. ASSUME NEW d \in Devices, NEW s \in Requests, SendBatch(d, s) PROVE OwnSlot'
  <2>1. PICK P \in SUBSET Words : Send(d, s, P)
    BY <1>3 DEF SendBatch, FirstBy, Dirty
  <2>2. req'[s].stage = "sent"
    BY <2>1, <1>a DEF Send, RequestFor, FreeRequest, TypeOK
  <2>3. [run[d] EXCEPT !.pc = "await", !.via = s, !.pushes = @ + 1] \in RunType
    BY <1>3, <1>b, RunPushType DEF SendBatch, Phases
  <2>4. \A t \in Requests : t # s => req'[t] = req[t]
    BY <2>1, <1>a DEF Send, TypeOK
  <2>5. /\ req[s].stage = "free" /\ run[d].pc \notin Holding
        /\ run' = [run EXCEPT ![d] = [run[d] EXCEPT !.pc = "await", !.via = s, !.pushes = @ + 1]]
    BY <1>3, <2>1 DEF SendBatch, Send, Holding
  <2>6. QED BY <1>b, <2>2, <2>3, <2>4, <2>5, OwnSlotTake DEF RunType
<1>4. ASSUME NEW d \in Devices, NEW s \in Requests, SendPoll(d, s) PROVE OwnSlot'
  <2>1. req'[s].stage = "sent"
    BY <1>4, <1>a DEF SendPoll, Send, RequestFor, FreeRequest, TypeOK
  <2>2. [run[d] EXCEPT !.pc = "await", !.via = s] \in RunType
    BY <1>b, RunViaType DEF Phases
  <2>3. \A t \in Requests : t # s => req'[t] = req[t]
    BY <1>4, <1>a DEF SendPoll, Send, TypeOK
  <2>4. /\ req[s].stage = "free" /\ run[d].pc \notin Holding
        /\ run' = [run EXCEPT ![d] = [run[d] EXCEPT !.pc = "await", !.via = s]]
    BY <1>4 DEF SendPoll, Send, Holding
  <2>5. QED BY <1>b, <2>1, <2>2, <2>3, <2>4, OwnSlotTake DEF RunType
<1>5. ASSUME NEW d \in Devices, NEW s \in Requests, SendPage(d, s) PROVE OwnSlot'
  <2>1. req'[s].stage = "sent"
    BY <1>5, <1>a DEF SendPage, Send, RequestFor, FreeRequest, TypeOK
  <2>2. [run[d] EXCEPT !.pc = "await", !.via = s, !.pages = @ + 1] \in RunType
    BY <1>5, <1>b, RunPageType DEF SendPage, Phases
  <2>3. \A t \in Requests : t # s => req'[t] = req[t]
    BY <1>5, <1>a DEF SendPage, Send, TypeOK
  <2>4. /\ req[s].stage = "free" /\ run[d].pc \notin Holding
        /\ run' = [run EXCEPT ![d] = [run[d] EXCEPT !.pc = "await", !.via = s, !.pages = @ + 1]]
    BY <1>5 DEF SendPage, Send, Holding
  <2>5. QED BY <1>b, <2>1, <2>2, <2>3, <2>4, OwnSlotTake DEF RunType
<1>6. ASSUME NEW d \in Devices, EndPush(d) PROVE OwnSlot'
  <2>1. [run[d] EXCEPT !.pc = "pull"] \in RunType
    BY <1>b DEF RunType, Phases
  <2>2. QED BY <1>6, <1>b, <2>1, OwnSlotDeviceStep DEF EndPush, Holding, Applying, RunType
<1>7. ASSUME NEW d \in Devices, Receive(d) PROVE OwnSlot'
  <2> DEFINE pc == IF InBatch(req[run[d].via]) = {} THEN "merge" ELSE "mark"
             r == [run[d] EXCEPT !.pc = pc]
  <2>1. r \in RunType /\ r.via = run[d].via /\ r.pc = pc
    BY <1>b DEF RunType, Phases
  <2>2. run' = [run EXCEPT ![d] = r] /\ UNCHANGED req
    BY <1>7 DEF Receive
  <2>3. Answered(run[d].via) /\ run[d].pc = "await"
    BY <1>7 DEF Receive
  <2>4. pc \in Holding /\ run[d].pc \in Holding
    BY <2>3 DEF Holding
  <2> HIDE DEF r, pc
  <2>5. QED BY <2>1, <2>2, <2>3, <2>4, OwnSlotDeviceStep
<1>8. ASSUME NEW d \in Devices, MarkSynced(d) PROVE OwnSlot'
  <2>1. [run[d] EXCEPT !.pc = "merge"] \in RunType
    BY <1>b DEF RunType, Phases
  <2>2. Answered(run[d].via)
    BY <1>8, <1>a DEF MarkSynced, OwnSlot, Applying
  <2>3. QED
    BY <1>8, <1>b, <2>1, <2>2, OwnSlotDeviceStep DEF MarkSynced, Holding, Applying, RunType
<1>9. ASSUME NEW d \in Devices, MergeFromServer(d) PROVE OwnSlot'
  <2>1. [run[d] EXCEPT !.pc = "save"] \in RunType
    BY <1>b DEF RunType, Phases
  <2>2. Answered(run[d].via)
    BY <1>9, <1>a DEF MergeFromServer, OwnSlot, Applying
  <2>3. QED
    BY <1>9, <1>b, <2>1, <2>2, OwnSlotDeviceStep
       DEF MergeFromServer, Holding, Applying, RunType
<1>10. ASSUME NEW d \in Devices, SaveCursor(d) PROVE OwnSlot'
  <2> DEFINE q == req[run[d].via]
             r == [run[d] EXCEPT !.pc = IF PushesOn(d, q) THEN "push" ELSE "pull",
                                 !.via = NoRequest, !.rev = q.next, !.more = q.more]
  <2>1. run[d].via \in Requests
    BY <1>10, <1>a DEF SaveCursor, OwnSlot, Holding
  <2>2. q.next \in Nat /\ q.more \in BOOLEAN
    BY <2>1, <1>a DEF TypeOK, RequestType
  <2>3. r \in RunType /\ r.via = NoRequest /\ r.pc \in {"push", "pull"}
    BY <1>b, <2>2 DEF RunType, Phases
  <2>4. run' = [run EXCEPT ![d] = r] /\ req' = [req EXCEPT ![run[d].via] = FreeRequest]
    BY <1>10 DEF SaveCursor
  <2>5. \A t \in Requests : t # run[d].via => req'[t] = req[t]
    BY <2>4, <1>a DEF TypeOK
  <2> HIDE DEF r, q
  <2>6. QED BY <2>3, <2>4, <2>5, OwnSlotDrop DEF Holding
<1>11. ASSUME NEW d \in Devices, Finish(d) PROVE OwnSlot'
  BY <1>11, FreeRequestType, OwnSlotDrop DEF Finish, NoRun, Idle, Holding
<1>12. ASSUME NEW s \in Requests, TakeLock(s) PROVE OwnSlot'
  BY <1>12, <1>a, OwnSlotServerStep DEF TakeLock, Answered, TypeOK, RequestType
<1>13. ASSUME NEW s \in Requests, NEW i \in Words, UpsertRow(s, i) PROVE OwnSlot'
  <2>1. req'[s].stage = "locked" /\ ~Answered(s)
    BY <1>13, <1>a DEF UpsertRow, Answered, TypeOK, RequestType
  <2>2. UNCHANGED run /\ \A t \in Requests \ {s} : req'[t] = req[t]
    BY <1>13, <1>a DEF UpsertRow, TypeOK
  <2>3. QED BY <2>1, <2>2, OwnSlotServerStep
<1>14. ASSUME NEW s \in Requests, Commit(s) PROVE OwnSlot'
  BY <1>14, <1>a, OwnSlotServerStep DEF Commit, Answered, TypeOK, RequestType
<1>15. ASSUME NEW s \in Requests, ChangesSince(s) PROVE OwnSlot'
  <2>1. req'[s].stage = "pulled" /\ ~Answered(s)
    BY <1>15, <1>a DEF ChangesSince, Answered, TypeOK, RequestType
  <2>2. UNCHANGED run /\ \A t \in Requests \ {s} : req'[t] = req[t]
    BY <1>15, <1>a DEF ChangesSince, TypeOK
  <2>3. QED BY <2>1, <2>2, OwnSlotServerStep
<1>16. ASSUME NEW s \in Requests, NEW i \in Words, FindCanonical(s, i) PROVE OwnSlot'
  BY <1>16, <1>a, OwnSlotServerStep DEF FindCanonical, Answered, TypeOK, RequestType
<1>17. ASSUME NEW d \in Devices, Abandon(d) PROVE OwnSlot'
  <2>1. \A t \in Requests : t # run[d].via => req'[t] = req[t]
    BY <1>17, <1>a DEF Abandon, TypeOK
  <2>2. QED
    BY <1>17, <2>1, FreeRequestType, OwnSlotDrop DEF Abandon, NoRun, Idle, Holding
<1>18. ASSUME NEW s \in Requests, Vanish(s) PROVE OwnSlot'
  BY <1>18, <1>a DEF Vanish, Orphan, OwnSlot, Answered, TypeOK, Holding, Applying
<1>19. ASSUME NEW s \in Requests, Fail(s) PROVE OwnSlot'
  <2>1. \A d \in Devices : run'[d] = IF run[d].via = s THEN NoRun ELSE run[d]
    BY <1>19 DEF Fail
  <2>2. \A t \in Requests : t # s => req'[t] = req[t]
    BY <1>19, <1>a DEF Fail, TypeOK
  <2>3. QED
    BY <2>1, <2>2, <1>a, SyncAssumption
       DEF OwnSlot, Answered, NoRun, Idle, Holding, Applying
<1>20. QED
  BY <1>1, <1>2, <1>3, <1>4, <1>5, <1>6, <1>7, <1>8, <1>9, <1>10, <1>11, <1>12,
     <1>13, <1>14, <1>15, <1>16, <1>17, <1>18, <1>19
     DEF Next, UserStep, RunStep, ServerStep, AddWord, WriteWord, ResetCursor, vars

LEMMA Typed == Spec => []TypeInv
<1>1. TypeInv /\ [Next]_vars => TypeInv'
  BY TypeStep, OwnSlotStep DEF TypeInv
<1>2. QED BY InitType, <1>1, PTL DEF Spec

(***************************************************************************)
(* Type correctness: the variables of the sync keep their types, whatever  *)
(* devices, requests and faults do.                                        *)
(***************************************************************************)
THEOREM TypeCorrect == Spec => []TypeOK
<1>1. TypeInv => TypeOK
  BY DEF TypeInv
<1>2. QED BY Typed, <1>1, PTL

-----------------------------------------------------------------------------
(* Revisions.  A number is published when no uncommitted revision is at or *)
(* below it; the lock makes every revision a pull can see published.       *)

Published(n) ==
  /\ n <= seq
  /\ \A s \in Requests, i \in Words : Staged(s, i) => n < req[s].staged[i].rev

RevInv ==
  /\ \A s, t \in Requests :
       req[s].stage = "locked" /\ req[t].stage = "locked" => s = t
  /\ \A s \in Requests, i \in Words :
       Staged(s, i) => req[s].stage = "locked" /\ req[s].staged[i].rev <= seq
  /\ \A i \in Words : Published(row[i].rev)
  /\ \A s \in Requests : Published(req[s].next) /\ Published(req[s].since)
  /\ \A d \in Devices : Published(cursor[d]) /\ Published(run[d].rev)

LEMMA InitRev == Init => RevInv
<1> SUFFICES ASSUME Init PROVE RevInv OBVIOUS
<1>1. \A s \in Requests, i \in Words : ~Staged(s, i)
  BY DEF Init, FreeRequest, Staged, Present, NoServerRow
<1>2. \A s \in Requests : req[s].stage = "free" /\ req[s].next = 0 /\ req[s].since = 0
  BY DEF Init, FreeRequest
<1>3. seq = 0 /\ \A d \in Devices : cursor[d] = 0 /\ run[d].rev = 0
  BY DEF Init, NoRun
<1>4. \A i \in Words : row[i].rev = 0
  BY DEF Init, NoServerRow
<1>5. QED BY <1>1, <1>2, <1>3, <1>4 DEF RevInv, Published

\* Zero is published: a staged revision is beyond the row it replaces.
LEMMA ZeroPublished == TypeInv /\ RevInv => Published(0)
BY DEF TypeInv, TypeOK, RequestType, ServerRow, RevInv, Published

\* Staging nothing new keeps everything published.
LEMMA StillPublished ==
  ASSUME seq' = seq, NEW n, Published(n),
         \A s \in Requests : \/ req'[s].staged = req[s].staged
                             \/ \A i \in Words : ~Present(req'[s].staged[i])
  PROVE  Published(n)'
BY DEF Published, Staged

\* A step that stages nothing, commits nothing and only copies published
\* numbers around.
LEMMA RevQuietStep ==
  ASSUME TypeInv, RevInv, UNCHANGED <<row, seq>>,
         \A s \in Requests : req'[s] # req[s] =>
           /\ \/ req'[s].staged = req[s].staged /\ req'[s].stage = req[s].stage
              \/ /\ \A i \in Words : ~Present(req'[s].staged[i])
                 /\ req'[s].stage = "locked" =>
                      \A t \in Requests : req[t].stage # "locked" /\ (t # s => req'[t] = req[t])
           /\ Published(req'[s].next) /\ Published(req'[s].since),
         \A d \in Devices : Published(cursor'[d]) /\ Published(run'[d].rev)
  PROVE  RevInv'
<1>1. \A s \in Requests : \/ req'[s].staged = req[s].staged
                          \/ \A i \in Words : ~Present(req'[s].staged[i])
  OBVIOUS
<1>2. ASSUME NEW n, Published(n) PROVE Published(n)'
  BY <1>1, <1>2, StillPublished
<1>3. \A i \in Words : Published(row[i].rev)'
  BY <1>2 DEF RevInv
<1>4. \A s \in Requests : Published(req[s].next)' /\ Published(req[s].since)'
  BY <1>2 DEF RevInv
<1>5. \A d \in Devices : Published(cursor[d])' /\ Published(run[d].rev)'
  BY <1>2
<1>6. \A s, t \in Requests :
        req'[s].stage = "locked" /\ req'[t].stage = "locked" => s = t
  BY DEF RevInv
<1>7. \A s \in Requests, i \in Words :
        Staged(s, i)' => req'[s].stage = "locked" /\ req'[s].staged[i].rev <= seq'
  BY DEF RevInv, Staged
<1>8. QED BY <1>3, <1>4, <1>5, <1>6, <1>7 DEF RevInv

LEMMA RevStep == TypeInv /\ RevInv /\ [Next]_vars => RevInv'
<1> SUFFICES ASSUME TypeInv, RevInv, [Next]_vars PROVE RevInv' OBVIOUS
<1>a. TypeOK /\ Published(0)
  BY ZeroPublished DEF TypeInv
<1>b. \A d \in Devices : Published(cursor[d]) /\ Published(run[d].rev)
  BY DEF RevInv
<1>c. \A s \in Requests : Published(req[s].next) /\ Published(req[s].since)
  BY DEF RevInv
<1>d. \A s \in Requests, i \in Words :
        req[s].stage # "locked" => ~Present(req[s].staged[i])
  BY DEF RevInv, Staged
<1>e. /\ \A i \in Words : ~Present(FreeRequest.staged[i])
      /\ FreeRequest.stage = "free" /\ FreeRequest.next = 0 /\ FreeRequest.since = 0
  BY DEF FreeRequest, NoServerRow, Present
<1>f. NoRun.rev = 0
  BY DEF NoRun
<1>g. /\ run \in [Devices -> RunType]
      /\ \A r \in RunType : r = [pc |-> r.pc, via |-> r.via, rev |-> r.rev,
                           pushes |-> r.pushes, pages |-> r.pages, more |-> r.more]
  BY <1>a DEF TypeOK, RunType
<1>1. ASSUME NEW d \in Devices, NEW i \in Words, NEW t, AddWord(d, i, t) PROVE RevInv'
  BY <1>1, <1>b, RevQuietStep DEF AddWord
<1>2. ASSUME NEW d \in Devices, NEW i \in Words, NEW t, NEW del, WriteWord(d, i, t, del)
      PROVE RevInv'
  BY <1>2, <1>b, RevQuietStep DEF WriteWord
<1>3. ASSUME NEW d \in Devices, StartRun(d) PROVE RevInv'
  <2>1. \A e \in Devices : run'[e].rev = IF e = d THEN cursor[d] ELSE run[e].rev
    BY <1>3, <1>a DEF StartRun, TypeOK, NoRun
  <2>2. QED BY <1>3, <1>b, <2>1, RevQuietStep DEF StartRun
<1>4. ASSUME NEW d \in Devices, NEW s \in Requests, NEW P, Send(d, s, P),
             UNCHANGED <<row, seq, cursor>>, \A e \in Devices : run'[e].rev = run[e].rev
      PROVE RevInv'
  <2>1. \A t \in Requests : req'[t] = IF t = s THEN RequestFor(d, P) ELSE req[t]
    BY <1>4, <1>a DEF Send, TypeOK
  <2>2. /\ RequestFor(d, P).stage = "sent" /\ RequestFor(d, P).next = 0
        /\ RequestFor(d, P).since = run[d].rev
        /\ RequestFor(d, P).staged = FreeRequest.staged
    BY DEF RequestFor, FreeRequest
  <2>3. QED BY <1>4, <1>a, <1>b, <1>e, <2>1, <2>2, RevQuietStep
<1>5. ASSUME NEW d \in Devices, NEW s \in Requests,
             SendBatch(d, s) \/ SendPoll(d, s) \/ SendPage(d, s)
      PROVE RevInv'
  <2>1. run'[d].rev = run[d].rev /\ \A e \in Devices : e # d => run'[e] = run[e]
    <3>1. CASE SendBatch(d, s)
      BY <3>1, <1>g DEF SendBatch
    <3>2. CASE SendPoll(d, s)
      BY <3>2, <1>g DEF SendPoll
    <3>3. CASE SendPage(d, s)
      BY <3>3, <1>g DEF SendPage
    <3>4. QED BY <1>5, <3>1, <3>2, <3>3
  <2>2. \A e \in Devices : run'[e].rev = run[e].rev
    BY <2>1
  <2>3. QED BY <1>4, <1>5, <2>2 DEF SendBatch, SendPoll, SendPage
<1>6. ASSUME NEW d \in Devices, EndPush(d) \/ Receive(d) \/ MarkSynced(d) \/ MergeFromServer(d)
      PROVE RevInv'
  <2>1. \A e \in Devices : run'[e].rev = run[e].rev
    <3>1. CASE EndPush(d)
      BY <3>1, <1>g DEF EndPush
    <3>2. CASE Receive(d)
      BY <3>2, <1>g DEF Receive
    <3>3. CASE MarkSynced(d)
      BY <3>3, <1>g DEF MarkSynced
    <3>4. CASE MergeFromServer(d)
      BY <3>4, <1>g DEF MergeFromServer
    <3>5. QED BY <1>6, <3>1, <3>2, <3>3, <3>4
  <2>2. UNCHANGED <<row, seq, req, cursor>>
    BY <1>6 DEF EndPush, Receive, MarkSynced, MergeFromServer
  <2>3. QED BY <1>b, <2>1, <2>2, RevQuietStep
<1>7. ASSUME NEW d \in Devices, SaveCursor(d) PROVE RevInv'
  <2>1. run[d].via \in Requests
    BY <1>7 DEF SaveCursor, TypeInv, OwnSlot, Holding
  <2>2. \A e \in Devices :
          /\ run'[e].rev = IF e = d THEN req[run[d].via].next ELSE run[e].rev
          /\ cursor'[e] = IF e = d THEN req[run[d].via].next ELSE cursor[e]
    BY <1>7, <1>a DEF SaveCursor, TypeOK, RunType
  <2>3. \A t \in Requests : req'[t] = IF t = run[d].via THEN FreeRequest ELSE req[t]
    BY <1>7, <1>a DEF SaveCursor, TypeOK
  <2>4. UNCHANGED <<row, seq>>
    BY <1>7 DEF SaveCursor
  <2>5. QED BY <1>a, <1>b, <1>c, <1>e, <2>1, <2>2, <2>3, <2>4, RevQuietStep
<1>8. ASSUME NEW d \in Devices, Finish(d) PROVE RevInv'
  <2>1. \A e \in Devices : run'[e].rev = IF e = d THEN 0 ELSE run[e].rev
    BY <1>8, <1>a, <1>f DEF Finish, TypeOK
  <2>2. QED BY <1>8, <1>a, <1>b, <2>1, RevQuietStep DEF Finish
<1>9. ASSUME NEW s \in Requests, TakeLock(s) PROVE RevInv'
  <2>1. \A t \in Requests : t # s => req'[t] = req[t]
    BY <1>9, <1>a DEF TakeLock, TypeOK
  <2>2. /\ req'[s].staged = req[s].staged /\ req'[s].next = req[s].next
        /\ req'[s].since = req[s].since
    BY <1>9, <1>a DEF TakeLock, TypeOK, RequestType
  <2>3. \A t \in Requests : req[t].stage # "locked"
    BY <1>9 DEF TakeLock
  <2>4. UNCHANGED <<row, seq, cursor, run>>
    BY <1>9 DEF TakeLock
  <2>5. QED BY <1>b, <1>c, <1>d, <2>1, <2>2, <2>3, <2>4, RevQuietStep
<1>10. ASSUME NEW s \in Requests, NEW i \in Words, UpsertRow(s, i) PROVE RevInv'
  <2>1. /\ UNCHANGED <<row, cursor, run>>
        /\ \A t \in Requests : t # s => req'[t] = req[t]
        /\ req'[s].stage = "locked" /\ req[s].stage = "locked"
        /\ req'[s].next = req[s].next /\ req'[s].since = req[s].since
    BY <1>10, <1>a DEF UpsertRow, TypeOK, RequestType
  <2>2. CASE seq' = seq /\ req'[s].staged = req[s].staged
    <3>1. \A t \in Requests, j \in Words : Staged(t, j)' <=> Staged(t, j)
      BY <2>1, <2>2 DEF Staged
    <3>2. \A t \in Requests : req'[t].staged = req[t].staged
      BY <2>1, <2>2
    <3>3. \A n : Published(n) => Published(n)'
      BY <2>2, <3>1, <3>2 DEF Published
    <3>4. \A t \in Requests, j \in Words : Staged(t, j)' =>
             req'[t].stage = "locked" /\ req'[t].staged[j].rev <= seq'
      BY <2>1, <2>2, <3>1, <3>2 DEF RevInv
    <3>5. \A t, u \in Requests :
             req'[t].stage = "locked" /\ req'[u].stage = "locked" => t = u
      BY <2>1 DEF RevInv
    <3>6. \A t \in Requests : Published(req[t].next)' /\ Published(req[t].since)'
      BY <1>c, <2>1, <3>3
    <3>7. \A j \in Words : Published(row[j].rev)'
      BY <2>1, <3>3 DEF RevInv
    <3>8. \A d \in Devices : Published(cursor[d])' /\ Published(run[d].rev)'
      BY <1>b, <2>1, <3>3
    <3>9. QED BY <3>4, <3>5, <3>6, <3>7, <3>8 DEF RevInv
  <2>3. CASE /\ seq' = seq + 1
             /\ \A j \in Words : req'[s].staged[j] =
                  IF j = i THEN StoredAs(req[s].batch[i], seq + 1) ELSE req[s].staged[j]
    <3>1. \A t \in Requests, j \in Words : Staged(t, j)' =>
            /\ t = s
            /\ \/ j = i /\ req'[t].staged[j].rev = seq + 1
               \/ Staged(t, j) /\ req'[t].staged[j] = req[t].staged[j]
      <4>1. \A t \in Requests \ {s} : req[t].stage # "locked" /\ req'[t] = req[t]
        BY <2>1 DEF RevInv
      <4>2. ASSUME NEW t \in Requests \ {s}, NEW j \in Words PROVE ~Staged(t, j)'
        BY <1>d, <4>1 DEF Staged
      <4>3. ASSUME NEW j \in Words, j # i
            PROVE  req'[s].staged[j] = req[s].staged[j] /\ (Staged(s, j)' <=> Staged(s, j))
        BY <2>3, <4>3 DEF Staged
      <4>4. req'[s].staged[i].rev = seq + 1
        BY <2>3 DEF StoredAs
      <4>5. QED BY <4>2, <4>3, <4>4
    <3>2. seq \in Nat
      BY <1>a DEF TypeOK
    <3>3. ASSUME NEW n \in Nat, Published(n) PROVE Published(n)'
      BY <2>3, <3>1, <3>2, <3>3 DEF Published
    <3>4. \A t \in Requests, j \in Words : Staged(t, j)' =>
             req'[t].stage = "locked" /\ req'[t].staged[j].rev <= seq'
      <4>1. \A t \in Requests, j \in Words : req[t].staged[j].rev \in Nat
        BY <1>a DEF TypeOK, RequestType, ServerRow
      <4>2. \A t \in Requests, j \in Words : Staged(t, j) => req[t].staged[j].rev <= seq
        BY DEF RevInv
      <4>3. QED BY <2>1, <2>3, <3>1, <3>2, <4>1, <4>2
    <3>5. \A t, u \in Requests :
            req'[t].stage = "locked" /\ req'[u].stage = "locked" => t = u
      BY <2>1 DEF RevInv
    <3>6. /\ \A j \in Words : row[j].rev \in Nat
          /\ \A t \in Requests : req[t].next \in Nat /\ req[t].since \in Nat
          /\ \A d \in Devices : cursor[d] \in Nat /\ run[d].rev \in Nat
      BY <1>a DEF TypeOK, RequestType, ServerRow, RunType
    <3>7. \A j \in Words : Published(row[j].rev)'
      BY <2>1, <3>3, <3>6 DEF RevInv
    <3>8. \A t \in Requests : Published(req[t].next)' /\ Published(req[t].since)'
      BY <2>1, <3>3, <3>6 DEF RevInv
    <3>9. \A d \in Devices : Published(cursor[d])' /\ Published(run[d].rev)'
      BY <2>1, <3>3, <3>6 DEF RevInv
    <3>10. QED BY <3>4, <3>5, <3>7, <3>8, <3>9 DEF RevInv
  <2>4. QED BY <1>10, <1>a, <2>2, <2>3 DEF UpsertRow, TypeOK, RequestType
<1>11. ASSUME NEW s \in Requests, Commit(s) PROVE RevInv'
  <2>1. /\ UNCHANGED <<seq, cursor, run>>
        /\ \A t \in Requests : t # s => req'[t] = req[t]
        /\ req'[s].stage = "committed" /\ req[s].stage = "locked"
        /\ req'[s].next = req[s].next /\ req'[s].since = req[s].since
        /\ \A i \in Words : req'[s].staged[i] = NoServerRow
    BY <1>11, <1>a DEF Commit, TypeOK, RequestType
  <2>2. \A t \in Requests, i \in Words : ~Staged(t, i)'
    BY <2>1, <1>d DEF Staged, RevInv, NoServerRow, Present
  <2>3. \A i \in Words : \/ row'[i].rev = row[i].rev
                         \/ Staged(s, i) /\ row'[i].rev = req[s].staged[i].rev
    <3>1. row' = [i \in Words |-> IF Present(req[s].staged[i]) THEN req[s].staged[i]
                                                              ELSE row[i]]
      BY <1>11 DEF Commit
    <3>2. \A i \in Words : row'[i] = IF Staged(s, i) THEN req[s].staged[i] ELSE row[i]
      BY <3>1 DEF Staged
    <3>3. QED BY <3>2
  <2>4. \A i \in Words : row'[i].rev <= seq'
    BY <2>1, <2>3 DEF RevInv, Published
  <2>5. QED BY <2>1, <2>2, <2>4 DEF RevInv, Published
<1>12. ASSUME NEW s \in Requests, ChangesSince(s) PROVE RevInv'
  <2>1. /\ UNCHANGED <<row, seq, cursor, run>>
        /\ \A t \in Requests : t # s => req'[t] = req[t]
        /\ req'[s].stage = "pulled" /\ req[s].stage # "locked"
        /\ req'[s].staged = req[s].staged /\ req'[s].since = req[s].since
    BY <1>12, <1>a DEF ChangesSince, TypeOK, RequestType
  <2>2. req'[s].next = req[s].since \/ \E i \in Words : req'[s].next = row[i].rev
    <3>1. PICK P \in SUBSET Words : \E n \in {req[s].since} \cup {row[i].rev : i \in P} :
            req'[s].next = n
      BY <1>12, <1>a DEF ChangesSince, FirstBy, Newer, TypeOK, RequestType
    <3>2. QED BY <3>1
  <2>3. Published(req'[s].next)
    BY <2>2, <1>c DEF RevInv
  <2>4. QED BY <1>b, <1>c, <1>d, <2>1, <2>3, RevQuietStep
<1>13. ASSUME NEW s \in Requests, NEW i \in Words, FindCanonical(s, i) PROVE RevInv'
  <2>1. /\ UNCHANGED <<row, seq, cursor, run>>
        /\ \A t \in Requests : t # s => req'[t] = req[t]
        /\ req'[s].stage = req[s].stage /\ req'[s].next = req[s].next
        /\ req'[s].staged = req[s].staged /\ req'[s].since = req[s].since
    BY <1>13, <1>a DEF FindCanonical, TypeOK, RequestType
  <2>2. QED BY <1>b, <1>c, <2>1, RevQuietStep
<1>14. ASSUME UNCHANGED <<row, seq>>,
              \A t \in Requests : req'[t] = req[t] \/ req'[t] = FreeRequest,
              \A e \in Devices : /\ run'[e] = run[e] \/ run'[e] = NoRun
                                 /\ cursor'[e] = cursor[e] \/ cursor'[e] = 0
      PROVE RevInv'
  BY <1>14, <1>a, <1>b, <1>e, <1>f, RevQuietStep
<1>15. ASSUME NEW d \in Devices, Abandon(d) \/ ResetCursor(d) PROVE RevInv'
  BY <1>15, <1>14, <1>a DEF Abandon, ResetCursor, TypeOK
<1>16. ASSUME NEW s \in Requests, Vanish(s) \/ Fail(s) PROVE RevInv'
  BY <1>16, <1>14, <1>a DEF Vanish, Fail, TypeOK
<1>17. CASE UNCHANGED vars
  BY <1>17, <1>14 DEF vars
<1>18. QED
  BY <1>1, <1>2, <1>3, <1>5, <1>6, <1>7, <1>8, <1>9, <1>10, <1>11, <1>12,
     <1>13, <1>15, <1>16, <1>17
     DEF Next, UserStep, RunStep, ServerStep

(***************************************************************************)
(* Holding the advisory lock from the allocation of a revision to its      *)
(* commit keeps every pull cursor below every revision still uncommitted.  *)
(***************************************************************************)
THEOREM LockOrdersRevisions == Spec => []NoRevisionSkipped
<1>1. TypeInv /\ RevInv => NoRevisionSkipped
  BY DEF RevInv, Published, NoRevisionSkipped
<1>2. QED BY InitRev, RevStep, Typed, <1>1, PTL DEF Spec

-----------------------------------------------------------------------------
(***************************************************************************)
(* Last write wins, proved: the versions a request carries, a server row   *)
(* and a device's row only ever move to later stamps, from which follow    *)
(* the safety of clean rows, the progress of the change feed and the       *)
(* refinement of the abstract notebook; and, on top of it, the pull        *)
(* cursor, which covers no row its device lacks as long as a run is not    *)
(* cut between the two transactions that apply an answer.                  *)
(***************************************************************************)

(***************************************************************************)
(* A request's rows against the committed ones: what it has staged is      *)
(* later, what it has accepted is stored or staged, and what it read is    *)
(* still there or superseded.                                              *)
(***************************************************************************)
Sound(r) ==
  \A i \in Words :
    /\ Present(r.staged[i]) => r.staged[i].at > row[i].at
    /\ i \in r.accepted =>
         \/ row[i].at >= r.batch[i].at
         \/ Present(r.staged[i]) /\ r.staged[i].at >= r.batch[i].at
    /\ row[i].at >= r.page[i].at
    /\ row[i].at >= r.canon[i].at

\* A device's row against its clock and the committed row.
Held(d, i) ==
  /\ db[d][i].dirty => db[d][i].at <= clock[d]
  /\ Present(db[d][i]) /\ ~db[d][i].dirty => row[i].at >= db[d][i].at

LwwInv ==
  /\ \A s \in Requests : Sound(req[s])
  /\ \A d \in Devices, i \in Words : Held(d, i)

IInv == TypeInv /\ RevInv /\ LwwInv

-----------------------------------------------------------------------------
(* Types, in the form the steps below use them.                            *)

LEMMA RowTypes ==
  ASSUME TypeOK
  PROVE  /\ \A i \in Words : row[i].at \in Nat
         /\ \A s \in Requests, i \in Words :
              /\ req[s].staged[i].at \in Nat /\ req[s].batch[i].at \in Nat
              /\ req[s].page[i].at \in Nat /\ req[s].canon[i].at \in Nat
         /\ \A d \in Devices, i \in Words :
              db[d][i].at \in Nat /\ db[d][i].dirty \in BOOLEAN
         /\ \A d \in Devices : clock[d] \in Nat
BY DEF TypeOK, RequestType, ServerRow, LocalRow, Version

LEMMA SlotsKept ==
  ASSUME row' = row, \A s \in Requests : Sound(req[s]),
         \A s \in Requests : req'[s] = req[s] \/ Sound(req'[s])
  PROVE  \A s \in Requests : Sound(req[s])'
<1>1. TAKE s \in Requests
<1>2. Sound(req'[s])
  OBVIOUS
<1>3. QED BY <1>2 DEF Sound

\* A request without staged, accepted or read rows is sound.
LEMMA BlankSound ==
  ASSUME TypeOK, NEW r, r.staged = FreeRequest.staged, r.accepted = {},
         r.page = FreeRequest.page, r.canon = FreeRequest.canon
  PROVE  Sound(r)
<1>1. \A i \in Words : row[i].at >= 0
  BY RowTypes
<1>2. \A i \in Words : /\ ~Present(r.staged[i])
                       /\ r.page[i].at = 0 /\ r.canon[i].at = 0
  BY DEF FreeRequest, NoServerRow, Present
<1>3. QED BY <1>1, <1>2 DEF Sound

\* The effect of a commit, row by row.
LEMMA CommitRow ==
  ASSUME IInv, NEW s \in Requests, Commit(s), NEW i \in Words
  PROVE  /\ row'[i] = IF Staged(s, i) THEN req[s].staged[i] ELSE row[i]
         /\ row'[i].at >= row[i].at
         /\ \A t \in Requests : t # s => ~Staged(t, i)
<1>1. row' = [j \in Words |-> IF Present(req[s].staged[j]) THEN req[s].staged[j]
                                                          ELSE row[j]]
  BY DEF Commit
<1>2. row'[i] = IF Staged(s, i) THEN req[s].staged[i] ELSE row[i]
  BY <1>1 DEF Staged
<1>3. Staged(s, i) => req[s].staged[i].at > row[i].at
  BY DEF IInv, LwwInv, Sound, Staged
<1>4. row[i].at \in Nat /\ req[s].staged[i].at \in Nat
  BY RowTypes DEF IInv, TypeInv
<1>5. req[s].stage = "locked"
  BY DEF Commit
<1>6. \A t \in Requests : t # s => ~Staged(t, i)
  BY <1>5 DEF IInv, RevInv
<1>7. row'[i].at >= row[i].at
  <2>1. CASE Staged(s, i)
    BY <1>2, <1>3, <1>4, <2>1
  <2>2. CASE ~Staged(s, i)
    BY <1>2, <1>4, <2>2
  <2>3. QED BY <2>1, <2>2
<1>8. QED BY <1>2, <1>6, <1>7

-----------------------------------------------------------------------------
(* Requests stay sound.                                                    *)

LEMMA UpsertSound ==
  ASSUME IInv, NEW s \in Requests, NEW i \in Words, UpsertRow(s, i)
  PROVE  Sound(req'[s])
<1> DEFINE v == req[s].batch[i]
           wins == i \notin Foreign /\ SupersededBy(row[i], v)
<1>1. /\ req'[s].batch = req[s].batch
      /\ req'[s].page = req[s].page /\ req'[s].canon = req[s].canon
  BY DEF UpsertRow, IInv, TypeInv, TypeOK, RequestType
<1>2. req'[s].staged = IF wins THEN [req[s].staged EXCEPT ![i] = StoredAs(v, seq + 1)]
                               ELSE req[s].staged
  BY DEF UpsertRow, IInv, TypeInv, TypeOK, RequestType
<1>3. req'[s].accepted = IF i \in Foreign THEN req[s].accepted
                                          ELSE req[s].accepted \cup {i}
  BY DEF UpsertRow, IInv, TypeInv, TypeOK, RequestType
<1>4. /\ row[i].at \in Nat /\ v.at \in Nat
      /\ req[s].staged \in [Words -> ServerRow]
  BY RowTypes DEF IInv, TypeInv, TypeOK, RequestType
<1>5. StoredAs(v, seq + 1).at = v.at
  BY DEF StoredAs
<1>6. \A j \in Words : j # i => req'[s].staged[j] = req[s].staged[j]
  BY <1>2, <1>4
<1>7. wins => req'[s].staged[i].at = v.at /\ v.at > row[i].at
  BY <1>2, <1>4, <1>5 DEF SupersededBy
<1>8. ~wins => /\ req'[s].staged[i] = req[s].staged[i]
               /\ i \notin Foreign => row[i].at >= v.at
  BY <1>2, <1>4 DEF SupersededBy
<1>9. Sound(req[s])
  BY DEF IInv, LwwInv
<1> HIDE DEF v, wins
<1>10. ASSUME NEW j \in Words
       PROVE  /\ Present(req'[s].staged[j]) => req'[s].staged[j].at > row[j].at
              /\ j \in req'[s].accepted =>
                   \/ row[j].at >= req'[s].batch[j].at
                   \/ /\ Present(req'[s].staged[j])
                      /\ req'[s].staged[j].at >= req'[s].batch[j].at
              /\ row[j].at >= req'[s].page[j].at
              /\ row[j].at >= req'[s].canon[j].at
  <2>1. CASE j # i
    BY <1>1, <1>3, <1>6, <1>9, <2>1 DEF Sound
  <2>2. CASE j = i /\ wins
    BY <1>1, <1>4, <1>7, <1>9, <2>2 DEF Sound, Present, v
  <2>3. CASE j = i /\ ~wins /\ i \notin Foreign
    BY <1>1, <1>8, <1>9, <2>3 DEF Sound, v
  <2>4. CASE j = i /\ ~wins /\ i \in Foreign
    BY <1>1, <1>3, <1>8, <1>9, <2>4 DEF Sound
  <2>5. QED BY <2>1, <2>2, <2>3, <2>4
<1>11. QED BY <1>10 DEF Sound

LEMMA CommitSound ==
  ASSUME IInv, NEW s \in Requests, Commit(s), NEW t \in Requests
  PROVE  Sound(req[t])'
<1>1. /\ t # s => req'[t] = req[t]
      /\ req'[t].batch = req[t].batch /\ req'[t].accepted = req[t].accepted
      /\ req'[t].page = req[t].page /\ req'[t].canon = req[t].canon
  BY DEF Commit, IInv, TypeInv, TypeOK, RequestType
<1>2. req'[s].staged = [i \in Words |-> NoServerRow]
  BY DEF Commit, IInv, TypeInv, TypeOK, RequestType
<1>3. Sound(req[t])
  BY DEF IInv, LwwInv
<1>4. \A i \in Words : /\ row'[i] = IF Staged(s, i) THEN req[s].staged[i] ELSE row[i]
                       /\ row'[i].at >= row[i].at
                       /\ \A u \in Requests : u # s => ~Staged(u, i)
  BY CommitRow
<1>5. \A i \in Words : ~Present(req'[t].staged[i])
  BY <1>1, <1>2, <1>4 DEF Staged, NoServerRow, Present
<1>6. \A i \in Words : row[i].at \in Nat /\ row'[i].at \in Nat
                       /\ req[t].batch[i].at \in Nat
                       /\ req[t].page[i].at \in Nat /\ req[t].canon[i].at \in Nat
  <2>1. TypeOK /\ \A i \in Words : req[s].staged[i].at \in Nat
    BY RowTypes DEF IInv, TypeInv
  <2>2. \A i \in Words : row'[i].at \in Nat
    BY <1>4, <2>1, RowTypes
  <2>3. QED BY <2>1, <2>2, RowTypes
<1>7. \A i \in Words : i \in req[t].accepted => row'[i].at >= req[t].batch[i].at
  <2>1. SUFFICES ASSUME NEW i \in Words, i \in req[t].accepted
                 PROVE  row'[i].at >= req[t].batch[i].at
    OBVIOUS
  <2>2. CASE row[i].at >= req[t].batch[i].at
    BY <1>4, <1>6, <2>2
  <2>3. CASE Staged(t, i) /\ req[t].staged[i].at >= req[t].batch[i].at
    <3>1. t = s
      BY <1>4, <2>3
    <3>2. row'[i] = req[s].staged[i]
      BY <1>4, <2>3, <3>1
    <3>3. QED BY <2>3, <3>1, <3>2
  <2>4. QED BY <1>3, <2>1, <2>2, <2>3 DEF Sound, Staged
<1>8. \A i \in Words : row'[i].at >= req[t].page[i].at /\ row'[i].at >= req[t].canon[i].at
  BY <1>3, <1>4, <1>6 DEF Sound
<1>9. QED BY <1>1, <1>5, <1>7, <1>8 DEF Sound

LEMMA SlotStep == IInv /\ [Next]_vars => (\A s \in Requests : Sound(req[s]))'
<1> SUFFICES ASSUME IInv, [Next]_vars PROVE \A s \in Requests : Sound(req[s])'
  OBVIOUS
<1>a. TypeOK /\ (\A s \in Requests : Sound(req[s])) /\ req \in [Requests -> RequestType]
  BY DEF IInv, LwwInv, TypeInv, TypeOK
<1>1. ASSUME UNCHANGED <<row, req>> PROVE \A s \in Requests : Sound(req[s])'
  BY <1>1, <1>a, SlotsKept
<1>2. ASSUME NEW d \in Devices, NEW s \in Requests, NEW P, Send(d, s, P), row' = row
      PROVE  \A t \in Requests : Sound(req[t])'
  <2>1. /\ RequestFor(d, P).staged = FreeRequest.staged
        /\ RequestFor(d, P).accepted = {}
        /\ RequestFor(d, P).page = FreeRequest.page
        /\ RequestFor(d, P).canon = FreeRequest.canon
    BY DEF RequestFor, FreeRequest
  <2>2. Sound(RequestFor(d, P))
    BY <1>a, <2>1, BlankSound
  <2>3. \A t \in Requests : req'[t] = req[t] \/ req'[t] = RequestFor(d, P)
    BY <1>2, <1>a DEF Send
  <2>4. QED BY <1>2, <1>a, <2>2, <2>3, SlotsKept
<1>3. ASSUME row' = row, \A t \in Requests : req'[t] = req[t] \/ req'[t] = FreeRequest
      PROVE  \A t \in Requests : Sound(req[t])'
  <2>1. FreeRequest.accepted = {}
    BY DEF FreeRequest
  <2>2. Sound(FreeRequest)
    BY <1>a, <2>1, BlankSound
  <2>3. QED BY <1>3, <1>a, <2>2, SlotsKept
<1>4. ASSUME NEW s \in Requests, row' = row, \A t \in Requests : t # s => req'[t] = req[t],
             Sound(req'[s])
      PROVE  \A t \in Requests : Sound(req[t])'
  BY <1>4, <1>a, SlotsKept
<1>5. ASSUME NEW d \in Devices, NEW s \in Requests,
             SendBatch(d, s) \/ SendPoll(d, s) \/ SendPage(d, s)
      PROVE  \A t \in Requests : Sound(req[t])'
  BY <1>2, <1>5 DEF SendBatch, SendPoll, SendPage
<1>6. ASSUME NEW d \in Devices, SaveCursor(d) \/ Abandon(d)
      PROVE  \A t \in Requests : Sound(req[t])'
  BY <1>3, <1>6, <1>a DEF SaveCursor, Abandon
<1>7. ASSUME NEW s \in Requests, Vanish(s) \/ Fail(s)
      PROVE  \A t \in Requests : Sound(req[t])'
  BY <1>3, <1>7, <1>a DEF Vanish, Fail
<1>8. ASSUME NEW s \in Requests, TakeLock(s) PROVE \A t \in Requests : Sound(req[t])'
  <2>1. row' = row /\ \A t \in Requests : t # s => req'[t] = req[t]
    BY <1>8, <1>a DEF TakeLock
  <2>2. /\ req'[s].staged = req[s].staged /\ req'[s].accepted = req[s].accepted
        /\ req'[s].batch = req[s].batch
        /\ req'[s].page = req[s].page /\ req'[s].canon = req[s].canon
    BY <1>8, <1>a DEF TakeLock, RequestType
  <2>3. Sound(req'[s])
    BY <1>a, <2>2 DEF Sound
  <2>4. QED BY <1>4, <2>1, <2>3
<1>9. ASSUME NEW s \in Requests, NEW i \in Words, UpsertRow(s, i)
      PROVE  \A t \in Requests : Sound(req[t])'
  <2>1. row' = row /\ \A t \in Requests : t # s => req'[t] = req[t]
    BY <1>9, <1>a DEF UpsertRow
  <2>2. QED BY <1>4, <1>9, <2>1, UpsertSound
<1>10. ASSUME NEW s \in Requests, Commit(s) PROVE \A t \in Requests : Sound(req[t])'
  BY <1>10, CommitSound
<1>11. ASSUME NEW s \in Requests, ChangesSince(s) PROVE \A t \in Requests : Sound(req[t])'
  <2>1. row' = row /\ \A t \in Requests : t # s => req'[t] = req[t]
    BY <1>11, <1>a DEF ChangesSince
  <2>2. /\ req'[s].staged = req[s].staged /\ req'[s].accepted = req[s].accepted
        /\ req'[s].batch = req[s].batch /\ req'[s].canon = req[s].canon
    BY <1>11, <1>a DEF ChangesSince, RequestType
  <2>3. PICK P : req'[s].page = [i \in Words |-> IF i \in P THEN row[i] ELSE NoServerRow]
    <3>1. PICK P \in FirstBy(Newer(req[s].since), PullLimit, [i \in Words |-> row[i].rev]) :
            \E n \in {req[s].since} \cup {row[i].rev : i \in P} :
              req' = [req EXCEPT ![s] = [req[s] EXCEPT
                !.stage = "pulled",
                !.page  = [i \in Words |-> IF i \in P THEN row[i] ELSE NoServerRow],
                !.more  = (P # Newer(req[s].since)),
                !.next  = n,
                !.todo  = req[s].accepted]]
      BY <1>11 DEF ChangesSince
    <3>2. PICK n : req' = [req EXCEPT ![s] = [req[s] EXCEPT
                !.stage = "pulled",
                !.page  = [i \in Words |-> IF i \in P THEN row[i] ELSE NoServerRow],
                !.more  = (P # Newer(req[s].since)),
                !.next  = n,
                !.todo  = req[s].accepted]]
      BY <3>1
    <3>3. QED BY <3>2, <1>a DEF RequestType
  <2>4. \A i \in Words : req'[s].page[i] = row[i] \/ req'[s].page[i] = NoServerRow
    BY <2>3
  <2>5. \A i \in Words : row[i].at >= req'[s].page[i].at
    BY <1>a, <2>4, RowTypes DEF NoServerRow
  <2>6. Sound(req'[s])
    BY <1>a, <2>2, <2>5 DEF Sound
  <2>7. QED BY <1>4, <2>1, <2>6
<1>12. ASSUME NEW s \in Requests, NEW i \in Words, FindCanonical(s, i)
       PROVE  \A t \in Requests : Sound(req[t])'
  <2>1. row' = row /\ \A t \in Requests : t # s => req'[t] = req[t]
    BY <1>12, <1>a DEF FindCanonical
  <2>2. /\ req'[s].staged = req[s].staged /\ req'[s].accepted = req[s].accepted
        /\ req'[s].batch = req[s].batch /\ req'[s].page = req[s].page
        /\ req'[s].canon = [req[s].canon EXCEPT ![i] = row[i]]
    BY <1>12, <1>a DEF FindCanonical, RequestType
  <2>3. \A j \in Words : req'[s].canon[j] = req[s].canon[j] \/ req'[s].canon[j] = row[j]
    BY <1>a, <2>2 DEF RequestType
  <2>4. \A j \in Words : row[j].at >= req'[s].canon[j].at
    BY <1>a, <2>3, RowTypes DEF Sound
  <2>5. Sound(req'[s])
    BY <1>a, <2>2, <2>4 DEF Sound
  <2>6. QED BY <1>4, <2>1, <2>5
<1>13. ASSUME NEW d \in Devices, UserStep(d) PROVE \A t \in Requests : Sound(req[t])'
  BY <1>1, <1>13 DEF UserStep, AddWord, WriteWord
<1>14. ASSUME NEW d \in Devices,
              \/ StartRun(d) \/ EndPush(d) \/ Receive(d) \/ MarkSynced(d)
              \/ MergeFromServer(d) \/ Finish(d) \/ ResetCursor(d)
       PROVE  \A t \in Requests : Sound(req[t])'
  BY <1>1, <1>14 DEF StartRun, EndPush, Receive, MarkSynced, MergeFromServer, Finish,
                     ResetCursor
<1>15. CASE UNCHANGED vars
  BY <1>1, <1>15 DEF vars
<1>16. QED
  BY <1>5, <1>6, <1>7, <1>8, <1>9, <1>10, <1>11, <1>12, <1>13, <1>14, <1>15
     DEF Next, RunStep, ServerStep

-----------------------------------------------------------------------------
(* The devices' rows.                                                      *)

\* What a device's row l may be when the server's row is stamped n and the
\* device's clock shows t.
Safe(l, t, n) ==
  /\ l.dirty => l.at <= t
  /\ Present(l) /\ ~l.dirty => n >= l.at

LEMMA HeldIsSafe ==
  \A d \in Devices, i \in Words : Held(d, i) <=> Safe(db[d][i], clock[d], row[i].at)
BY DEF Held, Safe

LEMMA MergeSafe ==
  ASSUME NEW t \in Nat, NEW n \in Nat, NEW l \in LocalRow, NEW r \in ServerRow,
         Safe(l, t, n), n >= r.at
  PROVE  Safe(MergeRow(l, r), t, n)
<1>1. CASE MergeRow(l, r) = l
  BY <1>1
<1>2. CASE MergeRow(l, r) = Clean(r)
  BY <1>2 DEF Safe, Clean
<1>3. QED BY <1>1, <1>2 DEF MergeRow

\* An acknowledged row that still says what was sent is stored.
LEMMA AcceptedIsStored ==
  ASSUME IInv, NEW d \in Devices, run[d].pc = "mark", NEW i \in Words,
         i \in req[run[d].via].accepted
  PROVE  row[i].at >= req[run[d].via].batch[i].at
<1>1. run[d].via \in Requests /\ Answered(run[d].via)
  BY DEF IInv, TypeInv, OwnSlot, Holding, Applying
<1>2. ~Staged(run[d].via, i)
  BY <1>1 DEF IInv, RevInv, Answered
<1>3. Sound(req[run[d].via])
  BY <1>1 DEF IInv, LwwInv
<1>4. QED BY <1>2, <1>3 DEF Sound, Staged

LEMMA HeldStep == IInv /\ [Next]_vars => (\A d \in Devices, i \in Words : Held(d, i))'
<1> SUFFICES ASSUME IInv, [Next]_vars
             PROVE  \A d \in Devices, i \in Words : Held(d, i)'
  OBVIOUS
<1>a. /\ TypeOK
      /\ db \in [Devices -> [Words -> LocalRow]] /\ clock \in [Devices -> Nat]
      /\ \A d \in Devices, i \in Words : Safe(db[d][i], clock[d], row[i].at)
  BY HeldIsSafe DEF IInv, LwwInv, TypeInv, TypeOK
<1>b. /\ \A i \in Words : row[i].at \in Nat
      /\ \A d \in Devices : clock[d] \in Nat
      /\ \A d \in Devices, i \in Words : db[d][i].at \in Nat
  BY <1>a, RowTypes
<1>1. ASSUME UNCHANGED <<row, db, clock>> PROVE \A d \in Devices, i \in Words : Held(d, i)'
  BY <1>1 DEF IInv, LwwInv, Held
<1>2. ASSUME NEW d \in Devices, NEW i \in Words, NEW t \in Nat, NEW del,
             AddWord(d, i, t) \/ WriteWord(d, i, t, del)
      PROVE  \A e \in Devices, j \in Words : Held(e, j)'
  <2>1. /\ row' = row /\ t > clock[d]
        /\ clock' = [clock EXCEPT ![d] = t]
        /\ \E gone \in {FALSE, del} : db' = [db EXCEPT ![d][i] = Unsent(t, d, gone)]
    BY <1>2 DEF AddWord, WriteWord, Tick
  <2>2. PICK gone : db' = [db EXCEPT ![d][i] = Unsent(t, d, gone)]
    BY <2>1
  <2>3. Unsent(t, d, gone).dirty /\ Unsent(t, d, gone).at = t
    BY DEF Unsent
  <2>4. TAKE e \in Devices, j \in Words
  <2>5. /\ clock'[e] \in Nat /\ clock'[e] >= clock[e] /\ (e = d => clock'[e] = t)
        /\ \/ db'[e][j] = db[e][j]
           \/ e = d /\ db'[e][j] = Unsent(t, d, gone)
    BY <2>1, <2>2, <1>a, <1>b
  <2>6. CASE db'[e][j] = db[e][j]
    BY <2>1, <2>5, <2>6, <1>a, <1>b DEF Held, Safe
  <2>7. CASE e = d /\ db'[e][j] = Unsent(t, d, gone)
    BY <2>3, <2>5, <2>7 DEF Held
  <2>8. QED BY <2>5, <2>6, <2>7
<1>3. ASSUME NEW d \in Devices, UNCHANGED <<row, clock>>,
             \A e \in Devices, j \in Words : e # d => db'[e][j] = db[e][j],
             \A j \in Words : Safe(db'[d][j], clock[d], row[j].at)
      PROVE  \A e \in Devices, j \in Words : Held(e, j)'
  <2>1. \A e \in Devices, j \in Words : Safe(db'[e][j], clock[e], row[j].at)
    BY <1>3, <1>a
  <2>2. QED BY <1>3, <2>1 DEF Safe, Held
<1>4. ASSUME NEW d \in Devices, MarkSynced(d)
      PROVE  \A e \in Devices, j \in Words : Held(e, j)'
  <2> DEFINE r == req[run[d].via]
  <2>1. /\ UNCHANGED <<row, clock>> /\ run[d].pc = "mark"
        /\ db' = [db EXCEPT ![d] = [i \in Words |->
             IF i \in r.accepted /\ db[d][i].at = r.batch[i].at
             THEN [db[d][i] EXCEPT !.dirty = FALSE]
             ELSE db[d][i]]]
    BY <1>4 DEF MarkSynced
  <2>2. \A j \in Words : j \in r.accepted => row[j].at >= r.batch[j].at
    BY <2>1, AcceptedIsStored
  <2> HIDE DEF r
  <2>3. \A j \in Words : db'[d][j] = IF j \in r.accepted /\ db[d][j].at = r.batch[j].at
                                    THEN [db[d][j] EXCEPT !.dirty = FALSE]
                                    ELSE db[d][j]
    BY <2>1, <1>a
  <2>4. \A j \in Words : /\ [db[d][j] EXCEPT !.dirty = FALSE].dirty = FALSE
                        /\ [db[d][j] EXCEPT !.dirty = FALSE].at = db[d][j].at
    BY <1>a DEF LocalRow
  <2>5. ASSUME NEW j \in Words PROVE Safe(db'[d][j], clock[d], row[j].at)
    <3>1. CASE j \in r.accepted /\ db[d][j].at = r.batch[j].at
      <4>1. db'[d][j].dirty = FALSE /\ db'[d][j].at = db[d][j].at
        BY <2>3, <2>4, <3>1
      <4>2. QED BY <2>2, <3>1, <4>1 DEF Safe
    <3>2. CASE ~(j \in r.accepted /\ db[d][j].at = r.batch[j].at)
      BY <2>3, <3>2, <1>a
    <3>3. QED BY <3>1, <3>2
  <2>6. \A e \in Devices, j \in Words : e # d => db'[e][j] = db[e][j]
    BY <2>1, <1>a
  <2>7. QED BY <1>3, <2>1, <2>5, <2>6
<1>5. ASSUME NEW d \in Devices, MergeFromServer(d)
      PROVE  \A e \in Devices, j \in Words : Held(e, j)'
  <2>1. run[d].via \in Requests
    BY <1>5 DEF MergeFromServer, IInv, TypeInv, OwnSlot, Holding
  <2>2. /\ UNCHANGED <<row, clock>>
        /\ db' = [db EXCEPT ![d] = [i \in Words |->
             MergeRow(MergeRow(db[d][i], req[run[d].via].canon[i]), req[run[d].via].page[i])]]
    BY <1>5 DEF MergeFromServer
  <2>3. ASSUME NEW j \in Words PROVE Safe(db'[d][j], clock[d], row[j].at)
    <3> DEFINE c == req[run[d].via].canon[j]
               p == req[run[d].via].page[j]
    <3>1. db'[d][j] = MergeRow(MergeRow(db[d][j], c), p)
      BY <2>2, <1>a
    <3>2. c \in ServerRow /\ p \in ServerRow /\ db[d][j] \in LocalRow
      BY <2>1, <1>a DEF TypeOK, RequestType
    <3>3. row[j].at >= c.at /\ row[j].at >= p.at
      BY <2>1 DEF IInv, LwwInv, Sound
    <3> HIDE DEF c, p
    <3>4. Safe(MergeRow(db[d][j], c), clock[d], row[j].at)
      BY <3>2, <3>3, <1>a, <1>b, MergeSafe
    <3>5. MergeRow(db[d][j], c) \in LocalRow
      BY <3>2, MergeRowType
    <3>6. Safe(MergeRow(MergeRow(db[d][j], c), p), clock[d], row[j].at)
      BY <3>2, <3>3, <3>4, <3>5, <1>b, MergeSafe
    <3>7. QED BY <3>1, <3>6
  <2>4. \A e \in Devices, j \in Words : e # d => db'[e][j] = db[e][j]
    BY <2>2, <1>a
  <2>5. QED BY <1>3, <2>2, <2>3, <2>4
<1>6. ASSUME NEW d \in Devices, Finish(d)
      PROVE  \A e \in Devices, j \in Words : Held(e, j)'
  <2>1. /\ UNCHANGED <<row, clock>>
        /\ db' = [db EXCEPT ![d] = [i \in Words |->
             IF db[d][i].del /\ ~db[d][i].dirty THEN NoLocalRow ELSE db[d][i]]]
    BY <1>6 DEF Finish
  <2>2. \A j \in Words : db'[d][j] = db[d][j] \/ db'[d][j] = NoLocalRow
    BY <2>1, <1>a
  <2>3. \A j \in Words : Safe(NoLocalRow, clock[d], row[j].at)
    BY DEF Safe, NoLocalRow, Present
  <2>4. \A j \in Words : Safe(db'[d][j], clock[d], row[j].at)
    BY <2>2, <2>3, <1>a
  <2>5. \A e \in Devices, j \in Words : e # d => db'[e][j] = db[e][j]
    BY <2>1, <1>a
  <2>6. QED BY <1>3, <2>1, <2>4, <2>5
<1>7. ASSUME NEW s \in Requests, Commit(s)
      PROVE  \A e \in Devices, j \in Words : Held(e, j)'
  <2>1. UNCHANGED <<db, clock>>
    BY <1>7 DEF Commit
  <2>2. TAKE e \in Devices, j \in Words
  <2>3. /\ row'[j] = IF Staged(s, j) THEN req[s].staged[j] ELSE row[j]
        /\ row'[j].at >= row[j].at
    BY <1>7, CommitRow
  <2>4. row'[j].at \in Nat
    BY <2>3, <1>a, RowTypes
  <2>5. QED BY <2>1, <2>3, <2>4, <1>a, <1>b DEF Held, Safe
<1>8. \A d \in Devices : 1 .. MaxStamp[d] \subseteq Nat
  BY SyncAssumption
<1>9. ASSUME NEW d \in Devices, UserStep(d)
      PROVE  \A e \in Devices, j \in Words : Held(e, j)'
  BY <1>2, <1>8, <1>9 DEF UserStep
<1>10. ASSUME NEW d \in Devices,
              \/ StartRun(d) \/ EndPush(d) \/ Receive(d) \/ SaveCursor(d)
              \/ Abandon(d) \/ ResetCursor(d)
       PROVE  \A e \in Devices, j \in Words : Held(e, j)'
  BY <1>1, <1>10 DEF StartRun, EndPush, Receive, SaveCursor, Abandon, ResetCursor
<1>11. ASSUME NEW d \in Devices, NEW s \in Requests,
              SendBatch(d, s) \/ SendPoll(d, s) \/ SendPage(d, s)
       PROVE  \A e \in Devices, j \in Words : Held(e, j)'
  BY <1>1, <1>11 DEF SendBatch, SendPoll, SendPage
<1>12. ASSUME NEW s \in Requests, NEW i \in Words, UpsertRow(s, i) \/ FindCanonical(s, i)
       PROVE  \A e \in Devices, j \in Words : Held(e, j)'
  BY <1>1, <1>12 DEF UpsertRow, FindCanonical
<1>13. ASSUME NEW s \in Requests, TakeLock(s) \/ ChangesSince(s) \/ Vanish(s) \/ Fail(s)
       PROVE  \A e \in Devices, j \in Words : Held(e, j)'
  BY <1>1, <1>13 DEF TakeLock, ChangesSince, Vanish, Fail
<1>14. CASE UNCHANGED vars
  BY <1>1, <1>14 DEF vars
<1>15. QED
  BY <1>4, <1>5, <1>6, <1>7, <1>9, <1>10, <1>11, <1>12, <1>13, <1>14
     DEF Next, RunStep, ServerStep

-----------------------------------------------------------------------------
LEMMA InitLww == Init => LwwInv
<1> SUFFICES ASSUME Init PROVE LwwInv OBVIOUS
<1>1. TypeOK
  BY InitType DEF TypeInv
<1>2. FreeRequest.accepted = {}
  BY DEF FreeRequest
<1>3. \A s \in Requests : Sound(req[s])
  BY <1>1, <1>2, BlankSound DEF Init
<1>4. \A d \in Devices, i \in Words : Held(d, i)
  BY DEF Init, Held, NoLocalRow, Present
<1>5. QED BY <1>3, <1>4 DEF LwwInv

LEMMA Inductive == Spec => []IInv
<1>1. Init => IInv
  BY InitType, InitRev, InitLww DEF IInv
<1>2. IInv /\ [Next]_vars => IInv'
  <2>1. IInv /\ [Next]_vars => LwwInv'
    BY SlotStep, HeldStep DEF LwwInv
  <2>2. IInv /\ [Next]_vars => TypeInv'
    BY TypeStep, OwnSlotStep DEF IInv, TypeInv
  <2>3. IInv /\ [Next]_vars => RevInv'
    BY RevStep DEF IInv
  <2>4. QED BY <2>1, <2>2, <2>3 DEF IInv
<1>3. QED BY <1>1, <1>2, PTL DEF Spec

(***************************************************************************)
(* A row a device holds as clean is stored on the server in that version   *)
(* or a later one: purging it, or not sending it again, loses nothing.     *)
(***************************************************************************)
THEOREM CleanRowsAreStored == Spec => []CleanIsStored
<1>1. IInv => CleanIsStored
  BY DEF IInv, LwwInv, Held, CleanIsStored
<1>2. QED BY Inductive, <1>1, PTL

-----------------------------------------------------------------------------
(* The change feed.                                                        *)

\* Only a commit changes the committed rows.
LEMMA OnlyCommit ==
  ASSUME [Next]_vars, row' # row
  PROVE  \E s \in Requests : Commit(s)
<1>1. CASE UNCHANGED vars
  BY <1>1 DEF vars
<1>2. ASSUME NEW d \in Devices, UserStep(d) PROVE row' = row
  BY <1>2 DEF UserStep, AddWord, WriteWord
<1>3. ASSUME NEW d \in Devices, NEW s \in Requests,
             SendBatch(d, s) \/ SendPoll(d, s) \/ SendPage(d, s)
      PROVE row' = row
  BY <1>3 DEF SendBatch, SendPoll, SendPage
<1>4. ASSUME NEW d \in Devices, StartRun(d) \/ EndPush(d) \/ Receive(d) \/ MarkSynced(d)
      PROVE row' = row
  BY <1>4 DEF StartRun, EndPush, Receive, MarkSynced
<1>5. ASSUME NEW d \in Devices, MergeFromServer(d) \/ SaveCursor(d) \/ Finish(d)
      PROVE row' = row
  BY <1>5 DEF MergeFromServer, SaveCursor, Finish
<1>6. ASSUME NEW d \in Devices, Abandon(d) \/ ResetCursor(d) PROVE row' = row
  BY <1>6 DEF Abandon, ResetCursor
<1>7. ASSUME NEW s \in Requests, NEW i \in Words, UpsertRow(s, i) \/ FindCanonical(s, i)
      PROVE row' = row
  BY <1>7 DEF UpsertRow, FindCanonical
<1>8. ASSUME NEW s \in Requests, TakeLock(s) \/ ChangesSince(s) \/ Vanish(s) \/ Fail(s)
      PROVE row' = row
  BY <1>8 DEF TakeLock, ChangesSince, Vanish, Fail
<1>9. QED
  BY <1>1, <1>2, <1>3, <1>4, <1>5, <1>6, <1>7, <1>8 DEF Next, RunStep, ServerStep

(***************************************************************************)
(* A committed row changes only to a later stamp and to a revision beyond  *)
(* every revision and every cursor there is.                               *)
(***************************************************************************)
THEOREM FeedOnlyMovesForward == Spec => FeedMovesForward
<1> DEFINE A == \A i \in Words : row'[i] # row[i] =>
                  /\ row'[i].at > row[i].at
                  /\ \A j \in Words : row'[i].rev > row[j].rev
                  /\ \A d \in Devices : row'[i].rev > cursor[d]
<1>1. IInv /\ [Next]_vars => A
  <2> SUFFICES ASSUME IInv, [Next]_vars, NEW i \in Words, row'[i] # row[i]
               PROVE  /\ row'[i].at > row[i].at
                      /\ \A j \in Words : row'[i].rev > row[j].rev
                      /\ \A d \in Devices : row'[i].rev > cursor[d]
    OBVIOUS
  <2>1. PICK s \in Requests : Commit(s)
    BY OnlyCommit
  <2>2. Staged(s, i) /\ row'[i] = req[s].staged[i]
    BY <2>1, CommitRow
  <2>3. req[s].staged[i].at > row[i].at
    BY <2>2 DEF IInv, LwwInv, Sound, Staged
  <2>4. /\ \A j \in Words : row[j].rev < req[s].staged[i].rev
        /\ \A d \in Devices : cursor[d] < req[s].staged[i].rev
    BY <2>2 DEF IInv, RevInv, Published
  <2>5. QED BY <2>2, <2>3, <2>4
<1> HIDE DEF A
<1>2. IInv /\ [Next]_vars => [A]_vars
  BY <1>1
<1>3. Spec => [][A]_vars
  BY Inductive, <1>2, PTL DEF Spec
<1>4. QED BY <1>3 DEF FeedMovesForward, A

-----------------------------------------------------------------------------
(* The abstract notebook.                                                  *)

Truth == [i \in Words |-> AsVersion(row[i])]

Draft == [d \in Devices |-> [i \in Words |->
           IF db[d][i].dirty THEN AsVersion(db[d][i]) ELSE NoVersion]]

LEMMA PromiseInit == Init => Promise!Init
<1> SUFFICES ASSUME Init PROVE Promise!Init OBVIOUS
<1>1. AsVersion(NoServerRow) = NoVersion /\ ~NoLocalRow.dirty
  BY DEF AsVersion, NoServerRow, NoVersion, NoLocalRow
<1>2. QED BY <1>1 DEF Init, Promise!Init

LEMMA PromiseStutter ==
  ASSUME row' = row,
         \A d \in Devices, i \in Words :
           \/ db'[d][i] = db[d][i]
           \/ ~db[d][i].dirty /\ ~db'[d][i].dirty
  PROVE  UNCHANGED <<Truth, Draft>>
<1>1. Truth' = Truth
  BY DEF Truth
<1>2. \A d \in Devices, i \in Words :
        (IF db[d][i].dirty THEN AsVersion(db[d][i]) ELSE NoVersion)' =
        IF db[d][i].dirty THEN AsVersion(db[d][i]) ELSE NoVersion
  OBVIOUS
<1>3. Draft' = Draft
  BY <1>2 DEF Draft
<1>4. QED BY <1>1, <1>3

LEMMA PromiseWrite ==
  ASSUME IInv, NEW d \in Devices, NEW i \in Words, NEW t \in Nat, NEW del \in BOOLEAN,
         row' = row, t > clock[d], db' = [db EXCEPT ![d][i] = Unsent(t, d, del)]
  PROVE  Promise!Write(d, i)
<1>1. /\ db \in [Devices -> [Words -> LocalRow]] /\ clock[d] \in Nat
      /\ db[d][i].at \in Nat /\ db[d][i].dirty \in BOOLEAN
  BY RowTypes DEF IInv, TypeInv, TypeOK
<1>2. /\ Unsent(t, d, del).dirty
      /\ AsVersion(Unsent(t, d, del)) = [at |-> t, by |-> d, del |-> del]
  BY DEF Unsent, AsVersion
<1>3. Draft'[d][i] = [at |-> t, by |-> d, del |-> del]
  <2>1. db'[d][i] = Unsent(t, d, del)
    BY <1>1
  <2>2. QED BY <1>2, <2>1 DEF Draft
<1>4. Draft' = [Draft EXCEPT ![d][i] = Draft'[d][i]]
  <2>1. \A e \in Devices, j \in Words : ~(e = d /\ j = i) => db'[e][j] = db[e][j]
    BY <1>1
  <2>2. \A e \in Devices, j \in Words : ~(e = d /\ j = i) => Draft'[e][j] = Draft[e][j]
    BY <2>1 DEF Draft
  <2>3. /\ Draft = [e \in Devices |-> [j \in Words |-> Draft[e][j]]]
        /\ Draft' = [e \in Devices |-> [j \in Words |-> Draft'[e][j]]]
    BY DEF Draft
  <2>4. QED BY <2>2, <2>3
<1>5. Draft'[d][i] \in Version
  BY <1>3 DEF Version, Authors
<1>6. Draft[d][i].at < t
  <2>1. CASE db[d][i].dirty
    <3>1. db[d][i].at <= clock[d]
      BY <2>1 DEF IInv, LwwInv, Held
    <3>2. Draft[d][i].at = db[d][i].at
      BY <2>1 DEF Draft, AsVersion
    <3>3. QED BY <1>1, <3>1, <3>2
  <2>2. CASE ~db[d][i].dirty
    BY <1>1, <2>2 DEF Draft, NoVersion
  <2>3. QED BY <2>1, <2>2
<1>7. Truth' = Truth
  BY DEF Truth
<1>8. Draft'[d][i].at > Draft[d][i].at
  BY <1>3, <1>6
<1>9. QED BY <1>4, <1>5, <1>7, <1>8 DEF Promise!Write, Truth, Draft

LEMMA PromiseSettle ==
  ASSUME IInv, NEW d \in Devices, MarkSynced(d)
  PROVE  Promise!Settle(d)
<1> DEFINE r == req[run[d].via]
           S == { i \in Words : i \in r.accepted /\ db[d][i].at = r.batch[i].at }
<1>1. /\ row' = row /\ run[d].pc = "mark"
      /\ db' = [db EXCEPT ![d] = [i \in Words |->
           IF i \in r.accepted /\ db[d][i].at = r.batch[i].at
           THEN [db[d][i] EXCEPT !.dirty = FALSE]
           ELSE db[d][i]]]
  BY DEF MarkSynced
<1>2. /\ db \in [Devices -> [Words -> LocalRow]]
      /\ \A i \in Words : row[i].at \in Nat /\ db[d][i].at \in Nat
  BY RowTypes DEF IInv, TypeInv, TypeOK
<1>3. \A i \in S : row[i].at >= db[d][i].at
  BY <1>1, AcceptedIsStored
<1>4. \A i \in S : Truth[i].at >= Draft[d][i].at
  <2>1. \A i \in Words : /\ Truth[i].at = row[i].at
                         /\ Draft[d][i].at = IF db[d][i].dirty THEN db[d][i].at ELSE 0
    BY DEF Truth, Draft, AsVersion, NoVersion
  <2>2. QED BY <1>2, <1>3, <2>1
<1>5. \A i \in Words : Draft'[d][i] = IF i \in S THEN NoVersion ELSE Draft[d][i]
  <2>1. \A i \in Words : [db[d][i] EXCEPT !.dirty = FALSE].dirty = FALSE
    BY <1>2 DEF LocalRow
  <2>2. \A i \in Words : db'[d][i] = IF i \in S THEN [db[d][i] EXCEPT !.dirty = FALSE]
                                                ELSE db[d][i]
    BY <1>1, <1>2
  <2> HIDE DEF S
  <2>3. \A i \in Words : i \in S => ~db'[d][i].dirty
    BY <2>1, <2>2
  <2>4. \A i \in Words : i \notin S => db'[d][i] = db[d][i]
    BY <2>2
  <2>5. QED BY <2>3, <2>4 DEF Draft
<1>6. \A e \in Devices, i \in Words : e # d => Draft'[e][i] = Draft[e][i]
  <2>1. \A e \in Devices : e # d => db'[e] = db[e]
    BY <1>1, <1>2
  <2>2. QED BY <2>1 DEF Draft
<1>7. Draft' = [Draft EXCEPT ![d] =
                 [i \in Words |-> IF i \in S THEN NoVersion ELSE Draft[d][i]]]
  <2> HIDE DEF S
  <2>1. /\ Draft = [e \in Devices |-> [j \in Words |-> Draft[e][j]]]
        /\ Draft' = [e \in Devices |-> [j \in Words |-> Draft'[e][j]]]
    BY DEF Draft
  <2>2. QED BY <1>5, <1>6, <2>1
<1>8. Truth' = Truth
  BY <1>1 DEF Truth
<1>9. S \in SUBSET Words
  OBVIOUS
<1> HIDE DEF S, r
<1>10. QED BY <1>4, <1>7, <1>8, <1>9 DEF Promise!Settle, Truth, Draft

LEMMA PromiseAdvance ==
  ASSUME IInv, NEW s \in Requests, Commit(s)
  PROVE  Promise!Advance \/ UNCHANGED <<Truth, Draft>>
<1>1. db' = db
  BY DEF Commit
<1>2. Draft' = Draft
  BY <1>1 DEF Draft
<1>3. /\ row \in [Words -> ServerRow]
      /\ \A i \in Words : req[s].staged[i] \in ServerRow
  BY DEF IInv, TypeInv, TypeOK, RequestType
<1>4. \A i \in Words : row'[i] = IF Staged(s, i) THEN req[s].staged[i] ELSE row[i]
  BY CommitRow
<1>5. \A i \in Words : Staged(s, i) => req[s].staged[i].at > row[i].at
  BY DEF IInv, LwwInv, Sound, Staged
<1>6. \A i \in Words : row'[i] \in ServerRow /\ (row'[i] = row[i] \/ row'[i].at > row[i].at)
  BY <1>3, <1>4, <1>5
<1>7. \A r \in ServerRow : AsVersion(r) \in Version /\ AsVersion(r).at = r.at
  BY DEF ServerRow, Version, AsVersion
<1>8. Truth' = [i \in Words |-> AsVersion(row'[i])]
  BY DEF Truth
<1>9. Truth' \in [Words -> Version]
  BY <1>6, <1>7, <1>8
<1>10. \A i \in Words : Truth'[i] = Truth[i] \/ Truth'[i].at > Truth[i].at
  BY <1>3, <1>6, <1>7 DEF Truth
<1>11. CASE Truth' = Truth
  BY <1>2, <1>11
<1>12. CASE Truth' # Truth
  BY <1>2, <1>9, <1>10, <1>12 DEF Promise!Advance, Truth, Draft
<1>13. QED BY <1>11, <1>12

LEMMA PromiseMerge ==
  ASSUME IInv, NEW d \in Devices, MergeFromServer(d) \/ Finish(d)
  PROVE  UNCHANGED <<Truth, Draft>>
<1>1. db \in [Devices -> [Words -> LocalRow]]
  BY DEF IInv, TypeInv, TypeOK
<1>2. \A l, r : /\ l.dirty => MergeRow(l, r) = l
                /\ MergeRow(l, r) = l \/ MergeRow(l, r) = Clean(r)
  BY DEF MergeRow
<1>3. \A r : Clean(r).dirty = FALSE
  BY DEF Clean
<1>4. NoLocalRow.dirty = FALSE
  BY DEF NoLocalRow
<1>5. \A l \in LocalRow : l.dirty \in BOOLEAN
  BY DEF LocalRow
<1>6. \A i \in Words : \/ db'[d][i] = db[d][i]
                       \/ ~db[d][i].dirty /\ ~db'[d][i].dirty
  <2>1. CASE MergeFromServer(d)
    <3>1. \A i \in Words : db'[d][i] =
            MergeRow(MergeRow(db[d][i], req[run[d].via].canon[i]), req[run[d].via].page[i])
      BY <1>1, <2>1 DEF MergeFromServer
    <3>2. TAKE i \in Words
    <3>3. CASE db[d][i].dirty
      BY <1>2, <3>1, <3>3
    <3>4. CASE ~db[d][i].dirty
      BY <1>2, <1>3, <3>1, <3>4
    <3>5. QED BY <3>3, <3>4
  <2>2. CASE Finish(d)
    <3>1. \A i \in Words : db'[d][i] =
            IF db[d][i].del /\ ~db[d][i].dirty THEN NoLocalRow ELSE db[d][i]
      BY <1>1, <2>2 DEF Finish
    <3>2. QED BY <1>4, <3>1
  <2>3. QED BY <2>1, <2>2
<1>7. row' = row /\ \A e \in Devices : e # d => db'[e] = db[e]
  BY <1>1 DEF MergeFromServer, Finish
<1>8. QED BY <1>6, <1>7, PromiseStutter

LEMMA PromiseStep == IInv /\ [Next]_vars => [Promise!Next]_<<Truth, Draft>>
<1> SUFFICES ASSUME IInv, [Next]_vars
             PROVE  Promise!Next \/ UNCHANGED <<Truth, Draft>>
  OBVIOUS
<1>1. ASSUME UNCHANGED <<row, db>> PROVE UNCHANGED <<Truth, Draft>>
  BY <1>1 DEF Truth, Draft
<1>2. \A d \in Devices : 1 .. MaxStamp[d] \subseteq Nat
  BY SyncAssumption
<1>3. ASSUME NEW d \in Devices, UserStep(d) PROVE Promise!Next
  <2>1. PICK i \in Words, t \in 1 .. MaxStamp[d], del \in BOOLEAN :
          AddWord(d, i, t) \/ WriteWord(d, i, t, del)
    BY <1>3 DEF UserStep
  <2>2. t \in Nat
    BY <1>2
  <2>3. CASE AddWord(d, i, t)
    <3>1. /\ row' = row /\ t > clock[d]
          /\ db' = [db EXCEPT ![d][i] = Unsent(t, d, FALSE)]
      BY <2>3 DEF AddWord, Tick
    <3>2. Promise!Write(d, i)
      BY <2>2, <3>1, PromiseWrite
    <3>3. QED BY <3>2 DEF Promise!Next
  <2>4. CASE WriteWord(d, i, t, del)
    <3>1. /\ row' = row /\ t > clock[d]
          /\ db' = [db EXCEPT ![d][i] = Unsent(t, d, del)]
      BY <2>4 DEF WriteWord, Tick
    <3>2. Promise!Write(d, i)
      BY <2>2, <3>1, PromiseWrite
    <3>3. QED BY <3>2 DEF Promise!Next
  <2>5. QED BY <2>1, <2>3, <2>4
<1>4. ASSUME NEW d \in Devices, MarkSynced(d) PROVE Promise!Next
  BY <1>4, PromiseSettle DEF Promise!Next
<1>5. ASSUME NEW d \in Devices, MergeFromServer(d) \/ Finish(d)
      PROVE  UNCHANGED <<Truth, Draft>>
  BY <1>5, PromiseMerge
<1>6. ASSUME NEW s \in Requests, Commit(s)
      PROVE  Promise!Next \/ UNCHANGED <<Truth, Draft>>
  BY <1>6, PromiseAdvance DEF Promise!Next
<1>7. ASSUME NEW d \in Devices, RunStep(d)
      PROVE  Promise!Next \/ UNCHANGED <<Truth, Draft>>
  BY <1>1, <1>4, <1>5, <1>7
     DEF RunStep, StartRun, SendBatch, SendPoll, SendPage, EndPush, Receive, SaveCursor
<1>8. ASSUME NEW s \in Requests, ServerStep(s)
      PROVE  Promise!Next \/ UNCHANGED <<Truth, Draft>>
  BY <1>1, <1>6, <1>8 DEF ServerStep, TakeLock, UpsertRow, ChangesSince, FindCanonical
<1>9. ASSUME UNCHANGED vars PROVE UNCHANGED <<Truth, Draft>>
  BY <1>1, <1>9 DEF vars
<1>10. ASSUME NEW d \in Devices, Abandon(d) \/ ResetCursor(d)
       PROVE  UNCHANGED <<Truth, Draft>>
  BY <1>1, <1>10 DEF Abandon, ResetCursor
<1>11. ASSUME NEW s \in Requests, Vanish(s) \/ Fail(s)
       PROVE  UNCHANGED <<Truth, Draft>>
  BY <1>1, <1>11 DEF Vanish, Fail
<1>12. QED BY <1>3, <1>7, <1>8, <1>9, <1>10, <1>11 DEF Next

(***************************************************************************)
(* The sync implements the last-write-wins notebook: seen as the truth and *)
(* the drafts, a run of requests, retries, interleaved transactions,       *)
(* merges, purges and faults only ever writes a draft, advances the truth  *)
(* to later versions, or settles drafts the truth has caught up with.      *)
(***************************************************************************)
THEOREM SyncKeepsPromise == Spec => KeepsPromise
<1>1. Spec => Promise!Init
  BY PromiseInit, PTL DEF Spec
<1>2. Spec => [][Promise!Next]_<<Truth, Draft>>
  BY Inductive, PromiseStep, PTL DEF Spec
<1>3. QED BY <1>1, <1>2, PTL DEF KeepsPromise, Promise!Spec, Truth, Draft

-----------------------------------------------------------------------------
(* The pull cursor.                                                        *)

\* Two rows never share a revision, and a row is there when it has one.
Distinct ==
  /\ \A i, j \in Words : Present(row[i]) /\ row[i].rev = row[j].rev => i = j
  /\ \A s \in Requests, i, j \in Words :
       Staged(s, i) /\ Staged(s, j) /\ req[s].staged[i].rev = req[s].staged[j].rev => i = j
  /\ \A i \in Words : Present(row[i]) <=> row[i].rev > 0

(***************************************************************************)
(* An answer against the committed rows.  The page holds every row whose   *)
(* revision lies between the two cursors; what was read, page or canonical *)
(* winner, is still the committed row or was replaced beyond the cursor.   *)
(***************************************************************************)
Fresh(r) ==
  /\ r.stage # "pulled" => \A i \in Words : ~Present(r.canon[i])
  /\ r.stage = "pulled" =>
       /\ r.since <= r.next
       /\ \A i \in Words :
            /\ row[i].rev > r.since /\ row[i].rev <= r.next => r.page[i] = row[i]
            /\ Present(r.page[i]) => r.page[i] = row[i] \/ row[i].rev > r.next
            /\ Present(r.canon[i]) => r.canon[i] = row[i] \/ row[i].rev > r.next
            /\ i \in r.accepted \ r.todo /\ Present(row[i]) =>
                 Present(r.canon[i]) \/ row[i].rev > r.next

\* The device has the word, or has its own edit of it, or is about to get it.
Kept(d, i) == UpToDate(d, i) \/ db[d][i].dirty \/ AboutToMerge(d, i)

Covers(d, c) == \A i \in Words : Present(row[i]) /\ row[i].rev <= c => Kept(d, i)

\* A device's cursors: the stored one, the run's, and the one to be saved.
Behind(d) ==
  /\ run[d].pc # Idle => cursor[d] <= run[d].rev
  /\ run[d].pc \in Holding => req[run[d].via].since = run[d].rev
  /\ Covers(d, cursor[d])
  /\ Covers(d, run[d].rev)
  /\ run[d].pc = "save" => Covers(d, req[run[d].via].next)

CursorInv ==
  /\ Distinct
  /\ \A s \in Requests : Fresh(req[s])
  /\ \A d \in Devices : Behind(d)

-----------------------------------------------------------------------------
LEMMA RevTypes ==
  ASSUME TypeOK
  PROVE  /\ seq \in Nat
         /\ \A i \in Words : row[i].rev \in Nat
         /\ \A s \in Requests, i \in Words : req[s].staged[i].rev \in Nat
         /\ \A s \in Requests : req[s].next \in Nat /\ req[s].since \in Nat
         /\ \A d \in Devices : cursor[d] \in Nat /\ run[d].rev \in Nat
BY DEF TypeOK, RequestType, ServerRow, RunType

LEMMA InitCursor == Init => CursorInv
<1> SUFFICES ASSUME Init PROVE CursorInv OBVIOUS
<1>1. \A i \in Words : row[i] = NoServerRow
  BY DEF Init
<1>2. \A s \in Requests, i \in Words :
        /\ req[s].staged[i] = NoServerRow /\ req[s].canon[i] = NoServerRow
        /\ req[s].stage = "free"
  BY DEF Init, FreeRequest
<1>3. ~Present(NoServerRow) /\ NoServerRow.rev = 0
  BY DEF Present, NoServerRow
<1>4. Distinct
  BY <1>1, <1>2, <1>3 DEF Distinct, Staged
<1>5. \A s \in Requests : Fresh(req[s])
  <2>1. \A s \in Requests : req[s].stage = "free"
    BY DEF Init, FreeRequest
  <2>2. QED BY <1>2, <1>3, <2>1 DEF Fresh
<1>6. \A d \in Devices : run[d].pc = Idle /\ run[d].rev = 0 /\ cursor[d] = 0
  BY DEF Init, NoRun
<1>7. \A d \in Devices : Behind(d)
  BY <1>1, <1>3, <1>6 DEF Behind, Covers, Holding, Idle
<1>8. QED BY <1>4, <1>5, <1>7 DEF CursorInv

-----------------------------------------------------------------------------
(* Revisions stay distinct.                                                *)

LEMMA DistinctKept ==
  ASSUME Distinct, row' = row,
         \A s \in Requests : \/ req'[s].staged = req[s].staged
                             \/ \A i \in Words : ~Present(req'[s].staged[i])
  PROVE  Distinct'
BY DEF Distinct, Staged

LEMMA DistinctUpsert ==
  ASSUME IInv, Distinct, NEW s \in Requests, NEW i \in Words, UpsertRow(s, i)
  PROVE  Distinct'
<1>a. TypeOK /\ req \in [Requests -> RequestType] /\ seq \in Nat
  BY DEF IInv, TypeInv, TypeOK
<1>1. row' = row /\ \A t \in Requests : t # s => req'[t] = req[t]
  BY <1>a DEF UpsertRow
<1>2. \/ req'[s].staged = req[s].staged
      \/ req'[s].staged = [req[s].staged EXCEPT ![i] = StoredAs(req[s].batch[i], seq + 1)]
  BY <1>a DEF UpsertRow, RequestType
<1>3. CASE req'[s].staged = req[s].staged
  BY <1>1, <1>3, DistinctKept
<1>4. CASE req'[s].staged = [req[s].staged EXCEPT ![i] = StoredAs(req[s].batch[i], seq + 1)]
  <2>1. \A j \in Words : j # i => req'[s].staged[j] = req[s].staged[j]
    BY <1>4, <1>a DEF RequestType
  <2>2. req'[s].staged[i].rev = seq + 1
    BY <1>4, <1>a DEF RequestType, StoredAs
  <2>3. \A j \in Words : Staged(s, j) => req[s].staged[j].rev \in Nat /\ req[s].staged[j].rev <= seq
    BY <1>a, RevTypes DEF IInv, RevInv
  <2>4. \A j \in Words : j # i /\ Staged(s, j)' => req'[s].staged[j].rev # seq + 1
    BY <1>a, <2>1, <2>3 DEF Staged
  <2>5. \A t \in Requests, j, k \in Words :
          Staged(t, j)' /\ Staged(t, k)' /\ req'[t].staged[j].rev = req'[t].staged[k].rev
            => j = k
    <3>1. TAKE t \in Requests, j \in Words, k \in Words
    <3>2. CASE t # s
      BY <1>1, <3>2 DEF Distinct, Staged
    <3>3. CASE t = s /\ j # i /\ k # i
      BY <2>1, <3>3 DEF Distinct, Staged
    <3>4. CASE t = s /\ (j = i \/ k = i)
      BY <2>2, <2>4, <3>4
    <3>5. QED BY <3>2, <3>3, <3>4
  <2>6. QED BY <1>1, <2>5 DEF Distinct
<1>5. QED BY <1>2, <1>3, <1>4

LEMMA DistinctCommit ==
  ASSUME IInv, Distinct, NEW s \in Requests, Commit(s)
  PROVE  Distinct'
<1>a. TypeOK /\ req \in [Requests -> RequestType]
  BY DEF IInv, TypeInv, TypeOK
<1>1. \A i \in Words : /\ row'[i] = IF Staged(s, i) THEN req[s].staged[i] ELSE row[i]
                       /\ \A t \in Requests : t # s => ~Staged(t, i)
  BY CommitRow
<1>2. /\ \A t \in Requests : t # s => req'[t] = req[t]
      /\ req'[s].staged = [i \in Words |-> NoServerRow]
  BY <1>a DEF Commit, RequestType
<1>3. \A t \in Requests, i \in Words : ~Staged(t, i)'
  BY <1>1, <1>2 DEF Staged, Present, NoServerRow
<1>4. \A i, j \in Words : Staged(s, i) => row[j].rev < req[s].staged[i].rev
  BY DEF IInv, RevInv, Published
<1>5. \A i \in Words : row[i].rev \in Nat /\ req[s].staged[i].rev \in Nat
  BY <1>a, RevTypes
<1>6. \A i, j \in Words : Present(row'[i]) /\ row'[i].rev = row'[j].rev => i = j
  <2>1. TAKE i \in Words, j \in Words
  <2>2. CASE Staged(s, i) /\ Staged(s, j)
    BY <1>1, <2>2 DEF Distinct
  <2>3. CASE ~Staged(s, i) /\ ~Staged(s, j)
    BY <1>1, <2>3 DEF Distinct
  <2>4. CASE Staged(s, i) /\ ~Staged(s, j)
    BY <1>1, <1>4, <1>5, <2>4
  <2>5. CASE ~Staged(s, i) /\ Staged(s, j)
    BY <1>1, <1>4, <1>5, <2>5
  <2>6. QED BY <2>2, <2>3, <2>4, <2>5
<1>7. \A i \in Words : Present(row'[i]) <=> row'[i].rev > 0
  <2>1. TAKE i \in Words
  <2>2. CASE Staged(s, i)
    BY <1>1, <1>4, <1>5, <2>2 DEF Staged
  <2>3. CASE ~Staged(s, i)
    BY <1>1, <2>3 DEF Distinct
  <2>4. QED BY <2>2, <2>3
<1>8. QED BY <1>3, <1>6, <1>7 DEF Distinct

LEMMA DistinctStep == IInv /\ Distinct /\ [Next]_vars => Distinct'
<1> SUFFICES ASSUME IInv, Distinct, [Next]_vars PROVE Distinct' OBVIOUS
<1>a. req \in [Requests -> RequestType]
  BY DEF IInv, TypeInv, TypeOK
<1>1. ASSUME UNCHANGED <<row, req>> PROVE Distinct'
  BY <1>1, DistinctKept
<1>2. ASSUME NEW d \in Devices, UserStep(d) PROVE Distinct'
  BY <1>1, <1>2 DEF UserStep, AddWord, WriteWord
<1>3. ASSUME row' = row,
             \A t \in Requests : \/ req'[t] = req[t]
                                 \/ req'[t].staged = FreeRequest.staged
      PROVE Distinct'
  <2>1. \A i \in Words : ~Present(FreeRequest.staged[i])
    BY DEF FreeRequest, NoServerRow, Present
  <2>2. QED BY <1>3, <2>1, DistinctKept
<1>4. ASSUME NEW d \in Devices, NEW s \in Requests,
             SendBatch(d, s) \/ SendPoll(d, s) \/ SendPage(d, s)
      PROVE Distinct'
  <2>1. \A P : RequestFor(d, P).staged = FreeRequest.staged
    BY DEF RequestFor, FreeRequest
  <2>2. row' = row /\ \E P : Send(d, s, P)
    BY <1>4 DEF SendBatch, SendPoll, SendPage
  <2>3. QED BY <1>3, <1>a, <2>1, <2>2 DEF Send
<1>5. ASSUME NEW d \in Devices, SaveCursor(d) \/ Abandon(d) PROVE Distinct'
  BY <1>3, <1>5, <1>a DEF SaveCursor, Abandon
<1>6. ASSUME NEW d \in Devices, RunStep(d) PROVE Distinct'
  BY <1>1, <1>4, <1>5, <1>6
     DEF RunStep, StartRun, EndPush, Receive, MarkSynced, MergeFromServer, Finish
<1>7. ASSUME NEW s \in Requests, Vanish(s) \/ Fail(s) PROVE Distinct'
  BY <1>3, <1>7, <1>a DEF Vanish, Fail
<1>8. ASSUME NEW s \in Requests, row' = row, \A t \in Requests : t # s => req'[t] = req[t],
             req'[s].staged = req[s].staged
      PROVE Distinct'
  BY <1>8, DistinctKept
<1>9. ASSUME NEW s \in Requests,
             \/ TakeLock(s) \/ ChangesSince(s)
             \/ \E i \in Words : FindCanonical(s, i)
      PROVE Distinct'
  <2>1. row' = row /\ (\A t \in Requests : t # s => req'[t] = req[t])
    BY <1>9, <1>a DEF TakeLock, ChangesSince, FindCanonical
  <2>2. req'[s].staged = req[s].staged
    <3>1. CASE TakeLock(s)
      BY <3>1, <1>a DEF TakeLock, RequestType
    <3>2. CASE ChangesSince(s)
      BY <3>2, <1>a DEF ChangesSince, RequestType
    <3>3. CASE \E i \in Words : FindCanonical(s, i)
      BY <3>3, <1>a DEF FindCanonical, RequestType
    <3>4. QED BY <1>9, <3>1, <3>2, <3>3
  <2>3. QED BY <1>8, <2>1, <2>2
<1>10. ASSUME NEW s \in Requests, ServerStep(s) PROVE Distinct'
  BY <1>9, <1>10, DistinctUpsert, DistinctCommit DEF ServerStep
<1>11. ASSUME NEW d \in Devices, ResetCursor(d) PROVE Distinct'
  BY <1>1, <1>11 DEF ResetCursor
<1>12. CASE UNCHANGED vars
  BY <1>1, <1>12 DEF vars
<1>13. QED
  BY <1>2, <1>5, <1>6, <1>7, <1>10, <1>11, <1>12 DEF Next

-----------------------------------------------------------------------------
(* Answers stay fresh.                                                     *)

LEMMA FreshSlots ==
  ASSUME row' = row, \A s \in Requests : Fresh(req[s]),
         \A s \in Requests : req'[s] = req[s] \/ Fresh(req'[s])
  PROVE  \A s \in Requests : Fresh(req[s])'
<1>1. TAKE s \in Requests
<1>2. Fresh(req'[s])
  OBVIOUS
<1>3. QED BY <1>2 DEF Fresh

LEMMA FreshBlank ==
  ASSUME NEW r, r.stage # "pulled", r.canon = FreeRequest.canon
  PROVE  Fresh(r)
<1>1. \A i \in Words : ~Present(r.canon[i])
  BY DEF FreeRequest, NoServerRow, Present
<1>2. QED BY <1>1 DEF Fresh

\* A row that changes gets a revision beyond every cursor.
LEMMA CommitBeyond ==
  ASSUME IInv, NEW s \in Requests, Commit(s), NEW i \in Words, row'[i] # row[i]
  PROVE  /\ \A t \in Requests : row'[i].rev > req[t].next /\ row'[i].rev > req[t].since
         /\ \A d \in Devices : row'[i].rev > cursor[d] /\ row'[i].rev > run[d].rev
<1>1. Staged(s, i) /\ row'[i] = req[s].staged[i]
  BY CommitRow
<1>2. QED BY <1>1 DEF IInv, RevInv, Published

LEMMA FreshCommit ==
  ASSUME IInv, \A t \in Requests : Fresh(req[t]), NEW s \in Requests, Commit(s),
         NEW t \in Requests
  PROVE  Fresh(req[t])'
<1>a. TypeOK /\ req \in [Requests -> RequestType]
  BY DEF IInv, TypeInv, TypeOK
<1>1. Fresh(req[t])
  OBVIOUS
<1>2. CASE t = s
  <2>1. /\ req[s].stage # "pulled" /\ req'[s].stage # "pulled"
        /\ req'[s].canon = req[s].canon
    BY <1>a DEF Commit, RequestType
  <2>2. QED BY <1>1, <1>2, <2>1 DEF Fresh
<1>3. CASE t # s
  <2>1. req'[t] = req[t]
    BY <1>3, <1>a DEF Commit
  <2>2. \A i \in Words : row'[i] = row[i] \/ row'[i].rev > req[t].next
    BY CommitBeyond
  <2>3. \A i \in Words : row[i].rev \in Nat /\ req[t].next \in Nat
    BY <1>a, RevTypes
  <2>4. \A i \in Words : row'[i].rev \in Nat
    <3>1. \A i \in Words : row'[i] = IF Staged(s, i) THEN req[s].staged[i] ELSE row[i]
      BY CommitRow
    <3>2. QED BY <3>1, <1>a, RevTypes
  <2>5. CASE req[t].stage = "pulled"
    <3>1. req[t].since <= req[t].next
      BY <1>1, <2>5 DEF Fresh
    <3>2. ASSUME NEW i \in Words
          PROVE  /\ row'[i].rev > req[t].since /\ row'[i].rev <= req[t].next =>
                      req[t].page[i] = row'[i]
                 /\ Present(req[t].page[i]) =>
                      req[t].page[i] = row'[i] \/ row'[i].rev > req[t].next
                 /\ Present(req[t].canon[i]) =>
                      req[t].canon[i] = row'[i] \/ row'[i].rev > req[t].next
                 /\ i \in req[t].accepted \ req[t].todo /\ Present(row'[i]) =>
                      Present(req[t].canon[i]) \/ row'[i].rev > req[t].next
      <4>1. CASE row'[i] = row[i]
        BY <1>1, <2>5, <4>1 DEF Fresh
      <4>2. CASE row'[i].rev > req[t].next
        BY <2>3, <2>4, <4>2
      <4>3. QED BY <2>2, <4>1, <4>2
    <3>3. QED BY <2>1, <2>5, <3>1, <3>2 DEF Fresh
  <2>6. CASE req[t].stage # "pulled"
    BY <1>1, <2>1, <2>6 DEF Fresh
  <2>7. QED BY <2>5, <2>6
<1>4. QED BY <1>2, <1>3

LEMMA FreshPage ==
  ASSUME IInv, Distinct, NEW s \in Requests, Fresh(req[s]), ChangesSince(s)
  PROVE  Fresh(req'[s])
<1>a. TypeOK /\ req \in [Requests -> RequestType]
  BY DEF IInv, TypeInv, TypeOK
<1> DEFINE c == req[s].since
<1>1. PICK P \in FirstBy(Newer(c), PullLimit, [i \in Words |-> row[i].rev]) :
        \E n \in {c} \cup {row[i].rev : i \in P} :
          /\ \A i \in P : row[i].rev <= n
          /\ req' = [req EXCEPT ![s] = [req[s] EXCEPT
               !.stage = "pulled",
               !.page  = [i \in Words |-> IF i \in P THEN row[i] ELSE NoServerRow],
               !.more  = (P # Newer(c)),
               !.next  = n,
               !.todo  = req[s].accepted]]
  BY DEF ChangesSince
<1>2. PICK n \in {c} \cup {row[i].rev : i \in P} :
        req' = [req EXCEPT ![s] = [req[s] EXCEPT
          !.stage = "pulled",
          !.page  = [i \in Words |-> IF i \in P THEN row[i] ELSE NoServerRow],
          !.more  = (P # Newer(c)),
          !.next  = n,
          !.todo  = req[s].accepted]]
  BY <1>1
<1>3. /\ req'[s].stage = "pulled" /\ req'[s].since = c /\ req'[s].next = n
      /\ req'[s].canon = req[s].canon /\ req'[s].accepted = req[s].accepted
      /\ req'[s].todo = req[s].accepted
      /\ req'[s].page = [i \in Words |-> IF i \in P THEN row[i] ELSE NoServerRow]
  BY <1>2, <1>a DEF RequestType
<1>4. P \subseteq Newer(c) /\ \A p \in P, q \in Newer(c) \ P : row[p].rev <= row[q].rev
  BY <1>1 DEF FirstBy, Newer
<1>5. c \in Nat /\ \A i \in Words : row[i].rev \in Nat
  BY <1>a, RevTypes
<1> HIDE DEF c
<1>6. \A i \in P : i \in Words /\ row[i].rev > c
  BY <1>4 DEF Newer
<1>7. c <= n
  BY <1>2, <1>5, <1>6
<1>8. ASSUME NEW i \in Words, row[i].rev > c, row[i].rev <= n PROVE i \in P
  <2>1. PICK p \in P : n = row[p].rev
    BY <1>2, <1>5, <1>8
  <2>2. SUFFICES ASSUME i \notin P PROVE FALSE
    OBVIOUS
  <2>3. row[p].rev <= row[i].rev
    BY <1>4, <1>8, <2>2 DEF Newer
  <2>4. row[p].rev = row[i].rev /\ p \in Words /\ row[p].rev > 0
    BY <1>5, <1>6, <1>8, <2>1, <2>3
  <2>5. p = i
    BY <2>4 DEF Distinct
  <2>6. QED BY <2>2, <2>5
<1>9. \A i \in Words : i \in P => req'[s].page[i] = row[i]
  BY <1>3
<1>10. \A i \in Words : i \notin P => ~Present(req'[s].page[i])
  BY <1>3 DEF Present, NoServerRow
<1>11. \A i \in Words : ~Present(req'[s].canon[i])
  BY <1>3 DEF Fresh, ChangesSince
<1>12. QED BY <1>3, <1>7, <1>8, <1>9, <1>10, <1>11 DEF Fresh

LEMMA FreshCanonical ==
  ASSUME IInv, NEW s \in Requests, Fresh(req[s]), NEW i \in Words, FindCanonical(s, i)
  PROVE  Fresh(req'[s])
<1>a. TypeOK /\ req \in [Requests -> RequestType]
  BY DEF IInv, TypeInv, TypeOK
<1>1. /\ req[s].stage = "pulled" /\ req'[s].stage = "pulled"
      /\ req'[s].since = req[s].since /\ req'[s].next = req[s].next
      /\ req'[s].page = req[s].page /\ req'[s].accepted = req[s].accepted
      /\ req'[s].canon = [req[s].canon EXCEPT ![i] = row[i]]
      /\ req'[s].todo = req[s].todo \ {i}
  BY <1>a DEF FindCanonical, RequestType
<1>2. \A j \in Words : req'[s].canon[j] = IF j = i THEN row[i] ELSE req[s].canon[j]
  BY <1>1, <1>a DEF RequestType
<1>3. QED BY <1>1, <1>2 DEF Fresh

LEMMA FreshStep ==
  IInv /\ CursorInv /\ [Next]_vars => (\A s \in Requests : Fresh(req[s]))'
<1> SUFFICES ASSUME IInv, CursorInv, [Next]_vars
             PROVE  \A s \in Requests : Fresh(req[s])'
  OBVIOUS
<1>a. /\ Distinct /\ (\A s \in Requests : Fresh(req[s]))
      /\ req \in [Requests -> RequestType]
  BY DEF IInv, CursorInv, TypeInv, TypeOK
<1>1. ASSUME UNCHANGED <<row, req>> PROVE \A s \in Requests : Fresh(req[s])'
  BY <1>1, <1>a, FreshSlots
<1>2. ASSUME row' = row,
             \A t \in Requests : \/ req'[t] = req[t] \/ req'[t] = FreeRequest
                                 \/ \E d, P : req'[t] = RequestFor(d, P)
      PROVE \A s \in Requests : Fresh(req[s])'
  <2>1. Fresh(FreeRequest)
    BY FreshBlank DEF FreeRequest
  <2>2. \A d, P : /\ RequestFor(d, P).stage # "pulled"
                  /\ RequestFor(d, P).canon = FreeRequest.canon
    BY DEF RequestFor, FreeRequest
  <2>3. \A d, P : Fresh(RequestFor(d, P))
    BY <2>2, FreshBlank
  <2>4. QED BY <1>2, <1>a, <2>1, <2>3, FreshSlots
<1>3. ASSUME NEW d \in Devices, UserStep(d) PROVE \A s \in Requests : Fresh(req[s])'
  BY <1>1, <1>3 DEF UserStep, AddWord, WriteWord
<1>4. ASSUME NEW d \in Devices, NEW s \in Requests,
             SendBatch(d, s) \/ SendPoll(d, s) \/ SendPage(d, s)
      PROVE \A t \in Requests : Fresh(req[t])'
  <2>1. row' = row /\ \E P : Send(d, s, P)
    BY <1>4 DEF SendBatch, SendPoll, SendPage
  <2>2. \A t \in Requests : req'[t] = req[t] \/ \E P : req'[t] = RequestFor(d, P)
    BY <2>1, <1>a DEF Send
  <2>3. QED BY <1>2, <2>1, <2>2
<1>5. ASSUME NEW d \in Devices, SaveCursor(d) \/ Abandon(d)
      PROVE \A t \in Requests : Fresh(req[t])'
  BY <1>2, <1>5, <1>a DEF SaveCursor, Abandon
<1>6. ASSUME NEW d \in Devices, RunStep(d) PROVE \A s \in Requests : Fresh(req[s])'
  BY <1>1, <1>4, <1>5, <1>6
     DEF RunStep, StartRun, EndPush, Receive, MarkSynced, MergeFromServer, Finish
<1>7. ASSUME NEW s \in Requests, Vanish(s) \/ Fail(s)
      PROVE \A t \in Requests : Fresh(req[t])'
  BY <1>2, <1>7, <1>a DEF Vanish, Fail
<1>8. ASSUME NEW s \in Requests, row' = row, \A t \in Requests : t # s => req'[t] = req[t],
             Fresh(req'[s])
      PROVE \A t \in Requests : Fresh(req[t])'
  BY <1>8, <1>a, FreshSlots
<1>9. ASSUME NEW s \in Requests,
             \/ TakeLock(s) \/ ChangesSince(s)
             \/ \E i \in Words : UpsertRow(s, i) \/ FindCanonical(s, i)
      PROVE \A t \in Requests : Fresh(req[t])'
  <2>1. row' = row /\ (\A t \in Requests : t # s => req'[t] = req[t])
    BY <1>9, <1>a DEF TakeLock, ChangesSince, UpsertRow, FindCanonical
  <2>2. CASE TakeLock(s) \/ \E i \in Words : UpsertRow(s, i)
    <3>1. /\ req[s].stage # "pulled" /\ req'[s].stage # "pulled"
          /\ req'[s].canon = req[s].canon
      <4>1. CASE TakeLock(s)
        BY <4>1, <1>a DEF TakeLock, RequestType
      <4>2. CASE \E i \in Words : UpsertRow(s, i)
        BY <4>2, <1>a DEF UpsertRow, RequestType
      <4>3. QED BY <2>2, <4>1, <4>2
    <3>2. Fresh(req'[s])
      BY <3>1, <1>a DEF Fresh
    <3>3. QED BY <1>8, <2>1, <3>2
  <2>3. CASE ChangesSince(s)
    BY <1>8, <1>a, <2>1, <2>3, FreshPage
  <2>4. CASE \E i \in Words : FindCanonical(s, i)
    BY <1>8, <1>a, <2>1, <2>4, FreshCanonical
  <2>5. QED BY <1>9, <2>2, <2>3, <2>4
<1>10. ASSUME NEW s \in Requests, ServerStep(s) PROVE \A t \in Requests : Fresh(req[t])'
  BY <1>9, <1>10, <1>a, FreshCommit DEF ServerStep
<1>11. ASSUME NEW d \in Devices, ResetCursor(d) PROVE \A s \in Requests : Fresh(req[s])'
  BY <1>1, <1>11 DEF ResetCursor
<1>12. CASE UNCHANGED vars
  BY <1>1, <1>12 DEF vars
<1>13. ASSUME NEW d \in Devices, Abandon(d) PROVE \A s \in Requests : Fresh(req[s])'
  BY <1>5, <1>13
<1>14. CASE \E d \in Devices : UserStep(d) \/ RunStep(d) \/ Abandon(d) \/ ResetCursor(d)
  BY <1>3, <1>6, <1>11, <1>13, <1>14
<1>15. CASE \E s \in Requests : ServerStep(s) \/ Vanish(s) \/ Fail(s)
  BY <1>7, <1>10, <1>15
<1>16. QED BY <1>12, <1>14, <1>15 DEF Next

-----------------------------------------------------------------------------
(* Cursors stay behind.                                                    *)

\* The device's row, its run and its answer stay, or the row becomes an edit.
LEMMA KeptKept ==
  ASSUME NEW d \in Devices, NEW i \in Words, Kept(d, i), row'[i] = row[i],
         db'[d][i] = db[d][i] \/ db'[d][i].dirty, run'[d] = run[d],
         run[d].pc = "merge" => req'[run[d].via] = req[run[d].via]
  PROVE  Kept(d, i)'
<1>1. CASE UpToDate(d, i)
  BY <1>1 DEF Kept, UpToDate
<1>2. CASE db[d][i].dirty
  BY <1>2 DEF Kept
<1>3. CASE AboutToMerge(d, i)
  BY <1>3 DEF Kept, AboutToMerge
<1>4. QED BY <1>1, <1>2, <1>3 DEF Kept

\* A step of the user, of the server, or of another device.
LEMMA BehindKept ==
  ASSUME IInv, CursorInv, Distinct', NEW d \in Devices, run'[d] = run[d],
         cursor'[d] = cursor[d] \/ cursor'[d] = 0,
         run[d].pc \in Holding => req'[run[d].via].since = req[run[d].via].since,
         run[d].pc \in Applying => req'[run[d].via] = req[run[d].via],
         \A i \in Words :
           \/ row'[i] = row[i] /\ (db'[d][i] = db[d][i] \/ db'[d][i].dirty)
           \/ /\ row'[i].rev > cursor[d] /\ row'[i].rev > run[d].rev
              /\ \A s \in Requests : row'[i].rev > req[s].next,
         \A i \in Words : row'[i].rev \in Nat
  PROVE  Behind(d)'
<1>a. TypeOK /\ Behind(d)
  BY DEF IInv, TypeInv, CursorInv
<1>b. /\ cursor[d] \in Nat /\ run[d].rev \in Nat
      /\ \A s \in Requests : req[s].next \in Nat
  BY <1>a, RevTypes
<1>c. run[d].pc \in Holding => run[d].via \in Requests
  BY DEF IInv, TypeInv, OwnSlot
<1>1. ASSUME NEW c \in Nat, Covers(d, c),
             c = cursor[d] \/ c = run[d].rev \/ \E s \in Requests : c = req[s].next
      PROVE  \A i \in Words : Present(row'[i]) /\ row'[i].rev <= c => Kept(d, i)'
  <2>1. TAKE i \in Words
  <2>2. HAVE Present(row'[i]) /\ row'[i].rev <= c
  <2>3. row'[i] = row[i] /\ (db'[d][i] = db[d][i] \/ db'[d][i].dirty)
    BY <1>1, <2>2
  <2>4. Kept(d, i)
    BY <1>1, <2>2, <2>3 DEF Covers
  <2>5. run[d].pc = "merge" => req'[run[d].via] = req[run[d].via]
    BY DEF Applying
  <2>6. QED BY <2>3, <2>4, <2>5, KeptKept
<1>2. \A i \in Words : Present(row'[i]) /\ row'[i].rev <= cursor[d] => Kept(d, i)'
  BY <1>1, <1>a, <1>b DEF Behind
<1>3. \A i \in Words : Present(row'[i]) /\ row'[i].rev <= run[d].rev => Kept(d, i)'
  BY <1>1, <1>a, <1>b DEF Behind
<1>4. run[d].pc = "save" =>
        \A i \in Words : Present(row'[i]) /\ row'[i].rev <= req[run[d].via].next
                           => Kept(d, i)'
  BY <1>1, <1>a, <1>b, <1>c DEF Behind, Holding
<1>5. \A i \in Words : Present(row'[i]) => row'[i].rev > 0
  BY DEF Distinct
<1>6. Covers(d, cursor[d])'
  <2>1. CASE cursor'[d] = cursor[d]
    BY <1>2, <2>1 DEF Covers
  <2>2. CASE cursor'[d] = 0
    BY <1>5, <2>2 DEF Covers
  <2>3. QED BY <2>1, <2>2
<1>7. Covers(d, run[d].rev)'
  BY <1>3 DEF Covers
<1>8. run'[d].pc = "save" => Covers(d, req[run[d].via].next)'
  <2>1. run[d].pc = "save" => req'[run[d].via] = req[run[d].via]
    BY DEF Applying
  <2>2. QED BY <1>4, <2>1 DEF Covers
<1>9. /\ run'[d].pc # Idle => cursor'[d] <= run'[d].rev
      /\ run'[d].pc \in Holding => req'[run'[d].via].since = run'[d].rev
  BY <1>a, <1>b DEF Behind
<1>10. QED BY <1>6, <1>7, <1>8, <1>9 DEF Behind

\* The run ends, not between the two transactions.
LEMMA BehindEnds ==
  ASSUME IInv, CursorInv, NEW d \in Devices, row' = row, cursor' = cursor,
         run'[d] = NoRun, run[d].pc # "merge",
         \A i \in Words : \/ db'[d][i] = db[d][i]
                          \/ /\ db[d][i].del /\ ~db[d][i].dirty
                             /\ db'[d][i] = NoLocalRow
  PROVE  Behind(d)'
<1>a. Behind(d) /\ Distinct /\ \A i \in Words : row[i].rev \in Nat
  BY RevTypes DEF IInv, TypeInv, CursorInv
<1>1. NoRun.pc = Idle /\ NoRun.rev = 0 /\ Idle # "save" /\ Idle \notin Holding
  BY DEF NoRun, Idle, Holding
<1>2. \A i \in Words : UpToDate(d, i) \/ db[d][i].dirty => Kept(d, i)'
  <2>1. TAKE i \in Words
  <2>2. CASE db'[d][i] = db[d][i]
    BY <2>2 DEF Kept, UpToDate
  <2>3. CASE db[d][i].del /\ ~db[d][i].dirty /\ db'[d][i] = NoLocalRow
    <3>1. ~Present(db'[d][i])
      BY <2>3 DEF NoLocalRow, Present
    <3>2. UpToDate(d, i) => row[i].del
      BY <2>3 DEF UpToDate, SameVersion
    <3>3. QED BY <2>3, <3>1, <3>2 DEF Kept, UpToDate
  <2>4. QED BY <2>2, <2>3
<1>3. \A i \in Words : Kept(d, i) => Kept(d, i)'
  BY <1>2 DEF Kept, AboutToMerge
<1>4. Covers(d, cursor[d])'
  BY <1>a, <1>3 DEF Behind, Covers
<1>5. Covers(d, run[d].rev)'
  BY <1>a, <1>1 DEF Covers, Distinct
<1>6. QED BY <1>1, <1>4, <1>5 DEF Behind

\* The run goes on without touching the rows or the cursors.
LEMMA BehindMoves ==
  ASSUME IInv, CursorInv, NEW d \in Devices, UNCHANGED <<row, db, cursor>>,
         run'[d].rev = run[d].rev, run[d].pc \notin {Idle, "merge"},
         run'[d].pc \notin {Idle, "save"},
         run'[d].pc \in Holding => req'[run'[d].via].since = run[d].rev
  PROVE  Behind(d)'
<1>a. Behind(d)
  BY DEF CursorInv
<1>1. \A i \in Words : Kept(d, i) => Kept(d, i)'
  BY DEF Kept, UpToDate, AboutToMerge
<1>2. Covers(d, cursor[d])' /\ Covers(d, run[d].rev)'
  BY <1>a, <1>1 DEF Behind, Covers
<1>3. QED BY <1>a, <1>2 DEF Behind

\* The cursor goes with the run.
LEMMA BehindStarts ==
  ASSUME IInv, CursorInv, NEW d \in Devices, StartRun(d)
  PROVE  Behind(d)'
<1>a. Behind(d) /\ run \in [Devices -> RunType] /\ cursor[d] \in Nat
  BY RevTypes DEF IInv, TypeInv, TypeOK, CursorInv
<1>1. run'[d].pc = "push" /\ run'[d].rev = cursor[d]
  BY <1>a DEF StartRun, NoRun
<1>2. UNCHANGED <<row, db, cursor, req>> /\ run[d].pc # "merge"
  BY DEF StartRun, Idle
<1>3. \A i \in Words : Kept(d, i) => Kept(d, i)'
  BY <1>2 DEF Kept, UpToDate, AboutToMerge
<1>4. Covers(d, cursor[d])' /\ Covers(d, run[d].rev)'
  BY <1>a, <1>1, <1>2, <1>3 DEF Behind, Covers
<1>5. QED BY <1>a, <1>1, <1>2, <1>4 DEF Behind, Holding

\* The answer a device works on, and the cursors it was asked with.
LEMMA AnswerFacts ==
  ASSUME IInv, CursorInv, NEW d \in Devices, run[d].pc \in Applying
  PROVE  /\ run[d].via \in Requests
         /\ req[run[d].via].stage = "pulled" /\ req[run[d].via].todo = {}
         /\ req[run[d].via].since = run[d].rev
         /\ cursor[d] <= run[d].rev /\ run[d].rev <= req[run[d].via].next
         /\ Fresh(req[run[d].via])
<1>1. run[d].pc \in Holding /\ run[d].pc # Idle
  BY DEF Applying, Holding, Idle
<1>2. run[d].via \in Requests /\ Answered(run[d].via)
  BY <1>1 DEF IInv, TypeInv, OwnSlot
<1>3. Fresh(req[run[d].via]) /\ Behind(d)
  BY <1>2 DEF CursorInv
<1>4. QED BY <1>1, <1>2, <1>3 DEF Behind, Fresh, Answered

\* A row that becomes clean has its winner among the canonical rows.
LEMMA BehindMarks ==
  ASSUME IInv, CursorInv, NEW d \in Devices, MarkSynced(d)
  PROVE  Behind(d)'
<1> DEFINE r == req[run[d].via]
<1>a. /\ Behind(d) /\ run \in [Devices -> RunType]
      /\ db \in [Devices -> [Words -> LocalRow]]
      /\ cursor[d] \in Nat /\ run[d].rev \in Nat /\ \A i \in Words : row[i].rev \in Nat
  BY RevTypes DEF IInv, TypeInv, TypeOK, CursorInv
<1>1. /\ run[d].pc = "mark" /\ UNCHANGED <<row, req, cursor>>
      /\ db' = [db EXCEPT ![d] = [i \in Words |->
           IF i \in r.accepted /\ db[d][i].at = r.batch[i].at
           THEN [db[d][i] EXCEPT !.dirty = FALSE]
           ELSE db[d][i]]]
  BY DEF MarkSynced
<1>2. run'[d].pc = "merge" /\ run'[d].via = run[d].via /\ run'[d].rev = run[d].rev
  BY <1>a DEF MarkSynced, RunType
<1>3. /\ run[d].via \in Requests /\ r.stage = "pulled" /\ r.todo = {}
      /\ r.since = run[d].rev /\ cursor[d] <= run[d].rev /\ run[d].rev <= r.next
      /\ Fresh(r) /\ r.next \in Nat
  BY <1>1, AnswerFacts, RevTypes DEF Applying, IInv, TypeInv
<1> HIDE DEF r
<1>4. \A i \in Words : /\ i \notin r.accepted => db'[d][i] = db[d][i]
                       /\ db'[d][i] = db[d][i] \/ i \in r.accepted
  BY <1>1, <1>a
<1>5. ASSUME NEW i \in Words, Present(row[i]), row[i].rev <= run[d].rev, Kept(d, i)
      PROVE  Kept(d, i)'
  <2>1. CASE i \in r.accepted
    <3>1. Present(r.canon[i])
      BY <1>a, <1>3, <1>5, <2>1 DEF Fresh
    <3>2. QED BY <1>1, <1>2, <3>1 DEF Kept, AboutToMerge, r
  <2>2. CASE i \notin r.accepted
    <3>1. db'[d][i] = db[d][i] /\ ~AboutToMerge(d, i)
      BY <1>1, <1>4, <2>2 DEF AboutToMerge
    <3>2. QED BY <1>1, <1>5, <3>1 DEF Kept, UpToDate
  <2>3. QED BY <2>1, <2>2
<1>6. \A i \in Words : Present(row[i]) /\ row[i].rev <= run[d].rev => Kept(d, i)'
  BY <1>a, <1>5 DEF Behind, Covers
<1>7. Covers(d, run[d].rev)'
  BY <1>1, <1>2, <1>6 DEF Covers
<1>8. Covers(d, cursor[d])'
  BY <1>a, <1>1, <1>3, <1>6 DEF Covers
<1>9. r = req'[run'[d].via]
  BY <1>1, <1>2 DEF r
<1>10. QED BY <1>1, <1>2, <1>3, <1>7, <1>8, <1>9 DEF Behind

\* Merging the winner, or the row itself, leaves a clean row up to date.
LEMMA MergeTakes ==
  ASSUME NEW l \in LocalRow, NEW w \in ServerRow, NEW p \in ServerRow,
         Present(w), w.at >= l.at
  PROVE  /\ ~l.dirty => SameVersion(MergeRow(l, w), w) /\ ~MergeRow(l, w).dirty
         /\ ~Present(p) => MergeRow(l, p) = l
         /\ l.dirty => MergeRow(l, p) = l
<1>1. ~l.dirty => MergeRow(l, w) = Clean(w)
  BY DEF MergeRow, LocalRow, ServerRow
<1>2. SameVersion(Clean(w), w) /\ ~Clean(w).dirty
  BY DEF SameVersion, Clean
<1>3. QED BY <1>1, <1>2 DEF MergeRow

\* After the merge the device has every row up to the answer's cursor.
LEMMA MergeCovers ==
  ASSUME IInv, CursorInv, NEW d \in Devices, MergeFromServer(d), NEW i \in Words,
         Present(row[i]), row[i].rev <= req[run[d].via].next
  PROVE  Kept(d, i)'
<1> DEFINE r == req[run[d].via]
           l == db[d][i]
           m == MergeRow(l, r.canon[i])
           n == MergeRow(m, r.page[i])
<1>a. /\ Behind(d) /\ db \in [Devices -> [Words -> LocalRow]]
      /\ row[i] \in ServerRow /\ row[i].rev \in Nat /\ row[i].at \in Nat
      /\ Held(d, i)
  BY RowTypes, RevTypes DEF IInv, LwwInv, TypeInv, TypeOK, CursorInv
<1>1. /\ run[d].pc = "merge" /\ row' = row
      /\ db' = [db EXCEPT ![d] = [j \in Words |->
           MergeRow(MergeRow(db[d][j], req[run[d].via].canon[j]), req[run[d].via].page[j])]]
  BY DEF MergeFromServer
<1>2. db'[d][i] = n
  BY <1>1, <1>a
<1>3. /\ r.stage = "pulled" /\ r.since = run[d].rev
      /\ Fresh(r) /\ r.next \in Nat /\ r.since \in Nat
      /\ r.canon[i] \in ServerRow /\ r.page[i] \in ServerRow
  <2>1. run[d].via \in Requests /\ req[run[d].via] \in RequestType
    BY <1>1, AnswerFacts DEF Applying, IInv, TypeInv, TypeOK
  <2>2. QED BY <1>1, <2>1, AnswerFacts DEF Applying, RequestType
<1>4. /\ Present(r.canon[i]) => r.canon[i] = row[i]
      /\ Present(r.page[i]) => r.page[i] = row[i]
      /\ row[i].rev > r.since => r.page[i] = row[i]
  BY <1>a, <1>3 DEF Fresh
<1>5. l \in LocalRow
  BY <1>a
<1>6. CASE l.dirty
  <2>1. n = l
    BY <1>6 DEF MergeRow
  <2>2. QED BY <1>2, <1>6, <2>1 DEF Kept
<1>7. CASE ~l.dirty
  <2>1. row[i].at >= l.at
    BY <1>a, <1>7 DEF Held, Present, LocalRow
  <2>2. ASSUME NEW k \in LocalRow, ~k.dirty, row[i].at >= k.at, NEW p \in ServerRow,
               Present(p) => p = row[i]
        PROVE  /\ MergeRow(k, p) \in LocalRow /\ ~MergeRow(k, p).dirty
               /\ row[i].at >= MergeRow(k, p).at
               /\ \/ SameVersion(MergeRow(k, p), row[i])
                  \/ ~Present(p) /\ MergeRow(k, p) = k
    <3>1. CASE Present(p)
      <4>1. /\ SameVersion(MergeRow(k, p), row[i]) /\ ~MergeRow(k, p).dirty
            /\ MergeRow(k, p) = Clean(p)
        BY <1>a, <2>2, <3>1, MergeTakes DEF MergeRow, LocalRow
      <4>2. Clean(p) \in LocalRow /\ Clean(p).at = p.at
        BY DEF Clean, LocalRow, ServerRow
      <4>3. QED BY <1>a, <2>2, <3>1, <4>1, <4>2
    <3>2. CASE ~Present(p)
      BY <2>2, <3>2 DEF MergeRow
    <3>3. QED BY <3>1, <3>2
  <2>3. /\ m \in LocalRow /\ ~m.dirty /\ row[i].at >= m.at
        /\ SameVersion(m, row[i]) \/ (~Present(r.canon[i]) /\ m = l)
    BY <1>3, <1>4, <1>5, <1>7, <2>1, <2>2
  <2>4. SameVersion(n, row[i]) \/ (~Present(r.page[i]) /\ n = m)
    BY <1>3, <1>4, <2>2, <2>3
  <2>5. CASE SameVersion(n, row[i])
    BY <1>1, <1>2, <2>5 DEF Kept, UpToDate
  <2>6. CASE SameVersion(m, row[i]) /\ n = m
    BY <2>5, <2>6
  <2>7. CASE ~Present(r.page[i]) /\ n = l /\ ~Present(r.canon[i])
    <3>1. row[i].rev <= run[d].rev
      <4>1. Present(row[i])
        OBVIOUS
      <4>2. QED BY <1>a, <1>3, <1>4, <2>7, <4>1
    <3>2. Kept(d, i) /\ ~AboutToMerge(d, i)
      BY <1>a, <2>7, <3>1 DEF Behind, Covers, AboutToMerge
    <3>3. UpToDate(d, i)
      BY <1>7, <3>2 DEF Kept
    <3>4. QED BY <1>1, <1>2, <2>7, <3>3 DEF Kept, UpToDate
  <2>8. QED BY <2>3, <2>4, <2>5, <2>6, <2>7
<1>8. QED BY <1>6, <1>7, <1>a DEF LocalRow

LEMMA BehindMerges ==
  ASSUME IInv, CursorInv, NEW d \in Devices, MergeFromServer(d)
  PROVE  Behind(d)'
<1>a. /\ run \in [Devices -> RunType] /\ cursor[d] \in Nat /\ run[d].rev \in Nat
      /\ \A i \in Words : row[i].rev \in Nat
  BY RevTypes DEF IInv, TypeInv, TypeOK
<1>1. /\ run[d].pc = "merge" /\ UNCHANGED <<row, req, cursor>>
      /\ run'[d].pc = "save" /\ run'[d].via = run[d].via /\ run'[d].rev = run[d].rev
  BY <1>a DEF MergeFromServer, RunType
<1>2. /\ req[run[d].via].since = run[d].rev /\ cursor[d] <= run[d].rev
      /\ run[d].rev <= req[run[d].via].next /\ req[run[d].via].next \in Nat
  BY <1>1, AnswerFacts, RevTypes DEF Applying, IInv, TypeInv
<1>3. \A i \in Words : Present(row[i]) /\ row[i].rev <= req[run[d].via].next => Kept(d, i)'
  BY MergeCovers
<1>4. Covers(d, req[run[d].via].next)'
  BY <1>1, <1>3 DEF Covers
<1>5. Covers(d, run[d].rev)' /\ Covers(d, cursor[d])'
  BY <1>a, <1>1, <1>2, <1>3 DEF Covers
<1>6. QED BY <1>1, <1>2, <1>4, <1>5 DEF Behind

LEMMA BehindSaves ==
  ASSUME IInv, CursorInv, NEW d \in Devices, SaveCursor(d)
  PROVE  Behind(d)'
<1>a. /\ run \in [Devices -> RunType] /\ cursor \in [Devices -> Nat] /\ Behind(d)
  BY DEF IInv, TypeInv, TypeOK, CursorInv
<1>1. /\ run[d].pc = "save" /\ UNCHANGED <<row, db>>
      /\ run'[d].pc \in {"push", "pull"} /\ run'[d].rev = req[run[d].via].next
      /\ cursor'[d] = req[run[d].via].next
  BY <1>a DEF SaveCursor, RunType
<1>2. req[run[d].via].next \in Nat
  BY <1>1, AnswerFacts, RevTypes DEF Applying, IInv, TypeInv
<1>3. \A i \in Words : Kept(d, i) => Kept(d, i)'
  BY <1>1 DEF Kept, UpToDate, AboutToMerge
<1>4. Covers(d, cursor[d])' /\ Covers(d, run[d].rev)'
  BY <1>a, <1>1, <1>3 DEF Behind, Covers
<1>5. QED BY <1>1, <1>2, <1>4 DEF Behind, Holding

LEMMA BehindServer ==
  ASSUME IInv, CursorInv, Distinct', NEW d \in Devices, NEW s \in Requests, ServerStep(s)
  PROVE  Behind(d)'
<1>a. /\ TypeOK /\ req \in [Requests -> RequestType]
      /\ run[d].pc \in Holding => run[d].via \in Requests
      /\ run[d].pc \in Applying => Answered(run[d].via) /\ run[d].pc \in Holding
  BY DEF IInv, TypeInv, TypeOK, OwnSlot, Applying, Holding
<1>1. UNCHANGED <<db, cursor, run>> /\ (\A t \in Requests : t # s => req'[t] = req[t])
  BY <1>a DEF ServerStep, TakeLock, UpsertRow, FindCanonical, Commit, ChangesSince
<1>2. ~Answered(s)
  BY DEF ServerStep, TakeLock, UpsertRow, FindCanonical, Commit, ChangesSince, Answered
<1>3. req'[s].since = req[s].since
  <2>1. CASE TakeLock(s)
    BY <2>1, <1>a DEF TakeLock, RequestType
  <2>2. CASE \E i \in Words : UpsertRow(s, i)
    BY <2>2, <1>a DEF UpsertRow, RequestType
  <2>3. CASE \E i \in Words : FindCanonical(s, i)
    BY <2>3, <1>a DEF FindCanonical, RequestType
  <2>4. CASE Commit(s)
    BY <2>4, <1>a DEF Commit, RequestType
  <2>5. CASE ChangesSince(s)
    BY <2>5, <1>a DEF ChangesSince, RequestType
  <2>6. QED BY <2>1, <2>2, <2>3, <2>4, <2>5 DEF ServerStep
<1>4. row' = row \/ Commit(s)
  BY DEF ServerStep, TakeLock, UpsertRow, FindCanonical, ChangesSince
<1>5. \A i \in Words :
        /\ row'[i].rev \in Nat
        /\ \/ row'[i] = row[i]
           \/ /\ row'[i].rev > cursor[d] /\ row'[i].rev > run[d].rev
              /\ \A t \in Requests : row'[i].rev > req[t].next
  <2>1. CASE row' = row
    BY <1>a, <2>1, RevTypes
  <2>2. CASE Commit(s)
    <3>1. \A i \in Words : row'[i] = IF Staged(s, i) THEN req[s].staged[i] ELSE row[i]
      BY <2>2, CommitRow
    <3>2. QED BY <1>a, <2>2, <3>1, CommitBeyond, RevTypes
  <2>3. QED BY <1>4, <2>1, <2>2
<1>6. /\ run[d].pc \in Holding => req'[run[d].via].since = req[run[d].via].since
      /\ run[d].pc \in Applying => req'[run[d].via] = req[run[d].via]
  BY <1>a, <1>1, <1>2, <1>3
<1>7. \A i \in Words :
        \/ row'[i] = row[i] /\ (db'[d][i] = db[d][i] \/ db'[d][i].dirty)
        \/ /\ row'[i].rev > cursor[d] /\ row'[i].rev > run[d].rev
           /\ \A t \in Requests : row'[i].rev > req[t].next
  BY <1>1, <1>5
<1>8. QED BY <1>1, <1>5, <1>6, <1>7, BehindKept

LEMMA BehindStep ==
  ASSUME "merge" \notin CrashPoints, IInv, CursorInv, [Next]_vars, NEW d \in Devices
  PROVE  Behind(d)'
<1>a. /\ TypeOK /\ req \in [Requests -> RequestType] /\ run \in [Devices -> RunType]
      /\ db \in [Devices -> [Words -> LocalRow]] /\ cursor \in [Devices -> Nat]
      /\ \A i \in Words : row[i].rev \in Nat
  BY RevTypes DEF IInv, TypeInv, TypeOK
<1>b. Distinct'
  BY DistinctStep DEF CursorInv
<1>c. /\ run[d].pc \in Holding => /\ run[d].via \in Requests
                                  /\ req[run[d].via].stage # "free"
      /\ run[d].via \in Requests => run[d].pc \in Holding
      /\ \A e \in Devices : e # d /\ run[e].via \in Requests => run[e].via # run[d].via
      /\ \A e \in Devices : run[e].pc \in Holding => run[e].via \in Requests
      /\ run[d].pc \in Applying => Answered(run[d].via) /\ run[d].pc \in Holding
  BY DEF IInv, TypeInv, OwnSlot, Holding, Applying
<1>1. ASSUME row' = row, run'[d] = run[d], cursor'[d] = cursor[d] \/ cursor'[d] = 0,
             run[d].pc \in Holding => req'[run[d].via] = req[run[d].via],
             \A i \in Words : db'[d][i] = db[d][i] \/ db'[d][i].dirty
      PROVE  Behind(d)'
  BY <1>1, <1>a, <1>b, <1>c, BehindKept
<1>2. ASSUME NEW e \in Devices, UserStep(e) PROVE Behind(d)'
  <2>1. PICK i \in Words, t \in 1 .. MaxStamp[e], del \in BOOLEAN :
          AddWord(e, i, t) \/ WriteWord(e, i, t, del)
    BY <1>2 DEF UserStep
  <2>2. /\ UNCHANGED <<row, req, cursor, run>>
        /\ \E gone : db' = [db EXCEPT ![e][i] = Unsent(t, e, gone)]
    BY <2>1 DEF AddWord, WriteWord
  <2>3. \A gone : Unsent(t, e, gone).dirty
    BY DEF Unsent
  <2>4. \A j \in Words : db'[d][j] = db[d][j] \/ db'[d][j].dirty
    BY <1>a, <2>2, <2>3
  <2>5. QED BY <1>1, <2>2, <2>4
<1>3. ASSUME NEW e \in Devices, e # d,
             RunStep(e) \/ Abandon(e) \/ ResetCursor(e)
      PROVE  Behind(d)'
  <2>1. row' = row /\ run'[d] = run[d] /\ cursor'[d] = cursor[d] /\ db'[d] = db[d]
    BY <1>3, <1>a DEF RunStep, Abandon, ResetCursor, StartRun, SendBatch, SendPoll, SendPage,
                      EndPush, Receive, MarkSynced, MergeFromServer, SaveCursor, Finish
  <2>2. \A t \in Requests : req'[t] = req[t] \/ req[t].stage = "free" \/ t = run[e].via
    BY <1>3, <1>a DEF RunStep, Abandon, ResetCursor, StartRun, SendBatch, SendPoll, SendPage,
                      EndPush, Receive, MarkSynced, MergeFromServer, SaveCursor, Finish, Send
  <2>3. run[d].pc \in Holding => req'[run[d].via] = req[run[d].via]
    BY <1>3, <1>c, <2>2
  <2>4. QED BY <1>1, <2>1, <2>3
<1>4. ASSUME NEW s \in Requests, SendBatch(d, s) \/ SendPoll(d, s) \/ SendPage(d, s)
      PROVE  Behind(d)'
  <2>1. /\ UNCHANGED <<row, db, cursor>> /\ \E P : Send(d, s, P)
        /\ run[d].pc \in {"push", "pull"}
    BY <1>4 DEF SendBatch, SendPoll, SendPage
  <2>2. run'[d].pc = "await" /\ run'[d].via = s /\ run'[d].rev = run[d].rev
    <3>1. CASE SendBatch(d, s)
      BY <3>1, <1>a DEF SendBatch, RunType
    <3>2. CASE SendPoll(d, s)
      BY <3>2, <1>a DEF SendPoll, RunType
    <3>3. CASE SendPage(d, s)
      BY <3>3, <1>a DEF SendPage, RunType
    <3>4. QED BY <1>4, <3>1, <3>2, <3>3
  <2>3. req'[s].since = run[d].rev
    <3>1. \A P : RequestFor(d, P).since = run[d].rev
      BY DEF RequestFor, FreeRequest
    <3>2. QED BY <1>a, <2>1, <3>1 DEF Send
  <2>4. QED BY <2>1, <2>2, <2>3, BehindMoves DEF Idle
<1>5. ASSUME EndPush(d) \/ Receive(d) PROVE Behind(d)'
  <2>1. UNCHANGED <<row, db, cursor, req>>
    BY <1>5 DEF EndPush, Receive
  <2>2. CASE EndPush(d)
    <3>1. run[d].pc = "push" /\ run'[d].pc = "pull" /\ run'[d].rev = run[d].rev
      BY <2>2, <1>a DEF EndPush, RunType
    <3>2. QED BY <2>1, <3>1, BehindMoves DEF Idle, Holding
  <2>3. CASE Receive(d)
    <3>1. /\ run[d].pc = "await" /\ run'[d].pc \in {"mark", "merge"}
          /\ run'[d].rev = run[d].rev /\ run'[d].via = run[d].via
      BY <2>3, <1>a DEF Receive, RunType
    <3>2. req[run[d].via].since = run[d].rev
      BY <3>1 DEF CursorInv, Behind, Holding
    <3>3. QED BY <2>1, <3>1, <3>2, BehindMoves DEF Idle
  <2>4. QED BY <1>5, <2>2, <2>3
<1>6. ASSUME Finish(d) PROVE Behind(d)'
  <2>1. /\ row' = row /\ cursor' = cursor /\ run'[d] = NoRun /\ run[d].pc # "merge"
        /\ \A i \in Words : db'[d][i] =
             IF db[d][i].del /\ ~db[d][i].dirty THEN NoLocalRow ELSE db[d][i]
    BY <1>6, <1>a DEF Finish
  <2>2. QED BY <2>1, BehindEnds
<1>7. ASSUME Abandon(d) PROVE Behind(d)'
  <2>1. UNCHANGED <<row, db, cursor>> /\ run'[d] = NoRun /\ run[d].pc # "merge"
    BY <1>7, <1>a DEF Abandon
  <2>2. QED BY <2>1, BehindEnds
<1>8. ASSUME ResetCursor(d) PROVE Behind(d)'
  <2>1. UNCHANGED <<row, db, run, req>> /\ cursor'[d] = 0
    BY <1>8, <1>a DEF ResetCursor
  <2>2. QED BY <1>1, <2>1
<1>9. ASSUME RunStep(d) PROVE Behind(d)'
  BY <1>4, <1>5, <1>6, <1>9, BehindStarts, BehindMarks, BehindMerges, BehindSaves DEF RunStep
<1>10. ASSUME NEW s \in Requests, Vanish(s) PROVE Behind(d)'
  <2>1. UNCHANGED <<row, db, cursor, run>> /\ run[d].via # s
    BY <1>10 DEF Vanish, Orphan
  <2>2. \A t \in Requests : t # s => req'[t] = req[t]
    BY <1>10, <1>a DEF Vanish
  <2>3. QED BY <1>1, <1>c, <2>1, <2>2
<1>11. ASSUME NEW s \in Requests, Fail(s) PROVE Behind(d)'
  <2>1. /\ UNCHANGED <<row, db, cursor>> /\ ~Answered(s)
        /\ run'[d] = IF run[d].via = s THEN NoRun ELSE run[d]
        /\ \A t \in Requests : t # s => req'[t] = req[t]
    BY <1>11, <1>a DEF Fail
  <2>2. CASE run[d].via = s
    <3>1. run[d].pc # "merge"
      BY <1>c, <2>1, <2>2 DEF Applying
    <3>2. QED BY <2>1, <2>2, <3>1, BehindEnds
  <2>3. CASE run[d].via # s
    BY <1>1, <1>c, <2>1, <2>3
  <2>4. QED BY <2>2, <2>3
<1>12. CASE UNCHANGED vars
  BY <1>1, <1>12 DEF vars
<1>13. CASE \E e \in Devices : UserStep(e) \/ RunStep(e) \/ Abandon(e) \/ ResetCursor(e)
  BY <1>2, <1>3, <1>7, <1>8, <1>9, <1>13
<1>14. CASE \E s \in Requests : ServerStep(s) \/ Vanish(s) \/ Fail(s)
  BY <1>b, <1>10, <1>11, <1>14, BehindServer
<1>15. QED BY <1>12, <1>13, <1>14 DEF Next

-----------------------------------------------------------------------------
(***************************************************************************)
(* When no run is cut between the two transactions that mark the pushed    *)
(* rows and merge the answer, the pull cursor never passes a row: pages,   *)
(* canonical rows, retries, resets and the order of the merge leave no row *)
(* behind that the device would not ask for again.                         *)
(***************************************************************************)
THEOREM CursorNeverPassesARow ==
  ASSUME "merge" \notin CrashPoints
  PROVE  Spec => []CaughtUp
<1>1. IInv /\ CursorInv /\ [Next]_vars => CursorInv'
  <2>1. IInv /\ CursorInv /\ [Next]_vars => (\A d \in Devices : Behind(d))'
    BY BehindStep
  <2>2. IInv /\ CursorInv /\ [Next]_vars => Distinct'
    BY DistinctStep DEF CursorInv
  <2>3. QED BY <2>1, <2>2, FreshStep DEF CursorInv
<1>2. Spec => []CursorInv
  BY Inductive, InitCursor, <1>1, PTL DEF Spec
<1>3. CursorInv => CaughtUp
  BY DEF CursorInv, Behind, Covers, Kept, CaughtUp
<1>4. QED BY <1>2, <1>3, PTL
=============================================================================
