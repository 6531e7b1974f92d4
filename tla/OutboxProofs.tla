---------------------------- MODULE OutboxProofs ----------------------------
(***************************************************************************)
(* Proofs about the outbox and its consumers, for any finite numbers of    *)
(* events and of server processes, any set of consumers, every batch size, *)
(* retry limit and number of faults, and both buses.                       *)
(***************************************************************************)
EXTENDS OutboxProps, FiniteSetTheorems, TLAPS

\* Nothing is known of an event before its command's transaction commits.
Committed ==
  \A e \in Events : event[e].status = "none" =>
    event[e].retry = 0 /\ \A w \in Workers : e \notin worker[w].batch

\* What a worker is about to mark published was taken by the bus.
Acknowledged ==
  \A w \in Workers :
    worker[w].pc = "accepted" /\ Bus = "nats" => sent[Current(w)] > 0

\* A consumer works on a message, and records what it has handled.
Consuming ==
  \A k \in Consumers :
    /\ consumer[k].pc # "wait" => consumer[k].msg \in Message
    /\ consumer[k].pc = "record" => <<consumer[k].msg, k>> \in handled

\* The workers that had e refused and have yet to mark it.
Refusals(e) == { w \in Workers : worker[w].pc = "refused" /\ Current(w) = e }

\* Every refusal is counted in the row at most once.
Tried == \A e \in Events : event[e].retry + Cardinality(Refusals(e)) <= refused[e]

\* w is past its publication of e.
Past(w, e) == worker[w].pc \in {"accepted", "refused"} /\ Current(w) = e

\* The workers that may publish e although nothing fails any more: e is in
\* their batch, or they may still fetch it.
Able(e) ==
  { w \in Workers :
      \/ e \in worker[w].batch /\ ~Past(w, e)
      \/ event[e].status = "none"
      \/ event[e].status = "pending" /\ ~(worker[w].pc = "accepted" /\ Current(w) = e) }

\* A fault lets every worker publish once more.  A refusal does so when it is
\* marked: then the event may be pending again.
Rounds(e) == 1 + faults - Cardinality(Refusals(e))

Accounted ==
  \A e \in Events :
    sent[e] + Cardinality(Able(e)) <= Cardinality(Workers) * Rounds(e)

IInv == /\ TypeOK /\ Committed /\ Acknowledged /\ Consuming
        /\ MarksAreTrue /\ Tried /\ Accounted

-----------------------------------------------------------------------------
(* Numbers and sets.                                                       *)

\* A set of natural numbers has a least element.
LEMMA MinIn ==
  ASSUME NEW S \in SUBSET Nat, S # {}
  PROVE  Min(S) \in S
<1>1. PICK less : less = { p \in Nat \X Nat : p[1] < p[2] }
  OBVIOUS
<1>2. IsWellFoundedOn(less, Nat)
  BY <1>1, NatLessThanWellFounded DEF OpToRel
<1>3. PICK x \in S : \A y \in S : ~(<<y, x>> \in less)
  BY <1>2, WFMin
<1>4. ASSUME NEW y \in S PROVE ~(y < x)
  <2>1. PICK p : p = <<y, x>>
    OBVIOUS
  <2>2. y \in Nat /\ x \in Nat /\ p \in Nat \X Nat /\ p[1] = y /\ p[2] = x
    BY <2>1
  <2>3. p \notin less
    BY <1>3, <2>1
  <2>4. QED BY <1>1, <2>2, <2>3
<1>5. \A y \in S : x =< y
  BY <1>3, <1>4
<1>6. QED BY <1>5 DEF Min

LEMMA Product ==
  ASSUME NEW n \in Nat, NEW k \in Int, NEW m \in Int
  PROVE  /\ k <= m => n * k <= n * m
         /\ k < m => n * k + n <= n * m
<1>1. n * m = n * k + n * (m - k)
  OBVIOUS
<1>2. k <= m => n * (m - k) >= 0
  OBVIOUS
<1>3. k < m => n * (m - k) = n + n * (m - k - 1) /\ n * (m - k - 1) >= 0
  OBVIOUS
<1>4. QED BY <1>1, <1>2, <1>3

\* The sets that are counted are finite.
LEMMA Counts ==
  ASSUME NEW e
  PROVE  /\ IsFiniteSet(Workers) /\ Cardinality(Workers) \in Nat
         /\ IsFiniteSet(Able(e)) /\ Cardinality(Able(e)) \in Nat
         /\ Cardinality(Able(e)) <= Cardinality(Workers)
         /\ IsFiniteSet(Refusals(e)) /\ Cardinality(Refusals(e)) \in Nat
         /\ IsFiniteSet(Able(e)') /\ Cardinality(Able(e)') \in Nat
         /\ Cardinality(Able(e)') <= Cardinality(Workers)
         /\ IsFiniteSet(Refusals(e)') /\ Cardinality(Refusals(e)') \in Nat
<1>1. IsFiniteSet(Workers)
  BY OutboxAssumption
<1>2. /\ Able(e) \in SUBSET Workers /\ Refusals(e) \in SUBSET Workers
      /\ Able(e)' \in SUBSET Workers /\ Refusals(e)' \in SUBSET Workers
  BY DEF Able, Refusals
<1>3. ASSUME NEW S \in SUBSET Workers
      PROVE  /\ IsFiniteSet(S) /\ Cardinality(S) \in Nat
             /\ Cardinality(S) <= Cardinality(Workers)
  BY <1>1, FS_Subset, FS_CardinalityType
<1>4. QED BY <1>1, <1>2, <1>3, FS_CardinalityType

\* The two ways in which the account of the publications of e stays in order.
LEMMA AccountKept ==
  ASSUME IInv, NEW e \in Events, sent'[e] \in Nat, faults' \in Nat,
         sent'[e] + Cardinality(Able(e)') <= sent[e] + Cardinality(Able(e)),
         Rounds(e) <= Rounds(e)'
  PROVE  sent'[e] + Cardinality(Able(e)') <= Cardinality(Workers) * Rounds(e)'
<1>1. PICK n, r, q : n = Cardinality(Workers) /\ r = Rounds(e) /\ q = Rounds(e)'
  OBVIOUS
<1>2. n \in Nat /\ r \in Int /\ q \in Int /\ r <= q
  BY <1>1, Counts DEF Rounds, IInv, TypeOK
<1>3. n * r <= n * q /\ n * r \in Int /\ n * q \in Int
  BY <1>2, Product
<1>4. sent[e] + Cardinality(Able(e)) <= n * r
  BY <1>1 DEF IInv, Accounted
<1>5. sent[e] \in Nat
  BY DEF IInv, TypeOK
<1>6. QED BY <1>1, <1>3, <1>4, <1>5, Counts

LEMMA AccountGrown ==
  ASSUME IInv, NEW e \in Events, sent'[e] = sent[e], faults' \in Nat,
         Rounds(e) < Rounds(e)'
  PROVE  sent'[e] + Cardinality(Able(e)') <= Cardinality(Workers) * Rounds(e)'
<1>1. PICK n, r, q : n = Cardinality(Workers) /\ r = Rounds(e) /\ q = Rounds(e)'
  OBVIOUS
<1>2. n \in Nat /\ r \in Int /\ q \in Int /\ r < q
  BY <1>1, Counts DEF Rounds, IInv, TypeOK
<1>3. n * r + n <= n * q /\ n * r \in Int /\ n * q \in Int
  BY <1>2, Product
<1>4. sent[e] + Cardinality(Able(e)) <= n * r
  BY <1>1 DEF IInv, Accounted
<1>5. sent[e] \in Nat
  BY DEF IInv, TypeOK
<1>6. Cardinality(Able(e)') <= n /\ Cardinality(Able(e)') \in Nat /\ Cardinality(Able(e)) \in Nat
  BY <1>1, Counts
<1>7. QED BY <1>1, <1>2, <1>3, <1>4, <1>5, <1>6

\* A worker that is publishing or marking has a current event, which its
\* command has committed.
LEMMA CurrentEvent ==
  ASSUME IInv, NEW w \in Workers, worker[w].pc \in {"publish", "accepted", "refused"}
  PROVE  /\ Current(w) \in Events /\ Current(w) \in worker[w].batch
         /\ event[Current(w)].status # "none"
<1>1. worker[w].batch \subseteq Events /\ worker[w].batch # {}
  BY DEF IInv, TypeOK
<1>2. Current(w) \in worker[w].batch
  BY <1>1, OutboxAssumption, MinIn DEF Current
<1>3. QED BY <1>1, <1>2 DEF IInv, Committed

-----------------------------------------------------------------------------
(* The consumers.                                                          *)

\* A step of the consumers, or any other that leaves the outbox alone.
LEMMA OutboxUntouched ==
  ASSUME IInv, UNCHANGED outbox, faults' \in Nat, faults <= faults'
  PROVE  /\ Committed' /\ Acknowledged' /\ Tried' /\ Accounted'
         /\ \A e \in Events :
              /\ Bus = "nats" /\ event'[e].status = "published" => sent'[e] > 0
              /\ event'[e].retry <= refused'[e]
              /\ event'[e].status = "failed" => event'[e].retry >= MaxRetries
              /\ event'[e].status = "pending" => event'[e].retry < MaxRetries
<1>1. UNCHANGED <<event, worker, sent, refused>>
  BY DEF outbox
<1>2. \A e : Able(e)' = Able(e) /\ Refusals(e)' = Refusals(e)
  BY <1>1 DEF Able, Refusals, Past, Current
<1>3. Committed' /\ Acknowledged' /\ Tried'
  BY <1>1, <1>2 DEF IInv, Committed, Acknowledged, Tried, Current
<1>4. Accounted'
  <2> SUFFICES ASSUME NEW e \in Events
               PROVE  sent'[e] + Cardinality(Able(e)') <= Cardinality(Workers) * Rounds(e)'
    BY DEF Accounted
  <2>1. sent'[e] \in Nat /\ sent'[e] = sent[e] /\ faults \in Nat
    BY <1>1 DEF IInv, TypeOK
  <2>2. Rounds(e) <= Rounds(e)'
    BY <1>2, <2>1, Counts DEF Rounds
  <2>3. sent'[e] + Cardinality(Able(e)') <= sent[e] + Cardinality(Able(e))
    BY <1>2, <2>1, Counts
  <2>4. QED BY <2>1, <2>2, <2>3, AccountKept
<1>5. QED BY <1>1, <1>3, <1>4 DEF IInv, MarksAreTrue

\* What is left to show of a step of a consumer.
LEMMA ConsumerStep ==
  ASSUME IInv, UNCHANGED outbox, faults' \in 0 .. MaxFaults, faults <= faults',
         queue' \in [Consumers -> SUBSET Message],
         consumer' \in [Consumers -> [pc : {"wait", "handle", "record"},
                                      msg : Message \cup {NoMessage}]],
         inbox' \subseteq Message, handled' \subseteq Message \X Consumers,
         handled \subseteq handled', Consuming',
         \A m \in inbox' : \E k \in Consumers : <<m, k>> \in handled'
  PROVE  IInv'
<1>1. TypeOK'
  BY DEF IInv, TypeOK, outbox
<1>2. faults' \in Nat
  BY OutboxAssumption
<1>3. QED BY <1>1, <1>2, OutboxUntouched DEF IInv, MarksAreTrue

LEMMA FaultBounds ==
  ASSUME IInv
  PROVE  /\ faults \in 0 .. MaxFaults /\ faults \in Nat
         /\ Fault => faults' = faults + 1 /\ faults' \in 0 .. MaxFaults /\ faults' \in Nat
BY OutboxAssumption DEF Fault, IInv, TypeOK

\* The record of a consumer.
ConsumerType == [pc : {"wait", "handle", "record"}, msg : Message \cup {NoMessage}]

LEMMA WaitingType == Waiting \in ConsumerType /\ Waiting.pc = "wait"
BY DEF Waiting, ConsumerType

LEMMA ReceiveStep ==
  ASSUME IInv, NEW k \in Consumers, Receive(k)
  PROVE  IInv'
<1>1. PICK m \in queue[k] :
        /\ queue' = [queue EXCEPT ![k] = @ \ {m}]
        /\ \/ UNCHANGED consumer
           \/ consumer' = [consumer EXCEPT ![k] = [pc |-> "handle", msg |-> m]]
        /\ UNCHANGED <<outbox, inbox, handled, faults>>
  BY DEF Receive
<1>2. /\ queue \in [Consumers -> SUBSET Message] /\ consumer \in [Consumers -> ConsumerType]
      /\ inbox \subseteq Message /\ handled \subseteq Message \X Consumers
  BY DEF IInv, TypeOK, ConsumerType
<1>3. queue' \in [Consumers -> SUBSET Message]
  BY <1>1, <1>2
<1>4. PICK c : c = [pc |-> "handle", msg |-> m]
  OBVIOUS
<1>5. c \in ConsumerType /\ c.pc = "handle" /\ c.msg \in Message
  BY <1>1, <1>2, <1>4 DEF ConsumerType
<1>6. \A j \in Consumers : consumer'[j] = consumer[j] \/ consumer'[j] = c
  BY <1>1, <1>2, <1>4
<1>7. consumer' \in [Consumers -> ConsumerType]
  BY <1>1, <1>2, <1>4, <1>5
<1>8. Consuming'
  BY <1>1, <1>5, <1>6 DEF IInv, Consuming
<1>9. \A x \in inbox' : \E j \in Consumers : <<x, j>> \in handled'
  BY <1>1 DEF IInv, MarksAreTrue
<1>10. faults' \in 0 .. MaxFaults /\ faults <= faults' /\ handled' = handled
  BY <1>1, FaultBounds
<1>11. QED
  BY <1>1, <1>2, <1>3, <1>7, <1>8, <1>9, <1>10, ConsumerStep DEF ConsumerType

LEMMA HandleStep ==
  ASSUME IInv, NEW k \in Consumers, Handle(k)
  PROVE  IInv'
<1>1. PICK c, d : c = consumer[k] /\ d = [c EXCEPT !.pc = "record"]
  OBVIOUS
<1>2. /\ c.pc = "handle" /\ handled' = handled \cup {<<c.msg, k>>}
      /\ consumer' = [consumer EXCEPT ![k] = d]
      /\ UNCHANGED <<outbox, queue, inbox, faults>>
  BY <1>1 DEF Handle
<1>3. /\ queue \in [Consumers -> SUBSET Message] /\ consumer \in [Consumers -> ConsumerType]
      /\ inbox \subseteq Message /\ handled \subseteq Message \X Consumers
  BY DEF IInv, TypeOK, ConsumerType
<1>4. c \in ConsumerType /\ c.msg \in Message
  BY <1>1, <1>2, <1>3 DEF IInv, Consuming
<1>5. d \in ConsumerType /\ d.pc = "record" /\ d.msg = c.msg
  BY <1>1, <1>4 DEF ConsumerType
<1>6. consumer' \in [Consumers -> ConsumerType] /\ handled' \subseteq Message \X Consumers
  BY <1>2, <1>3, <1>4, <1>5
<1>7. \A j \in Consumers : consumer'[j] = IF j = k THEN d ELSE consumer[j]
  BY <1>2, <1>3
<1>8. Consuming'
  BY <1>2, <1>4, <1>5, <1>7 DEF IInv, Consuming
<1>9. \A x \in inbox' : \E j \in Consumers : <<x, j>> \in handled'
  BY <1>2 DEF IInv, MarksAreTrue
<1>10. faults' \in 0 .. MaxFaults /\ faults <= faults' /\ handled \subseteq handled'
  BY <1>2, FaultBounds
<1>11. QED
  BY <1>2, <1>3, <1>6, <1>8, <1>9, <1>10, ConsumerStep DEF ConsumerType

LEMMA RecordStep ==
  ASSUME IInv, NEW k \in Consumers, Record(k)
  PROVE  IInv'
<1>1. PICK m : m = consumer[k].msg
  OBVIOUS
<1>2. /\ consumer[k].pc = "record" /\ inbox' = inbox \cup {m}
      /\ consumer' = [consumer EXCEPT ![k] = Waiting]
      /\ UNCHANGED <<outbox, queue, handled, faults>>
  BY <1>1 DEF Record, MessageId
<1>3. m \in Message /\ <<m, k>> \in handled
  BY <1>1, <1>2 DEF IInv, Consuming
<1>4. /\ queue \in [Consumers -> SUBSET Message] /\ consumer \in [Consumers -> ConsumerType]
      /\ inbox \subseteq Message /\ handled \subseteq Message \X Consumers
  BY DEF IInv, TypeOK, ConsumerType
<1>5. consumer' \in [Consumers -> ConsumerType] /\ inbox' \subseteq Message
  BY <1>2, <1>3, <1>4, WaitingType
<1>6. \A j \in Consumers : consumer'[j] = IF j = k THEN Waiting ELSE consumer[j]
  BY <1>2, <1>4
<1>7. Consuming'
  BY <1>2, <1>6, WaitingType DEF IInv, Consuming
<1>8. \A x \in inbox' : \E j \in Consumers : <<x, j>> \in handled'
  BY <1>2, <1>3 DEF IInv, MarksAreTrue
<1>9. faults' \in 0 .. MaxFaults /\ faults <= faults' /\ handled' = handled
  BY <1>2, FaultBounds
<1>10. QED
  BY <1>2, <1>4, <1>5, <1>7, <1>8, <1>9, ConsumerStep DEF ConsumerType

\* A message is lost in a consumer, or with it.
LEMMA LostStep ==
  ASSUME IInv, NEW k \in Consumers, Drop(k) \/ Disconnect(k)
  PROVE  IInv'
<1>1. /\ Fault /\ consumer' = [consumer EXCEPT ![k] = Waiting]
      /\ queue' = queue \/ queue' = [queue EXCEPT ![k] = {}]
      /\ UNCHANGED <<outbox, inbox, handled>>
  BY DEF Drop, Disconnect
<1>2. /\ queue \in [Consumers -> SUBSET Message] /\ consumer \in [Consumers -> ConsumerType]
      /\ inbox \subseteq Message /\ handled \subseteq Message \X Consumers
  BY DEF IInv, TypeOK, ConsumerType
<1>3. consumer' \in [Consumers -> ConsumerType] /\ queue' \in [Consumers -> SUBSET Message]
  BY <1>1, <1>2, WaitingType
<1>4. \A j \in Consumers : consumer'[j] = IF j = k THEN Waiting ELSE consumer[j]
  BY <1>1, <1>2
<1>5. Consuming'
  BY <1>1, <1>4, WaitingType DEF IInv, Consuming
<1>6. \A x \in inbox' : \E j \in Consumers : <<x, j>> \in handled'
  BY <1>1 DEF IInv, MarksAreTrue
<1>7. faults' \in 0 .. MaxFaults /\ faults <= faults' /\ handled' = handled
  BY <1>1, FaultBounds
<1>8. QED
  BY <1>1, <1>2, <1>3, <1>5, <1>6, <1>7, ConsumerStep DEF ConsumerType

-----------------------------------------------------------------------------
(* The workers.                                                            *)

WorkerType ==
  [ pc : {"sleep", "publish", "accepted", "refused", "down"}, batch : SUBSET Events ]

\* The record of a worker: no batch when it sleeps or is down.
Whole(x) == x \in WorkerType /\ (x.pc \in {"sleep", "down"} <=> x.batch = {})

LEMMA RestingType == Whole(Resting) /\ Resting.pc = "sleep" /\ Resting.batch = {}
BY DEF Whole, Resting, WorkerType

\* What is left to show of a step of the worker w that makes of it x.
LEMMA WorkerStep ==
  ASSUME IInv, NEW w \in Workers, NEW x, Whole(x),
         worker' = [worker EXCEPT ![w] = x],
         event' \in [Events -> OutboxEvent], sent' \in [Events -> Nat],
         refused' \in [Events -> Nat], queue' \in [Consumers -> SUBSET Message],
         UNCHANGED <<consumer, inbox, handled>>, faults' \in 0 .. MaxFaults,
         Acknowledged', Tried', Accounted',
         \A e \in Events : event'[e].status = "none" =>
           event[e] = event'[e] /\ e \notin x.batch,
         \A e \in Events :
           /\ Bus = "nats" /\ event'[e].status = "published" => sent'[e] > 0
           /\ event'[e].status = "failed" => event'[e].retry >= MaxRetries
           /\ event'[e].status = "pending" => event'[e].retry < MaxRetries
  PROVE  IInv'
<1>1. worker \in [Workers -> WorkerType]
  BY DEF IInv, TypeOK, WorkerType
<1>2. \A v \in Workers : worker'[v] = IF v = w THEN x ELSE worker[v]
  BY <1>1
<1>3. worker' \in [Workers -> WorkerType]
  BY <1>1 DEF Whole
<1>4. \A v \in Workers : worker'[v].pc \in {"sleep", "down"} <=> worker'[v].batch = {}
  BY <1>2 DEF IInv, TypeOK, Whole
<1>5. TypeOK'
  BY <1>3, <1>4 DEF IInv, TypeOK, WorkerType
<1>6. Committed'
  BY <1>2 DEF IInv, Committed
<1>7. Consuming'
  BY DEF IInv, Consuming
<1>8. \A e \in Events : event'[e].retry <= refused'[e]
  <2> SUFFICES ASSUME NEW e \in Events PROVE event'[e].retry <= refused'[e]
    OBVIOUS
  <2>1. event'[e].retry \in Nat /\ refused'[e] \in Nat
    BY DEF OutboxEvent
  <2>2. event'[e].retry + Cardinality(Refusals(e)') <= refused'[e]
    BY DEF Tried
  <2>3. QED BY <2>1, <2>2, Counts
<1>9. \A m \in inbox' : \E k \in Consumers : <<m, k>> \in handled'
  BY DEF IInv, MarksAreTrue
<1>10. MarksAreTrue'
  BY <1>8, <1>9 DEF MarksAreTrue
<1>11. QED BY <1>5, <1>6, <1>7, <1>10 DEF IInv

\* The other workers stand where they stood.
LEMMA Others ==
  ASSUME IInv, NEW w \in Workers, NEW x, worker' = [worker EXCEPT ![w] = x]
  PROVE  /\ worker'[w] = x
         /\ \A v \in Workers \ {w} : worker'[v] = worker[v] /\ Current(v)' = Current(v)
BY DEF IInv, TypeOK, Current

LEMMA SameRefusals ==
  ASSUME IInv, NEW w \in Workers, NEW x, worker' = [worker EXCEPT ![w] = x],
         NEW e, w \in Refusals(e)' <=> w \in Refusals(e)
  PROVE  Refusals(e)' = Refusals(e)
<1>1. ASSUME NEW v \in Workers \ {w} PROVE v \in Refusals(e)' <=> v \in Refusals(e)
  BY Others DEF Refusals
<1>2. Refusals(e)' \subseteq Workers /\ Refusals(e) \subseteq Workers
  BY DEF Refusals
<1>3. QED BY <1>1, <1>2

\* No other worker is able to publish what it was not able to.
LEMMA AbleOthers ==
  ASSUME IInv, NEW w \in Workers, NEW x, worker' = [worker EXCEPT ![w] = x],
         NEW e, event'[e].status = event[e].status \/ event'[e].status = "published",
         w \in Able(e)' => w \in Able(e)
  PROVE  Able(e)' \subseteq Able(e)
<1>1. ASSUME NEW v \in Workers \ {w}, v \in Able(e)' PROVE v \in Able(e)
  <2>1. worker'[v] = worker[v] /\ Current(v)' = Current(v)
    BY Others
  <2>2. Past(v, e)' <=> Past(v, e)
    BY <2>1 DEF Past
  <2>3. QED BY <1>1, <2>1, <2>2 DEF Able
<1>2. Able(e)' \subseteq Workers
  BY DEF Able
<1>3. QED BY <1>1, <1>2

\* What the bus took it has taken.
LEMMA AcknowledgedStep ==
  ASSUME IInv, NEW w \in Workers, NEW x, worker' = [worker EXCEPT ![w] = x],
         \A e : sent[e] > 0 => sent'[e] > 0,
         worker'[w].pc = "accepted" /\ Bus = "nats" => sent'[Current(w)'] > 0
  PROVE  Acknowledged'
<1>1. ASSUME NEW v \in Workers, worker'[v].pc = "accepted", Bus = "nats"
      PROVE  sent'[Current(v)'] > 0
  <2>1. CASE v = w
    BY <1>1, <2>1
  <2>2. CASE v # w
    <3>1. worker'[v] = worker[v] /\ Current(v)' = Current(v)
      BY <2>2, Others
    <3>2. sent[Current(v)] > 0
      BY <1>1, <3>1 DEF IInv, Acknowledged
    <3>3. QED BY <3>1, <3>2
  <2>3. QED BY <2>1, <2>2
<1>2. QED BY <1>1 DEF Acknowledged

\* e can only be published by those that could already.
LEMMA AccountShrunk ==
  ASSUME IInv, NEW e \in Events, Able(e)' \subseteq Able(e),
         Refusals(e)' \subseteq Refusals(e),
         sent'[e] = sent[e], faults' \in Nat, faults <= faults'
  PROVE  sent'[e] + Cardinality(Able(e)') <= Cardinality(Workers) * Rounds(e)'
<1>1. /\ Cardinality(Able(e)') <= Cardinality(Able(e))
      /\ Cardinality(Refusals(e)') <= Cardinality(Refusals(e))
  BY Counts, FS_Subset
<1>2. sent[e] \in Nat /\ faults \in Nat
  BY DEF IInv, TypeOK
<1>3. Rounds(e) <= Rounds(e)'
  BY <1>1, <1>2, Counts DEF Rounds
<1>4. QED BY <1>1, <1>2, <1>3, Counts, AccountKept

LEMMA DispatchStep ==
  ASSUME IInv, NEW w \in Workers, DispatchBatch(w)
  PROVE  IInv'
<1>1. PICK x : x = [pc |-> "publish", batch |-> FetchPending]
  OBVIOUS
<1>2. /\ worker[w].pc = "sleep" /\ FetchPending # {} /\ worker' = [worker EXCEPT ![w] = x]
      /\ UNCHANGED <<event, sent, refused, queue, consumer, inbox, handled, faults>>
  BY <1>1 DEF DispatchBatch, consuming
<1>3. /\ x.pc = "publish" /\ x.batch \subseteq Events
      /\ \A e \in x.batch : event[e].status = "pending"
  BY <1>1 DEF FetchPending, Pending
<1>4. Whole(x)
  BY <1>1, <1>2, <1>3 DEF Whole, WorkerType
<1>5. ASSUME NEW e \in Events PROVE Refusals(e)' = Refusals(e)
  <2>1. w \notin Refusals(e) /\ w \notin Refusals(e)'
    BY <1>2, <1>3, Others DEF Refusals
  <2>2. QED BY <1>2, <2>1, SameRefusals
<1>6. ASSUME NEW e \in Events PROVE Able(e)' \subseteq Able(e)
  <2>1. worker'[w] = x
    BY <1>2, Others
  <2>2. w \in Able(e)' => w \in Able(e)
    BY <1>2, <1>3, <2>1 DEF Able, Past
  <2>3. event'[e].status = event[e].status \/ event'[e].status = "published"
    BY <1>2
  <2>4. QED BY <1>2, <2>2, <2>3, AbleOthers
<1>7. Tried'
  BY <1>2, <1>5 DEF IInv, Tried
<1>8. Accounted'
  BY <1>2, <1>5, <1>6, FaultBounds, AccountShrunk DEF Accounted
<1>9. Acknowledged'
  BY <1>2, <1>3, Others, AcknowledgedStep
<1>10. QED BY <1>2, <1>3, <1>4, <1>7, <1>8, <1>9, WorkerStep DEF IInv, TypeOK, MarksAreTrue

LEMMA StartStep ==
  ASSUME IInv, NEW w \in Workers, Start(w)
  PROVE  IInv'
<1>1. PICK x : x = Resting
  OBVIOUS
<1>2. /\ worker[w].pc = "down" /\ worker' = [worker EXCEPT ![w] = x]
      /\ UNCHANGED <<event, sent, refused, queue, consumer, inbox, handled, faults>>
  BY <1>1 DEF Start, consuming
<1>3. Whole(x) /\ x.pc = "sleep" /\ x.batch = {}
  BY <1>1, RestingType
<1>4. ASSUME NEW e \in Events PROVE Refusals(e)' = Refusals(e)
  <2>1. w \notin Refusals(e) /\ w \notin Refusals(e)'
    BY <1>2, <1>3, Others DEF Refusals
  <2>2. QED BY <1>2, <2>1, SameRefusals
<1>5. ASSUME NEW e \in Events PROVE Able(e)' \subseteq Able(e)
  <2>1. worker'[w] = x
    BY <1>2, Others
  <2>2. w \in Able(e)' => w \in Able(e)
    BY <1>2, <1>3, <2>1 DEF Able, Past
  <2>3. event'[e].status = event[e].status \/ event'[e].status = "published"
    BY <1>2
  <2>4. QED BY <1>2, <2>2, <2>3, AbleOthers
<1>6. Tried'
  BY <1>2, <1>4 DEF IInv, Tried
<1>7. Accounted'
  BY <1>2, <1>4, <1>5, FaultBounds, AccountShrunk DEF Accounted
<1>8. Acknowledged'
  BY <1>2, <1>3, Others, AcknowledgedStep
<1>9. QED BY <1>2, <1>3, <1>6, <1>7, <1>8, WorkerStep DEF IInv, TypeOK, MarksAreTrue

\* A mark fails, or a process goes down: its batch is forgotten.
LEMMA ForgetStep ==
  ASSUME IInv, NEW w \in Workers, MarkError(w) \/ Stop(w)
  PROVE  IInv'
<1>1. PICK x : /\ worker' = [worker EXCEPT ![w] = x]
               /\ x = Resting \/ x = [pc |-> "down", batch |-> {}]
  BY DEF MarkError, Stop
<1>2. Fault /\ UNCHANGED <<event, sent, refused, queue, consumer, inbox, handled>>
  BY DEF MarkError, Stop, consuming
<1>3. Whole(x) /\ x.pc \in {"sleep", "down"} /\ x.batch = {}
  BY <1>1, RestingType DEF Whole, WorkerType
<1>4. \A e \in Events : Refusals(e)' \subseteq Refusals(e)
  BY <1>1, <1>3, Others DEF Refusals
<1>5. \A e \in Events : Cardinality(Refusals(e)') <= Cardinality(Refusals(e))
  BY <1>4, Counts, FS_Subset
<1>6. Tried'
  <2> SUFFICES ASSUME NEW e \in Events
               PROVE  event'[e].retry + Cardinality(Refusals(e)') <= refused'[e]
    BY DEF Tried
  <2>1. event[e].retry \in Nat /\ refused[e] \in Nat
    BY DEF IInv, TypeOK, OutboxEvent
  <2>2. event[e].retry + Cardinality(Refusals(e)) <= refused[e]
    BY DEF IInv, Tried
  <2>3. QED BY <1>2, <1>5, <2>1, <2>2, Counts
<1>7. Accounted'
  <2> SUFFICES ASSUME NEW e \in Events
               PROVE  sent'[e] + Cardinality(Able(e)') <= Cardinality(Workers) * Rounds(e)'
    BY DEF Accounted
  <2>1. faults \in Nat /\ faults' = faults + 1
    BY <1>2, FaultBounds
  <2>2. Rounds(e) < Rounds(e)'
    BY <1>5, <2>1, Counts DEF Rounds
  <2>3. QED BY <1>2, <2>1, <2>2, AccountGrown
<1>8. Acknowledged'
  BY <1>1, <1>2, <1>3, Others, AcknowledgedStep
<1>9. QED
  BY <1>1, <1>2, <1>3, <1>6, <1>7, <1>8, FaultBounds, WorkerStep DEF IInv, TypeOK, MarksAreTrue

LEMMA PublishStep ==
  ASSUME IInv, NEW w \in Workers, Publish(w)
  PROVE  IInv'
<1>1. PICK c, x, m : /\ c = Current(w) /\ x = [worker[w] EXCEPT !.pc = "accepted"]
                     /\ m = [event |-> c, serial |-> sent[c] + 1]
  OBVIOUS
<1>2. /\ worker[w].pc = "publish" /\ worker' = [worker EXCEPT ![w] = x]
      /\ \/ Bus = "noop" /\ UNCHANGED <<sent, queue, faults>>
         \/ /\ sent' = [sent EXCEPT ![c] = @ + 1]
            /\ \/ queue' = [k \in Consumers |-> queue[k] \cup {m}] /\ UNCHANGED faults
               \/ UNCHANGED queue /\ Fault
      /\ UNCHANGED <<event, refused, consumer, inbox, handled>>
  BY <1>1 DEF Publish
<1>3. c \in Events /\ c \in worker[w].batch /\ event[c].status # "none"
  BY <1>1, <1>2, CurrentEvent
<1>4. worker[w] \in WorkerType /\ sent \in [Events -> Nat] /\ queue \in [Consumers -> SUBSET Message]
  BY DEF IInv, TypeOK, WorkerType
<1>5. x \in WorkerType /\ x.pc = "accepted" /\ x.batch = worker[w].batch
  BY <1>1, <1>4 DEF WorkerType
<1>6. Whole(x) /\ worker'[w] = x /\ Current(w)' = c
  <2>1. worker'[w] = x
    BY <1>2, Others
  <2>2. QED BY <1>1, <1>3, <1>5, <2>1 DEF Whole, Current
<1>7. /\ sent' \in [Events -> Nat] /\ queue' \in [Consumers -> SUBSET Message]
      /\ \A e \in Events \ {c} : sent'[e] = sent[e]
      /\ sent'[c] \in {sent[c], sent[c] + 1}
      /\ Bus = "nats" => sent'[c] = sent[c] + 1
  <2>1. m \in Message
    BY <1>1, <1>3, <1>4 DEF Message
  <2>2. QED BY <1>2, <1>3, <1>4, <2>1
<1>8. faults' \in 0 .. MaxFaults /\ faults' \in Nat /\ faults <= faults'
  BY <1>2, FaultBounds
<1>9. ASSUME NEW e \in Events PROVE Refusals(e)' = Refusals(e)
  <2>1. w \notin Refusals(e) /\ w \notin Refusals(e)'
    BY <1>2, <1>5, <1>6 DEF Refusals
  <2>2. QED BY <1>2, <2>1, SameRefusals
<1>10. ASSUME NEW e \in Events PROVE Able(e)' \subseteq Able(e)
  <2>1. w \in Able(e)' => w \in Able(e)
    BY <1>1, <1>2, <1>5, <1>6 DEF Able, Past
  <2>2. event'[e].status = event[e].status \/ event'[e].status = "published"
    BY <1>2
  <2>3. QED BY <1>2, <2>1, <2>2, AbleOthers
<1>11. Tried'
  BY <1>2, <1>9 DEF IInv, Tried
<1>12. Accounted'
  <2> SUFFICES ASSUME NEW e \in Events
               PROVE  sent'[e] + Cardinality(Able(e)') <= Cardinality(Workers) * Rounds(e)'
    BY DEF Accounted
  <2>1. CASE e # c
    BY <1>7, <1>8, <1>9, <1>10, <2>1, AccountShrunk
  <2>2. CASE e = c
    <3>1. w \in Able(e) /\ w \notin Able(e)'
      BY <1>1, <1>2, <1>3, <1>5, <1>6, <2>2 DEF Able, Past
    <3>2. Able(e)' \in SUBSET (Able(e) \ {w})
      BY <1>10, <3>1
    <3>3. Cardinality(Able(e)') <= Cardinality(Able(e)) - 1
      <4>1. /\ IsFiniteSet(Able(e) \ {w})
            /\ Cardinality(Able(e) \ {w}) = Cardinality(Able(e)) - 1
        BY <3>1, Counts, FS_RemoveElement
      <4>2. QED BY <3>2, <4>1, FS_Subset
    <3>4. sent[e] \in Nat /\ sent'[e] \in Nat /\ sent'[e] <= sent[e] + 1
      BY <1>3, <1>4, <1>7, <2>2
    <3>5. Rounds(e) <= Rounds(e)'
      BY <1>8, <1>9, Counts, FaultBounds DEF Rounds
    <3>6. sent'[e] + Cardinality(Able(e)') <= sent[e] + Cardinality(Able(e))
      BY <3>3, <3>4, Counts
    <3>7. QED BY <1>8, <3>4, <3>5, <3>6, AccountKept
  <2>3. QED BY <2>1, <2>2
<1>13. \A e \in Events : sent[e] > 0 => sent'[e] > 0
  BY <1>4, <1>7
<1>14. Acknowledged'
  <2>1. ASSUME NEW v \in Workers, worker'[v].pc = "accepted", Bus = "nats"
        PROVE  sent'[Current(v)'] > 0
    <3>1. CASE v = w
      BY <1>3, <1>4, <1>6, <1>7, <2>1, <3>1
    <3>2. CASE v # w
      <4>1. worker'[v] = worker[v] /\ Current(v)' = Current(v)
        BY <1>2, <3>2, Others
      <4>2. sent[Current(v)] > 0 /\ Current(v) \in Events
        BY <2>1, <4>1, CurrentEvent DEF IInv, Acknowledged
      <4>3. QED BY <1>13, <4>1, <4>2
    <3>3. QED BY <3>1, <3>2
  <2>2. QED BY <2>1 DEF Acknowledged
<1>15. \A e \in Events : event'[e].status = "none" => event[e] = event'[e] /\ e \notin x.batch
  BY <1>2, <1>5 DEF IInv, Committed
<1>16. \A e \in Events :
         /\ Bus = "nats" /\ event'[e].status = "published" => sent'[e] > 0
         /\ event'[e].status = "failed" => event'[e].retry >= MaxRetries
         /\ event'[e].status = "pending" => event'[e].retry < MaxRetries
  BY <1>2, <1>13 DEF IInv, MarksAreTrue
<1>17. event' \in [Events -> OutboxEvent] /\ refused' \in [Events -> Nat]
  BY <1>2 DEF IInv, TypeOK
<1>18. QED
  BY <1>2, <1>6, <1>7, <1>8, <1>11, <1>12, <1>14, <1>15, <1>16, <1>17, WorkerStep

LEMMA RefuseStep ==
  ASSUME IInv, NEW w \in Workers, Refuse(w)
  PROVE  IInv'
<1>1. PICK c, x : c = Current(w) /\ x = [worker[w] EXCEPT !.pc = "refused"]
  OBVIOUS
<1>2. /\ worker[w].pc = "publish" /\ worker' = [worker EXCEPT ![w] = x]
      /\ Fault /\ refused' = [refused EXCEPT ![c] = @ + 1]
      /\ UNCHANGED <<event, sent, queue, consumer, inbox, handled>>
  BY <1>1 DEF Refuse, consuming
<1>3. c \in Events /\ c \in worker[w].batch /\ event[c].status # "none"
  BY <1>1, <1>2, CurrentEvent
<1>4. worker[w] \in WorkerType /\ refused \in [Events -> Nat]
  BY DEF IInv, TypeOK, WorkerType
<1>5. x \in WorkerType /\ x.pc = "refused" /\ x.batch = worker[w].batch
  BY <1>1, <1>4 DEF WorkerType
<1>6. Whole(x) /\ worker'[w] = x /\ Current(w)' = c
  <2>1. worker'[w] = x
    BY <1>2, Others
  <2>2. QED BY <1>1, <1>3, <1>5, <2>1 DEF Whole, Current
<1>7. /\ refused' \in [Events -> Nat] /\ refused'[c] = refused[c] + 1
      /\ \A e \in Events \ {c} : refused'[e] = refused[e]
  BY <1>2, <1>3, <1>4
<1>8. faults' \in 0 .. MaxFaults /\ faults' = faults + 1 /\ faults \in Nat
  BY <1>2, FaultBounds
<1>9. ASSUME NEW e \in Events, e # c PROVE Refusals(e)' = Refusals(e)
  <2>1. w \notin Refusals(e) /\ w \notin Refusals(e)'
    BY <1>2, <1>5, <1>6, <1>9 DEF Refusals
  <2>2. QED BY <1>2, <2>1, SameRefusals
<1>10. Cardinality(Refusals(c)') = Cardinality(Refusals(c)) + 1
  <2>1. w \notin Refusals(c) /\ w \in Refusals(c)'
    BY <1>2, <1>5, <1>6 DEF Refusals
  <2>2. ASSUME NEW v \in Workers \ {w} PROVE v \in Refusals(c)' <=> v \in Refusals(c)
    BY <1>2, Others DEF Refusals
  <2>3. Refusals(c)' = Refusals(c) \cup {w}
    <3>1. Refusals(c)' \subseteq Workers /\ Refusals(c) \subseteq Workers
      BY DEF Refusals
    <3>2. QED BY <2>1, <2>2, <3>1
  <2>4. QED BY <2>1, <2>3, Counts, FS_AddElement
<1>11. ASSUME NEW e \in Events PROVE Able(e)' \subseteq Able(e)
  <2>1. w \in Able(e)' => w \in Able(e)
    BY <1>1, <1>2, <1>5, <1>6 DEF Able, Past
  <2>2. event'[e].status = event[e].status \/ event'[e].status = "published"
    BY <1>2
  <2>3. QED BY <1>2, <2>1, <2>2, AbleOthers
<1>12. Tried'
  <2> SUFFICES ASSUME NEW e \in Events
               PROVE  event'[e].retry + Cardinality(Refusals(e)') <= refused'[e]
    BY DEF Tried
  <2>1. event[e].retry + Cardinality(Refusals(e)) <= refused[e]
    BY DEF IInv, Tried
  <2>2. event[e].retry \in Nat /\ refused[e] \in Nat
    BY DEF IInv, TypeOK, OutboxEvent
  <2>3. QED BY <1>2, <1>7, <1>9, <1>10, <2>1, <2>2, Counts
<1>13. Accounted'
  <2> SUFFICES ASSUME NEW e \in Events
               PROVE  sent'[e] + Cardinality(Able(e)') <= Cardinality(Workers) * Rounds(e)'
    BY DEF Accounted
  <2>1. sent[e] \in Nat /\ sent'[e] = sent[e]
    BY <1>2 DEF IInv, TypeOK
  <2>2. Rounds(e) <= Rounds(e)'
    BY <1>8, <1>9, <1>10, Counts DEF Rounds
  <2>3. Cardinality(Able(e)') <= Cardinality(Able(e))
    BY <1>11, Counts, FS_Subset
  <2>4. QED BY <1>8, <2>1, <2>2, <2>3, Counts, AccountKept
<1>14. Acknowledged'
  BY <1>2, <1>5, <1>6, AcknowledgedStep
<1>15. \A e \in Events : event'[e].status = "none" => event[e] = event'[e] /\ e \notin x.batch
  BY <1>2, <1>5 DEF IInv, Committed
<1>16. QED
  BY <1>2, <1>6, <1>7, <1>8, <1>12, <1>13, <1>14, <1>15, WorkerStep
  DEF IInv, TypeOK, MarksAreTrue

\* What remains of a batch whose event c was marked.
LEMMA RestOfBatch ==
  ASSUME IInv, NEW w \in Workers, NEW c, NEW x,
         worker[w].batch \in SUBSET Events, worker'[w] = x,
         x = IF worker[w].batch \ {c} = {} THEN Resting
             ELSE [pc |-> "publish", batch |-> worker[w].batch \ {c}]
  PROVE  Whole(x) /\ x.pc \in {"sleep", "publish"} /\ x.batch = worker[w].batch \ {c}
<1>1. CASE worker[w].batch \ {c} = {}
  BY <1>1, RestingType
<1>2. CASE worker[w].batch \ {c} # {}
  BY <1>2 DEF Whole, WorkerType
<1>3. QED BY <1>1, <1>2

\* The mark of an event the bus took.
LEMMA MarkPublishedStep ==
  ASSUME IInv, NEW w \in Workers, Mark(w), worker[w].pc = "accepted"
  PROVE  IInv'
<1>1. PICK c, x, row :
        /\ c = Current(w)
        /\ x = IF worker[w].batch \ {c} = {} THEN Resting
               ELSE [pc |-> "publish", batch |-> worker[w].batch \ {c}]
        /\ row = MarkedPublished(event[c])
  OBVIOUS
<1>2. /\ event' = [event EXCEPT ![c] = row] /\ worker' = [worker EXCEPT ![w] = x]
      /\ UNCHANGED <<sent, refused, queue, consumer, inbox, handled, faults>>
  BY <1>1 DEF Mark, consuming
<1>3. c \in Events /\ c \in worker[w].batch /\ event[c].status # "none"
  BY <1>1, CurrentEvent
<1>4. worker[w].batch \in SUBSET Events /\ event \in [Events -> OutboxEvent]
  BY DEF IInv, TypeOK
<1>5. worker'[w] = x /\ Whole(x) /\ x.pc \in {"sleep", "publish"} /\ x.batch = worker[w].batch \ {c}
  <2>1. worker'[w] = x
    BY <1>2, Others
  <2>2. QED BY <1>1, <1>4, <2>1, RestOfBatch
<1>6. row \in OutboxEvent /\ row.status = "published" /\ row.retry = event[c].retry
  BY <1>1, <1>3, <1>4 DEF MarkedPublished, OutboxEvent, OutboxStatus
<1>7. /\ event' \in [Events -> OutboxEvent] /\ event'[c] = row
      /\ \A e \in Events \ {c} : event'[e] = event[e]
  BY <1>2, <1>3, <1>4, <1>6
<1>8. ASSUME NEW e \in Events PROVE Refusals(e)' = Refusals(e)
  <2>1. w \notin Refusals(e) /\ w \notin Refusals(e)'
    BY <1>5 DEF Refusals
  <2>2. QED BY <1>2, <2>1, SameRefusals
<1>9. ASSUME NEW e \in Events PROVE Able(e)' \subseteq Able(e)
  <2>1. w \in Able(e)' => w \in Able(e)
    BY <1>1, <1>5, <1>6, <1>7 DEF Able, Past
  <2>2. event'[e].status = event[e].status \/ event'[e].status = "published"
    BY <1>6, <1>7
  <2>3. QED BY <1>2, <2>1, <2>2, AbleOthers
<1>10. \A e \in Events : event'[e].retry = event[e].retry
  BY <1>6, <1>7
<1>11. Tried'
  BY <1>2, <1>8, <1>10 DEF IInv, Tried
<1>12. Accounted'
  BY <1>2, <1>8, <1>9, FaultBounds, AccountShrunk DEF Accounted
<1>13. Acknowledged'
  BY <1>2, <1>5, AcknowledgedStep
<1>14. \A e \in Events : event'[e].status = "none" => event[e] = event'[e] /\ e \notin x.batch
  BY <1>5, <1>6, <1>7 DEF IInv, Committed
<1>15. \A e \in Events :
         /\ Bus = "nats" /\ event'[e].status = "published" => sent'[e] > 0
         /\ event'[e].status = "failed" => event'[e].retry >= MaxRetries
         /\ event'[e].status = "pending" => event'[e].retry < MaxRetries
  <2>1. Bus = "nats" => sent[c] > 0
    BY <1>1 DEF IInv, Acknowledged
  <2>2. QED BY <1>2, <1>6, <1>7, <2>1 DEF IInv, MarksAreTrue
<1>16. QED
  BY <1>2, <1>5, <1>7, <1>11, <1>12, <1>13, <1>14, <1>15, WorkerStep DEF IInv, TypeOK

\* The mark of an event the bus refused.
LEMMA MarkFailedStep ==
  ASSUME IInv, NEW w \in Workers, Mark(w), worker[w].pc = "refused"
  PROVE  IInv'
<1>1. PICK c, x, row :
        /\ c = Current(w)
        /\ x = IF worker[w].batch \ {c} = {} THEN Resting
               ELSE [pc |-> "publish", batch |-> worker[w].batch \ {c}]
        /\ row = MarkedFailed(event[c])
  OBVIOUS
<1>2. /\ event' = [event EXCEPT ![c] = row] /\ worker' = [worker EXCEPT ![w] = x]
      /\ UNCHANGED <<sent, refused, queue, consumer, inbox, handled, faults>>
  BY <1>1 DEF Mark, consuming
<1>3. c \in Events /\ c \in worker[w].batch /\ event[c].status # "none"
  BY <1>1, CurrentEvent
<1>4. worker[w].batch \in SUBSET Events /\ event \in [Events -> OutboxEvent]
  BY DEF IInv, TypeOK
<1>5. worker'[w] = x /\ Whole(x) /\ x.pc \in {"sleep", "publish"} /\ x.batch = worker[w].batch \ {c}
  <2>1. worker'[w] = x
    BY <1>2, Others
  <2>2. QED BY <1>1, <1>4, <2>1, RestOfBatch
<1>6. /\ row \in OutboxEvent /\ row.retry = event[c].retry + 1
      /\ \/ row.status = "failed" /\ row.retry >= MaxRetries
         \/ row.status = "pending" /\ row.retry < MaxRetries
  <2>1. event[c].retry \in Nat
    BY <1>3, <1>4 DEF OutboxEvent
  <2>2. QED BY <1>1, <2>1, OutboxAssumption DEF MarkedFailed, OutboxEvent, OutboxStatus
<1>7. /\ event' \in [Events -> OutboxEvent] /\ event'[c] = row
      /\ \A e \in Events \ {c} : event'[e] = event[e]
  BY <1>2, <1>3, <1>4, <1>6
<1>8. ASSUME NEW e \in Events, e # c PROVE Refusals(e)' = Refusals(e)
  <2>1. w \notin Refusals(e) /\ w \notin Refusals(e)'
    BY <1>1, <1>5, <1>8 DEF Refusals
  <2>2. QED BY <1>2, <2>1, SameRefusals
<1>9. Cardinality(Refusals(c)') = Cardinality(Refusals(c)) - 1
  <2>1. w \in Refusals(c) /\ w \notin Refusals(c)'
    BY <1>1, <1>5 DEF Refusals
  <2>2. ASSUME NEW v \in Workers \ {w} PROVE v \in Refusals(c)' <=> v \in Refusals(c)
    BY <1>2, Others DEF Refusals
  <2>3. Refusals(c)' = Refusals(c) \ {w}
    <3>1. Refusals(c)' \subseteq Workers /\ Refusals(c) \subseteq Workers
      BY DEF Refusals
    <3>2. QED BY <2>1, <2>2, <3>1
  <2>4. QED BY <2>1, <2>3, Counts, FS_RemoveElement
<1>10. ASSUME NEW e \in Events, e # c PROVE Able(e)' \subseteq Able(e)
  <2>1. w \in Able(e)' => w \in Able(e)
    BY <1>1, <1>5, <1>7, <1>10 DEF Able, Past
  <2>2. event'[e].status = event[e].status
    BY <1>7, <1>10
  <2>3. QED BY <1>2, <2>1, <2>2, AbleOthers
<1>11. Tried'
  <2> SUFFICES ASSUME NEW e \in Events
               PROVE  event'[e].retry + Cardinality(Refusals(e)') <= refused'[e]
    BY DEF Tried
  <2>1. event[e].retry + Cardinality(Refusals(e)) <= refused[e]
    BY DEF IInv, Tried
  <2>2. event[e].retry \in Nat /\ refused[e] \in Nat
    BY DEF IInv, TypeOK, OutboxEvent
  <2>3. QED BY <1>2, <1>6, <1>7, <1>8, <1>9, <2>1, <2>2, Counts
<1>12. Accounted'
  <2> SUFFICES ASSUME NEW e \in Events
               PROVE  sent'[e] + Cardinality(Able(e)') <= Cardinality(Workers) * Rounds(e)'
    BY DEF Accounted
  <2>1. CASE e = c
    <3>1. Rounds(e) < Rounds(e)'
      BY <1>2, <1>9, <2>1, Counts, FaultBounds DEF Rounds
    <3>2. QED BY <1>2, <3>1, FaultBounds, AccountGrown
  <2>2. CASE e # c
    BY <1>2, <1>8, <1>10, <2>2, FaultBounds, AccountShrunk
  <2>3. QED BY <2>1, <2>2
<1>13. Acknowledged'
  BY <1>2, <1>5, AcknowledgedStep
<1>14. \A e \in Events : event'[e].status = "none" => event[e] = event'[e] /\ e \notin x.batch
  BY <1>5, <1>6, <1>7 DEF IInv, Committed
<1>15. \A e \in Events :
         /\ Bus = "nats" /\ event'[e].status = "published" => sent'[e] > 0
         /\ event'[e].status = "failed" => event'[e].retry >= MaxRetries
         /\ event'[e].status = "pending" => event'[e].retry < MaxRetries
  BY <1>2, <1>6, <1>7 DEF IInv, MarksAreTrue
<1>16. QED
  BY <1>2, <1>5, <1>7, <1>11, <1>12, <1>13, <1>14, <1>15, WorkerStep DEF IInv, TypeOK

LEMMA InsertStep ==
  ASSUME IInv, NEW c \in Events, InsertTx(c)
  PROVE  IInv'
<1>1. PICK row : row = [event[c] EXCEPT !.status = "pending"]
  OBVIOUS
<1>2. /\ event[c].status = "none" /\ event' = [event EXCEPT ![c] = row]
      /\ UNCHANGED <<worker, sent, refused, queue, consumer, inbox, handled, faults>>
  BY <1>1 DEF InsertTx, consuming
<1>3. event \in [Events -> OutboxEvent] /\ event[c].retry = 0
  BY <1>2 DEF IInv, TypeOK, Committed
<1>4. row \in OutboxEvent /\ row.status = "pending" /\ row.retry = 0
  BY <1>1, <1>3 DEF OutboxEvent, OutboxStatus
<1>5. /\ event' \in [Events -> OutboxEvent] /\ event'[c] = row
      /\ \A e \in Events \ {c} : event'[e] = event[e]
  BY <1>2, <1>3, <1>4
<1>6. \A e : Refusals(e)' = Refusals(e)
  BY <1>2 DEF Refusals, Current
<1>7. ASSUME NEW e \in Events PROVE Able(e)' \subseteq Able(e)
  <2>1. CASE e = c
    BY <1>2, <2>1 DEF Able
  <2>2. CASE e # c
    BY <1>2, <1>5, <2>2 DEF Able, Past, Current
  <2>3. QED BY <2>1, <2>2
<1>8. TypeOK'
  BY <1>2, <1>5 DEF IInv, TypeOK
<1>9. Committed' /\ Acknowledged' /\ Consuming'
  BY <1>2, <1>4, <1>5 DEF IInv, Committed, Acknowledged, Consuming, Current
<1>10. Tried'
  BY <1>2, <1>3, <1>4, <1>5, <1>6 DEF IInv, Tried
<1>11. Accounted'
  BY <1>2, <1>6, <1>7, FaultBounds, AccountShrunk DEF Accounted
<1>12. MarksAreTrue'
  BY <1>2, <1>3, <1>4, <1>5, OutboxAssumption DEF IInv, MarksAreTrue
<1>13. QED BY <1>8, <1>9, <1>10, <1>11, <1>12 DEF IInv

-----------------------------------------------------------------------------
(* The invariant.                                                          *)

LEMMA InitInv == Init => IInv
<1> SUFFICES ASSUME Init PROVE IInv
  OBVIOUS
<1>1. /\ event = [e \in Events |-> [status |-> "none", retry |-> 0]]
      /\ worker = [w \in Workers |-> Resting]
      /\ sent = [e \in Events |-> 0] /\ refused = [e \in Events |-> 0]
      /\ queue = [k \in Consumers |-> {}] /\ consumer = [k \in Consumers |-> Waiting]
      /\ inbox = {} /\ handled = {} /\ faults = 0
  BY DEF Init
<1>2. TypeOK
  <2>1. worker \in [Workers -> WorkerType] /\ \A w \in Workers : Whole(worker[w])
    BY <1>1, RestingType DEF Whole
  <2>2. consumer \in [Consumers -> ConsumerType]
    BY <1>1, WaitingType
  <2>3. event \in [Events -> OutboxEvent]
    BY <1>1 DEF OutboxEvent, OutboxStatus
  <2>4. QED
    BY <1>1, <2>1, <2>2, <2>3, OutboxAssumption DEF TypeOK, Whole, WorkerType, ConsumerType
<1>3. Committed /\ Acknowledged /\ Consuming
  BY <1>1, RestingType, WaitingType DEF Committed, Acknowledged, Consuming
<1>4. MarksAreTrue
  BY <1>1, OutboxAssumption DEF MarksAreTrue
<1>5. \A e : Cardinality(Refusals(e)) = 0
  <2>1. \A e : Refusals(e) = {}
    BY <1>1, RestingType DEF Refusals
  <2>2. Cardinality({}) = 0
    BY FS_EmptySet
  <2>3. QED BY <2>1, <2>2
<1>6. Tried
  BY <1>1, <1>5 DEF Tried
<1>7. Accounted
  <2> SUFFICES ASSUME NEW e \in Events
               PROVE  sent[e] + Cardinality(Able(e)) <= Cardinality(Workers) * Rounds(e)
    BY DEF Accounted
  <2>1. Rounds(e) = 1 /\ sent[e] = 0
    BY <1>1, <1>5 DEF Rounds
  <2>2. QED BY <2>1, Counts
<1>8. QED BY <1>2, <1>3, <1>4, <1>6, <1>7 DEF IInv

LEMMA NextStep ==
  ASSUME IInv, [Next]_vars
  PROVE  IInv'
<1>1. ASSUME NEW e \in Events, InsertTx(e) PROVE IInv'
  BY <1>1, InsertStep
<1>2. ASSUME NEW w \in Workers, Run(w) PROVE IInv'
  <2>1. CASE Mark(w)
    <3>1. worker[w].pc \in {"accepted", "refused"}
      BY <2>1 DEF Mark
    <3>2. QED BY <2>1, <3>1, MarkPublishedStep, MarkFailedStep
  <2>2. QED BY <1>2, <2>1, DispatchStep, PublishStep DEF Run
<1>3. ASSUME NEW w \in Workers, Refuse(w) \/ MarkError(w) \/ Stop(w) \/ Start(w) PROVE IInv'
  BY <1>3, RefuseStep, ForgetStep, StartStep
<1>4. ASSUME NEW k \in Consumers, Consume(k) \/ Drop(k) \/ Disconnect(k) PROVE IInv'
  BY <1>4, ReceiveStep, HandleStep, RecordStep, LostStep DEF Consume
<1>5. CASE UNCHANGED vars
  <2>1. UNCHANGED <<event, worker, sent, refused, queue, consumer, inbox, handled, faults>>
    BY <1>5 DEF vars
  <2>2. TypeOK' /\ MarksAreTrue' /\ Consuming'
    BY <2>1 DEF IInv, TypeOK, MarksAreTrue, Consuming
  <2>3. faults' \in Nat /\ faults <= faults'
    BY <2>1, FaultBounds
  <2>4. QED BY <2>1, <2>2, <2>3, OutboxUntouched DEF IInv, outbox
<1>6. QED BY <1>1, <1>2, <1>3, <1>4, <1>5 DEF Next

LEMMA Inductive == Spec => []IInv
BY InitInv, NextStep, PTL DEF Spec

-----------------------------------------------------------------------------
(* Events, batches, messages and records keep their types, and only a      *)
(* worker that sleeps or is down has no batch (dispatcher.rs).             *)
THEOREM OutboxTyped == Spec => []TypeOK
<1>1. IInv => TypeOK
  BY DEF IInv
<1>2. QED BY <1>1, Inductive, PTL

(* The marks of outbox_events are true however many workers overwrite one  *)
(* another's (outbox_repository_pg.rs), and what the inbox makes consumers *)
(* skip was handled (consumer_runtime.rs).                                 *)
THEOREM MarksTrue == Spec => []MarksAreTrue
<1>1. IInv => MarksAreTrue
  BY DEF IInv
<1>2. QED BY <1>1, Inductive, PTL

(* Every worker publishes an event at most once for its commit and once    *)
(* for every fault, although none of them locks what it has fetched.       *)
THEOREM DuplicatesBounded == Spec => []BoundedDuplicates
<1>1. IInv => BoundedDuplicates
  <2> SUFFICES ASSUME IInv, NEW e \in Events
               PROVE  sent[e] <= Cardinality(Workers) * (1 + faults)
    BY DEF BoundedDuplicates
  <2>1. PICK n, r : n = Cardinality(Workers) /\ r = Rounds(e)
    OBVIOUS
  <2>2. n \in Nat /\ r \in Int /\ r <= 1 + faults /\ 1 + faults \in Int
    BY <2>1, Counts, FaultBounds DEF Rounds
  <2>3. n * r <= n * (1 + faults) /\ n * r \in Int /\ n * (1 + faults) \in Int
    BY <2>2, Product
  <2>4. sent[e] + Cardinality(Able(e)) <= n * r /\ sent[e] \in Nat
    BY <2>1 DEF IInv, Accounted, TypeOK
  <2>5. QED BY <2>1, <2>3, <2>4, Counts
<1>2. QED BY <1>1, Inductive, PTL
=============================================================================
