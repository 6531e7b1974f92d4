------------------------------- MODULE Outbox -------------------------------
(***************************************************************************)
(* From the outbox to the consumers: a command's transaction leaves an     *)
(* event in outbox_events; every server process runs one worker that       *)
(* fetches pending events, publishes them and marks them; every consumer   *)
(* process gets every message and keeps the ids it has handled in a table  *)
(* they all share.                                                         *)
(*                                                                         *)
(* A worker's fetch, each publication and each mark are separate           *)
(* statements, and nothing is locked between them.  A message is its event *)
(* and the serial number of the publication, which stands for the          *)
(* published_at the envelope carries.                                      *)
(***************************************************************************)
EXTENDS Integers, FiniteSets, FiniteSetsExt

CONSTANTS
  Events,       \* natural numbers: the events in the order of occurred_at
  Workers,      \* server processes, one OutboxWorker each
  Consumers,    \* processes that run a ConsumerWorker
  Bus,          \* "nats", or "noop" when messaging is disabled
  BatchSize,
  MaxRetries,
  MaxFaults     \* bound: refusals, failed statements, crashes, restarts

ASSUME OutboxAssumption ==
  /\ Events \subseteq Nat /\ IsFiniteSet(Events) /\ IsFiniteSet(Workers)
  /\ Bus \in {"nats", "noop"}
  /\ BatchSize \in Nat \ {0} /\ MaxRetries \in Nat \ {0}
  /\ MaxFaults \in Nat

VARIABLES
  event,     \* outbox_events: status and retry_count
  worker,    \* where each worker is in its batch
  sent,      \* how often each event was accepted by the bus
  refused,   \* history: how often each event was refused by the bus
  queue,     \* messages of a consumer's subscription
  consumer,  \* what each consumer is working on
  inbox,     \* inbox_messages: the ids recorded
  handled,   \* history: <<message, consumer>> whose handler has run
  faults

vars == <<event, worker, sent, refused, queue, consumer, inbox,
          handled, faults>>
outbox == <<event, worker, sent, refused>>
consuming == <<queue, consumer, inbox, handled>>

OutboxStatus == {"none", "pending", "published", "failed"}
OutboxEvent == [status : OutboxStatus, retry : Nat]
Message == [event : Events, serial : Nat]
NoMessage == [event |-> -1, serial |-> 0]

Resting == [pc |-> "sleep", batch |-> {}]
Waiting == [pc |-> "wait", msg |-> NoMessage]

TypeOK ==
  /\ event \in [Events -> OutboxEvent]
  /\ worker \in [Workers ->
       [ pc : {"sleep", "publish", "accepted", "refused", "down"},
         batch : SUBSET Events ]]
  /\ \A w \in Workers :
       worker[w].pc \in {"sleep", "down"} <=> worker[w].batch = {}
  /\ sent \in [Events -> Nat] /\ refused \in [Events -> Nat]
  /\ queue \in [Consumers -> SUBSET Message]
  /\ consumer \in [Consumers ->
       [pc : {"wait", "handle", "record"}, msg : Message \cup {NoMessage}]]
  /\ inbox \subseteq Message
  /\ handled \subseteq Message \X Consumers
  /\ faults \in 0 .. MaxFaults

Init ==
  /\ event = [e \in Events |-> [status |-> "none", retry |-> 0]]
  /\ worker = [w \in Workers |-> Resting]
  /\ sent = [e \in Events |-> 0] /\ refused = [e \in Events |-> 0]
  /\ queue = [k \in Consumers |-> {}]
  /\ consumer = [k \in Consumers |-> Waiting]
  /\ inbox = {} /\ handled = {} /\ faults = 0

Fault == faults < MaxFaults /\ faults' = faults + 1

-----------------------------------------------------------------------------
(* The table.                                                              *)

\* A command's transaction commits, with the event it raised.
InsertTx(e) ==
  /\ event[e].status = "none"
  /\ event' = [event EXCEPT ![e].status = "pending"]
  /\ UNCHANGED <<worker, sent, refused, consuming, faults>>

Pending == { e \in Events : event[e].status = "pending" }

\* Mutant: an event that was refused once is not fetched again.
FetchUntried == { e \in Pending : event[e].retry = 0 }

\* The oldest pending events.  SKIP LOCKED holds its locks for the statement
\* only, so another worker may get the same ones.
FetchPending ==
  { e \in Pending : Cardinality({ f \in Pending : f < e }) < BatchSize }

\* Mutant: the mark is left out.
Unmarked(row) == row

\* Mutant: an event that is given up counts as published.
GivenUpQuietly(row) ==
  [ retry |-> row.retry + 1,
    status |-> IF row.retry + 1 >= MaxRetries THEN "published" ELSE "pending" ]

\* Both marks overwrite whatever another worker has made of the row.
MarkedPublished(row) == [row EXCEPT !.status = "published"]
MarkedFailed(row) ==
  [ retry |-> row.retry + 1,
    status |-> IF row.retry + 1 >= MaxRetries THEN "failed" ELSE "pending" ]

-----------------------------------------------------------------------------
(* The worker and its dispatcher.                                          *)

Current(w) == Min(worker[w].batch)

\* Awake after the poll interval.
DispatchBatch(w) ==
  /\ worker[w].pc = "sleep" /\ FetchPending # {}
  /\ worker' = [worker EXCEPT ![w] = [pc |-> "publish", batch |-> FetchPending]]
  /\ UNCHANGED <<event, sent, refused, consuming, faults>>

\* The client's Ok says that the message is in its buffer.  As a rule it
\* reaches every subscription there is (core NATS keeps nothing for others).
\* When the connection or the process goes first, it reaches none.  The
\* no-op bus discards it.
Publish(w) ==
  LET e == Current(w)  m == [event |-> e, serial |-> sent[e] + 1] IN
  /\ worker[w].pc = "publish"
  /\ worker' = [worker EXCEPT ![w].pc = "accepted"]
  /\ IF Bus = "noop" THEN UNCHANGED <<sent, queue, faults>> ELSE
       /\ sent' = [sent EXCEPT ![e] = @ + 1]
       /\ \/ queue' = [k \in Consumers |-> queue[k] \cup {m}] /\ UNCHANGED faults
          \/ UNCHANGED queue /\ Fault
  /\ UNCHANGED <<event, refused, consumer, inbox, handled>>

Refuse(w) ==
  /\ worker[w].pc = "publish" /\ Bus = "nats" /\ Fault
  /\ worker' = [worker EXCEPT ![w].pc = "refused"]
  /\ refused' = [refused EXCEPT ![Current(w)] = @ + 1]
  /\ UNCHANGED <<event, sent, consuming>>

\* Mutant: the batch never ends.
MarkOn(w) ==
  LET e == Current(w) IN
  /\ worker[w].pc = "accepted"
  /\ event' = [event EXCEPT ![e] = MarkedPublished(@)]
  /\ worker' = [worker EXCEPT
                  ![w] = [pc |-> "publish", batch |-> @.batch \ {e}]]
  /\ UNCHANGED <<sent, refused, consuming, faults>>

\* The event is marked and the batch goes on with the next.
Mark(w) ==
  LET e == Current(w)  rest == worker[w].batch \ {e} IN
  /\ \/ /\ worker[w].pc = "accepted"
        /\ event' = [event EXCEPT ![e] = MarkedPublished(@)]
     \/ /\ worker[w].pc = "refused"
        /\ event' = [event EXCEPT ![e] = MarkedFailed(@)]
  /\ worker' = [worker EXCEPT ![w] =
       IF rest = {} THEN Resting ELSE [pc |-> "publish", batch |-> rest]]
  /\ UNCHANGED <<sent, refused, consuming, faults>>

\* The mark fails, and with it the rest of the batch.
MarkError(w) ==
  /\ worker[w].pc \in {"accepted", "refused"} /\ Fault
  /\ worker' = [worker EXCEPT ![w] = Resting]
  /\ UNCHANGED <<event, sent, refused, consuming>>

\* A process dies anywhere, or is shut down between two batches.
Stop(w) ==
  /\ worker[w].pc # "down" /\ Fault
  /\ worker' = [worker EXCEPT ![w] = [pc |-> "down", batch |-> {}]]
  /\ UNCHANGED <<event, sent, refused, consuming>>

Start(w) ==
  /\ worker[w].pc = "down"
  /\ worker' = [worker EXCEPT ![w] = Resting]
  /\ UNCHANGED <<event, sent, refused, consuming, faults>>

-----------------------------------------------------------------------------
(* The bus and the consumers.                                              *)

\* Mutant: the id of the account the events are about.
AggregateId(m) == [m EXCEPT !.event = Min(Events)]

\* No header is set, so the id is a hash of the payload.
MessageId(m) == m

\* Is it in the inbox?
Receive(k) ==
  \E m \in queue[k] :
    /\ consumer[k].pc = "wait"
    /\ queue' = [queue EXCEPT ![k] = @ \ {m}]
    /\ IF MessageId(m) \in inbox THEN UNCHANGED consumer
       ELSE consumer' = [consumer EXCEPT ![k] = [pc |-> "handle", msg |-> m]]
    /\ UNCHANGED <<outbox, inbox, handled, faults>>

Handle(k) ==
  /\ consumer[k].pc = "handle"
  /\ handled' = handled \cup {<<consumer[k].msg, k>>}
  /\ consumer' = [consumer EXCEPT ![k].pc = "record"]
  /\ UNCHANGED <<outbox, queue, inbox, faults>>

Record(k) ==
  /\ consumer[k].pc = "record"
  /\ inbox' = inbox \cup {MessageId(consumer[k].msg)}
  /\ consumer' = [consumer EXCEPT ![k] = Waiting]
  /\ UNCHANGED <<outbox, queue, handled, faults>>

\* The handler or the record fails: it is logged, and the message is gone.
Drop(k) ==
  /\ consumer[k].pc # "wait" /\ Fault
  /\ consumer' = [consumer EXCEPT ![k] = Waiting]
  /\ UNCHANGED <<outbox, queue, inbox, handled>>

\* A consumer's process dies; what it has not read is gone.
Disconnect(k) ==
  /\ Fault
  /\ consumer' = [consumer EXCEPT ![k] = Waiting]
  /\ queue' = [queue EXCEPT ![k] = {}]
  /\ UNCHANGED <<outbox, inbox, handled>>

Run(w) == DispatchBatch(w) \/ Publish(w) \/ Mark(w)
Consume(k) == Receive(k) \/ Handle(k) \/ Record(k)

Next ==
  \/ \E e \in Events : InsertTx(e)
  \/ \E w \in Workers : \/ Run(w) \/ Refuse(w) \/ MarkError(w)
                        \/ Stop(w) \/ Start(w)
  \/ \E k \in Consumers : Consume(k) \/ Drop(k) \/ Disconnect(k)

Spec == Init /\ [][Next]_vars

\* A worker polls, and comes back when it is down; consumers read.
FairSpec ==
  /\ Spec
  /\ \A w \in Workers : WF_vars(Run(w) \/ Start(w))
  /\ \A k \in Consumers : WF_vars(Consume(k))
=============================================================================
