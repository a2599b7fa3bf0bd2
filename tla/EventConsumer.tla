---------------------------- MODULE EventConsumer ----------------------------
(* One consumer group on the outbox's topic partition: the loop of            *)
(* state/msk_consumer.py around the projection transaction of                 *)
(* ProjectionConsumer.apply (state/postgres_event_store.py).  The broker gives *)
(* the partition to one consumer at a time, but one that has lost it may still *)
(* be at work on the message it has polled.                                   *)
EXTENDS Outbox

CONSTANTS Consumers,    \* consumer processes of the group
          MaxForeign    \* bound on malformed messages in the topic

VARIABLES owner,        \* whom the broker has assigned the partition to
          committed,    \* the group's committed offset: messages 1..committed are done
          position,     \* the offset of the message a consumer has polled or polls next
          stage,        \* what it has done with that message
          consumed,     \* the table consumed_event
          checkpoint,   \* consumer_checkpoint.kafka_offset
          view,         \* the projection: events in the order applied
          dlq           \* offsets published to the dead-letter topic

consumerVars == <<owner, committed, position, stage, consumed, checkpoint, view, dlq>>

Foreign == 0

ConsumerInit == /\ owner \in Consumers
                /\ committed = 0
                /\ position = [c \in Consumers |-> 1]
                /\ stage = [c \in Consumers |-> "idle"]
                /\ consumed = {}
                /\ checkpoint = 0
                /\ view = <<>>
                /\ dlq = {}

\* another producer writes what decode_event or the key comparison refuses
ForeignMessage == /\ Cardinality({k \in DOMAIN topic : topic[k] = Foreign}) < MaxForeign
                  /\ topic' = Append(topic, Foreign)
                  /\ UNCHANGED <<outboxVars, consumerVars, faults>>

Polled(c) == topic[position[c]]

Poll(c) == /\ owner = c /\ stage[c] = "idle" /\ position[c] <= Len(topic)
           /\ stage' = [stage EXCEPT ![c] = "polled"]
           /\ UNCHANGED <<outboxVars, topic, faults, owner, committed, position, consumed,
                          checkpoint, view, dlq>>

\* process_one dead-letters what it cannot decode ...
DeadLetter(c) == /\ stage[c] = "polled" /\ Polled(c) = Foreign
                 /\ dlq' = dlq \cup {position[c]}
                 /\ stage' = [stage EXCEPT ![c] = "handled"]
                 /\ UNCHANGED <<outboxVars, topic, faults, owner, committed, position, consumed,
                                checkpoint, view>>

Larger(m, n) == IF m < n THEN n ELSE m

\* Mutant: the event is not looked up in consumed_event
ApplyMutant(c) == /\ stage[c] = "polled" /\ Polled(c) # Foreign
                  /\ stage' = [stage EXCEPT ![c] = "handled"]
                  /\ consumed' = consumed \cup {Polled(c)}
                  /\ view' = Append(view, Polled(c))
                  /\ checkpoint' = Larger(checkpoint, position[c])
                  /\ UNCHANGED <<outboxVars, topic, faults, owner, committed, position, dlq>>

\* ... and applies the rest: insert into consumed_event, projection, checkpoint, commit
Apply(c) == /\ stage[c] = "polled" /\ Polled(c) # Foreign
            /\ stage' = [stage EXCEPT ![c] = "handled"]
            /\ IF Polled(c) \in consumed
               THEN UNCHANGED <<consumed, view, checkpoint>>
               ELSE /\ consumed' = consumed \cup {Polled(c)}
                    /\ view' = Append(view, Polled(c))
                    /\ checkpoint' = Larger(checkpoint, position[c])
            /\ UNCHANGED <<outboxVars, topic, faults, owner, committed, position, dlq>>

\* Mutant: the offset is committed when the message is polled
CommitOffsetMutant(c) ==
    /\ stage[c] \in {"polled", "handled"} /\ owner = c
    /\ committed' = position[c]
    /\ position' = [position EXCEPT ![c] = @ + 1]
    /\ stage' = [stage EXCEPT ![c] = "idle"]
    /\ UNCHANGED <<outboxVars, topic, faults, owner, consumed, checkpoint, view, dlq>>

CommitOffset(c) == /\ stage[c] = "handled" /\ owner = c
                   /\ committed' = position[c]
                   /\ position' = [position EXCEPT ![c] = @ + 1]
                   /\ stage' = [stage EXCEPT ![c] = "idle"]
                   /\ UNCHANGED <<outboxVars, topic, faults, owner, consumed, checkpoint, view, dlq>>

\* run() closes the consumer; its successor starts where the group has committed
Restarts(c) == /\ position' = [position EXCEPT ![c] = committed + 1]
               /\ stage' = [stage EXCEPT ![c] = "idle"]
               /\ UNCHANGED <<outboxVars, topic, committed, consumed, checkpoint, view, dlq>>

\* the broker refuses the commit of a consumer that no longer owns the partition
CommitRefused(c) == stage[c] = "handled" /\ owner # c /\ Restarts(c) /\ UNCHANGED <<faults, owner>>

\* a crash, or an exception of the dead-letter publication, the handler, the transaction
\* or the commit: nothing catches it
ConsumerCrash(c) == stage[c] # "idle" /\ Fault /\ Restarts(c) /\ UNCHANGED owner

\* the group rebalances: another consumer takes over from the committed offset
Rebalance(c) == /\ owner # c /\ stage[c] = "idle" /\ Fault
                /\ owner' = c
                /\ Restarts(c)

ConsumerStep(c) == Poll(c) \/ DeadLetter(c) \/ Apply(c) \/ CommitOffset(c) \/ CommitRefused(c)

ConsumerNext == \/ ForeignMessage
                \/ \E c \in Consumers : ConsumerStep(c) \/ ConsumerCrash(c) \/ Rebalance(c)

publicationVars == <<outboxVars, topic, faults, consumerVars>>

PublicationInit == OutboxInit /\ ConsumerInit

PublicationNext == (OutboxNext /\ UNCHANGED consumerVars) \/ ConsumerNext

\* A process that is up goes on with the call it is at; back-off ends.
PublicationFairness ==
    /\ \A w \in Workers : WF_publicationVars(WorkerStep(w) /\ UNCHANGED consumerVars)
    /\ \A e \in 1..MaxEvents : WF_publicationVars(BackoffEnds(e) /\ UNCHANGED consumerVars)
    /\ \A c \in Consumers : WF_publicationVars(ConsumerStep(c))

PublicationSpec == PublicationInit /\ [][PublicationNext]_publicationVars /\ PublicationFairness

ConsumerTypeOK == /\ owner \in Consumers
                  /\ committed \in 0..Len(topic)
                  /\ position \in [Consumers -> 1..Len(topic) + 1]
                  /\ stage \in [Consumers -> {"idle", "polled", "handled"}]
                  /\ consumed \subseteq DOMAIN rows
                  /\ checkpoint \in 0..Len(topic)
                  /\ view \in Seq(DOMAIN rows)
                  /\ dlq \subseteq DOMAIN topic

PublicationTypeOK == OutboxTypeOK /\ ConsumerTypeOK

\* Neither the committed offset nor the checkpoint ever passes a message that is not in
\* the projection or the dead-letter topic, whatever crashed in between
\* (msk_consumer.py:3-5 and 99-122).
NothingIsSkipped ==
    \A k \in DOMAIN topic :
        k <= committed \/ k <= checkpoint => topic[k] \in consumed \/ k \in dlq

\* The projection implements ExactlyOnce over duplicates, crashes and two consumers at
\* work on one message.
Delivery == INSTANCE ExactlyOnce WITH appended <- Len(rows), applied <- view
ImplementsExactlyOnce == Delivery!Spec

\* Every appended event reaches the projection, unless the worker that had claimed its row
\* has died (outbox_worker.py:21-25: the loop goes on; postgres_event_store.py:119: a claim
\* does not expire).
EveryEventIsApplied ==
    \A e \in 1..MaxEvents : e \in DOMAIN rows ~> (e \in consumed \/ Orphaned(e))
=============================================================================
