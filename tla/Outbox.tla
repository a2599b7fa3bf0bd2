------------------------------- MODULE Outbox -------------------------------
(* The transactional outbox (state/postgres_event_store.py) and the publisher *)
(* processes that empty it into the broker (deployment/outbox_worker.py).     *)
(* A row is known by its place in created_at order, which is the order of the *)
(* event identifiers here.                                                    *)
EXTENDS Naturals, Sequences, FiniteSets

CONSTANTS Aggregates,   \* aggregate streams of one tenant
          Workers,      \* publisher processes, by worker_id
          BatchSize,    \* OUTBOX_BATCH_SIZE
          MaxEvents,    \* bound on the events appended
          MaxFaults,    \* bound on failed calls and crashes of all processes
          NoWorker      \* claimed_by IS NULL

ASSUME OutboxAssumption == /\ BatchSize \in Nat \ {0}
                           /\ MaxEvents \in Nat
                           /\ MaxFaults \in Nat
                           /\ NoWorker \notin Workers

VARIABLES stream,   \* aggregate_stream.current_version
          rows,     \* transactional_outbox
          topic,    \* the broker's partition: event identifiers, 0 for a foreign message
          late,     \* events in a producer's queue after its flush timed out
          batch,    \* the claimed rows a worker has yet to handle
          outcome,  \* what became of the publication of the first of them
          faults    \* failures so far

outboxVars == <<stream, rows, late, batch, outcome>>

Row == [aggregate : Aggregates, version : Nat, claimedBy : Workers \cup {NoWorker},
        published : BOOLEAN, attempts : Nat, due : BOOLEAN]

OutboxInit == /\ stream = [a \in Aggregates |-> 0]
              /\ rows = <<>>
              /\ topic = <<>>
              /\ late = {}
              /\ batch = [w \in Workers |-> <<>>]
              /\ outcome = [w \in Workers |-> "none"]
              /\ faults = 0

Fault == faults < MaxFaults /\ faults' = faults + 1

\* PostgresEventRepository.append: version, event and outbox row in one transaction
AppendEvent(a, expected) ==
    /\ Len(rows) < MaxEvents
    /\ stream[a] = expected
    /\ stream' = [stream EXCEPT ![a] = expected + 1]
    /\ rows' = Append(rows, [aggregate |-> a, version |-> expected + 1, claimedBy |-> NoWorker,
                             published |-> FALSE, attempts |-> 0, due |-> TRUE])
    /\ UNCHANGED <<topic, late, batch, outcome, faults>>

\* Mutant: the claim takes rows that another worker has claimed
ClaimableMutant(e) == ~rows[e].published /\ rows[e].due

\* Mutant: a row whose publication has failed once is not taken again
ClaimableOnceMutant(e) == ~rows[e].published /\ rows[e].claimedBy = NoWorker /\ rows[e].attempts = 0

Claimable(e) == ~rows[e].published /\ rows[e].claimedBy = NoWorker /\ rows[e].due

\* claim_outbox: the oldest claimable rows, at most a batch; an UPDATE ... RETURNING
\* gives them back in no particular order
Claim(w) ==
    LET claimable == {e \in DOMAIN rows : Claimable(e)}
        oldest == {e \in claimable : Cardinality({d \in claimable : d < e}) < BatchSize}
    IN /\ batch[w] = <<>> /\ claimable # {}
       /\ \E taken \in [1..Cardinality(oldest) -> oldest] :
             /\ \A e \in oldest : \E k \in DOMAIN taken : taken[k] = e
             /\ batch' = [batch EXCEPT ![w] = taken]
       /\ rows' = [e \in DOMAIN rows |-> IF e \in oldest THEN [rows[e] EXCEPT !.claimedBy = w]
                                                         ELSE rows[e]]
       /\ UNCHANGED <<stream, topic, late, outcome, faults>>

\* MskIamProducer.publish: flush waits for the acknowledgement ...
PublishAcknowledged(w) ==
    /\ batch[w] # <<>> /\ outcome[w] = "none"
    /\ topic' = Append(topic, Head(batch[w]))
    /\ outcome' = [outcome EXCEPT ![w] = "acknowledged"]
    /\ UNCHANGED <<stream, rows, late, batch, faults>>

\* ... or raises: the event is lost, or still queued in the client and delivered later
PublishRaises(w) ==
    /\ batch[w] # <<>> /\ outcome[w] = "none"
    /\ Fault
    /\ late' \in {late, late \cup {Head(batch[w])}}
    /\ outcome' = [outcome EXCEPT ![w] = "failed"]
    /\ UNCHANGED <<stream, rows, topic, batch>>

LateDelivery == \E e \in late : /\ topic' \in {topic, Append(topic, e)}
                                /\ late' = late \ {e}
                                /\ UNCHANGED <<stream, rows, batch, outcome, faults>>

OwnsHead(w) == rows[Head(batch[w])].claimedBy = w /\ ~rows[Head(batch[w])].published

\* the transaction of mark_published
SetPublished(w) ==
    rows' = [rows EXCEPT ![Head(batch[w])].published = TRUE, ![Head(batch[w])].claimedBy = NoWorker]

\* Mutant: a row is marked although the broker has not acknowledged it
MarkPublishedMutant(w) ==
    /\ batch[w] # <<>> /\ outcome[w] \in {"acknowledged", "failed"} /\ OwnsHead(w)
    /\ SetPublished(w)
    /\ batch' = [batch EXCEPT ![w] = Tail(@)]
    /\ outcome' = [outcome EXCEPT ![w] = "none"]
    /\ UNCHANGED <<stream, topic, late, faults>>

MarkPublished(w) ==
    /\ batch[w] # <<>> /\ outcome[w] = "acknowledged" /\ OwnsHead(w)
    /\ SetPublished(w)
    /\ batch' = [batch EXCEPT ![w] = Tail(@)]
    /\ outcome' = [outcome EXCEPT ![w] = "none"]
    /\ UNCHANGED <<stream, topic, late, faults>>

\* the database fails: rolled back, or committed without an answer
MarkRaises(w) ==
    /\ batch[w] # <<>> /\ outcome[w] = "acknowledged"
    /\ Fault
    /\ UNCHANGED rows \/ (OwnsHead(w) /\ SetPublished(w))
    /\ outcome' = [outcome EXCEPT ![w] = "failed"]
    /\ UNCHANGED <<stream, topic, late, batch>>

\* mark_publish_failed: back off and release the claim
MarkFailed(w) ==
    /\ batch[w] # <<>> /\ outcome[w] = "failed" /\ OwnsHead(w)
    /\ LET e == Head(batch[w])
       IN rows' = [rows EXCEPT ![e].attempts = @ + 1, ![e].due = FALSE, ![e].claimedBy = NoWorker]
    /\ batch' = [batch EXCEPT ![w] = Tail(@)]
    /\ outcome' = [outcome EXCEPT ![w] = "none"]
    /\ UNCHANGED <<stream, topic, late, faults>>

\* the process ends and its successor starts with nothing in memory
Dies(w) == /\ batch' = [batch EXCEPT ![w] = <<>>]
           /\ outcome' = [outcome EXCEPT ![w] = "none"]
           /\ UNCHANGED <<stream, rows, topic>>

\* mark_publish_failed raises inside the handler of publish_batch, and run() has no other
MarkFailedRaises(w) == /\ batch[w] # <<>> /\ outcome[w] = "failed" /\ ~OwnsHead(w)
                       /\ Dies(w) /\ UNCHANGED <<late, faults>>

\* a crash at any point, or a database failure in claim_outbox or mark_publish_failed
WorkerCrash(w) == /\ batch[w] # <<>> /\ Fault /\ Dies(w)
                  /\ late' \in SUBSET late

\* next_attempt_at passes: at most min(300, 2^8) seconds after the failure
BackoffEnds(e) == /\ e \in DOMAIN rows /\ ~rows[e].due
                  /\ rows' = [rows EXCEPT ![e].due = TRUE]
                  /\ UNCHANGED <<stream, topic, late, batch, outcome, faults>>

WorkerStep(w) == \/ Claim(w) \/ PublishAcknowledged(w) \/ MarkPublished(w)
                 \/ MarkFailed(w) \/ MarkFailedRaises(w)

WorkerFails(w) == PublishRaises(w) \/ MarkRaises(w) \/ WorkerCrash(w)

OutboxNext == \/ \E a \in Aggregates : AppendEvent(a, stream[a])
              \/ \E w \in Workers : WorkerStep(w) \/ WorkerFails(w)
              \/ LateDelivery
              \/ \E e \in 1..MaxEvents : BackoffEnds(e)

OutboxFairness == /\ \A w \in Workers : WF_<<outboxVars, topic, faults>>(WorkerStep(w))
                  /\ \A e \in 1..MaxEvents : WF_<<outboxVars, topic, faults>>(BackoffEnds(e))

OutboxTypeOK == /\ stream \in [Aggregates -> Nat]
                /\ rows \in Seq(Row)
                /\ topic \in Seq(0..Len(rows))
                /\ late \subseteq DOMAIN rows
                /\ batch \in [Workers -> Seq(DOMAIN rows)]
                /\ outcome \in [Workers -> {"none", "acknowledged", "failed"}]
                /\ faults \in 0..MaxFaults

\* A row that says published has been acknowledged by the broker, whatever failed and
\* was repeated around it (postgres_event_store.py:158-169; the migrations' README says
\* that published_at is set only after the broker's acknowledgement).
PublishedReachedTheBroker ==
    \A e \in DOMAIN rows : rows[e].published => \E k \in DOMAIN topic : topic[k] = e

InBatch(e, w) == \E k \in DOMAIN batch[w] : batch[w][k] = e

\* No row is in the hands of two workers, and a worker only handles rows that its claim
\* still covers or that it has just published itself (the claim of lines 118-121 and the
\* claimed_by conditions of lines 133 and 138).
OneHandlerPerRow ==
    \A w \in Workers : \A k \in DOMAIN batch[w] :
        LET e == batch[w][k]
        IN /\ \A other \in Workers \ {w} : ~InBatch(e, other)
           /\ rows[e].claimedBy = w \/ (k = 1 /\ outcome[w] = "failed" /\ rows[e].published)

\* A row whose claim nobody remembers: claims do not expire, so it stays (line 119).
Orphaned(e) == /\ e \in DOMAIN rows /\ rows[e].claimedBy # NoWorker
               /\ ~InBatch(e, rows[e].claimedBy)
=============================================================================
