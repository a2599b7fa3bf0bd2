------------------------ MODULE EventConsumer_proofs ------------------------
(***************************************************************************)
(* Proofs about the way of an event from the outbox to the projection, for *)
(* any number of aggregates, workers, consumers, events and faults.        *)
(***************************************************************************)
EXTENDS EventConsumer, SequenceTheorems, FiniteSetTheorems, TLAPS

InTopic(e) == \E k \in DOMAIN topic : topic[k] = e

\* An acknowledgement concerns the head of the batch, and came from the broker.
AcknowledgedIsInTopic ==
  \A w \in Workers : outcome[w] = "acknowledged" => batch[w] # <<>> /\ InTopic(Head(batch[w]))

\* A claim gives each row once.
BatchesAreDistinct ==
  \A w \in Workers : \A j, k \in DOMAIN batch[w] : batch[w][j] = batch[w][k] => j = k

Handled(k) == topic[k] \in consumed \/ k \in dlq

\* What a consumer has passed has been dealt with, and so has what it is about to commit.
PassedIsHandled ==
  /\ \A c \in Consumers :
       /\ stage[c] # "idle" => position[c] \in DOMAIN topic
       /\ stage[c] = "handled" => Handled(position[c])
       /\ \A k \in DOMAIN topic : k < position[c] => Handled(k)

ViewIsConsumed == \A k \in DOMAIN view : view[k] \in consumed

OutboxInv ==
  /\ OutboxTypeOK
  /\ PublishedReachedTheBroker
  /\ AcknowledgedIsInTopic
  /\ BatchesAreDistinct
  /\ OneHandlerPerRow

ConsumerInv ==
  /\ ConsumerTypeOK
  /\ NothingIsSkipped
  /\ PassedIsHandled
  /\ ViewIsConsumed

IInv == OutboxInv /\ ConsumerInv

-----------------------------------------------------------------------------
(* Sequences *)

\* What the head and the rest of a worker's batch are.
LEMMA BatchParts ==
  ASSUME OutboxTypeOK, NEW w \in Workers, batch[w] # <<>>
  PROVE  /\ Head(batch[w]) \in DOMAIN rows
         /\ Tail(batch[w]) \in Seq(DOMAIN rows)
         /\ 1 \in DOMAIN batch[w] /\ batch[w][1] = Head(batch[w])
         /\ \A k \in DOMAIN Tail(batch[w]) :
              k \in Nat /\ k >= 1 /\ k + 1 \in DOMAIN batch[w] /\ Tail(batch[w])[k] = batch[w][k + 1]
  <1>1. batch[w] \in Seq(DOMAIN rows)
    BY DEF OutboxTypeOK
  <1>2. /\ Head(batch[w]) \in DOMAIN rows /\ Tail(batch[w]) \in Seq(DOMAIN rows)
        /\ Len(Tail(batch[w])) = Len(batch[w]) - 1
        /\ \A k \in 1..Len(Tail(batch[w])) : Tail(batch[w])[k] = batch[w][k + 1]
    BY <1>1, HeadTailProperties
  <1>3. /\ Len(batch[w]) \in Nat \ {0} /\ DOMAIN batch[w] = 1..Len(batch[w])
        /\ DOMAIN Tail(batch[w]) = 1..Len(Tail(batch[w]))
    BY <1>1, <1>2, EmptySeq, LenProperties
  <1>4. batch[w][1] = Head(batch[w])
    BY <1>1, <1>3
  <1> QED  BY <1>2, <1>3, <1>4

\* A row that is changed stays a row, and the others stay as they are.
LEMMA ChangedRow ==
  ASSUME OutboxTypeOK, NEW e \in DOMAIN rows, NEW row \in Row
  PROVE  /\ [rows EXCEPT ![e] = row] \in Seq(Row)
         /\ Len([rows EXCEPT ![e] = row]) = Len(rows)
         /\ DOMAIN [rows EXCEPT ![e] = row] = DOMAIN rows
         /\ \A d \in DOMAIN rows : [rows EXCEPT ![e] = row][d] = IF d = e THEN row ELSE rows[d]
  <1>1. rows \in Seq(Row) /\ DOMAIN rows = 1..Len(rows)
    BY LenProperties DEF OutboxTypeOK
  <1> QED  BY <1>1, ExceptSeq

LEMMA RowsAreSequences ==
  ASSUME OutboxTypeOK
  PROVE  /\ Len(rows) \in Nat /\ DOMAIN rows = 1..Len(rows)
         /\ \A e \in DOMAIN rows : rows[e] \in Row
         /\ Len(topic) \in Nat /\ DOMAIN topic = 1..Len(topic)
         /\ \A k \in DOMAIN topic : topic[k] \in 0..Len(rows)
  <1>1. rows \in Seq(Row) /\ topic \in Seq(0..Len(rows))
    BY DEF OutboxTypeOK
  <1> QED  BY <1>1, LenProperties, ElementOfSeq

\* What is sent enters the topic at its end.
LEMMA TopicGrows ==
  ASSUME OutboxTypeOK, NEW e \in 0..Len(rows), topic' = Append(topic, e)
  PROVE  /\ topic' \in Seq(0..Len(rows)) /\ Len(topic') = Len(topic) + 1
         /\ DOMAIN topic \subseteq DOMAIN topic' /\ topic'[Len(topic) + 1] = e
         /\ Len(topic) + 1 \in DOMAIN topic'
         /\ \A k \in DOMAIN topic : topic'[k] = topic[k]
         /\ \A d : InTopic(d) => InTopic(d)'
  <1>1. topic \in Seq(0..Len(rows)) /\ DOMAIN topic = 1..Len(topic) /\ Len(topic) \in Nat
    BY RowsAreSequences DEF OutboxTypeOK
  <1>2. /\ topic' \in Seq(0..Len(rows)) /\ Len(topic') = Len(topic) + 1
        /\ topic'[Len(topic) + 1] = e /\ \A k \in DOMAIN topic : topic'[k] = topic[k]
    BY <1>1, AppendProperties
  <1>3. DOMAIN topic' = 1..Len(topic')
    BY <1>2, LenProperties
  <1> QED  BY <1>1, <1>2, <1>3 DEF InTopic

-----------------------------------------------------------------------------
(* A claim *)

\* The rows that a worker takes, each once, with none that somebody has.
LEMMA ClaimTakes ==
  ASSUME OutboxTypeOK, OutboxAssumption, NEW w \in Workers, Claim(w)
  PROVE  /\ rows' \in Seq(Row) /\ Len(rows') = Len(rows) /\ DOMAIN rows' = DOMAIN rows
         /\ batch' \in [Workers -> Seq(DOMAIN rows)]
         /\ \A v \in Workers \ {w} : batch'[v] = batch[v]
         /\ \A j, k \in DOMAIN batch'[w] : batch'[w][j] = batch'[w][k] => j = k
         /\ \A e \in DOMAIN rows : rows'[e].published = rows[e].published
         /\ \A k \in DOMAIN batch'[w] :
              LET e == batch'[w][k]
              IN e \in DOMAIN rows /\ rows[e].claimedBy = NoWorker /\ ~rows[e].published /\ rows'[e].claimedBy = w
         /\ \A e \in DOMAIN rows : (rows[e].claimedBy # NoWorker \/ rows[e].published) => rows'[e] = rows[e]
  <1> DEFINE claimable == {e \in DOMAIN rows : Claimable(e)}
             oldest == {e \in claimable : Cardinality({d \in claimable : d < e}) < BatchSize}
  <1>1. /\ batch[w] = <<>> /\ claimable # {}
        /\ \E taken \in [1..Cardinality(oldest) -> oldest] :
             /\ \A e \in oldest : \E k \in DOMAIN taken : taken[k] = e
             /\ batch' = [batch EXCEPT ![w] = taken]
        /\ rows' = [e \in DOMAIN rows |-> IF e \in oldest THEN [rows[e] EXCEPT !.claimedBy = w] ELSE rows[e]]
    BY DEF Claim
  <1>2. PICK taken \in [1..Cardinality(oldest) -> oldest] :
             /\ \A e \in oldest : \E k \in DOMAIN taken : taken[k] = e
             /\ batch' = [batch EXCEPT ![w] = taken]
    BY <1>1
  <1>3. /\ Len(rows) \in Nat /\ DOMAIN rows = 1..Len(rows)
        /\ \A e \in DOMAIN rows : rows[e] \in Row
    BY RowsAreSequences
  <1>4. oldest \subseteq DOMAIN rows /\ \A e \in oldest : rows[e].claimedBy = NoWorker /\ ~rows[e].published
    BY DEF Claimable
  <1>5. IsFiniteSet(oldest) /\ Cardinality(oldest) \in Nat
    <2>1. IsFiniteSet(DOMAIN rows)
      BY <1>3, FS_Interval
    <2> HIDE DEF oldest
    <2> QED  BY <1>4, <2>1, FS_Subset, FS_CardinalityType
  <1>6. taken \in Seq(DOMAIN rows) /\ batch'[w] = taken /\ DOMAIN taken = 1..Cardinality(oldest)
    <2>1. batch \in [Workers -> Seq(DOMAIN rows)]
      BY DEF OutboxTypeOK
    <2> HIDE DEF oldest
    <2>2. taken \in [1..Cardinality(oldest) -> DOMAIN rows]
      BY <1>4
    <2>3. taken \in Seq(DOMAIN rows)
      BY <1>5, <2>2, SeqDef
    <2> QED  BY <1>2, <2>1, <2>3
  <1>7. \A j, k \in DOMAIN taken : taken[j] = taken[k] => j = k
    <2> HIDE DEF oldest
    <2>1. IsFiniteSet(1..Cardinality(oldest)) /\ Cardinality(1..Cardinality(oldest)) = Cardinality(oldest)
      BY <1>5, FS_Interval
    <2>2. taken \in Surjection(1..Cardinality(oldest), oldest)
      BY <1>2, <1>6 DEF Surjection
    <2>3. taken \in Injection(1..Cardinality(oldest), oldest)
      BY <2>1, <2>2, FS_Surjection
    <2> QED  BY <2>3, <1>6 DEF Injection, IsInjective
  <1>8. rows' \in Seq(Row) /\ Len(rows') = Len(rows) /\ DOMAIN rows' = DOMAIN rows
    <2> HIDE DEF oldest
    <2>1. ASSUME NEW e \in DOMAIN rows
          PROVE  rows'[e] \in Row
      <3>1. rows[e] \in Row
        BY <1>3
      <3>2. [rows[e] EXCEPT !.claimedBy = w] \in Row
        BY <3>1 DEF Row
      <3>3. rows'[e] = rows[e] \/ rows'[e] = [rows[e] EXCEPT !.claimedBy = w]
        BY <1>1
      <3> QED  BY <3>1, <3>2, <3>3
    <2>2. rows' \in [1..Len(rows) -> Row]
      BY <1>1, <1>3, <2>1
    <2>3. rows' \in Seq(Row)
      BY <1>3, <2>2, SeqDef
    <2> QED  BY <1>3, <2>2, <2>3, LenProperties
  <1>9. /\ \A e \in DOMAIN rows : rows'[e].published = rows[e].published
        /\ \A e \in oldest : rows'[e].claimedBy = w
        /\ \A e \in DOMAIN rows : e \notin oldest => rows'[e] = rows[e]
    <2> HIDE DEF oldest
    <2> QED  BY <1>1, <1>3, <1>4 DEF Row
  <1> HIDE DEF oldest
  <1>10. batch' \in [Workers -> Seq(DOMAIN rows)] /\ \A v \in Workers \ {w} : batch'[v] = batch[v]
    BY <1>2, <1>6 DEF OutboxTypeOK
  <1>11. \A k \in DOMAIN taken : taken[k] \in oldest
    BY <1>2, <1>6
  <1> QED  BY <1>4, <1>6, <1>7, <1>8, <1>9, <1>10, <1>11

-----------------------------------------------------------------------------
(* The outbox *)

\* Rows and topic change at their ends only, as far as a consumer can tell.
Grows ==
  /\ Len(rows) <= Len(rows')
  /\ topic' = topic \/ \E e \in 0..Len(rows) : topic' = Append(topic, e)

\* The transaction of mark_published and that of mark_publish_failed change the head's row.
LEMMA MarksTheHead ==
  ASSUME OutboxTypeOK, NEW w \in Workers, batch[w] # <<>>, SetPublished(w)
  PROVE  LET h == Head(batch[w])
         IN /\ rows' \in Seq(Row) /\ Len(rows') = Len(rows) /\ DOMAIN rows' = DOMAIN rows
            /\ h \in DOMAIN rows /\ rows'[h].published /\ rows'[h].claimedBy = NoWorker
            /\ \A e \in DOMAIN rows \ {h} : rows'[e] = rows[e]
  <1> DEFINE h == Head(batch[w])
             row == [rows[h] EXCEPT !.published = TRUE, !.claimedBy = NoWorker]
  <1>1. h \in DOMAIN rows /\ rows[h] \in Row
    BY BatchParts, RowsAreSequences
  <1>2. row \in Row /\ row.published /\ row.claimedBy = NoWorker
    BY <1>1 DEF Row
  <1>3. rows' = [rows EXCEPT ![h] = row]
    BY <1>1 DEF SetPublished
  <1> HIDE DEF h, row
  <1>4. /\ rows' \in Seq(Row) /\ Len(rows') = Len(rows) /\ DOMAIN rows' = DOMAIN rows
        /\ \A d \in DOMAIN rows : rows'[d] = IF d = h THEN row ELSE rows[d]
    BY <1>1, <1>2, <1>3, ChangedRow
  <1>5. rows'[h].published /\ rows'[h].claimedBy = NoWorker /\ \A e \in DOMAIN rows \ {h} : rows'[e] = rows[e]
    BY <1>1, <1>2, <1>4
  <1> QED  BY <1>1, <1>4, <1>5 DEF h

LEMMA ReleasesTheHead ==
  ASSUME OutboxTypeOK, NEW w \in Workers, MarkFailed(w)
  PROVE  LET h == Head(batch[w])
         IN /\ rows' \in Seq(Row) /\ Len(rows') = Len(rows) /\ DOMAIN rows' = DOMAIN rows
            /\ h \in DOMAIN rows /\ rows'[h].published = rows[h].published /\ rows'[h].claimedBy = NoWorker
            /\ \A e \in DOMAIN rows \ {h} : rows'[e] = rows[e]
  <1> DEFINE h == Head(batch[w])
             row == [rows[h] EXCEPT !.attempts = @ + 1, !.due = FALSE, !.claimedBy = NoWorker]
  <1>1. h \in DOMAIN rows /\ rows[h] \in Row
    BY BatchParts, RowsAreSequences DEF MarkFailed
  <1> HIDE DEF h
  <1>2. row \in Row /\ row.published = rows[h].published /\ row.claimedBy = NoWorker
    <2>1. rows[h].attempts + 1 \in Nat
      BY <1>1 DEF Row
    <2>2. row \in Row
      BY <1>1, <2>1 DEF Row
    <2>3. row.published = rows[h].published
      BY <1>1 DEF Row
    <2>4. row.claimedBy = NoWorker
      BY <1>1 DEF Row
    <2> QED  BY <2>2, <2>3, <2>4
  <1>3. rows' = [rows EXCEPT ![h] = row]
    BY <1>1 DEF MarkFailed, h
  <1> HIDE DEF h, row
  <1>4. /\ rows' \in Seq(Row) /\ Len(rows') = Len(rows) /\ DOMAIN rows' = DOMAIN rows
        /\ \A d \in DOMAIN rows : rows'[d] = IF d = h THEN row ELSE rows[d]
    BY <1>3, <1>1, <1>2, ChangedRow
  <1>5. /\ rows'[h].published = rows[h].published /\ rows'[h].claimedBy = NoWorker
        /\ \A e \in DOMAIN rows \ {h} : rows'[e] = rows[e]
    BY <1>1, <1>2, <1>4
  <1> QED  BY <1>1, <1>4, <1>5 DEF h

LEMMA BackoffKeepsClaims ==
  ASSUME OutboxTypeOK, NEW e, BackoffEnds(e)
  PROVE  /\ rows' \in Seq(Row) /\ Len(rows') = Len(rows) /\ DOMAIN rows' = DOMAIN rows
         /\ \A d \in DOMAIN rows : rows'[d].published = rows[d].published /\ rows'[d].claimedBy = rows[d].claimedBy
  <1> DEFINE row == [rows[e] EXCEPT !.due = TRUE]
  <1>1. e \in DOMAIN rows /\ rows[e] \in Row
    BY RowsAreSequences DEF BackoffEnds
  <1>2. row \in Row /\ row.published = rows[e].published /\ row.claimedBy = rows[e].claimedBy
    BY <1>1 DEF Row
  <1>3. rows' = [rows EXCEPT ![e] = row]
    BY <1>1 DEF BackoffEnds
  <1> HIDE DEF row
  <1>4. /\ rows' \in Seq(Row) /\ Len(rows') = Len(rows) /\ DOMAIN rows' = DOMAIN rows
        /\ \A d \in DOMAIN rows : rows'[d] = IF d = e THEN row ELSE rows[d]
    BY <1>3, <1>1, <1>2, ChangedRow
  <1>5. \A d \in DOMAIN rows : rows'[d].published = rows[d].published /\ rows'[d].claimedBy = rows[d].claimedBy
    BY <1>2, <1>4, Zenon
  <1> QED  BY <1>4, <1>5

LEMMA AppendedEvent ==
  ASSUME OutboxTypeOK, NEW a \in Aggregates, AppendEvent(a, stream[a])
  PROVE  /\ stream' \in [Aggregates -> Nat]
         /\ rows' \in Seq(Row) /\ Len(rows') = Len(rows) + 1 /\ DOMAIN rows \subseteq DOMAIN rows'
         /\ DOMAIN rows' = 1..Len(rows) + 1
         /\ \A d \in DOMAIN rows : rows'[d] = rows[d]
         /\ ~rows'[Len(rows) + 1].published
  <1> DEFINE row == [aggregate |-> a, version |-> stream[a] + 1, claimedBy |-> NoWorker,
                     published |-> FALSE, attempts |-> 0, due |-> TRUE]
  <1>1. rows' = Append(rows, row) /\ stream' = [stream EXCEPT ![a] = stream[a] + 1]
    BY DEF AppendEvent
  <1>2. row \in Row /\ ~row.published /\ stream' \in [Aggregates -> Nat]
    BY <1>1 DEF Row, OutboxTypeOK
  <1>3. rows \in Seq(Row)
    BY DEF OutboxTypeOK
  <1> HIDE DEF row
  <1>4. /\ rows' \in Seq(Row) /\ Len(rows') = Len(rows) + 1
        /\ \A d \in 1..Len(rows) : rows'[d] = rows[d]
        /\ rows'[Len(rows) + 1] = row
    BY <1>1, <1>2, <1>3, AppendProperties
  <1> QED  BY <1>2, <1>3, <1>4, LenProperties

\* Batches that only shrink keep rows apart.
LEMMA HandlersAreKept ==
  ASSUME OneHandlerPerRow,
         \A v \in Workers : \A k \in DOMAIN batch'[v] :
           /\ \E j \in DOMAIN batch[v] : batch'[v][k] = batch[v][j]
           /\ \/ rows'[batch'[v][k]].claimedBy = v
              \/ k = 1 /\ outcome'[v] = "failed" /\ rows'[batch'[v][k]].published
  PROVE  OneHandlerPerRow'
  <1>1. ASSUME NEW v \in Workers, NEW u \in Workers \ {v}, NEW k \in DOMAIN batch'[v], NEW i \in DOMAIN batch'[u]
        PROVE  batch'[u][i] # batch'[v][k]
    BY DEF OneHandlerPerRow, InBatch
  <1> QED  BY <1>1 DEF OneHandlerPerRow, InBatch

\* When the head has been dealt with, nobody has it any more, and it is published only if
\* it was or the broker has it.
LEMMA HeadIsDone ==
  ASSUME OutboxInv, NEW w \in Workers, batch[w] # <<>>,
         rows' \in Seq(Row), Len(rows') = Len(rows), DOMAIN rows' = DOMAIN rows,
         \A e \in DOMAIN rows \ {Head(batch[w])} : rows'[e] = rows[e],
         rows'[Head(batch[w])].published => InTopic(Head(batch[w])),
         batch' = [batch EXCEPT ![w] = Tail(@)], outcome' = [outcome EXCEPT ![w] = "none"],
         UNCHANGED <<stream, topic, late, faults>>
  PROVE  OutboxInv'
  <1> DEFINE h == Head(batch[w])
  <1>1. /\ h \in DOMAIN rows /\ Tail(batch[w]) \in Seq(DOMAIN rows)
        /\ 1 \in DOMAIN batch[w] /\ batch[w][1] = h
        /\ \A k \in DOMAIN Tail(batch[w]) :
             k \in Nat /\ k >= 1 /\ k + 1 \in DOMAIN batch[w] /\ Tail(batch[w])[k] = batch[w][k + 1]
    BY BatchParts DEF OutboxInv
  <1>2. /\ batch \in [Workers -> Seq(DOMAIN rows)]
        /\ outcome \in [Workers -> {"none", "acknowledged", "failed"}]
    BY DEF OutboxInv, OutboxTypeOK
  <1>3. /\ batch'[w] = Tail(batch[w]) /\ outcome'[w] = "none"
        /\ \A v \in Workers \ {w} : batch'[v] = batch[v] /\ outcome'[v] = outcome[v]
    BY <1>2
  <1>4. OutboxTypeOK'
    BY <1>1, <1>2 DEF OutboxInv, OutboxTypeOK
  <1>5. PublishedReachedTheBroker'
    BY DEF OutboxInv, PublishedReachedTheBroker, InTopic
  <1>6. AcknowledgedIsInTopic'
    BY <1>3 DEF OutboxInv, AcknowledgedIsInTopic, InTopic
  <1>7. BatchesAreDistinct'
    BY <1>1, <1>3 DEF OutboxInv, BatchesAreDistinct
  <1>8. OneHandlerPerRow'
    <2>1. ASSUME NEW v \in Workers, NEW k \in DOMAIN batch'[v]
          PROVE  \E j \in DOMAIN batch[v] : batch'[v][k] = batch[v][j] /\ (v = w => j # 1) /\ (v # w => j = k)
      <3>1. CASE v = w
        <4>1. k \in DOMAIN Tail(batch[w]) /\ batch'[v][k] = Tail(batch[w])[k]
          BY <1>3, <3>1
        <4>2. k + 1 \in DOMAIN batch[v] /\ batch'[v][k] = batch[v][k + 1] /\ k + 1 # 1
          BY <1>1, <3>1, <4>1
        <4> QED  BY <3>1, <4>2
      <3>2. CASE v # w
        BY <1>3, <3>2
      <3> QED  BY <3>1, <3>2
    <2>2. ASSUME NEW v \in Workers, NEW k \in DOMAIN batch'[v]
          PROVE  \/ rows'[batch'[v][k]].claimedBy = v
                 \/ k = 1 /\ outcome'[v] = "failed" /\ rows'[batch'[v][k]].published
      <3>1. PICK j \in DOMAIN batch[v] : batch'[v][k] = batch[v][j] /\ (v = w => j # 1) /\ (v # w => j = k)
        BY <2>1
      <3>2. batch[v][j] # h
        <4>1. CASE v = w
          BY <1>1, <3>1, <4>1 DEF OutboxInv, BatchesAreDistinct
        <4>2. CASE v # w
          <5>1. ~InBatch(batch[v][j], w)
            BY <4>2 DEF OutboxInv, OneHandlerPerRow
          <5> QED  BY <1>1, <5>1 DEF InBatch
        <4> QED  BY <4>1, <4>2
      <3>3. batch[v][j] \in DOMAIN rows
        BY <1>2, ElementOfSeq, LenProperties
      <3>4. rows[batch[v][j]].claimedBy = v \/ (j = 1 /\ outcome[v] = "failed" /\ rows[batch[v][j]].published)
        BY DEF OutboxInv, OneHandlerPerRow
      <3>5. rows'[batch'[v][k]] = rows[batch[v][j]]
        BY <3>1, <3>2, <3>3
      <3> QED  BY <1>3, <3>1, <3>4, <3>5
    <2> QED  BY <2>1, <2>2, HandlersAreKept DEF OutboxInv
  <1> QED  BY <1>4, <1>5, <1>6, <1>7, <1>8 DEF OutboxInv

\* A publication adds to the topic and forgets nothing.
LEMMA PublicationsKept ==
  ASSUME OutboxInv, NEW w \in Workers, PublishAcknowledged(w) \/ PublishRaises(w)
  PROVE  OutboxInv' /\ Grows
  <1>1. /\ Head(batch[w]) \in DOMAIN rows /\ batch[w] # <<>> /\ outcome[w] = "none"
        /\ UNCHANGED <<stream, rows, batch>> /\ Len(rows) \in Nat /\ DOMAIN rows = 1..Len(rows)
    BY BatchParts, RowsAreSequences DEF OutboxInv, PublishAcknowledged, PublishRaises
  <1>2. OneHandlerPerRow' /\ BatchesAreDistinct'
    <2>1. \A v \in Workers : outcome[v] = "failed" => outcome'[v] = "failed"
      BY <1>1 DEF OutboxInv, OutboxTypeOK, PublishAcknowledged, PublishRaises
    <2>2. \A v \in Workers : \A k \in DOMAIN batch'[v] :
             \/ rows'[batch'[v][k]].claimedBy = v
             \/ k = 1 /\ outcome'[v] = "failed" /\ rows'[batch'[v][k]].published
      BY <1>1, <2>1 DEF OutboxInv, OneHandlerPerRow
    <2>3. OneHandlerPerRow'
      BY <1>1, <2>2, HandlersAreKept DEF OutboxInv
    <2> QED  BY <1>1, <2>3 DEF OutboxInv, BatchesAreDistinct
  <1>3. CASE PublishAcknowledged(w)
    <2>1. topic' = Append(topic, Head(batch[w])) /\ outcome' = [outcome EXCEPT ![w] = "acknowledged"]
          /\ UNCHANGED <<late, faults>>
      BY <1>3 DEF PublishAcknowledged
    <2>2. /\ topic' \in Seq(0..Len(rows)) /\ InTopic(Head(batch[w]))' /\ \A d : InTopic(d) => InTopic(d)'
      BY <1>1, <2>1, TopicGrows DEF OutboxInv, InTopic
    <2>3. OutboxTypeOK'
      BY <1>1, <2>1, <2>2 DEF OutboxInv, OutboxTypeOK
    <2>4. PublishedReachedTheBroker'
      BY <1>1, <2>2 DEF OutboxInv, PublishedReachedTheBroker, InTopic
    <2>5. AcknowledgedIsInTopic'
      BY <1>1, <2>1, <2>2 DEF OutboxInv, OutboxTypeOK, AcknowledgedIsInTopic, InTopic
    <2> QED  BY <1>1, <1>2, <2>1, <2>3, <2>4, <2>5 DEF OutboxInv, Grows
  <1>4. CASE PublishRaises(w)
    <2>1. /\ outcome' = [outcome EXCEPT ![w] = "failed"] /\ topic' = topic
          /\ late' \subseteq late \cup {Head(batch[w])} /\ faults < MaxFaults /\ faults' = faults + 1
      BY <1>4 DEF PublishRaises, Fault
    <2>2. OutboxTypeOK'
      BY <1>1, <2>1, OutboxAssumption DEF OutboxInv, OutboxTypeOK
    <2>3. PublishedReachedTheBroker' /\ AcknowledgedIsInTopic'
      BY <1>1, <2>1 DEF OutboxInv, OutboxTypeOK, PublishedReachedTheBroker, AcknowledgedIsInTopic, InTopic
    <2> QED  BY <1>1, <1>2, <2>1, <2>2, <2>3 DEF OutboxInv, Grows
  <1> QED  BY <1>3, <1>4

LEMMA MarksKept ==
  ASSUME OutboxInv, NEW w \in Workers, MarkPublished(w) \/ MarkFailed(w)
  PROVE  OutboxInv' /\ Grows
  <1> DEFINE h == Head(batch[w])
  <1>1. /\ batch[w] # <<>> /\ OwnsHead(w) /\ Len(rows) \in Nat
        /\ batch' = [batch EXCEPT ![w] = Tail(@)] /\ outcome' = [outcome EXCEPT ![w] = "none"]
        /\ UNCHANGED <<stream, topic, late, faults>>
    BY RowsAreSequences DEF OutboxInv, MarkPublished, MarkFailed
  <1>2. /\ rows' \in Seq(Row) /\ Len(rows') = Len(rows) /\ DOMAIN rows' = DOMAIN rows
        /\ \A e \in DOMAIN rows \ {h} : rows'[e] = rows[e]
        /\ rows'[h].published => InTopic(h)
    <2>1. CASE MarkPublished(w)
      <3>1. SetPublished(w) /\ InTopic(h)
        BY <2>1 DEF OutboxInv, MarkPublished, AcknowledgedIsInTopic
      <3> QED  BY <1>1, <3>1, MarksTheHead DEF OutboxInv
    <2>2. CASE MarkFailed(w)
      <3>1. ~rows[h].published
        BY <1>1 DEF OwnsHead
      <3>2. /\ rows' \in Seq(Row) /\ Len(rows') = Len(rows) /\ DOMAIN rows' = DOMAIN rows
            /\ rows'[h].published = rows[h].published
            /\ \A e \in DOMAIN rows \ {h} : rows'[e] = rows[e]
        BY <2>2, ReleasesTheHead DEF OutboxInv
      <3> QED  BY <3>1, <3>2
    <2> QED  BY <2>1, <2>2
  <1>3. OutboxInv'
    BY <1>1, <1>2, HeadIsDone
  <1> QED  BY <1>1, <1>2, <1>3 DEF Grows

LEMMA MarkRaisesKept ==
  ASSUME OutboxInv, NEW w \in Workers, MarkRaises(w)
  PROVE  OutboxInv' /\ Grows
  <1> DEFINE h == Head(batch[w])
  <1>1. /\ batch[w] # <<>> /\ h \in DOMAIN rows /\ InTopic(h) /\ Len(rows) \in Nat
        /\ outcome' = [outcome EXCEPT ![w] = "failed"]
        /\ faults < MaxFaults /\ faults' = faults + 1
        /\ UNCHANGED <<stream, topic, late, batch>>
    BY BatchParts, RowsAreSequences DEF OutboxInv, MarkRaises, Fault, AcknowledgedIsInTopic
  <1>2. /\ rows' \in Seq(Row) /\ Len(rows') = Len(rows) /\ DOMAIN rows' = DOMAIN rows
        /\ \A e \in DOMAIN rows \ {h} : rows'[e] = rows[e]
        /\ rows'[h] = rows[h] \/ rows'[h].published
    <2>1. CASE UNCHANGED rows
      BY <2>1 DEF OutboxInv, OutboxTypeOK
    <2>2. CASE SetPublished(w)
      BY <1>1, <2>2, MarksTheHead DEF OutboxInv
    <2> QED  BY <2>1, <2>2 DEF MarkRaises
  <1>3. OutboxTypeOK'
    BY <1>1, <1>2, OutboxAssumption DEF OutboxInv, OutboxTypeOK
  <1>4. PublishedReachedTheBroker'
    BY <1>1, <1>2 DEF OutboxInv, PublishedReachedTheBroker, InTopic
  <1>5. AcknowledgedIsInTopic' /\ BatchesAreDistinct'
    BY <1>1 DEF OutboxInv, OutboxTypeOK, AcknowledgedIsInTopic, InTopic, BatchesAreDistinct
  <1>6. OneHandlerPerRow'
    <2>1. ASSUME NEW v \in Workers, NEW k \in DOMAIN batch[v]
          PROVE  \/ rows'[batch[v][k]].claimedBy = v
                 \/ k = 1 /\ outcome'[v] = "failed" /\ rows'[batch[v][k]].published
      <3>1. /\ batch[v] \in Seq(DOMAIN rows) /\ batch[v][k] \in DOMAIN rows
            /\ rows[batch[v][k]].claimedBy = v \/ (k = 1 /\ outcome[v] = "failed" /\ rows[batch[v][k]].published)
            /\ outcome'[w] = "failed" /\ (v # w => outcome'[v] = outcome[v])
        BY <1>1, ElementOfSeq, LenProperties DEF OutboxInv, OutboxTypeOK, OneHandlerPerRow
      <3>2. CASE batch[v][k] # h
        BY <1>2, <3>1, <3>2
      <3>3. CASE batch[v][k] = h
        <4>1. v = w /\ k = 1
          BY <1>1, <3>3, BatchParts DEF OutboxInv, OneHandlerPerRow, InBatch, BatchesAreDistinct
        <4> QED  BY <1>2, <3>1, <3>3, <4>1
      <3> QED  BY <3>2, <3>3
    <2> QED  BY <1>1, <2>1, HandlersAreKept DEF OutboxInv
  <1> QED  BY <1>1, <1>2, <1>3, <1>4, <1>5, <1>6 DEF OutboxInv, Grows

LEMMA DeathsKept ==
  ASSUME OutboxInv, NEW w \in Workers, WorkerCrash(w) \/ MarkFailedRaises(w)
  PROVE  OutboxInv' /\ Grows
  <1>1. /\ batch' = [batch EXCEPT ![w] = <<>>] /\ outcome' = [outcome EXCEPT ![w] = "none"]
        /\ UNCHANGED <<stream, rows, topic>> /\ late' \subseteq late
        /\ faults' = faults \/ (faults < MaxFaults /\ faults' = faults + 1)
        /\ Len(rows) \in Nat
    BY RowsAreSequences DEF OutboxInv, WorkerCrash, MarkFailedRaises, Dies, Fault
  <1>2. /\ batch \in [Workers -> Seq(DOMAIN rows)]
        /\ outcome \in [Workers -> {"none", "acknowledged", "failed"}]
        /\ <<>> \in Seq(DOMAIN rows) /\ DOMAIN <<>> = {}
    BY EmptySeq DEF OutboxInv, OutboxTypeOK
  <1>3. /\ batch'[w] = <<>> /\ outcome'[w] = "none"
        /\ \A v \in Workers \ {w} : batch'[v] = batch[v] /\ outcome'[v] = outcome[v]
    BY <1>1, <1>2
  <1>4. OutboxTypeOK'
    BY <1>1, <1>2, OutboxAssumption DEF OutboxInv, OutboxTypeOK
  <1>5. PublishedReachedTheBroker' /\ AcknowledgedIsInTopic' /\ BatchesAreDistinct'
    BY <1>1, <1>2, <1>3 DEF OutboxInv, PublishedReachedTheBroker, AcknowledgedIsInTopic, InTopic, BatchesAreDistinct
  <1>6. \A v \in Workers : \A k \in DOMAIN batch'[v] :
           /\ \E j \in DOMAIN batch[v] : batch'[v][k] = batch[v][j]
           /\ \/ rows'[batch'[v][k]].claimedBy = v
              \/ k = 1 /\ outcome'[v] = "failed" /\ rows'[batch'[v][k]].published
    BY <1>1, <1>2, <1>3 DEF OutboxInv, OneHandlerPerRow
  <1>7. OneHandlerPerRow'
    BY <1>6, HandlersAreKept DEF OutboxInv
  <1> QED  BY <1>1, <1>4, <1>5, <1>7 DEF OutboxInv, Grows

LEMMA LateDeliveryKept ==
  ASSUME OutboxInv, LateDelivery
  PROVE  OutboxInv' /\ Grows
  <1>1. PICK e \in late : /\ topic' \in {topic, Append(topic, e)}
                          /\ late' = late \ {e}
                          /\ UNCHANGED <<stream, rows, batch, outcome, faults>>
    BY DEF LateDelivery
  <1>2. Len(rows) \in Nat /\ e \in 0..Len(rows)
    BY RowsAreSequences DEF OutboxInv, OutboxTypeOK
  <1>3. topic' \in Seq(0..Len(rows)) /\ \A d : InTopic(d) => InTopic(d)'
    BY <1>1, <1>2, TopicGrows DEF OutboxInv, OutboxTypeOK, InTopic
  <1>4. OutboxTypeOK'
    BY <1>1, <1>3 DEF OutboxInv, OutboxTypeOK
  <1>5. PublishedReachedTheBroker' /\ AcknowledgedIsInTopic'
    BY <1>1, <1>3 DEF OutboxInv, PublishedReachedTheBroker, AcknowledgedIsInTopic, InTopic
  <1>6. BatchesAreDistinct' /\ OneHandlerPerRow'
    BY <1>1 DEF OutboxInv, BatchesAreDistinct, OneHandlerPerRow, InBatch
  <1> QED  BY <1>1, <1>2, <1>4, <1>5, <1>6 DEF OutboxInv, Grows

LEMMA BackoffKept ==
  ASSUME OutboxInv, NEW e, BackoffEnds(e)
  PROVE  OutboxInv' /\ Grows
  <1>1. /\ rows' \in Seq(Row) /\ Len(rows') = Len(rows) /\ DOMAIN rows' = DOMAIN rows /\ Len(rows) \in Nat
        /\ \A d \in DOMAIN rows : rows'[d].published = rows[d].published /\ rows'[d].claimedBy = rows[d].claimedBy
        /\ UNCHANGED <<stream, topic, late, batch, outcome, faults>>
    BY BackoffKeepsClaims, RowsAreSequences DEF OutboxInv, BackoffEnds
  <1>2. OutboxTypeOK'
    BY <1>1 DEF OutboxInv, OutboxTypeOK
  <1>3. PublishedReachedTheBroker' /\ AcknowledgedIsInTopic' /\ BatchesAreDistinct'
    BY <1>1 DEF OutboxInv, PublishedReachedTheBroker, AcknowledgedIsInTopic, InTopic, BatchesAreDistinct
  <1>4. \A v \in Workers : \A k \in DOMAIN batch[v] : batch[v][k] \in DOMAIN rows
    BY ElementOfSeq, LenProperties DEF OutboxInv, OutboxTypeOK
  <1>5. OneHandlerPerRow'
    BY <1>1, <1>4 DEF OutboxInv, OneHandlerPerRow, InBatch
  <1> QED  BY <1>1, <1>2, <1>3, <1>5 DEF OutboxInv, Grows

LEMMA AppendKept ==
  ASSUME OutboxInv, NEW a \in Aggregates, AppendEvent(a, stream[a])
  PROVE  OutboxInv' /\ Grows
  <1>1. /\ stream' \in [Aggregates -> Nat]
        /\ rows' \in Seq(Row) /\ Len(rows') = Len(rows) + 1 /\ DOMAIN rows \subseteq DOMAIN rows'
        /\ DOMAIN rows' = 1..Len(rows) + 1
        /\ \A d \in DOMAIN rows : rows'[d] = rows[d]
        /\ ~rows'[Len(rows) + 1].published
    BY AppendedEvent DEF OutboxInv
  <1>2. Len(rows) \in Nat /\ DOMAIN rows = 1..Len(rows) /\ UNCHANGED <<topic, late, batch, outcome, faults>>
    BY RowsAreSequences DEF OutboxInv, AppendEvent
  <1>3. OutboxTypeOK'
    <2>1. topic \in Seq(0..Len(rows) + 1)
      BY <1>2, SeqMonotonic DEF OutboxInv, OutboxTypeOK
    <2>2. batch \in [Workers -> Seq(DOMAIN rows')]
      BY <1>1, SeqMonotonic DEF OutboxInv, OutboxTypeOK
    <2> QED  BY <1>1, <1>2, <2>1, <2>2 DEF OutboxInv, OutboxTypeOK
  <1>4. PublishedReachedTheBroker'
    BY <1>1, <1>2 DEF OutboxInv, PublishedReachedTheBroker, InTopic
  <1>5. AcknowledgedIsInTopic' /\ BatchesAreDistinct'
    BY <1>2 DEF OutboxInv, AcknowledgedIsInTopic, InTopic, BatchesAreDistinct
  <1>6. \A v \in Workers : \A k \in DOMAIN batch[v] : batch[v][k] \in DOMAIN rows
    BY ElementOfSeq, LenProperties DEF OutboxInv, OutboxTypeOK
  <1>7. OneHandlerPerRow'
    BY <1>1, <1>2, <1>6 DEF OutboxInv, OneHandlerPerRow, InBatch
  <1> QED  BY <1>1, <1>2, <1>3, <1>4, <1>5, <1>7 DEF OutboxInv, Grows

LEMMA ClaimKept ==
  ASSUME OutboxInv, NEW w \in Workers, Claim(w)
  PROVE  OutboxInv' /\ Grows
  <1>1. /\ rows' \in Seq(Row) /\ Len(rows') = Len(rows) /\ DOMAIN rows' = DOMAIN rows
        /\ batch' \in [Workers -> Seq(DOMAIN rows)]
        /\ \A v \in Workers \ {w} : batch'[v] = batch[v]
        /\ \A e \in DOMAIN rows : rows'[e].published = rows[e].published
    BY ClaimTakes, OutboxAssumption DEF OutboxInv
  <1>2. \A j, k \in DOMAIN batch'[w] : batch'[w][j] = batch'[w][k] => j = k
    BY ClaimTakes, OutboxAssumption DEF OutboxInv
  <1>3. \A k \in DOMAIN batch'[w] : /\ batch'[w][k] \in DOMAIN rows
                                    /\ rows[batch'[w][k]].claimedBy = NoWorker
                                    /\ ~rows[batch'[w][k]].published
                                    /\ rows'[batch'[w][k]].claimedBy = w
    BY ClaimTakes, OutboxAssumption DEF OutboxInv
  <1>4. \A e \in DOMAIN rows : (rows[e].claimedBy # NoWorker \/ rows[e].published) => rows'[e] = rows[e]
    BY ClaimTakes, OutboxAssumption DEF OutboxInv
  <1>5. batch[w] = <<>> /\ Len(rows) \in Nat /\ UNCHANGED <<stream, topic, late, outcome, faults>>
    BY RowsAreSequences DEF OutboxInv, Claim
  <1>6. OutboxTypeOK'
    BY <1>1, <1>5 DEF OutboxInv, OutboxTypeOK
  <1>7. PublishedReachedTheBroker'
    BY <1>1, <1>5 DEF OutboxInv, PublishedReachedTheBroker
  <1>8. AcknowledgedIsInTopic'
    <2>1. ASSUME NEW v \in Workers, outcome[v] = "acknowledged"
          PROVE  batch'[v] = batch[v] /\ batch[v] # <<>> /\ InTopic(Head(batch[v]))
      BY <1>1, <1>5, <2>1 DEF OutboxInv, AcknowledgedIsInTopic
    <2> QED  BY <1>5, <2>1 DEF AcknowledgedIsInTopic, InTopic
  <1>9. BatchesAreDistinct'
    BY <1>1, <1>2 DEF OutboxInv, BatchesAreDistinct
  <1>10. OneHandlerPerRow'
    <2>1. ASSUME NEW v \in Workers \ {w}, NEW k \in DOMAIN batch[v]
          PROVE  /\ rows'[batch[v][k]] = rows[batch[v][k]]
                 /\ rows[batch[v][k]].claimedBy # NoWorker \/ rows[batch[v][k]].published
      <3>1. batch[v][k] \in DOMAIN rows
        BY ElementOfSeq, LenProperties DEF OutboxInv, OutboxTypeOK
      <3>2. rows[batch[v][k]].claimedBy # NoWorker \/ rows[batch[v][k]].published
        BY OutboxAssumption DEF OutboxInv, OneHandlerPerRow
      <3> QED  BY <1>4, <3>1, <3>2
    <2>2. ASSUME NEW v \in Workers \ {w}, NEW k \in DOMAIN batch[v], NEW i \in DOMAIN batch'[w]
          PROVE  batch[v][k] # batch'[w][i]
      <3>1. rows[batch'[w][i]].claimedBy = NoWorker /\ ~rows[batch'[w][i]].published
        BY <1>3
      <3>2. rows[batch[v][k]].claimedBy # NoWorker \/ rows[batch[v][k]].published
        BY <2>1
      <3>3. ASSUME batch[v][k] = batch'[w][i] PROVE FALSE
        BY <3>1, <3>2, <3>3, Zenon
      <3> QED  BY <3>3
    <2>3. ASSUME NEW v \in Workers, NEW k \in DOMAIN batch'[v]
          PROVE  \/ rows'[batch'[v][k]].claimedBy = v
                 \/ k = 1 /\ outcome'[v] = "failed" /\ rows'[batch'[v][k]].published
      <3>1. CASE v = w
        BY <1>3, <3>1
      <3>2. CASE v # w
        <4>1. batch'[v] = batch[v] /\ outcome'[v] = outcome[v]
          BY <1>1, <1>5, <3>2
        <4>2. rows[batch[v][k]].claimedBy = v \/ (k = 1 /\ outcome[v] = "failed" /\ rows[batch[v][k]].published)
          BY <4>1 DEF OutboxInv, OneHandlerPerRow
        <4>3. rows'[batch[v][k]] = rows[batch[v][k]]
          BY <2>1, <3>2, <4>1
        <4> QED  BY <4>1, <4>2, <4>3
      <3> QED  BY <3>1, <3>2
    <2>4. ASSUME NEW v \in Workers, NEW u \in Workers \ {v}, NEW k \in DOMAIN batch'[v], NEW i \in DOMAIN batch'[u]
          PROVE  batch'[u][i] # batch'[v][k]
      <3>1. CASE v # w /\ u # w
        <4>1. batch'[v] = batch[v] /\ batch'[u] = batch[u]
          BY <1>1, <3>1
        <4> QED  BY <4>1 DEF OutboxInv, OneHandlerPerRow, InBatch
      <3>2. CASE v = w
        <4>1. batch'[u] = batch[u] /\ u \in Workers \ {w}
          BY <1>1, <3>2
        <4> QED  BY <2>2, <3>2, <4>1
      <3>3. CASE u = w
        <4>1. batch'[v] = batch[v] /\ v \in Workers \ {w}
          BY <1>1, <3>3
        <4> QED  BY <2>2, <3>3, <4>1
      <3> QED  BY <3>1, <3>2, <3>3
    <2> QED  BY <2>3, <2>4 DEF OneHandlerPerRow, InBatch
  <1> QED  BY <1>1, <1>5, <1>6, <1>7, <1>8, <1>9, <1>10 DEF OutboxInv, Grows

LEMMA OutboxStep ==
  ASSUME OutboxInv, OutboxNext
  PROVE  OutboxInv' /\ Grows
  BY AppendKept, ClaimKept, PublicationsKept, MarksKept, MarkRaisesKept, DeathsKept, LateDeliveryKept, BackoffKept
  DEF OutboxNext, WorkerStep, WorkerFails

-----------------------------------------------------------------------------
(* The consumers *)

\* What the outbox does leaves the consumers' evidence alone: the topic only grows.
LEMMA GrowthKept ==
  ASSUME OutboxTypeOK, OutboxTypeOK', ConsumerInv, Grows, UNCHANGED consumerVars
  PROVE  ConsumerInv'
  <1>1. /\ Len(rows) \in Nat /\ DOMAIN rows = 1..Len(rows)
        /\ Len(topic) \in Nat /\ DOMAIN topic = 1..Len(topic)
        /\ Len(rows') \in Nat /\ DOMAIN rows' = 1..Len(rows')
        /\ Len(topic') \in Nat /\ DOMAIN topic' = 1..Len(topic')
    <2>1. /\ rows \in Seq(Row) /\ topic \in Seq(0..Len(rows))
          /\ rows' \in Seq(Row) /\ topic' \in Seq(0..Len(rows'))
      BY DEF OutboxTypeOK, Row
    <2> QED  BY <2>1, LenProperties
  <1>2. Len(topic) <= Len(topic') /\ \A k \in DOMAIN topic : topic'[k] = topic[k]
    <2>1. CASE topic' = topic
      BY <1>1, <2>1
    <2>2. CASE \E e \in 0..Len(rows) : topic' = Append(topic, e)
      <3>1. Len(topic') = Len(topic) + 1 /\ \A k \in DOMAIN topic : topic'[k] = topic[k]
        BY <2>2, TopicGrows
      <3> QED  BY <1>1, <3>1
    <2> QED  BY <2>1, <2>2 DEF Grows
  <1>3. DOMAIN rows \subseteq DOMAIN rows' /\ DOMAIN topic \subseteq DOMAIN topic'
    <2>1. Len(rows) <= Len(rows')
      BY DEF Grows
    <2> QED  BY <1>1, <1>2, <2>1
  <1>4. UNCHANGED <<owner, committed, position, stage, consumed, checkpoint, view, dlq>>
    BY DEF consumerVars
  <1>5. ConsumerTypeOK'
    <2>1. view \in Seq(DOMAIN rows')
      BY <1>3, SeqMonotonic DEF ConsumerInv, ConsumerTypeOK
    <2> QED  BY <1>1, <1>2, <1>3, <1>4, <2>1 DEF ConsumerInv, ConsumerTypeOK
  <1>6. committed \in 0..Len(topic) /\ checkpoint \in 0..Len(topic) /\ position \in [Consumers -> 1..Len(topic) + 1]
    BY DEF ConsumerInv, ConsumerTypeOK
  <1>7. NothingIsSkipped'
    BY <1>1, <1>2, <1>4, <1>6 DEF ConsumerInv, NothingIsSkipped
  <1>8. PassedIsHandled'
    BY SMTT(30), <1>1, <1>2, <1>4, <1>6 DEF ConsumerInv, PassedIsHandled, Handled
  <1>9. ViewIsConsumed'
    BY <1>4 DEF ConsumerInv, ViewIsConsumed
  <1> QED  BY <1>5, <1>7, <1>8, <1>9 DEF ConsumerInv

LEMMA ForeignMessageKept ==
  ASSUME IInv, ForeignMessage
  PROVE  IInv'
  <1>1. /\ topic' = Append(topic, 0) /\ Len(rows) \in Nat
        /\ UNCHANGED <<stream, rows, late, batch, outcome, faults>> /\ UNCHANGED consumerVars
    BY RowsAreSequences DEF IInv, OutboxInv, ForeignMessage, Foreign, outboxVars
  <1>2. topic' \in Seq(0..Len(rows)) /\ \A d : InTopic(d) => InTopic(d)'
    BY <1>1, TopicGrows DEF IInv, OutboxInv, InTopic
  <1>3. OutboxTypeOK'
    BY <1>1, <1>2 DEF IInv, OutboxInv, OutboxTypeOK
  <1>4. PublishedReachedTheBroker' /\ AcknowledgedIsInTopic'
    BY <1>1, <1>2 DEF IInv, OutboxInv, PublishedReachedTheBroker, AcknowledgedIsInTopic, InTopic
  <1>5. BatchesAreDistinct' /\ OneHandlerPerRow'
    BY <1>1 DEF IInv, OutboxInv, BatchesAreDistinct, OneHandlerPerRow, InBatch
  <1>6. Grows
    BY <1>1 DEF Grows
  <1>7. ConsumerInv'
    BY <1>1, <1>3, <1>6, GrowthKept DEF IInv, OutboxInv
  <1> QED  BY <1>3, <1>4, <1>5, <1>7 DEF IInv, OutboxInv

\* A consumer changes nothing of the outbox.
LEMMA OutboxUntouched ==
  ASSUME OutboxInv, UNCHANGED <<outboxVars, topic>>, faults' \in 0..MaxFaults
  PROVE  OutboxInv'
  BY DEF OutboxInv, outboxVars, OutboxTypeOK, Row, PublishedReachedTheBroker, AcknowledgedIsInTopic, InTopic,
         BatchesAreDistinct, OneHandlerPerRow, InBatch

\* The facts about types that the actions of a consumer need.
LEMMA ConsumerFacts ==
  ASSUME IInv, NEW c \in Consumers
  PROVE  /\ Len(topic) \in Nat /\ DOMAIN topic = 1..Len(topic)
         /\ \A k \in DOMAIN topic : topic[k] \in 0..Len(rows)
         /\ DOMAIN rows = 1..Len(rows) /\ Len(rows) \in Nat
         /\ committed \in 0..Len(topic) /\ checkpoint \in 0..Len(topic)
         /\ position \in [Consumers -> 1..Len(topic) + 1]
         /\ stage \in [Consumers -> {"idle", "polled", "handled"}]
  BY RowsAreSequences DEF IInv, OutboxInv, ConsumerInv, ConsumerTypeOK

LEMMA PollKept ==
  ASSUME IInv, NEW c \in Consumers, Poll(c)
  PROVE  ConsumerInv'
  <1>1. /\ position[c] \in DOMAIN topic /\ stage' = [stage EXCEPT ![c] = "polled"]
        /\ UNCHANGED <<rows, topic, owner, committed, position, consumed, checkpoint, view, dlq>>
    BY ConsumerFacts DEF Poll, outboxVars
  <1>2. ConsumerTypeOK' /\ NothingIsSkipped' /\ ViewIsConsumed'
    BY <1>1, ConsumerFacts DEF IInv, ConsumerInv, ConsumerTypeOK, NothingIsSkipped, ViewIsConsumed
  <1>3. PassedIsHandled'
    BY <1>1, ConsumerFacts DEF IInv, ConsumerInv, PassedIsHandled, Handled
  <1> QED  BY <1>2, <1>3 DEF ConsumerInv

LEMMA DeadLetterKept ==
  ASSUME IInv, NEW c \in Consumers, DeadLetter(c)
  PROVE  ConsumerInv'
  <1>1. /\ position[c] \in DOMAIN topic /\ stage' = [stage EXCEPT ![c] = "handled"]
        /\ dlq' = dlq \cup {position[c]}
        /\ UNCHANGED <<rows, topic, owner, committed, position, consumed, checkpoint, view>>
    BY DEF DeadLetter, outboxVars, IInv, ConsumerInv, PassedIsHandled
  <1>2. ConsumerTypeOK' /\ NothingIsSkipped' /\ ViewIsConsumed'
    BY <1>1, ConsumerFacts DEF IInv, ConsumerInv, ConsumerTypeOK, NothingIsSkipped, ViewIsConsumed
  <1>3. PassedIsHandled'
    BY <1>1, ConsumerFacts DEF IInv, ConsumerInv, PassedIsHandled, Handled
  <1> QED  BY <1>2, <1>3 DEF ConsumerInv

\* An event enters the view with its consumed_event, and only if that is new.
LEMMA ApplyKept ==
  ASSUME IInv, NEW c \in Consumers, Apply(c)
  PROVE  ConsumerInv'
  <1> DEFINE e == topic[position[c]]
  <1>1. /\ position[c] \in DOMAIN topic /\ stage' = [stage EXCEPT ![c] = "handled"]
        /\ UNCHANGED <<rows, topic, owner, committed, position, dlq>>
    BY DEF Apply, outboxVars, IInv, ConsumerInv, PassedIsHandled
  <1>2. e \in DOMAIN rows
    BY <1>1, ConsumerFacts DEF Apply, Polled, Foreign
  <1>3. \/ e \in consumed /\ UNCHANGED <<consumed, view, checkpoint>>
        \/ /\ consumed' = consumed \cup {e} /\ view' = Append(view, e)
           /\ checkpoint' = IF checkpoint < position[c] THEN position[c] ELSE checkpoint
    BY DEF Apply, Polled, Larger
  <1>4. consumed \subseteq consumed' /\ consumed' \subseteq DOMAIN rows /\ e \in consumed'
    BY <1>2, <1>3 DEF IInv, ConsumerInv, ConsumerTypeOK
  <1>5. view' \in Seq(DOMAIN rows) /\ \A k \in DOMAIN view' : view'[k] \in consumed'
    <2>1. view \in Seq(DOMAIN rows) /\ DOMAIN view = 1..Len(view) /\ Len(view) \in Nat
      BY LenProperties DEF IInv, ConsumerInv, ConsumerTypeOK
    <2>2. CASE UNCHANGED view
      BY <1>4, <2>1, <2>2 DEF IInv, ConsumerInv, ViewIsConsumed
    <2>3. CASE view' = Append(view, e)
      <3>1. /\ view' \in Seq(DOMAIN rows) /\ Len(view') = Len(view) + 1
            /\ \A k \in 1..Len(view) : view'[k] = view[k]
            /\ view'[Len(view) + 1] = e
        BY <1>2, <2>1, <2>3, AppendProperties
      <3>2. DOMAIN view' = 1..Len(view) + 1
        BY <3>1, LenProperties
      <3> QED  BY <1>4, <2>1, <3>1, <3>2 DEF IInv, ConsumerInv, ViewIsConsumed
    <2> QED  BY <1>3, <2>2, <2>3
  <1>6. checkpoint' \in 0..Len(topic)
    BY <1>1, <1>3, ConsumerFacts
  <1>7. ConsumerTypeOK'
    BY <1>1, <1>4, <1>5, <1>6 DEF IInv, ConsumerInv, ConsumerTypeOK
  <1>8. NothingIsSkipped'
    <2>1. \A k \in DOMAIN topic : k <= checkpoint' => k <= checkpoint \/ k < position[c] \/ k = position[c]
      BY <1>1, <1>3, ConsumerFacts
    <2> QED  BY <1>1, <1>4, <2>1 DEF IInv, ConsumerInv, NothingIsSkipped, PassedIsHandled, Handled
  <1>9. PassedIsHandled'
    BY <1>1, <1>4, ConsumerFacts DEF IInv, ConsumerInv, PassedIsHandled, Handled
  <1>10. ViewIsConsumed'
    BY <1>5 DEF ViewIsConsumed
  <1> QED  BY <1>7, <1>8, <1>9, <1>10 DEF ConsumerInv

LEMMA CommitOffsetKept ==
  ASSUME IInv, NEW c \in Consumers, CommitOffset(c)
  PROVE  ConsumerInv'
  <1>1. /\ position[c] \in DOMAIN topic /\ stage' = [stage EXCEPT ![c] = "idle"] /\ Handled(position[c])
        /\ committed' = position[c] /\ position' = [position EXCEPT ![c] = @ + 1]
        /\ UNCHANGED <<rows, topic, owner, consumed, checkpoint, view, dlq>>
    BY DEF CommitOffset, outboxVars, IInv, ConsumerInv, PassedIsHandled
  <1>2. ConsumerTypeOK' /\ ViewIsConsumed'
    BY <1>1, ConsumerFacts DEF IInv, ConsumerInv, ConsumerTypeOK, ViewIsConsumed
  <1>3. NothingIsSkipped'
    BY <1>1, ConsumerFacts DEF IInv, ConsumerInv, NothingIsSkipped, PassedIsHandled, Handled
  <1>4. PassedIsHandled'
    BY <1>1, ConsumerFacts DEF IInv, ConsumerInv, PassedIsHandled, Handled
  <1> QED  BY <1>2, <1>3, <1>4 DEF ConsumerInv

LEMMA RestartKept ==
  ASSUME IInv, NEW c \in Consumers, Restarts(c), owner' \in Consumers
  PROVE  ConsumerInv'
  <1>1. /\ position' = [position EXCEPT ![c] = committed + 1] /\ stage' = [stage EXCEPT ![c] = "idle"]
        /\ UNCHANGED <<rows, topic, committed, consumed, checkpoint, view, dlq>>
    BY DEF Restarts, outboxVars
  <1>2. ConsumerTypeOK' /\ NothingIsSkipped' /\ ViewIsConsumed'
    BY <1>1, ConsumerFacts DEF IInv, ConsumerInv, ConsumerTypeOK, NothingIsSkipped, ViewIsConsumed
  <1>3. PassedIsHandled'
    BY <1>1, ConsumerFacts DEF IInv, ConsumerInv, NothingIsSkipped, PassedIsHandled, Handled
  <1> QED  BY <1>2, <1>3 DEF ConsumerInv

-----------------------------------------------------------------------------
(* The whole *)

LEMMA InitKept ==
  ASSUME PublicationInit
  PROVE  IInv
  <1>1. <<>> \in Seq(Row) /\ Len(<<>>) = 0 /\ DOMAIN <<>> = {} /\ \A S : <<>> \in Seq(S)
    BY EmptySeq
  <1>2. OutboxInv
    BY <1>1, OutboxAssumption
    DEF PublicationInit, OutboxInit, OutboxInv, OutboxTypeOK, PublishedReachedTheBroker, AcknowledgedIsInTopic,
        BatchesAreDistinct, OneHandlerPerRow
  <1>3. ConsumerInv
    BY <1>1
    DEF PublicationInit, OutboxInit, ConsumerInit, ConsumerInv, ConsumerTypeOK, NothingIsSkipped, PassedIsHandled,
        ViewIsConsumed
  <1> QED  BY <1>2, <1>3 DEF IInv

LEMMA StepKept ==
  ASSUME IInv, [PublicationNext]_publicationVars
  PROVE  IInv'
  <1>1. CASE OutboxNext /\ UNCHANGED consumerVars
    <2>1. OutboxInv' /\ Grows
      BY <1>1, OutboxStep DEF IInv
    <2>2. ConsumerInv'
      BY <1>1, <2>1, GrowthKept DEF IInv, OutboxInv
    <2> QED  BY <2>1, <2>2 DEF IInv
  <1>2. CASE ForeignMessage
    BY <1>2, ForeignMessageKept
  <1>3. ASSUME NEW c \in Consumers, ConsumerStep(c) \/ ConsumerCrash(c) \/ Rebalance(c)
        PROVE  IInv'
    <2>1. UNCHANGED <<outboxVars, topic>> /\ faults' \in 0..MaxFaults
      BY <1>3, OutboxAssumption
      DEF ConsumerStep, ConsumerCrash, Rebalance, Poll, DeadLetter, Apply, CommitOffset, CommitRefused, Restarts, Fault,
          IInv, OutboxInv, OutboxTypeOK
    <2>2. OutboxInv'
      BY <2>1, OutboxUntouched DEF IInv
    <2>3. CASE ConsumerCrash(c) \/ Rebalance(c) \/ CommitRefused(c)
      <3>1. Restarts(c) /\ owner' \in Consumers
        BY <2>3 DEF ConsumerCrash, Rebalance, CommitRefused, IInv, ConsumerInv, ConsumerTypeOK
      <3> QED  BY <2>2, <3>1, RestartKept DEF IInv
    <2>4. CASE Poll(c) \/ DeadLetter(c) \/ Apply(c) \/ CommitOffset(c)
      BY <2>2, <2>4, PollKept, DeadLetterKept, ApplyKept, CommitOffsetKept DEF IInv
    <2> QED  BY <1>3, <2>3, <2>4 DEF ConsumerStep
  <1>4. CASE UNCHANGED publicationVars
    <2>1. OutboxInv'
      BY <1>4, OutboxUntouched DEF publicationVars, IInv, OutboxInv, OutboxTypeOK
    <2>2. Grows
      BY <1>4, RowsAreSequences DEF publicationVars, outboxVars, Grows, IInv, OutboxInv
    <2>3. ConsumerInv'
      BY <1>4, <2>1, <2>2, GrowthKept DEF publicationVars, IInv, OutboxInv
    <2> QED  BY <2>1, <2>3 DEF IInv
  <1> QED  BY <1>1, <1>2, <1>3, <1>4 DEF PublicationNext, ConsumerNext

\* All tables, batches and positions have their types.
THEOREM TypeCorrect == PublicationSpec => []PublicationTypeOK
  <1>1. IInv => PublicationTypeOK
    BY DEF IInv, OutboxInv, ConsumerInv, PublicationTypeOK
  <1> QED  BY <1>1, InitKept, StepKept, PTL DEF PublicationSpec

\* Whatever fails, a row that says published is in the broker's topic.
THEOREM PublishedMeansDelivered == PublicationSpec => []PublishedReachedTheBroker
  <1>1. IInv => PublishedReachedTheBroker
    BY DEF IInv, OutboxInv
  <1> QED  BY <1>1, InitKept, StepKept, PTL DEF PublicationSpec

\* However many publishers there are, no two of them handle one row.
THEOREM RowsAreHandledOnce == PublicationSpec => []OneHandlerPerRow
  <1>1. IInv => OneHandlerPerRow
    BY DEF IInv, OutboxInv
  <1> QED  BY <1>1, InitKept, StepKept, PTL DEF PublicationSpec

\* No offset passes a message that is neither applied nor a dead letter.
THEOREM NothingEverSkipped == PublicationSpec => []NothingIsSkipped
  <1>1. IInv => NothingIsSkipped
    BY DEF IInv, ConsumerInv
  <1> QED  BY <1>1, InitKept, StepKept, PTL DEF PublicationSpec

\* The publication implements ExactlyOnce: an append commits an event, and what the
\* consumers apply is committed and not yet in the projection.
THEOREM DeliveredOnce == PublicationSpec => ImplementsExactlyOnce
  <1>1. PublicationInit => Delivery!Init
    BY EmptySeq DEF PublicationInit, OutboxInit, ConsumerInit, Delivery!Init
  <1>2. IInv /\ [PublicationNext]_publicationVars => [Delivery!Next]_<<Len(rows), view>>
    <2> SUFFICES ASSUME IInv, [PublicationNext]_publicationVars
                 PROVE  [Delivery!Next]_<<Len(rows), view>>
      OBVIOUS
    <2>1. CASE OutboxNext /\ UNCHANGED consumerVars
      <3>1. view' = view
        BY <2>1 DEF consumerVars
      <3>2. Len(rows') = Len(rows) \/ Len(rows') = Len(rows) + 1
        <4>1. ASSUME NEW a \in Aggregates, AppendEvent(a, stream[a]) PROVE Len(rows') = Len(rows) + 1
          BY <4>1, AppendedEvent DEF IInv, OutboxInv
        <4>2. ASSUME NEW w \in Workers, Claim(w) PROVE Len(rows') = Len(rows)
          BY <4>2, ClaimTakes, OutboxAssumption DEF IInv, OutboxInv
        <4>3. ASSUME NEW w \in Workers, MarkPublished(w) \/ MarkRaises(w) PROVE Len(rows') = Len(rows)
          BY <4>3, MarksTheHead DEF IInv, OutboxInv, MarkPublished, MarkRaises
        <4>4. ASSUME NEW w \in Workers, MarkFailed(w) PROVE Len(rows') = Len(rows)
          BY <4>4, ReleasesTheHead DEF IInv, OutboxInv
        <4>5. ASSUME NEW e, BackoffEnds(e) PROVE Len(rows') = Len(rows)
          BY <4>5, BackoffKeepsClaims DEF IInv, OutboxInv
        <4>6. ASSUME NEW w \in Workers,
                     PublishAcknowledged(w) \/ PublishRaises(w) \/ WorkerCrash(w) \/ MarkFailedRaises(w)
              PROVE  Len(rows') = Len(rows)
          BY <4>6 DEF PublishAcknowledged, PublishRaises, WorkerCrash, MarkFailedRaises, Dies
        <4>7. CASE LateDelivery
          BY <4>7 DEF LateDelivery
        <4> QED  BY <2>1, <4>1, <4>2, <4>3, <4>4, <4>5, <4>6, <4>7 DEF OutboxNext, WorkerStep, WorkerFails
      <3> QED  BY <3>1, <3>2 DEF Delivery!Next, Delivery!Commit
    <2>2. ASSUME NEW c \in Consumers, Apply(c)
          PROVE  [Delivery!Next]_<<Len(rows), view>>
      <3>1. rows' = rows /\ (view' = view \/ (Polled(c) \notin consumed /\ view' = Append(view, Polled(c))))
        BY <2>2 DEF Apply, outboxVars
      <3>2. Polled(c) \in 1..Len(rows)
        BY <2>2, ConsumerFacts DEF Apply, Polled, Foreign, IInv, ConsumerInv, PassedIsHandled
      <3>3. Polled(c) \notin consumed => ~Delivery!IsApplied(Polled(c))
        BY DEF Delivery!IsApplied, IInv, ConsumerInv, ViewIsConsumed
      <3> QED  BY <3>1, <3>2, <3>3 DEF Delivery!Next, Delivery!Deliver
    <2>3. ASSUME NEW c \in Consumers,
                 \/ Poll(c) \/ DeadLetter(c) \/ CommitOffset(c) \/ CommitRefused(c)
                 \/ ConsumerCrash(c) \/ Rebalance(c)
          PROVE  UNCHANGED <<rows, view>>
      BY <2>3 DEF Poll, DeadLetter, CommitOffset, CommitRefused, ConsumerCrash, Rebalance, Restarts, outboxVars
    <2>4. CASE ForeignMessage \/ UNCHANGED publicationVars
      BY <2>4 DEF ForeignMessage, publicationVars, outboxVars, consumerVars
    <2> QED  BY <2>1, <2>2, <2>3, <2>4 DEF PublicationNext, ConsumerNext, ConsumerStep
  <1> QED  BY <1>1, <1>2, InitKept, StepKept, PTL DEF PublicationSpec, ImplementsExactlyOnce, Delivery!Spec
=============================================================================
