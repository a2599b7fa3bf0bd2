----------------------------- MODULE Integration -----------------------------
(* The boundary with the carrier's systems: records that arrive in any order *)
(* and repeatedly (integrations/ingestion.py), and the circuit breaker that   *)
(* callers of one adapter share (integrations/adapters/base.py).              *)
EXTENDS Naturals, Sequences

CONSTANTS RecordIds,      \* event identifiers of one tenant and source system
          Digests,        \* contents of a record
          Aggregates,     \* aggregates that records are about
          RecordTimes,    \* source timestamps
          AdapterCallers, \* threads that fetch from or publish to the adapter
          Threshold,      \* failure_threshold
          ResetTicks,     \* reset_seconds, in ticks of the clock
          MaxTicks,       \* bound on the clock
          MaxFailedCalls  \* bound on the failures counted since the last success

ASSUME IntegrationAssumption ==
    /\ RecordTimes \subseteq Nat \ {0}
    /\ Threshold \in Nat \ {0} /\ ResetTicks \in Nat \ {0}
    /\ MaxTicks \in Nat /\ MaxFailedCalls \in Nat

VARIABLES known,        \* _seen: the digests under each event identifier, one at most
          latest,       \* _latest, 0 for an aggregate without a record
          accepted,     \* _accepted
          deadLetters,  \* identifiers in _dead_letters
          breaker,      \* the circuit breaker's fields
          thread,       \* where each caller is in allow, its call, success or failure
          ticks         \* the monotonic clock

ingestionVars == <<known, latest, accepted, deadLetters>>
breakerVars == <<breaker, thread, ticks>>

IngestionInit == /\ known = [r \in RecordIds |-> {}]
                 /\ latest = [g \in Aggregates |-> 0]
                 /\ accepted = <<>>
                 /\ deadLetters = {}

DeadLetter(r) == deadLetters' = deadLetters \cup {r} /\ UNCHANGED <<known, latest, accepted>>

\* a naive timestamp or an unsupported contract, before anything else is looked at
IngestMalformed(r) == DeadLetter(r)

IngestCollision(r, digest) == known[r] \notin {{}, {digest}} /\ DeadLetter(r)

IngestDuplicate(r, digest) == known[r] = {digest} /\ UNCHANGED ingestionVars

\* the mapper refuses the record: it may be delivered again
IngestUnmappable(r) == known[r] = {} /\ DeadLetter(r)

\* Mutant: the timestamp of the last record is kept, not the newest
NewestMutant(previous, at) == at

Newest(previous, at) == IF at > previous THEN at ELSE previous

IngestNew(r, digest, g, at) ==
    /\ known[r] = {}
    /\ known' = [known EXCEPT ![r] = {digest}]
    /\ latest' = [latest EXCEPT ![g] = Newest(@, at)]
    /\ accepted' = Append(accepted, [id |-> r, aggregate |-> g, at |-> at,
                                     outOfOrder |-> at < latest[g]])
    /\ UNCHANGED deadLetters

IngestionNext == \E r \in RecordIds :
    \/ IngestMalformed(r) \/ IngestUnmappable(r)
    \/ \E d \in Digests : \/ IngestCollision(r, d) \/ IngestDuplicate(r, d)
                          \/ \E g \in Aggregates, at \in RecordTimes : IngestNew(r, d, g, at)

IngestionSpec == IngestionInit /\ [][IngestionNext]_ingestionVars

\* An event is accepted once, and of an aggregate's records the last one that is not marked
\* out of order is the newest of all, so that a projection which skips the marked ones ends
\* with the newest, in whatever order they came and came again (ingestion.py:87-108).
ProjectionEndsWithNewest ==
    /\ \A j, k \in DOMAIN accepted : accepted[j].id = accepted[k].id => j = k
    /\ \A j, k \in DOMAIN accepted :
          LET r == accepted[k]
          IN accepted[j].aggregate = r.aggregate /\ accepted[j].at > r.at
                => \/ r.outOfOrder
                   \/ \E n \in k+1..Len(accepted) : /\ accepted[n].aggregate = r.aggregate
                                                    /\ ~accepted[n].outOfOrder
                                                    /\ accepted[n].at >= accepted[j].at

Breaker == [state : {"closed", "open", "half_open"}, failures : Nat,
            openedAt : {{}} \cup {{t} : t \in Nat}]  \* None is {}

Steps == {"idle", "opened", "elapsed", "half_open", "calling",  \* allow, and the call
          "forgotten", "closing",                               \* success
          "count", "failed", "compare", "opening", "dating"}    \* failure

BreakerInit == /\ breaker = [state |-> "closed", failures |-> 0, openedAt |-> {}]
               /\ thread = [c \in AdapterCallers |-> [at |-> "idle", counted |-> 0]]
               /\ ticks = 0

\* The breaker has no lock: a caller reads or writes one field in a step, and carries only
\* what it read of the counter.  The clock is read in the step that uses it.
Goes(c, from, to, counted) ==
    /\ thread[c].at = from
    /\ thread' = [thread EXCEPT ![c] = [at |-> to, counted |-> counted]]
    /\ UNCHANGED ticks

Reads(c, from, to) == Goes(c, from, to, 0) /\ UNCHANGED breaker

Writes(c, from, to, new) == Goes(c, from, to, 0) /\ breaker' = new

\* allow() reads opened_at twice; if it has become None in between, the subtraction raises,
\* and that caller does not get through either
Allow(c) ==
    \/ Reads(c, "idle", IF breaker.state = "open" THEN "opened" ELSE "calling")
    \/ Reads(c, "opened", IF breaker.openedAt = {} THEN "idle" ELSE "elapsed")
    \/ Reads(c, "elapsed", IF \E t \in breaker.openedAt : ticks - t >= ResetTicks
                           THEN "half_open" ELSE "idle")
    \/ Writes(c, "half_open", "calling", [breaker EXCEPT !.state = "half_open"])

\* Mutant: the circuit is closed before the time of its opening is forgotten
CloseFirst(c) ==
    \/ Writes(c, "calling", "forgotten", [breaker EXCEPT !.failures = 0])
    \/ Writes(c, "forgotten", "closing", [breaker EXCEPT !.state = "closed"])
    \/ Writes(c, "closing", "idle", [breaker EXCEPT !.openedAt = {}])

\* success(), after an answer within the deadline, perhaps to a call from before the circuit
\* opened
Succeed(c) ==
    \/ Writes(c, "calling", "forgotten", [breaker EXCEPT !.failures = 0])
    \/ Writes(c, "forgotten", "closing", [breaker EXCEPT !.openedAt = {}])
    \/ Writes(c, "closing", "idle", [breaker EXCEPT !.state = "closed"])

\* failure(), after a timeout, an error, a naive page or an acknowledgement of another command
Fail(c) ==
    \/ Goes(c, "calling", "count", breaker.failures) /\ UNCHANGED breaker
    \/ /\ thread[c].counted < MaxFailedCalls
       /\ Writes(c, "count", "failed", [breaker EXCEPT !.failures = thread[c].counted + 1])
    \/ Reads(c, "failed", IF breaker.state = "half_open" THEN "opening" ELSE "compare")
    \/ Reads(c, "compare", IF breaker.failures >= Threshold THEN "opening" ELSE "idle")
    \/ Writes(c, "opening", "dating", [breaker EXCEPT !.state = "open"])
    \/ Writes(c, "dating", "idle", [breaker EXCEPT !.openedAt = {ticks}])

ClockTicks == ticks < MaxTicks /\ ticks' = ticks + 1 /\ UNCHANGED <<breaker, thread>>

BreakerNext == ClockTicks \/ \E c \in AdapterCallers : Allow(c) \/ Succeed(c) \/ Fail(c)

BreakerSpec == BreakerInit /\ [][BreakerNext]_breakerVars

\* However the reads and writes of several callers interleave, an open circuit has a time
\* from which allow() counts the reset, unless somebody is about to write it or to close the
\* circuit: otherwise it would refuse every caller for ever, since only a caller that it lets
\* through could close it (adapters/base.py:99-111).
OpenCircuitCanBeTried ==
    breaker.state = "open" =>
        \/ \E t \in breaker.openedAt : t <= ticks
        \/ \E c \in AdapterCallers : thread[c].at \in {"dating", "closing"}
=============================================================================
