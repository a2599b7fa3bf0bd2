----------------------------- MODULE EventStream -----------------------------
(* The in-memory crew event store, its materialized view and the reconciler  *)
(* of moves between partitions (state/event_store.py).  An event is known by  *)
(* its place in _all_events; times are minutes.  The payload is one value: a  *)
(* flight and its destination, a qualification, or the partition moved to.    *)
EXTENDS Naturals, Sequences, FiniteSets, FiniteSetsExt, SequencesExt

CONSTANTS CrewIds, Partitions,
          Payloads,     \* flights and qualifications
          EventTimes,   \* timestamps that callers put on events
          MaxJournal    \* bound on the events appended by callers

ASSUME StreamAssumption == MaxJournal \in Nat /\ EventTimes \subseteq Nat

VARIABLES journal,    \* _all_events, each with its sequence
          crewView    \* the view that every appended event has been applied to

streamVars == <<journal, crewView>>

DutyKinds == {"DUTY_START", "DUTY_END", "REST_PERIOD_START"}
PayloadKinds == {"FLIGHT_ASSIGNED", "SCHEDULE_REJECTED", "QUALIFICATION_ADDED"}

Absent == [exists |-> FALSE]

StreamVersion(log, p, c) == Cardinality({k \in DOMAIN log : log[k].part = p /\ log[k].crew = c})

\* EventStore.append, past the checks
Appended(log, e) ==
    Append(log, [e EXCEPT !.id = Len(log) + 1, !.seq = StreamVersion(log, e.part, e.crew) + 1])

\* sorted by (sequence, timestamp, event_id)
Before(d, e) == \/ d.seq < e.seq
                \/ d.seq = e.seq /\ d.at < e.at
                \/ d.seq = e.seq /\ d.at = e.at /\ d.id < e.id

\* Mutant: the stream of a partition is read in timestamp order
LastOfMutant(log, places) ==
    CHOOSE k \in places : \A j \in places : log[j].at < log[k].at \/ (log[j].at = log[k].at /\ j <= k)

\* of the events at these places, the one that the stream of their partition ends with
LastOf(log, places) == CHOOSE k \in places : \A j \in places : j = k \/ Before(log[j], log[k])

PartitionStream(log, p) == {k \in DOMAIN log : log[k].part = p}

NewMember(e) == [exists |-> TRUE, partition |-> e.part, location |-> e.part, onDuty |-> FALSE,
                 qualifications |-> {}, flights |-> {}, version |-> 1]

Effect(member, e) ==
    CASE e.kind = "FLIGHT_ASSIGNED" -> [member EXCEPT !.flights = @ \cup {e.value}, !.location = e.value]
      [] e.kind = "SCHEDULE_REJECTED" -> [member EXCEPT !.flights = @ \ {e.value}]
      [] e.kind = "QUALIFICATION_ADDED" -> [member EXCEPT !.qualifications = @ \cup {e.value}]
      [] e.kind = "DUTY_START" -> [member EXCEPT !.onDuty = TRUE]
      [] e.kind \in {"DUTY_END", "REST_PERIOD_START"} -> [member EXCEPT !.onDuty = FALSE]
      [] e.kind = "LEGAL_MOVE_COMPLETED" -> [member EXCEPT !.partition = e.value, !.location = e.value]
      [] OTHER -> member

Counted(member) == [member EXCEPT !.version = @ + 1]

\* MaterializedView.apply
AppliedTo(view, e) ==
    IF e.kind = "CREW_MEMBER_CREATED" THEN [view EXCEPT ![e.crew] = NewMember(e)]
    ELSE IF ~view[e.crew].exists THEN view
    ELSE [view EXCEPT ![e.crew] = Effect(Counted(view[e.crew]), e)]

EmptyView == [c \in CrewIds |-> Absent]

\* rebuild from the events at these places, the last of which is applied last
Rebuilt(log, places) ==
    MapThenFoldSet(LAMBDA k, view : AppliedTo(view, log[k]), EmptyView,
                   LAMBDA k : k, LAMBDA s : LastOf(log, s), places)

\* EventStore.replay
Replay(log, p) == Rebuilt(log, PartitionStream(log, p))

\* EventStore.deserialize of what serialize has written
Deserialized(log) == FoldLeft(Appended, <<>>, log)

StreamInit == journal = <<>> /\ crewView = EmptyView

\* append by a caller that names the stream's version or none; an event that is appended
\* again, or with another version, changes nothing
AppendCrewEvent(kind, c, p, value, at) ==
    LET e == [id |-> 0, seq |-> 0, kind |-> kind, crew |-> c, part |-> p, value |-> value, at |-> at]
    IN /\ Len(journal) < MaxJournal
       /\ journal' = Appended(journal, e)
       /\ crewView' = AppliedTo(crewView, e)

\* the places of the requests that no completion of the member follows
OpenMoves(log) ==
    {m \in DOMAIN log : /\ log[m].kind = "LEGAL_MOVE_REQUEST"
                        /\ \A k \in DOMAIN log : ~(/\ log[k].kind = "LEGAL_MOVE_COMPLETED"
                                                   /\ log[k].crew = log[m].crew
                                                   /\ log[k].at > log[m].at)}

Completion(request) == [request EXCEPT !.kind = "LEGAL_MOVE_COMPLETED", !.at = @ + 5]

\* what the completions of these requests, in their order, make of a log or of a view
Completing(op(_, _), base, moves) ==
    MapThenFoldSet(LAMBDA m, x : op(x, Completion(journal[m])), base, LAMBDA m : m,
                   LAMBDA s : Max(s), moves)

\* reconcile appends every completion before it compares the rate with the threshold
Reconcile == /\ OpenMoves(journal) # {}
             /\ journal' = Completing(Appended, journal, OpenMoves(journal))
             /\ crewView' = Completing(AppliedTo, crewView, OpenMoves(journal))

StreamNext ==
    \/ Reconcile
    \/ \E c \in CrewIds, p \in Partitions, at \in EventTimes :
          \/ \E kind \in DutyKinds \cup {"CREW_MEMBER_CREATED"} : AppendCrewEvent(kind, c, p, p, at)
          \/ \E kind \in PayloadKinds, v \in Payloads : AppendCrewEvent(kind, c, p, v, at)
          \/ \E to \in Partitions : AppendCrewEvent("LEGAL_MOVE_REQUEST", c, p, to, at)

StreamSpec == StreamInit /\ [][StreamNext]_streamVars

\* Replaying a partition, or reading the file back, gives what the view has accumulated for
\* every member whose events all lie in that partition, whatever order the timestamps of
\* the events are in (event_store.py:147-165, 191-251).
ReplayRebuildsView ==
    /\ Deserialized(journal) = journal
    /\ \A p \in Partitions, c \in CrewIds :
          (\A k \in DOMAIN journal : journal[k].crew = c => journal[k].part = p)
              => Replay(journal, p)[c] = crewView[c]
=============================================================================
