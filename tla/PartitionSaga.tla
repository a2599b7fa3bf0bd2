---------------------------- MODULE PartitionSaga ----------------------------
(* The move of a resource between two partitions, state/reconciliation.py.    *)
(* Each call checks the version and the status under the registry's lock.     *)
(* Coordinators act on a version they have read earlier; partitions answer a  *)
(* commit late, twice or contradictorily, as acknowledgements do.             *)
EXTENDS Naturals

CONSTANTS Coordinators,  \* clients of the registry
          MaxTransitions     \* bound on the transitions

ASSUME SagaAssumption == MaxTransitions \in Nat \ {0}

VARIABLES saga,     \* the saga's fields
          read,     \* the version each coordinator has read
          answers,  \* history: the answers recorded since the commit began
          unlawful  \* history: validation has reported findings

sagaVars == <<saga, read, answers, unlawful>>

Sides == {"source", "destination"}

SagaStatus == {"requested", "source_reserved", "destination_reserved", "validated", "committing",
               "partial", "complete", "compensating", "compensated"}

\* create, whose idempotency key makes a second call return the first saga
SagaInit == /\ saga = [status |-> "requested", version |-> 1, reserved |-> {}, certified |-> FALSE,
                       ack |-> [s \in Sides |-> "none"]]
            /\ read = [c \in Coordinators |-> 1]
            /\ answers = {}
            /\ unlawful = FALSE

ReadSaga(c) == read' = [read EXCEPT ![c] = saga.version] /\ UNCHANGED <<saga, answers, unlawful>>

\* _check and _advance
Check(c, status) == read[c] = saga.version /\ saga.status = status
Advanced(record, status) == [record EXCEPT !.status = status, !.version = @ + 1]
SagaStep == saga.version < MaxTransitions /\ UNCHANGED read

\* a reservation without an identifier is recorded, and asked for only by begin_commit
ReserveSource(c, named) ==
    /\ Check(c, "requested") /\ SagaStep
    /\ saga' = Advanced([saga EXCEPT !.reserved = IF named THEN @ \cup {"source"} ELSE @],
                        "source_reserved")
    /\ UNCHANGED <<answers, unlawful>>

ReserveDestination(c, named) ==
    /\ Check(c, "source_reserved") /\ SagaStep
    /\ saga' = Advanced([saga EXCEPT !.reserved = IF named THEN @ \cup {"destination"} ELSE @],
                        "destination_reserved")
    /\ UNCHANGED <<answers, unlawful>>

ValidateMove(c, findings, certified) ==
    /\ Check(c, "destination_reserved") /\ SagaStep
    /\ saga' = IF findings THEN Advanced(saga, "compensating")
               ELSE Advanced([saga EXCEPT !.certified = certified], "validated")
    /\ unlawful' = findings
    /\ UNCHANGED answers

BeginCommit(c) == /\ Check(c, "validated") /\ SagaStep
                  /\ saga.reserved = Sides /\ saga.certified
                  /\ saga' = Advanced(saga, "committing")
                  /\ UNCHANGED <<answers, unlawful>>

\* Mutant: a refusal is compensated only if the other partition has not accepted
AfterAnswerMutant(ack, accepted) ==
    IF ~accepted /\ \A s \in Sides : ack[s] # "accepted" THEN "compensating"
    ELSE IF \E s \in Sides : ack[s] = "accepted" THEN "complete" ELSE "partial"

AfterAnswer(ack, accepted) == IF ~accepted THEN "compensating"
                              ELSE IF \A s \in Sides : ack[s] = "accepted" THEN "complete"
                              ELSE "partial"

AcknowledgePartition(c, side, accepted) ==
    LET word == IF accepted THEN "accepted" ELSE "refused"
        ack == [saga.ack EXCEPT ![side] = word]
    IN /\ read[c] = saga.version /\ saga.status \in {"committing", "partial"} /\ SagaStep
       /\ saga' = Advanced([saga EXCEPT !.ack = ack], AfterAnswer(ack, accepted))
       /\ answers' = answers \cup {<<side, word>>}
       /\ UNCHANGED unlawful

CompleteCompensation(c) == /\ Check(c, "compensating") /\ SagaStep
                           /\ saga' = Advanced(saga, "compensated")
                           /\ UNCHANGED <<answers, unlawful>>

SagaNext == \E c \in Coordinators :
    \/ ReadSaga(c) \/ BeginCommit(c) \/ CompleteCompensation(c)
    \/ \E b \in BOOLEAN :
          \/ ReserveSource(c, b) \/ ReserveDestination(c, b)
          \/ \E certified \in BOOLEAN : ValidateMove(c, b, certified)
          \/ \E s \in Sides : AcknowledgePartition(c, s, b)

SagaSpec == SagaInit /\ [][SagaNext]_sagaVars

\* A move is complete only when both partitions have accepted, neither has ever refused,
\* both were reserved and validation had no findings; one that was refused or unlawful ends
\* in compensation, whatever is answered later or again (reconciliation.py:95-129).
MoveIsAgreed ==
    /\ saga.status = "complete" =>
           /\ answers = {<<s, "accepted">> : s \in Sides}
           /\ saga.reserved = Sides /\ saga.certified /\ ~unlawful
    /\ (\E s \in Sides : <<s, "refused">> \in answers) \/ unlawful =>
           saga.status \in {"compensating", "compensated"}
    /\ saga.status = "compensated" => \E s \in Sides : <<s, "accepted">> \notin answers
=============================================================================
