-------------------------- MODULE DeploymentDispatch --------------------------
(* Durable deployment commands: the transactions of                            *)
(* state/deployment_repository.py, the processes that claim commands and send  *)
(* them to the carrier's systems, and the two reads of                         *)
(* state/read_model_repository.py.  A transition that names another version    *)
(* than the current one changes nothing, so those that count name the current. *)
EXTENDS Naturals, FiniteSets

CONSTANTS Orders,          \* commands of one deployment
          Mandatory,       \* those with required = true
          Dispatchers,     \* processes, by worker_id
          MaxFailures,     \* bound on failed sends and crashes
          Nobody           \* claimed_by IS NULL

ASSUME DispatchAssumption == /\ Mandatory \subseteq Orders /\ IsFiniteSet(Orders)
                             /\ Nobody \notin Dispatchers
                             /\ MaxFailures \in Nat

VARIABLES order,      \* deployment_command_projection: status and claim
          verdict,    \* deployment_projection.status
          revision,   \* deployment_projection.state_version
          claims,     \* what each process holds in memory
          sent,       \* commands in a process's hands that the carrier has taken
          failures,   \* failed sends and crashes so far
          report,     \* the answer of a reader: its first query, then also the second
          ended       \* completed_at IS NOT NULL

dispatchVars == <<order, verdict, revision, claims, sent, failures, report, ended>>

OrderStatus == {"queued", "published", "acknowledged", "rejected", "timed_out"}
Verdict == {"queued", "publishing", "partial", "failed", "complete"}

DispatchInit ==
    /\ order = [o \in Orders |-> [status |-> "queued", claimedBy |-> Nobody, due |-> TRUE]]
    /\ verdict = "queued" /\ revision = 1 /\ ended = FALSE
    /\ claims = [d \in Dispatchers |-> {}]
    /\ sent = {}
    /\ failures = 0
    /\ report = [at |-> "none", status |-> "queued", complete |-> FALSE]

Failure == failures < MaxFailures /\ failures' = failures + 1

ClaimableOrder(o) == order[o].status = "queued" /\ order[o].claimedBy = Nobody /\ order[o].due

\* claim_commands: every claimable command, up to a limit that is not reached here
ClaimCommands(d) ==
    LET taken == {o \in Orders : ClaimableOrder(o)}
    IN /\ claims[d] = {} /\ taken # {}
       /\ order' = [o \in Orders |-> IF o \in taken THEN [order[o] EXCEPT !.claimedBy = d]
                                                     ELSE order[o]]
       /\ claims' = [claims EXCEPT ![d] = taken]
       /\ UNCHANGED <<verdict, revision, sent, failures, report, ended>>

\* the carrier takes the command under its idempotency key, with or without answering
CarrierTakes(d, o) == /\ o \in claims[d] \ sent
                      /\ sent' = sent \cup {o}
                      /\ UNCHANGED <<order, verdict, revision, claims, failures, report, ended>>

Acked(table) == {o \in Mandatory : table[o].status = "acknowledged"}
Failed(table) == {o \in Mandatory : table[o].status \in {"rejected", "timed_out"}}

\* Mutant: commands that have not been answered are forgotten
DerivedMutant(table) ==
    CASE Failed(table) = {} /\ Acked(table) # {} -> "complete"
      [] Failed(table) # {} /\ Acked(table) # {} -> "partial"
      [] Failed(table) # {} /\ Acked(table) = {} -> "failed"
      [] OTHER -> "publishing"

\* the verdict from the three counts
Derived(table) ==
    CASE Mandatory # {} /\ Acked(table) = Mandatory -> "complete"
      [] Failed(table) # {} /\ Acked(table) # {} -> "partial"
      [] Failed(table) # {} /\ Acked(table) = {} -> "failed"
      [] OTHER -> "publishing"

Predecessor(status) == IF status = "published" THEN "queued" ELSE "published"

\* _transition, in one transaction under the deployment's row lock
Transition(o, status) ==
    /\ order[o].status = Predecessor(status)
    /\ order' = [order EXCEPT ![o].status = status, ![o].claimedBy = Nobody]
    /\ verdict' = Derived(order')
    /\ ended' = (verdict' = "complete")
    /\ revision' = revision + 1

\* mark_published: only the process that the row names as its claimant
MarkCommandPublished(d, o) == /\ o \in claims[d] \cap sent /\ order[o].claimedBy = d
                              /\ Transition(o, "published")
                              /\ claims' = [claims EXCEPT ![d] = @ \ {o}]
                              /\ sent' = sent \ {o}
                              /\ UNCHANGED <<failures, report>>

\* release_claim after a failed send, and after one whose publication could not be recorded
ReleaseClaim(d, o) == /\ o \in claims[d] /\ order[o].claimedBy = d /\ order[o].status = "queued"
                      /\ Failure
                      /\ order' = [order EXCEPT ![o].claimedBy = Nobody, ![o].due = FALSE]
                      /\ claims' = [claims EXCEPT ![d] = @ \ {o}]
                      /\ sent' \in {sent, sent \ {o}}
                      /\ UNCHANGED <<verdict, revision, report, ended>>

DelayEnds(o) == /\ ~order[o].due
                /\ order' = [order EXCEPT ![o].due = TRUE]
                /\ UNCHANGED <<verdict, revision, claims, sent, failures, report, ended>>

DispatcherCrash(d) == /\ claims[d] # {} /\ Failure
                      /\ claims' = [claims EXCEPT ![d] = {}]
                      /\ UNCHANGED <<order, verdict, revision, sent, report, ended>>

\* the carrier's answer, or the deadline without one
AcknowledgeOrder(o, accepted) == /\ Transition(o, IF accepted THEN "acknowledged" ELSE "rejected")
                                 /\ UNCHANGED <<claims, sent, failures, report>>

AcknowledgementTimeout(o) == /\ Transition(o, "timed_out")
                             /\ UNCHANGED <<claims, sent, failures, report>>

\* OperationalReadRepository.deployment reads the deployment, then its commands: two
\* statements of one transaction that see different snapshots
ReadDeployment == /\ report.at = "none"
                  /\ report' = [report EXCEPT !.at = "first", !.status = verdict]
                  /\ UNCHANGED <<order, verdict, revision, claims, sent, failures, ended>>

ReadCommands == /\ report.at = "first"
                /\ report' = [report EXCEPT !.at = "second",
                                            !.complete = Mandatory # {} /\ Acked(order) = Mandatory]
                /\ UNCHANGED <<order, verdict, revision, claims, sent, failures, ended>>

DispatcherStep(d) == \/ ClaimCommands(d)
                     \/ \E o \in Orders : CarrierTakes(d, o) \/ MarkCommandPublished(d, o)

DispatchNext == \/ \E d \in Dispatchers : \/ DispatcherStep(d)
                                          \/ DispatcherCrash(d)
                                          \/ \E o \in Orders : ReleaseClaim(d, o)
                \/ \E o \in Orders : \/ DelayEnds(o) \/ AcknowledgementTimeout(o)
                                     \/ \E accepted \in BOOLEAN : AcknowledgeOrder(o, accepted)
                \/ ReadDeployment \/ ReadCommands

\* A process that is up goes on, and delays end.
DispatchFairness == /\ \A d \in Dispatchers : WF_dispatchVars(DispatcherStep(d))
                    /\ \A o \in Orders : WF_dispatchVars(DelayEnds(o))

DispatchSpec == DispatchInit /\ [][DispatchNext]_dispatchVars /\ DispatchFairness

\* Complete means that every required command is acknowledged, and any other verdict that
\* some is not; a failed or partial one names a command that was refused or not answered
\* in time, through every claim, release and crash (deployment_repository.py:149-164).  And an
\* answer that says complete is never taken back, nor contradicted by its own second query,
\* although the two may have seen different states (read_model_repository.py:45-61).
VerdictIsDerived ==
    revision > 1 =>
        /\ verdict = "complete" <=> Mandatory # {} /\ Acked(order) = Mandatory
        /\ verdict \in {"partial", "failed"} <=> Failed(order) # {}
        /\ verdict = "partial" => Acked(order) # {}
        /\ ended <=> verdict = "complete"
        /\ report.complete => verdict = "complete"
        /\ report.at = "second" /\ report.status = "complete" => report.complete

\* "A publisher crash leaves the command reclaimable" (infrastructure/migrations/README.md:29):
\* every queued command is published at some time, as long as sends do not fail for ever.
CrashLeavesReclaimable == \A o \in Orders : order[o].status = "queued" ~> order[o].status # "queued"
=============================================================================
