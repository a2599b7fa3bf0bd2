------------------------------ MODULE MCServices ------------------------------
(* Small instances of the components that share no state with each other.     *)
(* The initial state chooses the one that moves, so that a run visits the     *)
(* sum of their states, not the product.                                      *)
EXTENDS DeploymentCommands, DeploymentDispatch, PartitionSaga, RulePackages, EventStream, Integration,
        MCPassengerRecovery, TieredSolving, LegalityCertificates, CandidateLifecycle, MCRecoveryAgent

VARIABLE focus  \* the component that moves

Components == {"commands", "dispatch", "saga", "governance", "stream", "ingestion", "breaker",
               "passengers", "solve", "certificates", "candidates", "agent"}

ServicesInit ==
    /\ focus \in Components
    /\ Init /\ DispatchInit /\ SagaInit /\ GovernanceInit /\ StreamInit /\ IngestionInit
    /\ BreakerInit /\ PassengerInit /\ CandidateInit
    /\ SolveInit /\ (focus # "solve" => caller = "orchestrator" /\ legsToDo = {})
    /\ CertificateInit /\ (focus # "certificates" => context = [eligible |-> FALSE, profile |-> FALSE])
    /\ AgentInit /\ (focus # "agent" => planner = "llm" /\ rated["F1"] = {} /\ cleared = {})

Only(c) == /\ focus = c /\ UNCHANGED focus
           /\ (c # "commands" => UNCHANGED vars)
           /\ (c # "dispatch" => UNCHANGED dispatchVars)
           /\ (c # "saga" => UNCHANGED sagaVars)
           /\ (c # "governance" => UNCHANGED governanceVars)
           /\ (c # "stream" => UNCHANGED streamVars)
           /\ (c # "ingestion" => UNCHANGED ingestionVars)
           /\ (c # "breaker" => UNCHANGED breakerVars)
           /\ (c # "passengers" => UNCHANGED passengerVars)
           /\ (c # "solve" => UNCHANGED solveVars)
           /\ (c # "certificates" => UNCHANGED certificateVars)
           /\ (c # "candidates" => UNCHANGED candidateVars)
           /\ (c # "agent" => UNCHANGED agentVars)

\* A bound: one joint plan in a behaviour.  Coordinate reads nothing of an earlier plan and replaces
\* all of it, so a second one could only repeat what another behaviour has as its first.
PlansOnce == jointPlan = NoPlan \/ UNCHANGED jointPlan

ServicesNext == \/ Only("commands") /\ Next
                \/ Only("dispatch") /\ DispatchNext
                \/ Only("saga") /\ SagaNext
                \/ Only("governance") /\ GovernanceNext
                \/ Only("stream") /\ StreamNext
                \/ Only("ingestion") /\ IngestionNext
                \/ Only("breaker") /\ BreakerNext
                \/ Only("passengers") /\ PassengerNext /\ PlansOnce
                \/ Only("solve") /\ SolveNext
                \/ Only("certificates") /\ CertificateNext
                \/ Only("candidates") /\ CandidateNext
                \/ Only("agent") /\ AgentNext

ServicesSpec == ServicesInit /\ [][ServicesNext]_<<focus, vars, dispatchVars, sagaVars, governanceVars,
    streamVars, ingestionVars, breakerVars, passengerVars, solveVars, certificateVars, candidateVars,
    agentVars>>

-------------------------------------------------------------------------------
(* Solving: five legs between two airports, the last on another type; times in half hours *)

Flying(id, from, to, dep, arr, type, deadhead) ==
    [id |-> id, from |-> from, to |-> to, dep |-> dep, arr |-> arr, type |-> type, deadhead |-> deadhead]
MCLegs == <<Flying(1, "A", "B", 12, 18, "A320", FALSE), Flying(2, "B", "A", 18, 24, "A320", FALSE),
            Flying(3, "B", "A", 20, 30, "A320", FALSE), Flying(4, "A", "B", 31, 38, "A320", FALSE),
            Flying(5, "B", "A", 39, 45, "B787", TRUE)>>
MCPool == <<[at |-> "A", base |-> "A", types |-> {"A320"}, restEnds |-> {}],
            [at |-> "", base |-> "B", types |-> {"A320"}, restEnds |-> {0}]>>

(* Certificates: complete evidence of a member, and eleven ways in which it is not good enough *)

MCCrew == {[at |-> "A", base |-> "A", types |-> {"A320"}, restEnds |-> {0}],
           [at |-> "B", base |-> "A", types |-> {"A320", "B787"}, restEnds |-> {}]}
MCDuties ==
    {[legs |-> <<Flying(1, "A", "B", 20, 26, "A320", FALSE)>>, start |-> 20, end |-> 26],
     [legs |-> <<Flying(1, "A", "B", 20, 26, "A320", FALSE), Flying(2, "B", "A", 26, 32, "A320", FALSE)>>,
      start |-> 20, end |-> 32],
     [legs |-> <<Flying(3, "B", "A", 53, 63, "B787", FALSE)>>, start |-> 53, end |-> 63]}
Good == [complete |-> TRUE, totals |-> {[flightLeft |-> {8}, dutyLeft |-> {20}]}, nights |-> {1},
         acclimatizationKnown |-> TRUE,
         validUntil |-> [c \in {"licence", "medical", "recency", "A320", "B787"} |-> {100}],
         standby |-> 0, break |-> 0, breakApproved |-> FALSE, augmented |-> 0, restFacility |-> FALSE,
         rolesFilled |-> TRUE, visa |-> {TRUE}]
MCEvidence == {{}} \cup {{e} : e \in
    {Good, [Good EXCEPT !.totals = {[flightLeft |-> {20}, dutyLeft |-> {20}]}], [Good EXCEPT !.totals = {}],
     [Good EXCEPT !.complete = FALSE], [Good EXCEPT !.nights = {3}], [Good EXCEPT !.nights = {}],
     [Good EXCEPT !.validUntil["licence"] = {30}], [Good EXCEPT !.validUntil["A320"] = {}],
     [Good EXCEPT !.visa = {}], [Good EXCEPT !.standby = 30], [Good EXCEPT !.augmented = 2]}}

(* Candidates: a baseline and upgrades that are better, worse, late or not certified *)

Draft(tier, solved, legal, open, score, certified, expires) ==
    [tier |-> tier, solved |-> solved, legal |-> legal, open |-> open, score |-> score,
     certified |-> certified, expires |-> expires]
MCDrafts == {Draft("tier1", 1, 1, 1, 3, TRUE, 2), Draft("tier2", 1, 2, 0, 2, TRUE, 1),
             Draft("tier2", 1, 1, 1, 1, TRUE, 2), Draft("tier2", 2, 1, 0, 2, TRUE, 2),
             Draft("tier2", 2, 2, 0, 1, FALSE, 2)}
===============================================================================
