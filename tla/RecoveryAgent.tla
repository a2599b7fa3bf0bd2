----------------------------- MODULE RecoveryAgent -----------------------------
(* One run of the recovery agent: the loop of agents/recovery_agent.py, the    *)
(* guarded tools of agents/tools.py, the heuristic planner of                  *)
(* agents/planner.py and the language model of agents/llm_planner.py, which    *)
(* may name any call at all and may fail for good, whereupon the heuristic     *)
(* planner takes over.  The rules engine's verdict on a pair does not change   *)
(* during a run; which pairs it clears is chosen in the initial state.         *)
EXTENDS Integers, FiniteSets, Sequences, SequencesExt, FiniteSetsExt

CONSTANTS CaseOrder,       \* flights whose crew is illegal, by passengers and then by id
          Reserve,         \* the crew that is not assigned
          Ratings,         \* what type_rated_candidates may be, a set of functions on the flights
          FallbackModels,  \* how many models the provider has after the first
          StepLimit        \* max_steps, for a run of the heuristic planner

VARIABLES rated,       \* type_rated_candidates of each flight
          cleared,     \* the pairs that the rules engine finds legal
          planner,     \* deterministic, llm, or fallback once the model is given up
          modelsLeft,  \* _model_queue
          perceived,   \* the operational picture has been read
          listed,      \* flights whose candidates have been listed
          judged,      \* _previewed: pairs that the engine has judged
          committed,   \* commitments
          escalated,   \* flights handed to the schedulers
          lastFailure, \* the call that was refused last, unless one has succeeded since
          steps,       \* calls so far, counted for the heuristic planner alone
          stopped      \* why the run is over

agentVars == <<rated, cleared, planner, modelsLeft, perceived, listed, judged, committed, escalated,
               lastFailure, steps, stopped>>

Cases == ToSet(CaseOrder)

ASSUME AgentAssumption ==
    /\ CaseOrder \in Seq(Cases) /\ \A i, j \in DOMAIN CaseOrder : CaseOrder[i] = CaseOrder[j] => i = j
    /\ IsFiniteSet(Reserve) /\ Ratings \subseteq [Cases -> SUBSET Reserve]
    /\ FallbackModels \in Nat /\ StepLimit \in Nat

NoCall == [tool |-> "none"]

Calls == [tool : {"preview", "commit"}, flight : Cases, crew : Reserve]
             \cup [tool : {"list", "escalate"}, flight : Cases]
             \cup [tool : {"get_solver_tiers", "unknown"}]

AgentInit ==
    /\ rated \in Ratings
    /\ cleared \in SUBSET {p \in Cases \X Reserve : p[2] \in rated[p[1]]}
    /\ planner \in {"deterministic", "llm"} /\ modelsLeft = FallbackModels
    /\ perceived = FALSE
    /\ listed = {} /\ judged = {} /\ committed = {} /\ escalated = {}
    /\ lastFailure = NoCall /\ steps = 0
    /\ stopped = "no"

Taken == {p[2] : p \in committed}                  \* committed_elsewhere, assigned_crew_ids
Judged(f) == {c \in Reserve : <<f, c>> \in judged}   \* previewed_crew

\* has_legal_option
HasLegalOption(f) == \E c \in Judged(f) : <<f, c>> \in cleared

IsSettled(f) == f \in escalated \/ \E p \in committed : p[1] = f

-------------------------------------------------------------------------------
(* The tools *)

CommitAllowed(f, c) == <<f, c>> \in judged \cap cleared /\ \A p \in committed : p[1] # f

\* Mutant: the candidates that nobody has asked about are not counted
EscalateAllowedMutant(f) == ~HasLegalOption(f)

EscalateAllowed(f) == rated[f] \ Taken \subseteq Judged(f) /\ ~HasLegalOption(f)

Allowed(call) == CASE call.tool = "commit" -> CommitAllowed(call.flight, call.crew)
                   [] call.tool = "escalate" -> EscalateAllowed(call.flight)
                   [] call.tool = "unknown" -> FALSE
                   [] OTHER -> TRUE

\* what a call that is allowed does
Performed(call) ==
    /\ judged' = IF call.tool = "preview" THEN judged \cup {<<call.flight, call.crew>>} ELSE judged
    /\ committed' = IF call.tool = "commit" THEN committed \cup {<<call.flight, call.crew>>} ELSE committed
    /\ escalated' = IF call.tool = "escalate" THEN escalated \cup {call.flight} ELSE escalated
    /\ listed' = IF call.tool = "list" THEN listed \cup {call.flight} ELSE listed
    /\ lastFailure' = NoCall

\* one round of the loop: a refusal is feedback, the same refusal again is the end
RunTool(call) ==
    /\ IF Allowed(call)
       THEN Performed(call) /\ UNCHANGED stopped
       ELSE /\ lastFailure' = call
            /\ stopped' = IF lastFailure = call THEN "stalled" ELSE stopped
            /\ UNCHANGED <<judged, committed, escalated, listed>>
    /\ UNCHANGED <<rated, cleared, perceived>>

Finish(reason) == /\ stopped' = reason
                  /\ UNCHANGED <<rated, cleared, planner, modelsLeft, perceived, listed, judged,
                                 committed, escalated, lastFailure, steps>>

\* range(max_steps) has another turn: even to find that nothing is left to do takes one
HasTurn == planner = "deterministic" => steps < StepLimit

\* the loop's else.  A model's calls are not counted, so its run may get here at any time.
ReachLimit == /\ stopped = "no"
              /\ planner = "deterministic" => steps = StepLimit
              /\ Finish("limit")

\* get_operational_picture is the first call of either planner
Perceive == /\ stopped = "no" /\ HasTurn /\ ~perceived
            /\ perceived' = TRUE
            /\ steps' = IF planner = "deterministic" THEN 1 ELSE 0
            /\ UNCHANGED <<rated, cleared, planner, modelsLeft, listed, judged, committed, escalated,
                           lastFailure, stopped>>

-------------------------------------------------------------------------------
(* DeterministicPlanner *)

\* Mutant: crew that another flight of the plan has taken is offered again
RemainingMutant(f) == rated[f] \ Judged(f)

Remaining(f) == (rated[f] \ Judged(f)) \ Taken

\* the places of the open flights in the order of the cases
Open == {i \in DOMAIN CaseOrder : ~IsSettled(CaseOrder[i])}

Candidates(i) == Cardinality(Remaining(CaseOrder[i]))

\* _select_case: the fewest candidates, then the most passengers
SelectCase == CaseOrder[CHOOSE i \in Open : \A j \in Open :
                           Candidates(i) < Candidates(j) \/ (Candidates(i) = Candidates(j) /\ i <= j)]

\* _scarcity_cost, in twelfths: what other open flights lose with this member
Scarcity(c, f) == MapThenSumSet(LAMBDA other : 12 \div Cardinality(Remaining(other)),
                                {other \in Cases \ {f} : ~IsSettled(other) /\ c \in Remaining(other)})

\* _rank: rest and seniority, which break ties, are left open
TopRanked(f) == {c \in Remaining(f) : \A d \in Remaining(f) : Scarcity(c, f) <= Scarcity(d, f)}

\* state.legal_option: the first in the order of identifiers, left open here
LegalOptions(f) == {c \in Judged(f) \ Taken : <<f, c>> \in cleared}

Heuristic(f) ==
    CASE LegalOptions(f) # {} -> {[tool |-> "commit", flight |-> f, crew |-> c] : c \in LegalOptions(f)}
      [] LegalOptions(f) = {} /\ Remaining(f) = {} -> {[tool |-> "escalate", flight |-> f]}
      [] LegalOptions(f) = {} /\ Remaining(f) # {} /\ f \notin listed -> {[tool |-> "list", flight |-> f]}
      [] OTHER -> {[tool |-> "preview", flight |-> f, crew |-> c] : c \in TopRanked(f)}

HeuristicStep ==
    /\ stopped = "no" /\ HasTurn /\ perceived /\ planner # "llm"
    /\ IF Open = {} THEN Finish("complete")
       ELSE /\ \E call \in Heuristic(SelectCase) : RunTool(call)
            /\ steps' = IF planner = "deterministic" THEN steps + 1 ELSE 0
            /\ UNCHANGED <<planner, modelsLeft>>

-------------------------------------------------------------------------------
(* OpenAIPlanner.  The calls of one answer are served one by one, each through *)
(* the tools, so an answer is taken as the calls that it is made of.           *)

ModelCalls == /\ stopped = "no" /\ perceived /\ planner = "llm"
              /\ \E call \in Calls : RunTool(call)
              /\ UNCHANGED <<planner, modelsLeft, steps>>

\* an answer without calls
ModelEnds == /\ stopped = "no" /\ perceived /\ planner = "llm"
             /\ Finish("complete")

\* a refusal over the rate or the quota that retries do not cure: the next model, if there is one
StepDownModel == /\ stopped = "no" /\ perceived /\ planner = "llm" /\ modelsLeft > 0
                 /\ modelsLeft' = modelsLeft - 1
                 /\ UNCHANGED <<rated, cleared, planner, perceived, listed, judged, committed, escalated,
                                lastFailure, steps, stopped>>

\* any other error, or one more from the last model
Degrade == /\ stopped = "no" /\ perceived /\ planner = "llm"
           /\ planner' = "fallback"
           /\ UNCHANGED <<rated, cleared, modelsLeft, perceived, listed, judged, committed, escalated,
                          lastFailure, steps, stopped>>

AgentNext == Perceive \/ ReachLimit \/ HeuristicStep \/ ModelCalls \/ ModelEnds \/ StepDownModel \/ Degrade

AgentSpec == AgentInit /\ [][AgentNext]_agentVars

-------------------------------------------------------------------------------

\* Whatever a planner asks for, in whatever order: a flight is committed once, to a member whom the
\* engine has cleared for it, and a flight goes to the schedulers only after the engine has refused
\* every candidate, except those that the plan already uses (agents/tools.py:301-308, 359-377).
PlanIsEarned ==
    /\ committed \subseteq judged \cap cleared
    /\ \A p, q \in committed : p[1] = q[1] => p = q
    /\ \A f \in escalated : \A c \in rated[f] :
          (<<f, c>> \in judged /\ <<f, c>> \notin cleared) \/ c \in Taken

\* Left to itself the heuristic planner gets to the end within its steps: it never stalls on a refusal,
\* settles every flight exactly once and gives no member two flights (agents/planner.py:66-156 against
\* the guards of the tools).
HeuristicPlanIsComplete ==
    planner = "deterministic" /\ stopped # "no" =>
        /\ stopped = "complete"
        /\ \A f \in Cases : IsSettled(f) /\ (f \in escalated => \A p \in committed : p[1] # f)
        /\ \A p, q \in committed : p[2] = q[2] => p = q

\* "Crew already committed to another flight in this run are genuinely unavailable" (agents/tools.py:363),
\* and no planner, however it errs, gets past the tools (agents/tools.py:10-11).
CrewWorksOneFlight == \A p, q \in committed : p[2] = q[2] => p = q
================================================================================
