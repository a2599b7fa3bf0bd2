---------------------------- MODULE TieredSolving ----------------------------
(* One solve of a partition: the greedy tier and its local search             *)
(* (solvers/tier1.py), the restricted master problem over legal columns        *)
(* (solvers/tier2.py), and the callers that choose between them                *)
(* (solvers/orchestrator.py, deployment/worker.py).  A deadline may pass        *)
(* between any two legs; the solver returns any feasible selection, or one     *)
(* that covers most when it reports optimality.                               *)
EXTENDS CrewLegality

CONSTANTS CrewPool,   \* the crew, a sequence of members
          AllLegs     \* the legs that a partition is made of, in the order of departure

ASSUME SolveAssumption ==
    /\ CrewPool \in Seq(CrewMember) /\ AllLegs \in Seq(FlightLeg)
    /\ \A j, k \in DOMAIN AllLegs :
          j < k => AllLegs[j] # AllLegs[k] /\ AllLegs[j].dep <= AllLegs[k].dep

VARIABLES phase,      \* greedy, tier2, done
          caller,     \* who asked for the solve
          legsToDo,   \* places in AllLegs of the flights that the greedy tier has yet to look at
          roster,     \* its assignments so far
          expired,    \* its deadline has passed
          incumbent,  \* the result of tier 1
          outcome     \* what the caller gets

solveVars == <<phase, caller, legsToDo, roster, expired, incumbent, outcome>>

Callers == {"orchestrator", "worker_tier1", "worker_tier2"}

DutyOf(k, legs) == [crew |-> k, legs |-> legs, start |-> Min({leg.dep : leg \in ToSet(legs)}),
                    end |-> Max({leg.arr : leg \in ToSet(legs)})]

\* _with_leg and _new_assignment
WithLeg(duty, leg) == DutyOf(duty.crew, Append(duty.legs, leg))

LegsOf(duties) == UNION {ToSet(duty.legs) : duty \in ToSet(duties)}

OnDuty(duties) == {duty.crew : duty \in ToSet(duties)}

\* Mutant: the rules are not asked before a duty is extended
ExtensibleMutant(duties, leg) == {i \in DOMAIN duties : Last(duties[i].legs).to = leg.from}

\* duties that the leg can be added to at their last airport
Extensible(duties, leg) ==
    {i \in DOMAIN duties : /\ Last(duties[i].legs).to = leg.from
                           /\ Legal(CrewPool[duties[i].crew], WithLeg(duties[i], leg))}

Longer(duties, leg, i) == WithLeg(duties[i], leg).end - WithLeg(duties[i], leg).start
                              - (duties[i].end - duties[i].start)

\* the least extension, the first of equals
Best(duties, leg) ==
    CHOOSE i \in Extensible(duties, leg) : \A j \in Extensible(duties, leg) :
        \/ Longer(duties, leg, i) < Longer(duties, leg, j)
        \/ Longer(duties, leg, i) = Longer(duties, leg, j) /\ i <= j

Idle(duties, leg) ==
    {k \in DOMAIN CrewPool : /\ k \notin OnDuty(duties) /\ CrewPool[k].at \in {"", leg.from}
                             /\ Legal(CrewPool[k], DutyOf(k, <<leg>>))}

\* one round of _greedy_construct: extend a duty, else open one, else leave the leg uncovered
GreedyStep(duties, leg) ==
    IF Extensible(duties, leg) # {}
    THEN [duties EXCEPT ![Best(duties, leg)] = WithLeg(@, leg)]
    ELSE IF Idle(duties, leg) # {} THEN Append(duties, DutyOf(Min(Idle(duties, leg)), <<leg>>))
    ELSE duties

\* _lns_improve: departure order wherever that is legal and no longer
Reordered(duty) == DutyOf(duty.crew, ByDeparture(duty.legs))
Improved(duties) == [i \in DOMAIN duties |-> IF Legal(CrewPool[duties[i].crew], Reordered(duties[i]))
                                             THEN Reordered(duties[i]) ELSE duties[i]]

Result(tier, duties, legs) == [tier |-> tier, duties |-> duties, uncovered |-> legs \ LegsOf(duties)]

SolveInit == /\ phase = "greedy"
             /\ caller \in Callers
             /\ legsToDo \in SUBSET DOMAIN AllLegs
             /\ roster = <<>> /\ expired = FALSE
             /\ incumbent = Result("none", <<>>, {AllLegs[k] : k \in legsToDo})
             /\ outcome = Result("none", <<>>, {})

Asked == LegsOf(incumbent.duties) \cup incumbent.uncovered

DeadlinePasses == /\ phase = "greedy" /\ ~expired /\ legsToDo # {}
                  /\ expired' = TRUE
                  /\ UNCHANGED <<phase, caller, legsToDo, roster, incumbent, outcome>>

PlaceLeg == /\ phase = "greedy" /\ legsToDo # {}
            /\ legsToDo' = legsToDo \ {Min(legsToDo)}
            /\ roster' = IF expired THEN roster ELSE GreedyStep(roster, AllLegs[Min(legsToDo)])
            /\ UNCHANGED <<phase, caller, expired, incumbent, outcome>>

\* a complete incumbent is the answer, except that a tier 2 request is always optimized
FinishTier1 ==
    LET first == Result("tier1", IF expired THEN roster ELSE Improved(roster), Asked)
        complete == first.uncovered = {} /\ caller # "worker_tier2"
    IN /\ phase = "greedy" /\ legsToDo = {}
       /\ incumbent' = first
       /\ phase' = IF complete THEN "done" ELSE "tier2"
       /\ outcome' = IF complete THEN first ELSE outcome
       /\ UNCHANGED <<caller, legsToDo, roster, expired>>

-------------------------------------------------------------------------------

\* paths of at most four legal legs from where the member is or is based
Extended(k, paths, legs) ==
    UNION {{Append(p, l) : l \in {leg \in legs :
                                   /\ leg \notin ToSet(p) /\ leg.from = Last(p).to
                                   /\ leg.dep >= Last(p).arr + MIN_CONNECTION
                                   /\ Legal(CrewPool[k], DutyOf(k, Append(p, leg)))}} : p \in paths}

Columns(k, legs) ==
    LET one == {<<leg>> : leg \in {l \in legs : /\ l.from \in {CrewPool[k].at, CrewPool[k].base}
                                                /\ Legal(CrewPool[k], DutyOf(k, <<l>>))}}
        two == Extended(k, one, legs)
        three == Extended(k, two, legs)
    IN one \cup two \cup three \cup Extended(k, three, legs)

\* the incumbent that tier 2 is given
Initial == IF caller = "worker_tier1" THEN <<>> ELSE incumbent.duties

\* the master's solutions: every leg at most once, every member at most one duty
Selections ==
    LET Offered(k) == {<<>>} \cup Columns(k, Asked)
                          \cup {duty.legs : duty \in {d \in ToSet(Initial) : d.crew = k}}
        all == {s \in [DOMAIN CrewPool -> UNION {Offered(k) : k \in DOMAIN CrewPool}] :
                   \A k \in DOMAIN CrewPool : s[k] \in Offered(k)}
    IN {s \in all : \A j, k \in DOMAIN CrewPool : j # k => ToSet(s[j]) \cap ToSet(s[k]) = {}}

Duties(selection) ==
    LET used == SetToSeq({k \in DOMAIN CrewPool : selection[k] # <<>>})
    IN [i \in DOMAIN used |-> DutyOf(used[i], selection[used[i]])]

Covers(duties) == Cardinality(LegsOf(duties))

\* Mutant: a selection that covers less than the incumbent is returned
KeptMutant(duties) == duties

\* a selection that covers less than the incumbent is rejected
Kept(duties) == IF Covers(duties) < Covers(Initial) THEN Initial ELSE duties

\* orchestrator and worker: when the optimizer's answer replaces the incumbent
Adopted(second, converged) ==
    CASE converged -> [second EXCEPT !.tier = "tier2"]
      [] ~converged /\ caller = "worker_tier2" -> [second EXCEPT !.tier = "tier1"]
      [] ~converged /\ caller = "orchestrator" ->
             IF Cardinality(second.uncovered) < Cardinality(incumbent.uncovered)
             THEN [second EXCEPT !.tier = "tier3"] ELSE [incumbent EXCEPT !.tier = "tier3"]
      [] OTHER -> incumbent

\* the master returns a selection within its time
Optimize == /\ phase = "tier2" /\ phase' = "done"
            /\ \E s \in Selections :
                  LET second == Result("tier2", Kept(Duties(s)), Asked)
                  IN outcome' = Adopted(second, second.uncovered = {})
            /\ UNCHANGED <<caller, legsToDo, roster, expired, incumbent>>

\* no solver, an error of it (not converged), or no solution that can be loaded (converged
\* if the incumbent it was given covers everything)
OptimizerFails == /\ phase = "tier2" /\ phase' = "done"
                  /\ \E loaded \in BOOLEAN :
                        LET second == Result("tier2", Initial, Asked)
                        IN outcome' = Adopted(second, loaded /\ second.uncovered = {})
                  /\ UNCHANGED <<caller, legsToDo, roster, expired, incumbent>>

SolveNext == DeadlinePasses \/ PlaceLeg \/ FinishTier1 \/ Optimize \/ OptimizerFails

SolveSpec == SolveInit /\ [][SolveNext]_solveVars

-------------------------------------------------------------------------------

\* What a caller gets can be flown, judged here without the rules engine: no member has two duties
\* and no leg two crews, every leg is either flown or reported, and each duty runs from where its
\* member is through legs that connect, within nine hours of flight, fourteen of duty and the rest
\* that the member is due, on types the member is rated for (tier1 validates every insertion,
\* tier2 every column, and the master's constraints keep the columns apart).
OutcomeIsLegal ==
    phase = "done" =>
        /\ \A i, j \in DOMAIN outcome.duties : i # j =>
              /\ outcome.duties[i].crew # outcome.duties[j].crew
              /\ ToSet(outcome.duties[i].legs) \cap ToSet(outcome.duties[j].legs) = {}
        /\ LegsOf(outcome.duties) = Asked \ outcome.uncovered
        /\ \A duty \in ToSet(outcome.duties) :
              LET member == CrewPool[duty.crew]
                  first == duty.legs[1]
                  last == duty.legs[Len(duty.legs)]
                  flown == {leg \in ToSet(duty.legs) : ~leg.deadhead}
              IN /\ member.at \in {"", first.from}
                 /\ \A k \in 2..Len(duty.legs) :
                       /\ duty.legs[k-1].to = duty.legs[k].from
                       /\ duty.legs[k-1].arr < duty.legs[k].dep
                 /\ last.arr - first.dep <= 28
                 /\ SumFunction([leg \in flown |-> leg.arr - leg.dep]) <= 18
                 /\ \A t \in member.restEnds : first.dep - t >= 20
                 /\ {leg.type : leg \in flown} \subseteq member.types

\* Whatever the optimizer does, the caller ends with at least as many flights as the greedy tier had
\* covered, and flights that nobody covers never come back as a finished solve: the orchestrator
\* routes them to tier 3 and the worker reports tier 1 (the rejection in RestrictedMasterOptimizer,
\* the choice in solve_recovery and in solve_partition_request).
IncumbentIsKept ==
    phase = "done" =>
        /\ Covers(outcome.duties) >= Covers(incumbent.duties)
        /\ outcome.uncovered # {} =>
              outcome.tier = IF caller = "orchestrator" THEN "tier3" ELSE "tier1"
===============================================================================
