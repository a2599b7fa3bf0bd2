----------------------------- MODULE CrewLegality -----------------------------
(* The legality rules that every solver tier and the validation service ask:  *)
(* rules/engine.py and the operator's profile, rules/operational_profile.py.   *)
(* Times are half hours since midnight of the first day.  A rule is the set of *)
(* the findings it reports; their wording is left out.                        *)
EXTENDS Integers, FiniteSets, Sequences, SequencesExt, FiniteSetsExt

MAX_FLIGHT == 18      \* MAX_FLIGHT_HOURS, and so on
MIN_REST == 20
MAX_DEADHEAD == 16
MIN_CONNECTION == 1

\* a member whose location is not known is at ""; restEnds holds the end of the last rest, if known
CrewMember == [at : STRING, base : STRING, types : SUBSET STRING, restEnds : SUBSET Int]

FlightLeg == [id : Int, from : STRING, to : STRING, dep : Int, arr : Int, type : STRING,
              deadhead : BOOLEAN]

\* the places of the legs that are flown and of those that are ridden along
Worked(legs) == {k \in DOMAIN legs : ~legs[k].deadhead}
Ridden(legs) == {k \in DOMAIN legs : legs[k].deadhead}

LegTime(legs, places) == SumFunctionOnSet([k \in DOMAIN legs |-> legs[k].arr - legs[k].dep], places)

\* the sort is stable: a leg comes after those that depart earlier, or with it and are listed earlier
Position(legs, k) ==
    LET Before(j) == legs[j].dep < legs[k].dep \/ (legs[j].dep = legs[k].dep /\ j <= k)
    IN Cardinality({j \in DOMAIN legs : Before(j)})

ByDeparture(legs) == [n \in DOMAIN legs |-> legs[CHOOSE k \in DOMAIN legs : Position(legs, k) = n]]

AtNight(duty) == (duty.start \div 2) % 24 \in 2..5

\* max_fdp: by sectors, an hour less for a duty that starts in the night
MaxFdp(duty) ==
    LET sectors == Cardinality(Worked(duty.legs))
        limit == CASE sectors <= 2 -> 28 [] sectors = 3 -> 27 [] sectors = 4 -> 26 [] OTHER -> 25
    IN IF AtNight(duty) THEN limit - 2 ELSE limit

Finding(code, found) == IF found THEN {code} ELSE {}

CheckDutyTime(duty) == Finding("FDP_LIMIT", duty.end - duty.start > MaxFdp(duty))

CheckFlightTime(duty) == Finding("FLIGHT_TIME_LIMIT", LegTime(duty.legs, Worked(duty.legs)) > MAX_FLIGHT)

\* a member without a recorded rest has restEnds = {}
CheckRestPeriod(member, duty) ==
    Finding("MIN_REST", \E t \in member.restEnds : duty.start - t < MIN_REST)

CheckQualifications(member, duty) ==
    Finding("MISSING_QUALIFICATION",
            \E k \in DOMAIN duty.legs : ~duty.legs[k].deadhead /\ duty.legs[k].type \notin member.types)

CheckDeadheadLimits(duty) == Finding("DEADHEAD_LIMIT", LegTime(duty.legs, Ridden(duty.legs)) > MAX_DEADHEAD)

\* any airport that occurs twice among the ends of the deadhead legs
CheckNoDeadheadLoops(duty) ==
    LET Airport(end) == IF end[2] = "from" THEN duty.legs[end[1]].from ELSE duty.legs[end[1]].to
        ends == Ridden(duty.legs) \X {"from", "to"}
    IN Finding("DEADHEAD_LOOP", \E d, e \in ends : d # e /\ Airport(d) = Airport(e))

\* a member whose location is unknown (at = "") may start anywhere
CheckContinuity(member, duty) ==
    LET legs == ByDeparture(duty.legs)
    IN UNION {Finding("INVALID_LEG_TIME", \E k \in DOMAIN legs : legs[k].arr <= legs[k].dep),
              Finding("CREW_POSITION", legs # <<>> /\ member.at # "" /\ legs[1].from # member.at),
              Finding("LOCATION_DISCONTINUITY", \E k \in 2..Len(legs) : legs[k-1].to # legs[k].from),
              Finding("CONNECTION_TIME",
                      \E k \in 2..Len(legs) : legs[k].dep - legs[k-1].arr < MIN_CONNECTION)}

\* RulesEngine.validate_assignment
ValidateAssignment(member, duty) ==
    UNION {CheckDutyTime(duty), CheckFlightTime(duty), CheckRestPeriod(member, duty),
           CheckQualifications(member, duty), CheckDeadheadLimits(duty), CheckNoDeadheadLoops(duty),
           CheckContinuity(member, duty)}

Legal(member, duty) == ValidateAssignment(member, duty) = {}

-------------------------------------------------------------------------------
(* The operator's profile.  Evidence that is missing is the empty set; hours   *)
(* before the duty are the amounts that the limits leave.                      *)

\* _cumulative: flight and duty time left under the limits of 28 and 365, 7 and 28 days
Cumulative(totals, duty) ==
    Finding("CUMULATIVE_FLIGHT", \E left \in totals.flightLeft : LegTime(duty.legs, Worked(duty.legs)) > left)
        \cup Finding("CUMULATIVE_DUTY", \E left \in totals.dutyLeft : duty.end - duty.start > left)

\* _credentials: licence, medical, recency and the qualification of each type flown
Credentials(evidence, duty, strict) ==
    LET needed == {"licence", "medical", "recency"} \cup {duty.legs[k].type : k \in Worked(duty.legs)}
    IN Finding("CREDENTIAL_EVIDENCE_REQUIRED", strict /\ \E c \in needed : evidence.validUntil[c] = {})
           \cup Finding("CREDENTIAL_EXPIRED",
                        \E c \in needed : \E t \in evidence.validUntil[c] : t < duty.end)

\* _acclimatization_and_nights
Nights(evidence, duty, strict) ==
    UNION {Finding("ACCLIMATIZATION_EVIDENCE_REQUIRED", strict /\ ~evidence.acclimatizationKnown),
           Finding("NIGHT_HISTORY_REQUIRED", AtNight(duty) /\ strict /\ evidence.nights = {}),
           Finding("CONSECUTIVE_NIGHT_LIMIT", AtNight(duty) /\ \E n \in evidence.nights : n + 1 > 3)}

\* _standby_split_augmentation: eighteen hours with the standby, three of approved break, and
\* three crew members with an accepted rest facility
StandbySplitAugmentation(evidence, duty) ==
    UNION {Finding("STANDBY_PLUS_DUTY_LIMIT", evidence.standby + duty.end - duty.start > 36),
           Finding("SPLIT_DUTY_NOT_CREDITABLE",
                   evidence.break > 0 /\ (~evidence.breakApproved \/ evidence.break < 6)),
           Finding("AUGMENTED_COMPLEMENT_INSUFFICIENT", evidence.augmented \in 1..2),
           Finding("REST_FACILITY_INELIGIBLE", evidence.augmented > 0 /\ ~evidence.restFacility)}

History(evidence, duty, strict) ==
    IF strict /\ (~evidence.complete \/ evidence.totals = {}) THEN {"AUTHORITATIVE_HISTORY_REQUIRED"}
    ELSE UNION {Cumulative(totals, duty) : totals \in evidence.totals}

\* OperationalLegalityEvaluator.evaluate
Evaluate(member, duty, evidence, strict) ==
    UNION {ValidateAssignment(member, duty), History(evidence, duty, strict),
           Credentials(evidence, duty, strict), Nights(evidence, duty, strict),
           StandbySplitAugmentation(evidence, duty),
           Finding("CREW_COMPLEMENT_INCOMPLETE", ~evidence.rolesFilled),
           Finding("IMMIGRATION_INFEASIBLE", evidence.visa = {FALSE}),
           Finding("IMMIGRATION_EVIDENCE_REQUIRED", strict /\ evidence.visa = {})}
===============================================================================
