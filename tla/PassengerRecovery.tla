-------------------------- MODULE PassengerRecovery --------------------------
(* Passenger rebooking against the seat inventory (passengers/,               *)
(* state/capacity_manager.py) and the joint feasibility gate of crew,         *)
(* aircraft and passenger proposals (core/recovery_coordinator.py).           *)
EXTENDS Integers, FiniteSets, Sequences, SequencesExt

CONSTANTS Flights,       \* flight identifiers
          Edges,         \* the route graph: airport -> sequence of [flight, to, score]
          Travellers,    \* the passengers, in the order of the request
          Seats,         \* total seats of a flight in a cabin
          MaxOptions,    \* max_options of the itinerary generator
          MaxDrift       \* bound: how far bookings may stray past empty and full

Cabins == {"economy", "business"}

ASSUME PassengerAssumption ==
    /\ Travellers \in Seq(ToSet(Travellers))
    /\ \A k \in DOMAIN Travellers : Travellers[k].cabin \in Cabins
    /\ Seats \in [Flights \X Cabins -> Nat]
    /\ MaxOptions \in Nat \ {0} /\ MaxDrift \in Nat

VARIABLES booked,      \* seats booked on a flight in a cabin
          jointPlan    \* the last plan: proposals, bookings, those with a seat left, verdict

passengerVars == <<booked, jointPlan>>

CrewReadiness == {"missing", "deficient", "ready"}  \* illegal, short of roles or misplaced
AircraftReadiness == {"missing", "unusable", "ready"}

NoPlan == [deployable |-> FALSE, bookings |-> {}, seated |-> {}, crew |-> <<>>, aircraft |-> <<>>]

PassengerInit == /\ booked = [place \in Flights \X Cabins |-> 0]
                 /\ jointPlan = NoPlan

\* apply_seat_reserved and apply_seat_released follow the events they are given, into an
\* oversold cabin and below nothing
SeatReserved(f, cabin) == /\ booked[<<f, cabin>>] < Seats[<<f, cabin>>] + MaxDrift
                          /\ booked' = [booked EXCEPT ![<<f, cabin>>] = @ + 1]
                          /\ UNCHANGED jointPlan

SeatReleased(f, cabin) == /\ booked[<<f, cabin>>] > -MaxDrift
                          /\ booked' = [booked EXCEPT ![<<f, cabin>>] = @ - 1]
                          /\ UNCHANGED jointPlan

\* seats of the passenger's own cabin
Available(f, cabin) == Seats[<<f, cabin>>] - booked[<<f, cabin>>]

EdgesFrom(airport) ==
    IF airport \in DOMAIN Edges
    THEN SubSeq(Edges[airport], 1, IF Len(Edges[airport]) < MaxOptions THEN Len(Edges[airport]) ELSE MaxOptions)
    ELSE <<>>

\* ItineraryGenerator.generate: direct flights and two-leg routes, in the order of the graph
Options(origin, destination) ==
    LET Through(edge) ==
            IF edge.to = destination THEN <<[flights |-> <<edge.flight>>, score |-> edge.score]>>
            ELSE LET onward == SelectSeq(EdgesFrom(edge.to), LAMBDA next : next.to = destination)
                 IN [k \in DOMAIN onward |-> [flights |-> <<edge.flight, onward[k].flight>>,
                                              score |-> edge.score + onward[k].score]]
        all == FlattenSeq([k \in DOMAIN EdgesFrom(origin) |-> Through(EdgesFrom(origin)[k])])
    IN SubSeq(all, 1, IF Len(all) < MaxOptions THEN Len(all) ELSE MaxOptions)

\* recover: the first of the routes with the highest score, or the waiting list; generated
\* segments carry none of the marks that validate_itinerary refuses
Itinerary(traveller) ==
    LET options == Options(traveller.origin, traveller.destination)
        best == {k \in DOMAIN options : \A j \in DOMAIN options :
                    options[j].score < options[k].score \/ (options[j].score = options[k].score /\ k <= j)}
    IN IF best = {} THEN <<>> ELSE options[CHOOSE k \in best : TRUE].flights

Rebooked == {b \in (DOMAIN Travellers) \X Flights : b[2] \in ToSet(Itinerary(Travellers[b[1]]))}

\* passenger_by_flight: the last action that names a flight replaces the earlier ones
Action(f) == {b \in Rebooked : b[2] = f /\ \A c \in Rebooked : c[2] = f => c[1] <= b[1]}

Shortfall(f) == \E b \in Action(f) : Available(f, Travellers[b[1]].cabin) < 1

Planned(crew, aircraft) ==
    {f \in Flights : crew[f] # "missing" \/ aircraft[f] # "missing" \/ Action(f) # {}}

\* Mutant: flights that only the passengers' actions name are not evaluated
FeasibleMutant(crew, aircraft) ==
    \A f \in {g \in Flights : crew[g] # "missing" \/ aircraft[g] # "missing"} :
        crew[f] = "ready" /\ aircraft[f] = "ready" /\ ~Shortfall(f)

\* evaluate_proposals without airport state: no finding on any flight of any proposal
Feasible(crew, aircraft) ==
    \A f \in Planned(crew, aircraft) : crew[f] = "ready" /\ aircraft[f] = "ready" /\ ~Shortfall(f)

\* PassengerRecoveryCoordinator.coordinate: it reserves nothing
Coordinate(crew, aircraft) ==
    /\ jointPlan' = [deployable |-> Feasible(crew, aircraft),
                     bookings |-> Rebooked,
                     seated |-> {b \in Rebooked : Available(b[2], Travellers[b[1]].cabin) > 0},
                     crew |-> crew, aircraft |-> aircraft]
    /\ UNCHANGED booked

PassengerNext ==
    \/ \E f \in Flights, cabin \in Cabins : SeatReserved(f, cabin) \/ SeatReleased(f, cabin)
    \/ \E crew \in [Flights -> CrewReadiness], aircraft \in [Flights -> AircraftReadiness] :
          Coordinate(crew, aircraft)

PassengerSpec == PassengerInit /\ [][PassengerNext]_passengerVars

\* the booking had a seat, in the passenger's own cabin, when the plan was made
HadSeat(b) == b \in jointPlan.seated

\* A plan that is deployable has a ready crew and a ready aircraft on exactly the same
\* flights, and every passenger whom it rebooks (not those on the waiting list) flies on
\* these only; on each of them the last passenger whose action names it had a seat in his
\* cabin, and of the others nothing is known (core/recovery_coordinator.py:25-95).
DeployablePlanIsJoint ==
    jointPlan.deployable =>
        LET flying == {f \in Flights : jointPlan.crew[f] = "ready"}
        IN /\ \A f \in Flights : jointPlan.aircraft[f] = IF f \in flying THEN "ready" ELSE "missing"
           /\ \A b \in jointPlan.bookings :
                 /\ b[2] \in flying
                 /\ (\A c \in jointPlan.bookings : c[2] = b[2] => c[1] <= b[1]) => HadSeat(b)

\* architecture.md:116-117, "A candidate becomes deployable only when crew, aircraft, airport,
\* passenger, movement and temporary-hold feasibility all pass": each passenger who is rebooked
\* had at least a seat in his cabin on each of his flights.
EveryBookingHasASeat ==
    jointPlan.deployable => \A b \in jointPlan.bookings : HadSeat(b)
=============================================================================
