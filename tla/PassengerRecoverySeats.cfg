CONSTANTS
  Flights = {"F1", "F2"}  Edges <- MCEdges  Travellers <- MCTravellers  Seats <- MCSeats
  MaxOptions = 3  MaxDrift = 1
SPECIFICATION PassengerSpec
INVARIANT EveryBookingHasASeat
CHECK_DEADLOCK FALSE
