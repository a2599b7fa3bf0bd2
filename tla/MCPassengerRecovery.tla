------------------------- MODULE MCPassengerRecovery -------------------------
(* A small instance of PassengerRecovery: two flights in a row, of which the  *)
(* first has no seats in business, and two passengers whose routes overlap.   *)
EXTENDS PassengerRecovery

MCEdges == [A |-> <<[flight |-> "F1", to |-> "B", score |-> 1]>>,
            B |-> <<[flight |-> "F2", to |-> "C", score |-> 1]>>]
MCTravellers == <<[origin |-> "A", destination |-> "C", cabin |-> "economy"],
                  [origin |-> "B", destination |-> "C", cabin |-> "business"]>>
MCSeats == [place \in {"F1", "F2"} \X {"economy", "business"} |->
               IF place = <<"F1", "business">> THEN 0 ELSE 1]
==============================================================================
