---------------------------- MODULE MCRecoveryAgent ----------------------------
(* Two flights and two members: both rated for both flights, one of them only  *)
(* for the first, or nobody for the first.                                    *)
EXTENDS RecoveryAgent

MCCases == <<"F1", "F2">>
MCRatings == {[F1 |-> {"C1", "C2"}, F2 |-> {"C1", "C2"}], [F1 |-> {"C1", "C2"}, F2 |-> {"C1"}],
              [F1 |-> {}, F2 |-> {"C2"}]}
================================================================================
