-------------------------- MODULE MCResourceHolds --------------------------
(* A small instance of ResourceHolds.                                      *)
EXTENDS ResourceHolds

CONSTANTS t1, t2, r1, r2, a, b, o1, o2, h1, h2
============================================================================
