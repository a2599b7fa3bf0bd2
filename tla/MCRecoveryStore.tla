-------------------------- MODULE MCRecoveryStore --------------------------
(* Small instances of RecoveryStore: c1, c2 and the scheduler's c3 are plans *)
(* of r1, c4 of r2; c2 is illegal.  Crew q is in c1, c3 and c4; gate g in c2 *)
(* and c3.                                                                   *)
EXTENDS RecoveryStore, FiniteSets, TLC

CONSTANTS x1, x2, a1, a2, i1, r1, r2, c1, c2, c3, c4, q, g, h1, h2, h3, d1, d2

MCSolved == [r \in Recoveries |-> IF r = r1 THEN {c1, c2} \cap Candidates ELSE {c4} \cap Candidates]
MCScheduled == [r \in Recoveries |-> IF r = r1 THEN {c3} \cap Candidates ELSE {}]
MCNeeds == [c \in Candidates |->
  CASE c = c1 -> {q} [] c = c2 -> {g} [] c = c3 -> {q, g} [] c = c4 -> {q}]

Busy == {x \in Clients : request[x] # None}
Issued == {h \in HoldIds : hold[h] # None}

\* Two recoveries compete for a crew: one caller who validates, nobody approves.
Competing ==
  /\ \A r \in Recoveries : Exists(r) =>
       recovery[r].version <= 4 /\ recovery[r].proposer = a1 /\ recovery[r].approvals = {}
       /\ c3 \notin recovery[r].candidates
  /\ Cardinality(Busy) <= 1

\* One recovery is deployed and compensated, twice, by two callers at once: one hold of one tick.
Deploying ==
  /\ \A r \in Recoveries \ {r1} : ~Exists(r)
  /\ kept[c2] = None /\ now <= 1 /\ Cardinality(Issued) <= 1

MCNext == Next /\ (Competing \/ Deploying)'

MCSpec == Init /\ [][MCNext]_vars

Symmetry == Permutations(Clients) \cup Permutations(HoldIds) \cup Permutations(Deployments)
============================================================================
