------------------------- MODULE MCDurableRecovery -------------------------
(* Small instances of DurableRecovery.  Every actor holds both restricted    *)
(* roles, so that only the service keeps the duties apart; c1 and c2 are     *)
(* legal candidates for r1, c3 an illegal one, all solved at version 1.      *)
EXTENDS DurableRecovery, TLC

CONSTANTS x1, x2, r1, r2, a1, a2, a3, c1, c2, c3

MCDraft == [c \in Candidates |-> [recovery |-> r1, version |-> 1, legal |-> c # c3]]
MCRolesOf == [a \in Actors |-> {"duty-manager", "deployment-controller"}]
MCFreeRoles == {"duty-manager"}

Symmetry == Permutations(Clients) \cup Permutations(Actors) \cup Permutations(Candidates \ {c3})
============================================================================
