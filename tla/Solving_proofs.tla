--------------------------- MODULE Solving_proofs ---------------------------
(***************************************************************************)
(* Proofs about the components that look for a plan and judge it: the      *)
(* recovery agent, passenger recovery, the solver tiers and the            *)
(* certificates.  They share no state; the theorems of each are about its  *)
(* own specification.                                                      *)
(***************************************************************************)
EXTENDS RecoveryAgent, PassengerRecovery, TieredSolving, LegalityCertificates, FoldLemmas

-----------------------------------------------------------------------------
(* The recovery agent, for any flights, crew, ratings and planner. *)

\* Whatever is called, by whichever planner: the tools keep the plan earned.
LEMMA ToolsAreGuarded ==
  ASSUME PlanIsEarned, NEW call, RunTool(call)
  PROVE  PlanIsEarned'
  <1> USE DEF PlanIsEarned, Taken
  <1>0. UNCHANGED <<rated, cleared>>
    BY DEF RunTool
  <1>1. CASE ~Allowed(call)
    BY <1>0, <1>1 DEF RunTool
  <1>2. CASE Allowed(call) /\ call.tool = "commit"
    <2>1. /\ committed' = committed \cup {<<call.flight, call.crew>>}
          /\ UNCHANGED <<judged, escalated>>
      BY <1>2 DEF RunTool, Performed
    <2>2. CommitAllowed(call.flight, call.crew)
      BY <1>2 DEF Allowed
    <2>3. /\ <<call.flight, call.crew>> \in judged \cap cleared
          /\ \A p \in committed : p[1] # call.flight
      BY <2>2 DEF CommitAllowed
    <2> QED  BY <1>0, <2>1, <2>3
  <1>3. CASE Allowed(call) /\ call.tool = "escalate"
    <2>1. /\ escalated' = escalated \cup {call.flight}
          /\ UNCHANGED <<judged, committed>>
      BY <1>3 DEF RunTool, Performed
    <2>2. EscalateAllowed(call.flight)
      BY <1>3 DEF Allowed
    <2>3. \A c \in rated[call.flight] :
            (<<call.flight, c>> \in judged /\ <<call.flight, c>> \notin cleared) \/ c \in Taken
      BY <2>2 DEF EscalateAllowed, HasLegalOption, Judged
    <2> QED  BY <1>0, <2>1, <2>3
  <1>4. CASE Allowed(call) /\ call.tool \notin {"commit", "escalate"}
    BY <1>0, <1>4 DEF RunTool, Performed
  <1> QED  BY <1>1, <1>2, <1>3, <1>4

\* A flight is committed once, to a member whom the engine has cleared for it, and goes to the
\* schedulers only after the engine has refused whom the plan does not use, whatever a planner
\* asks for and in whatever order (agents/tools.py:301-308, 359-377).
THEOREM PlansAreEarned == AgentSpec => []PlanIsEarned
  <1>1. AgentInit => PlanIsEarned
    BY DEF AgentInit, PlanIsEarned
  <1>2. PlanIsEarned /\ [AgentNext]_agentVars => PlanIsEarned'
    <2> SUFFICES ASSUME PlanIsEarned, [AgentNext]_agentVars
                 PROVE  PlanIsEarned'
      OBVIOUS
    <2>1. CASE UNCHANGED <<rated, cleared, judged, committed, escalated>>
      BY <2>1 DEF PlanIsEarned, Taken
    <2>2. ASSUME NEW call, RunTool(call)
          PROVE  PlanIsEarned'
      BY <2>2, ToolsAreGuarded
    <2> QED
      BY <2>1, <2>2 DEF AgentNext, agentVars, Perceive, ReachLimit, HeuristicStep, ModelCalls,
                        ModelEnds, StepDownModel, Degrade, Finish
  <1> QED  BY <1>1, <1>2, PTL DEF AgentSpec

\* The heuristic planner never asks in vain because a flight with a legal option is the next one it
\* looks at: no other open flight has as few candidates left, and nobody has taken the option.
NextIsReady ==
  \A f \in Cases : ~IsSettled(f) /\ HasLegalOption(f) =>
     /\ \A c \in Taken : <<f, c>> \notin judged \cap cleared
     /\ \A g \in Cases \ {f} : ~IsSettled(g) => Cardinality(Remaining(f)) < Cardinality(Remaining(g))

Settled == {f \in Cases : IsSettled(f)}

HeuristicInv ==
  /\ rated \in [Cases -> SUBSET Reserve]
  /\ listed \subseteq Cases /\ escalated \subseteq Cases
  /\ judged \subseteq Cases \X Reserve /\ committed \subseteq judged
  /\ \A p, q \in committed : p[1] = q[1] \/ p[2] = q[2] => p = q
  /\ \A p \in committed : p[1] \notin escalated
  /\ NextIsReady
  /\ steps \in Nat /\ steps <= 1 + Cardinality(listed) + Cardinality(judged) + Cardinality(Settled)
  /\ stopped # "no" => stopped = "complete" /\ \A f \in Cases : IsSettled(f)

\* The cases and the pairs are finite, and so is everything that is made of them.
LEMMA AgentFinite ==
  /\ IsFiniteSet(Cases) /\ IsFiniteSet(Cases \X Reserve)
  /\ \A S \in SUBSET Cases : IsFiniteSet(S) /\ Cardinality(S) \in Nat
  /\ \A S \in SUBSET Reserve : IsFiniteSet(S) /\ Cardinality(S) \in Nat
  /\ \A S \in SUBSET (Cases \X Reserve) : IsFiniteSet(S) /\ Cardinality(S) \in Nat
  <1>1. IsFiniteSet(Cases)
    <2>1. PICK n \in Nat : DOMAIN CaseOrder = 1..n
      BY AgentAssumption
    <2>2. IsFiniteSet(1..n)
      BY FS_Interval
    <2>3. CaseOrder \in Surjection(1..n, Cases)
      BY <2>1, AgentAssumption DEF Surjection, Cases, ToSet
    <2> QED  BY <2>2, <2>3, FS_Surjection
  <1>2. IsFiniteSet(Reserve)
    BY AgentAssumption
  <1>3. IsFiniteSet(Cases \X Reserve)
    BY <1>1, <1>2, FS_Product
  <1>4. ASSUME NEW S, NEW U, IsFiniteSet(U), S \in SUBSET U
        PROVE  IsFiniteSet(S) /\ Cardinality(S) \in Nat
    <2>1. IsFiniteSet(S)
      BY <1>4, FS_Subset
    <2> QED  BY <2>1, FS_CardinalityType
  <1> QED  BY <1>1, <1>2, <1>3, <1>4

\* The flight that is selected is open and has the fewest candidates.
LEMMA SelectedIsLeast ==
  ASSUME rated \in [Cases -> SUBSET Reserve], Open # {}
  PROVE  /\ SelectCase \in Cases /\ ~IsSettled(SelectCase)
         /\ \A g \in Cases : ~IsSettled(g) => Cardinality(Remaining(SelectCase)) <= Cardinality(Remaining(g))
  <1> DEFINE First(i) == \A j \in Open : \/ Candidates(i) < Candidates(j)
                                         \/ Candidates(i) = Candidates(j) /\ i <= j
  <1>0. DOMAIN CaseOrder \in SUBSET Nat /\ Open \subseteq DOMAIN CaseOrder
    BY AgentAssumption DEF Open
  <1>1. \A i \in Open : Candidates(i) \in Nat
    <2>1. ASSUME NEW i \in Open
          PROVE  Remaining(CaseOrder[i]) \in SUBSET Reserve
      <3>1. CaseOrder[i] \in Cases
        BY <1>0 DEF Cases, ToSet
      <3> QED  BY <3>1 DEF Remaining
    <2> QED  BY <2>1, AgentFinite DEF Candidates
  <1>2. PICK n \in {Candidates(i) : i \in Open} : \A m \in {Candidates(i) : i \in Open} : n <= m
    <2> DEFINE T == {Candidates(i) : i \in Open}
    <2>1. T \in SUBSET Nat /\ T # {}
      BY <1>1
    <2> HIDE DEF T
    <2>2. \E n \in T : \A m \in T : n <= m
      BY <2>1, Least
    <2> QED  BY <2>2 DEF T
  <1>3. PICK i \in {j \in Open : Candidates(j) = n} : \A j \in {k \in Open : Candidates(k) = n} : i <= j
    <2>1. {j \in Open : Candidates(j) = n} # {} /\ {j \in Open : Candidates(j) = n} \in SUBSET Nat
      BY <1>0, <1>2
    <2> QED  BY <2>1, Least
  <1>4. First(i)
    <2>1. ASSUME NEW j \in Open
          PROVE  Candidates(i) < Candidates(j) \/ (Candidates(i) = Candidates(j) /\ i <= j)
      <3>1. Candidates(i) <= Candidates(j) /\ Candidates(i) \in Nat /\ Candidates(j) \in Nat
        BY <1>1, <1>2, <1>3
      <3>2. Candidates(i) = Candidates(j) => i <= j
        BY <1>3
      <3> QED  BY <3>1, <3>2
    <2> QED  BY <2>1
  <1>5. PICK k \in Open : First(k) /\ SelectCase = CaseOrder[k]
    <2> HIDE DEF First
    <2> DEFINE chosen == CHOOSE j \in Open : First(j)
    <2>1. chosen \in Open /\ First(chosen)
      BY <1>3, <1>4
    <2>2. SelectCase = CaseOrder[chosen]
      BY DEF SelectCase, First
    <2> HIDE DEF chosen
    <2> QED  BY <2>1, <2>2
  <1>6. SelectCase \in Cases /\ ~IsSettled(SelectCase)
    BY <1>0, <1>5 DEF Cases, ToSet, Open
  <1>7. ASSUME NEW g \in Cases, ~IsSettled(g)
        PROVE  Cardinality(Remaining(SelectCase)) <= Cardinality(Remaining(g))
    <2>1. PICK j \in Open : g = CaseOrder[j]
      BY <1>7 DEF Cases, ToSet, Open
    <2>2. Candidates(k) <= Candidates(j)
      BY <1>1, <1>5
    <2> QED  BY <1>5, <2>1, <2>2 DEF Candidates
  <1> QED  BY <1>6, <1>7

\* What is unchanged when the tables that say who is judged, committed and escalated are.
LEMMA ReadyUnchanged ==
  ASSUME UNCHANGED <<rated, cleared, judged, committed, escalated>>
  PROVE  /\ NextIsReady' <=> NextIsReady
         /\ Settled' = Settled
         /\ \A f \in Cases : IsSettled(f)' <=> IsSettled(f)
  <1>1. Taken' = Taken
    BY DEF Taken
  <1>2. \A f \in Cases : /\ IsSettled(f)' <=> IsSettled(f)
                         /\ HasLegalOption(f)' <=> HasLegalOption(f)
                         /\ Remaining(f)' = Remaining(f)
    BY <1>1 DEF IsSettled, HasLegalOption, Judged, Remaining
  <1>3. Settled' = Settled
    BY <1>2 DEF Settled
  <1>4. NextIsReady' <=>
          \A f \in Cases : ~IsSettled(f)' /\ HasLegalOption(f)' =>
             /\ \A c \in Taken : <<f, c>> \notin judged \cap cleared
             /\ \A g \in Cases \ {f} : ~IsSettled(g)' =>
                   Cardinality(Remaining(f)') < Cardinality(Remaining(g)')
    BY <1>1 DEF NextIsReady
  <1>5. NextIsReady' <=> NextIsReady
    BY <1>2, <1>4 DEF NextIsReady
  <1> QED  BY <1>2, <1>3, <1>5

\* Each call of the heuristic planner on the flight it has selected is allowed and makes progress.
LEMMA PreviewKept ==
  ASSUME HeuristicInv, NEW f \in Cases, ~IsSettled(f), stopped = "no",
         \A g \in Cases : ~IsSettled(g) => Cardinality(Remaining(f)) <= Cardinality(Remaining(g)),
         LegalOptions(f) = {}, NEW c \in Remaining(f), steps' = steps + 1,
         RunTool([tool |-> "preview", flight |-> f, crew |-> c])
  PROVE  HeuristicInv'
  <1>1. /\ judged' = judged \cup {<<f, c>>}
        /\ UNCHANGED <<rated, cleared, listed, committed, escalated, stopped>>
    BY DEF RunTool, Allowed, Performed
  <1>2. /\ c \in Reserve /\ <<f, c>> \notin judged /\ c \notin Taken
        /\ judged \subseteq Cases \X Reserve /\ rated \in [Cases -> SUBSET Reserve]
    BY DEF HeuristicInv, Remaining, Judged
  <1>3. /\ Taken' = Taken /\ Settled' = Settled
        /\ \A g \in Cases : IsSettled(g)' <=> IsSettled(g)
    BY <1>1 DEF Taken, Settled, IsSettled
  <1>4. /\ \A g \in Cases \ {f} : Remaining(g)' = Remaining(g)
        /\ Remaining(f)' = Remaining(f) \ {c}
    <2>1. \A g \in Cases \ {f} : Judged(g)' = Judged(g)
      BY <1>1 DEF Judged
    <2>2. Judged(f)' = Judged(f) \cup {c}
      BY <1>1, <1>2 DEF Judged
    <2> QED  BY <1>1, <1>3, <2>1, <2>2 DEF Remaining
  <1>5. \A g \in Cases : HasLegalOption(g)' => HasLegalOption(g) \/ g = f
    BY <1>1 DEF HasLegalOption, Judged
  <1>6. /\ \A g \in Cases : Cardinality(Remaining(g)) \in Nat
        /\ Cardinality(Remaining(f) \ {c}) = Cardinality(Remaining(f)) - 1
    <2>1. \A g \in Cases : Remaining(g) \in SUBSET Reserve
      BY <1>2 DEF Remaining
    <2> QED  BY <2>1, AgentFinite, FS_RemoveElement
  <1>7. Cardinality(judged') = Cardinality(judged) + 1
    <2>1. IsFiniteSet(judged) /\ Cardinality(judged) \in Nat
      BY <1>2, AgentFinite
    <2> QED  BY <1>1, <1>2, <2>1, FS_AddElement
  <1>8. NextIsReady'
    <2>1. ASSUME NEW h \in Cases, ~IsSettled(h), HasLegalOption(h)'
          PROVE  /\ \A d \in Taken : <<h, d>> \notin judged' \cap cleared
                 /\ \A g \in Cases \ {h} : ~IsSettled(g) =>
                       Cardinality(Remaining(h)') < Cardinality(Remaining(g)')
      <3>1. h = f
        <4>1. CASE h # f
          <5>1. HasLegalOption(h)
            BY <1>5, <2>1, <4>1
          <5>2. Cardinality(Remaining(h)) < Cardinality(Remaining(f))
            BY <2>1, <4>1, <5>1 DEF HeuristicInv, NextIsReady
          <5> QED  BY <1>6, <2>1, <5>2
        <4> QED  BY <4>1
      <3>2. ASSUME NEW d \in Taken, <<f, d>> \in judged' \cap cleared
            PROVE  FALSE
        <4>1. <<f, d>> \in judged \cap cleared /\ d \in Reserve
          BY <1>1, <1>2, <3>2
        <4>2. HasLegalOption(f)
          BY <4>1 DEF HasLegalOption, Judged
        <4> QED  BY <3>2, <4>1, <4>2 DEF HeuristicInv, NextIsReady
      <3>3. ASSUME NEW g \in Cases \ {f}, ~IsSettled(g)
            PROVE  Cardinality(Remaining(f)') < Cardinality(Remaining(g)')
        <4>1. Cardinality(Remaining(f)) <= Cardinality(Remaining(g))
          BY <3>3
        <4> QED  BY <1>4, <1>6, <4>1
      <3> QED  BY <3>1, <3>2, <3>3
    <2> QED  BY <1>1, <1>3, <2>1 DEF NextIsReady
  <1>9. steps' \in Nat /\ steps' <= 1 + Cardinality(listed') + Cardinality(judged') + Cardinality(Settled')
    <2>1. /\ Cardinality(listed) \in Nat /\ Cardinality(judged) \in Nat /\ Cardinality(Settled) \in Nat
      BY AgentFinite DEF HeuristicInv, Settled
    <2> QED  BY <1>1, <1>3, <1>7, <2>1 DEF HeuristicInv
  <1> QED  BY <1>1, <1>2, <1>8, <1>9 DEF HeuristicInv

LEMMA ListKept ==
  ASSUME HeuristicInv, NEW f \in Cases, f \notin listed, stopped = "no", steps' = steps + 1,
         RunTool([tool |-> "list", flight |-> f])
  PROVE  HeuristicInv'
  <1>1. /\ listed' = listed \cup {f}
        /\ UNCHANGED <<rated, cleared, judged, committed, escalated, stopped>>
    BY DEF RunTool, Allowed, Performed
  <1>2. NextIsReady' /\ Settled' = Settled
    BY <1>1, ReadyUnchanged DEF HeuristicInv
  <1>3. Cardinality(listed') = Cardinality(listed) + 1
    <2>1. IsFiniteSet(listed) /\ Cardinality(listed) \in Nat
      BY AgentFinite DEF HeuristicInv
    <2> QED  BY <1>1, <2>1, FS_AddElement
  <1>4. steps' \in Nat /\ steps' <= 1 + Cardinality(listed') + Cardinality(judged') + Cardinality(Settled')
    <2>1. /\ Cardinality(listed) \in Nat /\ Cardinality(judged) \in Nat /\ Cardinality(Settled) \in Nat
      BY AgentFinite DEF HeuristicInv, Settled
    <2> QED  BY <1>1, <1>2, <1>3, <2>1 DEF HeuristicInv
  <1> QED  BY <1>1, <1>2, <1>4 DEF HeuristicInv

\* A flight that is settled: no other flight had a legal option that the call could have spoilt.
LEMMA SettleKept ==
  ASSUME HeuristicInv, NEW f \in Cases, ~IsSettled(f), stopped = "no", steps' = steps + 1,
         UNCHANGED <<rated, cleared, listed, judged, stopped>>,
         \A g \in Cases : IsSettled(g)' <=> IsSettled(g) \/ g = f,
         \/ Taken' = Taken
         \/ HasLegalOption(f)
  PROVE  /\ NextIsReady'
         /\ steps' \in Nat /\ steps' <= 1 + Cardinality(listed') + Cardinality(judged') + Cardinality(Settled')
  <1>1. Settled' = Settled \cup {f} /\ f \notin Settled
    BY DEF Settled
  <1>2. Cardinality(Settled') = Cardinality(Settled) + 1
    <2>1. IsFiniteSet(Settled) /\ Cardinality(Settled) \in Nat
      BY AgentFinite DEF Settled
    <2> QED  BY <1>1, <2>1, FS_AddElement
  <1>3. steps' \in Nat /\ steps' <= 1 + Cardinality(listed') + Cardinality(judged') + Cardinality(Settled')
    <2>1. /\ Cardinality(listed) \in Nat /\ Cardinality(judged) \in Nat /\ Cardinality(Settled) \in Nat
      BY AgentFinite DEF HeuristicInv, Settled
    <2> QED  BY <1>2, <2>1 DEF HeuristicInv
  <1>4. \A g \in Cases : /\ HasLegalOption(g)' <=> HasLegalOption(g)
    BY DEF HasLegalOption, Judged
  <1>5. NextIsReady'
    <2>1. CASE HasLegalOption(f)
      <3>1. ASSUME NEW h \in Cases, ~IsSettled(h), h # f, HasLegalOption(h)
            PROVE  FALSE
        <4>1. /\ Cardinality(Remaining(h)) < Cardinality(Remaining(f))
              /\ Cardinality(Remaining(f)) < Cardinality(Remaining(h))
          BY <2>1, <3>1 DEF HeuristicInv, NextIsReady
        <4>2. /\ Cardinality(Remaining(h)) \in Nat /\ Cardinality(Remaining(f)) \in Nat
          <5>1. Remaining(h) \in SUBSET Reserve /\ Remaining(f) \in SUBSET Reserve
            BY DEF HeuristicInv, Remaining
          <5> QED  BY <5>1, AgentFinite
        <4> QED  BY <4>1, <4>2
      <3> QED  BY <1>4, <3>1 DEF NextIsReady
    <2>2. CASE Taken' = Taken
      <3>1. \A g \in Cases : Remaining(g)' = Remaining(g)
        BY <2>2 DEF Remaining, Judged
      <3> QED  BY <1>4, <2>2, <3>1 DEF HeuristicInv, NextIsReady
    <2> QED  BY <2>1, <2>2
  <1> QED  BY <1>3, <1>5

LEMMA CommitKept ==
  ASSUME HeuristicInv, NEW f \in Cases, ~IsSettled(f), stopped = "no",
         NEW c \in LegalOptions(f), steps' = steps + 1,
         RunTool([tool |-> "commit", flight |-> f, crew |-> c])
  PROVE  HeuristicInv'
  <1>1. /\ c \in Reserve /\ <<f, c>> \in judged \cap cleared /\ c \notin Taken /\ HasLegalOption(f)
    BY DEF LegalOptions, Judged, HasLegalOption
  <1>2. CommitAllowed(f, c)
    BY <1>1 DEF CommitAllowed, IsSettled
  <1>3. /\ committed' = committed \cup {<<f, c>>}
        /\ UNCHANGED <<rated, cleared, listed, judged, escalated, stopped>>
    BY <1>2 DEF RunTool, Allowed, Performed
  <1>4. \A g \in Cases : IsSettled(g)' <=> IsSettled(g) \/ g = f
    <2>1. <<f, c>> \in committed' /\ <<f, c>>[1] = f
      BY <1>3
    <2>2. \A p \in committed' : p \in committed \/ p[1] = f
      BY <1>3
    <2> QED  BY <1>3, <2>1, <2>2 DEF IsSettled
  <1>5. /\ NextIsReady'
        /\ steps' \in Nat /\ steps' <= 1 + Cardinality(listed') + Cardinality(judged') + Cardinality(Settled')
    BY <1>1, <1>3, <1>4, SettleKept
  <1>6. \A p, q \in committed' : p[1] = q[1] \/ p[2] = q[2] => p = q
    <2>1. \A p \in committed : p[1] # f /\ p[2] # c
      BY <1>1 DEF IsSettled, Taken
    <2> QED  BY <1>3, <2>1 DEF HeuristicInv
  <1>7. \A p \in committed' : p[1] \notin escalated'
    BY <1>3 DEF HeuristicInv, IsSettled
  <1>8. committed' \subseteq judged'
    BY <1>1, <1>3 DEF HeuristicInv
  <1> QED  BY <1>3, <1>5, <1>6, <1>7, <1>8 DEF HeuristicInv

LEMMA EscalateKept ==
  ASSUME HeuristicInv, NEW f \in Cases, ~IsSettled(f), stopped = "no",
         LegalOptions(f) = {}, Remaining(f) = {}, steps' = steps + 1,
         RunTool([tool |-> "escalate", flight |-> f])
  PROVE  HeuristicInv'
  <1>1. ~HasLegalOption(f)
    BY DEF HeuristicInv, NextIsReady, HasLegalOption, LegalOptions, Judged
  <1>2. EscalateAllowed(f)
    BY <1>1 DEF EscalateAllowed, Remaining
  <1>3. /\ escalated' = escalated \cup {f}
        /\ UNCHANGED <<rated, cleared, listed, judged, committed, stopped>>
    BY <1>2 DEF RunTool, Allowed, Performed
  <1>4. \A g \in Cases : IsSettled(g)' <=> IsSettled(g) \/ g = f
    BY <1>3 DEF IsSettled
  <1>5. Taken' = Taken
    BY <1>3 DEF Taken
  <1>6. /\ NextIsReady'
        /\ steps' \in Nat /\ steps' <= 1 + Cardinality(listed') + Cardinality(judged') + Cardinality(Settled')
    BY <1>3, <1>4, <1>5, SettleKept
  <1>7. \A p \in committed' : p[1] \notin escalated'
    BY <1>3 DEF HeuristicInv, IsSettled
  <1> QED  BY <1>3, <1>6, <1>7 DEF HeuristicInv

\* The picture, and no flight is listed or settled twice and no pair judged twice.
LEMMA StepsBounded ==
  ASSUME HeuristicInv
  PROVE  /\ steps \in Nat
         /\ steps <= 1 + 2 * Cardinality(Cases) + Cardinality(Cases) * Cardinality(Reserve)
  <1>1. /\ IsFiniteSet(Cases) /\ IsFiniteSet(Reserve) /\ IsFiniteSet(Cases \X Reserve)
        /\ Cardinality(Cases) \in Nat /\ Cardinality(Reserve) \in Nat
        /\ Cardinality(Cases \X Reserve) = Cardinality(Cases) * Cardinality(Reserve)
    BY AgentFinite, AgentAssumption, FS_CardinalityType, FS_Product
  <1>2. /\ Cardinality(listed) <= Cardinality(Cases)
        /\ Cardinality(judged) <= Cardinality(Cases \X Reserve)
    BY <1>1, FS_Subset DEF HeuristicInv
  <1>3. Cardinality(Settled) <= Cardinality(Cases)
    <2>1. Settled \in SUBSET Cases
      BY DEF Settled
    <2> QED  BY <1>1, <2>1, FS_Subset
  <1>4. Cardinality(listed) \in Nat /\ Cardinality(judged) \in Nat /\ Cardinality(Settled) \in Nat
    BY AgentFinite DEF HeuristicInv, Settled
  <1>5. Cardinality(Cases \X Reserve) \in Nat
    BY <1>1, FS_CardinalityType
  <1> HIDE DEF Settled
  <1>6. steps \in Nat /\ steps <= 1 + Cardinality(listed) + Cardinality(judged) + Cardinality(Settled)
    BY DEF HeuristicInv
  <1>7. steps <= 1 + 2 * Cardinality(Cases) + Cardinality(Cases \X Reserve)
    BY <1>1, <1>2, <1>3, <1>4, <1>5, <1>6
  <1> QED  BY <1>1, <1>6, <1>7

\* Left to itself, and with steps enough to read the picture, list and settle every flight, look at
\* every candidate of each and find that nothing is left to do (recovery_agent.py:145-183), the heuristic
\* planner never asks in vain: it settles every flight once, gives no member two flights and ends
\* (agents/planner.py:66-156 against the guards of agents/tools.py).
THEOREM HeuristicPlansFinish ==
  ASSUME StepLimit > 1 + 2 * Cardinality(Cases) + Cardinality(Cases) * Cardinality(Reserve)
  PROVE  AgentSpec => []HeuristicPlanIsComplete
  <1> DEFINE Inv == planner = "deterministic" => HeuristicInv /\ (~perceived => steps = 0)
  <1>1. AgentInit => Inv
    <2> SUFFICES ASSUME AgentInit PROVE HeuristicInv /\ steps = 0
      OBVIOUS
    <2>1. NextIsReady
      BY DEF AgentInit, NextIsReady, HasLegalOption, Judged
    <2>2. Cardinality(listed) = 0 /\ Cardinality(judged) = 0 /\ Cardinality(Settled) = 0
      BY FS_EmptySet DEF AgentInit, Settled, IsSettled
    <2>3. rated \in [Cases -> SUBSET Reserve]
      BY AgentAssumption DEF AgentInit
    <2> QED  BY <2>1, <2>2, <2>3 DEF AgentInit, HeuristicInv
  <1>2. Inv /\ [AgentNext]_agentVars => Inv'
    <2> SUFFICES ASSUME Inv, [AgentNext]_agentVars, planner' = "deterministic"
                 PROVE  HeuristicInv' /\ (~perceived' => steps' = 0)
      OBVIOUS
    <2>1. planner = "deterministic" /\ HeuristicInv
      BY DEF AgentNext, agentVars, Perceive, ReachLimit, HeuristicStep, ModelCalls, ModelEnds,
             StepDownModel, Degrade, Finish
    <2>2. CASE UNCHANGED agentVars
      <3>1. UNCHANGED <<rated, cleared, listed, judged, committed, escalated, stopped, perceived, steps>>
        BY <2>2 DEF agentVars
      <3>2. (NextIsReady' <=> NextIsReady) /\ Settled' = Settled /\ \A f \in Cases : IsSettled(f)' <=> IsSettled(f)
        BY <3>1, ReadyUnchanged
      <3> QED  BY <2>1, <3>1, <3>2 DEF HeuristicInv
    <2>3. CASE Perceive
      <3>1. /\ UNCHANGED <<rated, cleared, listed, judged, committed, escalated, stopped>>
            /\ perceived' /\ steps' = 1
        BY <2>1, <2>3 DEF Perceive
      <3>2. NextIsReady' /\ Settled' = Settled
        BY <2>1, <3>1, ReadyUnchanged DEF HeuristicInv
      <3>3. /\ Cardinality(listed) \in Nat /\ Cardinality(judged) \in Nat /\ Cardinality(Settled) \in Nat
        BY <2>1, AgentFinite DEF HeuristicInv, Settled
      <3>4. stopped = "no"
        BY <2>3 DEF Perceive
      <3> QED  BY <2>1, <3>1, <3>2, <3>3, <3>4 DEF HeuristicInv
    <2>4. CASE HeuristicStep /\ Open = {}
      <3>1. \A f \in Cases : IsSettled(f)
        BY <2>4 DEF Open, Cases, ToSet
      <3>2. /\ UNCHANGED <<rated, cleared, listed, judged, committed, escalated, steps, perceived>>
            /\ perceived /\ stopped' = "complete"
        BY <2>4 DEF HeuristicStep, Finish
      <3>3. NextIsReady' /\ Settled' = Settled /\ \A f \in Cases : IsSettled(f)'
        BY <2>1, <3>1, <3>2, ReadyUnchanged DEF HeuristicInv
      <3> QED  BY <2>1, <3>2, <3>3 DEF HeuristicInv
    <2>5. CASE HeuristicStep /\ Open # {}
      <3> DEFINE f == SelectCase
      <3>1. /\ f \in Cases /\ ~IsSettled(f)
            /\ \A g \in Cases : ~IsSettled(g) => Cardinality(Remaining(f)) <= Cardinality(Remaining(g))
        BY <2>1, <2>5, SelectedIsLeast DEF HeuristicInv
      <3> HIDE DEF f
      <3>3. PICK call \in Heuristic(f) : RunTool(call)
        BY <2>1, <2>5 DEF HeuristicStep, f
      <3>4. steps' = steps + 1 /\ stopped = "no" /\ perceived /\ UNCHANGED perceived
        BY <2>1, <2>5, <3>3 DEF HeuristicStep, RunTool
      <3>5. CASE LegalOptions(f) # {}
        <4>1. PICK c \in LegalOptions(f) : call = [tool |-> "commit", flight |-> f, crew |-> c]
          BY <3>3, <3>5 DEF Heuristic
        <4> QED  BY <2>1, <3>1, <3>3, <3>4, <4>1, CommitKept
      <3>6. CASE LegalOptions(f) = {} /\ Remaining(f) = {}
        <4>1. call = [tool |-> "escalate", flight |-> f]
          BY <3>3, <3>6 DEF Heuristic
        <4> QED  BY <2>1, <3>1, <3>3, <3>4, <3>6, <4>1, EscalateKept
      <3>7. CASE LegalOptions(f) = {} /\ Remaining(f) # {} /\ f \notin listed
        <4>1. call = [tool |-> "list", flight |-> f]
          BY <3>3, <3>7 DEF Heuristic
        <4> QED  BY <2>1, <3>1, <3>3, <3>4, <3>7, <4>1, ListKept
      <3>8. CASE LegalOptions(f) = {} /\ Remaining(f) # {} /\ f \in listed
        <4>1. PICK c \in TopRanked(f) : call = [tool |-> "preview", flight |-> f, crew |-> c]
          BY <3>3, <3>8 DEF Heuristic
        <4>2. c \in Remaining(f)
          BY DEF TopRanked
        <4> QED  BY <2>1, <3>1, <3>3, <3>4, <3>8, <4>1, <4>2, PreviewKept
      <3> QED  BY <3>5, <3>6, <3>7, <3>8
    <2>6. ~ReachLimit
      <3>1. Cardinality(Cases) \in Nat /\ Cardinality(Reserve) \in Nat
        BY AgentFinite
      <3>2. Cardinality(Cases) * Cardinality(Reserve) \in Nat /\ StepLimit \in Nat
        BY <3>1, AgentAssumption
      <3>3. /\ steps \in Nat
            /\ steps <= 1 + 2 * Cardinality(Cases) + Cardinality(Cases) * Cardinality(Reserve)
        BY <2>1, StepsBounded
      <3>4. steps # StepLimit
        BY <3>1, <3>2, <3>3
      <3> QED  BY <2>1, <3>4 DEF ReachLimit
    <2> QED
      BY <2>1, <2>2, <2>3, <2>4, <2>5, <2>6 DEF AgentNext, ModelCalls, ModelEnds, StepDownModel, Degrade
  <1>3. Inv => HeuristicPlanIsComplete
    BY DEF HeuristicInv, HeuristicPlanIsComplete
  <1> QED  BY <1>1, <1>2, <1>3, PTL DEF AgentSpec

-----------------------------------------------------------------------------
(* Passenger recovery, for any flights, routes, passengers and bookings. *)

\* Of the passengers who are rebooked on a flight one is the last to name it.
LEMMA LastActionCounts ==
  ASSUME NEW b \in Rebooked
  PROVE  \E a \in Action(b[2]) : a \in Rebooked /\ a[2] = b[2]
  <1> DEFINE Named == {k \in DOMAIN Travellers : <<k, b[2]>> \in Rebooked}
  <1>1. PICK n \in Nat : DOMAIN Travellers = 1..n
    BY PassengerAssumption
  <1>2. Named \in SUBSET Int /\ IsFiniteSet(Named)
    <2>1. Named \in SUBSET (1..n)
      BY <1>1
    <2>2. IsFiniteSet(1..n)
      BY FS_Interval
    <2>3. Named \in SUBSET Int
      BY <1>1
    <2> HIDE DEF Named
    <2>4. IsFiniteSet(Named)
      BY <2>1, <2>2, FS_Subset
    <2> QED  BY <2>3, <2>4
  <1>3. b = <<b[1], b[2]>> /\ b[1] \in DOMAIN Travellers /\ b[2] \in Flights
    BY DEF Rebooked
  <1>4. b[1] \in Named
    BY <1>3
  <1> HIDE DEF Named
  <1>5. PICK k \in Named : \A j \in Named : j <= k
    BY <1>2, <1>4, FiniteMaximum
  <1>6. <<k, b[2]>> \in Rebooked
    BY DEF Named
  <1>7. ASSUME NEW c \in Rebooked, c[2] = b[2]
        PROVE  c[1] <= k
    <2>1. c = <<c[1], c[2]>> /\ c[1] \in DOMAIN Travellers
      BY DEF Rebooked
    <2>2. c[1] \in Named
      BY <1>7, <2>1 DEF Named
    <2> QED  BY <1>5, <2>2
  <1> QED  BY <1>6, <1>7 DEF Action

\* A feasible plan has crew and aircraft ready on the same flights, passengers are rebooked on
\* these only, and the last to name a flight has a seat in his cabin.
LEMMA FeasibleIsJoint ==
  ASSUME booked \in [Flights \X Cabins -> Int],
         NEW crew \in [Flights -> CrewReadiness], NEW aircraft \in [Flights -> AircraftReadiness],
         Feasible(crew, aircraft)
  PROVE  /\ \A f \in Flights : \/ crew[f] = "ready" /\ aircraft[f] = "ready"
                               \/ crew[f] = "missing" /\ aircraft[f] = "missing"
         /\ \A b \in Rebooked :
               /\ b[2] \in Flights /\ crew[b[2]] = "ready"
               /\ (\A c \in Rebooked : c[2] = b[2] => c[1] <= b[1]) =>
                     Available(b[2], Travellers[b[1]].cabin) > 0
  <1>1. ASSUME NEW f \in Flights
        PROVE  \/ crew[f] = "ready" /\ aircraft[f] = "ready"
               \/ crew[f] = "missing" /\ aircraft[f] = "missing"
    BY DEF Feasible, Planned
  <1>2. ASSUME NEW b \in Rebooked
        PROVE  b[2] \in Flights /\ crew[b[2]] = "ready" /\ ~Shortfall(b[2])
    <2>1. PICK a \in Action(b[2]) : a \in Rebooked /\ a[2] = b[2]
      BY LastActionCounts
    <2>2. b[2] \in Flights
      BY DEF Rebooked
    <2>3. b[2] \in Planned(crew, aircraft)
      BY <2>1, <2>2 DEF Planned
    <2> QED  BY <2>2, <2>3 DEF Feasible
  <1>3. ASSUME NEW b \in Rebooked, \A c \in Rebooked : c[2] = b[2] => c[1] <= b[1]
        PROVE  Available(b[2], Travellers[b[1]].cabin) > 0
    <2> DEFINE cabin == Travellers[b[1]].cabin
    <2>1. b[2] \in Flights /\ b[1] \in DOMAIN Travellers
      BY DEF Rebooked
    <2>2. cabin \in Cabins
      BY <2>1, PassengerAssumption
    <2>3. b \in Action(b[2])
      BY <1>3 DEF Action
    <2>4. ~(Available(b[2], cabin) < 1)
      BY <1>2, <2>3 DEF Shortfall
    <2> HIDE DEF cabin
    <2>5. <<b[2], cabin>> \in Flights \X Cabins
      BY <2>1, <2>2
    <2>6. Available(b[2], cabin) \in Int
      BY <2>5, PassengerAssumption DEF Available
    <2>7. Available(b[2], cabin) > 0
      BY <2>4, <2>6
    <2> QED  BY <2>7 DEF cabin
  <1> QED  BY <1>1, <1>2, <1>3

\* What is deployable is joint, whatever seats are sold and given back before and after the plan
\* is made (core/recovery_coordinator.py:25-95).
THEOREM DeployablePlansAreJoint == PassengerSpec => []DeployablePlanIsJoint
  <1> DEFINE Inv == booked \in [Flights \X Cabins -> Int] /\ DeployablePlanIsJoint
  <1>1. PassengerInit => Inv
    BY DEF PassengerInit, DeployablePlanIsJoint, NoPlan
  <1>2. Inv /\ [PassengerNext]_passengerVars => Inv'
    <2> SUFFICES ASSUME Inv, [PassengerNext]_passengerVars
                 PROVE  Inv'
      OBVIOUS
    <2>1. ASSUME NEW f \in Flights, NEW cabin \in Cabins, SeatReserved(f, cabin) \/ SeatReleased(f, cabin)
          PROVE  Inv'
      <3>1. UNCHANGED jointPlan
        BY <2>1 DEF SeatReserved, SeatReleased
      <3>2. booked' \in [Flights \X Cabins -> Int]
        BY <2>1 DEF SeatReserved, SeatReleased
      <3> QED  BY <3>1, <3>2 DEF DeployablePlanIsJoint, HadSeat
    <2>2. ASSUME NEW crew \in [Flights -> CrewReadiness], NEW aircraft \in [Flights -> AircraftReadiness],
                 Coordinate(crew, aircraft)
          PROVE  Inv'
      <3> DEFINE seated == {b \in Rebooked : Available(b[2], Travellers[b[1]].cabin) > 0}
                 flying == {f \in Flights : jointPlan'.crew[f] = "ready"}
      <3>1. /\ jointPlan' = [deployable |-> Feasible(crew, aircraft), bookings |-> Rebooked,
                             seated |-> seated, crew |-> crew, aircraft |-> aircraft]
            /\ UNCHANGED booked
        BY <2>2 DEF Coordinate
      <3> HIDE DEF seated
      <3>2. /\ jointPlan'.deployable = Feasible(crew, aircraft) /\ jointPlan'.bookings = Rebooked
            /\ jointPlan'.seated = seated /\ jointPlan'.crew = crew /\ jointPlan'.aircraft = aircraft
        BY <3>1
      <3>3. ASSUME Feasible(crew, aircraft)
            PROVE  /\ \A f \in Flights : jointPlan'.aircraft[f] = IF f \in flying THEN "ready" ELSE "missing"
                   /\ \A b \in jointPlan'.bookings :
                         /\ b[2] \in flying
                         /\ (\A c \in jointPlan'.bookings : c[2] = b[2] => c[1] <= b[1]) => HadSeat(b)'
        <4>1. \A f \in Flights : jointPlan'.aircraft[f] = IF f \in flying THEN "ready" ELSE "missing"
          BY <3>2, <3>3, FeasibleIsJoint
        <4>2. ASSUME NEW b \in Rebooked
              PROVE  b[2] \in flying
          BY <3>2, <3>3, FeasibleIsJoint
        <4>3. ASSUME NEW b \in Rebooked, \A c \in Rebooked : c[2] = b[2] => c[1] <= b[1]
              PROVE  HadSeat(b)'
          BY <3>2, <3>3, <4>3, FeasibleIsJoint DEF seated, HadSeat
        <4> QED  BY <3>2, <4>1, <4>2, <4>3
      <3>4. DeployablePlanIsJoint'
        BY <3>2, <3>3 DEF DeployablePlanIsJoint
      <3> QED  BY <3>1, <3>4
    <2>3. CASE UNCHANGED passengerVars
      BY <2>3 DEF passengerVars, DeployablePlanIsJoint, HadSeat
    <2> QED  BY <2>1, <2>2, <2>3 DEF PassengerNext
  <1>3. Inv => DeployablePlanIsJoint
    OBVIOUS
  <1> QED  BY <1>1, <1>2, <1>3, PTL DEF PassengerSpec

-----------------------------------------------------------------------------
(* Sums.  The library adds the elements in the order in which CHOOSE names  *)
(* them; the sum does not depend on it.                                     *)

Chosen(s) == CHOOSE x \in s : TRUE

AddsUp(f, S, g) == g = [s \in SUBSET S |-> IF s = {} THEN 0 ELSE f[Chosen(s)] + g[s \ {Chosen(s)}]]

LEMMA SumUnfolds ==
  ASSUME NEW f, NEW S
  PROVE  SumFunctionOnSet(f, S) = (CHOOSE g : AddsUp(f, S, g))[S]
  BY DEF SumFunctionOnSet, FoldFunctionOnSet, MapThenFoldSet, AddsUp, Chosen

\* There is such a function on the subsets of a finite set.
LEMMA SumsExist ==
  ASSUME NEW S, IsFiniteSet(S), NEW f, \A x \in S : f[x] \in Int
  PROVE  \E g \in [SUBSET S -> Int] : AddsUp(f, S, g)
  <1> DEFINE last == [s \in SUBSET S |-> Chosen(s)]
             step == [a \in S \X Int |-> f[a[1]] + a[2]]
  <1>1. \A s \in SUBSET S : s # {} => last[s] \in s /\ last[s] = Chosen(s)
    BY DEF Chosen
  <1>2. \A x \in S, v \in Int : step[<<x, v>>] = f[x] + v /\ step[<<x, v>>] \in Int
    OBVIOUS
  <1> HIDE DEF last, step
  <1>3. PICK g \in [SUBSET S -> Int] : Folds(S, 0, last, step, g)
    <2> DEFINE sums == Int
               zero == 0
    <2>1. /\ zero \in sums /\ \A s \in SUBSET S : s # {} => last[s] \in s
          /\ \A x \in S, v \in sums : step[<<x, v>>] \in sums
      BY <1>1, <1>2
    <2> HIDE DEF sums, zero
    <2>2. \E g \in [SUBSET S -> sums] : Folds(S, zero, last, step, g)
      BY <2>1, FoldsExist
    <2> QED  BY <2>2 DEF sums, zero
  <1>4. ASSUME NEW s \in SUBSET S
        PROVE  g[s] = IF s = {} THEN 0 ELSE f[Chosen(s)] + g[s \ {Chosen(s)}]
    <2>1. CASE s = {}
      BY <1>3, <2>1 DEF Folds
    <2>2. CASE s # {}
      <3> DEFINE x == Chosen(s)
      <3>1. x \in S /\ x = last[s] /\ s \ {x} \in SUBSET S /\ g[s \ {x}] \in Int
        BY <1>1, <2>2
      <3>2. g[s] = step[<<x, g[s \ {x}]>>]
        BY <1>3, <2>2, <3>1 DEF Folds
      <3> HIDE DEF x
      <3>3. g[s] = f[x] + g[s \ {x}]
        BY <1>2, <3>1, <3>2
      <3> QED  BY <2>2, <3>3 DEF x
    <2> QED  BY <2>1, <2>2
  <1> QED  BY <1>4 DEF AddsUp

IsTable(f, S, g) ==
  /\ g[{}] = 0
  /\ \A T \in SUBSET S : T # {} => g[T] = f[Chosen(T)] + g[T \ {Chosen(T)}]
  /\ \A T \in SUBSET S : SumFunctionOnSet(f, T) = g[T]

\* One table holds the sums over all of its subsets.
LEMMA SumTable ==
  ASSUME NEW S, IsFiniteSet(S), NEW f, \A x \in S : f[x] \in Int
  PROVE  \E g \in [SUBSET S -> Int] : IsTable(f, S, g)
  <1>1. PICK g \in [SUBSET S -> Int] : AddsUp(f, S, g)
    BY SumsExist
  <1>2. g[{}] = 0 /\ \A T \in SUBSET S : T # {} => g[T] = f[Chosen(T)] + g[T \ {Chosen(T)}]
    BY <1>1 DEF AddsUp
  <1>3. ASSUME NEW T \in SUBSET S
        PROVE  SumFunctionOnSet(f, T) = g[T]
    <2> DEFINE h == CHOOSE k : AddsUp(f, T, k)
    <2>1. IsFiniteSet(T)
      BY FS_Subset
    <2>2. AddsUp(f, T, h)
      BY <2>1, SumsExist
    <2> HIDE DEF h
    <2>3. AgreeStepwise(T, h, g)
      <3>1. h[{}] = g[{}]
        BY <1>2, <2>2 DEF AddsUp
      <3>2. ASSUME NEW U \in SUBSET T, U # {}
            PROVE  \E x \in U : h[U \ {x}] = g[U \ {x}] => h[U] = g[U]
        <4>1. Chosen(U) \in U
          BY <3>2 DEF Chosen
        <4>2. h[U] = f[Chosen(U)] + h[U \ {Chosen(U)}]
          BY <2>2, <3>2 DEF AddsUp
        <4>3. g[U] = f[Chosen(U)] + g[U \ {Chosen(U)}]
          BY <1>2, <3>2
        <4> QED  BY <4>1, <4>2, <4>3
      <3> QED  BY <3>1, <3>2 DEF AgreeStepwise
    <2>4. h[T] = g[T]
      BY <2>1, <2>3, FoldsAgree
    <2> QED  BY <2>4, SumUnfolds DEF h
  <1> QED  BY <1>1, <1>2, <1>3 DEF IsTable

\* Any element may be added last.
LEMMA SumRemove ==
  ASSUME NEW S, IsFiniteSet(S), NEW f, \A x \in S : f[x] \in Int
  PROVE  /\ SumFunctionOnSet(f, {}) = 0
         /\ SumFunctionOnSet(f, S) \in Int
         /\ \A x \in S : /\ SumFunctionOnSet(f, S \ {x}) \in Int
                         /\ SumFunctionOnSet(f, S) = f[x] + SumFunctionOnSet(f, S \ {x})
  <1>1. PICK g \in [SUBSET S -> Int] : IsTable(f, S, g)
    BY SumTable
  <1> DEFINE Fine == {T \in SUBSET S : \A x \in T : g[T] = f[x] + g[T \ {x}]}
  <1>2. ASSUME NEW T \in SUBSET S, \A x \in T : T \ {x} \in Fine
        PROVE  T \in Fine
    <2> SUFFICES ASSUME NEW x \in T
                 PROVE  g[T] = f[x] + g[T \ {x}]
      OBVIOUS
    <2> DEFINE c == Chosen(T)
    <2>1. c \in T
      BY DEF Chosen
    <2>2. g[T] = f[c] + g[T \ {c}]
      BY <1>1 DEF IsTable
    <2> HIDE DEF c
    <2>3. CASE x = c
      BY <2>2, <2>3
    <2>4. CASE x # c
      <3>1. g[T \ {c}] = f[x] + g[(T \ {c}) \ {x}]
        BY <1>2, <2>1, <2>4
      <3>2. g[T \ {x}] = f[c] + g[(T \ {x}) \ {c}]
        BY <1>2, <2>1, <2>4
      <3>3. g[(T \ {c}) \ {x}] = g[(T \ {x}) \ {c}]
        <4>1. (T \ {c}) \ {x} = (T \ {x}) \ {c}
          OBVIOUS
        <4> QED  BY <4>1
      <3>4. f[c] \in Int /\ f[x] \in Int /\ g[(T \ {x}) \ {c}] \in Int
        BY <1>1, <2>1
      <3> DEFINE rest == g[(T \ {x}) \ {c}]
      <3>5. g[T] = f[c] + (f[x] + rest) /\ g[T \ {x}] = f[c] + rest
        BY <2>2, <3>1, <3>2, <3>3
      <3>6. rest \in Int
        BY <3>4
      <3> HIDE DEF rest
      <3> QED  BY <3>4, <3>5, <3>6
    <2> QED  BY <2>3, <2>4
  <1>3. S \in Fine
    <2>1. Fine \in SUBSET SUBSET S
      OBVIOUS
    <2> HIDE DEF Fine
    <2> QED  BY <1>2, <2>1, SubsetInduction
  <1> QED  BY <1>1, <1>3 DEF IsTable

\* Sums over two sets agree when one is mapped onto the other, one to one, with the same values.
LEMMA SumMapped ==
  ASSUME NEW S, IsFiniteSet(S), NEW f, NEW e, NEW h,
         \A x \in S : f[x] \in Int /\ e[h[x]] = f[x],
         \A x, y \in S : h[x] = h[y] => x = y
  PROVE  SumFunctionOnSet(e, {h[x] : x \in S}) = SumFunctionOnSet(f, S)
  <1> DEFINE Fine == {T \in SUBSET S : SumFunctionOnSet(e, {h[x] : x \in T}) = SumFunctionOnSet(f, T)}
  <1>1. ASSUME NEW T \in SUBSET S, \A x \in T : T \ {x} \in Fine
        PROVE  T \in Fine
    <2> DEFINE image == {h[x] : x \in T}
    <2>1. IsFiniteSet(T)
      BY FS_Subset
    <2>2. CASE T = {}
      <3>1. image = {}
        BY <2>2
      <3>2. SumFunctionOnSet(e, {}) = 0 /\ SumFunctionOnSet(f, {}) = 0
        BY FS_EmptySet, SumRemove
      <3> QED  BY <2>2, <3>1, <3>2
    <2>3. CASE T # {}
      <3>1. PICK x : x \in T
        BY <2>3
      <3>2. SumFunctionOnSet(f, T) = f[x] + SumFunctionOnSet(f, T \ {x})
        BY <2>1, <3>1, SumRemove
      <3>3. IsFiniteSet(image) /\ \A y \in image : e[y] \in Int
        <4>1. [y \in T |-> h[y]] \in Surjection(T, image)
          BY DEF Surjection
        <4>2. IsFiniteSet(image)
          <5> HIDE DEF image
          <5> QED  BY <2>1, <4>1, FS_Surjection
        <4> QED  BY <4>2
      <3>4. SumFunctionOnSet(e, image) = e[h[x]] + SumFunctionOnSet(e, image \ {h[x]})
        <4>1. h[x] \in image
          BY <3>1
        <4> HIDE DEF image
        <4> QED  BY <3>3, <4>1, SumRemove
      <3>5. image \ {h[x]} = {h[y] : y \in T \ {x}}
        BY <3>1
      <3>6. SumFunctionOnSet(e, {h[y] : y \in T \ {x}}) = SumFunctionOnSet(f, T \ {x})
        BY <1>1, <3>1
      <3>7. e[h[x]] = f[x]
        BY <3>1
      <3> QED  BY <3>2, <3>4, <3>5, <3>6, <3>7
    <2> QED  BY <2>2, <2>3
  <1>2. S \in Fine
    <2>1. Fine \in SUBSET SUBSET S
      OBVIOUS
    <2> HIDE DEF Fine
    <2> QED  BY <1>1, <2>1, SubsetInduction
  <1> QED  BY <1>2

-----------------------------------------------------------------------------
(* Order: minima and maxima, and the stable sort by departure. *)

\* Of finitely many places one has the least value, and is the first of those that have.
LEMMA FirstOfTheLeast ==
  ASSUME NEW S \in SUBSET Int, IsFiniteSet(S), S # {}, NEW v, \A i \in S : v[i] \in Int
  PROVE  \E i \in S : \A j \in S : v[i] < v[j] \/ (v[i] = v[j] /\ i <= j)
  <1> DEFINE HasFirst(T) == \E i \in T : \A j \in T : v[i] < v[j] \/ (v[i] = v[j] /\ i <= j)
             Fine == {T \in SUBSET S : T # {} => HasFirst(T)}
  <1>1. ASSUME NEW T \in SUBSET S, \A x \in T : T \ {x} \in Fine, T # {}
        PROVE  HasFirst(T)
    <2>1. PICK x \in T : TRUE
      BY <1>1
    <2>2. x \in Int /\ v[x] \in Int
      OBVIOUS
    <2>3. CASE T \ {x} = {}
      BY <2>2, <2>3
    <2>4. CASE T \ {x} # {}
      <3>1. PICK i \in T \ {x} : \A j \in T \ {x} : v[i] < v[j] \/ (v[i] = v[j] /\ i <= j)
        BY <1>1, <2>4
      <3>2. i \in Int /\ v[i] \in Int
        OBVIOUS
      <3>3. CASE v[i] < v[x] \/ (v[i] = v[x] /\ i <= x)
        BY <3>1, <3>3
      <3>4. CASE ~(v[i] < v[x] \/ (v[i] = v[x] /\ i <= x))
        <4>1. ASSUME NEW j \in T
              PROVE  v[x] < v[j] \/ (v[x] = v[j] /\ x <= j)
          <5>1. j \in Int /\ v[j] \in Int
            OBVIOUS
          <5>2. j = x \/ v[i] < v[j] \/ (v[i] = v[j] /\ i <= j)
            BY <3>1
          <5> QED  BY <2>2, <3>2, <3>4, <5>1, <5>2
        <4> QED  BY <4>1
      <3> QED  BY <3>3, <3>4
    <2> QED  BY <2>3, <2>4
  <1>2. S \in Fine
    <2>1. Fine \in SUBSET SUBSET S
      OBVIOUS
    <2>2. \A T \in SUBSET S : (\A x \in T : T \ {x} \in Fine) => T \in Fine
      BY <1>1
    <2> HIDE DEF Fine
    <2> QED  BY <2>1, <2>2, SubsetInduction
  <1> QED  BY <1>2

LEMMA LegsAreFinite ==
  ASSUME NEW legs \in Seq(FlightLeg)
  PROVE  /\ DOMAIN legs = 1..Len(legs) /\ Len(legs) \in Nat
         /\ \A k \in DOMAIN legs : /\ legs[k] \in FlightLeg /\ legs[k].dep \in Int /\ legs[k].arr \in Int
                                   /\ legs[k].deadhead \in BOOLEAN
         /\ IsFiniteSet(DOMAIN legs)
         /\ IsFiniteSet(Worked(legs)) /\ IsFiniteSet(Ridden(legs))
         /\ LegTime(legs, Worked(legs)) \in Int
  <1>1. DOMAIN legs = 1..Len(legs) /\ Len(legs) \in Nat
    OBVIOUS
  <1>2. ASSUME NEW k \in DOMAIN legs
        PROVE  /\ legs[k] \in FlightLeg /\ legs[k].dep \in Int /\ legs[k].arr \in Int
               /\ legs[k].deadhead \in BOOLEAN
    <2>1. legs[k] \in FlightLeg
      OBVIOUS
    <2> QED  BY <2>1 DEF FlightLeg
  <1>3. IsFiniteSet(DOMAIN legs)
    BY <1>1, FS_Interval
  <1>4. IsFiniteSet(Worked(legs)) /\ IsFiniteSet(Ridden(legs))
    <2>1. Worked(legs) \in SUBSET DOMAIN legs /\ Ridden(legs) \in SUBSET DOMAIN legs
      BY DEF Worked, Ridden
    <2> QED  BY <1>3, <2>1, FS_Subset
  <1>5. LegTime(legs, Worked(legs)) \in Int
    <2> DEFINE hours == [k \in DOMAIN legs |-> legs[k].arr - legs[k].dep]
    <2>1. \A k \in Worked(legs) : hours[k] \in Int
      BY <1>2 DEF Worked
    <2> HIDE DEF hours
    <2>2. SumFunctionOnSet(hours, Worked(legs)) \in Int
      BY <1>4, <2>1, SumRemove
    <2> QED  BY <2>2 DEF LegTime, hours
  <1> QED  BY <1>1, <1>2, <1>3, <1>4, <1>5

InOrder(legs) == \A i, j \in DOMAIN legs : i < j => legs[i].dep <= legs[j].dep

\* Legs that are in the order of departure stay as they are.
LEMMA SortedStays ==
  ASSUME NEW legs \in Seq(FlightLeg), InOrder(legs)
  PROVE  ByDeparture(legs) = legs
  <1>0. /\ DOMAIN legs = 1..Len(legs) /\ Len(legs) \in Nat
        /\ \A k \in DOMAIN legs : legs[k].dep \in Int
    BY LegsAreFinite
  <1>1. ASSUME NEW k \in DOMAIN legs
        PROVE  Position(legs, k) = k
    <2> DEFINE before == {j \in DOMAIN legs : legs[j].dep < legs[k].dep \/ (legs[j].dep = legs[k].dep /\ j <= k)}
    <2>1. k \in Nat /\ 1 <= k /\ k <= Len(legs)
      BY <1>0
    <2>2. ASSUME NEW j \in DOMAIN legs
          PROVE  j \in before <=> j <= k
      <3>1. legs[j].dep \in Int /\ legs[k].dep \in Int /\ j \in Int
        BY <1>0
      <3>2. (j < k => legs[j].dep <= legs[k].dep) /\ (k < j => legs[k].dep <= legs[j].dep)
        BY DEF InOrder
      <3>3. CASE j <= k
        <4>1. j < k \/ j = k
          BY <2>1, <3>1, <3>3
        <4>2. legs[j].dep <= legs[k].dep
          BY <3>1, <3>2, <4>1
        <4> QED  BY <3>1, <3>3, <4>2
      <3>4. CASE ~(j <= k)
        <4>1. legs[k].dep <= legs[j].dep
          BY <2>1, <3>1, <3>2, <3>4
        <4> QED  BY <3>1, <3>4, <4>1
      <3> QED  BY <3>3, <3>4
    <2>3. before = 1..k
      <3>1. \A j : j \in before => j \in DOMAIN legs
        OBVIOUS
      <3>2. \A j : j \in 1..k <=> j \in 1..Len(legs) /\ j <= k
        BY <1>0, <2>1
      <3> HIDE DEF before
      <3> QED  BY <1>0, <2>2, <3>1, <3>2
    <2>4. Cardinality(1..k) = k
      BY <2>1, FS_Interval
    <2> QED  BY <2>3, <2>4 DEF Position
  <1>2. ASSUME NEW n \in DOMAIN legs
        PROVE  (CHOOSE k \in DOMAIN legs : Position(legs, k) = n) = n
    <2>1. \A k \in DOMAIN legs : Position(legs, k) = n <=> k = n
      BY <1>1
    <2> QED  BY <2>1
  <1> DEFINE place(n) == CHOOSE k \in DOMAIN legs : Position(legs, k) = n
  <1>3. ByDeparture(legs) = [n \in DOMAIN legs |-> legs[place(n)]]
    BY DEF ByDeparture
  <1>4. \A n \in DOMAIN legs : place(n) = n
    BY <1>2
  <1> HIDE DEF place
  <1>5. [n \in DOMAIN legs |-> legs[place(n)]] = [n \in DOMAIN legs |-> legs[n]]
    BY <1>4
  <1> QED  BY <1>3, <1>5

\* The first leg in the order of departure departs no later than any other.
LEMMA FirstDeparts ==
  ASSUME NEW legs \in Seq(FlightLeg), legs # <<>>
  PROVE  /\ 1 \in DOMAIN ByDeparture(legs)
         /\ \E k \in DOMAIN legs : /\ ByDeparture(legs)[1] = legs[k]
                                   /\ \A j \in DOMAIN legs : legs[k].dep <= legs[j].dep
  <1>0. /\ DOMAIN legs = 1..Len(legs) /\ Len(legs) \in Nat /\ IsFiniteSet(DOMAIN legs)
        /\ \A k \in DOMAIN legs : legs[k].dep \in Int
    BY LegsAreFinite
  <1>1. 1 \in DOMAIN legs
    BY <1>0
  <1> DEFINE Before(k) == {j \in DOMAIN legs : legs[j].dep < legs[k].dep \/ (legs[j].dep = legs[k].dep /\ j <= k)}
  <1>2. \E i \in DOMAIN legs : Position(legs, i) = 1
    <2> DEFINE v == [j \in DOMAIN legs |-> legs[j].dep]
    <2>1. \A i \in DOMAIN legs : v[i] \in Int
      BY <1>0
    <2>2. DOMAIN legs \in SUBSET Int
      BY <1>0
    <2> HIDE DEF v
    <2>3. PICK i \in DOMAIN legs : \A j \in DOMAIN legs : v[i] < v[j] \/ (v[i] = v[j] /\ i <= j)
      BY <1>0, <1>1, <2>1, <2>2, FirstOfTheLeast
    <2>4. ASSUME NEW j \in Before(i)
          PROVE  j = i
      <3>1. v[j] = legs[j].dep /\ v[i] = legs[i].dep /\ j \in DOMAIN legs
        BY DEF v
      <3>2. j \in Int /\ i \in Int /\ v[i] \in Int /\ v[j] \in Int
        BY <2>1, <2>2, <3>1
      <3>3. v[j] < v[i] \/ (v[j] = v[i] /\ j <= i)
        BY <3>1
      <3>4. v[i] < v[j] \/ (v[i] = v[j] /\ i <= j)
        BY <2>3, <3>1
      <3> QED  BY <3>2, <3>3, <3>4
    <2>5. i \in Before(i)
      BY <1>0
    <2>6. Before(i) = {i}
      BY <2>4, <2>5
    <2>7. Cardinality({i}) = 1
      BY FS_Singleton
    <2> QED  BY <2>6, <2>7 DEF Position
  <1> DEFINE k == CHOOSE i \in DOMAIN legs : Position(legs, i) = 1
  <1>3. k \in DOMAIN legs /\ Position(legs, k) = 1
    BY <1>2
  <1>4. ByDeparture(legs)[1] = legs[k] /\ 1 \in DOMAIN ByDeparture(legs)
    BY <1>1 DEF ByDeparture
  <1> HIDE DEF k
  <1>5. ASSUME NEW j \in DOMAIN legs
        PROVE  legs[k].dep <= legs[j].dep
    <2>1. Cardinality(Before(k)) = 1
      BY <1>3 DEF Position
    <2>2. IsFiniteSet(Before(k))
      BY <1>0, FS_Subset
    <2>3. PICK x : Before(k) = {x}
      <3> HIDE DEF Before
      <3> QED  BY <2>1, <2>2, FS_Singleton
    <2>4. legs[j].dep \in Int /\ legs[k].dep \in Int /\ k \in Int
      BY <1>0, <1>3
    <2>5. k \in Before(k)
      BY <1>3, <2>4
    <2>6. CASE j = k
      BY <2>4, <2>6
    <2>7. CASE j # k
      <3>1. j \notin Before(k)
        <4> HIDE DEF Before
        <4> QED  BY <2>3, <2>5, <2>7
      <3> QED  BY <2>4, <3>1
    <2> QED  BY <2>6, <2>7
  <1> QED  BY <1>3, <1>4, <1>5

-----------------------------------------------------------------------------
(* What the rules demand of a legal duty. *)

LEMMA DutyTimes ==
  ASSUME NEW k, NEW legs \in Seq(FlightLeg), legs # <<>>
  PROVE  /\ DutyOf(k, legs).crew = k /\ DutyOf(k, legs).legs = legs
         /\ DutyOf(k, legs).start \in Int /\ DutyOf(k, legs).end \in Int
         /\ \A i \in DOMAIN legs : DutyOf(k, legs).start <= legs[i].dep /\ legs[i].arr <= DutyOf(k, legs).end
  <1>0. /\ IsFiniteSet(DOMAIN legs) /\ 1 \in DOMAIN legs
        /\ \A i \in DOMAIN legs : legs[i].dep \in Int /\ legs[i].arr \in Int
    BY LegsAreFinite
  <1> DEFINE deps == {leg.dep : leg \in ToSet(legs)}
             arrs == {leg.arr : leg \in ToSet(legs)}
  <1>1. deps \in SUBSET Int /\ arrs \in SUBSET Int
    BY <1>0 DEF ToSet
  <1>2. \A i \in DOMAIN legs : legs[i].dep \in deps /\ legs[i].arr \in arrs
    BY DEF ToSet
  <1>3. IsFiniteSet(ToSet(legs))
    BY <1>0, FiniteImage DEF ToSet
  <1>4. IsFiniteSet(deps) /\ IsFiniteSet(arrs)
    <2>1. deps = {[l \in ToSet(legs) |-> l.dep][leg] : leg \in ToSet(legs)}
      OBVIOUS
    <2>2. arrs = {[l \in ToSet(legs) |-> l.arr][leg] : leg \in ToSet(legs)}
      OBVIOUS
    <2> HIDE DEF deps, arrs
    <2> QED  BY <1>3, <2>1, <2>2, FiniteImage
  <1>5. DutyOf(k, legs) = [crew |-> k, legs |-> legs, start |-> Min(deps), end |-> Max(arrs)]
    BY DEF DutyOf
  <1> HIDE DEF deps, arrs
  <1>6. deps # {} /\ arrs # {}
    BY <1>0, <1>2
  <1>7. Min(deps) \in deps /\ \A y \in deps : Min(deps) <= y
    BY <1>1, <1>4, <1>6, MinIsLeast
  <1>8. Max(arrs) \in arrs /\ \A y \in arrs : y <= Max(arrs)
    BY <1>1, <1>4, <1>6, MaxIsGreatest
  <1>9. /\ DutyOf(k, legs).crew = k /\ DutyOf(k, legs).legs = legs
        /\ DutyOf(k, legs).start = Min(deps) /\ DutyOf(k, legs).end = Max(arrs)
    BY <1>5
  <1> QED  BY <1>1, <1>2, <1>7, <1>8, <1>9

LEMMA FoundNothing ==
  ASSUME NEW code, NEW found, Finding(code, found) = {}
  PROVE  ~found
  BY DEF Finding

LEMMA RulesHold ==
  ASSUME NEW member \in CrewMember, NEW duty, duty.legs \in Seq(FlightLeg),
         duty.start \in Int, duty.end \in Int, Legal(member, duty)
  PROVE  /\ duty.end - duty.start <= 28
         /\ LegTime(duty.legs, Worked(duty.legs)) <= 18
         /\ \A t \in member.restEnds : duty.start - t >= 20
         /\ \A k \in Worked(duty.legs) : duty.legs[k].type \in member.types
         /\ LET legs == ByDeparture(duty.legs)
            IN /\ \A k \in DOMAIN legs : ~(legs[k].arr <= legs[k].dep)
               /\ legs # <<>> /\ member.at # "" => legs[1].from = member.at
               /\ \A k \in 2..Len(legs) : legs[k-1].to = legs[k].from /\ ~(legs[k].dep - legs[k-1].arr < 1)
  <1>1. /\ CheckDutyTime(duty) = {} /\ CheckFlightTime(duty) = {} /\ CheckRestPeriod(member, duty) = {}
        /\ CheckQualifications(member, duty) = {} /\ CheckContinuity(member, duty) = {}
    BY DEF Legal, ValidateAssignment
  <1>2. duty.end - duty.start <= 28
    <2>1. ~(duty.end - duty.start > MaxFdp(duty))
      BY <1>1, FoundNothing DEF CheckDutyTime
    <2>2. MaxFdp(duty) \in Int /\ MaxFdp(duty) <= 28
      <3> DEFINE sectors == Cardinality(Worked(duty.legs))
                 limit == CASE sectors <= 2 -> 28 [] sectors = 3 -> 27 [] sectors = 4 -> 26 [] OTHER -> 25
      <3>1. sectors \in Int
        BY LegsAreFinite, FS_CardinalityType
      <3>2. MaxFdp(duty) = IF AtNight(duty) THEN limit - 2 ELSE limit
        BY DEF MaxFdp
      <3> HIDE DEF sectors
      <3>3. limit \in Int /\ limit <= 28
        BY <3>1
      <3> HIDE DEF limit
      <3> QED  BY <3>2, <3>3
    <2> QED  BY <2>1, <2>2
  <1>3. LegTime(duty.legs, Worked(duty.legs)) <= 18
    <2>1. ~(LegTime(duty.legs, Worked(duty.legs)) > MAX_FLIGHT)
      BY <1>1, FoundNothing DEF CheckFlightTime
    <2>2. LegTime(duty.legs, Worked(duty.legs)) \in Int
      BY LegsAreFinite
    <2> QED  BY <2>1, <2>2 DEF MAX_FLIGHT
  <1>4. \A t \in member.restEnds : duty.start - t >= 20
    <2>1. ~(\E t \in member.restEnds : duty.start - t < MIN_REST)
      BY <1>1, FoundNothing DEF CheckRestPeriod
    <2>2. \A t \in member.restEnds : t \in Int
      BY DEF CrewMember
    <2> QED  BY <2>1, <2>2 DEF MIN_REST
  <1>5. \A k \in Worked(duty.legs) : duty.legs[k].type \in member.types
    <2>1. ~(\E k \in DOMAIN duty.legs : ~duty.legs[k].deadhead /\ duty.legs[k].type \notin member.types)
      BY <1>1, FoundNothing DEF CheckQualifications
    <2> QED  BY <2>1 DEF Worked
  <1> DEFINE legs == ByDeparture(duty.legs)
  <1>6. /\ Finding("INVALID_LEG_TIME", \E k \in DOMAIN legs : legs[k].arr <= legs[k].dep) = {}
        /\ Finding("CREW_POSITION", legs # <<>> /\ member.at # "" /\ legs[1].from # member.at) = {}
        /\ Finding("LOCATION_DISCONTINUITY", \E k \in 2..Len(legs) : legs[k-1].to # legs[k].from) = {}
        /\ Finding("CONNECTION_TIME",
                   \E k \in 2..Len(legs) : legs[k].dep - legs[k-1].arr < MIN_CONNECTION) = {}
    <2>1. CheckContinuity(member, duty) =
            UNION {Finding("INVALID_LEG_TIME", \E k \in DOMAIN legs : legs[k].arr <= legs[k].dep),
                   Finding("CREW_POSITION", legs # <<>> /\ member.at # "" /\ legs[1].from # member.at),
                   Finding("LOCATION_DISCONTINUITY", \E k \in 2..Len(legs) : legs[k-1].to # legs[k].from),
                   Finding("CONNECTION_TIME",
                           \E k \in 2..Len(legs) : legs[k].dep - legs[k-1].arr < MIN_CONNECTION)}
      BY DEF CheckContinuity
    <2> QED  BY <1>1, <2>1
  <1> HIDE DEF legs
  <1>7. /\ \A k \in DOMAIN legs : ~(legs[k].arr <= legs[k].dep)
        /\ legs # <<>> /\ member.at # "" => legs[1].from = member.at
        /\ \A k \in 2..Len(legs) : legs[k-1].to = legs[k].from /\ ~(legs[k].dep - legs[k-1].arr < 1)
    <2>1. ~(\E k \in DOMAIN legs : legs[k].arr <= legs[k].dep)
      BY <1>6, FoundNothing
    <2>2. ~(legs # <<>> /\ member.at # "" /\ legs[1].from # member.at)
      BY <1>6, FoundNothing
    <2>3. ~(\E k \in 2..Len(legs) : legs[k-1].to # legs[k].from)
      BY <1>6, FoundNothing
    <2>4. ~(\E k \in 2..Len(legs) : legs[k].dep - legs[k-1].arr < MIN_CONNECTION)
      BY <1>6, FoundNothing
    <2> QED  BY <2>1, <2>2, <2>3, <2>4 DEF MIN_CONNECTION
  <1> QED  BY <1>2, <1>3, <1>4, <1>5, <1>7 DEF legs

-----------------------------------------------------------------------------
(* The solver builds duties leg by leg; each path is legal and its legs      *)
(* depart one after the other, so that sorting changes nothing.             *)

RightPath(k, legs) ==
  /\ k \in DOMAIN CrewPool /\ legs \in Seq(FlightLeg) /\ legs # <<>>
  /\ \A i, j \in DOMAIN legs : i < j => legs[i].dep < legs[j].dep
  /\ Legal(CrewPool[k], DutyOf(k, legs))

LEMMA PathKeepsOrder ==
  ASSUME NEW k, NEW legs, RightPath(k, legs)
  PROVE  ByDeparture(legs) = legs
  <1>1. legs \in Seq(FlightLeg) /\ InOrder(legs)
    <2>1. legs \in Seq(FlightLeg)
      BY DEF RightPath
    <2>2. \A i \in DOMAIN legs : legs[i].dep \in Int
      BY <2>1, LegsAreFinite
    <2> QED  BY <2>1, <2>2 DEF RightPath, InOrder
  <1> QED  BY <1>1, SortedStays

\* What the rules say of a path that is legal and in order, in terms of the path itself.
LEMMA PathObeys ==
  ASSUME NEW k \in DOMAIN CrewPool, NEW legs \in Seq(FlightLeg), legs # <<>>, InOrder(legs),
         Legal(CrewPool[k], DutyOf(k, legs))
  PROVE  /\ CrewPool[k].at \in {"", legs[1].from}
         /\ \A i \in DOMAIN legs : legs[i].dep < legs[i].arr
         /\ \A i \in 2..Len(legs) : legs[i-1].to = legs[i].from /\ legs[i-1].arr < legs[i].dep
         /\ legs[Len(legs)].arr - legs[1].dep <= 28
         /\ LegTime(legs, Worked(legs)) <= 18
         /\ \A t \in CrewPool[k].restEnds : legs[1].dep - t >= 20
         /\ \A i \in Worked(legs) : legs[i].type \in CrewPool[k].types
  <1> DEFINE duty == DutyOf(k, legs)
             member == CrewPool[k]
  <1>1. member \in CrewMember
    BY SolveAssumption
  <1>2. /\ duty.legs = legs /\ duty.start \in Int /\ duty.end \in Int
        /\ \A i \in DOMAIN legs : duty.start <= legs[i].dep /\ legs[i].arr <= duty.end
    BY DutyTimes
  <1>3. Legal(member, duty)
    OBVIOUS
  <1> HIDE DEF duty, member
  <1>4. /\ duty.end - duty.start <= 28
        /\ LegTime(legs, Worked(legs)) <= 18
        /\ \A t \in member.restEnds : duty.start - t >= 20
        /\ \A i \in Worked(legs) : legs[i].type \in member.types
        /\ LET sorted == ByDeparture(legs)
           IN /\ \A i \in DOMAIN sorted : ~(sorted[i].arr <= sorted[i].dep)
              /\ sorted # <<>> /\ member.at # "" => sorted[1].from = member.at
              /\ \A i \in 2..Len(sorted) :
                    sorted[i-1].to = sorted[i].from /\ ~(sorted[i].dep - sorted[i-1].arr < 1)
    <2>1. duty.legs \in Seq(FlightLeg)
      BY <1>2
    <2>2. /\ duty.end - duty.start <= 28
          /\ LegTime(duty.legs, Worked(duty.legs)) <= 18
          /\ \A t \in member.restEnds : duty.start - t >= 20
          /\ \A i \in Worked(duty.legs) : duty.legs[i].type \in member.types
          /\ LET sorted == ByDeparture(duty.legs)
             IN /\ \A i \in DOMAIN sorted : ~(sorted[i].arr <= sorted[i].dep)
                /\ sorted # <<>> /\ member.at # "" => sorted[1].from = member.at
                /\ \A i \in 2..Len(sorted) :
                      sorted[i-1].to = sorted[i].from /\ ~(sorted[i].dep - sorted[i-1].arr < 1)
      BY <1>1, <1>2, <1>3, <2>1, RulesHold
    <2> QED  BY <1>2, <2>2
  <1>5. ByDeparture(legs) = legs
    BY SortedStays
  <1>6. /\ \A i \in DOMAIN legs : ~(legs[i].arr <= legs[i].dep)
        /\ member.at # "" => legs[1].from = member.at
        /\ \A i \in 2..Len(legs) : legs[i-1].to = legs[i].from /\ ~(legs[i].dep - legs[i-1].arr < 1)
    BY <1>4, <1>5
  <1>7. /\ DOMAIN legs = 1..Len(legs) /\ Len(legs) \in Nat
        /\ \A i \in DOMAIN legs : legs[i].dep \in Int /\ legs[i].arr \in Int
    BY LegsAreFinite
  <1>8. 1 \in DOMAIN legs /\ Len(legs) \in DOMAIN legs
    BY <1>7
  <1>9. \A i \in 2..Len(legs) : i \in DOMAIN legs /\ i - 1 \in DOMAIN legs
    BY <1>7
  <1>10. \A t \in member.restEnds : t \in Int
    BY <1>1 DEF CrewMember
  <1> DEFINE Dep(i) == legs[i].dep
             Arr(i) == legs[i].arr
  <1>11. \A i \in DOMAIN legs : Dep(i) \in Int /\ Arr(i) \in Int /\ duty.start <= Dep(i) /\ Arr(i) <= duty.end
    BY <1>2, <1>7
  <1>12. /\ \A i \in DOMAIN legs : ~(Arr(i) <= Dep(i))
         /\ \A i \in 2..Len(legs) : ~(Dep(i) - Arr(i-1) < 1)
    BY <1>6
  <1> HIDE DEF Dep, Arr
  <1>13. Arr(Len(legs)) - Dep(1) <= 28
    <2>1. duty.start \in Int /\ duty.end \in Int /\ duty.end - duty.start <= 28
      BY <1>2, <1>4
    <2>2. Dep(1) \in Int /\ duty.start <= Dep(1) /\ Arr(Len(legs)) \in Int /\ Arr(Len(legs)) <= duty.end
      BY <1>8, <1>11
    <2> QED  BY <2>1, <2>2
  <1>14. \A t \in member.restEnds : Dep(1) - t >= 20
    <2>1. Dep(1) \in Int /\ duty.start <= Dep(1) /\ duty.start \in Int
      BY <1>2, <1>8, <1>11
    <2>2. \A t \in member.restEnds : t \in Int /\ duty.start - t >= 20
      BY <1>4, <1>10
    <2> QED  BY <2>1, <2>2
  <1>15. \A i \in DOMAIN legs : Dep(i) < Arr(i)
    BY <1>11, <1>12
  <1>16. \A i \in 2..Len(legs) : Arr(i-1) < Dep(i)
    BY <1>9, <1>11, <1>12
  <1> QED  BY <1>4, <1>6, <1>13, <1>14, <1>15, <1>16 DEF member, Dep, Arr

\* A leg that departs no earlier than the last one extends a path, if the rules allow the result.
LEMMA PathExtended ==
  ASSUME NEW k, NEW legs, RightPath(k, legs), NEW leg \in FlightLeg, Last(legs).dep <= leg.dep,
         Legal(CrewPool[k], DutyOf(k, Append(legs, leg)))
  PROVE  RightPath(k, Append(legs, leg))
  <1> DEFINE new == Append(legs, leg)
             n == Len(legs)
  <1>0. legs \in Seq(FlightLeg) /\ legs # <<>> /\ k \in DOMAIN CrewPool
    BY DEF RightPath
  <1>1. /\ DOMAIN legs = 1..n /\ n \in Nat /\ n >= 1
        /\ \A i \in DOMAIN legs : legs[i].dep \in Int
    BY <1>0, LegsAreFinite
  <1>2. /\ new \in Seq(FlightLeg) /\ new # <<>> /\ Len(new) = n + 1 /\ DOMAIN new = 1..(n + 1)
        /\ new[n + 1] = leg /\ \A i \in DOMAIN legs : new[i] = legs[i]
    BY <1>0, <1>1
  <1>3. leg.dep \in Int /\ legs[n].dep <= leg.dep
    BY DEF FlightLeg, Last
  <1>4. \A i, j \in DOMAIN legs : i < j => legs[i].dep < legs[j].dep
    BY DEF RightPath
  <1> HIDE DEF new, n
  <1>5. ASSUME NEW i \in DOMAIN legs
        PROVE  legs[i].dep <= legs[n].dep
    <2>1. n \in DOMAIN legs /\ (i < n \/ i = n)
      BY <1>1
    <2> QED  BY <1>1, <1>4, <2>1
  <1>6. InOrder(new)
    <2> SUFFICES ASSUME NEW i \in DOMAIN new, NEW j \in DOMAIN new, i < j
                 PROVE  new[i].dep <= new[j].dep
      BY DEF InOrder
    <2>1. i \in DOMAIN legs /\ new[i] = legs[i]
      BY <1>1, <1>2
    <2>2. CASE j \in DOMAIN legs
      <3>1. legs[i].dep < legs[j].dep
        BY <1>4, <2>1, <2>2
      <3> QED  BY <1>1, <1>2, <2>1, <2>2, <3>1
    <2>3. CASE j = n + 1
      <3>1. legs[i].dep <= legs[n].dep /\ legs[n].dep \in Int /\ legs[i].dep \in Int
        BY <1>1, <1>5, <2>1
      <3> QED  BY <1>2, <1>3, <2>1, <2>3, <3>1
    <2> QED  BY <1>1, <1>2, <2>2, <2>3
  <1>7. /\ \A i \in DOMAIN new : new[i].dep < new[i].arr
        /\ \A i \in 2..Len(new) : new[i-1].arr < new[i].dep
    BY <1>0, <1>2, <1>6, PathObeys DEF new
  <1>8. legs[n].dep < leg.dep
    <2>1. n \in DOMAIN legs /\ n \in DOMAIN new /\ n + 1 \in 2..Len(new) /\ (n + 1) - 1 = n
      BY <1>1, <1>2
    <2>2. new[n].dep < new[n].arr /\ new[n].arr < new[n + 1].dep
      BY <1>7, <2>1
    <2>3. new[n].arr \in Int /\ new[n].dep \in Int
      BY <1>2, <2>1, LegsAreFinite
    <2> QED  BY <1>2, <1>3, <2>1, <2>2, <2>3
  <1>9. ASSUME NEW i \in DOMAIN new, NEW j \in DOMAIN new, i < j
        PROVE  new[i].dep < new[j].dep
    <2>1. i \in DOMAIN legs /\ new[i] = legs[i]
      BY <1>1, <1>2, <1>9
    <2>2. CASE j \in DOMAIN legs
      BY <1>2, <1>4, <1>9, <2>1, <2>2
    <2>3. CASE j = n + 1
      <3>1. legs[i].dep <= legs[n].dep /\ legs[n].dep \in Int /\ legs[i].dep \in Int
        BY <1>1, <1>5, <2>1
      <3> QED  BY <1>2, <1>3, <1>8, <2>1, <2>3, <3>1
    <2> QED  BY <1>1, <1>2, <2>2, <2>3
  <1>10. \A i, j \in DOMAIN new : i < j => new[i].dep < new[j].dep
    BY <1>9
  <1>11. Legal(CrewPool[k], DutyOf(k, new))
    BY DEF new
  <1>12. RightPath(k, new)
    BY <1>0, <1>2, <1>10, <1>11 DEF RightPath
  <1> QED  BY <1>12 DEF new

LEMMA PathOpened ==
  ASSUME NEW k \in DOMAIN CrewPool, NEW leg \in FlightLeg, Legal(CrewPool[k], DutyOf(k, <<leg>>))
  PROVE  RightPath(k, <<leg>>)
  BY DEF RightPath

\* The property, of one duty.
LEMMA PathIsFlyable ==
  ASSUME NEW k, NEW legs, RightPath(k, legs)
  PROVE  LET member == CrewPool[k]
             flown == {leg \in ToSet(legs) : ~leg.deadhead}
         IN /\ member.at \in {"", legs[1].from}
            /\ \A i \in 2..Len(legs) : /\ legs[i-1].to = legs[i].from
                                       /\ legs[i-1].arr < legs[i].dep
            /\ legs[Len(legs)].arr - legs[1].dep <= 28
            /\ SumFunction([leg \in flown |-> leg.arr - leg.dep]) <= 18
            /\ \A t \in member.restEnds : legs[1].dep - t >= 20
            /\ {leg.type : leg \in flown} \subseteq member.types
  <1> DEFINE flown == {leg \in ToSet(legs) : ~leg.deadhead}
             e == [leg \in flown |-> leg.arr - leg.dep]
             f == [i \in DOMAIN legs |-> legs[i].arr - legs[i].dep]
  <1>0. legs \in Seq(FlightLeg) /\ legs # <<>> /\ k \in DOMAIN CrewPool
    BY DEF RightPath
  <1>1. /\ \A i \in DOMAIN legs : legs[i].dep \in Int /\ legs[i].arr \in Int
        /\ DOMAIN legs \in SUBSET Int /\ IsFiniteSet(Worked(legs))
    BY <1>0, LegsAreFinite
  <1>2. InOrder(legs)
    BY <1>1 DEF RightPath, InOrder
  <1>3. flown = {legs[i] : i \in Worked(legs)}
    BY DEF ToSet, Worked
  <1>4. SumFunction(e) = LegTime(legs, Worked(legs))
    <2>1. \A i \in Worked(legs) : f[i] \in Int /\ e[legs[i]] = f[i]
      BY <1>1, <1>3 DEF Worked
    <2>2. \A i, j \in Worked(legs) : legs[i] = legs[j] => i = j
      <3> SUFFICES ASSUME NEW i \in Worked(legs), NEW j \in Worked(legs), i # j
                   PROVE  legs[i] # legs[j]
        OBVIOUS
      <3>1. i \in DOMAIN legs /\ j \in DOMAIN legs /\ i \in Int /\ j \in Int
        BY <1>1 DEF Worked
      <3>2. legs[i].dep < legs[j].dep \/ legs[j].dep < legs[i].dep
        BY <3>1 DEF RightPath
      <3> QED  BY <1>1, <3>1, <3>2
    <2>3. DOMAIN e = {legs[i] : i \in Worked(legs)}
      BY <1>3
    <2> HIDE DEF e, f
    <2>4. SumFunctionOnSet(e, {legs[i] : i \in Worked(legs)}) = SumFunctionOnSet(f, Worked(legs))
      BY <1>1, <2>1, <2>2, SumMapped
    <2> QED  BY <2>3, <2>4 DEF SumFunction, LegTime, f
  <1>5. /\ CrewPool[k].at \in {"", legs[1].from}
        /\ \A i \in 2..Len(legs) : legs[i-1].to = legs[i].from /\ legs[i-1].arr < legs[i].dep
        /\ legs[Len(legs)].arr - legs[1].dep <= 28
        /\ LegTime(legs, Worked(legs)) <= 18
        /\ \A t \in CrewPool[k].restEnds : legs[1].dep - t >= 20
        /\ \A i \in Worked(legs) : legs[i].type \in CrewPool[k].types
    BY <1>0, <1>2, PathObeys DEF RightPath
  <1>6. {leg.type : leg \in flown} \subseteq CrewPool[k].types
    <2> SUFFICES ASSUME NEW leg \in flown
                 PROVE  leg.type \in CrewPool[k].types
      OBVIOUS
    <2>1. PICK i \in Worked(legs) : leg = legs[i]
      BY <1>3
    <2> QED  BY <1>5, <2>1
  <1> HIDE DEF flown
  <1>7. SumFunction(e) <= 18
    BY <1>4, <1>5
  <1> QED  BY <1>5, <1>6, <1>7 DEF flown

-----------------------------------------------------------------------------
(* Rosters: duties of right paths, of different members, with different legs. *)

DutySet == [crew : DOMAIN CrewPool, legs : Seq(FlightLeg), start : Int, end : Int]

RightRoster(duties) ==
  /\ duties \in Seq(DutySet)
  /\ \A i \in DOMAIN duties : /\ duties[i] = DutyOf(duties[i].crew, duties[i].legs)
                              /\ RightPath(duties[i].crew, duties[i].legs)
  /\ \A i, j \in DOMAIN duties :
        i # j => /\ duties[i].crew # duties[j].crew
                 /\ ToSet(duties[i].legs) \cap ToSet(duties[j].legs) = {}

LEMMA PathMakesDuty ==
  ASSUME NEW k, NEW legs, RightPath(k, legs)
  PROVE  /\ DutyOf(k, legs) \in DutySet /\ DutyOf(k, legs).crew = k /\ DutyOf(k, legs).legs = legs
         /\ legs # <<>> /\ legs \in Seq(FlightLeg)
  <1>1. k \in DOMAIN CrewPool /\ legs \in Seq(FlightLeg) /\ legs # <<>>
    BY DEF RightPath
  <1>2. /\ DutyOf(k, legs).crew = k /\ DutyOf(k, legs).legs = legs
        /\ DutyOf(k, legs).start \in Int /\ DutyOf(k, legs).end \in Int
    BY <1>1, DutyTimes
  <1>3. DutyOf(k, legs) = [crew |-> DutyOf(k, legs).crew, legs |-> DutyOf(k, legs).legs,
                           start |-> DutyOf(k, legs).start, end |-> DutyOf(k, legs).end]
    BY DEF DutyOf
  <1> QED  BY <1>1, <1>2, <1>3 DEF DutySet

LEMMA LegsOfDuties ==
  ASSUME NEW duties, NEW leg
  PROVE  leg \in LegsOf(duties) <=> \E i \in DOMAIN duties : leg \in ToSet(duties[i].legs)
  BY DEF LegsOf, ToSet

LEMMA AppendedLegs ==
  ASSUME NEW legs \in Seq(FlightLeg), NEW leg \in FlightLeg
  PROVE  ToSet(Append(legs, leg)) = ToSet(legs) \cup {leg}
  <1> DEFINE new == Append(legs, leg)
             n == Len(legs)
  <1>1. /\ n \in Nat /\ DOMAIN legs = 1..n /\ DOMAIN new = 1..(n + 1)
        /\ new[n + 1] = leg /\ \A i \in 1..n : new[i] = legs[i]
    OBVIOUS
  <1> HIDE DEF new, n
  <1>2. \A i : i \in 1..(n + 1) <=> i \in 1..n \/ i = n + 1
    BY <1>1
  <1>3. ToSet(new) = ToSet(legs) \cup {leg}
    BY <1>1, <1>2 DEF ToSet
  <1> QED  BY <1>3 DEF new

\* A member without a duty takes one with a leg that nobody flies.
LEMMA RosterOpened ==
  ASSUME NEW duties, RightRoster(duties), NEW k, k \notin OnDuty(duties), NEW legs, RightPath(k, legs),
         ToSet(legs) \cap LegsOf(duties) = {}
  PROVE  /\ RightRoster(Append(duties, DutyOf(k, legs)))
         /\ LegsOf(Append(duties, DutyOf(k, legs))) = LegsOf(duties) \cup ToSet(legs)
  <1> DEFINE duty == DutyOf(k, legs)
             new == Append(duties, duty)
             n == Len(duties)
  <1>1. duties \in Seq(DutySet)
    BY DEF RightRoster
  <1>2. duty \in DutySet /\ duty.crew = k /\ duty.legs = legs /\ duty = DutyOf(duty.crew, duty.legs)
    BY PathMakesDuty
  <1> HIDE DEF duty
  <1>3. /\ new \in Seq(DutySet) /\ DOMAIN duties = 1..n /\ n \in Nat /\ DOMAIN new = 1..(n + 1)
        /\ new[n + 1] = duty /\ \A i \in 1..n : new[i] = duties[i]
    BY <1>1, <1>2
  <1> HIDE DEF new, n
  <1>4. \A i \in 1..(n + 1) : i \in 1..n \/ i = n + 1
    BY <1>3
  <1>5. \A i \in 1..n : /\ duties[i] = DutyOf(duties[i].crew, duties[i].legs)
                        /\ RightPath(duties[i].crew, duties[i].legs)
    BY <1>3 DEF RightRoster
  <1>6. \A i, j \in 1..n : i # j => /\ duties[i].crew # duties[j].crew
                                    /\ ToSet(duties[i].legs) \cap ToSet(duties[j].legs) = {}
    BY <1>3 DEF RightRoster
  <1>7. \A i \in 1..n : duties[i].crew # k /\ ToSet(duties[i].legs) \cap ToSet(legs) = {}
    <2> SUFFICES ASSUME NEW i \in 1..n
                 PROVE  duties[i].crew # k /\ ToSet(duties[i].legs) \cap ToSet(legs) = {}
      OBVIOUS
    <2>1. duties[i].crew \in OnDuty(duties)
      BY <1>3 DEF OnDuty, ToSet
    <2>2. \A leg \in ToSet(duties[i].legs) : leg \in LegsOf(duties)
      BY <1>3, LegsOfDuties
    <2> QED  BY <2>1, <2>2
  <1>8. RightRoster(new)
    <2>1. ASSUME NEW i \in DOMAIN new
          PROVE  new[i] = DutyOf(new[i].crew, new[i].legs) /\ RightPath(new[i].crew, new[i].legs)
      <3>1. CASE i \in 1..n
        BY <1>3, <1>5, <3>1
      <3>2. CASE i = n + 1
        BY <1>2, <1>3, <3>2
      <3> QED  BY <1>3, <1>4, <3>1, <3>2
    <2>2. ASSUME NEW i \in DOMAIN new, NEW j \in DOMAIN new, i # j
          PROVE  new[i].crew # new[j].crew /\ ToSet(new[i].legs) \cap ToSet(new[j].legs) = {}
      <3>1. CASE i \in 1..n /\ j \in 1..n
        BY <1>3, <1>6, <2>2, <3>1
      <3>2. CASE i \in 1..n /\ j = n + 1
        BY <1>2, <1>3, <1>7, <3>2
      <3>3. CASE i = n + 1 /\ j \in 1..n
        BY <1>2, <1>3, <1>7, <3>3
      <3> QED  BY <1>3, <1>4, <2>2, <3>1, <3>2, <3>3
    <2> QED  BY <1>3, <2>1, <2>2 DEF RightRoster
  <1>9. LegsOf(new) = LegsOf(duties) \cup ToSet(legs)
    <2> SUFFICES ASSUME NEW leg
                 PROVE  leg \in LegsOf(new) <=> leg \in LegsOf(duties) \/ leg \in ToSet(legs)
      OBVIOUS
    <2>1. leg \in LegsOf(new) <=> \E i \in 1..(n + 1) : leg \in ToSet(new[i].legs)
      BY <1>3, LegsOfDuties
    <2>2. leg \in LegsOf(duties) <=> \E i \in 1..n : leg \in ToSet(duties[i].legs)
      BY <1>3, LegsOfDuties
    <2>3. n + 1 \in 1..(n + 1) /\ \A i \in 1..n : i \in 1..(n + 1)
      BY <1>3
    <2> QED  BY <1>2, <1>3, <1>4, <2>1, <2>2, <2>3
  <1> QED  BY <1>8, <1>9 DEF new, duty

\* A duty goes on with a leg that nobody flies.
LEMMA RosterExtended ==
  ASSUME NEW duties, RightRoster(duties), NEW k \in DOMAIN duties, NEW leg \in FlightLeg,
         leg \notin LegsOf(duties), RightPath(duties[k].crew, Append(duties[k].legs, leg))
  PROVE  /\ RightRoster([duties EXCEPT ![k] = WithLeg(@, leg)])
         /\ LegsOf([duties EXCEPT ![k] = WithLeg(@, leg)]) = LegsOf(duties) \cup {leg}
  <1> DEFINE longer == Append(duties[k].legs, leg)
             duty == DutyOf(duties[k].crew, longer)
             new == [duties EXCEPT ![k] = duty]
  <1>0. [duties EXCEPT ![k] = WithLeg(@, leg)] = new
    BY DEF WithLeg
  <1>1. duties \in Seq(DutySet) /\ duties[k].legs \in Seq(FlightLeg)
    BY DEF RightRoster, RightPath
  <1>2. ToSet(longer) = ToSet(duties[k].legs) \cup {leg}
    BY <1>1, AppendedLegs
  <1>3. RightPath(duties[k].crew, longer)
    OBVIOUS
  <1> HIDE DEF longer
  <1>4. duty \in DutySet /\ duty.crew = duties[k].crew /\ duty.legs = longer
    BY <1>3, PathMakesDuty
  <1>5. duty = DutyOf(duty.crew, duty.legs) /\ RightPath(duty.crew, duty.legs)
    BY <1>3, <1>4
  <1> HIDE DEF duty
  <1>6. /\ new \in Seq(DutySet) /\ DOMAIN new = DOMAIN duties
        /\ new[k] = duty /\ \A i \in DOMAIN duties : i # k => new[i] = duties[i]
    BY <1>1, <1>4
  <1> HIDE DEF new
  <1>7. \A i \in DOMAIN duties : leg \notin ToSet(duties[i].legs)
    BY LegsOfDuties
  <1>8. RightRoster(new)
    <2>1. ASSUME NEW i \in DOMAIN new
          PROVE  new[i] = DutyOf(new[i].crew, new[i].legs) /\ RightPath(new[i].crew, new[i].legs)
      <3>1. CASE i = k
        BY <1>5, <1>6, <3>1
      <3>2. CASE i # k
        BY <1>6, <3>2 DEF RightRoster
      <3> QED  BY <3>1, <3>2
    <2>2. ASSUME NEW i \in DOMAIN new, NEW j \in DOMAIN new, i # j
          PROVE  new[i].crew # new[j].crew /\ ToSet(new[i].legs) \cap ToSet(new[j].legs) = {}
      <3>1. duties[i].crew # duties[j].crew /\ ToSet(duties[i].legs) \cap ToSet(duties[j].legs) = {}
        BY <1>6, <2>2 DEF RightRoster
      <3>2. new[i].crew = duties[i].crew /\ new[j].crew = duties[j].crew
        BY <1>4, <1>6
      <3>3. CASE i # k /\ j # k
        BY <1>6, <3>1, <3>3
      <3>4. CASE i = k
        BY <1>2, <1>4, <1>6, <1>7, <2>2, <3>1, <3>2, <3>4
      <3>5. CASE j = k
        BY <1>2, <1>4, <1>6, <1>7, <2>2, <3>1, <3>2, <3>5
      <3> QED  BY <3>3, <3>4, <3>5
    <2> QED  BY <1>6, <2>1, <2>2 DEF RightRoster
  <1>9. LegsOf(new) = LegsOf(duties) \cup {leg}
    <2> SUFFICES ASSUME NEW l
                 PROVE  l \in LegsOf(new) <=> l \in LegsOf(duties) \/ l = leg
      OBVIOUS
    <2>1. l \in LegsOf(new) <=> \E i \in DOMAIN duties : l \in ToSet(new[i].legs)
      BY <1>6, LegsOfDuties
    <2>2. l \in LegsOf(duties) <=> \E i \in DOMAIN duties : l \in ToSet(duties[i].legs)
      BY LegsOfDuties
    <2>3. \A i \in DOMAIN duties :
             l \in ToSet(new[i].legs) <=> l \in ToSet(duties[i].legs) \/ (i = k /\ l = leg)
      BY <1>2, <1>4, <1>6
    <2> QED  BY <2>1, <2>2, <2>3
  <1> QED  BY <1>0, <1>8, <1>9

\* The sort of the local search changes nothing.
LEMMA ImprovedIsSame ==
  ASSUME NEW duties, RightRoster(duties)
  PROVE  Improved(duties) = duties
  <1>1. ASSUME NEW i \in DOMAIN duties
        PROVE  Reordered(duties[i]) = duties[i]
    <2>1. duties[i] = DutyOf(duties[i].crew, duties[i].legs) /\ RightPath(duties[i].crew, duties[i].legs)
      BY DEF RightRoster
    <2>2. ByDeparture(duties[i].legs) = duties[i].legs
      BY <2>1, PathKeepsOrder
    <2> QED  BY <2>1, <2>2 DEF Reordered
  <1>2. Improved(duties) = [i \in DOMAIN duties |-> duties[i]]
    BY <1>1 DEF Improved
  <1>3. duties \in Seq(DutySet)
    BY DEF RightRoster
  <1> QED  BY <1>2, <1>3

LEMMA BestIsExtensible ==
  ASSUME NEW duties, RightRoster(duties), NEW leg \in FlightLeg, Extensible(duties, leg) # {}
  PROVE  Best(duties, leg) \in Extensible(duties, leg)
  <1> DEFINE S == Extensible(duties, leg)
             v == [i \in S |-> Longer(duties, leg, i)]
  <1>1. /\ duties \in Seq(DutySet) /\ DOMAIN duties = 1..Len(duties) /\ Len(duties) \in Nat
    BY DEF RightRoster
  <1>2. S \in SUBSET DOMAIN duties
    BY DEF Extensible
  <1>3. S \in SUBSET Int /\ IsFiniteSet(S)
    <2>1. IsFiniteSet(1..Len(duties))
      BY <1>1, FS_Interval
    <2> HIDE DEF S
    <2> QED  BY <1>1, <1>2, <2>1, FS_Subset
  <1>4. \A i \in S : v[i] \in Int
    <2> SUFFICES ASSUME NEW i \in S
                 PROVE  Longer(duties, leg, i) \in Int
      OBVIOUS
    <2>0. duties[i] \in DutySet
      BY <1>1, <1>2
    <2>1. duties[i] \in DutySet /\ duties[i].legs \in Seq(FlightLeg)
      BY <2>0 DEF DutySet
    <2>2. Append(duties[i].legs, leg) \in Seq(FlightLeg) /\ Append(duties[i].legs, leg) # <<>>
      BY <2>1
    <2>3. WithLeg(duties[i], leg).start \in Int /\ WithLeg(duties[i], leg).end \in Int
      BY <2>2, DutyTimes DEF WithLeg
    <2>4. duties[i].start \in Int /\ duties[i].end \in Int
      BY <2>1 DEF DutySet
    <2> QED  BY <2>3, <2>4 DEF Longer
  <1> HIDE DEF v
  <1>5. PICK i \in S : \A j \in S : v[i] < v[j] \/ (v[i] = v[j] /\ i <= j)
    <2> HIDE DEF S
    <2> QED  BY <1>3, <1>4, FirstOfTheLeast DEF S
  <1>6. \A j \in S : \/ Longer(duties, leg, i) < Longer(duties, leg, j)
                     \/ Longer(duties, leg, i) = Longer(duties, leg, j) /\ i <= j
    BY <1>5 DEF v
  <1> QED  BY <1>5, <1>6 DEF Best

LEMMA IdleMemberIsFree ==
  ASSUME NEW duties, NEW leg, Idle(duties, leg) # {}
  PROVE  /\ Min(Idle(duties, leg)) \in DOMAIN CrewPool /\ Min(Idle(duties, leg)) \notin OnDuty(duties)
         /\ Legal(CrewPool[Min(Idle(duties, leg))], DutyOf(Min(Idle(duties, leg)), <<leg>>))
  <1> DEFINE S == Idle(duties, leg)
  <1>1. DOMAIN CrewPool = 1..Len(CrewPool) /\ Len(CrewPool) \in Nat
    BY SolveAssumption
  <1>2. S \in SUBSET DOMAIN CrewPool
    BY DEF Idle
  <1>3. Min(S) \in S
    <2>1. S # {}
      OBVIOUS
    <2> HIDE DEF S
    <2>2. IsFiniteSet(1..Len(CrewPool))
      BY <1>1, FS_Interval
    <2>3. S \in SUBSET Int /\ IsFiniteSet(S)
      BY <1>1, <1>2, <2>2, FS_Subset
    <2> QED  BY <2>1, <2>3, MinIsLeast
  <1> QED  BY <1>3 DEF Idle

\* A round of the greedy construction with a leg that departs no earlier than those placed before.
LEMMA GreedyKeeps ==
  ASSUME NEW duties, RightRoster(duties), NEW leg \in FlightLeg, leg \notin LegsOf(duties),
         \A l \in LegsOf(duties) : l.dep <= leg.dep
  PROVE  /\ RightRoster(GreedyStep(duties, leg))
         /\ LegsOf(GreedyStep(duties, leg)) \subseteq LegsOf(duties) \cup {leg}
  <1>1. CASE Extensible(duties, leg) # {}
    <2> DEFINE k == Best(duties, leg)
    <2>1. k \in Extensible(duties, leg)
      BY <1>1, BestIsExtensible
    <2>2. GreedyStep(duties, leg) = [duties EXCEPT ![k] = WithLeg(@, leg)]
      BY <1>1 DEF GreedyStep
    <2> HIDE DEF k
    <2>3. k \in DOMAIN duties /\ Legal(CrewPool[duties[k].crew], WithLeg(duties[k], leg))
      BY <2>1 DEF Extensible
    <2>4. RightPath(duties[k].crew, duties[k].legs)
      BY <2>3 DEF RightRoster
    <2>5. Last(duties[k].legs).dep <= leg.dep
      <3>1. duties[k].legs \in Seq(FlightLeg) /\ duties[k].legs # <<>>
        BY <2>4 DEF RightPath
      <3>2. Len(duties[k].legs) \in DOMAIN duties[k].legs
        BY <3>1
      <3>3. Last(duties[k].legs) \in ToSet(duties[k].legs)
        BY <3>2 DEF Last, ToSet
      <3> QED  BY <2>3, <3>3, LegsOfDuties
    <2>6. RightPath(duties[k].crew, Append(duties[k].legs, leg))
      BY <2>3, <2>4, <2>5, PathExtended DEF WithLeg
    <2>7. /\ RightRoster([duties EXCEPT ![k] = WithLeg(@, leg)])
          /\ LegsOf([duties EXCEPT ![k] = WithLeg(@, leg)]) = LegsOf(duties) \cup {leg}
      BY <2>3, <2>6, RosterExtended
    <2> QED  BY <2>2, <2>7
  <1>2. CASE Extensible(duties, leg) = {} /\ Idle(duties, leg) # {}
    <2> DEFINE k == Min(Idle(duties, leg))
    <2>1. /\ k \in DOMAIN CrewPool /\ k \notin OnDuty(duties)
          /\ Legal(CrewPool[k], DutyOf(k, <<leg>>))
      BY <1>2, IdleMemberIsFree
    <2>2. GreedyStep(duties, leg) = Append(duties, DutyOf(k, <<leg>>))
      BY <1>2 DEF GreedyStep
    <2> HIDE DEF k
    <2>3. RightPath(k, <<leg>>)
      BY <2>1, PathOpened
    <2>4. ToSet(<<leg>>) = {leg}
      BY DEF ToSet
    <2>5. ToSet(<<leg>>) \cap LegsOf(duties) = {}
      BY <2>4
    <2> QED  BY <2>1, <2>2, <2>3, <2>4, <2>5, RosterOpened
  <1>3. CASE Extensible(duties, leg) = {} /\ Idle(duties, leg) = {}
    BY <1>3 DEF GreedyStep
  <1> QED  BY <1>1, <1>2, <1>3

-----------------------------------------------------------------------------
(* The master: its columns are right paths, so its selections are rosters. *)

LEMMA ExtensionsAreRight ==
  ASSUME NEW k, NEW paths, NEW legs \in SUBSET FlightLeg,
         \A p \in paths : RightPath(k, p) /\ ToSet(p) \subseteq legs
  PROVE  \A p \in Extended(k, paths, legs) : RightPath(k, p) /\ ToSet(p) \subseteq legs
  <1> SUFFICES ASSUME NEW p \in paths, NEW l \in legs,
                      l.dep >= Last(p).arr + MIN_CONNECTION,
                      Legal(CrewPool[k], DutyOf(k, Append(p, l)))
               PROVE  RightPath(k, Append(p, l)) /\ ToSet(Append(p, l)) \subseteq legs
    <2>1. ASSUME NEW q \in Extended(k, paths, legs)
          PROVE  \E p \in paths : \E l \in legs : /\ q = Append(p, l)
                                                 /\ l.dep >= Last(p).arr + MIN_CONNECTION
                                                 /\ Legal(CrewPool[k], DutyOf(k, Append(p, l)))
      BY DEF Extended
    <2> QED  BY <2>1
  <1>1. /\ RightPath(k, p) /\ ToSet(p) \subseteq legs /\ l \in FlightLeg
        /\ p \in Seq(FlightLeg) /\ p # <<>> /\ k \in DOMAIN CrewPool
    BY DEF RightPath
  <1>2. Len(p) \in DOMAIN p /\ p[Len(p)].dep \in Int /\ p[Len(p)].arr \in Int
    BY <1>1, LegsAreFinite
  <1>3. p[Len(p)].dep < p[Len(p)].arr
    <2>1. InOrder(p)
      <3>1. \A i \in DOMAIN p : p[i].dep \in Int
        BY <1>1, LegsAreFinite
      <3> QED  BY <1>1, <3>1 DEF RightPath, InOrder
    <2>2. \A i \in DOMAIN p : p[i].dep < p[i].arr
      BY <1>1, <2>1, PathObeys DEF RightPath
    <2> QED  BY <1>2, <2>2
  <1>4. l.dep \in Int
    BY <1>1 DEF FlightLeg
  <1>5. Last(p).dep <= l.dep
    BY <1>2, <1>3, <1>4 DEF Last, MIN_CONNECTION
  <1> QED  BY <1>1, <1>5, PathExtended, AppendedLegs

LEMMA ColumnsAreRight ==
  ASSUME NEW k \in DOMAIN CrewPool, NEW legs \in SUBSET FlightLeg
  PROVE  \A p \in Columns(k, legs) : RightPath(k, p) /\ ToSet(p) \subseteq legs
  <1> DEFINE one == {<<leg>> : leg \in {l \in legs : /\ l.from \in {CrewPool[k].at, CrewPool[k].base}
                                                     /\ Legal(CrewPool[k], DutyOf(k, <<l>>))}}
             two == Extended(k, one, legs)
             three == Extended(k, two, legs)
             four == Extended(k, three, legs)
  <1>1. \A p \in one : RightPath(k, p) /\ ToSet(p) \subseteq legs
    <2> SUFFICES ASSUME NEW l \in legs, Legal(CrewPool[k], DutyOf(k, <<l>>))
                 PROVE  RightPath(k, <<l>>) /\ ToSet(<<l>>) \subseteq legs
      OBVIOUS
    <2>1. ToSet(<<l>>) = {l}
      BY DEF ToSet
    <2> QED  BY <2>1, PathOpened
  <1>2. Columns(k, legs) = one \cup two \cup three \cup four
    BY DEF Columns
  <1> HIDE DEF one
  <1>3. \A p \in two : RightPath(k, p) /\ ToSet(p) \subseteq legs
    BY <1>1, ExtensionsAreRight
  <1> HIDE DEF two
  <1>4. \A p \in three : RightPath(k, p) /\ ToSet(p) \subseteq legs
    BY <1>3, ExtensionsAreRight
  <1> HIDE DEF three
  <1>5. \A p \in four : RightPath(k, p) /\ ToSet(p) \subseteq legs
    BY <1>4, ExtensionsAreRight
  <1> HIDE DEF four
  <1> QED  BY <1>1, <1>2, <1>3, <1>4, <1>5

LEMMA EmptyRoster ==
  RightRoster(<<>>) /\ LegsOf(<<>>) = {}
  BY DEF RightRoster, LegsOf, ToSet

LEMMA SequenceOfSet ==
  ASSUME NEW S, IsFiniteSet(S)
  PROVE  /\ Cardinality(S) \in Nat /\ SetToSeq(S) \in [1..Cardinality(S) -> S]
         /\ \A i, j \in 1..Cardinality(S) : SetToSeq(S)[i] = SetToSeq(S)[j] => i = j
         /\ \A x \in S : \E i \in 1..Cardinality(S) : SetToSeq(S)[i] = x
  <1> DEFINE n == Cardinality(S)
             f == SetToSeq(S)
  <1>1. n \in Nat /\ ExistsBijection(1..n, S)
    BY FS_CardinalityType
  <1>2. \E g \in [1..n -> S] : IsInjective(g)
    BY <1>1 DEF ExistsBijection, Bijection, Injection
  <1>3. f \in [1..n -> S] /\ IsInjective(f)
    BY <1>2 DEF SetToSeq
  <1>4. f \in Injection(1..n, S)
    BY <1>3 DEF Injection
  <1>5. Cardinality(1..n) = n
    BY <1>1, FS_Interval
  <1> HIDE DEF n, f
  <1>6. f \in Surjection(1..n, S)
    BY <1>4, <1>5, FS_Injection DEF n
  <1>7. \A x \in S : \E i \in 1..n : f[i] = x
    BY <1>6 DEF Surjection
  <1>8. \A i, j \in 1..n : f[i] = f[j] => i = j
    BY <1>3 DEF IsInjective
  <1> QED  BY <1>1, <1>3, <1>7, <1>8 DEF n, f

\* A selection of right paths that share no leg is a roster.
LEMMA SelectionIsRoster ==
  ASSUME NEW s, NEW legs \in SUBSET FlightLeg,
         \A k \in DOMAIN CrewPool : s[k] # <<>> => RightPath(k, s[k]) /\ ToSet(s[k]) \subseteq legs,
         \A j, k \in DOMAIN CrewPool : j # k => ToSet(s[j]) \cap ToSet(s[k]) = {}
  PROVE  RightRoster(Duties(s)) /\ LegsOf(Duties(s)) \subseteq legs
  <1> DEFINE S == {k \in DOMAIN CrewPool : s[k] # <<>>}
             used == SetToSeq(S)
             n == Cardinality(S)
             duties == [i \in DOMAIN used |-> DutyOf(used[i], s[used[i]])]
  <1>0. Duties(s) = duties
    BY DEF Duties
  <1>1. IsFiniteSet(S)
    <2>1. DOMAIN CrewPool = 1..Len(CrewPool) /\ Len(CrewPool) \in Nat
      BY SolveAssumption
    <2>2. IsFiniteSet(DOMAIN CrewPool)
      BY <2>1, FS_Interval
    <2> QED  BY <2>2, FS_Subset
  <1>2. /\ n \in Nat /\ used \in [1..n -> S]
        /\ \A i, j \in 1..n : used[i] = used[j] => i = j
    <2> HIDE DEF S
    <2> QED  BY <1>1, SequenceOfSet
  <1> HIDE DEF used, n
  <1>3. \A i \in 1..n : /\ used[i] \in DOMAIN CrewPool /\ RightPath(used[i], s[used[i]])
                        /\ ToSet(s[used[i]]) \subseteq legs
    BY <1>2
  <1> HIDE DEF S
  <1>4. DOMAIN duties = 1..n /\ \A i \in 1..n : duties[i] = DutyOf(used[i], s[used[i]])
    BY <1>2
  <1>5. \A i \in 1..n : duties[i] \in DutySet /\ duties[i].crew = used[i] /\ duties[i].legs = s[used[i]]
    BY <1>3, <1>4, PathMakesDuty
  <1>6. duties \in Seq(DutySet)
    <2>1. duties \in [1..n -> DutySet]
      BY <1>2, <1>4, <1>5
    <2> HIDE DEF duties
    <2> QED  BY <1>2, <2>1
  <1> HIDE DEF duties
  <1>7. RightRoster(duties)
    <2>1. ASSUME NEW i \in 1..n
          PROVE  duties[i] = DutyOf(duties[i].crew, duties[i].legs) /\ RightPath(duties[i].crew, duties[i].legs)
      BY <1>3, <1>4, <1>5
    <2>2. ASSUME NEW i \in 1..n, NEW j \in 1..n, i # j
          PROVE  duties[i].crew # duties[j].crew /\ ToSet(duties[i].legs) \cap ToSet(duties[j].legs) = {}
      <3>1. used[i] # used[j] /\ used[i] \in DOMAIN CrewPool /\ used[j] \in DOMAIN CrewPool
        BY <1>2, <1>3, <2>2
      <3>2. ToSet(s[used[i]]) \cap ToSet(s[used[j]]) = {}
        BY <3>1
      <3> QED  BY <1>5, <3>1, <3>2
    <2> QED  BY <1>4, <1>6, <2>1, <2>2 DEF RightRoster
  <1>8. ASSUME NEW leg \in LegsOf(duties)
        PROVE  leg \in legs
    <2>1. PICK i \in 1..n : leg \in ToSet(duties[i].legs)
      BY <1>4, LegsOfDuties
    <2> QED  BY <1>3, <1>5, <2>1
  <1> QED  BY <1>0, <1>7, <1>8

-----------------------------------------------------------------------------
(* The solve.  The greedy tier keeps a right roster whose legs all come      *)
(* before those it has yet to place; every later result is a right roster.  *)

\* what a result has to be to be given to the caller
Answer(result) ==
  /\ RightRoster(result.duties)
  /\ LegsOf(result.duties) \subseteq Asked
  /\ result.uncovered = Asked \ LegsOf(result.duties)
  /\ Covers(result.duties) >= Covers(incumbent.duties)
  /\ result.uncovered # {} => result.tier = IF caller = "orchestrator" THEN "tier3" ELSE "tier1"

Placing ==
  /\ RightRoster(roster)
  /\ incumbent = Result("none", <<>>, Asked)
  /\ \A t \in legsToDo : AllLegs[t] \in Asked
  /\ \A leg \in LegsOf(roster) :
        leg \in Asked /\ \E m \in DOMAIN AllLegs : leg = AllLegs[m] /\ \A t \in legsToDo : m < t

Placed ==
  /\ RightRoster(incumbent.duties)
  /\ LegsOf(incumbent.duties) \subseteq Asked
  /\ incumbent = Result("tier1", incumbent.duties, Asked)

SolveInv ==
  /\ phase \in {"greedy", "tier2", "done"} /\ caller \in Callers
  /\ legsToDo \in SUBSET DOMAIN AllLegs
  /\ Asked \in SUBSET FlightLeg /\ IsFiniteSet(Asked)
  /\ phase = "greedy" => Placing
  /\ phase # "greedy" => Placed
  /\ phase = "done" => Answer(outcome)

LEMMA SolveStarts ==
  ASSUME SolveInit
  PROVE  SolveInv
  <1> DEFINE asked == {AllLegs[k] : k \in legsToDo}
  <1>0. legsToDo \in SUBSET DOMAIN AllLegs /\ incumbent = Result("none", <<>>, asked) /\ roster = <<>>
    BY DEF SolveInit
  <1>1. DOMAIN AllLegs = 1..Len(AllLegs) /\ Len(AllLegs) \in Nat /\ \A k \in DOMAIN AllLegs : AllLegs[k] \in FlightLeg
    BY SolveAssumption
  <1>2. IsFiniteSet(legsToDo)
    <2>1. IsFiniteSet(DOMAIN AllLegs)
      BY <1>1, FS_Interval
    <2> QED  BY <1>0, <2>1, FS_Subset
  <1>3. IsFiniteSet(asked) /\ asked \in SUBSET FlightLeg
    BY <1>0, <1>1, <1>2, FiniteImage
  <1>4. \A t \in legsToDo : AllLegs[t] \in asked
    OBVIOUS
  <1> HIDE DEF asked
  <1>5. Asked = asked
    BY <1>0, EmptyRoster DEF Asked, Result
  <1>6. Placing
    BY <1>0, <1>4, <1>5, EmptyRoster DEF Placing
  <1> QED  BY <1>0, <1>3, <1>5, <1>6 DEF SolveInv, SolveInit

LEMMA LegIsPlaced ==
  ASSUME SolveInv, PlaceLeg
  PROVE  SolveInv'
  <1> DEFINE t == Min(legsToDo)
             leg == AllLegs[t]
  <1>0. /\ phase = "greedy" /\ legsToDo # {} /\ phase' = phase /\ caller' = caller /\ incumbent' = incumbent
        /\ legsToDo' = legsToDo \ {t}
        /\ roster' = IF expired THEN roster ELSE GreedyStep(roster, leg)
    BY DEF PlaceLeg
  <1>1. /\ legsToDo \in SUBSET DOMAIN AllLegs /\ Asked \in SUBSET FlightLeg /\ IsFiniteSet(Asked)
        /\ Placing /\ phase \in {"greedy", "tier2", "done"} /\ caller \in Callers
    BY <1>0 DEF SolveInv
  <1>2. DOMAIN AllLegs = 1..Len(AllLegs) /\ Len(AllLegs) \in Nat
    BY SolveAssumption
  <1>3. t \in legsToDo /\ \A u \in legsToDo : t <= u
    <2>1. IsFiniteSet(1..Len(AllLegs))
      BY <1>2, FS_Interval
    <2>2. IsFiniteSet(legsToDo) /\ legsToDo \in SUBSET Int
      BY <1>1, <1>2, <2>1, FS_Subset
    <2> QED  BY <1>0, <2>2, MinIsLeast
  <1> HIDE DEF t
  <1>4. \A u \in legsToDo : u \in Int /\ u \in DOMAIN AllLegs
    BY <1>1, <1>2
  <1>5. Asked' = Asked
    BY <1>0 DEF Asked, LegsOf
  <1>6. leg \in FlightLeg /\ leg \in Asked
    BY <1>1, <1>3, <1>4 DEF Placing
  <1>7. /\ RightRoster(roster)
        /\ \A l \in LegsOf(roster) :
              l \in Asked /\ \E m \in DOMAIN AllLegs : l = AllLegs[m] /\ \A u \in legsToDo : m < u
    BY <1>1 DEF Placing
  <1>8. ASSUME NEW l \in LegsOf(roster)
        PROVE  l # leg /\ l.dep <= leg.dep
    <2>1. PICK m \in DOMAIN AllLegs : l = AllLegs[m] /\ \A u \in legsToDo : m < u
      BY <1>7
    <2>2. m < t /\ t \in DOMAIN AllLegs
      BY <1>3, <1>4, <2>1
    <2> QED  BY <2>1, <2>2, SolveAssumption
  <1>9. RightRoster(roster') /\ LegsOf(roster') \subseteq LegsOf(roster) \cup {leg}
    <2>1. CASE expired
      BY <1>0, <1>7, <2>1
    <2>2. CASE ~expired
      <3>1. leg \notin LegsOf(roster) /\ \A l \in LegsOf(roster) : l.dep <= leg.dep
        BY <1>8
      <3> HIDE DEF leg
      <3>2. RightRoster(GreedyStep(roster, leg)) /\ LegsOf(GreedyStep(roster, leg)) \subseteq LegsOf(roster) \cup {leg}
        BY <1>6, <1>7, <3>1, GreedyKeeps
      <3> QED  BY <1>0, <2>2, <3>2
    <2> QED  BY <2>1, <2>2
  <1>10. ASSUME NEW l \in LegsOf(roster')
         PROVE  l \in Asked /\ \E m \in DOMAIN AllLegs : l = AllLegs[m] /\ \A u \in legsToDo' : m < u
    <2>1. CASE l \in LegsOf(roster)
      BY <1>0, <1>7, <2>1
    <2>2. CASE l = leg
      <3>1. \A u \in legsToDo' : t < u
        BY <1>0, <1>3, <1>4
      <3> QED  BY <1>3, <1>4, <1>6, <2>2, <3>1
    <2> QED  BY <1>9, <2>1, <2>2
  <1>11. Placing'
    <2>1. incumbent' = Result("none", <<>>, Asked')
      BY <1>0, <1>1, <1>5 DEF Placing
    <2>2. \A u \in legsToDo' : AllLegs[u] \in Asked'
      BY <1>0, <1>1, <1>5 DEF Placing
    <2>3. \A l \in LegsOf(roster') :
             l \in Asked' /\ \E m \in DOMAIN AllLegs : l = AllLegs[m] /\ \A u \in legsToDo' : m < u
      BY <1>5, <1>10
    <2>4. RightRoster(roster)'
      BY <1>9 DEF RightRoster, DutySet, DutyOf, RightPath
    <2>5. Result("none", <<>>, Asked)' = Result("none", <<>>, Asked') /\ LegsOf(roster)' = LegsOf(roster')
      BY DEF Result, LegsOf
    <2> QED  BY <2>1, <2>2, <2>3, <2>4, <2>5 DEF Placing
  <1> QED  BY <1>0, <1>1, <1>5, <1>11 DEF SolveInv

LEMMA Tier1Finishes ==
  ASSUME SolveInv, FinishTier1
  PROVE  SolveInv'
  <1> DEFINE first == Result("tier1", roster, Asked)
             complete == first.uncovered = {} /\ caller # "worker_tier2"
  <1>0. phase = "greedy" /\ caller \in Callers
    BY DEF SolveInv, FinishTier1
  <1>1. /\ RightRoster(roster) /\ LegsOf(roster) \subseteq Asked
        /\ Asked \in SUBSET FlightLeg /\ IsFiniteSet(Asked) /\ legsToDo \in SUBSET DOMAIN AllLegs
    BY <1>0 DEF SolveInv, Placing
  <1>2. /\ incumbent' = first
        /\ phase' = IF complete THEN "done" ELSE "tier2"
        /\ outcome' = IF complete THEN first ELSE outcome
        /\ caller' = caller /\ legsToDo' = legsToDo
    <2>1. Improved(roster) = roster
      BY <1>1, ImprovedIsSame
    <2> QED  BY <2>1 DEF FinishTier1
  <1>3. first.tier = "tier1" /\ first.duties = roster /\ first.uncovered = Asked \ LegsOf(roster)
    BY DEF Result
  <1>4. Asked' = Asked
    <2>1. Asked' = LegsOf(roster) \cup (Asked \ LegsOf(roster))
      BY <1>2, <1>3 DEF Asked, LegsOf
    <2> QED  BY <1>1, <2>1
  <1> HIDE DEF first
  <1>5. RightRoster(incumbent.duties)'
    <2>1. RightRoster(incumbent'.duties)
      BY <1>1, <1>2, <1>3
    <2> QED  BY <2>1 DEF RightRoster, DutySet, DutyOf, RightPath
  <1>6. LegsOf(incumbent.duties)' = LegsOf(roster) /\ Covers(incumbent.duties)' = Covers(roster)
    BY <1>2, <1>3 DEF LegsOf, Covers
  <1>7. Placed'
    <2>1. Result("tier1", incumbent.duties, Asked)' = Result("tier1", roster, Asked)
      BY <1>2, <1>3, <1>4 DEF Result, LegsOf
    <2> QED  BY <1>1, <1>2, <1>4, <1>5, <1>6, <2>1 DEF Placed, first
  <1>8. ASSUME phase' = "done"
        PROVE  Answer(outcome)'
    <2>1. outcome' = incumbent' /\ outcome'.uncovered = {}
      BY <1>2, <1>8
    <2>2. RightRoster(outcome.duties)' /\ LegsOf(outcome.duties)' = LegsOf(roster)
      <3>1. RightRoster(outcome'.duties)
        BY <1>1, <1>2, <1>3, <2>1
      <3>2. RightRoster(outcome.duties)'
        BY <3>1 DEF RightRoster, DutySet, DutyOf, RightPath
      <3> QED  BY <1>6, <2>1, <3>2 DEF LegsOf
    <2>3. Covers(outcome.duties)' >= Covers(incumbent.duties)'
      <3>1. Covers(outcome.duties)' = Covers(incumbent.duties)'
        BY <2>1 DEF Covers, LegsOf
      <3>2. Covers(roster) \in Int
        BY <1>1, FS_Subset, FS_CardinalityType DEF Covers
      <3> QED  BY <1>6, <3>1, <3>2
    <2>4. outcome'.uncovered = Asked' \ LegsOf(outcome.duties)'
      BY <1>2, <1>3, <1>4, <2>1, <2>2
    <2> QED  BY <1>1, <1>4, <2>1, <2>2, <2>3, <2>4 DEF Answer
  <1>9. phase' # "greedy" /\ phase' \in {"greedy", "tier2", "done"}
    BY <1>2
  <1> QED  BY <1>0, <1>1, <1>2, <1>4, <1>7, <1>8, <1>9 DEF SolveInv

\* The incumbent that the optimizer starts from is a roster too.
LEMMA InitialIsRoster ==
  ASSUME Placed
  PROVE  /\ RightRoster(Initial) /\ LegsOf(Initial) \subseteq Asked
         /\ caller # "worker_tier1" => Initial = incumbent.duties
  BY EmptyRoster DEF Initial, Placed

LEMMA CoversCounts ==
  ASSUME IsFiniteSet(Asked), NEW duties, LegsOf(duties) \subseteq Asked
  PROVE  /\ Covers(duties) \in Int /\ Covers(duties) <= Cardinality(Asked) /\ Cardinality(Asked) \in Int
         /\ LegsOf(duties) = Asked => Covers(duties) = Cardinality(Asked)
  <1>1. IsFiniteSet(LegsOf(duties)) /\ Cardinality(LegsOf(duties)) <= Cardinality(Asked)
    BY FS_Subset
  <1> QED  BY <1>1, FS_CardinalityType DEF Covers

\* Whatever the optimizer returns, if it covers no less than what it was given.
LEMMA AdoptedIsAnswer ==
  ASSUME SolveInv, phase = "tier2", NEW duties, RightRoster(duties), LegsOf(duties) \subseteq Asked,
         Covers(duties) >= Covers(Initial), NEW converged \in BOOLEAN,
         converged => Asked \ LegsOf(duties) = {}
  PROVE  Answer(Adopted(Result("tier2", duties, Asked), converged))
  <1> DEFINE second == Result("tier2", duties, Asked)
  <1>1. /\ second.duties = duties /\ second.uncovered = Asked \ LegsOf(duties)
        /\ second = [tier |-> "tier2", duties |-> duties, uncovered |-> Asked \ LegsOf(duties)]
    BY DEF Result
  <1>2. Placed /\ IsFiniteSet(Asked) /\ caller \in Callers
    BY DEF SolveInv
  <1>3. /\ RightRoster(incumbent.duties) /\ LegsOf(incumbent.duties) \subseteq Asked
        /\ incumbent = [tier |-> "tier1", duties |-> incumbent.duties,
                        uncovered |-> Asked \ LegsOf(incumbent.duties)]
    BY <1>2 DEF Placed, Result
  <1>4. /\ Covers(duties) \in Int /\ Covers(incumbent.duties) \in Int /\ Cardinality(Asked) \in Int
        /\ Covers(incumbent.duties) <= Cardinality(Asked)
        /\ LegsOf(duties) = Asked => Covers(duties) = Cardinality(Asked)
    BY <1>2, <1>3, CoversCounts
  <1> HIDE DEF second
  <1>5. CASE converged
    <2> DEFINE result == [second EXCEPT !.tier = "tier2"]
    <2>1. Adopted(second, converged) = result
      BY <1>5 DEF Adopted
    <2>2. LegsOf(duties) = Asked
      BY <1>5
    <2>3. result.duties = duties /\ result.uncovered = Asked \ LegsOf(duties) /\ result.uncovered = {}
      BY <1>1, <2>2
    <2>4. Covers(duties) >= Covers(incumbent.duties)
      BY <1>4, <2>2
    <2> HIDE DEF result
    <2> QED  BY <2>1, <2>3, <2>4 DEF Answer, second
  <1>6. CASE ~converged /\ caller = "worker_tier2"
    <2> DEFINE result == [second EXCEPT !.tier = "tier1"]
    <2>1. Adopted(second, converged) = result
      BY <1>6 DEF Adopted
    <2>2. result.duties = duties /\ result.uncovered = Asked \ LegsOf(duties) /\ result.tier = "tier1"
      BY <1>1
    <2>3. Covers(duties) >= Covers(incumbent.duties)
      BY <1>2, <1>6, InitialIsRoster
    <2> HIDE DEF result
    <2> QED  BY <1>6, <2>1, <2>2, <2>3 DEF Answer, second
  <1>7. CASE ~converged /\ caller = "orchestrator"
    <2>0. Covers(duties) >= Covers(incumbent.duties)
      BY <1>2, <1>7, InitialIsRoster
    <2>1. CASE Cardinality(second.uncovered) < Cardinality(incumbent.uncovered)
      <3> DEFINE result == [second EXCEPT !.tier = "tier3"]
      <3>1. Adopted(second, converged) = result
        BY <1>7, <2>1 DEF Adopted
      <3>2. result.duties = duties /\ result.uncovered = Asked \ LegsOf(duties) /\ result.tier = "tier3"
        BY <1>1
      <3> HIDE DEF result
      <3> QED  BY <1>7, <2>0, <3>1, <3>2 DEF Answer, second
    <2>2. CASE ~(Cardinality(second.uncovered) < Cardinality(incumbent.uncovered))
      <3> DEFINE result == [incumbent EXCEPT !.tier = "tier3"]
      <3>1. Adopted(second, converged) = result
        BY <1>7, <2>2 DEF Adopted
      <3>2. /\ result.duties = incumbent.duties /\ result.uncovered = Asked \ LegsOf(incumbent.duties)
            /\ result.tier = "tier3"
        BY <1>3
      <3>3. Covers(incumbent.duties) >= Covers(incumbent.duties)
        BY <1>4
      <3> HIDE DEF result
      <3> QED  BY <1>3, <1>7, <3>1, <3>2, <3>3 DEF Answer, second
    <2> QED  BY <2>1, <2>2
  <1>8. CASE ~converged /\ caller = "worker_tier1"
    <2>1. Adopted(second, converged) = incumbent
      BY <1>8 DEF Adopted
    <2>2. incumbent.tier = "tier1" /\ incumbent.uncovered = Asked \ LegsOf(incumbent.duties)
      BY <1>3
    <2>3. Covers(incumbent.duties) >= Covers(incumbent.duties)
      BY <1>4
    <2> QED  BY <1>3, <1>8, <2>1, <2>2, <2>3 DEF Answer, second
  <1> QED  BY <1>2, <1>5, <1>6, <1>7, <1>8 DEF Callers

\* A solve that ends with such an answer keeps the invariant.
LEMMA SolveEnds ==
  ASSUME SolveInv, phase = "tier2", phase' = "done", Answer(outcome'),
         UNCHANGED <<caller, legsToDo, roster, expired, incumbent>>
  PROVE  SolveInv'
  <1>1. Asked' = Asked
    BY DEF Asked, LegsOf
  <1>2. Placed'
    <2>1. RightRoster(incumbent.duties)'
      <3>1. RightRoster(incumbent'.duties)
        BY DEF SolveInv, Placed
      <3> QED  BY <3>1 DEF RightRoster, DutySet, DutyOf, RightPath
    <2>2. /\ LegsOf(incumbent.duties)' = LegsOf(incumbent.duties)
          /\ Result("tier1", incumbent.duties, Asked)' = Result("tier1", incumbent.duties, Asked)
      BY <1>1 DEF Result, LegsOf
    <2>3. Placed
      BY DEF SolveInv
    <2> QED  BY <1>1, <2>1, <2>2, <2>3 DEF Placed
  <1>3. Answer(outcome)'
    <2>1. RightRoster(outcome.duties)'
      BY DEF Answer, RightRoster, DutySet, DutyOf, RightPath
    <2>2. /\ LegsOf(outcome.duties)' = LegsOf(outcome'.duties)
          /\ Covers(outcome.duties)' = Covers(outcome'.duties)
          /\ Covers(incumbent.duties)' = Covers(incumbent.duties)
      BY DEF LegsOf, Covers
    <2> QED  BY <1>1, <2>1, <2>2 DEF Answer
  <1> QED  BY <1>1, <1>2, <1>3 DEF SolveInv

LEMMA OptimizerAnswers ==
  ASSUME SolveInv, Optimize
  PROVE  SolveInv'
  <1>0. phase = "tier2" /\ phase' = "done" /\ UNCHANGED <<caller, legsToDo, roster, expired, incumbent>>
    BY DEF Optimize
  <1>1. PICK s \in Selections :
           LET second == Result("tier2", Kept(Duties(s)), Asked)
           IN outcome' = Adopted(second, second.uncovered = {})
    BY DEF Optimize
  <1>2. Placed /\ IsFiniteSet(Asked) /\ Asked \in SUBSET FlightLeg
    BY <1>0 DEF SolveInv
  <1>3. /\ RightRoster(Initial) /\ LegsOf(Initial) \subseteq Asked
    BY <1>2, InitialIsRoster
  <1>4. ASSUME NEW k \in DOMAIN CrewPool, s[k] # <<>>
        PROVE  RightPath(k, s[k]) /\ ToSet(s[k]) \subseteq Asked
    <2>1. \/ s[k] = <<>> \/ s[k] \in Columns(k, Asked)
          \/ s[k] \in {duty.legs : duty \in {d \in ToSet(Initial) : d.crew = k}}
      BY DEF Selections
    <2>2. CASE s[k] \in Columns(k, Asked)
      BY <1>2, <2>2, ColumnsAreRight
    <2>3. CASE s[k] \in {duty.legs : duty \in {d \in ToSet(Initial) : d.crew = k}}
      <3>1. PICK i \in DOMAIN Initial : s[k] = Initial[i].legs /\ Initial[i].crew = k
        BY <2>3 DEF ToSet
      <3>2. RightPath(k, s[k])
        BY <1>3, <3>1 DEF RightRoster
      <3>3. \A leg \in ToSet(s[k]) : leg \in LegsOf(Initial)
        BY <3>1, LegsOfDuties
      <3> QED  BY <1>3, <3>2, <3>3
    <2> QED  BY <1>4, <2>1, <2>2, <2>3
  <1>5. \A j, k \in DOMAIN CrewPool : j # k => ToSet(s[j]) \cap ToSet(s[k]) = {}
    BY DEF Selections
  <1>6. RightRoster(Duties(s)) /\ LegsOf(Duties(s)) \subseteq Asked
    BY <1>2, <1>4, <1>5, SelectionIsRoster
  <1> DEFINE duties == Kept(Duties(s))
  <1>7. RightRoster(duties) /\ LegsOf(duties) \subseteq Asked
    BY <1>3, <1>6 DEF Kept
  <1>8. Covers(duties) >= Covers(Initial)
    <2>1. Covers(Duties(s)) \in Int /\ Covers(Initial) \in Int
      BY <1>2, <1>3, <1>6, CoversCounts
    <2> QED  BY <2>1 DEF Kept
  <1> HIDE DEF duties
  <1>9. Result("tier2", duties, Asked).uncovered = Asked \ LegsOf(duties)
    BY DEF Result
  <1>10. outcome' = Adopted(Result("tier2", duties, Asked), Asked \ LegsOf(duties) = {})
    BY <1>1, <1>9 DEF duties
  <1>11. Answer(outcome')
    BY <1>0, <1>7, <1>8, <1>10, AdoptedIsAnswer
  <1> QED  BY <1>0, <1>11, SolveEnds

LEMMA IncumbentAnswers ==
  ASSUME SolveInv, OptimizerFails
  PROVE  SolveInv'
  <1>0. phase = "tier2" /\ phase' = "done" /\ UNCHANGED <<caller, legsToDo, roster, expired, incumbent>>
    BY DEF OptimizerFails
  <1>1. PICK loaded \in BOOLEAN :
           LET second == Result("tier2", Initial, Asked)
           IN outcome' = Adopted(second, loaded /\ second.uncovered = {})
    BY DEF OptimizerFails
  <1>2. Placed /\ IsFiniteSet(Asked)
    BY <1>0 DEF SolveInv
  <1>3. RightRoster(Initial) /\ LegsOf(Initial) \subseteq Asked
    BY <1>2, InitialIsRoster
  <1>4. Covers(Initial) >= Covers(Initial)
    BY <1>2, <1>3, CoversCounts
  <1>5. Result("tier2", Initial, Asked).uncovered = Asked \ LegsOf(Initial)
    BY DEF Result
  <1> DEFINE converged == loaded /\ Asked \ LegsOf(Initial) = {}
  <1>6. outcome' = Adopted(Result("tier2", Initial, Asked), converged)
    BY <1>1, <1>5
  <1>7. converged \in BOOLEAN /\ (converged => Asked \ LegsOf(Initial) = {})
    OBVIOUS
  <1> HIDE DEF converged
  <1>8. Answer(outcome')
    BY <1>0, <1>3, <1>4, <1>6, <1>7, AdoptedIsAnswer
  <1> QED  BY <1>0, <1>8, SolveEnds

LEMMA SolveInvariant == SolveSpec => []SolveInv
  <1>1. SolveInit => SolveInv
    BY SolveStarts
  <1>2. SolveInv /\ [SolveNext]_solveVars => SolveInv'
    <2> SUFFICES ASSUME SolveInv, [SolveNext]_solveVars
                 PROVE  SolveInv'
      OBVIOUS
    <2>1. CASE UNCHANGED <<phase, caller, legsToDo, roster, incumbent, outcome>>
      <3>1. Asked' = Asked
        BY <2>1 DEF Asked, LegsOf
      <3>2. /\ RightRoster(roster)' = RightRoster(roster)
            /\ RightRoster(incumbent.duties)' = RightRoster(incumbent.duties)
            /\ RightRoster(outcome.duties)' = RightRoster(outcome.duties)
        BY <2>1 DEF RightRoster, DutySet, DutyOf, RightPath
      <3>3. /\ LegsOf(roster)' = LegsOf(roster) /\ LegsOf(incumbent.duties)' = LegsOf(incumbent.duties)
            /\ LegsOf(outcome.duties)' = LegsOf(outcome.duties)
            /\ Covers(incumbent.duties)' = Covers(incumbent.duties)
            /\ Covers(outcome.duties)' = Covers(outcome.duties)
        BY <2>1 DEF LegsOf, Covers
      <3>4. /\ Result("none", <<>>, Asked)' = Result("none", <<>>, Asked)
            /\ Result("tier1", incumbent.duties, Asked)' = Result("tier1", incumbent.duties, Asked)
        BY <2>1, <3>1, <3>3 DEF Result, LegsOf
      <3>5. Placing' <=> Placing
        BY <2>1, <3>1, <3>2, <3>3, <3>4 DEF Placing
      <3>6. Placed' <=> Placed
        BY <2>1, <3>1, <3>2, <3>3, <3>4 DEF Placed
      <3>7. Answer(outcome)' <=> Answer(outcome)
        BY <2>1, <3>1, <3>2, <3>3 DEF Answer
      <3> QED  BY <2>1, <3>1, <3>5, <3>6, <3>7 DEF SolveInv
    <2>2. CASE DeadlinePasses \/ UNCHANGED solveVars
      BY <2>1, <2>2 DEF DeadlinePasses, solveVars
    <2> QED  BY <2>2, LegIsPlaced, Tier1Finishes, OptimizerAnswers, IncumbentAnswers DEF SolveNext
  <1> QED  BY <1>1, <1>2, PTL DEF SolveSpec

\* Every solve ends with duties that can be flown, for any crew and flights, whatever the deadline
\* cuts off and whatever the optimizer returns (solvers/tier1.py, solvers/tier2.py).
THEOREM OutcomesAreLegal == SolveSpec => []OutcomeIsLegal
  <1>1. SolveInv => OutcomeIsLegal
    <2> SUFFICES ASSUME SolveInv, phase = "done"
                 PROVE  OutcomeIsLegal
      BY DEF OutcomeIsLegal
    <2>1. /\ RightRoster(outcome.duties) /\ LegsOf(outcome.duties) \subseteq Asked
          /\ outcome.uncovered = Asked \ LegsOf(outcome.duties)
      BY DEF SolveInv, Answer
    <2>2. \A i, j \in DOMAIN outcome.duties : i # j =>
             /\ outcome.duties[i].crew # outcome.duties[j].crew
             /\ ToSet(outcome.duties[i].legs) \cap ToSet(outcome.duties[j].legs) = {}
      BY <2>1 DEF RightRoster
    <2>3. LegsOf(outcome.duties) = Asked \ outcome.uncovered
      BY <2>1
    <2>4. ASSUME NEW duty \in ToSet(outcome.duties)
          PROVE  RightPath(duty.crew, duty.legs)
      BY <2>1 DEF RightRoster, ToSet
    <2> QED  BY <2>2, <2>3, <2>4, PathIsFlyable DEF OutcomeIsLegal
  <1> QED  BY <1>1, SolveInvariant, PTL

\* No caller ends with fewer flights than the greedy tier had covered, and flights that nobody
\* covers are never reported as a finished solve (solvers/tier2.py, solvers/orchestrator.py,
\* deployment/worker.py).
THEOREM IncumbentsAreKept == SolveSpec => []IncumbentIsKept
  <1>1. SolveInv => IncumbentIsKept
    BY DEF SolveInv, Answer, IncumbentIsKept
  <1> QED  BY <1>1, SolveInvariant, PTL

-----------------------------------------------------------------------------
(* Certificates. *)

Assignments == [member : CrewFile, duty : DutyFile, evidence : EvidenceFile]

\* what a certificate says of one assignment: the body of CertificateIsEarned
Earned(a) ==
  LET flown == {j \in DOMAIN a.duty.legs : ~a.duty.legs[j].deadhead}
      hours == SumFunction([j \in flown |-> a.duty.legs[j].arr - a.duty.legs[j].dep])
      span == a.duty.end - a.duty.start
  IN \E e \in a.evidence :
        /\ e.complete /\ e.acclimatizationKnown /\ e.rolesFilled /\ e.visa = {TRUE}
        /\ \E totals \in e.totals : /\ \A left \in totals.flightLeft : hours <= left
                                    /\ \A left \in totals.dutyLeft : span <= left
        /\ \A c \in {"licence", "medical", "recency"} \cup {a.duty.legs[j].type : j \in flown} :
              \E t \in e.validUntil[c] : t >= a.duty.end
        /\ e.standby + span <= 36 /\ hours <= 18 /\ span <= 28
        /\ \A j \in flown : a.duty.legs[j].type \in a.member.types
        /\ \A t \in a.member.restEnds : a.duty.start - t >= 20
        /\ \/ a.member.at = ""
           \/ \E leg \in ToSet(a.duty.legs) : /\ leg.from = a.member.at
                                              /\ \A l \in ToSet(a.duty.legs) : leg.dep <= l.dep

LEMMA AssignmentTypes ==
  ASSUME NEW a \in Assignments
  PROVE  /\ a.member \in CrewMember /\ a.duty.legs \in Seq(FlightLeg) /\ a.duty.legs # <<>>
         /\ a.duty.start \in Int /\ a.duty.end \in Int /\ a.duty \in DutyFile
         /\ \A e \in a.evidence : e \in Evidence
  <1>1. a.member \in CrewFile /\ a.duty \in DutyFile /\ a.evidence \in EvidenceFile
    BY DEF Assignments
  <1>2. a.duty \in [legs : Seq(FlightLeg) \ {<<>>}, start : Int, end : Int]
    BY <1>1, CertificateAssumption
  <1>3. a.duty.legs \in Seq(FlightLeg) \ {<<>>} /\ a.duty.start \in Int /\ a.duty.end \in Int
    BY <1>2
  <1>4. a.member \in CrewMember
    BY <1>1, CertificateAssumption
  <1>5. \A e \in a.evidence : e \in Evidence
    BY <1>1, CertificateAssumption
  <1> QED  BY <1>1, <1>3, <1>4, <1>5

\* The hours of the property are those of the rules.
LEMMA HoursAgree ==
  ASSUME NEW legs \in Seq(FlightLeg)
  PROVE  SumFunction([j \in Worked(legs) |-> legs[j].arr - legs[j].dep]) = LegTime(legs, Worked(legs))
  <1> DEFINE S == Worked(legs)
             e == [j \in S |-> legs[j].arr - legs[j].dep]
             f == [j \in DOMAIN legs |-> legs[j].arr - legs[j].dep]
             h == [j \in S |-> j]
  <1>1. IsFiniteSet(S) /\ \A j \in DOMAIN legs : legs[j].arr \in Int /\ legs[j].dep \in Int
    BY LegsAreFinite
  <1>2. \A j \in S : f[j] \in Int /\ e[h[j]] = f[j]
    BY <1>1 DEF Worked
  <1>3. \A i, j \in S : h[i] = h[j] => i = j
    OBVIOUS
  <1>4. {h[j] : j \in S} = S /\ DOMAIN e = S
    OBVIOUS
  <1>5. IsFiniteSet(S)
    BY <1>1
  <1> HIDE DEF S, e, f, h
  <1>6. SumFunctionOnSet(e, {h[j] : j \in S}) = SumFunctionOnSet(f, S)
    BY <1>2, <1>3, <1>5, SumMapped
  <1>7. SumFunction(e) = SumFunctionOnSet(f, S)
    BY <1>4, <1>6 DEF SumFunction
  <1> QED  BY <1>7 DEF LegTime, S, e, f

\* Strict rules that find nothing have seen evidence of everything.
LEMMA StrictEvaluation ==
  ASSUME NEW a \in Assignments, NEW e \in Evidence, Evaluate(a.member, a.duty, e, TRUE) = {}
  PROVE  /\ Legal(a.member, a.duty)
         /\ e.complete /\ e.acclimatizationKnown /\ e.rolesFilled /\ e.visa = {TRUE}
         /\ e.totals # {}
         /\ \A totals \in e.totals :
               /\ \A left \in totals.flightLeft : LegTime(a.duty.legs, Worked(a.duty.legs)) <= left
               /\ \A left \in totals.dutyLeft : a.duty.end - a.duty.start <= left
         /\ \A c \in {"licence", "medical", "recency"} \cup {a.duty.legs[k].type : k \in Worked(a.duty.legs)} :
               \E t \in e.validUntil[c] : t >= a.duty.end
         /\ e.standby + (a.duty.end - a.duty.start) <= 36
  <1> DEFINE duty == a.duty
             hours == LegTime(duty.legs, Worked(duty.legs))
             needed == {"licence", "medical", "recency"} \cup {duty.legs[k].type : k \in Worked(duty.legs)}
  <1>0. /\ duty.legs \in Seq(FlightLeg) /\ duty.start \in Int /\ duty.end \in Int /\ duty \in DutyFile
    BY AssignmentTypes
  <1>1. /\ ValidateAssignment(a.member, duty) = {} /\ History(e, duty, TRUE) = {}
        /\ Credentials(e, duty, TRUE) = {} /\ Nights(e, duty, TRUE) = {}
        /\ StandbySplitAugmentation(e, duty) = {}
        /\ Finding("CREW_COMPLEMENT_INCOMPLETE", ~e.rolesFilled) = {}
        /\ Finding("IMMIGRATION_INFEASIBLE", e.visa = {FALSE}) = {}
        /\ Finding("IMMIGRATION_EVIDENCE_REQUIRED", TRUE /\ e.visa = {}) = {}
    BY DEF Evaluate
  <1>2. /\ e.totals \in SUBSET [flightLeft : SUBSET Int, dutyLeft : SUBSET Int]
        /\ e.validUntil \in [Papers -> SUBSET Int] /\ e.standby \in Nat
        /\ e.visa \in {{}, {TRUE}, {FALSE}}
    BY DEF Evidence
  <1>3. e.rolesFilled /\ e.visa = {TRUE}
    <2>1. ~~e.rolesFilled /\ ~(e.visa = {FALSE}) /\ ~(TRUE /\ e.visa = {})
      BY <1>1, FoundNothing
    <2> QED  BY <1>2, <2>1
  <1>4. e.acclimatizationKnown
    <2>1. Finding("ACCLIMATIZATION_EVIDENCE_REQUIRED", TRUE /\ ~e.acclimatizationKnown) = {}
      BY <1>1 DEF Nights
    <2> QED  BY <2>1, FoundNothing
  <1>5. e.standby + (duty.end - duty.start) <= 36
    <2>1. Finding("STANDBY_PLUS_DUTY_LIMIT", e.standby + duty.end - duty.start > 36) = {}
      BY <1>1 DEF StandbySplitAugmentation
    <2>2. ~(e.standby + duty.end - duty.start > 36)
      BY <2>1, FoundNothing
    <2> QED  BY <1>0, <1>2, <2>2
  <1>6. e.complete /\ e.totals # {} /\ \A totals \in e.totals : Cumulative(totals, duty) = {}
    BY <1>1 DEF History
  <1> HIDE DEF duty
  <1>7. ASSUME NEW totals \in e.totals
        PROVE  /\ \A left \in totals.flightLeft : hours <= left
               /\ \A left \in totals.dutyLeft : duty.end - duty.start <= left
    <2>1. /\ Finding("CUMULATIVE_FLIGHT", \E left \in totals.flightLeft : hours > left) = {}
          /\ Finding("CUMULATIVE_DUTY", \E left \in totals.dutyLeft : duty.end - duty.start > left) = {}
      BY <1>6 DEF Cumulative
    <2>2. hours \in Int
      BY <1>0, LegsAreFinite
    <2> HIDE DEF hours
    <2>3. ~(\E left \in totals.flightLeft : hours > left)
      BY <2>1, FoundNothing
    <2>4. ~(\E left \in totals.dutyLeft : duty.end - duty.start > left)
      BY <2>1, FoundNothing
    <2>5. totals \in [flightLeft : SUBSET Int, dutyLeft : SUBSET Int]
      BY <1>2
    <2>6. totals.flightLeft \in SUBSET Int /\ totals.dutyLeft \in SUBSET Int
      BY <2>5
    <2> QED  BY <1>0, <2>2, <2>3, <2>4, <2>6
  <1> HIDE DEF hours
  <1>8. needed \subseteq Papers
    <2>1. ASSUME NEW k \in Worked(duty.legs)
          PROVE  duty.legs[k].type \in Papers
      <3>1. duty.legs[k] \in ToSet(duty.legs)
        BY DEF Worked, ToSet
      <3> QED  BY <1>0, <3>1 DEF Papers
    <2>2. {"licence", "medical", "recency"} \subseteq Papers
      BY DEF Papers
    <2> QED  BY <2>1, <2>2
  <1>9. ASSUME NEW c \in needed
        PROVE  \E t \in e.validUntil[c] : t >= duty.end
    <2>1. /\ Finding("CREDENTIAL_EVIDENCE_REQUIRED", TRUE /\ \E p \in needed : e.validUntil[p] = {}) = {}
          /\ Finding("CREDENTIAL_EXPIRED", \E p \in needed : \E t \in e.validUntil[p] : t < duty.end) = {}
      BY <1>1 DEF Credentials, duty
    <2> HIDE DEF needed
    <2>2. ~(TRUE /\ \E p \in needed : e.validUntil[p] = {})
      BY <2>1, FoundNothing
    <2>3. ~(\E p \in needed : \E t \in e.validUntil[p] : t < duty.end)
      BY <2>1, FoundNothing
    <2>4. e.validUntil[c] \in SUBSET Int
      BY <1>2, <1>8
    <2>5. PICK t \in e.validUntil[c] : TRUE
      BY <2>2
    <2> QED  BY <1>0, <2>3, <2>4, <2>5
  <1>10. Legal(a.member, duty)
    BY <1>1 DEF Legal, duty
  <1> QED  BY <1>3, <1>4, <1>5, <1>6, <1>7, <1>9, <1>10 DEF duty, hours

\* Evidence that is missing is never enough.
LEMMA MissingIsFound ==
  ASSUME NEW member, NEW duty
  PROVE  Evaluate(member, duty, Missing, TRUE) # {}
  <1>1. Missing.complete = FALSE
    BY DEF Missing
  <1>2. History(Missing, duty, TRUE) = {"AUTHORITATIVE_HISTORY_REQUIRED"}
    BY <1>1 DEF History
  <1> QED  BY <1>2 DEF Evaluate

LEMMA FindingsAreStrict ==
  ASSUME context.eligible = TRUE, context.profile, NEW a \in Assignments, FindingsOf(a) = {}
  PROVE  Earned(a)
  <1>1. UNION {Evaluate(a.member, a.duty, e, TRUE) : e \in IF a.evidence = {} THEN {Missing} ELSE a.evidence} = {}
    BY DEF FindingsOf
  <1>2. a.evidence # {}
    <2> SUFFICES ASSUME a.evidence = {}
                 PROVE  FALSE
      OBVIOUS
    <2>1. UNION {Evaluate(a.member, a.duty, e, TRUE) : e \in {Missing}} = {}
      BY <1>1
    <2>2. Evaluate(a.member, a.duty, Missing, TRUE)
             \in {Evaluate(a.member, a.duty, e, TRUE) : e \in {Missing}}
      OBVIOUS
    <2>3. Evaluate(a.member, a.duty, Missing, TRUE) = {}
      BY <2>1, <2>2, Zenon
    <2> QED  BY <2>3, MissingIsFound
  <1>3. PICK e \in a.evidence : Evaluate(a.member, a.duty, e, TRUE) = {}
    BY ZenonT(30), <1>1, <1>2
  <1>4. /\ a.member \in CrewMember /\ a.duty.legs \in Seq(FlightLeg) /\ a.duty.legs # <<>>
        /\ a.duty.start \in Int /\ a.duty.end \in Int /\ e \in Evidence
    BY AssignmentTypes
  <1> DEFINE duty == a.duty
             member == a.member
             flown == Worked(duty.legs)
             hours == SumFunction([j \in flown |-> duty.legs[j].arr - duty.legs[j].dep])
  <1>5. /\ Legal(member, duty)
        /\ e.complete /\ e.acclimatizationKnown /\ e.rolesFilled /\ e.visa = {TRUE}
        /\ e.totals # {}
        /\ \A totals \in e.totals :
              /\ \A left \in totals.flightLeft : LegTime(duty.legs, flown) <= left
              /\ \A left \in totals.dutyLeft : duty.end - duty.start <= left
        /\ \A c \in {"licence", "medical", "recency"} \cup {duty.legs[k].type : k \in flown} :
              \E t \in e.validUntil[c] : t >= duty.end
        /\ e.standby + (duty.end - duty.start) <= 36
    BY <1>3, <1>4, StrictEvaluation
  <1>6. hours = LegTime(duty.legs, flown)
    BY <1>4, HoursAgree
  <1>7. /\ duty.end - duty.start <= 28
        /\ LegTime(duty.legs, flown) <= 18
        /\ \A t \in member.restEnds : duty.start - t >= 20
        /\ \A k \in flown : duty.legs[k].type \in member.types
        /\ ByDeparture(duty.legs) # <<>> /\ member.at # "" => ByDeparture(duty.legs)[1].from = member.at
    BY <1>4, <1>5, RulesHold
  <1>8. \/ member.at = ""
        \/ \E leg \in ToSet(duty.legs) : /\ leg.from = member.at
                                         /\ \A l \in ToSet(duty.legs) : leg.dep <= l.dep
    <2>1. /\ 1 \in DOMAIN ByDeparture(duty.legs)
          /\ \E k \in DOMAIN duty.legs : /\ ByDeparture(duty.legs)[1] = duty.legs[k]
                                         /\ \A j \in DOMAIN duty.legs : duty.legs[k].dep <= duty.legs[j].dep
      BY <1>4, FirstDeparts
    <2>2. ByDeparture(duty.legs) # <<>>
      BY <2>1
    <2> QED  BY <1>7, <2>1, <2>2 DEF ToSet
  <1>9. Worked(duty.legs) = {j \in DOMAIN a.duty.legs : ~a.duty.legs[j].deadhead}
    BY DEF Worked
  <1> HIDE DEF hours
  <1>10. PICK totals \in e.totals : /\ \A left \in totals.flightLeft : hours <= left
                                    /\ \A left \in totals.dutyLeft : duty.end - duty.start <= left
    BY <1>5, <1>6
  <1>11. hours <= 18
    BY <1>6, <1>7
  <1> HIDE DEF flown, duty, member
  <1>12. \E x \in a.evidence :
        /\ x.complete /\ x.acclimatizationKnown /\ x.rolesFilled /\ x.visa = {TRUE}
        /\ \E y \in x.totals : /\ \A left \in y.flightLeft : hours <= left
                               /\ \A left \in y.dutyLeft : duty.end - duty.start <= left
        /\ \A c \in {"licence", "medical", "recency"} \cup {duty.legs[j].type : j \in flown} :
              \E t \in x.validUntil[c] : t >= duty.end
        /\ x.standby + (duty.end - duty.start) <= 36 /\ hours <= 18 /\ duty.end - duty.start <= 28
        /\ \A j \in flown : duty.legs[j].type \in member.types
        /\ \A t \in member.restEnds : duty.start - t >= 20
        /\ \/ member.at = ""
           \/ \E leg \in ToSet(duty.legs) : /\ leg.from = member.at
                                            /\ \A l \in ToSet(duty.legs) : leg.dep <= l.dep
    BY <1>5, <1>7, <1>8, <1>10, <1>11
  <1> QED  BY <1>9, <1>12 DEF Earned, hours, flown, duty, member

\* A certificate verifies only with what was signed, and was issued for assignments that complete
\* evidence finds legal, for any crew, duties, evidence and artifacts; that the artifact describes
\* those assignments is not said (rules/validation_service.py:93, 133-193).
THEOREM CertificatesAreEarned == CertificateSpec => []CertificateIsEarned
  <1> DEFINE Issued == /\ context \in [eligible : BOOLEAN, profile : BOOLEAN]
                       /\ context.eligible => context.profile
                       /\ response.certificate # {} => response.certificate = {Signed(response.request)}
                       /\ response.certificate = {} => presented = Unshown
             Inv == Issued /\ CertificateIsEarned
  <1>0. /\ CertificateIsEarned <=>
             /\ response.certificate # {} => context.eligible /\ context.profile
             /\ presented.verified => presented.shown = Signed(response.request)
             /\ response.certificate # {} =>
                   \A k \in DOMAIN response.request.assignments : Earned(response.request.assignments[k])
        /\ CertificateIsEarned' <=>
             /\ response'.certificate # {} => context'.eligible /\ context'.profile
             /\ presented'.verified => presented'.shown = Signed(response'.request)
             /\ response'.certificate # {} =>
                   \A k \in DOMAIN response'.request.assignments : Earned(response'.request.assignments[k])
    BY DEF CertificateIsEarned, Earned
  <1>1. CertificateInit => Inv
    BY DEF CertificateInit, CertificateIsEarned, NoAnswer, Unshown
  <1>2. Inv /\ [CertificateNext]_certificateVars => Inv'
    <2> SUFFICES ASSUME Inv, [CertificateNext]_certificateVars
                 PROVE  Inv'
      OBVIOUS
    <2>1. CASE Validate
      <3>1. PICK request \in Requests :
               response' = [request |-> request, valid |-> Findings(request.assignments) = {},
                            certificate |-> IF Findings(request.assignments) = {} /\ context.eligible
                                            THEN {Signed(request)} ELSE {}]
        BY <2>1 DEF Validate
      <3>2. response = NoAnswer /\ context' = context /\ presented' = presented
        BY <2>1 DEF Validate
      <3>3. presented' = Unshown
        BY <3>2 DEF NoAnswer
      <3>4. /\ response'.request = request
            /\ response'.certificate = IF Findings(request.assignments) = {} /\ context.eligible
                                       THEN {Signed(request)} ELSE {}
        BY <3>1
      <3>5. ASSUME response'.certificate # {}, NEW k \in DOMAIN request.assignments
            PROVE  Earned(request.assignments[k])
        <4>1. Findings(request.assignments) = {} /\ context.eligible = TRUE /\ context.profile
          BY <3>4, <3>5
        <4>2. request.assignments[k] \in ToSet(request.assignments)
          BY DEF ToSet
        <4>3. FindingsOf(request.assignments[k]) = {}
          BY <4>1, <4>2 DEF Findings
        <4>4. request.assignments[k] \in Assignments
          BY DEF Requests, Assignments
        <4> QED  BY <4>1, <4>3, <4>4, FindingsAreStrict
      <3>6. CertificateIsEarned'
        <4>1. presented'.verified = FALSE
          BY <3>3 DEF Unshown
        <4>2. response'.certificate # {} => context'.eligible /\ context'.profile
          BY <3>2, <3>4
        <4>3. response'.certificate # {} => \A k \in DOMAIN response'.request.assignments : Earned(response'.request.assignments[k])
          BY <3>4, <3>5
        <4> QED  BY <1>0, <4>1, <4>2, <4>3
      <3> QED  BY <3>2, <3>3, <3>4, <3>6
    <2>2. CASE Verify
      <3>1. response.certificate # {} /\ response.certificate = {Signed(response.request)}
        BY <2>2 DEF Verify
      <3>2. UNCHANGED <<context, response>>
        BY <2>2 DEF Verify
      <3>3. PICK shown : presented' = [shown |-> shown, verified |-> response.certificate = {shown}]
        BY <2>2 DEF Verify
      <3>4. presented'.verified => presented'.shown = Signed(response'.request)
        BY <3>1, <3>2, <3>3
      <3> QED  BY <1>0, <3>1, <3>2, <3>4
    <2>3. CASE UNCHANGED certificateVars
      BY <1>0, <2>3 DEF certificateVars
    <2> QED  BY <2>1, <2>2, <2>3 DEF CertificateNext
  <1>3. Inv => CertificateIsEarned
    OBVIOUS
  <1> QED  BY <1>1, <1>2, <1>3, PTL DEF CertificateSpec
=============================================================================
