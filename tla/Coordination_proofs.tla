------------------------- MODULE Coordination_proofs -------------------------
(***************************************************************************)
(* Proofs about the components that decide under version checks, locks and *)
(* time-outs whether something may be done or counts as done: moves        *)
(* between partitions, durable deployment commands, rules packages,        *)
(* candidates and the boundary with the carrier's systems; and about the   *)
(* crew events that a view is rebuilt from.  They share no state; the      *)
(* theorems of each are about its own specification.                       *)
(***************************************************************************)
EXTENDS PartitionSaga, DeploymentDispatch, RulePackages, Integration, CandidateLifecycle,
        EventStream, FoldLemmas

-----------------------------------------------------------------------------
(* Moves between partitions, for any number of coordinators and transitions. *)

SagaTypeOK ==
  /\ saga \in [status : SagaStatus, version : Nat, reserved : SUBSET Sides, certified : BOOLEAN,
               ack : [Sides -> {"none", "accepted", "refused"}]]
  /\ read \in [Coordinators -> Nat]
  /\ answers \subseteq Sides \X {"accepted", "refused"}
  /\ unlawful \in BOOLEAN

\* Nobody has been asked before the commit, and the acknowledgements are the last answers.
AnswersAreKept ==
  /\ saga.status \in {"requested", "source_reserved", "destination_reserved", "validated", "committing"} =>
       answers = {} /\ saga.ack = [s \in Sides |-> "none"]
  /\ saga.status \in {"partial", "complete"} =>
       answers = {<<s, "accepted">> : s \in {side \in Sides : saga.ack[side] = "accepted"}}
  /\ saga.status = "complete" => \A s \in Sides : saga.ack[s] = "accepted"

\* What the commit began with still holds, and findings end in compensation.
CommitIsSound ==
  /\ saga.status \in {"committing", "partial", "complete"} => saga.reserved = Sides /\ saga.certified
  /\ unlawful => saga.status \in {"compensating", "compensated"}

\* As long as a move is not complete, some partition has not accepted it.
SomebodyIsMissing ==
  saga.status # "complete" => \E s \in Sides : <<s, "accepted">> \notin answers

\* A refusal ends in compensation.
RefusalsAreFinal ==
  (\E s \in Sides : <<s, "refused">> \in answers) => saga.status \in {"compensating", "compensated"}

SagaInv == SagaTypeOK /\ AnswersAreKept /\ CommitIsSound /\ SomebodyIsMissing /\ RefusalsAreFinal

\* The part of the invariant that a step before the commit, or out of compensation, disturbs.
LEMMA AdvanceKept ==
  ASSUME SagaInv, SagaStep, NEW from \in SagaStatus, NEW to \in SagaStatus,
         NEW reserved \in SUBSET Sides, NEW certified \in BOOLEAN,
         saga.status = from,
         saga' = Advanced([saga EXCEPT !.reserved = reserved, !.certified = certified], to),
         unlawful' \in BOOLEAN, unlawful' => unlawful \/ to = "compensating",
         UNCHANGED answers,
         \/ /\ from \in {"requested", "source_reserved", "destination_reserved"}
            /\ to \in {"source_reserved", "destination_reserved", "validated", "compensating"}
         \/ from = "validated" /\ to = "committing" /\ reserved = Sides /\ certified
         \/ from = "compensating" /\ to = "compensated"
  PROVE  SagaInv'
  <1>0. saga \in [status : SagaStatus, version : Nat, reserved : SUBSET Sides, certified : BOOLEAN,
                  ack : [Sides -> {"none", "accepted", "refused"}]]
    BY DEF SagaInv, SagaTypeOK
  <1>1. saga' = [saga EXCEPT !.reserved = reserved, !.certified = certified, !.status = to,
                             !.version = saga.version + 1]
    BY <1>0 DEF Advanced
  <1>2. /\ saga'.status = to /\ saga'.reserved = reserved /\ saga'.certified = certified
        /\ saga'.ack = saga.ack /\ UNCHANGED read
    BY <1>0, <1>1 DEF SagaStep
  <1>3. SagaTypeOK'
    <2>1. saga.version + 1 \in Nat
      BY <1>0
    <2>2. saga' \in [status : SagaStatus, version : Nat, reserved : SUBSET Sides, certified : BOOLEAN,
                     ack : [Sides -> {"none", "accepted", "refused"}]]
      BY <1>0, <1>1, <2>1
    <2> QED  BY <1>2, <2>2 DEF SagaInv, SagaTypeOK
  <1>4. AnswersAreKept'
    BY <1>2 DEF SagaInv, AnswersAreKept
  <1>5. CommitIsSound'
    BY <1>2 DEF SagaInv, CommitIsSound
  <1>6. SomebodyIsMissing' /\ RefusalsAreFinal'
    BY <1>2 DEF SagaInv, SomebodyIsMissing, RefusalsAreFinal
  <1> QED  BY <1>3, <1>4, <1>5, <1>6 DEF SagaInv

LEMMA AcknowledgeKept ==
  ASSUME SagaInv, NEW c \in Coordinators, NEW side \in Sides, NEW agreed \in BOOLEAN,
         AcknowledgePartition(c, side, agreed)
  PROVE  SagaInv'
  <1> DEFINE word == IF agreed THEN "accepted" ELSE "refused"
             ack == [saga.ack EXCEPT ![side] = word]
             to == AfterAnswer(ack, agreed)
  <1>1. /\ saga.status \in {"committing", "partial"}
        /\ saga' = [saga EXCEPT !.ack = ack, !.status = to, !.version = saga.version + 1]
        /\ answers' = answers \cup {<<side, word>>} /\ UNCHANGED <<read, unlawful>>
    BY DEF AcknowledgePartition, SagaStep, Advanced
  <1>2. /\ saga \in [status : SagaStatus, version : Nat, reserved : SUBSET Sides, certified : BOOLEAN,
                     ack : [Sides -> {"none", "accepted", "refused"}]]
        /\ ack \in [Sides -> {"none", "accepted", "refused"}] /\ word \in {"accepted", "refused"}
        /\ to \in {"compensating", "complete", "partial"}
    <2>1. saga \in [status : SagaStatus, version : Nat, reserved : SUBSET Sides, certified : BOOLEAN,
                    ack : [Sides -> {"none", "accepted", "refused"}]]
      BY DEF SagaInv, SagaTypeOK
    <2>2. saga.ack \in [Sides -> {"none", "accepted", "refused"}] /\ word \in {"accepted", "refused"}
      BY <2>1
    <2>3. to \in {"compensating", "complete", "partial"}
      BY DEF AfterAnswer
    <2> QED  BY <2>1, <2>2, <2>3
  <1>3. /\ saga'.status = to /\ saga'.ack = ack /\ saga'.reserved = saga.reserved /\ saga'.certified = saga.certified
    BY <1>1, <1>2
  <1>4. SagaTypeOK'
    <2>1. saga.version + 1 \in Nat /\ to \in SagaStatus
      BY <1>2 DEF SagaStatus
    <2>2. saga' \in [status : SagaStatus, version : Nat, reserved : SUBSET Sides, certified : BOOLEAN,
                     ack : [Sides -> {"none", "accepted", "refused"}]]
      BY <1>1, <1>2, <2>1
    <2>3. answers' \subseteq Sides \X {"accepted", "refused"} /\ UNCHANGED <<read, unlawful>>
      BY <1>1, <1>2 DEF SagaInv, SagaTypeOK
    <2> QED  BY <2>2, <2>3 DEF SagaInv, SagaTypeOK
  <1>5. /\ answers = {<<s, "accepted">> : s \in {d \in Sides : saga.ack[d] = "accepted"}}
        /\ saga.reserved = Sides /\ saga.certified /\ ~unlawful
    BY <1>1, <1>2 DEF SagaInv, AnswersAreKept, CommitIsSound
  <1>6. CommitIsSound'
    BY <1>1, <1>3, <1>5 DEF CommitIsSound
  <1>7. AnswersAreKept'
    <2>1. CASE agreed
      <3>1. answers' = {<<s, "accepted">> : s \in {d \in Sides : ack[d] = "accepted"}}
        BY <1>1, <1>2, <1>5, <2>1
      <3>2. to = "complete" => \A s \in Sides : ack[s] = "accepted"
        BY DEF AfterAnswer
      <3> HIDE DEF to, ack
      <3> QED  BY <1>2, <1>3, <3>1, <3>2 DEF AnswersAreKept
    <2>2. CASE ~agreed
      BY <1>3, <2>2 DEF AnswersAreKept, AfterAnswer
    <2> QED  BY <2>1, <2>2
  <1>8. SomebodyIsMissing'
    <2>1. CASE agreed
      BY <1>1, <1>2, <1>3, <1>5, <2>1 DEF SomebodyIsMissing, AfterAnswer
    <2>2. CASE ~agreed
      BY <1>1, <2>2 DEF SagaInv, SomebodyIsMissing
    <2> QED  BY <2>1, <2>2
  <1>9. RefusalsAreFinal'
    BY <1>1, <1>3, <1>5 DEF RefusalsAreFinal, AfterAnswer
  <1> QED  BY <1>4, <1>6, <1>7, <1>8, <1>9 DEF SagaInv

LEMMA SagaStepKept ==
  ASSUME SagaInv, [SagaNext]_sagaVars
  PROVE  SagaInv'
  <1> USE DEF SagaStatus
  <1>0. saga \in [status : SagaStatus, version : Nat, reserved : SUBSET Sides, certified : BOOLEAN,
                  ack : [Sides -> {"none", "accepted", "refused"}]]
    BY DEF SagaInv, SagaTypeOK
  <1>1. ASSUME NEW c \in Coordinators, ReadSaga(c) PROVE SagaInv'
    BY <1>0, <1>1
    DEF ReadSaga, SagaInv, SagaTypeOK, AnswersAreKept, CommitIsSound, SomebodyIsMissing, RefusalsAreFinal
  <1>2. ASSUME NEW c \in Coordinators, NEW named \in BOOLEAN, ReserveSource(c, named) PROVE SagaInv'
    <2> DEFINE reserved == IF named THEN saga.reserved \cup {"source"} ELSE saga.reserved
    <2>1. saga' = Advanced([saga EXCEPT !.reserved = reserved, !.certified = saga.certified], "source_reserved")
      BY <1>0, <1>2 DEF ReserveSource, Advanced
    <2>2. reserved \in SUBSET Sides
      BY <1>0 DEF Sides
    <2> HIDE DEF reserved
    <2> QED  BY <1>0, <1>2, <2>1, <2>2, AdvanceKept DEF ReserveSource, Check, SagaInv, SagaTypeOK
  <1>3. ASSUME NEW c \in Coordinators, NEW named \in BOOLEAN, ReserveDestination(c, named) PROVE SagaInv'
    <2> DEFINE reserved == IF named THEN saga.reserved \cup {"destination"} ELSE saga.reserved
    <2>1. saga' = Advanced([saga EXCEPT !.reserved = reserved, !.certified = saga.certified], "destination_reserved")
      BY <1>0, <1>3 DEF ReserveDestination, Advanced
    <2>2. reserved \in SUBSET Sides
      BY <1>0 DEF Sides
    <2> HIDE DEF reserved
    <2> QED  BY <1>0, <1>3, <2>1, <2>2, AdvanceKept DEF ReserveDestination, Check, SagaInv, SagaTypeOK
  <1>4. ASSUME NEW c \in Coordinators, NEW findings \in BOOLEAN, NEW certified \in BOOLEAN,
               ValidateMove(c, findings, certified)
        PROVE  SagaInv'
    <2>1. CASE findings
      <3>1. saga' = Advanced([saga EXCEPT !.reserved = saga.reserved, !.certified = saga.certified], "compensating")
        BY <1>0, <1>4, <2>1 DEF ValidateMove, Advanced
      <3> QED  BY <1>0, <1>4, <2>1, <3>1, AdvanceKept DEF ValidateMove, Check
    <2>2. CASE ~findings
      <3>1. saga' = Advanced([saga EXCEPT !.reserved = saga.reserved, !.certified = certified], "validated")
        BY <1>0, <1>4, <2>2 DEF ValidateMove, Advanced
      <3> QED  BY <1>0, <1>4, <2>2, <3>1, AdvanceKept DEF ValidateMove, Check
    <2> QED  BY <2>1, <2>2
  <1>5. ASSUME NEW c \in Coordinators, BeginCommit(c) PROVE SagaInv'
    <2>1. saga' = Advanced([saga EXCEPT !.reserved = saga.reserved, !.certified = saga.certified], "committing")
      BY <1>0, <1>5 DEF BeginCommit, Advanced
    <2> QED  BY <1>0, <1>5, <2>1, AdvanceKept DEF BeginCommit, Check, SagaInv, SagaTypeOK
  <1>6. ASSUME NEW c \in Coordinators, CompleteCompensation(c) PROVE SagaInv'
    <2>1. saga' = Advanced([saga EXCEPT !.reserved = saga.reserved, !.certified = saga.certified], "compensated")
      BY <1>0, <1>6 DEF CompleteCompensation, Advanced
    <2> QED  BY <1>0, <1>6, <2>1, AdvanceKept DEF CompleteCompensation, Check, SagaInv, SagaTypeOK
  <1>7. CASE UNCHANGED sagaVars
    BY <1>7 DEF sagaVars, SagaInv, SagaTypeOK, AnswersAreKept, CommitIsSound, SomebodyIsMissing, RefusalsAreFinal
  <1> QED  BY <1>1, <1>2, <1>3, <1>4, <1>5, <1>6, <1>7, AcknowledgeKept DEF SagaNext

\* A complete move is accepted by both partitions, and a refused or unlawful one is
\* compensated, whatever is answered late, twice or contradictorily.
THEOREM MovesAreAgreed == SagaSpec => []MoveIsAgreed
  <1>1. SagaInit => SagaInv
    <2> SUFFICES ASSUME SagaInit PROVE SagaInv
      OBVIOUS
    <2>1. SagaTypeOK
      <3>1. saga \in [status : SagaStatus, version : Nat, reserved : SUBSET Sides, certified : BOOLEAN,
                      ack : [Sides -> {"none", "accepted", "refused"}]]
        BY DEF SagaInit, SagaStatus
      <3>2. read \in [Coordinators -> Nat] /\ answers \subseteq Sides \X {"accepted", "refused"} /\ unlawful \in BOOLEAN
        BY DEF SagaInit
      <3> QED  BY <3>1, <3>2 DEF SagaTypeOK
    <2>2. AnswersAreKept /\ CommitIsSound /\ RefusalsAreFinal
      BY DEF SagaInit, AnswersAreKept, CommitIsSound, RefusalsAreFinal
    <2>3. SomebodyIsMissing
      BY DEF SagaInit, SomebodyIsMissing, Sides
    <2> QED  BY <2>1, <2>2, <2>3 DEF SagaInv
  <1>2. SagaInv => MoveIsAgreed
    <2> SUFFICES ASSUME SagaInv PROVE MoveIsAgreed
      OBVIOUS
    <2>1. ASSUME saga.status = "complete"
          PROVE  answers = {<<s, "accepted">> : s \in Sides}
      BY <2>1 DEF SagaInv, SagaTypeOK, AnswersAreKept
    <2> QED  BY <2>1 DEF SagaInv, CommitIsSound, SomebodyIsMissing, RefusalsAreFinal, MoveIsAgreed
  <1> QED  BY <1>1, <1>2, SagaStepKept, PTL DEF SagaSpec

-----------------------------------------------------------------------------
(* Durable commands, for any number of commands, processes and failures. *)

DispatchTypeOK ==
  /\ order \in [Orders -> [status : OrderStatus, claimedBy : Dispatchers \cup {Nobody}, due : BOOLEAN]]
  /\ verdict \in Verdict
  /\ revision \in Nat /\ revision >= 1
  /\ report \in [at : {"none", "first", "second"}, status : Verdict, complete : BOOLEAN]

\* Before the first transition nothing has happened; after it the verdict fits the commands.
VerdictFits ==
  /\ revision <= 1 => verdict = "queued" /\ \A o \in Orders : order[o].status = "queued"
  /\ revision > 1 => verdict = Derived(order) /\ (ended <=> verdict = "complete")

\* What a reader has seen complete still is.
ReportHolds ==
  /\ report.complete => verdict = "complete"
  /\ report.at # "none" /\ report.status = "complete" => verdict = "complete"
  /\ report.at = "second" /\ report.status = "complete" => report.complete

DispatchInv == DispatchTypeOK /\ VerdictFits /\ ReportHolds

SameStatus == \A o \in Orders : order'[o].status = order[o].status

\* A verdict looks at nothing but the statuses.
LEMMA DerivedFromStatus ==
  ASSUME DispatchAssumption, SameStatus
  PROVE  Derived(order') = Derived(order) /\ Acked(order') = Acked(order)
  <1>1. Acked(order') = Acked(order) /\ Failed(order') = Failed(order)
    BY DEF DispatchAssumption, SameStatus, Acked, Failed
  <1> QED  BY <1>1 DEF Derived

\* The verdict says complete exactly if the required commands are acknowledged.
LEMMA CompleteIsAcked ==
  ASSUME NEW table
  PROVE  Derived(table) = "complete" <=> Mandatory # {} /\ Acked(table) = Mandatory
  <1>1. Acked(table) = Mandatory => Failed(table) = {}
    BY DEF Acked, Failed
  <1> QED  BY <1>1 DEF Derived

\* Steps that change claims, delays and memories only.
LEMMA ClaimsKept ==
  ASSUME DispatchInv, SameStatus, DispatchTypeOK', UNCHANGED <<verdict, revision, ended, report>>
  PROVE  DispatchInv'
  <1>1. VerdictFits'
    <2>1. Derived(order') = Derived(order)
      BY DerivedFromStatus, DispatchAssumption
    <2>2. verdict' = verdict /\ revision' = revision /\ ended' = ended
      OBVIOUS
    <2> QED  BY <2>1, <2>2 DEF DispatchInv, VerdictFits, SameStatus
  <1>2. ReportHolds'
    BY DEF DispatchInv, ReportHolds
  <1> QED  BY <1>1, <1>2 DEF DispatchInv

\* An acknowledged command stays so, and with it a complete verdict.
LEMMA TransitionKept ==
  ASSUME DispatchInv, NEW o \in Orders, NEW status \in OrderStatus \ {"queued"}, Transition(o, status), UNCHANGED report
  PROVE  DispatchInv'
  <1>1. /\ order[o].status = Predecessor(status) /\ order[o].status \in {"queued", "published"}
        /\ order' = [order EXCEPT ![o].status = status, ![o].claimedBy = Nobody]
        /\ verdict' = Derived(order') /\ ended' = (verdict' = "complete") /\ revision' = revision + 1
    BY DEF Transition, Predecessor
  <1>2. order \in [Orders -> [status : OrderStatus, claimedBy : Dispatchers \cup {Nobody}, due : BOOLEAN]]
    BY DEF DispatchInv, DispatchTypeOK
  <1>3. DispatchTypeOK'
    <2>1. order' \in [Orders -> [status : OrderStatus, claimedBy : Dispatchers \cup {Nobody}, due : BOOLEAN]]
      BY <1>1, <1>2
    <2>2. verdict' \in Verdict
      BY <1>1 DEF Derived, Verdict
    <2> QED  BY <1>1, <2>1, <2>2 DEF DispatchInv, DispatchTypeOK
  <1>4. revision' > 1
    BY <1>1 DEF DispatchInv, DispatchTypeOK
  <1>5. VerdictFits'
    <2>1. Derived(order)' = Derived(order')
      BY DEF Derived, Acked, Failed
    <2>2. verdict' = Derived(order)'
      BY <1>1, <2>1
    <2>3. ended' <=> verdict' = "complete"
      BY <1>1
    <2>4. ~(revision' <= 1)
      BY <1>3, <1>4 DEF DispatchTypeOK
    <2> QED  BY <2>2, <2>3, <2>4 DEF VerdictFits
  <1>6. ASSUME verdict = "complete"
        PROVE  verdict' = "complete"
    <2>1. Mandatory # {} /\ Acked(order) = Mandatory
      BY <1>6, CompleteIsAcked DEF DispatchInv, VerdictFits, DispatchTypeOK
    <2>2. o \notin Mandatory
      BY <1>1, <2>1 DEF Acked
    <2>3. \A m \in Mandatory : order'[m].status = order[m].status
      BY <1>1, <1>2, <2>2, DispatchAssumption DEF DispatchAssumption
    <2>4. Acked(order') = Acked(order)
      BY <2>3 DEF Acked
    <2> QED  BY <1>1, <2>1, <2>4, CompleteIsAcked
  <1>7. ReportHolds'
    BY <1>6 DEF DispatchInv, ReportHolds
  <1> QED  BY <1>3, <1>5, <1>7 DEF DispatchInv

\* Both queries of a reader.
LEMMA ReadsKept ==
  ASSUME DispatchInv, ReadDeployment \/ ReadCommands
  PROVE  DispatchInv'
  <1>1. UNCHANGED <<order, verdict, revision, ended>>
    BY DEF ReadDeployment, ReadCommands
  <1>2. VerdictFits'
    <2>1. Derived(order)' = Derived(order)
      BY <1>1 DEF Derived, Acked, Failed
    <2> QED  BY <1>1, <2>1 DEF DispatchInv, VerdictFits
  <1>3. CASE ReadDeployment
    <2>1. DispatchTypeOK'
      BY <1>1, <1>3 DEF DispatchInv, DispatchTypeOK, ReadDeployment
    <2>2. ReportHolds'
      BY <1>1, <1>3 DEF DispatchInv, DispatchTypeOK, ReportHolds, ReadDeployment
    <2> QED  BY <1>2, <2>1, <2>2 DEF DispatchInv
  <1>4. CASE ReadCommands
    <2>1. Mandatory # {} /\ Acked(order) = Mandatory <=> verdict = "complete"
      <3>1. CASE revision > 1
        BY <3>1, CompleteIsAcked DEF DispatchInv, VerdictFits
      <3>2. CASE revision <= 1
        BY <3>2, DispatchAssumption DEF DispatchInv, VerdictFits, DispatchAssumption, Acked
      <3> QED  BY <3>1, <3>2 DEF DispatchInv, DispatchTypeOK
    <2> DEFINE answer == Mandatory # {} /\ Acked(order) = Mandatory
    <2>2. report' = [report EXCEPT !.at = "second", !.complete = answer]
      BY <1>4 DEF ReadCommands
    <2>3. answer \in BOOLEAN /\ (answer <=> verdict = "complete")
      BY <2>1
    <2> HIDE DEF answer
    <2>4. DispatchTypeOK'
      BY <1>1, <2>2, <2>3 DEF DispatchInv, DispatchTypeOK
    <2>5. report.at # "none" /\ report'.at = "second" /\ report'.status = report.status /\ report'.complete = answer
      BY <1>4, <2>2 DEF ReadCommands, DispatchInv, DispatchTypeOK
    <2>6. ReportHolds'
      BY <1>1, <2>3, <2>5 DEF DispatchInv, ReportHolds
    <2> QED  BY <1>2, <2>4, <2>6 DEF DispatchInv
  <1> QED  BY <1>3, <1>4

\* Initially nothing has been sent, answered or read.
LEMMA DispatchInitHolds == DispatchInit => DispatchInv
  BY DEF DispatchInit, DispatchInv, DispatchTypeOK, VerdictFits, ReportHolds, OrderStatus, Verdict

\* One case per action.
LEMMA DispatchStepKept ==
  ASSUME DispatchInv, [DispatchNext]_dispatchVars
  PROVE  DispatchInv'
  <1>0. DispatchTypeOK
    BY DEF DispatchInv
  <1>1. ASSUME NEW d \in Dispatchers, ClaimCommands(d)
        PROVE  DispatchInv'
    <2>1. SameStatus /\ DispatchTypeOK'
      BY <1>0, <1>1 DEF ClaimCommands, SameStatus, DispatchTypeOK
    <2> QED  BY <1>1, <2>1, ClaimsKept DEF ClaimCommands
  <1>2. ASSUME NEW d \in Dispatchers, NEW o \in Orders, CarrierTakes(d, o)
        PROVE  DispatchInv'
    <2>1. SameStatus /\ DispatchTypeOK'
      BY <1>0, <1>2 DEF CarrierTakes, SameStatus, DispatchTypeOK
    <2> QED  BY <1>2, <2>1, ClaimsKept DEF CarrierTakes
  <1>3. ASSUME NEW d \in Dispatchers, NEW o \in Orders, MarkCommandPublished(d, o)
        PROVE  DispatchInv'
    <2>1. Transition(o, "published") /\ UNCHANGED report
      BY <1>3 DEF MarkCommandPublished
    <2>2. "published" \in OrderStatus \ {"queued"}
      BY DEF OrderStatus
    <2> QED  BY <2>1, <2>2, TransitionKept
  <1>4. ASSUME NEW d \in Dispatchers, NEW o \in Orders, ReleaseClaim(d, o)
        PROVE  DispatchInv'
    <2>1. SameStatus /\ DispatchTypeOK'
      BY ZenonT(30), <1>0, <1>4 DEF ReleaseClaim, SameStatus, DispatchTypeOK
    <2> QED  BY <1>4, <2>1, ClaimsKept DEF ReleaseClaim
  <1>5. ASSUME NEW o \in Orders, DelayEnds(o)
        PROVE  DispatchInv'
    <2>1. SameStatus /\ DispatchTypeOK'
      BY <1>0, <1>5 DEF DelayEnds, SameStatus, DispatchTypeOK
    <2> QED  BY <1>5, <2>1, ClaimsKept DEF DelayEnds
  <1>6. ASSUME NEW d \in Dispatchers, DispatcherCrash(d)
        PROVE  DispatchInv'
    <2>1. SameStatus /\ DispatchTypeOK'
      BY <1>0, <1>6 DEF DispatcherCrash, SameStatus, DispatchTypeOK
    <2> QED  BY <1>6, <2>1, ClaimsKept DEF DispatcherCrash
  <1>7. ASSUME NEW o \in Orders, NEW agreed \in BOOLEAN, AcknowledgeOrder(o, agreed)
        PROVE  DispatchInv'
    BY <1>7, TransitionKept DEF AcknowledgeOrder, OrderStatus
  <1>8. ASSUME NEW o \in Orders, AcknowledgementTimeout(o)
        PROVE  DispatchInv'
    BY <1>8, TransitionKept DEF AcknowledgementTimeout, OrderStatus
  <1>9. CASE UNCHANGED dispatchVars
    <2>1. SameStatus /\ DispatchTypeOK'
      BY <1>0, <1>9 DEF dispatchVars, SameStatus, DispatchTypeOK
    <2> QED  BY <1>9, <2>1, ClaimsKept DEF dispatchVars
  <1> QED
    BY <1>1, <1>2, <1>3, <1>4, <1>5, <1>6, <1>7, <1>8, <1>9, ReadsKept DEF DispatchNext, DispatcherStep

\* The invariant contains what the reader of the verdict relies on.
LEMMA DispatchInvSuffices == DispatchInv => VerdictIsDerived
  <1> SUFFICES ASSUME DispatchInv, revision > 1
               PROVE  VerdictIsDerived
    BY DEF VerdictIsDerived
  <1>1. verdict = Derived(order)
    BY DEF DispatchInv, VerdictFits
  <1>2. Mandatory # {} /\ Acked(order) = Mandatory => Failed(order) = {}
    BY DEF Acked, Failed
  <1>3. verdict = "complete" <=> Mandatory # {} /\ Acked(order) = Mandatory
    BY <1>1, CompleteIsAcked
  <1>4. verdict \in {"partial", "failed"} <=> Failed(order) # {}
    BY <1>1, <1>2 DEF Derived
  <1>5. verdict = "partial" => Acked(order) # {}
    BY <1>1 DEF Derived
  <1> QED  BY <1>3, <1>4, <1>5 DEF DispatchInv, VerdictFits, ReportHolds, VerdictIsDerived

\* The verdict of a deployment, and the one a reader got, fit the commands: complete exactly
\* when every required command is acknowledged, and never taken back
\* (deployment_repository.py:149-164, read_model_repository.py:45-61).
THEOREM VerdictsAreDerived == DispatchSpec => []VerdictIsDerived
  <1>1. DispatchInv /\ [DispatchNext]_dispatchVars => DispatchInv'
    BY DispatchStepKept
  <1>2. DispatchSpec => []DispatchInv
    BY <1>1, DispatchInitHolds, PTL DEF DispatchSpec
  <1> QED  BY <1>2, DispatchInvSuffices, PTL

-----------------------------------------------------------------------------
(* Rules packages, for any number of packages, people and days. *)

PackageRecord ==
  [status : PackageStatus, by : People \cup {Unregistered.by}, from : Nat, until : Nat,
   approvals : SUBSET (People \X Authorities), evidence : {"none", "passed", "failed"}]

\* Approvals are of different people, none of whom submitted the package, for different
\* authorities; who is past approval has both, and who was ever in force has passed.
Governed(p) ==
  /\ \A a, b \in p.approvals : a # b => a[1] # b[1] /\ a[2] # b[2]
  /\ \A a \in p.approvals : a[1] # p.by
  /\ p.status \in {"approved", "shadow", "active", "retired"} =>
       {a[2] : a \in p.approvals} = Authorities
  /\ p.status \in {"active", "retired"} => p.evidence = "passed"

GovernanceInv ==
  /\ package \in [Packages -> PackageRecord]
  /\ \A k \in Packages : Governed(package[k])
  /\ activeId = {} \/ \E k \in Packages : activeId = {k}
  /\ \A k \in Packages : package[k].status = "active" <=> k \in activeId

\* A step that changes one package, which was not and is not in force.
LEMMA PackageKept ==
  ASSUME GovernanceInv, NEW k \in Packages, NEW p \in PackageRecord, Governed(p),
         package[k].status # "active", p.status # "active",
         package' = [package EXCEPT ![k] = p], UNCHANGED activeId
  PROVE  GovernanceInv'
  <1>1. package' \in [Packages -> PackageRecord]
    BY DEF GovernanceInv
  <1>2. /\ package'[k] = p
        /\ \A j \in Packages : j # k => package'[j] = package[j]
    BY DEF GovernanceInv
  <1>3. \A j \in Packages : Governed(package'[j])
    BY <1>2 DEF GovernanceInv
  <1>4. \A j \in Packages : Governed(package[j])' <=> Governed(package'[j])
    BY DEF Governed
  <1>5. \A j \in Packages : package'[j].status = "active" <=> j \in activeId'
    BY <1>2 DEF GovernanceInv
  <1> QED  BY <1>1, <1>3, <1>4, <1>5 DEF GovernanceInv

\* An approval is by somebody new and for an authority that was missing.
LEMMA ApprovalKept ==
  ASSUME GovernanceInv, NEW k \in Packages, NEW actor \in People, NEW authority \in Authorities,
         ApprovePackage(k, actor, authority)
  PROVE  GovernanceInv'
  <1> DEFINE old == package[k]
             approvals == old.approvals \cup {<<actor, authority>>}
             status == IF {a[2] : a \in approvals} = Authorities THEN "approved" ELSE old.status
             p == [old EXCEPT !.approvals = approvals, !.status = status]
  <1>1. /\ old.status \in {"draft", "approved"} /\ actor # old.by
        /\ \A a \in old.approvals : a[1] # actor /\ a[2] # authority
        /\ UNCHANGED activeId
    BY DEF ApprovePackage
  <1>2. package \in [Packages -> PackageRecord] /\ old \in PackageRecord /\ Governed(old)
    BY DEF GovernanceInv
  <1>3. package' = [package EXCEPT ![k] = p]
    BY <1>2 DEF ApprovePackage, PackageRecord
  <1>4. approvals \in SUBSET (People \X Authorities) /\ status \in {"draft", "approved"}
    BY <1>1, <1>2 DEF PackageRecord
  <1>5. p \in PackageRecord
    BY <1>2, <1>4 DEF PackageRecord, PackageStatus
  <1>6. p.approvals = approvals /\ p.status = status /\ p.by = old.by
    BY <1>2 DEF PackageRecord
  <1>7. Governed(p)
    <2>1. \A a, b \in approvals : a # b => a[1] # b[1] /\ a[2] # b[2]
      BY <1>1, <1>2 DEF Governed
    <2>2. \A a \in approvals : a[1] # p.by
      BY <1>1, <1>2, <1>6 DEF Governed
    <2>3. status = "approved" => {a[2] : a \in approvals} = Authorities
      <3>1. CASE old.status = "draft"
        BY <3>1
      <3>2. CASE old.status = "approved"
        <4>1. {a[2] : a \in old.approvals} = Authorities
          BY <1>2, <3>2 DEF Governed
        <4> QED  BY <4>1
      <3> QED  BY <1>1, <3>1, <3>2
    <2> HIDE DEF p, status, approvals
    <2> QED  BY <1>4, <1>6, <2>1, <2>2, <2>3 DEF Governed
  <1> HIDE DEF p
  <1> QED  BY <1>1, <1>3, <1>4, <1>5, <1>6, <1>7, PackageKept

\* What comes into force has passed, and what it replaces retires.
LEMMA TakeOverKept ==
  ASSUME GovernanceInv, NEW k \in Packages, Activate(k) \/ RollbackTo(k)
  PROVE  GovernanceInv'
  <1>1. /\ package[k].status \in {"shadow", "retired"} /\ package[k].evidence = "passed"
        /\ TakesOver(k)
    BY DEF GovernanceInv, Governed, Activate, RollbackTo
  <1>2. /\ activeId' = {k}
        /\ package' = [j \in Packages |-> IF j = k THEN [package[j] EXCEPT !.status = "active"]
                                          ELSE IF j \in activeId THEN [package[j] EXCEPT !.status = "retired"]
                                          ELSE package[j]]
    BY <1>1 DEF TakesOver
  <1>3. ASSUME NEW j \in Packages
        PROVE  /\ package'[j] \in PackageRecord
               /\ package'[j].status = "active" <=> j = k
               /\ Governed(package'[j])
    <2>0. /\ package[j] \in PackageRecord /\ Governed(package[j])
          /\ package[j].status = "active" <=> j \in activeId
      BY DEF GovernanceInv
    <2>1. ASSUME NEW status \in {"active", "retired"}, package[j].evidence = "passed",
                 package[j].status \in {"shadow", "active", "retired"}
          PROVE  LET p == [package[j] EXCEPT !.status = status]
                 IN p \in PackageRecord /\ p.status = status /\ Governed(p)
      BY <2>0, <2>1 DEF PackageRecord, PackageStatus, Governed
    <2>2. CASE j = k
      BY <1>1, <1>2, <2>1, <2>2
    <2>3. CASE j # k /\ j \in activeId
      <3>1. package[j].status = "active" /\ package[j].evidence = "passed"
        BY <2>0, <2>3 DEF Governed
      <3> QED  BY <1>2, <2>1, <2>3, <3>1
    <2>4. CASE j # k /\ j \notin activeId
      BY <1>2, <2>0, <2>4
    <2> QED  BY <2>2, <2>3, <2>4
  <1>4. \A j \in Packages : Governed(package[j])' <=> Governed(package'[j])
    BY DEF Governed
  <1>5. package' \in [Packages -> PackageRecord]
    BY <1>2, <1>3
  <1> QED  BY <1>2, <1>3, <1>4, <1>5 DEF GovernanceInv

LEMMA GovernanceStepKept ==
  ASSUME GovernanceInv, [GovernanceNext]_governanceVars
  PROVE  GovernanceInv'
  <1>0. \A k \in Packages : package[k] \in PackageRecord /\ Governed(package[k])
    BY DEF GovernanceInv
  <1>1. ASSUME NEW k \in Packages, NEW by \in People, NEW from \in 0..LastDay, NEW until \in 1..LastDay + 1,
               Submit(k, by, from, until)
        PROVE  GovernanceInv'
    <2> DEFINE p == [Unregistered EXCEPT !.status = "draft", !.by = by, !.from = from, !.until = until]
    <2>0. from \in Nat /\ until \in Nat
      BY GovernanceAssumption
    <2>1. p \in PackageRecord /\ p.status = "draft" /\ p.approvals = {}
      BY <2>0 DEF PackageRecord, PackageStatus, Unregistered
    <2>2. Governed(p)
      BY <2>1 DEF Governed
    <2> HIDE DEF p
    <2> QED  BY <1>1, <2>1, <2>2, PackageKept DEF Submit, p
  <1>2. ASSUME NEW k \in Packages, BeginShadow(k)
        PROVE  GovernanceInv'
    <2> DEFINE p == [package[k] EXCEPT !.status = "shadow"]
    <2>1. /\ p \in PackageRecord /\ p.status = "shadow"
          /\ p.approvals = package[k].approvals /\ p.by = package[k].by
      BY <1>0 DEF PackageRecord, PackageStatus
    <2>2. package' = [package EXCEPT ![k] = p] /\ package[k].status = "approved" /\ UNCHANGED activeId
      BY <1>2 DEF BeginShadow
    <2> HIDE DEF p
    <2>3. Governed(p)
      BY <1>0, <2>1, <2>2 DEF Governed
    <2> QED  BY <2>1, <2>2, <2>3, PackageKept
  <1>3. ASSUME NEW k \in Packages, NEW passes \in BOOLEAN, RecordShadow(k, passes)
        PROVE  GovernanceInv'
    <2> DEFINE p == [package[k] EXCEPT !.evidence = IF passes THEN "passed" ELSE "failed"]
    <2>1. /\ p \in PackageRecord /\ p.status = package[k].status
          /\ p.approvals = package[k].approvals /\ p.by = package[k].by
      BY <1>0 DEF PackageRecord
    <2>2. package' = [package EXCEPT ![k] = p] /\ package[k].status = "shadow" /\ UNCHANGED activeId
      BY <1>3 DEF RecordShadow
    <2> HIDE DEF p
    <2>3. Governed(p)
      BY <1>0, <2>1, <2>2 DEF Governed
    <2> QED  BY <2>1, <2>2, <2>3, PackageKept
  <1>4. CASE UNCHANGED <<package, activeId>>
    BY <1>4 DEF GovernanceInv, Governed
  <1> QED
    BY <1>1, <1>2, <1>3, <1>4, ApprovalKept, TakeOverKept DEF GovernanceNext, NextDay, governanceVars

\* The rules in force, now or ever, were tried out with success and approved by two people
\* other than the submitter for the two authorities (governance.py:111-185).
THEOREM RulesAreGoverned == GovernanceSpec => []RulesInForceAreGoverned
  <1>1. GovernanceInit => GovernanceInv
    BY DEF GovernanceInit, GovernanceInv, PackageRecord, PackageStatus, Unregistered, Governed
  <1>2. GovernanceInv => RulesInForceAreGoverned
    <2> SUFFICES ASSUME GovernanceInv PROVE RulesInForceAreGoverned
      OBVIOUS
    <2>1. Cardinality(activeId) <= 1
      <3>1. CASE activeId = {}
        BY <3>1, FS_EmptySet
      <3>2. ASSUME NEW k \in Packages, activeId = {k}
            PROVE  Cardinality(activeId) <= 1
        <4>1. Cardinality({k}) = 1
          BY FS_Singleton
        <4> QED  BY <3>2, <4>1
      <3> QED  BY <3>1, <3>2 DEF GovernanceInv
    <2>2. ASSUME NEW k \in Packages, package[k].status \in {"active", "retired"}
          PROVE  /\ package[k].evidence = "passed"
                 /\ \E p, q \in People \ {package[k].by} :
                      p # q /\ package[k].approvals = {<<p, "airline-operations">>,
                                                       <<q, "regulatory-compliance">>}
      <3>1. /\ package[k].evidence = "passed"
            /\ package[k].approvals \in SUBSET (People \X Authorities)
            /\ \A a, b \in package[k].approvals : a # b => a[1] # b[1] /\ a[2] # b[2]
            /\ \A a \in package[k].approvals : a[1] # package[k].by
            /\ {a[2] : a \in package[k].approvals} = Authorities
        BY <2>2 DEF GovernanceInv, Governed, PackageRecord
      <3>2. PICK a \in package[k].approvals : a[2] = "airline-operations"
        BY <3>1 DEF Authorities
      <3>3. PICK b \in package[k].approvals : b[2] = "regulatory-compliance"
        BY <3>1 DEF Authorities
      <3>4. /\ a = <<a[1], "airline-operations">> /\ b = <<b[1], "regulatory-compliance">>
            /\ a[1] \in People /\ b[1] \in People /\ a # b
        BY <3>1, <3>2, <3>3
      <3>5. \A c \in package[k].approvals : c = a \/ c = b
        BY <3>1, <3>2, <3>3 DEF Authorities
      <3>6. package[k].approvals = {<<a[1], "airline-operations">>, <<b[1], "regulatory-compliance">>}
        BY <3>4, <3>5
      <3> QED  BY <3>1, <3>4, <3>6
    <2> QED  BY <2>1, <2>2 DEF RulesInForceAreGoverned, GovernanceInv
  <1> QED  BY <1>1, <1>2, GovernanceStepKept, PTL DEF GovernanceSpec

-----------------------------------------------------------------------------
(* The boundary with the carrier's systems, for any threshold, any number of *)
(* callers and records, and answers in any order.                            *)

BreakerInv ==
  /\ breaker \in Breaker
  /\ thread \in [AdapterCallers -> [at : Steps, counted : Nat]]
  /\ ticks \in Nat
  /\ OpenCircuitCanBeTried

\* A step of one caller leaves the others where they are.
LEMMA CallersStep ==
  ASSUME BreakerInv, NEW c \in AdapterCallers, NEW from, NEW to \in Steps, NEW n \in Nat,
         Goes(c, from, to, n)
  PROVE  /\ thread' \in [AdapterCallers -> [at : Steps, counted : Nat]] /\ ticks' = ticks
         /\ thread[c].at = from /\ thread'[c].at = to
         /\ \A d \in AdapterCallers \ {c} : thread'[d] = thread[d]
  BY DEF BreakerInv, Goes

\* A step that leaves the breaker alone and does not end a write in the middle.
LEMMA ReadsKeep ==
  ASSUME BreakerInv, NEW c \in AdapterCallers, NEW from, from \notin {"dating", "closing"},
         NEW to \in Steps, NEW n \in Nat, Goes(c, from, to, n), UNCHANGED breaker
  PROVE  BreakerInv'
  <1>1. /\ thread' \in [AdapterCallers -> [at : Steps, counted : Nat]] /\ ticks' = ticks
        /\ thread[c].at = from
        /\ \A d \in AdapterCallers \ {c} : thread'[d] = thread[d]
    BY CallersStep
  <1>2. OpenCircuitCanBeTried'
    BY <1>1 DEF BreakerInv, OpenCircuitCanBeTried
  <1> QED  BY <1>1, <1>2 DEF BreakerInv

\* A write of anything but an opening without its time, and of that only before the time is
\* written or before the circuit is closed.
LEMMA WritesKeep ==
  ASSUME BreakerInv, NEW c \in AdapterCallers, NEW from, NEW to \in Steps, NEW new \in Breaker,
         Writes(c, from, to, new),
         \/ to \in {"dating", "closing"} \/ new.state # "open" \/ new.openedAt = {ticks}
         \/ from \notin {"dating", "closing"} /\ new.openedAt = breaker.openedAt
                                              /\ new.state = breaker.state
  PROVE  BreakerInv'
  <1>1. /\ thread' \in [AdapterCallers -> [at : Steps, counted : Nat]] /\ ticks' = ticks
        /\ thread[c].at = from /\ thread'[c].at = to
        /\ \A d \in AdapterCallers \ {c} : thread'[d] = thread[d]
    BY CallersStep DEF Writes
  <1>2. breaker' = new
    BY DEF Writes
  <1>3. OpenCircuitCanBeTried'
    <2>1. CASE to \in {"dating", "closing"}
      BY <1>1, <2>1 DEF OpenCircuitCanBeTried
    <2>2. CASE new.state # "open"
      BY <1>2, <2>2 DEF OpenCircuitCanBeTried
    <2>3. CASE new.openedAt = {ticks}
      <3>1. ticks \in new.openedAt /\ ticks <= ticks
        BY <2>3 DEF BreakerInv
      <3> QED  BY <1>1, <1>2, <3>1 DEF OpenCircuitCanBeTried
    <2>4. CASE /\ from \notin {"dating", "closing"}
               /\ new.openedAt = breaker.openedAt /\ new.state = breaker.state
      BY <1>1, <1>2, <2>4 DEF BreakerInv, OpenCircuitCanBeTried
    <2> QED  BY <2>1, <2>2, <2>3, <2>4
  <1> QED  BY <1>1, <1>2, <1>3 DEF BreakerInv

\* An open circuit has a time from which the reset is counted, or somebody is about to write
\* it or to close the circuit, whatever the callers' reads and writes (adapters/base.py:99-111).
THEOREM OpenCircuitsCanBeTried == BreakerSpec => []OpenCircuitCanBeTried
  <1>1. BreakerInit => BreakerInv
    BY DEF BreakerInit, BreakerInv, OpenCircuitCanBeTried, Breaker, Steps
  <1>2. BreakerInv /\ [BreakerNext]_breakerVars => BreakerInv'
    <2> SUFFICES ASSUME BreakerInv, [BreakerNext]_breakerVars
                 PROVE  BreakerInv'
      OBVIOUS
    <2>a. breaker \in Breaker /\ ticks \in Nat
      BY DEF BreakerInv
    <2>1. CASE ClockTicks
      <3>1. ticks' = ticks + 1 /\ UNCHANGED <<breaker, thread>>
        BY <2>1 DEF ClockTicks
      <3>2. ASSUME NEW t \in breaker.openedAt, t <= ticks
            PROVE  t <= ticks + 1
        BY <2>a, <3>2 DEF Breaker
      <3>3. OpenCircuitCanBeTried'
        BY <3>1, <3>2 DEF BreakerInv, OpenCircuitCanBeTried
      <3> QED  BY <2>a, <3>1, <3>3 DEF BreakerInv
    <2>2. ASSUME NEW c \in AdapterCallers, Allow(c)
          PROVE  BreakerInv'
      <3>1. ASSUME NEW from \in {"idle", "opened", "elapsed"}, NEW to \in Steps, Reads(c, from, to)
            PROVE  BreakerInv'
        BY <3>1, ReadsKeep DEF Reads
      <3>2. [breaker EXCEPT !.state = "half_open"] \in Breaker
            /\ [breaker EXCEPT !.state = "half_open"].state = "half_open"
        BY <2>a DEF Breaker
      <3>3. CASE Writes(c, "half_open", "calling", [breaker EXCEPT !.state = "half_open"])
        BY <3>2, <3>3, WritesKeep DEF Steps
      <3> QED  BY <2>2, <3>1, <3>3 DEF Allow, Steps
    <2>3. ASSUME NEW c \in AdapterCallers, Succeed(c)
          PROVE  BreakerInv'
      <3>1. CASE Writes(c, "calling", "forgotten", [breaker EXCEPT !.failures = 0])
        <4>1. /\ [breaker EXCEPT !.failures = 0] \in Breaker
              /\ [breaker EXCEPT !.failures = 0].openedAt = breaker.openedAt
              /\ [breaker EXCEPT !.failures = 0].state = breaker.state
          BY <2>a DEF Breaker
        <4> QED  BY <3>1, <4>1, WritesKeep DEF Steps
      <3>2. CASE Writes(c, "forgotten", "closing", [breaker EXCEPT !.openedAt = {}])
        <4>1. [breaker EXCEPT !.openedAt = {}] \in Breaker
          BY <2>a DEF Breaker
        <4> QED  BY <3>2, <4>1, WritesKeep DEF Steps
      <3>3. CASE Writes(c, "closing", "idle", [breaker EXCEPT !.state = "closed"])
        <4>1. /\ [breaker EXCEPT !.state = "closed"] \in Breaker
              /\ [breaker EXCEPT !.state = "closed"].state = "closed"
          BY <2>a DEF Breaker
        <4> QED  BY <3>3, <4>1, WritesKeep DEF Steps
      <3> QED  BY <2>3, <3>1, <3>2, <3>3 DEF Succeed
    <2>4. ASSUME NEW c \in AdapterCallers, Fail(c)
          PROVE  BreakerInv'
      <3>1. ASSUME NEW from \in {"failed", "compare"}, NEW to \in Steps, Reads(c, from, to)
            PROVE  BreakerInv'
        BY <3>1, ReadsKeep DEF Reads
      <3>2. CASE Goes(c, "calling", "count", breaker.failures) /\ UNCHANGED breaker
        <4>1. breaker.failures \in Nat
          BY <2>a DEF Breaker
        <4> QED  BY <3>2, <4>1, ReadsKeep DEF Steps
      <3>3. CASE Writes(c, "count", "failed", [breaker EXCEPT !.failures = thread[c].counted + 1])
        <4> DEFINE new == [breaker EXCEPT !.failures = thread[c].counted + 1]
        <4>1. thread[c].counted + 1 \in Nat
          BY DEF BreakerInv
        <4>2. new \in Breaker /\ new.openedAt = breaker.openedAt /\ new.state = breaker.state
          BY <2>a, <4>1 DEF Breaker
        <4> QED  BY <3>3, <4>2, WritesKeep DEF Steps
      <3>4. CASE Writes(c, "opening", "dating", [breaker EXCEPT !.state = "open"])
        <4>1. [breaker EXCEPT !.state = "open"] \in Breaker
          BY <2>a DEF Breaker
        <4> QED  BY <3>4, <4>1, WritesKeep DEF Steps
      <3>5. CASE Writes(c, "dating", "idle", [breaker EXCEPT !.openedAt = {ticks}])
        <4>1. /\ [breaker EXCEPT !.openedAt = {ticks}] \in Breaker
              /\ [breaker EXCEPT !.openedAt = {ticks}].openedAt = {ticks}
          BY <2>a DEF Breaker
        <4> QED  BY <3>5, <4>1, WritesKeep DEF Steps
      <3> QED  BY <2>4, <3>1, <3>2, <3>3, <3>4, <3>5 DEF Fail, Steps
    <2>5. CASE UNCHANGED breakerVars
      BY <2>5 DEF breakerVars, BreakerInv, OpenCircuitCanBeTried
    <2> QED  BY <2>1, <2>2, <2>3, <2>4, <2>5 DEF BreakerNext
  <1>3. BreakerInv => OpenCircuitCanBeTried
    BY DEF BreakerInv
  <1> QED  BY <1>1, <1>2, <1>3, PTL DEF BreakerSpec

AcceptedRecord == [id : RecordIds, aggregate : Aggregates, at : Nat \ {0}, outOfOrder : BOOLEAN]

\* The newest record of an aggregate bounds the others and is among them.
LatestIsNewest ==
  /\ \A j \in DOMAIN accepted : accepted[j].at <= latest[accepted[j].aggregate]
  /\ \A g \in Aggregates : latest[g] = 0 \/ \E j \in DOMAIN accepted : /\ accepted[j].aggregate = g
                                                                      /\ accepted[j].at = latest[g]

IngestionInv ==
  /\ known \in [RecordIds -> SUBSET Digests]
  /\ latest \in [Aggregates -> Nat]
  /\ accepted \in Seq(AcceptedRecord)
  /\ \A j \in DOMAIN accepted : known[accepted[j].id] # {}
  /\ LatestIsNewest
  /\ ProjectionEndsWithNewest

\* What is accepted: a record that was not known, marked if a newer one came before it.
LEMMA AcceptanceKept ==
  ASSUME IngestionInv, NEW r \in RecordIds, NEW digest \in Digests, NEW g \in Aggregates,
         NEW at \in RecordTimes, IngestNew(r, digest, g, at)
  PROVE  IngestionInv'
  <1> DEFINE e == [id |-> r, aggregate |-> g, at |-> at, outOfOrder |-> at < latest[g]]
             m == Len(accepted) + 1
             newest == IF at > latest[g] THEN at ELSE latest[g]
  <1>0. /\ accepted \in Seq(AcceptedRecord) /\ latest \in [Aggregates -> Nat]
        /\ known \in [RecordIds -> SUBSET Digests] /\ at \in Nat \ {0}
    BY IntegrationAssumption DEF IngestionInv
  <1>1. /\ known[r] = {} /\ known' = [known EXCEPT ![r] = {digest}]
        /\ latest' = [latest EXCEPT ![g] = newest]
        /\ accepted' = Append(accepted, e)
    BY DEF IngestNew, Newest
  <1>2. e \in AcceptedRecord /\ e.id = r /\ e.aggregate = g /\ e.at = at /\ e.outOfOrder = (at < latest[g])
    BY <1>0 DEF AcceptedRecord
  <1> HIDE DEF e
  <1>3. /\ accepted' \in Seq(AcceptedRecord) /\ Len(accepted') = m
        /\ accepted'[m] = e /\ \A j \in DOMAIN accepted : accepted'[j] = accepted[j]
        /\ DOMAIN accepted' = DOMAIN accepted \cup {m} /\ DOMAIN accepted = 1..Len(accepted)
        /\ Len(accepted) \in Nat
    BY <1>0, <1>1, <1>2
  <1>4. \A j \in DOMAIN accepted : accepted[j] \in AcceptedRecord
    BY <1>0
  <1>5. /\ latest' \in [Aggregates -> Nat] /\ latest'[g] = newest
        /\ \A h \in Aggregates : latest[h] <= latest'[h] /\ (h # g => latest'[h] = latest[h])
    BY <1>0, <1>1
  <1>6. /\ known' \in [RecordIds -> SUBSET Digests]
        /\ \A j \in DOMAIN accepted' : known'[accepted'[j].id] # {}
    BY ZenonT(30), <1>0, <1>1, <1>2, <1>3, <1>4 DEF IngestionInv, AcceptedRecord
  <1>7. \A j \in DOMAIN accepted : accepted[j].id # r
    BY <1>1 DEF IngestionInv
  <1>8. LatestIsNewest'
    <2>1. \A j \in DOMAIN accepted' : accepted'[j].at <= latest'[accepted'[j].aggregate]
      <3>1. \A j \in DOMAIN accepted : accepted[j].at <= latest'[accepted[j].aggregate]
        BY <1>0, <1>4, <1>5 DEF IngestionInv, LatestIsNewest, AcceptedRecord
      <3>2. e.at <= latest'[e.aggregate]
        BY <1>0, <1>2, <1>5
      <3> QED  BY <1>3, <3>1, <3>2
    <2>2. ASSUME NEW h \in Aggregates, latest'[h] # 0
          PROVE  \E j \in DOMAIN accepted' : accepted'[j].aggregate = h /\ accepted'[j].at = latest'[h]
      <3>1. CASE latest'[h] = latest[h]
        <4>1. PICK j \in DOMAIN accepted : accepted[j].aggregate = h /\ accepted[j].at = latest[h]
          BY <2>2, <3>1 DEF IngestionInv, LatestIsNewest
        <4> QED  BY <1>3, <3>1, <4>1
      <3>2. CASE h = g /\ latest'[g] = at
        BY <1>2, <1>3, <3>2
      <3> QED  BY <1>5, <3>1, <3>2
    <2> QED  BY <2>1, <2>2 DEF LatestIsNewest
  <1>9. \A j, k \in DOMAIN accepted' : accepted'[j].id = accepted'[k].id => j = k
    BY <1>2, <1>3, <1>7 DEF IngestionInv, ProjectionEndsWithNewest
  <1>10. ASSUME NEW j \in DOMAIN accepted', NEW k \in DOMAIN accepted',
                accepted'[j].aggregate = accepted'[k].aggregate, accepted'[j].at > accepted'[k].at,
                ~accepted'[k].outOfOrder
         PROVE  \E n \in k+1..Len(accepted') : /\ accepted'[n].aggregate = accepted'[k].aggregate
                                               /\ ~accepted'[n].outOfOrder
                                               /\ accepted'[n].at >= accepted'[j].at
    <2>0. ASSUME NEW i \in DOMAIN accepted, NEW l \in DOMAIN accepted,
                 accepted[i].aggregate = accepted[l].aggregate, accepted[i].at > accepted[l].at,
                 ~accepted[l].outOfOrder
          PROVE  \E n \in l+1..Len(accepted) : /\ accepted[n].aggregate = accepted[l].aggregate
                                               /\ ~accepted[n].outOfOrder
                                               /\ accepted[n].at >= accepted[i].at
      BY <2>0 DEF IngestionInv, ProjectionEndsWithNewest
    <2>1. CASE k = m
      <3>1. j \in DOMAIN accepted
        BY <1>0, <1>2, <1>3, <1>10, <2>1
      <3>2. accepted[j].at <= latest[g] /\ accepted[j].at \in Nat
        BY <1>2, <1>3, <1>4, <1>10, <2>1, <3>1 DEF IngestionInv, LatestIsNewest, AcceptedRecord
      <3>3. accepted[j].at > at
        BY <1>2, <1>3, <1>10, <2>1, <3>1
      <3>4. at < latest[g]
        BY <1>0, <3>2, <3>3
      <3>5. e.outOfOrder
        BY <1>2, <3>4, Zenon
      <3> QED  BY <1>3, <1>10, <2>1, <3>5
    <2>2. CASE k \in DOMAIN accepted /\ j \in DOMAIN accepted
      <3>1. PICK n \in k+1..Len(accepted) : /\ accepted[n].aggregate = accepted[k].aggregate
                                            /\ ~accepted[n].outOfOrder
                                            /\ accepted[n].at >= accepted[j].at
        BY <1>3, <1>10, <2>0, <2>2
      <3>2. n \in DOMAIN accepted /\ n \in k+1..Len(accepted')
        BY <1>3, <2>2
      <3> QED  BY <1>3, <2>2, <3>1, <3>2
    <2>3. CASE k \in DOMAIN accepted /\ j = m
      <3>0. accepted[k].aggregate = g /\ at > accepted[k].at /\ ~accepted[k].outOfOrder
        BY <1>2, <1>3, <1>10, <2>3
      <3>1. CASE ~e.outOfOrder
        <4>1. m \in k+1..Len(accepted')
          BY <1>3, <2>3
        <4> QED  BY SMTT(30), <1>0, <1>2, <1>3, <2>3, <3>0, <3>1, <4>1
      <3>2. CASE e.outOfOrder
        <4>1. at < latest[g] /\ latest[g] \in Nat
          BY <1>0, <1>2, <3>2
        <4>2. PICK i \in DOMAIN accepted : accepted[i].aggregate = g /\ accepted[i].at = latest[g]
          BY <1>0, <4>1 DEF IngestionInv, LatestIsNewest
        <4>3. accepted[k].at \in Nat
          BY <1>4, <2>3 DEF AcceptedRecord
        <4>4. PICK n \in k+1..Len(accepted) : /\ accepted[n].aggregate = g /\ ~accepted[n].outOfOrder
                                              /\ accepted[n].at >= latest[g]
          BY SMTT(30), <1>0, <2>0, <2>3, <3>0, <4>1, <4>2, <4>3
        <4>5. n \in DOMAIN accepted /\ n \in k+1..Len(accepted')
          BY <1>3, <2>3
        <4>6. accepted[n].at \in Nat
          BY <1>4, <4>5 DEF AcceptedRecord
        <4> QED  BY SMTT(30), <1>0, <1>2, <1>3, <2>3, <3>0, <4>1, <4>4, <4>5, <4>6
      <3> QED  BY <3>1, <3>2
    <2> QED  BY <1>3, <2>1, <2>2, <2>3
  <1>11. ProjectionEndsWithNewest'
    BY <1>9, <1>10 DEF ProjectionEndsWithNewest
  <1> QED  BY <1>3, <1>5, <1>6, <1>8, <1>11 DEF IngestionInv

\* However often and in whatever order records come, each is accepted once, and the newest of an
\* aggregate is the last that is not marked out of order (ingestion.py:87-108).
THEOREM NewestRecordWins == IngestionSpec => []ProjectionEndsWithNewest
  <1>1. IngestionInit => IngestionInv
    BY DEF IngestionInit, IngestionInv, LatestIsNewest, ProjectionEndsWithNewest
  <1>2. IngestionInv /\ [IngestionNext]_ingestionVars => IngestionInv'
    <2> SUFFICES ASSUME IngestionInv, [IngestionNext]_ingestionVars
                 PROVE  IngestionInv'
      OBVIOUS
    <2>1. CASE UNCHANGED <<known, latest, accepted>>
      BY <2>1 DEF IngestionInv, LatestIsNewest, ProjectionEndsWithNewest
    <2> QED
      BY <2>1, AcceptanceKept DEF IngestionNext, ingestionVars, IngestMalformed, IngestCollision,
         IngestDuplicate, IngestUnmappable, DeadLetter
  <1>3. IngestionInv => ProjectionEndsWithNewest
    BY DEF IngestionInv
  <1> QED  BY <1>1, <1>2, <1>3, PTL DEF IngestionSpec

-----------------------------------------------------------------------------
(* Candidates, for any drafts. *)

\* Between two steps of create the artifact is there and its row is not; no incumbent was solved
\* on a version that is yet to come, so that the next one was solved on no earlier version.
CandidateInv ==
  /\ archived \subseteq Drafts
  /\ indexed \subseteq archived /\ writing \subseteq archived
  /\ planVersion \in Nat
  /\ adopted \in Seq(Drafts)
  /\ \A j \in DOMAIN adopted : adopted[j].solved <= planVersion
  /\ UpgradeNeverRegresses

\* What is adopted is the last incumbent's equal or better, and so every earlier one's.
LEMMA AdoptionKept ==
  ASSUME CandidateInv, NEW d \in Drafts, Adopt(d)
  PROVE  CandidateInv'
  <1> DEFINE m == Len(adopted) + 1
  <1>0. adopted \in Seq(Drafts) /\ planVersion \in Nat
    BY DEF CandidateInv
  <1>1. /\ adopted' = Append(adopted, d)
        /\ UNCHANGED <<archived, indexed, writing, planVersion>>
    BY DEF Adopt
  <1>2. /\ adopted' \in Seq(Drafts) /\ Len(adopted) \in Nat
        /\ adopted'[m] = d /\ \A j \in DOMAIN adopted : adopted'[j] = adopted[j] /\ adopted[j] \in Drafts
        /\ DOMAIN adopted' = DOMAIN adopted \cup {m} /\ DOMAIN adopted = 1..Len(adopted)
    BY <1>0, <1>1
  <1>3. d.solved = planVersion
    BY DEF Adopt, Accepts
  <1>4. \A j \in DOMAIN adopted' : adopted'[j].solved <= planVersion'
    BY <1>0, <1>1, <1>2, <1>3 DEF CandidateInv
  <1>5. ASSUME NEW i \in DOMAIN adopted
        PROVE  /\ adopted[i].legal <= d.legal /\ adopted[i].open >= d.open /\ adopted[i].solved <= d.solved
               /\ d.certified /\ d.tier = "tier2"
    <2> DEFINE last == adopted[Len(adopted)]
    <2>1. adopted # <<>> /\ Len(adopted) \in DOMAIN adopted
      BY <1>0, <1>2
    <2>2. /\ d.legal >= last.legal /\ d.open <= last.open
          /\ d.certified /\ d.tier = "tier2"
      BY <2>1 DEF Adopt, Accepts, Last
    <2>3. i # Len(adopted) => adopted[i].legal <= last.legal /\ adopted[i].open >= last.open
      BY <1>2, <2>1 DEF CandidateInv, UpgradeNeverRegresses
    <2>4. /\ adopted[i].legal \in Nat /\ adopted[i].open \in Nat
          /\ last.legal \in Nat /\ last.open \in Nat /\ d.legal \in Nat /\ d.open \in Nat
      BY <1>2, <2>1, CandidateAssumption
    <2>5. adopted[i].solved <= d.solved
      BY <1>3 DEF CandidateInv
    <2> HIDE DEF last
    <2>6. CASE i = Len(adopted)
      <3>1. adopted[i] = last
        BY <2>6 DEF last
      <3> QED  BY <2>2, <2>4, <2>5, <3>1
    <2>7. CASE i # Len(adopted)
      BY <2>2, <2>3, <2>4, <2>5, <2>7
    <2> QED  BY <2>6, <2>7
  <1>6. ASSUME NEW i \in DOMAIN adopted', NEW j \in DOMAIN adopted', i < j
        PROVE  /\ adopted'[i].legal <= adopted'[j].legal /\ adopted'[i].open >= adopted'[j].open
               /\ adopted'[i].solved <= adopted'[j].solved
               /\ adopted'[j].certified /\ adopted'[j].tier = "tier2"
    <2>1. i \in DOMAIN adopted
      BY <1>2, <1>6
    <2>2. CASE j = m
      BY <1>2, <1>5, <2>1, <2>2
    <2>3. CASE j \in DOMAIN adopted
      BY <1>2, <1>6, <2>1, <2>3 DEF CandidateInv, UpgradeNeverRegresses
    <2> QED  BY <1>2, <2>2, <2>3
  <1>7. UpgradeNeverRegresses'
    BY <1>1, <1>6 DEF CandidateInv, UpgradeNeverRegresses
  <1> QED  BY <1>1, <1>2, <1>4, <1>7 DEF CandidateInv

\* A candidate with a row can be read wherever a process died, and from the first incumbent to
\* the last nothing gets worse (candidate_lifecycle.py:79-101, 111-129).
THEOREM UpgradesAreMonotone == CandidateSpec => []UpgradeNeverRegresses
  <1>1. CandidateInit => CandidateInv
    BY DEF CandidateInit, CandidateInv, UpgradeNeverRegresses
  <1>2. CandidateInv /\ [CandidateNext]_candidateVars => CandidateInv'
    <2> SUFFICES ASSUME CandidateInv, [CandidateNext]_candidateVars
                 PROVE  CandidateInv'
      OBVIOUS
    <2>1. ASSUME NEW d \in Drafts, Archive(d)
          PROVE  CandidateInv'
      BY <2>1 DEF Archive, CandidateInv, UpgradeNeverRegresses
    <2>2. ASSUME NEW d \in Drafts, Index(d) \/ CreateFails(d)
          PROVE  CandidateInv'
      BY <2>2 DEF Index, MayIndex, CreateFails, CandidateInv, UpgradeNeverRegresses
    <2>3. CASE StateAdvances
      <3>1. \A j \in DOMAIN adopted : adopted[j].solved \in Nat
        BY CandidateAssumption DEF CandidateInv
      <3> QED  BY <2>3, <3>1 DEF StateAdvances, CandidateInv, UpgradeNeverRegresses
    <2>4. CASE HourPasses \/ UNCHANGED candidateVars
      BY <2>4 DEF HourPasses, candidateVars, CandidateInv, UpgradeNeverRegresses
    <2> QED  BY <2>1, <2>2, <2>3, <2>4, AdoptionKept DEF CandidateNext
  <1>3. CandidateInv => UpgradeNeverRegresses
    BY DEF CandidateInv
  <1> QED  BY <1>1, <1>2, <1>3, PTL DEF CandidateSpec

-----------------------------------------------------------------------------
(* The event stream and its view, for any members, partitions, payloads and *)
(* timestamps.                                                              *)

Values == Payloads \cup Partitions

EventKinds == DutyKinds \cup PayloadKinds
                \cup {"CREW_MEMBER_CREATED", "LEGAL_MOVE_REQUEST", "LEGAL_MOVE_COMPLETED"}

StoredEvent == [id : Nat, seq : Nat, kind : EventKinds, crew : CrewIds, part : Partitions,
                value : Values, at : Nat]

MemberState == [exists : {TRUE}, partition : Values, location : Values, onDuty : BOOLEAN,
                qualifications : SUBSET Values, flights : SUBSET Values, version : Nat]

Views == [CrewIds -> MemberState \cup {Absent}]

LEMMA AppliedIsView ==
  ASSUME NEW v \in Views, NEW e \in StoredEvent
  PROVE  AppliedTo(v, e) \in Views
  <1>0. e.crew \in CrewIds /\ e.part \in Values /\ e.value \in Values
    BY DEF StoredEvent, Values
  <1>1. CASE e.kind = "CREW_MEMBER_CREATED"
    <2>1. NewMember(e) \in MemberState
      BY <1>0 DEF NewMember, MemberState
    <2>2. AppliedTo(v, e) = [v EXCEPT ![e.crew] = NewMember(e)]
      BY <1>1 DEF AppliedTo
    <2> QED  BY <1>0, <2>1, <2>2 DEF Views
  <1>2. CASE e.kind # "CREW_MEMBER_CREATED" /\ ~v[e.crew].exists
    BY <1>2 DEF AppliedTo
  <1>3. CASE e.kind # "CREW_MEMBER_CREATED" /\ v[e.crew].exists
    <2> DEFINE m == Counted(v[e.crew])
    <2>1. v[e.crew] \in MemberState
      BY <1>0, <1>3 DEF Views, Absent
    <2>2. m \in MemberState
      <3>1. ASSUME NEW x \in MemberState
            PROVE  Counted(x) \in MemberState
        <4>1. x.version + 1 \in Nat
          BY DEF MemberState
        <4> QED  BY <4>1 DEF Counted, MemberState
      <3> QED  BY <2>1, <3>1
    <2>3. Effect(m, e) \in MemberState
      <3>1. CASE e.kind = "FLIGHT_ASSIGNED"
        BY <1>0, <2>2, <3>1 DEF Effect, MemberState
      <3>2. CASE e.kind = "SCHEDULE_REJECTED"
        BY <1>0, <2>2, <3>2 DEF Effect, MemberState
      <3>3. CASE e.kind = "QUALIFICATION_ADDED"
        BY <1>0, <2>2, <3>3 DEF Effect, MemberState
      <3>4. CASE e.kind = "DUTY_START"
        BY <2>2, <3>4 DEF Effect, MemberState
      <3>5. CASE e.kind \in {"DUTY_END", "REST_PERIOD_START"}
        BY <2>2, <3>5 DEF Effect, MemberState
      <3>6. CASE e.kind = "LEGAL_MOVE_COMPLETED"
        BY <1>0, <2>2, <3>6 DEF Effect, MemberState
      <3>7. CASE e.kind \in {"CREW_MEMBER_CREATED", "LEGAL_MOVE_REQUEST"}
        BY <2>2, <3>7 DEF Effect
      <3> QED  BY <3>1, <3>2, <3>3, <3>4, <3>5, <3>6, <3>7
               DEF StoredEvent, EventKinds, DutyKinds, PayloadKinds
    <2>4. AppliedTo(v, e) = [v EXCEPT ![e.crew] = Effect(m, e)]
      BY <1>3 DEF AppliedTo
    <2> QED  BY <1>0, <2>3, <2>4 DEF Views
  <1> QED  BY <1>1, <1>2, <1>3

\* An event is applied to its member, and what it does depends on that member's state alone.
LEMMA AppliedLocally ==
  ASSUME NEW v \in Views, NEW w \in Views, NEW e \in StoredEvent, NEW c \in CrewIds
  PROVE  /\ c # e.crew => AppliedTo(v, e)[c] = v[c]
         /\ v[c] = w[c] => AppliedTo(v, e)[c] = AppliedTo(w, e)[c]
  <1>0. e.crew \in CrewIds
    BY DEF StoredEvent
  <1>1. CASE e.kind = "CREW_MEMBER_CREATED"
    <2>1. \A u : AppliedTo(u, e) = [u EXCEPT ![e.crew] = NewMember(e)]
      BY <1>1 DEF AppliedTo
    <2> QED  BY <1>0, <2>1 DEF Views
  <1>2. CASE e.kind # "CREW_MEMBER_CREATED"
    <2> DEFINE new(u) == Effect(Counted(u[e.crew]), e)
    <2>1. ASSUME NEW u \in Views
          PROVE  /\ ~u[e.crew].exists => AppliedTo(u, e) = u
                 /\ u[e.crew].exists => AppliedTo(u, e) = [u EXCEPT ![e.crew] = new(u)]
      BY <1>2 DEF AppliedTo
    <2>2. v[e.crew] = w[e.crew] => new(v) = new(w)
      OBVIOUS
    <2> HIDE DEF new
    <2> QED  BY <1>0, <2>1, <2>2 DEF Views
  <1> QED  BY <1>1, <1>2

\* Neither the place of an event nor its sequence matters to the view.
LEMMA AppliedAlike ==
  ASSUME NEW v, NEW e \in StoredEvent, NEW f \in StoredEvent,
         e.kind = f.kind, e.crew = f.crew, e.part = f.part, e.value = f.value
  PROVE  AppliedTo(v, e) = AppliedTo(v, f)
  <1>1. NewMember(e) = NewMember(f)
    BY DEF NewMember
  <1>2. \A m : Effect(m, e) = Effect(m, f)
    BY DEF Effect
  <1> QED  BY <1>1, <1>2 DEF AppliedTo

-----------------------------------------------------------------------------

\* An event has the number of the place it is at, and counts those of its stream before it.
Earlier(log, k) == {j \in 1..(k - 1) : log[j].part = log[k].part /\ log[j].crew = log[k].crew}

RightLog(log) ==
  /\ log \in Seq(StoredEvent)
  /\ \A k \in DOMAIN log : log[k].id = k /\ log[k].seq = Cardinality(Earlier(log, k)) + 1

LEMMA PlacesAreFinite ==
  ASSUME NEW log \in Seq(StoredEvent), NEW T \in SUBSET DOMAIN log
  PROVE  /\ DOMAIN log = 1..Len(log) /\ Len(log) \in Nat
         /\ IsFiniteSet(T) /\ T \in SUBSET Int
         /\ \A k \in DOMAIN log : log[k] \in StoredEvent /\ k \in Nat
  <1>1. DOMAIN log = 1..Len(log) /\ Len(log) \in Nat
    OBVIOUS
  <1>2. IsFiniteSet(1..Len(log))
    BY <1>1, FS_Interval
  <1>3. IsFiniteSet(T)
    BY <1>1, <1>2, FS_Subset
  <1> QED  BY <1>1, <1>3

\* Within a stream the sequences are in the order of the log.
LEMMA SequencesGrow ==
  ASSUME NEW log, RightLog(log), NEW j \in DOMAIN log, NEW k \in DOMAIN log,
         log[j].part = log[k].part, log[j].crew = log[k].crew, j < k
  PROVE  log[j].seq < log[k].seq
  <1>0. DOMAIN log = 1..Len(log) /\ Len(log) \in Nat
    BY DEF RightLog
  <1>1. Earlier(log, j) \subseteq Earlier(log, k)
    BY <1>0 DEF Earlier
  <1>2. j \in Earlier(log, k) /\ j \notin Earlier(log, j)
    BY <1>0 DEF Earlier
  <1>3. IsFiniteSet(Earlier(log, k))
    <2>1. IsFiniteSet(1..(k - 1))
      BY <1>0, FS_Interval
    <2>2. Earlier(log, k) \subseteq 1..(k - 1)
      BY DEF Earlier
    <2> QED  BY <2>1, <2>2, FS_Subset
  <1>4. /\ Cardinality(Earlier(log, j)) \in Nat /\ Cardinality(Earlier(log, k)) \in Nat
        /\ Cardinality(Earlier(log, j)) < Cardinality(Earlier(log, k))
    <2>1. IsFiniteSet(Earlier(log, j))
      BY <1>1, <1>3, FS_Subset
    <2>2. Cardinality(Earlier(log, j)) \in Nat /\ Cardinality(Earlier(log, k)) \in Nat
      BY <1>3, <2>1, FS_CardinalityType
    <2>3. /\ Cardinality(Earlier(log, j)) <= Cardinality(Earlier(log, k))
          /\ Cardinality(Earlier(log, j)) = Cardinality(Earlier(log, k)) => Earlier(log, j) = Earlier(log, k)
      BY <1>1, <1>3, FS_Subset
    <2> QED  BY <1>2, <2>2, <2>3
  <1> QED  BY <1>4 DEF RightLog

\* What append makes of a right log.
LEMMA AppendedIsRight ==
  ASSUME NEW log, RightLog(log), NEW e \in StoredEvent
  PROVE  LET m == Len(log) + 1
             new == Appended(log, e)
         IN /\ RightLog(new) /\ Len(new) = m /\ DOMAIN new = DOMAIN log \cup {m}
            /\ m \notin DOMAIN log /\ m \in Nat
            /\ \A k \in DOMAIN log : new[k] = log[k]
            /\ new[m].kind = e.kind /\ new[m].crew = e.crew /\ new[m].part = e.part
            /\ new[m].value = e.value
            /\ \A j \in DOMAIN log : log[j].part = e.part /\ log[j].crew = e.crew
                                       => log[j].seq < new[m].seq
  <1> DEFINE m == Len(log) + 1
             stream == {k \in DOMAIN log : log[k].part = e.part /\ log[k].crew = e.crew}
             x == [e EXCEPT !.id = m, !.seq = Cardinality(stream) + 1]
             new == Append(log, x)
  <1>0. /\ log \in Seq(StoredEvent) /\ DOMAIN log = 1..Len(log) /\ Len(log) \in Nat
        /\ \A k \in DOMAIN log : log[k] \in StoredEvent
    BY DEF RightLog
  <1>1. Appended(log, e) = new
    BY DEF Appended, StreamVersion
  <1>2. IsFiniteSet(stream) /\ Cardinality(stream) \in Nat
    <2>1. stream \in SUBSET DOMAIN log
      OBVIOUS
    <2>2. IsFiniteSet(stream)
      BY <1>0, <2>1, PlacesAreFinite
    <2> QED  BY <2>2, FS_CardinalityType
  <1>3. /\ x \in StoredEvent /\ x.id = m /\ x.seq = Cardinality(stream) + 1
        /\ x.kind = e.kind /\ x.crew = e.crew /\ x.part = e.part /\ x.value = e.value
    <2> DEFINE n == Cardinality(stream) + 1
    <2>1. n \in Nat /\ m \in Nat
      BY <1>0, <1>2
    <2> HIDE DEF n, m
    <2>2. x = [e EXCEPT !.id = m, !.seq = n]
      BY DEF n
    <2> HIDE DEF x
    <2>3. /\ x \in StoredEvent /\ x.id = m /\ x.seq = n
          /\ x.kind = e.kind /\ x.crew = e.crew /\ x.part = e.part /\ x.value = e.value
      BY <2>1, <2>2 DEF StoredEvent
    <2> QED  BY <2>3 DEF n
  <1> HIDE DEF x
  <1>4. /\ new \in Seq(StoredEvent) /\ Len(new) = m /\ DOMAIN new = 1..m
        /\ new[m] = x /\ \A k \in DOMAIN log : new[k] = log[k]
    BY <1>0, <1>3
  <1>5. Earlier(new, m) = stream
    BY <1>0, <1>3, <1>4 DEF Earlier
  <1>6. ASSUME NEW k \in DOMAIN log
        PROVE  Earlier(new, k) = Earlier(log, k)
    BY <1>0, <1>4 DEF Earlier
  <1> HIDE DEF stream, new
  <1>7. RightLog(new)
    <2>1. ASSUME NEW k \in DOMAIN new
          PROVE  new[k].id = k /\ new[k].seq = Cardinality(Earlier(new, k)) + 1
      <3>1. CASE k = m
        BY <1>3, <1>4, <1>5, <3>1
      <3>2. CASE k \in DOMAIN log
        BY <1>4, <1>6, <3>2 DEF RightLog
      <3> QED  BY <1>0, <1>4, <3>1, <3>2
    <2> QED  BY <1>4, <2>1 DEF RightLog
  <1>8. m \in DOMAIN new /\ DOMAIN new = DOMAIN log \cup {m} /\ m \notin DOMAIN log /\ m \in Nat
    BY <1>0, <1>4
  <1>9. ASSUME NEW j \in DOMAIN log, log[j].part = e.part, log[j].crew = e.crew
        PROVE  log[j].seq < new[m].seq
    <2>1. new[j] = log[j] /\ new[j].part = new[m].part /\ new[j].crew = new[m].crew /\ j < m
      BY <1>0, <1>3, <1>4, <1>9
    <2>2. new[j].seq < new[m].seq
      BY <1>7, <1>8, <2>1, SequencesGrow
    <2> QED  BY <2>1, <2>2
  <1> QED  BY <1>1, <1>3, <1>4, <1>7, <1>8, <1>9

-----------------------------------------------------------------------------
(* The order of a partition's stream. *)

IsLast(log, T, k) == k \in T /\ \A j \in T : j = k \/ Before(log[j], log[k])

LEMMA LastExists ==
  ASSUME NEW log, RightLog(log), NEW T \in SUBSET DOMAIN log, T # {}
  PROVE  IsLast(log, T, LastOf(log, T))
  <1>0. \A k \in DOMAIN log : log[k].seq \in Nat /\ log[k].at \in Nat /\ log[k].id = k /\ k \in Nat
    BY PlacesAreFinite DEF RightLog, StoredEvent
  <1>1. IsFiniteSet(T) /\ T \in SUBSET Int
    BY PlacesAreFinite DEF RightLog
  <1>2. PICK i \in T : \A j \in T : log[j].seq <= log[i].seq
    <2> DEFINE f == [k \in DOMAIN log |-> log[k].seq]
    <2>1. \A k \in T : f[k] \in Int /\ f[k] = log[k].seq
      BY <1>0
    <2> HIDE DEF f
    <2>2. PICK i \in T : \A j \in T : f[j] <= f[i]
      BY <1>1, <2>1, GreatestBy
    <2> QED  BY <2>1, <2>2
  <1>3. PICK h \in T : /\ log[h].seq = log[i].seq
                       /\ \A j \in T : log[j].seq = log[i].seq => log[j].at <= log[h].at
    <2> DEFINE U == {k \in T : log[k].seq = log[i].seq}
               f == [k \in DOMAIN log |-> log[k].at]
    <2>1. IsFiniteSet(U) /\ U # {}
      BY <1>1, FS_Subset
    <2>2. \A k \in U : f[k] \in Int /\ f[k] = log[k].at
      BY <1>0
    <2>3. PICK h \in U : \A j \in U : f[j] <= f[h]
      <3> HIDE DEF f, U
      <3> QED  BY <2>1, <2>2, GreatestBy
    <2> QED  BY <2>2, <2>3
  <1>4. PICK k \in T : /\ log[k].seq = log[i].seq /\ log[k].at = log[h].at
                       /\ \A j \in T : log[j].seq = log[i].seq /\ log[j].at = log[h].at => j <= k
    <2> DEFINE U == {m \in T : log[m].seq = log[i].seq /\ log[m].at = log[h].at}
    <2>1. IsFiniteSet(U) /\ U # {} /\ U \in SUBSET Int
      BY <1>1, <1>3, FS_Subset
    <2>2. PICK n \in U : \A m \in U : m <= n
      <3> HIDE DEF U
      <3> QED  BY <2>1, FiniteMaximum
    <2> QED  BY <2>2
  <1>5. ASSUME NEW j \in T
        PROVE  j = k \/ Before(log[j], log[k])
    <2>1. log[j].seq <= log[k].seq /\ (log[j].seq = log[k].seq => log[j].at <= log[k].at)
      BY <1>2, <1>3, <1>4
    <2>2. log[j].seq = log[k].seq /\ log[j].at = log[k].at => j <= k
      BY <1>4
    <2>3. /\ log[j].seq \in Nat /\ log[k].seq \in Nat /\ log[j].at \in Nat /\ log[k].at \in Nat
          /\ log[j].id = j /\ log[k].id = k /\ j \in Nat /\ k \in Nat
      BY <1>0
    <2> QED  BY <2>1, <2>2, <2>3 DEF Before
  <1> QED  BY <1>5 DEF LastOf, IsLast

LEMMA LastIsOne ==
  ASSUME NEW log, RightLog(log), NEW T \in SUBSET DOMAIN log, NEW k, IsLast(log, T, k)
  PROVE  LastOf(log, T) = k
  <1>1. IsLast(log, T, LastOf(log, T))
    BY LastExists DEF IsLast
  <1>2. \A n \in DOMAIN log : log[n].seq \in Nat /\ log[n].at \in Nat /\ log[n].id \in Nat
    BY PlacesAreFinite DEF RightLog, StoredEvent
  <1> DEFINE n == LastOf(log, T)
  <1>3. n \in DOMAIN log /\ k \in DOMAIN log
        /\ (n = k \/ (Before(log[n], log[k]) /\ Before(log[k], log[n])))
    BY <1>1 DEF IsLast
  <1> HIDE DEF n
  <1>4. n = k
    BY <1>2, <1>3 DEF Before
  <1> QED  BY <1>4 DEF n

-----------------------------------------------------------------------------
(* Rebuilding a view from some of a log's events. *)

IsRebuild(log, T, g) ==
  g = [s \in SUBSET T |-> IF s = {} THEN EmptyView
                          ELSE AppliedTo(g[s \ {LastOf(log, s)}], log[LastOf(log, s)])]

LEMMA RebuildExists ==
  ASSUME NEW log, RightLog(log), NEW T \in SUBSET DOMAIN log
  PROVE  \E g \in [SUBSET T -> Views] : IsRebuild(log, T, g)
  <1> DEFINE last == [s \in SUBSET T |-> LastOf(log, s)]
             step == [a \in T \X Views |-> AppliedTo(a[2], log[a[1]])]
  <1>1. IsFiniteSet(T)
    BY PlacesAreFinite DEF RightLog
  <1>2. \A s \in SUBSET T : s # {} => last[s] \in s
    BY LastExists DEF IsLast
  <1>3. ASSUME NEW x \in T, NEW v \in Views
        PROVE  step[<<x, v>>] = AppliedTo(v, log[x]) /\ step[<<x, v>>] \in Views
    <2>1. log[x] \in StoredEvent
      BY PlacesAreFinite DEF RightLog
    <2> QED  BY <2>1, AppliedIsView
  <1>4. EmptyView \in Views
    BY DEF EmptyView, Views
  <1>5. PICK g \in [SUBSET T -> Views] : Folds(T, EmptyView, last, step, g)
    <2> HIDE DEF last, step
    <2> QED  BY <1>1, <1>2, <1>3, <1>4, FoldsExist
  <1>6. ASSUME NEW s \in SUBSET T
        PROVE  g[s] = IF s = {} THEN EmptyView ELSE AppliedTo(g[s \ {LastOf(log, s)}], log[LastOf(log, s)])
    <2>1. CASE s = {}
      BY <1>5, <2>1 DEF Folds
    <2>2. CASE s # {}
      <3>1. last[s] \in T /\ last[s] = LastOf(log, s) /\ g[s \ {last[s]}] \in Views
        BY <1>2, <2>2
      <3>2. g[s] = step[<<last[s], g[s \ {last[s]}]>>]
        BY <1>5, <2>2 DEF Folds
      <3> HIDE DEF last, step
      <3>3. g[s] = AppliedTo(g[s \ {last[s]}], log[last[s]])
        BY <1>3, <3>1, <3>2
      <3> QED  BY <2>2, <3>1, <3>3
    <2> QED  BY <2>1, <2>2
  <1>7. IsRebuild(log, T, g)
    BY <1>6 DEF IsRebuild
  <1> QED  BY <1>7

LEMMA RebuiltIsFold ==
  ASSUME NEW log, NEW T
  PROVE  Rebuilt(log, T) = (CHOOSE g : IsRebuild(log, T, g))[T]
  BY DEF Rebuilt, MapThenFoldSet, IsRebuild

\* The event that is applied last can be taken off.
LEMMA RebuiltUnfolds ==
  ASSUME NEW log, RightLog(log), NEW T \in SUBSET DOMAIN log
  PROVE  /\ Rebuilt(log, T) \in Views
         /\ T = {} => Rebuilt(log, T) = EmptyView
         /\ T # {} => Rebuilt(log, T) = AppliedTo(Rebuilt(log, T \ {LastOf(log, T)}), log[LastOf(log, T)])
  <1> DEFINE fold(S) == CHOOSE g : IsRebuild(log, S, g)
  <1>1. PICK table \in [SUBSET DOMAIN log -> Views] : IsRebuild(log, DOMAIN log, table)
    BY RebuildExists
  <1>2. ASSUME NEW S \in SUBSET DOMAIN log
        PROVE  Rebuilt(log, S) = table[S]
    <2>1. IsRebuild(log, S, fold(S))
      BY RebuildExists
    <2>2. Rebuilt(log, S) = fold(S)[S]
      BY RebuiltIsFold
    <2> DEFINE h == fold(S)
    <2> HIDE DEF fold, h
    <2>3. h[{}] = table[{}]
      BY <1>1, <2>1 DEF IsRebuild, h
    <2>4. ASSUME NEW s \in SUBSET S, s # {}
          PROVE  \E x \in s : h[s \ {x}] = table[s \ {x}] => h[s] = table[s]
      <3> DEFINE x == LastOf(log, s)
      <3>1. x \in s
        BY <2>4, LastExists DEF IsLast
      <3>2. h[s] = AppliedTo(h[s \ {x}], log[x]) /\ table[s] = AppliedTo(table[s \ {x}], log[x])
        BY <1>1, <2>1, <2>4 DEF IsRebuild, h
      <3> HIDE DEF x
      <3> QED  BY <3>1, <3>2
    <2>5. IsFiniteSet(S)
      BY PlacesAreFinite DEF RightLog
    <2>6. \A s \in SUBSET S : h[s] = table[s]
      <3>1. AgreeStepwise(S, h, table)
        BY <2>3, <2>4 DEF AgreeStepwise
      <3> QED  BY <2>5, <3>1, FoldsAgree
    <2> QED  BY <2>2, <2>6 DEF h
  <1>3. Rebuilt(log, T) = table[T]
    BY <1>2
  <1>4. CASE T = {}
    BY <1>1, <1>3, <1>4 DEF IsRebuild
  <1>5. CASE T # {}
    <2> DEFINE x == LastOf(log, T)
    <2>1. Rebuilt(log, T \ {x}) = table[T \ {x}]
      BY <1>2
    <2>2. table[T] = AppliedTo(table[T \ {x}], log[x])
      BY <1>1, <1>5 DEF IsRebuild
    <2> QED  BY <1>3, <1>5, <2>1, <2>2
  <1> QED  BY <1>3, <1>4, <1>5

\* A longer log makes no difference to the events of the shorter one.
LEMMA RebuiltStays ==
  ASSUME NEW log, RightLog(log), NEW new, RightLog(new),
         DOMAIN log \subseteq DOMAIN new, \A k \in DOMAIN log : new[k] = log[k],
         NEW T \in SUBSET DOMAIN log
  PROVE  Rebuilt(new, T) = Rebuilt(log, T)
  <1> DEFINE g == [s \in SUBSET T |-> Rebuilt(log, s)]
             h == [s \in SUBSET T |-> Rebuilt(new, s)]
  <1>1. IsFiniteSet(T)
    BY PlacesAreFinite DEF RightLog
  <1>2. g[{}] = h[{}]
    BY RebuiltUnfolds
  <1>3. ASSUME NEW s \in SUBSET T, s # {}
        PROVE  \E x \in s : g[s \ {x}] = h[s \ {x}] => g[s] = h[s]
    <2> DEFINE x == LastOf(log, s)
    <2>1. IsLast(log, s, x) /\ x \in s
      BY <1>3, LastExists DEF IsLast
    <2>2. IsLast(new, s, x)
      BY <2>1 DEF IsLast
    <2>3. LastOf(new, s) = x
      BY <2>2, LastIsOne
    <2>4. g[s] = AppliedTo(g[s \ {x}], log[x])
      BY <1>3, RebuiltUnfolds
    <2>5. h[s] = AppliedTo(h[s \ {x}], new[x])
      BY <1>3, <2>3, RebuiltUnfolds
    <2> HIDE DEF x, g, h
    <2> QED  BY <2>1, <2>4, <2>5
  <1>4. g[T] = h[T]
    <2>1. \A s \in SUBSET T : g[s] = h[s]
      <3> HIDE DEF g, h
      <3>1. AgreeStepwise(T, g, h)
        BY <1>2, <1>3 DEF AgreeStepwise
      <3> QED  BY <1>1, <3>1, FoldsAgree
    <2> QED  BY <2>1
  <1> QED  BY <1>4

PlacesOf(log, c) == {k \in DOMAIN log : log[k].crew = c}

\* For a member only its own events count.
LEMMA OwnEventsCount ==
  ASSUME NEW log, RightLog(log), NEW T \in SUBSET DOMAIN log, NEW c \in CrewIds
  PROVE  Rebuilt(log, T)[c] = Rebuilt(log, T \cap PlacesOf(log, c))[c]
  <1> DEFINE own(s) == s \cap PlacesOf(log, c)
             g == [s \in SUBSET T |-> Rebuilt(log, s)[c]]
             h == [s \in SUBSET T |-> Rebuilt(log, own(s))[c]]
  <1>1. IsFiniteSet(T)
    BY PlacesAreFinite DEF RightLog
  <1>2. g[{}] = h[{}]
    OBVIOUS
  <1>3. ASSUME NEW s \in SUBSET T, s # {}
        PROVE  \E x \in s : g[s \ {x}] = h[s \ {x}] => g[s] = h[s]
    <2> DEFINE x == LastOf(log, s)
    <2>1. IsLast(log, s, x) /\ x \in s /\ log[x] \in StoredEvent
      BY <1>3, LastExists, PlacesAreFinite DEF IsLast, RightLog
    <2>2. /\ g[s] = AppliedTo(Rebuilt(log, s \ {x}), log[x])[c]
          /\ g[s \ {x}] = Rebuilt(log, s \ {x})[c] /\ h[s \ {x}] = Rebuilt(log, own(s \ {x}))[c]
          /\ h[s] = Rebuilt(log, own(s))[c]
      BY <1>3, RebuiltUnfolds
    <2>3. Rebuilt(log, s \ {x}) \in Views /\ Rebuilt(log, own(s \ {x})) \in Views
      BY RebuiltUnfolds
    <2>4. CASE log[x].crew # c
      <3>1. own(s \ {x}) = own(s)
        BY <2>4 DEF PlacesOf
      <3>2. g[s] = g[s \ {x}]
        BY <2>1, <2>2, <2>3, <2>4, AppliedLocally
      <3> QED  BY <2>1, <2>2, <3>1, <3>2
    <2>5. CASE log[x].crew = c
      <3>1. IsLast(log, own(s), x)
        BY <2>1, <2>5 DEF IsLast, PlacesOf
      <3>2. LastOf(log, own(s)) = x /\ own(s) # {}
        BY <3>1, LastIsOne DEF IsLast
      <3>3. own(s) \ {x} = own(s \ {x})
        OBVIOUS
      <3>4. Rebuilt(log, own(s)) = AppliedTo(Rebuilt(log, own(s \ {x})), log[x])
        BY <3>2, <3>3, RebuiltUnfolds
      <3>5. g[s \ {x}] = h[s \ {x}] => g[s] = h[s]
        <4> HIDE DEF g, h, own, x
        <4> QED  BY <2>1, <2>2, <2>3, <3>4, AppliedLocally
      <3> QED  BY <2>1, <3>5
    <2> QED  BY <2>4, <2>5
  <1>4. g[T] = h[T]
    <2>1. \A s \in SUBSET T : g[s] = h[s]
      <3> HIDE DEF g, h
      <3>1. AgreeStepwise(T, g, h)
        BY <1>2, <1>3 DEF AgreeStepwise
      <3> QED  BY <1>1, <3>1, FoldsAgree
    <2> QED  BY <2>1
  <1> QED  BY <1>4

-----------------------------------------------------------------------------
(* What is kept with every event: the view of a member whose events are all *)
(* in one partition is what its events give, in the order of their stream.  *)

ViewKept(log, view) ==
  \A c \in CrewIds, p \in Partitions :
     (\A k \in PlacesOf(log, c) : log[k].part = p) => view[c] = Rebuilt(log, PlacesOf(log, c))[c]

StreamRight(log, view) == RightLog(log) /\ view \in Views /\ ViewKept(log, view)

LEMMA AppendKeepsView ==
  ASSUME NEW log, NEW view, StreamRight(log, view), NEW e \in StoredEvent
  PROVE  StreamRight(Appended(log, e), AppliedTo(view, e))
  <1> DEFINE new == Appended(log, e)
             m == Len(log) + 1
             own(c) == PlacesOf(log, c)
  <1>0. RightLog(log) /\ view \in Views /\ ViewKept(log, view)
    BY DEF StreamRight
  <1>1. /\ RightLog(new) /\ DOMAIN new = DOMAIN log \cup {m} /\ m \notin DOMAIN log
        /\ \A k \in DOMAIN log : new[k] = log[k]
        /\ new[m].kind = e.kind /\ new[m].crew = e.crew /\ new[m].part = e.part
        /\ new[m].value = e.value
        /\ \A j \in DOMAIN log : log[j].part = e.part /\ log[j].crew = e.crew => log[j].seq < new[m].seq
    BY <1>0, AppendedIsRight
  <1> HIDE DEF new, m
  <1>2. new[m] \in StoredEvent
    BY <1>1, PlacesAreFinite DEF RightLog
  <1>3. AppliedTo(view, e) \in Views
    BY <1>0, AppliedIsView
  <1>4. ASSUME NEW c \in CrewIds, NEW p \in Partitions, \A k \in PlacesOf(new, c) : new[k].part = p
        PROVE  AppliedTo(view, e)[c] = Rebuilt(new, PlacesOf(new, c))[c]
    <2>0. own(c) \in SUBSET DOMAIN log /\ own(c) \subseteq PlacesOf(new, c)
      BY <1>1 DEF PlacesOf
    <2>1. Rebuilt(new, own(c)) = Rebuilt(log, own(c)) /\ Rebuilt(log, own(c)) \in Views
      <3>1. DOMAIN log \subseteq DOMAIN new
        BY <1>1
      <3> HIDE DEF own
      <3>2. Rebuilt(new, own(c)) = Rebuilt(log, own(c))
        BY <1>0, <1>1, <2>0, <3>1, RebuiltStays
      <3>3. Rebuilt(log, own(c)) \in Views
        BY <1>0, <2>0, RebuiltUnfolds
      <3> QED  BY <3>2, <3>3
    <2>2. view[c] = Rebuilt(log, own(c))[c]
      <3>1. \A k \in own(c) : log[k].part = p
        BY <1>1, <1>4, <2>0
      <3> QED  BY <1>0, <3>1 DEF ViewKept
    <2>3. CASE c # e.crew
      <3>1. PlacesOf(new, c) = own(c)
        BY <1>1, <2>3 DEF PlacesOf
      <3>2. AppliedTo(view, e)[c] = view[c]
        BY <1>0, <2>3, AppliedLocally
      <3> QED  BY <2>1, <2>2, <3>1, <3>2
    <2>4. CASE c = e.crew
      <3>1. PlacesOf(new, c) = own(c) \cup {m} /\ m \notin own(c)
        BY <1>1, <2>4 DEF PlacesOf
      <3>2. IsLast(new, PlacesOf(new, c), m)
        <4>1. ASSUME NEW j \in own(c)
              PROVE  Before(new[j], new[m])
          <5>1. new[j] = log[j] /\ log[j].crew = e.crew /\ log[j].part = e.part
            BY <1>1, <1>4, <2>0, <2>4, <3>1 DEF PlacesOf
          <5> QED  BY <1>1, <2>0, <5>1 DEF Before
        <4> QED  BY <3>1, <4>1 DEF IsLast
      <3>3. PlacesOf(new, c) \in SUBSET DOMAIN new
        BY DEF PlacesOf
      <3>4. LastOf(new, PlacesOf(new, c)) = m
        BY <1>1, <3>2, <3>3, LastIsOne
      <3>5. Rebuilt(new, PlacesOf(new, c)) = AppliedTo(Rebuilt(new, PlacesOf(new, c) \ {m}), new[m])
        BY <1>1, <3>1, <3>3, <3>4, RebuiltUnfolds
      <3>6. PlacesOf(new, c) \ {m} = own(c)
        BY <3>1
      <3> HIDE DEF own
      <3>7. Rebuilt(new, PlacesOf(new, c)) = AppliedTo(Rebuilt(log, own(c)), e)
        <4>1. \A v : AppliedTo(v, new[m]) = AppliedTo(v, e)
          BY <1>1, <1>2, AppliedAlike
        <4> QED  BY <2>1, <3>5, <3>6, <4>1
      <3>8. AppliedTo(view, e)[c] = AppliedTo(Rebuilt(log, own(c)), e)[c]
        BY <1>0, <2>1, <2>2, AppliedLocally
      <3> QED  BY <3>7, <3>8
    <2> QED  BY <2>3, <2>4
  <1>5. ViewKept(new, AppliedTo(view, e))
    BY <1>4 DEF ViewKept
  <1> QED  BY <1>1, <1>3, <1>5 DEF StreamRight, new

\* Then a partition that has all events of a member gives the view of it.
LEMMA ReplayGivesView ==
  ASSUME NEW log, NEW view, StreamRight(log, view), NEW c \in CrewIds, NEW p \in Partitions,
         \A k \in DOMAIN log : log[k].crew = c => log[k].part = p
  PROVE  Replay(log, p)[c] = view[c]
  <1>1. PartitionStream(log, p) \in SUBSET DOMAIN log
    BY DEF PartitionStream
  <1>2. PartitionStream(log, p) \cap PlacesOf(log, c) = PlacesOf(log, c)
    BY DEF PartitionStream, PlacesOf
  <1>3. Replay(log, p)[c] = Rebuilt(log, PlacesOf(log, c))[c]
    BY <1>1, <1>2, OwnEventsCount DEF Replay, StreamRight
  <1>4. view[c] = Rebuilt(log, PlacesOf(log, c))[c]
    BY DEF StreamRight, ViewKept, PlacesOf
  <1> QED  BY <1>3, <1>4

-----------------------------------------------------------------------------
(* Folds over the places of a log, in their order. *)

RightLogs == {log \in Seq(StoredEvent) : RightLog(log)}

LEMMA LogsGrow ==
  ASSUME NEW log \in RightLogs, NEW e \in StoredEvent
  PROVE  Appended(log, e) \in RightLogs
  <1>1. RightLog(log)
    BY DEF RightLogs
  <1>2. RightLog(Appended(log, e))
    BY <1>1, AppendedIsRight
  <1> QED  BY <1>2 DEF RightLogs, RightLog

IsReading(log, g) ==
  g = [s \in SUBSET DOMAIN log |-> IF s = {} THEN <<>> ELSE Appended(g[s \ {Max(s)}], log[Max(s)])]

LEMMA DeserializedIsFold ==
  ASSUME NEW log
  PROVE  Deserialized(log) = (CHOOSE g : IsReading(log, g))[DOMAIN log]
  BY DEF Deserialized, FoldLeft, MapThenFoldSet, IsReading

LEMMA MaxIsLast ==
  ASSUME NEW log, RightLog(log), NEW T \in SUBSET DOMAIN log, T # {}
  PROVE  Max(T) \in T /\ \A k \in T : k <= Max(T)
  BY PlacesAreFinite, MaxIsGreatest DEF RightLog

LEMMA ReadingExists ==
  ASSUME NEW log, RightLog(log)
  PROVE  \E g \in [SUBSET DOMAIN log -> RightLogs] : IsReading(log, g)
  <1> DEFINE last == [s \in SUBSET DOMAIN log |-> Max(s)]
             step == [a \in (DOMAIN log) \X RightLogs |-> Appended(a[2], log[a[1]])]
  <1>1. IsFiniteSet(DOMAIN log)
    BY PlacesAreFinite DEF RightLog
  <1>2. \A s \in SUBSET DOMAIN log : s # {} => last[s] \in s
    BY MaxIsLast
  <1>3. ASSUME NEW x \in DOMAIN log, NEW l \in RightLogs
        PROVE  step[<<x, l>>] = Appended(l, log[x]) /\ step[<<x, l>>] \in RightLogs
    <2>1. log[x] \in StoredEvent
      BY PlacesAreFinite DEF RightLog
    <2> QED  BY <2>1, LogsGrow
  <1>4. <<>> \in RightLogs
    BY DEF RightLogs, RightLog
  <1>5. PICK g \in [SUBSET DOMAIN log -> RightLogs] : Folds(DOMAIN log, <<>>, last, step, g)
    <2> DEFINE places == DOMAIN log
               empty == <<>>
    <2>1. /\ IsFiniteSet(places) /\ empty \in RightLogs
          /\ \A s \in SUBSET places : s # {} => last[s] \in s
          /\ \A x \in places, l \in RightLogs : step[<<x, l>>] \in RightLogs
      BY <1>1, <1>2, <1>3, <1>4
    <2> HIDE DEF last, step, places, empty
    <2>2. \E g \in [SUBSET places -> RightLogs] : Folds(places, empty, last, step, g)
      BY <2>1, FoldsExist
    <2> QED  BY <2>2 DEF places, empty
  <1>6. ASSUME NEW s \in SUBSET DOMAIN log
        PROVE  g[s] = IF s = {} THEN <<>> ELSE Appended(g[s \ {Max(s)}], log[Max(s)])
    <2>1. CASE s = {}
      BY <1>5, <2>1 DEF Folds
    <2>2. CASE s # {}
      <3>1. last[s] \in DOMAIN log /\ last[s] = Max(s) /\ g[s \ {last[s]}] \in RightLogs
        BY <1>2, <2>2
      <3>2. g[s] = step[<<last[s], g[s \ {last[s]}]>>]
        BY <1>5, <2>2 DEF Folds
      <3> HIDE DEF last, step
      <3>3. g[s] = Appended(g[s \ {last[s]}], log[last[s]])
        BY <1>3, <3>1, <3>2
      <3> QED  BY <2>2, <3>1, <3>3
    <2> QED  BY <2>1, <2>2
  <1> QED  BY <1>6 DEF IsReading

\* The file holds what the log held: every event gets its place and its sequence again.
LEMMA ReadBack ==
  ASSUME NEW log, RightLog(log)
  PROVE  Deserialized(log) = log
  <1> DEFINE g == CHOOSE h : IsReading(log, h)
  <1>0. /\ log \in Seq(StoredEvent) /\ DOMAIN log = 1..Len(log) /\ Len(log) \in Nat
        /\ \A k \in DOMAIN log : log[k] \in StoredEvent
    BY PlacesAreFinite DEF RightLog
  <1>1. IsReading(log, g)
    BY ReadingExists
  <1>2. Deserialized(log) = g[DOMAIN log]
    BY DeserializedIsFold
  <1> HIDE DEF g
  <1> DEFINE Read(k) == /\ g[1..k] \in RightLogs /\ Len(g[1..k]) = k
                        /\ \A j \in 1..k : g[1..k][j] = log[j]
             P == {k \in Nat : k <= Len(log) => Read(k)}
  <1>3. 0 \in P
    <2>1. g[{}] = <<>>
      BY <1>1 DEF IsReading
    <2>2. 1..0 = {}
      OBVIOUS
    <2>3. <<>> \in RightLogs
      BY DEF RightLogs, RightLog
    <2> QED  BY <2>1, <2>2, <2>3
  <1>4. ASSUME NEW k \in P
        PROVE  k + 1 \in P
    <2> SUFFICES ASSUME k + 1 <= Len(log)
                 PROVE  Read(k + 1)
      OBVIOUS
    <2>0. k \in Nat /\ Read(k) /\ k + 1 \in DOMAIN log
      BY <1>0
    <2> DEFINE n == k + 1
               l == g[1..k]
               e == log[n]
               new == Appended(l, e)
    <2>1. /\ 1..n \in SUBSET DOMAIN log /\ 1..n # {} /\ Max(1..n) = n /\ (1..n) \ {n} = 1..k
      <3>1. 1..n \in SUBSET DOMAIN log /\ n \in 1..n /\ (1..n) \ {n} = 1..k
        BY <1>0, <2>0
      <3>2. Max(1..n) \in 1..n /\ n <= Max(1..n)
        BY <3>1, MaxIsLast
      <3> QED  BY <2>0, <3>1, <3>2
    <2>2. g[1..n] = new
      <3>1. g[1..n] = Appended(g[(1..n) \ {Max(1..n)}], log[Max(1..n)])
        BY <1>1, <2>1 DEF IsReading
      <3> QED  BY <2>1, <3>1
    <2>3. /\ RightLog(l) /\ l \in Seq(StoredEvent) /\ Len(l) = k /\ DOMAIN l = 1..k
          /\ e \in StoredEvent /\ \A j \in 1..k : l[j] = log[j]
      BY <1>0, <2>0 DEF RightLogs
    <2>4. new \in RightLogs /\ Len(new) = n /\ \A j \in 1..k : new[j] = log[j]
      <3>1. RightLog(new) /\ Len(new) = Len(l) + 1 /\ \A j \in DOMAIN l : new[j] = l[j]
        BY <2>3, AppendedIsRight
      <3> HIDE DEF new, l, e
      <3> QED  BY <2>3, <3>1 DEF RightLogs, RightLog
    <2>5. new[n] = log[n]
      <3> DEFINE stream == {j \in DOMAIN l : l[j].part = e.part /\ l[j].crew = e.crew}
      <3>1. new[n] = [e EXCEPT !.id = n, !.seq = Cardinality(stream) + 1]
        BY <2>0, <2>3 DEF Appended, StreamVersion
      <3>2. stream = Earlier(log, n)
        BY <2>0, <2>3 DEF Earlier
      <3>3. e.id = n /\ e.seq = Cardinality(stream) + 1
        BY <2>0, <3>2 DEF RightLog
      <3> DEFINE seq == Cardinality(stream) + 1
      <3> HIDE DEF stream, seq, e, n
      <3>4. [e EXCEPT !.id = n, !.seq = seq] = e
        BY <2>3, <3>3 DEF StoredEvent, seq
      <3> QED  BY <3>1, <3>4 DEF seq, e
    <2> HIDE DEF new, l, e
    <2> QED  BY <2>0, <2>2, <2>4, <2>5
  <1>5. Read(Len(log))
    <2>1. \A k \in Nat : k \in P
      <3>1. P \in SUBSET Nat
        OBVIOUS
      <3> HIDE DEF P
      <3> QED  BY <1>3, <1>4, <3>1, NaturalInduction
    <2> QED  BY <1>0, <2>1
  <1>6. g[DOMAIN log] = log
    <2> DEFINE r == g[1..Len(log)]
    <2>1. r \in Seq(StoredEvent) /\ Len(r) = Len(log) /\ \A j \in 1..Len(log) : r[j] = log[j]
      BY <1>5 DEF RightLogs
    <2> HIDE DEF r
    <2>2. r = log
      BY <1>0, <2>1
    <2> QED  BY <1>0, <2>2 DEF r
  <1> QED  BY <1>2, <1>6

-----------------------------------------------------------------------------
(* The reconciler's batch: the completions are appended one by one, and each *)
(* keeps the log and the view right.                                         *)

IsBatch(T, Op(_, _), base, g) ==
  g = [s \in SUBSET T |-> IF s = {} THEN base ELSE Op(g[s \ {Max(s)}], Completion(journal[Max(s)]))]

LEMMA CompletingIsFold ==
  ASSUME NEW T
  PROVE  /\ Completing(Appended, journal, T) = (CHOOSE g : IsBatch(T, Appended, journal, g))[T]
         /\ Completing(AppliedTo, crewView, T) = (CHOOSE g : IsBatch(T, AppliedTo, crewView, g))[T]
  BY DEF Completing, MapThenFoldSet, IsBatch

LEMMA CompletionsAreEvents ==
  ASSUME RightLog(journal), NEW m \in OpenMoves(journal)
  PROVE  Completion(journal[m]) \in StoredEvent
  <1>1. journal[m] \in StoredEvent
    BY PlacesAreFinite DEF RightLog, OpenMoves
  <1> DEFINE e == journal[m]
             at == e.at + 5
  <1>2. e \in StoredEvent /\ at \in Nat
    BY <1>1 DEF StoredEvent
  <1>3. Completion(e) = [e EXCEPT !.kind = "LEGAL_MOVE_COMPLETED", !.at = at]
    BY DEF Completion
  <1> HIDE DEF e, at
  <1>4. [e EXCEPT !.kind = "LEGAL_MOVE_COMPLETED", !.at = at] \in StoredEvent
    BY <1>2 DEF StoredEvent, EventKinds
  <1> QED  BY <1>3, <1>4 DEF e

LEMMA BatchesExist ==
  ASSUME RightLog(journal), crewView \in Views, NEW T, T = OpenMoves(journal)
  PROVE  /\ \E g \in [SUBSET T -> RightLogs] : IsBatch(T, Appended, journal, g)
         /\ \E g \in [SUBSET T -> Views] : IsBatch(T, AppliedTo, crewView, g)
  <1> DEFINE last == [s \in SUBSET T |-> Max(s)]
             addEvent == [a \in T \X RightLogs |-> Appended(a[2], Completion(journal[a[1]]))]
             addEffect == [a \in T \X Views |-> AppliedTo(a[2], Completion(journal[a[1]]))]
  <1>0. T \in SUBSET DOMAIN journal
    BY DEF OpenMoves
  <1>1. IsFiniteSet(T)
    BY <1>0, PlacesAreFinite DEF RightLog
  <1>2. \A s \in SUBSET T : s # {} => last[s] \in s /\ last[s] = Max(s)
    BY <1>0, MaxIsLast
  <1>3. journal \in RightLogs
    BY DEF RightLogs, RightLog
  <1>4. ASSUME NEW x \in T
        PROVE  /\ \A l \in RightLogs : /\ addEvent[<<x, l>>] = Appended(l, Completion(journal[x]))
                                       /\ addEvent[<<x, l>>] \in RightLogs
               /\ \A v \in Views : /\ addEffect[<<x, v>>] = AppliedTo(v, Completion(journal[x]))
                                   /\ addEffect[<<x, v>>] \in Views
    <2>1. Completion(journal[x]) \in StoredEvent
      BY CompletionsAreEvents
    <2>2. \A l \in RightLogs : Appended(l, Completion(journal[x])) \in RightLogs
      BY <2>1, LogsGrow
    <2>3. \A v \in Views : AppliedTo(v, Completion(journal[x])) \in Views
      BY <2>1, AppliedIsView
    <2> QED  BY <2>2, <2>3
  <1> HIDE DEF last, addEvent, addEffect
  <1>5. PICK g \in [SUBSET T -> RightLogs] : Folds(T, journal, last, addEvent, g)
    BY <1>1, <1>2, <1>3, <1>4, FoldsExist
  <1>6. PICK h \in [SUBSET T -> Views] : Folds(T, crewView, last, addEffect, h)
    BY <1>1, <1>2, <1>4, FoldsExist
  <1>7. ASSUME NEW s \in SUBSET T
        PROVE  /\ g[s] = IF s = {} THEN journal ELSE Appended(g[s \ {Max(s)}], Completion(journal[Max(s)]))
               /\ h[s] = IF s = {} THEN crewView ELSE AppliedTo(h[s \ {Max(s)}], Completion(journal[Max(s)]))
    <2>1. CASE s = {}
      BY <1>5, <1>6, <2>1 DEF Folds
    <2>2. CASE s # {}
      <3> DEFINE x == Max(s)
      <3>1. x \in T /\ x = last[s] /\ s \ {x} \in SUBSET T
        BY <1>2, <2>2
      <3>2. g[s \ {x}] \in RightLogs /\ h[s \ {x}] \in Views
        BY <3>1
      <3>3. g[s] = addEvent[<<x, g[s \ {x}]>>] /\ h[s] = addEffect[<<x, h[s \ {x}]>>]
        BY <1>5, <1>6, <2>2, <3>1 DEF Folds
      <3> HIDE DEF x
      <3>4. g[s] = Appended(g[s \ {x}], Completion(journal[x]))
        BY <1>4, <3>1, <3>2, <3>3
      <3>5. h[s] = AppliedTo(h[s \ {x}], Completion(journal[x]))
        BY <1>4, <3>1, <3>2, <3>3
      <3> QED  BY <2>2, <3>4, <3>5 DEF x
    <2> QED  BY <2>1, <2>2
  <1>8. IsBatch(T, Appended, journal, g)
    BY <1>7 DEF IsBatch
  <1>9. IsBatch(T, AppliedTo, crewView, h)
    BY <1>7 DEF IsBatch
  <1> QED  BY <1>8, <1>9

LEMMA BatchIsKept ==
  ASSUME StreamRight(journal, crewView), Reconcile
  PROVE  StreamRight(journal', crewView')
  <1> DEFINE T == OpenMoves(journal)
             g == CHOOSE l : IsBatch(T, Appended, journal, l)
             h == CHOOSE v : IsBatch(T, AppliedTo, crewView, v)
             Fine == {s \in SUBSET T : StreamRight(g[s], h[s])}
  <1>0. RightLog(journal) /\ crewView \in Views /\ T \in SUBSET DOMAIN journal
    BY DEF StreamRight, OpenMoves
  <1>1. journal' = g[T] /\ crewView' = h[T]
    BY CompletingIsFold DEF Reconcile
  <1>2. IsBatch(T, Appended, journal, g) /\ IsBatch(T, AppliedTo, crewView, h)
    BY <1>0, BatchesExist
  <1>3. IsFiniteSet(T)
    BY <1>0, PlacesAreFinite DEF RightLog
  <1> HIDE DEF g, h
  <1>4. ASSUME NEW s \in SUBSET T, \A x \in s : s \ {x} \in Fine
        PROVE  s \in Fine
    <2>1. CASE s = {}
      <3>1. g[s] = journal /\ h[s] = crewView
        BY <1>2, <2>1 DEF IsBatch
      <3> QED  BY <3>1
    <2>2. CASE s # {}
      <3> DEFINE x == Max(s)
                 e == Completion(journal[x])
      <3>1. x \in s
        BY <1>0, <2>2, MaxIsLast
      <3>2. g[s] = Appended(g[s \ {x}], e) /\ h[s] = AppliedTo(h[s \ {x}], e)
        BY <1>2, <2>2 DEF IsBatch
      <3>3. e \in StoredEvent
        BY <1>0, <3>1, CompletionsAreEvents
      <3>4. StreamRight(g[s \ {x}], h[s \ {x}])
        BY <1>4, <3>1
      <3> HIDE DEF x, e
      <3>5. StreamRight(g[s], h[s])
        BY <3>2, <3>3, <3>4, AppendKeepsView
      <3> QED  BY <3>5
    <2> QED  BY <2>1, <2>2
  <1>5. \A s \in SUBSET T : s \in Fine
    <2>1. Fine \in SUBSET SUBSET T
      OBVIOUS
    <2> HIDE DEF Fine, T
    <2> QED  BY <1>3, <1>4, <2>1, SubsetInduction
  <1> QED  BY <1>1, <1>5

RightStates == {s \in RightLogs \X Views : StreamRight(s[1], s[2])}

\* Whatever callers append and the reconciler adds, in whatever order the timestamps are:
\* a replay of the partition that has all events of a member gives the view of it, and the
\* file gives the log back (event_store.py:147-165, 167-179, 191-251).
THEOREM ReplayIsView == StreamSpec => []ReplayRebuildsView
  <1> DEFINE Inv == <<journal, crewView>> \in RightStates
  <1>0. \A l, v : StreamRight(l, v) <=> <<l, v>> \in RightStates
    BY DEF RightStates, RightLogs, StreamRight, RightLog
  <1>1. StreamInit => Inv
    <2> SUFFICES ASSUME StreamInit PROVE StreamRight(journal, crewView)
      BY <1>0
    <2>1. RightLog(journal)
      BY DEF StreamInit, RightLog
    <2>2. crewView = EmptyView /\ crewView \in Views
      BY DEF StreamInit, EmptyView, Views
    <2>3. \A c \in CrewIds : PlacesOf(journal, c) = {}
      BY DEF StreamInit, PlacesOf
    <2>4. Rebuilt(journal, {}) = EmptyView
      BY <2>1, RebuiltUnfolds
    <2> QED  BY <2>1, <2>2, <2>3, <2>4 DEF StreamRight, ViewKept
  <1>2. Inv /\ [StreamNext]_streamVars => Inv'
    <2> SUFFICES ASSUME StreamRight(journal, crewView), [StreamNext]_streamVars
                 PROVE  StreamRight(journal', crewView')
      BY <1>0
    <2>1. ASSUME NEW kind \in EventKinds, NEW c \in CrewIds, NEW p \in Partitions,
                 NEW value \in Values, NEW at \in EventTimes, AppendCrewEvent(kind, c, p, value, at)
          PROVE  StreamRight(journal', crewView')
      <3> DEFINE e == [id |-> 0, seq |-> 0, kind |-> kind, crew |-> c, part |-> p,
                       value |-> value, at |-> at]
      <3>1. e \in StoredEvent
        <4>1. at \in Nat
          BY StreamAssumption
        <4> QED  BY <4>1 DEF StoredEvent
      <3>2. journal' = Appended(journal, e) /\ crewView' = AppliedTo(crewView, e)
        BY <2>1 DEF AppendCrewEvent
      <3> HIDE DEF e
      <3> QED  BY <3>1, <3>2, AppendKeepsView
    <2>2. CASE Reconcile
      BY <2>2, BatchIsKept
    <2>3. ASSUME NEW c \in CrewIds, NEW p \in Partitions, NEW at \in EventTimes
          PROVE  /\ \A kind \in DutyKinds \cup {"CREW_MEMBER_CREATED"} :
                       AppendCrewEvent(kind, c, p, p, at) => StreamRight(journal', crewView')
                 /\ \A kind \in PayloadKinds, v \in Payloads :
                       AppendCrewEvent(kind, c, p, v, at) => StreamRight(journal', crewView')
                 /\ \A to \in Partitions :
                       AppendCrewEvent("LEGAL_MOVE_REQUEST", c, p, to, at) => StreamRight(journal', crewView')
      BY <2>1 DEF EventKinds, Values
    <2>4. CASE UNCHANGED streamVars
      BY <2>4 DEF streamVars
    <2> QED  BY <2>2, <2>3, <2>4 DEF StreamNext
  <1>3. Inv => ReplayRebuildsView
    BY <1>0, ReadBack, ReplayGivesView DEF StreamRight, ReplayRebuildsView
  <1> QED  BY <1>1, <1>2, <1>3, PTL DEF StreamSpec
=============================================================================
