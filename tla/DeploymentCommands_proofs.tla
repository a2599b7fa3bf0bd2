--------------------- MODULE DeploymentCommands_proofs ---------------------
(***************************************************************************)
(* Proofs about one deployment, for any commands, callers and bound.       *)
(*                                                                         *)
(* The verdict is recomputed from the new command statuses or left as it   *)
(* was, so an old verdict must survive the change of one command: it does  *)
(* because only queued, sent or compensating commands change, and what     *)
(* each verdict says of the required commands excludes these or does not   *)
(* look at them.  Truthful collects the verdicts' claims about statuses    *)
(* cs, so that it can be asserted of a request's result.                   *)
(***************************************************************************)
EXTENDS DeploymentCommands, TLAPS

Truthful(cs, st) ==
  /\ st = "complete" => \A c \in Required : cs[c] = "acknowledged"
  /\ st \in {"partial", "failed"} => \E c \in Required : cs[c] \in TerminalFailures
  /\ st = "partial" => \E c \in Required : cs[c] = "acknowledged"
  /\ st = "failed" => \A c \in Required : cs[c] # "acknowledged"
  /\ st = "compensated" => \A c \in Required : cs[c] \in {"compensated"} \cup TerminalFailures

\* No caller holds a version the deployment has not had.
SeenIsPast == \A x \in Clients : seen[x] <= version

----------------------------------------------------------------------------
(* Recompute.                                                               *)

\* The recomputed status is a deployment status.
LEMMA RecomputeType ==
  ASSUME status \in DeploymentStatus, NEW cs
  PROVE  Recompute(cs) \in DeploymentStatus
BY DEF Recompute, DeploymentStatus

\* The verdict recomputed after one queued or sent command changed is
\* truthful, if the standing one was.
LEMMA RecomputeTruthful ==
  ASSUME TypeOK, Truthful(command, status),
         NEW c \in Commands, command[c] \in {"queued", "sent"},
         NEW s \in CommandStatus,
         NEW cs, cs = [command EXCEPT ![c] = s]
  PROVE  Truthful(cs, Recompute(cs))
<1> DEFINE statuses == RequiredStatuses(cs)
<1>1. /\ cs[c] = s
      /\ \A d \in Commands : d # c => cs[d] = command[d]
      /\ Required \subseteq Commands
  BY CommandsAssumption DEF TypeOK
<1>2. \A v : v \in statuses <=> \E d \in Required : cs[d] = v
  BY DEF RequiredStatuses
<1>3. CASE AllAcknowledged(cs)
  <2>1. Recompute(cs) = "complete"
    BY <1>3 DEF Recompute, AllAcknowledged, RequiredStatuses, TerminalFailures
  <2> QED BY <2>1, <1>3 DEF Truthful, AllAcknowledged
<1>4. CASE ~AllAcknowledged(cs) /\ statuses \cap TerminalFailures # {}
  <2>1. Recompute(cs) = IF "acknowledged" \in statuses THEN "partial" ELSE "failed"
    <3>1. statuses # {"compensated"}
      BY <1>4 DEF TerminalFailures
    <3> QED BY <1>4, <3>1 DEF Recompute
  <2>2. \E d \in Required : cs[d] \in TerminalFailures
    BY <1>4, <1>2
  <2>3. "acknowledged" \in statuses <=> \E d \in Required : cs[d] = "acknowledged"
    BY <1>2
  <2> QED BY <2>1, <2>2, <2>3 DEF Truthful
<1>5. CASE ~AllAcknowledged(cs) /\ statuses \cap TerminalFailures = {}
  <2>1. \A d \in Required : cs[d] \notin TerminalFailures
    BY <1>5, <1>2
  <2>2. Recompute(cs) \in {"publishing", "compensated", status}
    BY <1>5 DEF Recompute
  <2>3. CASE Recompute(cs) = "publishing"
    BY <2>3 DEF Truthful
  <2>4. CASE Recompute(cs) = "compensated" /\ statuses = {"compensated"}
    <3>1. \A d \in Required : cs[d] = "compensated"
      BY <2>4, <1>2
    <3> QED BY <2>4, <3>1 DEF Truthful
  <2>5. CASE Recompute(cs) = status
    <3>1. status = "complete" => c \notin Required
      BY DEF Truthful
    <3>2. status \notin {"partial", "failed"}
      BY <2>1, <1>1 DEF Truthful, TerminalFailures
    <3>3. status = "compensated" => c \notin Required
      BY DEF Truthful, TerminalFailures
    <3> QED BY <2>5, <3>1, <3>2, <3>3, <1>1 DEF Truthful
  <2>6. Recompute(cs) = "compensated" => statuses = {"compensated"} \/ Recompute(cs) = status
    BY <1>5 DEF Recompute
  <2> QED BY <2>2, <2>3, <2>4, <2>5, <2>6
<1> QED BY <1>3, <1>4, <1>5

----------------------------------------------------------------------------
(* Type correctness.                                                        *)

\* A request that returns well-typed statuses keeps the types.
LEMMA ReturnType ==
  ASSUME TypeOK, NEW x \in Clients, Version(x),
         NEW cs \in [Commands -> CommandStatus], NEW st \in DeploymentStatus,
         Return(x, cs, st)
  PROVE  TypeOK'
<1>1. Advance(version) \in 1..MaxVersion
  BY BoundAssumption DEF TypeOK, Version, Exists, Advance
<1> QED BY <1>1 DEF TypeOK, Return

\* Every request keeps statuses, versions and copies in shape.
LEMMA TypeInvariance == TypeOK /\ [Next]_vars => TypeOK'
<1> SUFFICES ASSUME TypeOK, [Next]_vars PROVE TypeOK' OBVIOUS
<1>1. ASSUME NEW x \in Clients, Create(x) PROVE TypeOK'
  <2>1. 1 \in 0..MaxVersion /\ 1 \in 1..MaxVersion
    BY BoundAssumption
  <2>2. Queued \in [Commands -> CommandStatus] /\ "queued" \in DeploymentStatus
    BY DEF Queued, CommandStatus, DeploymentStatus
  <2> QED BY <1>1, <2>1, <2>2 DEF TypeOK, Create
<1>2. ASSUME NEW x \in Clients, Get(x) PROVE TypeOK'
  BY <1>2 DEF TypeOK, Get
<1>3. ASSUME NEW x \in Clients, Compensate(x) PROVE TypeOK'
  <2> DEFINE acknowledged == {c \in Commands : command[c] = "acknowledged"}
             cs == [c \in Commands |-> IF c \notin acknowledged THEN command[c]
                                       ELSE IF c \in Reversible THEN "compensation_queued"
                                       ELSE "irreversible"]
             st == IF acknowledged \subseteq Reversible THEN "compensating"
                   ELSE "requires_new_recovery"
  <2>1. cs \in [Commands -> CommandStatus]
    BY DEF TypeOK, CommandStatus
  <2>2. st \in DeploymentStatus
    BY DEF DeploymentStatus
  <2>3. Version(x) /\ Return(x, cs, st)
    BY <1>3 DEF Compensate
  <2> HIDE DEF cs, st
  <2> QED BY <2>1, <2>2, <2>3, ReturnType
<1>4. ASSUME NEW x \in Clients, NEW c \in Commands, NEW s \in CommandStatus,
             NEW st \in DeploymentStatus, Version(x),
             Return(x, [command EXCEPT ![c] = s], st)
      PROVE  TypeOK'
  <2>1. [command EXCEPT ![c] = s] \in [Commands -> CommandStatus]
    BY DEF TypeOK
  <2> QED BY <1>4, <2>1, ReturnType
<1>5. status \in DeploymentStatus /\ "queued" \in DeploymentStatus /\ "compensated" \in DeploymentStatus
  BY DEF TypeOK, DeploymentStatus
<1>6. {"queued", "sent", "timed_out", "compensated", "acknowledged", "rejected"} \subseteq CommandStatus
  BY DEF CommandStatus
<1>7. ASSUME NEW x \in Clients, NEW c \in Commands, MarkSent(x, c) PROVE TypeOK'
  BY <1>4, <1>5, <1>6, <1>7, RecomputeType DEF MarkSent
<1>8. ASSUME NEW x \in Clients, NEW c \in Commands, NEW accepted \in BOOLEAN,
             Acknowledge(x, c, accepted)
      PROVE  TypeOK'
  <2>1. (IF accepted THEN "acknowledged" ELSE "rejected") \in CommandStatus
    BY <1>6
  <2> QED BY <1>4, <1>5, <1>8, <2>1, RecomputeType DEF Acknowledge
<1>9. ASSUME NEW x \in Clients, NEW c \in Commands, Timeout(x, c) PROVE TypeOK'
  BY <1>4, <1>5, <1>6, <1>9, RecomputeType DEF Timeout
<1>10. ASSUME NEW x \in Clients, NEW c \in Commands, Retry(x, c) PROVE TypeOK'
  BY <1>4, <1>5, <1>6, <1>10 DEF Retry
<1>11. ASSUME NEW x \in Clients, NEW c \in Commands, AcknowledgeCompensation(x, c) PROVE TypeOK'
  BY <1>4, <1>5, <1>6, <1>11 DEF AcknowledgeCompensation
<1>12. CASE UNCHANGED vars
  BY <1>12 DEF TypeOK, vars
<1> QED BY <1>1, <1>2, <1>3, <1>7, <1>8, <1>9, <1>10, <1>11, <1>12 DEF Next

\* The statuses and versions always have the shape the
\* code gives them.
THEOREM TypeCorrect == Spec => []TypeOK
<1>1. Init => TypeOK
  BY BoundAssumption DEF Init, TypeOK, Queued, CommandStatus, DeploymentStatus
<1> QED BY <1>1, TypeInvariance, PTL DEF Spec

----------------------------------------------------------------------------
(* Verdicts.                                                                *)

\* Truthful is what the two checked invariants say together.
LEMMA TruthfulIsTheVerdict ==
  Truthful(command, status) <=> CompleteMeansAllAcked /\ VerdictHolds
BY DEF Truthful, CompleteMeansAllAcked, VerdictHolds

\* Every request leaves behind a verdict that is true of the commands.
LEMMA TruthfulInvariance ==
  TypeOK /\ Truthful(command, status) /\ [Next]_vars => Truthful(command, status)'
<1> SUFFICES ASSUME TypeOK, Truthful(command, status), [Next]_vars
             PROVE  Truthful(command', status')
  BY DEF Truthful
<1>1. {"sent", "timed_out", "acknowledged", "rejected"} \subseteq CommandStatus
  BY DEF CommandStatus
<1>2. ASSUME NEW x \in Clients, NEW c \in Commands, MarkSent(x, c)
      PROVE  Truthful(command', status')
  BY <1>1, <1>2, RecomputeTruthful DEF MarkSent, Return
<1>3. ASSUME NEW x \in Clients, NEW c \in Commands, NEW accepted \in BOOLEAN,
             Acknowledge(x, c, accepted)
      PROVE  Truthful(command', status')
  <2>1. (IF accepted THEN "acknowledged" ELSE "rejected") \in CommandStatus
    BY <1>1
  <2> QED BY <1>3, <2>1, RecomputeTruthful DEF Acknowledge, Return
<1>4. ASSUME NEW x \in Clients, NEW c \in Commands, Timeout(x, c)
      PROVE  Truthful(command', status')
  BY <1>1, <1>4, RecomputeTruthful DEF Timeout, Return
<1>5. ASSUME NEW x \in Clients, NEW c \in Commands, Retry(x, c)
      PROVE  Truthful(command', status')
  BY <1>5 DEF Retry, Return, Truthful
<1>6. ASSUME NEW x \in Clients, Compensate(x)
      PROVE  Truthful(command', status')
  <2>1. status' \in {"compensating", "requires_new_recovery"}
    BY <1>6 DEF Compensate, Return
  <2> QED BY <2>1 DEF Truthful
<1>7. ASSUME NEW x \in Clients, NEW c \in Commands, AcknowledgeCompensation(x, c)
      PROVE  Truthful(command', status')
  <2>1. /\ command[c] = "compensation_queued"
        /\ command' = [command EXCEPT ![c] = "compensated"]
    BY <1>7 DEF AcknowledgeCompensation, Return
  <2>2. /\ command'[c] = "compensated"
        /\ \A d \in Commands : d # c => command'[d] = command[d]
        /\ Required \subseteq Commands
    BY <2>1, CommandsAssumption DEF TypeOK
  <2>3. CASE status' = status
    BY <2>1, <2>2, <2>3 DEF Truthful, TerminalFailures
  <2>4. CASE status' = "compensated" /\ \A d \in Commands : command'[d] \in {"compensated"} \cup TerminalFailures
    BY <2>2, <2>4 DEF Truthful
  <2> QED BY <1>7, <2>3, <2>4 DEF AcknowledgeCompensation, Return
<1>8. ASSUME NEW x \in Clients, Create(x) \/ Get(x)
      PROVE  Truthful(command', status')
  BY <1>8 DEF Create, Get, Truthful
<1>9. CASE UNCHANGED vars
  BY <1>9 DEF vars
<1> QED BY <1>2, <1>3, <1>4, <1>5, <1>6, <1>7, <1>8, <1>9 DEF Next

\* The verdict is true of the commands in every reachable state.
LEMMA TruthfulAlways == Spec => []Truthful(command, status)
<1>1. Init => Truthful(command, status)
  BY DEF Init, Truthful
<1> QED BY <1>1, TypeCorrect, TruthfulInvariance, PTL DEF Spec

\* "A deployment is complete only when every required command is ACKed"
\* (command_state.py, first lines): whatever the commands, callers and retries.
THEOREM CompleteOnlyWhenAcked == Spec => []CompleteMeansAllAcked
BY TruthfulAlways, TruthfulIsTheVerdict, PTL

\* Partial, failed and compensated tell the truth about the required commands
\* for as long as they stand (_recompute and the methods that bypass it).
THEOREM VerdictsHold == Spec => []VerdictHolds
BY TruthfulAlways, TruthfulIsTheVerdict, PTL

----------------------------------------------------------------------------
(* Requests.                                                                *)

\* Every request that is not a read ends in Return.
LEMMA RequestsReturn ==
  ASSUME NEW x \in Clients,
         \/ Compensate(x)
         \/ \E c \in Commands :
              \/ MarkSent(x, c) \/ Timeout(x, c) \/ Retry(x, c) \/ AcknowledgeCompensation(x, c)
              \/ \E accepted \in BOOLEAN : Acknowledge(x, c, accepted)
  PROVE  \E cs, st : Return(x, cs, st)
BY DEF MarkSent, Timeout, Retry, AcknowledgeCompensation, Compensate, Acknowledge

NothingSentYet == ~Exists => command = Queued

\* Before create there is nothing to acknowledge.
LEMMA NothingSentYetAlways == Spec => []NothingSentYet
<1>1. Init => NothingSentYet
  BY DEF Init, NothingSentYet
<1>2. ASSUME TypeOK, NothingSentYet, [Next]_vars PROVE NothingSentYet'
  <2>1. CASE \E x \in Clients : Create(x)
    BY <2>1 DEF Create, NothingSentYet
  <2>2. CASE UNCHANGED vars \/ \E x \in Clients : Get(x)
    BY <1>2, <2>2 DEF vars, Get, NothingSentYet, Exists
  <2>3. ASSUME NEW x \in Clients, NEW cs, NEW st, Return(x, cs, st)
        PROVE  NothingSentYet'
    BY <1>2, <2>3 DEF Return, Advance, NothingSentYet, Exists, TypeOK
  <2>4. CASE \E x \in Clients : \E cs, st : Return(x, cs, st)
    BY <2>3, <2>4
  <2> QED BY <1>2, <2>1, <2>2, <2>4 DEF Next, MarkSent, Timeout, Retry, AcknowledgeCompensation,
                                   Compensate, Acknowledge
<1> QED BY <1>1, <1>2, TypeCorrect, PTL DEF Spec

----------------------------------------------------------------------------
(* Versions.                                                                *)

\* A request returns the version it made, and versions only grow.
LEMMA SeenInvariance == TypeOK /\ SeenIsPast /\ [Next]_vars => SeenIsPast'
<1> SUFFICES ASSUME TypeOK, SeenIsPast, [Next]_vars PROVE SeenIsPast' OBVIOUS
<1>1. version \in Nat /\ seen \in [Clients -> Nat]
  BY BoundAssumption DEF TypeOK
<1>2. ASSUME NEW x \in Clients, NEW cs, NEW st, Return(x, cs, st)
      PROVE  SeenIsPast'
  BY <1>1, <1>2 DEF Return, Advance, SeenIsPast
<1>3. ASSUME NEW x \in Clients, Get(x) PROVE SeenIsPast'
  BY <1>1, <1>3 DEF Get, SeenIsPast
<1>4. ASSUME NEW x \in Clients, Create(x) PROVE SeenIsPast'
  BY <1>1, <1>4 DEF Create, Exists, SeenIsPast
<1>5. CASE UNCHANGED vars
  BY <1>5 DEF vars, SeenIsPast
<1> QED BY <1>2, <1>3, <1>4, <1>5, RequestsReturn DEF Next

\* Optimistic locking works (_version, _advance): of the callers that have read
\* a version, one at most makes a transition from it.
THEOREM OneWinner == Spec => OneWinnerPerVersion
<1> DEFINE Won == <<command, status>>' # <<command, status>> =>
              \A x, y \in Clients : seen'[x] = version' /\ seen'[y] = version' => x = y
<1>1. Init => SeenIsPast
  <2> HIDE DEF Won
  <2>1. ASSUME Init PROVE SeenIsPast
    <3>1. version = 0 /\ \A x \in Clients : seen[x] = 0
      BY <2>1 DEF Init
    <3>2. 0 <= 0
      OBVIOUS
    <3> QED BY <3>1, <3>2 DEF SeenIsPast
  <2> QED BY <2>1
<1>2. ASSUME TypeOK, SeenIsPast, NothingSentYet, [Next]_vars PROVE Won
  <2>1. version \in Nat /\ seen \in [Clients -> Nat]
    BY <1>2, BoundAssumption DEF TypeOK
  <2>2. ASSUME NEW x \in Clients, NEW cs, NEW st, Return(x, cs, st)
        PROVE  Won
    BY <1>2, <2>1, <2>2 DEF Return, Advance, SeenIsPast
  <2>3. CASE UNCHANGED vars \/ \E x \in Clients : Get(x)
    BY <2>3 DEF vars, Get
  <2>4. ASSUME NEW x \in Clients, Create(x) PROVE Won
    BY <1>2, <2>1, <2>4 DEF Create, Exists, SeenIsPast
  <2> HIDE DEF Won
  <2> QED BY <1>2, <2>2, <2>3, <2>4, RequestsReturn DEF Next
<1> QED BY <1>1, <1>2, TypeCorrect, NothingSentYetAlways, SeenInvariance, PTL DEF Spec, OneWinnerPerVersion

----------------------------------------------------------------------------
(* What the carrier has taken.                                              *)

\* An acknowledged command is never sent again; it leaves that status only
\* through a compensation, and a compensation's outcome is final.
THEOREM NeverResent == Spec => PublishedIsNotResent
<1> DEFINE Kept ==
      \A c \in Commands :
        /\ command[c] = "acknowledged" =>
             command'[c] \in {"acknowledged", "compensation_queued", "irreversible"}
        /\ command[c] = "compensation_queued" => command'[c] \in {"compensation_queued", "compensated"}
        /\ command[c] \in {"compensated", "irreversible"} => command'[c] = command[c]
<1>1. ASSUME TypeOK, NothingSentYet, [Next]_vars PROVE Kept
  <2>1. ASSUME NEW x \in Clients, NEW c \in Commands, NEW s, NEW st,
               Return(x, [command EXCEPT ![c] = s], st),
               \/ command[c] \in {"queued", "sent"} \cup TerminalFailures
               \/ command[c] = "compensation_queued" /\ s = "compensated"
        PROVE  Kept
    <3>1. command'[c] = s /\ \A d \in Commands : d # c => command'[d] = command[d]
      BY <1>1, <2>1 DEF Return, TypeOK
    <3> QED BY <2>1, <3>1 DEF TerminalFailures
  <2>2. ASSUME NEW x \in Clients, Compensate(x) PROVE Kept
    BY <2>2 DEF Compensate, Return
  <2>3. ASSUME NEW x \in Clients, Create(x) PROVE Kept
    BY <1>1, <2>3 DEF Create, NothingSentYet, Queued
  <2>4. CASE UNCHANGED vars \/ \E x \in Clients : Get(x)
    BY <2>4 DEF vars, Get
  <2>5. ASSUME NEW x \in Clients, NEW c \in Commands,
               MarkSent(x, c) \/ Timeout(x, c) \/ \E accepted \in BOOLEAN : Acknowledge(x, c, accepted)
        PROVE  Kept
    BY <2>1, <2>5 DEF MarkSent, Timeout, Acknowledge
  <2>6. ASSUME NEW x \in Clients, NEW c \in Commands, Retry(x, c) \/ AcknowledgeCompensation(x, c)
        PROVE  Kept
    BY <2>1, <2>6 DEF Retry, Retryable, AcknowledgeCompensation
  <2> HIDE DEF Kept
  <2> QED BY <1>1, <2>2, <2>3, <2>4, <2>5, <2>6 DEF Next
<1> QED BY <1>1, TypeCorrect, NothingSentYetAlways, PTL DEF Spec, PublishedIsNotResent
============================================================================
