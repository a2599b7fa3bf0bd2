------------------------ MODULE DeploymentCommands -------------------------
(***************************************************************************)
(* One deployment of deployment/command_state.py: a command per resource,  *)
(* sent to the carrier's systems, acknowledged, rejected or timed out, and *)
(* retried or compensated.  Callers send the version they read last, and   *)
(* the registry's lock makes each request one step.  A refused request     *)
(* (stale version, wrong command status) changes nothing and is not a step.*)
(* Copies are taken outside the lock (get, and to_dict after a request),   *)
(* so they may mix two versions: of a copy only its version number, one    *)
(* attribute, is kept, and any request may follow any picture.             *)
(*                                                                         *)
(* The carrier is outside: any answer may come at any time, or never.      *)
(***************************************************************************)
EXTENDS Naturals

CONSTANTS
  Clients,     \* API callers and adapters
  Commands,    \* the resource commands of the deployment
  Required,    \* the commands with required = True
  Reversible,  \* the commands with reversible = True
  MaxVersion   \* bound: how many transitions a deployment makes

ASSUME CommandsAssumption ==
  /\ Required \subseteq Commands /\ Reversible \subseteq Commands
  /\ Commands # {}    \* create refuses an empty list

ASSUME BoundAssumption == MaxVersion \in Nat \ {0}

VARIABLES
  command,  \* ResourceCommand.status of each command; all None before create
  status,   \* DeploymentAggregate.status
  version,  \* DeploymentAggregate.state_version
  seen      \* the version each caller read last, 0 before it read one

vars == <<command, status, version, seen>>

CommandStatus == {"queued", "sent", "acknowledged", "rejected", "timed_out",
                  "compensation_queued", "compensated", "irreversible"}
DeploymentStatus == {"queued", "publishing", "partial", "complete", "failed",
                     "compensating", "compensated", "requires_new_recovery"}
TerminalFailures == {"rejected", "timed_out"}

----------------------------------------------------------------------------
Exists == version > 0

\* Mutant: the optional commands may stand in for the required ones.
SomeAcknowledged(cs) == \E c \in Required : cs[c] = "acknowledged"

AllAcknowledged(cs) == Required # {} /\ \A c \in Required : cs[c] = "acknowledged"

\* Mutant: the optional commands count in the verdict.
AllStatuses(cs) == {cs[c] : c \in Commands}

RequiredStatuses(cs) == {cs[c] : c \in Required}

\* _recompute: the status after the commands became cs.
Recompute(cs) ==
  LET statuses == RequiredStatuses(cs)
  IN CASE AllAcknowledged(cs) -> "complete"
       [] ~AllAcknowledged(cs) /\ statuses \cap TerminalFailures # {} ->
            IF "acknowledged" \in statuses THEN "partial" ELSE "failed"
       [] statuses \cap TerminalFailures = {} /\ "sent" \in statuses -> "publishing"
       [] statuses = {"compensated"} -> "compensated"
       [] OTHER -> status

\* Mutant: a transition is recorded by its time only.
TouchOnly(v) == v

\* _advance.
Advance(v) == v + 1

\* _version, for a caller that sends the version it read; and the bound.
Version(x) == Exists /\ seen[x] = version /\ version < MaxVersion

\* The request's last line: a new version, returned to the caller.
Return(x, cs, st) ==
  /\ command' = cs
  /\ status' = st
  /\ version' = Advance(version)
  /\ seen' = [seen EXCEPT ![x] = Advance(version)]

----------------------------------------------------------------------------
Queued == [c \in Commands |-> "queued"]

Init ==
  /\ command = Queued /\ status = "queued"
  /\ version = 0
  /\ seen = [x \in Clients |-> 0]

\* create: the first call makes the deployment, a repeated one returns it.
Create(x) ==
  /\ ~Exists
  /\ command' = Queued /\ status' = "queued"
  /\ version' = 1
  /\ seen' = [seen EXCEPT ![x] = 1]

\* get, and create under a key already used.
Get(x) ==
  /\ Exists
  /\ seen' = [seen EXCEPT ![x] = version]
  /\ UNCHANGED <<command, status, version>>

MarkSent(x, c) ==
  LET cs == [command EXCEPT ![c] = "sent"]
  IN /\ Version(x)
     /\ command[c] = "queued"
     /\ Return(x, cs, Recompute(cs))

Acknowledge(x, c, accepted) ==
  LET cs == [command EXCEPT ![c] = IF accepted THEN "acknowledged" ELSE "rejected"]
  IN /\ Version(x)
     /\ command[c] = "sent"
     /\ Return(x, cs, Recompute(cs))

Timeout(x, c) ==
  LET cs == [command EXCEPT ![c] = "timed_out"]
  IN /\ Version(x)
     /\ command[c] = "sent"
     /\ Return(x, cs, Recompute(cs))

\* Mutant: whatever is not on its way may be sent again.
NotInTransit(c) == command[c] \notin {"queued", "sent"}

Retryable(c) == command[c] \in TerminalFailures

Retry(x, c) ==
  /\ Version(x)
  /\ Retryable(c)
  /\ Return(x, [command EXCEPT ![c] = "queued"], "queued")

Compensate(x) ==
  LET acknowledged == {c \in Commands : command[c] = "acknowledged"}
  IN /\ Version(x)
     /\ acknowledged # {}
     /\ Return(x, [c \in Commands |-> IF c \notin acknowledged THEN command[c]
                                      ELSE IF c \in Reversible THEN "compensation_queued"
                                      ELSE "irreversible"],
               IF acknowledged \subseteq Reversible THEN "compensating" ELSE "requires_new_recovery")

AcknowledgeCompensation(x, c) ==
  LET cs == [command EXCEPT ![c] = "compensated"]
  IN /\ Version(x)
     /\ command[c] = "compensation_queued"
     /\ Return(x, cs, IF \A d \in Commands : cs[d] \in {"compensated"} \cup TerminalFailures
                      THEN "compensated" ELSE status)

Next ==
  \E x \in Clients :
    \/ Create(x) \/ Get(x) \/ Compensate(x)
    \/ \E c \in Commands :
         \/ MarkSent(x, c) \/ Timeout(x, c) \/ Retry(x, c) \/ AcknowledgeCompensation(x, c)
         \/ \E accepted \in BOOLEAN : Acknowledge(x, c, accepted)

Spec == Init /\ [][Next]_vars

----------------------------------------------------------------------------
(* Properties                                                               *)

\* Statuses and versions have the shape the code gives them.
TypeOK ==
  /\ command \in [Commands -> CommandStatus]
  /\ status \in DeploymentStatus
  /\ version \in 0..MaxVersion
  /\ seen \in [Clients -> 0..MaxVersion]

\* "A deployment is complete only when every required command is ACKed": not
\* by an optional one, not through a retry, nor after a compensation.
CompleteMeansAllAcked ==
  status = "complete" => \A c \in Required : command[c] = "acknowledged"

\* The other verdicts tell the truth as long as they stand, whichever requests
\* came in between: partial and failed name a required command that failed and
\* tell whether the carrier has taken any, and a compensated deployment has no
\* required command that is in effect, on its way or still to be sent.
VerdictHolds ==
  /\ status \in {"partial", "failed"} => \E c \in Required : command[c] \in TerminalFailures
  /\ status = "partial" => \E c \in Required : command[c] = "acknowledged"
  /\ status = "failed" => \A c \in Required : command[c] # "acknowledged"
  /\ status = "compensated" =>
       \A c \in Required : command[c] \in {"compensated"} \cup TerminalFailures

\* Two callers that decided on the same version cannot both act on it: after a
\* transition everybody but its caller has to read again, however the requests
\* of people, adapters and timers cross.
OneWinnerPerVersion ==
  [][<<command, status>>' # <<command, status>> =>
       \A x, y \in Clients : seen'[x] = version' /\ seen'[y] = version' => x = y]_vars

\* What the carrier has acknowledged is never sent a second time; it can only
\* be compensated, or be found irreversible, and that stays.
PublishedIsNotResent ==
  [][\A c \in Commands :
       /\ command[c] = "acknowledged" =>
            command'[c] \in {"acknowledged", "compensation_queued", "irreversible"}
       /\ command[c] = "compensation_queued" => command'[c] \in {"compensation_queued", "compensated"}
       /\ command[c] \in {"compensated", "irreversible"} => command'[c] = command[c]]_vars

----------------------------------------------------------------------------
(* What the repository says and the code does not do.                       *)

\* architecture.md: "Published operational changes are compensated where
\* possible; irreversible actions require a new recovery and are never called
\* rollback."
IrreversibleRequiresNewRecovery ==
  (\E c \in Commands : command[c] = "irreversible") => status = "requires_new_recovery"
============================================================================
