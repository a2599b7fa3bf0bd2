-------------------------- MODULE DurableRecovery --------------------------
(***************************************************************************)
(* The durable recovery service: core/durable_recovery_workflow.py, which  *)
(* authorises transitions, over state/durable_recovery_store.py, which     *)
(* commits one transition as one Aurora transaction.                       *)
(*                                                                         *)
(* A command is three things that other commands run between:              *)
(*   1. the service loads the snapshot, checks the command against it and  *)
(*      builds the mutation (an action per method);                        *)
(*   2. the transaction reserves the idempotency key (Reserve), locks the  *)
(*      aggregate's version row and compares it (Lock);                    *)
(*   3. it writes event, outbox row, snapshot and receipt, and commits.    *)
(* A server or connection may die anywhere: the transaction rolls back, or *)
(* has committed and the answer is lost; the caller cannot tell which and  *)
(* may repeat the command with the same key.                               *)
(*                                                                         *)
(* One tenant: every row and key is scoped by tenant_id.  A command that a *)
(* check refuses changes nothing, so only the refusal of a repeated        *)
(* command, which its caller learns from, is a step.                       *)
(***************************************************************************)
EXTENDS Naturals, FiniteSets

CONSTANTS
  Clients,      \* concurrent callers of the service
  Recoveries,   \* the recovery identifiers uuid4 can return
  Actors, Candidates, Draft, RolesOf,
  FreeRoles,    \* bound: roles under which commands that need no role are sent
  MaxKeys,      \* bound: how many idempotency keys there are
  None

VARIABLES
  stream,      \* aggregate_stream.current_version, 0 without a row
  snapshot,    \* recovery_workflow_snapshot.snapshot
  row,         \* recovery_workflow_snapshot.state_version, 0 without a row
  events,      \* operational_event
  outbox,      \* transactional_outbox: the events to publish
  receipt,     \* workflow_command, committed rows, by idempotency key
  pc,          \* where each caller's command is
  call, next,  \* its request, and the snapshot its mutation will write
  expired,     \* candidates past expires_at
  lapsed       \* candidates whose resource hold is gone

store   == <<stream, snapshot, row, events, outbox, receipt>>
world   == <<expired, lapsed>>
command == <<pc, call, next>>
vars    == <<store, world, command>>

\* The promise, read off the snapshot table.
Lifecycle == INSTANCE RecoveryLifecycle WITH recovery <- snapshot

Keys  == 1..MaxKeys
Roles == UNION {RolesOf[a] : a \in Actors}
Types == {"create_recovery", "select_candidate", "record_validation",
          "record_feasibility", "approve_recovery", "authorize_deployment"}

\* CommandContext and arguments.  The actor is kept for the commands that
\* record one; evidence is a certificate, or a hold named by its candidate.
Call == [type: Types, recovery: Recoveries, expected: 0..5, key: Keys,
         actor: Actors \cup {None}, role: Roles, candidate: Candidates \cup {None},
         evidence: Lifecycle!Certificate \cup Candidates \cup {None}]

\* The command digest: neither candidate, evidence nor actor is part of it.
Hash(m) == <<m.type, m.expected, m.recovery, m.role>>

Receipt == [hash: Types \X (0..5) \X Recoveries \X Roles,
            recovery: Recoveries, version: 1..6, response: Lifecycle!Snapshot]

Event == [recovery: Recoveries, version: 1..6, snapshot: Lifecycle!Snapshot]

\* Nothing stored is the absent value.
ASSUME NoneAssumption ==
  /\ None \notin Actors \cup Candidates \cup Lifecycle!Certificate
  /\ None \notin Lifecycle!Snapshot /\ None \notin Call /\ None \notin Receipt

ASSUME BoundAssumption == MaxKeys \in Nat
ASSUME FreeRolesAssumption == FreeRoles \subseteq Roles

----------------------------------------------------------------------------
(* 1. The service's checks, and the snapshot it builds.                     *)

\* _load, for a caller that passes the version it last saw.
Loaded(m) == snapshot[m.recovery] # None /\ row[m.recovery] = m.expected

Status(m) == snapshot[m.recovery].status

\* Mutant: the expiry is checked when the candidate is selected, and not again.
AssertSameCandidate(m) == snapshot[m.recovery].candidate = m.candidate

\* _assert_selected: same candidate artifact, not expired.
AssertSelected(m) == snapshot[m.recovery].candidate = m.candidate /\ m.candidate \notin expired

\* hold_verifier: h is the live hold of the candidate.
HoldVerifier(h, m) == h = m.candidate /\ h \notin lapsed

\* uuid4 never repeats: no row and no running command knows the identifier.
Unused(r) == snapshot[r] = None /\ \A x \in Clients : call[x] # None => call[x].recovery # r

MayCreate(m) ==
  /\ m.type = "create_recovery"
  /\ m.expected = 0
  /\ Unused(m.recovery)

MaySelect(m) ==
  /\ m.type = "select_candidate" /\ Loaded(m)
  /\ Draft[m.candidate].recovery = m.recovery
  /\ Draft[m.candidate].version = m.expected
  /\ m.candidate \notin expired
  /\ Draft[m.candidate].legal
  /\ Status(m) = "solving"

MayValidate(m) ==
  /\ m.type = "record_validation" /\ Loaded(m)
  /\ AssertSelected(m)
  /\ Status(m) = "awaiting_validation"
  /\ m.evidence.candidate = m.candidate
  /\ m.evidence.version = m.expected

MayRecordFeasibility(m) ==
  /\ m.type = "record_feasibility" /\ Loaded(m)
  /\ AssertSelected(m)
  /\ Status(m) = "awaiting_joint_feasibility"
  /\ HoldVerifier(m.evidence, m)

MayApprove(m) ==
  /\ m.type = "approve_recovery" /\ Loaded(m)
  /\ AssertSelected(m)
  /\ Status(m) = "awaiting_approval"
  /\ m.role = "duty-manager" /\ m.role \in RolesOf[m.actor]
  /\ m.actor # snapshot[m.recovery].proposer

\* Mutant: the controller is compared with the proposer only.
NotTheProposer(a, s) == a # s.proposer

\* The controller's segregation of duties.
DistinctController(a, s) == a \notin {s.proposer, s.approver}

\* Mutant: whatever has once been approved may be authorised, again too.
OnceApproved(s) == s.approver # None

\* The deployment prerequisites: approved, with validation and feasibility.
Deployable(s) == s.status = "approved" /\ s.certificate # None /\ s.hold # None

MayAuthorize(m) ==
  /\ m.type = "authorize_deployment" /\ Loaded(m)
  /\ AssertSelected(m)
  /\ Deployable(snapshot[m.recovery])
  /\ m.role = "deployment-controller" /\ m.role \in RolesOf[m.actor]
  /\ DistinctController(m.actor, snapshot[m.recovery])
  /\ HoldVerifier(snapshot[m.recovery].hold, m)

\* The mutation's snapshot (_persist adds the version).
NextSnapshot(m) ==
  LET s == snapshot[m.recovery]
  IN CASE m.type = "create_recovery"      -> Lifecycle!Created(m.actor)
       [] m.type = "select_candidate"     -> Lifecycle!Selected(s, m.candidate)
       [] m.type = "record_validation"    -> Lifecycle!Validated(s, m.evidence)
       [] m.type = "record_feasibility"   -> Lifecycle!Feasible(s, m.evidence)
       [] m.type = "approve_recovery"     -> Lifecycle!Approved(s, m.actor)
       [] m.type = "authorize_deployment" -> Lifecycle!Authorized(s, m.actor)

Allowed(m) ==
  \/ MayCreate(m) \/ MaySelect(m) \/ MayValidate(m)
  \/ MayRecordFeasibility(m) \/ MayApprove(m) \/ MayAuthorize(m)

Enter(x, m) ==
  /\ pc' = [pc EXCEPT ![x] = "submitted"]
  /\ call' = [call EXCEPT ![x] = m]
  /\ next' = [next EXCEPT ![x] = NextSnapshot(m)]
  /\ UNCHANGED <<store, world>>

\* The keys that a row or a running command knows, and one fresh key: all
\* others are like it.
KnownKey(k) == receipt[k] # None \/ \E y \in Clients : call[y] # None /\ call[y].key = k
MayUseKey(k) == \A l \in Keys : l < k => KnownKey(l)

\* A new command, under a fresh key or one used before.
Submit(x, m) ==
  /\ pc[x] = "idle"
  /\ MayUseKey(m.key)
  /\ Enter(x, m)

Create(x) ==
  \E r \in Recoveries, k \in Keys, a \in Actors, role \in FreeRoles :
    LET m == [type |-> "create_recovery", recovery |-> r, expected |-> 0, key |-> k, actor |-> a,
              role |-> role, candidate |-> None, evidence |-> None]
    IN MayCreate(m) /\ Submit(x, m)

SelectCandidate(x) ==
  \E r \in Recoveries, k \in Keys, role \in FreeRoles, c \in Candidates :
    LET m == [type |-> "select_candidate", recovery |-> r, expected |-> row[r], key |-> k,
              actor |-> None, role |-> role, candidate |-> c, evidence |-> None]
    IN MaySelect(m) /\ Submit(x, m)

RecordValidation(x) ==
  \E r \in Recoveries, k \in Keys, role \in FreeRoles, c \in Candidates, cert \in Lifecycle!Certificate :
    LET m == [type |-> "record_validation", recovery |-> r, expected |-> row[r], key |-> k,
              actor |-> None, role |-> role, candidate |-> c, evidence |-> cert]
    IN MayValidate(m) /\ Submit(x, m)

RecordFeasibility(x) ==
  \E r \in Recoveries, k \in Keys, role \in FreeRoles, c \in Candidates, h \in Candidates :
    LET m == [type |-> "record_feasibility", recovery |-> r, expected |-> row[r], key |-> k,
              actor |-> None, role |-> role, candidate |-> c, evidence |-> h]
    IN MayRecordFeasibility(m) /\ Submit(x, m)

Approve(x) ==
  \E r \in Recoveries, k \in Keys, a \in Actors, role \in Roles, c \in Candidates :
    LET m == [type |-> "approve_recovery", recovery |-> r, expected |-> row[r], key |-> k,
              actor |-> a, role |-> role, candidate |-> c, evidence |-> None]
    IN MayApprove(m) /\ Submit(x, m)

Authorize(x) ==
  \E r \in Recoveries, k \in Keys, a \in Actors, role \in Roles, c \in Candidates :
    LET m == [type |-> "authorize_deployment", recovery |-> r, expected |-> row[r], key |-> k,
              actor |-> a, role |-> role, candidate |-> c, evidence |-> None]
    IN MayAuthorize(m) /\ Submit(x, m)

----------------------------------------------------------------------------
(* 2. and 3. The transaction.  PostgreSQL holds a transaction's locks until *)
(* it ends: a second insert of a key waits for the first one's transaction, *)
(* SELECT ... FOR UPDATE for the one that locked the row.                   *)

\* Mutant: a key is looked up first and inserted later, so nobody waits for it.
NobodyWaits(k) == FALSE

\* Mutant: a connection that died is never closed and keeps its locks.
NeverClosed == {"reserved", "locked", "unanswered"}

\* A transaction that has reserved its key.
Open == {"reserved", "locked"}

KeyLocked(k) == \E y \in Clients : pc[y] \in Open /\ call[y].key = k
StreamLocked(r) == \E y \in Clients : pc[y] = "locked" /\ call[y].recovery = r

Move(x, to) == pc' = [pc EXCEPT ![x] = to] /\ UNCHANGED <<store, world>>

\* The answer reached the caller.
Answered(x) ==
  /\ call' = [call EXCEPT ![x] = None]
  /\ next' = [next EXCEPT ![x] = None]

\* INSERT ... ON CONFLICT DO NOTHING inserted the 'processing' row.
Reserve(x) ==
  /\ pc[x] = "submitted"
  /\ ~KeyLocked(call[x].key)
  /\ receipt[call[x].key] = None
  /\ Move(x, "reserved")
  /\ UNCHANGED <<call, next>>

\* _existing_receipt: the stored answer, or IdempotencyConflict.  A committed
\* row is never 'processing', so MutationInProgress is not reached.
AlreadyAnswered(x) ==
  /\ pc[x] = "submitted"
  /\ ~KeyLocked(call[x].key)
  /\ receipt[call[x].key] # None
  /\ Move(x, "idle")
  /\ Answered(x)

\* Mutant: a command checked on an older version is let through.
VersionReached(m) == m.expected <= stream[m.recovery]

VersionMatches(m) == stream[m.recovery] = m.expected

Lock(x) ==
  /\ pc[x] = "reserved"
  /\ ~StreamLocked(call[x].recovery)
  /\ VersionMatches(call[x])
  /\ Move(x, "locked")
  /\ UNCHANGED <<call, next>>

\* OptimisticConcurrencyError: rolled back.
Conflict(x) ==
  /\ pc[x] = "reserved"
  /\ ~StreamLocked(call[x].recovery)
  /\ ~VersionMatches(call[x])
  /\ Move(x, "idle")
  /\ Answered(x)

\* Mutant: the version row is inserted by the first command and not advanced.
InsertedVersion(r) == IF stream[r] = 0 THEN 1 ELSE stream[r]

NewVersion(r) == stream[r] + 1

\* Mutant: ON CONFLICT DO NOTHING.
OnlyInserts(r) == row[r] = 0

\* INSERT INTO recovery_workflow_snapshot ... ON CONFLICT DO UPDATE ... WHERE
\* state_version = current: writes nothing when the row is at another version.
Upserts(r) == row[r] = 0 \/ row[r] = stream[r]

Commit(x) ==
  LET m == call[x]  r == m.recovery  v == NewVersion(r)
  IN /\ pc[x] = "locked"
     /\ events' = events \cup {[recovery |-> r, version |-> v, snapshot |-> next[x]]}
     /\ stream' = [stream EXCEPT ![r] = v]
     /\ outbox' = outbox \cup {<<r, v>>}
     /\ IF Upserts(r)
        THEN /\ snapshot' = [snapshot EXCEPT ![r] = next[x]]
             /\ row' = [row EXCEPT ![r] = v]
        ELSE UNCHANGED <<snapshot, row>>
     /\ receipt' = [receipt EXCEPT ![m.key] = [hash |-> Hash(m), recovery |-> r, version |-> v,
                                               response |-> next[x]]]
     /\ \/ pc' = [pc EXCEPT ![x] = "idle"] /\ Answered(x)
        \/ pc' = [pc EXCEPT ![x] = "unanswered"] /\ UNCHANGED <<call, next>>
     /\ UNCHANGED world

----------------------------------------------------------------------------
(* Failures: the server or its connection dies, the transaction is rolled   *)
(* back, and the caller repeats the command or gives it up.                 *)

Crash(x) ==
  /\ pc[x] \in {"submitted"} \cup Open
  /\ Move(x, "unanswered")
  /\ UNCHANGED <<call, next>>

\* The method runs again from its first line; create makes up a new identifier.
Repeat(x) ==
  /\ pc[x] = "unanswered"
  /\ \/ Allowed(call[x]) /\ Enter(x, call[x])
     \/ \E r \in Recoveries :
          LET m == [call[x] EXCEPT !.recovery = r] IN MayCreate(m) /\ Enter(x, m)

RepeatRefused(x) ==
  /\ pc[x] = "unanswered"
  /\ call[x].type # "create_recovery"
  /\ ~Allowed(call[x])
  /\ Move(x, "idle")
  /\ Answered(x)

GiveUp(x) ==
  /\ pc[x] = "unanswered"
  /\ Move(x, "idle")
  /\ Answered(x)

Expire(c) ==
  /\ c \notin expired
  /\ expired' = expired \cup {c}
  /\ UNCHANGED <<store, command, lapsed>>

Lapse(c) ==
  /\ c \notin lapsed
  /\ lapsed' = lapsed \cup {c}
  /\ UNCHANGED <<store, command, expired>>

----------------------------------------------------------------------------
Init ==
  /\ stream = [r \in Recoveries |-> 0]
  /\ snapshot = [r \in Recoveries |-> None]
  /\ row = [r \in Recoveries |-> 0]
  /\ events = {} /\ outbox = {}
  /\ receipt = [k \in Keys |-> None]
  /\ pc = [x \in Clients |-> "idle"]
  /\ call = [x \in Clients |-> None]
  /\ next = [x \in Clients |-> None]
  /\ expired = {} /\ lapsed = {}

Method(x) ==
  \/ Create(x) \/ SelectCandidate(x) \/ RecordValidation(x)
  \/ RecordFeasibility(x) \/ Approve(x) \/ Authorize(x)

Transaction(x) == Reserve(x) \/ AlreadyAnswered(x) \/ Lock(x) \/ Conflict(x) \/ Commit(x)

Failure(x) == Crash(x) \/ Repeat(x) \/ RepeatRefused(x) \/ GiveUp(x)

Next ==
  \/ \E x \in Clients : Method(x) \/ Transaction(x) \/ Failure(x)
  \/ \E c \in Candidates : Expire(c) \/ Lapse(c)

Spec == Init /\ [][Next]_vars

\* A running server executes the statements it has reached, and PostgreSQL
\* queues the waiters of a lock, so that each gets its turn.  Nobody has to
\* send a command, to repeat one, or to crash.
FairSpec ==
  /\ Spec
  /\ \A x \in Clients :
       /\ SF_vars(Reserve(x) \/ AlreadyAnswered(x))
       /\ SF_vars(Lock(x) \/ Conflict(x))
       /\ WF_vars(Commit(x))

----------------------------------------------------------------------------
(* Properties                                                               *)

\* Every row, lock and request has the shape the code gives it.
TypeOK ==
  /\ stream \in [Recoveries -> 0..6]
  /\ snapshot \in [Recoveries -> Lifecycle!Snapshot \cup {None}]
  /\ row \in [Recoveries -> 0..6]
  /\ events \subseteq Event
  /\ outbox \subseteq Recoveries \X (1..6)
  /\ receipt \in [Keys -> Receipt \cup {None}]
  /\ pc \in [Clients -> {"idle", "submitted", "reserved", "locked", "unanswered"}]
  /\ call \in [Clients -> Call \cup {None}]
  /\ next \in [Clients -> Lifecycle!Snapshot \cup {None}]
  /\ expired \subseteq Candidates /\ lapsed \subseteq Candidates

\* Stream version, snapshot row, event log and outbox agree on every recovery:
\* the log has exactly the versions 1..current, the last event carries the
\* stored snapshot, and each event waits to be published.  The upsert's
\* row count is not checked by mutate, so a row at another version would be
\* skipped in silence.
StoreConsistent ==
  /\ \A r \in Recoveries :
       /\ row[r] = stream[r]
       /\ row[r] = (IF snapshot[r] = None THEN 0 ELSE snapshot[r].version)
       /\ {e.version : e \in {f \in events : f.recovery = r}} = 1..stream[r]
       /\ snapshot[r] # None =>
            [recovery |-> r, version |-> stream[r], snapshot |-> snapshot[r]] \in events
  /\ \A e, f \in events : e.recovery = f.recovery /\ e.version = f.version => e = f
  /\ outbox = {<<e.recovery, e.version>> : e \in events}

\* A key executes at most one mutation, and every mutation can be answered
\* again: each event has exactly one receipt, which holds its snapshot.
OneReceiptPerEvent ==
  /\ \A e \in events : \E k \in Keys :
       /\ receipt[k] # None
       /\ receipt[k].recovery = e.recovery
       /\ receipt[k].version = e.version
       /\ receipt[k].response = e.snapshot
  /\ \A k, l \in Keys :
       (/\ receipt[k] # None /\ receipt[l] # None
        /\ receipt[k].recovery = receipt[l].recovery
        /\ receipt[k].version = receipt[l].version) => k = l

\* What a recovery has collected always concerns the one selected candidate,
\* and proposer, approver and deployment controller are different people,
\* however the checks and commits of concurrent commands interleave.
EvidenceHolds ==
  \A r \in Recoveries : snapshot[r] # None =>
    LET s == snapshot[r]
    IN /\ s.status # "solving" => s.candidate # None /\ Draft[s.candidate].legal
       /\ s.certificate # None =>
            s.certificate.candidate = s.candidate /\ s.certificate.version = Draft[s.candidate].version + 1
       /\ s.hold \in {None, s.candidate}
       /\ s.approver # s.proposer \/ s.approver = None
       /\ s.status = "deployment_authorized" =>
            /\ None \notin {s.certificate, s.hold, s.approver, s.controller}
            /\ s.controller \notin {s.proposer, s.approver}

\* The service checks a command on a snapshot it read before the transaction;
\* a command that the version check will still let through was checked on the
\* very state it replaces.
InFlight(x) == pc[x] \in {"submitted", "reserved", "locked"}

WinnerIsNotStale ==
  \A x \in Clients : InFlight(x) /\ stream[call[x].recovery] = call[x].expected =>
    next[x] = NextSnapshot(call[x])

\* Concurrent commands, crashes and repeated commands only ever do to a
\* recovery what the atomic life cycle does.
ImplementsLifecycle == Lifecycle!Spec

\* Once the selected candidate has expired and no command checked before that
\* is still running, the recovery never changes again: nothing is approved or
\* authorised on an expired plan, and nothing can be selected in its place,
\* because no code sets the "awaiting_review" that select_candidate accepts.
Frozen(r) ==
  /\ snapshot[r] # None
  /\ snapshot[r].candidate \in expired
  /\ \A x \in Clients : InFlight(x) => call[x].recovery # r

ExpiredPlanIsFrozen == [][\A r \in Recoveries : Frozen(r) => Frozen(r)' /\ snapshot'[r] = snapshot[r]]_vars

\* Every command that reaches the database is answered or its connection
\* fails: callers that queue for a key or a version row never wait for ever.
EveryCommandEnds == \A x \in Clients : InFlight(x) ~> ~InFlight(x)

----------------------------------------------------------------------------
(* What the repository says and the code does not do.                       *)

\* state/durable_recovery_store.py: IdempotencyConflict is "The same
\* idempotency key was reused for a different command".
ReplayAnswersTheSameCommand ==
  \A x \in Clients :
    (pc[x] = "submitted" /\ receipt[call[x].key] # None /\ receipt[call[x].key].hash = Hash(call[x]))
      => receipt[call[x].key].response = next[x]
============================================================================
