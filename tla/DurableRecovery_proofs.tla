----------------------- MODULE DurableRecovery_proofs ----------------------
(***************************************************************************)
(* Proofs about the durable recovery service, for any number of callers,   *)
(* recoveries, actors, candidates and keys.                                *)
(*                                                                         *)
(* The heart is Pending: a command in flight was checked on a snapshot     *)
(* that may have been replaced since, but if the stream is still at the    *)
(* version it expects, then what its checks established (Lawful) holds of  *)
(* the snapshot it is about to replace.  A commit raises the version of    *)
(* its recovery above every version that commands in flight expect, so it  *)
(* makes the others harmless and needs nothing from them.                  *)
(***************************************************************************)
EXTENDS DurableRecovery, TLAPS

\* What the checks of command m say about the snapshot it was checked on.
Lawful(m) ==
  \/ /\ m.type = "create_recovery"
     /\ m.expected = 0 /\ m.actor \in Actors
     /\ snapshot[m.recovery] = None
  \/ /\ m.type = "select_candidate"
     /\ snapshot[m.recovery] # None
     /\ m.candidate \in Candidates
     /\ Draft[m.candidate].recovery = m.recovery
     /\ Draft[m.candidate].version = m.expected
     /\ Draft[m.candidate].legal
     /\ Status(m) = "solving"
  \/ /\ m.type = "record_validation"
     /\ snapshot[m.recovery] # None
     /\ Status(m) = "awaiting_validation"
     /\ m.evidence \in Lifecycle!Certificate
     /\ m.evidence.candidate = snapshot[m.recovery].candidate
     /\ m.evidence.version = m.expected
  \/ /\ m.type = "record_feasibility"
     /\ snapshot[m.recovery] # None
     /\ Status(m) = "awaiting_joint_feasibility"
     /\ m.evidence \in Candidates
     /\ m.evidence = snapshot[m.recovery].candidate
  \/ /\ m.type = "approve_recovery"
     /\ snapshot[m.recovery] # None
     /\ Status(m) = "awaiting_approval"
     /\ m.actor \in Actors
     /\ "duty-manager" \in RolesOf[m.actor]
     /\ m.actor # snapshot[m.recovery].proposer
  \/ /\ m.type = "authorize_deployment"
     /\ snapshot[m.recovery] # None
     /\ Status(m) = "approved"
     /\ m.actor \in Actors
     /\ "deployment-controller" \in RolesOf[m.actor]
     /\ m.actor \notin {snapshot[m.recovery].proposer, snapshot[m.recovery].approver}

\* A request carries the arguments of its method.
WellFormed(m) ==
  /\ m \in Call
  /\ m.type \in {"create_recovery", "approve_recovery", "authorize_deployment"} => m.actor \in Actors
  /\ m.type = "select_candidate" => m.candidate \in Candidates
  /\ m.type = "record_validation" => m.evidence \in Lifecycle!Certificate
  /\ m.type = "record_feasibility" => m.evidence \in Candidates

\* The stage of a recovery determines its version.
Staged(s) ==
  /\ s.status = "solving" => s.version = 1
  /\ s.status = "awaiting_validation" => s.version = 2
  /\ s.status = "awaiting_joint_feasibility" => s.version = 3
  /\ s.status = "awaiting_approval" => s.version = 4
  /\ s.status = "approved" => s.version = 5
  /\ s.status = "deployment_authorized" => s.version = 6

Coherent ==
  \A r \in Recoveries :
    /\ row[r] = stream[r]
    /\ snapshot[r] = None => stream[r] = 0
    /\ snapshot[r] # None => snapshot[r].version = stream[r] /\ Staged(snapshot[r])

Pending ==
  \A x \in Clients :
    /\ pc[x] # "idle" => WellFormed(call[x])
    /\ InFlight(x) =>
         /\ call[x].expected <= stream[call[x].recovery]
         /\ stream[call[x].recovery] = call[x].expected =>
              Lawful(call[x]) /\ next[x] = NextSnapshot(call[x])

OneWriter ==
  /\ \A x \in Clients : pc[x] = "locked" => stream[call[x].recovery] = call[x].expected
  /\ \A x, y \in Clients :
       pc[x] = "locked" /\ pc[y] = "locked" /\ call[x].recovery = call[y].recovery => x = y

Shape ==
  /\ stream \in [Recoveries -> 0..6]
  /\ snapshot \in [Recoveries -> Lifecycle!Snapshot \cup {None}]
  /\ row \in [Recoveries -> 0..6]
  /\ pc \in [Clients -> {"idle", "submitted", "reserved", "locked", "unanswered"}]
  /\ call \in [Clients -> Call \cup {None}]
  /\ next \in [Clients -> Lifecycle!Snapshot \cup {None}]

IInv == Shape /\ Coherent /\ Pending /\ OneWriter

----------------------------------------------------------------------------
(* One command.                                                             *)

\* The service's checks establish Lawful.
LEMMA AllowedIsLawful ==
  ASSUME NEW m, WellFormed(m), Allowed(m)
  PROVE  Lawful(m)
<1>1. CASE MayCreate(m)
  BY <1>1 DEF MayCreate, Lawful, Unused, WellFormed
<1>2. CASE MaySelect(m)
  BY <1>2 DEF MaySelect, Lawful, Loaded, WellFormed
<1>3. CASE MayValidate(m)
  BY <1>3 DEF MayValidate, Lawful, Loaded, WellFormed, AssertSelected
<1>4. CASE MayRecordFeasibility(m)
  BY <1>4 DEF MayRecordFeasibility, Lawful, Loaded, WellFormed, AssertSelected, HoldVerifier
<1>5. CASE MayApprove(m)
  BY <1>5 DEF MayApprove, Lawful, Loaded, WellFormed
<1>6. CASE MayAuthorize(m)
  BY <1>6 DEF MayAuthorize, Lawful, Loaded, Status, WellFormed, Deployable,
            DistinctController
<1> QED BY <1>1, <1>2, <1>3, <1>4, <1>5, <1>6 DEF Allowed

\* A checked command expects the version the recovery has.
LEMMA AllowedExpects ==
  ASSUME Coherent, NEW m, WellFormed(m), Allowed(m)
  PROVE  stream[m.recovery] = m.expected
<1>1. m.recovery \in Recoveries
  BY DEF WellFormed, Call
<1>2. CASE MayCreate(m)
  BY <1>1, <1>2 DEF MayCreate, Unused, Coherent
<1>3. CASE ~MayCreate(m)
  <2>1. Loaded(m)
    BY <1>3 DEF Allowed, MaySelect, MayValidate, MayRecordFeasibility, MayApprove, MayAuthorize
  <2> QED BY <1>1, <2>1 DEF Loaded, Coherent
<1> QED BY <1>2, <1>3

\* The snapshot a lawful command writes has the right shape, the next version
\* and the stage that goes with it.
LEMMA NextSnapshotShape ==
  ASSUME Shape, Coherent, NEW m, m \in Call, Lawful(m), stream[m.recovery] = m.expected
  PROVE  /\ NextSnapshot(m) \in Lifecycle!Snapshot
         /\ NextSnapshot(m).version = m.expected + 1
         /\ Staged(NextSnapshot(m))
<1> DEFINE s == snapshot[m.recovery]
<1>1. m.recovery \in Recoveries
  BY DEF Call
<1>2. s # None => s \in Lifecycle!Snapshot /\ s.version = m.expected /\ Staged(s)
  BY <1>1 DEF Shape, Coherent
<1>3. CASE m.type = "create_recovery"
  <2>1. m.actor \in Actors /\ m.expected = 0
    BY <1>3 DEF Lawful
  <2>2. NextSnapshot(m) = Lifecycle!Created(m.actor)
    BY <1>3 DEF NextSnapshot
  <2> QED BY <2>1, <2>2 DEF Lifecycle!Created, Lifecycle!Snapshot, Lifecycle!Statuses, Staged
<1>4. CASE m.type = "select_candidate"
  <2>1. m.candidate \in Candidates /\ s # None /\ s.status = "solving"
    BY <1>4 DEF Lawful, Status
  <2>2. NextSnapshot(m) = Lifecycle!Selected(s, m.candidate)
    BY <1>4 DEF NextSnapshot
  <2>3. s \in Lifecycle!Snapshot /\ s.version = m.expected /\ Staged(s) /\ s.version + 1 \in 1..6
    BY <1>2, <2>1 DEF Staged
  <2>4. Lifecycle!Selected(s, m.candidate) \in Lifecycle!Snapshot
    BY <2>1, <2>3 DEF Lifecycle!Selected, Lifecycle!Snapshot, Lifecycle!Statuses
  <2> QED BY <2>1, <2>2, <2>3, <2>4 DEF Lifecycle!Selected, Lifecycle!Snapshot, Staged
<1>5. CASE m.type = "record_validation"
  <2>1. m.evidence \in Lifecycle!Certificate /\ s # None /\ s.status = "awaiting_validation"
    BY <1>5 DEF Lawful, Status
  <2>2. NextSnapshot(m) = Lifecycle!Validated(s, m.evidence)
    BY <1>5 DEF NextSnapshot
  <2>3. s \in Lifecycle!Snapshot /\ s.version = m.expected /\ Staged(s) /\ s.version + 1 \in 1..6
    BY <1>2, <2>1 DEF Staged
  <2>4. Lifecycle!Validated(s, m.evidence) \in Lifecycle!Snapshot
    BY <2>1, <2>3 DEF Lifecycle!Validated, Lifecycle!Snapshot, Lifecycle!Statuses
  <2> QED BY <2>1, <2>2, <2>3, <2>4 DEF Lifecycle!Validated, Lifecycle!Snapshot, Staged
<1>6. CASE m.type = "record_feasibility"
  <2>1. m.evidence \in Candidates /\ s # None /\ s.status = "awaiting_joint_feasibility"
    BY <1>6 DEF Lawful, Status
  <2>2. NextSnapshot(m) = Lifecycle!Feasible(s, m.evidence)
    BY <1>6 DEF NextSnapshot
  <2>3. s \in Lifecycle!Snapshot /\ s.version = m.expected /\ Staged(s) /\ s.version + 1 \in 1..6
    BY <1>2, <2>1 DEF Staged
  <2>4. Lifecycle!Feasible(s, m.evidence) \in Lifecycle!Snapshot
    BY <2>1, <2>3 DEF Lifecycle!Feasible, Lifecycle!Snapshot, Lifecycle!Statuses
  <2> QED BY <2>1, <2>2, <2>3, <2>4 DEF Lifecycle!Feasible, Lifecycle!Snapshot, Staged
<1>7. CASE m.type = "approve_recovery"
  <2>1. m.actor \in Actors /\ s # None /\ s.status = "awaiting_approval"
    BY <1>7 DEF Lawful, Status
  <2>2. NextSnapshot(m) = Lifecycle!Approved(s, m.actor)
    BY <1>7 DEF NextSnapshot
  <2>3. s \in Lifecycle!Snapshot /\ s.version = m.expected /\ Staged(s) /\ s.version + 1 \in 1..6
    BY <1>2, <2>1 DEF Staged
  <2>4. Lifecycle!Approved(s, m.actor) \in Lifecycle!Snapshot
    BY <2>1, <2>3 DEF Lifecycle!Approved, Lifecycle!Snapshot, Lifecycle!Statuses
  <2> QED BY <2>1, <2>2, <2>3, <2>4 DEF Lifecycle!Approved, Lifecycle!Snapshot, Staged
<1>8. CASE m.type = "authorize_deployment"
  <2>1. m.actor \in Actors /\ s # None /\ s.status = "approved"
    BY <1>8 DEF Lawful, Status
  <2>2. NextSnapshot(m) = Lifecycle!Authorized(s, m.actor)
    BY <1>8 DEF NextSnapshot
  <2>3. s \in Lifecycle!Snapshot /\ s.version = m.expected /\ Staged(s) /\ s.version + 1 \in 1..6
    BY <1>2, <2>1 DEF Staged
  <2>4. Lifecycle!Authorized(s, m.actor) \in Lifecycle!Snapshot
    BY <2>1, <2>3 DEF Lifecycle!Authorized, Lifecycle!Snapshot, Lifecycle!Statuses
  <2> QED BY <2>1, <2>2, <2>3, <2>4 DEF Lifecycle!Authorized, Lifecycle!Snapshot, Staged
<1> QED BY <1>3, <1>4, <1>5, <1>6, <1>7, <1>8 DEF Lawful

\* Writing a lawful command's snapshot is a step of the atomic life cycle.
LEMMA LawfulIsAStep ==
  ASSUME Shape, Coherent, NEW m, m \in Call, Lawful(m), stream[m.recovery] = m.expected,
         snapshot' = [snapshot EXCEPT ![m.recovery] = NextSnapshot(m)]
  PROVE  Lifecycle!Next
<1> DEFINE r == m.recovery
           s == snapshot[r]
<1>1. r \in Recoveries
  BY DEF Call
<1>2. s # None => s \in Lifecycle!Snapshot /\ s.version = m.expected
  BY <1>1 DEF Shape, Coherent
<1>3. CASE m.type = "create_recovery"
  <2>1. Lifecycle!Create(r, m.actor) /\ m.actor \in Actors
    BY <1>3 DEF Lawful, NextSnapshot, Lifecycle!Create, Lifecycle!Set
  <2> QED BY <1>1, <2>1 DEF Lifecycle!Next
<1>4. CASE m.type = "select_candidate"
  <2>1. Lifecycle!Select(r, m.candidate) /\ m.candidate \in Candidates
    BY <1>2, <1>4 DEF Lawful, Status, NextSnapshot, Lifecycle!Select, Lifecycle!Set
  <2> QED BY <1>1, <2>1 DEF Lifecycle!Next
<1>5. CASE m.type = "record_validation"
  <2>1. m.evidence = [candidate |-> s.candidate, version |-> s.version]
    BY <1>2, <1>5 DEF Lawful, Lifecycle!Certificate
  <2>2. Lifecycle!Validate(r)
    BY <1>5, <2>1 DEF Lawful, Status, NextSnapshot, Lifecycle!Validate, Lifecycle!Set
  <2> QED BY <1>1, <2>2 DEF Lifecycle!Next
<1>6. CASE m.type = "record_feasibility"
  <2>1. Lifecycle!PassFeasibility(r)
    BY <1>6 DEF Lawful, Status, NextSnapshot, Lifecycle!PassFeasibility, Lifecycle!Set
  <2> QED BY <1>1, <2>1 DEF Lifecycle!Next
<1>7. CASE m.type = "approve_recovery"
  <2>1. Lifecycle!Approve(r, m.actor) /\ m.actor \in Actors
    BY <1>7 DEF Lawful, Status, NextSnapshot, Lifecycle!Approve, Lifecycle!Set
  <2> QED BY <1>1, <2>1 DEF Lifecycle!Next
<1>8. CASE m.type = "authorize_deployment"
  <2>1. Lifecycle!Authorize(r, m.actor) /\ m.actor \in Actors
    BY <1>8 DEF Lawful, Status, NextSnapshot, Lifecycle!Authorize, Lifecycle!Set
  <2> QED BY <1>1, <2>1 DEF Lifecycle!Next
<1> QED BY <1>3, <1>4, <1>5, <1>6, <1>7, <1>8 DEF Lawful

----------------------------------------------------------------------------
(* The invariant.                                                           *)

\* What was established for a command stays so while its recovery's snapshot
\* and the command itself do not change.
LEMMA LawfulKept ==
  ASSUME NEW x \in Clients, Lawful(call[x]), next[x] = NextSnapshot(call[x]),
         call'[x] = call[x], next'[x] = next[x],
         snapshot'[call[x].recovery] = snapshot[call[x].recovery]
  PROVE  Lawful(call[x])' /\ (next[x] = NextSnapshot(call[x]))'
<1>1. Lawful(call[x])'
  BY DEF Lawful, Status
<1>2. (next[x] = NextSnapshot(call[x]))'
  BY DEF NextSnapshot, Lifecycle!Created, Lifecycle!Selected, Lifecycle!Validated,
         Lifecycle!Feasible, Lifecycle!Approved, Lifecycle!Authorized
<1> QED BY <1>1, <1>2

\* A command whose caller, recovery and version row a step leaves alone stays
\* pending.
LEMMA PendingKept ==
  ASSUME IInv, NEW x \in Clients,
         pc'[x] # "idle" => pc[x] # "idle",
         pc'[x] \in {"submitted", "reserved", "locked"} => InFlight(x),
         call'[x] = call[x], next'[x] = next[x],
         InFlight(x) =>
           \/ /\ snapshot'[call[x].recovery] = snapshot[call[x].recovery]
              /\ stream'[call[x].recovery] = stream[call[x].recovery]
           \/ /\ stream'[call[x].recovery] \in Nat
              /\ call[x].expected < stream'[call[x].recovery]
  PROVE  /\ pc'[x] # "idle" => WellFormed(call'[x])
         /\ InFlight(x)' =>
              /\ call'[x].expected <= stream'[call'[x].recovery]
              /\ stream'[call'[x].recovery] = call'[x].expected =>
                   Lawful(call[x])' /\ (next[x] = NextSnapshot(call[x]))'
<1>1. pc'[x] # "idle" => WellFormed(call'[x])
  BY DEF IInv, Pending
<1>2. ASSUME InFlight(x)'
      PROVE  /\ InFlight(x) /\ WellFormed(call[x])
             /\ call[x].expected \in 0..5
             /\ call[x].expected <= stream[call[x].recovery]
  BY <1>2 DEF IInv, Pending, InFlight, WellFormed, Call
<1>3. ASSUME InFlight(x)', stream'[call[x].recovery] \in Nat,
             call[x].expected < stream'[call[x].recovery]
      PROVE  /\ call'[x].expected <= stream'[call'[x].recovery]
             /\ stream'[call'[x].recovery] # call'[x].expected
  <2>1. call[x].expected \in 0..5
    BY <1>2, <1>3
  <2> QED BY <1>3, <2>1
<1>4. ASSUME InFlight(x)',
             snapshot'[call[x].recovery] = snapshot[call[x].recovery],
             stream'[call[x].recovery] = stream[call[x].recovery]
      PROVE  /\ call'[x].expected <= stream'[call'[x].recovery]
             /\ stream'[call'[x].recovery] = call'[x].expected =>
                  Lawful(call[x])' /\ (next[x] = NextSnapshot(call[x]))'
  <2>1. stream[call[x].recovery] = call[x].expected =>
          Lawful(call[x]) /\ next[x] = NextSnapshot(call[x])
    BY <1>2, <1>4 DEF IInv, Pending
  <2> QED BY <1>2, <1>4, <2>1, LawfulKept
<1> QED BY <1>1, <1>2, <1>3, <1>4

\* The last step of each lemma below.
LEMMA PendingIs ==
  (\A x \in Clients :
     /\ pc'[x] # "idle" => WellFormed(call'[x])
     /\ InFlight(x)' =>
          /\ call'[x].expected <= stream'[call'[x].recovery]
          /\ stream'[call'[x].recovery] = call'[x].expected =>
               Lawful(call[x])' /\ (next[x] = NextSnapshot(call[x]))')
  => Pending'
BY DEF Pending

\* A method that passes its checks, for the first time or again.
LEMMA EnterInv ==
  ASSUME IInv, NEW x \in Clients, pc[x] \in {"idle", "unanswered"},
         NEW m, WellFormed(m), Allowed(m), Enter(x, m)
  PROVE  IInv'
<1>1. /\ pc' = [pc EXCEPT ![x] = "submitted"]
      /\ call' = [call EXCEPT ![x] = m]
      /\ next' = [next EXCEPT ![x] = NextSnapshot(m)]
      /\ UNCHANGED <<stream, snapshot, row>>
  BY DEF Enter, store
<1>2. Shape /\ Coherent /\ Pending /\ OneWriter
  BY DEF IInv
<1>3. Lawful(m) /\ stream[m.recovery] = m.expected /\ m \in Call
  BY <1>2, AllowedIsLawful, AllowedExpects DEF WellFormed
<1>4. NextSnapshot(m) \in Lifecycle!Snapshot
  BY <1>2, <1>3, NextSnapshotShape
<1>5. /\ pc'[x] = "submitted" /\ call'[x] = m /\ next'[x] = NextSnapshot(m)
      /\ \A y \in Clients : y # x => pc'[y] = pc[y] /\ call'[y] = call[y] /\ next'[y] = next[y]
  BY <1>1, <1>2 DEF Shape
<1>6. Shape'
  BY <1>1, <1>2, <1>3, <1>4 DEF Shape
<1>7. Coherent'
  BY <1>1, <1>2 DEF Coherent, Staged
<1>8. Pending'
  <2>1. Lawful(call[x])' /\ (next[x] = NextSnapshot(call[x]))'
    <3>1. Lawful(call[x])'
      <4>1. snapshot' = snapshot /\ call'[x] = m /\ Lawful(m)
        BY <1>1, <1>3, <1>5
      <4> QED BY ONLY <4>1 DEF Lawful, Status
    <3>2. (next[x] = NextSnapshot(call[x]))'
      BY <1>1, <1>5 DEF NextSnapshot, Lifecycle!Created, Lifecycle!Selected, Lifecycle!Validated,
         Lifecycle!Feasible, Lifecycle!Approved, Lifecycle!Authorized
    <3> QED BY <3>1, <3>2
  <2>2. call'[x].expected <= stream'[call'[x].recovery]
    BY <1>1, <1>3, <1>5 DEF Call
  <2>3. ASSUME NEW y \in Clients, y # x
        PROVE  /\ pc'[y] # "idle" => WellFormed(call'[y])
               /\ InFlight(y)' =>
                    /\ call'[y].expected <= stream'[call'[y].recovery]
                    /\ stream'[call'[y].recovery] = call'[y].expected =>
                         Lawful(call[y])' /\ (next[y] = NextSnapshot(call[y]))'
    BY <1>1, <1>5, <2>3, PendingKept DEF InFlight
  <2> QED BY <1>5, <2>1, <2>2, <2>3, PendingIs
<1>9. OneWriter'
  BY <1>1, <1>2, <1>5 DEF OneWriter
<1> QED BY <1>6, <1>7, <1>8, <1>9 DEF IInv

\* A statement of the transaction short of its commit, or a failure.
LEMMA MoveInv ==
  ASSUME IInv, NEW x \in Clients,
         NEW to \in {"idle", "reserved", "locked", "unanswered"}, Move(x, to),
         \/ to = "idle" /\ Answered(x)
         \/ UNCHANGED <<call, next>> /\ pc[x] # "idle" /\ (to # "unanswered" => InFlight(x)),
         to = "locked" => VersionMatches(call[x]) /\ ~StreamLocked(call[x].recovery)
  PROVE  IInv'
<1>1. pc' = [pc EXCEPT ![x] = to] /\ UNCHANGED <<stream, snapshot, row>>
  BY DEF Move, store
<1>2. Shape /\ Coherent /\ Pending /\ OneWriter
  BY DEF IInv
<1>3. /\ pc'[x] = to
      /\ \A y \in Clients : y # x => pc'[y] = pc[y] /\ call'[y] = call[y] /\ next'[y] = next[y]
      /\ to # "idle" => call'[x] = call[x] /\ next'[x] = next[x]
  BY <1>1, <1>2 DEF Shape, Answered
<1>4. Shape'
  BY <1>1, <1>2 DEF Shape, Answered
<1>5. Coherent'
  BY <1>1, <1>2 DEF Coherent, Staged
<1>6. Pending'
  <2>1. ASSUME NEW y \in Clients, y # x \/ to # "idle"
        PROVE  /\ pc'[y] # "idle" => WellFormed(call'[y])
               /\ InFlight(y)' =>
                    /\ call'[y].expected <= stream'[call'[y].recovery]
                    /\ stream'[call'[y].recovery] = call'[y].expected =>
                         Lawful(call[y])' /\ (next[y] = NextSnapshot(call[y]))'
    BY <1>1, <1>3, <2>1, PendingKept DEF InFlight
  <2>2. to = "idle" => ~InFlight(x)'
    BY <1>3 DEF InFlight
  <2> QED BY <1>3, <2>1, <2>2, PendingIs
<1>7. OneWriter'
  <2>1. CASE to # "locked"
    BY <1>1, <1>2, <1>3, <2>1 DEF OneWriter
  <2>2. CASE to = "locked"
    BY <1>1, <1>2, <1>3, <2>2 DEF OneWriter, VersionMatches, StreamLocked
  <2> QED BY <2>1, <2>2
<1> QED BY <1>4, <1>5, <1>6, <1>7 DEF IInv

\* What a commit does: it writes the next snapshot of a lawful command.
LEMMA CommitWrites ==
  ASSUME IInv, NEW x \in Clients, Commit(x)
  PROVE  /\ call[x] \in Call /\ Lawful(call[x])
         /\ stream[call[x].recovery] = call[x].expected
         /\ next[x] = NextSnapshot(call[x])
         /\ snapshot' = [snapshot EXCEPT ![call[x].recovery] = next[x]]
         /\ stream' = [stream EXCEPT ![call[x].recovery] = call[x].expected + 1]
         /\ row' = [row EXCEPT ![call[x].recovery] = call[x].expected + 1]
<1> DEFINE r == call[x].recovery
<1>1. pc[x] = "locked"
  BY DEF Commit
<1>2. stream[r] = call[x].expected
  BY <1>1 DEF IInv, OneWriter
<1>3. call[x] \in Call /\ r \in Recoveries
  BY <1>1 DEF IInv, Pending, WellFormed, Call
<1>4. Lawful(call[x]) /\ next[x] = NextSnapshot(call[x])
  BY <1>1, <1>2 DEF IInv, Pending, InFlight
<1>5. Upserts(r)
  BY <1>3 DEF Upserts, IInv, Coherent
<1>6. /\ snapshot' = [snapshot EXCEPT ![r] = next[x]]
      /\ stream' = [stream EXCEPT ![r] = NewVersion(r)]
      /\ row' = [row EXCEPT ![r] = NewVersion(r)]
  BY <1>5 DEF Commit
<1> QED BY <1>2, <1>3, <1>4, <1>6 DEF NewVersion

\* The commit of a locked command keeps the inductive invariant.
LEMMA CommitInv ==
  ASSUME IInv, NEW x \in Clients, Commit(x)
  PROVE  IInv'
<1> DEFINE m == call[x]
           r == call[x].recovery
<1>1. /\ m \in Call /\ Lawful(m)
      /\ stream[r] = m.expected
      /\ next[x] = NextSnapshot(m)
      /\ snapshot' = [snapshot EXCEPT ![r] = next[x]]
      /\ stream' = [stream EXCEPT ![r] = m.expected + 1]
      /\ row' = [row EXCEPT ![r] = m.expected + 1]
  BY CommitWrites
<1>2. Shape /\ Coherent /\ Pending /\ OneWriter
  BY DEF IInv
<1>3. r \in Recoveries /\ m.expected \in 0..5
  BY <1>1 DEF Call
<1>4. next[x] \in Lifecycle!Snapshot /\ next[x].version = m.expected + 1 /\ Staged(next[x])
  BY <1>1, <1>2, NextSnapshotShape
<1>5. /\ pc[x] = "locked"
      /\ \/ pc' = [pc EXCEPT ![x] = "idle"] /\ Answered(x)
         \/ pc' = [pc EXCEPT ![x] = "unanswered"] /\ UNCHANGED <<call, next>>
  BY DEF Commit
<1>6. /\ pc'[x] \in {"idle", "unanswered"}
      /\ pc'[x] = "unanswered" => call'[x] = call[x]
      /\ \A y \in Clients : y # x => pc'[y] = pc[y] /\ call'[y] = call[y] /\ next'[y] = next[y]
  BY <1>2, <1>5 DEF Shape, Answered
<1>7. /\ snapshot'[r] = next[x] /\ stream'[r] = m.expected + 1 /\ row'[r] = m.expected + 1
      /\ \A q \in Recoveries : q # r =>
           snapshot'[q] = snapshot[q] /\ stream'[q] = stream[q] /\ row'[q] = row[q]
  BY <1>1, <1>2, <1>3 DEF Shape
<1>8. Shape'
  <2>1. stream' \in [Recoveries -> 0..6] /\ row' \in [Recoveries -> 0..6]
    BY <1>1, <1>2, <1>3 DEF Shape
  <2>2. snapshot' \in [Recoveries -> Lifecycle!Snapshot \cup {None}]
    BY <1>1, <1>2, <1>4 DEF Shape
  <2>3. /\ pc' \in [Clients -> {"idle", "submitted", "reserved", "locked", "unanswered"}]
        /\ call' \in [Clients -> Call \cup {None}]
        /\ next' \in [Clients -> Lifecycle!Snapshot \cup {None}]
    BY <1>2, <1>5 DEF Shape, Answered
  <2> QED BY <2>1, <2>2, <2>3 DEF Shape
<1>9. Coherent'
  <2>1. next[x] # None
    BY <1>4, NoneAssumption
  <2>2. \A q \in Recoveries :
          /\ row'[q] = stream'[q]
          /\ snapshot'[q] = None => stream'[q] = 0
          /\ snapshot'[q] # None => snapshot'[q].version = stream'[q]
    BY <1>2, <1>4, <1>7, <2>1 DEF Coherent
  <2>3. \A q \in Recoveries : snapshot'[q] # None => Staged(snapshot'[q])
    BY <1>2, <1>4, <1>7 DEF Coherent
  <2>4. \A q \in Recoveries : Staged(snapshot'[q]) <=> Staged(snapshot[q])'
    BY DEF Staged
  <2> QED BY <2>2, <2>3, <2>4 DEF Coherent
<1>10. Pending'
  <2>1. ASSUME NEW y \in Clients, y # x
        PROVE  /\ pc'[y] # "idle" => WellFormed(call'[y])
               /\ InFlight(y)' =>
                    /\ call'[y].expected <= stream'[call'[y].recovery]
                    /\ stream'[call'[y].recovery] = call'[y].expected =>
                         Lawful(call[y])' /\ (next[y] = NextSnapshot(call[y]))'
    <3>1. pc'[y] = pc[y] /\ call'[y] = call[y] /\ next'[y] = next[y]
      BY <1>6, <2>1
    <3>2. InFlight(y) => /\ call[y].recovery \in Recoveries /\ call[y].expected \in 0..5
                         /\ call[y].expected <= stream[call[y].recovery]
      BY <1>2 DEF Pending, InFlight, WellFormed, Call
    <3>3. InFlight(y) =>
            \/ /\ snapshot'[call[y].recovery] = snapshot[call[y].recovery]
               /\ stream'[call[y].recovery] = stream[call[y].recovery]
            \/ /\ stream'[call[y].recovery] \in Nat
               /\ call[y].expected < stream'[call[y].recovery]
      BY <1>1, <1>3, <1>7, <3>2
    <3> QED BY <3>1, <3>3, PendingKept DEF InFlight
  <2>2. ~InFlight(x)'
    BY <1>6 DEF InFlight
  <2>3. pc'[x] # "idle" => WellFormed(call'[x])
    BY <1>2, <1>5, <1>6 DEF Pending
  <2> QED BY <2>1, <2>2, <2>3, PendingIs
<1>11. OneWriter'
  <2>1. ASSUME NEW y \in Clients, pc'[y] = "locked"
        PROVE  /\ y # x /\ pc[y] = "locked" /\ call'[y] = call[y]
               /\ call[y].recovery \in Recoveries /\ call[y].recovery # r
    <3>1. y # x
      BY <1>6, <2>1
    <3>2. pc[y] = "locked" /\ call'[y] = call[y]
      BY <1>6, <2>1, <3>1
    <3>3. call[y].recovery \in Recoveries
      BY <1>2, <3>2 DEF Pending, WellFormed, Call
    <3> QED BY <1>2, <1>5, <3>1, <3>2, <3>3 DEF OneWriter
  <2>2. \A y \in Clients : pc'[y] = "locked" => stream'[call'[y].recovery] = call'[y].expected
    BY <1>2, <1>7, <2>1 DEF OneWriter
  <2>3. \A y, z \in Clients :
          pc'[y] = "locked" /\ pc'[z] = "locked" /\ call'[y].recovery = call'[z].recovery => y = z
    BY <1>2, <2>1 DEF OneWriter
  <2> QED BY <2>2, <2>3 DEF OneWriter
<1> QED BY <1>8, <1>9, <1>10, <1>11 DEF IInv

\* Every method that gets through enters a well-formed, allowed request.
LEMMA MethodEnters ==
  ASSUME IInv, NEW x \in Clients, Method(x)
  PROVE  pc[x] = "idle" /\ \E m : WellFormed(m) /\ Allowed(m) /\ Enter(x, m)
<1> USE FreeRolesAssumption
<1>1. ASSUME NEW m, Submit(x, m)
      PROVE  pc[x] = "idle" /\ Enter(x, m)
  BY <1>1 DEF Submit
<1>2. ASSUME NEW r \in Recoveries, snapshot[r] # None, snapshot[r].status # "deployment_authorized"
      PROVE  row[r] \in 0..5
  BY <1>2 DEF IInv, Shape, Coherent, Staged, Lifecycle!Snapshot, Lifecycle!Statuses
<1>3. CASE Create(x)
  <2>1. PICK r \in Recoveries, k \in Keys, a \in Actors, role \in FreeRoles :
          LET m == [type |-> "create_recovery", recovery |-> r, expected |-> 0, key |-> k, actor |-> a,
                    role |-> role, candidate |-> None, evidence |-> None]
          IN MayCreate(m) /\ Submit(x, m)
    BY <1>3 DEF Create
  <2> DEFINE m == [type |-> "create_recovery", recovery |-> r, expected |-> 0, key |-> k, actor |-> a,
                   role |-> role, candidate |-> None, evidence |-> None]
  <2>2. WellFormed(m)
    BY DEF WellFormed, Call, Types
  <2>3. Allowed(m) /\ Submit(x, m)
    BY <2>1 DEF Allowed
  <2> HIDE DEF m
  <2> QED BY <1>1, <2>2, <2>3
<1>4. CASE SelectCandidate(x)
  <2>1. PICK r \in Recoveries, k \in Keys, role \in FreeRoles, c \in Candidates :
          LET m == [type |-> "select_candidate", recovery |-> r, expected |-> row[r], key |-> k,
                    actor |-> None, role |-> role, candidate |-> c, evidence |-> None]
          IN MaySelect(m) /\ Submit(x, m)
    BY <1>4 DEF SelectCandidate
  <2> DEFINE m == [type |-> "select_candidate", recovery |-> r, expected |-> row[r], key |-> k,
                   actor |-> None, role |-> role, candidate |-> c, evidence |-> None]
  <2>2. row[r] \in 0..5
    BY <1>2, <2>1 DEF MaySelect, Loaded, Status
  <2>3. WellFormed(m)
    BY <2>2 DEF WellFormed, Call, Types
  <2>4. Allowed(m) /\ Submit(x, m)
    BY <2>1 DEF Allowed
  <2> HIDE DEF m
  <2> QED BY <1>1, <2>3, <2>4
<1>5. CASE RecordValidation(x)
  <2>1. PICK r \in Recoveries, k \in Keys, role \in FreeRoles, c \in Candidates,
             cert \in Lifecycle!Certificate :
          LET m == [type |-> "record_validation", recovery |-> r, expected |-> row[r], key |-> k,
                    actor |-> None, role |-> role, candidate |-> c, evidence |-> cert]
          IN MayValidate(m) /\ Submit(x, m)
    BY <1>5 DEF RecordValidation
  <2> DEFINE m == [type |-> "record_validation", recovery |-> r, expected |-> row[r], key |-> k,
                   actor |-> None, role |-> role, candidate |-> c, evidence |-> cert]
  <2>2. row[r] \in 0..5
    BY <1>2, <2>1 DEF MayValidate, Loaded, Status
  <2>3. WellFormed(m)
    BY <2>2 DEF WellFormed, Call, Types
  <2>4. Allowed(m) /\ Submit(x, m)
    BY <2>1 DEF Allowed
  <2> HIDE DEF m
  <2> QED BY <1>1, <2>3, <2>4
<1>6. CASE RecordFeasibility(x)
  <2>1. PICK r \in Recoveries, k \in Keys, role \in FreeRoles, c \in Candidates, h \in Candidates :
          LET m == [type |-> "record_feasibility", recovery |-> r, expected |-> row[r], key |-> k,
                    actor |-> None, role |-> role, candidate |-> c, evidence |-> h]
          IN MayRecordFeasibility(m) /\ Submit(x, m)
    BY <1>6 DEF RecordFeasibility
  <2> DEFINE m == [type |-> "record_feasibility", recovery |-> r, expected |-> row[r], key |-> k,
                   actor |-> None, role |-> role, candidate |-> c, evidence |-> h]
  <2>2. row[r] \in 0..5
    BY <1>2, <2>1 DEF MayRecordFeasibility, Loaded, Status
  <2>3. WellFormed(m)
    BY <2>2 DEF WellFormed, Call, Types
  <2>4. Allowed(m) /\ Submit(x, m)
    BY <2>1 DEF Allowed
  <2> HIDE DEF m
  <2> QED BY <1>1, <2>3, <2>4
<1>7. CASE Approve(x)
  <2>1. PICK r \in Recoveries, k \in Keys, a \in Actors, role \in Roles, c \in Candidates :
          LET m == [type |-> "approve_recovery", recovery |-> r, expected |-> row[r], key |-> k,
                    actor |-> a, role |-> role, candidate |-> c, evidence |-> None]
          IN MayApprove(m) /\ Submit(x, m)
    BY <1>7 DEF Approve
  <2> DEFINE m == [type |-> "approve_recovery", recovery |-> r, expected |-> row[r], key |-> k,
                   actor |-> a, role |-> role, candidate |-> c, evidence |-> None]
  <2>2. row[r] \in 0..5
    BY <1>2, <2>1 DEF MayApprove, Loaded, Status
  <2>3. WellFormed(m)
    BY <2>2 DEF WellFormed, Call, Types
  <2>4. Allowed(m) /\ Submit(x, m)
    BY <2>1 DEF Allowed
  <2> HIDE DEF m
  <2> QED BY <1>1, <2>3, <2>4
<1>8. CASE Authorize(x)
  <2>1. PICK r \in Recoveries, k \in Keys, a \in Actors, role \in Roles, c \in Candidates :
          LET m == [type |-> "authorize_deployment", recovery |-> r, expected |-> row[r], key |-> k,
                    actor |-> a, role |-> role, candidate |-> c, evidence |-> None]
          IN MayAuthorize(m) /\ Submit(x, m)
    BY <1>8 DEF Authorize
  <2> DEFINE m == [type |-> "authorize_deployment", recovery |-> r, expected |-> row[r], key |-> k,
                   actor |-> a, role |-> role, candidate |-> c, evidence |-> None]
  <2>2. row[r] \in 0..5
    BY <1>2, <2>1 DEF MayAuthorize, Loaded, Deployable
  <2>3. WellFormed(m)
    BY <2>2 DEF WellFormed, Call, Types
  <2>4. Allowed(m) /\ Submit(x, m)
    BY <2>1 DEF Allowed
  <2> HIDE DEF m
  <2> QED BY <1>1, <2>3, <2>4
<1> QED BY <1>3, <1>4, <1>5, <1>6, <1>7, <1>8 DEF Method

\* So does a repeated command that is let through.
LEMMA RepeatEnters ==
  ASSUME IInv, NEW x \in Clients, Repeat(x)
  PROVE  pc[x] = "unanswered" /\ \E m : WellFormed(m) /\ Allowed(m) /\ Enter(x, m)
<1>1. pc[x] = "unanswered" /\ WellFormed(call[x])
  BY DEF Repeat, IInv, Pending
<1>2. ASSUME NEW r \in Recoveries, NEW m, m = [call[x] EXCEPT !.recovery = r],
             MayCreate(m), Enter(x, m)
      PROVE  WellFormed(m) /\ Allowed(m)
  BY <1>1, <1>2 DEF WellFormed, Call, Allowed
<1> QED BY <1>1, <1>2 DEF Repeat

\* Every step of every caller keeps the inductive invariant.
LEMMA Invariance == IInv /\ [Next]_vars => IInv'
<1> SUFFICES ASSUME IInv, [Next]_vars PROVE IInv' OBVIOUS
<1>1. ASSUME NEW x \in Clients, Method(x) PROVE IInv'
  BY <1>1, MethodEnters, EnterInv
<1>2. ASSUME NEW x \in Clients, Repeat(x) PROVE IInv'
  BY <1>2, RepeatEnters, EnterInv
<1>3. ASSUME NEW x \in Clients, Commit(x) PROVE IInv'
  BY <1>3, CommitInv
<1>4. ASSUME NEW x \in Clients, Reserve(x) PROVE IInv'
  BY <1>4, MoveInv DEF Reserve, InFlight
<1>5. ASSUME NEW x \in Clients, Lock(x) PROVE IInv'
  BY <1>5, MoveInv DEF Lock, InFlight
<1>6. ASSUME NEW x \in Clients, AlreadyAnswered(x) \/ Conflict(x) \/ RepeatRefused(x) \/ GiveUp(x)
      PROVE  IInv'
  BY <1>6, MoveInv DEF AlreadyAnswered, Conflict, RepeatRefused, GiveUp
<1>7. ASSUME NEW x \in Clients, Crash(x) PROVE IInv'
  BY <1>7, MoveInv DEF Crash, Open
<1>8. CASE UNCHANGED <<store, command>>
  <2>1. UNCHANGED <<stream, snapshot, row, pc, call, next>>
    BY <1>8 DEF store, command
  <2>2. Shape' /\ Coherent' /\ OneWriter'
    BY <2>1 DEF IInv, Shape, Coherent, Staged, OneWriter
  <2>3. Pending'
    BY <2>1, PendingKept, PendingIs DEF InFlight
  <2> QED BY <2>2, <2>3 DEF IInv
<1>9. ASSUME NEW c \in Candidates, Expire(c) \/ Lapse(c) PROVE IInv'
  BY <1>8, <1>9 DEF Expire, Lapse
<1>10. CASE UNCHANGED vars
  BY <1>8, <1>10 DEF vars
<1> QED BY <1>1, <1>2, <1>3, <1>4, <1>5, <1>6, <1>7, <1>9, <1>10 DEF Next, Transaction, Failure

\* The empty tables satisfy it.
LEMMA InitInv == Init => IInv
BY DEF Init, IInv, Shape, Coherent, Pending, OneWriter, InFlight

\* So it holds in every reachable state.
LEMMA InvariantAlways == Spec => []IInv
BY InitInv, Invariance, PTL DEF Spec

----------------------------------------------------------------------------
(* Refinement of the atomic life cycle.                                     *)

\* The tables change by commits only.
LEMMA OnlyCommitsWrite ==
  ASSUME IInv, [Next]_vars, ~UNCHANGED store
  PROVE  \E x \in Clients : Commit(x)
<1>1. ASSUME NEW x \in Clients, Method(x) \/ Repeat(x) PROVE UNCHANGED store
  <2>1. \E m : Enter(x, m)
    BY <1>1, MethodEnters, RepeatEnters
  <2> QED BY <2>1 DEF Enter
<1>2. ASSUME NEW x \in Clients,
             Reserve(x) \/ AlreadyAnswered(x) \/ Lock(x) \/ Conflict(x)
             \/ Crash(x) \/ RepeatRefused(x) \/ GiveUp(x)
      PROVE  UNCHANGED store
  BY <1>2 DEF Reserve, AlreadyAnswered, Lock, Conflict, Crash, RepeatRefused, GiveUp, Move
<1>3. ASSUME NEW c \in Candidates, Expire(c) \/ Lapse(c) PROVE UNCHANGED store
  BY <1>3 DEF Expire, Lapse
<1>4. CASE UNCHANGED vars
  BY <1>4 DEF vars
<1> QED BY <1>1, <1>2, <1>3, <1>4 DEF Next, Transaction, Failure

\* Every step does to the snapshots what one step of the life cycle does, or nothing.
LEMMA StepRefines == IInv /\ [Next]_vars => [Lifecycle!Next]_snapshot
<1> SUFFICES ASSUME IInv, [Next]_vars PROVE [Lifecycle!Next]_snapshot OBVIOUS
<1>1. ASSUME NEW x \in Clients, Commit(x) PROVE Lifecycle!Next
  <2>1. /\ call[x] \in Call /\ Lawful(call[x])
        /\ stream[call[x].recovery] = call[x].expected
        /\ snapshot' = [snapshot EXCEPT ![call[x].recovery] = NextSnapshot(call[x])]
    BY <1>1, CommitWrites
  <2> QED BY <2>1, LawfulIsAStep DEF IInv
<1>2. CASE UNCHANGED store
  BY <1>2 DEF store
<1> QED BY <1>1, <1>2, OnlyCommitsWrite

\* Whatever interleaves, crashes or is repeated, a recovery only makes the
\* steps of the atomic life cycle (durable_recovery_workflow.py's checks,
\* DurableRecoveryRepository.mutate's version comparison).
THEOREM Refinement == Spec => ImplementsLifecycle
<1>1. Init => Lifecycle!Init
  BY DEF Init, Lifecycle!Init
<1> QED BY <1>1, InvariantAlways, StepRefines, PTL DEF Spec, ImplementsLifecycle, Lifecycle!Spec

\* A command that the version check will let through was checked on the
\* snapshot it replaces (_load before mutate, FOR UPDATE in it).
THEOREM NoStaleWinner == Spec => []WinnerIsNotStale
<1>1. IInv => WinnerIsNotStale
  BY DEF IInv, Pending, WinnerIsNotStale
<1> QED BY <1>1, InvariantAlways, PTL

----------------------------------------------------------------------------
(* Evidence and segregation of duties.                                      *)

\* What a snapshot has collected at each stage.
Evidence(s) ==
  /\ IF s.status = "solving" THEN s.candidate = None
     ELSE s.candidate \in Candidates /\ Draft[s.candidate].legal /\ Draft[s.candidate].version = 1
  /\ IF s.status \in {"solving", "awaiting_validation"} THEN s.certificate = None
     ELSE s.certificate = [candidate |-> s.candidate, version |-> 2]
  /\ IF s.status \in {"solving", "awaiting_validation", "awaiting_joint_feasibility"}
     THEN s.hold = None ELSE s.hold = s.candidate
  /\ IF s.status \in {"approved", "deployment_authorized"}
     THEN s.approver \in Actors /\ s.approver # s.proposer ELSE s.approver = None
  /\ s.status = "deployment_authorized" =>
       s.controller \in Actors /\ s.controller \notin {s.proposer, s.approver}

Documented == \A r \in Recoveries : snapshot[r] # None => Evidence(snapshot[r])

\* One step of the life cycle keeps the evidence about the selected candidate.
LEMMA DocumentedStep ==
  Shape /\ Coherent /\ Documented /\ [Lifecycle!Next]_snapshot => Documented'
<1> SUFFICES ASSUME Shape, Coherent, Documented, [Lifecycle!Next]_snapshot
             PROVE  \A q \in Recoveries : snapshot'[q] # None => Evidence(snapshot'[q])
  BY DEF Documented, Evidence
<1>1. ASSUME NEW r \in Recoveries, NEW s, Lifecycle!Set(r, s), Evidence(s)
      PROVE  \A q \in Recoveries : snapshot'[q] # None => Evidence(snapshot'[q])
  BY <1>1 DEF Lifecycle!Set, Shape, Documented
<1>2. ASSUME NEW r \in Recoveries, snapshot[r] # None
      PROVE  /\ snapshot[r] \in Lifecycle!Snapshot
             /\ Staged(snapshot[r]) /\ Evidence(snapshot[r])
  BY <1>2 DEF Shape, Coherent, Documented
<1>3. ASSUME NEW r \in Recoveries, NEW a \in Actors, Lifecycle!Create(r, a)
      PROVE  \A q \in Recoveries : snapshot'[q] # None => Evidence(snapshot'[q])
  <2>1. Evidence(Lifecycle!Created(a))
    BY DEF Evidence, Lifecycle!Created
  <2> QED BY <1>1, <1>3, <2>1 DEF Lifecycle!Create
<1>4. ASSUME NEW r \in Recoveries, NEW c \in Candidates, Lifecycle!Select(r, c)
      PROVE  \A q \in Recoveries : snapshot'[q] # None => Evidence(snapshot'[q])
  <2>1. /\ snapshot[r] # None /\ snapshot[r].status = "solving"
        /\ Draft[c].legal /\ Draft[c].version = snapshot[r].version
        /\ Lifecycle!Set(r, Lifecycle!Selected(snapshot[r], c))
    BY <1>4 DEF Lifecycle!Select
  <2>2. Evidence(Lifecycle!Selected(snapshot[r], c))
    <3> DEFINE n == Lifecycle!Selected(snapshot[r], c)
    <3>1. /\ n.status = "awaiting_validation" /\ n.candidate = c
          /\ n.certificate = None /\ n.hold = None /\ n.approver = None
      BY <1>2, <2>1 DEF Lifecycle!Selected, Lifecycle!Snapshot
    <3>2. Draft[c].version = 1
      BY <1>2, <2>1 DEF Staged
    <3> HIDE DEF n
    <3>3. Draft[n.candidate].legal /\ Draft[n.candidate].version = 1 /\ n.candidate \in Candidates
      BY <2>1, <3>1, <3>2
    <3>4. Evidence(n)
      BY <3>1, <3>3 DEF Evidence
    <3> QED BY <3>4 DEF n
  <2> QED BY <1>1, <2>1, <2>2
<1>5. ASSUME NEW r \in Recoveries, Lifecycle!Validate(r)
      PROVE  \A q \in Recoveries : snapshot'[q] # None => Evidence(snapshot'[q])
  <2> DEFINE cert == [candidate |-> snapshot[r].candidate, version |-> snapshot[r].version]
  <2>1. /\ snapshot[r] # None /\ snapshot[r].status = "awaiting_validation"
        /\ Lifecycle!Set(r, Lifecycle!Validated(snapshot[r], cert))
    BY <1>5 DEF Lifecycle!Validate
  <2>2. Evidence(Lifecycle!Validated(snapshot[r], cert))
    BY <1>2, <2>1 DEF Evidence, Staged, Lifecycle!Validated, Lifecycle!Snapshot
  <2> QED BY <1>1, <2>1, <2>2
<1>6. ASSUME NEW r \in Recoveries, Lifecycle!PassFeasibility(r)
      PROVE  \A q \in Recoveries : snapshot'[q] # None => Evidence(snapshot'[q])
  <2>1. /\ snapshot[r] # None /\ snapshot[r].status = "awaiting_joint_feasibility"
        /\ Lifecycle!Set(r, Lifecycle!Feasible(snapshot[r], snapshot[r].candidate))
    BY <1>6 DEF Lifecycle!PassFeasibility
  <2>2. Evidence(Lifecycle!Feasible(snapshot[r], snapshot[r].candidate))
    BY <1>2, <2>1 DEF Evidence, Lifecycle!Feasible, Lifecycle!Snapshot
  <2> QED BY <1>1, <2>1, <2>2
<1>7. ASSUME NEW r \in Recoveries, NEW a \in Actors, Lifecycle!Approve(r, a)
      PROVE  \A q \in Recoveries : snapshot'[q] # None => Evidence(snapshot'[q])
  <2>1. /\ snapshot[r] # None /\ snapshot[r].status = "awaiting_approval"
        /\ a # snapshot[r].proposer
        /\ Lifecycle!Set(r, Lifecycle!Approved(snapshot[r], a))
    BY <1>7 DEF Lifecycle!Approve
  <2>2. Evidence(Lifecycle!Approved(snapshot[r], a))
    BY <1>2, <2>1 DEF Evidence, Lifecycle!Approved, Lifecycle!Snapshot
  <2> QED BY <1>1, <2>1, <2>2
<1>8. ASSUME NEW r \in Recoveries, NEW a \in Actors, Lifecycle!Authorize(r, a)
      PROVE  \A q \in Recoveries : snapshot'[q] # None => Evidence(snapshot'[q])
  <2>1. /\ snapshot[r] # None /\ snapshot[r].status = "approved"
        /\ a \notin {snapshot[r].proposer, snapshot[r].approver}
        /\ Lifecycle!Set(r, Lifecycle!Authorized(snapshot[r], a))
    BY <1>8 DEF Lifecycle!Authorize
  <2>2. Evidence(Lifecycle!Authorized(snapshot[r], a))
    BY <1>2, <2>1 DEF Evidence, Lifecycle!Authorized, Lifecycle!Snapshot
  <2> QED BY <1>1, <2>1, <2>2
<1>9. CASE UNCHANGED snapshot
  BY <1>9 DEF Documented
<1> QED BY <1>3, <1>4, <1>5, <1>6, <1>7, <1>8, <1>9 DEF Lifecycle!Next

\* So every recovery is documented in every reachable state.
LEMMA DocumentedAlways == Spec => []Documented
<1>1. Init => Documented
  BY DEF Init, Documented
<1>2. IInv /\ Documented /\ [Next]_vars => Documented'
  BY StepRefines, DocumentedStep DEF IInv
<1> QED BY <1>1, <1>2, InvariantAlways, PTL DEF Spec

\* Certificate and hold concern the selected candidate, and proposer, approver
\* and controller are three people (record_validation, record_joint_feasibility,
\* approve and authorize_deployment of durable_recovery_workflow.py).
THEOREM EvidenceAlwaysHolds == Spec => []EvidenceHolds
<1>1. IInv /\ Documented => EvidenceHolds
  <2> SUFFICES ASSUME IInv, Documented, NEW r \in Recoveries, snapshot[r] # None
               PROVE  LET s == snapshot[r]
                      IN /\ s.status # "solving" => s.candidate # None /\ Draft[s.candidate].legal
                         /\ s.certificate # None =>
                              s.certificate.candidate = s.candidate /\ s.certificate.version = Draft[s.candidate].version + 1
                         /\ s.hold \in {None, s.candidate}
                         /\ s.approver # s.proposer \/ s.approver = None
                         /\ s.status = "deployment_authorized" =>
                              /\ None \notin {s.certificate, s.hold, s.approver, s.controller}
                              /\ s.controller \notin {s.proposer, s.approver}
    BY DEF EvidenceHolds
  <2> DEFINE s == snapshot[r]
  <2>1. Evidence(s)
    BY DEF Documented
  <2>2. s.status # "solving" => s.candidate \in Candidates /\ s.candidate # None
    BY <2>1, NoneAssumption DEF Evidence
  <2>3. s.status = "deployment_authorized" => s.certificate \in Lifecycle!Certificate
    BY <2>1, <2>2 DEF Evidence, Lifecycle!Certificate
  <2> QED BY <2>1, <2>2, <2>3, NoneAssumption DEF Evidence
<1> QED BY <1>1, InvariantAlways, DocumentedAlways, PTL

----------------------------------------------------------------------------
(* The tables.                                                              *)

\* The tables that Shape leaves out.
Logs ==
  /\ events \subseteq Event
  /\ outbox \subseteq Recoveries \X (1..6)
  /\ receipt \in [Keys -> Receipt \cup {None}]

\* What a commit adds to the logs.
LEMMA CommitLogs ==
  ASSUME IInv, Logs, NEW x \in Clients, Commit(x)
  PROVE  LET m == call[x]  r == m.recovery  v == stream[r] + 1
             a == [hash |-> Hash(m), recovery |-> r, version |-> v, response |-> next[x]]
         IN /\ r \in Recoveries /\ v \in 1..6 /\ m.key \in Keys
            /\ next[x] \in Lifecycle!Snapshot /\ next[x].version = v
            /\ a \in Receipt
            /\ events' = events \cup {[recovery |-> r, version |-> v, snapshot |-> next[x]]}
            /\ outbox' = outbox \cup {<<r, v>>}
            /\ receipt' = [receipt EXCEPT ![m.key] = a]
            /\ snapshot' = [snapshot EXCEPT ![r] = next[x]]
            /\ stream' = [stream EXCEPT ![r] = v]
            /\ row' = [row EXCEPT ![r] = v]
<1> DEFINE m == call[x]
           r == m.recovery
           v == stream[r] + 1
           a == [hash |-> Hash(m), recovery |-> r, version |-> v, response |-> next[x]]
<1>1. /\ m \in Call /\ Lawful(m)
      /\ stream[r] = m.expected
      /\ next[x] = NextSnapshot(m)
      /\ snapshot' = [snapshot EXCEPT ![r] = next[x]]
      /\ stream' = [stream EXCEPT ![r] = v]
      /\ row' = [row EXCEPT ![r] = v]
  BY CommitWrites
<1>2. r \in Recoveries /\ m.expected \in 0..5 /\ v \in 1..6 /\ m.key \in Keys
  BY <1>1 DEF Call
<1>3. next[x] \in Lifecycle!Snapshot /\ next[x].version = v
  BY <1>1, NextSnapshotShape DEF IInv
<1>4. a \in Receipt
  BY <1>1, <1>2, <1>3 DEF Receipt, Hash, Call
<1>5. /\ events' = events \cup {[recovery |-> r, version |-> v, snapshot |-> next[x]]}
      /\ outbox' = outbox \cup {<<r, v>>}
      /\ receipt' = [receipt EXCEPT ![m.key] = a]
  BY DEF Commit, NewVersion
<1> QED BY <1>1, <1>2, <1>3, <1>4, <1>5

\* Events, outbox rows and receipts keep their shape through every step.
LEMMA LogsStep == IInv /\ Logs /\ [Next]_vars => Logs'
<1> SUFFICES ASSUME IInv, Logs, [Next]_vars PROVE Logs' OBVIOUS
<1>1. ASSUME NEW x \in Clients, Commit(x) PROVE Logs'
  <2> DEFINE m == call[x]
             r == m.recovery
             v == stream[r] + 1
             a == [hash |-> Hash(m), recovery |-> r, version |-> v, response |-> next[x]]
  <2>1. /\ r \in Recoveries /\ v \in 1..6
        /\ next[x] \in Lifecycle!Snapshot /\ a \in Receipt
        /\ events' = events \cup {[recovery |-> r, version |-> v, snapshot |-> next[x]]}
        /\ outbox' = outbox \cup {<<r, v>>}
        /\ receipt' = [receipt EXCEPT ![m.key] = a]
    BY <1>1, CommitLogs
  <2>2. events' \subseteq Event
    BY <2>1 DEF Logs, Event
  <2>3. outbox' \subseteq Recoveries \X (1..6)
    BY <2>1 DEF Logs
  <2> HIDE DEF a
  <2>4. receipt' \in [Keys -> Receipt \cup {None}]
    BY <2>1 DEF Logs
  <2> QED BY <2>2, <2>3, <2>4 DEF Logs
<1>2. CASE UNCHANGED store
  BY <1>2 DEF store, Logs
<1> QED BY <1>1, <1>2, OnlyCommitsWrite

\* So they have it in every reachable state.
LEMMA LogsAlways == Spec => []Logs
<1>1. Init => Logs
  BY DEF Init, Logs
<1> QED BY <1>1, LogsStep, InvariantAlways, PTL DEF Spec

\* Only the environment ends a candidate's validity or its hold.
World == expired \subseteq Candidates /\ lapsed \subseteq Candidates

\* Only candidates expire or lose their hold.
LEMMA WorldStep == IInv /\ World /\ [Next]_vars => World'
<1> SUFFICES ASSUME IInv, World, [Next]_vars PROVE World' OBVIOUS
<1>1. ASSUME NEW x \in Clients, Method(x) \/ Repeat(x) PROVE UNCHANGED world
  <2>1. \E m : Enter(x, m)
    BY <1>1, MethodEnters, RepeatEnters
  <2> QED BY <2>1 DEF Enter
<1>2. ASSUME NEW x \in Clients,
             Reserve(x) \/ AlreadyAnswered(x) \/ Lock(x) \/ Conflict(x) \/ Commit(x)
             \/ Crash(x) \/ RepeatRefused(x) \/ GiveUp(x)
      PROVE  UNCHANGED world
  BY <1>2 DEF Reserve, AlreadyAnswered, Lock, Conflict, Commit, Crash, RepeatRefused, GiveUp, Move
<1>3. ASSUME NEW c \in Candidates, Expire(c) \/ Lapse(c)
      PROVE  World'
  BY <1>3 DEF Expire, Lapse, World
<1>4. UNCHANGED world => World'
  BY DEF world, World
<1> QED BY <1>1, <1>2, <1>3, <1>4 DEF Next, Transaction, Failure, vars

\* So it is in every reachable state.
LEMMA WorldAlways == Spec => []World
<1>1. Init => World
  BY DEF Init, World
<1> QED BY <1>1, WorldStep, InvariantAlways, PTL DEF Spec

\* Every table, request and lock state has the shape the code gives it; in
\* particular no recovery passes its sixth version.
THEOREM TypeCorrect == Spec => []TypeOK
<1>1. IInv /\ Logs /\ World => TypeOK
  BY DEF IInv, Shape, Logs, World, TypeOK
<1> QED BY <1>1, WorldAlways, InvariantAlways, LogsAlways, PTL

----------------------------------------------------------------------------
(* The event log against the stream.                                        *)

\* The log of each recovery is gapless up to the stream's version, ends with
\* the stored snapshot, has one event per version, and is queued for publication.
Logged ==
  /\ \A e \in events : e.version <= stream[e.recovery]
  /\ \A r \in Recoveries : \A v \in 1..stream[r] :
       \E e \in events : e.recovery = r /\ e.version = v
  /\ \A r \in Recoveries : snapshot[r] # None =>
       [recovery |-> r, version |-> stream[r], snapshot |-> snapshot[r]] \in events
  /\ \A e, f \in events : e.recovery = f.recovery /\ e.version = f.version => e = f
  /\ outbox = {<<e.recovery, e.version>> : e \in events}

\* A commit appends the one event that the log lacks; nothing else writes.
LEMMA LoggedStep == IInv /\ Logs /\ Logged /\ [Next]_vars => Logged'
<1> SUFFICES ASSUME IInv, Logs, Logged, [Next]_vars PROVE Logged' OBVIOUS
<1>1. ASSUME NEW x \in Clients, Commit(x) PROVE Logged'
  <2> DEFINE r == call[x].recovery
             v == stream[r] + 1
             n == [recovery |-> r, version |-> v, snapshot |-> next[x]]
  <2>1. /\ r \in Recoveries /\ v \in 1..6
        /\ events' = events \cup {n}
        /\ outbox' = outbox \cup {<<r, v>>}
        /\ snapshot' = [snapshot EXCEPT ![r] = next[x]]
        /\ stream' = [stream EXCEPT ![r] = v]
    BY <1>1, CommitLogs
  <2>2. /\ stream'[r] = v /\ snapshot'[r] = next[x]
        /\ \A q \in Recoveries : q # r => stream'[q] = stream[q] /\ snapshot'[q] = snapshot[q]
    BY <2>1 DEF IInv, Shape
  <2>3. \A q \in Recoveries : stream[q] \in 0..6
    BY DEF IInv, Shape
  <2>4. \A e \in events : /\ e.recovery \in Recoveries /\ e.version \in 1..6
                          /\ e.version <= stream[e.recovery]
    BY DEF Logs, Event, Logged
  <2>5. n.recovery = r /\ n.version = v
    OBVIOUS
  <2> HIDE DEF n, v, r
  <2>6. \A e \in events' : e.version <= stream'[e.recovery]
    <3> SUFFICES ASSUME NEW e \in events' PROVE e.version <= stream'[e.recovery] OBVIOUS
    <3>1. CASE e = n
      BY <2>1, <2>2, <2>5, <3>1
    <3>2. CASE e \in events /\ e.recovery # r
      BY <2>2, <2>4, <3>2
    <3>3. CASE e \in events /\ e.recovery = r
      BY <2>2, <2>3, <2>4, <3>3, <2>1 DEF v
    <3> QED BY <2>1, <3>1, <3>2, <3>3
  <2>7. \A q \in Recoveries : \A w \in 1..stream'[q] : \E e \in events' : e.recovery = q /\ e.version = w
    <3> SUFFICES ASSUME NEW q \in Recoveries, NEW w \in 1..stream'[q]
                 PROVE  \E e \in events' : e.recovery = q /\ e.version = w
      OBVIOUS
    <3>1. CASE q = r /\ w = v
      BY <2>1, <2>5, <3>1
    <3>2. CASE ~(q = r /\ w = v)
      <4>1. w \in 1..stream[q]
        BY <2>1, <2>2, <2>3, <3>2 DEF v
      <4>2. PICK e \in events : e.recovery = q /\ e.version = w
        BY <4>1 DEF Logged
      <4> QED BY <2>1, <4>2
    <3> QED BY <3>1, <3>2
  <2>8. \A q \in Recoveries : snapshot'[q] # None =>
          [recovery |-> q, version |-> stream'[q], snapshot |-> snapshot'[q]] \in events'
    <3> SUFFICES ASSUME NEW q \in Recoveries, snapshot'[q] # None
                 PROVE  [recovery |-> q, version |-> stream'[q], snapshot |-> snapshot'[q]] \in events'
      OBVIOUS
    <3>1. CASE q = r
      BY <2>1, <2>2, <3>1 DEF n
    <3>2. CASE q # r
      BY <2>1, <2>2, <3>2 DEF Logged
    <3> QED BY <3>1, <3>2
  <2>9. ASSUME NEW e \in events
        PROVE  ~(e.recovery = r /\ e.version = v)
    BY <2>1, <2>3, <2>4 DEF v
  <2>10. \A e, f \in events' : e.recovery = f.recovery /\ e.version = f.version => e = f
    BY <2>1, <2>5, <2>9 DEF Logged
  <2>11. outbox' = {<<e.recovery, e.version>> : e \in events'}
    BY <2>1, <2>5 DEF Logged
  <2> QED BY <2>6, <2>7, <2>8, <2>10, <2>11 DEF Logged
<1>2. CASE UNCHANGED store
  BY <1>2 DEF store, Logged
<1> QED BY <1>1, <1>2, OnlyCommitsWrite

\* So they agree in every reachable state.
LEMMA LoggedAlways == Spec => []Logged
<1>1. Init => Logged
  BY DEF Init, Logged
<1> QED BY <1>1, LoggedStep, InvariantAlways, LogsAlways, PTL DEF Spec

\* Stream, snapshot row, event log and outbox agree on every recovery: the
\* upsert whose row count mutate does not check is never skipped
\* (DurableRecoveryRepository.mutate).
THEOREM TablesAgree == Spec => []StoreConsistent
<1>1. IInv /\ Logs /\ Logged => StoreConsistent
  <2> SUFFICES ASSUME IInv, Logs, Logged PROVE StoreConsistent OBVIOUS
  <2>1. \A e \in events : e.recovery \in Recoveries /\ e.version \in 1..6
    BY DEF Logs, Event
  <2>2. ASSUME NEW r \in Recoveries
        PROVE  /\ row[r] = stream[r] /\ stream[r] \in 0..6
               /\ row[r] = (IF snapshot[r] = None THEN 0 ELSE snapshot[r].version)
    BY DEF IInv, Shape, Coherent
  <2>3. ASSUME NEW r \in Recoveries
        PROVE  {e.version : e \in {f \in events : f.recovery = r}} = 1..stream[r]
    <3>1. ASSUME NEW e \in events, e.recovery = r PROVE e.version \in 1..stream[r]
      BY <2>1, <2>2, <3>1 DEF Logged
    <3>2. ASSUME NEW v \in 1..stream[r] PROVE \E e \in events : e.recovery = r /\ e.version = v
      BY <3>2 DEF Logged
    <3> QED BY <3>1, <3>2
  <2> QED BY <2>2, <2>3 DEF StoreConsistent, Logged
<1> QED BY <1>1, InvariantAlways, LogsAlways, LoggedAlways, PTL

----------------------------------------------------------------------------
(* Idempotency keys.                                                        *)

\* A transaction that has reserved a key owns it: no receipt is stored under
\* it, and no other transaction has reserved it.
KeysAreOwned ==
  /\ \A x \in Clients : pc[x] \in Open => receipt[call[x].key] = None
  /\ \A x, y \in Clients :
       pc[x] \in Open /\ pc[y] \in Open /\ call[x].key = call[y].key => x = y

\* Every event has a receipt, and receipts are of events.
Receipted ==
  /\ \A k \in Keys : receipt[k] # None => receipt[k].version <= stream[receipt[k].recovery]
  /\ OneReceiptPerEvent

\* Steps that store no receipt, and after which no transaction is open that was not.
LEMMA OwnedKept ==
  ASSUME KeysAreOwned, UNCHANGED receipt,
         \A x \in Clients : pc'[x] \in Open => pc[x] \in Open /\ call'[x] = call[x]
  PROVE  KeysAreOwned'
BY DEF KeysAreOwned, Open

\* A key is reserved by one transaction at a time, and only while it is unused.
LEMMA OwnedStep == IInv /\ Logs /\ KeysAreOwned /\ [Next]_vars => KeysAreOwned'
<1> SUFFICES ASSUME IInv, Logs, KeysAreOwned, [Next]_vars PROVE KeysAreOwned' OBVIOUS
<1>0. Shape
  BY DEF IInv
<1>1. ASSUME NEW x \in Clients, Method(x) \/ Repeat(x) PROVE KeysAreOwned'
  <2>1. PICK m : Enter(x, m)
    BY <1>1, MethodEnters, RepeatEnters
  <2>2. /\ pc' = [pc EXCEPT ![x] = "submitted"] /\ call' = [call EXCEPT ![x] = m]
        /\ UNCHANGED receipt
    BY <2>1 DEF Enter, store
  <2>3. \A y \in Clients : pc'[y] \in Open => pc[y] \in Open /\ call'[y] = call[y]
    BY <1>0, <2>2 DEF Open, Shape
  <2> QED BY <2>2, <2>3, OwnedKept
<1>2. ASSUME NEW x \in Clients, Reserve(x) PROVE KeysAreOwned'
  <2>1. /\ pc[x] = "submitted" /\ ~KeyLocked(call[x].key) /\ receipt[call[x].key] = None
        /\ pc' = [pc EXCEPT ![x] = "reserved"] /\ UNCHANGED <<receipt, call>>
    BY <1>2 DEF Reserve, Move, store
  <2>2. \A y \in Clients : y # x => pc'[y] = pc[y]
    BY <1>0, <2>1 DEF Shape
  <2>3. \A y \in Clients : pc[y] \in Open => call[y].key # call[x].key
    BY <2>1 DEF KeyLocked
  <2> QED BY <2>1, <2>2, <2>3 DEF KeysAreOwned
<1>3. ASSUME NEW x \in Clients, Lock(x) PROVE KeysAreOwned'
  <2>1. /\ pc[x] = "reserved" /\ pc' = [pc EXCEPT ![x] = "locked"] /\ UNCHANGED <<receipt, call>>
    BY <1>3 DEF Lock, Move, store
  <2>2. \A y \in Clients : pc'[y] \in Open => pc[y] \in Open
    BY <1>0, <2>1 DEF Shape, Open
  <2> QED BY <2>1, <2>2, OwnedKept
<1>4. ASSUME NEW x \in Clients, AlreadyAnswered(x) \/ Conflict(x) \/ RepeatRefused(x) \/ GiveUp(x) \/ Crash(x)
      PROVE  KeysAreOwned'
  <2>1. PICK to \in {"idle", "unanswered"} : Move(x, to)
    BY <1>4 DEF AlreadyAnswered, Conflict, RepeatRefused, GiveUp, Crash
  <2>2. pc' = [pc EXCEPT ![x] = to] /\ UNCHANGED receipt
    BY <2>1 DEF Move, store
  <2>3. \A y \in Clients : y # x => call'[y] = call[y] /\ pc'[y] = pc[y]
    BY <1>0, <1>4, <2>2
    DEF Shape, AlreadyAnswered, Conflict, RepeatRefused, GiveUp, Crash, Answered
  <2>4. pc'[x] \notin Open
    BY <1>0, <2>2 DEF Shape, Open
  <2> QED BY <2>2, <2>3, <2>4, OwnedKept
<1>5. ASSUME NEW x \in Clients, Commit(x) PROVE KeysAreOwned'
  <2> DEFINE m == call[x]
             a == [hash |-> Hash(m), recovery |-> m.recovery, version |-> stream[m.recovery] + 1,
                   response |-> next[x]]
  <2>1. m.key \in Keys /\ receipt' = [receipt EXCEPT ![m.key] = a]
    BY <1>5, CommitLogs
  <2> HIDE DEF a
  <2>2. /\ pc[x] = "locked"
        /\ \/ pc' = [pc EXCEPT ![x] = "idle"] /\ Answered(x)
           \/ pc' = [pc EXCEPT ![x] = "unanswered"] /\ UNCHANGED <<call, next>>
    BY <1>5 DEF Commit
  <2>3. /\ pc'[x] \notin Open
        /\ \A y \in Clients : y # x => pc'[y] = pc[y] /\ call'[y] = call[y]
    BY <1>0, <2>2 DEF Shape, Answered, Open
  <2>4. ASSUME NEW y \in Clients, pc'[y] \in Open
        PROVE  y # x /\ pc[y] \in Open /\ call'[y] = call[y] /\ receipt'[call[y].key] = None
    <3>1. y # x /\ pc[y] \in Open /\ call'[y] = call[y]
      BY <2>3, <2>4
    <3>2. call[y].key # m.key /\ receipt[call[y].key] = None
      BY <2>2, <3>1 DEF KeysAreOwned, Open
    <3>3. call[y].key \in Keys
      BY <3>1 DEF IInv, Pending, WellFormed, Call, Open
    <3> QED BY <2>1, <3>1, <3>2, <3>3 DEF Logs
  <2> QED BY <2>3, <2>4 DEF KeysAreOwned, Open
<1>6. CASE UNCHANGED <<store, command>>
  BY <1>6 DEF store, command, KeysAreOwned, Open
<1>7. ASSUME NEW c \in Candidates, Expire(c) \/ Lapse(c) PROVE KeysAreOwned'
  BY <1>6, <1>7 DEF Expire, Lapse
<1>8. CASE UNCHANGED vars
  BY <1>6, <1>8 DEF vars
<1> QED BY <1>1, <1>2, <1>3, <1>4, <1>5, <1>7, <1>8 DEF Next, Transaction, Failure

\* A commit stores the receipt of its event under a key that had none.
LEMMA ReceiptedStep ==
  IInv /\ Logs /\ Logged /\ KeysAreOwned /\ Receipted /\ [Next]_vars => Receipted'
<1> SUFFICES ASSUME IInv, Logs, Logged, KeysAreOwned, Receipted, [Next]_vars PROVE Receipted' OBVIOUS
<1>1. ASSUME NEW x \in Clients, Commit(x) PROVE Receipted'
  <2> DEFINE key == call[x].key
             r == call[x].recovery
             v == stream[r] + 1
             n == [recovery |-> r, version |-> v, snapshot |-> next[x]]
             a == [hash |-> Hash(call[x]), recovery |-> r, version |-> v, response |-> next[x]]
  <2>1. /\ r \in Recoveries /\ v \in 1..6 /\ key \in Keys /\ a \in Receipt
        /\ events' = events \cup {n}
        /\ receipt' = [receipt EXCEPT ![key] = a]
        /\ stream' = [stream EXCEPT ![r] = v]
    BY <1>1, CommitLogs
  <2>2. receipt[key] = None
    BY <1>1 DEF KeysAreOwned, Commit, Open
  <2>3. a # None
    BY <2>1, NoneAssumption
  <2>4. /\ a.recovery = r /\ a.version = v /\ a.response = next[x]
        /\ n.recovery = r /\ n.version = v /\ n.snapshot = next[x]
    OBVIOUS
  <2>5. /\ stream'[r] = v
        /\ \A q \in Recoveries : stream[q] \in 0..6 /\ (q # r => stream'[q] = stream[q])
    BY <2>1 DEF IInv, Shape
  <2>6. \A k \in Keys : receipt[k] # None =>
          receipt[k].recovery \in Recoveries /\ receipt[k].version \in 1..6
    BY DEF Logs, Receipt
  <2>7. v = stream[r] + 1
    OBVIOUS
  <2> HIDE DEF n, a, v, r, key
  <2>8. receipt'[key] = a /\ \A k \in Keys : k # key => receipt'[k] = receipt[k]
    BY <2>1 DEF Logs
  <2>9. ASSUME NEW k \in Keys, receipt[k] # None
        PROVE  ~(receipt[k].recovery = r /\ receipt[k].version = v)
    BY <2>1, <2>5, <2>6, <2>7, <2>9 DEF Receipted
  <2>10. \A k \in Keys : receipt'[k] # None => receipt'[k].version <= stream'[receipt'[k].recovery]
    <3> SUFFICES ASSUME NEW k \in Keys, receipt'[k] # None
                 PROVE  receipt'[k].version <= stream'[receipt'[k].recovery]
      OBVIOUS
    <3>1. CASE k = key
      BY <2>1, <2>4, <2>5, <2>8, <3>1
    <3>2. CASE k # key /\ receipt[k].recovery # r
      BY <2>5, <2>6, <2>8, <3>2 DEF Receipted
    <3>3. CASE k # key /\ receipt[k].recovery = r
      <4>1. receipt[k].version <= stream[r] /\ receipt[k].version \in 1..6
        BY <2>6, <2>8, <3>3 DEF Receipted
      <4> QED BY <2>1, <2>5, <2>7, <2>8, <3>3, <4>1
    <3> QED BY <3>1, <3>2, <3>3
  <2>11. \A e \in events' : \E k \in Keys :
           /\ receipt'[k] # None /\ receipt'[k].recovery = e.recovery
           /\ receipt'[k].version = e.version /\ receipt'[k].response = e.snapshot
    <3> SUFFICES ASSUME NEW e \in events'
                 PROVE  \E k \in Keys : /\ receipt'[k] # None /\ receipt'[k].recovery = e.recovery
                                        /\ receipt'[k].version = e.version
                                        /\ receipt'[k].response = e.snapshot
      OBVIOUS
    <3>1. CASE e = n
      BY <2>1, <2>3, <2>4, <2>8, <3>1
    <3>2. CASE e \in events
      <4>1. PICK k \in Keys : /\ receipt[k] # None /\ receipt[k].recovery = e.recovery
                              /\ receipt[k].version = e.version /\ receipt[k].response = e.snapshot
        BY <3>2 DEF Receipted, OneReceiptPerEvent
      <4>2. k # key
        BY <2>2, <4>1
      <4> QED BY <2>8, <4>1, <4>2
    <3> QED BY <2>1, <3>1, <3>2
  <2>12. \A k, l \in Keys :
           (/\ receipt'[k] # None /\ receipt'[l] # None
            /\ receipt'[k].recovery = receipt'[l].recovery
            /\ receipt'[k].version = receipt'[l].version) => k = l
    <3> SUFFICES ASSUME NEW k \in Keys, NEW l \in Keys, receipt'[k] # None, receipt'[l] # None,
                        receipt'[k].recovery = receipt'[l].recovery,
                        receipt'[k].version = receipt'[l].version, k # l
                 PROVE  FALSE
      OBVIOUS
    <3>1. CASE k # key /\ l # key
      BY <2>8, <3>1 DEF Receipted, OneReceiptPerEvent
    <3>2. CASE k = key
      BY <2>4, <2>8, <2>9, <3>2
    <3>3. CASE l = key
      BY <2>4, <2>8, <2>9, <3>3
    <3> QED BY <3>1, <3>2, <3>3
  <2> QED BY <2>10, <2>11, <2>12 DEF Receipted, OneReceiptPerEvent
<1>2. CASE UNCHANGED store
  BY <1>2 DEF store, Receipted, OneReceiptPerEvent
<1> QED BY <1>1, <1>2, OnlyCommitsWrite

\* However commands with one key race, crash and are repeated, the key executes
\* at most one mutation, and every event can be answered for again
\* (durable_recovery_store.py: the insert of the key, the receipt of mutate).
THEOREM OneMutationPerKey == Spec => []OneReceiptPerEvent
<1>1. Init => KeysAreOwned /\ Receipted
  BY DEF Init, KeysAreOwned, Receipted, OneReceiptPerEvent, Open
<1>2. Spec => [](KeysAreOwned /\ Receipted)
  BY <1>1, OwnedStep, ReceiptedStep, InvariantAlways, LogsAlways, LoggedAlways, PTL DEF Spec
<1>3. Receipted => OneReceiptPerEvent
  BY DEF Receipted
<1> QED BY <1>2, <1>3, PTL

----------------------------------------------------------------------------
(* Expiry.                                                                  *)

\* No command gets past the service's checks on a recovery whose selected
\* candidate has expired.
LEMMA NothingAllowed ==
  ASSUME Documented, World, NEW r \in Recoveries, Frozen(r), NEW m, Allowed(m)
  PROVE  m.recovery # r
<1> SUFFICES ASSUME m.recovery = r PROVE FALSE OBVIOUS
<1>1. snapshot[r] # None /\ snapshot[r].candidate \in expired /\ Evidence(snapshot[r])
  BY DEF Frozen, Documented
<1>2. snapshot[r].status # "solving"
  BY <1>1, NoneAssumption DEF Evidence, World
<1>3. CASE MayCreate(m)
  BY <1>1, <1>3 DEF MayCreate, Unused
<1>4. CASE MaySelect(m)
  BY <1>2, <1>4 DEF MaySelect, Status
<1>5. CASE AssertSelected(m)
  BY <1>1, <1>5 DEF AssertSelected
<1> QED
  BY <1>3, <1>4, <1>5 DEF Allowed, MayValidate, MayRecordFeasibility, MayApprove, MayAuthorize

\* What a step does to a recovery that is frozen.
LEMMA FrozenStep ==
  ASSUME IInv, Documented, World, [Next]_vars, NEW r \in Recoveries, Frozen(r)
  PROVE  Frozen(r)' /\ snapshot'[r] = snapshot[r]
<1>0. Shape
  BY DEF IInv
<1>1. ASSUME UNCHANGED snapshot, expired \subseteq expired',
             \A y \in Clients : InFlight(y)' => InFlight(y) /\ call'[y] = call[y]
      PROVE  Frozen(r)' /\ snapshot'[r] = snapshot[r]
  BY <1>1 DEF Frozen
<1>2. ASSUME NEW x \in Clients, Method(x) \/ Repeat(x)
      PROVE  Frozen(r)' /\ snapshot'[r] = snapshot[r]
  <2>1. PICK m : Allowed(m) /\ Enter(x, m)
    BY <1>2, MethodEnters, RepeatEnters
  <2>2. /\ pc' = [pc EXCEPT ![x] = "submitted"] /\ call' = [call EXCEPT ![x] = m]
        /\ UNCHANGED <<snapshot, expired>>
    BY <2>1 DEF Enter, store, world
  <2>3. m.recovery # r
    BY <2>1, NothingAllowed
  <2>4. \A y \in Clients : y # x => pc'[y] = pc[y] /\ call'[y] = call[y]
    BY <1>0, <2>2 DEF Shape
  <2>5. call'[x] = m
    BY <1>0, <2>2 DEF Shape
  <2> QED BY <2>2, <2>3, <2>4, <2>5 DEF Frozen, InFlight
<1>3. ASSUME NEW x \in Clients, Reserve(x) \/ Lock(x)
      PROVE  Frozen(r)' /\ snapshot'[r] = snapshot[r]
  <2>1. PICK to \in {"reserved", "locked"} : Move(x, to) /\ UNCHANGED call /\ InFlight(x)
    BY <1>3 DEF Reserve, Lock, InFlight
  <2>2. pc' = [pc EXCEPT ![x] = to] /\ UNCHANGED <<snapshot, expired>>
    BY <2>1 DEF Move, store, world
  <2>3. \A y \in Clients : InFlight(y)' => InFlight(y)
    BY <1>0, <2>1, <2>2 DEF Shape, InFlight
  <2> QED BY <1>1, <2>1, <2>2, <2>3
<1>4. ASSUME NEW x \in Clients, AlreadyAnswered(x) \/ Conflict(x) \/ RepeatRefused(x) \/ GiveUp(x) \/ Crash(x)
      PROVE  Frozen(r)' /\ snapshot'[r] = snapshot[r]
  <2>1. PICK to \in {"idle", "unanswered"} : Move(x, to)
    BY <1>4 DEF AlreadyAnswered, Conflict, RepeatRefused, GiveUp, Crash
  <2>2. pc' = [pc EXCEPT ![x] = to] /\ UNCHANGED <<snapshot, expired>>
    BY <2>1 DEF Move, store, world
  <2>3. \A y \in Clients : y # x => call'[y] = call[y] /\ pc'[y] = pc[y]
    BY <1>0, <1>4, <2>2
    DEF Shape, AlreadyAnswered, Conflict, RepeatRefused, GiveUp, Crash, Answered
  <2>4. ~InFlight(x)'
    BY <1>0, <2>2 DEF Shape, InFlight
  <2> QED BY <1>1, <2>2, <2>3, <2>4 DEF InFlight
<1>5. ASSUME NEW x \in Clients, Commit(x)
      PROVE  Frozen(r)' /\ snapshot'[r] = snapshot[r]
  <2>1. /\ pc[x] = "locked" /\ UNCHANGED expired
        /\ \/ pc' = [pc EXCEPT ![x] = "idle"] /\ Answered(x)
           \/ pc' = [pc EXCEPT ![x] = "unanswered"] /\ UNCHANGED <<call, next>>
    BY <1>5 DEF Commit, world
  <2>2. call[x].recovery # r
    BY <2>1 DEF Frozen, InFlight
  <2>3. snapshot'[r] = snapshot[r]
    BY <1>0, <1>5, <2>2, CommitWrites DEF Shape
  <2>4. /\ pc'[x] \in {"idle", "unanswered"}
        /\ \A y \in Clients : y # x => pc'[y] = pc[y] /\ call'[y] = call[y]
    BY <1>0, <2>1 DEF Shape, Answered
  <2> QED BY <2>1, <2>3, <2>4 DEF Frozen, InFlight
<1>6. ASSUME NEW c \in Candidates, Expire(c) \/ Lapse(c)
      PROVE  Frozen(r)' /\ snapshot'[r] = snapshot[r]
  BY <1>1, <1>6 DEF Expire, Lapse, store, command, InFlight
<1>7. CASE UNCHANGED vars
  BY <1>1, <1>7 DEF vars, store, world, command, InFlight
<1> QED BY <1>2, <1>3, <1>4, <1>5, <1>6, <1>7 DEF Next, Transaction, Failure

\* A recovery whose selected candidate has expired, with no command of before
\* on its way, never changes again (_assert_selected, select_candidate).
THEOREM FrozenForEver == Spec => ExpiredPlanIsFrozen
<1>1. IInv /\ Documented /\ World /\ [Next]_vars
        => [\A r \in Recoveries : Frozen(r) => Frozen(r)' /\ snapshot'[r] = snapshot[r]]_vars
  BY FrozenStep
<1> QED
  BY <1>1, InvariantAlways, DocumentedAlways, WorldAlways, PTL DEF Spec, ExpiredPlanIsFrozen
============================================================================
