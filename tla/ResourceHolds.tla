--------------------------- MODULE ResourceHolds ---------------------------
(***************************************************************************)
(* The in-process registry of resource holds, core/resource_holds.py.      *)
(*                                                                         *)
(* A hold reserves a set of resources (a tail, a crew, a gate) of a tenant *)
(* for the candidate a recovery is reviewing, until it expires or is       *)
(* released.  Every method runs under the registry's lock, so it is one    *)
(* action.  Nothing expires in the background: each method first sweeps    *)
(* the holds whose time has come (_expire), so a refused call can change   *)
(* the state too.                                                          *)
(*                                                                         *)
(* A candidate stands for the pair (candidate_id, candidate_version).      *)
(***************************************************************************)
EXTENDS Integers

CONSTANTS
  Tenants, Recoveries, Candidates, Owners, Resources,
  HoldIds,          \* the hold identifiers uuid4 can return: never reissued
  MinTtl, MaxTtl,   \* the legal range of ttl_seconds (30 and 1800)
  MaxTime,          \* bound: no hold may end after this instant
  None

ASSUME TtlAssumption == MinTtl \in Nat \ {0} /\ MaxTtl \in Nat /\ MaxTime \in Nat

VARIABLES
  now,       \* the registry's clock
  hold,      \* what each hold identifier was issued for (None: never issued)
  live,      \* the keys of _holds
  index,     \* _resource_index: (tenant, resource) -> hold identifier
  conflict   \* the slots HoldConflict names, when the last step was a refused acquire

vars == <<now, hold, live, index, conflict>>

Slots == Tenants \X Resources

Hold == [tenant: Tenants, recovery: Recoveries, candidate: Candidates,
         resources: SUBSET Resources, owner: Owners, expires: Nat]

ASSUME NoneAssumption == None \notin HoldIds /\ None \notin Hold

NoConflict == {}

SlotsOf(h) == {hold[h].tenant} \X hold[h].resources

\* Mutants of Expired: a strict comparison; no sweep at all.
ExpiredStrictly == {h \in live : hold[h].expires < now}
ExpiredNever == {}

\* The holds _expire removes: expires_at <= now.
Expired == {h \in live : hold[h].expires <= now}

\* Mutant of IndexWithout: the index entry is found by resource, not by tenant too.
IndexWithoutResource(gone) ==
  [s \in Slots |-> IF \E h \in gone : s[2] \in hold[h].resources THEN None ELSE index[s]]

\* What _release leaves of the index after dropping the holds in gone.
IndexWithout(gone) ==
  [s \in Slots |-> IF \E h \in gone : s \in SlotsOf(h) THEN None ELSE index[s]]

\* Sweep the expired holds and drop those in gone with them.
Drop(gone) ==
  /\ live' = live \ (Expired \cup gone)
  /\ index' = IndexWithout(Expired \cup gone)

\* What get() would find, after its sweep.
Found(h) == h \in live \ Expired

----------------------------------------------------------------------------
Init ==
  /\ now = 0
  /\ hold = [h \in HoldIds |-> None]
  /\ live = {}
  /\ index = [s \in Slots |-> None]
  /\ conflict = NoConflict

Tick ==
  /\ now < MaxTime
  /\ now' = now + 1
  /\ conflict' = NoConflict
  /\ UNCHANGED <<hold, live, index>>

\* Mutants of Taken: refuse only when everything is taken; name bare resources.
TakenEntirely(t, res) ==
  {s \in {t} \X res : \A q \in {t} \X res : IndexWithout(Expired)[q] # None}
TakenResources(t, res) == {r \in res : IndexWithout(Expired)[<<t, r>>] # None}

\* The requested slots the index still has after the sweep, whoever owns them.
Taken(t, res) == {s \in {t} \X res : IndexWithout(Expired)[s] # None}

Acquire(h, t, rec, c, res, o, ttl) ==
  /\ ttl \in MinTtl..MaxTtl
  /\ now + ttl <= MaxTime
  /\ res # {}
  /\ hold[h] = None
  /\ Taken(t, res) = {}
  /\ hold' = [hold EXCEPT ![h] = [tenant |-> t, recovery |-> rec, candidate |-> c,
                                  resources |-> res, owner |-> o, expires |-> now + ttl]]
  /\ live' = (live \ Expired) \cup {h}
  /\ index' = [s \in Slots |-> IF s \in {t} \X res THEN h ELSE IndexWithout(Expired)[s]]
  /\ conflict' = NoConflict
  /\ UNCHANGED now

\* acquire raises resource_conflict: nothing is taken, not even the free part.
AcquireRefused(t, res) ==
  /\ Taken(t, res) # {}
  /\ Drop({})
  /\ conflict' = Taken(t, res)
  /\ UNCHANGED <<now, hold>>

\* get, assert_current, and release by a caller who is not entitled to it.
Look ==
  /\ Drop({})
  /\ conflict' = NoConflict
  /\ UNCHANGED <<now, hold>>

Release(h, o) ==
  /\ Found(h)
  /\ hold[h].owner = o
  /\ Drop({h})
  /\ conflict' = NoConflict
  /\ UNCHANGED <<now, hold>>

ReleaseForRecovery(h, rec) ==
  /\ Found(h)
  /\ hold[h].recovery = rec
  /\ Drop({h})
  /\ conflict' = NoConflict
  /\ UNCHANGED <<now, hold>>

ReleaseAllForRecovery(rec) ==
  /\ Drop({h \in live \ Expired : hold[h].recovery = rec})
  /\ conflict' = NoConflict
  /\ UNCHANGED <<now, hold>>

Next ==
  \/ Tick
  \/ \E h \in HoldIds, t \in Tenants, rec \in Recoveries, c \in Candidates,
        res \in SUBSET Resources, o \in Owners, ttl \in MinTtl..MaxTtl :
       Acquire(h, t, rec, c, res, o, ttl)
  \/ \E t \in Tenants, res \in SUBSET Resources : AcquireRefused(t, res)
  \/ Look
  \/ \E h \in HoldIds, o \in Owners : Release(h, o)
  \/ \E h \in HoldIds, rec \in Recoveries : ReleaseForRecovery(h, rec)
  \/ \E rec \in Recoveries : ReleaseAllForRecovery(rec)

Spec == Init /\ [][Next]_vars

\* Time passes, and the service keeps being called.
FairSpec == Spec /\ WF_vars(Tick) /\ WF_vars(Look)

----------------------------------------------------------------------------
\* The clock, the hold table and the index keep the shape the registry gives them.
TypeOK ==
  /\ now \in 0..MaxTime
  /\ hold \in [HoldIds -> Hold \cup {None}]
  /\ live \subseteq {h \in HoldIds : hold[h] # None}
  /\ index \in [Slots -> HoldIds \cup {None}]
  /\ conflict \subseteq Slots

\* _resource_index and _holds say the same thing: a slot points to a hold
\* exactly when that hold is registered and covers it.  _release pops the
\* index by resource without looking at what it points to, so this is what
\* keeps one hold's release from freeing another's resource.
IndexExact ==
  \A s \in Slots, h \in HoldIds : index[s] = h <=> h \in live /\ s \in SlotsOf(h)

\* No resource of a tenant is double-booked: two registered holds never share
\* one, whatever mix of expiry, release and re-acquisition came before.
NoDoubleBooking ==
  \A g, h \in live : g # h => SlotsOf(g) \cap SlotsOf(h) = {}

\* acquire reports a conflict only over a hold that still has time to run: an
\* expired hold, swept or not, never blocks another recovery.
ConflictIsReal ==
  \A s \in conflict : \E h \in live : s \in SlotsOf(h) /\ hold[h].expires > now

\* A recovery that is superseded cannot strand a resource: whatever its holder
\* does or forgets to do, every hold ends for good, in the table and in the
\* index.  The slot itself need not be seen free in between: acquire may sweep
\* a hold and book its resources again under one lock (resource_holds.py:65-76).
EveryHoldEnds ==
  \A h \in HoldIds : (h \in live) ~> [](h \notin live /\ \A s \in Slots : index[s] # h)
============================================================================
