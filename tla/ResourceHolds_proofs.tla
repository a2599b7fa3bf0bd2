----------------------- MODULE ResourceHolds_proofs -----------------------
(***************************************************************************)
(* Proofs about the hold registry, for any tenants, resources and clock.   *)
(* IndexExact is inductive together with TypeOK; mutual exclusion follows. *)
(***************************************************************************)
EXTENDS ResourceHolds, TLAPS

\* _release on its own: dropping registered holds keeps the index exact.
\* It rests on gone \subseteq live, which every caller guarantees.
LEMMA DropKeepsIndexExact ==
  ASSUME TypeOK, IndexExact, NEW gone, gone \subseteq live, Drop(gone), UNCHANGED hold
  PROVE  IndexExact'
<1> DEFINE removed == Expired \cup gone
<1>1. removed \subseteq live
  BY DEF Expired
<1>2. SUFFICES ASSUME NEW s \in Slots, NEW h \in HoldIds
               PROVE  index'[s] = h <=> h \in live' /\ s \in SlotsOf(h)
  BY DEF IndexExact, SlotsOf
<1>3. index'[s] = IF \E g \in removed : s \in SlotsOf(g) THEN None ELSE index[s]
  BY DEF Drop, IndexWithout
<1>4. live' = live \ removed
  BY DEF Drop
<1>5. CASE \E g \in removed : s \in SlotsOf(g)
  <2>1. PICK g \in removed : s \in SlotsOf(g)
    BY <1>5
  <2>2. index[s] = g /\ g \in HoldIds
    BY <1>1, <2>1 DEF IndexExact, TypeOK
  <2>3. ~(h \in live' /\ s \in SlotsOf(h))
    BY <1>4, <2>1, <2>2 DEF IndexExact
  <2>4. index'[s] # h
    BY <1>3, <1>5, NoneAssumption
  <2>5. QED
    BY <2>3, <2>4
<1>6. CASE ~\E g \in removed : s \in SlotsOf(g)
  BY <1>3, <1>4, <1>6 DEF IndexExact
<1>7. QED
  BY <1>5, <1>6

\* The registry's variables keep their types: in particular only issued holds
\* are registered and the index only ever names hold identifiers.
LEMMA TypeInvariance == TypeOK /\ [Next]_vars => TypeOK'
<1> SUFFICES ASSUME TypeOK, [Next]_vars PROVE TypeOK'
  OBVIOUS
<1> USE DEF TypeOK
<1>1. ASSUME NEW gone, Drop(gone), UNCHANGED hold
      PROVE  /\ live' \subseteq {h \in HoldIds : hold'[h] # None}
             /\ index' \in [Slots -> HoldIds \cup {None}]
  BY <1>1 DEF Drop, IndexWithout
<1>2. CASE Tick
  BY <1>2, TtlAssumption DEF Tick, NoConflict
<1>3. ASSUME NEW h \in HoldIds, NEW t \in Tenants, NEW rec \in Recoveries, NEW c \in Candidates,
             NEW res \in SUBSET Resources, NEW o \in Owners, NEW ttl \in MinTtl..MaxTtl,
             Acquire(h, t, rec, c, res, o, ttl)
      PROVE  TypeOK'
  <2> DEFINE new == [tenant |-> t, recovery |-> rec, candidate |-> c,
                     resources |-> res, owner |-> o, expires |-> now + ttl]
  <2>1. new \in Hold
    BY TtlAssumption DEF Hold
  <2>3. hold' = [hold EXCEPT ![h] = new]
    BY <1>3 DEF Acquire
  <2>4. hold' \in [HoldIds -> Hold \cup {None}]
    BY <2>1, <2>3
  <2>5. index' \in [Slots -> HoldIds \cup {None}]
    BY <1>3 DEF Acquire, IndexWithout
  <2>6. live' \subseteq {g \in HoldIds : hold'[g] # None}
    BY <1>3, <2>1, <2>3, NoneAssumption DEF Acquire, Expired
  <2>7. conflict' \subseteq Slots /\ now' \in 0..MaxTime
    BY <1>3 DEF Acquire, NoConflict
  <2>8. QED
    BY <2>4, <2>5, <2>6, <2>7
<1>4. ASSUME NEW t \in Tenants, NEW res \in SUBSET Resources, AcquireRefused(t, res)
      PROVE  TypeOK'
  BY <1>1, <1>4 DEF AcquireRefused, Taken, Slots
<1>5. CASE Look
  BY <1>1, <1>5 DEF Look, NoConflict
<1>6. ASSUME NEW h \in HoldIds, NEW o \in Owners, Release(h, o)
      PROVE  TypeOK'
  BY <1>1, <1>6 DEF Release, NoConflict
<1>7. ASSUME NEW h \in HoldIds, NEW rec \in Recoveries, ReleaseForRecovery(h, rec)
      PROVE  TypeOK'
  BY <1>1, <1>7 DEF ReleaseForRecovery, NoConflict
<1>8. ASSUME NEW rec \in Recoveries, ReleaseAllForRecovery(rec)
      PROVE  TypeOK'
  BY <1>1, <1>8 DEF ReleaseAllForRecovery, NoConflict
<1>9. CASE UNCHANGED vars
  BY <1>9 DEF vars
<1>10. QED
  BY <1>2, <1>3, <1>4, <1>5, <1>6, <1>7, <1>8, <1>9 DEF Next

\* Acquiring a hold keeps the index exact: the slots it takes were free, and
\* its identifier is new.
LEMMA AcquireKeepsIndexExact ==
  ASSUME TypeOK, IndexExact,
         NEW h \in HoldIds, NEW t \in Tenants, NEW rec \in Recoveries, NEW c \in Candidates,
         NEW res \in SUBSET Resources, NEW o \in Owners, NEW ttl \in MinTtl..MaxTtl,
         Acquire(h, t, rec, c, res, o, ttl)
  PROVE  IndexExact'
<1> DEFINE swept == IndexWithout(Expired)
           took == {t} \X res
<1>1. h \notin live
  BY DEF Acquire, TypeOK
<1>2. /\ hold'[h].tenant = t /\ hold'[h].resources = res
      /\ \A g \in HoldIds \ {h} : hold'[g] = hold[g]
  BY DEF Acquire, TypeOK
<1>3. \A s \in Slots : s \in took => swept[s] = None
  BY DEF Acquire, Taken, Slots
<1>4. \A s \in Slots : index'[s] = IF s \in took THEN h ELSE swept[s]
  BY DEF Acquire
<1>5. \A s \in Slots, g \in HoldIds :
        swept[s] = g <=> g \in live \ Expired /\ s \in SlotsOf(g)
  <2> SUFFICES ASSUME NEW s \in Slots, NEW g \in HoldIds
               PROVE  swept[s] = g <=> g \in live \ Expired /\ s \in SlotsOf(g)
    OBVIOUS
  <2>1. swept[s] = IF \E e \in Expired : s \in SlotsOf(e) THEN None ELSE index[s]
    BY DEF IndexWithout
  <2>2. \A e \in Expired : e \in live /\ e \in HoldIds
    BY DEF Expired, TypeOK
  <2>3. QED
    BY <2>1, <2>2, NoneAssumption DEF IndexExact
<1>6. SUFFICES ASSUME NEW s \in Slots, NEW g \in HoldIds
               PROVE  index'[s] = g <=> g \in live' /\ s \in SlotsOf(g)'
  BY DEF IndexExact
<1>7. live' = (live \ Expired) \cup {h}
  BY DEF Acquire
<1>8. SlotsOf(h)' = took
  BY <1>2 DEF SlotsOf
<1>9. CASE g = h
  BY <1>1, <1>3, <1>4, <1>5, <1>7, <1>8, <1>9
<1>10. CASE g # h
  <2>1. SlotsOf(g)' = SlotsOf(g)
    BY <1>2, <1>10 DEF SlotsOf
  <2>2. QED
    BY <1>3, <1>4, <1>5, <1>7, <1>10, <2>1, NoneAssumption
<1>11. QED
  BY <1>9, <1>10

\* Every step keeps the index exact.
LEMMA IndexInvariance == TypeOK /\ IndexExact /\ [Next]_vars => IndexExact'
<1> SUFFICES ASSUME TypeOK, IndexExact, [Next]_vars PROVE IndexExact'
  OBVIOUS
<1>1. CASE Tick \/ UNCHANGED vars
  BY <1>1 DEF Tick, vars, IndexExact, SlotsOf
<1>2. ASSUME NEW h \in HoldIds, NEW t \in Tenants, NEW rec \in Recoveries, NEW c \in Candidates,
             NEW res \in SUBSET Resources, NEW o \in Owners, NEW ttl \in MinTtl..MaxTtl,
             Acquire(h, t, rec, c, res, o, ttl)
      PROVE  IndexExact'
  BY <1>2, AcquireKeepsIndexExact
<1>3. ASSUME NEW t \in Tenants, NEW res \in SUBSET Resources, AcquireRefused(t, res)
      PROVE  IndexExact'
  BY <1>3, DropKeepsIndexExact DEF AcquireRefused
<1>4. CASE Look
  BY <1>4, DropKeepsIndexExact DEF Look
<1>5. ASSUME NEW h \in HoldIds, NEW o \in Owners, Release(h, o)
      PROVE  IndexExact'
  BY <1>5, DropKeepsIndexExact DEF Release, Found
<1>6. ASSUME NEW h \in HoldIds, NEW rec \in Recoveries, ReleaseForRecovery(h, rec)
      PROVE  IndexExact'
  BY <1>6, DropKeepsIndexExact DEF ReleaseForRecovery, Found
<1>7. ASSUME NEW rec \in Recoveries, ReleaseAllForRecovery(rec)
      PROVE  IndexExact'
  BY <1>7, DropKeepsIndexExact DEF ReleaseAllForRecovery
<1>8. QED
  BY <1>1, <1>2, <1>3, <1>4, <1>5, <1>6, <1>7 DEF Next

\* The registry's variables always have their types.
THEOREM TypeCorrect == Spec => []TypeOK
<1>1. Init => TypeOK
  BY TtlAssumption DEF Init, TypeOK, NoConflict
<1>2. TypeOK /\ [Next]_vars => TypeOK'
  BY TypeInvariance
<1>3. QED
  BY <1>1, <1>2, PTL DEF Spec

\* _holds and _resource_index agree in every reachable state, for any number
\* of tenants, resources and holds: acquire, every form of release and the
\* sweep keep them in step.
THEOREM IndexAlwaysExact == Spec => []IndexExact
<1>1. Init => IndexExact
  BY NoneAssumption DEF Init, IndexExact
<1>2. QED
  BY <1>1, IndexInvariance, TypeCorrect, PTL DEF Spec

\* No resource of a tenant is ever reserved by two registered holds.
THEOREM MutualExclusion == Spec => []NoDoubleBooking
<1>1. TypeOK /\ IndexExact => NoDoubleBooking
  <2> SUFFICES ASSUME TypeOK, IndexExact,
                      NEW g \in live, NEW h \in live, NEW s, s \in SlotsOf(g), s \in SlotsOf(h)
               PROVE  g = h
    BY DEF NoDoubleBooking
  <2>1. s \in Slots
    BY DEF TypeOK, SlotsOf, Slots, Hold
  <2>2. QED
    BY <2>1 DEF IndexExact, TypeOK
<1>2. QED
  BY <1>1, TypeCorrect, IndexAlwaysExact, PTL

\* Whoever is refused is refused because of a hold with time left.
THEOREM ConflictAlwaysReal == Spec => []ConflictIsReal
<1>1. Init => ConflictIsReal
  BY DEF Init, NoConflict, ConflictIsReal
<1>2. TypeOK /\ IndexExact /\ ConflictIsReal /\ [Next]_vars => ConflictIsReal'
  <2> SUFFICES ASSUME TypeOK, IndexExact, ConflictIsReal, [Next]_vars
               PROVE  ConflictIsReal'
    OBVIOUS
  <2>1. ASSUME NEW t \in Tenants, NEW res \in SUBSET Resources, AcquireRefused(t, res)
        PROVE  ConflictIsReal'
    <3>1. SUFFICES ASSUME NEW s \in Taken(t, res)
                   PROVE  \E h \in live' : s \in SlotsOf(h)' /\ hold'[h].expires > now'
      BY <2>1 DEF AcquireRefused, ConflictIsReal
    <3>2. s \in Slots /\ IndexWithout(Expired)[s] # None
      BY DEF Taken, Slots
    <3>3. index[s] # None /\ ~\E e \in Expired : s \in SlotsOf(e)
      BY <3>2 DEF IndexWithout
    <3>4. PICK h \in HoldIds : index[s] = h
      BY <3>2, <3>3 DEF TypeOK
    <3>5. h \in live \ Expired /\ s \in SlotsOf(h)
      BY <3>2, <3>3, <3>4 DEF IndexExact
    <3>6. hold[h].expires > now
      <4>1. hold[h] \in Hold
        BY <3>4, <3>5 DEF TypeOK
      <4>2. hold[h].expires \in Nat /\ now \in Nat
        BY <4>1, TtlAssumption DEF Hold, TypeOK
      <4>3. QED
        BY <3>5, <4>2 DEF Expired
    <3>7. QED
      BY <2>1, <3>5, <3>6 DEF AcquireRefused, Drop, SlotsOf
  <2>2. CASE UNCHANGED vars
    BY <2>2 DEF vars, ConflictIsReal, SlotsOf
  <2>3. conflict' = {} => ConflictIsReal'
    BY DEF ConflictIsReal
  <2>4. QED
    BY <2>1, <2>2, <2>3 DEF Next, Tick, Acquire, Look, Release, ReleaseForRecovery,
                            ReleaseAllForRecovery, NoConflict
<1>3. QED
  BY <1>1, <1>2, TypeCorrect, IndexAlwaysExact, PTL DEF Spec
============================================================================
