----------------------------- MODULE RulePackages -----------------------------
(* The registry of signed, effective-dated rules packages of one tenant,       *)
(* rules/governance.py.  Every method but active() runs under its lock; a      *)
(* package's signature and version are checked when it is submitted.           *)
EXTENDS Naturals, FiniteSets

CONSTANTS Packages,    \* package identifiers
          People,      \* submitters and approvers
          LastDay      \* bound on the clock

ASSUME GovernanceAssumption == LastDay \in Nat

VARIABLES package,     \* the registered packages
          activeId,    \* _active_by_tenant, a set of at most one package
          today        \* the clock that effective periods are compared with

governanceVars == <<package, activeId, today>>

Authorities == {"airline-operations", "regulatory-compliance"}

PackageStatus == {"absent", "draft", "approved", "shadow", "active", "retired"}

Unregistered == [status |-> "absent", by |-> CHOOSE p \in People : TRUE, from |-> 0, until |-> 0,
                 approvals |-> {}, evidence |-> "none"]

GovernanceInit == /\ package = [k \in Packages |-> Unregistered]
                  /\ activeId = {}
                  /\ today = 0

\* submit: an open end is an end after the last day
Submit(k, by, from, until) ==
    /\ package[k].status = "absent" /\ from < until
    /\ package' = [package EXCEPT ![k] = [Unregistered EXCEPT !.status = "draft", !.by = by,
                                                             !.from = from, !.until = until]]
    /\ UNCHANGED <<activeId, today>>

\* Mutant: the same person may approve for both authorities
ApprovePackageMutant(k, actor, authority) ==
    LET approvals == package[k].approvals \cup {<<actor, authority>>}
    IN /\ package[k].status \in {"draft", "approved"} /\ actor # package[k].by
       /\ \A a \in package[k].approvals : a[2] # authority
       /\ package' = [package EXCEPT ![k].approvals = approvals,
                         ![k].status = IF {a[2] : a \in approvals} = Authorities THEN "approved" ELSE @]
       /\ UNCHANGED <<activeId, today>>

ApprovePackage(k, actor, authority) ==
    LET approvals == package[k].approvals \cup {<<actor, authority>>}
    IN /\ package[k].status \in {"draft", "approved"} /\ actor # package[k].by
       /\ \A a \in package[k].approvals : a[1] # actor /\ a[2] # authority
       /\ package' = [package EXCEPT ![k].approvals = approvals,
                         ![k].status = IF {a[2] : a \in approvals} = Authorities THEN "approved" ELSE @]
       /\ UNCHANGED <<activeId, today>>

BeginShadow(k) == /\ package[k].status = "approved"
                  /\ package' = [package EXCEPT ![k].status = "shadow"]
                  /\ UNCHANGED <<activeId, today>>

\* record_shadow: consistent counts, which pass or do not; the last record stands
RecordShadow(k, passes) == /\ package[k].status = "shadow"
                           /\ package' = [package EXCEPT ![k].evidence =
                                              IF passes THEN "passed" ELSE "failed"]
                           /\ UNCHANGED <<activeId, today>>

Effective(k) == package[k].from <= today /\ today < package[k].until

\* the package takes the place of the active one, which is retired
TakesOver(k) == /\ package' = [j \in Packages |->
                                  IF j = k THEN [package[j] EXCEPT !.status = "active"]
                                  ELSE IF j \in activeId THEN [package[j] EXCEPT !.status = "retired"]
                                  ELSE package[j]]
                /\ activeId' = {k}
                /\ UNCHANGED today

Activate(k) == /\ package[k].status = "shadow" /\ package[k].evidence = "passed" /\ Effective(k)
               /\ TakesOver(k)

RollbackTo(k) == package[k].status = "retired" /\ TakesOver(k)

NextDay == today < LastDay /\ today' = today + 1 /\ UNCHANGED <<package, activeId>>

GovernanceNext ==
    \/ NextDay
    \/ \E k \in Packages :
          \/ \E by \in People, from \in 0..LastDay, until \in 1..LastDay + 1 : Submit(k, by, from, until)
          \/ \E actor \in People, authority \in Authorities : ApprovePackage(k, actor, authority)
          \/ BeginShadow(k) \/ Activate(k) \/ RollbackTo(k)
          \/ \E passes \in BOOLEAN : RecordShadow(k, passes)

GovernanceSpec == GovernanceInit /\ [][GovernanceNext]_governanceVars

\* The rules in force are one package, and it and every package that ever was in force has
\* passed shadow evaluation and carries the approvals of two people, other than the
\* submitter, for the two authorities (governance.py:111-185, rollbacks included).
RulesInForceAreGoverned ==
    /\ Cardinality(activeId) <= 1
    /\ \A k \in Packages : package[k].status = "active" <=> k \in activeId
    /\ \A k \in Packages : package[k].status \in {"active", "retired"} =>
          /\ package[k].evidence = "passed"
          /\ \E p, q \in People \ {package[k].by} :
                p # q /\ package[k].approvals = {<<p, "airline-operations">>,
                                                 <<q, "regulatory-compliance">>}
=============================================================================
