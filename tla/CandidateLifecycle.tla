--------------------------- MODULE CandidateLifecycle ---------------------------
(* Immutable candidates: core/candidate_lifecycle.py, the bucket with object    *)
(* lock of state/immutable_artifacts.py and the index of                       *)
(* state/candidate_repository.py.  The two writes of create are two steps, and  *)
(* a process may die between them.  What the caller does with an accepted      *)
(* upgrade is not in the repository: here it becomes the incumbent.            *)
EXTENDS Integers, FiniteSets, Sequences, SequencesExt

CONSTANTS Drafts,      \* what a solver may propose: tier, solved (the version it was solved on),
                       \* legal (assignments), open (cases), score, certified, expires
          LastVersion, \* bounds of the state version and of the clock
          LastHour

ASSUME CandidateAssumption ==
    \A d \in Drafts : d.solved \in Nat /\ d.legal \in Nat /\ d.open \in Nat

VARIABLES archived,    \* drafts in the bucket, as they were written
          indexed,     \* drafts with a row in candidate_artifact
          writing,     \* drafts of which create has written the artifact only
          adopted,     \* the incumbents, in order
          planVersion, \* the recovery's state version
          hour         \* the clock

candidateVars == <<archived, indexed, writing, adopted, planVersion, hour>>

CandidateInit == /\ archived = {} /\ indexed = {} /\ writing = {}
                 /\ adopted = <<>>
                 /\ planVersion = 1 /\ hour = 0

\* _validate and put; a candidate that is created again gets another identifier
Archive(d) == /\ d \notin archived /\ d.expires > hour
              /\ archived' = archived \cup {d}
              /\ writing' = writing \cup {d}
              /\ UNCHANGED <<indexed, adopted, planVersion, hour>>

\* insert, after the digest of the artifact has been compared
MayIndex(d) == d \in writing

Index(d) == /\ MayIndex(d) /\ d \notin indexed
            /\ indexed' = indexed \cup {d} /\ writing' = writing \ {d}
            /\ UNCHANGED <<archived, adopted, planVersion, hour>>

\* the process ends, or the insert fails: the artifact stays in the bucket
CreateFails(d) == /\ d \in writing
                  /\ writing' = writing \ {d}
                  /\ UNCHANGED <<archived, indexed, adopted, planVersion, hour>>

\* Mutant: an upgrade is judged by its score alone
AcceptsMutant(old, new) == /\ new.tier = "tier2" /\ new.solved = planVersion /\ new.expires > hour
                           /\ new.certified /\ new.score <= old.score

\* evaluate_upgrade, with the least improvement of zero
Accepts(old, new) == /\ new.tier = "tier2" /\ new.solved = planVersion /\ new.expires > hour
                     /\ new.certified
                     /\ new.legal >= old.legal /\ new.open <= old.open
                     /\ new.score <= old.score

\* get_verified of the artifact that the row names
Readable(d) == d \in indexed \cap archived

Adopt(d) == /\ Readable(d) /\ d \notin ToSet(adopted)
            /\ IF adopted = <<>> THEN d.tier = "tier1" /\ d.certified /\ d.solved = planVersion
               ELSE Accepts(Last(adopted), d)
            /\ adopted' = Append(adopted, d)
            /\ UNCHANGED <<archived, indexed, writing, planVersion, hour>>

StateAdvances == /\ planVersion < LastVersion /\ planVersion' = planVersion + 1
                 /\ UNCHANGED <<archived, indexed, writing, adopted, hour>>

HourPasses == /\ hour < LastHour /\ hour' = hour + 1
              /\ UNCHANGED <<archived, indexed, writing, adopted, planVersion>>

CandidateNext == \/ \E d \in Drafts : Archive(d) \/ Index(d) \/ CreateFails(d) \/ Adopt(d)
                 \/ StateAdvances \/ HourPasses

CandidateSpec == CandidateInit /\ [][CandidateNext]_candidateVars

\* However solves, versions and expiries interleave and wherever a process dies: a candidate with a
\* row can be read, and from the first incumbent to the last neither the legal assignments go down
\* nor the open cases up, and the versions they were solved on only advance
\* (candidate_lifecycle.py:79-101, 111-129).
UpgradeNeverRegresses ==
    /\ indexed \subseteq archived
    /\ \A i, j \in DOMAIN adopted : i < j =>
          /\ adopted[i].legal <= adopted[j].legal /\ adopted[i].open >= adopted[j].open
          /\ adopted[i].solved <= adopted[j].solved
          /\ adopted[j].certified /\ adopted[j].tier = "tier2"
=================================================================================
