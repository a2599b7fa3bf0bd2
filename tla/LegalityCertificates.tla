------------------------- MODULE LegalityCertificates -------------------------
(* The validation service, rules/validation_service.py, and the certificates   *)
(* that it signs, rules/certificates.py.  A digest is the content it is taken  *)
(* of, and nobody but the issuer can sign.                                    *)
EXTENDS CrewLegality

CONSTANTS CrewFile,      \* members that a request may name
          DutyFile,      \* duties
          EvidenceFile,  \* operational evidence: sets of at most one record
          Artifacts      \* candidate artifacts: documents of the client, which nothing compares with
                         \* the assignments that they are sent with

\* what must be valid until the end of a duty: three credentials and the types that may be flown
Papers == {"licence", "medical", "recency"}
              \cup UNION {{leg.type : leg \in ToSet(duty.legs)} : duty \in DutyFile}

Evidence == [complete : BOOLEAN, totals : SUBSET [flightLeft : SUBSET Int, dutyLeft : SUBSET Int],
             validUntil : [Papers -> SUBSET Int], acclimatizationKnown : BOOLEAN, nights : SUBSET Nat,
             standby : Nat, break : Nat, breakApproved : BOOLEAN, augmented : Nat,
             restFacility : BOOLEAN, rolesFilled : BOOLEAN, visa : {{}, {TRUE}, {FALSE}}]

ASSUME CertificateAssumption ==
    /\ CrewFile \subseteq CrewMember
    /\ DutyFile \subseteq [legs : Seq(FlightLeg) \ {<<>>}, start : Int, end : Int]
    /\ \A evidence \in EvidenceFile : evidence \subseteq Evidence

VARIABLES context,       \* how the service was set up
          response,      \* its last answer
          presented      \* the certificate of that answer, what it is shown with, and the verdict

certificateVars == <<context, response, presented>>

Requests == LET one == [member : CrewFile, duty : DutyFile, evidence : EvidenceFile]
            IN [assignments : {<<a>> : a \in one} \cup (one \X one), artifact : Artifacts]

NoAnswer == [request |-> [assignments |-> <<>>, artifact |-> "none"], valid |-> FALSE, certificate |-> {}]
Unshown == [shown |-> [snapshot |-> NoAnswer.request, artifact |-> "none", rules |-> "none"], verified |-> FALSE]

\* a certified execution cannot be built without the operator's profile
CertificateInit ==
    /\ context \in {c \in [eligible : BOOLEAN, profile : BOOLEAN] : c.eligible => c.profile}
    /\ response = NoAnswer
    /\ presented = Unshown

\* the operational context of a member of whom a certified run has no evidence
Missing == [complete |-> FALSE, totals |-> {}, nights |-> {}, acclimatizationKnown |-> FALSE,
            validUntil |-> [c \in Papers |-> {}],
            standby |-> 0, break |-> 0, breakApproved |-> FALSE, augmented |-> 0,
            restFacility |-> FALSE, rolesFilled |-> TRUE, visa |-> {}]

\* the findings of one assignment
FindingsOf(a) ==
    IF ~context.profile \/ (a.evidence = {} /\ ~context.eligible)
    THEN ValidateAssignment(a.member, a.duty)
    ELSE UNION {Evaluate(a.member, a.duty, e, context.eligible) :
                   e \in IF a.evidence = {} THEN {Missing} ELSE a.evidence}

\* Mutant: the findings of the last assignment are the findings of the request
FindingsMutant(assignments) == FindingsOf(Last(assignments))

Findings(assignments) == UNION {FindingsOf(a) : a \in ToSet(assignments)}

\* what is signed: the request as the input snapshot, its artifact, and the package of the service
Signed(request) == [snapshot |-> request, artifact |-> request.artifact, rules |-> "ours"]

\* ValidationExecutor.validate, and issue, which would refuse any finding
Validate == /\ response = NoAnswer
            /\ \E request \in Requests :
                  LET valid == Findings(request.assignments) = {}
                  IN response' = [request |-> request, valid |-> valid,
                                  certificate |-> IF valid /\ context.eligible THEN {Signed(request)} ELSE {}]
            /\ UNCHANGED <<context, presented>>

\* CertificateIssuer.verify: the certificate is shown with the request as it was or with another artifact,
\* one assignment less or one more, with some artifact, and with the package of the service or another
Verify ==
    /\ response.certificate # {} /\ presented = Unshown
    /\ LET asked == response.request.assignments
           requests == [assignments : {asked, Tail(asked), Append(asked, Last(asked))}, artifact : Artifacts]
       IN \E shown \in [snapshot : requests, artifact : Artifacts, rules : {"ours", "another"}] :
             presented' = [shown |-> shown, verified |-> response.certificate = {shown}]
    /\ UNCHANGED <<context, response>>

CertificateNext == Validate \/ Verify

CertificateSpec == CertificateInit /\ [][CertificateNext]_certificateVars

\* A certificate verifies only with the request it was issued for, the artifact sent with that request
\* and the package of the service; each assignment of the request has been judged on complete evidence
\* and found legal, by limits that are asked here anew.  The evidence counts for every assignment, not
\* for the first or the last.  That the artifact describes these assignments is not promised: nothing
\* compares the two (validation_service.py:93, 133-193, operational_profile.py:92-203,
\* certificates.py:61-84).
CertificateIsEarned ==
    /\ response.certificate # {} => context.eligible /\ context.profile
    /\ presented.verified => presented.shown = Signed(response.request)
    /\ response.certificate # {} =>
          \A k \in DOMAIN response.request.assignments :
             LET a == response.request.assignments[k]
                 flown == {j \in DOMAIN a.duty.legs : ~a.duty.legs[j].deadhead}
                 hours == SumFunction([j \in flown |-> a.duty.legs[j].arr - a.duty.legs[j].dep])
                 span == a.duty.end - a.duty.start
             IN \E e \in a.evidence :
                   /\ e.complete /\ e.acclimatizationKnown /\ e.rolesFilled /\ e.visa = {TRUE}
                   /\ \E totals \in e.totals : /\ \A left \in totals.flightLeft : hours <= left
                                               /\ \A left \in totals.dutyLeft : span <= left
                   /\ \A c \in {"licence", "medical", "recency"} \cup {a.duty.legs[j].type : j \in flown} :
                         \E t \in e.validUntil[c] : t >= a.duty.end
                   /\ e.standby + span <= 36 /\ hours <= 18 /\ span <= 28
                   /\ \A j \in flown : a.duty.legs[j].type \in a.member.types
                   /\ \A t \in a.member.restEnds : a.duty.start - t >= 20
                   /\ \/ a.member.at = ""
                      \/ \E leg \in ToSet(a.duty.legs) : /\ leg.from = a.member.at
                                                       /\ \A l \in ToSet(a.duty.legs) : leg.dep <= l.dep
===============================================================================
