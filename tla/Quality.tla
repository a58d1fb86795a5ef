------------------------------ MODULE Quality ------------------------------
(***************************************************************************)
(* Reviews, verification plans and evidence of                             *)
(* reviews-verification-reporting.js, and the readiness of requirements    *)
(* for a baseline that history-baselines.js derives from them.             *)
(*                                                                         *)
(* As in Documents, an operator that changes documents returns the set of  *)
(* results: {} when the code throws.  A review freezes the versions it is  *)
(* about.  Evidence names one requirement; its configuration, release and  *)
(* variant, and visibility to the caller, are left out.                    *)
(***************************************************************************)
EXTENDS Documents

CreateReview(d, ids) ==
    { [d EXCEPT !.reviews = Append(@,
        [status |-> "open", outcome |-> "none", findings |-> <<>>,
         items |-> {<<id, Version(d, id)>> : id \in ids}])] }

RecordReviewFinding(d, r, severity) ==
    IF d.reviews[r].status # "open" THEN {}
    ELSE { [d EXCEPT !.reviews[r].findings = Append(@, [severity |-> severity, status |-> "open"])] }

DispositionReviewFinding(d, r, f, disposition) ==
    IF d.reviews[r].status # "open" \/ d.reviews[r].findings[f].status # "open" THEN {}
    ELSE { [d EXCEPT !.reviews[r].findings[f].status = disposition] }

OpenBlockingFindings(review) ==
    {f \in DOMAIN review.findings : /\ review.findings[f].severity = "blocking"
                                    /\ review.findings[f].status = "open"}

\* exception: a dated one of the authenticated principal.
RecordReviewDecision(d, r, decision, exception) ==
    LET review == d.reviews[r] IN
    IF \/ review.status # "open"
       \/ decision = "close" /\ OpenBlockingFindings(review) # {} /\ ~exception
    THEN {}
    ELSE { [d EXCEPT !.reviews[r] =
              [@ EXCEPT !.status = IF decision = "close" THEN "closed" ELSE @,
                        !.outcome = CASE decision = "reject" -> "rejected"
                                      [] decision = "approve" -> "approved"
                                      [] OTHER -> @]] }

ReopenReview(d, r) ==
    IF d.reviews[r].status # "closed" THEN {} ELSE { [d EXCEPT !.reviews[r].status = "open"] }

RecordVerificationPlan(d, id) == { [d EXCEPT !.plans = @ \cup {<<id, Version(d, id)>>}] }

\* An older version than the current one is accepted too.
RecordVerificationEvidence(d, id, version, status, accepted) ==
    IF version > Version(d, id) THEN {}
    ELSE { [d EXCEPT !.evidence = @ \cup
              {[requirement |-> id, version |-> version, recordedAt |-> Version(d, id),
                stale |-> FALSE, status |-> status, accepted |-> accepted]}] }

RelationshipApplicable(d, id) ==
    \E n \in ActiveLinks(d) : LET link == d.relationships[n] IN
        /\ ~link.suspect /\ link.status = "valid"
        /\ link.type \in Policy.verifying /\ link.source = id

\* Of the statuses evidence may have: passed, failed and waived.  The code lets the
\* last condition that holds decide.
EvaluateVerification(d, id) ==
    LET evidence == {e \in d.evidence : e.requirement = id}
        current == {e \in evidence : ~e.stale}
        accepted == {e \in current : e.accepted}
        Some(records, status) == \E e \in records : e.status = status
    IN  CASE Some(accepted, "passed") ->
               IF RelationshipApplicable(d, id) THEN "passed" ELSE "stale"
          [] Some(current, "passed") /\ ~Some(accepted, "passed") -> "pending_acceptance"
          [] Some(accepted, "waived") /\ ~Some(current, "passed") -> "waived"
          [] Some(current, "failed") /\ ~Some(current, "passed") /\ ~Some(accepted, "waived") -> "failed"
          [] evidence # {} /\ current = {} -> "stale"
          [] OTHER -> IF <<id, Version(d, id)>> \in d.plans THEN "planned" ELSE "absent"

----------------------------------------------------------------------------
(* readiness(): what stands between a selection and its baseline.  Links   *)
(* are those with an endpoint in the selection.                            *)

SelectedLinks(d, ids) ==
    {n \in ActiveLinks(d) : {d.relationships[n].source, d.relationships[n].target} \cap ids # {}}

LinkBlockers(d, ids) ==
    {<<"SUSPECT_LINK", n>> : n \in {m \in SelectedLinks(d, ids) : d.relationships[m].suspect}}
    \cup {<<"BLOCKING_CONFLICT", n>> : n \in {m \in SelectedLinks(d, ids) :
            /\ d.relationships[m].type = "conflicts_with"
            /\ d.relationships[m].status \notin {"invalid", "waived"}}}

ChangeBlockers(d, ids) ==
    {<<"OPEN_CHANGE_REQUEST", ch>> : ch \in {c \in DOMAIN d.changes :
        /\ d.changes[c].status \notin {"closed", "cancelled", "rejected"}
        /\ \E n \in DOMAIN d.changes[c].proposals :
             /\ d.changes[c].proposals[n].op # "create"
             /\ d.changes[c].proposals[n].id \in ids}}

ReviewBlockers(d, ids) ==
    UNION {{<<"BLOCKING_REVIEW_FINDING", r, f>> : f \in OpenBlockingFindings(d.reviews[r])} :
             r \in {q \in DOMAIN d.reviews : \E item \in d.reviews[q].items : item[1] \in ids}}

Covered(d, id, type) ==
    \E n \in ActiveLinks(d) : d.relationships[n].type = type /\ Touches(d.relationships[n], id)

RequirementBlockers(d, id) ==
    LET item == Item(d, id)
        When(condition, code) == IF condition THEN {<<code, id>>} ELSE {}
    IN  When(item.status \notin Policy.allowedStatuses, "STATUS_NOT_ALLOWED")
        \cup When(item.content \in Policy.incomplete, "MISSING_METADATA")
        \cup When(/\ item.status \in Policy.allowedStatuses
                  /\ \E type \in Policy.coverage : ~Covered(d, id, type), "MISSING_COVERAGE")
        \cup When(id \in Policy.planned /\ <<id, Version(d, id)>> \notin d.plans,
                  "MISSING_VERIFICATION_PLAN")
        \cup When(item.status = "verified" /\ EvaluateVerification(d, id) # "passed",
                  "MISSING_ACCEPTED_VERIFICATION")

Blockers(d, ids) ==
    UNION {RequirementBlockers(d, id) : id \in ids \cap Ids(d)}
    \cup {<<"REQUIREMENT_NOT_FOUND", id>> : id \in ids \ Ids(d)}
    \cup LinkBlockers(d, ids) \cup ChangeBlockers(d, ids) \cup ReviewBlockers(d, ids)
============================================================================
