----------------------------- MODULE Methodology -----------------------------
(***************************************************************************)
(* The tools between evidence and a published verdict, as operators on an   *)
(* envelope: the parser's report and the review it allows                   *)
(* (halal_methodology_core), the certifier registry (certifier_registry),   *)
(* the migration report, the quality decision (catalog_quality_core), the   *)
(* release gate (production_catalog_gate) and the refusals of the compiler  *)
(* (production_catalog).                                                    *)
(***************************************************************************)
EXTENDS Evidence

CONSTANTS
    Prohibited,     \* by methodology version: texts with a prohibited match
    Ambiguous,      \* by methodology version: texts with another match
    Certificate,    \* by certificate: effective, expiry, checked
    MaxRecheckAge,  \* registry entry: how old lastCheckedAt may be
    StaleAge        \* quality policy: from which age a check is stale

Versions == DOMAIN Prohibited

ASSUME MethodologyAssumption ==
    /\ Versions \subseteq Nat
    /\ Prohibited \in [Versions -> SUBSET Texts]
    /\ Ambiguous \in [Versions -> SUBSET Texts]
    /\ Certificate \in [Certs -> [effective : Nat, expiry : Nat, checked : Nat]]
    /\ MaxRecheckAge \in Nat \ {0} /\ StaleAge \in Nat \ {0}

\* What the operator says of the formulation's age; the parser believes it.
\* Stale and changed-unreviewed act as date-unknown; refresh-recommended is
\* left out: like fresh it opens no queue, like the others it bars a positive.
Freshness == {"fresh", "date-unknown"}

Queues == {"clear-prohibited-confirmation", "ambiguous-origin-process",
           "new-changed-formulation", "conflicting-formulation",
           "package-text-verification"}

Report == [ingredient : Nat, version : Versions, fresh : Freshness,
           flagged : BOOLEAN, prohibited : BOOLEAN, queues : SUBSET Queues]

-----------------------------------------------------------------------------
(* Analysis and review. *)

\* The selected observation, 0 without a selection.
Selected(e) == IF e.sel = None THEN 0 ELSE e.sel.ingredient

\* Mutant: require_queue is called with its arguments swapped.
ReasonQueues(e, i, v, fresh, flagged) ==
    {"package-text-verification"}
        \cup {q \in {"formulation-changed"} : e.obs[i].supersedes # 0}

\* The queues analyze_ingredient opens for a text of the source adapter,
\* which nobody has verified against a package.
OpenQueues(e, i, v, fresh, flagged) ==
    LET text == e.obs[i].text
    IN  {"package-text-verification"}
            \cup {q \in {"clear-prohibited-confirmation"} : text \in Prohibited[v]}
            \cup {q \in {"ambiguous-origin-process"} : text \in Ambiguous[v]}
            \cup {q \in {"new-changed-formulation"} :
                    e.obs[i].supersedes # 0 \/ fresh # "fresh"}
            \cup {q \in {"conflicting-formulation"} : flagged}

\* analyze_ingredient for the current selection.  Without ingredients the
\* report says so and opens no queue.
Analysis(e, v, fresh) ==
    LET i == Selected(e)
        flagged == e.sel # None /\ e.sel.flagged
    IN  [ingredient |-> i, version |-> v, fresh |-> fresh, flagged |-> flagged,
         prohibited |-> i # 0 /\ e.obs[i].text \in Prohibited[v],
         queues |-> IF i = 0 THEN {} ELSE OpenQueues(e, i, v, fresh, flagged)]

\* The review command analyses the current evidence again and refuses a
\* report that differs.
ReportIsCurrent(e, v, report) == report = Analysis(e, v, report.fresh)

\* registry_entry and certificate_eligibility at a time, for a certificate
\* whose scope and source are exact.
Eligible(c, accepted, at) ==
    /\ accepted
    /\ Certificate[c].effective <= at
    /\ at < Certificate[c].expiry
    /\ Certificate[c].checked <= at
    /\ at - Certificate[c].checked <= MaxRecheckAge

\* _certification_valid: what complete_review asks of an eligible certificate
\* again.  Here the day of expiry still counts.
CertificationValid(c, at) ==
    Certificate[c].effective <= at /\ at <= Certificate[c].expiry

\* complete_review_with_registry: the certificates a review may rest on.
EligibleCerts(e, accepted, at) ==
    IF e.sel = None THEN {}
    ELSE {c \in e.sel.certs : Eligible(c, accepted, at) /\ CertificationValid(c, at)}

\* validate_review_input: only queues the report opened can be resolved.
ReviewInputs(report) == SUBSET report.queues

\* Mutant: a resolved queue counts as resolving the prohibited match.
ResolvedDecisionAllowed(e, report, decision, resolved, eligible) ==
    /\ decision \in Positive =>
        /\ report.queues \subseteq resolved
        /\ report.fresh = "fresh"
        /\ ~report.flagged
    /\ decision = "not-halal" => report.prohibited
    /\ report.ingredient = 0 => decision \in {"unknown", "questionable"}
    /\ decision = "halal-certified" => eligible # {}

\* What complete_review and complete_review_with_registry demand of the
\* decision, given the report and the queues the reviewer resolved.
DecisionAllowed(e, report, decision, resolved, eligible) ==
    /\ decision \in Positive =>
        /\ ~report.prohibited
        /\ report.queues \subseteq resolved
        /\ report.fresh = "fresh"
        /\ ~report.flagged
    /\ decision = "not-halal" =>
        /\ report.prohibited
        /\ "clear-prohibited-confirmation" \in resolved
    /\ report.ingredient = 0 => decision \in {"unknown", "questionable"}
    /\ decision = "halal-certified" => eligible # {}

\* The assessment a completed review creates.
ReviewedAssessment(report, decision, eligible, at) ==
    [status |-> decision, ingredient |-> report.ingredient,
     version |-> report.version, at |-> at,
     certs |-> IF decision = "halal-certified" THEN eligible ELSE {}]

-----------------------------------------------------------------------------
(* Migration: which exposed assessments must be withdrawn. *)

\* assessment_migration_report merged with certification_status_report, for
\* an envelope that is valid: the formulation is that of the assessment.
MustMigrate(e, v, accepted, at) ==
    LET a == e.sel.assessment
    IN  \/ a.version # v
        \/ e.sel.flagged /\ a.status \in Positive
        \/ /\ a.status = "halal-certified"
           /\ \/ a.certs # e.sel.certs
              \/ \A c \in a.certs : ~Eligible(c, accepted, at)

-----------------------------------------------------------------------------
(* The release path. *)

Conflict(e) == Cardinality(ActiveTexts(e)) > 1 \/ e.sel.flagged

\* A certificate in the state "current" or "refresh-recommended" of
\* _cert_state: here the day of expiry still counts, in Eligible it does not.
CertificateCurrent(c, at) ==
    /\ Certificate[c].effective <= at
    /\ at <= Certificate[c].expiry
    /\ at < Certificate[c].checked + StaleAge

\* evaluate_quality reports no blocking finding for the selection.
QualityPasses(e, at) ==
    LET a == e.sel.assessment
    IN  e.sel # None /\ a # None /\ a.status \in Positive =>
            /\ e.sel.ingredient # 0 => ~Conflict(e)
            /\ Cardinality(ApprovedReviewers(e, a)) >= 2
            /\ a.status = "halal-certified" =>
                \A c \in e.sel.certs : CertificateCurrent(c, at)

\* validate_release_gate checks the same envelope again.
GateAdmits(e) ==
    LET a == e.sel.assessment
    IN  e.sel # None /\ a # None =>
            /\ ~Terminal(e, a)
            /\ ApprovedReviewers(e, a) # {}
            /\ a.status \in Positive =>
                /\ Cardinality(ApprovedReviewers(e, a)) >= 2
                /\ ~Conflict(e)

\* build_catalog refuses certificates without an assessment, and a certified
\* assessment without certificates.
BuildAdmits(e) ==
    e.sel # None =>
        /\ e.sel.assessment = None => e.sel.certs = {}
        /\ e.sel.assessment # None =>
            (e.sel.assessment.status = "halal-certified" => e.sel.certs # {})
=============================================================================
