------------------------- MODULE AssessmentLifecycle -------------------------
(***************************************************************************)
(* From what a source publishes about one product to the verdict the        *)
(* catalog shows.                                                           *)
(*                                                                          *)
(* A snapshot is normalised against the previous evidence.  The parser      *)
(* reports on the selected text, reviewers turn a report into an            *)
(* assessment and an approval, and people add those to the evidence,        *)
(* attach an assessment to the selection, reject one, select certificates,  *)
(* apply the migration report or restore what an event made invalid.        *)
(* Between any two of these steps the source may publish again, the         *)
(* registry or the methodology may change, and time passes.  A release      *)
(* evaluates the evidence as it is then.                                    *)
(*                                                                          *)
(* Edits by people are constrained by validate_envelope alone, with which   *)
(* every tool begins.  The dates of a review are the reviewer's input, and  *)
(* those of a validity event its writer's.                                  *)
(***************************************************************************)
EXTENDS Methodology

CONSTANTS
    Snapshots,      \* what the source may publish
    Decisions,      \* the decisions reviewers take
    MaxSnapshots,   \* bound: snapshots normalised
    MaxTime,        \* bound: the clock
    MaxReviews,     \* bound: reviews ever made
    MaxRestored     \* bound: assessments ever restored

ASSUME LifecycleAssumption ==
    /\ Snapshots \subseteq Snapshot
    /\ Decisions \subseteq Statuses
    /\ MaxSnapshots \in Nat /\ MaxTime \in Nat
    /\ MaxReviews \in Nat /\ MaxRestored \in Nat

VARIABLES
    evidence,       \* the envelope
    report,         \* the latest analysis report, or None
    results,        \* materialised reviews nobody has added yet
    version,        \* the methodology in force
    accepted,       \* whether the registry accepts the certifier
    clock,          \* the dates reviews, certificates and releases compare
    snapshots,      \* how many snapshots were normalised
    release,        \* what the product shows in the release the last step
                    \* made, None if it made none
    reviews,        \* how many reviews were made
    refused,        \* whether normalisation ever refused its own result
    seen,           \* history: the text the last observed record showed
    read,           \* history: who was shown which text when reviewing
    withdrawn,      \* history: assessments rejected or overtaken by a text
    onceInvalid     \* history: assessments an event made invalid

history == <<seen, read, withdrawn, onceInvalid>>
vars == <<evidence, report, results, version, accepted, clock, snapshots,
          release, reviews, refused, history>>

Result == [assessment : Assessment, reviewer : Reviewers]

Verdict == [text : Texts \cup {None}, assessment : Assessment \cup {None}]

Init ==
    /\ evidence = EmptyEnvelope
    /\ report = None
    /\ results = {}
    /\ version \in Versions
    /\ accepted \in BOOLEAN
    /\ clock = 0 /\ snapshots = 0
    /\ release = None
    /\ reviews = 0
    /\ refused = FALSE
    /\ seen = None /\ read = {} /\ withdrawn = {} /\ onceInvalid = {}

\* Assessments of e that can never be used again: rejected, or about a text
\* that was superseded.
Unusable(e) == {a \in e.assessments : \/ Terminal(e, a)
                                      \/ a.ingredient \in Superseded(e)}

\* The evidence becomes e.
Write(e) ==
    /\ evidence' = e
    /\ withdrawn' = withdrawn \cup Unusable(e)
    /\ onceInvalid' = onceInvalid \cup e.invalidated

-----------------------------------------------------------------------------
(* The tools. *)

\* The source adapter; it publishes the evidence it wrote only if valid.
Normalize(s) ==
    /\ snapshots < MaxSnapshots
    /\ snapshots' = snapshots + 1
    /\ LET e == Normalized(evidence, s)
       IN  IF Valid(e) THEN Write(e) /\ UNCHANGED refused
           ELSE refused' = TRUE /\ UNCHANGED <<evidence, withdrawn, onceInvalid>>
    /\ seen' = CASE s.kind = "record" -> s.text
                 [] s.kind = "unobserved" -> seen
                 [] OTHER -> None
    /\ release' = None
    /\ UNCHANGED <<report, results, version, accepted, clock, reviews, read>>

\* Reports nobody can review any more are not made.
Analyze(fresh) ==
    /\ reviews < MaxReviews
    /\ report' = Analysis(evidence, version, fresh)
    /\ release' = None
    /\ UNCHANGED <<evidence, results, version, accepted, clock, snapshots,
                   reviews, refused, history>>

\* The decisions a reviewer may take, given what can be resolved.
PossibleDecisions(eligible) ==
    {decision \in Decisions : \E resolved \in ReviewInputs(report) :
        DecisionAllowed(evidence, report, decision, resolved, eligible)}

\* The review command of a reviewer, who may date it back.  Since the report
\* is the one the tool makes now, the next reviewer may as well make it anew.
ReviewReport(reviewer, decision, at) ==
    LET eligible == EligibleCerts(evidence, accepted, at)
    IN  /\ reviews < MaxReviews
        /\ report # None
        /\ report.version = version
        /\ ReportIsCurrent(evidence, version, report)
        /\ decision \in PossibleDecisions(eligible)
        /\ results' = results \cup
             {[assessment |-> ReviewedAssessment(report, decision, eligible, at),
               reviewer |-> reviewer]}
        /\ reviews' = reviews + 1
        /\ report' = None
        /\ release' = None
        /\ read' = IF Selected(evidence) = 0 THEN read
                   ELSE read \cup
                        {<<reviewer, evidence.obs[Selected(evidence)].text>>}
        /\ UNCHANGED <<evidence, version, accepted, clock, snapshots, refused,
                       seen, withdrawn, onceInvalid>>

\* A catalog release: quality decision, gate and compiler, one after the
\* other on the same evidence.
Publish ==
    /\ Valid(evidence)
    /\ QualityPasses(evidence, clock)
    /\ GateAdmits(evidence)
    /\ BuildAdmits(evidence)
    /\ release' =
         [text |-> IF Selected(evidence) = 0 THEN None
                   ELSE evidence.obs[Selected(evidence)].text,
          assessment |-> IF evidence.sel = None THEN None
                         ELSE evidence.sel.assessment]
    /\ UNCHANGED <<evidence, report, results, version, accepted, clock, snapshots,
                   reviews, refused, history>>

-----------------------------------------------------------------------------
(* The people. *)

Edit(e) ==
    /\ Valid(e)
    /\ Write(e)
    /\ release' = None
    /\ UNCHANGED <<report, version, accepted, clock, snapshots, reviews,
                   refused, seen, read>>

AddResult(r) ==
    /\ r \in results
    /\ results' = results \ {r}
    /\ Edit([evidence EXCEPT
               !.assessments = @ \cup {r.assessment},
               !.reviews = @ \cup {[target |-> r.assessment,
                                    state |-> "approved",
                                    reviewer |-> r.reviewer]}])

Attach(a) ==
    /\ evidence.sel # None
    /\ a \in evidence.assessments
    /\ Edit([evidence EXCEPT !.sel.assessment = a])
    /\ UNCHANGED results

\* A rejected assessment cannot stay attached.  To reject what a text has
\* overtaken would change nothing.
Reject(a) ==
    /\ a \in evidence.assessments
    /\ a \notin Unusable(evidence)
    /\ Edit([evidence EXCEPT
               !.reviews = @ \cup {[target |-> a, state |-> "rejected",
                                    reviewer |-> None]},
               !.sel = IF @ # None /\ @.assessment = a
                         THEN [@ EXCEPT !.assessment = None] ELSE @])
    /\ UNCHANGED results

SelectCertificates(certs) ==
    /\ evidence.sel # None
    /\ evidence.sel.certs # certs
    /\ Edit([evidence EXCEPT !.sel.certs = certs])
    /\ UNCHANGED results

\* The validity events of the migration report are added to the evidence,
\* which has to let go of the assessment.  Whoever applies it dates them.
ApplyMigration ==
    /\ evidence.sel # None
    /\ evidence.sel.assessment # None
    /\ MustMigrate(evidence, version, accepted, clock)
    /\ \E invalidated \in AfterInvalidation(evidence, evidence.sel.assessment) :
          Edit([evidence EXCEPT !.invalidated = invalidated,
                                !.sel.assessment = None])
    /\ UNCHANGED results

\* Somebody adds a validity event that restores an assessment.  One added to
\* an assessment that never was invalid leaves the envelope that one after an
\* invalidation may leave.
Restore(a) ==
    /\ a \in evidence.invalidated
    /\ Cardinality(evidence.restored \cup {a}) <= MaxRestored
    /\ \E invalidated \in AfterRestoration(evidence, a) :
          Edit([evidence EXCEPT !.invalidated = invalidated,
                                !.restored = @ \cup {a}])
    /\ UNCHANGED results

ChangeRegistry ==
    /\ accepted' = ~accepted
    /\ release' = None
    /\ UNCHANGED <<evidence, report, results, version, clock, snapshots,
                   reviews, refused, history>>

ChangeMethodology(v) ==
    /\ v \in Versions /\ v > version
    /\ version' = v
    /\ release' = None
    /\ UNCHANGED <<evidence, report, results, accepted, clock, snapshots,
                   reviews, refused, history>>

PassTime ==
    /\ clock < MaxTime
    /\ clock' = clock + 1
    /\ release' = None
    /\ UNCHANGED <<evidence, report, results, version, accepted, snapshots,
                   reviews, refused, history>>

Next ==
    \/ \E s \in Snapshots : Normalize(s)
    \/ \E fresh \in Freshness : Analyze(fresh)
    \/ \E reviewer \in Reviewers, decision \in Decisions, at \in 0..clock :
            ReviewReport(reviewer, decision, at)
    \/ Publish
    \/ \E r \in results : AddResult(r)
    \/ \E a \in evidence.assessments :
        \/ Attach(a)
        \/ Reject(a)
        \/ Restore(a)
    \/ \E certs \in SUBSET Certs : SelectCertificates(certs)
    \/ ApplyMigration
    \/ ChangeRegistry
    \/ \E v \in Versions : ChangeMethodology(v)
    \/ PassTime

Spec == Init /\ [][Next]_vars

-----------------------------------------------------------------------------
(* Properties. *)

\* Every variable has its type; a text supersedes an earlier one.
LifecycleTypeOK ==
    /\ evidence \in Envelope
    /\ \A i \in DOMAIN evidence.obs : evidence.obs[i].supersedes < i
    /\ report \in Report \cup {None}
    /\ results \subseteq Result
    /\ version \in Versions /\ accepted \in BOOLEAN
    /\ clock \in 0..MaxTime /\ snapshots \in 0..MaxSnapshots
    /\ reviews \in 0..MaxReviews
    /\ release \in Verdict \cup {None}
    /\ refused \in BOOLEAN

\* normalize_snapshot ends with validate_envelope.  Whatever people did to
\* valid evidence in the meantime, it never refuses what it just wrote, which
\* would keep every later snapshot out as well.
NormalizeIsNotRefused == ~refused

\* Observations form chains: no text is superseded by two others, so a
\* product's active texts grow only where a chain was interrupted.
SupersessionDoesNotFork ==
    \A i, j \in DOMAIN evidence.obs :
        evidence.obs[i].supersedes = evidence.obs[j].supersedes /\ i # j
            => evidence.obs[i].supersedes = 0

ReleasesPositive ==
    /\ release # None
    /\ release.assessment # None
    /\ release.assessment.status \in Positive

\* A release shows a positive verdict only next to the text the product's
\* record last showed, with no other text still active.
PositiveIsAboutTheSeenText ==
    ReleasesPositive => release.text = seen /\ ActiveTexts(evidence) = {seen}

\* A released positive verdict rests on two people who were both shown this
\* text, wherever reports, results and the evidence went in between
\* (HF-REVIEW-003).
PositiveWasReadTwice ==
    ReleasesPositive =>
        Cardinality({r \in Reviewers : <<r, release.text>> \in read}) >= 2

\* No released positive verdict is about a text in which the methodology it
\* names finds a prohibited ingredient.
PositiveIsNotProhibited ==
    ReleasesPositive =>
        release.text \notin Prohibited[release.assessment.version]

\* An assessment that was ever rejected or overtaken by another text is in no
\* later release, and one that was ever invalidated only if somebody has
\* restored it (HF-EVIDENCE-017, HF-EVIDENCE-018).
WithdrawnStaysWithdrawn ==
    release # None =>
        /\ release.assessment \notin withdrawn
        /\ release.assessment \in onceInvalid =>
              release.assessment \in evidence.restored
=============================================================================
