--------------------------- MODULE EvidenceIntake ----------------------------
(***************************************************************************)
(* How a user's photographs of a package become admitted evidence:          *)
(* Tools/product_evidence_intake.py as product-evidence-intake.yml and a    *)
(* maintainer at his own machine run it, the registry of what was admitted  *)
(* and the daily queue of admitted submissions                              *)
(* (Tools/catalog_refresh_submission_targets.py).                           *)
(*                                                                          *)
(* An intake validates a screened package, re-encodes and reads its images, *)
(* applies a reviewer's file to the report and makes a patch that adds the  *)
(* proposal and an entry of the registry.  A workflow run does all of it    *)
(* from one checkout of main and of the staging ref; on a maintainer's      *)
(* machine the steps are commands, with anything between them.              *)
(*                                                                          *)
(* An image is its digest.  Whoever changes a package screens it again,     *)
(* under a new admission number, and a reviewer writes the time at which he *)
(* reviews.  Whole timestamps are reduced to the order of OCR and reviews.  *)
(***************************************************************************)
EXTENDS RefreshPlan

CONSTANTS
    None,
    Images,         \* digests of images
    Reencoded,      \* what the re-encoding of an image gives
    Packages,       \* what may be staged: the packages tried
    Reviewers,
    MaxAttachments, \* MAX_ATTACHMENT_COUNT
    MaxAdmissions,  \* bound: screenings
    MaxRuns,        \* bound: intakes that pass the validation
    MaxReviews      \* bound: review files

Purposes == {"barcode", "front", "ingredients", "certification", "nutrition"}
RequiredPurposes ==
    [issue \in {"missing-product", "ingredients-correction",
                "identity-correction", "status-certification-correction"} |->
        CASE issue = "missing-product" -> {"barcode", "front", "ingredients"}
          [] issue = "ingredients-correction" -> {"barcode", "ingredients"}
          [] OTHER -> {"barcode", "front"}]

(* clean: no personal data in a text field, every consent given, no date in *)
(* the future.  fits: the file is a JPEG of the declared size and digest.   *)
Attachment == [purpose : Purposes, image : Images, fits : BOOLEAN]

Package ==
    [submission : Nat \ {0}, gtin : Nat \ {0}, issue : DOMAIN RequiredPurposes,
     clean : BOOLEAN, attachments : SUBSET Attachment,
     screened : BOOLEAN, public : BOOLEAN]

ASSUME IntakeAssumption ==
    /\ Reencoded \in [Images -> Images]
    /\ Packages \subseteq Package
    /\ None \notin Reviewers
    /\ {MaxAttachments, MaxAdmissions, MaxRuns, MaxReviews} \subseteq Nat

VARIABLES
    now,            \* OCR runs and reviews so far
    staged,         \* submission -> the screened package, or None
    admissions,     \* number of screenings
    reviews,        \* review files, in the order they were written
    runs,           \* intakes, in the order they were validated
    registry,       \* the runs whose entry and proposal are on main
    queue           \* the last queue of admitted submissions published

vars == <<now, staged, admissions, reviews, runs, registry, queue>>

Submissions == {p.submission : p \in Packages}

Admission ==
    [package : Packages, id : 1..MaxAdmissions, by : Reviewers, at : Nat]

(* seen: the admitted images the reviewer had before him.                   *)
Review ==
    [submission : Submissions, admission : 1..MaxAdmissions, by : Reviewers,
     at : Nat, decision : {"propose-observation", "reject"},
     confirmed : BOOLEAN, seen : SUBSET Images]

Run ==
    [mode : {"workflow", "local"},
     phase : {"validated", "reported", "proposed", "rejected", "bundled", "refused"},
     admission : Admission, expected : Reviewers \cup {None},
     ocrAt : Nat, review : 0..MaxReviews, base : SUBSET (1..MaxRuns)]

IntakeTypeOK ==
    /\ now \in 0..(MaxRuns + MaxReviews)
    /\ staged \in [Submissions -> Admission \cup {None}]
    /\ admissions \in 0..MaxAdmissions
    /\ reviews \in Seq(Review) /\ Len(reviews) <= MaxReviews
    /\ runs \in Seq(Run) /\ Len(runs) <= MaxRuns
    /\ registry \subseteq {r \in DOMAIN runs : runs[r].phase = "bundled"}
    /\ \A r \in DOMAIN runs :
          runs[r].phase \in {"proposed", "bundled"} => runs[r].review \in DOMAIN reviews
    /\ queue \in SUBSET [reason : {"admitted-submission"}, gtin : Nat, about : {0}]

Init ==
    /\ now = 0
    /\ staged = [s \in Submissions |-> None]
    /\ admissions = 0
    /\ reviews = <<>>
    /\ runs = <<>>
    /\ registry = {}
    /\ queue = {}

-----------------------------------------------------------------------------
(* A package and its validation.                                            *)

Inputs(p) == {a.image : a \in p.attachments}
Sanitized(p) == {Reencoded[i] : i \in Inputs(p)}

(* Somebody screens a package and stages it, over the one before.           *)
Screen(p, reviewer) ==
    /\ admissions < MaxAdmissions
    /\ admissions' = admissions + 1
    /\ staged' = [staged EXCEPT ![p.submission] =
                    [package |-> p, id |-> admissions + 1, by |-> reviewer, at |-> now]]
    /\ UNCHANGED <<now, reviews, runs, registry, queue>>

(* validate_submission()                                                    *)
ValidSubmission(p) ==
    /\ p.clean
    /\ Cardinality(p.attachments) \in 1..MaxAttachments
    /\ RequiredPurposes[p.issue] \subseteq {a.purpose : a \in p.attachments}

(* validate_admission(): only a workflow demands that the package may be    *)
(* staged in public; expected is the actor, or whom the maintainer names.   *)
ValidAdmission(a, mode, expected) ==
    /\ a.package.screened
    /\ mode = "workflow" => a.package.public
    /\ expected # None => a.by = expected

(* validate_package_directory(): the files are those declared, and none is  *)
(* there twice.                                                             *)
ValidFiles(p) ==
    /\ \A a \in p.attachments : a.fits
    /\ \A a, b \in p.attachments : a.image = b.image => a = b

-----------------------------------------------------------------------------
(* The registry: an entry is that of the run that proposed it.              *)

PackageOf(r) == runs[r].admission.package
EntryHashes(r) == Inputs(PackageOf(r)) \cup Sanitized(PackageOf(r))

(* Mutant: only what was submitted is compared.                             *)
ValidRegistryOfInputs(entries) ==
    \A q, r \in entries :
        q # r => /\ PackageOf(q).submission # PackageOf(r).submission
                 /\ Inputs(PackageOf(q)) \cap Inputs(PackageOf(r)) = {}

(* validate_registry()                                                      *)
ValidRegistry(entries) ==
    \A q, r \in entries :
        q # r => /\ PackageOf(q).submission # PackageOf(r).submission
                 /\ EntryHashes(q) \cap EntryHashes(r) = {}

(* What validate_package_directory() asks of it: the package's images, as   *)
(* they were submitted, are in no entry's.                                  *)
NotAdmitted(p, entries) ==
    /\ ValidRegistry(entries)
    /\ \A q \in entries :
          /\ PackageOf(q).submission # p.submission
          /\ Inputs(PackageOf(q)) \cap Inputs(p) = {}

-----------------------------------------------------------------------------
(* An intake.                                                               *)

(* The review a workflow run is given is on the staging ref it checks out.  *)
(* On a maintainer's machine the registry is looked at if he names it.      *)
StartIntake(mode, s, expected, n) ==
    /\ Len(runs) < MaxRuns
    /\ staged[s] # None
    /\ mode = "workflow" =>
          /\ expected # None
          /\ n # 0 => reviews[n].submission = s
    /\ mode = "local" => n = 0
    /\ ValidSubmission(staged[s].package)
    /\ ValidAdmission(staged[s], mode, expected)
    /\ ValidFiles(staged[s].package)
    /\ mode = "workflow" => NotAdmitted(staged[s].package, registry)
    /\ runs' = Append(runs, [mode |-> mode, phase |-> "validated",
                             admission |-> staged[s], expected |-> expected,
                             ocrAt |-> 0, review |-> n, base |-> registry])
    /\ UNCHANGED <<now, staged, admissions, reviews, registry, queue>>

(* product_evidence_ocr.swift reads the files again: they must be those     *)
(* that were validated, and differ once re-encoded.  A workflow has its own *)
(* copy.                                                                    *)
RunOCR(r) ==
    LET a == runs[r].admission
        same == runs[r].mode = "local" =>
                    staged[a.package.submission].package.attachments
                      = a.package.attachments
        distinct == Cardinality(Sanitized(a.package)) = Cardinality(Inputs(a.package))
    IN  /\ runs[r].phase = "validated"
        /\ \/ /\ same /\ distinct
              /\ now' = now + 1
              /\ runs' = [runs EXCEPT ![r].phase = "reported", ![r].ocrAt = now']
           \/ /\ ~(same /\ distinct)
              /\ runs' = [runs EXCEPT ![r].phase = "refused"]
              /\ UNCHANGED now
        /\ UNCHANGED <<staged, admissions, reviews, registry, queue>>

(* A reviewer, with the reports there are on the present admission before   *)
(* him, writes a file.                                                      *)
Reported(r) == runs[r].ocrAt # 0

WriteReview(s, reviewer, decision, confirmed) ==
    /\ staged[s] # None
    /\ Len(reviews) < MaxReviews
    /\ now' = now + 1
    /\ reviews' = Append(reviews,
          [submission |-> s, admission |-> staged[s].id, by |-> reviewer,
           at |-> now', decision |-> decision, confirmed |-> confirmed,
           seen |-> UNION {Sanitized(PackageOf(r)) :
                        r \in {q \in DOMAIN runs : /\ Reported(q)
                                                   /\ runs[q].admission = staged[s]}}])
    /\ UNCHANGED <<staged, admissions, runs, registry, queue>>

(* Mutant: a review of an earlier screening will do.                        *)
ValidReviewOfSubmission(r, n) ==
    LET review == reviews[n]
        admission == runs[r].admission
    IN  /\ review.submission = admission.package.submission
        /\ admission.at <= review.at
        /\ runs[r].ocrAt <= review.at
        /\ runs[r].expected # None => review.by = runs[r].expected
        /\ review.decision = "propose-observation" => review.confirmed

(* Mutant: the time of the report is not compared.                          *)
ValidReviewAnyTime(r, n) ==
    LET review == reviews[n]
        admission == runs[r].admission
    IN  /\ review.submission = admission.package.submission
        /\ review.admission = admission.id
        /\ admission.at <= review.at
        /\ runs[r].expected # None => review.by = runs[r].expected
        /\ review.decision = "propose-observation" => review.confirmed

(* validate_human_review()                                                  *)
ValidReview(r, n) ==
    LET review == reviews[n]
        admission == runs[r].admission
    IN  /\ review.submission = admission.package.submission
        /\ review.admission = admission.id
        /\ admission.at <= review.at
        /\ runs[r].ocrAt <= review.at
        /\ runs[r].expected # None => review.by = runs[r].expected
        /\ review.decision = "propose-observation" => review.confirmed

(* Mutant: the proposal does not say which review it rests on.              *)
FinalizeUnrecorded(r, n) ==
    /\ runs[r].phase = "reported"
    /\ ValidReview(r, n)
    /\ runs' = [runs EXCEPT ![r].phase = IF reviews[n].decision = "reject"
                                         THEN "rejected" ELSE "proposed"]
    /\ UNCHANGED <<now, staged, admissions, reviews, registry, queue>>

(* finalize: a proposal or a rejection.  A workflow run that refuses is     *)
(* over; a command can be tried again with another file.                    *)
Finalize(r, n) ==
    /\ runs[r].phase = "reported"
    /\ runs[r].mode = "workflow" => n = runs[r].review
    /\ \/ /\ ValidReview(r, n)
          /\ runs' = [runs EXCEPT
                ![r].review = n,
                ![r].phase = IF reviews[n].decision = "reject" THEN "rejected"
                             ELSE "proposed"]
       \/ /\ ~ValidReview(r, n)
          /\ runs[r].mode = "workflow"
          /\ runs' = [runs EXCEPT ![r].phase = "refused"]
    /\ UNCHANGED <<now, staged, admissions, reviews, registry, queue>>

(* materialize_patch_bundle(): the registry of the checkout, or the one at  *)
(* hand, with the entry added, must be valid.                               *)
MakePatch(r) ==
    LET base == IF runs[r].mode = "workflow" THEN runs[r].base ELSE registry
    IN  /\ runs[r].phase = "proposed"
        /\ \/ /\ ValidRegistry(base) /\ ValidRegistry(base \cup {r})
              /\ runs' = [runs EXCEPT ![r].phase = "bundled", ![r].base = base]
           \/ /\ ~(ValidRegistry(base) /\ ValidRegistry(base \cup {r}))
              /\ runs' = [runs EXCEPT ![r].phase = "refused"]
        /\ UNCHANGED <<now, staged, admissions, reviews, registry, queue>>

(* The patch is merged in a pull request.  Git joins two entries added to   *)
(* one registry at different places, or somebody does.                      *)
MergePatch(r) ==
    /\ runs[r].phase = "bundled"
    /\ r \notin registry
    /\ registry' = registry \cup {r}
    /\ UNCHANGED <<now, staged, admissions, reviews, runs, queue>>

-----------------------------------------------------------------------------
(* The daily queue of admitted submissions.                                 *)

(* A file of Data/submissions/admitted, as build_proposal() made it, by the *)
(* records that name its product.                                           *)
AdmittedFile(r) == [records |-> {PackageOf(r).gtin}]

(* derive() reads the observations of every file's outputEvidence, and      *)
(* fails without one.                                                       *)
Derives == \A r \in registry : "outputEvidence" \in DOMAIN AdmittedFile(r)
Targets == UNION {AdmittedFile(r).outputEvidence : r \in registry}

(* The state of the source on main, which nothing has accepted yet.         *)
AcceptedState == [accepted |-> None, successAt |-> 0]

PublishQueue ==
    /\ Derives
    /\ LET merged == MergeQueue({}, Targets)
       IN  /\ OnlySubmissions(Plan("off", AcceptedState, merged, now), merged)
           /\ queue' = merged
    /\ UNCHANGED <<now, staged, admissions, reviews, runs, registry>>

-----------------------------------------------------------------------------
Next ==
    \/ \E p \in Packages, reviewer \in Reviewers : Screen(p, reviewer)
    \/ \E mode \in {"workflow", "local"}, s \in Submissions,
          expected \in Reviewers \cup {None}, n \in {0} \cup DOMAIN reviews :
            StartIntake(mode, s, expected, n)
    \/ \E s \in Submissions, reviewer \in Reviewers,
          decision \in {"propose-observation", "reject"}, confirmed \in BOOLEAN :
            WriteReview(s, reviewer, decision, confirmed)
    \/ \E r \in DOMAIN runs :
          \/ RunOCR(r) \/ MakePatch(r) \/ MergePatch(r)
          \/ \E n \in DOMAIN reviews : Finalize(r, n)
    \/ PublishQueue

(* The queue is scheduled every day.                                        *)
Spec == Init /\ [][Next]_vars /\ WF_vars(PublishQueue)
-----------------------------------------------------------------------------
(* What an intake promises.                                                 *)

(* Whatever main admits, a person confirmed it with exactly the admitted    *)
(* images before him.  The review names neither the run nor an image: that  *)
(* it was written after this run's report and about this admission must do, *)
(* whatever was staged, read or reviewed again in between, and whichever    *)
(* file was given to finalize.                                              *)
EvidenceWasSeen ==
    \A r \in registry :
        LET review == reviews[runs[r].review]
        IN  /\ review.decision = "propose-observation" /\ review.confirmed
            /\ review.seen = Sanitized(PackageOf(r))

(* No submission and no image, submitted or re-encoded, is in two entries,  *)
(* unless their patches were both made before either was merged: nothing    *)
(* looks at the registry again when a patch is merged.                      *)
AdmittedOnce ==
    \A q, r \in registry :
        /\ q # r
        /\ \/ PackageOf(q).submission = PackageOf(r).submission
           \/ EntryHashes(q) \cap EntryHashes(r) # {}
        => q \notin runs[r].base /\ r \notin runs[q].base

(* What HF-INTAKE-023 says: with a valid review record the run finalises.   *)
(* A record is valid whose reviewer screened the package and has confirmed  *)
(* everything with the images of this admission before him.                 *)
ReviewedIsFinalized ==
    \A r \in DOMAIN runs :
        /\ runs[r].mode = "workflow" /\ runs[r].review # 0
        /\ LET review == reviews[runs[r].review]
           IN  /\ review.admission = runs[r].admission.id
               /\ review.by = runs[r].admission.by
               /\ review.confirmed
               /\ review.seen = Sanitized(PackageOf(r))
        => runs[r].phase # "refused"

(* What docs/feature-specs/025 says: an admitted submission is queued for a *)
(* refresh of its source.                                                   *)
AdmittedIsQueued ==
    \A s \in Submissions :
        (\E r \in registry : PackageOf(r).submission = s)
            ~> (\E e \in queue, r \in registry :
                   PackageOf(r).submission = s /\ e.gtin = PackageOf(r).gtin)
==============================================================================
