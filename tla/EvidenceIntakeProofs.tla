----------------------- MODULE EvidenceIntakeProofs -----------------------
(***************************************************************************)
(* Proofs about the intake of users' evidence: what main admits was seen    *)
(* and confirmed by a person, and it is admitted once.                      *)
(***************************************************************************)
EXTENDS EvidenceIntake, TLAPS, FiniteSetTheorems, SequenceTheorems

-----------------------------------------------------------------------------
(* The inductive invariant.                                                 *)

\* The intakes whose images were read.
ReportedRuns == {r \in DOMAIN runs : runs[r].ocrAt # 0}

\* An admission number names one admission, wherever it was copied.
AdmissionsAreNamed ==
    /\ \A s \in Submissions : staged[s] # None =>
          /\ staged[s].id <= admissions
          /\ \A t \in Submissions : staged[t] # None /\ staged[t].id = staged[s].id => s = t
          /\ \A r \in DOMAIN runs : runs[r].admission.id = staged[s].id
                                      => runs[r].admission = staged[s]
    /\ \A q, r \in DOMAIN runs : runs[q].admission.id = runs[r].admission.id
                                   => runs[q].admission = runs[r].admission
    /\ \A r \in DOMAIN runs : runs[r].admission.id <= admissions

\* A review saw all that any earlier report on its admission showed.
ReviewsSaw ==
    \A n \in DOMAIN reviews :
        /\ reviews[n].at <= now
        /\ \A r \in DOMAIN runs :
              /\ reviews[n].admission = runs[r].admission.id
              /\ runs[r].ocrAt # 0
              /\ runs[r].ocrAt <= reviews[n].at
              => reviews[n].seen = Sanitized(PackageOf(r))

\* A proposal rests on a review after its report.
ProposalsRest ==
    \A r \in DOMAIN runs :
        /\ runs[r].phase = "validated" <=> runs[r].ocrAt = 0 /\ runs[r].phase # "refused"
        /\ runs[r].phase \in {"proposed", "bundled"} =>
              /\ runs[r].review \in DOMAIN reviews
              /\ runs[r].ocrAt # 0
              /\ reviews[runs[r].review].decision = "propose-observation"
              /\ reviews[runs[r].review].confirmed
              /\ reviews[runs[r].review].admission = runs[r].admission.id
              /\ runs[r].ocrAt <= reviews[runs[r].review].at

\* A patch was made where nothing admitted conflicts with it.
PatchesFit ==
    \A r \in DOMAIN runs :
        /\ runs[r].base \subseteq DOMAIN runs
        /\ runs[r].phase = "bundled" =>
              \A q \in runs[r].base : q # r =>
                 /\ PackageOf(q).submission # PackageOf(r).submission
                 /\ EntryHashes(q) \cap EntryHashes(r) = {}

IInv ==
    /\ IntakeTypeOK
    /\ now = Cardinality(ReportedRuns) + Len(reviews)
    /\ AdmissionsAreNamed
    /\ ReviewsSaw
    /\ ProposalsRest
    /\ PatchesFit

-----------------------------------------------------------------------------
(* Sequences, packages and the queue.                                       *)

LEMMA RunsAreTyped ==
    ASSUME IntakeTypeOK
    PROVE  /\ DOMAIN runs = 1..Len(runs) /\ Len(runs) \in Nat /\ Len(runs) <= MaxRuns
           /\ DOMAIN reviews = 1..Len(reviews) /\ Len(reviews) \in Nat
           /\ Len(reviews) <= MaxReviews
           /\ \A r \in DOMAIN runs : runs[r] \in Run /\ r \in 1..MaxRuns
           /\ \A n \in DOMAIN reviews : reviews[n] \in Review /\ n \in 1..MaxReviews
           /\ now \in Nat /\ admissions \in Nat
<1>1. runs \in Seq(Run) /\ reviews \in Seq(Review)
  BY DEF IntakeTypeOK
<1>2. /\ DOMAIN runs = 1..Len(runs) /\ Len(runs) \in Nat
      /\ DOMAIN reviews = 1..Len(reviews) /\ Len(reviews) \in Nat
  BY <1>1, LenProperties
<1>3. \A r \in DOMAIN runs : runs[r] \in Run
  BY <1>1, <1>2, ElementOfSeq
<1>4. \A n \in DOMAIN reviews : reviews[n] \in Review
  BY <1>1, <1>2, ElementOfSeq
<1>5. /\ Len(runs) <= MaxRuns /\ Len(reviews) <= MaxReviews
      /\ MaxRuns \in Nat /\ MaxReviews \in Nat /\ MaxAdmissions \in Nat
      /\ now \in 0..(MaxRuns + MaxReviews) /\ admissions \in 0..MaxAdmissions
  BY IntakeAssumption DEF IntakeTypeOK
<1>. QED
  BY <1>2, <1>3, <1>4, <1>5

LEMMA SanitizedAreImages ==
    ASSUME NEW p \in Packages
    PROVE  Sanitized(p) \subseteq Images
<1>1. Reencoded \in [Images -> Images] /\ p \in Package
  BY IntakeAssumption
<1>2. \A a \in p.attachments : a.image \in Images
  BY <1>1 DEF Package, Attachment
<1>. QED
  BY <1>1, <1>2 DEF Sanitized, Inputs

LEMMA AppendedSequence ==
    ASSUME NEW S, NEW s \in Seq(S), NEW e \in S
    PROVE  /\ Append(s, e) \in Seq(S)
           /\ Len(Append(s, e)) = Len(s) + 1 /\ Len(s) \in Nat
           /\ DOMAIN Append(s, e) = DOMAIN s \cup {Len(s) + 1}
           /\ Len(s) + 1 \notin DOMAIN s
           /\ Append(s, e)[Len(s) + 1] = e
           /\ \A n \in DOMAIN s : Append(s, e)[n] = s[n]
<1>1. /\ Len(s) \in Nat /\ DOMAIN s = 1..Len(s)
  BY LenProperties
<1>2. /\ Append(s, e) \in Seq(S)
      /\ Len(Append(s, e)) = Len(s) + 1
      /\ \A i \in 1..Len(s) : Append(s, e)[i] = s[i]
      /\ Append(s, e)[Len(s) + 1] = e
  BY AppendProperties
<1>3. DOMAIN Append(s, e) = 1..(Len(s) + 1)
  BY <1>2, LenProperties
<1>. QED
  BY <1>1, <1>2, <1>3

\* The queue of submissions is empty, since the records of the admitted files
\* are not where it looks.
LEMMA QueueStaysEmpty ==
    ASSUME PublishQueue
    PROVE  queue' = {}
<1>1. "outputEvidence" \notin {"records"}
  OBVIOUS
<1>2. \A r \in registry : DOMAIN AdmittedFile(r) = {"records"}
  BY DEF AdmittedFile
<1>3. registry = {}
  BY <1>1, <1>2 DEF PublishQueue, Derives
<1>4. Targets = {}
  BY <1>3 DEF Targets
<1>. QED
  BY <1>4 DEF PublishQueue, MergeQueue, Cut

-----------------------------------------------------------------------------
(* Steps that change one run.                                               *)

\* The run r becomes x, and nothing else does.
Becomes(r, x) ==
    /\ runs' \in Seq(Run) /\ Len(runs') = Len(runs) /\ DOMAIN runs' = DOMAIN runs
    /\ runs'[r] = x
    /\ \A q \in DOMAIN runs : q # r => runs'[q] = runs[q]

LEMMA OneRunBecomes ==
    ASSUME IntakeTypeOK, NEW r \in DOMAIN runs, NEW x \in Run,
           runs' = [runs EXCEPT ![r] = x]
    PROVE  Becomes(r, x)
<1>1. runs \in Seq(Run) /\ r \in 1..Len(runs) /\ DOMAIN runs = 1..Len(runs)
  BY RunsAreTyped DEF IntakeTypeOK
<1>2. /\ runs' \in Seq(Run) /\ Len(runs') = Len(runs)
      /\ \A j \in 1..Len(runs) : runs'[j] = IF j = r THEN x ELSE runs[j]
  BY <1>1, ExceptSeq
<1>3. DOMAIN runs' = 1..Len(runs')
  BY <1>2, LenProperties
<1>. QED
  BY <1>1, <1>2, <1>3 DEF Becomes

\* A step after which the same intakes have read the same images.
SameReports ==
    /\ runs' \in Seq(Run) /\ Len(runs') = Len(runs) /\ DOMAIN runs' = DOMAIN runs
    /\ \A q \in DOMAIN runs : /\ runs'[q].admission = runs[q].admission
                              /\ runs'[q].ocrAt = runs[q].ocrAt
    /\ UNCHANGED <<now, staged, admissions, reviews, queue>>

LEMMA SameReportsSawTheSame ==
    ASSUME IInv, SameReports
    PROVE  /\ now' = Cardinality(ReportedRuns') + Len(reviews')
           /\ AdmissionsAreNamed'
           /\ ReviewsSaw'
<1>1. ReportedRuns' = ReportedRuns
  BY DEF ReportedRuns, SameReports
<1>2. AdmissionsAreNamed'
  BY DEF IInv, AdmissionsAreNamed, SameReports
<1>3. \A q \in DOMAIN runs : PackageOf(q)' = PackageOf(q)
  BY DEF SameReports, PackageOf
<1>4. ReviewsSaw'
  BY <1>3 DEF IInv, ReviewsSaw, SameReports
<1>. QED
  BY <1>1, <1>2, <1>4 DEF IInv, SameReports

\* Three steps go from one phase to another: a refusal, the closing of an
\* intake by a review, and the making of a patch.
LEMMA RefusalKeepsInv ==
    ASSUME IInv, NEW r \in DOMAIN runs,
           runs[r].phase # "bundled",
           runs' = [runs EXCEPT ![r].phase = "refused"],
           UNCHANGED <<now, staged, admissions, reviews, registry, queue>>
    PROVE  IInv'
<1>. DEFINE x == [runs[r] EXCEPT !.phase = "refused"]
<1>1. runs[r] \in Run /\ IntakeTypeOK
  BY RunsAreTyped DEF IInv
<1>2. x \in Run /\ x.phase = "refused"
      /\ x.admission = runs[r].admission /\ x.ocrAt = runs[r].ocrAt /\ x.base = runs[r].base
  BY <1>1 DEF Run
<1>. HIDE DEF x
<1>3. runs' = [runs EXCEPT ![r] = x]
  BY DEF x
<1>4. Becomes(r, x)
  BY <1>1, <1>2, <1>3, OneRunBecomes
<1>5. SameReports
  BY <1>2, <1>4 DEF Becomes, SameReports
<1>6. IntakeTypeOK'
  <2>1. registry' \subseteq {q \in DOMAIN runs' : runs'[q].phase = "bundled"}
    BY <1>1, <1>4 DEF Becomes, IntakeTypeOK
  <2>2. \A q \in DOMAIN runs' :
           runs'[q].phase \in {"proposed", "bundled"} => runs'[q].review \in DOMAIN reviews'
    BY <1>1, <1>2, <1>4 DEF Becomes, IntakeTypeOK
  <2>. QED
    BY <1>1, <1>4, <2>1, <2>2 DEF Becomes, IntakeTypeOK
<1>7. ProposalsRest'
  BY <1>2, <1>4 DEF IInv, ProposalsRest, Becomes
<1>8. PatchesFit'
  <2>1. \A q \in DOMAIN runs : PackageOf(q)' = PackageOf(q) /\ EntryHashes(q)' = EntryHashes(q)
    BY <1>5 DEF SameReports, PackageOf, EntryHashes
  <2>. QED
    BY <1>2, <1>4, <2>1 DEF IInv, PatchesFit, Becomes
<1>. QED
  BY <1>5, <1>6, <1>7, <1>8, SameReportsSawTheSame DEF IInv

LEMMA FinalizeKeepsInv ==
    ASSUME IInv, NEW r \in DOMAIN runs, NEW n \in DOMAIN reviews, Finalize(r, n)
    PROVE  IInv'
<1>1. runs[r] \in Run /\ IntakeTypeOK /\ runs[r].phase = "reported"
  BY RunsAreTyped DEF IInv, Finalize
<1>2. UNCHANGED <<now, staged, admissions, reviews, registry, queue>>
  BY DEF Finalize
<1>3. CASE runs' = [runs EXCEPT ![r].phase = "refused"]
  BY <1>1, <1>2, <1>3, RefusalKeepsInv
<1>4. CASE /\ ValidReview(r, n)
           /\ runs' = [runs EXCEPT
                ![r].review = n,
                ![r].phase = IF reviews[n].decision = "reject" THEN "rejected"
                             ELSE "proposed"]
  <2>. DEFINE p == IF reviews[n].decision = "reject" THEN "rejected" ELSE "proposed"
              x == [runs[r] EXCEPT !.review = n, !.phase = p]
  <2>1. reviews[n] \in Review /\ n \in 0..MaxReviews
    BY <1>1, RunsAreTyped DEF IInv
  <2>2. p \in {"rejected", "proposed"}
        /\ (p = "proposed" => reviews[n].decision = "propose-observation")
    BY <2>1 DEF Review
  <2>. HIDE DEF p
  <2>3. x \in Run /\ x.phase = p /\ x.review = n
        /\ x.admission = runs[r].admission /\ x.ocrAt = runs[r].ocrAt /\ x.base = runs[r].base
    BY <1>1, <2>1, <2>2 DEF Run
  <2>4. runs' = [runs EXCEPT ![r] = x]
    BY <1>4 DEF p
  <2>. HIDE DEF x
  <2>5. Becomes(r, x)
    BY <1>1, <2>3, <2>4, OneRunBecomes
  <2>6. SameReports
    BY <1>2, <2>3, <2>5 DEF Becomes, SameReports
  <2>7. IntakeTypeOK'
    <3>1. registry' \subseteq {q \in DOMAIN runs' : runs'[q].phase = "bundled"}
      BY <1>1, <1>2, <2>5 DEF Becomes, IntakeTypeOK
    <3>2. \A q \in DOMAIN runs' :
             runs'[q].phase \in {"proposed", "bundled"} => runs'[q].review \in DOMAIN reviews'
      BY <1>1, <1>2, <2>3, <2>5 DEF Becomes, IntakeTypeOK
    <3>. QED
      BY <1>1, <1>2, <2>5, <3>1, <3>2 DEF Becomes, IntakeTypeOK
  <2>8. ProposalsRest'
    <3>1. runs[r].ocrAt # 0
      BY <1>1 DEF IInv, ProposalsRest
    <3>2. /\ reviews[n].admission = runs[r].admission.id
          /\ runs[r].ocrAt <= reviews[n].at
          /\ reviews[n].decision = "propose-observation" => reviews[n].confirmed
      BY <1>4 DEF ValidReview
    <3>. QED
      BY <1>2, <2>2, <2>3, <2>5, <3>1, <3>2 DEF IInv, ProposalsRest, Becomes
  <2>9. PatchesFit'
    <3>1. \A q \in DOMAIN runs : PackageOf(q)' = PackageOf(q) /\ EntryHashes(q)' = EntryHashes(q)
      BY <2>6 DEF SameReports, PackageOf, EntryHashes
    <3>. QED
      BY <2>2, <2>3, <2>5, <3>1 DEF IInv, PatchesFit, Becomes
  <2>. QED
    BY <2>6, <2>7, <2>8, <2>9, SameReportsSawTheSame DEF IInv
<1>. QED
  BY <1>3, <1>4 DEF Finalize

LEMMA MakePatchKeepsInv ==
    ASSUME IInv, NEW r \in DOMAIN runs, MakePatch(r)
    PROVE  IInv'
<1>. DEFINE base == IF runs[r].mode = "workflow" THEN runs[r].base ELSE registry
<1>1. runs[r] \in Run /\ IntakeTypeOK /\ runs[r].phase = "proposed"
  BY RunsAreTyped DEF IInv, MakePatch
<1>2. UNCHANGED <<now, staged, admissions, reviews, registry, queue>>
  BY DEF MakePatch
<1>3. CASE runs' = [runs EXCEPT ![r].phase = "refused"]
  BY <1>1, <1>2, <1>3, RefusalKeepsInv
<1>4. CASE /\ ValidRegistry(base \cup {r})
           /\ runs' = [runs EXCEPT ![r].phase = "bundled", ![r].base = base]
  <2>. DEFINE x == [runs[r] EXCEPT !.phase = "bundled", !.base = base]
  <2>1. base \subseteq DOMAIN runs
    BY <1>1 DEF IInv, PatchesFit, IntakeTypeOK
  <2>2. base \subseteq 1..MaxRuns
    BY <1>1, <2>1, RunsAreTyped
  <2>. HIDE DEF base
  <2>3. x \in Run /\ x.phase = "bundled" /\ x.review = runs[r].review
        /\ x.admission = runs[r].admission /\ x.ocrAt = runs[r].ocrAt /\ x.base = base
    BY <1>1, <2>2 DEF Run
  <2>4. runs' = [runs EXCEPT ![r] = x]
    BY <1>4
  <2>. HIDE DEF x
  <2>5. Becomes(r, x)
    BY <1>1, <2>3, <2>4, OneRunBecomes
  <2>6. SameReports
    BY <1>2, <2>3, <2>5 DEF Becomes, SameReports
  <2>7. IntakeTypeOK'
    <3>1. registry' \subseteq {q \in DOMAIN runs' : runs'[q].phase = "bundled"}
      BY <1>1, <1>2, <2>3, <2>5 DEF Becomes, IntakeTypeOK
    <3>2. \A q \in DOMAIN runs' :
             runs'[q].phase \in {"proposed", "bundled"} => runs'[q].review \in DOMAIN reviews'
      BY <1>1, <1>2, <2>3, <2>5 DEF Becomes, IntakeTypeOK
    <3>. QED
      BY <1>1, <1>2, <2>5, <3>1, <3>2 DEF Becomes, IntakeTypeOK
  <2>8. ProposalsRest'
    BY <1>1, <1>2, <2>3, <2>5 DEF IInv, ProposalsRest, Becomes
  <2>9. PatchesFit'
    <3>1. \A q \in DOMAIN runs : PackageOf(q)' = PackageOf(q) /\ EntryHashes(q)' = EntryHashes(q)
      BY <2>6 DEF SameReports, PackageOf, EntryHashes
    <3>2. \A q \in base : q # r => /\ PackageOf(q).submission # PackageOf(r).submission
                                   /\ EntryHashes(q) \cap EntryHashes(r) = {}
      BY <1>4 DEF ValidRegistry
    <3>3. \A q \in DOMAIN runs :
             /\ runs'[q].base \subseteq DOMAIN runs
             /\ runs'[q].phase = "bundled" =>
                   \A o \in runs'[q].base : o # q =>
                      /\ PackageOf(o).submission # PackageOf(q).submission
                      /\ EntryHashes(o) \cap EntryHashes(q) = {}
      BY <2>1, <2>3, <2>5, <3>2 DEF IInv, PatchesFit, Becomes
    <3>4. DOMAIN runs' = DOMAIN runs
      BY <2>5 DEF Becomes
    <3>. QED
      BY <3>1, <3>3, <3>4 DEF PatchesFit
  <2>. QED
    BY <2>6, <2>7, <2>8, <2>9, SameReportsSawTheSame DEF IInv
<1>. QED
  BY <1>3, <1>4 DEF MakePatch

-----------------------------------------------------------------------------
(* The other steps.                                                         *)

LEMMA IntervalCount ==
    ASSUME NEW n \in Nat
    PROVE  IsFiniteSet(1..n) /\ Cardinality(1..n) = n
BY FS_Interval

LEMMA CountsFit ==
    ASSUME IntakeTypeOK
    PROVE  /\ IsFiniteSet(ReportedRuns)
           /\ Cardinality(ReportedRuns) \in Nat /\ Cardinality(ReportedRuns) <= Len(runs)
<1>1. ReportedRuns \in SUBSET (1..Len(runs)) /\ Len(runs) \in Nat
  BY RunsAreTyped DEF ReportedRuns
<1>2. IsFiniteSet(1..Len(runs)) /\ Cardinality(1..Len(runs)) = Len(runs)
  BY <1>1, IntervalCount
<1>. QED
  BY <1>1, <1>2, FS_Subset, FS_CardinalityType

LEMMA RunOCRKeepsInv ==
    ASSUME IInv, NEW r \in DOMAIN runs, RunOCR(r)
    PROVE  IInv'
<1>1. runs[r] \in Run /\ IntakeTypeOK /\ runs[r].phase = "validated" /\ runs[r].ocrAt = 0
  BY RunsAreTyped DEF IInv, RunOCR, ProposalsRest
<1>2. UNCHANGED <<staged, admissions, reviews, registry, queue>>
  BY DEF RunOCR
<1>3. CASE /\ runs' = [runs EXCEPT ![r].phase = "refused"]
           /\ UNCHANGED now
  BY <1>1, <1>2, <1>3, RefusalKeepsInv
<1>4. CASE /\ now' = now + 1
           /\ runs' = [runs EXCEPT ![r].phase = "reported", ![r].ocrAt = now']
  <2>. DEFINE x == [runs[r] EXCEPT !.phase = "reported", !.ocrAt = now + 1]
  <2>1. now \in Nat
    BY <1>1, RunsAreTyped
  <2>2. x \in Run /\ x.phase = "reported" /\ x.ocrAt = now + 1
        /\ x.admission = runs[r].admission /\ x.review = runs[r].review /\ x.base = runs[r].base
    <3>1. now + 1 \in Nat
      BY <2>1
    <3>2. ASSUME NEW t \in Nat
          PROVE  LET y == [runs[r] EXCEPT !.phase = "reported", !.ocrAt = t]
                 IN  /\ y \in Run /\ y.phase = "reported" /\ y.ocrAt = t
                     /\ y.admission = runs[r].admission
                     /\ y.review = runs[r].review /\ y.base = runs[r].base
      BY <1>1 DEF Run
    <3>. QED
      BY <3>1, <3>2
  <2>3. runs' = [runs EXCEPT ![r] = x]
    BY <1>4
  <2>. HIDE DEF x
  <2>4. Becomes(r, x)
    BY <1>1, <2>2, <2>3, OneRunBecomes
  <2>5. \A q \in DOMAIN runs : runs'[q].admission = runs[q].admission
    BY <2>2, <2>4 DEF Becomes
  <2>6. \A q \in DOMAIN runs : PackageOf(q)' = PackageOf(q) /\ EntryHashes(q)' = EntryHashes(q)
    BY <2>5 DEF PackageOf, EntryHashes
  <2>7. now' = Cardinality(ReportedRuns') + Len(reviews')
    <3>1. ReportedRuns' = ReportedRuns \cup {r} /\ r \notin ReportedRuns
      BY <1>1, <2>1, <2>2, <2>4 DEF ReportedRuns, Becomes
    <3>2. Cardinality(ReportedRuns') = Cardinality(ReportedRuns) + 1
      BY <1>1, <3>1, CountsFit, FS_AddElement
    <3>. QED
      BY <1>1, <1>2, <1>4, <3>2, CountsFit, RunsAreTyped DEF IInv
  <2>8. IntakeTypeOK'
    <3>1. registry' \subseteq {q \in DOMAIN runs' : runs'[q].phase = "bundled"}
      BY <1>1, <1>2, <2>4 DEF Becomes, IntakeTypeOK
    <3>2. \A q \in DOMAIN runs' :
             runs'[q].phase \in {"proposed", "bundled"} => runs'[q].review \in DOMAIN reviews'
      BY <1>1, <1>2, <2>2, <2>4 DEF Becomes, IntakeTypeOK
    <3>3. now' \in 0..(MaxRuns + MaxReviews)
      <4>1. ReportedRuns' \in SUBSET (1..Len(runs))
        BY <1>1, <2>4, RunsAreTyped DEF ReportedRuns, Becomes
      <4>2. /\ Len(runs) \in Nat /\ Len(runs) <= MaxRuns
            /\ Len(reviews) \in Nat /\ Len(reviews) <= MaxReviews
        BY <1>1, RunsAreTyped
      <4>3. IsFiniteSet(1..Len(runs)) /\ Cardinality(1..Len(runs)) = Len(runs)
        BY <4>2, IntervalCount
      <4>4. /\ Cardinality(ReportedRuns') <= Len(runs)
            /\ Cardinality(ReportedRuns') \in Nat
        BY <4>1, <4>3, FS_Subset, FS_CardinalityType
      <4>. QED
        BY <1>2, <2>7, <4>2, <4>4, IntakeAssumption
    <3>. QED
      BY <1>1, <1>2, <2>4, <3>1, <3>2, <3>3 DEF Becomes, IntakeTypeOK
  <2>9. AdmissionsAreNamed'
    BY <1>2, <2>4, <2>5 DEF IInv, AdmissionsAreNamed, Becomes
  <2>10. ReviewsSaw'
    <3>1. \A n \in DOMAIN reviews : reviews[n].at \in Nat /\ reviews[n].at <= now
      BY <1>1, RunsAreTyped DEF IInv, ReviewsSaw, Review
    <3>2. \A n \in DOMAIN reviews : ~(runs'[r].ocrAt <= reviews[n].at)
      BY <2>1, <2>2, <2>4, <3>1 DEF Becomes
    <3>3. \A n \in DOMAIN reviews : reviews[n].at <= now'
      BY <1>4, <2>1, <3>1
    <3>. QED
      BY <1>2, <2>4, <2>6, <3>2, <3>3 DEF IInv, ReviewsSaw, Becomes
  <2>11. ProposalsRest'
    BY <1>2, <2>1, <2>2, <2>4 DEF IInv, ProposalsRest, Becomes
  <2>12. PatchesFit'
    BY <2>2, <2>4, <2>6 DEF IInv, PatchesFit, Becomes
  <2>. QED
    BY <2>7, <2>8, <2>9, <2>10, <2>11, <2>12 DEF IInv
<1>. QED
  BY <1>3, <1>4 DEF RunOCR

LEMMA StartIntakeKeepsInv ==
    ASSUME IInv, NEW mode \in {"workflow", "local"}, NEW s \in Submissions,
           NEW expected \in Reviewers \cup {None}, NEW n \in {0} \cup DOMAIN reviews,
           StartIntake(mode, s, expected, n)
    PROVE  IInv'
<1>. DEFINE x == [mode |-> mode, phase |-> "validated",
                  admission |-> staged[s], expected |-> expected,
                  ocrAt |-> 0, review |-> n, base |-> registry]
            k == Len(runs) + 1
<1>1. /\ Len(runs) < MaxRuns /\ staged[s] # None /\ IntakeTypeOK
      /\ runs' = Append(runs, x)
      /\ UNCHANGED <<now, staged, admissions, reviews, registry, queue>>
  BY DEF StartIntake, IInv
<1>2. x \in Run
  <2>1. staged[s] \in Admission
    BY <1>1 DEF IntakeTypeOK
  <2>2. n \in 0..MaxReviews
    BY <1>1, RunsAreTyped, IntakeAssumption
  <2>3. registry \subseteq 1..MaxRuns
    BY <1>1, RunsAreTyped DEF IntakeTypeOK
  <2>. QED
    BY <2>1, <2>2, <2>3 DEF Run
<1>3. x.admission = staged[s] /\ x.ocrAt = 0 /\ x.phase = "validated" /\ x.base = registry
  OBVIOUS
<1>. HIDE DEF x
<1>4. /\ runs' \in Seq(Run) /\ Len(runs') = Len(runs) + 1 /\ Len(runs) \in Nat
      /\ DOMAIN runs' = DOMAIN runs \cup {k} /\ k \notin DOMAIN runs
      /\ runs'[k] = x
      /\ \A q \in DOMAIN runs : runs'[q] = runs[q]
  BY <1>1, <1>2, AppendedSequence DEF IntakeTypeOK
<1>. HIDE DEF k
<1>5. \A q \in DOMAIN runs : PackageOf(q)' = PackageOf(q) /\ EntryHashes(q)' = EntryHashes(q)
  BY <1>4 DEF PackageOf, EntryHashes
<1>6. IntakeTypeOK'
  <2>1. registry' \subseteq {q \in DOMAIN runs' : runs'[q].phase = "bundled"}
    BY <1>1, <1>4 DEF IntakeTypeOK
  <2>2. \A q \in DOMAIN runs' :
           runs'[q].phase \in {"proposed", "bundled"} => runs'[q].review \in DOMAIN reviews'
    BY <1>1, <1>3, <1>4 DEF IntakeTypeOK
  <2>3. Len(runs') <= MaxRuns
    BY <1>1, <1>4, IntakeAssumption
  <2>. QED
    BY <1>1, <1>4, <2>1, <2>2, <2>3 DEF IntakeTypeOK
<1>7. ReportedRuns' = ReportedRuns
  BY <1>3, <1>4 DEF ReportedRuns
<1>8. AdmissionsAreNamed'
  BY <1>1, <1>3, <1>4 DEF IInv, AdmissionsAreNamed
<1>9. ReviewsSaw'
  BY <1>1, <1>3, <1>4, <1>5 DEF IInv, ReviewsSaw
<1>10. ProposalsRest'
  BY <1>1, <1>3, <1>4 DEF IInv, ProposalsRest
<1>11. PatchesFit'
  BY <1>1, <1>3, <1>4, <1>5 DEF IInv, PatchesFit, IntakeTypeOK
<1>. QED
  BY <1>1, <1>6, <1>7, <1>8, <1>9, <1>10, <1>11 DEF IInv

LEMMA ScreenKeepsInv ==
    ASSUME IInv, NEW p \in Packages, NEW reviewer \in Reviewers, Screen(p, reviewer)
    PROVE  IInv'
<1>. DEFINE x == [package |-> p, id |-> admissions + 1, by |-> reviewer, at |-> now]
<1>1. /\ admissions < MaxAdmissions /\ admissions' = admissions + 1
      /\ staged' = [staged EXCEPT ![p.submission] = x]
      /\ UNCHANGED <<now, reviews, runs, registry, queue>>
      /\ IntakeTypeOK
  BY DEF Screen, IInv
<1>2. /\ MaxAdmissions \in Nat /\ admissions \in Nat /\ now \in Nat
      /\ p.submission \in Submissions
  BY <1>1, RunsAreTyped, IntakeAssumption DEF Submissions
<1>3. x \in Admission /\ x.id = admissions + 1
  BY <1>1, <1>2 DEF Admission
<1>. HIDE DEF x
<1>4. /\ staged' \in [Submissions -> Admission \cup {None}]
      /\ staged'[p.submission] = x
      /\ \A s \in Submissions : s # p.submission => staged'[s] = staged[s]
  BY <1>1, <1>2, <1>3 DEF IntakeTypeOK
<1>5. IntakeTypeOK'
  BY <1>1, <1>2, <1>4 DEF IntakeTypeOK
<1>6. AdmissionsAreNamed'
  <2>1. \A s \in Submissions : staged[s] # None => staged[s].id \in Nat
    BY <1>1 DEF IntakeTypeOK, Admission
  <2>2. \A r \in DOMAIN runs : runs[r].admission.id \in Nat
    BY <1>1, RunsAreTyped DEF Run, Admission
  <2>3. \A s \in Submissions : staged'[s] # None /\ s # p.submission =>
           staged[s] # None /\ staged'[s] = staged[s] /\ staged[s].id < admissions + 1
    BY <1>2, <1>4, <2>1 DEF IInv, AdmissionsAreNamed
  <2>4. \A r \in DOMAIN runs : runs[r].admission.id < admissions + 1
    BY <1>2, <2>2 DEF IInv, AdmissionsAreNamed
  <2>5. ASSUME NEW s \in Submissions, staged'[s] # None
        PROVE  /\ staged'[s].id <= admissions'
               /\ \A t \in Submissions : staged'[t] # None /\ staged'[t].id = staged'[s].id => s = t
               /\ \A r \in DOMAIN runs : runs[r].admission.id = staged'[s].id
                                           => runs[r].admission = staged'[s]
    <3>1. CASE s = p.submission
      BY <1>1, <1>2, <1>3, <1>4, <2>1, <2>2, <2>3, <2>4, <3>1
    <3>2. CASE s # p.submission
      <4>1. staged[s] # None /\ staged'[s] = staged[s] /\ staged[s].id < admissions + 1
        BY <2>3, <2>5, <3>2
      <4>2. \A t \in Submissions : staged'[t] # None /\ staged'[t].id = staged'[s].id => s = t
        BY <1>3, <1>4, <2>1, <2>3, <4>1, <1>2 DEF IInv, AdmissionsAreNamed
      <4>. QED
        BY <1>1, <1>2, <2>1, <4>1, <4>2 DEF IInv, AdmissionsAreNamed
    <3>. QED
      BY <3>1, <3>2
  <2>6. \A r \in DOMAIN runs : runs[r].admission.id <= admissions'
    BY <1>1, <1>2, <2>2, <2>4
  <2>. QED
    BY <1>1, <2>5, <2>6 DEF IInv, AdmissionsAreNamed
<1>7. ReportedRuns' = ReportedRuns
  BY <1>1 DEF ReportedRuns
<1>8. ReviewsSaw' /\ ProposalsRest' /\ PatchesFit'
  BY <1>1 DEF IInv, ReviewsSaw, ProposalsRest, PatchesFit, PackageOf, EntryHashes
<1>. QED
  BY <1>1, <1>5, <1>6, <1>7, <1>8 DEF IInv

LEMMA WriteReviewKeepsInv ==
    ASSUME IInv, NEW s \in Submissions, NEW reviewer \in Reviewers,
           NEW decision \in {"propose-observation", "reject"}, NEW confirmed \in BOOLEAN,
           WriteReview(s, reviewer, decision, confirmed)
    PROVE  IInv'
<1>. DEFINE before == {q \in DOMAIN runs : Reported(q) /\ runs[q].admission = staged[s]}
            seen == UNION {Sanitized(PackageOf(r)) : r \in before}
            x == [submission |-> s, admission |-> staged[s].id, by |-> reviewer,
                  at |-> now + 1, decision |-> decision, confirmed |-> confirmed,
                  seen |-> seen]
            k == Len(reviews) + 1
<1>1. /\ staged[s] # None /\ Len(reviews) < MaxReviews
      /\ now' = now + 1
      /\ reviews' = Append(reviews, x)
      /\ UNCHANGED <<staged, admissions, runs, registry, queue>>
      /\ IntakeTypeOK
  BY DEF WriteReview, IInv
<1>2. \A r \in before : PackageOf(r) = staged[s].package
  BY DEF PackageOf
<1>3. before # {} => seen = Sanitized(staged[s].package)
  BY <1>2
<1>4. staged[s] \in Admission /\ now \in Nat
  BY <1>1, RunsAreTyped DEF IntakeTypeOK
<1>5. seen \subseteq Images
  BY <1>2, <1>4, SanitizedAreImages DEF Admission
<1>. HIDE DEF seen
<1>6. x \in Review /\ x.at = now + 1 /\ x.admission = staged[s].id /\ x.seen = seen
  BY <1>4, <1>5 DEF Review, Admission
<1>. HIDE DEF x
<1>7. /\ reviews' \in Seq(Review) /\ Len(reviews') = Len(reviews) + 1 /\ Len(reviews) \in Nat
      /\ DOMAIN reviews' = DOMAIN reviews \cup {k} /\ k \notin DOMAIN reviews
      /\ reviews'[k] = x
      /\ \A n \in DOMAIN reviews : reviews'[n] = reviews[n]
  BY <1>1, <1>6, AppendedSequence DEF IntakeTypeOK
<1>. HIDE DEF k
<1>8. ReportedRuns' = ReportedRuns /\ now' = Cardinality(ReportedRuns') + Len(reviews')
  <2>1. ReportedRuns' = ReportedRuns
    BY <1>1 DEF ReportedRuns
  <2>. QED
    BY <1>1, <1>7, <2>1, CountsFit DEF IInv
<1>9. IntakeTypeOK'
  <2>1. now' \in 0..(MaxRuns + MaxReviews) /\ Len(reviews') <= MaxReviews
    BY <1>1, <1>7, <1>8, CountsFit, RunsAreTyped, IntakeAssumption
  <2>2. \A r \in DOMAIN runs' :
           runs'[r].phase \in {"proposed", "bundled"} => runs'[r].review \in DOMAIN reviews'
    BY <1>1, <1>7 DEF IntakeTypeOK
  <2>. QED
    BY <1>1, <1>7, <2>1, <2>2 DEF IntakeTypeOK
<1>10. AdmissionsAreNamed' /\ PatchesFit'
  BY <1>1 DEF IInv, AdmissionsAreNamed, PatchesFit, PackageOf, EntryHashes
<1>11. ReviewsSaw'
  <2>1. \A n \in DOMAIN reviews : reviews[n].at \in Nat /\ reviews[n].at <= now
    BY <1>1, RunsAreTyped DEF IInv, ReviewsSaw, Review
  <2>2. ASSUME NEW r \in DOMAIN runs, staged[s].id = runs[r].admission.id, runs[r].ocrAt # 0
        PROVE  seen = Sanitized(PackageOf(r))
    <3>1. runs[r].admission = staged[s]
      BY <1>1, <2>2 DEF IInv, AdmissionsAreNamed
    <3>2. r \in before
      BY <2>2, <3>1 DEF Reported
    <3>. QED
      BY <1>2, <1>3, <3>2
  <2>3. ASSUME NEW n \in DOMAIN reviews'
        PROVE  /\ reviews'[n].at <= now'
               /\ \A r \in DOMAIN runs :
                     /\ reviews'[n].admission = runs[r].admission.id
                     /\ runs[r].ocrAt # 0
                     /\ runs[r].ocrAt <= reviews'[n].at
                     => reviews'[n].seen = Sanitized(PackageOf(r))
    <3>1. CASE n = k
      BY <1>1, <1>4, <1>6, <1>7, <2>2, <3>1
    <3>2. CASE n \in DOMAIN reviews
      BY <1>1, <1>4, <1>7, <2>1, <3>2 DEF IInv, ReviewsSaw
    <3>. QED
      BY <1>7, <2>3, <3>1, <3>2
  <2>4. \A r \in DOMAIN runs : PackageOf(r)' = PackageOf(r)
    BY <1>1 DEF PackageOf
  <2>. QED
    BY <1>1, <2>3, <2>4 DEF ReviewsSaw
<1>12. ProposalsRest'
  BY <1>1, <1>7 DEF IInv, ProposalsRest
<1>. QED
  BY <1>8, <1>9, <1>10, <1>11, <1>12 DEF IInv

LEMMA MergeKeepsInv ==
    ASSUME IInv, NEW r \in DOMAIN runs, MergePatch(r)
    PROVE  IInv'
<1>1. /\ runs[r].phase = "bundled" /\ registry' = registry \cup {r}
      /\ UNCHANGED <<now, staged, admissions, reviews, runs, queue>>
  BY DEF MergePatch
<1>2. IntakeTypeOK'
  BY <1>1 DEF IInv, IntakeTypeOK
<1>3. ReportedRuns' = ReportedRuns
  BY <1>1 DEF ReportedRuns
<1>4. AdmissionsAreNamed'
  BY <1>1 DEF IInv, AdmissionsAreNamed
<1>5. ReviewsSaw'
  BY <1>1 DEF IInv, ReviewsSaw, PackageOf
<1>6. ProposalsRest'
  BY <1>1 DEF IInv, ProposalsRest
<1>7. PatchesFit'
  BY <1>1 DEF IInv, PatchesFit, PackageOf, EntryHashes
<1>. QED
  BY <1>1, <1>2, <1>3, <1>4, <1>5, <1>6, <1>7 DEF IInv

LEMMA UnchangedKeepsInv ==
    ASSUME IInv, UNCHANGED <<now, staged, admissions, reviews, runs, registry>>,
           queue' \in SUBSET [reason : {"admitted-submission"}, gtin : Nat, about : {0}]
    PROVE  IInv'
<1>1. IntakeTypeOK'
  BY DEF IInv, IntakeTypeOK
<1>2. ReportedRuns' = ReportedRuns
  BY DEF ReportedRuns
<1>3. AdmissionsAreNamed'
  BY DEF IInv, AdmissionsAreNamed
<1>4. ReviewsSaw'
  BY DEF IInv, ReviewsSaw, PackageOf
<1>5. ProposalsRest'
  BY DEF IInv, ProposalsRest
<1>6. PatchesFit'
  BY DEF IInv, PatchesFit, PackageOf, EntryHashes
<1>. QED
  BY <1>1, <1>2, <1>3, <1>4, <1>5, <1>6 DEF IInv

LEMMA InitGivesInv == Init => IInv
<1>. SUFFICES ASSUME Init PROVE IInv
  OBVIOUS
<1>1. DOMAIN runs = {} /\ DOMAIN reviews = {} /\ Len(runs) = 0 /\ Len(reviews) = 0
  BY DEF Init
<1>2. IntakeTypeOK
  <2>1. runs \in Seq(Run) /\ reviews \in Seq(Review)
    BY DEF Init
  <2>2. staged \in [Submissions -> Admission \cup {None}]
    BY DEF Init
  <2>. QED
    BY <1>1, <2>1, <2>2, IntakeAssumption DEF Init, IntakeTypeOK
<1>3. now = Cardinality(ReportedRuns) + Len(reviews)
  <2>1. ReportedRuns = {}
    BY <1>1 DEF ReportedRuns
  <2>. QED
    BY <1>1, <2>1, FS_EmptySet DEF Init
<1>4. AdmissionsAreNamed /\ ReviewsSaw /\ ProposalsRest /\ PatchesFit
  BY <1>1 DEF Init, AdmissionsAreNamed, ReviewsSaw, ProposalsRest, PatchesFit
<1>. QED
  BY <1>2, <1>3, <1>4 DEF IInv

LEMMA NextKeepsInv == IInv /\ [Next]_vars => IInv'
<1>. SUFFICES ASSUME IInv, [Next]_vars PROVE IInv'
  OBVIOUS
<1>1. CASE \E p \in Packages, reviewer \in Reviewers : Screen(p, reviewer)
  BY <1>1, ScreenKeepsInv
<1>2. CASE \E mode \in {"workflow", "local"}, s \in Submissions,
              expected \in Reviewers \cup {None}, n \in {0} \cup DOMAIN reviews :
                StartIntake(mode, s, expected, n)
  BY <1>2, StartIntakeKeepsInv
<1>3. CASE \E s \in Submissions, reviewer \in Reviewers,
              decision \in {"propose-observation", "reject"}, confirmed \in BOOLEAN :
                WriteReview(s, reviewer, decision, confirmed)
  BY <1>3, WriteReviewKeepsInv
<1>4. CASE \E r \in DOMAIN runs : RunOCR(r)
  BY <1>4, RunOCRKeepsInv
<1>5. CASE \E r \in DOMAIN runs : MakePatch(r)
  BY <1>5, MakePatchKeepsInv
<1>6. CASE \E r \in DOMAIN runs : MergePatch(r)
  BY <1>6, MergeKeepsInv
<1>7. CASE \E r \in DOMAIN runs : \E n \in DOMAIN reviews : Finalize(r, n)
  BY <1>7, FinalizeKeepsInv
<1>8. CASE PublishQueue
  <2>1. UNCHANGED <<now, staged, admissions, reviews, runs, registry>>
    BY <1>8 DEF PublishQueue
  <2>2. queue' = {}
    BY <1>8, QueueStaysEmpty
  <2>. QED
    BY <2>1, <2>2, UnchangedKeepsInv
<1>9. CASE UNCHANGED vars
  BY <1>9, UnchangedKeepsInv DEF vars, IInv, IntakeTypeOK
<1>. QED
  BY <1>1, <1>2, <1>3, <1>4, <1>5, <1>6, <1>7, <1>8, <1>9 DEF Next

LEMMA InvAlwaysHolds == Spec => []IInv
BY InitGivesInv, NextKeepsInv, PTL DEF Spec

-----------------------------------------------------------------------------
(* The theorems.                                                            *)

\* Every variable keeps its type, a proposal names a review there is, and
\* only patches are merged, for any packages, reviewers and bounds.
THEOREM IntakeTypeCorrect == Spec => []IntakeTypeOK
<1>1. IInv => IntakeTypeOK
  BY DEF IInv
<1>. QED
  BY <1>1, InvAlwaysHolds, PTL

\* Whatever main admits, a person confirmed it with exactly the admitted
\* images before him: an admission number names one admission, and a review
\* after the report of an intake on it saw what that intake read.
THEOREM EvidenceAlwaysSeen == Spec => []EvidenceWasSeen
<1>1. ASSUME IInv, NEW r \in registry
      PROVE  LET review == reviews[runs[r].review]
             IN  /\ review.decision = "propose-observation" /\ review.confirmed
                 /\ review.seen = Sanitized(PackageOf(r))
  <2>1. r \in DOMAIN runs /\ runs[r].phase = "bundled"
    BY <1>1 DEF IInv, IntakeTypeOK
  <2>2. /\ runs[r].review \in DOMAIN reviews /\ runs[r].ocrAt # 0
        /\ reviews[runs[r].review].decision = "propose-observation"
        /\ reviews[runs[r].review].confirmed
        /\ reviews[runs[r].review].admission = runs[r].admission.id
        /\ runs[r].ocrAt <= reviews[runs[r].review].at
    BY <1>1, <2>1 DEF IInv, ProposalsRest
  <2>3. reviews[runs[r].review].seen = Sanitized(PackageOf(r))
    BY <1>1, <2>1, <2>2 DEF IInv, ReviewsSaw
  <2>. QED
    BY <2>2, <2>3
<1>2. IInv => EvidenceWasSeen
  BY <1>1 DEF EvidenceWasSeen
<1>. QED
  BY <1>2, InvAlwaysHolds, PTL

\* No submission and no image is admitted twice, unless both patches were
\* made before either was merged: a patch is made only where it fits.
THEOREM AdmittedOnlyOnce == Spec => []AdmittedOnce
<1>1. ASSUME IInv, NEW q \in registry, NEW r \in registry, q # r, q \in runs[r].base
      PROVE  /\ PackageOf(q).submission # PackageOf(r).submission
             /\ EntryHashes(q) \cap EntryHashes(r) = {}
  <2>1. r \in DOMAIN runs /\ runs[r].phase = "bundled"
    BY <1>1 DEF IInv, IntakeTypeOK
  <2>. QED
    BY <1>1, <2>1 DEF IInv, PatchesFit
<1>2. IInv => AdmittedOnce
  <2>1. ASSUME IInv, NEW q \in registry, NEW r \in registry, q # r,
               \/ PackageOf(q).submission = PackageOf(r).submission
               \/ EntryHashes(q) \cap EntryHashes(r) # {}
        PROVE  q \notin runs[r].base /\ r \notin runs[q].base
    <3>1. q \notin runs[r].base
      BY <1>1, <2>1
    <3>2. \/ PackageOf(r).submission = PackageOf(q).submission
          \/ EntryHashes(r) \cap EntryHashes(q) # {}
      BY <2>1
    <3>3. r \notin runs[q].base
      BY <1>1, <2>1, <3>2
    <3>. QED
      BY <3>1, <3>3
  <2>. QED
    BY <2>1 DEF AdmittedOnce
<1>. QED
  BY <1>2, InvAlwaysHolds, PTL
-----------------------------------------------------------------------------
(* How far the workflow comes, and the queue: what the documents promise and*)
(* a run refutes on an instance happens on none.                            *)

\* A run of the workflow was given its review before it read the images.
Late(run, written) ==
    run.mode = "workflow" =>
        /\ run.phase \in {"validated", "reported", "refused"}
        /\ run.review \in {0} \cup DOMAIN written
        /\ (run.phase = "reported" /\ run.review # 0 =>
               written[run.review].at < run.ocrAt)

LateInv == \A r \in DOMAIN runs : Late(runs[r], reviews)

\* The workflow neither proposes nor rejects, and all that main admits was
\* finished on a maintainer's machine.
WorkflowEndsEarly ==
    /\ \A r \in DOMAIN runs : runs[r].mode = "workflow" =>
           runs[r].phase \in {"validated", "reported", "refused"}
    /\ \A r \in registry : runs[r].mode # "workflow"

NothingIsQueued == queue = {}

LEMMA OneRunIsLate ==
    ASSUME LateInv, NEW r \in DOMAIN runs, NEW x, Late(x, reviews),
           runs' = [runs EXCEPT ![r] = x], UNCHANGED reviews
    PROVE  LateInv'
<1>1. DOMAIN runs' = DOMAIN runs /\ runs'[r] = x
      /\ \A q \in DOMAIN runs : q # r => runs'[q] = runs[q]
  OBVIOUS
<1>2. ASSUME NEW q \in DOMAIN runs'
      PROVE  Late(runs'[q], reviews)
  BY <1>1 DEF LateInv
<1>. QED
  BY <1>2 DEF LateInv

LEMMA StartIntakeIsLate ==
    ASSUME IInv, LateInv, NEW mode \in {"workflow", "local"}, NEW s \in Submissions,
           NEW expected \in Reviewers \cup {None}, NEW n \in {0} \cup DOMAIN reviews,
           StartIntake(mode, s, expected, n)
    PROVE  LateInv'
<1>. DEFINE x == [mode |-> mode, phase |-> "validated",
                  admission |-> staged[s], expected |-> expected,
                  ocrAt |-> 0, review |-> n, base |-> registry]
<1>1. /\ staged[s] # None /\ IntakeTypeOK
      /\ runs' = Append(runs, x) /\ UNCHANGED reviews
  BY DEF StartIntake, IInv
<1>2. x \in Run
  <2>1. staged[s] \in Admission
    BY <1>1 DEF IntakeTypeOK
  <2>2. n \in 0..MaxReviews
    BY <1>1, RunsAreTyped, IntakeAssumption
  <2>3. registry \subseteq 1..MaxRuns
    BY <1>1, RunsAreTyped DEF IntakeTypeOK
  <2>. QED
    BY <2>1, <2>2, <2>3 DEF Run
<1>3. Late(x, reviews)
  BY DEF Late
<1>. HIDE DEF x
<1>4. /\ DOMAIN runs' = DOMAIN runs \cup {Len(runs) + 1}
      /\ runs'[Len(runs) + 1] = x /\ \A r \in DOMAIN runs : runs'[r] = runs[r]
  BY <1>1, <1>2, AppendedSequence DEF IntakeTypeOK
<1>. QED
  BY <1>1, <1>3, <1>4 DEF LateInv

LEMMA WriteReviewIsLate ==
    ASSUME IInv, LateInv, NEW s \in Submissions, NEW reviewer \in Reviewers,
           NEW decision \in {"propose-observation", "reject"},
           NEW confirmed \in BOOLEAN, WriteReview(s, reviewer, decision, confirmed)
    PROVE  LateInv'
<1>1. \A n \in DOMAIN reviews : n \in DOMAIN reviews' /\ reviews'[n] = reviews[n]
  <2>. DEFINE review == [submission |-> s, admission |-> staged[s].id, by |-> reviewer,
           at |-> now', decision |-> decision, confirmed |-> confirmed,
           seen |-> UNION {Sanitized(PackageOf(r)) :
                        r \in {q \in DOMAIN runs : /\ Reported(q)
                                                   /\ runs[q].admission = staged[s]}}]
  <2>1. reviews' = Append(reviews, review)
    BY DEF WriteReview
  <2>. HIDE DEF review
  <2>2. reviews \in Seq(Review \cup {review})
    BY SeqDef DEF IInv, IntakeTypeOK
  <2>. QED
    BY <2>1, <2>2, AppendedSequence
<1>2. UNCHANGED runs
  BY DEF WriteReview
<1>3. ASSUME NEW r \in DOMAIN runs
      PROVE  Late(runs[r], reviews')
  <2>1. Late(runs[r], reviews)
    BY DEF LateInv
  <2>. QED
    BY <1>1, <2>1 DEF Late
<1>. QED
  BY <1>2, <1>3 DEF LateInv

LEMMA RunOCRIsLate ==
    ASSUME IInv, LateInv, NEW r \in DOMAIN runs, RunOCR(r)
    PROVE  LateInv'
<1>1. /\ runs[r] \in Run /\ Late(runs[r], reviews) /\ now \in Nat
      /\ \A n \in DOMAIN reviews : reviews[n].at \in Nat /\ reviews[n].at <= now
  BY RunsAreTyped DEF IInv, LateInv, ReviewsSaw, Review
<1>2. UNCHANGED reviews
  BY DEF RunOCR
<1>3. CASE runs' = [runs EXCEPT ![r].phase = "refused"]
  <2>. DEFINE x == [runs[r] EXCEPT !.phase = "refused"]
  <2>1. Late(x, reviews)
    BY <1>1 DEF Late, Run
  <2>2. runs' = [runs EXCEPT ![r] = x]
    BY <1>3
  <2>. HIDE DEF x
  <2>. QED
    BY <1>2, <2>1, <2>2, OneRunIsLate
<1>4. CASE now' = now + 1 /\ runs' = [runs EXCEPT ![r].phase = "reported", ![r].ocrAt = now']
  <2>. DEFINE x == [runs[r] EXCEPT !.phase = "reported", !.ocrAt = now']
  <2>1. Late(x, reviews)
    <3>1. x.mode = runs[r].mode /\ x.review = runs[r].review
          /\ x.phase = "reported" /\ x.ocrAt = now + 1
      BY <1>1, <1>4 DEF Run
    <3>2. ASSUME x.mode = "workflow", x.review # 0
          PROVE  reviews[x.review].at < x.ocrAt
      BY <1>1, <3>1, <3>2 DEF Late
    <3>. QED
      BY <1>1, <3>1, <3>2 DEF Late
  <2>2. runs' = [runs EXCEPT ![r] = x]
    BY <1>4
  <2>. HIDE DEF x
  <2>. QED
    BY <1>2, <2>1, <2>2, OneRunIsLate
<1>. QED
  BY <1>3, <1>4 DEF RunOCR

LEMMA MakePatchIsLate ==
    ASSUME IInv, LateInv, NEW r \in DOMAIN runs, MakePatch(r)
    PROVE  LateInv'
<1>. DEFINE base == IF runs[r].mode = "workflow" THEN runs[r].base ELSE registry
<1>1. /\ runs[r] \in Run /\ runs[r].mode # "workflow" /\ UNCHANGED reviews
  BY RunsAreTyped DEF IInv, LateInv, Late, MakePatch
<1>2. \/ runs' = [runs EXCEPT ![r] = [runs[r] EXCEPT !.phase = "refused"]]
      \/ runs' = [runs EXCEPT ![r] = [runs[r] EXCEPT !.phase = "bundled", !.base = base]]
  BY DEF MakePatch
<1>. HIDE DEF base
<1>3. /\ Late([runs[r] EXCEPT !.phase = "refused"], reviews)
      /\ Late([runs[r] EXCEPT !.phase = "bundled", !.base = base], reviews)
  BY <1>1 DEF Late, Run
<1>. QED
  BY <1>1, <1>2, <1>3, OneRunIsLate

LEMMA FinalizeIsLate ==
    ASSUME IInv, LateInv, NEW r \in DOMAIN runs, NEW n \in DOMAIN reviews, Finalize(r, n)
    PROVE  LateInv'
<1>1. /\ runs[r] \in Run /\ Late(runs[r], reviews) /\ UNCHANGED reviews
      /\ runs[r].phase = "reported" /\ n \in Nat /\ n # 0
      /\ runs[r].mode = "workflow" => n = runs[r].review
      /\ reviews[n].at \in Nat /\ runs[r].ocrAt \in Nat
  BY RunsAreTyped DEF IInv, LateInv, Finalize, Review, Run
<1>2. runs[r].mode = "workflow" => ~ValidReview(r, n)
  BY <1>1 DEF Late, ValidReview
<1>3. CASE runs[r].mode = "workflow"
  <2>1. runs' = [runs EXCEPT ![r] = [runs[r] EXCEPT !.phase = "refused"]]
    BY <1>2, <1>3 DEF Finalize
  <2>2. Late([runs[r] EXCEPT !.phase = "refused"], reviews)
    BY <1>1 DEF Late, Run
  <2>. QED
    BY <1>1, <2>1, <2>2, OneRunIsLate
<1>4. CASE runs[r].mode # "workflow"
  <2>. DEFINE p == IF reviews[n].decision = "reject" THEN "rejected" ELSE "proposed"
              x == [runs[r] EXCEPT !.review = n, !.phase = p]
  <2>1. runs' = [runs EXCEPT ![r] = x]
    BY <1>4 DEF Finalize
  <2>2. x.mode # "workflow"
    BY <1>1, <1>4 DEF Run
  <2>3. Late(x, reviews)
    BY <2>2 DEF Late
  <2>. HIDE DEF x
  <2>. QED
    BY <1>1, <2>1, <2>3, OneRunIsLate
<1>. QED
  BY <1>3, <1>4

LEMMA EveryStepIsLate == IInv /\ LateInv /\ [Next]_vars => LateInv'
<1>. SUFFICES ASSUME IInv, LateInv, [Next]_vars PROVE LateInv'
  OBVIOUS
<1>1. CASE UNCHANGED <<runs, reviews>>
  BY <1>1 DEF LateInv
<1>2. CASE \E mode \in {"workflow", "local"}, s \in Submissions,
              expected \in Reviewers \cup {None}, n \in {0} \cup DOMAIN reviews :
                StartIntake(mode, s, expected, n)
  BY <1>2, StartIntakeIsLate
<1>3. CASE \E s \in Submissions, reviewer \in Reviewers,
              decision \in {"propose-observation", "reject"}, confirmed \in BOOLEAN :
                WriteReview(s, reviewer, decision, confirmed)
  BY <1>3, WriteReviewIsLate
<1>4. CASE \E r \in DOMAIN runs :
               RunOCR(r) \/ MakePatch(r) \/ \E n \in DOMAIN reviews : Finalize(r, n)
  BY <1>4, RunOCRIsLate, MakePatchIsLate, FinalizeIsLate
<1>5. CASE \/ \E p \in Packages, reviewer \in Reviewers : Screen(p, reviewer)
           \/ \E r \in DOMAIN runs : MergePatch(r)
           \/ PublishQueue \/ UNCHANGED vars
  BY <1>1, <1>5 DEF Screen, MergePatch, PublishQueue, vars
<1>. QED
  BY <1>2, <1>3, <1>4, <1>5 DEF Next

\* A workflow run is given a file from the ref it checks out and reads the
\* images later, while finalize wants the review to follow the report: with
\* whatever review, from whatever reviewer, the workflow never finalizes.
THEOREM WorkflowNeverFinalizes == Spec => []WorkflowEndsEarly
<1>1. Init => LateInv
  BY DEF Init, LateInv
<1>2. IInv /\ LateInv /\ [Next]_vars => LateInv'
  BY EveryStepIsLate
<1>3. ASSUME IInv, LateInv
      PROVE  WorkflowEndsEarly
  <2>1. \A r \in registry : r \in DOMAIN runs /\ runs[r].phase = "bundled"
    BY <1>3 DEF IInv, IntakeTypeOK
  <2>. QED
    BY <1>3, <2>1 DEF WorkflowEndsEarly, LateInv, Late
<1>. QED
  BY <1>1, <1>2, <1>3, InvAlwaysHolds, PTL DEF Spec

\* The records of an admitted submission are not where derive() looks for
\* them, so no submission is ever in the queue, whatever main admits.
THEOREM QueueIsEmpty == Spec => []NothingIsQueued
<1>1. Init => NothingIsQueued
  BY DEF Init, NothingIsQueued
<1>2. ASSUME NothingIsQueued, [Next]_vars
      PROVE  NothingIsQueued'
  <2>1. CASE PublishQueue
    BY <2>1, QueueStaysEmpty DEF NothingIsQueued
  <2>2. CASE UNCHANGED queue
    BY <1>2, <2>2 DEF NothingIsQueued
  <2>3. PublishQueue \/ UNCHANGED queue
    <3>1. \A p, reviewer : Screen(p, reviewer) => UNCHANGED queue
      BY DEF Screen
    <3>2. \A mode, s, expected, n : StartIntake(mode, s, expected, n) => UNCHANGED queue
      BY Zenon DEF StartIntake
    <3>3. \A s, reviewer, decision, confirmed :
              WriteReview(s, reviewer, decision, confirmed) => UNCHANGED queue
      BY Zenon DEF WriteReview
    <3>4. \A r : RunOCR(r) \/ MakePatch(r) \/ MergePatch(r) => UNCHANGED queue
      BY Zenon DEF RunOCR, MakePatch, MergePatch
    <3>5. \A r, n : Finalize(r, n) => UNCHANGED queue
      BY Zenon DEF Finalize
    <3>6. UNCHANGED vars => UNCHANGED queue
      BY DEF vars
    <3>. QED
      BY <1>2, <3>1, <3>2, <3>3, <3>4, <3>5, <3>6 DEF Next
  <2>. QED
    BY <2>1, <2>2, <2>3
<1>. QED
  BY <1>1, <1>2, PTL DEF Spec
=============================================================================
