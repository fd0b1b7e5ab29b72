--------------------- MODULE AssessmentLifecycleProofs ---------------------
(***************************************************************************)
(* Proofs about the life of an assessment: normalisation never refuses its  *)
(* result, supersession does not fork, and what a released positive verdict *)
(* rests on.                                                                *)
(***************************************************************************)
EXTENDS AssessmentLifecycle, TLAPS, FiniteSetTheorems, SequenceTheorems

-----------------------------------------------------------------------------
(* Envelopes. *)

Positions(e) == 1..Len(e.obs)

Chains(e) ==
    /\ \A i \in Positions(e) : e.obs[i].supersedes < i
    /\ \A i, j \in Positions(e) :
          e.obs[i].supersedes = e.obs[j].supersedes /\ i # j
              => e.obs[i].supersedes = 0

Sound(e) == e \in Envelope /\ Valid(e) /\ Chains(e)

\* f holds everything e holds, and what is no longer invalid was restored.
Grows(e, f) ==
    /\ Len(e.obs) <= Len(f.obs)
    /\ \A i \in Positions(e) : f.obs[i] = e.obs[i]
    /\ e.assessments \subseteq f.assessments
    /\ e.reviews \subseteq f.reviews
    /\ e.restored \subseteq f.restored
    /\ e.invalidated \subseteq f.invalidated \cup f.restored

LEMMA EnvelopeFields ==
    ASSUME NEW e \in Envelope
    PROVE  /\ e.obs \in Seq(Observation)
           /\ Len(e.obs) \in Nat
           /\ DOMAIN e.obs = Positions(e)
           /\ \A i \in Positions(e) : /\ e.obs[i] \in Observation
                                      /\ e.obs[i].text \in Texts
                                      /\ e.obs[i].supersedes \in Nat
           /\ e.sel \in Selection \cup {None}
           /\ e.assessments \subseteq Assessment
           /\ e.reviews \subseteq Review
           /\ e.invalidated \subseteq Assessment
           /\ e.restored \subseteq Assessment
<1>1. e.obs \in Seq(Observation)
  BY DEF Envelope
<1>2. DOMAIN e.obs = 1..Len(e.obs) /\ Len(e.obs) \in Nat
  BY <1>1, LenProperties
<1>3. \A i \in Positions(e) : e.obs[i] \in Observation
  BY <1>1, ElementOfSeq DEF Positions
<1>. QED
  BY <1>1, <1>2, <1>3 DEF Envelope, Positions, Observation

LEMMA SupersededIs ==
    ASSUME NEW e \in Envelope
    PROVE  /\ \A k : k \in Superseded(e) <=>
                  k # 0 /\ \E i \in Positions(e) : e.obs[i].supersedes = k
BY EnvelopeFields DEF Superseded

\* What Append does, in the terms used below.
Extends(new, old, o) ==
    /\ Len(new) = Len(old) + 1
    /\ \A i \in 1..Len(old) : new[i] = old[i]
    /\ new[Len(old) + 1] = o

\* Appending an observation that supersedes a live one, or nothing.
LEMMA AppendKeepsChains ==
    ASSUME NEW e \in Envelope, Chains(e), NEW f \in Envelope,
           NEW o \in Observation, Extends(f.obs, e.obs, o),
           o.supersedes \in (0..Len(e.obs)) \ Superseded(e)
    PROVE  /\ Chains(f)
           /\ Superseded(f) = Superseded(e) \cup ({o.supersedes} \ {0})
           /\ Len(f.obs) \notin Superseded(f)
<1>1. /\ Len(e.obs) \in Nat
      /\ Len(f.obs) = Len(e.obs) + 1
      /\ \A i \in Positions(e) : f.obs[i] = e.obs[i]
      /\ f.obs[Len(f.obs)] = o
  BY EnvelopeFields DEF Extends, Positions
<1>2. Positions(f) = Positions(e) \cup {Len(f.obs)}
  BY <1>1 DEF Positions
<1>3. \A i \in Positions(e) : i \in Nat /\ i # Len(f.obs)
                                /\ e.obs[i].supersedes \in Nat
  BY <1>1, EnvelopeFields DEF Positions
<1>4. \A i \in Positions(f) : f.obs[i].supersedes < i
  <2>1. o.supersedes < Len(f.obs)
    BY <1>1
  <2>2. \A i \in Positions(e) : e.obs[i].supersedes < i
    BY DEF Chains
  <2>. QED
    BY <1>1, <1>2, <2>1, <2>2
<1>5. \A i \in Positions(e) :
         e.obs[i].supersedes = o.supersedes => o.supersedes = 0
  BY SupersededIs
<1>6. \A i, j \in Positions(f) :
         f.obs[i].supersedes = f.obs[j].supersedes /\ i # j
             => f.obs[i].supersedes = 0
  <2>. SUFFICES ASSUME NEW i \in Positions(f), NEW j \in Positions(f),
                       f.obs[i].supersedes = f.obs[j].supersedes, i # j
                PROVE  f.obs[i].supersedes = 0
    OBVIOUS
  <2>1. CASE i \in Positions(e) /\ j \in Positions(e)
    BY <1>1, <2>1 DEF Chains
  <2>2. CASE i = Len(f.obs) /\ j \in Positions(e)
    BY <1>1, <1>5, <2>2
  <2>3. CASE j = Len(f.obs) /\ i \in Positions(e)
    BY <1>1, <1>5, <2>3
  <2>. QED
    BY <1>2, <2>1, <2>2, <2>3
<1>7. Superseded(f) = Superseded(e) \cup ({o.supersedes} \ {0})
  <2>. SUFFICES ASSUME NEW k
                PROVE  k \in Superseded(f) <=>
                         k \in Superseded(e) \/ (k = o.supersedes /\ k # 0)
    OBVIOUS
  <2>1. (\E i \in Positions(f) : f.obs[i].supersedes = k) <=>
           \/ \E i \in Positions(e) : e.obs[i].supersedes = k
           \/ k = o.supersedes
    BY <1>1, <1>2
  <2>. QED
    BY <2>1, SupersededIs
<1>8. Len(f.obs) \notin Superseded(f)
  BY <1>1, <1>2, <1>4, SupersededIs, EnvelopeFields
<1>. QED
  BY <1>1, <1>4, <1>6, <1>7, <1>8 DEF Chains

LEMMA SelectionFields ==
    ASSUME NEW e, Sound(e), e.sel # None
    PROVE  /\ e.sel \in Selection
           /\ e.sel.ingredient \in (0..Len(e.obs)) \ Superseded(e)
           /\ e.sel.assessment # None => ValidAssessment(e, e.sel.assessment)
           /\ e.sel.assessment \in Assessment \cup {None}
           /\ e.sel.certs \subseteq Certs
           /\ e.sel.flagged \in BOOLEAN
BY EnvelopeFields DEF Sound, Valid, Selection

LEMMA PriorIsLive ==
    ASSUME NEW e, Sound(e)
    PROVE  Prior(e) \in (0..Len(e.obs)) \ Superseded(e)
<1>1. Len(e.obs) \in Nat /\ 0 \notin Superseded(e)
  BY EnvelopeFields DEF Sound, Superseded
<1>. QED
  BY <1>1, SelectionFields DEF Prior

\* What validate_envelope checks at the end of normalize_snapshot holds.
LEMMA NormalizedIsSound ==
    ASSUME NEW e, Sound(e), NEW s \in Snapshot
    PROVE  Sound(Normalized(e, s)) /\ Grows(e, Normalized(e, s))
<1>. DEFINE f == Normalized(e, s)
<1>. SUFFICES Sound(f) /\ Grows(e, f)
  OBVIOUS
<1>1. /\ e \in Envelope /\ Valid(e) /\ Chains(e)
      /\ Len(e.obs) \in Nat
      /\ 0 \in (0..Len(e.obs)) \ Superseded(e)
      /\ s.flagged \in BOOLEAN
  <2>1. e \in Envelope /\ Valid(e) /\ Chains(e)
    BY DEF Sound
  <2>2. Len(e.obs) \in Nat /\ 0 \notin Superseded(e)
    BY <2>1, EnvelopeFields, SupersededIs
  <2>3. s.flagged \in BOOLEAN
    BY DEF Snapshot
  <2>. QED
    BY <2>1, <2>2, <2>3
<1>2. \A i \in Nat, b \in BOOLEAN :
         /\ AdapterSelection(e, i, b) \in Selection
         /\ AdapterSelection(e, i, b).ingredient = i
         /\ AdapterSelection(e, i, b).assessment = None
  BY DEF AdapterSelection, Selection
<1>3. ASSUME NEW i \in (0..Len(e.obs)) \ Superseded(e), NEW b \in BOOLEAN,
             f = [e EXCEPT !.sel = AdapterSelection(e, i, b)]
      PROVE  Sound(f) /\ Grows(e, f)
  <2>1. /\ f \in Envelope
        /\ f.obs = e.obs /\ f.assessments = e.assessments
        /\ f.reviews = e.reviews /\ f.invalidated = e.invalidated
        /\ f.restored = e.restored
        /\ f.sel = AdapterSelection(e, i, b)
    <3>. HIDE DEF f
    <3>. QED
      BY <1>1, <1>2, <1>3 DEF Envelope
  <2>. HIDE DEF f
  <2>2. Superseded(f) = Superseded(e) /\ Positions(f) = Positions(e)
    BY <2>1 DEF Superseded, Positions
  <2>3. Valid(f)
    BY <1>1, <1>2, <2>1, <2>2 DEF Valid
  <2>4. Chains(f)
    BY <1>1, <2>1, <2>2 DEF Chains
  <2>. QED
    BY <1>1, <2>1, <2>2, <2>3, <2>4 DEF Sound, Grows
<1>4. ASSUME s.kind = "record", ~Unchanged(e, s.text)
      PROVE  Sound(f) /\ Grows(e, f)
  <2>. DEFINE o == [text |-> s.text, supersedes |-> Prior(e)]
              gone == IF Prior(e) # 0 /\ e.sel.assessment # None
                        THEN {e.sel.assessment} ELSE {}
  <2>1. o \in Observation /\ o.supersedes = Prior(e)
    <3>1. s.text \in Texts
      BY <1>4 DEF Snapshot
    <3>2. Prior(e) \in Nat
      BY <1>1, PriorIsLive
    <3>. QED
      BY <3>1, <3>2 DEF Observation
  <2>2. gone \subseteq e.assessments
    BY SelectionFields DEF Prior, ValidAssessment
  <2>3. /\ f \in Envelope
        /\ Extends(f.obs, e.obs, o) /\ f.assessments = e.assessments
        /\ f.reviews = e.reviews /\ f.restored = e.restored
        /\ f.invalidated = e.invalidated \cup gone
        /\ f.sel.ingredient = Len(e.obs) + 1
        /\ f.sel.assessment = None
    <3>1. f = [e EXCEPT !.obs = Append(@, o),
                        !.sel = AdapterSelection(e, Len(e.obs) + 1, s.flagged),
                        !.invalidated = @ \cup gone]
      BY <1>4 DEF Normalized, ObserveText
    <3>. DEFINE obs == Append(e.obs, o)
    <3>2. obs \in Seq(Observation) /\ Extends(obs, e.obs, o)
      BY <1>1, <2>1, EnvelopeFields, AppendProperties DEF Extends
    <3>3. e.invalidated \cup gone \subseteq Assessment
      BY <1>1, <2>2, EnvelopeFields
    <3>. DEFINE sel == AdapterSelection(e, Len(e.obs) + 1, s.flagged)
    <3>4. /\ sel \in Selection
          /\ sel.ingredient = Len(e.obs) + 1
          /\ sel.assessment = None
      BY <1>1, <1>2
    <3>. HIDE DEF f, o, gone, obs, sel
    <3>5. /\ f.obs = obs /\ f.assessments = e.assessments
          /\ f.reviews = e.reviews /\ f.restored = e.restored
          /\ f.invalidated = e.invalidated \cup gone
          /\ f.sel = sel
      BY <1>1, <3>1 DEF Envelope, obs, sel
    <3>6. f \in Envelope
      BY <1>1, <3>1, <3>2, <3>3, <3>4 DEF Envelope, obs, sel
    <3>. QED
      BY <3>2, <3>4, <3>5, <3>6
  <2>. HIDE DEF f, o, gone
  <2>4. /\ Chains(f)
        /\ Len(f.obs) = Len(e.obs) + 1
        /\ \A i \in Positions(e) : f.obs[i] = e.obs[i]
        /\ Len(f.obs) \notin Superseded(f)
    <3>1. o.supersedes \in (0..Len(e.obs)) \ Superseded(e)
      BY <2>1, PriorIsLive
    <3>2. Chains(f) /\ Len(e.obs) + 1 \notin Superseded(f)
      BY <1>1, <2>1, <2>3, <3>1, AppendKeepsChains DEF Extends
    <3>. QED
      BY <2>3, <3>2 DEF Extends, Positions
  <2>5. Valid(f)
    BY <1>1, <2>2, <2>3, <2>4 DEF Valid
  <2>6. Grows(e, f)
    BY <1>1, <2>3, <2>4 DEF Grows
  <2>. QED
    BY <2>3, <2>4, <2>5, <2>6 DEF Sound
<1>5. CASE s.kind = "record" /\ Unchanged(e, s.text)
  <2>1. f = [e EXCEPT !.sel = AdapterSelection(e, Prior(e), s.flagged)]
    BY <1>5 DEF Normalized, ObserveText
  <2>. HIDE DEF f
  <2>. QED
    BY <1>1, <1>3, <2>1, PriorIsLive
<1>6. CASE s.kind = "no-ingredients"
  <2>1. f = [e EXCEPT !.sel = AdapterSelection(e, 0, TRUE)]
    BY <1>6 DEF Normalized
  <2>. HIDE DEF f
  <2>. QED
    BY <1>1, <1>3, <2>1
<1>7. CASE s.kind = "absent"
  <2>1. /\ f \in Envelope
        /\ f.obs = e.obs /\ f.assessments = e.assessments
        /\ f.reviews = e.reviews /\ f.invalidated = e.invalidated
        /\ f.restored = e.restored
        /\ f.sel = None
    BY <1>1, <1>7 DEF Normalized, Envelope
  <2>. HIDE DEF f
  <2>2. Positions(f) = Positions(e)
    BY <2>1 DEF Positions
  <2>3. Valid(f) /\ Chains(f)
    BY <1>1, <2>1, <2>2 DEF Valid, Chains
  <2>. QED
    BY <1>1, <2>1, <2>2, <2>3 DEF Sound, Grows
<1>8. CASE s.kind = "unobserved"
  BY <1>1, <1>8 DEF Normalized, Sound, Grows
<1>. QED
  BY <1>4, <1>5, <1>6, <1>7, <1>8 DEF Snapshot

\* The text a selection points at.
Shows(e, text) ==
    e.sel # None /\ e.sel.ingredient # 0 => e.obs[e.sel.ingredient].text = text

LEMMA NormalizedShows ==
    ASSUME NEW e, Sound(e), NEW s \in Snapshot
    PROVE  /\ Normalized(e, s).reviews = e.reviews
           /\ s.kind = "record" => Shows(Normalized(e, s), s.text)
           /\ s.kind \in {"no-ingredients", "absent"} =>
                Shows(Normalized(e, s), None)
           /\ s.kind = "unobserved" => Normalized(e, s) = e
<1>. DEFINE f == Normalized(e, s)
<1>1. e \in Envelope /\ Len(e.obs) \in Nat
  BY EnvelopeFields DEF Sound
<1>2. CASE s.kind = "record" /\ Unchanged(e, s.text)
  <2>1. f = [e EXCEPT !.sel = AdapterSelection(e, Prior(e), s.flagged)]
    BY <1>2 DEF Normalized, ObserveText
  <2>. HIDE DEF f
  <2>2. /\ f.obs = e.obs /\ f.reviews = e.reviews
        /\ f.sel.ingredient = Prior(e)
    BY <1>1, <2>1 DEF Envelope, AdapterSelection
  <2>3. Shows(f, s.text)
    BY <1>2, <2>2 DEF Shows, Unchanged
  <2>. QED
    BY <1>2, <2>2, <2>3 DEF f
<1>3. CASE s.kind = "record" /\ ~Unchanged(e, s.text)
  <2>. DEFINE o == [text |-> s.text, supersedes |-> Prior(e)]
              obs == Append(e.obs, o)
              gone == IF Prior(e) # 0 /\ e.sel.assessment # None
                        THEN {e.sel.assessment} ELSE {}
              sel == AdapterSelection(e, Len(e.obs) + 1, s.flagged)
  <2>1. f = [e EXCEPT !.obs = obs, !.sel = sel,
                      !.invalidated = @ \cup gone]
    BY <1>3 DEF Normalized, ObserveText
  <2>2. obs[Len(e.obs) + 1].text = s.text
    <3>1. s.text \in Texts
      BY <1>3 DEF Snapshot
    <3>2. Prior(e) \in Nat
      BY <1>1, PriorIsLive
    <3>3. o \in Observation
      BY <3>1, <3>2 DEF Observation
    <3>4. obs[Len(e.obs) + 1] = o
      BY <1>1, <3>3, EnvelopeFields, AppendProperties
    <3>. QED
      BY <3>4
  <2>3. sel.ingredient = Len(e.obs) + 1
    BY DEF AdapterSelection
  <2>. HIDE DEF f, obs, sel, gone
  <2>4. f.obs = obs /\ f.reviews = e.reviews /\ f.sel = sel
    BY <1>1, <2>1 DEF Envelope
  <2>5. Shows(f, s.text)
    BY <2>2, <2>3, <2>4 DEF Shows
  <2>. QED
    BY <1>3, <2>4, <2>5 DEF f
<1>4. CASE s.kind = "no-ingredients"
  <2>1. f = [e EXCEPT !.sel = AdapterSelection(e, 0, TRUE)]
    BY <1>4 DEF Normalized
  <2>. HIDE DEF f
  <2>2. f.reviews = e.reviews /\ f.sel.ingredient = 0
    BY <1>1, <2>1 DEF Envelope, AdapterSelection
  <2>. QED
    BY <1>4, <2>2 DEF f, Shows
<1>5. CASE s.kind = "absent"
  <2>1. f = [e EXCEPT !.sel = None]
    BY <1>5 DEF Normalized
  <2>. HIDE DEF f
  <2>2. f.reviews = e.reviews /\ f.sel = None
    BY <1>1, <2>1 DEF Envelope
  <2>. QED
    BY <1>5, <2>2 DEF f, Shows
<1>6. CASE s.kind = "unobserved"
  BY <1>6 DEF Normalized
<1>. QED
  BY <1>2, <1>3, <1>4, <1>5, <1>6 DEF Snapshot

\* Nothing that cannot be used becomes usable again.
LEMMA UnusableGrows ==
    ASSUME NEW e \in Envelope, NEW f \in Envelope, Grows(e, f)
    PROVE  Unusable(e) \subseteq Unusable(f)
<1>1. Superseded(e) \subseteq Superseded(f)
  <2>1. Positions(e) \subseteq Positions(f)
    BY EnvelopeFields DEF Grows, Positions
  <2>. QED
    BY <2>1, SupersededIs DEF Grows
<1>2. \A a : Terminal(e, a) => Terminal(f, a)
  BY DEF Grows, Terminal
<1>. QED
  BY <1>1, <1>2 DEF Grows, Unusable

-----------------------------------------------------------------------------
(* The inductive invariant. *)

\* A positive verdict a reviewer stands for is about a text of the evidence
\* that the reviewer was shown and that its methodology does not prohibit.
Grounded(a, reviewer) ==
    a.status \in Positive =>
        /\ a.ingredient \in Positions(evidence)
        /\ <<reviewer, evidence.obs[a.ingredient].text>> \in read
        /\ evidence.obs[a.ingredient].text \notin Prohibited[a.version]

ApprovalsAreGrounded ==
    /\ \A r \in results : Grounded(r.assessment, r.reviewer)
    /\ \A v \in evidence.reviews :
          v.state = "approved" => Grounded(v.target, v.reviewer)

WithdrawnIsUnusable ==
    /\ withdrawn \subseteq Unusable(evidence)
    /\ onceInvalid \subseteq evidence.invalidated \cup evidence.restored

SelectionIsSeen == Shows(evidence, seen)

\* A release was made of the present evidence.
ReleaseIsOfEvidence ==
    release # None =>
        /\ QualityPasses(evidence, clock)
        /\ release = [text |-> IF Selected(evidence) = 0 THEN None
                               ELSE evidence.obs[Selected(evidence)].text,
                      assessment |-> IF evidence.sel = None THEN None
                                     ELSE evidence.sel.assessment]

LifecycleInv ==
    /\ LifecycleTypeOK
    /\ Sound(evidence)
    /\ NormalizeIsNotRefused
    /\ ApprovalsAreGrounded
    /\ WithdrawnIsUnusable
    /\ SelectionIsSeen
    /\ ReleaseIsOfEvidence

LEMMA InitInv == Init => LifecycleInv
<1>. SUFFICES ASSUME Init PROVE LifecycleInv
  OBVIOUS
<1>1. /\ evidence.obs = <<>> /\ evidence.sel = None
      /\ evidence.assessments = {} /\ evidence.reviews = {}
      /\ evidence.invalidated = {} /\ evidence.restored = {}
      /\ evidence \in Envelope
  BY EmptySeq DEF Init, EmptyEnvelope, Envelope
<1>2. Len(evidence.obs) = 0 /\ Positions(evidence) = {}
  BY <1>1 DEF Positions
<1>3. Sound(evidence)
  BY <1>1, <1>2 DEF Sound, Valid, Chains
<1>4. LifecycleTypeOK
  <2>1. \A i \in DOMAIN evidence.obs : evidence.obs[i].supersedes < i
    BY <1>1, <1>2, EnvelopeFields
  <2>2. clock \in 0..MaxTime /\ snapshots \in 0..MaxSnapshots
        /\ reviews \in 0..MaxReviews
    BY LifecycleAssumption DEF Init
  <2>. QED
    BY <1>1, <2>1, <2>2 DEF Init, LifecycleTypeOK
<1>. QED
  BY <1>1, <1>3, <1>4
     DEF Init, LifecycleInv, NormalizeIsNotRefused, ApprovalsAreGrounded,
         WithdrawnIsUnusable, SelectionIsSeen, ReleaseIsOfEvidence, Shows

\* New evidence that holds the old one.
LEMMA WriteKeeps ==
    ASSUME LifecycleInv, NEW f, Sound(f), Grows(evidence, f), Write(f),
           read \subseteq read'
    PROVE  /\ evidence' = f
           /\ WithdrawnIsUnusable'
           /\ \A a, reviewer : Grounded(a, reviewer) => Grounded(a, reviewer)'
<1>1. evidence' = f /\ evidence \in Envelope /\ f \in Envelope
  BY DEF Write, LifecycleInv, Sound
<1>2. WithdrawnIsUnusable'
  BY <1>1, UnusableGrows DEF LifecycleInv, WithdrawnIsUnusable, Write, Grows
<1>3. Positions(evidence) \subseteq Positions(evidence')
  BY <1>1, EnvelopeFields DEF Grows, Positions
<1>4. \A a, reviewer : Grounded(a, reviewer) => Grounded(a, reviewer)'
  BY <1>1, <1>3 DEF Grounded, Grows
<1>. QED
  BY <1>1, <1>2, <1>4

\* A change of the evidence that keeps its observations.
LEMMA EditKeeps ==
    ASSUME LifecycleInv, NEW f \in Envelope, Edit(f), f.obs = evidence.obs,
           Grows(evidence, f),
           f.sel # None => /\ evidence.sel # None
                           /\ f.sel.ingredient = evidence.sel.ingredient,
           \A v \in f.reviews : v.state = "approved" =>
               \/ v \in evidence.reviews
               \/ \E r \in results : /\ r.assessment = v.target
                                     /\ r.reviewer = v.reviewer,
           results' \subseteq results
    PROVE  LifecycleInv'
<1>1. /\ LifecycleTypeOK /\ Sound(evidence) /\ NormalizeIsNotRefused
      /\ ApprovalsAreGrounded /\ SelectionIsSeen
  BY DEF LifecycleInv
<1>2. /\ Valid(f) /\ Write(f) /\ release' = None
      /\ report' = report /\ version' = version /\ accepted' = accepted
      /\ clock' = clock /\ snapshots' = snapshots /\ reviews' = reviews
      /\ refused' = refused /\ seen' = seen /\ read' = read
  BY DEF Edit
<1>3. Sound(f)
  BY <1>1, <1>2 DEF Sound, Chains, Positions
<1>4. /\ evidence' = f
      /\ WithdrawnIsUnusable'
      /\ \A a, reviewer : Grounded(a, reviewer) => Grounded(a, reviewer)'
  BY <1>2, <1>3, WriteKeeps
<1>5. LifecycleTypeOK'
  BY <1>1, <1>2, <1>4 DEF LifecycleTypeOK
<1>6. ApprovalsAreGrounded'
  BY <1>1, <1>4 DEF ApprovalsAreGrounded
<1>7. SelectionIsSeen'
  BY <1>1, <1>2, <1>4 DEF SelectionIsSeen, Shows
<1>. QED
  BY <1>1, <1>2, <1>3, <1>4, <1>5, <1>6, <1>7
     DEF LifecycleInv, NormalizeIsNotRefused, ReleaseIsOfEvidence

LEMMA NormalizeStep ==
    ASSUME LifecycleInv, NEW s \in Snapshots, Normalize(s)
    PROVE  LifecycleInv'
<1>. DEFINE f == Normalized(evidence, s)
<1>1. /\ LifecycleTypeOK /\ Sound(evidence) /\ NormalizeIsNotRefused
      /\ ApprovalsAreGrounded /\ SelectionIsSeen /\ s \in Snapshot
  BY LifecycleAssumption DEF LifecycleInv
<1>2. Sound(f) /\ Grows(evidence, f)
  BY <1>1, NormalizedIsSound
<1>3. /\ f.reviews = evidence.reviews
      /\ s.kind = "record" => Shows(f, s.text)
      /\ s.kind \in {"no-ingredients", "absent"} => Shows(f, None)
      /\ s.kind = "unobserved" => f = evidence
  BY <1>1, NormalizedShows
<1>. HIDE DEF f
<1>4. /\ Write(f) /\ UNCHANGED <<refused, report, results, version, accepted,
                                 clock, reviews, read>>
      /\ release' = None
      /\ snapshots < MaxSnapshots /\ snapshots' = snapshots + 1
      /\ seen' = CASE s.kind = "record" -> s.text
                   [] s.kind = "unobserved" -> seen
                   [] OTHER -> None
  BY <1>2 DEF Normalize, Sound, f
<1>5. /\ evidence' = f
      /\ WithdrawnIsUnusable'
      /\ \A a, reviewer : Grounded(a, reviewer) => Grounded(a, reviewer)'
  BY <1>2, <1>4, WriteKeeps
<1>6. LifecycleTypeOK'
  <2>1. snapshots' \in 0..MaxSnapshots
    BY <1>1, <1>4, LifecycleAssumption DEF LifecycleTypeOK
  <2>2. /\ f \in Envelope
        /\ \A i \in DOMAIN f.obs : f.obs[i].supersedes < i
    BY <1>2, EnvelopeFields DEF Sound, Chains
  <2>. QED
    BY <1>1, <1>4, <1>5, <2>1, <2>2 DEF LifecycleTypeOK
<1>7. ApprovalsAreGrounded'
  BY <1>1, <1>3, <1>4, <1>5 DEF ApprovalsAreGrounded
<1>8. SelectionIsSeen'
  <2>1. s.kind \in {"record", "no-ingredients", "absent", "unobserved"}
    BY <1>1 DEF Snapshot
  <2>2. Shows(f, seen')
    BY <1>1, <1>3, <1>4, <2>1 DEF SelectionIsSeen
  <2>. QED
    BY <1>5, <2>2 DEF SelectionIsSeen, Shows
<1>. QED
  BY <1>1, <1>2, <1>4, <1>5, <1>6, <1>7, <1>8
     DEF LifecycleInv, NormalizeIsNotRefused, ReleaseIsOfEvidence

LEMMA AddResultStep ==
    ASSUME LifecycleInv, NEW r \in results, AddResult(r)
    PROVE  LifecycleInv'
<1>. DEFINE v == [target |-> r.assessment, state |-> "approved",
                  reviewer |-> r.reviewer]
            f == [evidence EXCEPT !.assessments = @ \cup {r.assessment},
                                  !.reviews = @ \cup {v}]
<1>1. evidence \in Envelope /\ r \in Result /\ Len(evidence.obs) \in Nat
  BY EnvelopeFields DEF LifecycleInv, Sound, LifecycleTypeOK
<1>2. v \in Review /\ r.assessment \in Assessment
  BY <1>1 DEF Result, Review
<1>3. /\ f.obs = evidence.obs /\ f.sel = evidence.sel
      /\ f.assessments = evidence.assessments \cup {r.assessment}
      /\ f.reviews = evidence.reviews \cup {v}
      /\ f.invalidated = evidence.invalidated
      /\ f.restored = evidence.restored
      /\ f \in Envelope
  <2>. HIDE DEF v
  <2>. QED
    BY <1>1, <1>2 DEF Envelope
<1>4. Edit(f) /\ results' \subseteq results
  BY DEF AddResult
<1>. HIDE DEF f
<1>5. Grows(evidence, f)
  BY <1>1, <1>3 DEF Grows
<1>. QED
  BY <1>3, <1>4, <1>5, EditKeeps

LEMMA AttachStep ==
    ASSUME LifecycleInv, NEW a \in evidence.assessments, Attach(a)
    PROVE  LifecycleInv'
<1>. DEFINE f == [evidence EXCEPT !.sel.assessment = a]
<1>1. /\ evidence \in Envelope /\ Len(evidence.obs) \in Nat
      /\ evidence.sel \in Selection /\ a \in Assessment
  BY EnvelopeFields DEF LifecycleInv, Sound, Attach
<1>2. [evidence.sel EXCEPT !.assessment = a] \in Selection
  BY <1>1 DEF Selection
<1>3. /\ f.obs = evidence.obs
      /\ f.sel = [evidence.sel EXCEPT !.assessment = a]
      /\ f.assessments = evidence.assessments
      /\ f.reviews = evidence.reviews
      /\ f.invalidated = evidence.invalidated
      /\ f.restored = evidence.restored
      /\ f \in Envelope
  BY <1>1, <1>2 DEF Envelope
<1>4. Edit(f) /\ results' = results /\ evidence.sel # None
  BY DEF Attach
<1>. HIDE DEF f
<1>5. Grows(evidence, f)
  BY <1>1, <1>3 DEF Grows
<1>6. f.sel.ingredient = evidence.sel.ingredient
  BY <1>1, <1>3 DEF Selection
<1>. QED
  BY <1>3, <1>4, <1>5, <1>6, EditKeeps

LEMMA RejectStep ==
    ASSUME LifecycleInv, NEW a \in evidence.assessments, Reject(a)
    PROVE  LifecycleInv'
<1>. DEFINE v == [target |-> a, state |-> "rejected", reviewer |-> None]
            sel == IF evidence.sel # None /\ evidence.sel.assessment = a
                     THEN [evidence.sel EXCEPT !.assessment = None]
                     ELSE evidence.sel
            f == [evidence EXCEPT !.reviews = @ \cup {v}, !.sel = sel]
<1>1. /\ evidence \in Envelope /\ Len(evidence.obs) \in Nat
      /\ evidence.sel \in Selection \cup {None} /\ a \in Assessment
  BY EnvelopeFields DEF LifecycleInv, Sound
<1>2. v \in Review
  BY <1>1 DEF Review
<1>3. /\ sel \in Selection \cup {None}
      /\ sel # None => /\ evidence.sel # None
                       /\ sel.ingredient = evidence.sel.ingredient
  BY <1>1 DEF Selection
<1>4. Edit(f) /\ results' = results
  BY DEF Reject
<1>5. /\ f.obs = evidence.obs /\ f.sel = sel
      /\ f.assessments = evidence.assessments
      /\ f.reviews = evidence.reviews \cup {v}
      /\ f.invalidated = evidence.invalidated
      /\ f.restored = evidence.restored
      /\ f \in Envelope
  <2>. HIDE DEF v, sel
  <2>. QED
    BY <1>1, <1>2, <1>3 DEF Envelope
<1>6. v.state # "approved"
  OBVIOUS
<1>. HIDE DEF f, v, sel
<1>7. Grows(evidence, f)
  BY <1>1, <1>5 DEF Grows
<1>. QED
  BY <1>3, <1>4, <1>5, <1>6, <1>7, EditKeeps

LEMMA SelectCertificatesStep ==
    ASSUME LifecycleInv, NEW certs \in SUBSET Certs, SelectCertificates(certs)
    PROVE  LifecycleInv'
<1>. DEFINE f == [evidence EXCEPT !.sel.certs = certs]
<1>1. /\ evidence \in Envelope /\ Len(evidence.obs) \in Nat
      /\ evidence.sel \in Selection
  BY EnvelopeFields DEF LifecycleInv, Sound, SelectCertificates
<1>2. [evidence.sel EXCEPT !.certs = certs] \in Selection
  BY <1>1 DEF Selection
<1>3. /\ f.obs = evidence.obs
      /\ f.sel = [evidence.sel EXCEPT !.certs = certs]
      /\ f.assessments = evidence.assessments
      /\ f.reviews = evidence.reviews
      /\ f.invalidated = evidence.invalidated
      /\ f.restored = evidence.restored
      /\ f \in Envelope
  BY <1>1, <1>2 DEF Envelope
<1>4. Edit(f) /\ results' = results /\ evidence.sel # None
  BY DEF SelectCertificates
<1>. HIDE DEF f
<1>5. Grows(evidence, f)
  BY <1>1, <1>3 DEF Grows
<1>6. f.sel.ingredient = evidence.sel.ingredient
  BY <1>1, <1>3 DEF Selection
<1>. QED
  BY <1>3, <1>4, <1>5, <1>6, EditKeeps

LEMMA ApplyMigrationStep ==
    ASSUME LifecycleInv, ApplyMigration
    PROVE  LifecycleInv'
<1>. PICK invalidated \in
            AfterInvalidation(evidence, evidence.sel.assessment) :
       Edit([evidence EXCEPT !.invalidated = invalidated,
                             !.sel.assessment = None])
  BY DEF ApplyMigration
<1>. DEFINE sel == [evidence.sel EXCEPT !.assessment = None]
            f == [evidence EXCEPT !.invalidated = invalidated,
                                  !.sel.assessment = None]
<1>1. /\ evidence \in Envelope /\ Len(evidence.obs) \in Nat
      /\ evidence.sel \in Selection /\ evidence.sel # None
      /\ evidence.sel.assessment \in Assessment
  BY EnvelopeFields, SelectionFields
     DEF LifecycleInv, Sound, ApplyMigration
<1>2. sel \in Selection /\ sel.ingredient = evidence.sel.ingredient
  BY <1>1 DEF Selection
<1>3. Edit(f) /\ results' = results
  BY DEF ApplyMigration
<1>4. /\ evidence.invalidated \subseteq invalidated
      /\ invalidated \subseteq Assessment
  BY <1>1, EnvelopeFields DEF AfterInvalidation
<1>5. /\ f.obs = evidence.obs /\ f.sel = sel
      /\ f.assessments = evidence.assessments
      /\ f.reviews = evidence.reviews
      /\ f.invalidated = invalidated
      /\ f.restored = evidence.restored
      /\ f \in Envelope
  BY <1>1, <1>2, <1>4 DEF Envelope
<1>. HIDE DEF f, sel
<1>6. Grows(evidence, f)
  BY <1>1, <1>4, <1>5 DEF Grows
<1>. QED
  BY <1>1, <1>2, <1>3, <1>5, <1>6, EditKeeps

\* A restoration leaves invalid what it does not restore, and is recorded.
LEMMA RestoreStep ==
    ASSUME LifecycleInv, NEW a \in evidence.assessments, Restore(a)
    PROVE  LifecycleInv'
<1>. PICK invalidated \in AfterRestoration(evidence, a) :
       Edit([evidence EXCEPT !.invalidated = invalidated,
                             !.restored = @ \cup {a}])
  BY DEF Restore
<1>. DEFINE f == [evidence EXCEPT !.invalidated = invalidated,
                                  !.restored = @ \cup {a}]
<1>1. /\ evidence \in Envelope /\ Len(evidence.obs) \in Nat
      /\ a \in Assessment
  BY EnvelopeFields DEF LifecycleInv, Sound
<1>2. /\ invalidated \subseteq Assessment
      /\ evidence.invalidated \subseteq invalidated \cup {a}
      /\ evidence.restored \cup {a} \subseteq Assessment
  BY <1>1, EnvelopeFields DEF AfterRestoration
<1>3. /\ f.obs = evidence.obs /\ f.sel = evidence.sel
      /\ f.assessments = evidence.assessments
      /\ f.reviews = evidence.reviews
      /\ f.invalidated = invalidated
      /\ f.restored = evidence.restored \cup {a}
      /\ f \in Envelope
  BY <1>1, <1>2 DEF Envelope
<1>4. Edit(f) /\ results' = results
  BY DEF Restore
<1>. HIDE DEF f
<1>5. Grows(evidence, f)
  BY <1>1, <1>2, <1>3 DEF Grows
<1>. QED
  BY <1>3, <1>4, <1>5, EditKeeps

LEMMA AnalysisType ==
    ASSUME NEW e, Sound(e), NEW v \in Versions, NEW fresh \in Freshness
    PROVE  Analysis(e, v, fresh) \in Report
<1>1. Selected(e) \in Nat
  BY EnvelopeFields, SelectionFields DEF Sound, Selected
<1>2. (e.sel # None /\ e.sel.flagged) \in BOOLEAN
  OBVIOUS
<1>3. \A i, b : OpenQueues(e, i, v, fresh, b) \subseteq Queues
  BY DEF OpenQueues, Queues
<1>. QED
  BY <1>1, <1>2, <1>3 DEF Analysis, Report

\* Steps that leave evidence and approvals alone and make no release.
LEMMA OtherStep ==
    ASSUME LifecycleInv, LifecycleTypeOK', release' = None,
           UNCHANGED <<evidence, results, refused, history>>
    PROVE  LifecycleInv'
BY DEF LifecycleInv, NormalizeIsNotRefused, ApprovalsAreGrounded, Grounded,
       WithdrawnIsUnusable, SelectionIsSeen, Shows, ReleaseIsOfEvidence,
       Positions, history

\* A new result keeps the approvals grounded if its reviewer was shown a text
\* that is not prohibited.
LEMMA ResultKeeps ==
    ASSUME ApprovalsAreGrounded, NEW a, NEW who,
           evidence' = evidence, read \subseteq read',
           results' = results \cup {[assessment |-> a, reviewer |-> who]},
           a.status \in Positive =>
             /\ a.ingredient \in Positions(evidence)
             /\ <<who, evidence.obs[a.ingredient].text>> \in read'
             /\ evidence.obs[a.ingredient].text \notin Prohibited[a.version]
    PROVE  ApprovalsAreGrounded'
<1>1. Grounded(a, who)'
  BY DEF Grounded, Positions
<1>2. \A b, r : Grounded(b, r) => Grounded(b, r)'
  BY DEF Grounded, Positions
<1>. QED
  BY <1>1, <1>2 DEF ApprovalsAreGrounded

LEMMA ReviewStep ==
    ASSUME LifecycleInv, NEW reviewer \in Reviewers, NEW decision \in Decisions,
           NEW at \in 0..clock, ReviewReport(reviewer, decision, at)
    PROVE  LifecycleInv'
<1>. DEFINE eligible == EligibleCerts(evidence, accepted, at)
            made == ReviewedAssessment(report, decision, eligible, at)
            r == [assessment |-> made, reviewer |-> reviewer]
<1>1. /\ LifecycleTypeOK /\ Sound(evidence) /\ ApprovalsAreGrounded
      /\ evidence \in Envelope /\ Len(evidence.obs) \in Nat
      /\ report \in Report /\ decision \in Statuses
      /\ version \in Versions
      /\ at \in Nat
  BY EnvelopeFields, LifecycleAssumption
     DEF LifecycleInv, Sound, LifecycleTypeOK, ReviewReport
<1>2. /\ report = Analysis(evidence, version, report.fresh)
      /\ \E resolved \in ReviewInputs(report) :
            DecisionAllowed(evidence, report, decision, resolved, eligible)
      /\ results' = results \cup {r}
      /\ reviews < MaxReviews /\ reviews' = reviews + 1
      /\ report' = None /\ release' = None
      /\ read' = IF Selected(evidence) = 0 THEN read
                 ELSE read \cup
                    {<<reviewer, evidence.obs[Selected(evidence)].text>>}
      /\ UNCHANGED <<evidence, version, accepted, clock, snapshots, refused,
                     seen, withdrawn, onceInvalid>>
  BY DEF ReviewReport, ReportIsCurrent, PossibleDecisions
<1>3. r \in Result
  <2>1. eligible \subseteq Certs
    BY <1>1, SelectionFields DEF EligibleCerts
  <2>2. report.ingredient \in Nat /\ report.version \in Nat
    BY <1>1, MethodologyAssumption DEF Report
  <2>. QED
    BY <1>1, <2>1, <2>2 DEF ReviewedAssessment, Assessment, Result
<1>4. /\ made.status = decision /\ made.ingredient = report.ingredient
      /\ made.version = report.version
  BY DEF ReviewedAssessment
<1>5. /\ report.ingredient = Selected(evidence)
      /\ report.version = version
      /\ report.prohibited = (Selected(evidence) # 0 /\
           evidence.obs[Selected(evidence)].text \in Prohibited[version])
  BY <1>2 DEF Analysis
<1>. HIDE DEF r, made, eligible
<1>6. made.status \in Positive =>
        /\ made.ingredient \in Positions(evidence)
        /\ <<reviewer, evidence.obs[made.ingredient].text>> \in read'
        /\ evidence.obs[made.ingredient].text \notin Prohibited[made.version]
  <2>. SUFFICES ASSUME decision \in Positive
                PROVE  /\ Selected(evidence) \in Positions(evidence)
                       /\ <<reviewer, evidence.obs[Selected(evidence)].text>>
                             \in read'
                       /\ evidence.obs[Selected(evidence)].text
                             \notin Prohibited[version]
    BY <1>4, <1>5
  <2>1. Selected(evidence) # 0 /\ ~report.prohibited
    BY <1>2, <1>5 DEF DecisionAllowed, Positive
  <2>2. Selected(evidence) \in Positions(evidence)
    BY <1>1, <2>1, SelectionFields DEF Selected, Positions
  <2>. QED
    BY <1>2, <1>5, <2>1, <2>2
<1>7. read \subseteq read'
  BY <1>2
<1>8. ApprovalsAreGrounded'
  BY <1>1, <1>2, <1>6, <1>7, ResultKeeps DEF r
<1>9. LifecycleTypeOK'
  <2>1. reviews' \in 0..MaxReviews
    BY <1>1, <1>2, LifecycleAssumption DEF LifecycleTypeOK
  <2>. QED
    BY <1>1, <1>2, <1>3, <2>1 DEF LifecycleTypeOK
<1>. QED
  BY <1>2, <1>8, <1>9
     DEF LifecycleInv, NormalizeIsNotRefused, WithdrawnIsUnusable,
         SelectionIsSeen, Shows, ReleaseIsOfEvidence

LEMMA PublishStep ==
    ASSUME LifecycleInv, Publish
    PROVE  LifecycleInv'
<1>1. /\ LifecycleTypeOK /\ Sound(evidence) /\ evidence \in Envelope
      /\ Len(evidence.obs) \in Nat
  BY EnvelopeFields DEF LifecycleInv, Sound
<1>2. /\ QualityPasses(evidence, clock)
      /\ release' = [text |-> IF Selected(evidence) = 0 THEN None
                              ELSE evidence.obs[Selected(evidence)].text,
                     assessment |-> IF evidence.sel = None THEN None
                                    ELSE evidence.sel.assessment]
      /\ UNCHANGED <<evidence, report, results, version, accepted, clock,
                     snapshots, reviews, refused, seen, read, withdrawn,
                     onceInvalid>>
  BY DEF Publish, history
<1>3. release' \in Verdict
  <2>1. Selected(evidence) # 0 =>
          evidence.obs[Selected(evidence)].text \in Texts
    BY <1>1, SelectionFields, EnvelopeFields DEF Selected, Positions
  <2>2. evidence.sel # None =>
          evidence.sel.assessment \in Assessment \cup {None}
    BY <1>1, SelectionFields
  <2>. QED
    BY <1>2, <2>1, <2>2 DEF Verdict
<1>4. LifecycleTypeOK'
  BY <1>1, <1>2, <1>3 DEF LifecycleTypeOK
<1>5. ReleaseIsOfEvidence'
  BY <1>2 DEF ReleaseIsOfEvidence, QualityPasses, Selected, Conflict,
              ActiveTexts, Superseded, ApprovedReviewers, CertificateCurrent
<1>. QED
  BY <1>2, <1>4, <1>5
     DEF LifecycleInv, NormalizeIsNotRefused, ApprovalsAreGrounded, Grounded,
         WithdrawnIsUnusable, SelectionIsSeen, Shows, Positions

LEMMA AnalyzeStep ==
    ASSUME LifecycleInv, NEW fresh \in Freshness, Analyze(fresh)
    PROVE  LifecycleInv'
<1>1. LifecycleTypeOK /\ Sound(evidence)
  BY DEF LifecycleInv
<1>2. report' \in Report
  BY <1>1, AnalysisType DEF Analyze, LifecycleTypeOK
<1>3. LifecycleTypeOK'
  BY <1>1, <1>2 DEF LifecycleTypeOK, Analyze
<1>. QED
  BY <1>3, OtherStep DEF Analyze

LEMMA SurroundingsStep ==
    ASSUME LifecycleInv,
           \/ ChangeRegistry
           \/ \E v \in Versions : ChangeMethodology(v)
           \/ PassTime
    PROVE  LifecycleInv'
<1>1. LifecycleTypeOK
  BY DEF LifecycleInv
<1>2. clock' \in 0..MaxTime
  BY <1>1, LifecycleAssumption
     DEF LifecycleTypeOK, ChangeRegistry, ChangeMethodology, PassTime
<1>3. version' \in Versions /\ accepted' \in BOOLEAN
  BY <1>1 DEF LifecycleTypeOK, ChangeRegistry, ChangeMethodology, PassTime
<1>4. LifecycleTypeOK'
  BY <1>1, <1>2, <1>3
     DEF LifecycleTypeOK, ChangeRegistry, ChangeMethodology, PassTime
<1>. QED
  BY <1>4, OtherStep DEF ChangeRegistry, ChangeMethodology, PassTime

\* Every step keeps the invariant.
LEMMA NextKeeps == LifecycleInv /\ [Next]_vars => LifecycleInv'
<1>. SUFFICES ASSUME LifecycleInv, [Next]_vars
              PROVE  LifecycleInv'
  OBVIOUS
<1>1. ASSUME NEW s \in Snapshots, Normalize(s) PROVE LifecycleInv'
  BY <1>1, NormalizeStep
<1>2. ASSUME NEW fresh \in Freshness, Analyze(fresh) PROVE LifecycleInv'
  BY <1>2, AnalyzeStep
<1>3. ASSUME NEW reviewer \in Reviewers, NEW decision \in Decisions,
             NEW at \in 0..clock, ReviewReport(reviewer, decision, at)
      PROVE  LifecycleInv'
  BY <1>3, ReviewStep
<1>4. CASE Publish
  BY <1>4, PublishStep
<1>5. ASSUME NEW r \in results, AddResult(r) PROVE LifecycleInv'
  BY <1>5, AddResultStep
<1>6. ASSUME NEW a \in evidence.assessments, Attach(a) PROVE LifecycleInv'
  BY <1>6, AttachStep
<1>7. ASSUME NEW a \in evidence.assessments, Reject(a) PROVE LifecycleInv'
  BY <1>7, RejectStep
<1>8. ASSUME NEW certs \in SUBSET Certs, SelectCertificates(certs)
      PROVE  LifecycleInv'
  BY <1>8, SelectCertificatesStep
<1>9. CASE ApplyMigration
  BY <1>9, ApplyMigrationStep
<1>10. CASE \/ ChangeRegistry
            \/ \E v \in Versions : ChangeMethodology(v)
            \/ PassTime
  BY <1>10, SurroundingsStep
<1>11. ASSUME NEW a \in evidence.assessments, Restore(a)
       PROVE  LifecycleInv'
  BY <1>11, RestoreStep
<1>12. CASE UNCHANGED vars
  <2>1. /\ LifecycleTypeOK' /\ ApprovalsAreGrounded'
        /\ NormalizeIsNotRefused' /\ Sound(evidence)'
    BY <1>12 DEF vars, history, LifecycleInv, LifecycleTypeOK,
                 ApprovalsAreGrounded, Grounded, NormalizeIsNotRefused,
                 Positions
  <2>2. WithdrawnIsUnusable' /\ SelectionIsSeen'
    BY <1>12 DEF vars, history, LifecycleInv, WithdrawnIsUnusable,
                 SelectionIsSeen, Shows
  <2>3. ReleaseIsOfEvidence'
    BY <1>12 DEF vars, LifecycleInv, ReleaseIsOfEvidence
  <2>. QED
    BY <2>1, <2>2, <2>3 DEF LifecycleInv
<1>. QED
  BY <1>1, <1>2, <1>3, <1>4, <1>5, <1>6, <1>7, <1>8, <1>9, <1>10, <1>11, <1>12
     DEF Next

LEMMA Invariance == Spec => []LifecycleInv
BY InitInv, NextKeeps, PTL DEF Spec

-----------------------------------------------------------------------------
(* What follows. *)

\* Every variable keeps its type, whatever people put into valid evidence.
THEOREM LifecycleTypeCorrect == Spec => []LifecycleTypeOK
<1>1. LifecycleInv => LifecycleTypeOK
  BY DEF LifecycleInv
<1>. QED
  BY <1>1, Invariance, PTL

\* normalize_snapshot never ends in its own validate_envelope: what it writes
\* over valid evidence is valid, so no edit keeps later snapshots out.
THEOREM NormalizationNeverRefused == Spec => []NormalizeIsNotRefused
<1>1. LifecycleInv => NormalizeIsNotRefused
  BY DEF LifecycleInv
<1>. QED
  BY <1>1, Invariance, PTL

\* _ingredient_record never supersedes an observation twice, for any number
\* of snapshots and edits.
THEOREM SupersessionNeverForks == Spec => []SupersessionDoesNotFork
<1>1. LifecycleInv => SupersessionDoesNotFork
  BY EnvelopeFields DEF LifecycleInv, Sound, Chains, SupersessionDoesNotFork
<1>. QED
  BY <1>1, Invariance, PTL

\* What a released positive verdict is known to rest on.
LEMMA PositiveRelease ==
    ASSUME LifecycleInv, ReleasesPositive
    PROVE  LET a == evidence.sel.assessment
           IN  /\ release.assessment = a /\ a.status \in Positive
               /\ evidence.sel # None /\ a # None
               /\ ValidAssessment(evidence, a)
               /\ evidence.sel.ingredient \in Positions(evidence)
               /\ release.text = evidence.obs[evidence.sel.ingredient].text
               /\ ~Conflict(evidence)
               /\ Cardinality(ApprovedReviewers(evidence, a)) >= 2
               /\ \A who \in ApprovedReviewers(evidence, a) :
                     Grounded(a, who)
<1>. DEFINE a == evidence.sel.assessment
<1>1. /\ Sound(evidence) /\ ApprovalsAreGrounded /\ ReleaseIsOfEvidence
      /\ evidence \in Envelope /\ Len(evidence.obs) \in Nat
  BY EnvelopeFields DEF LifecycleInv, Sound
<1>2. /\ release # None /\ release.assessment # None
      /\ release.assessment.status \in Positive
  BY DEF ReleasesPositive
<1>3. /\ QualityPasses(evidence, clock)
      /\ release = [text |-> IF Selected(evidence) = 0 THEN None
                             ELSE evidence.obs[Selected(evidence)].text,
                    assessment |-> IF evidence.sel = None THEN None ELSE a]
  BY <1>1, <1>2 DEF ReleaseIsOfEvidence
<1>4. /\ evidence.sel # None /\ a # None /\ release.assessment = a
      /\ a.status \in Positive
  BY <1>2, <1>3
<1>5. ValidAssessment(evidence, a)
  BY <1>1, <1>4, SelectionFields
<1>6. \A who \in ApprovedReviewers(evidence, a) : Grounded(a, who)
  BY <1>1 DEF ApprovalsAreGrounded, ApprovedReviewers
<1>7. evidence.sel.ingredient # 0
  BY <1>4, <1>5 DEF ValidAssessment, Positive
<1>8. evidence.sel.ingredient \in Positions(evidence)
  BY <1>1, <1>4, <1>7, SelectionFields DEF Positions
<1>9. release.text = evidence.obs[evidence.sel.ingredient].text
  BY <1>3, <1>4, <1>7 DEF Selected
<1>10. /\ ~Conflict(evidence)
       /\ Cardinality(ApprovedReviewers(evidence, a)) >= 2
  BY <1>3, <1>4, <1>7 DEF QualityPasses
<1>. QED
  BY <1>4, <1>5, <1>6, <1>8, <1>9, <1>10

\* Two reviewers have approved it, in particular one.
LEMMA TwoApproved ==
    ASSUME NEW S, S \subseteq Reviewers, Cardinality(S) >= 2
    PROVE  S # {}
BY FS_EmptySet

\* The text next to a released positive verdict holds nothing prohibited by
\* the methodology version the verdict names: complete_review refused any
\* other report, and neither edits nor snapshots move a verdict to another
\* text.
THEOREM PositiveNeverProhibited == Spec => []PositiveIsNotProhibited
<1>1. LifecycleInv => PositiveIsNotProhibited
  <2>. SUFFICES ASSUME LifecycleInv, ReleasesPositive
                PROVE  release.text \notin Prohibited[release.assessment.version]
    BY DEF PositiveIsNotProhibited
  <2>. DEFINE a == evidence.sel.assessment
  <2>1. /\ release.assessment = a /\ a.status \in Positive
        /\ ValidAssessment(evidence, a)
        /\ release.text = evidence.obs[evidence.sel.ingredient].text
        /\ \A who \in ApprovedReviewers(evidence, a) : Grounded(a, who)
    BY PositiveRelease
  <2>2. PICK who \in ApprovedReviewers(evidence, a) : Grounded(a, who)
    BY <2>1 DEF ValidAssessment
  <2>. QED
    BY <2>1, <2>2 DEF Grounded, ValidAssessment
<1>. QED
  BY <1>1, Invariance, PTL

\* Two different people were shown the text a released positive verdict is
\* published with, for any number of reviewers and reviews.
THEOREM PositiveAlwaysReadTwice == Spec => []PositiveWasReadTwice
<1>1. LifecycleInv => PositiveWasReadTwice
  <2>. SUFFICES ASSUME LifecycleInv, ReleasesPositive
                PROVE  Cardinality({r \in Reviewers :
                                      <<r, release.text>> \in read}) >= 2
    BY DEF PositiveWasReadTwice
  <2>. DEFINE a == evidence.sel.assessment
              approved == ApprovedReviewers(evidence, a)
              readers == {r \in Reviewers : <<r, release.text>> \in read}
  <2>1. /\ a.status \in Positive /\ ValidAssessment(evidence, a)
        /\ release.text = evidence.obs[evidence.sel.ingredient].text
        /\ Cardinality(approved) >= 2
        /\ \A who \in approved : Grounded(a, who)
    BY PositiveRelease
  <2>2. approved \subseteq Reviewers
    BY EnvelopeFields DEF LifecycleInv, Sound, ApprovedReviewers, Review
  <2>3. approved \subseteq readers
    BY <2>1, <2>2 DEF Grounded, ValidAssessment
  <2>4. IsFiniteSet(readers)
    BY ReviewersAssumption, FS_Subset
  <2>. HIDE DEF approved, readers
  <2>5. /\ Cardinality(approved) <= Cardinality(readers)
        /\ Cardinality(approved) \in Nat /\ Cardinality(readers) \in Nat
    BY <2>3, <2>4, FS_Subset, FS_CardinalityType
  <2>6. Cardinality(readers) >= 2
    BY <2>1, <2>5
  <2>. QED
    BY <2>6 DEF readers
<1>. QED
  BY <1>1, Invariance, PTL

\* A set of at most one element is that element.
LEMMA AtMostOne ==
    ASSUME NEW S, IsFiniteSet(S), ~(Cardinality(S) > 1), NEW x \in S
    PROVE  S = {x}
<1>1. Cardinality(S) \in Nat
  BY FS_CardinalityType
<1>2. IsFiniteSet(S \ {x}) /\ Cardinality(S \ {x}) = Cardinality(S) - 1
  BY FS_RemoveElement
<1>3. Cardinality(S \ {x}) \in Nat
  BY <1>2, FS_CardinalityType
<1>4. Cardinality(S \ {x}) = 0
  BY <1>1, <1>2, <1>3
<1>5. S \ {x} = {}
  BY <1>2, <1>4, FS_EmptySet
<1>. QED
  BY <1>5

\* A released positive verdict stands next to the text the record last
\* showed, and no other text of the product is active.
THEOREM PositiveAlwaysAboutTheSeenText == Spec => []PositiveIsAboutTheSeenText
<1>1. LifecycleInv => PositiveIsAboutTheSeenText
  <2>. SUFFICES ASSUME LifecycleInv, ReleasesPositive
                PROVE  release.text = seen /\ ActiveTexts(evidence) = {seen}
    BY DEF PositiveIsAboutTheSeenText
  <2>. DEFINE i == evidence.sel.ingredient
  <2>1. /\ evidence.sel # None /\ i \in Positions(evidence)
        /\ release.text = evidence.obs[i].text /\ ~Conflict(evidence)
    BY PositiveRelease
  <2>2. /\ evidence \in Envelope /\ Sound(evidence)
        /\ DOMAIN evidence.obs = Positions(evidence)
        /\ Len(evidence.obs) \in Nat
    BY EnvelopeFields DEF LifecycleInv, Sound
  <2>3. i # 0 /\ i \notin Superseded(evidence)
    BY <2>1, <2>2, SelectionFields DEF Positions
  <2>4. release.text = seen
    BY <2>1, <2>3 DEF LifecycleInv, SelectionIsSeen, Shows
  <2>5. seen \in ActiveTexts(evidence)
    BY <2>1, <2>2, <2>3, <2>4 DEF ActiveTexts
  <2>6. IsFiniteSet(ActiveTexts(evidence))
    <3>. DEFINE live == DOMAIN evidence.obs \ Superseded(evidence)
    <3>1. IsFiniteSet(Positions(evidence))
      BY <2>2, FS_Interval DEF Positions
    <3>2. IsFiniteSet(live)
      BY <2>2, <3>1, FS_Subset
    <3>. DEFINE text == [k \in live |-> evidence.obs[k].text]
    <3>3. ActiveTexts(evidence) = {text[k] : k \in live}
      BY DEF ActiveTexts
    <3>4. IsFiniteSet({text[k] : k \in live})
      <4>. DEFINE T == {text[k] : k \in live}
      <4>1. text \in Surjection(live, T)
        BY DEF Surjection
      <4>. HIDE DEF live, text, T
      <4>. QED
        BY <3>2, <4>1, FS_Surjection DEF T
    <3>. QED
      BY <3>3, <3>4
  <2>. QED
    BY <2>1, <2>4, <2>5, <2>6, AtMostOne DEF Conflict
<1>. QED
  BY <1>1, Invariance, PTL

\* Once rejected or overtaken by another text an assessment is in no release,
\* and once invalidated in none unless it was restored, in whatever order
\* events, edits and snapshots follow and whatever dates the events have.
THEOREM WithdrawnNeverReleased == Spec => []WithdrawnStaysWithdrawn
<1>1. LifecycleInv => WithdrawnStaysWithdrawn
  <2>. SUFFICES ASSUME LifecycleInv, release # None,
                       release.assessment \in withdrawn \cup onceInvalid
                PROVE  /\ release.assessment \notin withdrawn
                       /\ release.assessment \in evidence.restored
    BY DEF WithdrawnStaysWithdrawn
  <2>. DEFINE a == release.assessment
  <2>1. /\ Sound(evidence) /\ evidence \in Envelope
        /\ a \in withdrawn => a \in Unusable(evidence)
        /\ a \in onceInvalid => a \in evidence.invalidated \cup evidence.restored
    BY DEF LifecycleInv, Sound, WithdrawnIsUnusable
  <2>2. a \in Assessment /\ a # None
    BY <2>1, EnvelopeFields, NoneAssumption DEF Unusable
  <2>3. evidence.sel # None /\ a = evidence.sel.assessment
    BY <2>2 DEF LifecycleInv, ReleaseIsOfEvidence
  <2>4. /\ ValidAssessment(evidence, a)
        /\ evidence.sel.ingredient \notin Superseded(evidence)
    BY <2>1, <2>2, <2>3, SelectionFields
  <2>. QED
    BY <2>1, <2>4 DEF Unusable, ValidAssessment
<1>. QED
  BY <1>1, Invariance, PTL
=============================================================================
