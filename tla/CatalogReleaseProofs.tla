------------------------ MODULE CatalogReleaseProofs ------------------------
(***************************************************************************)
(* Proofs about the way of a catalog to its public release: the types, what *)
(* a stable module was made from, what retailer evidence may do, what a     *)
(* basic exclusion hides, and that a stable release stays.                  *)
(***************************************************************************)
EXTENDS CatalogRelease, TLAPS, FiniteSetTheorems, SequenceTheorems,
        WellFoundedInduction

-----------------------------------------------------------------------------
(* The inductive invariant, in one part for main, the runs, the release job,*)
(* its evidence and the publication.                                        *)

IsSequence(s) == Len(s) \in Nat /\ s = [i \in 1..Len(s) |-> s[i]]

\* A selection names retailer evidence of its product and of known sources.
SoundEnvelope(e) ==
    /\ e \in Envelopes
    /\ DOMAIN e.attached = e.selected
    /\ Attaches(e.attached, e.offers, DOMAIN e.sources)

SoundLogical(logical) ==
    /\ logical \in Logicals
    /\ DOMAIN logical.attached = logical.products
    /\ Attaches(logical.attached, Offers, DOMAIN logical.sources)

SoundReceipt(receipt) ==
    /\ receipt.version \in Versions
    /\ SoundLogical(receipt.logical)
    /\ receipt.inputs["quality"].payload \in Reports

SoundTree(tree) ==
    /\ DOMAIN tree = {"receipt", "bundle", "rights", "quality", "active", "revoked"}
    /\ tree.rights \in Nat /\ tree.quality \in Nat
    /\ tree.active \in BOOLEAN /\ tree.revoked \subseteq Versions
    /\ tree.receipt # None => SoundReceipt(tree.receipt)
    /\ tree.bundle # None =>
           tree.bundle \in SourceBundles /\ tree.bundle.version \in Versions

MainOK ==
    /\ IsSequence(commits) /\ Len(commits) \in 1..MaxCommits
    /\ \A c \in Commit : SoundTree(commits[c])
    /\ \A receipt \in pulls : SoundReceipt(receipt)

Candidates(input) == {Candidate(record) : record \in input.records}

\* From its composition to its proposal a run has the evidence and the
\* exclusions of what was delivered to it.
Composed(run) ==
    LET merged == run.artifacts["evidence"].payload
        candidates == Candidates(run.delivered)
    IN  /\ run.delivered \in Inputs
        /\ SoundEnvelope(merged)
        /\ merged.sources \in [{"off", "op"} -> Nat]
        /\ merged.selected = Selected(candidates)
        /\ run.artifacts["exclusions"].payload = Exclusions(candidates)

\* What the catalog of a run excludes is what its selection called basic, and
\* nothing the selection included.
Excludes(run) ==
    LET exclusions == run.artifacts["catalog"].payload.logical.exclusions
        candidates == Candidates(run.delivered)
    IN  /\ run.delivered \in Inputs
        /\ exclusions = Exclusions(candidates)
        /\ exclusions \cap Selected(candidates) = {}

SoundRun(run, head) ==
    /\ DOMAIN run = {"base", "version", "snapshot", "attempt", "phase",
                     "artifacts", "delivered", "primary", "retailer"}
    /\ DOMAIN run.artifacts = {"evidence", "exclusions", "quality", "catalog"}
    /\ run.base \in 1..head /\ run.version \in Versions
    /\ run.snapshot \in Snapshots /\ run.attempt \in Nat
    /\ run.artifacts["evidence"] # None =>
           /\ SoundEnvelope(run.artifacts["evidence"].payload)
           /\ run.artifacts["evidence"].payload.selected = run.primary.selected
    /\ run.phase \in {"quality", "build", "propose"} => Composed(run)
    /\ run.phase \in {"build", "propose"} =>
           run.artifacts["quality"].payload \in Reports
    /\ run.phase = "propose" =>
           /\ run.artifacts["catalog"].payload.version \in Versions
           /\ SoundLogical(run.artifacts["catalog"].payload.logical)
    /\ run.phase \in {"propose", "proposed"} /\ run.artifacts["catalog"] # None =>
           Excludes(run)

RunsOK ==
    /\ IsSequence(runs) /\ Len(runs) \in 0..MaxRuns
    /\ \A r \in DOMAIN runs : SoundRun(runs[r], Len(commits))

JobOK ==
    job # None =>
        /\ DOMAIN job = {"commit", "got"}
        /\ job.commit \in Commit
        /\ IsSequence(job.got) /\ Len(job.got) \in 0..3

\* The catalog that a reviewer of this tree accepted.
FromReview(tree, catalog) ==
    /\ catalog.version \in Versions
    /\ SoundLogical(catalog.logical)
    /\ catalog.logical.rights = tree.rights
    /\ IF tree.receipt # None
       THEN /\ catalog.version = tree.receipt.version
            /\ catalog.logical = tree.receipt.logical
            /\ catalog.report = tree.receipt.inputs["quality"].payload
       ELSE /\ tree.bundle # None /\ catalog.version = tree.bundle.version
            /\ catalog.logical.products = {row.gtin : row \in Rows(tree.bundle)}

EvidenceOK ==
    /\ evidence \in [1..MaxCommits -> Catalogs \cup {None}]
    /\ \A c \in 1..MaxCommits : evidence[c] # None =>
           /\ c \in Commit /\ evidence[c].commit = c
           /\ FromReview(commits[c], evidence[c])

\* A module of the evidence of a commit that this commit admits.
Admitted(trees, m) ==
    /\ m \in Modules /\ m.commit \in DOMAIN trees
    /\ m.catalog.version = m.version
    /\ Trusted(m, trees[m.commit])
    /\ FromReview(trees[m.commit], m.catalog)

JobsOK ==
    /\ dispatches \in 0..MaxDispatches
    /\ {publisher, pending} \subseteq PublishJobs \cup {None}
    /\ pending # None =>
           /\ publisher # None /\ pending.phase = "waiting"
           /\ pending.commit \in Commit /\ ~pending.created
    /\ publisher # None =>
           /\ publisher.commit \in Commit
           /\ publisher.phase # "waiting" =>
                  publisher.module # None /\ Admitted(commits, publisher.module)
           /\ publisher.created <=>
                  publisher.phase \in {"created", "verified", "cleanup"}

\* Who may clean up has a version nobody was served, or one with a lost answer.
CleanUpIsSafe ==
    publisher # None /\ publisher.created =>
        served[Version] = {} \/ Version \in lost

PublicOK ==
    /\ releases \in [Versions -> Releases \cup {None}]
    /\ \A v \in Versions : releases[v] # None =>
           /\ releases[v].module.version = v
           /\ Admitted(commits, releases[v].module)
    /\ served \in [Versions -> SUBSET Modules]
    /\ \A v \in Versions : \A m \in served[v] :
           m.version = v /\ Admitted(commits, m)
    /\ lost \subseteq Versions

IInv ==
    /\ MainOK /\ RunsOK /\ JobOK /\ EvidenceOK
    /\ JobsOK /\ PublicOK /\ CleanUpIsSafe /\ StableIsKept

-----------------------------------------------------------------------------
(* Sequences that grow and sequences that are updated.                      *)

LEMMA SequenceShape ==
    ASSUME NEW s, IsSequence(s)
    PROVE  /\ Len(s) \in Nat /\ DOMAIN s = 1..Len(s)
           /\ \A e : s \in Seq({s[i] : i \in 1..Len(s)} \cup {e})
<1>1. Len(s) \in Nat /\ s = [i \in 1..Len(s) |-> s[i]]
  BY DEF IsSequence
<1>2. DOMAIN s = 1..Len(s)
  BY <1>1
<1>3. ASSUME NEW e
      PROVE  s \in Seq({s[i] : i \in 1..Len(s)} \cup {e})
  <2>. DEFINE S == {s[i] : i \in 1..Len(s)} \cup {e}
  <2>1. s \in [1..Len(s) -> S]
    BY <1>1
  <2>. HIDE DEF S
  <2>2. s \in Seq(S)
    BY <1>1, <2>1, SeqDef
  <2>. QED
    BY <2>2 DEF S
<1>. QED
  BY <1>1, <1>2, <1>3

LEMMA Appended ==
    ASSUME NEW s, IsSequence(s), NEW e
    PROVE  /\ IsSequence(Append(s, e))
           /\ Len(Append(s, e)) = Len(s) + 1
           /\ DOMAIN Append(s, e) = 1..(Len(s) + 1)
           /\ \A i \in 1..Len(s) : Append(s, e)[i] = s[i]
           /\ Append(s, e)[Len(s) + 1] = e
<1>. DEFINE S == {s[i] : i \in 1..Len(s)} \cup {e}
<1>1. s \in Seq(S) /\ e \in S /\ Len(s) \in Nat
  BY SequenceShape
<1>2. /\ Append(s, e) \in Seq(S)
      /\ Len(Append(s, e)) = Len(s) + 1
      /\ \A i \in 1..Len(s) : Append(s, e)[i] = s[i]
      /\ Append(s, e)[Len(s) + 1] = e
  <2>. HIDE DEF S
  <2>. QED
    BY <1>1, AppendProperties
<1>3. Append(s, e) = [i \in 1..Len(Append(s, e)) |-> Append(s, e)[i]]
  <2>. HIDE DEF S
  <2>. QED
    BY <1>2, LenProperties
<1>. QED
  BY <1>1, <1>2, <1>3 DEF IsSequence

LEMMA Updated ==
    ASSUME NEW s, IsSequence(s), NEW n \in DOMAIN s, NEW e
    PROVE  /\ IsSequence([s EXCEPT ![n] = e])
           /\ Len([s EXCEPT ![n] = e]) = Len(s)
           /\ DOMAIN [s EXCEPT ![n] = e] = DOMAIN s
           /\ [s EXCEPT ![n] = e][n] = e
           /\ \A i \in DOMAIN s \ {n} : [s EXCEPT ![n] = e][i] = s[i]
<1>. DEFINE S == {s[i] : i \in 1..Len(s)} \cup {e}
            t == [s EXCEPT ![n] = e]
<1>1. /\ s \in Seq(S) /\ e \in S /\ Len(s) \in Nat /\ DOMAIN s = 1..Len(s)
      /\ s = [i \in 1..Len(s) |-> s[i]]
  BY SequenceShape DEF IsSequence
<1>2. s \in [1..Len(s) -> S]
  BY <1>1
<1>3. t \in [1..Len(s) -> S] /\ t = [i \in 1..Len(s) |-> t[i]]
  <2>. HIDE DEF S
  <2>. QED
    BY <1>1, <1>2
<1>4. t \in Seq(S) /\ Len(t) = Len(s)
  <2>. HIDE DEF S, t
  <2>. QED
    BY <1>1, <1>3, SeqDef, LenProperties
<1>. QED
  BY <1>1, <1>3, <1>4 DEF IsSequence

-----------------------------------------------------------------------------
(* Selection and normalisation.                                             *)

\* The three outcomes of a decision.
LEMMA Decisions ==
    ASSUME NEW c
    PROVE  /\ Decision(c) = "include-detailed" => ~Unusable(c)
           /\ Decision(c) = "exclude-basic" => ~Unusable(c)
           /\ ~Unusable(c) /\ Signalled(c) => Decision(c) = "include-detailed"
<1>1. CASE Unusable(c)
  BY <1>1 DEF Decision
<1>2. CASE ~Unusable(c) /\ Signalled(c)
  BY <1>2 DEF Decision
<1>3. CASE ~Unusable(c) /\ ~Signalled(c) /\ IsBasic(c)
  BY <1>3 DEF Decision
<1>4. CASE ~Unusable(c) /\ ~Signalled(c) /\ ~IsBasic(c)
  BY <1>4 DEF Decision
<1>. QED
  BY <1>1, <1>2, <1>3, <1>4

\* What is delivered and usable is a product with a number for an id, and its
\* retailer records are known.
LEMMA DeliveredCandidates ==
    ASSUME NEW input \in Inputs
    PROVE  /\ IsFiniteSet(Candidates(input))
           /\ \A c \in Candidates(input) : c.id \in Nat
           /\ \A c \in Candidates(input) : ~Unusable(c) =>
                  Gtin(c.code) \in Products /\ RetailerRecords(c) \subseteq Offers
<1>1. IsFiniteSet(Candidates(input))
  <2>. DEFINE project == [record \in input.records |-> Candidate(record)]
  <2>1. IsFiniteSet(input.records)
    BY ReleaseAssumption
  <2>2. /\ project \in [input.records -> Candidates(input)]
        /\ \A c \in Candidates(input) : \E record \in input.records : project[record] = c
    BY DEF Candidates
  <2>3. project \in Surjection(input.records, Candidates(input))
    <3>. HIDE DEF project
    <3>. QED
      BY <2>2 DEF Surjection
  <2>. HIDE DEF project
  <2>. QED
    BY <2>1, <2>3, FS_Surjection
<1>2. ASSUME NEW c \in Candidates(input)
      PROVE  /\ c.id \in Nat
             /\ ~Unusable(c) =>
                  Gtin(c.code) \in Products /\ RetailerRecords(c) \subseteq Offers
  <2>1. PICK record \in input.records : c = Candidate(record)
    BY DEF Candidates
  <2>2. Deliverable(record)
    BY ReleaseAssumption
  <2>3. c.id = record.id /\ c.code = record.code
    BY <2>1 DEF Candidate
  <2>4. ~Unusable(c) => Gtin(c.code) # None
    BY DEF Unusable
  <2>. QED
    BY <2>1, <2>2, <2>3, <2>4 DEF Deliverable
<1>. QED
  BY <1>1, <1>2

\* The elements of S that f puts above s.
Over(S, f, s) == {t \in S : f[t] > f[s]}

\* A finite set has an element that f puts above all others: of the sets
\* Over(S, f, s) one has no other below it.
LEMMA GreatestElement ==
    ASSUME NEW S, IsFiniteSet(S), S # {}, NEW f \in [S -> Nat]
    PROVE  \E s \in S : \A t \in S : f[t] <= f[s]
<1>. DEFINE family == {Over(S, f, s) : s \in S}
<1>1. family \subseteq FiniteSubsetsOf(S) /\ family # {}
  <2>1. FiniteSubsetsOf(S) = SUBSET S
    BY FS_FiniteSubsetsOfFinite
  <2>2. \A s \in S : Over(S, f, s) \subseteq S
    BY DEF Over
  <2>. QED
    BY <2>1, <2>2
<1>2. PICK A \in family : \A B \in family : <<B, A>> \notin StrictSubsetOrdering(S)
  <2>. HIDE DEF family
  <2>. QED
    BY <1>1, FS_StrictSubsetOrderingWellFounded, WFMin
<1>3. PICK s \in S : A = Over(S, f, s)
  BY <1>2
<1>4. ASSUME NEW t \in S, ~(f[t] <= f[s])
      PROVE  FALSE
  <2>1. f[t] \in Nat /\ f[s] \in Nat /\ f[t] > f[s]
    BY <1>4
  <2>2. t \in Over(S, f, s) /\ t \notin Over(S, f, t)
    BY <2>1 DEF Over
  <2>3. ASSUME NEW u \in Over(S, f, t)
        PROVE  u \in Over(S, f, s)
    <3>1. u \in S /\ f[u] \in Nat /\ f[u] > f[t]
      BY <2>3 DEF Over
    <3>. QED
      BY <2>1, <3>1 DEF Over
  <2>4. <<Over(S, f, t), A>> \in StrictSubsetOrdering(S)
    BY <1>3, <2>2, <2>3 DEF StrictSubsetOrdering, Over
  <2>. QED
    BY <1>2, <2>4
<1>. QED
  BY <1>4

\* The record that a selection names is one the engine included.
LEMMA NamedIsIncluded ==
    ASSUME NEW input \in Inputs, NEW p \in Selected(Candidates(input))
    PROVE  /\ Named(Candidates(input), p)
                  \in Decided(Candidates(input), "include-detailed")
           /\ Gtin(Named(Candidates(input), p).code) = p
<1>. DEFINE candidates == Candidates(input)
            included == {c \in Decided(candidates, "include-detailed") :
                            Gtin(c.code) = p}
            id == [c \in included |-> c.id]
<1>1. included # {}
  BY DEF Selected
<1>2. included \subseteq candidates /\ IsFiniteSet(included)
  BY DeliveredCandidates, FS_Subset DEF Decided
<1>3. id \in [included -> Nat]
  BY <1>2, DeliveredCandidates
<1>4. PICK c \in included : \A d \in included : id[d] <= id[c]
  <2>. HIDE DEF included, id
  <2>. QED
    BY <1>1, <1>2, <1>3, GreatestElement
<1>5. \E e \in included : \A d \in included : d.id <= e.id
  BY <1>4
<1>6. Named(candidates, p) = CHOOSE e \in included : \A d \in included : d.id <= e.id
  BY DEF Named
<1>7. Named(candidates, p) \in included
  <2>. HIDE DEF included
  <2>. QED
    BY <1>5, <1>6
<1>. QED
  BY <1>7

LEMMA NormalizedIsSound ==
    ASSUME NEW input \in Inputs, NEW snapshot \in Nat
    PROVE  /\ SoundEnvelope(NormalizedSnapshot(Candidates(input), snapshot))
           /\ NormalizedSnapshot(Candidates(input), snapshot).sources
                  \in [{"off"} -> Nat]
           /\ NormalizedSnapshot(Candidates(input), snapshot).selected
                  = Selected(Candidates(input))
           /\ Exclusions(Candidates(input)) \in SUBSET Products
<1>. DEFINE candidates == Candidates(input)
            included == Decided(candidates, "include-detailed")
            e == NormalizedSnapshot(candidates, snapshot)
            offers == UNION {RetailerRecords(c) : c \in included}
            attached == [p \in Selected(candidates) |-> Named(candidates, p).shops]
<1>1. \A c \in included : c \in candidates /\ ~Unusable(c)
  BY Decisions DEF Decided
<1>2. \A c \in included : Gtin(c.code) \in Products /\ RetailerRecords(c) \subseteq Offers
  BY <1>1, DeliveredCandidates
<1>3. Selected(candidates) \in SUBSET Products /\ offers \in SUBSET Offers
  BY <1>2 DEF Selected
<1>4. Exclusions(candidates) \in SUBSET Products
  BY Decisions, DeliveredCandidates DEF Exclusions, Decided
<1>5. ASSUME NEW p \in Selected(candidates), NEW id \in attached[p]
      PROVE  \E o \in offers : o.id = id /\ o.product = p /\ o.source = "off"
  <2>1. Named(candidates, p) \in included /\ Gtin(Named(candidates, p).code) = p
    BY NamedIsIncluded
  <2>2. [id |-> id, source |-> "off", product |-> p]
            \in RetailerRecords(Named(candidates, p))
    BY <1>5, <2>1 DEF RetailerRecords
  <2>3. [id |-> id, source |-> "off", product |-> p] \in offers
    BY <2>1, <2>2
  <2>. QED
    BY <2>3
<1>6. attached \in [Selected(candidates) -> SUBSET {o.id : o \in Offers}]
  <2>. SUFFICES ASSUME NEW p \in Selected(candidates), NEW id \in attached[p]
                PROVE  id \in {o.id : o \in Offers}
    OBVIOUS
  <2>. QED
    BY <1>3, <1>5
<1>7. attached \in Attachments
  BY <1>3, <1>6 DEF Attachments
<1>8. /\ e.sources = [s \in {"off"} |-> snapshot] /\ e.selected = Selected(candidates)
      /\ e.offers = offers /\ e.attached = attached
      /\ e = [sources |-> e.sources, selected |-> e.selected,
              offers |-> e.offers, attached |-> e.attached]
  BY DEF NormalizedSnapshot
<1>9. e.sources \in [{"off"} -> Nat] /\ DOMAIN e.sources = {"off"}
  BY <1>8
<1>10. e \in Envelopes
  <2>. HIDE DEF e, attached, offers
  <2>. QED
    BY <1>3, <1>7, <1>8, <1>9 DEF Envelopes, SourceSets
<1>11. Attaches(e.attached, e.offers, DOMAIN e.sources)
  <2>1. DOMAIN e.attached = Selected(candidates)
    BY <1>8
  <2>. HIDE DEF e, attached, offers
  <2>. QED
    BY <1>5, <1>8, <1>9, <2>1 DEF Attaches
<1>. QED
  BY <1>4, <1>8, <1>9, <1>10, <1>11 DEF SoundEnvelope

-----------------------------------------------------------------------------
(* Composition, quality and what a compiler shows of evidence.              *)

LEMMA SourcesKnown ==
    ASSUME NEW known \in SourceSets
    PROVE  /\ DOMAIN known \subseteq {"off", "op"}
           /\ \A s \in DOMAIN known : known[s] \in Nat
           /\ DOMAIN Registry = {"off", "op"}
BY DEF SourceSets, Registry

LEMMA OffersAreRecords ==
    ASSUME NEW o \in Offers
    PROVE  o.id \in Nat /\ o.product \in Nat /\ o.source \in {"off", "op"}
BY BuildAssumption

\* The retailer's evidence joins selections that stay as they are.
LEMMA MergeIsSound ==
    ASSUME NEW primary, SoundEnvelope(primary),
           primary.sources \in [{"off"} -> Nat],
           NEW retailer, retailer.sources["op"] \in Nat,
           retailer.offers \in SUBSET Offers
    PROVE  /\ SoundEnvelope(MergeEvidence(primary, retailer))
           /\ MergeEvidence(primary, retailer).sources \in [{"off", "op"} -> Nat]
           /\ MergeEvidence(primary, retailer).selected = primary.selected
<1>. DEFINE merged == MergeEvidence(primary, retailer)
            matched == Matched(primary, retailer)
            attached == [p \in primary.selected |->
                            primary.attached[p] \cup
                            {o.id : o \in {x \in matched : x.product = p}}]
<1>1. /\ primary \in Envelopes /\ DOMAIN primary.attached = primary.selected
      /\ Attaches(primary.attached, primary.offers, DOMAIN primary.sources)
  BY DEF SoundEnvelope
<1>2. /\ primary.selected \in SUBSET Products
      /\ primary.offers \in SUBSET Offers /\ primary.attached \in Attachments
  BY <1>1 DEF Envelopes
<1>4. matched \in SUBSET Offers
  BY DEF Matched
<1>5. /\ merged.selected = primary.selected
      /\ merged.offers = primary.offers \cup matched
      /\ merged.attached = attached
      /\ merged.sources = [s \in DOMAIN primary.sources \cup {"op"} |->
                              IF s = "op" THEN retailer.sources["op"]
                              ELSE primary.sources[s]]
      /\ merged = [sources |-> merged.sources, selected |-> merged.selected,
                   offers |-> merged.offers, attached |-> merged.attached]
  BY DEF MergeEvidence
<1>6. merged.sources \in [{"off", "op"} -> Nat]
  <2>1. DOMAIN primary.sources = {"off"}
    OBVIOUS
  <2>2. primary.sources["off"] \in Nat
    OBVIOUS
  <2>3. DOMAIN primary.sources \cup {"op"} = {"off", "op"}
    BY <2>1
  <2>. HIDE DEF merged
  <2>. QED
    BY <1>5, <2>1, <2>2, <2>3
<1>7. ASSUME NEW p \in primary.selected, NEW id \in attached[p]
      PROVE  \E o \in primary.offers \cup matched :
                 o \in Offers /\ o.id = id /\ o.product = p /\ o.source \in {"off", "op"}
  <2>1. CASE id \in primary.attached[p]
    <3>1. \E o \in primary.offers :
              o.id = id /\ o.product = p /\ o.source \in DOMAIN primary.sources
      BY <1>1, <2>1 DEF Attaches
    <3>2. DOMAIN primary.sources = {"off"}
      OBVIOUS
    <3>. QED
      BY <1>2, <3>1, <3>2
  <2>2. CASE id \in {o.id : o \in {x \in matched : x.product = p}}
    <3>1. PICK o \in matched : o.product = p /\ o.id = id
      BY <2>2
    <3>. QED
      BY <1>4, <3>1, OffersAreRecords
  <2>. QED
    BY <1>7, <2>1, <2>2
<1>8. attached \in Attachments
  <2>1. \A p \in primary.selected : attached[p] \in SUBSET {o.id : o \in Offers}
    <3>. HIDE DEF attached, matched
    <3>. QED
      BY <1>7
  <2>2. attached \in [primary.selected -> SUBSET {o.id : o \in Offers}]
    BY <2>1
  <2>. QED
    BY <1>2, <2>2 DEF Attachments
<1>9. merged \in Envelopes
  <2>. HIDE DEF merged, matched, attached
  <2>. QED
    BY <1>2, <1>4, <1>5, <1>6, <1>8 DEF Envelopes, SourceSets
<1>10. DOMAIN merged.attached = merged.selected /\ DOMAIN merged.sources = {"off", "op"}
  <2>1. DOMAIN attached = primary.selected
    OBVIOUS
  <2>. HIDE DEF merged, attached
  <2>. QED
    BY <1>5, <1>6, <2>1
<1>11. Attaches(merged.attached, merged.offers, DOMAIN merged.sources)
  <2>. HIDE DEF merged, matched, attached
  <2>. QED
    BY <1>5, <1>7, <1>10 DEF Attaches
<1>. QED
  BY <1>5, <1>6, <1>9, <1>10, <1>11 DEF SoundEnvelope

LEMMA ReportIsTyped ==
    ASSUME NEW e \in Envelopes, NEW source \in DOMAIN e.sources,
           NEW policy \in Nat, NEW at \in Nat, NEW passes \in BOOLEAN
    PROVE  Report(e, source, policy, at, passes) \in Reports
<1>1. e.sources \in SourceSets /\ e.selected \subseteq Products /\ e.offers \subseteq Offers
  BY DEF Envelopes
<1>2. source \in DOMAIN Registry /\ e.sources[source] \in Nat
  BY <1>1, SourcesKnown
<1>3. Cardinality(e.selected) \in Nat /\ Cardinality(e.offers) \in Nat
  BY <1>1, BuildAssumption, FS_Subset, FS_CardinalityType
<1>. QED
  BY <1>2, <1>3 DEF Report, Reports

LEMMA LogicalIsSound ==
    ASSUME NEW e, SoundEnvelope(e), NEW exclusions \in SUBSET Products,
           NEW report \in Reports, NEW rights \in Nat
    PROVE  SoundLogical(Logical(e, exclusions, report, rights))
<1>. DEFINE logical == Logical(e, exclusions, report, rights)
<1>1. e \in Envelopes /\ DOMAIN e.attached = e.selected
      /\ Attaches(e.attached, e.offers, DOMAIN e.sources)
  BY DEF SoundEnvelope
<1>2. /\ e.sources \in SourceSets /\ e.selected \in SUBSET Products
      /\ e.offers \in SUBSET Offers /\ e.attached \in Attachments
  BY <1>1 DEF Envelopes
<1>3. logical = [products |-> e.selected, attached |-> e.attached,
                 sources |-> e.sources, rights |-> rights,
                 freshness |-> report.at, exclusions |-> exclusions]
  BY DEF Logical
<1>4. report.at \in Nat
  BY DEF Reports
<1>5. logical \in Logicals
  BY <1>2, <1>3, <1>4 DEF Logicals
<1>6. Attaches(e.attached, Offers, DOMAIN e.sources)
  BY <1>1, <1>2 DEF Attaches
<1>. QED
  BY <1>1, <1>3, <1>5, <1>6 DEF SoundLogical

\* The rows of a valid source set are valid.
LEMMA RowsAreValid ==
    ASSUME NEW bundle \in SourceBundles, ValidShards(bundle),
           NEW row \in Rows(bundle)
    PROVE  /\ row.gtin \in Products
           /\ row.offer # None =>
                  /\ row.offer \in Offers /\ row.offer.product = row.gtin
                  /\ row.offer.source \in DOMAIN bundle.sources
<1>1. PICK b \in DOMAIN bundle.shards : row \in Range(bundle.shards[b])
  BY DEF Rows
<1>2. bundle.shards \in [Range(BucketOf) -> Seq(SourceRows)]
  BY DEF SourceBundles
<1>3. bundle.shards[b] \in Seq(SourceRows)
  BY <1>1, <1>2
<1>4. PICK i \in DOMAIN bundle.shards[b] : row = bundle.shards[b][i]
  BY <1>1 DEF Range
<1>5. ValidRow(row, b, DOMAIN bundle.sources)
  BY <1>1, <1>4 DEF ValidShards
<1>6. row \in SourceRows
  BY <1>3, <1>4, LenProperties, ElementOfSeq
<1>. QED
  BY <1>5, <1>6 DEF ValidRow, SourceRows

LEMMA BundleIsSound ==
    ASSUME NEW bundle \in SourceBundles, NEW rights, NEW quality,
           ValidBundle(bundle, rights, quality)
    PROVE  /\ SoundEnvelope(BundleEvidence(bundle))
           /\ BundleReport(bundle) \in Reports
           /\ BundleEvidence(bundle).selected = {row.gtin : row \in Rows(bundle)}
<1>. DEFINE e == BundleEvidence(bundle)
            selected == {row.gtin : row \in Rows(bundle)}
            offers == {row.offer : row \in {x \in Rows(bundle) : x.offer # None}}
            attached == [p \in selected |->
                            {o.id : o \in {x \in offers : x.product = p}}]
<1>1. ValidShards(bundle) /\ bundle.primary \in DOMAIN bundle.sources
  BY DEF ValidBundle
<1>2. /\ bundle.sources \in SourceSets /\ bundle.at \in Nat /\ bundle.quality \in Nat
  BY DEF SourceBundles
<1>3. selected \in SUBSET Products
  BY <1>1, RowsAreValid
<1>4. \A o \in offers : o \in Offers /\ o.source \in DOMAIN bundle.sources
  BY <1>1, RowsAreValid
<1>5. /\ e = [sources |-> bundle.sources, selected |-> selected,
              offers |-> offers, attached |-> attached]
  BY DEF BundleEvidence, Envelope
<1>6. /\ e.sources = bundle.sources /\ e.selected = selected
      /\ e.offers = offers /\ e.attached = attached
  BY <1>5
<1>7. attached \in Attachments
  <2>1. attached \in [selected -> SUBSET {o.id : o \in Offers}]
    <3>1. \A p \in selected : attached[p] \in SUBSET {o.id : o \in Offers}
      BY <1>4
    <3>. QED
      BY <3>1
  <2>. HIDE DEF attached, selected
  <2>. QED
    BY <1>3, <2>1 DEF Attachments
<1>8. e \in Envelopes
  <2>1. offers \in SUBSET Offers
    BY <1>4
  <2>. HIDE DEF e, attached, selected, offers
  <2>. QED
    BY <1>2, <1>3, <1>5, <1>7, <2>1 DEF Envelopes
<1>9. Attaches(attached, offers, DOMAIN bundle.sources)
  <2>1. \A p \in selected : \A id \in attached[p] :
            \E o \in offers : o.id = id /\ o.product = p
    OBVIOUS
  <2>2. DOMAIN attached = selected
    OBVIOUS
  <2>. HIDE DEF attached, selected, offers
  <2>. QED
    BY <1>4, <2>1, <2>2 DEF Attaches
<1>10. SoundEnvelope(e)
  <2>1. DOMAIN attached = selected
    OBVIOUS
  <2>. HIDE DEF e, attached, selected, offers
  <2>. QED
    BY <1>6, <1>8, <1>9, <2>1 DEF SoundEnvelope
<1>11. BundleReport(bundle) \in Reports
  <2>. HIDE DEF selected, offers, attached
  <2>1. bundle.primary \in DOMAIN BundleEvidence(bundle).sources
    BY <1>1, <1>6
  <2>2. BundleEvidence(bundle) \in Envelopes
    BY <1>8
  <2>. HIDE DEF e
  <2>. QED
    BY <1>2, <2>1, <2>2, ReportIsTyped DEF BundleReport
<1>. QED
  BY <1>6, <1>10, <1>11

\* What the compiler writes into a manifest, with its search index and its
\* release review.
LEMMA CatalogFields ==
    ASSUME NEW version, NEW commit, NEW e, NEW exclusions, NEW report, NEW rights
    PROVE  LET made == Catalog(version, commit, e, exclusions, report, rights)
           IN  /\ Indexed(made).index = e.selected
               /\ \A catalog \in {Indexed(made), WithReview(Indexed(made), report)} :
                      /\ catalog.version = version /\ catalog.commit = commit
                      /\ catalog.report = report
                      /\ catalog.logical = Logical(e, exclusions, report, rights)
               /\ Indexed(made).review = None
<1>. DEFINE made == Catalog(version, commit, e, exclusions, report, rights)
<1>1. Indexed(made) = [made EXCEPT !.index = made.logical.products]
  BY DEF Indexed, Catalog
<1>. QED
  BY <1>1 DEF Catalog, WithReview, Logical

LEMMA CatalogIsTyped ==
    ASSUME NEW version \in Nat, NEW commit \in Nat,
           NEW e, NEW exclusions, NEW report \in Reports, NEW rights,
           Logical(e, exclusions, report, rights) \in Logicals
    PROVE  LET made == Catalog(version, commit, e, exclusions, report, rights)
           IN  Indexed(made) \in Catalogs /\ WithReview(Indexed(made), report) \in Catalogs
<1>. DEFINE made == Catalog(version, commit, e, exclusions, report, rights)
<1>1. e.selected = Logical(e, exclusions, report, rights).products
  BY DEF Logical
<1>2. e.selected \in SUBSET Products
  BY <1>1 DEF Logicals
<1>3. [at |-> report.at, offers |-> report.offers] \in [at : Nat, offers : Nat]
  BY DEF Reports
<1>4. Indexed(made) = [version |-> version, commit |-> commit, report |-> report,
                       logical |-> Logical(e, exclusions, report, rights),
                       index |-> e.selected, review |-> None]
  <2>1. made.logical.products = e.selected
    BY DEF Catalog, Logical
  <2>. QED
    BY <2>1 DEF Indexed, Catalog
<1>5. WithReview(Indexed(made), report) =
          [version |-> version, commit |-> commit, report |-> report,
           logical |-> Logical(e, exclusions, report, rights),
           index |-> e.selected,
           review |-> [at |-> report.at, offers |-> report.offers]]
  BY <1>4 DEF WithReview
<1>. QED
  BY <1>2, <1>3, <1>4, <1>5 DEF Catalogs

-----------------------------------------------------------------------------
(* What a build makes of its inputs, and a release of what was reviewed.    *)

LEMMA KindsOfInput == DOMAIN KindOf = {"evidence", "quality", "exclusions"}
BY DEF KindOf

LEMMA BuiltFacts ==
    ASSUME NEW inputs, NEW request, Built(inputs, request) # None
    PROVE  LET merged == inputs["evidence"].payload
               exclusions == inputs["exclusions"].payload
               report == inputs["quality"].payload
               made == Indexed(Catalog(request.version, request.commit, merged,
                                       exclusions, report,
                                       commits[request.commit].rights))
           IN  /\ Built(inputs, request) = WithReview(made, report)
               /\ exclusions \cap merged.selected = {}
               /\ Binds(made, request.expected)
<1>. DEFINE payload == [i \in DOMAIN KindOf |-> inputs[i].payload]
            made == Indexed(Catalog(request.version, request.commit,
                                    payload["evidence"], payload["exclusions"],
                                    payload["quality"],
                                    commits[request.commit].rights))
<1>1. /\ payload["evidence"] = inputs["evidence"].payload
      /\ payload["exclusions"] = inputs["exclusions"].payload
      /\ payload["quality"] = inputs["quality"].payload
  BY KindsOfInput
<1>2. /\ Compiles(payload["evidence"], payload["exclusions"], payload["quality"],
                  commits[request.commit].quality, Range(request.policies))
      /\ Binds(made, request.expected)
      /\ Built(inputs, request) = WithReview(made, payload["quality"])
  BY DEF Built
<1>3. payload["exclusions"] \cap payload["evidence"].selected = {}
  BY <1>2 DEF Compiles
<1>. QED
  BY <1>1, <1>2, <1>3

\* A catalog made again of the inputs of a receipt is the one it proposed.
LEMMA RebuiltIsReviewed ==
    ASSUME MainOK, NEW c \in Commit, commits[c].receipt # None, NEW inputs,
           DOMAIN inputs = DOMAIN KindOf,
           Rebuilt(inputs, commits[c].receipt, c) # None
    PROVE  /\ Rebuilt(inputs, commits[c].receipt, c) \in Catalogs
           /\ Rebuilt(inputs, commits[c].receipt, c).commit = c
           /\ FromReview(commits[c], Rebuilt(inputs, commits[c].receipt, c))
<1>. DEFINE receipt == commits[c].receipt
            request == ReleaseRequest(receipt, c)
            catalog == Built(inputs, request)
            merged == inputs["evidence"].payload
            exclusions == inputs["exclusions"].payload
            report == inputs["quality"].payload
            rights == commits[c].rights
            made == Catalog(receipt.version, c, merged, exclusions, report, rights)
<1>1. /\ Rebuilt(inputs, receipt, c) = catalog /\ catalog # None
      /\ AreReviewed(inputs, receipt)
  <2>. HIDE DEF receipt
  <2>. QED
    BY DEF Rebuilt, receipt
<1>2. SoundTree(commits[c]) /\ SoundReceipt(receipt) /\ c \in Nat
  <2>1. DOMAIN commits = 1..Len(commits)
    BY SequenceShape DEF MainOK
  <2>. QED
    BY <2>1 DEF MainOK, SoundTree, Commit
<1>3. /\ request.version = receipt.version /\ request.commit = c
      /\ request.expected = receipt.logical
  BY DEF ReleaseRequest, Request
<1>4. report = receipt.inputs["quality"].payload /\ report \in Reports
  <2>1. Entry(inputs["quality"]) = receipt.inputs["quality"]
    <3>. HIDE DEF receipt
    <3>. QED
      BY <1>1, KindsOfInput DEF AreReviewed
  <2>2. Entry(inputs["quality"]).payload = report
    BY DEF Entry
  <2>. QED
    BY <1>2, <2>1, <2>2 DEF SoundReceipt
<1>5. catalog = WithReview(Indexed(made), report) /\ Binds(Indexed(made), receipt.logical)
  <2>. HIDE DEF request, receipt
  <2>1. /\ catalog = WithReview(Indexed(Catalog(request.version, request.commit,
                                   merged, exclusions, report,
                                   commits[request.commit].rights)), report)
        /\ Binds(Indexed(Catalog(request.version, request.commit,
                                   merged, exclusions, report,
                                   commits[request.commit].rights)), request.expected)
    BY <1>1, BuiltFacts
  <2>. QED
    BY <1>3, <2>1
<1>6. /\ catalog.version = receipt.version /\ catalog.commit = c
      /\ catalog.report = report
      /\ catalog.logical = Logical(merged, exclusions, report, rights)
      /\ Indexed(made).logical = Logical(merged, exclusions, report, rights)
  <2>. HIDE DEF request, receipt, catalog, merged, exclusions, report, rights
  <2>. QED
    BY <1>5, CatalogFields
<1>7. SoundLogical(receipt.logical) /\ receipt.logical \in Logicals
  BY <1>2 DEF SoundReceipt, SoundLogical
<1>8. Logical(merged, exclusions, report, rights) = receipt.logical
  <2>. HIDE DEF request, receipt, catalog, merged, exclusions, report, rights, made
  <2>. QED
    BY <1>5, <1>6, <1>7, ReleaseAssumption DEF Binds
<1>9. catalog.logical.rights = rights
  <2>. HIDE DEF receipt, catalog
  <2>. QED
    BY <1>6 DEF Logical
<1>10. receipt.version \in Versions /\ receipt.version \in Nat
  BY <1>2, ReleaseAssumption DEF SoundReceipt
<1>11. catalog \in Catalogs
  <2>. HIDE DEF request, receipt, catalog, merged, exclusions, report, rights
  <2>. QED
    BY <1>2, <1>4, <1>5, <1>7, <1>8, <1>10, CatalogIsTyped
<1>12. FromReview(commits[c], catalog)
  <2>. HIDE DEF catalog, merged, exclusions, report, made, request
  <2>. QED
    BY <1>4, <1>6, <1>7, <1>8, <1>9, <1>10 DEF FromReview
<1>. QED
  <2>. HIDE DEF catalog
  <2>. QED
    BY <1>1, <1>6, <1>11, <1>12

\* The catalog of the committed source set.
LEMMA BundledIsReviewed ==
    ASSUME MainOK, NEW c \in Commit, commits[c].receipt = None,
           commits[c].bundle # None, Bundled(commits[c], c) # None
    PROVE  /\ Bundled(commits[c], c) \in Catalogs
           /\ Bundled(commits[c], c).commit = c
           /\ FromReview(commits[c], Bundled(commits[c], c))
<1>. DEFINE tree == commits[c]
            bundle == tree.bundle
            catalog == BundleCatalog(bundle, c)
            e == BundleEvidence(bundle)
            report == BundleReport(bundle)
            made == Catalog(bundle.version, c, e, {}, report, bundle.rights)
<1>1. /\ Bundled(tree, c) = catalog
      /\ ValidBundle(bundle, tree.rights, tree.quality)
  BY DEF Bundled
<1>2. SoundTree(tree) /\ c \in Nat
  <2>1. DOMAIN commits = 1..Len(commits)
    BY SequenceShape DEF MainOK
  <2>. QED
    BY <2>1 DEF MainOK, Commit
<1>3. bundle \in SourceBundles /\ bundle.version \in Versions
  BY <1>2 DEF SoundTree
<1>4. /\ SoundEnvelope(e) /\ report \in Reports
      /\ e.selected = {row.gtin : row \in Rows(bundle)}
  <2>. HIDE DEF bundle
  <2>. QED
    BY <1>1, <1>3, BundleIsSound
<1>5. bundle.rights = tree.rights /\ bundle.rights \in Nat /\ bundle.version \in Nat
  BY <1>1, <1>3 DEF ValidBundle, SourceBundles
<1>6. catalog = Indexed(made)
  BY DEF BundleCatalog
<1>7. SoundLogical(Logical(e, {}, report, bundle.rights))
  <2>. HIDE DEF bundle, e, report
  <2>. QED
    BY <1>4, <1>5, LogicalIsSound
<1>8. /\ catalog.version = bundle.version /\ catalog.commit = c
      /\ catalog.logical = Logical(e, {}, report, bundle.rights)
  <2>. HIDE DEF bundle, e, report, catalog
  <2>. QED
    BY <1>6, CatalogFields
<1>9. catalog.logical.rights = tree.rights /\ catalog.logical.products = e.selected
  <2>. HIDE DEF bundle, e, report, catalog, tree
  <2>. QED
    BY <1>5, <1>8 DEF Logical
<1>10. catalog \in Catalogs
  <2>1. Logical(e, {}, report, bundle.rights) \in Logicals
    <3>. HIDE DEF bundle, e, report
    <3>. QED
      BY <1>7 DEF SoundLogical
  <2>. HIDE DEF bundle, e, report, catalog
  <2>. QED
    BY <1>2, <1>4, <1>5, <1>6, <2>1, CatalogIsTyped
<1>11. FromReview(tree, catalog)
  <2>. HIDE DEF catalog, e, report, made
  <2>. QED
    BY <1>3, <1>4, <1>7, <1>8, <1>9 DEF FromReview
<1>. QED
  <2>. HIDE DEF catalog
  <2>. QED
    BY <1>1, <1>8, <1>10, <1>11

-----------------------------------------------------------------------------
(* Main.                                                                    *)

LEMMA CommitsAreNumbered ==
    ASSUME MainOK
    PROVE  /\ Commit = 1..Len(commits) /\ Len(commits) \in Nat \ {0}
           /\ Commit \subseteq 1..MaxCommits /\ MaxCommits \in Nat
           /\ Len(commits) \in Commit
           /\ SoundTree(Main)
<1>1. Commit = 1..Len(commits) /\ Len(commits) \in 1..MaxCommits
  BY SequenceShape DEF MainOK, Commit
<1>2. MaxCommits \in Nat
  BY ReleaseAssumption
<1>3. Len(commits) \in Commit
  BY <1>1, <1>2
<1>. QED
  BY <1>1, <1>2, <1>3 DEF MainOK, Main

\* What a commit admits it admits in a longer history too.
LEMMA AdmittedStays ==
    ASSUME NEW trees, IsSequence(trees), NEW tree, NEW m, Admitted(trees, m)
    PROVE  Admitted(Append(trees, tree), m)
<1>1. m.commit \in 1..Len(trees) /\ Len(trees) \in Nat
  BY SequenceShape DEF Admitted
<1>2. m.commit \in DOMAIN Append(trees, tree)
  BY <1>1, Appended
<1>3. Append(trees, tree)[m.commit] = trees[m.commit]
  BY <1>1, Appended
<1>. QED
  BY <1>2, <1>3 DEF Admitted

\* Nothing a commit adds takes anything back.
LEMMA PushKeeps ==
    ASSUME IInv, NEW tree, SoundTree(tree), Push(tree), pulls' \subseteq pulls
    PROVE  IInv'
<1>. USE DEF Push, public
<1>1. commits' = Append(commits, tree) /\ Len(commits) < MaxCommits
  OBVIOUS
<1>2. IsSequence(commits) /\ MainOK
  BY DEF IInv, MainOK
<1>3. /\ IsSequence(commits') /\ Len(commits') = Len(commits) + 1
      /\ Commit' = 1..(Len(commits) + 1)
      /\ \A c \in Commit : commits'[c] = commits[c]
      /\ commits'[Len(commits) + 1] = tree
  BY <1>1, <1>2, Appended, SequenceShape DEF Commit
<1>4. Commit = 1..Len(commits) /\ Len(commits) \in Nat /\ MaxCommits \in Nat
      /\ Commit \subseteq Commit'
  BY <1>2, <1>3, CommitsAreNumbered
<1>5. MainOK'
  <2>1. Len(commits') \in 1..MaxCommits
    BY <1>1, <1>3, <1>4
  <2>2. ASSUME NEW c \in Commit'
        PROVE  SoundTree(commits'[c])
    <3>1. CASE c \in Commit
      BY <1>2, <1>3, <3>1 DEF MainOK
    <3>2. CASE c = Len(commits) + 1
      BY <1>3, <3>2
    <3>. QED
      BY <1>3, <1>4, <3>1, <3>2
  <2>3. \A receipt \in pulls' : SoundReceipt(receipt)
    BY <1>2 DEF MainOK
  <2>. QED
    BY <1>3, <2>1, <2>2, <2>3 DEF MainOK
<1>6. RunsOK'
  <2>1. runs' = runs /\ RunsOK
    BY DEF IInv
  <2>2. ASSUME NEW r \in DOMAIN runs
        PROVE  SoundRun(runs[r], Len(commits'))
    <3>1. SoundRun(runs[r], Len(commits))
      BY <2>1 DEF RunsOK
    <3>2. 1..Len(commits) \subseteq 1..Len(commits')
      BY <1>3, <1>4
    <3>. QED
      BY <3>1, <3>2 DEF SoundRun
  <2>. QED
    BY <2>1, <2>2 DEF RunsOK
<1>7. JobOK'
  BY <1>4 DEF IInv, JobOK
<1>8. EvidenceOK'
  <2>1. evidence' = evidence /\ EvidenceOK
    BY DEF IInv
  <2>. QED
    BY <1>3, <1>4, <2>1 DEF EvidenceOK
<1>9. \A m : Admitted(commits, m) => Admitted(commits', m)
  BY <1>1, <1>2, AdmittedStays
<1>10. JobsOK'
  <2>1. JobsOK /\ UNCHANGED <<publisher, pending, dispatches>>
    BY DEF IInv
  <2>. QED
    BY <1>4, <1>9, <2>1 DEF JobsOK
<1>11. PublicOK'
  <2>1. PublicOK /\ UNCHANGED <<releases, served, lost>>
    BY DEF IInv
  <2>. QED
    BY <1>9, <2>1 DEF PublicOK
<1>12. CleanUpIsSafe' /\ StableIsKept'
  BY DEF IInv, CleanUpIsSafe, StableIsKept, Version
<1>. QED
  BY <1>5, <1>6, <1>7, <1>8, <1>10, <1>11, <1>12 DEF IInv

LEMMA MainStep ==
    ASSUME IInv,
           \/ EditPolicies \/ EditTrust \/ DropReceipt
           \/ \E b \in Bundles : CommitBundle(b)
           \/ \E receipt \in pulls : MergeReceipt(receipt)
    PROVE  IInv'
<1>1. MainOK /\ SoundTree(Main)
  BY CommitsAreNumbered DEF IInv
<1>2. CASE EditPolicies
  <2>1. PICK field \in {"rights", "quality"} : Push([Main EXCEPT ![field] = @ + 1])
    BY <1>2 DEF EditPolicies
  <2>2. SoundTree([Main EXCEPT ![field] = @ + 1])
    BY <1>1 DEF SoundTree
  <2>3. pulls' \subseteq pulls
    BY <1>2 DEF EditPolicies
  <2>. QED
    BY <2>1, <2>2, <2>3, PushKeeps
<1>3. CASE EditTrust
  <2>1. pulls' \subseteq pulls
    BY <1>3 DEF EditTrust
  <2>2. CASE Push([Main EXCEPT !.active = ~@])
    <3>1. SoundTree([Main EXCEPT !.active = ~@])
      BY <1>1 DEF SoundTree
    <3>. QED
      BY <2>1, <2>2, <3>1, PushKeeps
  <2>3. ASSUME NEW v \in Versions,
               Push([Main EXCEPT !.revoked = @ \cup {v}])
        PROVE  IInv'
    <3>1. SoundTree([Main EXCEPT !.revoked = @ \cup {v}])
      BY <1>1 DEF SoundTree
    <3>. QED
      BY <2>1, <2>3, <3>1, PushKeeps
  <2>. QED
    BY <1>3, <2>2, <2>3 DEF EditTrust
<1>4. CASE DropReceipt
  <2>1. SoundTree([Main EXCEPT !.receipt = None])
    BY <1>1 DEF SoundTree
  <2>. QED
    BY <1>4, <2>1, PushKeeps DEF DropReceipt
<1>5. ASSUME NEW b \in Bundles, CommitBundle(b)
      PROVE  IInv'
  <2>1. b \in SourceBundles /\ b.version \in Versions
    BY ReleaseAssumption
  <2>2. Bound(b, Main) \in SourceBundles /\ Bound(b, Main).version \in Versions
    BY <1>1, <2>1 DEF SourceBundles, SoundTree, Bound
  <2>3. SoundTree([Main EXCEPT !.bundle = Bound(b, Main)])
    BY <1>1, <2>2 DEF SoundTree
  <2>. QED
    BY <1>5, <2>3, PushKeeps DEF CommitBundle
<1>6. ASSUME NEW receipt \in pulls, MergeReceipt(receipt)
      PROVE  IInv'
  <2>1. SoundReceipt(receipt)
    BY <1>1 DEF MainOK
  <2>2. SoundTree([Main EXCEPT !.receipt = receipt])
    BY <1>1, <2>1 DEF SoundTree
  <2>. QED
    BY <1>6, <2>2, PushKeeps DEF MergeReceipt
<1>. QED
  BY <1>2, <1>3, <1>4, <1>5, <1>6

-----------------------------------------------------------------------------
(* Runs.                                                                    *)

RunFrame == UNCHANGED <<commits, job, evidence, publisher, pending, dispatches, public>>

LEMMA RunsAlone ==
    ASSUME IInv, RunFrame, RunsOK', \A receipt \in pulls' : SoundReceipt(receipt)
    PROVE  IInv'
<1>1. UNCHANGED <<commits, job, evidence, publisher, pending, dispatches,
                  releases, served, lost>>
  BY DEF RunFrame, public
<1>2. MainOK' /\ JobOK' /\ EvidenceOK'
  BY <1>1 DEF IInv, MainOK, JobOK, EvidenceOK, Commit
<1>3. JobsOK' /\ PublicOK'
  BY <1>1 DEF IInv, JobsOK, PublicOK, Commit
<1>4. CleanUpIsSafe' /\ StableIsKept'
  BY <1>1 DEF IInv, CleanUpIsSafe, StableIsKept, Version
<1>. QED
  BY <1>2, <1>3, <1>4 DEF IInv

\* A step of one run.
LEMMA RunUpdated ==
    ASSUME IInv, RunFrame, NEW r \in DOMAIN runs, NEW run,
           runs' = [runs EXCEPT ![r] = run], SoundRun(run, Len(commits)),
           \A receipt \in pulls' : SoundReceipt(receipt)
    PROVE  IInv'
<1>1. RunsOK /\ IsSequence(runs) /\ commits' = commits
  BY DEF IInv, RunsOK, RunFrame
<1>2. /\ IsSequence(runs') /\ Len(runs') = Len(runs) /\ DOMAIN runs' = DOMAIN runs
      /\ runs'[r] = run /\ \A i \in DOMAIN runs \ {r} : runs'[i] = runs[i]
  BY <1>1, Updated
<1>3. \A i \in DOMAIN runs' : SoundRun(runs'[i], Len(commits'))
  BY <1>1, <1>2 DEF RunsOK
<1>4. RunsOK'
  BY <1>1, <1>2, <1>3 DEF RunsOK
<1>. QED
  BY <1>4, RunsAlone

LEMMA PullsAreSound ==
    ASSUME IInv
    PROVE  \A receipt \in pulls : SoundReceipt(receipt)
BY DEF IInv, MainOK

\* The parts of a run that its steps change.
LEMMA RunFields ==
    ASSUME IInv, NEW r \in DOMAIN runs
    PROVE  /\ SoundRun(runs[r], Len(commits))
           /\ DOMAIN runs[r] = {"base", "version", "snapshot", "attempt", "phase",
                                "artifacts", "delivered", "primary", "retailer"}
           /\ DOMAIN runs[r].artifacts =
                  {"evidence", "exclusions", "quality", "catalog"}
           /\ runs[r].base \in Commit /\ SoundTree(commits[runs[r].base])
           /\ r \in Nat /\ runs[r].attempt \in Nat
           /\ runs[r].version \in Versions /\ runs[r].version \in Nat
           /\ runs[r].snapshot \in Snapshots /\ runs[r].snapshot \in Nat
<1>1. SoundRun(runs[r], Len(commits)) /\ DOMAIN runs = 1..Len(runs) /\ Len(runs) \in Nat
  BY SequenceShape DEF IInv, RunsOK
<1>2. Commit = 1..Len(commits) /\ \A c \in Commit : SoundTree(commits[c])
  BY CommitsAreNumbered DEF IInv, MainOK
<1>3. Versions \subseteq Nat /\ Snapshots \subseteq Nat
  BY ReleaseAssumption
<1>4. r \in Nat
  BY <1>1
<1>5. runs[r].base \in Commit /\ SoundTree(commits[runs[r].base])
  BY <1>1, <1>2 DEF SoundRun
<1>. QED
  BY <1>1, <1>3, <1>4, <1>5 DEF SoundRun

LEMMA StartRunStep ==
    ASSUME IInv, NEW version \in Versions, NEW snapshot \in Snapshots,
           StartRun(version, snapshot)
    PROVE  IInv'
<1>. DEFINE run == [base |-> Len(commits), version |-> version,
                    snapshot |-> snapshot, attempt |-> 1, phase |-> "sources",
                    artifacts |-> NoArtifacts, delivered |-> None,
                    primary |-> None, retailer |-> None]
<1>1. /\ runs' = Append(runs, run) /\ Len(runs) < MaxRuns
      /\ RunFrame /\ UNCHANGED <<commits, pulls>>
  BY DEF StartRun, RunFrame
<1>2. RunsOK /\ IsSequence(runs) /\ Len(runs) \in Nat /\ MaxRuns \in Nat
  BY SequenceShape, ReleaseAssumption DEF IInv, RunsOK
<1>3. Len(commits) \in 1..Len(commits)
  BY CommitsAreNumbered DEF IInv
<1>4. DOMAIN NoArtifacts = {"evidence", "exclusions", "quality", "catalog"}
      /\ NoArtifacts["evidence"] = None
  BY DEF NoArtifacts
<1>5. SoundRun(run, Len(commits))
  BY <1>3, <1>4 DEF SoundRun
<1>6. /\ IsSequence(runs') /\ Len(runs') = Len(runs) + 1
      /\ DOMAIN runs' = 1..(Len(runs) + 1)
      /\ \A i \in 1..Len(runs) : runs'[i] = runs[i]
      /\ runs'[Len(runs) + 1] = run
  <2>. HIDE DEF run
  <2>. QED
    BY <1>1, <1>2, Appended
<1>7. ASSUME NEW i \in DOMAIN runs'
      PROVE  SoundRun(runs'[i], Len(commits'))
  <2>. HIDE DEF run
  <2>1. i \in 1..Len(runs) \/ i = Len(runs) + 1
    BY <1>2, <1>6
  <2>2. DOMAIN runs = 1..Len(runs)
    BY <1>2, SequenceShape
  <2>. QED
    BY <1>1, <1>2, <1>5, <1>6, <2>1, <2>2 DEF RunsOK
<1>8. Len(runs') \in 0..MaxRuns
  BY <1>1, <1>2, <1>6
<1>9. RunsOK'
  <2>. HIDE DEF run
  <2>. QED
    BY <1>6, <1>7, <1>8 DEF RunsOK
<1>. QED
  <2>. HIDE DEF run
  <2>. QED
    BY <1>1, <1>9, PullsAreSound, RunsAlone

LEMMA RunAgainStep ==
    ASSUME IInv, NEW r \in DOMAIN runs, RunAgain(r)
    PROVE  IInv'
<1>. DEFINE run == [runs[r] EXCEPT !.attempt = @ + 1, !.phase = "sources"]
<1>1. runs' = [runs EXCEPT ![r] = run] /\ RunFrame /\ UNCHANGED pulls
  BY DEF RunAgain, Becomes, RunFrame
<1>2. /\ DOMAIN run = DOMAIN runs[r] /\ run.phase = "sources"
      /\ run.attempt = runs[r].attempt + 1
      /\ run.base = runs[r].base /\ run.version = runs[r].version
      /\ run.snapshot = runs[r].snapshot /\ run.artifacts = runs[r].artifacts
      /\ run.primary = runs[r].primary
  BY RunFields
<1>3. SoundRun(run, Len(commits))
  <2>. HIDE DEF run
  <2>. QED
    BY <1>2, RunFields DEF SoundRun
<1>. QED
  <2>. HIDE DEF run
  <2>. QED
    BY <1>1, <1>3, PullsAreSound, RunUpdated

LEMMA FailStep ==
    ASSUME IInv, NEW r \in DOMAIN runs, Fails(r), RunFrame, UNCHANGED pulls
    PROVE  IInv'
<1>. DEFINE run == [runs[r] EXCEPT !.phase = "failed"]
<1>1. runs' = [runs EXCEPT ![r] = run]
  BY DEF Fails, Becomes
<1>2. /\ DOMAIN run = DOMAIN runs[r] /\ run.phase = "failed"
      /\ run.attempt = runs[r].attempt
      /\ run.base = runs[r].base /\ run.version = runs[r].version
      /\ run.snapshot = runs[r].snapshot /\ run.artifacts = runs[r].artifacts
      /\ run.primary = runs[r].primary
  BY RunFields
<1>3. SoundRun(run, Len(commits))
  <2>. HIDE DEF run
  <2>. QED
    BY <1>2, RunFields DEF SoundRun
<1>. QED
  <2>. HIDE DEF run
  <2>. QED
    BY <1>1, <1>3, PullsAreSound, RunUpdated

LEMMA NormalizationFields ==
    ASSUME NEW input \in Inputs, NEW snapshot \in Snapshots
    PROVE  LET candidates == Candidates(input)
           IN  /\ Normalization[input].primary[snapshot] =
                      NormalizedSnapshot(candidates, snapshot)
               /\ Normalization[input].excluded = Exclusions(candidates)
BY DEF Normalization, Candidates

\* What a composition that is accepted makes of a run.
Composition(run, input, primary, retailer, handoff, excluded) ==
    [run EXCEPT !.phase = "quality", !.delivered = input,
                !.primary = primary, !.retailer = retailer,
                !.artifacts["evidence"] = handoff,
                !.artifacts["exclusions"] = excluded]

LEMMA ComposedFields ==
    ASSUME NEW run,
           DOMAIN run = {"base", "version", "snapshot", "attempt", "phase",
                         "artifacts", "delivered", "primary", "retailer"},
           DOMAIN run.artifacts = {"evidence", "exclusions", "quality", "catalog"},
           NEW input, NEW primary, NEW retailer, NEW handoff, NEW excluded
    PROVE
      LET new == Composition(run, input, primary, retailer, handoff, excluded)
      IN   /\ DOMAIN new = DOMAIN run
           /\ DOMAIN new.artifacts = DOMAIN run.artifacts
           /\ new.phase = "quality" /\ new.delivered = input
           /\ new.primary = primary
           /\ new.artifacts["evidence"] = handoff
           /\ new.artifacts["exclusions"] = excluded
           /\ new.base = run.base /\ new.version = run.version
           /\ new.snapshot = run.snapshot /\ new.attempt = run.attempt
<1>. DEFINE new == Composition(run, input, primary, retailer, handoff, excluded)
<1>. USE DEF Composition
<1>1. DOMAIN new = DOMAIN run
  OBVIOUS
<1>2. DOMAIN new.artifacts = DOMAIN run.artifacts
  OBVIOUS
<1>3. new.artifacts["evidence"] = handoff /\ new.artifacts["exclusions"] = excluded
  OBVIOUS
<1>4. new.phase = "quality" /\ new.delivered = input /\ new.primary = primary
  OBVIOUS
<1>5. /\ new.base = run.base /\ new.version = run.version
      /\ new.snapshot = run.snapshot /\ new.attempt = run.attempt
  OBVIOUS
<1>. HIDE DEF Composition
<1>. QED
  BY <1>1, <1>2, <1>3, <1>4, <1>5

LEMMA HandoffPayload ==
    \A kind, source, snapshot, producer, payload, count :
        Handoff(kind, source, snapshot, producer, payload, count).payload = payload
BY DEF Handoff

LEMMA ComposeStep ==
    ASSUME IInv, NEW r \in DOMAIN runs, NEW input \in Inputs, Compose(r, input)
    PROVE  IInv'
<1>. DEFINE off == runs[r].snapshot
            candidates == Candidates(input)
            primary == Normalization[input].primary[off]
            retailer == Envelope([s \in {"op"} |-> r], {}, input.observed)
            merged == MergeEvidence(primary, retailer)
            from == Producer(r, "normalize-and-diff")
            handoff == Handoff("normalized-evidence", "off", off, from, merged,
                               Cardinality(merged.selected))
            basic == Normalization[input].excluded
            excluded == Handoff("basic-exclusions", "off", off, from, basic,
                                Cardinality(basic))
            run == Composition(runs[r], input, primary, retailer, handoff, excluded)
<1>1. RunFrame /\ UNCHANGED pulls /\ (Fails(r) \/ Becomes(r, run))
  BY DEF Compose, RunStep, RunFrame, Composition
<1>2. CASE Fails(r)
  BY <1>1, <1>2, FailStep
<1>3. CASE Becomes(r, run)
  <2>1. /\ primary = NormalizedSnapshot(candidates, off)
        /\ basic = Exclusions(candidates)
    BY RunFields, NormalizationFields
  <2>2. /\ SoundEnvelope(primary) /\ primary.sources \in [{"off"} -> Nat]
        /\ primary.selected = Selected(candidates)
        /\ Exclusions(candidates) \in SUBSET Products
    <3>1. off \in Nat
      BY RunFields
    <3>. HIDE DEF primary, off, candidates, basic
    <3>2. /\ SoundEnvelope(NormalizedSnapshot(candidates, off))
          /\ NormalizedSnapshot(candidates, off).sources \in [{"off"} -> Nat]
          /\ NormalizedSnapshot(candidates, off).selected = Selected(candidates)
          /\ Exclusions(candidates) \in SUBSET Products
      BY <3>1, NormalizedIsSound DEF candidates
    <3>. QED
      BY <2>1, <3>2
  <2>3. /\ SoundEnvelope(merged) /\ merged.sources \in [{"off", "op"} -> Nat]
        /\ merged.selected = primary.selected
    <3>1. retailer.sources["op"] \in Nat /\ retailer.offers \in SUBSET Offers
      BY RunFields, ReleaseAssumption DEF Envelope
    <3>. HIDE DEF primary, retailer
    <3>. QED
      BY <2>2, <3>1, MergeIsSound
  <2>4. handoff.payload = merged /\ excluded.payload = Exclusions(candidates)
    <3>. HIDE DEF merged, basic
    <3>. QED
      BY <2>1, HandoffPayload
  <2>5. /\ DOMAIN run = DOMAIN runs[r]
        /\ DOMAIN run.artifacts = DOMAIN runs[r].artifacts
        /\ run.phase = "quality" /\ run.delivered = input
        /\ run.primary = primary
        /\ run.artifacts["evidence"] = handoff
        /\ run.artifacts["exclusions"] = excluded
        /\ run.base = runs[r].base /\ run.version = runs[r].version
        /\ run.snapshot = runs[r].snapshot /\ run.attempt = runs[r].attempt
    <3>. HIDE DEF primary, retailer, handoff, excluded
    <3>. QED
      BY RunFields, ComposedFields
  <2>6. runs' = [runs EXCEPT ![r] = run]
    BY <1>3 DEF Becomes
  <2>. HIDE DEF run, primary, merged, handoff, excluded, basic
  <2>7. Composed(run)
    BY <2>2, <2>3, <2>4, <2>5 DEF Composed
  <2>8. SoundRun(run, Len(commits))
    BY <2>3, <2>4, <2>5, <2>7, RunFields DEF SoundRun
  <2>. QED
    BY <1>1, <2>6, <2>8, PullsAreSound, RunUpdated
<1>. QED
  BY <1>1, <1>2, <1>3

\* What a stage that adds one artifact makes of a run.
LEMMA AddedFields ==
    ASSUME NEW run,
           DOMAIN run = {"base", "version", "snapshot", "attempt", "phase",
                         "artifacts", "delivered", "primary", "retailer"},
           DOMAIN run.artifacts = {"evidence", "exclusions", "quality", "catalog"},
           NEW a \in {"quality", "catalog"}, NEW phase, NEW handoff
    PROVE  LET new == [run EXCEPT !.phase = phase, !.artifacts[a] = handoff]
           IN  /\ DOMAIN new = DOMAIN run
               /\ DOMAIN new.artifacts = DOMAIN run.artifacts
               /\ new.artifacts[a] = handoff
               /\ \A b \in DOMAIN run.artifacts \ {a} :
                      new.artifacts[b] = run.artifacts[b]
               /\ new.phase = phase /\ new.delivered = run.delivered
               /\ new.primary = run.primary
               /\ new.base = run.base /\ new.version = run.version
               /\ new.snapshot = run.snapshot /\ new.attempt = run.attempt
<1>. DEFINE new == [run EXCEPT !.phase = phase, !.artifacts[a] = handoff]
<1>1. DOMAIN new = DOMAIN run
  OBVIOUS
<1>2. DOMAIN new.artifacts = DOMAIN run.artifacts
  OBVIOUS
<1>3. /\ new.artifacts[a] = handoff
      /\ \A b \in DOMAIN run.artifacts \ {a} : new.artifacts[b] = run.artifacts[b]
  OBVIOUS
<1>4. /\ new.phase = phase /\ new.delivered = run.delivered
      /\ new.primary = run.primary
  OBVIOUS
<1>5. /\ new.base = run.base /\ new.version = run.version
      /\ new.snapshot = run.snapshot /\ new.attempt = run.attempt
  OBVIOUS
<1>. QED
  BY <1>1, <1>2, <1>3, <1>4, <1>5

LEMMA QualityStep ==
    ASSUME IInv, NEW r \in DOMAIN runs, NEW passes \in BOOLEAN, Quality(r, passes)
    PROVE  IInv'
<1>. DEFINE run == runs[r]
            at == run.attempt
            policy == commits[run.base].quality
            merged == run.artifacts["evidence"].payload
            base == Report(merged, "off", policy, at, passes)
            handoff == Handoff("quality-report", "off", run.snapshot,
                               Producer(r, "catalog-quality"), base, 1)
            new == [run EXCEPT !.phase = "build", !.artifacts["quality"] = handoff]
<1>1. /\ RunFrame /\ UNCHANGED pulls /\ run.phase = "quality"
      /\ Fails(r) \/ Becomes(r, new)
  BY DEF Quality, RunStep, RunFrame
<1>2. CASE Fails(r)
  BY <1>1, <1>2, FailStep
<1>3. CASE Becomes(r, new)
  <2>1. Composed(run)
    BY <1>1, RunFields DEF SoundRun
  <2>2. base \in Reports
    <3>1. merged \in Envelopes /\ "off" \in DOMAIN merged.sources
      BY <2>1 DEF Composed, SoundEnvelope
    <3>2. policy \in Nat /\ at \in Nat
      BY RunFields DEF SoundTree
    <3>. HIDE DEF merged, policy, at
    <3>. QED
      BY <3>1, <3>2, ReportIsTyped
  <2>3. handoff.payload = base
    BY HandoffPayload
  <2>4. /\ DOMAIN new = DOMAIN run
        /\ DOMAIN new.artifacts = DOMAIN run.artifacts
        /\ new.artifacts["quality"] = handoff
        /\ new.artifacts["evidence"] = run.artifacts["evidence"]
        /\ new.artifacts["exclusions"] = run.artifacts["exclusions"]
        /\ new.phase = "build" /\ new.delivered = run.delivered
        /\ new.primary = run.primary
        /\ new.base = run.base /\ new.version = run.version
        /\ new.snapshot = run.snapshot /\ new.attempt = run.attempt
    <3>. HIDE DEF handoff
    <3>. QED
      BY RunFields, AddedFields
  <2>5. runs' = [runs EXCEPT ![r] = new]
    BY <1>3 DEF Becomes
  <2>. HIDE DEF new, handoff, base
  <2>6. Composed(new)
    BY <2>1, <2>4 DEF Composed
  <2>7. SoundRun(new, Len(commits))
    BY <2>2, <2>3, <2>4, <2>6, RunFields DEF SoundRun
  <2>. QED
    BY <1>1, <2>5, <2>7, PullsAreSound, RunUpdated
<1>. QED
  BY <1>1, <1>2, <1>3

LEMMA BuildStep ==
    ASSUME IInv, NEW r \in DOMAIN runs, Build(r)
    PROVE  IInv'
<1>. DEFINE run == runs[r]
            request == Request(run.version, run.base, None,
                               <<"database", "manifest", "release-notes">>)
            catalog == Built(run.artifacts, request)
            handoff == Handoff("catalog-manifest", "aggregate", run.snapshot,
                               Producer(r, "build-catalog"), catalog, 1)
            new == [run EXCEPT !.phase = "propose", !.artifacts["catalog"] = handoff]
            merged == run.artifacts["evidence"].payload
            exclusions == run.artifacts["exclusions"].payload
            report == run.artifacts["quality"].payload
            rights == commits[run.base].rights
<1>1. /\ RunFrame /\ UNCHANGED pulls /\ run.phase = "build"
      /\ Fails(r) \/ (catalog # None /\ Becomes(r, new))
  BY DEF Build, RunStep, RunFrame
<1>2. CASE Fails(r)
  BY <1>1, <1>2, FailStep
<1>3. CASE catalog # None /\ Becomes(r, new)
  <2>1. Composed(run) /\ report \in Reports
    BY <1>1, RunFields DEF SoundRun
  <2>2. /\ SoundEnvelope(merged) /\ run.delivered \in Inputs
        /\ merged.selected = Selected(Candidates(run.delivered))
        /\ exclusions = Exclusions(Candidates(run.delivered))
    BY <2>1 DEF Composed
  <2>3. exclusions \in SUBSET Products
    <3>1. run.snapshot \in Nat
      BY RunFields
    <3>. QED
      BY <2>2, <3>1, NormalizedIsSound
  <2>4. request.version = run.version /\ request.commit = run.base
    BY DEF Request
  <2>5. /\ catalog = WithReview(Indexed(Catalog(run.version, run.base, merged,
                                            exclusions, report, rights)), report)
        /\ exclusions \cap merged.selected = {}
    <3>. HIDE DEF request
    <3>. QED
      BY <1>3, <2>4, BuiltFacts
  <2>6. /\ catalog.version = run.version
        /\ catalog.logical = Logical(merged, exclusions, report, rights)
    <3>. HIDE DEF catalog, merged, exclusions, report, rights, run
    <3>. QED
      BY <2>5, CatalogFields
  <2>7. SoundLogical(catalog.logical)
    <3>1. rights \in Nat
      BY RunFields DEF SoundTree
    <3>. HIDE DEF catalog, merged, exclusions, report, rights
    <3>. QED
      BY <2>1, <2>2, <2>3, <2>6, <3>1, LogicalIsSound
  <2>8. catalog.logical.exclusions = exclusions
    <3>. HIDE DEF catalog, merged, exclusions, report, rights
    <3>. QED
      BY <2>6 DEF Logical
  <2>9. handoff.payload = catalog
    BY HandoffPayload
  <2>10. /\ DOMAIN new = DOMAIN run
         /\ DOMAIN new.artifacts = DOMAIN run.artifacts
         /\ new.artifacts["catalog"] = handoff
         /\ new.artifacts["quality"] = run.artifacts["quality"]
         /\ new.artifacts["evidence"] = run.artifacts["evidence"]
         /\ new.artifacts["exclusions"] = run.artifacts["exclusions"]
         /\ new.phase = "propose" /\ new.delivered = run.delivered
         /\ new.primary = run.primary
         /\ new.base = run.base /\ new.version = run.version
         /\ new.snapshot = run.snapshot /\ new.attempt = run.attempt
    <3>. HIDE DEF handoff
    <3>. QED
      BY RunFields, AddedFields
  <2>11. runs' = [runs EXCEPT ![r] = new]
    BY <1>3 DEF Becomes
  <2>. HIDE DEF new, handoff, catalog
  <2>12. Composed(new) /\ Excludes(new)
    BY <2>1, <2>2, <2>5, <2>8, <2>9, <2>10 DEF Composed, Excludes
  <2>13. SoundRun(new, Len(commits))
    BY <2>1, <2>6, <2>7, <2>9, <2>10, <2>12, RunFields DEF SoundRun
  <2>. QED
    BY <1>1, <2>11, <2>13, PullsAreSound, RunUpdated
<1>. QED
  BY <1>1, <1>2, <1>3

LEMMA ProposeStep ==
    ASSUME IInv, NEW r \in DOMAIN runs, Propose(r)
    PROVE  IInv'
<1>. DEFINE run == runs[r]
            inputs == [i \in DOMAIN KindOf |-> run.artifacts[i]]
            receipt == Receipt(run.artifacts["catalog"], inputs)
            new == [run EXCEPT !.phase = "proposed"]
<1>1. /\ RunFrame /\ run.phase = "propose"
      /\ \/ Fails(r) /\ UNCHANGED pulls
         \/ Becomes(r, new) /\ pulls' = pulls \cup {receipt}
  BY DEF Propose, RunStep, RunFrame
<1>2. CASE Fails(r) /\ UNCHANGED pulls
  BY <1>1, <1>2, FailStep
<1>3. CASE Becomes(r, new) /\ pulls' = pulls \cup {receipt}
  <2>1. /\ run.artifacts["quality"].payload \in Reports
        /\ run.artifacts["catalog"].payload.version \in Versions
        /\ SoundLogical(run.artifacts["catalog"].payload.logical)
        /\ run.artifacts["catalog"] # None => Excludes(run)
    BY <1>1, RunFields DEF SoundRun
  <2>2. /\ receipt.version = run.artifacts["catalog"].payload.version
        /\ receipt.logical = run.artifacts["catalog"].payload.logical
        /\ receipt.inputs["quality"].payload = run.artifacts["quality"].payload
    BY KindsOfInput DEF Receipt, Entry
  <2>3. SoundReceipt(receipt)
    <3>. HIDE DEF receipt, run
    <3>. QED
      BY <2>1, <2>2 DEF SoundReceipt
  <2>4. \A x \in pulls' : SoundReceipt(x)
    BY <1>3, <2>3, PullsAreSound
  <2>5. /\ DOMAIN new = DOMAIN run /\ new.phase = "proposed"
        /\ new.artifacts = run.artifacts /\ new.delivered = run.delivered
        /\ new.primary = run.primary
        /\ new.base = run.base /\ new.version = run.version
        /\ new.snapshot = run.snapshot /\ new.attempt = run.attempt
    BY RunFields
  <2>6. runs' = [runs EXCEPT ![r] = new]
    BY <1>3 DEF Becomes
  <2>. HIDE DEF new
  <2>7. SoundRun(new, Len(commits))
    BY <2>1, <2>5, RunFields DEF SoundRun, Excludes
  <2>. QED
    BY <1>1, <2>4, <2>6, <2>7, RunUpdated
<1>. QED
  BY <1>1, <1>2, <1>3

LEMMA ExpireStep ==
    ASSUME IInv, NEW r \in DOMAIN runs, Expire(r)
    PROVE  IInv'
<1>. DEFINE new == [runs[r] EXCEPT !.artifacts = NoArtifacts]
<1>1. /\ runs' = [runs EXCEPT ![r] = new] /\ RunFrame /\ UNCHANGED pulls
      /\ runs[r].phase \in {"proposed", "failed"}
  BY DEF Expire, Becomes, RunFrame, AllEnded, Ended
<1>2. /\ DOMAIN new = DOMAIN runs[r] /\ new.phase = runs[r].phase
      /\ new.artifacts = NoArtifacts
      /\ new.base = runs[r].base /\ new.version = runs[r].version
      /\ new.snapshot = runs[r].snapshot /\ new.attempt = runs[r].attempt
  BY RunFields
<1>3. /\ DOMAIN NoArtifacts = {"evidence", "exclusions", "quality", "catalog"}
      /\ NoArtifacts["evidence"] = None /\ NoArtifacts["catalog"] = None
  BY DEF NoArtifacts
<1>. HIDE DEF new
<1>4. SoundRun(new, Len(commits))
  BY <1>1, <1>2, <1>3, RunFields DEF SoundRun
<1>. QED
  BY <1>1, <1>4, PullsAreSound, RunUpdated

-----------------------------------------------------------------------------
(* The release job.                                                         *)

JobFrame == UNCHANGED <<sources, publisher, pending, dispatches, public>>

LEMMA JobAlone ==
    ASSUME IInv, JobFrame, JobOK', EvidenceOK'
    PROVE  IInv'
<1>1. UNCHANGED <<commits, runs, pulls, publisher, pending, dispatches,
                  releases, served, lost>>
  BY DEF JobFrame, sources, public
<1>2. MainOK' /\ RunsOK'
  BY <1>1 DEF IInv, MainOK, RunsOK, Commit
<1>3. JobsOK' /\ PublicOK'
  BY <1>1 DEF IInv, JobsOK, PublicOK, Commit
<1>4. CleanUpIsSafe' /\ StableIsKept'
  BY <1>1 DEF IInv, CleanUpIsSafe, StableIsKept, Version
<1>. QED
  BY <1>2, <1>3, <1>4 DEF IInv

LEMMA EvidenceStays ==
    ASSUME IInv, UNCHANGED evidence, UNCHANGED commits
    PROVE  EvidenceOK'
BY DEF IInv, EvidenceOK, Commit

LEMMA EmptySequence == IsSequence(<<>>) /\ Len(<<>>) = 0
BY DEF IsSequence

LEMMA StartReleaseStep ==
    ASSUME IInv, NEW c \in Commit, StartRelease(c)
    PROVE  IInv'
<1>1. /\ JobFrame /\ UNCHANGED <<commits, evidence>>
      /\ job' = [commit |-> c, got |-> <<>>]
  BY DEF StartRelease, JobFrame, sources
<1>2. JobOK'
  <2>1. DOMAIN job' = {"commit", "got"} /\ job'.commit = c /\ job'.got = <<>>
    BY <1>1
  <2>2. Commit' = Commit
    BY <1>1 DEF Commit
  <2>. QED
    BY <2>1, <2>2, EmptySequence DEF JobOK
<1>. QED
  BY <1>1, <1>2, EvidenceStays, JobAlone

LEMMA DownloadStep ==
    ASSUME IInv, Download
    PROVE  IInv'
<1>. DEFINE receipt == commits[job.commit].receipt
            handoff == runs[receipt.run].artifacts[Downloads[Len(job.got) + 1]]
<1>1. /\ JobFrame /\ UNCHANGED <<commits, evidence>>
      /\ job # None /\ Len(job.got) < Len(Downloads)
      /\ \/ job' = None
         \/ job' = [job EXCEPT !.got = Append(@, handoff)]
  BY DEF Download, JobFrame, sources
<1>2. /\ DOMAIN job = {"commit", "got"} /\ job.commit \in Commit
      /\ IsSequence(job.got) /\ Len(job.got) \in 0..3
  BY <1>1 DEF IInv, JobOK
<1>3. Len(Downloads) = 3
  BY DEF Downloads
<1>4. Commit' = Commit
  BY <1>1 DEF Commit
<1>5. CASE job' = None
  BY <1>1, <1>5, EvidenceStays, JobAlone DEF JobOK
<1>6. CASE job' = [job EXCEPT !.got = Append(@, handoff)]
  <2>. HIDE DEF handoff
  <2>1. /\ DOMAIN job' = {"commit", "got"} /\ job'.commit = job.commit
        /\ job'.got = Append(job.got, handoff)
    BY <1>2, <1>6
  <2>2. IsSequence(job'.got) /\ Len(job'.got) = Len(job.got) + 1
    BY <1>2, <2>1, Appended
  <2>3. Len(job'.got) \in 0..3
    BY <1>1, <1>2, <1>3, <2>2
  <2>4. JobOK'
    BY <1>2, <1>4, <2>1, <2>2, <2>3 DEF JobOK
  <2>. QED
    BY <1>1, <2>4, EvidenceStays, JobAlone
<1>. QED
  BY <1>1, <1>5, <1>6

LEMMA EmitStep ==
    ASSUME IInv, Emit
    PROVE  IInv'
<1>. DEFINE c == job.commit
            inputs == [i \in DOMAIN KindOf |->
                         job.got[CHOOSE n \in 1..3 : Downloads[n] = i]]
<1>1. /\ JobFrame /\ UNCHANGED commits /\ job # None /\ job' = None
  BY DEF Emit, JobFrame, sources
<1>2. PICK catalog :
        /\ evidence' = [evidence EXCEPT ![c] = catalog]
        /\ \/ /\ commits[c].receipt # None
              /\ catalog = Rebuilt(inputs, commits[c].receipt, c)
           \/ /\ commits[c].receipt = None /\ commits[c].bundle # None
              /\ catalog = Bundled(commits[c], c)
  <2>1. \/ /\ commits[c].receipt # None
           /\ evidence' = [evidence EXCEPT ![c] = Rebuilt(inputs, commits[c].receipt, c)]
        \/ /\ commits[c].receipt = None /\ commits[c].bundle # None
           /\ evidence' = [evidence EXCEPT ![c] = Bundled(commits[c], c)]
    BY DEF Emit
  <2>. HIDE DEF c, inputs
  <2>. QED
    BY <2>1
<1>3. c \in Commit /\ MainOK
  BY <1>1 DEF IInv, JobOK
<1>4. catalog # None =>
        catalog \in Catalogs /\ catalog.commit = c /\ FromReview(commits[c], catalog)
  <2>1. DOMAIN inputs = DOMAIN KindOf
    OBVIOUS
  <2>. HIDE DEF c, inputs
  <2>. QED
    BY <1>2, <1>3, <2>1, RebuiltIsReviewed, BundledIsReviewed
<1>5. EvidenceOK'
  <2>1. EvidenceOK /\ commits' = commits /\ Commit \subseteq 1..MaxCommits
    BY <1>1, <1>3, CommitsAreNumbered DEF IInv
  <2>2. evidence' \in [1..MaxCommits -> Catalogs \cup {None}]
    BY <1>2, <1>3, <1>4, <2>1 DEF EvidenceOK
  <2>3. ASSUME NEW d \in 1..MaxCommits, evidence'[d] # None
        PROVE  /\ d \in Commit /\ evidence'[d].commit = d
               /\ FromReview(commits[d], evidence'[d])
    <3>. HIDE DEF c
    <3>1. CASE d = c
      <4>1. evidence'[d] = catalog
        BY <1>2, <2>1, <3>1 DEF EvidenceOK
      <4>. QED
        BY <1>3, <1>4, <2>3, <3>1, <4>1
    <3>2. CASE d # c
      <4>1. evidence'[d] = evidence[d]
        BY <1>2, <2>1, <3>2 DEF EvidenceOK
      <4>. QED
        BY <2>1, <2>3, <4>1 DEF EvidenceOK
    <3>. QED
      BY <3>1, <3>2
  <2>4. Commit' = Commit
    BY <1>1 DEF Commit
  <2>. QED
    BY <2>1, <2>2, <2>3, <2>4 DEF EvidenceOK
<1>6. JobOK'
  BY <1>1 DEF JobOK
<1>. QED
  BY <1>1, <1>5, <1>6, JobAlone

LEMMA ReleaseDiesStep ==
    ASSUME IInv, ReleaseDies
    PROVE  IInv'
<1>1. JobFrame /\ UNCHANGED <<commits, evidence>> /\ job' = None
  BY DEF ReleaseDies, JobFrame, sources
<1>. QED
  BY <1>1, EvidenceStays, JobAlone DEF JobOK

-----------------------------------------------------------------------------
(* The publish jobs.                                                        *)

PublicFrame == UNCHANGED <<sources, job, evidence>>

LEMMA PublicAlone ==
    ASSUME IInv, PublicFrame, JobsOK', PublicOK', CleanUpIsSafe', StableIsKept'
    PROVE  IInv'
<1>1. UNCHANGED <<commits, runs, pulls, job, evidence>>
  BY DEF PublicFrame, sources
<1>2. MainOK' /\ RunsOK'
  BY <1>1 DEF IInv, MainOK, RunsOK, Commit
<1>3. JobOK' /\ EvidenceOK'
  BY <1>1 DEF IInv, JobOK, EvidenceOK, Commit
<1>. QED
  BY <1>2, <1>3 DEF IInv

LEMMA PublicStays ==
    ASSUME IInv, PublicFrame, UNCHANGED public
    PROVE  PublicOK' /\ StableIsKept'
<1>1. UNCHANGED <<commits, releases, served, lost>>
  BY DEF PublicFrame, sources, public
<1>. QED
  BY <1>1 DEF IInv, PublicOK, StableIsKept

LEMMA NothingIsNone ==
    None \notin Modules /\ None \notin Releases /\ None \notin PublishJobs
BY ReleaseAssumption

\* The job that runs, and its module once it is assembled.
LEMMA RunningJob ==
    ASSUME IInv, publisher # None
    PROVE  /\ publisher \in PublishJobs /\ publisher.commit \in Commit
           /\ publisher.phase # "waiting" =>
                  /\ Admitted(commits, publisher.module)
                  /\ publisher.module \in Modules /\ Version \in Versions
           /\ publisher.created <=>
                  publisher.phase \in {"created", "verified", "cleanup"}
<1>1. JobsOK
  BY DEF IInv
<1>2. publisher.phase # "waiting" => Admitted(commits, publisher.module)
  BY <1>1 DEF JobsOK
<1>3. publisher.phase # "waiting" =>
        publisher.module \in Modules /\ Version \in Versions
  BY <1>2 DEF Admitted, Modules, Version
<1>. QED
  BY <1>1, <1>2, <1>3 DEF JobsOK

\* What waited has published nothing.
LEMMA EndIsSound ==
    ASSUME IInv, PublicFrame, UNCHANGED dispatches, publisher # None, Ends
    PROVE  JobsOK' /\ CleanUpIsSafe'
<1>1. commits' = commits /\ Commit' = Commit
  BY DEF PublicFrame, sources, Commit
<1>2. /\ publisher' = pending /\ pending' = None
      /\ dispatches' = dispatches /\ dispatches \in 0..MaxDispatches
      /\ pending \in PublishJobs \cup {None}
      /\ pending # None =>
             pending.phase = "waiting" /\ pending.commit \in Commit /\ ~pending.created
  BY DEF Ends, IInv, JobsOK
<1>3. publisher' # None =>
        /\ publisher'.phase = "waiting" /\ publisher'.commit \in Commit'
        /\ ~publisher'.created
  BY <1>1, <1>2
<1>4. CleanUpIsSafe'
  BY <1>3 DEF CleanUpIsSafe
<1>5. dispatches' \in 0..MaxDispatches /\ {publisher', pending'} \subseteq PublishJobs \cup {None}
  BY <1>2
<1>. QED
  BY <1>2, <1>3, <1>4, <1>5 DEF JobsOK

\* A job that runs on, with its module.
LEMMA MoveIsSound ==
    ASSUME IInv, PublicFrame, UNCHANGED <<dispatches, pending>>,
           publisher # None, publisher' \in PublishJobs,
           publisher'.commit = publisher.commit,
           publisher'.phase # "waiting",
           Admitted(commits, publisher'.module),
           publisher'.created <=>
               publisher'.phase \in {"created", "verified", "cleanup"}
    PROVE  JobsOK'
<1>1. commits' = commits /\ Commit' = Commit
  BY DEF PublicFrame, sources, Commit
<1>2. /\ pending' = pending /\ dispatches' = dispatches
      /\ dispatches \in 0..MaxDispatches
      /\ pending \in PublishJobs \cup {None} /\ publisher.commit \in Commit
      /\ pending # None =>
             pending.phase = "waiting" /\ pending.commit \in Commit /\ ~pending.created
  BY DEF IInv, JobsOK
<1>3. publisher' # None /\ publisher'.module # None
  BY NothingIsNone DEF Admitted
<1>4. pending' # None =>
        /\ publisher' # None /\ pending'.phase = "waiting"
        /\ pending'.commit \in Commit' /\ ~pending'.created
  BY <1>1, <1>2, <1>3
<1>5. Admitted(commits', publisher'.module) /\ publisher'.commit \in Commit'
  BY <1>1, <1>2
<1>6. dispatches' \in 0..MaxDispatches /\ {publisher', pending'} \subseteq PublishJobs \cup {None}
  BY <1>2
<1>. QED
  BY <1>3, <1>4, <1>5, <1>6 DEF JobsOK

LEMMA GoingOnIsSound ==
    ASSUME IInv, PublicFrame, UNCHANGED dispatches, publisher # None,
           publisher.phase # "waiting",
           NEW phase \in PublishPhases \ {"waiting"},
           publisher.created <=> phase \in {"created", "verified", "cleanup"},
           GoesOn(phase)
    PROVE  /\ JobsOK' /\ Version' = Version
           /\ publisher'.created <=> publisher.created
<1>1. publisher' = [publisher EXCEPT !.phase = phase] /\ pending' = pending
  BY DEF GoesOn
<1>2. publisher \in PublishJobs /\ Admitted(commits, publisher.module)
  BY RunningJob
<1>3. /\ publisher' \in PublishJobs /\ publisher'.phase = phase
      /\ publisher'.commit = publisher.commit
      /\ publisher'.created = publisher.created
      /\ publisher'.module = publisher.module
  BY <1>1, <1>2 DEF PublishJobs
<1>4. Version' = Version
  BY <1>3 DEF Version
<1>5. Admitted(commits, publisher'.module)
  BY <1>2, <1>3
<1>6. publisher'.created <=> publisher'.phase \in {"created", "verified", "cleanup"}
  BY <1>3
<1>7. publisher'.phase # "waiting"
  BY <1>3
<1>. QED
  BY <1>1, <1>3, <1>4, <1>5, <1>6, <1>7, MoveIsSound

LEMMA DispatchStep ==
    ASSUME IInv, Dispatch
    PROVE  IInv'
<1>. DEFINE new == [commit |-> Len(commits), stamp |-> dispatches + 1,
                    phase |-> "waiting", created |-> FALSE, module |-> None]
<1>1. /\ PublicFrame /\ UNCHANGED <<commits, public>>
      /\ dispatches < MaxDispatches /\ dispatches' = dispatches + 1
      /\ \/ publisher = None /\ publisher' = new /\ pending' = pending
         \/ publisher # None /\ pending' = new /\ publisher' = publisher
  BY DEF Dispatch, PublicFrame, sources
<1>2. JobsOK /\ MainOK /\ CleanUpIsSafe
  BY DEF IInv
<1>3. MaxDispatches \in Nat /\ dispatches \in 0..MaxDispatches
  BY <1>2, ReleaseAssumption DEF JobsOK
<1>4. Len(commits) \in Commit /\ Len(commits) \in Nat /\ Commit' = Commit
  BY <1>1, <1>2, CommitsAreNumbered DEF Commit
<1>5. /\ new \in PublishJobs /\ new.phase = "waiting" /\ new.commit \in Commit
      /\ ~new.created
  BY <1>3, <1>4 DEF PublishJobs, PublishPhases
<1>6. dispatches' \in 0..MaxDispatches
  BY <1>1, <1>3
<1>. HIDE DEF new
<1>7. new # None
  BY <1>5, NothingIsNone
<1>8. CASE publisher = None
  <2>1. publisher' = new /\ pending = None /\ pending' = None
    BY <1>1, <1>2, <1>8 DEF JobsOK
  <2>2. JobsOK'
    BY <1>4, <1>5, <1>6, <1>7, <2>1 DEF JobsOK
  <2>3. CleanUpIsSafe'
    BY <1>5, <2>1 DEF CleanUpIsSafe
  <2>. QED
    BY <1>1, <2>2, <2>3, PublicStays, PublicAlone
<1>9. CASE publisher # None
  <2>1. publisher' = publisher /\ pending' = new /\ commits' = commits
    BY <1>1, <1>9
  <2>2. JobsOK'
    BY <1>2, <1>4, <1>5, <1>6, <1>9, <2>1 DEF JobsOK
  <2>3. CleanUpIsSafe'
    BY <1>1, <1>2, <2>1 DEF CleanUpIsSafe, Version, public
  <2>. QED
    BY <1>1, <2>2, <2>3, PublicStays, PublicAlone
<1>. QED
  BY <1>8, <1>9

LEMMA AssembleStep ==
    ASSUME IInv, Assemble
    PROVE  IInv'
<1>. DEFINE c == publisher.commit
            module == Signed(evidence[c], c, publisher.stamp)
<1>1. /\ PublicFrame /\ UNCHANGED <<dispatches, public>>
      /\ publisher # None /\ publisher.phase = "waiting"
      /\ \/ Ends
         \/ /\ evidence[c] # None /\ ValidAssets(module, commits[c])
            /\ publisher' = [publisher EXCEPT !.phase = "assembled", !.module = module]
            /\ pending' = pending
  BY DEF Assemble, PublishStep, PublicFrame
<1>2. CASE Ends
  BY <1>1, <1>2, EndIsSound, PublicStays, PublicAlone
<1>3. CASE /\ evidence[c] # None /\ ValidAssets(module, commits[c])
           /\ publisher' = [publisher EXCEPT !.phase = "assembled", !.module = module]
           /\ pending' = pending
  <2>1. publisher \in PublishJobs /\ c \in Commit /\ ~publisher.created
    BY <1>1, RunningJob
  <2>2. c \in 1..MaxCommits /\ c \in Nat
    BY <2>1, CommitsAreNumbered DEF IInv
  <2>3. evidence[c] \in Catalogs /\ FromReview(commits[c], evidence[c])
    BY <1>3, <2>2 DEF IInv, EvidenceOK
  <2>4. IsFiniteSet(evidence[c].logical.products)
    <3>1. evidence[c].logical.products \in SUBSET Products
      BY <2>3 DEF FromReview, SoundLogical, Logicals
    <3>. QED
      BY <3>1, BuildAssumption, FS_Subset
  <2>5. Cardinality(evidence[c].logical.products) \in Nat
    BY <2>4, FS_CardinalityType
  <2>6. /\ module.version = evidence[c].version /\ module.commit = c
        /\ module.catalog = evidence[c]
    BY DEF Signed
  <2>7. module \in Modules
    <3>1. evidence[c].version \in Versions
      BY <2>3 DEF FromReview
    <3>2. publisher.stamp \in Nat
      BY <2>1 DEF PublishJobs
    <3>. QED
      BY <2>2, <2>3, <2>5, <3>1, <3>2 DEF Modules, Signed
  <2>. HIDE DEF module
  <2>8. Trusted(module, commits[c])
    BY <1>3 DEF ValidAssets
  <2>9. Admitted(commits, module)
    BY <2>1, <2>3, <2>6, <2>7, <2>8 DEF Admitted, Commit
  <2>10. /\ publisher' \in PublishJobs /\ publisher'.commit = c
         /\ publisher'.phase = "assembled" /\ publisher'.module = module
         /\ ~publisher'.created
    BY <1>3, <2>1, <2>7 DEF PublishJobs, PublishPhases
  <2>11. JobsOK'
    <3>1. Admitted(commits, publisher'.module)
      BY <2>9, <2>10
    <3>2. publisher'.created <=>
            publisher'.phase \in {"created", "verified", "cleanup"}
      BY <2>10
    <3>. QED
      BY <1>1, <1>3, <2>10, <3>1, <3>2, MoveIsSound
  <2>12. CleanUpIsSafe'
    BY <2>10 DEF CleanUpIsSafe
  <2>. QED
    BY <1>1, <2>11, <2>12, PublicStays, PublicAlone
<1>. QED
  BY <1>1, <1>2, <1>3

LEMMA RefuseReuseStep ==
    ASSUME IInv, RefuseReuse
    PROVE  IInv'
<1>1. /\ PublicFrame /\ UNCHANGED <<dispatches, public>>
      /\ publisher # None /\ publisher.phase = "assembled"
      /\ Ends \/ GoesOn("checked")
  BY DEF RefuseReuse, PublishStep, PublicFrame
<1>2. CASE Ends
  BY <1>1, <1>2, EndIsSound, PublicStays, PublicAlone
<1>3. CASE GoesOn("checked")
  <2>1. ~publisher.created /\ "checked" \in PublishPhases \ {"waiting"}
    BY <1>1, RunningJob DEF PublishPhases
  <2>2. JobsOK' /\ ~publisher'.created
    BY <1>1, <1>3, <2>1, GoingOnIsSound
  <2>. QED
    BY <1>1, <2>2, PublicStays, PublicAlone DEF CleanUpIsSafe
<1>. QED
  BY <1>1, <1>2, <1>3

LEMMA VerifyStep ==
    ASSUME IInv, Verify
    PROVE  IInv'
<1>1. /\ PublicFrame /\ UNCHANGED <<dispatches, public>>
      /\ publisher # None /\ publisher.phase = "created"
  BY DEF Verify, PublishStep, PublicFrame
<1>2. PICK phase \in {"verified", "cleanup"} : GoesOn(phase)
  BY DEF Verify
<1>3. publisher.created /\ phase \in PublishPhases \ {"waiting"}
  BY <1>1, RunningJob DEF PublishPhases
<1>4. JobsOK' /\ Version' = Version
  BY <1>1, <1>2, <1>3, GoingOnIsSound
<1>5. CleanUpIsSafe'
  BY <1>1, <1>3, <1>4 DEF IInv, CleanUpIsSafe, public
<1>. QED
  BY <1>1, <1>4, <1>5, PublicStays, PublicAlone

LEMMA PublisherDiesStep ==
    ASSUME IInv, PublisherDies
    PROVE  IInv'
<1>1. /\ PublicFrame /\ UNCHANGED <<dispatches, public>>
      /\ publisher # None /\ Ends
  BY DEF PublisherDies, PublicFrame
<1>. QED
  BY <1>1, EndIsSound, PublicStays, PublicAlone

-----------------------------------------------------------------------------
(* The steps of a publish job that change the public release.               *)

\* What the public release of one version becomes leaves the others alone.
LEMMA ReleaseUpdated ==
    ASSUME IInv, NEW v \in Versions, NEW new,
           releases' = [releases EXCEPT ![v] = new]
    PROVE  /\ releases'[v] = new
           /\ \A w \in Versions \ {v} : releases'[w] = releases[w]
           /\ new \in Releases \cup {None} =>
                  releases' \in [Versions -> Releases \cup {None}]
BY DEF IInv, PublicOK

\* A version whose release is created is a version nobody was served, or one
\* with a lost answer.
LEMMA FreeVersion ==
    ASSUME IInv, NEW v \in Versions, releases[v] = None
    PROVE  served[v] = {} \/ v \in lost
BY DEF IInv, StableIsKept

LEMMA ReleaseIsSound ==
    ASSUME IInv, NEW v \in Versions, NEW new \in Releases \cup {None},
           new # None => new.module.version = v /\ Admitted(commits, new.module),
           served[v] = {} \/ v \in lost,
           releases' = [releases EXCEPT ![v] = new],
           UNCHANGED <<commits, served, lost>>
    PROVE  PublicOK' /\ StableIsKept'
<1>1. /\ releases'[v] = new
      /\ \A w \in Versions \ {v} : releases'[w] = releases[w]
      /\ releases' \in [Versions -> Releases \cup {None}]
  BY ReleaseUpdated
<1>2. PublicOK /\ StableIsKept /\ commits' = commits /\ served' = served /\ lost' = lost
  BY DEF IInv
<1>3. ASSUME NEW w \in Versions, releases'[w] # None
      PROVE  /\ releases'[w].module.version = w
             /\ Admitted(commits, releases'[w].module)
  <2>1. CASE w = v
    BY <1>1, <1>3, <2>1
  <2>2. CASE w # v
    BY <1>1, <1>2, <1>3, <2>2 DEF PublicOK
  <2>. QED
    BY <2>1, <2>2
<1>4. PublicOK'
  <2>1. /\ served' \in [Versions -> SUBSET Modules]
        /\ \A w \in Versions : \A m \in served'[w] :
               m.version = w /\ Admitted(commits', m)
        /\ lost' \subseteq Versions
    BY <1>2 DEF PublicOK
  <2>2. \A w \in Versions : releases'[w] # None =>
            /\ releases'[w].module.version = w
            /\ Admitted(commits', releases'[w].module)
    BY <1>2, <1>3
  <2>. QED
    BY <1>1, <2>1, <2>2 DEF PublicOK
<1>5. StableIsKept'
  BY <1>1, <1>2 DEF StableIsKept
<1>. QED
  BY <1>4, <1>5

LEMMA CreateStep ==
    ASSUME IInv, Create
    PROVE  IInv'
<1>. DEFINE New(state) == [state |-> state, module |-> publisher.module]
<1>1. /\ PublicFrame /\ UNCHANGED <<commits, dispatches, served, lost>>
      /\ publisher # None /\ publisher.phase = "checked"
      /\ \/ /\ releases[Version] = None /\ Ends
            /\ \E state \in {"draft", "prerelease"} :
                   releases' = [releases EXCEPT ![Version] = New(state)]
         \/ /\ releases[Version] = None
            /\ releases' = [releases EXCEPT ![Version] = New("prerelease")]
            /\ publisher' = [publisher EXCEPT !.phase = "created", !.created = TRUE]
            /\ pending' = pending
         \/ Ends /\ UNCHANGED releases
  BY DEF Create, PublishStep, PublicFrame, sources
<1>2. /\ publisher \in PublishJobs /\ publisher.module \in Modules
      /\ Admitted(commits, publisher.module) /\ Version \in Versions
  BY <1>1, RunningJob
<1>3. ASSUME NEW state \in {"draft", "prerelease"}, releases[Version] = None,
             releases' = [releases EXCEPT ![Version] = New(state)]
      PROVE  PublicOK' /\ StableIsKept'
  <2>1. New(state) \in Releases /\ New(state).module = publisher.module
    BY <1>2 DEF Releases
  <2>. HIDE DEF New
  <2>2. New(state).module.version = Version /\ Admitted(commits, New(state).module)
    BY <1>2, <2>1 DEF Version
  <2>3. served[Version] = {} \/ Version \in lost
    BY <1>2, <1>3, FreeVersion
  <2>. QED
    BY <1>1, <1>2, <1>3, <2>1, <2>2, <2>3, ReleaseIsSound
<1>4. CASE /\ releases[Version] = None /\ Ends
           /\ \E state \in {"draft", "prerelease"} :
                  releases' = [releases EXCEPT ![Version] = New(state)]
  <2>1. PublicOK' /\ StableIsKept'
    BY <1>3, <1>4
  <2>. QED
    BY <1>1, <1>4, <2>1, EndIsSound, PublicAlone
<1>5. CASE /\ releases[Version] = None
           /\ releases' = [releases EXCEPT ![Version] = New("prerelease")]
           /\ publisher' = [publisher EXCEPT !.phase = "created", !.created = TRUE]
           /\ pending' = pending
  <2>1. PublicOK' /\ StableIsKept'
    BY <1>3, <1>5
  <2>2. /\ publisher' \in PublishJobs /\ publisher'.commit = publisher.commit
        /\ publisher'.phase = "created" /\ publisher'.created
        /\ publisher'.module = publisher.module
    BY <1>2, <1>5 DEF PublishJobs, PublishPhases
  <2>3. JobsOK'
    <3>1. Admitted(commits, publisher'.module)
      BY <1>2, <2>2
    <3>2. publisher'.created <=>
            publisher'.phase \in {"created", "verified", "cleanup"}
      BY <2>2
    <3>. QED
      BY <1>1, <1>5, <2>2, <3>1, <3>2, MoveIsSound
  <2>4. CleanUpIsSafe'
    <3>1. served[Version] = {} \/ Version \in lost
      BY <1>2, <1>5, FreeVersion
    <3>2. Version' = Version /\ served' = served /\ lost' = lost
      BY <1>1, <2>2 DEF Version
    <3>. QED
      BY <3>1, <3>2 DEF CleanUpIsSafe
  <2>. QED
    BY <1>1, <2>1, <2>3, <2>4, PublicAlone
<1>6. CASE Ends /\ UNCHANGED releases
  <2>1. UNCHANGED public
    BY <1>1, <1>6 DEF public
  <2>. QED
    BY <1>1, <1>6, <2>1, EndIsSound, PublicStays, PublicAlone
<1>. QED
  BY <1>1, <1>4, <1>5, <1>6

\* The stable edit of a job that created its release: what was served of the
\* version before, if anything, was served before an answer was lost.
LEMMA StabilizeIsSound ==
    ASSUME IInv, publisher # None, publisher.phase = "verified", Stabilize,
           UNCHANGED commits, lost \subseteq lost', lost' \subseteq Versions
    PROVE  PublicOK' /\ StableIsKept'
<1>. DEFINE new == [releases[Version] EXCEPT !.state = "stable"]
            m == releases[Version].module
<1>1. Version \in Versions /\ (served[Version] = {} \/ Version \in lost)
  BY RunningJob DEF IInv, CleanUpIsSafe
<1>2. PublicOK /\ StableIsKept
  BY DEF IInv
<1>3. releases[Version] \in Releases /\ m.version = Version /\ Admitted(commits, m)
  BY <1>1, <1>2 DEF Stabilize, PublicOK
<1>4. new \in Releases /\ new.state = "stable" /\ new.module = m /\ m \in Modules
  BY <1>3 DEF Releases
<1>5. /\ releases' = [releases EXCEPT ![Version] = new]
      /\ served' = [served EXCEPT ![Version] = @ \cup {m}]
  BY DEF Stabilize
<1>. HIDE DEF new, m
<1>6. /\ releases'[Version] = new
      /\ \A w \in Versions \ {Version} : releases'[w] = releases[w]
      /\ releases' \in [Versions -> Releases \cup {None}]
  BY <1>1, <1>4, <1>5, ReleaseUpdated
<1>7. /\ served'[Version] = served[Version] \cup {m}
      /\ \A w \in Versions \ {Version} : served'[w] = served[w]
      /\ served' \in [Versions -> SUBSET Modules]
  BY <1>1, <1>2, <1>4, <1>5 DEF PublicOK
<1>8. new # None
  BY <1>4, NothingIsNone
<1>9. PublicOK'
  <2>1. \A w \in Versions : releases'[w] # None =>
            /\ releases'[w].module.version = w
            /\ Admitted(commits', releases'[w].module)
    BY <1>2, <1>3, <1>4, <1>6 DEF PublicOK
  <2>2. \A w \in Versions : \A x \in served'[w] :
            x.version = w /\ Admitted(commits', x)
    BY <1>2, <1>3, <1>7 DEF PublicOK
  <2>. QED
    BY <1>6, <1>7, <2>1, <2>2 DEF PublicOK
<1>10. StableIsKept'
  <2>1. ASSUME NEW w \in Versions, served'[w] # {}, w \notin lost'
        PROVE  /\ releases'[w] # None /\ releases'[w].state = "stable"
               /\ served'[w] = {releases'[w].module}
    <3>1. CASE w = Version
      BY <1>1, <1>4, <1>6, <1>7, <1>8, <2>1, <3>1
    <3>2. CASE w # Version
      BY <1>2, <1>6, <1>7, <2>1, <3>2 DEF StableIsKept
    <3>. QED
      BY <3>1, <3>2
  <2>. QED
    BY <2>1 DEF StableIsKept
<1>. QED
  BY <1>9, <1>10

LEMMA MarkStableStep ==
    ASSUME IInv, MarkStable
    PROVE  IInv'
<1>1. /\ PublicFrame /\ UNCHANGED <<commits, dispatches>>
      /\ publisher # None /\ publisher.phase = "verified"
      /\ \/ Stabilize /\ Ends /\ lost' = lost
         \/ Stabilize /\ GoesOn("cleanup") /\ lost' = lost \cup {Version}
         \/ GoesOn("cleanup") /\ UNCHANGED public
  BY DEF MarkStable, PublishStep, PublicFrame, sources
<1>2. Version \in Versions /\ publisher.created /\ lost \subseteq Versions
  BY <1>1, RunningJob DEF IInv, PublicOK
<1>3. "cleanup" \in PublishPhases \ {"waiting"}
  BY DEF PublishPhases
<1>4. CASE Stabilize /\ Ends /\ lost' = lost
  <2>1. PublicOK' /\ StableIsKept'
    BY <1>1, <1>2, <1>4, StabilizeIsSound
  <2>. QED
    BY <1>1, <1>4, <2>1, EndIsSound, PublicAlone
<1>5. CASE Stabilize /\ GoesOn("cleanup") /\ lost' = lost \cup {Version}
  <2>1. PublicOK' /\ StableIsKept'
    BY <1>1, <1>2, <1>5, StabilizeIsSound
  <2>2. JobsOK' /\ Version' = Version
    BY <1>1, <1>2, <1>3, <1>5, GoingOnIsSound
  <2>3. CleanUpIsSafe'
    BY <1>5, <2>2 DEF CleanUpIsSafe
  <2>. QED
    BY <1>1, <2>1, <2>2, <2>3, PublicAlone
<1>6. CASE GoesOn("cleanup") /\ UNCHANGED public
  <2>1. JobsOK' /\ Version' = Version
    BY <1>1, <1>2, <1>3, <1>6, GoingOnIsSound
  <2>2. CleanUpIsSafe'
    BY <1>1, <1>2, <1>6, <2>1 DEF IInv, CleanUpIsSafe, public
  <2>. QED
    BY <1>1, <1>6, <2>1, <2>2, PublicStays, PublicAlone
<1>. QED
  BY <1>1, <1>4, <1>5, <1>6

LEMMA CleanUpStep ==
    ASSUME IInv, CleanUp
    PROVE  IInv'
<1>1. /\ PublicFrame /\ UNCHANGED <<commits, dispatches, served, lost>>
      /\ publisher # None /\ publisher.phase = "cleanup" /\ publisher.created
      /\ Ends
      /\ releases' = [releases EXCEPT ![Version] = None] \/ releases' = releases
  BY DEF CleanUp, PublishStep, PublicFrame, sources
<1>2. Version \in Versions /\ (served[Version] = {} \/ Version \in lost)
  BY <1>1, RunningJob DEF IInv, CleanUpIsSafe
<1>3. CASE releases' = [releases EXCEPT ![Version] = None]
  BY <1>1, <1>2, <1>3, ReleaseIsSound, EndIsSound, PublicAlone
<1>4. CASE releases' = releases
  <2>1. UNCHANGED public
    BY <1>1, <1>4 DEF public
  <2>. QED
    BY <1>1, <2>1, EndIsSound, PublicStays, PublicAlone
<1>. QED
  BY <1>1, <1>3, <1>4

-----------------------------------------------------------------------------
(* The invariant holds in the initial state, and every step keeps it.       *)

LEMMA InitIsSound ==
    ASSUME Init
    PROVE  IInv
<1>. DEFINE tree == [receipt |-> None, bundle |-> None, rights |-> 0,
                     quality |-> 0, active |-> TRUE, revoked |-> {}]
<1>1. /\ commits = <<tree>> /\ runs = <<>> /\ pulls = {} /\ job = None
      /\ evidence = [c \in 1..MaxCommits |-> None]
      /\ publisher = None /\ pending = None /\ dispatches = 0
      /\ releases = [v \in Versions |-> None]
      /\ served = [v \in Versions |-> {}] /\ lost = {}
  BY DEF Init
<1>2. SoundTree(tree)
  BY DEF SoundTree
<1>3. MaxCommits \in Nat \ {0} /\ MaxRuns \in Nat /\ MaxDispatches \in Nat
  BY ReleaseAssumption
<1>. HIDE DEF tree
<1>4. MainOK
  <2>1. Len(commits) = 1 /\ commits[1] = tree /\ commits = [i \in 1..1 |-> tree]
    BY <1>1
  <2>2. IsSequence(commits)
    BY <2>1 DEF IsSequence
  <2>3. Commit = {1}
    BY <2>1 DEF Commit
  <2>4. 1 \in 1..MaxCommits
    BY <1>3
  <2>. QED
    BY <1>1, <1>2, <2>1, <2>2, <2>3, <2>4 DEF MainOK
<1>5. RunsOK
  <2>1. DOMAIN runs = {} /\ IsSequence(runs) /\ Len(runs) = 0
    BY <1>1, EmptySequence
  <2>. QED
    BY <1>3, <2>1 DEF RunsOK
<1>6. JobOK /\ EvidenceOK /\ JobsOK
  BY <1>1, <1>3 DEF JobOK, EvidenceOK, JobsOK
<1>7. PublicOK /\ CleanUpIsSafe /\ StableIsKept
  BY <1>1 DEF PublicOK, CleanUpIsSafe, StableIsKept
<1>. QED
  BY <1>4, <1>5, <1>6, <1>7 DEF IInv

LEMMA RunStepIsSound ==
    ASSUME IInv, NEW r \in DOMAIN runs,
           \/ RunAgain(r) \/ Build(r) \/ Propose(r) \/ Expire(r)
           \/ \E input \in Inputs : Compose(r, input)
           \/ \E passes \in BOOLEAN : Quality(r, passes)
    PROVE  IInv'
BY RunAgainStep, BuildStep, ProposeStep, ExpireStep, ComposeStep, QualityStep

LEMMA NothingChanges ==
    ASSUME IInv, UNCHANGED vars
    PROVE  IInv'
<1>1. JobFrame /\ UNCHANGED <<commits, evidence, job>>
  BY DEF vars, sources, JobFrame
<1>2. JobOK'
  BY <1>1 DEF IInv, JobOK, Commit
<1>. QED
  BY <1>1, <1>2, EvidenceStays, JobAlone

LEMMA EveryStepIsSound ==
    ASSUME IInv, [Next]_vars
    PROVE  IInv'
<1>1. CASE UNCHANGED vars
  BY <1>1, NothingChanges
<1>2. CASE \/ EditPolicies \/ EditTrust \/ DropReceipt
           \/ \E b \in Bundles : CommitBundle(b)
           \/ \E receipt \in pulls : MergeReceipt(receipt)
  BY <1>2, MainStep
<1>3. CASE \E v \in Versions, s \in Snapshots : StartRun(v, s)
  BY <1>3, StartRunStep
<1>4. ASSUME NEW r \in DOMAIN runs,
             \/ RunAgain(r) \/ Build(r) \/ Propose(r) \/ Expire(r)
             \/ \E input \in Inputs : Compose(r, input)
             \/ \E passes \in BOOLEAN : Quality(r, passes)
      PROVE  IInv'
  BY <1>4, RunStepIsSound
<1>5. CASE (\E c \in Commit : StartRelease(c)) \/ Download \/ Emit \/ ReleaseDies
  BY <1>5, StartReleaseStep, DownloadStep, EmitStep, ReleaseDiesStep
<1>6. CASE Dispatch \/ Assemble \/ RefuseReuse \/ Create \/ Verify \/ MarkStable
           \/ CleanUp \/ PublisherDies
  BY <1>6, DispatchStep, AssembleStep, RefuseReuseStep, CreateStep, VerifyStep,
     MarkStableStep, CleanUpStep, PublisherDiesStep
<1>. QED
  BY <1>1, <1>2, <1>3, <1>4, <1>5, <1>6 DEF Next

LEMMA InvariantHolds == Spec => []IInv
<1>1. Init => IInv
  BY InitIsSound
<1>2. IInv /\ [Next]_vars => IInv'
  BY EveryStepIsSound
<1>. QED
  BY <1>1, <1>2, PTL DEF Spec

-----------------------------------------------------------------------------
(* What it says of the properties.                                          *)

LEMMA TypesFollow ==
    ASSUME IInv
    PROVE  ReleaseTypeOK
<1>1. \A c \in Commit : commits[c].revoked \subseteq Versions
  BY DEF IInv, MainOK, SoundTree
<1>2. Len(commits) \in 1..MaxCommits /\ Len(runs) \in 0..MaxRuns
  BY DEF IInv, MainOK, RunsOK
<1>3. /\ evidence \in [1..MaxCommits -> Catalogs \cup {None}]
      /\ \A c \in DOMAIN evidence :
             evidence[c] # None => c \in Commit /\ evidence[c].commit = c
  BY DEF IInv, EvidenceOK
<1>4. job # None => job.commit \in Commit /\ Len(job.got) \in 0..3
  BY DEF IInv, JobOK
<1>5. JobsOK /\ PublicOK
  BY DEF IInv
<1>. QED
  BY <1>1, <1>2, <1>3, <1>4, <1>5 DEF ReleaseTypeOK, JobsOK, PublicOK

LEMMA ReviewFollows ==
    ASSUME IInv
    PROVE  StableIsReviewed
<1>1. SUFFICES ASSUME NEW v \in Versions, NEW m \in served[v]
               PROVE  LET tree == commits[m.commit]
                          receipt == tree.receipt
                      IN  /\ m.version = v /\ m.catalog.version = v
                          /\ tree.active /\ v \notin tree.revoked
                          /\ m.catalog.logical.rights = tree.rights
                          /\ IF receipt # None
                             THEN /\ receipt.version = v
                                  /\ m.catalog.logical = receipt.logical
                                  /\ m.catalog.report = receipt.inputs["quality"].payload
                             ELSE /\ tree.bundle # None /\ tree.bundle.version = v
                                  /\ m.catalog.logical.products =
                                         {row.gtin : row \in Rows(tree.bundle)}
  BY DEF StableIsReviewed
<1>2. m.version = v /\ Admitted(commits, m)
  BY DEF IInv, PublicOK
<1>. DEFINE tree == commits[m.commit]
<1>3. m.catalog.version = v /\ Trusted(m, tree) /\ FromReview(tree, m.catalog)
  BY <1>2 DEF Admitted
<1>4. tree.active /\ v \notin tree.revoked
  BY <1>2, <1>3 DEF Trusted
<1>. HIDE DEF tree
<1>5. /\ m.catalog.logical.rights = tree.rights
      /\ IF tree.receipt # None
         THEN /\ tree.receipt.version = v
              /\ m.catalog.logical = tree.receipt.logical
              /\ m.catalog.report = tree.receipt.inputs["quality"].payload
         ELSE /\ tree.bundle # None /\ tree.bundle.version = v
              /\ m.catalog.logical.products =
                     {row.gtin : row \in Rows(tree.bundle)}
  BY <1>3 DEF FromReview
<1>. QED
  BY <1>2, <1>3, <1>4, <1>5 DEF tree

LEMMA AttachmentFollows ==
    ASSUME IInv
    PROVE  RetailerOnlyAttaches
<1>1. ASSUME NEW r \in DOMAIN runs, runs[r].artifacts["evidence"] # None
      PROVE  LET handoff == runs[r].artifacts["evidence"]
             IN  /\ handoff.payload.selected = runs[r].primary.selected
                 /\ Attaches(handoff.payload.attached, handoff.payload.offers,
                             DOMAIN handoff.payload.sources)
  <2>1. SoundRun(runs[r], Len(commits))
    BY DEF IInv, RunsOK
  <2>2. /\ SoundEnvelope(runs[r].artifacts["evidence"].payload)
        /\ runs[r].artifacts["evidence"].payload.selected = runs[r].primary.selected
    BY <1>1, <2>1 DEF SoundRun
  <2>. QED
    BY <2>2 DEF SoundEnvelope
<1>2. ASSUME NEW v \in Versions, NEW m \in served[v]
      PROVE  /\ DOMAIN m.catalog.logical.attached = m.catalog.logical.products
             /\ Attaches(m.catalog.logical.attached, Offers,
                         DOMAIN m.catalog.logical.sources)
  <2>1. Admitted(commits, m)
    BY DEF IInv, PublicOK
  <2>2. SoundLogical(m.catalog.logical)
    BY <2>1 DEF Admitted, FromReview
  <2>. QED
    BY <2>2 DEF SoundLogical
<1>. QED
  BY <1>1, <1>2 DEF RetailerOnlyAttaches

\* A usable record with anything to see is selected, and what is selected is
\* not excluded.
LEMMA PlainnessFollows ==
    ASSUME IInv
    PROVE  BasicIsPlain
<1>1. SUFFICES ASSUME NEW r \in DOMAIN runs,
                      runs[r].phase \in {"propose", "proposed"},
                      runs[r].artifacts["catalog"] # None,
                      NEW record \in runs[r].delivered.records,
                      Gtin(record.code) \in
                          runs[r].artifacts["catalog"].payload.logical.exclusions,
                      ~Unusable(Candidate(record))
               PROVE  Plain(record)
  BY DEF BasicIsPlain
<1>. DEFINE candidates == Candidates(runs[r].delivered)
            c == Candidate(record)
            exclusions == runs[r].artifacts["catalog"].payload.logical.exclusions
<1>2. /\ runs[r].delivered \in Inputs
      /\ exclusions \cap Selected(candidates) = {}
  <2>1. SoundRun(runs[r], Len(commits))
    BY DEF IInv, RunsOK
  <2>. QED
    BY <1>1, <2>1 DEF SoundRun, Excludes
<1>3. c \in candidates /\ c.code = record.code
  BY DEF Candidates, Candidate
<1>4. ~Signalled(c)
  <2>1. SUFFICES ASSUME Signalled(c) PROVE FALSE
    OBVIOUS
  <2>2. Decision(c) = "include-detailed"
    BY <1>1, <2>1, Decisions
  <2>. HIDE DEF candidates, c, exclusions
  <2>3. Gtin(c.code) \in Selected(candidates)
    BY <1>3, <2>2 DEF Selected, Decided
  <2>. QED
    BY <1>1, <1>2, <1>3, <2>3 DEF exclusions
<1>5. Deliverable(record)
  BY <1>2, ReleaseAssumption
<1>6. /\ "review" \in SelectionPolicy.evidence
      /\ "additive" \in SelectionPolicy.formulation
  BY SignalsAssumption
<1>7. /\ c.evidence \cap SelectionPolicy.evidence = {}
      /\ c.formulation \cap SelectionPolicy.formulation = {}
      /\ ~(c.count # None /\ c.count > 1) /\ ~(c.text /\ c.count = None)
  BY <1>4 DEF Signalled, Meet
<1>8. ~record.halal
  BY <1>6, <1>7 DEF Candidate
<1>9. ~record.additive /\ record.words = {}
  <2>1. /\ record.words \subseteq c.formulation
        /\ record.additive => "additive" \in c.formulation
    BY DEF Candidate
  <2>2. record.words \subseteq SelectionPolicy.formulation
    BY <1>5 DEF Deliverable
  <2>. HIDE DEF c
  <2>. QED
    BY <1>6, <1>7, <2>1, <2>2
<1>10. IF record.count = None THEN ~record.text ELSE record.count <= 1
  <2>1. c.count = record.count /\ c.text = record.text
    BY DEF Candidate
  <2>2. record.count \in Nat \cup {None}
    BY <1>5 DEF Deliverable
  <2>. HIDE DEF c
  <2>. QED
    BY <1>7, <2>1, <2>2
<1>. QED
  BY <1>8, <1>9, <1>10 DEF Plain

-----------------------------------------------------------------------------
(* The variables have their types, a catalog is the evidence of its own     *)
(* commit, and a publish job waits only behind another.                     *)
THEOREM TypesHold == Spec => []ReleaseTypeOK
<1>1. IInv => ReleaseTypeOK
  BY TypesFollow
<1>. QED
  BY <1>1, InvariantHolds, PTL

(* Whatever is edited, merged, run again, downloaded and dispatched in      *)
(* whatever order: the module that is served under a version was made at a  *)
(* commit that admits its key and identity, from what that commit's receipt *)
(* names or from its committed source set.                                  *)
THEOREM StableStaysReviewed == Spec => []StableIsReviewed
<1>1. IInv => StableIsReviewed
  BY ReviewFollows
<1>. QED
  BY <1>1, InvariantHolds, PTL

(* Neither in the evidence of a run nor in a served catalog does a record   *)
(* of a shop make a product, or speak of another product than its own.      *)
THEOREM RetailersOnlyAttach == Spec => []RetailerOnlyAttaches
<1>1. IInv => RetailerOnlyAttaches
  BY AttachmentFollows
<1>. QED
  BY <1>1, InvariantHolds, PTL

(* A product is waved through as basic only when no usable record of it     *)
(* says anything a reader might want to see, for every selection policy     *)
(* that knows the signals and every delivery that the normalization accepts.*)
THEOREM BasicStaysPlain == Spec => []BasicIsPlain
<1>1. IInv => BasicIsPlain
  BY PlainnessFollows
<1>. QED
  BY <1>1, InvariantHolds, PTL

(* What was stable once stays the one stable release of its version, unless *)
(* the answer to its own edit was lost.                                     *)
THEOREM StableStays == Spec => []StableIsKept
<1>1. IInv => StableIsKept
  BY DEF IInv
<1>. QED
  BY <1>1, InvariantHolds, PTL

=============================================================================
