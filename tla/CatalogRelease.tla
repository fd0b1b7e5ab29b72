--------------------------- MODULE CatalogRelease ---------------------------
(***************************************************************************)
(* From a manual production run of scheduled-catalog-refresh.yml over its   *)
(* proposal and the merge of its receipt, and catalog-release.yml, which    *)
(* makes the reviewed catalog again on main, to the public release of       *)
(* catalog-module-release.yml.                                              *)
(*                                                                          *)
(* Each workflow is a process that its runner may lose at any step.  The    *)
(* artifacts of a run can be replaced by running its jobs again, and expire.*)
(***************************************************************************)
EXTENDS CatalogBuild

CONSTANTS
    Versions,       \* catalog versions; one names a module and its release
    Snapshots,      \* snapshot identifiers an operator may choose
    Inputs,         \* what the sources may deliver: [records, observed]
    Bundles,        \* source sets a maintainer may commit
    MaxCommits, MaxRuns, MaxAttempts, MaxDispatches    \* bounds of the model

(* assemble_manifest(), the state of the public release, a publish job.     *)
Modules == [version : Versions, catalog : Catalogs, commit : Nat,
            products : Nat, stamp : Nat]
Releases == [state : {"draft", "prerelease", "stable"}, module : Modules]
PublishPhases == {"waiting", "assembled", "checked", "created", "verified",
                  "cleanup"}
PublishJobs == [commit : Nat, stamp : Nat, phase : PublishPhases,
                created : BOOLEAN, module : Modules \cup {None}]

(* What a source may say: its words are signals the policy knows, and Offers*)
(* holds all that its store tags make.                                      *)
Deliverable(record) ==
    /\ record.id \in Nat /\ record.count \in Nat \cup {None}
    /\ {record.halal, record.additive, record.text} \subseteq BOOLEAN
    /\ record.words \subseteq SelectionPolicy.formulation
    /\ Gtin(record.code) \in Products \cup {None}
    /\ Gtin(record.code) # None => RetailerRecords(Candidate(record)) \subseteq Offers

ASSUME ReleaseAssumption ==
    /\ Versions \subseteq Nat /\ Snapshots \subseteq Nat
    /\ \A input \in Inputs :
           /\ IsFiniteSet(input.records) /\ input.observed \subseteq Offers
           /\ \A record \in input.records : Deliverable(record)
    /\ Bundles \subseteq SourceBundles
    /\ \A b \in Bundles : b.version \in Versions
    /\ None \notin Logicals /\ None \notin Modules
    /\ None \notin Releases /\ None \notin PublishJobs
    /\ MaxCommits \in Nat \ {0}
    /\ {MaxRuns, MaxAttempts, MaxDispatches} \subseteq Nat

VARIABLES
    commits,    \* the trees of main, the last one its head
    runs,       \* production runs of the refresh workflow, by run number
    pulls,      \* receipts open for review
    job,        \* the catalog-release job that runs, or None
    evidence,   \* release evidence of a commit, or None
    publisher,  \* the publish job that runs or waits for approval, or None
    pending,    \* the publish job queued behind it, or None
    dispatches, \* publish jobs so far, the stamp of PUBLISHED_AT
    releases,   \* the public release of a version, or None
    served,     \* every module that was a stable release of a version
    lost        \* versions with a stable edit whose answer was lost

sources == <<commits, runs, pulls>>
public == <<releases, served, lost>>
vars == <<sources, job, evidence, publisher, pending, dispatches, public>>

Commit == DOMAIN commits
Main == commits[Len(commits)]

Init ==
    /\ commits = <<[receipt |-> None, bundle |-> None, rights |-> 0,
                    quality |-> 0, active |-> TRUE, revoked |-> {}]>>
    /\ runs = <<>> /\ pulls = {} /\ job = None
    /\ evidence = [c \in 1..MaxCommits |-> None]
    /\ publisher = None /\ pending = None /\ dispatches = 0
    /\ releases = [v \in Versions |-> None]
    /\ served = [v \in Versions |-> {}]
    /\ lost = {}

-----------------------------------------------------------------------------
(* Main: a commit changes the reviewed source policies, the quality policy, *)
(* the trust policy, the committed source set, or removes a receipt.        *)
Push(tree) ==
    /\ Len(commits) < MaxCommits
    /\ commits' = Append(commits, tree)
    /\ UNCHANGED <<runs, job, evidence, publisher, pending, dispatches, public>>

EditPolicies ==
    /\ \E field \in {"rights", "quality"} :
           Push([Main EXCEPT ![field] = @ + 1])
    /\ UNCHANGED pulls

EditTrust ==
    /\ \/ Push([Main EXCEPT !.active = ~@])
       \/ \E v \in Versions \ Main.revoked :
              Push([Main EXCEPT !.revoked = @ \cup {v}])
    /\ UNCHANGED pulls

(* The manifest of a source set binds the policies it was made under.       *)
Bound(b, tree) == [b EXCEPT !.rights = tree.rights, !.quality = tree.quality]

CommitBundle(b) ==
    /\ Main.bundle = None
    /\ Push([Main EXCEPT !.bundle = Bound(b, Main)])
    /\ UNCHANGED pulls

DropReceipt ==
    /\ Main.receipt # None
    /\ Push([Main EXCEPT !.receipt = None])
    /\ UNCHANGED pulls

(* A receipt is a file the base of its branch does not have: two of them    *)
(* conflict.                                                                *)
MergeReceipt(receipt) ==
    /\ Main.receipt = None
    /\ Push([Main EXCEPT !.receipt = receipt])
    /\ pulls' = pulls \ {receipt}

-----------------------------------------------------------------------------
(* A production run: both sources, the composition, its quality, the build  *)
(* and the proposal.  One is active at a time (the concurrency group).      *)

Ended == {"proposed", "failed"}
AllEnded == \A r \in DOMAIN runs : runs[r].phase \in Ended
NoArtifacts == [a \in {"evidence", "exclusions", "quality", "catalog"} |-> None]

Producer(r, workflow) ==
    [workflow |-> workflow, commit |-> runs[r].base, run |-> r]

StartRun(version, snapshot) ==
    /\ AllEnded /\ Len(runs) < MaxRuns
    /\ runs' = Append(runs,
           [base |-> Len(commits), version |-> version, snapshot |-> snapshot,
            attempt |-> 1, phase |-> "sources", artifacts |-> NoArtifacts,
            delivered |-> None, primary |-> None, retailer |-> None])
    /\ UNCHANGED <<commits, pulls, job, evidence, publisher, pending,
                   dispatches, public>>

Becomes(r, run) == runs' = [runs EXCEPT ![r] = run]

(* All jobs again: the same run, commit and inputs, and the artifacts stay  *)
(* until a job replaces them.                                               *)
RunAgain(r) ==
    /\ AllEnded /\ runs[r].attempt < MaxAttempts
    /\ Becomes(r, [runs[r] EXCEPT !.attempt = @ + 1, !.phase = "sources"])
    /\ UNCHANGED <<commits, pulls, job, evidence, publisher, pending,
                   dispatches, public>>

Fails(r) == Becomes(r, [runs[r] EXCEPT !.phase = "failed"])

RunStep(r, phase) ==
    /\ runs[r].phase = phase
    /\ UNCHANGED <<commits, job, evidence, publisher, pending, dispatches, public>>

(* What becomes of a delivery before the retailer's evidence joins it.      *)
Normalization ==
    [input \in Inputs |->
        LET candidates == {Candidate(record) : record \in input.records}
        IN  [accepted |-> ValidCandidates(candidates) /\ Projects(candidates),
             primary |-> [snapshot \in Snapshots |->
                             NormalizedSnapshot(candidates, snapshot)],
             excluded |-> Exclusions(candidates)]]

(* normalize-and-diff.yml of both sources and of their aggregate.           *)
Compose(r, input) ==
    LET off == runs[r].snapshot
        normalized == Normalization[input]
        primary == normalized.primary[off]
        retailer == Envelope([s \in {"op"} |-> r], {}, input.observed)
        merged == MergeEvidence(primary, retailer)
        from == Producer(r, "normalize-and-diff")
    IN  /\ RunStep(r, "sources")
        /\ IF normalized.accepted /\ Mergeable(primary, retailer, off, r)
           THEN Becomes(r, [runs[r] EXCEPT
                  !.phase = "quality", !.delivered = input,
                  !.primary = primary, !.retailer = retailer,
                  !.artifacts["evidence"] =
                      Handoff("normalized-evidence", "off", off, from, merged,
                              Cardinality(merged.selected)),
                  !.artifacts["exclusions"] =
                      Handoff("basic-exclusions", "off", off, from,
                              normalized.excluded,
                              Cardinality(normalized.excluded))])
           ELSE Fails(r)
        /\ UNCHANGED pulls

(* catalog-quality.yml of both sources and of their aggregate; an attempt   *)
(* is evaluated at its own time.                                            *)
Quality(r, passes) ==
    LET run == runs[r]
        at == run.attempt
        policy == commits[run.base].quality
        merged == run.artifacts["evidence"].payload
        base == Report(merged, "off", policy, at, passes)
    IN  /\ RunStep(r, "quality")
        /\ IF /\ ValidHandoff(run.artifacts["evidence"], "quality")
              /\ MergesQuality(base, Report(run.primary, "off", policy, at, passes),
                               Report(run.retailer, "op", policy, at, passes),
                               merged, run.retailer, policy)
           THEN Becomes(r, [run EXCEPT !.phase = "build",
                  !.artifacts["quality"] =
                      Handoff("quality-report", "off", run.snapshot,
                              Producer(r, "catalog-quality"), base, 1)])
           ELSE Fails(r)
        /\ UNCHANGED pulls

(* build_from_request() and the review of its manifest: the catalog of the  *)
(* inputs that a request asks for, or None when a check refuses it.         *)
Built(inputs, request) ==
    LET tree == commits[request.commit]
        payload == [i \in DOMAIN KindOf |-> inputs[i].payload]
        catalog == Indexed(Catalog(request.version, request.commit,
                                   payload["evidence"], payload["exclusions"],
                                   payload["quality"], tree.rights))
    IN  IF /\ ValidRequest(request)
           /\ BuildInputs(inputs["evidence"], inputs["quality"], inputs["exclusions"])
           /\ Compiles(payload["evidence"], payload["exclusions"],
                       payload["quality"], tree.quality, Range(request.policies))
           /\ ValidIndex(catalog)
           /\ Binds(catalog, request.expected)
           /\ BindsReport(catalog, payload["quality"])
           /\ ValidCatalog(catalog)
        THEN WithReview(catalog, payload["quality"])
        ELSE None

(* build-catalog.yml                                                        *)
Build(r) ==
    LET run == runs[r]
        catalog == Built(run.artifacts,
                         Request(run.version, run.base, None,
                                 <<"database", "manifest", "release-notes">>))
    IN  /\ RunStep(r, "build")
        /\ IF catalog # None
           THEN Becomes(r, [run EXCEPT !.phase = "propose",
                  !.artifacts["catalog"] =
                      Handoff("catalog-manifest", "aggregate", run.snapshot,
                              Producer(r, "build-catalog"), catalog, 1)])
           ELSE Fails(r)
        /\ UNCHANGED pulls

(* propose-catalog-update.yml: the receipt, in a pull request that must not *)
(* replace another one.                                                     *)
Propose(r) ==
    LET run == runs[r]
        inputs == [i \in DOMAIN KindOf |-> run.artifacts[i]]
    IN  /\ RunStep(r, "propose")
        /\ IF /\ Proposable(run.artifacts["catalog"], run.artifacts["quality"])
              /\ \A i \in DOMAIN inputs : Repeatable(inputs[i], i, run.snapshot)
              /\ OneRun(inputs)
              /\ ValidReceipt(Receipt(run.artifacts["catalog"], inputs))
              /\ commits[run.base].receipt = None
           THEN /\ Becomes(r, [run EXCEPT !.phase = "proposed"])
                /\ pulls' = pulls \cup {Receipt(run.artifacts["catalog"], inputs)}
           ELSE Fails(r) /\ UNCHANGED pulls

Expire(r) ==
    /\ AllEnded
    /\ Becomes(r, [runs[r] EXCEPT !.artifacts = NoArtifacts])
    /\ UNCHANGED <<commits, pulls, job, evidence, publisher, pending,
                   dispatches, public>>

-----------------------------------------------------------------------------
(* catalog-release.yml on a commit of main that has no evidence yet.        *)

Downloads == <<"evidence", "quality", "exclusions">>

StartRelease(c) ==
    /\ job = None /\ evidence[c] = None
    /\ job' = [commit |-> c, got |-> <<>>]
    /\ UNCHANGED <<sources, evidence, publisher, pending, dispatches, public>>

(* The inputs are downloaded one by one from the run the receipt names.     *)
Download ==
    /\ job # None /\ commits[job.commit].receipt # None
    /\ Len(job.got) < Len(Downloads)
    /\ LET receipt == commits[job.commit].receipt
           handoff == runs[receipt.run].artifacts[Downloads[Len(job.got) + 1]]
       IN  job' = IF handoff = None THEN None
                  ELSE [job EXCEPT !.got = Append(@, handoff)]
    /\ UNCHANGED <<sources, evidence, publisher, pending, dispatches, public>>

(* build_request_from_release_input()                                       *)
ReleaseRequest(receipt, c) ==
    Request(receipt.version, c, receipt.logical, <<"database", "manifest">>)

(* The catalog of the receipt, if the inputs are the reviewed ones.         *)
Rebuilt(inputs, receipt, c) ==
    IF ValidReceipt(receipt) /\ AreReviewed(inputs, receipt)
    THEN Built(inputs, ReleaseRequest(receipt, c))
    ELSE None

Bundled(tree, c) ==
    LET catalog == BundleCatalog(tree.bundle, c)
    IN  IF /\ ValidBundle(tree.bundle, tree.rights, tree.quality)
           /\ Compiles(BundleEvidence(tree.bundle), {}, BundleReport(tree.bundle),
                       tree.quality, DOMAIN tree.bundle.sources)
           /\ ValidCatalog(catalog) /\ ValidIndex(catalog)
        THEN catalog
        ELSE None

(* The catalog of the receipt, and without one that of the committed source *)
(* set; with neither the job emits a synthetic catalog no one may publish,  *)
(* here no evidence.                                                        *)
Emit ==
    /\ job # None
    /\ LET c == job.commit
           tree == commits[c]
           inputs == [i \in DOMAIN KindOf |->
                        job.got[CHOOSE n \in 1..3 : Downloads[n] = i]]
           Upload(catalog) == evidence' = [evidence EXCEPT ![c] = catalog]
       IN  \/ /\ tree.receipt # None
              /\ Len(job.got) = Len(Downloads)
              /\ Upload(Rebuilt(inputs, tree.receipt, c))
           \/ /\ tree.receipt = None
              /\ tree.bundle # None
              /\ Upload(Bundled(tree, c))
    /\ job' = None
    /\ UNCHANGED <<sources, publisher, pending, dispatches, public>>

ReleaseDies ==
    /\ job # None
    /\ job' = None
    /\ UNCHANGED <<sources, evidence, publisher, pending, dispatches, public>>

-----------------------------------------------------------------------------
(* catalog-module-release.yml.  A publish job waits for the approval of its *)
(* environment; one more may be queued and a later one takes its place.     *)

Dispatch ==
    /\ dispatches < MaxDispatches
    /\ dispatches' = dispatches + 1
    /\ LET new == [commit |-> Len(commits), stamp |-> dispatches + 1,
                   phase |-> "waiting", created |-> FALSE, module |-> None]
       IN  IF publisher = None
           THEN publisher' = new /\ UNCHANGED pending
           ELSE pending' = new /\ UNCHANGED publisher
    /\ UNCHANGED <<sources, job, evidence, public>>

(* Mutant: what waits behind a job that ends is not started.                *)
EndsAlone == publisher' = None /\ UNCHANGED pending
Ends == publisher' = pending /\ pending' = None

PublishStep(phase) ==
    /\ publisher # None /\ publisher.phase = phase
    /\ UNCHANGED <<sources, job, evidence, dispatches>>

GoesOn(phase) ==
    publisher' = [publisher EXCEPT !.phase = phase] /\ UNCHANGED pending

(* assemble_manifest(): the signed module, its identity the version.        *)
Signed(catalog, commit, stamp) ==
    [version |-> catalog.version, catalog |-> catalog, commit |-> commit,
     products |-> Cardinality(catalog.logical.products), stamp |-> stamp]

(* verify_private_key_matches_policy(), verify_release()                    *)
SigningKeyActive(tree) == tree.active
Trusted(module, tree) == module.version \notin tree.revoked /\ tree.active

(* verify_artifacts()                                                       *)
ValidAssets(module, tree) ==
    /\ Trusted(module, tree)
    /\ module.catalog.version = module.version
    /\ Cardinality(module.catalog.logical.products) = module.products

Version == publisher.module.version

(* The evidence of the dispatched commit, signed with a key and for a       *)
(* module that the trust policy of this commit admits.                      *)
Assemble ==
    LET tree == commits[publisher.commit]
        catalog == evidence[publisher.commit]
        module == Signed(catalog, publisher.commit, publisher.stamp)
    IN  /\ PublishStep("waiting")
        /\ IF /\ catalog # None
              /\ ValidCatalog(catalog) /\ catalog.commit = publisher.commit
              /\ DOMAIN catalog.logical.sources \subseteq DOMAIN Registry
              /\ SigningKeyActive(tree)
              /\ ValidAssets(module, tree)
           THEN /\ publisher' = [publisher EXCEPT !.phase = "assembled",
                                                  !.module = module]
                /\ UNCHANGED pending
           ELSE Ends
        /\ UNCHANGED public

(* A lookup that fails is read as a release that does not exist.            *)
RefuseReuse ==
    /\ PublishStep("assembled")
    /\ \/ releases[Version] # None /\ Ends
       \/ GoesOn("checked")
    /\ UNCHANGED public

(* Mutant: the step says it published before it has.                        *)
CreateMarkedFirst ==
    /\ PublishStep("checked")
    /\ \/ /\ releases[Version] = None
          /\ releases' = [releases EXCEPT ![Version] =
                            [state |-> "prerelease", module |-> publisher.module]]
          /\ publisher' = [publisher EXCEPT !.phase = "created", !.created = TRUE]
          /\ UNCHANGED pending
       \/ /\ publisher' = [publisher EXCEPT !.phase = "cleanup", !.created = TRUE]
          /\ UNCHANGED <<releases, pending>>
    /\ UNCHANGED <<served, lost>>

(* gh release create makes a draft, uploads and publishes; it may fail      *)
(* after any of these, and fails when the release exists.                   *)
Create ==
    /\ PublishStep("checked")
    /\ \/ /\ releases[Version] = None
          /\ \E state \in {"draft", "prerelease"} :
                 releases' = [releases EXCEPT ![Version] =
                                [state |-> state, module |-> publisher.module]]
          /\ Ends
       \/ /\ releases[Version] = None
          /\ releases' = [releases EXCEPT ![Version] =
                            [state |-> "prerelease", module |-> publisher.module]]
          /\ publisher' = [publisher EXCEPT !.phase = "created", !.created = TRUE]
          /\ UNCHANGED pending
       \/ Ends /\ UNCHANGED releases
    /\ UNCHANGED <<served, lost>>

(* The assets are downloaded again and compared with those that were signed.*)
Verify ==
    /\ PublishStep("created")
    /\ \/ /\ releases[Version] # None
          /\ releases[Version].module = publisher.module
          /\ ValidCatalog(publisher.module.catalog)
          /\ ValidAssets(publisher.module, commits[publisher.commit])
          /\ GoesOn("verified")
       \/ GoesOn("cleanup")
    /\ UNCHANGED public

Stabilize ==
    /\ releases[Version] # None
    /\ releases' = [releases EXCEPT ![Version].state = "stable"]
    /\ served' = [served EXCEPT ![Version] = @ \cup {releases[Version].module}]

MarkStable ==
    /\ PublishStep("verified")
    /\ \/ Stabilize /\ Ends /\ UNCHANGED lost
       \/ Stabilize /\ GoesOn("cleanup") /\ lost' = lost \cup {Version}
       \/ GoesOn("cleanup") /\ UNCHANGED public

(* if: failure() && env.published_by_this_run == 'true'                     *)
CleanUp ==
    /\ PublishStep("cleanup")
    /\ publisher.created
    /\ \/ releases' = [releases EXCEPT ![Version] = None]
       \/ UNCHANGED releases
    /\ Ends
    /\ UNCHANGED <<served, lost>>

(* Cancelled, timed out or lost: failure() does not hold.                   *)
PublisherDies ==
    /\ publisher # None
    /\ Ends
    /\ UNCHANGED <<sources, job, evidence, dispatches, public>>

-----------------------------------------------------------------------------
Next ==
    \/ EditPolicies \/ EditTrust \/ DropReceipt
    \/ \E b \in Bundles : CommitBundle(b)
    \/ \E receipt \in pulls : MergeReceipt(receipt)
    \/ \E v \in Versions, s \in Snapshots : StartRun(v, s)
    \/ \E r \in DOMAIN runs :
           \/ RunAgain(r) \/ Build(r) \/ Propose(r) \/ Expire(r)
           \/ \E input \in Inputs : Compose(r, input)
           \/ \E passes \in BOOLEAN : Quality(r, passes)
    \/ \E c \in Commit : StartRelease(c)
    \/ Download \/ Emit \/ ReleaseDies
    \/ Dispatch \/ Assemble \/ RefuseReuse \/ Create \/ Verify \/ MarkStable
    \/ CleanUp \/ PublisherDies

Spec == Init /\ [][Next]_vars

-----------------------------------------------------------------------------
(* The variables have their types, a catalog is the evidence of its own     *)
(* commit, a publish job waits only behind another, and a job past its      *)
(* assembly has a module, one that published says so.                       *)
ReleaseTypeOK ==
    /\ Len(commits) \in 1..MaxCommits /\ Len(runs) \in 0..MaxRuns
    /\ \A c \in Commit : commits[c].revoked \subseteq Versions
    /\ evidence \in [1..MaxCommits -> Catalogs \cup {None}]
    /\ \A c \in DOMAIN evidence :
           evidence[c] # None => c \in Commit /\ evidence[c].commit = c
    /\ job # None => job.commit \in Commit /\ Len(job.got) \in 0..3
    /\ dispatches \in 0..MaxDispatches
    /\ {publisher, pending} \subseteq PublishJobs \cup {None}
    /\ pending # None => publisher # None /\ pending.phase = "waiting"
    /\ publisher # None =>
           /\ publisher.commit \in Commit
           /\ publisher.phase # "waiting" => publisher.module # None
           /\ publisher.created <=>
                  publisher.phase \in {"created", "verified", "cleanup"}
    /\ releases \in [Versions -> Releases \cup {None}]
    /\ \A v \in Versions : releases[v] # None => releases[v].module.version = v
    /\ served \in [Versions -> SUBSET Modules]
    /\ lost \subseteq Versions

(* A stable module is the catalog a reviewer accepted: made at its commit   *)
(* by the tools and policies of that commit from what the receipt there     *)
(* names, it has the version, the quality report and all that the app can   *)
(* see of the proposed catalog; without a receipt it is the committed source*)
(* set.  Its key and identity were admitted by that commit.                 *)
StableIsReviewed ==
    \A v \in Versions : \A m \in served[v] :
        LET tree == commits[m.commit]
            receipt == tree.receipt
        IN  /\ m.version = v /\ m.catalog.version = v
            /\ tree.active /\ v \notin tree.revoked
            /\ m.catalog.logical.rights = tree.rights
            /\ IF receipt # None
               THEN /\ receipt.version = v
                    /\ m.catalog.logical = receipt.logical
                    /\ m.catalog.report = receipt.inputs["quality"].payload
               ELSE /\ tree.bundle # None /\ tree.bundle.version = v
                    /\ m.catalog.logical.products =
                           {row.gtin : row \in Rows(tree.bundle)}

(* What a shop was seen to sell never makes a product a catalog product, and*)
(* a selection names only records of its own product from a source of the   *)
(* same evidence; both in the evidence of a run and in what is served.      *)
Attaches(attached, offers, known) ==
    \A p \in DOMAIN attached : \A id \in attached[p] :
        \E o \in offers : o.id = id /\ o.product = p /\ o.source \in known

RetailerOnlyAttaches ==
    /\ \A r \in DOMAIN runs :
         LET handoff == runs[r].artifacts["evidence"]
         IN  handoff # None =>
               /\ runs[r].phase # "sources" =>
                      handoff.payload.selected = runs[r].primary.selected
               /\ Attaches(handoff.payload.attached, handoff.payload.offers,
                           DOMAIN handoff.payload.sources)
    /\ \A v \in Versions : \A m \in served[v] :
         /\ DOMAIN m.catalog.logical.attached = m.catalog.logical.products
         /\ Attaches(m.catalog.logical.attached, Offers,
                     DOMAIN m.catalog.logical.sources)

(* A product that a catalog of this run waves through as basic is one of    *)
(* which no usable record says anything a reader might want to see: no halal*)
(* label, additive, telling word, second ingredient or uncounted text; even *)
(* when two records spell its code differently and only one is basic.       *)
Plain(record) ==
    /\ ~record.halal /\ ~record.additive /\ record.words = {}
    /\ IF record.count = None THEN ~record.text ELSE record.count <= 1

BasicIsPlain ==
    \A r \in DOMAIN runs :
        /\ runs[r].phase \in {"propose", "proposed"}
        /\ runs[r].artifacts["catalog"] # None
        => \A record \in runs[r].delivered.records :
             Gtin(record.code) \in
                 runs[r].artifacts["catalog"].payload.logical.exclusions =>
             Unusable(Candidate(record)) \/ Plain(record)

(* One identity, one content: what was stable once stays the one stable     *)
(* release of its version, whatever lookups, creates, edits and cleanups of *)
(* later jobs fail or die; unless the answer to its own successful edit was *)
(* lost, when the cleanup of its job deletes it and the version is free     *)
(* again for other bytes.                                                   *)
StableIsKept ==
    \A v \in Versions : served[v] # {} /\ v \notin lost =>
        /\ releases[v] # None /\ releases[v].state = "stable"
        /\ served[v] = {releases[v].module}
=============================================================================
