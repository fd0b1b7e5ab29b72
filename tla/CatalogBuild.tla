---------------------------- MODULE CatalogBuild -----------------------------
(***************************************************************************)
(* What the tools under Tools/ make of evidence on its way to a catalog:    *)
(* handoffs between workflow stages (catalog_workflow_contract,             *)
(* catalog_workflow_handoff), the composition of the two sources            *)
(* (production_catalog_aggregate), the committed source set                 *)
(* (catalog_source_shards), the compiler and its logical identity           *)
(* (production_catalog, product_search_index, production_catalog_logical)   *)
(* and the receipt of a proposal (production_catalog_proposal,              *)
(* production_catalog_release_input).                                       *)
(*                                                                          *)
(* A file is its content, so that two digests are equal when the files are. *)
(* The sources are "off" (Open Food Facts), which selects products, and     *)
(* "op" (Open Prices), which observes them at retailers.                    *)
(***************************************************************************)
EXTENDS CatalogSelection, Functions

CONSTANTS
    Products,       \* GTINs of the market, as numbers
    Offers,         \* retailer records, each [id, source, product]
    BucketOf,       \* the shard of a product, by the digest of its GTIN
    MaxRecords      \* bound of the contract on the records of an artifact

Classes == {"restricted", "metadata-only", "redistributable"}
Public == {"metadata-only", "redistributable"}

(* The stages of catalog-workflow-contract-v1.json that lead to a release,  *)
(* and the classes each artifact may have.                                  *)
Stages ==
  <<[key |-> "acquire", accepts |-> {}, produces |-> {"source-snapshot"},
     complete |-> TRUE],
    [key |-> "normalize-diff", accepts |-> {"source-snapshot"},
     produces |-> {"normalized-evidence", "basic-exclusions"},
     complete |-> FALSE],
    [key |-> "quality", accepts |-> {"normalized-evidence"},
     produces |-> {"quality-report"}, complete |-> TRUE],
    [key |-> "build",
     accepts |-> {"normalized-evidence", "quality-report", "basic-exclusions"},
     produces |-> {"catalog-database", "catalog-manifest"}, complete |-> TRUE],
    [key |-> "proposal",
     accepts |-> {"catalog-database", "catalog-manifest", "quality-report"},
     produces |-> {"proposal-report"}, complete |-> TRUE]>>

ClassesOf ==
    [kind \in {"source-snapshot", "normalized-evidence", "basic-exclusions",
               "quality-report", "catalog-database", "catalog-manifest",
               "proposal-report"} |->
        CASE kind \in {"source-snapshot", "normalized-evidence"} ->
                 {"restricted", "redistributable"}
          [] kind \in {"basic-exclusions", "catalog-database"} ->
                 {"redistributable"}
          [] OTHER -> Public]

Registry == [s \in {"off", "op"} |-> "redistributable"]

(* WorkflowContract.load(): a stage accepts what an earlier one produces,   *)
(* and the kinds with classes are those the stages name.                    *)
ValidContract(stages, classes, registry) ==
    /\ \A i, j \in DOMAIN stages : stages[i].key = stages[j].key => i = j
    /\ \A i \in DOMAIN stages \ {1} : \A kind \in stages[i].accepts :
           \E j \in 1..(i - 1) : kind \in stages[j].produces
    /\ DOMAIN classes =
           UNION {stages[i].accepts \cup stages[i].produces : i \in DOMAIN stages}
    /\ \A kind \in DOMAIN classes :
           classes[kind] # {} /\ classes[kind] \subseteq Classes
    /\ DOMAIN registry # {} /\ Range(registry) \subseteq Classes

ASSUME BuildAssumption ==
    /\ None \notin Products /\ Products \subseteq Nat /\ IsFiniteSet(Products)
    /\ Offers \subseteq [id : Nat, source : {"off", "op"}, product : Nat]
    /\ IsFiniteSet(Offers)
    /\ BucketOf \in [Products -> Nat]
    /\ MaxRecords \in Nat
    /\ ValidContract(Stages, ClassesOf, Registry)

Stage(key) == Stages[CHOOSE i \in DOMAIN Stages : Stages[i].key = key]

(* validate_handoff(), for a stage that is to consume it.                   *)
ValidHandoff(h, key) ==
    /\ h.kind \in DOMAIN ClassesOf
    /\ h.source \in DOMAIN Registry \cup {"aggregate"}
    /\ h.count <= MaxRecords
    /\ h.class \in ClassesOf[h.kind]
    /\ h.kind \in Stage(key).accepts
    /\ Stage(key).complete => h.complete

(* emit_handoff(): producer is [workflow, commit, run].                     *)
Handoff(kind, source, snapshot, producer, payload, count) ==
    [kind |-> kind, source |-> source, snapshot |-> snapshot,
     producer |-> producer, payload |-> payload, count |-> count,
     complete |-> TRUE,
     class |-> IF "redistributable" \in ClassesOf[kind] /\ kind # "quality-report"
               THEN "redistributable" ELSE "metadata-only"]

-----------------------------------------------------------------------------
(* Evidence.  sources: the snapshot of every source; selected: the products *)
(* with a current selection; offers: the retailer evidence; attached: the   *)
(* retailer evidence the selections name.                                   *)

SourceSets ==
    [{"off"} -> Nat] \cup [{"op"} -> Nat] \cup [{"off", "op"} -> Nat]
Attachments ==
    UNION {[S -> SUBSET {o.id : o \in Offers}] : S \in SUBSET Products}

Envelopes == [sources : SourceSets, selected : SUBSET Products,
              offers : SUBSET Offers, attached : Attachments]

Envelope(sources, selected, offers) ==
    [sources |-> sources, selected |-> selected, offers |-> offers,
     attached |-> [p \in selected |->
                     {o.id : o \in {x \in offers : x.product = p}}]]

HasSource(evidence, key, snapshot) ==
    key \in DOMAIN evidence.sources /\ evidence.sources[key] = snapshot

(* _require_observational_retailer_envelope(): the retailer component       *)
(* selects nothing and says nothing about ingredients or status.            *)
Observational(evidence) == evidence.selected = {}

Matched(primary, retailer) ==
    {o \in retailer.offers : o.product \in primary.selected}

(* The checks of merge_evidence().                                          *)
Mergeable(primary, retailer, off, op) ==
    /\ HasSource(primary, "off", off)
    /\ HasSource(retailer, "op", op)
    /\ Observational(retailer)
    /\ "op" \in DOMAIN primary.sources =>
           primary.sources["op"] = retailer.sources["op"]
    /\ \A o \in Matched(primary, retailer), p \in primary.offers :
           o.id = p.id => o = p

(* Mutant: what is observed of any product is attached and selected.        *)
MergeAll(primary, retailer) ==
    Envelope([s \in {"off", "op"} |->
                 IF s = "op" THEN retailer.sources["op"] ELSE primary.sources[s]],
             primary.selected \cup {o.product : o \in retailer.offers},
             primary.offers \cup retailer.offers)

(* merge_evidence(): the retailer's records of selected products join       *)
(* their selections; the others are dropped.                                *)
MergeEvidence(primary, retailer) ==
    LET matched == Matched(primary, retailer)
    IN  [sources |-> [s \in DOMAIN primary.sources \cup {"op"} |->
                        IF s = "op" THEN retailer.sources["op"]
                        ELSE primary.sources[s]],
         selected |-> primary.selected,
         offers |-> primary.offers \cup matched,
         attached |-> [p \in primary.selected |->
                         primary.attached[p] \cup
                         {o.id : o \in {x \in matched : x.product = p}}]]

-----------------------------------------------------------------------------
(* Quality.  at: the age of the formulations when they were evaluated.      *)

Reports == [source : DOMAIN Registry, snapshot : Nat, policy : Nat, at : Nat,
            passes : BOOLEAN, products : Nat, offers : Nat]

Report(evidence, source, policy, at, passes) ==
    [source |-> source, snapshot |-> evidence.sources[source],
     policy |-> policy, at |-> at, passes |-> passes,
     products |-> Cardinality(evidence.selected),
     offers |-> Cardinality(evidence.offers)]

(* _verify_component_quality(): the report is of this snapshot under this   *)
(* policy and nothing in it blocks a release.                               *)
ComponentPasses(report, source, snapshot, policy) ==
    /\ report.source = source /\ report.snapshot = snapshot
    /\ report.policy = policy
    /\ report.passes

(* The checks of merge_quality(); its result is the report of the merged    *)
(* evidence, with the components' reports named in it.                      *)
MergesQuality(base, primary, retailer, merged, observed, policy) ==
    LET off == merged.sources["off"]
        op == observed.sources["op"]
        kept == {o \in merged.offers : o.source = "op"} \cap observed.offers
        others == {o \in merged.offers : o.source # "op"}
    IN  /\ ComponentPasses(base, "off", off, policy)
        /\ ComponentPasses(primary, "off", off, policy)
        /\ ComponentPasses(retailer, "op", op, policy)
        /\ HasSource(merged, "op", op)
        /\ Observational(observed)
        /\ base.products = Cardinality(merged.selected)
        /\ primary.products = Cardinality(merged.selected)
        /\ retailer.offers = Cardinality(observed.offers)
        /\ base.offers = Cardinality(kept) + Cardinality(others)

(* _validate_quality_report_shape(): the report is of a source of the       *)
(* evidence, at its snapshot, and counts its products.                      *)
GateOpens(evidence, report, policy) ==
    /\ report.policy = policy
    /\ report.passes
    /\ HasSource(evidence, report.source, report.snapshot)
    /\ report.products = Cardinality(evidence.selected)

-----------------------------------------------------------------------------
(* The compiler.  A commit's tools and policies are revisions: rights is    *)
(* that of the reviewed source policies, quality that of the quality policy.*)

(* build_catalog(): what it refuses.  policies: the reviewed sources.       *)
Compiles(evidence, exclusions, report, quality, policies) ==
    /\ GateOpens(evidence, report, quality)
    /\ evidence.selected # {}
    /\ exclusions \cap evidence.selected = {}
    /\ DOMAIN evidence.sources \subseteq policies

Logicals == [products : SUBSET Products, attached : Attachments,
             sources : SourceSets, rights : Nat, freshness : Nat,
             exclusions : SUBSET Products]

Catalogs == [version : Nat, commit : Nat, report : Reports, logical : Logicals,
             index : (SUBSET Products) \cup {None},
             review : [at : Nat, offers : Nat] \cup {None}]

(* logical_projection(): what the runtime can see of a catalog.  The        *)
(* version, the commit and the quality report are not part of it.           *)
Logical(evidence, exclusions, report, rights) ==
    [products |-> evidence.selected, attached |-> evidence.attached,
     sources |-> evidence.sources, rights |-> rights,
     freshness |-> report.at, exclusions |-> exclusions]

(* The manifest of build_catalog() with the database it binds, which has no *)
(* search index and no release review yet.                                  *)
Catalog(version, commit, evidence, exclusions, report, rights) ==
    [version |-> version, commit |-> commit, report |-> report,
     logical |-> Logical(evidence, exclusions, report, rights),
     index |-> None, review |-> None]

(* validate_catalog()                                                       *)
ValidCatalog(catalog) ==
    /\ catalog.logical.freshness = catalog.report.at
    /\ Cardinality(catalog.logical.products) = catalog.report.products
    /\ DOMAIN catalog.logical.attached = catalog.logical.products
    /\ catalog.logical.exclusions \cap catalog.logical.products = {}

(* install_search_index(), validate_search_index(): one row for a product.  *)
Indexed(catalog) ==
    IF catalog.index = None
    THEN [catalog EXCEPT !.index = catalog.logical.products]
    ELSE catalog

ValidIndex(catalog) ==
    /\ catalog.index # None
    /\ Cardinality(catalog.index) = Cardinality(catalog.logical.products)

(* _validate_quality_binding(), build_release_review(): the review says of  *)
(* the bound report what the reader of the manifest is to know.             *)
BindsReport(catalog, report) ==
    catalog.review = None /\ catalog.report = report /\ report.passes

WithReview(catalog, report) ==
    [catalog EXCEPT !.review = [at |-> report.at, offers |-> report.offers]]

(* The request of a build: the files it reads, the source policies it names,*)
(* the files it writes, and what the catalog is to be.                      *)
Request(version, commit, expected, outputs) ==
    [inputs |-> {"evidence", "quality", "exclusions", "quality-policy"},
     policies |-> <<"off", "op">>, outputs |-> outputs,
     version |-> version, commit |-> commit, expected |-> expected]

(* validate_request(): no source is named twice, and nothing that is read   *)
(* is written, or written twice.                                            *)
ValidRequest(request) ==
    /\ Len(request.policies) \in 1..32
    /\ IsInjective(request.policies) /\ IsInjective(request.outputs)
    /\ Range(request.outputs)
         \cap (request.inputs \cup Range(request.policies)) = {}

(* validate_build_handoffs(): what a build may consume.                     *)
BuildInputs(evidence, quality, exclusions) ==
    /\ ValidHandoff(evidence, "build")
    /\ ValidHandoff(quality, "build")
    /\ ValidHandoff(exclusions, "build")
    /\ evidence.kind = "normalized-evidence"
    /\ quality.kind = "quality-report"
    /\ exclusions.kind = "basic-exclusions"
    /\ evidence.source = quality.source /\ quality.source = exclusions.source
    /\ evidence.snapshot = quality.snapshot
    /\ quality.snapshot = exclusions.snapshot
    /\ exclusions.count = Cardinality(exclusions.payload)

(* bind_manifest(): expected is the identity of the reviewed proposal.      *)
Binds(catalog, expected) == expected # None => catalog.logical = expected

-----------------------------------------------------------------------------
(* The receipt of a proposal.                                               *)

(* prepare_report(): a passing report, and a catalog made by a build of the *)
(* same commit from that report.                                            *)
Proposable(catalog, quality) ==
    /\ ValidHandoff(catalog, "proposal")
    /\ ValidHandoff(quality, "proposal")
    /\ catalog.source = "aggregate" /\ quality.source = "off"
    /\ catalog.snapshot = quality.snapshot
    /\ catalog.producer.workflow = "build-catalog"
    /\ quality.producer.workflow = "catalog-quality"
    /\ catalog.producer.commit = quality.producer.commit
    /\ catalog.payload.commit = catalog.producer.commit
    /\ catalog.payload.report = quality.payload
    /\ quality.payload.passes

KindOf == [input \in {"evidence", "quality", "exclusions"} |->
             CASE input = "evidence" -> "normalized-evidence"
               [] input = "quality" -> "quality-report"
               [] OTHER -> "basic-exclusions"]

WorkflowOf == [input \in {"evidence", "quality", "exclusions"} |->
                 IF input = "quality" THEN "catalog-quality"
                 ELSE "normalize-and-diff"]

(* _handoff_receipt(): an input a release can be made of again.             *)
Repeatable(h, input, snapshot) ==
    /\ h.kind = KindOf[input]
    /\ h.source = "off" /\ h.snapshot = snapshot
    /\ h.complete
    /\ h.class \in IF input = "quality" THEN Public ELSE {"redistributable"}
    /\ h.producer.workflow = WorkflowOf[input]

Entry(h) == [kind |-> h.kind, payload |-> h.payload, count |-> h.count]

(* prepare_release_input(): the inputs are of one commit and one run.       *)
OneRun(inputs) ==
    \A i, j \in DOMAIN inputs :
        /\ inputs[i].producer.commit = inputs[j].producer.commit
        /\ inputs[i].producer.run = inputs[j].producer.run

Receipt(catalog, inputs) ==
    [snapshot |-> catalog.snapshot,
     commit |-> inputs["evidence"].producer.commit,
     run |-> inputs["evidence"].producer.run,
     version |-> catalog.payload.version,
     logical |-> catalog.payload.logical,
     inputs |-> [i \in DOMAIN inputs |-> Entry(inputs[i])]]

(* validate_release_input()                                                 *)
ValidReceipt(receipt) ==
    \A i \in DOMAIN KindOf :
        receipt.inputs[i].kind = KindOf[i] /\ receipt.inputs[i].count >= 0

(* verify_downloaded_inputs(): they are the ones that were reviewed.        *)
AreReviewed(inputs, receipt) ==
    \A i \in DOMAIN inputs :
        /\ Repeatable(inputs[i], i, receipt.snapshot)
        /\ Entry(inputs[i]) = receipt.inputs[i]
        /\ inputs[i].producer.commit = receipt.commit
        /\ inputs[i].producer.run = receipt.run

-----------------------------------------------------------------------------
(* The committed source set: a row is [gtin, identity, ingredients, offer], *)
(* the middle two naming the source a text is from.                         *)

SourceRows == [gtin : Nat, identity : DOMAIN Registry,
               ingredients : DOMAIN Registry \cup {None},
               offer : Offers \cup {None}]

SourceBundles == [version : Nat, primary : DOMAIN Registry, sources : SourceSets,
                  at : Nat, rights : Nat, quality : Nat,
                  shards : [Range(BucketOf) -> Seq(SourceRows)],
                  rows : SUBSET SourceRows]

(* _validate_row(), _bucket_for()                                           *)
ValidRow(row, bucket, sources) ==
    /\ row.gtin \in Products
    /\ row.identity \in sources
    /\ row.ingredients \in sources \cup {None}
    /\ row.offer # None =>
           row.offer.product = row.gtin /\ row.offer.source \in sources
    /\ BucketOf[row.gtin] = bucket

Rows(bundle) == UNION {Range(bundle.shards[b]) : b \in DOMAIN bundle.shards}

(* Every row lies in the shard of its product, sorted, and only once.       *)
ValidShards(bundle) ==
    /\ \A b \in DOMAIN bundle.shards :
         LET shard == bundle.shards[b]
         IN  /\ \A i \in DOMAIN shard :
                    ValidRow(shard[i], b, DOMAIN bundle.sources)
             /\ \A i \in 1..(Len(shard) - 1) : shard[i].gtin < shard[i + 1].gtin
    /\ \A row, other \in Rows(bundle) : row.gtin = other.gtin => row = other
    /\ bundle.rows = Rows(bundle)

(* Mutant: the source policies may have changed since.                      *)
ValidStaleBundle(bundle, rights, quality) ==
    /\ bundle.quality = quality
    /\ bundle.primary \in DOMAIN bundle.sources
    /\ ValidShards(bundle)

(* validate_source_set(): the manifest binds the policies it was made under *)
(* and the rows of every shard.                                             *)
ValidBundle(bundle, rights, quality) ==
    /\ bundle.rights = rights /\ bundle.quality = quality
    /\ bundle.primary \in DOMAIN bundle.sources
    /\ ValidShards(bundle)

(* evidence_envelope()                                                      *)
BundleEvidence(bundle) ==
    Envelope(bundle.sources, {row.gtin : row \in Rows(bundle)},
             {row.offer : row \in {x \in Rows(bundle) : x.offer # None}})

(* build_bundle(): quality is evaluated as of the time of the source set,   *)
(* and nothing is excluded.                                                 *)
BundleReport(bundle) ==
    Report(BundleEvidence(bundle), bundle.primary, bundle.quality, bundle.at, TRUE)

BundleCatalog(bundle, commit) ==
    Indexed(Catalog(bundle.version, commit, BundleEvidence(bundle), {},
                    BundleReport(bundle), bundle.rights))
==============================================================================
