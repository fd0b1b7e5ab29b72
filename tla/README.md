# Halal Food EU: a verification project

Halal Food EU is an iOS app that answers, offline, whether a scanned product is
halal, from a read-only SQLite catalog, and a repository of Python tools and
GitHub workflows that produce that catalog. This directory holds TLA+ models of
the parts of both in which order, failure or concurrency decides what the user
sees or what is published, TLC configurations that check them on small
instances, and proofs of the results that hold for every instance.

To repeat the work: `tlc -config X.cfg M` for each run listed under `runs` in
PROJECT.json, and `tlapm M.tla` for the proof modules of section 4. `map` in
PROJECT.json names the source lines of every definition that models code;
paths below are relative to `src/`.

## 1. The system

### The app (Swift)

| Part | State | Operations | Talks to |
|---|---|---|---|
| `MarketCatalogRouter` (actor) | selected market, registered downloaded catalogs, a revision | select, register, remove, resolve, search, product(for:market:) | answers lookups; reentrant at the await of the catalog |
| `CatalogModuleSettingsModel` (main actor) | list of installed modules, the operation under way | load, select, install, remove, check | the manager and the router, through awaits; `AppPreferences`; announces changes to the screens |
| `CatalogModuleManager` (actor) | per market: module directories, a pointer file, staging directories | install, recover, activate persisted selection, remove | file system, release server, router |
| `ScannerViewModel` (main actor) | lookup state, latest task, last request | submit, retry, reset | `LookupProductByBarcode` -> router |
| `UserProductLibraryViewModel` (main actor) | opt-in switch, consent revision, history and favorites shown | load, setHistoryEnabled, recordCameraScan, clear, delete, favorites | `SQLiteUserProductLibrary` |
| `SQLiteUserProductLibrary` (actor) | settings row, scan_history, favorites | the same, each a transaction | SQLite |
| `ProductSearchViewModel` | query, generation, pages | search, loadMore | router |
| `SQLiteProductCatalog`, result presentation, evidence submission, ingredient OCR | none that outlives a screen | queries, pure mappings, one form each | - |

### The catalog pipeline (Python and workflows)

| Part | State | Operations |
|---|---|---|
| refresh orchestration (`catalog_refresh*.py`, `scheduled-catalog-refresh.yml`) | accepted refresh state of every source on protected `main`; states in run artifacts | evaluate, merge previous, apply clock, promote, queue, plan |
| proposals (`github_catalog_proposal.py`, `github_refresh_state_proposal.py`) | proposal branch, receipt, pull request | materialize, request by request |
| health and incidents (`catalog_refresh_health_core.py`, `catalog_health_incident.py`, `catalog-health.yml`) | GitHub issues | locate, read statuses, report, open and close issues |
| evidence (`evidence_model_core.py`, `open_food_facts_normalize.py`) | the envelope: observations, assessments, reviews, validity events, current selections | normalise a snapshot, validate, edits by people |
| methodology and registry (`halal_methodology*.py`, `certifier_registry.py`) | reports and materialised reviews, as files | analyze, review, migrate |
| selection (`catalog_selection_*.py`, `basic_exclusions.py`) | none | which records become products, which are basic |
| quality, gate, compiler (`catalog_quality_core.py`, `production_catalog*.py`, `catalog_source_shards.py`) | artifacts of a run, the committed source set | hand over, merge sources, check, compile, name the logical catalog |
| release (`catalog-release.yml`, `catalog-module-release.yml`, `catalog_module_release.py`) | release evidence, GitHub releases | make the reviewed catalog again, sign, publish, clean up |
| intake (`product_evidence_intake.py`, `product_evidence_ocr.swift`) | packages on the staging ref, reviews, the registry on `main` | validate, read, review, finalise, patch, queue |
| governance, configuration, App Store tooling | none | checks and API calls |

### What is hard here

Swift tasks interleave at every `await`, cancellation is only a flag, and both
the router and the store are actors that others reach in any order. The module
store is a sequence of file operations that may stop anywhere. The pipeline's
"database" is a Git branch that is changed by one HTTP request after another,
re-run by hand, merged by a person. A verdict is a chain of files that different
people make at different times: a report, a review, an assessment, a selection, a
release, while the source, the registry and the methodology go on changing.
Health is judged from artifacts that expire and statuses of runs that are still
under way; a public release is made by a job whose requests may be carried out
without an answer. `hazards` in PROJECT.json lists each of
these at its line with the properties that watch it.

## 2. Modules

    MarketRouter <- MarketSettings <- LookupSession <- LookupSessionProofs
    ActiveModule (abstract)  <= implemented by =  CatalogModules <- CatalogModulesProofs
    UserLibrary <- UserLibraryProofs
    RefreshState <- CatalogProposal <- CatalogProposalProofs
    ReviewQueue <- RefreshPlan <- EvidenceIntake <- EvidenceIntakeProofs
                   RefreshPlan, RefreshState <- RefreshHealth <- RefreshHealthProofs
    Evidence <- Methodology <- AssessmentLifecycle <- AssessmentLifecycleProofs
    CatalogSelection <- CatalogBuild <- CatalogRelease <- CatalogReleaseProofs

`<-` is EXTENDS; an MC module per instance fixes the constants.

### The app

**MarketRouter** is the actor: one action per method, and a request
(resolve or search) split where the code awaits: `EnterRouter` captures market,
source and revision, the catalog answers, and the code after the await either
returns, throws CancellationError because the revision moved
(`AnswerSuperseded`), because its task was cancelled (`AnswerAborted`), or
throws the catalog's error. A catalog is its version.

**MarketSettings** adds the settings screen: `op` is the operation inside
`perform`, `op.at` the await it stands at, so that every lookup step can happen
between any two of its steps. The files are seen through `disk`, what
recovery would find. A crash may come at any state (`Relaunch`).

**LookupSession** adds the scanner screen and composes all three: submitting,
cancelling, resetting on announcement, and a task's way back to the main actor
(`DeliverResult`, `DeliverError`, `DeliverNothing`).

**ActiveModule** says what a module store promises: one of the modules held is
active, and it changes only to the release that was admitted as its successor, or
because it is lost. **CatalogModules** is the code: verification, admission, staging,
rename, pointer, registration, recovery, removal entry by entry, with crashes,
storage faults, app updates that change the trust policy. Signature, digest
and size checks are one verdict per build. The refinement mapping is computed
(`active <- Recovered`, `held <- VerifiedBuilds`), so `LifecycleImplemented`
says that what recovery would find at any moment behaves like the promise.

**UserLibrary** is scan history: the switch and its consent revision on the
main actor, the store actor's transactions, the write task of every scan, loads,
clearing, deletion, crash. Two ordering assumptions are explicit in its
header: taps on one switch are carried out in tap order, and failures come
back in the order they happened. Swift promises neither for tasks; it is the
order that tasks of one priority on one actor keep in practice, and the
properties are claimed under it.

### The refreshes

**RefreshState** holds the pure functions of the refresh state.
**CatalogProposal** is the protocol around them: overlapping runs, each with
the commit of `main` it checked out; the artifact of the latest successful run,
which may have expired; the proposal branch written by single requests; jobs
that die after any of them and are re-run with the same commit and artifacts; a
reviewer who merges, closes, deletes the branch at any time. Abstractions:

- a commit is the receipt and the two state files, as only these are written;
  a merge is Git's three-way merge of each file;
- a run's branch name holds its snapshot and database digest, so it belongs to
  that run;
- an attempt is an acquisition that passed the quality gate, since
  `catalog-quality.yml` ends the run otherwise; fixtures are its partial case;
- eligibility flags, `lastAttempt` and `nextFullDueAt` repeat what the record
  holds; acquisitions have distinct times, so the equal-timestamps error of
  `merge_previous_state` does not arise; a comparison without files is
  unreachable, for the receipt was just written.

**ReviewQueue** is the review queue as a function of evidence and day: the
reasons of a product and of a certificate, their order, and the cut at
`maxEntries`. **RefreshPlan** adds the refresh policy and the daily plan.
**RefreshHealth** composes them with refresh runs that start, acquire, succeed
and fail, and with the health workflow: `StartHealth` locates artifacts,
`BuildReport` reads the statuses and computes the report, `ListIssues`,
`WriteIssue`, `CloseIssue` are single requests, and `HealthDies` stops the run
between any two. An issue is its deduplication key. Abstractions: one content
stands for every snapshot (what is accepted matters to health only through the
clock); the base report is that of the committed fixture, as in the workflow;
the text of issues and the listing's limit of 1000 are left out. Locator and
status read one page of the workflow's runs, those of both sources together
(`Listed`, `LocatorWindow`, `StatusWindow`).

### The evidence

**Evidence** is the envelope of one product: what the source adapter writes
into it (`Normalized`) and what `validate_envelope` accepts (`Valid`).
**Methodology** holds, as operators on an envelope, the tools from there to a
verdict: the queues a report opens, what a review demands, eligibility under
the registry, the migration report, the quality decision, the gate, the
compiler's refusals. **AssessmentLifecycle** lets them run in any order, with
people between them who add results, attach, reject, select certificates and
apply migrations or restore what was invalidated, restrained by `Valid` alone.
`release` is what the last step published, if it published. Abstractions:

- one product in one market; what one envelope says of two products does not
  interact, except that a catalog has one methodology version;
- identifiers are digests of content, so an observation (which holds its time)
  is a position in a sequence and an assessment is its own content;
- assessments that differ only in words, citations or recheck date are one,
  which makes it easier, never harder, for two approvals to meet;
- the parser's verdict on a text is a constant per methodology version
  (`Prohibited`, `Ambiguous`); texts come unverified from the source adapter;
- of the validity events of an assessment the last by date decides, and their
  dates are their writers' input (`--occurred-at`, or a file edited by hand). So
  an envelope holds which assessments are invalid now (`invalidated`) and which
  have a restoring event at any date (`restored`), and an event by people may
  come before or after those already there (`AfterInvalidation`,
  `AfterRestoration`). "Superseded" acts as "invalidated". Only what is invalid is
  restored, since a restoring event added earlier leaves the same envelope, and
  nobody rejects what a text has overtaken, which would change nothing;
- no synthetic sources (which need one reviewer) occur.

**EvidenceIntake** is the way of a user's photographs to `main`: screening
(`Screen`), the intake of the workflow or of a maintainer's commands
(`StartIntake`, `RunOCR`, `Finalize`, `MakePatch`), the review file a person
writes in between or much later (`WriteReview`), the merge, and the daily queue
of admitted submissions (`PublishQueue`). The difference between the two modes
is what the code makes it: a workflow has one checkout, so its registry and its
review are those of its start; commands see whatever is there. An image is its
digest, and `Reencoded` says what re-encoding gives. Times are reduced to the
order of OCR runs and reviews.

### The catalog

**CatalogSelection** decides about every record: the code with its check digit
and spellings, the candidate, the ordered rules, the index of basic exclusions.
**CatalogBuild** holds the tools of the build as operators: the handoffs and
their classes, the merge of the two sources' evidence and reports, the committed
source set and its shards, the compiled catalog and its logical identity, the
receipt and its check. **CatalogRelease** is the process around them: a manual
production run and its re-run jobs, artifacts that expire, the receipt's review
and merge, edits of policies and trust on `main`, the rebuild of the reviewed
catalog (`catalog-release.yml`) and the publisher
(`catalog-module-release.yml`) with its lookup, create, verify, edit and cleanup
requests. `Request` lets every request fail, or succeed with its answer lost.
Abstractions: a file is its content; evidence and exclusions are uploaded in one
step; the quality jobs of the two sources are folded into the aggregate's;
reason codes, the audit report and the comparison of policies are left out;
re-running a job that succeeded, deleting a release by hand and duplicate drafts
do not occur.

## 3. What the runs show

| Run | Result | What it shows |
|---|---|---|
| lookup_session | holds | A waiting lookup that saw the present revision holds the right catalog; the router follows the persisted market outside an operation; the screen shows the outcome of the last submission, of the selected market; the screen is left waiting without a task only by the lookup it waited for, superseded and cancelled by nobody |
| catalog_modules | holds | registered modules are trusted, directories never change, installing, failing and crashing keep the installed module or advance it, the registered module survives a relaunch, and the store implements `ActiveModule` |
| user_library | holds | history never exceeds its cap, only newer entries displace older ones, and no scan accepted before a disabling is saved after it, as long as no flip of the switch fails |
| catalog_proposal | holds | what `main` accepted is the content its release was built from, re-runs are never refused by their own traces, every clock is that of a real full acquisition and never behind that of the base |
| next_proposal | **violated** `MaterialChangeIsProposed` | after the first merged proposal every other catalog is refused by the inherited receipt |
| assessment_lifecycle | holds | a released positive verdict is about the text the source last showed, which two people were shown; never about a text its methodology prohibits; never again after its assessment was rejected or overtaken by another text, and after it was invalidated only once somebody restored it; the adapter never refuses its own result; observations supersede without forks |
| refresh_health | holds | the report says "overdue" and "never acquired" exactly when that is so, as far back as the lists of runs, the artifacts and `main` reach; it hides nothing the newest evidence asks for; the open failure issues end up being those of the sources whose latest run failed, whatever health runs died |
| health_refused | **violated** `FailureAlwaysShown` | a proposal run has the jobs of Open Food Facts twice; while it is the latest run, every health run fails and no failure of any source is shown |
| evidence_intake | holds | what `main` admits, a person confirmed with exactly those images before him; it is admitted once unless two patches were made side by side |
| intake_review | **violated** `ReviewedIsFinalized` | the workflow reads the images again in the run that applies the review, and dates its report after it: no such run finalises |
| intake_queue | **violated** `AdmittedIsQueued` | what the intake commits has no `outputEvidence`, without which the queue of admitted submissions fails |
| module_release | holds | a stable module is the catalog a reviewer accepted, or the committed source set; prices never add a product; basic products are plain; one version keeps one content |

The four violations are findings: each quotes the sentence of the repository
it contradicts. A run shows one trace; section 4 proves how far each finding
reaches.

Some properties that hold are qualified, and each qualification is a fact about
the code:

- `RevokedScansStayOutUnlessThrown` excepts failed flips: a flip that fails
  restores the switch without moving the consent revision, so after two of them
  a scan of an earlier period passes the check.
- `OnlySupersessionStrands` describes the one way a lookup is lost: the router
  supersedes it with a CancellationError, its task was not cancelled, and the
  screen stays "looking up". That a scheduled task ends at all is not stated: it
  would be the fairness of the Swift runtime and nothing of this code.
- `ReceiptBringsItsLineage` excepts merges before the promotion job ended;
  nothing prevents one, as the pull request is open before the states are written.
- `WithdrawnStaysWithdrawn` excepts what somebody restored. A validity event of
  the kind "restored" makes an invalidated assessment selectable again
  (`evidence_model_core.py:864-866`, foreseen by HF-EVIDENCE-017); no tool writes
  one, and no review is asked for it. A migration event dated before a
  restoration does nothing.
- `OverdueIsExact` reaches as far back as the code does. The locator reads the
  newest 20 runs of the workflow (`catalog_refresh_artifact_locator.py:131`) and
  the status the newest 40 (`catalog_refresh_workflow_status.py:353-354`), and
  both sources share that workflow: with its two scheduled runs a week that is
  10 and 20 weeks, the first less than the 90 days artifacts are kept. Once both
  lists have lost every full run and `main` holds no success (`Forgotten`), a
  source that is overdue is said to be never acquired, though
  docs/feature-specs/025-source-aware-catalog-refresh.md:59 asks that the end of
  the payloads "must not erase that operational fact". It also excepts, on the
  side of alarm (`LeftBehind`), runs that overlapped a full one, since
  `apply_operational_clock` overwrites without comparing, runs that ended after
  the artifacts were located, and a full run within the cadence that manual runs
  have already pushed out of the list.
- `NothingIsHidden` excepts what a fixture located in place of the newest full
  run hides, what expired artifacts hide (an empty queue, which closes its
  issues), what the lists of 20 and 40 runs have lost though its artifacts are
  kept (the evidence of a full run, a failure), and what the cut at
  `maxEntries` drops: the order is by priority, then
  name, so "source-or-quality-blocker" and "stale-ingredients" are the last of
  the important reasons and dropped first among them.
- `FailureIsShown` supposes that from some time on no proposal run is the latest
  of its source; health_refused shows what happens otherwise. The latest run is
  the latest of the 40 listed: a failure that newer runs of the other source
  have pushed out has its issue closed.
- `AdmittedOnce` excepts two patches of one base: nothing looks at the registry
  when a patch is merged, and a registry with one image twice refuses every
  later intake.
- `StableIsKept` excepts a version whose edit to "stable" succeeded without an
  answer: the cleanup deletes the stable release, and its identity is free for
  other bytes, though ADR-0013:41 says it "cannot be reused for different bytes".

Observations that are not runs, met while modelling:

- *App.* `load` in the settings lists modules before activation may throw, so
  the list can name a module the router does not serve. A removed module that
  supersedes another cannot be installed again while nothing is installed. The
  history's `load` can show entries it read before a clear. A lookup's market is
  read when its task reaches the router, not when the scan is accepted; while an
  announcement is under way the screen can briefly show the answer of the new
  market (`ResultMarketIsSelected` says it is gone when the operation ends).
- *Evidence.* A certifier whose acceptance is withdrawn keeps its products
  certified until somebody applies the migration's events; no release step reads
  the registry. A text that returns after its ingredients were missing supersedes
  nothing, so two texts stay active and no positive verdict passes the quality
  gate until somebody repairs the chain: the code fails closed, without a queue
  that says so.
- *Health.* A latest run still in progress closes the failure issue of the run
  before it as "resolved". A fixture made after the artifacts expired, or after
  the lists lost the last full run, reports "never acquired" rather than
  overdue. Open Prices has no overdue check.
- *Intake.* A test asserts that the committed registry is empty
  (`Tools/tests/test_product_evidence_intake.py:482`), so the pull request of any
  admission fails it. A package equal to the re-encoded image of an admitted one
  passes `validate` and is refused only when the patch is made.
- *Release.* Artifacts named by a receipt expire after 90 days; then every
  `catalog-release` run fails, the committed source set has no turn while a
  receipt exists, and next_proposal shows that no new receipt can replace it.
  A policy or tool changed between review and release blocks the release, and so
  does one product that one spelling makes basic and another includes: both fail
  closed. "Exact current main" is that of the dispatch. A failed lookup is read
  as "does not exist", and the create that follows is refused by GitHub. The
  publisher does not demand a greater version; the app does
  (`CatalogModuleManager.swift:217`).

### Bounds

- **Lookup** (534 thousand states): two markets (Germany, with its fallback,
  and another), one downloadable version, two tasks, two revisions per process
  life. Two tasks are the latest and one that was cancelled; two revisions let
  the router move twice under one lookup, and a relaunch starts the counter
  again. One version suffices because the router compares revisions, not
  versions; `RouterFollowsPreference` and the others are proved without bounds.
- **Modules** (773 thousand states): a chain of three builds and the second one
  once more under the same identity with other bytes; two staging directories,
  one app update, one fault. Three builds give "skips", "repeats" and "goes
  behind"; the rebuilt one gives a collision.
- **Library** (5 million states): a cap of one, two scans, three consent
  revisions, two flips under way. A check with one scan, five revisions and
  three flips finds the same.
- **Proposals** (3.4 million states): three runs of the kinds scheduled, fixture
  and proposal, one dying job, two merges; the first source publishes two
  contents, the second one, so that catalogs differ or repeat. Two merges are
  the least that lets a proposal start from an accepted receipt. All five kinds
  with two contents each were checked with two runs (257 thousand states).
- **Assessments** (2.3 million states): two texts, one of which the second
  methodology prohibits and one with a material match in the first; a
  certificate that expires; two reviewers, two reviews, three snapshots, two
  instants, one assessment that is ever restored (any number of times). Two
  reviews are the least a positive verdict needs, three snapshots
  let a text go and come back.
- **Health** (489 thousand states): two runs of all five kinds, or one and then
  two of Open Prices (`MaxMixed`), three days, artifacts kept for two, a cadence
  of one, lists of two runs, one health run that dies. Two runs are a full one
  and the one that overlaps, hides or follows it; two of Open Prices push a full
  one out of lists of two before its artifacts expire. The one evidence asks for
  a review from the first day and has a certificate that ends on the second,
  which is more than the queue of one entry holds.
- **Intake** (1.6 million states): four images, one the re-encoding of another;
  four packages, two of them versions of one submission; two screenings, two
  intakes, two reviews. A second screening, intake or review is what can be
  mistaken for the first. The two violations need fewer.
- **Release** (2.5 million states): one version, one run with two attempts,
  three commits, two dispatches; three products under several spellings and five
  retailer records. Two attempts replace artifacts one by one under a receipt,
  three commits are the run's, the merge and an edit, and two dispatches let one
  publisher meet another's traces.

CHECK_DEADLOCK is FALSE throughout: a user may stop doing anything, and the
bounded counters end every run.

### Fairness

- `WF_vars(HealthSteps)` (health): the workflow is scheduled every day, and a run
  that was started takes its steps. That a run may die any bounded number of
  times is part of the model; nothing is assumed of refresh runs or people.
- `WF_vars(PublishQueue)` (intake): the queue of admitted submissions is
  scheduled every day. Its job fails as long as its input cannot be read, which
  is what intake_queue shows.

The other modules are checked for safety only.

## 4. What is proved

Run `tlapm` on `LookupSessionProofs`, `AssessmentLifecycleProofs`,
`UserLibraryProofs`, `CatalogModulesProofs`, `EvidenceIntakeProofs`,
`CatalogProposalProofs`, `CatalogReleaseProofs` and `RefreshHealthProofs`. Every
theorem is of the module's `Spec`, for every value of the constants that meets
the module's named assumptions. Together they state every safety and action
property of the runs that hold; the liveness property stays with TLC.

`LookupSessionProofs`, for all markets, versions, sets of tasks and bounds, from
`RouterAssumption` and `VersionsAreOrdered`:

| Theorem | Property | Inductive invariant |
|---|---|---|
| TypeCorrect | LookupTypeOK | itself |
| SourcesAreCurrent | CapturedSourceIsCurrent | `Captured(r)`: a waiting request never saw a revision ahead of the router's. Without it a reset or a jump of the counter could make an old capture look current |
| RouterKeepsSelection | RouterFollowsPreference | `SelectionInv`: the shape of the operations (`OpShape`), and that router and preference differ only while `Announcing`, when the router is at `op.market` |
| NoLateOutcome | OutcomeIsForLastRequest | `TaskInv`: any task not cancelled is the screen's latest, which is the task of the last submission |
| ShownMarketIsSelected | ResultMarketIsSelected | `MarketInv` with the two above: whatever may still be delivered was resolved for a `Showable` market |
| StrandedOnlyBySupersession | OnlySupersessionStrands | `WaitingInv`: a task that aborts was cancelled, and the task the screen waits for was not |

`AssessmentLifecycleProofs`, for all texts, certificates, methodologies, decisions
and bounds, and any finite set of reviewers, from `NoneAssumption`,
`ReviewersAssumption`, `MethodologyAssumption` and `LifecycleAssumption`:

| Theorem | Property | Part of `LifecycleInv` it rests on |
|---|---|---|
| LifecycleTypeCorrect | LifecycleTypeOK | itself |
| NormalizationNeverRefused | NormalizeIsNotRefused | `Sound(evidence)`: of its type, valid, and its observations in chains. That nothing supersedes the selected observation keeps the one the adapter appends from forking a chain and from being superseded itself |
| SupersessionNeverForks | SupersessionDoesNotFork | `Chains`, in `Sound` |
| PositiveNeverProhibited | PositiveIsNotProhibited | `ApprovalsAreGrounded`: every approval of a positive verdict, added or still a file, is about a text of the evidence that its reviewer was shown and its methodology does not prohibit. The evidence only grows (`Grows`), so this stays true of approvals made long ago |
| PositiveAlwaysReadTwice | PositiveWasReadTwice | the same, with the two approvals the quality decision counts |
| PositiveAlwaysAboutTheSeenText | PositiveIsAboutTheSeenText | `SelectionIsSeen`: the selected observation, if any, has the text last seen |
| WithdrawnNeverReleased | WithdrawnStaysWithdrawn | `WithdrawnIsUnusable`: what was withdrawn is still rejected or overtaken, and what was ever invalid still is or has a restoring event, because the evidence grows: reviews, observations and validity events are only added |

`ReleaseIsOfEvidence` ties a release to the evidence and the quality decision it
was made from, and the edits of people share one lemma (`EditKeeps`): an edit
that keeps the observations and the selected one, and adds approvals only from
materialised results, keeps `LifecycleInv`.

`UserLibraryProofs`, for any retention limit, number of scans, revisions and
flips, from `LibraryAssumption`:

| Theorem | Property | Why it holds |
|---|---|---|
| LibraryTypeCorrect | LibraryTypeOK, the cap included | itself; the cap is kept because a transaction drops the oldest of `Limit + 1` entries |
| OnlyNewerDisplace | OnlyNewerEntriesDisplace | a step of the store that drops an entry drops the least one |
| RevokedScansStayOut | RevokedScansStayOutUnlessThrown | `ConsentInv`: a scan that may still be saved (`Live`) holds the present consent revision and is newer than every disabling carried out or waiting in the store's mailbox (`Ahead`), unless a flip failed. The revision alone would not do: a disabling asked before a scan may reach the store after it |

`CatalogModulesProofs`, for any finite set of builds and any number of staging
directories, updates and faults, from `StoreAssumption`:

| Theorem | Property | Why it holds |
|---|---|---|
| ModulesTypeCorrect | TypeOK | itself |
| RegisteredTrusted | RegisteredIsTrusted | an operation registers what it just verified, and a changed policy comes with a new process |
| DirectoriesStay | DirectoriesAreImmutable | a rename goes to a version without a directory |
| InstalledSurvives | InstalledSurvivesRelaunch | recovery falls back from the pointer to the greatest verified version |
| InstalledStaysOrAdvances | InstalledModuleStaysOrAdvances | `UnderWay` and `Follows`: what an installation under way has verified or written is its candidate, which supersedes what recovery would find |
| StoreImplementsLifecycle | LifecycleImplemented | the same: the initial states map to initial states of `ActiveModule`, and every step of the files to one of its steps or to a stutter under `active <- Recovered`, `held <- VerifiedBuilds` |

That recovery finds a greatest version at all rests on `IsFiniteSet(Builds)` and
`GreatestElement`, that a finite set of numbers has a greatest one.

`EvidenceIntakeProofs`, for any packages, images, re-encodings, reviewers and
bounds, from `IntakeAssumption`:

| Theorem | Property | Part of `IInv` it rests on |
|---|---|---|
| IntakeTypeCorrect | IntakeTypeOK | itself, with the clock as the number of reports and reviews |
| EvidenceAlwaysSeen | EvidenceWasSeen | `AdmissionsAreNamed`: an admission number names one admission wherever it was copied, so a review that names a number was written about that package; `ReviewsSaw`: a review dated after a report on its admission saw what that report shows; `ProposalsRest`: a proposal rests on such a review |
| AdmittedOnlyOnce | AdmittedOnce | `PatchesFit`: a patch was made where no entry of its base conflicts with it |

`CatalogProposalProofs`, for any contents, logical catalogs, kinds of runs and
bounds, from `ProposalAssumption`:

| Theorem | Property | Part of `IInv` it rests on |
|---|---|---|
| ProposalTypeCorrect | ProposalTypeOK | itself; that main holds no candidate because a branch holds only files of its base and promoted ones (`BranchInv`) |
| LineageIsBrought | ReceiptBringsItsLineage | `PhaseInv` and `Written`: a run that is done has written every file it promised, on a branch nobody else writes, and a merge into the commit it started from takes that branch; `MergedInv`: a receipt on main is that of a run that was done, or was merged early |
| RerunsNeverRefused | RerunsAreNotRefused | `BranchInv`: each file of a branch is its base's or the one its own run writes, whatever request an earlier attempt died at; `PhaseInv`: what each phase may rely on |
| ClocksAreAcquisitions | ClockIsAnAcquisition | `Kept` and `OwnOrKept`: the run a clock names is the state's own or one whose sources are evaluated, and what such a run acquired never changes |
| ClocksNeverBehindMain | ClockIsNotBehindMain | `EvaluatedInv`: an acquisition is later than every clock main had when its run was started |

`Keeps` says what every step keeps (the history of main, and all that an
evaluated run holds), and the lemmas that end in `Stays` carry facts about other
runs over it, so the lemma of an action argues about its own run only. LineageIsBrought
holds for any number of merges, and it is weaker than it looks: by
`LaterRunsAreRefused` and `OneReceiptForEver` (below) main carries one run's
receipt for ever.

`CatalogReleaseProofs`, for any deliveries of finitely many records, source sets,
selection policies, versions and bounds, from `SelectionAssumption`,
`SignalsAssumption` (the policy file names the signals of a halal label and of
an additive, as the code presumes) and `ReleaseAssumption` (a delivery is of
records the adapter can write, a committed source set has its type, and `None` is
no catalog, module, release or job):

| Theorem | Property | Part of `IInv` it rests on |
|---|---|---|
| TypesHold | ReleaseTypeOK | all but `CleanUpIsSafe`, for a catalog is typed only because what a job downloads, rebuilds or reads from a commit is (`SoundRun`, `SoundTree`, `JobOK`) |
| StableStaysReviewed | StableIsReviewed | `FromReview`: the evidence of a commit is the catalog of that commit's receipt or source set, however its artifacts were replaced meanwhile; `Admitted`: a module keeps the commit that admits it, from verification over the release until it was served. Commits are only appended, so what a commit admits stays so |
| RetailersOnlyAttach | RetailerOnlyAttaches | `SoundEnvelope`: a selection names retailer evidence of its own product and of known sources; `SoundLogical`: so does a logical catalog, through the handover, the receipt and its review |
| BasicStaysPlain | BasicIsPlain | `Composed` and `Excludes`: from composition to proposal a run has the exclusions of the records delivered to it, and its catalog excludes none it selects. The rest is about `Decision` alone, over all records and rules: `PlainnessFollows` |
| StableStays | StableIsKept | `CleanUpIsSafe`: a job that may still clean up made the release itself, so its version was never served, unless an edit lost its answer. `JobsOK` lets one publisher at a time past its approval |

`RefreshHealthProofs`, for any evidence with finitely many products, kinds of
runs, queue limits, lengths of the lists and bounds, from `QueueAssumption`,
`PlanAssumption` and `HealthAssumption` (artifacts are kept at least for a
cadence, 90 days against 7 in the repository; a list holds at least one run):

| Theorem | Property | Part of `IInv` it rests on |
|---|---|---|
| TypesHold | HealthTypeOK | itself, with `SoundRun`: what a run has in each phase |
| NothingHidden | NothingIsHidden | `SoundRun`: the located run has the evidence it acquired. That the entries an evidence asks for are finitely many (`EntriesAreFinite`) makes the place of an entry in the queue a number, so it is within the limit or that many precede it |
| OverdueIsReported | OverdueIsExact | `Shows`: every clock, on main, in a base, in an artifact, is the completion of a full run, so a source that is due is never called fresh. `CaughtUp`: the clock of a successful run is not behind a full run before it whose artifacts are kept and which no successful run overlapped, so a fresh source is not called due. `Follows` is why it is inductive: a run that ends now either overlapped the earlier one or acquired no earlier. `CaughtUp` speaks only of full runs still in the locator's list (`Near`): a run that finds none there starts from the clock of `main`. Where nothing is located and the status lists no full run, the plan rests on `main` alone, which gives `Forgotten` |

`OverdueIsReported` needs no fairness and no bound on what runs in between: any
chain of fixtures, failures and expiries between the full run and the report is
covered by `CaughtUp` holding of every successful run. What it says of a full run
that the lists have lost is that the source is reported due at all, as overdue or
as never acquired. It does need the artifacts to outlive the cadence: with a
shorter retention a fixture made in the gap would
start from main's older clock.

That the queue is cut at its limit is proved as well, about the operators alone:
`QueueKeepsItsLimit`, for any finite set of entries, and `DailyQueueIsBounded`,
for the queue of any evidence on any day. `Precedes` is a strict total order (the
places of the reasons differ), so the number of entries before an entry tells
the entries apart and `Cut` maps one to one into `0..(MaxEntries - 1)`; what is
dropped comes after all that is kept.

### How far the findings reach

The four violations are traces of small instances. These theorems say, for every
value of the constants, what the code does instead of what the violated property
asks. They rest on the inductive invariants above and are properties of no run;
each was an invariant or property of a TLC run on the instance of the finding
before it was proved.

| Theorem | Finding | What holds, and why |
|---|---|---|
| WorkflowNeverFinalizes (EvidenceIntakeProofs) | intake_review | A run of the workflow ends validated, reported or refused, and the patch of every admission on `main` was made elsewhere. `Late`: a workflow run has its review in hand before it reads the images, so the review is not dated after its report, whoever wrote it and whenever |
| QueueIsEmpty (EvidenceIntakeProofs) | intake_queue | No submission is ever queued: what `main` has of an admission is never what `derive` wants |
| LaterRunsAreRefused (CatalogProposalProofs) | next_proposal | A run started from a `main` with a receipt never has a pull request, open or merged (`CommitsInv`, `BranchInv`) |
| OneReceiptForEver (CatalogProposalProofs) | next_proposal | `main` never exchanges its receipt: what started before it conflicts with it, what starts after it is refused |
| NothingIsReportedOverProposals (RefreshHealthProofs) | health_refused | No step builds a report while a proposal run is the latest of Open Food Facts, whatever ran or failed beside it |

All modules follow the same argument: initial states satisfy the invariant, every
action keeps it (one lemma or step per action), it implies the property, and PTL
concludes. The type invariant is a conjunct of every inductive invariant, or
follows from it (CatalogRelease). Sequences of records with many fields are
proved about through operators of a state's values (`HistoryOK(rs, day)`,
`SoundRun(run, head)`), so one lemma says what appending or replacing a run does
whichever action does it. Each inductive invariant was first checked by TLC on
the instance of its run.

Model-checked only: liveness (`FailureIsShown`), since
the provers have no rule for fairness and ENABLED, and the four violations.
The library's induction theorems cannot be instantiated by the installed
provers, so what recursive computations over data (`Weighted`, the check digit)
return stays with TLC as well.

## 5. Reading the models against the code

Names are the code's where TLA+ allows it (`SelectMarket`,
`RegisterDownloadedModule`, `AcceptScan`, `PromoteState`). Definitions preceded
by "Mutant:" are plausible bugs, and no specification uses them: replacing the
definition after each by it makes a property fail, which shows that the property
depends on that piece of code. Actions of people, Git and the runner are marked
external in `map`.

## 6. Not modelled

- *Product search.* Generations, debounce and paging of one screen over the
  router that LookupSession models. Its two hazards (a page appended from another
  catalog, a `loadMore` that supersession leaves waiting) are listed.
- *Favorites and saved products.* `ResolveSavedProduct` makes two calls to the
  router; the hazard of a registration between them is listed.
- *Cancellation inside `activatePersistedSelection`*, where `try?` turns it into
  "does not verify": the task belongs to the root view (`AppShellView.swift:65`),
  which goes away only with its scene.
- *The migration of an older database schema*: a transaction per step of SQLite;
  what it would show is SQLite's atomicity.
- *SQLite queries, presentation, evidence submission, ingredient OCR.* No state
  that outlives a screen, or pure mappings to wording.
- *Acquisition, parsing, signing, database writing.* I/O and formats; their
  results appear as attempts, records and files.
- *Lanes no workflow runs*: automatic and delta refreshes with conditional
  headers, the execution of a targeted plan (its endpoint's host is not among
  the allowed ones), the recovery tool.
- *The rest of the methodology*: matching of ingredient texts is one verdict per
  text; manufacturer records are validated files that nothing else reads.
- *Quality thresholds on counts, sampling, reason codes*: sums over a whole
  catalog; the models have one product or a few.
- *Governance, configuration, App Store tooling*: checks of files and API glue
  without state.
