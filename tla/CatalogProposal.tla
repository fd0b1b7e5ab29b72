--------------------------- MODULE CatalogProposal ---------------------------
(***************************************************************************)
(* Refresh runs, and the catalog proposals some of them make.               *)
(*                                                                          *)
(* A run of scheduled-catalog-refresh.yml checks out the commit main had    *)
(* when it was started, acquires its sources, and evaluates each against    *)
(* that commit and the clock left by an earlier successful run.  A proposal *)
(* run then writes a branch through GitHub, one request after another:      *)
(* first the release receipt and the pull request (github_catalog_proposal),*)
(* then, in a second job, the refresh state of every changed source         *)
(* (github_refresh_state_proposal).  A job may die after any request, or a  *)
(* request may succeed and its answer be lost; failed jobs are run again    *)
(* with the same commit and artifacts.  A reviewer merges or closes an open *)
(* pull request whenever he likes.                                          *)
(*                                                                          *)
(* Only the receipt and the two state files are ever written, so a commit   *)
(* is those three files.  The branch of a run carries its snapshot and the  *)
(* digest of its database in its name and belongs to that run alone.        *)
(***************************************************************************)
EXTENDS RefreshState, Sequences, FiniteSets

CONSTANTS
    Published,      \* for every source the contents it may publish
    Logical,        \* the logical catalog two contents compile to
    Kinds,          \* the kinds of runs that are started
    MaxRuns,        \* bound: runs ever started
    MaxCrashes,     \* bound: jobs that die
    MaxMerges       \* bound: merges into main

ASSUME ProposalAssumption ==
    /\ None \notin Contents
    /\ None \notin [receipt : Nat, state : [{"off", "op"} -> State]]
    /\ Published \in [{"off", "op"} -> SUBSET Contents]
    /\ Kinds \subseteq {"scheduled-off", "scheduled-op", "manual-off",
                        "fixture", "proposal"}
    /\ DOMAIN Logical = Contents \X Contents
    /\ MaxRuns \in Nat /\ MaxCrashes \in Nat /\ MaxMerges \in Nat

VARIABLES
    commits,        \* the history of protected main
    branches,       \* for every run its proposal branch, or None
    pulls,          \* for every run the state of its pull request
    runs,           \* the workflow runs, in the order they were started
    clock,          \* the time of the latest acquisition
    crashes,        \* jobs that died
    early           \* history: runs merged before their last job had ended

repository == <<commits, branches, pulls, early>>
vars == <<repository, runs, clock, crashes>>

Sources == {"off", "op"}
Tree == [receipt : 0..MaxRuns, state : [Sources -> State]]
ProposalPhases == {"branch", "receipt", "pull"}
PromotionPhases == {"check", "off", "op", "compare"}
Active == {"sources"} \cup ProposalPhases \cup PromotionPhases
Ended == {"done", "failed", "refused", "unpromoted", "lost-proposal",
          "lost-promotion"}

RunRecord ==
    [kind : Kinds, phase : Active \cup Ended, base : Nat,
     got : [Sources -> Attempt \cup {None}],
     states : [Sources -> State \cup {None}]]

RunIds == 1..MaxRuns
Main == commits[Len(commits)]
Base(r) == commits[runs[r].base]

(* Every variable has its type, and no file of main holds a candidate that  *)
(* was not promoted ("Production release must fail closed").                *)
ProposalTypeOK ==
    /\ commits \in Seq(Tree)
    /\ \A n \in DOMAIN commits, s \in Sources :
           commits[n].state[s].candidate = None
    /\ branches \in [RunIds -> Tree \cup {None}]
    /\ pulls \in [RunIds -> {"none", "open", "merged", "closed"}]
    /\ runs \in Seq(RunRecord) /\ Len(runs) <= MaxRuns
    /\ clock \in Nat
    /\ crashes \in 0..MaxCrashes
    /\ early \subseteq RunIds

Init ==
    /\ commits = <<[receipt |-> 0, state |-> [s \in Sources |-> NoLineage]]>>
    /\ branches = [r \in RunIds |-> None]
    /\ pulls = [r \in RunIds |-> "none"]
    /\ runs = <<>>
    /\ clock = 0
    /\ crashes = 0
    /\ early = {}

Goto(r, phase) == runs' = [runs EXCEPT ![r].phase = phase]

-----------------------------------------------------------------------------
(* Starting a run, and its sources.                                         *)

(* The concurrency group of a run: the scheduled ones share one.            *)
Group(kind) ==
    IF kind \in {"scheduled-off", "scheduled-op"} THEN "scheduled"
    ELSE "open-food-facts"

GroupIsFree(kind) ==
    \A q \in DOMAIN runs :
        Group(runs[q].kind) = Group(kind) => runs[q].phase \notin Active

SourcesOf(kind) ==
    CASE kind = "scheduled-op" -> {"op"}
      [] kind = "proposal" -> Sources
      [] OTHER -> {"off"}

StartRun(kind) ==
    /\ Len(runs) < MaxRuns
    /\ GroupIsFree(kind)
    /\ runs' = Append(runs, [kind |-> kind, phase |-> "sources",
                             base |-> Len(commits),
                             got |-> [s \in Sources |-> None],
                             states |-> [s \in Sources |-> None]])
    /\ UNCHANGED <<repository, clock, crashes>>

(* Policy, acquisition, normalisation and quality of one source succeed.    *)
Acquire(r, s) ==
    /\ runs[r].phase = "sources"
    /\ s \in SourcesOf(runs[r].kind)
    /\ runs[r].got[s] = None
    /\ \E content \in Published[s] :
           runs' = [runs EXCEPT ![r].got[s] =
                      [run |-> r, complete |-> runs[r].kind # "fixture",
                       content |-> content, at |-> clock + 1]]
    /\ clock' = clock + 1
    /\ UNCHANGED <<repository, crashes>>

(* A partial download, a blocked quality report or any other failure.  What *)
(* such a run leaves is never read again, and is forgotten.                 *)
SourceFails(r) ==
    /\ runs[r].phase = "sources"
    /\ runs' = [runs EXCEPT ![r] = [@ EXCEPT !.phase = "failed",
                                            !.got = [s \in Sources |-> None],
                                            !.states = [s \in Sources |-> None]]]
    /\ UNCHANGED <<repository, clock, crashes>>

(* select_latest(): the newest successful run that left a state of s, if    *)
(* its artifacts have not expired.                                          *)
LeftState(s) ==
    {q \in DOMAIN runs : runs[q].phase = "done" /\ runs[q].states[s] # None}

Located(s) ==
    {None} \cup {runs[q].states[s] :
                   q \in {p \in LeftState(s) : \A o \in LeftState(s) : o <= p}}

(* catalog-refresh.yml for one source; after the last one the run goes on   *)
(* to its proposal or is over.                                              *)
Refresh(r, s) ==
    /\ runs[r].phase = "sources"
    /\ runs[r].got[s] # None
    /\ runs[r].states[s] = None
    /\ \E prior \in Located(s) :
         LET attempt == runs[r].got[s]
             previous == MergePreviousState(Base(r).state[s], prior)
             states == [runs[r].states EXCEPT ![s] =
                          ApplyOperationalClock(Evaluate(attempt, previous),
                                                attempt)]
             over == \A t \in SourcesOf(runs[r].kind) : states[t] # None
         IN  runs' = [runs EXCEPT
                        ![r].states = states,
                        ![r].phase = IF ~over THEN "sources"
                                     ELSE IF runs[r].kind = "proposal"
                                          THEN "branch" ELSE "done"]
    /\ UNCHANGED <<repository, clock, crashes>>

-----------------------------------------------------------------------------
(* materialize-production-proposal                                          *)

Catalog(r) == Logical[<<runs[r].got["off"].content, runs[r].got["op"].content>>]

(* The receipt of the reviewed base stands for the same logical catalog.    *)
AcceptedAlready(r) ==
    /\ Base(r).receipt # 0
    /\ Catalog(Base(r).receipt) = Catalog(r)

(* Nothing is proposed for a catalog the base has.  Otherwise the branch is *)
(* created from the base, unless an earlier attempt has.                    *)
EnsureBranch(r) ==
    /\ runs[r].phase = "branch"
    /\ IF AcceptedAlready(r)
       THEN Goto(r, "check") /\ UNCHANGED branches
       ELSE /\ Goto(r, "receipt")
            /\ branches' = IF branches[r] = None
                           THEN [branches EXCEPT ![r] = Base(r)] ELSE branches
    /\ UNCHANGED <<commits, pulls, early, clock, crashes>>

(* Mutant: a receipt that is there is refused, even one's own.              *)
PutNewReceipt(r) ==
    /\ runs[r].phase = "receipt"
    /\ branches[r] # None
    /\ IF branches[r].receipt = 0
       THEN /\ branches' = [branches EXCEPT ![r].receipt = r]
            /\ Goto(r, "pull")
       ELSE Goto(r, "refused") /\ UNCHANGED branches
    /\ UNCHANGED <<commits, pulls, early, clock, crashes>>

(* The receipt is written where the branch has none; a different one is     *)
(* refused, the one the branch inherited from its base included.            *)
PutReceipt(r) ==
    /\ runs[r].phase = "receipt"
    /\ branches[r] # None
    /\ \/ /\ branches[r].receipt = 0
          /\ branches' = [branches EXCEPT ![r].receipt = r]
          /\ Goto(r, "pull")
       \/ /\ branches[r].receipt = r
          /\ UNCHANGED branches
          /\ Goto(r, "pull")
       \/ /\ branches[r].receipt \notin {0, r}
          /\ UNCHANGED branches
          /\ Goto(r, "refused")
    /\ UNCHANGED <<commits, pulls, early, clock, crashes>>

(* The branch differs from its base in admitted paths only, and an open     *)
(* pull request is reused.                                                  *)
OpenPullRequest(r) ==
    /\ runs[r].phase = "pull"
    /\ branches[r] # None
    /\ pulls' = [pulls EXCEPT ![r] = "open"]
    /\ Goto(r, "check")
    /\ UNCHANGED <<commits, branches, early, clock, crashes>>

(* A request to a branch that a reviewer deleted is answered with an error. *)
ProposalBranchIsGone(r) ==
    /\ runs[r].phase \in {"receipt", "pull"}
    /\ branches[r] = None
    /\ Goto(r, "lost-proposal")
    /\ UNCHANGED <<repository, clock, crashes>>

-----------------------------------------------------------------------------
(* promote-reviewed-refresh-states                                          *)

Desired(r, s) == Promoted(runs[r].states[s], Base(r).state[s])

(* The states were evaluated against the base, the branch exists and holds  *)
(* this run's receipt; nothing is promoted for a catalog the base has.      *)
CheckPromotion(r) ==
    /\ runs[r].phase = "check"
    /\ IF AcceptedAlready(r) THEN Goto(r, "done")
       ELSE IF /\ \A s \in Sources :
                     runs[r].states[s].accepted = Base(r).state[s].accepted
               /\ branches[r] # None
               /\ branches[r].receipt = r
            THEN Goto(r, "off")
            ELSE Goto(r, "unpromoted")
    /\ UNCHANGED <<repository, clock, crashes>>

AfterSource(s) == IF s = "off" THEN "op" ELSE "compare"

(* The state file of one source: left alone if it is what it should be,     *)
(* written if it is still the one of the base, refused otherwise.           *)
PutState(r, s) ==
    /\ runs[r].phase = s
    /\ IF /\ branches[r] # None
          /\ branches[r].state[s] \in {Desired(r, s), Base(r).state[s]}
       THEN /\ branches' = [branches EXCEPT ![r].state[s] = Desired(r, s)]
            /\ Goto(r, AfterSource(s))
       ELSE Goto(r, "unpromoted") /\ UNCHANGED branches
    /\ UNCHANGED <<commits, pulls, early, clock, crashes>>

(* The branch differs from the base in the receipt and in the states of the *)
(* changed sources, and in nothing else.                                    *)
ComparePaths(r) ==
    /\ runs[r].phase = "compare"
    /\ IF /\ branches[r] # None
          /\ branches[r].receipt # Base(r).receipt
          /\ \A s \in Sources :
                 (branches[r].state[s] # Base(r).state[s])
                     = (runs[r].states[s].candidate # None)
       THEN Goto(r, "done")
       ELSE Goto(r, "unpromoted")
    /\ UNCHANGED <<repository, clock, crashes>>

-----------------------------------------------------------------------------
(* Jobs that die, and the people.                                           *)

JobDies(r) ==
    /\ crashes < MaxCrashes
    /\ crashes' = crashes + 1
    /\ \/ runs[r].phase \in ProposalPhases /\ Goto(r, "lost-proposal")
       \/ runs[r].phase \in PromotionPhases /\ Goto(r, "lost-promotion")
    /\ UNCHANGED <<repository, clock>>

(* "Re-run failed jobs": the job starts over with its commit and artifacts. *)
RerunJob(r) ==
    /\ GroupIsFree(runs[r].kind)
    /\ \/ runs[r].phase = "lost-proposal" /\ Goto(r, "branch")
       \/ runs[r].phase = "lost-promotion" /\ Goto(r, "check")
    /\ UNCHANGED <<repository, clock, crashes>>

(* Git refuses a merge where both sides changed a file in different ways.   *)
CleanMerge(base, ours, theirs) == base \in {ours, theirs} \/ ours = theirs
MergedFile(base, ours, theirs) == IF theirs = base THEN ours ELSE theirs

(* The reviewer merges, and may have the branch deleted.                    *)
MergePullRequest(r) ==
    LET theirs == branches[r]
        receipt == MergedFile(Base(r).receipt, Main.receipt, theirs.receipt)
        state == [s \in Sources |-> MergedFile(Base(r).state[s], Main.state[s],
                                               theirs.state[s])]
    IN  /\ pulls[r] = "open"
        /\ Len(commits) <= MaxMerges
        /\ CleanMerge(Base(r).receipt, Main.receipt, theirs.receipt)
        /\ \A s \in Sources : CleanMerge(Base(r).state[s], Main.state[s],
                                         theirs.state[s])
        /\ commits' = Append(commits, [receipt |-> receipt, state |-> state])
        /\ pulls' = [pulls EXCEPT ![r] = "merged"]
        /\ early' = IF runs[r].phase = "done" THEN early ELSE early \cup {r}
        /\ branches' \in {branches, [branches EXCEPT ![r] = None]}
        /\ UNCHANGED <<runs, clock, crashes>>

ClosePullRequest(r) ==
    /\ pulls[r] = "open"
    /\ pulls' = [pulls EXCEPT ![r] = "closed"]
    /\ UNCHANGED <<commits, branches, early, runs, clock, crashes>>

Next ==
    \/ \E kind \in Kinds : StartRun(kind)
    \/ \E r \in DOMAIN runs :
        \/ \E s \in Sources : Acquire(r, s) \/ Refresh(r, s)
        \/ SourceFails(r)
        \/ EnsureBranch(r) \/ PutReceipt(r) \/ OpenPullRequest(r)
        \/ ProposalBranchIsGone(r)
        \/ CheckPromotion(r) \/ ComparePaths(r)
        \/ \E s \in Sources : PutState(r, s)
        \/ JobDies(r) \/ RerunJob(r)
        \/ MergePullRequest(r) \/ ClosePullRequest(r)

Spec == Init /\ [][Next]_vars

-----------------------------------------------------------------------------
(* REF-004: of every source main has accepted the content from which the    *)
(* release of its receipt was built, whatever died, was repeated or was     *)
(* merged in between - unless the reviewer merged before the run had ended, *)
(* which nothing stops him from doing.                                      *)
ReceiptBringsItsLineage ==
    LET r == Main.receipt
    IN  r # 0 /\ r \notin early =>
            \A s \in Sources : Same(Main.state[s].accepted, runs[r].got[s])

(* "makes reruns idempotent" (ADR-0005): a run is never refused for what    *)
(* an earlier attempt of it has left; only a receipt inherited from main or *)
(* a branch that was deleted stops it.                                      *)
RerunsAreNotRefused ==
    \A r \in DOMAIN runs :
        /\ runs[r].phase = "refused" => Base(r).receipt # 0
        /\ runs[r].phase = "unpromoted" => branches[r] = None

(* REF-003, REF-005: a clock, on main, on a branch or in an artifact, shows *)
(* the time of a complete acquisition of that source by the run it names.   *)
ClockShown(state, s) ==
    IF state.successRun = 0 THEN state.successAt = 0
    ELSE /\ runs[state.successRun].got[s] # None
         /\ runs[state.successRun].got[s].complete
         /\ runs[state.successRun].got[s].at = state.successAt

ClockIsAnAcquisition ==
    \A s \in Sources :
        /\ \A n \in DOMAIN commits : ClockShown(commits[n].state[s], s)
        /\ \A r \in RunIds :
               branches[r] # None => ClockShown(branches[r].state[s], s)
        /\ \A r \in DOMAIN runs :
               runs[r].states[s] # None => ClockShown(runs[r].states[s], s)

(* REF-003: a run never leaves a clock behind the one main had when it was  *)
(* started, though artifacts expire and runs end out of order.              *)
ClockIsNotBehindMain ==
    \A r \in DOMAIN runs, s \in Sources :
        runs[r].states[s] # None =>
            runs[r].states[s].successAt >= Base(r).state[s].successAt

(* "Material catalog changes always remain reviewable" (ADR-0005): a run    *)
(* with another catalog than its base is not refused by its own branch.     *)
MaterialChangeIsProposed ==
    \A r \in DOMAIN runs : runs[r].phase # "refused"
==============================================================================
