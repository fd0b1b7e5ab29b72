---------------------------- MODULE RefreshHealth ----------------------------
(***************************************************************************)
(* The daily health of the source refreshes and the incidents it keeps.     *)
(*                                                                          *)
(* Runs of scheduled-catalog-refresh.yml acquire a source, evaluate it and  *)
(* succeed or fail.  catalog-health.yml looks, in three steps with requests *)
(* between them, for the newest successful run whose artifacts are left     *)
(* (catalog_refresh_artifact_locator), for the status of each source's runs *)
(* (catalog_refresh_workflow_status), and then builds one report: the due   *)
(* state (catalog_refresh_plan), the queue of the located evidence, and the *)
(* keys of everything that is wrong (catalog_refresh_health_core).  Last it *)
(* brings the GitHub issues in line with the keys, one request after        *)
(* another (catalog_health_incident).  It may die at any request, and a new *)
(* run cancels the one under way.                                           *)
(*                                                                          *)
(* The base report is that of the committed fixture and has no blockers.    *)
(* One content stands for every snapshot: what is accepted matters here     *)
(* only through the clock.                                                  *)
(***************************************************************************)
EXTENDS RefreshState, RefreshPlan

CONSTANTS
    Evidences,      \* the evidence an Open Food Facts run may end with
    Kinds,          \* the kinds of runs that are started
    Retention,      \* days the artifacts of a run are kept
    LocatorWindow,  \* runs of the workflow the locator lists (20)
    StatusWindow,   \* runs of the workflow the status lists (40)
    MaxDays,        \* bound: days
    MaxRuns,        \* bound: refresh runs ever started
    MaxMixed,       \* bound: runs until only Open Prices may go on
    MaxDeaths       \* bound: health runs that die or are cancelled

ASSUME HealthAssumption ==
    /\ Contents # {} /\ None \notin State
    /\ Evidences \subseteq EvidenceEnvelope
    /\ \A e \in Evidences :
           /\ IsFiniteSet(e.products) /\ IsFiniteSet(e.changed)
           /\ IsFiniteSet(e.blockers)
           /\ \A p \in e.products : IsFiniteSet(p.certificates)
    /\ Kinds \subseteq {"scheduled-off", "scheduled-op", "fixture", "full",
                        "proposal"}
    /\ Retention \in Nat \ {0} /\ Cadence("off") <= Retention
    /\ {LocatorWindow, StatusWindow} \subseteq Nat \ {0}
    /\ {MaxDays, MaxMixed} \subseteq Nat \ {0}
    /\ {MaxRuns, MaxDeaths} \subseteq Nat

VARIABLES
    now,            \* the day
    runs,           \* the refresh runs, in the order they were created
    main,           \* the accepted state of Open Food Facts on main
    open,           \* the keys with an open health issue
    health,         \* the health run under way
    deaths          \* health runs that died

vars == <<now, runs, main, open, health, deaths>>

Sources == {"off", "op"}
SourceOf(kind) == IF kind = "scheduled-op" THEN "op" ELSE "off"

(* The reasons of queue entries that become incidents.                      *)
IncidentReasons ==
    {"stale-ingredients", "changed-unreviewed", "certification-expiry",
     "certification-invalidated", "source-or-quality-blocker"}

(* The deduplication keys, in the order of their names.                     *)
KeyOrder ==
    <<<<"off", "attempt">>, <<"off", "full-overdue">>, <<"off", "never-acquired">>,
      <<"off", "certification-expiry">>, <<"off", "certification-invalidated">>,
      <<"off", "changed-unreviewed">>, <<"off", "source-or-quality-blocker">>,
      <<"off", "stale-ingredients">>, <<"off", "failure">>, <<"op", "failure">>>>

Keys == {KeyOrder[n] : n \in DOMAIN KeyOrder}

RunRecord ==
    [kind : Kinds, phase : {"acquiring", "refreshing", "success", "failure"},
     base : State, at : Nat, state : State \cup {None},
     evidence : Evidences \cup {None}, overlaps : SUBSET (1..MaxRuns)]

Idle == [phase |-> "idle", base |-> NoLineage, located |-> 0, plan |-> {},
         seen |-> {}, rest |-> {}]

HealthRecord ==
    [phase : {"idle", "located", "listing", "writing", "closing"},
     base : State, located : 0..MaxRuns,
     plan : SUBSET Keys, seen : SUBSET Keys, rest : SUBSET Keys]

(* Every variable has its type, and only planned keys wait to be written.   *)
HealthTypeOK ==
    /\ now \in 1..MaxDays
    /\ runs \in Seq(RunRecord) /\ Len(runs) <= MaxRuns
    /\ main \in State /\ main.candidate = None
    /\ open \subseteq Keys
    /\ health \in HealthRecord
    /\ health.phase = "writing" => health.rest \subseteq health.plan
    /\ health.phase = "closing" => health.rest \cap health.plan = {}
    /\ deaths \in 0..MaxDeaths

Init ==
    /\ now = 1
    /\ runs = <<>>
    /\ main = NoLineage
    /\ open = {}
    /\ health = Idle
    /\ deaths = 0

Tick ==
    /\ now < MaxDays
    /\ now' = now + 1
    /\ UNCHANGED <<runs, main, open, health, deaths>>

-----------------------------------------------------------------------------
(* The refresh runs.                                                        *)

RunsOf(s) == {q \in DOMAIN runs : SourceOf(runs[q].kind) = s}
UnderWay(q) == runs[q].phase \in {"acquiring", "refreshing"}

(* One page of the workflow's runs: its newest n, of either source and also *)
(* those under way; of them the ones of a source.                           *)
Listed(s, n) == {q \in RunsOf(s) : Len(runs) < q + n}

(* Scheduled runs of both sources share a concurrency group.  What a run    *)
(* overlaps with is kept for the properties.                                *)
SameGroup(kind, other) ==
    LET scheduled == {"scheduled-off", "scheduled-op"}
    IN  (kind \in scheduled) = (other \in scheduled)

StartRefresh(kind) ==
    /\ Len(runs) < MaxRuns
    /\ Len(runs) >= MaxMixed =>
          {kind, runs[Len(runs)].kind} = {"scheduled-op"}
    /\ \A q \in DOMAIN runs : SameGroup(kind, runs[q].kind) => ~UnderWay(q)
    /\ runs' = Append(runs, [kind |-> kind, phase |-> "acquiring",
                             base |-> main, at |-> 0, state |-> None,
                             evidence |-> None,
                             overlaps |-> {q \in RunsOf(SourceOf(kind)) : UnderWay(q)}])
    /\ UNCHANGED <<now, main, open, health, deaths>>

(* The acquire job completes; the evidence is what normalisation makes of   *)
(* the snapshot.                                                            *)
Acquire(r) ==
    /\ runs[r].phase = "acquiring"
    /\ \E evidence \in IF SourceOf(runs[r].kind) = "off" THEN Evidences
                       ELSE {None} :
           runs' = [runs EXCEPT ![r].phase = "refreshing", ![r].at = now,
                                ![r].evidence = evidence]
    /\ UNCHANGED <<now, main, open, health, deaths>>

(* locate(): of the successful runs it lists that still have their          *)
(* artifacts the one created last, or 0.                                    *)
Kept(q) == now < runs[q].at + Retention

LocateLatest(s) ==
    LET eligible == {q \in Listed(s, LocatorWindow) :
                        runs[q].phase = "success" /\ Kept(q)}
    IN  IF eligible = {} THEN 0
        ELSE CHOOSE q \in eligible : \A o \in eligible : o <= q

Attempted(r) ==
    [run |-> r, complete |-> runs[r].kind # "fixture",
     content |-> CHOOSE c \in Contents : TRUE, at |-> runs[r].at]

(* The refresh job: evaluated against the commit the run checked out and    *)
(* the clock the newest earlier run left.                                   *)
RefreshSucceeds(r) ==
    LET s == SourceOf(runs[r].kind)
        prior == LocateLatest(s)
        previous == MergePreviousState(runs[r].base,
                        IF prior = 0 THEN None ELSE runs[prior].state)
        state == ApplyOperationalClock(Evaluate(Attempted(r), previous),
                                       Attempted(r))
    IN  /\ runs[r].phase = "refreshing"
        /\ runs' = [runs EXCEPT ![r].phase = "success", ![r].state = state]
        /\ UNCHANGED <<now, main, open, health, deaths>>

(* Any job of the run fails.  What it leaves is not looked at.              *)
RefreshFails(r) ==
    /\ UnderWay(r)
    /\ runs' = [runs EXCEPT ![r].phase = "failure", ![r].evidence = None,
                            ![r].at = 0]
    /\ UNCHANGED <<now, main, open, health, deaths>>

(* A reviewer merges the proposal of a run, with its promoted state.        *)
AcceptProposal(r) ==
    /\ runs[r].kind = "proposal"
    /\ runs[r].phase = "success"
    /\ runs[r].state.candidate # None
    /\ runs[r].base = main
    /\ main' = PromoteState(runs[r].state)
    /\ UNCHANGED <<now, runs, open, health, deaths>>

-----------------------------------------------------------------------------
(* The status of the runs of a source.                                      *)

(* latest_relevant_run() of those listed, or 0.                             *)
Latest(s) ==
    LET seen == Listed(s, StatusWindow)
    IN  IF seen = {} THEN 0 ELSE CHOOSE q \in seen : \A o \in seen : o <= q

(* apply_job_lineage(): every required job succeeded, in full mode.         *)
FullSuccess(q) == runs[q].phase = "success" /\ runs[q].kind # "fixture"

(* The last successful full run of those listed, or 0.                      *)
LastSuccess(s) ==
    LET full == {q \in Listed(s, StatusWindow) : FullSuccess(q)}
    IN  IF full = {} THEN 0 ELSE CHOOSE q \in full : \A o \in full : o <= q

(* fetch_status() reads the jobs of the latest run, and of the successful   *)
(* ones before it until it has found a full one.                            *)
Scanned(s) ==
    LET latest == Latest(s)
    IN  {latest} \cup
        {q \in Listed(s, StatusWindow) :
           /\ ~FullSuccess(latest)
           /\ runs[q].phase = "success"
           /\ \A o \in RunsOf(s) : o > q => ~FullSuccess(o)}

EmptyStatus ==
    [available |-> FALSE, run |-> 0, conclusion |-> None, mode |-> None,
     full |-> FALSE, at |-> 0, lastRun |-> 0, lastAt |-> 0]

(* fetch_status(): the latest run, and the last that acquired in full.      *)
Status(s) ==
    LET latest == Latest(s)
        last == LastSuccess(s)
    IN  IF latest = 0 THEN EmptyStatus
        ELSE [available |-> TRUE, run |-> latest,
              conclusion |-> IF UnderWay(latest) THEN None ELSE runs[latest].phase,
              mode |-> IF runs[latest].kind = "fixture" THEN "fixture" ELSE "full",
              full |-> FullSuccess(latest),
              at |-> IF FullSuccess(latest) THEN runs[latest].at ELSE 0,
              lastRun |-> last, lastAt |-> IF last = 0 THEN 0 ELSE runs[last].at]

(* validate_status()                                                        *)
ValidStatus(status) ==
    /\ status.available = (status.run # 0)
    /\ status.full => /\ status.available
                      /\ status.conclusion = "success" /\ status.mode = "full"
    /\ status.full = (status.at # 0)
    /\ (status.lastRun = 0) = (status.lastAt = 0)

(* A proposal run has the required jobs twice, once for each source, and    *)
(* apply_job_lineage() refuses a second job of a name.                      *)
DuplicateJobs(s) ==
    Latest(s) # 0 /\ \E q \in Scanned(s) : runs[q].kind = "proposal"

StatusRefused(s) ==
    DuplicateJobs(s) \/ \E status \in {Status(s)} : ~ValidStatus(status)

(* _workflow_projections(): only a run that is over has a conclusion.       *)
WorkflowBlockers ==
    {<<s, "failure">> : s \in {t \in Sources : Status(t).conclusion = "failure"}}

-----------------------------------------------------------------------------
(* The report.                                                              *)

(* merge_workflow_status(): without artifacts the clock comes from the      *)
(* metadata of the runs, if that is ahead of main.                          *)
MergeWorkflowStatus(accepted) ==
    LET status == Status("off")
    IN  IF status.lastRun # 0 /\ status.lastAt > accepted.successAt
        THEN [accepted EXCEPT !.successAt = status.lastAt,
                              !.successRun = status.lastRun]
        ELSE accepted

(* Mutant: without artifacts only main is asked.                            *)
PlanStateOfMain(located) ==
    IF located = 0 THEN health.base
    ELSE MergePreviousState(health.base, runs[located].state)

PlanState(located) ==
    IF located = 0 THEN MergeWorkflowStatus(health.base)
    ELSE MergePreviousState(health.base, runs[located].state)

(* The state on main starts with a due day and no success.                  *)
DueKeys(plan) ==
    {k \in {<<"off", "never-acquired">>} :
       plan.due = "no-successful-full-acquisition"}
    \cup {k \in {<<"off", "full-overdue">>} : plan.due = "full-cadence-due"}

(* The report of the located run says its attempt was not a complete one.   *)
AttemptKeys(located) ==
    {k \in {<<"off", "attempt">>} :
       located # 0 /\ runs[located].kind = "fixture"}

(* Mutant: the queue of the run itself, as it was when the run ended.       *)
QueueOfRun(located) ==
    IF located = 0 THEN {} ELSE QueueOf(runs[located].evidence, runs[located].at)

(* The queue is made again from the located evidence with today's date, and *)
(* is empty where no artifacts are left.                                    *)
DailyQueue(located) ==
    IF located = 0 THEN {} ELSE QueueOf(runs[located].evidence, now)

QueueKeys(queue) ==
    {<<"off", e.reason>> : e \in {f \in queue : f.reason \in IncidentReasons}}

(* enrich_health()                                                          *)
BlockerKeys(located) ==
    LET queue == DailyQueue(located)
        plan == Plan("off", PlanState(located), queue, now)
    IN  WorkflowBlockers \cup DueKeys(plan)
        \cup AttemptKeys(located) \cup QueueKeys(queue)

-----------------------------------------------------------------------------
(* catalog-health.yml                                                       *)

(* A new run, which cancels the one under way, checks main out and locates  *)
(* the artifacts.                                                           *)
StartHealth ==
    /\ \/ health.phase = "idle" /\ UNCHANGED deaths
       \/ /\ health.phase # "idle" /\ deaths < MaxDeaths
          /\ deaths' = deaths + 1
    /\ health' = [Idle EXCEPT !.phase = "located", !.base = main,
                              !.located = LocateLatest("off")]
    /\ UNCHANGED <<now, runs, main, open>>

(* The statuses of both sources are read and the report is built; without   *)
(* either status, or where the artifacts are gone by now, the run fails.    *)
BuildReport ==
    /\ health.phase = "located"
    /\ UNCHANGED <<now, runs, main, open, deaths>>
    /\ health' =
         IF \/ \E s \in Sources : StatusRefused(s)
            \/ health.located # 0 /\ ~Kept(health.located)
         THEN Idle
         ELSE [Idle EXCEPT !.phase = "listing",
                           !.plan = BlockerKeys(health.located)]

(* Mutant: only issues that are planned are listed.                         *)
ListPlanned ==
    /\ health.phase = "listing"
    /\ health' = [health EXCEPT !.phase = "writing",
                                !.seen = open \cap health.plan,
                                !.rest = health.plan]
    /\ UNCHANGED <<now, runs, main, open, deaths>>

(* _existing_health_issues(): every issue, open or closed.  Of what it      *)
(* returns only the state is used.                                          *)
ListIssues ==
    /\ health.phase = "listing"
    /\ health' = [health EXCEPT !.phase = "writing", !.seen = open,
                                !.rest = health.plan]
    /\ UNCHANGED <<now, runs, main, open, deaths>>

First(keys) ==
    KeyOrder[CHOOSE n \in DOMAIN KeyOrder :
                /\ KeyOrder[n] \in keys
                /\ \A m \in 1..(n - 1) : KeyOrder[m] \notin keys]

(* The planned issues are created, or updated and opened again, in order.   *)
WriteIssue ==
    /\ health.phase = "writing"
    /\ health.rest # {}
    /\ open' = open \cup {First(health.rest)}
    /\ health' = [health EXCEPT !.rest = @ \ {First(health.rest)}]
    /\ UNCHANGED <<now, runs, main, deaths>>

(* Then the open ones that are not planned are to be closed.                *)
StartClosing ==
    /\ health.phase = "writing"
    /\ health.rest = {}
    /\ health' = [health EXCEPT !.phase = "closing",
                                !.rest = health.seen \ health.plan]
    /\ UNCHANGED <<now, runs, main, open, deaths>>

CloseIssue(k) ==
    /\ health.phase = "closing"
    /\ open' = open \ {k}
    /\ health' = [health EXCEPT !.rest = @ \ {k}]
    /\ UNCHANGED <<now, runs, main, deaths>>

HealthEnds ==
    /\ health.phase = "closing"
    /\ health.rest = {}
    /\ health' = Idle
    /\ UNCHANGED <<now, runs, main, open, deaths>>

(* A request fails, with or without effect, or the job is lost.             *)
HealthDies ==
    /\ health.phase # "idle"
    /\ deaths < MaxDeaths
    /\ deaths' = deaths + 1
    /\ health' = Idle
    /\ UNCHANGED <<now, runs, main, open>>

Next ==
    \/ Tick
    \/ \E kind \in Kinds : StartRefresh(kind)
    \/ \E r \in DOMAIN runs :
        Acquire(r) \/ RefreshSucceeds(r) \/ RefreshFails(r) \/ AcceptProposal(r)
    \/ StartHealth \/ BuildReport \/ ListIssues \/ WriteIssue
    \/ StartClosing \/ HealthEnds
    \/ \E k \in health.rest : CloseIssue(k)
    \/ HealthDies

(* The health workflow is scheduled every day, and once it runs each of its *)
(* steps is taken; nothing is assumed of the refresh runs or of people.     *)
HealthSteps ==
    \/ health.phase = "idle" /\ StartHealth
    \/ BuildReport \/ ListIssues \/ WriteIssue \/ StartClosing \/ HealthEnds
    \/ \E k \in health.rest : CloseIssue(k)

Spec == Init /\ [][Next]_vars /\ WF_vars(HealthSteps)
-----------------------------------------------------------------------------
(* What the report and the incidents promise.                               *)

BuildsReport == health.phase = "located" /\ health'.phase = "listing"

FullRuns == {q \in RunsOf("off") : FullSuccess(q)}
AcquiredInTime == \E q \in FullRuns : now < runs[q].at + Cadence("off")

(* The report calls Open Food Facts overdue exactly when no full            *)
(* acquisition was completed within the cadence, and never acquired exactly *)
(* when none ever was, as far as anybody remembers one.  The clock reaches  *)
(* it through the state of the run before, through main or through the      *)
(* metadata of the workflow, across fixtures, failures and expired          *)
(* artifacts.  A run that overlapped a full one, or that ended after the    *)
(* artifacts were located, may leave the report behind, and so may a full   *)
(* run of these days that the lists have already lost; then it errs on the  *)
(* side of alarm.  Once both lists have lost every full run and main holds  *)
(* no success, all is forgotten: what is overdue is then said to be never   *)
(* acquired.  (So is it by a fixture made after that.)                      *)
ActuallyDue ==
    {d \in {"never-acquired"} : FullRuns = {}}
    \cup {d \in {"full-overdue"} : FullRuns # {} /\ ~AcquiredInTime}

LeftBehind ==
    \/ LocateLatest("off") # health.located
    \/ \E q \in FullRuns, r \in RunsOf("off") :
          runs[r].phase = "success" /\ q \in runs[r].overlaps
    \/ \E q \in FullRuns \ Listed("off", IF health.located = 0 THEN StatusWindow
                                         ELSE LocatorWindow) :
          now < runs[q].at + Cadence("off")

Forgotten ==
    health.located = 0 /\ LastSuccess("off") = 0 /\ health.base.successAt = 0

OverdueIsExact ==
    [][BuildsReport =>
         LET reported == {"full-overdue", "never-acquired"}
                           \cap {k[2] : k \in health'.plan}
         IN  /\ ActuallyDue # {} => reported # {}
             /\ ~LeftBehind => (reported # {} => ActuallyDue # {})
             /\ ~LeftBehind /\ health.located \in FullRuns \cup {0} =>
                  reported = IF Forgotten THEN {"never-acquired"}
                             ELSE ActuallyDue]_vars

(* Whatever the newest complete evidence asks for today and that needs      *)
(* action is in the report, with a failed run of either source that no      *)
(* later run follows.  Not so where a fixture was located in its stead, the *)
(* artifacts are gone or MaxEntries entries come before it in the queue;    *)
(* nor where newer runs, of whichever source, have pushed the run out of    *)
(* the locator's list, or the failure out of the status'.                   *)
NewestIsLocated ==
    /\ health.located \in FullRuns
    /\ \A q \in FullRuns : q <= health.located

NothingIsHidden ==
    [][BuildsReport =>
         /\ \A s \in Sources :
               (\E q \in Listed(s, StatusWindow) :
                    runs[q].phase = "failure" /\ \A o \in RunsOf(s) : o <= q)
               => <<s, "failure">> \in health'.plan
         /\ NewestIsLocated =>
              LET all == AllEntries(runs[health.located].evidence, now)
              IN  \A e \in {f \in all : f.reason \in IncidentReasons} :
                     \/ <<"off", e.reason>> \in health'.plan
                     \/ MaxEntries <= Cardinality({f \in all : Precedes(f, e)})
        ]_vars

(* Once no more runs are started (and no instance starts any number of      *)
(* them), a source whose latest run failed has an open issue in the end,    *)
(* and a source whose latest run did not fail, or is listed no more, has    *)
(* none - whatever health runs died half way - provided that the statuses   *)
(* can be read.                                                             *)
LatestFailed(s) == Latest(s) # 0 /\ runs[Latest(s)].phase = "failure"

FailureIsShown ==
    <>[](\A s \in Sources : ~DuplicateJobs(s)) =>
        <>[](\A s \in Sources : (<<s, "failure">> \in open) = LatestFailed(s))

(* What docs/feature-specs/025 asks for: a failure that needs action is     *)
(* visible, whichever kinds of runs there are.                              *)
FailureAlwaysShown ==
    \A s \in Sources :
        <>[]LatestFailed(s) => <>[](<<s, "failure">> \in open)
==============================================================================
