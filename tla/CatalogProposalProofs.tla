----------------------- MODULE CatalogProposalProofs -----------------------
(***************************************************************************)
(* Proofs about refresh runs and their catalog proposals: the clocks, the   *)
(* lineage main accepts and the re-runs, for any sources' contents, kinds   *)
(* of runs and bounds.                                                      *)
(***************************************************************************)
EXTENDS CatalogProposal, TLAPS, SequenceTheorems

-----------------------------------------------------------------------------
(* The inductive invariant.                                                 *)

\* The sources of a run have been evaluated: what it got and what it made of
\* it stay.
Past(rs, r) == r \in DOMAIN rs /\ rs[r].phase \notin {"sources", "failed"}

\* A commit after the first carries the receipt of a run, and a run carries a
\* greater number than the receipt it started from.
CommitsInv ==
    /\ 1 \in DOMAIN commits
    /\ \A n \in DOMAIN commits :
          /\ commits[n].receipt = 0 <=> n = 1
          /\ n # 1 => Past(runs, commits[n].receipt)
    /\ \A r \in DOMAIN runs :
          runs[r].base \in DOMAIN commits /\ Base(r).receipt < r

\* What a run makes of a source: the candidate is what it got, if that is
\* complete and new to the base it started from.
EvaluatedInv(r, s) ==
    LET got == runs[r].got[s]
        state == runs[r].states[s]
        base == Base(r).state[s]
    IN  /\ got # None =>
              /\ got.run = r /\ got.complete = (runs[r].kind # "fixture")
              /\ got.at <= clock /\ base.successAt < got.at
        /\ state # None =>
              /\ got # None
              /\ state.accepted = base.accepted
              /\ state.candidate = IF got.complete /\ ~Same(base.accepted, got)
                                   THEN got ELSE None
              /\ base.successAt <= state.successAt

RunInv(r) ==
    /\ runs[r].phase \notin {"sources", "failed", "done"} => runs[r].kind = "proposal"
    /\ Past(runs, r) => \A s \in SourcesOf(runs[r].kind) : runs[r].states[s] # None
    /\ \A s \in Sources : EvaluatedInv(r, s)

\* A clock was made by a run whose acquisitions stay, or by its own run.
ShownBy(rs, state, s) ==
    /\ state.successRun = 0 => state.successAt = 0
    /\ state.successRun # 0 =>
          /\ rs[state.successRun].got[s] # None
          /\ rs[state.successRun].got[s].complete
          /\ rs[state.successRun].got[s].at = state.successAt

Kept(rs, state, s) ==
    /\ ShownBy(rs, state, s)
    /\ state.successRun = 0 \/ Past(rs, state.successRun)

OwnOrKept(rs, r, state, s) ==
    /\ ShownBy(rs, state, s)
    /\ state.successRun \in {0, r} \/ Past(rs, state.successRun)

\* A branch belongs to a proposal run, and each of its files is that of the
\* base or the one the run writes.
BranchInv(r) ==
    /\ branches[r] # None =>
          /\ Past(runs, r) /\ runs[r].kind = "proposal"
          /\ branches[r].receipt \in {Base(r).receipt, r}
          /\ branches[r].receipt = r => Base(r).receipt = 0
          /\ \A s \in Sources :
                branches[r].state[s] \in {Base(r).state[s], Desired(r, s)}
    /\ pulls[r] # "none" => /\ Past(runs, r) /\ runs[r].kind = "proposal"
                            /\ Base(r).receipt = 0
    /\ pulls[r] = "open" => branches[r] # None /\ branches[r].receipt = r

\* What a phase says of base and branch.
Receipted(r) ==
    Base(r).receipt = 0 /\ (branches[r] # None => branches[r].receipt = r)
Written(r, s) == branches[r] # None => branches[r].state[s] = Desired(r, s)

PhaseInv(r) ==
    /\ runs[r].phase = "pull" => Receipted(r)
    /\ runs[r].phase \in {"check", "lost-promotion"} =>
          AcceptedAlready(r) \/ Receipted(r)
    /\ runs[r].phase \in {"off", "op", "compare"} => Receipted(r)
    /\ runs[r].phase \in {"op", "compare"} => Written(r, "off")
    /\ runs[r].phase = "compare" => Written(r, "op")
    /\ runs[r].phase = "done" /\ Base(r).receipt = 0 =>
          \A s \in Sources : Written(r, s)
    /\ runs[r].phase = "refused" => Base(r).receipt # 0
    /\ runs[r].phase = "unpromoted" => branches[r] = None

\* A run whose receipt is on main, and was not merged too early, is over.
MergedInv ==
    \A n \in DOMAIN commits :
        LET r == commits[n].receipt
        IN  r # 0 /\ r \notin early => pulls[r] = "merged" /\ runs[r].phase = "done"

IInv ==
    /\ ProposalTypeOK
    /\ CommitsInv
    /\ \A r \in DOMAIN runs : RunInv(r)
    /\ \A s \in Sources :
          /\ \A n \in DOMAIN commits : Kept(runs, commits[n].state[s], s)
          /\ \A r \in DOMAIN runs :
                runs[r].states[s] # None => OwnOrKept(runs, r, runs[r].states[s], s)
    /\ \A r \in RunIds : BranchInv(r)
    /\ \A r \in DOMAIN runs : PhaseInv(r)
    /\ MergedInv
    /\ ReceiptBringsItsLineage

-----------------------------------------------------------------------------
(* Types, and steps that keep what was evaluated.                           *)

LEMMA RunsAndCommits ==
    ASSUME ProposalTypeOK
    PROVE  /\ DOMAIN runs = 1..Len(runs) /\ Len(runs) \in Nat /\ Len(runs) <= MaxRuns
           /\ DOMAIN commits = 1..Len(commits) /\ Len(commits) \in Nat
           /\ \A r \in DOMAIN runs : runs[r] \in RunRecord /\ r \in RunIds /\ r \in Nat /\ r # 0
           /\ \A n \in DOMAIN commits : commits[n] \in Tree
           /\ clock \in Nat /\ MaxRuns \in Nat
<1>1. runs \in Seq(RunRecord) /\ commits \in Seq(Tree)
  BY DEF ProposalTypeOK
<1>2. /\ DOMAIN runs = 1..Len(runs) /\ Len(runs) \in Nat
      /\ DOMAIN commits = 1..Len(commits) /\ Len(commits) \in Nat
  BY <1>1, LenProperties
<1>3. \A r \in DOMAIN runs : runs[r] \in RunRecord
  BY <1>1, <1>2, ElementOfSeq
<1>4. \A n \in DOMAIN commits : commits[n] \in Tree
  BY <1>1, <1>2, ElementOfSeq
<1>5. Len(runs) <= MaxRuns /\ MaxRuns \in Nat /\ clock \in Nat
  BY ProposalAssumption DEF ProposalTypeOK
<1>. QED
  BY <1>2, <1>3, <1>4, <1>5 DEF RunIds

LEMMA SourcesOfKinds ==
    /\ Sources = {"off", "op"}
    /\ SourcesOf("proposal") = Sources
    /\ \A kind \in Kinds : SourcesOf(kind) \subseteq Sources
BY DEF Sources, SourcesOf

\* The run r becomes x, and nothing else does.
Becomes(r, x) ==
    /\ runs' \in Seq(RunRecord) /\ Len(runs') = Len(runs) /\ DOMAIN runs' = DOMAIN runs
    /\ runs'[r] = x
    /\ \A q \in DOMAIN runs : q # r => runs'[q] = runs[q]

LEMMA OneRunBecomes ==
    ASSUME ProposalTypeOK, NEW r \in DOMAIN runs, NEW x \in RunRecord,
           runs' = [runs EXCEPT ![r] = x]
    PROVE  Becomes(r, x)
<1>1. runs \in Seq(RunRecord) /\ r \in 1..Len(runs) /\ DOMAIN runs = 1..Len(runs)
  BY RunsAndCommits DEF ProposalTypeOK
<1>2. /\ runs' \in Seq(RunRecord) /\ Len(runs') = Len(runs)
      /\ \A j \in 1..Len(runs) : runs'[j] = IF j = r THEN x ELSE runs[j]
  BY <1>1, ExceptSeq
<1>3. DOMAIN runs' = 1..Len(runs')
  BY <1>2, LenProperties
<1>. QED
  BY <1>1, <1>2, <1>3 DEF Becomes

LEMMA AppendedSequence ==
    ASSUME NEW S, NEW t \in Seq(S), NEW e \in S
    PROVE  /\ Append(t, e) \in Seq(S)
           /\ Len(Append(t, e)) = Len(t) + 1 /\ Len(t) \in Nat
           /\ DOMAIN Append(t, e) = DOMAIN t \cup {Len(t) + 1}
           /\ Len(t) + 1 \notin DOMAIN t
           /\ Append(t, e)[Len(t) + 1] = e
           /\ \A n \in DOMAIN t : Append(t, e)[n] = t[n]
<1>1. /\ Len(t) \in Nat /\ DOMAIN t = 1..Len(t)
  BY LenProperties
<1>2. /\ Append(t, e) \in Seq(S)
      /\ Len(Append(t, e)) = Len(t) + 1
      /\ \A i \in 1..Len(t) : Append(t, e)[i] = t[i]
      /\ Append(t, e)[Len(t) + 1] = e
  BY AppendProperties
<1>3. DOMAIN Append(t, e) = 1..(Len(t) + 1)
  BY <1>2, LenProperties
<1>. QED
  BY <1>1, <1>2, <1>3

\* What every step keeps: history, and all that an evaluated run holds.
Keeps ==
    /\ DOMAIN runs \subseteq DOMAIN runs'
    /\ \A q \in DOMAIN runs : runs'[q].base = runs[q].base /\ runs'[q].kind = runs[q].kind
    /\ \A q \in DOMAIN runs : Past(runs, q) =>
          /\ Past(runs', q)
          /\ runs'[q].got = runs[q].got /\ runs'[q].states = runs[q].states
    /\ DOMAIN commits \subseteq DOMAIN commits'
    /\ \A n \in DOMAIN commits : commits'[n] = commits[n]

LEMMA BasesStay ==
    ASSUME CommitsInv, Keeps
    PROVE  \A q \in DOMAIN runs : Base(q)' = Base(q)
BY DEF CommitsInv, Keeps, Base

LEMMA KeptStays ==
    ASSUME Keeps, NEW s, NEW state, Kept(runs, state, s)
    PROVE  Kept(runs', state, s)
<1>1. CASE state.successRun = 0
  BY <1>1 DEF Kept, ShownBy
<1>2. CASE state.successRun # 0
  <2>1. Past(runs, state.successRun) /\ state.successRun \in DOMAIN runs
    BY <1>2 DEF Kept, Past
  <2>2. /\ Past(runs', state.successRun)
        /\ runs'[state.successRun].got = runs[state.successRun].got
    BY <2>1 DEF Keeps
  <2>. QED
    BY <1>2, <2>2 DEF Kept, ShownBy
<1>. QED
  BY <1>1, <1>2

LEMMA OwnOrKeptStays ==
    ASSUME Keeps, NEW s, NEW state, NEW r, OwnOrKept(runs, r, state, s),
           runs'[r].got[s] = runs[r].got[s]
    PROVE  OwnOrKept(runs', r, state, s)
<1>1. CASE state.successRun \in {0, r}
  BY <1>1 DEF OwnOrKept, ShownBy
<1>2. CASE state.successRun \notin {0, r}
  <2>1. Kept(runs, state, s)
    BY <1>2 DEF OwnOrKept, Kept
  <2>2. Kept(runs', state, s)
    BY <2>1, KeptStays
  <2>. QED
    BY <1>2, <2>2 DEF OwnOrKept, Kept
<1>. QED
  BY <1>1, <1>2

LEMMA DesiredStays ==
    ASSUME CommitsInv, Keeps, NEW r \in DOMAIN runs, Past(runs, r), NEW s
    PROVE  Desired(r, s)' = Desired(r, s)
<1>1. Base(r)' = Base(r) /\ runs'[r].states = runs[r].states
  BY BasesStay DEF Keeps
<1>. QED
  BY <1>1 DEF Desired

LEMMA AcceptedStays ==
    ASSUME CommitsInv, Keeps, NEW r \in DOMAIN runs, Past(runs, r)
    PROVE  AcceptedAlready(r)' = AcceptedAlready(r)
<1>1. Base(r)' = Base(r) /\ runs'[r].got = runs[r].got
  BY BasesStay DEF Keeps
<1>2. CASE Base(r).receipt = 0
  BY <1>1, <1>2 DEF AcceptedAlready
<1>3. CASE Base(r).receipt # 0
  <2>1. runs[r].base \in DOMAIN commits
    BY DEF CommitsInv
  <2>2. Past(runs, Base(r).receipt) /\ Base(r).receipt \in DOMAIN runs
    BY <1>3, <2>1 DEF CommitsInv, Base, Past
  <2>3. runs'[Base(r).receipt].got = runs[Base(r).receipt].got
    BY <2>2 DEF Keeps
  <2>. QED
    BY <1>1, <2>3 DEF AcceptedAlready, Catalog
<1>. QED
  BY <1>2, <1>3

\* A pull request stays, or is no longer open.
PullStays(r) ==
    \/ pulls'[r] = pulls[r]
    \/ pulls'[r] # "open" /\ pulls[r] # "none"

LEMMA BranchStays ==
    ASSUME CommitsInv, Keeps, NEW r \in RunIds, BranchInv(r),
           branches'[r] = branches[r], PullStays(r)
    PROVE  BranchInv(r)'
<1>1. CASE r \in DOMAIN runs /\ Past(runs, r)
  <2>1. /\ Base(r)' = Base(r) /\ Past(runs', r) /\ runs'[r].kind = runs[r].kind
        /\ \A s \in Sources : Desired(r, s)' = Desired(r, s)
    BY <1>1, BasesStay, DesiredStays DEF Keeps
  <2>. QED
    BY <2>1 DEF BranchInv, PullStays
<1>2. CASE ~(r \in DOMAIN runs /\ Past(runs, r))
  <2>1. branches[r] = None /\ pulls[r] = "none"
    BY <1>2 DEF BranchInv, Past
  <2>. QED
    BY <2>1 DEF BranchInv, PullStays
<1>. QED
  BY <1>1, <1>2

LEMMA PhaseStays ==
    ASSUME CommitsInv, Keeps, NEW r \in DOMAIN runs, PhaseInv(r),
           runs'[r].phase = runs[r].phase, branches'[r] = branches[r]
    PROVE  PhaseInv(r)'
<1>1. Base(r)' = Base(r)
  BY BasesStay
<1>2. CASE Past(runs, r)
  <2>1. AcceptedAlready(r)' = AcceptedAlready(r)
    BY <1>2, AcceptedStays
  <2>2. \A s : Desired(r, s)' = Desired(r, s)
    BY <1>2, DesiredStays
  <2>3. Receipted(r)' = Receipted(r)
    BY <1>1 DEF Receipted
  <2>4. \A s : Written(r, s)' = Written(r, s)
    BY <2>2 DEF Written
  <2>. QED
    BY <1>1, <2>1, <2>3, <2>4 DEF PhaseInv
<1>3. CASE ~Past(runs, r)
  <2>1. runs[r].phase \in {"sources", "failed"}
    BY <1>3 DEF Past
  <2>. QED
    BY <2>1 DEF PhaseInv
<1>. QED
  BY <1>2, <1>3

-----------------------------------------------------------------------------
(* Steps of a job of an evaluated run: it goes to another phase, and may    *)
(* write its branch and its pull request.                                   *)

Later == (Active \cup Ended) \ {"sources", "failed"}

\* The phase of r becomes p, and only r's branch and pull request may change.
JobStep(r, p) ==
    /\ Goto(r, p)
    /\ UNCHANGED <<commits, early, clock>>
    /\ \A q \in RunIds : q # r => branches'[q] = branches[q] /\ pulls'[q] = pulls[q]

LEMMA JobStepKeeps ==
    ASSUME IInv, NEW r \in DOMAIN runs, NEW p \in Later, JobStep(r, p),
           runs[r].phase \notin {"sources", "failed", "done"}
    PROVE  /\ Keeps /\ CommitsInv
           /\ Becomes(r, [runs[r] EXCEPT !.phase = p])
           /\ runs'[r].phase = p /\ runs'[r] \in RunRecord
           /\ runs'[r].kind = "proposal" /\ runs[r].kind = "proposal"
           /\ Past(runs, r) /\ Past(runs', r)
           /\ \A q \in DOMAIN runs : /\ runs'[q].got = runs[q].got
                                     /\ runs'[q].states = runs[q].states
                                     /\ runs'[q].kind = runs[q].kind
                                     /\ runs'[q].base = runs[q].base
<1>. DEFINE x == [runs[r] EXCEPT !.phase = p]
<1>1. ProposalTypeOK /\ CommitsInv /\ RunInv(r) /\ runs[r] \in RunRecord
  BY RunsAndCommits DEF IInv
<1>2. runs' = [runs EXCEPT ![r] = x]
  BY DEF JobStep, Goto
<1>3. /\ x \in RunRecord /\ x.phase = p
      /\ x.kind = runs[r].kind /\ x.base = runs[r].base
      /\ x.got = runs[r].got /\ x.states = runs[r].states
  <2>1. p \in Active \cup Ended
    BY DEF Later
  <2>. QED
    BY <1>1, <2>1 DEF RunRecord
<1>. HIDE DEF x
<1>4. Becomes(r, x)
  BY <1>1, <1>2, <1>3, OneRunBecomes
<1>5. p \notin {"sources", "failed"}
  BY DEF Later
<1>6. \A q \in DOMAIN runs : /\ runs'[q].got = runs[q].got
                             /\ runs'[q].states = runs[q].states
                             /\ runs'[q].kind = runs[q].kind
                             /\ runs'[q].base = runs[q].base
  BY <1>3, <1>4 DEF Becomes
<1>7. \A q \in DOMAIN runs : Past(runs, q) => Past(runs', q)
  BY <1>3, <1>4, <1>5 DEF Becomes, Past
<1>8. Keeps
  BY <1>4, <1>6, <1>7 DEF Keeps, Becomes, JobStep
<1>9. Past(runs, r) /\ runs[r].kind = "proposal"
  BY <1>1 DEF RunInv, Past
<1>. QED
  BY <1>1, <1>3, <1>4, <1>6, <1>7, <1>8, <1>9 DEF x, Becomes

LEMMA JobStepKeepsInv ==
    ASSUME IInv, NEW r \in DOMAIN runs, NEW p \in Later, JobStep(r, p),
           runs[r].phase \notin {"sources", "failed", "done"},
           branches' \in [RunIds -> Tree \cup {None}],
           pulls' \in [RunIds -> {"none", "open", "merged", "closed"}],
           crashes' \in 0..MaxCrashes,
           BranchInv(r)', PhaseInv(r)'
    PROVE  IInv'
<1>1. /\ ProposalTypeOK /\ CommitsInv /\ Keeps /\ runs'[r] \in RunRecord
      /\ Becomes(r, [runs[r] EXCEPT !.phase = p])
      /\ Past(runs, r) /\ Past(runs', r) /\ runs'[r].kind = "proposal"
      /\ \A q \in DOMAIN runs : /\ runs'[q].got = runs[q].got
                                /\ runs'[q].states = runs[q].states
                                /\ runs'[q].kind = runs[q].kind
                                /\ runs'[q].base = runs[q].base
  BY JobStepKeeps DEF IInv
<1>2. UNCHANGED <<commits, early, clock>> /\ DOMAIN runs' = DOMAIN runs
  BY <1>1 DEF JobStep, Becomes
<1>3. \A q \in DOMAIN runs : Base(q)' = Base(q)
  BY <1>1, BasesStay
<1>4. ProposalTypeOK'
  BY <1>1, <1>2 DEF ProposalTypeOK, Becomes
<1>5. CommitsInv'
  <2>1. \A n \in DOMAIN commits : n # 1 => Past(runs', commits[n].receipt)
    <3>1. \A n \in DOMAIN commits : n # 1 =>
             Past(runs, commits[n].receipt) /\ commits[n].receipt \in DOMAIN runs
      BY <1>1 DEF CommitsInv, Past
    <3>. QED
      BY <1>1, <3>1 DEF Keeps
  <2>. QED
    BY <1>1, <1>2, <1>3, <2>1 DEF CommitsInv
<1>6. \A q \in DOMAIN runs : RunInv(q)'
  <2>1. \A q \in DOMAIN runs, s \in Sources : EvaluatedInv(q, s)'
    BY <1>1, <1>2, <1>3 DEF IInv, RunInv, EvaluatedInv
  <2>2. ASSUME NEW q \in DOMAIN runs, q # r
        PROVE  /\ runs'[q].phase = runs[q].phase /\ RunInv(q)
               /\ Past(runs', q) = Past(runs, q)
    BY <1>1, <2>2 DEF Becomes, IInv, Past
  <2>3. \A q \in DOMAIN runs : Past(runs', q) =>
           \A s \in SourcesOf(runs'[q].kind) : runs'[q].states[s] # None
    BY <1>1, <2>2 DEF IInv, RunInv
  <2>4. \A q \in DOMAIN runs :
           runs'[q].phase \notin {"sources", "failed", "done"} => runs'[q].kind = "proposal"
    BY <1>1, <2>2 DEF IInv, RunInv
  <2>. QED
    BY <2>1, <2>3, <2>4 DEF RunInv
<1>7. \A s \in Sources :
          /\ \A n \in DOMAIN commits : Kept(runs', commits[n].state[s], s)
          /\ \A q \in DOMAIN runs :
                runs[q].states[s] # None => OwnOrKept(runs', q, runs[q].states[s], s)
  BY <1>1, KeptStays, OwnOrKeptStays DEF IInv
<1>8. \A q \in RunIds : BranchInv(q)'
  <2>1. ASSUME NEW q \in RunIds, q # r
        PROVE  BranchInv(q)'
    <3>1. branches'[q] = branches[q] /\ pulls'[q] = pulls[q] /\ BranchInv(q)
      BY <2>1 DEF JobStep, IInv
    <3>2. CommitsInv /\ Keeps
      BY <1>1
    <3>3. PullStays(q)
      BY <3>1 DEF PullStays
    <3>. QED
      BY <3>1, <3>2, <3>3, BranchStays
  <2>. QED
    BY <2>1
<1>9. \A q \in DOMAIN runs : PhaseInv(q)'
  <2>1. ASSUME NEW q \in DOMAIN runs, q # r
        PROVE  PhaseInv(q)'
    <3>1. q \in RunIds /\ PhaseInv(q)
      BY <1>1, RunsAndCommits DEF IInv
    <3>2. branches'[q] = branches[q] /\ runs'[q].phase = runs[q].phase
      BY <1>1, <2>1, <3>1 DEF JobStep, Becomes
    <3>. QED
      BY <1>1, <3>1, <3>2, PhaseStays
  <2>. QED
    BY <2>1
<1>10. MergedInv'
  <2>1. ASSUME NEW n \in DOMAIN commits, commits[n].receipt # 0, commits[n].receipt \notin early
        PROVE  pulls'[commits[n].receipt] = "merged" /\ runs'[commits[n].receipt].phase = "done"
    <3>. DEFINE q == commits[n].receipt
    <3>1. pulls[q] = "merged" /\ runs[q].phase = "done"
      BY <2>1 DEF IInv, MergedInv
    <3>2. q \in DOMAIN runs /\ q \in RunIds
      BY <1>1, <2>1, RunsAndCommits DEF CommitsInv, Past
    <3>3. q # r
      BY <3>1
    <3>. QED
      BY <1>1, <3>1, <3>2, <3>3 DEF JobStep, Becomes
  <2>. QED
    BY <1>2, <2>1 DEF MergedInv
<1>11. ReceiptBringsItsLineage'
  <2>1. Main' = Main
    BY <1>2 DEF Main
  <2>2. Main.receipt # 0 => Main.receipt \in DOMAIN runs
    <3>1. Len(commits) \in DOMAIN commits
      BY <1>1, RunsAndCommits DEF CommitsInv
    <3>. QED
      BY <1>1, <3>1 DEF CommitsInv, Main, Past
  <2>3. Main.receipt # 0 => runs'[Main.receipt].got = runs[Main.receipt].got
    BY <1>1, <2>2
  <2>. QED
    BY <1>2, <2>1, <2>3 DEF IInv, ReceiptBringsItsLineage
<1>. QED
  BY <1>2, <1>1, <1>4, <1>5, <1>6, <1>7, <1>8, <1>9, <1>10, <1>11 DEF IInv

\* What is known of a proposal run whose sources are evaluated.
LEMMA ProposalFacts ==
    ASSUME IInv, NEW r \in DOMAIN runs,
           Past(runs, r), runs[r].kind = "proposal"
    PROVE  /\ ProposalTypeOK /\ CommitsInv /\ BranchInv(r) /\ PhaseInv(r)
           /\ r \in RunIds /\ r # 0 /\ r \in Nat /\ Past(runs, r)
           /\ runs[r].base \in DOMAIN commits
           /\ Base(r) \in Tree /\ Base(r).receipt \in Nat /\ Base(r).receipt < r
           /\ \A s \in Sources :
                 /\ runs[r].states[s] \in State /\ runs[r].states[s] # None
                 /\ Base(r).state[s] \in State /\ Base(r).state[s].candidate = None
                 /\ Desired(r, s) \in State /\ Desired(r, s).candidate = None
                 /\ EvaluatedInv(r, s)
<1>1. ProposalTypeOK /\ CommitsInv /\ RunInv(r) /\ PhaseInv(r)
  BY DEF IInv
<1>2. r \in RunIds /\ r # 0 /\ r \in Nat /\ runs[r] \in RunRecord
  BY <1>1, RunsAndCommits
<1>3. BranchInv(r)
  BY <1>2 DEF IInv
<1>4. runs[r].base \in DOMAIN commits /\ Base(r).receipt < r
  BY <1>1 DEF CommitsInv
<1>5. Base(r) \in Tree
  BY <1>1, <1>4, RunsAndCommits DEF Base
<1>6. Base(r).receipt \in Nat /\ Base(r).state \in [Sources -> State]
  BY <1>1, <1>5, RunsAndCommits DEF Tree
<1>7. ASSUME NEW s \in Sources
      PROVE  /\ runs[r].states[s] \in State /\ runs[r].states[s] # None
             /\ Base(r).state[s] \in State /\ Base(r).state[s].candidate = None
             /\ Desired(r, s) \in State /\ Desired(r, s).candidate = None
             /\ EvaluatedInv(r, s)
  <2>1. EvaluatedInv(r, s) /\ runs[r].states[s] # None
    BY <1>1, SourcesOfKinds DEF RunInv
  <2>2. runs[r].states[s] \in State
    BY <1>2, <2>1 DEF RunRecord
  <2>3. Base(r).state[s] \in State /\ Base(r).state[s].candidate = None
    BY <1>1, <1>4, <1>6 DEF ProposalTypeOK, Base
  <2>4. ASSUME NEW st \in State
        PROVE  /\ PromoteState(st) \in State /\ PromoteState(st).candidate = None
               /\ PromoteState(st).accepted = st.candidate
    BY DEF PromoteState, State
  <2>5. Desired(r, s) \in State /\ Desired(r, s).candidate = None
    BY <2>2, <2>3, <2>4 DEF Desired, Promoted
  <2>. QED
    BY <2>1, <2>2, <2>3, <2>5
<1>. QED
  BY <1>1, <1>2, <1>3, <1>4, <1>5, <1>6, <1>7

\* What is known of the run of a job.
LEMMA JobFacts ==
    ASSUME IInv, NEW r \in DOMAIN runs,
           runs[r].phase \notin {"sources", "failed", "done"}
    PROVE  /\ ProposalTypeOK /\ CommitsInv /\ BranchInv(r) /\ PhaseInv(r)
           /\ r \in RunIds /\ r # 0 /\ r \in Nat /\ Past(runs, r)
           /\ runs[r].base \in DOMAIN commits
           /\ Base(r) \in Tree /\ Base(r).receipt \in Nat /\ Base(r).receipt < r
           /\ \A s \in Sources :
                 /\ runs[r].states[s] \in State /\ runs[r].states[s] # None
                 /\ Base(r).state[s] \in State /\ Base(r).state[s].candidate = None
                 /\ Desired(r, s) \in State /\ Desired(r, s).candidate = None
                 /\ EvaluatedInv(r, s)
<1>1. Past(runs, r) /\ runs[r].kind = "proposal"
  BY DEF IInv, RunInv, Past
<1>. QED
  BY <1>1, ProposalFacts

LEMMA JobStepFacts ==
    ASSUME IInv, NEW r \in DOMAIN runs, NEW p \in Later, JobStep(r, p),
           runs[r].phase \notin {"sources", "failed", "done"}
    PROVE  /\ Base(r)' = Base(r) /\ runs'[r].phase = p /\ Keeps /\ CommitsInv
           /\ \A s : Desired(r, s)' = Desired(r, s)
           /\ AcceptedAlready(r)' = AcceptedAlready(r)
           /\ Past(runs', r) /\ runs'[r].kind = "proposal"
<1>1. /\ Keeps /\ CommitsInv /\ runs'[r].phase = p /\ runs'[r].kind = "proposal"
      /\ Past(runs, r) /\ Past(runs', r)
  BY JobStepKeeps
<1>. QED
  BY <1>1, BasesStay, DesiredStays, AcceptedStays

\* A step of the job that leaves branch and pull request alone keeps the
\* invariant if what the new phase says holds.
LEMMA GotoKeepsInv ==
    ASSUME IInv, NEW r \in DOMAIN runs, NEW p \in Later, Goto(r, p),
           runs[r].phase \notin {"sources", "failed", "done"},
           UNCHANGED <<repository, clock>>, crashes' \in 0..MaxCrashes,
           PhaseInv(r)'
    PROVE  IInv'
<1>1. UNCHANGED <<commits, branches, pulls, early, clock>>
  BY DEF repository
<1>2. JobStep(r, p)
  BY <1>1 DEF JobStep
<1>3. ProposalTypeOK /\ BranchInv(r) /\ r \in RunIds
  BY JobFacts
<1>4. Keeps /\ CommitsInv
  BY <1>2, JobStepFacts
<1>5. PullStays(r) /\ branches'[r] = branches[r]
  BY <1>1 DEF PullStays
<1>6. BranchInv(r)'
  BY <1>3, <1>4, <1>5, BranchStays
<1>7. /\ branches' \in [RunIds -> Tree \cup {None}]
      /\ pulls' \in [RunIds -> {"none", "open", "merged", "closed"}]
  BY <1>1, <1>3 DEF ProposalTypeOK
<1>. QED
  BY <1>2, <1>6, <1>7, JobStepKeepsInv

LEMMA LaterPhases ==
    {"branch", "receipt", "pull", "check", "off", "op", "compare", "done",
     "refused", "unpromoted", "lost-proposal", "lost-promotion"} \subseteq Later
BY DEF Later, Active, Ended, ProposalPhases, PromotionPhases

LEMMA EnsureBranchKeepsInv ==
    ASSUME IInv, NEW r \in DOMAIN runs, EnsureBranch(r)
    PROVE  IInv'
<1>1. /\ runs[r].phase = "branch"
      /\ UNCHANGED <<commits, pulls, early, clock, crashes>>
  BY DEF EnsureBranch
<1>2. /\ ProposalTypeOK /\ CommitsInv /\ BranchInv(r) /\ r \in RunIds
      /\ Base(r) \in Tree /\ Base(r).receipt \in Nat /\ Base(r).receipt < r
      /\ Past(runs, r) /\ r \in Nat
  BY <1>1, JobFacts
<1>3. crashes' \in 0..MaxCrashes
  BY <1>1, <1>2 DEF ProposalTypeOK
<1>4. CASE AcceptedAlready(r) /\ Goto(r, "check") /\ UNCHANGED branches
  <2>1. JobStep(r, "check")
    BY <1>1, <1>4 DEF JobStep
  <2>2. "check" \in Later
    BY LaterPhases
  <2>3. AcceptedAlready(r)' /\ runs'[r].phase = "check"
    BY <1>1, <1>4, <2>1, <2>2, JobStepFacts
  <2>4. PhaseInv(r)'
    BY <2>3 DEF PhaseInv
  <2>. QED
    BY <1>1, <1>3, <1>4, <2>2, <2>4, GotoKeepsInv DEF repository
<1>5. CASE /\ Goto(r, "receipt")
           /\ branches' = IF branches[r] = None
                          THEN [branches EXCEPT ![r] = Base(r)] ELSE branches
  <2>1. branches \in [RunIds -> Tree \cup {None}]
    BY <1>2 DEF ProposalTypeOK
  <2>2. /\ branches' \in [RunIds -> Tree \cup {None}]
        /\ branches'[r] = IF branches[r] = None THEN Base(r) ELSE branches[r]
        /\ \A q \in RunIds : q # r => branches'[q] = branches[q]
    BY <1>2, <1>5, <2>1
  <2>3. JobStep(r, "receipt") /\ "receipt" \in Later
    BY <1>1, <1>5, <2>2, LaterPhases DEF JobStep
  <2>4. /\ Base(r)' = Base(r) /\ runs'[r].phase = "receipt" /\ Past(runs', r)
        /\ \A s : Desired(r, s)' = Desired(r, s)
        /\ runs'[r].kind = "proposal" /\ Keeps
    BY <1>1, <2>3, JobStepFacts
  <2>5. PhaseInv(r)'
    BY <2>4 DEF PhaseInv
  <2>6. BranchInv(r)'
    <3>1. CASE branches[r] = None
      <4>1. pulls[r] # "open" /\ Base(r).receipt # r
        BY <1>2, <3>1 DEF BranchInv
      <4>. QED
        BY <1>1, <1>2, <2>2, <2>4, <3>1, <4>1 DEF BranchInv
    <3>2. CASE branches[r] # None
      <4>1. branches'[r] = branches[r] /\ PullStays(r)
        BY <1>1, <2>2, <3>2 DEF PullStays
      <4>. QED
        BY <1>2, <2>4, <4>1, BranchStays
    <3>. QED
      BY <3>1, <3>2
  <2>7. pulls' \in [RunIds -> {"none", "open", "merged", "closed"}]
    BY <1>1, <1>2 DEF ProposalTypeOK
  <2>. QED
    BY <1>1, <1>3, <2>2, <2>3, <2>5, <2>6, <2>7, JobStepKeepsInv
<1>. QED
  BY <1>4, <1>5 DEF EnsureBranch

LEMMA PutReceiptKeepsInv ==
    ASSUME IInv, NEW r \in DOMAIN runs, PutReceipt(r)
    PROVE  IInv'
<1>1. /\ runs[r].phase = "receipt" /\ branches[r] # None
      /\ UNCHANGED <<commits, pulls, early, clock, crashes>>
  BY DEF PutReceipt
<1>2. /\ ProposalTypeOK /\ CommitsInv /\ BranchInv(r) /\ r \in RunIds
      /\ Base(r) \in Tree /\ Base(r).receipt \in Nat /\ Base(r).receipt < r
      /\ Past(runs, r) /\ r \in Nat /\ r # 0
  BY <1>1, JobFacts
<1>3. crashes' \in 0..MaxCrashes /\ branches \in [RunIds -> Tree \cup {None}]
      /\ pulls' \in [RunIds -> {"none", "open", "merged", "closed"}]
  BY <1>1, <1>2 DEF ProposalTypeOK
<1>4. /\ branches[r].receipt \in {Base(r).receipt, r}
      /\ branches[r].receipt = r => Base(r).receipt = 0
  BY <1>1, <1>2 DEF BranchInv
<1>5. CASE /\ branches[r].receipt = 0 /\ Goto(r, "pull")
           /\ branches' = [branches EXCEPT ![r].receipt = r]
  <2>1. branches[r] \in Tree
    BY <1>1, <1>2, <1>3
  <2>2. /\ branches' \in [RunIds -> Tree \cup {None}]
        /\ branches'[r].receipt = r /\ branches'[r].state = branches[r].state
        /\ \A q \in RunIds : q # r => branches'[q] = branches[q]
    <3>1. r \in 0..MaxRuns
      BY <1>2 DEF RunIds
    <3>. QED
      BY <1>2, <1>3, <1>5, <2>1, <3>1 DEF Tree
  <2>3. JobStep(r, "pull") /\ "pull" \in Later
    BY <1>1, <1>5, <2>2, LaterPhases DEF JobStep
  <2>4. /\ Base(r)' = Base(r) /\ runs'[r].phase = "pull" /\ Past(runs', r)
        /\ \A s : Desired(r, s)' = Desired(r, s)
        /\ runs'[r].kind = "proposal"
    BY <1>1, <2>3, JobStepFacts
  <2>5. Base(r).receipt = 0
    BY <1>2, <1>4, <1>5
  <2>6. PhaseInv(r)'
    BY <2>2, <2>4, <2>5 DEF PhaseInv, Receipted
  <2>7. BranchInv(r)'
    <3>1. pulls[r] # "open"
      BY <1>2, <1>5 DEF BranchInv
    <3>. QED
      BY <1>1, <1>2, <2>2, <2>4, <2>5, <3>1 DEF BranchInv
  <2>. QED
    BY <1>1, <1>3, <2>2, <2>3, <2>6, <2>7, JobStepKeepsInv
<1>6. CASE branches[r].receipt = r /\ UNCHANGED branches /\ Goto(r, "pull")
  <2>1. JobStep(r, "pull") /\ "pull" \in Later
    BY <1>1, <1>6, LaterPhases DEF JobStep
  <2>2. Base(r)' = Base(r) /\ runs'[r].phase = "pull"
    BY <1>1, <2>1, JobStepFacts
  <2>3. PhaseInv(r)'
    BY <1>4, <1>6, <2>2 DEF PhaseInv, Receipted
  <2>. QED
    BY <1>1, <1>3, <1>6, <2>1, <2>3, GotoKeepsInv DEF repository
<1>7. CASE branches[r].receipt \notin {0, r} /\ UNCHANGED branches /\ Goto(r, "refused")
  <2>1. JobStep(r, "refused") /\ "refused" \in Later
    BY <1>1, <1>7, LaterPhases DEF JobStep
  <2>2. Base(r)' = Base(r) /\ runs'[r].phase = "refused"
    BY <1>1, <2>1, JobStepFacts
  <2>3. PhaseInv(r)'
    BY <1>4, <1>7, <2>2 DEF PhaseInv
  <2>. QED
    BY <1>1, <1>3, <1>7, <2>1, <2>3, GotoKeepsInv DEF repository
<1>. QED
  BY <1>5, <1>6, <1>7 DEF PutReceipt

LEMMA OpenPullRequestKeepsInv ==
    ASSUME IInv, NEW r \in DOMAIN runs, OpenPullRequest(r)
    PROVE  IInv'
<1>1. /\ runs[r].phase = "pull" /\ branches[r] # None
      /\ pulls' = [pulls EXCEPT ![r] = "open"] /\ Goto(r, "check")
      /\ UNCHANGED <<commits, branches, early, clock, crashes>>
  BY DEF OpenPullRequest
<1>2. /\ ProposalTypeOK /\ BranchInv(r) /\ PhaseInv(r) /\ r \in RunIds
  BY <1>1, JobFacts
<1>3. /\ crashes' \in 0..MaxCrashes /\ branches' \in [RunIds -> Tree \cup {None}]
      /\ pulls' \in [RunIds -> {"none", "open", "merged", "closed"}]
      /\ pulls'[r] = "open" /\ \A q \in RunIds : q # r => pulls'[q] = pulls[q]
  BY <1>1, <1>2 DEF ProposalTypeOK
<1>4. JobStep(r, "check") /\ "check" \in Later
  BY <1>1, <1>3, LaterPhases DEF JobStep
<1>5. /\ Base(r)' = Base(r) /\ runs'[r].phase = "check" /\ Past(runs', r)
      /\ \A s : Desired(r, s)' = Desired(r, s)
      /\ runs'[r].kind = "proposal"
  BY <1>1, <1>4, JobStepFacts
<1>6. Base(r).receipt = 0 /\ branches[r].receipt = r
  BY <1>1, <1>2 DEF PhaseInv, Receipted
<1>7. PhaseInv(r)'
  BY <1>1, <1>5, <1>6 DEF PhaseInv, Receipted
<1>8. BranchInv(r)'
  BY <1>1, <1>2, <1>5, <1>6 DEF BranchInv
<1>. QED
  BY <1>1, <1>3, <1>4, <1>7, <1>8, JobStepKeepsInv

LEMMA BranchGoneKeepsInv ==
    ASSUME IInv, NEW r \in DOMAIN runs, ProposalBranchIsGone(r)
    PROVE  IInv'
<1>1. /\ runs[r].phase \in {"receipt", "pull"} /\ Goto(r, "lost-proposal")
      /\ UNCHANGED <<repository, clock, crashes>>
  BY DEF ProposalBranchIsGone
<1>2. crashes' \in 0..MaxCrashes
  BY <1>1 DEF IInv, ProposalTypeOK
<1>3. JobStep(r, "lost-proposal") /\ "lost-proposal" \in Later
  BY <1>1, LaterPhases DEF JobStep, repository
<1>4. runs'[r].phase = "lost-proposal"
  BY <1>1, <1>3, JobStepFacts
<1>5. PhaseInv(r)'
  BY <1>4 DEF PhaseInv
<1>. QED
  BY <1>1, <1>2, <1>3, <1>5, GotoKeepsInv

LEMMA CheckPromotionKeepsInv ==
    ASSUME IInv, NEW r \in DOMAIN runs, CheckPromotion(r)
    PROVE  IInv'
<1>1. runs[r].phase = "check" /\ UNCHANGED <<repository, clock, crashes>>
  BY DEF CheckPromotion
<1>2. /\ PhaseInv(r) /\ \A s \in Sources : EvaluatedInv(r, s) /\ runs[r].states[s] # None
  BY <1>1, JobFacts
<1>3. crashes' \in 0..MaxCrashes /\ UNCHANGED <<commits, branches, pulls, early, clock>>
  BY <1>1 DEF IInv, ProposalTypeOK, repository
<1>4. \A p \in Later : Goto(r, p) => JobStep(r, p)
  BY <1>3 DEF JobStep
<1>5. CASE AcceptedAlready(r) /\ Goto(r, "done")
  <2>1. JobStep(r, "done") /\ "done" \in Later
    BY <1>4, <1>5, LaterPhases
  <2>2. Base(r)' = Base(r) /\ runs'[r].phase = "done"
    BY <1>1, <2>1, JobStepFacts
  <2>3. Base(r).receipt # 0
    BY <1>5 DEF AcceptedAlready
  <2>4. PhaseInv(r)'
    BY <2>2, <2>3 DEF PhaseInv
  <2>. QED
    BY <1>1, <1>3, <1>5, <2>1, <2>4, GotoKeepsInv
<1>6. CASE ~AcceptedAlready(r) /\ Goto(r, "off")
  <2>1. JobStep(r, "off") /\ "off" \in Later
    BY <1>4, <1>6, LaterPhases
  <2>2. Base(r)' = Base(r) /\ runs'[r].phase = "off"
    BY <1>1, <2>1, JobStepFacts
  <2>3. Receipted(r)
    BY <1>1, <1>2, <1>6 DEF PhaseInv
  <2>4. PhaseInv(r)'
    BY <1>3, <2>2, <2>3 DEF PhaseInv, Receipted
  <2>. QED
    BY <1>1, <1>3, <1>6, <2>1, <2>4, GotoKeepsInv
<1>7. CASE /\ ~AcceptedAlready(r) /\ Goto(r, "unpromoted")
           /\ ~ /\ \A s \in Sources :
                     runs[r].states[s].accepted = Base(r).state[s].accepted
                /\ branches[r] # None
                /\ branches[r].receipt = r
  <2>1. JobStep(r, "unpromoted") /\ "unpromoted" \in Later
    BY <1>4, <1>7, LaterPhases
  <2>2. Base(r)' = Base(r) /\ runs'[r].phase = "unpromoted"
    BY <1>1, <2>1, JobStepFacts
  <2>3. \A s \in Sources : runs[r].states[s].accepted = Base(r).state[s].accepted
    BY <1>2 DEF EvaluatedInv
  <2>4. branches[r] = None
    BY <1>1, <1>2, <1>7, <2>3 DEF PhaseInv, Receipted
  <2>5. PhaseInv(r)'
    BY <1>3, <2>2, <2>4 DEF PhaseInv
  <2>. QED
    BY <1>1, <1>3, <1>7, <2>1, <2>5, GotoKeepsInv
<1>. QED
  BY <1>5, <1>6, <1>7 DEF CheckPromotion

LEMMA PutStateKeepsInv ==
    ASSUME IInv, NEW r \in DOMAIN runs, NEW s \in Sources, PutState(r, s)
    PROVE  IInv'
<1>1. runs[r].phase = s /\ UNCHANGED <<commits, pulls, early, clock, crashes>>
  BY DEF PutState
<1>2. s \in {"off", "op"} /\ runs[r].phase \notin {"sources", "failed", "done"}
  BY <1>1, SourcesOfKinds
<1>3. /\ ProposalTypeOK /\ BranchInv(r) /\ PhaseInv(r) /\ r \in RunIds
      /\ Desired(r, s) \in State
  BY <1>2, JobFacts
<1>4. crashes' \in 0..MaxCrashes /\ branches \in [RunIds -> Tree \cup {None}]
      /\ pulls' \in [RunIds -> {"none", "open", "merged", "closed"}]
  BY <1>1, <1>3 DEF ProposalTypeOK
<1>5. Receipted(r)
  BY <1>1, <1>2, <1>3 DEF PhaseInv
<1>6. CASE /\ branches[r] # None
           /\ branches' = [branches EXCEPT ![r].state[s] = Desired(r, s)]
           /\ Goto(r, AfterSource(s))
  <2>1. branches[r] \in Tree /\ branches[r].state \in [Sources -> State]
    BY <1>3, <1>4, <1>6 DEF Tree
  <2>2. /\ branches' \in [RunIds -> Tree \cup {None}] /\ branches'[r] \in Tree
        /\ branches'[r].receipt = branches[r].receipt
        /\ branches'[r].state = [branches[r].state EXCEPT ![s] = Desired(r, s)]
        /\ \A q \in RunIds : q # r => branches'[q] = branches[q]
    BY <1>3, <1>4, <1>6, <2>1 DEF Tree
  <2>3. /\ branches'[r].state[s] = Desired(r, s)
        /\ \A t \in Sources : t # s => branches'[r].state[t] = branches[r].state[t]
    BY <2>1, <2>2
  <2>4. branches'[r] # None
    <3>1. None \notin [receipt : Nat, state : [Sources -> State]]
      BY ProposalAssumption DEF Sources
    <3>2. branches'[r] \in [receipt : Nat, state : [Sources -> State]]
      BY <2>2, ProposalAssumption DEF Tree
    <3>. QED
      BY <3>1, <3>2
  <2>5. AfterSource(s) \in {"op", "compare"} /\ (s = "off" => AfterSource(s) = "op")
        /\ (s = "op" => AfterSource(s) = "compare")
    BY <1>2 DEF AfterSource
  <2>6. JobStep(r, AfterSource(s)) /\ AfterSource(s) \in Later
    BY <1>1, <1>6, <2>2, <2>5, LaterPhases DEF JobStep
  <2>7. /\ Base(r)' = Base(r) /\ runs'[r].phase = AfterSource(s) /\ Past(runs', r)
        /\ \A t : Desired(r, t)' = Desired(r, t)
        /\ runs'[r].kind = "proposal"
    BY <1>2, <2>6, JobStepFacts
  <2>8. Receipted(r)' /\ Written(r, s)'
    BY <1>5, <1>6, <2>2, <2>3, <2>7 DEF Receipted, Written
  <2>9. s = "op" => Written(r, "off")'
    BY <1>1, <1>3, <1>6, <2>3, <2>7, SourcesOfKinds DEF PhaseInv, Written
  <2>10. PhaseInv(r)'
    BY <1>2, <2>5, <2>7, <2>8, <2>9 DEF PhaseInv
  <2>11. BranchInv(r)'
    BY <1>1, <1>3, <1>6, <2>2, <2>3, <2>4, <2>7 DEF BranchInv
  <2>. QED
    BY <1>2, <1>4, <2>2, <2>6, <2>10, <2>11, JobStepKeepsInv
<1>7. CASE /\ ~ /\ branches[r] # None
                /\ branches[r].state[s] \in {Desired(r, s), Base(r).state[s]}
           /\ Goto(r, "unpromoted") /\ UNCHANGED branches
  <2>1. JobStep(r, "unpromoted") /\ "unpromoted" \in Later
    BY <1>1, <1>7, LaterPhases DEF JobStep
  <2>2. runs'[r].phase = "unpromoted"
    BY <1>2, <2>1, JobStepFacts
  <2>3. branches[r] = None
    BY <1>3, <1>7 DEF BranchInv
  <2>4. PhaseInv(r)'
    BY <1>7, <2>2, <2>3 DEF PhaseInv
  <2>. QED
    BY <1>1, <1>2, <1>4, <1>7, <2>1, <2>4, GotoKeepsInv DEF repository
<1>. QED
  BY <1>6, <1>7 DEF PutState

\* The file a run writes for a source differs from that of its base exactly
\* when the run has a candidate.
LEMMA WrittenIsNew ==
    ASSUME IInv, NEW r \in DOMAIN runs, NEW s \in Sources,
           runs[r].phase \notin {"sources", "failed", "done"}
    PROVE  Desired(r, s) # Base(r).state[s] <=> runs[r].states[s].candidate # None
<1>1. EvaluatedInv(r, s) /\ runs[r].states[s] \in State /\ runs[r].states[s] # None
  BY JobFacts
<1>2. CASE runs[r].states[s].candidate = None
  BY <1>2 DEF Desired, Promoted
<1>3. CASE runs[r].states[s].candidate # None
  <2>1. /\ runs[r].states[s].candidate = runs[r].got[s]
        /\ ~Same(Base(r).state[s].accepted, runs[r].got[s])
    BY <1>1, <1>3 DEF EvaluatedInv
  <2>2. Base(r).state[s].accepted # runs[r].states[s].candidate
    BY <1>3, <2>1 DEF Same
  <2>3. Desired(r, s).accepted = runs[r].states[s].candidate
    BY <1>1, <1>3 DEF Desired, Promoted, PromoteState, State
  <2>. QED
    BY <1>3, <2>2, <2>3
<1>. QED
  BY <1>2, <1>3

LEMMA ComparePathsKeepsInv ==
    ASSUME IInv, NEW r \in DOMAIN runs, ComparePaths(r)
    PROVE  IInv'
<1>1. runs[r].phase = "compare" /\ UNCHANGED <<repository, clock, crashes>>
  BY DEF ComparePaths
<1>2. /\ PhaseInv(r) /\ r # 0
  BY <1>1, JobFacts
<1>3. crashes' \in 0..MaxCrashes /\ UNCHANGED <<commits, branches, pulls, early, clock>>
  BY <1>1 DEF IInv, ProposalTypeOK, repository
<1>4. Receipted(r) /\ \A s \in Sources : Written(r, s)
  BY <1>1, <1>2, SourcesOfKinds DEF PhaseInv
<1>5. CASE Goto(r, "done")
  <2>1. JobStep(r, "done") /\ "done" \in Later
    BY <1>3, <1>5, LaterPhases DEF JobStep
  <2>2. /\ Base(r)' = Base(r) /\ runs'[r].phase = "done"
        /\ \A s : Desired(r, s)' = Desired(r, s)
    BY <1>1, <2>1, JobStepFacts
  <2>3. PhaseInv(r)'
    BY <1>3, <1>4, <2>2 DEF PhaseInv, Written
  <2>. QED
    BY <1>1, <1>3, <1>5, <2>1, <2>3, GotoKeepsInv
<1>6. CASE /\ Goto(r, "unpromoted")
           /\ ~ /\ branches[r] # None
                /\ branches[r].receipt # Base(r).receipt
                /\ \A s \in Sources :
                       (branches[r].state[s] # Base(r).state[s])
                           = (runs[r].states[s].candidate # None)
  <2>1. JobStep(r, "unpromoted") /\ "unpromoted" \in Later
    BY <1>3, <1>6, LaterPhases DEF JobStep
  <2>2. runs'[r].phase = "unpromoted"
    BY <1>1, <2>1, JobStepFacts
  <2>3. ASSUME branches[r] # None
        PROVE  FALSE
    <3>1. branches[r].receipt # Base(r).receipt
      BY <1>2, <1>4, <2>3 DEF Receipted
    <3>2. \A s \in Sources : branches[r].state[s] # Base(r).state[s]
                                <=> runs[r].states[s].candidate # None
      BY <1>1, <1>4, <2>3, WrittenIsNew DEF Written
    <3>. QED
      BY <1>6, <2>3, <3>1, <3>2
  <2>4. PhaseInv(r)'
    BY <1>3, <2>2, <2>3 DEF PhaseInv
  <2>. QED
    BY <1>1, <1>3, <1>6, <2>1, <2>4, GotoKeepsInv
<1>. QED
  BY <1>5, <1>6 DEF ComparePaths

LEMMA JobDiesKeepsInv ==
    ASSUME IInv, NEW r \in DOMAIN runs, JobDies(r)
    PROVE  IInv'
<1>1. /\ crashes < MaxCrashes /\ crashes' = crashes + 1
      /\ UNCHANGED <<repository, clock>>
  BY DEF JobDies
<1>2. crashes' \in 0..MaxCrashes /\ UNCHANGED <<commits, branches, pulls, early, clock>>
  BY <1>1, ProposalAssumption DEF IInv, ProposalTypeOK, repository
<1>3. CASE runs[r].phase \in ProposalPhases /\ Goto(r, "lost-proposal")
  <2>1. runs[r].phase \notin {"sources", "failed", "done"}
    BY <1>3 DEF ProposalPhases
  <2>2. JobStep(r, "lost-proposal") /\ "lost-proposal" \in Later
    BY <1>2, <1>3, LaterPhases DEF JobStep
  <2>3. runs'[r].phase = "lost-proposal"
    BY <2>1, <2>2, JobStepFacts
  <2>4. PhaseInv(r)'
    BY <2>3 DEF PhaseInv
  <2>. QED
    BY <1>1, <1>2, <1>3, <2>1, <2>2, <2>4, GotoKeepsInv
<1>4. CASE runs[r].phase \in PromotionPhases /\ Goto(r, "lost-promotion")
  <2>1. runs[r].phase \in {"check", "off", "op", "compare"}
    BY <1>4 DEF PromotionPhases
  <2>2. JobStep(r, "lost-promotion") /\ "lost-promotion" \in Later
    BY <1>2, <1>4, LaterPhases DEF JobStep
  <2>3. /\ runs'[r].phase = "lost-promotion" /\ Base(r)' = Base(r)
        /\ AcceptedAlready(r)' = AcceptedAlready(r)
    BY <2>1, <2>2, JobStepFacts
  <2>4. AcceptedAlready(r) \/ Receipted(r)
    BY <2>1, JobFacts DEF PhaseInv
  <2>5. PhaseInv(r)'
    BY <1>2, <2>3, <2>4 DEF PhaseInv, Receipted
  <2>. QED
    BY <1>1, <1>2, <1>4, <2>1, <2>2, <2>5, GotoKeepsInv
<1>. QED
  BY <1>3, <1>4 DEF JobDies

LEMMA RerunJobKeepsInv ==
    ASSUME IInv, NEW r \in DOMAIN runs, RerunJob(r)
    PROVE  IInv'
<1>1. UNCHANGED <<repository, clock, crashes>>
  BY DEF RerunJob
<1>2. crashes' \in 0..MaxCrashes /\ UNCHANGED <<commits, branches, pulls, early, clock>>
  BY <1>1 DEF IInv, ProposalTypeOK, repository
<1>3. CASE runs[r].phase = "lost-proposal" /\ Goto(r, "branch")
  <2>1. JobStep(r, "branch") /\ "branch" \in Later
    BY <1>2, <1>3, LaterPhases DEF JobStep
  <2>2. runs'[r].phase = "branch"
    BY <1>3, <2>1, JobStepFacts
  <2>3. PhaseInv(r)'
    BY <2>2 DEF PhaseInv
  <2>. QED
    BY <1>1, <1>2, <1>3, <2>1, <2>3, GotoKeepsInv
<1>4. CASE runs[r].phase = "lost-promotion" /\ Goto(r, "check")
  <2>1. JobStep(r, "check") /\ "check" \in Later
    BY <1>2, <1>4, LaterPhases DEF JobStep
  <2>2. /\ runs'[r].phase = "check" /\ Base(r)' = Base(r)
        /\ AcceptedAlready(r)' = AcceptedAlready(r)
    BY <1>4, <2>1, JobStepFacts
  <2>3. AcceptedAlready(r) \/ Receipted(r)
    BY <1>4, JobFacts DEF PhaseInv
  <2>4. PhaseInv(r)'
    BY <1>2, <2>2, <2>3 DEF PhaseInv, Receipted
  <2>. QED
    BY <1>1, <1>2, <1>4, <2>1, <2>4, GotoKeepsInv
<1>. QED
  BY <1>3, <1>4 DEF RerunJob

-----------------------------------------------------------------------------
(* Steps of a run whose sources are not yet evaluated.                      *)

\* The run r, which is new or still at its sources, becomes what runs' says.
SourceStep(r) ==
    /\ runs' \in Seq(RunRecord) /\ Len(runs') <= MaxRuns
    /\ DOMAIN runs' = DOMAIN runs \cup {r}
    /\ \A q \in DOMAIN runs : q # r => runs'[q] = runs[q]
    /\ r \in DOMAIN runs => runs'[r].base = runs[r].base /\ runs'[r].kind = runs[r].kind
    /\ runs'[r].phase \in {"sources", "failed", "branch", "done"}
    /\ UNCHANGED <<repository, crashes>>
    /\ clock' \in Nat /\ clock <= clock'

LEMMA SourceStepKeeps ==
    ASSUME IInv, NEW r \in RunIds, ~Past(runs, r), SourceStep(r)
    PROVE  /\ Keeps /\ CommitsInv /\ ProposalTypeOK
           /\ UNCHANGED <<commits, branches, pulls, early, crashes>>
           /\ \A q \in DOMAIN runs : Base(q)' = Base(q)
<1>1. UNCHANGED <<commits, branches, pulls, early, crashes>>
  BY DEF SourceStep, repository
<1>2. \A q \in DOMAIN runs : Past(runs, q) => q # r /\ runs'[q] = runs[q]
  BY DEF SourceStep
<1>3. Keeps
  BY <1>1, <1>2 DEF Keeps, SourceStep, Past
<1>. QED
  BY <1>1, <1>3, BasesStay DEF IInv

LEMMA SourceStepKeepsInv ==
    ASSUME IInv, NEW r \in RunIds, ~Past(runs, r), SourceStep(r),
           runs'[r].base \in DOMAIN commits, commits[runs'[r].base].receipt < r,
           RunInv(r)',
           \A s \in Sources : runs'[r].states[s] # None =>
               OwnOrKept(runs', r, runs'[r].states[s], s)
    PROVE  IInv'
<1>1. /\ Keeps /\ CommitsInv /\ ProposalTypeOK
      /\ UNCHANGED <<commits, branches, pulls, early, crashes>>
      /\ \A q \in DOMAIN runs : Base(q)' = Base(q)
  BY SourceStepKeeps
<1>2. /\ DOMAIN runs' = DOMAIN runs \cup {r}
      /\ \A q \in DOMAIN runs : q # r => runs'[q] = runs[q]
      /\ clock' \in Nat /\ clock <= clock' /\ clock \in Nat
  BY <1>1 DEF SourceStep, ProposalTypeOK
<1>3. ProposalTypeOK'
  BY <1>1 DEF ProposalTypeOK, SourceStep
<1>4. \A n \in DOMAIN commits : n # 1 =>
          /\ commits[n].receipt \in DOMAIN runs /\ commits[n].receipt # r
          /\ Past(runs', commits[n].receipt)
  BY <1>1 DEF CommitsInv, Past, Keeps
<1>5. CommitsInv'
  <2>1. \A q \in DOMAIN runs' : runs'[q].base \in DOMAIN commits /\ Base(q)'.receipt < q
    BY <1>1, <1>2 DEF CommitsInv, Base
  <2>. QED
    BY <1>1, <1>4, <2>1 DEF CommitsInv
<1>6. \A q \in DOMAIN runs' : RunInv(q)'
  <2>1. ASSUME NEW q \in DOMAIN runs, q # r
        PROVE  RunInv(q)'
    <3>1. runs'[q] = runs[q] /\ RunInv(q) /\ Base(q)' = Base(q) /\ runs[q] \in RunRecord
      BY <1>1, <1>2, <2>1, RunsAndCommits DEF IInv
    <3>2. ASSUME NEW s \in Sources
          PROVE  EvaluatedInv(q, s)'
      <4>1. EvaluatedInv(q, s)
        BY <3>1 DEF RunInv
      <4>2. runs[q].got[s] # None => runs[q].got[s].at \in Nat
        BY <3>1 DEF RunRecord, Attempt
      <4>. QED
        BY <1>2, <3>1, <4>1, <4>2 DEF EvaluatedInv
    <3>3. q \in DOMAIN runs' /\ Past(runs', q) = Past(runs, q)
      BY <1>2, <3>1 DEF Past
    <3>. QED
      BY <3>1, <3>2, <3>3 DEF RunInv
  <2>. QED
    BY <1>2, <2>1
<1>7. \A s \in Sources :
          /\ \A n \in DOMAIN commits : Kept(runs', commits[n].state[s], s)
          /\ \A q \in DOMAIN runs' :
                runs'[q].states[s] # None => OwnOrKept(runs', q, runs'[q].states[s], s)
  <2>1. \A s \in Sources, n \in DOMAIN commits : Kept(runs', commits[n].state[s], s)
    BY <1>1, KeptStays DEF IInv
  <2>2. ASSUME NEW s \in Sources, NEW q \in DOMAIN runs, q # r, runs'[q].states[s] # None
        PROVE  OwnOrKept(runs', q, runs'[q].states[s], s)
    BY <1>1, <1>2, <2>2, OwnOrKeptStays DEF IInv
  <2>. QED
    BY <1>2, <2>1, <2>2
<1>8. \A q \in RunIds : BranchInv(q)'
  <2>1. ASSUME NEW q \in RunIds
        PROVE  BranchInv(q)'
    <3>1. BranchInv(q) /\ branches'[q] = branches[q] /\ PullStays(q)
      BY <1>1 DEF IInv, PullStays
    <3>. QED
      BY <1>1, <3>1, BranchStays
  <2>. QED
    BY <2>1
<1>9. \A q \in DOMAIN runs' : PhaseInv(q)'
  <2>1. ASSUME NEW q \in DOMAIN runs, q # r
        PROVE  PhaseInv(q)'
    <3>1. PhaseInv(q) /\ branches'[q] = branches[q] /\ runs'[q].phase = runs[q].phase
      BY <1>1, <1>2, <2>1 DEF IInv
    <3>. QED
      BY <1>1, <3>1, PhaseStays
  <2>2. PhaseInv(r)'
    <3>1. branches'[r] = None
      BY <1>1 DEF IInv, BranchInv
    <3>2. runs'[r].phase \in {"sources", "failed", "branch", "done"}
      BY DEF SourceStep
    <3>. QED
      BY <3>1, <3>2 DEF PhaseInv, Written
  <2>. QED
    BY <1>2, <2>1, <2>2
<1>10. MergedInv'
  <2>1. ASSUME NEW n \in DOMAIN commits, commits[n].receipt # 0, commits[n].receipt \notin early
        PROVE  pulls[commits[n].receipt] = "merged" /\ runs'[commits[n].receipt].phase = "done"
    <3>1. pulls[commits[n].receipt] = "merged" /\ runs[commits[n].receipt].phase = "done"
      BY <2>1 DEF IInv, MergedInv
    <3>2. commits[n].receipt \in DOMAIN runs /\ commits[n].receipt # r
      BY <1>1, <1>4, <2>1 DEF CommitsInv
    <3>. QED
      BY <1>2, <3>1, <3>2
  <2>. QED
    BY <1>1, <2>1 DEF MergedInv
<1>11. ReceiptBringsItsLineage'
  <2>1. Main' = Main /\ early' = early
    BY <1>1 DEF Main
  <2>2. Main.receipt # 0 => Main.receipt \in DOMAIN runs /\ Main.receipt # r
    <3>1. Len(commits) \in DOMAIN commits
      BY <1>1, RunsAndCommits DEF CommitsInv
    <3>. QED
      BY <1>1, <1>4, <3>1 DEF CommitsInv, Main
  <2>3. Main.receipt # 0 => runs'[Main.receipt] = runs[Main.receipt]
    BY <1>2, <2>2
  <2>. QED
    BY <2>1, <2>3 DEF IInv, ReceiptBringsItsLineage
<1>. QED
  BY <1>1, <1>3, <1>5, <1>6, <1>7, <1>8, <1>9, <1>10, <1>11 DEF IInv

\* A run at its sources, with the base it started from.
LEMMA SourceFacts ==
    ASSUME IInv, NEW r \in DOMAIN runs, runs[r].phase = "sources"
    PROVE  /\ ProposalTypeOK /\ RunInv(r) /\ runs[r] \in RunRecord
           /\ r \in RunIds /\ r \in Nat /\ r # 0 /\ ~Past(runs, r)
           /\ runs[r].base \in DOMAIN commits /\ Base(r).receipt < r
           /\ \A s \in Sources :
                 /\ Base(r).state[s] \in State /\ Base(r).state[s].candidate = None
                 /\ Kept(runs, Base(r).state[s], s)
                 /\ Base(r).state[s].successAt <= clock
<1>1. ProposalTypeOK /\ CommitsInv /\ RunInv(r)
  BY DEF IInv
<1>2. /\ r \in RunIds /\ r # 0 /\ r \in Nat /\ runs[r] \in RunRecord
      /\ ~Past(runs, r) /\ clock \in Nat
  BY <1>1, RunsAndCommits DEF Past
<1>3. runs[r].base \in DOMAIN commits /\ Base(r).receipt < r
  BY <1>1 DEF CommitsInv
<1>4. Base(r) \in Tree
  BY <1>1, <1>3, RunsAndCommits DEF Base
<1>5. ASSUME NEW s \in Sources
      PROVE  /\ Base(r).state[s] \in State /\ Base(r).state[s].candidate = None
             /\ Kept(runs, Base(r).state[s], s)
             /\ Base(r).state[s].successAt <= clock
  <2>. DEFINE state == Base(r).state[s]
  <2>1. state \in State /\ state.candidate = None
    BY <1>1, <1>3, <1>4 DEF Tree, ProposalTypeOK, Base
  <2>2. Kept(runs, state, s)
    BY <1>3 DEF IInv, Base
  <2>3. CASE state.successRun = 0
    BY <1>2, <2>1, <2>2, <2>3 DEF Kept, ShownBy
  <2>4. CASE state.successRun # 0
    <3>1. state.successRun \in DOMAIN runs
      BY <2>2, <2>4 DEF Kept, Past
    <3>2. EvaluatedInv(state.successRun, s)
      BY <3>1 DEF IInv, RunInv
    <3>. QED
      BY <2>1, <2>2, <2>4, <3>2 DEF Kept, ShownBy, EvaluatedInv
  <2>. QED
    BY <2>1, <2>2, <2>3, <2>4
<1>. QED
  BY <1>1, <1>2, <1>3, <1>5

LEMMA StartRunKeepsInv ==
    ASSUME IInv, NEW kind \in Kinds, StartRun(kind)
    PROVE  IInv'
<1>. DEFINE x == [kind |-> kind, phase |-> "sources", base |-> Len(commits),
                  got |-> [s \in Sources |-> None],
                  states |-> [s \in Sources |-> None]]
<1>0. PICK r : r = Len(runs) + 1
  OBVIOUS
<1>1. /\ ProposalTypeOK /\ CommitsInv
      /\ DOMAIN runs = 1..Len(runs) /\ Len(runs) \in Nat /\ MaxRuns \in Nat
      /\ DOMAIN commits = 1..Len(commits) /\ Len(commits) \in Nat
      /\ clock \in Nat
  BY RunsAndCommits DEF IInv
<1>2. Len(commits) \in DOMAIN commits
  BY <1>1 DEF CommitsInv
<1>3. x \in RunRecord
  BY <1>1 DEF RunRecord, Active
<1>4. /\ Len(runs) < MaxRuns /\ runs' = Append(runs, x)
      /\ UNCHANGED <<repository, clock, crashes>>
  BY DEF StartRun
<1>5. x.phase = "sources" /\ x.base = Len(commits)
      /\ \A s \in Sources : x.got[s] = None /\ x.states[s] = None
  OBVIOUS
<1>. HIDE DEF x
<1>6. /\ runs' \in Seq(RunRecord) /\ Len(runs') = Len(runs) + 1
      /\ DOMAIN runs' = DOMAIN runs \cup {r} /\ r \notin DOMAIN runs
      /\ runs'[r] = x
      /\ \A q \in DOMAIN runs : runs'[q] = runs[q]
  BY <1>0, <1>1, <1>3, <1>4, AppendedSequence DEF ProposalTypeOK
<1>7. r \in RunIds /\ r \in Nat /\ ~Past(runs, r)
  BY <1>0, <1>1, <1>4, <1>6 DEF RunIds, Past
<1>8. SourceStep(r)
  BY <1>1, <1>4, <1>5, <1>6 DEF SourceStep
<1>9. commits[Len(commits)].receipt < r
  <2>1. CASE Len(commits) = 1
    <3>1. commits[Len(commits)].receipt = 0
      BY <1>1, <1>2, <2>1 DEF CommitsInv
    <3>. QED
      BY <1>0, <1>1, <3>1
  <2>2. CASE Len(commits) # 1
    <3>1. commits[Len(commits)].receipt \in DOMAIN runs
      BY <1>1, <1>2, <2>2 DEF CommitsInv, Past
    <3>. QED
      BY <1>0, <1>1, <3>1
  <2>. QED
    BY <2>1, <2>2
<1>10. RunInv(r)'
  <2>1. ~Past(runs, r)' /\ runs'[r].phase = "sources"
    BY <1>5, <1>6 DEF Past
  <2>2. \A s \in Sources : EvaluatedInv(r, s)'
    BY <1>5, <1>6 DEF EvaluatedInv
  <2>. QED
    BY <2>1, <2>2 DEF RunInv
<1>. QED
  BY <1>2, <1>5, <1>6, <1>7, <1>8, <1>9, <1>10, SourceStepKeepsInv

LEMMA SourceFailsKeepsInv ==
    ASSUME IInv, NEW r \in DOMAIN runs, SourceFails(r)
    PROVE  IInv'
<1>. DEFINE x == [runs[r] EXCEPT !.phase = "failed",
                                 !.got = [s \in Sources |-> None],
                                 !.states = [s \in Sources |-> None]]
<1>1. /\ runs[r].phase = "sources" /\ runs' = [runs EXCEPT ![r] = x]
      /\ UNCHANGED <<repository, clock, crashes>>
  BY DEF SourceFails
<1>2. /\ ProposalTypeOK /\ runs[r] \in RunRecord /\ r \in RunIds /\ ~Past(runs, r)
      /\ runs[r].base \in DOMAIN commits /\ Base(r).receipt < r
  BY <1>1, SourceFacts
<1>3. /\ x \in RunRecord /\ x.phase = "failed"
      /\ x.base = runs[r].base /\ x.kind = runs[r].kind
      /\ \A s \in Sources : x.got[s] = None /\ x.states[s] = None
  BY <1>2 DEF RunRecord, Ended
<1>. HIDE DEF x
<1>4. Becomes(r, x)
  BY <1>1, <1>2, <1>3, OneRunBecomes
<1>5. SourceStep(r)
  BY <1>1, <1>2, <1>3, <1>4 DEF SourceStep, Becomes, ProposalTypeOK
<1>6. runs'[r] = x
  BY <1>4 DEF Becomes
<1>7. RunInv(r)'
  <2>1. ~Past(runs, r)'
    BY <1>3, <1>6 DEF Past
  <2>2. \A s \in Sources : EvaluatedInv(r, s)'
    BY <1>3, <1>6 DEF EvaluatedInv
  <2>. QED
    BY <1>3, <1>6, <2>1, <2>2 DEF RunInv
<1>. QED
  BY <1>2, <1>3, <1>5, <1>6, <1>7, SourceStepKeepsInv DEF Base

LEMMA AcquireKeepsInv ==
    ASSUME IInv, NEW r \in DOMAIN runs, NEW s \in Sources, Acquire(r, s)
    PROVE  IInv'
<1>1. /\ runs[r].phase = "sources" /\ runs[r].got[s] = None
      /\ clock' = clock + 1 /\ UNCHANGED <<repository, crashes>>
  BY DEF Acquire
<1>2. PICK content \in Published[s] :
          runs' = [runs EXCEPT ![r].got[s] =
                      [run |-> r, complete |-> runs[r].kind # "fixture",
                       content |-> content, at |-> clock + 1]]
  BY DEF Acquire
<1>. DEFINE new == [run |-> r, complete |-> runs[r].kind # "fixture",
                    content |-> content, at |-> clock + 1]
            x == [runs[r] EXCEPT !.got = [@ EXCEPT ![s] = new]]
<1>3. /\ ProposalTypeOK /\ runs[r] \in RunRecord /\ RunInv(r)
      /\ r \in RunIds /\ r \in Nat /\ r # 0 /\ ~Past(runs, r)
      /\ runs[r].base \in DOMAIN commits /\ Base(r).receipt < r
      /\ \A t \in Sources : Base(r).state[t] \in State /\ Base(r).state[t].successAt <= clock
  BY <1>1, SourceFacts
<1>4. clock \in Nat /\ clock' \in Nat /\ clock < clock'
  BY <1>1, <1>3 DEF ProposalTypeOK
<1>5. /\ new \in Attempt /\ new.run = r /\ new.at = clock'
      /\ new.complete = (runs[r].kind # "fixture")
  <2>1. content \in Contents
    BY ProposalAssumption DEF Sources
  <2>. QED
    BY <1>1, <1>3, <1>4, <2>1 DEF Attempt
<1>6. runs' = [runs EXCEPT ![r] = x]
  BY <1>2
<1>. HIDE DEF new
<1>7. /\ x \in RunRecord /\ x.phase = "sources"
      /\ x.base = runs[r].base /\ x.kind = runs[r].kind /\ x.states = runs[r].states
      /\ x.got[s] = new /\ \A t \in Sources : t # s => x.got[t] = runs[r].got[t]
  BY <1>1, <1>3, <1>5 DEF RunRecord
<1>. HIDE DEF x
<1>8. Becomes(r, x)
  BY <1>3, <1>6, <1>7, OneRunBecomes
<1>9. SourceStep(r) /\ runs'[r] = x
  BY <1>1, <1>3, <1>4, <1>7, <1>8 DEF SourceStep, Becomes, ProposalTypeOK
<1>10. Base(r)' = Base(r) /\ Keeps
  BY <1>3, <1>9, SourceStepKeeps
<1>11. runs[r].states[s] = None
  BY <1>1, <1>3 DEF RunInv, EvaluatedInv
<1>12. RunInv(r)'
  <2>1. ~Past(runs, r)'
    BY <1>7, <1>9 DEF Past
  <2>2. EvaluatedInv(r, s)'
    <3>1. Base(r).state[s].successAt < clock'
      BY <1>3, <1>4 DEF State
    <3>2. runs'[r].got[s] = new /\ runs'[r].states[s] = None /\ runs'[r].kind = runs[r].kind
      BY <1>7, <1>9, <1>11
    <3>. QED
      BY <1>4, <1>5, <1>10, <3>1, <3>2 DEF EvaluatedInv
  <2>3. ASSUME NEW t \in Sources, t # s
        PROVE  EvaluatedInv(r, t)'
    <3>1. /\ runs'[r].got[t] = runs[r].got[t] /\ runs'[r].states[t] = runs[r].states[t]
          /\ runs'[r].kind = runs[r].kind /\ EvaluatedInv(r, t)
      BY <1>3, <1>7, <1>9, <2>3 DEF RunInv
    <3>2. runs[r].got[t] # None => runs[r].got[t].at \in Nat
      BY <1>3 DEF RunRecord, Attempt
    <3>. QED
      BY <1>4, <1>10, <3>1, <3>2 DEF EvaluatedInv
  <2>. QED
    BY <1>7, <1>9, <2>1, <2>2, <2>3 DEF RunInv
<1>13. ASSUME NEW t \in Sources, runs'[r].states[t] # None
       PROVE  OwnOrKept(runs', r, runs'[r].states[t], t)
  <2>1. t # s /\ runs'[r].states[t] = runs[r].states[t] /\ runs'[r].got[t] = runs[r].got[t]
    BY <1>7, <1>9, <1>11, <1>13
  <2>2. OwnOrKept(runs, r, runs[r].states[t], t)
    BY <1>13, <2>1 DEF IInv
  <2>. QED
    BY <1>10, <2>1, <2>2, OwnOrKeptStays
<1>. QED
  BY <1>3, <1>7, <1>9, <1>12, <1>13, SourceStepKeepsInv DEF Base

\* The state an earlier run left has a clock that stays.
LEMMA LocatedIsKept ==
    ASSUME IInv, NEW s \in Sources, NEW prior \in Located(s), prior # None
    PROVE  prior \in State /\ Kept(runs, prior, s)
<1>1. PICK q \in LeftState(s) : prior = runs[q].states[s]
  BY DEF Located
<1>2. q \in DOMAIN runs /\ runs[q].phase = "done" /\ runs[q].states[s] # None
  BY <1>1 DEF LeftState
<1>3. OwnOrKept(runs, q, prior, s) /\ Past(runs, q)
  BY <1>1, <1>2 DEF IInv, Past
<1>4. runs[q] \in RunRecord
  BY <1>2, RunsAndCommits DEF IInv
<1>5. prior \in State
  BY <1>1, <1>2, <1>4 DEF RunRecord
<1>. QED
  BY <1>3, <1>5 DEF OwnOrKept, Kept

\* What a run makes of an attempt: the candidate and the clock.
LEMMA EvaluatedState ==
    ASSUME NEW attempt \in Attempt, NEW base \in State,
           NEW prior \in State \cup {None},
           base.successAt < attempt.at, base.candidate = None,
           NEW previous, previous = MergePreviousState(base, prior),
           NEW new, new = ApplyOperationalClock(Evaluate(attempt, previous), attempt)
    PROVE  /\ new \in State /\ new.accepted = base.accepted
           /\ new.candidate = IF attempt.complete /\ ~Same(base.accepted, attempt)
                              THEN attempt ELSE None
           /\ base.successAt <= new.successAt
           /\ attempt.complete =>
                 new.successRun = attempt.run /\ new.successAt = attempt.at
           /\ ~attempt.complete =>
                 \/ new.successRun = base.successRun /\ new.successAt = base.successAt
                 \/ /\ prior # None
                    /\ new.successRun = prior.successRun
                    /\ new.successAt = prior.successAt
<1>1. /\ previous \in State /\ previous.accepted = base.accepted
      /\ base.successAt <= previous.successAt
      /\ \/ /\ previous.successRun = base.successRun
            /\ previous.successAt = base.successAt
         \/ /\ prior # None
            /\ previous.successRun = prior.successRun
            /\ previous.successAt = prior.successAt
  <2>1. CASE prior # None /\ prior.successAt > base.successAt
    <3>1. previous = [base EXCEPT !.successAt = prior.successAt,
                                  !.successRun = prior.successRun]
      BY <2>1 DEF MergePreviousState
    <3>2. prior \in State /\ prior.successAt \in Nat /\ base.successAt \in Nat
      BY <2>1 DEF State
    <3>3. base.successAt <= prior.successAt
      BY <2>1, <3>2
    <3>4. /\ previous \in State /\ previous.accepted = base.accepted
          /\ previous.successAt = prior.successAt
          /\ previous.successRun = prior.successRun
      BY <3>1, <3>2 DEF State
    <3>. QED
      BY <2>1, <3>3, <3>4
  <2>2. CASE ~(prior # None /\ prior.successAt > base.successAt)
    <3>1. previous = base /\ base.successAt \in Nat
      BY <2>2 DEF MergePreviousState, State
    <3>. QED
      BY <3>1
  <2>. QED
    BY <2>1, <2>2
<1>. DEFINE evaluated == Evaluate(attempt, previous)
<1>2. /\ evaluated \in State /\ evaluated.accepted = base.accepted
      /\ evaluated.candidate = IF attempt.complete /\ ~Same(base.accepted, attempt)
                               THEN attempt ELSE None
      /\ evaluated.successAt = previous.successAt
      /\ evaluated.successRun = previous.successRun
  BY <1>1 DEF Evaluate, State
<1>. HIDE DEF evaluated
<1>3. CASE attempt.complete
  <2>1. new = [evaluated EXCEPT !.successAt = attempt.at, !.successRun = attempt.run]
    BY <1>3 DEF ApplyOperationalClock, evaluated
  <2>2. attempt.at \in Nat /\ attempt.run \in Nat /\ base.successAt \in Nat
    BY DEF Attempt, State
  <2>3. /\ new \in State /\ new.accepted = evaluated.accepted
        /\ new.candidate = evaluated.candidate
        /\ new.successAt = attempt.at /\ new.successRun = attempt.run
    BY <1>2, <2>1, <2>2 DEF State
  <2>4. base.successAt <= new.successAt
    BY <2>2, <2>3
  <2>. QED
    BY <1>2, <1>3, <2>3, <2>4
<1>4. CASE ~attempt.complete
  <2>1. new = evaluated
    BY <1>4 DEF ApplyOperationalClock, evaluated
  <2>. QED
    BY <1>1, <1>2, <1>4, <2>1
<1>. QED
  BY <1>3, <1>4

LEMMA RefreshKeepsInv ==
    ASSUME IInv, NEW r \in DOMAIN runs, NEW s \in Sources, Refresh(r, s)
    PROVE  IInv'
<1>1. /\ runs[r].phase = "sources" /\ runs[r].got[s] # None /\ runs[r].states[s] = None
      /\ UNCHANGED <<repository, clock, crashes>>
  BY DEF Refresh
<1>. DEFINE attempt == runs[r].got[s]
<1>2. PICK prior \in Located(s) :
         LET previous == MergePreviousState(Base(r).state[s], prior)
             states == [runs[r].states EXCEPT ![s] =
                          ApplyOperationalClock(Evaluate(attempt, previous),
                                                attempt)]
             over == \A t \in SourcesOf(runs[r].kind) : states[t] # None
         IN  runs' = [runs EXCEPT
                        ![r].states = states,
                        ![r].phase = IF ~over THEN "sources"
                                     ELSE IF runs[r].kind = "proposal"
                                          THEN "branch" ELSE "done"]
  BY DEF Refresh
<1>. DEFINE previous == MergePreviousState(Base(r).state[s], prior)
            new == ApplyOperationalClock(Evaluate(attempt, previous), attempt)
            states == [runs[r].states EXCEPT ![s] = new]
            phase == IF ~ \A t \in SourcesOf(runs[r].kind) : states[t] # None
                     THEN "sources"
                     ELSE IF runs[r].kind = "proposal" THEN "branch" ELSE "done"
            x == [runs[r] EXCEPT !.states = states, !.phase = phase]
<1>3. /\ ProposalTypeOK /\ runs[r] \in RunRecord /\ RunInv(r)
      /\ r \in RunIds /\ r \in Nat /\ r # 0 /\ ~Past(runs, r)
      /\ runs[r].base \in DOMAIN commits /\ Base(r).receipt < r
      /\ \A t \in Sources :
            /\ Base(r).state[t] \in State /\ Base(r).state[t].candidate = None
            /\ Kept(runs, Base(r).state[t], t)
  BY <1>1, SourceFacts
<1>4. /\ attempt \in Attempt /\ attempt # None /\ EvaluatedInv(r, s)
      /\ Base(r).state[s].successAt < attempt.at /\ attempt.run = r
  BY <1>1, <1>3 DEF RunRecord, RunInv, EvaluatedInv
<1>5. prior \in State \cup {None} /\ (prior # None => Kept(runs, prior, s))
  BY LocatedIsKept
<1>6. /\ new \in State /\ new.accepted = Base(r).state[s].accepted
      /\ new.candidate = IF attempt.complete /\ ~Same(Base(r).state[s].accepted, attempt)
                         THEN attempt ELSE None
      /\ Base(r).state[s].successAt <= new.successAt
      /\ attempt.complete => new.successRun = r /\ new.successAt = attempt.at
      /\ ~attempt.complete =>
            \/ /\ new.successRun = Base(r).state[s].successRun
               /\ new.successAt = Base(r).state[s].successAt
            \/ /\ prior # None
               /\ new.successRun = prior.successRun
               /\ new.successAt = prior.successAt
  <2>. HIDE DEF attempt
  <2>1. Base(r).state[s] \in State /\ Base(r).state[s].candidate = None
    BY <1>3
  <2>. QED
    BY <1>4, <1>5, <2>1, EvaluatedState
<1>7. runs' = [runs EXCEPT ![r] = x]
  BY <1>2, <1>3
<1>. HIDE DEF new
<1>8. states \in [Sources -> State \cup {None}] /\ states[s] = new
      /\ \A t \in Sources : t # s => states[t] = runs[r].states[t]
  BY <1>3, <1>6 DEF RunRecord
<1>9. /\ phase \in {"sources", "branch", "done"}
      /\ phase # "sources" => \A t \in SourcesOf(runs[r].kind) : states[t] # None
      /\ phase = "branch" => runs[r].kind = "proposal"
  OBVIOUS
<1>. HIDE DEF states, phase
<1>10. /\ x \in RunRecord /\ x.phase = phase /\ x.states = states
       /\ x.base = runs[r].base /\ x.kind = runs[r].kind /\ x.got = runs[r].got
  BY <1>3, <1>8, <1>9 DEF RunRecord, Active, Ended, ProposalPhases
<1>. HIDE DEF x
<1>11. Becomes(r, x)
  BY <1>3, <1>7, <1>10, OneRunBecomes
<1>12. SourceStep(r) /\ runs'[r] = x
  BY <1>1, <1>3, <1>9, <1>10, <1>11 DEF SourceStep, Becomes, ProposalTypeOK
<1>13. Base(r)' = Base(r) /\ Keeps /\ clock' = clock
  BY <1>1, <1>3, <1>12, SourceStepKeeps
<1>14. RunInv(r)'
  <2>1. /\ runs'[r].phase \notin {"sources", "failed", "done"} => runs'[r].kind = "proposal"
        /\ Past(runs', r) => \A t \in SourcesOf(runs'[r].kind) : runs'[r].states[t] # None
    BY <1>9, <1>10, <1>12 DEF Past
  <2>2. EvaluatedInv(r, s)'
    <3>1. runs'[r].got[s] = attempt /\ runs'[r].states[s] = new /\ runs'[r].kind = runs[r].kind
      BY <1>8, <1>10, <1>12
    <3>2. /\ attempt.run = r /\ attempt.complete = (runs[r].kind # "fixture")
          /\ attempt.at <= clock
      BY <1>4 DEF EvaluatedInv
    <3>. HIDE DEF attempt
    <3>. QED
      BY <1>4, <1>6, <1>13, <3>1, <3>2 DEF EvaluatedInv
  <2>3. ASSUME NEW t \in Sources, t # s
        PROVE  EvaluatedInv(r, t)'
    <3>1. /\ runs'[r].got[t] = runs[r].got[t] /\ runs'[r].states[t] = runs[r].states[t]
          /\ runs'[r].kind = runs[r].kind /\ EvaluatedInv(r, t)
      BY <1>3, <1>8, <1>10, <1>12, <2>3 DEF RunInv
    <3>. QED
      BY <1>13, <3>1 DEF EvaluatedInv
  <2>. QED
    BY <2>1, <2>2, <2>3 DEF RunInv
<1>15. ASSUME NEW t \in Sources, runs'[r].states[t] # None
       PROVE  OwnOrKept(runs', r, runs'[r].states[t], t)
  <2>1. CASE t # s
    <3>1. runs'[r].states[t] = runs[r].states[t] /\ runs'[r].got[t] = runs[r].got[t]
      BY <1>8, <1>10, <1>12, <2>1
    <3>2. OwnOrKept(runs, r, runs[r].states[t], t)
      BY <1>15, <3>1 DEF IInv
    <3>. QED
      BY <1>13, <3>1, <3>2, OwnOrKeptStays
  <2>2. CASE t = s
    <3>1. runs'[r].states[s] = new /\ runs'[r].got[s] = attempt
      BY <1>8, <1>10, <1>12
    <3>2. CASE attempt.complete
      BY <1>3, <1>4, <1>6, <2>2, <3>1, <3>2 DEF OwnOrKept, ShownBy
    <3>3. CASE ~attempt.complete
      <4>1. Kept(runs, new, s)
        BY <1>3, <1>5, <1>6, <3>3 DEF Kept, ShownBy
      <4>2. Kept(runs', new, s)
        BY <1>13, <4>1, KeptStays
      <4>. QED
        BY <2>2, <3>1, <4>2 DEF Kept, OwnOrKept
    <3>. QED
      BY <3>2, <3>3
  <2>. QED
    BY <2>1, <2>2
<1>. QED
  BY <1>3, <1>9, <1>10, <1>12, <1>14, <1>15, SourceStepKeepsInv DEF Base

-----------------------------------------------------------------------------
(* The reviewer.                                                            *)

\* The pull request of r is merged or closed, and its branch may be deleted.
ReviewStep(r) ==
    /\ pulls[r] = "open" /\ pulls'[r] \in {"merged", "closed"}
    /\ \A q \in RunIds : q # r => pulls'[q] = pulls[q] /\ branches'[q] = branches[q]
    /\ pulls' \in [RunIds -> {"none", "open", "merged", "closed"}]
    /\ branches' \in [RunIds -> Tree \cup {None}]
    /\ branches'[r] \in {branches[r], None}
    /\ UNCHANGED <<runs, clock, crashes>>

\* What such a step leaves of the invariant, when history only grows.
LEMMA ReviewKeeps ==
    ASSUME IInv, NEW r \in RunIds, ReviewStep(r), Keeps
    PROVE  /\ \A q \in DOMAIN runs : Base(q)' = Base(q)
           /\ \A q \in DOMAIN runs : RunInv(q)' /\ PhaseInv(q)'
           /\ \A q \in RunIds : BranchInv(q)'
           /\ \A n \in DOMAIN commits :
                 commits[n].receipt # 0 /\ commits[n].receipt \notin early =>
                     /\ commits[n].receipt # r
                     /\ pulls'[commits[n].receipt] = "merged"
                     /\ runs[commits[n].receipt].phase = "done"
<1>1. /\ ProposalTypeOK /\ CommitsInv /\ BranchInv(r)
      /\ runs' = runs /\ clock' = clock
  BY DEF IInv, ReviewStep
<1>2. \A q \in DOMAIN runs : Base(q)' = Base(q)
  BY <1>1, BasesStay
<1>3. \A q \in DOMAIN runs : RunInv(q)'
  BY <1>1, <1>2 DEF IInv, RunInv, EvaluatedInv
<1>4. Past(runs, r) /\ r \in DOMAIN runs /\ runs[r].kind = "proposal" /\ Base(r).receipt = 0
  BY <1>1 DEF BranchInv, ReviewStep, Past
<1>5. ASSUME NEW q \in RunIds
      PROVE  BranchInv(q)'
  <2>1. BranchInv(q)
    BY DEF IInv
  <2>2. CASE branches'[q] = branches[q]
    <3>1. PullStays(q)
      BY DEF ReviewStep, PullStays
    <3>. QED
      BY <1>1, <2>1, <2>2, <3>1, BranchStays
  <2>3. CASE branches'[q] # branches[q]
    <3>1. q = r /\ branches'[r] = None /\ pulls'[r] # "open"
      BY <2>3 DEF ReviewStep
    <3>. QED
      BY <1>1, <1>2, <1>4, <3>1 DEF BranchInv
  <2>. QED
    BY <2>2, <2>3
<1>6. ASSUME NEW q \in DOMAIN runs
      PROVE  PhaseInv(q)'
  <2>1. PhaseInv(q) /\ q \in RunIds /\ runs'[q].phase = runs[q].phase
    BY <1>1, RunsAndCommits DEF IInv
  <2>2. CASE branches'[q] = branches[q]
    BY <1>1, <2>1, <2>2, PhaseStays
  <2>3. CASE branches'[q] # branches[q]
    <3>1. q = r /\ branches'[r] = None
      BY <2>1, <2>3 DEF ReviewStep
    <3>. QED
      BY <1>1, <1>2, <1>4, <2>1, <3>1 DEF PhaseInv, Receipted, Written
  <2>. QED
    BY <2>2, <2>3
<1>7. ASSUME NEW n \in DOMAIN commits, commits[n].receipt # 0,
             commits[n].receipt \notin early
      PROVE  /\ commits[n].receipt # r
             /\ pulls'[commits[n].receipt] = "merged"
             /\ runs[commits[n].receipt].phase = "done"
  <2>1. pulls[commits[n].receipt] = "merged" /\ runs[commits[n].receipt].phase = "done"
    BY <1>7 DEF IInv, MergedInv
  <2>2. commits[n].receipt \in RunIds
    BY <1>1, <1>7, RunsAndCommits DEF CommitsInv, Past
  <2>. QED
    BY <2>1, <2>2 DEF ReviewStep
<1>. QED
  BY <1>2, <1>3, <1>5, <1>6, <1>7

LEMMA ClosePullRequestKeepsInv ==
    ASSUME IInv, NEW r \in DOMAIN runs, ClosePullRequest(r)
    PROVE  IInv'
<1>1. /\ pulls[r] = "open" /\ pulls' = [pulls EXCEPT ![r] = "closed"]
      /\ UNCHANGED <<commits, branches, early, runs, clock, crashes>>
  BY DEF ClosePullRequest
<1>2. ProposalTypeOK /\ CommitsInv /\ r \in RunIds
  BY RunsAndCommits DEF IInv
<1>3. ReviewStep(r)
  BY <1>1, <1>2 DEF ReviewStep, ProposalTypeOK
<1>4. Keeps
  BY <1>1 DEF Keeps
<1>5. /\ \A q \in DOMAIN runs : RunInv(q)' /\ PhaseInv(q)' /\ Base(q)' = Base(q)
      /\ \A q \in RunIds : BranchInv(q)'
      /\ MergedInv'
  BY <1>1, <1>2, <1>3, <1>4, ReviewKeeps DEF MergedInv
<1>6. ProposalTypeOK'
  BY <1>1, <1>2, <1>3 DEF ProposalTypeOK, ReviewStep
<1>7. CommitsInv'
  BY <1>1, <1>2, <1>5 DEF CommitsInv
<1>8. ReceiptBringsItsLineage'
  BY <1>1 DEF IInv, ReceiptBringsItsLineage, Main
<1>. QED
  BY <1>1, <1>5, <1>6, <1>7, <1>8 DEF IInv

\* The run of an open pull request, and what its branch holds of a source.
LEMMA OpenFacts ==
    ASSUME IInv, NEW r \in DOMAIN runs, pulls[r] = "open"
    PROVE  /\ ProposalTypeOK /\ CommitsInv /\ r \in RunIds /\ r # 0 /\ r \in Nat
           /\ Past(runs, r) /\ Base(r).receipt = 0 /\ runs[r].base = 1
           /\ branches[r] # None /\ branches[r] \in Tree /\ branches[r].receipt = r
           /\ Main \in Tree /\ Len(commits) \in DOMAIN commits /\ Len(commits) \in Nat
           /\ \A s \in Sources :
                 /\ Main.state[s].candidate = None /\ Kept(runs, Main.state[s], s)
                 /\ branches[r].state[s].candidate = None
                 /\ Kept(runs, branches[r].state[s], s)
                 /\ runs[r].phase = "done" =>
                       Same(branches[r].state[s].accepted, runs[r].got[s])
<1>1. ProposalTypeOK /\ CommitsInv /\ r \in RunIds /\ RunInv(r)
  BY RunsAndCommits DEF IInv
<1>2. /\ Past(runs, r) /\ runs[r].kind = "proposal" /\ Base(r).receipt = 0
      /\ branches[r] # None /\ branches[r].receipt = r
      /\ \A s \in Sources : branches[r].state[s] \in {Base(r).state[s], Desired(r, s)}
  BY <1>1 DEF IInv, BranchInv
<1>3. /\ PhaseInv(r) /\ r # 0 /\ r \in Nat /\ runs[r].base \in DOMAIN commits
      /\ \A s \in Sources :
            /\ runs[r].states[s] \in State /\ runs[r].states[s] # None
            /\ Base(r).state[s].candidate = None
            /\ Desired(r, s).candidate = None
            /\ EvaluatedInv(r, s)
  BY <1>2, ProposalFacts
<1>4. runs[r].base = 1
  BY <1>1, <1>2, <1>3 DEF CommitsInv, Base
<1>5. Len(commits) \in DOMAIN commits /\ Len(commits) \in Nat /\ Main \in Tree
  BY <1>1, RunsAndCommits DEF CommitsInv, Main
<1>6. branches[r] \in Tree
  BY <1>1, <1>2 DEF ProposalTypeOK
<1>7. ASSUME NEW s \in Sources
      PROVE  /\ Main.state[s].candidate = None /\ Kept(runs, Main.state[s], s)
             /\ branches[r].state[s].candidate = None
             /\ Kept(runs, branches[r].state[s], s)
             /\ runs[r].phase = "done" =>
                   Same(branches[r].state[s].accepted, runs[r].got[s])
  <2>1. Main.state[s].candidate = None /\ Kept(runs, Main.state[s], s)
    BY <1>1, <1>5 DEF ProposalTypeOK, IInv, Main
  <2>2. Kept(runs, Base(r).state[s], s) /\ Kept(runs, runs[r].states[s], s)
    <3>1. OwnOrKept(runs, r, runs[r].states[s], s)
      BY <1>3 DEF IInv
    <3>2. Kept(runs, runs[r].states[s], s)
      BY <1>2, <3>1 DEF OwnOrKept, Kept
    <3>. QED
      BY <1>3, <3>2 DEF IInv, Base
  <2>3. Kept(runs, Desired(r, s), s)
    <3>1. CASE runs[r].states[s].candidate = None
      BY <2>2, <3>1 DEF Desired, Promoted
    <3>2. CASE runs[r].states[s].candidate # None
      <4>1. /\ Desired(r, s).successAt = runs[r].states[s].successAt
            /\ Desired(r, s).successRun = runs[r].states[s].successRun
        BY <1>3, <3>2 DEF Desired, Promoted, PromoteState, State
      <4>. QED
        BY <2>2, <4>1 DEF Kept, ShownBy
    <3>. QED
      BY <3>1, <3>2
  <2>4. ASSUME runs[r].phase = "done"
        PROVE  Same(branches[r].state[s].accepted, runs[r].got[s])
    <3>1. branches[r].state[s] = Desired(r, s)
      BY <1>2, <1>3, <2>4 DEF PhaseInv, Written
    <3>2. /\ runs[r].got[s] # None /\ runs[r].got[s].complete
          /\ runs[r].states[s].candidate =
                IF ~Same(Base(r).state[s].accepted, runs[r].got[s])
                THEN runs[r].got[s] ELSE None
      BY <1>2, <1>3 DEF EvaluatedInv
    <3>3. CASE runs[r].states[s].candidate = None
      <4>1. Desired(r, s) = Base(r).state[s]
        BY <3>3 DEF Desired, Promoted
      <4>. QED
        BY <3>1, <3>2, <3>3, <4>1
    <3>4. CASE runs[r].states[s].candidate # None
      <4>1. Desired(r, s).accepted = runs[r].got[s]
        BY <1>3, <3>2, <3>4 DEF Desired, Promoted, PromoteState, State
      <4>. QED
        BY <3>1, <3>2, <4>1 DEF Same
    <3>. QED
      BY <3>3, <3>4
  <2>. QED
    BY <1>2, <1>3, <2>1, <2>2, <2>3, <2>4
<1>. QED
  BY <1>1, <1>2, <1>3, <1>4, <1>5, <1>6, <1>7

\* The commit a merge makes.
LEMMA MergedCommit ==
    ASSUME IInv, NEW r \in DOMAIN runs, MergePullRequest(r)
    PROVE  \E c \in Tree :
              /\ commits' = Append(commits, c) /\ c.receipt = r
              /\ \A s \in Sources : c.state[s].candidate = None /\ Kept(runs, c.state[s], s)
              /\ r \notin early /\ runs[r].phase = "done" =>
                    \A s \in Sources : Same(c.state[s].accepted, runs[r].got[s])
<1>1. pulls[r] = "open"
  BY DEF MergePullRequest
<1>2. /\ ProposalTypeOK /\ CommitsInv /\ r \in RunIds /\ r # 0 /\ r \in Nat
      /\ Base(r).receipt = 0 /\ runs[r].base = 1
      /\ branches[r] \in Tree /\ branches[r].receipt = r
      /\ Main \in Tree /\ Len(commits) \in DOMAIN commits
      /\ \A s \in Sources :
            /\ Main.state[s].candidate = None /\ Kept(runs, Main.state[s], s)
            /\ branches[r].state[s].candidate = None
            /\ Kept(runs, branches[r].state[s], s)
            /\ runs[r].phase = "done" =>
                  Same(branches[r].state[s].accepted, runs[r].got[s])
  BY <1>1, OpenFacts
<1>. DEFINE receipt == MergedFile(Base(r).receipt, Main.receipt, branches[r].receipt)
            state == [s \in Sources |-> MergedFile(Base(r).state[s], Main.state[s],
                                                   branches[r].state[s])]
            c == [receipt |-> receipt, state |-> state]
<1>3. /\ commits' = Append(commits, c)
      /\ CleanMerge(Base(r).receipt, Main.receipt, branches[r].receipt)
  BY DEF MergePullRequest
<1>4. receipt = r /\ Main.receipt \in {0, r}
  BY <1>2, <1>3 DEF MergedFile, CleanMerge
<1>5. \A s \in Sources : state[s] \in {Main.state[s], branches[r].state[s]}
  BY DEF MergedFile
<1>6. c \in Tree /\ c.receipt = r /\ c.state = state
  <2>1. \A s \in Sources : state[s] \in State
    BY <1>2, <1>5 DEF Tree
  <2>2. state \in [Sources -> State]
    BY <2>1
  <2>3. r \in 0..MaxRuns
    BY <1>2 DEF RunIds
  <2>. HIDE DEF receipt, state
  <2>. QED
    BY <1>4, <2>2, <2>3 DEF Tree
<1>7. \A s \in Sources : state[s].candidate = None /\ Kept(runs, state[s], s)
  BY <1>2, <1>5
<1>8. ASSUME r \notin early, runs[r].phase = "done", NEW s \in Sources
      PROVE  Same(state[s].accepted, runs[r].got[s])
  <2>1. Main.receipt # r
    BY <1>1, <1>2, <1>8 DEF IInv, MergedInv, Main
  <2>2. Main = Base(r)
    BY <1>2, <1>4, <2>1 DEF CommitsInv, Main, Base
  <2>3. state[s] = branches[r].state[s]
    BY <2>2 DEF MergedFile
  <2>. QED
    BY <1>2, <1>8, <2>3
<1>. HIDE DEF c, state
<1>. QED
  BY <1>3, <1>6, <1>7, <1>8

LEMMA MergePullRequestKeepsInv ==
    ASSUME IInv, NEW r \in DOMAIN runs, MergePullRequest(r)
    PROVE  IInv'
<1>1. PICK c \in Tree :
          /\ commits' = Append(commits, c) /\ c.receipt = r
          /\ \A s \in Sources : c.state[s].candidate = None /\ Kept(runs, c.state[s], s)
          /\ r \notin early /\ runs[r].phase = "done" =>
                \A s \in Sources : Same(c.state[s].accepted, runs[r].got[s])
  BY MergedCommit
<1>2. /\ pulls[r] = "open" /\ pulls' = [pulls EXCEPT ![r] = "merged"]
      /\ early' = IF runs[r].phase = "done" THEN early ELSE early \cup {r}
      /\ branches' \in {branches, [branches EXCEPT ![r] = None]}
      /\ UNCHANGED <<runs, clock, crashes>>
  BY DEF MergePullRequest
<1>3. /\ ProposalTypeOK /\ CommitsInv /\ r \in RunIds /\ r # 0 /\ r \in Nat
      /\ Past(runs, r) /\ Len(commits) \in DOMAIN commits
  BY <1>2, OpenFacts
<1>4. PICK m : m = Len(commits) + 1
  OBVIOUS
<1>5. /\ commits' \in Seq(Tree) /\ DOMAIN commits' = DOMAIN commits \cup {m}
      /\ m \notin DOMAIN commits /\ Len(commits') = m
      /\ commits'[m] = c
      /\ \A n \in DOMAIN commits : commits'[n] = commits[n]
  BY <1>1, <1>3, <1>4, AppendedSequence DEF ProposalTypeOK
<1>6. /\ pulls' \in [RunIds -> {"none", "open", "merged", "closed"}]
      /\ pulls'[r] = "merged"
      /\ \A q \in RunIds : q # r => pulls'[q] = pulls[q]
  BY <1>2, <1>3 DEF ProposalTypeOK
<1>7. /\ branches' \in [RunIds -> Tree \cup {None}]
      /\ branches'[r] \in {branches[r], None}
      /\ \A q \in RunIds : q # r => branches'[q] = branches[q]
  BY <1>2, <1>3 DEF ProposalTypeOK
<1>8. ReviewStep(r)
  BY <1>2, <1>6, <1>7 DEF ReviewStep
<1>9. Keeps
  BY <1>2, <1>5 DEF Keeps
<1>10. /\ \A q \in DOMAIN runs : RunInv(q)' /\ PhaseInv(q)' /\ Base(q)' = Base(q)
       /\ \A q \in RunIds : BranchInv(q)'
       /\ \A n \in DOMAIN commits :
             commits[n].receipt # 0 /\ commits[n].receipt \notin early =>
                 /\ commits[n].receipt # r
                 /\ pulls'[commits[n].receipt] = "merged"
                 /\ runs[commits[n].receipt].phase = "done"
  BY <1>3, <1>8, <1>9, ReviewKeeps
<1>11. ProposalTypeOK'
  <2>1. early' \subseteq RunIds
    BY <1>2, <1>3 DEF ProposalTypeOK
  <2>2. \A n \in DOMAIN commits', s \in Sources : commits'[n].state[s].candidate = None
    BY <1>1, <1>3, <1>5 DEF ProposalTypeOK
  <2>. QED
    BY <1>2, <1>3, <1>5, <1>6, <1>7, <2>1, <2>2 DEF ProposalTypeOK
<1>12. CommitsInv'
  <2>1. 1 \in DOMAIN commits /\ m # 1
    BY <1>3, <1>5 DEF CommitsInv
  <2>2. \A n \in DOMAIN commits' :
           /\ commits'[n].receipt = 0 <=> n = 1
           /\ n # 1 => Past(runs, commits'[n].receipt)
    BY <1>1, <1>3, <1>5, <2>1 DEF CommitsInv
  <2>3. \A q \in DOMAIN runs :
           runs[q].base \in DOMAIN commits' /\ Base(q)'.receipt < q
    BY <1>3, <1>5, <1>10 DEF CommitsInv
  <2>. QED
    BY <1>2, <1>5, <2>1, <2>2, <2>3 DEF CommitsInv
<1>13. \A s \in Sources, n \in DOMAIN commits' : Kept(runs, commits'[n].state[s], s)
  BY <1>1, <1>5 DEF IInv
<1>14. MergedInv'
  <2>1. ASSUME NEW n \in DOMAIN commits', commits'[n].receipt # 0,
               commits'[n].receipt \notin early'
        PROVE  /\ pulls'[commits'[n].receipt] = "merged"
               /\ runs[commits'[n].receipt].phase = "done"
    <3>1. early \subseteq early' /\ (r \notin early' => runs[r].phase = "done")
      BY <1>2
    <3>. QED
      BY <1>1, <1>5, <1>6, <1>10, <2>1, <3>1
  <2>. QED
    BY <1>2, <2>1 DEF MergedInv
<1>15. ReceiptBringsItsLineage'
  <2>1. Main' = c
    BY <1>5 DEF Main
  <2>2. r \notin early' => r \notin early /\ runs[r].phase = "done"
    BY <1>2
  <2>. QED
    BY <1>1, <1>2, <2>1, <2>2 DEF ReceiptBringsItsLineage
<1>. QED
  BY <1>2, <1>10, <1>11, <1>12, <1>13, <1>14, <1>15 DEF IInv

-----------------------------------------------------------------------------
(* The theorems.                                                            *)

LEMMA InitIInv == Init => IInv
<1>. SUFFICES ASSUME Init
              PROVE  IInv
  OBVIOUS
<1>. DEFINE c == [receipt |-> 0, state |-> [s \in Sources |-> NoLineage]]
<1>1. /\ NoLineage \in State /\ NoLineage.candidate = None
      /\ NoLineage.successRun = 0 /\ NoLineage.successAt = 0
  BY DEF NoLineage, State
<1>2. c \in Tree /\ c.receipt = 0 /\ \A s \in Sources : c.state[s] = NoLineage
  BY <1>1, ProposalAssumption DEF Tree
<1>. HIDE DEF c
<1>3. commits = <<c>> /\ runs = <<>> /\ clock = 0 /\ crashes = 0 /\ early = {}
  BY DEF Init, c
<1>4. /\ branches \in [RunIds -> Tree \cup {None}]
      /\ pulls \in [RunIds -> {"none", "open", "merged", "closed"}]
      /\ \A r \in RunIds : branches[r] = None /\ pulls[r] = "none"
  BY DEF Init
<1>5. /\ commits \in Seq(Tree) /\ DOMAIN commits = {1} /\ commits[1] = c /\ Len(commits) = 1
      /\ runs \in Seq(RunRecord) /\ DOMAIN runs = {} /\ Len(runs) = 0
  BY <1>2, <1>3
<1>6. ProposalTypeOK
  BY <1>1, <1>2, <1>3, <1>4, <1>5, ProposalAssumption DEF ProposalTypeOK
<1>7. CommitsInv /\ MergedInv /\ ReceiptBringsItsLineage
  BY <1>2, <1>5 DEF CommitsInv, MergedInv, ReceiptBringsItsLineage, Main
<1>8. \A s \in Sources, n \in DOMAIN commits : Kept(runs, commits[n].state[s], s)
  BY <1>1, <1>2, <1>5 DEF Kept, ShownBy
<1>9. \A r \in RunIds : BranchInv(r)
  BY <1>4 DEF BranchInv
<1>. QED
  BY <1>5, <1>6, <1>7, <1>8, <1>9 DEF IInv

LEMMA NextKeepsIInv == IInv /\ [Next]_vars => IInv'
<1>. SUFFICES ASSUME IInv, [Next]_vars
              PROVE  IInv'
  OBVIOUS
<1>1. CASE UNCHANGED vars
  <2>1. UNCHANGED <<commits, branches, pulls, early, runs, clock, crashes>>
    BY <1>1 DEF vars, repository
  <2>2. Keeps /\ CommitsInv /\ ProposalTypeOK
    BY <2>1 DEF Keeps, IInv
  <2>3. \A q \in DOMAIN runs : Base(q)' = Base(q)
    BY <2>2, BasesStay
  <2>4. ProposalTypeOK'
    BY <2>1, <2>2 DEF ProposalTypeOK
  <2>5. CommitsInv' /\ MergedInv' /\ ReceiptBringsItsLineage'
    BY <2>1, <2>3 DEF IInv, CommitsInv, MergedInv, ReceiptBringsItsLineage, Main
  <2>6. \A q \in DOMAIN runs : RunInv(q)'
    BY <2>1, <2>3 DEF IInv, RunInv, EvaluatedInv
  <2>7. \A q \in RunIds : BranchInv(q)'
    BY <2>1, <2>2, BranchStays DEF IInv, PullStays
  <2>8. \A q \in DOMAIN runs : PhaseInv(q)'
    BY <2>1, <2>2, PhaseStays DEF IInv
  <2>. QED
    BY <2>1, <2>4, <2>5, <2>6, <2>7, <2>8 DEF IInv
<1>2. ASSUME NEW kind \in Kinds, StartRun(kind)
      PROVE  IInv'
  BY <1>2, StartRunKeepsInv
<1>3. ASSUME NEW r \in DOMAIN runs, NEW s \in Sources,
             Acquire(r, s) \/ Refresh(r, s) \/ PutState(r, s)
      PROVE  IInv'
  BY <1>3, AcquireKeepsInv, RefreshKeepsInv, PutStateKeepsInv
<1>4. ASSUME NEW r \in DOMAIN runs,
             \/ SourceFails(r) \/ EnsureBranch(r) \/ PutReceipt(r)
             \/ OpenPullRequest(r) \/ ProposalBranchIsGone(r)
      PROVE  IInv'
  BY <1>4, SourceFailsKeepsInv, EnsureBranchKeepsInv, PutReceiptKeepsInv,
     OpenPullRequestKeepsInv, BranchGoneKeepsInv
<1>5. ASSUME NEW r \in DOMAIN runs,
             \/ CheckPromotion(r) \/ ComparePaths(r) \/ JobDies(r) \/ RerunJob(r)
             \/ MergePullRequest(r) \/ ClosePullRequest(r)
      PROVE  IInv'
  BY <1>5, CheckPromotionKeepsInv, ComparePathsKeepsInv, JobDiesKeepsInv,
     RerunJobKeepsInv, MergePullRequestKeepsInv, ClosePullRequestKeepsInv
<1>. QED
  BY <1>1, <1>2, <1>3, <1>4, <1>5 DEF Next

LEMMA AlwaysIInv == Spec => []IInv
<1>1. Init => IInv
  BY InitIInv
<1>2. IInv /\ [Next]_vars => IInv'
  BY NextKeepsIInv
<1>. QED
  BY <1>1, <1>2, PTL DEF Spec

\* Every variable has its type, and no file of main holds an unpromoted
\* candidate, for any contents, kinds of runs and bounds.
THEOREM ProposalTypeCorrect == Spec => []ProposalTypeOK
<1>1. IInv => ProposalTypeOK
  BY DEF IInv
<1>. QED
  BY <1>1, AlwaysIInv, PTL

\* Main has accepted the contents from which the release of its receipt was
\* built, however jobs die, are run again and are merged, unless the reviewer
\* merged before the run had ended.
THEOREM LineageIsBrought == Spec => []ReceiptBringsItsLineage
<1>1. IInv => ReceiptBringsItsLineage
  BY DEF IInv
<1>. QED
  BY <1>1, AlwaysIInv, PTL

\* A re-run is never refused for what an earlier attempt of its own run has
\* written, at whatever request that attempt died.
THEOREM RerunsNeverRefused == Spec => []RerunsAreNotRefused
<1>1. IInv => RerunsAreNotRefused
  BY DEF IInv, PhaseInv, RerunsAreNotRefused
<1>. QED
  BY <1>1, AlwaysIInv, PTL

\* Every clock, on main, on a branch and in an artifact, shows the time of a
\* complete acquisition of its source by the run it names.
THEOREM ClocksAreAcquisitions == Spec => []ClockIsAnAcquisition
<1>1. IInv => ClockIsAnAcquisition
  <2>. SUFFICES ASSUME IInv
                PROVE  ClockIsAnAcquisition
    OBVIOUS
  <2>1. \A state, s : ShownBy(runs, state, s) => ClockShown(state, s)
    BY DEF ShownBy, ClockShown
  <2>2. \A s \in Sources, n \in DOMAIN commits : ClockShown(commits[n].state[s], s)
    BY <2>1 DEF IInv, Kept
  <2>3. \A s \in Sources, r \in DOMAIN runs :
           runs[r].states[s] # None => ClockShown(runs[r].states[s], s)
    BY <2>1 DEF IInv, OwnOrKept
  <2>4. ASSUME NEW s \in Sources, NEW r \in RunIds, branches[r] # None
        PROVE  ClockShown(branches[r].state[s], s)
    <3>1. /\ Past(runs, r) /\ r \in DOMAIN runs /\ runs[r].kind = "proposal"
          /\ branches[r].state[s] \in {Base(r).state[s], Desired(r, s)}
      BY <2>4 DEF IInv, BranchInv, Past
    <3>2. /\ runs[r].base \in DOMAIN commits
          /\ runs[r].states[s] \in State /\ runs[r].states[s] # None
      BY <3>1, ProposalFacts
    <3>3. ClockShown(Base(r).state[s], s)
      BY <2>2, <3>2 DEF Base
    <3>4. CASE runs[r].states[s].candidate = None
      BY <3>1, <3>3, <3>4 DEF Desired, Promoted
    <3>5. CASE runs[r].states[s].candidate # None
      <4>1. /\ Desired(r, s).successAt = runs[r].states[s].successAt
            /\ Desired(r, s).successRun = runs[r].states[s].successRun
        BY <3>2, <3>5 DEF Desired, Promoted, PromoteState, State
      <4>2. ClockShown(Desired(r, s), s)
        BY <2>3, <3>1, <3>2, <4>1 DEF ClockShown
      <4>. QED
        BY <3>1, <3>3, <4>2
    <3>. QED
      BY <3>4, <3>5
  <2>. QED
    BY <2>2, <2>3, <2>4 DEF ClockIsAnAcquisition
<1>. QED
  BY <1>1, AlwaysIInv, PTL

\* No run leaves a clock behind that of the main it was started from.
THEOREM ClocksNeverBehindMain == Spec => []ClockIsNotBehindMain
<1>1. IInv => ClockIsNotBehindMain
  <2>. SUFFICES ASSUME IInv, NEW r \in DOMAIN runs, NEW s \in Sources,
                       runs[r].states[s] # None
                PROVE  runs[r].states[s].successAt >= Base(r).state[s].successAt
    BY DEF ClockIsNotBehindMain
  <2>1. EvaluatedInv(r, s)
    BY DEF IInv, RunInv
  <2>2. runs[r].states[s].successAt \in Nat /\ Base(r).state[s].successAt \in Nat
    <3>1. /\ ProposalTypeOK /\ runs[r] \in RunRecord /\ Base(r) \in Tree
      BY RunsAndCommits DEF IInv, CommitsInv, Base
    <3>2. runs[r].states[s] \in State /\ Base(r).state[s] \in State
      BY <3>1 DEF RunRecord, Tree
    <3>. QED
      BY <3>2 DEF State
  <2>. QED
    BY <2>1, <2>2 DEF EvaluatedInv
<1>. QED
  BY <1>1, AlwaysIInv, PTL

-----------------------------------------------------------------------------
(* How far the next proposal comes: a run that starts from a main with a    *)
(* receipt is refused by the receipt its branch inherits.                   *)

LaterRunsOpenNothing ==
    \A r \in DOMAIN runs : Base(r).receipt # 0 => pulls[r] = "none"

FirstReceiptStays ==
    [][Main.receipt # 0 => Main.receipt' = Main.receipt]_vars

\* Whatever is merged, it brings the receipt that main has, or the first.
LEMMA MergeBringsTheReceipt ==
    ASSUME IInv, NEW r \in DOMAIN runs, MergePullRequest(r), Main.receipt # 0
    PROVE  Main.receipt' = Main.receipt
<1>1. /\ ProposalTypeOK /\ Len(commits) \in Nat /\ Base(r).receipt = 0
      /\ branches[r].receipt = r /\ r # 0
  BY OpenFacts DEF MergePullRequest
<1>2. Main.receipt = r
  <2>1. CleanMerge(Base(r).receipt, Main.receipt, branches[r].receipt)
    BY DEF MergePullRequest
  <2>. QED
    BY <1>1, <2>1 DEF CleanMerge
<1>3. PICK c \in Tree : commits' = Append(commits, c) /\ c.receipt = r
  BY MergedCommit
<1>4. /\ Len(commits') = Len(commits) + 1
      /\ commits'[Len(commits) + 1] = c
  BY <1>1, <1>3, AppendedSequence DEF ProposalTypeOK
<1>5. Main' = c
  BY <1>4 DEF Main
<1>. QED
  BY <1>2, <1>3, <1>5

LEMMA OnlyMergesCommit ==
    ASSUME [Next]_vars, \A r \in DOMAIN runs : ~MergePullRequest(r)
    PROVE  UNCHANGED commits
<1>1. \A kind : StartRun(kind) => UNCHANGED commits
  BY Zenon DEF StartRun, repository
<1>2. \A r, s : Acquire(r, s) \/ Refresh(r, s) \/ PutState(r, s) => UNCHANGED commits
  BY Zenon DEF Acquire, Refresh, PutState, repository
<1>3. \A r : SourceFails(r) \/ EnsureBranch(r) \/ PutReceipt(r) \/ OpenPullRequest(r)
                => UNCHANGED commits
  BY Zenon DEF SourceFails, EnsureBranch, PutReceipt, OpenPullRequest, repository
<1>4. \A r : ProposalBranchIsGone(r) \/ CheckPromotion(r) \/ ComparePaths(r)
                \/ JobDies(r) \/ RerunJob(r) \/ ClosePullRequest(r)
                => UNCHANGED commits
  BY Zenon DEF ProposalBranchIsGone, CheckPromotion, ComparePaths, JobDies, RerunJob,
               ClosePullRequest, repository
<1>5. UNCHANGED vars => UNCHANGED commits
  BY DEF vars, repository
<1>6. ASSUME NEW r \in DOMAIN runs,
             \/ \E s \in Sources : Acquire(r, s) \/ Refresh(r, s)
             \/ SourceFails(r)
             \/ EnsureBranch(r) \/ PutReceipt(r) \/ OpenPullRequest(r)
             \/ ProposalBranchIsGone(r)
             \/ CheckPromotion(r) \/ ComparePaths(r)
             \/ \E s \in Sources : PutState(r, s)
             \/ JobDies(r) \/ RerunJob(r)
             \/ MergePullRequest(r) \/ ClosePullRequest(r)
      PROVE  UNCHANGED commits
  <2>1. CASE \E s \in Sources : Acquire(r, s) \/ Refresh(r, s) \/ PutState(r, s)
    BY Zenon, <1>2, <2>1
  <2>2. CASE SourceFails(r) \/ EnsureBranch(r) \/ PutReceipt(r) \/ OpenPullRequest(r)
    BY Zenon, <1>3, <2>2
  <2>3. CASE \/ ProposalBranchIsGone(r) \/ CheckPromotion(r) \/ ComparePaths(r)
             \/ JobDies(r) \/ RerunJob(r) \/ ClosePullRequest(r)
    BY <1>4, <2>3
  <2>4. ~MergePullRequest(r)
    OBVIOUS
  <2>. QED
    BY Zenon, <1>6, <2>1, <2>2, <2>3, <2>4
<1>. QED
  BY Zenon, <1>1, <1>5, <1>6 DEF Next

\* A run that starts from a main with a receipt never opens a pull request,
\* so the changes it carries are reviewed by nobody.
THEOREM LaterRunsAreRefused == Spec => []LaterRunsOpenNothing
<1>1. ASSUME IInv, NEW r \in DOMAIN runs, Base(r).receipt # 0
      PROVE  pulls[r] = "none"
  <2>1. r \in RunIds
    BY <1>1, RunsAndCommits DEF IInv
  <2>. QED
    BY <1>1, <2>1 DEF IInv, BranchInv
<1>2. IInv => LaterRunsOpenNothing
  BY <1>1 DEF LaterRunsOpenNothing
<1>. QED
  BY <1>2, AlwaysIInv, PTL

\* Main keeps the receipt of its first merged proposal for ever: runs that
\* started before it conflict with it, and those after it propose nothing.
THEOREM OneReceiptForEver == Spec => FirstReceiptStays
<1>1. ASSUME IInv, [Next]_vars, Main.receipt # 0
      PROVE  Main.receipt' = Main.receipt
  <2>1. CASE \E r \in DOMAIN runs : MergePullRequest(r)
    BY <1>1, <2>1, MergeBringsTheReceipt
  <2>2. CASE \A r \in DOMAIN runs : ~MergePullRequest(r)
    BY <1>1, <2>2, OnlyMergesCommit DEF Main
  <2>. QED
    BY <2>1, <2>2
<1>2. IInv /\ [Next]_vars => (Main.receipt # 0 => Main.receipt' = Main.receipt)
  BY <1>1
<1>. QED
  BY <1>2, AlwaysIInv, PTL DEF Spec, FirstReceiptStays
=============================================================================
