------------------------- MODULE RefreshHealthProofs -------------------------
(***************************************************************************)
(* Proofs about the daily health of the source refreshes: the types, when a *)
(* source is reported overdue, and what the report never hides.             *)
(***************************************************************************)
EXTENDS RefreshHealth, TLAPS, FiniteSetTheorems, SequenceTheorems,
        NaturalsInduction, WellFoundedInduction

-----------------------------------------------------------------------------
(* The inductive invariant: what a run has at each phase, whose completion a*)
(* clock shows, and what the runs of one source know of one another.        *)

Off(rs) == {q \in DOMAIN rs : SourceOf(rs[q].kind) = "off"}
Ongoing(rs, q) == rs[q].phase \in {"acquiring", "refreshing"}
Successes(rs) == {q \in Off(rs) : rs[q].phase = "success"}
Full(rs) == {q \in Successes(rs) : rs[q].kind # "fixture"}

\* What a run has once it acquired, and once it succeeded.
SoundRun(run, day) ==
    /\ run.at \in 0..day
    /\ run.phase \in {"refreshing", "success"} =>
           /\ run.at # 0
           /\ SourceOf(run.kind) = "off" => run.evidence \in Evidences
    /\ run.phase = "success" => run.state # None
    /\ run.phase = "success" /\ run.kind # "fixture" =>
           run.state.successAt = run.at

\* The clock shows the completion of a full acquisition, or none.
Shows(rs, at) == at # 0 => \E q \in Full(rs) : rs[q].at = at

\* A run either overlapped one before it or found it ended; if that one
\* succeeded, then with a snapshot that is no newer.
Follows(rs, r, q) ==
    /\ Ongoing(rs, q) => q \in rs[r].overlaps
    /\ /\ rs[r].phase \in {"refreshing", "success"}
       /\ q \in Full(rs) /\ q \notin rs[r].overlaps
       => rs[q].at <= rs[r].at

\* The clock of a successful run is not behind a full run before it, as long
\* as the artifacts of that one are kept and listed and no successful run
\* overlapped it.
Near(rs, q) == Len(rs) < q + LocatorWindow

Overlapped(rs, q) == \E r \in Successes(rs) : q \in rs[r].overlaps

CaughtUp(rs, day, r, q) ==
    q <= r /\ Near(rs, q) /\ day < rs[q].at + Retention /\ ~Overlapped(rs, q) =>
        rs[q].at <= rs[r].state.successAt

HistoryOK(rs, day) ==
    /\ \A r \in DOMAIN rs : SoundRun(rs[r], day)
    /\ \A r \in DOMAIN rs : Shows(rs, rs[r].base.successAt)
    /\ \A r \in Successes(rs) : Shows(rs, rs[r].state.successAt)
    /\ \A r, q \in Off(rs) : q < r => Follows(rs, r, q)
    /\ \A r \in Successes(rs), q \in Full(rs) : CaughtUp(rs, day, r, q)

IInv ==
    /\ HealthTypeOK
    /\ HistoryOK(runs, now)
    /\ Shows(runs, main.successAt) /\ Shows(runs, health.base.successAt)
    /\ health.located \in Successes(runs) \cup {0}

-----------------------------------------------------------------------------
(* Sequences of runs, and the greatest of a set of run numbers.             *)

LEMMA RunsAreNumbered ==
    ASSUME NEW rs \in Seq(RunRecord)
    PROVE  /\ Len(rs) \in Nat /\ DOMAIN rs = 1..Len(rs)
           /\ \A r \in DOMAIN rs : rs[r] \in RunRecord
           /\ Off(rs) \subseteq DOMAIN rs /\ DOMAIN rs \subseteq Nat
           /\ Full(rs) \subseteq Successes(rs) /\ Successes(rs) \subseteq Off(rs)
BY LenProperties DEF Off, Successes, Full

LEMMA Appended ==
    ASSUME NEW rs \in Seq(RunRecord), NEW run \in RunRecord
    PROVE  /\ Append(rs, run) \in Seq(RunRecord)
           /\ Len(Append(rs, run)) = Len(rs) + 1
           /\ DOMAIN Append(rs, run) = 1..(Len(rs) + 1)
           /\ \A r \in DOMAIN rs : Append(rs, run)[r] = rs[r]
           /\ Append(rs, run)[Len(rs) + 1] = run
<1>1. DOMAIN rs = 1..Len(rs) /\ Len(rs) \in Nat
  BY RunsAreNumbered
<1>2. /\ Append(rs, run) \in Seq(RunRecord)
      /\ Len(Append(rs, run)) = Len(rs) + 1
      /\ \A r \in 1..Len(rs) : Append(rs, run)[r] = rs[r]
      /\ Append(rs, run)[Len(rs) + 1] = run
  BY AppendProperties
<1>3. DOMAIN Append(rs, run) = 1..Len(Append(rs, run))
  BY <1>2, RunsAreNumbered
<1>. QED
  BY <1>1, <1>2, <1>3

LEMMA Updated ==
    ASSUME NEW rs \in Seq(RunRecord), NEW r \in DOMAIN rs, NEW run \in RunRecord
    PROVE  LET new == [rs EXCEPT ![r] = run]
           IN  /\ new \in Seq(RunRecord) /\ Len(new) = Len(rs)
               /\ DOMAIN new = DOMAIN rs /\ new[r] = run
               /\ \A q \in DOMAIN rs \ {r} : new[q] = rs[q]
<1>. DEFINE new == [rs EXCEPT ![r] = run]
<1>1. r \in 1..Len(rs)
  BY RunsAreNumbered
<1>2. new \in Seq(RunRecord) /\ Len(new) = Len(rs)
  BY <1>1, ExceptSeq
<1>3. DOMAIN new = DOMAIN rs /\ new[r] = run /\ \A q \in DOMAIN rs \ {r} : new[q] = rs[q]
  OBVIOUS
<1>. QED
  BY <1>2, <1>3

Smaller == {p \in Nat \X Nat : p[1] < p[2]}

LEMMA LeastNumber ==
    ASSUME NEW S \in SUBSET Nat, S # {}
    PROVE  \E s \in S : \A t \in S : s <= t
<1>1. IsWellFoundedOn(Smaller, Nat)
  BY NatLessThanWellFounded DEF OpToRel, Smaller
<1>2. PICK s \in S : \A t \in S : <<t, s>> \notin Smaller
  BY <1>1, WFMin
<1>3. \A t \in S : ~(t < s)
  BY <1>2 DEF Smaller
<1>. QED
  BY <1>3

LEMMA GreatestNumber ==
    ASSUME NEW n \in Nat, NEW S \in SUBSET (1..n), S # {}
    PROVE  \E q \in S : \A o \in S : o <= q
<1>. DEFINE T == {n - q : q \in S}
<1>1. T \subseteq Nat /\ T # {}
  <2>1. \A q \in S : q \in 1..n /\ n - q \in Nat
    OBVIOUS
  <2>. QED
    BY <2>1
<1>2. PICK t \in T : \A u \in T : t <= u
  <2>. HIDE DEF T
  <2>. QED
    BY <1>1, LeastNumber
<1>3. PICK q \in S : t = n - q
  OBVIOUS
<1>4. ASSUME NEW o \in S
      PROVE  o <= q
  <2>1. n - o \in T /\ o \in 1..n /\ q \in 1..n
    OBVIOUS
  <2>2. n - q <= n - o
    BY <1>2, <1>3, <2>1
  <2>. QED
    BY <2>1, <2>2
<1>. QED
  BY <1>4

\* The greatest of some run numbers, and 0 for none.
Greatest(S) == IF S = {} THEN 0 ELSE CHOOSE q \in S : \A o \in S : o <= q

LEMMA GreatestIsThere ==
    ASSUME NEW n \in Nat, NEW S \in SUBSET (1..n)
    PROVE  /\ Greatest(S) \in S \cup {0} /\ Greatest(S) \in 0..n
           /\ Greatest(S) = 0 <=> S = {}
           /\ \A o \in S : o <= Greatest(S)
<1>1. CASE S = {}
  BY <1>1 DEF Greatest
<1>2. CASE S # {}
  <2>1. \E q \in S : \A o \in S : o <= q
    BY <1>2, GreatestNumber
  <2>2. Greatest(S) = CHOOSE q \in S : \A o \in S : o <= q
    BY <1>2 DEF Greatest
  <2>3. PICK g : g = Greatest(S) /\ g \in S /\ \A o \in S : o <= g
    BY <2>1, <2>2
  <2>4. g \in 1..n /\ g # 0 /\ g \in 0..n
    BY <2>3
  <2>. QED
    BY <1>2, <2>3, <2>4
<1>. QED
  BY <1>1, <1>2

LEMMA GreatestIsUnique ==
    ASSUME NEW n \in Nat, NEW S \in SUBSET (1..n),
           NEW q \in S, \A o \in S : o <= q
    PROVE  Greatest(S) = q
<1>1. PICK g : g = Greatest(S) /\ g \in S \cup {0} /\ (g = 0 <=> S = {})
                 /\ \A o \in S : o <= g
  BY GreatestIsThere
<1>2. g \in S /\ g \in Nat /\ q \in Nat
  BY <1>1
<1>3. g <= q /\ q <= g
  BY <1>1, <1>2
<1>. QED
  BY <1>1, <1>2, <1>3

-----------------------------------------------------------------------------
(* What the runs of one source know of one another, as time passes, as runs *)
(* start, and as they end.                                                  *)

LEMMA DayPasses ==
    ASSUME NEW rs \in Seq(RunRecord), NEW day \in Nat, HistoryOK(rs, day)
    PROVE  HistoryOK(rs, day + 1)
<1>1. ASSUME NEW r \in DOMAIN rs
      PROVE  SoundRun(rs[r], day + 1)
  BY DEF HistoryOK, SoundRun
<1>2. ASSUME NEW r \in Successes(rs), NEW q \in Full(rs)
      PROVE  CaughtUp(rs, day + 1, r, q)
  <2>1. q \in DOMAIN rs
    BY RunsAreNumbered
  <2>2. rs[q].at \in Nat /\ CaughtUp(rs, day, r, q)
    BY <2>1 DEF HistoryOK, SoundRun
  <2>3. Retention \in Nat
    BY HealthAssumption
  <2>. QED
    BY <2>2, <2>3 DEF CaughtUp
<1>. QED
  BY <1>1, <1>2 DEF HistoryOK

\* What a clock shows it still shows when more runs succeeded.
LEMMA StillShown ==
    ASSUME NEW rs, NEW new, Full(rs) \subseteq Full(new),
           \A q \in Full(rs) : new[q] = rs[q],
           NEW at, Shows(rs, at)
    PROVE  Shows(new, at)
BY DEF Shows

LEMMA RunStarts ==
    ASSUME NEW rs \in Seq(RunRecord), NEW day \in Nat, HistoryOK(rs, day),
           NEW run \in RunRecord, run.phase = "acquiring", run.at = 0,
           Shows(rs, run.base.successAt),
           SourceOf(run.kind) = "off" =>
               run.overlaps = {q \in Off(rs) : Ongoing(rs, q)}
    PROVE  /\ HistoryOK(Append(rs, run), day)
           /\ Full(Append(rs, run)) = Full(rs)
           /\ Successes(Append(rs, run)) = Successes(rs)
           /\ \A q \in DOMAIN rs : Append(rs, run)[q] = rs[q]
<1>. DEFINE new == Append(rs, run)
            n == Len(rs) + 1
<1>1. /\ DOMAIN rs = 1..Len(rs) /\ Len(rs) \in Nat
      /\ DOMAIN new = 1..n /\ new[n] = run
      /\ \A q \in DOMAIN rs : new[q] = rs[q]
  BY RunsAreNumbered, Appended
<1>2. /\ DOMAIN new = DOMAIN rs \cup {n} /\ n \notin DOMAIN rs
      /\ \A q \in DOMAIN rs : q < n
  BY <1>1
<1>. HIDE DEF new, n
<1>3. Off(rs) \subseteq Off(new) /\ Off(new) \subseteq Off(rs) \cup {n}
  BY <1>1, <1>2 DEF Off
<1>4. Successes(new) = Successes(rs) /\ Full(new) = Full(rs)
  BY <1>1, <1>2, <1>3 DEF Off, Successes, Full
<1>5. \A q \in Full(rs) : new[q] = rs[q]
  BY <1>1, RunsAreNumbered
<1>6. \A at : Shows(rs, at) => Shows(new, at)
  BY <1>4, <1>5, StillShown
<1>7. ASSUME NEW r \in DOMAIN new
      PROVE  SoundRun(new[r], day) /\ Shows(new, new[r].base.successAt)
  <2>1. CASE r = n
    BY <1>1, <1>6, <2>1 DEF SoundRun
  <2>2. CASE r \in DOMAIN rs
    BY <1>1, <1>6, <2>2 DEF HistoryOK
  <2>. QED
    BY <1>2, <2>1, <2>2
<1>8. ASSUME NEW r \in Successes(new)
      PROVE  Shows(new, new[r].state.successAt)
  <2>1. r \in Successes(rs) /\ new[r] = rs[r]
    BY <1>1, <1>4, RunsAreNumbered
  <2>. QED
    BY <1>6, <2>1 DEF HistoryOK
<1>9. ASSUME NEW r \in Off(new), NEW q \in Off(new), q < r
      PROVE  Follows(new, r, q)
  <2>1. \A o \in DOMAIN new : o <= n /\ o \in Nat
    BY <1>1, <1>2
  <2>2. q \in Off(rs) /\ q \in DOMAIN rs /\ new[q] = rs[q]
    <3>1. q \in DOMAIN new /\ r \in DOMAIN new
      BY DEF Off
    <3>2. q # n
      BY <1>1, <1>9, <2>1, <3>1
    <3>. QED
      BY <1>1, <1>3, <3>2 DEF Off
  <2>3. CASE r = n
    <3>1. SourceOf(run.kind) = "off"
      BY <1>1, <2>3 DEF Off
    <3>. QED
      BY <1>1, <2>2, <2>3, <3>1 DEF Follows, Ongoing
  <2>4. CASE r \in Off(rs)
    <3>1. new[r] = rs[r] /\ Follows(rs, r, q)
      BY <1>1, <1>9, <2>2, <2>4 DEF HistoryOK, Off
    <3>. QED
      BY <1>4, <2>2, <3>1 DEF Follows, Ongoing
  <2>. QED
    BY <1>3, <2>3, <2>4
<1>10. ASSUME NEW r \in Successes(new), NEW q \in Full(new)
       PROVE  CaughtUp(new, day, r, q)
  <2>1. /\ r \in Successes(rs) /\ q \in Full(rs)
        /\ \A o \in Successes(rs) : new[o] = rs[o]
    BY <1>1, <1>4, RunsAreNumbered
  <2>2. new[r] = rs[r] /\ new[q] = rs[q] /\ CaughtUp(rs, day, r, q)
    BY <1>5, <2>1 DEF HistoryOK
  <2>3. Overlapped(new, q) <=> Overlapped(rs, q)
    BY <1>4, <2>1 DEF Overlapped
  <2>4. Near(new, q) => Near(rs, q)
    <3>1. q \in Nat /\ Len(new) = Len(rs) + 1
      BY <2>1, RunsAreNumbered, Appended DEF new
    <3>. QED
      BY <1>1, <3>1, HealthAssumption DEF Near
  <2>. QED
    BY <2>2, <2>3, <2>4 DEF CaughtUp
<1>11. HistoryOK(new, day)
  BY <1>7, <1>8, <1>9, <1>10 DEF HistoryOK
<1>. QED
  BY <1>1, <1>4, <1>11 DEF new

\* A run under way takes a step.
LEMMA RunUpdated ==
    ASSUME NEW rs \in Seq(RunRecord), NEW r \in DOMAIN rs, Ongoing(rs, r),
           NEW run \in RunRecord, run.kind = rs[r].kind
    PROVE  LET new == [rs EXCEPT ![r] = run]
           IN  /\ new \in Seq(RunRecord) /\ Len(new) = Len(rs)
               /\ DOMAIN new = DOMAIN rs /\ new[r] = run
               /\ \A q \in DOMAIN rs \ {r} : new[q] = rs[q]
               /\ Off(new) = Off(rs)
               /\ r \notin Successes(rs) /\ r \notin Full(rs)
               /\ \A q \in Off(rs) \ {r} :
                      (q \in Successes(new) <=> q \in Successes(rs)) /\
                      (q \in Full(new) <=> q \in Full(rs))
<1>. DEFINE new == [rs EXCEPT ![r] = run]
<1>1. /\ new \in Seq(RunRecord) /\ Len(new) = Len(rs)
      /\ DOMAIN new = DOMAIN rs /\ new[r] = run
      /\ \A q \in DOMAIN rs \ {r} : new[q] = rs[q]
  BY Updated
<1>. HIDE DEF new
<1>2. Off(new) = Off(rs)
  BY <1>1 DEF Off
<1>3. r \notin Successes(rs) /\ r \notin Full(rs)
  BY DEF Ongoing, Successes, Full
<1>4. \A q \in Off(rs) \ {r} : q \in DOMAIN rs /\ new[q] = rs[q]
  BY <1>1 DEF Off
<1>5. \A q \in Off(rs) \ {r} :
        (q \in Successes(new) <=> q \in Successes(rs)) /\
        (q \in Full(new) <=> q \in Full(rs))
  BY <1>2, <1>4 DEF Successes, Full
<1>. QED
  BY <1>1, <1>2, <1>3, <1>5 DEF new

LEMMA RunMoves ==
    ASSUME NEW rs \in Seq(RunRecord), NEW day \in Nat, HistoryOK(rs, day),
           NEW r \in DOMAIN rs, Ongoing(rs, r),
           NEW run \in RunRecord, run.kind = rs[r].kind, run.base = rs[r].base,
           run.overlaps = rs[r].overlaps, run.phase \in {"refreshing", "failure"},
           SoundRun(run, day), run.phase = "refreshing" => run.at = day
    PROVE  LET new == [rs EXCEPT ![r] = run]
           IN  /\ HistoryOK(new, day)
               /\ Full(new) = Full(rs) /\ Successes(new) = Successes(rs)
               /\ \A q \in Full(rs) : new[q] = rs[q]
<1>. DEFINE new == [rs EXCEPT ![r] = run]
<1>1. /\ DOMAIN new = DOMAIN rs /\ new[r] = run /\ Len(new) = Len(rs)
      /\ \A q \in DOMAIN rs \ {r} : new[q] = rs[q]
      /\ Off(new) = Off(rs) /\ Off(rs) \subseteq DOMAIN rs
      /\ r \notin Successes(rs) /\ r \notin Full(rs)
      /\ \A q \in Off(rs) \ {r} :
             (q \in Successes(new) <=> q \in Successes(rs)) /\
             (q \in Full(new) <=> q \in Full(rs))
  BY RunUpdated, RunsAreNumbered
<1>. HIDE DEF new
<1>2. r \notin Successes(new) /\ r \notin Full(new)
  BY <1>1 DEF Successes, Full
<1>3. Successes(new) = Successes(rs) /\ Full(new) = Full(rs)
  <2>1. /\ Successes(new) \subseteq Off(rs) /\ Full(new) \subseteq Off(rs)
        /\ Successes(rs) \subseteq Off(rs) /\ Full(rs) \subseteq Off(rs)
    BY <1>1 DEF Successes, Full
  <2>2. \A q : q \in Successes(new) <=> q \in Successes(rs)
    BY <1>1, <1>2, <2>1
  <2>3. \A q : q \in Full(new) <=> q \in Full(rs)
    BY <1>1, <1>2, <2>1
  <2>. QED
    BY <2>2, <2>3
<1>4. \A q \in Successes(rs) : q \in DOMAIN rs /\ new[q] = rs[q]
  BY <1>1, RunsAreNumbered
<1>5. \A q \in Full(rs) : q \in Successes(rs) /\ new[q] = rs[q]
  BY <1>4, RunsAreNumbered
<1>6. \A at : Shows(rs, at) => Shows(new, at)
  BY <1>3, <1>5, StillShown
<1>7. ASSUME NEW o \in DOMAIN new
      PROVE  SoundRun(new[o], day) /\ Shows(new, new[o].base.successAt)
  <2>1. Shows(rs, rs[o].base.successAt) /\ SoundRun(rs[o], day)
    BY <1>1 DEF HistoryOK
  <2>2. CASE o = r
    BY <1>1, <1>6, <2>1, <2>2
  <2>3. CASE o # r
    BY <1>1, <1>6, <2>1, <2>3
  <2>. QED
    BY <2>2, <2>3
<1>8. ASSUME NEW o \in Successes(new)
      PROVE  Shows(new, new[o].state.successAt)
  BY <1>3, <1>4, <1>6 DEF HistoryOK
<1>9. ASSUME NEW o \in Off(new), NEW q \in Off(new), q < o
      PROVE  Follows(new, o, q)
  <2>1. o \in DOMAIN rs /\ q \in DOMAIN rs /\ Follows(rs, o, q)
    BY <1>1, <1>9 DEF HistoryOK
  <2>2. Ongoing(new, q) => Ongoing(rs, q)
    BY <1>1, <2>1 DEF Ongoing
  <2>3. new[o].overlaps = rs[o].overlaps
    BY <1>1, <2>1
  <2>4. ASSUME new[o].phase \in {"refreshing", "success"},
               q \in Full(new), q \notin new[o].overlaps
        PROVE  new[q].at <= new[o].at
    <3>1. q \in Full(rs) /\ new[q] = rs[q]
      BY <1>3, <1>5, <2>4
    <3>2. CASE o = r
      <4>1. rs[q].at \in 0..day /\ new[o].at = day
        BY <1>1, <2>1, <2>4, <3>2 DEF HistoryOK, SoundRun
      <4>. QED
        BY <3>1, <4>1
    <3>3. CASE o # r
      <4>1. new[o] = rs[o]
        BY <1>1, <2>1, <3>3
      <4>. QED
        BY <2>1, <2>3, <2>4, <3>1, <4>1 DEF Follows
    <3>. QED
      BY <3>2, <3>3
  <2>. QED
    BY <2>1, <2>2, <2>3, <2>4 DEF Follows
<1>10. ASSUME NEW o \in Successes(new), NEW q \in Full(new)
       PROVE  CaughtUp(new, day, o, q)
  <2>1. new[o] = rs[o] /\ new[q] = rs[q] /\ CaughtUp(rs, day, o, q)
    BY <1>3, <1>4, <1>5 DEF HistoryOK
  <2>2. Overlapped(new, q) <=> Overlapped(rs, q)
    BY <1>3, <1>4 DEF Overlapped
  <2>3. Near(new, q) <=> Near(rs, q)
    BY <1>1 DEF Near
  <2>. QED
    BY <2>1, <2>2, <2>3 DEF CaughtUp
<1>11. HistoryOK(new, day)
  BY <1>7, <1>8, <1>9, <1>10 DEF HistoryOK
<1>. QED
  BY <1>3, <1>5, <1>11 DEF new

\* The clock that the run of this record leaves shows a full acquisition, and
\* that of a fixture is not behind any full run that it could have known.
LeavesClock(rs, day, r, run) ==
    /\ Shows([rs EXCEPT ![r] = run], run.state.successAt)
    /\ run.state.successAt \in Nat
    /\ run.kind = "fixture" =>
           \A q \in Full(rs) :
               /\ q < r /\ Near(rs, q) /\ day < rs[q].at + Retention
               /\ ~Overlapped(rs, q)
               => rs[q].at <= run.state.successAt

\* The record of a run that was refreshing and succeeds.
Completes(rs, day, r, run) ==
    /\ rs[r].phase = "refreshing" /\ run.phase = "success"
    /\ run.kind = rs[r].kind /\ run.base = rs[r].base
    /\ run.overlaps = rs[r].overlaps /\ run.at = rs[r].at
    /\ SoundRun(run, day)
    /\ r \in Off(rs) => LeavesClock(rs, day, r, run)

\* More runs have succeeded, and those that had are the same.
Extends(new, rs) ==
    /\ Full(rs) \subseteq Full(new) /\ Successes(rs) \subseteq Successes(new)
    /\ \A q \in Full(rs) : new[q] = rs[q]

LEMMA RunSucceeds ==
    ASSUME NEW rs \in Seq(RunRecord), NEW day \in Nat, HistoryOK(rs, day),
           NEW r \in DOMAIN rs, NEW run \in RunRecord, Completes(rs, day, r, run)
    PROVE  /\ HistoryOK([rs EXCEPT ![r] = run], day)
           /\ Extends([rs EXCEPT ![r] = run], rs)
<1>. DEFINE new == [rs EXCEPT ![r] = run]
<1>. USE DEF Completes
<1>0. Ongoing(rs, r)
  BY DEF Ongoing
<1>1. /\ DOMAIN new = DOMAIN rs /\ new[r] = run /\ Len(new) = Len(rs)
      /\ \A q \in DOMAIN rs \ {r} : new[q] = rs[q]
      /\ Off(new) = Off(rs) /\ Off(rs) \subseteq DOMAIN rs
      /\ r \notin Successes(rs) /\ r \notin Full(rs)
      /\ \A q \in Off(rs) \ {r} :
             (q \in Successes(new) <=> q \in Successes(rs)) /\
             (q \in Full(new) <=> q \in Full(rs))
  BY <1>0, RunUpdated, RunsAreNumbered
<1>2. r \in Off(rs) =>
          /\ Shows(new, run.state.successAt) /\ run.state.successAt \in Nat
          /\ run.kind = "fixture" =>
                 \A q \in Full(rs) :
                     /\ q < r /\ Near(rs, q) /\ day < rs[q].at + Retention
                     /\ ~Overlapped(rs, q)
                     => rs[q].at <= run.state.successAt
  BY DEF LeavesClock
<1>. HIDE DEF new
<1>3. /\ Successes(new) \subseteq Off(rs) /\ Full(new) \subseteq Successes(new)
      /\ Successes(rs) \subseteq Off(rs) /\ Full(rs) \subseteq Successes(rs)
  BY <1>1 DEF Successes, Full
<1>4. /\ Successes(rs) \subseteq Successes(new) /\ Full(rs) \subseteq Full(new)
      /\ Successes(new) \subseteq Successes(rs) \cup {r}
      /\ Full(new) \subseteq Full(rs) \cup {r}
  BY <1>1, <1>3
<1>5. \A q \in Successes(rs) : q \in DOMAIN rs /\ q # r /\ new[q] = rs[q]
  BY <1>1, <1>3
<1>6. \A q \in Full(rs) : new[q] = rs[q]
  BY <1>3, <1>5
<1>7. \A at : Shows(rs, at) => Shows(new, at)
  BY <1>4, <1>6, StillShown
<1>8. ASSUME NEW o \in DOMAIN new
      PROVE  SoundRun(new[o], day) /\ Shows(new, new[o].base.successAt)
  <2>1. Shows(rs, rs[o].base.successAt) /\ SoundRun(rs[o], day)
    BY <1>1 DEF HistoryOK
  <2>2. CASE o = r
    BY <1>1, <1>7, <2>1, <2>2
  <2>3. CASE o # r
    BY <1>1, <1>7, <2>1, <2>3
  <2>. QED
    BY <2>2, <2>3
<1>9. ASSUME NEW o \in Successes(new)
      PROVE  Shows(new, new[o].state.successAt)
  <2>1. CASE o = r
    BY <1>1, <1>2, <1>3, <2>1
  <2>2. CASE o \in Successes(rs)
    BY <1>5, <1>7, <2>2 DEF HistoryOK
  <2>. QED
    BY <1>4, <2>1, <2>2
<1>10. ASSUME NEW o \in Off(new), NEW q \in Off(new), q < o
       PROVE  Follows(new, o, q)
  <2>1. o \in DOMAIN rs /\ q \in DOMAIN rs /\ Follows(rs, o, q)
    BY <1>1, <1>10 DEF HistoryOK
  <2>2. Ongoing(new, q) => Ongoing(rs, q)
    BY <1>0, <1>1, <2>1 DEF Ongoing
  <2>3. new[o].overlaps = rs[o].overlaps /\ new[o].at = rs[o].at
    BY <1>1, <2>1
  <2>4. ASSUME new[o].phase \in {"refreshing", "success"},
               q \in Full(new), q \notin new[o].overlaps
        PROVE  new[q].at <= new[o].at
    <3>1. q # r
      BY <1>0, <2>1, <2>3, <2>4 DEF Follows
    <3>2. q \in Full(rs) /\ new[q] = rs[q]
      BY <1>4, <1>6, <2>4, <3>1
    <3>3. rs[o].phase \in {"refreshing", "success"}
      BY <1>1, <2>1, <2>4
    <3>. QED
      BY <2>1, <2>3, <2>4, <3>2, <3>3 DEF Follows
  <2>. QED
    BY <2>1, <2>2, <2>3, <2>4 DEF Follows
<1>11. ASSUME NEW o \in Successes(new), NEW q \in Full(new)
       PROVE  CaughtUp(new, day, o, q)
  <2>1. SUFFICES ASSUME q <= o, Near(new, q), day < new[q].at + Retention,
                        ~Overlapped(new, q)
                 PROVE  new[q].at <= new[o].state.successAt
    BY DEF CaughtUp
  <2>2. \A x \in Successes(new) : q \notin new[x].overlaps
    BY <2>1 DEF Overlapped
  <2>3. ~Overlapped(rs, q) /\ Near(rs, q)
    BY <1>1, <1>4, <1>5, <2>1, <2>2 DEF Overlapped, Near
  <2>4. o \in DOMAIN rs /\ q \in DOMAIN rs /\ o \in Nat /\ q \in Nat
        /\ o \in Off(rs) /\ q \in Off(rs)
    BY <1>1, <1>3, RunsAreNumbered
  <2>5. CASE q = r
    <3>1. CASE o = r
      <4>1. run.state.successAt = run.at /\ run.at \in Nat
        BY <1>1, <2>5, <3>1 DEF Full, SoundRun
      <4>. QED
        BY <1>1, <2>5, <3>1, <4>1
    <3>2. CASE o # r
      <4>1. q < o /\ Follows(rs, o, q)
        BY <2>1, <2>4, <2>5, <3>2 DEF HistoryOK
      <4>2. q \in rs[o].overlaps /\ new[o] = rs[o]
        BY <1>0, <1>1, <2>4, <2>5, <3>2, <4>1 DEF Follows
      <4>. QED
        BY <2>2, <4>2
    <3>. QED
      BY <3>1, <3>2
  <2>6. CASE q # r
    <3>1. q \in Full(rs) /\ new[q] = rs[q]
      BY <1>4, <1>6, <2>6
    <3>2. CASE o = r
      <4>1. new[o] = run /\ q < r
        BY <1>1, <2>1, <2>4, <2>6, <3>2
      <4>2. CASE run.kind = "fixture"
        BY <1>2, <2>1, <2>3, <2>4, <3>1, <3>2, <4>1, <4>2
      <4>3. CASE run.kind # "fixture"
        <5>1. run.state.successAt = run.at /\ run.at = rs[r].at
          BY <4>3 DEF SoundRun
        <5>2. q \notin rs[r].overlaps /\ Follows(rs, r, q)
          BY <1>1, <2>2, <2>4, <3>2, <4>1 DEF HistoryOK
        <5>3. rs[q].at <= rs[r].at
          BY <3>1, <5>2 DEF Follows
        <5>. QED
          BY <3>1, <4>1, <5>1, <5>3
      <4>. QED
        BY <4>2, <4>3
    <3>3. CASE o # r
      <4>1. o \in Successes(rs) /\ new[o] = rs[o]
        BY <1>4, <1>5, <3>3
      <4>2. CaughtUp(rs, day, o, q)
        BY <3>1, <4>1 DEF HistoryOK
      <4>. QED
        BY <2>1, <2>3, <3>1, <4>1, <4>2 DEF CaughtUp
    <3>. QED
      BY <3>2, <3>3
  <2>. QED
    BY <2>5, <2>6
<1>12. HistoryOK(new, day)
  BY <1>8, <1>9, <1>10, <1>11 DEF HistoryOK
<1>. QED
  BY <1>4, <1>6, <1>12 DEF new, Extends

-----------------------------------------------------------------------------
(* The names of the specification.                                          *)

LEMMA Named ==
    /\ RunsOf("off") = Off(runs) /\ FullRuns = Full(runs)
    /\ \A q : UnderWay(q) <=> Ongoing(runs, q)
    /\ \A s : Latest(s) = Greatest(Listed(s, StatusWindow))
    /\ \A s : LastSuccess(s) =
           Greatest({q \in Listed(s, StatusWindow) : FullSuccess(q)})
    /\ \A s : LocateLatest(s) =
           Greatest({q \in Listed(s, LocatorWindow) :
                        runs[q].phase = "success" /\ Kept(q)})
<1>1. RunsOf("off") = Off(runs)
  BY DEF RunsOf, Off
<1>2. FullRuns = Full(runs)
  BY <1>1 DEF FullRuns, Full, Successes, FullSuccess
<1>3. \A q : UnderWay(q) <=> Ongoing(runs, q)
  BY DEF UnderWay, Ongoing
<1>4. \A s : Latest(s) = Greatest(Listed(s, StatusWindow))
  BY DEF Latest, Greatest
<1>5. \A s : LastSuccess(s) =
          Greatest({q \in Listed(s, StatusWindow) : FullSuccess(q)})
  BY DEF LastSuccess, Greatest
<1>6. \A s : LocateLatest(s) =
          Greatest({q \in Listed(s, LocatorWindow) :
                       runs[q].phase = "success" /\ Kept(q)})
  BY DEF LocateLatest, Greatest
<1>. QED
  BY <1>1, <1>2, <1>3, <1>4, <1>5, <1>6

LEMMA TheRuns ==
    ASSUME HealthTypeOK
    PROVE  /\ runs \in Seq(RunRecord) /\ Len(runs) \in Nat /\ now \in Nat
           /\ DOMAIN runs = 1..Len(runs) /\ DOMAIN runs \subseteq 1..MaxRuns
           /\ MaxRuns \in Nat
           /\ \A s : RunsOf(s) \subseteq 1..Len(runs)
           /\ \A s, n : Listed(s, n) \subseteq RunsOf(s)
           /\ \A r \in DOMAIN runs : runs[r] \in RunRecord
<1>1. runs \in Seq(RunRecord) /\ now \in 1..MaxDays /\ Len(runs) <= MaxRuns
  BY DEF HealthTypeOK
<1>2. MaxDays \in Nat /\ MaxRuns \in Nat
  BY HealthAssumption
<1>3. DOMAIN runs = 1..Len(runs) /\ Len(runs) \in Nat
  BY <1>1, RunsAreNumbered
<1>4. DOMAIN runs \subseteq 1..MaxRuns
  BY <1>1, <1>2, <1>3
<1>. QED
  BY <1>1, <1>2, <1>3, <1>4, RunsAreNumbered DEF RunsOf, Listed

\* locate(): a successful run whose artifacts are kept, and none of those
\* listed is newer.
LEMMA Located ==
    ASSUME HealthTypeOK, NEW s
    PROVE  /\ LocateLatest(s) \in 0..MaxRuns
           /\ LocateLatest(s) # 0 =>
                  /\ LocateLatest(s) \in RunsOf(s)
                  /\ runs[LocateLatest(s)].phase = "success"
                  /\ Kept(LocateLatest(s))
           /\ \A q \in Listed(s, LocatorWindow) :
                  runs[q].phase = "success" /\ Kept(q) =>
                      q <= LocateLatest(s) /\ LocateLatest(s) # 0
<1>. DEFINE S == {q \in Listed(s, LocatorWindow) :
                     runs[q].phase = "success" /\ Kept(q)}
<1>1. S \in SUBSET (1..Len(runs)) /\ Len(runs) \in Nat
  BY TheRuns
<1>2. LocateLatest(s) = Greatest(S)
  BY Named
<1>3. /\ LocateLatest(s) \in S \cup {0} /\ LocateLatest(s) \in 0..Len(runs)
      /\ (LocateLatest(s) = 0 <=> S = {}) /\ \A q \in S : q <= LocateLatest(s)
  <2>. HIDE DEF S
  <2>. QED
    BY <1>1, <1>2, GreatestIsThere
<1>4. LocateLatest(s) \in 0..MaxRuns
  BY <1>3, TheRuns DEF HealthTypeOK
<1>. QED
  BY <1>3, <1>4, TheRuns

-----------------------------------------------------------------------------
(* The clock of a state.                                                    *)

LEMMA MergedClock ==
    ASSUME NEW accepted \in State, NEW operational \in State \cup {None}
    PROVE  /\ MergePreviousState(accepted, operational) \in State
           /\ MergePreviousState(accepted, operational).candidate = accepted.candidate
           /\ MergePreviousState(accepted, operational).successAt >= accepted.successAt
           /\ operational # None =>
                  MergePreviousState(accepted, operational).successAt
                      >= operational.successAt
           /\ \/ MergePreviousState(accepted, operational).successAt = accepted.successAt
              \/ /\ operational # None
                 /\ MergePreviousState(accepted, operational).successAt =
                        operational.successAt
<1>1. CASE operational # None /\ operational.successAt > accepted.successAt
  <2>1. MergePreviousState(accepted, operational) =
          [accepted EXCEPT !.successAt = operational.successAt,
                           !.successRun = operational.successRun]
    BY <1>1 DEF MergePreviousState
  <2>2. operational \in State
    BY <1>1
  <2>. DEFINE merged == [accepted EXCEPT !.successAt = operational.successAt,
                                         !.successRun = operational.successRun]
  <2>3. /\ merged \in State /\ merged.candidate = accepted.candidate
        /\ merged.successAt = operational.successAt
    BY <2>2 DEF State
  <2>4. operational.successAt \in Nat /\ accepted.successAt \in Nat
    BY <2>2 DEF State
  <2>. HIDE DEF merged
  <2>5. MergePreviousState(accepted, operational) = merged
    BY <2>1 DEF merged
  <2>6. merged.successAt >= accepted.successAt /\ merged.successAt >= operational.successAt
    BY <1>1, <2>3, <2>4
  <2>. QED
    BY <1>1, <2>3, <2>5, <2>6
<1>2. CASE ~(operational # None /\ operational.successAt > accepted.successAt)
  <2>1. MergePreviousState(accepted, operational) = accepted
    BY <1>2 DEF MergePreviousState
  <2>2. accepted.successAt \in Nat
    BY DEF State
  <2>3. operational # None =>
            operational.successAt \in Nat /\ operational.successAt <= accepted.successAt
    <3>1. operational # None => operational.successAt \in Nat
      BY DEF State
    <3>. QED
      BY <1>2, <2>2, <3>1
  <2>. QED
    BY <2>1, <2>2, <2>3
<1>. QED
  BY <1>1, <1>2

LEMMA RefreshedState ==
    ASSUME NEW attempt \in Attempt, NEW previous \in State
    PROVE  LET state == ApplyOperationalClock(Evaluate(attempt, previous), attempt)
           IN  /\ state \in State
               /\ state.successAt = IF attempt.complete THEN attempt.at
                                                        ELSE previous.successAt
<1>. DEFINE evaluated == Evaluate(attempt, previous)
<1>1. evaluated \in State /\ evaluated.successAt = previous.successAt
  BY DEF Evaluate, State
<1>. HIDE DEF evaluated
<1>2. attempt.at \in Nat /\ attempt.run \in Nat /\ attempt.complete \in BOOLEAN
  BY DEF Attempt
<1>3. ApplyOperationalClock(evaluated, attempt) \in State
  BY <1>1, <1>2 DEF ApplyOperationalClock, State
<1>4. ApplyOperationalClock(evaluated, attempt).successAt =
        IF attempt.complete THEN attempt.at ELSE previous.successAt
  BY <1>1, <1>2 DEF ApplyOperationalClock, State
<1>. QED
  BY <1>3, <1>4 DEF evaluated

-----------------------------------------------------------------------------
(* Time, and the refresh runs.                                              *)

LEMMA TickStep ==
    ASSUME IInv, Tick
    PROVE  IInv'
<1>1. /\ now < MaxDays /\ now' = now + 1
      /\ UNCHANGED <<runs, main, open, health, deaths>>
  BY DEF Tick
<1>2. HealthTypeOK /\ now \in Nat /\ MaxDays \in Nat /\ runs \in Seq(RunRecord)
  BY TheRuns, HealthAssumption DEF IInv
<1>3. HealthTypeOK'
  <2>1. now' \in 1..MaxDays
    BY <1>1, <1>2
  <2>. QED
    BY <1>1, <1>2, <2>1 DEF HealthTypeOK
<1>4. HistoryOK(runs, now + 1)
  BY <1>2, DayPasses DEF IInv
<1>5. HistoryOK(runs', now')
  BY <1>1, <1>4
<1>. QED
  BY <1>1, <1>3, <1>5 DEF IInv

\* More runs, and nothing else.
LEMMA RunsAlone ==
    ASSUME IInv, UNCHANGED <<now, main, open, health, deaths>>,
           runs' \in Seq(RunRecord), Len(runs') <= MaxRuns,
           HistoryOK(runs', now),
           Full(runs) \subseteq Full(runs'),
           Successes(runs) \subseteq Successes(runs'),
           \A q \in Full(runs) : runs'[q] = runs[q]
    PROVE  IInv'
<1>1. HealthTypeOK'
  BY DEF IInv, HealthTypeOK
<1>2. \A at : Shows(runs, at) => Shows(runs', at)
  BY StillShown
<1>3. /\ Shows(runs', main'.successAt) /\ Shows(runs', health'.base.successAt)
      /\ health'.located \in Successes(runs') \cup {0}
  BY <1>2 DEF IInv
<1>. QED
  BY <1>1, <1>3 DEF IInv

LEMMA StartRefreshStep ==
    ASSUME IInv, NEW kind \in Kinds, StartRefresh(kind)
    PROVE  IInv'
<1>. DEFINE overlaps == {q \in RunsOf(SourceOf(kind)) : UnderWay(q)}
            run == [kind |-> kind, phase |-> "acquiring", base |-> main, at |-> 0,
                    state |-> None, evidence |-> None, overlaps |-> overlaps]
<1>1. /\ Len(runs) < MaxRuns /\ runs' = Append(runs, run)
      /\ UNCHANGED <<now, main, open, health, deaths>>
  BY DEF StartRefresh
<1>2. /\ runs \in Seq(RunRecord) /\ now \in Nat /\ DOMAIN runs \subseteq 1..MaxRuns
      /\ Len(runs) \in Nat /\ MaxRuns \in Nat
  BY TheRuns DEF IInv
<1>3. main \in State
  BY DEF IInv, HealthTypeOK
<1>4. overlaps \in SUBSET (1..MaxRuns)
  BY <1>2 DEF RunsOf
<1>5. SourceOf(kind) = "off" => overlaps = {q \in Off(runs) : Ongoing(runs, q)}
  BY Named
<1>. HIDE DEF overlaps
<1>6. /\ run \in RunRecord /\ run.phase = "acquiring" /\ run.at = 0
      /\ run.base = main /\ run.kind = kind /\ run.overlaps = overlaps
  BY <1>3, <1>4 DEF RunRecord
<1>. HIDE DEF run
<1>7. /\ HistoryOK(Append(runs, run), now)
      /\ Full(Append(runs, run)) = Full(runs)
      /\ Successes(Append(runs, run)) = Successes(runs)
      /\ \A q \in DOMAIN runs : Append(runs, run)[q] = runs[q]
  BY <1>2, <1>5, <1>6, RunStarts DEF IInv
<1>8. runs' \in Seq(RunRecord) /\ Len(runs') <= MaxRuns
  BY <1>1, <1>2, <1>6, Appended
<1>9. Full(runs) \subseteq DOMAIN runs
  BY <1>2, RunsAreNumbered
<1>. QED
  BY <1>1, <1>7, <1>8, <1>9, RunsAlone

LEMMA AcquireStep ==
    ASSUME IInv, NEW r \in DOMAIN runs, Acquire(r)
    PROVE  IInv'
<1>1. PICK evidence \in IF SourceOf(runs[r].kind) = "off" THEN Evidences ELSE {None} :
        runs' = [runs EXCEPT ![r].phase = "refreshing", ![r].at = now,
                             ![r].evidence = evidence]
  BY Zenon DEF Acquire
<1>2. runs[r].phase = "acquiring" /\ UNCHANGED <<now, main, open, health, deaths>>
  BY DEF Acquire
<1>. DEFINE run == [runs[r] EXCEPT !.phase = "refreshing", !.at = now,
                                   !.evidence = evidence]
<1>3. runs \in Seq(RunRecord) /\ now \in Nat /\ runs[r] \in RunRecord /\ now # 0
  BY TheRuns DEF IInv, HealthTypeOK
<1>4. runs' = [runs EXCEPT ![r] = run]
  BY <1>1, <1>3 DEF RunRecord
<1>5. /\ run \in RunRecord /\ run.kind = runs[r].kind /\ run.base = runs[r].base
      /\ run.overlaps = runs[r].overlaps /\ run.phase = "refreshing"
      /\ run.at = now /\ run.evidence = evidence
  BY <1>1, <1>3 DEF RunRecord
<1>. HIDE DEF run
<1>6. SoundRun(run, now)
  BY <1>1, <1>3, <1>5 DEF SoundRun
<1>7. Ongoing(runs, r)
  BY <1>2 DEF Ongoing
<1>8. /\ HistoryOK([runs EXCEPT ![r] = run], now)
      /\ Full([runs EXCEPT ![r] = run]) = Full(runs)
      /\ Successes([runs EXCEPT ![r] = run]) = Successes(runs)
      /\ \A q \in Full(runs) : [runs EXCEPT ![r] = run][q] = runs[q]
  BY <1>3, <1>5, <1>6, <1>7, RunMoves DEF IInv
<1>9. runs' \in Seq(RunRecord) /\ Len(runs') <= MaxRuns
  BY <1>3, <1>4, <1>5, Updated DEF IInv, HealthTypeOK
<1>. QED
  BY <1>2, <1>4, <1>8, <1>9, RunsAlone

LEMMA RefreshFailsStep ==
    ASSUME IInv, NEW r \in DOMAIN runs, RefreshFails(r)
    PROVE  IInv'
<1>. DEFINE run == [runs[r] EXCEPT !.phase = "failure", !.evidence = None, !.at = 0]
<1>1. /\ runs' = [runs EXCEPT ![r].phase = "failure", ![r].evidence = None,
                              ![r].at = 0]
      /\ UnderWay(r) /\ UNCHANGED <<now, main, open, health, deaths>>
  BY DEF RefreshFails
<1>2. runs \in Seq(RunRecord) /\ now \in Nat /\ runs[r] \in RunRecord
  BY TheRuns DEF IInv
<1>3. runs' = [runs EXCEPT ![r] = run]
  BY <1>1, <1>2 DEF RunRecord
<1>4. /\ run \in RunRecord /\ run.kind = runs[r].kind /\ run.base = runs[r].base
      /\ run.overlaps = runs[r].overlaps /\ run.phase = "failure" /\ run.at = 0
  BY <1>2 DEF RunRecord
<1>. HIDE DEF run
<1>5. SoundRun(run, now)
  BY <1>2, <1>4 DEF SoundRun
<1>6. Ongoing(runs, r)
  BY <1>1, Named
<1>7. /\ HistoryOK([runs EXCEPT ![r] = run], now)
      /\ Full([runs EXCEPT ![r] = run]) = Full(runs)
      /\ Successes([runs EXCEPT ![r] = run]) = Successes(runs)
      /\ \A q \in Full(runs) : [runs EXCEPT ![r] = run][q] = runs[q]
  BY <1>2, <1>4, <1>5, <1>6, RunMoves DEF IInv
<1>8. runs' \in Seq(RunRecord) /\ Len(runs') <= MaxRuns
  BY <1>2, <1>3, <1>4, Updated DEF IInv, HealthTypeOK
<1>. QED
  BY <1>1, <1>3, <1>7, <1>8, RunsAlone

LEMMA AttemptIsTyped ==
    ASSUME IInv, NEW r \in DOMAIN runs
    PROVE  /\ Attempted(r) \in Attempt /\ Attempted(r).at = runs[r].at
           /\ Attempted(r).complete <=> runs[r].kind # "fixture"
<1>1. r \in Nat /\ runs[r] \in RunRecord
  BY TheRuns DEF IInv
<1>2. runs[r].at \in Nat
  BY <1>1 DEF RunRecord
<1>3. (CHOOSE c \in Contents : TRUE) \in Contents
  BY HealthAssumption
<1>. QED
  BY <1>1, <1>2, <1>3 DEF Attempted, Attempt

\* The clock a run starts from: that of its base or of an earlier run.
LEMMA PreviousState ==
    ASSUME IInv, NEW r \in DOMAIN runs, NEW operational,
           LET prior == LocateLatest(SourceOf(runs[r].kind))
           IN  operational = IF prior = 0 THEN None ELSE runs[prior].state
    PROVE  /\ MergePreviousState(runs[r].base, operational) \in State
           /\ r \in Off(runs) =>
              LET at == MergePreviousState(runs[r].base, operational).successAt
              IN  /\ Shows(runs, at)
                  /\ \A q \in Full(runs) :
                         /\ Near(runs, q) /\ now < runs[q].at + Retention
                         /\ ~Overlapped(runs, q)
                         => runs[q].at <= at
<1>. DEFINE s == SourceOf(runs[r].kind)
            prior == LocateLatest(s)
            previous == MergePreviousState(runs[r].base, operational)
<1>1. HealthTypeOK /\ HistoryOK(runs, now) /\ runs \in Seq(RunRecord)
  BY TheRuns DEF IInv
<1>2. operational = IF prior = 0 THEN None ELSE runs[prior].state
  OBVIOUS
<1>3. /\ prior # 0 => /\ prior \in RunsOf(s) /\ prior \in DOMAIN runs
                      /\ runs[prior].phase = "success"
      /\ \A q \in Listed(s, LocatorWindow) :
             runs[q].phase = "success" /\ Kept(q) => q <= prior /\ prior # 0
  BY <1>1, Located DEF RunsOf
<1>. HIDE DEF prior
<1>4. runs[r].base \in State
  BY TheRuns DEF IInv, RunRecord
<1>5. operational \in State \cup {None}
  <2>1. prior # 0 => runs[prior] \in RunRecord
    BY <1>1, <1>3, TheRuns
  <2>. QED
    BY <1>2, <2>1 DEF RunRecord
<1>6. /\ previous \in State
      /\ operational # None => previous.successAt >= operational.successAt
      /\ \/ previous.successAt = runs[r].base.successAt
         \/ operational # None /\ previous.successAt = operational.successAt
  BY <1>4, <1>5, MergedClock
<1>. HIDE DEF previous
<1>7. ASSUME r \in Off(runs)
      PROVE  /\ Shows(runs, previous.successAt)
             /\ \A q \in Full(runs) :
                    /\ Near(runs, q) /\ now < runs[q].at + Retention
                    /\ ~Overlapped(runs, q)
                    => runs[q].at <= previous.successAt
  <2>1. s = "off" /\ RunsOf(s) = Off(runs)
    BY <1>7, Named DEF Off
  <2>. HIDE DEF s
  <2>2. prior # 0 => prior \in Successes(runs) /\ operational = runs[prior].state
    BY <1>2, <1>3, <2>1 DEF Successes
  <2>3. Shows(runs, previous.successAt)
    <3>1. Shows(runs, runs[r].base.successAt)
      BY <1>1 DEF HistoryOK
    <3>2. operational # None => Shows(runs, operational.successAt)
      BY <1>1, <1>2, <2>2 DEF HistoryOK
    <3>. QED
      BY <1>6, <3>1, <3>2
  <2>4. ASSUME NEW q \in Full(runs), Near(runs, q),
               now < runs[q].at + Retention, ~Overlapped(runs, q)
        PROVE  runs[q].at <= previous.successAt
    <3>1. q \in Off(runs) /\ runs[q].phase = "success" /\ q \in DOMAIN runs
      BY DEF Full, Successes, Off
    <3>2. prior # 0 /\ q <= prior
      <4>1. q \in Listed(s, LocatorWindow)
        BY <2>1, <2>4, <3>1 DEF Near, Listed
      <4>. QED
        BY <1>3, <2>4, <3>1, <4>1 DEF Kept
    <3>3. runs[q].at <= runs[prior].state.successAt
      BY <1>1, <2>2, <2>4, <3>2 DEF HistoryOK, CaughtUp
    <3>4. operational # None
      BY <1>1, <1>3, <2>2, <3>2 DEF HistoryOK, SoundRun
    <3>5. /\ previous.successAt >= runs[prior].state.successAt
          /\ runs[prior].state \in State
      BY <1>5, <1>6, <2>2, <3>2, <3>4
    <3>6. runs[q].at \in Nat /\ previous.successAt \in Nat
          /\ runs[prior].state.successAt \in Nat
      BY <1>1, <1>6, <3>1, <3>5 DEF HistoryOK, SoundRun, State
    <3>. QED
      BY <3>3, <3>5, <3>6
  <2>. QED
    BY <2>3, <2>4
<1>. QED
  BY <1>6, <1>7 DEF previous

LEMMA RefreshSucceedsStep ==
    ASSUME IInv, NEW r \in DOMAIN runs, RefreshSucceeds(r)
    PROVE  IInv'
<1>. DEFINE prior == LocateLatest(SourceOf(runs[r].kind))
            operational == IF prior = 0 THEN None ELSE runs[prior].state
            previous == MergePreviousState(runs[r].base, operational)
            state == ApplyOperationalClock(Evaluate(Attempted(r), previous),
                                           Attempted(r))
            run == [runs[r] EXCEPT !.phase = "success", !.state = state]
            new == [runs EXCEPT ![r] = run]
<1>1. /\ runs[r].phase = "refreshing"
      /\ runs' = [runs EXCEPT ![r].phase = "success", ![r].state = state]
      /\ UNCHANGED <<now, main, open, health, deaths>>
  BY Zenon DEF RefreshSucceeds
<1>2. /\ previous \in State
      /\ r \in Off(runs) =>
            /\ Shows(runs, previous.successAt)
            /\ \A q \in Full(runs) :
                   /\ Near(runs, q) /\ now < runs[q].at + Retention
                   /\ ~Overlapped(runs, q)
                   => runs[q].at <= previous.successAt
  <2>1. \A x : x = operational =>
          /\ MergePreviousState(runs[r].base, x) \in State
          /\ r \in Off(runs) =>
             LET at == MergePreviousState(runs[r].base, x).successAt
             IN  /\ Shows(runs, at)
                 /\ \A q \in Full(runs) :
                        /\ Near(runs, q) /\ now < runs[q].at + Retention
                        /\ ~Overlapped(runs, q)
                        => runs[q].at <= at
    BY PreviousState
  <2>. HIDE DEF operational
  <2>. QED
    BY <2>1
<1>. HIDE DEF previous, operational, prior
<1>3. /\ state \in State
      /\ state.successAt = IF runs[r].kind # "fixture" THEN runs[r].at
                                                       ELSE previous.successAt
  BY <1>2, AttemptIsTyped, RefreshedState
<1>. HIDE DEF state
<1>4. runs \in Seq(RunRecord) /\ now \in Nat /\ runs[r] \in RunRecord
  BY TheRuns DEF IInv
<1>5. runs' = new
  BY <1>1, <1>4 DEF RunRecord
<1>6. /\ run \in RunRecord /\ run.kind = runs[r].kind /\ run.base = runs[r].base
      /\ run.overlaps = runs[r].overlaps /\ run.phase = "success"
      /\ run.at = runs[r].at /\ run.evidence = runs[r].evidence /\ run.state = state
  BY <1>3, <1>4 DEF RunRecord
<1>. HIDE DEF run
<1>7. SoundRun(run, now)
  <2>1. SoundRun(runs[r], now)
    BY DEF IInv, HistoryOK
  <2>2. state # None
    BY <1>3, HealthAssumption
  <2>. QED
    BY <1>1, <1>3, <1>6, <2>1, <2>2 DEF SoundRun
<1>8. Ongoing(runs, r)
  BY <1>1 DEF Ongoing
<1>9. /\ new \in Seq(RunRecord) /\ Len(new) = Len(runs) /\ new[r] = run
      /\ \A q \in DOMAIN runs \ {r} : new[q] = runs[q]
      /\ Off(new) = Off(runs)
      /\ r \notin Successes(runs) /\ r \notin Full(runs)
      /\ \A q \in Off(runs) \ {r} : q \in Full(new) <=> q \in Full(runs)
  BY <1>4, <1>6, <1>8, RunUpdated
<1>. HIDE DEF new
<1>10. Shows(runs, previous.successAt) => Shows(new, previous.successAt)
  <2>1. Full(runs) \subseteq Off(runs) /\ Off(runs) \subseteq DOMAIN runs
    BY DEF Full, Successes, Off
  <2>2. Full(runs) \subseteq Full(new) /\ \A q \in Full(runs) : new[q] = runs[q]
    BY <1>9, <2>1
  <2>. QED
    BY <2>2, StillShown
<1>11. ASSUME r \in Off(runs)
       PROVE  LeavesClock(runs, now, r, run)
  <2>1. run.state.successAt \in Nat
    BY <1>3, <1>6 DEF State
  <2>2. CASE runs[r].kind = "fixture"
    <3>1. run.state.successAt = previous.successAt
      BY <1>3, <1>6, <2>2
    <3>. QED
      BY <1>2, <1>10, <1>11, <2>1, <3>1 DEF LeavesClock, new
  <2>3. CASE runs[r].kind # "fixture"
    <3>1. r \in Full(new) /\ new[r].at = run.state.successAt
      BY <1>3, <1>6, <1>9, <1>11, <2>3 DEF Full, Successes
    <3>2. Shows(new, run.state.successAt)
      BY <3>1 DEF Shows
    <3>. QED
      BY <1>6, <2>1, <2>3, <3>2 DEF LeavesClock, new
  <2>. QED
    BY <2>2, <2>3
<1>12. HistoryOK(new, now) /\ Extends(new, runs)
  <2>1. Completes(runs, now, r, run)
    BY <1>1, <1>6, <1>7, <1>11 DEF Completes
  <2>2. HistoryOK(runs, now)
    BY DEF IInv
  <2>3. HistoryOK([runs EXCEPT ![r] = run], now) /\ Extends([runs EXCEPT ![r] = run], runs)
    BY <1>4, <1>6, <2>1, <2>2, RunSucceeds
  <2>. QED
    BY <2>3 DEF new
<1>13. Len(new) <= MaxRuns
  BY <1>9 DEF IInv, HealthTypeOK
<1>. QED
  BY <1>1, <1>5, <1>9, <1>12, <1>13, RunsAlone DEF Extends

LEMMA AcceptProposalStep ==
    ASSUME IInv, NEW r \in DOMAIN runs, AcceptProposal(r)
    PROVE  IInv'
<1>1. /\ runs[r].kind = "proposal" /\ runs[r].phase = "success"
      /\ main' = PromoteState(runs[r].state)
      /\ UNCHANGED <<now, runs, open, health, deaths>>
  BY DEF AcceptProposal
<1>2. runs[r] \in RunRecord /\ runs[r].state # None
  BY <1>1, TheRuns DEF IInv, HistoryOK, SoundRun
<1>3. runs[r].state \in State
  BY <1>2 DEF RunRecord
<1>4. /\ main' \in State /\ main'.candidate = None
      /\ main'.successAt = runs[r].state.successAt
  BY <1>1, <1>3 DEF PromoteState, State
<1>5. r \in Successes(runs)
  BY <1>1 DEF Successes, Off, SourceOf
<1>6. Shows(runs, main'.successAt)
  BY <1>4, <1>5 DEF IInv, HistoryOK
<1>7. HealthTypeOK'
  BY <1>1, <1>4 DEF IInv, HealthTypeOK
<1>8. HistoryOK(runs', now') /\ Shows(runs', health'.base.successAt)
      /\ health'.located \in Successes(runs') \cup {0} /\ Shows(runs', main'.successAt)
  BY <1>1, <1>6 DEF IInv
<1>. QED
  BY <1>7, <1>8 DEF IInv

-----------------------------------------------------------------------------
(* The daily health runs.                                                   *)

LEMMA KeysAre ==
    /\ <<"off", "never-acquired">> \in Keys /\ <<"off", "full-overdue">> \in Keys
    /\ <<"off", "attempt">> \in Keys
    /\ \A s \in Sources : <<s, "failure">> \in Keys
    /\ \A reason \in IncidentReasons : <<"off", reason>> \in Keys
<1>1. DOMAIN KeyOrder = 1..10
  BY DEF KeyOrder
<1>2. \A n \in 1..10 : KeyOrder[n] \in Keys
  BY <1>1 DEF Keys
<1>3. /\ KeyOrder[1] = <<"off", "attempt">> /\ KeyOrder[2] = <<"off", "full-overdue">>
      /\ KeyOrder[3] = <<"off", "never-acquired">>
      /\ KeyOrder[4] = <<"off", "certification-expiry">>
      /\ KeyOrder[5] = <<"off", "certification-invalidated">>
      /\ KeyOrder[6] = <<"off", "changed-unreviewed">>
      /\ KeyOrder[7] = <<"off", "source-or-quality-blocker">>
      /\ KeyOrder[8] = <<"off", "stale-ingredients">>
      /\ KeyOrder[9] = <<"off", "failure">> /\ KeyOrder[10] = <<"op", "failure">>
  BY DEF KeyOrder
<1>4. /\ <<"off", "attempt">> \in Keys /\ <<"off", "full-overdue">> \in Keys
      /\ <<"off", "never-acquired">> \in Keys
      /\ <<"off", "failure">> \in Keys /\ <<"op", "failure">> \in Keys
  <2>1. KeyOrder[1] \in Keys /\ KeyOrder[2] \in Keys /\ KeyOrder[3] \in Keys
        /\ KeyOrder[9] \in Keys /\ KeyOrder[10] \in Keys
    BY <1>2
  <2>. QED
    BY <1>3, <2>1
<1>5. /\ <<"off", "certification-expiry">> \in Keys
      /\ <<"off", "certification-invalidated">> \in Keys
      /\ <<"off", "changed-unreviewed">> \in Keys
      /\ <<"off", "source-or-quality-blocker">> \in Keys
      /\ <<"off", "stale-ingredients">> \in Keys
  <2>1. KeyOrder[4] \in Keys /\ KeyOrder[5] \in Keys /\ KeyOrder[6] \in Keys
        /\ KeyOrder[7] \in Keys /\ KeyOrder[8] \in Keys
    BY <1>2
  <2>. QED
    BY <1>3, <2>1
<1>. QED
  BY <1>4, <1>5 DEF Sources, IncidentReasons

LEMMA PlanIsTyped ==
    ASSUME NEW located
    PROVE  BlockerKeys(located) \subseteq Keys
<1>1. WorkflowBlockers \subseteq Keys
  BY KeysAre DEF WorkflowBlockers
<1>2. \A plan : DueKeys(plan) \subseteq Keys
  BY KeysAre DEF DueKeys
<1>3. AttemptKeys(located) \subseteq Keys
  BY KeysAre DEF AttemptKeys
<1>4. \A queue : QueueKeys(queue) \subseteq Keys
  BY KeysAre DEF QueueKeys
<1>. QED
  BY <1>1, <1>2, <1>3, <1>4 DEF BlockerKeys

LEMMA FirstIsThere ==
    ASSUME NEW keys \in SUBSET Keys, keys # {}
    PROVE  First(keys) \in keys
<1>. DEFINE S == {n \in DOMAIN KeyOrder : KeyOrder[n] \in keys}
            IsFirst(n) == KeyOrder[n] \in keys /\ \A m \in 1..(n - 1) : KeyOrder[m] \notin keys
<1>1. DOMAIN KeyOrder = 1..10
  BY DEF KeyOrder
<1>2. S \in SUBSET Nat /\ S # {}
  <2>1. PICK k \in keys : k \in Keys
    OBVIOUS
  <2>2. PICK n \in DOMAIN KeyOrder : KeyOrder[n] = k
    BY <2>1 DEF Keys
  <2>3. n \in S
    BY <2>2
  <2>. QED
    BY <1>1, <2>3
<1>3. PICK n \in S : \A m \in S : n <= m
  <2>. HIDE DEF S
  <2>. QED
    BY <1>2, LeastNumber
<1>4. n \in DOMAIN KeyOrder /\ IsFirst(n)
  <2>1. n \in 1..10 /\ KeyOrder[n] \in keys
    BY <1>1
  <2>2. ASSUME NEW m \in 1..(n - 1), KeyOrder[m] \in keys
        PROVE  FALSE
    <3>1. m \in S
      BY <1>1, <2>1, <2>2
    <3>2. n <= m
      BY <1>3, <3>1
    <3>. QED
      BY <2>1, <3>2
  <2>. QED
    BY <2>1, <2>2
<1>. DEFINE first == CHOOSE m \in DOMAIN KeyOrder : IsFirst(m)
<1>5. IsFirst(first)
  <2>. HIDE DEF IsFirst
  <2>. QED
    BY <1>4
<1>6. First(keys) = KeyOrder[first]
  BY DEF First
<1>. QED
  BY <1>5, <1>6

\* A step of a health run, with the issues it writes.
LEMMA HealthAlone ==
    ASSUME IInv, UNCHANGED <<now, runs, main>>,
           open' \subseteq Keys, deaths' \in 0..MaxDeaths,
           health' \in HealthRecord,
           health'.phase = "writing" => health'.rest \subseteq health'.plan,
           health'.phase = "closing" => health'.rest \cap health'.plan = {},
           Shows(runs, health'.base.successAt),
           health'.located \in Successes(runs) \cup {0}
    PROVE  IInv'
<1>1. HealthTypeOK'
  BY DEF IInv, HealthTypeOK
<1>. QED
  BY <1>1 DEF IInv

LEMMA IdleIsTyped ==
    /\ Idle \in HealthRecord /\ Idle.phase = "idle" /\ Idle.base \in State
    /\ Idle.base.successAt = 0 /\ Idle.located = 0
<1>1. NoLineage \in State /\ NoLineage.successAt = 0
  BY DEF NoLineage, State
<1>2. 0 \in 0..MaxRuns
  BY HealthAssumption
<1>. QED
  BY <1>1, <1>2 DEF Idle, HealthRecord

LEMMA BecomesIdle ==
    ASSUME IInv, UNCHANGED <<now, runs, main, open>>, deaths' \in 0..MaxDeaths,
           health' = Idle
    PROVE  IInv'
<1>1. /\ health' \in HealthRecord /\ health'.phase = "idle"
      /\ health'.base.successAt = 0 /\ health'.located = 0
  BY IdleIsTyped
<1>2. open' \subseteq Keys
  BY DEF IInv, HealthTypeOK
<1>3. Shows(runs, health'.base.successAt)
  BY <1>1 DEF Shows
<1>. QED
  BY <1>1, <1>2, <1>3, HealthAlone

LEMMA HealthFacts ==
    ASSUME IInv
    PROVE  /\ open \subseteq Keys /\ deaths \in 0..MaxDeaths /\ MaxDeaths \in Nat
           /\ health \in HealthRecord /\ Shows(runs, health.base.successAt)
           /\ health.located \in Successes(runs) \cup {0}
           /\ health.phase = "writing" => health.rest \subseteq health.plan
           /\ health.phase = "closing" => health.rest \cap health.plan = {}
BY HealthAssumption DEF IInv, HealthTypeOK

LEMMA StartHealthStep ==
    ASSUME IInv, StartHealth
    PROVE  IInv'
<1>1. /\ UNCHANGED <<now, runs, main, open>>
      /\ deaths' = deaths \/ (deaths < MaxDeaths /\ deaths' = deaths + 1)
      /\ health' = [Idle EXCEPT !.phase = "located", !.base = main,
                                !.located = LocateLatest("off")]
  BY DEF StartHealth
<1>2. LocateLatest("off") \in 0..MaxRuns
      /\ LocateLatest("off") \in Successes(runs) \cup {0}
  BY Located, Named DEF IInv, Successes
<1>3. main \in State /\ Shows(runs, main.successAt)
  BY DEF IInv, HealthTypeOK
<1>4. /\ health' \in HealthRecord /\ health'.phase = "located"
      /\ health'.base = main /\ health'.located = LocateLatest("off")
  BY <1>1, <1>2, <1>3, IdleIsTyped DEF HealthRecord
<1>5. deaths' \in 0..MaxDeaths /\ open' \subseteq Keys
  BY <1>1, HealthFacts
<1>. QED
  BY <1>1, <1>2, <1>3, <1>4, <1>5, HealthAlone

LEMMA BuildReportStep ==
    ASSUME IInv, BuildReport
    PROVE  IInv'
<1>. DEFINE report == [Idle EXCEPT !.phase = "listing",
                                   !.plan = BlockerKeys(health.located)]
<1>1. /\ UNCHANGED <<now, runs, main, open, deaths>>
      /\ health' = Idle \/ health' = report
  BY DEF BuildReport
<1>2. deaths' \in 0..MaxDeaths /\ open' \subseteq Keys
  BY <1>1, HealthFacts
<1>3. CASE health' = Idle
  BY <1>1, <1>2, <1>3, BecomesIdle
<1>4. CASE health' = report
  <2>1. BlockerKeys(health.located) \subseteq Keys
    BY PlanIsTyped
  <2>2. /\ health' \in HealthRecord /\ health'.phase = "listing"
        /\ health'.base.successAt = 0 /\ health'.located = 0
    BY <1>4, <2>1, IdleIsTyped DEF HealthRecord
  <2>3. Shows(runs, health'.base.successAt)
    BY <2>2 DEF Shows
  <2>. QED
    BY <1>1, <1>2, <2>2, <2>3, HealthAlone
<1>. QED
  BY <1>1, <1>3, <1>4

LEMMA ListIssuesStep ==
    ASSUME IInv, ListIssues
    PROVE  IInv'
<1>1. /\ UNCHANGED <<now, runs, main, open, deaths>>
      /\ health' = [health EXCEPT !.phase = "writing", !.seen = open,
                                  !.rest = health.plan]
  BY DEF ListIssues
<1>2. /\ health' \in HealthRecord /\ health'.phase = "writing"
      /\ health'.rest = health'.plan /\ health'.base = health.base
      /\ health'.located = health.located
  BY <1>1, HealthFacts DEF HealthRecord
<1>. QED
  BY <1>1, <1>2, HealthFacts, HealthAlone

LEMMA WriteIssueStep ==
    ASSUME IInv, WriteIssue
    PROVE  IInv'
<1>1. /\ UNCHANGED <<now, runs, main, deaths>>
      /\ health.phase = "writing" /\ health.rest # {}
      /\ open' = open \cup {First(health.rest)}
      /\ health' = [health EXCEPT !.rest = @ \ {First(health.rest)}]
  BY DEF WriteIssue
<1>2. health.rest \subseteq Keys
  BY HealthFacts DEF HealthRecord
<1>3. open' \subseteq Keys
  BY <1>1, <1>2, FirstIsThere, HealthFacts
<1>4. /\ health' \in HealthRecord /\ health'.phase = "writing"
      /\ health'.rest \subseteq health'.plan /\ health'.base = health.base
      /\ health'.located = health.located
  BY <1>1, HealthFacts DEF HealthRecord
<1>. QED
  BY <1>1, <1>3, <1>4, HealthFacts, HealthAlone

LEMMA StartClosingStep ==
    ASSUME IInv, StartClosing
    PROVE  IInv'
<1>1. /\ UNCHANGED <<now, runs, main, open, deaths>>
      /\ health' = [health EXCEPT !.phase = "closing",
                                  !.rest = health.seen \ health.plan]
  BY DEF StartClosing
<1>2. /\ health' \in HealthRecord /\ health'.phase = "closing"
      /\ health'.rest \cap health'.plan = {} /\ health'.base = health.base
      /\ health'.located = health.located
  BY <1>1, HealthFacts DEF HealthRecord
<1>. QED
  BY <1>1, <1>2, HealthFacts, HealthAlone

LEMMA CloseIssueStep ==
    ASSUME IInv, NEW k \in health.rest, CloseIssue(k)
    PROVE  IInv'
<1>1. /\ UNCHANGED <<now, runs, main, deaths>>
      /\ health.phase = "closing" /\ open' = open \ {k}
      /\ health' = [health EXCEPT !.rest = @ \ {k}]
  BY DEF CloseIssue
<1>2. /\ health' \in HealthRecord /\ health'.phase = "closing"
      /\ health'.rest \cap health'.plan = {} /\ health'.base = health.base
      /\ health'.located = health.located
  BY <1>1, HealthFacts DEF HealthRecord
<1>3. open' \subseteq Keys
  BY <1>1, HealthFacts
<1>. QED
  BY <1>1, <1>2, <1>3, HealthFacts, HealthAlone

LEMMA HealthEndsStep ==
    ASSUME IInv, HealthEnds \/ HealthDies
    PROVE  IInv'
<1>1. /\ UNCHANGED <<now, runs, main, open>> /\ health' = Idle
      /\ deaths' = deaths \/ (deaths < MaxDeaths /\ deaths' = deaths + 1)
  BY DEF HealthEnds, HealthDies
<1>2. deaths' \in 0..MaxDeaths
  BY <1>1, HealthFacts
<1>. QED
  BY <1>1, <1>2, BecomesIdle

-----------------------------------------------------------------------------
(* The invariant holds in the initial state, and every step keeps it.       *)

LEMMA InitIsSound ==
    ASSUME Init
    PROVE  IInv
<1>1. /\ now = 1 /\ runs = <<>> /\ main = NoLineage /\ open = {}
      /\ health = Idle /\ deaths = 0
  BY DEF Init
<1>2. MaxDays \in Nat \ {0} /\ MaxRuns \in Nat /\ MaxDeaths \in Nat
  BY HealthAssumption
<1>3. NoLineage \in State /\ NoLineage.candidate = None /\ NoLineage.successAt = 0
  BY DEF NoLineage, State
<1>4. runs \in Seq(RunRecord) /\ Len(runs) = 0 /\ DOMAIN runs = {}
  BY <1>1
<1>5. HealthTypeOK
  BY <1>1, <1>2, <1>3, <1>4, IdleIsTyped DEF HealthTypeOK
<1>6. Successes(runs) = {} /\ Off(runs) = {}
  BY <1>4 DEF Successes, Off
<1>7. HistoryOK(runs, now)
  BY <1>4, <1>6 DEF HistoryOK
<1>8. Shows(runs, main.successAt) /\ Shows(runs, health.base.successAt)
  BY <1>1, <1>3, IdleIsTyped DEF Shows
<1>. QED
  BY <1>1, <1>5, <1>7, <1>8, IdleIsTyped DEF IInv

LEMMA EveryStepIsSound ==
    ASSUME IInv, [Next]_vars
    PROVE  IInv'
<1>1. CASE UNCHANGED vars
  BY <1>1 DEF vars, IInv, HealthTypeOK
<1>2. CASE Tick
  BY <1>2, TickStep
<1>3. CASE \E kind \in Kinds : StartRefresh(kind)
  BY <1>3, StartRefreshStep
<1>4. CASE \E r \in DOMAIN runs : \/ Acquire(r) \/ RefreshSucceeds(r)
                                  \/ RefreshFails(r) \/ AcceptProposal(r)
  BY <1>4, AcquireStep, RefreshSucceedsStep, RefreshFailsStep, AcceptProposalStep
<1>5. CASE StartHealth \/ BuildReport \/ ListIssues \/ WriteIssue \/ StartClosing
  BY <1>5, StartHealthStep, BuildReportStep, ListIssuesStep, WriteIssueStep,
     StartClosingStep
<1>6. CASE HealthEnds \/ HealthDies
  BY <1>6, HealthEndsStep
<1>7. CASE \E k \in health.rest : CloseIssue(k)
  BY <1>7, CloseIssueStep
<1>. QED
  BY <1>1, <1>2, <1>3, <1>4, <1>5, <1>6, <1>7 DEF Next

LEMMA InvariantHolds == Spec => []IInv
<1>1. Init => IInv
  BY InitIsSound
<1>2. IInv /\ [Next]_vars => IInv'
  BY EveryStepIsSound
<1>. QED
  BY <1>1, <1>2, PTL DEF Spec

(* Every variable has its type, and only planned keys wait to be written.   *)
THEOREM TypesHold == Spec => []HealthTypeOK
<1>1. IInv => HealthTypeOK
  BY DEF IInv
<1>. QED
  BY <1>1, InvariantHolds, PTL

-----------------------------------------------------------------------------
(* What the report says.                                                    *)

\* Only the building of the report takes a health run from the located
\* artifacts to the listing of issues, and its plan is what is wrong.
LEMMA ReportIsBuilt ==
    ASSUME IInv, [Next]_vars, BuildsReport
    PROVE  /\ BuildReport
           /\ health'.plan = BlockerKeys(health.located)
           /\ \A s \in Sources : ~StatusRefused(s)
           /\ health.located # 0 => Kept(health.located)
<1>1. health.phase = "located" /\ health'.phase = "listing"
  BY DEF BuildsReport
<1>2. health' # health
  BY <1>1
<1>3. ~StartHealth
  <2>1. SUFFICES ASSUME StartHealth PROVE FALSE
    OBVIOUS
  <2>2. health'.phase = "located"
    BY <2>1, IdleIsTyped DEF StartHealth, HealthRecord
  <2>. QED
    BY <1>1, <2>2
<1>4. health' # Idle
  BY <1>1, IdleIsTyped
<1>5. BuildReport
  <2>1. ~UNCHANGED vars
    BY <1>2 DEF vars
  <2>2. /\ ~Tick /\ \A kind \in Kinds : ~StartRefresh(kind)
        /\ \A r \in DOMAIN runs : /\ ~Acquire(r) /\ ~RefreshSucceeds(r)
                                  /\ ~RefreshFails(r) /\ ~AcceptProposal(r)
    <3>1. ~Tick /\ \A kind \in Kinds : ~StartRefresh(kind)
      BY <1>2 DEF Tick, StartRefresh
    <3>2. ASSUME NEW r \in DOMAIN runs
          PROVE  ~Acquire(r) /\ ~RefreshFails(r) /\ ~AcceptProposal(r)
      BY Zenon, <1>2 DEF Acquire, RefreshFails, AcceptProposal
    <3>3. ASSUME NEW r \in DOMAIN runs
          PROVE  ~RefreshSucceeds(r)
      BY Zenon, <1>2 DEF RefreshSucceeds
    <3>. QED
      BY <3>1, <3>2, <3>3
  <2>3. ~ListIssues /\ ~WriteIssue /\ ~StartClosing
    BY <1>1 DEF ListIssues, WriteIssue, StartClosing
  <2>4. ~HealthEnds /\ ~HealthDies /\ \A k \in health.rest : ~CloseIssue(k)
    BY <1>1, <1>4 DEF HealthEnds, HealthDies, CloseIssue
  <2>. QED
    BY <1>3, <2>1, <2>2, <2>3, <2>4 DEF Next
<1>6. /\ ~(\/ \E s \in Sources : StatusRefused(s)
           \/ health.located # 0 /\ ~Kept(health.located))
      /\ health' = [Idle EXCEPT !.phase = "listing",
                                !.plan = BlockerKeys(health.located)]
  BY <1>4, <1>5 DEF BuildReport
<1>7. health'.plan = BlockerKeys(health.located)
  BY <1>6, IdleIsTyped DEF HealthRecord
<1>. QED
  BY <1>5, <1>6, <1>7

LEMMA LastIsReported ==
    ASSUME IInv, NEW s \in Sources, NEW q \in Listed(s, StatusWindow),
           runs[q].phase = "failure", \A o \in RunsOf(s) : o <= q
    PROVE  <<s, "failure">> \in WorkflowBlockers
<1>1. /\ Listed(s, StatusWindow) \in SUBSET (1..Len(runs)) /\ Len(runs) \in Nat
      /\ Listed(s, StatusWindow) \subseteq RunsOf(s)
  BY TheRuns DEF IInv
<1>2. Latest(s) = q
  <2>1. Greatest(Listed(s, StatusWindow)) = q
    BY <1>1, GreatestIsUnique
  <2>. QED
    BY <2>1, Named
<1>3. q # 0
  BY <1>1
<1>4. Status(s).conclusion = "failure"
  BY <1>2, <1>3 DEF Status, UnderWay
<1>. QED
  BY <1>4 DEF WorkflowBlockers

-----------------------------------------------------------------------------
(* The queue is made of finitely many entries.                              *)

Reasons == {ReasonOrder[n] : n \in DOMAIN ReasonOrder}

LEMMA ReasonsAre ==
    /\ IsFiniteSet(Reasons)
    /\ \A p, day : TextReasons(p, day) \cup VerdictReasons(p, day) \subseteq Reasons
    /\ \A c, day : CertificateReasons(c, day) \subseteq Reasons
    /\ "changed-unreviewed" \in Reasons /\ "source-or-quality-blocker" \in Reasons
<1>1. DOMAIN ReasonOrder = 1..13
  BY DEF ReasonOrder
<1>2. IsFiniteSet(Reasons)
  <2>1. IsFiniteSet(1..13)
    <3>1. 1..13 \in SUBSET Nat /\ 13 \in Nat /\ \A n \in 1..13 : n <= 13
      OBVIOUS
    <3>. HIDE DEF Reasons
    <3>. QED
      BY <3>1, FS_BoundedSetOfNaturals
  <2>. DEFINE f == [n \in 1..13 |-> ReasonOrder[n]]
  <2>2. f \in Surjection(1..13, Reasons)
    BY <1>1 DEF Reasons, Surjection
  <2>. QED
    BY <2>1, <2>2, FS_Surjection
<1>3. \A n \in 1..13 : ReasonOrder[n] \in Reasons
  BY <1>1 DEF Reasons
<1>4. /\ ReasonOrder[2] = "ambiguous-review" /\ ReasonOrder[3] = "assessment-recheck"
      /\ ReasonOrder[4] = "certification-expiry"
      /\ ReasonOrder[5] = "certification-invalidated"
      /\ ReasonOrder[6] = "certification-recheck"
      /\ ReasonOrder[7] = "changed-unreviewed"
      /\ ReasonOrder[8] = "date-unknown-ingredients"
      /\ ReasonOrder[9] = "identity-or-formulation-conflict"
      /\ ReasonOrder[10] = "missing-current-ingredients"
      /\ ReasonOrder[11] = "refresh-recommended-ingredients"
      /\ ReasonOrder[12] = "source-or-quality-blocker"
      /\ ReasonOrder[13] = "stale-ingredients"
  BY DEF ReasonOrder
<1>5. /\ "ambiguous-review" \in Reasons /\ "assessment-recheck" \in Reasons
      /\ "certification-expiry" \in Reasons /\ "certification-invalidated" \in Reasons
      /\ "certification-recheck" \in Reasons /\ "changed-unreviewed" \in Reasons
  <2>1. \A n \in {2, 3, 4, 5, 6, 7} : ReasonOrder[n] \in Reasons
    BY <1>3
  <2>. QED
    BY <1>4, <2>1
<1>6. /\ "date-unknown-ingredients" \in Reasons
      /\ "identity-or-formulation-conflict" \in Reasons
      /\ "missing-current-ingredients" \in Reasons
      /\ "refresh-recommended-ingredients" \in Reasons
      /\ "source-or-quality-blocker" \in Reasons /\ "stale-ingredients" \in Reasons
  <2>1. \A n \in {8, 9, 10, 11, 12, 13} : ReasonOrder[n] \in Reasons
    BY <1>3
  <2>. QED
    BY <1>4, <2>1
<1>7. ASSUME NEW p, NEW day
      PROVE  TextReasons(p, day) \cup VerdictReasons(p, day) \subseteq Reasons
  BY <1>5, <1>6 DEF TextReasons, VerdictReasons
<1>8. ASSUME NEW c, NEW day
      PROVE  CertificateReasons(c, day) \subseteq Reasons
  BY <1>5, <1>6 DEF CertificateReasons
<1>. QED
  BY <1>2, <1>5, <1>6, <1>7, <1>8

LEMMA EntriesAreFinite ==
    ASSUME NEW evidence \in Evidences, NEW day
    PROVE  IsFiniteSet(AllEntries(evidence, day))
<1>. DEFINE certificates == UNION {p.certificates : p \in evidence.products}
            G == {p.gtin : p \in evidence.products} \cup evidence.changed \cup {0}
            A == {c.id : c \in certificates} \cup evidence.blockers \cup {0}
            entries == {Entry(t[1], t[2], t[3]) : t \in Reasons \X G \X A}
<1>1. /\ IsFiniteSet(evidence.products) /\ IsFiniteSet(evidence.changed)
      /\ IsFiniteSet(evidence.blockers)
      /\ \A p \in evidence.products : IsFiniteSet(p.certificates)
  BY HealthAssumption
<1>2. IsFiniteSet(certificates)
  <2>. DEFINE sets == {p.certificates : p \in evidence.products}
              f == [p \in evidence.products |-> p.certificates]
  <2>1. f \in Surjection(evidence.products, sets)
    BY DEF Surjection
  <2>2. IsFiniteSet(sets)
    <3>. HIDE DEF sets, f
    <3>. QED
      BY <1>1, <2>1, FS_Surjection
  <2>3. \A x \in sets : IsFiniteSet(x)
    BY <1>1
  <2>. HIDE DEF sets
  <2>4. IsFiniteSet(UNION sets)
    BY <2>2, <2>3, FS_UNION
  <2>. QED
    BY <2>4 DEF sets
<1>3. IsFiniteSet(G)
  <2>. DEFINE S == {p.gtin : p \in evidence.products}
              f == [p \in evidence.products |-> p.gtin]
  <2>1. f \in Surjection(evidence.products, S)
    BY DEF Surjection
  <2>2. IsFiniteSet(S)
    <3>. HIDE DEF S, f
    <3>. QED
      BY <1>1, <2>1, FS_Surjection
  <2>. HIDE DEF S
  <2>3. IsFiniteSet(S \cup evidence.changed)
    BY <1>1, <2>2, FS_Union
  <2>4. IsFiniteSet((S \cup evidence.changed) \cup {0})
    BY <2>3, FS_AddElement
  <2>. QED
    BY <2>4 DEF S
<1>4. IsFiniteSet(A)
  <2>. HIDE DEF certificates
  <2>. DEFINE S == {c.id : c \in certificates}
              f == [c \in certificates |-> c.id]
  <2>1. f \in Surjection(certificates, S)
    BY DEF Surjection
  <2>2. IsFiniteSet(S)
    <3>. HIDE DEF S, f
    <3>. QED
      BY <1>2, <2>1, FS_Surjection
  <2>. HIDE DEF S
  <2>3. IsFiniteSet(S \cup evidence.blockers)
    BY <1>1, <2>2, FS_Union
  <2>4. IsFiniteSet((S \cup evidence.blockers) \cup {0})
    BY <2>3, FS_AddElement
  <2>. QED
    BY <2>4 DEF S
<1>5. AllEntries(evidence, day) \subseteq entries
  <2>1. ASSUME NEW r \in Reasons, NEW g \in G, NEW a \in A
        PROVE  Entry(r, g, a) \in entries
    <3>. HIDE DEF G, A
    <3>1. <<r, g, a>> \in Reasons \X G \X A
      OBVIOUS
    <3>. QED
      BY <3>1
  <2>2. /\ \A p \in evidence.products : p.gtin \in G
        /\ \A g \in evidence.changed : g \in G
        /\ \A p \in evidence.products : \A c \in p.certificates : c.id \in A
        /\ \A b \in evidence.blockers : b \in A
        /\ 0 \in G /\ 0 \in A
    OBVIOUS
  <2>. HIDE DEF G, A, entries
  <2>3. ASSUME NEW p \in evidence.products
        PROVE  ProductEntries(p, day) \subseteq entries
    <3>1. \A r \in TextReasons(p, day) \cup VerdictReasons(p, day) :
              Entry(r, p.gtin, 0) \in entries
      BY <2>1, <2>2, ReasonsAre
    <3>2. \A c \in p.certificates : \A r \in CertificateReasons(c, day) :
              Entry(r, p.gtin, c.id) \in entries
      BY <2>1, <2>2, ReasonsAre
    <3>. QED
      BY <3>1, <3>2 DEF ProductEntries
  <2>4. \A g \in evidence.changed : Entry("changed-unreviewed", g, 0) \in entries
    BY <2>1, <2>2, ReasonsAre
  <2>5. \A b \in evidence.blockers : Entry("source-or-quality-blocker", 0, b) \in entries
    BY <2>1, <2>2, ReasonsAre
  <2>6. ASSUME NEW e \in AllEntries(evidence, day)
        PROVE  e \in entries
    <3>1. \/ \E p \in evidence.products : e \in ProductEntries(p, day)
          \/ \E g \in evidence.changed : e = Entry("changed-unreviewed", g, 0)
          \/ \E b \in evidence.blockers :
                 e = Entry("source-or-quality-blocker", 0, b)
      BY DEF AllEntries
    <3>. QED
      BY <2>3, <2>4, <2>5, <3>1
  <2>. QED
    BY <2>6
<1>6. IsFiniteSet(entries)
  <2>. HIDE DEF G, A
  <2>1. IsFiniteSet(Reasons \X G \X A)
    <3>. DEFINE h == [t \in (Reasons \X G) \X A |-> <<t[1][1], t[1][2], t[2]>>]
    <3>1. IsFiniteSet((Reasons \X G) \X A)
      BY <1>3, <1>4, ReasonsAre, FS_Product
    <3>2. h \in Surjection((Reasons \X G) \X A, Reasons \X G \X A)
      <4>1. h \in [(Reasons \X G) \X A -> Reasons \X G \X A]
        OBVIOUS
      <4>2. ASSUME NEW t \in Reasons \X G \X A
            PROVE  \E u \in (Reasons \X G) \X A : h[u] = t
        <5>1. <<<<t[1], t[2]>>, t[3]>> \in (Reasons \X G) \X A
              /\ t = <<t[1], t[2], t[3]>>
          OBVIOUS
        <5>. QED
          BY <5>1
      <4>. QED
        BY <4>1, <4>2 DEF Surjection
    <3>. QED
      BY <3>1, <3>2, FS_Surjection
  <2>. DEFINE f == [t \in Reasons \X G \X A |-> Entry(t[1], t[2], t[3])]
  <2>2. f \in Surjection(Reasons \X G \X A, entries)
    BY DEF Surjection
  <2>. QED
    <3>. HIDE DEF f, entries
    <3>. QED
      BY <2>1, <2>2, FS_Surjection
<1>. QED
  BY <1>5, <1>6, FS_Subset

-----------------------------------------------------------------------------
(* Nothing that needs action is hidden.                                     *)

LEMMA NewestIsSound ==
    ASSUME IInv, NewestIsLocated
    PROVE  health.located # 0 /\ runs[health.located].evidence \in Evidences
<1>1. health.located \in Full(runs)
  BY Named DEF NewestIsLocated
<1>2. /\ HealthTypeOK /\ HistoryOK(runs, now)
      /\ health.located \in DOMAIN runs
      /\ runs[health.located].phase = "success"
      /\ SourceOf(runs[health.located].kind) = "off"
  BY <1>1 DEF IInv, Full, Successes, Off
<1>3. health.located # 0
  <2>1. DOMAIN runs = 1..Len(runs) /\ Len(runs) \in Nat
    BY <1>2, TheRuns
  <2>. QED
    BY <1>2, <2>1
<1>. QED
  BY <1>2, <1>3 DEF HistoryOK, SoundRun

LEMMA EntryIsPlanned ==
    ASSUME IInv, NewestIsLocated,
           NEW e \in AllEntries(runs[health.located].evidence, now),
           e.reason \in IncidentReasons
    PROVE  \/ <<"off", e.reason>> \in BlockerKeys(health.located)
           \/ MaxEntries <= Cardinality(
                  {f \in AllEntries(runs[health.located].evidence, now) : Precedes(f, e)})
<1>. DEFINE evidence == runs[health.located].evidence
            all == AllEntries(evidence, now)
            before == {f \in all : Precedes(f, e)}
<1>1. health.located # 0 /\ evidence \in Evidences
  BY NewestIsSound
<1>2. IsFiniteSet(all)
  <2>. HIDE DEF evidence
  <2>. QED
    BY <1>1, EntriesAreFinite
<1>3. DailyQueue(health.located) = Cut(all)
  BY <1>1 DEF DailyQueue, QueueOf
<1>. HIDE DEF all
<1>4. Cardinality(before) \in Nat
  <2>1. before \subseteq all
    OBVIOUS
  <2>. HIDE DEF before
  <2>2. IsFiniteSet(before)
    BY <1>2, <2>1, FS_Subset
  <2>. QED
    BY <2>2, FS_CardinalityType
<1>5. MaxEntries \in Nat
  BY QueueAssumption
<1>6. CASE Cardinality(before) < MaxEntries
  <2>1. e \in Cut(all)
    BY <1>6 DEF Cut, all
  <2>2. <<"off", e.reason>> \in QueueKeys(DailyQueue(health.located))
    BY <1>3, <2>1 DEF QueueKeys
  <2>. QED
    BY <2>2 DEF BlockerKeys
<1>7. CASE MaxEntries <= Cardinality(before)
  BY <1>7 DEF all
<1>. QED
  <2>. HIDE DEF before
  <2>. QED
    BY <1>4, <1>5, <1>6, <1>7

LEMMA ReportHidesNothing ==
    ASSUME IInv, [Next]_vars, BuildsReport
    PROVE  /\ \A s \in Sources :
                 (\E q \in Listed(s, StatusWindow) :
                      runs[q].phase = "failure" /\ \A o \in RunsOf(s) : o <= q)
                 => <<s, "failure">> \in health'.plan
           /\ NewestIsLocated =>
                LET all == AllEntries(runs[health.located].evidence, now)
                IN  \A e \in {f \in all : f.reason \in IncidentReasons} :
                       \/ <<"off", e.reason>> \in health'.plan
                       \/ MaxEntries <= Cardinality({f \in all : Precedes(f, e)})
<1>1. health'.plan = BlockerKeys(health.located)
  BY ReportIsBuilt
<1>2. WorkflowBlockers \subseteq BlockerKeys(health.located)
  BY DEF BlockerKeys
<1>3. ASSUME NEW s \in Sources, NEW q \in Listed(s, StatusWindow),
             runs[q].phase = "failure", \A o \in RunsOf(s) : o <= q
      PROVE  <<s, "failure">> \in health'.plan
  BY <1>1, <1>2, <1>3, LastIsReported
<1>4. ASSUME NewestIsLocated,
             NEW e \in AllEntries(runs[health.located].evidence, now),
             e.reason \in IncidentReasons
      PROVE  \/ <<"off", e.reason>> \in health'.plan
             \/ MaxEntries <= Cardinality(
                    {f \in AllEntries(runs[health.located].evidence, now) : Precedes(f, e)})
  BY <1>1, <1>4, EntryIsPlanned
<1>. QED
  BY <1>3, <1>4

(* Whatever the newest complete evidence asks for today and that needs      *)
(* action is in the report, with a failed run of either source that no      *)
(* later run follows, unless the queue of MaxEntries ran over before it, or *)
(* newer runs have pushed the run or the failure out of the lists.          *)
THEOREM NothingHidden == Spec => NothingIsHidden
<1>1. IInv /\ [Next]_vars /\ BuildsReport =>
         /\ \A s \in Sources :
               (\E q \in Listed(s, StatusWindow) :
                    runs[q].phase = "failure" /\ \A o \in RunsOf(s) : o <= q)
               => <<s, "failure">> \in health'.plan
         /\ NewestIsLocated =>
              LET all == AllEntries(runs[health.located].evidence, now)
              IN  \A e \in {f \in all : f.reason \in IncidentReasons} :
                     \/ <<"off", e.reason>> \in health'.plan
                     \/ MaxEntries <= Cardinality({f \in all : Precedes(f, e)})
  BY ReportHidesNothing
<1>. QED
  BY <1>1, InvariantHolds, PTL DEF Spec, NothingIsHidden
-----------------------------------------------------------------------------
(* Open Food Facts is called overdue exactly when it is.                    *)

LEMMA CadenceIsPositive == Cadence("off") \in Nat \ {0}
<1>1. ValidSource(RefreshPolicy["off"])
  BY PlanAssumption DEF ValidRefreshPolicy
<1>. QED
  BY <1>1 DEF ValidSource, Cadence

\* Only the due state of the plan has a key that says overdue.
LEMMA OnlyDueIsReported ==
    ASSUME NEW plan, NEW queue, NEW located
    PROVE  {"full-overdue", "never-acquired"} \cap
               {k[2] : k \in WorkflowBlockers \cup DueKeys(plan)
                                \cup AttemptKeys(located) \cup QueueKeys(queue)}
           = {d \in {"never-acquired"} : plan.due = "no-successful-full-acquisition"}
             \cup {d \in {"full-overdue"} : plan.due = "full-cadence-due"}
<1>. DEFINE keys == WorkflowBlockers \cup DueKeys(plan)
                        \cup AttemptKeys(located) \cup QueueKeys(queue)
            due == {d \in {"never-acquired"} : plan.due = "no-successful-full-acquisition"}
                     \cup {d \in {"full-overdue"} : plan.due = "full-cadence-due"}
<1>1. \A k \in WorkflowBlockers \cup AttemptKeys(located) \cup QueueKeys(queue) :
          k[2] \in {"failure", "attempt"} \cup IncidentReasons
  <2>1. \A k \in WorkflowBlockers : k[2] = "failure"
    BY DEF WorkflowBlockers
  <2>2. \A k \in AttemptKeys(located) : k[2] = "attempt"
    BY DEF AttemptKeys
  <2>3. \A k \in QueueKeys(queue) : k[2] \in IncidentReasons
    BY DEF QueueKeys
  <2>. QED
    BY <2>1, <2>2, <2>3
<1>2. /\ "full-overdue" \notin {"failure", "attempt"} \cup IncidentReasons
      /\ "never-acquired" \notin {"failure", "attempt"} \cup IncidentReasons
  BY DEF IncidentReasons
<1>3. \A k \in DueKeys(plan) : k[2] \in due
  BY DEF DueKeys
<1>4. \A d \in due : \E k \in DueKeys(plan) : k[2] = d
  <2>1. /\ <<"off", "never-acquired">>[2] = "never-acquired"
        /\ <<"off", "full-overdue">>[2] = "full-overdue"
    OBVIOUS
  <2>. QED
    BY <2>1 DEF DueKeys
<1>5. due \subseteq {"full-overdue", "never-acquired"}
  OBVIOUS
<1>6. ASSUME NEW d \in {"full-overdue", "never-acquired"}
      PROVE  d \in {k[2] : k \in keys} <=> d \in due
  <2>. HIDE DEF due
  <2>1. ASSUME NEW k \in keys, d = k[2]
        PROVE  d \in due
    BY <1>1, <1>2, <1>3, <2>1
  <2>2. ASSUME d \in due
        PROVE  \E k \in keys : d = k[2]
    BY <1>4, <2>2
  <2>. QED
    BY <2>1, <2>2
<1>. QED
  <2>. HIDE DEF due, keys
  <2>1. \A d : d \in {"full-overdue", "never-acquired"} \cap {k[2] : k \in keys}
                <=> d \in due
    BY <1>5, <1>6
  <2>2. {"full-overdue", "never-acquired"} \cap {k[2] : k \in keys} = due
    BY <2>1
  <2>. QED
    BY <2>2 DEF due, keys

LEMMA FullRunsAre ==
    ASSUME IInv
    PROVE  /\ now \in Nat
           /\ \A q \in Full(runs) : /\ runs[q].at \in Nat /\ runs[q].at # 0
                                    /\ q \in RunsOf("off") /\ runs[q].phase = "success"
                                    /\ runs[q].state.successAt = runs[q].at
<1>1. HealthTypeOK /\ \A r \in DOMAIN runs : SoundRun(runs[r], now)
  BY DEF IInv, HistoryOK
<1>2. now \in Nat /\ RunsOf("off") = Off(runs)
  BY <1>1, TheRuns, Named
<1>3. ASSUME NEW q \in Full(runs)
      PROVE  /\ runs[q].at \in Nat /\ runs[q].at # 0
             /\ q \in Off(runs) /\ runs[q].phase = "success"
             /\ runs[q].state.successAt = runs[q].at
  <2>1. /\ q \in Off(runs) /\ q \in DOMAIN runs
        /\ runs[q].phase = "success" /\ runs[q].kind # "fixture"
    BY DEF Full, Successes, Off
  <2>. QED
    BY <1>1, <1>2, <2>1 DEF SoundRun
<1>. QED
  BY <1>2, <1>3

\* The clock the report is built from: that of a full run, and at least that
\* of main and of the last full run listed, or of those the located run caught
\* up with.
LEMMA WorkflowClock ==
    ASSUME IInv
    PROVE  LET at == MergeWorkflowStatus(health.base).successAt
               last == LastSuccess("off")
           IN  /\ at \in Nat /\ Shows(runs, at)
               /\ health.base.successAt <= at
               /\ last # 0 => at # 0 /\ runs[last].at <= at
               /\ last = 0 => at = health.base.successAt
<1>. DEFINE last == LastSuccess("off")
            status == Status("off")
            listed == {q \in Listed("off", StatusWindow) : FullSuccess(q)}
<1>1. /\ HealthTypeOK /\ runs \in Seq(RunRecord) /\ Len(runs) \in Nat
      /\ health.base \in State /\ Shows(runs, health.base.successAt)
  BY TheRuns DEF IInv, HealthTypeOK, HealthRecord
<1>2. health.base.successAt \in Nat
  BY <1>1 DEF State
<1>3. /\ Listed("off", StatusWindow) \in SUBSET (1..Len(runs))
      /\ listed \in SUBSET (1..Len(runs)) /\ listed \subseteq Full(runs)
  BY <1>1, TheRuns, Named DEF FullRuns
<1>4. last \in listed \cup {0}
  <2>1. last = Greatest(listed)
    BY Named
  <2>. HIDE DEF last, listed
  <2>. QED
    BY <1>1, <1>3, <2>1, GreatestIsThere
<1>5. last # 0 => Latest("off") # 0
  <2>1. Latest("off") = Greatest(Listed("off", StatusWindow))
    BY Named
  <2>2. Greatest(Listed("off", StatusWindow)) = 0 <=> Listed("off", StatusWindow) = {}
    BY <1>1, <1>3, GreatestIsThere
  <2>. QED
    BY <1>4, <2>1, <2>2
<1>6. /\ last # 0 => status.lastRun = last /\ status.lastAt = runs[last].at
      /\ last = 0 => status.lastRun = 0
  <2>1. CASE Latest("off") = 0
    BY <1>5, <2>1 DEF Status, EmptyStatus
  <2>2. CASE Latest("off") # 0
    BY <2>2 DEF Status
  <2>. QED
    BY <2>1, <2>2
<1>7. last # 0 => /\ last \in Full(runs)
                  /\ runs[last].at \in Nat /\ runs[last].at # 0
  BY <1>3, <1>4, FullRunsAre
<1>. HIDE DEF last, status, listed
<1>. DEFINE merged == MergeWorkflowStatus(health.base)
<1>8. merged.successAt = IF status.lastRun # 0 /\ status.lastAt > health.base.successAt
                         THEN status.lastAt ELSE health.base.successAt
  BY <1>1 DEF MergeWorkflowStatus, State, status
<1>. HIDE DEF merged
<1>9. CASE last = 0
  <2>1. merged.successAt = health.base.successAt
    BY <1>6, <1>8, <1>9
  <2>. QED
    BY <1>1, <1>2, <1>9, <2>1 DEF merged, last
<1>10. CASE last # 0
  <2>1. /\ status.lastRun # 0 /\ status.lastAt = runs[last].at
        /\ status.lastAt \in Nat /\ status.lastAt # 0
    BY <1>6, <1>7, <1>10
  <2>2. Shows(runs, status.lastAt)
    BY <1>7, <1>10, <2>1 DEF Shows
  <2>3. /\ merged.successAt \in Nat /\ merged.successAt # 0
        /\ health.base.successAt <= merged.successAt
        /\ runs[last].at <= merged.successAt
    BY <1>2, <1>8, <2>1
  <2>4. Shows(runs, merged.successAt)
    BY <1>1, <1>8, <2>2
  <2>. QED
    BY <1>10, <2>3, <2>4 DEF merged, last
<1>. QED
  BY <1>9, <1>10

LEMMA LocatedClock ==
    ASSUME IInv, health.located # 0
    PROVE  LET at == MergePreviousState(health.base, runs[health.located].state).successAt
           IN  /\ at \in Nat /\ Shows(runs, at)
               /\ runs[health.located].state.successAt <= at
<1>. DEFINE r == health.located
            merged == MergePreviousState(health.base, runs[r].state)
<1>1. /\ HistoryOK(runs, now) /\ HealthTypeOK /\ r \in Successes(runs)
      /\ health.base \in State /\ Shows(runs, health.base.successAt)
  BY DEF IInv, HealthTypeOK, HealthRecord
<1>. HIDE DEF r
<1>2. r \in DOMAIN runs /\ runs[r].phase = "success" /\ runs[r] \in RunRecord
  BY <1>1, TheRuns DEF Successes, Off
<1>3. runs[r].state \in State /\ runs[r].state # None
  BY <1>1, <1>2 DEF HistoryOK, SoundRun, RunRecord
<1>4. Shows(runs, runs[r].state.successAt)
  BY <1>1 DEF HistoryOK
<1>5. /\ merged \in State
      /\ merged.successAt >= runs[r].state.successAt
      /\ \/ merged.successAt = health.base.successAt
         \/ merged.successAt = runs[r].state.successAt
  BY <1>1, <1>3, MergedClock
<1>. HIDE DEF merged
<1>6. merged.successAt \in Nat /\ runs[r].state.successAt \in Nat
  BY <1>3, <1>5 DEF State
<1>7. Shows(runs, merged.successAt)
  BY <1>1, <1>4, <1>5
<1>8. runs[r].state.successAt <= merged.successAt
  BY <1>5, <1>6
<1>. QED
  BY <1>6, <1>7, <1>8 DEF merged, r

\* The overdue keys of a plan, from the clock it is made of.
Overdue(at) ==
    {d \in {"never-acquired"} : at = 0}
    \cup {d \in {"full-overdue"} : at # 0 /\ now >= at + Cadence("off")}

Reported == {"full-overdue", "never-acquired"} \cap {k[2] : k \in health'.plan}

LEMMA ReportedIsOverdue ==
    ASSUME IInv, [Next]_vars, BuildsReport
    PROVE  Reported = Overdue(PlanState(health.located).successAt)
<1>. DEFINE state == PlanState(health.located)
            queue == DailyQueue(health.located)
            plan == Plan("off", state, queue, now)
<1>1. health'.plan = WorkflowBlockers \cup DueKeys(plan)
                        \cup AttemptKeys(health.located) \cup QueueKeys(queue)
  BY ReportIsBuilt DEF BlockerKeys
<1>2. plan.due = DueReason("off", state, now)
  BY DEF Plan
<1>. HIDE DEF plan, queue, state
<1>3. Reported = {d \in {"never-acquired"} : plan.due = "no-successful-full-acquisition"}
                 \cup {d \in {"full-overdue"} : plan.due = "full-cadence-due"}
  BY <1>1, OnlyDueIsReported DEF Reported
<1>4. /\ plan.due = "no-successful-full-acquisition" <=> state.successAt = 0
      /\ plan.due = "full-cadence-due" <=>
             state.successAt # 0 /\ now >= state.successAt + Cadence("off")
  BY <1>2 DEF DueReason
<1>5. Reported = Overdue(state.successAt)
  BY <1>3, <1>4 DEF Overdue
<1>. QED
  BY <1>5 DEF state

LEMMA PlanClock ==
    ASSUME IInv
    PROVE  LET at == PlanState(health.located).successAt
           IN  at \in Nat /\ Shows(runs, at)
<1>1. CASE health.located = 0
  BY <1>1, WorkflowClock DEF PlanState
<1>2. CASE health.located # 0
  BY <1>2, LocatedClock DEF PlanState
<1>. QED
  BY <1>1, <1>2

LEMMA ActuallyDueIs ==
    /\ "never-acquired" \in ActuallyDue <=> Full(runs) = {}
    /\ "full-overdue" \in ActuallyDue <=>
           /\ Full(runs) # {}
           /\ \A q \in Full(runs) : ~(now < runs[q].at + Cadence("off"))
    /\ ActuallyDue \subseteq {"full-overdue", "never-acquired"}
BY Named DEF ActuallyDue, AcquiredInTime

\* What is due is reported, whatever was located and whatever overlapped.
LEMMA DueIsReported ==
    ASSUME IInv, ActuallyDue # {}
    PROVE  Overdue(PlanState(health.located).successAt) # {}
<1>1. PICK at : /\ at = PlanState(health.located).successAt
                /\ at \in Nat /\ Shows(runs, at)
  BY PlanClock
<1>2. CASE at = 0
  BY <1>1, <1>2 DEF Overdue
<1>3. CASE at # 0
  <2>1. PICK q \in Full(runs) : runs[q].at = at
    BY <1>1, <1>3 DEF Shows
  <2>2. ~(now < at + Cadence("off"))
    BY <2>1, ActuallyDueIs
  <2>3. now >= at + Cadence("off")
    BY <1>1, <2>2, FullRunsAre, CadenceIsPositive
  <2>. QED
    BY <1>1, <1>3, <2>3 DEF Overdue
<1>. QED
  BY <1>2, <1>3

\* The clock of the report is not behind a full run whose artifacts are kept
\* and that is listed where the report looks for it.
LEMMA NotBehind ==
    ASSUME IInv, ~LeftBehind,
           NEW q \in Full(runs), Kept(q),
           q \in Listed("off", IF health.located = 0 THEN StatusWindow
                                                     ELSE LocatorWindow)
    PROVE  runs[q].at <= PlanState(health.located).successAt
<1>1. /\ now \in Nat /\ runs[q].at \in Nat /\ runs[q].at # 0
      /\ q \in RunsOf("off") /\ runs[q].phase = "success"
      /\ HealthTypeOK /\ HistoryOK(runs, now)
  BY FullRunsAre DEF IInv
<1>2. ~Overlapped(runs, q)
  <2>1. \A r \in RunsOf("off") : ~(runs[r].phase = "success" /\ q \in runs[r].overlaps)
    BY Named DEF LeftBehind
  <2>. QED
    BY <2>1, Named DEF Overlapped, Successes
<1>3. CASE health.located # 0
  <2>1. LocateLatest("off") = health.located
    BY DEF LeftBehind
  <2>2. q <= health.located
    BY <1>1, <1>3, <2>1, Located
  <2>3. health.located \in Successes(runs) /\ Near(runs, q)
    BY <1>3 DEF IInv, Listed, Near
  <2>4. runs[q].at <= runs[health.located].state.successAt
    BY <1>1, <1>2, <2>2, <2>3 DEF HistoryOK, CaughtUp, Kept
  <2>5. PICK at : /\ at = PlanState(health.located).successAt
                  /\ at \in Nat /\ runs[health.located].state.successAt <= at
    BY <1>3, LocatedClock DEF PlanState
  <2>6. runs[health.located].state.successAt \in Nat
    <3>1. health.located \in DOMAIN runs /\ runs[health.located].phase = "success"
      BY <2>3 DEF Successes, Off
    <3>2. runs[health.located] \in RunRecord /\ runs[health.located].state # None
      BY <1>1, <3>1, TheRuns DEF HistoryOK, SoundRun
    <3>. QED
      BY <3>2 DEF RunRecord, State
  <2>. QED
    BY <1>1, <2>4, <2>5, <2>6
<1>4. CASE health.located = 0
  <2>. DEFINE listed == {o \in Listed("off", StatusWindow) : FullSuccess(o)}
  <2>1. PICK last : last = LastSuccess("off")
    OBVIOUS
  <2>2. /\ listed \in SUBSET (1..Len(runs)) /\ Len(runs) \in Nat
        /\ listed \subseteq Full(runs) /\ q \in listed
        /\ last = Greatest(listed)
    BY <1>1, <1>4, <2>1, TheRuns, Named DEF FullRuns
  <2>3. /\ last \in Full(runs) /\ last # 0 /\ q <= last
        /\ q \in Nat /\ last \in Nat
    <3>. HIDE DEF listed
    <3>1. last \in listed \cup {0} /\ (last = 0 <=> listed = {}) /\ q <= last
      BY <2>2, GreatestIsThere
    <3>. QED
      BY <2>2, <3>1
  <2>4. runs[last].at \in Nat /\ runs[q].at <= runs[last].at
    <3>1. CASE last = q
      BY <1>1, <3>1
    <3>2. CASE last # q
      <4>1. /\ q < last /\ last \in Off(runs) /\ q \in Off(runs)
            /\ last \in Successes(runs) /\ runs[last].phase = "success"
        <5>1. q < last
          BY <2>3, <3>2
        <5>. QED
          BY <2>3, <5>1 DEF Full, Successes
      <4>2. Follows(runs, last, q)
        BY <1>1, <4>1 DEF HistoryOK
      <4>3. q \notin runs[last].overlaps
        BY <1>2, <4>1 DEF Overlapped
      <4>. QED
        BY <2>3, <4>1, <4>2, <4>3, FullRunsAre DEF Follows
    <3>. QED
      BY <3>1, <3>2
  <2>5. PICK at : /\ at = PlanState(health.located).successAt
                  /\ at \in Nat /\ runs[last].at <= at
    BY <1>4, <2>1, <2>3, WorkflowClock DEF PlanState
  <2>. QED
    BY <1>1, <2>4, <2>5
<1>. QED
  BY <1>3, <1>4

\* A report that is not left behind raises no alarm within the cadence: the
\* artifacts outlive the cadence, so the full run in time is still found.
LEMMA NoFalseAlarm ==
    ASSUME IInv, ~LeftBehind, ActuallyDue = {}
    PROVE  Overdue(PlanState(health.located).successAt) = {}
<1>1. PICK q \in Full(runs) : now < runs[q].at + Cadence("off")
  BY ActuallyDueIs
<1>2. /\ now \in Nat /\ runs[q].at \in Nat /\ runs[q].at # 0
      /\ q \in RunsOf("off")
  BY FullRunsAre
<1>3. Kept(q)
  BY <1>1, <1>2, CadenceIsPositive, HealthAssumption DEF Kept
<1>4. q \in Listed("off", IF health.located = 0 THEN StatusWindow
                                                ELSE LocatorWindow)
  BY <1>1, Named DEF LeftBehind
<1>5. PICK at : /\ at = PlanState(health.located).successAt
                /\ at \in Nat /\ runs[q].at <= at
  BY <1>3, <1>4, NotBehind, PlanClock
<1>6. at # 0 /\ ~(now >= at + Cadence("off"))
  BY <1>1, <1>2, <1>5, CadenceIsPositive
<1>. QED
  BY <1>5, <1>6 DEF Overdue

\* Where a full run or nothing is located, never acquired is told from overdue
\* as long as anybody remembers a full run.
LEMMA AlarmIsExact ==
    ASSUME IInv, ~LeftBehind, health.located \in FullRuns \cup {0}, ~Forgotten
    PROVE  Overdue(PlanState(health.located).successAt) = ActuallyDue
<1>1. PICK at : /\ at = PlanState(health.located).successAt
                /\ at \in Nat /\ Shows(runs, at)
  BY PlanClock
<1>2. at = 0 <=> Full(runs) = {}
  <2>1. Full(runs) = {} => at = 0
    BY <1>1 DEF Shows
  <2>2. CASE health.located = 0
    <3>1. /\ health.base.successAt \in Nat /\ health.base.successAt <= at
          /\ LastSuccess("off") # 0 => at # 0
      BY <1>1, <2>2, WorkflowClock DEF PlanState, IInv, HealthTypeOK,
         HealthRecord, State
    <3>2. at # 0
      BY <1>1, <2>2, <3>1 DEF Forgotten
    <3>. QED
      BY <2>1, <3>2
  <2>3. CASE health.located # 0
    <3>1. health.located \in Full(runs)
      BY <2>3, Named
    <3>2. /\ runs[health.located].state.successAt = runs[health.located].at
          /\ runs[health.located].at \in Nat /\ runs[health.located].at # 0
      BY <3>1, FullRunsAre
    <3>3. runs[health.located].state.successAt <= at
      BY <1>1, <2>3, LocatedClock DEF PlanState
    <3>4. at # 0
      BY <1>1, <3>2, <3>3
    <3>. QED
      BY <3>1, <3>4
  <2>. QED
    BY <2>2, <2>3
<1>3. "never-acquired" \in Overdue(at) <=> "never-acquired" \in ActuallyDue
  BY <1>2, ActuallyDueIs DEF Overdue
<1>4. Overdue(at) # {} <=> ActuallyDue # {}
  BY <1>1, DueIsReported, NoFalseAlarm
<1>5. Overdue(at) \subseteq {"full-overdue", "never-acquired"}
  BY DEF Overdue
<1>6. "never-acquired" \in Overdue(at) => "full-overdue" \notin Overdue(at)
  BY DEF Overdue
<1>7. "never-acquired" \in ActuallyDue => "full-overdue" \notin ActuallyDue
  BY ActuallyDueIs
<1>8. "full-overdue" \in Overdue(at) <=> "full-overdue" \in ActuallyDue
  <2>1. CASE "never-acquired" \in ActuallyDue
    BY <1>3, <1>6, <1>7, <2>1
  <2>2. CASE "never-acquired" \notin ActuallyDue
    <3>1. Overdue(at) # {} <=> "full-overdue" \in Overdue(at)
      BY <1>3, <1>5, <2>2
    <3>2. ActuallyDue # {} <=> "full-overdue" \in ActuallyDue
      BY <2>2, ActuallyDueIs
    <3>. QED
      BY <1>4, <3>1, <3>2
  <2>. QED
    BY <2>1, <2>2
<1>. QED
  <2>1. \A d : d \in Overdue(at) <=> d \in ActuallyDue
    BY <1>3, <1>5, <1>8, ActuallyDueIs
  <2>2. Overdue(at) = ActuallyDue
    BY <2>1
  <2>. QED
    BY <1>1, <2>2

\* Once all is forgotten, never acquired is what is said.
LEMMA ForgottenIsNever ==
    ASSUME IInv, Forgotten
    PROVE  Overdue(PlanState(health.located).successAt) = {"never-acquired"}
<1>1. PlanState(health.located).successAt = 0
  BY WorkflowClock DEF Forgotten, PlanState
<1>. QED
  BY <1>1 DEF Overdue

LEMMA ReportIsExact ==
    ASSUME IInv, [Next]_vars, BuildsReport
    PROVE  /\ ActuallyDue # {} => Reported # {}
           /\ ~LeftBehind => (Reported # {} => ActuallyDue # {})
           /\ ~LeftBehind /\ health.located \in FullRuns \cup {0} =>
                Reported = IF Forgotten THEN {"never-acquired"} ELSE ActuallyDue
BY ReportedIsOverdue, DueIsReported, NoFalseAlarm, AlarmIsExact, ForgottenIsNever

(* Open Food Facts is reported overdue whenever no full acquisition was     *)
(* completed within the cadence, and only then, unless a run overlapped a   *)
(* full one, ended after the artifacts were located, or is of these days    *)
(* and not listed any more; where a full run or nothing is located, never   *)
(* acquired is told from overdue as long as a full run is listed or main    *)
(* holds a success, and is what is said when neither is so.                 *)
THEOREM OverdueIsReported == Spec => OverdueIsExact
<1>1. IInv /\ [Next]_vars /\ BuildsReport =>
         LET reported == {"full-overdue", "never-acquired"}
                           \cap {k[2] : k \in health'.plan}
         IN  /\ ActuallyDue # {} => reported # {}
             /\ ~LeftBehind => (reported # {} => ActuallyDue # {})
             /\ ~LeftBehind /\ health.located \in FullRuns \cup {0} =>
                  reported = IF Forgotten THEN {"never-acquired"}
                             ELSE ActuallyDue
  BY ReportIsExact DEF Reported
<1>. QED
  BY <1>1, InvariantHolds, PTL DEF Spec, OverdueIsExact

-----------------------------------------------------------------------------
(* The queue keeps its limit, and what is cut comes after all that is kept. *)

EntryRecords == [reason : Reasons, gtin : Nat, about : Nat]

LEMMA PlacesDiffer ==
    ASSUME NEW r \in Reasons, NEW s \in Reasons
    PROVE  /\ Place[r] \in Nat /\ Place[s] \in Nat
           /\ Place[r] = Place[s] => r = s
<1>. DEFINE Index(t) == CHOOSE n \in DOMAIN ReasonOrder : ReasonOrder[n] = t
<1>1. DOMAIN ReasonOrder = 1..13 /\ Len(ReasonOrder) = 13
  BY DEF ReasonOrder
<1>2. ASSUME NEW t \in Reasons
      PROVE  /\ Index(t) \in 1..13 /\ ReasonOrder[Index(t)] = t
             /\ Place[t] = 13 * Priority(t) + Index(t)
             /\ Priority(t) \in {0, 1}
  <2>1. \E n \in DOMAIN ReasonOrder : ReasonOrder[n] = t
    BY DEF Reasons
  <2>2. Index(t) \in DOMAIN ReasonOrder /\ ReasonOrder[Index(t)] = t
    BY <2>1
  <2>3. Place[t] = Len(ReasonOrder) * Priority(t) + Index(t)
    BY DEF Place, Reasons
  <2>. QED
    BY <1>1, <2>2, <2>3 DEF Priority
<1>. HIDE DEF Index
<1>3. PICK i, j, p, q : /\ i = Index(r) /\ j = Index(s)
                        /\ p = Priority(r) /\ q = Priority(s)
  OBVIOUS
<1>4. /\ i \in 1..13 /\ j \in 1..13 /\ p \in {0, 1} /\ q \in {0, 1}
      /\ Place[r] = 13 * p + i /\ Place[s] = 13 * q + j
      /\ i = j => r = s
  BY <1>2, <1>3
<1>5. Place[r] = Place[s] => i = j
  BY <1>4
<1>. QED
  BY <1>4, <1>5

\* The queue has a strict total order.
LEMMA EntriesAreOrdered ==
    ASSUME NEW e \in EntryRecords, NEW f \in EntryRecords
    PROVE  /\ ~Precedes(e, e)
           /\ e # f => Precedes(e, f) \/ Precedes(f, e)
           /\ \A g \in EntryRecords :
                  Precedes(g, e) /\ Precedes(e, f) => Precedes(g, f)
<1>1. /\ e.reason \in Reasons /\ f.reason \in Reasons
      /\ e.gtin \in Nat /\ f.gtin \in Nat /\ e.about \in Nat /\ f.about \in Nat
  BY DEF EntryRecords
<1>2. Place[e.reason] \in Nat /\ Place[f.reason] \in Nat
  BY <1>1, PlacesDiffer
<1>3. ~Precedes(e, e)
  BY <1>1, <1>2 DEF Precedes
<1>4. ASSUME e # f
      PROVE  Precedes(e, f) \/ Precedes(f, e)
  <2>1. e.reason # f.reason \/ e.gtin # f.gtin \/ e.about # f.about
    BY <1>4 DEF EntryRecords
  <2>2. e.reason # f.reason => Place[e.reason] # Place[f.reason]
    BY <1>1, PlacesDiffer
  <2>. QED
    BY <1>1, <1>2, <2>1, <2>2 DEF Precedes
<1>5. ASSUME NEW g \in EntryRecords, Precedes(g, e), Precedes(e, f)
      PROVE  Precedes(g, f)
  <2>1. g.reason \in Reasons /\ g.gtin \in Nat /\ g.about \in Nat
    BY DEF EntryRecords
  <2>2. Place[g.reason] \in Nat
    BY <2>1, PlacesDiffer
  <2>. QED
    BY <1>1, <1>2, <1>5, <2>1, <2>2 DEF Precedes
<1>. QED
  BY <1>3, <1>4, <1>5

Before(entries, e) == {f \in entries : Precedes(f, e)}

LEMMA RanksRise ==
    ASSUME NEW entries \in SUBSET EntryRecords, IsFiniteSet(entries),
           NEW e \in entries, NEW f \in entries
    PROVE  /\ Cardinality(Before(entries, e)) \in Nat
           /\ Precedes(e, f) =>
                  Cardinality(Before(entries, e)) < Cardinality(Before(entries, f))
<1>1. ASSUME NEW g \in entries
      PROVE  IsFiniteSet(Before(entries, g)) /\ Cardinality(Before(entries, g)) \in Nat
  <2>1. Before(entries, g) \in SUBSET entries
    BY DEF Before
  <2>. QED
    BY <2>1, FS_Subset, FS_CardinalityType
<1>2. ASSUME Precedes(e, f)
      PROVE  Cardinality(Before(entries, e)) < Cardinality(Before(entries, f))
  <2>1. Before(entries, e) \in SUBSET Before(entries, f)
    BY <1>2, EntriesAreOrdered DEF Before
  <2>2. e \in Before(entries, f) /\ e \notin Before(entries, e)
    BY <1>2, EntriesAreOrdered DEF Before
  <2>3. Cardinality(Before(entries, e)) <= Cardinality(Before(entries, f))
        /\ (Cardinality(Before(entries, f)) = Cardinality(Before(entries, e))
               => Before(entries, f) = Before(entries, e))
    BY <1>1, <2>1, FS_Subset
  <2>. QED
    BY <1>1, <2>2, <2>3
<1>. QED
  BY <1>1, <1>2

\* A queue never has more than MaxEntries entries, and all that it drops
\* comes after all that it keeps, in whatever order the entries were found.
THEOREM QueueKeepsItsLimit ==
    ASSUME NEW entries \in SUBSET EntryRecords, IsFiniteSet(entries)
    PROVE  /\ Cardinality(Cut(entries)) <= MaxEntries
           /\ \A e \in Cut(entries), f \in entries \ Cut(entries) : Precedes(e, f)
<1>. DEFINE rank(e) == Cardinality(Before(entries, e))
            ranks == 0..(MaxEntries - 1)
            h == [e \in Cut(entries) |-> rank(e)]
<1>1. Cut(entries) = {e \in entries : rank(e) < MaxEntries}
  BY DEF Cut, Before
<1>2. MaxEntries \in Nat \ {0}
  BY QueueAssumption
<1>3. ASSUME NEW e \in entries, NEW f \in entries
      PROVE  rank(e) \in Nat /\ (Precedes(e, f) => rank(e) < rank(f))
  BY RanksRise
<1>. HIDE DEF rank
<1>4. h \in [Cut(entries) -> ranks]
  BY <1>1, <1>2, <1>3
<1>5. ASSUME NEW e \in Cut(entries), NEW f \in Cut(entries), e # f
      PROVE  h[e] # h[f]
  <2>1. e \in entries /\ f \in entries /\ e \in EntryRecords /\ f \in EntryRecords
    BY <1>1
  <2>2. Precedes(e, f) \/ Precedes(f, e)
    BY <1>5, <2>1, EntriesAreOrdered
  <2>3. rank(e) # rank(f)
    BY <1>3, <2>1, <2>2
  <2>. QED
    BY <2>3
<1>6. h \in Injection(Cut(entries), ranks)
  <2>. HIDE DEF h, ranks
  <2>. QED
    BY <1>4, <1>5 DEF Injection, IsInjective
<1>7. IsFiniteSet(ranks) /\ Cardinality(ranks) = MaxEntries
  BY <1>2, FS_Interval
<1>8. Cardinality(Cut(entries)) <= MaxEntries
  <2>. HIDE DEF h, ranks
  <2>. QED
    BY <1>6, <1>7, FS_Injection
<1>9. ASSUME NEW e \in Cut(entries), NEW f \in entries \ Cut(entries)
      PROVE  Precedes(e, f)
  <2>1. /\ e \in entries /\ e \in EntryRecords /\ f \in EntryRecords /\ e # f
        /\ rank(e) < MaxEntries /\ ~(rank(f) < MaxEntries)
    BY <1>1
  <2>2. ~Precedes(f, e)
    BY <1>2, <1>3, <2>1
  <2>. QED
    BY <2>1, <2>2, EntriesAreOrdered
<1>. QED
  BY <1>8, <1>9

\* So the queue of any evidence on any day is within the limit.
LEMMA EntriesAreTyped ==
    ASSUME NEW evidence \in Evidences, NEW day
    PROVE  AllEntries(evidence, day) \in SUBSET EntryRecords
<1>1. /\ evidence.products \in SUBSET Product
      /\ evidence.changed \in SUBSET Nat /\ evidence.blockers \in SUBSET Nat
  BY HealthAssumption DEF EvidenceEnvelope
<1>2. \A r \in Reasons, g \in Nat, a \in Nat : Entry(r, g, a) \in EntryRecords
  BY DEF Entry, EntryRecords
<1>3. ASSUME NEW p \in evidence.products, NEW e \in ProductEntries(p, day)
      PROVE  e \in EntryRecords
  <2>1. p.gtin \in Nat /\ \A c \in p.certificates : c.id \in Nat
    BY <1>1 DEF Product, Certificate
  <2>2. \A r \in TextReasons(p, day) \cup VerdictReasons(p, day) :
            Entry(r, p.gtin, 0) \in EntryRecords
    BY <1>2, <2>1, ReasonsAre
  <2>3. \A c \in p.certificates : \A r \in CertificateReasons(c, day) :
            Entry(r, p.gtin, c.id) \in EntryRecords
    BY <1>2, <2>1, ReasonsAre
  <2>. QED
    BY <2>2, <2>3 DEF ProductEntries
<1>4. ASSUME NEW e \in AllEntries(evidence, day)
      PROVE  e \in EntryRecords
  <2>1. \A g \in evidence.changed : Entry("changed-unreviewed", g, 0) \in EntryRecords
    BY <1>1, <1>2, ReasonsAre
  <2>2. \A b \in evidence.blockers :
            Entry("source-or-quality-blocker", 0, b) \in EntryRecords
    BY <1>1, <1>2, ReasonsAre
  <2>3. \/ \E p \in evidence.products : e \in ProductEntries(p, day)
        \/ \E g \in evidence.changed : e = Entry("changed-unreviewed", g, 0)
        \/ \E b \in evidence.blockers : e = Entry("source-or-quality-blocker", 0, b)
    BY DEF AllEntries
  <2>. QED
    BY <1>3, <2>1, <2>2, <2>3
<1>. QED
  BY <1>4

\* Of any evidence, on any day, the queue has at most MaxEntries entries.
THEOREM DailyQueueIsBounded ==
    ASSUME NEW evidence \in Evidences, NEW day
    PROVE  /\ Cardinality(QueueOf(evidence, day)) <= MaxEntries
           /\ QueueOf(evidence, day) \subseteq AllEntries(evidence, day)
<1>1. Cardinality(Cut(AllEntries(evidence, day))) <= MaxEntries
  BY EntriesAreTyped, EntriesAreFinite, QueueKeepsItsLimit
<1>2. Cut(AllEntries(evidence, day)) \subseteq AllEntries(evidence, day)
  BY DEF Cut
<1>. QED
  BY <1>1, <1>2 DEF QueueOf

-----------------------------------------------------------------------------
(* A proposal run has the jobs of Open Food Facts twice.                    *)

NoReportOverProposals ==
    [][Latest("off") # 0 /\ runs[Latest("off")].kind = "proposal" =>
           ~BuildsReport]_vars

\* While a proposal run is the latest of Open Food Facts no report is built,
\* whoever failed: apply_job_lineage() refuses its second job of a name.
THEOREM NothingIsReportedOverProposals == Spec => NoReportOverProposals
<1>1. ASSUME IInv, [Next]_vars, BuildsReport, Latest("off") # 0,
             runs[Latest("off")].kind = "proposal"
      PROVE  FALSE
  <2>1. ~StatusRefused("off")
    BY <1>1, ReportIsBuilt DEF Sources
  <2>2. Latest("off") \in Scanned("off")
    BY DEF Scanned
  <2>3. DuplicateJobs("off")
    BY <1>1, <2>2 DEF DuplicateJobs
  <2>. QED
    BY <2>1, <2>3 DEF StatusRefused
<1>2. IInv /\ [Next]_vars =>
          (Latest("off") # 0 /\ runs[Latest("off")].kind = "proposal" => ~BuildsReport)
  BY <1>1
<1>. QED
  BY <1>2, InvariantHolds, PTL DEF Spec, NoReportOverProposals
=============================================================================
