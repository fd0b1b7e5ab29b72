----------------------- MODULE CatalogModulesProofs -----------------------
(***************************************************************************)
(* Proofs about the files of a market: types, trust, what a step may do to  *)
(* the installed module, and that the store implements ActiveModule.        *)
(***************************************************************************)
EXTENDS CatalogModules, TLAPS, FiniteSetTheorems

-----------------------------------------------------------------------------
(* The modules that verify, and the one that is recovered, as functions of  *)
(* the directories, the pointer and the verdicts.                           *)

Trusted(d, vd) ==
    {d[v] : v \in {w \in Versions : d[w] \in Builds /\ vd[d[w]] # "rejected"}}

Points(d, p, vd) == p \in Versions /\ d[p] \in Builds /\ vd[d[p]] # "rejected"

Chosen(d, p, vd) == IF Points(d, p, vd) THEN d[p] ELSE Newest(Trusted(d, vd))

\* Directories as TypeOK has them.
Directories ==
    {d \in [Versions -> Builds \cup {None, Damaged}] :
        \A v \in Versions : d[v] \in Builds => d[v].version = v}

LEMMA RecoveredIsChosen ==
    /\ VerifiedBuilds = Trusted(dirs, verdict)
    /\ Recovered = Chosen(dirs, pointer, verdict)
    /\ VerifiedBuilds' = Trusted(dirs', verdict')
    /\ Recovered' = Chosen(dirs', pointer', verdict')
    /\ \A v \in Versions : Verified(v) <=> Points(dirs, v, verdict)
BY DEF VerifiedBuilds, Recovered, Verified, Trusted, Chosen, Points

LEMMA VersionsAreNumbers ==
    /\ Versions \subseteq Nat
    /\ \A b \in Builds : b.version \in Versions /\ b.version \in Nat
    /\ None \notin Versions
    /\ None \notin Builds /\ Damaged \notin Builds /\ Damaged # None
BY StoreAssumption DEF Versions

LEMMA TrustedBuilds ==
    ASSUME NEW d \in Directories, NEW vd
    PROVE  /\ Trusted(d, vd) \in SUBSET Builds
           /\ \A b \in Builds :
                b \in Trusted(d, vd) <=> Points(d, b.version, vd) /\ d[b.version] = b
           /\ \A v \in Versions : Points(d, v, vd) => d[v] \in Trusted(d, vd)
           /\ \A b, c \in Trusted(d, vd) : b.version = c.version => b = c
<1>1. \A v \in Versions : Points(d, v, vd) => d[v] \in Trusted(d, vd)
  BY DEF Points, Trusted
<1>2. ASSUME NEW b \in Trusted(d, vd)
      PROVE  b \in Builds /\ Points(d, b.version, vd) /\ d[b.version] = b
  <2>1. PICK v \in Versions : d[v] = b /\ d[v] \in Builds /\ vd[d[v]] # "rejected"
    BY DEF Trusted
  <2>2. b.version = v
    BY <2>1 DEF Directories
  <2>. QED
    BY <2>1, <2>2 DEF Points
<1>3. ASSUME NEW b \in Builds, Points(d, b.version, vd), d[b.version] = b
      PROVE  b \in Trusted(d, vd)
  BY <1>1, <1>3, VersionsAreNumbers
<1>. QED
  BY <1>1, <1>2, <1>3

\* The elements of S that f puts above s.
Over(S, f, s) == {t \in S : f[t] > f[s]}

\* A finite set has an element that f puts above all others: of the sets
\* Over(S, f, s) one has no other below it.
LEMMA GreatestElement ==
    ASSUME NEW S, IsFiniteSet(S), S # {}, NEW f \in [S -> Nat]
    PROVE  \E s \in S : \A t \in S : f[t] <= f[s]
<1>. DEFINE family == {Over(S, f, s) : s \in S}
<1>1. family \subseteq FiniteSubsetsOf(S) /\ family # {}
  <2>1. FiniteSubsetsOf(S) = SUBSET S
    BY FS_FiniteSubsetsOfFinite
  <2>2. \A s \in S : Over(S, f, s) \subseteq S
    BY DEF Over
  <2>. QED
    BY <2>1, <2>2
<1>2. PICK A \in family : \A B \in family : <<B, A>> \notin StrictSubsetOrdering(S)
  <2>. HIDE DEF family
  <2>. QED
    BY <1>1, FS_StrictSubsetOrderingWellFounded, WFMin
<1>3. PICK s \in S : A = Over(S, f, s)
  BY <1>2
<1>4. ASSUME NEW t \in S, ~(f[t] <= f[s])
      PROVE  FALSE
  <2>1. f[t] \in Nat /\ f[s] \in Nat /\ f[t] > f[s]
    BY <1>4
  <2>2. t \in Over(S, f, s) /\ t \notin Over(S, f, t)
    BY <2>1 DEF Over
  <2>3. ASSUME NEW u \in Over(S, f, t)
        PROVE  u \in Over(S, f, s)
    <3>1. u \in S /\ f[u] \in Nat /\ f[u] > f[t]
      BY <2>3 DEF Over
    <3>. QED
      BY <2>1, <3>1 DEF Over
  <2>4. <<Over(S, f, t), A>> \in StrictSubsetOrdering(S)
    BY <1>3, <2>2, <2>3 DEF StrictSubsetOrdering, Over
  <2>. QED
    BY <1>2, <2>4
<1>. QED
  BY <1>4

\* The newest of a set of modules of different versions.
LEMMA NewestOf ==
    ASSUME NEW S \in SUBSET Builds,
           \A b, c \in S : b.version = c.version => b = c
    PROVE  /\ S = {} <=> Newest(S) = None
           /\ S # {} => Newest(S) \in S
           /\ \A b \in S : (\A c \in S : c.version <= b.version) => b = Newest(S)
           /\ \A c \in S : c.version <= Newest(S).version
<1>1. CASE S = {}
  BY <1>1 DEF Newest
<1>2. CASE S # {}
  <2>. DEFINE f == [b \in S |-> b.version]
  <2>1. IsFiniteSet(S)
    BY StoreAssumption, FS_Subset
  <2>2. f \in [S -> Nat] /\ \A b \in S : b.version \in Nat
    BY VersionsAreNumbers
  <2>3. \E b \in S : \A c \in S : f[c] <= f[b]
    <3>. HIDE DEF f
    <3>. QED
      BY <1>2, <2>1, <2>2, GreatestElement
  <2>4. \E b \in S : \A c \in S : c.version <= b.version
    BY <2>3
  <2>5. Newest(S) = CHOOSE b \in S : \A c \in S : c.version <= b.version
    BY <1>2 DEF Newest
  <2>6. Newest(S) \in S /\ \A c \in S : c.version <= Newest(S).version
    BY <2>4, <2>5
  <2>7. ASSUME NEW b \in S, \A c \in S : c.version <= b.version
        PROVE  b = Newest(S)
    <3>1. b.version <= Newest(S).version /\ Newest(S).version <= b.version
      BY <2>6, <2>7
    <3>. QED
      BY <2>2, <2>6, <3>1
  <2>. QED
    BY <1>2, <2>6, <2>7, VersionsAreNumbers
<1>. QED
  BY <1>1, <1>2

LEMMA ChosenIsTrusted ==
    ASSUME NEW d \in Directories, NEW p, NEW vd
    PROVE  /\ Chosen(d, p, vd) = None <=> Trusted(d, vd) = {}
           /\ Chosen(d, p, vd) # None => Chosen(d, p, vd) \in Trusted(d, vd)
           /\ ~Points(d, p, vd) => Chosen(d, p, vd) = Newest(Trusted(d, vd))
           /\ Points(d, p, vd) => Chosen(d, p, vd) = d[p] /\ d[p].version = p
<1>1. CASE Points(d, p, vd)
  <2>1. d[p] \in Trusted(d, vd) /\ d[p] \in Builds /\ d[p].version = p
    BY <1>1, TrustedBuilds DEF Points, Directories
  <2>. QED
    BY <1>1, <2>1, VersionsAreNumbers DEF Chosen
<1>2. CASE ~Points(d, p, vd)
  <2>1. Chosen(d, p, vd) = Newest(Trusted(d, vd))
    BY <1>2 DEF Chosen
  <2>. QED
    BY <1>2, <2>1, TrustedBuilds, NewestOf
<1>. QED
  BY <1>1, <1>2

\* Pointing at what is recovered anyway changes nothing.
LEMMA ChosenIsStable ==
    ASSUME NEW d \in Directories, NEW p \in Versions \cup {None}, NEW vd, NEW q,
           q = IF Chosen(d, p, vd) = None THEN p ELSE Chosen(d, p, vd).version
    PROVE  Chosen(d, q, vd) = Chosen(d, p, vd) /\ q \in Versions \cup {None}
<1>1. CASE Chosen(d, p, vd) = None
  BY <1>1
<1>2. CASE Chosen(d, p, vd) # None
  <2>. DEFINE b == Chosen(d, p, vd)
  <2>1. b \in Trusted(d, vd)
    BY <1>2, ChosenIsTrusted
  <2>2. b \in Builds /\ Points(d, b.version, vd) /\ d[b.version] = b
    BY <2>1, TrustedBuilds
  <2>3. q = b.version
    BY <1>2
  <2>4. Chosen(d, q, vd) = d[q] /\ d[q] = b
    BY <2>2, <2>3 DEF Chosen
  <2>. QED
    BY <2>2, <2>3, <2>4, VersionsAreNumbers
<1>. QED
  BY <1>1, <1>2

-----------------------------------------------------------------------------
(* The inductive invariant.                                                 *)

\* What an operation under way relies on: its staging directory is there, the
\* policy has not changed since the candidate was verified, and a promoted
\* candidate stays until its directory is damaged.
UnderWay ==
    LET c == task.candidate
    IN  /\ task.at = "staged" => staging > 0
        /\ task.at \in InstallSteps => verdict[c] = "installable"
        /\ task.at \in {"promoted", "activated"}
             => dirs[c.version] \in {c, Damaged}
        /\ task.at = "activated" => pointer = c.version

Pending == {"admitted", "staged", "promoted"}

\* An admitted candidate follows the module the pointer names, which may have
\* been damaged since, or nothing at all.
Follows ==
    LET c == task.candidate
    IN  task.at \in Pending =>
          \/ /\ c.supersedes = None
             /\ VerifiedBuilds \subseteq IF task.at = "promoted" THEN {c} ELSE {}
          \/ /\ c.supersedes \in Versions /\ c.supersedes = pointer
             /\ c.version > pointer
             /\ dirs[pointer] = Damaged \/ Verified(pointer)

IInv == TypeOK /\ UnderWay /\ Follows /\ RegisteredIsTrusted

LEMMA TypesAsFunctions ==
    ASSUME TypeOK
    PROVE  /\ dirs \in Directories
           /\ Recovered = None <=> VerifiedBuilds = {}
           /\ Recovered # None => Recovered \in VerifiedBuilds
           /\ VerifiedBuilds \in SUBSET Builds
           /\ RecoveredPointer \in Versions \cup {None}
           /\ Chosen(dirs, RecoveredPointer, verdict) = Recovered
<1>1. dirs \in Directories /\ pointer \in Versions \cup {None}
  BY DEF TypeOK, Directories
<1>2. /\ Recovered = None <=> VerifiedBuilds = {}
      /\ Recovered # None => Recovered \in VerifiedBuilds
      /\ VerifiedBuilds \in SUBSET Builds
  BY <1>1, RecoveredIsChosen, ChosenIsTrusted, TrustedBuilds
<1>3. RecoveredPointer = IF Chosen(dirs, pointer, verdict) = None THEN pointer
                         ELSE Chosen(dirs, pointer, verdict).version
  BY RecoveredIsChosen DEF RecoveredPointer
<1>4. /\ Chosen(dirs, RecoveredPointer, verdict) = Chosen(dirs, pointer, verdict)
      /\ RecoveredPointer \in Versions \cup {None}
  BY <1>1, <1>3, ChosenIsStable
<1>. QED
  BY <1>1, <1>2, <1>4, RecoveredIsChosen

LEMMA RecoveryKeeps ==
    ASSUME TypeOK, pointer' = RecoveredPointer, UNCHANGED <<dirs, verdict>>
    PROVE  /\ pointer' \in Versions \cup {None}
           /\ Recovered' = Recovered /\ VerifiedBuilds' = VerifiedBuilds
BY TypesAsFunctions, RecoveredIsChosen

LEMMA ModulesInit == Init => IInv
<1>. SUFFICES ASSUME Init
              PROVE  IInv
  OBVIOUS
<1>1. TypeOK
  BY VersionsAreNumbers, StoreAssumption
  DEF Init, TypeOK, Idle, Steps, Verdicts, InstallSteps
<1>. QED
  BY <1>1 DEF Init, IInv, UnderWay, Follows, RegisteredIsTrusted, Idle,
              InstallSteps, Pending

\* A task that is over relies on nothing.
LEMMA IdleRests ==
    ASSUME task'.at \notin InstallSteps
    PROVE  UnderWay' /\ Follows'
BY DEF UnderWay, Follows, InstallSteps, Pending

LEMMA InstallTypes ==
    ASSUME TypeOK, UnderWay, Install
    PROVE  TypeOK'
<1>. USE DEF files, Goto
<1>0. Steps = {"idle", "removing", "unregister", "verified", "admitted",
               "staged", "promoted", "activated"}
  BY DEF Steps, InstallSteps
<1>1. ASSUME NEW b \in Builds, Fetch(b)
      PROVE  TypeOK'
  BY <1>0, <1>1 DEF Fetch, TypeOK
<1>2. CASE Admit
  BY <1>0, <1>2, RecoveryKeeps DEF Admit, TypeOK, Idle, InstallSteps
<1>3. CASE Stage
  <2>1. staging' \in 0..MaxStaging
    BY <1>3, StoreAssumption DEF Stage, TypeOK
  <2>. QED
    BY <1>0, <1>3, <2>1 DEF Stage, TypeOK, InstallSteps
<1>4. CASE Promote
  <2>1. staging' \in 0..MaxStaging
    BY <1>4, StoreAssumption DEF Promote, TypeOK, UnderWay
  <2>2. task.candidate \in Builds
    BY <1>4 DEF Promote, TypeOK, InstallSteps
  <2>3. /\ dirs' \in [Versions -> Builds \cup {None, Damaged}]
        /\ \A v \in Versions : dirs'[v] \in Builds => dirs'[v].version = v
    BY <1>4, <2>2, VersionsAreNumbers DEF Promote, TypeOK
  <2>. QED
    BY <1>0, <1>4, <2>1, <2>2, <2>3 DEF Promote, TypeOK
<1>5. CASE AdoptOrRefuse
  <2>1. staging' \in 0..MaxStaging
    BY <1>5, StoreAssumption DEF AdoptOrRefuse, TypeOK, UnderWay
  <2>. QED
    BY <1>0, <1>5, <2>1 DEF AdoptOrRefuse, TypeOK, Idle, InstallSteps
<1>6. CASE ActivateModule
  <2>1. task.candidate \in Builds
    BY <1>6 DEF ActivateModule, TypeOK, InstallSteps
  <2>. QED
    BY <1>0, <1>6, <2>1, VersionsAreNumbers DEF ActivateModule, TypeOK
<1>7. CASE RegisterModule
  <2>1. task.candidate \in Builds
    BY <1>7 DEF RegisterModule, TypeOK, InstallSteps
  <2>. QED
    BY <1>0, <1>7, <2>1 DEF RegisterModule, TypeOK, Idle, InstallSteps
<1>8. CASE InstallFails
  <2>1. staging' \in 0..MaxStaging
    BY <1>8, StoreAssumption DEF InstallFails, TypeOK, UnderWay
  <2>. QED
    BY <1>0, <1>8, <2>1 DEF InstallFails, TypeOK, Idle, InstallSteps
<1>. QED
  BY <1>1, <1>2, <1>3, <1>4, <1>5, <1>6, <1>7, <1>8 DEF Install

LEMMA TypesNext ==
    ASSUME TypeOK, UnderWay, [Next]_vars
    PROVE  TypeOK'
<1>. USE DEF files, Goto
<1>0. Steps = {"idle", "removing", "unregister", "verified", "admitted",
               "staged", "promoted", "activated"}
  BY DEF Steps, InstallSteps
<1>1. CASE Install
  BY <1>1, InstallTypes
<1>2. CASE ListModules
  BY <1>2, RecoveryKeeps DEF ListModules, TypeOK
<1>3. CASE ActivatePersisted
  BY <1>3, RecoveryKeeps, TypesAsFunctions DEF ActivatePersisted, TypeOK
<1>4. CASE Remove
  <2>1. CASE BeginRemove
    BY <1>0, <2>1 DEF BeginRemove, TypeOK, InstallSteps
  <2>2. CASE DeleteEntry
    <3>1. staging' \in 0..MaxStaging /\ pointer' \in Versions \cup {None}
      BY <2>2, StoreAssumption DEF DeleteEntry, TypeOK
    <3>2. /\ dirs' \in [Versions -> Builds \cup {None, Damaged}]
          /\ \A v \in Versions : dirs'[v] \in Builds => dirs'[v].version = v
      BY <2>2, VersionsAreNumbers DEF DeleteEntry, TypeOK
    <3>. QED
      BY <2>2, <3>1, <3>2 DEF DeleteEntry, TypeOK
  <2>3. CASE RemoveDone
    BY <1>0, <2>3 DEF RemoveDone, TypeOK, InstallSteps
  <2>4. CASE RemoveFails
    BY <1>0, <2>4 DEF RemoveFails, TypeOK, Idle, InstallSteps
  <2>5. CASE Unregister
    BY <1>0, <2>5 DEF Unregister, TypeOK, Idle, InstallSteps
  <2>. QED
    BY <1>4, <2>1, <2>2, <2>3, <2>4, <2>5 DEF Remove
<1>5. CASE Crash
  BY <1>0, <1>5 DEF Crash, TypeOK, Idle, InstallSteps
<1>6. CASE UpdateApp
  BY <1>0, <1>6, StoreAssumption DEF UpdateApp, TypeOK, Idle, InstallSteps
<1>7. ASSUME NEW v \in Versions, DamageDirectory(v)
      PROVE  TypeOK'
  <2>1. /\ dirs' \in [Versions -> Builds \cup {None, Damaged}]
        /\ \A w \in Versions : dirs'[w] \in Builds => dirs'[w].version = w
    BY <1>7, VersionsAreNumbers DEF DamageDirectory, TypeOK
  <2>. QED
    BY <1>7, <2>1, StoreAssumption DEF DamageDirectory, TypeOK
<1>8. CASE UNCHANGED vars
  BY <1>8 DEF vars, TypeOK
<1>. QED
  BY <1>1, <1>2, <1>3, <1>4, <1>5, <1>6, <1>7, <1>8 DEF Next

\* The directories and verdicts an operation relies on do not change.
LEMMA RestKeeps ==
    ASSUME TypeOK, UnderWay, Follows, UNCHANGED <<files, verdict, task>>
    PROVE  UnderWay' /\ Follows'
<1>1. VerifiedBuilds' = VerifiedBuilds
      /\ \A v \in Versions : Verified(v)' <=> Verified(v)
  BY DEF VerifiedBuilds, Verified, files
<1>2. task.at \in Pending /\ pointer \in Versions => (Verified(pointer)' <=> Verified(pointer))
  BY <1>1 DEF files
<1>. QED
  BY <1>1, <1>2 DEF UnderWay, Follows, files

LEMMA UnderWayNext ==
    ASSUME IInv, Install
    PROVE  UnderWay' /\ RegisteredIsTrusted'
<1>. USE DEF files, Goto, IInv
<1>1. ASSUME NEW b \in Builds, Fetch(b)
      PROVE  UnderWay' /\ RegisteredIsTrusted'
  BY <1>1 DEF Fetch, UnderWay, RegisteredIsTrusted, InstallSteps
<1>2. CASE Admit
  BY <1>2 DEF Admit, UnderWay, RegisteredIsTrusted, Idle, InstallSteps
<1>3. CASE Stage
  <2>1. staging' > 0
    BY <1>3, StoreAssumption DEF Stage, TypeOK
  <2>. QED
    BY <1>3, <2>1 DEF Stage, UnderWay, RegisteredIsTrusted, InstallSteps, TypeOK
<1>4. CASE Promote
  <2>1. task.candidate \in Builds /\ task.candidate.version \in Versions
    BY <1>4, VersionsAreNumbers DEF Promote, TypeOK, InstallSteps
  <2>2. dirs'[task.candidate.version] = task.candidate
    BY <1>4, <2>1 DEF Promote, TypeOK
  <2>. QED
    BY <1>4, <2>2 DEF Promote, UnderWay, RegisteredIsTrusted, InstallSteps, TypeOK
<1>5. CASE AdoptOrRefuse
  BY <1>5 DEF AdoptOrRefuse, UnderWay, RegisteredIsTrusted, Idle, InstallSteps, TypeOK
<1>6. CASE ActivateModule
  BY <1>6 DEF ActivateModule, UnderWay, RegisteredIsTrusted, InstallSteps, TypeOK
<1>7. CASE RegisterModule
  <2>1. verdict[task.candidate] = "installable"
    BY <1>7 DEF RegisterModule, UnderWay, InstallSteps
  <2>. QED
    BY <1>7, <2>1 DEF RegisterModule, UnderWay, RegisteredIsTrusted, Idle, InstallSteps
<1>8. CASE InstallFails
  BY <1>8 DEF InstallFails, UnderWay, RegisteredIsTrusted, Idle, InstallSteps
<1>. QED
  BY <1>1, <1>2, <1>3, <1>4, <1>5, <1>6, <1>7, <1>8 DEF Install

LEMMA FollowsNext ==
    ASSUME IInv, Install
    PROVE  Follows'
<1>. USE DEF files, Goto, IInv
<1>0. task.at \in InstallSteps => task.candidate \in Builds
  BY DEF TypeOK
<1>1. ASSUME NEW b \in Builds, Fetch(b)
      PROVE  Follows'
  BY <1>1 DEF Fetch, Follows, Pending
<1>2. CASE Admit
  <2>. DEFINE c == task.candidate
  <2>1. CASE ~Extends(c, Recovered)
    <3>1. task' = Idle
      BY <1>2, <2>1 DEF Admit
    <3>. QED
      BY <3>1 DEF Follows, Idle, Pending
  <2>2. CASE Extends(c, Recovered) /\ Recovered = None
    <3>1. c.supersedes = None /\ VerifiedBuilds' = {}
      BY <1>2, <2>2, TypesAsFunctions, RecoveryKeeps DEF Admit, Extends
    <3>2. task'.candidate = c
      BY <1>2, <2>2 DEF Admit, TypeOK
    <3>. QED
      BY <3>1, <3>2 DEF Follows
  <2>3. CASE Extends(c, Recovered) /\ Recovered # None
    <3>1. Recovered \in Builds /\ Points(dirs, Recovered.version, verdict)
          /\ Recovered.version \in Versions
      BY <2>3, TypesAsFunctions, TrustedBuilds, RecoveredIsChosen, VersionsAreNumbers
    <3>2. pointer' = Recovered.version
      BY <1>2, <2>3 DEF Admit, RecoveredPointer
    <3>3. Verified(pointer)'
      BY <1>2, <3>1, <3>2 DEF Admit, Verified, Points
    <3>4. c.supersedes = pointer' /\ c.version > pointer'
      BY <2>3, <3>2 DEF Extends
    <3>5. task'.candidate = c
      BY <1>2, <2>3 DEF Admit, TypeOK
    <3>. QED
      BY <3>1, <3>2, <3>3, <3>4, <3>5 DEF Follows
  <2>. QED
    BY <2>1, <2>2, <2>3
<1>3. CASE Stage
  <2>1. task.at = "admitted" /\ task'.at = "staged" /\ task'.candidate = task.candidate
    BY <1>3 DEF Stage, TypeOK
  <2>2. UNCHANGED <<dirs, pointer, verdict>>
    BY <1>3 DEF Stage
  <2>3. VerifiedBuilds' = VerifiedBuilds /\ (Verified(pointer)' <=> Verified(pointer))
    BY <2>2 DEF VerifiedBuilds, Verified
  <2>. QED
    BY <2>1, <2>2, <2>3 DEF Follows, Pending
<1>4. CASE Promote
  <2>. DEFINE c == task.candidate
  <2>1. /\ task.at = "staged" /\ task'.at = "promoted" /\ task'.candidate = c
        /\ c \in Builds /\ c.version \in Versions
        /\ dirs[c.version] = None
        /\ dirs' = [dirs EXCEPT ![c.version] = c]
        /\ UNCHANGED <<pointer, verdict>>
    BY <1>4, <1>0, VersionsAreNumbers DEF Promote, TypeOK, InstallSteps
  <2>2. CASE c.supersedes = None /\ VerifiedBuilds = {}
    <3>1. \A v \in Versions : ~Points(dirs, v, verdict)
      BY <2>2, TypesAsFunctions, RecoveredIsChosen, TrustedBuilds
    <3>2. \A v \in Versions : Points(dirs', v, verdict') => dirs'[v] = c
      BY <2>1, <3>1 DEF Points, TypeOK
    <3>3. VerifiedBuilds' \subseteq {c}
      BY <3>2, RecoveredIsChosen DEF Trusted, Points
    <3>. QED
      BY <2>1, <2>2, <3>3 DEF Follows
  <2>3. CASE /\ c.supersedes \in Versions /\ c.supersedes = pointer
             /\ c.version > pointer
             /\ dirs[pointer] = Damaged \/ Verified(pointer)
    <3>1. pointer # c.version
      BY <2>1, <2>3, VersionsAreNumbers
    <3>2. dirs'[pointer] = dirs[pointer]
      BY <2>1, <2>3, <3>1 DEF TypeOK
    <3>3. dirs'[pointer'] = Damaged \/ Verified(pointer)'
      BY <2>1, <2>3, <3>2 DEF Verified
    <3>. QED
      BY <2>1, <2>3, <3>3 DEF Follows
  <2>. QED
    BY <2>1, <2>2, <2>3 DEF Follows, Pending
<1>5. CASE AdoptOrRefuse
  <2>. DEFINE c == task.candidate
  <2>1. /\ task.at = "staged" /\ UNCHANGED <<dirs, pointer, verdict>>
        /\ task' = Idle \/ (task'.at = "promoted" /\ task'.candidate = c)
    BY <1>5 DEF AdoptOrRefuse, TypeOK
  <2>2. VerifiedBuilds' = VerifiedBuilds /\ (Verified(pointer)' <=> Verified(pointer))
    BY <2>1 DEF VerifiedBuilds, Verified
  <2>. QED
    BY <2>1, <2>2 DEF Follows, Pending, Idle
<1>6. CASE ActivateModule
  BY <1>6 DEF ActivateModule, Follows, Pending, TypeOK
<1>7. CASE RegisterModule
  BY <1>7 DEF RegisterModule, Follows, Pending, Idle
<1>8. CASE InstallFails
  BY <1>8 DEF InstallFails, Follows, Pending, Idle
<1>. QED
  BY <1>1, <1>2, <1>3, <1>4, <1>5, <1>6, <1>7, <1>8 DEF Install

LEMMA ModulesNext ==
    ASSUME IInv, [Next]_vars
    PROVE  IInv'
<1>. USE DEF files, Goto
<1>0. TypeOK' /\ UnderWay /\ Follows /\ TypeOK /\ RegisteredIsTrusted
  BY TypesNext DEF IInv
<1>. SUFFICES UnderWay' /\ Follows' /\ RegisteredIsTrusted'
  BY <1>0 DEF IInv
<1>1. CASE Install
  BY <1>1, UnderWayNext, FollowsNext
<1>2. CASE ListModules
  BY <1>0, <1>2, IdleRests DEF ListModules, RegisteredIsTrusted, InstallSteps
<1>3. CASE ActivatePersisted
  <2>1. Recovered \in VerifiedBuilds
    BY <1>0, <1>3, TypesAsFunctions DEF ActivatePersisted
  <2>2. verdict[Recovered] # "rejected"
    BY <2>1 DEF VerifiedBuilds, Verified
  <2>. QED
    BY <1>3, <2>2, IdleRests DEF ActivatePersisted, RegisteredIsTrusted, InstallSteps
<1>4. CASE Remove
  <2>1. task'.at \notin InstallSteps
    BY <1>0, <1>4 DEF Remove, BeginRemove, DeleteEntry, RemoveDone, RemoveFails,
       Unregister, Idle, InstallSteps, TypeOK
  <2>2. RegisteredIsTrusted'
    BY <1>0, <1>4 DEF Remove, BeginRemove, DeleteEntry, RemoveDone, RemoveFails,
       Unregister, RegisteredIsTrusted
  <2>. QED
    BY <2>1, <2>2, IdleRests
<1>5. CASE Crash \/ UpdateApp
  BY <1>5, IdleRests DEF Crash, UpdateApp, RegisteredIsTrusted, Idle, InstallSteps
<1>6. ASSUME NEW v \in Versions, DamageDirectory(v)
      PROVE  UnderWay' /\ Follows' /\ RegisteredIsTrusted'
  <2>1. /\ dirs' = [dirs EXCEPT ![v] = Damaged]
        /\ UNCHANGED <<pointer, staging, verdict, task, registered>>
    BY <1>6 DEF DamageDirectory
  <2>2. \A w \in Versions : dirs'[w] = dirs[w] \/ dirs'[w] = Damaged
    BY <2>1 DEF TypeOK, IInv
  <2>3. UnderWay'
    BY <1>0, <2>1, <2>2, VersionsAreNumbers DEF UnderWay, TypeOK, InstallSteps
  <2>4. \A w \in Versions : Points(dirs', w, verdict') =>
                               Points(dirs, w, verdict) /\ dirs'[w] = dirs[w]
    BY <2>1, <2>2, VersionsAreNumbers DEF Points
  <2>5. VerifiedBuilds' \subseteq VerifiedBuilds
    BY <2>4, RecoveredIsChosen DEF Trusted, Points
  <2>6. pointer \in Versions /\ (dirs[pointer] = Damaged \/ Verified(pointer))
          => dirs'[pointer'] = Damaged \/ Verified(pointer)'
    BY <2>1, <2>2 DEF Verified
  <2>7. Follows'
    BY <1>0, <2>1, <2>5, <2>6 DEF Follows
  <2>. QED
    BY <1>0, <2>1, <2>3, <2>7 DEF RegisteredIsTrusted
<1>7. CASE UNCHANGED vars
  BY <1>0, <1>7, RestKeeps DEF vars, RegisteredIsTrusted
<1>. QED
  BY <1>1, <1>2, <1>3, <1>4, <1>5, <1>6, <1>7 DEF Next

LEMMA ModulesInvariant == Spec => []IInv
BY ModulesInit, ModulesNext, PTL DEF Spec

-----------------------------------------------------------------------------
(* Types of the store, for every set of builds and every bound.             *)
THEOREM ModulesTypeCorrect == Spec => []TypeOK
<1>1. IInv => TypeOK
  BY DEF IInv
<1>. QED
  BY <1>1, ModulesInvariant, PTL

(* No launch registers a module its policy rejects ("Installation history   *)
(* is never a trust cache").                                                *)
THEOREM RegisteredTrusted == Spec => []RegisteredIsTrusted
<1>1. IInv => RegisteredIsTrusted
  BY DEF IInv
<1>. QED
  BY <1>1, ModulesInvariant, PTL

-----------------------------------------------------------------------------
(* What a step may do to the installed module.                              *)

\* A directory is written once: by the rename, where there was none.
LEMMA DirectoryStep ==
    ASSUME TypeOK, [Next]_vars, NEW v \in Versions, dirs'[v] # dirs[v]
    PROVE  dirs'[v] \in {None, Damaged} \/ dirs[v] = None
<1>. USE DEF files, Goto
<1>1. CASE Install
  BY <1>1 DEF Install, Fetch, Admit, Stage, Promote, AdoptOrRefuse,
     ActivateModule, RegisterModule, InstallFails, TypeOK
<1>2. CASE Remove
  BY <1>2 DEF Remove, BeginRemove, DeleteEntry, RemoveDone, RemoveFails,
     Unregister, TypeOK
<1>3. CASE \E w \in Versions : DamageDirectory(w)
  BY <1>3 DEF DamageDirectory, TypeOK
<1>4. CASE ListModules \/ ActivatePersisted \/ Crash \/ UpdateApp \/ UNCHANGED vars
  BY <1>4 DEF ListModules, ActivatePersisted, Crash, UpdateApp, vars
<1>. QED
  BY <1>1, <1>2, <1>3, <1>4 DEF Next

(* A versioned directory never changes from one build to another.           *)
THEOREM DirectoriesStay == Spec => DirectoriesAreImmutable
<1>1. TypeOK /\ [Next]_vars
        => [\A v \in Versions :
              dirs[v] \in Builds /\ dirs'[v] \in Builds => dirs'[v] = dirs[v]]_vars
  BY DirectoryStep, VersionsAreNumbers
<1>. QED
  BY <1>1, ModulesTypeCorrect, PTL DEF Spec, DirectoriesAreImmutable

LEMMA RegisteringStep ==
    ASSUME IInv, [Next]_vars, NEW b \in Builds, registered # b, registered' = b
    PROVE  Recovered' = b \/ dirs'[b.version] = Damaged
<1>. USE DEF files, IInv
<1>1. CASE ActivatePersisted
  BY <1>1, RecoveryKeeps DEF ActivatePersisted
<1>2. CASE RegisterModule
  <2>1. /\ b = task.candidate /\ pointer = b.version
        /\ dirs[b.version] \in {b, Damaged} /\ verdict[b] = "installable"
        /\ UNCHANGED <<dirs, pointer, verdict>>
    BY <1>2 DEF RegisterModule, UnderWay, InstallSteps
  <2>2. CASE dirs[b.version] = b
    <3>1. Points(dirs', pointer', verdict')
      BY <2>1, <2>2, VersionsAreNumbers DEF Points
    <3>2. Chosen(dirs', pointer', verdict') = b
      BY <2>1, <2>2, <3>1 DEF Chosen
    <3>. QED
      BY <3>2, RecoveredIsChosen
  <2>. QED
    BY <2>1, <2>2
<1>3. CASE Install /\ ~RegisterModule
  BY <1>3 DEF Install, Fetch, Admit, Stage, Promote, AdoptOrRefuse,
     ActivateModule, InstallFails
<1>4. CASE Remove
  BY <1>4, VersionsAreNumbers DEF Remove, BeginRemove, DeleteEntry, RemoveDone,
     RemoveFails, Unregister
<1>5. CASE \E w \in Versions : DamageDirectory(w)
  BY <1>5 DEF DamageDirectory
<1>6. CASE ListModules \/ Crash \/ UpdateApp \/ UNCHANGED vars
  BY <1>6, VersionsAreNumbers DEF ListModules, Crash, UpdateApp, vars
<1>. QED
  BY <1>1, <1>2, <1>3, <1>4, <1>5, <1>6 DEF Next

(* What is registered is what the next launch recovers, unless a fault      *)
(* damaged its directory.                                                   *)
THEOREM InstalledSurvives == Spec => InstalledSurvivesRelaunch
<1>1. IInv /\ [Next]_vars
        => [\A b \in Builds :
              registered # b /\ registered' = b
              => \/ Recovered' = b
                 \/ dirs'[b.version] = Damaged]_vars
  BY RegisteringStep
<1>. QED
  BY <1>1, ModulesInvariant, PTL DEF Spec, InstalledSurvivesRelaunch

\* The rename adds the candidate, and makes it the recovered one only where
\* the pointer does not verify.
LEMMA PromotionAdds ==
    ASSUME IInv, Promote
    PROVE  /\ task.candidate \in Builds
           /\ VerifiedBuilds' = VerifiedBuilds \cup {task.candidate}
           /\ Recovered' \in {Recovered, task.candidate}
           /\ Recovered' # None
           /\ Recovered' \in VerifiedBuilds'
           /\ Recovered' = Recovered => Recovered \in VerifiedBuilds
           /\ pointer \in Versions /\ Verified(pointer) => Recovered' = Recovered
<1>. DEFINE c == task.candidate
<1>. USE DEF IInv
<1>1. /\ c \in Builds /\ c.version \in Versions /\ dirs[c.version] = None
      /\ dirs' = [dirs EXCEPT ![c.version] = c]
      /\ UNCHANGED <<pointer, verdict>> /\ verdict[c] # "rejected"
  BY VersionsAreNumbers DEF Promote, TypeOK, InstallSteps, UnderWay
<1>2. dirs \in Directories /\ dirs' \in Directories
  BY TypesNext, RecoveredIsChosen DEF Next, Install, TypeOK, Directories
<1>3. /\ \A v \in Versions : v # c.version => dirs'[v] = dirs[v]
      /\ dirs'[c.version] = c
  BY <1>1 DEF TypeOK
<1>4. \A v \in Versions : Points(dirs', v, verdict')
                            <=> Points(dirs, v, verdict) \/ v = c.version
  BY <1>1, <1>3, VersionsAreNumbers DEF Points
<1>5. Trusted(dirs', verdict') = Trusted(dirs, verdict) \cup {c}
  <2>1. ASSUME NEW b \in Builds
        PROVE  b \in Trusted(dirs', verdict') <=> b \in Trusted(dirs, verdict) \/ b = c
    <3>1. b \in Trusted(dirs', verdict')
            <=> Points(dirs', b.version, verdict') /\ dirs'[b.version] = b
      BY <1>2, TrustedBuilds
    <3>2. b \in Trusted(dirs, verdict)
            <=> Points(dirs, b.version, verdict) /\ dirs[b.version] = b
      BY <1>2, TrustedBuilds
    <3>. QED
      BY <1>1, <1>3, <1>4, <3>1, <3>2, VersionsAreNumbers
  <2>2. Trusted(dirs, verdict) \in SUBSET Builds /\ Trusted(dirs', verdict') \in SUBSET Builds
    BY <1>2, TrustedBuilds
  <2>. QED
    BY <1>1, <2>1, <2>2
<1>6. /\ Recovered' = Chosen(dirs', pointer', verdict')
      /\ Recovered = Chosen(dirs, pointer, verdict)
      /\ VerifiedBuilds' = VerifiedBuilds \cup {c}
  BY <1>5, RecoveredIsChosen
<1>7. Recovered' # None /\ Recovered' \in VerifiedBuilds'
  BY <1>2, <1>5, <1>6, ChosenIsTrusted, RecoveredIsChosen
<1>8. CASE pointer \in Versions /\ Points(dirs, pointer, verdict)
  <2>1. Points(dirs', pointer', verdict') /\ pointer # c.version
    BY <1>1, <1>4, <1>8, VersionsAreNumbers DEF Points
  <2>2. Recovered' = dirs[pointer] /\ Recovered = dirs[pointer]
    BY <1>1, <1>3, <1>6, <1>8, <2>1 DEF Chosen
  <2>. QED
    BY <1>1, <1>2, <1>6, <1>7, <1>8, <2>2, TrustedBuilds, RecoveredIsChosen
<1>9. CASE ~(pointer \in Versions /\ Points(dirs, pointer, verdict))
  <2>1. Recovered = Newest(Trusted(dirs, verdict))
    BY <1>2, <1>6, <1>9, ChosenIsTrusted DEF Points
  <2>2. CASE pointer = c.version
    <3>1. Recovered' = c
      <4>1. Points(dirs', pointer', verdict')
        BY <1>1, <1>4, <2>2
      <4>. QED
        BY <1>1, <1>3, <1>6, <2>2, <4>1 DEF Chosen
    <3>2. c \notin VerifiedBuilds /\ c # None
      BY <1>1, <1>2, TrustedBuilds, RecoveredIsChosen, VersionsAreNumbers
    <3>3. Recovered # c
      BY <3>2, TypesAsFunctions
    <3>. QED
      BY <1>1, <1>6, <1>7, <1>9, <3>1, <3>3, RecoveredIsChosen
  <2>3. CASE pointer # c.version
    <3>1. Recovered' = Newest(Trusted(dirs', verdict'))
      BY <1>1, <1>2, <1>4, <1>6, <1>9, <2>3, ChosenIsTrusted DEF Points
    <3>2. ASSUME Recovered' # c
          PROVE  Recovered' = Recovered /\ Recovered \in VerifiedBuilds
      <4>1. Recovered' \in Trusted(dirs, verdict)
        BY <1>5, <1>6, <1>7, <3>2, RecoveredIsChosen
      <4>2. \A b \in Trusted(dirs', verdict') : b.version <= Recovered'.version
        BY <1>2, <3>1, NewestOf, TrustedBuilds
      <4>3. \A b \in Trusted(dirs, verdict) : b.version <= Recovered'.version
        BY <1>5, <4>2
      <4>4. Recovered' = Newest(Trusted(dirs, verdict))
        BY <1>2, <4>1, <4>3, NewestOf, TrustedBuilds
      <4>. QED
        BY <2>1, <4>1, <4>4, RecoveredIsChosen
    <3>3. c \notin VerifiedBuilds /\ c # None
      BY <1>1, <1>2, TrustedBuilds, RecoveredIsChosen, VersionsAreNumbers
    <3>4. Recovered # c
      BY <3>3, TypesAsFunctions
    <3>. QED
      BY <1>1, <1>6, <1>7, <1>9, <3>2, <3>4, RecoveredIsChosen
  <2>. QED
    BY <2>2, <2>3
<1>. QED
  BY <1>8, <1>9

\* Activation makes the candidate the recovered module.
LEMMA ActivationChooses ==
    ASSUME IInv, ActivateModule
    PROVE  /\ task.candidate \in VerifiedBuilds
           /\ VerifiedBuilds' = VerifiedBuilds
           /\ Recovered' = task.candidate
<1>. DEFINE c == task.candidate
<1>. USE DEF IInv
<1>1. /\ c \in Builds /\ c.version \in Versions /\ Points(dirs, c.version, verdict)
      /\ dirs[c.version] = c /\ pointer' = c.version
      /\ UNCHANGED <<dirs, verdict>>
  BY VersionsAreNumbers, RecoveredIsChosen
  DEF ActivateModule, TypeOK, InstallSteps, UnderWay, Points
<1>2. Recovered' = c
  BY <1>1, RecoveredIsChosen DEF Chosen
<1>. QED
  BY <1>1, <1>2, RecoveredIsChosen DEF Trusted, Points

\* Losing directories or the pointer leaves the recovered module, or the
\* newest of what is left.
LEMMA LossLeaves ==
    ASSUME TypeOK, TypeOK', verdict' = verdict,
           \A v \in Versions : dirs'[v] = dirs[v] \/ dirs'[v] \in {None, Damaged},
           pointer' \in {pointer, None}
    PROVE  /\ VerifiedBuilds' \in SUBSET VerifiedBuilds
           /\ \/ Recovered' = Recovered /\ Recovered \in VerifiedBuilds'
              \/ Recovered' = Newest(VerifiedBuilds')
           /\ pointer' = pointer /\ Recovered \in VerifiedBuilds'
                => Recovered' = Recovered
<1>1. dirs \in Directories /\ dirs' \in Directories
  BY DEF TypeOK, Directories
<1>2. \A v \in Versions : Points(dirs', v, verdict')
                            => Points(dirs, v, verdict) /\ dirs'[v] = dirs[v]
  BY VersionsAreNumbers DEF Points
<1>3. VerifiedBuilds' \in SUBSET VerifiedBuilds
  BY <1>2, RecoveredIsChosen DEF Trusted, Points
<1>4. CASE pointer' = pointer /\ Points(dirs', pointer', verdict')
  <2>1. Recovered' = dirs'[pointer] /\ Recovered = dirs[pointer]
        /\ dirs'[pointer] = dirs[pointer]
    BY <1>2, <1>4, RecoveredIsChosen DEF Chosen, Points
  <2>2. dirs'[pointer] \in VerifiedBuilds'
    BY <1>1, <1>4, TrustedBuilds, RecoveredIsChosen DEF Points
  <2>. QED
    BY <1>3, <2>1, <2>2
<1>5. CASE ~Points(dirs', pointer', verdict')
  <2>1. Recovered' = Newest(VerifiedBuilds')
    BY <1>1, <1>5, ChosenIsTrusted, RecoveredIsChosen
  <2>2. ASSUME pointer' = pointer, Recovered \in VerifiedBuilds'
        PROVE  Recovered' = Recovered
    <3>1. ~Points(dirs, pointer, verdict)
      <4>1. SUFFICES ASSUME Points(dirs, pointer, verdict)
                     PROVE  FALSE
        OBVIOUS
      <4>2. Recovered = dirs[pointer] /\ Recovered.version = pointer
        BY <1>1, <4>1, ChosenIsTrusted, RecoveredIsChosen
      <4>3. Recovered \in Builds /\ Points(dirs', Recovered.version, verdict')
        BY <1>1, <2>2, TrustedBuilds, RecoveredIsChosen
      <4>. QED
        BY <1>5, <2>2, <4>2, <4>3
    <3>2. Recovered = Newest(VerifiedBuilds)
      BY <1>1, <3>1, ChosenIsTrusted, RecoveredIsChosen
    <3>3. \A b \in VerifiedBuilds : b.version <= Recovered.version
      BY <1>1, <3>2, NewestOf, TrustedBuilds, RecoveredIsChosen
    <3>4. \A b \in VerifiedBuilds' : b.version <= Recovered.version
      BY <1>3, <3>3
    <3>5. /\ VerifiedBuilds' \in SUBSET Builds
          /\ \A b, d \in VerifiedBuilds' : b.version = d.version => b = d
      BY <1>1, TrustedBuilds, RecoveredIsChosen
    <3>. QED
      BY <2>1, <2>2, <3>4, <3>5, NewestOf
  <2>. QED
    BY <1>3, <2>1, <2>2
<1>6. pointer' = None => ~Points(dirs', pointer', verdict')
  BY VersionsAreNumbers DEF Points
<1>. QED
  BY <1>4, <1>5, <1>6


\* A step that changes no directory, pointer or verdict.
LEMMA FilesStay ==
    ASSUME UNCHANGED <<dirs, pointer, verdict>>
    PROVE  Recovered' = Recovered /\ VerifiedBuilds' = VerifiedBuilds
BY DEF Recovered, VerifiedBuilds, Verified

LEMMA InstalledStep ==
    ASSUME IInv, [Next]_vars,
           Recovered # None, task.at # "removing", verdict' = verdict,
           Recovered \in VerifiedBuilds'
    PROVE  \/ Recovered' = Recovered
           \/ Extends(Recovered', Recovered)
           \/ \E v \in Versions : v = Recovered'.supersedes /\ dirs[v] = Damaged
<1>. USE DEF files, IInv
\* What is known of the candidate that takes over.
<1>0. ASSUME task.at \in {"staged", "promoted"}, Recovered' = task.candidate,
             Recovered' # Recovered,
             task.at = "promoted" \/ ~(pointer \in Versions /\ Verified(pointer))
      PROVE  \/ Extends(Recovered', Recovered)
             \/ \E v \in Versions : v = Recovered'.supersedes /\ dirs[v] = Damaged
  <2>. DEFINE c == task.candidate
  <2>1. Recovered \in VerifiedBuilds
    BY TypesAsFunctions
  <2>2. ~(c.supersedes = None /\ VerifiedBuilds \subseteq IF task.at = "promoted" THEN {c} ELSE {})
    BY <1>0, <2>1
  <2>3. /\ c.supersedes \in Versions /\ c.supersedes = pointer
        /\ c.version > pointer
        /\ dirs[pointer] = Damaged \/ Verified(pointer)
    BY <1>0, <2>2 DEF Follows, Pending
  <2>4. CASE dirs[pointer] = Damaged
    BY <1>0, <2>3, <2>4
  <2>5. CASE Verified(pointer)
    <3>1. Recovered = dirs[pointer] /\ Recovered.version = pointer
      BY <2>3, <2>5, TypesAsFunctions, ChosenIsTrusted, RecoveredIsChosen
    <3>. QED
      BY <1>0, <2>3, <3>1 DEF Extends
  <2>. QED
    BY <2>3, <2>4, <2>5
<1>1. CASE Promote
  <2>1. Recovered' \in {Recovered, task.candidate}
        /\ (pointer \in Versions /\ Verified(pointer) => Recovered' = Recovered)
    BY <1>1, PromotionAdds
  <2>2. task.at = "staged"
    BY <1>1 DEF Promote
  <2>. QED
    BY <1>0, <2>1, <2>2
<1>2. CASE ActivateModule
  <2>1. Recovered' = task.candidate /\ task.at = "promoted"
    BY <1>2, ActivationChooses DEF ActivateModule
  <2>. QED
    BY <1>0, <2>1
<1>3. CASE Admit \/ ListModules \/ ActivatePersisted
  BY <1>3, RecoveryKeeps DEF Admit, ListModules, ActivatePersisted
<1>4. CASE Install /\ ~Promote /\ ~ActivateModule /\ ~Admit
  BY <1>4, FilesStay DEF Install, Fetch, Stage, AdoptOrRefuse, RegisterModule,
     InstallFails
<1>5. CASE Remove
  BY <1>5, FilesStay DEF Remove, BeginRemove, DeleteEntry, RemoveDone,
     RemoveFails, Unregister
<1>6. CASE Crash \/ UpdateApp \/ UNCHANGED vars
  BY <1>6, FilesStay DEF Crash, UpdateApp, vars
<1>7. ASSUME NEW v \in Versions, DamageDirectory(v)
      PROVE  Recovered' = Recovered
  <2>1. TypeOK'
    BY TypesNext
  <2>2. \A w \in Versions : dirs'[w] = dirs[w] \/ dirs'[w] \in {None, Damaged}
    BY <1>7 DEF DamageDirectory, TypeOK
  <2>3. pointer' = pointer
    BY <1>7 DEF DamageDirectory
  <2>. QED
    BY <2>1, <2>2, <2>3, LossLeaves
<1>. QED
  BY <1>1, <1>2, <1>3, <1>4, <1>5, <1>6, <1>7 DEF Next

(* While the installed module verifies and nobody removes it, it stays or   *)
(* its successor takes its place, whatever is installed, fails or crashes - *)
(* for every set of builds, whoever signed them.                            *)
THEOREM InstalledStaysOrAdvances == Spec => InstalledModuleStaysOrAdvances
<1>1. IInv /\ [Next]_vars
        => [/\ Recovered # None
            /\ task.at # "removing"
            /\ verdict' = verdict
            /\ Recovered \in VerifiedBuilds'
            => \/ Recovered' = Recovered
               \/ Extends(Recovered', Recovered)
               \/ \E v \in Versions :
                      v = Recovered'.supersedes /\ dirs[v] = Damaged]_vars
  BY InstalledStep
<1>. QED
  BY <1>1, ModulesInvariant, PTL DEF Spec, InstalledModuleStaysOrAdvances

-----------------------------------------------------------------------------
(* Refinement.                                                              *)

\* The release being brought in.
BroughtIn == IF task.at \in {"admitted", "staged", "promoted"}
             THEN task.candidate ELSE None

AbstractStutter ==
    /\ Recovered' = Recovered /\ VerifiedBuilds' = VerifiedBuilds
    /\ verdict' = verdict /\ BroughtIn' = BroughtIn

LEMMA StutterMaps == AbstractStutter => Abstract!vars' = Abstract!vars
BY DEF AbstractStutter, Abstract!vars, BroughtIn

LEMMA GivingUpMaps ==
    ASSUME TypeOK, Recovered' = Recovered, VerifiedBuilds' = VerifiedBuilds,
           verdict' = verdict, BroughtIn' = None
    PROVE  [Abstract!Next]_(Abstract!vars)
<1>1. CASE BroughtIn = None
  BY <1>1, StutterMaps DEF AbstractStutter
<1>2. CASE BroughtIn # None
  <2>1. Abstract!GiveUp
    BY <1>2 DEF Abstract!GiveUp, BroughtIn
  <2>. QED
    BY <2>1 DEF Abstract!Next
<1>. QED
  BY <1>1, <1>2

LEMMA LosingMaps ==
    ASSUME IInv, [Next]_vars, verdict' = verdict,
           \A v \in Versions : dirs'[v] = dirs[v] \/ dirs'[v] \in {None, Damaged},
           pointer' \in {pointer, None}, BroughtIn' = BroughtIn
    PROVE  [Abstract!Next]_(Abstract!vars)
<1>1. TypeOK /\ TypeOK'
  BY TypesNext DEF IInv
<1>2. /\ VerifiedBuilds' \in SUBSET VerifiedBuilds
      /\ \/ Recovered' = Recovered /\ Recovered \in VerifiedBuilds'
         \/ Recovered' = Newest(VerifiedBuilds')
  BY <1>1, LossLeaves
<1>3. Abstract!Lose
  BY <1>2 DEF Abstract!Lose, Abstract!Newest, Newest, BroughtIn
<1>. QED
  BY <1>3 DEF Abstract!Next

LEMMA InstallMaps ==
    ASSUME IInv, Install
    PROVE  [Abstract!Next]_(Abstract!vars)
<1>. USE DEF files, Goto, IInv
<1>0. task.at \in InstallSteps => task.candidate \in Builds /\ task.candidate # None
  BY VersionsAreNumbers DEF TypeOK
<1>1. ASSUME NEW b \in Builds, Fetch(b)
      PROVE  [Abstract!Next]_(Abstract!vars)
  <2>1. Recovered' = Recovered /\ VerifiedBuilds' = VerifiedBuilds
    BY <1>1, FilesStay DEF Fetch
  <2>2. BroughtIn' = None /\ verdict' = verdict
    BY <1>1 DEF Fetch, BroughtIn
  <2>. QED
    BY <2>1, <2>2, GivingUpMaps
<1>2. CASE Admit
  <2>. DEFINE c == task.candidate
  <2>1. Recovered' = Recovered /\ VerifiedBuilds' = VerifiedBuilds /\ verdict' = verdict
    BY <1>2, RecoveryKeeps DEF Admit
  <2>2. CASE ~Extends(c, Recovered)
    <3>1. BroughtIn' = None
      BY <1>2, <2>2 DEF Admit, BroughtIn, Idle
    <3>. QED
      BY <2>1, <3>1, GivingUpMaps
  <2>3. CASE Extends(c, Recovered)
    <3>1. BroughtIn = None /\ BroughtIn' = c /\ verdict[c] = "installable" /\ c \in Builds
      BY <1>0, <1>2, <2>3 DEF Admit, BroughtIn, TypeOK, UnderWay, InstallSteps
    <3>2. Abstract!Extends(c, Recovered)
      BY <2>3 DEF Extends, Abstract!Extends
    <3>3. Abstract!Admit(c)
      BY <2>1, <3>1, <3>2 DEF Abstract!Admit, BroughtIn
    <3>. QED
      BY <3>1, <3>3 DEF Abstract!Next
  <2>. QED
    BY <2>2, <2>3
<1>3. CASE Stage
  <2>1. Recovered' = Recovered /\ VerifiedBuilds' = VerifiedBuilds
    BY <1>3, FilesStay DEF Stage
  <2>2. BroughtIn' = BroughtIn /\ verdict' = verdict
    BY <1>3 DEF Stage, BroughtIn, TypeOK
  <2>. QED
    BY <2>1, <2>2, StutterMaps DEF AbstractStutter
<1>4. CASE Promote
  <2>. DEFINE c == task.candidate
  <2>1. /\ c \in Builds /\ VerifiedBuilds' = VerifiedBuilds \cup {c}
        /\ Recovered' \in {Recovered, c} /\ Recovered' # None
        /\ Recovered' = Recovered => Recovered \in VerifiedBuilds
    BY <1>4, PromotionAdds
  <2>2. BroughtIn = c /\ BroughtIn' = c /\ verdict' = verdict
    BY <1>4 DEF Promote, BroughtIn, TypeOK
  <2>3. Abstract!Hold
    BY <1>0, <1>4, <2>1, <2>2, VersionsAreNumbers DEF Abstract!Hold, BroughtIn
  <2>. QED
    BY <2>3 DEF Abstract!Next
<1>5. CASE AdoptOrRefuse
  <2>1. Recovered' = Recovered /\ VerifiedBuilds' = VerifiedBuilds
    BY <1>5, FilesStay DEF AdoptOrRefuse
  <2>2. verdict' = verdict /\ BroughtIn' \in {BroughtIn, None}
    BY <1>5 DEF AdoptOrRefuse, BroughtIn, TypeOK, Idle
  <2>. QED
    BY <2>1, <2>2, GivingUpMaps, StutterMaps DEF AbstractStutter
<1>6. CASE ActivateModule
  <2>. DEFINE c == task.candidate
  <2>1. c \in VerifiedBuilds /\ VerifiedBuilds' = VerifiedBuilds /\ Recovered' = c
    BY <1>6, ActivationChooses
  <2>2. BroughtIn = c /\ BroughtIn' = None /\ verdict' = verdict
    BY <1>6 DEF ActivateModule, BroughtIn, TypeOK
  <2>3. Abstract!Advance
    BY <2>1, <2>2 DEF Abstract!Advance, BroughtIn
  <2>. QED
    BY <2>3 DEF Abstract!Next
<1>7. CASE RegisterModule \/ InstallFails
  <2>1. Recovered' = Recovered /\ VerifiedBuilds' = VerifiedBuilds
    BY <1>7, FilesStay DEF RegisterModule, InstallFails
  <2>2. verdict' = verdict /\ BroughtIn' = None
    BY <1>7 DEF RegisterModule, InstallFails, BroughtIn, Idle
  <2>. QED
    BY <2>1, <2>2, GivingUpMaps
<1>. QED
  BY <1>1, <1>2, <1>3, <1>4, <1>5, <1>6, <1>7 DEF Install

LEMMA StepMaps ==
    ASSUME IInv, [Next]_vars
    PROVE  [Abstract!Next]_(Abstract!vars)
<1>. USE DEF files, Goto
<1>0. TypeOK /\ TypeOK'
  BY TypesNext DEF IInv
<1>1. CASE Install
  BY <1>1, InstallMaps
<1>2. CASE ListModules \/ ActivatePersisted
  <2>1. Recovered' = Recovered /\ VerifiedBuilds' = VerifiedBuilds
    BY <1>0, <1>2, RecoveryKeeps DEF ListModules, ActivatePersisted
  <2>2. BroughtIn' = BroughtIn /\ verdict' = verdict
    BY <1>2 DEF ListModules, ActivatePersisted, BroughtIn
  <2>. QED
    BY <2>1, <2>2, StutterMaps DEF AbstractStutter
<1>3. CASE DeleteEntry
  <2>1. \A v \in Versions : dirs'[v] = dirs[v] \/ dirs'[v] \in {None, Damaged}
    BY <1>0, <1>3 DEF DeleteEntry, TypeOK
  <2>2. pointer' \in {pointer, None} /\ verdict' = verdict /\ BroughtIn' = BroughtIn
    BY <1>3 DEF DeleteEntry, BroughtIn
  <2>. QED
    BY <2>1, <2>2, LosingMaps
<1>4. CASE Remove /\ ~DeleteEntry
  <2>1. Recovered' = Recovered /\ VerifiedBuilds' = VerifiedBuilds
    BY <1>4, FilesStay DEF Remove, BeginRemove, RemoveDone, RemoveFails, Unregister
  <2>2. verdict' = verdict /\ BroughtIn' = None
    BY <1>0, <1>4 DEF Remove, BeginRemove, RemoveDone, RemoveFails, Unregister,
       BroughtIn, Idle, TypeOK
  <2>. QED
    BY <1>0, <2>1, <2>2, GivingUpMaps
<1>5. CASE Crash
  <2>1. Recovered' = Recovered /\ VerifiedBuilds' = VerifiedBuilds
    BY <1>5, FilesStay DEF Crash
  <2>2. verdict' = verdict /\ BroughtIn' = None
    BY <1>5 DEF Crash, BroughtIn, Idle
  <2>. QED
    BY <1>0, <2>1, <2>2, GivingUpMaps
<1>6. CASE UpdateApp
  <2>1. /\ dirs' \in Directories /\ verdict' \in [Builds -> Verdicts]
        /\ BroughtIn' = None
    BY <1>0, <1>6 DEF UpdateApp, TypeOK, Directories, BroughtIn, Idle
  <2>2. VerifiedBuilds' \in SUBSET {b \in Builds : verdict'[b] # "rejected"}
    <3>1. \A b \in VerifiedBuilds' : b \in Builds /\ verdict'[b] # "rejected"
      BY <2>1, TrustedBuilds, RecoveredIsChosen DEF Points
    <3>. QED
      BY <3>1
  <2>3. Recovered' \in IF VerifiedBuilds' = {} THEN {None} ELSE VerifiedBuilds'
    BY <2>1, ChosenIsTrusted, RecoveredIsChosen
  <2>4. Abstract!Reassess
    BY <2>1, <2>2, <2>3 DEF Abstract!Reassess, Abstract!Verdicts, Verdicts, BroughtIn
  <2>. QED
    BY <2>4 DEF Abstract!Next
<1>7. ASSUME NEW v \in Versions, DamageDirectory(v)
      PROVE  [Abstract!Next]_(Abstract!vars)
  <2>1. \A w \in Versions : dirs'[w] = dirs[w] \/ dirs'[w] \in {None, Damaged}
    BY <1>0, <1>7 DEF DamageDirectory, TypeOK
  <2>2. pointer' \in {pointer, None} /\ verdict' = verdict /\ BroughtIn' = BroughtIn
    BY <1>7 DEF DamageDirectory, BroughtIn
  <2>. QED
    BY <2>1, <2>2, LosingMaps
<1>8. CASE UNCHANGED vars
  <2>1. Recovered' = Recovered /\ VerifiedBuilds' = VerifiedBuilds
    BY <1>8, FilesStay DEF vars
  <2>2. BroughtIn' = BroughtIn /\ verdict' = verdict
    BY <1>8 DEF vars, BroughtIn
  <2>. QED
    BY <2>1, <2>2, StutterMaps DEF AbstractStutter
<1>. QED
  BY <1>1, <1>2, <1>3, <1>4, <1>5, <1>6, <1>7, <1>8 DEF Next, Remove

LEMMA InitMaps == Init => Abstract!Init
<1>. SUFFICES ASSUME Init
              PROVE  Abstract!Init
  OBVIOUS
<1>1. VerifiedBuilds = {}
  BY VersionsAreNumbers DEF Init, VerifiedBuilds, Verified
<1>2. TypeOK
  BY ModulesInit DEF IInv
<1>3. Recovered = None
  BY <1>1, <1>2, TypesAsFunctions
<1>. QED
  BY <1>1, <1>3 DEF Init, Abstract!Init, Idle

(* The files, pointers, staging directories and steps of the store          *)
(* implement the abstract lifecycle of a market's module.                   *)
THEOREM StoreImplementsLifecycle == Spec => LifecycleImplemented
<1>1. IInv /\ [Next]_vars => [Abstract!Next]_(Abstract!vars)
  BY StepMaps
<1>. QED
  BY <1>1, InitMaps, ModulesInvariant, PTL
  DEF Spec, LifecycleImplemented, Abstract!Spec

=============================================================================
