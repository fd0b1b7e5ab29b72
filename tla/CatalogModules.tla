--------------------------- MODULE CatalogModules ---------------------------
(***************************************************************************)
(* CatalogModuleManager: the files of one market, as installLatest,         *)
(* recoverInstalledModule, activatePersistedSelection and                   *)
(* removeDownloadedModule leave them, step by step, with a crash possible   *)
(* between any two steps.  The settings model lets one operation run at a   *)
(* time (MarketSettings), and markets do not share files.                   *)
(*                                                                         *)
(* A build is one signed module: its version (the module identity is        *)
(* "<market>-<version>"), the version it supersedes, and its bytes.         *)
(***************************************************************************)
EXTENDS Naturals, FiniteSets

CONSTANTS
    Builds,         \* records [version, supersedes, bytes]
    None,
    Damaged,        \* a module directory that no longer verifies as any build
    MaxStaging,     \* bound on leaked staging directories
    MaxUpdates,     \* bound on app updates
    MaxFaults       \* bound on directories damaged by storage faults

ASSUME StoreAssumption ==
    /\ IsFiniteSet(Builds)
    /\ None \notin Builds
    /\ Damaged \notin Builds
    /\ Damaged # None
    /\ None \notin Nat
    /\ MaxStaging \in Nat /\ MaxUpdates \in Nat /\ MaxFaults \in Nat
    /\ \A b \in Builds : b.version \in Nat /\ b.supersedes \in Nat \cup {None}

VARIABLES
    dirs,           \* version -> the module directory of that version
    pointer,        \* active-module-id.txt
    staging,        \* number of .staging-* directories
    verdict,        \* bundled trust policy and app version, as a verdict
    task,           \* the operation under way
    registered,     \* the module the router was given last
    updates, faults

files == <<dirs, pointer, staging>>
vars == <<files, verdict, task, registered, updates, faults>>

Versions == {b.version : b \in Builds}
InstallSteps == {"verified", "admitted", "staged", "promoted", "activated"}
Steps == {"idle", "removing", "unregister"} \cup InstallSteps
Verdicts == {"installable", "keepable", "rejected"}

TypeOK ==
    /\ dirs \in [Versions -> Builds \cup {None, Damaged}]
    /\ \A v \in Versions : dirs[v] \in Builds => dirs[v].version = v
    /\ pointer \in Versions \cup {None}
    /\ staging \in 0..MaxStaging
    /\ verdict \in [Builds -> Verdicts]
    /\ task \in [at : Steps, candidate : Builds \cup {None}]
    /\ task.at \in InstallSteps => task.candidate \in Builds
    /\ registered \in Builds \cup {None}
    /\ updates \in 0..MaxUpdates
    /\ faults \in 0..MaxFaults

Idle == [at |-> "idle", candidate |-> None]
Goto(step) == task' = [task EXCEPT !.at = step]

---------------------------------------------------------------------------
(* Mutant: what was verified when it was installed is trusted for ever.     *)
WholeDirectory(v) == dirs[v] \in Builds

(* verifiedInstalledModule with purpose persistedActivation: the directory  *)
(* is whole and the policy does not reject the module.                      *)
Verified(v) == dirs[v] \in Builds /\ verdict[dirs[v]] # "rejected"

VerifiedBuilds == {dirs[v] : v \in {w \in Versions : Verified(w)}}

Newest(S) ==
    IF S = {} THEN None
    ELSE CHOOSE b \in S : \A c \in S : c.version <= b.version

(* recoverInstalledModule: the module the pointer names if it verifies, and *)
(* the newest one that verifies otherwise.                                  *)
Recovered ==
    IF pointer \in Versions /\ Verified(pointer) THEN dirs[pointer]
    ELSE Newest(VerifiedBuilds)

(* The pointer file after a recovery: rewritten unless it was good.         *)
RecoveredPointer ==
    IF Recovered = None THEN pointer ELSE Recovered.version

(* The rules of succession between the installed module and a candidate.    *)
Extends(b, a) ==
    IF a = None THEN b.supersedes = None
    ELSE b.supersedes = a.version /\ b.version > a.version

Init ==
    /\ dirs = [v \in Versions |-> None]
    /\ pointer = None
    /\ staging = 0
    /\ verdict = [b \in Builds |-> "installable"]
    /\ task = Idle
    /\ registered = None
    /\ updates = 0
    /\ faults = 0

---------------------------------------------------------------------------
(* installLatest(for:)                                                      *)

(* The transport's candidate passes verification as a new install.  One     *)
(* that does not leaves no trace.                                           *)
Fetch(b) ==
    /\ task.at = "idle"
    /\ verdict[b] = "installable"
    /\ task' = [at |-> "verified", candidate |-> b]
    /\ UNCHANGED <<files, verdict, registered, updates, faults>>

(* Mutant: the rules of succession are not applied.                         *)
AdmitAnything ==
    /\ task.at = "verified"
    /\ pointer' = RecoveredPointer
    /\ Goto("admitted")
    /\ UNCHANGED <<dirs, staging, verdict, registered, updates, faults>>

(* Mutant: the candidate is measured against the module the pointer names,  *)
(* though another one may be what verifies.                                 *)
AdmitAgainstPointer ==
    LET pointed == IF pointer \in Versions /\ Verified(pointer)
                   THEN dirs[pointer] ELSE None
    IN  /\ task.at = "verified"
        /\ pointer' = RecoveredPointer
        /\ task' = IF Extends(task.candidate, pointed)
                   THEN [task EXCEPT !.at = "admitted"]
                   ELSE Idle
        /\ UNCHANGED <<dirs, staging, verdict, registered, updates, faults>>

(* The installed module is recovered, pointer and all, and the candidate is *)
(* measured against it; the same module again is returned as it stands.     *)
Admit ==
    /\ task.at = "verified"
    /\ pointer' = RecoveredPointer
    /\ task' = IF Extends(task.candidate, Recovered)
               THEN [task EXCEPT !.at = "admitted"]
               ELSE Idle
    /\ UNCHANGED <<dirs, staging, verdict, registered, updates, faults>>

(* A staging directory next to the final one receives every file.           *)
Stage ==
    /\ task.at = "admitted"
    /\ staging < MaxStaging
    /\ staging' = staging + 1
    /\ Goto("staged")
    /\ UNCHANGED <<dirs, pointer, verdict, registered, updates, faults>>

(* Mutant: an existing directory is replaced.                               *)
PromoteOver ==
    /\ task.at = "staged"
    /\ dirs' = [dirs EXCEPT ![task.candidate.version] = task.candidate]
    /\ staging' = staging - 1
    /\ Goto("promoted")
    /\ UNCHANGED <<pointer, verdict, registered, updates, faults>>

(* One rename makes the staged files the directory of that version.         *)
Promote ==
    LET v == task.candidate.version
    IN  /\ task.at = "staged"
        /\ dirs[v] = None
        /\ dirs' = [dirs EXCEPT ![v] = task.candidate]
        /\ staging' = staging - 1
        /\ Goto("promoted")
        /\ UNCHANGED <<pointer, verdict, registered, updates, faults>>

(* A directory of that version is already there: it is adopted if it holds  *)
(* exactly the candidate, and the install fails otherwise.                  *)
AdoptOrRefuse ==
    LET v == task.candidate.version
    IN  /\ task.at = "staged"
        /\ dirs[v] # None
        /\ staging' = staging - 1
        /\ task' = IF Verified(v) /\ dirs[v] = task.candidate
                   THEN [task EXCEPT !.at = "promoted"]
                   ELSE Idle
        /\ UNCHANGED <<dirs, pointer, verdict, registered, updates, faults>>

(* Mutant: the pointer file is not written.                                 *)
ActivateWithoutPointer ==
    /\ task.at = "promoted"
    /\ Verified(task.candidate.version)
    /\ Goto("activated")
    /\ UNCHANGED <<files, verdict, registered, updates, faults>>

(* The promoted directory is verified once more and the pointer moves.      *)
ActivateModule ==
    /\ task.at = "promoted"
    /\ Verified(task.candidate.version)
    /\ pointer' = task.candidate.version
    /\ Goto("activated")
    /\ UNCHANGED <<dirs, staging, verdict, registered, updates, faults>>

RegisterModule ==
    /\ task.at = "activated"
    /\ registered' = task.candidate
    /\ task' = Idle
    /\ UNCHANGED <<files, verdict, updates, faults>>

(* Mutant: the cleanup runs although nothing was staged.                    *)
FailWithCleanup ==
    /\ task.at \in InstallSteps \ {"activated"}
    /\ staging' = staging - 1
    /\ task' = Idle
    /\ UNCHANGED <<dirs, pointer, verdict, registered, updates, faults>>

(* Any await or file operation throws; the defer removes the staging        *)
(* directory.                                                               *)
InstallFails ==
    /\ task.at \in InstallSteps \ {"activated"}
    /\ staging' = IF task.at = "staged" THEN staging - 1 ELSE staging
    /\ task' = Idle
    /\ UNCHANGED <<dirs, pointer, verdict, registered, updates, faults>>

---------------------------------------------------------------------------
(* installedModules() alone, and followed by register at launch.            *)

ListModules ==
    /\ task.at = "idle"
    /\ pointer' = RecoveredPointer
    /\ UNCHANGED <<dirs, staging, verdict, task, registered, updates, faults>>

ActivatePersisted ==
    /\ task.at = "idle"
    /\ Recovered # None
    /\ pointer' = RecoveredPointer
    /\ registered' = Recovered
    /\ UNCHANGED <<dirs, staging, verdict, task, updates, faults>>

---------------------------------------------------------------------------
(* removeDownloadedModule(for:) deletes the market directory entry by entry *)
(* and tells the router last.                                               *)

BeginRemove ==
    /\ task.at = "idle"
    /\ Recovered # None \/ registered # None
    /\ Goto("removing")
    /\ UNCHANGED <<files, verdict, registered, updates, faults>>

DeleteEntry ==
    /\ task.at = "removing"
    /\ \/ pointer' = None /\ UNCHANGED <<dirs, staging>>
       \/ staging' = 0 /\ UNCHANGED <<dirs, pointer>>
       \/ /\ \E v \in Versions, rest \in {None, Damaged} :
               dirs[v] # None /\ dirs' = [dirs EXCEPT ![v] = rest]
          /\ UNCHANGED <<pointer, staging>>
    /\ UNCHANGED <<verdict, task, registered, updates, faults>>

Deleted == pointer = None /\ staging = 0 /\ \A v \in Versions : dirs[v] = None

RemoveDone ==
    /\ task.at = "removing"
    /\ Deleted
    /\ Goto("unregister")
    /\ UNCHANGED <<files, verdict, registered, updates, faults>>

RemoveFails ==
    /\ task.at = "removing"
    /\ task' = Idle
    /\ UNCHANGED <<files, verdict, registered, updates, faults>>

Unregister ==
    /\ task.at = "unregister"
    /\ registered' = None
    /\ task' = Idle
    /\ UNCHANGED <<files, verdict, updates, faults>>

---------------------------------------------------------------------------
(* The environment.                                                         *)

Crash ==
    /\ task' = Idle
    /\ registered' = None
    /\ UNCHANGED <<files, verdict, updates, faults>>

(* Another app version, with another trust policy, starts on these files.   *)
UpdateApp ==
    /\ updates < MaxUpdates
    /\ updates' = updates + 1
    /\ verdict' \in [Builds -> Verdicts]
    /\ task' = Idle
    /\ registered' = None
    /\ UNCHANGED <<files, faults>>

DamageDirectory(v) ==
    /\ faults < MaxFaults
    /\ dirs[v] \in Builds
    /\ faults' = faults + 1
    /\ dirs' = [dirs EXCEPT ![v] = Damaged]
    /\ UNCHANGED <<pointer, staging, verdict, task, registered, updates>>

Install ==
    \/ \E b \in Builds : Fetch(b)
    \/ Admit
    \/ Stage
    \/ Promote
    \/ AdoptOrRefuse
    \/ ActivateModule
    \/ RegisterModule
    \/ InstallFails

Remove ==
    \/ BeginRemove
    \/ DeleteEntry
    \/ RemoveDone
    \/ RemoveFails
    \/ Unregister

Next ==
    \/ Install
    \/ ListModules
    \/ ActivatePersisted
    \/ Remove
    \/ Crash
    \/ UpdateApp
    \/ \E v \in Versions : DamageDirectory(v)

Spec == Init /\ [][Next]_vars

---------------------------------------------------------------------------
(* Whatever the router was given is accepted by the policy of this launch:  *)
(* a module revoked by an app update is never served from its files again   *)
(* ("Installation history is never a trust cache", ADR-0013).               *)
RegisteredIsTrusted == registered # None => verdict[registered] # "rejected"

(* A versioned directory never changes from one build to another.           *)
DirectoriesAreImmutable ==
    [][\A v \in Versions :
         dirs[v] \in Builds /\ dirs'[v] \in Builds => dirs'[v] = dirs[v]]_vars

(* While the installed module verifies and nobody removes it, installing,   *)
(* failing and crashing at any step leave it or its successor installed     *)
(* (HF-MODULE-017: "leaves the last verified module ... usable").  The one  *)
(* exception is a release admitted as the successor of a module that a      *)
(* storage fault destroyed before the release was promoted.                 *)
InstalledModuleStaysOrAdvances ==
    [][/\ Recovered # None
       /\ task.at # "removing"
       /\ verdict' = verdict
       /\ Recovered \in VerifiedBuilds'
       => \/ Recovered' = Recovered
          \/ Extends(Recovered', Recovered)
          \/ \E v \in Versions :
                 v = Recovered'.supersedes /\ dirs[v] = Damaged]_vars

(* When installLatest returns a module it registered, that module is also   *)
(* the one the next launch will recover, unless its directory was damaged.  *)
InstalledSurvivesRelaunch ==
    [][\A b \in Builds :
         registered # b /\ registered' = b
         => \/ Recovered' = b
            \/ dirs'[b.version] = Damaged]_vars

(* The store implements the abstract module lifecycle.                      *)
Abstract ==
    INSTANCE ActiveModule WITH
        active <- Recovered,
        held <- VerifiedBuilds,
        pending <- IF task.at \in {"admitted", "staged", "promoted"}
                   THEN task.candidate ELSE None
LifecycleImplemented == Abstract!Spec
===========================================================================
