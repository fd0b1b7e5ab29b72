--------------------------- MODULE LookupSession ---------------------------
(***************************************************************************)
(* The scanner screen (ScannerViewModel, on the main actor) looking products *)
(* up through LookupProductByBarcode and the router while the settings      *)
(* screen selects, installs and removes market modules.                     *)
(*                                                                         *)
(* Every submission starts a task.  A new submission cancels the previous   *)
(* task, but cancellation is only a flag: the old task may still be inside  *)
(* the router, or already on its way back to the main actor.                *)
(***************************************************************************)
EXTENDS MarketSettings

VARIABLE
    scanner     \* the screen: its state, its latest task, its last request

vars == <<routerVars, requests, settingsVars, scanner>>

(* LookupState: "answered" stands for found and notFound, "failed" for      *)
(* failed and invalidInput.                                                 *)
ScreenStates == {"idle", "lookingUp", "answered", "failed"}
Outcomes == {"answered", "failed"}

(* A submission stands for its barcode: last is the submission lastRequest  *)
(* came from, about the one whose outcome is on the screen, and shown the   *)
(* market of latestLookupResult.                                            *)
ScannerRecord ==
    [state : ScreenStates,
     task  : Requests \cup {None},
     last  : Requests \cup {None},
     about : Requests \cup {None},
     shown : Markets \cup {None}]

LookupTypeOK ==
    /\ RouterTypeOK
    /\ SettingsTypeOK
    /\ scanner \in ScannerRecord

EmptyScanner == [state |-> "idle", task |-> None, last |-> None,
                 about |-> None, shown |-> None]

LookupInit ==
    /\ SettingsInit
    /\ scanner = EmptyScanner

(* Mutant: a new submission leaves the previous task alone.                 *)
CancelNothing == requests

(* lookupTask?.cancel(): only the latest task is held by the screen.        *)
CancelLatest ==
    IF scanner.task = None THEN requests
    ELSE [requests EXCEPT ![scanner.task].cancelled = TRUE]

---------------------------------------------------------------------------
(* submit(_:symbology:), from a scan, a typed barcode or a demo barcode.    *)
Submit(r) ==
    /\ requests[r].phase = "free"
    /\ requests' = [CancelLatest EXCEPT ![r] = Blank("submitted", FALSE)]
    /\ scanner' = [scanner EXCEPT !.state = "lookingUp", !.task = r,
                                  !.last = r, !.about = None,
                                  !.shown = None]
    /\ UNCHANGED <<routerVars, settingsVars>>

(* retry() submits lastRequest once more.                                   *)
Retry(r) == scanner.last # None /\ Submit(r)

(* Mutant: reset() leaves latestLookupResult.                               *)
ResetStateOnly ==
    /\ requests' = CancelLatest
    /\ scanner' = [scanner EXCEPT !.state = "idle", !.about = None]

(* reset(), called by onMarketDidChange.                                    *)
ResetScanner ==
    /\ requests' = CancelLatest
    /\ scanner' = [scanner EXCEPT !.state = "idle", !.about = None,
                                  !.shown = None]

(* The task resumes on the main actor.  A cancelled task leaves no trace,   *)
(* and neither does one that ended in CancellationError.                    *)
Retire(r) ==
    /\ requests' = [requests EXCEPT ![r] = FreeRequest]
    /\ UNCHANGED <<routerVars, settingsVars>>

Release(task, r) == IF task = r THEN None ELSE task

DeliverNothing(r) ==
    /\ \/ requests[r].phase \in {"superseded", "aborted"}
       \/ /\ requests[r].phase \in {"resolved", "failed"}
          /\ requests[r].cancelled
    /\ Retire(r)
    /\ scanner' = [scanner EXCEPT !.task = Release(@, r)]

DeliverResult(r) ==
    /\ requests[r].phase = "resolved"
    /\ ~requests[r].cancelled
    /\ Retire(r)
    /\ scanner' = [scanner EXCEPT !.state = "answered",
                                  !.task = Release(@, r),
                                  !.about = r,
                                  !.shown = requests[r].market]

(* Mutant: an error is swallowed.                                           *)
SwallowError(r) ==
    /\ requests[r].phase = "failed"
    /\ ~requests[r].cancelled
    /\ Retire(r)
    /\ scanner' = [scanner EXCEPT !.task = Release(@, r)]

DeliverError(r) ==
    /\ requests[r].phase = "failed"
    /\ ~requests[r].cancelled
    /\ Retire(r)
    /\ scanner' = [scanner EXCEPT !.state = "failed",
                                  !.task = Release(@, r),
                                  !.about = r]

LookupTaskStep(r) ==
    \/ RequestStep(r) /\ UNCHANGED <<settingsVars, scanner>>
    \/ DeliverNothing(r)
    \/ DeliverResult(r)
    \/ DeliverError(r)

SettingsContinues ==
    \/ OperationStep /\ UNCHANGED <<requests, scanner>>
    \/ FinishAndAnnounce /\ ResetScanner

SettingsStep ==
    \/ UserOperation /\ UNCHANGED <<requests, scanner>>
    \/ SettingsContinues

RelaunchApp ==
    /\ Relaunch
    /\ scanner' = EmptyScanner

Next ==
    \/ \E r \in Requests : Submit(r) \/ Retry(r) \/ LookupTaskStep(r)
    \/ SettingsStep
    \/ RelaunchApp

Spec == LookupInit /\ [][Next]_vars

---------------------------------------------------------------------------
(* What the screen shows is the outcome of the last submission, never of an *)
(* earlier one whose task came back late (HF-CONCURRENCY-004).              *)
OutcomeIsForLastRequest ==
    scanner.state \in Outcomes => scanner.about = scanner.last

(* Once no settings operation runs, a shown product or not-found answer     *)
(* belongs to the selected market: neither a lookup overtaken by a change   *)
(* of market nor one answered in the middle of it stays on the screen       *)
(* (HF-MODULE-007).                                                         *)
ResultMarketIsSelected ==
    ~Working /\ scanner.shown # None => scanner.shown = pref

(* The screen is left waiting without a task in one way only: the router    *)
(* moved under the very lookup it waits for, which nobody cancelled.  An    *)
(* earlier task that comes back cancelled, aborted or superseded never      *)
(* takes the latest one's place, and an error always shows.                 *)
Stranded == scanner.state = "lookingUp" /\ scanner.task = None

OnlySupersessionStrands ==
    [][~Stranded /\ Stranded' =>
         \E r \in Requests :
            /\ scanner.task = r
            /\ requests[r].phase = "superseded" /\ ~requests[r].cancelled]_vars
===========================================================================
