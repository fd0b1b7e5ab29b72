---------------------------- MODULE UserLibrary ----------------------------
(***************************************************************************)
(* Scan history: UserProductLibraryViewModel on the main actor and           *)
(* SQLiteUserProductLibrary, an actor of its own.  Cancelling a task only   *)
(* raises a flag that the task looks at.  Calls of different tasks reach    *)
(* the store in any order, but the switch is flipped in the order of the    *)
(* user's taps, and failures come back in the order in which they happened. *)
(*                                                                         *)
(* Scans are numbered in the order the camera accepts them, which is the    *)
(* order of scannedAt: a later scan drops the lookup of an earlier one.     *)
(***************************************************************************)
EXTENDS Naturals, Sequences, FiniteSets

CONSTANTS
    Limit,          \* maximumHistoryEntries, 200 in the code
    MaxScans,       \* bound on camera scans
    MaxConsent,     \* bound on historyConsentRevision, UInt64 in the code
    MaxTaps         \* bound on flips of the switch that are under way

ASSUME LibraryAssumption ==
    /\ Limit \in Nat \ {0}
    /\ MaxScans \in Nat /\ MaxConsent \in Nat /\ MaxTaps \in Nat

VARIABLES
    historyEnabled, \* the switch on the screen
    consent,        \* historyConsentRevision
    history,        \* the entries on the screen
    tapped,         \* values asked of the switch, its task not yet begun
    scans,          \* scan -> its lookup and its write task
    accepted,       \* number of scans accepted so far
    load,           \* what load() has read so far
    sent,           \* calls of setHistoryEnabled that wait for the store
    failed,         \* for each call that threw, the value to go back to
    optIn,          \* user_settings.history_enabled
    saved,          \* scan_history
    writing,        \* the scan whose transaction the store is about to run
    revoked,        \* newest scan accepted before the user asked for the last
                    \* disabling that the store carried out
    thrown          \* has a call of setHistoryEnabled failed since launch?

screen == <<historyEnabled, consent, history, tapped>>
camera == <<scans, accepted>>
switch == <<sent, failed, thrown>>
store == <<optIn, saved, writing, revoked>>
vars == <<screen, camera, load, switch, store>>

Scans == 1..MaxScans
Nobody == 0

Phases == {"free", "lookingUp", "starting", "recording", "recorded",
           "reading", "ended"}
TaskPhases == {"starting", "recording", "recorded", "reading"}

ScanRecord ==
    [phase : Phases, token : 0..MaxConsent, cancelled : BOOLEAN]

Parts == {"enabled", "history", "favorites"}

LoadRecord ==
    [todo : SUBSET Parts, running : BOOLEAN, on : BOOLEAN,
     entries : SUBSET Scans]

LibraryTypeOK ==
    /\ historyEnabled \in BOOLEAN
    /\ consent \in 0..MaxConsent
    /\ history \subseteq Scans
    /\ tapped \subseteq BOOLEAN
    /\ scans \in [Scans -> ScanRecord]
    /\ accepted \in 0..MaxScans
    /\ load \in LoadRecord
    /\ sent \in Seq([on : BOOLEAN, was : BOOLEAN, asked : 0..MaxScans])
    /\ failed \in Seq(BOOLEAN)
    /\ optIn \in BOOLEAN
    /\ saved \subseteq Scans /\ Cardinality(saved) <= Limit
    /\ writing \in Scans \cup {Nobody}
    /\ revoked \in 0..MaxScans
    /\ thrown \in BOOLEAN

FreeScan == [phase |-> "free", token |-> 0, cancelled |-> FALSE]
NoLoad == [todo |-> {}, running |-> FALSE, on |-> FALSE, entries |-> {}]

Init ==
    /\ historyEnabled = FALSE
    /\ consent = 0
    /\ history = {}
    /\ tapped = {}
    /\ scans = [s \in Scans |-> FreeScan]
    /\ accepted = 0
    /\ load = NoLoad
    /\ sent = <<>>
    /\ failed = <<>>
    /\ optIn = FALSE
    /\ saved = {}
    /\ writing = Nobody
    /\ revoked = 0
    /\ thrown = FALSE

---------------------------------------------------------------------------
(* Consent.                                                                 *)

(* Mutant: the write tasks already started are not cancelled.               *)
RenewConsent ==
    /\ consent < MaxConsent
    /\ consent' = consent + 1
    /\ UNCHANGED scans

(* Mutant: the revision is moved the wrong way.                             *)
StepConsentBack ==
    /\ consent < MaxConsent
    /\ consent' = consent - 1
    /\ scans' = [s \in Scans |->
                   IF scans[s].phase \in TaskPhases
                   THEN [scans[s] EXCEPT !.cancelled = TRUE] ELSE scans[s]]

(* invalidateCameraHistoryConsent(): every write task is cancelled.         *)
InvalidateConsent ==
    /\ consent < MaxConsent
    /\ consent' = consent + 1
    /\ scans' = [s \in Scans |->
                   IF scans[s].phase \in TaskPhases
                   THEN [scans[s] EXCEPT !.cancelled = TRUE] ELSE scans[s]]

ShowSwitch(on) ==
    /\ historyEnabled' = on
    /\ IF historyEnabled # on THEN InvalidateConsent
       ELSE UNCHANGED <<consent, scans>>

(* The guards of a camera event, from recordCameraScan to its last read.    *)
Consented(s) ==
    /\ historyEnabled
    /\ scans[s].token = consent
    /\ ~scans[s].cancelled

(* The switch is tapped: a task will ask for the opposite of what it shows. *)
Tap ==
    /\ tapped = {}
    /\ Len(sent) + Len(failed) < MaxTaps
    /\ tapped' = {~historyEnabled}
    /\ UNCHANGED <<historyEnabled, consent, history, camera, load, switch, store>>

(* setHistoryEnabled(_:) until its await.                                   *)
SetHistoryEnabled(on) ==
    /\ on \in tapped
    /\ tapped' = {}
    /\ ShowSwitch(on)
    /\ sent' = Append(sent, [on |-> on, was |-> historyEnabled,
                             asked |-> accepted])
    /\ UNCHANGED <<history, accepted, load, failed, thrown, store>>

StoreSwitch ==
    /\ writing = Nobody
    /\ sent # <<>>
    /\ optIn' = Head(sent).on
    /\ revoked' = IF Head(sent).on THEN revoked ELSE Head(sent).asked
    /\ sent' = Tail(sent)
    /\ UNCHANGED <<screen, camera, load, failed, thrown, saved, writing>>

StoreSwitchFails ==
    /\ writing = Nobody
    /\ sent # <<>>
    /\ sent' = Tail(sent)
    /\ failed' = Append(failed, Head(sent).was)
    /\ thrown' = TRUE
    /\ UNCHANGED <<screen, camera, load, store>>

(* setHistoryEnabled(_:) resumes with an error: the switch goes back, and   *)
(* the consent revision stays.                                              *)
RevertSwitch ==
    /\ failed # <<>>
    /\ historyEnabled' = Head(failed)
    /\ failed' = Tail(failed)
    /\ UNCHANGED <<consent, history, tapped, camera, load, sent, thrown, store>>

---------------------------------------------------------------------------
(* A scan: its lookup, then its write task, between the two actors.         *)

Move(s, p, q) ==
    /\ scans[s].phase = p
    /\ scans' = [scans EXCEPT ![s].phase = q]

(* A guard of the main actor: the task goes on only with valid consent.     *)
MoveIfConsented(s, p, q) == Move(s, p, IF Consented(s) THEN q ELSE "ended")

OnlyCamera == UNCHANGED <<screen, accepted, load, switch>>

(* acceptScan(_:) with a consent token; without one a scan never gets here. *)
AcceptScan(s) ==
    /\ s = accepted + 1
    /\ \A t \in Scans : scans[t].phase # "lookingUp"
    /\ historyEnabled
    /\ accepted' = s
    /\ scans' = [scans EXCEPT ![s] = [FreeScan EXCEPT !.phase = "lookingUp",
                                                      !.token = consent]]
    /\ UNCHANGED <<screen, load, switch, store>>

(* The lookup fails, or is superseded by another one.                       *)
DropLookup(s) ==
    /\ Move(s, "lookingUp", "ended")
    /\ OnlyCamera /\ UNCHANGED store

(* recordCameraScan(_:consentToken:), and the first lines of its task.      *)
RecordCameraScan(s) ==
    /\ MoveIfConsented(s, "lookingUp", "starting")
    /\ OnlyCamera /\ UNCHANGED store

StartWrite(s) ==
    /\ MoveIfConsented(s, "starting", "recording")
    /\ OnlyCamera /\ UNCHANGED store

(* recordScan in the store: the cancellation flag and the opt-in ...        *)
BeginRecord(s) ==
    /\ writing = Nobody
    /\ scans[s].phase = "recording"
    /\ ~scans[s].cancelled
    /\ optIn
    /\ writing' = s
    /\ UNCHANGED <<screen, camera, load, switch, optIn, saved, revoked>>

RefuseRecord(s) ==
    /\ writing = Nobody
    /\ scans[s].cancelled \/ ~optIn
    /\ Move(s, "recording", IF scans[s].cancelled THEN "ended" ELSE "recorded")
    /\ OnlyCamera /\ UNCHANGED store

(* Mutant: the oldest are kept.                                             *)
Oldest(S) == {s \in S : Cardinality({t \in S : t < s}) < Limit}

Newest(S) == {s \in S : Cardinality({t \in S : t > s}) < Limit}

(* ... then one transaction, which trims the table to the newest entries,   *)
(* or is rolled back.                                                       *)
CommitRecord(s) ==
    /\ writing = s
    /\ saved' = Newest(saved \cup {s})
    /\ writing' = Nobody
    /\ Move(s, "recording", "recorded")
    /\ OnlyCamera /\ UNCHANGED <<optIn, revoked>>

RollBackRecord(s) ==
    /\ writing = s
    /\ writing' = Nobody
    /\ Move(s, "recording", "ended")
    /\ OnlyCamera /\ UNCHANGED <<optIn, saved, revoked>>

(* The task resumes and reads the history back.                             *)
AfterRecord(s) ==
    /\ MoveIfConsented(s, "recorded", "reading")
    /\ OnlyCamera /\ UNCHANGED store

ReadBack(s) ==
    /\ writing = Nobody
    /\ ~scans[s].cancelled
    /\ history' = saved
    /\ Move(s, "reading", "ended")
    /\ UNCHANGED <<historyEnabled, consent, tapped, accepted, load, switch, store>>

ReadBackFails(s) ==
    /\ Move(s, "reading", "ended")
    /\ OnlyCamera /\ UNCHANGED store

WriteTask(s) ==
    \/ RecordCameraScan(s) \/ StartWrite(s)
    \/ BeginRecord(s) \/ RefuseRecord(s) \/ CommitRecord(s) \/ RollBackRecord(s)
    \/ AfterRecord(s) \/ ReadBack(s) \/ ReadBackFails(s)

---------------------------------------------------------------------------
(* Clearing, deleting, loading.                                             *)

ClearHistory ==
    /\ writing = Nobody
    /\ history # {}
    /\ saved' = {}
    /\ history' = {}
    /\ UNCHANGED <<historyEnabled, consent, tapped, camera, load, switch,
                   optIn, writing, revoked>>

(* The entry is deleted and the history read back, which may fail.          *)
DeleteHistoryEntry(s) ==
    /\ writing = Nobody
    /\ s \in history
    /\ saved' = saved \ {s}
    /\ history' \in {saved', history}
    /\ UNCHANGED <<historyEnabled, consent, tapped, camera, load, switch,
                   optIn, writing, revoked>>

(* load(): three child tasks, which reach the store each in its own time.   *)
StartLoad ==
    /\ ~load.running
    /\ load' = [NoLoad EXCEPT !.running = TRUE, !.todo = Parts]
    /\ UNCHANGED <<screen, camera, switch, store>>

ServeLoad(part) ==
    /\ writing = Nobody
    /\ part \in load.todo
    /\ load' = [load EXCEPT
                  !.todo = @ \ {part},
                  !.on = IF part = "enabled" THEN optIn ELSE @,
                  !.entries = IF part = "history" THEN saved ELSE @]
    /\ UNCHANGED <<screen, camera, switch, store>>

(* A child throws, or the screen that started load() disappears.            *)
LoadFails ==
    /\ load.running
    /\ load' = NoLoad
    /\ UNCHANGED <<screen, camera, switch, store>>

FinishLoad ==
    /\ load.running
    /\ load.todo = {}
    /\ ShowSwitch(load.on)
    /\ history' = load.entries
    /\ load' = NoLoad
    /\ UNCHANGED <<tapped, accepted, switch, store>>

(* The process dies at any point; SQLite rolls an open transaction back.    *)
Relaunch ==
    /\ historyEnabled' = FALSE
    /\ consent' = 0
    /\ history' = {}
    /\ tapped' = {}
    /\ scans' = [s \in Scans |->
                   IF s <= accepted THEN [FreeScan EXCEPT !.phase = "ended"]
                   ELSE FreeScan]
    /\ load' = NoLoad
    /\ sent' = <<>>
    /\ failed' = <<>>
    /\ thrown' = FALSE
    /\ writing' = Nobody
    /\ UNCHANGED <<accepted, optIn, saved, revoked>>

Next ==
    \/ Tap
    \/ \E on \in BOOLEAN : SetHistoryEnabled(on)
    \/ StoreSwitch \/ StoreSwitchFails \/ RevertSwitch
    \/ \E s \in Scans : AcceptScan(s) \/ DropLookup(s) \/ WriteTask(s)
    \/ ClearHistory
    \/ \E s \in Scans : DeleteHistoryEntry(s)
    \/ StartLoad \/ LoadFails \/ FinishLoad
    \/ \E part \in Parts : ServeLoad(part)
    \/ Relaunch

Spec == Init /\ [][Next]_vars

---------------------------------------------------------------------------
(* "Re-enabling history must never resurrect a scan that crossed a          *)
(* revocation boundary": once the store has carried out a disabling, no     *)
(* scan accepted before the user asked for it is saved, whatever was queued *)
(* and however often history is switched on again, as long as the store has *)
(* carried out every flip of the switch since launch.  A flip that fails    *)
(* moves the switch back without a new revision, and two of them do bring   *)
(* such a scan back.                                                        *)
RevokedScansStayOutUnlessThrown ==
    [][\A s \in saved' \ saved : s > revoked \/ thrown]_vars

(* HF-HISTORY-003: at most the newest Limit entries stay on the device: a   *)
(* recorded scan displaces older ones only, and only from a full table.     *)
OnlyNewerEntriesDisplace ==
    [][writing # Nobody =>
         \A s \in saved \ saved' :
            /\ Cardinality(saved') = Limit
            /\ \A t \in saved' : t > s]_vars
===========================================================================
