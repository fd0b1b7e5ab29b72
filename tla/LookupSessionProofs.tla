------------------------ MODULE LookupSessionProofs ------------------------
(***************************************************************************)
(* Proofs about lookups, the router and the settings: type correctness, the *)
(* router's captured sources, the persisted selection, and what the scanner *)
(* screen shows.                                                            *)
(***************************************************************************)
EXTENDS LookupSession, TLAPS

(* The definitions of the steps of each group.                              *)
USE DEF Phases, Sources, Kinds, Places, ScreenStates, Outcomes

LEMMA SourceType ==
    ASSUME RouterTypeOK, NEW m \in Markets
    PROVE  Source(m) \in Sources
BY DEF Source, RouterTypeOK

LEMMA BlankType ==
    ASSUME NEW q \in Phases, NEW c \in BOOLEAN
    PROVE  Blank(q, c) \in RequestRecord
BY RouterAssumption DEF Blank, RequestRecord

LEMMA AdvanceType ==
    ASSUME RouterTypeOK, NEW r \in Requests, NEW p, NEW q \in Phases,
           Advance(r, p, q)
    PROVE  requests' \in [Requests -> RequestRecord]
<1>1. requests[r].cancelled \in BOOLEAN
  BY DEF RouterTypeOK, RequestRecord
<1>. QED
  BY <1>1, BlankType DEF Advance, RouterTypeOK

(* The steps of one request keep the types, and so do the changes of the    *)
(* routing table.                                                           *)
LEMMA RequestStepType ==
    ASSUME RouterTypeOK, NEW r \in Requests, RequestStep(r)
    PROVE  RouterTypeOK'
<1>1. requests' \in [Requests -> RequestRecord]
  <2>2. CASE AbortBeforeRouter(r)
    BY <2>2, AdvanceType DEF AbortBeforeRouter
  <2>3. CASE RejectPayload(r)
    BY <2>3, AdvanceType DEF RejectPayload
  <2>4. CASE EnterRouter(r)
    <3>. DEFINE m == IF requests[r].scope = Active THEN selectedMarket
                     ELSE requests[r].scope
                entered == [phase |-> "awaiting", scope |-> requests[r].scope,
                            market |-> m, source |-> Source(m),
                            seen |-> revision, cancelled |-> FALSE]
    <3>1. /\ requests[r] \in RequestRecord
          /\ revision \in 0..MaxRevision
          /\ selectedMarket \in Markets
      BY DEF RouterTypeOK
    <3>2. requests[r].scope \in Markets \cup {Active} /\ m \in Markets
      BY <3>1 DEF RequestRecord
    <3>3. Source(m) \in Sources
      BY <3>2, SourceType
    <3>4. entered \in RequestRecord
      BY <3>1, <3>2, <3>3 DEF RequestRecord
    <3>5. Blank("failed", FALSE) \in RequestRecord
      BY BlankType
    <3>6. requests' = [requests EXCEPT ![r] = IF Source(m) = None
                                              THEN Blank("failed", FALSE)
                                              ELSE entered]
      BY <2>4 DEF EnterRouter
    <3>. QED
      BY <3>4, <3>5, <3>6 DEF RouterTypeOK
  <2>5. CASE AnswerResolved(r)
    <3>1. requests[r] \in RequestRecord
      BY DEF RouterTypeOK
    <3>2. Resolved(requests[r].market) \in RequestRecord
      BY <3>1, RouterAssumption DEF Resolved, RequestRecord
    <3>. QED
      BY <2>5, <3>2 DEF AnswerResolved, RouterTypeOK
  <2>6. CASE AnswerSuperseded(r)
    BY <2>6, AdvanceType DEF AnswerSuperseded
  <2>7. CASE AnswerAborted(r)
    BY <2>7, AdvanceType DEF AnswerAborted
  <2>8. CASE AnswerFailed(r)
    BY <2>8, AdvanceType DEF AnswerFailed
  <2>. QED
    BY <2>2, <2>3, <2>4, <2>5, <2>6, <2>7, <2>8 DEF RequestStep
<1>. QED
  BY <1>1 DEF RequestStep, routerVars, RouterTypeOK

---------------------------------------------------------------------------
(* What the settings do to the routing table keeps its type.                *)
LEMMA RoutingType ==
    ASSUME RouterTypeOK, UNCHANGED requests,
           \/ \E m \in Markets : SelectMarket(m) \/ RemoveDownloadedModule(m)
           \/ \E m \in Markets, v \in Versions \cup {None} :
                 RegisterDownloadedModule(m, v)
    PROVE  RouterTypeOK'
BY RouterAssumption DEF RouterTypeOK, SelectMarket, RemoveDownloadedModule,
                        RegisterDownloadedModule

LEMMA GotoType ==
    ASSUME SettingsTypeOK, NEW p \in Places, Goto(p)
    PROVE  /\ op'.kind = op.kind /\ op'.market = op.market
           /\ op'.todo = op.todo /\ op'.at = p
           /\ op' \in OpRecord
BY DEF SettingsTypeOK, Goto, OpRecord

LEMMA StartType ==
    ASSUME NEW k \in Kinds, NEW p \in Places, NEW m \in Markets, Start(k, p, m)
    PROVE  op' \in OpRecord
BY DEF Start, OpRecord

LEMMA IdleType ==
    Idle \in OpRecord
BY RouterAssumption DEF Idle, OpRecord

(* One step of a settings operation keeps the types.                        *)
LEMMA OperationStepType ==
    ASSUME RouterTypeOK, SettingsTypeOK, OperationStep, UNCHANGED requests
    PROVE  RouterTypeOK' /\ SettingsTypeOK'
<1>. USE DEF SettingsTypeOK, settingsVars, routerVars
<1>1. CASE Fail
  BY <1>1, IdleType DEF Fail, RouterTypeOK
<1>2. CASE ListInstalled
  BY <1>2, GotoType DEF ListInstalled, RouterTypeOK
<1>3. CASE ActivatePersistedSelection
  BY <1>3 DEF ActivatePersistedSelection, RouterTypeOK, OpRecord
<1>4. ASSUME NEW m \in Markets, RegisterInstalled(m)
      PROVE  RouterTypeOK' /\ SettingsTypeOK'
  <2>1. disk[m] \in Versions \cup {None}
    OBVIOUS
  <2>2. RouterTypeOK'
    BY <1>4, <2>1, RoutingType DEF RegisterInstalled
  <2>3. op' \in OpRecord
    BY <1>4 DEF RegisterInstalled, AfterRegistration, OpRecord
  <2>. QED
    BY <1>4, <2>2, <2>3 DEF RegisterInstalled
<1>5. ASSUME NEW v \in Versions, InstallNewModule(v)
      PROVE  RouterTypeOK' /\ SettingsTypeOK'
  BY <1>5 DEF InstallNewModule, RouterTypeOK, OpRecord
<1>6. ASSUME NEW v \in Versions, InstallFailsAfterPromotion(v)
      PROVE  RouterTypeOK' /\ SettingsTypeOK'
  BY <1>6, IdleType DEF InstallFailsAfterPromotion, RouterTypeOK
<1>7. CASE InstallSameModule
  BY <1>7, GotoType DEF InstallSameModule, RouterTypeOK
<1>8. CASE DeleteMarketDirectory
  BY <1>8, GotoType DEF DeleteMarketDirectory, RouterTypeOK
<1>9. CASE DeleteFails
  BY <1>9, IdleType DEF DeleteFails, RouterTypeOK, OlderThan
<1>10. CASE Unroute
  BY <1>10, GotoType, RoutingType DEF Unroute, OpRecord
<1>11. CASE RouteSelection
  BY <1>11, GotoType, RoutingType DEF RouteSelection, OpRecord
<1>12. CASE AnswerCheck
  BY <1>12, GotoType DEF AnswerCheck, RouterTypeOK
<1>13. CASE FinishSilently
  BY <1>13, IdleType DEF FinishSilently, RouterTypeOK
<1>. QED
  BY <1>1, <1>2, <1>3, <1>4, <1>5, <1>6, <1>7, <1>8, <1>9, <1>10, <1>11,
     <1>12, <1>13 DEF OperationStep

---------------------------------------------------------------------------
LEMMA CancelType ==
    ASSUME LookupTypeOK
    PROVE  CancelLatest \in [Requests -> RequestRecord]
BY DEF LookupTypeOK, RouterTypeOK, CancelLatest, RequestRecord, ScannerRecord

LEMMA UserOperationType ==
    ASSUME RouterTypeOK, SettingsTypeOK, UserOperation, UNCHANGED requests
    PROVE  RouterTypeOK' /\ SettingsTypeOK'
<1>1. op' \in OpRecord
  BY StartType, RouterAssumption
     DEF UserOperation, Load, BeginCheck, BeginRemove, BeginSelect,
         BeginInstall, SettingsTypeOK
<1>2. UNCHANGED <<pref, disk, listed, routerVars>>
  BY DEF UserOperation, Load, BeginCheck, BeginRemove, BeginSelect, BeginInstall
<1>. QED
  BY <1>1, <1>2 DEF RouterTypeOK, SettingsTypeOK, routerVars

(* The task of a lookup on its way back to the screen.                      *)
LEMMA DeliveryType ==
    ASSUME LookupTypeOK, NEW r \in Requests,
           DeliverNothing(r) \/ DeliverResult(r) \/ DeliverError(r)
    PROVE  LookupTypeOK'
<1>1. FreeRequest \in RequestRecord
  BY BlankType DEF FreeRequest
<1>2. RouterTypeOK' /\ SettingsTypeOK'
  BY <1>1 DEF DeliverNothing, DeliverResult, DeliverError, Retire,
              LookupTypeOK, RouterTypeOK, SettingsTypeOK, routerVars,
              settingsVars
<1>3. requests[r].market \in Markets \cup {None}
  BY DEF LookupTypeOK, RouterTypeOK, RequestRecord
<1>4. scanner' \in ScannerRecord
  BY <1>3 DEF DeliverNothing, DeliverResult, DeliverError, Release,
              LookupTypeOK, ScannerRecord
<1>. QED
  BY <1>2, <1>4 DEF LookupTypeOK

LEMMA NextType ==
    ASSUME LookupTypeOK, [Next]_vars
    PROVE  LookupTypeOK'
<1>1. ASSUME NEW r \in Requests, Submit(r) \/ Retry(r)
      PROVE  LookupTypeOK'
  <2>1. Submit(r)
    BY <1>1 DEF Retry
  <2>2. RouterTypeOK' /\ SettingsTypeOK'
    BY <2>1, CancelType, BlankType
       DEF Submit, LookupTypeOK, RouterTypeOK, SettingsTypeOK, routerVars,
           settingsVars
  <2>3. scanner' \in ScannerRecord
    BY <2>1 DEF Submit, LookupTypeOK, ScannerRecord
  <2>. QED
    BY <2>2, <2>3 DEF LookupTypeOK
<1>2. ASSUME NEW r \in Requests, RequestStep(r),
             UNCHANGED <<settingsVars, scanner>>
      PROVE  LookupTypeOK'
  BY <1>2, RequestStepType DEF LookupTypeOK, SettingsTypeOK, settingsVars
<1>3. ASSUME NEW r \in Requests, LookupTaskStep(r)
      PROVE  LookupTypeOK'
  BY <1>2, <1>3, DeliveryType DEF LookupTaskStep
<1>4. CASE OperationStep /\ UNCHANGED <<requests, scanner>>
  BY <1>4, OperationStepType DEF LookupTypeOK
<1>5. CASE UserOperation /\ UNCHANGED <<requests, scanner>>
  BY <1>5, UserOperationType DEF LookupTypeOK
<1>6. CASE FinishAndAnnounce /\ ResetScanner
  <2>1. RouterTypeOK' /\ SettingsTypeOK'
    BY <1>6, CancelType, IdleType
       DEF FinishAndAnnounce, ResetScanner, LookupTypeOK, RouterTypeOK,
           SettingsTypeOK, routerVars, OpRecord
  <2>2. scanner' \in ScannerRecord
    BY <1>6 DEF ResetScanner, LookupTypeOK, ScannerRecord
  <2>. QED
    BY <2>1, <2>2 DEF LookupTypeOK
<1>7. CASE RelaunchApp
  <2>1. FreeRequest \in RequestRecord
    BY BlankType DEF FreeRequest
  <2>2. RouterTypeOK'
    BY <1>7, <2>1, RouterAssumption
       DEF RelaunchApp, Relaunch, RouterTypeOK, NothingListed, LookupTypeOK,
           SettingsTypeOK
  <2>3. SettingsTypeOK'
    BY <1>7, RouterAssumption
       DEF RelaunchApp, Relaunch, Idle, OpRecord, NothingListed, LookupTypeOK,
           SettingsTypeOK
  <2>4. scanner' \in ScannerRecord
    BY <1>7 DEF RelaunchApp, EmptyScanner, ScannerRecord
  <2>. QED
    BY <2>2, <2>3, <2>4 DEF LookupTypeOK
<1>8. CASE UNCHANGED vars
  BY <1>8 DEF vars, routerVars, settingsVars, LookupTypeOK, RouterTypeOK,
              SettingsTypeOK
<1>. QED
  BY <1>1, <1>3, <1>4, <1>5, <1>6, <1>7, <1>8
     DEF Next, SettingsStep, SettingsContinues

LEMMA InitType == LookupInit => LookupTypeOK
<1>. SUFFICES ASSUME LookupInit PROVE LookupTypeOK
  OBVIOUS
<1>1. FreeRequest \in RequestRecord
  BY BlankType DEF FreeRequest
<1>2. RouterTypeOK
  BY <1>1, RouterAssumption
     DEF LookupInit, SettingsInit, RouterInit, RouterTypeOK
<1>3. SettingsTypeOK
  BY RouterAssumption
     DEF LookupInit, SettingsInit, LaunchSettings, Idle, OpRecord,
         NothingListed, SettingsTypeOK
<1>. QED
  BY <1>2, <1>3 DEF LookupInit, LookupTypeOK, EmptyScanner, ScannerRecord

(* Every variable keeps its type, for any markets, releases, tasks and      *)
(* bound on the revision.                                                   *)
THEOREM TypeCorrect == Spec => []LookupTypeOK
BY InitType, NextType, PTL DEF Spec

---------------------------------------------------------------------------
(* What CancelLatest does to a request: the latest task is marked, and      *)
(* nothing that any request captured is touched.                            *)
LEMMA CancelKeeps ==
    ASSUME LookupTypeOK, NEW q \in Requests
    PROVE  /\ CancelLatest[q].phase = requests[q].phase
           /\ CancelLatest[q].scope = requests[q].scope
           /\ CancelLatest[q].market = requests[q].market
           /\ CancelLatest[q].source = requests[q].source
           /\ CancelLatest[q].seen = requests[q].seen
           /\ CancelLatest[q].cancelled = (requests[q].cancelled
                                          \/ scanner.task = q)
<1>1. /\ requests \in [Requests -> RequestRecord]
      /\ requests[q] \in RequestRecord
      /\ scanner.task \in Requests \cup {None}
  BY DEF LookupTypeOK, RouterTypeOK, ScannerRecord
<1>2. CASE scanner.task = q
  BY <1>1, <1>2, RouterAssumption DEF CancelLatest, RequestRecord
<1>3. CASE scanner.task # q
  BY <1>1, <1>3, RouterAssumption DEF CancelLatest, RequestRecord
<1>. QED
  BY <1>2, <1>3

(* A settings operation either leaves the routing table alone or moves its  *)
(* revision.                                                                *)
LEMMA RoutingMoves ==
    ASSUME RouterTypeOK, OperationStep
    PROVE  \/ UNCHANGED routerVars
           \/ revision' = revision + 1 /\ revision' \in Nat
<1>1. revision \in Nat
  BY RouterAssumption DEF RouterTypeOK
<1>2. ASSUME NEW m \in Markets, RegisterInstalled(m)
      PROVE  revision' = revision + 1
  BY <1>2 DEF RegisterInstalled, RegisterDownloadedModule
<1>3. CASE Unroute
  BY <1>1, <1>3 DEF Unroute, RemoveDownloadedModule
<1>4. CASE RouteSelection
  BY <1>1, <1>4 DEF RouteSelection, SelectMarket, routerVars
<1>5. CASE ~RouteSelection /\ ~Unroute /\ ~(\E m \in Markets : RegisterInstalled(m))
  BY <1>5 DEF OperationStep, Fail, ListInstalled, ActivatePersistedSelection,
              InstallNewModule, InstallFailsAfterPromotion, InstallSameModule,
              DeleteMarketDirectory, DeleteFails, AnswerCheck, FinishSilently
<1>. QED
  BY <1>1, <1>2, <1>3, <1>4, <1>5

(* The inductive form of CapturedSourceIsCurrent: a waiting request never   *)
(* saw a revision the router has not reached yet.                           *)
Captured(r) ==
    requests[r].phase = "awaiting" =>
        /\ requests[r].seen <= revision
        /\ requests[r].seen = revision =>
              /\ requests[r].source = Source(requests[r].market)
              /\ requests[r].scope = Active =>
                    requests[r].market = selectedMarket

LEMMA CapturedKept ==
    ASSUME LookupTypeOK, NEW q \in Requests, Captured(q),
           UNCHANGED routerVars,
           \/ requests'[q].phase # "awaiting"
           \/ /\ requests'[q].phase = requests[q].phase
              /\ requests'[q].scope = requests[q].scope
              /\ requests'[q].market = requests[q].market
              /\ requests'[q].source = requests[q].source
              /\ requests'[q].seen = requests[q].seen
    PROVE  Captured(q)'
BY DEF Captured, Source, routerVars

LEMMA CapturedByRequestStep ==
    ASSUME LookupTypeOK, NEW r \in Requests, RequestStep(r),
           NEW q \in Requests, Captured(q)
    PROVE  Captured(q)'
<1>. UNCHANGED routerVars
  BY DEF RequestStep
<1>1. CASE q # r
  <2>1. requests'[q] = requests[q]
    BY <1>1 DEF RequestStep, AbortBeforeRouter, RejectPayload, EnterRouter,
                AnswerResolved, AnswerSuperseded, AnswerAborted, AnswerFailed,
                Advance, LookupTypeOK, RouterTypeOK
  <2>. QED
    BY <2>1, CapturedKept
<1>2. CASE q = r /\ EnterRouter(r)
  <2>1. revision \in Nat
    BY RouterAssumption DEF LookupTypeOK, RouterTypeOK
  <2>2. requests'[q].phase = "awaiting" =>
           /\ requests'[q].seen = revision
           /\ requests'[q].source = Source(requests'[q].market)
           /\ requests'[q].scope = Active => requests'[q].market = selectedMarket
    BY <1>2 DEF EnterRouter, Blank, LookupTypeOK, RouterTypeOK
  <2>. QED
    BY <2>1, <2>2 DEF Captured, Source, routerVars
<1>3. CASE q = r /\ ~EnterRouter(r)
  <2>1. requests'[q].phase # "awaiting"
    BY <1>3 DEF RequestStep, AbortBeforeRouter, RejectPayload,
                AnswerResolved, AnswerSuperseded, AnswerAborted, AnswerFailed,
                Advance, Blank, Resolved, LookupTypeOK, RouterTypeOK
  <2>. QED
    BY <2>1, CapturedKept
<1>. QED
  BY <1>1, <1>2, <1>3

LEMMA CapturedNext ==
    ASSUME LookupTypeOK, [Next]_vars, NEW q \in Requests, Captured(q)
    PROVE  Captured(q)'
<1>1. ASSUME NEW r \in Requests, Submit(r)
      PROVE  Captured(q)'
  <2>1. UNCHANGED routerVars
    BY <1>1 DEF Submit
  <2>2. CASE q = r
    BY <1>1, <2>1, <2>2, CancelType, CapturedKept DEF Submit, Blank
  <2>3. CASE q # r
    <3>1. requests'[q] = CancelLatest[q]
      BY <1>1, <2>3, CancelType DEF Submit
    <3>. QED
      BY <2>1, <3>1, CancelKeeps, CapturedKept
  <2>. QED
    BY <2>2, <2>3
<1>2. ASSUME NEW r \in Requests, LookupTaskStep(r)
      PROVE  Captured(q)'
  <2>1. CASE RequestStep(r)
    BY <2>1, CapturedByRequestStep
  <2>2. CASE UNCHANGED routerVars /\ requests' = [requests EXCEPT ![r] = FreeRequest]
    <3>1. requests'[q] = requests[q] \/ requests'[q].phase = "free"
      BY <2>2 DEF FreeRequest, Blank, LookupTypeOK, RouterTypeOK
    <3>. QED
      BY <2>2, <3>1, CapturedKept
  <2>. QED
    BY <1>2, <2>1, <2>2
       DEF LookupTaskStep, DeliverNothing, DeliverResult, DeliverError, Retire
<1>3. CASE OperationStep /\ UNCHANGED <<requests, scanner>>
  <2>1. CASE UNCHANGED routerVars
    BY <1>3, <2>1, CapturedKept
  <2>2. CASE revision' = revision + 1
    <3>1. revision \in Nat /\ requests[q].seen \in Nat
      BY RouterAssumption DEF LookupTypeOK, RouterTypeOK, RequestRecord
    <3>. QED
      BY <1>3, <2>2, <3>1 DEF Captured
  <2>. QED
    BY <1>3, <2>1, <2>2, RoutingMoves DEF LookupTypeOK
<1>4. CASE UserOperation /\ UNCHANGED <<requests, scanner>>
  <2>1. UNCHANGED routerVars
    BY <1>4 DEF UserOperation, Load, BeginCheck, BeginRemove, BeginSelect,
                BeginInstall
  <2>. QED
    BY <1>4, <2>1, CapturedKept
<1>5. CASE FinishAndAnnounce /\ ResetScanner
  BY <1>5, CancelKeeps, CapturedKept DEF FinishAndAnnounce, ResetScanner
<1>6. CASE RelaunchApp
  BY <1>6 DEF RelaunchApp, Relaunch, FreeRequest, Blank, Captured
<1>7. CASE UNCHANGED vars
  BY <1>7, CapturedKept DEF vars
<1>. QED
  BY <1>1, <1>2, <1>3, <1>4, <1>5, <1>6, <1>7
     DEF Next, Retry, SettingsStep, SettingsContinues

(* A waiting lookup that saw the present revision captured the catalog the  *)
(* router would choose now: the revision alone protects a lookup from being *)
(* answered out of a replaced or removed module.                            *)
THEOREM SourcesAreCurrent == Spec => []CapturedSourceIsCurrent
<1>. DEFINE Inv == LookupTypeOK /\ \A q \in Requests : Captured(q)
<1>1. LookupInit => Inv
  <2>1. LookupInit => \A q \in Requests : Captured(q)
    BY DEF LookupInit, SettingsInit, RouterInit, FreeRequest, Blank, Captured
  <2>. QED
    BY <2>1, InitType
<1>2. Inv /\ [Next]_vars => Inv'
  BY NextType, CapturedNext
<1>3. Inv => CapturedSourceIsCurrent
  BY DEF Captured, CapturedSourceIsCurrent
<1>. QED
  BY <1>1, <1>2, <1>3, PTL DEF Spec

---------------------------------------------------------------------------
(* Where each kind of operation can be.                                     *)
OpShape ==
    \/ op.kind = "none" /\ op.at = "idle"
    \/ op.kind = "load" /\ op.at \in {"listing", "activating", "registering",
                                      "selecting", "done"}
    \/ op.kind = "select" /\ op.at \in {"selecting", "done"}
    \/ op.kind = "install" /\ op.at \in {"fetching", "registering", "listing",
                                         "selecting", "done"}
    \/ op.kind = "remove" /\ op.at \in {"deleting", "unrouting", "selecting",
                                        "listing", "done"}
    \/ op.kind = "check" /\ op.at \in {"querying", "done"}

(* The one moment at which the router is ahead of the persisted selection:  *)
(* between the last await of a selection or installation and its end.       *)
Announcing == op.at = "done" /\ op.kind \in {"select", "install"}

(* The inductive form of RouterFollowsPreference.                           *)
SelectionInv ==
    /\ OpShape
    /\ selectedMarket = IF Announcing THEN op.market ELSE pref
    /\ op.kind = "remove" => op.market = pref
    /\ op.kind = "load" /\ op.at \in {"registering", "selecting", "done"} =>
          op.market = pref

LEMMA SelectionKeptByOperation ==
    ASSUME RouterTypeOK, SettingsTypeOK, SelectionInv, OperationStep
    PROVE  SelectionInv'
<1>. USE DEF SelectionInv, OpShape, Announcing, SettingsTypeOK
<1>1. CASE Fail
  BY <1>1 DEF Fail, Idle, routerVars
<1>2. CASE ListInstalled
  BY <1>2, GotoType DEF ListInstalled, routerVars
<1>3. CASE ActivatePersistedSelection
  BY <1>3 DEF ActivatePersistedSelection, routerVars, OpRecord
<1>4. ASSUME NEW m \in Markets, RegisterInstalled(m)
      PROVE  SelectionInv'
  BY <1>4 DEF RegisterInstalled, RegisterDownloadedModule, AfterRegistration,
              OpRecord
<1>5. ASSUME NEW v \in Versions, InstallNewModule(v)
      PROVE  SelectionInv'
  BY <1>5 DEF InstallNewModule, routerVars, OpRecord
<1>6. ASSUME NEW v \in Versions, InstallFailsAfterPromotion(v)
      PROVE  SelectionInv'
  BY <1>6 DEF InstallFailsAfterPromotion, Idle, routerVars
<1>7. CASE InstallSameModule
  BY <1>7, GotoType DEF InstallSameModule, routerVars
<1>8. CASE DeleteMarketDirectory
  BY <1>8, GotoType DEF DeleteMarketDirectory, routerVars
<1>9. CASE DeleteFails
  BY <1>9 DEF DeleteFails, Idle, routerVars
<1>10. CASE Unroute
  BY <1>10, GotoType DEF Unroute, RemoveDownloadedModule
<1>11. CASE RouteSelection
  <2>1. selectedMarket' = op.market
    BY <1>11 DEF RouteSelection, SelectMarket
  <2>. QED
    BY <1>11, <2>1, GotoType DEF RouteSelection
<1>12. CASE AnswerCheck
  BY <1>12, GotoType DEF AnswerCheck, routerVars
<1>13. CASE FinishSilently
  BY <1>13 DEF FinishSilently, Idle, routerVars
<1>. QED
  BY <1>1, <1>2, <1>3, <1>4, <1>5, <1>6, <1>7, <1>8, <1>9, <1>10, <1>11,
     <1>12, <1>13 DEF OperationStep

LEMMA SelectionNext ==
    ASSUME LookupTypeOK, SelectionInv, [Next]_vars
    PROVE  SelectionInv'
<1>. USE DEF SelectionInv, OpShape, Announcing
<1>1. CASE UNCHANGED <<routerVars, settingsVars>>
  BY <1>1 DEF routerVars, settingsVars
<1>2. CASE OperationStep
  BY <1>2, SelectionKeptByOperation DEF LookupTypeOK
<1>3. CASE UserOperation
  BY <1>3 DEF UserOperation, Load, BeginCheck, BeginRemove, BeginSelect,
              BeginInstall, Start, Working, routerVars
<1>4. CASE FinishAndAnnounce
  BY <1>4 DEF FinishAndAnnounce, Idle, routerVars
<1>5. CASE RelaunchApp
  BY <1>5 DEF RelaunchApp, Relaunch, Idle
<1>. QED
  BY <1>1, <1>2, <1>3, <1>4, <1>5
     DEF Next, Submit, Retry, LookupTaskStep, RequestStep, DeliverNothing,
         DeliverResult, DeliverError, Retire, SettingsStep, SettingsContinues,
         vars

(* Whenever no settings operation runs, the router answers for the market   *)
(* that is persisted, whatever failed, crashed or was removed before.       *)
THEOREM RouterKeepsSelection == Spec => []RouterFollowsPreference
<1>. DEFINE Inv == LookupTypeOK /\ SelectionInv
<1>1. LookupInit => Inv
  <2>1. LookupInit => SelectionInv
    BY DEF LookupInit, SettingsInit, LaunchSettings, RouterInit, Idle,
           SelectionInv, OpShape, Announcing
  <2>. QED
    BY <2>1, InitType
<1>2. Inv /\ [Next]_vars => Inv'
  BY NextType, SelectionNext
<1>3. Inv => RouterFollowsPreference
  BY DEF SelectionInv, OpShape, Announcing, Working, RouterFollowsPreference
<1>. QED
  BY <1>1, <1>2, <1>3, PTL DEF Spec

---------------------------------------------------------------------------
(* What one step of the task r can do to any request q: only r moves, its   *)
(* cancellation flag stays as it was, it is not freed, it resolves for the  *)
(* selected market or not at all, and it aborts only when cancelled.        *)
LEMMA RequestStepEffect ==
    ASSUME LookupTypeOK, NEW r \in Requests, RequestStep(r),
           NEW q \in Requests
    PROVE  /\ q # r => requests'[q] = requests[q]
           /\ requests'[q].cancelled = requests[q].cancelled
           /\ requests[q].scope = Active => requests'[q].scope = Active
           /\ q = r => requests[q].phase # "free" /\ requests'[q].phase # "free"
           /\ q = r /\ requests'[q].phase = "resolved"
                    /\ requests[q].scope = Active =>
                 requests'[q].market = selectedMarket
           /\ q = r /\ requests'[q].phase = "aborted" => requests[q].cancelled
<1>. USE DEF LookupTypeOK, RouterTypeOK
<1>1. CASE AbortBeforeRouter(r)
  BY <1>1 DEF AbortBeforeRouter, Advance, Blank, RequestRecord
<1>2. CASE RejectPayload(r)
  BY <1>2 DEF RejectPayload, Advance, Blank, RequestRecord
<1>3. CASE EnterRouter(r)
  BY <1>3 DEF EnterRouter, Blank, RequestRecord
<1>4. CASE AnswerResolved(r)
  BY <1>4 DEF AnswerResolved, Resolved, StillCurrent, RequestRecord
<1>5. CASE AnswerSuperseded(r)
  BY <1>5 DEF AnswerSuperseded, Advance, Blank, RequestRecord
<1>6. CASE AnswerAborted(r)
  BY <1>6 DEF AnswerAborted, Advance, Blank, RequestRecord
<1>7. CASE AnswerFailed(r)
  BY <1>7 DEF AnswerFailed, Advance, Blank, RequestRecord
<1>. QED
  BY <1>1, <1>2, <1>3, <1>4, <1>5, <1>6, <1>7 DEF RequestStep

(* What bringing the task r back to the screen does to the requests.        *)
LEMMA DeliveryEffect ==
    ASSUME LookupTypeOK, NEW r \in Requests,
           DeliverNothing(r) \/ DeliverResult(r) \/ DeliverError(r),
           NEW q \in Requests
    PROVE  requests'[q] = IF q = r THEN FreeRequest ELSE requests[q]
BY DEF DeliverNothing, DeliverResult, DeliverError, Retire, LookupTypeOK,
       RouterTypeOK

(* What a submission does to the requests.                                  *)
LEMMA SubmitEffect ==
    ASSUME LookupTypeOK, NEW r \in Requests, Submit(r), NEW q \in Requests
    PROVE  requests'[q] = IF q = r THEN Blank("submitted", FALSE)
                          ELSE CancelLatest[q]
BY CancelType DEF Submit

(* The screen holds the only task that may still deliver, and it is the     *)
(* task of the last submission.                                             *)
OnlyLatestRuns ==
    /\ \A q \in Requests :
          requests[q].phase # "free" /\ ~requests[q].cancelled =>
              scanner.task = q
    /\ scanner.task # None => scanner.task = scanner.last

TaskInv == OnlyLatestRuns /\ OutcomeIsForLastRequest

LEMMA TaskKeptByDelivery ==
    ASSUME LookupTypeOK, TaskInv, NEW r \in Requests,
           DeliverNothing(r) \/ DeliverResult(r) \/ DeliverError(r)
    PROVE  TaskInv'
<1>1. \A q \in Requests :
         requests'[q] = IF q = r THEN FreeRequest ELSE requests[q]
  BY DeliveryEffect
<1>2. /\ scanner'.task = Release(scanner.task, r)
      /\ scanner'.last = scanner.last
  BY DEF DeliverNothing, DeliverResult, DeliverError, LookupTypeOK,
         ScannerRecord
<1>3. OnlyLatestRuns'
  BY <1>1, <1>2 DEF TaskInv, OnlyLatestRuns, Release, FreeRequest, Blank
<1>4. CASE DeliverNothing(r)
  <2>1. scanner'.state = scanner.state /\ scanner'.about = scanner.about
    BY <1>4 DEF DeliverNothing, LookupTypeOK, ScannerRecord
  <2>. QED
    BY <1>2, <1>3, <2>1 DEF TaskInv, OutcomeIsForLastRequest
<1>5. CASE DeliverResult(r) \/ DeliverError(r)
  <2>1. scanner'.about = r
    BY <1>5 DEF DeliverResult, DeliverError, LookupTypeOK, ScannerRecord
  <2>2. scanner.last = r
    BY <1>5, RouterAssumption
       DEF DeliverResult, DeliverError, TaskInv, OnlyLatestRuns
  <2>. QED
    BY <1>2, <1>3, <2>1, <2>2 DEF TaskInv, OutcomeIsForLastRequest
<1>. QED
  BY <1>4, <1>5

LEMMA TaskNext ==
    ASSUME LookupTypeOK, TaskInv, [Next]_vars
    PROVE  TaskInv'
<1>. USE DEF TaskInv, OnlyLatestRuns, OutcomeIsForLastRequest
<1>1. ASSUME NEW r \in Requests, Submit(r)
      PROVE  TaskInv'
  <2>1. /\ scanner'.task = r /\ scanner'.last = r
        /\ scanner'.state = "lookingUp"
    BY <1>1 DEF Submit, LookupTypeOK, ScannerRecord
  <2>2. ASSUME NEW q \in Requests, q # r
        PROVE  requests'[q].phase # "free" => requests'[q].cancelled
    <3>1. requests'[q] = CancelLatest[q]
      BY <1>1, <2>2, SubmitEffect
    <3>2. /\ CancelLatest[q].phase = requests[q].phase
          /\ CancelLatest[q].cancelled = (requests[q].cancelled
                                         \/ scanner.task = q)
      BY CancelKeeps
    <3>3. requests[q].phase # "free" =>
            requests[q].cancelled \/ scanner.task = q
      OBVIOUS
    <3>. QED
      BY <3>1, <3>2, <3>3
  <2>. QED
    BY <2>1, <2>2
<1>2. ASSUME NEW r \in Requests, RequestStep(r), UNCHANGED scanner
      PROVE  TaskInv'
  BY <1>2, RequestStepEffect
<1>3. ASSUME NEW r \in Requests, LookupTaskStep(r)
      PROVE  TaskInv'
  BY <1>2, <1>3, TaskKeptByDelivery DEF LookupTaskStep
<1>4. CASE UNCHANGED <<requests, scanner>>
  BY <1>4
<1>5. CASE ResetScanner
  <2>1. /\ scanner'.task = scanner.task /\ scanner'.last = scanner.last
        /\ scanner'.state = "idle"
    BY <1>5 DEF ResetScanner, LookupTypeOK, ScannerRecord
  <2>2. ASSUME NEW q \in Requests
        PROVE  requests'[q].phase # "free" => requests'[q].cancelled
    BY <1>5, CancelKeeps DEF ResetScanner
  <2>. QED
    BY <2>1, <2>2
<1>6. CASE RelaunchApp
  BY <1>6 DEF RelaunchApp, Relaunch, EmptyScanner, FreeRequest, Blank
<1>. QED
  BY <1>1, <1>3, <1>4, <1>5, <1>6
     DEF Next, Retry, SettingsStep, SettingsContinues, vars

LEMMA TaskInit == LookupInit => TaskInv
BY DEF LookupInit, SettingsInit, RouterInit, FreeRequest, Blank, EmptyScanner,
       TaskInv, OnlyLatestRuns, OutcomeIsForLastRequest

(* The screen never shows the outcome of an earlier submission, however     *)
(* late its task comes back.                                                *)
THEOREM NoLateOutcome == Spec => []OutcomeIsForLastRequest
<1>. DEFINE Inv == LookupTypeOK /\ TaskInv
<1>1. LookupInit => Inv
  BY InitType, TaskInit
<1>2. Inv /\ [Next]_vars => Inv'
  BY NextType, TaskNext
<1>3. Inv => OutcomeIsForLastRequest
  BY DEF TaskInv
<1>. QED
  BY <1>1, <1>2, <1>3, PTL DEF Spec

---------------------------------------------------------------------------
(* A market whose answers may be on the screen: the persisted one, except   *)
(* while a change of selection is about to be announced.                    *)
Showable(m) == m = pref \/ Announcing

(* Every lookup follows the selection, a lookup that may still be delivered *)
(* was resolved for a showable market, and so was what is shown.            *)
MarketInv ==
    /\ \A q \in Requests :
          /\ requests[q].scope = Active
          /\ requests[q].phase = "resolved" /\ ~requests[q].cancelled =>
                Showable(requests[q].market)
    /\ scanner.shown # None => Showable(scanner.shown)

(* Settings steps that leave requests and screen alone keep a market        *)
(* showable: pref stays, and nothing is taken back once it is announced.    *)
LEMMA ShowableKept ==
    ASSUME LookupTypeOK, SelectionInv, NEW m,
           OperationStep \/ UserOperation, Showable(m)
    PROVE  Showable(m)'
<1>1. CASE UserOperation
  BY <1>1 DEF UserOperation, Load, BeginCheck, BeginRemove, BeginSelect,
              BeginInstall, Start, Working, SelectionInv, OpShape, Announcing,
              Showable
<1>2. CASE OperationStep
  <2>1. pref' = pref
    BY <1>2 DEF OperationStep, Fail, ListInstalled, ActivatePersistedSelection,
           RegisterInstalled, InstallNewModule, InstallFailsAfterPromotion,
           InstallSameModule, DeleteMarketDirectory, DeleteFails, Unroute,
           RouteSelection, AnswerCheck, FinishSilently
  <2>2. ~Announcing
    BY <1>2 DEF OperationStep, Fail, ListInstalled, ActivatePersistedSelection,
           RegisterInstalled, InstallNewModule, InstallFailsAfterPromotion,
           InstallSameModule, DeleteMarketDirectory, DeleteFails, Unroute,
           RouteSelection, AnswerCheck, FinishSilently, Announcing
  <2>. QED
    BY <2>1, <2>2 DEF Showable
<1>. QED
  BY <1>1, <1>2

LEMMA MarketNext ==
    ASSUME LookupTypeOK, SelectionInv, TaskInv, MarketInv, [Next]_vars
    PROVE  MarketInv'
<1>. USE DEF MarketInv
<1>1. ASSUME NEW r \in Requests, Submit(r)
      PROVE  MarketInv'
  <2>1. scanner'.shown = None
    BY <1>1 DEF Submit, LookupTypeOK, ScannerRecord
  <2>2. ASSUME NEW q \in Requests
        PROVE  /\ requests'[q].scope = Active
               /\ requests'[q].phase # "resolved" \/ requests'[q].cancelled
    <3>1. CASE q = r
      BY <1>1, <3>1, SubmitEffect DEF Blank
    <3>2. CASE q # r
      <4>1. requests'[q] = CancelLatest[q]
        BY <1>1, <3>2, SubmitEffect
      <4>2. /\ CancelLatest[q].scope = requests[q].scope
            /\ CancelLatest[q].phase = requests[q].phase
            /\ CancelLatest[q].cancelled = (requests[q].cancelled
                                           \/ scanner.task = q)
        BY CancelKeeps
      <4>. QED
        BY <4>1, <4>2 DEF TaskInv, OnlyLatestRuns
    <3>. QED
      BY <3>1, <3>2
  <2>. QED
    BY <2>1, <2>2
<1>2. ASSUME NEW r \in Requests, LookupTaskStep(r)
      PROVE  MarketInv'
  <2>1. \A m : Showable(m) => Showable(m)'
    BY <1>2 DEF LookupTaskStep, DeliverNothing, DeliverResult, DeliverError,
                Retire, settingsVars, Showable, Announcing
  <2>2. CASE RequestStep(r) /\ UNCHANGED scanner
    <3>1. Showable(selectedMarket)
      BY DEF SelectionInv, Showable
    <3>. QED
      BY <2>1, <2>2, <3>1, RequestStepEffect
  <2>3. CASE DeliverNothing(r) \/ DeliverError(r)
    <3>1. scanner'.shown = scanner.shown
      BY <2>3 DEF DeliverNothing, DeliverError, LookupTypeOK, ScannerRecord
    <3>. QED
      BY <2>1, <2>3, <3>1, DeliveryEffect DEF FreeRequest, Blank
  <2>4. CASE DeliverResult(r)
    <3>1. scanner'.shown = requests[r].market /\ Showable(requests[r].market)
      BY <2>4 DEF DeliverResult, LookupTypeOK, ScannerRecord
    <3>. QED
      BY <2>1, <2>4, <3>1, DeliveryEffect DEF FreeRequest, Blank
  <2>. QED
    BY <1>2, <2>2, <2>3, <2>4 DEF LookupTaskStep
<1>3. CASE (OperationStep \/ UserOperation) /\ UNCHANGED <<requests, scanner>>
  BY <1>3, ShowableKept
<1>4. CASE ResetScanner
  <2>1. scanner'.shown = None
    BY <1>4 DEF ResetScanner, LookupTypeOK, ScannerRecord
  <2>2. ASSUME NEW q \in Requests
        PROVE  /\ requests'[q].scope = Active
               /\ requests'[q].phase # "resolved" \/ requests'[q].cancelled
    <3>1. /\ requests'[q].scope = requests[q].scope
          /\ requests'[q].phase = requests[q].phase
          /\ requests'[q].cancelled = (requests[q].cancelled \/ scanner.task = q)
      BY <1>4, CancelKeeps DEF ResetScanner
    <3>. QED
      BY <3>1 DEF TaskInv, OnlyLatestRuns
  <2>. QED
    BY <2>1, <2>2
<1>5. CASE RelaunchApp
  BY <1>5 DEF RelaunchApp, Relaunch, EmptyScanner, FreeRequest, Blank
<1>6. CASE UNCHANGED vars
  BY <1>6 DEF vars, settingsVars, Showable, Announcing
<1>. QED
  BY <1>1, <1>2, <1>3, <1>4, <1>5, <1>6
     DEF Next, Retry, SettingsStep, SettingsContinues

(* Once no settings operation runs, what the screen shows belongs to the    *)
(* selected market.                                                         *)
THEOREM ShownMarketIsSelected == Spec => []ResultMarketIsSelected
<1>. DEFINE Inv == LookupTypeOK /\ SelectionInv /\ TaskInv /\ MarketInv
<1>1. LookupInit => Inv
  <2>1. LookupInit => SelectionInv
    BY DEF LookupInit, SettingsInit, LaunchSettings, RouterInit, Idle,
           SelectionInv, OpShape, Announcing
  <2>2. LookupInit => MarketInv
    BY DEF LookupInit, SettingsInit, RouterInit, FreeRequest, Blank,
           EmptyScanner, MarketInv
  <2>. QED
    BY <2>1, <2>2, InitType, TaskInit
<1>2. Inv /\ [Next]_vars => Inv'
  BY NextType, SelectionNext, TaskNext, MarketNext
<1>3. Inv => ResultMarketIsSelected
  BY DEF MarketInv, Showable, SelectionInv, OpShape, Announcing, Working,
         ResultMarketIsSelected
<1>. QED
  BY <1>1, <1>2, <1>3, PTL DEF Spec

---------------------------------------------------------------------------
(* A task that aborts was cancelled, and the screen cancels its latest task *)
(* only when it stops waiting for it.                                       *)
WaitingInv ==
    /\ \A q \in Requests : requests[q].phase = "aborted" => requests[q].cancelled
    /\ scanner.state = "lookingUp" /\ scanner.task # None =>
          ~requests[scanner.task].cancelled

LEMMA WaitingNext ==
    ASSUME LookupTypeOK, WaitingInv, [Next]_vars
    PROVE  WaitingInv'
<1>. USE DEF WaitingInv
<1>0. scanner.task \in Requests \cup {None}
  BY DEF LookupTypeOK, ScannerRecord
<1>1. ASSUME NEW r \in Requests, Submit(r)
      PROVE  WaitingInv'
  <2>1. scanner'.task = r
    BY <1>1 DEF Submit, LookupTypeOK, ScannerRecord
  <2>2. requests'[r].phase = "submitted" /\ ~requests'[r].cancelled
    BY <1>1, SubmitEffect DEF Blank
  <2>3. ASSUME NEW q \in Requests, q # r, requests'[q].phase = "aborted"
        PROVE  requests'[q].cancelled
    <3>1. requests'[q] = CancelLatest[q]
      BY <1>1, <2>3, SubmitEffect
    <3>2. /\ CancelLatest[q].phase = requests[q].phase
          /\ CancelLatest[q].cancelled = (requests[q].cancelled
                                         \/ scanner.task = q)
      BY CancelKeeps
    <3>. QED
      BY <2>3, <3>1, <3>2
  <2>. QED
    BY <2>1, <2>2, <2>3
<1>2. ASSUME NEW r \in Requests, RequestStep(r), UNCHANGED scanner
      PROVE  WaitingInv'
  BY <1>0, <1>2, RequestStepEffect
<1>3. ASSUME NEW r \in Requests,
             DeliverNothing(r) \/ DeliverResult(r) \/ DeliverError(r)
      PROVE  WaitingInv'
  <2>1. /\ scanner'.task = Release(scanner.task, r)
        /\ scanner'.state = "lookingUp" => scanner.state = "lookingUp"
    BY <1>3 DEF DeliverNothing, DeliverResult, DeliverError, LookupTypeOK,
                ScannerRecord
  <2>2. \A q \in Requests :
           requests'[q] = IF q = r THEN FreeRequest ELSE requests[q]
    BY <1>3, DeliveryEffect
  <2>3. FreeRequest.phase = "free" /\ ~FreeRequest.cancelled
    BY DEF FreeRequest, Blank
  <2>. QED
    BY <1>0, <2>1, <2>2, <2>3 DEF Release
<1>4. CASE UNCHANGED <<requests, scanner>>
  BY <1>4
<1>5. CASE ResetScanner
  <2>1. scanner'.state = "idle"
    BY <1>5 DEF ResetScanner, LookupTypeOK, ScannerRecord
  <2>. QED
    BY <1>5, <2>1, CancelKeeps DEF ResetScanner
<1>6. CASE RelaunchApp
  BY <1>6 DEF RelaunchApp, Relaunch, EmptyScanner, FreeRequest, Blank
<1>. QED
  BY <1>1, <1>2, <1>3, <1>4, <1>5, <1>6
     DEF Next, Retry, LookupTaskStep, SettingsStep, SettingsContinues, vars

LEMMA StrandingStep ==
    ASSUME LookupTypeOK, WaitingInv, [Next]_vars, ~Stranded, Stranded'
    PROVE  \E r \in Requests :
             /\ scanner.task = r
             /\ requests[r].phase = "superseded" /\ ~requests[r].cancelled
<1>. USE DEF Stranded
<1>1. ASSUME NEW r \in Requests, Submit(r)
      PROVE  FALSE
  BY <1>1, RouterAssumption DEF Submit, LookupTypeOK, ScannerRecord
<1>2. ASSUME NEW r \in Requests, DeliverNothing(r)
      PROVE  /\ scanner.task = r
             /\ requests[r].phase = "superseded" /\ ~requests[r].cancelled
  <2>1. scanner'.state = scanner.state /\ scanner'.task = Release(scanner.task, r)
    BY <1>2 DEF DeliverNothing, LookupTypeOK, ScannerRecord
  <2>2. scanner.state = "lookingUp" /\ scanner.task = r
    BY <2>1 DEF Release
  <2>. QED
    BY <1>2, <2>2, RouterAssumption DEF DeliverNothing, WaitingInv
<1>3. ASSUME NEW r \in Requests, DeliverResult(r) \/ DeliverError(r)
      PROVE  FALSE
  BY <1>3 DEF DeliverResult, DeliverError, LookupTypeOK, ScannerRecord
<1>4. CASE UNCHANGED scanner
  BY <1>4
<1>5. CASE ResetScanner
  BY <1>5 DEF ResetScanner, LookupTypeOK, ScannerRecord
<1>6. CASE RelaunchApp
  BY <1>6 DEF RelaunchApp, EmptyScanner
<1>. QED
  BY <1>1, <1>2, <1>3, <1>4, <1>5, <1>6
     DEF Next, Retry, LookupTaskStep, SettingsStep, SettingsContinues, vars

(* The screen is left waiting for nobody in no other way than by the lookup *)
(* it waits for, superseded by the router and cancelled by nobody.          *)
THEOREM StrandedOnlyBySupersession == Spec => OnlySupersessionStrands
<1>. DEFINE Inv == LookupTypeOK /\ WaitingInv
<1>1. LookupInit => Inv
  <2>1. LookupInit => WaitingInv
    BY DEF LookupInit, SettingsInit, RouterInit, FreeRequest, Blank,
           EmptyScanner, WaitingInv
  <2>. QED
    BY <2>1, InitType
<1>2. Inv /\ [Next]_vars => Inv'
  BY NextType, WaitingNext
<1>3. Inv /\ [Next]_vars =>
        [~Stranded /\ Stranded' =>
           \E r \in Requests :
              /\ scanner.task = r
              /\ requests[r].phase = "superseded" /\ ~requests[r].cancelled]_vars
  BY StrandingStep
<1>. QED
  BY <1>1, <1>2, <1>3, PTL DEF Spec, OnlySupersessionStrands
===========================================================================
