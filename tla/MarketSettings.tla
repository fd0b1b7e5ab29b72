--------------------------- MODULE MarketSettings ---------------------------
(***************************************************************************)
(* CatalogModuleSettingsModel driving CatalogModuleManager and the router.  *)
(* Every operation runs inside perform, which lets one operation through at *)
(* a time and drops the others.  An operation is a sequence of awaits: the  *)
(* steps below are the code between two of them, and lookups interleave     *)
(* with every one.                                                          *)
(*                                                                         *)
(* The manager's files are seen here through what installedModules returns: *)
(* disk[m] is the version recoverInstalledModule(for: m) would find.  The   *)
(* module CatalogModules models the files themselves.                       *)
(***************************************************************************)
EXTENDS MarketRouter

ASSUME VersionsAreOrdered == Versions \subseteq Nat

VARIABLES
    pref,       \* AppPreferences.selectedMarket, kept in UserDefaults
    disk,       \* market -> version installed on disk, or None
    listed,     \* installedModules of the settings model, as disk was read
    op          \* the operation inside perform

settingsVars == <<pref, disk, listed, op>>

Kinds == {"none", "load", "select", "install", "remove", "check"}
Places == {"idle", "listing", "activating", "registering", "selecting",
           "fetching", "deleting", "unrouting", "querying", "done"}

OpRecord == [kind : Kinds, at : Places, market : Markets, todo : SUBSET Markets]

Idle == [kind |-> "none", at |-> "idle", market |-> Germany, todo |-> {}]
Working == op.kind # "none"

SettingsTypeOK ==
    /\ pref \in Markets
    /\ disk \in [Markets -> Versions \cup {None}]
    /\ listed \in [Markets -> Versions \cup {None}]
    /\ op \in OpRecord

Start(kind, place, m) ==
    /\ ~Working
    /\ op' = [kind |-> kind, at |-> place, market |-> m, todo |-> {}]

Goto(place) == op' = [op EXCEPT !.at = place]

NothingListed == [m \in Markets |-> None]

NewerThan(d) == {v \in Versions : d = None \/ v > d}
OlderThan(d) == {v \in Versions : d # None /\ v < d}

(* Launch: the first appearance of AppShellView starts load().  What was    *)
(* persisted stays, everything in memory is new.                            *)
LaunchSettings ==
    op = [Idle EXCEPT !.kind = "load", !.at = "listing"]

SettingsInit ==
    /\ pref = Germany
    /\ disk = NothingListed
    /\ listed = NothingListed
    /\ LaunchSettings
    /\ RouterInit(pref)

(* The process dies at any await and is started again: the router is built  *)
(* with the persisted selection and no module.                              *)
Relaunch ==
    /\ selectedMarket' = pref
    /\ downloaded' = NothingListed
    /\ revision' = 0
    /\ requests' = [r \in Requests |-> FreeRequest]
    /\ listed' = NothingListed
    /\ op' = [Idle EXCEPT !.kind = "load", !.at = "listing"]
    /\ UNCHANGED <<pref, disk>>

---------------------------------------------------------------------------
(* User operations, as the settings screen offers them.                     *)

Load ==
    /\ Start("load", "listing", Germany)
    /\ UNCHANGED <<pref, disk, listed, routerVars>>

(* installedSelectableMarkets *)
BeginSelect(m) ==
    /\ m \in {Germany, pref} \cup {n \in Markets : listed[n] # None}
    /\ Start("select", "selecting", m)
    /\ UNCHANGED <<pref, disk, listed, routerVars>>

BeginCheck ==
    /\ Start("check", "querying", Germany)
    /\ UNCHANGED <<pref, disk, listed, routerVars>>

(* downloadableMarkets: only markets not listed as installed are offered.   *)
BeginInstall(m) ==
    /\ listed[m] = None
    /\ Start("install", "fetching", m)
    /\ UNCHANGED <<pref, disk, listed, routerVars>>

(* canRemoveActiveDownload *)
BeginRemove ==
    /\ listed[pref] # None
    /\ Start("remove", "deleting", pref)
    /\ UNCHANGED <<pref, disk, listed, routerVars>>

---------------------------------------------------------------------------
(* Steps of the running operation.                                          *)

(* An await throws: perform keeps the message and ends.  Nothing is undone, *)
(* and the owner of the screens is not told.                                *)
Fail ==
    /\ op.at \in {"listing", "activating", "fetching", "querying"}
    /\ op' = Idle
    /\ UNCHANGED <<pref, disk, listed, routerVars>>

ListInstalled ==
    /\ op.at = "listing"
    /\ listed' = disk
    /\ Goto(CASE op.kind = "load" -> "activating"
              [] op.kind = "install" -> "selecting"
              [] OTHER -> "done")
    /\ UNCHANGED <<pref, disk, routerVars>>

(* activatePersistedSelection: list again, then register each module (the   *)
(* code goes through them by market code, any order is allowed here).       *)
ActivatePersistedSelection ==
    LET installed == {m \in Markets : disk[m] # None}
    IN  /\ op.at = "activating"
        /\ op' = [op EXCEPT !.at = IF installed = {} THEN "selecting"
                                   ELSE "registering",
                            !.market = pref,
                            !.todo = installed]
        /\ UNCHANGED <<pref, disk, listed, routerVars>>

AfterRegistration ==
    IF op.kind = "load" THEN "selecting" ELSE "listing"

RegisterInstalled(m) ==
    /\ op.at = "registering"
    /\ m \in op.todo
    /\ RegisterDownloadedModule(m, disk[m])
    /\ op' = [op EXCEPT !.todo = @ \ {m},
                        !.at = IF op.todo = {m} THEN AfterRegistration ELSE @]
    /\ UNCHANGED <<pref, disk, listed>>

(* installLatest(for:): a newer module is promoted, made active and will be *)
(* registered ...                                                           *)
InstallNewModule(v) ==
    /\ op.at = "fetching"
    /\ op.kind = "install"
    /\ v \in NewerThan(disk[op.market])
    /\ disk' = [disk EXCEPT ![op.market] = v]
    /\ op' = [op EXCEPT !.at = "registering", !.todo = {op.market}]
    /\ UNCHANGED <<pref, listed, routerVars>>

(* ... the module already installed is returned as it is, unregistered ...  *)
InstallSameModule ==
    /\ op.at = "fetching"
    /\ op.kind = "install"
    /\ disk[op.market] # None
    /\ Goto("listing")
    /\ UNCHANGED <<pref, disk, listed, routerVars>>

(* ... and a failure after the promotion of a first module leaves a         *)
(* directory that the next recovery will find.                              *)
InstallFailsAfterPromotion(v) ==
    /\ op.at = "fetching"
    /\ op.kind = "install"
    /\ disk[op.market] = None
    /\ disk' = [disk EXCEPT ![op.market] = v]
    /\ op' = Idle
    /\ UNCHANGED <<pref, listed, routerVars>>

DeleteMarketDirectory ==
    /\ op.at = "deleting"
    /\ disk' = [disk EXCEPT ![op.market] = None]
    /\ Goto("unrouting")
    /\ UNCHANGED <<pref, listed, routerVars>>

(* removeItem throws: it may have deleted nothing, or enough that recovery  *)
(* finds an older module or none.                                           *)
DeleteFails ==
    /\ op.at = "deleting"
    /\ \E v \in {disk[op.market], None} \cup OlderThan(disk[op.market]) :
          disk' = [disk EXCEPT ![op.market] = v]
    /\ op' = Idle
    /\ UNCHANGED <<pref, listed, routerVars>>

Unroute ==
    /\ op.at = "unrouting"
    /\ RemoveDownloadedModule(op.market)
    /\ Goto(IF op.market = Germany THEN "selecting" ELSE "listing")
    /\ UNCHANGED <<pref, disk, listed>>

RouteSelection ==
    /\ op.at = "selecting"
    /\ SelectMarket(op.market)
    /\ Goto(IF op.kind = "remove" THEN "listing" ELSE "done")
    /\ UNCHANGED <<pref, disk, listed>>

AnswerCheck ==
    /\ op.at = "querying"
    /\ Goto("done")
    /\ UNCHANGED <<pref, disk, listed, routerVars>>

(* load and checkAvailableMarkets end without a word to the screens.        *)
FinishSilently ==
    /\ op.at = "done"
    /\ op.kind \in {"load", "check"}
    /\ op' = Idle
    /\ UNCHANGED <<pref, disk, listed, routerVars>>

(* Mutant: the selection is announced and not persisted.                    *)
AnnounceUnsaved ==
    /\ op.at = "done"
    /\ op.kind \in {"select", "install", "remove"}
    /\ op' = Idle
    /\ UNCHANGED <<pref, disk, listed, routerVars>>

(* The others persist the selection and call onMarketDidChange, which       *)
(* resets the scanner and the search.                                       *)
FinishAndAnnounce ==
    /\ op.at = "done"
    /\ op.kind \in {"select", "install", "remove"}
    /\ pref' = op.market
    /\ op' = Idle
    /\ UNCHANGED <<disk, listed, routerVars>>

UserOperation ==
    \/ Load
    \/ BeginCheck
    \/ BeginRemove
    \/ \E m \in Markets : BeginSelect(m) \/ BeginInstall(m)

OperationStep ==
    \/ Fail
    \/ ListInstalled
    \/ ActivatePersistedSelection
    \/ \E m \in Markets : RegisterInstalled(m)
    \/ \E v \in Versions : InstallNewModule(v) \/ InstallFailsAfterPromotion(v)
    \/ InstallSameModule
    \/ DeleteMarketDirectory
    \/ DeleteFails
    \/ Unroute
    \/ RouteSelection
    \/ AnswerCheck
    \/ FinishSilently

---------------------------------------------------------------------------
(* Whenever no operation runs, the market the router answers for is the     *)
(* market that is persisted and shown: a crash, a failed step or a removal  *)
(* never leaves lookups going to another market.                            *)
RouterFollowsPreference == ~Working => selectedMarket = pref
===========================================================================
