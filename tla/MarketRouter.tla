---------------------------- MODULE MarketRouter ----------------------------
(***************************************************************************)
(* The actor MarketCatalogRouter: which read-only catalog answers for which *)
(* market.  The actor is reentrant: a lookup that waits for a catalog leaves *)
(* the router free to change its selection or its sources, and a revision   *)
(* number tells the lookup afterwards whether it was overtaken.             *)
(*                                                                         *)
(* A catalog is named by its version.  A request is one call of             *)
(* resolveProduct(for:), search(query:limit:offset:) or                     *)
(* product(for:market:), run inside a task that its owner may cancel.       *)
(***************************************************************************)
EXTENDS Naturals

CONSTANTS
    Markets,        \* the CatalogMarket values the app meets
    Germany,        \* the market that falls back to the bundled catalog
    Versions,       \* catalog versions of downloadable modules
    Bundled,        \* the catalog version shipped in the application bundle
    None,           \* nil
    Active,         \* the scope of a request that follows the selection
    Requests,       \* task identities
    MaxRevision     \* bound on the revision counter, UInt64 in the code

ASSUME RouterAssumption ==
    /\ Germany \in Markets
    /\ Active \notin Markets
    /\ None \notin Markets
    /\ None \notin Versions
    /\ Bundled \notin Versions
    /\ None # Bundled
    /\ None \notin Requests
    /\ MaxRevision \in Nat

VARIABLES
    selectedMarket,
    downloaded,     \* market -> version of its registered module, or None
    revision,
    requests        \* request -> its record

routerVars == <<selectedMarket, downloaded, revision>>

(* A request is "free" before and after its life.  "superseded" and         *)
(* "aborted" both end in CancellationError: the first thrown by the router  *)
(* because the revision moved, the second by Task.checkCancellation.        *)
Phases == {"free", "submitted", "awaiting", "resolved", "failed",
           "superseded", "aborted"}

Sources == Versions \cup {Bundled, None}

RequestRecord ==
    [phase     : Phases,
     scope     : Markets \cup {Active},
     market    : Markets \cup {None},
     source    : Sources,
     seen      : 0..MaxRevision,
     cancelled : BOOLEAN]

(* A request that has captured nothing.                                     *)
Blank(phase, cancelled) ==
    [phase |-> phase, scope |-> Active, market |-> None, source |-> None,
     seen |-> 0, cancelled |-> cancelled]

FreeRequest == Blank("free", FALSE)

(* A request that was answered for market m and has nothing else to keep.   *)
Resolved(m) ==
    [phase |-> "resolved", scope |-> Active, market |-> m, source |-> None,
     seen |-> 0, cancelled |-> FALSE]

(* source(for:): a registered module first, then the bundled catalog for    *)
(* Germany only.  None stands for the thrown "unavailable".                 *)
Source(m) ==
    IF downloaded[m] # None THEN downloaded[m]
    ELSE IF m = Germany THEN Bundled ELSE None

RouterTypeOK ==
    /\ selectedMarket \in Markets
    /\ downloaded \in [Markets -> Versions \cup {None}]
    /\ revision \in 0..MaxRevision
    /\ requests \in [Requests -> RequestRecord]

(* A new process: init(bundledGermany:selectedMarket:).                     *)
RouterInit(m) ==
    /\ selectedMarket = m
    /\ downloaded = [n \in Markets |-> None]
    /\ revision = 0
    /\ requests = [r \in Requests |-> FreeRequest]

---------------------------------------------------------------------------
(* Changes of the routing table.                                            *)

SelectMarket(m) ==
    /\ IF selectedMarket # m
       THEN /\ revision < MaxRevision
            /\ selectedMarket' = m
            /\ revision' = revision + 1
       ELSE UNCHANGED <<selectedMarket, revision>>
    /\ UNCHANGED downloaded

(* Mutant: the router forgets to move its revision.                         *)
RegisterWithoutRevision(m, v) ==
    /\ downloaded' = [downloaded EXCEPT ![m] = v]
    /\ UNCHANGED <<selectedMarket, revision>>

RegisterDownloadedModule(m, v) ==
    /\ revision < MaxRevision
    /\ downloaded' = [downloaded EXCEPT ![m] = v]
    /\ revision' = revision + 1
    /\ UNCHANGED selectedMarket

(* Mutant: the fallback is entered in the table of downloaded modules.      *)
RemoveIntoFallback(m) ==
    /\ revision < MaxRevision
    /\ downloaded' = [downloaded EXCEPT ![m] =
                         IF m = Germany THEN Bundled ELSE None]
    /\ revision' = revision + 1
    /\ UNCHANGED selectedMarket

RemoveDownloadedModule(m) ==
    /\ revision < MaxRevision
    /\ downloaded' = [downloaded EXCEPT ![m] = None]
    /\ revision' = revision + 1
    /\ UNCHANGED selectedMarket

---------------------------------------------------------------------------
(* The life of a request.  Advance says that r leaves phase p for phase q   *)
(* and drops what it captured.                                              *)

Advance(r, p, q) ==
    /\ requests[r].phase = p
    /\ requests' = [requests EXCEPT ![r] = Blank(q, requests[r].cancelled)]

(* Task.checkCancellation before the router is called, and a payload that   *)
(* does not parse (barcodes) or exceeds a limit (queries).                  *)
AbortBeforeRouter(r) ==
    /\ requests[r].cancelled
    /\ Advance(r, "submitted", "aborted")

RejectPayload(r) == Advance(r, "submitted", "failed")

(* The synchronous prefix of a router call: it captures the revision, the   *)
(* market and the source before it waits for the catalog.                   *)
EnterRouter(r) ==
    LET m == IF requests[r].scope = Active THEN selectedMarket
             ELSE requests[r].scope
    IN  /\ requests[r].phase = "submitted"
        /\ ~requests[r].cancelled
        /\ requests' =
             [requests EXCEPT ![r] =
                IF Source(m) = None
                THEN Blank("failed", FALSE)
                ELSE [phase |-> "awaiting", scope |-> requests[r].scope,
                      market |-> m, source |-> Source(m),
                      seen |-> revision, cancelled |-> FALSE]]

(* After the wait: nothing the request captured may have moved.             *)
StillCurrent(r) ==
    /\ revision = requests[r].seen
    /\ requests[r].scope = Active => selectedMarket = requests[r].market

AnswerResolved(r) ==
    /\ ~requests[r].cancelled
    /\ StillCurrent(r)
    /\ requests[r].phase = "awaiting"
    /\ requests' = [requests EXCEPT ![r] = Resolved(requests[r].market)]

AnswerSuperseded(r) ==
    /\ ~requests[r].cancelled
    /\ ~StillCurrent(r)
    /\ Advance(r, "awaiting", "superseded")

AnswerAborted(r) ==
    /\ requests[r].cancelled
    /\ Advance(r, "awaiting", "aborted")

(* The catalog itself throws: SQLite or manifest errors.                    *)
AnswerFailed(r) == Advance(r, "awaiting", "failed")

RequestStep(r) ==
    /\ \/ AbortBeforeRouter(r)
       \/ RejectPayload(r)
       \/ EnterRouter(r)
       \/ AnswerResolved(r)
       \/ AnswerSuperseded(r)
       \/ AnswerAborted(r)
       \/ AnswerFailed(r)
    /\ UNCHANGED routerVars

---------------------------------------------------------------------------
(* While a request waits and the revision is the one it saw, the source it  *)
(* captured is the one the router would answer from now.                    *)
CapturedSourceIsCurrent ==
    \A r \in Requests :
        /\ requests[r].phase = "awaiting"
        /\ requests[r].seen = revision
        => /\ requests[r].source = Source(requests[r].market)
           /\ requests[r].scope = Active => requests[r].market = selectedMarket
===========================================================================
