---------------------------- MODULE ActiveModule ----------------------------
(***************************************************************************)
(* What one market's module store promises, without files, pointers or      *)
(* installation steps.  A set of verified modules is held, and one of them  *)
(* is active whenever any is held.  A release is taken on only if it        *)
(* follows the module that is active when it is admitted; the active module *)
(* then changes to the release that was admitted, or because it is lost.    *)
(***************************************************************************)
EXTENDS Naturals

CONSTANTS Builds, None

VARIABLES
    active,     \* the module lookups of this market may be answered from
    held,       \* the modules that verify under the present trust policy
    verdict,    \* the trust policy's verdict on every module ever released
    pending     \* the release that was admitted and is being brought in

vars == <<active, held, verdict, pending>>

Verdicts == {"installable", "keepable", "rejected"}

(* b is the release that follows module a (None: there is no module yet).   *)
Extends(b, a) ==
    IF a = None THEN b.supersedes = None
    ELSE b.supersedes = a.version /\ b.version > a.version

Newest(S) ==
    IF S = {} THEN None
    ELSE CHOOSE b \in S : \A c \in S : c.version <= b.version

Init ==
    /\ active = None
    /\ held = {}
    /\ verdict = [b \in Builds |-> "installable"]
    /\ pending = None

Admit(b) ==
    /\ pending = None
    /\ verdict[b] = "installable"
    /\ Extends(b, active)
    /\ pending' = b
    /\ UNCHANGED <<active, held, verdict>>

(* The admitted release is held; the active module stays active unless it   *)
(* was lost in the meantime or there was none.                              *)
Hold ==
    /\ pending # None
    /\ held' = held \cup {pending}
    /\ active' \in {active, pending} \ {None}
    /\ active' = active => active \in held
    /\ UNCHANGED <<verdict, pending>>

Advance ==
    /\ pending \in held
    /\ active' = pending
    /\ pending' = None
    /\ UNCHANGED <<held, verdict>>

GiveUp ==
    /\ pending # None
    /\ pending' = None
    /\ UNCHANGED <<active, held, verdict>>

(* Storage is lost, or the user removes the market: what is left may be     *)
(* nothing, and the newest module left takes over from a lost one.          *)
Lose ==
    /\ held' \in SUBSET held
    /\ \/ active' = active /\ active \in held'
       \/ active' = Newest(held')
    /\ UNCHANGED <<verdict, pending>>

(* An app update brings another trust policy.                               *)
Reassess ==
    /\ verdict' \in [Builds -> Verdicts]
    /\ held' \in SUBSET {b \in Builds : verdict'[b] # "rejected"}
    /\ active' \in IF held' = {} THEN {None} ELSE held'
    /\ pending' = None

Next ==
    \/ \E b \in Builds : Admit(b)
    \/ Hold
    \/ Advance
    \/ GiveUp
    \/ Lose
    \/ Reassess

Spec == Init /\ [][Next]_vars
===========================================================================
