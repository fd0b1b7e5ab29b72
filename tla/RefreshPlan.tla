----------------------------- MODULE RefreshPlan -----------------------------
(***************************************************************************)
(* The refresh policy of the sources (validate_policy() of                  *)
(* Tools/catalog_refresh.py) and the plan the health and the submission     *)
(* workflow make of it every day (Tools/catalog_refresh_plan.py): when the  *)
(* next full acquisition is due, and which products a targeted refresh      *)
(* would fetch.  The workflows plan the targeted lane only; nothing         *)
(* executes a plan.                                                         *)
(*                                                                          *)
(* The policy of a source is [modes, cadence, target]; its target is        *)
(* [enabled, cadence, endpoint, fields, max, batch, rate, interval], the    *)
(* endpoint a host or NoHost and a cadence of 0 none.  How the products are *)
(* cut into batches is left out.                                            *)
(***************************************************************************)
EXTENDS ReviewQueue

CONSTANTS
    RefreshPolicy,      \* the policy of "off" and of "op"
    AcquisitionHosts    \* allowedAcquisitionHosts of the source policy

NoHost == ""

(* A target with bounds a run can keep, and none that is disabled.          *)
ValidTarget(target) ==
    IF target.enabled
    THEN /\ target.cadence >= 1 /\ target.endpoint # NoHost
         /\ target.max >= 1 /\ target.batch \in 1..target.max
         /\ target.rate >= 1 /\ target.interval >= 1
         /\ 60 <= target.rate * target.interval
    ELSE /\ target.endpoint = NoHost /\ target.fields = {}
         /\ {target.max, target.batch, target.rate, target.interval} = {0}

(* _source_config()                                                         *)
ValidSource(source) ==
    /\ "full" \in source.modes /\ source.modes \subseteq {"full", "delta"}
    /\ source.cadence \in Nat \ {0}

(* validate_policy()                                                        *)
ValidRefreshPolicy(policy) ==
    /\ {"off", "op"} \subseteq DOMAIN policy
    /\ \A s \in DOMAIN policy :
           /\ ValidSource(policy[s])
           /\ ValidTarget(policy[s].target)
           /\ policy[s].target.cadence \in Nat

ASSUME PlanAssumption == ValidRefreshPolicy(RefreshPolicy)

Cadence(s) == RefreshPolicy[s].cadence

-----------------------------------------------------------------------------
(* _full_due(): a state carries its next due day, the clock plus the cadence*)
(* once there was a success.                                                *)
DueReason(s, state, now) ==
    IF state.successAt = 0 THEN "no-successful-full-acquisition"
    ELSE IF now >= state.successAt + Cadence(s) THEN "full-cadence-due"
    ELSE "full-cadence-not-due"

TargetedReasons ==
    {"missing-current-ingredients", "date-unknown-ingredients",
     "stale-ingredients", "refresh-recommended-ingredients",
     "identity-or-formulation-conflict", "ambiguous-review",
     "assessment-recheck", "changed-unreviewed", "admitted-submission"}

(* _targeted_plan(): the first products of the queue that a fetch may help, *)
(* if the policies admit a fetch at all.                                    *)
Targeted(s, queue) ==
    LET target == RefreshPolicy[s].target
        wanted == {e.gtin : e \in {f \in queue : f.reason \in TargetedReasons}}
    IN  [allowed |-> target.enabled /\ target.endpoint \in AcquisitionHosts,
         gtins |-> {g \in wanted :
                      /\ target.enabled
                      /\ Cardinality({h \in wanted : h < g}) < target.max}]

(* build_plan()                                                             *)
Plan(s, state, queue, now) ==
    [mode |-> "targeted", source |-> s, at |-> now,
     due |-> DueReason(s, state, now), accepted |-> state.accepted,
     targeted |-> Targeted(s, queue)]

(* validate_plan(), and what the submission workflow asks of plan and queue:*)
(* nothing may be fetched, and nothing but submissions be queued.           *)
OnlySubmissions(plan, queue) ==
    /\ plan.mode = "targeted"
    /\ ~plan.targeted.allowed
    /\ \A e \in queue : e.reason = "admitted-submission"
==============================================================================
