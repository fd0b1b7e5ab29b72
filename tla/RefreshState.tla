---------------------------- MODULE RefreshState ----------------------------
(***************************************************************************)
(* The refresh state of one source: what protected main has accepted, the   *)
(* candidate waiting for acceptance, and the operational clock, which is    *)
(* the time and the run of the latest successful full acquisition.  These   *)
(* are the pure functions of Tools/catalog_refresh.py and                   *)
(* Tools/catalog_refresh_operational_state.py.                              *)
(*                                                                          *)
(* An attempt stands for one acquisition that passed the quality gate (a    *)
(* blocked one ends its run before it is evaluated).  It is complete if it  *)
(* was a full download; a fixture is evaluated as partial.  Its content     *)
(* stands for digest, record count, adapter and policy versions, and its    *)
(* snapshot identity is the run that made it.  The eligibility flags repeat *)
(* "there is a candidate", and nextFullDueAt is the clock plus the cadence. *)
(***************************************************************************)
EXTENDS Naturals

CONSTANTS Contents, None

Attempt == [run : Nat, complete : BOOLEAN, content : Contents, at : Nat]

State == [accepted : Attempt \cup {None}, candidate : Attempt \cup {None},
          successAt : Nat, successRun : Nat]

(* The state a source starts from: nothing accepted, no success known.      *)
NoLineage ==
    [accepted |-> None, candidate |-> None, successAt |-> 0, successRun |-> 0]

Same(accepted, attempt) ==
    accepted # None /\ accepted.content = attempt.content

(* evaluate(): a complete attempt that differs from what is accepted is the *)
(* new candidate; what is accepted never changes here.                      *)
Evaluate(attempt, previous) ==
    [previous EXCEPT
       !.candidate = IF attempt.complete /\ ~Same(previous.accepted, attempt)
                     THEN attempt ELSE None]

(* Mutant: any attempt that ends well moves the clock.                      *)
TickAlways(state, attempt) ==
    [state EXCEPT !.successAt = attempt.at, !.successRun = attempt.run]

(* apply_operational_clock(): only a complete full attempt moves the clock. *)
ApplyOperationalClock(state, attempt) ==
    IF attempt.complete
    THEN [state EXCEPT !.successAt = attempt.at, !.successRun = attempt.run]
    ELSE state

(* Mutant: the artifact's clock is taken without comparing.                 *)
TakeOperational(accepted, operational) ==
    IF operational = None THEN accepted
    ELSE [accepted EXCEPT !.successAt = operational.successAt,
                          !.successRun = operational.successRun]

(* merge_previous_state(): lineage from protected main, the clock from the  *)
(* prior run's artifact if it is ahead.                                     *)
MergePreviousState(accepted, operational) ==
    IF operational # None /\ operational.successAt > accepted.successAt
    THEN [accepted EXCEPT !.successAt = operational.successAt,
                          !.successRun = operational.successRun]
    ELSE accepted

(* Mutant: the candidate slot is not cleared.                               *)
PromoteCopy(state) == [state EXCEPT !.accepted = state.candidate]

(* Mutant: the candidate slot is cleared and nothing else changes.          *)
PromoteNothing(state) == [state EXCEPT !.candidate = None]

(* promote_state()                                                          *)
PromoteState(state) ==
    [state EXCEPT !.accepted = state.candidate, !.candidate = None]

(* _promotion_candidate(): the file a proposal branch must end up with; a   *)
(* source without a candidate keeps the file of the reviewed base.          *)
Promoted(state, base) ==
    IF state.candidate = None THEN base ELSE PromoteState(state)
=============================================================================
