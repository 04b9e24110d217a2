------------------------------ MODULE AgentPlan ------------------------------
(***************************************************************************)
(* The action plan of domain/plans.py as pure operators.                   *)
(*                                                                         *)
(* The planner normalises every plan to a chain: action i depends on       *)
(* action i - 1 alone.  A plan is therefore modelled by the statuses of    *)
(* the actions 1 .. NumActions.  Its own status is a function of them      *)
(* (replace_action recomputes it on every change); PLANNED, the status of  *)
(* a plan no action of which was touched, is not told apart from RUNNING:  *)
(* both have a next action.                                                *)
(***************************************************************************)
EXTENDS Naturals

CONSTANT NumActions

ASSUME NumActionsAssumption == NumActions \in Nat \ {0}

Actions == 1 .. NumActions

PENDING           == "pending"
RUNNING           == "running"
COMPLETED         == "completed"
FAILED            == "failed"
REQUIRES_APPROVAL == "requires_approval"
STALE             == "stale"
SKIPPED           == "skipped"   \* never written by the runtime: read from the API

ActionStatus == {PENDING, RUNNING, COMPLETED, FAILED, REQUIRES_APPROVAL, STALE, SKIPPED}

Plan == [Actions -> ActionStatus]

\* Planner._normalize_plan_for_runtime.
NewPlan == [i \in Actions |-> PENDING]

DependsOn(i) == IF i = 1 THEN {} ELSE {i - 1}

\* Plausible bug: a plan with nothing left to do is a completed one.
PlanStatusNothingLeft(p) ==
    IF \A i \in Actions : p[i] \notin {PENDING, RUNNING} THEN "completed"
    ELSE IF \E i \in Actions : p[i] = FAILED THEN "failed"
    ELSE IF \E i \in Actions : p[i] = REQUIRES_APPROVAL THEN "waiting_for_approval"
    ELSE IF \E i \in Actions : p[i] = STALE THEN "replan_required"
    ELSE "running"

PlanStatus(p) ==
    IF \A i \in Actions : p[i] \in {COMPLETED, SKIPPED} THEN "completed"
    ELSE IF \E i \in Actions : p[i] = FAILED THEN "failed"
    ELSE IF \E i \in Actions : p[i] = REQUIRES_APPROVAL THEN "waiting_for_approval"
    ELSE IF \E i \in Actions : p[i] = STALE THEN "replan_required"
    ELSE "running"

ReplaceAction(p, i, status) == [p EXCEPT ![i] = status]

\* Plausible bug: a rejected or cancelled action counts as done.
CompletedOrSkippedActionIds(p) == {i \in Actions : p[i] \in {COMPLETED, SKIPPED}}

CompletedActionIds(p) == {i \in Actions : p[i] = COMPLETED}

\* Plausible bug: a pending action is picked before its predecessor is done.
NextPendingActionUnordered(p) ==
    IF PlanStatus(p) # "running" THEN {}
    ELSE LET ready == {i \in Actions : p[i] = PENDING}
         IN  {i \in ready : \A j \in ready : i >= j}

\* The set holds the first unblocked pending action, or is empty.
NextPendingAction(p) ==
    IF PlanStatus(p) # "running" THEN {}
    ELSE LET ready == {i \in Actions : p[i] = PENDING /\ DependsOn(i) \subseteq CompletedActionIds(p)}
         IN  {i \in ready : \A j \in ready : i <= j}
=============================================================================
