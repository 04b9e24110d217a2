---------------------------- MODULE PlanExecution ----------------------------
(***************************************************************************)
(* One plan from its planning to its end: DomainEventHandler.handle (plan  *)
(* of a whole run) or SubAgentCoordinator._handle_task (sub-plan of a      *)
(* node) create, resume and replan it, ActionEventHandler.handle works it  *)
(* off, action by action.                                                  *)
(*                                                                         *)
(* As in OrchestrationSteps an invocation reads the state store and then   *)
(* performs its durable effects one at a time, it may end after any of     *)
(* them, and a message is deleted only when its invocation returns.        *)
(* Actions are continued inside the same invocation as long as the inline  *)
(* budget lasts.                                                           *)
(***************************************************************************)
EXTENDS AgentPlan, Sequences

CONSTANTS Workers,        \* invocations that may be running at the same time
          MaxAttempts,    \* ACTION_EXECUTION_ATTEMPTS
          InlineBudget,   \* INLINE_ACTION_CHAIN_BUDGET
          MaxPlans,       \* bound on the plans saved for the run: one, and replans
          MaxCrashes,     \* bound on the invocations that end half-way
          Redelivery,     \* may the queue deliver a message more than once?
          Entries,        \* how runs are requested: by an "event", by a "pointer"
          Hydrates,       \* are plans read with the action statuses of the Prism API?
          WarmStore       \* does the process that planned a node perform it too?

ASSUME PlanExecutionAssumption ==
    /\ MaxAttempts \in Nat \ {0}
    /\ InlineBudget \in Nat
    /\ MaxPlans \in Nat \ {0}
    /\ MaxCrashes \in Nat
    /\ Redelivery \in BOOLEAN
    /\ Entries \in (SUBSET {"event", "pointer"}) \ {{}}
    /\ Hydrates \in BOOLEAN
    /\ WarmStore \in BOOLEAN

VARIABLES
    isSubplan,       \* AgentPlan.is_subplan
    entry,           \* how the run was requested
    needsApproval,   \* actions whose tool requires approval
    planned,         \* saved plan: "none", "empty", "rejected" or "ready"
    gen, plan,       \* which plan is saved, and its actions
    plans,           \* plans saved so far
    keys,            \* actions whose idempotency key is recorded
    pointerKey,      \* is the idempotency key of the pointer recorded?
    run,             \* status of the agent run in the Prism API
    api,             \* status of its actions there, where plans are hydrated
    settled,         \* statuses of the SubAgentCompletedEvents enqueued so far
    pending, delivered, inv, crashes,   \* as in OrchestrationSteps
    started,         \* actions whose tool was called
    succeeded        \* actions whose tool call returned successfully

input  == <<isSubplan, entry, needsApproval>>
saved  == <<planned, gen, plan, plans>>
queue  == <<pending, delivered>>
tools  == <<started, succeeded>>
idem   == <<keys, pointerKey>>
vars   == <<input, saved, idem, run, api, settled, queue, inv, crashes, tools>>

-----------------------------------------------------------------------------
RunStatus    == {"none", "running", "waiting", "completed", "failed", "cancelled"}
RunTerminal  == {"completed", "failed", "cancelled"}
SettleStatus == {"completed", "failed", "waiting_for_approval"}

\* The actions of different plans of a run have different ids and keys.
Gens      == 1 .. MaxPlans
ActionIds == Gens \X Actions

\* The trigger of the run or the task of the node, the request to replan, and
\* the request to perform action i of plan g for the k-th time.
Drive           == [kind |-> "drive"]
Replan(g)       == [kind |-> "replan", gen |-> g]
Act(g, i, k)    == [kind |-> "action", gen |-> g, action |-> i, attempt |-> k]

Attempts == 0 .. MaxAttempts - 1
Message  == {Drive} \cup {Replan(g) : g \in Gens}
            \cup {Act(g, i, k) : g \in Gens, i \in Actions, k \in Attempts}

\* The durable effects of an invocation, its tool calls, and its other ends.
SaveNewPlan(how) == [op |-> "save_new_plan", planned |-> how]
RejectPlan       == [op |-> "reject_plan"]
UpdatePlan(p)    == [op |-> "update_plan", plan |-> p]
RecordKey(i)     == [op |-> "record_idempotency_key", action |-> i]
RecordPointerKey == [op |-> "record_pointer_key"]
UpsertAction(i, s) == [op |-> "upsert_agent_action", actions |-> {i}, status |-> s]
UpsertActions    == [op |-> "upsert_agent_action", actions |-> Actions, status |-> PENDING]
PatchRun(s)      == [op |-> "update_agent_run_status", status |-> s]
EnqueueAct(i, k) == [op |-> "enqueue_action", action |-> i, attempt |-> k]
EnqueueReplan    == [op |-> "enqueue_replan"]
Settle(s)        == [op |-> "settle", status |-> s]
Execute(i, k)    == [op |-> "execute", action |-> i, attempt |-> k]
EnqueueNext      == [op |-> "enqueue_next_action"]
Raise            == [op |-> "raise"]

If(cond, effects) == IF cond THEN effects ELSE <<>>

\* An invocation: its message, the plan it works with, the actions it has
\* continued with inline, and what is left to do.
Idle == [msg |-> [kind |-> "none"], gen |-> 0, plan |-> NewPlan, used |-> 0, todo |-> <<>>]

Available(m) ==
    \/ m \in pending /\ \A w \in Workers : inv[w].msg # m
    \/ Redelivery /\ m \in pending \cup delivered

-----------------------------------------------------------------------------
(***************************************************************************)
(* PrismApiStateStore.get_plan: the saved plan with the statuses its       *)
(* actions and its run have in the Prism API.  The two tables are not      *)
(* inverse to each other: running is read back as pending, stale as        *)
(* skipped.                                                                *)
(***************************************************************************)
ApiStatus == {"none", "proposed", "approved", "executed", "failed", "cancelled", "rejected"}

\* Plausible bug: an action is reported as executed when its tool is called.
ActionStatusToApiEarly(i, s) ==
    CASE s \in {COMPLETED, RUNNING} -> "executed"
      [] s = FAILED -> "failed"
      [] s \in {SKIPPED, STALE} -> "cancelled"
      [] s = REQUIRES_APPROVAL -> "proposed"
      [] s = PENDING -> IF i \in needsApproval THEN "proposed" ELSE "approved"

ActionStatusToApi(i, s) ==
    CASE s = COMPLETED -> "executed"
      [] s = FAILED -> "failed"
      [] s \in {SKIPPED, STALE} -> "cancelled"
      [] s = RUNNING -> "approved"
      [] s = REQUIRES_APPROVAL -> "proposed"
      [] s = PENDING -> IF i \in needsApproval THEN "proposed" ELSE "approved"

ActionStatusFromRecord(i, record, current) ==
    CASE record = "none" -> current
      [] record = "proposed" -> IF i \in needsApproval THEN REQUIRES_APPROVAL ELSE PENDING
      [] record = "approved" -> PENDING
      [] record = "executed" -> COMPLETED
      [] record = "failed" -> FAILED
      [] record \in {"cancelled", "rejected"} -> SKIPPED

\* The plan as an invocation reads it, and its status.
GetPlan ==
    IF Hydrates /\ gen > 0
    THEN [i \in Actions |-> ActionStatusFromRecord(i, api[<<gen, i>>], plan[i])]
    ELSE plan

PlanEnded == Hydrates /\ run \in RunTerminal

GetPlanStatus == IF PlanEnded THEN run ELSE PlanStatus(GetPlan)

\* get_context_snapshot looks in the memory of the process only.  A cold one has
\* loaded the records kept under the id of the plan; the snapshot is kept under
\* the id of the run.
SnapshotFound == WarmStore \/ ~isSubplan

-----------------------------------------------------------------------------
(***************************************************************************)
(* record_action_state: the run is patched only when its status is not     *)
(* "running", and never for a sub-plan.                                    *)
(***************************************************************************)
RunStatusOf(p) ==
    CASE PlanStatus(p) \in {"completed", "failed"} -> PlanStatus(p)
      [] PlanStatus(p) \in {"waiting_for_approval", "replan_required"} -> "waiting"
      [] OTHER -> "running"

RecordActionState(p, i) ==
    If(Hydrates, <<UpsertAction(i, p[i])>>)
    \o If(~isSubplan /\ RunStatusOf(p) # "running", <<PatchRun(RunStatusOf(p))>>)

RecordPlanCreated == If(Hydrates, <<UpsertActions>>)

SettleSubplan(s) == If(isSubplan, <<Settle(s)>>)

(***************************************************************************)
(* DomainEventHandler.handle and SubAgentCoordinator._handle_task.         *)
(***************************************************************************)
\* A plan without actions: the run fails, a node has nothing to do.
EmptyPlan == IF isSubplan THEN <<Settle("completed")>> ELSE <<RejectPlan, PatchRun("failed")>>

\* The planner returns a plan, or one without actions, or raises.  A sub-plan's
\* planner that raises leaves everything as it was.
Planning ==
    {<<SaveNewPlan("ready")>> \o RecordPlanCreated \o <<EnqueueAct(1, 0)>>,
     <<SaveNewPlan("empty")>> \o EmptyPlan}
    \cup (IF isSubplan THEN {} ELSE {<<PatchRun("failed"), Raise>>})

\* A plan that exists is resumed at its next action.  One that has ended is
\* reported again, for a sub-plan; one that is stuck, with an action cut off
\* while it was running, fails its run.
ResumeReady ==
    IF GetPlanStatus = "running" /\ NextPendingAction(GetPlan) # {}
    THEN <<EnqueueAct(CHOOSE i \in NextPendingAction(GetPlan) : TRUE, 0)>>
    ELSE CASE GetPlanStatus = "completed" -> SettleSubplan("completed")
           [] GetPlanStatus = "waiting_for_approval" -> SettleSubplan("waiting_for_approval")
           [] GetPlanStatus \in {"failed", "cancelled", "replan_required"} -> SettleSubplan("failed")
           [] OTHER -> If(~isSubplan, <<RejectPlan, PatchRun("failed")>>)

Resume ==
    CASE planned = "ready"    -> ResumeReady
      [] planned = "empty" /\ ~PlanEnded -> EmptyPlan
      [] OTHER                -> <<>>   \* a failed plan

\* Plausible bug: the status of the run is not looked at.
PlansAnewAlways == plans < MaxPlans

\* record_run_started and record_run_running raise for a run that has ended.
PlansAnew ==
    /\ isSubplan \/ run \notin RunTerminal
    /\ plans < MaxPlans

DriveEffects ==
    IF planned # "none" THEN {Resume} ELSE IF PlansAnew THEN Planning ELSE {<<>>}

(***************************************************************************)
(* FeatureProvisioningWorker.handle_pointer: the key is recorded when the  *)
(* request was handled without raising.                                    *)
(***************************************************************************)
KnownPointer == entry = "pointer" /\ pointerKey

\* Plausible bug: the key is recorded before the request is handled.
RequestEffectsKeyFirst ==
    IF KnownPointer THEN {<<>>}
    ELSE IF entry = "pointer" THEN {<<RecordPointerKey>> \o todo : todo \in DriveEffects}
    ELSE DriveEffects

RequestEffects ==
    IF KnownPointer THEN {<<>>}
    ELSE IF entry = "pointer" THEN {todo \o <<RecordPointerKey>> : todo \in DriveEffects}
    ELSE DriveEffects

ReplanRequired == planned = "ready" /\ GetPlanStatus = "replan_required"

ReplanEffects ==
    IF ~ReplanRequired THEN {Resume} ELSE IF PlansAnew THEN Planning ELSE {<<>>}

(***************************************************************************)
(* ActionEventHandler.handle, up to the call of the tool.                  *)
(***************************************************************************)
FailAction(p, i) ==
    LET q == ReplaceAction(p, i, FAILED)
    IN  <<UpdatePlan(q)>> \o RecordActionState(q, i) \o SettleSubplan("failed")

StaleAction(p, i) ==
    LET q == ReplaceAction(p, i, STALE)
    IN  <<UpdatePlan(q)>> \o RecordActionState(q, i)
        \o (IF isSubplan THEN <<Settle("failed")>> ELSE <<EnqueueReplan>>)

SuggestAction(p, i) ==
    LET q == ReplaceAction(p, i, REQUIRES_APPROVAL)
    IN  <<UpdatePlan(q)>> \o RecordActionState(q, i) \o <<RecordKey(i)>>
        \o SettleSubplan("waiting_for_approval")

\* Plausible bug: the action is not saved as running before its tool is called.
StartActionUnsaved(p, i, k) == <<Execute(i, k)>>

StartAction(p, i, k) ==
    LET q == ReplaceAction(p, i, RUNNING)
    IN  RecordActionState(q, i) \o <<UpdatePlan(q), Execute(i, k)>>

\* What validate_before_execution may decide: the permission and the versions
\* are those of the moment.  A root plan may be found stale as often as the
\* bound on plans allows.
ValidatedEffects(p, i, k) ==
    {FailAction(p, i)}
    \cup (IF isSubplan \/ plans < MaxPlans THEN {StaleAction(p, i)} ELSE {})
    \cup {IF i \in needsApproval THEN SuggestAction(p, i) ELSE StartAction(p, i, k)}

\* Plausible bug: an action that is not pending ends the invocation.
ActionEffectsNoContinuation(g, p, i, k) ==
    IF p[i] # PENDING \/ <<g, i>> \in keys THEN {<<>>} ELSE ValidatedEffects(p, i, k)

\* _enqueue_next_action for a plan as it was read.
PlanCompleted == IF isSubplan THEN <<Settle("completed")>> ELSE <<PatchRun("completed")>>

Continue == IF PlanEnded THEN If(run = "completed", PlanCompleted) ELSE <<EnqueueNext>>

ActionEffects(g, p, i, k) ==
    IF p[i] \in {COMPLETED, SKIPPED} THEN {Continue}
    ELSE IF p[i] # PENDING \/ <<g, i>> \in keys THEN {<<>>}
    ELSE ValidatedEffects(p, i, k)

(***************************************************************************)
(* ActionEventHandler.handle, after the tool call.                         *)
(***************************************************************************)
ToolRaised(p, i) == FailAction(p, i) \o If(~isSubplan, <<Raise>>)

\* Plausible bug: neither the API nor the key learns of the success.
ToolSucceededUnrecorded(p, i) == <<UpdatePlan(ReplaceAction(p, i, COMPLETED)), EnqueueNext>>

ToolSucceeded(p, i) ==
    LET q == ReplaceAction(p, i, COMPLETED)
    IN  <<UpdatePlan(q)>> \o RecordActionState(q, i) \o <<RecordKey(i), EnqueueNext>>

RetryAction(p, i, k) ==
    LET q == ReplaceAction(p, i, PENDING)
    IN  <<UpdatePlan(q), EnqueueAct(i, k + 1)>> \o RecordActionState(q, i)

\* Plausible bugs: the last attempt is retried too, or its failure is not
\* reported.
ToolFailedOnceMore(p, i, k) ==
    IF k < MaxAttempts
    THEN RetryAction(p, i, k)
    ELSE FailAction(p, i)
ToolFailedUnreported(p, i, k) ==
    IF k + 1 < MaxAttempts
    THEN RetryAction(p, i, k)
    ELSE <<UpdatePlan(ReplaceAction(p, i, FAILED))>>

ToolFailed(p, i, k) ==
    IF k + 1 < MaxAttempts
    THEN RetryAction(p, i, k)
    ELSE FailAction(p, i)

-----------------------------------------------------------------------------
(***************************************************************************)
(* An invocation begins: it is handed a message and reads what it needs.   *)
(***************************************************************************)
Receives(w, m) == inv[w] = Idle /\ Available(m)

Invoke(w, m, todo) ==
    /\ inv' = [inv EXCEPT ![w] = [msg |-> m, gen |-> gen, plan |-> GetPlan, used |-> 0,
                                  todo |-> todo]]
    /\ UNCHANGED <<input, saved, idem, api, settled, queue, crashes, tools>>

BeginDrive(w) ==
    /\ Receives(w, Drive)
    /\ \E todo \in RequestEffects : Invoke(w, Drive, todo)
    /\ run' = IF ~KnownPointer /\ planned = "none" /\ PlansAnew THEN "running" ELSE run

BeginReplan(w, g) ==
    /\ Receives(w, Replan(g))
    /\ \E todo \in ReplanEffects : Invoke(w, Replan(g), todo)
    /\ run' = IF ReplanRequired /\ PlansAnew THEN "running" ELSE run

\* The handler raises for an action the saved plan does not have, or when the
\* context snapshot is not found, and the message stays where it is.
BeginAction(w, g, i, k) ==
    /\ g = gen
    /\ Receives(w, Act(g, i, k))
    /\ GetPlan[i] = PENDING => SnapshotFound
    /\ \E todo \in ActionEffects(gen, GetPlan, i, k) : Invoke(w, Act(g, i, k), todo)
    /\ UNCHANGED run

-----------------------------------------------------------------------------
(***************************************************************************)
(* One step of a running invocation.                                       *)
(***************************************************************************)
Todo(w)          == inv[w].todo
NextIs(w, op)    == Todo(w) # <<>> /\ Head(Todo(w)).op = op
Proceed(w, todo) == inv' = [inv EXCEPT ![w].todo = todo]

DoSaveNewPlan(w) ==
    /\ NextIs(w, "save_new_plan")
    /\ plans < MaxPlans
    /\ planned' = Head(Todo(w)).planned
    /\ plans' = plans + 1
    /\ gen' = plans + 1
    /\ plan' = NewPlan
    /\ inv' = [inv EXCEPT ![w].gen = gen', ![w].plan = NewPlan, ![w].todo = Tail(@)]
    /\ UNCHANGED <<input, idem, run, api, settled, queue, crashes, tools>>

DoRejectPlan(w) ==
    /\ NextIs(w, "reject_plan")
    /\ planned' = "rejected"
    /\ gen' = inv[w].gen
    /\ plan' = inv[w].plan
    /\ Proceed(w, Tail(Todo(w)))
    /\ UNCHANGED <<input, plans, idem, run, api, settled, queue, crashes, tools>>

DoUpdatePlan(w) ==
    /\ NextIs(w, "update_plan")
    /\ planned' = "ready"
    /\ gen' = inv[w].gen
    /\ plan' = Head(Todo(w)).plan
    /\ inv' = [inv EXCEPT ![w].plan = plan', ![w].todo = Tail(@)]
    /\ UNCHANGED <<input, plans, idem, run, api, settled, queue, crashes, tools>>

DoRecordKey(w) ==
    /\ NextIs(w, "record_idempotency_key")
    /\ keys' = keys \cup {<<inv[w].gen, Head(Todo(w)).action>>}
    /\ Proceed(w, Tail(Todo(w)))
    /\ UNCHANGED <<input, saved, pointerKey, run, api, settled, queue, crashes, tools>>

DoRecordPointerKey(w) ==
    /\ NextIs(w, "record_pointer_key")
    /\ pointerKey' = TRUE
    /\ Proceed(w, Tail(Todo(w)))
    /\ UNCHANGED <<input, saved, keys, run, api, settled, queue, crashes, tools>>

DoUpsertAction(w) ==
    LET e == Head(Todo(w))
    IN  /\ NextIs(w, "upsert_agent_action")
        /\ api' = [id \in ActionIds |->
                      IF id[1] = inv[w].gen /\ id[2] \in e.actions
                      THEN ActionStatusToApi(id[2], e.status) ELSE api[id]]
        /\ Proceed(w, Tail(Todo(w)))
        /\ UNCHANGED <<input, saved, idem, run, settled, queue, crashes, tools>>

DoPatchRun(w) ==
    /\ NextIs(w, "update_agent_run_status")
    /\ run' = Head(Todo(w)).status
    /\ Proceed(w, Tail(Todo(w)))
    /\ UNCHANGED <<input, saved, idem, api, settled, queue, crashes, tools>>

DoEnqueueAct(w) ==
    /\ NextIs(w, "enqueue_action")
    /\ pending' = pending \cup {Act(inv[w].gen, Head(Todo(w)).action, Head(Todo(w)).attempt)}
    /\ Proceed(w, Tail(Todo(w)))
    /\ UNCHANGED <<input, saved, idem, run, api, settled, delivered, crashes, tools>>

DoEnqueueReplan(w) ==
    /\ NextIs(w, "enqueue_replan")
    /\ pending' = pending \cup {Replan(inv[w].gen)}
    /\ Proceed(w, Tail(Todo(w)))
    /\ UNCHANGED <<input, saved, idem, run, api, settled, delivered, crashes, tools>>

DoSettle(w) ==
    /\ NextIs(w, "settle")
    /\ settled' = settled \cup {Head(Todo(w)).status}
    /\ Proceed(w, Tail(Todo(w)))
    /\ UNCHANGED <<input, saved, idem, run, api, queue, crashes, tools>>

\* The tool raises, reports success, or reports an error.  Saving its result
\* decides nothing here and is not an effect of its own.
DoExecute(w) ==
    LET i == Head(Todo(w)).action
        k == Head(Todo(w)).attempt
        p == inv[w].plan
    IN  /\ NextIs(w, "execute")
        /\ started' = started \cup {<<inv[w].gen, i>>}
        /\ \/ Proceed(w, ToolRaised(p, i)) /\ UNCHANGED succeeded
           \/ Proceed(w, ToolFailed(p, i, k)) /\ UNCHANGED succeeded
           \/ /\ Proceed(w, ToolSucceeded(p, i))
              /\ succeeded' = succeeded \cup {<<inv[w].gen, i>>}
        /\ UNCHANGED <<input, saved, idem, run, api, settled, queue, crashes>>

(***************************************************************************)
(* _enqueue_next_action: the plan has ended, or its next action is         *)
(* performed by this invocation, or it is left to the queue.               *)
(***************************************************************************)
InlineAllowed(w, j) == j \notin needsApproval /\ inv[w].used < InlineBudget

\* handle reads the plan again and may not find the action in it any more.
InlineEffects(w, j) ==
    IF gen = inv[w].gen /\ SnapshotFound THEN ActionEffects(gen, GetPlan, j, 0) ELSE {<<Raise>>}

DoEnqueueNext(w) ==
    LET next == NextPendingAction(inv[w].plan)
    IN  /\ NextIs(w, "enqueue_next_action")
        /\ \/ /\ next = {}
              /\ Proceed(w, If(PlanStatus(inv[w].plan) = "completed", PlanCompleted)
                            \o Tail(Todo(w)))
           \/ \E j \in next :
                 /\ ~InlineAllowed(w, j)
                 /\ Proceed(w, <<EnqueueAct(j, 0)>> \o Tail(Todo(w)))
           \/ \E j \in next : \E todo \in InlineEffects(w, j) :
                 /\ InlineAllowed(w, j)
                 /\ inv' = [inv EXCEPT ![w].plan = GetPlan, ![w].used = @ + 1,
                                       ![w].todo = todo \o Tail(Todo(w))]
        /\ UNCHANGED <<input, saved, idem, run, api, settled, queue, crashes, tools>>

\* The handler raises: the invocation ends, its message is not deleted.
DoRaise(w) ==
    /\ NextIs(w, "raise")
    /\ inv' = [inv EXCEPT ![w] = Idle]
    /\ UNCHANGED <<input, saved, idem, run, api, settled, queue, crashes, tools>>

\* The handler returns and the queue deletes the message.
End(w) ==
    /\ inv[w] # Idle
    /\ Todo(w) = <<>>
    /\ pending' = pending \ {inv[w].msg}
    /\ delivered' = delivered \cup {inv[w].msg}
    /\ inv' = [inv EXCEPT ![w] = Idle]
    /\ UNCHANGED <<input, saved, idem, run, api, settled, crashes, tools>>

\* The process dies or a call to the API, the store or the queue raises.
Crash(w) ==
    /\ inv[w] # Idle
    /\ crashes < MaxCrashes
    /\ crashes' = crashes + 1
    /\ inv' = [inv EXCEPT ![w] = Idle]
    /\ UNCHANGED <<input, saved, idem, run, api, settled, queue, tools>>

\* A user decides on a proposed action, in the Prism application.
UserDecides(i) ==
    /\ gen > 0
    /\ api[<<gen, i>>] = "proposed"
    /\ \E s \in {"approved", "rejected"} : api' = [api EXCEPT ![<<gen, i>>] = s]
    /\ UNCHANGED <<input, saved, idem, run, settled, queue, inv, crashes, tools>>

Perform(w) ==
    \/ DoSaveNewPlan(w)
    \/ DoRejectPlan(w)
    \/ DoUpdatePlan(w)
    \/ DoRecordKey(w)
    \/ DoRecordPointerKey(w)
    \/ DoUpsertAction(w)
    \/ DoPatchRun(w)
    \/ DoEnqueueAct(w)
    \/ DoEnqueueReplan(w)
    \/ DoSettle(w)
    \/ DoExecute(w)
    \/ DoEnqueueNext(w)
    \/ DoRaise(w)
    \/ End(w)

-----------------------------------------------------------------------------
\* A run that was cancelled may still be triggered; a node's run is running.
Init ==
    /\ isSubplan \in IF Hydrates THEN {FALSE} ELSE BOOLEAN
    /\ entry \in IF isSubplan THEN {"event"} ELSE Entries
    /\ needsApproval \in SUBSET Actions
    /\ planned = "none"
    /\ gen = 0
    /\ plan = NewPlan
    /\ plans = 0
    /\ keys = {}
    /\ pointerKey = FALSE
    /\ run \in IF isSubplan THEN {"running"} ELSE {"none", "cancelled"}
    /\ api = [id \in ActionIds |-> "none"]
    /\ settled = {}
    /\ pending = {Drive}
    /\ delivered = {}
    /\ inv = [w \in Workers |-> Idle]
    /\ crashes = 0
    /\ started = {}
    /\ succeeded = {}

Next ==
    \/ \E w \in Workers :
          \/ BeginDrive(w)
          \/ \E g \in Gens : BeginReplan(w, g)
          \/ \E g \in Gens, i \in Actions, k \in Attempts : BeginAction(w, g, i, k)
          \/ Perform(w)
          \/ Crash(w)
    \/ \E i \in Actions : UserDecides(i)

Spec == Init /\ [][Next]_vars

(***************************************************************************)
(* A running invocation goes on unless it crashes, and as long as there    *)
(* are messages that can be handled the queue hands out one of them.       *)
(***************************************************************************)
BeginPending ==
    \E w \in Workers :
        \/ Drive \in pending /\ BeginDrive(w)
        \/ \E g \in Gens : Replan(g) \in pending /\ BeginReplan(w, g)
        \/ \E g \in Gens, i \in Actions, k \in Attempts :
              Act(g, i, k) \in pending /\ BeginAction(w, g, i, k)

Fairness == WF_vars(BeginPending) /\ \A w \in Workers : WF_vars(Perform(w))

FairSpec == Spec /\ Fairness

-----------------------------------------------------------------------------
(***************************************************************************)
(* Properties                                                              *)
(***************************************************************************)
\* Every variable stays in its type; a busy worker holds a message.
TypeOK ==
    /\ isSubplan \in BOOLEAN
    /\ entry \in {"event", "pointer"}
    /\ needsApproval \in SUBSET Actions
    /\ planned \in {"none", "empty", "rejected", "ready"}
    /\ gen \in 0 .. MaxPlans
    /\ plan \in Plan
    /\ plans \in 0 .. MaxPlans
    /\ keys \in SUBSET ActionIds
    /\ pointerKey \in BOOLEAN
    /\ run \in RunStatus
    /\ api \in [ActionIds -> ApiStatus]
    /\ settled \in SUBSET SettleStatus
    /\ pending \in SUBSET Message
    /\ delivered \in SUBSET Message
    /\ crashes \in 0 .. MaxCrashes
    /\ started \in SUBSET ActionIds
    /\ succeeded \in SUBSET ActionIds
    /\ \A w \in Workers :
          /\ inv[w] = Idle \/ inv[w].msg \in Message
          /\ inv[w].used \in 0 .. InlineBudget

\* No tool is called again for an action whose call succeeded, however often
\* its event is delivered and wherever an invocation was cut off: the action
\* is saved as running before the call (ActionEventHandler.handle).
NeverRepeatsSuccess ==
    \A w \in Workers :
        NextIs(w, "execute") => <<inv[w].gen, Head(Todo(w)).action>> \notin succeeded

\* Read back from the Prism API an action that is running is a pending one, and
\* that protection is gone.  Even so a tool is called again after a success
\* only when an invocation was cut off, never by redelivery, retries, replans
\* or the decisions of users alone.
RepeatsOnlyAfterCrash == crashes = 0 => NeverRepeatsSuccess

\* An action the Prism API shows as executed really was: a status is written
\* there only after the tool succeeded, and the statuses that are read back and
\* saved again never make up a success (record_action_state, get_plan).
ExecutedIsTrue == \A id \in ActionIds : api[id] = "executed" => id \in succeeded

\* A request that is known as handled was handled: its run has a verdict, its
\* plan was given up or its first action has reached the queue, wherever an
\* invocation was cut off (FeatureProvisioningWorker.handle_pointer records the
\* key last).
PointerServed ==
    pointerKey => \/ run \in RunTerminal
                  \/ planned = "rejected"
                  \/ \E m \in pending \cup delivered : m.kind = "action"

\* The tools of a plan are called in its order: an action is only started when
\* the calls of all actions before it succeeded (depends_on chain,
\* next_pending_action).
ExecutesInOrder ==
    \A id \in started : \A j \in 1 .. id[2] - 1 : <<id[1], j>> \in succeeded

Performed(g) == \A i \in Actions : <<g, i>> \in succeeded

\* A run is reported completed only when every action of one of its plans was
\* really performed, also when two invocations plan or work it off at once.
RunCompletionEarned ==
    run = "completed" => \E g \in 1 .. plans : Performed(g)

\* A node is reported completed only when its plan was performed or is empty.
SettlementEarned ==
    "completed" \in settled => planned = "empty" \/ Performed(gen)

\* A sub-plan reports one outcome, however often it reports: Orchestration
\* counts on it.
SettlesConsistently == \A s, t \in settled : s = t

\* The verdict on a run is final: no late or repeated event changes it.
VerdictStable == [][(run \in RunTerminal) => (run' = run)]_vars

\* The plan has come to an end that others can see: the node is settled, or the
\* run has a verdict or waits for an approval.
Decided ==
    IF isSubplan THEN settled # {}
    ELSE \/ run \in RunTerminal
         \/ run = "waiting" /\ PlanStatus(plan) = "waiting_for_approval"

\* Without crashes every plan comes to such an end, through retries, inline
\* and queued continuations and replans.
DecidedWithoutCrash == [](crashes = 0) => <>[]Decided

\* A crash can leave the plan without an end only inside the handling of one
\* action or of an empty plan; between two actions redelivery always resumes.
CutShort ==
    \/ planned = "rejected"
    \/ \E i \in Actions : plan[i] \notin {PENDING, COMPLETED}

ResumesBetweenActions == <>[](Decided \/ CutShort)

\* A node whose task was dispatched settles: plans and context snapshots are
\* persisted "so it survives across function invocations" (settings.py).
NodeSettles == isSubplan ~> settled # {}

\* A sub-plan that hits a stale context settles its node as failed "so the run
\* does not hang on stale context" (action_event_handler.py).
StaleContextSettles ==
    isSubplan /\ PlanStatus(plan) = "replan_required" ~> "failed" \in settled
=============================================================================
