---------------------------- MODULE Orchestration ----------------------------
(***************************************************************************)
(* One orchestrated run: DomainEventHandler._handle_orchestrated and       *)
(* SubAgentCoordinator over the task graph, an at-least-once queue and the *)
(* Prism agent-run record.                                                 *)
(*                                                                         *)
(* Every handler is one action: it takes a message, reads and writes the   *)
(* state store, patches the run, enqueues and acknowledges without another *)
(* invocation in between and without dying half-way.  That is the local    *)
(* RecursionRunner, and the OCI function as long as invocations do not     *)
(* overlap; OrchestrationSteps drops both assumptions.                     *)
(*                                                                         *)
(* Delivery is at least once and in any order: a message stays in pending  *)
(* until it is handled and may be handled again at any later time.         *)
(***************************************************************************)
EXTENDS TaskGraph

CONSTANT Workflows     \* the depends_on functions a run may be started with

ASSUME WorkflowsAssumption == Workflows \subseteq Dependencies

VARIABLES
    dependsOn,     \* depends_on of the workflow of this run
    orchestrated,  \* has the task graph been saved in the state store?
    graph,         \* the status of every node in the saved task graph
    subPlan,       \* per node, the state of the saved sub-plan
    results,       \* nodes whose SubAgentResult is saved
    synthInput,    \* nodes whose results the synthesizer was planned with
    run,           \* status of the agent run in the Prism API
    pending,       \* messages that have not been acknowledged
    delivered      \* messages that were acknowledged and may be redelivered

vars == <<dependsOn, orchestrated, graph, subPlan, results, synthInput, run,
          pending, delivered>>

-----------------------------------------------------------------------------
(***************************************************************************)
(* "none": no sub-plan; "open": it has actions and they are being worked   *)
(* off (PLANNED or RUNNING); "empty": PLANNED without actions; "failed"    *)
(* stands for FAILED, CANCELLED and REPLAN_REQUIRED, which the coordinator *)
(* treats alike.                                                           *)
(***************************************************************************)
SubPlanState == {"none", "open", "empty", "completed", "waiting_for_approval", "failed"}

SettleStatus == {"completed", "failed", "waiting_for_approval"}

RunStatus   == {"none", "running", "completed", "failed", "cancelled"}
RunTerminal == {"completed", "failed", "cancelled"}

Trigger       == [kind |-> "trigger"]
Task(n)       == [kind |-> "task", node |-> n]
Settled(n, s) == [kind |-> "settled", node |-> n, status |-> s]

Message == {Trigger} \cup {Task(n) : n \in AllNodes}
                     \cup {Settled(n, s) : n \in AllNodes, s \in SettleStatus}

Deliverable(m) == m \in pending \cup delivered

Acknowledge(m, sent) ==
    /\ pending'   = (pending \ {m}) \cup sent
    /\ delivered' = delivered \cup {m}

\* A handler that returns early: the message is consumed, nothing else happens.
Ignore(m) ==
    /\ Acknowledge(m, {})
    /\ UNCHANGED <<dependsOn, orchestrated, graph, subPlan, results, synthInput, run>>

-----------------------------------------------------------------------------
(***************************************************************************)
(* DomainEventHandler._handle_orchestrated.  Creating the run answers with *)
(* the status of an existing run of that id, so a run that was cancelled   *)
(* before the trigger is picked up is left alone.                          *)
(***************************************************************************)
StartOrchestration ==
    LET ready == ReadyNodes(dependsOn, NewGraph)
    IN  /\ ~orchestrated
        /\ run \notin RunTerminal
        /\ orchestrated' = TRUE
        /\ graph' = ClaimReady(dependsOn, NewGraph)
        /\ run' = IF ready = {} THEN "failed" ELSE "running"
        /\ Acknowledge(Trigger, {Task(n) : n \in ready})
        /\ UNCHANGED <<dependsOn, subPlan, results, synthInput>>

HandleTrigger ==
    /\ Deliverable(Trigger)
    /\ \/ (orchestrated \/ run \in RunTerminal) /\ Ignore(Trigger)
       \/ StartOrchestration

-----------------------------------------------------------------------------
(***************************************************************************)
(* SubAgentCoordinator._handle_task.  A planning call that raises changes  *)
(* nothing and leaves the message in the queue: it is not a step.          *)
(***************************************************************************)

PlanNode(n) ==
    /\ subPlan[n] = "none"
    /\ \E plan \in {"open", "empty"} :
          /\ subPlan' = [subPlan EXCEPT ![n] = plan]
          /\ Acknowledge(Task(n), IF plan = "empty" THEN {Settled(n, "completed")} ELSE {})
    /\ synthInput' = IF n \in Synthesizers THEN results ELSE synthInput
    /\ UNCHANGED <<dependsOn, orchestrated, graph, results, run>>

\* What _resume_existing_subplan enqueues, next actions of the sub-plan aside.
SettlementOf(plan) ==
    CASE plan \in {"completed", "empty"}  -> {"completed"}
      [] plan = "waiting_for_approval"    -> {"waiting_for_approval"}
      [] plan = "failed"                  -> {"failed"}
      [] OTHER                            -> {}

ResumeExistingSubplan(n) ==
    /\ subPlan[n] # "none"
    /\ Acknowledge(Task(n), {Settled(n, s) : s \in SettlementOf(subPlan[n])})
    /\ UNCHANGED <<dependsOn, orchestrated, graph, subPlan, results, synthInput, run>>

HandleTask(n) ==
    /\ Deliverable(Task(n))
    /\ \/ graph[n] \in {COMPLETED, FAILED} /\ Ignore(Task(n))
       \/ graph[n] \notin {COMPLETED, FAILED} /\ PlanNode(n)
       \/ graph[n] \notin {COMPLETED, FAILED} /\ ResumeExistingSubplan(n)

-----------------------------------------------------------------------------
(***************************************************************************)
(* ActionEventHandler works off the sub-plan and reports its outcome once  *)
(* no action is left: _settle_subplan.  How it gets there is the subject   *)
(* of PlanExecution.                                                       *)
(***************************************************************************)
SubPlanSettles(n) ==
    /\ subPlan[n] = "open"
    /\ \E s \in SettleStatus :
          /\ subPlan' = [subPlan EXCEPT ![n] = s]
          /\ pending' = pending \cup {Settled(n, s)}
    /\ UNCHANGED <<dependsOn, orchestrated, graph, results, synthInput, run, delivered>>

\* A redelivered action event of a completed sub-plan reports it once more.
SubPlanSettlesAgain(n) ==
    /\ subPlan[n] = "completed"
    /\ pending' = pending \cup {Settled(n, "completed")}
    /\ UNCHANGED <<dependsOn, orchestrated, graph, subPlan, results, synthInput, run, delivered>>

-----------------------------------------------------------------------------
(***************************************************************************)
(* SubAgentCoordinator._handle_completed.                                  *)
(***************************************************************************)
NodeStatusOf(s) == IF s = "completed" THEN COMPLETED ELSE FAILED

RunAfter(adv) ==
    IF adv.runFailed \/ adv.blocked THEN "failed"
    ELSE IF adv.runCompleted THEN "completed" ELSE run

\* Plausible bug: the result is stored only for nodes that unblock others.
StoreResultOfUnblockers(n, s, adv) ==
    results' = IF s = "completed" /\ n \in Nodes /\ adv.newlyReady # {}
               THEN results \cup {n} ELSE results

\* Plausible bug: the synthesizer's own result is stored as a worker's.
StoreResultOfAll(n, s, adv) ==
    results' = IF s = "completed" THEN results \cup {n} ELSE results

StoreResult(n, s, adv) ==
    results' = IF s = "completed" /\ n \in Nodes THEN results \cup {n} ELSE results

\* Plausible bug: the synthesizer is claimed but not dispatched.
DispatchReadyOnly(adv) == {Task(m) : m \in adv.newlyReady}

Dispatch(adv) == {Task(m) : m \in adv.newlyReady \cup adv.dispatchSynthesizer}

AdvanceTaskGraph(n, s) ==
    LET adv == PlanAdvance(dependsOn, graph, n, NodeStatusOf(s))
    IN  /\ s # "waiting_for_approval"
        /\ ~AlreadyProcessed(graph, n, NodeStatusOf(s))
        /\ graph' = adv.graph
        /\ StoreResult(n, s, adv)
        /\ run' = RunAfter(adv)
        /\ Acknowledge(Settled(n, s), Dispatch(adv))
        /\ UNCHANGED <<dependsOn, orchestrated, subPlan, synthInput>>

HandleCompleted(n, s) ==
    /\ Deliverable(Settled(n, s))
    /\ \/ /\ s = "waiting_for_approval" \/ AlreadyProcessed(graph, n, NodeStatusOf(s))
          /\ Ignore(Settled(n, s))
       \/ AdvanceTaskGraph(n, s)

-----------------------------------------------------------------------------
Init ==
    /\ dependsOn \in Workflows
    /\ orchestrated = FALSE
    /\ graph = NewGraph
    /\ subPlan = [n \in AllNodes |-> "none"]
    /\ results = {}
    /\ synthInput = {}
    /\ run \in {"none", "cancelled"}
    /\ pending = {Trigger}
    /\ delivered = {}

Next ==
    \/ HandleTrigger
    \/ \E n \in AllNodes : HandleTask(n)
    \/ \E n \in AllNodes : SubPlanSettles(n)
    \/ \E n \in AllNodes : SubPlanSettlesAgain(n)
    \/ \E n \in AllNodes, s \in SettleStatus : HandleCompleted(n, s)

Spec == Init /\ [][Next]_vars

(***************************************************************************)
(* The queue delivers every pending message (redelivery is never owed) and *)
(* an open sub-plan ends.                                                  *)
(***************************************************************************)
Fairness ==
    /\ WF_vars(Trigger \in pending /\ HandleTrigger)
    /\ \A n \in AllNodes :
          /\ WF_vars(Task(n) \in pending /\ HandleTask(n))
          /\ WF_vars(SubPlanSettles(n))
          /\ \A s \in SettleStatus :
                WF_vars(Settled(n, s) \in pending /\ HandleCompleted(n, s))

FairSpec == Spec /\ Fairness

-----------------------------------------------------------------------------
(***************************************************************************)
(* Properties                                                              *)
(***************************************************************************)

\* Every variable stays in its type: in particular the coordinator and the
\* domain handler only ever put well-formed events on the queue.
TypeOK ==
    /\ dependsOn \in Dependencies
    /\ orchestrated \in BOOLEAN
    /\ graph \in Graph
    /\ subPlan \in [AllNodes -> SubPlanState]
    /\ results \in SUBSET Nodes
    /\ synthInput \in SUBSET Nodes
    /\ run \in RunStatus
    /\ pending \in SUBSET Message
    /\ delivered \in SUBSET Message

\* A node is claimed only after everything it depends on has completed, and a
\* completed dependency is never taken back, whatever is redelivered when
\* (claim_ready, plan_advance).
DependencyOrder ==
    \A n \in Nodes : graph[n] # PENDING => \A d \in dependsOn[n] : graph[d] = COMPLETED

\* The synthesizer is planned with the result of every worker node: the join
\* neither starts it early nor before the last result is stored
\* (_store_result before _dispatch_node, _inject_results).
SynthesizerSeesEveryResult ==
    \A s \in Synthesizers : subPlan[s] # "none" => synthInput = Nodes

\* No node runs, none can start and not all are done: the "blocked" outcome.
Blocked(d, g) ==
    /\ ReadyNodes(d, g) = {}
    /\ \A n \in Nodes : g[n] # RUNNING
    /\ ~AllNodesCompleted(g)

\* The run reports completed only when every node, the synthesizer included,
\* has completed, and failed only when a node failed or the graph is blocked
\* (record_run_completed_by_id and record_run_failed in _handle_completed).
RunVerdictSound ==
    /\ run = "completed" => \A n \in AllNodes : graph[n] = COMPLETED
    /\ run = "failed" => \/ \E n \in AllNodes : graph[n] = FAILED
                         \/ Blocked(dependsOn, graph)

\* Somebody still has to act on node n: its task or its settlement is in the
\* queue, its sub-plan is being worked off or waits for a user.
Driven(n) ==
    \/ Task(n) \in pending
    \/ subPlan[n] \in {"open", "waiting_for_approval"}
    \/ \E s \in SettleStatus : Settled(n, s) \in pending

\* A running run is never stranded: some node is running, and every running
\* node still has a message or a sub-plan that will move it.  Redelivered
\* tasks and settlements may consume messages in any order.
RunNeverStranded ==
    /\ run = "running" => \E n \in AllNodes : graph[n] = RUNNING
    /\ \A n \in AllNodes : graph[n] = RUNNING => Driven(n)

\* A verdict is final: duplicates and late settlements of other branches never
\* turn a completed run into a failed one or the other way round.
RunVerdictStable == [][(run \in RunTerminal) => run' = run]_vars

\* The nodes whose task event this step enqueues were pending before it.
DispatchClaims ==
    \A n \in AllNodes : Task(n) \in pending' /\ Task(n) \notin pending => graph[n] = PENDING

\* A node's task event is enqueued only by the step that claims the node, so
\* no duplicate trigger or completion dispatches a node (or the synthesizer) a
\* second time: the promise of the plan_advance docstring.
DispatchedOnce == [][DispatchClaims]_vars

\* Every triggered run comes to an end, or a node of it waits for a user.
RunSettles ==
    <>(run \in RunTerminal \/ \E n \in AllNodes : subPlan[n] = "waiting_for_approval")
=============================================================================
