-------------------------- MODULE OrchestrationSteps --------------------------
(***************************************************************************)
(* Orchestration with the handlers taken apart.  An invocation first reads *)
(* the state store and then performs its durable effects one at a time:    *)
(* saving the task graph, a sub-plan or a result, patching the run,        *)
(* enqueueing an event.  Other invocations run in between, and an          *)
(* invocation may end after any of them: the process dies or a call to the *)
(* Prism API, the object store or the queue raises.  Its message then      *)
(* stays in the queue.                                                     *)
(*                                                                         *)
(* Nothing of the handlers' logic is repeated here: ReadyNodes, ClaimReady *)
(* and PlanAdvance are those of TaskGraph.                                 *)
(***************************************************************************)
EXTENDS TaskGraph, Naturals, Sequences

CONSTANTS Workflows,    \* the depends_on functions a run may be started with
          Workers,      \* invocations that may be running at the same time
          MaxCrashes,   \* bound on the invocations that end half-way
          Redelivery    \* may the queue deliver a message more than once?

ASSUME StepsAssumption ==
    /\ Workflows \subseteq Dependencies
    /\ MaxCrashes \in Nat
    /\ Redelivery \in BOOLEAN

VARIABLES
    dependsOn, orchestrated, graph, subPlan, results, synthInput, run,
    pending, delivered,   \* as in Orchestration
    inv,                  \* per worker, the invocation it is running
    crashes               \* invocations that ended half-way

store == <<dependsOn, orchestrated, graph, subPlan, results, synthInput, run>>
vars  == <<store, pending, delivered, inv, crashes>>

-----------------------------------------------------------------------------
SubPlanState == {"none", "open", "empty", "completed", "waiting_for_approval", "failed"}
SettleStatus == {"completed", "failed", "waiting_for_approval"}
RunStatus    == {"none", "running", "completed", "failed", "cancelled"}
RunTerminal  == {"completed", "failed", "cancelled"}

Trigger       == [kind |-> "trigger"]
Task(n)       == [kind |-> "task", node |-> n]
Action(n)     == [kind |-> "action", node |-> n]
Settled(n, s) == [kind |-> "settled", node |-> n, status |-> s]

Message == {Trigger} \cup {Task(n) : n \in AllNodes} \cup {Action(n) : n \in AllNodes}
                     \cup {Settled(n, s) : n \in AllNodes, s \in SettleStatus}

\* The durable effects of an invocation.
SaveTaskGraph(g)     == [op |-> "save_task_graph", graph |-> g]
ClaimReadyNodes      == [op |-> "claim_ready_nodes"]
SavePlan(n, p, seen) == [op |-> "save_plan", node |-> n, plan |-> p, results |-> seen]
SaveResult(n)        == [op |-> "save_sub_agent_result", node |-> n]
PatchRun(status)     == [op |-> "update_agent_run_status", status |-> status]
Enqueue(msgs)        == [op |-> "enqueue", msgs |-> msgs]

If(cond, effects) == IF cond THEN effects ELSE <<>>

Idle == [msg |-> [kind |-> "none"], todo |-> <<>>]

Deliverable(m) == m \in pending \cup delivered

\* The message is free to be handed to an invocation.
Available(m) ==
    \/ m \in pending /\ \A w \in Workers : inv[w].msg # m
    \/ Redelivery /\ Deliverable(m)

-----------------------------------------------------------------------------
(***************************************************************************)
(* What each handler decides to do, given the state it reads.              *)
(***************************************************************************)

\* _handle_orchestrated after record_run_started, up to claim_ready_nodes.
TriggerEffects ==
    If(~orchestrated /\ run \notin RunTerminal, <<SaveTaskGraph(NewGraph), ClaimReadyNodes>>)

\* claim_ready_nodes reads the graph again; the dispatches follow the save.
ClaimEffects ==
    LET ready == ReadyNodes(dependsOn, graph)
    IN  IF ready = {}
        THEN <<PatchRun("failed")>>
        ELSE <<SaveTaskGraph(ClaimReady(dependsOn, graph)), Enqueue({Task(n) : n \in ready})>>

SettlementOf(plan) == IF plan = "empty" THEN "completed" ELSE plan

\* What a task event enqueues for a node that has a sub-plan.
Continuation(n, plan) ==
    {IF plan = "open" THEN Action(n) ELSE Settled(n, SettlementOf(plan))}

\* _handle_task: the possible plans of a node are chosen by the planner.
TaskEffects(n) ==
    IF graph[n] \in {COMPLETED, FAILED} THEN {<<>>}
    ELSE IF subPlan[n] # "none" THEN {<<Enqueue(Continuation(n, subPlan[n]))>>}
    ELSE {<<SavePlan(n, plan, results), Enqueue(Continuation(n, plan))>> :
             plan \in {"open", "empty"}}

NodeStatusOf(s) == IF s = "completed" THEN COMPLETED ELSE FAILED

\* Plausible bugs: no result is stored, or the synthesizer's as a worker's.
StoreNothing(n, s) == <<>>
StoreAll(n, s)     == If(s = "completed", <<SaveResult(n)>>)

StoreEffects(n, s) == If(s = "completed" /\ n \in Nodes, <<SaveResult(n)>>)

DispatchEffects(adv) ==
    LET claimed == adv.newlyReady \cup adv.dispatchSynthesizer
    IN  If(claimed # {}, <<Enqueue({Task(m) : m \in claimed})>>)

VerdictEffects(adv) ==
    If(adv.runCompleted, <<PatchRun("completed")>>)
    \o If(adv.blocked \/ adv.runFailed, <<PatchRun("failed")>>)

\* Plausible bugs: the graph is saved after the dispatch, or after the verdict.
AdvanceDispatchFirst(n, s, adv) ==
    DispatchEffects(adv) \o <<SaveTaskGraph(adv.graph)>>
    \o StoreEffects(n, s) \o VerdictEffects(adv)
AdvanceVerdictFirst(n, s, adv) ==
    VerdictEffects(adv) \o <<SaveTaskGraph(adv.graph)>>
    \o StoreEffects(n, s) \o DispatchEffects(adv)

AdvanceEffects(n, s, adv) ==
    <<SaveTaskGraph(adv.graph)>> \o StoreEffects(n, s)
    \o DispatchEffects(adv) \o VerdictEffects(adv)

\* _handle_completed: advance_task_graph has read the graph, everything it and
\* the coordinator write comes after.
CompletedEffects(n, s) ==
    If(s # "waiting_for_approval" /\ ~AlreadyProcessed(graph, n, NodeStatusOf(s)),
       AdvanceEffects(n, s, PlanAdvance(dependsOn, graph, n, NodeStatusOf(s))))

-----------------------------------------------------------------------------
(***************************************************************************)
(* An invocation begins: it is handed a message and reads what it needs.   *)
(***************************************************************************)
Invoke(w, m, todo) ==
    /\ inv[w] = Idle
    /\ Available(m)
    /\ inv' = [inv EXCEPT ![w] = [msg |-> m, todo |-> todo]]
    /\ UNCHANGED <<dependsOn, orchestrated, graph, subPlan, results, synthInput,
                   pending, delivered, crashes>>

\* The read of the graph and the create_agent_run call that follows it are one
\* step: creating a run that exists and is not terminal changes nothing.
BeginTrigger(w) ==
    /\ Invoke(w, Trigger, TriggerEffects)
    /\ run' = IF TriggerEffects = <<>> THEN run ELSE "running"

BeginTask(w, n) ==
    /\ \E todo \in TaskEffects(n) : Invoke(w, Task(n), todo)
    /\ UNCHANGED run

BeginCompleted(w, n, s) ==
    /\ Invoke(w, Settled(n, s), CompletedEffects(n, s))
    /\ UNCHANGED run

-----------------------------------------------------------------------------
(***************************************************************************)
(* One durable effect of a running invocation.                             *)
(***************************************************************************)
Todo(w)            == inv[w].todo
NextIs(w, op)      == Todo(w) # <<>> /\ Head(Todo(w)).op = op
Proceed(w, todo)   == inv' = [inv EXCEPT ![w].todo = todo]

DoSaveTaskGraph(w) ==
    /\ NextIs(w, "save_task_graph")
    /\ graph' = Head(Todo(w)).graph
    /\ orchestrated' = TRUE
    /\ Proceed(w, Tail(Todo(w)))
    /\ UNCHANGED <<dependsOn, subPlan, results, synthInput, run, pending, delivered, crashes>>

DoClaimReadyNodes(w) ==
    /\ NextIs(w, "claim_ready_nodes")
    /\ Proceed(w, ClaimEffects)
    /\ UNCHANGED <<store, pending, delivered, crashes>>

DoSavePlan(w) ==
    LET e == Head(Todo(w))
    IN  /\ NextIs(w, "save_plan")
        /\ subPlan' = [subPlan EXCEPT ![e.node] = e.plan]
        /\ synthInput' = IF e.node \in Synthesizers THEN e.results ELSE synthInput
        /\ Proceed(w, Tail(Todo(w)))
        /\ UNCHANGED <<dependsOn, orchestrated, graph, results, run, pending, delivered, crashes>>

DoSaveResult(w) ==
    /\ NextIs(w, "save_sub_agent_result")
    /\ results' = results \cup {Head(Todo(w)).node}
    /\ Proceed(w, Tail(Todo(w)))
    /\ UNCHANGED <<dependsOn, orchestrated, graph, subPlan, synthInput, run,
                   pending, delivered, crashes>>

DoPatchRun(w) ==
    /\ NextIs(w, "update_agent_run_status")
    /\ run' = Head(Todo(w)).status
    /\ Proceed(w, Tail(Todo(w)))
    /\ UNCHANGED <<dependsOn, orchestrated, graph, subPlan, results, synthInput,
                   pending, delivered, crashes>>

\* One event of a batch at a time: an invocation may end between two of them.
DoEnqueue(w) ==
    /\ NextIs(w, "enqueue")
    /\ \E m \in Head(Todo(w)).msgs :
          LET left == Head(Todo(w)).msgs \ {m}
          IN  /\ pending' = pending \cup {m}
              /\ Proceed(w, If(left # {}, <<Enqueue(left)>>) \o Tail(Todo(w)))
    /\ UNCHANGED <<store, delivered, crashes>>

\* The handler returns and the queue deletes the message.
End(w) ==
    /\ inv[w] # Idle
    /\ Todo(w) = <<>>
    /\ pending' = pending \ {inv[w].msg}
    /\ delivered' = delivered \cup {inv[w].msg}
    /\ inv' = [inv EXCEPT ![w] = Idle]
    /\ UNCHANGED <<store, crashes>>

\* The invocation ends half-way; the message was not deleted.
Crash(w) ==
    /\ inv[w] # Idle
    /\ crashes < MaxCrashes
    /\ crashes' = crashes + 1
    /\ inv' = [inv EXCEPT ![w] = Idle]
    /\ UNCHANGED <<store, pending, delivered>>

-----------------------------------------------------------------------------
(***************************************************************************)
(* The action chain of a sub-plan, from its first action event to its      *)
(* settlement, is one step: PlanExecution takes it apart.  A redelivered   *)
(* action event of a completed sub-plan reports it once more.              *)
(***************************************************************************)
SubPlanSettles(n) ==
    /\ Available(Action(n))
    /\ \/ \E s \in SettleStatus :
             /\ subPlan[n] = "open"
             /\ subPlan' = [subPlan EXCEPT ![n] = s]
             /\ pending' = (pending \ {Action(n)}) \cup {Settled(n, s)}
       \/ /\ subPlan[n] # "open"
          /\ subPlan' = subPlan
          /\ pending' = (pending \ {Action(n)})
                        \cup {Settled(n, s) : s \in {"completed"} \cap {subPlan[n]}}
    /\ delivered' = delivered \cup {Action(n)}
    /\ UNCHANGED <<dependsOn, orchestrated, graph, results, synthInput, run, inv, crashes>>

Perform(w) ==
    \/ DoSaveTaskGraph(w)
    \/ DoClaimReadyNodes(w)
    \/ DoSavePlan(w)
    \/ DoSaveResult(w)
    \/ DoPatchRun(w)
    \/ DoEnqueue(w)
    \/ End(w)

Init ==
    /\ dependsOn \in Workflows
    /\ orchestrated = FALSE
    /\ graph = NewGraph
    /\ subPlan = [n \in AllNodes |-> "none"]
    /\ results = {}
    /\ synthInput = {}
    /\ run \in {"none", "cancelled"}
    /\ pending = {Trigger}
    /\ delivered = {}
    /\ inv = [w \in Workers |-> Idle]
    /\ crashes = 0

Next ==
    \/ \E w \in Workers :
          \/ BeginTrigger(w)
          \/ \E n \in AllNodes : BeginTask(w, n)
          \/ \E n \in AllNodes, s \in SettleStatus : BeginCompleted(w, n, s)
          \/ Perform(w)
          \/ Crash(w)
    \/ \E n \in AllNodes : SubPlanSettles(n)

Spec == Init /\ [][Next]_vars

(***************************************************************************)
(* A running invocation goes on unless it crashes, a message in the queue  *)
(* is handed to some invocation, and action events are worked off.         *)
(***************************************************************************)
Fairness ==
    /\ \A w \in Workers : WF_vars(Perform(w))
    /\ SF_vars(Trigger \in pending /\ \E w \in Workers : BeginTrigger(w))
    /\ \A n \in AllNodes :
          /\ SF_vars(Task(n) \in pending /\ \E w \in Workers : BeginTask(w, n))
          /\ SF_vars(Action(n) \in pending /\ SubPlanSettles(n))
          /\ \A s \in SettleStatus :
                SF_vars(Settled(n, s) \in pending /\ \E w \in Workers : BeginCompleted(w, n, s))

FairSpec == Spec /\ Fairness

-----------------------------------------------------------------------------
(***************************************************************************)
(* Properties                                                              *)
(***************************************************************************)
\* Every variable stays in its type; a busy worker holds a message.
TypeOK ==
    /\ dependsOn \in Dependencies
    /\ orchestrated \in BOOLEAN
    /\ graph \in Graph
    /\ subPlan \in [AllNodes -> SubPlanState]
    /\ results \in SUBSET Nodes
    /\ synthInput \in SUBSET Nodes
    /\ run \in RunStatus
    /\ pending \in SUBSET Message
    /\ delivered \in SUBSET Message
    /\ crashes \in 0 .. MaxCrashes
    /\ \A w \in Workers : inv[w] = Idle \/ inv[w].msg \in Message

\* The tasks an invocation has claimed and is about to enqueue.
Outgoing(w) ==
    UNION {Todo(w)[i].msgs : i \in {j \in DOMAIN Todo(w) : Todo(w)[j].op = "enqueue"}}

\* Every node is dispatched by one invocation only, and only once: the promise
\* of claim_ready and plan_advance for duplicate triggers and completions.
DispatchedOnlyOnce(n) ==
    \A w \in Workers : Task(n) \in Outgoing(w) =>
        /\ ~Deliverable(Task(n))
        /\ \A v \in Workers \ {w} : Task(n) \notin Outgoing(v)

SingleDispatch == \A n \in AllNodes : DispatchedOnlyOnce(n)

\* Every graph that is ever saved has the dependencies of its started nodes
\* completed, whichever effects a crash cut off.
DependencyOrder ==
    \A n \in Nodes : graph[n] # PENDING => \A d \in dependsOn[n] : graph[d] = COMPLETED

\* A node is planned only when the sub-plans of its dependencies have run to
\* their end, whatever crashed before and was delivered again.
PlannedAfterDependencies ==
    \A n \in Nodes : subPlan[n] # "none" =>
        \A d \in dependsOn[n] : subPlan[d] \in {"completed", "empty"}

\* The verdict Prism shows is backed by the saved graph, also when the
\* invocation that gave it ended half-way: the graph is saved first.
VerdictBacked ==
    /\ run = "completed" => \A n \in AllNodes : graph[n] = COMPLETED
    /\ run = "failed" => \/ \E n \in AllNodes : graph[n] = FAILED
                         \/ /\ ReadyNodes(dependsOn, graph) = {}
                            /\ \A n \in Nodes : graph[n] # RUNNING
                            /\ ~AllNodesCompleted(graph)

\* A run is reported completed only when every sub-plan really ran to its end:
\* an update that is lost to a simultaneous writer delays the verdict but never
\* invents one.
CompletedIsEarned ==
    run = "completed" => \A n \in AllNodes : subPlan[n] \in {"completed", "empty"}

\* What a saved task graph says is followed up (docs/multi_agent_architecture.md,
\* execution flow, steps 2 to 4): a node whose dependencies are met is enqueued,
\* by the orchestrator for "all dependency-free nodes" and by the join for
\* "newly-unblocked nodes, and - once the synthesizer's dependencies are met -
\* [...] the synthesizer"; and the result of a completed node is written.
DependenciesMet(n) ==
    IF n \in Nodes THEN dependsOn[n] \subseteq CompletedNodeIds(graph) ELSE AllNodesCompleted(graph)

GraphIsFollowedUp ==
    \A n \in AllNodes :
        /\ orchestrated /\ DependenciesMet(n) ~> Deliverable(Task(n))
        /\ n \in Nodes /\ graph[n] = COMPLETED ~> n \in results

\* Two deliveries of a trigger, a task or a completion that are handled at the
\* same time may take back what the graph and the sub-plans said, and dispatch a
\* node again.  Still a node is planned only after every node it depends on has
\* reported its completion, and the synthesizer after all of them.
PlannedAfterReports ==
    /\ \A n \in Nodes : subPlan[n] # "none" =>
          \A d \in dependsOn[n] : Deliverable(Settled(d, "completed"))
    /\ \A s \in Synthesizers : subPlan[s] # "none" =>
          \A n \in Nodes : Deliverable(Settled(n, "completed"))

\* Neither overwritten graphs nor nodes that are planned twice let the run be
\* completed before every node has reported its completion.
CompletedAfterReports ==
    run = "completed" => \A n \in AllNodes : Deliverable(Settled(n, "completed"))

\* What the unconditional save_task_graph cannot spoil: work is repeated, but
\* nothing starts or ends before what it rests on has been reported.
ReportsComeFirst == PlannedAfterReports /\ CompletedAfterReports
=============================================================================
