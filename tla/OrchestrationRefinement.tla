----------------------- MODULE OrchestrationRefinement -----------------------
(***************************************************************************)
(* OrchestrationSteps implements Orchestration as long as one invocation   *)
(* runs at a time and none has ended half-way: up to the first crash the   *)
(* handlers may be treated as atomic.                                      *)
(*                                                                         *)
(* The atomic step happens when the invocation begins.  The abstract state *)
(* is the one reached by performing every effect that is left to do.  An   *)
(* invocation has at most one effect of a kind left, and claim_ready_nodes *)
(* and update_agent_run_status come after save_task_graph: the effects may *)
(* be treated as a set.                                                    *)
(***************************************************************************)
EXTENDS OrchestrationSteps

All(es, op) == {e \in es : e.op = op}
Some(es)    == CHOOSE e \in es : TRUE

\* What the state becomes when the effects es are performed.
SavedAfter(es, g) ==
    LET saves == All(es, "save_task_graph") IN IF saves = {} THEN g ELSE Some(saves).graph

ClaimedAfter(d, es, g) ==
    IF All(es, "claim_ready_nodes") = {} THEN {} ELSE ReadyNodes(d, SavedAfter(es, g))

GraphAfter(d, es, g) ==
    WithNodeStatus(SavedAfter(es, g), ClaimedAfter(d, es, g), RUNNING)

OrchestratedAfter(es, o) == o \/ All(es, "save_task_graph") # {}

SubPlanAfter(es, sp) ==
    LET saves == All(es, "save_plan")
    IN  IF saves = {} THEN sp ELSE [sp EXCEPT ![Some(saves).node] = Some(saves).plan]

SynthInputAfter(es, seen) ==
    LET saves == All(es, "save_plan")
    IN  IF saves # {} /\ Some(saves).node \in Synthesizers THEN Some(saves).results ELSE seen

ResultsAfter(es, rs) == rs \cup {e.node : e \in All(es, "save_sub_agent_result")}

RunAfter(d, es, g, r) ==
    LET patches == All(es, "update_agent_run_status")
    IN  IF patches # {} THEN Some(patches).status
        ELSE IF All(es, "claim_ready_nodes") # {} /\ ClaimedAfter(d, es, g) = {} THEN "failed" ELSE r

SentAfter(d, es, g) ==
    (UNION {e.msgs : e \in All(es, "enqueue")}) \cup {Task(n) : n \in ClaimedAfter(d, es, g)}

InHand == {inv[w].msg : w \in {v \in Workers : inv[v] # Idle}}
Elements(todo) == {todo[i] : i \in DOMAIN todo}
Effects == UNION {Elements(Todo(w)) : w \in Workers}
Actions == {Action(n) : n \in AllNodes}

Atomic == INSTANCE Orchestration WITH
    orchestrated <- OrchestratedAfter(Effects, orchestrated),
    graph        <- GraphAfter(dependsOn, Effects, graph),
    subPlan      <- SubPlanAfter(Effects, subPlan),
    results      <- ResultsAfter(Effects, results),
    synthInput   <- SynthInputAfter(Effects, synthInput),
    run          <- RunAfter(dependsOn, Effects, graph, run),
    pending      <- ((pending \ InHand) \cup SentAfter(dependsOn, Effects, graph)) \ Actions,
    delivered    <- (delivered \cup InHand) \ Actions

\* Invocations that do not overlap behave as the atomic handlers do, for every
\* order and number of redeliveries, as long as none of them ends half-way.
ImplementsUntilCrash ==
    Atomic!Init /\ [][crashes' = 0 => [Atomic!Next]_(Atomic!vars)]_vars
=============================================================================
