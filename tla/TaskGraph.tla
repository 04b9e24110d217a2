------------------------------ MODULE TaskGraph ------------------------------
(***************************************************************************)
(* The orchestration DAG of domain/subtasks.py as pure operators.          *)
(*                                                                         *)
(* A TaskGraph value of the code is modelled by its only mutable part, the *)
(* status of every node: a function g from node ids to SubTaskStatus.  The *)
(* depends_on lists never change after the graph is built; operators that  *)
(* read them take them as a second function d.  The version counter is     *)
(* left out: no code reads it.                                             *)
(***************************************************************************)

CONSTANTS Nodes,         \* ids of TaskGraph.nodes
          Synthesizers   \* {} or {id of TaskGraph.synthesizer_node}

AllNodes == Nodes \cup Synthesizers

ASSUME TaskGraphAssumption ==
    /\ Nodes # {}
    /\ Nodes \cap Synthesizers = {}
    /\ \A s, t \in Synthesizers : s = t

PENDING   == "pending"
RUNNING   == "running"
COMPLETED == "completed"
FAILED    == "failed"

SubTaskStatus == {PENDING, RUNNING, COMPLETED, FAILED}

Graph == [AllNodes -> SubTaskStatus]

(***************************************************************************)
(* depends_on is free text in the workflow YAML.  Cycles, and dependencies *)
(* that no worker node can satisfy (the node itself, the synthesizer), are *)
(* allowed: nothing in the code rejects them.                              *)
(***************************************************************************)
Dependencies == [Nodes -> SUBSET AllNodes]

\* The graph Orchestrator.build_orchestrated_graph returns.
NewGraph == [n \in AllNodes |-> PENDING]

-----------------------------------------------------------------------------

CompletedNodeIds(g) == {n \in Nodes : g[n] = COMPLETED}

\* Plausible bugs of ready_nodes, used as mutants.
ReadyNodesIgnoringDependencies(d, g) == {n \in Nodes : g[n] = PENDING}
ReadyNodesAnyDependency(d, g) ==
    {n \in Nodes : /\ g[n] = PENDING
                   /\ \/ d[n] = {}
                      \/ d[n] \cap CompletedNodeIds(g) # {}}
ReadyNodesReclaimed(d, g) ==
    {n \in Nodes : g[n] \in {PENDING, RUNNING} /\ d[n] \subseteq CompletedNodeIds(g)}

ReadyNodes(d, g) ==
    {n \in Nodes : g[n] = PENDING /\ d[n] \subseteq CompletedNodeIds(g)}

WithNodeStatus(g, ns, status) ==
    [n \in AllNodes |-> IF n \in ns THEN status ELSE g[n]]

AllNodesCompleted(g) == CompletedNodeIds(g) = Nodes

ClaimReady(d, g) == WithNodeStatus(g, ReadyNodes(d, g), RUNNING)

-----------------------------------------------------------------------------
(***************************************************************************)
(* plan_advance.  AlreadyProcessed is its early return; PlanAdvance is the *)
(* TaskGraphAdvance of every other call.                                   *)
(***************************************************************************)

AlreadyProcessed(g, n, status) == g[n] = status

\* Plausible bug: the synthesizer is started by the first completed node.
PlanAdvanceEagerSynthesizer(d, g, n, status) ==
    LET h      == WithNodeStatus(g, {n}, status)
        joins  == status = COMPLETED /\ n \in Nodes
        ready  == IF joins THEN ReadyNodes(d, h) ELSE {}
        synth  == IF joins /\ ready = {} THEN {s \in Synthesizers : h[s] = PENDING} ELSE {}
    IN  [graph               |-> WithNodeStatus(h, ready \cup synth, RUNNING),
         newlyReady          |-> ready,
         dispatchSynthesizer |-> synth,
         runCompleted        |-> status = COMPLETED /\ n \in Synthesizers,
         runFailed           |-> status = FAILED,
         blocked             |-> FALSE]

\* Plausible bug: the "blocked" outcome is not reported.
PlanAdvanceNeverBlocked(d, g, n, status) ==
    LET h      == WithNodeStatus(g, {n}, status)
        joins  == status = COMPLETED /\ n \in Nodes
        ready  == IF joins THEN ReadyNodes(d, h) ELSE {}
        joined == joins /\ ready = {} /\ AllNodesCompleted(h)
        synth  == IF joined THEN {s \in Synthesizers : h[s] = PENDING} ELSE {}
    IN  [graph               |-> WithNodeStatus(h, ready \cup synth, RUNNING),
         newlyReady          |-> ready,
         dispatchSynthesizer |-> synth,
         runCompleted        |-> \/ status = COMPLETED /\ n \in Synthesizers
                                 \/ joined /\ \A s \in Synthesizers : h[s] = COMPLETED,
         runFailed           |-> status = FAILED,
         blocked             |-> FALSE]

\* Plausible bug: the join counts settled nodes and does not look at their status.
PlanAdvanceCounting(d, g, n, status) ==
    LET h      == WithNodeStatus(g, {n}, status)
        joins  == n \in Nodes
        ready  == IF joins THEN ReadyNodes(d, h) ELSE {}
        joined == joins /\ \A m \in Nodes : h[m] \in {COMPLETED, FAILED}
        synth  == IF joined THEN {s \in Synthesizers : h[s] = PENDING} ELSE {}
    IN  [graph               |-> WithNodeStatus(h, ready \cup synth, RUNNING),
         newlyReady          |-> ready,
         dispatchSynthesizer |-> synth,
         runCompleted        |-> \/ status = COMPLETED /\ n \in Synthesizers
                                 \/ joined /\ \A s \in Synthesizers : h[s] = COMPLETED,
         runFailed           |-> FALSE,
         blocked             |-> FALSE]

PlanAdvance(d, g, n, status) ==
    LET h      == WithNodeStatus(g, {n}, status)
        joins  == status = COMPLETED /\ n \in Nodes
        ready  == IF joins THEN ReadyNodes(d, h) ELSE {}
        joined == joins /\ ready = {} /\ AllNodesCompleted(h)
        synth  == IF joined THEN {s \in Synthesizers : h[s] = PENDING} ELSE {}
    IN  [graph               |-> WithNodeStatus(h, ready \cup synth, RUNNING),
         newlyReady          |-> ready,
         dispatchSynthesizer |-> synth,
         runCompleted        |-> \/ status = COMPLETED /\ n \in Synthesizers
                                 \/ joined /\ \A s \in Synthesizers : h[s] = COMPLETED,
         runFailed           |-> status = FAILED,
         blocked             |-> /\ joins /\ ready = {} /\ ~joined
                                 /\ \A m \in Nodes : h[m] # RUNNING]
=============================================================================
