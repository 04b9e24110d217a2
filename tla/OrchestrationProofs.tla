------------------------- MODULE OrchestrationProofs -------------------------
(***************************************************************************)
(* Proofs that every safety property of Orchestration holds for any set of *)
(* nodes, any workflow graph (cyclic ones included) and any pattern of     *)
(* redelivery.                                                             *)
(***************************************************************************)
EXTENDS Orchestration, TLAPS

(***************************************************************************)
(* The inductive invariant.  The properties are not inductive on their     *)
(* own: they rest on every settlement in the queue agreeing with the saved *)
(* sub-plan, and on a node being idle until it is claimed.                 *)
(***************************************************************************)
NotStarted ==
    IF orchestrated THEN run \in {"running", "completed", "failed"}
                    ELSE graph = NewGraph /\ run \in {"none", "cancelled"}

PendingNodeIdle ==
    \A n \in AllNodes : graph[n] = PENDING => subPlan[n] = "none" /\ ~Deliverable(Task(n))

SettlementAgrees ==
    \A n \in AllNodes, s \in SettleStatus :
        Deliverable(Settled(n, s)) => s \in SettlementOf(subPlan[n])

NodeAgrees ==
    \A n \in AllNodes :
        /\ graph[n] = COMPLETED => subPlan[n] \in {"completed", "empty"}
        /\ graph[n] = FAILED => subPlan[n] = "failed"

ResultsMatch == results = CompletedNodeIds(graph)

SynthesizerAfterJoin ==
    \A s \in Synthesizers : graph[s] # PENDING => AllNodesCompleted(graph)

IInv ==
    /\ TypeOK
    /\ NotStarted
    /\ PendingNodeIdle
    /\ SettlementAgrees
    /\ NodeAgrees
    /\ DependencyOrder
    /\ ResultsMatch
    /\ SynthesizerAfterJoin
    /\ SynthesizerSeesEveryResult
    /\ RunVerdictSound
    /\ RunNeverStranded

-----------------------------------------------------------------------------
\* Events of different kinds, or of different nodes, are different messages.
LEMMA MessagesDistinct ==
    /\ \A n : Trigger # Task(n)
    /\ \A n, s : Trigger # Settled(n, s)
    /\ \A n, m, s : Task(n) # Settled(m, s)
    /\ \A n, m : Task(n) = Task(m) => n = m
    /\ \A n, m, s, t : Settled(n, s) = Settled(m, t) => n = m /\ s = t
BY DEF Trigger, Task, Settled

\* The queue only ever holds triggers, tasks and settlements of known nodes.
LEMMA MessageTypes ==
    /\ Trigger \in Message
    /\ \A n \in AllNodes : Task(n) \in Message
    /\ \A n \in AllNodes, s \in SettleStatus : Settled(n, s) \in Message
BY DEF Message

\* What plan_advance does to a graph: the settled node takes its status, the
\* claimed nodes were pending and are running, and nothing else changes.
LEMMA PlanAdvanceEffect ==
    ASSUME NEW d \in Dependencies, NEW g \in Graph, NEW n \in AllNodes,
           NEW st \in {COMPLETED, FAILED}, g[n] = RUNNING
    PROVE  LET adv     == PlanAdvance(d, g, n, st)
               claimed == adv.newlyReady \cup adv.dispatchSynthesizer
           IN  /\ adv.graph \in Graph
               /\ claimed \subseteq AllNodes \ {n}
               /\ adv.graph[n] = st
               /\ \A m \in claimed : g[m] = PENDING /\ adv.graph[m] = RUNNING
               /\ \A m \in AllNodes \ (claimed \cup {n}) : adv.graph[m] = g[m]
BY DEF PlanAdvance, WithNodeStatus, ReadyNodes, Graph, SubTaskStatus, AllNodes,
       PENDING, RUNNING, COMPLETED, FAILED

-----------------------------------------------------------------------------
\* The initial states satisfy the inductive invariant.
LEMMA InitIInv == Init => IInv
<1> SUFFICES ASSUME Init PROVE IInv
  OBVIOUS
<1> USE DEF Init, NewGraph
<1>1. TypeOK
  BY MessageTypes, WorkflowsAssumption
     DEF TypeOK, Graph, SubTaskStatus, SubPlanState, RunStatus, PENDING
<1>2. \A n \in AllNodes, s \in SettleStatus :
         ~Deliverable(Task(n)) /\ ~Deliverable(Settled(n, s))
  BY MessagesDistinct DEF Deliverable
<1>3. NotStarted /\ PendingNodeIdle /\ SettlementAgrees
  BY <1>2, MessagesDistinct DEF NotStarted, PendingNodeIdle, SettlementAgrees, Deliverable, SettleStatus
<1>4. NodeAgrees /\ DependencyOrder /\ ResultsMatch /\ SynthesizerAfterJoin
  BY DEF NodeAgrees, DependencyOrder, ResultsMatch, SynthesizerAfterJoin, CompletedNodeIds,
         AllNodes, PENDING, COMPLETED, FAILED
<1>5. SynthesizerSeesEveryResult /\ RunVerdictSound /\ RunNeverStranded
  BY DEF SynthesizerSeesEveryResult, RunVerdictSound, RunNeverStranded, AllNodes, PENDING, RUNNING
<1> QED
  BY <1>1, <1>3, <1>4, <1>5 DEF IInv

\* A handler that returns early preserves the invariant, provided the consumed
\* message was not the one that kept its node moving.
LEMMA IgnoreIInv ==
    ASSUME IInv, NEW m \in Message, Deliverable(m), Ignore(m),
           \A n \in AllNodes : graph[n] = RUNNING /\ Driven(n) =>
               \/ subPlan[n] \in {"open", "waiting_for_approval"}
               \/ Task(n) # m /\ \A s \in SettleStatus : Settled(n, s) # m
    PROVE  IInv'
<1> USE DEF IInv, Ignore, Acknowledge
<1>1. TypeOK'
  BY DEF TypeOK
<1>2. \A k : Deliverable(k)' <=> Deliverable(k)
  BY DEF Deliverable
<1>3. NotStarted' /\ PendingNodeIdle' /\ SettlementAgrees' /\ NodeAgrees'
  BY <1>2 DEF NotStarted, PendingNodeIdle, SettlementAgrees, NodeAgrees
<1>4. /\ DependencyOrder' /\ ResultsMatch' /\ SynthesizerAfterJoin'
      /\ SynthesizerSeesEveryResult' /\ RunVerdictSound'
  BY DEF DependencyOrder, ResultsMatch, SynthesizerAfterJoin, SynthesizerSeesEveryResult,
         RunVerdictSound, Blocked
<1>5. RunNeverStranded'
  BY DEF RunNeverStranded, Driven
<1> QED
  BY <1>1, <1>3, <1>4, <1>5 DEF IInv

\* _handle_orchestrated preserves the invariant.
LEMMA TriggerIInv == IInv /\ HandleTrigger => IInv'
<1> SUFFICES ASSUME IInv, HandleTrigger PROVE IInv'
  OBVIOUS
<1>1. CASE Ignore(Trigger)
  BY <1>1, IgnoreIInv, MessagesDistinct, MessageTypes DEF HandleTrigger
<1>2. CASE StartOrchestration
  <2> DEFINE ready == ReadyNodes(dependsOn, NewGraph)
  <2> USE <1>2 DEF IInv, StartOrchestration, Acknowledge
  <2>1. graph = NewGraph /\ run = "none"
    BY DEF NotStarted, RunTerminal
  <2>2. /\ ready \subseteq Nodes
        /\ \A n \in ready : dependsOn[n] = {}
        /\ \A n \in AllNodes : graph'[n] = IF n \in ready THEN RUNNING ELSE PENDING
    BY DEF ready, ReadyNodes, NewGraph, ClaimReady, WithNodeStatus, AllNodes, CompletedNodeIds,
           TypeOK, Dependencies, PENDING, COMPLETED
  <2>3. TypeOK'
    BY <2>2, MessageTypes
       DEF TypeOK, ClaimReady, WithNodeStatus, Graph, SubTaskStatus, RunStatus, NewGraph, AllNodes
  <2>4. \A n \in AllNodes : Deliverable(Task(n))' => n \in ready
    BY <2>1, MessagesDistinct DEF Deliverable, PendingNodeIdle, NewGraph
  <2>5. \A n \in AllNodes, s \in SettleStatus :
           Deliverable(Settled(n, s))' => Deliverable(Settled(n, s))
    BY MessagesDistinct DEF Deliverable
  <2>6. NotStarted' /\ PendingNodeIdle' /\ SettlementAgrees'
    BY <2>1, <2>2, <2>4, <2>5
       DEF NotStarted, PendingNodeIdle, SettlementAgrees, NewGraph, PENDING, RUNNING
  <2>7. NodeAgrees' /\ DependencyOrder' /\ SynthesizerAfterJoin'
    BY <2>2, TaskGraphAssumption
       DEF NodeAgrees, DependencyOrder, SynthesizerAfterJoin, AllNodes,
           PENDING, RUNNING, COMPLETED, FAILED
  <2>8. CompletedNodeIds(graph) = {} /\ CompletedNodeIds(graph') = {}
    BY <2>1, <2>2 DEF CompletedNodeIds, NewGraph, AllNodes, PENDING, RUNNING, COMPLETED
  <2>9. ResultsMatch' /\ SynthesizerSeesEveryResult'
    BY <2>8 DEF ResultsMatch, SynthesizerSeesEveryResult
  <2>10. ready = {} => Blocked(dependsOn, graph)'
    BY <2>2, <2>8, TaskGraphAssumption
       DEF Blocked, ReadyNodes, AllNodesCompleted, ClaimReady, WithNodeStatus, NewGraph,
           CompletedNodeIds, AllNodes, PENDING, RUNNING, COMPLETED
  <2>11. RunVerdictSound'
    BY <2>10 DEF RunVerdictSound
  <2>12. RunNeverStranded'
    BY <2>2, <2>4 DEF RunNeverStranded, Driven, AllNodes, PENDING, RUNNING
  <2> QED
    BY <2>3, <2>6, <2>7, <2>9, <2>11, <2>12 DEF IInv
<1> QED
  BY <1>1, <1>2 DEF HandleTrigger

\* _handle_task preserves the invariant.
LEMMA TaskIInv ==
    ASSUME IInv, NEW n \in AllNodes, HandleTask(n)
    PROVE  IInv'
<1>0. graph[n] # PENDING
  BY DEF HandleTask, IInv, PendingNodeIdle
<1>1. CASE graph[n] \in {COMPLETED, FAILED} /\ Ignore(Task(n))
  BY <1>1, IgnoreIInv, MessagesDistinct, MessageTypes
     DEF HandleTask, COMPLETED, FAILED, RUNNING
<1>2. CASE graph[n] \notin {COMPLETED, FAILED} /\ PlanNode(n)
  <2> USE <1>2 DEF IInv, PlanNode, Acknowledge
  <2>1. graph[n] = RUNNING /\ results \subseteq Nodes
    BY <1>0 DEF TypeOK, Graph, SubTaskStatus
  <2>2. TypeOK'
    BY MessageTypes, <2>1 DEF TypeOK, SubPlanState, SettleStatus
  <2>3. \A m \in AllNodes : Deliverable(Task(m))' <=> Deliverable(Task(m))
    BY MessagesDistinct DEF Deliverable, HandleTask
  <2>4. \A m \in AllNodes, s \in SettleStatus :
           Deliverable(Settled(m, s))' =>
              \/ m # n /\ Deliverable(Settled(m, s))
              \/ m = n /\ s = "completed" /\ subPlan'[n] = "empty"
    BY MessagesDistinct DEF Deliverable, SettlementAgrees, SettlementOf, TypeOK
  <2>5. NotStarted' /\ PendingNodeIdle'
    BY <2>1, <2>3 DEF NotStarted, PendingNodeIdle, TypeOK, PENDING, RUNNING
  <2>6. SettlementAgrees'
    BY <2>4 DEF SettlementAgrees, SettlementOf, TypeOK
  <2>7. NodeAgrees' /\ DependencyOrder' /\ ResultsMatch' /\ SynthesizerAfterJoin'
    BY <2>1 DEF NodeAgrees, DependencyOrder, ResultsMatch, SynthesizerAfterJoin, TypeOK,
                RUNNING, COMPLETED, FAILED
  <2>8. SynthesizerSeesEveryResult'
    BY <1>0, TaskGraphAssumption
       DEF SynthesizerSeesEveryResult, SynthesizerAfterJoin, ResultsMatch, AllNodesCompleted, TypeOK
  <2>9. RunVerdictSound'
    BY DEF RunVerdictSound, Blocked
  <2>10. RunNeverStranded'
    <3>1. Driven(n)'
      BY DEF Driven, TypeOK, SettleStatus
    <3>2. ASSUME NEW m \in AllNodes \ {n}, Driven(m) PROVE Driven(m)'
      BY <3>2, MessagesDistinct DEF Driven, TypeOK
    <3> QED
      BY <3>1, <3>2 DEF RunNeverStranded
  <2> QED
    BY <2>2, <2>5, <2>6, <2>7, <2>8, <2>9, <2>10 DEF IInv
<1>3. CASE graph[n] \notin {COMPLETED, FAILED} /\ ResumeExistingSubplan(n)
  <2> USE <1>3 DEF IInv, ResumeExistingSubplan, Acknowledge
  <2>1. SettlementOf(subPlan[n]) \subseteq SettleStatus
    BY DEF SettlementOf, SettleStatus
  <2>2. TypeOK'
    BY MessageTypes, <2>1 DEF TypeOK
  <2>3. \A m \in AllNodes : Deliverable(Task(m))' <=> Deliverable(Task(m))
    BY MessagesDistinct DEF Deliverable, HandleTask
  <2>4. \A m \in AllNodes, s \in SettleStatus :
           Deliverable(Settled(m, s))' =>
              \/ Deliverable(Settled(m, s))
              \/ m = n /\ s \in SettlementOf(subPlan[n])
    BY MessagesDistinct DEF Deliverable
  <2>5. NotStarted' /\ PendingNodeIdle' /\ SettlementAgrees' /\ NodeAgrees'
    BY <2>3, <2>4 DEF NotStarted, PendingNodeIdle, SettlementAgrees, NodeAgrees
  <2>6. /\ DependencyOrder' /\ ResultsMatch' /\ SynthesizerAfterJoin'
        /\ SynthesizerSeesEveryResult' /\ RunVerdictSound'
    BY DEF DependencyOrder, ResultsMatch, SynthesizerAfterJoin, SynthesizerSeesEveryResult,
           RunVerdictSound, Blocked
  <2>7. RunNeverStranded'
    <3>1. Driven(n)'
      <4>1. subPlan[n] \in SubPlanState \ {"none"}
        BY DEF TypeOK
      <4>2. CASE subPlan[n] \in {"open", "waiting_for_approval"}
        BY <4>2 DEF Driven
      <4>3. CASE subPlan[n] \in {"empty", "completed", "failed"}
        BY <4>3, <2>1 DEF Driven, SettlementOf
      <4> QED
        BY <4>1, <4>2, <4>3 DEF SubPlanState
    <3>2. ASSUME NEW m \in AllNodes \ {n}, Driven(m) PROVE Driven(m)'
      BY <3>2, MessagesDistinct DEF Driven
    <3> QED
      BY <3>1, <3>2 DEF RunNeverStranded
  <2> QED
    BY <2>2, <2>5, <2>6, <2>7 DEF IInv
<1> QED
  BY <1>1, <1>2, <1>3 DEF HandleTask

\* Working off a sub-plan preserves the invariant.
LEMMA SubPlanSettlesIInv ==
    ASSUME IInv, NEW n \in AllNodes, SubPlanSettles(n)
    PROVE  IInv'
<1> USE DEF IInv, SubPlanSettles
<1>1. PICK s \in SettleStatus :
         subPlan' = [subPlan EXCEPT ![n] = s] /\ pending' = pending \cup {Settled(n, s)}
  OBVIOUS
<1>2. graph[n] = RUNNING
  BY DEF PendingNodeIdle, NodeAgrees, TypeOK, Graph, SubTaskStatus
<1>3. TypeOK'
  BY <1>1, MessageTypes DEF TypeOK, SettleStatus, SubPlanState
<1>4. \A m \in AllNodes : Deliverable(Task(m))' <=> Deliverable(Task(m))
  BY <1>1, MessagesDistinct DEF Deliverable
<1>5. \A m \in AllNodes, t \in SettleStatus :
         Deliverable(Settled(m, t))' => \/ m # n /\ Deliverable(Settled(m, t))
                                        \/ m = n /\ t = s
  BY <1>1, MessagesDistinct DEF Deliverable, SettlementAgrees, SettlementOf
<1>6. NotStarted' /\ PendingNodeIdle' /\ NodeAgrees'
  BY <1>1, <1>2, <1>4 DEF NotStarted, PendingNodeIdle, NodeAgrees, TypeOK,
                          PENDING, RUNNING, COMPLETED, FAILED
<1>7. SettlementAgrees'
  BY <1>1, <1>5 DEF SettlementAgrees, SettlementOf, SettleStatus, TypeOK
<1>8. /\ DependencyOrder' /\ ResultsMatch' /\ SynthesizerAfterJoin' /\ RunVerdictSound'
  BY DEF DependencyOrder, ResultsMatch, SynthesizerAfterJoin, RunVerdictSound, Blocked
<1>9. SynthesizerSeesEveryResult'
  BY <1>1 DEF SynthesizerSeesEveryResult, TypeOK
<1>10. RunNeverStranded'
  <2>1. Driven(n)'
    BY <1>1 DEF Driven
  <2>2. ASSUME NEW m \in AllNodes \ {n}, Driven(m) PROVE Driven(m)'
    BY <1>1, <2>2 DEF Driven, TypeOK
  <2> QED
    BY <2>1, <2>2 DEF RunNeverStranded
<1> QED
  BY <1>3, <1>6, <1>7, <1>8, <1>9, <1>10 DEF IInv

\* Reporting a completed sub-plan once more preserves the invariant.
LEMMA SubPlanSettlesAgainIInv ==
    ASSUME IInv, NEW n \in AllNodes, SubPlanSettlesAgain(n)
    PROVE  IInv'
<1> USE DEF IInv, SubPlanSettlesAgain
<1>1. "completed" \in SettleStatus
  BY DEF SettleStatus
<1>2. TypeOK'
  BY <1>1, MessageTypes DEF TypeOK
<1>3. \A m \in AllNodes : Deliverable(Task(m))' <=> Deliverable(Task(m))
  BY MessagesDistinct DEF Deliverable
<1>4. \A m \in AllNodes, t \in SettleStatus :
         Deliverable(Settled(m, t))' => \/ Deliverable(Settled(m, t))
                                        \/ m = n /\ t = "completed"
  BY MessagesDistinct DEF Deliverable
<1>5. NotStarted' /\ PendingNodeIdle' /\ NodeAgrees'
  BY <1>3 DEF NotStarted, PendingNodeIdle, NodeAgrees
<1>6. SettlementAgrees'
  BY <1>4 DEF SettlementAgrees, SettlementOf
<1>7. /\ DependencyOrder' /\ ResultsMatch' /\ SynthesizerAfterJoin'
      /\ SynthesizerSeesEveryResult' /\ RunVerdictSound'
  BY DEF DependencyOrder, ResultsMatch, SynthesizerAfterJoin, SynthesizerSeesEveryResult,
         RunVerdictSound, Blocked
<1>8. RunNeverStranded'
  BY DEF RunNeverStranded, Driven
<1> QED
  BY <1>2, <1>5, <1>6, <1>7, <1>8 DEF IInv

\* A settlement that is processed finds its node running: the node was claimed,
\* and had it settled before, it would hold this very status.
LEMMA SettledNodeRunning ==
    ASSUME IInv, NEW n \in AllNodes, NEW s \in SettleStatus,
           Deliverable(Settled(n, s)), s # "waiting_for_approval"
    PROVE  /\ subPlan[n] \notin {"none", "open", "waiting_for_approval"}
           /\ graph[n] \in {RUNNING, NodeStatusOf(s)}
           /\ orchestrated
<1> USE DEF IInv
<1>1. s \in SettlementOf(subPlan[n])
  BY DEF SettlementAgrees
<1>2. \/ s = "completed" /\ subPlan[n] \in {"completed", "empty"}
      \/ s = "failed" /\ subPlan[n] = "failed"
  BY <1>1 DEF SettlementOf, SettleStatus, TypeOK, SubPlanState
<1>3. graph[n] \in SubTaskStatus \ {PENDING}
  BY <1>2 DEF PendingNodeIdle, TypeOK, Graph
<1>4. graph[n] \in {RUNNING, NodeStatusOf(s)}
  BY <1>2, <1>3 DEF NodeAgrees, NodeStatusOf, SubTaskStatus
<1>5. orchestrated
  BY <1>3 DEF NotStarted, NewGraph
<1> QED
  BY <1>2, <1>4, <1>5

\* What plan_advance decides: claimed workers have their dependencies, the
\* synthesizer starts after the join, and the verdict fits the graph.
LEMMA PlanAdvanceOutcome ==
    ASSUME NEW d \in Dependencies, NEW g \in Graph, NEW n \in AllNodes,
           NEW st \in {COMPLETED, FAILED}, g[n] = RUNNING,
           \A s \in Synthesizers : g[s] # PENDING => AllNodesCompleted(g)
    PROVE  LET adv == PlanAdvance(d, g, n, st)
           IN  /\ \A m \in adv.newlyReady :
                     m \in Nodes /\ \A k \in d[m] : k \in Nodes /\ adv.graph[k] = COMPLETED
               /\ \A m \in adv.dispatchSynthesizer :
                     m \in Synthesizers /\ AllNodesCompleted(adv.graph)
               /\ adv.runFailed <=> st = FAILED
               /\ adv.runCompleted => \A m \in AllNodes : adv.graph[m] = COMPLETED
               /\ adv.blocked => Blocked(d, adv.graph)
               /\ \/ adv.runFailed \/ adv.runCompleted \/ adv.blocked
                  \/ \E m \in AllNodes : adv.graph[m] = RUNNING
<1> DEFINE h      == WithNodeStatus(g, {n}, st)
           joins  == st = COMPLETED /\ n \in Nodes
           ready  == IF joins THEN ReadyNodes(d, h) ELSE {}
           joined == joins /\ ready = {} /\ AllNodesCompleted(h)
           synth  == IF joined THEN {s \in Synthesizers : h[s] = PENDING} ELSE {}
           adv    == PlanAdvance(d, g, n, st)
<1> USE DEF PENDING, RUNNING, COMPLETED, FAILED
<1>1. /\ adv.graph = WithNodeStatus(h, ready \cup synth, RUNNING)
      /\ adv.newlyReady = ready /\ adv.dispatchSynthesizer = synth
      /\ adv.runFailed = (st = FAILED)
      /\ adv.runCompleted = (\/ st = COMPLETED /\ n \in Synthesizers
                             \/ joined /\ \A s \in Synthesizers : h[s] = COMPLETED)
      /\ adv.blocked = (/\ joins /\ ready = {} /\ ~joined
                        /\ \A m \in Nodes : h[m] # RUNNING)
  BY DEF PlanAdvance
<1> HIDE DEF adv
<1>2. /\ h \in Graph /\ h[n] = st
      /\ \A m \in AllNodes \ {n} : h[m] = g[m]
      /\ ready \subseteq Nodes /\ synth \subseteq Synthesizers
      /\ n \notin ready \cup synth
  BY DEF WithNodeStatus, Graph, SubTaskStatus, ReadyNodes, AllNodes
<1>3. /\ \A m \in ready \cup synth : h[m] = PENDING /\ adv.graph[m] = RUNNING
      /\ \A m \in AllNodes \ (ready \cup synth) : adv.graph[m] = h[m]
  BY <1>1, <1>2 DEF WithNodeStatus, ReadyNodes, AllNodes
<1>4. \A m \in adv.newlyReady :
         m \in Nodes /\ \A k \in d[m] : k \in Nodes /\ adv.graph[k] = COMPLETED
  <2> SUFFICES ASSUME NEW m \in ready, NEW k \in d[m]
               PROVE  k \in Nodes /\ adv.graph[k] = COMPLETED
    BY <1>1, <1>2
  <2>1. k \in CompletedNodeIds(h)
    BY DEF ReadyNodes
  <2>2. k \in AllNodes /\ k \in Nodes /\ h[k] = COMPLETED
    BY <2>1 DEF CompletedNodeIds, AllNodes
  <2> QED
    BY <2>2, <1>3
<1>5. \A m \in adv.dispatchSynthesizer : m \in Synthesizers /\ AllNodesCompleted(adv.graph)
  <2> SUFFICES ASSUME NEW m \in synth PROVE m \in Synthesizers /\ AllNodesCompleted(adv.graph)
    BY <1>1
  <2>1. joined /\ ready = {} /\ m \in Synthesizers
    OBVIOUS
  <2>2. \A k \in Nodes : adv.graph[k] = h[k] /\ h[k] = COMPLETED
    BY <2>1, <1>2, <1>3, TaskGraphAssumption DEF AllNodesCompleted, CompletedNodeIds, AllNodes
  <2> QED
    BY <2>1, <2>2 DEF AllNodesCompleted, CompletedNodeIds
<1>6. n \in Nodes => \A s \in Synthesizers : g[s] = PENDING
  BY DEF AllNodesCompleted, CompletedNodeIds
<1>7. adv.runCompleted => \A m \in AllNodes : adv.graph[m] = COMPLETED
  <2>1. CASE st = COMPLETED /\ n \in Synthesizers
    <3>1. ready = {} /\ synth = {}
      BY <2>1, TaskGraphAssumption
    <3>2. \A m \in Nodes : h[m] = COMPLETED
      BY <2>1, <1>2, TaskGraphAssumption DEF AllNodesCompleted, CompletedNodeIds, AllNodes
    <3>3. \A m \in Synthesizers : h[m] = COMPLETED
      BY <2>1, <1>2, TaskGraphAssumption
    <3>4. \A m \in AllNodes : adv.graph[m] = h[m]
      BY <3>1, <1>3
    <3> QED
      BY <3>2, <3>3, <3>4 DEF AllNodes
  <2>2. CASE joined /\ \A s \in Synthesizers : h[s] = COMPLETED
    <3>1. ready = {} /\ synth = {} /\ \A m \in Nodes : h[m] = COMPLETED
      BY <2>2 DEF AllNodesCompleted, CompletedNodeIds
    <3> QED
      BY <2>2, <3>1, <1>3 DEF AllNodes
  <2> QED
    BY <1>1, <2>1, <2>2
<1>8. adv.blocked => Blocked(d, adv.graph)
  <2> SUFFICES ASSUME adv.blocked PROVE Blocked(d, adv.graph)
    OBVIOUS
  <2>1. /\ joins /\ ready = {} /\ synth = {} /\ ~AllNodesCompleted(h)
        /\ \A m \in Nodes : h[m] # RUNNING
    BY <1>1
  <2>2. \A m \in AllNodes : adv.graph[m] = h[m]
    BY <2>1, <1>3
  <2>3. CompletedNodeIds(adv.graph) = CompletedNodeIds(h)
    BY <2>2 DEF CompletedNodeIds, AllNodes
  <2>4. ReadyNodes(d, adv.graph) = ReadyNodes(d, h)
    BY <2>2, <2>3 DEF ReadyNodes, AllNodes
  <2> QED
    BY <2>1, <2>2, <2>3, <2>4 DEF Blocked, AllNodesCompleted, AllNodes
<1>9. \/ adv.runFailed \/ adv.runCompleted \/ adv.blocked
      \/ \E m \in AllNodes : adv.graph[m] = RUNNING
  <2> SUFFICES ASSUME ~adv.runFailed, ~adv.runCompleted, ~adv.blocked
               PROVE  \E m \in AllNodes : adv.graph[m] = RUNNING
    OBVIOUS
  <2>1. joins
    BY <1>1 DEF AllNodes
  <2>2. CASE ready # {}
    BY <2>2, <1>2, <1>3 DEF AllNodes
  <2>3. CASE joined
    <3>1. \A s \in Synthesizers : h[s] = PENDING
      BY <2>1, <1>2, <1>6, TaskGraphAssumption DEF AllNodes
    <3>2. PICK s \in Synthesizers : h[s] # COMPLETED
      BY <2>3, <1>1
    <3> QED
      BY <2>3, <3>1, <3>2, <1>3 DEF AllNodes
  <2>4. CASE ready = {} /\ ~joined
    <3>1. PICK m \in Nodes : h[m] = RUNNING
      BY <2>1, <2>4, <1>1
    <3> QED
      BY <2>4, <3>1, <1>2, <1>3 DEF AllNodes
  <2> QED
    BY <2>1, <2>2, <2>3, <2>4
<1> QED
  BY <1>1, <1>4, <1>5, <1>7, <1>8, <1>9 DEF adv

\* _handle_completed preserves the invariant.
LEMMA CompletedIInv ==
    ASSUME IInv, NEW n \in AllNodes, NEW s \in SettleStatus, HandleCompleted(n, s)
    PROVE  IInv'
<1>0. Deliverable(Settled(n, s)) /\ Settled(n, s) \in Message
  BY MessageTypes DEF HandleCompleted
<1>1. CASE s = "waiting_for_approval" /\ Ignore(Settled(n, s))
  <2>1. subPlan[n] = "waiting_for_approval"
    BY <1>0, <1>1 DEF IInv, SettlementAgrees, SettlementOf, TypeOK, SubPlanState
  <2> QED
    BY <1>0, <1>1, <2>1, IgnoreIInv, MessagesDistinct
<1>2. CASE AlreadyProcessed(graph, n, NodeStatusOf(s)) /\ Ignore(Settled(n, s))
  <2>1. graph[n] # RUNNING
    BY <1>2 DEF AlreadyProcessed, NodeStatusOf, COMPLETED, FAILED, RUNNING
  <2> QED
    BY <1>0, <1>2, <2>1, IgnoreIInv, MessagesDistinct
<1>3. CASE AdvanceTaskGraph(n, s)
  <2> DEFINE st      == NodeStatusOf(s)
             adv     == PlanAdvance(dependsOn, graph, n, st)
             claimed == adv.newlyReady \cup adv.dispatchSynthesizer
  <2>1. /\ graph[n] = RUNNING
        /\ subPlan[n] \notin {"none", "open", "waiting_for_approval"}
        /\ orchestrated
        /\ s # "waiting_for_approval"
    BY <1>0, <1>3, SettledNodeRunning DEF AlreadyProcessed, AdvanceTaskGraph
  <2>2. st \in {COMPLETED, FAILED} /\ (st = COMPLETED <=> s = "completed")
    BY DEF NodeStatusOf, COMPLETED, FAILED
  <2>3. /\ dependsOn \in Dependencies /\ graph \in Graph
        /\ \A t \in Synthesizers : graph[t] # PENDING => AllNodesCompleted(graph)
    BY DEF IInv, TypeOK, SynthesizerAfterJoin
  <2>4. /\ graph' = adv.graph
        /\ results' = IF s = "completed" /\ n \in Nodes THEN results \cup {n} ELSE results
        /\ run' = RunAfter(adv)
        /\ pending' = (pending \ {Settled(n, s)}) \cup {Task(m) : m \in claimed}
        /\ delivered' = delivered \cup {Settled(n, s)}
        /\ UNCHANGED <<dependsOn, orchestrated, subPlan, synthInput>>
    BY <1>3 DEF AdvanceTaskGraph, StoreResult, Dispatch, Acknowledge
  <2> HIDE DEF st, adv
  <2>5. /\ graph' \in Graph
        /\ claimed \subseteq AllNodes \ {n}
        /\ graph'[n] = st
        /\ \A m \in claimed : graph[m] = PENDING /\ graph'[m] = RUNNING
        /\ \A m \in AllNodes \ (claimed \cup {n}) : graph'[m] = graph[m]
    BY <2>1, <2>2, <2>3, <2>4, PlanAdvanceEffect DEF adv
  <2>6. /\ \A m \in adv.newlyReady :
              m \in Nodes /\ \A k \in dependsOn[m] : k \in Nodes /\ graph'[k] = COMPLETED
        /\ \A m \in adv.dispatchSynthesizer : m \in Synthesizers /\ AllNodesCompleted(graph')
        /\ adv.runFailed <=> st = FAILED
        /\ adv.runCompleted => \A m \in AllNodes : graph'[m] = COMPLETED
        /\ adv.blocked => Blocked(dependsOn, graph')
        /\ \/ adv.runFailed \/ adv.runCompleted \/ adv.blocked
           \/ \E m \in AllNodes : graph'[m] = RUNNING
    BY <2>1, <2>2, <2>3, <2>4, PlanAdvanceOutcome DEF adv
  <2> USE DEF PENDING, RUNNING, COMPLETED, FAILED
  <2>7. /\ adv.runFailed \/ adv.blocked => run' = "failed"
        /\ ~adv.runFailed /\ ~adv.blocked /\ adv.runCompleted => run' = "completed"
        /\ ~adv.runFailed /\ ~adv.blocked /\ ~adv.runCompleted => run' = run
    BY <2>4 DEF RunAfter
  <2>8. TypeOK'
    BY <1>0, <2>4, <2>5, <2>7, MessageTypes DEF IInv, TypeOK, RunStatus
  <2>9. \A m \in AllNodes : Deliverable(Task(m))' => Deliverable(Task(m)) \/ m \in claimed
    BY <2>4, MessagesDistinct DEF Deliverable
  <2>10. \A m \in AllNodes, t \in SettleStatus :
            Deliverable(Settled(m, t))' => Deliverable(Settled(m, t))
    BY <1>0, <2>4, MessagesDistinct DEF Deliverable
  <2>11. NotStarted'
    BY <2>1, <2>4, <2>7 DEF IInv, NotStarted
  <2>12. PendingNodeIdle'
    BY <2>2, <2>4, <2>5, <2>9 DEF IInv, PendingNodeIdle
  <2>13. SettlementAgrees'
    BY <2>4, <2>10 DEF IInv, SettlementAgrees
  <2>14. NodeAgrees'
    <3>1. s \in SettlementOf(subPlan[n])
      BY <1>0 DEF IInv, SettlementAgrees
    <3>2. \/ s = "completed" /\ subPlan[n] \in {"completed", "empty"}
          \/ s = "failed" /\ subPlan[n] = "failed"
      BY <2>1, <3>1 DEF SettlementOf, SettleStatus, IInv, TypeOK, SubPlanState
    <3> QED
      BY <2>2, <2>4, <2>5, <3>2 DEF IInv, NodeAgrees
  <2>15. DependencyOrder'
    <3> SUFFICES ASSUME NEW m \in Nodes, graph'[m] # PENDING, NEW k \in dependsOn[m]
                 PROVE  graph'[k] = COMPLETED
      BY <2>4 DEF DependencyOrder
    <3>1. CASE m \in adv.newlyReady
      BY <3>1, <2>6
    <3>2. CASE m \notin adv.newlyReady
      <4>1. m \notin claimed /\ m \in AllNodes
        BY <3>2, <2>6, TaskGraphAssumption DEF AllNodes
      <4>2. graph[m] # PENDING
        BY <4>1, <2>1, <2>5
      <4>3. graph[k] = COMPLETED /\ k \in AllNodes
        BY <4>2, <2>3 DEF IInv, DependencyOrder, Dependencies
      <4> QED
        BY <4>3, <2>1, <2>5
    <3> QED
      BY <3>1, <3>2
  <2>16. ResultsMatch'
    <3>1. CompletedNodeIds(graph') =
             IF s = "completed" /\ n \in Nodes THEN CompletedNodeIds(graph) \cup {n}
                                               ELSE CompletedNodeIds(graph)
      BY <2>1, <2>2, <2>5 DEF CompletedNodeIds, AllNodes
    <3> QED
      BY <2>4, <3>1 DEF IInv, ResultsMatch
  <2>17. SynthesizerAfterJoin' /\ SynthesizerSeesEveryResult'
    <3>1. ASSUME AllNodesCompleted(graph) PROVE AllNodesCompleted(graph')
      BY <3>1, <2>1, <2>5 DEF AllNodesCompleted, CompletedNodeIds, AllNodes
    <3>2. ASSUME NEW t \in Synthesizers, graph'[t] # PENDING PROVE AllNodesCompleted(graph')
      <4>1. CASE t \in claimed
        BY <4>1, <2>6, TaskGraphAssumption
      <4>2. CASE t \notin claimed
        BY <3>2, <4>2, <3>1, <2>1, <2>3, <2>5 DEF AllNodes
      <4> QED
        BY <4>1, <4>2
    <3> QED
      BY <3>2, <2>4 DEF IInv, SynthesizerAfterJoin, SynthesizerSeesEveryResult
  <2>18. RunVerdictSound'
    <3>1. ASSUME run' = "completed" PROVE \A m \in AllNodes : graph'[m] = COMPLETED
      BY <3>1, <2>1, <2>6, <2>7 DEF IInv, RunVerdictSound
    <3>2. ASSUME run' = "failed"
          PROVE  (\E m \in AllNodes : graph'[m] = FAILED) \/ Blocked(dependsOn, graph')
      <4>1. CASE adv.runFailed \/ adv.blocked
        BY <4>1, <2>5, <2>6
      <4>2. CASE ~adv.runFailed /\ ~adv.blocked
        <5>1. run = "failed"
          BY <3>2, <4>2, <2>7
        <5>2. CASE \E m \in AllNodes : graph[m] = FAILED
          BY <5>2, <2>1, <2>5
        <5>3. CASE Blocked(dependsOn, graph)
          <6>1. n \notin Nodes /\ ~AllNodesCompleted(graph)
            BY <5>3, <2>1 DEF Blocked
          <6> QED
            BY <6>1, <2>1, <2>3 DEF AllNodes
        <5> QED
          BY <5>1, <5>2, <5>3 DEF IInv, RunVerdictSound
      <4> QED
        BY <4>1, <4>2
    <3> QED
      BY <3>1, <3>2, <2>4 DEF RunVerdictSound
  <2>19. RunNeverStranded'
    <3>1. ASSUME NEW m \in AllNodes, graph'[m] = RUNNING PROVE Driven(m)'
      <4>1. m # n
        BY <3>1, <2>2, <2>5
      <4>2. CASE m \in claimed
        BY <4>2, <2>4 DEF Driven
      <4>3. CASE m \notin claimed
        <5>1. Driven(m)
          BY <3>1, <4>1, <4>3, <2>5 DEF IInv, RunNeverStranded
        <5> QED
          BY <5>1, <4>1, <2>4, MessagesDistinct DEF Driven
      <4> QED
        BY <4>2, <4>3
    <3>2. run' = "running" => \E m \in AllNodes : graph'[m] = RUNNING
      BY <2>6, <2>7
    <3> QED
      BY <3>1, <3>2 DEF RunNeverStranded
  <2> QED
    BY <2>8, <2>11, <2>12, <2>13, <2>14, <2>15, <2>16, <2>17, <2>18, <2>19 DEF IInv
<1> QED
  BY <1>1, <1>2, <1>3 DEF HandleCompleted

\* Every step preserves the inductive invariant.
LEMMA NextIInv == IInv /\ [Next]_vars => IInv'
<1> SUFFICES ASSUME IInv, [Next]_vars PROVE IInv'
  OBVIOUS
<1>1. CASE HandleTrigger
  BY <1>1, TriggerIInv
<1>2. ASSUME NEW n \in AllNodes, HandleTask(n) PROVE IInv'
  BY <1>2, TaskIInv
<1>3. ASSUME NEW n \in AllNodes, SubPlanSettles(n) PROVE IInv'
  BY <1>3, SubPlanSettlesIInv
<1>4. ASSUME NEW n \in AllNodes, NEW s \in SettleStatus, HandleCompleted(n, s) PROVE IInv'
  BY <1>4, CompletedIInv
<1>5. ASSUME NEW n \in AllNodes, SubPlanSettlesAgain(n) PROVE IInv'
  BY <1>5, SubPlanSettlesAgainIInv
<1>6. CASE UNCHANGED vars
  <2>1. \A m : Deliverable(m)' <=> Deliverable(m)
    BY <1>6 DEF vars, Deliverable
  <2>2. \A n : Driven(n)' <=> Driven(n)
    BY <1>6 DEF vars, Driven
  <2> QED
    BY <1>6, <2>1, <2>2
       DEF vars, IInv, TypeOK, NotStarted, PendingNodeIdle, SettlementAgrees, NodeAgrees,
           DependencyOrder, ResultsMatch, SynthesizerAfterJoin, SynthesizerSeesEveryResult,
           RunVerdictSound, RunNeverStranded, Blocked
<1> QED
  BY <1>1, <1>2, <1>3, <1>4, <1>5, <1>6 DEF Next

-----------------------------------------------------------------------------
\* The inductive invariant holds throughout every orchestrated run.
THEOREM Invariance == Spec => []IInv
BY InitIInv, NextIInv, PTL DEF Spec

\* The handlers keep every variable in its type.
THEOREM TypeCorrect == Spec => []TypeOK
<1>1. IInv => TypeOK
  BY DEF IInv
<1> QED
  BY <1>1, Invariance, PTL

\* claim_ready and plan_advance start a node only after all its dependencies
\* have completed, for every workflow graph and every redelivery.
THEOREM DependenciesRespected == Spec => []DependencyOrder
<1>1. IInv => DependencyOrder
  BY DEF IInv
<1> QED
  BY <1>1, Invariance, PTL

\* The join hands the synthesizer the result of every worker node.
THEOREM JoinComplete == Spec => []SynthesizerSeesEveryResult
<1>1. IInv => SynthesizerSeesEveryResult
  BY DEF IInv
<1> QED
  BY <1>1, Invariance, PTL

\* The status reported to Prism agrees with the task graph.
THEOREM VerdictSound == Spec => []RunVerdictSound
<1>1. IInv => RunVerdictSound
  BY DEF IInv
<1> QED
  BY <1>1, Invariance, PTL

\* As long as a run reports running, something is left that will move it.
THEOREM NeverStranded == Spec => []RunNeverStranded
<1>1. IInv => RunNeverStranded
  BY DEF IInv
<1> QED
  BY <1>1, Invariance, PTL

\* Once a run has a verdict, no late or duplicate event changes it.
THEOREM VerdictStable == Spec => RunVerdictStable
<1>1. ASSUME IInv, [Next]_vars
      PROVE  [(run \in RunTerminal) => run' = run]_vars
  <2> SUFFICES ASSUME Next, run \in RunTerminal PROVE run' = run
    BY <1>1
  <2>1. CASE HandleTrigger
    BY <2>1 DEF HandleTrigger, Ignore, StartOrchestration
  <2>2. ASSUME NEW n \in AllNodes, HandleTask(n) PROVE run' = run
    BY <2>2 DEF HandleTask, Ignore, PlanNode, ResumeExistingSubplan
  <2>3. ASSUME NEW n \in AllNodes, SubPlanSettles(n) \/ SubPlanSettlesAgain(n)
        PROVE  run' = run
    BY <2>3 DEF SubPlanSettles, SubPlanSettlesAgain
  <2>4. ASSUME NEW n \in AllNodes, NEW s \in SettleStatus, HandleCompleted(n, s)
        PROVE  run' = run
    <3>1. CASE Ignore(Settled(n, s))
      BY <3>1 DEF Ignore
    <3>2. CASE AdvanceTaskGraph(n, s)
      <4>1. graph[n] = RUNNING /\ orchestrated
        BY <1>1, <2>4, <3>2, SettledNodeRunning
           DEF HandleCompleted, AdvanceTaskGraph, AlreadyProcessed
      <4>2. run \in {"completed", "failed"} /\ run' \in {"completed", "failed", run}
        BY <1>1, <4>1, <3>2 DEF IInv, NotStarted, RunTerminal, AdvanceTaskGraph, RunAfter
      <4>3. run # "completed"
        BY <1>1, <4>1 DEF IInv, RunVerdictSound, RUNNING, COMPLETED
      <4>4. PICK m \in AllNodes : graph[m] = FAILED
        <5>1. SUFFICES ASSUME Blocked(dependsOn, graph) PROVE FALSE
          BY <1>1, <4>2, <4>3 DEF IInv, RunVerdictSound
        <5>2. n \notin Nodes /\ ~AllNodesCompleted(graph)
          BY <4>1, <5>1 DEF Blocked
        <5> QED
          BY <1>1, <4>1, <5>2 DEF IInv, SynthesizerAfterJoin, AllNodes, PENDING, RUNNING
      <4>5. graph'[m] = FAILED
        <5>1. /\ dependsOn \in Dependencies /\ graph \in Graph
              /\ NodeStatusOf(s) \in {COMPLETED, FAILED}
              /\ graph' = PlanAdvance(dependsOn, graph, n, NodeStatusOf(s)).graph
          BY <1>1, <3>2 DEF IInv, TypeOK, NodeStatusOf, AdvanceTaskGraph
        <5> QED
          BY <5>1, <4>1, <4>4, PlanAdvanceEffect DEF PENDING, RUNNING, FAILED
      <4>6. run' # "completed"
        BY <1>1, <4>5, NextIInv DEF IInv, RunVerdictSound, COMPLETED, FAILED
      <4> QED
        BY <4>2, <4>3, <4>6
    <3> QED
      BY <2>4, <3>1, <3>2 DEF HandleCompleted
  <2> QED
    BY <2>1, <2>2, <2>3, <2>4 DEF Next
<1> QED
  BY <1>1, Invariance, PTL DEF Spec, RunVerdictStable

\* No duplicate trigger, task or completion dispatches a node a second time.
THEOREM SingleDispatch == Spec => DispatchedOnce
<1> DEFINE Fresh(k) == Task(k) \in pending' /\ Task(k) \notin pending
<1>1. ASSUME IInv, [Next]_vars
      PROVE  [DispatchClaims]_vars
  <2> SUFFICES ASSUME Next, NEW k \in AllNodes, Fresh(k) PROVE graph[k] = PENDING
    BY <1>1 DEF DispatchClaims
  <2>1. CASE HandleTrigger
    <3>1. StartOrchestration
      BY <2>1 DEF HandleTrigger, Ignore, Acknowledge
    <3> QED
      BY <1>1, <3>1 DEF StartOrchestration, IInv, NotStarted, NewGraph
  <2>2. ASSUME NEW n \in AllNodes, HandleTask(n) PROVE graph[k] = PENDING
    BY <2>2, MessagesDistinct
       DEF HandleTask, Ignore, PlanNode, ResumeExistingSubplan, Acknowledge
  <2>3. ASSUME NEW n \in AllNodes, SubPlanSettles(n) \/ SubPlanSettlesAgain(n)
        PROVE  graph[k] = PENDING
    BY <2>3, MessagesDistinct DEF SubPlanSettles, SubPlanSettlesAgain
  <2>4. ASSUME NEW n \in AllNodes, NEW s \in SettleStatus, HandleCompleted(n, s)
        PROVE  graph[k] = PENDING
    <3> DEFINE adv == PlanAdvance(dependsOn, graph, n, NodeStatusOf(s))
    <3>1. AdvanceTaskGraph(n, s)
      BY <2>4 DEF HandleCompleted, Ignore, Acknowledge
    <3>2. /\ dependsOn \in Dependencies /\ graph \in Graph /\ graph[n] = RUNNING
          /\ NodeStatusOf(s) \in {COMPLETED, FAILED}
      BY <1>1, <2>4, <3>1, SettledNodeRunning
         DEF HandleCompleted, AdvanceTaskGraph, AlreadyProcessed, IInv, TypeOK, NodeStatusOf
    <3>3. Task(k) \in {Task(m) : m \in adv.newlyReady \cup adv.dispatchSynthesizer}
      BY <3>1 DEF AdvanceTaskGraph, Acknowledge, Dispatch
    <3>4. k \in adv.newlyReady \cup adv.dispatchSynthesizer
      BY <3>3, MessagesDistinct
    <3> QED
      BY <3>2, <3>4, PlanAdvanceEffect
  <2> QED
    BY <2>1, <2>2, <2>3, <2>4 DEF Next
<1> QED
  BY <1>1, Invariance, PTL DEF Spec, DispatchedOnce
=============================================================================
