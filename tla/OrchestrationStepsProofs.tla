----------------------- MODULE OrchestrationStepsProofs -----------------------
(***************************************************************************)
(* Proofs about the handlers taken apart, for any set of nodes, any        *)
(* workflow graph, any number of invocations that end half-way and any     *)
(* order of delivery.                                                      *)
(*                                                                         *)
(* How many invocations run at once matters.  The types are right in any   *)
(* case.  What is said about sub-plans needs that no message is in two     *)
(* hands at once: either invocations do not overlap, or the queue hides a  *)
(* message from others while it is handled.  What is said about the saved  *)
(* graph needs invocations that do not overlap: the store overwrites the   *)
(* graph without looking at its version.                                   *)
(***************************************************************************)
EXTENDS OrchestrationSteps, SequenceTheorems, TLAPS

Serial    == \A v, w \in Workers : v = w
Exclusive == Redelivery => Serial

-----------------------------------------------------------------------------
(***************************************************************************)
(* Types of the invocations and of what they have left to do.              *)
(***************************************************************************)
Effect ==
    [op : {"save_task_graph"}, graph : Graph]
    \cup {ClaimReadyNodes}
    \cup [op : {"save_plan"}, node : AllNodes, plan : {"open", "empty"}, results : SUBSET Nodes]
    \cup [op : {"save_sub_agent_result"}, node : Nodes]
    \cup [op : {"update_agent_run_status"}, status : {"completed", "failed"}]
    \cup [op : {"enqueue"}, msgs : SUBSET Message]

Invocation == [msg : Message, todo : Seq(Effect)] \cup {Idle}

TypeInv == TypeOK /\ inv \in [Workers -> Invocation]

\* An idle worker has nothing to do, and no event is the message of none.
LEMMA IdleFacts ==
    /\ Idle.todo = <<>>
    /\ \A m \in Message : m # Idle.msg
<1>1. Idle.todo = <<>> /\ Idle.msg = [kind |-> "none"]
  BY DEF Idle
<1>2. \A m \in Message : m.kind # "none"
  BY DEF Message, Trigger, Task, Action, Settled
<1> QED
  BY <1>1, <1>2

LEMMA MessageTypes ==
    /\ Trigger \in Message
    /\ \A n \in AllNodes : Task(n) \in Message /\ Action(n) \in Message
    /\ \A n \in AllNodes, s \in SettleStatus : Settled(n, s) \in Message
BY DEF Message

\* Every effect the handlers plan is well formed.
LEMMA EffectTypes ==
    /\ ClaimReadyNodes \in Effect
    /\ \A g \in Graph : SaveTaskGraph(g) \in Effect
    /\ \A n \in AllNodes, p \in {"open", "empty"}, r \in SUBSET Nodes : SavePlan(n, p, r) \in Effect
    /\ \A n \in Nodes : SaveResult(n) \in Effect
    /\ \A s \in {"completed", "failed"} : PatchRun(s) \in Effect
    /\ \A ms \in SUBSET Message : Enqueue(ms) \in Effect
BY DEF Effect, SaveTaskGraph, SavePlan, SaveResult, PatchRun, Enqueue

\* The fields of an effect by its op.
LEMMA EffectFields ==
    ASSUME NEW e \in Effect
    PROVE  /\ e.op = "save_task_graph" => e.graph \in Graph
           /\ e.op = "save_plan" => /\ e.node \in AllNodes /\ e.plan \in {"open", "empty"}
                                    /\ e.results \in SUBSET Nodes
           /\ e.op = "save_sub_agent_result" => e.node \in Nodes
           /\ e.op = "update_agent_run_status" => e.status \in {"completed", "failed"}
           /\ e.op = "enqueue" => e.msgs \in SUBSET Message
BY DEF Effect, ClaimReadyNodes

LEMMA AdvanceTypes ==
    ASSUME NEW d \in Dependencies, NEW g \in Graph, NEW n \in AllNodes, NEW st \in {COMPLETED, FAILED}
    PROVE  LET adv == PlanAdvance(d, g, n, st)
           IN  /\ adv.graph \in Graph
               /\ adv.newlyReady \subseteq Nodes
               /\ adv.dispatchSynthesizer \subseteq Synthesizers
               /\ adv.runCompleted \in BOOLEAN /\ adv.runFailed \in BOOLEAN /\ adv.blocked \in BOOLEAN
BY DEF PlanAdvance, WithNodeStatus, ReadyNodes, Graph, SubTaskStatus, AllNodes,
       PENDING, RUNNING, COMPLETED, FAILED

LEMMA CompletedEffectsTypes ==
    ASSUME TypeInv, NEW n \in AllNodes, NEW s \in SettleStatus
    PROVE  CompletedEffects(n, s) \in Seq(Effect)
<1> DEFINE adv == PlanAdvance(dependsOn, graph, n, NodeStatusOf(s))
<1>1. NodeStatusOf(s) \in {COMPLETED, FAILED}
  BY DEF NodeStatusOf
<1>2. /\ adv.graph \in Graph
      /\ {Task(m) : m \in adv.newlyReady \cup adv.dispatchSynthesizer} \subseteq Message
  BY <1>1, AdvanceTypes DEF TypeInv, TypeOK, Message, AllNodes
<1> HIDE DEF adv
<1>3. <<SaveTaskGraph(adv.graph)>> \in Seq(Effect) /\ StoreEffects(n, s) \in Seq(Effect)
  BY <1>2, EffectTypes DEF StoreEffects, If
<1>4. DispatchEffects(adv) \in Seq(Effect)
  BY <1>2, EffectTypes DEF DispatchEffects, If
<1>5. VerdictEffects(adv) \in Seq(Effect)
  BY EffectTypes DEF VerdictEffects, If
<1>6. AdvanceEffects(n, s, adv) \in Seq(Effect)
  BY <1>3, <1>4, <1>5, ConcatProperties DEF AdvanceEffects
<1> QED
  BY <1>6 DEF CompletedEffects, If, adv

LEMMA InitTypeInv == Init => TypeInv
<1> SUFFICES ASSUME Init PROVE TypeInv
  OBVIOUS
<1>1. graph \in Graph /\ subPlan \in [AllNodes -> SubPlanState]
  BY DEF Init, NewGraph, Graph, SubTaskStatus, SubPlanState
<1>2. inv \in [Workers -> Invocation] /\ \A w \in Workers : inv[w] = Idle
  BY DEF Init, Invocation
<1>3. crashes \in 0 .. MaxCrashes /\ dependsOn \in Dependencies
  BY StepsAssumption DEF Init
<1> QED
  BY <1>1, <1>2, <1>3, MessageTypes DEF Init, TypeInv, TypeOK, RunStatus

\* A worker that takes a message, goes on or ends keeps the type of inv.
LEMMA InvocationTypes ==
    ASSUME inv \in [Workers -> Invocation], NEW w \in Workers
    PROVE  /\ Todo(w) \in Seq(Effect)
           /\ \A m \in Message, todo \in Seq(Effect) :
                 [inv EXCEPT ![w] = [msg |-> m, todo |-> todo]] \in [Workers -> Invocation]
           /\ [inv EXCEPT ![w] = Idle] \in [Workers -> Invocation]
           /\ Todo(w) # <<>> => /\ inv[w].msg \in Message
                                /\ Head(Todo(w)) \in Effect
                                /\ Tail(Todo(w)) \in Seq(Effect)
                                /\ \A todo \in Seq(Effect) :
                                      [inv EXCEPT ![w].todo = todo] \in [Workers -> Invocation]
<1>1. inv[w] = Idle \/ inv[w] \in [msg : Message, todo : Seq(Effect)]
  BY DEF Invocation
<1>2. Todo(w) \in Seq(Effect)
  BY <1>1, EmptySeq, IdleFacts DEF Todo
<1>3. \A m \in Message, todo \in Seq(Effect) :
         [inv EXCEPT ![w] = [msg |-> m, todo |-> todo]] \in [Workers -> Invocation]
  BY DEF Invocation
<1>4. [inv EXCEPT ![w] = Idle] \in [Workers -> Invocation]
  BY DEF Invocation
<1>5. ASSUME Todo(w) # <<>> PROVE inv[w] \in [msg : Message, todo : Seq(Effect)]
  BY <1>1, <1>5, IdleFacts DEF Todo
<1>6. ASSUME Todo(w) # <<>>, NEW todo \in Seq(Effect)
      PROVE  [inv EXCEPT ![w].todo = todo] \in [Workers -> Invocation]
  <2>1. [inv[w] EXCEPT !.todo = todo] \in Invocation
    BY <1>5, <1>6 DEF Invocation
  <2> QED
    BY <2>1
<1> QED
  BY <1>2, <1>3, <1>4, <1>5, <1>6, HeadTailProperties

LEMMA NextTypeInv == TypeInv /\ [Next]_vars => TypeInv'
<1> SUFFICES ASSUME TypeInv, [Next]_vars PROVE TypeInv'
  OBVIOUS
<1> USE DEF TypeInv
<1> DEFINE InvType == inv \in [Workers -> Invocation]
<1>0. SUFFICES TypeOK' /\ InvType'
  OBVIOUS
<1>a. ASSUME InvType' PROVE (\A w \in Workers : inv[w] = Idle \/ inv[w].msg \in Message)'
  BY <1>a DEF Invocation
<1>1. ASSUME NEW w \in Workers, BeginTrigger(w) PROVE TypeOK' /\ InvType'
  <2>1. TriggerEffects \in Seq(Effect)
    BY EffectTypes DEF TriggerEffects, If, NewGraph, Graph, SubTaskStatus, PENDING
  <2>2. InvType'
    BY <1>1, <2>1, InvocationTypes, MessageTypes DEF BeginTrigger, Invoke
  <2> QED
    BY <1>1, <1>a, <2>2 DEF BeginTrigger, Invoke, TypeOK, RunStatus
<1>2. ASSUME NEW w \in Workers, NEW n \in AllNodes, BeginTask(w, n) PROVE TypeOK' /\ InvType'
  <2>1. \A p \in SubPlanState \ {"none"} : Continuation(n, p) \subseteq Message
    BY DEF Continuation, SubPlanState, SettlementOf, SettleStatus, Message
  <2>2. ASSUME NEW todo \in TaskEffects(n) PROVE todo \in Seq(Effect)
    <3>1. CASE todo = <<>>
      BY <3>1, EmptySeq
    <3>2. CASE subPlan[n] # "none" /\ todo = <<Enqueue(Continuation(n, subPlan[n]))>>
      BY <2>1, <3>2, EffectTypes DEF TypeOK
    <3>3. ASSUME NEW p \in {"open", "empty"},
                 todo = <<SavePlan(n, p, results), Enqueue(Continuation(n, p))>>
          PROVE  todo \in Seq(Effect)
      BY <2>1, <3>3, EffectTypes DEF TypeOK, SubPlanState
    <3> QED
      BY <3>1, <3>2, <3>3 DEF TaskEffects
  <2>3. InvType'
    BY <1>2, <2>2, InvocationTypes, MessageTypes DEF BeginTask, Invoke
  <2> QED
    BY <1>2, <1>a, <2>3 DEF BeginTask, Invoke, TypeOK
<1>3. ASSUME NEW w \in Workers, NEW n \in AllNodes, NEW s \in SettleStatus, BeginCompleted(w, n, s)
      PROVE  TypeOK' /\ InvType'
  <2>1. InvType'
    BY <1>3, CompletedEffectsTypes, InvocationTypes, MessageTypes DEF BeginCompleted, Invoke
  <2> QED
    BY <1>3, <1>a, <2>1 DEF BeginCompleted, Invoke, TypeOK
<1>4. ASSUME NEW w \in Workers, Perform(w) PROVE TypeOK' /\ InvType'
  <2> DEFINE e == Head(Todo(w))
  <2>0. Todo(w) # <<>> => e \in Effect /\ Tail(Todo(w)) \in Seq(Effect)
    BY InvocationTypes
  <2>a. InvType'
    <3>1. CASE DoClaimReadyNodes(w)
      <4>1. ClaimEffects \in Seq(Effect)
        <5>1. ClaimReady(dependsOn, graph) \in Graph
          BY DEF TypeOK, ClaimReady, WithNodeStatus, Graph, SubTaskStatus
        <5>2. {Task(n) : n \in ReadyNodes(dependsOn, graph)} \subseteq Message
          BY DEF ReadyNodes, Message, AllNodes
        <5> QED
          BY <5>1, <5>2, EffectTypes DEF ClaimEffects
      <4> QED
        BY <3>1, <4>1, InvocationTypes DEF DoClaimReadyNodes, NextIs, Proceed
    <3>2. CASE DoEnqueue(w)
      <4>1. ASSUME NEW ms \in SUBSET Message, NEW rest \in Seq(Effect)
            PROVE  If(ms # {}, <<Enqueue(ms)>>) \o rest \in Seq(Effect)
        BY EffectTypes, ConcatProperties DEF If
      <4>2. e.msgs \in SUBSET Message /\ Todo(w) # <<>>
        BY <2>0, <3>2, EffectFields DEF DoEnqueue, NextIs
      <4>3. PICK m \in e.msgs :
               Proceed(w, If(e.msgs \ {m} # {}, <<Enqueue(e.msgs \ {m})>>) \o Tail(Todo(w)))
        BY <3>2 DEF DoEnqueue
      <4>4. If(e.msgs \ {m} # {}, <<Enqueue(e.msgs \ {m})>>) \o Tail(Todo(w)) \in Seq(Effect)
        BY <2>0, <4>1, <4>2
      <4> QED
        BY <4>2, <4>3, <4>4, InvocationTypes DEF Proceed
    <3>3. CASE End(w)
      BY <3>3, InvocationTypes DEF End
    <3>4. CASE Todo(w) # <<>> /\ Proceed(w, Tail(Todo(w)))
      BY <3>4, <2>0, InvocationTypes DEF Proceed
    <3> QED
      BY <1>4, <3>1, <3>2, <3>3, <3>4
         DEF Perform, NextIs, DoSaveTaskGraph, DoSavePlan, DoSaveResult, DoPatchRun
  <2>1. CASE DoSaveTaskGraph(w)
    BY <2>0, <2>a, <2>1, <1>a, EffectFields DEF DoSaveTaskGraph, NextIs, TypeOK
  <2>2. CASE DoClaimReadyNodes(w)
    BY <2>a, <2>2, <1>a DEF DoClaimReadyNodes, TypeOK, store
  <2>3. CASE DoSavePlan(w)
    BY <2>0, <2>a, <2>3, <1>a, EffectFields DEF DoSavePlan, NextIs, TypeOK, SubPlanState
  <2>4. CASE DoSaveResult(w)
    BY <2>0, <2>a, <2>4, <1>a, EffectFields DEF DoSaveResult, NextIs, TypeOK
  <2>5. CASE DoPatchRun(w)
    BY <2>0, <2>a, <2>5, <1>a, EffectFields DEF DoPatchRun, NextIs, TypeOK, RunStatus
  <2>6. CASE DoEnqueue(w)
    BY <2>0, <2>a, <2>6, <1>a, EffectFields DEF DoEnqueue, NextIs, TypeOK, store
  <2>7. CASE End(w)
    BY <2>a, <2>7, <1>a DEF End, TypeOK, store
  <2> QED
    BY <1>4, <2>1, <2>2, <2>3, <2>4, <2>5, <2>6, <2>7 DEF Perform
<1>5. ASSUME NEW w \in Workers, Crash(w) PROVE TypeOK' /\ InvType'
  <2>1. InvType'
    BY <1>5, InvocationTypes DEF Crash
  <2>2. crashes' \in 0 .. MaxCrashes
    BY <1>5, StepsAssumption DEF Crash, TypeOK
  <2> QED
    BY <1>5, <1>a, <2>1, <2>2 DEF Crash, TypeOK, store
<1>6. ASSUME NEW n \in AllNodes, SubPlanSettles(n) PROVE TypeOK' /\ InvType'
  BY <1>6, <1>a DEF SubPlanSettles, TypeOK, SubPlanState, SettleStatus, Message
<1>7. CASE UNCHANGED vars
  BY <1>7 DEF vars, store, TypeOK
<1> QED
  BY <1>1, <1>2, <1>3, <1>4, <1>5, <1>6, <1>7 DEF Next

\* Every variable stays in its type however many invocations overlap or end
\* half-way: in particular only well-formed graphs and events are ever saved
\* and enqueued by the coordinator and the domain handler.
THEOREM StepsTypeCorrect == Spec => []TypeOK
<1>1. Spec => []TypeInv
  BY InitTypeInv, NextTypeInv, PTL DEF Spec
<1> QED
  BY <1>1, PTL DEF TypeInv

-----------------------------------------------------------------------------
(***************************************************************************)
(* The first invariant: everything that is recorded, queued or about to be *)
(* is true of the saved sub-plans, which never turn back.                  *)
(***************************************************************************)
Done(sp, n) == sp[n] \in {"completed", "empty"}

DependenciesDone(d, sp, n) ==
    IF n \in Nodes THEN \A m \in d[n] : Done(sp, m) ELSE \A m \in Nodes : Done(sp, m)

\* A graph is true of the sub-plans sp of a workflow d.
GraphTrue(d, sp, g) ==
    \A n \in AllNodes :
        /\ g[n] = COMPLETED => Done(sp, n)
        /\ g[n] = FAILED => sp[n] = "failed"
        /\ g[n] # PENDING => DependenciesDone(d, sp, n)

MessageTrue(d, sp, m) ==
    /\ \A n \in AllNodes : m = Task(n) => DependenciesDone(d, sp, n)
    /\ \A n \in AllNodes, s \in SettleStatus :
          m = Settled(n, s) => sp[n] \notin {"none", "open"} /\ s = SettlementOf(sp[n])

First(todo, op) == todo # <<>> /\ Head(todo).op = op

\* The messages a task event enqueues after the sub-plan has been saved.
AfterSave(todo) ==
    IF First(todo, "save_plan") THEN Continuation(Head(todo).node, Head(todo).plan) ELSE {}

\* What the effect e of an invocation for msg says is true, or will be when the
\* messages in after are enqueued.
EffectTrue(d, sp, msg, e, after) ==
    /\ e.op = "save_task_graph" => GraphTrue(d, sp, e.graph)
    /\ e.op = "save_plan" => /\ msg = Task(e.node)
                             /\ sp[e.node] = "none"
                             /\ DependenciesDone(d, sp, e.node)
    /\ e.op = "enqueue" => \A m \in e.msgs : MessageTrue(d, sp, m) \/ m \in after
    /\ e.op = "update_agent_run_status" /\ e.status = "completed" => \A n \in AllNodes : Done(sp, n)

TodoTrue(d, sp, msg, todo) ==
    \A i \in 1 .. Len(todo) :
        /\ EffectTrue(d, sp, msg, todo[i], AfterSave(todo))
        /\ todo[i].op = "save_plan" => i = 1

\* No message is in two hands.
OneHand ==
    \A v, w \in Workers : v # w /\ inv[v] # Idle => inv[v].msg # inv[w].msg

Truthful ==
    /\ GraphTrue(dependsOn, subPlan, graph)
    /\ \A n \in AllNodes : subPlan[n] # "none" => DependenciesDone(dependsOn, subPlan, n)
    /\ \A m \in pending \cup delivered : MessageTrue(dependsOn, subPlan, m)
    /\ \A w \in Workers : TodoTrue(dependsOn, subPlan, inv[w].msg, inv[w].todo)
    /\ CompletedIsEarned

\* A message in hand is still in the queue, or was handled before.
InQueue == \A w \in Workers : inv[w] # Idle => Deliverable(inv[w].msg)

TruthInv == TypeInv /\ OneHand /\ InQueue /\ Truthful

\* Events of different kinds, or of different nodes, are different messages.
LEMMA MessagesDistinct ==
    /\ \A n : Trigger # Task(n) /\ Trigger # Action(n)
    /\ \A n, s : Trigger # Settled(n, s)
    /\ \A n, m, s : Task(n) # Settled(m, s) /\ Action(n) # Settled(m, s)
    /\ \A n, m : Task(n) # Action(m)
    /\ \A n, m : Task(n) = Task(m) => n = m
    /\ \A n, m : Action(n) = Action(m) => n = m
    /\ \A n, m, s, t : Settled(n, s) = Settled(m, t) => n = m /\ s = t
BY DEF Trigger, Task, Action, Settled

LEMMA HeadIsFirst ==
    ASSUME NEW S, NEW s \in Seq(S), s # <<>>
    PROVE  Head(s) = s[1] /\ 1 \in 1 .. Len(s) /\ Head(s) \in S
BY HeadTailProperties

\* An element of a concatenation is one of its parts.
LEMMA ConcatElement ==
    ASSUME NEW S, NEW s \in Seq(S), NEW t \in Seq(S), NEW i \in 1 .. Len(s \o t)
    PROVE  \/ i \in 1 .. Len(s) /\ (s \o t)[i] = s[i]
           \/ i > Len(s) /\ i - Len(s) \in 1 .. Len(t) /\ (s \o t)[i] = t[i - Len(s)]
<1>1. Len(s \o t) = Len(s) + Len(t) /\ Len(s) \in Nat /\ Len(t) \in Nat
  BY ConcatProperties, LenProperties
<1>2. (s \o t)[i] = IF i <= Len(s) THEN s[i] ELSE t[i - Len(s)]
  BY <1>1, ConcatProperties
<1> QED
  BY <1>1, <1>2

\* The effects of a settlement, in their order: the graph is saved first.
LEMMA AdvanceElements ==
    ASSUME NEW n \in AllNodes, NEW s \in SettleStatus, NEW adv, adv.graph \in Graph,
           {Task(m) : m \in adv.newlyReady \cup adv.dispatchSynthesizer} \subseteq Message
    PROVE  /\ AdvanceEffects(n, s, adv) # <<>>
           /\ Head(AdvanceEffects(n, s, adv)) = SaveTaskGraph(adv.graph)
           /\ \A i \in 1 .. Len(AdvanceEffects(n, s, adv)) :
                 LET e == AdvanceEffects(n, s, adv)[i]
                 IN  \/ i = 1 /\ e = SaveTaskGraph(adv.graph)
                     \/ i > 1 /\ \/ n \in Nodes /\ e = SaveResult(n)
                                 \/ /\ i = Len(StoreEffects(n, s)) + 2
                                    /\ e = Enqueue({Task(m) : m \in adv.newlyReady \cup adv.dispatchSynthesizer})
                                 \/ adv.runCompleted /\ e = PatchRun("completed")
                                 \/ (adv.blocked \/ adv.runFailed) /\ e = PatchRun("failed")
<1> DEFINE E1 == <<SaveTaskGraph(adv.graph)>>
           E2 == StoreEffects(n, s)
           E3 == DispatchEffects(adv)
           V1 == If(adv.runCompleted, <<PatchRun("completed")>>)
           V2 == If(adv.blocked \/ adv.runFailed, <<PatchRun("failed")>>)
           E4 == V1 \o V2
           tasks == {Task(m) : m \in adv.newlyReady \cup adv.dispatchSynthesizer}
<1>1. E1 \in Seq(Effect) /\ E2 \in Seq(Effect) /\ E3 \in Seq(Effect)
      /\ V1 \in Seq(Effect) /\ V2 \in Seq(Effect)
  BY EffectTypes DEF StoreEffects, DispatchEffects, If
<1>2. E4 \in Seq(Effect)
  BY <1>1, ConcatProperties
<1>3. \A i \in 1 .. Len(E1) : i = 1 /\ E1[i] = SaveTaskGraph(adv.graph)
  OBVIOUS
<1>4. \A i \in 1 .. Len(E2) : n \in Nodes /\ E2[i] = SaveResult(n)
  BY DEF StoreEffects, If
<1>5. \A i \in 1 .. Len(E3) : i = 1 /\ E3[i] = Enqueue(tasks)
  BY DEF DispatchEffects, If
<1>6. /\ \A i \in 1 .. Len(V1) : adv.runCompleted /\ V1[i] = PatchRun("completed")
      /\ \A i \in 1 .. Len(V2) : (adv.blocked \/ adv.runFailed) /\ V2[i] = PatchRun("failed")
  BY DEF If
<1>7. \A i \in 1 .. Len(E4) : \/ adv.runCompleted /\ E4[i] = PatchRun("completed")
                              \/ (adv.blocked \/ adv.runFailed) /\ E4[i] = PatchRun("failed")
  <2> HIDE DEF V1, V2
  <2> QED BY <1>1, <1>6, ConcatElement
<1> HIDE DEF E1, E2, E3, E4
<1>8. E1 \o E2 \in Seq(Effect) /\ (E1 \o E2) \o E3 \in Seq(Effect)
  BY <1>1, ConcatProperties
<1>9. AdvanceEffects(n, s, adv) = ((E1 \o E2) \o E3) \o E4
  BY DEF AdvanceEffects, VerdictEffects, E1, E2, E3, E4
<1>10. Len(E1) = 1 /\ Len(E2) \in Nat /\ Len(E3) \in Nat /\ Len(E4) \in Nat
  BY <1>1, <1>2, LenProperties DEF E1
<1>11. /\ Len(((E1 \o E2) \o E3) \o E4) = 1 + Len(E2) + Len(E3) + Len(E4)
       /\ Len((E1 \o E2) \o E3) = 1 + Len(E2) + Len(E3)
       /\ Len(E1 \o E2) = 1 + Len(E2)
  <2>1. Len(E1 \o E2) = 1 + Len(E2)
    BY <1>1, <1>10, ConcatProperties
  <2>2. Len((E1 \o E2) \o E3) = Len(E1 \o E2) + Len(E3)
    BY <1>1, <1>8, ConcatProperties
  <2>3. Len(((E1 \o E2) \o E3) \o E4) = Len((E1 \o E2) \o E3) + Len(E4)
    BY <1>2, <1>8, ConcatProperties
  <2> QED
    BY <2>1, <2>2, <2>3
<1>12. ASSUME NEW i \in 1 .. Len(((E1 \o E2) \o E3) \o E4)
       PROVE  LET e == (((E1 \o E2) \o E3) \o E4)[i]
              IN  \/ i = 1 /\ e = SaveTaskGraph(adv.graph)
                  \/ i > 1 /\ \/ n \in Nodes /\ e = SaveResult(n)
                              \/ i = Len(E2) + 2 /\ e = Enqueue(tasks)
                              \/ adv.runCompleted /\ e = PatchRun("completed")
                              \/ (adv.blocked \/ adv.runFailed) /\ e = PatchRun("failed")
  <2> HIDE DEF tasks
  <2>1. CASE i > Len((E1 \o E2) \o E3)
    BY <1>2, <1>7, <1>8, <1>10, <1>11, <2>1, ConcatElement
  <2>2. CASE i <= Len((E1 \o E2) \o E3)
    <3>1. i \in 1 .. Len((E1 \o E2) \o E3) /\ (((E1 \o E2) \o E3) \o E4)[i] = ((E1 \o E2) \o E3)[i]
      BY <1>2, <1>8, <1>10, <1>11, <2>2, ConcatElement
    <3>2. CASE i > Len(E1 \o E2)
      BY <1>1, <1>5, <1>8, <1>10, <1>11, <3>1, <3>2, ConcatElement
    <3>3. CASE i <= Len(E1 \o E2)
      <4>1. i \in 1 .. Len(E1 \o E2) /\ ((E1 \o E2) \o E3)[i] = (E1 \o E2)[i]
        BY <1>1, <1>8, <1>10, <1>11, <3>1, <3>3, ConcatElement
      <4> QED
        BY <1>1, <1>3, <1>4, <1>10, <1>11, <3>1, <4>1, ConcatElement
    <3> QED
      BY <1>10, <1>11, <3>2, <3>3
  <2> QED
    BY <1>10, <1>11, <2>1, <2>2
<1>13. ((E1 \o E2) \o E3) \o E4 # <<>> /\ Head(((E1 \o E2) \o E3) \o E4) = SaveTaskGraph(adv.graph)
  <2> DEFINE all == ((E1 \o E2) \o E3) \o E4
  <2>1. all \in Seq(Effect) /\ Len(all) >= 1
    BY <1>2, <1>8, <1>10, <1>11, ConcatProperties
  <2>2. all[1] = SaveTaskGraph(adv.graph)
    <3>1. 1 \in 1 .. Len(all)
      BY <1>10, <1>11
    <3> HIDE DEF tasks
    <3> QED
      BY <1>12, <3>1
  <2> HIDE DEF all
  <2>3. all # <<>> /\ Head(all) = all[1]
    BY <2>1
  <2> QED
    BY <2>2, <2>3 DEF all
<1>14. Len(E2) = Len(StoreEffects(n, s))
  BY DEF E2
<1> QED
  BY <1>9, <1>12, <1>13, <1>14

\* What is true stays true when sub-plans go forward.
LEMMA TruthStable ==
    ASSUME NEW d \in Dependencies, NEW p \in [AllNodes -> SubPlanState], NEW q,
           \A n \in AllNodes : p[n] \notin {"none", "open"} => q[n] = p[n]
    PROVE  /\ \A n \in AllNodes : Done(p, n) => Done(q, n)
           /\ \A n \in AllNodes : DependenciesDone(d, p, n) => DependenciesDone(d, q, n)
           /\ \A g : GraphTrue(d, p, g) => GraphTrue(d, q, g)
           /\ \A m : MessageTrue(d, p, m) => MessageTrue(d, q, m)
<1>1. \A n \in AllNodes : Done(p, n) => Done(q, n)
  BY DEF Done
<1>2. \A n \in AllNodes : DependenciesDone(d, p, n) => DependenciesDone(d, q, n)
  BY <1>1 DEF DependenciesDone, Dependencies, AllNodes
<1>3. \A g : GraphTrue(d, p, g) => GraphTrue(d, q, g)
  BY <1>1, <1>2 DEF GraphTrue
<1>4. \A m : MessageTrue(d, p, m) => MessageTrue(d, q, m)
  BY <1>2 DEF MessageTrue
<1> QED
  BY <1>1, <1>2, <1>3, <1>4

\* The same for what an invocation has left to do, while the sub-plan it is
\* about to save is not there.
LEMMA TodoStable ==
    ASSUME NEW d \in Dependencies, NEW p \in [AllNodes -> SubPlanState], NEW q,
           \A n \in AllNodes : p[n] \notin {"none", "open"} => q[n] = p[n],
           NEW msg, NEW todo \in Seq(Effect), TodoTrue(d, p, msg, todo),
           First(todo, "save_plan") => q[Head(todo).node] = "none"
    PROVE  TodoTrue(d, q, msg, todo)
<1> SUFFICES ASSUME NEW i \in 1 .. Len(todo)
             PROVE  EffectTrue(d, q, msg, todo[i], AfterSave(todo)) /\ (todo[i].op = "save_plan" => i = 1)
  BY DEF TodoTrue
<1> DEFINE e == todo[i]
<1>1. EffectTrue(d, p, msg, e, AfterSave(todo)) /\ (e.op = "save_plan" => i = 1)
  BY DEF TodoTrue
<1>2. e \in Effect
  OBVIOUS
<1>3. e.op = "save_plan" => e = Head(todo) /\ First(todo, "save_plan")
  BY <1>1 DEF First
<1>4. e.op = "save_plan" => q[e.node] = "none" /\ e.node \in AllNodes
  BY <1>2, <1>3, EffectFields
<1> HIDE DEF e
<1>5. EffectTrue(d, q, msg, e, AfterSave(todo))
  BY <1>1, <1>4, TruthStable DEF EffectTrue
<1> QED
  BY <1>1, <1>5 DEF e

\* An effect that was performed leaves the rest of them true.
LEMMA TailTrue ==
    ASSUME NEW d, NEW sp, NEW msg, NEW todo \in Seq(Effect), todo # <<>>,
           TodoTrue(d, sp, msg, todo), Head(todo).op # "save_plan"
    PROVE  TodoTrue(d, sp, msg, Tail(todo))
<1>1. /\ Tail(todo) \in Seq(Effect) /\ Len(Tail(todo)) = Len(todo) - 1
      /\ \A i \in 1 .. Len(Tail(todo)) : Tail(todo)[i] = todo[i + 1] /\ i + 1 \in 1 .. Len(todo)
      /\ Len(todo) \in Nat
  BY HeadTailProperties
<1>2. \A i \in 1 .. Len(todo) : EffectTrue(d, sp, msg, todo[i], {}) /\ todo[i].op # "save_plan"
  <2>1. AfterSave(todo) = {} /\ todo[1].op # "save_plan"
    BY DEF AfterSave, First
  <2> QED
    BY <2>1 DEF TodoTrue
<1>3. AfterSave(Tail(todo)) = {}
  <2>1. Tail(todo) # <<>> => Head(Tail(todo)).op # "save_plan"
    BY <1>1, <1>2
  <2> QED
    BY <2>1 DEF AfterSave, First
<1> QED
  BY <1>1, <1>2, <1>3 DEF TodoTrue

\* The join only makes true statements about sub-plans.
LEMMA PlanAdvanceTrue ==
    ASSUME NEW d \in Dependencies, NEW sp \in [AllNodes -> SubPlanState], NEW g \in Graph,
           NEW n \in AllNodes, NEW s \in {"completed", "failed"},
           GraphTrue(d, sp, g), MessageTrue(d, sp, Settled(n, s)), DependenciesDone(d, sp, n)
    PROVE  LET adv == PlanAdvance(d, g, n, NodeStatusOf(s))
           IN  /\ GraphTrue(d, sp, adv.graph)
               /\ \A m \in adv.newlyReady \cup adv.dispatchSynthesizer : DependenciesDone(d, sp, m)
               /\ adv.runCompleted => \A m \in AllNodes : Done(sp, m)
<1> DEFINE st == NodeStatusOf(s)
           h == WithNodeStatus(g, {n}, st)
           joins == st = COMPLETED /\ n \in Nodes
           ready == IF joins THEN ReadyNodes(d, h) ELSE {}
           joined == joins /\ ready = {} /\ AllNodesCompleted(h)
           synth == IF joined THEN {t \in Synthesizers : h[t] = PENDING} ELSE {}
           adv == PlanAdvance(d, g, n, st)
<1>0. /\ adv.graph = WithNodeStatus(h, ready \cup synth, RUNNING)
      /\ adv.newlyReady = ready /\ adv.dispatchSynthesizer = synth
      /\ adv.runCompleted = (\/ st = COMPLETED /\ n \in Synthesizers
                             \/ joined /\ \A t \in Synthesizers : h[t] = COMPLETED)
  BY DEF PlanAdvance
<1>1. st = COMPLETED => Done(sp, n)
  BY DEF MessageTrue, SettleStatus, NodeStatusOf, SettlementOf, Done, COMPLETED, FAILED
<1>2. st = FAILED => sp[n] = "failed"
  BY DEF MessageTrue, SettleStatus, NodeStatusOf, SettlementOf, SubPlanState, COMPLETED, FAILED
<1>3. st \in {COMPLETED, FAILED}
  BY DEF NodeStatusOf
<1> HIDE DEF st
<1>4. h \in Graph /\ \A m \in AllNodes : h[m] = IF m = n THEN st ELSE g[m]
  BY <1>3 DEF WithNodeStatus, Graph, SubTaskStatus
<1>5. GraphTrue(d, sp, h)
  BY <1>1, <1>2, <1>4 DEF GraphTrue
<1> HIDE DEF h
<1>6. \A m \in ready : m \in Nodes /\ DependenciesDone(d, sp, m)
  BY <1>5 DEF ReadyNodes, CompletedNodeIds, GraphTrue, DependenciesDone, AllNodes
<1>7. \A m \in synth : m \in Synthesizers /\ DependenciesDone(d, sp, m)
  BY <1>5, TaskGraphAssumption
     DEF AllNodesCompleted, CompletedNodeIds, GraphTrue, DependenciesDone, AllNodes
<1>8. \A m \in ready \cup synth : m \in AllNodes /\ DependenciesDone(d, sp, m)
  BY <1>6, <1>7 DEF AllNodes
<1>9. joined => \A m \in Nodes : Done(sp, m)
  BY <1>5 DEF AllNodesCompleted, CompletedNodeIds, GraphTrue, AllNodes
<1>10. joined /\ (\A t \in Synthesizers : h[t] = COMPLETED) => \A m \in AllNodes : Done(sp, m)
  BY <1>5, <1>9 DEF GraphTrue, AllNodes
<1>11. st = COMPLETED /\ n \in Synthesizers => \A m \in AllNodes : Done(sp, m)
  BY <1>1, TaskGraphAssumption DEF DependenciesDone, AllNodes
<1> HIDE DEF ready, synth, joined
<1>12. GraphTrue(d, sp, WithNodeStatus(h, ready \cup synth, RUNNING))
  <2>1. \A m \in AllNodes : WithNodeStatus(h, ready \cup synth, RUNNING)[m]
                            = IF m \in ready \cup synth THEN RUNNING ELSE h[m]
    BY DEF WithNodeStatus
  <2> QED
    BY <1>5, <1>8, <2>1 DEF GraphTrue, PENDING, RUNNING, COMPLETED, FAILED
<1> QED
  BY <1>0, <1>8, <1>10, <1>11, <1>12 DEF st


\* A worker that goes on keeps its message; the others are not touched.
LEMMA ProceedInv ==
    ASSUME inv \in [Workers -> Invocation], NEW w \in Workers, NEW todo, Todo(w) # <<>>, Proceed(w, todo)
    PROVE  /\ \A v \in Workers \ {w} : inv'[v] = inv[v]
           /\ inv[w] # Idle /\ inv[w].msg \in Message
           /\ inv'[w].msg = inv[w].msg
           /\ inv'[w].todo = todo
<1>1. inv[w] # Idle
  BY IdleFacts DEF Todo
<1>2. inv[w] \in [msg : Message, todo : Seq(Effect)]
  BY <1>1 DEF Invocation
<1> QED
  BY <1>1, <1>2 DEF Proceed

\* What a step of worker w does to the invocations: it is handed a message, goes
\* on with its own, or becomes idle.
LEMMA PerformInv ==
    ASSUME inv \in [Workers -> Invocation], NEW w \in Workers, Perform(w) \/ Crash(w)
    PROVE  /\ \A v \in Workers \ {w} : inv'[v] = inv[v]
           /\ inv[w] # Idle
           /\ \/ inv'[w] = Idle
              \/ inv'[w].msg = inv[w].msg
<1>2. CASE Crash(w) \/ End(w)
  BY <1>2 DEF Crash, End
<1>3. CASE ~(Crash(w) \/ End(w))
  <2>1. Todo(w) # <<>> /\ \E todo : Proceed(w, todo)
    BY <1>3 DEF Perform, DoSaveTaskGraph, DoClaimReadyNodes, DoSavePlan, DoSaveResult, DoPatchRun,
                DoEnqueue, NextIs
  <2> QED
    BY <2>1, ProceedInv
<1> QED
  BY <1>2, <1>3

LEMMA InvokeInv ==
    ASSUME inv \in [Workers -> Invocation], NEW w \in Workers, NEW m \in Message, NEW todo,
           Invoke(w, m, todo)
    PROVE  /\ \A v \in Workers \ {w} : inv'[v] = inv[v]
           /\ inv[w] = Idle
           /\ inv'[w] = [msg |-> m, todo |-> todo]
           /\ inv'[w].msg = m /\ inv'[w].todo = todo
           /\ Available(m)
BY DEF Invoke

LEMMA InvokeOneHand ==
    ASSUME Exclusive, TypeInv, OneHand, NEW w \in Workers, NEW m \in Message, NEW todo,
           Invoke(w, m, todo)
    PROVE  OneHand'
<1>1. ASSUME NEW v \in Workers \ {w} PROVE inv[v].msg # m
  <2>1. v # w /\ ~Serial
    BY DEF Serial
  <2>2. Available(m)
    BY InvokeInv DEF TypeInv
  <2>3. ~Redelivery
    BY <2>1 DEF Exclusive
  <2> QED
    BY <2>1, <2>2, <2>3 DEF Available
<1>2. \A v \in Workers \ {w} : inv'[v] = inv[v] /\ inv'[w].msg # inv'[v].msg
  BY <1>1, InvokeInv DEF TypeInv
<1> QED
  BY <1>2 DEF OneHand

LEMMA OneHandStep ==
    ASSUME Exclusive, TypeInv, OneHand, [Next]_vars
    PROVE  OneHand'
<1>1. ASSUME NEW w \in Workers, BeginTrigger(w) PROVE OneHand'
  BY <1>1, InvokeOneHand, MessageTypes DEF BeginTrigger
<1>2. ASSUME NEW w \in Workers, NEW n \in AllNodes, BeginTask(w, n) PROVE OneHand'
  BY <1>2, InvokeOneHand, MessageTypes DEF BeginTask
<1>3. ASSUME NEW w \in Workers, NEW n \in AllNodes, NEW s \in SettleStatus, BeginCompleted(w, n, s)
      PROVE  OneHand'
  BY <1>3, InvokeOneHand, MessageTypes DEF BeginCompleted
<1>4. ASSUME NEW w \in Workers, Perform(w) \/ Crash(w) PROVE OneHand'
  <2>1. /\ \A v \in Workers \ {w} : inv'[v] = inv[v]
        /\ inv[w] # Idle
        /\ inv'[w] = Idle \/ inv'[w].msg = inv[w].msg
    BY <1>4, PerformInv DEF TypeInv
  <2>2. \A v \in Workers : inv[v] # Idle => inv[v].msg \in Message
    BY DEF TypeInv, TypeOK
  <2> QED
    BY <2>1, <2>2, IdleFacts DEF OneHand
<1>5. CASE UNCHANGED inv
  BY <1>5 DEF OneHand
<1> QED
  BY <1>1, <1>2, <1>3, <1>4, <1>5 DEF Next, SubPlanSettles, vars


\* No message is ever dropped: it leaves the queue when it was handled.
LEMMA QueueGrows ==
    ASSUME [Next]_vars
    PROVE  pending \cup delivered \subseteq pending' \cup delivered'
<1>1. ASSUME NEW w \in Workers, Perform(w) PROVE pending \cup delivered \subseteq pending' \cup delivered'
  <2>1. CASE End(w)
    BY <2>1 DEF End
  <2>2. CASE ~End(w)
    BY <1>1, <2>2 DEF Perform, DoSaveTaskGraph, DoClaimReadyNodes, DoSavePlan, DoSaveResult,
                      DoPatchRun, DoEnqueue
  <2> QED
    BY <2>1, <2>2
<1>2. ASSUME NEW n \in AllNodes, SubPlanSettles(n) PROVE pending \cup delivered \subseteq pending' \cup delivered'
  BY <1>2 DEF SubPlanSettles
<1> QED
  BY <1>1, <1>2 DEF Next, vars, BeginTrigger, BeginTask, BeginCompleted, Invoke, Crash

LEMMA InQueueStep ==
    ASSUME TypeInv, InQueue, [Next]_vars
    PROVE  InQueue'
<1>1. pending \cup delivered \subseteq pending' \cup delivered'
  BY QueueGrows
<1>2. ASSUME NEW w \in Workers, NEW m \in Message, NEW todo, Invoke(w, m, todo) PROVE InQueue'
  BY <1>1, <1>2, InvokeInv DEF InQueue, TypeInv, Available, Deliverable
<1>3. ASSUME NEW w \in Workers, Perform(w) \/ Crash(w) PROVE InQueue'
  BY <1>1, <1>3, PerformInv DEF InQueue, TypeInv, Deliverable
<1>4. CASE UNCHANGED inv
  BY <1>1, <1>4 DEF InQueue, Deliverable
<1> QED
  BY <1>2, <1>3, <1>4, MessageTypes DEF Next, vars, BeginTrigger, BeginTask, BeginCompleted, SubPlanSettles

LEMMA InitTruth == Init => TruthInv
<1> SUFFICES ASSUME Init PROVE TruthInv
  OBVIOUS
<1>1. TypeInv
  BY InitTypeInv
<1>2. \A w \in Workers : inv[w] = Idle
  BY DEF Init
<1>3. OneHand /\ InQueue
  BY <1>2 DEF OneHand, InQueue
<1>4. GraphTrue(dependsOn, subPlan, graph)
  BY DEF Init, GraphTrue, NewGraph, PENDING, COMPLETED, FAILED
<1>5. \A m \in pending \cup delivered : MessageTrue(dependsOn, subPlan, m)
  BY MessagesDistinct DEF Init, MessageTrue
<1>6. \A w \in Workers : TodoTrue(dependsOn, subPlan, inv[w].msg, inv[w].todo)
  BY <1>2, IdleFacts DEF TodoTrue
<1> QED
  BY <1>1, <1>3, <1>4, <1>5, <1>6 DEF Init, TruthInv, Truthful, CompletedIsEarned

\* A step of worker w that leaves the sub-plans alone.
LEMMA TruthfulStep ==
    ASSUME TruthInv, UNCHANGED <<dependsOn, subPlan>>,
           NEW w \in Workers, \A v \in Workers \ {w} : inv'[v] = inv[v],
           TodoTrue(dependsOn, subPlan, inv'[w].msg, inv'[w].todo),
           GraphTrue(dependsOn, subPlan, graph'),
           \A m \in pending' \cup delivered' : MessageTrue(dependsOn, subPlan, m),
           run' = "completed" => run = "completed" \/ \A n \in AllNodes : Done(subPlan, n)
    PROVE  Truthful'
<1>1. \A v \in Workers : TodoTrue(dependsOn, subPlan, inv'[v].msg, inv'[v].todo)
  BY DEF TruthInv, Truthful
<1>2. (\A v \in Workers : TodoTrue(dependsOn, subPlan, inv[v].msg, inv[v].todo))'
  BY <1>1
<1>3. CompletedIsEarned'
  BY DEF TruthInv, Truthful, CompletedIsEarned, Done
<1> QED
  BY <1>2, <1>3 DEF TruthInv, Truthful

LEMMA TriggerTruth ==
    ASSUME TruthInv, NEW w \in Workers, BeginTrigger(w)
    PROVE  Truthful'
<1>1. /\ \A v \in Workers \ {w} : inv'[v] = inv[v]
      /\ inv'[w].todo = TriggerEffects
  BY InvokeInv, MessageTypes DEF BeginTrigger, TruthInv, TypeInv
<1>2. GraphTrue(dependsOn, subPlan, NewGraph)
  BY DEF GraphTrue, NewGraph, PENDING, COMPLETED, FAILED
<1>3. TodoTrue(dependsOn, subPlan, inv'[w].msg, TriggerEffects)
  <2>1. CASE TriggerEffects = <<>>
    BY <2>1 DEF TodoTrue
  <2>2. CASE TriggerEffects = <<SaveTaskGraph(NewGraph), ClaimReadyNodes>>
    BY <1>2, <2>2 DEF TodoTrue, EffectTrue, SaveTaskGraph, ClaimReadyNodes
  <2> QED
    BY <2>1, <2>2 DEF TriggerEffects, If
<1> QED
  BY <1>1, <1>3, TruthfulStep DEF BeginTrigger, Invoke, TruthInv, Truthful

\* What a task event enqueues agrees with the sub-plan it was read from.
LEMMA ContinuationTrue ==
    ASSUME NEW d, NEW sp \in [AllNodes -> SubPlanState], NEW n \in AllNodes, sp[n] # "none"
    PROVE  \A m \in Continuation(n, sp[n]) : MessageTrue(d, sp, m)
BY MessagesDistinct DEF Continuation, MessageTrue

LEMMA TaskTruth ==
    ASSUME TruthInv, NEW w \in Workers, NEW n \in AllNodes, BeginTask(w, n)
    PROVE  Truthful'
<1>1. PICK todo \in TaskEffects(n) : Invoke(w, Task(n), todo)
  BY DEF BeginTask
<1>2. /\ \A v \in Workers \ {w} : inv'[v] = inv[v]
      /\ inv'[w].msg = Task(n) /\ inv'[w].todo = todo
      /\ Available(Task(n))
  BY <1>1, InvokeInv, MessageTypes DEF TruthInv, TypeInv
<1>3. DependenciesDone(dependsOn, subPlan, n)
  BY <1>2 DEF Available, Deliverable, TruthInv, Truthful, MessageTrue
<1>4. TodoTrue(dependsOn, subPlan, Task(n), todo)
  <2>1. CASE todo = <<>>
    BY <2>1 DEF TodoTrue
  <2>2. CASE subPlan[n] # "none" /\ todo = <<Enqueue(Continuation(n, subPlan[n]))>>
    <3>1. \A m \in Continuation(n, subPlan[n]) : MessageTrue(dependsOn, subPlan, m)
      BY <2>2, ContinuationTrue DEF TruthInv, TypeInv, TypeOK
    <3> QED
      BY <2>2, <3>1 DEF TodoTrue, EffectTrue, Enqueue
  <2>3. ASSUME NEW p \in {"open", "empty"}, subPlan[n] = "none",
               todo = <<SavePlan(n, p, results), Enqueue(Continuation(n, p))>>
        PROVE  TodoTrue(dependsOn, subPlan, Task(n), todo)
    <3>1. AfterSave(todo) = Continuation(n, p)
      BY <2>3 DEF AfterSave, First, SavePlan
    <3>2. EffectTrue(dependsOn, subPlan, Task(n), SavePlan(n, p, results), Continuation(n, p))
      BY <1>3, <2>3 DEF EffectTrue, SavePlan
    <3>3. EffectTrue(dependsOn, subPlan, Task(n), Enqueue(Continuation(n, p)), Continuation(n, p))
      BY DEF EffectTrue, Enqueue
    <3>4. Enqueue(Continuation(n, p)).op # "save_plan"
      BY DEF Enqueue
    <3> QED
      BY <2>3, <3>1, <3>2, <3>3, <3>4 DEF TodoTrue
  <2> QED
    BY <2>1, <2>2, <2>3 DEF TaskEffects
<1> QED
  BY <1>1, <1>2, <1>4, TruthfulStep DEF BeginTask, Invoke, TruthInv, Truthful

LEMMA CompletedTruth ==
    ASSUME TruthInv, NEW w \in Workers, NEW n \in AllNodes, NEW s \in SettleStatus,
           BeginCompleted(w, n, s)
    PROVE  Truthful'
<1> DEFINE adv == PlanAdvance(dependsOn, graph, n, NodeStatusOf(s))
           todo == CompletedEffects(n, s)
<1>0. inv \in [Workers -> Invocation] /\ Settled(n, s) \in Message /\ Invoke(w, Settled(n, s), todo)
  BY MessageTypes DEF BeginCompleted, TruthInv, TypeInv
<1>1. /\ \A v \in Workers \ {w} : inv'[v] = inv[v]
      /\ inv'[w].todo = todo
      /\ Available(Settled(n, s))
  <2> HIDE DEF todo
  <2> QED
    BY <1>0, InvokeInv
<1>2. /\ MessageTrue(dependsOn, subPlan, Settled(n, s))
      /\ DependenciesDone(dependsOn, subPlan, n)
  BY <1>1 DEF Available, Deliverable, TruthInv, Truthful, MessageTrue
<1>3. TodoTrue(dependsOn, subPlan, inv'[w].msg, todo)
  <2>1. CASE todo = <<>>
    BY <2>1 DEF TodoTrue
  <2>2. CASE s # "waiting_for_approval" /\ todo = AdvanceEffects(n, s, adv)
    <3>1. /\ dependsOn \in Dependencies /\ graph \in Graph
          /\ subPlan \in [AllNodes -> SubPlanState]
          /\ NodeStatusOf(s) \in {COMPLETED, FAILED}
      BY DEF TruthInv, TypeInv, TypeOK, NodeStatusOf
    <3>2. /\ adv.graph \in Graph
          /\ adv.newlyReady \cup adv.dispatchSynthesizer \subseteq AllNodes
      BY <3>1, AdvanceTypes DEF AllNodes
    <3>3. /\ GraphTrue(dependsOn, subPlan, adv.graph)
          /\ \A m \in adv.newlyReady \cup adv.dispatchSynthesizer : DependenciesDone(dependsOn, subPlan, m)
          /\ adv.runCompleted => \A m \in AllNodes : Done(subPlan, m)
      <4>1. s \in {"completed", "failed"} /\ GraphTrue(dependsOn, subPlan, graph)
        BY <2>2 DEF SettleStatus, TruthInv, Truthful
      <4> QED
        BY <1>2, <3>1, <4>1, PlanAdvanceTrue
    <3> HIDE DEF adv
    <3> DEFINE tasks == {Task(m) : m \in adv.newlyReady \cup adv.dispatchSynthesizer}
    <3>4. tasks \subseteq Message /\ \A m \in tasks : MessageTrue(dependsOn, subPlan, m)
      BY <3>2, <3>3, MessageTypes, MessagesDistinct DEF MessageTrue
    <3>5. \A i \in 1 .. Len(todo) :
             LET e == todo[i]
             IN  \/ i = 1 /\ e = SaveTaskGraph(adv.graph)
                 \/ i > 1 /\ \/ n \in Nodes /\ e = SaveResult(n)
                             \/ e = Enqueue(tasks)
                             \/ adv.runCompleted /\ e = PatchRun("completed")
                             \/ (adv.blocked \/ adv.runFailed) /\ e = PatchRun("failed")
      BY <2>2, <3>2, <3>4, AdvanceElements
    <3> HIDE DEF tasks, todo
    <3> SUFFICES ASSUME NEW i \in 1 .. Len(todo)
                 PROVE  /\ EffectTrue(dependsOn, subPlan, inv'[w].msg, todo[i], AfterSave(todo))
                        /\ todo[i].op = "save_plan" => i = 1
      BY DEF TodoTrue
    <3>6. CASE todo[i] = SaveTaskGraph(adv.graph)
      BY <3>3, <3>6 DEF EffectTrue, SaveTaskGraph
    <3>7. CASE todo[i] = SaveResult(n)
      BY <3>7 DEF EffectTrue, SaveResult
    <3>8. CASE todo[i] = Enqueue(tasks)
      BY <3>4, <3>8 DEF EffectTrue, Enqueue
    <3>9. CASE adv.runCompleted /\ todo[i] = PatchRun("completed")
      BY <3>3, <3>9 DEF EffectTrue, PatchRun
    <3>10. CASE todo[i] = PatchRun("failed")
      BY <3>10 DEF EffectTrue, PatchRun
    <3> QED
      BY <3>5, <3>6, <3>7, <3>8, <3>9, <3>10
  <2> QED
    BY <2>1, <2>2 DEF CompletedEffects, If
<1> HIDE DEF todo
<1> QED
  BY <1>1, <1>3, TruthfulStep DEF BeginCompleted, Invoke, TruthInv, Truthful

\* Saving the sub-plan makes the messages true that follow it.
LEMMA SavePlanTrue ==
    ASSUME NEW d \in Dependencies, NEW p \in [AllNodes -> SubPlanState], NEW msg,
           NEW todo \in Seq(Effect), First(todo, "save_plan"), TodoTrue(d, p, msg, todo)
    PROVE  TodoTrue(d, [p EXCEPT ![Head(todo).node] = Head(todo).plan], msg, Tail(todo))
<1> DEFINE n == Head(todo).node
           q == [p EXCEPT ![n] = Head(todo).plan]
<1>1. /\ Tail(todo) \in Seq(Effect) /\ Len(Tail(todo)) = Len(todo) - 1
      /\ \A i \in 1 .. Len(Tail(todo)) : Tail(todo)[i] = todo[i + 1] /\ i + 1 \in 1 .. Len(todo)
      /\ Len(todo) \in Nat /\ Head(todo) = todo[1] /\ 1 \in 1 .. Len(todo)
  BY HeadTailProperties DEF First
<1>2. n \in AllNodes /\ Head(todo).plan \in {"open", "empty"} /\ p[n] = "none"
  <2>1. Head(todo) \in Effect /\ Head(todo).op = "save_plan"
    BY <1>1 DEF First
  <2>2. EffectTrue(d, p, msg, Head(todo), AfterSave(todo))
    BY <1>1 DEF TodoTrue
  <2> QED
    BY <2>1, <2>2, EffectFields DEF EffectTrue
<1>3. q \in [AllNodes -> SubPlanState] /\ q[n] = Head(todo).plan /\ q[n] # "none"
  BY <1>2 DEF SubPlanState
<1>4. \A m \in AllNodes : p[m] \notin {"none", "open"} => q[m] = p[m]
  BY <1>2
<1>5. AfterSave(todo) = Continuation(n, q[n])
  BY <1>3 DEF AfterSave
<1> HIDE DEF q, n
<1>6. \A m \in AfterSave(todo) : MessageTrue(d, q, m)
  BY <1>2, <1>3, <1>5, ContinuationTrue
<1>7. ASSUME NEW i \in 2 .. Len(todo) PROVE EffectTrue(d, q, msg, todo[i], {}) /\ todo[i].op # "save_plan"
  <2>1. EffectTrue(d, p, msg, todo[i], AfterSave(todo)) /\ todo[i].op # "save_plan"
    BY DEF TodoTrue
  <2> QED
    BY <2>1, <1>3, <1>4, <1>6, TruthStable DEF EffectTrue
<1>8. \A i \in 1 .. Len(Tail(todo)) : EffectTrue(d, q, msg, Tail(todo)[i], {}) /\ Tail(todo)[i].op # "save_plan"
  BY <1>1, <1>7
<1>9. AfterSave(Tail(todo)) = {}
  <2>1. Tail(todo) # <<>> => Head(Tail(todo)).op # "save_plan"
    BY <1>1, <1>8, HeadIsFirst
  <2> QED
    BY <2>1 DEF AfterSave, First
<1> QED
  BY <1>8, <1>9 DEF TodoTrue, q, n

\* Enqueueing one event of a batch leaves the rest of the batch true.
LEMMA EnqueueTrue ==
    ASSUME NEW d, NEW sp, NEW msg, NEW todo \in Seq(Effect), First(todo, "enqueue"),
           TodoTrue(d, sp, msg, todo), NEW m \in Head(todo).msgs
    PROVE  /\ MessageTrue(d, sp, m)
           /\ LET left == Head(todo).msgs \ {m}
              IN  TodoTrue(d, sp, msg, If(left # {}, <<Enqueue(left)>>) \o Tail(todo))
<1> DEFINE left == Head(todo).msgs \ {m}
           rest == Tail(todo)
<1>1. rest \in Seq(Effect) /\ todo # <<>> /\ Head(todo) \in Effect /\ Head(todo) = todo[1]
      /\ 1 \in 1 .. Len(todo)
  BY HeadTailProperties DEF First
<1>2. TodoTrue(d, sp, msg, rest)
  BY <1>1, TailTrue DEF First
<1>3. AfterSave(todo) = {} /\ Head(todo).op = "enqueue"
  BY DEF AfterSave, First
<1>4. \A k \in Head(todo).msgs : MessageTrue(d, sp, k)
  BY <1>1, <1>3 DEF TodoTrue, EffectTrue
<1>5. \A i \in 1 .. Len(rest) : EffectTrue(d, sp, msg, rest[i], {}) /\ rest[i].op # "save_plan"
  <2>1. \A i \in 2 .. Len(todo) : EffectTrue(d, sp, msg, todo[i], {}) /\ todo[i].op # "save_plan"
    BY <1>3 DEF TodoTrue
  <2> QED
    BY <2>1, <1>1, HeadTailProperties
<1>6. CASE left = {}
  <2>1. If(left # {}, <<Enqueue(left)>>) \o rest = rest
    BY <1>1, <1>6, ConcatEmptySeq DEF If
  <2> QED
    BY <1>2, <1>4, <2>1
<1>7. CASE left # {}
  <2> DEFINE all == <<Enqueue(left)>> \o rest
  <2>1. <<Enqueue(left)>> \in Seq(Effect)
    BY <1>1, <1>3, EffectFields, EffectTypes
  <2>2. Enqueue(left).op = "enqueue" /\ EffectTrue(d, sp, msg, Enqueue(left), {})
    BY <1>4 DEF Enqueue, EffectTrue
  <2>3. all \in Seq(Effect) /\ Len(all) = 1 + Len(rest) /\ Len(rest) \in Nat
    BY <1>1, <2>1, ConcatProperties
  <2>4. \A i \in 1 .. Len(all) : EffectTrue(d, sp, msg, all[i], {}) /\ all[i].op # "save_plan"
    <3>1. \A i \in 1 .. Len(<<Enqueue(left)>>) : <<Enqueue(left)>>[i] = Enqueue(left)
      OBVIOUS
    <3> DEFINE one == <<Enqueue(left)>>
    <3>2. \A i \in 1 .. Len(one) : EffectTrue(d, sp, msg, one[i], {}) /\ one[i].op # "save_plan"
      BY <2>2, <3>1
    <3> HIDE DEF left, rest, one
    <3> SUFFICES ASSUME NEW i \in 1 .. Len(one \o rest)
                 PROVE  EffectTrue(d, sp, msg, (one \o rest)[i], {}) /\ (one \o rest)[i].op # "save_plan"
      BY DEF one
    <3>3. one \in Seq(Effect)
      BY <2>1 DEF one
    <3>4. \/ i \in 1 .. Len(one) /\ (one \o rest)[i] = one[i]
          \/ i - Len(one) \in 1 .. Len(rest) /\ (one \o rest)[i] = rest[i - Len(one)]
      BY <1>1, <3>3, ConcatElement
    <3> QED
      BY <1>5, <3>2, <3>4
  <2>5. AfterSave(all) = {}
    <3> HIDE DEF all
    <3>1. all # <<>> => Head(all).op # "save_plan"
      BY <2>3, <2>4, HeadIsFirst
    <3> QED
      BY <3>1 DEF AfterSave, First
  <2>6. TodoTrue(d, sp, msg, all)
    BY <2>4, <2>5 DEF TodoTrue
  <2> QED
    BY <1>4, <1>7, <2>6 DEF If
<1> QED
  BY <1>6, <1>7

LEMMA PerformTruth ==
    ASSUME TruthInv, NEW w \in Workers, Perform(w) \/ Crash(w)
    PROVE  Truthful'
<1> DEFINE todo == Todo(w)
           e == Head(todo)
           d == dependsOn
           sp == subPlan
<1>1. /\ inv \in [Workers -> Invocation] /\ todo \in Seq(Effect)
      /\ d \in Dependencies /\ sp \in [AllNodes -> SubPlanState] /\ graph \in Graph
      /\ results \in SUBSET Nodes
  BY InvocationTypes DEF TruthInv, TypeInv, TypeOK
<1>2. /\ TodoTrue(d, sp, inv[w].msg, todo)
      /\ GraphTrue(d, sp, graph)
      /\ \A m \in pending \cup delivered : MessageTrue(d, sp, m)
  BY DEF TruthInv, Truthful, Todo
<1>3. todo # <<>> => e = todo[1] /\ 1 \in 1 .. Len(todo) /\ e \in Effect
  BY <1>1
<1>4. todo # <<>> => EffectTrue(d, sp, inv[w].msg, e, AfterSave(todo))
  BY <1>2, <1>3 DEF TodoTrue
<1>5. todo # <<>> /\ e.op # "save_plan" => TodoTrue(d, sp, inv[w].msg, Tail(todo))
  BY <1>1, <1>2, TailTrue
<1>6. \A v \in Workers \ {w} : inv'[v] = inv[v]
  BY <1>1, PerformInv
<1>7. \A new : todo # <<>> /\ Proceed(w, new) => inv'[w].msg = inv[w].msg /\ inv'[w].todo = new
  BY <1>1, ProceedInv
<1>8. TodoTrue(d, sp, Idle.msg, Idle.todo)
  BY IdleFacts DEF TodoTrue
<1> HIDE DEF todo, e
<1>a. CASE DoSaveTaskGraph(w)
  <2>1. todo # <<>> /\ e.op = "save_task_graph" /\ Proceed(w, Tail(todo)) /\ graph' = e.graph
    BY <1>a DEF DoSaveTaskGraph, NextIs, todo, e
  <2>2. TodoTrue(d, sp, inv'[w].msg, inv'[w].todo)
    BY <1>5, <1>7, <2>1
  <2>3. GraphTrue(d, sp, graph')
    BY <1>4, <2>1 DEF EffectTrue
  <2> QED
    BY <1>2, <1>6, <1>a, <2>2, <2>3, TruthfulStep DEF DoSaveTaskGraph
<1>b. CASE DoClaimReadyNodes(w)
  <2>1. todo # <<>> /\ Proceed(w, ClaimEffects)
    BY <1>b DEF DoClaimReadyNodes, NextIs, todo
  <2>2. TodoTrue(d, sp, inv[w].msg, ClaimEffects)
    <3> DEFINE ready == ReadyNodes(d, graph)
               tasks == {Task(n) : n \in ready}
    <3>1. \A n \in ready : n \in Nodes /\ DependenciesDone(d, sp, n)
      BY <1>2 DEF ReadyNodes, CompletedNodeIds, GraphTrue, DependenciesDone, AllNodes
    <3>2. GraphTrue(d, sp, ClaimReady(d, graph))
      <4>1. \A n \in AllNodes : ClaimReady(d, graph)[n] = IF n \in ready THEN RUNNING ELSE graph[n]
        BY DEF ClaimReady, WithNodeStatus
      <4> HIDE DEF ready
      <4> QED
        BY <1>2, <3>1, <4>1 DEF GraphTrue, PENDING, RUNNING, COMPLETED, FAILED
    <3>3. \A m \in tasks : MessageTrue(d, sp, m)
      BY <3>1, MessagesDistinct DEF MessageTrue, AllNodes
    <3>4. CASE ClaimEffects = <<PatchRun("failed")>>
      BY <3>4 DEF TodoTrue, EffectTrue, PatchRun
    <3>5. CASE ClaimEffects = <<SaveTaskGraph(ClaimReady(d, graph)), Enqueue(tasks)>>
      <4> HIDE DEF tasks
      <4>1. /\ \A after : EffectTrue(d, sp, inv[w].msg, SaveTaskGraph(ClaimReady(d, graph)), after)
            /\ SaveTaskGraph(ClaimReady(d, graph)).op # "save_plan"
        BY <3>2 DEF EffectTrue, SaveTaskGraph
      <4>2. /\ \A after : EffectTrue(d, sp, inv[w].msg, Enqueue(tasks), after)
            /\ Enqueue(tasks).op # "save_plan"
        BY <3>3 DEF EffectTrue, Enqueue
      <4> QED
        BY <3>5, <4>1, <4>2 DEF TodoTrue
    <3> QED
      BY <3>4, <3>5 DEF ClaimEffects
  <2> QED
    BY <1>2, <1>6, <1>7, <1>b, <2>1, <2>2, TruthfulStep DEF DoClaimReadyNodes, store
<1>c. CASE DoSavePlan(w)
  <2> DEFINE q == subPlan'
             n == e.node
  <2>1. /\ First(todo, "save_plan") /\ Proceed(w, Tail(todo)) /\ todo # <<>>
        /\ q = [sp EXCEPT ![n] = e.plan]
    BY <1>c DEF DoSavePlan, NextIs, First, todo, e
  <2>2. TodoTrue(d, q, inv'[w].msg, inv'[w].todo)
    <3>1. TodoTrue(d, [sp EXCEPT ![Head(todo).node] = Head(todo).plan], inv[w].msg, Tail(todo))
      BY <1>1, <1>2, <2>1, SavePlanTrue
    <3> QED
      BY <1>7, <2>1, <3>1 DEF e
  <2>3. /\ n \in AllNodes /\ sp[n] = "none" /\ inv[w].msg = Task(n)
        /\ DependenciesDone(d, sp, n)
    BY <1>3, <1>4, <2>1, EffectFields DEF First, EffectTrue, e
  <2>4. \A m \in AllNodes : m # n => q[m] = sp[m]
    BY <1>1, <2>1, <2>3
  <2>5. \A m \in AllNodes : sp[m] \notin {"none", "open"} => q[m] = sp[m]
    BY <2>3, <2>4
  <2> HIDE DEF q
  <2>6. ASSUME NEW v \in Workers \ {w} PROVE TodoTrue(d, q, inv[v].msg, inv[v].todo)
    <3>1. inv[v].todo \in Seq(Effect) /\ TodoTrue(d, sp, inv[v].msg, inv[v].todo)
      BY <1>1, InvocationTypes DEF Todo, TruthInv, Truthful
    <3>2. First(inv[v].todo, "save_plan") => q[Head(inv[v].todo).node] = "none"
      <4> SUFFICES ASSUME First(inv[v].todo, "save_plan") PROVE q[Head(inv[v].todo).node] = "none"
        OBVIOUS
      <4> DEFINE f == Head(inv[v].todo)
      <4>1. /\ f \in Effect /\ f = inv[v].todo[1] /\ 1 \in 1 .. Len(inv[v].todo)
            /\ f.op = "save_plan" /\ inv[v].todo # <<>>
        BY <3>1 DEF First
      <4>2. inv[v].msg = Task(f.node) /\ sp[f.node] = "none" /\ f.node \in AllNodes
        BY <3>1, <4>1, EffectFields DEF TodoTrue, EffectTrue
      <4>3. inv[v] # Idle
        BY <4>1, IdleFacts
      <4>4. inv[v].msg # inv[w].msg
        BY <4>3 DEF TruthInv, OneHand
      <4>5. f.node # n
        BY <2>3, <4>2, <4>4
      <4> QED
        BY <2>4, <4>2, <4>5
    <3> QED
      BY <1>1, <2>5, <3>1, <3>2, TodoStable
  <2>7. \A v \in Workers : TodoTrue(d, q, inv'[v].msg, inv'[v].todo)
    BY <1>6, <2>2, <2>6
  <2>8. GraphTrue(d, q, graph) /\ \A m \in pending \cup delivered : MessageTrue(d, q, m)
    BY <1>1, <1>2, <2>5, TruthStable
  <2>9. \A m \in AllNodes : q[m] # "none" => DependenciesDone(d, q, m)
    <3>1. \A m \in AllNodes : q[m] # "none" => DependenciesDone(d, sp, m)
      BY <2>3, <2>4 DEF TruthInv, Truthful
    <3> QED
      BY <1>1, <2>5, <3>1, TruthStable
  <2>10. run = "completed" => \A m \in AllNodes : Done(q, m)
    <3>1. run = "completed" => \A m \in AllNodes : Done(sp, m)
      BY DEF TruthInv, Truthful, CompletedIsEarned, Done
    <3> QED
      BY <1>1, <2>5, <3>1, TruthStable
  <2>11. UNCHANGED <<dependsOn, graph, run, pending, delivered>>
    BY <1>c DEF DoSavePlan
  <2>12. CompletedIsEarned'
    BY <2>10, <2>11 DEF CompletedIsEarned, Done, q
  <2>13. (\A v \in Workers : TodoTrue(dependsOn, subPlan, inv[v].msg, inv[v].todo))'
    BY <2>7, <2>11 DEF q
  <2> QED
    BY <2>8, <2>9, <2>11, <2>12, <2>13 DEF Truthful, q
<1>d. CASE DoSaveResult(w)
  <2>1. todo # <<>> /\ e.op # "save_plan" /\ Proceed(w, Tail(todo))
    BY <1>d DEF DoSaveResult, NextIs, todo, e
  <2> QED
    BY <1>2, <1>5, <1>6, <1>7, <1>d, <2>1, TruthfulStep DEF DoSaveResult
<1>e. CASE DoPatchRun(w)
  <2>1. todo # <<>> /\ e.op = "update_agent_run_status" /\ Proceed(w, Tail(todo)) /\ run' = e.status
    BY <1>e DEF DoPatchRun, NextIs, todo, e
  <2>2. run' = "completed" => \A n \in AllNodes : Done(sp, n)
    BY <1>4, <2>1 DEF EffectTrue
  <2> QED
    BY <1>2, <1>5, <1>6, <1>7, <1>e, <2>1, <2>2, TruthfulStep DEF DoPatchRun
<1>f. CASE DoEnqueue(w)
  <2>1. PICK m \in e.msgs :
           /\ pending' = pending \cup {m}
           /\ Proceed(w, If(e.msgs \ {m} # {}, <<Enqueue(e.msgs \ {m})>>) \o Tail(todo))
    BY <1>f DEF DoEnqueue, todo, e
  <2>2. First(todo, "enqueue")
    BY <1>f DEF DoEnqueue, NextIs, First, todo
  <2>3. /\ MessageTrue(d, sp, m)
        /\ TodoTrue(d, sp, inv[w].msg, If(e.msgs \ {m} # {}, <<Enqueue(e.msgs \ {m})>>) \o Tail(todo))
    BY <1>1, <1>2, <2>2, EnqueueTrue DEF e
  <2>4. TodoTrue(d, sp, inv'[w].msg, inv'[w].todo)
    BY <1>7, <2>1, <2>2, <2>3 DEF First
  <2>5. \A k \in pending' \cup delivered' : MessageTrue(d, sp, k)
    BY <1>2, <1>f, <2>1, <2>3 DEF DoEnqueue
  <2> QED
    BY <1>2, <1>6, <1>f, <2>4, <2>5, TruthfulStep DEF DoEnqueue, store
<1>g. CASE End(w)
  <2>1. inv'[w] = Idle /\ inv[w] # Idle
    BY <1>1, <1>g DEF End
  <2>2. \A k \in pending' \cup delivered' : MessageTrue(d, sp, k)
    <3>1. MessageTrue(d, sp, inv[w].msg)
      BY <1>2, <2>1 DEF TruthInv, InQueue, Deliverable
    <3> QED
      BY <1>2, <1>g, <3>1 DEF End
  <2> QED
    BY <1>2, <1>6, <1>8, <1>g, <2>1, <2>2, TruthfulStep DEF End, store
<1>h. CASE Crash(w)
  <2>1. inv'[w] = Idle
    BY <1>1, <1>h DEF Crash
  <2> QED
    BY <1>2, <1>6, <1>8, <1>h, <2>1, TruthfulStep DEF Crash, store
<1> QED
  BY <1>a, <1>b, <1>c, <1>d, <1>e, <1>f, <1>g, <1>h DEF Perform

LEMMA SettlesTruth ==
    ASSUME TruthInv, NEW n \in AllNodes, SubPlanSettles(n)
    PROVE  Truthful'
<1> DEFINE d == dependsOn
           sp == subPlan
           q == subPlan'
<1>1. /\ inv \in [Workers -> Invocation]
      /\ d \in Dependencies /\ sp \in [AllNodes -> SubPlanState]
      /\ UNCHANGED <<dependsOn, graph, run, inv>>
  BY DEF TruthInv, TypeInv, TypeOK, SubPlanSettles
<1>2. /\ \A m \in AllNodes : sp[m] # "open" => q[m] = sp[m]
      /\ \A m \in AllNodes : q[m] = "none" <=> sp[m] = "none"
  BY <1>1 DEF SubPlanSettles, SettleStatus
<1>3. \A m \in pending' \cup delivered' :
         \/ m \in pending \cup delivered
         \/ m = Action(n)
         \/ \E s \in SettleStatus : m = Settled(n, s) /\ q[n] = s
  BY <1>1 DEF SubPlanSettles, SettleStatus
<1> HIDE DEF q
<1>4. \A m \in AllNodes : sp[m] \notin {"none", "open"} => q[m] = sp[m]
  BY <1>2
<1>5. GraphTrue(d, q, graph)
  BY <1>1, <1>4, TruthStable DEF TruthInv, Truthful
<1>6. \A m \in AllNodes : q[m] # "none" => DependenciesDone(d, q, m)
  BY <1>1, <1>2, <1>4, TruthStable DEF TruthInv, Truthful
<1>7. \A m \in pending' \cup delivered' : MessageTrue(d, q, m)
  <2>1. \A m \in pending \cup delivered : MessageTrue(d, q, m)
    BY <1>1, <1>4, TruthStable DEF TruthInv, Truthful
  <2>2. MessageTrue(d, q, Action(n))
    BY MessagesDistinct DEF MessageTrue
  <2>3. \A s \in SettleStatus : q[n] = s => MessageTrue(d, q, Settled(n, s))
    BY MessagesDistinct DEF MessageTrue, SettlementOf, SettleStatus
  <2> QED
    BY <1>3, <2>1, <2>2, <2>3
<1>8. ASSUME NEW v \in Workers PROVE TodoTrue(d, q, inv[v].msg, inv[v].todo)
  <2>1. inv[v].todo \in Seq(Effect) /\ TodoTrue(d, sp, inv[v].msg, inv[v].todo)
    BY <1>1, InvocationTypes DEF Todo, TruthInv, Truthful
  <2>2. First(inv[v].todo, "save_plan") => q[Head(inv[v].todo).node] = "none"
    <3> SUFFICES ASSUME First(inv[v].todo, "save_plan") PROVE q[Head(inv[v].todo).node] = "none"
      OBVIOUS
    <3> DEFINE f == Head(inv[v].todo)
    <3>1. f \in Effect /\ f = inv[v].todo[1] /\ 1 \in 1 .. Len(inv[v].todo) /\ f.op = "save_plan"
      BY <2>1, HeadIsFirst DEF First
    <3>2. sp[f.node] = "none" /\ f.node \in AllNodes
      BY <2>1, <3>1, EffectFields DEF TodoTrue, EffectTrue
    <3> QED
      BY <1>2, <3>2
  <2> QED
    BY <1>1, <1>4, <2>1, <2>2, TodoStable
<1>9. (\A v \in Workers : TodoTrue(dependsOn, subPlan, inv[v].msg, inv[v].todo))'
  BY <1>1, <1>8 DEF q
<1>10. CompletedIsEarned'
  <2>1. run = "completed" => \A m \in AllNodes : Done(q, m)
    BY <1>1, <1>4, TruthStable DEF TruthInv, Truthful, CompletedIsEarned, Done
  <2> QED
    BY <1>1, <2>1 DEF CompletedIsEarned, Done, q
<1> QED
  BY <1>1, <1>5, <1>6, <1>7, <1>9, <1>10 DEF Truthful, q

LEMMA NextTruth ==
    ASSUME Exclusive, TruthInv, [Next]_vars
    PROVE  TruthInv'
<1>1. TypeInv' /\ OneHand' /\ InQueue'
  BY NextTypeInv, OneHandStep, InQueueStep DEF TruthInv
<1>2. CASE UNCHANGED vars
  <2>1. Truthful'
    BY <1>2 DEF TruthInv, Truthful, CompletedIsEarned, vars, store
  <2> QED
    BY <1>1, <2>1 DEF TruthInv
<1>3. Truthful'
  BY <1>2, TriggerTruth, TaskTruth, CompletedTruth, PerformTruth, SettlesTruth DEF Next, TruthInv
<1> QED
  BY <1>1, <1>3 DEF TruthInv

LEMMA TruthInvariant == Exclusive => (Spec => []TruthInv)
<1> SUFFICES ASSUME Exclusive PROVE Spec => []TruthInv
  OBVIOUS
<1>1. TruthInv /\ [Next]_vars => TruthInv'
  BY NextTruth
<1> QED
  BY <1>1, InitTruth, PTL DEF Spec

\* No node is planned before the sub-plans of its dependencies have run to their
\* end, whatever crashed and was delivered again: _handle_task of the domain
\* handler only ever sees task events whose dependencies are done.
THEOREM PlannedAfterDependenciesHolds == Exclusive => (Spec => []PlannedAfterDependencies)
<1>1. TruthInv => PlannedAfterDependencies
  BY DEF TruthInv, Truthful, PlannedAfterDependencies, DependenciesDone, Done, AllNodes
<1> QED
  BY <1>1, TruthInvariant, PTL

\* The run is patched "completed" only when every sub-plan ran to its end, also
\* when simultaneous completions overwrite each other's graph: the coordinator's
\* verdict may be late, it is never invented.
THEOREM CompletedIsEarnedHolds == Exclusive => (Spec => []CompletedIsEarned)
<1>1. TruthInv => CompletedIsEarned
  BY DEF TruthInv, Truthful
<1> QED
  BY <1>1, TruthInvariant, PTL

-----------------------------------------------------------------------------
(***************************************************************************)
(* The second invariant, for invocations that do not overlap: the saved    *)
(* graph only goes forward, and what the invocation has left to do fits    *)
(* the graph it saves first.                                               *)
(***************************************************************************)
SavedGraph(g, todo) == IF First(todo, "save_task_graph") THEN Head(todo).graph ELSE g

Ordered(d, g) ==
    /\ \A n \in Nodes : g[n] # PENDING => \A m \in d[n] : g[m] = COMPLETED
    /\ \A s \in Synthesizers : g[s] # PENDING => \A m \in Nodes : g[m] = COMPLETED

GoesForward(g, h) ==
    \A n \in AllNodes :
        /\ g[n] # PENDING => h[n] # PENDING
        /\ g[n] \in {COMPLETED, FAILED} => h[n] = g[n]

Stuck(d, g) ==
    \/ \E n \in AllNodes : g[n] = FAILED
    \/ /\ ReadyNodes(d, g) = {}
       /\ \A n \in Nodes : g[n] # RUNNING
       /\ ~AllNodesCompleted(g)

\* A graph that still goes on: what is saved over it cannot undo a verdict.
Moves(g, r) == r = "running" \/ \E n \in AllNodes : g[n] = RUNNING

\* The effect e fits the graph h that is saved before it; g is the graph, r the
\* status of the run and queue the messages now.
EffectFits(d, g, r, queue, e, h) ==
    /\ e.op = "save_task_graph" => Ordered(d, e.graph) /\ GoesForward(g, e.graph) /\ Moves(g, r)
    /\ e.op = "claim_ready_nodes" => h = NewGraph /\ r = "running"
    /\ e.op = "enqueue" =>
          \A n \in AllNodes : Task(n) \in e.msgs => h[n] = RUNNING /\ Task(n) \notin queue
    /\ e.op = "update_agent_run_status" =>
          IF e.status = "completed" THEN \A n \in AllNodes : h[n] = COMPLETED ELSE Stuck(d, h)

TodoFits(d, g, r, queue, todo) ==
    \A i \in 1 .. Len(todo) :
        /\ EffectFits(d, g, r, queue, todo[i], SavedGraph(g, todo))
        /\ todo[i].op = "save_task_graph" => i = 1
        /\ \A j \in 1 .. Len(todo) :
              /\ todo[i].op = "claim_ready_nodes" => todo[j].op \in {"save_task_graph", "claim_ready_nodes"}
              /\ todo[i].op = "enqueue" /\ todo[j].op = "enqueue" => i = j

PendingNodeIdle ==
    \A n \in AllNodes : graph[n] = PENDING => subPlan[n] = "none" /\ ~Deliverable(Task(n))

NotStarted == ~orchestrated => graph = NewGraph

Fits(w) == TodoFits(dependsOn, graph, run, pending \cup delivered, inv[w].todo)

SerialInv ==
    /\ TruthInv
    /\ Ordered(dependsOn, graph)
    /\ PendingNodeIdle
    /\ NotStarted
    /\ VerdictBacked
    /\ \A w \in Workers : Fits(w)
-----------------------------------------------------------------------------
\* Claiming keeps the order and moves pending nodes only.
LEMMA ClaimFits ==
    ASSUME NEW d \in Dependencies, NEW g \in Graph, Ordered(d, g)
    PROVE  LET h == ClaimReady(d, g)
           IN  /\ Ordered(d, h) /\ GoesForward(g, h)
               /\ \A n \in ReadyNodes(d, g) : n \in Nodes /\ g[n] = PENDING /\ h[n] = RUNNING
<1> DEFINE ready == ReadyNodes(d, g)
           h == ClaimReady(d, g)
<1>1. \A n \in AllNodes : h[n] = IF n \in ready THEN RUNNING ELSE g[n]
  BY DEF ClaimReady, WithNodeStatus
<1>2. \A n \in ready : n \in Nodes /\ g[n] = PENDING /\ \A m \in d[n] : m \in Nodes /\ g[m] = COMPLETED
  BY DEF ReadyNodes, CompletedNodeIds
<1>3. \A n \in Nodes : d[n] \subseteq AllNodes
  BY DEF Dependencies
<1> HIDE DEF ready, h
<1>4. \A n \in AllNodes : g[n] = COMPLETED => h[n] = COMPLETED
  BY <1>1, <1>2 DEF PENDING, COMPLETED
<1>5. Ordered(d, h)
  BY <1>1, <1>2, <1>3, <1>4, TaskGraphAssumption DEF Ordered, AllNodes
<1>6. GoesForward(g, h)
  BY <1>1, <1>2 DEF GoesForward, PENDING, RUNNING, COMPLETED, FAILED
<1>7. \A n \in ready : h[n] = RUNNING
  BY <1>1, <1>2 DEF AllNodes
<1> QED
  BY <1>2, <1>5, <1>6, <1>7 DEF ready, h

\* The settlement of a running node keeps the order, moves the graph forward,
\* claims pending nodes and gives a verdict its graph carries.
LEMMA PlanAdvanceFits ==
    ASSUME NEW d \in Dependencies, NEW g \in Graph, Ordered(d, g), NEW n \in AllNodes, g[n] = RUNNING,
           NEW st \in {COMPLETED, FAILED}
    PROVE  LET adv == PlanAdvance(d, g, n, st)
           IN  /\ Ordered(d, adv.graph) /\ GoesForward(g, adv.graph)
               /\ \A m \in adv.newlyReady \cup adv.dispatchSynthesizer :
                     m \in AllNodes /\ g[m] = PENDING /\ adv.graph[m] = RUNNING
               /\ adv.runCompleted => \A m \in AllNodes : adv.graph[m] = COMPLETED
               /\ adv.blocked \/ adv.runFailed => Stuck(d, adv.graph)
<1> DEFINE h == WithNodeStatus(g, {n}, st)
           joins == st = COMPLETED /\ n \in Nodes
           ready == IF joins THEN ReadyNodes(d, h) ELSE {}
           joined == joins /\ ready = {} /\ AllNodesCompleted(h)
           synth == IF joined THEN {t \in Synthesizers : h[t] = PENDING} ELSE {}
           adv == PlanAdvance(d, g, n, st)
           k == WithNodeStatus(h, ready \cup synth, RUNNING)
<1>0. /\ adv.graph = k
      /\ adv.newlyReady = ready /\ adv.dispatchSynthesizer = synth
      /\ adv.runCompleted = (\/ st = COMPLETED /\ n \in Synthesizers
                             \/ joined /\ \A t \in Synthesizers : h[t] = COMPLETED)
      /\ adv.runFailed = (st = FAILED)
      /\ adv.blocked = (joins /\ ready = {} /\ ~joined /\ \A m \in Nodes : h[m] # RUNNING)
  BY DEF PlanAdvance
<1>1. /\ \A m \in AllNodes : h[m] = IF m = n THEN st ELSE g[m]
      /\ h \in Graph
  BY DEF WithNodeStatus, Graph, SubTaskStatus
<1>2. \A m \in Nodes : d[m] \subseteq AllNodes
  BY DEF Dependencies
<1>3. st # PENDING /\ st # RUNNING /\ (st = COMPLETED \/ st = FAILED) /\ COMPLETED # FAILED
      /\ COMPLETED # PENDING /\ FAILED # PENDING /\ RUNNING # PENDING
      /\ RUNNING # COMPLETED /\ RUNNING # FAILED
  BY DEF PENDING, RUNNING, COMPLETED, FAILED
<1> HIDE DEF h
<1>4. \A m \in AllNodes : g[m] = COMPLETED => h[m] = COMPLETED
  BY <1>1, <1>3
<1>5. Ordered(d, h)
  BY <1>1, <1>2, <1>3, <1>4 DEF Ordered, AllNodes
<1>6. \A m \in ready : m \in Nodes /\ h[m] = PENDING /\ \A j \in d[m] : j \in Nodes /\ h[j] = COMPLETED
  BY DEF ReadyNodes, CompletedNodeIds
<1>7. \A m \in synth : m \in Synthesizers /\ h[m] = PENDING /\ \A j \in Nodes : h[j] = COMPLETED
  BY DEF AllNodesCompleted, CompletedNodeIds
<1>8. joined => \A j \in Nodes : h[j] = COMPLETED
  BY DEF AllNodesCompleted, CompletedNodeIds
<1>9. joined => ready = {}
  OBVIOUS
<1>10. joins => ready = ReadyNodes(d, h)
  OBVIOUS
<1>11. joins /\ ready = {} /\ ~joined => ~AllNodesCompleted(h)
  OBVIOUS
<1>12. ~joins => ready = {} /\ synth = {}
  OBVIOUS
<1>13. joined /\ (\A t \in Synthesizers : h[t] = COMPLETED) => synth = {}
  BY <1>3
<1>14. ~joined => synth = {}
  OBVIOUS
<1>15. \A m \in AllNodes : k[m] = IF m \in ready \cup synth THEN RUNNING ELSE h[m]
  BY DEF WithNodeStatus
<1>16. ready \cup synth = {} => k = h
  BY <1>1 DEF WithNodeStatus, Graph
<1>17. joins <=> (st = COMPLETED /\ n \in Nodes)
  OBVIOUS
<1> HIDE DEF ready, synth, joined, joins, k
<1>18. \A m \in AllNodes : h[m] = COMPLETED => k[m] = COMPLETED
  BY <1>3, <1>6, <1>7, <1>15
<1>19. Ordered(d, k)
  <2>1. ASSUME NEW m \in Nodes, k[m] # PENDING, NEW j \in d[m] PROVE k[j] = COMPLETED
    <3>1. m \notin synth
      BY <1>7, TaskGraphAssumption
    <3>2. h[j] = COMPLETED /\ j \in AllNodes
      BY <1>2, <1>5, <1>6, <1>15, <2>1, <3>1 DEF Ordered, AllNodes
    <3> QED
      BY <1>18, <3>2
  <2>2. ASSUME NEW t \in Synthesizers, k[t] # PENDING, NEW m \in Nodes PROVE k[m] = COMPLETED
    <3>1. t \notin ready
      BY <1>6, TaskGraphAssumption
    <3>2. h[m] = COMPLETED
      BY <1>5, <1>7, <1>15, <2>2, <3>1 DEF Ordered, AllNodes
    <3> QED
      BY <1>18, <3>2 DEF AllNodes
  <2> QED
    BY <2>1, <2>2 DEF Ordered
<1>20. GoesForward(g, k)
  BY <1>1, <1>3, <1>6, <1>7, <1>15 DEF GoesForward
<1>21. \A m \in ready \cup synth : m \in AllNodes /\ g[m] = PENDING /\ k[m] = RUNNING
  BY <1>1, <1>3, <1>6, <1>7, <1>15 DEF AllNodes
<1>22. ASSUME \/ st = COMPLETED /\ n \in Synthesizers
              \/ joined /\ \A t \in Synthesizers : h[t] = COMPLETED
       PROVE  \A m \in AllNodes : k[m] = COMPLETED
  <2>1. CASE st = COMPLETED /\ n \in Synthesizers
    <3>1. \A m \in Nodes : g[m] = COMPLETED
      BY <1>3, <2>1 DEF Ordered
    <3>2. \A m \in AllNodes : h[m] = COMPLETED
      BY <1>1, <2>1, <3>1, TaskGraphAssumption DEF AllNodes
    <3> QED
      BY <1>18, <3>2
  <2>2. CASE joined /\ \A t \in Synthesizers : h[t] = COMPLETED
    BY <1>8, <1>18, <2>2 DEF AllNodes
  <2> QED
    BY <1>22, <2>1, <2>2
<1>23. st = FAILED => Stuck(d, k)
  <2> SUFFICES ASSUME st = FAILED PROVE \E m \in AllNodes : k[m] = FAILED
    BY DEF Stuck
  <2>1. k = h
    BY <1>3, <1>12, <1>16, <1>17
  <2> QED
    BY <1>1, <2>1
<1>24. joins /\ ready = {} /\ ~joined /\ (\A m \in Nodes : h[m] # RUNNING) => Stuck(d, k)
  BY <1>10, <1>11, <1>14, <1>16 DEF Stuck
<1> HIDE DEF adv
<1>25. adv.blocked \/ adv.runFailed => Stuck(d, k)
  BY <1>0, <1>23, <1>24
<1>26. adv.runCompleted => \A m \in AllNodes : k[m] = COMPLETED
  BY <1>0, <1>22
<1> QED
  BY <1>0, <1>19, <1>20, <1>21, <1>25, <1>26 DEF adv

\* An effect that was performed leaves the rest fitting.
LEMMA TailFits ==
    ASSUME NEW d, NEW g, NEW r, NEW queue, NEW todo \in Seq(Effect), todo # <<>>,
           TodoFits(d, g, r, queue, todo), Head(todo).op # "claim_ready_nodes",
           NEW s, s = r \/ Head(todo).op = "update_agent_run_status"
    PROVE  TodoFits(d, SavedGraph(g, todo), s, queue, Tail(todo))
<1> DEFINE rest == Tail(todo)
           h == SavedGraph(g, todo)
<1>1. /\ rest \in Seq(Effect)
      /\ \A i \in 1 .. Len(rest) : rest[i] = todo[i + 1] /\ i + 1 \in 1 .. Len(todo) /\ i + 1 # 1
      /\ Head(todo) = todo[1] /\ 1 \in 1 .. Len(todo)
  BY HeadTailProperties
<1>2. \A i \in 1 .. Len(rest) : /\ EffectFits(d, g, r, queue, rest[i], h)
                                /\ rest[i].op # "save_task_graph"
                                /\ rest[i].op = "claim_ready_nodes" => s = r
  BY <1>1 DEF TodoFits
<1>3. ~First(rest, "save_task_graph")
  BY <1>1, <1>2, HeadIsFirst DEF First
<1>4. SavedGraph(h, rest) = h
  BY <1>3 DEF SavedGraph
<1>5. \A i, j \in 1 .. Len(rest) :
         /\ rest[i].op = "claim_ready_nodes" => rest[j].op \in {"save_task_graph", "claim_ready_nodes"}
         /\ rest[i].op = "enqueue" /\ rest[j].op = "enqueue" => i = j
  BY <1>1 DEF TodoFits
<1> HIDE DEF rest, h
<1>6. \A i \in 1 .. Len(rest) : EffectFits(d, h, s, queue, rest[i], h)
  BY <1>2 DEF EffectFits
<1> QED
  BY <1>2, <1>4, <1>5, <1>6 DEF TodoFits, rest, h

\* Enqueueing one event of a batch leaves the others still to be enqueued.
LEMMA EnqueueFits ==
    ASSUME NEW d, NEW g, NEW r, NEW queue, NEW todo \in Seq(Effect), First(todo, "enqueue"),
           TodoFits(d, g, r, queue, todo), NEW m \in Head(todo).msgs
    PROVE  /\ \A n \in AllNodes : m = Task(n) => g[n] = RUNNING
           /\ LET left == Head(todo).msgs \ {m}
              IN  TodoFits(d, g, r, queue \cup {m}, If(left # {}, <<Enqueue(left)>>) \o Tail(todo))
<1> DEFINE left == Head(todo).msgs \ {m}
           rest == Tail(todo)
<1>1. /\ rest \in Seq(Effect) /\ todo # <<>> /\ Head(todo) \in Effect
      /\ \A i \in 1 .. Len(rest) : rest[i] = todo[i + 1] /\ i + 1 \in 1 .. Len(todo) /\ i + 1 # 1
      /\ Head(todo) = todo[1] /\ 1 \in 1 .. Len(todo)
      /\ Head(todo).op = "enqueue"
  BY HeadTailProperties DEF First
<1>2. SavedGraph(g, todo) = g
  BY <1>1 DEF SavedGraph, First
<1>3. \A n \in AllNodes : Task(n) \in Head(todo).msgs => g[n] = RUNNING /\ Task(n) \notin queue
  BY <1>1, <1>2 DEF TodoFits, EffectFits
<1>4. \A i \in 1 .. Len(rest) : /\ EffectFits(d, g, r, queue, rest[i], g)
                                /\ rest[i].op \notin {"save_task_graph", "claim_ready_nodes", "enqueue"}
  BY <1>1, <1>2 DEF TodoFits
<1> HIDE DEF rest
<1>5. \A i \in 1 .. Len(rest) : EffectFits(d, g, r, queue \cup {m}, rest[i], g)
  BY <1>4 DEF EffectFits
<1>6. CASE left = {}
  <2>1. If(left # {}, <<Enqueue(left)>>) \o rest = rest
    BY <1>1, <1>6, ConcatEmptySeq DEF If
  <2>2. SavedGraph(g, rest) = g
    BY <1>1, <1>4, HeadIsFirst DEF First, SavedGraph
  <2>3. TodoFits(d, g, r, queue \cup {m}, rest)
    BY <1>4, <1>5, <2>2 DEF TodoFits
  <2> QED
    BY <1>3, <2>1, <2>3 DEF rest
<1>7. CASE left # {}
  <2> DEFINE one == <<Enqueue(left)>>
             all == one \o rest
  <2>1. one \in Seq(Effect) /\ Len(one) = 1 /\ one[1] = Enqueue(left)
    BY <1>1, EffectFields, EffectTypes
  <2>2. Enqueue(left).op = "enqueue" /\ EffectFits(d, g, r, queue \cup {m}, Enqueue(left), g)
    BY <1>3 DEF Enqueue, EffectFits
  <2> HIDE DEF one, left
  <2>a. rest \in Seq(Effect) /\ Len(rest) \in Nat
    BY <1>1
  <2>3. all \in Seq(Effect) /\ Len(all) = 1 + Len(rest) /\ Len(rest) \in Nat
    BY <2>a, <2>1, ConcatProperties
  <2>4. ASSUME NEW i \in 1 .. Len(all)
        PROVE  \/ i = 1 /\ all[i] = Enqueue(left)
               \/ i # 1 /\ i - 1 \in 1 .. Len(rest) /\ all[i] = rest[i - 1]
    <3>1. \/ i \in 1 .. Len(one) /\ all[i] = one[i]
          \/ i > Len(one) /\ i - Len(one) \in 1 .. Len(rest) /\ all[i] = rest[i - Len(one)]
      BY <2>a, <2>1, ConcatElement
    <3> HIDE DEF all
    <3> QED
      BY <2>1, <3>1
  <2> HIDE DEF all
  <2>5. SavedGraph(g, all) = g
    BY <1>4, <2>2, <2>3, <2>4, HeadIsFirst DEF First, SavedGraph
  <2>6. TodoFits(d, g, r, queue \cup {m}, all)
    <3>1. \A i \in 1 .. Len(all) :
             /\ EffectFits(d, g, r, queue \cup {m}, all[i], g)
             /\ all[i].op \notin {"save_task_graph", "claim_ready_nodes"}
             /\ all[i].op = "enqueue" => i = 1
      BY <1>4, <1>5, <2>2, <2>4
    <3> QED
      BY <2>5, <3>1 DEF TodoFits
  <2> QED
    BY <1>3, <1>7, <2>6 DEF If, all, one, left, rest
<1> QED
  BY <1>6, <1>7

\* The second invariant after a step of the only worker.
LEMMA SerialIntro ==
    ASSUME Serial, TruthInv', NEW w \in Workers, UNCHANGED dependsOn,
           Ordered(dependsOn, graph'), PendingNodeIdle', NotStarted', VerdictBacked',
           TodoFits(dependsOn, graph', run', pending' \cup delivered', inv'[w].todo)
    PROVE  SerialInv'
<1>1. \A v \in Workers : v = w
  BY DEF Serial
<1>2. (\A v \in Workers : Fits(v))'
  BY <1>1 DEF Fits
<1> QED
  BY <1>2 DEF SerialInv

LEMMA TriggerFits ==
    ASSUME Serial, SerialInv, TruthInv', NEW w \in Workers, BeginTrigger(w)
    PROVE  SerialInv'
<1>1. /\ inv'[w].todo = TriggerEffects
      /\ UNCHANGED <<dependsOn, orchestrated, graph, subPlan, pending, delivered>>
      /\ run' = IF TriggerEffects = <<>> THEN run ELSE "running"
  BY InvokeInv, MessageTypes DEF BeginTrigger, Invoke, SerialInv, TruthInv, TypeInv
<1>2. Ordered(dependsOn, graph') /\ PendingNodeIdle' /\ NotStarted'
  BY <1>1 DEF SerialInv, PendingNodeIdle, NotStarted, Deliverable
<1>3. CASE TriggerEffects = <<>>
  <2>1. VerdictBacked'
    BY <1>1, <1>3 DEF SerialInv, VerdictBacked
  <2>2. TodoFits(dependsOn, graph', run', pending' \cup delivered', inv'[w].todo)
    BY <1>1, <1>3 DEF TodoFits
  <2> QED
    BY <1>1, <1>2, <2>1, <2>2, SerialIntro
<1>4. CASE TriggerEffects = <<SaveTaskGraph(NewGraph), ClaimReadyNodes>>
  <2>1. run' = "running" /\ VerdictBacked'
    BY <1>1, <1>4 DEF VerdictBacked
  <2>2. ~orchestrated
    BY <1>4 DEF TriggerEffects, If
  <2>3. Ordered(dependsOn, NewGraph) /\ GoesForward(graph, NewGraph)
    BY <2>2 DEF SerialInv, NotStarted, Ordered, GoesForward, NewGraph, AllNodes, PENDING, COMPLETED, FAILED
  <2> DEFINE todo == <<SaveTaskGraph(NewGraph), ClaimReadyNodes>>
  <2>4. SavedGraph(graph, todo) = NewGraph
    BY DEF SavedGraph, First, SaveTaskGraph
  <2>5. \A queue : EffectFits(dependsOn, graph, "running", queue, SaveTaskGraph(NewGraph), NewGraph)
    BY <2>3 DEF EffectFits, SaveTaskGraph, Moves
  <2>6. \A queue : EffectFits(dependsOn, graph, "running", queue, ClaimReadyNodes, NewGraph)
    BY DEF EffectFits, ClaimReadyNodes
  <2>7. SaveTaskGraph(NewGraph).op = "save_task_graph" /\ ClaimReadyNodes.op = "claim_ready_nodes"
    BY DEF SaveTaskGraph, ClaimReadyNodes
  <2>8. \A queue : TodoFits(dependsOn, graph, "running", queue, todo)
    BY <2>4, <2>5, <2>6, <2>7 DEF TodoFits
  <2> HIDE DEF todo
  <2>9. TodoFits(dependsOn, graph', run', pending' \cup delivered', inv'[w].todo)
    BY <1>1, <1>4, <2>1, <2>8 DEF todo
  <2> QED
    BY <1>1, <1>2, <2>1, <2>9, SerialIntro
<1> QED
  BY <1>3, <1>4 DEF TriggerEffects, If

\* A task event neither saves the graph nor enqueues another task.
LEMMA TaskFits ==
    ASSUME Serial, SerialInv, TruthInv', NEW w \in Workers, NEW n \in AllNodes, BeginTask(w, n)
    PROVE  SerialInv'
<1>1. PICK todo \in TaskEffects(n) : Invoke(w, Task(n), todo)
  BY DEF BeginTask
<1>2. /\ inv'[w].todo = todo
      /\ UNCHANGED <<dependsOn, orchestrated, graph, subPlan, pending, delivered, run>>
  BY <1>1, InvokeInv, MessageTypes DEF BeginTask, Invoke, SerialInv, TruthInv, TypeInv
<1>3. Ordered(dependsOn, graph') /\ PendingNodeIdle' /\ NotStarted' /\ VerdictBacked'
  BY <1>2 DEF SerialInv, PendingNodeIdle, NotStarted, VerdictBacked, Deliverable
<1>4. ASSUME NEW p
      PROVE  LET e == Enqueue(Continuation(n, p))
             IN  /\ e.op = "enqueue"
                 /\ \A queue, h : EffectFits(dependsOn, graph, run, queue, e, h)
  BY MessagesDistinct DEF EffectFits, Enqueue, Continuation
<1>5. ASSUME NEW p
      PROVE  LET e == SavePlan(n, p, results)
             IN  /\ e.op = "save_plan"
                 /\ \A queue, h : EffectFits(dependsOn, graph, run, queue, e, h)
  BY DEF EffectFits, SavePlan
<1>6. \A queue : TodoFits(dependsOn, graph, run, queue, todo)
  <2>1. CASE todo = <<>>
    BY <2>1 DEF TodoFits
  <2>2. CASE todo = <<Enqueue(Continuation(n, subPlan[n]))>>
    BY <1>4, <2>2 DEF TodoFits
  <2>3. ASSUME NEW p, todo = <<SavePlan(n, p, results), Enqueue(Continuation(n, p))>>
        PROVE  \A queue : TodoFits(dependsOn, graph, run, queue, todo)
    BY <1>4, <1>5, <2>3 DEF TodoFits
  <2> QED
    BY <2>1, <2>2, <2>3 DEF TaskEffects
<1> QED
  BY <1>2, <1>3, <1>6, SerialIntro

\* A settlement that is not processed yet is that of a running node.
LEMMA SettledNodeRuns ==
    ASSUME SerialInv, NEW n \in AllNodes, NEW s \in SettleStatus, Deliverable(Settled(n, s)),
           s # "waiting_for_approval", ~AlreadyProcessed(graph, n, NodeStatusOf(s))
    PROVE  graph[n] = RUNNING
<1>1. subPlan[n] \notin {"none", "open"} /\ s = SettlementOf(subPlan[n])
  BY DEF SerialInv, TruthInv, Truthful, MessageTrue, Deliverable
<1>2. graph[n] # PENDING
  BY <1>1 DEF SerialInv, PendingNodeIdle
<1>3. graph[n] \in SubTaskStatus
  BY DEF SerialInv, TruthInv, TypeInv, TypeOK, Graph
<1>4. graph[n] = COMPLETED => subPlan[n] \in {"completed", "empty"}
  BY DEF SerialInv, TruthInv, Truthful, GraphTrue, Done
<1>5. graph[n] = FAILED => subPlan[n] = "failed"
  BY DEF SerialInv, TruthInv, Truthful, GraphTrue
<1>6. graph[n] # COMPLETED
  BY <1>1, <1>4 DEF SettlementOf, NodeStatusOf, AlreadyProcessed
<1>7. graph[n] # FAILED
  BY <1>1, <1>5 DEF SettlementOf, NodeStatusOf, AlreadyProcessed
<1> QED
  BY <1>2, <1>3, <1>6, <1>7 DEF SubTaskStatus

LEMMA CompletedFits ==
    ASSUME Serial, SerialInv, TruthInv', NEW w \in Workers, NEW n \in AllNodes, NEW s \in SettleStatus,
           BeginCompleted(w, n, s)
    PROVE  SerialInv'
<1> DEFINE adv == PlanAdvance(dependsOn, graph, n, NodeStatusOf(s))
           todo == CompletedEffects(n, s)
           queue == pending \cup delivered
<1>0. inv \in [Workers -> Invocation] /\ Settled(n, s) \in Message /\ Invoke(w, Settled(n, s), todo)
  BY MessageTypes DEF BeginCompleted, SerialInv, TruthInv, TypeInv
<1>1. inv'[w].todo = todo /\ Available(Settled(n, s))
  <2> HIDE DEF todo
  <2> QED
    BY <1>0, InvokeInv
<1>2. UNCHANGED <<dependsOn, orchestrated, graph, subPlan, pending, delivered, run>>
  BY DEF BeginCompleted, Invoke
<1>3. Ordered(dependsOn, graph') /\ PendingNodeIdle' /\ NotStarted' /\ VerdictBacked'
  BY <1>2 DEF SerialInv, PendingNodeIdle, NotStarted, VerdictBacked, Deliverable
<1>4. TodoFits(dependsOn, graph, run, queue, todo)
  <2>1. CASE todo = <<>>
    BY <2>1 DEF TodoFits
  <2>2. CASE /\ s # "waiting_for_approval" /\ ~AlreadyProcessed(graph, n, NodeStatusOf(s))
             /\ todo = AdvanceEffects(n, s, adv)
    <3>1. graph[n] = RUNNING
      BY <1>1, <2>2, SettledNodeRuns DEF Available, Deliverable
    <3>2. /\ dependsOn \in Dependencies /\ graph \in Graph /\ Ordered(dependsOn, graph)
          /\ NodeStatusOf(s) \in {COMPLETED, FAILED}
      BY DEF SerialInv, TruthInv, TypeInv, TypeOK, NodeStatusOf
    <3>3. /\ Ordered(dependsOn, adv.graph) /\ GoesForward(graph, adv.graph)
          /\ \A m \in adv.newlyReady \cup adv.dispatchSynthesizer :
                m \in AllNodes /\ graph[m] = PENDING /\ adv.graph[m] = RUNNING
          /\ adv.runCompleted => \A m \in AllNodes : adv.graph[m] = COMPLETED
          /\ adv.blocked \/ adv.runFailed => Stuck(dependsOn, adv.graph)
      BY <3>1, <3>2, PlanAdvanceFits
    <3>4. adv.graph \in Graph
      BY <3>2, AdvanceTypes
    <3> HIDE DEF adv
    <3> DEFINE tasks == {Task(m) : m \in adv.newlyReady \cup adv.dispatchSynthesizer}
    <3>5. tasks \subseteq Message
      BY <3>3, MessageTypes
    <3>6. \A m \in AllNodes : Task(m) \in tasks => adv.graph[m] = RUNNING /\ Task(m) \notin queue
      BY <3>3, MessagesDistinct DEF SerialInv, PendingNodeIdle, Deliverable
    <3>7. /\ todo # <<>> /\ Head(todo) = SaveTaskGraph(adv.graph)
          /\ \A i \in 1 .. Len(todo) :
                LET e == todo[i]
                IN  \/ i = 1 /\ e = SaveTaskGraph(adv.graph)
                    \/ i > 1 /\ \/ n \in Nodes /\ e = SaveResult(n)
                                \/ i = Len(StoreEffects(n, s)) + 2 /\ e = Enqueue(tasks)
                                \/ adv.runCompleted /\ e = PatchRun("completed")
                                \/ (adv.blocked \/ adv.runFailed) /\ e = PatchRun("failed")
      BY <2>2, <3>4, <3>5, AdvanceElements
    <3> HIDE DEF tasks, todo, queue
    <3>8. SavedGraph(graph, todo) = adv.graph
      BY <3>7 DEF SavedGraph, First, SaveTaskGraph
    <3>9. ASSUME NEW i \in 1 .. Len(todo)
          PROVE  /\ EffectFits(dependsOn, graph, run, queue, todo[i], adv.graph)
                 /\ todo[i].op = "save_task_graph" => i = 1
                 /\ todo[i].op # "claim_ready_nodes"
                 /\ todo[i].op = "enqueue" => i = Len(StoreEffects(n, s)) + 2
      <4>1. CASE i = 1 /\ todo[i] = SaveTaskGraph(adv.graph)
        BY <3>1, <3>3, <4>1 DEF EffectFits, SaveTaskGraph, Moves
      <4>2. CASE todo[i] = SaveResult(n)
        BY <4>2 DEF EffectFits, SaveResult
      <4>3. CASE i = Len(StoreEffects(n, s)) + 2 /\ todo[i] = Enqueue(tasks)
        BY <3>6, <4>3 DEF EffectFits, Enqueue
      <4>4. CASE adv.runCompleted /\ todo[i] = PatchRun("completed")
        BY <3>3, <4>4 DEF EffectFits, PatchRun
      <4>5. CASE (adv.blocked \/ adv.runFailed) /\ todo[i] = PatchRun("failed")
        BY <3>3, <4>5 DEF EffectFits, PatchRun
      <4> QED
        BY <3>7, <4>1, <4>2, <4>3, <4>4, <4>5
    <3> QED
      BY <3>8, <3>9 DEF TodoFits
  <2> QED
    BY <2>1, <2>2 DEF CompletedEffects, If
<1> HIDE DEF todo
<1>5. TodoFits(dependsOn, graph', run', pending' \cup delivered', inv'[w].todo)
  BY <1>1, <1>2, <1>4
<1> QED
  BY <1>2, <1>3, <1>5, SerialIntro

\* A verdict stands when the graph it was given for moves on.
LEMMA VerdictKept ==
    ASSUME NEW d, NEW g \in Graph, NEW h \in Graph, GoesForward(g, h), Moves(g, "failed"),
           Ordered(d, g), Stuck(d, g)
    PROVE  Stuck(d, h)
<1>1. PICK n \in AllNodes : g[n] = RUNNING
  BY DEF Moves
<1>2. CASE \E m \in AllNodes : g[m] = FAILED
  BY <1>2 DEF GoesForward, Stuck
<1>3. CASE ~\E m \in AllNodes : g[m] = FAILED
  <2>1. (\A m \in Nodes : g[m] # RUNNING) /\ ~AllNodesCompleted(g)
    BY <1>3 DEF Stuck
  <2>2. n \in Synthesizers /\ \A m \in Nodes : g[m] = COMPLETED
    BY <1>1, <2>1 DEF AllNodes, Ordered, RUNNING, PENDING
  <2> QED
    BY <2>1, <2>2 DEF AllNodesCompleted, CompletedNodeIds
<1> QED
  BY <1>2, <1>3

LEMMA SaveGraphFits ==
    ASSUME Serial, SerialInv, TruthInv', NEW w \in Workers, DoSaveTaskGraph(w)
    PROVE  SerialInv'
<1> DEFINE todo == Todo(w)
           g == Head(todo).graph
           queue == pending \cup delivered
<1>1. /\ todo # <<>> /\ Head(todo).op = "save_task_graph"
      /\ Proceed(w, Tail(todo)) /\ graph' = g /\ orchestrated' = TRUE
      /\ UNCHANGED <<dependsOn, subPlan, run, pending, delivered>>
  BY DEF DoSaveTaskGraph, NextIs
<1>2. /\ inv \in [Workers -> Invocation] /\ todo \in Seq(Effect) /\ graph \in Graph
      /\ TodoFits(dependsOn, graph, run, queue, todo)
      /\ Ordered(dependsOn, graph)
  BY InvocationTypes DEF SerialInv, TruthInv, TypeInv, TypeOK, Fits, Todo
<1> HIDE DEF todo
<1>3. inv'[w].todo = Tail(todo)
  BY <1>1, <1>2, ProceedInv DEF todo
<1>4. /\ Head(todo) = todo[1] /\ 1 \in 1 .. Len(todo) /\ Head(todo) \in Effect
  BY <1>1, <1>2, HeadIsFirst
<1>5. Ordered(dependsOn, g) /\ GoesForward(graph, g) /\ Moves(graph, run) /\ g \in Graph
  BY <1>1, <1>2, <1>4, EffectFields DEF TodoFits, EffectFits
<1>6. SavedGraph(graph, todo) = g
  BY <1>1 DEF SavedGraph, First
<1>7. TodoFits(dependsOn, g, run, queue, Tail(todo))
  BY <1>1, <1>2, <1>6, TailFits
<1> HIDE DEF g
<1>8. PendingNodeIdle'
  BY <1>1, <1>5 DEF SerialInv, PendingNodeIdle, GoesForward, Deliverable
<1>9. VerdictBacked'
  <2>1. run = "completed" => \A n \in AllNodes : g[n] = COMPLETED
    BY <1>5 DEF SerialInv, VerdictBacked, GoesForward
  <2>2. run = "failed" => Stuck(dependsOn, g)
    <3> SUFFICES ASSUME run = "failed" PROVE Stuck(dependsOn, g)
      OBVIOUS
    <3>1. Stuck(dependsOn, graph) /\ Moves(graph, "failed")
      BY <1>5 DEF SerialInv, VerdictBacked, Stuck
    <3> QED
      BY <1>2, <1>5, <3>1, VerdictKept
  <2> QED
    BY <1>1, <2>1, <2>2 DEF VerdictBacked, Stuck
<1>10. NotStarted'
  BY <1>1 DEF NotStarted
<1> QED
  BY <1>1, <1>3, <1>5, <1>7, <1>8, <1>9, <1>10, SerialIntro

LEMMA ClaimStepFits ==
    ASSUME Serial, SerialInv, TruthInv', NEW w \in Workers, DoClaimReadyNodes(w)
    PROVE  SerialInv'
<1> DEFINE d == dependsOn
           ready == ReadyNodes(d, graph)
           h == ClaimReady(d, graph)
           tasks == {Task(n) : n \in ready}
           queue == pending \cup delivered
<1>1. /\ Todo(w) # <<>> /\ Head(Todo(w)).op = "claim_ready_nodes"
      /\ Proceed(w, ClaimEffects)
      /\ UNCHANGED <<dependsOn, orchestrated, graph, subPlan, run, pending, delivered>>
  BY DEF DoClaimReadyNodes, NextIs, store
<1>2. /\ inv \in [Workers -> Invocation] /\ Todo(w) \in Seq(Effect) /\ graph \in Graph
      /\ TodoFits(d, graph, run, queue, Todo(w))
      /\ d \in Dependencies /\ Ordered(d, graph)
  BY InvocationTypes DEF SerialInv, TruthInv, TypeInv, TypeOK, Fits, Todo
<1>3. inv'[w].todo = ClaimEffects
  BY <1>1, <1>2, ProceedInv
<1>4. graph = NewGraph /\ run = "running"
  <2>1. Head(Todo(w)) = Todo(w)[1] /\ 1 \in 1 .. Len(Todo(w))
    BY <1>1, <1>2, HeadIsFirst
  <2>2. SavedGraph(graph, Todo(w)) = graph
    BY <1>1 DEF SavedGraph, First
  <2> QED
    BY <1>1, <1>2, <2>1, <2>2 DEF TodoFits, EffectFits
<1>5. TodoFits(d, graph, run, queue, ClaimEffects)
  <2>1. CASE ready = {} /\ ClaimEffects = <<PatchRun("failed")>>
    <3>1. /\ \A n \in AllNodes : graph[n] = PENDING
          /\ \E n \in Nodes : TRUE
      BY <1>4, TaskGraphAssumption DEF NewGraph
    <3>2. Stuck(d, graph)
      BY <2>1, <3>1 DEF Stuck, AllNodesCompleted, CompletedNodeIds, AllNodes, PENDING, RUNNING, COMPLETED
    <3>3. SavedGraph(graph, ClaimEffects) = graph
      BY <2>1 DEF SavedGraph, First, PatchRun
    <3>4. EffectFits(d, graph, run, queue, PatchRun("failed"), graph)
      BY <3>2 DEF EffectFits, PatchRun
    <3>5. PatchRun("failed").op = "update_agent_run_status"
      BY DEF PatchRun
    <3> QED
      BY <2>1, <3>3, <3>4, <3>5 DEF TodoFits
  <2>2. CASE ClaimEffects = <<SaveTaskGraph(h), Enqueue(tasks)>>
    <3>1. /\ Ordered(d, h) /\ GoesForward(graph, h)
          /\ \A n \in ready : n \in Nodes /\ graph[n] = PENDING /\ h[n] = RUNNING
      BY <1>2, ClaimFits
    <3>2. \A n \in AllNodes : Task(n) \in tasks => h[n] = RUNNING /\ Task(n) \notin queue
      BY <3>1, MessagesDistinct DEF SerialInv, PendingNodeIdle, Deliverable, AllNodes
    <3> HIDE DEF h, tasks, queue
    <3>3. SavedGraph(graph, ClaimEffects) = h
      BY <2>2 DEF SavedGraph, First, SaveTaskGraph
    <3>4. EffectFits(d, graph, run, queue, SaveTaskGraph(h), h)
      BY <1>4, <3>1 DEF EffectFits, SaveTaskGraph, Moves
    <3>5. EffectFits(d, graph, run, queue, Enqueue(tasks), h)
      BY <3>2 DEF EffectFits, Enqueue
    <3>6. SaveTaskGraph(h).op = "save_task_graph" /\ Enqueue(tasks).op = "enqueue"
      BY DEF SaveTaskGraph, Enqueue
    <3> QED
      BY <2>2, <3>3, <3>4, <3>5, <3>6 DEF TodoFits
  <2> QED
    BY <2>1, <2>2 DEF ClaimEffects
<1> HIDE DEF queue
<1>6. Ordered(d, graph') /\ PendingNodeIdle' /\ NotStarted' /\ VerdictBacked'
  BY <1>1 DEF SerialInv, PendingNodeIdle, NotStarted, VerdictBacked, Deliverable
<1>7. TodoFits(d, graph', run', pending' \cup delivered', inv'[w].todo)
  BY <1>1, <1>3, <1>5 DEF queue
<1> QED
  BY <1>1, <1>6, <1>7, SerialIntro

LEMMA PerformFits ==
    ASSUME Serial, SerialInv, TruthInv', NEW w \in Workers, Perform(w) \/ Crash(w)
    PROVE  SerialInv'
<1> DEFINE todo == Todo(w)
           e == Head(todo)
           queue == pending \cup delivered
<1>1. /\ inv \in [Workers -> Invocation] /\ todo \in Seq(Effect) /\ graph \in Graph
      /\ TodoFits(dependsOn, graph, run, queue, todo)
      /\ Ordered(dependsOn, graph) /\ PendingNodeIdle /\ NotStarted /\ VerdictBacked
      /\ TruthInv
  BY InvocationTypes DEF SerialInv, TruthInv, TypeInv, TypeOK, Fits, Todo
<1>2. todo # <<>> => e = todo[1] /\ 1 \in 1 .. Len(todo) /\ e \in Effect
  BY <1>1, HeadIsFirst
<1>3. todo # <<>> /\ e.op # "save_task_graph" => SavedGraph(graph, todo) = graph
  BY DEF SavedGraph, First
<1>4. \A new : todo # <<>> /\ Proceed(w, new) => inv'[w].todo = new
  BY <1>1, ProceedInv
<1>5. TodoFits(dependsOn, graph', run', pending' \cup delivered', Idle.todo)
  BY IdleFacts DEF TodoFits
<1> HIDE DEF todo, e
<1>c. CASE DoSavePlan(w)
  <2>1. /\ todo # <<>> /\ e.op = "save_plan" /\ Proceed(w, Tail(todo))
        /\ subPlan' = [subPlan EXCEPT ![e.node] = e.plan]
        /\ UNCHANGED <<dependsOn, orchestrated, graph, run, pending, delivered>>
    BY <1>c DEF DoSavePlan, NextIs, todo, e
  <2>2. TodoFits(dependsOn, graph', run', pending' \cup delivered', inv'[w].todo)
    BY <1>1, <1>3, <1>4, <2>1, TailFits DEF e
  <2>3. graph[e.node] # PENDING /\ e.node \in AllNodes
    <3>1. inv[w].msg = Task(e.node) /\ e.node \in AllNodes
      BY <1>1, <1>2, <2>1, EffectFields DEF TruthInv, Truthful, TodoTrue, EffectTrue, Todo, todo
    <3>2. Deliverable(inv[w].msg)
      BY <1>1, <2>1, IdleFacts DEF TruthInv, InQueue, Todo, todo
    <3> QED
      BY <1>1, <3>1, <3>2 DEF PendingNodeIdle
  <2>4. PendingNodeIdle'
    BY <1>1, <2>1, <2>3 DEF PendingNodeIdle, Deliverable, TruthInv, TypeInv, TypeOK
  <2>5. NotStarted' /\ VerdictBacked'
    BY <1>1, <2>1 DEF NotStarted, VerdictBacked
  <2> QED
    BY <1>1, <2>1, <2>2, <2>4, <2>5, SerialIntro
<1>d. CASE DoSaveResult(w)
  <2>1. /\ todo # <<>> /\ e.op = "save_sub_agent_result" /\ Proceed(w, Tail(todo))
        /\ UNCHANGED <<dependsOn, orchestrated, graph, subPlan, run, pending, delivered>>
    BY <1>d DEF DoSaveResult, NextIs, todo, e
  <2>2. TodoFits(dependsOn, graph', run', pending' \cup delivered', inv'[w].todo)
    BY <1>1, <1>3, <1>4, <2>1, TailFits DEF e
  <2>3. PendingNodeIdle' /\ NotStarted' /\ VerdictBacked'
    BY <1>1, <2>1 DEF PendingNodeIdle, Deliverable, NotStarted, VerdictBacked
  <2> QED
    BY <1>1, <2>1, <2>2, <2>3, SerialIntro
<1>e. CASE DoPatchRun(w)
  <2>1. /\ todo # <<>> /\ e.op = "update_agent_run_status" /\ Proceed(w, Tail(todo)) /\ run' = e.status
        /\ UNCHANGED <<dependsOn, orchestrated, graph, subPlan, pending, delivered>>
    BY <1>e DEF DoPatchRun, NextIs, todo, e
  <2>2. TodoFits(dependsOn, graph', run', pending' \cup delivered', inv'[w].todo)
    BY <1>1, <1>3, <1>4, <2>1, TailFits DEF e
  <2>3. IF run' = "completed" THEN \A n \in AllNodes : graph[n] = COMPLETED ELSE Stuck(dependsOn, graph)
    BY <1>1, <1>2, <1>3, <2>1 DEF TodoFits, EffectFits
  <2>4. VerdictBacked'
    BY <2>1, <2>3 DEF VerdictBacked, Stuck
  <2>5. PendingNodeIdle' /\ NotStarted'
    BY <1>1, <2>1 DEF PendingNodeIdle, Deliverable, NotStarted
  <2> QED
    BY <1>1, <2>1, <2>2, <2>4, <2>5, SerialIntro
<1>f. CASE DoEnqueue(w)
  <2>1. PICK m \in e.msgs :
           /\ pending' = pending \cup {m}
           /\ Proceed(w, If(e.msgs \ {m} # {}, <<Enqueue(e.msgs \ {m})>>) \o Tail(todo))
    BY <1>f DEF DoEnqueue, todo, e
  <2>2. First(todo, "enqueue") /\ UNCHANGED <<dependsOn, orchestrated, graph, subPlan, run, delivered>>
    BY <1>f DEF DoEnqueue, NextIs, First, todo, store
  <2>3. /\ \A n \in AllNodes : m = Task(n) => graph[n] = RUNNING
        /\ TodoFits(dependsOn, graph, run, queue \cup {m},
                    If(e.msgs \ {m} # {}, <<Enqueue(e.msgs \ {m})>>) \o Tail(todo))
    BY <1>1, <2>2, EnqueueFits DEF e
  <2>4. queue \cup {m} = pending' \cup delivered'
    BY <2>1, <2>2
  <2>5. TodoFits(dependsOn, graph', run', pending' \cup delivered', inv'[w].todo)
    BY <1>4, <2>1, <2>2, <2>3, <2>4 DEF First
  <2>6. PendingNodeIdle'
    BY <1>1, <2>1, <2>2, <2>3 DEF PendingNodeIdle, Deliverable, PENDING, RUNNING
  <2>7. NotStarted' /\ VerdictBacked'
    BY <1>1, <2>2 DEF NotStarted, VerdictBacked
  <2> QED
    BY <1>1, <2>2, <2>5, <2>6, <2>7, SerialIntro
<1>g. CASE End(w) \/ Crash(w)
  <2>1. /\ inv'[w] = Idle /\ inv[w] # Idle
        /\ UNCHANGED <<dependsOn, orchestrated, graph, subPlan, run>>
    BY <1>1, <1>g DEF End, Crash, store
  <2>2. pending' \cup delivered' = pending \cup delivered
    <3>1. CASE Crash(w)
      BY <3>1 DEF Crash
    <3>2. CASE End(w)
      BY <1>1, <2>1, <3>2 DEF End, TruthInv, InQueue, Deliverable
    <3> QED
      BY <1>g, <3>1, <3>2
  <2>3. PendingNodeIdle' /\ NotStarted' /\ VerdictBacked'
    BY <1>1, <2>1, <2>2 DEF PendingNodeIdle, Deliverable, NotStarted, VerdictBacked
  <2> QED
    BY <1>1, <1>5, <2>1, <2>3, SerialIntro
<1> QED
  BY <1>c, <1>d, <1>e, <1>f, <1>g, SaveGraphFits, ClaimStepFits DEF Perform

LEMMA SettlesFits ==
    ASSUME Serial, SerialInv, TruthInv', NEW n \in AllNodes, SubPlanSettles(n)
    PROVE  SerialInv'
<1>1. /\ UNCHANGED <<dependsOn, orchestrated, graph, run, inv>>
      /\ \A m \in AllNodes : subPlan'[m] = "none" <=> subPlan[m] = "none"
  BY DEF SubPlanSettles, SettleStatus, SerialInv, TruthInv, TypeInv, TypeOK
<1>2. \A m \in AllNodes : Task(m) \in pending' \cup delivered' => Task(m) \in pending \cup delivered
  BY MessagesDistinct DEF SubPlanSettles
<1>3. PendingNodeIdle' /\ NotStarted' /\ VerdictBacked' /\ Ordered(dependsOn, graph)'
  BY <1>1, <1>2 DEF SerialInv, PendingNodeIdle, Deliverable, NotStarted, VerdictBacked
<1>4. ASSUME NEW w \in Workers PROVE Fits(w)'
  <2> DEFINE q1 == pending \cup delivered
             q2 == pending' \cup delivered'
  <2>1. \A e, h : EffectFits(dependsOn, graph, run, q1, e, h) => EffectFits(dependsOn, graph, run, q2, e, h)
    BY <1>2 DEF EffectFits
  <2>2. TodoFits(dependsOn, graph, run, q1, inv[w].todo)
    BY DEF SerialInv, Fits
  <2> HIDE DEF q1, q2
  <2>3. TodoFits(dependsOn, graph, run, q2, inv[w].todo)
    BY <2>1, <2>2 DEF TodoFits
  <2> QED
    BY <1>1, <2>3 DEF Fits, q2
<1> QED
  BY <1>3, <1>4 DEF SerialInv

LEMMA InitSerial == Init => SerialInv
<1> SUFFICES ASSUME Init PROVE SerialInv
  OBVIOUS
<1>1. TruthInv
  BY InitTruth
<1>2. Ordered(dependsOn, graph) /\ NotStarted
  BY DEF Init, Ordered, NewGraph, NotStarted, AllNodes
<1>3. PendingNodeIdle
  BY MessagesDistinct DEF Init, PendingNodeIdle, Deliverable
<1>4. VerdictBacked
  BY DEF Init, VerdictBacked
<1>5. \A w \in Workers : Fits(w)
  BY IdleFacts DEF Init, Fits, TodoFits
<1> QED
  BY <1>1, <1>2, <1>3, <1>4, <1>5 DEF SerialInv

LEMMA NextSerial ==
    ASSUME Serial, SerialInv, [Next]_vars
    PROVE  SerialInv'
<1>1. TruthInv'
  BY NextTruth DEF SerialInv, Exclusive
<1>2. CASE UNCHANGED vars
  BY <1>1, <1>2 DEF vars, store, SerialInv, PendingNodeIdle, Deliverable, NotStarted, VerdictBacked, Fits
<1> QED
  BY <1>1, <1>2, TriggerFits, TaskFits, CompletedFits, PerformFits, SettlesFits DEF Next

LEMMA SerialInvariant == Serial => (Spec => []SerialInv)
<1> SUFFICES ASSUME Serial PROVE Spec => []SerialInv
  OBVIOUS
<1>1. SerialInv /\ [Next]_vars => SerialInv'
  BY NextSerial
<1> QED
  BY <1>1, InitSerial, PTL DEF Spec

\* The saved graph never shows a started node with an unfinished dependency,
\* whichever effects a crash cut off and whatever is delivered again, as long as
\* invocations do not overlap (claim_ready_nodes, advance_task_graph).
THEOREM StepsDependencyOrder == Serial => (Spec => []DependencyOrder)
<1>1. SerialInv => DependencyOrder
  BY DEF SerialInv, Ordered, DependencyOrder
<1> QED
  BY <1>1, SerialInvariant, PTL

\* The verdict Prism shows is carried by the graph in the store at every moment,
\* also after an invocation that ended half-way: the graph is saved before the
\* run is patched, and nothing saved later contradicts the verdict.
THEOREM StepsVerdictBacked == Serial => (Spec => []VerdictBacked)
<1>1. SerialInv => VerdictBacked
  BY DEF SerialInv
<1> QED
  BY <1>1, SerialInvariant, PTL

\* A task event is never enqueued a second time: neither a redelivered trigger
\* or completion nor the retry of an invocation that ended half-way dispatches a
\* node again, when invocations do not overlap.
THEOREM StepsSingleDispatch == Serial => (Spec => []SingleDispatch)
<1> SUFFICES ASSUME Serial PROVE Spec => []SingleDispatch
  OBVIOUS
<1>1. SerialInv => SingleDispatch
  <2> SUFFICES ASSUME SerialInv, NEW n \in AllNodes, NEW w \in Workers, Task(n) \in Outgoing(w)
               PROVE  ~Deliverable(Task(n)) /\ \A v \in Workers \ {w} : Task(n) \notin Outgoing(v)
    BY DEF SingleDispatch, DispatchedOnlyOnce
  <2>1. \A v \in Workers \ {w} : FALSE
    BY DEF Serial
  <2>2. PICK i \in DOMAIN Todo(w) : Todo(w)[i].op = "enqueue" /\ Task(n) \in Todo(w)[i].msgs
    BY DEF Outgoing
  <2>3. Todo(w) \in Seq(Effect)
    BY InvocationTypes DEF SerialInv, TruthInv, TypeInv
  <2>4. i \in 1 .. Len(Todo(w))
    BY <2>2, <2>3
  <2>5. Task(n) \notin pending \cup delivered
    BY <2>2, <2>4 DEF SerialInv, Fits, TodoFits, EffectFits, Todo
  <2> QED
    BY <2>1, <2>5 DEF Deliverable
<1> QED
  BY <1>1, SerialInvariant, PTL
-----------------------------------------------------------------------------
(***************************************************************************)
(* The third invariant asks nothing of the surroundings: no message is     *)
(* ever dropped, so what has been reported stays reported, even when two   *)
(* invocations handle the same message and take back each other's graph    *)
(* and sub-plans.  Everything that starts a node, or says that it is done, *)
(* rests on such reports.                                                  *)
(***************************************************************************)
Reported == {n \in AllNodes : Deliverable(Settled(n, "completed"))}

DependenciesIn(d, R, n) == IF n \in Nodes THEN d[n] \subseteq R ELSE Nodes \subseteq R

GraphReported(d, R, g) ==
    \A n \in AllNodes : /\ g[n] = COMPLETED => n \in R
                        /\ g[n] # PENDING => DependenciesIn(d, R, n)

\* The message m is about node n.
About(m, n) == m = Task(n) \/ m = Action(n) \/ \E s \in SettleStatus : m = Settled(n, s)

MessageReported(d, R, m) == \A n \in AllNodes : About(m, n) => DependenciesIn(d, R, n)

EffectReported(d, R, e) ==
    /\ e.op = "save_task_graph" => GraphReported(d, R, e.graph)
    /\ e.op = "save_plan" => DependenciesIn(d, R, e.node)
    /\ e.op = "enqueue" => \A m \in e.msgs : MessageReported(d, R, m)
    /\ e.op = "update_agent_run_status" /\ e.status = "completed" => AllNodes \subseteq R

TodoReported(d, R, todo) == \A i \in 1 .. Len(todo) : EffectReported(d, R, todo[i])

PlansReported(d, R, sp) == \A n \in AllNodes : sp[n] # "none" => DependenciesIn(d, R, n)

RestsOnReports ==
    /\ GraphReported(dependsOn, Reported, graph)
    /\ PlansReported(dependsOn, Reported, subPlan)
    /\ \A m \in pending \cup delivered : MessageReported(dependsOn, Reported, m)
    /\ \A w \in Workers : TodoReported(dependsOn, Reported, inv[w].todo)
    /\ run = "completed" => AllNodes \subseteq Reported

ReportInv == TypeInv /\ InQueue /\ RestsOnReports

\* What rests on reports rests on more of them.
LEMMA ReportsGrow ==
    ASSUME NEW d, NEW R, NEW S, R \subseteq S
    PROVE  /\ \A n : DependenciesIn(d, R, n) => DependenciesIn(d, S, n)
           /\ \A g : GraphReported(d, R, g) => GraphReported(d, S, g)
           /\ \A m : MessageReported(d, R, m) => MessageReported(d, S, m)
           /\ \A p : PlansReported(d, R, p) => PlansReported(d, S, p)
           /\ \A todo : TodoReported(d, R, todo) => TodoReported(d, S, todo)
<1>1. \A n : DependenciesIn(d, R, n) => DependenciesIn(d, S, n)
  BY DEF DependenciesIn
<1>2. \A g : GraphReported(d, R, g) => GraphReported(d, S, g)
  BY <1>1 DEF GraphReported
<1>3. \A m : MessageReported(d, R, m) => MessageReported(d, S, m)
  BY <1>1 DEF MessageReported
<1>4. \A p : PlansReported(d, R, p) => PlansReported(d, S, p)
  BY <1>1 DEF PlansReported
<1>5. \A e : EffectReported(d, R, e) => EffectReported(d, S, e)
  BY <1>1, <1>2, <1>3 DEF EffectReported
<1>6. \A todo : TodoReported(d, R, todo) => TodoReported(d, S, todo)
  BY <1>5 DEF TodoReported
<1> QED
  BY <1>1, <1>2, <1>3, <1>4, <1>6

LEMMA AboutNode ==
    /\ \A n : About(Task(n), n) /\ About(Action(n), n)
    /\ \A n, s : s \in SettleStatus => About(Settled(n, s), n)
    /\ \A m, n : About(Task(m), n) \/ About(Action(m), n) => m = n
    /\ \A m, n, s : About(Settled(m, s), n) => m = n
    /\ \A n : ~About(Trigger, n)
BY MessagesDistinct DEF About

\* A step whose results rest on the reports there were before it.
LEMMA ReportStep ==
    ASSUME ReportInv, [Next]_vars, UNCHANGED dependsOn,
           GraphReported(dependsOn, Reported, graph'),
           PlansReported(dependsOn, Reported, subPlan'),
           \A m \in pending' \cup delivered' : MessageReported(dependsOn, Reported, m),
           \A w \in Workers : TodoReported(dependsOn, Reported, inv'[w].todo),
           run' = "completed" => AllNodes \subseteq Reported
    PROVE  RestsOnReports'
<1> DEFINE S == Reported'
<1>1. Reported \subseteq S
  BY QueueGrows DEF Reported, Deliverable
<1> HIDE DEF S
<1>2. /\ GraphReported(dependsOn, S, graph')
      /\ PlansReported(dependsOn, S, subPlan')
      /\ \A m \in pending' \cup delivered' : MessageReported(dependsOn, S, m)
      /\ \A w \in Workers : TodoReported(dependsOn, S, inv'[w].todo)
      /\ run' = "completed" => AllNodes \subseteq S
  BY <1>1, ReportsGrow
<1> QED
  BY <1>2 DEF RestsOnReports, S

\* The same for a step of worker w.
LEMMA WorkerReportStep ==
    ASSUME ReportInv, [Next]_vars, UNCHANGED dependsOn,
           NEW w \in Workers, \A v \in Workers \ {w} : inv'[v] = inv[v],
           TodoReported(dependsOn, Reported, inv'[w].todo),
           GraphReported(dependsOn, Reported, graph'),
           PlansReported(dependsOn, Reported, subPlan'),
           \A m \in pending' \cup delivered' : MessageReported(dependsOn, Reported, m),
           run' = "completed" => AllNodes \subseteq Reported
    PROVE  RestsOnReports'
<1>1. \A v \in Workers : TodoReported(dependsOn, Reported, inv'[v].todo)
  BY DEF ReportInv, RestsOnReports
<1> QED
  BY <1>1, ReportStep

\* The join and the first claim only start nodes whose dependencies reported.
LEMMA ClaimReported ==
    ASSUME NEW d \in Dependencies, NEW R, NEW g \in Graph, GraphReported(d, R, g)
    PROVE  /\ \A m \in ReadyNodes(d, g) : m \in Nodes /\ DependenciesIn(d, R, m)
           /\ GraphReported(d, R, ClaimReady(d, g))
<1>1. \A m \in ReadyNodes(d, g) : m \in Nodes /\ DependenciesIn(d, R, m)
  BY DEF ReadyNodes, CompletedNodeIds, GraphReported, DependenciesIn, AllNodes
<1>2. \A m \in AllNodes : ClaimReady(d, g)[m] = IF m \in ReadyNodes(d, g) THEN RUNNING ELSE g[m]
  BY DEF ClaimReady, WithNodeStatus
<1> QED
  BY <1>1, <1>2 DEF GraphReported, PENDING, RUNNING, COMPLETED

LEMMA PlanAdvanceReported ==
    ASSUME NEW d \in Dependencies, NEW R, NEW g \in Graph,
           NEW n \in AllNodes, NEW st \in {COMPLETED, FAILED},
           GraphReported(d, R, g), DependenciesIn(d, R, n), st = COMPLETED => n \in R
    PROVE  LET adv == PlanAdvance(d, g, n, st)
           IN  /\ GraphReported(d, R, adv.graph)
               /\ \A m \in adv.newlyReady \cup adv.dispatchSynthesizer : DependenciesIn(d, R, m)
               /\ adv.runCompleted => AllNodes \subseteq R
<1> DEFINE h == WithNodeStatus(g, {n}, st)
           joins == st = COMPLETED /\ n \in Nodes
           ready == IF joins THEN ReadyNodes(d, h) ELSE {}
           joined == joins /\ ready = {} /\ AllNodesCompleted(h)
           synth == IF joined THEN {t \in Synthesizers : h[t] = PENDING} ELSE {}
           adv == PlanAdvance(d, g, n, st)
<1>0. /\ adv.graph = WithNodeStatus(h, ready \cup synth, RUNNING)
      /\ adv.newlyReady = ready /\ adv.dispatchSynthesizer = synth
      /\ adv.runCompleted = (\/ st = COMPLETED /\ n \in Synthesizers
                             \/ joined /\ \A t \in Synthesizers : h[t] = COMPLETED)
  BY DEF PlanAdvance
<1>1. h \in Graph /\ \A m \in AllNodes : h[m] = IF m = n THEN st ELSE g[m]
  BY DEF WithNodeStatus, Graph, SubTaskStatus
<1>2. GraphReported(d, R, h)
  BY <1>1 DEF GraphReported
<1> HIDE DEF h
<1>3. \A m \in ready : m \in Nodes /\ DependenciesIn(d, R, m)
  BY <1>1, <1>2, ClaimReported
<1>4. joined => Nodes \subseteq R
  BY <1>2 DEF AllNodesCompleted, CompletedNodeIds, GraphReported, AllNodes
<1>5. \A m \in synth : m \in Synthesizers /\ DependenciesIn(d, R, m)
  BY <1>4, TaskGraphAssumption DEF DependenciesIn
<1>6. joined /\ (\A t \in Synthesizers : h[t] = COMPLETED) => AllNodes \subseteq R
  BY <1>2, <1>4 DEF GraphReported, AllNodes
<1>7. st = COMPLETED /\ n \in Synthesizers => AllNodes \subseteq R
  BY TaskGraphAssumption DEF DependenciesIn, AllNodes
<1> HIDE DEF ready, synth, joined
<1>8. GraphReported(d, R, WithNodeStatus(h, ready \cup synth, RUNNING))
  <2>1. \A m \in AllNodes : WithNodeStatus(h, ready \cup synth, RUNNING)[m]
                            = IF m \in ready \cup synth THEN RUNNING ELSE h[m]
    BY DEF WithNodeStatus
  <2> QED
    BY <1>2, <1>3, <1>5, <2>1 DEF GraphReported, PENDING, RUNNING, COMPLETED
<1> QED
  BY <1>0, <1>3, <1>5, <1>6, <1>7, <1>8

LEMMA InitReport == Init => ReportInv
<1> SUFFICES ASSUME Init PROVE ReportInv
  OBVIOUS
<1>1. TypeInv
  BY InitTypeInv
<1>2. \A w \in Workers : inv[w] = Idle
  BY DEF Init
<1>3. InQueue /\ \A w \in Workers : TodoReported(dependsOn, Reported, inv[w].todo)
  BY <1>2, IdleFacts DEF InQueue, TodoReported
<1>4. GraphReported(dependsOn, Reported, graph)
  BY DEF Init, GraphReported, NewGraph, PENDING, COMPLETED
<1>5. \A m \in pending \cup delivered : MessageReported(dependsOn, Reported, m)
  BY AboutNode DEF Init, MessageReported
<1>6. PlansReported(dependsOn, Reported, subPlan) /\ run # "completed"
  BY DEF Init, PlansReported
<1> QED
  BY <1>1, <1>3, <1>4, <1>5, <1>6 DEF ReportInv, RestsOnReports

LEMMA TriggerReport ==
    ASSUME ReportInv, [Next]_vars, NEW w \in Workers, BeginTrigger(w)
    PROVE  RestsOnReports'
<1>1. /\ \A v \in Workers \ {w} : inv'[v] = inv[v]
      /\ inv'[w].todo = TriggerEffects
  BY InvokeInv, MessageTypes DEF BeginTrigger, ReportInv, TypeInv
<1>2. GraphReported(dependsOn, Reported, NewGraph)
  BY DEF GraphReported, NewGraph, PENDING, COMPLETED
<1>3. TodoReported(dependsOn, Reported, TriggerEffects)
  <2>1. CASE TriggerEffects = <<>>
    BY <2>1 DEF TodoReported
  <2>2. CASE TriggerEffects = <<SaveTaskGraph(NewGraph), ClaimReadyNodes>>
    BY <1>2, <2>2 DEF TodoReported, EffectReported, SaveTaskGraph, ClaimReadyNodes
  <2> QED
    BY <2>1, <2>2 DEF TriggerEffects, If
<1> QED
  BY <1>1, <1>3, WorkerReportStep DEF BeginTrigger, Invoke, ReportInv, RestsOnReports

LEMMA ContinuationReported ==
    ASSUME NEW d, NEW R, NEW n \in AllNodes, NEW p \in SubPlanState, DependenciesIn(d, R, n)
    PROVE  \A m \in Continuation(n, p) : MessageReported(d, R, m)
BY AboutNode DEF Continuation, MessageReported

LEMMA TaskReport ==
    ASSUME ReportInv, [Next]_vars, NEW w \in Workers, NEW n \in AllNodes, BeginTask(w, n)
    PROVE  RestsOnReports'
<1>1. PICK todo \in TaskEffects(n) : Invoke(w, Task(n), todo)
  BY DEF BeginTask
<1>2. /\ \A v \in Workers \ {w} : inv'[v] = inv[v]
      /\ inv'[w].todo = todo
      /\ Available(Task(n))
  BY <1>1, InvokeInv, MessageTypes DEF ReportInv, TypeInv
<1>3. DependenciesIn(dependsOn, Reported, n)
  BY <1>2, AboutNode DEF Available, Deliverable, ReportInv, RestsOnReports, MessageReported
<1>4. \A p \in SubPlanState : \A m \in Continuation(n, p) : MessageReported(dependsOn, Reported, m)
  BY <1>3, ContinuationReported
<1>5. TodoReported(dependsOn, Reported, todo)
  <2>1. CASE todo = <<>>
    BY <2>1 DEF TodoReported
  <2>2. CASE todo = <<Enqueue(Continuation(n, subPlan[n]))>>
    <3>1. subPlan[n] \in SubPlanState
      BY DEF ReportInv, TypeInv, TypeOK
    <3> QED
      BY <1>4, <2>2, <3>1 DEF TodoReported, EffectReported, Enqueue
  <2>3. ASSUME NEW p \in {"open", "empty"},
               todo = <<SavePlan(n, p, results), Enqueue(Continuation(n, p))>>
        PROVE  TodoReported(dependsOn, Reported, todo)
    <3>1. EffectReported(dependsOn, Reported, SavePlan(n, p, results))
      BY <1>3 DEF EffectReported, SavePlan
    <3>2. EffectReported(dependsOn, Reported, Enqueue(Continuation(n, p)))
      BY <1>4 DEF EffectReported, Enqueue, SubPlanState
    <3> QED
      BY <2>3, <3>1, <3>2 DEF TodoReported
  <2> QED
    BY <2>1, <2>2, <2>3 DEF TaskEffects
<1> QED
  BY <1>1, <1>2, <1>5, WorkerReportStep DEF BeginTask, Invoke, ReportInv, RestsOnReports

LEMMA CompletedReport ==
    ASSUME ReportInv, [Next]_vars, NEW w \in Workers, NEW n \in AllNodes, NEW s \in SettleStatus,
           BeginCompleted(w, n, s)
    PROVE  RestsOnReports'
<1> DEFINE adv == PlanAdvance(dependsOn, graph, n, NodeStatusOf(s))
           todo == CompletedEffects(n, s)
<1>0. inv \in [Workers -> Invocation] /\ Settled(n, s) \in Message /\ Invoke(w, Settled(n, s), todo)
  BY MessageTypes DEF BeginCompleted, ReportInv, TypeInv
<1>1. /\ \A v \in Workers \ {w} : inv'[v] = inv[v]
      /\ inv'[w].todo = todo
      /\ Deliverable(Settled(n, s))
  <2> HIDE DEF todo
  <2> QED
    BY <1>0, InvokeInv DEF Available, Deliverable
<1>2. DependenciesIn(dependsOn, Reported, n)
  BY <1>1, AboutNode DEF Deliverable, ReportInv, RestsOnReports, MessageReported
<1>3. TodoReported(dependsOn, Reported, todo)
  <2>1. CASE todo = <<>>
    BY <2>1 DEF TodoReported
  <2>2. CASE todo = AdvanceEffects(n, s, adv)
    <3>1. /\ dependsOn \in Dependencies /\ graph \in Graph
          /\ GraphReported(dependsOn, Reported, graph)
          /\ NodeStatusOf(s) \in {COMPLETED, FAILED}
          /\ NodeStatusOf(s) = COMPLETED => n \in Reported
      BY <1>1 DEF ReportInv, RestsOnReports, TypeInv, TypeOK, NodeStatusOf, Reported, COMPLETED, FAILED
    <3>2. /\ adv.graph \in Graph
          /\ adv.newlyReady \cup adv.dispatchSynthesizer \subseteq AllNodes
      BY <3>1, AdvanceTypes DEF AllNodes
    <3>3. /\ GraphReported(dependsOn, Reported, adv.graph)
          /\ \A m \in adv.newlyReady \cup adv.dispatchSynthesizer : DependenciesIn(dependsOn, Reported, m)
          /\ adv.runCompleted => AllNodes \subseteq Reported
      BY <1>2, <3>1, PlanAdvanceReported
    <3> HIDE DEF adv
    <3> DEFINE tasks == {Task(m) : m \in adv.newlyReady \cup adv.dispatchSynthesizer}
    <3>4. tasks \subseteq Message /\ \A m \in tasks : MessageReported(dependsOn, Reported, m)
      BY <3>2, <3>3, MessageTypes, AboutNode DEF MessageReported
    <3>5. \A i \in 1 .. Len(todo) :
             \/ todo[i] = SaveTaskGraph(adv.graph)
             \/ todo[i] = SaveResult(n)
             \/ todo[i] = Enqueue(tasks)
             \/ adv.runCompleted /\ todo[i] = PatchRun("completed")
             \/ todo[i] = PatchRun("failed")
      BY <2>2, <3>2, <3>4, AdvanceElements
    <3> HIDE DEF tasks, todo
    <3>6. EffectReported(dependsOn, Reported, SaveTaskGraph(adv.graph))
      BY <3>3 DEF EffectReported, SaveTaskGraph
    <3>7. EffectReported(dependsOn, Reported, Enqueue(tasks))
      BY <3>4 DEF EffectReported, Enqueue
    <3>8. /\ EffectReported(dependsOn, Reported, SaveResult(n))
          /\ EffectReported(dependsOn, Reported, PatchRun("failed"))
      BY DEF EffectReported, SaveResult, PatchRun
    <3>9. adv.runCompleted => EffectReported(dependsOn, Reported, PatchRun("completed"))
      BY <3>3 DEF EffectReported, PatchRun
    <3> QED
      BY <3>5, <3>6, <3>7, <3>8, <3>9 DEF TodoReported
  <2> QED
    BY <2>1, <2>2 DEF CompletedEffects, If
<1> HIDE DEF todo
<1> QED
  BY <1>1, <1>3, WorkerReportStep DEF BeginCompleted, Invoke, ReportInv, RestsOnReports

\* What an invocation has left to do after its first effect.
LEMMA TailReported ==
    ASSUME NEW d, NEW R, NEW todo \in Seq(Effect), todo # <<>>, TodoReported(d, R, todo)
    PROVE  EffectReported(d, R, Head(todo)) /\ TodoReported(d, R, Tail(todo))
<1>1. /\ \A i \in 1 .. Len(Tail(todo)) : Tail(todo)[i] = todo[i + 1] /\ i + 1 \in 1 .. Len(todo)
      /\ Head(todo) = todo[1] /\ 1 \in 1 .. Len(todo)
  BY HeadTailProperties
<1> QED
  BY <1>1 DEF TodoReported

LEMMA EnqueueReported ==
    ASSUME NEW d, NEW R, NEW todo \in Seq(Effect), todo # <<>>, Head(todo).op = "enqueue",
           TodoReported(d, R, todo), NEW m \in Head(todo).msgs
    PROVE  /\ MessageReported(d, R, m)
           /\ LET left == Head(todo).msgs \ {m}
              IN  TodoReported(d, R, If(left # {}, <<Enqueue(left)>>) \o Tail(todo))
<1> DEFINE left == Head(todo).msgs \ {m}
           rest == Tail(todo)
<1>1. /\ \A k \in Head(todo).msgs : MessageReported(d, R, k)
      /\ TodoReported(d, R, rest)
  BY TailReported DEF EffectReported
<1>2. rest \in Seq(Effect) /\ Head(todo) \in Effect
  BY HeadTailProperties
<1>3. CASE left = {}
  <2>1. If(left # {}, <<Enqueue(left)>>) \o rest = rest
    BY <1>2, <1>3, ConcatEmptySeq DEF If
  <2> QED
    BY <1>1, <2>1
<1>4. CASE left # {}
  <2> DEFINE first == <<Enqueue(left)>>
  <2>1. first \in Seq(Effect)
    BY <1>2, EffectFields, EffectTypes
  <2>2. EffectReported(d, R, Enqueue(left))
    BY <1>1 DEF Enqueue, EffectReported
  <2>3. \A i \in 1 .. Len(first) : EffectReported(d, R, first[i])
    BY <2>2
  <2> HIDE DEF first, rest
  <2>4. ASSUME NEW i \in 1 .. Len(first \o rest) PROVE EffectReported(d, R, (first \o rest)[i])
    <3>1. \A j \in 1 .. Len(rest) : EffectReported(d, R, rest[j])
      BY <1>1 DEF rest, TodoReported
    <3>2. \/ i \in 1 .. Len(first) /\ (first \o rest)[i] = first[i]
          \/ i - Len(first) \in 1 .. Len(rest) /\ (first \o rest)[i] = rest[i - Len(first)]
      BY <1>2, <2>1, ConcatElement
    <3> QED
      BY <2>3, <3>1, <3>2
  <2>5. If(left # {}, <<Enqueue(left)>>) \o rest = first \o rest
    BY <1>4 DEF If, first
  <2> QED
    BY <1>1, <2>4, <2>5 DEF TodoReported, rest
<1> QED
  BY <1>3, <1>4

LEMMA PerformReport ==
    ASSUME ReportInv, [Next]_vars, NEW w \in Workers, Perform(w) \/ Crash(w)
    PROVE  RestsOnReports'
<1> DEFINE d == dependsOn
           R == Reported
           todo == inv[w].todo
           e == Head(todo)
<1>1. /\ inv \in [Workers -> Invocation] /\ todo \in Seq(Effect)
      /\ d \in Dependencies /\ graph \in Graph /\ subPlan \in [AllNodes -> SubPlanState]
  BY InvocationTypes DEF ReportInv, TypeInv, TypeOK, Todo
<1>2. /\ GraphReported(d, R, graph) /\ PlansReported(d, R, subPlan) /\ TodoReported(d, R, todo)
      /\ \A m \in pending \cup delivered : MessageReported(d, R, m)
      /\ run = "completed" => AllNodes \subseteq R
  BY DEF ReportInv, RestsOnReports
<1>3. todo # <<>> => EffectReported(d, R, e) /\ TodoReported(d, R, Tail(todo)) /\ e \in Effect
  BY <1>1, <1>2, TailReported
<1>4. \A v \in Workers \ {w} : inv'[v] = inv[v]
  BY <1>1, PerformInv
<1>5. ASSUME NEW rest, todo # <<>>, Proceed(w, rest) PROVE inv'[w].todo = rest
  BY <1>1, <1>5, ProceedInv DEF Todo
<1>6. TodoReported(d, R, Idle.todo)
  BY IdleFacts DEF TodoReported
<1> HIDE DEF R
<1>a. CASE DoSaveTaskGraph(w)
  <2>1. todo # <<>> /\ e.op = "save_task_graph" /\ graph' = e.graph /\ Proceed(w, Tail(todo))
    BY <1>a DEF DoSaveTaskGraph, NextIs, Todo
  <2>2. GraphReported(d, R, graph') /\ TodoReported(d, R, inv'[w].todo)
    BY <1>3, <1>5, <2>1 DEF EffectReported
  <2> QED
    BY <1>2, <1>4, <1>a, <2>2, WorkerReportStep DEF DoSaveTaskGraph, R
<1>b. CASE DoClaimReadyNodes(w)
  <2>1. todo # <<>> /\ Proceed(w, ClaimEffects)
    BY <1>b DEF DoClaimReadyNodes, NextIs, Todo
  <2>2. TodoReported(d, R, ClaimEffects)
    <3> DEFINE ready == ReadyNodes(dependsOn, graph)
               tasks == {Task(n) : n \in ready}
    <3>1. /\ \A m \in ready : m \in Nodes /\ DependenciesIn(d, R, m)
          /\ GraphReported(d, R, ClaimReady(dependsOn, graph))
      BY <1>1, <1>2, ClaimReported
    <3> HIDE DEF ready
    <3>2. \A m \in tasks : MessageReported(d, R, m)
      BY <3>1, AboutNode DEF MessageReported
    <3> HIDE DEF tasks
    <3>3. /\ EffectReported(d, R, SaveTaskGraph(ClaimReady(dependsOn, graph)))
          /\ EffectReported(d, R, PatchRun("failed"))
          /\ EffectReported(d, R, Enqueue(tasks))
      BY <3>1, <3>2 DEF EffectReported, SaveTaskGraph, PatchRun, Enqueue
    <3>4. \/ ClaimEffects = <<PatchRun("failed")>>
          \/ ClaimEffects = <<SaveTaskGraph(ClaimReady(dependsOn, graph)), Enqueue(tasks)>>
      BY DEF ClaimEffects, ready, tasks
    <3> QED
      BY <3>3, <3>4 DEF TodoReported
  <2>3. TodoReported(d, R, inv'[w].todo)
    BY <1>5, <2>1, <2>2
  <2> QED
    BY <1>2, <1>4, <1>b, <2>3, WorkerReportStep DEF DoClaimReadyNodes, store, R
<1>c. CASE DoSavePlan(w)
  <2>1. /\ todo # <<>> /\ e.op = "save_plan" /\ Proceed(w, Tail(todo))
        /\ subPlan' = [subPlan EXCEPT ![e.node] = e.plan]
    BY <1>c DEF DoSavePlan, NextIs, Todo
  <2>2. DependenciesIn(d, R, e.node) /\ TodoReported(d, R, inv'[w].todo)
    BY <1>3, <1>5, <2>1 DEF EffectReported
  <2>3. \A n \in AllNodes : n # e.node => subPlan'[n] = subPlan[n]
    BY <1>1, <2>1
  <2>4. PlansReported(d, R, subPlan')
    BY <1>2, <2>2, <2>3 DEF PlansReported
  <2> QED
    BY <1>2, <1>4, <1>c, <2>2, <2>4, WorkerReportStep DEF DoSavePlan, R
<1>d. CASE DoSaveResult(w)
  <2>1. TodoReported(d, R, inv'[w].todo)
    BY <1>3, <1>5, <1>d DEF DoSaveResult, NextIs, Todo
  <2> QED
    BY <1>2, <1>4, <1>d, <2>1, WorkerReportStep DEF DoSaveResult, R
<1>e. CASE DoPatchRun(w)
  <2>1. todo # <<>> /\ e.op = "update_agent_run_status" /\ Proceed(w, Tail(todo)) /\ run' = e.status
    BY <1>e DEF DoPatchRun, NextIs, Todo
  <2>2. TodoReported(d, R, inv'[w].todo) /\ (run' = "completed" => AllNodes \subseteq R)
    BY <1>3, <1>5, <2>1 DEF EffectReported
  <2> QED
    BY <1>2, <1>4, <1>e, <2>2, WorkerReportStep DEF DoPatchRun, R
<1>f. CASE DoEnqueue(w)
  <2>1. todo # <<>> /\ e.op = "enqueue"
    BY <1>f DEF DoEnqueue, NextIs, Todo
  <2>2. PICK m \in e.msgs :
           /\ pending' = pending \cup {m}
           /\ Proceed(w, If(e.msgs \ {m} # {}, <<Enqueue(e.msgs \ {m})>>) \o Tail(todo))
    BY <1>f DEF DoEnqueue, Todo
  <2>3. /\ MessageReported(d, R, m)
        /\ TodoReported(d, R, If(e.msgs \ {m} # {}, <<Enqueue(e.msgs \ {m})>>) \o Tail(todo))
    BY <1>1, <1>2, <2>1, EnqueueReported
  <2>4. TodoReported(d, R, inv'[w].todo)
    BY <1>5, <2>1, <2>2, <2>3
  <2>5. \A k \in pending' \cup delivered' : MessageReported(d, R, k)
    BY <1>2, <1>f, <2>2, <2>3 DEF DoEnqueue
  <2> QED
    BY <1>2, <1>4, <1>f, <2>4, <2>5, WorkerReportStep DEF DoEnqueue, store, R
<1>g. CASE End(w)
  <2>1. inv'[w] = Idle /\ inv[w] # Idle
    BY <1>1, <1>g DEF End
  <2>2. MessageReported(d, R, inv[w].msg)
    BY <1>2, <2>1 DEF ReportInv, InQueue, Deliverable
  <2>3. \A k \in pending' \cup delivered' : MessageReported(d, R, k)
    BY <1>2, <1>g, <2>2 DEF End
  <2> QED
    BY <1>2, <1>4, <1>6, <1>g, <2>1, <2>3, WorkerReportStep DEF End, store, R
<1>h. CASE Crash(w)
  <2>1. inv'[w] = Idle
    BY <1>1, <1>h DEF Crash
  <2> QED
    BY <1>2, <1>4, <1>6, <1>h, <2>1, WorkerReportStep DEF Crash, store, R
<1> QED
  BY <1>a, <1>b, <1>c, <1>d, <1>e, <1>f, <1>g, <1>h DEF Perform

LEMMA SettlesReport ==
    ASSUME ReportInv, [Next]_vars, NEW n \in AllNodes, SubPlanSettles(n)
    PROVE  RestsOnReports'
<1>1. UNCHANGED <<dependsOn, graph, run, inv>>
  BY DEF SubPlanSettles
<1>2. DependenciesIn(dependsOn, Reported, n)
  BY AboutNode DEF SubPlanSettles, Available, Deliverable, ReportInv, RestsOnReports, MessageReported
<1>3. \A m \in AllNodes : m # n => subPlan'[m] = subPlan[m]
  BY DEF SubPlanSettles, ReportInv, TypeInv, TypeOK
<1>4. PlansReported(dependsOn, Reported, subPlan')
  BY <1>2, <1>3 DEF PlansReported, ReportInv, RestsOnReports
<1>5. \A m \in pending' \cup delivered' :
         \/ m \in pending \cup delivered
         \/ m = Action(n)
         \/ \E s \in SettleStatus : m = Settled(n, s)
  BY DEF SubPlanSettles, SettleStatus
<1>6. \A m \in pending' \cup delivered' : MessageReported(dependsOn, Reported, m)
  <2>1. MessageReported(dependsOn, Reported, Action(n))
    BY <1>2, AboutNode DEF MessageReported
  <2>2. \A s \in SettleStatus : MessageReported(dependsOn, Reported, Settled(n, s))
    BY <1>2, AboutNode DEF MessageReported
  <2> QED
    BY <1>5, <2>1, <2>2 DEF ReportInv, RestsOnReports
<1> QED
  BY <1>1, <1>4, <1>6, ReportStep DEF ReportInv, RestsOnReports

LEMMA NextReport ==
    ASSUME ReportInv, [Next]_vars
    PROVE  ReportInv'
<1>1. TypeInv' /\ InQueue'
  BY NextTypeInv, InQueueStep DEF ReportInv
<1>2. CASE UNCHANGED vars
  <2>1. RestsOnReports'
    BY <1>2 DEF ReportInv, RestsOnReports, Reported, Deliverable, vars, store
  <2> QED
    BY <1>1, <2>1 DEF ReportInv
<1>3. CASE Next
  <2>1. RestsOnReports'
    BY <1>3, TriggerReport, TaskReport, CompletedReport, PerformReport, SettlesReport DEF Next
  <2> QED
    BY <1>1, <2>1 DEF ReportInv
<1> QED
  BY <1>2, <1>3

LEMMA ReportInvariant == Spec => []ReportInv
<1>1. ReportInv /\ [Next]_vars => ReportInv'
  BY NextReport
<1> QED
  BY <1>1, InitReport, PTL DEF Spec

\* A node is planned only after the nodes it depends on have reported their
\* completion, and the synthesizer and the verdict come after all of them: for any
\* number of parallel invocations, of the same message too, any crashes and any
\* redelivery.  The unconditional save_task_graph may repeat work; it does not
\* start or end work early.
THEOREM ReportsComeFirstHolds == Spec => []ReportsComeFirst
<1>1. ReportInv => PlannedAfterReports
  <2> SUFFICES ASSUME ReportInv PROVE PlannedAfterReports
    OBVIOUS
  <2>1. \A n \in AllNodes : subPlan[n] # "none" => DependenciesIn(dependsOn, Reported, n)
    BY DEF ReportInv, RestsOnReports, PlansReported
  <2> QED
    BY <2>1, TaskGraphAssumption DEF DependenciesIn, Reported, PlannedAfterReports, AllNodes
<1>2. ReportInv => CompletedAfterReports
  BY DEF ReportInv, RestsOnReports, Reported, CompletedAfterReports
<1>3. ReportInv => ReportsComeFirst
  BY <1>1, <1>2 DEF ReportsComeFirst
<1> QED
  BY <1>3, ReportInvariant, PTL
=============================================================================
