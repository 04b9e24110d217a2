-------------------- MODULE OrchestrationRefinementProofs --------------------
(***************************************************************************)
(* The handlers taken apart implement the atomic ones, up to the first     *)
(* invocation that ends half-way: the step that begins an invocation is    *)
(* the atomic handler, the effects that follow change nothing the atomic   *)
(* specification sees.  Invocations do not overlap (Serial).               *)
(***************************************************************************)
EXTENDS OrchestrationRefinement, OrchestrationStepsProofs

-----------------------------------------------------------------------------
(***************************************************************************)
(* The operators both specifications share, and effects as sets.           *)
(***************************************************************************)
LEMMA SameMessages ==
    /\ Atomic!Trigger = Trigger
    /\ \A n : Atomic!Task(n) = Task(n)
    /\ \A n, s : Atomic!Settled(n, s) = Settled(n, s)
BY DEF Atomic!Trigger, Trigger, Atomic!Task, Task, Atomic!Settled, Settled

LEMMA SameGraphs ==
    /\ Atomic!AllNodes = AllNodes /\ Atomic!NewGraph = NewGraph
    /\ Atomic!COMPLETED = COMPLETED /\ Atomic!FAILED = FAILED
    /\ Atomic!SettleStatus = SettleStatus /\ Atomic!RunTerminal = RunTerminal
    /\ \A d, g : Atomic!ReadyNodes(d, g) = ReadyNodes(d, g)
    /\ \A d, g : Atomic!ClaimReady(d, g) = ClaimReady(d, g)
    /\ \A g, n, st : Atomic!AlreadyProcessed(g, n, st) <=> AlreadyProcessed(g, n, st)
    /\ \A s : Atomic!NodeStatusOf(s) = NodeStatusOf(s)
    /\ \A d, g, n, st : Atomic!PlanAdvance(d, g, n, st) = PlanAdvance(d, g, n, st)
<1> USE DEF Atomic!AllNodes, AllNodes, Atomic!COMPLETED, COMPLETED, Atomic!FAILED, FAILED,
            Atomic!PENDING, PENDING, Atomic!RUNNING, RUNNING
<1>1. Atomic!AllNodes = AllNodes /\ Atomic!NewGraph = NewGraph
  BY DEF Atomic!NewGraph, NewGraph
<1>2. Atomic!SettleStatus = SettleStatus /\ Atomic!RunTerminal = RunTerminal
  BY DEF Atomic!SettleStatus, SettleStatus, Atomic!RunTerminal, RunTerminal
<1>3. \A g : Atomic!CompletedNodeIds(g) = CompletedNodeIds(g)
  BY DEF Atomic!CompletedNodeIds, CompletedNodeIds
<1>4. \A d, g : Atomic!ReadyNodes(d, g) = ReadyNodes(d, g)
  BY <1>3 DEF Atomic!ReadyNodes, ReadyNodes
<1>5. \A g, ns, st : Atomic!WithNodeStatus(g, ns, st) = WithNodeStatus(g, ns, st)
  BY DEF Atomic!WithNodeStatus, WithNodeStatus
<1>6. \A d, g : Atomic!ClaimReady(d, g) = ClaimReady(d, g)
  BY <1>4, <1>5 DEF Atomic!ClaimReady, ClaimReady
<1>7. \A g : Atomic!AllNodesCompleted(g) = AllNodesCompleted(g)
  BY <1>3 DEF Atomic!AllNodesCompleted, AllNodesCompleted
<1>8. ASSUME NEW d, NEW g, NEW n, NEW st
      PROVE  Atomic!PlanAdvance(d, g, n, st) = PlanAdvance(d, g, n, st)
  <2> DEFINE h1      == Atomic!WithNodeStatus(g, {n}, st)
             h2      == WithNodeStatus(g, {n}, st)
             joins   == st = COMPLETED /\ n \in Nodes
             ready1  == IF joins THEN Atomic!ReadyNodes(d, h1) ELSE {}
             ready2  == IF joins THEN ReadyNodes(d, h2) ELSE {}
             joined1 == joins /\ ready1 = {} /\ Atomic!AllNodesCompleted(h1)
             joined2 == joins /\ ready2 = {} /\ AllNodesCompleted(h2)
             Synth(h, joined) == IF joined THEN {s \in Synthesizers : h[s] = PENDING} ELSE {}
             Advance(h, ready, joined, synth, g2) ==
                [graph               |-> g2,
                 newlyReady          |-> ready,
                 dispatchSynthesizer |-> synth,
                 runCompleted        |-> \/ st = COMPLETED /\ n \in Synthesizers
                                         \/ joined /\ \A s \in Synthesizers : h[s] = COMPLETED,
                 runFailed           |-> st = FAILED,
                 blocked             |-> /\ joins /\ ready = {} /\ ~joined
                                         /\ \A m \in Nodes : h[m] # RUNNING]
  <2>1. h1 = h2
    BY <1>5
  <2>2. ready1 = ready2
    BY <1>4, <2>1
  <2>3. joined1 = joined2
    BY <1>7, <2>1, <2>2
  <2>4. Synth(h1, joined1) = Synth(h2, joined2)
    BY <2>1, <2>3
  <2>5. Atomic!WithNodeStatus(h1, ready1 \cup Synth(h1, joined1), RUNNING)
        = WithNodeStatus(h2, ready2 \cup Synth(h2, joined2), RUNNING)
    BY <1>5, <2>1, <2>2, <2>4
  <2>6. Atomic!PlanAdvance(d, g, n, st)
        = Advance(h1, ready1, joined1, Synth(h1, joined1),
                  Atomic!WithNodeStatus(h1, ready1 \cup Synth(h1, joined1), RUNNING))
    BY Zenon DEF Atomic!PlanAdvance
  <2>7. PlanAdvance(d, g, n, st)
        = Advance(h2, ready2, joined2, Synth(h2, joined2),
                  WithNodeStatus(h2, ready2 \cup Synth(h2, joined2), RUNNING))
    BY Zenon DEF PlanAdvance
  <2> HIDE DEF h1, h2, ready1, ready2, joined1, joined2, Synth, Advance
  <2> QED
    BY <2>1, <2>2, <2>3, <2>4, <2>5, <2>6, <2>7
<1>9. /\ \A s : Atomic!NodeStatusOf(s) = NodeStatusOf(s)
      /\ \A g, n, st : Atomic!AlreadyProcessed(g, n, st) <=> AlreadyProcessed(g, n, st)
  BY DEF Atomic!NodeStatusOf, NodeStatusOf, Atomic!AlreadyProcessed, AlreadyProcessed
<1> QED
  BY <1>1, <1>2, <1>4, <1>6, <1>8, <1>9

LEMMA SomeProperties ==
    /\ \A e : Some({e}) = e
    /\ \A es : es # {} => Some(es) \in es
BY DEF Some

\* The effects of a sequence are those of its parts.
LEMMA ElementsConcat ==
    ASSUME NEW S, NEW s \in Seq(S), NEW t \in Seq(S)
    PROVE  Elements(s \o t) = Elements(s) \cup Elements(t)
<1>1. /\ s \o t \in Seq(S) /\ Len(s \o t) = Len(s) + Len(t)
      /\ Len(s) \in Nat /\ Len(t) \in Nat
  BY ConcatProperties, LenProperties
<1>2. /\ DOMAIN (s \o t) = 1 .. Len(s \o t) /\ DOMAIN s = 1 .. Len(s) /\ DOMAIN t = 1 .. Len(t)
  BY <1>1
<1>3. \A i \in 1 .. Len(s \o t) : (s \o t)[i] \in Elements(s) \cup Elements(t)
  <2> TAKE i \in 1 .. Len(s \o t)
  <2>1. \/ i \in 1 .. Len(s) /\ (s \o t)[i] = s[i]
        \/ i - Len(s) \in 1 .. Len(t) /\ (s \o t)[i] = t[i - Len(s)]
    BY ConcatElement
  <2> QED
    BY <1>2, <2>1 DEF Elements
<1>4. \A i \in 1 .. Len(s) : s[i] \in Elements(s \o t)
  <2>1. \A i \in 1 .. Len(s) : i \in 1 .. Len(s \o t) /\ (s \o t)[i] = s[i]
    BY <1>1, ConcatProperties
  <2> QED
    BY <1>2, <2>1 DEF Elements
<1>5. \A i \in 1 .. Len(t) : t[i] \in Elements(s \o t)
  <2>1. \A i \in 1 .. Len(t) : i + Len(s) \in 1 .. Len(s \o t) /\ (s \o t)[i + Len(s)] = t[i]
    BY <1>1, ConcatProperties
  <2> QED
    BY <1>2, <2>1 DEF Elements
<1>6. Elements(s \o t) \subseteq Elements(s) \cup Elements(t)
  BY <1>2, <1>3 DEF Elements
<1>7. Elements(s) \cup Elements(t) \subseteq Elements(s \o t)
  BY <1>2, <1>4, <1>5 DEF Elements
<1> QED
  BY <1>6, <1>7

LEMMA ElementsSingle ==
    /\ Elements(<<>>) = {}
    /\ \A e : Elements(<<e>>) = {e}
    /\ \A e, f : Elements(<<e, f>>) = {e, f}
BY DEF Elements

LEMMA ElementsTail ==
    ASSUME NEW S, NEW s \in Seq(S), s # <<>>
    PROVE  Elements(s) = {Head(s)} \cup Elements(Tail(s))
<1>1. s = <<Head(s)>> \o Tail(s) /\ <<Head(s)>> \in Seq(S) /\ Tail(s) \in Seq(S)
  BY HeadTailProperties
<1>2. Elements(<<Head(s)>> \o Tail(s)) = Elements(<<Head(s)>>) \cup Elements(Tail(s))
  BY <1>1, ElementsConcat
<1> QED
  BY <1>1, <1>2, ElementsSingle

\* With one worker, what is left to do and in hand is its own.
LEMMA SerialEffects ==
    ASSUME Serial, NEW w \in Workers
    PROVE  /\ Effects = Elements(inv[w].todo) /\ Effects' = Elements(inv'[w].todo)
           /\ InHand = IF inv[w] # Idle THEN {inv[w].msg} ELSE {}
           /\ InHand' = IF inv'[w] # Idle THEN {inv'[w].msg} ELSE {}
<1>1. Workers = {w}
  BY DEF Serial
<1> QED
  BY <1>1 DEF Effects, InHand, Todo

-----------------------------------------------------------------------------
(***************************************************************************)
(* The invariant of the refinement: an invocation never enqueues the       *)
(* message it handles, and claims when the graph is saved.                 *)
(***************************************************************************)
NoEcho(msg, todo) ==
    \A i \in 1 .. Len(todo) :
        /\ todo[i].op = "enqueue" => msg \notin todo[i].msgs
        /\ todo[i].op = "claim_ready_nodes" => msg = Trigger

ClaimsSaved(w) ==
    NoEcho(inv[w].msg, inv[w].todo) /\ (First(inv[w].todo, "claim_ready_nodes") => orchestrated)

RefinementInv == SerialInv /\ \A w \in Workers : ClaimsSaved(w)

\* What a worker has left when it goes on is as quiet as before.
LEMMA TailQuiet ==
    ASSUME NEW d, NEW g, NEW r, NEW queue, NEW msg, NEW todo \in Seq(Effect), todo # <<>>,
           TodoFits(d, g, r, queue, todo), NoEcho(msg, todo)
    PROVE  /\ NoEcho(msg, Tail(todo))
           /\ First(Tail(todo), "claim_ready_nodes") =>
                 Head(todo).op \in {"save_task_graph", "claim_ready_nodes"}
<1>1. /\ Tail(todo) \in Seq(Effect)
      /\ \A i \in 1 .. Len(Tail(todo)) : Tail(todo)[i] = todo[i + 1] /\ i + 1 \in 1 .. Len(todo)
      /\ Head(todo) = todo[1] /\ 1 \in 1 .. Len(todo)
  BY HeadTailProperties
<1>2. NoEcho(msg, Tail(todo))
  BY <1>1 DEF NoEcho
<1>3. First(Tail(todo), "claim_ready_nodes") => \E i \in 1 .. Len(todo) : todo[i].op = "claim_ready_nodes"
  <2>1. Tail(todo) # <<>> => Head(Tail(todo)) = Tail(todo)[1] /\ 1 \in 1 .. Len(Tail(todo))
    BY <1>1, HeadIsFirst
  <2> QED
    BY <1>1, <2>1 DEF First
<1> QED
  BY <1>1, <1>2, <1>3 DEF TodoFits

LEMMA EnqueueQuiet ==
    ASSUME NEW d, NEW g, NEW r, NEW queue, NEW msg, NEW todo \in Seq(Effect), First(todo, "enqueue"),
           TodoFits(d, g, r, queue, todo), NoEcho(msg, todo), NEW m \in Head(todo).msgs
    PROVE  LET left == Head(todo).msgs \ {m}
               new == If(left # {}, <<Enqueue(left)>>) \o Tail(todo)
           IN  m # msg /\ NoEcho(msg, new) /\ ~First(new, "claim_ready_nodes")
<1> DEFINE left == Head(todo).msgs \ {m}
           rest == Tail(todo)
           one == If(left # {}, <<Enqueue(left)>>)
           new == one \o rest
<1>1. /\ rest \in Seq(Effect) /\ todo # <<>> /\ Head(todo) \in Effect
      /\ \A i \in 1 .. Len(rest) : rest[i] = todo[i + 1] /\ i + 1 \in 1 .. Len(todo)
      /\ Head(todo) = todo[1] /\ 1 \in 1 .. Len(todo)
      /\ Head(todo).op = "enqueue"
  BY HeadTailProperties DEF First
<1>2. left \in SUBSET Message /\ msg \notin Head(todo).msgs
  BY <1>1, EffectFields DEF NoEcho
<1>a. Enqueue(left) \in Effect
  BY <1>2, EffectTypes
<1>3. \A i \in 1 .. Len(rest) : /\ rest[i].op = "enqueue" => msg \notin rest[i].msgs
                                /\ rest[i].op # "claim_ready_nodes"
  BY <1>1 DEF NoEcho, TodoFits
<1>4. one \in Seq(Effect)
  BY <1>a DEF If
<1>5. \A i \in 1 .. Len(one) : one[i].op = "enqueue" /\ one[i].msgs = left
  BY DEF If, Enqueue
<1> HIDE DEF left, rest, one
<1>6. new \in Seq(Effect)
  BY <1>1, <1>4, ConcatProperties
<1>7. ASSUME NEW i \in 1 .. Len(new)
      PROVE  (new[i].op = "enqueue" => msg \notin new[i].msgs) /\ new[i].op # "claim_ready_nodes"
  <2>1. \/ i \in 1 .. Len(one) /\ new[i] = one[i]
        \/ i - Len(one) \in 1 .. Len(rest) /\ new[i] = rest[i - Len(one)]
    BY <1>1, <1>4, ConcatElement
  <2>2. msg \notin left
    BY <1>2 DEF left
  <2> QED
    BY <1>3, <1>5, <2>1, <2>2
<1> HIDE DEF new
<1>9. NoEcho(msg, new)
  BY <1>7 DEF NoEcho
<1>10. ~First(new, "claim_ready_nodes")
  BY <1>6, <1>7, HeadIsFirst DEF First
<1>11. m # msg
  BY <1>2
<1> QED
  BY <1>9, <1>10, <1>11 DEF new, one, left, rest

\* What is left when one of the messages msgs was enqueued, as a set.
Unsent(msgs) == IF msgs = {} THEN {} ELSE {Enqueue(msgs)}

LEMMA EnqueueElements ==
    ASSUME NEW rest \in Seq(Effect), NEW left \in SUBSET Message
    PROVE  Elements(If(left # {}, <<Enqueue(left)>>) \o rest) = Unsent(left) \cup Elements(rest)
<1> DEFINE one == If(left # {}, <<Enqueue(left)>>)
<1>1. one \in Seq(Effect)
  BY EffectTypes DEF If
<1>2. Elements(one) = Unsent(left)
  <2>1. CASE left = {}
    <3>1. one = <<>>
      BY <2>1 DEF If
    <3> QED
      BY <2>1, <3>1, ElementsSingle DEF Unsent
  <2>2. CASE left # {}
    <3>1. one = <<Enqueue(left)>>
      BY <2>2 DEF If
    <3> QED
      BY <2>2, <3>1, ElementsSingle DEF Unsent
  <2> QED
    BY <2>1, <2>2
<1> HIDE DEF one
<1>3. Elements(one \o rest) = Elements(one) \cup Elements(rest)
  BY <1>1, ElementsConcat
<1> QED
  BY <1>2, <1>3 DEF one

LEMMA PerformQuiet ==
    ASSUME Serial, RefinementInv, NEW w \in Workers, Perform(w) \/ Crash(w)
    PROVE  ClaimsSaved(w)'
<1> DEFINE todo == Todo(w)
           e == Head(todo)
           msg == inv[w].msg
           queue == pending \cup delivered
<1>1. /\ inv \in [Workers -> Invocation] /\ todo \in Seq(Effect)
      /\ TodoFits(dependsOn, graph, run, queue, todo) /\ NoEcho(msg, todo)
  BY InvocationTypes DEF RefinementInv, ClaimsSaved, SerialInv, TruthInv, TypeInv, Fits, Todo
<1>2. \A new : todo # <<>> /\ Proceed(w, new) => inv'[w].msg = msg /\ inv'[w].todo = new
  BY <1>1, ProceedInv
<1>3. todo # <<>> => e = todo[1] /\ 1 \in 1 .. Len(todo)
  BY <1>1, HeadIsFirst
<1> HIDE DEF todo, e, msg, queue
<1>4. CASE End(w) \/ Crash(w)
  <2>1. inv'[w] = Idle
    BY <1>1, <1>4 DEF End, Crash
  <2> QED
    BY <2>1, IdleFacts DEF ClaimsSaved, NoEcho, First
<1>5. CASE DoClaimReadyNodes(w)
  <2>1. todo # <<>> /\ e.op = "claim_ready_nodes" /\ Proceed(w, ClaimEffects)
    BY <1>5 DEF DoClaimReadyNodes, NextIs, todo, e
  <2>2. msg = Trigger
    BY <1>1, <1>3, <2>1 DEF NoEcho
  <2>3. NoEcho(msg, ClaimEffects) /\ ~First(ClaimEffects, "claim_ready_nodes")
    <3>1. CASE ClaimEffects = <<PatchRun("failed")>>
      BY <3>1 DEF NoEcho, First, PatchRun
    <3> DEFINE tasks == {Task(n) : n \in ReadyNodes(dependsOn, graph)}
               save == SaveTaskGraph(ClaimReady(dependsOn, graph))
    <3>2. CASE ClaimEffects = <<save, Enqueue(tasks)>>
      <4>1. Trigger \notin tasks
        BY MessagesDistinct
      <4> HIDE DEF tasks
      <4>2. save.op = "save_task_graph" /\ Enqueue(tasks).op = "enqueue" /\ Enqueue(tasks).msgs = tasks
        BY DEF SaveTaskGraph, Enqueue
      <4> HIDE DEF save
      <4> QED
        BY <2>2, <3>2, <4>1, <4>2 DEF NoEcho, First
    <3> QED
      BY <3>1, <3>2 DEF ClaimEffects
  <2> QED
    BY <1>2, <2>1, <2>3 DEF ClaimsSaved
<1>6. CASE DoEnqueue(w)
  <2>1. PICK m \in e.msgs : Proceed(w, If(e.msgs \ {m} # {}, <<Enqueue(e.msgs \ {m})>>) \o Tail(todo))
    BY <1>6 DEF DoEnqueue, todo, e
  <2> DEFINE new == If(e.msgs \ {m} # {}, <<Enqueue(e.msgs \ {m})>>) \o Tail(todo)
  <2>2. First(todo, "enqueue")
    BY <1>6 DEF DoEnqueue, NextIs, First, todo
  <2>3. NoEcho(msg, new) /\ ~First(new, "claim_ready_nodes")
    BY <1>1, <2>2, EnqueueQuiet DEF e
  <2> HIDE DEF new
  <2>4. inv'[w].msg = msg /\ inv'[w].todo = new
    BY <1>2, <2>1, <2>2 DEF new, First
  <2> QED
    BY <2>3, <2>4 DEF ClaimsSaved
<1>7. CASE DoSaveTaskGraph(w) \/ DoSavePlan(w) \/ DoSaveResult(w) \/ DoPatchRun(w)
  <2>1. /\ todo # <<>> /\ Proceed(w, Tail(todo))
        /\ \/ e.op = "save_task_graph" /\ orchestrated'
           \/ e.op \in {"save_plan", "save_sub_agent_result", "update_agent_run_status"}
    BY <1>7 DEF DoSaveTaskGraph, DoSavePlan, DoSaveResult, DoPatchRun, NextIs, todo, e
  <2>2. /\ NoEcho(msg, Tail(todo))
        /\ First(Tail(todo), "claim_ready_nodes") => e.op \in {"save_task_graph", "claim_ready_nodes"}
    BY <1>1, <2>1, TailQuiet DEF e
  <2> QED
    BY <1>2, <2>1, <2>2 DEF ClaimsSaved
<1> QED
  BY <1>4, <1>5, <1>6, <1>7 DEF Perform

LEMMA BeginQuiet ==
    ASSUME Serial, RefinementInv, NEW w \in Workers, NEW n \in AllNodes, NEW s \in SettleStatus,
           BeginTrigger(w) \/ BeginTask(w, n) \/ BeginCompleted(w, n, s)
    PROVE  ClaimsSaved(w)'
<1>1. inv \in [Workers -> Invocation]
  BY DEF RefinementInv, SerialInv, TruthInv, TypeInv
<1>2. \A m \in Message : \A todo : Invoke(w, m, todo) => inv'[w].msg = m /\ inv'[w].todo = todo
  BY <1>1, InvokeInv
<1>3. CASE BeginTrigger(w)
  <2>1. inv'[w].msg = Trigger /\ inv'[w].todo = TriggerEffects
    BY <1>2, <1>3, MessageTypes DEF BeginTrigger
  <2>2. SaveTaskGraph(NewGraph).op = "save_task_graph" /\ ClaimReadyNodes.op = "claim_ready_nodes"
    BY DEF SaveTaskGraph, ClaimReadyNodes
  <2>3. NoEcho(Trigger, TriggerEffects) /\ ~First(TriggerEffects, "claim_ready_nodes")
    BY <2>2 DEF TriggerEffects, If, NoEcho, First
  <2> QED
    BY <2>1, <2>3 DEF ClaimsSaved
<1>4. CASE BeginTask(w, n)
  <2>1. PICK todo \in TaskEffects(n) : inv'[w].msg = Task(n) /\ inv'[w].todo = todo
    BY <1>2, <1>4, MessageTypes DEF BeginTask
  <2>2. \A p : LET e == Enqueue(Continuation(n, p)) IN e.op = "enqueue" /\ Task(n) \notin e.msgs
    BY MessagesDistinct DEF Enqueue, Continuation
  <2>3. \A p : SavePlan(n, p, results).op = "save_plan"
    BY DEF SavePlan
  <2>4. NoEcho(Task(n), todo) /\ ~First(todo, "claim_ready_nodes")
    <3>1. CASE todo = <<>>
      BY <3>1 DEF NoEcho, First
    <3>2. CASE todo = <<Enqueue(Continuation(n, subPlan[n]))>>
      BY <2>2, <3>2 DEF NoEcho, First
    <3>3. ASSUME NEW p, todo = <<SavePlan(n, p, results), Enqueue(Continuation(n, p))>>
          PROVE  NoEcho(Task(n), todo) /\ ~First(todo, "claim_ready_nodes")
      BY <2>2, <2>3, <3>3 DEF NoEcho, First
    <3> QED
      BY <3>1, <3>2, <3>3 DEF TaskEffects
  <2> QED
    BY <2>1, <2>4 DEF ClaimsSaved
<1>5. CASE BeginCompleted(w, n, s)
  <2> DEFINE todo == CompletedEffects(n, s)
             adv == PlanAdvance(dependsOn, graph, n, NodeStatusOf(s))
             tasks == {Task(m) : m \in adv.newlyReady \cup adv.dispatchSynthesizer}
  <2>1. Invoke(w, Settled(n, s), todo) /\ Settled(n, s) \in Message
    BY <1>5, MessageTypes DEF BeginCompleted
  <2>2. inv'[w].msg = Settled(n, s) /\ inv'[w].todo = todo
    <3> HIDE DEF todo
    <3> QED
      BY <1>2, <2>1
  <2>3. NoEcho(Settled(n, s), todo) /\ ~First(todo, "claim_ready_nodes")
    <3>1. CASE todo = <<>>
      BY <3>1 DEF NoEcho, First
    <3>2. CASE todo = AdvanceEffects(n, s, adv)
      <4>1. adv.graph \in Graph /\ tasks \subseteq Message
        <5>1. /\ dependsOn \in Dependencies /\ graph \in Graph
              /\ NodeStatusOf(s) \in {COMPLETED, FAILED}
          BY DEF RefinementInv, SerialInv, TruthInv, TypeInv, TypeOK, NodeStatusOf
        <5>2. adv.graph \in Graph /\ adv.newlyReady \cup adv.dispatchSynthesizer \subseteq AllNodes
          BY <5>1, AdvanceTypes DEF AllNodes
        <5> HIDE DEF adv
        <5> QED
          BY <5>2, MessageTypes
      <4>2. Settled(n, s) \notin tasks
        BY MessagesDistinct
      <4>3. /\ todo # <<>> /\ Head(todo) = SaveTaskGraph(adv.graph)
            /\ \A i \in 1 .. Len(todo) :
                  \/ todo[i] = SaveTaskGraph(adv.graph)
                  \/ todo[i] = SaveResult(n)
                  \/ todo[i] = Enqueue(tasks)
                  \/ todo[i] = PatchRun("completed")
                  \/ todo[i] = PatchRun("failed")
        <5> HIDE DEF adv
        <5> QED
          BY <3>2, <4>1, AdvanceElements
      <4> HIDE DEF tasks, todo, adv
      <4> QED
        BY <4>2, <4>3 DEF NoEcho, First, SaveTaskGraph, SaveResult, Enqueue, PatchRun
    <3> QED
      BY <3>1, <3>2 DEF CompletedEffects, If
  <2> HIDE DEF todo
  <2> QED
    BY <2>2, <2>3 DEF ClaimsSaved
<1> QED
  BY <1>3, <1>4, <1>5

LEMMA NextRefinementInv ==
    ASSUME Serial, RefinementInv, [Next]_vars
    PROVE  RefinementInv'
<1>1. SerialInv'
  BY NextSerial DEF RefinementInv
<1>2. ASSUME NEW w \in Workers, ClaimsSaved(w)' PROVE RefinementInv'
  <2>1. \A v \in Workers : v = w
    BY DEF Serial
  <2> QED
    BY <1>1, <1>2, <2>1 DEF RefinementInv
<1>3. CASE UNCHANGED <<inv, orchestrated>>
  BY <1>1, <1>3 DEF RefinementInv, ClaimsSaved
<1>4. \E n \in AllNodes, s \in SettleStatus : TRUE
  BY TaskGraphAssumption DEF AllNodes, SettleStatus
<1> QED
  BY <1>2, <1>3, <1>4, BeginQuiet, PerformQuiet DEF Next, SubPlanSettles, vars, store

LEMMA InitRefinementInv == Init => RefinementInv
<1> SUFFICES ASSUME Init PROVE \A w \in Workers : ClaimsSaved(w)
  BY InitSerial DEF RefinementInv
<1> QED
  BY IdleFacts DEF Init, ClaimsSaved, NoEcho, First

-----------------------------------------------------------------------------
(***************************************************************************)
(* The effects of a running invocation change nothing that is seen.        *)
(***************************************************************************)
\* What follows the effect that is performed next.
LEMMA RestOfTodo ==
    ASSUME RefinementInv, NEW w \in Workers, Todo(w) # <<>>
    PROVE  LET e == Head(Todo(w))
               fs == Elements(Tail(Todo(w)))
           IN  /\ \A op : All(Elements(inv[w].todo), op) = IF e.op = op THEN {e} \cup All(fs, op) ELSE All(fs, op)
               /\ All(fs, "save_task_graph") = {} /\ All(fs, "save_plan") = {}
               /\ All(fs, "claim_ready_nodes") # {} => e.op \in {"save_task_graph", "claim_ready_nodes"}
               /\ e.op = "claim_ready_nodes" => \A x \in fs : x.op = "claim_ready_nodes"
               /\ e.op = "enqueue" => All(fs, "enqueue") = {}
               /\ e.op = "update_agent_run_status" =>
                     \A x \in All(fs, "update_agent_run_status") : x.status = e.status
<1> DEFINE todo == Todo(w)
           e == Head(todo)
           rest == Tail(todo)
           fs == Elements(rest)
           queue == pending \cup delivered
<1>1. /\ todo \in Seq(Effect) /\ TodoFits(dependsOn, graph, run, queue, todo)
      /\ TodoTrue(dependsOn, subPlan, inv[w].msg, todo)
      /\ Todo(w) = inv[w].todo
  BY InvocationTypes DEF RefinementInv, SerialInv, TruthInv, Truthful, TypeInv, Fits, Todo
<1>2. Elements(todo) = {e} \cup fs
  BY <1>1, ElementsTail
<1>3. /\ rest \in Seq(Effect)
      /\ \A i \in 1 .. Len(rest) : rest[i] = todo[i + 1] /\ i + 1 \in 1 .. Len(todo) /\ i + 1 # 1
      /\ e = todo[1] /\ 1 \in 1 .. Len(todo) /\ e \in Effect
  BY <1>1, HeadTailProperties
<1>4. \A x \in fs : \E i \in 1 .. Len(todo) : x = todo[i] /\ i # 1
  BY <1>3 DEF Elements
<1>5. \A x \in fs : x \in Effect /\ x.op # "save_task_graph" /\ x.op # "save_plan"
  BY <1>1, <1>4 DEF TodoFits, TodoTrue
<1>6. \A x \in fs : x.op = "claim_ready_nodes" => e.op \in {"save_task_graph", "claim_ready_nodes"}
  BY <1>1, <1>3, <1>4 DEF TodoFits
<1>7. e.op = "claim_ready_nodes" => \A x \in fs : x.op = "claim_ready_nodes"
  BY <1>1, <1>3, <1>4, <1>5 DEF TodoFits
<1>8. e.op = "enqueue" => \A x \in fs : x.op # "enqueue"
  BY <1>1, <1>3, <1>4 DEF TodoFits
<1>9. ASSUME e.op = "update_agent_run_status", NEW x \in fs, x.op = "update_agent_run_status"
      PROVE  x.status = e.status
  <2> DEFINE h == SavedGraph(graph, todo)
  <2>1. /\ EffectFits(dependsOn, graph, run, queue, e, h)
        /\ EffectFits(dependsOn, graph, run, queue, x, h)
    BY <1>1, <1>3, <1>4 DEF TodoFits
  <2>2. e.status \in {"completed", "failed"} /\ x.status \in {"completed", "failed"}
    BY <1>3, <1>5, <1>9, EffectFields
  <2> HIDE DEF h
  <2>3. ~(Stuck(dependsOn, h) /\ \A n \in AllNodes : h[n] = COMPLETED)
    BY DEF Stuck, AllNodesCompleted, CompletedNodeIds, AllNodes, COMPLETED, FAILED
  <2> QED
    BY <1>9, <2>1, <2>2, <2>3 DEF EffectFits
<1> HIDE DEF fs, e
<1>10. \A op : All(Elements(todo), op) = IF e.op = op THEN {e} \cup All(fs, op) ELSE All(fs, op)
  BY <1>2 DEF All
<1> QED
  BY <1>1, <1>5, <1>6, <1>7, <1>8, <1>9, <1>10 DEF All, fs, e

\* One equation for each variable of the atomic specification.
LEMMA StutterIntro ==
    ASSUME UNCHANGED dependsOn,
           OrchestratedAfter(Effects', orchestrated') = OrchestratedAfter(Effects, orchestrated),
           GraphAfter(dependsOn, Effects', graph') = GraphAfter(dependsOn, Effects, graph),
           SubPlanAfter(Effects', subPlan') = SubPlanAfter(Effects, subPlan),
           ResultsAfter(Effects', results') = ResultsAfter(Effects, results),
           SynthInputAfter(Effects', synthInput') = SynthInputAfter(Effects, synthInput),
           RunAfter(dependsOn, Effects', graph', run') = RunAfter(dependsOn, Effects, graph, run),
           ((pending' \ InHand') \cup SentAfter(dependsOn, Effects', graph')) \ Actions
              = ((pending \ InHand) \cup SentAfter(dependsOn, Effects, graph)) \ Actions,
           (delivered' \cup InHand') \ Actions = (delivered \cup InHand) \ Actions
    PROVE  UNCHANGED Atomic!vars
BY DEF Atomic!vars, Actions

LEMMA SaveGraphStutters ==
    ASSUME Serial, RefinementInv, NEW w \in Workers, DoSaveTaskGraph(w)
    PROVE  UNCHANGED Atomic!vars
<1> DEFINE e == Head(Todo(w))
           es == Effects
           fs == Elements(Tail(Todo(w)))
<1>1. /\ Todo(w) # <<>> /\ e.op = "save_task_graph" /\ Proceed(w, Tail(Todo(w)))
      /\ graph' = e.graph /\ orchestrated' = TRUE
      /\ UNCHANGED <<dependsOn, subPlan, results, synthInput, run, pending, delivered>>
  BY DEF DoSaveTaskGraph, NextIs
<1>2. /\ inv'[w].msg = inv[w].msg /\ inv'[w].todo = Tail(Todo(w)) /\ inv[w] # Idle /\ inv[w].msg \in Message
  BY <1>1, ProceedInv DEF RefinementInv, SerialInv, TruthInv, TypeInv
<1>3. Effects' = fs /\ InHand' = InHand
  BY <1>2, SerialEffects, IdleFacts
<1>4. /\ \A op : All(es, op) = IF e.op = op THEN {e} \cup All(fs, op) ELSE All(fs, op)
      /\ All(fs, "save_task_graph") = {}
  BY <1>1, SerialEffects, RestOfTodo
<1> HIDE DEF e, es, fs
<1>5. All(es, "save_task_graph") = {e} /\ \A op : op # "save_task_graph" => All(es, op) = All(fs, op)
  BY <1>1, <1>4
<1>6. SavedAfter(es, graph) = e.graph /\ SavedAfter(fs, graph') = e.graph
  BY <1>1, <1>4, <1>5, SomeProperties DEF SavedAfter
<1>7. ClaimedAfter(dependsOn, fs, graph') = ClaimedAfter(dependsOn, es, graph)
  BY <1>5, <1>6 DEF ClaimedAfter
<1>8. GraphAfter(dependsOn, fs, graph') = GraphAfter(dependsOn, es, graph)
  BY <1>6, <1>7 DEF GraphAfter
<1>9. OrchestratedAfter(fs, orchestrated') = OrchestratedAfter(es, orchestrated)
  BY <1>1, <1>5 DEF OrchestratedAfter
<1>10. /\ SubPlanAfter(fs, subPlan) = SubPlanAfter(es, subPlan)
       /\ ResultsAfter(fs, results) = ResultsAfter(es, results)
       /\ SynthInputAfter(fs, synthInput) = SynthInputAfter(es, synthInput)
  BY <1>5 DEF SubPlanAfter, ResultsAfter, SynthInputAfter
<1>11. RunAfter(dependsOn, fs, graph', run) = RunAfter(dependsOn, es, graph, run)
  BY <1>5, <1>7 DEF RunAfter
<1>12. SentAfter(dependsOn, fs, graph') = SentAfter(dependsOn, es, graph)
  BY <1>5, <1>7 DEF SentAfter
<1> QED
  BY <1>1, <1>3, <1>8, <1>9, <1>10, <1>11, <1>12, StutterIntro DEF es

LEMMA SavePlanStutters ==
    ASSUME Serial, RefinementInv, NEW w \in Workers, DoSavePlan(w)
    PROVE  UNCHANGED Atomic!vars
<1> DEFINE e == Head(Todo(w))
           es == Effects
           fs == Elements(Tail(Todo(w)))
<1>1. /\ Todo(w) # <<>> /\ e.op = "save_plan" /\ Proceed(w, Tail(Todo(w)))
      /\ subPlan' = [subPlan EXCEPT ![e.node] = e.plan]
      /\ synthInput' = IF e.node \in Synthesizers THEN e.results ELSE synthInput
      /\ UNCHANGED <<dependsOn, orchestrated, graph, results, run, pending, delivered>>
  BY DEF DoSavePlan, NextIs
<1>2. /\ inv'[w].msg = inv[w].msg /\ inv'[w].todo = Tail(Todo(w)) /\ inv[w] # Idle /\ inv[w].msg \in Message
  BY <1>1, ProceedInv DEF RefinementInv, SerialInv, TruthInv, TypeInv
<1>3. Effects' = fs /\ InHand' = InHand
  BY <1>2, SerialEffects, IdleFacts
<1>4. /\ \A op : All(es, op) = IF e.op = op THEN {e} \cup All(fs, op) ELSE All(fs, op)
      /\ All(fs, "save_plan") = {}
  BY <1>1, SerialEffects, RestOfTodo
<1> HIDE DEF e, es, fs
<1>5. All(es, "save_plan") = {e} /\ \A op : op # "save_plan" => All(es, op) = All(fs, op)
  BY <1>1, <1>4
<1>6. /\ SubPlanAfter(fs, subPlan') = SubPlanAfter(es, subPlan)
      /\ SynthInputAfter(fs, synthInput') = SynthInputAfter(es, synthInput)
  BY <1>1, <1>4, <1>5, SomeProperties DEF SubPlanAfter, SynthInputAfter
<1>7. SavedAfter(es, graph) = SavedAfter(fs, graph)
  BY <1>5 DEF SavedAfter
<1>8. ClaimedAfter(dependsOn, fs, graph) = ClaimedAfter(dependsOn, es, graph)
  BY <1>5, <1>7 DEF ClaimedAfter
<1>9. /\ GraphAfter(dependsOn, fs, graph) = GraphAfter(dependsOn, es, graph)
      /\ OrchestratedAfter(fs, orchestrated) = OrchestratedAfter(es, orchestrated)
      /\ ResultsAfter(fs, results) = ResultsAfter(es, results)
      /\ RunAfter(dependsOn, fs, graph, run) = RunAfter(dependsOn, es, graph, run)
      /\ SentAfter(dependsOn, fs, graph) = SentAfter(dependsOn, es, graph)
  BY <1>5, <1>7, <1>8 DEF GraphAfter, OrchestratedAfter, ResultsAfter, RunAfter, SentAfter
<1> QED
  BY <1>1, <1>3, <1>6, <1>9, StutterIntro DEF es

LEMMA SaveResultStutters ==
    ASSUME Serial, RefinementInv, NEW w \in Workers, DoSaveResult(w)
    PROVE  UNCHANGED Atomic!vars
<1> DEFINE e == Head(Todo(w))
           es == Effects
           fs == Elements(Tail(Todo(w)))
<1>1. /\ Todo(w) # <<>> /\ e.op = "save_sub_agent_result" /\ Proceed(w, Tail(Todo(w)))
      /\ results' = results \cup {e.node}
      /\ UNCHANGED <<dependsOn, orchestrated, graph, subPlan, synthInput, run, pending, delivered>>
  BY DEF DoSaveResult, NextIs
<1>2. /\ inv'[w].msg = inv[w].msg /\ inv'[w].todo = Tail(Todo(w)) /\ inv[w] # Idle /\ inv[w].msg \in Message
  BY <1>1, ProceedInv DEF RefinementInv, SerialInv, TruthInv, TypeInv
<1>3. Effects' = fs /\ InHand' = InHand
  BY <1>2, SerialEffects, IdleFacts
<1>4. \A op : All(es, op) = IF e.op = op THEN {e} \cup All(fs, op) ELSE All(fs, op)
  BY <1>1, SerialEffects, RestOfTodo
<1> HIDE DEF e, es, fs
<1>5. /\ All(es, "save_sub_agent_result") = {e} \cup All(fs, "save_sub_agent_result")
      /\ \A op : op # "save_sub_agent_result" => All(es, op) = All(fs, op)
  BY <1>1, <1>4
<1>6. ResultsAfter(fs, results') = ResultsAfter(es, results)
  BY <1>1, <1>5 DEF ResultsAfter
<1>7. SavedAfter(es, graph) = SavedAfter(fs, graph)
  BY <1>5 DEF SavedAfter
<1>8. ClaimedAfter(dependsOn, fs, graph) = ClaimedAfter(dependsOn, es, graph)
  BY <1>5, <1>7 DEF ClaimedAfter
<1>9. /\ GraphAfter(dependsOn, fs, graph) = GraphAfter(dependsOn, es, graph)
      /\ OrchestratedAfter(fs, orchestrated) = OrchestratedAfter(es, orchestrated)
      /\ SubPlanAfter(fs, subPlan) = SubPlanAfter(es, subPlan)
      /\ SynthInputAfter(fs, synthInput) = SynthInputAfter(es, synthInput)
      /\ RunAfter(dependsOn, fs, graph, run) = RunAfter(dependsOn, es, graph, run)
      /\ SentAfter(dependsOn, fs, graph) = SentAfter(dependsOn, es, graph)
  BY <1>5, <1>7, <1>8
     DEF GraphAfter, OrchestratedAfter, SubPlanAfter, SynthInputAfter, RunAfter, SentAfter
<1> QED
  BY <1>1, <1>3, <1>6, <1>9, StutterIntro DEF es

LEMMA PatchRunStutters ==
    ASSUME Serial, RefinementInv, NEW w \in Workers, DoPatchRun(w)
    PROVE  UNCHANGED Atomic!vars
<1> DEFINE e == Head(Todo(w))
           es == Effects
           fs == Elements(Tail(Todo(w)))
           op0 == "update_agent_run_status"
<1>1. /\ Todo(w) # <<>> /\ e.op = op0 /\ Proceed(w, Tail(Todo(w)))
      /\ run' = e.status
      /\ UNCHANGED <<dependsOn, orchestrated, graph, subPlan, results, synthInput, pending, delivered>>
  BY DEF DoPatchRun, NextIs
<1>2. /\ inv'[w].msg = inv[w].msg /\ inv'[w].todo = Tail(Todo(w)) /\ inv[w] # Idle /\ inv[w].msg \in Message
  BY <1>1, ProceedInv DEF RefinementInv, SerialInv, TruthInv, TypeInv
<1>3. Effects' = fs /\ InHand' = InHand
  BY <1>2, SerialEffects, IdleFacts
<1>4. /\ \A op : All(es, op) = IF e.op = op THEN {e} \cup All(fs, op) ELSE All(fs, op)
      /\ All(fs, "claim_ready_nodes") # {} => e.op \in {"save_task_graph", "claim_ready_nodes"}
      /\ \A x \in All(fs, op0) : x.status = e.status
  BY <1>1, SerialEffects, RestOfTodo
<1> HIDE DEF e, es, fs
<1>5. /\ All(es, op0) = {e} \cup All(fs, op0)
      /\ \A op : op # op0 => All(es, op) = All(fs, op)
      /\ All(fs, "claim_ready_nodes") = {}
  BY <1>1, <1>4
<1>6. RunAfter(dependsOn, es, graph, run) = e.status
  <2>1. Some(All(es, op0)).status = e.status
    BY <1>4, <1>5, SomeProperties
  <2> QED
    BY <1>5, <2>1 DEF RunAfter
<1>7. RunAfter(dependsOn, fs, graph, run') = e.status
  BY <1>1, <1>4, <1>5, SomeProperties DEF RunAfter
<1>8. SavedAfter(es, graph) = SavedAfter(fs, graph)
  BY <1>5 DEF SavedAfter
<1>9. ClaimedAfter(dependsOn, fs, graph) = ClaimedAfter(dependsOn, es, graph)
  BY <1>5, <1>8 DEF ClaimedAfter
<1>10. /\ GraphAfter(dependsOn, fs, graph) = GraphAfter(dependsOn, es, graph)
       /\ OrchestratedAfter(fs, orchestrated) = OrchestratedAfter(es, orchestrated)
       /\ SubPlanAfter(fs, subPlan) = SubPlanAfter(es, subPlan)
       /\ SynthInputAfter(fs, synthInput) = SynthInputAfter(es, synthInput)
       /\ ResultsAfter(fs, results) = ResultsAfter(es, results)
       /\ SentAfter(dependsOn, fs, graph) = SentAfter(dependsOn, es, graph)
  BY <1>5, <1>8, <1>9
     DEF GraphAfter, OrchestratedAfter, SubPlanAfter, SynthInputAfter, ResultsAfter, SentAfter
<1> QED
  BY <1>1, <1>3, <1>6, <1>7, <1>10, StutterIntro DEF es

LEMMA ClaimStutters ==
    ASSUME Serial, RefinementInv, NEW w \in Workers, DoClaimReadyNodes(w)
    PROVE  UNCHANGED Atomic!vars
<1> DEFINE e == Head(Todo(w))
           es == Effects
           fs == Elements(ClaimEffects)
           d == dependsOn
           ready == ReadyNodes(d, graph)
           h == ClaimReady(d, graph)
           tasks == {Task(n) : n \in ready}
<1>1. /\ Todo(w) # <<>> /\ e.op = "claim_ready_nodes" /\ Proceed(w, ClaimEffects)
      /\ UNCHANGED <<dependsOn, orchestrated, graph, subPlan, results, synthInput, run, pending, delivered>>
  BY DEF DoClaimReadyNodes, NextIs, store
<1>2. /\ inv'[w].msg = inv[w].msg /\ inv'[w].todo = ClaimEffects /\ inv[w] # Idle /\ inv[w].msg \in Message
  BY <1>1, ProceedInv DEF RefinementInv, SerialInv, TruthInv, TypeInv
<1>3. Effects' = fs /\ InHand' = InHand
  BY <1>2, SerialEffects, IdleFacts
<1>4. orchestrated = TRUE
  <2>1. First(inv[w].todo, "claim_ready_nodes") /\ orchestrated \in BOOLEAN
    BY <1>1 DEF First, Todo, RefinementInv, SerialInv, TruthInv, TypeInv, TypeOK
  <2> QED
    BY <2>1 DEF RefinementInv, ClaimsSaved
<1>5. /\ All(es, "claim_ready_nodes") # {}
      /\ \A op : op # "claim_ready_nodes" => All(es, op) = {}
  <2> DEFINE rest == Elements(Tail(Todo(w)))
  <2>1. /\ \A op : All(es, op) = IF e.op = op THEN {e} \cup All(rest, op) ELSE All(rest, op)
        /\ \A x \in rest : x.op = "claim_ready_nodes"
    BY <1>1, SerialEffects, RestOfTodo
  <2> HIDE DEF e, es, rest
  <2>2. \A op : op # "claim_ready_nodes" => All(rest, op) = {}
    BY <2>1 DEF All
  <2> QED
    BY <1>1, <2>1, <2>2
<1> HIDE DEF e, es
<1>6. /\ SavedAfter(es, graph) = graph
      /\ ClaimedAfter(d, es, graph) = ready
      /\ GraphAfter(d, es, graph) = h
      /\ OrchestratedAfter(es, orchestrated) = TRUE
      /\ SubPlanAfter(es, subPlan) = subPlan
      /\ SynthInputAfter(es, synthInput) = synthInput
      /\ ResultsAfter(es, results) = results
      /\ RunAfter(d, es, graph, run) = (IF ready = {} THEN "failed" ELSE run)
      /\ SentAfter(d, es, graph) = tasks
  <2>1. SavedAfter(es, graph) = graph
    BY <1>5 DEF SavedAfter
  <2>2. ClaimedAfter(d, es, graph) = ready
    BY <1>5, <2>1 DEF ClaimedAfter
  <2>3. GraphAfter(d, es, graph) = h
    BY <2>1, <2>2 DEF GraphAfter, ClaimReady
  <2>4. /\ OrchestratedAfter(es, orchestrated) = TRUE
        /\ SubPlanAfter(es, subPlan) = subPlan
        /\ SynthInputAfter(es, synthInput) = synthInput
        /\ ResultsAfter(es, results) = results
    BY <1>4, <1>5 DEF OrchestratedAfter, SubPlanAfter, SynthInputAfter, ResultsAfter
  <2>5. RunAfter(d, es, graph, run) = (IF ready = {} THEN "failed" ELSE run)
    BY <1>5, <2>2 DEF RunAfter
  <2>6. SentAfter(d, es, graph) = tasks
    <3>1. UNION {x.msgs : x \in All(es, "enqueue")} = {}
      BY <1>5
    <3> HIDE DEF ready
    <3>2. {Task(n) : n \in ClaimedAfter(d, es, graph)} = tasks
      BY <2>2
    <3> DEFINE sent == UNION {x.msgs : x \in All(es, "enqueue")}
               claimed == {Task(n) : n \in ClaimedAfter(d, es, graph)}
    <3>3. SentAfter(d, es, graph) = sent \cup claimed
      BY DEF SentAfter
    <3> HIDE DEF tasks, sent, claimed
    <3>4. sent = {} /\ claimed = tasks
      BY <3>1, <3>2 DEF sent, claimed
    <3> QED
      BY <3>3, <3>4
  <2> QED
    BY <2>1, <2>2, <2>3, <2>4, <2>5, <2>6
<1>7. CASE ready = {}
  <2>1. fs = {PatchRun("failed")}
    BY <1>7, ElementsSingle DEF ClaimEffects
  <2>2. All(fs, "update_agent_run_status") = {PatchRun("failed")}
        /\ \A op : op # "update_agent_run_status" => All(fs, op) = {}
    BY <2>1 DEF All, PatchRun
  <2> HIDE DEF fs
  <2>3. SavedAfter(fs, graph) = graph /\ ClaimedAfter(d, fs, graph) = {}
    BY <2>2 DEF SavedAfter, ClaimedAfter
  <2>4. GraphAfter(d, fs, graph) = h
    BY <1>7, <2>3 DEF GraphAfter, ClaimReady
  <2>5. /\ OrchestratedAfter(fs, orchestrated) = TRUE
        /\ SubPlanAfter(fs, subPlan) = subPlan
        /\ SynthInputAfter(fs, synthInput) = synthInput
        /\ ResultsAfter(fs, results) = results
    BY <1>4, <2>2 DEF OrchestratedAfter, SubPlanAfter, SynthInputAfter, ResultsAfter
  <2>6. RunAfter(d, fs, graph, run) = "failed"
    <3>1. PatchRun("failed").status = "failed"
      BY DEF PatchRun
    <3>2. Some(All(fs, "update_agent_run_status")) = PatchRun("failed")
      BY <2>2, SomeProperties
    <3>3. All(fs, "update_agent_run_status") # {}
      BY <2>2
    <3> QED
      BY <3>1, <3>2, <3>3 DEF RunAfter
  <2>7. SentAfter(d, fs, graph) = {} /\ tasks = {}
    BY <1>7, <2>2, <2>3 DEF SentAfter
  <2> HIDE DEF tasks, ready, h
  <2> QED
    BY <1>1, <1>3, <1>6, <1>7, <2>4, <2>5, <2>6, <2>7, StutterIntro DEF es
<1>8. CASE ready # {}
  <2> DEFINE save == SaveTaskGraph(h)
             send == Enqueue(tasks)
  <2>1. fs = {save, send}
    <3>1. ClaimEffects = <<save, send>>
      BY <1>8 DEF ClaimEffects
    <3> HIDE DEF save, send
    <3> QED
      BY <3>1, ElementsSingle
  <2>2. save.op = "save_task_graph" /\ save.graph = h /\ send.op = "enqueue" /\ send.msgs = tasks
    BY DEF SaveTaskGraph, Enqueue
  <2> HIDE DEF save, send, fs, tasks, ready
  <2>3. /\ All(fs, "save_task_graph") = {save} /\ All(fs, "enqueue") = {send}
        /\ \A op : op \notin {"save_task_graph", "enqueue"} => All(fs, op) = {}
    BY <2>1, <2>2 DEF All
  <2>4. SavedAfter(fs, graph) = h /\ ClaimedAfter(d, fs, graph) = {}
    BY <2>2, <2>3, SomeProperties DEF SavedAfter, ClaimedAfter
  <2>5. GraphAfter(d, fs, graph) = h
    <3>1. WithNodeStatus(h, {}, RUNNING) = h
      BY DEF WithNodeStatus, ClaimReady
    <3> QED
      BY <2>4, <3>1 DEF GraphAfter
  <2>6. /\ OrchestratedAfter(fs, orchestrated) = TRUE
        /\ SubPlanAfter(fs, subPlan) = subPlan
        /\ SynthInputAfter(fs, synthInput) = synthInput
        /\ ResultsAfter(fs, results) = results
    BY <1>4, <2>3 DEF OrchestratedAfter, SubPlanAfter, SynthInputAfter, ResultsAfter
  <2>7. RunAfter(d, fs, graph, run) = run
    BY <2>3 DEF RunAfter
  <2>8. SentAfter(d, fs, graph) = tasks
    BY <2>2, <2>3, <2>4 DEF SentAfter
  <2> HIDE DEF h
  <2> QED
    BY <1>1, <1>3, <1>6, <1>8, <2>5, <2>6, <2>7, <2>8, StutterIntro DEF es
<1> QED
  BY <1>7, <1>8

LEMMA EnqueueStutters ==
    ASSUME Serial, RefinementInv, NEW w \in Workers, DoEnqueue(w)
    PROVE  UNCHANGED Atomic!vars
<1> DEFINE e == Head(Todo(w))
           es == Effects
           fs == Elements(Tail(Todo(w)))
           d == dependsOn
<1>1. PICK m \in e.msgs :
         /\ pending' = pending \cup {m}
         /\ Proceed(w, If(e.msgs \ {m} # {}, <<Enqueue(e.msgs \ {m})>>) \o Tail(Todo(w)))
  BY DEF DoEnqueue
<1> DEFINE left == e.msgs \ {m}
           new == If(left # {}, <<Enqueue(left)>>) \o Tail(Todo(w))
           ns == Elements(new)
<1>2. /\ Todo(w) # <<>> /\ e.op = "enqueue" /\ First(Todo(w), "enqueue")
      /\ UNCHANGED <<dependsOn, orchestrated, graph, subPlan, results, synthInput, run, delivered>>
  BY DEF DoEnqueue, NextIs, First, store
<1>3. m # inv[w].msg /\ ns = Unsent(left) \cup fs
  <2>1. /\ Todo(w) \in Seq(Effect) /\ NoEcho(inv[w].msg, Todo(w))
        /\ TodoFits(dependsOn, graph, run, pending \cup delivered, Todo(w))
    BY InvocationTypes DEF RefinementInv, ClaimsSaved, SerialInv, TruthInv, TypeInv, Fits, Todo
  <2>2. m # inv[w].msg
    <3>1. Head(Todo(w)) = Todo(w)[1] /\ 1 \in 1 .. Len(Todo(w))
      BY <1>2, <2>1, HeadIsFirst
    <3> QED
      BY <1>2, <2>1, <3>1 DEF NoEcho
  <2>3. left \in SUBSET Message /\ Tail(Todo(w)) \in Seq(Effect)
    BY <1>2, <2>1, EffectFields, HeadTailProperties
  <2> HIDE DEF left
  <2> QED
    BY <2>2, <2>3, EnqueueElements
<1> HIDE DEF new
<1>4. /\ inv'[w].msg = inv[w].msg /\ inv'[w].todo = new /\ inv[w] # Idle /\ inv[w].msg \in Message
  BY <1>1, <1>2, ProceedInv DEF RefinementInv, SerialInv, TruthInv, TypeInv, new
<1>5. Effects' = ns /\ InHand' = InHand /\ InHand = {inv[w].msg}
  BY <1>4, SerialEffects, IdleFacts
<1>6. /\ \A op : All(es, op) = IF e.op = op THEN {e} \cup All(fs, op) ELSE All(fs, op)
      /\ All(fs, "enqueue") = {} /\ All(fs, "claim_ready_nodes") = {}
  BY <1>2, SerialEffects, RestOfTodo
<1> HIDE DEF e, es, fs, ns
<1>7. All(es, "enqueue") = {e} /\ \A op : op # "enqueue" => All(es, op) = All(fs, op)
  BY <1>2, <1>6
<1>8. /\ All(ns, "enqueue") = Unsent(left)
      /\ \A op : op # "enqueue" => All(ns, op) = All(fs, op)
      /\ Enqueue(left).msgs = left
  <2> HIDE DEF left
  <2>1. Enqueue(left).op = "enqueue" /\ Enqueue(left).msgs = left
    BY DEF Enqueue
  <2>2. \A x \in Unsent(left) : x.op = "enqueue"
    BY <2>1 DEF Unsent
  <2>3. \A op : All(ns, op) = (IF op = "enqueue" THEN Unsent(left) ELSE {}) \cup All(fs, op)
    BY <1>3, <2>2 DEF All
  <2> QED
    BY <1>6, <2>1, <2>3
<1>9. SavedAfter(es, graph) = SavedAfter(ns, graph)
  BY <1>7, <1>8 DEF SavedAfter
<1>10. ClaimedAfter(d, ns, graph) = {} /\ ClaimedAfter(d, es, graph) = {}
  BY <1>6, <1>7, <1>8 DEF ClaimedAfter
<1>11. /\ GraphAfter(d, ns, graph) = GraphAfter(d, es, graph)
       /\ OrchestratedAfter(ns, orchestrated) = OrchestratedAfter(es, orchestrated)
       /\ SubPlanAfter(ns, subPlan) = SubPlanAfter(es, subPlan)
       /\ SynthInputAfter(ns, synthInput) = SynthInputAfter(es, synthInput)
       /\ ResultsAfter(ns, results) = ResultsAfter(es, results)
       /\ RunAfter(d, ns, graph, run) = RunAfter(d, es, graph, run)
  BY <1>7, <1>8, <1>9, <1>10
     DEF GraphAfter, OrchestratedAfter, SubPlanAfter, SynthInputAfter, ResultsAfter, RunAfter
<1>12. SentAfter(d, es, graph) = e.msgs /\ SentAfter(d, ns, graph) = left
  BY <1>7, <1>8, <1>10 DEF SentAfter, Unsent
<1>13. ((pending' \ InHand') \cup SentAfter(d, ns, graph)) \ Actions
       = ((pending \ InHand) \cup SentAfter(d, es, graph)) \ Actions
  BY <1>1, <1>3, <1>5, <1>12
<1> QED
  BY <1>2, <1>5, <1>11, <1>13, StutterIntro DEF es

LEMMA EndStutters ==
    ASSUME Serial, RefinementInv, NEW w \in Workers, End(w)
    PROVE  UNCHANGED Atomic!vars
<1>1. /\ inv[w] # Idle /\ inv[w].todo = <<>> /\ inv'[w] = Idle
      /\ pending' = pending \ {inv[w].msg} /\ delivered' = delivered \cup {inv[w].msg}
      /\ UNCHANGED <<dependsOn, orchestrated, graph, subPlan, results, synthInput, run>>
  BY DEF End, Todo, store, RefinementInv, SerialInv, TruthInv, TypeInv
<1>2. Effects' = Effects /\ InHand = {inv[w].msg} /\ InHand' = {} /\ Effects = {}
  BY <1>1, SerialEffects, IdleFacts, ElementsSingle
<1>3. (pending' \ InHand') = (pending \ InHand) /\ (delivered' \cup InHand') = (delivered \cup InHand)
  BY <1>1, <1>2
<1>4. /\ Effects' = Effects
      /\ UNCHANGED <<dependsOn, orchestrated, graph, subPlan, results, synthInput, run>>
  BY <1>1, <1>2
<1> QED
  BY <1>3, <1>4, StutterIntro

-----------------------------------------------------------------------------
(***************************************************************************)
(* The step that begins an invocation is the atomic handler.               *)
(***************************************************************************)
\* With nothing left to do, what is seen is what is stored.
LEMMA NothingLeft ==
    /\ \A op : All({}, op) = {}
    /\ \A o \in BOOLEAN : OrchestratedAfter({}, o) = o
    /\ \A d : \A g \in Graph : GraphAfter(d, {}, g) = g
    /\ \A sp : SubPlanAfter({}, sp) = sp /\ SynthInputAfter({}, sp) = sp /\ ResultsAfter({}, sp) = sp
    /\ \A d, g, r : RunAfter(d, {}, g, r) = r
    /\ \A d, g : SentAfter(d, {}, g) = {}
<1>1. \A op : All({}, op) = {}
  BY DEF All
<1>2. \A d, g : SavedAfter({}, g) = g /\ ClaimedAfter(d, {}, g) = {}
  BY <1>1 DEF SavedAfter, ClaimedAfter
<1>3. ASSUME NEW d, NEW g \in Graph PROVE GraphAfter(d, {}, g) = g
  <2>1. WithNodeStatus(g, {}, RUNNING) = g
    BY DEF WithNodeStatus, Graph
  <2> QED
    BY <1>2, <2>1 DEF GraphAfter
<1>4. \A o \in BOOLEAN : OrchestratedAfter({}, o) = o
  BY <1>1 DEF OrchestratedAfter
<1>5. \A sp : SubPlanAfter({}, sp) = sp /\ SynthInputAfter({}, sp) = sp /\ ResultsAfter({}, sp) = sp
  BY <1>1 DEF SubPlanAfter, SynthInputAfter, ResultsAfter
<1>6. \A d, g, r : RunAfter(d, {}, g, r) = r
  BY <1>1 DEF RunAfter
<1>7. \A d, g : SentAfter(d, {}, g) = {}
  BY <1>1, <1>2 DEF SentAfter
<1> QED
  BY <1>1, <1>3, <1>4, <1>5, <1>6, <1>7

LEMMA NotActions ==
    /\ Trigger \notin Actions
    /\ \A n : Task(n) \notin Actions
    /\ \A n, s : Settled(n, s) \notin Actions
BY MessagesDistinct DEF Actions

\* What an invocation that begins finds and leaves, seen atomically.
LEMMA BeginView ==
    ASSUME Serial, RefinementInv, NEW w \in Workers, NEW m \in Message, m \notin Actions, NEW todo,
           Invoke(w, m, todo)
    PROVE  /\ Effects = {} /\ InHand = {} /\ Effects' = Elements(todo) /\ InHand' = {m}
           /\ Deliverable(m)
           /\ UNCHANGED <<dependsOn, orchestrated, graph, subPlan, results, synthInput, pending, delivered>>
           /\ OrchestratedAfter(Effects, orchestrated) = orchestrated
           /\ GraphAfter(dependsOn, Effects, graph) = graph
           /\ SubPlanAfter(Effects, subPlan) = subPlan
           /\ ResultsAfter(Effects, results) = results
           /\ SynthInputAfter(Effects, synthInput) = synthInput
           /\ RunAfter(dependsOn, Effects, graph, run) = run
           /\ ((pending \ InHand) \cup SentAfter(dependsOn, Effects, graph)) \ Actions = pending \ Actions
           /\ (delivered \cup InHand) \ Actions = delivered \ Actions
           /\ (delivered' \cup InHand') \ Actions = (delivered \ Actions) \cup {m}
           /\ pending' \ InHand' = pending \ {m}
<1>1. /\ inv[w] = Idle /\ inv'[w].msg = m /\ inv'[w].todo = todo /\ Available(m)
  BY InvokeInv DEF RefinementInv, SerialInv, TruthInv, TypeInv
<1>2. Effects = {} /\ InHand = {} /\ Effects' = Elements(todo) /\ InHand' = {m}
  <2>1. inv'[w] # Idle
    BY <1>1, IdleFacts
  <2> QED
    BY <1>1, <2>1, SerialEffects, IdleFacts, ElementsSingle
<1>3. graph \in Graph /\ orchestrated \in BOOLEAN
  BY DEF RefinementInv, SerialInv, TruthInv, TypeInv, TypeOK
<1>4. /\ OrchestratedAfter(Effects, orchestrated) = orchestrated
      /\ GraphAfter(dependsOn, Effects, graph) = graph
      /\ SubPlanAfter(Effects, subPlan) = subPlan
      /\ ResultsAfter(Effects, results) = results
      /\ SynthInputAfter(Effects, synthInput) = synthInput
      /\ RunAfter(dependsOn, Effects, graph, run) = run
      /\ SentAfter(dependsOn, Effects, graph) = {}
  BY <1>2, <1>3, NothingLeft
<1>5. UNCHANGED <<dependsOn, orchestrated, graph, subPlan, results, synthInput, pending, delivered>>
  BY DEF Invoke
<1>6. Deliverable(m)
  BY <1>1 DEF Available, Deliverable
<1> QED
  BY <1>2, <1>4, <1>5, <1>6

\* A handler that returns early.
LEMMA IgnoreIntro ==
    ASSUME Serial, RefinementInv, NEW w \in Workers, NEW m \in Message, m \notin Actions,
           Invoke(w, m, <<>>), UNCHANGED run
    PROVE  Atomic!Ignore(m)
<1>1. Effects' = {}
  BY BeginView, ElementsSingle
<1>2. graph \in Graph /\ orchestrated \in BOOLEAN
  BY DEF RefinementInv, SerialInv, TruthInv, TypeInv, TypeOK
<1>3. /\ OrchestratedAfter(Effects', orchestrated) = orchestrated
      /\ GraphAfter(dependsOn, Effects', graph) = graph
      /\ SubPlanAfter(Effects', subPlan) = subPlan
      /\ ResultsAfter(Effects', results) = results
      /\ SynthInputAfter(Effects', synthInput) = synthInput
      /\ RunAfter(dependsOn, Effects', graph, run) = run
      /\ SentAfter(dependsOn, Effects', graph) = {}
  BY <1>1, <1>2, NothingLeft
<1> QED
  BY <1>3, BeginView DEF Atomic!Ignore, Atomic!Acknowledge, Actions

LEMMA TriggerImplements ==
    ASSUME Serial, RefinementInv, NEW w \in Workers, BeginTrigger(w)
    PROVE  Atomic!HandleTrigger
<1>1. Trigger \in Message /\ Trigger \notin Actions
  BY MessageTypes, NotActions
<1> DEFINE start == ~orchestrated /\ run \notin RunTerminal
           es == Elements(TriggerEffects)
<1>2. Invoke(w, Trigger, TriggerEffects)
  BY DEF BeginTrigger
<1>3. Atomic!Deliverable(Trigger) /\ OrchestratedAfter(Effects, orchestrated) = orchestrated
      /\ RunAfter(dependsOn, Effects, graph, run) = run
  <2>1. Trigger \in (pending \ Actions) \cup (delivered \ Actions)
    BY <1>1, <1>2, BeginView DEF Deliverable
  <2> QED
    BY <1>1, <1>2, <2>1, BeginView DEF Atomic!Deliverable, Actions
<1>4. CASE ~start
  <2>1. TriggerEffects = <<>> /\ run' = run
    BY <1>4 DEF TriggerEffects, If, BeginTrigger
  <2>2. Atomic!Ignore(Trigger)
    BY <1>1, <1>2, <2>1, IgnoreIntro
  <2> QED
    BY <1>3, <1>4, <2>2, SameMessages, SameGraphs DEF Atomic!HandleTrigger
<1>5. CASE start
  <2> DEFINE save == SaveTaskGraph(NewGraph)
             d == dependsOn
             ready == ReadyNodes(d, NewGraph)
             tasks == {Task(n) : n \in ready}
  <2>1. es = {save, ClaimReadyNodes} /\ run' = "running"
    <3>1. TriggerEffects = <<save, ClaimReadyNodes>>
      BY <1>5 DEF TriggerEffects, If
    <3>2. TriggerEffects # <<>>
      BY <3>1
    <3>3. run' = "running"
      BY <3>2 DEF BeginTrigger
    <3> QED
      BY <3>1, <3>3, ElementsSingle
  <2>2. save.op = "save_task_graph" /\ save.graph = NewGraph /\ ClaimReadyNodes.op = "claim_ready_nodes"
    BY DEF SaveTaskGraph, ClaimReadyNodes
  <2> HIDE DEF save, es
  <2>3. /\ All(es, "save_task_graph") = {save} /\ All(es, "claim_ready_nodes") = {ClaimReadyNodes}
        /\ \A op : op \notin {"save_task_graph", "claim_ready_nodes"} => All(es, op) = {}
    BY <2>1, <2>2 DEF All
  <2>4. SavedAfter(es, graph) = NewGraph
    BY <2>2, <2>3, SomeProperties DEF SavedAfter
  <2>5. ClaimedAfter(d, es, graph) = ready
    BY <2>3, <2>4 DEF ClaimedAfter
  <2>6. GraphAfter(d, es, graph) = ClaimReady(d, NewGraph)
    BY <2>4, <2>5 DEF GraphAfter, ClaimReady
  <2>7. /\ OrchestratedAfter(es, orchestrated) = TRUE
        /\ SubPlanAfter(es, subPlan) = subPlan
        /\ SynthInputAfter(es, synthInput) = synthInput
        /\ ResultsAfter(es, results) = results
    BY <2>3 DEF OrchestratedAfter, SubPlanAfter, SynthInputAfter, ResultsAfter
  <2>8. RunAfter(d, es, graph, "running") = IF ready = {} THEN "failed" ELSE "running"
    BY <2>3, <2>5 DEF RunAfter
  <2>9. SentAfter(d, es, graph) = tasks
    <3> HIDE DEF ready
    <3>1. UNION {x.msgs : x \in All(es, "enqueue")} = {}
      BY <2>3
    <3> QED
      BY <2>5, <3>1 DEF SentAfter
  <2>10. tasks \cap Actions = {}
    BY NotActions
  <2> HIDE DEF tasks
  <2>11. ((pending' \ InHand') \cup SentAfter(d, Effects', graph')) \ Actions
            = ((pending \ Actions) \ {Trigger}) \cup tasks
    BY <1>1, <1>2, <2>9, <2>10, BeginView DEF es
  <2>12. Atomic!Acknowledge(Trigger, tasks)
    <3>1. Effects' = es
      BY <1>1, <1>2, BeginView DEF es
    <3> QED
      BY <1>1, <1>2, <2>11, <3>1, BeginView DEF Atomic!Acknowledge, Actions
  <2>13. Atomic!StartOrchestration
    <3> HIDE DEF ready
    <3>1. /\ Effects' = es /\ UNCHANGED <<dependsOn, orchestrated, graph, subPlan, results, synthInput>>
          /\ SubPlanAfter(Effects, subPlan) = subPlan
          /\ ResultsAfter(Effects, results) = results
          /\ SynthInputAfter(Effects, synthInput) = synthInput
      BY <1>1, <1>2, BeginView DEF es
    <3>2. /\ Atomic!ReadyNodes(dependsOn, Atomic!NewGraph) = ready
          /\ {Atomic!Task(n) : n \in Atomic!ReadyNodes(dependsOn, Atomic!NewGraph)} = tasks
          /\ Atomic!ClaimReady(dependsOn, Atomic!NewGraph) = ClaimReady(d, NewGraph)
          /\ Atomic!Trigger = Trigger /\ Atomic!RunTerminal = RunTerminal
      <4>1. Atomic!ReadyNodes(dependsOn, Atomic!NewGraph) = ready
        BY SameGraphs DEF ready
      <4>2. {Atomic!Task(n) : n \in ready} = {Task(n) : n \in ready}
        BY SameMessages
      <4> QED
        BY <4>1, <4>2, SameGraphs, SameMessages DEF tasks
    <3> QED
      BY <1>3, <1>5, <2>1, <2>6, <2>7, <2>8, <2>12, <3>1, <3>2 DEF Atomic!StartOrchestration
  <2> QED
    BY <1>3, <2>13, SameMessages DEF Atomic!HandleTrigger
<1> QED
  BY <1>4, <1>5

\* What an invocation that begins will have sent is what the handler sends.
LEMMA AcknowledgeIntro ==
    ASSUME Serial, RefinementInv, NEW w \in Workers, NEW m \in Message, m \notin Actions, NEW todo,
           Invoke(w, m, todo), NEW sent, SentAfter(dependsOn, Elements(todo), graph) \ Actions = sent
    PROVE  Atomic!Acknowledge(m, sent)
<1>1. Effects' = Elements(todo) /\ UNCHANGED <<dependsOn, graph>>
  BY BeginView
<1>2. ((pending' \ InHand') \cup SentAfter(dependsOn', Effects', graph')) \ Actions
         = ((pending \ Actions) \ {m}) \cup sent
  BY <1>1, BeginView
<1> QED
  BY <1>1, <1>2, BeginView DEF Atomic!Acknowledge, Actions

LEMMA DeliverableIntro ==
    ASSUME Serial, RefinementInv, NEW w \in Workers, NEW m \in Message, m \notin Actions, NEW todo,
           Invoke(w, m, todo)
    PROVE  Atomic!Deliverable(m)
<1>1. m \in (pending \ Actions) \cup (delivered \ Actions)
  BY BeginView DEF Deliverable
<1> QED
  BY <1>1, BeginView DEF Atomic!Deliverable, Actions

\* The atomic specification does not see action events.
LEMMA ContinuationSeen ==
    ASSUME NEW n \in AllNodes, NEW p \in SubPlanState \ {"none"}
    PROVE  Continuation(n, p) \ Actions = {Atomic!Settled(n, s) : s \in Atomic!SettlementOf(p)}
<1>1. CASE p = "open"
  <2>1. Continuation(n, p) \ Actions = {}
    BY <1>1 DEF Continuation, Actions
  <2>2. Atomic!SettlementOf(p) = {}
    BY <1>1 DEF Atomic!SettlementOf
  <2> QED
    BY <2>1, <2>2
<1>2. CASE p # "open"
  <2>1. Continuation(n, p) \ Actions = {Settled(n, SettlementOf(p))}
    BY <1>2, NotActions DEF Continuation
  <2>2. Atomic!SettlementOf(p) = {SettlementOf(p)}
    BY <1>2 DEF Atomic!SettlementOf, SettlementOf, SubPlanState
  <2> QED
    BY <2>1, <2>2, SameMessages
<1> QED
  BY <1>1, <1>2

LEMMA TaskImplements ==
    ASSUME Serial, RefinementInv, NEW w \in Workers, NEW n \in AllNodes, BeginTask(w, n)
    PROVE  Atomic!HandleTask(n)
<1> DEFINE m == Task(n)
           d == dependsOn
<1>1. m \in Message /\ m \notin Actions /\ m = Atomic!Task(n)
  BY MessageTypes, NotActions, SameMessages
<1>2. PICK todo \in TaskEffects(n) : Invoke(w, m, todo)
  BY DEF BeginTask
<1> HIDE DEF m
<1>3. Atomic!Deliverable(m)
  BY <1>1, <1>2, DeliverableIntro
<1> DEFINE es == Elements(todo)
<1>4. /\ Effects' = es /\ UNCHANGED <<dependsOn, orchestrated, graph, subPlan, results, synthInput, run>>
      /\ OrchestratedAfter(Effects, orchestrated) = orchestrated
      /\ GraphAfter(dependsOn, Effects, graph) = graph
      /\ SubPlanAfter(Effects, subPlan) = subPlan
      /\ ResultsAfter(Effects, results) = results
      /\ SynthInputAfter(Effects, synthInput) = synthInput
      /\ RunAfter(dependsOn, Effects, graph, run) = run
  BY <1>1, <1>2, BeginView DEF BeginTask
<1>5. /\ graph \in Graph /\ orchestrated \in BOOLEAN /\ subPlan[n] \in SubPlanState
  BY DEF RefinementInv, SerialInv, TruthInv, TypeInv, TypeOK
<1>6. Atomic!COMPLETED = COMPLETED /\ Atomic!FAILED = FAILED
  BY SameGraphs
<1>7. CASE graph[n] \in {COMPLETED, FAILED}
  <2>1. todo = <<>> /\ UNCHANGED run
    BY <1>7 DEF TaskEffects, BeginTask
  <2>2. Atomic!Ignore(m)
    BY <1>1, <1>2, <2>1, IgnoreIntro
  <2> QED
    BY <1>1, <1>3, <1>4, <1>6, <1>7, <2>2 DEF Atomic!HandleTask
<1> DEFINE Sends(e) == /\ All(es, "enqueue") = {e}
                       /\ \A op : op \notin {"enqueue", "save_plan"} => All(es, op) = {}
<1>8. ASSUME NEW e, Sends(e)
      PROVE  /\ SentAfter(d, es, graph) = e.msgs
             /\ GraphAfter(d, es, graph) = graph
             /\ OrchestratedAfter(es, orchestrated) = orchestrated
             /\ ResultsAfter(es, results) = results
             /\ RunAfter(d, es, graph, run) = run
  <2> HIDE DEF es
  <2>1. SavedAfter(es, graph) = graph /\ ClaimedAfter(d, es, graph) = {}
    BY <1>8 DEF SavedAfter, ClaimedAfter
  <2>2. GraphAfter(d, es, graph) = graph
    <3>1. WithNodeStatus(graph, {}, RUNNING) = graph
      BY <1>5 DEF WithNodeStatus, Graph
    <3> QED
      BY <2>1, <3>1 DEF GraphAfter
  <2>3. SentAfter(d, es, graph) = e.msgs
    BY <1>8, <2>1 DEF SentAfter
  <2> QED
    BY <1>5, <1>8, <2>1, <2>2, <2>3 DEF OrchestratedAfter, ResultsAfter, RunAfter
<1> HIDE DEF Sends
<1>9. CASE graph[n] \notin {COMPLETED, FAILED} /\ subPlan[n] # "none"
  <2> DEFINE ms == Continuation(n, subPlan[n])
             e == Enqueue(ms)
             sent == {Atomic!Settled(n, s) : s \in Atomic!SettlementOf(subPlan[n])}
  <2>1. es = {} \cup {e}
    <3>1. todo = <<e>>
      BY <1>9 DEF TaskEffects
    <3> HIDE DEF e
    <3> QED
      BY <3>1, ElementsSingle
  <2>2. e.op = "enqueue" /\ e.msgs = ms
    BY DEF Enqueue
  <2>3. ms \ Actions = sent
    BY <1>5, <1>9, ContinuationSeen
  <2> HIDE DEF ms, e, es, sent
  <2>4. /\ SentAfter(d, es, graph) = ms
        /\ GraphAfter(d, es, graph) = graph
        /\ OrchestratedAfter(es, orchestrated) = orchestrated
        /\ ResultsAfter(es, results) = results
        /\ RunAfter(d, es, graph, run) = run
        /\ All(es, "save_plan") = {}
    <3>1. Sends(e) /\ All(es, "save_plan") = {}
      BY <2>1, <2>2 DEF Sends, All
    <3> QED
      BY <1>8, <2>2, <3>1
  <2>5. SubPlanAfter(es, subPlan) = subPlan /\ SynthInputAfter(es, synthInput) = synthInput
    BY <2>4 DEF SubPlanAfter, SynthInputAfter
  <2>6. Atomic!Acknowledge(m, sent)
    BY <1>1, <1>2, <2>3, <2>4, AcknowledgeIntro DEF es
  <2>7. Atomic!ResumeExistingSubplan(n)
    BY <1>1, <1>4, <1>9, <2>4, <2>5, <2>6 DEF Atomic!ResumeExistingSubplan, sent
  <2> QED
    BY <1>1, <1>3, <1>4, <1>6, <1>9, <2>7 DEF Atomic!HandleTask
<1>10. CASE graph[n] \notin {COMPLETED, FAILED} /\ subPlan[n] = "none"
  <2>1. PICK p \in {"open", "empty"} :
           todo = <<SavePlan(n, p, results), Enqueue(Continuation(n, p))>>
    BY <1>10 DEF TaskEffects
  <2> DEFINE ms == Continuation(n, p)
             e == Enqueue(ms)
             save == SavePlan(n, p, results)
             sent == IF p = "empty" THEN {Atomic!Settled(n, "completed")} ELSE {}
  <2>2. es = {save} \cup {e}
    <3> HIDE DEF e, save
    <3> QED
      BY <2>1, ElementsSingle DEF e, save
  <2>3. /\ e.op = "enqueue" /\ e.msgs = ms
        /\ save.op = "save_plan" /\ save.node = n /\ save.plan = p /\ save.results = results
    BY DEF Enqueue, SavePlan
  <2>4. ms \ Actions = sent
    <3>1. p \in SubPlanState \ {"none"}
      BY DEF SubPlanState
    <3>2. Atomic!SettlementOf(p) = IF p = "empty" THEN {"completed"} ELSE {}
      BY DEF Atomic!SettlementOf
    <3> QED
      BY <3>1, <3>2, ContinuationSeen
  <2> HIDE DEF ms, e, es, sent, save
  <2>5. /\ SentAfter(d, es, graph) = ms
        /\ GraphAfter(d, es, graph) = graph
        /\ OrchestratedAfter(es, orchestrated) = orchestrated
        /\ ResultsAfter(es, results) = results
        /\ RunAfter(d, es, graph, run) = run
        /\ All(es, "save_plan") = {save}
    <3>1. Sends(e) /\ All(es, "save_plan") = {save}
      BY <2>2, <2>3 DEF Sends, All
    <3> QED
      BY <1>8, <2>3, <3>1
  <2>6. /\ SubPlanAfter(es, subPlan) = [subPlan EXCEPT ![n] = p]
        /\ SynthInputAfter(es, synthInput) = IF n \in Synthesizers THEN results ELSE synthInput
    BY <2>3, <2>5, SomeProperties DEF SubPlanAfter, SynthInputAfter
  <2>7. Atomic!Acknowledge(m, sent)
    BY <1>1, <1>2, <2>4, <2>5, AcknowledgeIntro DEF es
  <2>8. Atomic!PlanNode(n)
    BY <1>1, <1>4, <1>10, <2>5, <2>6, <2>7 DEF Atomic!PlanNode, sent
  <2> QED
    BY <1>1, <1>3, <1>4, <1>6, <1>10, <2>8 DEF Atomic!HandleTask
<1> QED
  BY <1>7, <1>9, <1>10

\* The effects of a settlement by their kind.
LEMMA AdvanceAll ==
    ASSUME NEW n \in AllNodes, NEW s \in SettleStatus, NEW adv, adv.graph \in Graph,
           {Task(m) : m \in adv.newlyReady \cup adv.dispatchSynthesizer} \subseteq Message
    PROVE  LET es == Elements(AdvanceEffects(n, s, adv))
               claimed == adv.newlyReady \cup adv.dispatchSynthesizer
           IN  /\ All(es, "save_task_graph") = {SaveTaskGraph(adv.graph)}
               /\ All(es, "save_sub_agent_result") =
                     IF s = "completed" /\ n \in Nodes THEN {SaveResult(n)} ELSE {}
               /\ All(es, "enqueue") = IF claimed # {} THEN {Enqueue({Task(m) : m \in claimed})} ELSE {}
               /\ All(es, "update_agent_run_status") =
                     (IF adv.runCompleted THEN {PatchRun("completed")} ELSE {})
                     \cup (IF adv.blocked \/ adv.runFailed THEN {PatchRun("failed")} ELSE {})
               /\ All(es, "claim_ready_nodes") = {} /\ All(es, "save_plan") = {}
<1> DEFINE claimed == adv.newlyReady \cup adv.dispatchSynthesizer
           tasks == {Task(m) : m \in claimed}
           E1 == <<SaveTaskGraph(adv.graph)>>
           E2 == StoreEffects(n, s)
           E3 == DispatchEffects(adv)
           E4 == If(adv.runCompleted, <<PatchRun("completed")>>)
           E5 == If(adv.blocked \/ adv.runFailed, <<PatchRun("failed")>>)
           S2 == IF s = "completed" /\ n \in Nodes THEN {SaveResult(n)} ELSE {}
           S3 == IF claimed # {} THEN {Enqueue(tasks)} ELSE {}
           S4 == IF adv.runCompleted THEN {PatchRun("completed")} ELSE {}
           S5 == IF adv.blocked \/ adv.runFailed THEN {PatchRun("failed")} ELSE {}
           es == Elements(AdvanceEffects(n, s, adv))
<1>0. Enqueue(tasks) \in Effect
  BY EffectTypes
<1>1. /\ E1 \in Seq(Effect) /\ E2 \in Seq(Effect) /\ E4 \in Seq(Effect) /\ E5 \in Seq(Effect)
  BY EffectTypes DEF StoreEffects, If
<1>2. E3 \in Seq(Effect)
  BY <1>0 DEF DispatchEffects, If
<1>3. Elements(E1) = {SaveTaskGraph(adv.graph)}
  BY ElementsSingle
<1>4. Elements(E2) = S2
  BY ElementsSingle DEF StoreEffects, If
<1>5. Elements(E3) = S3
  <2>1. E3 = If(claimed # {}, <<Enqueue(tasks)>>)
    BY DEF DispatchEffects
  <2> HIDE DEF tasks, claimed, E3
  <2> QED
    BY <2>1, ElementsSingle DEF If
<1>6. Elements(E4) = S4 /\ Elements(E5) = S5
  BY ElementsSingle DEF If
<1>7. AdvanceEffects(n, s, adv) = (((E1 \o E2) \o E3) \o (E4 \o E5))
  BY DEF AdvanceEffects, VerdictEffects
<1> HIDE DEF E1, E2, E3, E4, E5
<1>8. es = {SaveTaskGraph(adv.graph)} \cup S2 \cup S3 \cup (S4 \cup S5)
  <2> DEFINE A == E1 \o E2
             B == A \o E3
             C == E4 \o E5
  <2>1. Elements(A) = Elements(E1) \cup Elements(E2) /\ A \in Seq(Effect)
    BY <1>1, ElementsConcat, ConcatProperties
  <2>2. Elements(C) = Elements(E4) \cup Elements(E5) /\ C \in Seq(Effect)
    BY <1>1, ElementsConcat, ConcatProperties
  <2> HIDE DEF A, C
  <2>3. Elements(B) = Elements(A) \cup Elements(E3) /\ B \in Seq(Effect)
    BY <1>2, <2>1, ElementsConcat, ConcatProperties
  <2> HIDE DEF B
  <2>4. Elements(B \o C) = Elements(B) \cup Elements(C)
    BY <2>2, <2>3, ElementsConcat
  <2>5. AdvanceEffects(n, s, adv) = B \o C
    BY <1>7 DEF A, B, C
  <2> HIDE DEF S2, S3, S4, S5
  <2> QED
    BY <1>3, <1>4, <1>5, <1>6, <2>1, <2>2, <2>3, <2>4, <2>5
<1> HIDE DEF es, tasks, claimed
<1>9. /\ SaveTaskGraph(adv.graph).op = "save_task_graph"
      /\ \A x \in S2 : x.op = "save_sub_agent_result"
      /\ \A x \in S3 : x.op = "enqueue"
      /\ \A x \in S4 \cup S5 : x.op = "update_agent_run_status"
  BY DEF SaveTaskGraph, SaveResult, Enqueue, PatchRun
<1> HIDE DEF S2, S3, S4, S5
<1>10. /\ All(es, "save_task_graph") = {SaveTaskGraph(adv.graph)}
       /\ All(es, "save_sub_agent_result") = S2
       /\ All(es, "enqueue") = S3
       /\ All(es, "update_agent_run_status") = S4 \cup S5
       /\ All(es, "claim_ready_nodes") = {} /\ All(es, "save_plan") = {}
  BY <1>8, <1>9 DEF All
<1> QED
  BY <1>10 DEF S2, S3, S4, S5, es, tasks, claimed

LEMMA CompletedImplements ==
    ASSUME Serial, RefinementInv, NEW w \in Workers, NEW n \in AllNodes, NEW s \in SettleStatus,
           BeginCompleted(w, n, s)
    PROVE  Atomic!HandleCompleted(n, s)
<1> DEFINE m == Settled(n, s)
           d == dependsOn
           st == NodeStatusOf(s)
           adv == PlanAdvance(d, graph, n, st)
           todo == CompletedEffects(n, s)
           es == Elements(todo)
           ignored == s = "waiting_for_approval" \/ AlreadyProcessed(graph, n, st)
<1>1. m \in Message /\ m \notin Actions /\ m = Atomic!Settled(n, s)
  BY MessageTypes, NotActions, SameMessages
<1>2. Invoke(w, m, todo) /\ UNCHANGED run
  BY DEF BeginCompleted
<1> HIDE DEF m, todo
<1>3. Atomic!Deliverable(m) /\ Deliverable(m)
  BY <1>1, <1>2, DeliverableIntro, BeginView
<1>4. /\ Effects' = es /\ UNCHANGED <<dependsOn, orchestrated, graph, subPlan, results, synthInput, run>>
      /\ OrchestratedAfter(Effects, orchestrated) = orchestrated
      /\ GraphAfter(dependsOn, Effects, graph) = graph
      /\ SubPlanAfter(Effects, subPlan) = subPlan
      /\ ResultsAfter(Effects, results) = results
      /\ SynthInputAfter(Effects, synthInput) = synthInput
      /\ RunAfter(dependsOn, Effects, graph, run) = run
  BY <1>1, <1>2, BeginView
<1>5. /\ Atomic!NodeStatusOf(s) = st
      /\ Atomic!AlreadyProcessed(graph, n, st) <=> AlreadyProcessed(graph, n, st)
      /\ Atomic!PlanAdvance(dependsOn, graph, n, st) = adv
  BY SameGraphs
<1>6. CASE ignored
  <2>1. todo = <<>>
    BY <1>6 DEF CompletedEffects, If, todo
  <2>2. Atomic!Ignore(m)
    BY <1>1, <1>2, <2>1, IgnoreIntro
  <2> HIDE DEF st
  <2> QED
    BY <1>1, <1>3, <1>4, <1>5, <1>6, <2>2 DEF Atomic!HandleCompleted
<1>7. CASE ~ignored
  <2> DEFINE claimed == adv.newlyReady \cup adv.dispatchSynthesizer
             tasks == {Task(k) : k \in claimed}
             patches == (IF adv.runCompleted THEN {PatchRun("completed")} ELSE {})
                        \cup (IF adv.blocked \/ adv.runFailed THEN {PatchRun("failed")} ELSE {})
  <2>1. /\ dependsOn \in Dependencies /\ graph \in Graph /\ orchestrated \in BOOLEAN
        /\ Ordered(dependsOn, graph) /\ st \in {COMPLETED, FAILED}
    BY DEF RefinementInv, SerialInv, TruthInv, TypeInv, TypeOK, NodeStatusOf
  <2>2. graph[n] = RUNNING
    BY <1>3, <1>7, SettledNodeRuns DEF RefinementInv, m
  <2>3. /\ adv.graph \in Graph /\ claimed \subseteq AllNodes
        /\ adv.runCompleted \in BOOLEAN /\ adv.runFailed \in BOOLEAN /\ adv.blocked \in BOOLEAN
    BY <2>1, AdvanceTypes DEF AllNodes
  <2>4. ~(adv.runCompleted /\ (adv.blocked \/ adv.runFailed))
    <3>1. adv.runCompleted => \A k \in AllNodes : adv.graph[k] = COMPLETED
      BY <2>1, <2>2, PlanAdvanceFits
    <3>2. adv.blocked \/ adv.runFailed => Stuck(d, adv.graph)
      BY <2>1, <2>2, PlanAdvanceFits
    <3> HIDE DEF adv
    <3>3. ~(Stuck(d, adv.graph) /\ \A k \in AllNodes : adv.graph[k] = COMPLETED)
      BY DEF Stuck, AllNodesCompleted, CompletedNodeIds, AllNodes, COMPLETED, FAILED
    <3> QED
      BY <3>1, <3>2, <3>3
  <2>5. orchestrated = TRUE
    <3>1. graph # NewGraph
      BY <2>2 DEF NewGraph, PENDING, RUNNING
    <3> QED
      BY <2>1, <3>1 DEF RefinementInv, SerialInv, NotStarted
  <2>6. todo = AdvanceEffects(n, s, adv)
    BY <1>7 DEF CompletedEffects, If, todo
  <2> HIDE DEF adv, st
  <2>7. tasks \subseteq Message /\ tasks \cap Actions = {}
    BY <2>3, MessageTypes, NotActions
  <2>8. /\ All(es, "save_task_graph") = {SaveTaskGraph(adv.graph)}
        /\ All(es, "save_sub_agent_result") =
              IF s = "completed" /\ n \in Nodes THEN {SaveResult(n)} ELSE {}
        /\ All(es, "enqueue") = IF claimed # {} THEN {Enqueue(tasks)} ELSE {}
        /\ All(es, "update_agent_run_status") = patches
        /\ All(es, "claim_ready_nodes") = {} /\ All(es, "save_plan") = {}
    BY <2>3, <2>6, <2>7, AdvanceAll
  <2> HIDE DEF es, tasks, patches
  <2>9. /\ SaveTaskGraph(adv.graph).graph = adv.graph /\ SaveResult(n).node = n
        /\ Enqueue(tasks).msgs = tasks
        /\ PatchRun("completed").status = "completed" /\ PatchRun("failed").status = "failed"
    BY DEF SaveTaskGraph, SaveResult, Enqueue, PatchRun
  <2>10. SavedAfter(es, graph) = adv.graph
    BY <2>8, <2>9, SomeProperties DEF SavedAfter
  <2>11. ClaimedAfter(d, es, graph) = {}
    BY <2>8 DEF ClaimedAfter
  <2>12. GraphAfter(d, es, graph) = adv.graph
    <3>1. WithNodeStatus(adv.graph, {}, RUNNING) = adv.graph
      BY <2>3 DEF WithNodeStatus, Graph
    <3> QED
      BY <2>10, <2>11, <3>1 DEF GraphAfter
  <2>13. /\ OrchestratedAfter(es, orchestrated) = orchestrated
         /\ SubPlanAfter(es, subPlan) = subPlan
         /\ SynthInputAfter(es, synthInput) = synthInput
    BY <2>5, <2>8 DEF OrchestratedAfter, SubPlanAfter, SynthInputAfter
  <2>14. ResultsAfter(es, results) = IF s = "completed" /\ n \in Nodes THEN results \cup {n} ELSE results
    BY <2>8, <2>9 DEF ResultsAfter
  <2>15. RunAfter(d, es, graph, run) =
            IF adv.runFailed \/ adv.blocked THEN "failed"
            ELSE IF adv.runCompleted THEN "completed" ELSE run
    <3>1. CASE adv.runFailed \/ adv.blocked
      <4>1. All(es, "update_agent_run_status") = {PatchRun("failed")}
        BY <2>4, <2>8, <3>1 DEF patches
      <4> QED
        BY <2>9, <3>1, <4>1, SomeProperties DEF RunAfter
    <3>2. CASE ~(adv.runFailed \/ adv.blocked) /\ adv.runCompleted
      <4>1. All(es, "update_agent_run_status") = {PatchRun("completed")}
        BY <2>8, <3>2 DEF patches
      <4> QED
        BY <2>9, <3>2, <4>1, SomeProperties DEF RunAfter
    <3>3. CASE ~(adv.runFailed \/ adv.blocked) /\ ~adv.runCompleted
      <4>1. All(es, "update_agent_run_status") = {}
        BY <2>8, <3>3 DEF patches
      <4> QED
        BY <2>8, <3>3, <4>1 DEF RunAfter
    <3> QED
      BY <3>1, <3>2, <3>3
  <2>16. SentAfter(d, es, graph) = tasks
    <3>1. CASE claimed = {}
      <4>1. tasks = {}
        BY <3>1 DEF tasks
      <4> QED
        BY <2>8, <2>11, <3>1, <4>1 DEF SentAfter
    <3>2. CASE claimed # {}
      BY <2>8, <2>9, <2>11, <3>2 DEF SentAfter
    <3> QED
      BY <3>1, <3>2
  <2>17. Atomic!Acknowledge(m, tasks)
    <3>1. SentAfter(d, es, graph) \ Actions = tasks
      BY <2>7, <2>16
    <3> QED
      BY <1>1, <1>2, <3>1, AcknowledgeIntro DEF es
  <2>18. Atomic!Dispatch(adv) = tasks
    BY SameMessages DEF Atomic!Dispatch, tasks
  <2>19. Atomic!AdvanceTaskGraph(n, s)
    BY <1>1, <1>4, <1>5, <1>7, <2>12, <2>13, <2>14, <2>15, <2>17, <2>18
       DEF Atomic!AdvanceTaskGraph, Atomic!StoreResult, Atomic!RunAfter
  <2> QED
    BY <1>1, <1>3, <2>19 DEF Atomic!HandleCompleted
<1> QED
  BY <1>6, <1>7

-----------------------------------------------------------------------------
(***************************************************************************)
(* A sub-plan settles while an invocation is under way.                    *)
(***************************************************************************)
\* A sub-plan that is about to be saved is not there yet.
LEMMA SavedPlansAreNew ==
    ASSUME RefinementInv, NEW e \in All(Effects, "save_plan")
    PROVE  subPlan[e.node] = "none"
<1>1. PICK w \in Workers : e \in Elements(Todo(w)) /\ e.op = "save_plan"
  BY DEF All, Effects
<1>2. /\ Todo(w) \in Seq(Effect) /\ TodoTrue(dependsOn, subPlan, inv[w].msg, Todo(w))
  BY InvocationTypes DEF RefinementInv, SerialInv, TruthInv, TypeInv, Truthful, Todo
<1>3. PICK i \in 1 .. Len(Todo(w)) : e = Todo(w)[i]
  BY <1>1, <1>2 DEF Elements
<1> QED
  BY <1>1, <1>2, <1>3 DEF TodoTrue, EffectTrue

\* A settlement in hand is that of a sub-plan that has ended.
LEMMA SettledInHand ==
    ASSUME RefinementInv, NEW n \in AllNodes, NEW s \in SettleStatus, Settled(n, s) \in InHand
    PROVE  subPlan[n] # "open"
<1>1. PICK w \in Workers : inv[w] # Idle /\ inv[w].msg = Settled(n, s)
  BY DEF InHand
<1>2. Settled(n, s) \in pending \cup delivered
  BY <1>1 DEF RefinementInv, SerialInv, TruthInv, InQueue, Deliverable
<1> QED
  BY <1>2 DEF RefinementInv, SerialInv, TruthInv, Truthful, MessageTrue

LEMMA SettlesImplements ==
    ASSUME RefinementInv, NEW n \in AllNodes, SubPlanSettles(n)
    PROVE  \/ Atomic!SubPlanSettles(n)
           \/ Atomic!SubPlanSettlesAgain(n)
           \/ UNCHANGED Atomic!vars
<1> DEFINE es == Effects
           d == dependsOn
           sent == SentAfter(d, es, graph)
           a == Action(n)
           Queue(p) == ((p \ InHand) \cup sent) \ Actions
<1>1. /\ Effects' = es /\ InHand' = InHand /\ delivered' = delivered \cup {a}
      /\ UNCHANGED <<dependsOn, orchestrated, graph, results, synthInput, run>>
  BY DEF SubPlanSettles, Effects, InHand, Todo
<1>2. a \in Actions
  BY DEF Actions
<1>3. (delivered' \cup InHand') \ Actions = (delivered \cup InHand) \ Actions
  BY <1>1, <1>2
<1>4. \A n1, s1 : Settled(n1, s1) \notin Actions
  BY NotActions
<1>5. subPlan \in [AllNodes -> SubPlanState]
  BY DEF RefinementInv, SerialInv, TruthInv, TypeInv, TypeOK
<1>6. \A e \in All(es, "save_plan") : subPlan[e.node] = "none"
  BY SavedPlansAreNew
<1>7. All(es, "save_plan") # {} => Some(All(es, "save_plan")) \in All(es, "save_plan")
  BY SomeProperties
<1> HIDE DEF es, sent, a
<1>8. subPlan[n] # "none" =>
         SubPlanAfter(es, subPlan)[n] = subPlan[n]
  BY <1>5, <1>6, <1>7 DEF SubPlanAfter
<1>9. ASSUME NEW s \in SettleStatus, subPlan[n] = "open", subPlan' = [subPlan EXCEPT ![n] = s],
             pending' = (pending \ {a}) \cup {Settled(n, s)}
      PROVE  Atomic!SubPlanSettles(n)
  <2>1. SubPlanAfter(es, subPlan') = [SubPlanAfter(es, subPlan) EXCEPT ![n] = s]
    <3>1. CASE All(es, "save_plan") = {}
      BY <1>9, <3>1 DEF SubPlanAfter
    <3>2. CASE All(es, "save_plan") # {}
      <4> DEFINE k == Some(All(es, "save_plan")).node
                 p == Some(All(es, "save_plan")).plan
      <4>1. k # n
        BY <1>6, <1>7, <1>9, <3>2
      <4>2. /\ SubPlanAfter(es, subPlan') = [subPlan' EXCEPT ![k] = p]
            /\ SubPlanAfter(es, subPlan) = [subPlan EXCEPT ![k] = p]
        BY <3>2 DEF SubPlanAfter
      <4> HIDE DEF k, p
      <4> QED
        BY <1>5, <1>9, <4>1, <4>2
    <3> QED
      BY <3>1, <3>2
  <2>2. Settled(n, s) \notin InHand
    BY <1>9, SettledInHand
  <2>3. Queue(pending') = Queue(pending) \cup {Settled(n, s)}
    BY <1>2, <1>4, <1>9, <2>2
  <2>4. SubPlanAfter(es, subPlan)[n] = "open"
    BY <1>8, <1>9
  <2>5. /\ Atomic!Settled(n, s) = Settled(n, s) /\ Atomic!SettleStatus = SettleStatus
    BY SameMessages, SameGraphs
  <2> QED
    BY <1>1, <1>3, <2>1, <2>3, <2>4, <2>5 DEF Atomic!SubPlanSettles, Actions, es, sent
<1>10. ASSUME subPlan[n] = "completed", subPlan' = subPlan,
              pending' = (pending \ {a}) \cup {Settled(n, "completed")},
              Settled(n, "completed") \notin InHand
       PROVE  Atomic!SubPlanSettlesAgain(n)
  <2>1. Queue(pending') = Queue(pending) \cup {Settled(n, "completed")}
    BY <1>2, <1>4, <1>10
  <2>2. SubPlanAfter(es, subPlan)[n] = "completed"
    BY <1>8, <1>10
  <2>3. Atomic!Settled(n, "completed") = Settled(n, "completed")
    BY SameMessages
  <2> QED
    BY <1>1, <1>3, <1>10, <2>1, <2>2, <2>3 DEF Atomic!SubPlanSettlesAgain, Actions, es, sent
<1>11. ASSUME subPlan' = subPlan,
              \/ pending' = pending \ {a}
              \/ pending' = (pending \ {a}) \cup {Settled(n, "completed")}
                 /\ Settled(n, "completed") \in InHand
       PROVE  UNCHANGED Atomic!vars
  <2>1. Queue(pending') = Queue(pending)
    BY <1>2, <1>11
  <2> QED
    BY <1>1, <1>3, <1>11, <2>1, StutterIntro DEF es, sent
<1>12. \/ \E s \in SettleStatus : /\ subPlan[n] = "open" /\ subPlan' = [subPlan EXCEPT ![n] = s]
                                  /\ pending' = (pending \ {a}) \cup {Settled(n, s)}
       \/ /\ subPlan[n] = "completed" /\ subPlan' = subPlan
          /\ pending' = (pending \ {a}) \cup {Settled(n, "completed")}
       \/ subPlan' = subPlan /\ pending' = pending \ {a}
  <2> DEFINE again == {Settled(n, s) : s \in {"completed"} \cap {subPlan[n]}}
  <2>1. again = IF subPlan[n] = "completed" THEN {Settled(n, "completed")} ELSE {}
    OBVIOUS
  <2>2. \/ \E s \in SettleStatus : /\ subPlan[n] = "open" /\ subPlan' = [subPlan EXCEPT ![n] = s]
                                   /\ pending' = (pending \ {a}) \cup {Settled(n, s)}
        \/ subPlan' = subPlan /\ pending' = (pending \ {a}) \cup again
    BY DEF SubPlanSettles, a
  <2> HIDE DEF again
  <2> QED
    BY <2>1, <2>2
<1> QED
  BY <1>9, <1>10, <1>11, <1>12

-----------------------------------------------------------------------------
(***************************************************************************)
(* The refinement.                                                         *)
(***************************************************************************)
LEMMA InitImplements == Init => Atomic!Init
<1> SUFFICES ASSUME Init PROVE Atomic!Init
  OBVIOUS
<1>1. Effects = {} /\ InHand = {}
  BY IdleFacts, ElementsSingle DEF Init, Effects, InHand, Todo
<1>2. NewGraph \in Graph
  BY DEF NewGraph, Graph, SubTaskStatus
<1>3. /\ OrchestratedAfter(Effects, orchestrated) = FALSE
      /\ GraphAfter(dependsOn, Effects, graph) = NewGraph
      /\ SubPlanAfter(Effects, subPlan) = subPlan
      /\ ResultsAfter(Effects, results) = {}
      /\ SynthInputAfter(Effects, synthInput) = {}
      /\ RunAfter(dependsOn, Effects, graph, run) = run
      /\ SentAfter(dependsOn, Effects, graph) = {}
  BY <1>1, <1>2, NothingLeft DEF Init
<1>4. ((pending \ InHand) \cup SentAfter(dependsOn, Effects, graph)) \ Actions = {Trigger}
  BY <1>1, <1>3, NotActions DEF Init
<1>5. (delivered \cup InHand) \ Actions = {}
  BY <1>1 DEF Init
<1> QED
  BY <1>3, <1>4, <1>5, SameMessages, SameGraphs DEF Init, Atomic!Init, Actions

LEMMA NextImplements ==
    ASSUME Serial, RefinementInv, [Next]_vars, crashes' = 0
    PROVE  [Atomic!Next]_(Atomic!vars)
<1>1. ASSUME NEW w \in Workers, BeginTrigger(w) PROVE Atomic!Next
  BY <1>1, TriggerImplements DEF Atomic!Next
<1>2. ASSUME NEW w \in Workers, NEW n \in AllNodes, BeginTask(w, n) PROVE Atomic!Next
  BY <1>2, TaskImplements, SameGraphs DEF Atomic!Next
<1>3. ASSUME NEW w \in Workers, NEW n \in AllNodes, NEW s \in SettleStatus, BeginCompleted(w, n, s)
      PROVE  Atomic!Next
  BY <1>3, CompletedImplements, SameGraphs DEF Atomic!Next
<1>4. ASSUME NEW w \in Workers, Perform(w) PROVE UNCHANGED Atomic!vars
  BY <1>4, SaveGraphStutters, ClaimStutters, SavePlanStutters, SaveResultStutters, PatchRunStutters,
     EnqueueStutters, EndStutters DEF Perform
<1>5. ASSUME NEW w \in Workers, Crash(w) PROVE FALSE
  BY <1>5, StepsAssumption DEF Crash, RefinementInv, SerialInv, TruthInv, TypeInv, TypeOK
<1>6. ASSUME NEW n \in AllNodes, SubPlanSettles(n) PROVE [Atomic!Next]_(Atomic!vars)
  BY <1>6, SettlesImplements, SameGraphs DEF Atomic!Next
<1>7. CASE UNCHANGED vars
  <2>1. /\ UNCHANGED <<dependsOn, orchestrated, graph, subPlan, results, synthInput, run, pending, delivered>>
        /\ Effects' = Effects /\ InHand' = InHand
    BY <1>7 DEF vars, store, Effects, InHand, Todo
  <2> QED
    BY <2>1, StutterIntro
<1> QED
  BY <1>1, <1>2, <1>3, <1>4, <1>5, <1>6, <1>7 DEF Next

\* As long as invocations do not overlap and none has ended half-way, the
\* handlers of the domain handler and of the coordinator may be taken as atomic:
\* saving the graph, the sub-plan, the result and the run and enqueueing one
\* event after the other shows nothing that Orchestration does not, for every
\* workflow and every order and number of redeliveries.
THEOREM StepsImplementAtomicHandlers == Serial => (Spec => ImplementsUntilCrash)
<1> SUFFICES ASSUME Serial PROVE Spec => ImplementsUntilCrash
  OBVIOUS
<1>1. RefinementInv /\ [Next]_vars => RefinementInv'
  BY NextRefinementInv
<1>2. RefinementInv /\ [Next]_vars => [crashes' = 0 => [Atomic!Next]_(Atomic!vars)]_vars
  BY NextImplements
<1>3. Init => RefinementInv /\ Atomic!Init
  BY InitRefinementInv, InitImplements
<1> QED
  BY <1>1, <1>2, <1>3, PTL DEF Spec, ImplementsUntilCrash
=============================================================================
