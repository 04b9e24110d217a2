-------------------------- MODULE PlanRecoveryProofs --------------------------
(***************************************************************************)
(* What crashes, redeliveries and retries cannot do to a plan, where one   *)
(* invocation works on it at a time and its statuses are the runtime's     *)
(* own: repeat a call that succeeded, change a verdict, or lose a request. *)
(***************************************************************************)
EXTENDS PlanExecutionProofs

\* The messages of a run are handled one at a time.
Serial == \A v, w \in Workers : v = w

-----------------------------------------------------------------------------
(***************************************************************************)
(* The saved plan decides the verdict on its run and the outcome its node  *)
(* settles with; while it is open there is something left to do.           *)
(***************************************************************************)
Open == "open"

NodeOutcome(how, p) ==
    CASE how = "empty" -> "completed"
      [] how = "ready" /\ PlanStatus(p) \in {"completed", "waiting_for_approval"} -> PlanStatus(p)
      [] how = "ready" /\ PlanStatus(p) \in {"failed", "replan_required"} -> "failed"
      [] OTHER -> Open

RunOutcome(how, p) ==
    CASE how = "rejected" -> "failed"
      [] how = "ready" /\ PlanStatus(p) \in {"completed", "failed"} -> PlanStatus(p)
      [] OTHER -> Open

Outcome(sub, how, p) == IF sub THEN NodeOutcome(how, p) ELSE RunOutcome(how, p)

\* A plan is worked off from its first action to its last.
Chain(p) == \A i \in Actions : p[i] # PENDING => \A j \in 1 .. i - 1 : p[j] = COMPLETED

Reached(p, i) == \A j \in 1 .. i - 1 : p[j] = COMPLETED

\* An action that may still be performed was not.
Unspent(g, p, succ) == \A i \in Actions : p[i] = PENDING => <<g, i>> \notin succ

\* There is nothing to go on with although the plan has not ended.
Stuck(p) == PlanStatus(p) = "running" /\ NextPendingAction(p) = {}

\* There is no plan, or the one there is has to be replaced.
Unplanned(sub, how, p) ==
    how = "none" \/ (~sub /\ how = "ready" /\ PlanStatus(p) = "replan_required")

\* The plan has actions, or was given up in the middle of one.
Worked(how, p) == how = "ready" \/ (how = "rejected" /\ Stuck(p))

Seen(msgs) == \E m \in msgs : m.kind = "action"

\* A request that needs no one's attention any more.
Served(how, r, msgs) == r \in RunTerminal \/ how = "rejected" \/ Seen(msgs)

\* The effects that leave the saved plan alone, for one saved as p.
Calm(sub, g, how, p, succ, r, msgs) ==
    {e \in Effect :
        \/ e.op \in {"record_idempotency_key", "raise"}
        \/ e.op = "record_pointer_key" /\ Served(how, r, msgs)
        \/ e.op = "enqueue_replan" /\ ~sub
        \/ e.op = "enqueue_action" /\ how = "ready" /\ Reached(p, e.action)
        \/ e.op = "execute" /\ how = "ready" /\ p[e.action] = RUNNING /\ <<g, e.action>> \notin succ
        \/ e.op = "settle" /\ sub /\ e.status = Outcome(sub, how, p)
        \/ /\ e.op = "update_agent_run_status" /\ ~sub /\ how # "none"
           /\ IF e.status \in RunTerminal THEN e.status = Outcome(sub, how, p)
              ELSE Outcome(sub, how, p) = Open /\ r \notin RunTerminal}

\* An invocation goes on to the next action last of all.
Ending(S) == {t \in Seq(S \cup {EnqueueNext}) : \A n \in 1 .. Len(t) - 1 : t[n] \in S}

\* The end of a request, the rejection of a plan, a plan without actions, one
\* with actions, and a planner that failed.
Pointer         == {<<>>, <<RecordPointerKey>>}
Rejecting       == {<<PatchRun("failed")>> \o k : k \in Pointer}
EmptyTails(sub) == IF sub THEN {<<Settle("completed")>>} ELSE {<<RejectPlan>> \o t : t \in Rejecting}
ReadyTails      == {<<EnqueueAct(1, 0)>> \o k : k \in Pointer}
GivingUp        == {<<PatchRun("failed"), Raise>> \o k : k \in Pointer}

(***************************************************************************)
(* What an invocation has left to do, by what it does first.               *)
(***************************************************************************)
CalmTodo(todo, sub, g, how, p, succ, r, msgs) ==
    \/ todo \in Seq(Calm(sub, g, how, p, succ, r, msgs))
    \/ Worked(how, p) /\ Seen(msgs) /\ todo \in Ending(Calm(sub, g, how, p, succ, r, msgs))

SavingTodo(todo, sub, how, p, r) ==
    /\ First(todo, "save_new_plan")
    /\ r \notin RunTerminal
    /\ Unplanned(sub, how, p)
    /\ Tail(todo) \in IF Head(todo).planned = "empty" THEN EmptyTails(sub) ELSE ReadyTails

RejectingTodo(todo, sub, how, p, r) ==
    /\ First(todo, "reject_plan")
    /\ ~sub /\ r \notin RunTerminal
    /\ how = "empty" \/ (how = "ready" /\ Stuck(p))
    /\ Tail(todo) \in Rejecting

UpdatingTodo(todo, sub, g, how, p, succ, r, msgs) ==
    /\ First(todo, "update_plan")
    /\ Seen(msgs) /\ how = "ready" /\ PlanStatus(p) = "running" /\ r \notin RunTerminal
    /\ Chain(Head(todo).plan) /\ Unspent(g, Head(todo).plan, succ)
    /\ \A i \in Actions : p[i] = COMPLETED => Head(todo).plan[i] = COMPLETED
    /\ Tail(todo) \in Ending(Calm(sub, g, "ready", Head(todo).plan, succ, r, msgs))

ResumingTodo(todo, how, p) ==
    /\ First(todo, "enqueue_action")
    /\ how = "ready" /\ Reached(p, Head(todo).action)
    /\ Tail(todo) \in Pointer

GivingUpTodo(todo, sub, how, p, r) ==
    /\ ~sub /\ r \notin RunTerminal /\ Unplanned(sub, how, p)
    /\ todo \in GivingUp

TodoFits(todo, sub, g, how, p, succ, r, msgs) ==
    \/ CalmTodo(todo, sub, g, how, p, succ, r, msgs)
    \/ SavingTodo(todo, sub, how, p, r)
    \/ RejectingTodo(todo, sub, how, p, r)
    \/ UpdatingTodo(todo, sub, g, how, p, succ, r, msgs)
    \/ ResumingTodo(todo, how, p)
    \/ GivingUpTodo(todo, sub, how, p, r)

MessageFits(m, sub, g, how, p, n) ==
    /\ \A h \in Gens : m = Replan(h) => ~sub
    /\ \A h \in Gens, i \in Actions, k \in Attempts :
          m = Act(h, i, k) => h <= n /\ (h = g => Worked(how, p) /\ Reached(p, i))

(***************************************************************************)
(* The inductive invariant.                                                *)
(***************************************************************************)
RunFits ==
    /\ isSubplan => run = "running" /\ entry = "event" /\ planned # "rejected"
    /\ ~isSubplan => settled = {}
    /\ run \in RunTerminal => \/ Unplanned(isSubplan, planned, plan)
                              \/ run = Outcome(isSubplan, planned, plan)
    /\ settled \subseteq {Outcome(isSubplan, planned, plan)} \ {Open}
    /\ planned = "none" => plans = 0

PlanFits ==
    /\ Chain(plan)
    /\ Unspent(gen, plan, succeeded)
    /\ \A id \in succeeded : id[1] <= plans

QueueFits ==
    /\ (\E i \in Actions : plan[i] # PENDING) => Seen(pending \cup delivered)
    /\ \A m \in pending \cup delivered : MessageFits(m, isSubplan, gen, planned, plan, plans)
    /\ pointerKey => Served(planned, run, pending \cup delivered)

InvocationFits(w) ==
    /\ inv[w] # Idle => inv[w].msg \in pending \cup delivered
    /\ Todo(w) # <<>> =>
          /\ inv[w].gen = gen /\ inv[w].plan = plan
          /\ TodoFits(Todo(w), isSubplan, gen, planned, plan, succeeded, run, pending \cup delivered)

RecoveryInv ==
    /\ TruthInv
    /\ RunFits
    /\ PlanFits
    /\ QueueFits
    /\ \A w \in Workers : InvocationFits(w)

-----------------------------------------------------------------------------
(***************************************************************************)
(* Sequences that end with the next action.                                *)
(***************************************************************************)
LEMMA EndingOps ==
    ASSUME NEW S
    PROVE  /\ Seq(S) \subseteq Ending(S)
           /\ \A s \in Seq(S) : s \o <<EnqueueNext>> \in Ending(S)
           /\ \A t \in Ending(S) : t # <<>> =>
                 /\ Tail(t) \in Ending(S)
                 /\ Head(t) \in S \/ (Head(t) = EnqueueNext /\ Tail(t) = <<>>)
<1> DEFINE N == EnqueueNext
           T == S \cup {N}
<1>1. ASSUME NEW s \in Seq(S) PROVE s \in Ending(S)
  <2>1. s \in Seq(T)
    BY SeqMono
  <2>2. \A n \in 1 .. Len(s) - 1 : s[n] \in S
    OBVIOUS
  <2> QED
    BY <2>1, <2>2 DEF Ending
<1> HIDE DEF N
<1>2. ASSUME NEW s \in Seq(S) PROVE s \o <<N>> \in Ending(S)
  <2>1. s \in Seq(T) /\ <<N>> \in Seq(T) /\ Len(<<N>>) = 1
    BY SeqMono
  <2>2. /\ s \o <<N>> \in Seq(T) /\ Len(s \o <<N>>) = Len(s) + 1
        /\ \A n \in 1 .. Len(s) + 1 : (s \o <<N>>)[n] = IF n <= Len(s) THEN s[n] ELSE <<N>>[n - Len(s)]
    BY <2>1, ConcatProperties
  <2>3. \A n \in 1 .. Len(s \o <<N>>) - 1 : (s \o <<N>>)[n] \in S
    <3> TAKE n \in 1 .. Len(s \o <<N>>) - 1
    <3>1. Len(s) \in Nat /\ n \in 1 .. Len(s) /\ n \in 1 .. Len(s) + 1 /\ n <= Len(s)
      BY <2>2
    <3>2. (s \o <<N>>)[n] = s[n]
      BY <2>2, <3>1
    <3> QED
      BY <3>1, <3>2
  <2> QED
    BY <2>2, <2>3 DEF Ending, N
<1>3. ASSUME NEW t \in Ending(S), t # <<>>
      PROVE  Tail(t) \in Ending(S) /\ (Head(t) \in S \/ (Head(t) = N /\ Tail(t) = <<>>))
  <2>1. t \in Seq(T) /\ \A n \in 1 .. Len(t) - 1 : t[n] \in S
    BY DEF Ending, N
  <2>2. /\ Tail(t) \in Seq(T) /\ Len(Tail(t)) = Len(t) - 1 /\ Len(t) \in Nat \ {0}
        /\ \A n \in 1 .. Len(t) - 1 : Tail(t)[n] = t[n + 1]
        /\ Head(t) = t[1] /\ t[1] \in T
    <3>1. Len(t) \in Nat \ {0} /\ Head(t) = t[1] /\ t[1] \in T
      BY <1>3, <2>1
    <3>2. /\ Tail(t) \in Seq(T) /\ Len(Tail(t)) = Len(t) - 1
          /\ \A n \in 1 .. Len(t) - 1 : Tail(t)[n] = t[n + 1]
      <4> HIDE DEF T
      <4> QED
        BY <1>3, <2>1, HeadTailProperties
    <3> QED
      BY <3>1, <3>2
  <2>3. \A n \in 1 .. Len(Tail(t)) - 1 : Tail(t)[n] \in S
    <3> TAKE n \in 1 .. Len(Tail(t)) - 1
    <3>1. n \in 1 .. Len(t) - 1 /\ n + 1 \in 1 .. Len(t) - 1
      BY <2>2
    <3> QED
      BY <2>1, <2>2, <3>1
  <2>4. Tail(t) \in Ending(S)
    BY <2>2, <2>3 DEF Ending, N
  <2>5. CASE Len(t) = 1
    <3>1. Tail(t) = <<>>
      <4>1. Tail(t) \in Seq(T) /\ Len(Tail(t)) = 0
        BY <2>2, <2>5
      <4> HIDE DEF T
      <4> QED
        BY <4>1, EmptySeq
    <3> QED
      BY <2>2, <2>4, <3>1
  <2>6. CASE Len(t) # 1
    BY <2>1, <2>2, <2>4, <2>6
  <2> QED
    BY <2>5, <2>6
<1> QED
  BY <1>1, <1>2, <1>3 DEF N

LEMMA EndingMono ==
    ASSUME NEW S, NEW T, S \subseteq T
    PROVE  Ending(S) \subseteq Ending(T)
<1> SUFFICES ASSUME NEW t \in Ending(S) PROVE t \in Ending(T)
  OBVIOUS
<1>1. t \in Seq(S \cup {EnqueueNext}) /\ \A n \in 1 .. Len(t) - 1 : t[n] \in S
  BY DEF Ending
<1>2. S \cup {EnqueueNext} \subseteq T \cup {EnqueueNext}
  OBVIOUS
<1>3. t \in Seq(T \cup {EnqueueNext})
  BY <1>1, <1>2, SeqMono
<1> QED
  BY <1>1, <1>3 DEF Ending

-----------------------------------------------------------------------------
(***************************************************************************)
(* The plan: what its status is, and what an action changes in it.         *)
(***************************************************************************)
LEMMA StatusDistinct ==
    /\ PENDING # RUNNING /\ PENDING # COMPLETED /\ PENDING # FAILED /\ PENDING # STALE
    /\ PENDING # REQUIRES_APPROVAL /\ PENDING # SKIPPED
    /\ RUNNING # COMPLETED /\ RUNNING # FAILED /\ RUNNING # STALE /\ RUNNING # REQUIRES_APPROVAL
    /\ RUNNING # SKIPPED /\ COMPLETED # FAILED /\ COMPLETED # STALE /\ COMPLETED # REQUIRES_APPROVAL
    /\ FAILED # STALE /\ FAILED # REQUIRES_APPROVAL /\ FAILED # SKIPPED /\ STALE # REQUIRES_APPROVAL
    /\ STALE # SKIPPED /\ REQUIRES_APPROVAL # SKIPPED
BY DEF PENDING, RUNNING, COMPLETED, FAILED, STALE, REQUIRES_APPROVAL, SKIPPED

\* A plan that is worked on at action i.
At(p, i) == Reached(p, i) /\ \A j \in Actions : j > i => p[j] = PENDING

LEMMA StatusAt ==
    ASSUME NEW p \in Plan, NEW i \in Actions, At(p, i)
    PROVE  /\ p[i] \in {PENDING, RUNNING} => PlanStatus(p) = "running"
           /\ p[i] = FAILED => PlanStatus(p) = "failed"
           /\ p[i] = STALE => PlanStatus(p) = "replan_required"
           /\ p[i] = REQUIRES_APPROVAL => PlanStatus(p) = "waiting_for_approval"
           /\ Chain(p)
<1>1. \A j \in Actions : j = i \/ p[j] \in {PENDING, COMPLETED}
  BY DEF At, Reached, Actions
<1>2. Chain(p)
  <2> SUFFICES ASSUME NEW k \in Actions, p[k] # PENDING, NEW j \in 1 .. k - 1 PROVE p[j] = COMPLETED
    BY DEF Chain
  <2>1. k <= i /\ j \in 1 .. i - 1
    BY DEF At, Actions
  <2> QED
    BY <2>1 DEF At, Reached
<1> QED
  BY <1>1, <1>2, StatusDistinct DEF PlanStatus

\* The status of an open action is replaced.
LEMMA ReplaceAt ==
    ASSUME NEW p \in Plan, NEW i \in Actions, NEW s \in ActionStatus, Chain(p), Reached(p, i),
           p[i] \in {PENDING, RUNNING}
    PROVE  /\ At(p, i) /\ PlanStatus(p) = "running"
           /\ ReplaceAction(p, i, s) \in Plan /\ At(ReplaceAction(p, i, s), i)
           /\ ReplaceAction(p, i, s)[i] = s
           /\ \A j \in Actions : p[j] = COMPLETED => ReplaceAction(p, i, s)[j] = COMPLETED
           /\ \A g, succ : /\ Unspent(g, p, succ)
                           /\ s = PENDING => <<g, i>> \notin succ
                           => Unspent(g, ReplaceAction(p, i, s), succ)
<1> DEFINE q == ReplaceAction(p, i, s)
<1>1. q \in Plan /\ q[i] = s /\ \A j \in Actions \ {i} : q[j] = p[j]
  BY DEF ReplaceAction, Plan
<1> HIDE DEF q
<1>2. At(p, i)
  <2>1. ASSUME NEW j \in Actions, j > i, p[j] # PENDING PROVE FALSE
    <3>1. i \in 1 .. j - 1
      BY <2>1 DEF Actions
    <3> QED
      BY <2>1, <3>1, StatusDistinct DEF Chain
  <2> QED
    BY <2>1 DEF At
<1>3. At(q, i)
  <2>1. \A j \in 1 .. i - 1 : j \in Actions \ {i}
    BY NumActionsAssumption DEF Actions
  <2>2. \A j \in Actions : j > i => j \in Actions \ {i}
    BY DEF Actions
  <2> QED
    BY <1>1, <1>2, <2>1, <2>2 DEF At, Reached
<1>4. \A j \in Actions : p[j] = COMPLETED => q[j] = COMPLETED
  BY <1>1, StatusDistinct
<1>5. ASSUME NEW g, NEW succ, Unspent(g, p, succ), s = PENDING => <<g, i>> \notin succ
      PROVE  Unspent(g, q, succ)
  BY <1>1, <1>5 DEF Unspent
<1> QED
  BY <1>1, <1>2, <1>3, <1>4, <1>5, StatusAt DEF q

\* The next action of a plan, and when there is none.
LEMMA NextAt ==
    ASSUME NEW p \in Plan, Chain(p)
    PROVE  /\ \A i \in NextPendingAction(p) : i \in Actions /\ Reached(p, i) /\ p[i] = PENDING
           /\ \A i \in Actions : Reached(p, i) /\ p[i] = PENDING => ~Stuck(p)
<1>1. ASSUME NEW i \in NextPendingAction(p) PROVE i \in Actions /\ Reached(p, i) /\ p[i] = PENDING
  <2>1. i \in Actions /\ p[i] = PENDING /\ DependsOn(i) \subseteq CompletedActionIds(p)
    BY DEF NextPendingAction
  <2>2. CASE i = 1
    BY <2>1, <2>2 DEF Reached
  <2>3. CASE i # 1
    <3>1. i - 1 \in Actions /\ p[i - 1] = COMPLETED
      BY <2>1, <2>3, NumActionsAssumption DEF DependsOn, CompletedActionIds, Actions
    <3>2. \A j \in 1 .. (i - 1) - 1 : p[j] = COMPLETED
      BY <3>1, StatusDistinct DEF Chain
    <3> QED
      BY <2>1, <3>1, <3>2 DEF Reached, Actions
  <2> QED
    BY <2>1, <2>2, <2>3
<1>2. ASSUME NEW i \in Actions, Reached(p, i), p[i] = PENDING, Stuck(p) PROVE FALSE
  <2>1. PlanStatus(p) = "running" /\ NextPendingAction(p) = {}
    BY <1>2 DEF Stuck
  <2>2. DependsOn(i) \subseteq CompletedActionIds(p)
    BY <1>2, NumActionsAssumption DEF DependsOn, CompletedActionIds, Reached, Actions
  <2>3. \A j \in Actions : p[j] = PENDING => i <= j
    BY <1>2, StatusDistinct DEF Reached, Actions
  <2>4. i \in NextPendingAction(p)
    BY <1>2, <2>1, <2>2, <2>3 DEF NextPendingAction
  <2> QED
    BY <2>1, <2>4
<1> QED
  BY <1>1, <1>2

\* What a plan decides.
LEMMA OutcomeFacts ==
    ASSUME NEW sub \in BOOLEAN, NEW p
    PROVE  /\ PlanStatus(p) = "running" => Outcome(sub, "ready", p) = Open
           /\ \A how \in {"none", "empty", "rejected", "ready"} :
                 /\ Outcome(FALSE, how, p) \in {"completed", "failed", Open}
                 /\ Unplanned(sub, how, p) => Outcome(sub, how, p) = Open
           /\ PlanStatus(p) = "completed" => Outcome(sub, "ready", p) = "completed"
           /\ Outcome(TRUE, "empty", p) = "completed" /\ Outcome(FALSE, "rejected", p) = "failed"
           /\ Outcome(FALSE, "empty", p) = Open
           /\ PlanStatus(p) = "failed" => Outcome(sub, "ready", p) = "failed"
           /\ PlanStatus(p) = "replan_required" => Outcome(TRUE, "ready", p) = "failed"
           /\ PlanStatus(p) = "waiting_for_approval" => Outcome(TRUE, "ready", p) = "waiting_for_approval"
           /\ PlanStatus(p) \in {"replan_required", "waiting_for_approval"} => Outcome(FALSE, "ready", p) = Open
           /\ Open \notin RunTerminal \cup SettleStatus
BY DEF Outcome, NodeOutcome, RunOutcome, Open, Unplanned, RunTerminal, SettleStatus

-----------------------------------------------------------------------------
(***************************************************************************)
(* What the handlers plan fits the saved plan.                             *)
(***************************************************************************)
LEMMA HeadFirst ==
    ASSUME NEW S, NEW s \in Seq(S), s # <<>>
    PROVE  s = <<Head(s)>> \o Tail(s)
<1> DEFINE h == <<Head(s)>>
<1>1. /\ Tail(s) \in Seq(S) /\ Len(Tail(s)) = Len(s) - 1 /\ Head(s) \in S /\ Len(s) \in Nat \ {0}
      /\ \A i \in 1 .. Len(Tail(s)) : Tail(s)[i] = s[i + 1]
      /\ Head(s) = s[1]
  BY HeadTailProperties, EmptySeq
<1>2. h \in Seq(S) /\ Len(h) = 1 /\ h[1] = s[1]
  BY <1>1
<1> HIDE DEF h
<1>3. /\ h \o Tail(s) \in Seq(S) /\ Len(h \o Tail(s)) = Len(h) + Len(Tail(s))
      /\ \A i \in 1 .. Len(h) + Len(Tail(s)) :
            (h \o Tail(s))[i] = IF i <= Len(h) THEN h[i] ELSE Tail(s)[i - Len(h)]
  BY <1>1, <1>2, ConcatProperties
<1>4. Len(h \o Tail(s)) = Len(s)
  BY <1>1, <1>2, <1>3
<1>5. \A i \in 1 .. Len(s) : (h \o Tail(s))[i] = s[i]
  <2> TAKE i \in 1 .. Len(s)
  <2>1. (h \o Tail(s))[i] = IF i <= 1 THEN h[i] ELSE Tail(s)[i - 1]
    BY <1>1, <1>2, <1>3
  <2>2. CASE i = 1
    BY <1>2, <2>1, <2>2
  <2>3. CASE i # 1
    <3>1. i - 1 \in 1 .. Len(Tail(s)) /\ (i - 1) + 1 = i /\ ~(i <= 1)
      BY <1>1, <2>3
    <3> QED
      BY <1>1, <2>1, <3>1
  <2> QED
    BY <2>2, <2>3
<1> QED
  BY <1>3, <1>4, <1>5, SeqEqual DEF h

\* An effect before others, and two of them.
LEMMA Cons ==
    ASSUME NEW S, NEW e \in S, NEW t \in Seq(S)
    PROVE  /\ <<e>> \in Seq(S)
           /\ <<e>> \o t \in Seq(S) /\ <<e>> \o t # <<>> /\ Head(<<e>> \o t) = e /\ Tail(<<e>> \o t) = t
           /\ \A d \in S : <<e, d>> = <<e>> \o <<d>>
<1>1. <<e>> \in Seq(S) /\ <<e>> # <<>> /\ Head(<<e>>) = e /\ Tail(<<e>>) = <<>>
  OBVIOUS
<1> DEFINE h == <<e>>
<1> HIDE DEF h
<1>2. h \o t \in Seq(S) /\ h \o t # <<>> /\ Head(h \o t) = Head(h) /\ Tail(h \o t) = Tail(h) \o t
  BY <1>1, HeadOfConcat, SeqOps DEF h
<1>3. Tail(h \o t) = t
  BY <1>1, <1>2, ConcatEmptySeq DEF h
<1>4. ASSUME NEW d \in S PROVE <<e, d>> = <<e>> \o <<d>>
  <2>1. <<e, d>> \in Seq(S) /\ <<e, d>> # <<>> /\ Head(<<e, d>>) = e /\ Tail(<<e, d>>) = <<d>>
    OBVIOUS
  <2> DEFINE s == <<e, d>>
  <2> HIDE DEF s
  <2>2. s = <<Head(s)>> \o Tail(s)
    BY <2>1, HeadFirst DEF s
  <2> QED
    BY <2>1, <2>2 DEF s
<1> QED
  BY <1>1, <1>2, <1>3, <1>4 DEF h

LEMMA CalmFacts ==
    ASSUME NEW sub \in BOOLEAN, NEW g, NEW how, NEW p, NEW succ, NEW r, NEW msgs
    PROVE  LET C == Calm(sub, g, how, p, succ, r, msgs)
           IN  /\ C \subseteq Effect
               /\ Raise \in C
               /\ \A i \in Actions : RecordKey(i) \in C
               /\ Served(how, r, msgs) => RecordPointerKey \in C
               /\ ~sub => EnqueueReplan \in C
               /\ \A i \in Actions, k \in Attempts :
                     /\ how = "ready" /\ Reached(p, i) => EnqueueAct(i, k) \in C
                     /\ how = "ready" /\ p[i] = RUNNING /\ <<g, i>> \notin succ => Execute(i, k) \in C
               /\ \A s \in SettleStatus : sub /\ s = Outcome(sub, how, p) => Settle(s) \in C
               /\ \A s \in RunStatus :
                     ~sub /\ how # "none" /\ (IF s \in RunTerminal THEN s = Outcome(sub, how, p)
                                              ELSE Outcome(sub, how, p) = Open /\ r \notin RunTerminal)
                        => PatchRun(s) \in C
<1> DEFINE C == Calm(sub, g, how, p, succ, r, msgs)
<1>1. C \subseteq Effect
  BY DEF Calm
<1>2. Raise \in C /\ (\A i \in Actions : RecordKey(i) \in C)
  BY EffectTypes DEF Calm, Raise, RecordKey
<1>3. (Served(how, r, msgs) => RecordPointerKey \in C) /\ (~sub => EnqueueReplan \in C)
  BY EffectTypes DEF Calm, RecordPointerKey, EnqueueReplan
<1>4. ASSUME NEW i \in Actions, NEW k \in Attempts
      PROVE  /\ how = "ready" /\ Reached(p, i) => EnqueueAct(i, k) \in C
             /\ how = "ready" /\ p[i] = RUNNING /\ <<g, i>> \notin succ => Execute(i, k) \in C
  BY <1>4, EffectTypes DEF Calm, EnqueueAct, Execute
<1>5. \A s \in SettleStatus : sub /\ s = Outcome(sub, how, p) => Settle(s) \in C
  BY EffectTypes DEF Calm, Settle
<1>6. \A s \in RunStatus :
         ~sub /\ how # "none" /\ (IF s \in RunTerminal THEN s = Outcome(sub, how, p)
                                  ELSE Outcome(sub, how, p) = Open /\ r \notin RunTerminal)
            => PatchRun(s) \in C
  BY EffectTypes DEF Calm, PatchRun
<1> QED
  BY <1>1, <1>2, <1>3, <1>4, <1>5, <1>6

LEMMA CalmMono ==
    ASSUME NEW sub, NEW g, NEW how, NEW p, NEW succ, NEW r1, NEW r2, NEW m1, NEW m2,
           Seen(m1) => Seen(m2), r1 \in RunTerminal => r2 \in RunTerminal,
           r2 \in RunTerminal => r1 \in RunTerminal \/ Outcome(sub, how, p) # Open
    PROVE  /\ Calm(sub, g, how, p, succ, r1, m1) \subseteq Calm(sub, g, how, p, succ, r2, m2)
           /\ Served(how, r1, m1) => Served(how, r2, m2)
<1>1. Served(how, r1, m1) => Served(how, r2, m2)
  BY DEF Served
<1> QED
  BY <1>1 DEF Calm

LEMMA PointerSeqs ==
    /\ Pointer \subseteq Seq(Effect)
    /\ <<>> \in Pointer
    /\ \A sub \in BOOLEAN : \A g, how, p, succ, r, msgs :
          Served(how, r, msgs) => Pointer \subseteq Seq(Calm(sub, g, how, p, succ, r, msgs))
<1>1. Pointer \subseteq Seq(Effect) /\ <<>> \in Pointer
  BY EffectTypes, SeqOps DEF Pointer
<1>2. ASSUME NEW sub \in BOOLEAN, NEW g, NEW how, NEW p, NEW succ, NEW r, NEW msgs, Served(how, r, msgs)
      PROVE  Pointer \subseteq Seq(Calm(sub, g, how, p, succ, r, msgs))
  <2> DEFINE C == Calm(sub, g, how, p, succ, r, msgs)
  <2>1. RecordPointerKey \in C
    BY <1>2, CalmFacts
  <2> HIDE DEF C
  <2>2. Pointer \subseteq Seq(C)
    BY <2>1, SeqOps DEF Pointer
  <2> QED
    BY <2>2 DEF C
<1> QED
  BY <1>1, <1>2

\* A plan is made, or cannot be made.
LEMMA PlanningFits ==
    ASSUME TypeOK, ~Hydrates, NEW t \in Planning, NEW k \in Pointer, isSubplan => k = <<>>,
           NEW g, NEW how, NEW p, NEW succ, NEW r, r \notin RunTerminal, NEW msgs,
           Unplanned(isSubplan, how, p)
    PROVE  TodoFits(t \o k, isSubplan, g, how, p, succ, r, msgs)
<1>1. k \in Seq(Effect)
  BY PointerSeqs
<1>2. /\ SaveNewPlan("ready") \in Effect /\ SaveNewPlan("empty") \in Effect
      /\ EnqueueAct(1, 0) \in Effect /\ RejectPlan \in Effect /\ PatchRun("failed") \in Effect
      /\ Settle("completed") \in Effect
  <2>1. 1 \in Actions /\ 0 \in Attempts /\ "failed" \in RunStatus /\ "completed" \in SettleStatus
    BY NumActionsAssumption, PlanExecutionAssumption DEF Actions, Attempts, RunStatus, SettleStatus
  <2> QED
    BY <2>1, EffectTypes
<1>3. \A h \in {"ready", "empty"} : SaveNewPlan(h).op = "save_new_plan" /\ SaveNewPlan(h).planned = h
  BY DEF SaveNewPlan
<1>4. ASSUME NEW h \in {"ready", "empty"}, NEW rest \in Seq(Effect), t \o k = <<SaveNewPlan(h)>> \o rest,
             rest \in IF h = "empty" THEN EmptyTails(isSubplan) ELSE ReadyTails
      PROVE  SavingTodo(t \o k, isSubplan, how, p, r)
  <2>1. t \o k # <<>> /\ Head(t \o k) = SaveNewPlan(h) /\ Tail(t \o k) = rest
    BY <1>2, <1>4, Cons
  <2> QED
    BY <1>3, <1>4, <2>1 DEF SavingTodo, First
<1>5. CASE t = <<SaveNewPlan("ready")>> \o RecordPlanCreated \o <<EnqueueAct(1, 0)>>
  <2> DEFINE a == <<SaveNewPlan("ready")>>
             b == <<EnqueueAct(1, 0)>>
  <2>1. a \in Seq(Effect) /\ b \in Seq(Effect) /\ RecordPlanCreated = <<>>
    BY <1>2, SeqOps DEF RecordPlanCreated, If
  <2> HIDE DEF a, b
  <2>2. t = a \o b
    BY <1>5, <2>1, ConcatEmptySeq DEF a, b
  <2>3. t \o k = a \o (b \o k)
    BY <1>1, <2>1, <2>2, ConcatAssociative
  <2>4. b \o k \in Seq(Effect) /\ b \o k \in ReadyTails
    BY <1>1, <2>1, SeqOps DEF ReadyTails, b
  <2> QED
    BY <1>4, <2>3, <2>4 DEF a, TodoFits
<1>6. CASE t = <<SaveNewPlan("empty")>> \o EmptyPlan
  <2> DEFINE a == <<SaveNewPlan("empty")>>
             b == <<RejectPlan>>
             c == <<PatchRun("failed")>>
  <2>1. a \in Seq(Effect) /\ b \in Seq(Effect) /\ c \in Seq(Effect)
    BY <1>2, SeqOps
  <2>2. CASE isSubplan
    <3>1. EmptyPlan = <<Settle("completed")>> /\ EmptyPlan \in Seq(Effect) /\ EmptyPlan \in EmptyTails(isSubplan)
      BY <1>2, <2>2, SeqOps DEF EmptyPlan, EmptyTails
    <3> HIDE DEF a
    <3>2. t \o k = a \o EmptyPlan
      <4>1. a \o EmptyPlan \in Seq(Effect)
        BY <2>1, <3>1, SeqOps
      <4> QED
        BY <1>6, <2>2, <4>1, ConcatEmptySeq DEF a
    <3> QED
      BY <1>4, <3>1, <3>2 DEF a, TodoFits
  <2>3. CASE ~isSubplan
    <3>1. EmptyPlan = b \o c
      BY <1>2, <2>3, Cons, SeqOps DEF EmptyPlan
    <3> HIDE DEF a, b, c
    <3>2. b \o c \in Seq(Effect) /\ c \o k \in Seq(Effect)
      BY <1>1, <2>1, SeqOps
    <3>3. t \o k = a \o ((b \o c) \o k)
      BY <1>1, <1>6, <2>1, <3>1, <3>2, ConcatAssociative DEF a
    <3>4. (b \o c) \o k = b \o (c \o k)
      BY <1>1, <2>1, ConcatAssociative
    <3>5. b \o (c \o k) \in EmptyTails(isSubplan) /\ b \o (c \o k) \in Seq(Effect)
      BY <2>1, <2>3, <3>2, SeqOps DEF EmptyTails, Rejecting, b, c
    <3> QED
      BY <1>4, <3>3, <3>4, <3>5 DEF a, TodoFits
  <2> QED
    BY <2>2, <2>3
<1>7. CASE ~isSubplan /\ t = <<PatchRun("failed"), Raise>>
  BY <1>7 DEF TodoFits, GivingUpTodo, GivingUp
<1> QED
  BY <1>5, <1>6, <1>7 DEF Planning

\* What is read is what is saved.
LEMMA PlainReads ==
    ASSUME ~Hydrates
    PROVE  GetPlan = plan /\ PlanEnded = FALSE /\ GetPlanStatus = PlanStatus(plan)
BY DEF GetPlan, PlanEnded, GetPlanStatus

\* A run with an open plan has no verdict.
LEMMA OpenRun ==
    ASSUME TypeOK, RunFits,
           planned = "empty" \/ (planned = "ready" /\ PlanStatus(plan) = "running")
    PROVE  run \notin RunTerminal
<1>1. ~Unplanned(isSubplan, planned, plan)
  BY DEF Unplanned
<1>2. CASE isSubplan
  BY <1>2 DEF RunFits, RunTerminal
<1>3. CASE ~isSubplan
  <2>1. Outcome(isSubplan, planned, plan) = Open
    BY <1>3, OutcomeFacts DEF Outcome, RunOutcome
  <2> QED
    BY <1>1, <2>1, OutcomeFacts DEF RunFits
<1> QED
  BY <1>2, <1>3

\* A plan is taken up again.
LEMMA ResumeFits ==
    ASSUME TypeOK, ~Hydrates, RunFits, PlanFits, QueueFits, planned # "none",
           NEW k \in Pointer, isSubplan => k = <<>>
    PROVE  TodoFits(Resume \o k, isSubplan, gen, planned, plan, succeeded, run, pending \cup delivered)
<1> DEFINE msgs == pending \cup delivered
           C == Calm(isSubplan, gen, planned, plan, succeeded, run, msgs)
<1>1. /\ k \in Seq(Effect) /\ isSubplan \in BOOLEAN /\ plan \in Plan /\ Chain(plan)
      /\ PlanEnded = FALSE
  BY PointerSeqs, PlainReads DEF TypeOK, PlanFits
<1> HIDE DEF msgs, C
<1>2. ASSUME NEW t \in Seq(C), isSubplan \/ Served(planned, run, msgs), Resume = t
      PROVE  TodoFits(Resume \o k, isSubplan, gen, planned, plan, succeeded, run, msgs)
  <2>1. k \in Seq(C)
    <3>1. CASE isSubplan
      BY <3>1, SeqOps
    <3>2. CASE Served(planned, run, msgs)
      <4>1. Pointer \subseteq Seq(C)
        BY <1>1, <3>2, PointerSeqs DEF C
      <4> QED
        BY <4>1
    <3> QED
      BY <1>2, <3>1, <3>2
  <2>2. Resume \o k \in Seq(C)
    BY <1>2, <2>1, SeqOps
  <2> QED
    BY <2>2 DEF TodoFits, CalmTodo, C
<1>3. ASSUME ~isSubplan, Resume = <<RejectPlan, PatchRun("failed")>>,
             planned = "empty" \/ (planned = "ready" /\ Stuck(plan))
      PROVE  TodoFits(Resume \o k, isSubplan, gen, planned, plan, succeeded, run, msgs)
  <2> DEFINE b == <<RejectPlan>>
             c == <<PatchRun("failed")>>
  <2>1. RejectPlan \in Effect /\ PatchRun("failed") \in Effect /\ RejectPlan.op = "reject_plan"
    BY EffectTypes DEF RunStatus, RejectPlan
  <2>2. b \in Seq(Effect) /\ c \in Seq(Effect) /\ Resume = b \o c
    BY <1>3, <2>1, Cons, SeqOps
  <2> HIDE DEF b, c
  <2>3. c \o k \in Seq(Effect) /\ Resume \o k = b \o (c \o k) /\ c \o k \in Rejecting
    <3>1. c \o k \in Rejecting
      BY DEF Rejecting, c
    <3> QED
      BY <1>1, <2>2, <3>1, ConcatAssociative, SeqOps
  <2>4. Resume \o k # <<>> /\ Head(Resume \o k) = RejectPlan /\ Tail(Resume \o k) = c \o k
    BY <2>1, <2>3, Cons DEF b
  <2>5. run \notin RunTerminal
    BY <1>3, OpenRun DEF Stuck
  <2> QED
    BY <1>3, <2>1, <2>3, <2>4, <2>5 DEF TodoFits, RejectingTodo, First
<1>4. CASE planned = "rejected"
  <2>1. Resume = <<>> /\ <<>> \in Seq(C) /\ Served(planned, run, msgs)
    BY <1>4, SeqOps DEF Resume, Served
  <2> QED
    BY <1>2, <2>1 DEF msgs
<1>5. CASE planned = "empty"
  <2>1. Resume = EmptyPlan
    BY <1>1, <1>5 DEF Resume
  <2>2. CASE isSubplan
    <3>1. Settle("completed") \in C
      <4>1. Outcome(isSubplan, planned, plan) = "completed" /\ "completed" \in SettleStatus
        BY <1>5, <2>2, OutcomeFacts DEF SettleStatus, Outcome, NodeOutcome
      <4> QED
        BY <1>1, <2>2, <4>1, CalmFacts DEF C
    <3>2. EmptyPlan \in Seq(C)
      BY <2>2, <3>1, SeqOps DEF EmptyPlan
    <3> QED
      BY <1>2, <2>1, <2>2, <3>2 DEF msgs
  <2>3. CASE ~isSubplan
    BY <1>3, <1>5, <2>1, <2>3 DEF EmptyPlan, msgs
  <2> QED
    BY <2>2, <2>3
<1>6. CASE planned = "ready"
  <2>1. Resume = ResumeReady /\ GetPlan = plan /\ GetPlanStatus = PlanStatus(plan)
    BY <1>6, PlainReads DEF Resume
  <2>2. PlanStatus(plan) \in {"completed", "failed", "waiting_for_approval", "replan_required", "running"}
    BY DEF PlanStatus
  <2>3. CASE PlanStatus(plan) = "running" /\ NextPendingAction(plan) # {}
    <3> DEFINE i == CHOOSE i \in NextPendingAction(plan) : TRUE
    <3>1. i \in NextPendingAction(plan) /\ Resume = <<EnqueueAct(i, 0)>>
      BY <2>1, <2>3 DEF ResumeReady
    <3> HIDE DEF i
    <3>2. i \in Actions /\ Reached(plan, i) /\ 0 \in Attempts
      BY <1>1, <3>1, NextAt, PlanExecutionAssumption DEF Attempts
    <3>3. EnqueueAct(i, 0) \in Effect /\ EnqueueAct(i, 0).op = "enqueue_action" /\ EnqueueAct(i, 0).action = i
      BY <3>2, EffectTypes DEF EnqueueAct
    <3>4. Resume \o k # <<>> /\ Head(Resume \o k) = EnqueueAct(i, 0) /\ Tail(Resume \o k) = k
      BY <1>1, <3>1, <3>3, Cons
    <3> QED
      BY <1>6, <3>2, <3>3, <3>4 DEF TodoFits, ResumingTodo, First
  <2>4. CASE PlanStatus(plan) # "running"
    <3>1. Seen(msgs)
      <4>1. \E i \in Actions : plan[i] # PENDING
        <5>1. ASSUME \A i \in Actions : plan[i] = PENDING PROVE FALSE
          <6>1. 1 \in Actions
            BY NumActionsAssumption DEF Actions
          <6> QED
            BY <2>4, <5>1, <6>1, StatusDistinct DEF PlanStatus
        <5> QED
          BY <5>1
      <4> QED
        BY <4>1 DEF QueueFits, msgs
    <3>2. \E s \in SettleStatus : Resume = SettleSubplan(s) /\ (isSubplan => s = Outcome(isSubplan, planned, plan))
      <4>1. CASE PlanStatus(plan) = "completed"
        BY <1>6, <2>1, <4>1, OutcomeFacts DEF ResumeReady, SettleStatus
      <4>2. CASE PlanStatus(plan) = "waiting_for_approval"
        BY <1>6, <2>1, <4>2, OutcomeFacts DEF ResumeReady, SettleStatus
      <4>3. CASE PlanStatus(plan) \in {"failed", "replan_required"}
        BY <1>6, <2>1, <4>3, OutcomeFacts DEF ResumeReady, SettleStatus
      <4> QED
        BY <2>2, <2>4, <4>1, <4>2, <4>3
    <3>3. PICK s \in SettleStatus : Resume = SettleSubplan(s) /\ (isSubplan => s = Outcome(isSubplan, planned, plan))
      BY <3>2
    <3>4. isSubplan => Settle(s) \in C
      BY <1>1, <3>3, CalmFacts DEF C
    <3>5. SettleSubplan(s) \in Seq(C)
      BY <3>4, SeqOps DEF SettleSubplan, If
    <3>6. Served(planned, run, msgs)
      BY <3>1 DEF Served
    <3> QED
      BY <1>2, <3>3, <3>5, <3>6 DEF msgs
  <2>5. CASE Stuck(plan)
    <3>1. Resume = If(~isSubplan, <<RejectPlan, PatchRun("failed")>>)
      BY <2>1, <2>5 DEF ResumeReady, Stuck
    <3>2. CASE ~isSubplan
      BY <1>3, <1>6, <2>5, <3>1, <3>2 DEF If, msgs
    <3>3. CASE isSubplan
      <4>1. Resume = <<>> /\ <<>> \in Seq(C)
        BY <3>1, <3>3, SeqOps DEF If
      <4> QED
        BY <1>2, <3>3, <4>1 DEF msgs
    <3> QED
      BY <3>2, <3>3
  <2> QED
    BY <2>3, <2>4, <2>5 DEF Stuck, msgs
<1> QED
  BY <1>4, <1>5, <1>6 DEF TypeOK, msgs

\* The state of an action is recorded, for a plan that is saved.
LEMMA RecordCalm ==
    ASSUME TypeOK, ~Hydrates, NEW g, NEW succ, NEW q \in Plan, NEW i \in Actions,
           NEW r, r \notin RunTerminal, NEW msgs
    PROVE  /\ RecordActionState(q, i) \in Seq(Calm(isSubplan, g, "ready", q, succ, r, msgs))
           /\ PlanStatus(q) = "running" => RecordActionState(q, i) = <<>>
<1> DEFINE C == Calm(isSubplan, g, "ready", q, succ, r, msgs)
           s == RunStatusOf(q)
           rec == If(~isSubplan /\ s # "running", <<PatchRun(s)>>)
<1>1. isSubplan \in BOOLEAN /\ s \in RunStatus
  BY PlanFacts DEF TypeOK
<1>2. ~isSubplan /\ s # "running" => PatchRun(s) \in C
  <2>1. s \in {"completed", "failed"} => s = PlanStatus(q)
    BY DEF RunStatusOf
  <2>2. s \notin {"completed", "failed", "running"} =>
           s = "waiting" /\ PlanStatus(q) \in {"waiting_for_approval", "replan_required"}
    BY DEF RunStatusOf
  <2>3. ~isSubplan /\ s # "running" =>
           IF s \in RunTerminal THEN s = Outcome(isSubplan, "ready", q)
           ELSE Outcome(isSubplan, "ready", q) = Open
    <3> HIDE DEF s
    <3> QED
      BY <2>1, <2>2 DEF RunTerminal, Outcome, RunOutcome
  <2> HIDE DEF s
  <2> QED
    BY <1>1, <2>3, CalmFacts
<1>3. PlanStatus(q) = "running" => s = "running"
  BY DEF RunStatusOf
<1> HIDE DEF C
<1>4. rec \in Seq(C) /\ (s = "running" => rec = <<>>)
  <2> HIDE DEF s
  <2> QED
    BY <1>2, SeqOps DEF If
<1>5. RecordActionState(q, i) = <<>> \o rec
  BY DEF RecordActionState, If
<1> HIDE DEF rec, s
<1>6. RecordActionState(q, i) = rec
  BY <1>4, <1>5, ConcatEmptySeq
<1> QED
  BY <1>3, <1>4, <1>6 DEF C

\* The plan is saved with a new status of the action it is at.
LEMMA SavingFits ==
    ASSUME TypeOK, ~Hydrates, NEW g, NEW succ, NEW p \in Plan, NEW i \in Actions, NEW s \in ActionStatus,
           Chain(p), Reached(p, i), p[i] \in {PENDING, RUNNING}, Unspent(g, p, succ),
           s = PENDING => <<g, i>> \notin succ, NEW r, r \notin RunTerminal, NEW msgs, Seen(msgs),
           NEW t \in Ending(Calm(isSubplan, g, "ready", ReplaceAction(p, i, s), succ, r, msgs))
    PROVE  TodoFits(<<UpdatePlan(ReplaceAction(p, i, s))>> \o t, isSubplan, g, "ready", p, succ, r, msgs)
<1> DEFINE q == ReplaceAction(p, i, s)
           todo == <<UpdatePlan(q)>> \o t
           C == Calm(isSubplan, g, "ready", q, succ, r, msgs)
<1>1. /\ q \in Plan /\ Chain(q) /\ Unspent(g, q, succ) /\ PlanStatus(p) = "running"
      /\ \A j \in Actions : p[j] = COMPLETED => q[j] = COMPLETED
  <2>1. q \in Plan /\ At(q, i) /\ Unspent(g, q, succ) /\ PlanStatus(p) = "running"
        /\ \A j \in Actions : p[j] = COMPLETED => q[j] = COMPLETED
    BY ReplaceAt
  <2> QED
    BY <2>1, StatusAt
<1> HIDE DEF q
<1>2. UpdatePlan(q) \in Effect /\ UpdatePlan(q).op = "update_plan" /\ UpdatePlan(q).plan = q
  BY <1>1, EffectTypes DEF UpdatePlan
<1>3. t \in Seq(Effect)
  <2>1. C \cup {EnqueueNext} \subseteq Effect
    BY CalmFacts, EffectTypes DEF TypeOK
  <2>2. t \in Seq(C \cup {EnqueueNext})
    BY DEF Ending, q
  <2> QED
    BY <2>1, <2>2, SeqMono
<1>4. todo # <<>> /\ Head(todo) = UpdatePlan(q) /\ Tail(todo) = t
  BY <1>2, <1>3, Cons
<1>5. t \in Ending(C)
  BY DEF q
<1> HIDE DEF todo, C
<1>6. UpdatingTodo(todo, isSubplan, g, "ready", p, succ, r, msgs)
  BY <1>1, <1>2, <1>4, <1>5 DEF UpdatingTodo, First, C
<1> QED
  BY <1>6 DEF TodoFits, todo, q

\* The action fails, is out of date, waits for an approval, or is tried again.
LEMMA FailFits ==
    ASSUME TypeOK, ~Hydrates, NEW g, NEW succ, NEW p \in Plan, NEW i \in Actions,
           Chain(p), Reached(p, i), p[i] \in {PENDING, RUNNING}, Unspent(g, p, succ),
           NEW r, r \notin RunTerminal, NEW msgs, Seen(msgs)
    PROVE  /\ TodoFits(FailAction(p, i), isSubplan, g, "ready", p, succ, r, msgs)
           /\ TodoFits(ToolRaised(p, i), isSubplan, g, "ready", p, succ, r, msgs)
           /\ TodoFits(StaleAction(p, i), isSubplan, g, "ready", p, succ, r, msgs)
           /\ TodoFits(SuggestAction(p, i), isSubplan, g, "ready", p, succ, r, msgs)
<1> DEFINE Q(s) == ReplaceAction(p, i, s)
           C(s) == Calm(isSubplan, g, "ready", Q(s), succ, r, msgs)
           Rec(s) == RecordActionState(Q(s), i)
           U(s) == <<UpdatePlan(Q(s))>>
<1>1. isSubplan \in BOOLEAN /\ {FAILED, STALE, REQUIRES_APPROVAL} \subseteq ActionStatus \ {PENDING}
  BY StatusDistinct DEF TypeOK, ActionStatus
<1>2. ASSUME NEW s \in {FAILED, STALE, REQUIRES_APPROVAL}
      PROVE  /\ Q(s) \in Plan /\ At(Q(s), i) /\ Q(s)[i] = s
             /\ Rec(s) \in Seq(C(s)) /\ C(s) \subseteq Effect /\ U(s) \in Seq(Effect)
  <2>1. Q(s) \in Plan /\ At(Q(s), i) /\ Q(s)[i] = s
    BY <1>1, ReplaceAt
  <2> HIDE DEF Q
  <2> QED
    BY <1>1, <2>1, RecordCalm, CalmFacts, EffectTypes, SeqOps
<1>3. /\ isSubplan => Settle("failed") \in C(FAILED) /\ Settle("failed") \in C(STALE)
                      /\ Settle("waiting_for_approval") \in C(REQUIRES_APPROVAL)
      /\ Raise \in C(FAILED)
      /\ ~isSubplan => EnqueueReplan \in C(STALE)
      /\ RecordKey(i) \in C(REQUIRES_APPROVAL)
  <2>1. /\ PlanStatus(Q(FAILED)) = "failed" /\ PlanStatus(Q(STALE)) = "replan_required"
        /\ PlanStatus(Q(REQUIRES_APPROVAL)) = "waiting_for_approval"
    BY <1>2, StatusAt
  <2> HIDE DEF Q
  <2>2. isSubplan => /\ Outcome(isSubplan, "ready", Q(FAILED)) = "failed"
                     /\ Outcome(isSubplan, "ready", Q(STALE)) = "failed"
                     /\ Outcome(isSubplan, "ready", Q(REQUIRES_APPROVAL)) = "waiting_for_approval"
    BY <1>1, <2>1, OutcomeFacts
  <2>3. {"failed", "waiting_for_approval"} \subseteq SettleStatus
    BY DEF SettleStatus
  <2> QED
    BY <1>1, <2>2, <2>3, CalmFacts
<1>4. ASSUME NEW s \in {FAILED, STALE, REQUIRES_APPROVAL}, NEW t \in Seq(C(s)), NEW todo,
             todo = (U(s) \o Rec(s)) \o t
      PROVE  TodoFits(todo, isSubplan, g, "ready", p, succ, r, msgs)
  <2> DEFINE u == U(s)
             rec == Rec(s)
             D == C(s)
  <2>1. u \in Seq(Effect) /\ rec \in Seq(D) /\ D \subseteq Effect /\ t \in Seq(D)
    BY <1>2, <1>4
  <2> HIDE DEF u, rec, D
  <2>2. rec \in Seq(Effect) /\ t \in Seq(Effect)
    BY <2>1, SeqMono
  <2>3. rec \o t \in Seq(D) /\ todo = u \o (rec \o t)
    BY <1>4, <2>1, <2>2, SeqOps, ConcatAssociative DEF u, rec
  <2>4. rec \o t \in Ending(D)
    BY <2>3, EndingOps
  <2>5. s \in ActionStatus /\ s # PENDING
    BY <1>1
  <2> QED
    BY <2>3, <2>4, <2>5, SavingFits DEF u, D
<1> HIDE DEF C
<1>5. <<>> \in Seq(C(FAILED)) /\ SettleSubplan("failed") \in Seq(C(FAILED))
  BY <1>3, SeqOps DEF SettleSubplan, If
<1>6. TodoFits(FailAction(p, i), isSubplan, g, "ready", p, succ, r, msgs)
  BY <1>4, <1>5 DEF FailAction
<1>7. TodoFits(ToolRaised(p, i), isSubplan, g, "ready", p, succ, r, msgs)
  <2> DEFINE a == If(~isSubplan, <<Raise>>)
             b == SettleSubplan("failed")
             u == U(FAILED)
             rec == Rec(FAILED)
  <2>1. a \in Seq(C(FAILED)) /\ b \in Seq(C(FAILED)) /\ u \in Seq(Effect) /\ rec \in Seq(C(FAILED))
        /\ C(FAILED) \subseteq Effect
    BY <1>2, <1>3, <1>5, SeqOps DEF If
  <2>2. ToolRaised(p, i) = ((u \o rec) \o b) \o a
    BY DEF ToolRaised, FailAction
  <2> HIDE DEF a, b, u, rec
  <2>3. b \o a \in Seq(C(FAILED)) /\ a \in Seq(Effect) /\ b \in Seq(Effect) /\ rec \in Seq(Effect)
    BY <2>1, SeqOps, SeqMono
  <2>4. u \o rec \in Seq(Effect)
    BY <2>1, <2>3, SeqOps
  <2>5. \A x \in Seq(Effect) : (x \o b) \o a = x \o (b \o a)
    BY <2>3, ConcatAssociative
  <2> QED
    BY <1>4, <2>2, <2>3, <2>4, <2>5 DEF u, rec
<1>8. TodoFits(StaleAction(p, i), isSubplan, g, "ready", p, succ, r, msgs)
  <2> DEFINE a == IF isSubplan THEN <<Settle("failed")>> ELSE <<EnqueueReplan>>
  <2>1. a \in Seq(C(STALE))
    BY <1>3, SeqOps
  <2>2. StaleAction(p, i) = (U(STALE) \o Rec(STALE)) \o a
    BY DEF StaleAction
  <2> HIDE DEF a
  <2> QED
    BY <1>4, <2>1, <2>2
<1>9. TodoFits(SuggestAction(p, i), isSubplan, g, "ready", p, succ, r, msgs)
  <2> DEFINE a == <<RecordKey(i)>>
             b == SettleSubplan("waiting_for_approval")
             D == C(REQUIRES_APPROVAL)
             u == U(REQUIRES_APPROVAL)
             rec == Rec(REQUIRES_APPROVAL)
  <2>1. a \in Seq(D) /\ b \in Seq(D) /\ u \in Seq(Effect) /\ rec \in Seq(D) /\ D \subseteq Effect
    BY <1>2, <1>3, SeqOps DEF SettleSubplan, If
  <2>2. SuggestAction(p, i) = ((u \o rec) \o a) \o b
    BY DEF SuggestAction
  <2> HIDE DEF a, b, u, rec, D
  <2>3. a \o b \in Seq(D) /\ a \in Seq(Effect) /\ b \in Seq(Effect) /\ rec \in Seq(Effect)
    BY <2>1, SeqOps, SeqMono
  <2>4. u \o rec \in Seq(Effect)
    BY <2>1, <2>3, SeqOps
  <2>5. SuggestAction(p, i) = (u \o rec) \o (a \o b)
    BY <2>2, <2>3, <2>4, ConcatAssociative
  <2> QED
    BY <1>4, <2>3, <2>5 DEF u, rec, D
<1> QED
  BY <1>6, <1>7, <1>8, <1>9

\* The tool is about to be called, reported an error, or succeeded.
LEMMA ToolFits ==
    ASSUME TypeOK, ~Hydrates, NEW g, NEW succ, NEW p \in Plan, NEW i \in Actions, NEW k \in Attempts,
           Chain(p), Reached(p, i), p[i] \in {PENDING, RUNNING}, Unspent(g, p, succ),
           NEW r, r \notin RunTerminal, NEW msgs, Seen(msgs)
    PROVE  /\ <<g, i>> \notin succ =>
                 /\ TodoFits(StartAction(p, i, k), isSubplan, g, "ready", p, succ, r, msgs)
                 /\ TodoFits(ToolFailed(p, i, k), isSubplan, g, "ready", p, succ, r, msgs)
           /\ TodoFits(ToolSucceeded(p, i), isSubplan, g, "ready", p, succ, r, msgs)
<1> DEFINE Q(s) == ReplaceAction(p, i, s)
           C(s) == Calm(isSubplan, g, "ready", Q(s), succ, r, msgs)
<1>1. isSubplan \in BOOLEAN /\ {PENDING, RUNNING, COMPLETED} \subseteq ActionStatus
  BY DEF TypeOK, ActionStatus
<1>2. ASSUME NEW s \in {PENDING, RUNNING, COMPLETED}
      PROVE  /\ Q(s) \in Plan /\ At(Q(s), i) /\ Q(s)[i] = s
             /\ UpdatePlan(Q(s)) \in Effect /\ C(s) \subseteq Effect
             /\ RecordActionState(Q(s), i) \in Seq(C(s))
             /\ s # COMPLETED => RecordActionState(Q(s), i) = <<>>
  <2>1. Q(s) \in Plan /\ At(Q(s), i) /\ Q(s)[i] = s
    BY <1>1, ReplaceAt
  <2>2. s # COMPLETED => PlanStatus(Q(s)) = "running"
    BY <2>1, StatusAt
  <2> HIDE DEF Q
  <2> QED
    BY <1>1, <2>1, <2>2, RecordCalm, CalmFacts, EffectTypes
<1>3. ASSUME NEW s \in {PENDING, RUNNING, COMPLETED}, s = PENDING => <<g, i>> \notin succ, NEW t \in Ending(C(s))
      PROVE  TodoFits(<<UpdatePlan(Q(s))>> \o t, isSubplan, g, "ready", p, succ, r, msgs)
  BY <1>1, <1>3, SavingFits
<1>4. ASSUME <<g, i>> \notin succ
      PROVE  TodoFits(StartAction(p, i, k), isSubplan, g, "ready", p, succ, r, msgs)
  <2> DEFINE u == UpdatePlan(Q(RUNNING))
             x == Execute(i, k)
             D == C(RUNNING)
  <2>1. x \in D /\ D \subseteq Effect /\ u \in Effect
    <3>1. Q(RUNNING)[i] = RUNNING
      BY <1>2
    <3> HIDE DEF Q
    <3> QED
      BY <1>1, <1>2, <1>4, <3>1, CalmFacts
  <2>2. StartAction(p, i, k) = <<>> \o <<u, x>>
    BY <1>2, StatusDistinct DEF StartAction
  <2> HIDE DEF u, x, D
  <2>3. <<x>> \in Seq(D) /\ <<u, x>> \in Seq(Effect) /\ <<u, x>> = <<u>> \o <<x>>
    <3>1. x \in Effect /\ <<>> \in Seq(Effect)
      BY <2>1, SeqOps
    <3>2. <<u, x>> = <<u>> \o <<x>>
      BY <2>1, <3>1, Cons
    <3> QED
      BY <2>1, <3>1, <3>2, SeqOps
  <2>4. StartAction(p, i, k) = <<u>> \o <<x>> /\ <<x>> \in Ending(D)
    BY <2>2, <2>3, ConcatEmptySeq, EndingOps
  <2> QED
    BY <1>3, <2>4, StatusDistinct DEF u, D
<1>5. ASSUME <<g, i>> \notin succ, k + 1 < MaxAttempts
      PROVE  TodoFits(RetryAction(p, i, k), isSubplan, g, "ready", p, succ, r, msgs)
  <2> DEFINE u == UpdatePlan(Q(PENDING))
             x == EnqueueAct(i, k + 1)
             D == C(PENDING)
  <2>1. x \in D /\ D \subseteq Effect /\ u \in Effect
    <3>1. Reached(Q(PENDING), i) /\ k + 1 \in Attempts
      BY <1>2, <1>5, PlanExecutionAssumption DEF At, Attempts
    <3> HIDE DEF Q
    <3> QED
      BY <1>1, <1>2, <3>1, CalmFacts
  <2>2. RetryAction(p, i, k) = <<u, x>> \o <<>>
    BY <1>2, StatusDistinct DEF RetryAction
  <2> HIDE DEF u, x, D
  <2>3. <<x>> \in Seq(D) /\ <<u, x>> \in Seq(Effect) /\ <<u, x>> = <<u>> \o <<x>>
    <3>1. x \in Effect /\ <<>> \in Seq(Effect)
      BY <2>1, SeqOps
    <3>2. <<u, x>> = <<u>> \o <<x>>
      BY <2>1, <3>1, Cons
    <3> QED
      BY <2>1, <3>1, <3>2, SeqOps
  <2>4. RetryAction(p, i, k) = <<u>> \o <<x>> /\ <<x>> \in Ending(D)
    BY <2>2, <2>3, ConcatEmptySeq, EndingOps
  <2> QED
    BY <1>3, <1>5, <2>4 DEF u, D
<1>6. TodoFits(ToolSucceeded(p, i), isSubplan, g, "ready", p, succ, r, msgs)
  <2> DEFINE u == <<UpdatePlan(Q(COMPLETED))>>
             rec == RecordActionState(Q(COMPLETED), i)
             a == <<RecordKey(i)>>
             N == <<EnqueueNext>>
             D == C(COMPLETED)
  <2>1. u \in Seq(Effect) /\ rec \in Seq(D) /\ a \in Seq(D) /\ N \in Seq(Effect) /\ D \subseteq Effect
    <3>1. RecordKey(i) \in D
      BY <1>1, CalmFacts
    <3> HIDE DEF D
    <3> QED
      BY <1>2, <3>1, EffectTypes, SeqOps DEF D
  <2>2. ToolSucceeded(p, i) = (u \o rec) \o (a \o N)
    BY EffectTypes, Cons, SeqOps DEF ToolSucceeded
  <2> HIDE DEF u, rec, a, N, D
  <2>3. rec \o a \in Seq(D) /\ rec \in Seq(Effect) /\ a \in Seq(Effect)
    BY <2>1, SeqOps, SeqMono
  <2>4. a \o N \in Seq(Effect)
    BY <2>1, <2>3, SeqOps
  <2>5. ToolSucceeded(p, i) = u \o ((rec \o a) \o N)
    <3>1. \A x, y, z \in Seq(Effect) : (x \o y) \o z = x \o (y \o z)
      BY ConcatAssociative
    <3>2. (u \o rec) \o (a \o N) = u \o (rec \o (a \o N))
      BY <2>1, <2>3, <2>4, <3>1
    <3>3. (rec \o a) \o N = rec \o (a \o N)
      BY <2>1, <2>3, <3>1
    <3> QED
      BY <2>2, <3>2, <3>3
  <2>6. (rec \o a) \o N \in Ending(D)
    BY <2>3, EndingOps DEF N
  <2> QED
    BY <1>3, <2>5, <2>6, StatusDistinct DEF u, D
<1>7. TodoFits(FailAction(p, i), isSubplan, g, "ready", p, succ, r, msgs)
  BY FailFits
<1> QED
  BY <1>4, <1>5, <1>6, <1>7 DEF ToolFailed

\* An action is handled, in an invocation of its own or inline.
LEMMA ActionFits ==
    ASSUME TypeOK, ~Hydrates, RunFits, PlanFits, Worked(planned, plan), Seen(pending \cup delivered),
           NEW i \in Actions, NEW k \in Attempts, Reached(plan, i),
           NEW todo \in ActionEffects(gen, plan, i, k)
    PROVE  TodoFits(todo, isSubplan, gen, planned, plan, succeeded, run, pending \cup delivered)
<1> DEFINE msgs == pending \cup delivered
           C == Calm(isSubplan, gen, planned, plan, succeeded, run, msgs)
<1>1. plan \in Plan /\ Chain(plan) /\ Unspent(gen, plan, succeeded) /\ PlanEnded = FALSE
  BY PlainReads DEF TypeOK, PlanFits
<1> HIDE DEF msgs, C
<1>2. CASE todo = <<>>
  BY <1>2, SeqOps DEF TodoFits, CalmTodo, C
<1>3. CASE todo = <<EnqueueNext>>
  <2>1. <<>> \in Seq(C) /\ <<>> \o <<EnqueueNext>> = <<EnqueueNext>>
    BY SeqOps
  <2>2. todo \in Ending(C)
    BY <1>3, <2>1, EndingOps
  <2> QED
    BY <2>2 DEF TodoFits, CalmTodo, C, msgs
<1>4. CASE plan[i] = PENDING /\ todo \in ValidatedEffects(plan, i, k)
  <2>1. planned = "ready"
    BY <1>1, <1>4, NextAt DEF Worked
  <2>2. PlanStatus(plan) = "running"
    <3>1. PENDING \in ActionStatus
      BY DEF ActionStatus
    <3> QED
      BY <1>1, <1>4, <3>1, ReplaceAt
  <2>3. run \notin RunTerminal
    BY <2>1, <2>2, OpenRun
  <2>4. <<gen, i>> \notin succeeded
    BY <1>1, <1>4 DEF Unspent
  <2>5. Seen(msgs)
    BY DEF msgs
  <2> QED
    BY <1>1, <1>4, <2>1, <2>3, <2>4, <2>5, FailFits, ToolFits DEF ValidatedEffects, msgs
<1> QED
  BY <1>1, <1>2, <1>3, <1>4 DEF ActionEffects, Continue

-----------------------------------------------------------------------------
(***************************************************************************)
(* Every step keeps the invariant.                                         *)
(***************************************************************************)
LEMMA TodoShape ==
    ASSUME NEW sub \in BOOLEAN, NEW g, NEW how, NEW p, NEW succ, NEW r, NEW msgs, NEW todo, todo # <<>>,
           TodoFits(todo, sub, g, how, p, succ, r, msgs)
    PROVE  \/ /\ Head(todo) \in Calm(sub, g, how, p, succ, r, msgs)
              /\ CalmTodo(Tail(todo), sub, g, how, p, succ, r, msgs)
           \/ Head(todo) = EnqueueNext /\ Tail(todo) = <<>> /\ Worked(how, p) /\ Seen(msgs)
           \/ SavingTodo(todo, sub, how, p, r)
           \/ RejectingTodo(todo, sub, how, p, r)
           \/ UpdatingTodo(todo, sub, g, how, p, succ, r, msgs)
           \/ ResumingTodo(todo, how, p)
           \/ /\ ~sub /\ r \notin RunTerminal /\ Unplanned(sub, how, p)
              /\ Head(todo) = PatchRun("failed") /\ \E k \in Pointer : Tail(todo) = <<Raise>> \o k
<1> DEFINE C == Calm(sub, g, how, p, succ, r, msgs)
<1> HIDE DEF C
<1>1. CASE todo \in Seq(C)
  <2>1. Head(todo) \in C /\ Tail(todo) \in Seq(C)
    BY <1>1, SeqOps
  <2> QED
    BY <2>1 DEF C, CalmTodo
<1>2. CASE Worked(how, p) /\ Seen(msgs) /\ todo \in Ending(C)
  <2>1. Tail(todo) \in Ending(C) /\ (Head(todo) \in C \/ (Head(todo) = EnqueueNext /\ Tail(todo) = <<>>))
    BY <1>2, EndingOps
  <2> QED
    BY <1>2, <2>1 DEF C, CalmTodo
<1>3. CASE GivingUpTodo(todo, sub, how, p, r)
  <2> DEFINE a == PatchRun("failed")
             b == Raise
  <2>1. a \in Effect /\ b \in Effect
    BY EffectTypes DEF RunStatus
  <2>2. PICK k \in Pointer : todo = <<a, b>> \o k
    BY <1>3 DEF GivingUpTodo, GivingUp
  <2> HIDE DEF a, b
  <2>3. k \in Seq(Effect) /\ <<a>> \in Seq(Effect) /\ <<b>> \in Seq(Effect) /\ <<a, b>> = <<a>> \o <<b>>
    BY <2>1, PointerSeqs, Cons, SeqOps
  <2>4. todo = <<a>> \o (<<b>> \o k) /\ <<b>> \o k \in Seq(Effect)
    <3>1. \A x, y, z \in Seq(Effect) : (x \o y) \o z = x \o (y \o z)
      BY ConcatAssociative
    <3> QED
      BY <2>2, <2>3, <3>1, SeqOps
  <2>5. Head(todo) = a /\ Tail(todo) = <<b>> \o k
    BY <2>1, <2>4, Cons
  <2> QED
    BY <1>3, <2>5 DEF GivingUpTodo, a, b
<1> QED
  BY <1>1, <1>2, <1>3 DEF TodoFits, CalmTodo, C

\* What the first effect says about the rest.
LEMMA TodoByOp ==
    ASSUME NEW sub \in BOOLEAN, NEW g, NEW how, NEW p, NEW succ, NEW r, NEW msgs, NEW todo, todo # <<>>,
           TodoFits(todo, sub, g, how, p, succ, r, msgs)
    PROVE  LET e == Head(todo)
               Calming == e \in Calm(sub, g, how, p, succ, r, msgs)
                          /\ CalmTodo(Tail(todo), sub, g, how, p, succ, r, msgs)
           IN  /\ e.op = "save_new_plan" => SavingTodo(todo, sub, how, p, r)
               /\ e.op = "reject_plan" => RejectingTodo(todo, sub, how, p, r)
               /\ e.op = "update_plan" => UpdatingTodo(todo, sub, g, how, p, succ, r, msgs)
               /\ e.op = "enqueue_next_action" => Tail(todo) = <<>> /\ Worked(how, p) /\ Seen(msgs)
               /\ e.op # "upsert_agent_action"
               /\ e.op \in {"record_idempotency_key", "record_pointer_key", "settle", "enqueue_replan", "execute"}
                     => Calming
               /\ e.op = "enqueue_action" => Calming \/ ResumingTodo(todo, how, p)
               /\ e.op = "update_agent_run_status" =>
                     Calming \/ (/\ ~sub /\ r \notin RunTerminal /\ Unplanned(sub, how, p) /\ e.status = "failed"
                                 /\ \E k \in Pointer : Tail(todo) = <<Raise>> \o k)
<1> DEFINE e == Head(todo)
           Calming == e \in Calm(sub, g, how, p, succ, r, msgs)
                      /\ CalmTodo(Tail(todo), sub, g, how, p, succ, r, msgs)
           Failing == /\ ~sub /\ r \notin RunTerminal /\ Unplanned(sub, how, p)
                      /\ e = PatchRun("failed") /\ \E k \in Pointer : Tail(todo) = <<Raise>> \o k
<1>1. Calming => e.op \in {"record_idempotency_key", "raise", "record_pointer_key", "settle", "enqueue_replan",
                            "execute", "enqueue_action", "update_agent_run_status"}
  BY DEF Calm
<1>2. e = EnqueueNext => e.op = "enqueue_next_action"
  BY DEF EnqueueNext
<1>3. SavingTodo(todo, sub, how, p, r) => e.op = "save_new_plan"
  BY DEF SavingTodo, First
<1>4. RejectingTodo(todo, sub, how, p, r) => e.op = "reject_plan"
  BY DEF RejectingTodo, First
<1>5. UpdatingTodo(todo, sub, g, how, p, succ, r, msgs) => e.op = "update_plan"
  BY DEF UpdatingTodo, First
<1>6. ResumingTodo(todo, how, p) => e.op = "enqueue_action"
  BY DEF ResumingTodo, First
<1>7. Failing => e.op = "update_agent_run_status" /\ e.status = "failed"
  BY DEF PatchRun
<1>8. \/ Calming \/ (e = EnqueueNext /\ Tail(todo) = <<>> /\ Worked(how, p) /\ Seen(msgs))
      \/ SavingTodo(todo, sub, how, p, r) \/ RejectingTodo(todo, sub, how, p, r)
      \/ UpdatingTodo(todo, sub, g, how, p, succ, r, msgs) \/ ResumingTodo(todo, how, p) \/ Failing
  BY TodoShape
<1> QED
  <2> HIDE DEF Calming, e
  <2>1. CASE Failing
    BY <1>7, <2>1 DEF e, Calming
  <2>2. CASE ~Failing
    <3> HIDE DEF Failing
    <3> QED
      BY <1>1, <1>2, <1>3, <1>4, <1>5, <1>6, <1>8, <2>2 DEF e, Calming
  <2> QED
    BY <2>1, <2>2

\* There is one worker.
LEMMA RecoveryStep ==
    ASSUME Serial, TruthInv', RunFits', PlanFits', QueueFits', NEW w \in Workers, InvocationFits(w)'
    PROVE  RecoveryInv'
<1>1. \A u \in Workers : u = w
  BY DEF Serial
<1>2. (\A u \in Workers : InvocationFits(u))'
  BY <1>1
<1> QED
  BY <1>2 DEF RecoveryInv

\* The state of a running invocation.
LEMMA Running ==
    ASSUME RecoveryInv, NEW w \in Workers, Todo(w) # <<>>
    PROVE  /\ TypeOK /\ inv \in [Workers -> Invocation] /\ inv[w] \in Invocation /\ inv[w] # Idle
           /\ inv[w].msg \in pending \cup delivered
           /\ inv[w].gen = gen /\ inv[w].plan = plan /\ isSubplan \in BOOLEAN
           /\ TodoFits(Todo(w), isSubplan, gen, planned, plan, succeeded, run, pending \cup delivered)
           /\ Head(Todo(w)) \in Effect
<1>1. TypeOK /\ inv \in [Workers -> Invocation] /\ inv[w] # Idle /\ Head(Todo(w)) \in Effect
  BY NextEffect DEF RecoveryInv, TruthInv, TypeInv
<1> QED
  BY <1>1 DEF RecoveryInv, InvocationFits, TypeOK

\* The rest of what was to be done fits.
LEMMA GoesOn ==
    ASSUME Serial, RecoveryInv, TruthInv', NEW w \in Workers, Todo(w) # <<>>,
           UNCHANGED <<isSubplan, gen, planned, plan, plans, succeeded>>, RunFits', QueueFits',
           pending \cup delivered \subseteq (pending \cup delivered)',
           NEW t, Proceed(w, t),
           t # <<>> => TodoFits(t, isSubplan, gen, planned, plan, succeeded, run', (pending \cup delivered)')
    PROVE  RecoveryInv'
<1>1. /\ inv \in [Workers -> Invocation] /\ inv[w].msg \in pending \cup delivered
      /\ inv[w].gen = gen /\ inv[w].plan = plan /\ inv[w] \in Invocation
  BY Running
<1>2. inv'[w] = [inv[w] EXCEPT !.todo = t]
  BY <1>1 DEF Proceed
<1>3. inv'[w].msg = inv[w].msg /\ inv'[w].gen = gen /\ inv'[w].plan = plan /\ inv'[w].todo = t
  BY <1>1, <1>2 DEF Invocation
<1>4. InvocationFits(w)'
  <2>1. inv'[w].msg \in (pending \cup delivered)'
    BY <1>1, <1>3
  <2> QED
    BY <1>3, <2>1 DEF InvocationFits, Todo
<1>5. PlanFits'
  BY DEF RecoveryInv, PlanFits
<1> QED
  BY <1>4, <1>5, RecoveryStep

\* What leaves the saved plan alone still does when more messages were sent or
\* the run got the verdict of that plan.
LEMMA CalmTodoMono ==
    ASSUME NEW sub, NEW g, NEW how, NEW p, NEW succ, NEW r1, NEW r2, NEW m1, NEW m2,
           Seen(m1) => Seen(m2), r1 \in RunTerminal => r2 \in RunTerminal,
           r2 \in RunTerminal => r1 \in RunTerminal \/ Outcome(sub, how, p) # Open,
           NEW t, CalmTodo(t, sub, g, how, p, succ, r1, m1)
    PROVE  TodoFits(t, sub, g, how, p, succ, r2, m2)
<1> DEFINE S == Calm(sub, g, how, p, succ, r1, m1)
           T == Calm(sub, g, how, p, succ, r2, m2)
<1>1. S \subseteq T
  BY CalmMono
<1>2. t \in Seq(S) \/ (Worked(how, p) /\ Seen(m1) /\ t \in Ending(S))
  BY DEF CalmTodo
<1> HIDE DEF S, T
<1>3. Seq(S) \subseteq Seq(T) /\ Ending(S) \subseteq Ending(T)
  BY <1>1, SeqMono, EndingMono
<1> QED
  BY <1>2, <1>3 DEF TodoFits, CalmTodo, T

\* One of these effects was performed.
LEMMA CalmStep ==
    ASSUME Serial, RecoveryInv, TruthInv', NEW w \in Workers, Todo(w) # <<>>,
           UNCHANGED <<isSubplan, gen, planned, plan, plans, succeeded>>, RunFits', QueueFits',
           pending \cup delivered \subseteq (pending \cup delivered)',
           Proceed(w, Tail(Todo(w))),
           CalmTodo(Tail(Todo(w)), isSubplan, gen, planned, plan, succeeded, run, pending \cup delivered),
           run \in RunTerminal => run' \in RunTerminal,
           run' \in RunTerminal => run \in RunTerminal \/ Outcome(isSubplan, planned, plan) # Open
    PROVE  RecoveryInv'
<1>1. Seen(pending \cup delivered) => Seen((pending \cup delivered)')
  BY DEF Seen
<1>2. TodoFits(Tail(Todo(w)), isSubplan, gen, planned, plan, succeeded, run', (pending \cup delivered)')
  BY <1>1, CalmTodoMono
<1> QED
  BY <1>2, GoesOn

\* An idempotency key is recorded, a node settled.
LEMMA RecordRecovery ==
    ASSUME Serial, RecoveryInv, TruthInv', NEW w \in Workers,
           DoRecordKey(w) \/ DoRecordPointerKey(w) \/ DoUpsertAction(w) \/ DoSettle(w)
    PROVE  RecoveryInv'
<1> DEFINE e == Head(Todo(w))
           msgs == pending \cup delivered
<1>1. Todo(w) # <<>> /\ UNCHANGED <<isSubplan, entry, saved, run, pending, delivered, succeeded>>
  BY DEF DoRecordKey, DoRecordPointerKey, DoUpsertAction, DoSettle, NextIs, input, queue, tools
<1>2. /\ TodoFits(Todo(w), isSubplan, gen, planned, plan, succeeded, run, msgs)
      /\ isSubplan \in BOOLEAN /\ e \in Effect /\ TypeOK
  BY <1>1, Running
<1>3. e.op \in {"record_idempotency_key", "record_pointer_key", "settle"}
  BY <1>1, <1>2, TodoByOp DEF DoRecordKey, DoRecordPointerKey, DoUpsertAction, DoSettle, NextIs
<1>4. /\ e \in Calm(isSubplan, gen, planned, plan, succeeded, run, msgs)
      /\ CalmTodo(Tail(Todo(w)), isSubplan, gen, planned, plan, succeeded, run, msgs)
  BY <1>1, <1>2, <1>3, TodoByOp
<1>5. RunFits'
  <2>1. RunFits
    BY DEF RecoveryInv
  <2>2. CASE settled' = settled
    BY <1>1, <2>1, <2>2 DEF RunFits, saved
  <2>3. CASE settled' = settled \cup {e.status} /\ e.op = "settle"
    <3>1. isSubplan /\ e.status = Outcome(isSubplan, planned, plan) /\ e.status # Open
      BY <1>2, <1>4, <2>3, EffectFields, OutcomeFacts DEF Calm
    <3> QED
      BY <1>1, <2>1, <2>3, <3>1 DEF RunFits, saved
  <2> QED
    BY <1>1, <1>3, <2>2, <2>3 DEF DoRecordKey, DoRecordPointerKey, DoUpsertAction, DoSettle, NextIs
<1>6. QueueFits'
  <2>1. QueueFits
    BY DEF RecoveryInv
  <2>2. CASE pointerKey' = pointerKey
    BY <1>1, <2>1, <2>2 DEF QueueFits, saved
  <2>3. CASE e.op = "record_pointer_key"
    <3>1. Served(planned, run, msgs)
      BY <1>4, <2>3 DEF Calm
    <3> QED
      BY <1>1, <2>1, <3>1 DEF QueueFits, saved
  <2> QED
    BY <1>1, <1>3, <2>2, <2>3 DEF DoRecordKey, DoRecordPointerKey, DoUpsertAction, DoSettle, NextIs, idem
<1>7. Proceed(w, Tail(Todo(w)))
  BY DEF DoRecordKey, DoRecordPointerKey, DoUpsertAction, DoSettle
<1> QED
  BY <1>1, <1>4, <1>5, <1>6, <1>7, CalmStep DEF saved

\* The run gets the status of its plan, or fails with its planner.
LEMMA PatchRecovery ==
    ASSUME Serial, RecoveryInv, TruthInv', NEW w \in Workers, DoPatchRun(w)
    PROVE  RecoveryInv' /\ (run \in RunTerminal => run' = run)
<1> DEFINE e == Head(Todo(w))
           msgs == pending \cup delivered
<1>1. /\ Todo(w) # <<>> /\ e.op = "update_agent_run_status" /\ run' = e.status
      /\ UNCHANGED <<isSubplan, entry, saved, pointerKey, settled, pending, delivered, succeeded>>
      /\ Proceed(w, Tail(Todo(w)))
  BY DEF DoPatchRun, NextIs, input, queue, tools, idem
<1>2. /\ TodoFits(Todo(w), isSubplan, gen, planned, plan, succeeded, run, msgs)
      /\ isSubplan \in BOOLEAN /\ e \in Effect /\ TypeOK /\ RunFits /\ QueueFits
  BY <1>1, Running DEF RecoveryInv
<1>3. CASE /\ e \in Calm(isSubplan, gen, planned, plan, succeeded, run, msgs)
           /\ CalmTodo(Tail(Todo(w)), isSubplan, gen, planned, plan, succeeded, run, msgs)
  <2>1. /\ ~isSubplan /\ planned # "none"
        /\ IF run' \in RunTerminal THEN run' = Outcome(isSubplan, planned, plan)
           ELSE Outcome(isSubplan, planned, plan) = Open /\ run \notin RunTerminal
    BY <1>1, <1>3 DEF Calm
  <2>2. RunFits'
    BY <1>1, <1>2, <2>1 DEF RunFits, saved
  <2>3. QueueFits'
    BY <1>1, <1>2, <2>1 DEF QueueFits, Served, saved
  <2>5. run' \in RunTerminal => Outcome(isSubplan, planned, plan) # Open
    BY <2>1, OutcomeFacts
  <2>6. RecoveryInv'
    BY <1>1, <1>3, <2>1, <2>2, <2>3, <2>5, CalmStep DEF saved
  <2>7. ASSUME run \in RunTerminal PROVE run' = run
    <3>1. run' = Outcome(isSubplan, planned, plan) /\ run' \in RunTerminal
      BY <2>1, <2>7
    <3>2. ~Unplanned(isSubplan, planned, plan)
      <4>1. planned \in {"none", "empty", "rejected", "ready"}
        BY <1>2 DEF TypeOK
      <4> QED
        BY <1>2, <2>5, <3>1, <4>1, OutcomeFacts
    <3> QED
      BY <1>2, <2>7, <3>1, <3>2 DEF RunFits
  <2> QED
    BY <2>6, <2>7
<1>4. CASE /\ ~isSubplan /\ run \notin RunTerminal /\ Unplanned(isSubplan, planned, plan) /\ e.status = "failed"
           /\ \E k \in Pointer : Tail(Todo(w)) = <<Raise>> \o k
  <2>1. run' = "failed" /\ run' \in RunTerminal
    BY <1>1, <1>4 DEF RunTerminal
  <2>2. RunFits'
    BY <1>1, <1>2, <1>4 DEF RunFits, saved
  <2>3. QueueFits' /\ Served(planned, run', msgs)
    BY <1>1, <1>2, <2>1 DEF QueueFits, Served, saved
  <2> DEFINE C == Calm(isSubplan, gen, planned, plan, succeeded, run', msgs)
  <2>4. PICK k \in Pointer : Tail(Todo(w)) = <<Raise>> \o k
    BY <1>4
  <2>5. Raise \in C /\ k \in Seq(C)
    BY <1>2, <2>3, CalmFacts, PointerSeqs
  <2>6. Tail(Todo(w)) \in Seq(C)
    <3> HIDE DEF C
    <3> QED
      BY <2>4, <2>5, Cons
  <2>7. TodoFits(Tail(Todo(w)), isSubplan, gen, planned, plan, succeeded, run', msgs)
    BY <2>6 DEF TodoFits, CalmTodo
  <2> QED
    BY <1>1, <1>4, <2>2, <2>3, <2>7, GoesOn DEF saved
<1> QED
  BY <1>1, <1>2, <1>3, <1>4, TodoByOp

\* A message is sent.
LEMMA EnqueueRecovery ==
    ASSUME Serial, RecoveryInv, TruthInv', NEW w \in Workers, DoEnqueueAct(w) \/ DoEnqueueReplan(w)
    PROVE  RecoveryInv'
<1> DEFINE e == Head(Todo(w))
           msgs == pending \cup delivered
           C == Calm(isSubplan, gen, planned, plan, succeeded, run, msgs)
           Calming == e \in C /\ CalmTodo(Tail(Todo(w)), isSubplan, gen, planned, plan, succeeded, run, msgs)
<1>1. /\ Todo(w) # <<>> /\ e.op \in {"enqueue_action", "enqueue_replan"}
      /\ UNCHANGED <<isSubplan, entry, saved, pointerKey, run, settled, delivered, succeeded>>
      /\ Proceed(w, Tail(Todo(w)))
  BY DEF DoEnqueueAct, DoEnqueueReplan, NextIs, input, queue, tools, idem
<1>2. /\ TodoFits(Todo(w), isSubplan, gen, planned, plan, succeeded, run, msgs) /\ inv[w].gen = gen
      /\ isSubplan \in BOOLEAN /\ e \in Effect /\ TypeOK /\ RunFits /\ QueueFits /\ TruthInv
  BY <1>1, Running DEF RecoveryInv
<1>3. /\ e.op = "enqueue_replan" => Calming /\ ~isSubplan
      /\ e.op = "enqueue_action" => planned = "ready" /\ Reached(plan, e.action)
                                    /\ (Calming \/ Tail(Todo(w)) \in Pointer)
  <2>1. /\ e.op = "enqueue_replan" => Calming
        /\ e.op = "enqueue_action" => Calming \/ ResumingTodo(Todo(w), planned, plan)
    BY <1>1, <1>2, TodoByOp
  <2> QED
    BY <2>1 DEF Calm, ResumingTodo
<1>4. PICK m : /\ pending' = pending \cup {m}
               /\ \/ e.op = "enqueue_replan" /\ m = Replan(gen)
                  \/ e.op = "enqueue_action" /\ m = Act(gen, e.action, e.attempt)
  BY <1>2 DEF DoEnqueueAct, DoEnqueueReplan, NextIs
<1>5. MessageFits(m, isSubplan, gen, planned, plan, plans)
  <2>1. gen <= plans
    BY <1>2 DEF TruthInv, SavedTrue
  <2>2. CASE e.op = "enqueue_replan" /\ m = Replan(gen)
    BY <1>3, <2>2, MessageTypes DEF MessageFits
  <2>3. CASE e.op = "enqueue_action" /\ m = Act(gen, e.action, e.attempt)
    BY <1>3, <2>1, <2>3, MessageTypes DEF MessageFits, Worked
  <2> QED
    BY <1>4, <2>2, <2>3
<1>6. /\ msgs \subseteq (pending \cup delivered)' /\ (pending \cup delivered)' = msgs \cup {m}
      /\ e.op = "enqueue_action" => Seen((pending \cup delivered)')
  BY <1>1, <1>4 DEF Seen, Act
<1>7. RunFits'
  BY <1>1, <1>2 DEF RunFits, saved
<1>8. QueueFits'
  <2>1. Seen(msgs) => Seen((pending \cup delivered)')
    BY <1>6 DEF Seen
  <2>2. \A n \in (pending \cup delivered)' : MessageFits(n, isSubplan, gen, planned, plan, plans)
    BY <1>2, <1>5, <1>6 DEF QueueFits
  <2> QED
    BY <1>1, <1>2, <2>1, <2>2 DEF QueueFits, Served, saved
<1>9. CASE Calming
  BY <1>1, <1>6, <1>7, <1>8, <1>9, CalmStep DEF saved
<1>10. CASE e.op = "enqueue_action" /\ Tail(Todo(w)) \in Pointer
  <2>1. Served(planned, run, (pending \cup delivered)')
    BY <1>6, <1>10 DEF Served
  <2>2. Tail(Todo(w)) \in Seq(Calm(isSubplan, gen, planned, plan, succeeded, run, (pending \cup delivered)'))
    BY <1>2, <1>10, <2>1, PointerSeqs
  <2>3. TodoFits(Tail(Todo(w)), isSubplan, gen, planned, plan, succeeded, run', (pending \cup delivered)')
    BY <1>1, <2>2 DEF TodoFits, CalmTodo
  <2> QED
    BY <1>1, <1>6, <1>7, <1>8, <2>3, GoesOn DEF saved
<1> QED
  BY <1>1, <1>3, <1>9, <1>10

\* The invocation returns, raises or is cut off; a user decides.
LEMMA EndRecovery ==
    ASSUME Serial, RecoveryInv, TruthInv', NEW w \in Workers, DoRaise(w) \/ End(w) \/ Crash(w)
    PROVE  RecoveryInv'
<1>1. /\ UNCHANGED <<isSubplan, entry, saved, pointerKey, run, settled, succeeded>>
      /\ inv' = [inv EXCEPT ![w] = Idle]
  BY DEF DoRaise, End, Crash, input, queue, tools, idem
<1>2. inv \in [Workers -> Invocation] /\ RunFits /\ PlanFits /\ QueueFits
  BY DEF RecoveryInv, TruthInv, TypeInv
<1>3. (pending \cup delivered)' = pending \cup delivered
  <2>1. CASE End(w)
    <3>1. inv[w].msg \in pending \cup delivered
      BY <2>1 DEF End, RecoveryInv, InvocationFits
    <3> QED
      BY <2>1, <3>1 DEF End
  <2>2. CASE DoRaise(w) \/ Crash(w)
    BY <2>2 DEF DoRaise, Crash, queue
  <2> QED
    BY <2>1, <2>2
<1>4. InvocationFits(w)'
  <2>1. inv'[w] = Idle /\ Idle.todo = <<>>
    BY <1>1, <1>2, IdleFacts
  <2>2. Todo(w)' = <<>>
    BY <2>1 DEF Todo
  <2> QED
    BY <2>1, <2>2 DEF InvocationFits
<1>5. RunFits' /\ PlanFits' /\ QueueFits'
  <2>1. RunFits'
    BY <1>1, <1>2 DEF RunFits, saved
  <2>2. PlanFits'
    BY <1>1, <1>2 DEF PlanFits, saved
  <2>3. QueueFits'
    BY <1>1, <1>2, <1>3 DEF QueueFits, saved
  <2> QED
    BY <2>1, <2>2, <2>3
<1> QED
  BY <1>4, <1>5, RecoveryStep

LEMMA UnchangedRecovery ==
    ASSUME RecoveryInv, TruthInv', UNCHANGED <<input, saved, idem, run, settled, queue, inv, tools>>
    PROVE  RecoveryInv'
<1>1. UNCHANGED <<isSubplan, entry, planned, gen, plan, plans, pointerKey, run, settled, pending, delivered, inv, succeeded>>
  BY DEF input, saved, idem, queue, tools
<1>2. RunFits'
  BY <1>1 DEF RecoveryInv, RunFits
<1>3. PlanFits'
  BY <1>1 DEF RecoveryInv, PlanFits
<1>4. QueueFits'
  BY <1>1 DEF RecoveryInv, QueueFits
<1>5. ASSUME NEW w \in Workers PROVE InvocationFits(w)'
  BY <1>1 DEF RecoveryInv, InvocationFits, Todo
<1> QED
  BY <1>2, <1>3, <1>4, <1>5 DEF RecoveryInv

\* A tool is called.
LEMMA ExecuteRecovery ==
    ASSUME Serial, ~Hydrates, RecoveryInv, TruthInv', NEW w \in Workers, DoExecute(w)
    PROVE  RecoveryInv'
<1> DEFINE e == Head(Todo(w))
           i == e.action
           k == e.attempt
           msgs == pending \cup delivered
           Fits(t, succ) == TodoFits(t, isSubplan, gen, "ready", plan, succ, run, msgs)
<1>1. /\ Todo(w) # <<>> /\ e.op = "execute"
      /\ UNCHANGED <<isSubplan, entry, saved, pointerKey, run, settled, pending, delivered>>
  BY DEF DoExecute, NextIs, input, queue, idem
<1>2. /\ TodoFits(Todo(w), isSubplan, gen, planned, plan, succeeded, run, msgs)
      /\ inv \in [Workers -> Invocation] /\ inv[w] \in Invocation /\ inv[w].msg \in msgs
      /\ inv[w].gen = gen /\ inv[w].plan = plan
      /\ isSubplan \in BOOLEAN /\ e \in Effect /\ TypeOK /\ RunFits /\ PlanFits /\ QueueFits /\ TruthInv
  BY <1>1, Running DEF RecoveryInv
<1>3. i \in Actions /\ k \in Attempts /\ plan \in Plan /\ plans \in Nat /\ gen <= plans
  BY <1>1, <1>2, EffectFields DEF TypeOK, TruthInv, SavedTrue
<1>4. planned = "ready" /\ plan[i] = RUNNING /\ <<gen, i>> \notin succeeded
  BY <1>1, <1>2, TodoByOp DEF Calm
<1>5. Chain(plan) /\ Reached(plan, i) /\ Unspent(gen, plan, succeeded) /\ Seen(msgs)
  BY <1>2, <1>3, <1>4, StatusDistinct DEF PlanFits, QueueFits, Chain, Reached
<1>6. PlanStatus(plan) = "running"
  <2>1. RUNNING \in ActionStatus
    BY DEF ActionStatus
  <2> QED
    BY <1>3, <1>4, <1>5, <2>1, ReplaceAt
<1>7. run \notin RunTerminal
  BY <1>2, <1>4, <1>6, OpenRun
<1>8. Unspent(gen, plan, succeeded \cup {<<gen, i>>})
  BY <1>4, <1>5, StatusDistinct DEF Unspent
<1>9. PICK t : /\ Proceed(w, t)
               /\ \/ succeeded' = succeeded /\ t \in {ToolRaised(plan, i), ToolFailed(plan, i, k)}
                  \/ succeeded' = succeeded \cup {<<gen, i>>} /\ t = ToolSucceeded(plan, i)
  BY <1>2 DEF DoExecute
<1>10. Fits(t, succeeded')
  <2>1. Fits(ToolRaised(plan, i), succeeded)
    BY <1>2, <1>3, <1>4, <1>5, <1>7, FailFits
  <2>2. Fits(ToolFailed(plan, i, k), succeeded)
    BY <1>2, <1>3, <1>4, <1>5, <1>7, ToolFits
  <2>3. Fits(ToolSucceeded(plan, i), succeeded \cup {<<gen, i>>})
    BY <1>2, <1>3, <1>4, <1>5, <1>7, <1>8, ToolFits
  <2> HIDE DEF Fits
  <2> QED
    BY <1>9, <2>1, <2>2, <2>3
<1>11. inv'[w].msg = inv[w].msg /\ inv'[w].gen = gen /\ inv'[w].plan = plan /\ inv'[w].todo = t
  <2>1. inv'[w] = [inv[w] EXCEPT !.todo = t]
    BY <1>2, <1>9 DEF Proceed
  <2> QED
    BY <1>2, <2>1 DEF Invocation
<1>12. InvocationFits(w)'
  BY <1>1, <1>2, <1>4, <1>10, <1>11 DEF InvocationFits, Todo, saved
<1>13. RunFits'
  BY <1>1, <1>2 DEF RunFits, saved
<1>14. PlanFits'
  <2>1. Unspent(gen, plan, succeeded')
    BY <1>5, <1>8, <1>9
  <2>2. \A id \in succeeded' : id[1] <= plans
    BY <1>2, <1>3, <1>9 DEF PlanFits
  <2> QED
    BY <1>1, <1>2, <2>1, <2>2 DEF PlanFits, saved
<1>15. QueueFits'
  BY <1>1, <1>2 DEF QueueFits, saved
<1> QED
  BY <1>12, <1>13, <1>14, <1>15, RecoveryStep

\* A new plan is saved.
LEMMA SaveNewRecovery ==
    ASSUME Serial, RecoveryInv, TruthInv', NEW w \in Workers, DoSaveNewPlan(w)
    PROVE  RecoveryInv'
<1> DEFINE e == Head(Todo(w))
           t == Tail(Todo(w))
           msgs == pending \cup delivered
<1>1. /\ Todo(w) # <<>> /\ e.op = "save_new_plan" /\ planned' = e.planned
      /\ plans' = plans + 1 /\ gen' = plans + 1 /\ plan' = NewPlan
      /\ inv' = [inv EXCEPT ![w].gen = gen', ![w].plan = NewPlan, ![w].todo = Tail(@)]
      /\ UNCHANGED <<isSubplan, entry, pointerKey, run, settled, pending, delivered, succeeded>>
  BY DEF DoSaveNewPlan, NextIs, input, queue, tools, idem
<1>2. /\ TodoFits(Todo(w), isSubplan, gen, planned, plan, succeeded, run, msgs)
      /\ inv \in [Workers -> Invocation] /\ inv[w] \in Invocation /\ inv[w].msg \in msgs
      /\ isSubplan \in BOOLEAN /\ e \in Effect /\ TypeOK /\ RunFits /\ PlanFits /\ QueueFits
      /\ plans \in Nat
  <2>1. plans \in Nat
    BY <1>1, Running DEF TypeOK
  <2> QED
    BY <1>1, <2>1, Running DEF RecoveryInv
<1>3. /\ run \notin RunTerminal /\ Unplanned(isSubplan, planned, plan)
      /\ t \in IF e.planned = "empty" THEN EmptyTails(isSubplan) ELSE ReadyTails
      /\ e.planned \in {"ready", "empty"}
  BY <1>1, <1>2, TodoByOp, EffectFields DEF SavingTodo
<1>4. settled = {}
  <2>1. planned \in {"none", "empty", "rejected", "ready"}
    BY <1>2 DEF TypeOK
  <2>2. Outcome(isSubplan, planned, plan) = Open
    BY <1>2, <1>3, <2>1, OutcomeFacts
  <2> QED
    BY <1>2, <2>2 DEF RunFits
<1>5. RunFits'
  BY <1>1, <1>2, <1>3, <1>4 DEF RunFits
<1>6. \A i \in Actions : NewPlan[i] = PENDING
  BY DEF NewPlan
<1>7. PlanFits'
  <2>1. Chain(NewPlan)
    BY <1>6 DEF Chain
  <2>2. Unspent(plans + 1, NewPlan, succeeded)
    BY <1>2 DEF Unspent, PlanFits
  <2>3. \A id \in succeeded : id[1] <= plans + 1
    <3> TAKE id \in succeeded
    <3>1. id[1] <= plans /\ id[1] \in Nat
      BY <1>2 DEF PlanFits, TypeOK, ActionIds, Gens
    <3> QED
      BY <1>2, <3>1
  <2> QED
    BY <1>1, <2>1, <2>2, <2>3 DEF PlanFits
<1>8. QueueFits'
  <2>1. ASSUME NEW m \in msgs PROVE MessageFits(m, isSubplan, plans + 1, e.planned, NewPlan, plans + 1)
    <3>1. MessageFits(m, isSubplan, gen, planned, plan, plans)
      BY <1>2 DEF QueueFits
    <3>2. \A h \in Gens : h <= plans => h <= plans + 1 /\ h # plans + 1
      BY <1>2 DEF Gens
    <3> QED
      BY <3>1, <3>2 DEF MessageFits
  <2>2. pointerKey => Served(e.planned, run, msgs)
    BY <1>2, <1>3 DEF QueueFits, Served, Unplanned
  <2> QED
    BY <1>1, <1>6, <2>1, <2>2 DEF QueueFits
<1>9. TodoFits(t, isSubplan, plans + 1, e.planned, NewPlan, succeeded, run, msgs)
  <2>1. CASE e.planned = "empty" /\ isSubplan
    <3> DEFINE C == Calm(isSubplan, plans + 1, "empty", NewPlan, succeeded, run, msgs)
               x == Settle("completed")
    <3>1. x \in C
      <4>1. "completed" \in SettleStatus /\ Outcome(isSubplan, "empty", NewPlan) = "completed"
        BY <2>1, OutcomeFacts DEF SettleStatus
      <4> QED
        BY <1>2, <2>1, <4>1, CalmFacts
    <3>2. t = <<x>>
      BY <1>3, <2>1 DEF EmptyTails
    <3> HIDE DEF C, x
    <3>3. t \in Seq(C)
      BY <3>1, <3>2, SeqOps
    <3> QED
      BY <2>1, <3>3 DEF TodoFits, CalmTodo, C
  <2>2. CASE e.planned = "empty" /\ ~isSubplan
    <3> DEFINE x == RejectPlan
    <3>1. PICK y \in Rejecting : t = <<x>> \o y
      BY <1>3, <2>2 DEF EmptyTails
    <3>2. x \in Effect /\ x.op = "reject_plan" /\ y \in Seq(Effect)
      BY EffectTypes, PointerSeqs, SeqOps DEF RejectPlan, Rejecting, RunStatus
    <3> HIDE DEF x, t
    <3>3. t # <<>> /\ Head(t) = x /\ Tail(t) = y
      BY <3>1, <3>2, Cons
    <3> QED
      BY <1>3, <2>2, <3>2, <3>3 DEF TodoFits, RejectingTodo, First
  <2>3. CASE e.planned = "ready"
    <3> DEFINE x == EnqueueAct(1, 0)
    <3>1. PICK k \in Pointer : t = <<x>> \o k
      BY <1>3, <2>3 DEF ReadyTails
    <3>2. x.op = "enqueue_action" /\ x.action = 1 /\ x \in Effect
      <4>1. 1 \in Actions /\ 0 \in Attempts
        BY NumActionsAssumption, PlanExecutionAssumption DEF Actions, Attempts
      <4> QED
        BY <4>1, EffectTypes DEF EnqueueAct
    <3>3. k \in Seq(Effect)
      BY PointerSeqs
    <3> HIDE DEF x, t
    <3>4. t # <<>> /\ Head(t) = x /\ Tail(t) = k
      BY <3>1, <3>2, <3>3, Cons
    <3>5. Reached(NewPlan, 1)
      BY DEF Reached
    <3> QED
      BY <2>3, <3>2, <3>4, <3>5 DEF TodoFits, ResumingTodo, First
  <2> QED
    BY <1>2, <1>3, <2>1, <2>2, <2>3
<1>10. inv'[w].msg = inv[w].msg /\ inv'[w].gen = plans + 1 /\ inv'[w].plan = NewPlan /\ inv'[w].todo = t
  BY <1>1, <1>2 DEF Invocation, Todo
<1>11. InvocationFits(w)'
  BY <1>1, <1>2, <1>9, <1>10 DEF InvocationFits, Todo
<1> QED
  BY <1>5, <1>7, <1>8, <1>11, RecoveryStep

\* A plan is given up.
LEMMA RejectRecovery ==
    ASSUME Serial, RecoveryInv, TruthInv', NEW w \in Workers, DoRejectPlan(w)
    PROVE  RecoveryInv'
<1> DEFINE t == Tail(Todo(w))
           msgs == pending \cup delivered
<1>1. /\ Todo(w) # <<>> /\ Head(Todo(w)).op = "reject_plan" /\ planned' = "rejected"
      /\ UNCHANGED <<isSubplan, entry, plans, pointerKey, run, settled, pending, delivered, succeeded>>
      /\ Proceed(w, t)
  BY DEF DoRejectPlan, NextIs, input, queue, tools, idem
<1>2. /\ TodoFits(Todo(w), isSubplan, gen, planned, plan, succeeded, run, msgs)
      /\ inv \in [Workers -> Invocation] /\ inv[w] \in Invocation /\ inv[w].msg \in msgs
      /\ isSubplan \in BOOLEAN /\ TypeOK /\ RunFits /\ PlanFits /\ QueueFits
      /\ inv[w].gen = gen /\ inv[w].plan = plan
  BY <1>1, Running DEF RecoveryInv
<1>3. UNCHANGED <<gen, plan>>
  BY <1>2 DEF DoRejectPlan
<1>4. /\ ~isSubplan /\ run \notin RunTerminal /\ (planned = "empty" \/ (planned = "ready" /\ Stuck(plan)))
      /\ t \in Rejecting
  BY <1>1, <1>2, TodoByOp DEF RejectingTodo
<1>5. RunFits'
  BY <1>1, <1>2, <1>3, <1>4 DEF RunFits
<1>6. PlanFits'
  BY <1>1, <1>2, <1>3 DEF PlanFits
<1>7. QueueFits'
  <2>1. ASSUME NEW m \in msgs PROVE MessageFits(m, isSubplan, gen, "rejected", plan, plans)
    <3>1. MessageFits(m, isSubplan, gen, planned, plan, plans)
      BY <1>2 DEF QueueFits
    <3>2. Worked(planned, plan) => Worked("rejected", plan)
      BY <1>4 DEF Worked
    <3> QED
      BY <3>1, <3>2 DEF MessageFits
  <2> QED
    BY <1>1, <1>2, <1>3, <2>1 DEF QueueFits, Served
<1>8. TodoFits(t, isSubplan, gen, "rejected", plan, succeeded, run, msgs)
  <2> DEFINE C == Calm(isSubplan, gen, "rejected", plan, succeeded, run, msgs)
             x == PatchRun("failed")
  <2>1. x \in C
    <3>1. Outcome(isSubplan, "rejected", plan) = "failed"
      <4>1. isSubplan = FALSE
        BY <1>2, <1>4
      <4> QED
        BY <4>1, OutcomeFacts
    <3>2. "failed" \in RunStatus /\ "failed" \in RunTerminal
      BY DEF RunStatus, RunTerminal
    <3> QED
      BY <1>2, <1>4, <3>1, <3>2, CalmFacts
  <2>2. PICK k \in Pointer : t = <<x>> \o k
    BY <1>4 DEF Rejecting
  <2>3. k \in Seq(C)
    <3>1. Served("rejected", run, msgs)
      BY DEF Served
    <3> QED
      BY <1>2, <3>1, PointerSeqs
  <2> HIDE DEF C, x
  <2>4. t \in Seq(C)
    BY <2>1, <2>2, <2>3, Cons
  <2> QED
    BY <2>4 DEF TodoFits, CalmTodo, C
<1>9. inv'[w].msg = inv[w].msg /\ inv'[w].gen = gen /\ inv'[w].plan = plan /\ inv'[w].todo = t
  <2>1. inv'[w] = [inv[w] EXCEPT !.todo = t]
    BY <1>1, <1>2 DEF Proceed
  <2> QED
    BY <1>2, <2>1 DEF Invocation
<1>10. InvocationFits(w)'
  BY <1>1, <1>2, <1>3, <1>8, <1>9 DEF InvocationFits, Todo
<1> QED
  BY <1>5, <1>6, <1>7, <1>10, RecoveryStep

\* A plan is saved with the status of one action replaced.
LEMMA UpdateRecovery ==
    ASSUME Serial, RecoveryInv, TruthInv', NEW w \in Workers, DoUpdatePlan(w)
    PROVE  RecoveryInv'
<1> DEFINE q == Head(Todo(w)).plan
           t == Tail(Todo(w))
           msgs == pending \cup delivered
<1>1. /\ Todo(w) # <<>> /\ Head(Todo(w)).op = "update_plan" /\ planned' = "ready" /\ plan' = q
      /\ UNCHANGED <<isSubplan, entry, plans, pointerKey, run, settled, pending, delivered, succeeded>>
      /\ inv' = [inv EXCEPT ![w].plan = q, ![w].todo = Tail(@)]
  BY DEF DoUpdatePlan, NextIs, input, queue, tools, idem
<1>2. /\ TodoFits(Todo(w), isSubplan, gen, planned, plan, succeeded, run, msgs)
      /\ inv \in [Workers -> Invocation] /\ inv[w] \in Invocation /\ inv[w].msg \in msgs
      /\ isSubplan \in BOOLEAN /\ TypeOK /\ RunFits /\ PlanFits /\ QueueFits
      /\ inv[w].gen = gen /\ inv[w].plan = plan
  BY <1>1, Running DEF RecoveryInv
<1>3. gen' = gen
  BY <1>2 DEF DoUpdatePlan
<1>4. /\ Seen(msgs) /\ planned = "ready" /\ PlanStatus(plan) = "running" /\ run \notin RunTerminal
      /\ Chain(q) /\ Unspent(gen, q, succeeded)
      /\ \A i \in Actions : plan[i] = COMPLETED => q[i] = COMPLETED
      /\ t \in Ending(Calm(isSubplan, gen, "ready", q, succeeded, run, msgs))
  BY <1>1, <1>2, TodoByOp DEF UpdatingTodo
<1>5. RunFits'
  <2>1. Outcome(isSubplan, planned, plan) = Open
    BY <1>2, <1>4, OutcomeFacts
  <2>2. settled = {}
    BY <1>2, <2>1 DEF RunFits
  <2> QED
    BY <1>1, <1>2, <1>3, <1>4, <2>2 DEF RunFits
<1>6. PlanFits'
  BY <1>1, <1>2, <1>3, <1>4 DEF PlanFits
<1>7. QueueFits'
  <2>1. ASSUME NEW m \in msgs PROVE MessageFits(m, isSubplan, gen, "ready", q, plans)
    <3>1. MessageFits(m, isSubplan, gen, planned, plan, plans)
      BY <1>2 DEF QueueFits
    <3>2. \A i \in Actions : Reached(plan, i) => Reached(q, i)
      <4>1. \A i \in Actions : \A j \in 1 .. i - 1 : j \in Actions
        BY NumActionsAssumption DEF Actions
      <4> QED
        BY <1>4, <4>1 DEF Reached
    <3> QED
      BY <1>4, <3>1, <3>2 DEF MessageFits, Worked
  <2> QED
    BY <1>1, <1>3, <1>4, <2>1 DEF QueueFits, Served
<1>8. TodoFits(t, isSubplan, gen, "ready", q, succeeded, run, msgs)
  BY <1>4 DEF TodoFits, CalmTodo, Worked
<1>9. inv'[w].msg = inv[w].msg /\ inv'[w].gen = gen /\ inv'[w].plan = q /\ inv'[w].todo = t
  BY <1>1, <1>2 DEF Invocation, Todo
<1>10. InvocationFits(w)'
  BY <1>1, <1>2, <1>3, <1>8, <1>9 DEF InvocationFits, Todo
<1> QED
  BY <1>5, <1>6, <1>7, <1>10, RecoveryStep

\* The next action: there is none, or it is left to the queue, or done inline.
LEMMA EnqueueNextRecovery ==
    ASSUME Serial, ~Hydrates, RecoveryInv, TruthInv', NEW w \in Workers, DoEnqueueNext(w)
    PROVE  RecoveryInv'
<1> DEFINE msgs == pending \cup delivered
           C == Calm(isSubplan, gen, planned, plan, succeeded, run, msgs)
           Fits(t) == TodoFits(t, isSubplan, gen, planned, plan, succeeded, run, msgs)
<1>1. /\ Todo(w) # <<>> /\ Head(Todo(w)).op = "enqueue_next_action"
      /\ UNCHANGED <<isSubplan, entry, saved, pointerKey, run, settled, pending, delivered, succeeded>>
  BY DEF DoEnqueueNext, NextIs, input, queue, tools, idem
<1>2. /\ TodoFits(Todo(w), isSubplan, gen, planned, plan, succeeded, run, msgs)
      /\ inv \in [Workers -> Invocation] /\ inv[w] \in Invocation /\ inv[w].msg \in msgs
      /\ isSubplan \in BOOLEAN /\ TypeOK /\ RunFits /\ PlanFits /\ QueueFits
      /\ inv[w].gen = gen /\ inv[w].plan = plan
  BY <1>1, Running DEF RecoveryInv
<1>3. Tail(Todo(w)) = <<>> /\ Worked(planned, plan) /\ Seen(msgs)
  BY <1>1, <1>2, TodoByOp
<1>4. plan \in Plan /\ Chain(plan) /\ GetPlan = plan /\ 0 \in Attempts
  BY <1>2, PlainReads, PlanExecutionAssumption DEF TypeOK, PlanFits, Attempts
<1>5. RunFits' /\ PlanFits' /\ QueueFits'
  <2>1. RunFits'
    BY <1>1, <1>2 DEF RunFits, saved
  <2>2. PlanFits'
    BY <1>1, <1>2 DEF PlanFits, saved
  <2>3. QueueFits'
    BY <1>1, <1>2 DEF QueueFits, saved
  <2> QED
    BY <2>1, <2>2, <2>3
<1>6. \A j \in NextPendingAction(plan) :
         /\ j \in Actions /\ Reached(plan, j) /\ planned = "ready"
         /\ EnqueueAct(j, 0) \in C /\ Unblocked(gen, j, succeeded)
  <2> TAKE j \in NextPendingAction(plan)
  <2>1. j \in Actions /\ Reached(plan, j) /\ plan[j] = PENDING
    BY <1>4, NextAt
  <2>2. planned = "ready"
    BY <1>3, <1>4, <2>1, NextAt DEF Worked
  <2>3. EnqueueAct(j, 0) \in C
    BY <1>2, <1>4, <2>1, <2>2, CalmFacts
  <2>4. Unblocked(gen, j, succeeded)
    <3>1. \A n \in 1 .. j - 1 : n \in Actions
      BY <2>1, NumActionsAssumption DEF Actions
    <3> QED
      BY <2>1, <3>1 DEF Unblocked, Reached, RecoveryInv, TruthInv, SavedTrue, PlanTrue
  <2> QED
    BY <2>1, <2>2, <2>3, <2>4
<1>7. ASSUME PlanStatus(plan) = "completed" PROVE PlanCompleted \in Seq(C)
  <2>1. planned = "ready" /\ Outcome(isSubplan, planned, plan) = "completed"
    BY <1>2, <1>3, <1>7, OutcomeFacts DEF Worked, Stuck
  <2>2. /\ isSubplan => Settle("completed") \in C
        /\ ~isSubplan => PatchRun("completed") \in C
    BY <1>2, <2>1, CalmFacts DEF SettleStatus, RunStatus, RunTerminal
  <2> HIDE DEF C
  <2> QED
    BY <2>2, SeqOps DEF PlanCompleted
<1>8. ASSUME NEW t \in Seq(C), Proceed(w, t \o <<>>) PROVE RecoveryInv'
  <2>1. t \o <<>> = t
    <3> HIDE DEF C
    <3> QED
      BY ConcatEmptySeq
  <2>2. Fits(t)
    BY DEF TodoFits, CalmTodo
  <2> QED
    BY <1>1, <1>5, <1>8, <2>1, <2>2, GoesOn DEF saved
<1>9. ASSUME NEW j \in NextPendingAction(plan), NEW todo \in InlineEffects(w, j),
             inv' = [inv EXCEPT ![w].plan = GetPlan, ![w].used = @ + 1, ![w].todo = todo \o <<>>]
      PROVE  RecoveryInv'
  <2>1. Fits(todo) /\ todo \o <<>> = todo
    <3>1. CASE todo = <<Raise>>
      <4>1. Raise \in C
        BY <1>2, CalmFacts
      <4> HIDE DEF C
      <4>2. todo \in Seq(C) /\ todo \o <<>> = todo
        BY <3>1, <4>1, SeqOps, ConcatEmptySeq
      <4> QED
        BY <4>2 DEF TodoFits, CalmTodo, C
    <3>2. CASE todo \in ActionEffects(gen, plan, j, 0)
      <4>1. Fits(todo)
        BY <1>2, <1>3, <1>4, <1>6, <3>2, ActionFits
      <4>2. gen \in Gens /\ plans \in Nat /\ gen <= plans /\ PlanTrue(gen, plan, succeeded)
        <5>1. gen \in 0 .. MaxPlans /\ plans \in Nat /\ gen <= plans /\ gen # 0 /\ PlanTrue(gen, plan, succeeded)
          BY <1>2, <1>6 DEF TypeOK, RecoveryInv, TruthInv, SavedTrue
        <5> QED
          BY <5>1, PlanExecutionAssumption DEF Gens
      <4>3. todo \in Seq(Sound(gen, succeeded, plans))
        BY <1>2, <1>4, <1>6, <3>2, <4>2, ActionEffectsSound
      <4>4. todo \o <<>> = todo
        BY <4>3, ConcatEmptySeq
      <4> QED
        BY <4>1, <4>4
    <3> QED
      BY <1>4, <3>1, <3>2 DEF InlineEffects
  <2>2. inv'[w].msg = inv[w].msg /\ inv'[w].gen = gen /\ inv'[w].plan = plan /\ inv'[w].todo = todo
    BY <1>2, <1>4, <1>9, <2>1 DEF Invocation
  <2>3. InvocationFits(w)'
    BY <1>1, <1>2, <2>1, <2>2 DEF InvocationFits, Todo, saved
  <2> QED
    BY <1>5, <2>3, RecoveryStep
<1>10. CASE Proceed(w, If(PlanStatus(plan) = "completed", PlanCompleted) \o <<>>)
  <2>1. If(PlanStatus(plan) = "completed", PlanCompleted) \in Seq(C)
    <3> HIDE DEF C
    <3> QED
      BY <1>7, SeqOps DEF If
  <2> HIDE DEF C
  <2> QED
    BY <1>8, <1>10, <2>1
<1>11. ASSUME NEW j \in NextPendingAction(plan), Proceed(w, <<EnqueueAct(j, 0)>> \o <<>>) PROVE RecoveryInv'
  <2>1. <<EnqueueAct(j, 0)>> \in Seq(C)
    BY <1>6, SeqOps
  <2> HIDE DEF C
  <2> QED
    BY <1>8, <1>11, <2>1
<1> QED
  <2> HIDE DEF msgs, C, Fits
  <2> QED
    BY <1>2, <1>3, <1>9, <1>10, <1>11 DEF DoEnqueueNext

\* An invocation begins.
LEMMA InvokeRecovery ==
    ASSUME Serial, ~Hydrates, RecoveryInv, TruthInv', NEW w \in Workers,
           NEW m \in pending \cup delivered, NEW todo, Invoke(w, m, todo),
           run' \in {run, "running"}, run \in RunTerminal => run' = run, isSubplan => run' = run,
           TodoFits(todo, isSubplan, gen, planned, plan, succeeded, run', pending \cup delivered)
    PROVE  RecoveryInv'
<1>1. /\ UNCHANGED <<isSubplan, entry, saved, pointerKey, settled, pending, delivered, succeeded>>
      /\ inv' = [inv EXCEPT ![w] = [msg |-> m, gen |-> gen, plan |-> plan, used |-> 0, todo |-> todo]]
  BY PlainReads DEF Invoke, input, queue, tools, idem
<1>2. inv \in [Workers -> Invocation] /\ RunFits /\ PlanFits /\ QueueFits
  BY DEF RecoveryInv, TruthInv, TypeInv
<1>3. inv'[w].msg = m /\ inv'[w].gen = gen /\ inv'[w].plan = plan /\ inv'[w].todo = todo
  BY <1>1, <1>2
<1>4. InvocationFits(w)'
  BY <1>1, <1>3 DEF InvocationFits, Todo, saved
<1>5. "running" \notin RunTerminal
  BY DEF RunTerminal
<1>6. RunFits'
  BY <1>1, <1>2, <1>5 DEF RunFits, saved
<1>7. PlanFits'
  BY <1>1, <1>2 DEF PlanFits, saved
<1>8. QueueFits'
  BY <1>1, <1>2 DEF QueueFits, Served, saved
<1> QED
  BY <1>4, <1>6, <1>7, <1>8, RecoveryStep

LEMMA DriveFits ==
    ASSUME RecoveryInv, ~Hydrates, NEW d \in DriveEffects, NEW k \in Pointer, isSubplan => k = <<>>
    PROVE  TodoFits(d \o k, isSubplan, gen, planned, plan, succeeded,
                    IF planned = "none" /\ PlansAnew THEN "running" ELSE run, pending \cup delivered)
<1>1. TypeOK /\ RunFits /\ PlanFits /\ QueueFits
  BY DEF RecoveryInv, TruthInv, TypeInv
<1>2. CASE planned # "none"
  BY <1>1, <1>2, ResumeFits DEF DriveEffects
<1>3. CASE planned = "none" /\ PlansAnew
  <2>1. "running" \notin RunTerminal /\ Unplanned(isSubplan, planned, plan)
    BY <1>3 DEF RunTerminal, Unplanned
  <2>2. d \in Planning
    BY <1>3 DEF DriveEffects
  <2> QED
    BY <1>1, <1>3, <2>1, <2>2, PlanningFits
<1>4. CASE planned = "none" /\ ~PlansAnew
  <2> DEFINE C == Calm(isSubplan, gen, planned, plan, succeeded, run, pending \cup delivered)
  <2>1. d = <<>> /\ isSubplan \in BOOLEAN
    BY <1>1, <1>4 DEF DriveEffects, TypeOK
  <2>2. run \in RunTerminal
    BY <1>1, <1>4, PlanExecutionAssumption DEF PlansAnew, RunFits
  <2>3. k \in Seq(C)
    BY <2>1, <2>2, PointerSeqs DEF Served
  <2> HIDE DEF C
  <2>4. d \o k \in Seq(C)
    BY <2>1, <2>3, SeqOps
  <2> QED
    BY <1>4, <2>4 DEF TodoFits, CalmTodo, C
<1> QED
  BY <1>2, <1>3, <1>4

LEMMA BeginDriveRecovery ==
    ASSUME Serial, ~Hydrates, RecoveryInv, TruthInv', NEW w \in Workers, BeginDrive(w)
    PROVE  RecoveryInv' /\ (run \in RunTerminal => run' = run)
<1> DEFINE r == IF planned = "none" /\ PlansAnew THEN "running" ELSE run
           Fits(t, s) == TodoFits(t, isSubplan, gen, planned, plan, succeeded, s, pending \cup delivered)
<1>1. TypeOK /\ RunFits /\ TruthInv /\ Drive \in pending \cup delivered
  BY DEF RecoveryInv, TruthInv, TypeInv, BeginDrive, Receives, Available
<1>2. PICK todo \in RequestEffects : Invoke(w, Drive, todo)
  BY DEF BeginDrive
<1>3. run' = IF ~KnownPointer THEN r ELSE run
  BY DEF BeginDrive
<1>4. /\ run' \in {run, "running"} /\ (run \in RunTerminal => run' = run) /\ (isSubplan => run' = run)
  BY <1>1, <1>3 DEF PlansAnew, RunFits
<1> HIDE DEF r
<1>5. Fits(todo, run')
  <2>1. CASE KnownPointer
    <3>1. todo = <<>> /\ run' = run
      BY <1>3, <2>1 DEF RequestEffects
    <3> QED
      BY <3>1, SeqOps DEF TodoFits, CalmTodo
  <2>2. CASE ~KnownPointer /\ entry = "pointer"
    <3>1. ~isSubplan /\ <<RecordPointerKey>> \in Pointer /\ run' = r
      BY <1>1, <1>3, <2>2 DEF RunFits, Pointer
    <3>2. PICK d \in DriveEffects : todo = d \o <<RecordPointerKey>>
      BY <2>2 DEF RequestEffects
    <3>3. Fits(d \o <<RecordPointerKey>>, r)
      BY <3>1, DriveFits DEF r
    <3> QED
      BY <3>1, <3>2, <3>3
  <2>3. CASE ~KnownPointer /\ entry # "pointer"
    <3>1. todo \in DriveEffects /\ run' = r /\ <<>> \in Pointer
      BY <1>3, <2>3, PointerSeqs DEF RequestEffects
    <3>2. todo \in Seq(Effect)
      BY <1>1, <1>2, RequestTrue DEF Ready
    <3>3. todo \o <<>> = todo
      BY <3>2, ConcatEmptySeq
    <3>4. Fits(todo \o <<>>, r)
      BY <3>1, DriveFits DEF r
    <3> QED
      BY <3>1, <3>3, <3>4
  <2> QED
    BY <2>1, <2>2, <2>3
<1> QED
  BY <1>1, <1>2, <1>4, <1>5, InvokeRecovery

LEMMA BeginReplanRecovery ==
    ASSUME Serial, ~Hydrates, RecoveryInv, TruthInv', NEW w \in Workers, NEW g \in Gens, BeginReplan(w, g)
    PROVE  RecoveryInv' /\ (run \in RunTerminal => run' = run)
<1> DEFINE Fits(t, s) == TodoFits(t, isSubplan, gen, planned, plan, succeeded, s, pending \cup delivered)
<1>1. TypeOK /\ RunFits /\ PlanFits /\ QueueFits /\ TruthInv /\ Replan(g) \in pending \cup delivered
  BY DEF RecoveryInv, TruthInv, TypeInv, BeginReplan, Receives, Available
<1>2. PICK todo \in ReplanEffects : Invoke(w, Replan(g), todo)
  BY DEF BeginReplan
<1>3. ~isSubplan
  BY <1>1 DEF QueueFits, MessageFits
<1>4. run' = IF ReplanRequired /\ PlansAnew THEN "running" ELSE run
  BY DEF BeginReplan
<1>5. run' \in {run, "running"} /\ (run \in RunTerminal => run' = run)
  BY <1>3, <1>4 DEF PlansAnew
<1>6. todo \o <<>> = todo /\ <<>> \in Pointer
  BY <1>1, <1>2, RequestTrue, ConcatEmptySeq, PointerSeqs DEF Ready
<1>7. Fits(todo, run')
  <2>1. CASE ~ReplanRequired /\ planned # "none"
    <3>1. todo = Resume /\ run' = run
      BY <1>2, <1>4, <2>1 DEF ReplanEffects
    <3>2. Fits(Resume \o <<>>, run)
      BY <1>1, <1>6, <2>1, ResumeFits
    <3> QED
      BY <1>6, <3>1, <3>2
  <2>2. CASE todo = <<>> /\ run' = run
    BY <2>2, SeqOps DEF TodoFits, CalmTodo
  <2>3. CASE ~ReplanRequired /\ planned = "none"
    <3>1. Resume = <<>>
      BY <2>3 DEF Resume
    <3> QED
      BY <1>2, <1>4, <2>2, <2>3, <3>1 DEF ReplanEffects
  <2>4. CASE ReplanRequired /\ PlansAnew
    <3>1. todo \in Planning /\ run' = "running" /\ "running" \notin RunTerminal
      BY <1>2, <1>4, <2>4 DEF ReplanEffects, RunTerminal
    <3>2. Unplanned(isSubplan, planned, plan)
      BY <1>3, <2>4, PlainReads DEF ReplanRequired, Unplanned
    <3>3. Fits(todo \o <<>>, "running")
      BY <1>1, <1>6, <3>1, <3>2, PlanningFits
    <3> QED
      BY <1>6, <3>1, <3>3
  <2>5. CASE ReplanRequired /\ ~PlansAnew
    BY <1>2, <1>4, <2>2, <2>5 DEF ReplanEffects
  <2> QED
    BY <2>1, <2>3, <2>4, <2>5
<1> QED
  BY <1>1, <1>2, <1>3, <1>5, <1>7, InvokeRecovery

LEMMA BeginActionRecovery ==
    ASSUME Serial, ~Hydrates, RecoveryInv, TruthInv', NEW w \in Workers,
           NEW g \in Gens, NEW i \in Actions, NEW k \in Attempts, BeginAction(w, g, i, k)
    PROVE  RecoveryInv' /\ run' = run
<1>1. /\ TypeOK /\ RunFits /\ PlanFits /\ QueueFits
      /\ Act(g, i, k) \in pending \cup delivered /\ g = gen /\ run' = run
  BY DEF RecoveryInv, TruthInv, TypeInv, BeginAction, Receives, Available
<1>2. PICK todo \in ActionEffects(gen, plan, i, k) : Invoke(w, Act(g, i, k), todo)
  BY PlainReads DEF BeginAction
<1>3. Worked(planned, plan) /\ Reached(plan, i) /\ Seen(pending \cup delivered)
  <2>1. Worked(planned, plan) /\ Reached(plan, i)
    BY <1>1 DEF QueueFits, MessageFits
  <2>2. Act(g, i, k).kind = "action"
    BY DEF Act
  <2> QED
    BY <1>1, <2>1, <2>2 DEF Seen
<1>4. TodoFits(todo, isSubplan, gen, planned, plan, succeeded, run', pending \cup delivered)
  BY <1>1, <1>2, <1>3, ActionFits
<1> QED
  BY <1>1, <1>2, <1>4, InvokeRecovery

LEMMA InitRecovery == ~Hydrates /\ Init => RecoveryInv
<1> SUFFICES ASSUME ~Hydrates, Init PROVE RecoveryInv
  OBVIOUS
<1>1. TruthInv
  BY InitTruth
<1>2. /\ planned = "none" /\ gen = 0 /\ plan = NewPlan /\ plans = 0 /\ pointerKey = FALSE /\ settled = {}
      /\ pending = {Drive} /\ delivered = {} /\ succeeded = {} /\ inv = [w \in Workers |-> Idle]
      /\ isSubplan => run = "running" /\ entry = "event"
  BY DEF Init
<1>3. RunFits
  <2>1. Unplanned(isSubplan, planned, plan)
    BY <1>2 DEF Unplanned
  <2> QED
    BY <1>2, <2>1 DEF RunFits
<1>4. PlanFits
  BY <1>2 DEF PlanFits, Chain, Unspent, NewPlan
<1>5. QueueFits
  <2>1. \A h : Drive # Replan(h)
    BY DEF Drive, Replan
  <2>2. \A h, i, k : Drive # Act(h, i, k)
    BY DEF Drive, Act
  <2>3. \A i \in Actions : plan[i] = PENDING
    BY <1>2 DEF NewPlan
  <2> QED
    BY <1>2, <2>1, <2>2, <2>3 DEF QueueFits, MessageFits
<1>6. ASSUME NEW w \in Workers PROVE InvocationFits(w)
  <2>1. inv[w] = Idle /\ Idle.todo = <<>>
    BY <1>2, IdleFacts
  <2>2. Todo(w) = <<>>
    BY <2>1 DEF Todo
  <2> QED
    BY <2>1, <2>2 DEF InvocationFits
<1> QED
  BY <1>1, <1>3, <1>4, <1>5, <1>6 DEF RecoveryInv

LEMMA NextRecovery ==
    ASSUME Serial, ~Hydrates, RecoveryInv, [Next]_vars
    PROVE  RecoveryInv' /\ (run \in RunTerminal => run' = run)
<1>1. TruthInv'
  BY NextTruth DEF RecoveryInv
<1>2. CASE UNCHANGED vars
  BY <1>1, <1>2, UnchangedRecovery DEF vars
<1>3. ASSUME NEW i \in Actions, UserDecides(i) PROVE RecoveryInv' /\ run' = run
  BY <1>1, <1>3, UnchangedRecovery DEF UserDecides
<1>4. ASSUME NEW w \in Workers, Perform(w) PROVE RecoveryInv' /\ (run \in RunTerminal => run' = run)
  <2>1. CASE DoPatchRun(w)
    BY <1>1, <2>1, PatchRecovery
  <2>2. CASE ~DoPatchRun(w)
    <3>1. run' = run
      BY <1>4, <2>2 DEF Perform, DoSaveNewPlan, DoRejectPlan, DoUpdatePlan, DoRecordKey, DoRecordPointerKey,
                        DoUpsertAction, DoEnqueueAct, DoEnqueueReplan, DoSettle, DoExecute, DoEnqueueNext,
                        DoRaise, End
    <3> QED
      BY <1>1, <1>4, <2>2, <3>1, SaveNewRecovery, RejectRecovery, UpdateRecovery, RecordRecovery,
         EnqueueRecovery, ExecuteRecovery, EnqueueNextRecovery, EndRecovery DEF Perform
  <2> QED
    BY <2>1, <2>2
<1>5. ASSUME NEW w \in Workers, Crash(w) PROVE RecoveryInv' /\ run' = run
  BY <1>1, <1>5, EndRecovery DEF Crash
<1> QED
  BY <1>1, <1>2, <1>3, <1>4, <1>5, BeginDriveRecovery, BeginReplanRecovery, BeginActionRecovery DEF Next

LEMMA AlwaysRecovery == Serial /\ ~Hydrates => (Spec => []RecoveryInv)
<1> SUFFICES ASSUME Serial, ~Hydrates PROVE Spec => []RecoveryInv
  OBVIOUS
<1>1. Init => RecoveryInv
  BY InitRecovery
<1>2. RecoveryInv /\ [Next]_vars => RecoveryInv'
  BY NextRecovery
<1> QED
  BY <1>1, <1>2, PTL DEF Spec

-----------------------------------------------------------------------------
(***************************************************************************)
(* The theorems.  They hold for one invocation at a time: two that work on *)
(* the same plan read it before either has saved it, and both perform its  *)
(* next action.                                                            *)
(***************************************************************************)

\* However often an action's event is delivered and wherever an invocation was
\* cut off, ActionEventHandler.handle never calls a tool again whose call for
\* the action succeeded.
THEOREM SuccessIsNeverRepeated == Serial /\ ~Hydrates => (Spec => []NeverRepeatsSuccess)
<1> SUFFICES ASSUME Serial, ~Hydrates PROVE Spec => []NeverRepeatsSuccess
  OBVIOUS
<1>1. RecoveryInv => NeverRepeatsSuccess
  <2> SUFFICES ASSUME RecoveryInv, NEW w \in Workers, NextIs(w, "execute")
               PROVE  <<inv[w].gen, Head(Todo(w)).action>> \notin succeeded
    BY DEF NeverRepeatsSuccess
  <2>1. Todo(w) # <<>> /\ Head(Todo(w)).op = "execute"
    BY DEF NextIs
  <2>2. /\ inv[w].gen = gen /\ isSubplan \in BOOLEAN
        /\ TodoFits(Todo(w), isSubplan, gen, planned, plan, succeeded, run, pending \cup delivered)
    BY <2>1, Running
  <2>3. Head(Todo(w)) \in Calm(isSubplan, gen, planned, plan, succeeded, run, pending \cup delivered)
    BY <2>1, <2>2, TodoByOp
  <2> QED
    BY <2>1, <2>2, <2>3 DEF Calm
<1>2. Spec => []RecoveryInv
  BY AlwaysRecovery
<1> QED
  BY <1>1, <1>2, PTL

\* A node that was reported completed was performed to its last action, or its
\* planner found nothing to do: ActionEventHandler and SubAgentCoordinator never
\* report more than was done, through retries, crashes and redeliveries.
THEOREM SettlementIsEarned == Serial /\ ~Hydrates => (Spec => []SettlementEarned)
<1> SUFFICES ASSUME Serial, ~Hydrates PROVE Spec => []SettlementEarned
  OBVIOUS
<1>1. RecoveryInv => SettlementEarned
  <2> SUFFICES ASSUME RecoveryInv, "completed" \in settled PROVE planned = "empty" \/ Performed(gen)
    BY DEF SettlementEarned
  <2>1. isSubplan /\ Outcome(isSubplan, planned, plan) = "completed"
    BY DEF RecoveryInv, RunFits
  <2>2. NodeOutcome(planned, plan) = "completed"
    BY <2>1 DEF Outcome
  <2>3. planned = "empty" \/ PlanStatus(plan) = "completed"
    BY <2>2 DEF NodeOutcome, Open
  <2>4. ASSUME PlanStatus(plan) = "completed" PROVE \A i \in Actions : plan[i] \in {COMPLETED, SKIPPED}
    BY <2>4 DEF PlanStatus
  <2>5. PlanTrue(gen, plan, succeeded)
    BY DEF RecoveryInv, TruthInv, SavedTrue
  <2> QED
    BY <2>3, <2>4, <2>5 DEF PlanTrue, Performed
<1>2. Spec => []RecoveryInv
  BY AlwaysRecovery
<1> QED
  BY <1>1, <1>2, PTL

\* A sub-plan that reports to its orchestration more than once, because its
\* task or its actions are delivered again, always reports the same outcome.
THEOREM SettlesWithOneOutcome == Serial /\ ~Hydrates => (Spec => []SettlesConsistently)
<1> SUFFICES ASSUME Serial, ~Hydrates PROVE Spec => []SettlesConsistently
  OBVIOUS
<1>1. RecoveryInv => SettlesConsistently
  BY DEF RecoveryInv, RunFits, SettlesConsistently
<1>2. Spec => []RecoveryInv
  BY AlwaysRecovery
<1> QED
  BY <1>1, <1>2, PTL

\* A request whose idempotency key FeatureProvisioningWorker.handle_pointer has
\* recorded has a verdict, a plan that was given up, or an action on the queue.
THEOREM RequestIsServed == Serial /\ ~Hydrates => (Spec => []PointerServed)
<1> SUFFICES ASSUME Serial, ~Hydrates PROVE Spec => []PointerServed
  OBVIOUS
<1>1. RecoveryInv => PointerServed
  BY DEF RecoveryInv, QueueFits, Served, Seen, PointerServed
<1>2. Spec => []RecoveryInv
  BY AlwaysRecovery
<1> QED
  BY <1>1, <1>2, PTL

\* No event, late or repeated, makes the handlers change the verdict on a run:
\* record_run_started refuses a run that has ended, and what is still reported
\* of its plan is what was reported before.
THEOREM VerdictIsStable == Serial /\ ~Hydrates => (Spec => VerdictStable)
<1> SUFFICES ASSUME Serial, ~Hydrates PROVE Spec => VerdictStable
  OBVIOUS
<1>1. RecoveryInv /\ [Next]_vars => [(run \in RunTerminal) => (run' = run)]_vars
  BY NextRecovery
<1>2. Spec => []RecoveryInv
  BY AlwaysRecovery
<1> QED
  BY <1>1, <1>2, PTL DEF Spec, VerdictStable
=============================================================================
