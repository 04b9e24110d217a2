------------------------- MODULE PlanExecutionProofs -------------------------
(***************************************************************************)
(* Proofs about one plan from its planning to its end, for any number of   *)
(* actions, attempts, replans and crashes, any inline budget and any order *)
(* and number of deliveries.                                               *)
(***************************************************************************)
EXTENDS PlanExecution, SequenceTheorems, TLAPS

-----------------------------------------------------------------------------
(***************************************************************************)
(* What is said in a plan, on the queue and in what an invocation has left *)
(* to do is true of the tool calls that succeeded.                         *)
(***************************************************************************)
Effect ==
    [op : {"save_new_plan"}, planned : {"ready", "empty"}]
    \cup [op : {"reject_plan", "record_pointer_key", "enqueue_replan", "enqueue_next_action", "raise"}]
    \cup [op : {"update_plan"}, plan : Plan]
    \cup [op : {"record_idempotency_key"}, action : Actions]
    \cup [op : {"upsert_agent_action"}, actions : SUBSET Actions, status : ActionStatus]
    \cup [op : {"update_agent_run_status"}, status : RunStatus]
    \cup [op : {"enqueue_action", "execute"}, action : Actions, attempt : Attempts]
    \cup [op : {"settle"}, status : SettleStatus]

Invocation ==
    [msg : Message \cup {Idle.msg}, gen : 0 .. MaxPlans, plan : Plan, used : 0 .. InlineBudget,
     todo : Seq(Effect)]

First(todo, op) == todo # <<>> /\ Head(todo).op = op

\* Every action that plan p of generation g shows as completed was performed;
\* an action is skipped only by a user, through the Prism API.
PlanTrue(g, p, succ) ==
    \A i \in Actions : /\ p[i] = COMPLETED => <<g, i>> \in succ
                       /\ p[i] = SKIPPED => Hydrates

Unblocked(g, i, succ) == \A j \in 1 .. i - 1 : <<g, j>> \in succ

SomePerformed(succ, n) == \E g \in 1 .. n : \A i \in Actions : <<g, i>> \in succ

\* What an invocation can have to do that has no plan yet.
Planless == {"update_agent_run_status", "raise", "record_pointer_key"}

\* The effects an invocation that works on plan g may perform now.
Sound(g, succ, n) ==
    {e \in Effect :
        /\ e.op # "save_new_plan"
        /\ g = 0 => e.op \in Planless
        /\ e.op = "update_plan" => PlanTrue(g, e.plan, succ)
        /\ e.op = "upsert_agent_action" /\ e.status = COMPLETED => \A i \in e.actions : <<g, i>> \in succ
        /\ e.op \in {"enqueue_action", "execute"} => Unblocked(g, e.action, succ)
        /\ e.op = "update_agent_run_status" /\ e.status = "completed" => Hydrates \/ SomePerformed(succ, n)}

\* The effects that may follow the saving of a new plan.
Fresh ==
    {e \in Effect :
        \/ e.op \in {"reject_plan", "record_pointer_key", "settle"}
        \/ e.op = "upsert_agent_action" /\ e.status = PENDING
        \/ e.op = "enqueue_action" /\ e.action = 1
        \/ e.op = "update_agent_run_status" /\ e.status = "failed"}

TodoTrue(g, todo, succ, n) ==
    IF First(todo, "save_new_plan") THEN Tail(todo) \in Seq(Fresh) ELSE todo \in Seq(Sound(g, succ, n))

MessageTrue(m, succ) ==
    \A g \in Gens, i \in Actions, k \in Attempts : m = Act(g, i, k) => Unblocked(g, i, succ)

InvocationTrue(v, succ, n) ==
    /\ v.gen <= n
    /\ MessageTrue(v.msg, succ)
    /\ TodoTrue(v.gen, v.todo, succ, n)
    /\ ~First(v.todo, "raise") => PlanTrue(v.gen, v.plan, succ)

TypeInv == TypeOK /\ inv \in [Workers -> Invocation]

SavedTrue ==
    /\ gen <= plans
    /\ gen = 0 => planned = "none"
    /\ PlanTrue(gen, plan, succeeded)

TruthInv ==
    /\ TypeInv
    /\ SavedTrue
    /\ ExecutedIsTrue
    /\ succeeded \subseteq started
    /\ ExecutesInOrder
    /\ \A m \in pending \cup delivered : MessageTrue(m, succeeded)
    /\ \A w \in Workers : InvocationTrue(inv[w], succeeded, plans)
    /\ ~Hydrates => RunCompletionEarned

-----------------------------------------------------------------------------
(***************************************************************************)
(* Sequences of effects.                                                   *)
(***************************************************************************)
LEMMA SeqOps ==
    ASSUME NEW S
    PROVE  /\ <<>> \in Seq(S)
           /\ \A e \in S : <<e>> \in Seq(S)
           /\ \A s, t \in Seq(S) : s \o t \in Seq(S)
           /\ \A c \in BOOLEAN : \A s \in Seq(S) : If(c, s) \in Seq(S)
           /\ \A s \in Seq(S) : s # <<>> => Head(s) \in S /\ Tail(s) \in Seq(S)
<1>1. \A s, t \in Seq(S) : s \o t \in Seq(S)
  BY ConcatProperties
<1>2. \A s \in Seq(S) : s # <<>> => Head(s) \in S /\ Tail(s) \in Seq(S)
  BY HeadTailProperties
<1> QED
  BY <1>1, <1>2 DEF If

LEMMA SeqMono ==
    ASSUME NEW S, NEW T, S \subseteq T
    PROVE  Seq(S) \subseteq Seq(T)
OBVIOUS

\* The head of a sequence with a first element, and of a concatenation.
LEMMA HeadOfConcat ==
    ASSUME NEW S, NEW s \in Seq(S), NEW t \in Seq(S), s # <<>>
    PROVE  s \o t # <<>> /\ Head(s \o t) = Head(s) /\ Tail(s \o t) = Tail(s) \o t
<1>1. Len(s) \in Nat /\ Len(t) \in Nat /\ Len(s) >= 1
  OBVIOUS
<1>2. /\ s \o t \in Seq(S) /\ Len(s \o t) = Len(s) + Len(t)
      /\ \A i \in 1 .. Len(s) + Len(t) : (s \o t)[i] = IF i <= Len(s) THEN s[i] ELSE t[i - Len(s)]
  BY ConcatProperties
<1>3. s \o t # <<>> /\ Head(s \o t) = Head(s)
  BY <1>1, <1>2
<1>4. /\ Tail(s) \in Seq(S) /\ Len(Tail(s)) = Len(s) - 1
      /\ \A i \in 1 .. Len(s) - 1 : Tail(s)[i] = s[i + 1]
  BY HeadTailProperties
<1>5. /\ Tail(s \o t) \in Seq(S) /\ Len(Tail(s \o t)) = Len(s) + Len(t) - 1
      /\ \A i \in 1 .. Len(s) + Len(t) - 1 : Tail(s \o t)[i] = (s \o t)[i + 1]
  BY <1>1, <1>2, <1>3, HeadTailProperties
<1>6. /\ Tail(s) \o t \in Seq(S) /\ Len(Tail(s) \o t) = Len(s) - 1 + Len(t)
      /\ \A i \in 1 .. Len(s) - 1 + Len(t) :
            (Tail(s) \o t)[i] = IF i <= Len(s) - 1 THEN Tail(s)[i] ELSE t[i - (Len(s) - 1)]
  BY <1>4, ConcatProperties
<1>7. \A i \in 1 .. Len(s) + Len(t) - 1 : Tail(s \o t)[i] = (Tail(s) \o t)[i]
  <2> TAKE i \in 1 .. Len(s) + Len(t) - 1
  <2>1. Tail(s \o t)[i] = IF i + 1 <= Len(s) THEN s[i + 1] ELSE t[i + 1 - Len(s)]
    BY <1>1, <1>2, <1>5
  <2> QED
    BY <1>1, <1>4, <1>6, <2>1
<1> QED
  BY <1>1, <1>3, <1>5, <1>6, <1>7, SeqEqual

\* Every effect the handlers plan is well formed.
LEMMA EffectTypes ==
    /\ \A h \in {"ready", "empty"} : SaveNewPlan(h) \in Effect
    /\ {RejectPlan, RecordPointerKey, EnqueueReplan, EnqueueNext, Raise} \subseteq Effect
    /\ \A p \in Plan : UpdatePlan(p) \in Effect
    /\ \A i \in Actions : RecordKey(i) \in Effect
    /\ \A i \in Actions, s \in ActionStatus : UpsertAction(i, s) \in Effect
    /\ UpsertActions \in Effect
    /\ \A s \in RunStatus : PatchRun(s) \in Effect
    /\ \A i \in Actions, k \in Attempts : EnqueueAct(i, k) \in Effect /\ Execute(i, k) \in Effect
    /\ \A s \in SettleStatus : Settle(s) \in Effect
<1>1. /\ \A h \in {"ready", "empty"} : SaveNewPlan(h) \in Effect
      /\ {RejectPlan, RecordPointerKey, EnqueueReplan, EnqueueNext, Raise} \subseteq Effect
  BY DEF Effect, SaveNewPlan, RejectPlan, RecordPointerKey, EnqueueReplan, EnqueueNext, Raise
<1>2. /\ \A p \in Plan : UpdatePlan(p) \in Effect
      /\ \A i \in Actions : RecordKey(i) \in Effect
  BY DEF Effect, UpdatePlan, RecordKey
<1>3. /\ \A i \in Actions, s \in ActionStatus : UpsertAction(i, s) \in Effect
      /\ UpsertActions \in Effect
  BY DEF Effect, UpsertAction, UpsertActions, ActionStatus
<1>4. /\ \A s \in RunStatus : PatchRun(s) \in Effect
      /\ \A s \in SettleStatus : Settle(s) \in Effect
  BY DEF Effect, PatchRun, Settle
<1>5. \A i \in Actions, k \in Attempts : EnqueueAct(i, k) \in Effect /\ Execute(i, k) \in Effect
  BY DEF Effect, EnqueueAct, Execute
<1> QED
  BY <1>1, <1>2, <1>3, <1>4, <1>5

\* The fields of an effect by its op.
LEMMA EffectFields ==
    ASSUME NEW e \in Effect
    PROVE  /\ e.op = "save_new_plan" => e.planned \in {"ready", "empty"}
           /\ e.op = "update_plan" => e.plan \in Plan
           /\ e.op = "record_idempotency_key" => e.action \in Actions
           /\ e.op = "upsert_agent_action" => e.actions \in SUBSET Actions /\ e.status \in ActionStatus
           /\ e.op = "update_agent_run_status" => e.status \in RunStatus
           /\ e.op \in {"enqueue_action", "execute"} => e.action \in Actions /\ e.attempt \in Attempts
           /\ e.op = "settle" => e.status \in SettleStatus
BY DEF Effect

\* What was sound stays so: tool calls that succeeded stay succeeded.
LEMMA SoundMono ==
    ASSUME NEW g, NEW s1, NEW s2, s1 \subseteq s2, NEW n1 \in Nat, NEW n2 \in Nat, n1 <= n2
    PROVE  Sound(g, s1, n1) \subseteq Sound(g, s2, n2)
<1>1. SomePerformed(s1, n1) => SomePerformed(s2, n2)
  BY DEF SomePerformed
<1>2. \A p : PlanTrue(g, p, s1) => PlanTrue(g, p, s2)
  BY DEF PlanTrue
<1>3. \A i : Unblocked(g, i, s1) => Unblocked(g, i, s2)
  BY DEF Unblocked
<1> QED
  BY <1>1, <1>2, <1>3 DEF Sound

LEMMA FreshSound ==
    ASSUME NEW g \in Gens, NEW succ, NEW n
    PROVE  Fresh \subseteq Sound(g, succ, n)
<1>1. g # 0 /\ Unblocked(g, 1, succ) /\ PENDING # COMPLETED
  BY PlanExecutionAssumption DEF Unblocked, Gens, PENDING, COMPLETED
<1> QED
  BY <1>1 DEF Sound, Fresh

\* Who is true stays so.
LEMMA InvocationMono ==
    ASSUME NEW v, NEW s1, NEW s2, s1 \subseteq s2, NEW n1 \in Nat, NEW n2 \in Nat, n1 <= n2,
           v.gen \in Nat, InvocationTrue(v, s1, n1)
    PROVE  InvocationTrue(v, s2, n2)
<1>1. Seq(Sound(v.gen, s1, n1)) \subseteq Seq(Sound(v.gen, s2, n2))
  BY SoundMono, SeqMono
<1>2. PlanTrue(v.gen, v.plan, s1) => PlanTrue(v.gen, v.plan, s2)
  BY DEF PlanTrue
<1>3. MessageTrue(v.msg, s1) => MessageTrue(v.msg, s2)
  BY DEF MessageTrue, Unblocked
<1> QED
  BY <1>1, <1>2, <1>3 DEF InvocationTrue, TodoTrue

-----------------------------------------------------------------------------
(***************************************************************************)
(* What the handlers plan is sound.                                        *)
(***************************************************************************)
LEMMA PlanFacts ==
    /\ NewPlan \in Plan
    /\ \A p \in Plan, i \in Actions, s \in ActionStatus :
          ReplaceAction(p, i, s) \in Plan /\ ReplaceAction(p, i, s)[i] = s
    /\ \A g, succ : PlanTrue(g, NewPlan, succ)
    /\ \A g, succ : \A p \in Plan, i \in Actions, s \in ActionStatus \ {COMPLETED, SKIPPED} :
          PlanTrue(g, p, succ) => PlanTrue(g, ReplaceAction(p, i, s), succ)
    /\ \A p : NextPendingAction(p) \subseteq Actions
    /\ \A p : RunStatusOf(p) \in RunStatus
<1>1. NewPlan \in Plan /\ \A g, succ : PlanTrue(g, NewPlan, succ)
  BY DEF NewPlan, Plan, ActionStatus, PlanTrue, PENDING, COMPLETED, SKIPPED
<1>2. /\ \A p \in Plan, i \in Actions, s \in ActionStatus :
            ReplaceAction(p, i, s) \in Plan /\ ReplaceAction(p, i, s)[i] = s
  BY DEF Plan, ReplaceAction
<1>3. \A g, succ : \A p \in Plan, i \in Actions, s \in ActionStatus \ {COMPLETED, SKIPPED} :
          PlanTrue(g, p, succ) => PlanTrue(g, ReplaceAction(p, i, s), succ)
  BY DEF Plan, ReplaceAction, PlanTrue
<1>4. \A p : NextPendingAction(p) \subseteq Actions
  BY DEF NextPendingAction
<1>5. \A p : RunStatusOf(p) \in RunStatus
  BY DEF RunStatusOf, RunStatus
<1> QED
  BY <1>1, <1>2, <1>3, <1>4, <1>5

\* The next action of a true plan follows a performed one, and so all of them.
LEMMA NextUnblocked ==
    ASSUME TypeOK, ExecutesInOrder, succeeded \subseteq started,
           NEW g, NEW p, PlanTrue(g, p, succeeded), NEW i \in NextPendingAction(p)
    PROVE  Unblocked(g, i, succeeded)
<1>1. i \in Actions /\ DependsOn(i) \subseteq CompletedActionIds(p)
  BY DEF NextPendingAction
<1>2. CASE i = 1
  BY <1>2 DEF Unblocked
<1>3. CASE i # 1
  <2>1. i - 1 \in Actions /\ p[i - 1] = COMPLETED
    BY <1>1, <1>3, NumActionsAssumption DEF DependsOn, CompletedActionIds, Actions
  <2>2. <<g, i - 1>> \in started /\ <<g, i - 1>> \in succeeded
    BY <2>1 DEF PlanTrue
  <2>3. \A j \in 1 .. (i - 1) - 1 : <<g, j>> \in succeeded
    BY <2>2 DEF ExecutesInOrder
  <2> QED
    BY <1>1, <2>2, <2>3, NumActionsAssumption DEF Unblocked, Actions
<1> QED
  BY <1>2, <1>3

\* A plan that counts as completed was performed, unless users skip actions.
LEMMA CompletedPlan ==
    ASSUME NEW g \in Gens, NEW n \in Nat, g <= n, NEW succ, NEW p, PlanTrue(g, p, succ),
           PlanStatus(p) = "completed", ~Hydrates
    PROVE  SomePerformed(succ, n)
<1>1. \A i \in Actions : p[i] \in {COMPLETED, SKIPPED}
  BY DEF PlanStatus
<1>2. \A i \in Actions : <<g, i>> \in succ
  BY <1>1 DEF PlanTrue
<1> QED
  BY <1>2, PlanExecutionAssumption DEF SomePerformed, Gens

LEMMA RecordActionStateSound ==
    ASSUME TypeOK, NEW g \in Gens, NEW n \in Nat, g <= n, NEW succ, NEW p \in Plan, PlanTrue(g, p, succ),
           NEW i \in Actions
    PROVE  RecordActionState(p, i) \in Seq(Sound(g, succ, n))
<1> DEFINE S == Sound(g, succ, n)
<1>0. g # 0
  BY PlanExecutionAssumption DEF Gens
<1>1. UpsertAction(i, p[i]) \in S
  <2>1. UpsertAction(i, p[i]) \in Effect /\ p[i] = COMPLETED => <<g, i>> \in succ
    BY EffectTypes DEF PlanTrue, Plan
  <2>2. UpsertAction(i, p[i]) \in Effect
    BY EffectTypes DEF Plan
  <2> QED
    BY <1>0, <2>1, <2>2 DEF Sound, UpsertAction
<1>2. PatchRun(RunStatusOf(p)) \in S
  <2>1. PatchRun(RunStatusOf(p)) \in Effect
    BY PlanFacts, EffectTypes
  <2>2. RunStatusOf(p) = "completed" => Hydrates \/ SomePerformed(succ, n)
    BY CompletedPlan, PlanExecutionAssumption DEF RunStatusOf
  <2> QED
    BY <1>0, <2>1, <2>2 DEF Sound, PatchRun
<1> HIDE DEF S
<1>3. If(Hydrates, <<UpsertAction(i, p[i])>>) \in Seq(S)
  BY <1>1, SeqOps DEF If
<1>4. If(~isSubplan /\ RunStatusOf(p) # "running", <<PatchRun(RunStatusOf(p))>>) \in Seq(S)
  BY <1>2, SeqOps DEF If
<1> QED
  BY <1>3, <1>4, SeqOps DEF RecordActionState, S

\* The effects that say nothing about tool calls.
LEMMA PlainEffects ==
    ASSUME NEW g, NEW succ, NEW n
    PROVE  /\ {Raise, RecordPointerKey} \subseteq Sound(g, succ, n)
           /\ \A s \in RunStatus \ {"completed"} : PatchRun(s) \in Sound(g, succ, n)
           /\ g # 0 => /\ {RejectPlan, EnqueueReplan, EnqueueNext} \subseteq Sound(g, succ, n)
                       /\ \A i \in Actions : RecordKey(i) \in Sound(g, succ, n)
                       /\ \A s \in SettleStatus : Settle(s) \in Sound(g, succ, n)
                       /\ \A p \in Plan : PlanTrue(g, p, succ) => UpdatePlan(p) \in Sound(g, succ, n)
                       /\ \A i \in Actions, k \in Attempts : Unblocked(g, i, succ) =>
                             EnqueueAct(i, k) \in Sound(g, succ, n) /\ Execute(i, k) \in Sound(g, succ, n)
<1> USE EffectTypes DEF Sound, Planless
<1>1. {Raise, RecordPointerKey} \subseteq Sound(g, succ, n)
  BY DEF Raise, RecordPointerKey
<1>2. \A s \in RunStatus \ {"completed"} : PatchRun(s) \in Sound(g, succ, n)
  BY DEF PatchRun
<1>3. ASSUME g # 0 PROVE {RejectPlan, EnqueueReplan, EnqueueNext} \subseteq Sound(g, succ, n)
  BY <1>3 DEF RejectPlan, EnqueueReplan, EnqueueNext
<1>4. ASSUME g # 0 PROVE \A i \in Actions : RecordKey(i) \in Sound(g, succ, n)
  BY <1>4 DEF RecordKey
<1>5. ASSUME g # 0 PROVE \A s \in SettleStatus : Settle(s) \in Sound(g, succ, n)
  BY <1>5 DEF Settle
<1>6. ASSUME g # 0, NEW p \in Plan, PlanTrue(g, p, succ) PROVE UpdatePlan(p) \in Sound(g, succ, n)
  BY <1>6 DEF UpdatePlan
<1>7. ASSUME g # 0, NEW i \in Actions, NEW k \in Attempts, Unblocked(g, i, succ)
      PROVE  EnqueueAct(i, k) \in Sound(g, succ, n) /\ Execute(i, k) \in Sound(g, succ, n)
  BY <1>7 DEF EnqueueAct, Execute
<1> QED
  BY <1>1, <1>2, <1>3, <1>4, <1>5, <1>6, <1>7

\* How an action is saved with a new status: the plan, the API and the run.
LEMMA SaveActionSound ==
    ASSUME TypeOK, NEW g \in Gens, NEW n \in Nat, g <= n, NEW succ, NEW p \in Plan, NEW i \in Actions,
           NEW s \in ActionStatus, PlanTrue(g, ReplaceAction(p, i, s), succ)
    PROVE  /\ g # 0
           /\ UpdatePlan(ReplaceAction(p, i, s)) \in Sound(g, succ, n)
           /\ <<UpdatePlan(ReplaceAction(p, i, s))>> \o RecordActionState(ReplaceAction(p, i, s), i)
                 \in Seq(Sound(g, succ, n))
           /\ RecordActionState(ReplaceAction(p, i, s), i) \in Seq(Sound(g, succ, n))
<1> DEFINE q == ReplaceAction(p, i, s)
           S == Sound(g, succ, n)
<1>0. g # 0
  BY PlanExecutionAssumption DEF Gens
<1>1. q \in Plan
  BY PlanFacts
<1> HIDE DEF q
<1>2. UpdatePlan(q) \in S
  BY <1>0, <1>1, PlainEffects DEF q
<1>3. RecordActionState(q, i) \in Seq(S)
  BY <1>1, RecordActionStateSound DEF q
<1> HIDE DEF S
<1>4. <<UpdatePlan(q)>> \o RecordActionState(q, i) \in Seq(S)
  BY <1>2, <1>3, SeqOps
<1> QED
  BY <1>0, <1>2, <1>3, <1>4 DEF q, S

LEMMA FailActionSound ==
    ASSUME TypeOK, NEW g \in Gens, NEW n \in Nat, g <= n, NEW succ, NEW p \in Plan, NEW i \in Actions,
           PlanTrue(g, p, succ)
    PROVE  /\ FailAction(p, i) \in Seq(Sound(g, succ, n))
           /\ StaleAction(p, i) \in Seq(Sound(g, succ, n))
           /\ SuggestAction(p, i) \in Seq(Sound(g, succ, n))
           /\ ToolRaised(p, i) \in Seq(Sound(g, succ, n))
<1> DEFINE S == Sound(g, succ, n)
           Save(q) == <<UpdatePlan(q)>> \o RecordActionState(q, i)
<1>1. \A s \in {FAILED, STALE, REQUIRES_APPROVAL} : Save(ReplaceAction(p, i, s)) \in Seq(S)
  <2> TAKE s \in {FAILED, STALE, REQUIRES_APPROVAL}
  <2>1. s \in ActionStatus \ {COMPLETED, SKIPPED}
    BY DEF ActionStatus, FAILED, STALE, REQUIRES_APPROVAL, COMPLETED, SKIPPED
  <2>2. PlanTrue(g, ReplaceAction(p, i, s), succ)
    BY <2>1, PlanFacts
  <2> QED
    BY <2>1, <2>2, SaveActionSound
<1>2. /\ {Raise, EnqueueReplan, RecordKey(i), Settle("failed"), Settle("waiting_for_approval")} \subseteq S
  <2>1. g # 0
    BY PlanExecutionAssumption DEF Gens
  <2> QED
    BY <2>1, PlainEffects DEF SettleStatus
<1> HIDE DEF S
<1>3. \A e \in {Raise, EnqueueReplan, RecordKey(i), Settle("failed"), Settle("waiting_for_approval")} :
         <<e>> \in Seq(S)
  BY <1>2, SeqOps
<1>4. SettleSubplan("failed") \in Seq(S) /\ SettleSubplan("waiting_for_approval") \in Seq(S)
  BY <1>3, SeqOps DEF SettleSubplan, If
<1>5. FailAction(p, i) \in Seq(S)
  <2>1. FailAction(p, i) = Save(ReplaceAction(p, i, FAILED)) \o SettleSubplan("failed")
    BY DEF FailAction
  <2> HIDE DEF Save
  <2> QED
    BY <1>1, <1>4, <2>1, SeqOps
<1>6. StaleAction(p, i) \in Seq(S)
  <2> DEFINE last == IF isSubplan THEN <<Settle("failed")>> ELSE <<EnqueueReplan>>
  <2>1. StaleAction(p, i) = Save(ReplaceAction(p, i, STALE)) \o last
    BY DEF StaleAction
  <2>2. last \in Seq(S)
    BY <1>3
  <2> HIDE DEF Save, last
  <2> QED
    BY <1>1, <2>1, <2>2, SeqOps
<1>7. SuggestAction(p, i) \in Seq(S)
  <2> DEFINE save == Save(ReplaceAction(p, i, REQUIRES_APPROVAL))
  <2>1. SuggestAction(p, i) = (save \o <<RecordKey(i)>>) \o SettleSubplan("waiting_for_approval")
    BY DEF SuggestAction
  <2>2. save \in Seq(S) /\ <<RecordKey(i)>> \in Seq(S)
    BY <1>1, <1>3
  <2> HIDE DEF save
  <2>3. save \o <<RecordKey(i)>> \in Seq(S)
    BY <2>2, SeqOps
  <2> QED
    BY <1>4, <2>1, <2>3, SeqOps
<1>8. ToolRaised(p, i) \in Seq(S)
  BY <1>3, <1>5, SeqOps DEF ToolRaised, If
<1> QED
  BY <1>5, <1>6, <1>7, <1>8 DEF S

LEMMA StartActionSound ==
    ASSUME TypeOK, NEW g \in Gens, NEW n \in Nat, g <= n, NEW succ, NEW p \in Plan, NEW i \in Actions,
           NEW k \in Attempts, PlanTrue(g, p, succ), Unblocked(g, i, succ)
    PROVE  /\ StartAction(p, i, k) \in Seq(Sound(g, succ, n))
           /\ ToolFailed(p, i, k) \in Seq(Sound(g, succ, n))
<1> DEFINE S == Sound(g, succ, n)
           q == ReplaceAction(p, i, RUNNING)
           r == ReplaceAction(p, i, PENDING)
<1>1. \A s \in {RUNNING, PENDING} : /\ g # 0 /\ UpdatePlan(ReplaceAction(p, i, s)) \in S
                                    /\ RecordActionState(ReplaceAction(p, i, s), i) \in Seq(S)
  <2> TAKE s \in {RUNNING, PENDING}
  <2>1. s \in ActionStatus \ {COMPLETED, SKIPPED}
    BY DEF ActionStatus, RUNNING, PENDING, COMPLETED, SKIPPED
  <2>2. PlanTrue(g, ReplaceAction(p, i, s), succ)
    BY <2>1, PlanFacts
  <2> QED
    BY <2>1, <2>2, SaveActionSound
<1>2. Execute(i, k) \in S
  BY <1>1, PlainEffects
<1>3. k + 1 < MaxAttempts => EnqueueAct(i, k + 1) \in S
  <2>1. k + 1 < MaxAttempts => k + 1 \in Attempts
    BY PlanExecutionAssumption DEF Attempts
  <2> QED
    BY <1>1, <2>1, PlainEffects
<1>4. UpdatePlan(q) \in S /\ UpdatePlan(r) \in S /\ RecordActionState(q, i) \in Seq(S)
      /\ RecordActionState(r, i) \in Seq(S)
  BY <1>1
<1> HIDE DEF S, q, r
<1>5. StartAction(p, i, k) \in Seq(S)
  <2>1. <<UpdatePlan(q), Execute(i, k)>> \in Seq(S)
    BY <1>2, <1>4
  <2> QED
    BY <1>4, <2>1, SeqOps DEF StartAction, q
<1>6. ASSUME k + 1 < MaxAttempts PROVE RetryAction(p, i, k) \in Seq(S)
  <2>1. <<UpdatePlan(r), EnqueueAct(i, k + 1)>> \in Seq(S)
    BY <1>3, <1>4, <1>6
  <2> QED
    BY <1>4, <2>1, SeqOps DEF RetryAction, r
<1>7. FailAction(p, i) \in Seq(S)
  BY FailActionSound DEF S
<1> QED
  BY <1>5, <1>6, <1>7 DEF ToolFailed, S

LEMMA ToolSucceededSound ==
    ASSUME TypeOK, NEW g \in Gens, NEW n \in Nat, g <= n, NEW succ, NEW p \in Plan, NEW i \in Actions,
           PlanTrue(g, p, succ), <<g, i>> \in succ
    PROVE  ToolSucceeded(p, i) \in Seq(Sound(g, succ, n))
<1> DEFINE S == Sound(g, succ, n)
           q == ReplaceAction(p, i, COMPLETED)
<1>1. COMPLETED \in ActionStatus /\ COMPLETED # SKIPPED
  BY DEF ActionStatus, COMPLETED, SKIPPED
<1>2. PlanTrue(g, q, succ)
  BY <1>1 DEF PlanTrue, Plan, ReplaceAction
<1>3. g # 0 /\ <<UpdatePlan(q)>> \o RecordActionState(q, i) \in Seq(S)
  BY <1>1, <1>2, SaveActionSound
<1>4. RecordKey(i) \in S /\ EnqueueNext \in S
  BY <1>3, PlainEffects
<1> HIDE DEF S, q
<1>5. <<RecordKey(i), EnqueueNext>> \in Seq(S)
  BY <1>4
<1> QED
  BY <1>3, <1>5, SeqOps DEF ToolSucceeded, q, S

LEMMA ActionEffectsSound ==
    ASSUME TypeOK, NEW g \in Gens, NEW n \in Nat, g <= n, NEW succ, NEW p \in Plan, NEW i \in Actions,
           NEW k \in Attempts, PlanTrue(g, p, succ), Unblocked(g, i, succ),
           NEW todo \in ActionEffects(g, p, i, k)
    PROVE  todo \in Seq(Sound(g, succ, n))
<1> DEFINE S == Sound(g, succ, n)
<1>1. CASE todo = <<>>
  BY <1>1, SeqOps
<1>2. CASE todo = Continue
  <2>1. EnqueueNext \in S /\ Settle("completed") \in S
    <3>1. g # 0
      BY PlanExecutionAssumption DEF Gens
    <3> QED
      BY <3>1, PlainEffects DEF SettleStatus
  <2>2. PlanEnded => PatchRun("completed") \in S
    <3>1. PatchRun("completed") \in Effect
      BY EffectTypes DEF RunStatus
    <3>2. g # 0
      BY PlanExecutionAssumption DEF Gens
    <3> QED
      BY <3>1, <3>2 DEF PlanEnded, Sound, PatchRun
  <2> HIDE DEF S
  <2>3. PlanEnded => PlanCompleted \in Seq(S)
    BY <2>1, <2>2, SeqOps DEF PlanCompleted
  <2>4. Continue \in Seq(S)
    BY <2>1, <2>3, SeqOps DEF Continue, If
  <2> QED
    BY <1>2, <2>4 DEF S
<1>3. CASE todo \in ValidatedEffects(p, i, k)
  BY <1>3, FailActionSound, StartActionSound DEF ValidatedEffects
<1> QED
  BY <1>1, <1>2, <1>3 DEF ActionEffects

\* A new plan: what follows its saving is true of any plan.
LEMMA PlanningTrue ==
    ASSUME NEW g, NEW succ, NEW n, NEW todo \in Planning
    PROVE  /\ todo \in Seq(Effect) /\ todo # <<>>
           /\ TodoTrue(g, todo, succ, n)
           /\ First(todo, "raise") = FALSE
           /\ TodoTrue(g, todo \o <<RecordPointerKey>>, succ, n)
           /\ ~First(todo \o <<RecordPointerKey>>, "raise")
           /\ todo \o <<RecordPointerKey>> \in Seq(Effect)
<1> DEFINE F == Fresh
           S == Sound(g, succ, n)
           R == RecordPointerKey
<1>1. /\ {RecordPointerKey, RejectPlan, UpsertActions, PatchRun("failed"), Settle("completed")} \subseteq F
      /\ EnqueueAct(1, 0) \in F
  <2>1. 1 \in Actions /\ 0 \in Attempts /\ "failed" \in RunStatus /\ "completed" \in SettleStatus
    BY NumActionsAssumption, PlanExecutionAssumption DEF Actions, Attempts, RunStatus, SettleStatus
  <2> QED
    BY <2>1, EffectTypes
       DEF Fresh, RecordPointerKey, RejectPlan, UpsertActions, PatchRun, Settle, EnqueueAct
<1>2. F \subseteq Effect /\ S \subseteq Effect
  BY DEF Fresh, Sound
<1>3. ASSUME NEW how \in {"ready", "empty"}, NEW rest \in Seq(F), NEW t, t = <<SaveNewPlan(how)>> \o rest
      PROVE  t \in Seq(Effect) /\ t # <<>> /\ TodoTrue(g, t, succ, n) /\ First(t, "raise") = FALSE
  <2> DEFINE e == SaveNewPlan(how)
  <2>1. e \in Effect /\ e.op = "save_new_plan"
    BY EffectTypes DEF SaveNewPlan
  <2> HIDE DEF e, F
  <2>2. rest \in Seq(Effect) /\ <<e>> \in Seq(Effect)
    BY <1>2, <2>1, SeqMono
  <2>3. t \in Seq(Effect) /\ t # <<>> /\ Head(t) = Head(<<e>>) /\ Tail(t) = Tail(<<e>>) \o rest
    BY <1>3, <2>2, HeadOfConcat, SeqOps DEF e
  <2>4. Head(t) = e /\ Tail(t) = rest
    BY <2>2, <2>3
  <2> QED
    BY <2>1, <2>3, <2>4 DEF TodoTrue, First, F
<1>4. ASSUME NEW how \in {"ready", "empty"}, NEW rest \in Seq(F), todo = <<SaveNewPlan(how)>> \o rest
      PROVE  /\ todo \in Seq(Effect) /\ todo # <<>>
             /\ TodoTrue(g, todo, succ, n)
             /\ First(todo, "raise") = FALSE
             /\ TodoTrue(g, todo \o <<R>>, succ, n) /\ ~First(todo \o <<R>>, "raise")
             /\ todo \o <<R>> \in Seq(Effect)
  <2>1. rest \o <<R>> \in Seq(F)
    BY <1>1, SeqOps
  <2>2. <<SaveNewPlan(how)>> \in Seq(Effect) /\ rest \in Seq(Effect) /\ <<R>> \in Seq(Effect)
    BY <1>1, <1>2, EffectTypes, SeqMono
  <2>3. todo \o <<R>> = <<SaveNewPlan(how)>> \o (rest \o <<R>>)
    BY <1>4, <2>2, ConcatAssociative
  <2> QED
    BY <1>3, <1>4, <2>1, <2>3
<1>5. CASE todo = <<SaveNewPlan("ready")>> \o RecordPlanCreated \o <<EnqueueAct(1, 0)>>
  <2> DEFINE rest == RecordPlanCreated \o <<EnqueueAct(1, 0)>>
  <2>1. RecordPlanCreated \in Seq(F) /\ <<EnqueueAct(1, 0)>> \in Seq(F)
    BY <1>1, SeqOps DEF RecordPlanCreated, If
  <2>2. rest \in Seq(F)
    BY <2>1, SeqOps
  <2>3. todo = <<SaveNewPlan("ready")>> \o rest
    <3>1. /\ <<SaveNewPlan("ready")>> \in Seq(Effect) /\ RecordPlanCreated \in Seq(Effect)
          /\ <<EnqueueAct(1, 0)>> \in Seq(Effect)
      BY <1>2, <2>1, EffectTypes, SeqMono
    <3> QED
      BY <1>5, <3>1, ConcatAssociative
  <2> HIDE DEF rest, F
  <2> QED
    BY <1>4, <2>2, <2>3
<1>6. CASE todo = <<SaveNewPlan("empty")>> \o EmptyPlan
  <2>1. EmptyPlan \in Seq(F)
    BY <1>1 DEF EmptyPlan
  <2> QED
    BY <1>4, <1>6, <2>1
<1>7. CASE todo = <<PatchRun("failed"), Raise>>
  <2>1. PatchRun("failed") \in S /\ Raise \in S /\ R \in S /\ PatchRun("failed").op = "update_agent_run_status"
    BY PlainEffects DEF PatchRun, RunStatus
  <2> HIDE DEF S
  <2>2. todo \in Seq(S) /\ todo # <<>> /\ Head(todo) = PatchRun("failed") /\ <<R>> \in Seq(S)
    BY <1>7, <2>1
  <2>3. todo \o <<R>> \in Seq(S) /\ Head(todo \o <<R>>) = PatchRun("failed")
    BY <2>2, SeqOps, HeadOfConcat
  <2>4. todo \in Seq(Effect) /\ todo \o <<R>> \in Seq(Effect)
    BY <1>2, <2>2, <2>3, SeqMono
  <2> QED
    BY <2>1, <2>2, <2>3, <2>4 DEF TodoTrue, First, S
<1> QED
  BY <1>5, <1>6, <1>7 DEF Planning

\* Reading the plan makes nothing up.
LEMMA GetPlanTrue ==
    ASSUME TypeOK, SavedTrue, ExecutedIsTrue
    PROVE  GetPlan \in Plan /\ PlanTrue(gen, GetPlan, succeeded)
<1>1. CASE ~(Hydrates /\ gen > 0)
  BY <1>1 DEF GetPlan, TypeOK, SavedTrue
<1>2. CASE Hydrates /\ gen > 0
  <2> DEFINE Read(i) == ActionStatusFromRecord(i, api[<<gen, i>>], plan[i])
  <2>1. gen \in Gens
    BY <1>2 DEF TypeOK, Gens
  <2>2. \A i \in Actions : <<gen, i>> \in ActionIds /\ api[<<gen, i>>] \in ApiStatus /\ plan[i] \in ActionStatus
    BY <2>1 DEF TypeOK, ActionIds, Plan
  <2>3. ASSUME NEW i \in Actions
        PROVE  Read(i) \in ActionStatus /\ (Read(i) = COMPLETED => <<gen, i>> \in succeeded)
    <3>1. /\ api[<<gen, i>>] = "executed" => <<gen, i>> \in succeeded
          /\ plan[i] = COMPLETED => <<gen, i>> \in succeeded
      BY <2>2 DEF ExecutedIsTrue, SavedTrue, PlanTrue
    <3>2. Read(i) \in ActionStatus
      BY <2>2 DEF ActionStatusFromRecord, ApiStatus, ActionStatus
    <3>3. Read(i) = COMPLETED => api[<<gen, i>>] = "executed" \/ plan[i] = COMPLETED
      BY <2>2 DEF ActionStatusFromRecord, ApiStatus, COMPLETED, REQUIRES_APPROVAL, PENDING, FAILED, SKIPPED
    <3> QED
      BY <3>1, <3>2, <3>3
  <2>4. GetPlan = [i \in Actions |-> Read(i)]
    BY <1>2 DEF GetPlan
  <2> HIDE DEF Read
  <2> QED
    BY <1>2, <2>3, <2>4 DEF Plan, PlanTrue
<1> QED
  BY <1>1, <1>2

\* A plan that is resumed.
LEMMA ResumeSound ==
    ASSUME TruthInv
    PROVE  Resume \in Seq(Sound(gen, succeeded, plans)) /\ ~First(Resume, "raise")
<1> DEFINE S == Sound(gen, succeeded, plans)
<1>1. CASE planned = "none" \/ Resume = <<>>
  <2>1. Resume = <<>>
    BY <1>1 DEF Resume
  <2> QED
    BY <2>1, SeqOps DEF First
<1>2. CASE planned # "none" /\ Resume # <<>>
  <2>1. gen # 0 /\ gen \in Gens
    BY <1>2 DEF TruthInv, SavedTrue, TypeInv, TypeOK, Gens
  <2>2. /\ \A s \in SettleStatus : Settle(s) \in S
        /\ RejectPlan \in S /\ PatchRun("failed") \in S
    BY <2>1, PlainEffects DEF RunStatus
  <2>3. PlanTrue(gen, GetPlan, succeeded)
    BY GetPlanTrue DEF TruthInv, TypeInv
  <2>4. \A i \in NextPendingAction(GetPlan) : EnqueueAct(i, 0) \in S
    <3>1. 0 \in Attempts
      BY PlanExecutionAssumption DEF Attempts
    <3>2. \A i \in NextPendingAction(GetPlan) : i \in Actions /\ Unblocked(gen, i, succeeded)
      BY <2>3, NextUnblocked, PlanFacts DEF TruthInv, TypeInv
    <3> QED
      BY <2>1, <3>1, <3>2, PlainEffects
  <2> HIDE DEF S
  <2>5. \A s \in SettleStatus : SettleSubplan(s) \in Seq(S) /\ ~First(SettleSubplan(s), "raise")
    <3> TAKE s \in SettleStatus
    <3>1. <<Settle(s)>> \in Seq(S) /\ Settle(s).op = "settle"
      BY <2>2, SeqOps DEF Settle
    <3>2. SettleSubplan(s) = <<Settle(s)>> \/ SettleSubplan(s) = <<>>
      BY DEF SettleSubplan, If
    <3>3. ~First(<<Settle(s)>>, "raise") /\ ~First(<<>>, "raise") /\ <<>> \in Seq(S)
      BY <3>1, SeqOps DEF First
    <3> QED
      BY <3>1, <3>2, <3>3
  <2>6. <<RejectPlan, PatchRun("failed")>> \in Seq(S) /\ ~First(<<RejectPlan, PatchRun("failed")>>, "raise")
    BY <2>2 DEF First, RejectPlan
  <2>7. EmptyPlan \in Seq(S) /\ ~First(EmptyPlan, "raise")
    BY <2>2, <2>6 DEF EmptyPlan, First, Settle, SettleStatus
  <2>8. ResumeReady \in Seq(S) /\ ~First(ResumeReady, "raise")
    <3>1. CASE GetPlanStatus = "running" /\ NextPendingAction(GetPlan) # {}
      <4> DEFINE i == CHOOSE i \in NextPendingAction(GetPlan) : TRUE
      <4>1. i \in NextPendingAction(GetPlan) /\ ResumeReady = <<EnqueueAct(i, 0)>>
        BY <3>1 DEF ResumeReady
      <4>2. EnqueueAct(i, 0).op = "enqueue_action"
        BY DEF EnqueueAct
      <4> HIDE DEF i
      <4> QED
        BY <2>4, <4>1, <4>2, SeqOps DEF First
    <3>2. CASE ~(GetPlanStatus = "running" /\ NextPendingAction(GetPlan) # {})
      <4> DEFINE last == If(~isSubplan, <<RejectPlan, PatchRun("failed")>>)
      <4>1. last \in Seq(S) /\ ~First(last, "raise")
        BY <2>6, SeqOps DEF If, First
      <4>2. \/ ResumeReady = last
            \/ \E s \in SettleStatus : ResumeReady = SettleSubplan(s)
        BY <3>2 DEF ResumeReady, SettleStatus
      <4> HIDE DEF last
      <4> QED
        BY <2>5, <4>1, <4>2
    <3> QED
      BY <3>1, <3>2
  <2> QED
    BY <1>2, <2>7, <2>8 DEF Resume, S
<1> QED
  BY <1>1, <1>2

\* What an invocation that was handed a message has to do is true of the plan
\* it has read.
Ready(todo) ==
    /\ todo \in Seq(Effect)
    /\ TodoTrue(gen, todo, succeeded, plans)
    /\ ~First(todo, "raise")

LEMMA SoundIsTrue ==
    ASSUME NEW g, NEW succ, NEW n, NEW todo \in Seq(Sound(g, succ, n))
    PROVE  todo \in Seq(Effect) /\ TodoTrue(g, todo, succ, n) /\ ~First(todo, "save_new_plan")
<1>1. todo \in Seq(Effect)
  <2>1. Sound(g, succ, n) \subseteq Effect
    BY DEF Sound
  <2> QED
    BY <2>1, SeqMono
<1>2. ~First(todo, "save_new_plan")
  <2>1. todo # <<>> => Head(todo) \in Sound(g, succ, n)
    BY SeqOps
  <2> QED
    BY <2>1 DEF First, Sound
<1> QED
  BY <1>1, <1>2 DEF TodoTrue

LEMMA RequestTrue ==
    ASSUME TruthInv
    PROVE  /\ \A todo \in RequestEffects : Ready(todo)
           /\ \A todo \in ReplanEffects : Ready(todo)
<1> DEFINE S == Sound(gen, succeeded, plans)
           R == RecordPointerKey
<1>1. \A todo \in Planning : Ready(todo) /\ Ready(todo \o <<R>>)
  BY PlanningTrue DEF Ready
<1>2. R \in S /\ R.op = "record_pointer_key"
  BY PlainEffects DEF RecordPointerKey
<1> HIDE DEF S, R
<1>3. \A todo \in Seq(S) : ~First(todo, "raise") => Ready(todo) /\ Ready(todo \o <<R>>)
  <2> TAKE todo \in Seq(S)
  <2>1. <<R>> \in Seq(S) /\ todo \o <<R>> \in Seq(S)
    BY <1>2, SeqOps
  <2>2. ~First(todo, "raise") => ~First(todo \o <<R>>, "raise")
    <3>1. CASE todo = <<>>
      <4>1. todo \o <<R>> = <<R>>
        BY <2>1, <3>1, ConcatEmptySeq
      <4> QED
        BY <1>2, <4>1 DEF First
    <3>2. CASE todo # <<>>
      BY <2>1, <3>2, HeadOfConcat DEF First
    <3> QED
      BY <3>1, <3>2
  <2> QED
    BY <2>1, <2>2, SoundIsTrue DEF Ready, S
<1>4. Ready(Resume) /\ Ready(Resume \o <<R>>) /\ Ready(<<>>) /\ Ready(<<>> \o <<R>>)
  BY <1>3, ResumeSound, SeqOps DEF First, S
<1>5. \A todo \in DriveEffects : Ready(todo) /\ Ready(todo \o <<R>>)
  BY <1>1, <1>4 DEF DriveEffects
<1>6. \A todo \in RequestEffects : Ready(todo)
  BY <1>4, <1>5 DEF RequestEffects, R
<1> QED
  BY <1>1, <1>4, <1>6 DEF ReplanEffects

-----------------------------------------------------------------------------
(***************************************************************************)
(* Every step keeps the invariant.                                         *)
(***************************************************************************)
\* The types of everything but the invocations.
StoreTypes ==
    /\ isSubplan \in BOOLEAN
    /\ entry \in {"event", "pointer"}
    /\ needsApproval \in SUBSET Actions
    /\ planned \in {"none", "empty", "rejected", "ready"}
    /\ gen \in 0 .. MaxPlans
    /\ plan \in Plan
    /\ plans \in 0 .. MaxPlans
    /\ keys \in SUBSET ActionIds
    /\ pointerKey \in BOOLEAN
    /\ run \in RunStatus
    /\ api \in [ActionIds -> ApiStatus]
    /\ settled \in SUBSET SettleStatus
    /\ pending \in SUBSET Message
    /\ delivered \in SUBSET Message
    /\ crashes \in 0 .. MaxCrashes
    /\ started \in SUBSET ActionIds
    /\ succeeded \in SUBSET ActionIds

StoreTrue ==
    /\ StoreTypes
    /\ SavedTrue
    /\ ExecutedIsTrue
    /\ succeeded \subseteq started
    /\ ExecutesInOrder
    /\ \A m \in pending \cup delivered : MessageTrue(m, succeeded)
    /\ ~Hydrates => RunCompletionEarned

LEMMA IdleFacts ==
    /\ Idle \in Invocation
    /\ Idle.todo = <<>> /\ Idle.gen = 0 /\ Idle.plan = NewPlan /\ Idle.used = 0
    /\ \A m \in Message : m # Idle.msg
    /\ \A succ : \A n \in Nat : InvocationTrue(Idle, succ, n)
<1>1. Idle.todo = <<>> /\ Idle.gen = 0 /\ Idle.plan = NewPlan /\ Idle.used = 0 /\ Idle.msg = [kind |-> "none"]
  BY DEF Idle
<1>2. \A m \in Message : m.kind # "none"
  BY DEF Message, Drive, Replan, Act
<1>3. Idle \in Invocation
  <2>1. NewPlan \in Plan
    BY PlanFacts
  <2>2. 0 \in 0 .. MaxPlans /\ 0 \in 0 .. InlineBudget /\ <<>> \in Seq(Effect)
    BY PlanExecutionAssumption, SeqOps
  <2>3. /\ Idle = [msg |-> [kind |-> "none"], gen |-> 0, plan |-> NewPlan, used |-> 0, todo |-> <<>>]
        /\ Idle.msg \in Message \cup {Idle.msg}
    BY DEF Idle
  <2> QED
    BY <1>1, <2>1, <2>2, <2>3 DEF Invocation
<1>4. \A succ : \A n \in Nat : InvocationTrue(Idle, succ, n)
  <2>1. \A succ : MessageTrue(Idle.msg, succ)
    BY <1>1 DEF MessageTrue, Act
  <2> QED
    BY <1>1, <2>1, PlanFacts, SeqOps DEF InvocationTrue, TodoTrue, First
<1> QED
  BY <1>1, <1>2, <1>3, <1>4

\* One worker takes a step and the others keep what they hold.
LEMMA StepTruth ==
    ASSUME TruthInv, StoreTrue', succeeded \subseteq succeeded', plans <= plans',
           NEW w \in Workers, NEW v \in Invocation, v = Idle \/ v.msg \in Message,
           inv' = [inv EXCEPT ![w] = v], InvocationTrue(v, succeeded', plans')
    PROVE  TruthInv'
<1>1. /\ inv' \in [Workers -> Invocation] /\ inv'[w] = v
      /\ \A u \in Workers \ {w} : inv'[u] = inv[u]
  BY DEF TruthInv, TypeInv
<1>2. TypeOK'
  <2>1. v.used \in 0 .. InlineBudget
    BY DEF Invocation
  <2>2. (\A u \in Workers : /\ inv[u] = Idle \/ inv[u].msg \in Message
                            /\ inv[u].used \in 0 .. InlineBudget)'
    BY <1>1, <2>1 DEF TruthInv, TypeInv, TypeOK
  <2> QED
    BY <2>2 DEF StoreTrue, StoreTypes, TypeOK
<1>3. \A u \in Workers : InvocationTrue(inv'[u], succeeded', plans')
  <2> TAKE u \in Workers
  <2>1. CASE u = w
    BY <1>1, <2>1
  <2>2. CASE u # w
    <3>1. inv'[u] = inv[u] /\ InvocationTrue(inv[u], succeeded, plans) /\ inv[u].gen \in Nat
      BY <1>1, <2>2 DEF TruthInv, TypeInv, Invocation
    <3>2. plans \in Nat /\ plans' \in Nat
      BY DEF TruthInv, TypeInv, TypeOK, StoreTrue, StoreTypes
    <3> QED
      BY <3>1, <3>2, InvocationMono
  <2> QED
    BY <2>1, <2>2
<1> QED
  BY <1>1, <1>2, <1>3 DEF TruthInv, TypeInv, StoreTrue

LEMMA StoreHolds ==
    ASSUME TruthInv
    PROVE  StoreTrue
BY DEF TruthInv, TypeInv, TypeOK, StoreTrue, StoreTypes

\* What the store says stays true when it and the tools are left alone.
LEMMA StoreKept ==
    ASSUME StoreTrue, UNCHANGED <<input, saved, api, queue, tools>>, StoreTypes',
           run' \in {run, "running"}
    PROVE  StoreTrue'
<1>1. (~Hydrates => RunCompletionEarned)'
  BY DEF StoreTrue, RunCompletionEarned, Performed, saved, tools
<1> QED
  BY <1>1 DEF StoreTrue, SavedTrue, ExecutedIsTrue, ExecutesInOrder, input, saved, queue, tools

\* An invocation begins.
LEMMA InvokeTruth ==
    ASSUME TruthInv, NEW w \in Workers, NEW m \in Message, NEW todo \in Seq(Effect),
           m \in pending \cup delivered, TodoTrue(gen, todo, succeeded, plans), Invoke(w, m, todo),
           run' \in {run, "running"}
    PROVE  TruthInv'
<1> DEFINE v == [msg |-> m, gen |-> gen, plan |-> GetPlan, used |-> 0, todo |-> todo]
<1>1. GetPlan \in Plan /\ PlanTrue(gen, GetPlan, succeeded)
  BY GetPlanTrue DEF TruthInv, TypeInv
<1>2. v \in Invocation
  BY <1>1, PlanExecutionAssumption DEF Invocation, TruthInv, TypeInv, TypeOK
<1>3. v.msg = m /\ v.gen = gen /\ v.plan = GetPlan /\ v.todo = todo
  OBVIOUS
<1>4. inv' = [inv EXCEPT ![w] = v]
  BY DEF Invoke
<1> HIDE DEF v
<1>5. UNCHANGED <<input, saved, idem, api, settled, queue, crashes, tools>>
  BY DEF Invoke
<1>6. StoreTrue'
  <2>1. StoreTypes'
    BY <1>5, StoreHolds DEF StoreTrue, StoreTypes, input, saved, idem, queue, tools, RunStatus
  <2> QED
    BY <1>5, <2>1, StoreHolds, StoreKept
<1>7. InvocationTrue(v, succeeded', plans')
  BY <1>1, <1>3, <1>5 DEF InvocationTrue, saved, tools, TruthInv, SavedTrue
<1>8. succeeded \subseteq succeeded' /\ plans <= plans'
  BY <1>5 DEF saved, tools, TruthInv, TypeInv, TypeOK
<1> QED
  BY <1>2, <1>3, <1>4, <1>6, <1>7, <1>8, StepTruth

LEMMA MessageTypes ==
    /\ Drive \in Message
    /\ \A g \in Gens : Replan(g) \in Message
    /\ \A g \in Gens, i \in Actions, k \in Attempts : Act(g, i, k) \in Message
    /\ \A g1, g2, i1, i2, k1, k2 : Act(g1, i1, k1) = Act(g2, i2, k2) => g1 = g2 /\ i1 = i2 /\ k1 = k2
    /\ \A g, h, i, k : Replan(h) # Act(g, i, k)
<1>1. /\ Drive \in Message
      /\ \A g \in Gens : Replan(g) \in Message
      /\ \A g \in Gens, i \in Actions, k \in Attempts : Act(g, i, k) \in Message
  BY DEF Message
<1>2. \A g, i, k : Act(g, i, k).kind = "action" /\ Act(g, i, k).gen = g
                   /\ Act(g, i, k).action = i /\ Act(g, i, k).attempt = k
  BY DEF Act
<1>3. \A h : Replan(h).kind = "replan"
  BY DEF Replan
<1>4. ASSUME NEW g1, NEW g2, NEW i1, NEW i2, NEW k1, NEW k2, Act(g1, i1, k1) = Act(g2, i2, k2)
      PROVE  g1 = g2 /\ i1 = i2 /\ k1 = k2
  BY <1>2, <1>4
<1>5. ASSUME NEW g, NEW h, NEW i, NEW k PROVE Replan(h) # Act(g, i, k)
  BY <1>2, <1>3
<1> QED
  BY <1>1, <1>4, <1>5

LEMMA BeginTruth ==
    ASSUME TruthInv, NEW w \in Workers,
           \/ BeginDrive(w)
           \/ \E g \in Gens : BeginReplan(w, g)
           \/ \E g \in Gens, i \in Actions, k \in Attempts : BeginAction(w, g, i, k)
    PROVE  TruthInv'
<1>1. CASE BeginDrive(w)
  <2>1. PICK todo \in RequestEffects : Invoke(w, Drive, todo)
    BY <1>1 DEF BeginDrive
  <2>2. run' \in {run, "running"} /\ Drive \in pending \cup delivered
    BY <1>1 DEF BeginDrive, Receives, Available
  <2> QED
    BY <2>1, <2>2, RequestTrue, InvokeTruth, MessageTypes DEF Ready
<1>2. ASSUME NEW g \in Gens, BeginReplan(w, g) PROVE TruthInv'
  <2>1. PICK todo \in ReplanEffects : Invoke(w, Replan(g), todo)
    BY <1>2 DEF BeginReplan
  <2>2. run' \in {run, "running"} /\ Replan(g) \in pending \cup delivered
    BY <1>2 DEF BeginReplan, Receives, Available
  <2> QED
    BY <2>1, <2>2, RequestTrue, InvokeTruth, MessageTypes DEF Ready
<1>3. ASSUME NEW g \in Gens, NEW i \in Actions, NEW k \in Attempts, BeginAction(w, g, i, k) PROVE TruthInv'
  <2>1. PICK todo \in ActionEffects(gen, GetPlan, i, k) : Invoke(w, Act(g, i, k), todo)
    BY <1>3 DEF BeginAction
  <2>2. g = gen /\ run' = run /\ Act(g, i, k) \in pending \cup delivered
    BY <1>3 DEF BeginAction, Receives, Available
  <2>3. Unblocked(gen, i, succeeded)
    BY <2>2 DEF TruthInv, MessageTrue
  <2>4. /\ GetPlan \in Plan /\ PlanTrue(gen, GetPlan, succeeded)
        /\ TypeOK /\ plans \in Nat /\ gen <= plans
    BY GetPlanTrue DEF TruthInv, TypeInv, TypeOK, SavedTrue
  <2>5. todo \in Seq(Sound(gen, succeeded, plans))
    BY <2>2, <2>3, <2>4, ActionEffectsSound
  <2> QED
    BY <2>1, <2>2, <2>5, SoundIsTrue, InvokeTruth, MessageTypes
<1> QED
  BY <1>1, <1>2, <1>3

\* The effect a running invocation performs next, and what follows it.
LEMMA NextEffect ==
    ASSUME TruthInv, NEW w \in Workers, Todo(w) # <<>>
    PROVE  LET e == Head(Todo(w))
               rest == Tail(Todo(w))
               g == inv[w].gen
           IN  /\ inv[w] \in Invocation /\ inv[w].msg \in Message /\ inv[w] # Idle
               /\ e \in Effect /\ rest \in Seq(Effect)
               /\ g \in 0 .. MaxPlans /\ g <= plans /\ plans \in Nat /\ inv[w].plan \in Plan
               /\ IF e.op = "save_new_plan"
                  THEN rest \in Seq(Fresh)
                  ELSE e \in Sound(g, succeeded, plans) /\ rest \in Seq(Sound(g, succeeded, plans))
               /\ e.op \notin Planless \cup {"save_new_plan"} => g \in Gens
               /\ e.op # "raise" => PlanTrue(g, inv[w].plan, succeeded)
               /\ MessageTrue(inv[w].msg, succeeded)
<1> DEFINE e == Head(Todo(w))
           rest == Tail(Todo(w))
           g == inv[w].gen
<1>1. inv[w] \in Invocation /\ InvocationTrue(inv[w], succeeded, plans) /\ plans \in Nat
  BY DEF TruthInv, TypeInv, TypeOK
<1>2. inv[w] # Idle /\ inv[w].msg \in Message
  <2>1. inv[w] # Idle
    BY IdleFacts DEF Todo
  <2> QED
    BY <2>1 DEF TruthInv, TypeInv, TypeOK
<1>3. Todo(w) \in Seq(Effect) /\ g \in 0 .. MaxPlans /\ inv[w].plan \in Plan
  BY <1>1 DEF Invocation, Todo
<1>4. e \in Effect /\ rest \in Seq(Effect)
  BY <1>3, SeqOps
<1>5. /\ g <= plans /\ TodoTrue(g, Todo(w), succeeded, plans)
      /\ e.op # "raise" => PlanTrue(g, inv[w].plan, succeeded)
      /\ MessageTrue(inv[w].msg, succeeded)
  BY <1>1 DEF InvocationTrue, Todo, First
<1>6. IF e.op = "save_new_plan"
      THEN rest \in Seq(Fresh)
      ELSE e \in Sound(g, succeeded, plans) /\ rest \in Seq(Sound(g, succeeded, plans))
  <2>1. CASE e.op = "save_new_plan"
    BY <1>5, <2>1 DEF TodoTrue, First
  <2>2. CASE e.op # "save_new_plan"
    <3>1. Todo(w) \in Seq(Sound(g, succeeded, plans))
      BY <1>5, <2>2 DEF TodoTrue, First
    <3> QED
      BY <2>2, <3>1, SeqOps
  <2> QED
    BY <2>1, <2>2
<1>7. e.op \notin Planless \cup {"save_new_plan"} => g \in Gens
  <2>1. e.op \notin Planless \cup {"save_new_plan"} => g # 0
    BY <1>6 DEF Sound
  <2> QED
    BY <1>3, <2>1, PlanExecutionAssumption DEF Gens
<1> QED
  BY <1>1, <1>2, <1>3, <1>4, <1>5, <1>6, <1>7

\* An invocation goes on with the plan it has.
LEMMA ProceedTruth ==
    ASSUME TruthInv, StoreTrue', succeeded \subseteq succeeded', plans <= plans',
           NEW w \in Workers, Todo(w) # <<>>, Head(Todo(w)).op # "raise",
           NEW t \in Seq(Sound(inv[w].gen, succeeded', plans')), Proceed(w, t)
    PROVE  TruthInv'
<1> DEFINE v == [inv[w] EXCEPT !.todo = t]
<1>1. t \in Seq(Effect) /\ TodoTrue(inv[w].gen, t, succeeded', plans')
  BY SoundIsTrue
<1>2. /\ inv[w] \in Invocation /\ inv[w].msg \in Message /\ inv[w].gen \in Nat /\ inv[w].gen <= plans
      /\ plans \in Nat /\ plans' \in Nat /\ PlanTrue(inv[w].gen, inv[w].plan, succeeded)
      /\ MessageTrue(inv[w].msg, succeeded)
  BY NextEffect DEF StoreTrue, StoreTypes
<1>3. v \in Invocation /\ v.msg = inv[w].msg /\ v.gen = inv[w].gen /\ v.plan = inv[w].plan /\ v.todo = t
  BY <1>1, <1>2 DEF Invocation
<1>4. inv' = [inv EXCEPT ![w] = v]
  BY DEF Proceed
<1> HIDE DEF v
<1>5. PlanTrue(inv[w].gen, inv[w].plan, succeeded') /\ MessageTrue(inv[w].msg, succeeded')
  BY <1>2 DEF PlanTrue, MessageTrue, Unblocked
<1>6. InvocationTrue(v, succeeded', plans')
  BY <1>1, <1>2, <1>3, <1>5 DEF InvocationTrue
<1> QED
  BY <1>2, <1>3, <1>4, <1>6, StepTruth

\* The effects that touch neither the plan, nor the queue, nor the tools.
LEMMA RecordTruth ==
    ASSUME TruthInv, NEW w \in Workers,
           DoRecordKey(w) \/ DoRecordPointerKey(w) \/ DoUpsertAction(w) \/ DoPatchRun(w) \/ DoSettle(w)
    PROVE  TruthInv'
<1> DEFINE e == Head(Todo(w))
           g == inv[w].gen
           S == Sound(g, succeeded, plans)
<1>1. /\ Todo(w) # <<>> /\ Proceed(w, Tail(Todo(w)))
      /\ e.op \in {"record_idempotency_key", "record_pointer_key", "upsert_agent_action",
                   "update_agent_run_status", "settle"}
      /\ UNCHANGED <<input, saved, queue, crashes, tools>>
  BY DEF DoRecordKey, DoRecordPointerKey, DoUpsertAction, DoPatchRun, DoSettle, NextIs
<1>2. e \in Effect /\ e \in S /\ Tail(Todo(w)) \in Seq(S)
      /\ (e.op \notin Planless => g \in Gens)
  BY <1>1, NextEffect
<1>3. StoreTrue /\ UNCHANGED <<succeeded, plans, isSubplan, entry, needsApproval, planned, gen, plan,
                                pending, delivered, started, crashes>>
  BY <1>1, StoreHolds DEF input, saved, queue, tools
<1> HIDE DEF e, g, S
<1>4. keys' \in SUBSET ActionIds /\ pointerKey' \in BOOLEAN /\ settled' \in SUBSET SettleStatus
  <2>1. CASE DoRecordKey(w)
    <3>1. <<g, e.action>> \in ActionIds
      BY <1>2, <2>1, EffectFields DEF DoRecordKey, NextIs, ActionIds, e, Planless
    <3> QED
      BY <1>3, <2>1, <3>1 DEF DoRecordKey, idem, StoreTrue, StoreTypes, e, g
  <2>2. CASE DoRecordPointerKey(w)
    BY <1>3, <2>2 DEF DoRecordPointerKey, StoreTrue, StoreTypes
  <2>3. CASE DoSettle(w)
    BY <1>2, <1>3, <2>3, EffectFields DEF DoSettle, NextIs, StoreTrue, StoreTypes, e, idem
  <2>4. CASE DoUpsertAction(w) \/ DoPatchRun(w)
    BY <1>3, <2>4 DEF DoUpsertAction, DoPatchRun, StoreTrue, StoreTypes, idem
  <2> QED
    BY <2>1, <2>2, <2>3, <2>4
<1>5. run' \in RunStatus /\ (~Hydrates => RunCompletionEarned)'
  <2>1. CASE DoPatchRun(w)
    <3>1. run' = e.status /\ e.op = "update_agent_run_status"
      BY <2>1 DEF DoPatchRun, NextIs, e
    <3>2. e.status = "completed" => Hydrates \/ SomePerformed(succeeded, plans)
      BY <1>2, <3>1 DEF S, Sound
    <3> QED
      BY <1>2, <1>3, <3>1, <3>2, EffectFields DEF RunCompletionEarned, Performed, SomePerformed
  <2>2. CASE UNCHANGED run
    BY <1>3, <2>2 DEF StoreTrue, StoreTypes, RunCompletionEarned, Performed
  <2> QED
    BY <2>1, <2>2 DEF DoRecordKey, DoRecordPointerKey, DoUpsertAction, DoSettle
<1>6. api' \in [ActionIds -> ApiStatus] /\ ExecutedIsTrue'
  <2>1. CASE DoUpsertAction(w)
    <3>1. /\ api' = [id \in ActionIds |-> IF id[1] = g /\ id[2] \in e.actions
                                          THEN ActionStatusToApi(id[2], e.status) ELSE api[id]]
          /\ e.op = "upsert_agent_action"
      BY <2>1 DEF DoUpsertAction, NextIs, e, g
    <3>0. e.status \in ActionStatus
      BY <1>2, <3>1, EffectFields
    <3>2. \A i : ActionStatusToApi(i, e.status) \in ApiStatus
      BY <3>0 DEF ActionStatusToApi, ApiStatus, ActionStatus, PENDING, RUNNING, COMPLETED, FAILED, STALE,
                  REQUIRES_APPROVAL, SKIPPED
    <3>3. \A i : ActionStatusToApi(i, e.status) = "executed" => e.status = COMPLETED
      BY <3>0 DEF ActionStatusToApi, ActionStatus, PENDING, RUNNING, COMPLETED, FAILED, STALE,
                  REQUIRES_APPROVAL, SKIPPED
    <3>4. e.status = COMPLETED => \A i \in e.actions : <<g, i>> \in succeeded
      BY <1>2, <3>1 DEF S, Sound
    <3>5. api' \in [ActionIds -> ApiStatus]
      BY <1>3, <3>1, <3>2 DEF StoreTrue, StoreTypes
    <3>6. ASSUME NEW id \in ActionIds, api'[id] = "executed" PROVE id \in succeeded
      <4>1. CASE id[1] = g /\ id[2] \in e.actions
        <5>1. id = <<g, id[2]>>
          BY <4>1 DEF ActionIds
        <5>2. api'[id] = ActionStatusToApi(id[2], e.status)
          BY <3>1, <4>1
        <5> QED
          BY <3>3, <3>4, <3>6, <4>1, <5>1, <5>2
      <4>2. CASE ~(id[1] = g /\ id[2] \in e.actions)
        BY <1>3, <3>1, <3>6, <4>2 DEF StoreTrue, ExecutedIsTrue
      <4> QED
        BY <4>1, <4>2
    <3> QED
      BY <1>3, <3>5, <3>6 DEF ExecutedIsTrue
  <2>2. CASE UNCHANGED api
    BY <1>3, <2>2 DEF StoreTrue, StoreTypes, ExecutedIsTrue
  <2> QED
    BY <2>1, <2>2 DEF DoRecordKey, DoRecordPointerKey, DoPatchRun, DoSettle
<1>7. StoreTrue'
  <2>1. StoreTypes'
    BY <1>3, <1>4, <1>5, <1>6 DEF StoreTrue, StoreTypes
  <2> QED
    BY <1>3, <1>5, <1>6, <2>1 DEF StoreTrue, SavedTrue, ExecutesInOrder
<1>8. e.op # "raise" /\ plans <= plans'
  BY <1>1, <1>3 DEF StoreTrue, StoreTypes, e
<1> QED
  BY <1>1, <1>2, <1>3, <1>7, <1>8, ProceedTruth DEF e, g, S

LEMMA EnqueueTruth ==
    ASSUME TruthInv, NEW w \in Workers, DoEnqueueAct(w) \/ DoEnqueueReplan(w)
    PROVE  TruthInv'
<1> DEFINE e == Head(Todo(w))
           g == inv[w].gen
           S == Sound(g, succeeded, plans)
<1>1. /\ Todo(w) # <<>> /\ Proceed(w, Tail(Todo(w))) /\ e.op \in {"enqueue_action", "enqueue_replan"}
      /\ UNCHANGED <<input, saved, idem, run, api, settled, delivered, crashes, tools>>
  BY DEF DoEnqueueAct, DoEnqueueReplan, NextIs
<1>2. e \in Effect /\ e \in S /\ Tail(Todo(w)) \in Seq(S) /\ g \in Gens
  BY <1>1, NextEffect DEF Planless
<1>3. StoreTrue /\ UNCHANGED <<succeeded, plans, isSubplan, entry, needsApproval, planned, gen, plan,
                                keys, pointerKey, run, api, settled, delivered, started, crashes>>
  BY <1>1, StoreHolds DEF input, saved, idem, tools
<1>4. PICK m \in Message : pending' = pending \cup {m} /\ MessageTrue(m, succeeded)
  <2>1. CASE DoEnqueueAct(w)
    <3> DEFINE i == e.action
               k == e.attempt
    <3>1. i \in Actions /\ k \in Attempts /\ pending' = pending \cup {Act(g, i, k)} /\ e.op = "enqueue_action"
      BY <1>2, <2>1, EffectFields DEF DoEnqueueAct, NextIs
    <3>2. Unblocked(g, i, succeeded)
      BY <1>2, <3>1 DEF Sound
    <3> HIDE DEF i, k, g
    <3>3. MessageTrue(Act(g, i, k), succeeded)
      BY <3>2, MessageTypes DEF MessageTrue
    <3> QED
      BY <1>2, <3>1, <3>3, MessageTypes
  <2>2. CASE DoEnqueueReplan(w)
    BY <1>2, <2>2, MessageTypes DEF DoEnqueueReplan, MessageTrue
  <2> QED
    BY <2>1, <2>2
<1>5. StoreTrue'
  <2>1. StoreTypes'
    BY <1>3, <1>4 DEF StoreTrue, StoreTypes
  <2>2. (\A x \in pending \cup delivered : MessageTrue(x, succeeded))'
    BY <1>3, <1>4 DEF StoreTrue
  <2>3. (~Hydrates => RunCompletionEarned)'
    BY <1>3 DEF StoreTrue, RunCompletionEarned, Performed
  <2> QED
    BY <1>3, <2>1, <2>2, <2>3 DEF StoreTrue, SavedTrue, ExecutesInOrder, ExecutedIsTrue
<1>6. plans <= plans'
  BY <1>3 DEF StoreTrue, StoreTypes
<1> QED
  BY <1>1, <1>2, <1>3, <1>5, <1>6, ProceedTruth

\* The tool is called.
LEMMA ExecuteTruth ==
    ASSUME TruthInv, NEW w \in Workers, DoExecute(w)
    PROVE  TruthInv'
<1> DEFINE e == Head(Todo(w))
           g == inv[w].gen
           p == inv[w].plan
           i == e.action
           k == e.attempt
<1>1. /\ Todo(w) # <<>> /\ e.op = "execute" /\ started' = started \cup {<<g, i>>}
      /\ UNCHANGED <<input, saved, idem, run, api, settled, queue, crashes>>
      /\ \/ Proceed(w, ToolRaised(p, i)) /\ UNCHANGED succeeded
         \/ Proceed(w, ToolFailed(p, i, k)) /\ UNCHANGED succeeded
         \/ Proceed(w, ToolSucceeded(p, i)) /\ succeeded' = succeeded \cup {<<g, i>>}
  BY DEF DoExecute, NextIs
<1>2. /\ e \in Effect /\ e \in Sound(g, succeeded, plans) /\ g \in Gens /\ p \in Plan /\ g <= plans /\ plans \in Nat
      /\ PlanTrue(g, p, succeeded)
  BY <1>1, NextEffect DEF Planless
<1>3. i \in Actions /\ k \in Attempts /\ Unblocked(g, i, succeeded) /\ <<g, i>> \in ActionIds
  BY <1>1, <1>2, EffectFields DEF Sound, ActionIds
<1>4. StoreTrue /\ TypeOK /\ UNCHANGED <<plans, isSubplan, entry, needsApproval, planned, gen, plan,
                                keys, pointerKey, run, api, settled, pending, delivered, crashes>>
  BY <1>1, StoreHolds DEF input, saved, idem, queue, TruthInv, TypeInv
<1> HIDE DEF e, g, p, i, k
<1>5. succeeded \subseteq succeeded' /\ succeeded' \subseteq succeeded \cup {<<g, i>>}
  BY <1>1
<1>6. PlanTrue(g, p, succeeded')
  BY <1>2, <1>5 DEF PlanTrue
<1>7. StoreTrue'
  <2>1. StoreTypes'
    BY <1>1, <1>3, <1>4, <1>5 DEF StoreTrue, StoreTypes
  <2>2. (\A x \in pending \cup delivered : MessageTrue(x, succeeded))'
    BY <1>4, <1>5 DEF StoreTrue, MessageTrue, Unblocked
  <2>3. (~Hydrates => RunCompletionEarned)'
    BY <1>4, <1>5 DEF StoreTrue, RunCompletionEarned, Performed
  <2>4. SavedTrue' /\ ExecutedIsTrue' /\ succeeded' \subseteq started'
    BY <1>1, <1>4, <1>5 DEF StoreTrue, SavedTrue, PlanTrue, ExecutedIsTrue
  <2>5. ExecutesInOrder'
    <3>1. ASSUME NEW id \in started' PROVE \A j \in 1 .. id[2] - 1 : <<id[1], j>> \in succeeded'
      <4>1. CASE id \in started
        BY <1>4, <1>5, <4>1 DEF StoreTrue, ExecutesInOrder
      <4>2. CASE id = <<g, i>>
        BY <1>3, <1>5, <4>2 DEF Unblocked
      <4> QED
        BY <1>1, <3>1, <4>1, <4>2
    <3> QED
      BY <3>1 DEF ExecutesInOrder
  <2> QED
    BY <2>1, <2>2, <2>3, <2>4, <2>5 DEF StoreTrue
<1>8. Unblocked(g, i, succeeded')
  BY <1>3, <1>5 DEF Unblocked
<1>9. plans <= plans' /\ plans' = plans /\ e.op # "raise"
  BY <1>1, <1>2, <1>4
<1>10. \E t \in Seq(Sound(g, succeeded', plans')) : Proceed(w, t)
  <2>1. CASE Proceed(w, ToolRaised(p, i))
    BY <1>2, <1>3, <1>4, <1>6, <1>9, <2>1, FailActionSound
  <2>2. CASE Proceed(w, ToolFailed(p, i, k))
    BY <1>2, <1>3, <1>4, <1>6, <1>8, <1>9, <2>2, StartActionSound
  <2>3. CASE Proceed(w, ToolSucceeded(p, i)) /\ succeeded' = succeeded \cup {<<g, i>>}
    <3>1. <<g, i>> \in succeeded'
      BY <2>3
    <3>2. ToolSucceeded(p, i) \in Seq(Sound(g, succeeded', plans'))
      BY <1>2, <1>3, <1>4, <1>6, <1>9, <3>1, ToolSucceededSound
    <3> QED
      BY <2>3, <3>2
  <2> QED
    BY <1>1, <2>1, <2>2, <2>3
<1> QED
  BY <1>1, <1>5, <1>7, <1>9, <1>10, ProceedTruth DEF e, g

\* The saved plan is replaced: by a new one, or by the one of the invocation.
LEMMA SaveTruth ==
    ASSUME TruthInv, NEW w \in Workers, DoSaveNewPlan(w) \/ DoRejectPlan(w) \/ DoUpdatePlan(w)
    PROVE  TruthInv'
<1> DEFINE e == Head(Todo(w))
           rest == Tail(Todo(w))
           g == inv[w].gen
<1>1. /\ Todo(w) # <<>> /\ e.op \in {"save_new_plan", "reject_plan", "update_plan"}
      /\ UNCHANGED <<input, idem, run, api, settled, queue, crashes, tools>>
  BY DEF DoSaveNewPlan, DoRejectPlan, DoUpdatePlan, NextIs
<1>2. /\ e \in Effect /\ rest \in Seq(Effect) /\ inv[w] \in Invocation /\ inv[w].msg \in Message
      /\ g \in 0 .. MaxPlans /\ g <= plans /\ plans \in Nat
      /\ inv[w].plan \in Plan
      /\ PlanTrue(g, inv[w].plan, succeeded) /\ MessageTrue(inv[w].msg, succeeded)
      /\ e.op = "save_new_plan" => rest \in Seq(Fresh)
      /\ e.op # "save_new_plan" =>
            e \in Sound(g, succeeded, plans) /\ rest \in Seq(Sound(g, succeeded, plans)) /\ g \in Gens
  BY <1>1, NextEffect DEF Planless
<1>3. StoreTrue /\ plans \in 0 .. MaxPlans
      /\ UNCHANGED <<succeeded, isSubplan, entry, needsApproval, keys, pointerKey, run, api, settled,
                     pending, delivered, started, crashes>>
  BY <1>1, StoreHolds DEF input, idem, queue, tools, StoreTrue, StoreTypes
<1> HIDE DEF e, rest, g
<1>4. ASSUME NEW v, inv' = [inv EXCEPT ![w] = v], v \in Invocation, v.msg = inv[w].msg,
             v.gen = gen', v.todo = rest, v.plan = plan',
             planned' \in {"empty", "rejected", "ready"}, plans' \in 0 .. MaxPlans, plans <= plans',
             gen' \in Gens, gen' <= plans', plan' \in Plan, PlanTrue(gen', plan', succeeded),
             rest \in Seq(Sound(gen', succeeded, plans'))
      PROVE  TruthInv'
  <2>1. gen' # 0 /\ gen' \in 0 .. MaxPlans /\ plans' \in Nat
    BY <1>4, PlanExecutionAssumption DEF Gens
  <2>2. StoreTypes'
    BY <1>3, <1>4, <2>1 DEF StoreTrue, StoreTypes
  <2>3. (~Hydrates => RunCompletionEarned)'
    BY <1>2, <1>3, <1>4, <2>1 DEF StoreTrue, RunCompletionEarned, Performed
  <2>4. SavedTrue'
    BY <1>3, <1>4, <2>1 DEF SavedTrue
  <2>5. StoreTrue'
    BY <1>3, <2>2, <2>3, <2>4 DEF StoreTrue, ExecutesInOrder, ExecutedIsTrue
  <2>6. InvocationTrue(v, succeeded', plans')
    BY <1>2, <1>3, <1>4, SoundIsTrue DEF InvocationTrue
  <2> QED
    BY <1>2, <1>3, <1>4, <2>5, <2>6, StepTruth
<1>5. CASE DoSaveNewPlan(w)
  <2> DEFINE v == [inv[w] EXCEPT !.gen = plans + 1, !.plan = NewPlan, !.todo = rest]
  <2>1. /\ e.op = "save_new_plan" /\ plans < MaxPlans /\ plans' = plans + 1 /\ gen' = plans + 1
        /\ plan' = NewPlan /\ planned' = e.planned
    BY <1>5 DEF DoSaveNewPlan, NextIs, e
  <2>2. inv' = [inv EXCEPT ![w] = v]
    BY <1>5, <2>1 DEF DoSaveNewPlan, rest, Todo
  <2>3. plans + 1 \in Gens /\ plans + 1 \in 0 .. MaxPlans /\ plans <= plans + 1 /\ plans + 1 <= plans + 1
    BY <1>2, <2>1, PlanExecutionAssumption DEF Gens
  <2>4. v \in Invocation /\ v.msg = inv[w].msg /\ v.gen = plans + 1 /\ v.plan = NewPlan /\ v.todo = rest
    BY <1>2, <2>3, PlanFacts DEF Invocation
  <2>5. rest \in Seq(Sound(plans + 1, succeeded, plans + 1))
    BY <1>2, <2>1, <2>3, FreshSound, SeqMono
  <2>6. planned' \in {"empty", "rejected", "ready"}
    BY <1>2, <2>1, EffectFields
  <2> HIDE DEF v
  <2> QED
    BY <1>2, <1>4, <2>1, <2>2, <2>3, <2>4, <2>5, <2>6, PlanFacts
<1>6. CASE DoRejectPlan(w)
  <2> DEFINE v == [inv[w] EXCEPT !.todo = rest]
  <2>1. /\ e.op = "reject_plan" /\ plans' = plans /\ gen' = g
        /\ plan' = inv[w].plan /\ planned' = "rejected"
    BY <1>6 DEF DoRejectPlan, NextIs, e, g
  <2>2. inv' = [inv EXCEPT ![w] = v]
    BY <1>6 DEF DoRejectPlan, Proceed, rest, Todo
  <2>3. v \in Invocation /\ v.msg = inv[w].msg /\ v.gen = g /\ v.plan = inv[w].plan /\ v.todo = rest
    BY <1>2 DEF Invocation, g
  <2>4. /\ planned' \in {"empty", "rejected", "ready"} /\ plans' \in 0 .. MaxPlans /\ plans <= plans'
        /\ gen' \in Gens /\ gen' <= plans' /\ plan' \in Plan /\ PlanTrue(gen', plan', succeeded)
        /\ rest \in Seq(Sound(gen', succeeded, plans'))
    BY <1>2, <1>3, <2>1
  <2> HIDE DEF v
  <2> QED
    BY <1>4, <2>1, <2>2, <2>3, <2>4
<1>7. CASE DoUpdatePlan(w)
  <2> DEFINE v == [inv[w] EXCEPT !.plan = e.plan, !.todo = rest]
  <2>1. /\ e.op = "update_plan" /\ plans' = plans /\ gen' = g
        /\ plan' = e.plan /\ planned' = "ready"
    BY <1>7 DEF DoUpdatePlan, NextIs, e, g
  <2>2. inv' = [inv EXCEPT ![w] = v]
    BY <1>7, <2>1 DEF DoUpdatePlan, rest, Todo
  <2>3. e.plan \in Plan /\ PlanTrue(g, e.plan, succeeded)
    BY <1>2, <2>1, EffectFields DEF Sound
  <2>4. v \in Invocation /\ v.msg = inv[w].msg /\ v.gen = g /\ v.plan = e.plan /\ v.todo = rest
    BY <1>2, <2>3 DEF Invocation, g
  <2>5. /\ planned' \in {"empty", "rejected", "ready"} /\ plans' \in 0 .. MaxPlans /\ plans <= plans'
        /\ gen' \in Gens /\ gen' <= plans' /\ plan' \in Plan /\ PlanTrue(gen', plan', succeeded)
        /\ rest \in Seq(Sound(gen', succeeded, plans'))
    BY <1>2, <1>3, <2>1, <2>3
  <2> HIDE DEF v
  <2> QED
    BY <1>4, <2>1, <2>2, <2>3, <2>4, <2>5
<1> QED
  BY <1>5, <1>6, <1>7

\* The plan goes on: it has ended, or its next action is performed by this
\* invocation, or it is left to the queue.
LEMMA EnqueueNextTruth ==
    ASSUME TruthInv, NEW w \in Workers, DoEnqueueNext(w)
    PROVE  TruthInv'
<1> DEFINE e == Head(Todo(w))
           rest == Tail(Todo(w))
           g == inv[w].gen
           p == inv[w].plan
           S == Sound(g, succeeded, plans)
<1>1. /\ Todo(w) # <<>> /\ e.op = "enqueue_next_action"
      /\ UNCHANGED <<input, saved, idem, run, api, settled, queue, crashes, tools>>
  BY DEF DoEnqueueNext, NextIs
<1>2. /\ e \in Effect /\ rest \in Seq(S) /\ inv[w] \in Invocation /\ inv[w].msg \in Message
      /\ g \in Gens /\ g <= plans /\ plans \in Nat /\ p \in Plan /\ PlanTrue(g, p, succeeded)
      /\ MessageTrue(inv[w].msg, succeeded)
  BY <1>1, NextEffect DEF Planless
<1>3. /\ StoreTrue /\ TypeOK /\ SavedTrue /\ ExecutesInOrder /\ succeeded \subseteq started
      /\ UNCHANGED <<succeeded, plans>>
  BY <1>1, StoreHolds DEF saved, tools, TruthInv, TypeInv
<1>4. StoreTrue'
  <2>1. StoreTypes'
    BY <1>1, <1>3 DEF StoreTrue, StoreTypes, input, saved, idem, queue, tools
  <2> QED
    BY <1>1, <1>3, <2>1, StoreKept
<1>5. \A j \in NextPendingAction(p) : j \in Actions /\ Unblocked(g, j, succeeded)
  BY <1>2, <1>3, NextUnblocked, PlanFacts
<1>6. g # 0 /\ 0 \in Attempts /\ plans <= plans'
  BY <1>2, <1>3, PlanExecutionAssumption DEF Gens, Attempts
<1> HIDE DEF e, rest, g, p
<1>7. CASE \E t \in Seq(S) : Proceed(w, t \o rest)
  <2>1. PICK t \in Seq(S) : Proceed(w, t \o rest)
    BY <1>7
  <2>2. t \o rest \in Seq(S)
    BY <1>2, <2>1, SeqOps
  <2>3. t \o rest \in Seq(Sound(g, succeeded', plans'))
    BY <1>3, <2>2
  <2> QED
    BY <1>1, <1>3, <1>4, <1>6, <2>1, <2>3, ProceedTruth DEF e, g
<1>8. CASE \E j \in NextPendingAction(p) : \E todo \in InlineEffects(w, j) :
              /\ InlineAllowed(w, j)
              /\ inv' = [inv EXCEPT ![w].plan = GetPlan, ![w].used = @ + 1, ![w].todo = todo \o rest]
  <2>0. PICK j \in NextPendingAction(p) : \E todo \in InlineEffects(w, j) :
              /\ InlineAllowed(w, j)
              /\ inv' = [inv EXCEPT ![w].plan = GetPlan, ![w].used = @ + 1, ![w].todo = todo \o rest]
    BY <1>8
  <2>1. PICK todo \in InlineEffects(w, j) :
              /\ InlineAllowed(w, j)
              /\ inv' = [inv EXCEPT ![w].plan = GetPlan, ![w].used = @ + 1, ![w].todo = todo \o rest]
    BY <2>0
  <2>2. GetPlan \in Plan /\ PlanTrue(gen, GetPlan, succeeded)
    BY GetPlanTrue DEF TruthInv, TypeInv
  <2>3. /\ todo \in Seq(S)
        /\ gen # g => First(todo \o rest, "raise")
    <3>1. CASE todo = <<Raise>>
      <4>1. <<Raise>> \in Seq(S) /\ Raise.op = "raise"
        BY PlainEffects, SeqOps DEF Raise
      <4> HIDE DEF S
      <4>2. todo # <<>> /\ Head(todo) = Raise
        BY <3>1
      <4> QED
        BY <1>2, <3>1, <4>1, <4>2, HeadOfConcat DEF First
    <3>2. CASE gen = g /\ todo \in ActionEffects(gen, GetPlan, j, 0)
      BY <1>2, <1>3, <1>5, <1>6, <2>1, <2>2, <3>2, ActionEffectsSound
    <3> QED
      BY <2>1, <3>1, <3>2 DEF InlineEffects, g
  <2> DEFINE t == todo \o rest
             v == [inv[w] EXCEPT !.plan = GetPlan, !.used = inv[w].used + 1, !.todo = t]
  <2>4. t \in Seq(S)
    BY <1>2, <2>3, SeqOps
  <2>5. inv[w].used + 1 \in 0 .. InlineBudget
    BY <1>2, <2>1, PlanExecutionAssumption DEF InlineAllowed, Invocation
  <2> HIDE DEF t
  <2>6. t \in Seq(Effect) /\ TodoTrue(g, t, succeeded, plans)
    BY <2>4, SoundIsTrue
  <2>7. v \in Invocation /\ v.msg = inv[w].msg /\ v.gen = g /\ v.plan = GetPlan /\ v.todo = t
    BY <1>2, <2>2, <2>5, <2>6 DEF Invocation, g
  <2>8. inv' = [inv EXCEPT ![w] = v]
    BY <2>1 DEF t
  <2> HIDE DEF v
  <2>9. InvocationTrue(v, succeeded', plans')
    BY <1>2, <1>3, <2>2, <2>3, <2>6, <2>7 DEF InvocationTrue, t
  <2> QED
    BY <1>2, <1>3, <1>4, <1>6, <2>7, <2>8, <2>9, StepTruth
<1>9. CASE /\ NextPendingAction(p) = {}
           /\ Proceed(w, If(PlanStatus(p) = "completed", PlanCompleted) \o rest)
  <2>1. PlanStatus(p) = "completed" => PlanCompleted \in Seq(S)
    <3> SUFFICES ASSUME PlanStatus(p) = "completed" PROVE PlanCompleted \in Seq(S)
      OBVIOUS
    <3>1. Settle("completed") \in S
      BY <1>6, PlainEffects DEF SettleStatus
    <3>2. Hydrates \/ SomePerformed(succeeded, plans)
      BY <1>2, CompletedPlan
    <3>3. PatchRun("completed") \in Effect
      BY EffectTypes DEF RunStatus
    <3>4. PatchRun("completed") \in S
      BY <1>6, <3>2, <3>3 DEF Sound, PatchRun
    <3> HIDE DEF S
    <3> QED
      BY <3>1, <3>4, SeqOps DEF PlanCompleted
  <2>2. If(PlanStatus(p) = "completed", PlanCompleted) \in Seq(S)
    BY <2>1, SeqOps DEF If
  <2> QED
    BY <1>7, <1>9, <2>2
<1>10. CASE \E j \in NextPendingAction(p) : Proceed(w, <<EnqueueAct(j, 0)>> \o rest)
  <2>1. PICK j \in NextPendingAction(p) : Proceed(w, <<EnqueueAct(j, 0)>> \o rest)
    BY <1>10
  <2>2. EnqueueAct(j, 0) \in S
    BY <1>5, <1>6, <2>1, PlainEffects
  <2>3. <<EnqueueAct(j, 0)>> \in Seq(S)
    BY <2>2, SeqOps
  <2> QED
    BY <1>7, <2>1, <2>3
<1> QED
  BY <1>8, <1>9, <1>10 DEF DoEnqueueNext, p, rest

\* The invocation ends, one way or another.
LEMMA EndTruth ==
    ASSUME TruthInv, NEW w \in Workers, DoRaise(w) \/ End(w) \/ Crash(w)
    PROVE  TruthInv'
<1>1. /\ inv' = [inv EXCEPT ![w] = Idle]
      /\ UNCHANGED <<input, saved, idem, run, api, settled, tools>>
  BY DEF DoRaise, End, Crash
<1>2. StoreTrue /\ InvocationTrue(inv[w], succeeded, plans)
  BY StoreHolds DEF TruthInv
<1>3. crashes' \in 0 .. MaxCrashes
  BY <1>2, PlanExecutionAssumption DEF DoRaise, End, Crash, StoreTrue, StoreTypes
<1>4. /\ pending' \in SUBSET Message /\ delivered' \in SUBSET Message
      /\ \A m \in pending' \cup delivered' : MessageTrue(m, succeeded)
  <2>1. CASE End(w)
    <3>1. /\ pending' = pending \ {inv[w].msg} /\ delivered' = delivered \cup {inv[w].msg}
          /\ inv[w].msg \in Message
      BY <2>1 DEF End, TruthInv, TypeInv, TypeOK
    <3> QED
      BY <1>2, <3>1 DEF StoreTrue, StoreTypes, InvocationTrue
  <2>2. CASE UNCHANGED queue
    BY <1>2, <2>2 DEF StoreTrue, StoreTypes, queue
  <2> QED
    BY <2>1, <2>2 DEF DoRaise, Crash
<1>5. UNCHANGED <<isSubplan, entry, needsApproval, planned, gen, plan, plans, keys, pointerKey, run, api,
                  settled, started, succeeded>>
  BY <1>1 DEF input, saved, idem, tools
<1>6. StoreTrue'
  <2>1. StoreTypes'
    BY <1>2, <1>3, <1>4, <1>5 DEF StoreTrue, StoreTypes
  <2>2. (~Hydrates => RunCompletionEarned)'
    BY <1>2, <1>5 DEF StoreTrue, RunCompletionEarned, Performed
  <2> QED
    BY <1>2, <1>4, <1>5, <2>1, <2>2 DEF StoreTrue, SavedTrue, ExecutesInOrder, ExecutedIsTrue
<1>7. InvocationTrue(Idle, succeeded', plans') /\ plans <= plans'
  BY <1>2, <1>5, IdleFacts DEF StoreTrue, StoreTypes
<1> QED
  BY <1>1, <1>5, <1>6, <1>7, IdleFacts, StepTruth

\* A user decides on an action: a decision is never a success.
LEMMA DecisionTruth ==
    ASSUME TruthInv, NEW i \in Actions, UserDecides(i)
    PROVE  TruthInv'
<1>1. PICK s \in {"approved", "rejected"} : api' = [api EXCEPT ![<<gen, i>>] = s]
  BY DEF UserDecides
<1>2. UNCHANGED <<isSubplan, entry, needsApproval, planned, gen, plan, plans, keys, pointerKey, run,
                  settled, pending, delivered, inv, crashes, started, succeeded>>
  BY DEF UserDecides, input, saved, idem, queue, tools
<1>3. api' \in [ActionIds -> ApiStatus]
  BY <1>1 DEF TruthInv, TypeInv, TypeOK, ApiStatus
<1>4. ExecutedIsTrue'
  BY <1>1, <1>2 DEF ExecutedIsTrue, TruthInv, TypeInv, TypeOK
<1>5. TypeInv'
  BY <1>2, <1>3 DEF TruthInv, TypeInv, TypeOK
<1>6. (~Hydrates => RunCompletionEarned)'
  BY <1>2 DEF TruthInv, RunCompletionEarned, Performed
<1> QED
  BY <1>2, <1>4, <1>5, <1>6 DEF TruthInv, SavedTrue, ExecutesInOrder

LEMMA InitTruth == Init => TruthInv
<1> SUFFICES ASSUME Init PROVE TruthInv
  OBVIOUS
<1>1. inv \in [Workers -> Invocation] /\ \A w \in Workers : inv[w] = Idle
  BY IdleFacts DEF Init
<1>2. TypeOK
  <2>1. \A w \in Workers : inv[w].used \in 0 .. InlineBudget
    BY <1>1, IdleFacts, PlanExecutionAssumption
  <2>2. isSubplan \in BOOLEAN /\ entry \in {"event", "pointer"} /\ run \in RunStatus
    BY PlanExecutionAssumption DEF Init, RunStatus
  <2>3. api \in [ActionIds -> ApiStatus]
    BY DEF Init, ApiStatus
  <2>4. gen \in 0 .. MaxPlans /\ plans \in 0 .. MaxPlans /\ crashes \in 0 .. MaxCrashes
    BY PlanExecutionAssumption DEF Init
  <2>5. plan \in Plan /\ pending \in SUBSET Message /\ delivered \in SUBSET Message
    BY PlanFacts, MessageTypes DEF Init
  <2>6. /\ keys \in SUBSET ActionIds /\ started \in SUBSET ActionIds /\ succeeded \in SUBSET ActionIds
        /\ settled \in SUBSET SettleStatus /\ pointerKey \in BOOLEAN
        /\ planned \in {"none", "empty", "rejected", "ready"} /\ needsApproval \in SUBSET Actions
    BY DEF Init
  <2> QED
    BY <1>1, <2>1, <2>2, <2>3, <2>4, <2>5, <2>6 DEF TypeOK
<1>3. SavedTrue /\ ExecutedIsTrue /\ succeeded \subseteq started /\ ExecutesInOrder
  BY PlanFacts DEF Init, SavedTrue, ExecutedIsTrue, ExecutesInOrder
<1>4. \A m \in pending \cup delivered : MessageTrue(m, succeeded)
  <2>1. \A g, i, k : Drive # Act(g, i, k)
    <3>1. \A g, i, k : Act(g, i, k).kind = "action"
      BY DEF Act
    <3>2. Drive.kind = "drive"
      BY DEF Drive
    <3> QED
      BY <3>1, <3>2
  <2> QED
    BY <2>1 DEF Init, MessageTrue
<1>5. \A w \in Workers : InvocationTrue(inv[w], succeeded, plans)
  BY <1>1, IdleFacts DEF Init
<1>6. RunCompletionEarned
  BY DEF Init, RunCompletionEarned
<1> QED
  BY <1>1, <1>2, <1>3, <1>4, <1>5, <1>6 DEF TruthInv, TypeInv

LEMMA NextTruth == TruthInv /\ [Next]_vars => TruthInv'
<1> SUFFICES ASSUME TruthInv, [Next]_vars PROVE TruthInv'
  OBVIOUS
<1>1. ASSUME NEW w \in Workers,
             \/ BeginDrive(w)
             \/ \E g \in Gens : BeginReplan(w, g)
             \/ \E g \in Gens, i \in Actions, k \in Attempts : BeginAction(w, g, i, k)
      PROVE  TruthInv'
  BY <1>1, BeginTruth
<1>2. ASSUME NEW w \in Workers, Perform(w) PROVE TruthInv'
  BY <1>2, SaveTruth, RecordTruth, EnqueueTruth, ExecuteTruth, EnqueueNextTruth, EndTruth DEF Perform
<1>3. ASSUME NEW w \in Workers, Crash(w) PROVE TruthInv'
  BY <1>3, EndTruth
<1>4. ASSUME NEW i \in Actions, UserDecides(i) PROVE TruthInv'
  BY <1>4, DecisionTruth
<1>5. CASE UNCHANGED vars
  <2>1. UNCHANGED <<isSubplan, entry, needsApproval, planned, gen, plan, plans, keys, pointerKey, run, api,
                    settled, pending, delivered, inv, crashes, started, succeeded>>
    BY <1>5 DEF vars, input, saved, idem, queue, tools
  <2>2. TypeInv'
    BY <2>1 DEF TruthInv, TypeInv, TypeOK
  <2>3. (~Hydrates => RunCompletionEarned)'
    BY <2>1 DEF TruthInv, RunCompletionEarned, Performed
  <2> QED
    BY <2>1, <2>2, <2>3 DEF TruthInv, SavedTrue, ExecutesInOrder, ExecutedIsTrue
<1> QED
  BY <1>1, <1>2, <1>3, <1>4, <1>5 DEF Next

LEMMA AlwaysTruth == Spec => []TruthInv
BY InitTruth, NextTruth, PTL DEF Spec

-----------------------------------------------------------------------------
\* Every variable of the plan handlers stays in its type and the inline budget
\* is never exceeded, for any number of invocations at once (DomainEventHandler,
\* SubAgentCoordinator._handle_task, ActionEventHandler).
THEOREM PlanTypeCorrect == Spec => []TypeOK
<1>1. TruthInv => TypeOK
  BY DEF TruthInv, TypeInv
<1> QED
  BY <1>1, AlwaysTruth, PTL

\* A tool is called only when the calls of all the actions before it in its plan
\* succeeded, whatever is crashed, redelivered, retried, replanned or handled by
\* two invocations at once (AgentPlan.next_pending_action, ActionEventHandler).
THEOREM ToolsCalledInOrder == Spec => []ExecutesInOrder
<1>1. TruthInv => ExecutesInOrder
  BY DEF TruthInv
<1> QED
  BY <1>1, AlwaysTruth, PTL

\* An action the Prism API shows as executed was executed successfully, although
\* plans are read back from there with their statuses translated and saved again
\* (record_action_state, PrismApiStateStore.get_plan).
THEOREM ApiNeverClaimsTooMuch == Spec => []ExecutedIsTrue
<1>1. TruthInv => ExecutedIsTrue
  BY DEF TruthInv
<1> QED
  BY <1>1, AlwaysTruth, PTL

\* Where plans are kept by the runtime alone, a run is reported completed only
\* after every action of one of its plans was performed, for any number of
\* invocations that plan it or work it off at once (record_action_state,
\* _enqueue_next_action).
THEOREM RunCompletionIsEarned == ~Hydrates => (Spec => []RunCompletionEarned)
<1> SUFFICES ASSUME ~Hydrates PROVE Spec => []RunCompletionEarned
  OBVIOUS
<1>1. TruthInv => RunCompletionEarned
  BY DEF TruthInv
<1> QED
  BY <1>1, AlwaysTruth, PTL
=============================================================================
