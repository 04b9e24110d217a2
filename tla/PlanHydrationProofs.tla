------------------------- MODULE PlanHydrationProofs -------------------------
(***************************************************************************)
(* Where plans are read with the statuses of the Prism API, an action that *)
(* is running is read back as pending and nothing but the record of its    *)
(* success keeps its tool from being called again.  That is enough as long *)
(* as no invocation is cut off between the call and the record.            *)
(***************************************************************************)
EXTENDS PlanRecoveryProofs

-----------------------------------------------------------------------------
(***************************************************************************)
(* The effects that neither repeat nor hide a success, and those that have *)
(* nothing to do with one.                                                 *)
(***************************************************************************)
Harmless(g, succ) ==
    {e \in Effect :
        /\ e.op # "save_new_plan"
        /\ e.op = "execute" => <<g, e.action>> \notin succ
        /\ e.op = "upsert_agent_action" => \A i \in e.actions : <<g, i>> \in succ => e.status = COMPLETED}

Plain == {e \in Effect : e.op \notin {"save_new_plan", "execute", "upsert_agent_action"}}

TodoHarmless(g, todo, succ) == First(todo, "save_new_plan") \/ todo \in Seq(Harmless(g, succ))

\* The invocation is about to report the success of action i.
Reports(todo, i) ==
    \/ todo # <<>> /\ Head(todo) = UpsertAction(i, COMPLETED)
    \/ /\ First(todo, "update_plan")
       /\ Tail(todo) # <<>> /\ Head(Tail(todo)) = UpsertAction(i, COMPLETED)

Shown(id) ==
    api[id] = "executed" \/ \E w \in Workers : inv[w].gen = id[1] /\ Reports(Todo(w), id[2])

NothingRepeated ==
    /\ \A id \in succeeded : id[1] <= plans /\ Shown(id)
    /\ \A w \in Workers : TodoHarmless(inv[w].gen, Todo(w), succeeded)

HydrationInv == TruthInv /\ (crashes = 0 => NothingRepeated)

AllShown == \A id \in succeeded : api[id] = "executed"

-----------------------------------------------------------------------------
LEMMA HarmlessFacts ==
    ASSUME NEW g, NEW succ
    PROVE  /\ Plain \subseteq Harmless(g, succ) /\ Harmless(g, succ) \subseteq Effect
           /\ Seq(Plain) \subseteq Seq(Harmless(g, succ))
           /\ {RejectPlan, RecordPointerKey, EnqueueReplan, EnqueueNext, Raise} \subseteq Plain
           /\ \A p \in Plan : UpdatePlan(p) \in Plain
           /\ \A i \in Actions : RecordKey(i) \in Plain
           /\ \A s \in RunStatus : PatchRun(s) \in Plain
           /\ \A s \in SettleStatus : Settle(s) \in Plain
           /\ \A i \in Actions, k \in Attempts : EnqueueAct(i, k) \in Plain
           /\ \A i \in Actions, k \in Attempts : <<g, i>> \notin succ => Execute(i, k) \in Harmless(g, succ)
           /\ \A i \in Actions, s \in ActionStatus :
                 (<<g, i>> \in succ => s = COMPLETED) => UpsertAction(i, s) \in Harmless(g, succ)
<1>1. Plain \subseteq Harmless(g, succ) /\ Harmless(g, succ) \subseteq Effect
  BY DEF Plain, Harmless
<1>2. Seq(Plain) \subseteq Seq(Harmless(g, succ))
  BY <1>1, SeqMono
<1>3. {RejectPlan, RecordPointerKey, EnqueueReplan, EnqueueNext, Raise} \subseteq Plain
  BY EffectTypes DEF Plain, RejectPlan, RecordPointerKey, EnqueueReplan, EnqueueNext, Raise
<1>4. /\ \A p \in Plan : UpdatePlan(p) \in Plain
      /\ \A i \in Actions : RecordKey(i) \in Plain
  BY EffectTypes DEF Plain, UpdatePlan, RecordKey
<1>5. /\ \A s \in RunStatus : PatchRun(s) \in Plain
      /\ \A s \in SettleStatus : Settle(s) \in Plain
  BY EffectTypes DEF Plain, PatchRun, Settle
<1>6. \A i \in Actions, k \in Attempts : EnqueueAct(i, k) \in Plain
  BY EffectTypes DEF Plain, EnqueueAct
<1>7. \A i \in Actions, k \in Attempts : <<g, i>> \notin succ => Execute(i, k) \in Harmless(g, succ)
  BY EffectTypes DEF Harmless, Execute
<1>8. \A i \in Actions, s \in ActionStatus :
         (<<g, i>> \in succ => s = COMPLETED) => UpsertAction(i, s) \in Harmless(g, succ)
  BY EffectTypes DEF Harmless, UpsertAction
<1> QED
  BY <1>1, <1>2, <1>3, <1>4, <1>5, <1>6, <1>7, <1>8

LEMMA RecordHarmless ==
    ASSUME NEW g, NEW succ, NEW q \in Plan, NEW i \in Actions, <<g, i>> \in succ => q[i] = COMPLETED
    PROVE  /\ RecordActionState(q, i) \in Seq(Harmless(g, succ))
           /\ <<UpdatePlan(q)>> \o RecordActionState(q, i) \in Seq(Harmless(g, succ))
<1> DEFINE H == Harmless(g, succ)
           a == UpsertAction(i, q[i])
           b == PatchRun(RunStatusOf(q))
           u == UpdatePlan(q)
<1>1. a \in H /\ b \in H /\ u \in H
  <2>1. q[i] \in ActionStatus /\ RunStatusOf(q) \in RunStatus
    BY PlanFacts DEF Plan
  <2> QED
    BY <2>1, HarmlessFacts
<1> HIDE DEF H, a, b, u
<1>2. If(Hydrates, <<a>>) \in Seq(H) /\ If(~isSubplan /\ RunStatusOf(q) # "running", <<b>>) \in Seq(H)
  BY <1>1, SeqOps DEF If
<1>3. RecordActionState(q, i) \in Seq(H)
  BY <1>2, SeqOps DEF RecordActionState, a, b
<1>4. <<u>> \o RecordActionState(q, i) \in Seq(H)
  BY <1>1, <1>3, SeqOps
<1> QED
  BY <1>3, <1>4 DEF H, u

\* Handling an action that was not performed repeats nothing.
LEMMA ActionHarmless ==
    ASSUME NEW g, NEW succ, NEW p \in Plan, NEW i \in Actions, NEW k \in Attempts, <<g, i>> \notin succ
    PROVE  {FailAction(p, i), StaleAction(p, i), SuggestAction(p, i), ToolRaised(p, i), StartAction(p, i, k),
            ToolFailed(p, i, k)} \subseteq Seq(Harmless(g, succ))
<1> DEFINE H == Harmless(g, succ)
           Q(s) == ReplaceAction(p, i, s)
           Rec(s) == RecordActionState(Q(s), i)
           Save(s) == <<UpdatePlan(Q(s))>> \o Rec(s)
<1>1. ASSUME NEW s \in ActionStatus PROVE Save(s) \in Seq(H) /\ Rec(s) \in Seq(H) /\ UpdatePlan(Q(s)) \in H
  <2>1. Q(s) \in Plan
    BY PlanFacts
  <2> HIDE DEF Q
  <2> QED
    BY <2>1, RecordHarmless, HarmlessFacts
<1>2. {FAILED, STALE, REQUIRES_APPROVAL, RUNNING, PENDING} \subseteq ActionStatus
  BY DEF ActionStatus
<1>3. /\ {Settle("failed"), Settle("waiting_for_approval"), EnqueueReplan, RecordKey(i), Raise, Execute(i, k)} \subseteq H
      /\ k + 1 < MaxAttempts => EnqueueAct(i, k + 1) \in H
  <2>1. k + 1 < MaxAttempts => k + 1 \in Attempts
    BY PlanExecutionAssumption DEF Attempts
  <2> QED
    BY <2>1, HarmlessFacts DEF SettleStatus
<1> HIDE DEF H
<1>4. SettleSubplan("failed") \in Seq(H) /\ SettleSubplan("waiting_for_approval") \in Seq(H)
  BY <1>3, SeqOps DEF SettleSubplan, If
<1>5. FailAction(p, i) \in Seq(H)
  <2>1. FailAction(p, i) = Save(FAILED) \o SettleSubplan("failed")
    BY DEF FailAction
  <2> HIDE DEF Save
  <2> QED
    BY <1>1, <1>2, <1>4, <2>1, SeqOps
<1>6. StaleAction(p, i) \in Seq(H)
  <2> DEFINE last == IF isSubplan THEN <<Settle("failed")>> ELSE <<EnqueueReplan>>
  <2>1. StaleAction(p, i) = Save(STALE) \o last
    BY DEF StaleAction
  <2>2. last \in Seq(H)
    BY <1>3, SeqOps
  <2> HIDE DEF Save, last
  <2> QED
    BY <1>1, <1>2, <2>1, <2>2, SeqOps
<1>7. SuggestAction(p, i) \in Seq(H)
  <2> DEFINE save == Save(REQUIRES_APPROVAL)
  <2>1. SuggestAction(p, i) = (save \o <<RecordKey(i)>>) \o SettleSubplan("waiting_for_approval")
    BY DEF SuggestAction
  <2>2. save \in Seq(H) /\ <<RecordKey(i)>> \in Seq(H)
    BY <1>1, <1>2, <1>3, SeqOps
  <2> HIDE DEF save
  <2>3. save \o <<RecordKey(i)>> \in Seq(H)
    BY <2>2, SeqOps
  <2> QED
    BY <1>4, <2>1, <2>3, SeqOps
<1>8. ToolRaised(p, i) \in Seq(H)
  BY <1>3, <1>5, SeqOps DEF ToolRaised, If
<1>9. StartAction(p, i, k) \in Seq(H)
  <2>1. StartAction(p, i, k) = Rec(RUNNING) \o <<UpdatePlan(Q(RUNNING)), Execute(i, k)>>
    BY DEF StartAction
  <2>2. <<UpdatePlan(Q(RUNNING)), Execute(i, k)>> \in Seq(H)
    BY <1>1, <1>2, <1>3
  <2> HIDE DEF Rec, Q
  <2> QED
    BY <1>1, <1>2, <2>1, <2>2, SeqOps
<1>10. ToolFailed(p, i, k) \in Seq(H)
  <2>1. RetryAction(p, i, k) = <<UpdatePlan(Q(PENDING)), EnqueueAct(i, k + 1)>> \o Rec(PENDING)
    BY DEF RetryAction
  <2>2. ASSUME k + 1 < MaxAttempts PROVE <<UpdatePlan(Q(PENDING)), EnqueueAct(i, k + 1)>> \in Seq(H)
    BY <1>1, <1>2, <1>3, <2>2
  <2> HIDE DEF Rec, Q
  <2>3. k + 1 < MaxAttempts => RetryAction(p, i, k) \in Seq(H)
    BY <1>1, <1>2, <2>1, <2>2, SeqOps
  <2> QED
    BY <1>5, <2>3 DEF ToolFailed
<1> QED
  BY <1>5, <1>6, <1>7, <1>8, <1>9, <1>10 DEF H

\* A success is saved and reported at once.
LEMMA SuccessReported ==
    ASSUME Hydrates, NEW g, NEW succ, NEW p \in Plan, NEW i \in Actions
    PROVE  ToolSucceeded(p, i) \in Seq(Harmless(g, succ)) /\ Reports(ToolSucceeded(p, i), i)
<1> DEFINE H == Harmless(g, succ)
           q == ReplaceAction(p, i, COMPLETED)
           u == UpdatePlan(q)
           a == UpsertAction(i, COMPLETED)
           b == If(~isSubplan /\ RunStatusOf(q) # "running", <<PatchRun(RunStatusOf(q))>>)
           last == <<RecordKey(i), EnqueueNext>>
<1>1. q \in Plan /\ q[i] = COMPLETED /\ RunStatusOf(q) \in RunStatus /\ COMPLETED \in ActionStatus
  BY PlanFacts DEF ActionStatus
<1>2. a \in H /\ u \in H /\ u.op = "update_plan" /\ b \in Seq(H) /\ last \in Seq(H)
  <2>1. a \in H /\ u \in H /\ PatchRun(RunStatusOf(q)) \in H /\ RecordKey(i) \in H /\ EnqueueNext \in H
    <3> HIDE DEF q
    <3> QED
      BY <1>1, HarmlessFacts
  <2>2. u.op = "update_plan"
    BY DEF UpdatePlan
  <2> HIDE DEF H, a, u
  <2> QED
    BY <2>1, <2>2, SeqOps DEF If
<1>3. ToolSucceeded(p, i) = (<<u>> \o (<<a>> \o b)) \o last
  <2>1. RecordActionState(q, i) = <<a>> \o b
    BY <1>1 DEF RecordActionState, If
  <2> QED
    BY <2>1 DEF ToolSucceeded
<1> HIDE DEF H, u, a, b, last, q
<1>4. <<u>> \o (<<a>> \o b) \in Seq(H) /\ <<a>> \o b \in Seq(H) /\ <<a>> \in Seq(H) /\ <<u>> \in Seq(H)
  BY <1>2, SeqOps
<1>5. (<<a>> \o b) \o last \in Seq(H)
  BY <1>2, <1>4, SeqOps
<1>6. ToolSucceeded(p, i) = <<u>> \o ((<<a>> \o b) \o last)
  <2>1. \A x, y, z \in Seq(H) : (x \o y) \o z = x \o (y \o z)
    BY ConcatAssociative
  <2> QED
    BY <1>2, <1>3, <1>4, <2>1
<1>7. Head(ToolSucceeded(p, i)) = u /\ Tail(ToolSucceeded(p, i)) = (<<a>> \o b) \o last
      /\ ToolSucceeded(p, i) # <<>> /\ ToolSucceeded(p, i) \in Seq(H)
  BY <1>2, <1>5, <1>6, Cons
<1>8. (<<a>> \o b) \o last # <<>> /\ Head((<<a>> \o b) \o last) = a
  <2>1. <<a>> \o b # <<>> /\ Head(<<a>> \o b) = a
    BY <1>2, Cons
  <2> QED
    BY <1>2, <1>4, <2>1, HeadOfConcat
<1> QED
  BY <1>2, <1>7, <1>8 DEF Reports, First, a, H

\* A plan that is resumed, or a new one, starts nothing at once.
LEMMA ResumeHarmless ==
    ASSUME TypeOK
    PROVE  Resume \in Seq(Plain)
<1>1. /\ {Settle("completed"), Settle("failed"), Settle("waiting_for_approval"), RejectPlan, PatchRun("failed")} \subseteq Plain
      /\ \A i \in NextPendingAction(GetPlan) : EnqueueAct(i, 0) \in Plain
  <2>1. 0 \in Attempts /\ NextPendingAction(GetPlan) \subseteq Actions
    BY PlanExecutionAssumption, PlanFacts DEF Attempts
  <2> QED
    BY <2>1, HarmlessFacts DEF SettleStatus, RunStatus
<1>2. /\ SettleSubplan("completed") \in Seq(Plain) /\ SettleSubplan("failed") \in Seq(Plain)
      /\ SettleSubplan("waiting_for_approval") \in Seq(Plain)
  BY <1>1, SeqOps DEF SettleSubplan, If
<1>3. <<RejectPlan, PatchRun("failed")>> \in Seq(Plain) /\ <<Settle("completed")>> \in Seq(Plain)
  BY <1>1
<1>4. EmptyPlan \in Seq(Plain) /\ If(~isSubplan, <<RejectPlan, PatchRun("failed")>>) \in Seq(Plain)
  BY <1>3, SeqOps DEF EmptyPlan, If
<1>5. ResumeReady \in Seq(Plain)
  <2>1. CASE GetPlanStatus = "running" /\ NextPendingAction(GetPlan) # {}
    <3> DEFINE i == CHOOSE i \in NextPendingAction(GetPlan) : TRUE
    <3>1. i \in NextPendingAction(GetPlan) /\ ResumeReady = <<EnqueueAct(i, 0)>>
      BY <2>1 DEF ResumeReady
    <3> HIDE DEF i
    <3> QED
      BY <1>1, <3>1, SeqOps
  <2>2. CASE ~(GetPlanStatus = "running" /\ NextPendingAction(GetPlan) # {})
    <3> DEFINE last == If(~isSubplan, <<RejectPlan, PatchRun("failed")>>)
    <3>1. ResumeReady \in {last, SettleSubplan("completed"), SettleSubplan("failed"), SettleSubplan("waiting_for_approval")}
      BY <2>2 DEF ResumeReady
    <3> HIDE DEF last
    <3> QED
      BY <1>2, <1>4, <3>1 DEF last
  <2> QED
    BY <2>1, <2>2
<1>6. Resume \in {ResumeReady, EmptyPlan, <<>>}
  BY DEF Resume
<1> QED
  BY <1>4, <1>5, <1>6, SeqOps

LEMMA PlanningHarmless ==
    ASSUME NEW t \in Planning, NEW k \in {<<>>, <<RecordPointerKey>>}
    PROVE  First(t \o k, "save_new_plan") \/ t \o k \in Seq(Plain)
<1> DEFINE R == SaveNewPlan("ready")
           E == SaveNewPlan("empty")
           x == RecordPlanCreated \o <<EnqueueAct(1, 0)>>
           y == EmptyPlan
<1>1. R \in Effect /\ E \in Effect /\ R.op = "save_new_plan" /\ E.op = "save_new_plan"
  BY EffectTypes DEF SaveNewPlan
<1>2. RecordPlanCreated \in Seq(Effect) /\ <<EnqueueAct(1, 0)>> \in Seq(Effect) /\ y \in Seq(Effect)
  <2>1. 1 \in Actions /\ 0 \in Attempts
    BY NumActionsAssumption, PlanExecutionAssumption DEF Actions, Attempts
  <2>2. /\ UpsertActions \in Effect /\ EnqueueAct(1, 0) \in Effect /\ Settle("completed") \in Effect
        /\ RejectPlan \in Effect /\ PatchRun("failed") \in Effect
    BY <2>1, EffectTypes DEF SettleStatus, RunStatus
  <2>3. <<UpsertActions>> \in Seq(Effect)
    BY <2>2, SeqOps
  <2> QED
    BY <2>2, <2>3, SeqOps DEF RecordPlanCreated, If, EmptyPlan
<1>3. k \in Seq(Effect) /\ k \in Seq(Plain)
  <2>1. RecordPointerKey \in Plain /\ RecordPointerKey \in Effect
    BY HarmlessFacts, EffectTypes
  <2> QED
    BY <2>1, SeqOps
<1>4. x \in Seq(Effect)
  BY <1>2, SeqOps
<1>5. \/ t = <<R>> \o x \/ t = <<E>> \o y \/ t = <<PatchRun("failed"), Raise>>
  <2>1. CASE t = (<<R>> \o RecordPlanCreated) \o <<EnqueueAct(1, 0)>>
    <3>1. \A a, b, c \in Seq(Effect) : (a \o b) \o c = a \o (b \o c)
      BY ConcatAssociative
    <3>2. <<R>> \in Seq(Effect)
      BY <1>1, SeqOps
    <3> QED
      BY <1>2, <2>1, <3>1, <3>2
  <2> QED
    BY <2>1 DEF Planning
<1> HIDE DEF R, E, x, y
<1>6. ASSUME NEW e \in Effect, e.op = "save_new_plan", NEW z \in Seq(Effect), t = <<e>> \o z
      PROVE  First(t \o k, "save_new_plan")
  <2>1. t \in Seq(Effect) /\ t # <<>> /\ Head(t) = e
    BY <1>6, Cons
  <2>2. t \o k # <<>> /\ Head(t \o k) = e
    BY <1>3, <2>1, HeadOfConcat
  <2> QED
    BY <1>6, <2>2 DEF First
<1>7. ASSUME t = <<PatchRun("failed"), Raise>> PROVE t \o k \in Seq(Plain)
  <2>1. PatchRun("failed") \in Plain /\ Raise \in Plain
    BY HarmlessFacts DEF RunStatus
  <2>2. t \in Seq(Plain)
    BY <1>7, <2>1
  <2> QED
    BY <1>3, <2>2, SeqOps
<1> QED
  BY <1>1, <1>2, <1>4, <1>5, <1>6, <1>7

LEMMA RequestHarmless ==
    ASSUME TruthInv, NEW todo \in RequestEffects \cup ReplanEffects
    PROVE  First(todo, "save_new_plan") \/ todo \in Seq(Plain)
<1>1. Resume \in Seq(Plain) /\ <<>> \in Seq(Plain)
  BY ResumeHarmless, SeqOps DEF TruthInv, TypeInv
<1>2. RecordPointerKey \in Plain
  BY HarmlessFacts
<1>3. todo \in Seq(Effect)
  BY RequestTrue DEF Ready
<1>4. todo = todo \o <<>>
  BY <1>3, ConcatEmptySeq
<1>5. ASSUME todo \in Planning PROVE First(todo, "save_new_plan") \/ todo \in Seq(Plain)
  BY <1>4, <1>5, PlanningHarmless
<1>6. ASSUME NEW d \in DriveEffects, todo = d \o <<RecordPointerKey>>
      PROVE  First(todo, "save_new_plan") \/ todo \in Seq(Plain)
  <2>1. CASE d \in Planning
    BY <1>6, <2>1, PlanningHarmless
  <2>2. CASE d = Resume \/ d = <<>>
    BY <1>1, <1>2, <1>6, <2>2, SeqOps
  <2> QED
    BY <2>1, <2>2 DEF DriveEffects
<1> QED
  BY <1>1, <1>5, <1>6 DEF RequestEffects, ReplanEffects, DriveEffects

\* An action that was performed is read as completed.
LEMMA ReadHarmless ==
    ASSUME TypeOK, SavedTrue, ExecutedIsTrue, Hydrates, AllShown, gen > 0, NEW i \in Actions, NEW k \in Attempts,
           NEW todo \in ActionEffects(gen, GetPlan, i, k)
    PROVE  todo \in Seq(Harmless(gen, succeeded))
<1> DEFINE H == Harmless(gen, succeeded)
<1>1. GetPlan \in Plan
  BY GetPlanTrue
<1>2. ASSUME <<gen, i>> \in succeeded PROVE GetPlan[i] = COMPLETED
  <2>1. api[<<gen, i>>] = "executed"
    BY <1>2 DEF AllShown
  <2>2. GetPlan[i] = ActionStatusFromRecord(i, api[<<gen, i>>], plan[i])
    BY DEF GetPlan
  <2> QED
    BY <2>1, <2>2 DEF ActionStatusFromRecord
<1>3. CASE todo = <<>>
  BY <1>3, SeqOps
<1>4. CASE todo = Continue
  <2>1. EnqueueNext \in H /\ Settle("completed") \in H /\ PatchRun("completed") \in H
    BY HarmlessFacts DEF SettleStatus, RunStatus
  <2> HIDE DEF H
  <2>2. PlanCompleted \in Seq(H) /\ <<EnqueueNext>> \in Seq(H)
    BY <2>1, SeqOps DEF PlanCompleted
  <2>3. Continue \in Seq(H)
    BY <2>2, SeqOps DEF Continue, If
  <2> QED
    BY <1>4, <2>3 DEF H
<1>5. CASE GetPlan[i] = PENDING /\ todo \in ValidatedEffects(GetPlan, i, k)
  <2>1. <<gen, i>> \notin succeeded
    BY <1>2, <1>5, StatusDistinct
  <2> QED
    BY <1>1, <1>5, <2>1, ActionHarmless DEF ValidatedEffects
<1> QED
  BY <1>3, <1>4, <1>5 DEF ActionEffects

-----------------------------------------------------------------------------
(***************************************************************************)
(* Every step keeps the invariant.                                         *)
(***************************************************************************)
\* Unless the only worker is reporting, every success can be seen.
LEMMA NotReporting ==
    ASSUME Serial, NothingRepeated, NEW w \in Workers,
           ~First(Todo(w), "upsert_agent_action"), ~First(Todo(w), "update_plan")
    PROVE  AllShown
<1> SUFFICES ASSUME NEW id \in succeeded, api[id] # "executed" PROVE FALSE
  BY DEF AllShown
<1>1. Reports(Todo(w), id[2])
  BY DEF NothingRepeated, Shown, Serial
<1>2. UpsertAction(id[2], COMPLETED).op = "upsert_agent_action"
  BY DEF UpsertAction
<1> QED
  BY <1>1, <1>2 DEF Reports, First

\* The rest of a harmless sequence.
LEMMA RestHarmless ==
    ASSUME NothingRepeated, NEW w \in Workers, Todo(w) # <<>>, Head(Todo(w)).op # "save_new_plan"
    PROVE  /\ Head(Todo(w)) \in Harmless(inv[w].gen, succeeded)
           /\ Tail(Todo(w)) \in Seq(Harmless(inv[w].gen, succeeded))
<1>1. Todo(w) \in Seq(Harmless(inv[w].gen, succeeded))
  BY DEF NothingRepeated, TodoHarmless, First
<1> QED
  BY <1>1, SeqOps

\* A step of the only worker that succeeds with nothing new and hides nothing.
LEMMA QuietStep ==
    ASSUME Serial, TruthInv, TruthInv', NothingRepeated, AllShown, NEW w \in Workers, succeeded' = succeeded,
           plans' \in {plans, plans + 1}, \A id \in succeeded : api'[id] = "executed",
           TodoHarmless(inv'[w].gen, inv'[w].todo, succeeded)
    PROVE  NothingRepeated'
<1>1. \A id \in succeeded : id[1] <= plans'
  <2>1. plans \in Nat /\ \A id \in succeeded : id[1] \in Nat
    BY DEF TruthInv, TypeInv, TypeOK, ActionIds, Gens
  <2> QED
    BY <2>1 DEF NothingRepeated
<1>2. \A id \in succeeded' : Shown(id)'
  BY DEF Shown
<1>3. ASSUME NEW u \in Workers PROVE TodoHarmless(inv'[u].gen, Todo(u)', succeeded')
  <2>1. u = w
    BY DEF Serial
  <2> QED
    BY <2>1 DEF Todo
<1> QED
  BY <1>1, <1>2, <1>3 DEF NothingRepeated

LEMMA ProceedFields ==
    ASSUME TruthInv, NEW w \in Workers, NEW t, Proceed(w, t)
    PROVE  inv'[w].gen = inv[w].gen /\ inv'[w].todo = t
<1>1. inv \in [Workers -> Invocation]
  BY DEF TruthInv, TypeInv
<1>2. inv'[w] = [inv[w] EXCEPT !.todo = t]
  BY <1>1 DEF Proceed
<1> QED
  BY <1>1, <1>2 DEF Invocation

LEMMA PlainHydration ==
    ASSUME Serial, TruthInv, TruthInv', NothingRepeated, NEW w \in Workers,
           \/ DoRejectPlan(w) \/ DoRecordKey(w) \/ DoRecordPointerKey(w) \/ DoPatchRun(w)
           \/ DoEnqueueAct(w) \/ DoEnqueueReplan(w) \/ DoSettle(w)
    PROVE  NothingRepeated'
<1>1. /\ Todo(w) # <<>>
      /\ Head(Todo(w)).op \in {"reject_plan", "record_idempotency_key", "record_pointer_key",
             "update_agent_run_status", "enqueue_action", "enqueue_replan", "settle"}
      /\ Proceed(w, Tail(Todo(w))) /\ UNCHANGED <<plans, api, succeeded>>
  BY DEF DoRejectPlan, DoRecordKey, DoRecordPointerKey, DoPatchRun, DoEnqueueAct, DoEnqueueReplan, DoSettle,
         NextIs, saved, tools
<1>2. AllShown
  <2>1. ~First(Todo(w), "upsert_agent_action") /\ ~First(Todo(w), "update_plan")
    BY <1>1 DEF First
  <2> QED
    BY <2>1, NotReporting
<1>3. TodoHarmless(inv'[w].gen, inv'[w].todo, succeeded)
  BY <1>1, RestHarmless, ProceedFields DEF TodoHarmless
<1> QED
  BY <1>1, <1>2, <1>3, QuietStep DEF AllShown

LEMMA SaveNewHydration ==
    ASSUME Serial, TruthInv, TruthInv', NothingRepeated, NEW w \in Workers, DoSaveNewPlan(w)
    PROVE  NothingRepeated'
<1>1. /\ Todo(w) # <<>> /\ Head(Todo(w)).op = "save_new_plan"
      /\ gen' = plans + 1 /\ plans' = plans + 1
      /\ inv' = [inv EXCEPT ![w].gen = gen', ![w].plan = NewPlan, ![w].todo = Tail(@)]
      /\ UNCHANGED <<api, succeeded>>
  BY DEF DoSaveNewPlan, NextIs, tools
<1>2. AllShown
  <2>1. ~First(Todo(w), "upsert_agent_action") /\ ~First(Todo(w), "update_plan")
    BY <1>1 DEF First
  <2> QED
    BY <2>1, NotReporting
<1>3. Tail(Todo(w)) \in Seq(Fresh) /\ plans \in Nat
  BY <1>1, NextEffect
<1>4. Fresh \subseteq Harmless(plans + 1, succeeded)
  <2>1. \A i : <<plans + 1, i>> \notin succeeded
    BY <1>3 DEF NothingRepeated
  <2> QED
    BY <2>1 DEF Fresh, Harmless
<1>5. Tail(Todo(w)) \in Seq(Harmless(plans + 1, succeeded))
  BY <1>3, <1>4, SeqMono
<1>6. inv'[w].gen = plans + 1 /\ inv'[w].todo = Tail(Todo(w))
  <2>1. inv \in [Workers -> Invocation]
    BY DEF TruthInv, TypeInv
  <2> QED
    BY <1>1, <2>1 DEF Invocation, Todo
<1> QED
  BY <1>1, <1>2, <1>5, <1>6, QuietStep DEF TodoHarmless, AllShown

\* The saving of a completed action is followed by its report.
LEMMA UpdateHydration ==
    ASSUME Serial, TruthInv, TruthInv', NothingRepeated, NEW w \in Workers, DoUpdatePlan(w)
    PROVE  NothingRepeated'
<1>1. /\ Todo(w) # <<>> /\ Head(Todo(w)).op = "update_plan"
      /\ inv' = [inv EXCEPT ![w].plan = plan', ![w].todo = Tail(@)]
      /\ UNCHANGED <<plans, api, succeeded>>
  BY DEF DoUpdatePlan, NextIs, tools
<1>2. inv'[w].gen = inv[w].gen /\ inv'[w].todo = Tail(Todo(w))
  <2>1. inv \in [Workers -> Invocation]
    BY DEF TruthInv, TypeInv
  <2> QED
    BY <1>1, <2>1 DEF Invocation, Todo
<1>3. ASSUME NEW id \in succeeded PROVE Shown(id)'
  <2>1. CASE api[id] = "executed"
    BY <1>1, <2>1 DEF Shown
  <2>2. CASE api[id] # "executed"
    <3>1. inv[w].gen = id[1] /\ Reports(Todo(w), id[2])
      BY <2>2 DEF NothingRepeated, Shown, Serial
    <3>2. UpsertAction(id[2], COMPLETED).op = "upsert_agent_action"
      BY DEF UpsertAction
    <3>3. Tail(Todo(w)) # <<>> /\ Head(Tail(Todo(w))) = UpsertAction(id[2], COMPLETED)
      BY <1>1, <3>1, <3>2 DEF Reports
    <3>4. Reports(Tail(Todo(w)), id[2])
      BY <3>3 DEF Reports
    <3> QED
      BY <1>2, <3>1, <3>4 DEF Shown, Todo
  <2> QED
    BY <2>1, <2>2
<1>4. ASSUME NEW u \in Workers PROVE TodoHarmless(inv'[u].gen, Todo(u)', succeeded')
  <2>1. u = w
    BY DEF Serial
  <2> QED
    BY <1>1, <1>2, <2>1, RestHarmless DEF Todo, TodoHarmless
<1> QED
  BY <1>1, <1>3, <1>4 DEF NothingRepeated

LEMMA UpsertHydration ==
    ASSUME Serial, TruthInv, TruthInv', NothingRepeated, NEW w \in Workers, DoUpsertAction(w)
    PROVE  NothingRepeated'
<1> DEFINE e == Head(Todo(w))
           g == inv[w].gen
<1>1. /\ Todo(w) # <<>> /\ e.op = "upsert_agent_action" /\ Proceed(w, Tail(Todo(w)))
      /\ api' = [id \in ActionIds |-> IF id[1] = g /\ id[2] \in e.actions
                                      THEN ActionStatusToApi(id[2], e.status) ELSE api[id]]
      /\ UNCHANGED <<plans, succeeded>>
  BY DEF DoUpsertAction, NextIs, tools, saved
<1>2. e \in Harmless(g, succeeded) /\ Tail(Todo(w)) \in Seq(Harmless(g, succeeded))
  BY <1>1, RestHarmless
<1>3. ASSUME NEW id \in succeeded PROVE api'[id] = "executed"
  <2>1. id \in ActionIds /\ id = <<id[1], id[2]>>
    BY DEF TruthInv, TypeInv, TypeOK, ActionIds
  <2>2. CASE id[1] = g /\ id[2] \in e.actions
    <3>1. e.status = COMPLETED
      BY <1>1, <1>2, <2>1, <2>2 DEF Harmless
    <3>2. ActionStatusToApi(id[2], COMPLETED) = "executed"
      BY DEF ActionStatusToApi, COMPLETED, FAILED, SKIPPED, STALE, RUNNING, REQUIRES_APPROVAL, PENDING
    <3> QED
      BY <1>1, <2>1, <2>2, <3>1, <3>2
  <2>3. CASE ~(id[1] = g /\ id[2] \in e.actions)
    <3>1. api'[id] = api[id]
      BY <1>1, <2>1, <2>3
    <3>2. ASSUME api[id] # "executed" PROVE FALSE
      <4>1. g = id[1] /\ Reports(Todo(w), id[2])
        BY <3>2 DEF NothingRepeated, Shown, Serial
      <4>2. e = UpsertAction(id[2], COMPLETED)
        BY <1>1, <4>1 DEF Reports, First
      <4>3. UpsertAction(id[2], COMPLETED).actions = {id[2]}
        BY DEF UpsertAction
      <4> QED
        BY <2>3, <4>1, <4>2, <4>3
    <3> QED
      BY <3>1, <3>2
  <2> QED
    BY <2>2, <2>3
<1>4. inv'[w].gen = g /\ inv'[w].todo = Tail(Todo(w))
  BY <1>1, ProceedFields
<1>5. ASSUME NEW u \in Workers PROVE TodoHarmless(inv'[u].gen, Todo(u)', succeeded')
  <2>1. u = w
    BY DEF Serial
  <2> QED
    BY <1>1, <1>2, <1>4, <2>1 DEF Todo, TodoHarmless
<1> QED
  BY <1>1, <1>3, <1>5 DEF NothingRepeated, Shown

LEMMA ExecuteHydration ==
    ASSUME Serial, Hydrates, TruthInv, TruthInv', NothingRepeated, NEW w \in Workers, DoExecute(w)
    PROVE  NothingRepeated'
<1> DEFINE i == Head(Todo(w)).action
           k == Head(Todo(w)).attempt
           g == inv[w].gen
           p == inv[w].plan
<1>1. Todo(w) # <<>> /\ Head(Todo(w)).op = "execute" /\ UNCHANGED <<plans, api>>
  BY DEF DoExecute, NextIs, saved
<1>2. AllShown
  <2>1. ~First(Todo(w), "upsert_agent_action") /\ ~First(Todo(w), "update_plan")
    BY <1>1 DEF First
  <2> QED
    BY <2>1, NotReporting
<1>3. /\ Head(Todo(w)) \in Effect /\ p \in Plan /\ g <= plans /\ plans \in Nat
      /\ <<g, i>> \notin succeeded
  BY <1>1, NextEffect, RestHarmless DEF Harmless
<1>4. i \in Actions /\ k \in Attempts
  BY <1>1, <1>3, EffectFields
<1>5. PICK t : /\ Proceed(w, t)
               /\ \/ succeeded' = succeeded /\ t \in {ToolRaised(p, i), ToolFailed(p, i, k)}
                  \/ succeeded' = succeeded \cup {<<g, i>>} /\ t = ToolSucceeded(p, i)
  BY DEF DoExecute
<1>6. inv'[w].gen = g /\ inv'[w].todo = t
  BY <1>5, ProceedFields
<1> HIDE DEF i, k, g, p
<1>7. CASE succeeded' = succeeded /\ t \in {ToolRaised(p, i), ToolFailed(p, i, k)}
  <2>1. t \in Seq(Harmless(g, succeeded))
    BY <1>3, <1>4, <1>7, ActionHarmless
  <2> QED
    BY <1>1, <1>2, <1>6, <1>7, <2>1, QuietStep DEF TodoHarmless, AllShown
<1>8. CASE succeeded' = succeeded \cup {<<g, i>>} /\ t = ToolSucceeded(p, i)
  <2>1. t \in Seq(Harmless(g, succeeded')) /\ Reports(t, i)
    BY <1>3, <1>4, <1>8, SuccessReported
  <2>2. ASSUME NEW id \in succeeded' PROVE id[1] <= plans' /\ Shown(id)'
    <3>1. CASE id \in succeeded
      BY <1>1, <1>2, <3>1 DEF NothingRepeated, AllShown, Shown
    <3>2. CASE id = <<g, i>>
      <4>1. id[1] = g /\ id[2] = i
        BY <3>2
      <4> QED
        BY <1>1, <1>3, <1>6, <2>1, <4>1 DEF Shown, Todo
    <3> QED
      BY <1>8, <3>1, <3>2
  <2>3. ASSUME NEW u \in Workers PROVE TodoHarmless(inv'[u].gen, Todo(u)', succeeded')
    <3>1. u = w
      BY DEF Serial
    <3> QED
      BY <1>6, <2>1, <3>1 DEF Todo, TodoHarmless
  <2> QED
    BY <2>2, <2>3 DEF NothingRepeated
<1> QED
  BY <1>5, <1>7, <1>8

LEMMA EnqueueNextHydration ==
    ASSUME Serial, Hydrates, TruthInv, TruthInv', NothingRepeated, NEW w \in Workers, DoEnqueueNext(w)
    PROVE  NothingRepeated'
<1> DEFINE rest == Tail(Todo(w))
           g == inv[w].gen
           p == inv[w].plan
           H == Harmless(g, succeeded)
<1>1. Todo(w) # <<>> /\ Head(Todo(w)).op = "enqueue_next_action" /\ UNCHANGED <<plans, api, succeeded>>
  BY DEF DoEnqueueNext, NextIs, saved, tools
<1>2. AllShown
  <2>1. ~First(Todo(w), "upsert_agent_action") /\ ~First(Todo(w), "update_plan")
    BY <1>1 DEF First
  <2> QED
    BY <2>1, NotReporting
<1>3. rest \in Seq(H) /\ g \in Gens /\ inv \in [Workers -> Invocation]
  BY <1>1, RestHarmless, NextEffect DEF Planless, TruthInv, TypeInv
<1>4. \A j \in NextPendingAction(p) : j \in Actions
  BY PlanFacts
<1>5. 0 \in Attempts
  BY PlanExecutionAssumption DEF Attempts
<1>6. ASSUME NEW t \in Seq(H), inv'[w].gen = g, inv'[w].todo = t \o rest PROVE NothingRepeated'
  <2>1. t \o rest \in Seq(H)
    <3> HIDE DEF H, rest
    <3> QED
      BY <1>3, <1>6, SeqOps
  <2> QED
    BY <1>1, <1>2, <1>6, <2>1, QuietStep DEF TodoHarmless, AllShown
<1>7. CASE Proceed(w, If(PlanStatus(p) = "completed", PlanCompleted) \o rest)
  <2>1. Settle("completed") \in H /\ PatchRun("completed") \in H
    BY HarmlessFacts DEF SettleStatus, RunStatus
  <2> HIDE DEF H
  <2>2. If(PlanStatus(p) = "completed", PlanCompleted) \in Seq(H)
    BY <2>1, SeqOps DEF If, PlanCompleted
  <2> QED
    BY <1>6, <1>7, <2>2, ProceedFields
<1>8. ASSUME NEW j \in NextPendingAction(p), Proceed(w, <<EnqueueAct(j, 0)>> \o rest) PROVE NothingRepeated'
  <2>1. EnqueueAct(j, 0) \in H
    BY <1>4, <1>5, HarmlessFacts
  <2>2. <<EnqueueAct(j, 0)>> \in Seq(H)
    BY <2>1, SeqOps
  <2> QED
    BY <1>6, <1>8, <2>2, ProceedFields
<1>9. ASSUME NEW j \in NextPendingAction(p), NEW todo \in InlineEffects(w, j),
             inv' = [inv EXCEPT ![w].plan = GetPlan, ![w].used = @ + 1, ![w].todo = todo \o rest]
      PROVE  NothingRepeated'
  <2>1. todo \in Seq(H)
    <3>1. CASE todo = <<Raise>>
      BY <3>1, HarmlessFacts, SeqOps
    <3>2. CASE gen = g /\ todo \in ActionEffects(gen, GetPlan, j, 0)
      <4>1. gen > 0
        BY <1>3, <3>2, PlanExecutionAssumption DEF Gens
      <4> QED
        BY <1>2, <1>4, <1>5, <3>2, <4>1, ReadHarmless DEF TruthInv, TypeInv
    <3> QED
      BY <3>1, <3>2 DEF InlineEffects
  <2>2. inv'[w].gen = g /\ inv'[w].todo = todo \o rest
    BY <1>3, <1>9 DEF Invocation
  <2> QED
    BY <1>6, <2>1, <2>2
<1> QED
  <2> HIDE DEF H
  <2> QED
    BY <1>7, <1>8, <1>9 DEF DoEnqueueNext

LEMMA EndHydration ==
    ASSUME Serial, TruthInv, TruthInv', NothingRepeated, NEW w \in Workers, DoRaise(w) \/ End(w)
    PROVE  NothingRepeated'
<1>1. inv' = [inv EXCEPT ![w] = Idle] /\ UNCHANGED <<plans, api, succeeded>>
  BY DEF DoRaise, End, saved, tools
<1>2. AllShown
  <2>1. ~First(Todo(w), "upsert_agent_action") /\ ~First(Todo(w), "update_plan")
    BY DEF First, DoRaise, End, NextIs
  <2> QED
    BY <2>1, NotReporting
<1>3. inv'[w] = Idle /\ Idle.todo = <<>> /\ inv \in [Workers -> Invocation]
  BY <1>1, IdleFacts DEF TruthInv, TypeInv
<1>4. TodoHarmless(inv'[w].gen, inv'[w].todo, succeeded)
  BY <1>3, SeqOps DEF TodoHarmless
<1> QED
  BY <1>1, <1>2, <1>4, QuietStep DEF AllShown

\* A user decides on an action that was proposed, not performed.
LEMMA DecisionHydration ==
    ASSUME TruthInv, NothingRepeated, NEW i \in Actions, UserDecides(i)
    PROVE  NothingRepeated'
<1>1. UNCHANGED <<plans, succeeded, inv>> /\ api[<<gen, i>>] = "proposed"
      /\ \E s : api' = [api EXCEPT ![<<gen, i>>] = s]
  BY DEF UserDecides, saved, tools
<1>2. \A id \in succeeded : api[id] = "executed" => api'[id] = "executed"
  <2>1. succeeded \subseteq ActionIds /\ api \in [ActionIds -> ApiStatus]
    BY DEF TruthInv, TypeInv, TypeOK
  <2> QED
    BY <1>1, <2>1
<1>3. \A id \in succeeded : Shown(id)'
  <2> TAKE id \in succeeded
  <2>1. Shown(id)
    BY DEF NothingRepeated
  <2> QED
    BY <1>1, <1>2, <2>1 DEF Shown, Todo
<1>4. \A w \in Workers : TodoHarmless(inv[w].gen, inv[w].todo, succeeded)
  BY DEF NothingRepeated, Todo
<1> QED
  BY <1>1, <1>3, <1>4 DEF NothingRepeated, Todo

LEMMA BeginHydration ==
    ASSUME Serial, Hydrates, TruthInv, TruthInv', NothingRepeated, NEW w \in Workers,
           \/ BeginDrive(w)
           \/ \E g \in Gens : BeginReplan(w, g)
           \/ \E g \in Gens, i \in Actions, k \in Attempts : BeginAction(w, g, i, k)
    PROVE  NothingRepeated'
<1>1. AllShown
  <2>1. inv[w] = Idle /\ Idle.todo = <<>>
    BY IdleFacts DEF BeginDrive, BeginReplan, BeginAction, Receives
  <2>2. Todo(w) = <<>>
    BY <2>1 DEF Todo
  <2>3. ~First(Todo(w), "upsert_agent_action") /\ ~First(Todo(w), "update_plan")
    BY <2>2 DEF First
  <2> QED
    BY <2>3, NotReporting
<1>2. ASSUME NEW m, NEW todo, Invoke(w, m, todo), TodoHarmless(gen, todo, succeeded) PROVE NothingRepeated'
  <2>1. /\ inv' = [inv EXCEPT ![w] = [msg |-> m, gen |-> gen, plan |-> GetPlan, used |-> 0, todo |-> todo]]
        /\ UNCHANGED <<plans, api, succeeded>>
    BY <1>2 DEF Invoke, saved, tools
  <2>2. inv'[w].gen = gen /\ inv'[w].todo = todo
    BY <2>1 DEF TruthInv, TypeInv
  <2> QED
    BY <1>1, <1>2, <2>1, <2>2, QuietStep DEF AllShown
<1>3. ASSUME NEW todo \in RequestEffects \cup ReplanEffects PROVE TodoHarmless(gen, todo, succeeded)
  BY RequestHarmless, HarmlessFacts DEF TodoHarmless
<1>4. CASE BeginDrive(w) \/ \E g \in Gens : BeginReplan(w, g)
  <2>1. PICK m, todo : todo \in RequestEffects \cup ReplanEffects /\ Invoke(w, m, todo)
    BY <1>4 DEF BeginDrive, BeginReplan
  <2> QED
    BY <1>2, <1>3, <2>1
<1>5. ASSUME NEW g \in Gens, NEW i \in Actions, NEW k \in Attempts, BeginAction(w, g, i, k) PROVE NothingRepeated'
  <2>1. PICK todo \in ActionEffects(gen, GetPlan, i, k) : Invoke(w, Act(g, i, k), todo)
    BY <1>5 DEF BeginAction
  <2>2. gen > 0
    BY <1>5, PlanExecutionAssumption DEF BeginAction, Gens
  <2>3. todo \in Seq(Harmless(gen, succeeded))
    BY <1>1, <2>1, <2>2, ReadHarmless DEF TruthInv, TypeInv
  <2> QED
    BY <1>2, <2>1, <2>3 DEF TodoHarmless
<1> QED
  BY <1>4, <1>5

LEMMA NextHydration == Serial /\ Hydrates /\ HydrationInv /\ [Next]_vars => HydrationInv'
<1> SUFFICES ASSUME Serial, Hydrates, HydrationInv, [Next]_vars, crashes' = 0 PROVE NothingRepeated'
  BY NextTruth DEF HydrationInv
<1>1. TruthInv /\ TruthInv'
  BY NextTruth DEF HydrationInv
<1>2. ASSUME NEW w \in Workers, Crash(w) PROVE FALSE
  BY <1>1, <1>2, PlanExecutionAssumption DEF Crash, TruthInv, TypeInv, TypeOK
<1>3. crashes = 0 \/ \E w \in Workers : Crash(w)
  <2>1. UNCHANGED vars => crashes' = crashes
    BY DEF vars
  <2>2. ASSUME NEW w \in Workers, Perform(w) PROVE crashes' = crashes
    BY <2>2 DEF Perform, DoSaveNewPlan, DoRejectPlan, DoUpdatePlan, DoRecordKey, DoRecordPointerKey, DoPatchRun,
                DoUpsertAction, DoEnqueueAct, DoEnqueueReplan, DoSettle, DoExecute, DoEnqueueNext, DoRaise, End
  <2>3. \A w \in Workers : BeginDrive(w) \/ (\E g \in Gens : BeginReplan(w, g))
           \/ (\E g \in Gens, i \in Actions, k \in Attempts : BeginAction(w, g, i, k)) => crashes' = crashes
    BY DEF BeginDrive, BeginReplan, BeginAction, Invoke
  <2>4. \A i \in Actions : UserDecides(i) => crashes' = crashes
    BY DEF UserDecides
  <2> QED
    BY <2>1, <2>2, <2>3, <2>4 DEF Next
<1>4. NothingRepeated
  BY <1>2, <1>3 DEF HydrationInv
<1>5. CASE UNCHANGED vars
  <2>1. UNCHANGED <<plans, succeeded, inv, api>>
    BY <1>5 DEF vars, saved, tools
  <2> QED
    BY <1>4, <2>1 DEF NothingRepeated, Shown, Todo
<1>6. ASSUME NEW w \in Workers, Perform(w) PROVE NothingRepeated'
  BY <1>1, <1>4, <1>6, PlainHydration, SaveNewHydration, UpdateHydration, UpsertHydration, ExecuteHydration,
     EnqueueNextHydration, EndHydration DEF Perform
<1>7. ASSUME NEW i \in Actions, UserDecides(i) PROVE NothingRepeated'
  BY <1>1, <1>4, <1>7, DecisionHydration
<1> QED
  BY <1>1, <1>2, <1>4, <1>5, <1>6, <1>7, BeginHydration DEF Next

-----------------------------------------------------------------------------
\* Whether the statuses of actions are read back from the Prism API or not, and
\* however often events are delivered, ActionEventHandler.handle repeats a tool
\* call that succeeded only when an invocation was cut off: redelivery, retries,
\* replans and the decisions of users alone never make it do so.
THEOREM RepeatsNeedACrash == Serial => (Spec => []RepeatsOnlyAfterCrash)
<1> SUFFICES ASSUME Serial PROVE Spec => []RepeatsOnlyAfterCrash
  OBVIOUS
<1>1. CASE ~Hydrates
  <2>1. Spec => []NeverRepeatsSuccess
    BY <1>1, SuccessIsNeverRepeated
  <2>2. NeverRepeatsSuccess => RepeatsOnlyAfterCrash
    BY DEF RepeatsOnlyAfterCrash
  <2> QED
    BY <2>1, <2>2, PTL
<1>2. CASE Hydrates
  <2>1. Init => HydrationInv
    <3> SUFFICES ASSUME Init PROVE HydrationInv
      OBVIOUS
    <3>1. TruthInv
      BY InitTruth
    <3>2. succeeded = {} /\ \A w \in Workers : inv[w] = Idle
      BY DEF Init
    <3>3. \A w \in Workers : Todo(w) = <<>>
      BY <3>2, IdleFacts DEF Todo
    <3> QED
      BY <3>1, <3>2, <3>3, SeqOps DEF HydrationInv, NothingRepeated, TodoHarmless
  <2>2. HydrationInv /\ [Next]_vars => HydrationInv'
    BY <1>2, NextHydration
  <2>3. HydrationInv => RepeatsOnlyAfterCrash
    <3> SUFFICES ASSUME HydrationInv, crashes = 0, NEW w \in Workers, NextIs(w, "execute")
                 PROVE  <<inv[w].gen, Head(Todo(w)).action>> \notin succeeded
      BY DEF RepeatsOnlyAfterCrash, NeverRepeatsSuccess
    <3>1. Todo(w) # <<>> /\ Head(Todo(w)).op = "execute" /\ NothingRepeated
      BY DEF NextIs, HydrationInv
    <3> QED
      BY <3>1, RestHarmless DEF Harmless
  <2> QED
    BY <2>1, <2>2, <2>3, PTL DEF Spec
<1> QED
  BY <1>1, <1>2
=============================================================================
