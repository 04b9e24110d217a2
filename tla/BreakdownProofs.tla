--------------------------- MODULE BreakdownProofs ---------------------------
(***************************************************************************)
(* Proofs about the planner and the work-item and sprint tools, for all    *)
(* items, members and plans, every limit of the tools and every number of  *)
(* edits and interruptions.                                                *)
(*                                                                         *)
(* A tree is created in waves.  The nodes of a wave lie strictly below     *)
(* those that exist, so no node is in two waves; the children of what was  *)
(* created are in the wave or above it, so when there is no next wave all  *)
(* nodes exist.                                                            *)
(***************************************************************************)
EXTENDS Breakdown, FiniteSetTheorems, WellFoundedInduction, TLAPS

-----------------------------------------------------------------------------
(***************************************************************************)
(* The inductive invariant.                                                *)
(***************************************************************************)
\* The budget was not spent when the generation began.
BudgetKept ==
    /\ elapsed \in Nat
    /\ phase = "planning" => elapsed <= TimeBudget
    /\ PlanningBounded

\* Every item has its three fields.
ItemShape(item) ==
    item = [status |-> item.status, description |-> item.description, owners |-> item.owners]

BoardKept ==
    /\ context \in [Items -> Item]
    /\ board = [i \in Items |-> board[i]]
    /\ \A i \in Items : ItemShape(board[i])
    /\ HumanWorkKept

Active == {"planning", "acting", "creating", "updating"}

PlanFits ==
    /\ IsSequence(plan)
    /\ \A k \in DOMAIN plan : plan[k].tool = Tree => IsTree(plan[k].input)

SprintType == [by : {"run", "other"}, status : {"planned", "active"}]

\* Where the handler is, and what it has left of a tool that is not at work.
ControlFits ==
    /\ phase \in Active \cup Ended
    /\ next \in Nat \ {0}
    /\ interruptions \in Nat
    /\ PlanFits
    /\ phase = "planning" => next = 1 /\ backend = <<>>
    /\ phase = "creating" => next \in DOMAIN plan /\ plan[next].tool = Tree /\ ValidTree(Input)
    /\ phase = "updating" => next \in DOMAIN plan /\ plan[next].tool = Bulk
    /\ phase = "completed" => next > Len(plan)
    /\ phase # "creating" => sent = <<>> /\ ids = <<>>

\* The nodes that exist or are in the current wave.
Reached(n) == n \in DOMAIN sent \/ ids[n] # 0

\* The waves of CreateWorkItemTreeTool.execute.
WavesFit ==
    phase = "creating" =>
        /\ sent \in [DOMAIN sent -> {"queued", "sent", "created", "failed"}]
        /\ DOMAIN sent \subseteq Nodes(Input)
        /\ ids \in [Nodes(Input) -> Nat]
        /\ \A n \in DOMAIN sent : sent[n] = "created" <=> ids[n] # 0
        /\ \A n \in Nodes(Input) : ids[n] # 0 =>
              /\ ids[n] \in DOMAIN backend
              /\ backend[ids[n]].action = next
              /\ backend[ids[n]].node = n
        /\ \A n \in Nodes(Input) :
              IF Reached(n)
              THEN /\ Input[n].parent \notin DOMAIN sent
                   /\ Input[n].parent # 0 => ids[Input[n].parent] # 0
              ELSE /\ Input[n].parent # 0
                   /\ Reached(Input[n].parent) => Input[n].parent \in DOMAIN sent

\* What was created belongs to a node of the plan, and hangs where it belongs.
ItemFits(b) ==
    LET item == backend[b]
        nodes == plan[item.action].input
        parentNode == nodes[item.node].parent
    IN  /\ item.action \in DOMAIN plan
        /\ item.node \in Nodes(nodes)
        /\ item.action <= next
        /\ plan[item.action].tool = Tree
        /\ item.assignees = NodeAssignees(nodes, item.node)
        /\ parentNode # 0 =>
              /\ item.parent \in 1 .. b - 1
              /\ backend[item.parent].action = item.action
              /\ backend[item.parent].node = parentNode

BackendFits == IsSequence(backend) /\ \A b \in DOMAIN backend : ItemFits(b)

\* Has this call of the tool sent the request for the node, and seen its end?
Spent(k, n) ==
    /\ k = next /\ phase = "creating"
    /\ ids[n] # 0 \/ (n \in DOMAIN sent /\ sent[n] \in {"created", "failed"})

\* The copies of a node: one for every call that was interrupted, and the one of
\* the call that ended or has the node behind it.
CopiesCounted ==
    \A k \in DOMAIN plan : plan[k].tool = Tree =>
        \A n \in Nodes(plan[k].input) :
            /\ Cardinality(Copies(k, n)) <= 1 + interruptions
            /\ k >= next /\ phase \in Active /\ ~Spent(k, n) => Cardinality(Copies(k, n)) <= interruptions
            /\ k < next => Copies(k, n) # {}

RunSprints == {s \in DOMAIN sprints : sprints[s].by = "run"}

SprintActions(last) == {k \in DOMAIN plan : plan[k].tool = Sprint /\ k <= last}

SprintsCounted ==
    /\ sprints \in Seq(SprintType)
    /\ Cardinality(RunSprints) <=
          Cardinality(SprintActions(IF phase \in Active THEN next - 1 ELSE next)) + interruptions

TreeInv == ControlFits /\ WavesFit /\ BackendFits /\ CopiesCounted

IInv == TreeInv /\ SprintsCounted

-----------------------------------------------------------------------------
(***************************************************************************)
(* Sets of numbers, sequences and finite sets.                             *)
(***************************************************************************)
\* A set of numbers has a least element.
LEMMA LeastElement ==
  ASSUME NEW T, T \subseteq Nat, T # {}
  PROVE  \E x \in T : \A y \in T : x <= y
<1> DEFINE R == OpToRel(<, Nat)
<1>1. IsWellFoundedOn(R, Nat)
  BY NatLessThanWellFounded
<1>2. \A x, y \in Nat : x < y => <<x, y>> \in R
  BY DEF OpToRel
<1> HIDE DEF R
<1>3. PICK x \in T : \A y \in T : ~(<<y, x>> \in R)
  BY <1>1, WFMin
<1>4. \A y \in T : ~(y < x)
  BY <1>2, <1>3
<1>. QED
  BY <1>4

\* A bounded one has a greatest element.
LEMMA GreatestElement ==
  ASSUME NEW n \in Nat, NEW T, T \subseteq 0 .. n, T # {}
  PROVE  \E x \in T : \A y \in T : y <= x
<1> DEFINE R == {n - x : x \in T}
<1>1. R \subseteq Nat
  OBVIOUS
<1>2. R # {}
  OBVIOUS
<1>3. PICK r \in R : \A y \in R : r <= y
  BY <1>1, <1>2, LeastElement
<1>4. PICK x \in T : r = n - x
  OBVIOUS
<1>5. \A y \in T : n - x <= n - y
  BY <1>3, <1>4
<1>. QED
  BY <1>5

\* What an element at the end of a sequence changes.
LEMMA AppendFits ==
  ASSUME NEW s, IsSequence(s), NEW e
  PROVE  /\ IsSequence(Append(s, e))
         /\ Len(s) \in Nat
         /\ DOMAIN s = 1 .. Len(s)
         /\ Len(Append(s, e)) = Len(s) + 1
         /\ DOMAIN Append(s, e) = 1 .. Len(s) + 1
         /\ \A i \in 1 .. Len(s) : Append(s, e)[i] = s[i]
         /\ Append(s, e)[Len(s) + 1] = e
<1> DEFINE S == {s[k] : k \in DOMAIN s} \cup {e}
           t == Append(s, e)
<1>1. s \in Seq(S) /\ e \in S
  BY DEF IsSequence
<1>2. /\ t \in Seq(S) /\ Len(s) \in Nat /\ DOMAIN s = 1 .. Len(s)
      /\ Len(t) = Len(s) + 1 /\ DOMAIN t = 1 .. Len(t)
      /\ \A i \in 1 .. Len(s) : t[i] = s[i]
      /\ t[Len(s) + 1] = e
  BY <1>1
<1>3. t \in Seq({t[k] : k \in DOMAIN t})
  <2> HIDE DEF t
  <2>. QED
    BY <1>2
<1>. QED
  BY <1>2, <1>3 DEF IsSequence

LEMMA SequenceFits ==
  ASSUME NEW s, IsSequence(s)
  PROVE  Len(s) \in Nat /\ DOMAIN s = 1 .. Len(s)
BY DEF IsSequence

LEMMA FiniteInterval ==
  ASSUME NEW n \in Nat, NEW S, S \subseteq 1 .. n
  PROVE  IsFiniteSet(S) /\ Cardinality(S) \in Nat
<1>1. IsFiniteSet(1 .. n)
  BY FS_Interval
<1>2. IsFiniteSet(S)
  BY <1>1, FS_Subset
<1>. QED
  BY <1>2, FS_CardinalityType

-----------------------------------------------------------------------------
(***************************************************************************)
(* The planner.                                                            *)
(***************************************************************************)
\* How the handler goes on after a tool.
LEMMA HandlerGoesOn ==
  ASSUME Completed \/ Refused \/ Raised
  PROVE  phase' # "planning"
BY DEF Completed, Refused, Raised

\* Only the planner writes the plan and spends the planning time.
LEMMA PlanStays ==
  ASSUME Next \/ UNCHANGED vars,
         ~ \E draft \in Drafts, seconds \in 1 .. MaxGeneration : Generate(draft, seconds),
         ~ \E seconds \in 1 .. MaxGeneration : GenerationRaises(seconds)
  PROVE  /\ UNCHANGED <<plan, elapsed>>
         /\ phase' = "planning" => phase = "planning" /\ next' = next
<1>1. CASE UNCHANGED vars
  BY <1>1 DEF vars, planner, progress
<1>2. CASE PlannerStep
  BY <1>2 DEF PlannerStep, NothingPlanned, planner
<1>3. CASE ToolStep
  <2>1. CASE BeginTree
    BY <2>1, HandlerGoesOn DEF BeginTree, planner
  <2>2. CASE \E n \in DOMAIN sent : SendCreate(n)
    BY <2>2 DEF SendCreate, planner, progress
  <2>3. CASE \E n \in DOMAIN sent, outcome \in Outcome : CreateAnswered(n, outcome)
    BY <2>3 DEF CreateAnswered, planner, progress
  <2>4. CASE LevelEnds
    BY <2>4, HandlerGoesOn DEF LevelEnds, planner, progress
  <2>5. CASE BeginUpdates
    BY <2>5, HandlerGoesOn DEF BeginUpdates, planner
  <2>6. CASE SkipUpdate
    BY <2>6, HandlerGoesOn DEF SkipUpdate, Advance, planner, progress
  <2>7. CASE \E outcome \in Outcome : SendUpdate(outcome)
    BY <2>7, HandlerGoesOn DEF SendUpdate, Advance, planner, progress
  <2>8. CASE \E outcome \in Outcome : CreateSprint(outcome)
    BY <2>8, HandlerGoesOn DEF CreateSprint, planner
  <2>9. CASE \E sprintId \in 0 .. Len(sprints), outcome \in Outcome : AddSprintWorkItems(sprintId, outcome)
    BY <2>9, HandlerGoesOn DEF AddSprintWorkItems, planner
  <2>. QED
    BY <1>3, <2>1, <2>2, <2>3, <2>4, <2>5, <2>6, <2>7, <2>8, <2>9 DEF ToolStep
<1>4. CASE Interrupted
  BY <1>4 DEF Interrupted, planner
<1>5. CASE PeopleStep
  BY <1>5 DEF PeopleStep, PersonEdits, OthersSprint, planner, progress
<1>. QED
  BY <1>1, <1>2, <1>3, <1>4, <1>5 DEF Next

\* No generation begins once PLANNING_TIME_BUDGET_SECONDS is spent: planning ends
\* within the budget and one generation, whatever the generations produce and
\* however the attempts end.
\* Code: RuntimePlanningAgent.generate_plan.
THEOREM PlanningEndsInTime == Spec => []PlanningBounded
<1>1. Init => BudgetKept
  BY BreakdownAssumption DEF Init, BudgetKept, PlanningBounded
<1>2. BudgetKept /\ [Next]_vars => BudgetKept'
  <2> SUFFICES ASSUME BudgetKept, Next \/ UNCHANGED vars PROVE BudgetKept'
    OBVIOUS
  <2>1. CASE \E draft \in Drafts, seconds \in 1 .. MaxGeneration : Generate(draft, seconds)
    <3>1. PICK draft \in Drafts, seconds \in 1 .. MaxGeneration : Generate(draft, seconds)
      BY <2>1
    <3> DEFINE p == Materialize(draft)
               spent == elapsed + seconds
               retried == PlanDefect(p) /\ ~BudgetSpent(spent)
               revised == ~PlanDefect(p) /\ Reviews(p, seconds, spent)
    <3>2. elapsed \in Nat /\ elapsed <= TimeBudget /\ elapsed' = spent
      BY <3>1 DEF Generate, BudgetKept
    <3>3. phase' = "planning" => retried \/ revised
      BY <3>1 DEF Generate, TryAgain, Returns
    <3>4. retried \/ revised => ~BudgetSpent(spent)
      BY DEF Reviews
    <3>5. phase' = "planning" => ~BudgetSpent(spent)
      BY <3>3, <3>4
    <3> HIDE DEF p, retried, revised
    <3>. QED
      BY <3>2, <3>5, BreakdownAssumption DEF BudgetKept, PlanningBounded, BudgetSpent
  <2>2. CASE \E seconds \in 1 .. MaxGeneration : GenerationRaises(seconds)
    <3>1. PICK seconds \in 1 .. MaxGeneration : GenerationRaises(seconds)
      BY <2>2
    <3>2. elapsed \in Nat /\ elapsed <= TimeBudget /\ elapsed' = elapsed + seconds
      BY <3>1 DEF GenerationRaises, BudgetKept
    <3>3. phase' = "planning" => ~BudgetSpent(elapsed')
      BY <3>1 DEF GenerationRaises, TryAgain, Returns
    <3>. QED
      BY <3>2, <3>3, BreakdownAssumption DEF BudgetKept, PlanningBounded, BudgetSpent
  <2>. QED
    BY <2>1, <2>2, PlanStays DEF BudgetKept, PlanningBounded
<1>3. BudgetKept => PlanningBounded
  BY DEF BudgetKept
<1>. QED
  BY <1>1, <1>2, <1>3, PTL DEF Spec

-----------------------------------------------------------------------------
(***************************************************************************)
(* The board.                                                              *)
(***************************************************************************)
\* Nothing that is protected is left of an update.
LEMMA PayloadProtects ==
  ASSUME NEW update, NEW current
  PROVE  /\ "status" \notin UpdatePayload(update, current)
         /\ current.description # "thin" => "description" \notin UpdatePayload(update, current)
         /\ current.owners # {} => "assigneeUsernames" \notin UpdatePayload(update, current)
BY DEF UpdatePayload, ProtectedFields

\* What a person had put into an item before the context was read stands,
\* whatever the updates of the plans say, however often they are sent, and
\* whatever people do to the items meanwhile.
\* Code: UpdateWorkItemsBulkTool.execute and _drop_protected_fields.
THEOREM HumanWorkStands == Spec => []HumanWorkKept
<1>1. Init => BoardKept
  <2> SUFFICES ASSUME Init PROVE BoardKept
    OBVIOUS
  <2>1. context \in [Items -> Item] /\ board = context /\ touched = {}
    BY DEF Init
  <2>2. \A i \in Items : context[i] \in Item /\ ItemShape(context[i])
    BY <2>1 DEF Item, ItemShape
  <2>. QED
    BY <2>1, <2>2 DEF BoardKept, HumanWorkKept, Item
<1>2. BoardKept /\ [Next]_vars => BoardKept'
  <2> SUFFICES ASSUME BoardKept, Next \/ UNCHANGED vars PROVE BoardKept'
    OBVIOUS
  <2>1. CASE \E outcome \in Outcome : SendUpdate(outcome)
    <3>1. PICK outcome \in Outcome : SendUpdate(outcome)
      BY <2>1
    <3>2. CASE outcome = "failed"
      BY <3>1, <3>2 DEF SendUpdate, BoardKept, HumanWorkKept
    <3>3. CASE outcome # "failed"
      <4> DEFINE item == Update.item
                 payload == UpdatePayload(Update, context[item])
      <4>1. /\ item \in Items /\ context[item].status = "todo" /\ context' = context
            /\ touched' = touched \cup {item}
            /\ board' = [board EXCEPT ![item] = ApplyUpdate(Update, payload, board[item])]
        BY <3>1, <3>3 DEF SendUpdate, Sendable, BoardKept
      <4>2. /\ "status" \notin payload
            /\ context[item].description # "thin" => "description" \notin payload
            /\ context[item].owners # {} => "assigneeUsernames" \notin payload
        BY PayloadProtects
      <4> DEFINE new == ApplyUpdate(Update, payload, board[item])
      <4>3. /\ ItemShape(new)
            /\ new.status = board[item].status
            /\ context[item].description = "person" => new.description = board[item].description
            /\ context[item].owners # {} => new.owners = board[item].owners
        BY <4>2 DEF ApplyUpdate, ItemShape
      <4> HIDE DEF new, payload, item
      <4>4. board' = [i \in Items |-> IF i = item THEN new ELSE board[i]]
        BY <4>1 DEF BoardKept, new
      <4>. QED
        BY <4>1, <4>3, <4>4 DEF BoardKept, HumanWorkKept
    <3>. QED
      BY <3>2, <3>3
  <2>2. CASE \E item \in Items : \E change \in PersonChanges(board[item]) : PersonEdits(item, change)
    <3>0. PICK item \in Items : \E change \in PersonChanges(board[item]) : PersonEdits(item, change)
      BY <2>2
    <3>1. PICK change \in PersonChanges(board[item]) : PersonEdits(item, change)
      BY <3>0
    <3>2. ItemShape(board[item])
      BY DEF BoardKept
    <3>3. /\ ItemShape(change)
          /\ change.status \in {board[item].status, "in_progress"}
          /\ change.description \in {board[item].description, "person"}
          /\ board[item].owners \subseteq change.owners
      BY <3>2 DEF PersonChanges, ItemShape
    <3>4. /\ board' = [i \in Items |-> IF i = item THEN change ELSE board[i]]
          /\ context' = context /\ touched' = touched
      BY <3>1 DEF PersonEdits, BoardKept
    <3>. QED
      BY <3>3, <3>4 DEF BoardKept, HumanWorkKept
  <2>3. ASSUME UNCHANGED <<board, context, touched>> PROVE BoardKept'
    BY <2>3 DEF BoardKept, HumanWorkKept
  <2>4. CASE UNCHANGED vars
    BY <2>3, <2>4 DEF vars, updates
  <2>5. CASE PlannerStep
    BY <2>3, <2>5 DEF PlannerStep, Generate, GenerationRaises, NothingPlanned, updates
  <2>6. CASE ToolStep
    BY <2>1, <2>3, <2>6 DEF ToolStep, BeginTree, SendCreate, CreateAnswered, LevelEnds, BeginUpdates,
      SkipUpdate, CreateSprint, AddSprintWorkItems, updates
  <2>7. CASE Interrupted
    BY <2>3, <2>7 DEF Interrupted
  <2>8. CASE PeopleStep
    BY <2>2, <2>3, <2>8 DEF PeopleStep, OthersSprint, updates
  <2>. QED
    BY <2>4, <2>5, <2>6, <2>7, <2>8 DEF Next
<1>3. BoardKept => HumanWorkKept
  BY DEF BoardKept
<1>. QED
  BY <1>1, <1>2, <1>3, PTL DEF Spec

-----------------------------------------------------------------------------
(***************************************************************************)
(* Where the handler is.                                                   *)
(***************************************************************************)
\* The plan that materialize_typed_action_inputs makes of a draft.
LEMMA MaterializeFits ==
  ASSUME NEW draft \in Drafts
  PROVE  /\ IsSequence(Materialize(draft))
         /\ \A k \in DOMAIN Materialize(draft) :
               Materialize(draft)[k].tool = Tree => IsTree(Materialize(draft)[k].input)
<1> DEFINE p == Materialize(draft)
<1>1. /\ IsSequence(draft)
      /\ \A k \in DOMAIN draft :
            /\ DOMAIN draft[k] = {"tool", "input", "typed"}
            /\ draft[k].tool = Tree => IsTree(draft[k].input) /\ IsTree(draft[k].typed)
  BY DraftsAssumption
<1>2. Len(draft) \in Nat /\ DOMAIN draft = 1 .. Len(draft)
  BY <1>1, SequenceFits
<1>3. DOMAIN p = 1 .. Len(draft)
  BY <1>2 DEF Materialize
<1>4. p = [k \in 1 .. Len(draft) |-> p[k]]
  BY <1>2 DEF Materialize
<1>5. ASSUME NEW k \in 1 .. Len(draft), p[k].tool = Tree
      PROVE  IsTree(p[k].input)
  <2>1. /\ DOMAIN draft[k] = {"tool", "input", "typed"}
        /\ draft[k].tool = Tree => IsTree(draft[k].input) /\ IsTree(draft[k].typed)
    BY <1>1, <1>2
  <2>2. CASE draft[k].tool # Sprint /\ draft[k].input = <<>>
    <3>1. p[k] = [draft[k] EXCEPT !.input = draft[k].typed]
      BY <1>2, <2>2 DEF Materialize
    <3>2. p[k].tool = draft[k].tool /\ p[k].input = draft[k].typed
      BY <2>1, <3>1
    <3>. QED
      BY <1>5, <2>1, <3>2
  <2>3. CASE ~(draft[k].tool # Sprint /\ draft[k].input = <<>>)
    <3>1. p[k] = draft[k]
      BY <1>2, <2>3 DEF Materialize
    <3>. QED
      BY <1>5, <2>1, <3>1
  <2>. QED
    BY <2>2, <2>3
<1> HIDE DEF p
<1>6. p \in Seq({p[k] : k \in 1 .. Len(draft)})
  BY <1>2, <1>4
<1>7. IsSequence(p)
  BY <1>3, <1>6 DEF IsSequence
<1>. QED
  BY <1>3, <1>5, <1>7 DEF p

\* Where the handler is after a tool.
LEMMA HandlerFits ==
  ASSUME Completed \/ Refused \/ Raised, next \in Nat \ {0}, interruptions \in Nat, Len(plan) \in Nat
  PROVE  /\ phase' \in {"acting", "completed", "failed"}
         /\ next' \in {next, next + 1}
         /\ interruptions' \in {interruptions, interruptions + 1}
         /\ phase' = "completed" => next' > Len(plan)
         /\ next' # next => Completed
BY DEF Completed, Refused, Raised

LEMMA ControlInit == Init => ControlFits
<1> SUFFICES ASSUME Init PROVE ControlFits
  OBVIOUS
<1>1. IsSequence(plan) /\ DOMAIN plan = {}
  BY DEF Init, IsSequence
<1>. QED
  BY <1>1 DEF Init, ControlFits, PlanFits, Active

LEMMA ControlStep ==
  ASSUME ControlFits, Next \/ UNCHANGED vars
  PROVE  ControlFits'
<1>1. /\ phase \in Active \cup Ended /\ next \in Nat \ {0} /\ interruptions \in Nat
      /\ Len(plan) \in Nat /\ DOMAIN plan = 1 .. Len(plan)
  BY SequenceFits DEF ControlFits, PlanFits
<1>2. CASE \E draft \in Drafts, seconds \in 1 .. MaxGeneration : Generate(draft, seconds)
  <2>1. PICK draft \in Drafts, seconds \in 1 .. MaxGeneration : Generate(draft, seconds)
    BY <1>2
  <2>2. plan' = Materialize(draft)
    BY <2>1 DEF Generate
  <2>3. PlanFits'
    BY <2>2, MaterializeFits DEF PlanFits
  <2>4. phase = "planning" /\ phase' \in {"planning", "acting"}
    BY <2>1 DEF Generate, TryAgain, Returns
  <2>5. UNCHANGED <<next, interruptions, sent, ids, backend>>
    BY <2>1 DEF Generate, tree
  <2>. QED
    BY <2>3, <2>4, <2>5 DEF ControlFits, Active, Ended
<1>3. CASE \E seconds \in 1 .. MaxGeneration : GenerationRaises(seconds)
  <2>1. phase = "planning" /\ phase' \in {"planning", "acting", "raised"}
    BY <1>3 DEF GenerationRaises, TryAgain, Returns
  <2>2. UNCHANGED <<next, interruptions, sent, ids, backend, plan>>
    BY <1>3 DEF GenerationRaises, tree
  <2>. QED
    BY <2>1, <2>2 DEF ControlFits, PlanFits, Active, Ended
<1>4. ASSUME UNCHANGED plan PROVE PlanFits'
  BY <1>4 DEF ControlFits, PlanFits
<1>5. ASSUME UNCHANGED <<phase, next, interruptions, plan, backend, sent, ids>> PROVE ControlFits'
  BY <1>1, <1>4, <1>5 DEF ControlFits, Input
\* A tool returned or raised.
<1>6. ASSUME Completed \/ Refused \/ Raised, UNCHANGED plan, sent' = <<>>, ids' = <<>>
      PROVE  ControlFits'
  <2>1. /\ phase' \in {"acting", "completed", "failed"}
        /\ next' \in Nat \ {0} /\ interruptions' \in Nat
        /\ phase' = "completed" => next' > Len(plan')
    BY <1>1, <1>6, HandlerFits
  <2>. QED
    BY <2>1, <1>4, <1>6 DEF ControlFits, Active, Ended
<1>7. phase # "creating" => sent = <<>> /\ ids = <<>>
  BY DEF ControlFits
<1>8. CASE UNCHANGED vars
  BY <1>5, <1>8 DEF vars, planner, progress, tree
<1>9. CASE NothingPlanned
  <2>1. phase' = "failed" /\ sent' = <<>> /\ ids' = <<>> /\ UNCHANGED <<next, interruptions, plan>>
    BY <1>7, <1>9 DEF NothingPlanned, planner, tree
  <2>. QED
    BY <1>1, <1>4, <2>1 DEF ControlFits, Active, Ended
<1>10. CASE ToolStep
  <2>1. CASE BeginTree
    <3>1. CASE ValidTree(Input)
      <4>1. /\ phase = "acting" /\ next \in DOMAIN plan /\ plan[next].tool = Tree
            /\ phase' = "creating" /\ UNCHANGED <<next, interruptions, plan>>
        BY <1>1, <2>1, <3>1 DEF BeginTree, Performing, planner
      <4>. QED
        BY <1>1, <1>4, <3>1, <4>1 DEF ControlFits, Input, Active, Ended
    <3>2. CASE ~ValidTree(Input)
      BY <1>6, <1>7, <2>1, <3>2 DEF BeginTree, Performing, planner
    <3>. QED
      BY <3>1, <3>2
  <2>2. CASE \E n \in DOMAIN sent : SendCreate(n)
    <3>1. phase = "creating" /\ UNCHANGED <<phase, next, interruptions, plan>>
      BY <2>2 DEF SendCreate, planner, progress
    <3>. QED
      BY <1>1, <1>4, <3>1 DEF ControlFits, Input
  <2>3. CASE \E n \in DOMAIN sent, outcome \in Outcome : CreateAnswered(n, outcome)
    <3>1. phase = "creating" /\ UNCHANGED <<phase, next, interruptions, plan>>
      BY <2>3 DEF CreateAnswered, planner, progress
    <3>. QED
      BY <1>1, <1>4, <3>1 DEF ControlFits, Input
  <2>4. CASE LevelEnds
    <3>1. phase = "creating" /\ UNCHANGED plan
      BY <2>4 DEF LevelEnds, planner
    <3>2. CASE UNCHANGED progress /\ UNCHANGED interruptions
      BY <1>1, <1>4, <3>1, <3>2 DEF ControlFits, Input, progress
    <3>3. CASE ~(UNCHANGED progress /\ UNCHANGED interruptions)
      BY <1>6, <2>4, <3>1, <3>3 DEF LevelEnds
    <3>. QED
      BY <3>2, <3>3
  <2>5. CASE BeginUpdates
    <3>1. CASE ValidUpdates(Input)
      <4>1. /\ phase = "acting" /\ next \in DOMAIN plan /\ plan[next].tool = Bulk
            /\ phase' = "updating" /\ UNCHANGED <<next, interruptions, plan, sent, ids>>
        BY <1>1, <2>5, <3>1 DEF BeginUpdates, Performing, planner, tree
      <4>. QED
        BY <1>1, <1>4, <1>7, <4>1 DEF ControlFits, Active, Ended
    <3>2. CASE ~ValidUpdates(Input)
      BY <1>6, <1>7, <2>5, <3>2 DEF BeginUpdates, Performing, planner, tree
    <3>. QED
      BY <3>1, <3>2
  <2>6. CASE SkipUpdate
    BY <1>5, <1>6, <1>7, <2>6 DEF SkipUpdate, Advance, planner, progress, tree
  <2>7. CASE \E outcome \in Outcome : SendUpdate(outcome)
    BY <1>5, <1>6, <1>7, <2>7 DEF SendUpdate, Advance, planner, progress, tree
  <2>8. CASE \E outcome \in Outcome : CreateSprint(outcome)
    BY <1>6, <1>7, <2>8 DEF CreateSprint, Performing, planner, tree
  <2>9. CASE \E sprintId \in 0 .. Len(sprints), outcome \in Outcome : AddSprintWorkItems(sprintId, outcome)
    BY <1>6, <1>7, <2>9 DEF AddSprintWorkItems, Performing, planner, tree
  <2>. QED
    BY <1>10, <2>1, <2>2, <2>3, <2>4, <2>5, <2>6, <2>7, <2>8, <2>9 DEF ToolStep
<1>11. CASE Interrupted
  <2>1. /\ phase' = "acting" /\ sent' = <<>> /\ ids' = <<>> /\ UNCHANGED <<next, plan>>
        /\ interruptions' = interruptions + 1
    BY <1>11 DEF Interrupted, planner
  <2>. QED
    BY <1>1, <1>4, <2>1 DEF ControlFits, Active, Ended
<1>12. CASE PeopleStep
  BY <1>5, <1>12 DEF PeopleStep, PersonEdits, OthersSprint, planner, progress, tree
<1>. QED
  BY <1>2, <1>3, <1>8, <1>9, <1>10, <1>11, <1>12 DEF Next, PlannerStep

-----------------------------------------------------------------------------
(***************************************************************************)
(* The trees.                                                              *)
(***************************************************************************)
\* _rollup_assignee_usernames: whoever works under a node works under its parent.
LEMMA RollupGoesUp ==
  ASSUME NEW nodes, NEW n \in Nodes(nodes), nodes[n].parent \in Nodes(nodes), nodes[n].parent # 0
  PROVE  NodeAssignees(nodes, n) \subseteq NodeAssignees(nodes, nodes[n].parent)
<1> DEFINE p == nodes[n].parent
           Under(x) == {m \in Nodes(nodes) : x \in {m} \cup Ancestors(nodes)[m]}
<1>1. ASSUME NEW m \in Under(n) PROVE m \in Under(p)
  <2>1. Ancestors(nodes)[m] =
          {a \in Nodes(nodes) : \A S \in SUBSET Nodes(nodes) :
             (\A x \in {m} \cup S : nodes[x].parent \in {0} \cup S) => a \in S}
    BY DEF Ancestors
  <2>2. ASSUME NEW S \in SUBSET Nodes(nodes), \A x \in {m} \cup S : nodes[x].parent \in {0} \cup S
        PROVE  p \in S
    <3>1. n \in {m} \cup S
      BY <2>1, <2>2
    <3>. QED
      BY <2>2, <3>1
  <2>. QED
    BY <2>1, <2>2
<1>2. RollupAssigneeUsernames(nodes, n) \subseteq RollupAssigneeUsernames(nodes, p)
  <2>1. \A x : RollupAssigneeUsernames(nodes, x) = UNION {CleanUsernames(nodes[m].names) : m \in Under(x)}
    BY DEF RollupAssigneeUsernames
  <2> HIDE DEF Under
  <2>. QED
    BY <1>1, <2>1
<1>3. ASSUME NEW A, NEW B, A \subseteq B PROVE CleanUsernames(A) \subseteq CleanUsernames(B)
  BY <1>3 DEF CleanUsernames
<1>. QED
  BY <1>2, <1>3 DEF NodeAssignees

LEMMA CopiesFinite ==
  ASSUME IsSequence(backend), NEW k, NEW n
  PROVE  IsFiniteSet(Copies(k, n)) /\ Cardinality(Copies(k, n)) \in Nat
<1>1. Copies(k, n) \subseteq 1 .. Len(backend) /\ Len(backend) \in Nat
  BY SequenceFits DEF Copies
<1>. QED
  BY <1>1, FiniteInterval

LEMMA TreeInit == Init => TreeInv
<1> SUFFICES ASSUME Init PROVE TreeInv
  OBVIOUS
<1>1. DOMAIN plan = {} /\ DOMAIN backend = {} /\ IsSequence(backend)
  BY DEF Init, IsSequence
<1>2. phase # "creating"
  BY DEF Init
<1>. QED
  BY <1>1, <1>2, ControlInit DEF TreeInv, WavesFit, BackendFits, CopiesCounted

\* A step that leaves the created items and the plan alone.
LEMMA BackendStays ==
  ASSUME BackendFits, UNCHANGED <<plan, backend>>, next \in Nat, next' \in Nat, next <= next',
         PlanFits
  PROVE  BackendFits' /\ \A k, n : Copies(k, n)' = Copies(k, n)
<1>1. \A k, n : Copies(k, n)' = Copies(k, n)
  BY DEF Copies
<1>2. ASSUME NEW b \in DOMAIN backend PROVE ItemFits(b)'
  <2>1. ItemFits(b) /\ backend[b].action \in Nat
    BY <1>2, SequenceFits DEF BackendFits, ItemFits, PlanFits
  <2>. QED
    BY <2>1 DEF ItemFits
<1>. QED
  BY <1>1, <1>2 DEF BackendFits

\* A call of a tool ends: what it created is counted with the calls that ended.
LEMMA CallEnds ==
  ASSUME TreeInv, UNCHANGED <<plan, backend>>,
         \/ Completed
         \/ Refused /\ phase # "creating"
         \/ Raised,
         phase \in Active,
         Completed /\ next \in DOMAIN plan /\ plan[next].tool = Tree =>
            \A n \in Nodes(plan[next].input) : Copies(next, n) # {}
  PROVE  WavesFit' /\ BackendFits' /\ CopiesCounted'
<1>1. /\ next \in Nat \ {0} /\ interruptions \in Nat /\ PlanFits
      /\ Len(plan) \in Nat /\ DOMAIN plan = 1 .. Len(plan)
  BY SequenceFits DEF TreeInv, ControlFits, PlanFits
<1>2. /\ phase' \in {"acting", "completed", "failed"}
      /\ next' \in {next, next + 1}
      /\ interruptions' \in {interruptions, interruptions + 1}
      /\ next' # next => Completed
  BY <1>1, HandlerFits
<1>3. BackendFits' /\ \A k, n : Copies(k, n)' = Copies(k, n)
  BY <1>1, <1>2, BackendStays DEF TreeInv
<1>4. WavesFit'
  BY <1>2 DEF WavesFit
<1>5. \/ next' = next + 1
      \/ interruptions' = interruptions + 1
      \/ phase' = "failed"
      \/ phase # "creating" /\ next' = next
  BY DEF Completed, Refused, Raised
<1>6. ASSUME NEW k \in DOMAIN plan, plan[k].tool = Tree, NEW n \in Nodes(plan[k].input)
      PROVE  /\ Cardinality(Copies(k, n)') <= 1 + interruptions'
             /\ k >= next' /\ phase' \in Active => Cardinality(Copies(k, n)') <= interruptions'
             /\ k < next' => Copies(k, n)' # {}
  <2>1. /\ Cardinality(Copies(k, n)) <= 1 + interruptions
        /\ k >= next /\ ~Spent(k, n) => Cardinality(Copies(k, n)) <= interruptions
        /\ k < next => Copies(k, n) # {}
    BY <1>6 DEF TreeInv, CopiesCounted
  <2>2. Cardinality(Copies(k, n)) \in Nat /\ Copies(k, n)' = Copies(k, n)
    BY <1>3, CopiesFinite DEF TreeInv, BackendFits
  <2>3. k = next /\ next' = next + 1 => Copies(k, n) # {}
    BY <1>1, <1>2, <1>6
  <2>4. k # next \/ phase # "creating" => ~Spent(k, n)
    BY DEF Spent
  <2>5. Cardinality(Copies(k, n)) <= 1 + interruptions'
    BY <1>1, <1>2, <2>1, <2>2
  <2>6. ASSUME k >= next', phase' \in Active PROVE Cardinality(Copies(k, n)) <= interruptions'
    <3>1. CASE interruptions' = interruptions + 1
      BY <1>1, <2>1, <2>2, <3>1
    <3>2. CASE next' = next + 1
      BY <1>1, <1>2, <2>1, <2>2, <2>4, <2>6, <3>2
    <3>3. CASE phase # "creating" /\ next' = next
      BY <1>1, <1>2, <2>1, <2>2, <2>4, <2>6, <3>3
    <3>4. phase' # "failed"
      BY <2>6 DEF Active
    <3>. QED
      BY <1>5, <3>1, <3>2, <3>3, <3>4
  <2>7. k < next' => Copies(k, n) # {}
    BY <1>1, <1>2, <2>1, <2>3
  <2>. QED
    BY <2>2, <2>5, <2>6, <2>7
<1>7. CopiesCounted'
  BY <1>6 DEF CopiesCounted
<1>. QED
  BY <1>3, <1>4, <1>7

\* The request for a node: it stays in its wave.
LEMMA SendCreateKeeps ==
  ASSUME TreeInv, NEW n \in DOMAIN sent, SendCreate(n)
  PROVE  WavesFit' /\ BackendFits' /\ CopiesCounted'
<1>1. /\ phase = "creating" /\ sent[n] = "queued"
      /\ sent' = [sent EXCEPT ![n] = "sent"]
      /\ UNCHANGED <<plan, phase, next, ids, backend, interruptions>>
  BY DEF SendCreate, InState, planner, progress
<1>2. Input' = Input
  BY <1>1 DEF Input
<1>3. WavesFit
  BY DEF TreeInv
<1>4. /\ DOMAIN sent' = DOMAIN sent
      /\ \A m \in DOMAIN sent : sent'[m] = IF m = n THEN "sent" ELSE sent[m]
  BY <1>1
<1>5. \A m : Reached(m)' <=> Reached(m)
  BY <1>1, <1>4 DEF Reached
<1>6. WavesFit'
  <2> HIDE DEF Input
  <2>1. sent' \in [DOMAIN sent -> {"queued", "sent", "created", "failed"}]
    BY <1>1, <1>3 DEF WavesFit
  <2>2. \A m \in DOMAIN sent : sent'[m] = "created" <=> ids[m] # 0
    BY <1>1, <1>3, <1>4 DEF WavesFit
  <2>. QED
    BY <1>1, <1>2, <1>3, <1>4, <1>5, <2>1, <2>2 DEF WavesFit
<1>7. next \in Nat /\ PlanFits /\ BackendFits
  BY DEF TreeInv, ControlFits
<1>8. BackendFits' /\ \A k, m : Copies(k, m)' = Copies(k, m)
  BY <1>1, <1>7, BackendStays
<1>9. \A k, m : Spent(k, m)' <=> Spent(k, m)
  BY <1>1, <1>4 DEF Spent
<1>10. CopiesCounted'
  BY <1>1, <1>8, <1>9 DEF TreeInv, CopiesCounted
<1>. QED
  BY <1>6, <1>8, <1>10

\* The answer for a node: there is at most one more copy, it was not counted
\* before, and its parent exists.
LEMMA CreateAnsweredKeeps ==
  ASSUME TreeInv, NEW n \in DOMAIN sent, NEW outcome \in Outcome, CreateAnswered(n, outcome)
  PROVE  WavesFit' /\ BackendFits' /\ CopiesCounted'
<1> DEFINE L == Len(backend)
           made == outcome # "failed"
<1>1. /\ phase = "creating" /\ sent[n] = "sent"
      /\ sent' = [sent EXCEPT ![n] = IF outcome = "done" THEN "created" ELSE "failed"]
      /\ backend' = IF made THEN Append(backend, NewItem(n)) ELSE backend
      /\ ids' = IF outcome = "done" THEN [ids EXCEPT ![n] = Len(backend')] ELSE ids
      /\ UNCHANGED <<plan, phase, next, interruptions>>
  BY DEF CreateAnswered, InState, planner, progress
<1>2. Input' = Input
  BY <1>1 DEF Input
<1>3. /\ WavesFit /\ BackendFits /\ CopiesCounted /\ IsSequence(backend) /\ PlanFits
      /\ next \in Nat \ {0} /\ interruptions \in Nat
      /\ next \in DOMAIN plan /\ plan[next].tool = Tree
  BY <1>1 DEF TreeInv, ControlFits, BackendFits
<1>4. /\ L \in Nat /\ DOMAIN backend = 1 .. L
      /\ made => /\ IsSequence(backend') /\ Len(backend') = L + 1 /\ DOMAIN backend' = 1 .. L + 1
                 /\ \A b \in 1 .. L : backend'[b] = backend[b]
                 /\ backend'[L + 1] = NewItem(n)
  BY <1>1, <1>3, AppendFits, SequenceFits
<1>5. /\ sent \in [DOMAIN sent -> {"queued", "sent", "created", "failed"}]
      /\ DOMAIN sent \subseteq Nodes(Input)
      /\ ids \in [Nodes(Input) -> Nat]
      /\ \A m \in DOMAIN sent : sent[m] = "created" <=> ids[m] # 0
      /\ \A m \in Nodes(Input) : ids[m] # 0 =>
            ids[m] \in DOMAIN backend /\ backend[ids[m]].action = next /\ backend[ids[m]].node = m
      /\ \A m \in Nodes(Input) :
            IF Reached(m)
            THEN /\ Input[m].parent \notin DOMAIN sent
                 /\ Input[m].parent # 0 => ids[Input[m].parent] # 0
            ELSE /\ Input[m].parent # 0
                 /\ Reached(Input[m].parent) => Input[m].parent \in DOMAIN sent
  BY <1>1, <1>3 DEF WavesFit
<1>6. Input = plan[next].input /\ n \in Nodes(Input) /\ ids[n] = 0 /\ IsTree(Input)
  BY <1>1, <1>3, <1>5 DEF Input, PlanFits
<1>7. /\ NewItem(n).action = next /\ NewItem(n).node = n
      /\ NewItem(n).assignees = NodeAssignees(Input, n)
      /\ NewItem(n).parent = IF Input[n].parent = 0 THEN 0 ELSE ids[Input[n].parent]
  BY DEF NewItem
<1> HIDE DEF L, made
<1>8. /\ DOMAIN sent' = DOMAIN sent
      /\ \A m \in DOMAIN sent : m # n => sent'[m] = sent[m]
      /\ sent'[n] = IF outcome = "done" THEN "created" ELSE "failed"
  BY <1>1
<1>9. /\ ids' \in [Nodes(Input) -> Nat]
      /\ \A m \in Nodes(Input) : m # n => ids'[m] = ids[m]
      /\ ids'[n] = IF outcome = "done" THEN L + 1 ELSE 0
  BY <1>1, <1>4, <1>5, <1>6 DEF made
<1>10. BackendFits'
  <2>1. CASE ~made
    BY <1>1, <1>3, <2>1, BackendStays
  <2>2. CASE made
    <3>1. ASSUME NEW b \in 1 .. L PROVE ItemFits(b)'
      <4>1. ItemFits(b)
        BY <1>3, <1>4 DEF BackendFits
      <4>2. /\ backend'[b] = backend[b]
            /\ backend[b].parent \in 1 .. b - 1 => backend'[backend[b].parent] = backend[backend[b].parent]
        BY <1>4, <2>2
      <4>. QED
        BY <1>1, <4>1, <4>2 DEF ItemFits
    <3>2. ASSUME NEW b \in {L + 1} PROVE ItemFits(b)'
      <4>1. ASSUME Input[n].parent # 0
            PROVE  /\ ids[Input[n].parent] \in 1 .. L
                   /\ backend'[ids[Input[n].parent]].action = next
                   /\ backend'[ids[Input[n].parent]].node = Input[n].parent
        <5>1. Input[n].parent \in 0 .. n - 1 /\ n \in 1 .. Len(Input) /\ Len(Input) \in Nat
          BY <1>6, SequenceFits DEF IsTree, Nodes
        <5>2. Input[n].parent \in Nodes(Input)
          BY <4>1, <5>1 DEF Nodes
        <5>3. ids[Input[n].parent] # 0
          BY <1>5, <1>6, <4>1 DEF Reached
        <5>. QED
          BY <1>4, <1>5, <2>2, <5>2, <5>3
      <4>2. b = L + 1 /\ backend'[b] = NewItem(n) /\ b - 1 = L
        BY <1>4, <2>2
      <4>3. /\ backend'[b].action = next /\ backend'[b].node = n
            /\ backend'[b].assignees = NodeAssignees(Input, n)
        BY <1>7, <4>2
      <4>4. plan'[backend'[b].action].input = Input /\ plan'[next].tool = Tree /\ next \in DOMAIN plan'
        BY <1>1, <1>3, <1>6, <4>3
      <4>5. ASSUME Input[n].parent # 0
            PROVE  /\ backend'[b].parent \in 1 .. b - 1
                   /\ backend'[backend'[b].parent].action = next
                   /\ backend'[backend'[b].parent].node = Input[n].parent
        <5>1. backend'[b].parent = ids[Input[n].parent]
          BY <1>7, <4>2, <4>5
        <5>. QED
          BY <4>1, <4>2, <4>5, <5>1
      <4>6. next <= next' /\ n \in Nodes(Input)
        BY <1>1, <1>3, <1>6
      <4> HIDE DEF Input
      <4>. QED
        BY <4>3, <4>4, <4>5, <4>6 DEF ItemFits
    <3>. QED
      BY SMTT(30), <1>4, <2>2, <3>1, <3>2 DEF BackendFits
  <2>. QED
    BY <2>1, <2>2
<1>11. WavesFit'
  <2>1. sent' \in [DOMAIN sent -> {"queued", "sent", "created", "failed"}]
    BY <1>1, <1>5
  <2>2. \A m \in DOMAIN sent : sent'[m] = "created" <=> ids'[m] # 0
    BY <1>4, <1>5, <1>8, <1>9
  <2>3. \A m : Reached(m) /\ m \in Nodes(Input) => Reached(m)'
    BY <1>8, <1>9 DEF Reached
  <2>4. \A m \in Nodes(Input) : Reached(m)' => Reached(m)
    BY <1>8, <1>9 DEF Reached
  <2>5. ASSUME NEW m \in Nodes(Input), ids'[m] # 0
        PROVE  ids'[m] \in DOMAIN backend' /\ backend'[ids'[m]].action = next /\ backend'[ids'[m]].node = m
    <3>1. CASE m = n
      BY <1>4, <1>7, <1>9, <2>5, <3>1 DEF made
    <3>2. CASE m # n
      BY <1>1, <1>4, <1>5, <1>9, <2>5, <3>2
    <3>. QED
      BY <3>1, <3>2
  <2>6. ASSUME NEW m \in Nodes(Input)
        PROVE  IF m \in DOMAIN sent' \/ ids'[m] # 0
               THEN /\ Input[m].parent \notin DOMAIN sent'
                    /\ Input[m].parent # 0 => ids'[Input[m].parent] # 0
               ELSE /\ Input[m].parent # 0
                    /\ ids'[Input[m].parent] # 0 => Input[m].parent \in DOMAIN sent'
    <3>1. Input[m].parent \in 0 .. m - 1 /\ m \in 1 .. Len(Input) /\ Len(Input) \in Nat
      BY <1>6, SequenceFits DEF IsTree, Nodes
    <3>2. Input[m].parent # 0 => Input[m].parent \in Nodes(Input)
      BY <3>1 DEF Nodes
    <3>3. Reached(m) <=> m \in DOMAIN sent' \/ ids'[m] # 0
      BY <2>3, <2>4 DEF Reached
    <3>4. Input[m].parent # 0 => (Reached(Input[m].parent) <=>
             Input[m].parent \in DOMAIN sent' \/ ids'[Input[m].parent] # 0)
      BY <2>3, <2>4, <3>2 DEF Reached
    <3>5. CASE Reached(m)
      BY <1>5, <1>6, <1>8, <1>9, <3>2, <3>3, <3>5
    <3>6. CASE ~Reached(m)
      BY <1>5, <1>8, <3>2, <3>3, <3>4, <3>6
    <3>. QED
      BY <3>5, <3>6
  <2>. QED
    BY <1>1, <1>2, <1>5, <1>8, <1>9, <2>1, <2>2, <2>5, <2>6 DEF WavesFit, Reached
<1>12. CopiesCounted'
  <2>1. ASSUME NEW k \in DOMAIN plan, plan[k].tool = Tree, NEW m \in Nodes(plan[k].input)
        PROVE  /\ Cardinality(Copies(k, m)') <= 1 + interruptions
               /\ k >= next /\ ~Spent(k, m)' => Cardinality(Copies(k, m)') <= interruptions
               /\ k < next => Copies(k, m)' # {}
    <3>1. /\ Cardinality(Copies(k, m)) <= 1 + interruptions
          /\ k >= next /\ ~Spent(k, m) => Cardinality(Copies(k, m)) <= interruptions
          /\ k < next => Copies(k, m) # {}
      BY <1>1, <1>3, <2>1 DEF CopiesCounted, Active
    <3>2. IsFiniteSet(Copies(k, m)) /\ Cardinality(Copies(k, m)) \in Nat
      BY <1>3, CopiesFinite
    <3>3. CASE k = next /\ m = n
      <4>1. ~Spent(k, m)
        BY <1>1, <1>6, <3>3 DEF Spent
      <4>2. Spent(k, m)'
        BY <1>1, <1>8, <3>3 DEF Spent
      <4>3. Copies(k, m)' = IF made THEN Copies(k, m) \cup {L + 1} ELSE Copies(k, m)
        <5>1. CASE made
          BY <1>4, <1>7, <3>3, <5>1 DEF Copies
        <5>2. CASE ~made
          BY <1>1, <5>2 DEF Copies
        <5>. QED
          BY <5>1, <5>2
      <4>4. Cardinality(Copies(k, m)') <= Cardinality(Copies(k, m)) + 1
        BY <3>2, <4>3, FS_AddElement
      <4>5. IsFiniteSet(Copies(k, m)') /\ Cardinality(Copies(k, m)') \in Nat
        BY SMTT(30), <3>2, <4>3, FS_AddElement, FS_CardinalityType
      <4>6. k >= next /\ ~(k < next)
        BY <1>3, <3>3
      <4>. QED
        BY <1>3, <3>1, <3>2, <4>1, <4>2, <4>4, <4>5, <4>6
    <3>4. CASE ~(k = next /\ m = n)
      <4>1. Copies(k, m)' = Copies(k, m)
        <5>1. CASE made
          BY <1>4, <1>7, <3>4, <5>1 DEF Copies
        <5>2. CASE ~made
          BY <1>1, <5>2 DEF Copies
        <5>. QED
          BY <5>1, <5>2
      <4>2. Spent(k, m) => Spent(k, m)'
        <5>1. CASE k = next
          BY <1>1, <1>3, <1>6, <1>8, <1>9, <2>1, <3>4, <5>1 DEF Spent
        <5>2. CASE k # next
          BY <5>2 DEF Spent
        <5>. QED
          BY <5>1, <5>2
      <4>. QED
        BY <3>1, <4>1, <4>2
    <3>. QED
      BY <3>3, <3>4
  <2>. QED
    BY <1>1, <2>1 DEF CopiesCounted
<1>. QED
  BY <1>10, <1>11, <1>12

\* The first wave: the roots.
LEMMA BeginTreeKeeps ==
  ASSUME TreeInv, BeginTree
  PROVE  WavesFit' /\ BackendFits' /\ CopiesCounted'
<1>1. /\ next \in Nat \ {0} /\ interruptions \in Nat /\ PlanFits /\ BackendFits /\ CopiesCounted
      /\ Len(plan) \in Nat /\ DOMAIN plan = 1 .. Len(plan)
  BY SequenceFits DEF TreeInv, ControlFits, PlanFits
<1>2. phase = "acting" /\ next \in DOMAIN plan /\ plan[next].tool = Tree /\ UNCHANGED <<plan, backend>>
  BY <1>1 DEF BeginTree, Performing, planner
<1>3. CASE ~ValidTree(Input)
  BY <1>2, <1>3, CallEnds DEF BeginTree, Active, Refused, Completed
<1>4. CASE ValidTree(Input)
  <2>1. /\ phase' = "creating" /\ UNCHANGED <<next, interruptions>>
        /\ sent' = [m \in Children(Input, 0) |-> "queued"]
        /\ ids' = [m \in Nodes(Input) |-> 0]
    BY <1>4 DEF BeginTree
  <2>2. Input' = Input
    BY <1>2, <2>1 DEF Input
  <2>3. /\ DOMAIN sent' = Children(Input, 0) /\ \A m \in Children(Input, 0) : sent'[m] = "queued"
        /\ \A m \in Nodes(Input) : ids'[m] = 0
    BY <2>1
  <2>4. BackendFits' /\ \A k, m : Copies(k, m)' = Copies(k, m)
    BY <1>1, <1>2, <2>1, BackendStays
  <2>5. IsTree(Input)
    BY <1>1, <1>2 DEF Input, PlanFits
  <2>6. ASSUME NEW m \in Nodes(Input)
        PROVE  IF m \in Children(Input, 0)
               THEN Input[m].parent = 0 /\ 0 \notin Children(Input, 0)
               ELSE Input[m].parent # 0 /\ Input[m].parent \in Nodes(Input)
    <3>1. Input[m].parent \in 0 .. m - 1 /\ m \in 1 .. Len(Input) /\ Len(Input) \in Nat
      BY <2>5, SequenceFits DEF IsTree, Nodes
    <3>. QED
      BY <3>1 DEF Nodes, Children
  <2>7. WavesFit'
    <3>1. sent' \in [Children(Input, 0) -> {"queued", "sent", "created", "failed"}]
      BY <2>1
    <3>2. ids' \in [Nodes(Input) -> Nat]
      BY <2>1
    <3>3. Children(Input, 0) \subseteq Nodes(Input)
      BY DEF Children
    <3>. QED
      BY <2>1, <2>2, <2>3, <2>6, <3>1, <3>2, <3>3 DEF WavesFit, Reached
  <2>8. CopiesCounted'
    <3>1. \A k, m : ~Spent(k, m)
      BY <1>2 DEF Spent
    <3>. QED
      BY <1>1, <1>2, <2>1, <2>4, <3>1 DEF CopiesCounted, Active
  <2>. QED
    BY <2>4, <2>7, <2>8
<1>. QED
  BY <1>3, <1>4

\* The end of a wave: the next one is below all that exists, and without one
\* everything exists.
LEMMA LevelEndsKeeps ==
  ASSUME TreeInv, LevelEnds
  PROVE  WavesFit' /\ BackendFits' /\ CopiesCounted'
<1>1. /\ phase = "creating" /\ InState("sent") = {} /\ UNCHANGED <<plan, backend>>
      /\ InState("queued") = {} \/ FailureSeen
  BY DEF LevelEnds, planner
<1>2. /\ WavesFit /\ BackendFits /\ CopiesCounted /\ PlanFits
      /\ next \in Nat \ {0} /\ interruptions \in Nat
      /\ next \in DOMAIN plan /\ plan[next].tool = Tree
  BY <1>1 DEF TreeInv, ControlFits
<1>3. CASE InState("failed") # {}
  <2>1. Raised
    BY <1>3 DEF LevelEnds
  <2>2. ~Completed
    BY <1>2, <2>1 DEF Raised, Completed
  <2>. QED
    BY <1>1, <2>1, <2>2, CallEnds DEF Active
<1>4. CASE InState("failed") = {}
  <2>1. /\ sent \in [DOMAIN sent -> {"queued", "sent", "created", "failed"}]
        /\ DOMAIN sent \subseteq Nodes(Input)
        /\ ids \in [Nodes(Input) -> Nat]
        /\ \A m \in DOMAIN sent : sent[m] = "created" <=> ids[m] # 0
        /\ \A m \in Nodes(Input) : ids[m] # 0 =>
              ids[m] \in DOMAIN backend /\ backend[ids[m]].action = next /\ backend[ids[m]].node = m
        /\ \A m \in Nodes(Input) :
              IF Reached(m)
              THEN /\ Input[m].parent \notin DOMAIN sent
                   /\ Input[m].parent # 0 => ids[Input[m].parent] # 0
              ELSE /\ Input[m].parent # 0
                   /\ Reached(Input[m].parent) => Input[m].parent \in DOMAIN sent
    BY <1>1, <1>2 DEF WavesFit
  <2>2. \A m \in DOMAIN sent : sent[m] = "created" /\ ids[m] # 0
    BY <1>1, <1>4, <2>1 DEF InState, FailureSeen
  <2>3. \A m \in Nodes(Input) : Reached(m) <=> ids[m] # 0
    BY <2>2 DEF Reached
  <2>4. IsTree(Input) /\ Input = plan[next].input
    BY <1>2 DEF Input, PlanFits
  <2>5. /\ Len(Input) \in Nat
        /\ \A m \in Nodes(Input) : /\ m \in Nat /\ Input[m].parent \in 0 .. m - 1
                                   /\ Input[m].parent # 0 => Input[m].parent \in Nodes(Input)
    BY <2>4, SequenceFits DEF IsTree, Nodes
  <2>6. CASE NextLevel # {}
    <3>1. /\ sent' = [m \in NextLevel |-> "queued"]
          /\ UNCHANGED <<phase, next, interruptions, ids>>
      BY <1>4, <2>6 DEF LevelEnds, progress
    <3>2. Input' = Input
      BY <1>1, <3>1 DEF Input
    <3>3. NextLevel = {m \in Nodes(Input) : Input[m].parent \in DOMAIN sent}
      BY DEF NextLevel
    <3>4. DOMAIN sent' = NextLevel /\ \A m \in NextLevel : sent'[m] = "queued"
      BY <3>1
    <3>5. \A m \in NextLevel : ids[m] = 0
      BY <2>1, <2>3, <3>3
    <3>6. ASSUME NEW m \in Nodes(Input)
          PROVE  IF m \in NextLevel \/ ids[m] # 0
                 THEN /\ Input[m].parent \notin NextLevel
                      /\ Input[m].parent # 0 => ids[Input[m].parent] # 0
                 ELSE /\ Input[m].parent # 0
                      /\ ids[Input[m].parent] # 0 => Input[m].parent \in NextLevel
      <4>1. CASE m \in NextLevel
        <5>1. ids[Input[m].parent] # 0
          BY <2>2, <3>3, <4>1
        <5>. QED
          BY <3>5, <4>1, <5>1
      <4>2. CASE m \notin NextLevel /\ ids[m] # 0
        <5>1. Input[m].parent # 0 => ids[Input[m].parent] # 0
          BY <2>1, <2>3, <4>2
        <5>2. Input[m].parent \notin NextLevel
          BY <2>5, <3>3, <3>5, <5>1
        <5>. QED
          BY <4>2, <5>1, <5>2
      <4>3. CASE m \notin NextLevel /\ ids[m] = 0
        <5>1. /\ Input[m].parent # 0 /\ Input[m].parent \in Nodes(Input)
              /\ Reached(Input[m].parent) => Input[m].parent \in DOMAIN sent
          BY <2>1, <2>3, <2>5, <4>3
        <5>2. ids[Input[m].parent] = 0
          BY <2>3, <3>3, <4>3, <5>1
        <5>. QED
          BY <4>3, <5>1, <5>2
      <4>. QED
        BY <4>1, <4>2, <4>3
    <3>7. WavesFit'
      <4>1. sent' \in [NextLevel -> {"queued", "sent", "created", "failed"}]
        BY <3>1
      <4>2. NextLevel \subseteq Nodes(Input)
        BY <3>3
      <4> HIDE DEF NextLevel
      <4>3. \A m \in Nodes(Input) : Input[m].parent = 0 \/ Input[m].parent \in Nodes(Input)
        BY <2>5
      <4>4. \A m \in NextLevel : ~(sent'[m] = "created") /\ ids'[m] = 0
        BY <3>1, <3>4, <3>5
      <4>. QED
        BY <1>1, <2>1, <3>1, <3>2, <3>4, <3>6, <4>1, <4>2, <4>4 DEF WavesFit, Reached
    <3>8. BackendFits' /\ \A k, m : Copies(k, m)' = Copies(k, m)
      BY <1>1, <1>2, <3>1, BackendStays
    <3>9. \A k : \A m \in Nodes(Input) : Spent(k, m) => Spent(k, m)'
      BY <1>1, <2>2, <3>1 DEF Spent
    <3>10. CopiesCounted'
      <4>1. ASSUME NEW k \in DOMAIN plan, plan[k].tool = Tree, NEW m \in Nodes(plan[k].input)
            PROVE  Spent(k, m) => Spent(k, m)'
        BY <2>4, <3>9 DEF Spent
      <4>. QED
        BY <1>1, <1>2, <3>1, <3>8, <4>1 DEF CopiesCounted
    <3>. QED
      BY <3>7, <3>8, <3>10
  <2>7. CASE NextLevel = {}
    <3> DEFINE U == {m \in Nodes(Input) : ids[m] = 0}
    <3>1. U = {}
      <4> SUFFICES ASSUME U # {} PROVE FALSE
        OBVIOUS
      <4>1. U \subseteq Nat
        BY <2>5
      <4>2. PICK m \in U : \A x \in U : m <= x
        BY <4>1, LeastElement
      <4>3. /\ Input[m].parent # 0 /\ Input[m].parent \in Nodes(Input)
            /\ Reached(Input[m].parent) => Input[m].parent \in DOMAIN sent
        BY <2>1, <2>3, <2>5
      <4>4. Input[m].parent \notin U
        BY <2>5, <4>2
      <4>5. m \in NextLevel
        BY <2>3, <4>3, <4>4 DEF NextLevel
      <4>. QED
        BY <2>7, <4>5
    <3>2. ASSUME NEW m \in Nodes(plan[next].input) PROVE Copies(next, m) # {}
      <4>1. ids[m] # 0 /\ m \in Nodes(Input)
        BY <2>4, <3>1
      <4>2. ids[m] \in Copies(next, m)
        BY <2>1, <4>1 DEF Copies
      <4>. QED
        BY <4>2
    <3>3. Completed
      BY <1>4, <2>7 DEF LevelEnds
    <3>. QED
      BY <1>1, <3>2, <3>3, CallEnds DEF Active
  <2>. QED
    BY <2>6, <2>7
<1>. QED
  BY <1>3, <1>4

LEMMA TreeStep ==
  ASSUME TreeInv, Next \/ UNCHANGED vars
  PROVE  TreeInv'
<1>1. ControlFits'
  BY ControlStep DEF TreeInv
<1>2. /\ next \in Nat \ {0} /\ interruptions \in Nat /\ PlanFits /\ BackendFits /\ CopiesCounted
      /\ Len(plan) \in Nat /\ DOMAIN plan = 1 .. Len(plan)
  BY SequenceFits DEF TreeInv, ControlFits, PlanFits
<1> SUFFICES WavesFit' /\ BackendFits' /\ CopiesCounted'
  BY <1>1 DEF TreeInv
\* Nothing exists while the plan is made.
<1>3. ASSUME phase = "planning", phase' # "creating", UNCHANGED <<next, backend, interruptions>>
      PROVE  WavesFit' /\ BackendFits' /\ CopiesCounted'
  <2>1. backend' = <<>> /\ next' = 1
    BY <1>3 DEF TreeInv, ControlFits
  <2>2. BackendFits'
    BY <1>3, <2>1 DEF TreeInv, BackendFits
  <2>3. \A k, n : Copies(k, n)' = {}
    BY <2>1 DEF Copies
  <2>4. Cardinality({}) = 0
    BY FS_EmptySet
  <2>5. DOMAIN plan' \subseteq Nat \ {0}
    <3>1. IsSequence(plan)'
      BY <1>1 DEF ControlFits, PlanFits
    <3>. QED
      BY <3>1, SequenceFits
  <2>6. CopiesCounted'
    <3>1. \A k, n : Cardinality(Copies(k, n)') = 0
      BY <2>3, <2>4
    <3>2. \A k \in DOMAIN plan' : ~(k < next')
      BY <2>1, <2>5
    <3>3. interruptions' \in Nat
      BY <1>2, <1>3
    <3>. QED
      BY <3>1, <3>2, <3>3 DEF CopiesCounted
  <2>. QED
    BY <1>3, <2>2, <2>6 DEF WavesFit
<1>4. ASSUME UNCHANGED <<phase, next, interruptions, plan, backend, sent, ids>>
      PROVE  WavesFit' /\ BackendFits' /\ CopiesCounted'
  <2>1. BackendFits' /\ \A k, n : Copies(k, n)' = Copies(k, n)
    BY <1>2, <1>4, BackendStays
  <2>2. Input' = Input
    BY <1>4 DEF Input
  <2>3. \A k, n : Spent(k, n)' = Spent(k, n)
    BY <1>4 DEF Spent
  <2>4. WavesFit'
    BY <1>4, <2>2 DEF TreeInv, WavesFit, Reached
  <2>5. CopiesCounted'
    BY <1>2, <1>4, <2>1, <2>3 DEF CopiesCounted
  <2>. QED
    BY <2>1, <2>4, <2>5
\* The phase changes, and there is no tree.
<1>5. ASSUME phase # "creating", phase' # "creating", phase' \in Active => phase \in Active,
             UNCHANGED <<next, interruptions, plan, backend>>
      PROVE  WavesFit' /\ BackendFits' /\ CopiesCounted'
  <2>1. BackendFits' /\ \A k, n : Copies(k, n)' = Copies(k, n)
    BY <1>2, <1>5, BackendStays
  <2>2. \A k, n : ~Spent(k, n)
    BY <1>5 DEF Spent
  <2>3. CopiesCounted'
    BY <1>2, <1>5, <2>1, <2>2 DEF CopiesCounted
  <2>. QED
    BY <1>5, <2>1, <2>3 DEF WavesFit
\* A tool that does not create items returned or raised.
<1>6. ASSUME Completed \/ Refused \/ Raised, phase \in {"acting", "updating"}, UNCHANGED <<plan, backend>>,
             plan[next].tool # Tree
      PROVE  WavesFit' /\ BackendFits' /\ CopiesCounted'
  BY <1>6, CallEnds DEF Active
<1>7. CASE UNCHANGED vars
  BY <1>4, <1>7 DEF vars, planner, progress, tree
<1>8. CASE PlannerStep
  <2>1. CASE \E draft \in Drafts, seconds \in 1 .. MaxGeneration : Generate(draft, seconds)
    BY <1>3, <2>1 DEF Generate, TryAgain, Returns, tree
  <2>2. CASE \E seconds \in 1 .. MaxGeneration : GenerationRaises(seconds)
    BY <1>3, <2>2 DEF GenerationRaises, TryAgain, Returns, tree
  <2>3. CASE NothingPlanned
    BY <1>5, <2>3 DEF NothingPlanned, tree, planner, Active
  <2>. QED
    BY <1>8, <2>1, <2>2, <2>3 DEF PlannerStep
<1>9. CASE ToolStep
  <2>1. CASE BeginUpdates
    <3>1. phase = "acting" /\ plan[next].tool # Tree /\ UNCHANGED <<plan, backend>>
      BY <2>1 DEF BeginUpdates, Performing, Bulk, Tree, planner, tree
    <3>2. CASE ValidUpdates(Input)
      BY <1>5, <2>1, <3>1, <3>2 DEF BeginUpdates, Active
    <3>3. CASE ~ValidUpdates(Input)
      BY <1>6, <2>1, <3>1, <3>3 DEF BeginUpdates
    <3>. QED
      BY <3>2, <3>3
  <2>2. ASSUME phase = "updating" PROVE plan[next].tool # Tree
    BY <2>2 DEF TreeInv, ControlFits, Bulk, Tree
  <2>3. CASE SkipUpdate
    BY <1>4, <1>6, <2>2, <2>3 DEF SkipUpdate, Advance, planner, progress, tree
  <2>4. CASE \E outcome \in Outcome : SendUpdate(outcome)
    BY <1>4, <1>6, <2>2, <2>4 DEF SendUpdate, Advance, planner, progress, tree
  <2>5. CASE \E outcome \in Outcome : CreateSprint(outcome)
    BY <1>6, <2>5 DEF CreateSprint, Performing, Sprint, Tree, planner, tree
  <2>6. CASE \E sprintId \in 0 .. Len(sprints), outcome \in Outcome : AddSprintWorkItems(sprintId, outcome)
    BY <1>6, <2>6 DEF AddSprintWorkItems, Performing, Mapping, Tree, planner, tree
  <2>. QED
    BY <1>9, <2>1, <2>3, <2>4, <2>5, <2>6, BeginTreeKeeps, SendCreateKeeps, CreateAnsweredKeeps,
       LevelEndsKeeps DEF ToolStep
<1>10. CASE Interrupted
  <2>1. /\ phase \in Active /\ phase' = "acting" /\ interruptions' = interruptions + 1
        /\ UNCHANGED <<next, plan, backend>>
    BY <1>10 DEF Interrupted, planner, Active
  <2>2. BackendFits' /\ \A k, n : Copies(k, n)' = Copies(k, n)
    BY <1>2, <2>1, BackendStays
  <2>3. \A k, n : Cardinality(Copies(k, n)) \in Nat
    BY <1>2, CopiesFinite DEF BackendFits
  <2>4. CopiesCounted'
    BY <1>2, <2>1, <2>2, <2>3 DEF CopiesCounted
  <2>. QED
    BY <2>1, <2>2, <2>4 DEF WavesFit
<1>11. CASE PeopleStep
  BY <1>4, <1>11 DEF PeopleStep, PersonEdits, OthersSprint, planner, progress, tree
<1>. QED
  BY <1>7, <1>8, <1>9, <1>10, <1>11 DEF Next

\* At every moment, and in what a failed call leaves behind, an item below
\* another one hangs under the item of its parent node, and that one lists
\* everyone who works under it: for every tree that is accepted.
\* Code: CreateWorkItemTreeTool.execute and _rollup_assignee_usernames.
THEOREM ParentsListEveryone == Spec => []ParentListsEveryone
<1>1. TreeInv => ParentListsEveryone
  <2> SUFFICES ASSUME TreeInv, NEW b \in DOMAIN backend,
                      plan[backend[b].action].input[backend[b].node].parent # 0
               PROVE  /\ backend[b].parent \in 1 .. b - 1
                      /\ backend[backend[b].parent].node = plan[backend[b].action].input[backend[b].node].parent
                      /\ backend[b].assignees \subseteq backend[backend[b].parent].assignees
    BY DEF ParentListsEveryone
  <2> DEFINE item == backend[b]
             nodes == plan[item.action].input
             p == nodes[item.node].parent
             above == backend[item.parent]
  <2>1. Len(backend) \in Nat /\ DOMAIN backend = 1 .. Len(backend) /\ ItemFits(b) /\ PlanFits
    BY SequenceFits DEF TreeInv, BackendFits, ControlFits
  <2>2. /\ item.parent \in 1 .. b - 1 /\ above.action = item.action /\ above.node = p
        /\ item.node \in Nodes(nodes) /\ item.assignees = NodeAssignees(nodes, item.node)
        /\ IsTree(nodes)
    BY <2>1 DEF ItemFits, PlanFits
  <2>3. ItemFits(item.parent)
    BY SMTT(30), <2>1, <2>2 DEF TreeInv, BackendFits
  <2>4. above.assignees = NodeAssignees(nodes, p)
    BY SMTT(30), <2>2, <2>3 DEF ItemFits
  <2>5. p \in Nodes(nodes)
    BY <2>2, <2>3 DEF ItemFits
  <2> HIDE DEF item, nodes, p, above
  <2>6. NodeAssignees(nodes, item.node) \subseteq NodeAssignees(nodes, p)
    <3>1. nodes[item.node].parent \in Nodes(nodes) /\ nodes[item.node].parent # 0
      BY <2>5 DEF item, nodes, p
    <3>. QED
      BY <2>2, <3>1, RollupGoesUp DEF p
  <2>. QED
    BY <2>2, <2>4, <2>6 DEF item, nodes, p, above
<1>2. TreeInv /\ [Next]_vars => TreeInv'
  BY TreeStep
<1>. QED
  BY <1>1, <1>2, TreeInit, PTL DEF Spec

-----------------------------------------------------------------------------
(***************************************************************************)
(* The sprints.                                                            *)
(***************************************************************************)
\* The last action whose sprint may exist without an interruption.
LastSettled == IF phase \in Active THEN next - 1 ELSE next

LEMMA SprintsFinite ==
  ASSUME PlanFits, sprints \in Seq(SprintType), NEW a
  PROVE  /\ IsFiniteSet(RunSprints) /\ Cardinality(RunSprints) \in Nat
         /\ IsFiniteSet(SprintActions(a)) /\ Cardinality(SprintActions(a)) \in Nat
<1>1. RunSprints \subseteq 1 .. Len(sprints) /\ Len(sprints) \in Nat
  BY DEF RunSprints
<1>2. SprintActions(a) \subseteq 1 .. Len(plan) /\ Len(plan) \in Nat
  BY SequenceFits DEF SprintActions, PlanFits
<1>. QED
  BY <1>1, <1>2, FiniteInterval

\* Steps that create no sprint.
LEMMA SprintsStay ==
  ASSUME ControlFits, SprintsCounted, ControlFits', UNCHANGED plan, sprints' \in Seq(SprintType),
         RunSprints' = RunSprints, interruptions' >= interruptions, LastSettled' >= LastSettled
  PROVE  SprintsCounted'
<1> DEFINE a == LastSettled
           c == LastSettled'
<1>1. /\ a \in Int /\ c \in Int /\ interruptions \in Nat /\ interruptions' \in Nat /\ PlanFits
      /\ sprints \in Seq(SprintType) /\ DOMAIN plan \subseteq Nat
  BY SMTT(30), SequenceFits DEF ControlFits, SprintsCounted, LastSettled, PlanFits
<1>2. Cardinality(RunSprints) <= Cardinality(SprintActions(a)) + interruptions
  BY DEF SprintsCounted, LastSettled
<1> HIDE DEF a, c
<1>3. SprintActions(a) \subseteq SprintActions(c)
  BY <1>1 DEF SprintActions, a, c
<1>4. Cardinality(SprintActions(a)) <= Cardinality(SprintActions(c))
  BY <1>1, <1>3, SprintsFinite, FS_Subset
<1>5. Cardinality(RunSprints') <= Cardinality(SprintActions(c)) + interruptions'
  BY <1>1, <1>2, <1>4, SprintsFinite
<1>6. SprintActions(LastSettled)' = SprintActions(c)
  BY DEF SprintActions, c
<1>. QED
  BY <1>5, <1>6 DEF SprintsCounted, LastSettled

\* Where a tool leaves the handler, no action is less settled than before.
LEMMA HandlerSettles ==
  ASSUME ControlFits, Completed \/ Refused \/ Raised, phase \in Active
  PROVE  LastSettled' >= LastSettled /\ interruptions' >= interruptions
<1>1. next \in Nat \ {0} /\ interruptions \in Nat /\ Len(plan) \in Nat
  BY SequenceFits DEF ControlFits, PlanFits
<1>. QED
  BY <1>1, HandlerFits DEF LastSettled

\* create_sprint: one sprint more, and either the action is settled or the call
\* was interrupted.
LEMMA CreateSprintKeeps ==
  ASSUME ControlFits, SprintsCounted, ControlFits', NEW outcome \in Outcome, CreateSprint(outcome)
  PROVE  SprintsCounted'
<1>1. /\ next \in Nat \ {0} /\ interruptions \in Nat /\ PlanFits /\ sprints \in Seq(SprintType)
      /\ Len(plan) \in Nat /\ DOMAIN plan = 1 .. Len(plan)
  BY SequenceFits DEF ControlFits, PlanFits, SprintsCounted
<1>2. phase = "acting" /\ next \in DOMAIN plan /\ plan[next].tool = Sprint /\ UNCHANGED plan
  BY <1>1 DEF CreateSprint, Performing, planner
<1>3. Completed \/ Raised
  BY DEF CreateSprint
<1>4. CASE outcome = "failed"
  <2>1. sprints' = sprints
    BY <1>4 DEF CreateSprint
  <2>. QED
    BY <1>1, <1>2, <1>3, <2>1, HandlerSettles, SprintsStay DEF RunSprints, Active
<1>5. CASE outcome # "failed"
  <2> DEFINE new == [by |-> "run", status |-> "planned"]
             L == Len(sprints)
  <2>1. sprints' = Append(sprints, new) /\ new \in SprintType
    BY <1>5 DEF CreateSprint, SprintType
  <2>2. /\ sprints' \in Seq(SprintType) /\ DOMAIN sprints' = 1 .. L + 1 /\ L \in Nat
        /\ DOMAIN sprints = 1 .. L
        /\ sprints'[L + 1] = new /\ \A s \in 1 .. L : sprints'[s] = sprints[s]
    BY <1>1, <2>1
  <2> HIDE DEF L
  <2>3. RunSprints' = RunSprints \cup {L + 1}
    BY <2>2 DEF RunSprints
  <2>4. /\ IsFiniteSet(RunSprints) /\ Cardinality(RunSprints) \in Nat
        /\ \A a : IsFiniteSet(SprintActions(a)) /\ Cardinality(SprintActions(a)) \in Nat
    BY <1>1, SprintsFinite
  <2>5. Cardinality(RunSprints') <= Cardinality(RunSprints) + 1 /\ Cardinality(RunSprints') \in Nat
    <3> DEFINE R == RunSprints
               x == L + 1
    <3> HIDE DEF R, x
    <3>1. IsFiniteSet(R) /\ Cardinality(R) \in Nat
      BY <2>4 DEF R
    <3>2. /\ IsFiniteSet(R \cup {x})
          /\ Cardinality(R \cup {x}) = IF x \in R THEN Cardinality(R) ELSE Cardinality(R) + 1
      BY <3>1, FS_AddElement
    <3>3. Cardinality(R \cup {x}) <= Cardinality(R) + 1 /\ Cardinality(R \cup {x}) \in Nat
      BY <3>1, <3>2
    <3>. QED
      BY <2>3, <3>3 DEF R, x
  <2>6. SprintActions(next) = SprintActions(next - 1) \cup {next} /\ next \notin SprintActions(next - 1)
    BY <1>1, <1>2 DEF SprintActions
  <2>7. Cardinality(SprintActions(next)) = Cardinality(SprintActions(next - 1)) + 1
    BY <2>4, <2>6, FS_AddElement
  <2>8. Cardinality(RunSprints) <= Cardinality(SprintActions(next - 1)) + interruptions
    BY <1>2 DEF SprintsCounted, Active
  <2>9. Cardinality(RunSprints') <= Cardinality(SprintActions(next)) + interruptions
    BY SMTT(30), <1>1, <2>4, <2>5, <2>7, <2>8
  <2>10. \/ LastSettled' >= next /\ interruptions' = interruptions
         \/ LastSettled' = next - 1 /\ interruptions' = interruptions + 1
    BY <1>1, <1>3 DEF Completed, Raised, LastSettled, Active
  <2> DEFINE c == LastSettled'
  <2>11. c \in Int /\ SprintActions(LastSettled)' = SprintActions(c)
    BY <1>1, <1>2, <2>10 DEF SprintActions, ControlFits, LastSettled
  <2> HIDE DEF c
  <2>12. Cardinality(RunSprints') <= Cardinality(SprintActions(c)) + interruptions'
    <3>1. CASE c >= next /\ interruptions' = interruptions
      <4>1. SprintActions(next) \subseteq SprintActions(c)
        BY <1>1, <2>11, <3>1 DEF SprintActions
      <4>2. Cardinality(SprintActions(next)) <= Cardinality(SprintActions(c))
        BY <2>4, <4>1, FS_Subset
      <4>. QED
        BY <1>1, <2>4, <2>5, <2>9, <3>1, <4>2
    <3>2. CASE c = next - 1 /\ interruptions' = interruptions + 1
      BY <1>1, <2>4, <2>5, <2>8, <3>2
    <3>. QED
      BY <2>10, <3>1, <3>2 DEF c
  <2>. QED
    BY <2>2, <2>11, <2>12 DEF SprintsCounted, LastSettled
<1>. QED
  BY <1>4, <1>5

\* Another sprint, or another state of one, by other people.
LEMMA OthersSprintKeeps ==
  ASSUME sprints \in Seq(SprintType), NEW s \in DOMAIN sprints, OthersSprint(s)
  PROVE  /\ sprints' \in Seq(SprintType)
         /\ RunSprints' = RunSprints
         /\ Len(sprints') \in {Len(sprints), Len(sprints) + 1}
         /\ \A t \in PlannedSprints' : sprints'[t].by = "run" => t \in PlannedSprints /\ sprints[t].by = "run"
<1> DEFINE new == [by |-> "other", status |-> "planned"]
           L == Len(sprints)
<1>1. L \in Nat /\ DOMAIN sprints = 1 .. L /\ \A t \in 1 .. L : sprints[t] \in SprintType
  OBVIOUS
<1>2. CASE sprints' = Append(sprints, new)
  <2>1. new \in SprintType
    BY DEF SprintType
  <2>2. /\ sprints' \in Seq(SprintType) /\ DOMAIN sprints' = 1 .. L + 1 /\ Len(sprints') = L + 1
        /\ sprints'[L + 1] = new /\ \A t \in 1 .. L : sprints'[t] = sprints[t]
    BY <1>2, <2>1
  <2>. QED
    BY <1>1, <2>2 DEF RunSprints, PlannedSprints
<1>3. CASE sprints' = [sprints EXCEPT ![s].status = "active"]
  <2>1. [sprints[s] EXCEPT !.status = "active"] \in SprintType
    BY <1>1 DEF SprintType
  <2>2. sprints' \in Seq(SprintType) /\ Len(sprints') = L /\ DOMAIN sprints' = 1 .. L
    BY <1>1, <1>3, <2>1
  <2>3. /\ \A t \in 1 .. L : t # s => sprints'[t] = sprints[t]
        /\ sprints'[s].status = "active" /\ sprints'[s].by = sprints[s].by
    BY <1>1, <1>3 DEF SprintType
  <2>. QED
    BY <1>1, <2>2, <2>3 DEF RunSprints, PlannedSprints
<1>. QED
  BY <1>2, <1>3 DEF OthersSprint

LEMMA SprintsInit == Init => SprintsCounted
<1> SUFFICES ASSUME Init PROVE SprintsCounted
  OBVIOUS
<1> DEFINE first == [by |-> "other", status |-> "planned"]
<1>1. sprints = <<first>> /\ first \in SprintType /\ first.by # "run"
  BY DEF Init, SprintType
<1>2. sprints \in Seq(SprintType) /\ RunSprints = {}
  BY <1>1 DEF RunSprints
<1>3. Cardinality(RunSprints) = 0
  BY <1>2, FS_EmptySet
<1>4. interruptions = 0 /\ phase \in Active /\ PlanFits
  BY ControlInit DEF Init, ControlFits, Active
<1>5. Cardinality(SprintActions(next - 1)) \in Nat
  BY <1>2, <1>4, SprintsFinite
<1>. QED
  BY <1>2, <1>3, <1>4, <1>5 DEF SprintsCounted

LEMMA SprintsStep ==
  ASSUME ControlFits, SprintsCounted, Next \/ UNCHANGED vars
  PROVE  SprintsCounted'
<1>1. ControlFits'
  BY ControlStep
<1>2. /\ next \in Nat \ {0} /\ interruptions \in Nat /\ PlanFits /\ sprints \in Seq(SprintType)
      /\ phase \in Active \cup Ended
  BY DEF ControlFits, SprintsCounted
<1>3. LastSettled \in Int
  BY <1>2 DEF LastSettled
<1>4. Active \cap Ended = {}
  BY DEF Active, Ended
\* The sprints and the plan are as before.
<1>5. ASSUME UNCHANGED <<plan, sprints>>, interruptions' >= interruptions, LastSettled' >= LastSettled
      PROVE  SprintsCounted'
  BY <1>1, <1>2, <1>5, SprintsStay DEF RunSprints
<1>6. ASSUME UNCHANGED <<plan, sprints, phase, next, interruptions>> PROVE SprintsCounted'
  <2>1. LastSettled' = LastSettled /\ interruptions' = interruptions
    BY <1>6 DEF LastSettled
  <2>. QED
    BY <1>2, <1>3, <1>5, <1>6, <2>1
<1>7. ASSUME Completed \/ Refused \/ Raised, phase \in Active, UNCHANGED <<plan, sprints>>
      PROVE  SprintsCounted'
  BY <1>5, <1>7, HandlerSettles
<1>8. ASSUME phase \in Active, next' = next, interruptions' >= interruptions, UNCHANGED <<plan, sprints>>
      PROVE  SprintsCounted'
  <2>1. LastSettled' >= LastSettled
    BY <1>2, <1>8 DEF LastSettled
  <2>. QED
    BY <1>5, <1>8, <2>1
<1>9. CASE UNCHANGED vars
  BY <1>6, <1>9 DEF vars, planner, progress, sprint
<1>10. CASE PlannerStep
  <2>1. CASE \E draft \in Drafts, seconds \in 1 .. MaxGeneration : Generate(draft, seconds)
    <3>1. phase = "planning" /\ phase' \in Active /\ UNCHANGED <<next, interruptions, sprints>>
      BY <2>1 DEF Generate, TryAgain, Returns, sprint, Active
    <3>2. next = 1 /\ next' = 1
      BY <3>1 DEF ControlFits
    <3>3. DOMAIN plan \subseteq Nat \ {0} /\ DOMAIN plan' \subseteq Nat \ {0}
      <4>1. IsSequence(plan) /\ IsSequence(plan)'
        BY <1>1 DEF ControlFits, PlanFits
      <4>. QED
        BY <4>1, SequenceFits
    <3>4. SprintActions(next - 1) = {} /\ SprintActions(next - 1)' = {}
      BY <3>2, <3>3 DEF SprintActions
    <3>5. RunSprints' = RunSprints
      BY <3>1 DEF RunSprints
    <3>6. Cardinality(RunSprints) <= Cardinality(SprintActions(next - 1)) + interruptions
      BY <3>1 DEF SprintsCounted, Active
    <3>. QED
      BY <1>2, <3>1, <3>4, <3>5, <3>6 DEF SprintsCounted
  <2>2. CASE \E seconds \in 1 .. MaxGeneration : GenerationRaises(seconds)
    BY <1>2, <1>8, <2>2 DEF GenerationRaises, sprint, Active
  <2>3. CASE NothingPlanned
    BY <1>2, <1>8, <2>3 DEF NothingPlanned, sprint, planner, Active
  <2>. QED
    BY <1>10, <2>1, <2>2, <2>3 DEF PlannerStep
<1>11. CASE ToolStep
  <2>1. CASE BeginTree
    <3>1. phase \in Active /\ UNCHANGED <<plan, sprints>>
      BY <2>1 DEF BeginTree, Performing, planner, sprint, Active
    <3>. QED
      BY <1>2, <1>7, <1>8, <2>1, <3>1 DEF BeginTree
  <2>2. CASE \E n \in DOMAIN sent : SendCreate(n)
    BY <1>6, <2>2 DEF SendCreate, planner, progress, sprint
  <2>3. CASE \E n \in DOMAIN sent, outcome \in Outcome : CreateAnswered(n, outcome)
    BY <1>6, <2>3 DEF CreateAnswered, planner, progress, sprint
  <2>4. CASE LevelEnds
    <3>1. phase \in Active /\ UNCHANGED <<plan, sprints>>
      BY <2>4 DEF LevelEnds, planner, sprint, Active
    <3>. QED
      BY <1>6, <1>7, <2>4, <3>1 DEF LevelEnds, progress
  <2>5. CASE BeginUpdates
    <3>1. phase \in Active /\ UNCHANGED <<plan, sprints>>
      BY <2>5 DEF BeginUpdates, Performing, planner, sprint, Active
    <3>. QED
      BY <1>2, <1>7, <1>8, <2>5, <3>1 DEF BeginUpdates
  <2>6. CASE SkipUpdate
    BY <1>6, <1>7, <2>6 DEF SkipUpdate, Advance, planner, progress, sprint, Active
  <2>7. CASE \E outcome \in Outcome : SendUpdate(outcome)
    BY <1>6, <1>7, <2>7 DEF SendUpdate, Advance, planner, progress, sprint, Active
  <2>8. CASE \E outcome \in Outcome : CreateSprint(outcome)
    BY <1>1, <2>8, CreateSprintKeeps
  <2>9. CASE \E sprintId \in 0 .. Len(sprints), outcome \in Outcome : AddSprintWorkItems(sprintId, outcome)
    BY <1>7, <2>9 DEF AddSprintWorkItems, Performing, planner, Active
  <2>. QED
    BY <1>11, <2>1, <2>2, <2>3, <2>4, <2>5, <2>6, <2>7, <2>8, <2>9 DEF ToolStep
<1>12. CASE Interrupted
  BY <1>2, <1>8, <1>12 DEF Interrupted, planner, sprint, Active
<1>13. CASE PeopleStep
  <2>1. CASE \E s \in DOMAIN sprints : OthersSprint(s)
    <3>1. UNCHANGED <<plan, phase, next, interruptions>>
      BY <2>1 DEF OthersSprint, planner, progress
    <3>2. sprints' \in Seq(SprintType) /\ RunSprints' = RunSprints
      BY <1>2, <2>1, OthersSprintKeeps
    <3>3. LastSettled' = LastSettled
      BY <3>1 DEF LastSettled
    <3>. QED
      BY <1>1, <1>2, <1>3, <3>1, <3>2, <3>3, SprintsStay
  <2>2. CASE ~ \E s \in DOMAIN sprints : OthersSprint(s)
    BY <1>6, <1>13, <2>2 DEF PeopleStep, PersonEdits, planner, progress, sprint
  <2>. QED
    BY <2>1, <2>2
<1>. QED
  BY <1>9, <1>10, <1>11, <1>12, <1>13 DEF Next

\* Refused inputs, exceptions, lost answers and redeliveries do not multiply what
\* is created: of a node of a tree and of a planned sprint there is one, and one
\* more at most for every invocation that ended half-way or whose failure was not
\* reported; and a completed plan has created all nodes of its trees.
\* Code: CreateWorkItemTreeTool.execute, CreateSprintTool.execute and
\* ActionEventHandler.handle.
THEOREM NothingCreatedTwice == Spec => []CreatedOnce
<1>1. Init => IInv
  BY TreeInit, SprintsInit DEF IInv
<1>2. IInv /\ [Next]_vars => IInv'
  BY TreeStep, SprintsStep DEF IInv, TreeInv
<1>3. IInv => CreatedOnce
  <2> SUFFICES ASSUME IInv PROVE CreatedOnce
    OBVIOUS
  <2>1. /\ PlanFits /\ CopiesCounted /\ interruptions \in Nat /\ sprints \in Seq(SprintType)
        /\ phase = "completed" => next > Len(plan)
        /\ next \in Nat /\ Len(plan) \in Nat /\ DOMAIN plan = 1 .. Len(plan)
    BY SequenceFits DEF IInv, TreeInv, ControlFits, PlanFits, SprintsCounted
  <2>2. \A k \in DOMAIN plan : plan[k].tool = Tree =>
           \A n \in Nodes(plan[k].input) :
              /\ Cardinality(Copies(k, n)) <= 1 + interruptions
              /\ phase = "completed" => Copies(k, n) # {}
    BY <2>1 DEF CopiesCounted
  <2> DEFINE a == IF phase \in Active THEN next - 1 ELSE next
             A == {k \in DOMAIN plan : plan[k].tool = Sprint}
  <2>3. Cardinality(RunSprints) <= Cardinality(SprintActions(a)) + interruptions
    BY DEF IInv, SprintsCounted
  <2> HIDE DEF a
  <2>4. SprintActions(a) \subseteq A /\ A \subseteq 1 .. Len(plan)
    BY <2>1 DEF SprintActions
  <2>5. IsFiniteSet(A) /\ Cardinality(A) \in Nat
    BY <2>1, <2>4, FiniteInterval
  <2>6. Cardinality(SprintActions(a)) <= Cardinality(A)
    BY <2>4, <2>5, FS_Subset
  <2> HIDE DEF A
  <2>7. Cardinality(RunSprints) <= Cardinality(A) + interruptions
    BY <2>1, <2>3, <2>5, <2>6, SprintsFinite
  <2>. QED
    BY <2>2, <2>7 DEF CreatedOnce, RunSprints, A
<1>. QED
  BY <1>1, <1>2, <1>3, PTL DEF Spec

-----------------------------------------------------------------------------
(***************************************************************************)
(* The mapping.                                                            *)
(***************************************************************************)
\* "Use after create_sprint" (prompts/tools/add_sprint_work_items.v1.yaml): the
\* sprints of a plan come before its mappings.
MapsLast(p) ==
    \A j, k \in DOMAIN p : p[j].tool = Mapping /\ p[k].tool = Sprint => k < j

\* Once items are mapped, a mapping lies behind, and no sprint ahead.
MappedFits ==
    /\ MapsLast(plan)
    /\ mapped # 0 => \E j \in DOMAIN plan : plan[j].tool = Mapping /\ j <= next
    /\ phase = "planning" => mapped = 0
    /\ OwnSprint

\* _latest_planned_sprint_id finds the latest one.
LEMMA LatestIsLatest ==
  ASSUME sprints \in Seq(SprintType), LatestPlannedSprintId # 0
  PROVE  \A s \in PlannedSprints : s <= LatestPlannedSprintId
<1>1. PlannedSprints \subseteq 0 .. Len(sprints) /\ Len(sprints) \in Nat
  BY DEF PlannedSprints
<1>2. PlannedSprints # {}
  BY DEF LatestPlannedSprintId
<1>3. \E s \in PlannedSprints : \A t \in PlannedSprints : t <= s
  BY <1>1, <1>2, GreatestElement
<1>. QED
  BY <1>2, <1>3 DEF LatestPlannedSprintId

LEMMA MappedStep ==
  ASSUME \A draft \in Drafts : MapsLast(draft),
         ControlFits, SprintsCounted, MappedFits, Next \/ UNCHANGED vars
  PROVE  MappedFits'
<1>1. /\ next \in Nat \ {0} /\ interruptions \in Nat /\ sprints \in Seq(SprintType)
      /\ Len(plan) \in Nat /\ DOMAIN plan = 1 .. Len(plan)
  BY SequenceFits DEF ControlFits, PlanFits, SprintsCounted
<1>2. CASE \E draft \in Drafts, seconds \in 1 .. MaxGeneration : Generate(draft, seconds)
  <2>1. PICK draft \in Drafts, seconds \in 1 .. MaxGeneration : Generate(draft, seconds)
    BY <1>2
  <2>2. phase = "planning" /\ plan' = Materialize(draft) /\ mapped' = mapped
    BY <2>1 DEF Generate, sprint
  <2>3. /\ DOMAIN draft = DOMAIN plan'
        /\ \A k \in DOMAIN draft : plan'[k].tool = draft[k].tool
    <3>1. \A k \in DOMAIN draft : DOMAIN draft[k] = {"tool", "input", "typed"}
      BY DraftsAssumption
    <3>. QED
      BY <2>2, <3>1 DEF Materialize
  <2>4. MapsLast(plan)'
    BY <2>3 DEF MapsLast
  <2>5. mapped' = 0
    BY <2>2 DEF MappedFits
  <2>. QED
    BY <2>4, <2>5 DEF MappedFits, OwnSprint
\* The plan stays, and what is mapped lies behind.
<1>3. ASSUME UNCHANGED plan, next' >= next, next' \in Nat
      PROVE  /\ MapsLast(plan)'
             /\ mapped # 0 => \E j \in DOMAIN plan' : plan'[j].tool = Mapping /\ j <= next'
  BY <1>1, <1>3 DEF MappedFits, MapsLast
<1>4. ASSUME UNCHANGED <<plan, sprints, mapped>>, next' >= next, next' \in Nat,
             phase' = "planning" => phase = "planning"
      PROVE  MappedFits'
  BY <1>3, <1>4 DEF MappedFits, OwnSprint, PlannedSprints
<1>5. ASSUME Completed \/ Refused \/ Raised
      PROVE  next' >= next /\ next' \in Nat /\ phase' # "planning"
  BY <1>1, <1>5, HandlerFits
<1>6. ASSUME UNCHANGED <<plan, sprints, mapped>>, Completed \/ Refused \/ Raised PROVE MappedFits'
  BY <1>4, <1>5, <1>6
<1>7. ASSUME UNCHANGED <<plan, sprints, mapped, next>>, phase' = "planning" => phase = "planning"
      PROVE  MappedFits'
  BY <1>1, <1>4, <1>7
<1>8. CASE UNCHANGED vars
  BY <1>7, <1>8 DEF vars, planner, progress, sprint
<1>9. CASE \E seconds \in 1 .. MaxGeneration : GenerationRaises(seconds)
  BY <1>7, <1>9 DEF GenerationRaises, sprint
<1>10. CASE NothingPlanned
  BY <1>7, <1>10 DEF NothingPlanned, planner, sprint
<1>11. CASE ToolStep
  <2>1. CASE BeginTree
    BY <1>6, <1>7, <2>1 DEF BeginTree, Performing, planner, sprint
  <2>2. CASE \E n \in DOMAIN sent : SendCreate(n)
    BY <1>7, <2>2 DEF SendCreate, planner, progress, sprint
  <2>3. CASE \E n \in DOMAIN sent, outcome \in Outcome : CreateAnswered(n, outcome)
    BY <1>7, <2>3 DEF CreateAnswered, planner, progress, sprint
  <2>4. CASE LevelEnds
    BY <1>6, <1>7, <2>4 DEF LevelEnds, planner, progress, sprint
  <2>5. CASE BeginUpdates
    BY <1>6, <1>7, <2>5 DEF BeginUpdates, Performing, planner, sprint
  <2>6. CASE SkipUpdate
    BY <1>6, <1>7, <2>6 DEF SkipUpdate, Advance, planner, progress, sprint
  <2>7. CASE \E outcome \in Outcome : SendUpdate(outcome)
    BY <1>6, <1>7, <2>7 DEF SendUpdate, Advance, planner, progress, sprint
  <2>8. CASE \E outcome \in Outcome : CreateSprint(outcome)
    <3>1. /\ next \in DOMAIN plan /\ plan[next].tool = Sprint /\ UNCHANGED <<plan, mapped>>
          /\ Completed \/ Raised
      BY <1>1, <2>8 DEF CreateSprint, Performing, planner
    <3>2. mapped = 0
      <4> SUFFICES ASSUME mapped # 0 PROVE FALSE
        OBVIOUS
      <4>1. PICK j \in DOMAIN plan : plan[j].tool = Mapping /\ j <= next
        BY DEF MappedFits
      <4>2. next < j
        BY <3>1, <4>1 DEF MappedFits, MapsLast
      <4>. QED
        BY <1>1, <4>1, <4>2
    <3>. QED
      BY <1>3, <1>5, <3>1, <3>2 DEF MappedFits, OwnSprint
  <2>9. CASE \E sprintId \in 0 .. Len(sprints), outcome \in Outcome : AddSprintWorkItems(sprintId, outcome)
    <3>1. PICK sprintId \in 0 .. Len(sprints), outcome \in Outcome : AddSprintWorkItems(sprintId, outcome)
      BY <2>9
    <3>2. /\ next \in DOMAIN plan /\ plan[next].tool = Mapping /\ UNCHANGED <<plan, sprints>>
          /\ Completed \/ Refused \/ Raised
          /\ \/ mapped' = mapped
             \/ sprintId # 0 /\ sprintId = LatestPlannedSprintId /\ mapped' = sprintId
      BY <1>1, <3>1 DEF AddSprintWorkItems, Performing, planner
    <3>3. CASE mapped' = mapped
      BY <1>6, <3>2, <3>3
    <3>4. CASE sprintId # 0 /\ sprintId = LatestPlannedSprintId /\ mapped' = sprintId
      <4>1. \A s \in PlannedSprints : s <= mapped'
        BY <1>1, <3>4, LatestIsLatest
      <4>2. OwnSprint'
        BY <3>2, <4>1 DEF OwnSprint, PlannedSprints
      <4>3. \E j \in DOMAIN plan' : plan'[j].tool = Mapping /\ j <= next'
        BY <1>1, <1>5, <3>2
      <4>. QED
        BY <1>3, <1>5, <3>2, <4>2, <4>3 DEF MappedFits
    <3>. QED
      BY <3>2, <3>3, <3>4
  <2>. QED
    BY <1>11, <2>1, <2>2, <2>3, <2>4, <2>5, <2>6, <2>7, <2>8, <2>9 DEF ToolStep
<1>12. CASE Interrupted
  BY <1>7, <1>12 DEF Interrupted, planner, sprint
<1>13. CASE \E s \in DOMAIN sprints : OthersSprint(s)
  <2>1. UNCHANGED <<plan, phase, next, mapped>>
    BY <1>13 DEF OthersSprint, planner, progress
  <2>2. \A t \in PlannedSprints' : sprints'[t].by = "run" => t \in PlannedSprints /\ sprints[t].by = "run"
    BY <1>1, <1>13, OthersSprintKeeps
  <2>3. OwnSprint'
    BY <2>1, <2>2 DEF MappedFits, OwnSprint
  <2>4. MapsLast(plan)' /\ (mapped # 0 => \E j \in DOMAIN plan' : plan'[j].tool = Mapping /\ j <= next')
    BY <1>1, <1>3, <2>1
  <2>. QED
    BY <2>1, <2>3, <2>4 DEF MappedFits
<1>14. CASE \E item \in Items : \E change \in PersonChanges(board[item]) : PersonEdits(item, change)
  BY <1>7, <1>14 DEF PersonEdits, planner, progress, sprint
<1>. QED
  BY <1>2, <1>8, <1>9, <1>10, <1>11, <1>12, <1>13, <1>14 DEF Next, PlannerStep, PeopleStep

\* When the plans create their sprints before they map items, as the skills ask of
\* the planner, the items are mapped into the sprint the plan created or into one
\* that was created after it: never into an older one while the own sprint is
\* still planned, whatever sprints other people create and start meanwhile.
\* Code: AddSprintWorkItemsTool.execute and _latest_planned_sprint_id.
THEOREM OwnSprintIsServed ==
  ASSUME \A draft \in Drafts : MapsLast(draft)
  PROVE  Spec => []OwnSprint
<1> DEFINE Inv == ControlFits /\ SprintsCounted /\ MappedFits
<1>1. Init => Inv
  <2> SUFFICES ASSUME Init PROVE MappedFits
    BY ControlInit, SprintsInit
  <2>1. DOMAIN plan = {} /\ mapped = 0
    BY DEF Init
  <2>. QED
    BY <2>1 DEF MappedFits, MapsLast, OwnSprint
<1>2. Inv /\ [Next]_vars => Inv'
  BY ControlStep, SprintsStep, MappedStep
<1>3. Inv => OwnSprint
  BY DEF MappedFits
<1>. QED
  BY <1>1, <1>2, <1>3, PTL DEF Spec
=============================================================================
