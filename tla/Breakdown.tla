------------------------------ MODULE Breakdown ------------------------------
(***************************************************************************)
(* A whole-workflow plan of work-item and sprint actions, from the         *)
(* planner's attempts to the last tool call.  People work on the same      *)
(* board and the same sprints all the time, the tools know them as they    *)
(* were when the context was read.                                         *)
(*                                                                         *)
(* Every request to the Prism API may be refused, and may be carried out   *)
(* while its answer is lost.  How the handler reacts to the tools is that  *)
(* of PlanExecution with a plan read from the Prism API: a refused input   *)
(* is tried again, an exception fails the action, and an action that was   *)
(* interrupted before its end was reported is performed once more.         *)
(***************************************************************************)
EXTENDS PlanQuality

CONSTANTS Items,              \* existing work items
          Drafts,             \* the plans a generation may produce
          PlanAttempts,       \* PLAN_GENERATION_ATTEMPTS
          TimeBudget,         \* PLANNING_TIME_BUDGET_SECONDS
          CriticSkip,         \* CRITIC_SKIP_GENERATION_SECONDS
          MaxGeneration,      \* how long one generation may take
          ActionAttempts,     \* ACTION_EXECUTION_ATTEMPTS
          MaxParallel,        \* MAX_PARALLEL_CREATES
          MaxEdits,           \* bound on what other people do
          MaxInterruptions    \* bound on the invocations that end half-way

ASSUME BreakdownAssumption ==
    /\ PlanAttempts \in Nat \ {0} /\ ActionAttempts \in Nat \ {0} /\ MaxParallel \in Nat \ {0}
    /\ TimeBudget \in Nat /\ CriticSkip \in Nat /\ MaxGeneration \in Nat \ {0}
    /\ MaxEdits \in Nat /\ MaxInterruptions \in Nat

\* A generated plan is a list of actions, and what it holds of trees are trees.
ASSUME DraftsAssumption ==
    \A draft \in Drafts :
        /\ IsSequence(draft)
        /\ \A k \in DOMAIN draft :
              /\ DOMAIN draft[k] = {"tool", "input", "typed"}
              /\ draft[k].tool = Tree => IsTree(draft[k].input) /\ IsTree(draft[k].typed)

VARIABLES
    board,          \* the existing items
    context,        \* the items as they were when the context was read
    edits,          \* what other people have done so far
    attempt, elapsed, reviewed,   \* generate_plan: attempt, time spent, review used
    plan,           \* the plan
    phase,          \* "planning", "acting", "creating", "updating", or how it ended
    next, tries,    \* the action to perform, and how often its input was refused
    sent,           \* requests of the current level of a tree, by node
    ids,            \* the item ids of the nodes created by this call of the tool
    backend,        \* the items created so far
    position,       \* the next update of a bulk update
    touched,        \* existing items that were updated
    sprints,        \* the sprints of the workspace, oldest first
    mapped,         \* the sprint the items were mapped into, 0 if none
    interruptions   \* invocations that ended half-way, and failures not reported

planner == <<attempt, elapsed, reviewed, plan>>
progress == <<phase, next, tries>>
tree    == <<sent, ids, backend>>
updates == <<board, position, touched>>
sprint  == <<sprints, mapped>>
vars    == <<context, edits, planner, progress, tree, updates, sprint, interruptions>>

Ended == {"completed", "failed", "raised"}

-----------------------------------------------------------------------------
(***************************************************************************)
(* RuntimePlanningAgent.generate_plan.                                     *)
(***************************************************************************)
BudgetSpent(spent) == spent > TimeBudget

\* Plausible bug: the review does not look at the time spent.
ReviewsLate(p, seconds, spent) ==
    /\ ~reviewed
    /\ attempt < PlanAttempts
    /\ seconds <= CriticSkip
    /\ PlanQualityIssues(p, context)

\* Is a revision asked for?
Reviews(p, seconds, spent) ==
    /\ ~reviewed
    /\ attempt < PlanAttempts
    /\ ~BudgetSpent(spent)
    /\ seconds <= CriticSkip
    /\ PlanQualityIssues(p, context)

\* generate_plan returns or raises; its counters are gone.
Returns(how) == phase' = how /\ attempt' = 1 /\ reviewed' = FALSE

\* One more attempt; a plan that the last attempt leaves behind is returned.
TryAgain(review) ==
    IF attempt < PlanAttempts
    THEN attempt' = attempt + 1 /\ reviewed' = review /\ UNCHANGED phase
    ELSE Returns("acting")

Generate(draft, seconds) ==
    LET p == Materialize(draft)
        spent == elapsed + seconds
    IN  /\ phase = "planning"
        /\ elapsed' = spent
        /\ plan' = p
        /\ IF PlanDefect(p) /\ ~BudgetSpent(spent) THEN TryAgain(reviewed)
           ELSE IF ~PlanDefect(p) /\ Reviews(p, seconds, spent) THEN TryAgain(TRUE)
           ELSE Returns("acting")
        /\ UNCHANGED <<context, edits, next, tries, tree, updates, sprint, interruptions>>

GenerationRaises(seconds) ==
    /\ phase = "planning"
    /\ elapsed' = elapsed + seconds
    /\ IF attempt = PlanAttempts \/ BudgetSpent(elapsed') THEN Returns("raised") ELSE TryAgain(reviewed)
    /\ UNCHANGED <<context, edits, plan, next, tries, tree, updates, sprint, interruptions>>

-----------------------------------------------------------------------------
(***************************************************************************)
(* How ActionEventHandler.handle goes on.                                  *)
(***************************************************************************)
Performing(tool) == phase = "acting" /\ next <= Len(plan) /\ plan[next].tool = tool

Input == plan[next].input

\* The tool returned success.
Completed ==
    /\ phase' = IF next < Len(plan) THEN "acting" ELSE "completed"
    /\ next' = next + 1
    /\ tries' = 0
    /\ UNCHANGED interruptions

\* The tool returned an error.
Refused ==
    /\ IF tries + 1 < ActionAttempts
       THEN tries' = tries + 1 /\ phase' = "acting"
       ELSE phase' = "failed" /\ UNCHANGED tries
    /\ UNCHANGED <<next, interruptions>>

\* Plausible bug: an exception of the tool is handled like an error it returns.
RaisedIsRefused == Refused

\* The tool raised.  The failure may not reach the Prism API: the message is
\* delivered again, and the action is read as pending.
Raised ==
    /\ UNCHANGED <<next, tries>>
    /\ \/ phase' = "failed" /\ UNCHANGED interruptions
       \/ /\ interruptions < MaxInterruptions
          /\ interruptions' = interruptions + 1
          /\ phase' = "acting"

\* The invocation ends while the tool is at work.
Interrupted ==
    /\ phase \in {"creating", "updating"}
    /\ interruptions < MaxInterruptions
    /\ interruptions' = interruptions + 1
    /\ phase' = "acting"
    /\ sent' = <<>> /\ ids' = <<>> /\ position' = 1
    /\ UNCHANGED <<context, edits, planner, next, tries, backend, board, touched, sprint>>

\* A plan without actions fails its run.
NothingPlanned ==
    /\ phase = "acting" /\ plan = <<>>
    /\ phase' = "failed"
    /\ UNCHANGED <<context, edits, planner, next, tries, tree, updates, sprint, interruptions>>

-----------------------------------------------------------------------------
(***************************************************************************)
(* CreateWorkItemTreeTool.execute: level by level, the nodes of a level at *)
(* the same time.                                                          *)
(***************************************************************************)
BeginTree ==
    /\ Performing(Tree)
    /\ IF ValidTree(Input)
       THEN /\ phase' = "creating"
            /\ sent' = [n \in Children(Input, 0) |-> "queued"]
            /\ ids' = [n \in Nodes(Input) |-> 0]
            /\ UNCHANGED <<next, tries, interruptions>>
       ELSE Refused /\ UNCHANGED <<sent, ids>>
    /\ UNCHANGED <<context, edits, planner, backend, updates, sprint>>

InState(s) == {n \in DOMAIN sent : sent[n] = s}

\* The pool takes the requests of a level in their order.
SendCreate(n) ==
    /\ phase = "creating"
    /\ n \in InState("queued") /\ \A m \in InState("queued") : n <= m
    /\ Cardinality(InState("sent")) < MaxParallel
    /\ sent' = [sent EXCEPT ![n] = "sent"]
    /\ UNCHANGED <<context, edits, planner, progress, ids, backend, updates, sprint, interruptions>>

NewItem(n) ==
    [action |-> next, node |-> n, assignees |-> NodeAssignees(Input, n),
     parent |-> IF Input[n].parent = 0 THEN 0 ELSE ids[Input[n].parent]]

\* The request was carried out and answered; it was carried out and the answer
\* is lost; it failed.
CreateAnswered(n, outcome) ==
    /\ phase = "creating" /\ n \in InState("sent")
    /\ sent' = [sent EXCEPT ![n] = IF outcome = "done" THEN "created" ELSE "failed"]
    /\ backend' = IF outcome = "failed" THEN backend ELSE Append(backend, NewItem(n))
    /\ ids' = IF outcome = "done" THEN [ids EXCEPT ![n] = Len(backend')] ELSE ids
    /\ UNCHANGED <<context, edits, planner, progress, updates, sprint, interruptions>>

\* The answers are looked at in their order.  The first failure raises, and the
\* requests that were not sent by then are cancelled.
FailureSeen == \E n \in InState("failed") : \A m \in DOMAIN sent : m < n => sent[m] = "created"

NextLevel == {n \in Nodes(Input) : Input[n].parent \in DOMAIN sent}

LevelEnds ==
    /\ phase = "creating"
    /\ InState("sent") = {}
    /\ InState("queued") = {} \/ FailureSeen
    /\ IF InState("failed") # {} THEN Raised /\ sent' = <<>> /\ ids' = <<>>
       ELSE IF NextLevel # {}
       THEN sent' = [n \in NextLevel |-> "queued"] /\ UNCHANGED <<progress, interruptions, ids>>
       ELSE Completed /\ sent' = <<>> /\ ids' = <<>>
    /\ UNCHANGED <<context, edits, planner, backend, updates, sprint>>

-----------------------------------------------------------------------------
(***************************************************************************)
(* UpdateWorkItemsBulkTool.execute: one update after the other, each       *)
(* checked against the context.                                            *)
(***************************************************************************)
BeginUpdates ==
    /\ Performing(Bulk)
    /\ IF ValidUpdates(Input)
       THEN phase' = "updating" /\ position' = 1 /\ UNCHANGED <<next, tries, interruptions>>
       ELSE Refused /\ UNCHANGED position
    /\ UNCHANGED <<context, edits, planner, tree, board, touched, sprint>>

Update == Input[position]

Advance ==
    /\ position' = position + 1
    /\ IF position < Len(Input) THEN UNCHANGED <<progress, interruptions>> ELSE Completed

SkipUpdate ==
    /\ phase = "updating"
    /\ ~Sendable(Update, context)
    /\ Advance
    /\ UNCHANGED <<context, edits, planner, tree, board, touched, sprint>>

SendUpdate(outcome) ==
    /\ phase = "updating"
    /\ Sendable(Update, context)
    /\ IF outcome = "failed" THEN UNCHANGED <<board, touched>>
       ELSE /\ board' = [board EXCEPT ![Update.item] =
                            ApplyUpdate(Update, UpdatePayload(Update, context[Update.item]), @)]
            /\ touched' = touched \cup {Update.item}
    /\ IF outcome = "done" THEN Advance ELSE Raised /\ UNCHANGED position
    /\ UNCHANGED <<context, edits, planner, tree, sprint>>

-----------------------------------------------------------------------------
(***************************************************************************)
(* CreateSprintTool.execute and AddSprintWorkItemsTool.execute.            *)
(***************************************************************************)
CreateSprint(outcome) ==
    /\ Performing(Sprint)
    /\ sprints' = IF outcome = "failed" THEN sprints
                  ELSE Append(sprints, [by |-> "run", status |-> "planned"])
    /\ IF outcome = "done" THEN Completed ELSE Raised
    /\ UNCHANGED <<context, edits, planner, tree, updates, mapped>>

PlannedSprints == {s \in DOMAIN sprints : sprints[s].status = "planned"}

\* Plausible bug: the sprints are sorted the other way round.
LatestPlannedSprintIdOldest ==
    IF PlannedSprints = {} THEN 0 ELSE CHOOSE s \in PlannedSprints : \A t \in PlannedSprints : s <= t

\* _latest_planned_sprint_id
LatestPlannedSprintId ==
    IF PlannedSprints = {} THEN 0 ELSE CHOOSE s \in PlannedSprints : \A t \in PlannedSprints : t <= s

\* _valid_item_ids
ValidItemIds(input) == {input[u] : u \in DOMAIN input} \ {"invalid"}

\* The plan does not name the sprint, which is created by an earlier action.  It
\* is found by a request of its own, whose failure counts as none.
AddSprintWorkItems(sprintId, outcome) ==
    /\ Performing(Mapping)
    /\ sprintId \in {0, LatestPlannedSprintId}
    /\ IF ValidItemIds(Input) = {} \/ sprintId = 0 THEN outcome = "failed" /\ Refused /\ UNCHANGED mapped
       ELSE /\ mapped' = IF outcome = "failed" THEN mapped ELSE sprintId
            /\ IF outcome = "done" THEN Completed ELSE Raised
    /\ UNCHANGED <<context, edits, planner, tree, updates, sprints>>

-----------------------------------------------------------------------------
(***************************************************************************)
(* Other people, and other runs.                                           *)
(***************************************************************************)
PersonEdits(item, change) ==
    /\ edits < MaxEdits
    /\ edits' = edits + 1
    /\ board' = [board EXCEPT ![item] = change]
    /\ board' # board
    /\ UNCHANGED <<context, planner, progress, tree, position, touched, sprint, interruptions>>

\* A person starts an item, writes its description, or takes it.
PersonChanges(item) ==
    {[item EXCEPT !.status = "in_progress"], [item EXCEPT !.description = "person"],
     [item EXCEPT !.owners = @ \cup {"carol"}]}

OthersSprint(s) ==
    /\ edits < MaxEdits
    /\ edits' = edits + 1
    /\ \/ sprints' = Append(sprints, [by |-> "other", status |-> "planned"])
       \/ sprints[s].status = "planned" /\ sprints' = [sprints EXCEPT ![s].status = "active"]
    /\ UNCHANGED <<context, planner, progress, tree, updates, mapped, interruptions>>

Item == [status : {"todo", "in_progress"}, description : {"thin", "person"}, owners : {{}, {"ann"}}]

Init ==
    /\ board \in [Items -> Item]
    /\ context = board
    /\ edits = 0
    /\ attempt = 1 /\ elapsed = 0 /\ reviewed = FALSE /\ plan = <<>>
    /\ phase = "planning" /\ next = 1 /\ tries = 0
    /\ sent = <<>> /\ ids = <<>> /\ backend = <<>>
    /\ position = 1 /\ touched = {}
    /\ sprints = <<[by |-> "other", status |-> "planned"]>> /\ mapped = 0
    /\ interruptions = 0

Outcome == {"done", "lost", "failed"}

PlannerStep ==
    \/ \E draft \in Drafts, seconds \in 1 .. MaxGeneration : Generate(draft, seconds)
    \/ \E seconds \in 1 .. MaxGeneration : GenerationRaises(seconds)
    \/ NothingPlanned

ToolStep ==
    \/ BeginTree
    \/ \E n \in DOMAIN sent : SendCreate(n)
    \/ \E n \in DOMAIN sent, outcome \in Outcome : CreateAnswered(n, outcome)
    \/ LevelEnds
    \/ BeginUpdates
    \/ SkipUpdate
    \/ \E outcome \in Outcome : SendUpdate(outcome)
    \/ \E outcome \in Outcome : CreateSprint(outcome)
    \/ \E sprintId \in 0 .. Len(sprints), outcome \in Outcome : AddSprintWorkItems(sprintId, outcome)

PeopleStep ==
    \/ \E item \in Items : \E change \in PersonChanges(board[item]) : PersonEdits(item, change)
    \/ \E s \in DOMAIN sprints : OthersSprint(s)

Next == PlannerStep \/ ToolStep \/ Interrupted \/ PeopleStep

Spec == Init /\ [][Next]_vars

-----------------------------------------------------------------------------
Copies(k, n) == {b \in DOMAIN backend : backend[b].action = k /\ backend[b].node = n}

(***************************************************************************)
(* Refused inputs, exceptions, lost answers and redeliveries do not        *)
(* multiply what is created: a node of a tree and a planned sprint is      *)
(* created once, and once more at most for every invocation that ended     *)
(* half-way or whose failure could not be reported.  And a plan is         *)
(* completed only when all nodes of its trees exist.                       *)
(* Code: CreateWorkItemTreeTool.execute validates before it creates,       *)
(* ActionEventHandler.handle retries an error and not an exception.        *)
(***************************************************************************)
CreatedOnce ==
    /\ \A k \in DOMAIN plan : plan[k].tool = Tree =>
          \A n \in Nodes(plan[k].input) :
             /\ Cardinality(Copies(k, n)) <= 1 + interruptions
             /\ phase = "completed" => Copies(k, n) # {}
    /\ Cardinality({s \in DOMAIN sprints : sprints[s].by = "run"}) <=
          Cardinality({k \in DOMAIN plan : plan[k].tool = Sprint}) + interruptions

(***************************************************************************)
(* At every moment, and in the debris of a call that failed as well, an    *)
(* item below another one hangs under an item created for its parent node, *)
(* and that one lists everyone who works under it.                         *)
(* Code: the levels of CreateWorkItemTreeTool.execute, "Propagate every    *)
(* descendant's assignees onto its ancestors" (_rollup_assignee_usernames) *)
(* and the second cleaning in _normalize_node_payload.                     *)
(***************************************************************************)
ParentListsEveryone ==
    \A b \in DOMAIN backend :
        LET item == backend[b]
            parentNode == plan[item.action].input[item.node].parent
        IN  parentNode # 0 =>
                /\ item.parent \in 1 .. b - 1
                /\ backend[item.parent].node = parentNode
                /\ item.assignees \subseteq backend[item.parent].assignees

(***************************************************************************)
(* What a person had put into an item before the context was read stands,  *)
(* whatever the updates say and however often they are sent: an item that  *)
(* was started is not touched, a description and the owners are kept, the  *)
(* status is never set.                                                    *)
(* Code: the policy of UpdateWorkItemsBulkTool and _drop_protected_fields. *)
(***************************************************************************)
HumanWorkKept ==
    \A i \in Items :
        /\ i \in touched => context[i].status = "todo"
        /\ context[i].description = "person" => board[i].description = "person"
        /\ context[i].owners # {} => context[i].owners \subseteq board[i].owners
        /\ board[i].status # "archived"

(***************************************************************************)
(* No generation begins once the budget is spent: planning ends within the *)
(* budget and the time of one generation.                                  *)
(* Code: "three sequential attempts can blow through the 300s function     *)
(* timeout" (PLANNING_TIME_BUDGET_SECONDS) and the three places of         *)
(* generate_plan that look at the budget.                                  *)
(***************************************************************************)
PlanningBounded == elapsed <= TimeBudget + MaxGeneration

(***************************************************************************)
(* The items are mapped into the sprint the plan created, or into one that *)
(* someone else created after it: never into an older one while the own    *)
(* sprint is still planned.                                                *)
(* Code: AddSprintWorkItemsTool.execute, "resolve to the newest planned    *)
(* sprint".                                                                *)
(***************************************************************************)
OwnSprint ==
    mapped # 0 => \A s \in PlannedSprints : sprints[s].by = "run" => s <= mapped
=============================================================================
