# Verification of the Prism agent runtime

TLA+ models of the event-driven agent runtime in `src/`, TLC configurations that
check them on small instances, and TLAPS proofs about orchestration, plan
execution and the recursion guard.
`PROJECT.json` lists components, runs, mutants, findings, hazards, theorems, and
the source lines behind every definition.

## The system

The runtime is an OCI function. The queue hands it one message per invocation; a
message is deleted when the invocation returns and delivered again when it does
not. Nothing is kept between invocations except what is in the state store
(Object Storage), in the Prism API (status of the agent run) and in the queue.

| Component | State | Operations | Talks to |
|---|---|---|---|
| `TaskGraph` (`domain/subtasks.py`) | node statuses, `depends_on`, synthesizer | `ready_nodes`, `claim_ready`, `plan_advance` | pure |
| `DomainEventHandler` | – | start an orchestrated run; start, resume, replan a whole-workflow plan | store, run status, queue |
| `SubAgentCoordinator` | – | `_handle_task`: plan or resume a node; `_handle_completed`: join, dispatch, finish the run | store, run status, queue |
| `AgentPlan` (`domain/plans.py`) | action statuses | `replace_action`, `next_pending_action` | pure |
| `ActionEventHandler` | inline budget of the invocation | validate, execute, retry, continue, settle | tools, store, run status, queue |
| `AgentRunSync` | – | writes steps, actions and the status of the run | Prism API |
| State store | graph, plans, results, snapshots, idempotency keys | read latest, unconditional write | Object Storage |
| `RecursionRunner` | events seen, events handled | run the queue dry in a local process; cut an event that is too deep and fail its run | queue, handlers, run status |
| `FeatureProvisioningWorker` | pointer key (in the store) | turn a pointer into a request, once | payload store, `DomainEventHandler` |
| Planner (`RuntimePlanningAgent`, `plan_quality.py`) | attempt, clock, review used | generate, check, review, try again | language model |
| Work-item and sprint tools | – | create a tree level by level, bulk update, create a sprint, map items into it | Prism API, context snapshot |

Hard behaviours: invocations run in parallel and read-modify-write the graph and
the plan without a conditional write; every message may come again, late or out
of order; an invocation can end between any two of its writes; work is handed on
by messages enqueued after the state that makes them look already sent; statuses
are translated on their way to the Prism API and back; tools work on a snapshot
while people edit the same items, and half of what they create may fail. What
makes the system correct: a node starts after its dependencies, each node is
dispatched once, the synthesizer sees every result, the verdict on a run is
earned and final, no successful tool call is repeated, every run comes to an
end, created items hang together and are not multiplied, and what people did is
kept. `hazards` in `PROJECT.json` lists the places, with the property for each.

## Modules

* **TaskGraph** – the operations of `domain/subtasks.py` as pure operators over a
  function from nodes to statuses. `d` is the `depends_on` function. The optional
  synthesizer is the set `Synthesizers` with at most one element; its own
  `depends_on` is not a parameter because the code never reads it.
* **Orchestration** – an orchestrated run with each handler as one atomic step.
  `pending` are the messages in the queue, `delivered` those handed over before:
  a handler may take a message of either, so redelivery and reordering are
  unlimited. `subPlan` is the state of the plan of each node, with the action
  chain reduced to one step (`SubPlanSettles`); `synthInput` is what the
  synthesizer was planned with.
* **OrchestrationSteps** – the same handlers taken apart. An invocation reads the
  store when it begins and then performs its durable effects (`todo`) one at a
  time, in the order of the code; `Crash` ends it after any of them. `Workers`
  is the number of parallel invocations.
* **OrchestrationRefinement** – OrchestrationSteps implements Orchestration up to
  the first crash. The atomic step is taken when an invocation begins: each
  abstract variable is what the concrete one becomes when the effects left in a
  running invocation are performed (`SavedAfter`, `GraphAfter`, `RunAfter`, ...).
* **AgentPlan** – `domain/plans.py` over the chain of actions that
  `Planner._normalize_plan_for_runtime` produces.
* **PlanExecution** – one plan from planning to its end, for a whole run
  (`isSubplan = FALSE`) and for a node. Same scheme as OrchestrationSteps;
  an invocation also carries the plan it works with, because the handler saves
  that copy after the tool call. `gen` tells the plans of a replanned run apart:
  action ids and idempotency keys of different plans differ. The task-graph
  check that precedes the resumption of a node is left out, which only adds
  resumptions. Three switches choose the surroundings:
  `Entries` (a run requested by an event or by a provisioning pointer, whose key
  is recorded last), `Hydrates` (the Prism transport: `api` holds the action
  statuses, `ActionStatusToApi` and `ActionStatusFromRecord` are the two tables
  a status passes, users decide on proposed actions, and the status of the run
  overrides that of the plan), and `WarmStore` (does the process that planned a
  node perform it; a cold one does not find the context snapshot of a sub-plan).
* **RecursionRunner** – the events of one run, the depth each one has, and the
  guard, in a local process (`mode = "process"`: first in, first out, seen event
  ids, a counter of handled events, the seed possibly run twice) and in the
  function. Handlers are choices of the events they enqueue, with the depth the
  code gives them: one more per hop and per inline action, and the depth of the
  run's trigger for suggestions. `lost` are the events that were dropped without
  a verdict because they do not name the run or their planning raised.
* **WorkItems** – the pure part of the work-item tools: resolving and rolling up
  assignees, validating trees and updates, protected fields, typed inputs and
  the planner's defect check. A tree is the sequence of its nodes.
* **PlanQuality** – the review checks of `plan_quality.py`.
* **Breakdown** – the planner's loop, then the plan's tool calls: a tree level by
  level with a pool of parallel requests, bulk updates one by one against
  `context`, sprints; other people change `board` and `sprints` at any time. A
  request is done, done with its answer lost, or failed; an interrupted
  invocation, or a failure that could not be reported, performs the action once
  more, which is what a hydrated plan allows (see PlanExecution).
* **OrchestrationProofs**, **OrchestrationStepsProofs**,
  **OrchestrationRefinementProofs**, **PlanExecutionProofs**,
  **PlanRecoveryProofs**, **PlanHydrationProofs**, **RecursionRunnerProofs**,
  **BreakdownProofs** – the proofs, each about the module it is named after (the Plan ones about
  PlanExecution).
* **MCOrchestration**, **MCOrchestrationSteps**, **MCPlanExecution**,
  **MCBreakdown** – instances.

Data left out: instructions, prompts, wording, dates, labels, tool outputs and
traces. Titles, descriptions and names are kept as far as the review and the
update policy tell them apart (thin or not, known member or not). The Prism API
is external: creating or re-starting a run answers with the status of the run,
which `AgentRunSync` treats as final when it is terminal.

## Runs

| Run | Instance | Shows |
|---|---|---|
| `orchestration` | 3 nodes and a synthesizer; six workflow shapes, cyclic and unstartable ones included | dependencies, join, verdict, no stranded node, single dispatch, and progress, with atomic handlers |
| `steps_crash` | 2 nodes, one invocation at a time, two crashes | step-by-step handlers implement the atomic ones until a crash, and what survives a crash between any two effects |
| `steps_parallel` | 3 nodes, two invocations at a time, of different messages (159,841 states) | what survives the race on the graph: single dispatch, nothing planned or completed early |
| `plan_crash` | 2 actions, 2 attempts, inline budget 1, 2 plans, one crash, redelivery, event or pointer | no repeated success, a known pointer was served, earned, consistent and final outcome |
| `plan_progress` | the same, each message redelivered only after a crash | every plan is decided; a plan cut off between actions resumes |
| `plan_parallel` | two invocations at a time, redelivery | order and verdict survive duplicate deliveries |
| `hydration` | 3 actions, one crash, statuses read back from the Prism API, users deciding | order, no invented success, a success repeated only after a crash |
| `recursion` | depth limit 3, inline budget 1, 2 nodes, the seed run twice, both modes (123,015 states) | every recursion ends, never without a verdict or a named cause; a completed run stands |
| `breakdown` | ten drafts, 2 items, trees of 4 nodes and 3 levels, one edit by others, one interruption (1,207,420 states) | items created once, trees connected with their assignees, people's work kept, planning time bounded, the right sprint |
| `steps_lost_dispatch` | violation | a saved graph is not followed up when the invocation ends after saving it: the start of a run, and in the same way the dispatches and the result of a join, are lost |
| `plan_stale` | violation | a crash after saving a stale action leaves the node unsettled |
| `cold_subplan` | violation | a process that did not plan the node does not find its context snapshot |

Bounds. Three nodes give independent, chained and joined branches at once; two
suffice for two completions to meet at the synthesizer. One crash reaches every
gap between two effects and two reach a crash during recovery; two invocations are
the smallest race. Two invocations of the same message are left to the theorem
about `ReportsComeFirst`: with two nodes and every redelivery the instance is out
of reach. Without a crash what `GraphIsFollowedUp` asks holds in every state in
which the queue is empty and all invocations have ended. With two attempts there
is a first and a last one, with an inline budget of one a continued and a queued
action. `MaxPlans = 2` allows one replan; at the bound a root plan is not found
stale any more. `MaxAttempts` and `InlineBudget` stand for the code's 3 and 8. The
third action of `hydration` lets an action have a skipped predecessor and a
successor. A depth limit of 3 is reached by every kind of chain: replans, retries,
a node that starts a node; `MaxEvents = 14` is more than any of them uses. In
`breakdown` the budget of 2 and generations of 1 or 2 reach its end on the second
or third attempt, the drafts hold one input per reason to refuse, repair or review
it, and two parallel requests are fewer than a level may have. Deadlock checking
is off where the system may stop: with no redelivery a finished run has nothing
left to do, and an action event of a replaced plan raises for ever.

Fairness. A running invocation goes on (weakly fair: the process keeps
running unless it crashes) and the queue delivers what is pending. In
OrchestrationSteps that is strong fairness per message, because with one worker
a message is not continuously deliverable while another is handled; in
PlanExecution weak fairness of delivering some pending message is enough. In
Orchestration an open sub-plan is assumed to end; `DecidedWithoutCrash` of
PlanExecution is the reason. A planner that raises for a node for ever is not a
step, so fairness assumes that planning eventually returns. Redelivery of a
message that was deleted is never owed. In RecursionRunner the local loop goes on
and the function is invoked for what is queued.

## Proofs

`OrchestrationProofs` proves, for every finite or infinite set of nodes, at most
one synthesizer and every `depends_on`, the safety properties of the
`orchestration` run: `TypeOK`, `DependencyOrder`, `SynthesizerSeesEveryResult`,
`RunVerdictSound`, `RunNeverStranded`, `RunVerdictStable`, `DispatchedOnce`.
The assumptions are the named ones of TaskGraph and Orchestration (the
synthesizer is not a worker node, workflows are `depends_on` functions).

Hardly any of the properties is inductive on its own: a late completion may only
be ignored if the node really had that status, and that follows from how
messages, sub-plans and the graph belong together. The inductive invariant
`IInv` joins the properties with: an untouched graph and no verdict before the
run is orchestrated (`NotStarted`); no task and no sub-plan for a node that is
not claimed (`PendingNodeIdle`); every settlement ever enqueued agrees with the
sub-plan (`SettlementAgrees`), and the status of a node with its sub-plan
(`NodeAgrees`); exactly the completed nodes have results (`ResultsMatch`); the
synthesizer is claimed only when all nodes are completed
(`SynthesizerAfterJoin`). `PlanAdvanceOutcome` says what `plan_advance` may
return under `IInv`; each action has a lemma of its own, with one step per
conjunct.

The other proof modules ask what is left of this when handlers are not atomic.
All of them hold for any set of nodes or number of actions, any number of crashes
and any order of delivery; what they need of the surroundings is a hypothesis of
the theorem, and it is the one without which TLC finds a counterexample:

* `Serial` – the invocations of one run do not overlap. Nothing in the code
  enforces it: the store overwrites, and the queue only hides a message while it
  is handled. With two workers two deliveries dispatch the synthesizer twice and
  a success can be repeated, which is why the parallel runs check less.
* `Exclusive` – invocations may overlap, but no message is in two hands at once
  (no redelivery, or `Serial`).
* `~Hydrates` – plans are those of the runtime, not read back from the Prism API.

**OrchestrationStepsProofs.** `TypeOK` without hypotheses.
`PlannedAfterDependencies` and `CompletedIsEarned` under `Exclusive`: they speak
of sub-plans, which only grow, so a lost update of the graph does no harm. The
invariant `TruthInv` says that everything that claims a node is done, be it the
graph, a message or an effect not performed yet, is true of its sub-plan.
`DependencyOrder`, `VerdictBacked` and `SingleDispatch` under `Serial`: they speak
of the saved graph, and need `SerialInv`, in which the effects an invocation has
left fit the saved state one after the other (`TodoFits`), so that a crash may
cut them anywhere. `SingleDispatch` for parallel invocations without redelivery
is only model-checked. `ReportsComeFirst` needs no hypothesis:
with two invocations on the same message sub-plans and graphs can go backwards, and what is left is that a report, once enqueued, is never taken back.
`ReportInv` says that every graph, sub-plan, message and remaining effect that
starts a node, or says it is done, rests on such reports.

**OrchestrationRefinementProofs.** `ImplementsUntilCrash` under `Serial`: the
initial states map, beginning an invocation maps to the atomic action of its
handler, and performing an effect to a stutter. With it the properties proved of
Orchestration hold of the detailed handlers until an invocation ends half-way.

**PlanExecutionProofs.** `TypeOK`, `ExecutesInOrder` and `ExecutedIsTrue` with no
hypothesis at all, `RunCompletionEarned` with `~Hydrates`; any number of parallel
invocations. `TruthInv`: a status `succeeded` in any copy of a plan – saved, in an
invocation, in an effect, in the Prism API – stands for a tool call that
succeeded, and whatever starts an action stands behind successes of those before
it. Copies may be stale but never claim too much.

**PlanRecoveryProofs.** `NeverRepeatsSuccess`, `SettlementEarned`,
`SettlesConsistently`, `PointerServed` and the action property `VerdictStable`
under `Serial` and `~Hydrates`. `RecoveryInv` adds to `TruthInv` that the saved
plan decides the verdict and the outcome of the node (`RunFits`, `PlanFits`), that
every message fits it (`QueueFits`), and that an invocation's copy is the saved
plan and its remaining effects fit it (`InvocationFits`): an action is saved as
running before its tool is called, so after a crash it is not pending.
`SettlesConsistently` is what Orchestration assumes of a sub-plan.

**PlanHydrationProofs.** `RepeatsOnlyAfterCrash` under `Serial`, with plans read
back from the Prism API too. `HydrationInv`: until a crash, every success is shown
as executed by the Prism API or is about to be reported by the invocation at work.

**RecursionRunnerProofs.** `TypeOK` (which bounds the depth of every event),
`NeverEndsSilently` and the action property `CompletedStands`, for every limit,
budget, number of nodes and of calls of `run()`. The invariant counts: every node
dispatched and not settled has exactly one event on the queue unless that event
was lost or the node waits for an approval (`Counted`); a run planned as a whole
has exactly one (`OneWay`, `Decided`); event ids are new and only the seed is ever
a duplicate (`EventsFit`); the seed is the first event of its call as long as
nothing was lost (`SeedFirst`, `SeedAlone`), so it is never cut after a completed
run.

**BreakdownProofs.** All five properties of Breakdown, for every set of items,
members and drafts, every limit of the tools and every number of edits and
interruptions. The assumption on drafts is `DraftsAssumption`: a plan is a list of
actions, and in a tree a parent comes before its children, which is what the walk
over nested `children` lists yields. `PlanningBounded` needs that the budget was not
spent when a generation began (`BudgetKept`); `HumanWorkKept` that nothing of the
payload of an update is protected (`PayloadProtects`). `CreatedOnce` and
`ParentListsEveryone` need the waves in which a tree is created (`WavesFit`): the
parents of what exists are not in the current wave, so the next wave holds only
nodes that have not been requested; what was not reached hangs below the wave or
below something not reached, so when there is no next wave a least unreached node
would contradict the order of the tree, and everything exists. `CopiesCounted`
allows one copy per interrupted call, and one more only once this call has the
node behind it. `RollupGoesUp` is the lemma behind the assignees: whoever works
under a node works under its parent. `OwnSprint` holds when no plan creates a
sprint after a mapping (`MapsLast`), which the skills ask of the planner
("Use after create_sprint", `prompts/tools/add_sprint_work_items.v1.yaml:8`) and
nothing in the code enforces; without it a sprint created later is newer than the
one mapped into. The ancestors of a node are defined as a least closed set, not by
recursion, so that the lemma can be proved.

TLC has checked each of these invariants on the instances of the runs
(`IInv` of RecursionRunner on 123,015 states, `RecoveryInv` on 1,043,506,
`HydrationInv` on 580,611, `IInv` and `MappedFits` of Breakdown on 1,207,420), and
`ReportInv` on that of `steps_crash` (277,509 states) and with two invocations of
the same message, for a node and a synthesizer (188,450 states). The proofs of
PlanExecution found two tables whose CASE guards overlapped, which TLA+ leaves
open and TLC decides by order; they are disjoint now.

Only model-checked: liveness (`RunSettles`, `DecidedWithoutCrash`,
`ResumesBetweenActions`, `Drains`), which the prover does not
handle.

## Findings

`findings` in `PROJECT.json` quotes the lines. Shown by a violation run: the saved
graph that is not followed up (the counterexample is the start of a run; the
dispatches and the result of a join are lost the same way), the stale action that
is not settled, the snapshot a cold process does not find. Met while modelling:
two parallel deliveries of a completion both dispatch the synthesizer; a retried
pointer does not plan again after a planning failure; a stale action is read back
as skipped, so a hydrated plan is not replanned; the review can lose an executable
plan; bulk updates go by the snapshot; a newer sprint of someone else receives the
items. Where such a behaviour limits what can hold, the property says so:
`SingleDispatch` is checked without parallel duplicates (`ReportsComeFirst` says
what holds with them), `HumanWorkKept` speaks of what was there when the context
was read, `OwnSprint` of sprints older than the own one.

## Not modelled

See `components`. Pure I/O (HTTP, context fetching, payload decoding,
notifications, CLI), configuration, and what a language model writes, which is a
choice among drafts. Tools of a single request have no state to relate. A read of
the state store that fails and counts as empty, and the dead-letter limit of the
queue, are outside the models; both are noted with their hazards.

Simplifications of single definitions, none of which a property depends on:

* PlanExecution: the actions of a new plan reach the Prism API in one effect
  (`UpsertActions`), and a crash between two of them is a crash before all of
  them. Two plans made in parallel from one trigger have different action ids and
  keys, which only adds executions. A failed `record_action_state` that is
  swallowed counts as a crash (`ToolRaised`); for a whole plan the handler raises
  again anyway. A run is cancelled before it starts or not at all: what the Prism
  API does with a status report for a run that a user cancelled is not in the
  repository.
* RecursionRunner: an action may leave a suggestion event, although the one tool
  for it emits none.
* Breakdown: items are mapped into a sprint without a `sprintId` in the input
  (with one there is nothing to look up), creation times of sprints differ, and a
  creation that was answered carries the id of the item (the code falls back to
  `local-<action_id>` as parent when it does not).

## Plan

1. Task graph and orchestration, atomic and step by step; plan execution – done.
2. Hydration, the partition of the store, the pointer, the recursion guard, the
   planner's loop, the work-item and sprint tools – done.
3. Proofs about OrchestrationSteps and the refinement, PlanExecution,
   RecursionRunner and Breakdown – done.
4. Left: `SingleDispatch` for parallel invocations without redelivery, and what
   the parallel runs check beyond the theorems, as theorems with the hypotheses
   of those runs.
