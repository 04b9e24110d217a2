--------------------------- MODULE RecursionRunner ---------------------------
(***************************************************************************)
(* The events of one run on their way through the queue, and the guard     *)
(* that ends a recursion: RecursionRunner.run in a local process, _process *)
(* of the function entry point with one message per invocation.            *)
(*                                                                         *)
(* What a handler decides is left open; what matters here is which events  *)
(* it puts on the queue, how deep they are, and whether it gives the run   *)
(* its verdict (Orchestration and PlanExecution say when it does).  Every  *)
(* hop adds one to the depth, and so does every action that is continued   *)
(* inside the same invocation.                                             *)
(***************************************************************************)
EXTENDS Naturals, Sequences

CONSTANTS MaxDepth,      \* max_recursion_depth
          InlineBudget,  \* INLINE_ACTION_CHAIN_BUDGET
          NumNodes,      \* nodes of an orchestrated run
          MaxRuns,       \* bound on the calls of RecursionRunner.run
          MaxEvents      \* bound on the events; a recursion that ends stays below it

ASSUME RecursionAssumption ==
    /\ MaxDepth \in Nat \ {0}
    /\ InlineBudget \in Nat
    /\ NumNodes \in Nat \ {0}
    /\ MaxRuns \in Nat \ {0}
    /\ MaxEvents \in Nat \ {0}

VARIABLES
    mode,        \* "process" or "function"
    correlation, \* what the correlation id of the events is: "run", "other", "none"
    apiRejects,  \* does the Prism API refuse to fail a run it does not know?
    queue,       \* messages on the queue
    nextId,      \* the next event id
    looping,     \* is RecursionRunner.run running?
    runs,        \* calls of RecursionRunner.run so far
    processed,   \* its counter
    seen,        \* _seen_event_ids
    inline,      \* ActionEventHandler._inline_actions_used of the process
    source,      \* depth of the event the run was planned for
    waiting,     \* nodes not dispatched yet
    open,        \* nodes dispatched and not settled
    paused,      \* has a node come to wait for an approval?
    run,         \* status of the run
    lost         \* events that were dropped without a verdict on the run

input == <<mode, correlation, apiRejects>>
loop  == <<looping, runs, processed, seen, inline>>
graph == <<source, waiting, open, paused>>
vars  == <<input, queue, nextId, loop, graph, run, lost>>

-----------------------------------------------------------------------------
Kind  == {"domain", "replan", "suggestion", "action", "node_action", "task", "completed"}
Event == [id : 1 .. MaxEvents, kind : Kind, depth : Nat]

Ended == {"completed", "failed", "waiting"}

Seed == [id |-> 1, kind |-> "domain", depth |-> 0]

Without(i) == SubSeq(queue, 1, i - 1) \o SubSeq(queue, i + 1, Len(queue))

\* The local queue is first in, first out; the function is handed any message.
Deliverable(i) ==
    /\ i \in 1 .. Len(queue)
    /\ mode = "process" => looping /\ i = 1

\* EventCausality.child.
Child(e) == e.depth + 1

\* Plausible bug: the events of one call of run() are not counted.
ExceedsMaxDepthUncounted(e) == e.depth > MaxDepth

\* exceeds_max_depth; the function passes no counter.
ExceedsMaxDepth(e) == processed >= MaxDepth \/ e.depth > MaxDepth

\* _event_run_id: the plan id of an action, which for a node is that of its
\* sub-plan; the run id in the payload of a request; else the correlation id.
EventRunId(e) ==
    CASE e.kind \in {"action", "domain", "replan"} -> "run"
      [] e.kind = "node_action" -> "other"
      [] e.kind \in {"task", "completed"} -> correlation
      [] OTHER -> "none"

-----------------------------------------------------------------------------
(***************************************************************************)
(* RecursionRunner.run, and the guard.                                     *)
(***************************************************************************)
\* Plausible bug: the counter goes on where the last call left it.
RunGoesOn ==
    /\ mode = "process" /\ ~looping
    /\ runs < MaxRuns
    /\ looping' = TRUE
    /\ runs' = runs + 1
    /\ queue' = Append(queue, Seed)
    /\ UNCHANGED <<input, nextId, processed, seen, inline, graph, run, lost>>

\* The seed may be run once more by the same process.
Run ==
    /\ mode = "process" /\ ~looping
    /\ runs < MaxRuns
    /\ looping' = TRUE
    /\ runs' = runs + 1
    /\ processed' = 0
    /\ queue' = Append(queue, Seed)
    /\ UNCHANGED <<input, nextId, seen, inline, graph, run, lost>>

LoopEnds ==
    /\ looping
    /\ queue = <<>>
    /\ looping' = FALSE
    /\ UNCHANGED <<input, queue, nextId, runs, processed, seen, inline, graph, run, lost>>

\* Plausible bug: the event is dropped, the run is left as it is.
CutUnreported(i) ==
    /\ Deliverable(i)
    /\ ExceedsMaxDepth(queue[i])
    /\ queue' = Without(i)
    /\ UNCHANGED <<input, nextId, loop, graph, run, lost>>

\* Plausible bug: the event fails and is put on the queue again.
CutRequeued(i) ==
    /\ Deliverable(i)
    /\ ExceedsMaxDepth(queue[i])
    /\ run' = IF EventRunId(queue[i]) = "run" THEN "failed" ELSE run
    /\ queue' = Append(Without(i), queue[i])
    /\ UNCHANGED <<input, nextId, loop, graph, lost>>

\* record_max_depth_failure fails the run the event names.  The call for a run
\* the API does not know may raise: run() ends, the function keeps its message.
Cut(i) ==
    LET e == queue[i]
        refused == EventRunId(e) = "other" /\ apiRejects
    IN  /\ Deliverable(i)
        /\ ExceedsMaxDepth(e)
        /\ run' = IF EventRunId(e) = "run" THEN "failed" ELSE run
        /\ lost' = IF EventRunId(e) = "run" \/ e.kind = "suggestion" THEN lost ELSE lost \cup {e}
        /\ looping' = (looping /\ ~refused)
        /\ queue' = IF refused /\ mode = "function" THEN queue ELSE Without(i)
        /\ UNCHANGED <<input, nextId, runs, processed, seen, inline, graph>>

Duplicate(i) ==
    /\ Deliverable(i)
    /\ ~ExceedsMaxDepth(queue[i])
    /\ queue[i].id \in seen
    /\ queue' = Without(i)
    /\ UNCHANGED <<input, nextId, loop, graph, run, lost>>

-----------------------------------------------------------------------------
(***************************************************************************)
(* The handlers.  Children is the sequence of [kind, depth] put on the     *)
(* queue, used the number of actions continued inline.                     *)
(***************************************************************************)
Stamp(children) == [k \in 1 .. Len(children) |->
    [id |-> nextId + k - 1, kind |-> children[k].kind, depth |-> children[k].depth]]

To(kind, depth) == [kind |-> kind, depth |-> depth]
Tasks(k, e)     == [n \in 1 .. k |-> To("task", Child(e))]

Handles(i, children, used) ==
    /\ Deliverable(i)
    /\ ~ExceedsMaxDepth(queue[i])
    /\ queue[i].id \notin seen
    /\ nextId + Len(children) <= MaxEvents + 1
    /\ queue' = Without(i) \o Stamp(children)
    /\ nextId' = nextId + Len(children)
    /\ processed' = IF mode = "process" THEN processed + 1 ELSE 0
    /\ seen' = IF mode = "process" THEN seen \cup {queue[i].id} ELSE {}
    /\ inline' = IF mode = "process" THEN inline + used ELSE 0
    /\ UNCHANGED <<input, looping, runs>>

\* DomainEventHandler.handle: the run is orchestrated, or planned as a whole, or
\* it is rejected or planning raises, which fails it.  A suggestion triggers
\* nothing.
HandleDomain(i) ==
    LET e == queue[i]
    IN  /\ e.kind \in {"domain", "replan"}
        /\ source' = e.depth
        /\ \/ /\ e.kind = "domain"
              /\ \E k \in 1 .. waiting :
                    /\ Handles(i, Tasks(k, e), 0)
                    /\ waiting' = waiting - k /\ open' = k
              /\ UNCHANGED run
           \/ /\ Handles(i, <<To("action", Child(e))>>, 0)
              /\ run' = "running"
              /\ UNCHANGED <<waiting, open>>
           \/ /\ Handles(i, <<>>, 0)
              /\ run' = "failed"
              /\ UNCHANGED <<waiting, open>>
        /\ UNCHANGED <<paused, lost>>

HandleSuggestion(i) ==
    /\ queue[i].kind = "suggestion"
    /\ Handles(i, <<>>, 0)
    /\ UNCHANGED <<graph, run, lost>>

\* The last action an invocation performs: used more were continued inline.
Inline == 0 .. InlineBudget - (IF mode = "process" THEN inline ELSE 0)
Last(e, used) == [e EXCEPT !.depth = @ + used]
Suggestion == <<To("suggestion", source + 1)>>

\* ActionEventHandler.handle of a plan of a whole run: the next action or a
\* retry, a replan, a suggestion that waits for approval, or the end.  A tool
\* may emit a suggestion of its own.
HandleAction(i) ==
    /\ queue[i].kind = "action"
    /\ \E used \in Inline : \E hint \in {<<>>, Suggestion} :
          LET last == Last(queue[i], used)
          IN  \/ /\ Handles(i, hint \o <<To("action", Child(last))>>, used)
                 /\ UNCHANGED run
              \/ /\ Handles(i, <<To("replan", Child(last))>>, used)
                 /\ run' = "waiting"
              \/ /\ Handles(i, hint, used)
                 /\ run' \in Ended
    /\ UNCHANGED <<graph, lost>>

\* The same of a sub-plan: its end is reported to the coordinator.
HandleNodeAction(i) ==
    /\ queue[i].kind = "node_action"
    /\ \E used \in Inline : \E hint \in {<<>>, Suggestion} :
          \E kind \in {"node_action", "completed"} :
             Handles(i, hint \o <<To(kind, Child(Last(queue[i], used)))>>, used)
    /\ UNCHANGED <<graph, run, lost>>

\* SubAgentCoordinator._handle_task.  When planning raises, the local queue
\* drops the message; the function's stays.
HandleTask(i) ==
    /\ queue[i].kind = "task"
    /\ \/ /\ \E kind \in {"node_action", "completed"} : Handles(i, <<To(kind, Child(queue[i]))>>, 0)
          /\ UNCHANGED lost
       \/ /\ mode = "process"
          /\ Handles(i, <<>>, 0)
          /\ lost' = lost \cup {queue[i]}
    /\ UNCHANGED <<graph, run>>

\* SubAgentCoordinator._handle_completed: a node that waits for approval pauses
\* the run, one that failed fails it, any other unblocks more nodes or is the
\* last one that runs.
HandleCompleted(i) ==
    /\ queue[i].kind = "completed"
    /\ \/ /\ Handles(i, <<>>, 0)
          /\ paused' = TRUE
          /\ UNCHANGED <<waiting, open, run>>
       \/ /\ Handles(i, <<>>, 0)
          /\ open' = open - 1
          /\ run' = "failed"
          /\ UNCHANGED <<waiting, paused>>
       \/ /\ \E k \in 0 .. waiting :
                /\ Handles(i, Tasks(k, queue[i]), 0)
                /\ waiting' = waiting - k
                /\ open' = open - 1 + k
          /\ run' = IF open' > 0 THEN run
                    ELSE IF waiting' = 0 /\ run = "running" THEN "completed" ELSE "failed"
          /\ UNCHANGED paused
    /\ UNCHANGED <<source, lost>>

Handle(i) ==
    \/ Cut(i)
    \/ Duplicate(i)
    \/ HandleDomain(i)
    \/ HandleSuggestion(i)
    \/ HandleAction(i)
    \/ HandleNodeAction(i)
    \/ HandleTask(i)
    \/ HandleCompleted(i)

-----------------------------------------------------------------------------
Init ==
    /\ mode \in {"process", "function"}
    /\ correlation \in {"run", "other", "none"}
    /\ apiRejects \in BOOLEAN
    /\ queue = IF mode = "function" THEN <<Seed>> ELSE <<>>
    /\ nextId = 2
    /\ looping = FALSE
    /\ runs = 0
    /\ processed = 0
    /\ seen = {}
    /\ inline = 0
    /\ source = 0
    /\ waiting = NumNodes
    /\ open = 0
    /\ paused = FALSE
    /\ run = "running"
    /\ lost = {}

Step == LoopEnds \/ \E i \in 1 .. Len(queue) : Handle(i)

Next == Run \/ Step

Spec == Init /\ [][Next]_vars

\* A loop goes on until it ends, and the function is invoked for what is queued.
FairSpec == Spec /\ WF_vars(Run) /\ WF_vars(Step)

-----------------------------------------------------------------------------
(***************************************************************************)
(* Properties                                                              *)
(***************************************************************************)
\* Every variable stays in its type, and the queue never holds an event more
\* than one invocation deeper than the limit.
TypeOK ==
    /\ mode \in {"process", "function"}
    /\ correlation \in {"run", "other", "none"}
    /\ apiRejects \in BOOLEAN
    /\ \A i \in 1 .. Len(queue) :
          queue[i] \in [id : 1 .. MaxEvents, kind : Kind, depth : 0 .. MaxDepth + InlineBudget + 1]
    /\ nextId \in 2 .. MaxEvents + 1
    /\ looping \in BOOLEAN
    /\ runs \in 0 .. MaxRuns
    /\ processed \in 0 .. MaxDepth
    /\ seen \subseteq 1 .. MaxEvents
    /\ inline \in 0 .. InlineBudget
    /\ source \in 0 .. MaxDepth
    /\ waiting \in 0 .. NumNodes
    /\ open \in 0 .. NumNodes
    /\ paused \in BOOLEAN
    /\ run \in Ended \cup {"running"}
    /\ \A e \in lost : e.kind \in {"node_action", "task", "completed"}

Quiet == queue = <<>> /\ ~looping /\ (mode = "process" => runs > 0)

\* When the queue has run dry the run has a verdict or waits for a user, unless
\* the guard stopped an event of the orchestration that does not name the run
\* or the planning of a node raised: an action of a whole plan, the request and
\* its replans are never stopped without failing the run
\* (record_max_depth_failure).
NeverEndsSilently == Quiet => run \in Ended \/ paused \/ lost # {}

\* A completed run stays completed: neither late events, nor running the same
\* seed again, nor what the guard stops turns it into a failed one.
CompletedStands == [][(run = "completed") => (run' = "completed")]_vars

\* The guard could not report: the call for an unknown run was refused.
Refused == apiRejects /\ \E e \in lost : EventRunId(e) = "other"

\* Every recursion ends: replans, retries and nodes that start nodes run into
\* the depth limit at the latest, and the queue runs dry.
Drains == <>[](queue = <<>> \/ Refused)
=============================================================================
