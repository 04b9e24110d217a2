------------------------------ MODULE WorkItems ------------------------------
(***************************************************************************)
(* What the work-item tools make of the input of a planned action: the     *)
(* tree of create_workitem_tree, the updates of update_workitems_bulk, the *)
(* item ids of add_sprint_work_items.                                      *)
(*                                                                         *)
(* A tree is the sequence of its nodes in the order of a walk from the     *)
(* roots: the parent of a node comes before it, 0 stands above the roots.  *)
(* Node: parent; wellFormed (an object with a title and, if any, a list of *)
(* children); title; thin (description too short, boilerplate or a copy of *)
(* the title); names (the assignees as the model wrote them).              *)
(* Update: item; fields it changes, "malformed" for one whose value the    *)
(* API would refuse; names.                                                *)
(***************************************************************************)
EXTENDS Naturals, Sequences, FiniteSets

CONSTANTS Members,         \* members of the hydrated context, each with its aliases
          MaxTreeDepth,    \* MAX_WORK_ITEM_TREE_DEPTH
          MaxTreeItems,    \* MAX_WORK_ITEM_TREE_ITEMS
          MaxBulkUpdates   \* MAX_BULK_UPDATES

ASSUME WorkItemsAssumption ==
    /\ MaxTreeDepth \in Nat \ {0}
    /\ MaxTreeItems \in Nat \ {0}
    /\ MaxBulkUpdates \in Nat \ {0}

-----------------------------------------------------------------------------
(***************************************************************************)
(* Assignees.                                                              *)
(***************************************************************************)
\* _known_member_usernames: username, full name and user id of a member lead to
\* its username; of two members with the same alias the first one wins.
KnownBy(name) == {i \in DOMAIN Members : name \in Members[i].aliases}

Resolve(name) == Members[CHOOSE i \in KnownBy(name) : \A j \in KnownBy(name) : i <= j].username

\* _clean_usernames: without any known member the names are taken as they are.
CleanUsernames(names) ==
    IF Members = <<>> THEN names ELSE {Resolve(name) : name \in {x \in names : KnownBy(x) # {}}}

-----------------------------------------------------------------------------
(***************************************************************************)
(* Trees.                                                                  *)
(***************************************************************************)
IsSequence(s) == s \in Seq({s[k] : k \in DOMAIN s})

Nodes(tree) == 1 .. Len(tree)

\* The parent of a node comes before it.
IsTree(tree) == IsSequence(tree) /\ \A n \in Nodes(tree) : tree[n].parent \in 0 .. n - 1

Children(tree, n) == {m \in Nodes(tree) : tree[m].parent = n}

\* Above a node: what is in every set that holds the parents of it and of its members.
Ancestors(tree) ==
    [n \in Nodes(tree) |->
        {a \in Nodes(tree) : \A S \in SUBSET Nodes(tree) :
            (\A m \in {n} \cup S : tree[m].parent \in {0} \cup S) => a \in S}]

Depth(tree, n) == Cardinality(Ancestors(tree)[n]) + 1

\* validate_work_item_tree: the whole tree is looked at before any of it is created.
ValidTree(tree) ==
    /\ tree # <<>>
    /\ Len(tree) <= MaxTreeItems
    /\ \A n \in Nodes(tree) : tree[n].wellFormed /\ Depth(tree, n) <= MaxTreeDepth

\* Plausible bug: a node takes over the assignees of its children only.
RollupAssigneeUsernamesOnce(tree, n) ==
    UNION {CleanUsernames(tree[m].names) : m \in {n} \cup Children(tree, n)}

\* _rollup_assignee_usernames: a node lists everyone who works under it.
RollupAssigneeUsernames(tree, n) ==
    UNION {CleanUsernames(tree[m].names) : m \in {m \in Nodes(tree) : n \in {m} \cup Ancestors(tree)[m]}}

\* The assignees in the payload of a node: _normalize_node_payload cleans the
\* names a second time.
NodeAssignees(tree, n) == CleanUsernames(RollupAssigneeUsernames(tree, n))

-----------------------------------------------------------------------------
(***************************************************************************)
(* Updates.  An item of the board: status; description, "thin" or by a     *)
(* "person" or the "agent"; owners.                                        *)
(***************************************************************************)
\* validate_work_item_updates
ValidUpdates(updates) ==
    /\ updates # <<>>
    /\ Len(updates) <= MaxBulkUpdates
    /\ \A u \in DOMAIN updates : updates[u].item # "" /\ updates[u].fields # {}

\* Plausible bug: a description is replaced whatever it says.
ProtectedFieldsNoText(current) ==
    {"title", "status"} \cup (IF current.owners # {} THEN {"assigneeUsernames"} ELSE {})

\* _drop_protected_fields
ProtectedFields(current) ==
    {"title", "status"}
    \cup (IF current.description # "thin" THEN {"description"} ELSE {})
    \cup (IF current.owners # {} THEN {"assigneeUsernames"} ELSE {})

\* What is left of an update: neither protected nor dropped by the normalisation.
UpdatePayload(update, current) ==
    (update.fields \ ProtectedFields(current))
    \ ({"malformed"} \cup (IF CleanUsernames(update.names) = {} THEN {"assigneeUsernames"} ELSE {}))

\* Is an update sent to the API?  context: the items of the hydrated context.
Sendable(update, context) ==
    /\ update.item \in DOMAIN context
    /\ context[update.item].status = "todo"
    /\ UpdatePayload(update, context[update.item]) # {}

\* The item after the update.
ApplyUpdate(update, payload, item) ==
    [status      |-> IF "status" \in payload THEN "archived" ELSE item.status,
     description |-> IF "description" \in payload THEN "agent" ELSE item.description,
     owners      |-> IF "assigneeUsernames" \in payload THEN CleanUsernames(update.names)
                     ELSE item.owners]

-----------------------------------------------------------------------------
(***************************************************************************)
(* Planned actions: the input a model wrote as a free-form object, and the *)
(* typed field next to it.                                                 *)
(***************************************************************************)
Tree    == "create_workitem_tree"
Bulk    == "update_workitems_bulk"
Sprint  == "create_sprint"
Mapping == "add_sprint_work_items"

\* materialize_typed_action_inputs: an input with a payload of its own wins.
Materialize(plan) ==
    [k \in DOMAIN plan |->
        IF plan[k].tool # Sprint /\ plan[k].input = <<>>
        THEN [plan[k] EXCEPT !.input = plan[k].typed]
        ELSE plan[k]]

\* _plan_defect: would a tool refuse its input?
PlanDefect(plan) ==
    \/ plan = <<>>
    \/ \E k \in DOMAIN plan :
          CASE plan[k].tool = Tree    -> ~ValidTree(plan[k].input)
            [] plan[k].tool = Bulk    -> ~ValidUpdates(plan[k].input)
            [] plan[k].tool = Mapping -> plan[k].input = <<>>
            [] OTHER                  -> FALSE
=============================================================================
