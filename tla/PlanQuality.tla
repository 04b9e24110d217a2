----------------------------- MODULE PlanQuality -----------------------------
(***************************************************************************)
(* plan_quality.py: the review of a plan that the planner may use for one  *)
(* revision.  Titles are normalised; ratios are percentages.               *)
(***************************************************************************)
EXTENDS WorkItems

CONSTANTS TitleOf,                 \* title of an existing item
          MinLeavesForRatio,       \* MIN_LEAVES_FOR_ASSIGNMENT_RATIO_CHECK
          MinAssignmentRatio,      \* MIN_ASSIGNMENT_RATIO
          MinAssignedForBalance,   \* MIN_ASSIGNED_LEAVES_FOR_BALANCE_CHECK
          MaxConcentration         \* ASSIGNMENT_CONCENTRATION_THRESHOLD

\* _duplicate_title_issues, _existing_duplicate_issues and _description_issues;
\* blank titles are skipped.
DuplicateTitles(tree) ==
    \E m, n \in Nodes(tree) : m # n /\ tree[m].title = tree[n].title /\ tree[m].title # ""

ExistingTitles(tree, context) ==
    \E n \in Nodes(tree) : \E i \in DOMAIN context :
        tree[n].title = TitleOf[i] /\ TitleOf[i] # ""

ThinDescriptions(tree) == \E n \in Nodes(tree) : tree[n].thin

\* _assignment_issues counts the names as they are written.
Leaves(tree)         == {n \in Nodes(tree) : Children(tree, n) = {}}
AssignedLeaves(tree) == {n \in Leaves(tree) : tree[n].names # {}}
HeldBy(tree, name)   == {n \in AssignedLeaves(tree) : name \in tree[n].names}

KnownMemberCount == Cardinality({Members[i].username : i \in DOMAIN Members})

FewAssigned(tree) ==
    LET leaves == Cardinality(Leaves(tree))
    IN  /\ leaves >= MinLeavesForRatio
        /\ 100 * Cardinality(AssignedLeaves(tree)) < MinAssignmentRatio * leaves

Concentrated(tree) ==
    LET assigned == Cardinality(AssignedLeaves(tree))
    IN  /\ KnownMemberCount >= 3
        /\ assigned >= MinAssignedForBalance
        /\ \E name \in UNION {tree[n].names : n \in AssignedLeaves(tree)} :
              100 * Cardinality(HeldBy(tree, name)) > MaxConcentration * assigned

AssignmentIssues(tree) == KnownMemberCount >= 2 /\ (FewAssigned(tree) \/ Concentrated(tree))

\* _target_item_issues: unknown items, or ones that must not be touched any more.
TargetItemIssues(items, context, blocked) ==
    /\ DOMAIN context # {}
    /\ \E i \in items :
          \/ i # "" /\ i \notin DOMAIN context
          \/ i \in DOMAIN context /\ context[i].status \in blocked

Closed  == {"done", "archived"}
Started == Closed \cup {"in_progress", "in_review"}

\* plan_quality_issues: is there anything to revise?
PlanQualityIssues(plan, context) ==
    \E k \in DOMAIN plan :
        LET input == plan[k].input
        IN  CASE plan[k].tool = Tree    -> \/ DuplicateTitles(input)
                                           \/ ExistingTitles(input, context)
                                           \/ ThinDescriptions(input)
                                           \/ AssignmentIssues(input)
              [] plan[k].tool = Bulk    -> TargetItemIssues({input[u].item : u \in DOMAIN input},
                                                            context, Started)
              [] plan[k].tool = Mapping -> TargetItemIssues({input[u] : u \in DOMAIN input},
                                                            context, Closed)
              [] OTHER                  -> FALSE
=============================================================================
