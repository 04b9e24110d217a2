\* Two existing items, ten drafts, trees of up to four nodes and three levels.
SPECIFICATION Spec
CONSTANTS
    i1 = i1
    i2 = i2
    Items = {i1, i2}
    Members <- MCMembers
    TitleOf <- MCTitleOf
    Drafts <- MCDrafts
    MaxTreeDepth = 3
    MaxTreeItems = 4
    MaxBulkUpdates = 3
    MinLeavesForRatio = 2
    MinAssignmentRatio = 50
    MinAssignedForBalance = 2
    MaxConcentration = 60
    PlanAttempts = 3
    TimeBudget = 2
    CriticSkip = 1
    MaxGeneration = 2
    ActionAttempts = 3
    MaxParallel = 2
    MaxEdits = 1
    MaxInterruptions = 1
INVARIANTS
    CreatedOnce
    ParentListsEveryone
    HumanWorkKept
    PlanningBounded
    OwnSprint
CHECK_DEADLOCK FALSE
