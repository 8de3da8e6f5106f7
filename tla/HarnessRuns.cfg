\* Three steps, one without its document; kills, timeouts, forgotten resets, prices, edits of protected files, a broken index.
CONSTANTS
    Last = 2
    Drafts = {1}
    MaxRetries = 2
    MaxCost = 3
    Prices = {0, 2}
SPECIFICATION FairSpec
INVARIANTS TypeOK DonePhaseIsDone StepsInOrder BudgetHolds ProtectedNotPassed
PROPERTIES RunEnds
