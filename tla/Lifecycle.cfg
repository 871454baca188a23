SPECIFICATION FairSpec
CONSTANTS
    N = 3
    Waits = {1, 2}
    Needs <- OneNeedsThree
INVARIANTS TypeOK CountCovers NobodyLeftBehind RulesInPlace
PROPERTY ComesDown
CHECK_DEADLOCK FALSE
