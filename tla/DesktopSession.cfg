SPECIFICATION FairSpec
CONSTANTS
    o1 = o1
    o2 = o2
    o3 = o3
    Ops <- PageOps
    Boot = o1
    MaxStarts = 2
INVARIANTS TypeOK IdMatchesState StartingIsOwned ControlsNeverStuck
PROPERTIES StartingResolves ControlsComeBack
