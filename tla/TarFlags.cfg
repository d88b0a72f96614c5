SPECIFICATION MembersSpec
CONSTANTS
    Parts = {"group"}
    Block = 4
    LongNames = {"long"}
    SizeMax = 9
    IdMax = 7
    Nanos = 4
    MaxPax = 12
    MaxAggregate = 20
    Members <- MCOther
    Faults <- MCNoFault
    Defects = {"none"}
    ParentDirs <- MCParentDirs
INVARIANT PredictedFlagsAgree
