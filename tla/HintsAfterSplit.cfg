SPECIFICATION MembersSpec
CONSTANTS
    Parts = {"index"}
    Block = 4
    LongNames = {"long"}
    SizeMax = 9
    IdMax = 7
    Nanos = 4
    MaxPax = 12
    MaxAggregate = 20
    Members <- MCGroupMembers
    Faults <- MCFaults
    Defects <- MCDefects
    ParentDirs <- MCParentDirs
INVARIANT HintsMatchShards
