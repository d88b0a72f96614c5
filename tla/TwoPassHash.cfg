SPECIFICATION WritersSpec
CONSTANTS
    Parts = {"two_pass"}
    GroupSizes = {2, 5}
    FrameLens = {1, 3, 7}
    MaxMembers = 2
    Options <- MCOptions
INVARIANT ArchiveVerifies
