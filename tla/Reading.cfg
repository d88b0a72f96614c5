SPECIFICATION ReadingSpec
CONSTANTS
    Parts = {"terminal", "set", "pipe", "merge", "restore"}
    Requests <- MCRequests
    RetainedCap = 7
    MaxFaults = 3
    RestoreArchives <- MCArchives
    RestoreRoots <- MCRoots
    RestoreOptions <- MCOptions
    RestoreFaults = 2
INVARIANTS
    OpensExactlyTheTolerable
    OpensExactlyTheUsable PublicVerifyIsExact RepairRestores
    DecodedIsPrefix SuccessIsComplete AcceptsTheTolerable
    MergeIsExact
    RestoredIsArchived FailureIsClean DirectoriesAreFinal
