SPECIFICATION CommitSpec
CONSTANTS
    Commands <- MCCommands
    Requests <- MCRequests
    OldFiles <- MCOld
    Visitors <- MCVisitors
    MaxVolumes = 3
INVARIANTS VolumeZeroCommits SuccessStands FailureLeavesNothing RefusalIsJustified
PROPERTIES OthersFilesStay EveryCommandEnds
CHECK_DEADLOCK FALSE
