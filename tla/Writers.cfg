SPECIFICATION WritersSpec
CONSTANTS
    Parts = {"single_pass", "two_pass", "objects"}
    GroupSizes = {2, 5}
    FrameLens = {1, 3, 7}
    MaxMembers = 2
    Options <- MCOptions
INVARIANTS
    FramesHoldTheirBytes SuccessIsComplete
    EmissionFollowsPlan ChangesAreNoted
    SurvivesItsBudget ParityIsLeast
PROPERTY ImplementsStream
