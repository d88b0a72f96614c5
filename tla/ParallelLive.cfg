SPECIFICATION FairSpec
CONSTANTS
    FrameWorkers = {f1, f2}
    EnvelopeWorkers = {e1, e2}
    FrameJobsPerWorker = 1
    EnvelopeJobsPerWorker = 1
    GroupSizes = {3}
    FrameLens = {3}
    MaxMembers = 2
    CollectLeaves = FALSE
    Faults = {"read", "sink", "frame_error", "frame_panic", "envelope_error", "envelope_panic"}
    Options <- MCOptions
PROPERTY Termination
CHECK_DEADLOCK FALSE
