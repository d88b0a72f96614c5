SPECIFICATION Spec
CONSTANTS
    FrameWorkers = {f1, f2}
    EnvelopeWorkers = {e1, e2}
    FrameJobsPerWorker = 1
    EnvelopeJobsPerWorker = 1
    GroupSizes = {2, 3}
    FrameLens = {1, 3, 7}
    MaxMembers = 2
    CollectLeaves = TRUE
    Faults = {"read", "sink", "frame_error", "frame_panic", "envelope_error", "envelope_panic"}
    Options <- MCOptions
SYMMETRY Symmetry
INVARIANTS
    TypeOK BlocksInOrder IndexDescribesBlocks EachEnvelopeOnce
    SuccessIsComplete FailureHasCause WriteOrder
PROPERTY ImplementsStream
