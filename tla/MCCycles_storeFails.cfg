SPECIFICATION Spec
CONSTANTS
    Keys <- MCKeys
    NoKey = "none"
    Roots = {"root"}
    Programs = {"flat", "chain", "cycle", "discovered"}
    Values = {"empty", "cancelled", "built"}
    EmptyValue = "empty"
    CancelledValue = "cancelled"
    Environments <- MCEnvironments
    Start <- MCStart
    React <- MCReact
    Discover <- MCDiscover
    Compute <- MCCompute
    IsResultValid <- MCIsResultValid
    Signature <- MCSignature
    ForceChange = {FALSE, TRUE}
    CycleAnswers = {FALSE, TRUE}
    MaxBuilds = 1
    MaxEdits = 0
    MaxRestarts = 0
    MaxCancels = 0
    MaxResets = 0
    MaxFaults = 1
INVARIANTS
    CancelledTasksPending
