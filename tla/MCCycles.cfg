SPECIFICATION Spec
CONSTANTS
    Keys <- MCKeys
    NoKey = "none"
    Roots = {"root"}
    Programs = {"flat", "chain", "cycle", "discovered", "mutual"}
    Values = {"empty", "cancelled", "built"}
    EmptyValue = "empty"
    CancelledValue = "cancelled"
    Environments <- MCEnvironments
    Start <- MCStart
    React <- MCReact
    Discover <- MCDiscover
    Compute <- MCCompute
    IsResultValid <- MCIsResultValid
    Signature <- MCSignature
    ForceChange = {FALSE, TRUE}
    CycleAnswers = {FALSE, TRUE}
    MaxBuilds = 3
    MaxEdits = 0
    MaxRestarts = 1
    MaxCancels = 1
    MaxResets = 1
    MaxFaults = 1
INVARIANTS
    RequestsAccounted
    QuiescentAfterBuild
    ScansJustified
    NoFalseCycle
