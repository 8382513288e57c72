SPECIFICATION Spec
CONSTANTS
    Keys <- MCKeys
    NoKey = NoKey
    Roots = {"root"}
    Programs = {1}
    Values = {0, 1, 2, 3, 4}
    EmptyValue = 4
    CancelledValue = 3
    Environments <- MCEnvironments
    Start <- MCStart
    React <- MCReact
    Discover <- MCDiscover
    Compute <- MCCompute
    IsResultValid <- MCIsResultValid
    Signature <- MCSignature
    ForceChange = {FALSE}
    CycleAnswers = {FALSE}
    MaxBuilds = 3
    MaxEdits = 1
    MaxRestarts = 0
    MaxCancels = 1
    MaxResets = 1
    MaxFaults = 0
INVARIANTS
    UpToDate
