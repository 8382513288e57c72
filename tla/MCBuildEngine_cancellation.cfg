SPECIFICATION Spec
CONSTANTS
    Keys <- MCKeys
    NoKey = NoKey
    Roots = {"root"}
    Programs = {1, 2}
    Values = {0, 1, 2, 3, 4}
    EmptyValue = 4
    CancelledValue = 3
    Environments <- MCEnvironments
    Start <- MCStart
    React <- MCReact
    Discover <- MCDiscover
    Compute <- MCCompute
    IsResultValid <- MCIsResultValid
    Signature <- MCSignature
    ForceChange = {FALSE}
    CycleAnswers = {FALSE}
    MaxBuilds = 2
    MaxEdits = 1
    MaxRestarts = 1
    MaxCancels = 1
    MaxResets = 0
    MaxFaults = 0
INVARIANTS
    UpToDate
    QuiescentAfterBuild
    NoLostWakeup
    OutstandingAccounted
    VerdictsConsumed
    NoCancelledInput
