SPECIFICATION Spec
CONSTANTS
    Keys <- MCKeys
    NoKey = "none"
    Roots = {"root"}
    Programs = {"mutual"}
    Values = {"empty", "cancelled", "built"}
    EmptyValue = "empty"
    CancelledValue = "cancelled"
    Environments <- MCEnvironments
    Start <- MCStart
    React <- MCReact
    Discover <- MCDiscover
    Compute <- MCCompute
    IsResultValid <- MCIsResultValid
    Signature <- MCSignature
    ForceChange = {FALSE}
    CycleAnswers = {FALSE}
    MaxBuilds = 2
    MaxEdits = 0
    MaxRestarts = 0
    MaxCancels = 0
    MaxResets = 0
    MaxFaults = 0
INVARIANTS
    BuiltRuleComplete
