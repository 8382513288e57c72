CONSTANTS
    one = one  zeroOne = zeroOne  other = other
    u = u  v = v
    Keys = {one, zeroOne, other}
    NoResult = NoResult
    NoKey = NoKey
    Column <- MCColumn
    Results <- MCResults
    MaxIteration = 1
SPECIFICATION Spec
INVARIANTS TypeOK CachesAgree ReferencesResolve
PROPERTIES ImplementsBuildDB
CHECK_DEADLOCK FALSE
