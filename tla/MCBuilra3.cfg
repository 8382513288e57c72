CONSTANTS
    R1 = R1  R2 = R2  RI = RI
    a1 = a1  a2 = a2  b1 = b1  i1 = i1
    x = x  y = y  z = z
    p0 = p0  p1 = p1
    B1 = B1  B2 = B2  B3 = B3  h1 = h1
    Rules = {R1, R2, RI}
    Artifacts = {a1, a2, b1, i1}
    Actions = {x, y, z}
    ActionKinds = {x, y, z}
    Builds = {B1, B2, B3}
    Handlers = {h1}
    Providers = {p0, p1}
    InitTask = InitTask
    NoRule = NoRule
    Produces <- MCProduces
    RulesOf <- MCRulesOf
    Target <- MCTarget
    Scenarios <- MCScenarios
    InitProps = {RI}
    Cacheable = {R1}
    Broken = {}
    BaseProvider = p0
    MaxBatch = 2
    MaxWork = 2
    Submissions <- MCSubmissions
    Lanes = {l1}
    NoSubmission = NoSubmission
    Refused = {z}
    LocalCompatible = {x}
    Volatile = {y, z}
    MaxAsyncConcurrency = 1
SPECIFICATION Spec
INVARIANTS TypeOK OneActivation BlockedTasksAreTold InputsAreThoseWaitedFor
    BuildAnswersTrue TerminatesOnlyIf PendingIsSomewhere AsyncWithinLimit
PROPERTIES ExecutorKeepsPromise BuildsAnswered
CHECK_DEADLOCK FALSE
