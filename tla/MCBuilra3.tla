------------------------------ MODULE MCBuilra3 ------------------------------
(***************************************************************************)
(* A builra3 engine and its executor, for TLC.  R1 and the initialization  *)
(* rule RI come with the base provider, R2 with the provider RI registers. *)
(***************************************************************************)
EXTENDS Builra3, TLC

CONSTANTS R1, R2, RI, a1, a2, b1, i1, x, y, z, p0, p1, B1, B2, B3, h1

MCProduces == (R1 :> {a1, a2}) @@ (R2 :> {b1}) @@ (RI :> {i1})
MCRulesOf == (p0 :> {R1, RI}) @@ (p1 :> {R2})
MCTarget == (B1 :> a1) @@ (B2 :> b1) @@ (B3 :> i1)
MCSubmissions == 1 .. MaxWork

\* A client that builds B1 and whose R1 makes the requests in asks.
Plain(asks) ==
    [initRule |-> NoRule, actionCache |-> FALSE, remote |-> FALSE,
     destroys |-> FALSE, builds |-> {B1}, handlers |-> {},
     wants |-> (R1 :> asks) @@ (R2 :> {}) @@ (RI :> {})]

\* A client whose RI registers the provider of R2, and that builds B2.
Initializing(asks1, asks2) ==
    [Plain(asks1) EXCEPT !.initRule = RI, !.builds = {B2},
        !.wants[R2] = asks2, !.wants[RI] = {<<"provider", p1>>}]

MCScenarios == {
    \* two IDs of one task; a rule that is in flight
    Initializing({}, {ArtifactSid(a1), ArtifactSid(a2)}),
    Initializing({}, {ArtifactSid(a1), RuleSid(R1)}),
    \* tasks that wait for each other
    Initializing({ArtifactSid(b1)}, {ArtifactSid(a1)}),
    \* a build of an artifact of an initialization task, after another build
    \* whose task asks for what no provider has
    [Plain({ArtifactSid(b1), RuleSid(R2)}) EXCEPT
        !.builds = {B1, B3}, !.handlers = {h1}],
    \* an initialization rule no provider has
    [Plain({}) EXCEPT !.initRule = R2],
    \* async subtasks, one more than the limit
    Plain({<<"async", 1>>, <<"async", 2>>}),
    \* synchronous subtasks, a local and a remote action
    [Plain({<<"subtask", 1>>, ActionSid(x), ActionSid(y)}) EXCEPT
        !.remote = TRUE],
    \* an action for a remote executor that is not there
    Plain({ActionSid(y)}),
    \* a cached action, a refused action and a cacheable task
    [Plain({ActionSid(x), ActionSid(z)}) EXCEPT !.actionCache = TRUE],
    \* a client that destroys the engine
    [Plain({<<"async", 1>>}) EXCEPT !.destroys = TRUE]}
==============================================================================
