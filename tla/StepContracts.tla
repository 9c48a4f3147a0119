---------------------------- MODULE StepContracts ----------------------------
(***************************************************************************)
(* The compiler of step contracts: from a flow manifest to the catalog of  *)
(* routes that the step engine follows, and what apply refuses.            *)
(*                                                                         *)
(* A manifest names its steps, which of them are at the top level (in      *)
(* order), the parent of each nested step, and the branches a step         *)
(* declares with their authored control.  Schemas, artifact slots and      *)
(* tokens only cause warnings that apply does not look at.                 *)
(***************************************************************************)
EXTENDS Sequences, Naturals, FiniteSets, SequencesExt

CONSTANT None

Control(to, id) == [to |-> to, id |-> id]
NoControl == Control("none", None)

Route(engine, id) == [engine |-> engine, id |-> id]

\* Omitted branches get the two defaults; an explicit map, even empty, is exact.
applyDefaultBranches(m, s) ==
    IF m.branches[s].given THEN m.branches[s].of
    ELSE [b \in {"completed", "failed"} |-> NoControl]

\* flattenManifestSteps: every step knows its parent.
Ancestors(m, s) ==
    LET up[t \in m.steps] ==
            IF m.parent[t] = None THEN {} ELSE {m.parent[t]} \union up[m.parent[t]]
    IN up[s]

isNested(m, s) == m.parent[s] # None

nextTopLevelSibling(m, s) ==
    LET next == {i \in 2..Len(m.top) : m.top[i - 1] = s}
    IN IF next = {} THEN None ELSE m.top[CHOOSE i \in next : TRUE]

\* An authored `resume' or `route', else the default of a nested step; None when
\* a top-level branch has no control.
compileBranchRoutes(m, s, control) ==
    CASE control.to = "resume" -> Route("resume", control.id)
      [] control.to = "step" /\ isNested(m, s) -> Route("resume", m.parent[s])
      [] control.to = "step" /\ ~isNested(m, s) -> Route("open", control.id)
      [] control.to = "completed" -> Route("advance", None)
      [] control.to = "failed" -> Route("fail_run", None)
      [] control.to = "none" /\ isNested(m, s) -> Route("resume", m.parent[s])
      [] OTHER -> Route("none", None)

resolveTopLevelDefaultRoutes(m, s, name) ==
    CASE name = "completed" /\ nextTopLevelSibling(m, s) # None ->
            Route("open", nextTopLevelSibling(m, s))
      [] name = "failed" -> Route("fail_run", None)
      [] OTHER -> Route("advance", None)

compileCatalogEntry(m, s) ==
    LET branches == applyDefaultBranches(m, s)
    IN [b \in DOMAIN branches |->
           LET lowered == compileBranchRoutes(m, s, branches[b])
           IN IF lowered.engine = "none" THEN resolveTopLevelDefaultRoutes(m, s, b) ELSE lowered]

compileStepContractCatalog(m) ==
    [top |-> m.top,
     parent |-> m.parent,
     ancestors |-> [s \in m.steps |-> Ancestors(m, s)],
     routes |-> [s \in m.steps |-> compileCatalogEntry(m, s)]]

\* The warnings that make validateSpaceApplyBundle refuse the flow.
controlWarnings(m, s, b) ==
    LET c == applyDefaultBranches(m, s)[b] IN
    {w \in {"RESUME_TARGET_NOT_ANCESTOR", "ROUTE_TARGET_NOT_FOUND",
            "CUSTOM_BRANCH_REQUIRES_ROUTE"} :
        \/ w = "RESUME_TARGET_NOT_ANCESTOR" /\ c.to = "resume" /\ c.id \notin Ancestors(m, s)
        \/ w = "ROUTE_TARGET_NOT_FOUND" /\ c.to = "step" /\ ~isNested(m, s) /\ c.id \notin m.steps
        \/ /\ w = "CUSTOM_BRANCH_REQUIRES_ROUTE"
           /\ ~isNested(m, s) /\ c.to = "none" /\ b \notin {"completed", "failed"}}

validateSpaceApplyBundle(m) ==
    \A s \in m.steps : \A b \in DOMAIN applyDefaultBranches(m, s) : controlWarnings(m, s, b) = {}

\* Mutant: the lint only follows the branch that completes a step.
lintDeadStepsOnSuccess(cat) ==
    LET tops == ToSet(cat.top)
        next(R) == R \union {t \in tops : \E s \in R : "completed" \in DOMAIN cat.routes[s]
                                /\ cat.routes[s]["completed"] = Route("open", t)}
        reach[n \in 0..Len(cat.top)] == IF n = 0 THEN {cat.top[1]} ELSE next(reach[n - 1])
    IN tops \ reach[Len(cat.top)]

\* The top-level steps that no chain of routes reaches from the entry: reported as
\* DEAD_STEP, but accepted.
lintDeadSteps(cat) ==
    LET tops == ToSet(cat.top)
        next(R) == R \union {t \in tops : \E s \in R : \E b \in DOMAIN cat.routes[s] :
                                /\ cat.routes[s][b].engine \in {"open", "resume"}
                                /\ cat.routes[s][b].id = t}
        reach[n \in 0..Len(cat.top)] == IF n = 0 THEN {cat.top[1]} ELSE next(reach[n - 1])
    IN tops \ reach[Len(cat.top)]

-----------------------------------------------------------------------------
\* The catalogs the engine can carry to the end: the run is completed from the
\* last top-level step, no top-level step is skipped, and nested steps are
\* activated by their parent only.
Completable(cat) ==
    \A s \in DOMAIN cat.routes : \A b \in DOMAIN cat.routes[s] :
        LET r == cat.routes[s][b]
            at(t) == CHOOSE i \in DOMAIN cat.top : cat.top[i] = t
        IN /\ r.engine = "advance" => s = Last(cat.top)
           /\ r.engine = "open" => r.id \in ToSet(cat.top) /\ at(r.id) <= at(s) + 1
=============================================================================
