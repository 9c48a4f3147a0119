----------------------------- MODULE MCStepFlow -----------------------------
(* Instances of StepFlow: flows of two top-level steps, the first with a     *)
(* child and a grandchild, under every control a custom branch can have.     *)
EXTENDS StepFlow, TLC

CONSTANTS s1, s11, s111, s2, c1, c2, k1, k2

MCSteps == {s1, s11, s111, s2}
Parents == s1 :> None @@ s11 :> s1 @@ s111 :> s11 @@ s2 :> None

Omitted == [given |-> FALSE, of |-> [n \in {} |-> NoControl]]
Given(f) == [given |-> TRUE, of |-> f]
Controls == {NoControl} \union {Control(to, None) : to \in {"completed", "failed"}}
            \union {Control(to, s) : to \in {"resume", "step"}, s \in MCSteps}

\* A flow is named after the step that declares a custom branch and its control. A
\* top-level step may also declare that branch alone, which can leave `s2' dead.
Manifest(f, only) ==
    [steps |-> MCSteps, top |-> <<s1, s2>>, parent |-> Parents,
     branches |-> [s \in MCSteps |->
        IF s # f[1] THEN Omitted
        ELSE Given(IF only THEN "x" :> f[2]
                   ELSE "completed" :> NoControl @@ "failed" :> NoControl @@ "x" :> f[2])]]
Candidates == {Manifest(f, FALSE) : f \in MCSteps \X Controls}
              \union {Manifest(f, TRUE) : f \in {s1} \X Controls}

\* The flows that apply accepts.
MCManifests == {m \in Candidates : validateSpaceApplyBundle(m)}

MCClients == {c1, c2}
MCKeys == {k1, k2}
Symmetry == Permutations(MCClients) \union Permutations(MCKeys)

MCKinds == {"resolve", "openChild", "cancel", "report"}
MCExclusive == {"bootstrap", "resolve", "cancel", "report"}
=============================================================================
