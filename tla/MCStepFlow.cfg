SPECIFICATION Spec
CONSTANTS
    None = None
    s1 = s1
    s11 = s11
    s111 = s111
    s2 = s2
    Steps <- MCSteps
    Manifests <- MCManifests
    c1 = c1
    c2 = c2
    k1 = k1
    k2 = k2
    Clients <- MCClients
    Streams = {st}
    Keys <- MCKeys
    Kinds <- MCKinds
    Exclusive <- MCExclusive
    PerParent = TRUE
    MaxOpens = 2
INVARIANTS AtRest ChildrenOpenOnce CompletedInFull
SYMMETRY Symmetry
CHECK_DEADLOCK FALSE
