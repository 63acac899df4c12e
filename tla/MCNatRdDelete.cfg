CONSTANTS
    RDs = {r1}
    Nets = {n1, n2}
    NetRd <- MCNetRd
    NatEpgs = {e1, e2}
    Contracts = {c1}
    NoNat = noNat
    NoRef = noRef
    NoTarget = noTarget
    Absent = absent
    NetChoices <- TargetedNetChoices
    r1 = r1
    n1 = n1
    n2 = n2
    c1 = c1
    e1 = e1
    e2 = e2
SPECIFICATION Spec
INVARIANT NatIndexConsistent
