SPECIFICATION Spec
CONSTANTS
    c1 = c1
    c2 = c2
    dA = dA
    dB = dB
    t1 = t1
    t2 = t2
    t3 = t3
    t4 = t4
    None = None
    Callers <- MCCallers
    DomainIDs <- MCDomainIDs
    TreeIDs <- MCTreeIDs
SYMMETRY Symm
INVARIANT TreesDescribeDomain
CHECK_DEADLOCK FALSE
