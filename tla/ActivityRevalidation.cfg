\* Requests of one principal delivered at any time and again, against restarts
\* and changing bindings.
SPECIFICATION Spec
CONSTANTS
    p1 = p1
    s1 = s1
    s2 = s2
    r1 = r1
    r2 = r2
    i1 = i1
    m1 = m1
    m2 = m2
    k1 = k1
    None = None
    Projects = {p1}
    Surfaces = {s1, s2}
    Runs = {r1, r2}
    Instances = {i1}
    Messages = {m1, m2}
    Keys = {k1}
    KeyOf <- MCKeyOf
    InstanceOf <- MCInstanceOf
    RunOf <- MCRunOf
    ThreadOf <- MCThreadOf
    MaxSkew = 1
    NonceTtl = 3
    MaxRequests = 1
    Window = 2
    MaxTime = 3
INVARIANTS
    AcceptedOnce
    WithinRate
