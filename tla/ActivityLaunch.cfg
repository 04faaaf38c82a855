\* Interactions, OAuth starts and bootstraps of two Activity instances of one
\* run, against administration, time and restarts.
SPECIFICATION Spec
CONSTANTS
    p1 = p1
    s1 = s1
    r1 = r1
    i1 = i1
    i2 = i2
    q1 = q1
    q2 = q2
    c1 = c1
    None = None
    Projects = {p1}
    Surfaces = {s1}
    Runs = {r1}
    Instances = {i1, i2}
    Requests = {q1, q2}
    Challenges = {c1}
    ChannelOf <- MCChannelOf
    ThreadOf <- MCThreadOf
    LaunchTtl = 2
    OauthTtl = 1
    MaxTime = 2
SYMMETRY RequestSymmetry
CONSTRAINT OneOfEach
INVARIANTS
    OneSessionPerLaunch
PROPERTIES
    LaunchEndsOnce
