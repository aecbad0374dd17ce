CONSTANTS
    h1 = h1
    p1 = p1
    s1 = s1
    s2 = s2
    a1 = a1
    u1 = u1
    u2 = u2
    q1 = q1
    q2 = q2
    q3 = q3
    None = None
    Explored = {"converges", "leases"}
SPECIFICATION AgentsLiveSpec
INVARIANTS
    LeasesAreTimed
PROPERTIES
    EvidenceNeverGoesBack
    ViewSettles
