\* Two managers; one has more trajectories than its cache holds.
SPECIFICATION Spec
CONSTANTS
    m1 = m1  m2 = m2  r1 = r1  r2 = r2  r3 = r3  r4 = r4  r5 = r5
    Managers = {m1, m2}
    Servers = {s1, s2, s3}
    Requests = {r1, r2, r3, r4, r5}
    Home <- TwoAndThree
    CacheSize = 2
    Turns = 2
SYMMETRY Alike
INVARIANTS
    Balanced
    Sticky
