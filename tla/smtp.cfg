SPECIFICATION Spec
CONSTANTS
    m1 = m1
    m2 = m2
    m3 = m3
    d1 = d1
    d2 = d2
    MX = {m1, m2, m3}
    Domains = {d1, d2}
    Preferences = {10, 20}
    MaxRcpts = 2
INVARIANTS
    CopiesAreLostReplies
    ByPreference
    RefusalsAreTrue
