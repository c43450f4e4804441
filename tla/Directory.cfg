\* The shared cache of the directory's answers and the shortlists that copy them.
SPECIFICATION Spec
CONSTANTS
    d1 = d1
    law = law
    law_space = law_space
    k1 = k1
    k2 = k2
    r1 = r1
    r2 = r2
    s1 = s1
    Details = {d1}
    Searches = {law, law_space}
    Keys = {k1, k2}
    Key <- MCKey
    Students = {s1}
    Reqs = {r1, r2}
    MaxSize = 1
    TTL = 1
    Delay = 1
    MaxTime = 4
    None = None
SYMMETRY Symmetry
INVARIANTS
    ShelfLife
    CacheBounded
