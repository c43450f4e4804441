\* What docs/phase2_implementation_summary.md:55 says of logout.
SPECIFICATION Spec
CONSTANTS
    Users = {u1}
    Families = {f1}
    Ids = {i1, i2}
    Reqs = {r1, r2}
    NoRow = NoRow
    TTL = 1
    Leeway = 0
    MaxTime = 0
SYMMETRY Symmetry
INVARIANT ClosedFamilyNeverLive
CHECK_DEADLOCK FALSE
