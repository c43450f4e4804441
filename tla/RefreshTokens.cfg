\* Rotation, reuse detection and logout under interleaving and crashes.
SPECIFICATION Spec
CONSTANTS
    Users = {u1, u2}
    Families = {f1, f2}
    Ids = {i1, i2, i3}
    Reqs = {r1, r2}
    NoRow = NoRow
    TTL = 1
    Leeway = 1
    MaxTime = 3
SYMMETRY Symmetry
INVARIANTS
    ParentRevoked
    SerialFamilyOneLive
    ClosedStaysDead
PROPERTIES
    RevokedForever
    KeepsSessions
