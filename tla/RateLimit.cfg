\* The limiter against a sliding window, with interleaved requests and cleanups.
\* Deadlock is not checked: the requests are finitely many and the clock stops at MaxTime.
SPECIFICATION Spec
CONSTANTS
    Reqs = {q1, q2, q3, q4, q5}
    Keys = {k1}
    Routes = {"apply", "other"}
    RouteMax <- MCRouteMax
    Window = 1
    PurgeAge = 2
    InFlight = 2
    MaxTime = 3
    None = None
SYMMETRY Symmetry
CHECK_DEADLOCK FALSE
INVARIANTS
    RecentIsLogged
PROPERTIES
    RefusalIsEarned
    KeepsWindow
