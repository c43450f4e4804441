\* Tables that are checked and then written, with two handlers and aborts.
\* Deadlock is not checked: when the lists are filled and the bounds reached nothing is left to do.
SPECIFICATION Spec
CONSTANTS
    Reqs = {r1, r2}
    Size = 2
    Capacity = 1
    Rows = {p1, p2}
    MaxRooms = 2
    MaxTime = 2
    None = None
SYMMETRY Symmetry
CHECK_DEADLOCK FALSE
INVARIANTS
    ListWhole
    OnlyRacesExceed
PROPERTIES
    StepKept
    CompletionDateKept
