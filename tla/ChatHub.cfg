\* Messages and receipts with a second connection, hang-ups, timeouts and a crash.
\* Deadlock is not checked: connections are used once, and when all are done the system rests.
SPECIFICATION Spec
CONSTANTS
    s1 = s1
    s2 = s2
    g1 = g1
    c1 = c1
    c2 = c2
    d1 = d1
    q1 = q1
    q2 = q2
    Students = {s1, s2}
    Agents = {g1}
    Conns = {c1, c2, d1}
    Owner <- MCOwner
    Contacts <- MCNoContacts
    Rooms = {q1, q2}
    Members <- MCMembers
    Msgs = {m1}
    Unknown = Unknown
    Deaf = {}
    MaxQueue = 1
    None = None
SYMMETRY Symmetry
CHECK_DEADLOCK FALSE
INVARIANTS
    ShownIsSaved
    ReceiptIsTrue
    EntryIsLive
