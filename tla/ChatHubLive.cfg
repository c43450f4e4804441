\* Connections that lose the hub or their client come to an end.
\* Deadlock is not checked: connections are used once, and when all are done the system rests.
SPECIFICATION FairSpec
CONSTANTS
    s1 = s1
    s2 = s2
    g1 = g1
    c1 = c1
    c2 = c2
    d1 = d1
    q1 = q1
    q2 = q2
    Students = {s1, s2}
    Agents = {g1}
    Conns = {c1, c2, d1}
    Owner <- MCOwner
    Contacts <- MCContacts
    Rooms = {q1}
    Members <- MCMembers
    Msgs = {}
    Unknown = Unknown
    Deaf = {c1}
    MaxQueue = 1
    None = None
CHECK_DEADLOCK FALSE
PROPERTIES
    DisplacedEnds
    GoneIsRemoved
