\* Files and rows under interleaving, hang-ups, crashes and failed statements.
\* Deadlock is not checked: when every name is used and every row deleted nothing is left to do.
SPECIFICATION Spec
CONSTANTS
    Names = {n1, n2, n3}
    Students = {s1, s2}
    Admin = Admin
    Reqs = {r1, r2}
    None = None
SYMMETRY Symmetry
CHECK_DEADLOCK FALSE
INVARIANTS
    RowHasFile
    TempAccounted
    StoreAccounted
    OneUnlinker
PROPERTIES
    KeepsDocuments
