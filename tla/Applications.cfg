\* Creation, update, assignment and promotion under interleaving and aborts.
SPECIFICATION Spec
CONSTANTS
    Apps = {a1, a2}
    Students = {s1}
    Agents = {g1}
    Admin = Admin
    Courses = {c1, c2}
    AccountStatus = {"lead", "in_progress"}
    Wishes = {"submitted"}
    Reqs = {r1, r2}
    AgentOf <- MCAgentOf
    None = None
SYMMETRY Symmetry
INVARIANTS
    NoDuplicates
    ApplicantsPromoted
    ChangeIsMailed
PROPERTIES
    StudentEditsDraft
    DateKept
