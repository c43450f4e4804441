\* "Students cannot update the status directly": the code disagrees.
SPECIFICATION Spec
CONSTANTS
    Apps = {a1}
    Students = {s1}
    Agents = {g1}
    Admin = Admin
    Courses = {c1}
    AccountStatus = {"lead", "in_progress"}
    Wishes = {"draft", "submitted", "Applied"}
    Reqs = {r1, r2}
    AgentOf <- MCAgentOf
    None = None
SYMMETRY Symmetry
PROPERTIES
    StudentKeepsStatus
