CONSTANTS
    p1 = p1
    p2 = p2
    t1 = t1
    a1 = a1
    Project = {p1, p2}
    Task = {t1, t2}
    Agent = {a1}
    Template = {m1}
    Issue = {i1}
    Field = {title}
    Reason = {done}
    Request = {r1, r2}
    None = None
    MaxRevision = 2
    Scenes <- MCScenes
SPECIFICATION FairSpec
INVARIANTS
    ClosedProjectsDrain
    IssueStatusIsDecided
PROPERTIES
    PinsAreSettled
    DrainedIsArchived
CHECK_DEADLOCK FALSE
