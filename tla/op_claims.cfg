SPECIFICATION FairSpec
CONSTANTS
    e1 = e1
    o1 = o1
    f1 = f1
    f2 = f2
    A = A
    B = B
    None = None
    Person = Person
    PlanIds = {p1}
    Changes = {e1, o1, f1, f2}
    KindOf <- MCKindOf
    Proposals <- MCProposals
    Principals = {a1, a2}
    Projects = {A}
    Threads = {t1, t2}
    Policy = "agentApproval"
    MaxPending = 1
    MaxRun = 1
    MaxEpoch = 1
INVARIANTS
    StandingIsTrue
    EffectOnce
PROPERTIES
    ClaimsEnd
CHECK_DEADLOCK FALSE
