SPECIFICATION Spec
CONSTANTS
    e1 = e1
    o1 = o1
    f1 = f1
    f2 = f2
    A = A
    B = B
    None = None
    Person = Person
    PlanIds = {p1}
    Changes = {e1, o1, f1, f2}
    KindOf <- MCKindOf
    Proposals <- MCProposalsFiles
    Principals = {a1}
    Projects = {A, B}
    Threads = {t1}
    Policy = "agentApproval"
    MaxPending = 1
    MaxRun = 2
    MaxEpoch = 2
INVARIANTS
    RecordIsTrue
    ReportNamesEveryEffect
    EffectOnce
    FilesFollowEdits
PROPERTIES
    InterruptedIsFinal
    KeepsReceipts
CHECK_DEADLOCK FALSE
SYMMETRY MCSymmetry
