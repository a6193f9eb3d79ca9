CONSTANTS
    p1 = p1
    p2 = p2
    None = None
    Procs = {p1, p2}
    Plan <- MCPlan
    Migrations = 2
    MaxFaults = 1
    Invocations <- MCInvocations
    MaxStarts = 3
    MaxChanges = 1
    Preexisting <- MCPreexisting
SYMMETRY Perms
SPECIFICATION Spec
CHECK_DEADLOCK FALSE
INVARIANTS
    TypeOK
    OnlyRecordedIsDeleted
    JournalIsTrue
