CONSTANTS
    p1 = p1
    None = None
    Procs = {p1}
    Plan <- MCShortPlan
    Migrations = 1
    MaxFaults = 2
    Invocations <- MCShortInvocations
    MaxStarts = 2
    MaxChanges = 0
    Preexisting = {{}}
SPECIFICATION Spec
CHECK_DEADLOCK FALSE
INVARIANT CleanupCanBeRetried
