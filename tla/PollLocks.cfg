CONSTANTS
    Procs = {p1, p2}
    Configured <- Either
    Lease = 3
    Wait = 2
    MaxErrors = 1
SPECIFICATION Spec
CHECK_DEADLOCK FALSE
INVARIANT LeaseExcludes FileExcludes
PROPERTY  StartSettles
