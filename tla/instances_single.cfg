\* Three launcher invocations and no crash: the lock-file unlink race.
CONSTANTS
    p1 = p1
    p2 = p2
    p3 = p3
    p4 = p4
    Procs = {p1, p2, p3}
    MaxCrashes = 0
SPECIFICATION Spec
INVARIANT SingleInstance
