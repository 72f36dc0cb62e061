\* Four launcher invocations, two of which may be killed.
CONSTANTS
    p1 = p1
    p2 = p2
    p3 = p3
    p4 = p4
    Procs = {p1, p2, p3, p4}
    MaxCrashes = 2
SPECIFICATION Spec
PROPERTY RecoversAfterCrash
 
