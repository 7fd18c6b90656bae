SPECIFICATION Spec
CONSTANTS
    Jobs = {j1}
    Answers = {a1}
    Unstorable = {a1}
    Ttl = 1
    MaxJobs = 1
    Processes = {p1, p2}
    Callers = {c1}
    Faults = {}
    MaxTime = 0
    MaxExits = 0
SYMMETRY Symmetry
INVARIANTS InFlightIsCarried
