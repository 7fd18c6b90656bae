SPECIFICATION Spec
CONSTANTS
    Jobs = {j1, j2}
    Answers = {a1, a2}
    Unstorable = {a2}
    Ttl = 1
    MaxJobs = 1
    Processes = {p1, p2}
    Callers = {c1}
    Faults = {"store", "handler", "clock"}
    MaxTime = 2
    MaxExits = 2
SYMMETRY Symmetry
INVARIANTS TypeOK RowWellFormed CapacityBound CompletedMeansAnswered InterruptedMeansDead InFlightOfThisServer
PROPERTIES ForgottenOnlyWhenDue ImplementsLifecycle ToldForward
