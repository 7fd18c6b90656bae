SPECIFICATION FairSpec
CONSTANTS
    Jobs = {j1, j2}
    Answers = {a1}
    Unstorable = {}
    Ttl = 0
    MaxJobs = 2
    Processes = {p1, p2}
    Callers = {c1}
    Faults = {}
    MaxTime = 0
    MaxExits = 2
INVARIANTS InFlightIsCarried
PROPERTIES JobSettles ServiceReturns PollerLearns CancelTellsTruth
