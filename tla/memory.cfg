SPECIFICATION Spec
CONSTANTS
    Jobs = {j1, j2}
    Readers = {r1}
    Ttl = 0
    MaxJobs = 1
    MaxTime = 2
SYMMETRY Symmetry
INVARIANTS TypeOK CoherentWhenFree FinishedShowsOutcome
PROPERTIES SettledOnce ForgottenOnlyWhenDue ImplementsLifecycle
