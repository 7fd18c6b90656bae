SPECIFICATION Spec
CONSTANTS
    ByHand = {h1}
    Edited = {}
    MaxTroubles = 1
PROPERTIES DoctorNeverTracebacks
