CONSTANTS
    Rooms = {r1}
    Members = {m1, m2}
    Tasks = {t1}
    MaxLog = 3
    MaxEpoch = 1
    InputFrames <- HonestAppFrames
SPECIFICATION Spec
INVARIANT OnlyMembersPersisted
