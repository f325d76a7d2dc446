\* One stream task, every kind of frame.
CONSTANTS
    Rooms = {r1}
    Members = {m1, m2}
    Tasks = {t1}
    MaxLog = 4
    MaxEpoch = 2
    InputFrames <- AnyFrames
SPECIFICATION Spec
INVARIANT TypeOK
INVARIANT EpochConsistentLog
INVARIANT MlsStateCurrentWhenQuiescent
