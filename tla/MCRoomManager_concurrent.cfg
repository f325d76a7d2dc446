CONSTANTS
    Rooms = {r1}
    Members = {m1, m2}
    Tasks = {t1, t2}
    MaxLog = 3
    MaxEpoch = 1
    InputFrames <- AnyFrames
SPECIFICATION Spec
PROPERTY RoomLogRefined
SYMMETRY Symmetric
