\* Two stream tasks and one member sending valid AppMessages: nothing is
\* rejected, yet the task holding the later index can take the driver lock
\* first, and its store_frame meets Conflict.
CONSTANTS
    Rooms = {r1}
    Members = {m1}
    Tasks = {t1, t2}
    MaxLog = 3
    MaxEpoch = 1
    InputFrames <- HonestAppFrames
SPECIFICATION Spec
INVARIANT NoLostIndex
