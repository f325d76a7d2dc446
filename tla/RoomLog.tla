------------------------------ MODULE RoomLog ------------------------------
(***************************************************************************)
(* What the server promises about a room's log (spec 4.5.2 total ordering *)
(* guarantee, spec 8.3): rooms, once created, stay; each room has one      *)
(* log that only ever grows at its end; and a frame joins it only at the   *)
(* epoch the log has reached, which every Commit in the log advances by    *)
(* one.  Nothing is said about when a frame joins or which frames are      *)
(* refused.  RoomManager's persisted log is shown to implement this.       *)
(***************************************************************************)
EXTENDS Naturals, Sequences

CONSTANTS
    Rooms,   \* room ids
    Frames   \* frames, each carrying room, epoch and op

VARIABLES
    rooms,   \* rooms that exist
    log      \* room -> the sequence of frames in the room's log

\* The epoch a log has reached: the number of Commits in it.
LogEpoch(l) == Len(SelectSeq(l, LAMBDA f : f.op = "Commit"))

Init ==
    /\ rooms = {}
    /\ log = [r \in Rooms |-> <<>>]

Create(r) ==
    /\ r \notin rooms
    /\ rooms' = rooms \cup {r}
    /\ UNCHANGED log

\* Room r's log grows by one frame, of room r, at the room's current
\* epoch; every other log stays as it is.
Sequence(r) ==
    LET n == Len(log[r])
        f == log'[r][n + 1]
    IN
    /\ r \in rooms
    /\ Len(log'[r]) = n + 1
    /\ SubSeq(log'[r], 1, n) = log[r]
    /\ f \in Frames /\ f.room = r /\ f.epoch = LogEpoch(log[r])
    /\ \A q \in Rooms \ {r} : log'[q] = log[q]
    /\ UNCHANGED rooms

Next == \E r \in Rooms : Create(r) \/ Sequence(r)

Spec == Init /\ [][Next]_<<rooms, log>>
=============================================================================
