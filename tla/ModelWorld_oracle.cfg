\* The harness oracle: two clients and a bad client id against two rooms;
\* enough for one client to re-create a room another left.
CONSTANTS
    Clients = {c0, c1}
    Invalid = c9
    RoomIds = {r1, r2}
    MaxEpoch = 2
    MaxMsgs = 1
SPECIFICATION Spec
INVARIANT TypeOK
INVARIANT MembershipAgreement
