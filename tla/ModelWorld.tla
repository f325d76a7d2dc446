----------------------------- MODULE ModelWorld -----------------------------
(***************************************************************************)
(* The reference model of lockframe-harness (src/model): ModelWorld, its  *)
(* ModelClients and its ModelServer, against which model_based_test.rs     *)
(* compares the real clients.  ModelWorld::apply is the only entry point;  *)
(* apply_add_member and apply_remove_member are never called from it and   *)
(* are not actions here.                                                   *)
(*                                                                         *)
(* ModelServer (model/server.rs) is declared in model/mod.rs but is not in *)
(* the tree: its operations are modelled from their uses and the spec.     *)
(* The delivery loop of apply_send_message (world.rs:168-178) stands      *)
(* outside any function, so no client ever receives a message and a      *)
(* ModelRoomState is just its epoch.                                       *)
(***************************************************************************)
EXTENDS Integers, Sequences

CONSTANTS
    Clients,   \* ClientId values 0 .. num_clients-1
    Invalid,   \* a ClientId past num_clients
    RoomIds,   \* ModelRoomId values
    MaxEpoch,  \* bound: epochs a room's server state reaches
    MaxMsgs    \* bound: messages the server sequences per room

\* OperationResult: Ok, or one of the OperationError values.
Results == {"Ok", "RoomAlreadyExists", "RoomNotFound", "NotMember", "InvalidClient"}

\* ModelClient.rooms has no entry for the room.
NotJoined == -1

NoServerRoom == [exists |-> FALSE, epoch |-> 0, members |-> {}, msgs |-> <<>>]

VARIABLES
    clients,  \* ModelClient.rooms: client -> room -> epoch, or NotJoined
    server,   \* ModelServer: room -> existence, epoch, members, messages
    result    \* the OperationResult of the last apply

vars == <<clients, server, result>>

-----------------------------------------------------------------------------
(* ModelServer, modelled from its uses in world.rs and spec 4.5.2.         *)

\* create_room(room, creator): RoomAlreadyExists for a known room.
SrvCreateRoom(s, r) ==
    IF s[r].exists THEN s ELSE [s EXCEPT ![r] = [NoServerRoom EXCEPT !.exists = TRUE]]

SrvAddMember(s, r, c) == [s EXCEPT ![r].members = @ \cup {c}]

SrvRemoveMember(s, r, c) == [s EXCEPT ![r].members = @ \ {c}]

SrvAdvanceEpoch(s, r) == IF s[r].exists THEN [s EXCEPT ![r].epoch = @ + 1] ELSE s

\* process_message(room, sender, content): the message gets the next
\* log index if the room exists and the sender is a member.
SrvProcessMessage(s, r, c) ==
    IF ~s[r].exists THEN [srv |-> s, res |-> "RoomNotFound"]
    ELSE IF c \notin s[r].members THEN [srv |-> s, res |-> "NotMember"]
    ELSE [srv |-> [s EXCEPT ![r].msgs = Append(@, [sender |-> c, log_index |-> Len(@)])],
          res |-> "Ok"]

-----------------------------------------------------------------------------
(* ModelClient (model/client.rs).                                          *)

IsMember(c, r) == clients[c][r] # NotJoined

\* ModelClient::create_room on a room it does not hold: a fresh
\* ModelRoomState at epoch 0 (RoomAlreadyExists is IsMember's case).
ClientCreateRoom(cl, c, r) == [cl EXCEPT ![c][r] = 0]

\* ModelClient::leave_room on a room it holds: the entry is removed
\* (NotMember is ~IsMember's case).
ClientLeaveRoom(cl, c, r) == [cl EXCEPT ![c][r] = NotJoined]

\* advance_epoch for every client that is a member of the room.
AdvanceMemberEpochs(cl, r) ==
    [d \in Clients |-> IF cl[d][r] # NotJoined THEN [cl[d] EXCEPT ![r] = @ + 1] ELSE cl[d]]

-----------------------------------------------------------------------------
Init ==
    /\ clients = [c \in Clients |-> [r \in RoomIds |-> NotJoined]]
    /\ server = [r \in RoomIds |-> NoServerRoom]
    /\ result = "Ok"

Fail(e) == result' = e /\ UNCHANGED <<clients, server>>

\* Mutant: the server's create_room error is returned, not ignored, so a
\* second creator of a room is never added to it.
CreateRoomServerError(c, r) ==
    \/ c = Invalid /\ Fail("InvalidClient")
    \/ c # Invalid /\ IsMember(c, r) /\ Fail("RoomAlreadyExists")
    \/ /\ c # Invalid /\ ~IsMember(c, r)
       /\ clients' = ClientCreateRoom(clients, c, r)
       /\ server' = IF server[r].exists THEN server
                    ELSE SrvAddMember(SrvCreateRoom(server, r), r, c)
       /\ result' = IF server[r].exists THEN "RoomAlreadyExists" ELSE "Ok"

\* apply_create_room: ModelClient::create_room, then the server's
\* create_room (its error ignored) and add_member.
CreateRoom(c, r) ==
    \/ c = Invalid /\ Fail("InvalidClient")
    \/ c # Invalid /\ IsMember(c, r) /\ Fail("RoomAlreadyExists")
    \/ /\ c # Invalid /\ ~IsMember(c, r)
       /\ clients' = ClientCreateRoom(clients, c, r)
       /\ server' = SrvAddMember(SrvCreateRoom(server, r), r, c)
       /\ result' = "Ok"

\* apply_send_message: the client must be a member, then the server's
\* process_message decides.
SendMessage(c, r) ==
    \/ c = Invalid /\ Fail("InvalidClient")
    \/ c # Invalid /\ ~IsMember(c, r) /\ Fail("NotMember")
    \/ LET out == SrvProcessMessage(server, r, c) IN
       /\ c # Invalid /\ IsMember(c, r)
       /\ Len(server[r].msgs) < MaxMsgs
       /\ server' = out.srv
       /\ result' = out.res
       /\ UNCHANGED clients

\* Mutant: a failed leave still advances the server's epoch, as if
\* advance_epoch ran before leave_room's NotMember check.
LeaveRoomAdvanceFirst(c, r) ==
    \/ c = Invalid /\ Fail("InvalidClient")
    \/ /\ c # Invalid /\ ~IsMember(c, r)
       /\ server' = SrvAdvanceEpoch(server, r)
       /\ result' = "NotMember"
       /\ UNCHANGED clients
    \/ /\ c # Invalid /\ IsMember(c, r)
       /\ server[r].epoch < MaxEpoch
       /\ clients' = AdvanceMemberEpochs(ClientLeaveRoom(clients, c, r), r)
       /\ server' = SrvAdvanceEpoch(SrvRemoveMember(server, r, c), r)
       /\ result' = "Ok"

\* apply_leave_room: ModelClient::leave_room, then the server removes the
\* member and advances the epoch, and every remaining member advances too.
LeaveRoom(c, r) ==
    \/ c = Invalid /\ Fail("InvalidClient")
    \/ c # Invalid /\ ~IsMember(c, r) /\ Fail("NotMember")
    \/ /\ c # Invalid /\ IsMember(c, r)
       /\ server[r].epoch < MaxEpoch
       /\ clients' = AdvanceMemberEpochs(ClientLeaveRoom(clients, c, r), r)
       /\ server' = SrvAdvanceEpoch(SrvRemoveMember(server, r, c), r)
       /\ result' = "Ok"

\* AdvanceTime and DeliverPending: the model delivers instantly.
NoOp == Fail("Ok")

Next ==
    \/ \E c \in Clients \cup {Invalid}, r \in RoomIds :
         CreateRoom(c, r) \/ SendMessage(c, r) \/ LeaveRoom(c, r)
    \/ NoOp

Spec == Init /\ [][Next]_vars

-----------------------------------------------------------------------------
TypeOK ==
    /\ clients \in [Clients -> [RoomIds -> {NotJoined} \cup 0..MaxEpoch]]
    /\ \A r \in RoomIds :
         /\ server[r].exists \in BOOLEAN
         /\ server[r].epoch \in 0..MaxEpoch
         /\ server[r].members \subseteq Clients
         /\ Len(server[r].msgs) <= MaxMsgs
    /\ result \in Results

\* The oracle's two views of membership agree: a ModelClient holds a room
\* exactly when the ModelServer lists it as a member, so
\* apply_send_message's client-side check and process_message's
\* server-side check give the same answer, across creations by several
\* clients of one room id and leaves.
MembershipAgreement ==
    \A c \in Clients, r \in RoomIds : IsMember(c, r) <=> c \in server[r].members
=============================================================================
