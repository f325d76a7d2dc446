------------------------------- MODULE Client -------------------------------
(***************************************************************************)
(* The client state machine (kalandra-client/src/client.rs) for one room, *)
(* talking to the server over one stream: the frames it sends are          *)
(* validated and sequenced in order, and the ordered copies of the room's  *)
(* log come back to it (spec 4.5.2 step 5: exclude_sender = false).        *)
(*                                                                         *)
(* The server is the serialised sequencer the driver is meant to be: it   *)
(* accepts a frame at its current epoch and merges an accepted Commit.     *)
(* Its interleavings are the subject of RoomManager.tla.                   *)
(*                                                                         *)
(* A client's room is an MLS group it created (JoinRoom and Welcome are    *)
(* not implemented), so the only chain in its SenderKeyStore is its own    *)
(* leaf's, shared by encrypt and decrypt.  Each CreateRoom makes a group   *)
(* with fresh secrets, told apart by an incarnation number.                *)
(***************************************************************************)
EXTENDS Naturals, Sequences

Seqs == INSTANCE SequencesExt

CONSTANTS
    MaxSends,        \* bound: frames the client sends
    MaxIncarnations  \* bound: CreateRoom calls that succeed

Ops == {"AppMessage", "Commit", "Welcome"}

\* A frame as the client builds it: header epoch, and for an AppMessage the
\* EncryptedMessage generation and the group whose secret encrypted it.
Frame == [op : Ops, epoch : Nat, gen : Nat, inc : Nat]

NoRoom == [present |-> FALSE]

Errors == {"none", "RoomAlreadyExists", "RoomNotFound", "EpochMismatch",
           "SenderKey", "Mls", "InvalidState"}

VARIABLES
    room,       \* Client.rooms[room_id]: MLS epoch, pending commit, own chain
    incs,       \* CreateRoom calls that succeeded so far
    outbox,     \* frames sent and not yet read by the server (one stream)
    slog,       \* the server's sequenced log of the room
    sEpoch,     \* the server's group epoch
    cursor,     \* ordered copies of the log the client has handled
    lastError,  \* the error of the client's last handle() call
    sent,       \* history: every frame the client sent, in order
    delivered   \* history: DeliverMessage actions the client emitted

vars == <<room, incs, outbox, slog, sEpoch, cursor, lastError, sent, delivered>>

-----------------------------------------------------------------------------
\* SenderKeyStore::initialize_epoch for the group's members: the creator's
\* own leaf chain at generation 0.
InitializeSenderKeys(epoch, inc) ==
    [present |-> TRUE, epoch |-> epoch, pending |-> FALSE, next |-> 0, inc |-> inc]

\* SenderKeyStore::decrypt on the own leaf's chain: the message key exists
\* only for a generation the chain has not passed, and only under the
\* secret of the same group.
Decryptable(r, f) == f.inc = r.inc /\ f.gen >= r.next

\* Mutant: encryption that ratchets the chain twice.
EncryptTwice(r) == [r EXCEPT !.next = @ + 2]

\* SenderKeyStore::encrypt with the own leaf: the message uses generation
\* r.next and the chain moves past it.
Encrypt(r) == [r EXCEPT !.next = @ + 1]

\* MlsGroup::process_message on a Commit.  The only commits in a room the
\* client created are its own; MLS finalises those with
\* merge_pending_commit, and process_message refuses them.
ProcessCommitMessage(r, f) == [ok |-> FALSE, room |-> r]

-----------------------------------------------------------------------------
(* The AppMessage payload codec (serialize_encrypted_message and          *)
(* deserialize_encrypted_message).  A payload is a sequence of bytes;      *)
(* Bytes(d, a, b) is the Rust slice d[a..b].  The frames of this model     *)
(* carry the decoded EncryptedMessage fields; CodecRoundTrip is what lets  *)
(* ReceiveFrame read them back unchanged.                                  *)

RECURSIVE BigEndian(_, _)
\* n.to_be_bytes() for an integer of w bytes.
BigEndian(n, w) == IF w = 0 THEN <<>> ELSE BigEndian(n \div 256, w - 1) \o <<n % 256>>

\* u32::from_be_bytes / u64::from_be_bytes.
FromBigEndian(b) == Seqs!FoldLeft(LAMBDA acc, x : acc * 256 + x, 0, b)

Bytes(d, a, b) == SubSeq(d, a + 1, b)

\* epoch (8) | sender_index (4) | generation (4) | nonce (24) |
\* ciphertext length (4) | ciphertext.
SerializeEncryptedMessage(m) ==
    BigEndian(m.epoch, 8) \o BigEndian(m.sender_index, 4) \o BigEndian(m.generation, 4)
      \o m.nonce \o BigEndian(Len(m.ciphertext), 4) \o m.ciphertext

\* Mutant: the truncation check is off by one and refuses a payload that
\* ends exactly at its ciphertext.
DeserializeEncryptedMessageOffByOne(d) ==
    IF Len(d) < 44 THEN [ok |-> FALSE]
    ELSE LET n == FromBigEndian(Bytes(d, 40, 44)) IN
         IF Len(d) <= 44 + n THEN [ok |-> FALSE]
         ELSE [ok |-> TRUE,
               msg |-> [epoch |-> FromBigEndian(Bytes(d, 0, 8)),
                        sender_index |-> FromBigEndian(Bytes(d, 8, 12)),
                        generation |-> FromBigEndian(Bytes(d, 12, 16)),
                        nonce |-> Bytes(d, 16, 40),
                        ciphertext |-> Bytes(d, 44, 44 + n)]]

\* "Frame too short" below 44 bytes, "Truncated ciphertext" when the
\* length field runs past the end; bytes after the ciphertext are ignored.
DeserializeEncryptedMessage(d) ==
    IF Len(d) < 44 THEN [ok |-> FALSE]
    ELSE LET n == FromBigEndian(Bytes(d, 40, 44)) IN
         IF Len(d) < 44 + n THEN [ok |-> FALSE]
         ELSE [ok |-> TRUE,
               msg |-> [epoch |-> FromBigEndian(Bytes(d, 0, 8)),
                        sender_index |-> FromBigEndian(Bytes(d, 8, 12)),
                        generation |-> FromBigEndian(Bytes(d, 12, 16)),
                        nonce |-> Bytes(d, 16, 40),
                        ciphertext |-> Bytes(d, 44, 44 + n)]]

\* Messages for the codec check: fields that cross byte boundaries, the
\* largest generation TLC's integers hold, and an empty and a non-empty
\* ciphertext.
CodecSamples ==
    [epoch : {0, 258}, sender_index : {0, 65537}, generation : {1, 2147483647},
     nonce : {[i \in 1..24 |-> i]}, ciphertext : {<<>>, <<171, 0, 205>>}]

\* The EncryptedMessage behind an AppMessage the client sent, from the
\* own leaf (index 0 of a group it created); nonce and ciphertext are
\* fixed bytes (a 16-byte tag: the plaintext is abstracted away).
EncryptedOf(f) ==
    [epoch |-> f.epoch, sender_index |-> 0, generation |-> f.gen,
     nonce |-> [i \in 1..24 |-> 0], ciphertext |-> [i \in 1..16 |-> 255]]

-----------------------------------------------------------------------------
Init ==
    /\ room = NoRoom
    /\ incs = 0
    /\ outbox = <<>>
    /\ slog = <<>>
    /\ sEpoch = 0
    /\ cursor = 0
    /\ lastError = "none"
    /\ sent = <<>>
    /\ delivered = <<>>

Fail(e) ==
    /\ lastError' = e
    /\ UNCHANGED <<room, incs, outbox, slog, sEpoch, cursor, sent, delivered>>

\* handle_create_room: a new group at epoch 0 and its sender keys.
CreateRoom ==
    \/ room.present /\ Fail("RoomAlreadyExists")
    \/ /\ ~room.present
       /\ incs < MaxIncarnations
       /\ room' = InitializeSenderKeys(0, incs + 1)
       /\ incs' = incs + 1
       /\ lastError' = "none"
       /\ UNCHANGED <<outbox, slog, sEpoch, cursor, sent, delivered>>

\* handle_send_message: encrypt with the own chain (advancing it) and send
\* an AppMessage at the group's epoch.
SendMessage ==
    \/ ~room.present /\ Fail("RoomNotFound")
    \/ LET f == [op |-> "AppMessage", epoch |-> room.epoch, gen |-> room.next,
                 inc |-> room.inc]
       IN
       /\ room.present
       /\ Len(sent) < MaxSends
       /\ room' = Encrypt(room)
       /\ outbox' = Append(outbox, f)
       /\ sent' = Append(sent, f)
       /\ lastError' = "none"
       /\ UNCHANGED <<incs, slog, sEpoch, cursor, delivered>>

\* handle_add_members: MLS stages a commit and yields SendCommit and one
\* SendWelcome; a group with a commit pending refuses another.
AddMembers ==
    \/ ~room.present /\ Fail("RoomNotFound")
    \/ room.present /\ room.pending /\ Fail("Mls")
    \/ LET commit  == [op |-> "Commit", epoch |-> room.epoch, gen |-> 0, inc |-> room.inc]
           welcome == [op |-> "Welcome", epoch |-> room.epoch, gen |-> 0, inc |-> room.inc]
       IN
       /\ room.present /\ ~room.pending
       /\ Len(sent) + 2 <= MaxSends
       /\ room' = [room EXCEPT !.pending = TRUE]
       /\ outbox' = outbox \o <<commit, welcome>>
       /\ sent' = sent \o <<commit, welcome>>
       /\ lastError' = "none"
       /\ UNCHANGED <<incs, slog, sEpoch, cursor, delivered>>

\* handle_leave_room: the local state is dropped; nothing is sent.
LeaveRoom ==
    \/ ~room.present /\ Fail("RoomNotFound")
    \/ /\ room.present
       /\ room' = NoRoom
       /\ lastError' = "none"
       /\ UNCHANGED <<incs, outbox, slog, sEpoch, cursor, sent, delivered>>

\* handle_join_room: not implemented.
JoinRoom == Fail("InvalidState")

\* handle_tick: commit timeouts and heartbeats are a TODO; it returns no
\* actions and changes nothing.
Tick == Fail("none")

\* handle_frame on the next ordered copy of the log, dispatched on opcode
\* to handle_app_message, handle_commit or handle_welcome.
ReceiveFrame ==
    LET k == cursor + 1
        f == slog[k]
        Outcome(e) ==
            /\ lastError' = e
            /\ UNCHANGED <<room, delivered>>
    IN
    /\ cursor < Len(slog)
    /\ cursor' = k
    /\ \/ f.op = "Welcome" /\ Outcome("InvalidState")
       \/ f.op # "Welcome" /\ ~room.present /\ Outcome("RoomNotFound")
       \/ /\ f.op = "AppMessage" /\ room.present
          /\ f.epoch # room.epoch
          /\ Outcome("EpochMismatch")
       \/ /\ f.op = "AppMessage" /\ room.present
          /\ f.epoch = room.epoch
          /\ IF Decryptable(room, f)
               THEN /\ room' = [room EXCEPT !.next = f.gen + 1]
                    /\ delivered' = Append(delivered, k)
                    /\ lastError' = "none"
               ELSE Outcome("SenderKey")
       \/ LET res == ProcessCommitMessage(room, f) IN
          /\ f.op = "Commit" /\ room.present
          /\ IF res.ok
               THEN /\ room' = InitializeSenderKeys(res.room.epoch, room.inc)
                    /\ lastError' = "none"
                    /\ UNCHANGED delivered
               ELSE Outcome("Mls")
    /\ UNCHANGED <<incs, outbox, slog, sEpoch, sent>>

\* The server reads the next frame of the stream: it is sequenced if its
\* epoch is the group's (a Commit then advances the group), and otherwise
\* rejected with InvalidEpoch, which handle_stream only logs.
ServerProcess ==
    LET f == Head(outbox) IN
    /\ outbox # <<>>
    /\ outbox' = Tail(outbox)
    /\ \/ /\ f.epoch = sEpoch
          /\ slog' = Append(slog, f)
          /\ sEpoch' = IF f.op = "Commit" THEN sEpoch + 1 ELSE sEpoch
       \/ /\ f.epoch # sEpoch
          /\ UNCHANGED <<slog, sEpoch>>
    /\ UNCHANGED <<room, incs, cursor, lastError, sent, delivered>>

Next ==
    \/ CreateRoom
    \/ SendMessage
    \/ AddMembers
    \/ LeaveRoom
    \/ JoinRoom
    \/ Tick
    \/ ReceiveFrame
    \/ ServerProcess

Spec == Init /\ [][Next]_vars

-----------------------------------------------------------------------------
TypeOK ==
    /\ room = NoRoom \/ room \in [present : {TRUE}, epoch : Nat, pending : BOOLEAN,
                                    next : Nat, inc : 1..MaxIncarnations]
    /\ incs \in 0..MaxIncarnations
    /\ cursor \in 0..Len(slog)
    /\ lastError \in Errors
    /\ Len(sent) <= MaxSends
    /\ \A k \in DOMAIN sent :
         sent[k] \in [op : Ops, epoch : 0..MaxSends, gen : 0..(MaxSends - 1),
                      inc : 1..MaxIncarnations]
    /\ \A k \in DOMAIN delivered : delivered[k] \in 1..cursor

\* Spec 5: a client observing the log catches up with every commit in it;
\* once it has handled the whole log of its group, handle_commit has
\* brought it to the server's epoch.
ClientFollowsCommits ==
    (/\ room.present /\ cursor = Len(slog)
     /\ \A k \in DOMAIN slog : slog[k].inc = room.inc)
      => room.epoch = sEpoch

\* The payload handle_send_message builds is read back by
\* handle_app_message as the very EncryptedMessage that was encrypted, and
\* every proper prefix of it (a truncated frame) is refused rather than
\* decoded into a different message.
CodecRoundTrip ==
    \A m \in CodecSamples \cup {EncryptedOf(sent[k]) : k \in {j \in DOMAIN sent : sent[j].op = "AppMessage"}} :
      LET d == SerializeEncryptedMessage(m) IN
      /\ DeserializeEncryptedMessage(d) = [ok |-> TRUE, msg |-> m]
      /\ \A k \in 0..(Len(d) - 1) : ~DeserializeEncryptedMessage(SubSeq(d, 1, k)).ok
=============================================================================
