# Model checking Kalandra

TLA+ models of the Kalandra group-messaging system (`src/crates/...`), checked with TLC.
Kalandra is built from sans-I/O state machines. The server's `RoomManager` turns
a frame into a list of actions. The client's `Client::handle` turns an event into
a list of actions. Async drivers execute those actions. The models keep every
state change, guard and error path of those state machines and of the driver code
that interleaves them. Payloads, cryptography and encodings are abstracted to the
few facts the properties distinguish.

## The system

| Part | Code | State | Operations |
|---|---|---|---|
| RoomManager | `kalandra-server/src/room_manager.rs` | `groups` (MLS group per room), `room_metadata`, the `Sequencer` | `create_room`, `add_members`, `remove_members`, `leave_room`, `process_frame`, `handle_sync_request` |
| Server driver | `kalandra-server/src/lib.rs` | one tokio task per connection and per bi-stream, sharing `Arc<Mutex<ServerDriver>>` | `Server::run`, `handle_connection` (ConnectionAccepted, accept_bi loop, ConnectionClosed), `handle_stream` (lock, `process_event`, unlock; lock, `execute_actions`, unlock), `execute_actions` |
| Sequencer, Storage, MLS group | `kalandra-core` (not in `src/`, modelled from `spec.md`) | next log index per room; per-room frame log with compare-and-set on the index; stored MLS state; group epoch, members and pending commit | `Sequencer::process_frame`, `store_frame`, `store_mls_state`, `load_mls_state`, `merge_pending_commit`, `process_message`, `export_group_state` |
| Client | `kalandra-client/src/client.rs`, `error.rs` | rooms (MLS group, sender-key store) | `CreateRoom`, `SendMessage`, `FrameReceived` (app message, commit, welcome), `JoinRoom`, `AddMembers`, `LeaveRoom`, `Tick` |
| Sync | `room_manager.rs:361-403`, `lockframe-proto/src/payloads/session.rs` | (stateless on the server) | `handle_sync_request`, which computes `has_more` |
| Binary and environment | `main.rs`, `system_env.rs`, `error.rs`, `lockframe-core/src/env.rs` | none | argument parsing, clock, randomness, error formatting |
| Harness oracle | `lockframe-harness/src/model` (`world.rs`, `client.rs`, `operation.rs`) | `ModelWorld`: model clients and a model server | `ModelWorld::apply` (`CreateRoom`, `SendMessage`, `LeaveRoom`, `AdvanceTime`, `DeliverPending`) |
| Simulation and fuzzing | the rest of `lockframe-harness`, `sunder-harness`, `fuzz/` | test code | real-client drivers and fuzz invariants |

How the parts interact. A client writes a frame on a QUIC bi-stream. The stream's
task locks the driver and runs `RoomManager::process_frame`:

1. the room must exist;
2. the MLS state is loaded from Storage, and the epoch and membership are checked;
3. the Sequencer assigns the next log index;
4. signatures are checked;
5. the result becomes `PersistFrame` and `Broadcast` actions, plus `PersistMlsState` for a Commit, after the server merges the commit into its group.

The task then **releases the lock** and takes it again to execute the actions
against Storage. Another stream's task can run in between.

## Modules

### `RoomManager.tla` (with `MCRoomManager.tla`)

The server side: the RoomManager together with the Sequencer, Storage and MLS group it drives,
executed by concurrent stream tasks.

* State: `groups` (room → epoch, members, pending commit), `roomMetadata` (room →
  creator), `nextIndex` (the sequencer's cache), `store` (per-room log of
  `[idx, frame]`), `mlsStore` (stored MLS state), and `task`, the actions a stream
  task holds between its two critical sections. It also keeps the history
  variables `assigned` and `memberHistory`, which properties read, and `bcast`,
  the broadcasts `execute_actions` logs, which only traces show.
* Actions:
  * `CreateRoom` is `create_room`.
  * `AddMembers` and `RemoveMembers` are `add_members` and `remove_members`. Each
    stages a commit in the group. No driver path calls them. They are the API
    that tests and a future driver use, so they stay in `Next`.
  * `ProcessFrame` is `handle_stream`'s first critical section, i.e. all of
    `process_frame`: the room check, `validate_frame_basic`, sequencing,
    `validate_sequenced_actions_signatures`, action conversion and the commit merge
    with its export. On an error the task logs and goes to its next frame, as the
    `continue` at `lib.rs:243` does.
  * `ExecuteActions` is the second critical section, `execute_actions`. It folds
    `ApplyAction` over the held actions. Storage errors are logged and skipped.
* Omitted checks: `validate_frame_basic`'s `member_key` check (`room_manager.rs:180-187`)
  is left out. The stored state is the group's export, which holds a key for every
  member, so the check passes for every member the model has. The sequencer's
  `RejectFrame` output is not modelled either, because process_frame's own checks
  come first.
* Data: a frame is `[room, sender, epoch, op, sig, change]`. `sig` says whether its
  MLS signature verifies. `change` is the add or remove a Commit carries.
* Fairness: weak fairness on each task's `ExecuteActions`. A task holding actions
  only waits for the tokio mutex, which is fair (FIFO). Frame arrival and
  server-staged commits are the environment's and get no fairness.

### `RoomLog.tla`: the abstract room log

What the server promises about a room (spec 4.5.2's total-ordering guarantee and
spec 8.3). Rooms, once created, stay. Each room's log only grows at its end, one
frame at a time. A frame joins at the epoch the log has reached, which each Commit
in the log advances by one. Nothing is said about which frames are refused or when.

`RoomManager.tla` ends with the refinement mapping:

* `rooms` is `DOMAIN groups`;
* `log` is `PersistedLog`, the frames of `store` in index order;
* `Frames` is `Frame`.

`RoomLogRefined == Abstract!Spec` is checked as a temporal property in
`rm_concurrent`. Every RoomManager step is then a `Create`, a `Sequence` or a
stutter of the abstract log, even with two stream tasks interleaving between
their critical sections.

### `Sync.tla`

The catch-up loop of one room: `handle_sync_request` (`room_manager.rs:361-403`)
answering the paged `SyncRequest` / `SyncResponse` exchange that
`payloads/session.rs` documents, while the sequencer keeps persisting frames.

* State: `stored` (frames in Storage), the client's `have` and `phase`, the
  request and response in flight, and the history variable `target` (the log size
  when the server last said `has_more = false`).
* Actions: `PersistFrame`, `SendSyncRequest(limit)`, `HandleSyncRequest`
  (`load_frames`, `latest_log_index`, the `saturating_sub(1)` of an empty batch and
  the `has_more` comparison), `ReceiveSyncResponse` (next request from the last
  frame + 1 while `has_more`).
* Fairness: weak fairness on `HandleSyncRequest` and `ReceiveSyncResponse`. The
  server answers every request it reads and the client reads every response it
  gets. New syncs and new frames are the environment's.

### `Client.tla`

The client state machine (`kalandra-client/src/client.rs`) for one room, talking
to a serial server that sequences a frame when its epoch is the group's and merges
a sequenced Commit.

* State: `room` (the `RoomState`: epoch, pending commit, own sender-key chain, and
  which `CreateRoom` made the group), `outbox`, the server's `slog` and `sEpoch`,
  the client's `cursor` into the ordered copies, `lastError`, and the histories
  `sent` and `delivered`.
* Actions: one per `ClientEvent` handler (`CreateRoom`, `SendMessage`,
  `AddMembers`, `LeaveRoom`, `JoinRoom`, `Tick`, the last a no-op as `handle_tick` is) plus `ReceiveFrame`, which dispatches to
  `handle_app_message`, `handle_commit` or `handle_welcome`, and `ServerProcess`.
* The MLS group and `SenderKeyStore` are modelled from the spec: a client only
  ever holds a group it created, so its only chain is its own leaf's.
* The AppMessage payload codec (`serialize_encrypted_message`,
  `deserialize_encrypted_message`) is a pair of operators over byte sequences:
  big-endian fields, the 44-byte header check and the truncated-ciphertext check.
  Frames carry the decoded fields. `CodecRoundTrip` is what justifies that:
  whatever the client sends decodes back unchanged, and every truncation of it is
  refused.

### `Connection.tla`

The connection and stream lifecycle of the production driver (`lib.rs:94-256`).

* State: `conn` (where each `handle_connection` task is), `peer` (whether the QUIC
  connection is up), `stream` (where each `handle_stream` task is and the opcode of
  the frame it read), `session` (the ServerDriver's session per connection: spec
  4.5.1's Init, Authenticated, Closed, plus "none" before ConnectionAccepted and
  "gone" after ConnectionClosed).
* Actions:
  * `Accept` is `Server::run`'s accept loop.
  * `Register`, `AcceptBi`, `AcceptBiFails` and `Unregister` are the steps of
    `handle_connection`.
  * `StreamReceive`, `StreamFinish`, `StreamReadError`, `StreamProcess` (Err means
    `continue`) and `StreamExecute` are the steps of `handle_stream`.
  * `PeerClose` is the peer or the transport ending the connection.
* `execute_actions` is assumed to succeed. It can fail only if `Frame::encode` does,
  and that code is not in `src/`. So the `?` at `lib.rs:156` and at `lib.rs:252` is
  not a disjunct (listed as a hazard). The `getrandom` failure at `lib.rs:146` ends the
  task before anything is registered, so `Register`'s refusal path covers it.
* Every critical section is one atomic step. The detached tasks interleave between
  them.
* Fairness: weak fairness on each task's own steps. These are the reactions to a
  closed transport and the critical sections on the fair tokio mutex. The peer's
  sends, stream finishes and disconnects get no fairness.
* Properties: `DisconnectCleansUp` (liveness, holds) and `SessionReleased` (liveness, violated). `SessionReleased` is spec 4.5.1's
  promise that a stuck or closed session ends. It fails under the same fairness,
  because nothing in the driver acts on a timeout or on `CloseConnection`.

### `ModelWorld.tla`

The reference model of the harness (`lockframe-harness/src/model`), which
`model_based_test.rs` compares the real clients with.

* State:
  * `clients` is each `ModelClient`'s rooms, reduced to the epoch;
  * `server` is the `ModelServer`: per room, whether it exists, its epoch, its members and its messages;
  * `result` is the last `OperationResult`.
* Actions: `CreateRoom`, `SendMessage` and `LeaveRoom` are the `apply_*` handlers
  with every early return. `NoOp` stands for `AdvanceTime` and `DeliverPending`.
  Invalid client ids come from the constant `Invalid`.
* `ModelServer` (`model/server.rs`) is declared in `model/mod.rs` but is missing
  from the tree. The `Srv*` operators model it from how `world.rs` calls it, and
  are marked spec-modelled.
* The delivery loop of `apply_send_message` (`world.rs:168-178`) stands outside any
  function. No client ever receives a message, so a `ModelRoomState`'s messages
  never change and are left out. `apply_add_member` and `apply_remove_member` are
  never called from `apply`, so they are not actions.

## Runs

| Run | Expect | Checks | Shows |
|---|---|---|---|
| `rm_serial` | pass | TypeOK, EpochConsistentLog, MlsStateCurrentWhenQuiescent | With one stream task and up to three commits, the frame pipeline is right: the log is epoch-consistent, and the stored MLS state follows the group. |
| `rm_concurrent` | pass | RoomLogRefined | With two tasks interleaving, the persisted log implements `RoomLog`: it grows only at its end, one frame at the room's epoch. The compare-and-set drops what arrives out of order. |
| `rm_lost_index_signature` | violation | NoLostIndex | A frame failing its signature check (or a peer commit MLS refuses) after sequencing keeps its index: a permanent hole in the log. |
| `rm_stale_mls_state` | violation | MlsStateCurrentWhenQuiescent | Two commits' `PersistMlsState` executed in the opposite order leave an old epoch's state in Storage. |
| `rm_non_member` | violation | OnlyMembersPersisted | Before any MLS state is stored, no membership check runs. |
| `rm_lost_index_concurrent` | violation | NoLostIndex | With two stream tasks and only valid frames, the later index can be executed first. Its `store_frame` conflicts and the index is lost, while the frame is still broadcast. Every later index then conflicts, so the room's log stops growing. |
| `sync_paging` | pass | TypeOK, SyncComplete, SyncTerminates | With limits 1 to 3 and a log growing to 7 frames, paging always ends and leaves the client with every frame the server had when it said `has_more = false`. |
| `client_basic` | pass | TypeOK, CodecRoundTrip | Over every client event, server ordering and rejection, and re-creation of the room, each AppMessage's payload, and boundary-value messages, decode back to what was encrypted, and no truncation decodes. |
| `client_own_commit` | violation | ClientFollowsCommits | The client's own sequenced Commit goes to `process_message`, which refuses it, so the client stays an epoch behind. |
| `conn_lifecycle` | pass | DisconnectCleansUp | Once a peer is gone, its connection is unregistered and every stream task of it ends. |
| `conn_session_released` | violation | SessionReleased | A connection whose peer stays up but never sends Hello keeps the only session slot for ever, so the other connection is refused. No Tick reaches the driver, and CloseConnection is only logged. |
| `world_oracle` | pass | TypeOK, MembershipAgreement | In the harness oracle, a model client holds a room exactly when the model server lists it as a member. This holds through re-creation of one room id by several clients, leaves, and invalid ids. |

The findings these violations support are listed in `PROJECT.json`. Disagreements that
have no run of their own are kept as hazards:

* Broadcasts leave in lock order rather than log order once two tasks interleave.
  With one task the order is the sequencer's, so no property of a passing run states it.
* A frame the server rejects is only logged and never answered with Reject.
* A stream task holding a decoded frame can take the lock after
  `ConnectionClosed`, so the driver sees a frame of a removed connection
  (`lib.rs:180`). `Connection` reaches this state, but what the driver does then is
  not in `src/`.
* `limit = 0` from index 0 on a one-frame log answers `has_more = false`. This is
  the `saturating_sub(1)` edge.
* In the oracle, a client that re-creates a room everyone has left starts at epoch
  0, while the model server's room keeps its advanced epoch.

Every property of a passing run has a mutant in `PROJECT.json`. The mutant is a
plausible bug in the mapped definition, and TLC finds it breaking that property.

### Bounds

`RoomManager`:

* one room;
* two members, so a commit can add or remove a second member;
* `MaxLog = 3` sequenced frames per room, and 4 in `rm_serial`;
* `MaxEpoch = 1`, so commits at epochs 0 and 1 happen. `rm_serial` and `rm_stale_mls_state` use 2, so three commits can follow one another.
  With these bounds `rm_serial` has 1.29 million distinct states and takes under two minutes.

Every interesting case needs at most three sequenced frames:

* a commit followed by a frame;
* two frames racing;
* commit, commit, commit for the stale state.

Two tasks are the least that interleave. `rm_concurrent` uses symmetry over members
and tasks (`MCRoomManager!Symmetric`). No definition names a particular member or
task. `RoomLogRefined` is a safety property, `Init` plus `[][Next]_vars` of
`RoomLog`, and no permutation of members or tasks changes its truth. So symmetry is
sound for it.

`Sync`:

* `MaxFrames = 7` and limits `{1, 2, 3}`, so batches are cut mid-log, at the end and
  past the end while frames are appended. A limit of 3 also lets one batch outrun
  two frames persisted during the paging (786 distinct states).

With limits `{0}`, TLC breaks `SyncComplete` in three steps. That run is not kept
(see the hazard at `room_manager.rs:389`).

`Client`:

* `MaxSends = 5`, enough for a commit, a welcome and messages on both sides of it;
* `MaxIncarnations = 2`, so a room is left and created again.

`Connection`:

* two connections with two streams each;
* one driver session at a time, so `ConnectionAccepted` is refused once.

The run is not checked for deadlock: once every connection has ended, the server
waits in `accept()` for ever.

`conn_session_released` uses two connections, one stream each, and one session slot.
This is the least that shows a stuck session keeping another connection out. The
peer's actions (frames, stream finish, disconnect) get no fairness there either. A
peer that keeps its connection up without finishing the handshake is exactly what
spec 4.5.1's timeouts exist for.

`ModelWorld`:

* two clients and one invalid id;
* two rooms;
* `MaxEpoch = 2`, so a room can be left twice and created again in between;
* `MaxMsgs = 1`.

This is enough for one client to re-create a room id another client created and
left, which is the case where the two views could part. The run has 17,718
distinct states.

## Plan

Done:

1. `RoomManager`.
2. `Sync`.
3. `Client`.
4. `Connection`.
5. `RoomLog` refinement, checked in `rm_concurrent`.
6. `ModelWorld`, the harness oracle.
7. The client's payload codec and `CodecRoundTrip`.

Next:

8. A run per open client hazard (generation reuse after re-creation, the own echo never decrypting), each of which needs a violation run.
9. A run for the server merging its own pending commit in place of a peer's (hazard `room_manager.rs:475`), once a driver path stages server commits.
10. A type invariant for `Connection`. Every step of the model stays inside its types, so no plausible bug breaks one, and none is kept.
11. Mutants of the type invariants and of `StoreFrame` that act on code-mapped definitions rather than on the spec-modelled Sequencer and Storage.

## Not modelled

* Cryptography (MLS, signatures, ratchet keys) is abstracted to flags and counters.
* Wire encoding (`Frame::encode`/`decode`, CBOR payloads) is a pure conversion that no property is about.
* `main.rs`, `system_env.rs` and the error types are I/O and formatting.
* The simulation world (`sunder-harness`) and the real-client harness drive code through I/O.
* The connection-state fuzzer (`fuzz/`) exercises `lockframe_core::connection`, which is not in `src/`.
* `leave_room` on the server only creates a proposal that nothing commits.
* The connection fuzzer's own loop (`fuzz/`) is a harness around that machine. A model of it would check the spec against itself.
* `server_epoch` in `SyncResponse` is left out of `Sync`. Nothing under `src/` calls `handle_sync_request`. Whether `ServerDriver`, which is not in `src/`, answers a sync inside the window where the epoch is stale cannot be told from the source (listed as a hazard).
* The harness's `observable_state` and the unused `apply_add_member`/`apply_remove_member` are not actions. `apply` never calls the last two, and `observable_state` only reads the state `ModelWorld` already has.
* `session.rs`'s Hello, HelloReply and Goodbye are data and `Debug` redaction. `system_env.rs` is clock and randomness I/O.
* A `System` module composing server and clients through broadcast. `execute_actions` never sends a broadcast: `BroadcastToRoom` only logs the sessions it would reach (`lib.rs:276-286`), so no frame of the server reaches a client. `Client` models the ordered copies as spec 4.5.2 describes them, not as the driver delivers them.
* `SendToSession`, `CloseConnection` and `Log` actions only write bytes or log. `Connection` records that `CloseConnection` leaves the transport open.
