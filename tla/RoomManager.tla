---------------------------- MODULE RoomManager ----------------------------
(***************************************************************************)
(* The server side of Kalandra: RoomManager (room_manager.rs), with the    *)
(* Sequencer, the Storage and the MLS group it drives, executed by the     *)
(* production driver tasks of kalandra-server/src/lib.rs.                  *)
(*                                                                         *)
(* Every QUIC stream is served by its own tokio task (handle_stream).  A   *)
(* task takes the driver mutex to run process_frame, RELEASES it, and      *)
(* takes it again to execute the returned actions.  A task is modelled by  *)
(* the list of actions it holds between those two critical sections.       *)
(*                                                                         *)
(* Data is abstracted: a frame is a record of the header fields the server *)
(* reads (room, sender, epoch, opcode), whether its MLS signature verifies,*)
(* and, for a Commit, the membership change it carries.  The MLS group is  *)
(* its epoch, its member set and the commit it has pending, if any.        *)
(***************************************************************************)
EXTENDS Naturals, Sequences, FiniteSets, SequencesExt, TLC

CONSTANTS
    Rooms,        \* room ids (u128)
    Members,      \* member / sender ids (u64)
    Tasks,        \* concurrent stream tasks of the driver
    InputFrames,  \* frames clients may put on a stream
    MaxLog,       \* bound: frames the sequencer assigns per room
    MaxEpoch      \* bound: largest epoch a frame header carries

Ops == {"AppMessage", "Commit", "Proposal"}

\* A membership change carried by a Commit (add_members / remove_members).
Changes == [kind : {"add", "remove"}, who : Members]
NoChange == [kind |-> "none"]

Frame == [room : Rooms, sender : Members, epoch : 0..MaxEpoch,
          op : Ops, sig : BOOLEAN, change : Changes \cup {NoChange}]

\* MlsGroupState as exported by the group and kept by Storage.
MlsState == [epoch : Nat, members : SUBSET Members]
NoState == [epoch |-> -1]

\* RoomAction values held by a task between its two critical sections.
Action ==
    [kind : {"PersistFrame"}, room : Rooms, idx : Nat, frame : Frame]
    \cup [kind : {"Broadcast"}, room : Rooms, idx : Nat]
    \cup [kind : {"PersistMlsState"}, room : Rooms, state : MlsState]

NotLoaded == -1

VARIABLES
    groups,        \* RoomManager.groups : room -> MLS group
    roomMetadata,  \* RoomManager.room_metadata : room -> creator
    nextIndex,     \* Sequencer: cached next log index per room
    store,         \* Storage: per-room frame log
    mlsStore,      \* Storage: per-room MLS state
    task,          \* actions a stream task holds after releasing the lock
    lastError,     \* the error a task last logged (lib.rs:244)
    assigned,      \* history: frames in the order the sequencer indexed them
    bcast,         \* history: log indices in the order execute_actions logged a broadcast
    memberHistory  \* history: the group's member set at each epoch

vars == <<groups, roomMetadata, nextIndex, store, mlsStore, task, lastError,
          assigned, bcast, memberHistory>>

Errors == {"none", "RoomNotFound", "InvalidEpoch", "NotMember",
           "SignatureRejected", "MlsProcessFailed"}

-----------------------------------------------------------------------------
(* MLS group: the external MlsGroup primitive (spec section 4.3).          *)

\* A change applies when it adds a non-member or removes a member.
CommitApplies(members, ch) ==
    \/ ch.kind = "add" /\ ch.who \notin members
    \/ ch.kind = "remove" /\ ch.who \in members

ApplyChange(members, ch) ==
    IF ch.kind = "add" THEN members \cup {ch.who} ELSE members \ {ch.who}

\* export_group_state()
ExportGroupState(g) == [epoch |-> g.epoch, members |-> g.members]

-----------------------------------------------------------------------------
(* Storage (MemoryStorage): compare-and-set append per room.               *)

\* Mutant: an append that does not compare the index with the log length.
StoreFrameNoCas(st, r, i, f) ==
    [st EXCEPT ![r] = Append(@, [idx |-> i, frame |-> f])]

\* store_frame(room, log_index, frame): Conflict unless log_index is next.
StoreFrame(st, r, i, f) ==
    IF i = Len(st[r]) THEN [st EXCEPT ![r] = Append(@, [idx |-> i, frame |-> f])]
    ELSE st

-----------------------------------------------------------------------------
(* RoomManager::validate_frame_basic: epoch, then membership against the   *)
(* MLS state loaded from Storage, or epoch 0 when none is stored.          *)
\* Mutant: the header epoch is not compared with the group epoch.
ValidateFrameBasicNoEpoch(f, g, st) ==
    IF st # NoState /\ f.sender \notin st.members THEN "NotMember"
    ELSE IF st = NoState /\ f.epoch # 0 THEN "InvalidEpoch"
    ELSE "none"

ValidateFrameBasic(f, g, st) ==
    IF f.epoch # g.epoch THEN "InvalidEpoch"
    ELSE IF st # NoState /\ f.sender \notin st.members THEN "NotMember"
    ELSE IF st = NoState /\ f.epoch # 0 THEN "InvalidEpoch"
    ELSE "none"

\* RoomManager::validate_sequenced_actions_signatures: only frames other
\* than Commit/Proposal/Welcome, and only when an MLS state is stored.
SignaturesValid(f, st) ==
    f.op \in {"Commit", "Proposal"} \/ st = NoState \/ f.sig

\* Mutant: the index loaded from Storage is one past the next free one.
SequencerIndexOffByOne(r) ==
    IF nextIndex[r] = NotLoaded THEN Len(store[r]) + 1 ELSE nextIndex[r]

\* The sequencer's index for room r: cached, or latest stored index + 1.
SequencerIndex(r) ==
    IF nextIndex[r] = NotLoaded THEN Len(store[r]) ELSE nextIndex[r]

\* Sequencer: index i is given to f and the cached next index advanced.
AssignIndex(r, i, f) ==
    /\ nextIndex' = [nextIndex EXCEPT ![r] = i + 1]
    /\ assigned' = [assigned EXCEPT ![r] = Append(@, [idx |-> i, frame |-> f])]

\* SequencerAction -> RoomAction conversion: AcceptFrame and StoreFrame
\* both become PersistFrame, BroadcastToRoom becomes Broadcast.
SequencedActions(r, i, f) ==
    << [kind |-> "PersistFrame", room |-> r, idx |-> i, frame |-> f],
       [kind |-> "PersistFrame", room |-> r, idx |-> i, frame |-> f],
       [kind |-> "Broadcast", room |-> r, idx |-> i] >>

\* Step 5 of process_frame: merge our pending commit if we have one,
\* otherwise process the sequenced peer commit.
MergeCommit(g, f) ==
    LET ch == IF g.pending # NoChange THEN g.pending ELSE f.change
    IN  [epoch |-> g.epoch + 1, members |-> ApplyChange(g.members, ch),
         pending |-> NoChange]

CommitProcessable(g, f) == g.pending # NoChange \/ CommitApplies(g.members, f.change)

-----------------------------------------------------------------------------
Init ==
    /\ groups = <<>>
    /\ roomMetadata = <<>>
    /\ nextIndex = [r \in Rooms |-> NotLoaded]
    /\ store = [r \in Rooms |-> <<>>]
    /\ mlsStore = [r \in Rooms |-> NoState]
    /\ task = [t \in Tasks |-> <<>>]
    /\ lastError = [t \in Tasks |-> "none"]
    /\ assigned = [r \in Rooms |-> <<>>]
    /\ bcast = [r \in Rooms |-> <<>>]
    /\ memberHistory = [r \in Rooms |-> <<>>]

\* RoomManager::create_room: new MLS group at epoch 0 with the creator.
CreateRoom(r, creator) ==
    /\ r \notin DOMAIN roomMetadata
    /\ groups' = groups @@ (r :> [epoch |-> 0, members |-> {creator},
                                  pending |-> NoChange])
    /\ roomMetadata' = roomMetadata @@ (r :> creator)
    /\ memberHistory' = [memberHistory EXCEPT ![r] = <<{creator}>>]
    /\ UNCHANGED <<nextIndex, store, mlsStore, task, lastError, assigned, bcast>>

\* RoomManager::add_members / remove_members: the group stages a commit.
\* The group refuses a second commit while one is pending, and refuses to
\* remove its own member (use leave_room).
StageCommit(r, ch) ==
    /\ r \in DOMAIN groups
    /\ groups[r].pending = NoChange
    /\ CommitApplies(groups[r].members, ch)
    /\ ch.kind = "remove" => ch.who # roomMetadata[r]
    /\ groups' = [groups EXCEPT ![r].pending = ch]
    /\ UNCHANGED <<roomMetadata, nextIndex, store, mlsStore, task, lastError,
                   assigned, bcast, memberHistory>>

AddMembers(r, m) == StageCommit(r, [kind |-> "add", who |-> m])
RemoveMembers(r, m) == StageCommit(r, [kind |-> "remove", who |-> m])

\* handle_stream: a frame read from a stream is processed under the lock
\* (RoomManager::process_frame).  On error the task logs and goes on to
\* the next frame; on success it holds the actions until it gets the lock
\* again.
ProcessFrame(t, f) ==
    LET r == f.room IN
    /\ task[t] = <<>>
    /\ \/ /\ r \notin DOMAIN groups
          /\ lastError' = [lastError EXCEPT ![t] = "RoomNotFound"]
          /\ UNCHANGED <<groups, nextIndex, task, assigned, memberHistory>>
       \/ /\ r \in DOMAIN groups
          /\ ValidateFrameBasic(f, groups[r], mlsStore[r]) # "none"
          /\ lastError' = [lastError EXCEPT
                ![t] = ValidateFrameBasic(f, groups[r], mlsStore[r])]
          /\ UNCHANGED <<groups, nextIndex, task, assigned, memberHistory>>
       \/ LET g == groups[r]
              i == SequencerIndex(r)
          IN
          /\ r \in DOMAIN groups
          /\ ValidateFrameBasic(f, g, mlsStore[r]) = "none"
          /\ Len(assigned[r]) < MaxLog
          \* the sequencer has assigned index i before anything below
          /\ AssignIndex(r, i, f)
          /\ \/ /\ ~SignaturesValid(f, mlsStore[r])
                /\ lastError' = [lastError EXCEPT ![t] = "SignatureRejected"]
                /\ UNCHANGED <<groups, task, memberHistory>>
             \/ /\ SignaturesValid(f, mlsStore[r])
                /\ f.op = "Commit"
                /\ ~CommitProcessable(g, f)
                /\ lastError' = [lastError EXCEPT ![t] = "MlsProcessFailed"]
                /\ UNCHANGED <<groups, task, memberHistory>>
             \/ /\ SignaturesValid(f, mlsStore[r])
                /\ f.op # "Commit"
                /\ task' = [task EXCEPT ![t] = SequencedActions(r, i, f)]
                /\ lastError' = [lastError EXCEPT ![t] = "none"]
                /\ UNCHANGED <<groups, memberHistory>>
             \/ LET g2 == MergeCommit(g, f) IN
                /\ f.op = "Commit"
                /\ CommitProcessable(g, f)
                /\ groups' = [groups EXCEPT ![r] = g2]
                /\ memberHistory' = [memberHistory EXCEPT ![r] = Append(@, g2.members)]
                /\ task' = [task EXCEPT ![t] = SequencedActions(r, i, f) \o
                       << [kind |-> "PersistMlsState", room |-> r,
                           state |-> ExportGroupState(g2)] >>]
                /\ lastError' = [lastError EXCEPT ![t] = "none"]
    /\ UNCHANGED <<roomMetadata, store, mlsStore, bcast>>

\* Mutant: an MLS state is written only if none is stored yet.
ApplyActionInsertOnce(s, a) ==
    CASE a.kind = "PersistFrame" ->
            [s EXCEPT !.store = StoreFrame(@, a.room, a.idx, a.frame)]
      [] a.kind = "Broadcast" ->
            [s EXCEPT !.bcast = [@ EXCEPT ![a.room] = Append(@, a.idx)]]
      [] a.kind = "PersistMlsState" ->
            [s EXCEPT !.mls = [@ EXCEPT ![a.room] = IF @ = NoState THEN a.state ELSE @]]

\* execute_actions, one action: storage errors are logged and skipped,
\* BroadcastToRoom only logs the sessions it would send to.
ApplyAction(s, a) ==
    CASE a.kind = "PersistFrame" ->
            [s EXCEPT !.store = StoreFrame(@, a.room, a.idx, a.frame)]
      [] a.kind = "Broadcast" ->
            [s EXCEPT !.bcast = [@ EXCEPT ![a.room] = Append(@, a.idx)]]
      [] a.kind = "PersistMlsState" ->
            [s EXCEPT !.mls = [@ EXCEPT ![a.room] = a.state]]

\* handle_stream, second critical section: execute the held actions in order.
ExecuteActions(t) ==
    LET s == FoldLeft(ApplyAction, [store |-> store, mls |-> mlsStore, bcast |-> bcast],
                      task[t])
    IN
    /\ task[t] # <<>>
    /\ store' = s.store
    /\ mlsStore' = s.mls
    /\ bcast' = s.bcast
    /\ task' = [task EXCEPT ![t] = <<>>]
    /\ UNCHANGED <<groups, roomMetadata, nextIndex, lastError, assigned, memberHistory>>

Next ==
    \/ \E r \in Rooms, c \in Members : CreateRoom(r, c)
    \/ \E r \in Rooms, m \in Members : AddMembers(r, m)
    \/ \E r \in Rooms, m \in Members : RemoveMembers(r, m)
    \/ \E t \in Tasks, f \in InputFrames : ProcessFrame(t, f)
    \/ \E t \in Tasks : ExecuteActions(t)

\* A task that holds actions is waiting on the fair tokio mutex only.
Spec == Init /\ [][Next]_vars /\ \A t \in Tasks : WF_vars(ExecuteActions(t))

-----------------------------------------------------------------------------
TypeOK ==
    /\ DOMAIN groups \subseteq Rooms
    /\ \A r \in DOMAIN groups :
         groups[r] \in [epoch : 0..MaxLog, members : SUBSET Members,
                        pending : Changes \cup {NoChange}]
    /\ DOMAIN roomMetadata = DOMAIN groups
    /\ nextIndex \in [Rooms -> {NotLoaded} \cup 0..MaxLog]
    /\ \A r \in Rooms : store[r] \in Seq([idx : Nat, frame : Frame])
    /\ mlsStore \in [Rooms -> MlsState \cup {NoState}]
    /\ \A t \in Tasks : task[t] \in Seq(Action)
    /\ lastError \in [Tasks -> Errors]
    /\ \A r \in Rooms : Len(assigned[r]) <= MaxLog

\* Spec 8.3, about the log the sequencer persists: starting at epoch 0, a
\* persisted frame's epoch is its predecessor's, plus one after a Commit.
\* It rests on validate_frame_basic's epoch check, the commit merge in
\* process_frame, and the Storage compare-and-set across stream tasks.
EpochConsistentLog ==
    \A r \in Rooms :
      /\ Len(store[r]) > 0 => store[r][1].frame.epoch = 0
      /\ \A i \in 1..(Len(store[r]) - 1) :
           store[r][i + 1].frame.epoch =
             store[r][i].frame.epoch + (IF store[r][i].frame.op = "Commit" THEN 1 ELSE 0)

\* Spec 4.5.2: log indices are consecutive and rejected frames consume
\* none, so every index the sequencer handed out is persisted or is still
\* held, about to be persisted, by a stream task.
NoLostIndex ==
    \A r \in Rooms : \A k \in 1..Len(assigned[r]) :
      \/ k <= Len(store[r])
      \/ \E t \in Tasks : \E j \in DOMAIN task[t] :
           task[t][j].kind = "PersistFrame" /\ task[t][j].room = r
           /\ task[t][j].idx = assigned[r][k].idx

\* The MLS state in Storage, which process_frame validates membership
\* against, is the group's current state whenever no task holds actions.
MlsStateCurrentWhenQuiescent ==
    (\A t \in Tasks : task[t] = <<>>) =>
      \A r \in DOMAIN groups :
        mlsStore[r] = NoState \/ mlsStore[r] = ExportGroupState(groups[r])

\* Spec 4.5.2 step 2: a frame is persisted only if its sender is a member
\* of the group at the frame's epoch.
OnlyMembersPersisted ==
    \A r \in Rooms : \A k \in 1..Len(store[r]) :
      LET f == store[r][k].frame IN
      f.epoch + 1 <= Len(memberHistory[r]) /\ f.sender \in memberHistory[r][f.epoch + 1]
-----------------------------------------------------------------------------
(* Refinement: the frames Storage holds for each room, in log order, and   *)
(* the rooms create_room made, are a behaviour of the abstract RoomLog.    *)
PersistedLog == [r \in Rooms |-> [k \in 1..Len(store[r]) |-> store[r][k].frame]]

Abstract == INSTANCE RoomLog WITH rooms <- DOMAIN groups, log <- PersistedLog,
                                  Frames <- Frame

\* Spec 4.5.2 / 8.3 as a refinement: whatever the stream tasks'
\* interleaving, every step of process_frame and execute_actions leaves the
\* persisted log unchanged or appends one frame at its end, at the epoch
\* the commits before it reached, and rooms are never removed.
RoomLogRefined == Abstract!Spec
=============================================================================
