-------------------------------- MODULE Sync --------------------------------
(***************************************************************************)
(* Sync (catch-up) of one room: RoomManager::handle_sync_request          *)
(* (room_manager.rs) answering the paged SyncRequest / SyncResponse loop   *)
(* of a lagging client (lockframe-proto payloads/session.rs), while the    *)
(* server keeps persisting new frames.                                     *)
(*                                                                         *)
(* A stored frame is identified by its log index; the log of the room is  *)
(* the indices 0 .. stored-1 (Storage keeps it dense, see RoomManager).    *)
(***************************************************************************)
EXTENDS Integers, Sequences

CONSTANTS
    MaxFrames,  \* bound: frames the room's log can grow to
    Limits      \* the `limit` values a client may put in a SyncRequest (u64)

None == [kind |-> "none"]

VARIABLES
    stored,  \* Storage: number of frames persisted for the room
    have,    \* client: frames 0 .. have-1 processed; next from_log_index
    phase,   \* client: "idle" or "syncing"
    req,     \* SyncRequest in flight to the server, or None
    resp,    \* SyncResponse in flight to the client, or None
    target   \* history: frames the server had when it last said has_more = false

vars == <<stored, have, phase, req, resp, target>>

-----------------------------------------------------------------------------
\* Storage::latest_log_index: None (-1) for an empty log.
LatestLogIndex(n) == IF n = 0 THEN -1 ELSE n - 1

\* Mutant: a batch of `limit` indices that is not cut at the end of the log.
LoadFramesUnclamped(from, limit, n) == [k \in 1..limit |-> from + k - 1]

\* Storage::load_frames(room, from, limit): up to `limit` frames from `from`.
LoadFrames(from, limit, n) ==
    [k \in 1..(IF from >= n THEN 0 ELSE IF n - from < limit THEN n - from ELSE limit)
        |-> from + k - 1]

\* u64::saturating_sub(1)
SaturatingPred(x) == IF x = 0 THEN 0 ELSE x - 1

\* Mutant: the last loaded index is compared one frame short.
HasMoreShort(from, frames, n) ==
    LET last == IF frames = <<>> THEN SaturatingPred(from) ELSE from + Len(frames) - 1
    IN  LatestLogIndex(n) # -1 /\ last + 1 < LatestLogIndex(n)

\* Mutant: the comparison admits equality.
HasMoreInclusive(from, frames, n) ==
    LET last == IF frames = <<>> THEN SaturatingPred(from) ELSE from + Len(frames) - 1
    IN  LatestLogIndex(n) # -1 /\ last <= LatestLogIndex(n)

\* handle_sync_request: has_more = latest.is_some_and(|l| last_loaded < l),
\* where last_loaded is from-1 (saturating) when no frame was loaded.
HasMore(from, frames, n) ==
    LET last == IF frames = <<>> THEN SaturatingPred(from) ELSE from + Len(frames) - 1
    IN  LatestLogIndex(n) # -1 /\ last < LatestLogIndex(n)

-----------------------------------------------------------------------------
Init ==
    /\ stored = 0
    /\ have = 0
    /\ phase = "idle"
    /\ req = None
    /\ resp = None
    /\ target = 0

\* The sequencer persists another frame of the room.
PersistFrame ==
    /\ stored < MaxFrames
    /\ stored' = stored + 1
    /\ UNCHANGED <<have, phase, req, resp, target>>

\* A lagging client asks for the frames from the first one it lacks.
SendSyncRequest(limit) ==
    /\ phase = "idle"
    /\ phase' = "syncing"
    /\ req' = [from |-> have, limit |-> limit]
    /\ UNCHANGED <<stored, have, resp, target>>

\* RoomManager::handle_sync_request: load the batch, compute has_more and
\* answer with SendSyncResponse.
HandleSyncRequest ==
    LET frames == LoadFrames(req.from, req.limit, stored) IN
    /\ req # None
    /\ resp' = [from |-> req.from, limit |-> req.limit, frames |-> frames,
                hasMore |-> HasMore(req.from, frames, stored), known |-> stored]
    /\ req' = None
    /\ UNCHANGED <<stored, have, phase, target>>

\* The client processes the batch in order and, while has_more is true,
\* asks for the next one with from_log_index = last frame + 1.
ReceiveSyncResponse ==
    LET next == resp.from + Len(resp.frames) IN
    /\ resp # None
    /\ have' = next
    /\ resp' = None
    /\ IF resp.hasMore
         THEN /\ req' = [from |-> next, limit |-> resp.limit]
              /\ UNCHANGED <<phase, target>>
         ELSE /\ phase' = "idle"
              /\ target' = resp.known
              /\ req' = None
    /\ UNCHANGED stored

Next ==
    \/ PersistFrame
    \/ \E l \in Limits : SendSyncRequest(l)
    \/ HandleSyncRequest
    \/ ReceiveSyncResponse

\* The server answers every request it reads and the client reads every
\* response; new syncs and new frames are up to the environment.
Spec == Init /\ [][Next]_vars /\ WF_vars(HandleSyncRequest) /\ WF_vars(ReceiveSyncResponse)

-----------------------------------------------------------------------------
TypeOK ==
    /\ stored \in 0..MaxFrames
    /\ have \in 0..MaxFrames
    /\ phase \in {"idle", "syncing"}
    /\ target \in 0..MaxFrames

\* Spec 4.5.3 / 8.7: when the server answers has_more = false, the client
\* has every frame the log held at that moment, however the batches were
\* cut and whatever was appended during the paging.
SyncComplete == phase = "idle" => have >= target

\* Spec 4.5.3: the client drives batches until has_more is false, and
\* every sync it starts ends.
SyncTerminates == phase = "syncing" ~> phase = "idle"
=============================================================================
