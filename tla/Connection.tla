----------------------------- MODULE Connection -----------------------------
(***************************************************************************)
(* Connection and stream lifecycle of the production driver               *)
(* (kalandra-server/src/lib.rs): Server::run spawns handle_connection for  *)
(* every accepted QUIC connection; handle_connection registers the         *)
(* connection with the driver, spawns handle_stream for every bi-stream    *)
(* the peer opens, and unregisters the connection when accept_bi fails.   *)
(* Stream tasks are detached: nothing joins them before ConnectionClosed.  *)
(*                                                                         *)
(* Every driver call runs under the one tokio mutex and is atomic here;   *)
(* what interleaves is the tasks between their critical sections.  The    *)
(* ServerDriver's per-connection session (spec 4.5.1) is kept to the       *)
(* states that decide whether process_event accepts a frame.              *)
(***************************************************************************)
EXTENDS Naturals, FiniteSets

CONSTANTS
    Conns,        \* connections the transport accepts (random u64 conn_id)
    MaxStreams,   \* bound: bi-streams a peer opens per connection
    MaxSessions   \* DriverConfig: connections the driver registers at once

\* Opcodes a peer sends: the handshake and any data frame.
Opcodes == {"Hello", "AppMessage"}

Streams == Conns \X (1..MaxStreams)

VARIABLES
    conn,     \* handle_connection task: where it is
    peer,     \* the QUIC connection: "up" until the peer or transport ends it
    stream,   \* handle_stream task per stream: where it is, the frame it read
    session   \* ServerDriver: session state per connection: "none" before
              \* ConnectionAccepted, "init", "authenticated", "closed", and
              \* "gone" after ConnectionClosed removed the entry

vars == <<conn, peer, stream, session>>

NoStream == [pc |-> "unspawned", op |-> "none"]

-----------------------------------------------------------------------------
\* ServerDriver::process_event(ConnectionAccepted): registers a session in
\* Init, unless the driver already serves MaxSessions connections.
ConnectionAccepted(c) ==
    Cardinality({d \in Conns : session[d] \in {"init", "authenticated", "closed"}})
        < MaxSessions

\* ServerDriver::process_event(FrameReceived) on the session state machine
\* (spec 4.5.1): the next session state and whether Ok(actions) is returned.
\* In Init only Hello is accepted, any other opcode closes the session;
\* Closed is terminal; a second Hello is refused.
FrameReceived(s, op) ==
    CASE s = "init" /\ op = "Hello"                -> [ok |-> TRUE,  next |-> "authenticated"]
      [] s = "init" /\ op # "Hello"                -> [ok |-> TRUE,  next |-> "closed"]
      [] s = "authenticated" /\ op = "AppMessage"  -> [ok |-> TRUE,  next |-> s]
      [] OTHER                                     -> [ok |-> FALSE, next |-> s]

\* handle_connection enters its accept_bi loop only after the
\* ConnectionAccepted critical section returned.
CanAcceptStreams(c) == conn[c] = "open"

-----------------------------------------------------------------------------
Init ==
    /\ conn = [c \in Conns |-> "idle"]
    /\ peer = [c \in Conns |-> "up"]
    /\ stream = [s \in Streams |-> NoStream]
    /\ session = [c \in Conns |-> "none"]

\* Server::run: transport.accept() yields a connection; a task is spawned.
Accept(c) ==
    /\ conn[c] = "idle"
    /\ conn' = [conn EXCEPT ![c] = "registering"]
    /\ UNCHANGED <<peer, stream, session>>

\* handle_connection, first critical section: ConnectionAccepted and its
\* actions.  An Err from process_event returns from the task at once.
Register(c) ==
    /\ conn[c] = "registering"
    /\ IF ConnectionAccepted(c)
         THEN /\ conn' = [conn EXCEPT ![c] = "open"]
              /\ session' = [session EXCEPT ![c] = "init"]
         ELSE /\ conn' = [conn EXCEPT ![c] = "done"]
              /\ UNCHANGED session
    /\ UNCHANGED <<peer, stream>>

\* The peer, or an idle timeout of the transport, ends the connection.
PeerClose(c) ==
    /\ conn[c] # "idle"
    /\ peer[c] = "up"
    /\ peer' = [peer EXCEPT ![c] = "down"]
    /\ UNCHANGED <<conn, stream, session>>

\* accept_bi() returns a stream: handle_stream is spawned and detached.
AcceptBi(c, i) ==
    /\ CanAcceptStreams(c)
    /\ peer[c] = "up"
    /\ stream[<<c, i>>].pc = "unspawned"
    /\ \A j \in 1..(i - 1) : stream[<<c, j>>].pc # "unspawned"
    /\ stream' = [stream EXCEPT ![<<c, i>>] = [pc |-> "read", op |-> "none"]]
    /\ UNCHANGED <<conn, peer, session>>

\* accept_bi() fails on a closed connection: the loop breaks.
AcceptBiFails(c) ==
    /\ conn[c] = "open"
    /\ peer[c] = "down"
    /\ conn' = [conn EXCEPT ![c] = "closing"]
    /\ UNCHANGED <<peer, stream, session>>

\* handle_connection, last critical section: ConnectionClosed, result
\* ignored; the task ends without waiting for its stream tasks.
Unregister(c) ==
    /\ conn[c] = "closing"
    /\ conn' = [conn EXCEPT ![c] = "done"]
    /\ session' = [session EXCEPT ![c] = "gone"]
    /\ UNCHANGED <<peer, stream>>

\* handle_stream: both read_exact calls and Frame::decode succeed.
StreamReceive(s) ==
    /\ stream[s].pc = "read"
    /\ peer[s[1]] = "up"
    /\ \E op \in Opcodes :
         stream' = [stream EXCEPT ![s] = [pc |-> "process", op |-> op]]
    /\ UNCHANGED <<conn, peer, session>>

\* handle_stream: the peer finishes the stream, or sends a header or
\* payload that does not decode; the loop breaks.
StreamFinish(s) ==
    /\ stream[s].pc = "read"
    /\ peer[s[1]] = "up"
    /\ stream' = [stream EXCEPT ![s].pc = "done"]
    /\ UNCHANGED <<conn, peer, session>>

\* Mutant: a read error is treated like a processing error, with continue.
StreamReadErrorRetry(s) ==
    /\ stream[s].pc = "read"
    /\ peer[s[1]] = "down"
    /\ UNCHANGED vars

\* handle_stream: read_exact fails on a closed connection; the loop breaks.
StreamReadError(s) ==
    /\ stream[s].pc = "read"
    /\ peer[s[1]] = "down"
    /\ stream' = [stream EXCEPT ![s].pc = "done"]
    /\ UNCHANGED <<conn, peer, session>>

\* handle_stream, first critical section: FrameReceived{conn_id, frame}.
\* Err is logged and the loop continues with the next read.
StreamProcess(s) ==
    LET c == s[1]
        res == FrameReceived(session[c], stream[s].op)
    IN
    /\ stream[s].pc = "process"
    /\ session' = [session EXCEPT ![c] = res.next]
    /\ stream' = [stream EXCEPT ![s] = [pc |-> IF res.ok THEN "execute" ELSE "read",
                                       op |-> "none"]]
    /\ UNCHANGED <<conn, peer>>

\* handle_stream, second critical section: execute_actions.  A
\* CloseConnection action is only logged (lib.rs:289).
StreamExecute(s) ==
    /\ stream[s].pc = "execute"
    /\ stream' = [stream EXCEPT ![s].pc = "read"]
    /\ UNCHANGED <<conn, peer, session>>

\* A task's own steps: it runs whenever the scheduler gets to it and the
\* fair driver mutex is handed to it.
ConnTask(c) == Register(c) \/ AcceptBiFails(c) \/ Unregister(c)
StreamTask(s) == StreamReadError(s) \/ StreamProcess(s) \/ StreamExecute(s)

Next ==
    \/ \E c \in Conns :
         \/ Accept(c) \/ PeerClose(c) \/ ConnTask(c)
         \/ \E i \in 1..MaxStreams : AcceptBi(c, i)
    \/ \E s \in Streams : StreamReceive(s) \/ StreamFinish(s) \/ StreamTask(s)

Spec ==
    /\ Init /\ [][Next]_vars
    /\ \A c \in Conns : WF_vars(ConnTask(c))
    /\ \A s \in Streams : WF_vars(StreamTask(s))

-----------------------------------------------------------------------------
\* Once its transport is gone, a connection is unregistered from the
\* driver and every stream task of it ends: handle_connection's loop
\* breaks on accept_bi and each handle_stream breaks on read_exact.
DisconnectCleansUp ==
    \A c \in Conns :
      peer[c] = "down" ~>
        /\ conn[c] = "done"
        /\ \A i \in 1..MaxStreams : stream[<<c, i>>].pc \in {"unspawned", "done"}

\* Spec 4.5.1: a session that never completes its handshake is closed by
\* handshake_timeout, and a session the state machine closed has its
\* connection ended by CloseConnection; either way handle_connection
\* reaches ConnectionClosed and frees the driver's session slot.  The
\* driver is fed no Tick (Server::run, handle_connection) and
\* execute_actions only logs CloseConnection (lib.rs:289), so the slot is
\* freed only if the peer itself goes away.
SessionReleased ==
    \A c \in Conns : session[c] \in {"init", "closed"} ~> session[c] = "gone"
=============================================================================
