\* Two connections, one stream each, one driver session slot: a peer that
\* never finishes its handshake keeps the other connection out.
\* Deadlock is not checked: once every connection has ended, Server::run waits in accept() for ever.
CHECK_DEADLOCK FALSE
CONSTANTS
    Conns = {c1, c2}
    MaxStreams = 1
    MaxSessions = 1
SPECIFICATION Spec
PROPERTY SessionReleased
