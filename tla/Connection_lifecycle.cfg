\* Two connections with two streams each; the driver admits one session at a time.
\* Deadlock is not checked: once every connection has ended, Server::run waits in accept() for ever.
CHECK_DEADLOCK FALSE
CONSTANTS
    Conns = {c1, c2}
    MaxStreams = 2
    MaxSessions = 1
SPECIFICATION Spec
PROPERTIES
    DisconnectCleansUp
