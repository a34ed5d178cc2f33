CONSTANTS
    MaxSock = 2
    BufferSize = 1
    MaxConns = 2
    MaxBytes = 3
    MaxMissed = 1
    NetFaults = {"close"}
SPECIFICATION TcpSpec
INVARIANTS SocketInRange
CHECK_DEADLOCK FALSE
