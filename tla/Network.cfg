CONSTANTS
    KeepAlive = 2
    Timeout = 1
    MaxPacketId = 3
    numSubs = 2
    Qos = {0, 1}
    Window = 1
    Capacity = 2
    ToClient <- MCToClient
    ToBroker <- MCToBroker
    read_buf_size = 140
    MaxPackets = 2
    MaxSock = 2
    BufferSize = 1
    MaxConns = 2
    MaxBytes = 3
    MaxMissed = 1
    NetFaults = {"close", "reset", "reply"}
    Requests <- MCRequests
    MaxCrashes = 1
SPECIFICATION NetworkSpec
INVARIANTS HearsEverything ReadsWhatWasSent StaysInFrame FailsForRoomOnly
           AnswersMatch FramesAreWords FindsModuleAgain BytesInOrder
PROPERTIES AckIsMine PongTimeoutIsTrue SilenceIsNoticed ExchangesEnd CloseNoticed
CHECK_DEADLOCK FALSE
