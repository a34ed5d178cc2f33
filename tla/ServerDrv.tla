------------------------------ MODULE ServerDrv -----------------------------
(***************************************************************************)
(* The socket commands of WiFiNINA (utility/server_drv.cpp): what each     *)
(* driver function clocks out and which reply it takes.                    *)
(***************************************************************************)
EXTENDS SpiFrame

startServer ==
    OneParam("START_SERVER_TCP_CMD", sendCmd(3) + sendParam16 + sendParam(1) + sendParam(1) + END_CMD, 1)
startServerIp ==
    OneParam("START_SERVER_TCP_CMD",
             sendCmd(4) + sendParam(4) + sendParam16 + sendParam(1) + sendParam(1) + END_CMD, 0)
startClient ==
    OneParam("START_CLIENT_TCP_CMD",
             sendCmd(4) + sendParam(4) + sendParam16 + sendParam(1) + sendParam(1) + END_CMD, 0)
startClientHost(host_len) ==
    OneParam("START_CLIENT_TCP_CMD",
             sendCmd(5) + sendParam(host_len) + sendParam(4) + sendParam16
                        + sendParam(1) + sendParam(1) + END_CMD, PadTo4(17 + host_len))
stopClient == OneByte("STOP_CLIENT_TCP_CMD")
getServerState == OneByte("GET_STATE_TCP_CMD")
getClientState == OneByte("GET_CLIENT_STATE_TCP_CMD")
availData == OneByte("AVAIL_DATA_TCP_CMD")
availServer == OneByte("AVAIL_DATA_TCP_CMD")

(* peek goes through the overload for 16 bits.                             *)
getData == Exchange("GET_DATA_TCP_CMD", sendCmd(2) + sendParam(1) + sendParam16 + END_CMD, 3, "Data8", 1)
getDataBuf ==
    Exchange("GET_DATABUF_TCP_CMD", sendCmd(2) + sendBuffer(1) + sendBuffer(2) + END_CMD, 1, "Data16", 1)
insertDataBuf(_len) ==
    Exchange("INSERT_DATABUF_CMD", sendCmd(2) + sendBuffer(1) + sendBuffer(_len) + END_CMD,
             PadTo4(9 + _len), "Data8", 1)
sendUdpData == [OneByte("SEND_DATA_UDP_CMD") EXCEPT !.wait = "Data8"]
sendData_shortPad(len) ==
    Exchange("SEND_DATA_TCP_CMD", sendCmd(2) + sendBuffer(1) + sendBuffer(len) + END_CMD,
             PadTo4(6 + len), "Data8", 1)
sendData(len) ==
    Exchange("SEND_DATA_TCP_CMD", sendCmd(2) + sendBuffer(1) + sendBuffer(len) + END_CMD,
             PadTo4(9 + len), "Data8", 1)
checkDataSent == OneByte("DATA_SENT_TCP_CMD")
getSocket == Bare("GET_SOCKET_CMD")

SocketCommands(Lengths) ==
    {startServer, startServerIp, startClient, stopClient, getServerState, getClientState,
     availData, availServer, getData, getDataBuf, sendUdpData, checkDataSent, getSocket}
    \cup {startClientHost(n) : n \in Lengths} \cup {insertDataBuf(n) : n \in Lengths}
    \cup {sendData(n) : n \in Lengths}
=============================================================================
