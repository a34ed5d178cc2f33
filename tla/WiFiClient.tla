----------------------------- MODULE WiFiClient -----------------------------
(***************************************************************************)
(* A TCP connection through WiFiNINA: WiFiClient.cpp with the read buffers *)
(* of utility/WiFiSocketBuffer.cpp, as MQTTClient.cpp calls them.  Every   *)
(* exchange with the module (ServerDrv) is a step of its own, and the      *)
(* network changes between them.                                           *)
(*                                                                         *)
(* The module, the network and the peer are external: the module owns the  *)
(* sockets and keeps what has come in for them; it frees a socket that was *)
(* stopped, or whose state it has reported as closed.  A byte stands for a *)
(* packet of the peer and names its connection and its place.              *)
(***************************************************************************)
EXTENDS Integers, Sequences

CONSTANTS
    MaxSock,            \* WIFI_MAX_SOCK_NUM
    BufferSize,         \* WIFI_SOCKET_BUFFER_SIZE
    MaxConns, MaxBytes, \* connections, and bytes the peer sends on each
    MaxMissed,          \* bounds the replies to getDataBuf that fail on a connection
    NetFaults           \* of "close", "reset", "reply": what the network and the module do

ASSUME ClientAssumption ==
    /\ MaxSock \in Nat \ {0} /\ BufferSize \in Nat \ {0} /\ MaxConns \in Nat \ {0}
    /\ MaxBytes \in Nat /\ MaxMissed \in Nat

Sockets == 0 .. MaxSock - 1
NO_SOCKET_AVAIL == 255

VARIABLES
    tcp,        \* the module's sockets: "FREE", "ESTABLISHED", "CLOSE_WAIT"
    waiting,    \* bytes the module has for a socket
    conn, peerSent, \* the connection, and how many bytes the peer sent on it
    _sock,
    _buffers,   \* WiFiSocketBuffer: allocated or not, and what is left to read
    inUse,      \* MQTTClient's _connected
    op, caller, \* the next exchange or step, and whom the result is for
    got,        \* what the client has read on this connection
    missed      \* replies to getDataBuf that failed to come on it

moduleSide == <<tcp, waiting, conn, peerSent>>
hostSide == <<_sock, _buffers, inUse, op, caller, got, missed>>
tcpVars == <<moduleSide, hostSide>>

NoBuffer == [data |-> FALSE, bytes |-> <<>>]

TcpInit ==
    /\ tcp = [s \in Sockets |-> "FREE"] /\ waiting = [s \in Sockets |-> <<>>]
    /\ conn = 0 /\ peerSent = 0
    /\ _sock = NO_SOCKET_AVAIL /\ _buffers = [s \in Sockets |-> NoBuffer]
    /\ inUse = FALSE /\ op = "idle" /\ caller = "none" /\ got = <<>> /\ missed = 0

goes(o, c) == op' = o /\ caller' = c
Lost == {TRUE : f \in NetFaults \cap {"reply"}}      \* a reply may fail to come

(* WiFiSocketBufferClass::close.                                           *)
bufferClose_kept(s) == [_buffers EXCEPT ![s].data = FALSE]
bufferClose(s) == [_buffers EXCEPT ![s] = NoBuffer]

-----------------------------------------------------------------------------
(* The caller: MQTTClient asks connected() before all it does, connects    *)
(* when the answer is no, and then reads.                                  *)
callConnected ==
    /\ op = "idle" /\ inUse
    /\ goes("available", "loop")
    /\ UNCHANGED <<moduleSide, _sock, _buffers, inUse, got, missed>>

(* WiFiClient::connect: an open socket is stopped first.                   *)
callConnect ==
    /\ op = "idle" /\ ~inUse
    /\ goes(IF _sock # NO_SOCKET_AVAIL THEN "stop" ELSE "getSocket", "connect")
    /\ UNCHANGED <<moduleSide, _sock, _buffers, inUse, got, missed>>

(* A packet has been read and dealt with: it is what the call waits for,   *)
(* or the wait goes on.                                                    *)
Resumes == goes("idle", "none") \/ goes("read", "none")

(* What follows connected().  A publication from the callback that finds   *)
(* no connection returns to the read it interrupts.                        *)
Returns(result) ==
    CASE caller = "loop" -> inUse' = result /\ goes(IF result THEN "read" ELSE "idle", "none")
      [] caller = "connect" -> inUse' = result /\ goes(IF result THEN "read" ELSE "idle", "none")
      [] caller = "read" -> inUse' = result
                            /\ \/ result /\ goes("read", "none")
                               \/ goes("idle", "none")
      [] caller = "publish" -> UNCHANGED inUse
                               /\ IF result THEN goes("sendData", caller) ELSE Resumes

(* getDataBuf, into an empty buffer.  When its reply does not come, the    *)
(* size asked for is taken for the size received: the buffer is full of    *)
(* what this memory held before, which nobody sends now.  The module may   *)
(* have given the bytes away, or never have heard the command.             *)
Unsent == <<0, 0>>
Size(s) == IF Len(waiting[s]) < BufferSize THEN Len(waiting[s]) ELSE BufferSize
Fetched(s) == SubSeq(waiting[s], 1, Size(s))
Rest(s) == SubSeq(waiting[s], Size(s) + 1, Len(waiting[s]))
Stale == [i \in 1 .. BufferSize |-> Unsent]

Received(s) ==
    {Fetched(s)} \cup {Stale : l \in IF missed < MaxMissed THEN Lost ELSE {}}

getDataBufInto(s, bytes) ==
    /\ _buffers' = [_buffers EXCEPT ![s] = [data |-> TRUE, bytes |-> bytes]]
    /\ IF bytes = Stale
       THEN missed' = missed + 1 /\ waiting' \in {waiting, [waiting EXCEPT ![s] = Rest(s)]}
       ELSE UNCHANGED missed /\ waiting' = [waiting EXCEPT ![s] = Rest(s)]

(* connected(): first what is buffered, or comes with the next exchange.   *)
available ==
    /\ op = "available"
    /\ IF _sock = NO_SOCKET_AVAIL
       THEN Returns(FALSE) /\ UNCHANGED <<_buffers, waiting, missed>>
       ELSE IF _buffers[_sock].bytes # <<>>
       THEN Returns(TRUE) /\ UNCHANGED <<_buffers, waiting, missed>>
       ELSE \E bytes \in Received(_sock) :
            /\ getDataBufInto(_sock, bytes)
            /\ IF bytes # <<>> THEN Returns(TRUE) ELSE goes("status", caller) /\ UNCHANGED inUse
    /\ UNCHANGED <<tcp, conn, peerSent, _sock, got>>

(* Then the state of the socket: one that is not established is given up.  *)
(* A reply that does not come reads as CLOSED.                             *)
StillOpen_closeWait(s) == tcp[s] # "FREE"
StillOpen(s) == tcp[s] = "ESTABLISHED"

status ==
    /\ op = "status"
    /\ \E open \in {StillOpen(_sock)} \cup {FALSE : l \in Lost} :
          /\ Returns(open)
          /\ IF open
             THEN UNCHANGED <<_sock, _buffers>>
             ELSE _sock' = NO_SOCKET_AVAIL /\ _buffers' = bufferClose(_sock)
    /\ tcp' = IF StillOpen(_sock) THEN tcp ELSE [tcp EXCEPT ![_sock] = "FREE"]
    /\ waiting' = IF StillOpen(_sock) THEN waiting ELSE [waiting EXCEPT ![_sock] = <<>>]
    /\ UNCHANGED <<conn, peerSent, got, missed>>

(* lwmqtt_arduino_network_read: WiFiClient::read does not look at _sock.   *)
(* What it finds in the 256th buffer of ten is anything.                   *)
read ==
    /\ op = "read"
    /\ IF _sock = NO_SOCKET_AVAIL
       THEN goes("undefined", "none") /\ UNCHANGED <<_buffers, waiting, got, missed>>
       ELSE IF _buffers[_sock].bytes # <<>>
       THEN /\ got' = Append(got, Head(_buffers[_sock].bytes))
            /\ _buffers' = [_buffers EXCEPT ![_sock].bytes = Tail(@)]
            /\ \/ Resumes
               \/ goes("available", "publish")      \* the callback publishes
            /\ UNCHANGED <<waiting, missed>>
       ELSE \E bytes \in Received(_sock) :
            /\ getDataBufInto(_sock, bytes)
            /\ IF bytes # <<>> THEN UNCHANGED <<op, caller>> ELSE goes("available", "read")
            /\ UNCHANGED got
    /\ UNCHANGED <<tcp, conn, peerSent, _sock, inUse>>

(* WiFiClient::write: sendData, then checkDataSent up to 25 times.  If     *)
(* either fails MQTTClient closes the connection.                          *)
sendDataStep ==
    /\ op = "sendData"
    /\ \/ Resumes
       \/ (Lost # {} \/ ~StillOpen(_sock)) /\ goes("stop", caller)
    /\ UNCHANGED <<moduleSide, _sock, _buffers, inUse, got, missed>>

(* WiFiClient::stop: stopClient, up to 50 questions for the state, and     *)
(* whatever the answers, the buffer and the socket go.                     *)
stopStep ==
    /\ op = "stop"
    /\ \E done \in {TRUE} \cup {FALSE : l \in Lost} :
          /\ tcp' = IF done THEN [tcp EXCEPT ![_sock] = "FREE"] ELSE tcp
          /\ waiting' = IF done THEN [waiting EXCEPT ![_sock] = <<>>] ELSE waiting
    /\ _sock' = NO_SOCKET_AVAIL /\ _buffers' = bufferClose(_sock)
    /\ inUse' = FALSE
    /\ IF caller = "connect" THEN goes("getSocket", caller) ELSE Resumes
    /\ UNCHANGED <<conn, peerSent, got, missed>>

(* getSocket and startClient, and the wait for connected().                *)
Free == {s \in Sockets : tcp[s] = "FREE"}
startClientStep ==
    /\ op = "getSocket" /\ conn < MaxConns
    /\ \/ /\ Free = {} \/ Lost # {}
          /\ goes("idle", "none")
          /\ UNCHANGED <<moduleSide, _sock, got, missed>>
       \/ \E s \in Free : \E r \in {"ESTABLISHED", "FREE"} :
          /\ \A t \in Free : s <= t
          /\ tcp' = [tcp EXCEPT ![s] = r]
          /\ conn' = conn + 1 /\ peerSent' = 0 /\ got' = <<>> /\ missed' = 0
          /\ _sock' = s
          /\ goes("available", caller)
          /\ UNCHANGED waiting
    /\ UNCHANGED <<_buffers, inUse>>

HostCalls ==
    callConnected \/ callConnect \/ available \/ status \/ read \/ sendDataStep
    \/ stopStep \/ startClientStep

-----------------------------------------------------------------------------
PeerSends ==
    /\ peerSent < MaxBytes
    /\ \E s \in Sockets :
          /\ tcp[s] = "ESTABLISHED" /\ s = _sock
          /\ waiting' = [waiting EXCEPT ![s] = Append(@, <<conn, peerSent + 1>>)]
    /\ peerSent' = peerSent + 1
    /\ UNCHANGED <<tcp, conn, hostSide>>

PeerCloses ==
    /\ "close" \in NetFaults
    /\ \E s \in Sockets : tcp[s] = "ESTABLISHED" /\ tcp' = [tcp EXCEPT ![s] = "CLOSE_WAIT"]
    /\ UNCHANGED <<waiting, conn, peerSent, hostSide>>

ModuleForgets ==
    /\ "reset" \in NetFaults /\ \E s \in Sockets : tcp[s] # "FREE"
    /\ tcp' = [s \in Sockets |-> "FREE"] /\ waiting' = [s \in Sockets |-> <<>>]
    /\ UNCHANGED <<conn, peerSent, hostSide>>

NetworkMoves == PeerSends \/ PeerCloses \/ ModuleForgets
TcpNext == HostCalls \/ NetworkMoves
TcpSpec == TcpInit /\ [][TcpNext]_tcpVars /\ WF_tcpVars(HostCalls)

-----------------------------------------------------------------------------
(* What the client reads is what the peer sent on this connection, without *)
(* a gap, a repetition or a byte of an earlier connection on the same      *)
(* socket (WiFiSocketBuffer keeps what was not read), up to a getDataBuf   *)
(* whose reply did not come; after it there are bytes that nobody sent and *)
(* gaps, but what the peer did send is still this connection's and comes   *)
(* in order.                                                               *)
BytesInOrder ==
    /\ missed = 0 => \A i \in 1 .. Len(got) : got[i] = <<conn, i>>
    /\ \A i \in 1 .. Len(got) : got[i] # Unsent => got[i][1] = conn
    /\ \A i \in 1 .. Len(got) : \A j \in 1 .. i - 1 :
          got[i] # Unsent /\ got[j] # Unsent => got[j][2] < got[i][2]

(* A connection that is gone is noticed, by whichever call comes next, and *)
(* its socket given up: connected() asks the module when nothing is left,  *)
(* and the replies to getDataBuf do not fail for ever.                     *)
CloseNoticed ==
    \A s \in Sockets :
        (_sock = s /\ tcp[s] # "ESTABLISHED") ~> (_sock # s \/ tcp[s] = "ESTABLISHED")

(* "Maxmium number of socket" (wl_definitions.h): no buffer beyond it is   *)
(* looked into.                                                            *)
SocketInRange == op = "read" => _sock \in Sockets
=============================================================================
