----------------------------- MODULE NinaProofs -----------------------------
(***************************************************************************)
(* The frames of WiFiNINA, for any lengths of names, keys and data; and    *)
(* what the client reads from a connection, for any number of sockets and  *)
(* connections, buffers of any size, streams of any length, and a network  *)
(* that closes and resets and loses replies as it likes.                   *)
(***************************************************************************)
EXTENDS SpiDrv, ServerDrv, WiFiDrv, WiFiClient, TLAPS

-----------------------------------------------------------------------------
(* Every socket command is a whole number of words on the bus.             *)
LEMMA SocketFrames ==
    ASSUME NEW Lengths, Lengths \subseteq Nat, NEW r \in SocketCommands(Lengths)
    PROVE  Words(r)
<1>1. CASE r \in {startServer, startServerIp, startClient, stopClient, getServerState,
                  getClientState, availData, availServer, getData, getDataBuf, sendUdpData,
                  checkDataSent, getSocket}
  BY <1>1 DEF startServer, startServerIp, startClient, stopClient, getServerState,
              getClientState, availData, availServer, getData, getDataBuf, sendUdpData,
              checkDataSent, getSocket, Words, OneByte, OneParam, Exchange, Bare, sendCmd,
              sendParam, sendBuffer, sendParam16, END_CMD
<1>2. ASSUME NEW n \in Lengths PROVE Words(startClientHost(n))
  BY DEF startClientHost, Words, OneParam, Exchange, sendCmd, sendParam, sendParam16, END_CMD, PadTo4
<1>3. ASSUME NEW n \in Lengths PROVE Words(insertDataBuf(n)) /\ Words(sendData(n))
  BY DEF insertDataBuf, sendData, Words, Exchange, sendCmd, sendBuffer, END_CMD, PadTo4
<1>. QED
  BY <1>1, <1>2, <1>3 DEF SocketCommands

(* So is every other command with the padding its comment announces: those *)
(* of NetworkCommands, which leaves out the five in Misframed.             *)
LEMMA NetworkFrames ==
    ASSUME NEW Lengths, Lengths \subseteq Nat, NEW r \in NetworkCommands(Lengths)
    PROVE  Words(r)
<1>. USE DEF Words, OneByte, OneParam, Exchange, Bare, sendCmd, sendParam, END_CMD, PadTo4
<1>1. CASE r \in {config, setDNS, disconnectWiFi, getConnectionStatus, getReasonCode,
                  getMacAddress, getCurrentSSID, getCurrentBSSID, getCurrentRSSI,
                  getCurrentEncryptionType, getFwVersion, getTime, getTemperature}
  BY <1>1 DEF config, setDNS, disconnectWiFi, getConnectionStatus, getReasonCode,
              getMacAddress, getCurrentSSID, getCurrentBSSID, getCurrentRSSI,
              getCurrentEncryptionType, getFwVersion, getTime, getTemperature
<1>2. CASE r \in {startScanNetworks, getEncTypeNetowrks, getBSSIDNetowrks, getChannelNetowrks,
                  getRSSINetoworks, getHostByName, pingHost, setPowerMode, debug}
  BY <1>2 DEF startScanNetworks, getEncTypeNetowrks, getBSSIDNetowrks, getChannelNetowrks,
              getRSSINetoworks, getHostByName, pingHost, setPowerMode, debug
<1>3. CASE r \in {getNetworkData, getRemoteData, getScanNetworks, applyOTA}
  BY <1>3 DEF getNetworkData, getRemoteData, getScanNetworks, applyOTA
<1>4. ASSUME NEW n \in Lengths
      PROVE  /\ Words(wifiSetNetwork(n)) /\ Words(wifiSetApNetwork(n))
             /\ Words(setHostname(n)) /\ Words(reqHostByName(n)) /\ Words(downloadOTA(n))
  BY DEF wifiSetNetwork, wifiSetApNetwork, setHostname, reqHostByName, downloadOTA
<1>5. ASSUME NEW n \in Lengths, NEW m \in Lengths
      PROVE  /\ Words(wifiSetPassphrase(n, m)) /\ Words(wifiSetKey(n, m))
             /\ Words(wifiSetApPassphrase(n, m))
             /\ Words(downloadFile(n, m)) /\ Words(renameFile(n, m))
  BY DEF wifiSetPassphrase, wifiSetKey, wifiSetApPassphrase, downloadFile, renameFile
<1>6. ASSUME NEW n \in Lengths, NEW file PROVE Words(fileOperation(file, n))
  BY DEF fileOperation
<1>. QED
  BY <1>1, <1>2, <1>3, <1>4, <1>5, <1>6 DEF NetworkCommands

(* The commands of WiFiNINA that keep what the comment in each of them     *)
(* says ("pad to multiple of 4"), whatever the lengths of their parameters.*)
THEOREM CommandsAreWords ==
    ASSUME NEW Lengths, Lengths \subseteq Nat,
           NEW r \in SocketCommands(Lengths) \cup NetworkCommands(Lengths)
    PROVE  Words(r)
  BY SocketFrames, NetworkFrames

(* The others do not: pinMode, digitalWrite, analogWrite and               *)
(* wifiSetEnterprise never fill the word, writeFile only if its data is a  *)
(* number of words by itself.                                              *)
THEOREM OthersAreMisframed ==
    ASSUME NEW n \in 0 .. 255, NEW m \in Nat
    PROVE  /\ \A r \in {pinMode, digitalWrite, analogWrite} : ~Words(r)
           /\ ~Words(wifiSetEnterprise(n, n, n, n, m % 65536))
           /\ Words(writeFile(n, m)) <=> m % 4 = 0
<1>. USE DEF Words, OneParam, Exchange, sendCmd, sendParam, END_CMD, PadTo4
<1>1. \A r \in {pinMode, digitalWrite, analogWrite} : ~Words(r)
  BY DEF pinMode, digitalWrite, analogWrite
<1>2. ~Words(wifiSetEnterprise(n, n, n, n, m % 65536))
  BY DEF wifiSetEnterprise, sendBuffer
<1>3. Words(writeFile(n, m)) <=> m % 4 = 0
  BY DEF writeFile, sendParamNoLen
<1>. QED
  BY <1>1, <1>2, <1>3

-----------------------------------------------------------------------------
(* What the module has in its hands is a number of words if every request  *)
(* is.                                                                     *)
Framed ==
    /\ host \in {"ready", "select"} => request \in Requests
    /\ rx.bytes % 4 = 0

(* Every step keeps the frames: only whole commands reach the module.      *)
LEMMA FramedStep ==
    ASSUME \A r \in Requests : Words(r), Framed, [SpiNext]_spiVars
    PROVE  Framed'
<1>. USE DEF Framed
<1>1. CASE Call
  BY <1>1 DEF Call, moduleVars
<1>2. CASE waitForSlaveReady
  BY <1>2 DEF waitForSlaveReady
<1>3. CASE Send
  <2>1. rx' = rx \/ rx' = NoFrame \/ rx'.bytes = request.bytes + request.pad
    BY <1>3 DEF Send
  <2>2. (request.bytes + request.pad) % 4 = 0
    BY <1>3 DEF Send, Words
  <2>. QED
    BY <1>3, <2>1, <2>2 DEF Send, NoFrame
<1>4. CASE ReadReply
  BY <1>4 DEF ReadReply, NoFrame
<1>5. CASE ModuleSelected
  BY <1>5 DEF ModuleSelected, hostVars, moduleVars
<1>6. CASE ModuleDeselected
  BY <1>6 DEF ModuleDeselected, hostVars, NoFrame
<1>7. CASE ModuleAnswers
  BY <1>7 DEF ModuleAnswers, hostVars, NoFrame
<1>8. CASE ModuleUpdates \/ ModuleResets
  BY <1>8 DEF ModuleUpdates, ModuleResets, Restarts, hostVars, NoFrame
<1>9. CASE ModuleBoots
  BY <1>9 DEF ModuleBoots, hostVars
<1>10. CASE UNCHANGED spiVars
  BY <1>10 DEF spiVars, hostVars, moduleVars
<1>. QED
  BY <1>1, <1>2, <1>3, <1>4, <1>5, <1>6, <1>7, <1>8, <1>9, <1>10 DEF SpiNext, HostStep, ModuleStep

(* Every command on the bus is a number of words, for a rig that calls any *)
(* of the well framed driver functions with parameters of any length, and  *)
(* a module that resets itself any number of times.                        *)
THEOREM FramesAlwaysWords ==
    ASSUME Requests \subseteq SocketCommands(Nat) \cup NetworkCommands(Nat)
    PROVE  SpiSpec => []FramesAreWords
<1>1. \A r \in Requests : Words(r)
  BY CommandsAreWords
<1>2. SpiInit => Framed
  BY DEF SpiInit, Framed, NoFrame
<1>3. Framed /\ [SpiNext]_spiVars => Framed'
  BY <1>1, FramedStep
<1>4. Framed => FramesAreWords
  BY DEF Framed, FramesAreWords
<1>. QED
  BY <1>2, <1>3, <1>4, PTL DEF SpiSpec

-----------------------------------------------------------------------------
(* A command that the module has taken in for another purpose than to      *)
(* restart: somebody waits, or has waited, for the answer.                 *)
Answerable == \E r \in Requests : r.cmd = rx.cmd /\ r.wait # "Nothing"

(* Where the two sides can stand to each other.  A command that waits in   *)
(* the module is the one whose answer the driver waits for.  A module that *)
(* works on one whose answer was given up keeps SLAVEREADY high, so that   *)
(* the next command cannot begin before the reply is there to be clocked   *)
(* out under it.                                                           *)
InTouch ==
    /\ host \in {"ready", "select", "readyAgain", "selectAgain"} => request \in Requests
    /\ selected <=> host \in {"select", "selectAgain"}
    /\ module = "booting" => rx = NoFrame
    /\ module = "armed" /\ rx # NoFrame => SLAVEREADY = "HIGH"
    /\ Armed /\ rx # NoFrame /\ Answerable => host = "readyAgain" /\ rx.id = asked
    /\ module = "working" /\ Answerable =>
          \/ host \in {"readyAgain", "selectAgain"} /\ rx.id = asked
          \/ host \in {"idle", "ready"} /\ SLAVEREADY = "HIGH"
    /\ module = "answering" =>
          \/ tx.start = "ERR"
          \/ host \notin {"readyAgain", "selectAgain"}
          \/ host = "readyAgain" /\ SLAVEREADY # "LOW"
          \/ tx.id = asked
    /\ AnswersMatch

(* Idle bytes and ERR_CMD are no reply to any driver function.             *)
LEMMA NoReplyIsRefused ==
    ASSUME NEW r \in Requests, NEW p, p = Idling \/ p.start = "ERR"
    PROVE  ~TakesReply(r, p)
<1>1. r.wait \in {"Cmd", "Data8", "Data16", "Params", "List", "Nothing"}
  BY SpiAssumption
<1>2. ~Checked(r, p)
  BY DEF Checked, waitSpiChar, Idling
<1>. QED
  BY <1>1, <1>2 DEF TakesReply, waitResponseCmd, waitResponseData8, waitResponseData16,
                    waitResponseParams, waitResponse

(* A step of the driver keeps host and module in touch.                    *)
LEMMA InTouchHost ==
    ASSUME InTouch, HostStep
    PROVE  InTouch'
<1>. USE DEF InTouch, Armed, Answerable, AnswersMatch
<1>1. CASE Call
  BY <1>1 DEF Call, moduleVars
<1>2. CASE waitForSlaveReady
  BY <1>2 DEF waitForSlaveReady, AfterLate
<1>3. CASE Send
  <2>1. (SLAVEREADY = "HIGH" \/ module \in {"booting", "late"}) /\ module' = module
    BY <1>3 DEF Send, spiSlaveSelect
  <2>2. request \in Requests
    BY <1>3 DEF Send
  <2>3. CASE Armed
    <3>1. rx' = NoFrame \/ (rx'.cmd = request.cmd /\ rx'.id = asked)
      BY <1>3, <2>3 DEF Send
    <3>2. request.wait = "Nothing" => rx' = NoFrame \/ ~Answerable'
      BY <2>2, <3>1, SpiAssumption
    <3>. QED
      BY <1>3, <2>1, <2>2, <2>3, <3>1, <3>2 DEF Send
  <2>4. CASE ~Armed
    BY <1>3, <2>1, <2>2, <2>4 DEF Send
  <2>. QED
    BY <2>3, <2>4
<1>4. CASE ReadReply
  <2>1. (SLAVEREADY = "HIGH" \/ module \in {"booting", "late"}) /\ module' = module
    BY <1>4 DEF ReadReply, spiSlaveSelect
  <2>2. AnswersMatch'
    <3>1. ~TakesReply(request, Idling)
      BY <1>4, NoReplyIsRefused DEF ReadReply
    <3>2. CASE module = "answering"
      <4>1. TakesReply(request, tx) => tx.start # "ERR"
        BY <1>4, NoReplyIsRefused DEF ReadReply
      <4>. QED
        BY <1>4, <3>2, <4>1 DEF ReadReply
    <3>3. CASE module # "answering"
      BY <1>4, <3>1, <3>3 DEF ReadReply
    <3>. QED
      BY <3>2, <3>3
  <2>. QED
    BY <1>4, <2>1, <2>2 DEF ReadReply
<1>. QED
  BY <1>1, <1>2, <1>3, <1>4 DEF HostStep

(* So does a step of the module, and its reset.                            *)
LEMMA InTouchModule ==
    ASSUME InTouch, ModuleStep \/ ModuleResets
    PROVE  InTouch'
<1>. USE DEF InTouch, Armed, Answerable, AnswersMatch, hostVars
<1>1. CASE ModuleSelected
  BY <1>1 DEF ModuleSelected, moduleVars, Up
<1>2. CASE ModuleDeselected
  BY <1>2 DEF ModuleDeselected
<1>3. CASE ModuleAnswers
  <2>1. PICK r \in Requests : \E n \in {0, r.numParam} :
            /\ r.cmd = rx.cmd /\ r.wait # "Nothing"
            /\ tx' = IF rx.bytes % 4 = 0 THEN Reply(rx.cmd, n, rx.id)
                     ELSE [Idling EXCEPT !.start = "ERR"]
    BY <1>3 DEF ModuleAnswers
  <2>2. tx'.start = "ERR" \/ tx'.id = rx.id
    BY <2>1 DEF Reply, Idling
  <2>. QED
    BY <1>3, <2>1, <2>2 DEF ModuleAnswers
<1>4. CASE ModuleUpdates \/ ModuleResets
  BY <1>4 DEF ModuleUpdates, ModuleResets, Restarts
<1>5. CASE ModuleBoots
  BY <1>5 DEF ModuleBoots
<1>. QED
  BY <1>1, <1>2, <1>3, <1>4, <1>5 DEF ModuleStep

(* So does every step.                                                     *)
LEMMA InTouchStep ==
    ASSUME InTouch, [SpiNext]_spiVars
    PROVE  InTouch'
<1>1. CASE UNCHANGED spiVars
  BY <1>1 DEF spiVars, hostVars, moduleVars, InTouch, Armed, Answerable, AnswersMatch
<1>. QED
  BY <1>1, InTouchHost, InTouchModule DEF SpiNext

(* No driver function accepts the reply to another call, whatever is asked *)
(* for and however often the module resets itself.                         *)
THEOREM AnswersAlwaysMatch == SpiSpec => []AnswersMatch
<1>1. SpiInit => InTouch
  BY DEF SpiInit, InTouch, AnswersMatch, Armed, Answerable
<1>2. InTouch /\ [SpiNext]_spiVars => InTouch'
  BY InTouchStep
<1>3. InTouch => AnswersMatch
  BY DEF InTouch
<1>. QED
  BY <1>1, <1>2, <1>3, PTL DEF SpiSpec

-----------------------------------------------------------------------------
(* Every command has bytes, at the least START, its name and a number of   *)
(* parameters.                                                             *)
SomeBytes(r) == r.bytes + r.pad # 0

(* Every socket command has bytes.                                         *)
LEMMA SocketBytes ==
    ASSUME NEW Lengths, Lengths \subseteq Nat, NEW r \in SocketCommands(Lengths)
    PROVE  SomeBytes(r)
<1>1. CASE r \in {startServer, startServerIp, startClient, stopClient, getServerState,
                  getClientState, availData, availServer, getData, getDataBuf, sendUdpData,
                  checkDataSent, getSocket}
  BY <1>1 DEF startServer, startServerIp, startClient, stopClient, getServerState,
              getClientState, availData, availServer, getData, getDataBuf, sendUdpData,
              checkDataSent, getSocket, SomeBytes, OneByte, OneParam, Exchange, Bare, sendCmd,
              sendParam, sendBuffer, sendParam16, END_CMD
<1>2. ASSUME NEW n \in Lengths PROVE SomeBytes(startClientHost(n))
  BY DEF startClientHost, SomeBytes, OneParam, Exchange, sendCmd, sendParam, sendParam16, END_CMD,
         PadTo4
<1>3. ASSUME NEW n \in Lengths PROVE SomeBytes(insertDataBuf(n)) /\ SomeBytes(sendData(n))
  BY DEF insertDataBuf, sendData, SomeBytes, Exchange, sendCmd, sendBuffer, END_CMD, PadTo4
<1>. QED
  BY <1>1, <1>2, <1>3 DEF SocketCommands

(* And every other command.                                                *)
LEMMA NetworkBytes ==
    ASSUME NEW Lengths, Lengths \subseteq Nat, NEW r \in NetworkCommands(Lengths)
    PROVE  SomeBytes(r)
<1>. USE DEF SomeBytes, OneByte, OneParam, Exchange, Bare, sendCmd, sendParam, END_CMD, PadTo4
<1>1. CASE r \in {config, setDNS, disconnectWiFi, getConnectionStatus, getReasonCode,
                  getMacAddress, getCurrentSSID, getCurrentBSSID, getCurrentRSSI,
                  getCurrentEncryptionType, getFwVersion, getTime, getTemperature}
  BY <1>1 DEF config, setDNS, disconnectWiFi, getConnectionStatus, getReasonCode,
              getMacAddress, getCurrentSSID, getCurrentBSSID, getCurrentRSSI,
              getCurrentEncryptionType, getFwVersion, getTime, getTemperature
<1>2. CASE r \in {startScanNetworks, getEncTypeNetowrks, getBSSIDNetowrks, getChannelNetowrks,
                  getRSSINetoworks, getHostByName, pingHost, setPowerMode, debug}
  BY <1>2 DEF startScanNetworks, getEncTypeNetowrks, getBSSIDNetowrks, getChannelNetowrks,
              getRSSINetoworks, getHostByName, pingHost, setPowerMode, debug
<1>3. CASE r \in {getNetworkData, getRemoteData, getScanNetworks, applyOTA}
  BY <1>3 DEF getNetworkData, getRemoteData, getScanNetworks, applyOTA
<1>4. ASSUME NEW n \in Lengths
      PROVE  /\ SomeBytes(wifiSetNetwork(n)) /\ SomeBytes(wifiSetApNetwork(n))
             /\ SomeBytes(setHostname(n)) /\ SomeBytes(reqHostByName(n)) /\ SomeBytes(downloadOTA(n))
  BY DEF wifiSetNetwork, wifiSetApNetwork, setHostname, reqHostByName, downloadOTA
<1>5. ASSUME NEW n \in Lengths, NEW m \in Lengths
      PROVE  /\ SomeBytes(wifiSetPassphrase(n, m)) /\ SomeBytes(wifiSetKey(n, m))
             /\ SomeBytes(wifiSetApPassphrase(n, m))
             /\ SomeBytes(downloadFile(n, m)) /\ SomeBytes(renameFile(n, m))
  BY DEF wifiSetPassphrase, wifiSetKey, wifiSetApPassphrase, downloadFile, renameFile
<1>6. ASSUME NEW n \in Lengths, NEW file PROVE SomeBytes(fileOperation(file, n))
  BY DEF fileOperation
<1>. QED
  BY <1>1, <1>2, <1>3, <1>4, <1>5, <1>6 DEF NetworkCommands

(* Every command that keeps its padding has bytes, whatever its lengths.   *)
LEMMA CommandBytes ==
    ASSUME NEW r \in SocketCommands(Nat) \cup NetworkCommands(Nat)
    PROVE  SomeBytes(r)
  BY SocketBytes, NetworkBytes

-----------------------------------------------------------------------------
(* The driver is about to clock in a reply.                                *)
Waits == host = "selectAgain" \/ (host = "readyAgain" /\ SLAVEREADY # "HIGH")

(* Exchanges that may still go without an answer are already counted in    *)
(* the bounds on lost.  An answer that the driver gave up costs the next   *)
(* exchange: its command is clocked in under that answer and dropped.  The *)
(* driver gives up an answer only if it selects a module that still works, *)
(* and it does so only with a module that came up under selection.         *)
Counted ==
    /\ lost \in 0 .. 2
    /\ module = "working" /\ Answerable =>
          (host \in {"idle", "ready"} => lost <= 1) /\ (Waits => lost = 0)
    /\ module = "answering" /\ ~Waits => lost <= 1
    /\ Armed /\ rx = NoFrame /\ host \in {"readyAgain", "selectAgain"} => lost <= 1
    /\ module = "late" /\ (host = "select" \/ (host = "readyAgain" /\ rx # NoFrame)) => lost = 0

(* A module works on a command it has and answers with more than idle      *)
(* bytes; nobody reads the reply to a command that has none.               *)
Attentive ==
    /\ module \in {"armed", "late", "working", "answering", "booting"}
    /\ module = "answering" => tx # Idling
    /\ module = "working" => rx # NoFrame
    /\ module = "late" /\ selected => rx = NoFrame
    /\ Armed /\ rx # NoFrame /\ ~Answerable => host \in {"idle", "ready"}
    /\ module = "working" /\ ~Answerable =>
          host \in {"idle", "ready", "select", "readyAgain"} /\ ~Waits

SpiInv == InTouch /\ Attentive /\ Counted

(* The module has not given up a command that the host still sends.        *)
LEMMA AttentiveStep ==
    ASSUME \A r \in Requests : SomeBytes(r), SpiInv, [SpiNext]_spiVars
    PROVE  Attentive'
<1>. USE DEF SpiInv, InTouch, Attentive, Waits, Armed, Answerable, hostVars, moduleVars
<1>1. CASE Call
  BY <1>1 DEF Call
<1>2. CASE waitForSlaveReady
  BY <1>2 DEF waitForSlaveReady, AfterLate
<1>3. CASE Send
  <2>1. (SLAVEREADY = "HIGH" \/ module \in {"booting", "late"}) /\ UNCHANGED <<module, SLAVEREADY>>
    BY <1>3 DEF Send, spiSlaveSelect
  <2>2. request \in Requests /\ host = "select" /\ ~selected'
    BY <1>3 DEF Send
  <2>3. CASE Armed
    <3>1. \/ rx' = NoFrame
          \/ rx'.cmd = request.cmd
      BY <1>3, <2>3 DEF Send
    <3>2. request.wait # "Nothing" => rx' = NoFrame \/ Answerable'
      BY <2>2, <3>1
    <3>3. request.wait = "Nothing" => host' = "idle"
      BY <1>3 DEF Send
    <3>. QED
      BY <2>1, <2>2, <2>3, <3>2, <3>3
  <2>4. CASE ~Armed
    BY <1>3, <2>1, <2>2, <2>4 DEF Send
  <2>. QED
    BY <2>3, <2>4
<1>4. CASE ReadReply
  BY <1>4 DEF ReadReply, spiSlaveSelect
<1>5. CASE ModuleSelected
  BY <1>5 DEF ModuleSelected, Up
<1>6. CASE ModuleDeselected
  BY <1>6 DEF ModuleDeselected
<1>7. CASE ModuleAnswers
  <2>1. tx'.start \in {"START", "ERR"}
    BY <1>7 DEF ModuleAnswers, Reply, Idling
  <2>2. tx' # Idling
    BY <2>1 DEF Idling
  <2>. QED
    BY <1>7, <2>2 DEF ModuleAnswers
<1>8. CASE ModuleUpdates \/ ModuleResets
  BY <1>8 DEF ModuleUpdates, ModuleResets, Restarts
<1>9. CASE ModuleBoots
  BY <1>9 DEF ModuleBoots
<1>10. CASE UNCHANGED spiVars
  BY <1>10 DEF spiVars
<1>. QED
  BY <1>1, <1>2, <1>3, <1>4, <1>5, <1>6, <1>7, <1>8, <1>9, <1>10 DEF SpiNext, HostStep, ModuleStep

(* The module has taken as many bytes as the host has sent it, or one      *)
(* less, until it has noticed the selection.                               *)
LEMMA CountedStep ==
    ASSUME \A r \in Requests : SomeBytes(r), SpiInv, [SpiNext]_spiVars
    PROVE  Counted'
<1>. USE DEF SpiInv, InTouch, Attentive, Counted, Waits, Armed, Answerable, hostVars, moduleVars
<1>1. CASE Call
  BY <1>1 DEF Call
<1>2. CASE waitForSlaveReady
  BY <1>2 DEF waitForSlaveReady, AfterLate
<1>3. CASE Send
  <2>1. (SLAVEREADY = "HIGH" \/ module \in {"booting", "late"}) /\ UNCHANGED <<module, SLAVEREADY, lost>>
    BY <1>3 DEF Send, spiSlaveSelect
  <2>2. request \in Requests /\ host = "select" /\ host' \in {"idle", "readyAgain"}
    BY <1>3 DEF Send
  <2>3. CASE module = "late"
    BY <2>1, <2>2, <2>3
  <2>4. CASE module = "armed"
    <3>1. rx'.bytes = request.bytes + request.pad
      BY <1>3, <2>4 DEF Send
    <3>2. rx' # NoFrame
      BY <2>2, <3>1 DEF NoFrame, SomeBytes
    <3>. QED
      BY <2>1, <2>2, <2>4, <3>2
  <2>5. CASE ~Armed
    BY <1>3, <2>1, <2>2, <2>5 DEF Send
  <2>. QED
    BY <2>3, <2>4, <2>5
<1>4. CASE ReadReply
  <2>1. /\ SLAVEREADY = "HIGH" \/ module \in {"booting", "late"}
        /\ host = "selectAgain" /\ host' = "idle" /\ UNCHANGED <<module, SLAVEREADY>>
        /\ rx' = IF Armed THEN NoFrame ELSE rx
    BY <1>4 DEF ReadReply, spiSlaveSelect
  <2>2. lost' \in {0, lost} \/ (lost' = lost + 1 /\ Up /\ lost < 3)
    BY <1>4 DEF ReadReply
  <2>3. CASE module \in {"booting", "armed", "late"}
    BY <2>1, <2>2, <2>3 DEF Up
  <2>4. CASE module = "working"
    BY <2>1, <2>2, <2>4
  <2>5. CASE module = "answering"
    <3>1. lost' = 0
      BY <1>4, <2>5 DEF ReadReply
    <3>. QED
      BY <2>1, <2>5, <3>1
  <2>. QED
    BY <2>3, <2>4, <2>5
<1>5. CASE ModuleSelected
  BY <1>5 DEF ModuleSelected, Up
<1>6. CASE ModuleDeselected
  BY <1>6 DEF ModuleDeselected
<1>7. CASE ModuleAnswers
  BY <1>7 DEF ModuleAnswers
<1>8. CASE ModuleUpdates \/ ModuleResets
  BY <1>8 DEF ModuleUpdates, ModuleResets, Restarts
<1>9. CASE ModuleBoots
  BY <1>9 DEF ModuleBoots
<1>10. CASE UNCHANGED spiVars
  BY <1>10 DEF spiVars
<1>. QED
  BY <1>1, <1>2, <1>3, <1>4, <1>5, <1>6, <1>7, <1>8, <1>9, <1>10 DEF SpiNext, HostStep, ModuleStep

(* A reset of the module costs two answers at most, for any driver         *)
(* functions, in whatever order they are called, and any number of resets: *)
(* a command has bytes, as those of WiFiNINA do (CommandBytes).            *)
THEOREM AlwaysFindsModuleAgain ==
    ASSUME \A r \in Requests : SomeBytes(r)
    PROVE  SpiSpec => []FindsModuleAgain
<1>1. SpiInit => SpiInv
  BY DEF SpiInit, SpiInv, InTouch, Attentive, Counted, Waits, Armed, Answerable, AnswersMatch
<1>2. SpiInv /\ [SpiNext]_spiVars => SpiInv'
  BY InTouchStep, AttentiveStep, CountedStep DEF SpiInv
<1>3. SpiInv => FindsModuleAgain
  BY DEF SpiInv, Counted, FindsModuleAgain
<1>. QED
  BY <1>1, <1>2, <1>3, PTL DEF SpiSpec

-----------------------------------------------------------------------------
Byte == Nat \X Nat
TcpTypeOK ==
    /\ tcp \in [Sockets -> {"FREE", "ESTABLISHED", "CLOSE_WAIT"}]
    /\ waiting \in [Sockets -> Seq(Byte)]
    /\ conn \in Nat /\ peerSent \in Nat
    /\ _sock \in Sockets \cup {NO_SOCKET_AVAIL}
    /\ _buffers \in [Sockets -> [data : BOOLEAN, bytes : Seq(Byte)]]
    /\ got \in Seq(Byte) /\ missed \in Nat

(* The packets from + 1, from + 2, ... of connection c.                    *)
InOrder(c, q, from) == \A i \in 1 .. Len(q) : q[i] = <<c, from + i>>

Connected == _sock \in Sockets
Held == _buffers[_sock].bytes
Coming == waiting[_sock]

(* Whoever is about to talk to the module about a socket has one, and who  *)
(* asks for one has none; a question knows who asked it.                   *)
Stages ==
    /\ op \in {"status", "sendData", "stop"} => Connected
    /\ op = "getSocket" => ~Connected /\ caller = "connect"
    /\ op \in {"available", "status"} => caller \in {"loop", "connect", "read", "publish"}

(* Nothing of an earlier connection is left where the next one will look.  *)
NothingLeft ==
    /\ \A s \in Sockets : tcp[s] = "FREE" => waiting[s] = <<>>
    /\ \A s \in Sockets : s # _sock => _buffers[s].bytes = <<>>

(* While no reply has failed, what was read, what is buffered and what the *)
(* module has follow one another, up to the last byte the peer sent.       *)
Contiguous ==
    missed = 0 =>
        /\ InOrder(conn, got, 0)
        /\ Connected =>
              /\ InOrder(conn, Held, Len(got))
              /\ InOrder(conn, Coming, Len(got) + Len(Held))
              /\ tcp[_sock] = "ESTABLISHED" => peerSent = Len(got) + Len(Held) + Len(Coming)

(* Whatever has failed, the bytes that were sent are of this connection    *)
(* and come in the order they were sent in.                                *)
Rising(c, q) ==
    /\ \A i \in 1 .. Len(q) : q[i] # Unsent => q[i][1] = c
    /\ \A i \in 1 .. Len(q) : \A j \in 1 .. i - 1 :
          q[i] # Unsent /\ q[j] # Unsent => q[j][2] < q[i][2]
Precedes(p, q) ==
    \A i \in 1 .. Len(p), j \in 1 .. Len(q) :
        p[i] # Unsent /\ q[j] # Unsent => p[i][2] < q[j][2]
UpTo(n, q) == \A i \in 1 .. Len(q) : q[i] # Unsent => q[i][2] <= n

OneStream ==
    /\ Rising(conn, got)
    /\ Connected =>
          /\ Rising(conn, Held) /\ Rising(conn, Coming)
          /\ Precedes(got, Held) /\ Precedes(got, Coming) /\ Precedes(Held, Coming)
          /\ UpTo(peerSent, got) /\ UpTo(peerSent, Held) /\ UpTo(peerSent, Coming)

TcpInv == TcpTypeOK /\ Stages /\ NothingLeft /\ Contiguous /\ OneStream

(* The code has ten sockets: 255, which stands for none, is not one.      *)
FewSockets == MaxSock <= 255

(* No socket of the module has the number that stands for none.            *)
LEMMA NotASocket ==
    ASSUME FewSockets
    PROVE  NO_SOCKET_AVAIL \notin Sockets
  BY ClientAssumption DEF FewSockets, Sockets, NO_SOCKET_AVAIL

-----------------------------------------------------------------------------
(* A part of a stream, and the rest of it, are still in order.             *)
LEMMA Splits ==
    ASSUME NEW c, NEW q \in Seq(Byte), NEW from \in Nat, NEW n \in 0 .. Len(q),
           InOrder(c, q, from)
    PROVE  /\ SubSeq(q, 1, n) \in Seq(Byte) /\ Len(SubSeq(q, 1, n)) = n
           /\ SubSeq(q, n + 1, Len(q)) \in Seq(Byte)
           /\ Len(SubSeq(q, n + 1, Len(q))) = Len(q) - n
           /\ InOrder(c, SubSeq(q, 1, n), from)
           /\ InOrder(c, SubSeq(q, n + 1, Len(q)), from + n)
<1>1. SubSeq(q, 1, n) \in Seq(Byte) /\ Len(SubSeq(q, 1, n)) = n
  OBVIOUS
<1>2. SubSeq(q, n + 1, Len(q)) \in Seq(Byte) /\ Len(SubSeq(q, n + 1, Len(q))) = Len(q) - n
  OBVIOUS
<1>3. InOrder(c, SubSeq(q, 1, n), from)
  <2>1. \A i \in 1 .. n : SubSeq(q, 1, n)[i] = q[i]
    OBVIOUS
  <2>2. 1 .. n \subseteq 1 .. Len(q)
    OBVIOUS
  <2>. QED
    BY <1>1, <2>1, <2>2 DEF InOrder
<1>4. InOrder(c, SubSeq(q, n + 1, Len(q)), from + n)
  <2>1. \A i \in 1 .. Len(q) - n : SubSeq(q, n + 1, Len(q))[i] = q[n + i]
    OBVIOUS
  <2>2. \A i \in 1 .. Len(q) - n : n + i \in 1 .. Len(q) /\ from + (n + i) = (from + n) + i
    OBVIOUS
  <2>. QED
    BY <1>2, <2>1, <2>2 DEF InOrder
<1>. QED
  BY <1>1, <1>2, <1>3, <1>4

(* Nor is a byte of one part before a byte of the other.                   *)
LEMMA Parts ==
    ASSUME NEW c, NEW q \in Seq(Byte), NEW n \in 0 .. Len(q), NEW m, NEW p,
           Rising(c, q), UpTo(m, q), Precedes(p, q)
    PROVE  /\ Rising(c, SubSeq(q, 1, n)) /\ Rising(c, SubSeq(q, n + 1, Len(q)))
           /\ Precedes(p, SubSeq(q, 1, n)) /\ Precedes(p, SubSeq(q, n + 1, Len(q)))
           /\ Precedes(SubSeq(q, 1, n), SubSeq(q, n + 1, Len(q)))
           /\ UpTo(m, SubSeq(q, 1, n)) /\ UpTo(m, SubSeq(q, n + 1, Len(q)))
<1>. DEFINE first == SubSeq(q, 1, n)
            rest == SubSeq(q, n + 1, Len(q))
<1>1. Len(first) = n /\ \A i \in 1 .. n : first[i] = q[i]
  OBVIOUS
<1>2. Len(rest) = Len(q) - n /\ \A i \in 1 .. Len(q) - n : rest[i] = q[n + i]
  OBVIOUS
<1>3. /\ \A i \in 1 .. n : i \in 1 .. Len(q)
      /\ \A i \in 1 .. Len(q) - n : n + i \in 1 .. Len(q)
      /\ \A i \in 1 .. n : \A j \in 1 .. i - 1 : j \in 1 .. n
      /\ \A i \in 1 .. Len(q) - n : \A j \in 1 .. i - 1 :
            j \in 1 .. Len(q) - n /\ n + j \in 1 .. (n + i) - 1
      /\ \A i \in 1 .. n, j \in 1 .. Len(q) - n : i \in 1 .. (n + j) - 1
  OBVIOUS
<1>. HIDE DEF first, rest
<1>4. Rising(c, first) /\ UpTo(m, first) /\ Precedes(p, first)
  BY <1>1, <1>3 DEF Rising, UpTo, Precedes
<1>5. Rising(c, rest) /\ UpTo(m, rest) /\ Precedes(p, rest)
  BY <1>2, <1>3 DEF Rising, UpTo, Precedes
<1>6. Precedes(first, rest)
  BY <1>1, <1>2, <1>3 DEF Rising, Precedes
<1>. QED
  BY <1>4, <1>5, <1>6 DEF first, rest

(* A stream goes on with a byte that comes after all others.               *)
LEMMA Appended ==
    ASSUME NEW c, NEW q \in Seq(Byte), NEW b \in Byte, Rising(c, q),
           b # Unsent => b[1] = c,
           \A j \in 1 .. Len(q) : q[j] # Unsent /\ b # Unsent => q[j][2] < b[2]
    PROVE  Rising(c, Append(q, b))
<1>. DEFINE new == Append(q, b)
<1>1. /\ Len(new) = Len(q) + 1 /\ new[Len(q) + 1] = b
      /\ \A i \in 1 .. Len(q) : new[i] = q[i]
  OBVIOUS
<1>2. \A i \in 1 .. Len(q) + 1 : i \in 1 .. Len(q) \/ i = Len(q) + 1
  OBVIOUS
<1>. HIDE DEF new
<1>3. ASSUME NEW i \in 1 .. Len(new)
      PROVE  /\ new[i] # Unsent => new[i][1] = c
             /\ \A j \in 1 .. i - 1 : new[i] # Unsent /\ new[j] # Unsent => new[j][2] < new[i][2]
  <2>1. CASE i \in 1 .. Len(q)
    <3>1. \A j \in 1 .. i - 1 : j \in 1 .. Len(q)
      BY <2>1
    <3>. QED
      BY <1>1, <2>1, <3>1 DEF Rising
  <2>2. CASE i = Len(q) + 1
    <3>1. \A j \in 1 .. i - 1 : j \in 1 .. Len(q)
      BY <2>2
    <3>. QED
      BY <1>1, <2>2, <3>1
  <2>. QED
    BY <1>1, <1>2, <2>1, <2>2
<1>. QED
  BY <1>3 DEF Rising, new

(* What nobody sent is before and after anything.                          *)
LEMMA StaleParts ==
    ASSUME NEW c, NEW m, NEW p
    PROVE  /\ Stale \in Seq(Byte) /\ Rising(c, Stale) /\ UpTo(m, Stale)
           /\ Precedes(p, Stale) /\ Precedes(Stale, p)
<1>1. Unsent \in Byte /\ BufferSize \in Nat
  BY ClientAssumption DEF Unsent, Byte
<1>2. Stale \in Seq(Byte) /\ Len(Stale) = BufferSize
      /\ \A i \in 1 .. BufferSize : Stale[i] = Unsent
  BY <1>1 DEF Stale
<1>. QED
  BY <1>2 DEF Rising, UpTo, Precedes

(* getDataBuf moves the first of what the module has into an empty buffer, *)
(* or fills the buffer with what nobody sent.                              *)
LEMMA Fetches ==
    ASSUME FewSockets, TcpInv, Connected, Held = <<>>, NEW b \in Received(_sock),
           getDataBufInto(_sock, b), UNCHANGED <<tcp, conn, peerSent, _sock, got>>
    PROVE  TcpTypeOK' /\ NothingLeft' /\ Contiguous' /\ OneStream'
<1>. DEFINE n == Size(_sock)
            rest == SubSeq(Coming, n + 1, Len(Coming))
<1>1. /\ n \in 0 .. Len(Coming) /\ Coming \in Seq(Byte) /\ got \in Seq(Byte) /\ conn \in Nat
      /\ missed \in Nat /\ missed' \in Nat
  BY ClientAssumption DEF TcpInv, TcpTypeOK, Size, Connected, Coming, getDataBufInto
<1>2. /\ _buffers' = [_buffers EXCEPT ![_sock] = [data |-> TRUE, bytes |-> b]]
      /\ \/ b = Stale /\ missed' = missed + 1
            /\ waiting' \in {waiting, [waiting EXCEPT ![_sock] = rest]}
         \/ b = SubSeq(Coming, 1, n) /\ missed' = missed
            /\ waiting' = [waiting EXCEPT ![_sock] = rest]
  BY DEF getDataBufInto, Received, Fetched, Rest, Coming
<1>3. waiting' \in {waiting, [waiting EXCEPT ![_sock] = rest]}
  BY <1>2
<1>. HIDE DEF n
<1>4. /\ SubSeq(Coming, 1, n) \in Seq(Byte) /\ Len(SubSeq(Coming, 1, n)) = n
      /\ rest \in Seq(Byte) /\ Len(rest) = Len(Coming) - n
  BY <1>1
<1>. HIDE DEF rest
<1>5. b \in Seq(Byte)
  BY <1>2, <1>4, StaleParts
<1>6. TcpTypeOK'
  BY <1>1, <1>2, <1>3, <1>4, <1>5 DEF TcpInv, TcpTypeOK
<1>7. NothingLeft'
  <2>1. ASSUME NEW s \in Sockets, tcp[s] = "FREE" PROVE waiting'[s] = <<>>
    <3>1. CASE s = _sock
      <4>1. Coming = <<>>
        BY <2>1, <3>1 DEF TcpInv, NothingLeft, Coming
      <4>2. rest = <<>>
        BY <1>1, <1>4, <4>1
      <4>. QED
        BY <1>3, <3>1, <4>1, <4>2 DEF TcpInv, TcpTypeOK, Coming
    <3>2. CASE s # _sock
      BY <1>3, <2>1, <3>2 DEF TcpInv, TcpTypeOK, NothingLeft
    <3>. QED
      BY <3>1, <3>2
  <2>. QED
    BY <1>2, <2>1 DEF TcpInv, TcpTypeOK, NothingLeft
<1>8. Held' = b /\ Coming' \in {Coming, rest}
  BY <1>2, <1>3 DEF TcpInv, TcpTypeOK, Held, Coming, Connected
<1>9. Contiguous'
  <2>1. SUFFICES ASSUME missed' = 0 PROVE Contiguous'
    BY DEF Contiguous
  <2>2. b = SubSeq(Coming, 1, n) /\ missed = 0 /\ waiting' = [waiting EXCEPT ![_sock] = rest]
    BY <1>1, <1>2, <2>1
  <2>3. Coming' = rest
    BY <2>2 DEF TcpInv, TcpTypeOK, Coming, Connected
  <2>4. Len(got) \in Nat /\ Len(Held) = 0 /\ peerSent \in Nat
    BY <1>1 DEF TcpInv, TcpTypeOK
  <2>5. InOrder(conn, got, 0) /\ InOrder(conn, Coming, Len(got))
    BY <2>2, <2>4 DEF TcpInv, Contiguous
  <2>6. InOrder(conn, b, Len(got)) /\ InOrder(conn, rest, Len(got) + n)
    BY <1>1, <2>2, <2>4, <2>5, Splits DEF rest
  <2>7. InOrder(conn', got', 0) /\ InOrder(conn', Held', Len(got'))
    BY <1>8, <2>5, <2>6
  <2>8. Len(got) + Len(b) = Len(got) + n
    BY <1>4, <2>2
  <2>9. InOrder(conn', Coming', Len(got') + Len(Held'))
    BY <1>8, <2>3, <2>6, <2>8
  <2>10. tcp'[_sock'] = "ESTABLISHED" => peerSent' = Len(got') + Len(Held') + Len(Coming')
    <3>1. tcp[_sock] = "ESTABLISHED" => peerSent = Len(got) + Len(Held) + Len(Coming)
      BY <2>2 DEF TcpInv, Contiguous
    <3>2. Len(Coming) \in Nat /\ n \in Nat
      BY <1>1
    <3>3. Len(Held') = n /\ Len(Coming') = Len(Coming) - n
      BY <1>4, <1>8, <2>2, <2>3
    <3>4. Len(got) + Len(Held) + Len(Coming) = Len(got) + n + (Len(Coming) - n)
      BY <2>4, <3>2
    <3>. QED
      BY <3>1, <3>3, <3>4
  <2>. QED
    BY <2>7, <2>9, <2>10 DEF Contiguous
<1>10. OneStream'
  <2>1. /\ Rising(conn, got) /\ Rising(conn, Coming) /\ Precedes(got, Coming)
        /\ UpTo(peerSent, got) /\ UpTo(peerSent, Coming)
    BY DEF TcpInv, OneStream
  <2>2. /\ Rising(conn, SubSeq(Coming, 1, n)) /\ Rising(conn, rest)
        /\ Precedes(got, SubSeq(Coming, 1, n)) /\ Precedes(got, rest)
        /\ Precedes(SubSeq(Coming, 1, n), rest)
        /\ UpTo(peerSent, SubSeq(Coming, 1, n)) /\ UpTo(peerSent, rest)
    BY <1>1, <2>1, Parts DEF rest
  <2>3. CASE b = Stale
    BY <1>8, <2>1, <2>2, <2>3, StaleParts DEF OneStream
  <2>4. CASE b # Stale
    <3>1. b = SubSeq(Coming, 1, n) /\ waiting' = [waiting EXCEPT ![_sock] = rest]
      BY <1>2, <2>4
    <3>2. Coming' = rest
      BY <3>1 DEF TcpInv, TcpTypeOK, Coming, Connected
    <3>. QED
      BY <1>8, <2>1, <2>2, <3>1, <3>2 DEF OneStream
  <2>. QED
    BY <2>3, <2>4
<1>. QED
  BY <1>6, <1>7, <1>9, <1>10

(* What follows connected(), and what follows a packet: a question that    *)
(* found a socket open may be followed by any step, another by none that   *)
(* needs one.                                                              *)
LEMMA ReturnsStage ==
    ASSUME op \in {"available", "status"}, Stages, UNCHANGED _sock,
           \/ Returns(TRUE) /\ Connected
           \/ Returns(FALSE)
    PROVE  Stages'
<1>1. op' \in {"idle", "read"} \/ (op' = "sendData" /\ Connected)
  BY DEF Stages, Returns, Resumes, goes
<1>. QED
  BY <1>1 DEF Stages, Connected

(* WiFiClient::available moves bytes from the module to the buffer, in     *)
(* order.                                                                  *)
LEMMA availableStep ==
    ASSUME FewSockets, TcpInv, available
    PROVE  TcpInv'
<1>. UNCHANGED <<tcp, conn, peerSent, _sock, got>> /\ op = "available"
  BY DEF available
<1>1. CASE _sock = NO_SOCKET_AVAIL
  <2>1. Returns(FALSE) /\ UNCHANGED <<_buffers, waiting, missed>>
    BY <1>1 DEF available
  <2>2. Stages'
    BY <2>1, ReturnsStage DEF TcpInv
  <2>. QED
    BY <2>1, <2>2 DEF TcpInv, TcpTypeOK, NothingLeft, Contiguous, OneStream, Connected, Held, Coming
<1>2. CASE _sock # NO_SOCKET_AVAIL /\ Held # <<>>
  <2>1. Returns(TRUE) /\ UNCHANGED <<_buffers, waiting, missed>> /\ Connected
    BY <1>2 DEF available, Held, TcpInv, TcpTypeOK, Connected
  <2>2. Stages'
    BY <2>1, ReturnsStage DEF TcpInv
  <2>. QED
    BY <2>1, <2>2 DEF TcpInv, TcpTypeOK, NothingLeft, Contiguous, OneStream, Connected, Held, Coming
<1>3. CASE _sock # NO_SOCKET_AVAIL /\ Held = <<>>
  <2>1. PICK b \in Received(_sock) :
            /\ getDataBufInto(_sock, b)
            /\ IF b # <<>> THEN Returns(TRUE) ELSE goes("status", caller) /\ UNCHANGED inUse
    BY <1>3 DEF available, Held
  <2>2. Connected
    BY <1>3 DEF TcpInv, TcpTypeOK, Connected
  <2>3. TcpTypeOK' /\ NothingLeft' /\ Contiguous' /\ OneStream'
    BY <1>3, <2>1, <2>2, Fetches
  <2>4. CASE b # <<>>
    BY <2>1, <2>2, <2>3, <2>4, ReturnsStage DEF TcpInv
  <2>5. CASE b = <<>>
    <3>1. op' = "status" /\ caller' = caller
      BY <2>1, <2>5 DEF goes
    <3>2. Stages'
      BY <2>2, <3>1 DEF TcpInv, Stages, Connected
    <3>. QED
      BY <2>3, <3>2 DEF TcpInv
  <2>. QED
    BY <2>4, <2>5
<1>. QED
  BY <1>1, <1>2, <1>3

(* The socket goes, and what was buffered for it.                          *)
LEMMA GivesUp ==
    ASSUME FewSockets, TcpInv, Connected,
           _sock' = NO_SOCKET_AVAIL, _buffers' = bufferClose(_sock),
           UNCHANGED <<conn, peerSent, got, missed>>,
           \/ UNCHANGED <<tcp, waiting>>
           \/ /\ tcp' = [tcp EXCEPT ![_sock] = "FREE"]
              /\ waiting' = [waiting EXCEPT ![_sock] = <<>>]
    PROVE  TcpTypeOK' /\ NothingLeft' /\ Contiguous' /\ OneStream' /\ ~Connected'
<1>1. _buffers' = [_buffers EXCEPT ![_sock] = [data |-> FALSE, bytes |-> <<>>]]
  BY DEF bufferClose, NoBuffer
<1>2. TcpTypeOK'
  <2>1. _buffers' \in [Sockets -> [data : BOOLEAN, bytes : Seq(Byte)]]
    <3>1. [data |-> FALSE, bytes |-> <<>>] \in [data : BOOLEAN, bytes : Seq(Byte)]
      OBVIOUS
    <3>. QED
      BY <1>1, <3>1 DEF TcpInv, TcpTypeOK
  <2>2. tcp' \in [Sockets -> {"FREE", "ESTABLISHED", "CLOSE_WAIT"}]
    BY DEF TcpInv, TcpTypeOK
  <2>3. waiting' \in [Sockets -> Seq(Byte)]
    <3>1. <<>> \in Seq(Byte)
      OBVIOUS
    <3>. QED
      BY <3>1 DEF TcpInv, TcpTypeOK
  <2>. QED
    BY <2>1, <2>2, <2>3 DEF TcpInv, TcpTypeOK
<1>3. ~Connected'
  BY NotASocket DEF Connected
<1>4. \A s \in Sockets : _buffers'[s].bytes = <<>>
  BY <1>1 DEF TcpInv, TcpTypeOK, NothingLeft
<1>5. \A s \in Sockets : tcp'[s] = "FREE" => waiting'[s] = <<>>
  BY DEF TcpInv, TcpTypeOK, NothingLeft
<1>. QED
  BY <1>2, <1>3, <1>4, <1>5 DEF TcpInv, NothingLeft, Contiguous, OneStream

(* WiFiClient::connected gives up a socket only when nothing is left of    *)
(* it.                                                                     *)
LEMMA statusStep ==
    ASSUME FewSockets, TcpInv, status
    PROVE  TcpInv'
<1>1. Connected /\ UNCHANGED <<conn, peerSent, got, missed>> /\ op = "status"
  BY DEF TcpInv, Stages, status
<1>2. PICK open \in {StillOpen(_sock)} \cup {FALSE : l \in Lost} :
          /\ Returns(open)
          /\ IF open
             THEN UNCHANGED <<_sock, _buffers>>
             ELSE _sock' = NO_SOCKET_AVAIL /\ _buffers' = bufferClose(_sock)
  BY DEF status
<1>3. CASE open
  <2>1. open = TRUE /\ StillOpen(_sock)
    BY <1>2, <1>3 DEF StillOpen
  <2>2. UNCHANGED <<tcp, waiting, _sock, _buffers>>
    BY <1>2, <1>3, <2>1 DEF status
  <2>3. Stages'
    BY <1>1, <1>2, <2>1, <2>2, ReturnsStage DEF TcpInv
  <2>. QED
    BY <1>1, <2>2, <2>3 DEF TcpInv, TcpTypeOK, NothingLeft, Contiguous, OneStream, Connected, Held, Coming
<1>4. CASE ~open
  <2>1. open = FALSE
    BY <1>2, <1>4 DEF StillOpen
  <2>2. \/ UNCHANGED <<tcp, waiting>>
        \/ /\ tcp' = [tcp EXCEPT ![_sock] = "FREE"]
           /\ waiting' = [waiting EXCEPT ![_sock] = <<>>]
    BY DEF status
  <2>3. TcpTypeOK' /\ NothingLeft' /\ Contiguous' /\ OneStream'
    BY <1>1, <1>2, <1>4, <2>2, GivesUp
  <2>4. op' \in {"idle", "read"}
    BY <1>1, <1>2, <2>1 DEF TcpInv, Stages, Returns, Resumes, goes
  <2>5. Stages'
    BY <2>4 DEF Stages
  <2>. QED
    BY <2>3, <2>5 DEF TcpInv
<1>. QED
  BY <1>3, <1>4

(* WiFiClient::read takes the next byte.                                   *)
LEMMA readStep ==
    ASSUME FewSockets, TcpInv, read
    PROVE  TcpInv'
<1>. UNCHANGED <<tcp, conn, peerSent, _sock, inUse>> /\ op = "read"
  BY DEF read
<1>1. CASE _sock = NO_SOCKET_AVAIL
  <2>1. op' = "undefined" /\ UNCHANGED <<_buffers, waiting, got, missed>>
    BY <1>1 DEF read, goes
  <2>. QED
    BY <2>1 DEF TcpInv, TcpTypeOK, Stages, NothingLeft, Contiguous, OneStream, Connected, Held, Coming
<1>2. CASE _sock # NO_SOCKET_AVAIL /\ Held # <<>>
  <2>1. /\ got' = Append(got, Head(Held)) /\ UNCHANGED <<waiting, missed>>
        /\ _buffers' = [_buffers EXCEPT ![_sock].bytes = Tail(Held)]
        /\ op' \in {"idle", "read"} \/ (op' = "available" /\ caller' = "publish")
    BY <1>2 DEF read, Held, Resumes, goes
  <2>2. Connected
    BY <1>2 DEF TcpInv, TcpTypeOK, Connected
  <2>3. /\ Held \in Seq(Byte) /\ got \in Seq(Byte) /\ Coming \in Seq(Byte)
        /\ conn \in Nat /\ peerSent \in Nat
    BY <2>2 DEF TcpInv, TcpTypeOK, Held, Coming, Connected
  <2>4. Head(Held) \in Byte /\ Tail(Held) \in Seq(Byte) /\ Len(Tail(Held)) = Len(Held) - 1
    BY <1>2, <2>3
  <2>5. TcpTypeOK'
    <3>1. _buffers' \in [Sockets -> [data : BOOLEAN, bytes : Seq(Byte)]]
      BY <2>1, <2>4 DEF TcpInv, TcpTypeOK
    <3>2. got' \in Seq(Byte)
      BY <2>1, <2>3, <2>4
    <3>. QED
      BY <2>1, <3>1, <3>2 DEF TcpInv, TcpTypeOK
  <2>6. NothingLeft'
    BY <2>1 DEF TcpInv, TcpTypeOK, NothingLeft
  <2>7. Held' = Tail(Held) /\ Coming' = Coming
    BY <2>1, <2>2 DEF TcpInv, TcpTypeOK, Held, Coming, Connected
  <2>8. Len(got') = Len(got) + 1
    BY <2>1, <2>3
  <2>9. /\ \A i \in 1 .. Len(got') : i \in 1 .. Len(got) \/ i = Len(got) + 1
        /\ got'[Len(got) + 1] = Held[1] /\ 1 \in 1 .. Len(Held)
        /\ \A i \in 1 .. Len(got) : got'[i] = got[i]
    BY <1>2, <2>1, <2>3, <2>4, <2>8
  <2>10. /\ \A i \in 1 .. Len(Held) - 1 : Tail(Held)[i] = Held[i + 1]
         /\ \A i \in 1 .. Len(Held) - 1 : i + 1 \in 1 .. Len(Held)
    BY <2>3
  <2>11. Contiguous'
    <3>1. SUFFICES ASSUME missed = 0
                   PROVE  /\ InOrder(conn', got', 0) /\ InOrder(conn', Held', Len(got'))
                          /\ Len(got') + Len(Held') = Len(got) + Len(Held)
      BY <2>1, <2>2, <2>7 DEF TcpInv, Contiguous, Connected
    <3>2. InOrder(conn, got, 0) /\ InOrder(conn, Held, Len(got))
      BY <2>2, <3>1 DEF TcpInv, Contiguous
    <3>3. InOrder(conn', got', 0)
      <4>1. Held[1] = <<conn, 0 + (Len(got) + 1)>>
        BY <2>3, <2>9, <3>2 DEF InOrder
      <4>. QED
        BY <2>9, <3>2, <4>1 DEF InOrder
    <3>4. InOrder(conn', Held', Len(got'))
      <4>1. \A i \in 1 .. Len(Held) - 1 : Len(got) + (i + 1) = Len(got) + 1 + i
        BY <2>3
      <4>. QED
        BY <2>4, <2>7, <2>8, <2>10, <3>2, <4>1 DEF InOrder
    <3>. QED
      BY <2>3, <2>4, <2>7, <2>8, <3>3, <3>4
  <2>12. OneStream'
    <3>1. /\ Rising(conn, got) /\ Rising(conn, Held) /\ Rising(conn, Coming)
          /\ Precedes(got, Held) /\ Precedes(got, Coming) /\ Precedes(Held, Coming)
          /\ UpTo(peerSent, got) /\ UpTo(peerSent, Held) /\ UpTo(peerSent, Coming)
      BY <2>2 DEF TcpInv, OneStream
    <3>2. Rising(conn, got')
      <4>1. /\ Held[1] # Unsent => Held[1][1] = conn
            /\ \A j \in 1 .. Len(got) :
                  got[j] # Unsent /\ Held[1] # Unsent => got[j][2] < Held[1][2]
        BY <2>9, <3>1 DEF Rising, Precedes
      <4>2. Head(Held) = Held[1] /\ Held[1] \in Byte
        BY <1>2, <2>3, <2>4
      <4>. QED
        BY <2>1, <2>3, <3>1, <4>1, <4>2, Appended
    <3>3. Rising(conn, Tail(Held))
      <4>1. \A i \in 1 .. Len(Held) - 1 : \A j \in 1 .. i - 1 :
               j \in 1 .. Len(Held) - 1 /\ j + 1 \in 1 .. (i + 1) - 1
        BY <2>3
      <4>. QED
        BY <2>4, <2>10, <3>1, <4>1 DEF Rising
    <3>4. Precedes(got', Tail(Held))
      <4>1. \A i \in 1 .. Len(Held) - 1 : 1 \in 1 .. (i + 1) - 1
        BY <2>3
      <4>. QED
        BY <2>4, <2>9, <2>10, <3>1, <4>1 DEF Rising, Precedes
    <3>5. Precedes(got', Coming) /\ Precedes(Tail(Held), Coming)
      BY <2>4, <2>9, <2>10, <3>1 DEF Precedes
    <3>6. UpTo(peerSent, got') /\ UpTo(peerSent, Tail(Held))
      BY <2>4, <2>9, <2>10, <3>1 DEF UpTo
    <3>. QED
      BY <2>2, <2>7, <3>1, <3>2, <3>3, <3>4, <3>5, <3>6 DEF OneStream, Connected
  <2>13. Stages'
    BY <2>1 DEF Stages
  <2>. QED
    BY <2>5, <2>6, <2>11, <2>12, <2>13 DEF TcpInv
<1>3. CASE _sock # NO_SOCKET_AVAIL /\ Held = <<>>
  <2>1. PICK b \in Received(_sock) :
            /\ getDataBufInto(_sock, b)
            /\ IF b # <<>> THEN UNCHANGED <<op, caller>> ELSE goes("available", "read")
    BY <1>3 DEF read, Held
  <2>2. Connected /\ UNCHANGED got
    BY <1>3 DEF TcpInv, TcpTypeOK, Connected, read, Held
  <2>3. TcpTypeOK' /\ NothingLeft' /\ Contiguous' /\ OneStream'
    BY <1>3, <2>1, <2>2, Fetches
  <2>4. op' = "read" \/ (op' = "available" /\ caller' = "read")
    BY <2>1 DEF goes
  <2>5. Stages'
    BY <2>4 DEF Stages
  <2>. QED
    BY <2>3, <2>5 DEF TcpInv
<1>. QED
  BY <1>1, <1>2, <1>3

(* WiFiClient::stop empties the buffer of the socket that it gives back.   *)
LEMMA stopClientStep ==
    ASSUME FewSockets, TcpInv, stopStep
    PROVE  TcpInv'
<1>1. /\ Connected /\ UNCHANGED <<conn, peerSent, got, missed>>
      /\ _sock' = NO_SOCKET_AVAIL /\ _buffers' = bufferClose(_sock)
      /\ \/ UNCHANGED <<tcp, waiting>>
         \/ /\ tcp' = [tcp EXCEPT ![_sock] = "FREE"]
            /\ waiting' = [waiting EXCEPT ![_sock] = <<>>]
  BY DEF TcpInv, Stages, stopStep
<1>2. TcpTypeOK' /\ NothingLeft' /\ Contiguous' /\ OneStream' /\ ~Connected'
  BY <1>1, GivesUp
<1>3. op' \in {"idle", "read"} \/ (op' = "getSocket" /\ caller' = "connect")
  BY DEF stopStep, Resumes, goes
<1>4. Stages'
  BY <1>2, <1>3 DEF Stages
<1>. QED
  BY <1>2, <1>4 DEF TcpInv

(* A new connection begins with nothing read, buffered or waiting.         *)
LEMMA startStep ==
    ASSUME FewSockets, TcpInv, startClientStep
    PROVE  TcpInv'
<1>1. op = "getSocket" /\ ~Connected /\ caller = "connect" /\ UNCHANGED _buffers
  BY DEF TcpInv, Stages, startClientStep
<1>2. CASE goes("idle", "none") /\ UNCHANGED <<moduleSide, _sock, got, missed>>
  BY <1>1, <1>2 DEF goes, moduleSide, TcpInv, TcpTypeOK, Stages, NothingLeft, Contiguous,
                    OneStream, Connected
<1>3. ASSUME NEW s \in Free, NEW r \in {"ESTABLISHED", "FREE"},
             tcp' = [tcp EXCEPT ![s] = r], conn' = conn + 1, peerSent' = 0, got' = <<>>, missed' = 0,
             _sock' = s, goes("available", caller), UNCHANGED waiting
      PROVE  TcpInv'
  <2>1. s \in Sockets /\ waiting[s] = <<>> /\ _buffers[s].bytes = <<>> /\ tcp[s] = "FREE"
    BY <1>1, <1>3 DEF Free, TcpInv, NothingLeft, Connected
  <2>2. TcpTypeOK'
    <3>1. tcp' \in [Sockets -> {"FREE", "ESTABLISHED", "CLOSE_WAIT"}]
      BY <1>3, <2>1 DEF TcpInv, TcpTypeOK
    <3>. QED
      BY <1>1, <1>3, <2>1, <3>1 DEF TcpInv, TcpTypeOK
  <2>3. Stages'
    BY <1>1, <1>3 DEF Stages, goes
  <2>4. NothingLeft'
    <3>1. \A t \in Sockets : tcp'[t] = "FREE" => waiting'[t] = <<>>
      BY <1>3, <2>1 DEF TcpInv, TcpTypeOK, NothingLeft
    <3>2. \A t \in Sockets : _buffers'[t].bytes = <<>>
      BY <1>1 DEF TcpInv, NothingLeft, Connected
    <3>. QED
      BY <3>1, <3>2 DEF NothingLeft
  <2>5. Contiguous' /\ OneStream'
    <3>1. got' = <<>> /\ Held' = <<>> /\ Coming' = <<>> /\ peerSent' = 0
      BY <1>1, <1>3, <2>1 DEF Held, Coming
    <3>2. \A c, m : Rising(c, <<>>) /\ UpTo(m, <<>>) /\ Precedes(<<>>, <<>>)
      BY DEF Rising, UpTo, Precedes
    <3>. QED
      BY <3>1, <3>2 DEF Contiguous, InOrder, OneStream
  <2>. QED
    BY <2>2, <2>3, <2>4, <2>5 DEF TcpInv
<1>. QED
  BY <1>2, <1>3 DEF startClientStep

(* Every call of the client keeps the invariant.                           *)
LEMMA HostStepInv ==
    ASSUME FewSockets, TcpInv, HostCalls
    PROVE  TcpInv'
<1>1. CASE callConnected
  <2>1. op' = "available" /\ caller' = "loop"
    BY <1>1 DEF callConnected, goes
  <2>. QED
    BY <1>1, <2>1 DEF callConnected, moduleSide, TcpInv, TcpTypeOK, Stages, NothingLeft,
                      Contiguous, OneStream, Connected, Held, Coming
<1>2. CASE callConnect
  <2>1. (op' = "stop" /\ Connected) \/ (op' = "getSocket" /\ ~Connected /\ caller' = "connect")
    BY <1>2, NotASocket DEF callConnect, goes, TcpInv, TcpTypeOK, Connected
  <2>. QED
    BY <1>2, <2>1 DEF callConnect, moduleSide, TcpInv, TcpTypeOK, Stages, NothingLeft,
                      Contiguous, OneStream, Connected, Held, Coming
<1>3. CASE sendDataStep
  <2>1. op' \in {"idle", "read", "stop"} /\ Connected
    BY <1>3 DEF sendDataStep, Resumes, goes, TcpInv, Stages
  <2>. QED
    BY <1>3, <2>1 DEF sendDataStep, moduleSide, TcpInv, TcpTypeOK, Stages, NothingLeft,
                      Contiguous, OneStream, Connected, Held, Coming
<1>. QED
  BY <1>1, <1>2, <1>3, availableStep, statusStep, readStep, stopClientStep, startStep DEF HostCalls

(* The peer adds the next byte, to an established connection; a close      *)
(* leaves what has come in, a reset takes it away.                         *)
LEMMA NetworkStepInv ==
    ASSUME FewSockets, TcpInv, NetworkMoves
    PROVE  TcpInv'
<1>1. CASE PeerSends
  <2>1. PICK s \in Sockets :
            /\ tcp[s] = "ESTABLISHED" /\ s = _sock
            /\ waiting' = [waiting EXCEPT ![s] = Append(@, <<conn, peerSent + 1>>)]
    BY <1>1 DEF PeerSends
  <2>2. peerSent' = peerSent + 1 /\ UNCHANGED <<tcp, conn, _sock, _buffers, op, caller, got, missed>>
    BY <1>1 DEF PeerSends, hostSide
  <2>3. Connected /\ Coming \in Seq(Byte) /\ peerSent \in Nat /\ conn \in Nat
    BY <2>1 DEF Connected, Coming, TcpInv, TcpTypeOK
  <2>4. <<conn, peerSent + 1>> \in Byte
    BY <2>3 DEF Byte
  <2>. DEFINE q == Append(Coming, <<conn, peerSent + 1>>)
  <2>5. /\ q \in Seq(Byte) /\ Len(q) = Len(Coming) + 1
        /\ q[Len(Coming) + 1] = <<conn, peerSent + 1>>
        /\ \A i \in 1 .. Len(Coming) : q[i] = Coming[i]
    BY <2>3, <2>4
  <2>6. waiting' = [waiting EXCEPT ![_sock] = q]
    BY <2>1 DEF Coming
  <2>. HIDE DEF q
  <2>7. TcpTypeOK'
    <3>1. waiting' \in [Sockets -> Seq(Byte)]
      BY <2>5, <2>6 DEF TcpInv, TcpTypeOK
    <3>. QED
      BY <2>2, <2>3, <3>1 DEF TcpInv, TcpTypeOK
  <2>8. NothingLeft'
    BY <2>1, <2>2, <2>6 DEF TcpInv, TcpTypeOK, NothingLeft
  <2>9. Held' = Held /\ Coming' = q
    BY <2>2, <2>3, <2>6 DEF Held, Coming, TcpInv, TcpTypeOK, Connected
  <2>10. /\ Held \in Seq(Byte) /\ got \in Seq(Byte)
         /\ Len(Held) \in Nat /\ Len(got) \in Nat /\ Len(Coming) \in Nat
    BY <2>3 DEF Held, TcpInv, TcpTypeOK, Connected
  <2>11. \A i \in 1 .. Len(q) : i \in 1 .. Len(Coming) \/ i = Len(Coming) + 1
    BY <2>5, <2>10
  <2>12. Contiguous'
    <3>1. SUFFICES ASSUME missed = 0
                   PROVE  /\ InOrder(conn', Coming', Len(got') + Len(Held'))
                          /\ peerSent' = Len(got') + Len(Held') + Len(Coming')
      BY <2>2, <2>3, <2>9 DEF TcpInv, Contiguous, Connected
    <3>2. peerSent = Len(got) + Len(Held) + Len(Coming) /\ InOrder(conn, Coming, Len(got) + Len(Held))
      BY <2>1, <2>3, <3>1 DEF TcpInv, Contiguous
    <3>3. q[Len(Coming) + 1] = <<conn, Len(got) + Len(Held) + (Len(Coming) + 1)>>
      BY <2>5, <2>10, <3>2
    <3>4. InOrder(conn', Coming', Len(got') + Len(Held'))
      BY <2>2, <2>5, <2>9, <2>11, <3>2, <3>3 DEF InOrder
    <3>. QED
      BY <2>2, <2>5, <2>9, <2>10, <3>2, <3>4
  <2>13. OneStream'
    <3>1. /\ Rising(conn, got) /\ Rising(conn, Held) /\ Rising(conn, Coming)
          /\ Precedes(got, Held) /\ Precedes(got, Coming) /\ Precedes(Held, Coming)
          /\ UpTo(peerSent, got) /\ UpTo(peerSent, Held) /\ UpTo(peerSent, Coming)
      BY <2>3 DEF TcpInv, OneStream
    <3>2. q[Len(Coming) + 1][1] = conn /\ q[Len(Coming) + 1][2] = peerSent + 1
      BY <2>5
    <3>3. \A x \in Seq(Byte) : \A i \in 1 .. Len(x) : x[i][2] \in Nat
      BY DEF Byte
    <3>4. \A n \in Nat : n <= peerSent => n < peerSent + 1 /\ n <= peerSent + 1
      BY <2>3
    <3>5. UpTo(peerSent + 1, got) /\ UpTo(peerSent + 1, Held)
      BY <2>10, <3>1, <3>3, <3>4 DEF UpTo
    <3>6. UpTo(peerSent + 1, q)
      <4>1. peerSent + 1 <= peerSent + 1
        BY <2>3
      <4>. QED
        BY <2>3, <2>5, <2>11, <3>1, <3>2, <3>3, <3>4, <4>1 DEF UpTo
    <3>7. Precedes(got, q) /\ Precedes(Held, q)
      BY <2>5, <2>10, <2>11, <3>1, <3>2, <3>3, <3>4 DEF Precedes, UpTo
    <3>8. Rising(conn, q)
      <4>. DEFINE b == <<conn, peerSent + 1>>
      <4>1. b[1] = conn /\ b[2] = peerSent + 1
        OBVIOUS
      <4>2. \A j \in 1 .. Len(Coming) : Coming[j] # Unsent => Coming[j][2] < b[2]
        BY <2>3, <3>1, <3>3, <3>4, <4>1 DEF UpTo
      <4>. HIDE DEF b
      <4>3. Rising(conn, Append(Coming, b))
        BY <2>3, <2>4, <3>1, <4>1, <4>2, Appended DEF b
      <4>. QED
        BY <4>3 DEF q, b
    <3>. QED
      BY <2>2, <2>9, <3>1, <3>5, <3>6, <3>7, <3>8 DEF OneStream
  <2>14. Stages'
    BY <2>2 DEF TcpInv, Stages, Connected
  <2>. QED
    BY <2>7, <2>8, <2>12, <2>13, <2>14 DEF TcpInv
<1>2. CASE PeerCloses
  <2>1. PICK s \in Sockets : tcp[s] = "ESTABLISHED" /\ tcp' = [tcp EXCEPT ![s] = "CLOSE_WAIT"]
    BY <1>2 DEF PeerCloses
  <2>2. UNCHANGED <<waiting, conn, peerSent, hostSide>>
    BY <1>2 DEF PeerCloses
  <2>3. \A t \in Sockets : tcp'[t] \in {"FREE", "ESTABLISHED"} => tcp'[t] = tcp[t]
    BY <2>1 DEF TcpInv, TcpTypeOK
  <2>4. TcpTypeOK'
    BY <2>1, <2>2 DEF hostSide, TcpInv, TcpTypeOK
  <2>5. Stages' /\ NothingLeft' /\ Contiguous' /\ OneStream'
    BY <2>2, <2>3 DEF hostSide, TcpInv, Stages, NothingLeft, Contiguous, OneStream, Connected, Held, Coming
  <2>. QED
    BY <2>4, <2>5 DEF TcpInv
<1>3. CASE ModuleForgets
  <2>1. /\ tcp' = [s \in Sockets |-> "FREE"] /\ waiting' = [s \in Sockets |-> <<>>]
        /\ UNCHANGED <<conn, peerSent, _sock, _buffers, op, caller, got, missed>>
    BY <1>3 DEF ModuleForgets, hostSide
  <2>2. TcpTypeOK'
    BY <2>1 DEF TcpInv, TcpTypeOK
  <2>3. Stages' /\ NothingLeft'
    BY <2>1 DEF TcpInv, Stages, NothingLeft, Connected
  <2>4. Contiguous' /\ OneStream'
    <3>1. Connected => Coming' = <<>> /\ tcp'[_sock] = "FREE" /\ Held' = Held
      BY <2>1 DEF Connected, Coming, Held
    <3>2. \A c, m, x : Rising(c, <<>>) /\ UpTo(m, <<>>) /\ Precedes(x, <<>>)
      BY DEF Rising, UpTo, Precedes
    <3>. QED
      BY <2>1, <3>1, <3>2 DEF TcpInv, Contiguous, OneStream, Connected, InOrder
  <2>. QED
    BY <2>2, <2>3, <2>4 DEF TcpInv
<1>. QED
  BY <1>1, <1>2, <1>3 DEF NetworkMoves

(* It holds when the rig has booted.                                       *)
LEMMA TcpInitInv ==
    ASSUME FewSockets, TcpInit
    PROVE  TcpInv
<1>1. TcpTypeOK
  <2>1. [data |-> FALSE, bytes |-> <<>>] \in [data : BOOLEAN, bytes : Seq(Byte)]
    OBVIOUS
  <2>. QED
    BY <2>1 DEF TcpInit, TcpTypeOK, NoBuffer
<1>2. ~Connected /\ got = <<>> /\ op = "idle"
  BY NotASocket DEF TcpInit, Connected
<1>3. NothingLeft
  BY DEF TcpInit, NothingLeft, NoBuffer
<1>4. missed = 0 /\ conn = 0
  BY DEF TcpInit
<1>. QED
  BY <1>1, <1>2, <1>3, <1>4 DEF TcpInv, Stages, Contiguous, InOrder, OneStream, Rising

(* What the client reads is what the peer sent on this connection, byte by *)
(* byte from the first, until a reply to getDataBuf fails; and after that  *)
(* the bytes that were sent are still of this connection and in order,     *)
(* whatever became of earlier connections on the same socket.              *)
THEOREM BytesAlwaysInOrder ==
    ASSUME FewSockets
    PROVE  TcpSpec => []BytesInOrder
<1>1. TcpInit => TcpInv
  BY TcpInitInv
<1>2. TcpInv /\ [TcpNext]_tcpVars => TcpInv'
  <2>1. CASE UNCHANGED tcpVars
    BY <2>1 DEF tcpVars, moduleSide, hostSide, TcpInv, TcpTypeOK, Stages, NothingLeft,
                Contiguous, OneStream, Connected, Held, Coming
  <2>. QED
    BY <2>1, HostStepInv, NetworkStepInv DEF TcpNext
<1>3. TcpInv => BytesInOrder
  <2>1. TcpInv => (missed = 0 => \A i \in 1 .. Len(got) : got[i] = <<conn, i>>)
    <3>1. \A i \in 1 .. Len(got) : 0 + i = i
      OBVIOUS
    <3>. QED
      BY <3>1 DEF TcpInv, Contiguous, InOrder
  <2>2. TcpInv => Rising(conn, got)
    BY DEF TcpInv, OneStream
  <2>. QED
    BY <2>1, <2>2 DEF Rising, BytesInOrder
<1>. QED
  BY <1>1, <1>2, <1>3, PTL DEF TcpSpec

=============================================================================
