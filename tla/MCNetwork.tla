----------------------------- MODULE MCNetwork ------------------------------
(* The layers under the wifi task, each a machine of its own with the ones *)
(* below as its environment: a behaviour is one layer moving.              *)
EXTENDS MCPacket, MQTTClient, WiFiClient, SpiDrv, ServerDrv, WiFiDrv

VARIABLE layer

networkVars == <<layer, mqttVars, streamVars, tcpVars, spiVars>>

(* Commands of the rig with every kind of reply, an update among them.     *)
MCRequests ==
    {wifiSetPassphrase(9, 8), getClientState, sendData(6), getScanNetworks, getNetworkData,
     applyOTA}

(* Where packets do not move there is no buffer for them.                  *)
NoStream ==
    /\ reader = "client" /\ phase = "header" /\ len = 0 /\ want = 0
    /\ sent = <<>> /\ wire = <<>> /\ received = <<>> /\ read_buf = <<>>

NetworkInit ==
    /\ layer \in {"mqtt", "packets", "tcp", "spi"}
    /\ MQTTInit /\ TcpInit /\ SpiInit
    /\ IF layer = "packets" THEN StreamInit ELSE NoStream

Rig(A) == layer = "mqtt" /\ A /\ UNCHANGED <<layer, streamVars, tcpVars, spiVars>>
Tcp(A) == layer = "tcp" /\ A /\ UNCHANGED <<layer, mqttVars, streamVars, spiVars>>
Spi(A) == layer = "spi" /\ A /\ UNCHANGED <<layer, mqttVars, streamVars, tcpVars>>
Packets(A) == layer = "packets" /\ A /\ UNCHANGED <<layer, mqttVars, tcpVars, spiVars>>

NetworkNext == Rig(MQTTNext) \/ Packets(StreamNext) \/ Tcp(TcpNext) \/ Spi(SpiNext)

(* The fairness of the layers' own specifications: as only one of them     *)
(* moves, those that say the same of different layers are put together.    *)
NetworkSpec ==
    /\ NetworkInit /\ [][NetworkNext]_networkVars
    /\ WF_networkVars(Rig(RigStep) \/ Tcp(HostCalls) \/ Spi(HostStep))
    /\ WF_networkVars(Rig(Tick) \/ Spi(ModuleStep))

=============================================================================
