------------------------------- MODULE WiFiDrv ------------------------------
(***************************************************************************)
(* The commands of WiFiNINA that are not about a socket                    *)
(* (utility/wifi_drv.cpp).                                                 *)
(***************************************************************************)
EXTENDS SpiFrame

(* Joining a network, with what strlen gives as lengths.                   *)
wifiSetNetwork(ssid_len) ==
    OneParam("SET_NET_CMD", sendCmd(1) + sendParam(ssid_len) + END_CMD, PadTo4(5 + ssid_len))
wifiSetPassphrase(ssid_len, len) ==
    OneParam("SET_PASSPHRASE_CMD", sendCmd(2) + sendParam(ssid_len) + sendParam(len) + END_CMD,
             PadTo4(6 + ssid_len + len))
wifiSetKey(ssid_len, len) ==
    OneParam("SET_KEY_CMD",
             sendCmd(3) + sendParam(ssid_len) + sendParam(1) + sendParam(len) + END_CMD,
             PadTo4(8 + ssid_len + len))
wifiSetApNetwork(ssid_len) ==
    OneParam("SET_AP_NET_CMD", sendCmd(2) + sendParam(ssid_len) + sendParam(1) + END_CMD,
             PadTo4(3 + ssid_len))
wifiSetApPassphrase(ssid_len, len) ==
    OneParam("SET_AP_PASSPHRASE_CMD",
             sendCmd(3) + sendParam(ssid_len) + sendParam(len) + sendParam(1) + END_CMD,
             PadTo4(4 + ssid_len + len))
wifiSetEnterprise(ssid_len, user_len, pass_len, ident_len, ca_cert_len) ==
    OneParam("SET_ENT_CMD",
             sendCmd(6) + sendBuffer(1) + sendBuffer(ssid_len) + sendBuffer(user_len)
                 + sendBuffer(pass_len) + sendBuffer(ident_len) + sendBuffer(ca_cert_len) + END_CMD,
             PadTo4(15 + 1 + ssid_len + user_len + pass_len + ident_len + ca_cert_len))
setHostname(len) ==
    OneParam("SET_HOSTNAME_CMD", sendCmd(1) + sendParam(len) + END_CMD, PadTo4(5 + len))
config ==
    OneParam("SET_IP_CONFIG_CMD",
             sendCmd(4) + sendParam(1) + sendParam(4) + sendParam(4) + sendParam(4) + END_CMD, 3)
setDNS ==
    OneParam("SET_DNS_CONFIG_CMD", sendCmd(3) + sendParam(1) + sendParam(4) + sendParam(4) + END_CMD, 0)
disconnectWiFi == OneByte("DISCONNECT_CMD")

(* What the module knows of the network it is in.                          *)
getConnectionStatus == Bare("GET_CONN_STATUS_CMD")
getReasonCode == Bare("GET_REASON_CODE_CMD")
getNetworkData ==
    Exchange("GET_IPADDR_CMD", sendCmd(1) + sendParam(1) + END_CMD, 2, "Params", 3)
getRemoteData ==
    Exchange("GET_REMOTE_DATA_CMD", sendCmd(1) + sendParam(1) + END_CMD, 2, "Params", 2)
getMacAddress == OneByte("GET_MACADDR_CMD")
getCurrentSSID == OneByte("GET_CURR_SSID_CMD")
getCurrentBSSID == OneByte("GET_CURR_BSSID_CMD")
getCurrentRSSI == OneByte("GET_CURR_RSSI_CMD")
getCurrentEncryptionType == OneByte("GET_CURR_ENCT_CMD")
getFwVersion == Bare("GET_FW_VERSION_CMD")
getTime == Bare("GET_TIME_CMD")
getTemperature == Bare("GET_TEMPERATURE_CMD")

(* The networks in reach.                                                  *)
startScanNetworks == Bare("START_SCAN_NETWORKS")
getScanNetworks == Exchange("SCAN_NETWORKS", sendCmd(0), 0, "List", 10)
getEncTypeNetowrks == OneByte("GET_IDX_ENCT_CMD")
getBSSIDNetowrks == OneByte("GET_IDX_BSSID")
getChannelNetowrks == OneByte("GET_IDX_CHANNEL_CMD")
getRSSINetoworks == OneByte("GET_IDX_RSSI_CMD")

(* Names and pings.                                                        *)
reqHostByName(len) ==
    OneParam("REQ_HOST_BY_NAME_CMD", sendCmd(1) + sendParam(len) + END_CMD, PadTo4(5 + len))
getHostByName == Bare("GET_HOST_BY_NAME_CMD")
pingHost == OneParam("PING_CMD", sendCmd(2) + sendParam(4) + sendParam(1) + END_CMD, 1)

(* The module itself: power, pins, files.                                  *)
setPowerMode == OneByte("SET_POWER_MODE_CMD")
debug == OneByte("SET_DEBUG_CMD")
pinMode == OneParam("SET_PIN_MODE", sendCmd(2) + sendParam(1) + sendParam(1) + END_CMD, 1)
digitalWrite == OneParam("SET_DIGITAL_WRITE", sendCmd(2) + sendParam(1) + sendParam(1) + END_CMD, 1)
analogWrite == OneParam("SET_ANALOG_WRITE", sendCmd(2) + sendParam(1) + sendParam(1) + END_CMD, 1)
downloadFile(url_len, filename_len) ==
    OneParam("DOWNLOAD_FILE", sendCmd(2) + sendParam(url_len) + sendParam(filename_len) + END_CMD,
             PadTo4(6 + url_len + filename_len))
downloadOTA(url_len) ==
    OneParam("DOWNLOAD_OTA", sendCmd(1) + sendParam(url_len) + END_CMD, PadTo4(5 + url_len))
renameFile(old_len, new_len) ==
    OneParam("RENAME_FILE", sendCmd(2) + sendParam(old_len) + sendParam(new_len) + END_CMD,
             PadTo4(6 + old_len + new_len))
fileOperation(operation, filename_len) ==
    OneParam(operation, sendCmd(3) + sendParam(4) + sendParam(4) + sendParam(filename_len) + END_CMD,
             PadTo4(4 + 3 + 4 + 4 + filename_len))
writeFile(filename_len, len) ==
    OneParam("WRITE_FILE",
             sendCmd(4) + sendParam(4) + sendParam(4) + sendParam(filename_len)
                        + sendParamNoLen(len) + END_CMD,
             PadTo4(4 + 4 + 4 + 4 + filename_len))
applyOTA == Exchange("APPLY_OTA_COMMAND", sendCmd(0), 0, "Nothing", 1)

(* Everything a network takes, with lengths of names and keys from Lengths.*)
NetworkCommands(Lengths) ==
    {config, setDNS, disconnectWiFi, getConnectionStatus, getReasonCode, getNetworkData,
     getRemoteData, getMacAddress, getCurrentSSID, getCurrentBSSID, getCurrentRSSI,
     getCurrentEncryptionType, getFwVersion, getTime, getTemperature, startScanNetworks,
     getScanNetworks, getEncTypeNetowrks, getBSSIDNetowrks, getChannelNetowrks,
     getRSSINetoworks, getHostByName, pingHost, setPowerMode, debug, applyOTA}
    \cup {wifiSetNetwork(n) : n \in Lengths} \cup {wifiSetApNetwork(n) : n \in Lengths}
    \cup {wifiSetPassphrase(n, m) : n, m \in Lengths} \cup {wifiSetKey(n, m) : n, m \in Lengths}
    \cup {wifiSetApPassphrase(n, m) : n, m \in Lengths}
    \cup {setHostname(n) : n \in Lengths} \cup {reqHostByName(n) : n \in Lengths}
    \cup {downloadFile(n, m) : n, m \in Lengths} \cup {downloadOTA(n) : n \in Lengths}
    \cup {renameFile(n, m) : n, m \in Lengths}
    \cup {fileOperation(op, n) : op \in {"READ_FILE", "DELETE_FILE", "EXISTS_FILE"}, n \in Lengths}

(* The commands whose padding is not what their comment says: one byte too *)
(* many, an END that is not counted, data that is not counted.             *)
Misframed(Lengths) ==
    {pinMode, digitalWrite, analogWrite}
    \cup {writeFile(n, m) : n, m \in Lengths}
    \cup {wifiSetEnterprise(n, m, m, 0, 1) : n, m \in Lengths}
=============================================================================
