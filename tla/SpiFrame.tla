------------------------------ MODULE SpiFrame ------------------------------
(***************************************************************************)
(* What WiFiNINA's drivers put on the SPI bus (utility/spi_drv.cpp): the   *)
(* size of a command with its parameters and padding, and which replies    *)
(* the waitResponse functions accept.  What the bytes say is left out.     *)
(***************************************************************************)
EXTENDS Naturals

(* START, the command, the number of parameters; END if there are none.    *)
sendCmd_noEnd(numParam) == 3
sendCmd(numParam) == IF numParam = 0 THEN 4 ELSE 3

(* A parameter under a length of one byte or of two, and the last one,     *)
(* with END behind it.  The lengths are unsigned, and wrap.                *)
sendParam(len) == 1 + (len % 256)
sendBuffer(len) == 2 + (len % 65536)
sendParamNoLen(len) == 1 + len
sendParam16 == 3
END_CMD == 1

(* "pad to multiple of 4": readChar until commandSize is one.              *)
PadTo4(commandSize) == (4 - (commandSize % 4)) % 4

(* A driver function: its command, the bytes it clocks out for it, the     *)
(* bytes of padding, and the reply it waits for.                           *)
Exchange(cmd, bytes, pad, wait, numParam) ==
    [cmd |-> cmd, bytes |-> bytes, pad |-> pad, wait |-> wait, numParam |-> numParam]
OneParam(cmd, bytes, pad) == Exchange(cmd, bytes, pad, "Cmd", 1)

(* The usual commands: no parameter, and one byte.                         *)
Bare(cmd) == OneParam(cmd, sendCmd(0), 0)
OneByte(cmd) == OneParam(cmd, sendCmd(1) + sendParam(1) + END_CMD, 2)

Words(r) == (r.bytes + r.pad) % 4 = 0

(* A reply as the bus gives it: nothing but idle bytes (waitSpiChar gives  *)
(* up after TIMEOUT_CHAR of them), ERR_CMD, or a command with parameters.  *)
Idling == [start |-> "none", cmd |-> "none", n |-> 0, id |-> 0]
Reply(cmd, n, id) == [start |-> "START", cmd |-> cmd, n |-> n, id |-> id]

(* waitSpiChar returns -1 on ERR_CMD, which is as good as true; the check  *)
(* of the command that follows fails then.                                 *)
waitSpiChar(p) == p.start # "none"
Checked(r, p) == waitSpiChar(p) /\ p.start # "ERR" /\ p.cmd = r.cmd

waitResponseCmd(r, p) == Checked(r, p) /\ p.n = r.numParam
waitResponseData8(r, p) == Checked(r, p)
waitResponseData16(r, p) == Checked(r, p)
waitResponseParams(r, p) == Checked(r, p) /\ p.n # 0 /\ p.n = r.numParam
waitResponse(r, p) == Checked(r, p) /\ p.n # 0

TakesReply(r, p) ==
    CASE r.wait = "Cmd" -> waitResponseCmd(r, p)
      [] r.wait = "Data8" -> waitResponseData8(r, p)
      [] r.wait = "Data16" -> waitResponseData16(r, p)
      [] r.wait = "Params" -> waitResponseParams(r, p)
      [] r.wait = "List" -> waitResponse(r, p)
      [] r.wait = "Nothing" -> FALSE
=============================================================================
