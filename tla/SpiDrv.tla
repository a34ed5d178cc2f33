------------------------------- MODULE SpiDrv -------------------------------
(***************************************************************************)
(* The handshake under every command of WiFiNINA (utility/spi_drv.cpp and  *)
(* the common shape of the driver functions): wait until the module is     *)
(* ready, select it, clock out the command, deselect it, wait again,       *)
(* select it, clock in the reply, deselect it.  The processor does nothing *)
(* else meanwhile.                                                         *)
(*                                                                         *)
(* The module is external: SLAVEREADY is low when a buffer waits for the   *)
(* next transfer, high from the selection until it has the next buffer.    *)
(* It may reset itself at any time, a bounded number of times, and leaves  *)
(* SLAVEREADY floating until it is up again.                               *)
(***************************************************************************)
EXTENDS SpiFrame

CONSTANTS
    Requests,       \* the driver functions that are called
    MaxCrashes      \* resets of the module

ASSUME SpiAssumption ==
    /\ MaxCrashes \in Nat
    /\ \A r \in Requests :
          /\ r.wait \in {"Cmd", "Data8", "Data16", "Params", "List", "Nothing"}
          /\ \A q \in Requests : q.cmd = r.cmd => (q.wait = "Nothing" <=> r.wait = "Nothing")

VARIABLES
    host,           \* where the driver function stands
    request,        \* and which one it is
    asked,          \* number of the exchange, modulo 4
    result,         \* what the last one made of its reply
    SLAVEREADY, selected,
    module,         \* "armed" for a command, "working", "answering", "booting", or
                    \* "late": armed, but it came up after it was selected
    rx, tx,         \* what the module took in, and its reply
    crashes, lost   \* resets, and exchanges since then without an answer

hostVars == <<host, request, asked, result>>
moduleVars == <<module, rx, tx>>
spiVars == <<hostVars, SLAVEREADY, selected, moduleVars, crashes, lost>>

NoRequest == Exchange("none", 0, 0, "Nothing", 0)
NoFrame == [cmd |-> "none", bytes |-> 0, id |-> 0]
Up == module # "booting"
Armed == module \in {"armed", "late"}

SpiInit ==
    /\ host = "idle" /\ request = NoRequest /\ asked = 0 /\ result = [ok |-> TRUE, answers |-> 0, asked |-> 0]
    /\ SLAVEREADY = "LOW" /\ selected = FALSE
    /\ module = "armed" /\ rx = NoFrame /\ tx = Idling
    /\ crashes = 0 /\ lost = 0

(* A driver function is called; WAIT_FOR_SLAVE_SELECT comes first.         *)
Call ==
    /\ host = "idle"
    /\ \E r \in Requests : request' = r
    /\ asked' = (asked + 1) % 4 /\ host' = "ready"
    /\ UNCHANGED <<result, SLAVEREADY, selected, moduleVars, crashes, lost>>

(* A module that came up late has noticed the end of that selection by the *)
(* time of the next.                                                       *)
AfterLate == IF rx = NoFrame THEN "armed" ELSE "working"

(* waitForSlaveReady, and the first half of spiSlaveSelect.                *)
waitForSlaveReady ==
    /\ host \in {"ready", "readyAgain"} /\ SLAVEREADY = "LOW"
    /\ selected' = TRUE
    /\ host' = IF host = "ready" THEN "select" ELSE "selectAgain"
    /\ module' = IF module = "late" THEN AfterLate ELSE module
    /\ UNCHANGED <<request, asked, result, SLAVEREADY, rx, tx, crashes, lost>>

(* The second half: up to 5 ms for SLAVEREADY to go high, which a module   *)
(* that notices the selection never needs.                                 *)
spiSlaveSelect_blind == TRUE
spiSlaveSelect_forEver == SLAVEREADY = "HIGH"
spiSlaveSelect == SLAVEREADY = "HIGH" \/ module \in {"booting", "late"}

(* sendCmd, the parameters and the padding, then spiSlaveDeselect.  The    *)
(* module has the frame if it was armed for one; a module that came up     *)
(* under selection may have lost its beginning.                            *)
Send ==
    /\ host = "select" /\ spiSlaveSelect
    /\ selected' = FALSE
    /\ IF Armed
       THEN rx' \in {[cmd |-> request.cmd, bytes |-> request.bytes + request.pad, id |-> asked]}
                    \cup {NoFrame : m \in {module} \cap {"late"}}
       ELSE UNCHANGED rx
    /\ IF request.wait = "Nothing"
       THEN host' = "idle" /\ request' = NoRequest
       ELSE host' = "readyAgain" /\ UNCHANGED request
    /\ UNCHANGED <<asked, result, SLAVEREADY, module, tx, crashes, lost>>

(* The waitResponse function and spiSlaveDeselect: the reply that waits,   *)
(* or idle bytes, which a module armed for a command takes for one.        *)
ReadReply ==
    /\ host = "selectAgain" /\ spiSlaveSelect
    /\ selected' = FALSE
    /\ LET p == IF module = "answering" THEN tx ELSE Idling
           ok == TakesReply(request, p)
       IN  /\ result' = [ok |-> ok, answers |-> p.id, asked |-> asked]
           /\ lost' = IF p # Idling THEN 0 ELSE IF Up /\ lost < 3 THEN lost + 1 ELSE lost
    /\ rx' = IF Armed THEN NoFrame ELSE rx
    /\ host' = "idle" /\ request' = NoRequest
    /\ UNCHANGED <<asked, SLAVEREADY, module, tx, crashes>>

(* The module notices the selection.                                       *)
ModuleSelected ==
    /\ Up /\ module # "late" /\ selected /\ SLAVEREADY = "LOW"
    /\ SLAVEREADY' = "HIGH"
    /\ UNCHANGED <<hostVars, selected, moduleVars, crashes, lost>>

(* The transfer is over: a command is to be worked on, anything else is    *)
(* dropped, a reply is gone.                                               *)
ModuleDeselected ==
    /\ ~selected
    /\ \/ module \in {"armed", "answering"} /\ SLAVEREADY = "HIGH"
       \/ module = "late"
    /\ IF Armed /\ rx # NoFrame
       THEN module' = "working" /\ UNCHANGED <<rx, tx, SLAVEREADY>>
       ELSE module' = "armed" /\ rx' = NoFrame /\ tx' = Idling /\ SLAVEREADY' = "LOW"
    /\ UNCHANGED <<hostVars, selected, crashes, lost>>

(* The reply waits for its transfer: as many parameters as were asked for, *)
(* or none.  A module that applies an update restarts instead.             *)
ModuleAnswers ==
    /\ module = "working"
    /\ \E r \in {q \in Requests : q.cmd = rx.cmd /\ q.wait # "Nothing"} : \E n \in {0, r.numParam} :
          tx' = IF rx.bytes % 4 = 0 THEN Reply(rx.cmd, n, rx.id)
                ELSE [Idling EXCEPT !.start = "ERR"]
    /\ module' = "answering" /\ rx' = NoFrame /\ SLAVEREADY' = "LOW"
    /\ UNCHANGED <<hostVars, selected, crashes, lost>>

Restarts ==
    /\ module' = "booting" /\ rx' = NoFrame /\ tx' = Idling
    /\ SLAVEREADY' \in {"LOW", "HIGH"}
    /\ UNCHANGED <<hostVars, selected, lost>>

ModuleUpdates ==
    /\ module = "working" /\ \E r \in Requests : r.cmd = rx.cmd /\ r.wait = "Nothing"
    /\ Restarts /\ UNCHANGED crashes

ModuleResets ==
    /\ crashes < MaxCrashes /\ crashes' = crashes + 1
    /\ Restarts

ModuleBoots ==
    /\ module = "booting"
    /\ module' = IF selected THEN "late" ELSE "armed"
    /\ SLAVEREADY' = "LOW" /\ lost' = 0
    /\ UNCHANGED <<hostVars, selected, rx, tx, crashes>>

HostStep == Call \/ waitForSlaveReady \/ Send \/ ReadReply
ModuleStep == ModuleSelected \/ ModuleDeselected \/ ModuleAnswers \/ ModuleUpdates \/ ModuleBoots
SpiNext == HostStep \/ ModuleStep \/ ModuleResets
SpiSpec == SpiInit /\ [][SpiNext]_spiVars /\ WF_spiVars(HostStep) /\ WF_spiVars(ModuleStep)

-----------------------------------------------------------------------------
(* A reply that a driver function accepts answers the command it sent: two *)
(* calls of getClientState() in a row cannot take each other's answers.    *)
AnswersMatch == result.ok => result.answers = result.asked

(* Every command of Requests is padded to a multiple of 4 bytes on the     *)
(* bus, as the comment in each driver function has it.  (The functions of  *)
(* which that is not true are not called by the rig: see NinaProofs,       *)
(* OthersAreMisframed.)                                                    *)
FramesAreWords == module = "working" => rx.bytes % 4 = 0

(* A reset of the module costs two answers at most, whatever the driver    *)
(* was doing: the two sides find each other again.                         *)
FindsModuleAgain == lost < 3

(* Every call of the driver returns: waitForSlaveReady has no time limit,  *)
(* so this rests on a module that always comes up again.                   *)
ExchangesEnd == host # "idle" ~> host = "idle"
=============================================================================
