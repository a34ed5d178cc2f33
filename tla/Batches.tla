------------------------------- MODULE Batches -------------------------------
(***************************************************************************)
(* The counters of bottles and batches (tasks/priming.h) and the EEPROM    *)
(* that keeps them over a power loss (cfg/memory.h), which is written one  *)
(* byte at a time.  What PRIMING does besides counting is in Priming; here *)
(* a priming waits, fills, counts its bottle and is started again.         *)
(***************************************************************************)
EXTENDS Integers

CONSTANTS
    Base,                           \* the values of a byte
    priming_numBatches,
    priming_numBottlesPerBatch,
    MaxBottles,                     \* bounds the bottle counter
    MaxOutages                      \* bounds the power losses between two clears

ASSUME BatchesAssumption ==
    /\ Base \in Nat \ {0, 1}
    /\ priming_numBatches \in 0 .. Base - 1       \* a uint8_t
    /\ priming_numBottlesPerBatch \in Nat \ {0}
    /\ MaxBottles \in 0 .. Base * Base - 1 /\ MaxOutages \in Nat

VARIABLES
    eeprom,         \* the two bytes of BOTTLECOUNTER and of BATCHCOUNTER
    writing,        \* the byte that a memoryWrite has yet to write
    priming_bottleCounter, priming_batchCounter,
    priming,        \* "STOPPED", "WAITING", "FILLING"
    \* History, since the counters were last cleared:
    filled, outages,    \* the bottles that were filled, and the power losses
    batch,              \* what they were when the current batch began
    harm                \* the count is not that of the bottles (see BatchSize)

history == <<filled, outages, batch, harm>>
batchVars == <<eeprom, writing, priming_bottleCounter, priming_batchCounter,
               priming, history>>

Counters == {"BOTTLECOUNTER", "BATCHCOUNTER"}
NoWrite == [counter |-> "none", low |-> 0]

memoryRead(c) == eeprom[c][1] * Base + eeprom[c][2]

(* The first byte of memoryWrite; the second is WriteLow.                  *)
memoryWrite_lowFirst(c, n) ==
    /\ eeprom' = [eeprom EXCEPT ![c][2] = n % Base]
    /\ writing' = [counter |-> c, low |-> n % Base]

memoryWrite(c, n) ==
    /\ eeprom' = [eeprom EXCEPT ![c][1] = n \div Base]
    /\ writing' = [counter |-> c, low |-> n % Base]

WriteLow ==
    /\ writing # NoWrite
    /\ eeprom' = [eeprom EXCEPT ![writing.counter][2] = writing.low]
    /\ writing' = NoWrite
    /\ UNCHANGED <<priming_bottleCounter, priming_batchCounter, priming, history>>

BatchesInit ==
    /\ eeprom = [c \in Counters |-> <<0, 0>>]
    /\ writing = NoWrite
    /\ priming_bottleCounter = 0 /\ priming_batchCounter = 0
    /\ priming = "STOPPED"
    /\ filled = 0 /\ outages = 0 /\ batch = [filled |-> 0, outages |-> 0] /\ harm = FALSE

(* priming_init.                                                           *)
PrimingInit ==
    /\ writing = NoWrite /\ priming = "STOPPED"
    /\ memoryRead("BOTTLECOUNTER") < MaxBottles
    /\ priming' = "WAITING"
    /\ priming_bottleCounter' = memoryRead("BOTTLECOUNTER")
    /\ priming_batchCounter' = memoryRead("BATCHCOUNTER")
    /\ UNCHANGED <<eeprom, writing, history>>

(* PRIMING_WAITING with a batch left, once the stagnation time is over and *)
(* the wifi is connected.                                                  *)
NextBatchDue_early == (priming_bottleCounter + 1) % priming_numBottlesPerBatch = 0

NextBatchDue ==
    priming_bottleCounter % priming_numBottlesPerBatch = 0 /\ priming_bottleCounter # 0

BatchesLeft_oneMore == priming_batchCounter <= priming_numBatches

BatchesLeft == priming_batchCounter < priming_numBatches

(* A batch begins; the count is right again unless a clear has left the    *)
(* EEPROM behind the counter of the running task.                          *)
BatchBegins ==
    /\ batch' = [filled |-> filled, outages |-> outages]
    /\ harm' = (harm /\ memoryRead("BOTTLECOUNTER") # priming_bottleCounter)
    /\ UNCHANGED <<filled, outages>>

Starts ==
    /\ writing = NoWrite /\ priming = "WAITING"
    /\ BatchesLeft
    /\ priming' = "FILLING"
    /\ IF NextBatchDue
       THEN /\ priming_batchCounter' = priming_batchCounter + 1
            /\ memoryWrite("BATCHCOUNTER", priming_batchCounter + 1)
            /\ BatchBegins
       ELSE UNCHANGED <<priming_batchCounter, eeprom, writing, history>>
    /\ UNCHANGED priming_bottleCounter

(* errorState(FINISHED), and any other error: PRIMING stops.  When it was  *)
(* filling the first bottle of a batch, the restart begins another batch.  *)
StopsEarly ==
    /\ writing = NoWrite /\ priming # "STOPPED"
    /\ priming' = "STOPPED"
    /\ UNCHANGED <<eeprom, writing, priming_bottleCounter, priming_batchCounter, history>>

(* The head of priming_runnable: the tank is empty, the bottle is counted. *)
(* It is not guarded by priming_hasStarted: a tank that is found empty in  *)
(* PRIMING_WAITING counts a bottle, too, and may pass the first bottle of  *)
(* a batch without beginning it.                                           *)
Counts(from) ==
    /\ writing = NoWrite /\ priming = from
    /\ priming_bottleCounter < MaxBottles
    /\ priming_bottleCounter' = priming_bottleCounter + 1
    /\ memoryWrite("BOTTLECOUNTER", priming_bottleCounter + 1)
    /\ priming' = "STOPPED"
    /\ UNCHANGED <<priming_batchCounter, outages, batch>>

CountsFilled == Counts("FILLING") /\ filled' = filled + 1 /\ UNCHANGED harm
CountsPhantom == Counts("WAITING") /\ harm' = TRUE /\ UNCHANGED filled

(* The topic CVR2_bottleCounter_to_rig: the first n of the four bytes that *)
(* it clears are zero.                                                     *)
Zeroes(n) ==
    eeprom' = [c \in Counters |->
                 LET before == IF c = "BOTTLECOUNTER" THEN 0 ELSE 2
                 IN <<IF n > before THEN 0 ELSE eeprom[c][1],
                      IF n > before + 1 THEN 0 ELSE eeprom[c][2]>>]

CountAnew ==
    filled' = 0 /\ outages' = 0 /\ batch' = [filled |-> 0, outages |-> 0]

(* The clear does not reach the counters of a PRIMING that is running.     *)
ClearCount ==
    /\ writing = NoWrite
    /\ Zeroes(4)
    /\ CountAnew /\ harm' = (priming # "STOPPED")
    /\ UNCHANGED <<writing, priming_bottleCounter, priming_batchCounter, priming>>

(* The rig restarts with PRIMING stopped.                                  *)
Restarts ==
    /\ writing' = NoWrite
    /\ priming' = "STOPPED"
    /\ priming_bottleCounter' = 0 /\ priming_batchCounter' = 0

(* A power loss.  It may come between the two bytes of a count.            *)
PowerLoss ==
    /\ outages < MaxOutages
    /\ Restarts
    /\ outages' = outages + 1
    /\ harm' = (harm \/ (/\ writing.counter = "BOTTLECOUNTER"
                         /\ memoryRead("BOTTLECOUNTER") > priming_bottleCounter))
    /\ UNCHANGED <<eeprom, filled, batch>>

(* A power loss between two bytes of a clear.                              *)
ClearIsCut ==
    /\ writing = NoWrite
    /\ \E n \in 1 .. 3 : Zeroes(n)
    /\ Restarts
    /\ CountAnew /\ harm' = (eeprom'["BOTTLECOUNTER"] # <<0, 0>>)

BatchesNext ==
    \/ WriteLow
    \/ PrimingInit
    \/ Starts
    \/ StopsEarly
    \/ CountsFilled
    \/ CountsPhantom
    \/ ClearCount
    \/ PowerLoss
    \/ ClearIsCut

BatchesSpec == BatchesInit /\ [][BatchesNext]_batchVars

(* When the next batch begins, the one before it has all its bottles: with *)
(* each power loss perhaps one more, that was filled and not counted, or   *)
(* else none, when the task was stopped in its first bottle and began the  *)
(* next batch with that one (priming.h:127-133).  This does not cover a    *)
(* batch in which the count is harmed: by a phantom (priming.h:100), by a  *)
(* clear that comes while PRIMING runs or is cut off (wifi.h:321), by a    *)
(* power loss between the bytes of a count that carries (memory.h:51).     *)
BatchSize ==
    [][priming' = "FILLING" /\ priming_batchCounter' # priming_batchCounter /\ ~harm =>
          \E lost \in 0 .. outages - batch.outages :
             filled - batch.filled - lost \in {0, priming_numBottlesPerBatch}]_batchVars

(* However often the power fails, and in the middle of whatever write, the *)
(* EEPROM has counted every bottle that was filled but one for each power  *)
(* loss: cut off between the two bytes of memoryWrite, a count may be too  *)
(* high, never too low, because the high byte goes first.                  *)
NeverForgets ==
    filled <= memoryRead("BOTTLECOUNTER") + outages
                + (IF writing.counter = "BOTTLECOUNTER" THEN 1 ELSE 0)

(* The UI sets a number of batches and of bottles per batch (wifi.h:262,   *)
(* 265).  However often PRIMING is stopped and restarted, an experiment    *)
(* whose bottles are all counted, and counted once, fills no more than     *)
(* that and one: the batch counter is compared before the next batch is    *)
(* counted (priming.h:125-133), so the last batch begins with a bottle.    *)
ExperimentSize ==
    outages = 0 /\ writing = NoWrite /\ filled = memoryRead("BOTTLECOUNTER") =>
        filled <= priming_numBatches * priming_numBottlesPerBatch + 1

=============================================================================
