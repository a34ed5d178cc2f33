# The cartridge validation rig in TLA+

The repository is the firmware of a machine that fills bottles through a water
cartridge under test: it fills a tank (the ITK), pumps it into a bottle in doses
with CO2 valves, lets a sampler draw water from the bottle, drains it and starts
again, for days, with nobody near it. The firmware is one loop on one core
with ten cooperative tasks. What can go wrong is water on the floor: a pump or
a valve that stays on because its task was stopped in an unforeseen state,
because an error was lost, or because the processor hangs in a connection
attempt. That is what the properties here are about, in the tasks, in the devices
they read, and in the stack of vendored libraries through which the rig hears its
operator.

Paths are below `src/CVR2.0/`. Names of TLA+ definitions are those of the code.

## 1. Inventory

| Component | State it keeps | Operations | Interacts with |
|---|---|---|---|
| Task, task_list (`lib/tasks/_task_cfg.*`) | state, timer, allowWifiReconnect of ten tasks | start, stop, hardStart, hardStop | everything |
| scheduler (`lib/system/scheduler.h`) | none of its own | update, run, flag, once per pass | calls the fptr of each task |
| error state (`_task_cfg.cpp`) | `_errorState` | errorState(e), isError() | starts DRAINING on five errors |
| PRIMING | step of the dose, hasStarted, counters of bottles and batches in EEPROM | init, runnable, deinit | waits for SAMPLING, FILLITK and the broker; starts SENSORS, FILLITK, SAMPLING; stops DRAINING; feed pump, bottle and CO2 valves |
| FILLITK | times | init, runnable, deinit | starts PRIMING; supply pump |
| SAMPLING | sampling_state, step of the sample | init, runnable, deinit, recovery | sampler over a serial line; stops FILLITK and calls PRIMING's deinit when it recovers; output and waste pumps, two valves |
| DRAINING | start time and length | init, runnable, deinit | output and waste pumps, a valve |
| SENSORS | debounce counters | init, runnable, deinit | reads PRIMING's state, raises errors |
| LEAKHANDLER | two timers | init, runnable, deinit | raises LEAK, clears any error when it stops |
| BTNHANDLER, Switch, OneButton | debounced levels | poll, tick | start FILLITK, LEAKHANDLER, DRAINING |
| SHIFTREGISTERHANDLER | relay word | turnOn, turnOff, update, shutDown | all that drive relays |
| IDLE | debounce of the pause switch | runnable | paused, the error state |
| WIFI (`lib/cfg/wifi.h`) | WifiState | runnable, retry, messageReceived | blocks the processor; commands start and stop tasks |
| SampleControl | dialogue state, attempts | moves, askNumSample, reset | raises SAMPLERERROR, blocks the processor |
| memory | EEPROM | memoryRead, memoryWrite | parameters and counters |
| Switch, OneButton (`lib/z_Switch-master`, `lib/z_OneButton`) | level and ages of a contact, state of a press | poll, tick | the pins; OneButton starts a task itself |
| MQTTClient (`lib/z_arduino-mqtt-master/src`) | `_connected`, options, callback | connect, subscribe, publish, loop, close | blocks WIFI; calls the callback from inside loop and from inside every wait |
| lwmqtt (`.../lwmqtt/`) | packet id, pong_pending, two timers, two buffers | cycle, cycle_until, keep_alive; encoders and decoders | MQTTClient above, a Client's read and write below |
| WiFiClient, WiFiSocketBuffer (`lib/z_WiFiNINA-master/src`) | `_sock`, a buffer per socket | connect, read, write, stop, connected | ServerDrv; the caller's callback may call it again |
| ServerDrv, WiFiDrv, SpiDrv (`.../utility/`) | none | one exchange with the wifi module each | the module, over SPI and the SLAVEREADY line |
| WiFi, WiFiUdp, WiFiSSLClient | | begin with its polling, UDP, TLS | WiFiDrv; UDP and TLS are not used by the rig |
| PubSubClient, pressure, temperature | unused; stateless | | |

What is hard here: tasks start and stop each other in any state; two tasks
share the output pump; the error state is set by five tasks and
cleared by four; the recovery from a sampler error works on other tasks' state
and then blocks for 40 seconds; the guard against connecting with a pump on is
spread over the init and deinit functions of four tasks; periods are counted in passes
and share their timer with stop().

Below the tasks: the sampler's answers may be lost, late or refusals, and late ones
stay in the serial buffer; the contacts are looked at only in windows of a few
milliseconds; the counters of bottles and batches live in an EEPROM written byte by
byte; the callback of a message publishes from inside the client that called it;
acknowledgements are matched by type alone; the driver of the wifi module waits
without a time limit on a line that floats while the module restarts. `PROJECT.json` lists the hazards, each at
its line, with the properties that cover it or the reason why none does yet.

## 2. The modules

    Tasks --- Scheduler --- Period --- MCPeriod
                  |   \         \--- PeriodProofs (EXTENDS SchedulerProofs)
                  |    \--- SchedulerProofs
                  | (INSTANCE)
              RigState --- Priming, FillITK, LeakHandler, Sampling,
                           Draining, Sensors, Panel, Wifi  --- Rig
                                                               \--- RigProofs

    SampleSeries <--(INSTANCE)-- Sampler  \        Sampler, Batches --- BottleProofs
    Switch --- LeakWatch                   \
    OneButton                               >-- MCDevices
    Batches                                /        LeakWatch, OneButton --- ContactProofs

    MQTTClient --- MQTTProofs                   \
    Packet --- PacketStream --- MCPacket         >-- MCNetwork
                       \--- PacketProofs        /
    WiFiClient ---------------------\          /
    SpiFrame --- SpiDrv, ServerDrv, WiFiDrv --+--- NinaProofs

* **Tasks**: the class Task and the two loops of the scheduler that call no
  task, as operators on the whole task_list.
* **Scheduler**: the abstract specification. The tasks are known by the
  contract that the comments of `_task_cfg.h` state (start and stop from
  anywhere, hardStart and hardStop for oneself, allowWifiReconnect set again by
  deinit). A step is one call of a fptr, or the end of a pass and the update of
  the next. `turn` and `check` stand for the loop index and the if-statement
  that scheduler_runTasks is at, so that a task stopped by a later one has its
  deinit in the next pass and one stopped by an earlier one in the same pass,
  as in the code.
* **Period**: the scheduler with two history variables that measure the passes
  between the calls of a task.
* **RigState**: what the tasks share. `relay` is the set of relays that
  shiftRegister_value_new has on (a cleared bit), `out` those that the register
  has on; `feed` is the PWM of the feed pump, which does not go through the
  register; `net` is what WiFi.status() and wifi_client.connected() would say;
  `hang` is the blocking call the processor is in. `tank` and `bottle` are the
  water. Scheduler is an INSTANCE of it, with the ten tasks of task_enum.
* **Priming, FillITK, LeakHandler, Sampling, Draining, Sensors, Panel, Wifi**:
  one action per init, runnable and deinit, split where the code switches over
  a state. Panel holds the three small system tasks.
* **Rig**: the composition, and the properties of the whole.
* **Sampler**: `z_SampleControl` and the part of SAMPLING that talks to it. An
  action is one command on the serial line with the readString that waits for its
  answer. `resets` is the stack of reset() calls that an E01 nests inside one
  another; `stale` is what an earlier command left in the serial buffer; `hole` and
  `over` belong to the sampler itself. `broken` records that something has happened
  after which the code cannot know the hole.
* **SampleSeries**: the abstract specification of a sampling: consecutive holes,
  none left out, none used twice, and what voids that promise. Sampler implements it
  (`ImplementsSeries`), with `broken` for `void`.
* **Switch**, **LeakWatch**: Switch::poll, and LEAKHANDLER in ticks from one pass to
  the next, passes taking whatever the blocking calls of other tasks take; the poll of
  BTNHANDLER comes anywhere in the pass. LeakHandler has the same task among the
  other nine.
* **OneButton**: tick, with ages for `_startTime` and `_stopTime`.
* **Batches**: the two counters of PRIMING, the EEPROM under them in two bytes each,
  a power loss at any step, and the UI's clear, which a power loss may cut off. Beside
  them it counts the bottles that were really filled, in all and in the current batch.
* **MQTTClient**: MQTTClient.cpp over lwmqtt/client.c as WIFI uses it. `call` is
  the blocking call in progress and the packet it waits for; every packet read,
  every timeout and every error of it is a step. The callback answers some messages by
  a publication and is silent on others (`Answers`). `Window` is the 64 byte buffer of
  the socket, `Capacity` what may be on its way to it.
* **Packet**, **PacketStream**: the encoders and decoders of packet.c and helpers.c
  on sequences of bytes, and lwmqtt_read_packet_in_buffer on a stream that arrives
  in pieces. `ClientPackets` and `BrokerPackets` are the packets that the types of
  lwmqtt.h and packet.h can hold; a run takes a few of them.
* **WiFiClient**: a TCP connection of the wifi module: `_sock`, the buffers, and
  every exchange a step, so that the network may change between two of them, and
  every reply may fail, getDataBuf's after the module has handed out its bytes.
* **SpiFrame**, **SpiDrv**: one exchange, from waitForSlaveReady to the reply, with
  a module that may restart anywhere in it. **ServerDrv**, **WiFiDrv**: the size,
  padding and reply of each of their functions, as records that SpiDrv plays.

Operators with a suffix, such as `Closed_valveForgotten` beside `Closed`, are
wrong versions of an operator, each a bug a change might bring in. They are used
nowhere; put in the place of the right one, each makes TLC find the property
that `PROJECT.json` names for it violated.

### What is abstracted

* **Time.** A comparison with millis() may come out either way whenever it is
  evaluated. So every order of timeouts is covered, also impossible ones;
  safety properties that hold do not depend on any duration.
* **Passes** are counted exactly, but loop_ms is scaled down: 100 (PRIMING,
  FILLITK, SAMPLING) is `FastLoop` and 1000 (WIFI) is `WifiLoop`.
* **Debouncing** by counters (eleven readings in PRIMING and SENSORS) is one
  free choice when the counter may run out.
* **Time in the devices** is measured: LeakWatch, Switch and OneButton keep ages,
  capped where no comparison can tell them apart.
* **The dose** of PRIMING is one state beside PRIMING_WAITING and PRIMING_IDLE; the two CO2
  valves are one relay. In Rig the counters of bottles and batches only decide
  between waiting, starting and FINISHED, a free choice; Batches has them.
* **The sampler's dialogue** is, in Rig, a free choice of what it may leave: the step
  done or not, SAMPLERERROR raised or not, reset by an E01 or not.
* **The water** in the tank rises only with the supply pump's relay on and falls only
  with the feed pump; the bottle is full from the first pumping until
  the drain time is over with the output pump on.
* **Messages**: any set of commands may arrive in one run of WIFI.
* **Layers.** Each layer of the network stack is checked with the one below it as a
  free environment: MQTTClient's link loses silence and connections, not single
  bytes; PacketStream's stream delivers all bytes in order, which is what
  `BytesInOrder` shows of WiFiClient; WiFiClient's exchanges may lose their reply,
  which is what `AnswersMatch` leaves of a module that restarts.
* **Names, payloads, topics** are short sequences of bytes where a length or a
  position matters (Packet) and are left out elsewhere.
* **The hardware's errors** come from the constant `Faults`, the operator's
  acts from `Inputs`; a run chooses the ones its question needs.

The blocking calls are steps of their own (`hang`), because the relays stay as
they are while they last and everything else stands still. In
`sampling_resetDone` the rest of the branch follows.

## 3. The properties

Scheduler and Period (run `period`): `PTypeOK`; `StoppedIsSafe`, a stopped task
has given back its guard; `NeverOverdue` and `RunsOnTime`, a task's runnable is
called exactly loop_ms passes after the call before, whatever the others do to
it, but for its very first wait (the constructor assigns to its parameter
`timer`, `_task_cfg.cpp:130`, and the member is 0 because task_list is global);
`StopTakesEffect`.

Rig:

| Property | What it says | Code |
|---|---|---|
| `TypeOK` | types | |
| `RelaysOwned` | after boot and outside the reset, a relay that is on, and the feed pump, has a task that is not stopped and whose deinit turns it off | the deinit functions |
| `DangerousWhenPumping` | a pump that is on has a task that keeps wifi_retry from reconnecting | `_task_cfg.h:78` |
| `RetryWithPumpsOff` | the connection is given up only with the pumps off, in the register and not only in the word | `wifi.h:361` |
| `PrimingExcludesSampling` | the bottle is not filled while it is emptied | `priming.h:126` |
| `NoOverfill` | no priming starts with a bottle not drained | `priming.h:126`, `sampling.h:145` |
| `MonitoredPriming` | the pressures are watched while the bottle is filled | `priming.h:242`, `sensors.h:83` |
| `ErrorHolds` | an error is ended by the operator, in IDLE or WIFI, by the end of LEAKHANDLER, or by the recovery of SAMPLING if it is SAMPLERERROR, and by nothing else: not by a task that is started again or a reset that comes back | `fillITK.h:33`, `sampling.h:70`, `leakHandler.h:58` |
| `ErrorStops` | an error that stays turns off the pumps that fill | `_task_cfg.cpp:26` |
| `FinishesDraining` | in the last state of a sampling the output pump is on; holds without SAMPLERERROR, see below | `sampling.h:145` |
| `CycleContinues` | filling leads to a full bottle and a full bottle to an empty one | the three tasks |
| `ImplementsScheduler` | every step of the rig is a step of Scheduler or a stutter | `_task_cfg.h:58-67` |

Devices (run `devices`):

| Property | What it says | Code |
|---|---|---|
| `ImplementsSeries` | samples go to consecutive holes, through repeated commands, lost answers, numbers asked in vain, stops before the dose and recoveries that find their hole | `SampleControl.cpp:50-148`, `sampling.h:69-79, 213-247` |
| `SamplingEnds` | once the sampler answers again, a sampling ends, whatever went wrong before | `SampleControl.cpp:134-164` |
| `LeakNeedsWater` | LEAK is raised only if a poll has found the sensor wet since the task was started, or if the pass before the look was longer than what the two debouncings leave | `leakHandler.h:33`, `Switch.cpp:90` |
| `LeakAnnounced` | a sensor that stays wet raises LEAK, unless a pass takes all of the window | `leakHandler.h:24-34` |
| `OneStartPerPress` | a press starts FILLITK at most once, and only after the press time | `OneButton.cpp:172-190` |
| `BatchSize` | when the next batch begins, the one before has its number of bottles; one more for each power loss at most, or none, if the task was stopped in its first bottle | `priming.h:100-134` |
| `ExperimentSize` | an experiment whose bottles are all counted, and counted once, fills no more than its batches of bottles and one | `priming.h:125-134` |
| `NeverForgets` | the EEPROM has counted every bottle filled, but one for each power loss | `memory.h:49` |

`BatchSize` counts the bottles that are filled, not the counter of the code, through any
number of power losses. It does not speak of a batch whose count is harmed: by a phantom
count (`priming.h:100`), by a clear that meets a running PRIMING or is cut off
(`wifi.h:321`), by a power loss between the two bytes of a count that carries
(`memory.h:51`). The next batch that begins with EEPROM and counter in agreement counts
again. `ExperimentSize` has one bottle more than the settings of the UI say (`wifi.h:262`,
`265`: "Number of batches", "Number of bottles per batch"), because the counter is
compared before the next batch is counted; TLC finds it violated without that one.

`LeakNeedsWater` and `LeakAnnounced` are what is left of `leakHandler.h:32`, "double check if
leak is real". A pass takes what the blocking calls of other tasks take. A long one
before the look keeps the switch from being polled, and the look then reads what the one
poll before leakHandler_init has left: a splash that is over is announced. One that takes
all of the 5 ms goes by the window; LEAKHANDLER stays RUNNING without looking again, and
start() of a RUNNING task does not restart it: a leak that lasts is not announced. Without
their exceptions for these passes TLC finds both properties violated.

`ImplementsSeries` is void (`broken`) once the line or a stop has done what the code has no
way to notice: an answer that comes late, a refusal E01, a Gr1 that is obeyed and not
answered (it is sent again, and moves twice); a stop after the dose and before the move;
and three things of the recovery (`Astray`, `Misplaces`). A recovery goes back to the
number that was asked last and then to the waste. So in step 1 the next dose goes to the
waste, in step 4 the next sample goes to the hole that was just filled, and in step 0 the
number may have been asked in vain before. A recovery in step 0 with the right number, or in step 3, finds its hole,
and the property says so; it is the command that a recovery gives up which voids it.

Network (run `network`):

| Property | What it says | Code |
|---|---|---|
| `HearsEverything` | a rig that calls itself CONNECTED is subscribed to every topic | `wifi.h:144-155` |
| `AckIsMine` | the acknowledgement that ends a call is for its packet, though only its type is compared | `client.c:314-339` |
| `PongTimeoutIsTrue` | the keep alive gives up a link only if it has been silent, or if the loop before found more than the socket's buffer holds and the answer was behind it | `client.c:580-618`, `WiFiSocketBuffer.cpp:30` |
| `SilenceIsNoticed` | and it does give up one that stays silent | `client.c:580-618` |
| `ReadsWhatWasSent` | the decoders return what was encoded, whatever is left in the buffer and however the bytes arrive | `client.c:121-176`, `packet.c` |
| `StaysInFrame` | each encoder writes as many bytes as it announces | `packet.c` |
| `FailsForRoomOnly` | a packet that fits the buffer is not refused | `client.c:62-66` |
| `BytesInOrder` | the client reads the bytes of its connection, in order and without gaps, and none of an earlier one on the same socket; after a getDataBuf whose reply failed, gaps and bytes that nobody sent are possible, the rest is still of this connection and in order | `WiFiSocketBuffer.cpp:57-74` |
| `CloseNoticed` | a connection that is gone is given up | `WiFiClient.cpp:221-242` |
| `AnswersMatch` | a reply is never taken for the answer to another command | `spi_drv.cpp:126-134, 210-246` |
| `FindsModuleAgain` | a restart of the module costs two answers at most | the same |
| `FramesAreWords` | the commands that the rig sends are multiples of four bytes | `server_drv.cpp`, `wifi_drv.cpp` |
| `ExchangesEnd` | every call of the driver returns, as long as the module comes up again after a restart | `spi_drv.cpp:210-213` |

`ImplementsScheduler` is the refinement: task_list, turn and check map to
themselves. It is what makes the theorems about Scheduler statements about the
rig, for every run in which the tasks keep the contract. One piece of code does
not keep it: the recovery of SAMPLING hardStops FILLITK, so the property is
checked without SAMPLERERROR.

## 4. The runs

| Run | Faults | Inputs | Fast/Wifi | States |
|---|---|---|---|---|
| `period` | | start and stop of each by the other | loop_ms 0 and 3 | 1 thousand |
| `rig_cycle` | none | start, pause | 2/2 | 43 thousand |
| `rig_errors` | FAILTOFILL, HIGHPRESSURE | start | 2/2 | 146 thousand |
| `rig_leak` | LEAK, SAMPLERERROR, E01 | start | 2/2 | 548 thousand |
| `rig_operator` | NETWORK, FINISHED | sample, prime, clear, flick | 2/1 | 741 thousand |
| `rig_reset`, `rig_hang`, `rig_draining` | SAMPLERERROR, none, SAMPLERERROR | start | 2/2 | to the counterexample |
| `rig_false_alarm` | LEAK, HIGHPRESSURE | start | 2/2 | to the counterexample |

| Run | What may go wrong | States |
|---|---|---|
| `devices` | the sampler's line, contacts, long passes, power losses, clears | 308 thousand |
| `network` | broker, link, peer, module, replies | 118 thousand |
| `socket_index` | a close | to the counterexample |

All states of each instance are explored; there is no bound on the length of a
behaviour. The bounds are the constants:

* `MAX_TASKS = 2` in `period`: the contract lets any task do to any other what
  the rest could, and one task that runs every pass beside one with a period
  covers both branches of the scheduler; 3 passes are enough to have a first, a
  middle and a last pass of a wait. The theorems remove both bounds.
* `FastLoop = 2` is the smallest period with passes in which the task does not
  run, in which the others may do anything. `WifiLoop = 2` too; in
  `rig_operator` it is 1, so that a command may come in every pass, which it
  could between any two runs of the slower tasks in the code.
* `Faults` and `Inputs` are split over the runs so that each question sees the
  ones that could break it. All of them together are out of reach of a
  short run.

* `devices` has four behaviours side by side (`device`), so that one run answers for all.
  Sampler: `MAX_COMM_ATTEMPTS = 2` (40 in the code) lets attempts add up over two
  samples before they run out; `Holes = 3`, so that a sample that goes astray has holes
  on either side; `MaxResets = 2`, a reset inside a reset, and the return from both.
  LeakWatch: the debouncings are equal, as in the code (100 ms each), and the window
  is half of one. A pass takes 1 to 4 ticks, more than the window of 3, so passes that
  miss it are in the run, and so are those that leave the switch no poll before the look.
  OneButton: the three thresholds in the code's order, ticks 0 to 2 apart.
  Batches: `Base = 4` stands for 256, so that the bottle counter carries into its high
  byte in each batch but the first; three batches of three bottles; two power losses between
  two clears. `MaxBottles = 13` is three more than an experiment fills: a batch too many,
  and phantoms, have room.
* `network` has four layers side by side (`layer`), so that one run answers for all.
  `MaxPacketId = 3` wraps within a connection; two topics, one to fail after one that
  succeeds; `KeepAlive` longer than `Timeout`, as 12 s and 3 s are. `Window = 1` and
  `Capacity = 2`: more may be on the way than the read buffer holds, so an answer to a
  ping does wait behind a message while the keep alive expires; without the exception
  that `PongTimeoutIsTrue` makes TLC finds it violated. `read_buf_size = 140` lets a
  packet with a remaining length of two bytes fit exactly and one be refused. One byte
  of buffer and two sockets make every read a new exchange and every connection reuse a
  socket. A reply may fail, getDataBuf's once (`MaxMissed`): WiFiSocketBuffer then counts
  the 64 bytes it asked for as received and delivers what the buffer held before
  (`WiFiSocketBuffer.cpp:66-69`). `MCRequests` has a driver function for each kind of
  reply. One restart of the module, at any step.

Deadlock is checked in the runs of Scheduler and Rig: the loop never stops. In
the others a behaviour stops where a bound ends it.

### Fairness

`LoopSpec` asks only that the processor goes on (`while(true)` in main.cpp), and
that a blocking call returns. `ErrorStops` needs no more. `CycleContinues` needs
`FairSpec`: pumped water moves, and a timer that is compared again and again
elapses, so the outcomes that end a wait are strongly fair; strong, because they
are enabled only in the pass in which their task runs. The property itself
assumes what the code waits for: the connection stays, the rig is not paused for
ever, the operator does not start FILLITK again (which during a priming
refills the tank and may do so for ever, an outcome the code accepts).

Devices: the passes and the sampler's task go on (the scheduler is weakly fair to
each), and the line heals at a step of its own that need not come: `SamplingEnds`
speaks of behaviours in which it did. Network: the rig's calls go on, the clock ticks,
the module makes its steps; nothing is assumed of the link, the broker or the peer.
In the two MC modules these conditions are put together where only one device or
layer can move.

### Where the code does not do what its comments say

* `rig_reset`: `sampling.h:76` says filling is turned off before the reset that
  hangs the machine. hardStop skips FILLITK's deinit: the state machine is
  stopped, the supply pump is not.
* `rig_hang`: `_task_cfg.h:78` says that allowWifiReconnect prevents hanging in
  a connection attempt with a pump on. It guards the retry only; a rig started
  before it is connected hangs in `WiFi.begin` or `connect` with the pump on.
* `rig_draining`: `sampling.h:140` and `145` promise to finish draining. After a
  SAMPLERERROR in the last step of a sample the pump is off for the rest.
* `rig_false_alarm`: `_task_cfg.cpp:27` says that an error stops the machine until it is
  cleared and started again. The end of a leak's false alarm clears whatever error there
  is; one that SENSORS raised in the same pass is gone before PRIMING has looked, and
  the feed pump goes on.
* `socket_index`: `wl_definitions.h:42` gives the number of sockets. A callback whose
  publication finds the connection closed leaves `_sock` at 255, and the read it was
  called from uses it as an index into ten buffers.

The exceptions of the properties in section 3 are others: the leak that is not double
checked, or not announced, after a long pass; the one bottle more; the recovery of the
sampler. After a recovery in step 1 of a sample (the attempts of the last command of step 0
were used up, and cmdSuccess returns true for it) the pump is turned on with the needle
over the waste (`sampling.h:177`), and after one in step 4 the next sample goes to the hole
that has one (`sampling.h:199`), both on a line that only loses commands.

Seen while modelling, and stated by no comment that a run could refute: lwmqtt.h and
the library's README advise against calling the client from its callback, which
`wifi_messageReceived` does for every message; such a publication restarts
the command timer of the call it interrupts, so that a stream of commands may stretch
the 3 seconds of a subscription at will. WiFiClient::connect gives up its socket at
the first state that is not ESTABLISHED and then polls socket 255 for the rest of its
wait. decode_connack takes session_present from bit 7, MQTT has it in bit 0; nothing
uses it. Five driver functions are not padded to words (`OthersAreMisframed`); the rig
calls none of them.

## 5. What is proved

In `SchedulerProofs` and `PeriodProofs`, for any `MAX_TASKS` and any
`LoopMs \in [Task -> Nat]` (`TasksAssumption`, all that is assumed):

* `TypeCorrect`: `Spec => []TypeOK`. One step per action; the lemmas say that
  start, stop and the update keep a TaskRecord a TaskRecord, and that whatever
  Touched and Leaves allow does so too.
* `StoppedTasksAreSafe`: `Spec => []StoppedIsSafe`. Inductive with TypeOK: only
  deinit makes a task STOPPED, and it sets the flag before; nothing that other
  tasks do to it can clear it.
* `PTypeCorrect`: `PSpec => []PTypeOK`.
* `NeverOverdueAlways` and `RunsOnTimeAlways`: `NeverOverdue` is not inductive,
  because it does not mention the timer. The invariant `PInv` adds `Paced`: for
  a periodic task that waits, the passes since its last call and its timer add up to
  the period, and for one that runs its timer has been reloaded (or, for a task
  in `fresh`, is still 0). An action that starts or stops another task must keep
  this through stop()'s reload, which is the reason the reload is there: without
  it (`stop_noReload`) a task stopped in the middle of a wait and started again
  would run early.

In `NinaProofs`, the proofs about the driver of the wifi module, for any `Requests` that keep `SpiAssumption` (each waits for one of the
six kinds of reply, and requests with the same command agree on whether there is
one) and any `MaxCrashes`:

* `CommandsAreWords`: the frames of all commands the rig can send over the
  network are words, for every length of a name, key or buffer; the lemmas take the
  driver functions group by group. `OthersAreMisframed` names those that are not.
* `FramesAlwaysWords`: `SpiSpec => []FramesAreWords`, from `Framed`: the request in
  progress is one of `Requests`, and what the module has taken in is a word, because
  it took it from one.
* `AnswersAlwaysMatch`: `SpiSpec => []AnswersMatch`. AnswersMatch speaks of the past
  only. The invariant `InTouch` says how far host and module may be apart: a frame
  that will be answered belongs to the exchange in progress, unless the host
  has already left it, and then SLAVEREADY is high and the host will not select the
  module before the reply is there to be taken or dropped; a reply that waits is the
  one for the exchange in progress as soon as the host may read it. One lemma for
  the host's steps, one for the module's.
* `AlwaysFindsModuleAgain`: `SpiSpec => []FindsModuleAgain`, if every request has bytes
  (`SomeBytes`; `CommandBytes` shows that all commands of the drivers do). The bound on
  `lost` is not inductive. `SpiInv` adds to `InTouch` what the module may be doing while
  the host waits (`Attentive`) and how much may have been lost by then in each of
  these situations (`Counted`): one answer more where the host has yet to read one,
  none where the module is about to be found again.

In `ContactProofs`, for any thresholds and `MaxTick` (`OneButtonAssumption`), and any
times of the leak's contact and its window (`SwitchAssumption`, `LeakWatchAssumption`):

* `OneStartPerPressAlways`: `ButtonSpec => OneStartPerPress`. The invariant
  `ButtonInv` is the types and `DownSince`: in state 1 the age of `_startTime` is at
  most the time for which the button has been held, and a press that has started
  the task is in state 6, which it leaves only by a release.
* `LeakAlwaysNeedsWater`: `LeakSpec => LeakNeedsWater`, for passes of any length. The
  invariant `HeldOn`: while no poll has found the sensor wet since LEAKHANDLER was started
  and its window is not over, a switch that is on was switched at least as long ago as the
  task runs plus what it was old at the start (`lag`), and that time is less than
  `debounceDelay` beyond the last poll, or the poll would have let go of it.

In `BottleProofs`, for any `Base` of at least 2 and any number of batches and of
bottles in one (`BatchesAssumption`; the theorems never use that a number fits into two
bytes, since memoryRead of a high byte of any size is the number again):

* `NeverForgetsAlways`: `BatchesSpec => []NeverForgets`. The invariant `BatchesInv` says
  what the EEPROM holds (`Counted`): the counter of the task, unless that was cleared, or,
  while a byte is still to be written, its high byte, with its low byte in `writing`. The
  quotient never falls when the number grows by one, so high byte first is at most one
  too few, and a power loss leaves it at that.
* `BatchSizeAlways`: `BatchesSpec => BatchSize`. The second half of `BatchesInv`, `Grouped`:
  while the count is not harmed it is a number of whole batches and some bottles of the
  current one (`Within`), and so many have been filled since that batch began, and one
  more for each power loss at most. It has three cases: a count that is half written, a
  bottle being filled, and the time between two bottles.
* `ExperimentSizeAlways`: `BatchesSpec => []ExperimentSize`. `Sized` says, while every bottle
  has been counted and counted once, that the batches that were counted are enough for the
  bottles (`InTime`): with k of them, no more than k + 1 batches of bottles, as each multiple
  passes a start of PRIMING that counts a batch. A phantom, a clear or a power loss makes
  the premise false for good, or until the next clear.
* `SamplesInSeries`: `SamplerSpec => ImplementsSeries`, for any `Holes`,
  `MAX_COMM_ATTEMPTS`, `LineFaults` and `MaxResets` (`SamplerAssumption`). The invariant
  `SamplerInv` says, while the promise is not void, where the hole is to the last dose in
  each step of a sample (`Positioned`), that Serial1 holds nothing but perhaps an
  unread Z, and that a recovery is on its way to the hole of the next dose or
  of the one that has ended (`Recovering`). One lemma per step of the sample and for
  the recovery; StartsDose is a Dose, EndsDose an EndDose, whatever breaks the promise a
  Void, and all the rest stutters. It does not say that the promise is kept often: what
  voids it is listed in section 3.

In `MQTTProofs`, for any number of topics, any levels, packet ids, times and capacities
(`MQTTAssumption`); the fairness of `MQTTSpec` is not used:

* `HearsEverythingAlways`: `MQTTSpec => []HearsEverything`. The invariant `MQTTInv` ties
  what is on its way to the call in progress. A CONNECT is alone on the link, so that a
  broker that forgets its session does so before the first subscription; of a SUBSCRIBE
  and its SUBACK there is one, for the topic after `subscribed`; as long as the client
  is connected, all topics up to `subscribed` are granted. The loop may forget a failed
  subscription only because `close` (`ClosedInv`) ends the connection with it.
* `AckIsMineAlways`: `MQTTSpec => AckIsMine`. The second invariant `AckInv` says that of
  the packets that are waited for (`InMine`, `OutMine`: those of a subscription or of a
  publication and its handshake) at most one is on its way, there or back, that there is
  none outside a call, and that it has the call's packet id. The handshakes that the
  broker starts use the same types the other way round and do not count.

* `PongTimeoutAlwaysTrue`: `MQTTSpec => PongTimeoutIsTrue`, for any `Window` and
  `Capacity`. The third invariant `PongInv` follows the
  one ping that may be outstanding: as long as the link has not been silent it is on its
  way there or back (`Answered`, `OnePing`), the keep alive timer has not run out while
  it is on the way there, and, unless the loop was `crowded`, what it has not read of the
  answers came too late to have been waited for (`Reading`). Link and broker have their
  own conjunct (`LinkHonest`).

In `PacketProofs`, for any packets that the types of lwmqtt can hold
(`PacketStreamAssumption`: strings are sequences of bytes, ids fit 16 bits, levels are 0
to 2, a publication of level 0 has id 0, SUBSCRIBE has a level per topic and a SUBACK
one level, because MQTTClient subscribes to one topic at a time), any
`read_buf_size` of at least 1 and bytes that arrive in any pieces:

* `WritesVarnum`: the digits that lwmqtt_write_varnum writes of a number below 128^4 end
  with the first byte below 128 and are the number; the lemma `ReadsVarnum` is the way
  back, and `WantsMore` says that lwmqtt_read_varnum asks for another byte before.
* `EncodesFrames`: what an encoder returns without an error is a `Frame`: a head, a
  remaining length, and exactly as many bytes as it says. One lemma per encoder;
  the loops of SUBSCRIBE and UNSUBSCRIBE need `RoomOfTopics`, that the lengths they add up
  beforehand are the length of what the second loop writes, for any number of topics.
* `DecodesWhatWasEncoded`: a buffer that begins with the bytes of a packet is decoded to its
  fields, whatever follows: the decoders are given the whole buffer, with the bytes of
  earlier packets behind this one, and only the remaining length says where it ends. The
  field session_present is excepted (section 4).
* `StreamAlways`, and from it `ReadsWhatWasSentAlways`, `StaysInFrameAlways` and
  `FailsForRoomOnlyAlways`. The three properties speak of packets that were read and
  of a client that has failed, and say nothing of the middle of a packet. `StreamInv` adds
  `InOrder`: what the buffer holds of a packet and what is on the wire are together the
  encodings of the packets not read yet, in order; and `ReadsNoFurther`: how many bytes
  are held and wanted in each phase, that all bytes of an unfinished length are at
  least 128, and that in the last phase they make up the first unread packet. So the
  reader always stops where that packet ends, the type and the length it finds are that
  packet's, and a packet is rejected for its length alone.

What a recursive function computes is proved in `PacketProofs` by least counterexample: the
library's induction theorems take an operator as a parameter, which the provers cannot
instantiate, but `WFMin` of WellFoundedInduction takes a set, and a set of numbers that
is not empty has a least one (`LeastOf`, `Induction`). The lengths of topics and the
digits of a length are recursive functions for this reason. FlattenSeq of the community
modules is handled through the sequence of its partial results (`FlatSteps`).

Also in `NinaProofs`, of a TCP connection, for any sockets, buffer sizes, connections and streams
(`ClientAssumption`):

* `BytesAlwaysInOrder`: `TcpSpec => []BytesInOrder`, if 255 is not a socket (`FewSockets`;
  the code has ten), and for any number of replies that fail. The invariant `TcpInv`: while
  no reply to getDataBuf has failed, what was read, what is buffered and what waits in the
  module are consecutive pieces of one stream (`Contiguous`); and always what was sent
  is of this connection and rises from one of the three to the next (`OneStream`). A
  socket that is free and a buffer that is not in use are empty (`NothingLeft`), which
  is what keeps a connection from reading the last one's bytes; and who is about to use
  `_sock` has one (`Stages`).

In `RigProofs`, for any `FastLoop` and `WifiLoop`, and any `Inputs` and `Faults` but those
that a theorem names (`RigAssumption`). No fairness is used. The module first says of each
call of each task what it writes into task_list (`Edits`, one lemma per task) and which
states of the tasks come of it (`Effect`), and of each variable which calls write it
(`Frame`); after that, the proof of an invariant looks only at the few calls that matter
to it. The invariant that holds whatever fails and whatever the operator does is

    RigInv == TypeOK /\ Harmless /\ SamplerFails /\ Order /\ Owned /\ Claimed

`Harmless`: the tasks that never keep WIFI from reconnecting. `SamplerFails`:
SAMPLERERROR comes from a sampler that fails, and the processor that hangs in its reset
calls nothing. `Order`: PRIMING's deinit is the next call after it stopped itself, and
where in a pass the register and the relay word agree. `Owned`: relay by relay, who has it
on. `Claimed`: FILLITK, DRAINING and SAMPLING guard while their pumps may run.

| Theorem | States | Hypothesis |
|---|---|---|
| `TypeCorrect` | `TypeOK` | none |
| `NothingLeftOn` | `RelaysOwned` | none |
| `RigImplementsScheduler` | `ImplementsScheduler` | no SAMPLERERROR |
| `StoppedTasksYield` | `Sched!StoppedIsSafe` | no SAMPLERERROR |
| `PrimingAlone` | `PrimingExcludesSampling` | the UI does not send sample |
| `PumpsAreDangerous` | `DangerousWhenPumping` | not both: sample, and SAMPLERERROR (`NoResetInPriming`) |
| `ReconnectsWithPumpsOff` | `RetryWithPumpsOff` | `NoResetInPriming` |
| `ErrorsStay` | `ErrorHolds` | none |
| `FillingIsMonitored` | `MonitoredPriming` | neither the operator nor a leak clears an error (`NobodyClears`), `NoResetInPriming` |
| `SamplingDrains` | `FinishesDraining` | no command drain, no error that drains, no SAMPLERERROR (`NoDraining`) |
| `NeverFilledTwice` | `NoOverfill` | `NobodyClears`, no drain, no SAMPLERERROR (`LeftAlone`) |

`RigImplementsScheduler` is the refinement: `HarmlessStep`, `SamplerFailsStep` and one
lemma per task (`PrimingRefines` to `WifiRefines`) show each call to be an init, runnable
or deinit that the contract allows; `StoppedTasksYield` then takes `StoppedIsSafe` over from
`SchedulerProofs`, instantiated with the ten tasks. What the other theorems add to `RigInv`:
`Excludes`, that the end of a priming and the start of the sampling are one call; `FeedClaimed`,
that PRIMING guards from startPriming to its deinit; `Dry`, that LEAKHANDLER sleeps;
`Monitored`, in which SENSORS is stopped by nobody before PRIMING or an error; `Pump`, that
nobody turns the output pump off under SAMPLING; `HandedOn`, that a bottle with water
belongs to PRIMING or to SAMPLING until it is empty, or there is an error, which stays.

The runs satisfy the hypotheses of the theorems about the properties they check. The
hypotheses are limits of the code, for the most part: with a constant that they exclude
TLC finds a counterexample to

* ImplementsScheduler with SAMPLERERROR (`sampling.h:75`);
* PrimingExcludesSampling with sample;
* DangerousWhenPumping and RetryWithPumpsOff with sample and SAMPLERERROR together
  (`sampling.h:76`);
* MonitoredPriming with clear;
* NoOverfill with clear, SAMPLERERROR, drain, and LEAK beside HIGHPRESSURE;
* FinishesDraining with HIGHPRESSURE, SAMPLERERROR or drain.

Two may be more than is needed: under MonitoredPriming TLC found nothing against leaving out
`NoResetInPriming`, and its search with LEAK did not come to an end.

Only model-checked:

* Liveness under fairness, which is out of TLAPS's reach: `StopTakesEffect`,
  `ErrorStops`, `CycleContinues`, `SamplingEnds`, `LeakAnnounced`, `SilenceIsNoticed`,
  `CloseNoticed`, `ExchangesEnd`.

Every other property of a passing run is stated by a theorem.

## 6. What is not modelled, and why

* **PubSubClient**: vendored, included by no file of the rig.
* **The pressure and temperature formulas, uploads and prints, buzzer and LEDs**: no
  state and no effect on control; what the measurements make SENSORS raise is in Sensors.
* **WiFi.cpp**: WiFi.begin polls getConnectionStatus until it changes or a time is
  over; to the rig it is the blocking call of `hang`. UDP, TLS, the access point and
  the scans are not used. Their driver functions are in WiFiDrv and ServerDrv all the
  same, because the frames are what can be wrong about them.
* **unsubscribe and disconnect as calls of lwmqtt**, the will's setters: not used after
  begin; unsubscribe's encoder is in Packet.
* **The valve sequence of a dose** in PRIMING: one state, as each of its steps turns on
  relays that `Closed` turns off together. **The windows of IDLE**: free choices.
* **Arithmetic on times** set by the UI, in the widths of the board: a free choice
  of what elapses; no value is excluded by the code, so nothing could be said of it.

What a next step would be: an abstract specification of tank and bottle that Rig
implements; the composition of MQTTClient with WiFiClient, in which the callback's
publication is a call of both; the dose against the abstract one of Priming.
