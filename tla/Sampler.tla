------------------------------ MODULE Sampler -------------------------------
(***************************************************************************)
(* The autosampler: the class Sampler (z_SampleControl/SampleControl.cpp)  *)
(* and the dialogue that SAMPLING has with it (sampling_init,              *)
(* sampling_sampling, sampling_sendNumSample, sampling_resetSampler of     *)
(* tasks/sampling.h).  An action is one command on the serial line and the *)
(* readString() that waits for its answer.  The sampler itself and the     *)
(* line are external.                                                      *)
(*                                                                         *)
(* readString() returns everything that has arrived, so what is left in    *)
(* Serial1 from an earlier command comes before the answer to this one.    *)
(***************************************************************************)
EXTENDS Integers, Sequences

CONSTANTS
    MAX_COMM_ATTEMPTS,
    LineFaults,     \* what may go wrong with a command
    Holes,          \* the last hole of the carousel; bounds the samples taken
    MaxResets       \* bounds the resets nested in one another

ASSUME SamplerAssumption ==
    /\ MAX_COMM_ATTEMPTS \in Nat /\ Holes \in Nat
    /\ LineFaults \subseteq {"lost", "unheard", "late", "E01"}
    /\ MaxResets \in Nat

VARIABLES
    state, comm_attemp_counter, numSample,
    resets,         \* the loops of Sampler::reset that are running, innermost last
    stale,          \* the first answer that Serial1 still holds
    hole, over,     \* the sampler: its sample number and what the needle is over
    samplerError,   \* _errorState = SAMPLERERROR
    at,             \* where SAMPLING is
    sampleState,    \* samplling_sampleState
    due,            \* a sample is to be taken from this bottle
    broken,         \* what may put a sample into a wrong hole has happened
    healed,         \* from now on every command is answered
    place           \* the hole that the last dose went to

classVars == <<state, comm_attemp_counter, resets>>
deviceVars == <<hole, over>>
lineVars == <<stale, broken, healed>>
taskVars == <<at, sampleState, due, place>>
samplerVars == <<classVars, numSample, deviceVars, lineVars, samplerError, taskVars>>

Answer(c, n) == [c |-> c, n |-> n]
Silence == Answer("", 0)
Z == Answer("Z", 0)

SamplerInit ==
    /\ state = 0 /\ comm_attemp_counter = 0 /\ numSample = -1
    /\ resets = <<>> /\ stale = Silence
    /\ hole \in {0, 1} /\ over = "home"
    /\ samplerError = FALSE
    /\ at = "stopped" /\ sampleState = 0 /\ due = FALSE
    /\ broken = FALSE /\ healed = FALSE /\ place = -1

-----------------------------------------------------------------------------
(* The sampler and the line (external).                                    *)

(* The line loses the command; the sampler obeys but its answer is lost    *)
(* ("unheard") or comes after the timeout ("late"); it refuses ("E01").    *)
Outcome == {"answered"} \cup (IF healed THEN {} ELSE LineFaults)

Obeys(o) == o \in {"answered", "unheard", "late"}

(* A command is an operation and a hole: G goes to the hole, Gr1 to the    *)
(* next one, GSp to the waste, Ta lowers the needle, N asks the number.    *)
HoleAfter(o, cmd) ==
    CASE Obeys(o) /\ cmd[1] = "G" /\ cmd[2] >= 0 -> cmd[2]
      [] Obeys(o) /\ cmd[1] = "Gr1" /\ hole < Holes -> hole + 1
      [] OTHER -> hole

OverAfter(o, cmd) ==
    CASE Obeys(o) /\ cmd[1] \in {"G", "Gr1"} -> "hole"
      [] Obeys(o) /\ cmd[1] = "GSp" -> "waste"
      [] OTHER -> over

Executes(o, cmd) == hole' = HoleAfter(o, cmd) /\ over' = OverAfter(o, cmd)

(* What the program cannot make good: an answer that comes late is taken   *)
(* for the next one, a refused step counts as done, and a Gr1 that is      *)
(* obeyed but not answered is sent again; and, during a reset, a move that *)
(* is given up or that an answer to I is taken for.                        *)
Misleads(o, cmd) ==
    \/ o \in {"late", "E01"}
    \/ o = "unheard" /\ cmd[1] = "Gr1"

Misplaces(o) ==
    /\ resets # <<>>
    /\ \/ comm_attemp_counter > MAX_COMM_ATTEMPTS
       \/ o = "lost" /\ stale # Silence

Wears(o, cmd) ==
    /\ broken' = (broken \/ Misleads(o, cmd) \/ Misplaces(o))
    /\ UNCHANGED healed

Heals ==
    /\ ~healed /\ healed' = TRUE
    /\ UNCHANGED <<classVars, numSample, deviceVars, stale, broken, samplerError, taskVars>>

(* What arrives in time, what the program reads, and what stays behind.    *)
Fresh(o, a) ==
    IF o = "answered" THEN a ELSE IF o = "E01" THEN Answer("E01", 0) ELSE Silence

Read(o, a) ==
    IF stale = Silence THEN Fresh(o, a)
    ELSE IF stale.c = "E01" /\ Fresh(o, a) # Silence THEN Answer("other", 0)
    ELSE stale

Behind(o, a) == IF o = "late" THEN a ELSE Silence

Unread(o, a) ==
    IF stale # Silence THEN stale ELSE IF o = "late" THEN a ELSE Fresh(o, a)

-----------------------------------------------------------------------------
(* Sampler::cmdSuccess, after a command: its result, with what it does.    *)

GivesUp == comm_attemp_counter > MAX_COMM_ATTEMPTS

(* Sampler::reset up to its first loop, from a sampler at h and v.  The    *)
(* answers to the two I commands are not read, nor is what was left.       *)
BeforeZ(left) ==
    IF left = Silence THEN Z ELSE IF left.c = "E01" THEN Answer("other", 0) ELSE left

reset(h, v, left) ==
    /\ state' = 0 /\ comm_attemp_counter' = 0
    /\ \/ hole' = 0 /\ over' = "home" /\ stale' = BeforeZ(left)
       \/ hole' = h /\ over' = v /\ stale' = left

cmdSuccess(o, s, next) ==
    \/ /\ GivesUp
       /\ state' = next /\ comm_attemp_counter' = 0
       /\ samplerError' = TRUE
       /\ stale' = Unread(o, Z)
    \/ /\ ~GivesUp
       /\ UNCHANGED samplerError
       /\ stale' = Behind(o, Z)
       /\ state' = IF Read(o, Z).c = "Z" THEN next ELSE s
       /\ comm_attemp_counter' =
             IF Read(o, Z).c = "Z" THEN 0 ELSE comm_attemp_counter + 1

Refused(o) == ~GivesUp /\ Read(o, Z).c = "E01"

(* One call of nextPosition, rinsePosition or lastPosition.  State 0 falls *)
(* through to 1, which sends the move; state 2 lowers the needle.          *)
Command(move) == IF state = 2 THEN <<"Ta", 0>> ELSE move

Position(o, move) ==
    LET s == IF state = 0 THEN 1 ELSE state IN
    /\ ~Refused(o)
    /\ Executes(o, Command(move))
    /\ cmdSuccess(o, s, IF s = 1 THEN 2 ELSE 0)

nextPosition == IF numSample = 0 THEN <<"G", 1>> ELSE <<"Gr1", 0>>
rinsePosition == <<"GSp", 0>>
lastPosition == <<"G", numSample>>

(* cmdSuccess has read E01 and calls reset() before it returns false.      *)
Resets(o, move, from) ==
    /\ Refused(o)
    /\ Len(resets) < MaxResets
    /\ reset(HoleAfter(o, Command(move)), OverAfter(o, Command(move)), Behind(o, Z))
    /\ resets' = Append(resets, "last")
    /\ at' = from
    /\ UNCHANGED <<samplerError, sampleState, due, place>>

samplerReady == state' = 0

(* Sampler::askNumSample: one turn of its loop.  It reads no Z, and counts *)
(* a turn that is answered as well.                                        *)
Exhausted == comm_attemp_counter > MAX_COMM_ATTEMPTS

askNumSample(o, then) ==
    /\ Executes(o, <<"N", 0>>)
    /\ LET r == Read(o, Answer("N", hole)) IN
          /\ stale' = Behind(o, Answer("N", hole))
          /\ numSample' = IF r.c = "N" THEN r.n ELSE numSample
          /\ comm_attemp_counter' = IF Exhausted THEN 0 ELSE comm_attemp_counter + 1
          /\ samplerError' = (samplerError \/ Exhausted)
          /\ IF Exhausted \/ r.c = "N" THEN then ELSE UNCHANGED taskVars
    /\ UNCHANGED <<state, resets>>

-----------------------------------------------------------------------------
(* The task.                                                               *)

(* sampling_init, for the next bottle.                                     *)
StartsSampling ==
    /\ at = "stopped" /\ hole < Holes
    /\ at' = "asking"
    /\ state' = 0 /\ sampleState' = 0
    /\ due' \in BOOLEAN
    /\ UNCHANGED <<comm_attemp_counter, resets, numSample, deviceVars, lineVars,
                   samplerError, place>>

AsksNumber == at = "asking" /\ \E o \in Outcome :
    /\ Wears(o, <<"N", 0>>)
    /\ askNumSample(o, at' = "running" /\ UNCHANGED <<sampleState, due, place>>)

(* What the task does once samplerReady() after step n.                    *)
StepDone(n) ==
    /\ sampleState' = IF n = 4 THEN 4 ELSE n + 1
    /\ at' = IF n = 4 THEN "finishing" ELSE "running"
    /\ UNCHANGED <<due, place>>

(* Steps 0, 3 and 4: one call that moves the needle.                       *)
Moves(n, move) ==
    /\ at = "running" /\ due /\ ~samplerError /\ sampleState = n
    /\ \E o \in Outcome :
          /\ Wears(o, Command(move))
          /\ \/ /\ Position(o, move)
                /\ IF samplerReady THEN StepDone(n) ELSE UNCHANGED taskVars
                /\ UNCHANGED resets
             \/ Resets(o, move, "resetting")
    /\ UNCHANGED numSample

ToLastPosition == Moves(0, lastPosition)
ToNextPosition == Moves(3, nextPosition)
ToRinsePosition == Moves(4, rinsePosition)

(* Step 1 turns the pump on.  place records where the water goes.          *)
StartsDose ==
    /\ at = "running" /\ due /\ ~samplerError /\ sampleState = 1 /\ state = 0
    /\ sampleState' = 2
    /\ place' = IF broken THEN place ELSE IF over = "hole" THEN hole ELSE -2
    /\ UNCHANGED <<classVars, numSample, deviceVars, lineVars, samplerError, at, due>>

(* Step 2 ends the dose and asks for the number to upload.                 *)
EndsDose ==
    /\ at = "running" /\ due /\ ~samplerError /\ sampleState = 2
    /\ at' = "sending"
    /\ UNCHANGED <<classVars, numSample, deviceVars, lineVars, samplerError,
                   sampleState, due, place>>

SendsNumber == at = "sending" /\ \E o \in Outcome :
    /\ Wears(o, <<"N", 0>>)
    /\ askNumSample(o, at' = "running" /\ sampleState' = 3 /\ UNCHANGED <<due, place>>)

Finishes == at = "finishing" /\ \E o \in Outcome :
    /\ Wears(o, <<"N", 0>>)
    /\ askNumSample(o, /\ at' = "running" /\ sampleState' = 0 /\ due' = FALSE
                       /\ UNCHANGED place)

(* The recovery goes back to the number that was asked last.  That is the  *)
(* wrong hole when the needle has moved on since (step 4), or when the     *)
(* number was asked in vain before; and it leaves the needle over the      *)
(* waste, where a dose that is due next (step 1) then goes.                *)
Astray == sampleState \in {1, 4} \/ (sampleState = 0 /\ numSample # hole)

(* sampling_resetSampler, entered when the error is SAMPLERERROR.          *)
Recovers ==
    /\ at = "running" /\ samplerError
    /\ reset(hole, over, stale)
    /\ resets' = <<"last">> /\ at' = "recovering"
    /\ broken' = (broken \/ Astray)
    /\ UNCHANGED <<numSample, healed, samplerError, sampleState, due, place>>

(* The loops that are left when the innermost one ends: state is 0, so the *)
(* loops of a rinse above it end as well.                                  *)
Unwind(stack) ==
    IF "last" \notin {stack[i] : i \in DOMAIN stack} THEN <<>>
    ELSE LET k == CHOOSE k \in DOMAIN stack :
                     stack[k] = "last" /\ \A j \in k + 1 .. Len(stack) : stack[j] # "last"
         IN Append(SubSeq(stack, 1, k - 1), "rinse")

ResetReturns_keepsError ==
    /\ resets = <<>>
    /\ \/ at = "resetting" /\ StepDone(sampleState) /\ UNCHANGED samplerError
       \/ /\ at = "recovering" /\ at' = "running" /\ UNCHANGED samplerError
          /\ UNCHANGED <<sampleState, due, place>>
    /\ UNCHANGED <<classVars, numSample, deviceVars, lineVars>>

(* The caller goes on: the step that was refused, or sampling_resetSampler *)
(* with errorState(RUNNING).                                               *)
ResetReturns ==
    /\ resets = <<>>
    /\ \/ at = "resetting" /\ StepDone(sampleState) /\ UNCHANGED samplerError
       \/ /\ at = "recovering" /\ at' = "running" /\ samplerError' = FALSE
          /\ UNCHANGED <<sampleState, due, place>>
    /\ UNCHANGED <<classVars, numSample, deviceVars, lineVars>>

(* One turn of a loop of Sampler::reset.                                   *)
ResetMove_rinseOnly == rinsePosition

ResetMove == IF resets[Len(resets)] = "last" THEN lastPosition ELSE rinsePosition

ResetLoop ==
    /\ resets # <<>>
    /\ \E o \in Outcome :
          /\ Wears(o, Command(ResetMove))
          /\ \/ /\ Position(o, ResetMove)
                /\ resets' = IF samplerReady THEN Unwind(resets) ELSE resets
                /\ UNCHANGED taskVars
             \/ Resets(o, ResetMove, at)
    /\ UNCHANGED numSample

(* No sample is due, or it has been taken: the bottle is drained.          *)
Stops ==
    /\ at = "running" /\ ~due /\ ~samplerError
    /\ at' = "stopped"
    /\ UNCHANGED <<classVars, numSample, deviceVars, lineVars, samplerError,
                   sampleState, due, place>>

(* Another error stops the task between two passes; if the dose has begun  *)
(* and the needle not moved on, the next sample goes to the same hole.     *)
Aborts ==
    /\ at = "running" /\ ~samplerError
    /\ at' = "stopped"
    /\ broken' = (broken \/ (due /\ sampleState \in {2, 3}))
    /\ UNCHANGED <<classVars, numSample, deviceVars, stale, healed, samplerError,
                   sampleState, due, place>>

SamplerNext ==
    \/ StartsSampling
    \/ AsksNumber
    \/ ToLastPosition
    \/ StartsDose
    \/ EndsDose
    \/ SendsNumber
    \/ ToNextPosition
    \/ ToRinsePosition
    \/ Finishes
    \/ Recovers
    \/ ResetLoop
    \/ ResetReturns
    \/ Stops
    \/ Aborts
    \/ Heals

(* Samples go to consecutive holes: commands that are lost and sent again, *)
(* answers that are lost, the attempt counter that askNumSample leaves     *)
(* behind, and a stop or a recovery in any other step than those that void *)
(* the promise (Astray, Aborts) change nothing: a recovery after a dose    *)
(* must find the hole of this dose, the next sample the one after it.      *)
Series == INSTANCE SampleSeries WITH
    dosing <- (at = "running" /\ sampleState = 2 /\ ~broken), void <- broken

ImplementsSeries == Series!Spec

(* Once the sampler answers again, a sampling comes to its end, whatever   *)
(* answers were lost, refused or left in Serial1 before, and however many  *)
(* resets were under way (cmdSuccess, reset, askNumSample).                *)
SamplingEnds == (healed /\ at # "stopped") ~> (at = "stopped")

SamplerSpec == SamplerInit /\ [][SamplerNext]_samplerVars /\ WF_samplerVars(SamplerNext)

=============================================================================
