------------------------------ MODULE LeakWatch ------------------------------
(***************************************************************************)
(* The leak alarm in real time: BTNHANDLER polls the leak switch in every  *)
(* pass (system/btnHandler.h), and LEAKHANDLER (tasks/leakHandler.h) looks *)
(* at it in a window that opens leakHandler_DEBOUNCETIME after its init.   *)
(* How the two debouncings fit together depends on how long passes take.   *)
(***************************************************************************)
EXTENDS Switch

CONSTANTS
    leakHandler_DEBOUNCETIME,
    Window      \* the 5 ms of leakHandler_runnable

ASSUME LeakWatchAssumption ==
    /\ leakHandler_DEBOUNCETIME \in Nat /\ Window \in Nat

VARIABLES
    leakTask,       \* task_list[LEAKHANDLER].state
    bounceAge,      \* millis() - leakHandler_bounceTimer
    leakError,      \* _errorState = LEAK
    wet,            \* the contact of the sensor is closed
    sincePoll,      \* the time from the last poll to LEAKHANDLER's turn
    watch           \* what happened since LEAKHANDLER was started (see LeakPass)

leakVars == <<sw, leakTask, bounceAge, leakError, wet, sincePoll, watch>>

(* Has a poll found the contact closed?  How old was the switch's last     *)
(* change at leakHandler_init?  Has a pass gone by the whole window?       *)
NewWatch == [seen |-> FALSE, lag |-> 0, missed |-> FALSE]

LeakInit ==
    /\ wet \in BOOLEAN
    /\ sw = NewSwitch(IF wet THEN 0 ELSE 1)
    /\ leakTask = "STOPPED" /\ leakError = FALSE
    /\ bounceAge = leakHandler_DEBOUNCETIME + Window
    /\ sincePoll = 0 /\ watch = NewWatch

(* leakHandler_init restarts the timer.                                    *)
AgeAtRun_stale == bounceAge

AgeAtRun == IF leakTask = "STARTING" THEN 0 ELSE bounceAge

InWindow_atOnce == AgeAtRun < leakHandler_DEBOUNCETIME + Window

InWindow ==
    /\ AgeAtRun > leakHandler_DEBOUNCETIME
    /\ AgeAtRun < leakHandler_DEBOUNCETIME + Window

(* One pass: LEAKHANDLER's turn, in which init, run and deinit may follow  *)
(* each other; e later BTNHANDLER's, whose poll starts LEAKHANDLER if the  *)
(* switch was on before; d later the next pass.  A pass takes whatever the *)
(* blocking calls of the other tasks take.                                 *)
Looks == leakTask \in {"STARTING", "RUNNING"} /\ InWindow

WatchAfter(e, d) ==
    [seen |-> watch.seen \/ wet,
     lag |-> IF leakTask = "STARTING" THEN sw.sinceSwitched ELSE watch.lag,
     missed |-> \/ leakTask = "RUNNING" /\ watch.missed
                \/ /\ AgeAtRun <= leakHandler_DEBOUNCETIME
                   /\ AgeAtRun + e + d >= leakHandler_DEBOUNCETIME + Window]

LeakPass(e, d) ==
    LET stopped == leakTask \in {"STOPPED", "STOPPING"} \/ (Looks /\ ~on(sw))
        age == IF Looks /\ on(sw) THEN leakHandler_DEBOUNCETIME + Window ELSE AgeAtRun
    IN
    /\ leakError' = CASE leakTask = "STOPPING" \/ (Looks /\ ~on(sw)) -> FALSE
                      [] Looks /\ on(sw) -> TRUE
                      [] OTHER -> leakError
    /\ leakTask' = IF ~stopped THEN "RUNNING" ELSE IF on(sw) THEN "STARTING" ELSE "STOPPED"
    /\ bounceAge' = Min({age + e + d, leakHandler_DEBOUNCETIME + Window})
    /\ sw' = Passes(poll(Passes(sw, e), IF wet THEN 0 ELSE 1), d)
    /\ sincePoll' = d
    /\ watch' = IF leakTask' = "RUNNING" THEN WatchAfter(e, d) ELSE NewWatch
    /\ UNCHANGED wet

Pass == \E e, d \in 0 .. MaxPass : e + d \in MinPass .. MaxPass /\ LeakPass(e, d)

(* The contact of the sensor closes or opens (external).                   *)
ContactChanges ==
    /\ wet' = ~wet
    /\ UNCHANGED <<sw, leakTask, bounceAge, leakError, sincePoll, watch>>

(* Two flicks of the pause switch stop LEAKHANDLER.                        *)
Flick ==
    /\ leakTask = "RUNNING"
    /\ leakTask' = "STOPPING"
    /\ UNCHANGED <<sw, bounceAge, leakError, wet, sincePoll, watch>>

LeakNext == Pass \/ ContactChanges \/ Flick

(* The loop goes on; what the contact and the operator do is their affair. *)
LeakSpec == LeakInit /\ [][LeakNext]_leakVars /\ WF_leakVars(Pass)

(* How a splash may stop the rig: LEAK is raised without a poll that finds *)
(* the sensor wet after LEAKHANDLER was started, only if no poll comes in  *)
(* time for the switch to let go of the splash.  That takes a pass before  *)
(* the look that is longer than what the two debouncings (Switch.cpp:90,   *)
(* leakHandler.h:33) and the time from the splash to leakHandler_init      *)
(* leave.  The look may be sooner or later, the passes as long as they     *)
(* like.                                                                   *)
LeakNeedsWater ==
    [][leakError' /\ ~leakError =>
          \/ watch.seen
          \/ sincePoll + debounceDelay > leakHandler_DEBOUNCETIME + watch.lag]_leakVars

(* A sensor that stays wet is announced, unless the operator keeps         *)
(* stopping LEAKHANDLER or one pass takes all of the window's 5 ms         *)
(* (leakHandler.h:33): a stop that meets the next start does not end the   *)
(* watch, and a contact that bounces in the middle of it does not either.  *)
LeakAnnounced ==
    <>[](wet /\ ~watch.missed) /\ <>[][leakTask' # "STOPPING"]_leakVars => <>leakError

=============================================================================
