------------------------------ MODULE OneButton ------------------------------
(***************************************************************************)
(* The start button (z_OneButton/OneButton.cpp), polled in every pass.     *)
(* Holding it down starts FILLITK; clicks and double clicks call what is   *)
(* attached, which on the rig is nothing.  Times are ages, as in Switch.   *)
(***************************************************************************)
EXTENDS Integers, FiniteSetsExt

CONSTANTS
    _debounceTicks, _clickTicks, _pressTicks,
    MaxTick     \* the longest time between two ticks

ASSUME OneButtonAssumption ==
    /\ {_debounceTicks, _clickTicks, _pressTicks} \subseteq Nat
    /\ MaxTick \in Nat \ {0}

VARIABLES
    btn,        \* _state, the ages of _startTime and _stopTime, _isLongPressed,
                \* and whether a double click is attached
    event,      \* what the last tick called
    held,       \* the time for which every tick has found the button down
    fired       \* the task was started since the button went down

buttonVars == <<btn, event, held, fired>>

Never == Max({_debounceTicks, _clickTicks, _pressTicks}) + 1

Ages(age, d) == Min({age + d, Never})

ButtonInit ==
    /\ \E d \in BOOLEAN : btn = [state |-> 0, start |-> Never, stop |-> Never,
                                 long |-> FALSE, double |-> d]
    /\ event = "none" /\ held = 0 /\ fired = FALSE

Goes(s) == [btn EXCEPT !.state = s]

(* OneButton::tick(activeLevel): the button after it, and what it calls.   *)
Idle(active) ==
    IF active THEN <<[Goes(1) EXCEPT !.start = 0], "none">> ELSE <<btn, "none">>

Down_anyway(active) ==
    CASE ~active /\ btn.start < _debounceTicks -> <<Goes(0), "none">>
      [] ~active /\ btn.start >= _debounceTicks -> <<[Goes(1) EXCEPT !.stop = 0], "none">>
      [] active /\ btn.start > _pressTicks ->
            <<[Goes(6) EXCEPT !.long = TRUE, !.stop = 0], "longPressStart">>
      [] OTHER -> <<btn, "none">>

Down(active) ==
    CASE ~active /\ btn.start < _debounceTicks -> <<Goes(0), "none">>
      [] ~active /\ btn.start >= _debounceTicks -> <<[Goes(2) EXCEPT !.stop = 0], "none">>
      [] active /\ btn.start > _pressTicks ->
            <<[Goes(6) EXCEPT !.long = TRUE, !.stop = 0], "longPressStart">>
      [] OTHER -> <<btn, "none">>

Released(active) ==
    CASE ~btn.double \/ btn.start > _clickTicks -> <<Goes(0), "click">>
      [] btn.double /\ btn.start <= _clickTicks /\ active /\ btn.stop > _debounceTicks ->
            <<[Goes(3) EXCEPT !.start = 0], "none">>
      [] OTHER -> <<btn, "none">>

DownAgain(active) ==
    IF ~active /\ btn.start > _debounceTicks
    THEN <<[Goes(0) EXCEPT !.stop = 0], "doubleClick">> ELSE <<btn, "none">>

LongPressed(active) ==
    IF active THEN <<[btn EXCEPT !.long = TRUE], "duringLongPress">>
    ELSE <<[Goes(0) EXCEPT !.long = FALSE, !.stop = 0], "longPressStop">>

After(active) ==
    CASE btn.state = 0 -> Idle(active)
      [] btn.state = 1 -> Down(active)
      [] btn.state = 2 -> Released(active)
      [] btn.state = 3 -> DownAgain(active)
      [] btn.state = 6 -> LongPressed(active)

(* A tick, and d until the next one.                                       *)
tick(active, d) ==
    /\ btn' = [After(active)[1] EXCEPT !.start = Ages(@, d), !.stop = Ages(@, d)]
    /\ event' = After(active)[2]
    /\ held' = IF active THEN Ages(held, d) ELSE 0
    /\ fired' = (active /\ (fired \/ event' = "longPressStart"))

ButtonNext == \E active \in BOOLEAN, d \in 1 .. MaxTick : tick(active, d)

ButtonSpec == ButtonInit /\ [][ButtonNext]_buttonVars

(* FILLITK is started once for a press, and only after every tick has      *)
(* found the button down for longer than _pressTicks: a bounce or a second *)
(* press does not add up with the first.                                   *)
OneStartPerPress ==
    [][event' = "longPressStart" => ~fired /\ held > _pressTicks]_buttonVars

=============================================================================
