------------------------------- MODULE Switch -------------------------------
(***************************************************************************)
(* A debounced contact (z_Switch-master/Switch.cpp) of polarity LOW: the   *)
(* pin is low when the contact is closed.  Times are kept as ages, which   *)
(* stop growing where nothing tells them apart any more; what was never    *)
(* set is as old as the boot.                                              *)
(***************************************************************************)
EXTENDS Integers, FiniteSetsExt

CONSTANTS
    debounceDelay, longPressDelay, doubleClickDelay,
    MinPass, MaxPass    \* the shortest and the longest time from a pass to the next

ASSUME SwitchAssumption ==
    /\ {debounceDelay, longPressDelay, doubleClickDelay} \subseteq Nat
    /\ MinPass \in Nat \ {0} /\ MaxPass \in Nat

VARIABLE sw     \* the Switch: its members, with the ages of two of them

MaxAge == Max({debounceDelay, longPressDelay, doubleClickDelay}) + 1

Older(age, d) == Min({age + d, MaxAge})

(* Switch::Switch, with the pin at pin when the board boots.               *)
NewSwitch(pin) ==
    [level |-> pin, switched |-> FALSE, longPress |-> FALSE, longPressLatch |-> FALSE,
     doubleClick |-> FALSE, sinceSwitched |-> 0, sincePushed |-> 0]

on(s) == s.level = 0

(* Does poll() accept newlevel?                                            *)
Accepts(s, newlevel) == newlevel # s.level /\ s.sinceSwitched >= debounceDelay

(* The switch after poll() has read newlevel.  It starts the switch's task *)
(* when it was on before.                                                  *)
poll(s, newlevel) ==
    LET long == ~s.longPressLatch /\ on(s) /\ s.sincePushed > longPressDelay
        push == Accepts(s, newlevel) /\ newlevel = 0
    IN [s EXCEPT !.longPress = long,
                 !.longPressLatch = ~Accepts(s, newlevel) /\ (@ \/ long),
                 !.doubleClick = push /\ s.sincePushed < doubleClickDelay,
                 !.switched = Accepts(s, newlevel),
                 !.level = IF Accepts(s, newlevel) THEN newlevel ELSE @,
                 !.sinceSwitched = IF Accepts(s, newlevel) THEN 0 ELSE @,
                 !.sincePushed = IF push THEN 0 ELSE @]

Passes(s, d) ==
    [s EXCEPT !.sinceSwitched = Older(@, d), !.sincePushed = Older(@, d)]

=============================================================================
