---------------------------- MODULE SampleSeries ----------------------------
(***************************************************************************)
(* What the sampler is for: the samples go to consecutive holes of the     *)
(* carousel, none is left out and none gets two.  The promise is void once *)
(* an answer came late, a command was refused or a Gr1 was obeyed and not  *)
(* answered; once a recovery gave up a move, or found the needle where the *)
(* number asked last does not name its hole (Sampler!Astray); and once the *)
(* task was stopped between a dose and the move to the next hole.          *)
(***************************************************************************)
EXTENDS Integers

VARIABLES
    dosing,     \* water flows through the needle
    place,      \* the hole it flows to, or flowed to last; -1 before the first
    void

Init == dosing = FALSE /\ place = -1 /\ void = FALSE

Dose ==
    /\ ~dosing /\ dosing'
    /\ place' \in IF place = -1 THEN Nat ELSE {place + 1}
    /\ UNCHANGED void

EndDose == dosing /\ ~dosing' /\ UNCHANGED <<place, void>>

Void == void' /\ (~void => UNCHANGED place)

Next == Dose \/ EndDose \/ Void

Spec == Init /\ [][Next]_<<dosing, place, void>>

=============================================================================
