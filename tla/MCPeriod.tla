------------------------------ MODULE MCPeriod ------------------------------
(* Two tasks are enough for every pair of effects: a task with a lower and *)
(* one with a higher number, one periodic and one that runs every pass.    *)
EXTENDS Period

MCLoopMs == [i \in Task |-> <<0, 3>>[i + 1]]

=============================================================================
