----------------------------- MODULE MCDevices ------------------------------
(* The devices around the tasks, each a machine of its own: a behaviour is *)
(* one of them moving, while the others stay as they were at power on.     *)
EXTENDS Sampler, LeakWatch, OneButton, Batches

VARIABLE device

devicesVars == <<device, samplerVars, leakVars, buttonVars, batchVars>>

DevicesInit ==
    /\ device \in {"sampler", "leak", "button", "memory"}
    /\ SamplerInit /\ (device = "sampler" \/ hole = 0)
    /\ LeakInit /\ (device = "leak" \/ ~wet)
    /\ ButtonInit /\ (device = "button" \/ ~btn.double)
    /\ BatchesInit

SamplerMoves ==
    device = "sampler" /\ SamplerNext /\ UNCHANGED <<device, leakVars, buttonVars, batchVars>>
Leak(A) == device = "leak" /\ A /\ UNCHANGED <<device, samplerVars, buttonVars, batchVars>>
ButtonMoves ==
    device = "button" /\ ButtonNext /\ UNCHANGED <<device, samplerVars, leakVars, batchVars>>
MemoryMoves ==
    device = "memory" /\ BatchesNext /\ UNCHANGED <<device, samplerVars, leakVars, buttonVars>>

DevicesNext == SamplerMoves \/ Leak(LeakNext) \/ ButtonMoves \/ MemoryMoves

DevicesSpec ==
    /\ DevicesInit /\ [][DevicesNext]_devicesVars
    /\ WF_devicesVars(SamplerMoves \/ Leak(Pass))

=============================================================================
