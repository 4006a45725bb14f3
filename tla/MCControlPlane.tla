--------------------------- MODULE MCControlPlane ---------------------------
(***************************************************************************)
(* Small instances of ControlPlane: one or two GPUs of four MiB with one   *)
(* reserved, two bytes to the MiB, and a uint64 that ends at 15, so that a *)
(* process row of 8 MiB no longer fits it.                                 *)
(***************************************************************************)
EXTENDS ControlPlane, TLC

\* One MiB used by the row of p, another by the system.
OneRow(p) ==
    [total |-> 4, reserved |-> 1, used |-> 2, mem |-> p :> 1, util |-> p :> 1]

MCConfig == [g \in GPU |-> OneRow(CHOOSE p \in PID : TRUE)]

MemoryAndProcesses == MemoryKinds \cup ProcessKinds

Everything == MemoryAndProcesses \cup {"replace", "reset"}

ActorSymmetry == Permutations(Actor)
=============================================================================
