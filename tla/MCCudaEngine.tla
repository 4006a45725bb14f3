---------------------------- MODULE MCCudaEngine ----------------------------
(***************************************************************************)
(* Small instances of CudaEngine: one or two GPUs of four MiB, one of them *)
(* reserved, two bytes to the MiB.                                         *)
(***************************************************************************)
EXTENDS CudaEngine, TLC

CONSTANTS g1, g2, p1, t1, t2, pid

\* One MiB belongs to a process row, the rest of the three is free.
MCConfig ==
    [g \in GPU |-> [total |-> 4, reserved |-> 1, used |-> 1,
                    mem |-> pid :> 1, util |-> pid :> 1]]

\* FAKE_NVIDIA_CUDA_OOM_AFTER is not set.
Unlimited == -1

OneProgram == [t \in Thread |-> p1]

\* Other programs use the first GPU only, or none.
OnFirst == [g \in GPU |-> IF g = g1 THEN {MiB} ELSE {}]
Nowhere == [g \in GPU |-> {}]

\* One thread calls the runtime API, the other the driver API.
OneApiEach == t1 :> {"runtime"} @@ t2 :> {"driver"}
=============================================================================
