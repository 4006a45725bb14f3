---------------------------- MODULE ControlPlane ----------------------------
(***************************************************************************)
(* The control plane of fake-nvidia: several operating-system processes    *)
(* (fake-nvidia-ctl commands, CUDA programs, fake-llama-servers), here the *)
(* actors, that change one shared override file through                    *)
(* internal/control.Manager.                                               *)
(*                                                                         *)
(* A mutation is a read-modify-write made of separate commands: under an   *)
(* flock the manager runs three nvidia-smi queries, decides, and runs      *)
(* nvml-mock-ctl, which stores the new values atomically.  The commands    *)
(* `process add|update|remove` also run the queries once before they take  *)
(* the lock.  `reset` takes no lock at all.                                *)
(***************************************************************************)
EXTENDS GpuState

CONSTANTS
    Actor,          \* the processes that use the control plane
    NoOne,          \* the lock's value while nobody holds it
    Kinds,          \* the operations the actors issue
    Sizes,          \* byte counts of the memory operations
    MiBs,           \* sizes of process rows, in MiB
    Utils,          \* pmon values of process rows
    PmonMayFail,    \* whether `nvidia-smi pmon` can fail
    ActorsMayDie    \* whether an actor can be killed in mid-operation

MemoryKinds == {"used", "reserve", "release"}
ProcessKinds == {"add", "update", "remove"}

ASSUME ControlAssumption ==
    /\ NoOne \notin Actor
    /\ Kinds \subseteq MemoryKinds \cup ProcessKinds \cup {"replace", "reset"}
    /\ Sizes \subseteq U64
    /\ MiBs \subseteq U64
    /\ Utils \subseteq U64
    /\ PmonMayFail \in BOOLEAN
    /\ ActorsMayDie \in BOOLEAN

\* A flag of `process update` that the caller does not supply.
Unset == -1

MemoryOp == [kind : Kinds \cap MemoryKinds, gpu : GPU, bytes : Sizes]

ProcessOp ==
    [kind : Kinds \cap {"add"}, gpu : GPU, pid : PID, mib : MiBs, util : Utils]
      \cup
    [kind : Kinds \cap {"update"}, gpu : GPU, pid : PID,
     mib : MiBs \cup {Unset}, util : Utils \cup {Unset}]
      \cup
    [kind : Kinds \cap {"remove"}, gpu : GPU, pid : PID,
     mib : {Unset}, util : {Unset}]

\* ReplaceProcesses: the caller gives the whole list, here with rows of one size.
ReplaceOp ==
    [kind : Kinds \cap {"replace"}, gpu : GPU, pids : SUBSET PID, mib : MiBs]

Op == MemoryOp \cup ProcessOp \cup ReplaceOp

VARIABLES
    dev,        \* per GPU: the effective state, base profile under overrides
    lock,       \* the holder of the mutation flock, or NoOne
    pc,         \* per actor: its next step
    op,         \* per actor: the operation it is in
    before,     \* per actor: the rows it saw before it took the lock
    seen,       \* per actor: the device it observed under the lock
    planned     \* per actor: the device it asks nvml-mock-ctl to store

vars == <<dev, lock, pc, op, before, seen, planned>>

NoOp == [kind |-> "none"]
Blank == [used |-> 0, free |-> 0, mem |-> NoProcs, util |-> NoProcs]

Steps == {"idle", "peekApps", "peekPmon", "lock",
          "queryGPU", "queryApps", "queryPmon", "decide", "mutate", "orphan"}

\* The steps an actor takes under the lock.
Holding == {"queryGPU", "queryApps", "queryPmon", "decide", "mutate"}

Init ==
    /\ dev = [g \in GPU |-> BaseDevice(g)]
    /\ lock = NoOne
    /\ pc = [a \in Actor |-> "idle"]
    /\ op = [a \in Actor |-> NoOp]
    /\ before = [a \in Actor |-> NoRows]
    /\ seen = [a \in Actor |-> Blank]
    /\ planned = [a \in Actor |-> Blank]

-----------------------------------------------------------------------------
(* Leaving an operation. *)

Forget(a) ==
    /\ op' = [op EXCEPT ![a] = NoOp]
    /\ before' = [before EXCEPT ![a] = NoRows]
    /\ seen' = [seen EXCEPT ![a] = Blank]
    /\ planned' = [planned EXCEPT ![a] = Blank]

\* Mutant of Unlock: it does not ask whose lock it is.
UnlockAnyones(a) == lock' = NoOne

\* withMutationLock drops the lock on every return; so does the kernel when
\* the process ends.
Unlock(a) == lock' = IF lock = a THEN NoOne ELSE lock

\* The operation returns, with or without an error.
Return(a) ==
    /\ pc' = [pc EXCEPT ![a] = "idle"]
    /\ Unlock(a)
    /\ Forget(a)

\* Mutant of Fail: an error path leaves the lock behind.
FailKeepsLock(a) ==
    /\ pc' = [pc EXCEPT ![a] = "idle"]
    /\ Forget(a)
    /\ UNCHANGED <<dev, lock>>

Fail(a) == Return(a) /\ UNCHANGED dev

Goto(a, step) == pc' = [pc EXCEPT ![a] = step]

Gpu(a) == op[a].gpu

\* Whether pmon answers: in one of the ways the environment allows.
PmonAnswers == IF PmonMayFail THEN BOOLEAN ELSE {TRUE}

-----------------------------------------------------------------------------
(* Starting an operation, and the unlocked observation of `process ...`. *)

Begin(a) ==
    /\ pc[a] = "idle"
    /\ \E o \in Op :
          /\ op' = [op EXCEPT ![a] = o]
          /\ Goto(a, IF o.kind \in ProcessKinds THEN "peekApps" ELSE "lock")
    /\ UNCHANGED <<dev, lock, before, seen, planned>>

\* upsertProcess and removeProcess call Observer.Device without the lock.  Of
\* the GPU query only its failure matters to them, so it is part of this step.
PeekApps(a) ==
    /\ pc[a] = "peekApps"
    /\ \/ /\ before' = [before EXCEPT ![a].mem = dev[Gpu(a)].mem]
          /\ Goto(a, "peekPmon")
          /\ UNCHANGED <<dev, lock, op, seen, planned>>
       \/ Fail(a)

\* `add` wants the row missing, `update` and `remove` want it present.
CanStart(o, rows) == (o.kind = "add") <=> (o.pid \notin DOMAIN rows.mem)

PeekPmon(a) ==
    /\ pc[a] = "peekPmon"
    /\ \E ok \in PmonAnswers :
          LET rows == [before[a] EXCEPT
                          !.util = AttachPmon(before[a].mem,
                                              dev[Gpu(a)].util, ok)]
          IN  \/ /\ CanStart(op[a], rows)
                 /\ before' = [before EXCEPT ![a] = rows]
                 /\ Goto(a, "lock")
                 /\ UNCHANGED <<dev, lock, op, seen, planned>>
              \/ ~ CanStart(op[a], rows) /\ Fail(a)

-----------------------------------------------------------------------------
(* The locked read-modify-write. *)

\* Mutant of AcquireLock: the lock is shared.
AcquireSharedLock(a) ==
    /\ pc[a] = "lock"
    /\ lock' = a
    /\ Goto(a, "queryGPU")
    /\ UNCHANGED <<dev, op, before, seen, planned>>

AcquireLock(a) ==
    /\ pc[a] = "lock"
    /\ lock = NoOne
    /\ lock' = a
    /\ Goto(a, "queryGPU")
    /\ UNCHANGED <<dev, op, before, seen, planned>>

QueryGPU(a) ==
    /\ pc[a] = "queryGPU"
    /\ \/ /\ seen' = [seen EXCEPT
                         ![a].used = SeenBytes(dev[Gpu(a)].used),
                         ![a].free = SeenBytes(dev[Gpu(a)].free)]
          /\ Goto(a, "queryApps")
          /\ UNCHANGED <<dev, lock, op, before, planned>>
       \/ Fail(a)

QueryApps(a) ==
    /\ pc[a] = "queryApps"
    /\ \/ /\ seen' = [seen EXCEPT ![a].mem = dev[Gpu(a)].mem]
          /\ Goto(a, "queryPmon")
          /\ UNCHANGED <<dev, lock, op, before, planned>>
       \/ Fail(a)

\* An error of pmon is not an error of the snapshot.
QueryPmon(a) ==
    /\ pc[a] = "queryPmon"
    /\ \E ok \in PmonAnswers :
          seen' = [seen EXCEPT
                      ![a].util = AttachPmon(seen[a].mem,
                                             dev[Gpu(a)].util, ok)]
    /\ Goto(a, "decide")
    /\ UNCHANGED <<dev, lock, op, before, planned>>

Plan(a, device) ==
    /\ planned' = [planned EXCEPT ![a] = device]
    /\ seen' = [seen EXCEPT ![a] = Blank]
    /\ before' = [before EXCEPT ![a] = NoRows]
    /\ Goto(a, "mutate")
    /\ UNCHANGED <<dev, lock, op>>

SetUsedMemory(a) ==
    /\ pc[a] = "decide"
    /\ op[a].kind = "used"
    /\ \/ CanSetUsed(seen[a], op[a].bytes)
          /\ Plan(a, SetUsed(seen[a], op[a].bytes))
       \/ ~ CanSetUsed(seen[a], op[a].bytes) /\ Fail(a)

ReserveMemory(a) ==
    /\ pc[a] = "decide"
    /\ op[a].kind = "reserve"
    /\ \/ CanReserve(seen[a], op[a].bytes)
          /\ Plan(a, Reserve(seen[a], op[a].bytes))
       \/ ~ CanReserve(seen[a], op[a].bytes) /\ Fail(a)

ReleaseMemory(a) ==
    /\ pc[a] = "decide"
    /\ op[a].kind = "release"
    /\ \/ CanRelease(seen[a], op[a].bytes)
          /\ Plan(a, Release(seen[a], op[a].bytes))
       \/ ~ CanRelease(seen[a], op[a].bytes) /\ Fail(a)

\* Mutants of Desired: what is not supplied becomes 0, as it does for `add`.
DesiredClearsUtil(o, rows) ==
    LET pids == IF o.kind = "remove" THEN DOMAIN rows.mem \ {o.pid}
                                     ELSE DOMAIN rows.mem \cup {o.pid}
    IN  [mem  |-> [p \in pids |-> IF p = o.pid /\ o.mib # Unset
                                    THEN o.mib ELSE rows.mem[p]],
         util |-> [p \in pids |-> IF p # o.pid THEN rows.util[p]
                                    ELSE IF o.util # Unset THEN o.util ELSE 0]]

DesiredClearsMemory(o, rows) ==
    LET pids == IF o.kind = "remove" THEN DOMAIN rows.mem \ {o.pid}
                                     ELSE DOMAIN rows.mem \cup {o.pid}
    IN  [mem  |-> [p \in pids |-> IF p # o.pid THEN rows.mem[p]
                                    ELSE IF o.mib # Unset THEN o.mib ELSE 0],
         util |-> [p \in pids |-> IF p = o.pid /\ o.util # Unset
                                    THEN o.util ELSE rows.util[p]]]

\* The rows that `process add|update|remove` wants, given the rows it saw.
Desired(o, rows) ==
    LET pids == IF o.kind = "remove" THEN DOMAIN rows.mem \ {o.pid}
                                     ELSE DOMAIN rows.mem \cup {o.pid}
        Column1(col, new) ==
            [p \in pids |-> IF p = o.pid /\ new # Unset THEN new ELSE col[p]]
    IN  [mem |-> Column1(rows.mem, o.mib), util |-> Column1(rows.util, o.util)]

ReplaceProcessesFromState(a) ==
    LET desired == Desired(op[a], before[a])
        rebased == Rebase(before[a], desired, seen[a])
    IN  /\ pc[a] = "decide"
        /\ op[a].kind \in ProcessKinds
        /\ \/ /\ CanRebase(before[a], desired, seen[a])
              /\ CanReconcile(seen[a], TotalBytes(Gpu(a)), rebased)
              /\ Plan(a, Reconcile(seen[a], TotalBytes(Gpu(a)), rebased))
           \/ /\ \/ ~ CanRebase(before[a], desired, seen[a])
                 \/ ~ CanReconcile(seen[a], TotalBytes(Gpu(a)), rebased)
              /\ Fail(a)

ReplaceProcesses(a) ==
    LET rows == [mem  |-> [p \in op[a].pids |-> op[a].mib],
                 util |-> [p \in op[a].pids |-> 0]]
    IN  /\ pc[a] = "decide"
        /\ op[a].kind = "replace"
        /\ \/ /\ CanReconcile(seen[a], TotalBytes(Gpu(a)), rows)
              /\ Plan(a, Reconcile(seen[a], TotalBytes(Gpu(a)), rows))
           \/ /\ ~ CanReconcile(seen[a], TotalBytes(Gpu(a)), rows)
              /\ Fail(a)

\* nvml-mock-ctl stores what actor a planned: a memory operation sets used and
\* free, a process operation the rows as well.
Stored(a) ==
    [dev EXCEPT ![Gpu(a)] =
        IF op[a].kind \in MemoryKinds
            THEN [@ EXCEPT !.used = planned[a].used, !.free = planned[a].free]
            ELSE planned[a]]

\* The command stores the values or fails.  Whether the caller then reads its
\* exit status (a timeout can hit a command that has already stored) changes
\* only what is reported.
Mutate(a) ==
    /\ pc[a] = "mutate"
    /\ dev' = Stored(a) \/ UNCHANGED dev
    /\ Return(a)

-----------------------------------------------------------------------------
(* What happens around the lock. *)

\* Reset: one nvml-mock-ctl command without the mutation lock, for one GPU or
\* for all of them.
Reset ==
    /\ "reset" \in Kinds
    /\ \E G \in { {g} : g \in GPU } \cup {GPU} :
          dev' = [g \in GPU |-> IF g \in G THEN BaseDevice(g) ELSE dev[g]]
    /\ UNCHANGED <<lock, pc, op, before, seen, planned>>

\* The actor is killed.  Its lock goes with it; an nvml-mock-ctl it has started
\* is a process of its own, and goes on.
Die(a) ==
    /\ ActorsMayDie
    /\ pc[a] \notin {"idle", "orphan"}
    /\ \/ /\ pc[a] = "mutate"
          /\ Goto(a, "orphan")
          /\ Unlock(a)
          /\ UNCHANGED <<dev, op, before, seen, planned>>
       \/ pc[a] # "mutate" /\ Fail(a)

\* The orphaned command ends.
OrphanMutate(a) ==
    /\ pc[a] = "orphan"
    /\ dev' = Stored(a) \/ UNCHANGED dev
    /\ Return(a)

-----------------------------------------------------------------------------

Decide(a) ==
    \/ SetUsedMemory(a)
    \/ ReserveMemory(a)
    \/ ReleaseMemory(a)
    \/ ReplaceProcessesFromState(a)
    \/ ReplaceProcesses(a)

\* The steps of an operation that is under way.
Continue(a) ==
    \/ PeekApps(a)
    \/ PeekPmon(a)
    \/ AcquireLock(a)
    \/ QueryGPU(a)
    \/ QueryApps(a)
    \/ QueryPmon(a)
    \/ Decide(a)
    \/ Mutate(a)
    \/ OrphanMutate(a)

Next ==
    \/ \E a \in Actor : Begin(a) \/ Continue(a) \/ Die(a)
    \/ Reset

Spec == Init /\ [][Next]_vars

-----------------------------------------------------------------------------
(* Properties. *)

\* Every byte count that the override file, an observation or a plan holds is
\* a uint64, and every table a column of PIDs (manager.go, observe.go).
TypeOK ==
    /\ dev \in [GPU -> Device]
    /\ lock \in Actor \cup {NoOne}
    /\ pc \in [Actor -> Steps]
    /\ op \in [Actor -> Op \cup {NoOp}]
    /\ before \in [Actor -> Rows]
    /\ seen \in [Actor -> Device]
    /\ planned \in [Actor -> Device]

\* Used, free and reserved VRAM never add up to more than the device has,
\* whatever interleaves: unlocked resets, killed actors, torn observations and
\* byte counts that are no whole number of MiB (manager.go SetUsedMemory,
\* ReserveMemory, ReleaseMemory; process_memory.go SetProcessesReconciled).
NoOvercommit ==
    \A g \in GPU : Fits(dev[g], g)

\* The parts that make NoOvercommit inductive.  Tables: the rows an actor
\* carries are complete once pmon has been asked.
TablesWellFormed ==
    /\ \A g \in GPU : SamePIDs(dev[g])
    /\ \A a \in Actor :
          /\ pc[a] # "peekPmon" => SamePIDs(before[a])
          /\ pc[a] # "queryPmon" => SamePIDs(seen[a])
          /\ SamePIDs(planned[a])

\* An actor under way has an operation, and the check of PeekPmon still holds
\* of the rows it saw then.
OperationKnown ==
    \A a \in Actor :
        /\ pc[a] # "idle" => op[a] \in Op
        /\ pc[a] \in {"peekApps", "peekPmon"} => op[a] \in ProcessOp
        /\ /\ pc[a] \in {"lock", "queryGPU", "queryApps", "queryPmon", "decide"}
           /\ op[a].kind \in ProcessKinds
           => CanStart(op[a], before[a])

\* What an actor has seen and what it plans to store fit its GPU, even after
\* the device has changed under it.
ViewsFit ==
    \A a \in Actor :
        /\ pc[a] \in {"queryApps", "queryPmon", "decide"} =>
              Fits(seen[a], Gpu(a))
        /\ pc[a] \in {"mutate", "orphan"} => Fits(planned[a], Gpu(a))

\* The inductive invariant of NoOvercommit: no value an actor carries from an
\* observation to a store could overcommit a device.
AccountingInv ==
    /\ TypeOK
    /\ TablesWellFormed
    /\ OperationKnown
    /\ ViewsFit
    /\ NoOvercommit

\* "The currently visible used+free pool is preserved so profile-level reserved
\* memory is not accidentally erased" (CONTROL.md:57, SetUsedMemory): no
\* sequence of operations makes VRAM appear or vanish.
VisiblePoolPreserved ==
    \A g \in GPU :
        dev[g].used + dev[g].free = TotalBytes(g) - ReservedBytes(g)

\* A device never reports less used VRAM than its process rows own.  Once it
\* does, ReleaseMemory and every process operation on it fail for good
\* (manager.go:123 and manager.go:179).
UsageCoversProcesses ==
    \A g \in GPU : Covered(dev[g])

\* What the flock gives actor a as long as nobody stores without holding it:
\* it works on the device's present state, and what it is about to store
\* covers the rows the device will then have.
LockedView(a) ==
    /\ pc[a] # "orphan"
    /\ pc[a] \in Holding => lock = a
    /\ pc[a] \in {"queryApps", "queryPmon", "decide"} =>
          /\ seen[a].used = SeenBytes(dev[Gpu(a)].used)
          /\ seen[a].free = SeenBytes(dev[Gpu(a)].free)
    /\ pc[a] \in {"queryPmon", "decide"} => seen[a].mem = dev[Gpu(a)].mem
    /\ pc[a] = "mutate" => Covered(Stored(a)[Gpu(a)])

\* The inductive invariant of UsageCoversProcesses, for actors that are not
\* killed and issue no reset.
CoverageInv ==
    /\ AccountingInv
    /\ \A a \in Actor : LockedView(a)
    /\ UsageCoversProcesses

\* What an actor has observed under the flock is still the device's state when
\* it decides on it: nobody else stores anything in between.
ObservationIsCurrent ==
    \A a \in Actor :
        pc[a] = "decide" =>
            /\ seen[a].used = SeenBytes(dev[Gpu(a)].used)
            /\ seen[a].free = SeenBytes(dev[Gpu(a)].free)
            /\ seen[a].mem = dev[Gpu(a)].mem

\* The operation actor a ends leaves PID p's entry in a column of its GPU, or
\* the lack of one, as it is.
EntryKept(a, column, p) ==
    LET old == dev[Gpu(a)][column]
        new == dev'[Gpu(a)][column]
    IN  /\ p \in DOMAIN old <=> p \in DOMAIN new
        /\ p \in DOMAIN old => old[p] = new[p]

OthersKept(a, column) ==
    \A p \in PID \ {op[a].pid} : EntryKept(a, column, p)

Ends(a) == pc[a] \in {"mutate", "orphan"} /\ pc'[a] = "idle"

\* "Unrelated concurrent PID changes are preserved" (CONTROL.md:172): although
\* the caller computes the wanted list from rows it saw before it had the lock,
\* what it stores has every other PID's row as it is at that moment.
UnrelatedRowsPreserved ==
    [][\A a \in Actor :
          Ends(a) /\ op[a].kind \in ProcessKinds =>
              OthersKept(a, "mem") /\ OthersKept(a, "util")]_vars

\* "A process update preserves fields that were not supplied" (CONTROL.md:75):
\* without --memory the row's size, and without utilizations what pmon reports
\* of it, are after the store what they are at that moment, although the caller
\* copied them from a row it saw before it had the lock.  A row that is gone by
\* then does not come back.
UpdatePreservesUnsupplied ==
    [][\A a \in Actor :
          Ends(a) /\ op[a].kind = "update" =>
              /\ op[a].mib = Unset => EntryKept(a, "mem", op[a].pid)
              /\ op[a].util = Unset => EntryKept(a, "util", op[a].pid)]_vars

\* "Process mutations preserve existing non-process/system usage"
\* (CONTROL.md:59, reconcileProcessesFromState).
SystemUsagePreserved ==
    [][\A a \in Actor :
          Ends(a) /\ op[a].kind \notin MemoryKinds =>
              NonProcessUsed(dev'[Gpu(a)]) = NonProcessUsed(dev[Gpu(a)])]_vars

\* However an operation goes, the flock is given back (the deferred unlock of
\* withMutationLock, and the kernel when its holder is killed): only an actor
\* that is between AcquireLock and its return has it, so no error path and no
\* orphaned command makes the others wait for ever.
LockHeldInside == \A a \in Actor : lock = a => pc[a] \in Holding

\* Each operation on the shared file behaves as if its observation, decision
\* and store were one indivisible step on the state at that moment.
Atomic == INSTANCE AtomicControl WITH dev <- dev

ActsAtomically == Atomic!Spec
=============================================================================
