----------------------------- MODULE CudaEngine -----------------------------
(***************************************************************************)
(* The CUDA shim: programs whose threads call cudaMalloc, cudaFree,        *)
(* cudaDeviceReset and cudaSetDevice (cmd/libcuda/bridge_linux.go), each   *)
(* program with one engine (internal/cuda/engine.go) that tracks its       *)
(* allocations and charges them to the shared devices through the control  *)
(* manager (internal/cuda/backend.go).                                     *)
(*                                                                         *)
(* The engine's mutex is held across the manager's commands, one manager   *)
(* operation is one step.  A pointer is a token: the address of a small    *)
(* block from the host's malloc, which the bridge returns to the host      *)
(* after the engine has forgotten it.  The driver's calls do the same as   *)
(* the runtime's and only leave the last error alone; of the calls that    *)
(* ask, only what they do to the last error and to the mutex is left.      *)
(***************************************************************************)
EXTENDS GpuState

CONSTANTS
    Program,        \* the programs that use the shim
    Thread,         \* their threads
    Owner,          \* per thread: its program
    Apis,           \* per thread: which of the two APIs it allocates and frees with
    Token,          \* host addresses, per program
    None,           \* no thread, no token
    Sizes,          \* byte counts of allocations
    Others,         \* per GPU: byte counts that other programs reserve and release
    OOMAfter,       \* FAKE_NVIDIA_CUDA_OOM_AFTER, -1 when unset
    FirstGPU,       \* device 0
    MaxAllocations, \* bound: no cudaMalloc after so many successful ones
    MaxFaults       \* bound: how many manager commands fail for no reason,
                    \* and programs end without freeing

Api == {"driver", "runtime"}

ASSUME EngineAssumption ==
    /\ Owner \in [Thread -> Program]
    /\ Apis \in [Thread -> SUBSET Api]
    /\ None \notin Thread \cup Token
    /\ IsFiniteSet(Program) /\ IsFiniteSet(Token)
    /\ Sizes \subseteq U64 \ {0}
    /\ Others \in [GPU -> SUBSET U64]
    /\ OOMAfter \in Nat \cup {-1}
    /\ FirstGPU \in GPU
    /\ MaxAllocations \in Nat
    /\ MaxFaults \in Nat

VARIABLES
    dev,            \* per GPU: the effective state
    eng,            \* per program: its engine, and the bridge's globals
    thr,            \* per thread: the call it is in
    faults,         \* the commands that failed so far
    others,         \* history, per GPU: the bytes other programs reserved,
                    \* less those they released
    stray           \* history, per GPU: the bytes an engine charged and does
                    \* not track, less those it gave back and still tracks

vars == <<dev, eng, thr, faults, others, stray>>

trouble == <<faults, others, stray>>

\* allocs maps the tracked tokens to [size, gpu]; live are the tokens that are
\* allocated on the host; lastError says whether there is one.  Without ok the
\* environment is not usable and there is no engine.
NewEngine(ok) ==
    [ok |-> ok, mu |-> None, current |-> FirstGPU, allocs |-> NoProcs, successes |-> 0,
     live |-> {}, lastError |-> FALSE]

Idle == [pc |-> "idle", api |-> "runtime", token |-> None, size |-> 0,
         gpu |-> FirstGPU]

Init ==
    /\ dev = [g \in GPU |-> BaseDevice(g)]
    /\ eng \in [Program -> {NewEngine(TRUE), NewEngine(FALSE)}]
    /\ thr = [t \in Thread |-> Idle]
    /\ faults = 0
    /\ others = [g \in GPU |-> 0]
    /\ stray = [g \in GPU |-> 0]

-----------------------------------------------------------------------------

E(t) == eng[Owner[t]]

At(t, where) == thr[t].pc = where

Goto(t, where) == thr' = [thr EXCEPT ![t].pc = where]

Tracked(p) == DOMAIN eng[p].allocs

\* The tokens of allocations on GPU g, and how many bytes those are.
TokensOn(allocs, g) == { k \in DOMAIN allocs : allocs[k].gpu = g }

BytesOn(allocs, g) ==
    SumFunctionOnSet([k \in DOMAIN allocs |-> allocs[k].size],
                     TokensOn(allocs, g))

\* The bytes of program p that are tracked on GPU g.
TrackedBytes(p, g) == BytesOn(eng[p].allocs, g)

\* The bytes charged to GPU g beyond the configuration and what is tracked.
Beyond(g) == others[g] + stray[g]

Observed(d) ==
    [d EXCEPT !.used = SeenBytes(d.used), !.free = SeenBytes(d.free)]

\* runtimeStatus: the runtime API remembers an error, the driver API does not.
WithError(e, api, status) ==
    IF api = "runtime" /\ status # "success"
        THEN [e EXCEPT !.lastError = TRUE] ELSE e

Unlocked(e, t) == IF e.mu = t THEN [e EXCEPT !.mu = None] ELSE e

\* The call of thread t returns `status`, leaving engine e behind.
ReturnWith(t, e, status) ==
    /\ eng' = [eng EXCEPT ![Owner[t]] =
                  WithError(Unlocked(e, t), thr[t].api, status)]
    /\ thr' = [thr EXCEPT ![t] = Idle]

\* Mutants of Return: an error path forgets the deferred unlock; a failing
\* call returns its token to the host although it is still tracked.
ReturnLocked(t, status) ==
    /\ eng' = [eng EXCEPT ![Owner[t]] =
                  WithError(IF status = "success" THEN Unlocked(@, t) ELSE @,
                            thr[t].api, status)]
    /\ thr' = [thr EXCEPT ![t] = Idle]

ReturnFreesToken(t, status) ==
    ReturnWith(t, [E(t) EXCEPT !.live = @ \ {thr[t].token}], status)

Return(t, status) == ReturnWith(t, E(t), status)

\* A command of the manager fails without an effect.
Refused ==
    /\ faults < MaxFaults
    /\ faults' = faults + 1
    /\ UNCHANGED <<others, stray>>

\* It stores, and fails all the same: the context of the call ends, or its
\* answer is lost.  The engine takes it for one that did nothing.
AnswerLost(g, bytes) ==
    /\ faults < MaxFaults
    /\ faults' = faults + 1
    /\ stray' = [stray EXCEPT ![g] = @ + bytes]
    /\ UNCHANGED others

\* Engine.mu.
Lock(t, from, to) ==
    /\ At(t, from)
    /\ E(t).mu = None
    /\ eng' = [eng EXCEPT ![Owner[t]].mu = t]
    /\ Goto(t, to)
    /\ UNCHANGED <<dev, trouble>>

\* A call begins.
Idles(t) == At(t, "idle") /\ E(t).ok

-----------------------------------------------------------------------------
(* cudaMalloc, cuMemAlloc. *)

\* The call, with a fresh token of the host, or without one: out of memory.
Malloc(t) ==
    /\ Idles(t)
    /\ E(t).successes < MaxAllocations
    /\ \E api \in Apis[t], n \in Sizes :
          \/ \E k \in Token \ E(t).live :
                /\ thr' = [thr EXCEPT ![t] =
                      [Idle EXCEPT !.pc = "allocLock", !.api = api,
                                   !.token = k, !.size = n]]
                /\ eng' = [eng EXCEPT ![Owner[t]].live = @ \cup {k}]
          \/ /\ Token \subseteq E(t).live
             /\ eng' = [eng EXCEPT ![Owner[t]] = WithError(@, api, "oom")]
             /\ UNCHANGED thr
    /\ UNCHANGED <<dev, trouble>>

\* A failed TrackAllocation: the bridge returns the token to the host.
MallocFails(t, status) ==
    /\ ReturnWith(t, [E(t) EXCEPT !.live = @ \ {thr[t].token}], status)
    /\ UNCHANGED dev

AllocLock(t) == Lock(t, "allocLock", "alloc")

\* Mutant of ShouldInjectOOM: off by one.
InjectsLate(e) == OOMAfter >= 0 /\ e.successes > OOMAfter

ShouldInjectOOM(e) == OOMAfter >= 0 /\ e.successes >= OOMAfter

\* The checks of TrackAllocation: the injected OOM, then the free VRAM that a
\* snapshot shows of the current device.
AllocCheck(t) ==
    /\ At(t, "alloc")
    /\ \/ /\ ShouldInjectOOM(E(t))
          /\ MallocFails(t, "oom")
          /\ UNCHANGED trouble
       \/ /\ ~ ShouldInjectOOM(E(t))
          /\ \/ /\ thr[t].size > Observed(dev[E(t).current]).free
                /\ MallocFails(t, "oom")
                /\ UNCHANGED trouble
             \/ /\ thr[t].size <= Observed(dev[E(t).current]).free
                /\ Goto(t, "reserve")
                /\ UNCHANGED <<dev, eng, trouble>>
             \/ Refused /\ MallocFails(t, "unknown")

\* Manager.ReserveMemory on the current device, and the bookkeeping.
AllocReserve(t) ==
    LET g == E(t).current
        n == thr[t].size
        d == Observed(dev[g])
        k == thr[t].token
        allocs == [j \in DOMAIN E(t).allocs \cup {k} |->
                      IF j = k THEN [size |-> n, gpu |-> g] ELSE E(t).allocs[j]]
    IN  /\ At(t, "reserve")
        /\ \/ /\ CanReserve(d, n)
              /\ dev' = [dev EXCEPT ![g] = Reserve(d, n)]
              /\ ReturnWith(t, [E(t) EXCEPT !.allocs = allocs,
                                            !.successes = @ + 1], "success")
              /\ UNCHANGED trouble
           \/ ~ CanReserve(d, n) /\ MallocFails(t, "oom") /\ UNCHANGED trouble
           \/ Refused /\ MallocFails(t, "unknown")
           \/ /\ AnswerLost(g, n)
              /\ CanReserve(d, n)
              /\ dev' = [dev EXCEPT ![g] = Reserve(d, n)]
              /\ ReturnWith(t, [E(t) EXCEPT !.live = @ \ {k}], "unknown")

-----------------------------------------------------------------------------
(* cudaFree, cuMemFree. *)

\* The program frees an address: an allocation, one that another thread is
\* freeing, or one that is not or no longer allocated.
Free(t) ==
    /\ Idles(t)
    /\ \E api \in Apis[t], k \in Token :
          thr' = [thr EXCEPT ![t] = [Idle EXCEPT !.pc = "freeLock",
                                                 !.api = api, !.token = k]]
    /\ UNCHANGED <<dev, eng, trouble>>

FreeLock(t) == Lock(t, "freeLock", "free")

\* Mutant of ReleaseBytes: a failed release is forgotten like a successful one.
ReleaseForgetsFailure(t, g, n, after) ==
    \/ /\ CanRelease(Observed(dev[g]), n)
       /\ dev' = [dev EXCEPT ![g] = Release(Observed(dev[g]), n)]
       /\ after
       /\ UNCHANGED trouble
    \/ Refused /\ after /\ UNCHANGED dev

\* Manager.ReleaseMemory on device g, for thread t that holds the mutex:
\* `after` is the engine without what is released.
ReleaseBytes(t, g, n, after) ==
    LET d == Observed(dev[g])
    IN  \/ /\ CanRelease(d, n)
           /\ dev' = [dev EXCEPT ![g] = Release(d, n)]
           /\ after
           /\ UNCHANGED trouble
        \/ /\ ~ CanRelease(d, n)
           /\ Return(t, "unknown")
           /\ UNCHANGED <<dev, trouble>>
        \/ /\ Refused
           /\ Return(t, "unknown")
           /\ UNCHANGED dev
        \/ /\ AnswerLost(g, 0 - n)
           /\ CanRelease(d, n)
           /\ dev' = [dev EXCEPT ![g] = Release(d, n)]
           /\ Return(t, "unknown")

Without(allocs, K) == [k \in DOMAIN allocs \ K |-> allocs[k]]

\* Mutant of FreeRelease: the release goes to the current device.
FreeOnCurrentDevice(t) ==
    LET k == thr[t].token
        after == /\ eng' = [eng EXCEPT ![Owner[t]].allocs = Without(@, {k}),
                                       ![Owner[t]].mu = None]
                 /\ Goto(t, "freeToken")
    IN  /\ At(t, "free")
        /\ k \in DOMAIN E(t).allocs
        /\ ReleaseBytes(t, E(t).current, E(t).allocs[k].size, after)

\* FreeAllocation.  The mutex is given up before the token goes to the host.
FreeRelease(t) ==
    LET k == thr[t].token
        after == /\ eng' = [eng EXCEPT ![Owner[t]].allocs = Without(@, {k}),
                                       ![Owner[t]].mu = None]
                 /\ Goto(t, "freeToken")
    IN  /\ At(t, "free")
        /\ \/ /\ k \notin DOMAIN E(t).allocs
              /\ Return(t, "invalid")
              /\ UNCHANGED <<dev, trouble>>
           \/ /\ k \in DOMAIN E(t).allocs
              /\ ReleaseBytes(t, E(t).allocs[k].gpu, E(t).allocs[k].size, after)

\* The bridge returns the token to the host.
FreeToken(t) ==
    /\ At(t, "freeToken")
    /\ ReturnWith(t, [E(t) EXCEPT !.live = @ \ {thr[t].token}], "success")
    /\ UNCHANGED <<dev, trouble>>

-----------------------------------------------------------------------------
(* cudaDeviceReset, cudaSetDevice, cudaGetLastError. *)

DeviceReset(t) ==
    /\ Idles(t)
    /\ Goto(t, "resetLock")
    /\ UNCHANGED <<dev, eng, trouble>>

ResetLock(t) == Lock(t, "resetLock", "reset")

\* ResetDevice: one release for all allocations on the current device.  Their
\* tokens stay allocated on the host.
ResetRelease(t) ==
    LET g == E(t).current
        K == TokensOn(E(t).allocs, g)
        after == ReturnWith(t, [E(t) EXCEPT !.allocs = Without(@, K)], "success")
    IN  /\ At(t, "reset")
        /\ \/ /\ K = {}
              /\ Return(t, "success")
              /\ UNCHANGED <<dev, trouble>>
           \/ /\ K # {}
              /\ ReleaseBytes(t, g, TrackedBytes(Owner[t], g), after)

\* SetDevice looks the device up before it takes the mutex.
SetDevice(t) ==
    /\ Idles(t)
    /\ \E g \in GPU :
          \/ /\ thr' = [thr EXCEPT ![t] = [Idle EXCEPT !.pc = "setLock",
                                                       !.gpu = g]]
             /\ UNCHANGED <<eng, trouble>>
          \/ Refused /\ Return(t, "unknown")
    /\ UNCHANGED dev

SetCurrent(t) ==
    /\ At(t, "setLock")
    /\ E(t).mu = None
    /\ ReturnWith(t, [E(t) EXCEPT !.current = thr[t].gpu], "success")
    /\ UNCHANGED <<dev, trouble>>

GetLastError(t) ==
    /\ At(t, "idle")
    /\ E(t).lastError
    /\ eng' = [eng EXCEPT ![Owner[t]].lastError = FALSE]
    /\ UNCHANGED <<dev, thr, trouble>>

-----------------------------------------------------------------------------
(* Calls that ask. *)

\* getEngine failed the first time, so every call fails.
NotInitialized(t) ==
    /\ At(t, "idle")
    /\ ~ E(t).ok
    /\ eng' = [eng EXCEPT ![Owner[t]].lastError = TRUE]
    /\ UNCHANGED <<dev, thr, trouble>>

\* Versions, counts and properties: there is no place for the answer, the
\* devices cannot be read, or it is an answer and nothing changes.
Query(t) ==
    /\ Idles(t)
    /\ \/ Return(t, "invalid") /\ UNCHANGED trouble
       \/ Refused /\ Return(t, "unknown")
    /\ UNCHANGED dev

\* cudaGetDeviceProperties of a device that is no profile's, cudaMemcpy to or
\* from a device, cudaLaunchKernel.
Unsupported(t) ==
    /\ Idles(t)
    /\ Return(t, "unsupported")
    /\ UNCHANGED <<dev, trouble>>

\* cudaGetDevice and cudaMemGetInfo need the mutex for the current device.
MemGetInfo(t) ==
    /\ Idles(t)
    /\ Goto(t, "infoLock")
    /\ UNCHANGED <<dev, eng, trouble>>

\* Engine.MemoryInfo: the devices are read after the mutex is given up.
MemoryInfo(t) ==
    /\ At(t, "infoLock")
    /\ E(t).mu = None
    /\ \/ Return(t, "success") /\ UNCHANGED trouble
       \/ Refused /\ Return(t, "unknown")
    /\ UNCHANGED dev

-----------------------------------------------------------------------------

\* Another program uses the manager, or somebody fake-nvidia-ctl.
OtherProgram(g) ==
    /\ \E n \in Others[g] :
          LET d == Observed(dev[g])
          IN  \/ /\ CanReserve(d, n)
                 /\ dev' = [dev EXCEPT ![g] = Reserve(d, n)]
                 /\ others' = [others EXCEPT ![g] = @ + n]
              \/ /\ CanRelease(d, n)
                 /\ dev' = [dev EXCEPT ![g] = Release(d, n)]
                 /\ others' = [others EXCEPT ![g] = @ - n]
    /\ UNCHANGED <<eng, thr, faults, stray>>

\* A program ends without freeing, and is started again: nothing gives back
\* what it had reserved.
Exit(p) ==
    /\ eng[p].ok
    /\ faults < MaxFaults
    /\ faults' = faults + 1
    /\ stray' = [g \in GPU |-> stray[g] + TrackedBytes(p, g)]
    /\ eng' = [eng EXCEPT ![p] = NewEngine(TRUE)]
    /\ thr' = [t \in Thread |-> IF Owner[t] = p THEN Idle ELSE thr[t]]
    /\ UNCHANGED <<dev, others>>

\* A call that is under way.
Continue(t) ==
    \/ AllocLock(t)
    \/ AllocCheck(t)
    \/ AllocReserve(t)
    \/ FreeLock(t)
    \/ FreeRelease(t)
    \/ FreeToken(t)
    \/ ResetLock(t)
    \/ ResetRelease(t)
    \/ SetCurrent(t)
    \/ MemoryInfo(t)

Next ==
    \/ \E t \in Thread :
          \/ Malloc(t)
          \/ Free(t)
          \/ DeviceReset(t)
          \/ SetDevice(t)
          \/ GetLastError(t)
          \/ NotInitialized(t)
          \/ Query(t)
          \/ Unsupported(t)
          \/ MemGetInfo(t)
          \/ Continue(t)
    \/ \E g \in GPU : OtherProgram(g)
    \/ \E p \in Program : Exit(p)

Spec == Init /\ [][Next]_vars

\* Threads are scheduled and commands end: each has a deadline of 15 s
\* (apiContext).  A thread that waits for the mutex gets it although others keep
\* calling, as Go's sync.Mutex is handed to a waiter that has starved.
FairSpec == Spec /\ \A t \in Thread : SF_vars(Continue(t))

-----------------------------------------------------------------------------
(* Properties. *)

\* Byte counts stay uint64, and what the engine tracks has a size and a GPU
\* (Engine, Allocation).
TypeOK ==
    /\ dev \in [GPU -> Device]
    /\ faults \in 0 .. MaxFaults
    /\ others \in [GPU -> Int]
    /\ stray \in [GPU -> Int]
    /\ \A t \in Thread :
          /\ thr[t].api \in Api
          /\ thr[t].token \in Token \cup {None}
          /\ thr[t].size \in Sizes \cup {0}
          /\ thr[t].gpu \in GPU
    /\ \A p \in Program :
          /\ eng[p].mu \in Thread \cup {None}
          /\ eng[p].current \in GPU
          /\ eng[p].live \subseteq Token
          /\ eng[p].lastError \in BOOLEAN
          /\ eng[p].ok \in BOOLEAN
          /\ \A k \in Tracked(p) : eng[p].allocs[k] \in [size : Sizes, gpu : GPU]

\* The VRAM that no row owns is what the configuration gave the system, what
\* the engines track, what other programs took, and the stray bytes: however the
\* calls of threads and programs interleave, whichever device is current, and
\* when a command is refused, an engine charges and gives back exactly what it
\* tracks (TrackAllocation, FreeAllocation, ResetDevice).  Only a command that
\* stores and fails, and a program's end, make bytes stray.  The engine keeps an
\* allocation whose release stored and failed, so a second cudaFree gives its
\* bytes back once more; this is not excluded here, it is what a negative stray
\* records.
ChargedExactly ==
    \A g \in GPU :
        NonProcessUsed(dev[g])
          = NonProcessUsed(BaseDevice(g)) + Beyond(g)
              + SumFunction([p \in Program |-> TrackedBytes(p, g)])

\* "`cudaFree` / `cuMemFree*` releases restore that capacity" (CUDA.md:27): the
\* manager accepts the release of every tracked allocation, at any moment,
\* unless bytes that are tracked have been given back already, by other programs
\* or by a release that stored and failed.
AllocationsReleasable ==
    \A p \in Program : \A k \in Tracked(p) :
        LET a == eng[p].allocs[k]
        IN  Beyond(a.gpu) >= 0 => CanRelease(Observed(dev[a.gpu]), a.size)

\* FAKE_NVIDIA_CUDA_OOM_AFTER=N "is the number of successful CUDA allocations
\* allowed in that process" (CUDA.md:80), also when threads allocate at once.
OOMPolicyHolds ==
    OOMAfter >= 0 => \A p \in Program : eng[p].successes <= OOMAfter

\* What the engine tracks is allocated on the host: a token is returned to the
\* host only when the engine has forgotten it, so malloc never hands out the
\* address of a tracked allocation (cudaMalloc, cudaFree).
TrackedTokensLive == \A p \in Program : Tracked(p) \subseteq eng[p].live

\* Whatever is charged twice or lost when a command fails after it has stored,
\* no device is overcommitted and its rows stay covered.
NeverOvercommits == \A g \in GPU : Fits(dev[g], g) /\ Covered(dev[g])

\* Every call returns, whatever the other threads keep calling and whichever
\* command fails: no path through the engine keeps its mutex (the deferred
\* Unlock of every method), and nobody waits for a thread that waits for him.
CallsReturn == \A t \in Thread : thr[t].pc # "idle" ~> thr[t].pc = "idle"
=============================================================================
