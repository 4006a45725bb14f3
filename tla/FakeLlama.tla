------------------------------ MODULE FakeLlama ------------------------------
(***************************************************************************)
(* fake-llama-server processes that share the GPUs (internal/fakellama,    *)
(* cmd/fake-llama-server).  A server registers a row for its PID on every  *)
(* target GPU, loads, serves, may grow, and gives its rows back before it  *)
(* exits.  Register and Resize (NVMLRegistry.apply) and Release go through *)
(* the targets one by one, each with an unlocked snapshot followed by one  *)
(* ReplaceProcessesFromState.                                              *)
(*                                                                         *)
(* A server has two goroutines that use the registry: main, which executes *)
(* Server.Run, and signal, which handles SIGTERM; its HTTP handlers run    *)
(* beside them.  One manager operation is one step here: that it acts as   *)
(* one is what ControlPlane is about.                                      *)
(***************************************************************************)
EXTENDS LlamaConfig

CONSTANTS
    Server,         \* the PIDs of the servers
    GpuNames,       \* per GPU: its index and its UUID, as words
    Commands,       \* per server: the commands it may be started with
    Signalled,      \* the servers that get SIGTERM
    Losable,        \* the GPUs that may be lost
    MaxStreams,     \* how many chat streams a server has at a time
    MaxFaults       \* how many manager commands fail, and GPUs are lost

ASSUME ServerAssumption ==
    /\ Server \subseteq PID
    /\ Signalled \subseteq Server
    /\ Losable \subseteq GPU
    /\ MaxStreams \in Nat
    /\ MaxFaults \in Nat
    /\ \A g, h \in GPU : g # h => GpuNames[g] \cap GpuNames[h] = {}

\* The capacity of the channel given to signal.Notify; more signals are dropped.
SignalBuffer == 2

\* The utilizations a server's rows have.
LlamaUtil == 1

VARIABLES
    dev,            \* per GPU: the effective state
    lost,           \* the GPUs that have fallen off the bus
    command,        \* per server: its arguments and environment, until parsed
    srv,            \* per server: the process outside its registry calls
    call,           \* per goroutine: its registry call
    faults          \* the commands that failed and the GPUs lost so far

vars == <<dev, lost, command, srv, call, faults>>

\* What Run and the registry leave alone.
outside == <<lost, command>>

Goroutine == Server \X {"main", "signal"}
Main(s) == <<s, "main">>
Signal(s) == <<s, "signal">>

NoDevice == [used |-> 0, free |-> 0, mem |-> NoProcs, util |-> NoProcs]

\* A registry call: the target it is at, what it saw there (before), the prior
\* rows of the targets it has changed (applied), and the error it will return.
NoCall == [kind |-> "none", step |-> "none", i |-> 0, before |-> NoDevice,
           applied |-> <<>>, error |-> "none"]

NewCall(kind) == [NoCall EXCEPT !.kind = kind, !.step = "snapshot", !.i = 1]

NoCommand == [items |-> <<>>, env |-> <<>>]

\* A process that has started: its configuration, where main is and why Run
\* returns, whether its context is cancelled and whether the one of its last
\* release has expired, the fields ready, registered and releaseMu of Server,
\* whether the growth timer has fired, the streams it has to finish, where the
\* signal goroutine is, and the number of signals in its channel.
Launched(cfg, err) ==
    [pc |-> "main", cfg |-> cfg, err |-> err, cancelled |-> FALSE,
     expired |-> FALSE, ready |-> FALSE, registered |-> FALSE, releaseMu |-> "none",
     grown |-> FALSE, streams |-> 0, sig |-> "waiting", pending |-> 0]

\* main answers a probe, rejects the command, or has a configuration.
ParseCommand(cmd) ==
    LET args == FlattenSeq(cmd.items)
        result == Configure(args, cmd.env)
    IN  Launched(result.cfg, IF IsInfoRequest(args) \/ ~ result.ok THEN "usage" ELSE "none")

\* ParseConfig fills typed fields, and a configuration has a target.
ASSUME CommandsAssumption ==
    /\ \A model \in DOMAIN FileSize : FileSize[model] \in Nat
    /\ \A s \in Server : \A c \in Commands[s] :
          LET start == ParseCommand(c)
          IN  /\ WellFormed(start.cfg)
              /\ start.err # "usage" => start.cfg.targets # <<>>

Init ==
    /\ dev = [g \in GPU |-> BaseDevice(g)]
    /\ lost = {}
    /\ command \in { c \in [Server -> UNION { Commands[s] : s \in Server }] :
                      \A s \in Server : c[s] \in Commands[s] }
    /\ srv = [s \in Server |-> ParseCommand(command[s])]
    /\ call = [t \in Goroutine |-> NoCall]
    /\ faults = 0

-----------------------------------------------------------------------------
(* What the server's configuration asks for. *)

Targets(s) == srv[s].cfg.targets

\* Run's currentBytes.
Bytes(s) == RequiredVRAMBytes(srv[s].cfg) + IF srv[s].grown THEN srv[s].cfg.growth ELSE 0

Amount(s, i) == SplitProcessMiB(Bytes(s), srv[s].cfg)[i]

-----------------------------------------------------------------------------
(* One command of the manager, by goroutine t. *)

Pid(t) == t[1]

\* deviceAndProcess: the device with this index or UUID; a snapshot that has
\* none of that name is an error.
TargetWord(t) == Targets(Pid(t))[call[t].i]

Resolves(t) == \E g \in GPU : TargetWord(t) \in GpuNames[g]

Target(t) == CHOOSE g \in GPU : TargetWord(t) \in GpuNames[g]

\* Register, Resize and their rollback run under the context that SIGTERM
\* cancels; main's Release under a deadline, the one of a signal under neither.
ContextDone(t) ==
    \/ call[t].kind \in {"apply", "rollback"} /\ srv[Pid(t)].cancelled
    \/ call[t].kind = "release" /\ t[2] = "main" /\ srv[Pid(t)].expired

\* The command is answered, or it is not: because its context is done, because
\* a GPU is lost (of which nvidia-smi prints no numbers, so that the query of
\* all of them fails), or for a reason of its own.
Answered(t) == ~ ContextDone(t) /\ lost = {} /\ UNCHANGED faults

Refused(t) ==
    \/ (ContextDone(t) \/ lost # {}) /\ UNCHANGED faults
    \/ ~ ContextDone(t) /\ lost = {} /\ faults < MaxFaults /\ faults' = faults + 1

\* What a snapshot shows of device d.
Observed(d) ==
    [d EXCEPT !.used = SeenBytes(d.used), !.free = SeenBytes(d.free)]

WithoutPID(rows, p) ==
    [mem  |-> [q \in DOMAIN rows.mem \ {p} |-> rows.mem[q]],
     util |-> [q \in DOMAIN rows.mem \ {p} |-> rows.util[q]]]

WithPID(rows, p, mib, util) ==
    LET D == DOMAIN rows.mem \cup {p}
    IN  [mem  |-> [q \in D |-> IF q = p THEN mib ELSE rows.mem[q]],
         util |-> [q \in D |-> IF q = p THEN util ELSE rows.util[q]]]

\* Manager.ReplaceProcessesFromState on the device as it is now.
CanReplace(g, before, desired) ==
    LET now == Observed(dev[g])
    IN  /\ CanRebase(before, desired, now)
        /\ CanReconcile(now, TotalBytes(g), Rebase(before, desired, now))

Replaced(g, before, desired) ==
    LET now == Observed(dev[g])
    IN  [dev EXCEPT ![g] =
            Reconcile(now, TotalBytes(g), Rebase(before, desired, now))]

ReplaceSucceeds(t, desired) ==
    /\ ~ ContextDone(t) /\ lost = {}
    /\ CanReplace(Target(t), call[t].before, desired)
    /\ dev' = Replaced(Target(t), call[t].before, desired)
    /\ UNCHANGED faults

\* The manager turns the change down, or a command fails; one that is killed
\* because its context ends may have stored by then.
ReplaceFails(t, desired) ==
    \/ /\ ~ ContextDone(t) /\ lost = {}
       /\ ~ CanReplace(Target(t), call[t].before, desired)
       /\ UNCHANGED <<dev, faults>>
    \/ /\ Refused(t)
       /\ \/ UNCHANGED dev
          \/ /\ lost = {}
             /\ CanReplace(Target(t), call[t].before, desired)
             /\ dev' = Replaced(Target(t), call[t].before, desired)

-----------------------------------------------------------------------------
(* NVMLRegistry.apply: Register and Resize. *)

Become(t, c) == call' = [call EXCEPT ![t] = c]

\* The call returns.
Done(t, error) == Become(t, [NoCall EXCEPT !.step = "done", !.error = error])

\* Mutant of Abort: what was changed stays.
AbortWithoutRollback(t, error) == Done(t, error)

\* Every error path of apply goes through rollback.
Abort(t, error) ==
    IF call[t].applied = <<>>
        THEN Done(t, error)
        ELSE Become(t, [call[t] EXCEPT !.kind = "rollback", !.error = error,
                                       !.step = "snapshot", !.before = NoDevice,
                                       !.i = Len(call[t].applied)])

\* The row of this PID, or a row that is not there.
Prior(rows, p) ==
    IF p \in DOMAIN rows.mem
        THEN [existed |-> TRUE, mib |-> rows.mem[p], util |-> rows.util[p]]
        ELSE [existed |-> FALSE, mib |-> 0, util |-> 0]

Exhausted(t, d) ==
    Amount(Pid(t), call[t].i) * MiB - Prior(d, Pid(t)).mib * MiB > d.free

\* The share is no byte count.
Overflows(t) == Amount(Pid(t), call[t].i) > MaxU64 \div MiB

ApplySnapshot(t) ==
    LET d == Observed(dev[Target(t)])
    IN  /\ call[t].kind = "apply"
        /\ call[t].step = "snapshot"
        /\ \/ /\ Answered(t)
              /\ \/ (~ Resolves(t) \/ Overflows(t)) /\ Abort(t, "error")
                 \/ /\ Resolves(t) /\ ~ Overflows(t)
                    /\ \/ Exhausted(t, d) /\ Abort(t, "oom")
                       \/ /\ ~ Exhausted(t, d)
                          /\ Become(t, [call[t] EXCEPT !.before = d,
                                                       !.step = "replace"])
           \/ Refused(t) /\ Abort(t, "error")
        /\ UNCHANGED <<dev, srv, outside>>

ApplyReplace(t) ==
    LET c == call[t]
        s == Pid(t)
        desired == WithPID(c.before, s, Amount(s, c.i), LlamaUtil)
        next == [c EXCEPT !.i = @ + 1, !.step = "snapshot",
                          !.before = NoDevice,
                          !.applied = Append(@, Prior(c.before, s))]
    IN  /\ c.kind = "apply"
        /\ c.step = "replace"
        /\ \/ /\ ReplaceSucceeds(t, desired)
              /\ IF c.i = Len(Targets(s)) THEN Done(t, "none")
                                          ELSE Become(t, next)
           \/ ReplaceFails(t, desired) /\ Abort(t, "error")
        /\ UNCHANGED <<srv, outside>>

\* rollback: the targets changed so far, last one first, each put back to its
\* prior row.  Its errors are ignored.
RollbackNext(t) ==
    IF call[t].i = 1
        THEN Done(t, call[t].error)
        ELSE Become(t, [call[t] EXCEPT !.i = @ - 1, !.step = "snapshot",
                                       !.before = NoDevice])

RollbackSnapshot(t) ==
    /\ call[t].kind = "rollback"
    /\ call[t].step = "snapshot"
    /\ \/ /\ Answered(t)
          /\ Become(t, [call[t] EXCEPT !.before = Observed(dev[Target(t)]),
                                       !.step = "replace"])
       \/ Refused(t) /\ RollbackNext(t)
    /\ UNCHANGED <<dev, srv, outside>>

RollbackReplace(t) ==
    LET c == call[t]
        prior == c.applied[c.i]
        desired == IF prior.existed
                     THEN WithPID(c.before, Pid(t), prior.mib, prior.util)
                     ELSE WithoutPID(c.before, Pid(t))
    IN  /\ c.kind = "rollback"
        /\ c.step = "replace"
        /\ ReplaceSucceeds(t, desired) \/ ReplaceFails(t, desired)
        /\ RollbackNext(t)
        /\ UNCHANGED <<srv, outside>>

-----------------------------------------------------------------------------
(* Server.ReleaseResources and NVMLRegistry.Release. *)

\* Goroutine t is about to call ReleaseResources.
WantsRelease(t) ==
    \/ t[2] = "main" /\ srv[Pid(t)].pc = "release"
    \/ t[2] = "signal" /\ srv[Pid(t)].sig = "release"

\* Under releaseMu: nothing to do, or readiness is withdrawn and the rows go.
BeginRelease(t) ==
    LET s == Pid(t)
    IN  /\ WantsRelease(t)
        /\ call[t].step = "none"
        /\ srv[s].releaseMu = "none"
        /\ \/ ~ srv[s].registered /\ Done(t, "none") /\ UNCHANGED srv
           \/ /\ srv[s].registered
              /\ srv' = [srv EXCEPT ![s].ready = FALSE, ![s].releaseMu = t[2]]
              /\ Become(t, NewCall("release"))
        /\ UNCHANGED <<dev, faults, outside>>

\* The next target; after the last one Release is over.
ReleaseNext(t, error) ==
    Become(t, [call[t] EXCEPT
        !.i = @ + 1,
        !.step = IF call[t].i = Len(Targets(Pid(t))) THEN "end" ELSE "snapshot",
        !.before = NoDevice,
        !.error = error])

ReleaseSnapshot(t) ==
    LET d == Observed(dev[Target(t)])
    IN  /\ call[t].kind = "release"
        /\ call[t].step = "snapshot"
        /\ \/ /\ Answered(t)
              /\ IF Pid(t) \in DOMAIN d.mem
                   THEN Become(t, [call[t] EXCEPT !.before = d,
                                                  !.step = "replace"])
                   ELSE ReleaseNext(t, call[t].error)
           \/ Refused(t) /\ ReleaseNext(t, "error")
        /\ UNCHANGED <<dev, srv, outside>>

ReleaseReplace(t) ==
    LET desired == WithoutPID(call[t].before, Pid(t))
    IN  /\ call[t].kind = "release"
        /\ call[t].step = "replace"
        /\ \/ ReplaceSucceeds(t, desired) /\ ReleaseNext(t, call[t].error)
           \/ ReplaceFails(t, desired) /\ ReleaseNext(t, "error")
        /\ UNCHANGED <<srv, outside>>

EndsRelease(t) == call[t].kind = "release" /\ call[t].step = "end"

\* Mutant of EndRelease: it forgets the rows it failed to remove.
EndReleaseForgets(t) ==
    /\ EndsRelease(t)
    /\ srv' = [srv EXCEPT ![Pid(t)].registered = FALSE,
                          ![Pid(t)].releaseMu = "none"]
    /\ Done(t, call[t].error)
    /\ UNCHANGED <<dev, faults, outside>>

\* A failed release stays registered, so that it can be tried again.
EndRelease(t) ==
    /\ EndsRelease(t)
    /\ srv' = [srv EXCEPT ![Pid(t)].registered = call[t].error # "none",
                          ![Pid(t)].releaseMu = "none"]
    /\ Done(t, call[t].error)
    /\ UNCHANGED <<dev, faults, outside>>

-----------------------------------------------------------------------------
(* main and Server.Run. *)

At(s, where) == srv[s].pc = where

Goto(s, where) == srv' = [srv EXCEPT ![s].pc = where]

\* Run returns with error `why`, through its deferred cleanup.
Leave(s, why) == srv' = [srv EXCEPT ![s].pc = "cleanup", ![s].err = why]

\* The process ends, and with it its goroutines and streams.
Exit(s, where, why) ==
    /\ srv' = [srv EXCEPT ![s] =
                  [Launched(srv[s].cfg, why) EXCEPT
                      !.pc = where, !.cancelled = srv[s].cancelled,
                      !.grown = srv[s].grown, !.registered = srv[s].registered]]
    /\ call' = [call EXCEPT ![Main(s)] = NoCall, ![Signal(s)] = NoCall]

\* main has parsed the command: the process ends, or goes on with the result.
Parse(s) ==
    /\ At(s, "main")
    /\ \/ srv[s].err = "usage" /\ Exit(s, "exited", "usage")
       \/ srv[s].err = "none" /\ Goto(s, "gate") /\ UNCHANGED call
    /\ command' = [command EXCEPT ![s] = NoCommand]
    /\ UNCHANGED <<dev, lost, faults>>

\* waitForRegisterGate: the gate file is there, or none is wanted, or it cannot
\* be inspected.
WaitForRegisterGate(s) ==
    /\ At(s, "gate")
    /\ \/ Goto(s, "start") /\ UNCHANGED call
       \/ Exit(s, "exited", "startup")
    /\ UNCHANGED <<dev, faults, outside>>

\* Up to Register: the injected failure, a size that cannot be computed or a
\* port that is taken end Run before the deferred cleanup, the injected OOM
\* ends it through the cleanup.
Start(s) ==
    LET cfg == srv[s].cfg
        starts == ~ cfg.startupFail /\ CanRequire(cfg)
    IN  /\ At(s, "start")
        /\ \/ Exit(s, "exited", "startup")
           \/ starts /\ cfg.forceOOM /\ Leave(s, "oom") /\ UNCHANGED call
           \/ /\ starts /\ ~ cfg.forceOOM
              /\ Goto(s, "register")
              /\ Become(Main(s), NewCall("apply"))
        /\ UNCHANGED <<dev, faults, outside>>

\* Register has returned.
Registered(s) ==
    LET error == call[Main(s)].error
    IN  /\ At(s, "register")
        /\ call[Main(s)].step = "done"
        /\ Become(Main(s), NoCall)
        /\ \/ /\ error = "none"
              /\ srv' = [srv EXCEPT ![s].pc = "loading", ![s].registered = TRUE]
           \/ error = "oom" /\ Leave(s, "oom")
           \/ error = "error" /\ Leave(s, "register")
        /\ UNCHANGED <<dev, faults, outside>>

\* The load delay is over.
Load(s) ==
    /\ At(s, "loading")
    /\ srv' = [srv EXCEPT ![s].pc = "serving", ![s].ready = TRUE]
    /\ UNCHANGED <<dev, call, faults, outside>>

\* Where Run waits it returns when its context is cancelled; the wait for the
\* gate comes before there is anything to clean up.
Interrupted(s) ==
    /\ srv[s].cancelled
    /\ \/ At(s, "gate") /\ Exit(s, "exited", "none")
       \/ /\ At(s, "serving") \/ (At(s, "loading") /\ srv[s].cfg.loadDelay > 0)
          /\ Goto(s, "cleanup")
          /\ UNCHANGED call
    /\ UNCHANGED <<dev, faults, outside>>

\* The HTTP server stops.
ServeFails(s) ==
    /\ At(s, "serving") \/ (At(s, "loading") /\ srv[s].cfg.loadDelay > 0)
    /\ Leave(s, "serve")
    /\ UNCHANGED <<dev, call, faults, outside>>

\* The crash timer fires.
Crash(s) ==
    /\ At(s, "serving")
    /\ srv[s].cfg.crashAfterReady > 0
    /\ srv' = [srv EXCEPT ![s].pc = "cleanup", ![s].err = "crash",
                          ![s].ready = FALSE]
    /\ UNCHANGED <<dev, call, faults, outside>>

\* The growth timer fires, once: Resize, unless the sum is no uint64.
Grow(s) ==
    LET cfg == srv[s].cfg
    IN  /\ At(s, "serving")
        /\ cfg.growthAfter > 0 /\ cfg.growth > 0
        /\ ~ srv[s].grown
        /\ \/ ~ AddFits(Bytes(s), cfg.growth) /\ Leave(s, "growth") /\ UNCHANGED call
           \/ /\ AddFits(Bytes(s), cfg.growth)
              /\ srv' = [srv EXCEPT ![s].pc = "resize", ![s].grown = TRUE]
              /\ Become(Main(s), NewCall("apply"))
        /\ UNCHANGED <<dev, faults, outside>>

Resized(s) ==
    /\ At(s, "resize")
    /\ call[Main(s)].step = "done"
    /\ \/ call[Main(s)].error = "none" /\ Goto(s, "serving")
       \/ call[Main(s)].error # "none" /\ Leave(s, "growth")
    /\ Become(Main(s), NoCall)
    /\ UNCHANGED <<dev, faults, outside>>

\* The deferred cleanup: not ready, and the listener closes.
Cleanup(s) ==
    /\ At(s, "cleanup")
    /\ srv' = [srv EXCEPT ![s].pc = "draining", ![s].ready = FALSE]
    /\ UNCHANGED <<dev, call, faults, outside>>

\* Mutant of Drained: the release does not wait for the streams.
ReleasesAtOnce(s) ==
    /\ At(s, "draining")
    /\ Goto(s, "release")
    /\ UNCHANGED <<dev, call, faults, outside>>

\* httpServer.Shutdown returns when no stream is left.
Drained(s) ==
    /\ At(s, "draining")
    /\ srv[s].streams = 0
    /\ Goto(s, "release")
    /\ UNCHANGED <<dev, call, faults, outside>>

\* After two seconds it returns all the same, and waits for the streams no more.
DrainTimeout(s) ==
    /\ At(s, "draining")
    /\ srv[s].streams > 0
    /\ srv' = [srv EXCEPT ![s].pc = "release", ![s].streams = 0]
    /\ UNCHANGED <<dev, call, faults, outside>>

\* releaseResourcesWithRetry: the process ends when the rows are gone; after a
\* failure it waits and tries again.  The signal goroutine ends with the process.
Released(s) ==
    /\ At(s, "release")
    /\ call[Main(s)].step = "done"
    /\ \/ call[Main(s)].error = "none" /\ Exit(s, "exited", srv[s].err)
       \/ call[Main(s)].error # "none" /\ Goto(s, "retry") /\ Become(Main(s), NoCall)
    /\ UNCHANGED <<dev, faults, outside>>

\* Five seconds after the first attempt the context of the release is done.
ReleaseDeadline(s) ==
    /\ At(s, "release") \/ At(s, "retry")
    /\ ~ srv[s].expired
    /\ srv' = [srv EXCEPT ![s].expired = TRUE]
    /\ UNCHANGED <<dev, call, faults, outside>>

\* Mutant of Retry: the deadline is not looked at.
RetryForever(s) ==
    /\ At(s, "retry")
    /\ Goto(s, "release")
    /\ UNCHANGED <<dev, call, faults, outside>>

\* The process gives up at the deadline.
Retry(s) ==
    /\ At(s, "retry")
    /\ \/ srv[s].expired /\ Exit(s, "abandoned", srv[s].err)
       \/ ~ srv[s].expired /\ Goto(s, "release") /\ UNCHANGED call
    /\ UNCHANGED <<dev, faults, outside>>

-----------------------------------------------------------------------------
(* The signal goroutine, and everybody else. *)

Gone(s) == At(s, "exited") \/ At(s, "abandoned")

Sigterm(s) ==
    /\ s \in Signalled
    /\ ~ Gone(s) /\ ~ At(s, "main")
    /\ srv[s].pending < SignalBuffer
    /\ srv' = [srv EXCEPT ![s].pending = @ + 1]
    /\ UNCHANGED <<dev, call, faults, outside>>

\* Without hang-shutdown the first signal cancels Run; later ones are not read.
HandleSignal(s) ==
    /\ ~ Gone(s)
    /\ srv[s].sig = "waiting"
    /\ srv[s].pending > 0
    /\ \/ /\ srv[s].cfg.hangShutdown
          /\ srv' = [srv EXCEPT ![s].pending = @ - 1, ![s].sig = "release"]
       \/ /\ ~ srv[s].cfg.hangShutdown
          /\ srv' = [srv EXCEPT ![s].pending = @ - 1, ![s].sig = "stopped",
                                ![s].cancelled = TRUE]
    /\ UNCHANGED <<dev, call, faults, outside>>

\* With hang-shutdown the error of ReleaseResources is ignored.
SignalHandled(s) ==
    /\ ~ Gone(s)
    /\ srv[s].sig = "release"
    /\ call[Signal(s)].step = "done"
    /\ srv' = [srv EXCEPT ![s].sig = "waiting"]
    /\ Become(Signal(s), NoCall)
    /\ UNCHANGED <<dev, faults, outside>>

\* A chat completion passes requireReady and streams, until it is complete or
\* its client goes away.
BeginStream(s) ==
    /\ ~ Gone(s)
    /\ srv[s].ready
    /\ srv[s].streams < MaxStreams
    /\ srv' = [srv EXCEPT ![s].streams = @ + 1]
    /\ UNCHANGED <<dev, call, faults, outside>>

EndStream(s) ==
    /\ ~ Gone(s)
    /\ srv[s].streams > 0
    /\ srv' = [srv EXCEPT ![s].streams = @ - 1]
    /\ UNCHANGED <<dev, call, faults, outside>>

\* `fake-nvidia-ctl gpu failure`: a GPU is lost, and its failure is cleared.
Lose(g) ==
    /\ g \in Losable \ lost
    /\ faults < MaxFaults
    /\ lost' = lost \cup {g}
    /\ faults' = faults + 1
    /\ UNCHANGED <<dev, command, srv, call>>

Recover(g) ==
    /\ g \in lost
    /\ lost' = lost \ {g}
    /\ UNCHANGED <<dev, command, srv, call, faults>>

-----------------------------------------------------------------------------

Registry(t) ==
    /\ ~ Gone(Pid(t))
    /\ \/ ApplySnapshot(t)
       \/ ApplyReplace(t)
       \/ RollbackSnapshot(t)
       \/ RollbackReplace(t)
       \/ BeginRelease(t)
       \/ ReleaseSnapshot(t)
       \/ ReleaseReplace(t)
       \/ EndRelease(t)

\* The steps of main that wait for nothing but the end of a call, a started
\* timer or the cancellation of the context.
Proceed(s) ==
    \/ Parse(s)
    \/ Start(s)
    \/ Registered(s)
    \/ Load(s)
    \/ Interrupted(s)
    \/ Resized(s)
    \/ Cleanup(s)
    \/ Drained(s)
    \/ DrainTimeout(s)
    \/ Released(s)
    \/ Retry(s)

HandleSignals(s) == HandleSignal(s) \/ SignalHandled(s)

Next ==
    \/ \E t \in Goroutine : Registry(t)
    \/ \E s \in Server :
          \/ WaitForRegisterGate(s)
          \/ Proceed(s)
          \/ Grow(s)
          \/ Crash(s)
          \/ ServeFails(s)
          \/ ReleaseDeadline(s)
          \/ Sigterm(s)
          \/ HandleSignals(s)
          \/ BeginStream(s)
          \/ EndStream(s)
    \/ \E g \in GPU : Lose(g) \/ Recover(g)

Spec == Init /\ [][Next]_vars

\* Goroutines are scheduled, commands end, timers fire, and a sync.Mutex goes to
\* the one that has waited longest.
FairSpec ==
    /\ Spec
    /\ \A s \in Server :
          /\ WF_vars(Proceed(s) \/ Registry(Main(s)))
          /\ WF_vars(HandleSignals(s) \/ Registry(Signal(s)))
          /\ WF_vars(ReleaseDeadline(s))
          /\ SF_vars(BeginRelease(Main(s)))

-----------------------------------------------------------------------------
(* Properties. *)

\* Byte counts stay uint64 and the fields of Server and of the registry calls
\* have their values (server.go, registry.go).
TypeOK ==
    /\ dev \in [GPU -> Device]
    /\ lost \subseteq Losable
    /\ \A s \in Server :
          /\ srv[s].pc \in {"main", "gate", "start", "register", "loading", "serving",
                           "resize", "cleanup", "draining", "release", "retry",
                           "exited", "abandoned"}
          /\ srv[s].err \in {"none", "usage", "startup", "oom", "register", "serve",
                            "growth", "crash"}
          /\ srv[s].releaseMu \in {"none", "main", "signal"}
          /\ srv[s].sig \in {"waiting", "release", "stopped"}
          /\ srv[s].pending \in 0 .. SignalBuffer
          /\ srv[s].streams \in 0 .. MaxStreams
          /\ srv[s].registered => Bytes(s) \in U64
    /\ faults \in 0 .. MaxFaults
    /\ \A t \in Goroutine :
          /\ call[t].kind \in {"none", "apply", "rollback", "release"}
          /\ call[t].i \in 0 .. Len(Targets(Pid(t))) + 1
          /\ call[t].before \in Device

HasRow(s, g) == s \in DOMAIN dev[g].mem

NoRowOf(s) == \A g \in GPU : ~ HasRow(s, g)

\* Rows of several servers on several GPUs, registered, grown, rolled back and
\* released in any order: a device stays within its size and reports at least
\* what its rows own.  "If the additional memory does not fit, the process
\* fails rather than silently overcommitting" (FAKE_LLAMA_SERVER.md:228).
NeverOvercommits == \A g \in GPU : Fits(dev[g], g) /\ Covered(dev[g])

\* A server that registered and then ends, by SIGTERM, crash, failed growth or
\* failed serving, with control-plane failures on the way, leaves no row
\* behind, unless its last attempt to release ended in an error it reports
\* (the deferred cleanup of Run, releaseResourcesWithRetry).
NoPhantomRows ==
    \A s \in Server :
        /\ At(s, "exited")
        /\ ~ srv[s].cfg.hangShutdown
        /\ srv[s].err \notin {"oom", "register"}
        => NoRowOf(s)

\* A server whose Register failed on one GPU leaves nothing on the others,
\* when neither SIGTERM nor a failing command disturbs the rollback (apply).
FailedRegisterLeavesNothing ==
    \A s \in Server :
        /\ At(s, "exited")
        /\ srv[s].err \in {"oom", "register"}
        /\ ~ srv[s].cancelled
        /\ faults = 0
        => NoRowOf(s)

\* While /health says ok and no growth is under way, the rows of the server add
\* up to the bytes it needs, rounded up to MiB once (splitProcessMiB, "rounded up
\* conservatively when converted to process records", FAKE_LLAMA_SERVER.md:84).
ReadyIsBacked ==
    \A s \in Server :
        srv[s].ready /\ ~ srv[s].cfg.hangShutdown /\ At(s, "serving") =>
            SumFunctionOnSet([g \in GPU |-> IF HasRow(s, g) THEN dev[g].mem[s] ELSE 0],
                             GPU)
              = RoundUp(Bytes(s))

\* "A failed release remains retryable" (ReleaseResources): a server that has
\* registered, and has not grown since, is never marked unregistered while one
\* of its rows is left.
ReleaseIsRetryable ==
    \A s \in Server :
        /\ srv[s].pc \in {"loading", "serving", "cleanup", "draining",
                         "release", "retry", "abandoned"}
        /\ srv[s].err \notin {"oom", "register"}
        /\ ~ srv[s].grown
        /\ ~ srv[s].registered
        => NoRowOf(s)

\* Once it cleans up, and for a server without hang-shutdown once SIGTERM has
\* arrived, the process ends: no retry, mutex or rollback keeps it forever.
ShutdownCompletes ==
    \A s \in Server :
        (At(s, "cleanup") \/ (~ srv[s].cfg.hangShutdown /\ srv[s].pending > 0)) ~> Gone(s)

\* "Registered resources are released on every return" (server.go:71).
EveryReturnReleases == \A s \in Server : At(s, "exited") => NoRowOf(s)

\* The command line means what FAKE_LLAMA_SERVER.md says: for every order and
\* repetition of the options, mixed with options that are ignored and with
\* environment variables, the GPUs, the size and the injected failures are the
\* documented ones (withManagerDeviceTargets, ParseConfig).
ParsesAsDocumented ==
    \A s \in Server :
        At(s, "main") /\ ~ IsInfoRequest(FlattenSeq(command[s].items)) =>
            AsDocumented(command[s].items, command[s].env)

\* A stream that began is served by a process that has its VRAM: whatever makes
\* Run return, the rows stay until the streams are over or the two seconds
\* Shutdown gives them have passed (the order of the deferred calls).
StreamsAreBacked ==
    \A s \in Server :
        /\ srv[s].streams > 0
        /\ ~ srv[s].cfg.hangShutdown
        => \A i \in DOMAIN Targets(s) :
              \E g \in GPU : Targets(s)[i] \in GpuNames[g] /\ HasRow(s, g)
=============================================================================
