# fake-nvidia in TLA+

fake-nvidia makes a machine without NVIDIA hardware look as if it had some: a
mock NVML library shows GPUs that a configuration describes, and several
programs change what it shows. This directory models those programs, checks the
models with TLC and proves the safety of the control plane, of the programs on it, of
the scenario runner and the composer, and of the installer with TLAPS. Paths are relative to the repository.

## The system

The shared state is one *overrides file* per host: for each GPU the used and free
VRAM in bytes and a table of process rows (PID, MiB, utilizations). `nvml-mock-ctl`
(upstream, a separate executable) stores a new value for one GPU, `nvidia-smi`
reads the effective state. Everything else is built on these two commands.

| Component | State | Operations | Hard about it | Correct when |
|---|---|---|---|---|
| control manager, observer, client (`internal/control`), `fake-nvidia-ctl` (`internal/controlcli`) | the flock; otherwise none | memory set, reserve, release; process add, update, remove; replace; reset | read-modify-write over four commands; bytes written but MiB read; a wanted table computed before the lock; reset without the lock; a killed caller whose command goes on | no device is overcommitted; used VRAM covers the rows; an operation is one indivisible change; other PIDs' rows stay |
| pmon (`internal/pmon`, `internal/nvmlpmon`, `cmd/nvidia-smi-wrapper`) | the NVML library's copy of the rows | answer `nvidia-smi pmon` | two calls per GPU, for the count and for the rows, while rows change; a library call that fails | the answer is a table that was there since the question, or an error |
| `fake-llama-server` (`internal/fakellama`, `cmd/fake-llama-server`) | ready, registered, the release mutex, pending signals, open streams | parse options and environment; register on several GPUs with rollback, resize, release with retries, crash, hang-shutdown | seven sources of targets; two goroutines; SIGTERM at any moment; one GPU of several failing or lost; two servers competing; streams that are not finished | options mean what the document says; rows exist exactly while the server owns VRAM; a failed release is retried; it ends when told to |
| CUDA shim (`internal/cuda`, `cmd/libcuda`) | tracked allocations, current device, last error, host tokens, the engine's mutex | cudaMalloc, cudaFree, cudaDeviceReset, cudaSetDevice, cudaGetLastError, queries | threads; other programs; a command that stores and fails; a program that ends without freeing | what the engines charge is what they track; every call returns |
| scenario runner (`internal/scenario`) | the step, the line channel | load and validate, initial operations, timed or event steps, cleanup | events early, late or among noise; cancellation; failing cleanup | it runs as written, cleanup is complete, cancellation ends it |
| catalogue, composer and the commands on them (`profiles`, `internal/config`, `cmd/fake-nvidia`: render, up, kubernetes; `scenario render`) | none | load profiles and topologies, choose and compose devices | uint64 bounds; the same checks in two places, the same choice in four | the devices are those asked for, add up without wrapping, and do not depend on the command |
| injection root and Kubernetes installer (`internal/injection`, `cmd/fake-nvidia` up and down, `cmd/fake-nvidia-k8s-installer`) | a directory with a marker, a CDI spec | prepare or refresh, remove; publish, wait, withdraw | kills between steps; half-removed trees; check and use far apart | foreign files are not touched, a published spec is backed, overrides survive |
| runtime bundle, manifest text, upstream pin | none | read, print, check a layout | | not modelled |

`PROJECT.json` has the full list of components, with what is left out of each,
the lines that each definition models (`map`), and the hazards, each with the
properties that would catch it.

## Modules

| Module | Models |
|---|---|
| `GpuState` | one device and the arithmetic on it: what is composed, what `nvidia-smi` shows, guard and result of every read-modify-write, the rebase of a process table. No variables; shared by every module with devices. uint64 arithmetic has the width `MaxU64`. |
| `ControlPlane` | `Actor`s (processes) that run manager operations command by command: peek at the rows, take the flock, three queries, decide, store. One action per command. |
| `AtomicControl` | the promise: an operation is one step on the device. `ControlPlane` implements it (`ActsAtomically`; the variable `dev` is mapped to itself). |
| `Pmon` | the wrapper and the collector, one action per call of the NVML library, beside a control plane that is `AtomicControl` (instantiated, not repeated). |
| `PmonPromise` | what an answer of pmon may be. `Pmon` implements it (`KeepsPromise`: `phase` is whether a question is open, `table` the utilizations of the rows). |
| `LlamaConfig` | operators: the command line and environment of fake-llama-server, what they need in bytes and shares, and what the document says of them. |
| `FakeLlama` | servers, each with a main and a signal goroutine and chat streams, on GPUs that may be lost. A manager operation is one step: that this is sound is what `ActsAtomically` says. |
| `CudaEngine` | programs with an engine each, and their threads, and other programs that use the manager. |
| `Composer` | operators: the catalogue, the composer, and the choice each command makes. |
| `Scenario` | the commands as processes: those that compose, and `scenario run` with the runner, the scanner goroutine and the channel between them. |
| `Installer` | one process at a time (`up`, `down` or the installer) working on a host, system call by system call, and whoever else writes there. |
| `MC*` | instances for TLC: values of constants only. |
| `GpuStateProofs`, `SumProofs` | lemmas on the arithmetic of a device and on sums over finite sets. |
| `ControlPlaneProofs` | theorems about `ControlPlane`, last of them the refinement of `AtomicControl`. |
| `PmonProofs`, `CudaEngineProofs`, `FakeLlamaProofs`, `ScenarioProofs`, `InstallerProofs` | theorems about the module of that name. |

How they compose: `Pmon` runs on `AtomicControl`; `FakeLlama` and `CudaEngine` use the
manager's operations of `GpuState` as single steps, which `ActsAtomically` justifies;
`Scenario` renders with `Composer`, whose device is the `BaseDevice` the others start from.

Definitions whose comment starts with "Mutant of" are not part of any model: each
is the plausible mistake that one property is there to catch, and the property
is violated when it takes the place of the definition it is a mutant of.

Correspondence, where it is not one to one:

- *Commands.* One external command is one action and may fail without an
  effect. `Mutate` may also store and then fail; in `FakeLlama.ReplaceFails` and
  `CudaEngine.AnswerLost` the same.
- *The cut-off to MiB.* The manager stores bytes; `nvidia-smi` prints whole MiB,
  and the observer multiplies (`SmiMiB`, `ParseMiB`). That `nvidia-smi` rounds
  down is an assumption about an external program.
- *Processes that die.* `ActorsMayDie`: the flock is free at once, the
  `nvml-mock-ctl` it had started stores later or never (`OrphanMutate`).
- *Sums that do not fit.* `SumFits` stands for the overflow checks of
  `processBytes`, one for the whole sum.
- *Histories.* `CudaEngine.others` and `stray` are read by properties only. `others` is what other
  programs took. `stray` is what an engine charged without tracking it (a reservation that stored
  and failed, the allocations of a program that ended), less what it gave back and still tracks (a
  release that stored and failed).
- *Addresses.* `CudaEngine.Free` takes any address of the host: one that is tracked, that a reset
  has forgotten, that is free, or that another thread is freeing. The engine answers all but the
  first with "invalid value", and only one of two concurrent calls finds it. The null pointer changes
  nothing and is left out.
- *Directories.* A root is the set of its entries; `os.RemoveAll` removes them one
  by one in any order. "dev" stands for the directory with all device nodes.
- *CDI spec.* The text is a function of kind and device count (`Version`); the
  installer only ever compares it with its own.
- *Command lines.* A text is the sequence of its comma-separated words, an argument
  its dashes, its key and its inline value. What the standard library makes of a
  word (`Number`, `Size`, `Duration`) is a constant; `ParseBytes` rounds fractions
  as the code does. The gate's file name and the server's address are not
  distinguished.
- *Contexts and deadlines.* `cancelled` is the context of Run, `expired` the five seconds
  of the deferred release. A command whose context is done fails, and may have
  stored by then. The two seconds of `Shutdown` are `DrainTimeout`, which may come
  whenever a stream is open.
- *A lost GPU.* `Lose` and `Recover` are `fake-nvidia-ctl gpu failure`: while a GPU is lost
  `nvidia-smi` prints no numbers for it, and the query of all GPUs fails.
- *The NVML library* is external. It reads the overrides when it is initialized and
  again when its reload interval has passed, so each call answers from the rows it has or
  from the present ones (`Reload`). Asked without a buffer for rows that exist it may
  say SUCCESS or INSUFFICIENT_SIZE; the collector accepts both.
- *Catalogues and documents* are records; a file that does not decode is one with
  `decodes` false, a pointer a sequence of at most one element. Attributes of a profile that
  only have to be there are one flag (`described`), and one utilization stands for all.

Left out on purpose: the type of a process row (the packaged pmon always
answers "C"); the manager without a lock path (only tests have one); the
"already exists" check of `TrackAllocation` (a fresh token is never tracked:
`TrackedTokensLive`); `ReplaceProcesses` is modelled although only tests call
it. `fake-nvidia-ctl scenario run` passes a context that is never cancelled, so
`Cancel` is about the Runner as a package, whose tests do cancel it.

## Runs

| Run | Instance | Shows |
|---|---|---|
| `atomic` | 1 GPU, 2 PIDs, 2 actors, rows of 1 MiB that change to 2 or 8 | `ActsAtomically`: an actor's operation is one step of `AtomicControl`. What an actor decides on is the present state; other PIDs' rows, the size or the utilizations that an update does not name, and the system's share of used VRAM are kept; used VRAM covers the rows. 8 MiB do not fit in the 15 bytes of `MaxU64`, so that overflow happens. |
| `hostile` | 1 GPU, 1 PID, 2 actors, all operations, failing pmon, deaths, resets | Nothing overcommits, no VRAM appears or vanishes from the visible pool, only an actor inside the critical section has the flock. |
| `reset_race` | | **violated**: see Findings. |
| `llama` | 2 servers with crossed targets on 2 GPUs, growth, crash, SIGTERM, one failing command | Nothing overcommits; a server that registered and ends leaves no row; an undisturbed failed Register leaves none either; a ready server has the VRAM it needs. |
| `shutdown` | 1 server, every command of up to 3 out of 16 options under 5 environments, 1 stream, one failing command or a lost GPU | `ParsesAsDocumented`: targets, sizes and injected failures are the documented ones for every order and repetition of options; each of the seven sources selects other GPUs, so that a change of their order shows. A failed release is never forgotten, the rows a stream needs stay until it ends or its two seconds are over (`StreamsAreBacked`), and the process ends once it cleans up or, without hang-shutdown, is signalled, also when a GPU stays lost. |
| `sigterm_in_register` | 1 server | **violated**: see Findings. |
| `pmon` | 2 GPUs, 2 PIDs, 3 changes of rows, 2 failing calls, 5 argument lists | `KeepsPromise`: an answer is made of whole tables of moments since the question, whatever changes between the calls. `PmonRecovers`: failures end when the changes do. |
| `cuda` | 1 program, 2 threads (one calls the runtime API, one the driver API), 2 GPUs, 2 tokens, other programs on the first GPU, one failing command or one exit without freeing | Engines charge and give back exactly what they track, and only a command that stores and fails, or a program's end, makes bytes stray; allocations can be released; no more allocations succeed than the OOM policy allows; tracked tokens are live, also when two threads free one address; every call returns; nothing overcommits even if a command stores and fails. |
| `cuda_unaligned` | | **violated**: see Findings. |
| `scenario` | 10 documents (up to 3 steps, 2 with events) with inputs of up to 3 lines out of 3; about 9900 commands that compose, with 4-bit integers | The run is as written, all cleanup operations are attempted once and in order, cancellation ends the run, events in order suffice. Rendered devices add up in plain arithmetic (`ComposedIsExact`); `render`, `up`, `kubernetes` and `scenario render` give the devices that were asked for and agree, and what the catalogue lets in can be composed (`CommandsAgree`). |
| `install` | 3 processes, 2 versions, 2 override values, kills, one failing call | Foreign files are never touched, a published spec has a complete root (unless a process was killed), refreshes keep overrides (unless one was killed or failed). |
| `reapply_changed` | | **violated**: see Findings. |

*Why the bounds are enough.* All accounting is per device: a second GPU matters
only where one operation spans several (`llama`, `shutdown`, `cuda`, `pmon`), and there are
two in those. Two actors are what a race needs; the second PID is what an actor could
trample on. `MiB` is 2 so that a byte count can be no whole MiB, a device has four
MiB, of which one is reserved and one is the system's, so that both exhaustion
and release below the rows' share occur. Two servers that each need more than half of what
is free block each other half way. Three options are two that compete and one that is
ignored, repeated or incomplete. Three changes of rows are one between the two calls for a
GPU, one that undoes it and one at the other GPU. Three lines are one more than the events.
The sizes that commands compose are those around a device's limits and around the ends of a
4-bit integer (0, 7 and 8 MiB, 15), and `MaxDevices` is 2 with requests of 0 to 3.
Three processes on a host are one that leaves something, one that meets it and
one that meets what the second left. Allocations, faults, changes, streams and processes
are bounded by `MaxAllocations`, `MaxFaults`, `MaxChanges`, `MaxStreams`, `MaxRuns`.
`ActorSymmetry` permutes the actors, which no definition tells apart; runs with liveness use
no symmetry. The runs with `CHECK_DEADLOCK FALSE` are of systems that end.

*Fairness.*

- `FakeLlama.FairSpec`: weak fairness of main's steps and registry calls, of the signal
  goroutine's, and of the release deadline: a goroutine that can go on does, commands end,
  timers fire. Strong fairness of main's `BeginRelease`: with hang-shutdown the signal
  goroutine may take `releaseMu` again and again, and Go's `sync.Mutex` is handed to a
  waiter that has starved. Nothing is assumed of signals, crashes, growth, clients, the
  register gate or the recovery of a GPU.
- `CudaEngine.FairSpec`: strong fairness of each thread's call under way, for the same
  reason; its commands have a deadline of 15 s (`apiContext`). Nothing is assumed of new calls.
- `Scenario.FairSpec`: weak fairness of the runner and of the scanner; nothing says that the
  input ends or that anybody cancels.
- `Pmon.Spec`: weak fairness of a wrapper that was called.

## Findings

Each has a run that violates a property which a document or a comment states;
`PROJECT.json` quotes it.

- `reset_race`: `Client.Reset` takes no lock. A reset between the observation and
  the store of a release leaves rows that used VRAM does not cover, after which
  releases and process operations on that device fail.
- `sigterm_in_register`: SIGTERM ends a command of Register that has already stored, or
  the loop after some of the GPUs. The rollback runs under the context that
  SIGTERM cancelled, and the deferred cleanup skips a server that is not
  registered: rows outlive the process.
- `cuda_unaligned`: less than a MiB can be allocated, but not freed.
- `reapply_changed`: after a kill, an installer with another device count takes
  its predecessor's CDI spec for a foreign one, fails, and removes the root.

The models show more behaviours of this kind, which have no run of their own.
They are obtained by changing constants and stating the property without its
condition:

- Byte counts that are no whole MiB (`Sizes = {1}`) shrink the visible pool for
  good: `VisiblePoolPreserved` needs whole MiB (manager.go:108, CONTROL.md:57).
- With `PmonMayFail`, an update stores zeros for utilizations that were not
  supplied (observe.go:71, CONTROL.md:75).
- With `ActorsMayDie`, an orphaned command undoes another actor's change
  (manager.go:223, CONTROL.md:172).
- One failing command in a rollback leaves a phantom row without a retry
  (registry.go:143); `FailedRegisterLeavesNothing` has the condition.
- The loser of a race for the last VRAM gets an error that is not the
  out-of-memory one (registry.go:130, FAKE_LLAMA_SERVER.md:194).
- With hang-shutdown, the growth timer registers rows again after the signal has
  released them, and with `registered` false nothing removes them (server.go:185,
  FAKE_LLAMA_SERVER.md:212): `ReleaseIsRetryable` without its condition on growth.
- With hang-shutdown, a signal during the load releases the rows, and the end of the load then
  sets ready: /health says ok for a server without rows (server.go:152).
- A target list may name one GPU twice, by index and by UUID (`--fake-gpus=0,GPU-a`). Each entry has
  its share, and the row of the second replaces that of the first: a ready server shows
  less than it needs (registry.go:119, FAKE_LLAMA_SERVER.md:84). `ReadyServersAreBacked` has the
  condition.
- An ignored option whose value is the bare name of a known one (`--alias host`) makes
  it that option (config.go:223 of `internal/fakellama`); `IsComplete` excludes it.
- `-fake-gpus` with one dash is an option to the parser but no override to
  the translation of `--device`, which then wins (main.go:185 of `cmd/fake-llama-server`). Such
  commands are among those of `shutdown`; `ParsesAsDocumented` states the departure
  (`LosesToDevice`).
- A `--tensor-split` of zeros is an error and does not fall back to `--main-gpu`
  (FAKE_LLAMA_SERVER.md:88); also among the commands, and stated in `AsDocumented`. The document
  does not rank `--device`: its place in `DocumentedTargets` is the one main.go:140 says.
- A release that stored and failed leaves the allocation tracked, and a second `cudaFree` gives
  its bytes back again, from what other programs or the system have (engine.go:242). A
  reservation that stored and failed stays charged. `ChargedExactly` counts these bytes as stray
  and `AllocationsReleasable` has the condition.
- A topology of more than eight devices loads, but no command can compose it;
  `render --topology` ignores a `--count` or `--vram-mib` that `up` and `kubernetes` refuse; a count of 0
  means 1 to `scenario render` and is an error elsewhere. `CommandsAgree` has these conditions.
- The type of a process row is lost in the round trip through pmon, which answers
  "C" for all (collect_linux.go:225).
- With `ForeignFiles = "always"`, a directory that appears after the ownership
  check is removed (injection.go:91); with `Stores = "always"`, overrides that are stored
  during a refresh are lost (injection.go:83); a refresh that is killed before its
  rename loses them too (injection.go:97).
- A kill within `RemoveAll` may have taken the marker first; the rest is then
  refused for ever (injection.go:122).

## Proofs

Every theorem is for any number of GPUs, PIDs, actors, programs, servers and so on, any
`MiB` and any `MaxU64`. All of them assume what the modules assume of their constants
(the types; `ConfigAssumption`: each configured device passed the checks of
`composeDevice`); what a theorem assumes beyond that is in its statement and named below.
The inductive invariants named below are proof strengthenings only; no run lists them.

**Control plane** (`ControlPlaneProofs`)

- `TypeCorrect`, `NeverOvercommits`: `Spec => []TypeOK`, `Spec => []NoOvercommit`,
  with resets, deaths, failing commands and arbitrary byte counts. `NoOvercommit`
  is not inductive: a store writes what an actor computed from an observation
  that may be stale and torn. `AccountingInv` adds that everything an actor
  carries (`seen`, `planned`) would itself fit the device (`ViewsFit`), because each
  query returns a part of some state that fits, cut off downwards, and free is not
  kept from one observation and used from another; that tables have one set
  of PIDs for both columns once they are complete (`TablesWellFormed`); and what an
  operation under way is (`OperationKnown`).
- `LockIsGivenBack`: `Spec => []LockHeldInside`, under the same conditions.
- `UsageAlwaysCovers`, `ObservationAlwaysCurrent`: with `"reset" \notin Kinds` and
  `~ ActorsMayDie`, used VRAM covers the rows and an actor decides on the
  present state. `CoverageInv` adds `LockedView`: whoever is in the critical
  section has the flock, has seen what is there, and plans to store something
  covered. Both assumptions are needed: `reset_race` is what happens without the
  first, and an orphaned command stores without the lock.

With further assumptions:

- `PoolNeverLeaks`: with `WholeSizes`, used plus free of a device is always what it was
  (`VisiblePoolPreserved`), with resets and deaths. `PoolInv` says so of what actors have seen
  and plan as well. Without `WholeSizes` it is false: `nvidia-smi` cuts to whole MiB, and the
  manager stores what it saw.
- `OthersRowsSurvive`, `UnsuppliedFieldsSurvive`: a process operation never touches the row of another
  PID, and an update keeps the size when it was given none and the utilizations when it was given none,
  although the wanted table was computed before the lock. Without resets and deaths, and with a pmon that answers (it is what shows
  utilizations). `RowsInv` says of a planned table that it is the *present* one with one
  row edited: the rebase under the lock undoes whatever the peek got wrong.
- `SystemUsageSurvives`: a process operation leaves what no row owns as it is, without resets and
  deaths, for whole MiB; pmon may fail. `BytesInv` has the bytes that each kind of operation plans.
- `ImplementsAtomicControl`: `Spec => ActsAtomically`, from all of these invariants together. The
  initial states are the same; only `Mutate` changes a device, and each of its kinds is shown to be
  the operation of `AtomicControl` with the same parameters. This is what allows `Pmon`, `FakeLlama`
  and `CudaEngine` to take a manager operation for one step.

**pmon** (`PmonProofs`)

- `PmonTypes`, and `PmonKeepsPromise`: `Spec => KeepsPromise`, the refinement of `PmonPromise`, with no
  further assumption. `PmonInv` says that while a question is open the library's copy of
  every GPU's rows, and every table that the collector has filled, is one that was true
  since the question; an answer without error has all of them.

**CUDA shim** (`CudaEngineProofs`)

- `CudaTypes`, `CudaNeverOvercommits`, `TrackedTokensStayLive`, `OOMPolicyAlwaysHolds`: without
  further assumptions. `EngineInv` says that only the thread that has the mutex is inside an
  engine, that one which has passed the policy's check still has room to count, that a
  token brought to an allocation, or on its way back to the host, is live and not tracked, and that no
  two threads of a program own the same (any number may try to free it);
  `DeviceInv` that every device fits and covers its rows.
- `ChargesAreExact`, `AllocationsStayReleasable`: with `WholeRequests` (without it `cuda_unaligned`
  is a counterexample). `ChargeInv` adds the balance itself and the full pool to both. The balance is
  up to `stray`: what commands that store and fail do to it is recorded, not excluded. The
  balance is a sum over the tokens of all engines, so `EngineAssumption` has finitely many
  programs and tokens.

**fake-llama-server** (`FakeLlamaProofs`)

- `LlamaTypes`, `LlamaNeverOvercommits`: without further assumptions. `LlamaInv` relates what
  main is doing, which registry call is under way, how far it is (`applied` has one entry for
  each target passed) and who has `releaseMu`, and says that every device fits.
- `ExitedServersLeaveNoRow`, `FailedReleaseIsRetried`, `StreamsKeepTheirRows`: with `FreshPIDs` (no
  configured row has the PID of a server). `RowsInv` says which rows a server has at each
  of its steps: none before `Register`, those of the targets passed during it, all
  of them until the release, and only those of the targets left during it. The rollback of a
  `Resize` takes none away, because `Resize` finds every row (`ResizeRows`); that holds as
  long as the signal goroutine does not release beside it, hence the conditions on hang-shutdown.
- `FailedRegisterUndone`: with `FreshPIDs` and finitely many PIDs. `UndoInv` says that what main
  saw of its *own* row is still true when it stores, whatever others did to the device, and
  that the rows left are those of the targets the rollback has not reached. That the rollback
  cannot be refused is arithmetic: without the row, the sum of the others is smaller, so it
  fits and so does what is used (`RemovalGoesThrough`). Finiteness is for that sum.
- `ReadyServersAreBacked`: `Spec => []ReadyIsBacked` with `FreshPIDs`, finitely many GPUs and
  `DistinctTargets` (no two words of one command name the same GPU; Findings has what happens
  otherwise). `ShareInv` says that during `apply` the targets passed have exactly their
  share, for the bytes that are needed now (`Shared`), that the own row is as it was seen, and that the
  shares are complete from the end of the call to the next growth or the cleanup. Storing a
  share may not touch those before it, which is where distinct targets are used. The shares add up to
  the need, rounded up once, whatever the weights (`SplitSum`); the sum over the targets is the
  one over the GPUs, because targets map to GPUs one to one and no other GPU has a row
  (`SumImage`, `SumWhere`).

`CommandsAssumption` (a parsed command has fields of the types of Go's `Config`, and targets) is
what these proofs need of the parser. It is evaluated by TLC for every command of the runs; as
`ParseConfig` is a fold over the arguments, it cannot be proved for all of them.

**Scenario runner and composer** (`ScenarioProofs`)

- `ScenarioTypes`, `AlwaysRunsAsWritten`, `CleanupAlwaysAttempted`: for any document, any input and any moment
  of cancellation, failing operations included. `RunInv` says of each phase which operations the log
  has by then and which steps are done, that the channel holds the lines between those the
  runner has taken and those the scanner has read, and that the event steps done had their
  lines, in order, among those taken.
- `AlwaysComposedExact`, `CommandsAlwaysAgree`: for any catalogue, flags and documents. `RenderInv`
  says that what a command has rendered is a rejection or the composition of what it
  asked for. `RunRender`, `RunUp`, `RunKubernetes` and `RenderBase` are four
  translations of four pieces of code, shown equal on what they accept (`KubernetesIsUp` is one such step).
  The rest is about the operators of `Composer`: a row's MiB are added only where neither
  the product nor the sum wraps, so the accumulated bytes are the sum in plain arithmetic
  (`RowsAddUp`, `BytesExact`), and what the catalogue's checks let in passes those of the
  composer (`LoadedComposes`).
- The assumption `Commands \subseteq CommandType` is that fields have the values of their Go types
  (non-negative, where they are unsigned).

**Installer** (`InstallerProofs`)

- `InstallerTypes`: with kills, failing calls and foreign files at any time. `StateInv` says what
  each step may rely on: a complete root, device nodes, a marker, its own spec.
- `ForeignFilesSurvive`: `Spec => ForeignUntouched` when `ForeignFiles # "always"`. `ForeignInv`: between
  the look at the marker or spec and the change there is nothing foreign. With `"always"` it is
  false, as under Findings.
- `SpecsAreBacked`: with `MaxFaults <= 1`, as long as nobody is killed. `BackedInv` counts attempts: a
  published spec has its installer, and that one an attempt left unless a fault took it. With
  two faults both removals of the spec can fail.
- `OverridesAreKept`: with `Stores # "always"`, as long as nobody is killed and no call fails. `KeptInv`:
  the overrides stored last are in the root, or in the temporary root of the process that has
  taken it away.

**Lemmas.** `GpuStateProofs`: what is seen is at most what is there, exact for whole MiB, and
at least the rows' share; a sum that fits is not wrapped; each of set, reserve,
release, reconcile takes a device that fits to one that fits; a rebase of tables is a
table. `SumProofs`: the library's sum over a finite set by its elements: it exists, is the same
whichever element is taken first, and changes with one element by that element. As
induction over data is out of reach, these are shown by minimal counterexample: the subsets of a
finite set of which a sum law fails have a smallest member, and there is none.

**Only model-checked:**

- liveness (`ShutdownCompletes`, `PmonRecovers`, `CallsReturn`, `CancelEnds`, `OrderedEventsSuffice`):
  fairness and `ENABLED` are out of the prover's reach;
- `ParsesAsDocumented`: what a fold over the arguments computes, for command lines of any
  length, needs induction over data.

## Not modelled

- *Text*: the YAML of a configuration, the Kubernetes manifest, tables and JSON that are
  printed, HTTP answers. Nothing reads them back but the parsers of
  `nvidia-smi` output, which are modelled by what they do to numbers.
- *Utilization, temperature and power overrides* of `fake-nvidia-ctl`: single stores, without
  a lock, of values that no other part decides on.
- *Answers of CUDA queries*, `cuGetProcAddress` and error names: constants.
- *The runtime bundle and the upstream pin*: one-time checks of files.
- *Several installers on one host at once*: the DaemonSet runs one per node.

## Plan

What would come next: several installer processes at once; the stores of utilization,
temperature and power.
