-------------------------------- MODULE Pmon --------------------------------
(***************************************************************************)
(* `nvidia-smi pmon`: the wrapper that answers it, and the collector that  *)
(* asks NVML for the utilization of every process of every GPU             *)
(* (cmd/nvidia-smi-wrapper, internal/pmon, internal/nvmlpmon).  NVML is    *)
(* asked twice for a GPU, for the number of samples and for the samples,   *)
(* while the control plane changes the rows: AtomicControl, which is what  *)
(* ControlPlane is shown to be.                                            *)
(*                                                                         *)
(* The library is external.  It reads the override file when it is         *)
(* initialized and again when the reload interval has passed, so a call    *)
(* answers from the rows it has, or from the present ones.                 *)
(***************************************************************************)
EXTENDS GpuState, Sequences

CONSTANTS
    Kinds, Sizes, MiBs, Utils,  \* the operations of the control plane
    Order,                      \* the GPUs by index
    Arguments,                  \* the arguments nvidia-smi is called with
    MaxChanges,                 \* how often the control plane changes a row
    MaxFaults                   \* how many library and system calls fail

ASSUME PmonAssumption ==
    /\ Order \in Seq(GPU)
    /\ \A g \in GPU : \E i \in DOMAIN Order : Order[i] = g
    /\ IsFiniteSet(PID)
    /\ MiBs \subseteq U64
    /\ Utils \subseteq U64
    /\ MaxChanges \in Nat
    /\ MaxFaults \in Nat

VARIABLES
    dev,        \* per GPU: the effective state
    lib,        \* the library: open, initialized, and the rows it has read
    pm,         \* the wrapper: where it is, the GPU, the buffer, the samples
    answer,     \* its answer, between two calls
    recent,     \* per GPU: the tables since it was called (history)
    changes,    \* the changes so far
    faults      \* the failed calls so far

vars == <<dev, lib, pm, answer, recent, changes, faults>>

Control == INSTANCE AtomicControl WITH
    GPU <- GPU, PID <- PID, MiB <- MiB, MaxU64 <- MaxU64, Config <- Config,
    Kinds <- Kinds, Sizes <- Sizes, MiBs <- MiBs, Utils <- Utils, dev <- dev

Table(g) == dev[g].util

Tables == [g \in GPU |-> Table(g)]

Closed == [open |-> FALSE, init |-> FALSE, rows |-> [g \in GPU |-> <<>>]]

NoSamples == [g \in GPU |-> NoProcs]

Idle == [pc |-> "idle", i |-> 0, count |-> 0, samples |-> NoSamples, rc |-> 0]

Nothing == [ok |-> FALSE, rows |-> [g \in GPU |-> <<>>]]

Init ==
    /\ Control!Init
    /\ lib = Closed
    /\ pm = Idle
    /\ answer = Nothing
    /\ recent = [g \in GPU |-> {}]
    /\ changes = 0
    /\ faults = 0

-----------------------------------------------------------------------------
(* The wrapper. *)

\* Matches: pairs of -c 1 and -s u in any order, each once, and -c among them.
Pairs(args) == { 2 * k : k \in 1 .. (Len(args) \div 2) }

Matches(args) ==
    /\ Len(args) >= 3 /\ args[1] = "pmon"
    /\ Len(args) % 2 = 1
    /\ \A i \in Pairs(args) : <<args[i], args[i + 1]>> \in {<<"-c", "1">>, <<"-s", "u">>}
    /\ \A i, j \in Pairs(args) : i # j => args[i] # args[j]
    /\ \E i \in Pairs(args) : args[i] = "-c"

Asked == pm.pc \notin {"idle", "delegated"}

\* run: the collector, or nvidia-smi.real with the same arguments.
Call(args) ==
    /\ pm.pc = "idle"
    /\ \/ /\ Matches(args)
          /\ pm' = [Idle EXCEPT !.pc = "open"]
          /\ recent' = [g \in GPU |-> {Table(g)}]
          /\ answer' = Nothing
       \/ /\ ~ Matches(args)
          /\ pm' = [Idle EXCEPT !.pc = "delegated"]
          /\ UNCHANGED <<recent, answer>>
    /\ UNCHANGED <<dev, lib, changes, faults>>

\* The real binary ends; its exit status is the wrapper's.
Delegated ==
    /\ pm.pc = "delegated"
    /\ pm' = Idle
    /\ UNCHANGED <<dev, lib, answer, recent, changes, faults>>

-----------------------------------------------------------------------------
(* Collect. *)

\* A call that succeeds; one that fails ends Collect with an error.
Succeeds == UNCHANGED faults

Fails ==
    /\ faults < MaxFaults
    /\ faults' = faults + 1
    /\ pm' = [pm EXCEPT !.pc = "return", !.rc = 1]
    /\ UNCHANGED lib

Goto(where) == pm' = [pm EXCEPT !.pc = where]

\* dlopen and the symbols.
Open ==
    /\ pm.pc = "open"
    /\ \/ Succeeds /\ lib' = [lib EXCEPT !.open = TRUE] /\ Goto("init")
       \/ Fails
    /\ UNCHANGED <<dev, answer, recent, changes>>

\* nvmlInit reads the override file.
InitLibrary ==
    /\ pm.pc = "init"
    /\ \/ Succeeds /\ lib' = [lib EXCEPT !.init = TRUE, !.rows = Tables] /\ Goto("count")
       \/ Fails
    /\ UNCHANGED <<dev, answer, recent, changes>>

\* Mutant of NextGPU: one index too many.
NextGPUInclusive(i) == IF i > Len(Order) THEN "render" ELSE "handle"

\* The loop over the indices below the device count.
NextGPU(i) == IF i >= Len(Order) THEN "render" ELSE "handle"

Advance(samples) ==
    pm' = [pm EXCEPT !.pc = NextGPU(pm.i), !.i = @ + 1, !.count = 0, !.samples = samples]

DeviceCount ==
    /\ pm.pc = "count"
    /\ \/ Succeeds /\ Advance(pm.samples) /\ UNCHANGED lib
       \/ Fails
    /\ UNCHANGED <<dev, answer, recent, changes>>

DeviceHandle ==
    /\ pm.pc = "handle"
    /\ \/ Succeeds /\ Goto("probe") /\ UNCHANGED lib
       \/ Fails
    /\ UNCHANGED <<dev, answer, recent, changes>>

\* The library reloads the override file, or not.
Reload == \/ lib' = [lib EXCEPT !.rows = Tables]
          \/ UNCHANGED lib

LibraryRows(g) == lib'.rows[g]

\* NVML's SUCCESS and INSUFFICIENT_SIZE: asked without a buffer for a table
\* that is not empty, the library may answer with either.
Success == 0

InsufficientSize == 7

\* Mutant of AcceptsProbe: a buffer that is too small is an error.
AcceptsSuccess(ret) == ret = Success

AcceptsProbe(ret) == ret \in {Success, InsufficientSize}

Probe ==
    /\ pm.pc = "probe"
    /\ \/ /\ Succeeds
          /\ Reload
          /\ LET n == Cardinality(DOMAIN LibraryRows(Order[pm.i]))
             IN  \/ n = 0 /\ Advance(pm.samples)
                 \/ /\ n > 0
                    /\ \E ret \in {Success, InsufficientSize} :
                          IF AcceptsProbe(ret)
                            THEN pm' = [pm EXCEPT !.pc = "fill", !.count = n]
                            ELSE pm' = [pm EXCEPT !.pc = "return", !.rc = 1]
       \/ Fails
    /\ UNCHANGED <<dev, answer, recent, changes>>

\* Mutant of Samples: as many as the probe said, whatever was filled in; what
\* was not is PID numbers nobody wrote.
SamplesOfProbe(rows, n) ==
    IF Cardinality(DOMAIN rows) = n THEN rows
    ELSE LET more == CHOOSE P \in SUBSET PID : Cardinality(P) = n /\ DOMAIN rows \subseteq P
         IN  [p \in more |-> IF p \in DOMAIN rows THEN rows[p] ELSE 0]

\* As many samples as the second call says.
Samples(rows, n) == rows

\* The samples, into a buffer for as many as the probe said: with more the
\* library refuses.
Fill ==
    LET g == Order[pm.i]
    IN  /\ pm.pc = "fill"
        /\ \/ /\ Succeeds
              /\ Reload
              /\ \/ /\ Cardinality(DOMAIN LibraryRows(g)) <= pm.count
                    /\ Advance([pm.samples EXCEPT ![g] = Samples(LibraryRows(g), pm.count)])
                 \/ /\ Cardinality(DOMAIN LibraryRows(g)) > pm.count
                    /\ pm' = [pm EXCEPT !.pc = "return", !.rc = 1]
           \/ Fails
        /\ UNCHANGED <<dev, answer, recent, changes>>

\* Render: the rows by GPU and PID.
Render ==
    /\ pm.pc = "render"
    /\ \/ Succeeds /\ Goto("return") /\ UNCHANGED lib
       \/ Fails
    /\ UNCHANGED <<dev, answer, recent, changes>>

\* The deferred calls, and the exit status.
Return ==
    /\ pm.pc = "return"
    /\ answer' = [ok |-> pm.rc = 0,
                  rows |-> IF pm.rc = 0 THEN pm.samples ELSE Nothing.rows]
    /\ lib' = Closed
    /\ pm' = Idle
    /\ recent' = [g \in GPU |-> {}]
    /\ UNCHANGED <<dev, changes, faults>>

-----------------------------------------------------------------------------

\* The control plane changes a row.
Change ==
    /\ changes < MaxChanges
    /\ Control!Next
    /\ dev' # dev
    /\ recent' = [g \in GPU |-> IF Asked THEN recent[g] \cup {dev'[g].util} ELSE recent[g]]
    /\ changes' = changes + 1
    /\ UNCHANGED <<lib, pm, answer, faults>>

Collect ==
    \/ Open
    \/ InitLibrary
    \/ DeviceCount
    \/ DeviceHandle
    \/ Probe
    \/ Fill
    \/ Render
    \/ Return

Next == (\E args \in Arguments : Call(args)) \/ Delegated \/ Collect \/ Change

\* A wrapper that was called goes on.
Spec == Init /\ [][Next]_vars /\ WF_vars(Delegated \/ Collect)

-----------------------------------------------------------------------------
(* Properties. *)

\* The collector stays within the GPUs there are and the rows they can have, and
\* its library is initialized only while it is open (Collect).
TypeOK ==
    /\ dev \in [GPU -> Device]
    /\ pm.pc \in {"idle", "delegated", "open", "init", "count", "handle", "probe",
                  "fill", "render", "return"}
    /\ pm.pc \in {"handle", "probe", "fill"} => pm.i \in DOMAIN Order
    /\ pm.count \in 0 .. Cardinality(PID)
    /\ pm.samples \in [GPU -> Column]
    /\ lib.init => lib.open

\* Whatever the control plane does between the two calls for a GPU and between
\* the GPUs, an answer is made of whole tables that were true after the call
\* began, or it is an error (Collect, Render).
Promise == INSTANCE PmonPromise WITH
    GPU <- GPU, table <- Tables, phase <- IF Asked THEN "asked" ELSE "idle",
    recent <- recent, answer <- answer

KeepsPromise == Promise!Spec

\* A table that grows under the collector makes one call fail, never all of
\* them: when the rows and the library are left in peace, pmon answers.
PmonRecovers == <>[](pm.pc = "return" => pm.rc = 0)
=============================================================================
