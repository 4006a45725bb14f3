------------------------------ MODULE GpuState ------------------------------
(***************************************************************************)
(* The VRAM accounting that every part of fake-nvidia shares, as operators *)
(* on one device record: the base device that a configuration composes     *)
(* (internal/config), what nvidia-smi shows of a device                    *)
(* (internal/control/observe.go), and the guard and the result of each     *)
(* read-modify-write of internal/control/manager.go.                       *)
(*                                                                         *)
(* A device is [used, free, mem, util]: used and free are bytes, mem maps  *)
(* the PIDs of its process rows to MiB, util maps the same PIDs to what    *)
(* `pmon` reports about a row (its four utilizations, abstract as one      *)
(* number, 0 for an idle row).  A row's type is left out: the packaged     *)
(* `pmon` (internal/nvmlpmon) answers "C" for every row.                   *)
(***************************************************************************)
EXTENDS Integers, FiniteSetsExt

CONSTANTS
    GPU,        \* the configured devices
    PID,        \* the process identifiers in play
    MiB,        \* bytes per MiB (2^20 in the code, small here)
    MaxU64,     \* the largest uint64 (2^64-1 in the code, small here)
    Config      \* per GPU: the profile and request values, in MiB

U64 == 0 .. MaxU64

\* A process table column: the PIDs with a row, each with a value.  PIDs are
\* unique within one device.
Column == UNION { [D -> U64] : D \in SUBSET PID }

NoProcs == [p \in {} |-> 0]

Rows == [mem : Column, util : Column]

NoRows == [mem |-> NoProcs, util |-> NoProcs]

Device == [used : U64, free : U64, mem : Column, util : Column]

ASSUME UnitAssumption == MiB \in Nat \ {0} /\ MaxU64 \in Nat

-----------------------------------------------------------------------------
(* Summing the process rows. *)

ProcessMiB(mem) == SumFunction(mem)

\* What the rows really own.
OwnedBytes(mem) == ProcessMiB(mem) * MiB

\* processBytes adds the rows up in uint64.  It fails as soon as one size or a
\* partial sum does not fit; no term is negative, so it fails exactly when the
\* whole sum does not fit.
SumFits(mem) == ProcessMiB(mem) \in 0 .. MaxU64 \div MiB

ProcessBytes(mem) == OwnedBytes(mem) % (MaxU64 + 1)

\* addBytes: the sum fits, or the operation fails.
AddFits(a, b) == b <= MaxU64 - a

-----------------------------------------------------------------------------
(* The base device, internal/config. *)

\* The checks of composeDevice: a configuration that fails one is not rendered.
Composable(c) ==
    /\ c.total * MiB \in U64
    /\ c.total > c.reserved
    /\ c.used <= c.total - c.reserved
    /\ ProcessMiB(c.mem) \in 0 .. c.used

TotalBytes(g) == Config[g].total * MiB

ReservedBytes(g) == Config[g].reserved * MiB

\* composeDevice: the device as it is without runtime overrides.
BaseDevice(g) ==
    [used |-> Config[g].used * MiB,
     free |-> TotalBytes(g) - ReservedBytes(g) - Config[g].used * MiB,
     mem  |-> Config[g].mem,
     util |-> Config[g].util]

ASSUME ConfigAssumption ==
    \A g \in GPU :
        /\ Config[g].total \in Nat
        /\ Config[g].reserved \in Nat
        /\ Config[g].used \in Nat
        /\ Config[g].mem \in Column
        /\ Config[g].util \in Column
        /\ DOMAIN Config[g].util = DOMAIN Config[g].mem
        /\ Composable(Config[g])

-----------------------------------------------------------------------------
(* What the observer sees. *)

\* nvidia-smi prints memory in whole MiB, cutting the rest off, and parseMiB
\* turns the printed number back into bytes.
SmiMiB(bytes) == bytes \div MiB

ParseMiB(shown) == shown * MiB

SeenBytes(bytes) == ParseMiB(SmiMiB(bytes))

\* attachPmon: a row gets the pmon values of its PID; a row pmon does not list,
\* or every row when pmon failed, keeps the zero values attachProcesses gave it.
AttachPmon(mem, util, pmonOK) ==
    [p \in DOMAIN mem |-> IF pmonOK /\ p \in DOMAIN util THEN util[p] ELSE 0]

-----------------------------------------------------------------------------
(* The operations of the manager on the device d it has observed: when one  *)
(* goes through, and what it asks nvml-mock-ctl to store.                    *)

CanSetUsed(d, bytes) ==
    /\ AddFits(d.used, d.free)
    /\ bytes <= d.used + d.free
    /\ SumFits(d.mem)
    /\ bytes >= ProcessBytes(d.mem)

\* Mutant of SetUsed: free keeps its value.
SetUsedForgetsFree(d, bytes) == [d EXCEPT !.used = bytes]

SetUsed(d, bytes) ==
    [d EXCEPT !.used = bytes, !.free = d.used + d.free - bytes]

\* Mutant of CanReserve: the check of the locked state is missing.
ReserveUnchecked(d, delta) == AddFits(d.used, delta)

CanReserve(d, delta) ==
    /\ delta <= d.free
    /\ AddFits(d.used, delta)

\* Mutant of Reserve: free keeps its value.
ReserveForgetsFree(d, delta) == [d EXCEPT !.used = d.used + delta]

Reserve(d, delta) ==
    [d EXCEPT !.used = d.used + delta, !.free = d.free - delta]

\* Mutants of CanRelease: without the check against the rows, and without any.
ReleaseIgnoresProcesses(d, delta) == delta <= d.used /\ AddFits(d.free, delta)

ReleaseUnchecked(d, delta) == AddFits(d.free, delta)

CanRelease(d, delta) ==
    /\ SumFits(d.mem)
    /\ ProcessBytes(d.mem) <= d.used
    /\ delta <= d.used - ProcessBytes(d.mem)
    /\ AddFits(d.free, delta)

\* Mutant of Release: the bytes are not given back to free.
ReleaseForgetsFree(d, delta) == [d EXCEPT !.used = d.used - delta]

Release(d, delta) ==
    [d EXCEPT !.used = d.used - delta, !.free = d.free + delta]

\* rebaseProcesses: the caller's changes, from the rows it saw (before) to the
\* rows it wants (desired).
SameRow(t, u, p) == t.mem[p] = u.mem[p] /\ t.util[p] = u.util[p]

Removed(before, desired) == DOMAIN before.mem \ DOMAIN desired.mem

Changed(before, desired) ==
    { p \in DOMAIN before.mem \cap DOMAIN desired.mem :
        ~ SameRow(before, desired, p) }

Added(before, desired) == DOMAIN desired.mem \ DOMAIN before.mem

\* A row the caller removes or changes must still be as the caller saw it; a
\* row it adds must still be missing.
CanRebase(before, desired, current) ==
    /\ \A p \in Removed(before, desired) \cup Changed(before, desired) :
          p \in DOMAIN current.mem /\ SameRow(current, before, p)
    /\ Added(before, desired) \cap DOMAIN current.mem = {}

RebaseColumn(before, desired, curCol, desCol) ==
    [p \in (DOMAIN curCol \ Removed(before, desired))
             \cup Added(before, desired) |->
        IF p \in Changed(before, desired) \cup Added(before, desired)
            THEN desCol[p] ELSE curCol[p]]

\* Mutant of Rebase: the caller's values for every row.
RebaseKeepsOldUtils(before, desired, current) ==
    [mem  |-> RebaseColumn(before, desired, current.mem, desired.mem),
     util |-> [p \in DOMAIN RebaseColumn(before, desired, current.mem,
                                          desired.mem) |->
                  IF p \in DOMAIN desired.util THEN desired.util[p]
                                                ELSE current.util[p]]]

\* The rows of current with the caller's changes applied.
Rebase(before, desired, current) ==
    [mem  |-> RebaseColumn(before, desired, current.mem, desired.mem),
     util |-> RebaseColumn(before, desired, current.util, desired.util)]

\* reconcileProcessesFromState and SetProcessesReconciled: what is not owned
\* by a row stays used, what is not visible of the total stays reserved.
NonProcessUsed(d) == d.used - ProcessBytes(d.mem)

Reserved(d, total) ==
    IF d.used + d.free <= total THEN total - (d.used + d.free) ELSE 0

\* Mutant of CanReconcile: the rows need not fit.
ReconcileUnchecked(d, total, rows) == SumFits(d.mem) /\ SumFits(rows.mem)

CanReconcile(d, total, rows) ==
    /\ SumFits(d.mem)
    /\ ProcessBytes(d.mem) <= d.used
    /\ AddFits(d.used, d.free)
    /\ SumFits(rows.mem)
    /\ Reserved(d, total) <= total
    /\ NonProcessUsed(d) <= total - Reserved(d, total)
    /\ ProcessBytes(rows.mem)
         <= total - Reserved(d, total) - NonProcessUsed(d)

\* Mutants of Reconcile: used is what the rows own; free ignores the reserve.
ReconcileForgetsSystem(d, total, rows) ==
    [used |-> ProcessBytes(rows.mem),
     free |-> total - Reserved(d, total) - ProcessBytes(rows.mem),
     mem  |-> rows.mem,
     util |-> rows.util]

ReconcileForgetsReserve(d, total, rows) ==
    LET used == NonProcessUsed(d) + ProcessBytes(rows.mem)
    IN  [used |-> used, free |-> total - used,
         mem |-> rows.mem, util |-> rows.util]

Reconcile(d, total, rows) ==
    LET used == NonProcessUsed(d) + ProcessBytes(rows.mem)
    IN  [used |-> used,
         free |-> total - Reserved(d, total) - used,
         mem  |-> rows.mem,
         util |-> rows.util]

-----------------------------------------------------------------------------
(* Well-formed records. *)

\* Used, free and reserved VRAM of device record d fit into GPU g.
Fits(d, g) == d.used + d.free + ReservedBytes(g) <= TotalBytes(g)

\* Device d reports at least the VRAM that its rows own as used.
Covered(d) == ProcessMiB(d.mem) \in Nat /\ OwnedBytes(d.mem) <= d.used

\* Both columns of a table list the same PIDs.
SamePIDs(t) == DOMAIN t.util = DOMAIN t.mem
=============================================================================
