--------------------------- MODULE GpuStateProofs ---------------------------
(***************************************************************************)
(* What the accounting operators of GpuState preserve, for every value of  *)
(* the constants.  The sum ProcessMiB stays folded: all that the proofs    *)
(* need of it is what the code's overflow checks establish.                *)
(***************************************************************************)
EXTENDS GpuState, TLAPS

-----------------------------------------------------------------------------

\* nvidia-smi's cut-off to whole MiB never shows more than there is.
LEMMA SeenAtMost ==
    ASSUME NEW b \in U64
    PROVE  SeenBytes(b) \in U64 /\ SeenBytes(b) <= b
<1>1. b \in Nat /\ b \div MiB \in Nat
  BY UnitAssumption DEF U64
<1>2. (b \div MiB) * MiB \in Nat /\ (b \div MiB) * MiB <= b
  BY <1>1, UnitAssumption
<1> QED
  BY <1>1, <1>2, UnitAssumption DEF SeenBytes, ParseMiB, SmiMiB, U64

\* What is a whole number of MiB is shown exactly.
LEMMA SeenExact ==
    ASSUME NEW k \in Nat
    PROVE  SeenBytes(k * MiB) = k * MiB
BY UnitAssumption DEF SeenBytes, ParseMiB, SmiMiB

\* Rows that used VRAM covers are covered by what nvidia-smi shows of it, for
\* rows are whole MiB.
LEMMA SeenCovers ==
    ASSUME NEW b \in U64, NEW k \in Nat, k * MiB <= b
    PROVE  k * MiB <= SeenBytes(b)
<1>1. b \in Nat /\ MiB \in Nat \ {0}
  BY UnitAssumption DEF U64
<1>2. k <= b \div MiB
  BY <1>1
<1>3. k * MiB <= (b \div MiB) * MiB
  BY <1>1, <1>2
<1> QED
  BY <1>3 DEF SeenBytes, ParseMiB, SmiMiB

\* When processBytes does not fail, its uint64 result is the real sum.
LEMMA ProcessBytesExact ==
    ASSUME NEW mem, SumFits(mem)
    PROVE  /\ ProcessMiB(mem) \in Nat
           /\ OwnedBytes(mem) \in Nat
           /\ ProcessBytes(mem) = OwnedBytes(mem)
           /\ OwnedBytes(mem) <= MaxU64
<1> DEFINE k == ProcessMiB(mem)
<1>1. MiB \in Nat \ {0} /\ MaxU64 \in Nat
  BY UnitAssumption
<1>2. k \in Nat /\ k <= MaxU64 \div MiB
  BY <1>1 DEF SumFits
<1> HIDE DEF k
<1>3. k * MiB \in Nat /\ k * MiB <= MaxU64
  BY <1>1, <1>2
<1>4. (k * MiB) % (MaxU64 + 1) = k * MiB
  BY <1>1, <1>3
<1> QED
  BY <1>2, <1>3, <1>4 DEF k, OwnedBytes, ProcessBytes

\* A function with PIDs as arguments and uint64 values is a column, and back.
LEMMA ColumnIntro ==
    ASSUME NEW D \in SUBSET PID, NEW f \in [D -> U64]
    PROVE  f \in Column
BY DEF Column

\* What a member of Column gives: PIDs as arguments, uint64 values.
LEMMA ColumnElim ==
    ASSUME NEW c \in Column
    PROVE  /\ DOMAIN c \subseteq PID
           /\ c \in [DOMAIN c -> U64]
BY DEF Column

\* A device without process rows has a well-formed, empty table.
LEMMA NoProcsColumn == NoProcs \in Column /\ DOMAIN NoProcs = {}
<1>1. NoProcs \in [{} -> U64] /\ DOMAIN NoProcs = {}
  BY DEF NoProcs
<1> QED
  BY <1>1, ColumnIntro

\* The sizes of a configured GPU.
LEMMA ConfigSizes ==
    ASSUME NEW g \in GPU
    PROVE  /\ TotalBytes(g) \in U64
           /\ TotalBytes(g) \in Nat
           /\ ReservedBytes(g) \in Nat
           /\ Config[g].used * MiB \in Nat
           /\ Config[g].used * MiB + ReservedBytes(g) <= TotalBytes(g)
<1> DEFINE c == Config[g]
<1>1. /\ c.total \in Nat /\ c.reserved \in Nat /\ c.used \in Nat
      /\ c.total * MiB \in U64
      /\ c.used + c.reserved <= c.total
  BY ConfigAssumption DEF Composable
<1>2. MiB \in Nat
  BY UnitAssumption
<1>3. (c.used + c.reserved) * MiB <= c.total * MiB
  BY <1>1, <1>2
<1>4. (c.used + c.reserved) * MiB = c.used * MiB + c.reserved * MiB
  BY <1>1, <1>2
<1>5. c.used * MiB \in Nat /\ c.reserved * MiB \in Nat /\ c.total * MiB \in Nat
  BY <1>1, <1>2
<1> QED
  BY <1>1, <1>3, <1>4, <1>5 DEF TotalBytes, ReservedBytes

\* A record that fits its GPU holds uint64 byte counts.
LEMMA FitsBounds ==
    ASSUME NEW g \in GPU, NEW u \in Nat, NEW f \in Nat,
           u + f + ReservedBytes(g) <= TotalBytes(g)
    PROVE  u \in U64 /\ f \in U64
BY ConfigSizes, UnitAssumption DEF U64

\* composeDevice yields a device that fits.
LEMMA BaseDeviceFits ==
    ASSUME NEW g \in GPU
    PROVE  /\ BaseDevice(g) \in Device
           /\ Fits(BaseDevice(g), g)
           /\ SamePIDs(BaseDevice(g))
           /\ BaseDevice(g).used + BaseDevice(g).free
                = TotalBytes(g) - ReservedBytes(g)
           /\ Covered(BaseDevice(g))
<1> DEFINE used == Config[g].used * MiB
           free == TotalBytes(g) - ReservedBytes(g) - used
<1>1. /\ used \in Nat /\ free \in Nat
      /\ TotalBytes(g) \in Nat /\ ReservedBytes(g) \in Nat
      /\ used + free + ReservedBytes(g) = TotalBytes(g)
  BY ConfigSizes
<1>2. used \in U64 /\ free \in U64
  BY <1>1, FitsBounds
<1>3. /\ Config[g].mem \in Column /\ Config[g].util \in Column
      /\ DOMAIN Config[g].util = DOMAIN Config[g].mem
      /\ ProcessMiB(Config[g].mem) \in Nat
      /\ OwnedBytes(Config[g].mem) <= used
  <2>1. /\ Config[g].mem \in Column /\ Config[g].util \in Column
        /\ DOMAIN Config[g].util = DOMAIN Config[g].mem
        /\ Config[g].used \in Nat
        /\ ProcessMiB(Config[g].mem) \in 0 .. Config[g].used
    BY ConfigAssumption DEF Composable
  <2>2. ProcessMiB(Config[g].mem) * MiB <= Config[g].used * MiB
    BY <2>1, UnitAssumption
  <2> QED
    BY <2>1, <2>2 DEF OwnedBytes
<1> HIDE DEF used, free
<1>4. BaseDevice(g) = [used |-> used, free |-> free,
                       mem |-> Config[g].mem, util |-> Config[g].util]
  BY DEF BaseDevice, used, free
<1> QED
  BY <1>1, <1>2, <1>3, <1>4 DEF Device, Fits, SamePIDs, Covered

-----------------------------------------------------------------------------
(* The memory operations. *)

\* SetUsedMemory: what it stores fits the device and covers the rows that its
\* observation showed.
LEMMA SetUsedFits ==
    ASSUME NEW g \in GPU, NEW d \in Device, Fits(d, g),
           NEW bytes \in U64, CanSetUsed(d, bytes)
    PROVE  /\ SetUsed(d, bytes) \in Device
           /\ Fits(SetUsed(d, bytes), g)
           /\ SetUsed(d, bytes).mem = d.mem
           /\ SetUsed(d, bytes).util = d.util
           /\ Covered(SetUsed(d, bytes))
<1> DEFINE free == d.used + d.free - bytes
<1>1. d.used \in Nat /\ d.free \in Nat /\ bytes \in Nat
  BY UnitAssumption DEF Device, U64
<1>2. free \in Nat /\ bytes + free + ReservedBytes(g) <= TotalBytes(g)
  BY <1>1, ConfigSizes DEF CanSetUsed, Fits
<1>3. free \in U64
  BY <1>1, <1>2, FitsBounds
<1>4. SetUsed(d, bytes) = [d EXCEPT !.used = bytes, !.free = free]
  BY DEF SetUsed
<1>5. ProcessMiB(d.mem) \in Nat /\ OwnedBytes(d.mem) <= bytes
  BY ProcessBytesExact DEF CanSetUsed
<1> HIDE DEF free
<1> QED
  BY <1>2, <1>3, <1>4, <1>5 DEF Device, Fits, Covered

\* ReserveMemory: what it stores fits the device and, if the rows were covered,
\* covers them.
LEMMA ReserveFits ==
    ASSUME NEW g \in GPU, NEW d \in Device, Fits(d, g),
           NEW delta \in U64, CanReserve(d, delta)
    PROVE  /\ Reserve(d, delta) \in Device
           /\ Fits(Reserve(d, delta), g)
           /\ Reserve(d, delta).mem = d.mem
           /\ Reserve(d, delta).util = d.util
           /\ Covered(d) => Covered(Reserve(d, delta))
<1> DEFINE used == d.used + delta
           free == d.free - delta
<1>1. d.used \in Nat /\ d.free \in Nat /\ delta \in Nat
  BY UnitAssumption DEF Device, U64
<1>2. /\ used \in Nat /\ free \in Nat /\ used >= d.used
      /\ used + free + ReservedBytes(g) <= TotalBytes(g)
  BY <1>1, ConfigSizes DEF CanReserve, Fits
<1>3. used \in U64 /\ free \in U64
  BY <1>2, FitsBounds
<1>4. Reserve(d, delta) = [d EXCEPT !.used = used, !.free = free]
  BY DEF Reserve
<1>5. Covered(d) => OwnedBytes(d.mem) <= used
  <2>1. ProcessMiB(d.mem) \in Nat => OwnedBytes(d.mem) \in Nat
    BY UnitAssumption DEF OwnedBytes
  <2> QED
    BY <1>1, <1>2, <2>1 DEF Covered
<1> HIDE DEF used, free
<1> QED
  <2>1. /\ Reserve(d, delta) \in Device
        /\ Reserve(d, delta).mem = d.mem /\ Reserve(d, delta).util = d.util
        /\ Reserve(d, delta).used = used /\ Reserve(d, delta).free = free
    BY <1>3, <1>4 DEF Device
  <2> QED
    BY <1>2, <1>5, <2>1 DEF Fits, Covered

\* ReleaseMemory: what it stores fits the device, and the rows stay covered.
LEMMA ReleaseFits ==
    ASSUME NEW g \in GPU, NEW d \in Device, Fits(d, g),
           NEW delta \in U64, CanRelease(d, delta)
    PROVE  /\ Release(d, delta) \in Device
           /\ Fits(Release(d, delta), g)
           /\ Release(d, delta).mem = d.mem
           /\ Release(d, delta).util = d.util
           /\ Covered(Release(d, delta))
<1> DEFINE used == d.used - delta
           free == d.free + delta
<1>1. d.used \in Nat /\ d.free \in Nat /\ delta \in Nat
  BY UnitAssumption DEF Device, U64
<1>2. /\ ProcessMiB(d.mem) \in Nat
      /\ ProcessBytes(d.mem) = OwnedBytes(d.mem)
      /\ OwnedBytes(d.mem) \in Nat
  BY ProcessBytesExact DEF CanRelease
<1>3. /\ used \in Nat /\ free \in Nat /\ OwnedBytes(d.mem) <= used
      /\ used + free + ReservedBytes(g) <= TotalBytes(g)
  BY <1>1, <1>2, ConfigSizes DEF CanRelease, Fits
<1>4. used \in U64 /\ free \in U64
  BY <1>3, FitsBounds
<1>5. Release(d, delta) = [d EXCEPT !.used = used, !.free = free]
  BY DEF Release
<1> HIDE DEF used, free
<1> QED
  BY <1>2, <1>3, <1>4, <1>5 DEF Device, Fits, Covered

-----------------------------------------------------------------------------
(* The process operations. *)

\* Rebasing well-formed tables yields a well-formed table.
LEMMA RebaseRows ==
    ASSUME NEW before \in Rows, SamePIDs(before),
           NEW desired \in Rows, SamePIDs(desired),
           NEW current \in Rows, SamePIDs(current)
    PROVE  /\ Rebase(before, desired, current) \in Rows
           /\ SamePIDs(Rebase(before, desired, current))
<1> DEFINE D == (DOMAIN current.mem \ Removed(before, desired))
                  \cup Added(before, desired)
<1>1. /\ current.mem \in Column /\ current.util \in Column
      /\ desired.mem \in Column /\ desired.util \in Column
  BY DEF Rows
<1>2. D \in SUBSET PID
  BY <1>1, ColumnElim DEF Added
<1>3. ASSUME NEW cur \in Column, DOMAIN cur = DOMAIN current.mem,
             NEW des \in Column, DOMAIN des = DOMAIN desired.mem
      PROVE  RebaseColumn(before, desired, cur, des) \in [D -> U64]
  <2>1. cur \in [DOMAIN current.mem -> U64] /\ des \in [DOMAIN desired.mem -> U64]
    BY <1>3, ColumnElim
  <2> QED
    BY <1>3, <2>1 DEF RebaseColumn, Changed, Added, Removed
<1> HIDE DEF D
<1>4. /\ RebaseColumn(before, desired, current.mem, desired.mem) \in [D -> U64]
      /\ RebaseColumn(before, desired, current.util, desired.util) \in [D -> U64]
  BY <1>1, <1>3 DEF SamePIDs
<1> QED
  BY <1>2, <1>4, ColumnIntro DEF Rebase, Rows, SamePIDs

\* Reconciling keeps the visible pool, and used VRAM covers the rows.
LEMMA ReconcileFits ==
    ASSUME NEW g \in GPU, NEW d \in Device, Fits(d, g),
           NEW rows \in Rows, SamePIDs(rows),
           CanReconcile(d, TotalBytes(g), rows)
    PROVE  LET r == Reconcile(d, TotalBytes(g), rows)
           IN  /\ r \in Device
               /\ Fits(r, g)
               /\ SamePIDs(r)
               /\ r.used + r.free = d.used + d.free
               /\ NonProcessUsed(r) = NonProcessUsed(d)
               /\ Covered(r)
<1> DEFINE own == ProcessBytes(d.mem)
           new == ProcessBytes(rows.mem)
           used == d.used - own + new
           free == d.used + d.free - used
<1>1. d.used \in Nat /\ d.free \in Nat
  BY UnitAssumption DEF Device, U64
<1>2. /\ own \in Nat /\ new \in Nat /\ own <= d.used
      /\ ProcessMiB(rows.mem) \in Nat /\ new = OwnedBytes(rows.mem)
  BY ProcessBytesExact DEF CanReconcile
<1>3. TotalBytes(g) \in Nat /\ ReservedBytes(g) \in Nat
  BY ConfigSizes
<1>4. Reserved(d, TotalBytes(g)) = TotalBytes(g) - (d.used + d.free)
  BY <1>1, <1>3 DEF Reserved, Fits
<1>5. new <= TotalBytes(g) - Reserved(d, TotalBytes(g)) - (d.used - own)
  BY DEF CanReconcile, NonProcessUsed
<1>6. new <= d.used + d.free - (d.used - own)
  BY <1>1, <1>2, <1>3, <1>4, <1>5
<1>7. /\ used \in Nat /\ free \in Nat /\ new \in 0 .. used
      /\ used + free = d.used + d.free
      /\ used + free + ReservedBytes(g) <= TotalBytes(g)
      /\ used - new = d.used - own
  BY <1>1, <1>2, <1>3, <1>6 DEF Fits
<1>8. used \in U64 /\ free \in U64
  BY <1>7, FitsBounds
<1>9. Reconcile(d, TotalBytes(g), rows)
        = [used |-> used, free |-> free, mem |-> rows.mem, util |-> rows.util]
  BY <1>1, <1>2, <1>3, <1>4 DEF Reconcile, NonProcessUsed
<1> HIDE DEF used, free, own, new
<1>10. [used |-> used, free |-> free, mem |-> rows.mem, util |-> rows.util]
          \in Device
  BY <1>8 DEF Device, Rows
<1> QED
  BY <1>2, <1>7, <1>9, <1>10 DEF Fits, SamePIDs, NonProcessUsed, Covered, own, new

-----------------------------------------------------------------------------
(* Whole numbers of MiB, and the pool of VRAM. *)

\* A byte count that survives the way through nvidia-smi.
ShownExactly(bytes) == SeenBytes(bytes) = bytes

\* Record d accounts for all the VRAM of GPU g that is not reserved.
FullPool(d, g) ==
    /\ ShownExactly(d.used)
    /\ d.used + d.free = TotalBytes(g) - ReservedBytes(g)

\* A byte count is shown exactly just when it is a whole number of MiB.
LEMMA WholeIntro ==
    ASSUME NEW k \in Nat
    PROVE  ShownExactly(k * MiB)
BY SeenExact DEF ShownExactly

\* The number of MiB behind such a byte count.
LEMMA WholeElim ==
    ASSUME NEW n \in Nat, ShownExactly(n)
    PROVE  \E k \in Nat : n = k * MiB
<1>1. n \div MiB \in Nat
  BY UnitAssumption
<1> QED
  BY <1>1 DEF ShownExactly, SeenBytes, ParseMiB, SmiMiB

\* Sums of whole numbers of MiB, and differences that are not negative.
LEMMA WholeSum ==
    ASSUME NEW m \in Nat, ShownExactly(m), NEW n \in Nat, ShownExactly(n)
    PROVE  /\ ShownExactly(m + n)
           /\ n <= m => ShownExactly(m - n)
<1>1. PICK j \in Nat : m = j * MiB
  BY WholeElim
<1>2. PICK k \in Nat : n = k * MiB
  BY WholeElim
<1>3. MiB \in Nat \ {0}
  BY UnitAssumption
<1>4. ShownExactly(m + n)
  <2>1. j + k \in Nat /\ m + n = (j + k) * MiB
    BY <1>1, <1>2, <1>3
  <2> QED
    BY <2>1, WholeIntro
<1>5. ASSUME n <= m PROVE ShownExactly(m - n)
  <2>1. k <= j
    BY <1>1, <1>2, <1>3, <1>5
  <2>2. j - k \in Nat /\ m - n = (j - k) * MiB
    BY <1>1, <1>2, <1>3, <2>1
  <2> QED
    BY <2>2, WholeIntro
<1> QED
  BY <1>4, <1>5

\* The rows of a device own a whole number of MiB.
LEMMA RowsWhole ==
    ASSUME NEW mem, SumFits(mem)
    PROVE  ShownExactly(ProcessBytes(mem))
<1>1. ProcessMiB(mem) \in Nat /\ ProcessBytes(mem) = ProcessMiB(mem) * MiB
  BY ProcessBytesExact DEF OwnedBytes
<1> QED
  BY <1>1, WholeIntro

\* So does a configured GPU, in all and reserved.
LEMMA PoolWhole ==
    ASSUME NEW g \in GPU
    PROVE  /\ TotalBytes(g) \in Nat /\ ReservedBytes(g) \in Nat
           /\ TotalBytes(g) - ReservedBytes(g) \in Nat
           /\ ShownExactly(TotalBytes(g) - ReservedBytes(g))
<1>1. /\ TotalBytes(g) \in Nat /\ ReservedBytes(g) \in Nat
      /\ ReservedBytes(g) <= TotalBytes(g)
  BY ConfigSizes
<1>2. Config[g].total \in Nat /\ Config[g].reserved \in Nat
  BY ConfigAssumption
<1>3. ShownExactly(TotalBytes(g)) /\ ShownExactly(ReservedBytes(g))
  BY <1>2, WholeIntro DEF TotalBytes, ReservedBytes
<1> QED
  BY <1>1, <1>3, WholeSum

\* A device whose pool is full is shown exactly.
LEMMA FullPoolShown ==
    ASSUME NEW g \in GPU, NEW d \in Device, FullPool(d, g)
    PROVE  /\ d.used \in Nat /\ d.free \in Nat
           /\ SeenBytes(d.used) = d.used
           /\ SeenBytes(d.free) = d.free
<1>1. d.used \in Nat /\ d.free \in Nat
  BY UnitAssumption DEF Device, U64
<1>2. d.free = (TotalBytes(g) - ReservedBytes(g)) - d.used
  BY <1>1, PoolWhole DEF FullPool
<1>3. d.used <= TotalBytes(g) - ReservedBytes(g)
  BY <1>1, PoolWhole DEF FullPool
<1>4. ShownExactly(d.free)
  BY <1>1, <1>2, <1>3, PoolWhole, WholeSum DEF FullPool
<1> QED
  BY <1>1, <1>4 DEF FullPool, ShownExactly

\* The base device's pool is full.
LEMMA BaseFullPool ==
    ASSUME NEW g \in GPU
    PROVE  FullPool(BaseDevice(g), g)
<1>1. Config[g].used \in Nat /\ BaseDevice(g).used = Config[g].used * MiB
  BY ConfigAssumption DEF BaseDevice
<1> QED
  BY <1>1, WholeIntro, BaseDeviceFits DEF FullPool

-----------------------------------------------------------------------------
(* The operations keep the pool full. *)

\* SetUsedMemory, ReserveMemory and ReleaseMemory move bytes between used and
\* free.
LEMMA MemoryKeepsPool ==
    ASSUME NEW g \in GPU, NEW d \in Device, FullPool(d, g),
           NEW n \in U64, ShownExactly(n)
    PROVE  /\ CanSetUsed(d, n) => FullPool(SetUsed(d, n), g)
           /\ CanReserve(d, n) => FullPool(Reserve(d, n), g)
           /\ CanRelease(d, n) => FullPool(Release(d, n), g)
<1>1. /\ d.used \in Nat /\ d.free \in Nat /\ n \in Nat
      /\ TotalBytes(g) \in Nat /\ ReservedBytes(g) \in Nat
  BY UnitAssumption, PoolWhole DEF Device, U64
<1>2. ASSUME CanSetUsed(d, n) PROVE FullPool(SetUsed(d, n), g)
  <2>1. /\ SetUsed(d, n).used = n
        /\ SetUsed(d, n).free = d.used + d.free - n
    BY DEF SetUsed, Device
  <2> QED
    BY <1>1, <2>1 DEF FullPool
<1>3. ASSUME CanReserve(d, n) PROVE FullPool(Reserve(d, n), g)
  <2>1. /\ Reserve(d, n).used = d.used + n
        /\ Reserve(d, n).free = d.free - n
    BY DEF Reserve, Device
  <2> QED
    BY <1>1, <2>1, WholeSum DEF FullPool
<1>4. ASSUME CanRelease(d, n) PROVE FullPool(Release(d, n), g)
  <2>1. /\ Release(d, n).used = d.used - n
        /\ Release(d, n).free = d.free + n
    BY DEF Release, Device
  <2>2. n <= d.used
    <3>1. ProcessBytes(d.mem) \in Nat /\ n <= d.used - ProcessBytes(d.mem)
      BY <1>4, ProcessBytesExact DEF CanRelease
    <3> QED
      BY <1>1, <3>1
  <2> QED
    BY <1>1, <2>1, <2>2, WholeSum DEF FullPool
<1> QED
  BY <1>2, <1>3, <1>4

\* Reconciling charges or refunds whole rows.
LEMMA ReconcileKeepsPool ==
    ASSUME NEW g \in GPU, NEW d \in Device, Fits(d, g), FullPool(d, g),
           NEW rows \in Rows, SamePIDs(rows),
           CanReconcile(d, TotalBytes(g), rows)
    PROVE  FullPool(Reconcile(d, TotalBytes(g), rows), g)
<1> DEFINE r == Reconcile(d, TotalBytes(g), rows)
<1>1. /\ r.used + r.free = d.used + d.free
      /\ r.used = d.used - ProcessBytes(d.mem) + ProcessBytes(rows.mem)
  BY ReconcileFits DEF Reconcile, NonProcessUsed
<1>2. /\ ProcessBytes(d.mem) \in Nat /\ ProcessBytes(rows.mem) \in Nat
      /\ ProcessBytes(d.mem) <= d.used /\ d.used \in Nat
      /\ ShownExactly(ProcessBytes(d.mem)) /\ ShownExactly(ProcessBytes(rows.mem))
  <2>1. SumFits(d.mem) /\ SumFits(rows.mem) /\ ProcessBytes(d.mem) <= d.used
    BY DEF CanReconcile
  <2>2. d.used \in Nat
    BY UnitAssumption DEF Device, U64
  <2> QED
    BY <2>1, <2>2, ProcessBytesExact, RowsWhole
<1>3. /\ d.used - ProcessBytes(d.mem) \in Nat
      /\ ShownExactly(d.used - ProcessBytes(d.mem))
  <2>1. ShownExactly(d.used)
    BY DEF FullPool
  <2> QED
    BY <1>2, <2>1, WholeSum
<1>4. ShownExactly(r.used)
  BY <1>1, <1>2, <1>3, WholeSum
<1> QED
  BY <1>1, <1>4 DEF FullPool
=============================================================================
