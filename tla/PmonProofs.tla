----------------------------- MODULE PmonProofs -----------------------------
(***************************************************************************)
(* Pmon stays within its types and implements PmonPromise, for any number  *)
(* of GPUs and PIDs and whatever the control plane and the library do.     *)
(***************************************************************************)
EXTENDS Pmon, GpuStateProofs, FiniteSetTheorems

-----------------------------------------------------------------------------
(* The devices, as AtomicControl changes them. *)

\* Every device fits its GPU and covers its rows.
DevicesOK ==
    /\ dev \in [GPU -> Device]
    /\ \A g \in GPU : Fits(dev[g], g) /\ Covered(dev[g]) /\ SamePIDs(dev[g])

\* The instance's accounting operators are the module's own.
LEMMA SameSum ==
    ASSUME NEW mem
    PROVE  /\ Control!OwnedBytes(mem) = OwnedBytes(mem)
           /\ Control!SumFits(mem) = SumFits(mem)
<1>1. Control!ProcessMiB(mem) = ProcessMiB(mem)
  BY DEF Control!ProcessMiB, ProcessMiB, Control!SumFunction, SumFunction,
         Control!SumFunctionOnSet, SumFunctionOnSet,
         Control!FoldFunctionOnSet, FoldFunctionOnSet,
         Control!MapThenFoldSet, MapThenFoldSet
<1> QED
  BY <1>1 DEF Control!OwnedBytes, OwnedBytes, Control!SumFits, SumFits

\* What one device is replaced by.
LEMMA DeviceStep ==
    ASSUME DevicesOK, NEW g \in GPU, NEW d \in Device,
           d.used + d.free = dev[g].used + dev[g].free,
           Covered(d), SamePIDs(d), dev' = [dev EXCEPT ![g] = d]
    PROVE  DevicesOK'
<1>1. /\ dev' \in [GPU -> Device]
      /\ \A h \in GPU : dev'[h] = IF h = g THEN d ELSE dev[h]
  BY DEF DevicesOK
<1>2. Fits(d, g)
  BY DEF DevicesOK, Fits
<1> QED
  BY <1>1, <1>2 DEF DevicesOK

\* What is known of a device's byte counts.
LEMMA DeviceBytes ==
    ASSUME DevicesOK, NEW g \in GPU
    PROVE  /\ dev[g] \in Device
           /\ dev[g].used \in Nat /\ dev[g].free \in Nat
           /\ OwnedBytes(dev[g].mem) \in Nat
           /\ OwnedBytes(dev[g].mem) <= dev[g].used
<1>1. dev[g] \in Device /\ ProcessMiB(dev[g].mem) \in Nat
  BY DEF DevicesOK, Covered
<1>2. dev[g].used \in Nat /\ dev[g].free \in Nat
  BY <1>1, UnitAssumption DEF Device, U64
<1>3. OwnedBytes(dev[g].mem) \in Nat
  BY <1>1, UnitAssumption DEF OwnedBytes
<1> QED
  BY <1>1, <1>2, <1>3 DEF DevicesOK, Covered

\* Byte counts with the sum of those of a device that fits.
LEMMA PoolBounds ==
    ASSUME DevicesOK, NEW g \in GPU, NEW used \in Nat, NEW free \in Nat,
           used + free = dev[g].used + dev[g].free
    PROVE  used \in U64 /\ free \in U64
<1>1. ReservedBytes(g) \in Nat /\ TotalBytes(g) \in Nat
  BY ConfigSizes
<1>2. used + free + ReservedBytes(g) <= TotalBytes(g)
  BY <1>1, DeviceBytes DEF DevicesOK, Fits
<1> QED
  BY <1>2, FitsBounds

\* A memory operation moves bytes between used and free.
LEMMA UseKeepsDevices ==
    ASSUME DevicesOK, NEW g \in GPU, NEW used, Control!Use(g, used)
    PROVE  DevicesOK'
<1> DEFINE free == Control!Pool(g) - used
           d == [dev[g] EXCEPT !.used = used, !.free = free]
<1>1. Control!Pool(g) = dev[g].used + dev[g].free
  BY DEF Control!Pool
<1>2. used \in OwnedBytes(dev[g].mem) .. (dev[g].used + dev[g].free)
  BY <1>1, SameSum DEF Control!Use
<1>3. dev' = [dev EXCEPT ![g].used = used, ![g].free = free]
  BY DEF Control!Use
<1>4. /\ used \in Nat /\ free \in Nat /\ OwnedBytes(dev[g].mem) <= used
      /\ used + free = dev[g].used + dev[g].free
  BY <1>1, <1>2, DeviceBytes
<1> HIDE DEF free
<1>5. used \in U64 /\ free \in U64
  BY <1>4, PoolBounds
<1>6. dev' = [dev EXCEPT ![g] = d]
  BY <1>3
<1>7. /\ d \in Device /\ d.used = used /\ d.free = free
      /\ d.mem = dev[g].mem /\ d.util = dev[g].util
  BY <1>5, DeviceBytes DEF Device
<1> HIDE DEF d
<1>8. Covered(d) /\ SamePIDs(d)
  BY <1>4, <1>7 DEF DevicesOK, Covered, SamePIDs
<1> QED
  BY <1>4, <1>6, <1>7, <1>8, DeviceStep

\* A process operation gives a device new rows.
LEMMA OwnKeepsDevices ==
    ASSUME DevicesOK, NEW g \in GPU, NEW mem \in Column, NEW util \in Column,
           DOMAIN util = DOMAIN mem, Control!Own(g, mem, util)
    PROVE  DevicesOK'
<1> DEFINE used == dev[g].used - Control!OwnedBytes(dev[g].mem)
                     + Control!OwnedBytes(mem)
           free == Control!Pool(g) - used
           d == [used |-> used, free |-> free, mem |-> mem, util |-> util]
<1>1. /\ Control!SumFits(mem) /\ used <= Control!Pool(g)
      /\ dev' = [dev EXCEPT ![g] = d]
  BY DEF Control!Own
<1>2. SumFits(mem)
  BY <1>1, SameSum
<1>3. Control!Pool(g) = dev[g].used + dev[g].free
  BY DEF Control!Pool
<1>4. ProcessMiB(mem) \in Nat /\ OwnedBytes(mem) \in Nat
  BY <1>2, ProcessBytesExact
<1>5. used = dev[g].used - OwnedBytes(dev[g].mem) + OwnedBytes(mem)
  BY SameSum
<1>6. /\ OwnedBytes(dev[g].mem) \in Nat /\ dev[g].used \in Nat
      /\ OwnedBytes(dev[g].mem) <= dev[g].used /\ dev[g].free \in Nat
  BY DeviceBytes
<1> HIDE DEF used
<1>7. /\ used \in Nat /\ free \in Nat /\ OwnedBytes(mem) <= used
      /\ used + free = dev[g].used + dev[g].free
  BY <1>1, <1>3, <1>4, <1>5, <1>6
<1> HIDE DEF free
<1>8. used \in U64 /\ free \in U64
  BY <1>7, PoolBounds
<1>9. d \in Device
  BY <1>8 DEF Device
<1>10. Covered(d) /\ SamePIDs(d)
  BY <1>4, <1>7 DEF Covered, SamePIDs
<1> QED
  BY <1>1, <1>7, <1>9, <1>10, DeviceStep

\* A column with one value more or changed, and one with one less.
LEMMA WithColumn ==
    ASSUME NEW col \in Column, NEW p \in PID, NEW v \in U64
    PROVE  /\ Control!With(col, p, v) \in Column
           /\ DOMAIN Control!With(col, p, v) = DOMAIN col \cup {p}
           /\ Control!Without(col, p) \in Column
           /\ DOMAIN Control!Without(col, p) = DOMAIN col \ {p}
<1>1. DOMAIN col \subseteq PID /\ col \in [DOMAIN col -> U64]
  BY ColumnElim
<1>2. /\ Control!With(col, p, v) \in [DOMAIN col \cup {p} -> U64]
      /\ DOMAIN col \cup {p} \in SUBSET PID
  BY <1>1 DEF Control!With
<1>3. /\ Control!Without(col, p) \in [DOMAIN col \ {p} -> U64]
      /\ DOMAIN col \ {p} \in SUBSET PID
  BY <1>1 DEF Control!Without
<1> QED
  BY <1>2, <1>3, ColumnIntro

\* Every operation of the control plane leaves devices that fit.
LEMMA ControlKeepsDevices ==
    ASSUME DevicesOK, Control!Next
    PROVE  DevicesOK'
<1>1. PICK g \in GPU :
        \/ Control!MemoryOperation(g)
        \/ \E p \in PID : \/ Control!AddProcess(g, p)
                          \/ Control!UpdateProcess(g, p)
                          \/ Control!RemoveProcess(g, p)
        \/ Control!ReplaceProcesses(g)
  BY DEF Control!Next
<1> DEFINE mem == dev[g].mem
           util == dev[g].util
<1>2. mem \in Column /\ util \in Column /\ DOMAIN util = DOMAIN mem
  BY DeviceBytes DEF Device, DevicesOK, SamePIDs
<1>3. CASE Control!MemoryOperation(g)
  BY <1>3, UseKeepsDevices DEF Control!MemoryOperation
<1>4. ASSUME NEW p \in PID, NEW m \in U64, NEW u \in U64,
             Control!Own(g, Control!With(mem, p, m), Control!With(util, p, u))
      PROVE  DevicesOK'
  <2>1. /\ Control!With(mem, p, m) \in Column
        /\ DOMAIN Control!With(mem, p, m) = DOMAIN mem \cup {p}
    BY <1>2, WithColumn
  <2>2. /\ Control!With(util, p, u) \in Column
        /\ DOMAIN Control!With(util, p, u) = DOMAIN util \cup {p}
    BY <1>2, WithColumn
  <2> QED
    BY <1>2, <1>4, <2>1, <2>2, OwnKeepsDevices
<1>5. ASSUME NEW p \in PID, Control!AddProcess(g, p)
      PROVE  DevicesOK'
  BY <1>4, <1>5, PmonAssumption DEF Control!AddProcess
<1>6. ASSUME NEW p \in PID, Control!UpdateProcess(g, p)
      PROVE  DevicesOK'
  <2>1. p \in DOMAIN mem /\ mem[p] \in U64 /\ util[p] \in U64
    BY <1>2, <1>6, ColumnElim DEF Control!UpdateProcess
  <2> QED
    BY <1>4, <1>6, <2>1, PmonAssumption DEF Control!UpdateProcess
<1>7. ASSUME NEW p \in PID, Control!RemoveProcess(g, p)
      PROVE  DevicesOK'
  <2>1. 0 \in U64
    BY UnitAssumption DEF U64
  <2>2. /\ Control!Without(mem, p) \in Column
        /\ Control!Without(util, p) \in Column
        /\ DOMAIN Control!Without(util, p) = DOMAIN Control!Without(mem, p)
    <3>1. /\ Control!Without(mem, p) \in Column
          /\ DOMAIN Control!Without(mem, p) = DOMAIN mem \ {p}
      BY <1>2, <2>1, WithColumn
    <3>2. /\ Control!Without(util, p) \in Column
          /\ DOMAIN Control!Without(util, p) = DOMAIN util \ {p}
      BY <1>2, <2>1, WithColumn
    <3> QED
      BY <1>2, <3>1, <3>2
  <2> QED
    BY <1>7, <2>2, OwnKeepsDevices DEF Control!RemoveProcess
<1>8. CASE Control!ReplaceProcesses(g)
  <2>1. PICK P \in SUBSET PID, m \in MiBs :
           Control!Own(g, [p \in P |-> m], [p \in P |-> 0])
    BY <1>8 DEF Control!ReplaceProcesses
  <2>2. m \in U64 /\ 0 \in U64
    BY PmonAssumption, UnitAssumption DEF U64
  <2>3. [p \in P |-> m] \in Column /\ [p \in P |-> 0] \in Column
    BY <2>2, ColumnIntro
  <2> QED
    BY <2>1, <2>3, OwnKeepsDevices
<1> QED
  BY <1>1, <1>3, <1>5, <1>6, <1>7, <1>8

-----------------------------------------------------------------------------
(* The collector. *)

\* The wrapper's steps.
Places == {"idle", "delegated", "open", "init", "count", "handle", "probe",
           "fill", "render", "return"}

\* The wrapper's state.
Wrapper ==
    [pc : Places, i : Nat, count : 0 .. Cardinality(PID),
     samples : [GPU -> Column], rc : {0, 1}]

\* The library's state.
Library ==
    [open : BOOLEAN, init : BOOLEAN, rows : [GPU -> Column \cup {<<>>}]]

\* Where no GPU has been asked for yet.
Starting == {"open", "init", "count"}

\* Where the library has a table for every GPU.
Reading == {"count", "handle", "probe", "fill", "render"}

\* Where one GPU is being asked for.
Working == {"handle", "probe", "fill"}

\* The GPUs that the collector is done with have a table of the question's time.
Collected(p) ==
    \A j \in DOMAIN Order :
        j < p.i => p.samples[Order[j]] \in recent[Order[j]]

\* The wrapper p goes with the library l and with the tables since the question.
CollectorOK(p, l) ==
    /\ p \in Wrapper
    /\ l \in Library
    /\ l.init => l.open
    /\ p.pc = "init" => l.open
    /\ p.pc \in Starting => p.i = 0 /\ p.samples = NoSamples /\ p.rc = 0
    /\ p.pc \in Working => p.i \in DOMAIN Order
    /\ p.pc = "render" => p.i > Len(Order)
    /\ p.pc \in Reading =>
          /\ p.rc = 0
          /\ \A g \in GPU : l.rows[g] \in recent[g]
          /\ \A g \in GPU : p.samples[g] = NoProcs \/ p.samples[g] \in recent[g]
          /\ Collected(p)
    /\ p.pc = "return" /\ p.rc = 0 =>
          \A g \in GPU : p.samples[g] \in recent[g]

\* The inductive invariant.
PmonInv ==
    /\ DevicesOK
    /\ recent \in [GPU -> SUBSET Column]
    /\ Asked => \A g \in GPU : Table(g) \in recent[g]
    /\ CollectorOK(pm, lib)

\* The GPUs are numbered from 1.
LEMMA OrderFacts ==
    /\ Len(Order) \in Nat /\ DOMAIN Order = 1 .. Len(Order)
    /\ \A j \in DOMAIN Order : Order[j] \in GPU
    /\ \A g \in GPU : \E j \in DOMAIN Order : Order[j] = g
BY PmonAssumption

\* There are tables to start with.
LEMMA StartFacts ==
    /\ NoSamples \in [GPU -> Column]
    /\ \A g \in GPU : NoSamples[g] = NoProcs
    /\ Closed \in Library
    /\ 0 \in 0 .. Cardinality(PID)
<1>1. Cardinality(PID) \in Nat
  BY PmonAssumption, FS_CardinalityType
<1> QED
  BY <1>1, NoProcsColumn DEF NoSamples, Closed, Library

\* The idle wrapper, and one that has just been called.
LEMMA IdleOK ==
    ASSUME NEW where \in {"idle", "delegated", "open"}
    PROVE  CollectorOK([Idle EXCEPT !.pc = where], Closed)
<1> DEFINE p == [Idle EXCEPT !.pc = where]
<1>1. /\ p \in Wrapper /\ p.pc = where /\ p.i = 0 /\ p.samples = NoSamples
      /\ p.rc = 0
  BY StartFacts DEF Idle, Wrapper, Places
<1>2. Closed \in Library /\ ~ Closed.init
  BY StartFacts DEF Closed
<1> HIDE DEF p
<1>3. /\ p.pc \notin Working /\ p.pc \notin Reading
      /\ p.pc \notin {"init", "render", "return"}
  BY <1>1 DEF Working, Reading
<1>4. CollectorOK(p, Closed)
  BY <1>1, <1>2, <1>3 DEF CollectorOK
<1> QED
  BY <1>4 DEF p

\* At first nobody has asked.
LEMMA InitPmon == Init => PmonInv
<1> SUFFICES ASSUME Init PROVE PmonInv
  OBVIOUS
<1>1. dev = [g \in GPU |-> BaseDevice(g)]
  BY DEF Init, Control!Init, Control!BaseDevice, BaseDevice, Control!TotalBytes,
         TotalBytes, Control!ReservedBytes, ReservedBytes
<1>2. DevicesOK
  BY <1>1, BaseDeviceFits DEF DevicesOK
<1>3. Idle = [Idle EXCEPT !.pc = "idle"]
  BY DEF Idle
<1>4. CollectorOK(pm, lib)
  BY <1>3, IdleOK DEF Init
<1>5. ~ Asked
  BY DEF Init, Asked, Idle
<1> QED
  BY <1>2, <1>4, <1>5 DEF Init, PmonInv

\* A step of the collector that leaves everything else alone.
LEMMA CollectorStep ==
    ASSUME PmonInv, Asked, CollectorOK(pm', lib'), UNCHANGED <<dev, recent>>
    PROVE  PmonInv'
<1>1. CollectorOK(pm, lib)'
  BY DEF CollectorOK, Collected
<1> QED
  BY <1>1 DEF PmonInv, DevicesOK, Table

\* A call fails, or a table has outgrown its buffer.
LEMMA ErrorOK ==
    ASSUME PmonInv, NEW l, CollectorOK(pm, l)
    PROVE  CollectorOK([pm EXCEPT !.pc = "return", !.rc = 1], l)
<1> DEFINE p == [pm EXCEPT !.pc = "return", !.rc = 1]
<1>1. "return" \in Places /\ 1 \in {0, 1}
  BY DEF Places
<1>2. p \in Wrapper /\ p.pc = "return" /\ p.rc = 1
  BY <1>1 DEF CollectorOK, Wrapper
<1> HIDE DEF p
<1>3. p.pc \notin Starting /\ p.pc \notin Working /\ p.pc \notin Reading
  BY <1>2 DEF Starting, Working, Reading
<1>4. CollectorOK(p, l)
  BY <1>2, <1>3 DEF CollectorOK
<1> QED
  BY <1>4 DEF p

\* A call that fails ends the collection.
LEMMA FailsOK == ASSUME PmonInv, Fails PROVE CollectorOK(pm', lib')
BY ErrorOK DEF Fails, PmonInv

\* The fields of the wrapper and of the library.
LEMMA CollectorFields ==
    ASSUME PmonInv
    PROVE  /\ pm \in Wrapper /\ pm.i \in Nat /\ pm.samples \in [GPU -> Column]
           /\ pm.count \in 0 .. Cardinality(PID)
           /\ lib \in Library
           /\ recent \in [GPU -> SUBSET Column]
BY DEF PmonInv, CollectorOK, Wrapper

\* The library has the tables that it had, or reads the present ones.
LEMMA LibraryOK ==
    ASSUME PmonInv, Asked, pm.pc \in Reading, Reload
    PROVE  /\ CollectorOK(pm, lib')
           /\ \A g \in GPU :
                 lib'.rows[g] \in recent[g] /\ lib'.rows[g] \in Column
<1>1. \A g \in GPU : Table(g) \in recent[g] /\ Table(g) \in Column
  BY DEF PmonInv, DevicesOK, Table, Device
<1>2. CASE UNCHANGED lib
  BY <1>2 DEF PmonInv, CollectorOK
<1>3. CASE lib' = [lib EXCEPT !.rows = Tables]
  <2>1. /\ Tables \in [GPU -> Column \cup {<<>>}]
        /\ \A g \in GPU : Tables[g] = Table(g)
    BY <1>1 DEF Tables
  <2>2. /\ lib' \in Library /\ lib'.rows = Tables
        /\ lib'.open = lib.open /\ lib'.init = lib.init
    BY <1>3, <2>1, CollectorFields DEF Library
  <2>3. \A g \in GPU : lib'.rows[g] \in recent[g] /\ lib'.rows[g] \in Column
    BY <1>1, <2>1, <2>2
  <2>4. CollectorOK(pm, lib')
    BY <2>2, <2>3 DEF PmonInv, CollectorOK
  <2> QED
    BY <2>3, <2>4
<1> QED
  BY <1>2, <1>3 DEF Reload

\* The loop goes on to the next GPU, or to the end.
LEMMA AdvanceOK ==
    ASSUME PmonInv, NEW l, CollectorOK(pm, l),
           pm.pc \in {"count", "probe", "fill"},
           NEW samples \in [GPU -> Column],
           \A g \in GPU : samples[g] = NoProcs \/ samples[g] \in recent[g],
           \A j \in DOMAIN Order :
              j <= pm.i => samples[Order[j]] \in recent[Order[j]],
           Advance(samples)
    PROVE  CollectorOK(pm', l)
<1>1. NextGPU(pm.i) \in {"render", "handle"} /\ NextGPU(pm.i) \in Places
  BY DEF NextGPU, Places
<1>2. pm \in Wrapper /\ pm.i \in Nat /\ pm.i + 1 \in Nat
  BY CollectorFields
<1>3. /\ pm' \in Wrapper /\ pm'.pc = NextGPU(pm.i) /\ pm'.i = pm.i + 1
      /\ pm'.samples = samples /\ pm'.rc = pm.rc
  <2>1. pm' = [pm EXCEPT !.pc = NextGPU(pm.i), !.i = pm.i + 1, !.count = 0,
                         !.samples = samples]
    BY <1>2 DEF Advance, Wrapper
  <2> QED
    BY <1>1, <1>2, <2>1, StartFacts DEF Wrapper
<1>4. pm'.pc \notin Starting /\ pm'.pc \notin {"init", "return"}
  BY <1>1, <1>3 DEF Starting
<1>5. pm'.pc \in Working => pm'.i \in DOMAIN Order
  BY <1>1, <1>2, <1>3, OrderFacts DEF NextGPU, Working
<1>6. pm'.pc = "render" => pm'.i > Len(Order)
  BY <1>1, <1>2, <1>3, OrderFacts DEF NextGPU
<1>7. pm.rc = 0 /\ \A g \in GPU : l.rows[g] \in recent[g]
  BY DEF CollectorOK, Reading
<1>8. Collected(pm')
  BY <1>2, <1>3, OrderFacts DEF Collected
<1> QED
  BY <1>3, <1>4, <1>5, <1>6, <1>7, <1>8 DEF CollectorOK

\* dlopen.
LEMMA OpenOK == ASSUME PmonInv, Open PROVE PmonInv'
<1>1. Asked /\ pm.pc = "open" /\ UNCHANGED <<dev, recent>>
  BY DEF Open, Asked
<1>2. CASE Fails
  BY <1>1, <1>2, FailsOK, CollectorStep
<1>3. CASE lib' = [lib EXCEPT !.open = TRUE] /\ Goto("init")
  <2>1. /\ lib' \in Library /\ lib'.open
    BY <1>3, CollectorFields DEF Library
  <2>2. "init" \in Places
    BY DEF Places
  <2>3. /\ pm' \in Wrapper /\ pm'.pc = "init" /\ pm'.i = pm.i
        /\ pm'.samples = pm.samples /\ pm'.rc = pm.rc
    BY <1>3, <2>2, CollectorFields DEF Goto, Wrapper
  <2>4. pm.i = 0 /\ pm.samples = NoSamples /\ pm.rc = 0
    BY <1>1 DEF PmonInv, CollectorOK, Starting
  <2>5. CollectorOK(pm', lib')
    BY <2>1, <2>3, <2>4 DEF CollectorOK, Working, Reading
  <2> QED
    BY <1>1, <2>5, CollectorStep
<1> QED
  BY <1>2, <1>3 DEF Open

\* nvmlInit.
LEMMA InitLibraryOK == ASSUME PmonInv, InitLibrary PROVE PmonInv'
<1>1. Asked /\ pm.pc = "init" /\ UNCHANGED <<dev, recent>>
  BY DEF InitLibrary, Asked
<1>2. CASE Fails
  BY <1>1, <1>2, FailsOK, CollectorStep
<1>3. CASE /\ lib' = [lib EXCEPT !.init = TRUE, !.rows = Tables]
           /\ Goto("count")
  <2>1. \A g \in GPU : Table(g) \in recent[g] /\ Table(g) \in Column
    BY <1>1 DEF PmonInv, DevicesOK, Table, Device
  <2>2. /\ Tables \in [GPU -> Column \cup {<<>>}]
        /\ \A g \in GPU : Tables[g] = Table(g)
    BY <2>1 DEF Tables
  <2>3. lib' \in Library /\ lib'.open = lib.open /\ lib'.rows = Tables
    BY <1>3, <2>2, CollectorFields DEF Library
  <2>4. "count" \in Places
    BY DEF Places
  <2>5. /\ pm' \in Wrapper /\ pm'.pc = "count" /\ pm'.i = pm.i
        /\ pm'.samples = pm.samples /\ pm'.rc = pm.rc
    BY <1>3, <2>4, CollectorFields DEF Goto, Wrapper
  <2>6. pm.i = 0 /\ pm.samples = NoSamples /\ pm.rc = 0 /\ lib.open
    BY <1>1 DEF PmonInv, CollectorOK, Starting
  <2>7. Collected(pm')
    BY <2>5, <2>6, OrderFacts DEF Collected
  <2>8. CollectorOK(pm', lib')
    BY <2>1, <2>2, <2>3, <2>5, <2>6, <2>7, StartFacts DEF CollectorOK, Working
  <2> QED
    BY <1>1, <2>8, CollectorStep
<1> QED
  BY <1>2, <1>3 DEF InitLibrary

\* The device count.
LEMMA DeviceCountOK == ASSUME PmonInv, DeviceCount PROVE PmonInv'
<1>1. Asked /\ pm.pc = "count" /\ UNCHANGED <<dev, recent>>
  BY DEF DeviceCount, Asked
<1>2. CASE Fails
  BY <1>1, <1>2, FailsOK, CollectorStep
<1>3. CASE Advance(pm.samples) /\ UNCHANGED lib
  <2>1. CollectorOK(pm, lib) /\ pm.i = 0 /\ pm.samples = NoSamples
    BY <1>1 DEF PmonInv, CollectorOK, Starting
  <2>2. CollectorOK(pm', lib)
    BY <1>1, <1>3, <2>1, OrderFacts, StartFacts, AdvanceOK
  <2> QED
    BY <1>1, <1>3, <2>2, CollectorStep
<1> QED
  BY <1>2, <1>3 DEF DeviceCount

\* A step within the work on one GPU, and the one to its end.
LEMMA PlaceOK ==
    ASSUME PmonInv, NEW l, CollectorOK(pm, l), pm.pc \in Working,
           NEW where \in Working, NEW n \in 0 .. Cardinality(PID),
           pm' = [pm EXCEPT !.pc = where, !.count = n]
    PROVE  CollectorOK(pm', l)
<1>1. where \in Places
  BY DEF Working, Places
<1>2. /\ pm' \in Wrapper /\ pm'.pc = where /\ pm'.i = pm.i
      /\ pm'.samples = pm.samples /\ pm'.rc = pm.rc
  BY <1>1, CollectorFields DEF Wrapper
<1>3. Collected(pm) => Collected(pm')
  BY <1>2 DEF Collected
<1> QED
  BY <1>2, <1>3 DEF CollectorOK, Working, Reading, Starting

\* A device handle.
LEMMA DeviceHandleOK == ASSUME PmonInv, DeviceHandle PROVE PmonInv'
<1>1. Asked /\ pm.pc = "handle" /\ UNCHANGED <<dev, recent>>
  BY DEF DeviceHandle, Asked
<1>2. CASE Fails
  BY <1>1, <1>2, FailsOK, CollectorStep
<1>3. CASE Goto("probe") /\ UNCHANGED lib
  <2>1. pm' = [pm EXCEPT !.pc = "probe", !.count = pm.count]
    BY <1>3, CollectorFields DEF Goto, Wrapper
  <2>2. CollectorOK(pm, lib) /\ pm.pc \in Working /\ "probe" \in Working
    BY <1>1 DEF PmonInv, Working
  <2>3. CollectorOK(pm', lib)
    BY <2>1, <2>2, CollectorFields, PlaceOK
  <2> QED
    BY <1>1, <1>3, <2>3, CollectorStep
<1> QED
  BY <1>2, <1>3 DEF DeviceHandle

\* An empty table is the table without rows.
LEMMA EmptyTable ==
    ASSUME NEW c \in Column
    PROVE  /\ Cardinality(DOMAIN c) \in 0 .. Cardinality(PID)
           /\ Cardinality(DOMAIN c) = 0 => c = NoProcs
<1>1. DOMAIN c \subseteq PID /\ c \in [DOMAIN c -> U64]
  BY ColumnElim
<1>2. IsFiniteSet(DOMAIN c) /\ Cardinality(DOMAIN c) <= Cardinality(PID)
  BY <1>1, PmonAssumption, FS_Subset
<1>3. Cardinality(DOMAIN c) \in Nat /\ Cardinality(PID) \in Nat
  BY <1>2, PmonAssumption, FS_CardinalityType
<1>4. Cardinality(DOMAIN c) = 0 => DOMAIN c = {}
  BY <1>2, FS_EmptySet
<1>5. DOMAIN c = {} => c = NoProcs
  BY <1>1 DEF NoProcs
<1> QED
  BY <1>2, <1>3, <1>4, <1>5

\* The first call for a GPU: how many samples there are.
LEMMA ProbeOK == ASSUME PmonInv, Probe PROVE PmonInv'
<1>1. Asked /\ pm.pc = "probe" /\ UNCHANGED <<dev, recent>>
  BY DEF Probe, Asked
<1>2. CASE Fails
  BY <1>1, <1>2, FailsOK, CollectorStep
<1> DEFINE g == Order[pm.i]
           c == lib'.rows[g]
           n == Cardinality(DOMAIN c)
<1>3. ASSUME Reload
      PROVE  /\ CollectorOK(pm, lib') /\ g \in GPU /\ pm.i \in DOMAIN Order
             /\ c \in recent[g] /\ c \in Column
             /\ n \in 0 .. Cardinality(PID) /\ (n = 0 => c = NoProcs)
  <2>1. pm.i \in DOMAIN Order /\ pm.pc \in Reading /\ pm.pc \in Working
    BY <1>1 DEF PmonInv, CollectorOK, Working, Reading
  <2>2. g \in GPU
    BY <2>1, OrderFacts
  <2>3. /\ CollectorOK(pm, lib') /\ c \in recent[g] /\ c \in Column
    BY <1>1, <1>3, <2>1, <2>2, LibraryOK
  <2> QED
    BY <2>1, <2>2, <2>3, EmptyTable
<1> HIDE DEF n
<1>4. ASSUME Reload, n = 0, Advance(pm.samples)
      PROVE  CollectorOK(pm', lib')
  <2>1. /\ \A h \in GPU : pm.samples[h] = NoProcs \/ pm.samples[h] \in recent[h]
        /\ Collected(pm)
    BY <1>1 DEF PmonInv, CollectorOK, Reading
  <2>2. pm.samples[g] \in recent[g]
    BY <1>3, <1>4, <2>1
  <2>3. \A j \in DOMAIN Order :
            j <= pm.i => pm.samples[Order[j]] \in recent[Order[j]]
    BY <2>1, <2>2, OrderFacts, CollectorFields DEF Collected
  <2> QED
    BY <1>1, <1>3, <1>4, <2>1, <2>3, CollectorFields, AdvanceOK
<1>5. ASSUME Reload, pm' = [pm EXCEPT !.pc = "fill", !.count = n]
      PROVE  CollectorOK(pm', lib')
  <2>1. "fill" \in Working /\ pm.pc \in Working
    BY <1>1 DEF Working
  <2> QED
    BY <1>3, <1>5, <2>1, PlaceOK
<1>6. ASSUME Reload, pm' = [pm EXCEPT !.pc = "return", !.rc = 1]
      PROVE  CollectorOK(pm', lib')
  BY <1>3, <1>6, ErrorOK
<1>7. ~ Fails => CollectorOK(pm', lib')
  BY <1>4, <1>5, <1>6 DEF Probe, LibraryRows, n
<1> QED
  BY <1>1, <1>2, <1>7, CollectorStep

\* The second call: the samples.
LEMMA FillOK == ASSUME PmonInv, Fill PROVE PmonInv'
<1>1. Asked /\ pm.pc = "fill" /\ UNCHANGED <<dev, recent>>
  BY DEF Fill, Asked
<1>2. CASE Fails
  BY <1>1, <1>2, FailsOK, CollectorStep
<1> DEFINE g == Order[pm.i]
           c == lib'.rows[g]
           samples == [pm.samples EXCEPT ![g] = c]
<1>3. ASSUME Reload
      PROVE  /\ CollectorOK(pm, lib') /\ g \in GPU /\ pm.i \in DOMAIN Order
             /\ c \in recent[g] /\ c \in Column
  <2>1. pm.i \in DOMAIN Order /\ pm.pc \in Reading
    BY <1>1 DEF PmonInv, CollectorOK, Working, Reading
  <2>2. g \in GPU
    BY <2>1, OrderFacts
  <2> QED
    BY <1>1, <1>3, <2>1, <2>2, LibraryOK
<1>4. ASSUME Reload, Advance(samples)
      PROVE  CollectorOK(pm', lib')
  <2>1. /\ \A h \in GPU : pm.samples[h] = NoProcs \/ pm.samples[h] \in recent[h]
        /\ Collected(pm)
    BY <1>1 DEF PmonInv, CollectorOK, Reading
  <2>2. /\ samples \in [GPU -> Column]
        /\ \A h \in GPU : samples[h] = IF h = g THEN c ELSE pm.samples[h]
    BY <1>3, <1>4, CollectorFields
  <2> HIDE DEF samples
  <2>3. \A h \in GPU : samples[h] = NoProcs \/ samples[h] \in recent[h]
    BY <1>3, <1>4, <2>1, <2>2
  <2>4. \A j \in DOMAIN Order :
            j <= pm.i => samples[Order[j]] \in recent[Order[j]]
    BY <1>3, <1>4, <2>1, <2>2, OrderFacts, CollectorFields DEF Collected
  <2> QED
    BY <1>1, <1>3, <1>4, <2>2, <2>3, <2>4, AdvanceOK
<1>5. ASSUME Reload, pm' = [pm EXCEPT !.pc = "return", !.rc = 1]
      PROVE  CollectorOK(pm', lib')
  BY <1>3, <1>5, ErrorOK
<1>6. ~ Fails => CollectorOK(pm', lib')
  BY <1>4, <1>5 DEF Fill, LibraryRows, Samples
<1> QED
  BY <1>1, <1>2, <1>6, CollectorStep

\* The rows are printed.
LEMMA RenderOK == ASSUME PmonInv, Render PROVE PmonInv'
<1>1. Asked /\ pm.pc = "render" /\ UNCHANGED <<dev, recent>>
  BY DEF Render, Asked
<1>2. CASE Fails
  BY <1>1, <1>2, FailsOK, CollectorStep
<1>3. CASE Goto("return") /\ UNCHANGED lib
  <2>1. "return" \in Places
    BY DEF Places
  <2>2. pm' \in Wrapper /\ pm'.pc = "return" /\ pm'.samples = pm.samples
    BY <1>3, <2>1, CollectorFields DEF Goto, Wrapper
  <2>3. Collected(pm) /\ pm.i > Len(Order)
    BY <1>1 DEF PmonInv, CollectorOK, Reading
  <2>4. \A g \in GPU : pm.samples[g] \in recent[g]
    <3>1. \A j \in DOMAIN Order : j < pm.i
      BY <2>3, OrderFacts, CollectorFields
    <3> QED
      BY <2>3, <3>1, OrderFacts DEF Collected
  <2>5. CollectorOK(pm', lib')
    BY <1>3, <2>2, <2>4 DEF PmonInv, CollectorOK, Starting, Working, Reading
  <2> QED
    BY <1>1, <2>5, CollectorStep
<1> QED
  BY <1>2, <1>3 DEF Render

\* The wrapper is called, and begins to ask or delegates.
LEMMA CallOK == ASSUME PmonInv, NEW args, Call(args) PROVE PmonInv'
<1>1. /\ pm.pc = "idle" /\ UNCHANGED <<dev, lib>>
  BY DEF Call
<1>2. \A g \in GPU : Table(g) \in Column
  BY DEF PmonInv, DevicesOK, Table, Device
<1>3. lib \in Library /\ (lib.init => lib.open)
  BY DEF PmonInv, CollectorOK
<1>4. PICK where \in {"open", "delegated"} : pm' = [Idle EXCEPT !.pc = where]
  BY DEF Call
<1>5. CollectorOK(pm', Closed)
  BY <1>4, IdleOK
<1>6. pm'.pc = where
  BY <1>4 DEF Idle
<1>7. CollectorOK(pm', lib')
  BY <1>1, <1>3, <1>5, <1>6 DEF CollectorOK, Reading
<1>8. /\ recent' \in [GPU -> SUBSET Column]
      /\ Asked' => \A g \in GPU : Table(g)' \in recent'[g]
  <2>1. CASE recent' = [g \in GPU |-> {Table(g)}]
    BY <1>1, <1>2, <2>1 DEF Table
  <2>2. CASE pm' = [Idle EXCEPT !.pc = "delegated"] /\ UNCHANGED recent
    BY <2>2 DEF Asked, Idle, PmonInv
  <2> QED
    BY <2>1, <2>2 DEF Call
<1>9. CollectorOK(pm, lib)'
  <2>1. pm'.pc \notin Reading /\ pm'.pc # "return"
    BY <1>6 DEF Reading
  <2> QED
    BY <1>7, <2>1 DEF CollectorOK
<1>10. DevicesOK'
  BY <1>1 DEF PmonInv, DevicesOK
<1> QED
  BY <1>8, <1>9, <1>10 DEF PmonInv

\* The wrapper has answered, or nvidia-smi.real has.
LEMMA ReturnOK == ASSUME PmonInv, Return \/ Delegated PROVE PmonInv'
<1>1. pm' = Idle /\ UNCHANGED dev /\ Idle = [Idle EXCEPT !.pc = "idle"]
  BY DEF Return, Delegated, Idle
<1>2. pm'.pc = "idle" /\ CollectorOK(pm', Closed)
  BY <1>1, IdleOK DEF Idle
<1>3. lib' \in Library /\ (lib'.init => lib'.open)
  <2>1. lib' = Closed \/ lib' = lib
    BY DEF Return, Delegated
  <2>2. lib \in Library /\ (lib.init => lib.open)
    BY DEF PmonInv, CollectorOK
  <2>3. Closed \in Library /\ ~ Closed.init
    BY StartFacts DEF Closed
  <2> QED
    BY <2>1, <2>2, <2>3
<1>4. CollectorOK(pm, lib)'
  BY <1>2, <1>3 DEF CollectorOK, Reading
<1>5. recent' \in [GPU -> SUBSET Column]
  BY DEF Return, Delegated, PmonInv
<1>6. ~ Asked' /\ DevicesOK'
  BY <1>1, <1>2 DEF Asked, PmonInv, DevicesOK
<1> QED
  BY <1>4, <1>5, <1>6 DEF PmonInv

\* The control plane changes a row: the tables since the question only grow.
LEMMA ChangeOK == ASSUME PmonInv, Change PROVE PmonInv'
<1>1. DevicesOK'
  BY ControlKeepsDevices DEF Change, PmonInv
<1>2. \A g \in GPU : dev'[g].util \in Column
  BY <1>1 DEF DevicesOK, Device
<1>3. /\ UNCHANGED <<pm, lib>>
      /\ recent' = [g \in GPU |-> IF Asked THEN recent[g] \cup {dev'[g].util}
                                  ELSE recent[g]]
  BY DEF Change
<1>4. /\ recent' \in [GPU -> SUBSET Column]
      /\ \A g \in GPU : recent[g] \subseteq recent'[g]
      /\ Asked => \A g \in GPU : dev'[g].util \in recent'[g]
  BY <1>2, <1>3 DEF PmonInv
<1>5. Collected(pm) => Collected(pm)'
  BY <1>3, <1>4, OrderFacts DEF Collected
<1>6. CollectorOK(pm, lib)'
  BY <1>3, <1>4, <1>5 DEF PmonInv, CollectorOK
<1> QED
  BY <1>1, <1>3, <1>4, <1>6 DEF PmonInv, Table, Asked

\* Every step keeps the invariant.
LEMMA NextPmon == PmonInv /\ [Next]_vars => PmonInv'
<1> SUFFICES ASSUME PmonInv, [Next]_vars PROVE PmonInv'
  OBVIOUS
<1>1. CASE UNCHANGED vars
  <2>1. UNCHANGED <<dev, recent, pm, lib>>
    BY <1>1 DEF vars
  <2>2. CollectorOK(pm, lib)'
    BY <2>1 DEF PmonInv, CollectorOK, Collected
  <2> QED
    BY <2>1, <2>2 DEF PmonInv, DevicesOK, Asked, Table
<1> QED
  BY <1>1, CallOK, ReturnOK, ChangeOK, OpenOK, InitLibraryOK, DeviceCountOK,
     DeviceHandleOK, ProbeOK, FillOK, RenderOK DEF Next, Collect

\* PmonInv holds in every reachable state.
THEOREM PmonState == Spec => []PmonInv
BY InitPmon, NextPmon, PTL DEF Spec

\* The collector stays within the GPUs there are and the rows they can have,
\* whatever rows appear and disappear under it (Collect).
THEOREM PmonTypes == Spec => []TypeOK
<1>1. PmonInv => TypeOK
  BY DEF PmonInv, DevicesOK, CollectorOK, Wrapper, Places, Working, TypeOK
<1> QED
  BY <1>1, PmonState, PTL

-----------------------------------------------------------------------------
(* The refinement. *)

\* Nothing has been asked at first.
LEMMA InitPromise == Init => Promise!Init
BY DEF Init, Promise!Init, Promise!Error, Nothing, Asked, Idle

\* Every step is one of PmonPromise, or changes nothing that it speaks of.
LEMMA StepPromise ==
    ASSUME PmonInv, [Next]_vars
    PROVE  [Promise!Next]_<<Tables, IF Asked THEN "asked" ELSE "idle",
                            recent, answer>>
<1> DEFINE phase == IF Asked THEN "asked" ELSE "idle"
           Same == Tables' = Tables /\ Asked' = Asked /\ recent' = recent
                     /\ answer' = answer
<1>1. Same => UNCHANGED <<Tables, phase, recent, answer>>
  OBVIOUS
<1>2. CASE UNCHANGED vars
  BY <1>2, <1>1 DEF vars, Tables, Table, Asked
<1>3. ASSUME NEW args \in Arguments, Call(args)
      PROVE  Promise!Ask \/ Same
  <2>1. CASE /\ pm' = [Idle EXCEPT !.pc = "open"]
             /\ recent' = [g \in GPU |-> {Table(g)}]
             /\ answer' = Nothing
    <3>1. Asked' /\ ~ Asked /\ Tables' = Tables
      BY <1>3, <2>1 DEF Call, Asked, Idle, Tables, Table
    <3>2. recent' = [g \in GPU |-> {Tables[g]}]
      BY <2>1 DEF Tables
    <3>3. answer' = Promise!Error
      BY <2>1 DEF Promise!Error, Nothing
    <3> QED
      BY <3>1, <3>2, <3>3 DEF Promise!Ask
  <2>2. CASE /\ pm' = [Idle EXCEPT !.pc = "delegated"]
             /\ UNCHANGED <<recent, answer>>
    BY <1>3, <2>2 DEF Call, Asked, Idle, Tables, Table
  <2> QED
    BY <1>3, <2>1, <2>2 DEF Call
<1>4. CASE Delegated
  BY <1>4, <1>1 DEF Delegated, Asked, Idle, Tables, Table
<1>5. CASE Collect /\ ~ Return
  <2>1. Asked /\ UNCHANGED <<dev, recent, answer>>
    BY <1>5 DEF Collect, Open, InitLibrary, DeviceCount, DeviceHandle, Probe,
            Fill, Render, Asked
  <2>2. Asked'
    <3>1. pm \in Wrapper
      BY CollectorFields
    <3>2. NextGPU(pm.i) \in {"render", "handle"}
      BY DEF NextGPU
    <3>3. pm'.pc \notin {"idle", "delegated"}
      BY <1>5, <3>1, <3>2
      DEF Collect, Open, InitLibrary, DeviceCount, DeviceHandle, Probe,
          Fill, Render, Fails, Goto, Advance, Wrapper
    <3> QED
      BY <3>3 DEF Asked
  <2> QED
    BY <2>1, <2>2, <1>1 DEF Tables, Table
<1>6. CASE Return
  <2>1. Asked /\ ~ Asked' /\ Tables' = Tables
    BY <1>6 DEF Return, Asked, Idle, Tables, Table
  <2>2. answer'.ok => \A g \in GPU : answer'.rows[g] \in recent[g]
    BY <1>6 DEF Return, PmonInv, CollectorOK
  <2> QED
    BY <1>6, <2>1, <2>2 DEF Return, Promise!Next, Promise!Answer
<1>7. CASE Change
  <2>1. /\ UNCHANGED <<pm, answer>> /\ Asked' = Asked
        /\ recent' = [g \in GPU |-> IF Asked THEN recent[g] \cup {dev'[g].util}
                                    ELSE recent[g]]
    BY <1>7 DEF Change, Asked
  <2>2. /\ recent \in [GPU -> SUBSET Column]
        /\ Asked => \A g \in GPU : Tables[g] \in recent[g]
    BY DEF PmonInv, Tables
  <2>3. Tables' = [g \in GPU |-> dev'[g].util]
    BY DEF Tables, Table
  <2>4. recent' = IF Asked THEN [g \in GPU |-> recent[g] \cup {Tables'[g]}]
                  ELSE recent
    BY <2>1, <2>2, <2>3
  <2>5. CASE Tables' = Tables
    <3>1. recent' = recent
      BY <2>2, <2>4, <2>5
    <3> QED
      BY <2>1, <2>5, <3>1, <1>1
  <2>6. CASE Tables' # Tables
    BY <2>1, <2>4, <2>6 DEF Promise!Next, Promise!Change
  <2> QED
    BY <2>5, <2>6
<1> QED
  BY <1>2, <1>3, <1>4, <1>5, <1>6, <1>7, <1>1 DEF Next, Promise!Next

\* An answer of pmon is made of whole tables that were true after it was asked,
\* or it is an error, however the control plane changes the rows between the
\* two library calls for a GPU and between the GPUs (Collect, Render).
THEOREM PmonKeepsPromise == Spec => KeepsPromise
<1>1. PmonInv /\ [Next]_vars
        => [Promise!Next]_<<Tables, IF Asked THEN "asked" ELSE "idle",
                            recent, answer>>
  BY StepPromise
<1> QED
  BY <1>1, InitPromise, PmonState, PTL DEF Spec, KeepsPromise, Promise!Spec

=============================================================================
