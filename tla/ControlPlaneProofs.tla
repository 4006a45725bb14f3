------------------------- MODULE ControlPlaneProofs -------------------------
(***************************************************************************)
(* Proofs about ControlPlane, for any number of GPUs, PIDs and actors: its *)
(* invariants, for any byte counts, and then that it implements            *)
(* AtomicControl.                                                          *)
(***************************************************************************)
EXTENDS ControlPlane, GpuStateProofs

\* The observation of an actor that has not looked yet is a device record.
LEMMA BlankDevice == Blank \in Device /\ SamePIDs(Blank)
<1>1. 0 \in U64
  BY UnitAssumption DEF U64
<1> QED
  BY <1>1, NoProcsColumn DEF Blank, Device, SamePIDs

\* The rows of an actor that has not looked yet are a table.
LEMMA NoRowsTable == NoRows \in Rows /\ SamePIDs(NoRows)
BY NoProcsColumn DEF NoRows, Rows, SamePIDs

\* What the columns of a device, of a table and of an operation are.
LEMMA DeviceColumns ==
    ASSUME NEW d \in Device
    PROVE  d.mem \in Column /\ d.util \in Column
           /\ d.used \in U64 /\ d.free \in U64
BY DEF Device

\* attachPmon gives every row a value.
LEMMA AttachPmonColumn ==
    ASSUME NEW mem \in Column, NEW util \in Column, NEW ok \in BOOLEAN
    PROVE  /\ AttachPmon(mem, util, ok) \in Column
           /\ DOMAIN AttachPmon(mem, util, ok) = DOMAIN mem
<1>1. DOMAIN mem \in SUBSET PID /\ util \in [DOMAIN util -> U64]
  BY ColumnElim
<1>2. 0 \in U64
  BY UnitAssumption DEF U64
<1>3. AttachPmon(mem, util, ok) \in [DOMAIN mem -> U64]
  BY <1>1, <1>2 DEF AttachPmon
<1> QED
  BY <1>1, <1>3, ColumnIntro

\* The list a process operation wants is a table.
LEMMA DesiredRows ==
    ASSUME NEW o \in ProcessOp, NEW rows \in Rows, SamePIDs(rows),
           CanStart(o, rows)
    PROVE  Desired(o, rows) \in Rows /\ SamePIDs(Desired(o, rows))
<1> DEFINE pids == IF o.kind = "remove" THEN DOMAIN rows.mem \ {o.pid}
                                        ELSE DOMAIN rows.mem \cup {o.pid}
           Col(col, new) ==
              [p \in pids |-> IF p = o.pid /\ new # Unset THEN new ELSE col[p]]
<1>1. /\ o.pid \in PID
      /\ o.mib \in U64 \cup {Unset} /\ o.util \in U64 \cup {Unset}
      /\ o.kind = "add" => o.mib # Unset /\ o.util # Unset
  <2>1. MiBs \subseteq U64 /\ Utils \subseteq U64 /\ Unset \notin U64
    BY ControlAssumption, UnitAssumption DEF Unset, U64
  <2>2. \/ /\ o.kind = "add"
           /\ o.pid \in PID /\ o.mib \in MiBs /\ o.util \in Utils
        \/ /\ o.kind # "add" /\ o.pid \in PID
           /\ o.mib \in MiBs \cup {Unset} /\ o.util \in Utils \cup {Unset}
    BY DEF ProcessOp
  <2> QED
    BY <2>1, <2>2
<1>2. rows.mem \in Column /\ rows.util \in Column
  BY DEF Rows
<1>3. pids \in SUBSET PID
  BY <1>1, <1>2, ColumnElim
<1>4. ASSUME NEW col \in Column, DOMAIN col = DOMAIN rows.mem,
             NEW new \in U64 \cup {Unset}, o.kind = "add" => new # Unset
      PROVE  Col(col, new) \in [pids -> U64]
  <2>1. col \in [DOMAIN rows.mem -> U64]
    BY <1>4, ColumnElim
  <2> SUFFICES ASSUME NEW p \in pids
               PROVE  (IF p = o.pid /\ new # Unset THEN new ELSE col[p]) \in U64
    OBVIOUS
  <2>2. CASE p = o.pid /\ new # Unset
    BY <2>2
  <2>3. CASE ~ (p = o.pid /\ new # Unset)
    <3>1. p \in DOMAIN rows.mem
      BY <1>4, <2>3 DEF CanStart
    <3> QED
      BY <2>1, <2>3, <3>1
  <2> QED
    BY <2>2, <2>3
<1>5. Desired(o, rows) = [mem |-> Col(rows.mem, o.mib),
                          util |-> Col(rows.util, o.util)]
  BY DEF Desired
<1>6. /\ Col(rows.mem, o.mib) \in [pids -> U64]
      /\ Col(rows.util, o.util) \in [pids -> U64]
  BY <1>1, <1>2, <1>4 DEF SamePIDs
<1> HIDE DEF pids, Col
<1> QED
  BY <1>3, <1>5, <1>6, ColumnIntro DEF Rows, SamePIDs

-----------------------------------------------------------------------------
(* Steps that several actions share. *)

\* Returning from an operation, whatever happened to the devices.
LEMMA ReturnKeepsAccounting ==
    ASSUME AccountingInv, NEW a \in Actor, Return(a),
           dev' \in [GPU -> Device],
           \A g \in GPU : Fits(dev'[g], g) /\ SamePIDs(dev'[g])
    PROVE  AccountingInv'
<1> USE DEF AccountingInv
<1>1. TypeOK'
  BY BlankDevice, NoRowsTable DEF TypeOK, Return, Forget, Unlock, Steps
<1>2. TablesWellFormed'
  BY BlankDevice, NoRowsTable DEF TablesWellFormed, TypeOK, Return, Forget
<1>3. OperationKnown'
  BY DEF OperationKnown, TypeOK, Return, Forget
<1>4. ViewsFit'
  BY DEF ViewsFit, TypeOK, Return, Forget, Gpu
<1>5. NoOvercommit'
  BY DEF NoOvercommit
<1> QED
  BY <1>1, <1>2, <1>3, <1>4, <1>5

\* An operation that fails, dropping its lock, stores nothing.
LEMMA FailKeepsAccounting ==
    ASSUME AccountingInv, NEW a \in Actor, Fail(a)
    PROVE  AccountingInv'
BY ReturnKeepsAccounting
   DEF AccountingInv, Fail, TypeOK, TablesWellFormed, NoOvercommit

\* Planning a device that fits.
LEMMA PlanKeepsAccounting ==
    ASSUME AccountingInv, NEW a \in Actor, pc[a] = "decide", NEW d \in Device,
           Fits(d, Gpu(a)), SamePIDs(d), Plan(a, d)
    PROVE  AccountingInv'
<1> USE DEF AccountingInv, Plan, Goto
<1>1. TypeOK'
  BY BlankDevice, NoRowsTable DEF TypeOK, Steps
<1>2. TablesWellFormed'
  BY BlankDevice, NoRowsTable DEF TablesWellFormed, TypeOK
<1>3. OperationKnown'
  BY DEF OperationKnown, TypeOK
<1>4. ViewsFit'
  BY DEF ViewsFit, TypeOK, Gpu
<1>5. NoOvercommit'
  BY DEF NoOvercommit
<1> QED
  BY <1>1, <1>2, <1>3, <1>4, <1>5

\* nvml-mock-ctl stores a planned device, or does not.
LEMMA StoreKeepsAccounting ==
    ASSUME AccountingInv, NEW a \in Actor, pc[a] \in {"mutate", "orphan"},
           dev' = Stored(a) \/ UNCHANGED dev, Return(a)
    PROVE  AccountingInv'
<1>1. op[a] \in Op /\ Fits(planned[a], Gpu(a))
  BY DEF AccountingInv, OperationKnown, ViewsFit
<1>2. Gpu(a) \in GPU
  BY <1>1 DEF Gpu, Op, MemoryOp, ProcessOp, ReplaceOp
<1>3. /\ dev \in [GPU -> Device] /\ planned[a] \in Device /\ SamePIDs(planned[a])
      /\ \A g \in GPU : Fits(dev[g], g) /\ SamePIDs(dev[g])
  BY DEF AccountingInv, TypeOK, TablesWellFormed, NoOvercommit
<1>4. /\ Stored(a) \in [GPU -> Device]
      /\ \A g \in GPU : Fits(Stored(a)[g], g) /\ SamePIDs(Stored(a)[g])
  <2> DEFINE d == dev[Gpu(a)]
             m == [d EXCEPT !.used = planned[a].used, !.free = planned[a].free]
  <2>1. d \in Device
    BY <1>2, <1>3
  <2>2. m \in Device /\ Fits(m, Gpu(a)) /\ SamePIDs(m)
    BY <1>1, <1>2, <1>3, <2>1 DEF Device, Fits, SamePIDs
  <2>3. Stored(a) = [dev EXCEPT ![Gpu(a)] =
                        IF op[a].kind \in MemoryKinds THEN m ELSE planned[a]]
    BY <1>2, <1>3 DEF Stored
  <2> HIDE DEF m
  <2> QED
    BY <1>1, <1>2, <1>3, <2>2, <2>3
<1> QED
  BY <1>3, <1>4, ReturnKeepsAccounting

-----------------------------------------------------------------------------
(* The step lemma. *)

\* The composed base devices satisfy the accounting invariant.
LEMMA InitAccounting == Init => AccountingInv
<1> SUFFICES ASSUME Init PROVE AccountingInv
  OBVIOUS
<1>1. \A g \in GPU : /\ dev[g] \in Device /\ Fits(dev[g], g) /\ SamePIDs(dev[g])
  BY BaseDeviceFits DEF Init
<1>2. TypeOK
  BY <1>1, BlankDevice, NoRowsTable DEF TypeOK, Init, Steps
<1>3. TablesWellFormed
  BY <1>1, BlankDevice, NoRowsTable DEF TablesWellFormed, Init
<1>4. OperationKnown /\ ViewsFit /\ NoOvercommit
  BY <1>1 DEF OperationKnown, ViewsFit, NoOvercommit, Init
<1> QED
  BY <1>2, <1>3, <1>4 DEF AccountingInv

\* An operation under way names a configured GPU.
LEMMA OperationGpu ==
    ASSUME AccountingInv, NEW a \in Actor, pc[a] # "idle"
    PROVE  op[a] \in Op /\ Gpu(a) \in GPU
           /\ dev[Gpu(a)] \in Device /\ SamePIDs(dev[Gpu(a)])
           /\ Fits(dev[Gpu(a)], Gpu(a))
<1>1. op[a] \in Op
  BY DEF AccountingInv, OperationKnown
<1>2. Gpu(a) \in GPU
  BY <1>1 DEF Gpu, Op, MemoryOp, ProcessOp, ReplaceOp
<1> QED
  BY <1>1, <1>2 DEF AccountingInv, TypeOK, TablesWellFormed, NoOvercommit

\* Every step keeps the accounting invariant: one case per action.
LEMMA StepAccounting == AccountingInv /\ [Next]_vars => AccountingInv'
<1> SUFFICES ASSUME AccountingInv, [Next]_vars
             PROVE  AccountingInv'
  OBVIOUS
<1> USE DEF AccountingInv
<1>1. ASSUME NEW a \in Actor, Begin(a)
      PROVE  AccountingInv'
  <2>1. PICK o \in Op : /\ op' = [op EXCEPT ![a] = o]
                        /\ Goto(a, IF o.kind \in ProcessKinds
                                    THEN "peekApps" ELSE "lock")
    BY <1>1 DEF Begin
  <2>2. o.kind \in ProcessKinds => o \in ProcessOp
    BY DEF Op, MemoryOp, ReplaceOp, MemoryKinds, ProcessKinds
  <2>3. pc[a] = "idle" /\ UNCHANGED <<dev, lock, before, seen, planned>>
    BY <1>1 DEF Begin
  <2>4. TypeOK'
    BY <2>1, <2>3 DEF TypeOK, Goto, Steps
  <2>5. TablesWellFormed'
    BY <2>1, <2>3 DEF TablesWellFormed, TypeOK, Goto
  <2>6. OperationKnown'
    BY <2>1, <2>2, <2>3 DEF OperationKnown, TypeOK, Goto
  <2>7. ViewsFit' /\ NoOvercommit'
    BY <2>1, <2>3 DEF ViewsFit, NoOvercommit, TypeOK, Goto, Gpu
  <2> QED
    BY <2>4, <2>5, <2>6, <2>7
<1>2. ASSUME NEW a \in Actor, PeekApps(a)
      PROVE  AccountingInv'
  <2>1. CASE Fail(a)
    BY <2>1, FailKeepsAccounting
  <2>2. CASE /\ before' = [before EXCEPT ![a].mem = dev[Gpu(a)].mem]
             /\ Goto(a, "peekPmon")
             /\ UNCHANGED <<dev, lock, op, seen, planned>>
    <3>1. pc[a] = "peekApps" /\ dev[Gpu(a)].mem \in Column
      BY <1>2, OperationGpu, DeviceColumns DEF PeekApps
    <3>2. TypeOK'
      BY <2>2, <3>1 DEF TypeOK, Goto, Steps, Rows
    <3>3. TablesWellFormed' /\ OperationKnown'
      BY <2>2, <3>1 DEF TablesWellFormed, OperationKnown, TypeOK, Goto
    <3>4. ViewsFit' /\ NoOvercommit'
      BY <2>2, <3>1 DEF ViewsFit, NoOvercommit, TypeOK, Goto, Gpu
    <3> QED
      BY <3>2, <3>3, <3>4
  <2> QED
    BY <1>2, <2>1, <2>2 DEF PeekApps
<1>3. ASSUME NEW a \in Actor, PeekPmon(a)
      PROVE  AccountingInv'
  <2> DEFINE rows(ok) == [before[a] EXCEPT
                            !.util = AttachPmon(before[a].mem,
                                                dev[Gpu(a)].util, ok)]
  <2>1. PICK ok \in PmonAnswers :
              \/ /\ CanStart(op[a], rows(ok))
                 /\ before' = [before EXCEPT ![a] = rows(ok)]
                 /\ Goto(a, "lock")
                 /\ UNCHANGED <<dev, lock, op, seen, planned>>
              \/ ~ CanStart(op[a], rows(ok)) /\ Fail(a)
    BY <1>3 DEF PeekPmon
  <2>2. CASE Fail(a)
    BY <2>2, FailKeepsAccounting
  <2>3. CASE /\ CanStart(op[a], rows(ok))
             /\ before' = [before EXCEPT ![a] = rows(ok)]
             /\ Goto(a, "lock")
             /\ UNCHANGED <<dev, lock, op, seen, planned>>
    <3>1. pc[a] = "peekPmon" /\ dev[Gpu(a)].util \in Column
      BY <1>3, OperationGpu, DeviceColumns DEF PeekPmon
    <3>2. before[a] \in Rows /\ ok \in BOOLEAN
      BY DEF TypeOK, PmonAnswers
    <3>3. rows(ok) \in Rows /\ SamePIDs(rows(ok))
      BY <3>1, <3>2, AttachPmonColumn DEF Rows, SamePIDs
    <3> HIDE DEF rows
    <3>4. TypeOK'
      BY <2>3, <3>1, <3>3 DEF TypeOK, Goto, Steps
    <3>5. TablesWellFormed'
      BY <2>3, <3>1, <3>3 DEF TablesWellFormed, TypeOK, Goto
    <3>6. OperationKnown'
      BY <2>3, <3>1 DEF OperationKnown, TypeOK, Goto
    <3>7. ViewsFit' /\ NoOvercommit'
      BY <2>3, <3>1 DEF ViewsFit, NoOvercommit, TypeOK, Goto, Gpu
    <3> QED
      BY <3>4, <3>5, <3>6, <3>7
  <2> QED
    BY <2>1, <2>2, <2>3
<1>4. ASSUME NEW a \in Actor, AcquireLock(a)
      PROVE  AccountingInv'
  <2> USE <1>4 DEF AcquireLock, Goto
  <2>1. TypeOK'
    BY DEF TypeOK, Steps
  <2>2. TablesWellFormed' /\ OperationKnown'
    BY DEF TablesWellFormed, OperationKnown, TypeOK
  <2>3. ViewsFit' /\ NoOvercommit'
    BY DEF ViewsFit, NoOvercommit, TypeOK, Gpu
  <2> QED
    BY <2>1, <2>2, <2>3
<1>5. ASSUME NEW a \in Actor, QueryGPU(a)
      PROVE  AccountingInv'
  <2> DEFINE u == SeenBytes(dev[Gpu(a)].used)
             f == SeenBytes(dev[Gpu(a)].free)
  <2>1. CASE Fail(a)
    BY <2>1, FailKeepsAccounting
  <2>2. CASE /\ seen' = [seen EXCEPT ![a].used = u, ![a].free = f]
             /\ Goto(a, "queryApps")
             /\ UNCHANGED <<dev, lock, op, before, planned>>
    <3>1. /\ pc[a] = "queryGPU" /\ Gpu(a) \in GPU
          /\ dev[Gpu(a)].used \in U64 /\ dev[Gpu(a)].free \in U64
          /\ Fits(dev[Gpu(a)], Gpu(a))
      BY <1>5, OperationGpu, DeviceColumns DEF QueryGPU
    <3>2. u \in U64 /\ f \in U64 /\ u <= dev[Gpu(a)].used /\ f <= dev[Gpu(a)].free
      BY <3>1, SeenAtMost
    <3>3. u + f + ReservedBytes(Gpu(a)) <= TotalBytes(Gpu(a))
      BY <3>1, <3>2, ConfigSizes, UnitAssumption DEF Fits, U64
    <3> HIDE DEF u, f
    <3>4. seen[a] \in Device /\ seen \in [Actor -> Device]
      BY DEF TypeOK
    <3>5. /\ seen'[a].used = u /\ seen'[a].free = f
          /\ seen'[a].mem = seen[a].mem /\ seen'[a].util = seen[a].util
          /\ seen'[a] \in Device
          /\ \A b \in Actor : b # a => seen'[b] = seen[b]
          /\ seen' \in [Actor -> Device]
      BY <2>2, <3>2, <3>4 DEF Device
    <3>6. TypeOK'
      BY <2>2, <3>5 DEF TypeOK, Goto, Steps
    <3>7. TablesWellFormed'
      BY <2>2, <3>1, <3>5 DEF TablesWellFormed, SamePIDs, TypeOK, Goto
    <3>8. OperationKnown'
      BY <2>2, <3>1 DEF OperationKnown, TypeOK, Goto
    <3>9. ViewsFit'
      BY <2>2, <3>1, <3>3, <3>5 DEF ViewsFit, TypeOK, Goto, Gpu, Fits
    <3>10. NoOvercommit'
      BY <2>2 DEF NoOvercommit
    <3> QED
      BY <3>6, <3>7, <3>8, <3>9, <3>10
  <2> QED
    BY <1>5, <2>1, <2>2 DEF QueryGPU
<1>6. ASSUME NEW a \in Actor, QueryApps(a)
      PROVE  AccountingInv'
  <2>1. CASE Fail(a)
    BY <2>1, FailKeepsAccounting
  <2>2. CASE /\ seen' = [seen EXCEPT ![a].mem = dev[Gpu(a)].mem]
             /\ Goto(a, "queryPmon")
             /\ UNCHANGED <<dev, lock, op, before, planned>>
    <3>1. pc[a] = "queryApps" /\ dev[Gpu(a)].mem \in Column
      BY <1>6, OperationGpu, DeviceColumns DEF QueryApps
    <3>2. seen[a] \in Device /\ seen \in [Actor -> Device]
      BY DEF TypeOK
    <3>3. /\ seen'[a].used = seen[a].used /\ seen'[a].free = seen[a].free
          /\ \A b \in Actor : b # a => seen'[b] = seen[b]
          /\ seen' \in [Actor -> Device]
      BY <2>2, <3>1, <3>2 DEF Device
    <3>4. TypeOK'
      BY <2>2, <3>3 DEF TypeOK, Goto, Steps
    <3>5. TablesWellFormed' /\ OperationKnown'
      BY <2>2, <3>1, <3>3 DEF TablesWellFormed, OperationKnown, TypeOK, Goto
    <3>6. ViewsFit' /\ NoOvercommit'
      BY <2>2, <3>1, <3>3 DEF ViewsFit, NoOvercommit, TypeOK, Goto, Gpu, Fits
    <3> QED
      BY <3>4, <3>5, <3>6
  <2> QED
    BY <1>6, <2>1, <2>2 DEF QueryApps
<1>7. ASSUME NEW a \in Actor, QueryPmon(a)
      PROVE  AccountingInv'
  <2> DEFINE col(ok) == AttachPmon(seen[a].mem, dev[Gpu(a)].util, ok)
  <2>1. PICK ok \in PmonAnswers : seen' = [seen EXCEPT ![a].util = col(ok)]
    BY <1>7 DEF QueryPmon
  <2>2. /\ pc[a] = "queryPmon" /\ Goto(a, "decide")
        /\ UNCHANGED <<dev, lock, op, before, planned>>
    BY <1>7 DEF QueryPmon
  <2>3. dev[Gpu(a)].util \in Column
    BY <2>2, OperationGpu, DeviceColumns
  <2>4. seen[a] \in Device /\ seen \in [Actor -> Device] /\ ok \in BOOLEAN
    BY DEF TypeOK, PmonAnswers
  <2>5. col(ok) \in Column /\ DOMAIN col(ok) = DOMAIN seen[a].mem
    BY <2>3, <2>4, AttachPmonColumn, DeviceColumns
  <2> HIDE DEF col
  <2>6. /\ seen'[a].used = seen[a].used /\ seen'[a].free = seen[a].free
        /\ SamePIDs(seen'[a])
        /\ \A b \in Actor : b # a => seen'[b] = seen[b]
        /\ seen' \in [Actor -> Device]
    BY <2>1, <2>4, <2>5 DEF Device, SamePIDs
  <2>7. TypeOK'
    BY <2>2, <2>6 DEF TypeOK, Goto, Steps
  <2>8. TablesWellFormed' /\ OperationKnown'
    BY <2>2, <2>6 DEF TablesWellFormed, OperationKnown, TypeOK, Goto
  <2>9. ViewsFit' /\ NoOvercommit'
    BY <2>2, <2>6 DEF ViewsFit, NoOvercommit, TypeOK, Goto, Gpu, Fits
  <2> QED
    BY <2>7, <2>8, <2>9
<1>8. ASSUME NEW a \in Actor, Decide(a)
      PROVE  AccountingInv'
  <2> DEFINE g == Gpu(a)
             d == seen[a]
  <2>1. pc[a] = "decide"
    BY <1>8 DEF Decide, SetUsedMemory, ReserveMemory, ReleaseMemory,
                ReplaceProcessesFromState, ReplaceProcesses
  <2>2. g \in GPU /\ op[a] \in Op
    BY <2>1, OperationGpu
  <2>3. d \in Device /\ SamePIDs(d) /\ Fits(d, g)
    BY <2>1 DEF TypeOK, TablesWellFormed, ViewsFit
  <2> HIDE DEF g, d
  <2>4. ASSUME NEW e \in Device, Fits(e, g), SamePIDs(e), Plan(a, e)
        PROVE  AccountingInv'
    BY <2>1, <2>4, PlanKeepsAccounting DEF g
  <2>5. op[a].kind \in MemoryKinds => op[a].bytes \in U64
    BY <2>2, ControlAssumption
       DEF Op, MemoryOp, ProcessOp, ReplaceOp, MemoryKinds
  <2>6. CASE SetUsedMemory(a)
    <3>1. op[a].bytes \in U64
      BY <2>5, <2>6 DEF SetUsedMemory, MemoryKinds
    <3>2. CASE CanSetUsed(d, op[a].bytes) /\ Plan(a, SetUsed(d, op[a].bytes))
      BY <2>2, <2>3, <2>4, <3>1, <3>2, SetUsedFits DEF SamePIDs
    <3> QED
      BY <2>6, <3>2, FailKeepsAccounting DEF SetUsedMemory, d
  <2>7. CASE ReserveMemory(a)
    <3>1. op[a].bytes \in U64
      BY <2>5, <2>7 DEF ReserveMemory, MemoryKinds
    <3>2. CASE CanReserve(d, op[a].bytes) /\ Plan(a, Reserve(d, op[a].bytes))
      BY <2>2, <2>3, <2>4, <3>1, <3>2, ReserveFits DEF SamePIDs
    <3> QED
      BY <2>7, <3>2, FailKeepsAccounting DEF ReserveMemory, d
  <2>8. CASE ReleaseMemory(a)
    <3>1. op[a].bytes \in U64
      BY <2>5, <2>8 DEF ReleaseMemory, MemoryKinds
    <3>2. CASE CanRelease(d, op[a].bytes) /\ Plan(a, Release(d, op[a].bytes))
      BY <2>2, <2>3, <2>4, <3>1, <3>2, ReleaseFits DEF SamePIDs
    <3> QED
      BY <2>8, <3>2, FailKeepsAccounting DEF ReleaseMemory, d
  <2>9. CASE ReplaceProcessesFromState(a)
    <3> DEFINE desired == Desired(op[a], before[a])
               rebased == Rebase(before[a], desired, d)
    <3>1. op[a] \in ProcessOp
      BY <2>2, <2>9 DEF ReplaceProcessesFromState, Op, MemoryOp, ReplaceOp,
                        MemoryKinds, ProcessKinds
    <3>2. /\ before[a] \in Rows /\ SamePIDs(before[a])
          /\ CanStart(op[a], before[a])
      BY <2>1, <2>9 DEF TypeOK, TablesWellFormed, OperationKnown,
                        ReplaceProcessesFromState
    <3>3. desired \in Rows /\ SamePIDs(desired)
      BY <3>1, <3>2, DesiredRows
    <3> HIDE DEF desired
    <3>4. rebased \in Rows /\ SamePIDs(rebased)
      <4> DEFINE t == [mem |-> d.mem, util |-> d.util]
      <4>1. t \in Rows /\ SamePIDs(t)
        BY <2>3 DEF Device, Rows, SamePIDs
      <4>2. Rebase(before[a], desired, t) = rebased
        BY DEF Rebase
      <4> QED
        BY <3>2, <3>3, <4>1, <4>2, RebaseRows
    <3> HIDE DEF rebased
    <3>5. CASE /\ CanReconcile(d, TotalBytes(g), rebased)
               /\ Plan(a, Reconcile(d, TotalBytes(g), rebased))
      <4> DEFINE r == Reconcile(d, TotalBytes(g), rebased)
      <4>1. r \in Device /\ Fits(r, g) /\ SamePIDs(r)
        BY <2>2, <2>3, <3>4, <3>5, ReconcileFits
      <4> HIDE DEF r
      <4>2. Plan(a, r)
        BY <3>5 DEF r
      <4> QED
        BY <2>4, <4>1, <4>2
    <3> QED
      BY <2>9, <3>5, FailKeepsAccounting
         DEF ReplaceProcessesFromState, d, g, desired, rebased
  <2>10. CASE ReplaceProcesses(a)
    <3> DEFINE rows == [mem  |-> [p \in op[a].pids |-> op[a].mib],
                        util |-> [p \in op[a].pids |-> 0]]
    <3>1. op[a].pids \in SUBSET PID /\ op[a].mib \in U64
      BY <2>2, <2>10, ControlAssumption
         DEF ReplaceProcesses, Op, MemoryOp, ProcessOp, ReplaceOp,
             MemoryKinds, ProcessKinds
    <3>2. 0 \in U64
      BY UnitAssumption DEF U64
    <3>3. rows \in Rows /\ SamePIDs(rows)
      BY <3>1, <3>2, ColumnIntro DEF Rows, SamePIDs
    <3> HIDE DEF rows
    <3>4. CASE /\ CanReconcile(d, TotalBytes(g), rows)
               /\ Plan(a, Reconcile(d, TotalBytes(g), rows))
      <4> DEFINE r == Reconcile(d, TotalBytes(g), rows)
      <4>1. r \in Device /\ Fits(r, g) /\ SamePIDs(r)
        BY <2>2, <2>3, <3>3, <3>4, ReconcileFits
      <4> HIDE DEF r
      <4>2. Plan(a, r)
        BY <3>4 DEF r
      <4> QED
        BY <2>4, <4>1, <4>2
    <3> QED
      BY <2>10, <3>4, FailKeepsAccounting DEF ReplaceProcesses, d, g, rows
  <2> QED
    BY <1>8, <2>6, <2>7, <2>8, <2>9, <2>10 DEF Decide
<1>9. ASSUME NEW a \in Actor, Mutate(a) \/ OrphanMutate(a)
      PROVE  AccountingInv'
  BY <1>9, StoreKeepsAccounting DEF Mutate, OrphanMutate
<1>10. ASSUME NEW a \in Actor, Die(a)
       PROVE  AccountingInv'
  <2>1. CASE Fail(a)
    BY <2>1, FailKeepsAccounting
  <2>2. CASE /\ pc[a] = "mutate"
             /\ Goto(a, "orphan")
             /\ Unlock(a)
             /\ UNCHANGED <<dev, op, before, seen, planned>>
    <3>1. TypeOK'
      BY <2>2 DEF TypeOK, Goto, Unlock, Steps
    <3>2. TablesWellFormed' /\ OperationKnown'
      BY <2>2 DEF TablesWellFormed, OperationKnown, TypeOK, Goto
    <3>3. ViewsFit' /\ NoOvercommit'
      BY <2>2 DEF ViewsFit, NoOvercommit, TypeOK, Goto, Gpu
    <3> QED
      BY <3>1, <3>2, <3>3
  <2> QED
    BY <1>10, <2>1, <2>2 DEF Die
<1>11. CASE Reset
  <2>1. PICK G : dev' = [g \in GPU |-> IF g \in G THEN BaseDevice(g) ELSE dev[g]]
    BY <1>11 DEF Reset
  <2>2. UNCHANGED <<lock, pc, op, before, seen, planned>>
    BY <1>11 DEF Reset
  <2>3. \A g \in GPU : dev'[g] \in Device /\ Fits(dev'[g], g) /\ SamePIDs(dev'[g])
    BY <2>1, BaseDeviceFits DEF TypeOK, TablesWellFormed, NoOvercommit
  <2>4. TypeOK'
    BY <2>1, <2>2, <2>3 DEF TypeOK
  <2>5. TablesWellFormed' /\ OperationKnown' /\ ViewsFit' /\ NoOvercommit'
    BY <2>2, <2>3 DEF TablesWellFormed, OperationKnown, ViewsFit, NoOvercommit,
                      Gpu
  <2> QED
    BY <2>4, <2>5
<1>12. CASE UNCHANGED vars
  <2> USE <1>12 DEF vars
  <2>1. TypeOK' /\ TablesWellFormed' /\ NoOvercommit'
    BY DEF TypeOK, TablesWellFormed, NoOvercommit
  <2>2. OperationKnown' /\ ViewsFit'
    BY DEF OperationKnown, ViewsFit, Gpu
  <2> QED
    BY <2>1, <2>2
<1> QED
  BY <1>1, <1>2, <1>3, <1>4, <1>5, <1>6, <1>7, <1>8, <1>9, <1>10, <1>11, <1>12
     DEF Next, Continue

-----------------------------------------------------------------------------

\* Type correctness: every byte count the control plane stores or plans to
\* store is a uint64, whatever the constants.
THEOREM TypeCorrect == Spec => []TypeOK
<1>1. AccountingInv => TypeOK
  BY DEF AccountingInv
<1> QED
  BY <1>1, InitAccounting, StepAccounting, PTL DEF Spec

\* No interleaving of memory and process operations, unlocked resets, failing
\* commands and killed actors overcommits a device.
THEOREM NeverOvercommits == Spec => []NoOvercommit
<1>1. AccountingInv => NoOvercommit
  BY DEF AccountingInv
<1> QED
  BY <1>1, InitAccounting, StepAccounting, PTL DEF Spec

-----------------------------------------------------------------------------
(* Coverage of the process rows, when every store happens under the lock. *)

\* An actor's view is not disturbed by a step that changes neither the devices
\* nor the actor.
LEMMA BystanderView ==
    ASSUME NEW b \in Actor, LockedView(b), UNCHANGED dev,
           pc'[b] = pc[b], op'[b] = op[b],
           seen'[b] = seen[b], planned'[b] = planned[b],
           lock = b => lock' = b
    PROVE  LockedView(b)'
BY DEF LockedView, Stored, Gpu

\* Returning without having stored anything.
LEMMA FailKeepsCoverage ==
    ASSUME CoverageInv, NEW a \in Actor, Fail(a)
    PROVE  CoverageInv'
<1>1. AccountingInv'
  BY FailKeepsAccounting DEF CoverageInv
<1>2. ASSUME NEW b \in Actor PROVE LockedView(b)'
  <2>1. CASE b = a
    BY <2>1 DEF CoverageInv, AccountingInv, TypeOK, LockedView, Holding,
                Fail, Return
  <2>2. CASE b # a
    <3>1. /\ pc'[b] = pc[b] /\ op'[b] = op[b] /\ seen'[b] = seen[b]
          /\ planned'[b] = planned[b] /\ UNCHANGED dev
          /\ lock = b => lock' = b
      BY <2>2 DEF CoverageInv, AccountingInv, TypeOK, Fail, Return, Forget, Unlock
    <3> QED
      BY <3>1, BystanderView DEF CoverageInv
  <2> QED
    BY <2>1, <2>2
<1>3. UsageCoversProcesses'
  BY DEF CoverageInv, UsageCoversProcesses, Fail
<1> QED
  BY <1>1, <1>2, <1>3 DEF CoverageInv

\* A step of actor a alone that leaves the devices as they are.
LEMMA PrivateStepKeepsCoverage ==
    ASSUME CoverageInv, AccountingInv', NEW a \in Actor, LockedView(a)',
           UNCHANGED dev,
           \A b \in Actor \ {a} :
              /\ pc'[b] = pc[b] /\ op'[b] = op[b] /\ seen'[b] = seen[b]
              /\ planned'[b] = planned[b]
              /\ lock = b => lock' = b
    PROVE  CoverageInv'
<1>1. ASSUME NEW b \in Actor, b # a PROVE LockedView(b)'
  BY <1>1, BystanderView DEF CoverageInv
<1>2. UsageCoversProcesses'
  BY DEF CoverageInv, UsageCoversProcesses
<1> QED
  BY <1>1, <1>2 DEF CoverageInv

\* Planning a device that covers the rows it will have.
LEMMA PlanKeepsCoverage ==
    ASSUME CoverageInv, AccountingInv', NEW a \in Actor, pc[a] = "decide",
           NEW d, Plan(a, d), dev[Gpu(a)] \in Device, Gpu(a) \in GPU,
           Covered(d),
           op[a].kind \in MemoryKinds => d.mem = dev[Gpu(a)].mem
    PROVE  CoverageInv'
<1> DEFINE e == dev[Gpu(a)]
           m == [e EXCEPT !.used = d.used, !.free = d.free]
<1>1. TypeOK
  BY DEF CoverageInv, AccountingInv
<1>2. /\ pc'[a] = "mutate" /\ planned'[a] = d /\ UNCHANGED <<dev, lock, op>>
      /\ \A b \in Actor \ {a} :
            /\ pc'[b] = pc[b] /\ seen'[b] = seen[b] /\ planned'[b] = planned[b]
  BY <1>1 DEF TypeOK, Plan, Goto
<1>3. lock = a
  BY DEF CoverageInv, LockedView, Holding
<1>4. m.mem = e.mem /\ m.used = d.used
  BY DEF Device
<1>5. Covered(Stored(a)[Gpu(a)])'
  <2>1. Stored(a)'[Gpu(a)] = IF op[a].kind \in MemoryKinds THEN m ELSE d
    BY <1>1, <1>2 DEF Stored, Gpu, TypeOK
  <2> HIDE DEF m, e
  <2>2. Covered(m) \/ op[a].kind \notin MemoryKinds
    BY <1>4 DEF Covered, e
  <2>3. Covered(IF op[a].kind \in MemoryKinds THEN m ELSE d)
    BY <2>2
  <2> QED
    BY <1>2, <2>1, <2>3 DEF Gpu, Covered
<1>6. LockedView(a)'
  BY <1>2, <1>3, <1>5 DEF LockedView
<1> QED
  BY <1>2, <1>6, PrivateStepKeepsCoverage

\* The base devices cover their rows, and nobody holds the lock.
LEMMA InitCoverage == Init => CoverageInv
<1> SUFFICES ASSUME Init PROVE CoverageInv
  OBVIOUS
<1>1. \A a \in Actor : LockedView(a)
  BY DEF Init, LockedView, Holding
<1>2. UsageCoversProcesses
  BY BaseDeviceFits DEF Init, UsageCoversProcesses
<1> QED
  BY <1>1, <1>2, InitAccounting DEF CoverageInv

\* Without reset and killed actors every step keeps the coverage invariant:
\* one case per action.
LEMMA StepCoverage ==
    ASSUME "reset" \notin Kinds, ~ ActorsMayDie, CoverageInv, [Next]_vars
    PROVE  CoverageInv'
<1>0. AccountingInv /\ AccountingInv'
  BY StepAccounting DEF CoverageInv
<1>1. TypeOK
  BY <1>0 DEF AccountingInv
<1>2. ASSUME NEW a \in Actor, Begin(a)
      PROVE  CoverageInv'
  <2>1. /\ pc'[a] \in {"peekApps", "lock"} /\ UNCHANGED <<dev, lock>>
        /\ \A b \in Actor \ {a} :
              /\ pc'[b] = pc[b] /\ op'[b] = op[b] /\ seen'[b] = seen[b]
              /\ planned'[b] = planned[b]
    BY <1>1, <1>2 DEF Begin, Goto, TypeOK
  <2>2. LockedView(a)'
    BY <2>1 DEF LockedView, Holding
  <2> QED
    BY <1>0, <2>1, <2>2, PrivateStepKeepsCoverage
<1>3. ASSUME NEW a \in Actor, PeekApps(a) \/ PeekPmon(a)
      PROVE  CoverageInv'
  <2>1. CASE Fail(a)
    BY <2>1, FailKeepsCoverage
  <2>2. CASE ~ Fail(a)
    <3>1. /\ pc'[a] \in {"peekPmon", "lock"} /\ UNCHANGED <<dev, lock>>
          /\ \A b \in Actor \ {a} :
                /\ pc'[b] = pc[b] /\ op'[b] = op[b] /\ seen'[b] = seen[b]
                /\ planned'[b] = planned[b]
      BY <1>1, <1>3, <2>2 DEF PeekApps, PeekPmon, Goto, TypeOK
    <3>2. LockedView(a)'
      BY <3>1 DEF LockedView, Holding
    <3> QED
      BY <1>0, <3>1, <3>2, PrivateStepKeepsCoverage
  <2> QED
    BY <2>1, <2>2
<1>4. ASSUME NEW a \in Actor, AcquireLock(a)
      PROVE  CoverageInv'
  <2>1. /\ pc'[a] = "queryGPU" /\ UNCHANGED dev /\ lock = NoOne /\ lock' = a
        /\ \A b \in Actor \ {a} :
              /\ pc'[b] = pc[b] /\ op'[b] = op[b] /\ seen'[b] = seen[b]
              /\ planned'[b] = planned[b]
    BY <1>1, <1>4 DEF AcquireLock, Goto, TypeOK
  <2>2. LockedView(a)'
    BY <2>1 DEF LockedView
  <2>3. \A b \in Actor : lock # b
    BY <2>1, ControlAssumption
  <2> QED
    BY <1>0, <2>1, <2>2, <2>3, PrivateStepKeepsCoverage
<1>5. ASSUME NEW a \in Actor, QueryGPU(a) \/ QueryApps(a) \/ QueryPmon(a)
      PROVE  CoverageInv'
  <2>1. CASE Fail(a)
    BY <2>1, FailKeepsCoverage
  <2>2. CASE ~ Fail(a)
    <3>1. /\ UNCHANGED <<dev, lock, op>>
          /\ \A b \in Actor \ {a} :
                /\ pc'[b] = pc[b] /\ seen'[b] = seen[b]
                /\ planned'[b] = planned[b]
      BY <1>1, <1>5, <2>2 DEF QueryGPU, QueryApps, QueryPmon, Goto, TypeOK
    <3>2. lock = a /\ seen[a] \in Device
      BY <1>1, <1>5 DEF CoverageInv, LockedView, Holding, TypeOK,
                        QueryGPU, QueryApps, QueryPmon
    <3>3. LockedView(a)'
      <4>1. CASE QueryGPU(a)
        <5>1. /\ pc'[a] = "queryApps"
              /\ seen'[a].used = SeenBytes(dev[Gpu(a)].used)
              /\ seen'[a].free = SeenBytes(dev[Gpu(a)].free)
          BY <1>1, <2>2, <3>2, <4>1 DEF QueryGPU, Goto, TypeOK, Device
        <5> QED
          BY <3>1, <3>2, <5>1 DEF LockedView, Gpu
      <4>2. CASE QueryApps(a)
        <5>1. /\ pc[a] = "queryApps" /\ pc'[a] = "queryPmon"
              /\ seen'[a].used = seen[a].used /\ seen'[a].free = seen[a].free
              /\ seen'[a].mem = dev[Gpu(a)].mem
          BY <1>1, <2>2, <3>2, <4>2 DEF QueryApps, Goto, TypeOK, Device
        <5> QED
          BY <3>1, <3>2, <5>1 DEF CoverageInv, LockedView, Gpu
      <4>3. CASE QueryPmon(a)
        <5>1. /\ pc[a] = "queryPmon" /\ pc'[a] = "decide"
              /\ seen'[a].used = seen[a].used /\ seen'[a].free = seen[a].free
              /\ seen'[a].mem = seen[a].mem
          BY <1>1, <2>2, <3>2, <4>3 DEF QueryPmon, Goto, TypeOK, Device
        <5> QED
          BY <3>1, <3>2, <5>1 DEF CoverageInv, LockedView, Gpu
      <4> QED
        BY <1>5, <4>1, <4>2, <4>3
    <3> QED
      BY <1>0, <3>1, <3>3, PrivateStepKeepsCoverage
  <2> QED
    BY <2>1, <2>2
<1>6. ASSUME NEW a \in Actor, Decide(a)
      PROVE  CoverageInv'
  <2> DEFINE g == Gpu(a)
             d == seen[a]
  <2>1. pc[a] = "decide"
    BY <1>6 DEF Decide, SetUsedMemory, ReserveMemory, ReleaseMemory,
                ReplaceProcessesFromState, ReplaceProcesses
  <2>2. g \in GPU /\ op[a] \in Op /\ dev[g] \in Device
    BY <1>0, <2>1, OperationGpu
  <2>3. d \in Device /\ SamePIDs(d) /\ Fits(d, g)
    BY <1>0, <2>1 DEF AccountingInv, TypeOK, TablesWellFormed, ViewsFit
  <2>4. d.mem = dev[g].mem /\ d.used = SeenBytes(dev[g].used)
    BY <2>1 DEF CoverageInv, LockedView
  <2>5. Covered(d)
    BY <2>2, <2>4, SeenCovers, DeviceColumns
       DEF CoverageInv, UsageCoversProcesses, Covered, OwnedBytes
  <2> HIDE DEF g, d
  <2>6. ASSUME NEW e, Plan(a, e), Covered(e),
               op[a].kind \in MemoryKinds => e.mem = dev[g].mem
        PROVE  CoverageInv'
    BY <1>0, <2>1, <2>2, <2>6, PlanKeepsCoverage DEF g
  <2>7. op[a].kind \in MemoryKinds => op[a].bytes \in U64
    BY <2>2, ControlAssumption
       DEF Op, MemoryOp, ProcessOp, ReplaceOp, MemoryKinds
  <2>8. CASE SetUsedMemory(a)
    <3>1. op[a].bytes \in U64
      BY <2>7, <2>8 DEF SetUsedMemory, MemoryKinds
    <3>2. CASE CanSetUsed(d, op[a].bytes) /\ Plan(a, SetUsed(d, op[a].bytes))
      BY <2>2, <2>3, <2>4, <2>6, <3>1, <3>2, SetUsedFits
    <3> QED
      BY <2>8, <3>2, FailKeepsCoverage DEF SetUsedMemory, d
  <2>9. CASE ReserveMemory(a)
    <3>1. op[a].bytes \in U64
      BY <2>7, <2>9 DEF ReserveMemory, MemoryKinds
    <3>2. CASE CanReserve(d, op[a].bytes) /\ Plan(a, Reserve(d, op[a].bytes))
      BY <2>2, <2>3, <2>4, <2>5, <2>6, <3>1, <3>2, ReserveFits
    <3> QED
      BY <2>9, <3>2, FailKeepsCoverage DEF ReserveMemory, d
  <2>10. CASE ReleaseMemory(a)
    <3>1. op[a].bytes \in U64
      BY <2>7, <2>10 DEF ReleaseMemory, MemoryKinds
    <3>2. CASE CanRelease(d, op[a].bytes) /\ Plan(a, Release(d, op[a].bytes))
      BY <2>2, <2>3, <2>4, <2>6, <3>1, <3>2, ReleaseFits
    <3> QED
      BY <2>10, <3>2, FailKeepsCoverage DEF ReleaseMemory, d
  <2>11. ASSUME NEW rows, CanReconcile(d, TotalBytes(g), rows),
                op[a].kind \notin MemoryKinds,
                Plan(a, Reconcile(d, TotalBytes(g), rows))
         PROVE  CoverageInv'
    <3> DEFINE r == Reconcile(d, TotalBytes(g), rows)
    <3>1. Covered(r)
      <4>1. /\ ProcessMiB(rows.mem) \in Nat /\ OwnedBytes(rows.mem) \in Nat
            /\ ProcessBytes(rows.mem) = OwnedBytes(rows.mem)
        BY <2>11, ProcessBytesExact DEF CanReconcile
      <4>2. /\ ProcessBytes(d.mem) \in Nat /\ ProcessBytes(d.mem) <= d.used
            /\ d.used \in Nat
        BY <2>3, <2>11, ProcessBytesExact DEF CanReconcile, Device, U64
      <4>3. OwnedBytes(rows.mem)
              <= d.used - ProcessBytes(d.mem) + ProcessBytes(rows.mem)
        BY <4>1, <4>2
      <4> QED
        BY <4>1, <4>3 DEF Covered, Reconcile, NonProcessUsed
    <3> HIDE DEF r
    <3>2. Plan(a, r)
      BY <2>11 DEF r
    <3> QED
      BY <2>6, <2>11, <3>1, <3>2
  <2>12. CASE ReplaceProcessesFromState(a)
    <3>1. op[a].kind \notin MemoryKinds
      BY <2>12 DEF ReplaceProcessesFromState, ProcessKinds, MemoryKinds
    <3> QED
      BY <2>11, <2>12, <3>1, FailKeepsCoverage
         DEF ReplaceProcessesFromState, d, g
  <2>13. CASE ReplaceProcesses(a)
    <3>1. op[a].kind \notin MemoryKinds
      BY <2>13 DEF ReplaceProcesses, MemoryKinds
    <3> QED
      BY <2>11, <2>13, <3>1, FailKeepsCoverage DEF ReplaceProcesses, d, g
  <2> QED
    BY <1>6, <2>8, <2>9, <2>10, <2>12, <2>13 DEF Decide
<1>7. ASSUME NEW a \in Actor, Mutate(a)
      PROVE  CoverageInv'
  <2>1. pc[a] = "mutate" /\ lock = a /\ Covered(Stored(a)[Gpu(a)])
    BY <1>7 DEF Mutate, CoverageInv, LockedView, Holding
  <2>2. CASE UNCHANGED dev
    BY <1>7, <2>2, FailKeepsCoverage DEF Mutate, Fail
  <2>3. CASE dev' = Stored(a)
    <3>1. UsageCoversProcesses'
      <4>1. \A h \in GPU : h # Gpu(a) => dev'[h] = dev[h]
        BY <1>1, <2>3 DEF Stored, TypeOK
      <4>2. Covered(dev'[Gpu(a)])
        BY <2>1, <2>3
      <4> QED
        BY <4>1, <4>2 DEF CoverageInv, UsageCoversProcesses
    <3>2. ASSUME NEW b \in Actor PROVE LockedView(b)'
      <4>1. CASE b = a
        BY <1>1, <1>7, <4>1 DEF Mutate, Return, LockedView, Holding, TypeOK
      <4>2. CASE b # a
        <5>1. pc'[b] = pc[b] /\ pc[b] \notin Holding /\ pc[b] # "orphan"
          BY <1>1, <1>7, <2>1, <4>2
             DEF Mutate, Return, CoverageInv, LockedView, TypeOK
        <5> QED
          BY <5>1 DEF LockedView, Holding
      <4> QED
        BY <4>1, <4>2
    <3> QED
      BY <1>0, <3>1, <3>2 DEF CoverageInv
  <2> QED
    BY <1>7, <2>2, <2>3 DEF Mutate
<1>8. ASSUME NEW a \in Actor, OrphanMutate(a)
      PROVE  FALSE
  BY <1>8 DEF OrphanMutate, CoverageInv, LockedView
<1>9. CASE UNCHANGED vars
  <2>1. UsageCoversProcesses'
    BY <1>9 DEF vars, CoverageInv, UsageCoversProcesses
  <2>2. \A a \in Actor : LockedView(a)'
    BY <1>9, BystanderView DEF vars, CoverageInv
  <2> QED
    BY <1>0, <2>1, <2>2 DEF CoverageInv
<1> QED
  BY <1>2, <1>3, <1>4, <1>5, <1>6, <1>7, <1>8, <1>9
     DEF Next, Continue, Die, Reset

\* A return gives the flock back, so whoever has it afterwards is still inside.
LEMMA ReturnKeepsLockInside ==
    ASSUME TypeOK, LockHeldInside, NEW a \in Actor, Return(a)
    PROVE  LockHeldInside'
BY ControlAssumption DEF TypeOK, LockHeldInside, Return, Unlock

\* So does a step of actor a from one place inside to another, or outside.
LEMMA MoveKeepsLockInside ==
    ASSUME TypeOK, LockHeldInside, NEW a \in Actor, NEW to, Goto(a, to),
           UNCHANGED lock, pc[a] \in Holding => to \in Holding
    PROVE  LockHeldInside'
BY DEF TypeOK, LockHeldInside, Goto

\* The step of the lock's invariant, one action at a time.
LEMMA StepLockInside ==
    ASSUME TypeOK, LockHeldInside, [Next]_vars
    PROVE  LockHeldInside'
<1>1. CASE UNCHANGED <<lock, pc>>
  BY <1>1 DEF LockHeldInside
<1>2. ASSUME NEW a \in Actor, Begin(a) PROVE LockHeldInside'
  <2>1. PICK o \in Op :
            Goto(a, IF o.kind \in ProcessKinds THEN "peekApps" ELSE "lock")
    BY <1>2 DEF Begin
  <2> QED
    BY <1>2, <2>1, MoveKeepsLockInside DEF Begin, Holding
<1>3. ASSUME NEW a \in Actor, PeekApps(a) PROVE LockHeldInside'
  BY <1>3, MoveKeepsLockInside, ReturnKeepsLockInside
     DEF PeekApps, Fail, Holding
<1>4. ASSUME NEW a \in Actor, PeekPmon(a) PROVE LockHeldInside'
  <2>1. \/ pc[a] = "peekPmon" /\ Goto(a, "lock") /\ UNCHANGED lock
        \/ Return(a)
    BY <1>4 DEF PeekPmon, Fail
  <2> QED
    BY <2>1, MoveKeepsLockInside, ReturnKeepsLockInside DEF Holding
<1>5. ASSUME NEW a \in Actor, AcquireLock(a) PROVE LockHeldInside'
  BY <1>5, ControlAssumption
     DEF AcquireLock, Goto, TypeOK, LockHeldInside, Holding
<1>6. ASSUME NEW a \in Actor, QueryGPU(a) PROVE LockHeldInside'
  BY <1>6, MoveKeepsLockInside, ReturnKeepsLockInside
     DEF QueryGPU, Fail, Holding
<1>7. ASSUME NEW a \in Actor, QueryApps(a) PROVE LockHeldInside'
  BY <1>7, MoveKeepsLockInside, ReturnKeepsLockInside
     DEF QueryApps, Fail, Holding
<1>8. ASSUME NEW a \in Actor, QueryPmon(a) PROVE LockHeldInside'
  BY <1>8, MoveKeepsLockInside DEF QueryPmon, Holding
<1>9. ASSUME NEW a \in Actor, Decide(a) PROVE LockHeldInside'
  <2>1. \/ Goto(a, "mutate") /\ UNCHANGED lock
        \/ Return(a)
    BY <1>9 DEF Decide, SetUsedMemory, ReserveMemory, ReleaseMemory,
                ReplaceProcessesFromState, ReplaceProcesses, Plan, Fail
  <2> QED
    BY <2>1, MoveKeepsLockInside, ReturnKeepsLockInside DEF Holding
<1>10. ASSUME NEW a \in Actor, Mutate(a) \/ OrphanMutate(a)
       PROVE  LockHeldInside'
  BY <1>10, ReturnKeepsLockInside DEF Mutate, OrphanMutate
<1>11. ASSUME NEW a \in Actor, Die(a) PROVE LockHeldInside'
  <2>1. CASE Goto(a, "orphan") /\ Unlock(a)
    BY <2>1, ControlAssumption DEF TypeOK, LockHeldInside, Goto, Unlock
  <2>2. CASE Return(a)
    BY <2>2, ReturnKeepsLockInside
  <2> QED
    BY <1>11, <2>1, <2>2 DEF Die, Fail
<1> QED
  BY <1>1, <1>2, <1>3, <1>4, <1>5, <1>6, <1>7, <1>8, <1>9, <1>10, <1>11
     DEF Next, Continue, Reset, vars

\* The flock never stays with an actor that has left its critical section,
\* whatever fails and whoever is killed (withMutationLock).
THEOREM LockIsGivenBack == Spec => []LockHeldInside
<1>1. Init => LockHeldInside
  BY ControlAssumption DEF Init, LockHeldInside
<1>2. TypeOK /\ LockHeldInside /\ [Next]_vars => LockHeldInside'
  BY StepLockInside
<1> QED
  BY <1>1, <1>2, TypeCorrect, PTL DEF Spec

\* As long as every store happens under the mutation lock (no reset, nobody
\* killed), used VRAM covers the process rows, also when byte counts are no
\* whole number of MiB and pmon fails.
THEOREM UsageAlwaysCovers ==
    ASSUME "reset" \notin Kinds, ~ ActorsMayDie
    PROVE  Spec => []UsageCoversProcesses
<1>1. CoverageInv /\ [Next]_vars => CoverageInv'
  BY StepCoverage
<1>2. CoverageInv => UsageCoversProcesses
  BY DEF CoverageInv
<1> QED
  BY <1>1, <1>2, InitCoverage, PTL DEF Spec

\* And what an actor decides on is the device's present state.
THEOREM ObservationAlwaysCurrent ==
    ASSUME "reset" \notin Kinds, ~ ActorsMayDie
    PROVE  Spec => []ObservationIsCurrent
<1>1. CoverageInv /\ [Next]_vars => CoverageInv'
  BY StepCoverage
<1>2. CoverageInv => ObservationIsCurrent
  BY DEF CoverageInv, LockedView, ObservationIsCurrent
<1> QED
  BY <1>1, <1>2, InitCoverage, PTL DEF Spec

-----------------------------------------------------------------------------
(***************************************************************************)
(* ControlPlane keeps the visible pool of VRAM, leaves what an operation   *)
(* is not about alone, and implements AtomicControl.  Byte counts are      *)
(* whole numbers of MiB where the amounts matter, for nvidia-smi cuts the  *)
(* rest of a MiB off and the manager then decides on, and stores, less     *)
(* than there is.                                                          *)
(***************************************************************************)

\* The callers' byte counts are whole numbers of MiB.
WholeSizes == \A n \in Sizes : ShownExactly(n)

\* The inductive invariant of VisiblePoolPreserved: neither an observation nor
\* a plan loses a byte, even when the device has changed under it.
PoolInv ==
    /\ AccountingInv
    /\ \A g \in GPU : FullPool(dev[g], g)
    /\ \A a \in Actor :
          /\ pc[a] \in {"queryApps", "queryPmon", "decide"} =>
                FullPool(seen[a], Gpu(a))
          /\ pc[a] \in {"mutate", "orphan"} => FullPool(planned[a], Gpu(a))

\* Column old as operation o leaves it: with o's value for its PID, or without
\* that PID.
Edited(o, old, value) ==
    IF o.kind = "remove" THEN Atomic!Without(old, o.pid)
    ELSE Atomic!With(old, o.pid, IF value = Unset THEN old[o.pid] ELSE value)

\* What actor a is about to store of the rows: those of the device at present,
\* with its own row added, changed or removed.  An update that changes nothing
\* stores the rows as they are, even when its row has gone in the meantime.
RowsPlanned(a) ==
    LET d == dev[Gpu(a)]
        r == planned[a]
        o == op[a]
    IN  /\ o.kind \in ProcessKinds =>
              \/ /\ (o.kind = "add") <=> (o.pid \notin DOMAIN d.mem)
                 /\ r.mem = Edited(o, d.mem, o.mib)
                 /\ r.util = Edited(o, d.util, o.util)
              \/ /\ o.kind = "update"
                 /\ r.mem = d.mem
                 /\ r.util = d.util
        /\ o.kind = "replace" =>
              /\ r.mem = [p \in o.pids |-> o.mib]
              /\ r.util = [p \in o.pids |-> 0]

\* The inductive invariant about the rows, for actors that issue no reset, are
\* not killed and get an answer from pmon.
RowsInv ==
    \A a \in Actor :
        /\ pc[a] = "decide" => seen[a].util = dev[Gpu(a)].util
        /\ pc[a] = "mutate" => RowsPlanned(a)

\* What actor a is about to store of the byte counts.
BytesPlanned(a) ==
    LET d == dev[Gpu(a)]
        r == planned[a]
        o == op[a]
    IN  /\ o.kind = "used" => r.used = o.bytes
        /\ o.kind = "reserve" => r.used = d.used + o.bytes
        /\ o.kind = "release" => r.used = d.used - o.bytes
        /\ o.kind \in MemoryKinds => OwnedBytes(d.mem) <= r.used
        /\ o.kind \notin MemoryKinds =>
              /\ SumFits(d.mem)
              /\ SumFits(r.mem)
              /\ r.used = d.used - OwnedBytes(d.mem) + OwnedBytes(r.mem)

\* The bytes that an actor is about to store are exact.
BytesInv == \A a \in Actor : pc[a] = "mutate" => BytesPlanned(a)

-----------------------------------------------------------------------------
(* The pool, step by step. *)

\* A step of actor a alone: the devices and what a carries have to be right
\* afterwards.
LEMMA OneActorKeepsPool ==
    ASSUME PoolInv, AccountingInv', NEW a \in Actor,
           \A g \in GPU : FullPool(dev'[g], g),
           \A b \in Actor \ {a} :
              /\ pc'[b] = pc[b] /\ op'[b] = op[b]
              /\ seen'[b] = seen[b] /\ planned'[b] = planned[b],
           pc'[a] \in {"queryApps", "queryPmon", "decide"} =>
              FullPool(seen'[a], op'[a].gpu),
           pc'[a] \in {"mutate", "orphan"} => FullPool(planned'[a], op'[a].gpu)
    PROVE  PoolInv'
<1>1. ASSUME NEW b \in Actor
      PROVE  /\ pc'[b] \in {"queryApps", "queryPmon", "decide"} =>
                  FullPool(seen'[b], op'[b].gpu)
             /\ pc'[b] \in {"mutate", "orphan"} =>
                  FullPool(planned'[b], op'[b].gpu)
  <2>1. CASE b = a
    BY <2>1
  <2>2. CASE b # a
    BY <2>2 DEF PoolInv, Gpu
  <2> QED
    BY <2>1, <2>2
<1> QED
  BY <1>1 DEF PoolInv, Gpu

\* An operation that fails stores nothing.
LEMMA FailKeepsPool ==
    ASSUME PoolInv, NEW a \in Actor, Fail(a)
    PROVE  PoolInv'
<1>1. AccountingInv'
  BY FailKeepsAccounting DEF PoolInv
<1>2. TypeOK
  BY DEF PoolInv, AccountingInv
<1>3. /\ pc'[a] = "idle" /\ UNCHANGED dev
      /\ \A b \in Actor \ {a} :
            /\ pc'[b] = pc[b] /\ op'[b] = op[b]
            /\ seen'[b] = seen[b] /\ planned'[b] = planned[b]
  BY <1>2 DEF TypeOK, Fail, Return, Forget
<1>4. \A g \in GPU : FullPool(dev'[g], g)
  BY <1>3 DEF PoolInv
<1> QED
  BY <1>1, <1>3, <1>4, OneActorKeepsPool

\* Planning a device whose pool is full.
LEMMA PlanKeepsPool ==
    ASSUME PoolInv, AccountingInv', NEW a \in Actor, NEW d, Plan(a, d),
           FullPool(d, Gpu(a))
    PROVE  PoolInv'
<1>1. TypeOK
  BY DEF PoolInv, AccountingInv
<1>2. /\ pc'[a] = "mutate" /\ planned'[a] = d /\ UNCHANGED <<dev, op>>
      /\ \A b \in Actor \ {a} :
            /\ pc'[b] = pc[b] /\ seen'[b] = seen[b] /\ planned'[b] = planned[b]
  BY <1>1 DEF TypeOK, Plan, Goto
<1>3. \A g \in GPU : FullPool(dev'[g], g)
  BY <1>2 DEF PoolInv
<1> QED
  BY <1>2, <1>3, OneActorKeepsPool DEF Gpu

\* nvml-mock-ctl stores a planned device, or does not.
LEMMA StoreKeepsPool ==
    ASSUME PoolInv, AccountingInv', NEW a \in Actor,
           pc[a] \in {"mutate", "orphan"},
           dev' = Stored(a) \/ UNCHANGED dev, Return(a)
    PROVE  PoolInv'
<1>1. TypeOK /\ AccountingInv
  BY DEF PoolInv, AccountingInv
<1>2. FullPool(planned[a], Gpu(a)) /\ Gpu(a) \in GPU /\ dev[Gpu(a)] \in Device
  BY <1>1, OperationGpu DEF PoolInv
<1>3. \A g \in GPU : FullPool(Stored(a)[g], g)
  <2> DEFINE d == dev[Gpu(a)]
             m == [d EXCEPT !.used = planned[a].used, !.free = planned[a].free]
  <2>1. FullPool(m, Gpu(a))
    BY <1>2 DEF Device, FullPool
  <2>2. Stored(a) = [dev EXCEPT ![Gpu(a)] =
                        IF op[a].kind \in MemoryKinds THEN m ELSE planned[a]]
    BY <1>1, <1>2 DEF Stored, TypeOK
  <2> HIDE DEF m
  <2> QED
    BY <1>1, <1>2, <2>1, <2>2 DEF PoolInv, TypeOK
<1>4. \A g \in GPU : FullPool(dev'[g], g)
  BY <1>3 DEF PoolInv
<1>5. /\ pc'[a] = "idle"
      /\ \A b \in Actor \ {a} :
            /\ pc'[b] = pc[b] /\ op'[b] = op[b]
            /\ seen'[b] = seen[b] /\ planned'[b] = planned[b]
  BY <1>1 DEF TypeOK, Return, Forget
<1> QED
  BY <1>4, <1>5, OneActorKeepsPool

\* The rows a process operation wants to store are a table.
LEMMA RebasedRows ==
    ASSUME AccountingInv, NEW a \in Actor, pc[a] = "decide",
           op[a].kind \in ProcessKinds
    PROVE  LET rebased == Rebase(before[a], Desired(op[a], before[a]), seen[a])
           IN  /\ op[a] \in ProcessOp
               /\ before[a] \in Rows /\ SamePIDs(before[a])
               /\ CanStart(op[a], before[a])
               /\ rebased \in Rows /\ SamePIDs(rebased)
<1> DEFINE desired == Desired(op[a], before[a])
           rebased == Rebase(before[a], desired, seen[a])
           t == [mem |-> seen[a].mem, util |-> seen[a].util]
<1>1. op[a] \in ProcessOp
  BY DEF AccountingInv, OperationKnown, Op, MemoryOp, ReplaceOp,
         MemoryKinds, ProcessKinds
<1>2. /\ before[a] \in Rows /\ SamePIDs(before[a])
      /\ CanStart(op[a], before[a])
  BY DEF AccountingInv, TypeOK, TablesWellFormed, OperationKnown
<1>3. desired \in Rows /\ SamePIDs(desired)
  BY <1>1, <1>2, DesiredRows
<1> HIDE DEF desired
<1>4. t \in Rows /\ SamePIDs(t)
  BY DEF AccountingInv, TypeOK, TablesWellFormed, Device, Rows, SamePIDs
<1>5. Rebase(before[a], desired, t) = rebased
  BY DEF Rebase
<1>6. rebased \in Rows /\ SamePIDs(rebased)
  BY <1>2, <1>3, <1>4, <1>5, RebaseRows
<1> QED
  BY <1>1, <1>2, <1>6 DEF desired

\* So are the rows of ReplaceProcesses.
LEMMA ReplacementRows ==
    ASSUME AccountingInv, NEW a \in Actor, pc[a] = "decide",
           op[a].kind = "replace"
    PROVE  LET rows == [mem  |-> [p \in op[a].pids |-> op[a].mib],
                        util |-> [p \in op[a].pids |-> 0]]
           IN  rows \in Rows /\ SamePIDs(rows)
<1>1. op[a].pids \in SUBSET PID /\ op[a].mib \in U64
  BY ControlAssumption
     DEF AccountingInv, OperationKnown, Op, MemoryOp, ProcessOp, ReplaceOp,
         MemoryKinds, ProcessKinds
<1>2. 0 \in U64
  BY UnitAssumption DEF U64
<1> QED
  BY <1>1, <1>2, ColumnIntro DEF Rows, SamePIDs

\* The base devices' pools are full.
LEMMA InitPool == Init => PoolInv
<1> SUFFICES ASSUME Init PROVE PoolInv
  OBVIOUS
<1>1. \A g \in GPU : FullPool(dev[g], g)
  BY BaseFullPool DEF Init
<1> QED
  BY <1>1, InitAccounting DEF PoolInv, Init

\* Every step keeps the pools full: one case per action.
LEMMA StepPool ==
    ASSUME WholeSizes, PoolInv, [Next]_vars
    PROVE  PoolInv'
<1>0. AccountingInv /\ AccountingInv'
  BY StepAccounting DEF PoolInv
<1>1. TypeOK
  BY <1>0 DEF AccountingInv
<1>2. ASSUME UNCHANGED dev
      PROVE  \A g \in GPU : FullPool(dev'[g], g)
  BY <1>2 DEF PoolInv
<1>3. ASSUME NEW a \in Actor,
             Begin(a) \/ PeekApps(a) \/ PeekPmon(a) \/ AcquireLock(a), ~ Fail(a)
      PROVE  PoolInv'
  <2>1. /\ pc'[a] \in {"peekApps", "peekPmon", "lock", "queryGPU"}
        /\ UNCHANGED dev
        /\ \A b \in Actor \ {a} :
              /\ pc'[b] = pc[b] /\ op'[b] = op[b]
              /\ seen'[b] = seen[b] /\ planned'[b] = planned[b]
    BY <1>1, <1>3 DEF Begin, PeekApps, PeekPmon, AcquireLock, Goto, TypeOK
  <2> QED
    BY <1>0, <1>2, <2>1, OneActorKeepsPool
<1>4. ASSUME NEW a \in Actor, QueryGPU(a), ~ Fail(a)
      PROVE  PoolInv'
  <2> DEFINE d == dev[Gpu(a)]
  <2>1. /\ seen' = [seen EXCEPT ![a].used = SeenBytes(d.used),
                                ![a].free = SeenBytes(d.free)]
        /\ pc[a] = "queryGPU" /\ Goto(a, "queryApps")
        /\ UNCHANGED <<dev, lock, op, before, planned>>
    BY <1>4 DEF QueryGPU
  <2>2. Gpu(a) \in GPU /\ d \in Device /\ FullPool(d, Gpu(a))
    BY <1>0, <2>1, OperationGpu DEF PoolInv
  <2>3. SeenBytes(d.used) = d.used /\ SeenBytes(d.free) = d.free
    BY <2>2, FullPoolShown
  <2> HIDE DEF d
  <2>4. /\ seen'[a].used = d.used /\ seen'[a].free = d.free
        /\ \A b \in Actor \ {a} : seen'[b] = seen[b] /\ pc'[b] = pc[b]
        /\ pc'[a] = "queryApps"
    BY <1>1, <2>1, <2>3 DEF TypeOK, Device, Goto
  <2>5. FullPool(seen'[a], Gpu(a))
    BY <2>2, <2>4 DEF FullPool
  <2> QED
    BY <1>0, <1>2, <2>1, <2>4, <2>5, OneActorKeepsPool DEF Gpu
<1>5. ASSUME NEW a \in Actor, QueryApps(a) \/ QueryPmon(a), ~ Fail(a)
      PROVE  PoolInv'
  <2>1. /\ UNCHANGED <<dev, op, planned>>
        /\ pc[a] \in {"queryApps", "queryPmon"}
        /\ pc'[a] \in {"queryPmon", "decide"}
        /\ seen'[a].used = seen[a].used /\ seen'[a].free = seen[a].free
        /\ \A b \in Actor \ {a} : pc'[b] = pc[b] /\ seen'[b] = seen[b]
    BY <1>1, <1>5 DEF QueryApps, QueryPmon, Goto, TypeOK, Device
  <2>2. FullPool(seen'[a], Gpu(a))
    BY <2>1 DEF PoolInv, FullPool
  <2> QED
    BY <1>0, <1>2, <2>1, <2>2, OneActorKeepsPool DEF Gpu
<1>6. ASSUME NEW a \in Actor, Decide(a)
      PROVE  PoolInv'
  <2> DEFINE g == Gpu(a)
             d == seen[a]
  <2>1. pc[a] = "decide"
    BY <1>6 DEF Decide, SetUsedMemory, ReserveMemory, ReleaseMemory,
                ReplaceProcessesFromState, ReplaceProcesses
  <2>2. g \in GPU /\ op[a] \in Op
    BY <1>0, <2>1, OperationGpu
  <2>3. d \in Device /\ Fits(d, g) /\ FullPool(d, g)
    BY <1>0, <2>1 DEF AccountingInv, TypeOK, ViewsFit, PoolInv
  <2> HIDE DEF g, d
  <2>4. ASSUME NEW e, Plan(a, e), FullPool(e, g) PROVE PoolInv'
    BY <1>0, <2>4, PlanKeepsPool DEF g
  <2>5. op[a].kind \in MemoryKinds =>
            op[a].bytes \in U64 /\ ShownExactly(op[a].bytes)
    BY <2>2, ControlAssumption
       DEF Op, MemoryOp, ProcessOp, ReplaceOp, MemoryKinds, WholeSizes
  <2>6. CASE SetUsedMemory(a)
    <3>1. op[a].bytes \in U64 /\ ShownExactly(op[a].bytes)
      BY <2>5, <2>6 DEF SetUsedMemory, MemoryKinds
    <3>2. CASE CanSetUsed(d, op[a].bytes) /\ Plan(a, SetUsed(d, op[a].bytes))
      BY <2>2, <2>3, <2>4, <3>1, <3>2, MemoryKeepsPool
    <3> QED
      BY <2>6, <3>2, FailKeepsPool DEF SetUsedMemory, d
  <2>7. CASE ReserveMemory(a)
    <3>1. op[a].bytes \in U64 /\ ShownExactly(op[a].bytes)
      BY <2>5, <2>7 DEF ReserveMemory, MemoryKinds
    <3>2. CASE CanReserve(d, op[a].bytes) /\ Plan(a, Reserve(d, op[a].bytes))
      BY <2>2, <2>3, <2>4, <3>1, <3>2, MemoryKeepsPool
    <3> QED
      BY <2>7, <3>2, FailKeepsPool DEF ReserveMemory, d
  <2>8. CASE ReleaseMemory(a)
    <3>1. op[a].bytes \in U64 /\ ShownExactly(op[a].bytes)
      BY <2>5, <2>8 DEF ReleaseMemory, MemoryKinds
    <3>2. CASE CanRelease(d, op[a].bytes) /\ Plan(a, Release(d, op[a].bytes))
      BY <2>2, <2>3, <2>4, <3>1, <3>2, MemoryKeepsPool
    <3> QED
      BY <2>8, <3>2, FailKeepsPool DEF ReleaseMemory, d
  <2>9. ASSUME NEW rows \in Rows, SamePIDs(rows),
               CanReconcile(d, TotalBytes(g), rows),
               Plan(a, Reconcile(d, TotalBytes(g), rows))
        PROVE  PoolInv'
    <3> DEFINE r == Reconcile(d, TotalBytes(g), rows)
    <3>1. FullPool(r, g)
      BY <2>2, <2>3, <2>9, ReconcileKeepsPool
    <3> HIDE DEF r
    <3>2. Plan(a, r)
      BY <2>9 DEF r
    <3> QED
      BY <2>4, <3>1, <3>2
  <2>10. CASE ReplaceProcessesFromState(a)
    <3> DEFINE rebased == Rebase(before[a], Desired(op[a], before[a]), seen[a])
    <3>1. rebased \in Rows /\ SamePIDs(rebased)
      BY <1>0, <2>1, <2>10, RebasedRows DEF ReplaceProcessesFromState
    <3> HIDE DEF rebased
    <3> QED
      BY <2>9, <2>10, <3>1, FailKeepsPool
         DEF ReplaceProcessesFromState, d, g, rebased
  <2>11. CASE ReplaceProcesses(a)
    <3> DEFINE rows == [mem  |-> [p \in op[a].pids |-> op[a].mib],
                        util |-> [p \in op[a].pids |-> 0]]
    <3>1. rows \in Rows /\ SamePIDs(rows)
      BY <1>0, <2>1, <2>11, ReplacementRows DEF ReplaceProcesses
    <3> HIDE DEF rows
    <3> QED
      BY <2>9, <2>11, <3>1, FailKeepsPool DEF ReplaceProcesses, d, g, rows
  <2> QED
    BY <1>6, <2>6, <2>7, <2>8, <2>10, <2>11 DEF Decide
<1>7. ASSUME NEW a \in Actor, Mutate(a) \/ OrphanMutate(a)
      PROVE  PoolInv'
  BY <1>0, <1>7, StoreKeepsPool DEF Mutate, OrphanMutate
<1>8. ASSUME NEW a \in Actor, Die(a), ~ Fail(a)
      PROVE  PoolInv'
  <2>1. /\ pc[a] = "mutate" /\ pc'[a] = "orphan"
        /\ UNCHANGED <<dev, op, seen, planned>>
        /\ \A b \in Actor \ {a} : pc'[b] = pc[b]
    BY <1>1, <1>8 DEF Die, Goto, TypeOK
  <2>2. FullPool(planned'[a], op'[a].gpu)
    BY <2>1 DEF PoolInv, Gpu
  <2> QED
    BY <1>0, <1>2, <2>1, <2>2, OneActorKeepsPool
<1>9. CASE Reset
  <2>1. PICK G : dev' = [g \in GPU |-> IF g \in G THEN BaseDevice(g) ELSE dev[g]]
    BY <1>9 DEF Reset
  <2>2. \A g \in GPU : FullPool(dev'[g], g)
    BY <2>1, BaseFullPool DEF PoolInv
  <2> QED
    BY <1>0, <1>9, <2>2 DEF PoolInv, Reset, Gpu
<1>10. CASE UNCHANGED vars
  BY <1>0, <1>10 DEF PoolInv, vars, Gpu
<1>11. ASSUME NEW a \in Actor, Fail(a) PROVE PoolInv'
  BY <1>11, FailKeepsPool
<1> QED
  BY <1>3, <1>4, <1>5, <1>6, <1>7, <1>8, <1>9, <1>10, <1>11 DEF Next, Continue

\* No sequence of operations, resets, killed actors and failing commands makes
\* VRAM appear or vanish, if the callers ask for whole numbers of MiB.
THEOREM PoolNeverLeaks ==
    ASSUME WholeSizes
    PROVE  Spec => []VisiblePoolPreserved
<1>1. PoolInv /\ [Next]_vars => PoolInv'
  BY StepPool
<1>2. PoolInv => VisiblePoolPreserved
  BY DEF PoolInv, FullPool, VisiblePoolPreserved
<1> QED
  BY <1>1, <1>2, InitPool, PTL DEF Spec

-----------------------------------------------------------------------------
(* The rows. *)

\* What the caller's wanted list differs in from the rows it saw: its own row.
LEMMA DesiredChanges ==
    ASSUME NEW o \in ProcessOp, NEW rows \in Rows, SamePIDs(rows),
           CanStart(o, rows)
    PROVE  LET desired == Desired(o, rows)
           IN  /\ o.kind \in ProcessKinds
               /\ o.kind = "add" =>
                     /\ o.mib # Unset /\ o.util # Unset
                     /\ Removed(rows, desired) = {}
                     /\ Changed(rows, desired) = {}
                     /\ Added(rows, desired) = {o.pid}
               /\ o.kind = "update" =>
                     /\ Removed(rows, desired) = {}
                     /\ Changed(rows, desired) \subseteq {o.pid}
                     /\ Added(rows, desired) = {}
               /\ o.kind = "remove" =>
                     /\ Removed(rows, desired) = {o.pid}
                     /\ Changed(rows, desired) = {}
                     /\ Added(rows, desired) = {}
               /\ o.kind # "remove" =>
                     /\ desired.mem[o.pid] =
                           IF o.mib # Unset THEN o.mib ELSE rows.mem[o.pid]
                     /\ desired.util[o.pid] =
                           IF o.util # Unset THEN o.util ELSE rows.util[o.pid]
<1> DEFINE desired == Desired(o, rows)
           pids == IF o.kind = "remove" THEN DOMAIN rows.mem \ {o.pid}
                                        ELSE DOMAIN rows.mem \cup {o.pid}
<1>1. /\ o.kind \in ProcessKinds
      /\ o.kind = "add" => o.mib # Unset /\ o.util # Unset
  BY ControlAssumption, UnitAssumption DEF ProcessOp, ProcessKinds, Unset, U64
<1>2. /\ DOMAIN desired.mem = pids
      /\ \A p \in pids :
            /\ desired.mem[p] = IF p = o.pid /\ o.mib # Unset
                                  THEN o.mib ELSE rows.mem[p]
            /\ desired.util[p] = IF p = o.pid /\ o.util # Unset
                                   THEN o.util ELSE rows.util[p]
  BY DEF Desired
<1> HIDE DEF desired
<1>3. \A p \in pids \ {o.pid} : SameRow(rows, desired, p)
  BY <1>2 DEF SameRow
<1>4. (o.kind = "add") <=> (o.pid \notin DOMAIN rows.mem)
  BY DEF CanStart
<1>5. /\ o.kind = "add" =>
            /\ Removed(rows, desired) = {}
            /\ Changed(rows, desired) = {}
            /\ Added(rows, desired) = {o.pid}
      /\ o.kind = "update" =>
            /\ Removed(rows, desired) = {}
            /\ Changed(rows, desired) \subseteq {o.pid}
            /\ Added(rows, desired) = {}
      /\ o.kind = "remove" =>
            /\ Removed(rows, desired) = {o.pid}
            /\ Changed(rows, desired) = {}
            /\ Added(rows, desired) = {}
  BY <1>2, <1>3, <1>4 DEF Removed, Changed, Added
<1> QED
  BY <1>1, <1>2, <1>5 DEF desired

\* Rebasing the wanted list on the present rows edits the caller's own row and
\* no other.
LEMMA RebaseEdits ==
    ASSUME NEW o \in ProcessOp, NEW rows \in Rows, SamePIDs(rows),
           CanStart(o, rows), NEW d \in Device, SamePIDs(d),
           CanRebase(rows, Desired(o, rows), d)
    PROVE  LET new == Rebase(rows, Desired(o, rows), d)
           IN  \/ /\ (o.kind = "add") <=> (o.pid \notin DOMAIN d.mem)
                  /\ new.mem = Edited(o, d.mem, o.mib)
                  /\ new.util = Edited(o, d.util, o.util)
               \/ /\ o.kind = "update"
                  /\ new.mem = d.mem
                  /\ new.util = d.util
<1> DEFINE desired == Desired(o, rows)
           new == Rebase(rows, desired, d)
           Col(cur, des) == RebaseColumn(rows, desired, cur, des)
<1> SUFFICES \/ /\ (o.kind = "add") <=> (o.pid \notin DOMAIN d.mem)
                /\ new.mem = Edited(o, d.mem, o.mib)
                /\ new.util = Edited(o, d.util, o.util)
             \/ /\ o.kind = "update"
                /\ new.mem = d.mem
                /\ new.util = d.util
  OBVIOUS
<1> HIDE DEF desired
<1>1. /\ o.kind \in ProcessKinds
      /\ o.kind = "add" =>
            /\ o.mib # Unset /\ o.util # Unset
            /\ Removed(rows, desired) = {}
            /\ Changed(rows, desired) = {}
            /\ Added(rows, desired) = {o.pid}
      /\ o.kind = "update" =>
            /\ Removed(rows, desired) = {}
            /\ Changed(rows, desired) \subseteq {o.pid}
            /\ Added(rows, desired) = {}
      /\ o.kind = "remove" =>
            /\ Removed(rows, desired) = {o.pid}
            /\ Changed(rows, desired) = {}
            /\ Added(rows, desired) = {}
      /\ o.kind # "remove" =>
            /\ desired.mem[o.pid] =
                  IF o.mib # Unset THEN o.mib ELSE rows.mem[o.pid]
            /\ desired.util[o.pid] =
                  IF o.util # Unset THEN o.util ELSE rows.util[o.pid]
  BY DesiredChanges DEF desired
<1>2. new.mem = Col(d.mem, desired.mem) /\ new.util = Col(d.util, desired.util)
  BY DEF Rebase
<1>3. DOMAIN d.util = DOMAIN d.mem
  BY DEF SamePIDs
<1>4. d.mem \in [DOMAIN d.mem -> U64] /\ d.util \in [DOMAIN d.util -> U64]
  BY ColumnElim, DeviceColumns
<1>5. CanRebase(rows, desired, d)
  BY DEF desired
<1>6. CASE o.kind = "add"
  <2>1. o.pid \notin DOMAIN d.mem
    BY <1>1, <1>5, <1>6 DEF CanRebase
  <2>2. ASSUME NEW cur, NEW des, NEW v, v # Unset, des[o.pid] = v
        PROVE  Col(cur, des) = Edited(o, cur, v)
    <3>1. (DOMAIN cur \ Removed(rows, desired)) \cup Added(rows, desired)
             = DOMAIN cur \cup {o.pid}
      BY <1>1, <1>6
    <3>2. \A p : p \in Changed(rows, desired) \cup Added(rows, desired)
                  <=> p = o.pid
      BY <1>1, <1>6
    <3>3. Col(cur, des) = [p \in DOMAIN cur \cup {o.pid} |->
                             IF p = o.pid THEN v ELSE cur[p]]
      BY <2>2, <3>1, <3>2 DEF RebaseColumn
    <3> QED
      BY <1>6, <2>2, <3>3 DEF Edited, Atomic!With
  <2> QED
    BY <1>1, <1>2, <1>6, <2>1, <2>2
<1>7. CASE o.kind = "update" /\ Changed(rows, desired) = {}
  <2>1. ASSUME NEW cur, cur \in [DOMAIN cur -> U64], NEW des
        PROVE  Col(cur, des) = cur
    <3>1. (DOMAIN cur \ Removed(rows, desired)) \cup Added(rows, desired)
             = DOMAIN cur
      BY <1>1, <1>7
    <3>2. \A p : p \notin Changed(rows, desired) \cup Added(rows, desired)
      BY <1>1, <1>7
    <3>3. Col(cur, des) = [p \in DOMAIN cur |-> cur[p]]
      BY <3>1, <3>2 DEF RebaseColumn
    <3> QED
      BY <2>1, <3>3
  <2> QED
    BY <1>2, <1>4, <1>7, <2>1
<1>8. CASE o.kind = "update" /\ Changed(rows, desired) = {o.pid}
  <2>1. o.pid \in DOMAIN d.mem /\ SameRow(d, rows, o.pid)
    BY <1>1, <1>5, <1>8 DEF CanRebase
  <2>2. ASSUME NEW cur, o.pid \in DOMAIN cur, NEW des, NEW v,
               des[o.pid] = IF v # Unset THEN v ELSE cur[o.pid]
        PROVE  Col(cur, des) = Edited(o, cur, v)
    <3> DEFINE w == IF v = Unset THEN cur[o.pid] ELSE v
    <3>1. (DOMAIN cur \ Removed(rows, desired)) \cup Added(rows, desired)
             = DOMAIN cur \cup {o.pid}
      BY <1>1, <1>8, <2>2
    <3>2. \A p : p \in Changed(rows, desired) \cup Added(rows, desired)
                  <=> p = o.pid
      BY <1>1, <1>8
    <3>3. des[o.pid] = w
      BY <2>2
    <3> HIDE DEF w
    <3>4. Col(cur, des) = [p \in DOMAIN cur \cup {o.pid} |->
                             IF p = o.pid THEN w ELSE cur[p]]
      BY <3>1, <3>2, <3>3 DEF RebaseColumn
    <3> QED
      BY <1>8, <3>4 DEF Edited, Atomic!With, w
  <2> QED
    BY <1>1, <1>2, <1>3, <1>8, <2>1, <2>2 DEF SameRow
<1>9. CASE o.kind = "remove"
  <2>1. o.pid \in DOMAIN d.mem
    BY <1>1, <1>5, <1>9 DEF CanRebase
  <2>2. ASSUME NEW cur, NEW des, NEW v
        PROVE  Col(cur, des) = Edited(o, cur, v)
    <3>1. (DOMAIN cur \ Removed(rows, desired)) \cup Added(rows, desired)
             = DOMAIN cur \ {o.pid}
      BY <1>1, <1>9
    <3>2. \A p : p \notin Changed(rows, desired) \cup Added(rows, desired)
      BY <1>1, <1>9
    <3>3. Col(cur, des) = [p \in DOMAIN cur \ {o.pid} |-> cur[p]]
      BY <3>1, <3>2 DEF RebaseColumn
    <3> QED
      BY <1>9, <3>3 DEF Edited, Atomic!Without
  <2> QED
    BY <1>2, <1>9, <2>1, <2>2
<1>10. \/ o.kind \in {"add", "remove"}
       \/ o.kind = "update" /\ Changed(rows, desired) \in {{}, {o.pid}}
  BY <1>1 DEF ProcessKinds
<1> QED
  BY <1>6, <1>7, <1>8, <1>9, <1>10

\* When pmon answers, a table keeps its values on the way through it.
LEMMA AttachPmonExact ==
    ASSUME NEW d \in Device, SamePIDs(d)
    PROVE  AttachPmon(d.mem, d.util, TRUE) = d.util
<1>1. d.util \in [DOMAIN d.mem -> U64]
  BY ColumnElim, DeviceColumns DEF SamePIDs
<1>2. AttachPmon(d.mem, d.util, TRUE) = [p \in DOMAIN d.mem |-> d.util[p]]
  BY <1>1 DEF AttachPmon
<1> QED
  BY <1>1, <1>2

\* A step of actor a alone that leaves the devices as they are.
LEMMA PrivateStepKeepsRows ==
    ASSUME RowsInv, NEW a \in Actor, UNCHANGED dev,
           \A b \in Actor \ {a} :
              /\ pc'[b] = pc[b] /\ op'[b] = op[b]
              /\ seen'[b] = seen[b] /\ planned'[b] = planned[b],
           pc'[a] = "decide" => seen'[a].util = dev[op'[a].gpu].util,
           pc'[a] = "mutate" => RowsPlanned(a)'
    PROVE  RowsInv'
<1>1. ASSUME NEW b \in Actor
      PROVE  /\ pc'[b] = "decide" => seen'[b].util = dev'[op'[b].gpu].util
             /\ pc'[b] = "mutate" => RowsPlanned(b)'
  <2>1. CASE b = a
    BY <2>1
  <2>2. CASE b # a
    <3>1. /\ pc'[b] = pc[b] /\ op'[b] = op[b]
          /\ seen'[b] = seen[b] /\ planned'[b] = planned[b]
      BY <2>2
    <3>2. RowsPlanned(b) => RowsPlanned(b)'
      BY <3>1 DEF RowsPlanned, Gpu
    <3> QED
      BY <3>1, <3>2 DEF RowsInv, Gpu
  <2> QED
    BY <2>1, <2>2
<1> QED
  BY <1>1 DEF RowsInv, Gpu

\* What every action leaves alone of the other actors.
LEMMA FailIsPrivate ==
    ASSUME TypeOK, NEW a \in Actor, Return(a)
    PROVE  /\ pc'[a] = "idle"
           /\ \A b \in Actor \ {a} :
                 /\ pc'[b] = pc[b] /\ op'[b] = op[b]
                 /\ seen'[b] = seen[b] /\ planned'[b] = planned[b]
BY DEF TypeOK, Return, Forget

\* The decision of a process operation plans the rows of the device at that
\* moment, edited.
LEMMA DecideRows ==
    ASSUME CoverageInv, RowsInv, NEW a \in Actor, Decide(a), ~ Fail(a)
    PROVE  RowsPlanned(a)'
<1> DEFINE g == Gpu(a)
           d == dev[g]
           Moves(e) == /\ planned'[a] = e /\ op'[a] = op[a] /\ UNCHANGED dev
<1>1. AccountingInv /\ TypeOK
  BY DEF CoverageInv, AccountingInv
<1>2. pc[a] = "decide"
  BY DEF Decide, SetUsedMemory, ReserveMemory, ReleaseMemory,
         ReplaceProcessesFromState, ReplaceProcesses
<1>3. g \in GPU /\ d \in Device /\ SamePIDs(d)
  BY <1>1, <1>2, OperationGpu
<1>4. seen[a].mem = d.mem /\ seen[a].util = d.util /\ seen[a] \in Device
  BY <1>1, <1>2 DEF CoverageInv, LockedView, RowsInv, TypeOK
<1>5. ASSUME NEW e, Plan(a, e) PROVE Moves(e)
  BY <1>1, <1>5 DEF Plan, TypeOK
<1>6. CASE SetUsedMemory(a) \/ ReserveMemory(a) \/ ReleaseMemory(a)
  <2>1. op'[a].kind \in MemoryKinds
    BY <1>6 DEF SetUsedMemory, ReserveMemory, ReleaseMemory, MemoryKinds, Plan
  <2> QED
    BY <2>1 DEF RowsPlanned, MemoryKinds, ProcessKinds
<1>7. CASE ReplaceProcessesFromState(a)
  <2> DEFINE desired == Desired(op[a], before[a])
             new == Rebase(before[a], desired, seen[a])
             r == Reconcile(seen[a], TotalBytes(g), new)
  <2>1. Plan(a, r) /\ CanRebase(before[a], desired, seen[a])
    BY <1>7 DEF ReplaceProcessesFromState
  <2>2. /\ op[a] \in ProcessOp /\ before[a] \in Rows /\ SamePIDs(before[a])
        /\ CanStart(op[a], before[a]) /\ op[a].kind \in ProcessKinds
    BY <1>1, <1>2, <1>7, RebasedRows DEF ReplaceProcessesFromState
  <2>3. SamePIDs(seen[a])
    BY <1>3, <1>4 DEF SamePIDs
  <2>4. \/ /\ (op[a].kind = "add") <=> (op[a].pid \notin DOMAIN d.mem)
           /\ new.mem = Edited(op[a], d.mem, op[a].mib)
           /\ new.util = Edited(op[a], d.util, op[a].util)
        \/ /\ op[a].kind = "update"
           /\ new.mem = d.mem
           /\ new.util = d.util
    BY <1>4, <2>1, <2>2, <2>3, RebaseEdits
  <2>5. r.mem = new.mem /\ r.util = new.util
    BY DEF Reconcile
  <2>6. Moves(r)
    BY <1>5, <2>1
  <2> HIDE DEF r, new
  <2>7. op[a].kind # "replace"
    BY <2>2 DEF ProcessKinds
  <2> QED
    BY <2>4, <2>5, <2>6, <2>7 DEF RowsPlanned, Gpu
<1>8. CASE ReplaceProcesses(a)
  <2> DEFINE rows == [mem  |-> [p \in op[a].pids |-> op[a].mib],
                      util |-> [p \in op[a].pids |-> 0]]
             r == Reconcile(seen[a], TotalBytes(g), rows)
  <2>1. Plan(a, r) /\ op[a].kind = "replace"
    BY <1>8 DEF ReplaceProcesses
  <2>2. r.mem = rows.mem /\ r.util = rows.util
    BY DEF Reconcile
  <2>3. Moves(r)
    BY <1>5, <2>1
  <2> HIDE DEF r
  <2> QED
    BY <2>1, <2>2, <2>3 DEF RowsPlanned, ProcessKinds
<1> QED
  BY <1>6, <1>7, <1>8 DEF Decide

\* Without reset, killed actors and pmon errors every step keeps the rows'
\* invariant: one case per action.
LEMMA StepRows ==
    ASSUME "reset" \notin Kinds, ~ ActorsMayDie, ~ PmonMayFail,
           CoverageInv, RowsInv, [Next]_vars
    PROVE  RowsInv'
<1>1. AccountingInv /\ TypeOK
  BY DEF CoverageInv, AccountingInv
<1>2. ASSUME NEW a \in Actor, Fail(a) PROVE RowsInv'
  BY <1>1, <1>2, FailIsPrivate, PrivateStepKeepsRows DEF Fail
<1>3. ASSUME NEW a \in Actor, ~ Fail(a),
             \/ Begin(a) \/ PeekApps(a) \/ PeekPmon(a) \/ AcquireLock(a)
             \/ QueryGPU(a) \/ QueryApps(a)
      PROVE  RowsInv'
  <2>1. /\ pc'[a] \notin {"decide", "mutate"} /\ UNCHANGED dev
        /\ \A b \in Actor \ {a} :
              /\ pc'[b] = pc[b] /\ op'[b] = op[b]
              /\ seen'[b] = seen[b] /\ planned'[b] = planned[b]
    BY <1>1, <1>3 DEF Begin, PeekApps, PeekPmon, AcquireLock, QueryGPU,
                      QueryApps, Goto, TypeOK
  <2> QED
    BY <2>1, PrivateStepKeepsRows
<1>4. ASSUME NEW a \in Actor, QueryPmon(a) PROVE RowsInv'
  <2> DEFINE d == dev[Gpu(a)]
  <2>1. /\ pc[a] = "queryPmon" /\ pc'[a] = "decide"
        /\ UNCHANGED <<dev, op, planned>>
        /\ seen' = [seen EXCEPT ![a].util = AttachPmon(seen[a].mem, d.util, TRUE)]
        /\ \A b \in Actor \ {a} : pc'[b] = pc[b]
    BY <1>1, <1>4 DEF QueryPmon, PmonAnswers, Goto, TypeOK
  <2>2. seen[a].mem = d.mem /\ d \in Device /\ SamePIDs(d)
    BY <1>1, <2>1, OperationGpu DEF CoverageInv, LockedView
  <2>3. AttachPmon(seen[a].mem, d.util, TRUE) = d.util
    BY <2>2, AttachPmonExact
  <2>4. /\ seen'[a].util = d.util
        /\ \A b \in Actor \ {a} : seen'[b] = seen[b]
    BY <1>1, <2>1, <2>3 DEF TypeOK, Device
  <2> QED
    BY <2>1, <2>4, PrivateStepKeepsRows DEF Gpu
<1>5. ASSUME NEW a \in Actor, Decide(a), ~ Fail(a) PROVE RowsInv'
  <2>1. RowsPlanned(a)'
    BY <1>5, DecideRows
  <2>2. PICK e : Plan(a, e)
    BY <1>5 DEF Decide, SetUsedMemory, ReserveMemory, ReleaseMemory,
                ReplaceProcessesFromState, ReplaceProcesses
  <2>3. /\ pc'[a] = "mutate" /\ UNCHANGED <<dev, op>>
        /\ \A b \in Actor \ {a} :
              /\ pc'[b] = pc[b] /\ seen'[b] = seen[b] /\ planned'[b] = planned[b]
    BY <1>1, <2>2 DEF Plan, Goto, TypeOK
  <2> QED
    BY <2>1, <2>3, PrivateStepKeepsRows
<1>6. ASSUME NEW a \in Actor, Mutate(a) PROVE RowsInv'
  <2>1. pc'[a] = "idle" /\ \A b \in Actor \ {a} : pc'[b] = pc[b]
    BY <1>1, <1>6 DEF Mutate, Return, TypeOK
  <2>2. \A b \in Actor \ {a} : pc[b] \notin {"decide", "mutate"}
    BY <1>6 DEF Mutate, CoverageInv, LockedView, Holding
  <2> QED
    BY <2>1, <2>2 DEF RowsInv
<1>7. ASSUME NEW a \in Actor, OrphanMutate(a) PROVE FALSE
  BY <1>7 DEF OrphanMutate, CoverageInv, LockedView
<1>8. CASE UNCHANGED vars
  BY <1>8 DEF vars, RowsInv, RowsPlanned, Gpu
<1> QED
  BY <1>2, <1>3, <1>4, <1>5, <1>6, <1>7, <1>8 DEF Next, Continue, Die, Reset

\* An operation that ends has just run nvml-mock-ctl.
LEMMA EndsByMutate ==
    ASSUME TypeOK, ~ ActorsMayDie, NEW a \in Actor, [Next]_vars,
           pc[a] = "mutate", pc'[a] = "idle"
    PROVE  Mutate(a)
<1>1. ASSUME NEW b \in Actor, Begin(b) \/ Continue(b), b # a
      PROVE  FALSE
  <2>1. CASE Return(b)
    BY <1>1, <2>1, FailIsPrivate
  <2>2. CASE ~ Return(b)
    <3>1. PICK to : Goto(b, to)
      BY <1>1, <2>2 DEF Begin, Continue, PeekApps, PeekPmon, AcquireLock,
         QueryGPU, QueryApps, QueryPmon, Decide, SetUsedMemory, ReserveMemory,
         ReleaseMemory, ReplaceProcessesFromState, ReplaceProcesses, Plan,
         Mutate, OrphanMutate, Fail
    <3> QED
      BY <1>1, <3>1 DEF Goto, TypeOK
  <2> QED
    BY <2>1, <2>2
<1>2. ASSUME Begin(a) \/ Continue(a)
      PROVE  Mutate(a)
  BY <1>2 DEF Begin, Continue, PeekApps, PeekPmon, AcquireLock,
         QueryGPU, QueryApps, QueryPmon, Decide, SetUsedMemory, ReserveMemory,
         ReleaseMemory, ReplaceProcessesFromState, ReplaceProcesses,
         OrphanMutate
<1>3. ~ UNCHANGED pc
  OBVIOUS
<1> QED
  BY <1>1, <1>2, <1>3 DEF Next, Die, Reset, vars

\* What the store of a process operation does to a column.
LEMMA StoredColumn ==
    ASSUME CoverageInv, RowsInv, NEW a \in Actor, Mutate(a),
           op[a].kind \in ProcessKinds
    PROVE  LET d == dev[Gpu(a)]
               e == dev'[Gpu(a)]
           IN  /\ d \in Device /\ SamePIDs(d)
               /\ \/ e.mem = d.mem /\ e.util = d.util
                  \/ /\ (op[a].kind = "add") <=> (op[a].pid \notin DOMAIN d.mem)
                     /\ e.mem = Edited(op[a], d.mem, op[a].mib)
                     /\ e.util = Edited(op[a], d.util, op[a].util)
<1> DEFINE d == dev[Gpu(a)]
           e == dev'[Gpu(a)]
<1>1. AccountingInv /\ TypeOK /\ pc[a] = "mutate"
  BY DEF CoverageInv, AccountingInv, Mutate
<1>2. Gpu(a) \in GPU /\ d \in Device /\ SamePIDs(d)
  BY <1>1, OperationGpu
<1>3. RowsPlanned(a)
  BY <1>1 DEF RowsInv
<1>4. op[a].kind \notin MemoryKinds
  BY DEF ProcessKinds, MemoryKinds
<1>5. e = planned[a] \/ e = d
  BY <1>1, <1>2, <1>4 DEF Mutate, Stored, TypeOK
<1> QED
  BY <1>2, <1>3, <1>5 DEF RowsPlanned

\* A process operation leaves the rows of all other PIDs alone.
LEMMA StepKeepsOthers ==
    ASSUME "reset" \notin Kinds, ~ ActorsMayDie, ~ PmonMayFail,
           CoverageInv, RowsInv, [Next]_vars, NEW a \in Actor,
           Ends(a), op[a].kind \in ProcessKinds
    PROVE  OthersKept(a, "mem") /\ OthersKept(a, "util")
<1> DEFINE d == dev[Gpu(a)]
           e == dev'[Gpu(a)]
<1>1. Mutate(a)
  BY EndsByMutate DEF CoverageInv, AccountingInv, LockedView, Ends
<1>2. \/ e.mem = d.mem /\ e.util = d.util
      \/ /\ e.mem = Edited(op[a], d.mem, op[a].mib)
         /\ e.util = Edited(op[a], d.util, op[a].util)
  BY <1>1, StoredColumn
<1>3. ASSUME NEW old, NEW v, NEW p, p # op[a].pid
      PROVE  /\ p \in DOMAIN old <=> p \in DOMAIN Edited(op[a], old, v)
             /\ p \in DOMAIN old => old[p] = Edited(op[a], old, v)[p]
  BY <1>3 DEF Edited, Atomic!With, Atomic!Without
<1>4. \A p \in PID \ {op[a].pid} :
        /\ p \in DOMAIN d.mem <=> p \in DOMAIN e.mem
        /\ p \in DOMAIN d.mem => d.mem[p] = e.mem[p]
        /\ p \in DOMAIN d.util <=> p \in DOMAIN e.util
        /\ p \in DOMAIN d.util => d.util[p] = e.util[p]
  BY <1>2, <1>3
<1> HIDE DEF d, e
<1>5. /\ d["mem"] = d.mem /\ d["util"] = d.util
      /\ e["mem"] = e.mem /\ e["util"] = e.util
  OBVIOUS
<1> QED
  BY <1>4, <1>5 DEF OthersKept, EntryKept, d, e

\* An update keeps the fields that the caller does not supply.
LEMMA StepKeepsUnsupplied ==
    ASSUME "reset" \notin Kinds, ~ ActorsMayDie, ~ PmonMayFail,
           CoverageInv, RowsInv, [Next]_vars, NEW a \in Actor,
           Ends(a), op[a].kind = "update"
    PROVE  /\ op[a].mib = Unset => EntryKept(a, "mem", op[a].pid)
           /\ op[a].util = Unset => EntryKept(a, "util", op[a].pid)
<1> DEFINE d == dev[Gpu(a)]
           e == dev'[Gpu(a)]
           pid == op[a].pid
<1>1. Mutate(a)
  BY EndsByMutate DEF CoverageInv, AccountingInv, LockedView, Ends
<1>2. /\ SamePIDs(d)
      /\ \/ e.mem = d.mem /\ e.util = d.util
         \/ /\ pid \in DOMAIN d.mem
            /\ e.mem = Edited(op[a], d.mem, op[a].mib)
            /\ e.util = Edited(op[a], d.util, op[a].util)
  BY <1>1, StoredColumn DEF ProcessKinds
<1>3. ASSUME NEW old, pid \in DOMAIN old
      PROVE  /\ pid \in DOMAIN Edited(op[a], old, Unset)
             /\ old[pid] = Edited(op[a], old, Unset)[pid]
  BY <1>3 DEF Edited, Atomic!With
<1>4. /\ op[a].mib = Unset =>
            /\ pid \in DOMAIN d.mem <=> pid \in DOMAIN e.mem
            /\ pid \in DOMAIN d.mem => d.mem[pid] = e.mem[pid]
      /\ op[a].util = Unset =>
            /\ pid \in DOMAIN d.util <=> pid \in DOMAIN e.util
            /\ pid \in DOMAIN d.util => d.util[pid] = e.util[pid]
  BY <1>2, <1>3 DEF SamePIDs
<1> HIDE DEF d, e
<1>5. /\ d["mem"] = d.mem /\ d["util"] = d.util
      /\ e["mem"] = e.mem /\ e["util"] = e.util
  OBVIOUS
<1> QED
  BY <1>4, <1>5 DEF EntryKept, d, e

\* "Unrelated concurrent PID changes are preserved" although the list of
\* wanted rows was computed without the lock, as long as every store happens
\* under it and pmon answers.
THEOREM OthersRowsSurvive ==
    ASSUME "reset" \notin Kinds, ~ ActorsMayDie, ~ PmonMayFail
    PROVE  Spec => UnrelatedRowsPreserved
<1>1. Init => CoverageInv /\ RowsInv
  BY InitCoverage DEF Init, RowsInv
<1>2. CoverageInv /\ RowsInv /\ [Next]_vars => CoverageInv' /\ RowsInv'
  BY StepCoverage, StepRows
<1>3. CoverageInv /\ RowsInv /\ [Next]_vars =>
        [\A a \in Actor :
            Ends(a) /\ op[a].kind \in ProcessKinds =>
                OthersKept(a, "mem") /\ OthersKept(a, "util")]_vars
  BY StepKeepsOthers
<1> QED
  BY <1>1, <1>2, <1>3, PTL DEF Spec, UnrelatedRowsPreserved

\* "A process update preserves fields that were not supplied", its size as well
\* as its utilizations, under the same conditions: the caller's copy of them may
\* be older than the lock (UpdatePreservesUnsupplied).
THEOREM UnsuppliedFieldsSurvive ==
    ASSUME "reset" \notin Kinds, ~ ActorsMayDie, ~ PmonMayFail
    PROVE  Spec => UpdatePreservesUnsupplied
<1>1. Init => CoverageInv /\ RowsInv
  BY InitCoverage DEF Init, RowsInv
<1>2. CoverageInv /\ RowsInv /\ [Next]_vars => CoverageInv' /\ RowsInv'
  BY StepCoverage, StepRows
<1>3. CoverageInv /\ RowsInv /\ [Next]_vars =>
        [\A a \in Actor :
            Ends(a) /\ op[a].kind = "update" =>
                /\ op[a].mib = Unset => EntryKept(a, "mem", op[a].pid)
                /\ op[a].util = Unset => EntryKept(a, "util", op[a].pid)]_vars
  BY StepKeepsUnsupplied
<1> QED
  BY <1>1, <1>2, <1>3, PTL DEF Spec, UpdatePreservesUnsupplied

-----------------------------------------------------------------------------
(* The byte counts. *)

\* A step of actor a alone that leaves the devices as they are.
LEMMA PrivateStepKeepsBytes ==
    ASSUME BytesInv, NEW a \in Actor, UNCHANGED dev,
           \A b \in Actor \ {a} :
              pc'[b] = pc[b] /\ op'[b] = op[b] /\ planned'[b] = planned[b],
           pc'[a] = "mutate" => BytesPlanned(a)'
    PROVE  BytesInv'
<1>1. ASSUME NEW b \in Actor, pc'[b] = "mutate"
      PROVE  BytesPlanned(b)'
  <2>1. CASE b = a
    BY <1>1, <2>1
  <2>2. CASE b # a
    <3>1. pc'[b] = pc[b] /\ op'[b] = op[b] /\ planned'[b] = planned[b]
      BY <2>2
    <3>2. BytesPlanned(b) => BytesPlanned(b)'
      BY <3>1 DEF BytesPlanned, Gpu
    <3> QED
      BY <1>1, <3>1, <3>2 DEF BytesInv
  <2> QED
    BY <2>1, <2>2
<1> QED
  BY <1>1 DEF BytesInv

\* What an actor decides on under the lock is the device, to the byte.
LEMMA DecidesOnDevice ==
    ASSUME CoverageInv, PoolInv, NEW a \in Actor, pc[a] = "decide"
    PROVE  /\ op[a] \in Op /\ Gpu(a) \in GPU
           /\ dev[Gpu(a)] \in Device /\ seen[a] \in Device
           /\ Covered(dev[Gpu(a)])
           /\ seen[a].used = dev[Gpu(a)].used
           /\ seen[a].free = dev[Gpu(a)].free
           /\ seen[a].mem = dev[Gpu(a)].mem
<1>1. op[a] \in Op /\ Gpu(a) \in GPU /\ dev[Gpu(a)] \in Device
  BY OperationGpu DEF PoolInv
<1>2. FullPool(dev[Gpu(a)], Gpu(a)) /\ Covered(dev[Gpu(a)])
  BY <1>1 DEF PoolInv, CoverageInv, UsageCoversProcesses
<1>3. /\ seen[a].used = SeenBytes(dev[Gpu(a)].used)
      /\ seen[a].free = SeenBytes(dev[Gpu(a)].free)
      /\ seen[a].mem = dev[Gpu(a)].mem /\ seen[a] \in Device
  BY DEF CoverageInv, AccountingInv, TypeOK, LockedView
<1> QED
  BY <1>1, <1>2, <1>3, FullPoolShown

\* The decision plans exactly the bytes that the operation is about.
LEMMA DecideBytes ==
    ASSUME CoverageInv, PoolInv, NEW a \in Actor, Decide(a), ~ Fail(a)
    PROVE  BytesPlanned(a)'
<1> DEFINE g == Gpu(a)
           d == dev[g]
           n == op[a].bytes
           Moves(e) == /\ planned'[a] = e /\ UNCHANGED <<dev, op>>
<1>1. TypeOK
  BY DEF CoverageInv, AccountingInv
<1>2. pc[a] = "decide"
  BY DEF Decide, SetUsedMemory, ReserveMemory, ReleaseMemory,
         ReplaceProcessesFromState, ReplaceProcesses
<1>3. /\ op[a] \in Op /\ d \in Device /\ seen[a] \in Device /\ Covered(d)
      /\ seen[a].used = d.used /\ seen[a].free = d.free /\ seen[a].mem = d.mem
  BY <1>2, DecidesOnDevice
<1>4. ASSUME NEW e, Plan(a, e) PROVE Moves(e)
  BY <1>1, <1>4 DEF Plan, TypeOK
<1>5. op[a].kind \in MemoryKinds => n \in Nat
  <2>1. op[a].kind \in MemoryKinds => n \in U64
    BY <1>3, ControlAssumption
       DEF Op, MemoryOp, ProcessOp, ReplaceOp, MemoryKinds
  <2> QED
    BY <2>1, UnitAssumption DEF U64
<1>6. /\ d.used \in Nat /\ OwnedBytes(d.mem) \in Nat
      /\ OwnedBytes(d.mem) <= d.used
  BY <1>3, UnitAssumption DEF Device, U64, Covered, OwnedBytes
<1>7. CASE SetUsedMemory(a)
  <2>1. /\ op[a].kind = "used" /\ Plan(a, SetUsed(seen[a], n))
        /\ SumFits(d.mem) /\ n >= ProcessBytes(d.mem)
    BY <1>3, <1>7 DEF SetUsedMemory, CanSetUsed
  <2>2. SetUsed(seen[a], n).used = n /\ OwnedBytes(d.mem) <= n
    BY <1>3, <1>5, <2>1, ProcessBytesExact DEF SetUsed, Device, MemoryKinds
  <2>3. Moves(SetUsed(seen[a], n))
    BY <1>4, <2>1
  <2> QED
    BY <2>1, <2>2, <2>3 DEF BytesPlanned, Gpu, MemoryKinds
<1>8. CASE ReserveMemory(a)
  <2>1. op[a].kind = "reserve" /\ Plan(a, Reserve(seen[a], n)) /\ n \in Nat
    BY <1>5, <1>8 DEF ReserveMemory, MemoryKinds
  <2>2. /\ Reserve(seen[a], n).used = d.used + n
        /\ OwnedBytes(d.mem) <= d.used + n
    BY <1>3, <1>6, <2>1 DEF Reserve, Device
  <2>3. Moves(Reserve(seen[a], n))
    BY <1>4, <2>1
  <2> QED
    BY <2>1, <2>2, <2>3 DEF BytesPlanned, Gpu, MemoryKinds
<1>9. CASE ReleaseMemory(a)
  <2>1. /\ op[a].kind = "release" /\ Plan(a, Release(seen[a], n)) /\ n \in Nat
        /\ SumFits(d.mem) /\ n <= d.used - ProcessBytes(d.mem)
    BY <1>3, <1>5, <1>9 DEF ReleaseMemory, CanRelease, MemoryKinds
  <2>2. /\ Release(seen[a], n).used = d.used - n
        /\ OwnedBytes(d.mem) <= d.used - n
    BY <1>3, <1>6, <2>1, ProcessBytesExact DEF Release, Device
  <2>3. Moves(Release(seen[a], n))
    BY <1>4, <2>1
  <2> QED
    BY <2>1, <2>2, <2>3 DEF BytesPlanned, Gpu, MemoryKinds
<1>10. ASSUME NEW rows, CanReconcile(seen[a], TotalBytes(g), rows),
              op[a].kind \notin MemoryKinds,
              Plan(a, Reconcile(seen[a], TotalBytes(g), rows))
       PROVE  BytesPlanned(a)'
  <2> DEFINE r == Reconcile(seen[a], TotalBytes(g), rows)
  <2>1. /\ SumFits(d.mem) /\ SumFits(rows.mem)
        /\ ProcessBytes(d.mem) = OwnedBytes(d.mem)
        /\ ProcessBytes(rows.mem) = OwnedBytes(rows.mem)
    BY <1>3, <1>10, ProcessBytesExact DEF CanReconcile
  <2>2. /\ r.mem = rows.mem
        /\ r.used = d.used - OwnedBytes(d.mem) + OwnedBytes(rows.mem)
    BY <1>3, <2>1 DEF Reconcile, NonProcessUsed
  <2>3. Moves(r)
    BY <1>4, <1>10
  <2> HIDE DEF r
  <2> QED
    BY <1>10, <2>1, <2>2, <2>3 DEF BytesPlanned, Gpu, MemoryKinds
<1>11. CASE ReplaceProcessesFromState(a)
  BY <1>10, <1>11 DEF ReplaceProcessesFromState, ProcessKinds, MemoryKinds
<1>12. CASE ReplaceProcesses(a)
  BY <1>10, <1>12 DEF ReplaceProcesses, MemoryKinds
<1> QED
  BY <1>7, <1>8, <1>9, <1>11, <1>12 DEF Decide

\* Without reset and killed actors every step keeps the bytes' invariant.
LEMMA StepBytes ==
    ASSUME "reset" \notin Kinds, ~ ActorsMayDie,
           CoverageInv, PoolInv, BytesInv, [Next]_vars
    PROVE  BytesInv'
<1>1. TypeOK
  BY DEF CoverageInv, AccountingInv
<1>2. ASSUME NEW a \in Actor, Fail(a) PROVE BytesInv'
  BY <1>1, <1>2, FailIsPrivate, PrivateStepKeepsBytes DEF Fail
<1>3. ASSUME NEW a \in Actor, ~ Fail(a),
             \/ Begin(a) \/ PeekApps(a) \/ PeekPmon(a) \/ AcquireLock(a)
             \/ QueryGPU(a) \/ QueryApps(a) \/ QueryPmon(a)
      PROVE  BytesInv'
  <2>1. /\ pc'[a] # "mutate" /\ UNCHANGED dev
        /\ \A b \in Actor \ {a} :
              pc'[b] = pc[b] /\ op'[b] = op[b] /\ planned'[b] = planned[b]
    BY <1>1, <1>3 DEF Begin, PeekApps, PeekPmon, AcquireLock, QueryGPU,
                      QueryApps, QueryPmon, Goto, TypeOK
  <2> QED
    BY <2>1, PrivateStepKeepsBytes
<1>4. ASSUME NEW a \in Actor, Decide(a), ~ Fail(a) PROVE BytesInv'
  <2>1. BytesPlanned(a)'
    BY <1>4, DecideBytes
  <2>2. PICK e : Plan(a, e)
    BY <1>4 DEF Decide, SetUsedMemory, ReserveMemory, ReleaseMemory,
                ReplaceProcessesFromState, ReplaceProcesses
  <2>3. /\ UNCHANGED <<dev, op>>
        /\ \A b \in Actor \ {a} : pc'[b] = pc[b] /\ planned'[b] = planned[b]
    BY <1>1, <2>2 DEF Plan, Goto, TypeOK
  <2> QED
    BY <2>1, <2>3, PrivateStepKeepsBytes
<1>5. ASSUME NEW a \in Actor, Mutate(a) PROVE BytesInv'
  <2>1. pc'[a] = "idle" /\ \A b \in Actor \ {a} : pc'[b] = pc[b]
    BY <1>1, <1>5 DEF Mutate, Return, TypeOK
  <2>2. \A b \in Actor \ {a} : pc[b] # "mutate"
    BY <1>5 DEF Mutate, CoverageInv, LockedView, Holding
  <2> QED
    BY <2>1, <2>2 DEF BytesInv
<1>6. ASSUME NEW a \in Actor, OrphanMutate(a) PROVE FALSE
  BY <1>6 DEF OrphanMutate, CoverageInv, LockedView
<1>7. CASE UNCHANGED vars
  BY <1>7 DEF vars, BytesInv, BytesPlanned, Gpu
<1> QED
  BY <1>2, <1>3, <1>4, <1>5, <1>6, <1>7 DEF Next, Continue, Die, Reset

\* A process operation leaves the VRAM that no row owns alone.
LEMMA StepKeepsSystem ==
    ASSUME ~ ActorsMayDie, CoverageInv, BytesInv, [Next]_vars,
           NEW a \in Actor, Ends(a), op[a].kind \notin MemoryKinds
    PROVE  NonProcessUsed(dev'[Gpu(a)]) = NonProcessUsed(dev[Gpu(a)])
<1> DEFINE d == dev[Gpu(a)]
           r == planned[a]
<1>1. TypeOK /\ AccountingInv /\ pc[a] = "mutate" /\ Mutate(a)
  BY EndsByMutate DEF CoverageInv, AccountingInv, LockedView, Ends
<1>2. Gpu(a) \in GPU /\ d \in Device
  BY <1>1, OperationGpu
<1>3. /\ SumFits(d.mem) /\ SumFits(r.mem)
      /\ r.used = d.used - OwnedBytes(d.mem) + OwnedBytes(r.mem)
  BY <1>1 DEF BytesInv, BytesPlanned
<1>4. NonProcessUsed(r) = NonProcessUsed(d)
  <2>1. /\ ProcessBytes(d.mem) = OwnedBytes(d.mem) /\ OwnedBytes(d.mem) \in Nat
        /\ ProcessBytes(r.mem) = OwnedBytes(r.mem) /\ OwnedBytes(r.mem) \in Nat
        /\ d.used \in Nat
    BY <1>2, <1>3, ProcessBytesExact, UnitAssumption DEF Device, U64
  <2> QED
    BY <1>3, <2>1 DEF NonProcessUsed
<1>5. dev'[Gpu(a)] = r \/ dev'[Gpu(a)] = d
  BY <1>1, <1>2 DEF Mutate, Stored, TypeOK
<1> QED
  BY <1>4, <1>5

\* "Process mutations preserve existing non-process/system usage", as long as
\* every store happens under the lock and callers ask for whole MiB; pmon may
\* fail.
THEOREM SystemUsageSurvives ==
    ASSUME "reset" \notin Kinds, ~ ActorsMayDie, WholeSizes
    PROVE  Spec => SystemUsagePreserved
<1> DEFINE Inv == CoverageInv /\ PoolInv /\ BytesInv
<1>1. Init => Inv
  BY InitCoverage, InitPool DEF Init, BytesInv
<1>2. Inv /\ [Next]_vars => Inv'
  BY StepCoverage, StepPool, StepBytes
<1>3. Inv /\ [Next]_vars =>
        [\A a \in Actor :
            Ends(a) /\ op[a].kind \notin MemoryKinds =>
                NonProcessUsed(dev'[Gpu(a)]) = NonProcessUsed(dev[Gpu(a)])]_vars
  BY StepKeepsSystem
<1> QED
  BY <1>1, <1>2, <1>3, PTL DEF Spec, SystemUsagePreserved

-----------------------------------------------------------------------------
(* The refinement. *)

\* The instance's accounting operators are the module's own.
LEMMA SameSum ==
    ASSUME NEW mem
    PROVE  /\ Atomic!OwnedBytes(mem) = OwnedBytes(mem)
           /\ Atomic!SumFits(mem) = SumFits(mem)
<1>1. Atomic!ProcessMiB(mem) = ProcessMiB(mem)
  BY DEF Atomic!ProcessMiB, ProcessMiB, Atomic!SumFunction, SumFunction,
         Atomic!SumFunctionOnSet, SumFunctionOnSet,
         Atomic!FoldFunctionOnSet, FoldFunctionOnSet,
         Atomic!MapThenFoldSet, MapThenFoldSet
<1> QED
  BY <1>1 DEF Atomic!OwnedBytes, OwnedBytes, Atomic!SumFits, SumFits

\* So are the base devices.
LEMMA SameInit == Init => Atomic!Init
BY DEF Init, Atomic!Init, Atomic!BaseDevice, BaseDevice, Atomic!TotalBytes,
       TotalBytes, Atomic!ReservedBytes, ReservedBytes

\* A store of byte counts is the abstract step Use.
LEMMA StoreUses ==
    ASSUME NEW g \in GPU, dev \in [GPU -> Device],
           NEW used \in Nat, NEW free \in Nat,
           used + free = dev[g].used + dev[g].free,
           OwnedBytes(dev[g].mem) \in Nat, OwnedBytes(dev[g].mem) <= used,
           dev' = [dev EXCEPT ![g] = [@ EXCEPT !.used = used, !.free = free]]
    PROVE  Atomic!Use(g, used)
<1>1. /\ dev[g].used \in Nat /\ dev[g].free \in Nat
  BY UnitAssumption DEF Device, U64
<1>2. Atomic!Pool(g) = dev[g].used + dev[g].free
  BY DEF Atomic!Pool
<1>3. free = Atomic!Pool(g) - used /\ used \in OwnedBytes(dev[g].mem) .. Atomic!Pool(g)
  BY <1>1, <1>2
<1>4. dev' = [dev EXCEPT ![g].used = used, ![g].free = Atomic!Pool(g) - used]
  BY <1>3
<1> QED
  BY <1>3, <1>4, SameSum DEF Atomic!Use

\* A store of rows is the abstract step Own.
LEMMA StoreOwns ==
    ASSUME NEW g \in GPU, dev \in [GPU -> Device], NEW r \in Device,
           r.used + r.free = dev[g].used + dev[g].free,
           SumFits(dev[g].mem), SumFits(r.mem),
           r.used = dev[g].used - OwnedBytes(dev[g].mem) + OwnedBytes(r.mem),
           dev' = [dev EXCEPT ![g] = r]
    PROVE  Atomic!Own(g, r.mem, r.util)
<1>1. /\ dev[g].used \in Nat /\ dev[g].free \in Nat
      /\ r.used \in Nat /\ r.free \in Nat
  BY UnitAssumption DEF Device, U64
<1>2. Atomic!Pool(g) = dev[g].used + dev[g].free
  BY DEF Atomic!Pool
<1>3. r.used <= Atomic!Pool(g) /\ r.free = Atomic!Pool(g) - r.used
  BY <1>1, <1>2
<1>4. r = [used |-> r.used, free |-> r.free, mem |-> r.mem, util |-> r.util]
  BY DEF Device
<1>5. dev' = [dev EXCEPT ![g] =
                [used |-> r.used, free |-> Atomic!Pool(g) - r.used,
                 mem |-> r.mem, util |-> r.util]]
  BY <1>3, <1>4
<1>6. /\ Atomic!SumFits(r.mem)
      /\ dev[g].used - Atomic!OwnedBytes(dev[g].mem) + Atomic!OwnedBytes(r.mem)
           = r.used
  BY SameSum
<1> QED
  BY <1>3, <1>5, <1>6 DEF Atomic!Own

\* The store of an operation is one step of AtomicControl, or none.
LEMMA MutateIsAtomic ==
    ASSUME CoverageInv, PoolInv, RowsInv, BytesInv, NEW a \in Actor,
           Mutate(a), dev' # dev
    PROVE  Atomic!Next
<1> DEFINE g == Gpu(a)
           d == dev[g]
           o == op[a]
           r == planned[a]
<1>1. TypeOK /\ AccountingInv /\ pc[a] = "mutate"
  BY DEF CoverageInv, AccountingInv, Mutate
<1>2. /\ g \in GPU /\ d \in Device /\ SamePIDs(d) /\ o \in Op
      /\ r \in Device /\ dev \in [GPU -> Device]
  BY <1>1, OperationGpu DEF TypeOK
<1>3. RowsPlanned(a) /\ BytesPlanned(a)
  BY <1>1 DEF RowsInv, BytesInv
<1>4. /\ d.used \in Nat /\ d.free \in Nat /\ r.used \in Nat /\ r.free \in Nat
      /\ OwnedBytes(d.mem) \in Nat
  BY <1>2, UnitAssumption
     DEF Device, U64, CoverageInv, UsageCoversProcesses, Covered, OwnedBytes
<1>5. r.used + r.free = d.used + d.free
  BY <1>1, <1>2 DEF PoolInv, FullPool
<1>6. dev' = Stored(a)
  BY DEF Mutate
<1>7. CASE o.kind \in MemoryKinds
  <2>1. /\ dev' = [dev EXCEPT ![g] = [@ EXCEPT !.used = r.used, !.free = r.free]]
    BY <1>6, <1>7 DEF Stored
  <2>2. OwnedBytes(d.mem) <= r.used
    BY <1>3, <1>7 DEF BytesPlanned
  <2>3. Atomic!Use(g, r.used)
    BY <1>2, <1>4, <1>5, <2>1, <2>2, StoreUses
  <2>4. o.bytes \in Sizes /\ o.kind \in Kinds
    BY <1>2, <1>7 DEF Op, MemoryOp, ProcessOp, ReplaceOp, MemoryKinds
  <2>5. Atomic!MemoryOperation(g)
    BY <1>3, <1>7, <2>3, <2>4
       DEF BytesPlanned, MemoryKinds, Atomic!MemoryOperation
  <2> QED
    BY <1>2, <2>5 DEF Atomic!Next
<1>8. CASE o.kind \notin MemoryKinds
  <2>1. dev' = [dev EXCEPT ![g] = r]
    BY <1>6, <1>8 DEF Stored
  <2>2. Atomic!Own(g, r.mem, r.util)
    BY <1>2, <1>3, <1>5, <1>8, <2>1, StoreOwns DEF BytesPlanned
  <2>3. CASE o.kind = "replace"
    <3>1. /\ "replace" \in Kinds /\ o.pids \in SUBSET PID /\ o.mib \in MiBs
      BY <1>2, <2>3 DEF Op, MemoryOp, ProcessOp, ReplaceOp, MemoryKinds
    <3>2. Atomic!ReplaceProcesses(g)
      BY <1>3, <2>2, <2>3, <3>1 DEF RowsPlanned, Atomic!ReplaceProcesses
    <3> QED
      BY <1>2, <3>2 DEF Atomic!Next
  <2>4. CASE o.kind \in ProcessKinds
    <3>1. o \in ProcessOp
      BY <1>2, <2>4 DEF Op, MemoryOp, ReplaceOp, MemoryKinds, ProcessKinds
    <3>2. o.pid \in PID /\ o.kind \in Kinds
      BY <3>1 DEF ProcessOp
    <3>3. CASE r.mem = d.mem /\ r.util = d.util
      <4>1. r.used = d.used /\ r.free = d.free
        BY <1>3, <1>4, <1>5, <1>8, <3>3 DEF BytesPlanned
      <4>2. r = d
        BY <1>2, <3>3, <4>1 DEF Device
      <4>3. dev' = dev
        BY <1>2, <2>1, <4>2
      <4> QED
        BY <4>3
    <3>4. CASE /\ (o.kind = "add") <=> (o.pid \notin DOMAIN d.mem)
               /\ r.mem = Edited(o, d.mem, o.mib)
               /\ r.util = Edited(o, d.util, o.util)
      <4>1. CASE o.kind = "add"
        <5>1. /\ o.mib \in MiBs /\ o.util \in Utils
              /\ o.mib # Unset /\ o.util # Unset
          BY <3>1, <4>1, ControlAssumption, UnitAssumption
             DEF ProcessOp, Unset, U64
        <5>2. /\ r.mem = Atomic!With(d.mem, o.pid, o.mib)
              /\ r.util = Atomic!With(d.util, o.pid, o.util)
          BY <3>4, <4>1, <5>1 DEF Edited
        <5>3. Atomic!AddProcess(g, o.pid)
          BY <2>2, <3>2, <3>4, <4>1, <5>1, <5>2 DEF Atomic!AddProcess
        <5> QED
          BY <1>2, <3>2, <5>3 DEF Atomic!Next
      <4>2. CASE o.kind = "update"
        <5> DEFINE m == IF o.mib = Unset THEN d.mem[o.pid] ELSE o.mib
                   u == IF o.util = Unset THEN d.util[o.pid] ELSE o.util
        <5>1. m \in MiBs \cup {d.mem[o.pid]} /\ u \in Utils \cup {d.util[o.pid]}
          BY <3>1, <4>2 DEF ProcessOp
        <5>2. /\ r.mem = Atomic!With(d.mem, o.pid, m)
              /\ r.util = Atomic!With(d.util, o.pid, u)
          BY <3>4, <4>2 DEF Edited
        <5> HIDE DEF m, u
        <5>3. Atomic!UpdateProcess(g, o.pid)
          BY <2>2, <3>2, <3>4, <4>2, <5>1, <5>2 DEF Atomic!UpdateProcess
        <5> QED
          BY <1>2, <3>2, <5>3 DEF Atomic!Next
      <4>3. CASE o.kind = "remove"
        <5>1. /\ r.mem = Atomic!Without(d.mem, o.pid)
              /\ r.util = Atomic!Without(d.util, o.pid)
          BY <3>4, <4>3 DEF Edited
        <5>2. Atomic!RemoveProcess(g, o.pid)
          BY <2>2, <3>2, <3>4, <4>3, <5>1 DEF Atomic!RemoveProcess
        <5> QED
          BY <1>2, <3>2, <5>2 DEF Atomic!Next
      <4> QED
        BY <2>4, <4>1, <4>2, <4>3 DEF ProcessKinds
    <3> QED
      BY <1>3, <2>4, <3>3, <3>4 DEF RowsPlanned
  <2> QED
    BY <1>2, <1>8, <2>3, <2>4, ControlAssumption
       DEF Op, MemoryOp, ProcessOp, ReplaceOp, ProcessKinds
<1> QED
  BY <1>7, <1>8

\* Every step of the control plane is a step of AtomicControl or leaves the
\* devices alone.
LEMMA StepIsAtomic ==
    ASSUME "reset" \notin Kinds, ~ ActorsMayDie,
           CoverageInv, PoolInv, RowsInv, BytesInv, [Next]_vars
    PROVE  [Atomic!Next]_dev
<1>1. ASSUME NEW a \in Actor, Begin(a) \/ Continue(a), ~ Mutate(a)
      PROVE  UNCHANGED dev
  BY <1>1 DEF Begin, Continue, PeekApps, PeekPmon, AcquireLock,
         QueryGPU, QueryApps, QueryPmon, Decide, SetUsedMemory, ReserveMemory,
         ReleaseMemory, ReplaceProcessesFromState, ReplaceProcesses, Plan,
         OrphanMutate, Fail, CoverageInv, LockedView
<1> QED
  BY <1>1, MutateIsAtomic DEF Next, Die, Reset, vars

\* Peeking without the lock, three queries under it, a decision and a store by
\* a separate command behave as one indivisible operation on the devices, as
\* long as every store happens under the lock, pmon answers and the callers
\* ask for whole numbers of MiB.
THEOREM ImplementsAtomicControl ==
    ASSUME "reset" \notin Kinds, ~ ActorsMayDie, ~ PmonMayFail, WholeSizes
    PROVE  Spec => ActsAtomically
<1> DEFINE Inv == CoverageInv /\ PoolInv /\ RowsInv /\ BytesInv
<1>1. Init => Inv
  BY InitCoverage, InitPool DEF Init, RowsInv, BytesInv
<1>2. Inv /\ [Next]_vars => Inv'
  BY StepCoverage, StepPool, StepRows, StepBytes
<1>3. Inv /\ [Next]_vars => [Atomic!Next]_dev
  BY StepIsAtomic
<1> QED
  BY <1>1, <1>2, <1>3, SameInit, PTL DEF Spec, ActsAtomically, Atomic!Spec
=============================================================================
