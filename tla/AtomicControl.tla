--------------------------- MODULE AtomicControl ---------------------------
(***************************************************************************)
(* What the control plane promises its callers: the effective state of the *)
(* devices, changed by one indivisible operation at a time.  A memory      *)
(* operation moves bytes between used and free.  A process operation       *)
(* changes one row (or gives the whole list) and charges or refunds        *)
(* exactly the difference, leaving the VRAM that no row owns alone.        *)
(***************************************************************************)
EXTENDS GpuState

CONSTANTS Kinds, Sizes, MiBs, Utils

VARIABLE dev

Init == dev = [g \in GPU |-> BaseDevice(g)]

Pool(g) == dev[g].used + dev[g].free

\* Device g reports `used` bytes of its pool as used.
Use(g, used) ==
    /\ used \in OwnedBytes(dev[g].mem) .. Pool(g)
    /\ dev' = [dev EXCEPT ![g].used = used, ![g].free = Pool(g) - used]

MemoryOperation(g) ==
    \E n \in Sizes :
        \/ "used" \in Kinds /\ Use(g, n)
        \/ "reserve" \in Kinds /\ Use(g, dev[g].used + n)
        \/ "release" \in Kinds /\ Use(g, dev[g].used - n)

\* Device g has these rows, whose sizes add up in a uint64; used VRAM follows
\* what they own.
Own(g, mem, util) ==
    LET used == dev[g].used - OwnedBytes(dev[g].mem) + OwnedBytes(mem)
    IN  /\ SumFits(mem)
        /\ used <= Pool(g)
        /\ dev' = [dev EXCEPT ![g] = [used |-> used, free |-> Pool(g) - used,
                                      mem |-> mem, util |-> util]]

\* A column with the value v for PID p, and a column without p.
With(col, p, v) ==
    [q \in DOMAIN col \cup {p} |-> IF q = p THEN v ELSE col[q]]

Without(col, p) == [q \in DOMAIN col \ {p} |-> col[q]]

AddProcess(g, p) ==
    /\ "add" \in Kinds
    /\ p \notin DOMAIN dev[g].mem
    /\ \E m \in MiBs, u \in Utils :
          Own(g, With(dev[g].mem, p, m), With(dev[g].util, p, u))

UpdateProcess(g, p) ==
    /\ "update" \in Kinds
    /\ p \in DOMAIN dev[g].mem
    /\ \E m \in MiBs \cup {dev[g].mem[p]}, u \in Utils \cup {dev[g].util[p]} :
          Own(g, With(dev[g].mem, p, m), With(dev[g].util, p, u))

RemoveProcess(g, p) ==
    /\ "remove" \in Kinds
    /\ p \in DOMAIN dev[g].mem
    /\ Own(g, Without(dev[g].mem, p), Without(dev[g].util, p))

ReplaceProcesses(g) ==
    /\ "replace" \in Kinds
    /\ \E P \in SUBSET PID, m \in MiBs :
          Own(g, [p \in P |-> m], [p \in P |-> 0])

Next ==
    \E g \in GPU :
        \/ MemoryOperation(g)
        \/ \E p \in PID :
              AddProcess(g, p) \/ UpdateProcess(g, p) \/ RemoveProcess(g, p)
        \/ ReplaceProcesses(g)

Spec == Init /\ [][Next]_dev
=============================================================================
