------------------------------ MODULE Composer ------------------------------
(***************************************************************************)
(* From what a user asks for to the base configuration of the mock NVML:   *)
(* the profile catalogue (profiles/catalog.go), the composer               *)
(* (internal/config/config.go), and the commands that call it, `render`,   *)
(* `up` and `kubernetes` of cmd/fake-nvidia and `scenario render`          *)
(* (internal/scenario/scenario.go).                                        *)
(*                                                                         *)
(* The module has operators only; Scenario runs the commands.  A Go string *)
(* that is empty is Unset, a nil pointer is the empty sequence and a       *)
(* pointer to x is <<x>>.  Sizes are uint64 and in MiB, until              *)
(* composeDevice turns them into bytes.                                    *)
(***************************************************************************)
EXTENDS Integers, Sequences, SequencesExt

CONSTANTS
    MiB,            \* bytes per MiB (2^20 in the code, small here)
    MaxU64,         \* the largest uint64 (2^64-1 in the code, small here)
    MaxDevices      \* the limit of Mock NVML (8 in the code, small here)

ASSUME ComposerAssumption ==
    /\ MiB \in Nat \ {0}
    /\ MaxU64 \in Nat
    /\ MaxDevices \in Nat

Unset == ""

MaxMiB == MaxU64 \div MiB

Wrapped(n) == n % (MaxU64 + 1)

\* The configuration that a command without an answer renders.
Rejected == <<>>

-----------------------------------------------------------------------------
(* The types of what is read: files, flags and documents. *)

U64 == 0 .. MaxU64

ProfileType ==
    [id : STRING, described : BOOLEAN, total : U64, reserved : U64,
     temperature : Int]

TopologyType ==
    [id : STRING,
     devices : Seq([profile : STRING, vram : U64, used : U64, util : Nat])]

FilesType == [profiles : Seq(ProfileType), topologies : Seq(TopologyType)]

RowType == [pid : Nat, type : STRING, mem : U64, util : Nat]

DeviceType ==
    [profile : STRING, vram : U64, used : U64, util : Nat,
     temperature : Seq(Int), processes : Seq(RowType),
     failure : Seq([mode : STRING, probability : Int, after : Int])]

SpecType == [decodes : BOOLEAN, cuda : Seq(Int), devices : Seq(DeviceType)]

FlagsType ==
    [profile : STRING, count : Int, vram : U64, topology : STRING,
     raw : Seq([profile : STRING, at : Seq(U64 \cup {-1})]),
     spec : Seq(SpecType),
     cuda : Seq(Int), manifest : BOOLEAN]

BaseType ==
    [cuda : Seq(Int), profile : STRING, count : Int, vram : U64,
     topology : STRING, devices : Seq(DeviceType)]

DocumentType ==
    [decodes : BOOLEAN, version : Int, base : Seq(BaseType),
     initial : Seq(STRING),
     steps : Seq([after : Seq(Int), event : STRING, do : STRING]),
     cleanup : Seq(STRING)]

CommandType ==
    [name : {"scenario run", "scenario render", "render", "up", "kubernetes"},
     files : FilesType, doc : DocumentType, flags : FlagsType]

-----------------------------------------------------------------------------
(* The catalogue: files with profiles, then files with topologies. *)

\* The size of a device: the profile's, unless the device has its own.
TotalMiB(p, d) == IF d.vram = 0 THEN p.total ELSE d.vram

\* "described": the name, the architecture, the compute capability and the
\* source are there.
ValidProfile(p) ==
    /\ p.id # Unset
    /\ p.described
    /\ p.total # 0
    /\ p.reserved < p.total
    /\ p.temperature \in 0 .. 200

\* The files by their identifiers, of which LoadCatalog lets none come twice.
ById(files) ==
    [id \in {f.id : f \in ToSet(files)} |->
        CHOOSE f \in ToSet(files) : f.id = id]

\* Mutant of ValidTopology: used VRAM is compared with the whole device.
TopologyIgnoresReserve(profiles, t) ==
    /\ t.id # Unset
    /\ t.devices # <<>>
    /\ \A d \in ToSet(t.devices) :
          /\ d.profile \in DOMAIN profiles
          /\ TotalMiB(profiles[d.profile], d) > profiles[d.profile].reserved
          /\ d.used <= TotalMiB(profiles[d.profile], d)
          /\ d.util <= 100

ValidTopology(profiles, t) ==
    /\ t.id # Unset
    /\ t.devices # <<>>
    /\ \A d \in ToSet(t.devices) :
          /\ d.profile \in DOMAIN profiles
          /\ LET p == profiles[d.profile]
             IN  /\ TotalMiB(p, d) > p.reserved
                 /\ d.used <= TotalMiB(p, d) - p.reserved
          /\ d.util <= 100

\* LoadCatalog: every file is valid and no identifier comes twice.
CatalogLoads(files) ==
    /\ \A p \in ToSet(files.profiles) : ValidProfile(p)
    /\ \A t \in ToSet(files.topologies) :
          ValidTopology(ById(files.profiles), t)
    /\ \A kind \in {"profiles", "topologies"} :
          \A j, k \in DOMAIN files[kind] :
              files[kind][j].id = files[kind][k].id => j = k

Catalog(files) ==
    [profiles   |-> ById(files.profiles),
     topologies |-> ById(files.topologies)]

-----------------------------------------------------------------------------
(* internal/config. *)

\* A version is the sequence of its parts, -1 standing for one that is not a
\* natural number; normalizeSystem fills in one that is not given.
ValidSystem(cuda) ==
    \/ cuda = <<>>
    \/ Len(cuda) >= 2 /\ cuda[1] >= 0 /\ cuda[2] >= 0

ValidProcess(row) ==
    /\ row.pid # 0
    /\ row.type \in {Unset, "C", "G"}
    /\ row.util <= 100

\* The probability is in percent here.
ValidFailure(f) ==
    /\ f.mode \in {"lost", "fallen_off_bus", "ecc_uncorrectable"}
    /\ f.probability \in 0 .. 100
    /\ f.after >= 0

\* Mutant of RowFits: the sum is compared after it was taken, in uint64.
SumFitsWrapped(used, sum, row) == Wrapped(sum + row.mem) <= used

\* One turn of composeDevice's loop over the rows: sum is what those before
\* this row have added up to.
RowFits(used, sum, row) == sum <= used /\ row.mem <= Wrapped(used - sum)

\* The MiB of the first n rows, in plain arithmetic.
RowsMiB(rows, n) ==
    SumFunctionOnSet([k \in DOMAIN rows |-> rows[k].mem], 1 .. n)

RowsFit(d) ==
    \A k \in DOMAIN d.processes :
        RowFits(d.used, Wrapped(RowsMiB(d.processes, k - 1)), d.processes[k])

Temperature(p, d) ==
    IF d.temperature = <<>> THEN p.temperature ELSE d.temperature[1]

CanComposeDevice(p, d) ==
    /\ TotalMiB(p, d) <= MaxMiB
    /\ p.reserved <= MaxMiB
    /\ d.used <= MaxMiB
    /\ TotalMiB(p, d) > p.reserved
    /\ d.used <= TotalMiB(p, d) - p.reserved
    /\ d.util <= 100
    /\ \A row \in ToSet(d.processes) : ValidProcess(row)
    /\ RowsFit(d)
    /\ \A f \in ToSet(d.failure) : ValidFailure(f)
    /\ Temperature(p, d) \in 0 .. 200

\* The index gives the device its UUID, its PCI address and its minor number.
ComposeDevice(index, p, d) ==
    LET total    == Wrapped(TotalMiB(p, d) * MiB)
        reserved == Wrapped(p.reserved * MiB)
        used     == Wrapped(d.used * MiB)
    IN  [index       |-> index,
         profile     |-> p.id,
         total       |-> total,
         reserved    |-> reserved,
         used        |-> used,
         free        |-> Wrapped(total - reserved - used),
         util        |-> d.util,
         temperature |-> Temperature(p, d),
         processes   |-> d.processes,
         failure     |-> d.failure]

Compose(c, cuda, devices) ==
    IF /\ Len(devices) \in 1 .. MaxDevices
       /\ ValidSystem(cuda)
       /\ \A d \in ToSet(devices) :
             /\ d.profile \in DOMAIN c.profiles
             /\ CanComposeDevice(c.profiles[d.profile], d)
      THEN [k \in DOMAIN devices |->
               ComposeDevice(k - 1, c.profiles[devices[k].profile], devices[k])]
      ELSE Rejected

\* A device request with nothing but a profile and a size.
Plain(profile, vram) ==
    [profile |-> profile, vram |-> vram, used |-> 0, util |-> 0,
     temperature |-> <<>>, processes |-> <<>>, failure |-> <<>>]

ComposeTopology(c, cuda, id) ==
    IF id \in DOMAIN c.topologies
      THEN LET devices == c.topologies[id].devices
           IN  Compose(c, cuda,
                   [k \in DOMAIN devices |->
                       [Plain(devices[k].profile, devices[k].vram)
                           EXCEPT !.used = devices[k].used,
                                  !.util = devices[k].util]])
      ELSE Rejected

\* A count that is not positive yields no devices, which Compose rejects too.
Repeated(profile, count, vram) == [k \in 1 .. count |-> Plain(profile, vram)]

-----------------------------------------------------------------------------
(* cmd/fake-nvidia.  The flags are a record: profile, count and vram,      *)
(* topology, raw (the --device flags), spec (the file of --spec, nil       *)
(* without the flag), cuda, and manifest (whether the image, the namespace *)
(* and the CDI kind are acceptable).                                       *)

\* --device profile[@MiB]; -1 stands for what is not a number.
CanParseDevice(raw) ==
    /\ raw.profile # Unset
    /\ \A size \in ToSet(raw.at) : size > 0

ParseDevice(raw) ==
    Plain(raw.profile, IF raw.at = <<>> THEN 0 ELSE raw.at[1])

RunRender(c, flags) ==
    LET chosen == {s \in {"profile", "topology"} : flags[s] # Unset}
                    \cup {s \in {"raw", "spec"} : flags[s] # <<>>}
    IN  CASE chosen = {"spec"} ->
               IF flags.spec[1].decodes
                 THEN Compose(c, flags.spec[1].cuda, flags.spec[1].devices)
                 ELSE Rejected
          [] chosen = {"topology"} ->
               ComposeTopology(c, flags.cuda, flags.topology)
          [] chosen = {"profile"} ->
               Compose(c, flags.cuda,
                       Repeated(flags.profile, flags.count, flags.vram))
          [] chosen = {"raw"} ->
               IF \A raw \in ToSet(flags.raw) : CanParseDevice(raw)
                 THEN Compose(c, flags.cuda,
                         [k \in DOMAIN flags.raw |-> ParseDevice(flags.raw[k])])
                 ELSE Rejected
          [] OTHER -> Rejected

\* The part of runUp before Prepare, which Installer models.
RunUp(c, flags) ==
    IF (flags.profile = Unset) = (flags.topology = Unset) THEN Rejected
    ELSE IF flags.profile # Unset
      THEN Compose(c, flags.cuda,
                   Repeated(flags.profile, flags.count, flags.vram))
    ELSE IF flags.count # 1 \/ flags.vram # 0 THEN Rejected
    ELSE ComposeTopology(c, flags.cuda, flags.topology)

\* Mutant of RunKubernetes: --vram-mib does not reach the devices.
KubernetesForgetsVram(c, flags) ==
    LET composed ==
          IF (flags.profile = Unset) = (flags.topology = Unset) THEN Rejected
          ELSE IF flags.profile # Unset
            THEN Compose(c, flags.cuda, Repeated(flags.profile, flags.count, 0))
          ELSE IF flags.count # 1 \/ flags.vram # 0 THEN Rejected
          ELSE ComposeTopology(c, flags.cuda, flags.topology)
    IN  IF flags.manifest THEN composed ELSE Rejected

\* runKubernetes chooses and composes with code of its own, and RenderManifest
\* checks the image, the namespace and the CDI kind afterwards.
RunKubernetes(c, flags) ==
    LET chosen == {s \in {"profile", "topology"} : flags[s] # Unset}
        composed ==
          CASE chosen = {"profile"} ->
                 Compose(c, flags.cuda,
                         Repeated(flags.profile, flags.count, flags.vram))
            [] chosen = {"topology"} /\ flags.count = 1 /\ flags.vram = 0 ->
                 ComposeTopology(c, flags.cuda, flags.topology)
            [] OTHER -> Rejected
    IN  IF flags.manifest THEN composed ELSE Rejected

-----------------------------------------------------------------------------
(* The document of `fake-nvidia-ctl scenario`: version, base (a pointer),  *)
(* initial, steps and cleanup.  An operation is "nothing" without          *)
(* arguments, "scenario" when it is a scenario command itself, else any    *)
(* other text.  A step's "after" is a pointer to a duration, which is      *)
(* negative if it cannot be parsed.                                        *)

Chosen(base) ==
    {s \in {"profile", "topology"} : base[s] # Unset}
      \cup {s \in {"devices"} : base[s] # <<>>}

Validate(doc) ==
    /\ doc.version = 1
    /\ \A base \in ToSet(doc.base) :
          /\ Chosen(base) \in {{"profile"}, {"topology"}, {"devices"}}
          /\ base.profile # Unset => base.count >= 0
    /\ \A step \in ToSet(doc.steps) :
          /\ step.after = <<>> \/ step.event = Unset
          /\ \A d \in ToSet(step.after) : d >= 0
          /\ step.do # "nothing"
    /\ "nothing" \notin ToSet(doc.initial) \cup ToSet(doc.cleanup)

RenderBase(c, doc) ==
    LET base  == doc.base[1]
        count == IF base.count = 0 THEN 1 ELSE base.count
    IN  IF ~ Validate(doc) \/ doc.base = <<>> THEN Rejected
        ELSE IF base.topology # Unset
          THEN ComposeTopology(c, base.cuda, base.topology)
        ELSE IF base.profile # Unset
          THEN Compose(c, base.cuda, Repeated(base.profile, count, base.vram))
        ELSE Compose(c, base.cuda, base.devices)
=============================================================================
