----------------------------- MODULE MCScenario -----------------------------
(***************************************************************************)
(* Small instances of Scenario.                                            *)
(*                                                                         *)
(* Documents to run: two events that the steps wait for, one event that    *)
(* two steps wait for, timers with and without a length, a scenario within *)
(* a scenario, and documents that Load refuses.                            *)
(*                                                                         *)
(* Configurations to compose, with 2 bytes per MiB and 4-bit integers:     *)
(* families of catalogues, flags, files and documents, each of which       *)
(* varies some of the fields over their edges.                             *)
(***************************************************************************)
EXTENDS Scenario

Files(profiles, topologies) ==
    [profiles |-> profiles, topologies |-> topologies]

Profile(total, reserved) ==
    [id |-> "p", described |-> TRUE, total |-> total, reserved |-> reserved,
     temperature |-> 40]

Topology(devices) == [id |-> "t", devices |-> devices]

Of(vram, used, util) ==
    [profile |-> "p", vram |-> vram, used |-> used, util |-> util]

OneProfile == Files(<<Profile(6, 1)>>, <<Topology(<<Of(0, 0, 0)>>)>>)

Other == [Profile(4, 0) EXCEPT !.id = "q"]

NoBase == <<>>

Base(devices) ==
    [cuda |-> <<>>, profile |-> Unset, count |-> 0, vram |-> 0,
     topology |-> Unset, devices |-> devices]

Document(initial, steps, cleanup) ==
    [decodes |-> TRUE, version |-> 1, base |-> NoBase, initial |-> initial,
     steps |-> steps, cleanup |-> cleanup]

NoDocument == Document(<<>>, <<>>, <<>>)

WithBase(b) == [NoDocument EXCEPT !.base = <<b>>]

NoFlags ==
    [profile |-> Unset, count |-> 1, vram |-> 0, topology |-> Unset,
     raw |-> <<>>, spec |-> <<>>, cuda |-> <<13, 0>>, manifest |-> TRUE]

Command(name, files, document, flags) ==
    [name |-> name, files |-> files, doc |-> document, flags |-> flags]

On(event)   == [after |-> <<>>, event |-> event, do |-> "op"]
After(d)    == [after |-> <<d>>, event |-> Unset, do |-> "op"]
Immediately == [after |-> <<>>, event |-> Unset, do |-> "op"]

Main == Document(<<"op">>, <<On("ready"), After(1), On("drained")>>, <<"op", "op">>)

Documents ==
    { Main,
      Document(<<>>, <<On("ready"), On("ready")>>, <<"scenario", "op">>),
      Document(<<"op">>, <<Immediately, After(0), After(2)>>, <<"op">>),
      Document(<<"scenario">>, <<On("ready")>>, <<"op">>),
      [Main EXCEPT !.version = 2],
      [Main EXCEPT !.decodes = FALSE],
      [Main EXCEPT !.steps[2].event = "ready"],
      [Main EXCEPT !.steps[2].after = <<-1>>],
      [Main EXCEPT !.steps[3].do = "nothing"],
      [Main EXCEPT !.cleanup = <<"op", "nothing">>] }

\* The catalogue's own checks against the composer's.
CatalogueCommands ==
    { Command(name, Files(<<Profile(total, reserved)>>, <<Topology(devices)>>),
              NoDocument, [NoFlags EXCEPT !.topology = "t"]) :
        name \in {"render", "up"},
        total \in {0, 1, 4, 7, 8}, reserved \in {0, 1, 3, 8},
        devices \in
            { <<Of(vram, used, util)>> :
                vram \in {0, 1, 4, 7, 8, 15}, used \in {0, 1, 3, 4, 6, 7, 15},
                util \in {100, 101} }
              \cup { [k \in 1 .. n |-> Of(0, 1, 0)] : n \in 0 .. MaxDevices + 1 } }

\* Catalogues that do not load, and choices they do not have.
FileCommands ==
    { Command(name, files, NoDocument,
              [NoFlags EXCEPT !.topology = topology, !.profile = profile]) :
        name \in {"render", "up", "kubernetes"},
        topology \in {Unset, "t", "u"}, profile \in {Unset, "p", "x"},
        files \in
            { OneProfile,
              [OneProfile EXCEPT !.profiles = <<@[1], @[1]>>],
              [OneProfile EXCEPT !.topologies = <<@[1], @[1]>>],
              [OneProfile EXCEPT !.profiles[1].described = FALSE],
              [OneProfile EXCEPT !.profiles[1].temperature = 201],
              [OneProfile EXCEPT !.profiles[1].id = "q"],
              [OneProfile EXCEPT !.topologies[1].devices[1].profile = "q",
                                 !.profiles = Append(@, Other)] } }

FlagCommands ==
    { Command(name, OneProfile, NoDocument,
              [NoFlags EXCEPT !.profile = profile, !.topology = topology,
                              !.count = count, !.vram = vram, !.cuda = cuda,
                              !.manifest = manifest]) :
        name \in {"render", "up", "kubernetes"},
        profile \in {Unset, "p"}, topology \in {Unset, "t"},
        count \in -1 .. MaxDevices + 1, vram \in {0, 1, 2, 7, 8},
        cuda \in {<<>>, <<13>>, <<13, 0>>, <<13, -1>>, <<13, 0, 2>>},
        manifest \in BOOLEAN }

DeviceFlagCommands ==
    { Command("render", OneProfile, NoDocument,
              [NoFlags EXCEPT !.raw = raw, !.profile = profile]) :
        profile \in {Unset, "p"},
        raw \in BoundedSeq(
                  [profile : {Unset, "p", "x"}, at : {<<>>, <<-1>>, <<0>>, <<5>>}],
                  2) }

Row(pid, mem) == [pid |-> pid, type |-> "C", mem |-> mem, util |-> 0]

Rows == { <<>>, <<[Row(1, 1) EXCEPT !.type = "X"]>>,
          <<[Row(1, 1) EXCEPT !.util = 101]>> }
          \cup { <<Row(pid, mem)>> : pid \in {0, 1}, mem \in {0, 1, 3} }
          \cup { <<Row(1, m), Row(2, n)>> : m \in {0, 1, 3, 15}, n \in {1, 3, 15} }

Failures == { <<>> } \cup
    { <<[mode |-> mode, probability |-> p, after |-> a]>> :
        mode \in {"lost", "healthy", "odd"}, p \in {-1, 100, 101}, a \in {-1, 0} }

Devices ==
    { [Plain("p", vram) EXCEPT !.used = used, !.processes = rows] :
        vram \in {0, 4, 8}, used \in {0, 1, 3, 5, 6, 15}, rows \in Rows }
    \cup { [Plain("p", 0) EXCEPT !.temperature = temperature, !.failure = failure] :
              temperature \in {<<>>, <<-1>>, <<0>>, <<201>>}, failure \in Failures }

SpecCommands ==
    { Command("render", OneProfile, NoDocument,
              [NoFlags EXCEPT !.spec = <<[decodes |-> decodes, cuda |-> <<>>,
                                          devices |-> devices]>>]) :
        decodes \in BOOLEAN,
        devices \in {<<>>} \cup { <<d>> : d \in Devices }
                    \cup { <<Plain("p", 0), d>> : d \in Devices } }

BaseCommands ==
    { Command("scenario render", OneProfile, WithBase(b), NoFlags) :
        b \in { [Base(devices) EXCEPT !.profile = profile, !.topology = topology,
                                      !.count = count, !.vram = vram] :
                  profile \in {Unset, "p", "x"}, topology \in {Unset, "t", "u"},
                  count \in -1 .. MaxDevices + 1, vram \in {0, 2, 8},
                  devices \in {<<>>, <<Plain("q", 0)>>} }
              \cup { Base(<<d>>) : d \in Devices } }

MCCommands ==
    { Command("scenario run", OneProfile, d, NoFlags) : d \in Documents }
      \cup { Command("scenario render", OneProfile, d, NoFlags) : d \in Documents }
      \cup CatalogueCommands \cup FileCommands \cup FlagCommands
      \cup DeviceFlagCommands \cup SpecCommands \cup BaseCommands
=============================================================================
