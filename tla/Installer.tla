------------------------------ MODULE Installer ------------------------------
(***************************************************************************)
(* How fake-nvidia gets onto a host: internal/injection, which prepares    *)
(* and removes an injection root (`fake-nvidia up`, `fake-nvidia down`),   *)
(* and cmd/fake-nvidia-k8s-installer, which also publishes a CDI spec,     *)
(* waits for a signal and takes everything back.                           *)
(*                                                                         *)
(* One such process runs at a time on a host; it may be killed at any      *)
(* step, and what it leaves on disk is what the next one finds.  Meanwhile *)
(* the control plane stores overrides in the root, and somebody else may   *)
(* put files of their own at the two paths.                                *)
(***************************************************************************)
EXTENDS Integers, FiniteSets

CONSTANTS
    Version,        \* the device counts and CDI kinds that are installed
    NoSpec,         \* there is no CDI spec
    Foreign,        \* a CDI spec that somebody else wrote
    Kinds,          \* the processes that are run: "install", "up", "down"
    Values,         \* the override states that the control plane stores
    MaxRuns,        \* bound: how many processes are run
    MaxFaults,      \* bound: how many system calls fail
    ForeignFiles,   \* when foreign files appear: "never", "between", "always"
    Stores          \* when overrides are stored: "between", "always"

ASSUME InstallerAssumption ==
    /\ {NoSpec, Foreign} \cap Version = {}
    /\ NoSpec # Foreign
    /\ Kinds \subseteq {"install", "up", "down"}
    /\ Values \subseteq Nat \ {0}
    /\ MaxRuns \in Nat
    /\ MaxFaults \in Nat
    /\ ForeignFiles \in {"never", "between", "always"}
    /\ Stores \in {"between", "always"}

\* What Prepare builds; "dev", the directory with all device nodes, comes later.
Built == {"runtime", "config", "marker"}

Files == Built \cup {"dev", "overrides", "data"}

VARIABLES
    root,           \* the directory at the root's path: [exists, ours, files,
                    \* value], value being its override state, 0 without one
    spec,           \* the CDI spec
    proc,           \* the process that runs: [pc, kind, version, value, tries],
                    \* value being the overrides in its temporary root
    outcome,        \* how the last process ended
    latest,         \* history: the overrides stored last, 0 after a removal
    runs,           \* the processes run so far
    faults,         \* the system calls that failed so far
    killed          \* history: a process has been killed

vars == <<root, spec, proc, outcome, latest, runs, faults, killed>>

NoRoot == [exists |-> FALSE, ours |-> FALSE, files |-> {}, value |-> 0]

NoProc(v) == [pc |-> "idle", kind |-> "down", version |-> v, value |-> 0,
              tries |-> 0]

Init ==
    /\ root = NoRoot
    /\ spec = NoSpec
    /\ \E v \in Version : proc = NoProc(v)
    /\ outcome = "none"
    /\ latest = 0
    /\ runs = 0
    /\ faults = 0
    /\ killed = FALSE

-----------------------------------------------------------------------------

At(where) == proc.pc = where

Goto(where) == proc' = [proc EXCEPT !.pc = where]

\* The process ends.
End(how) ==
    /\ proc' = NoProc(proc.version)
    /\ outcome' = how

\* A system call fails.
Fault == faults < MaxFaults /\ faults' = faults + 1

\* requireOwned: the directory has the marker.
Owned == "marker" \in root.files

Begin ==
    /\ At("idle")
    /\ runs < MaxRuns
    /\ runs' = runs + 1
    /\ \E kind \in Kinds, v \in Version :
          proc' = [pc |-> IF kind = "down" THEN "down" ELSE "check",
                   kind |-> kind, version |-> v, value |-> 0, tries |-> 1]
    /\ outcome' = "none"
    /\ UNCHANGED <<root, spec, latest, faults, killed>>

-----------------------------------------------------------------------------
(* injection.Prepare. *)

\* Mutant of RequireOwnedOrAbsent: the marker is not looked at.
RequireNothing ==
    /\ At("check")
    /\ Goto("copy")
    /\ UNCHANGED <<root, spec, outcome, latest, runs, faults, killed>>

RequireOwnedOrAbsent ==
    /\ At("check")
    /\ \/ /\ ~ root.exists \/ Owned
          /\ Goto("copy")
          /\ UNCHANGED <<outcome, faults>>
       \/ /\ root.exists /\ ~ Owned
          /\ End("refusedRoot")
          /\ UNCHANGED faults
       \/ Fault /\ End("failed")
    /\ UNCHANGED <<root, spec, latest, runs, killed>>

\* The runtime, the configuration and the marker go into a temporary root,
\* which is removed when something fails.
CopyTree ==
    /\ At("copy")
    /\ \/ Goto("preserve") /\ UNCHANGED <<outcome, faults>>
       \/ Fault /\ End("failed")
    /\ UNCHANGED <<root, spec, latest, runs, killed>>

\* Mutant of PreserveOverrides: the new root has none.
PreserveNothing ==
    /\ At("preserve")
    /\ Goto("inspect")
    /\ UNCHANGED <<root, spec, outcome, latest, runs, faults, killed>>

PreserveOverrides ==
    /\ At("preserve")
    /\ \/ /\ proc' = [proc EXCEPT !.pc = "inspect", !.value = root.value]
          /\ UNCHANGED <<outcome, faults>>
       \/ Fault /\ End("failed")
    /\ UNCHANGED <<root, spec, latest, runs, killed>>

\* Whether there is a root to replace; its marker is not looked at again.
InspectRoot ==
    /\ At("inspect")
    /\ Goto(IF root.exists THEN "replace" ELSE "rename")
    /\ UNCHANGED <<root, spec, outcome, latest, runs, faults, killed>>

\* os.RemoveAll: the entries of the directory in whatever order it lists them,
\* then the directory; an error leaves the rest.
RemoveEntry ==
    \E f \in root.files :
        root' = [root EXCEPT !.files = @ \ {f},
                             !.value = IF f = "overrides" THEN 0 ELSE @]

Replace ==
    /\ At("replace")
    /\ \/ RemoveEntry /\ UNCHANGED <<proc, outcome, faults>>
       \/ /\ root.files = {}
          /\ root' = NoRoot
          /\ Goto("rename")
          /\ UNCHANGED <<outcome, faults>>
       \/ Fault /\ End("failed") /\ UNCHANGED root
    /\ UNCHANGED <<spec, latest, runs, killed>>

\* The root as Prepare leaves it.
NewRoot ==
    [exists |-> TRUE, ours |-> TRUE, value |-> proc.value,
     files |-> Built \cup IF proc.value = 0 THEN {} ELSE {"overrides"}]

\* Mutant of Rename: an empty overrides file is copied when there was none.
RenameEmptyOverrides ==
    /\ At("rename")
    /\ ~ root.exists
    /\ root' = [NewRoot EXCEPT !.files = @ \cup {"overrides"}]
    /\ End("prepared")
    /\ UNCHANGED <<spec, latest, runs, faults, killed>>

\* The temporary root gets its name, unless something is there.
Rename ==
    /\ At("rename")
    /\ \/ /\ ~ root.exists
          /\ root' = NewRoot
          /\ \/ proc.kind = "up" /\ End("prepared")
             \/ proc.kind = "install" /\ Goto("devices") /\ UNCHANGED outcome
          /\ UNCHANGED faults
       \/ /\ root.exists
          /\ End("failed")
          /\ UNCHANGED <<root, faults>>
       \/ Fault /\ End("failed") /\ UNCHANGED root
    /\ UNCHANGED <<spec, latest, runs, killed>>

-----------------------------------------------------------------------------
(* The installer. *)

\* Run returns an error: the deferred Down.
Abort(how) ==
    /\ proc' = [proc EXCEPT !.pc = "down", !.tries = 1]
    /\ outcome' = how

CreateDeviceNodes ==
    /\ At("devices")
    /\ \/ /\ root' = [root EXCEPT !.files = @ \cup {"dev"}]
          /\ Goto("inspectSpec")
          /\ UNCHANGED <<outcome, faults>>
       \/ Fault /\ Abort("failed") /\ UNCHANGED root
    /\ UNCHANGED <<spec, latest, runs, killed>>

\* The content of the spec is a function of the CDI kind and the device count,
\* and names the root's runtime, state and device nodes.
GenerateCDISpec == proc.version

\* installOwnedFile reads what is there, and later renames its own over it.
InspectSpec ==
    /\ At("inspectSpec")
    /\ \/ /\ spec \in {NoSpec, GenerateCDISpec}
          /\ Goto("writeSpec")
          /\ UNCHANGED <<outcome, faults>>
       \/ /\ spec \notin {NoSpec, GenerateCDISpec}
          /\ Abort("refusedSpec")
          /\ UNCHANGED faults
       \/ Fault /\ Abort("failed")
    /\ UNCHANGED <<root, spec, latest, runs, killed>>

WriteSpec ==
    /\ At("writeSpec")
    /\ \/ /\ spec' = GenerateCDISpec
          /\ Goto("waiting")
          /\ outcome' = "installed"
          /\ UNCHANGED faults
       \/ Fault /\ Abort("failed") /\ UNCHANGED spec
    /\ UNCHANGED <<root, latest, runs, killed>>

\* SIGTERM.  The spec is removed, and once more by a deferred call if that
\* fails; so is the root.
Terminate ==
    /\ At("waiting")
    /\ proc' = [proc EXCEPT !.pc = "readSpec", !.tries = 2]
    /\ outcome' = "ended"
    /\ UNCHANGED <<root, spec, latest, runs, faults, killed>>

\* The first removal of the spec failed: only the deferred calls are left.
SpecFails ==
    /\ proc' = [proc EXCEPT !.pc = IF proc.tries = 2 THEN "readSpec" ELSE "down",
                            !.tries = 1]
    /\ outcome' = "failed"

\* removeOwnedFile reads the spec and removes it if it is its own.
ReadSpec ==
    /\ At("readSpec")
    /\ \/ /\ spec = GenerateCDISpec
          /\ Goto("removeSpec")
          /\ UNCHANGED <<outcome, faults>>
       \/ /\ spec = NoSpec
          /\ Goto("down")
          /\ UNCHANGED <<outcome, faults>>
       \/ /\ spec \notin {NoSpec, GenerateCDISpec}
          /\ SpecFails
          /\ UNCHANGED faults
       \/ Fault /\ SpecFails
    /\ UNCHANGED <<root, spec, latest, runs, killed>>

\* Mutant of RemoveSpec: an error is not followed by another attempt.
RemoveSpecOnce ==
    /\ At("removeSpec")
    /\ \/ spec' = NoSpec /\ UNCHANGED faults
       \/ Fault /\ UNCHANGED spec
    /\ Goto("down")
    /\ UNCHANGED <<root, outcome, latest, runs, killed>>

RemoveSpec ==
    /\ At("removeSpec")
    /\ \/ /\ spec' = NoSpec
          /\ Goto("down")
          /\ UNCHANGED <<outcome, faults>>
       \/ Fault /\ SpecFails /\ UNCHANGED spec
    /\ UNCHANGED <<root, latest, runs, killed>>

-----------------------------------------------------------------------------
(* injection.Down. *)

\* Down fails: the installer has a deferred call of it left, or not.
DownFails ==
    \/ /\ proc.tries = 2
       /\ proc' = [proc EXCEPT !.pc = "down", !.tries = 1]
       /\ outcome' = "failed"
    \/ /\ proc.tries = 1
       /\ End(IF outcome = "refusedSpec" THEN outcome ELSE "failed")

DownEnds == End(IF outcome = "none" THEN "ended" ELSE outcome)

Down ==
    /\ At("down")
    /\ \/ ~ root.exists /\ DownEnds /\ UNCHANGED faults
       \/ /\ root.exists /\ Owned
          /\ Goto("remove")
          /\ UNCHANGED <<outcome, faults>>
       \/ /\ root.exists /\ ~ Owned
          /\ DownFails
          /\ UNCHANGED faults
       \/ Fault /\ DownFails
    /\ UNCHANGED <<root, spec, latest, runs, killed>>

RemoveRoot ==
    /\ At("remove")
    /\ \/ RemoveEntry /\ UNCHANGED <<proc, outcome, latest, faults>>
       \/ /\ root.files = {}
          /\ root' = NoRoot
          /\ latest' = 0
          /\ DownEnds
          /\ UNCHANGED faults
       \/ Fault /\ DownFails /\ UNCHANGED <<root, latest>>
    /\ UNCHANGED <<spec, runs, killed>>

-----------------------------------------------------------------------------
(* Everybody else. *)

\* SIGKILL, a power failure, or SIGTERM before the installer waits for it.
Kill ==
    /\ ~ At("idle")
    /\ End("killed")
    /\ killed' = TRUE
    /\ UNCHANGED <<root, spec, latest, runs, faults>>

Allowed(when) == when = "always" \/ (when = "between" /\ At("idle"))

\* nvml-mock-ctl stores overrides in the root's state directory.
Store ==
    /\ Allowed(Stores) \/ At("waiting")
    /\ root.ours /\ "config" \in root.files
    /\ \E v \in Values \ {root.value} :
          /\ root' = [root EXCEPT !.value = v, !.files = @ \cup {"overrides"}]
          /\ latest' = v
    /\ UNCHANGED <<spec, proc, outcome, runs, faults, killed>>

\* A foreign directory or a foreign spec appears where nothing was.
PutForeign ==
    /\ Allowed(ForeignFiles)
    /\ \/ /\ ~ root.exists
          /\ root' = [exists |-> TRUE, ours |-> FALSE, files |-> {"data"},
                      value |-> 0]
          /\ UNCHANGED spec
       \/ spec = NoSpec /\ spec' = Foreign /\ UNCHANGED root
    /\ UNCHANGED <<proc, outcome, latest, runs, faults, killed>>

-----------------------------------------------------------------------------

Prepare ==
    \/ RequireOwnedOrAbsent
    \/ CopyTree
    \/ PreserveOverrides
    \/ InspectRoot
    \/ Replace
    \/ Rename

Install ==
    \/ CreateDeviceNodes
    \/ InspectSpec
    \/ WriteSpec
    \/ Terminate
    \/ ReadSpec
    \/ RemoveSpec

Next ==
    \/ Begin
    \/ Prepare
    \/ Install
    \/ Down
    \/ RemoveRoot
    \/ Kill
    \/ Store
    \/ PutForeign

Spec == Init /\ [][Next]_vars

-----------------------------------------------------------------------------
(* Properties. *)

\* A root has the files and the override state it can have, and a process is
\* at one of its steps (Layout, run).
TypeOK ==
    /\ root \in [exists : BOOLEAN, ours : BOOLEAN, files : SUBSET Files,
                 value : Values \cup {0}]
    /\ root.exists \/ root = NoRoot
    /\ root.value # 0 <=> "overrides" \in root.files
    /\ root.ours => "data" \notin root.files
    /\ spec \in Version \cup {NoSpec, Foreign}
    /\ proc.pc \in {"idle", "check", "copy", "preserve", "inspect", "replace",
                    "rename", "devices", "inspectSpec", "writeSpec", "waiting",
                    "readSpec", "removeSpec", "down", "remove"}
    /\ proc.version \in Version
    /\ proc.tries \in 0 .. 2
    /\ outcome \in {"none", "prepared", "installed", "refusedRoot",
                    "refusedSpec", "failed", "ended", "killed"}
    /\ latest \in Values \cup {0}
    /\ killed \in BOOLEAN

\* "Existing paths are replaced only when they were previously created by this
\* package" (injection.go:32), and removed (CONTAINERS.md:124); nor is a
\* foreign CDI spec replaced or removed, whatever is killed in between.
ForeignUntouched ==
    [][/\ root.exists /\ ~ root.ours => root' = root
       /\ spec = Foreign => spec' = Foreign]_vars

Complete == root.ours /\ Built \subseteq root.files

\* "Refreshing an owned root preserves its existing Mock NVML override state"
\* (injection.go:33): a complete root that is not being removed has the
\* overrides that were stored last, as long as no process is killed and no
\* system call fails.
OverridesKept ==
    /\ Complete
    /\ proc.pc \notin {"replace", "remove"}
    /\ ~ killed
    /\ faults = 0
    => root.value = latest

\* A published CDI spec is backed: the root that its mounts and device nodes
\* name is complete, also while the installer is terminated and one of its
\* system calls fails (run, with its deferred calls), until one is killed.
SpecBacked ==
    spec \in Version /\ ~ killed => Complete /\ "dev" \in root.files

\* "If a node/container is killed without normal termination, re-applying the
\* DaemonSet safely refreshes only roots carrying the fake-nvidia ownership
\* marker" (kubernetes/README.md:121), and installOwnedFile refuses "unowned"
\* CDI specs (main.go:134): a spec that is refused is not one that an earlier
\* installer left.
RefusesOnlyForeignSpec == outcome = "refusedSpec" => spec = Foreign
=============================================================================
