--------------------------- MODULE InstallerProofs ---------------------------
(***************************************************************************)
(* What is true of the steps of Installer, whatever fails and whoever is   *)
(* killed, and from that: types, foreign files that survive, CDI specs     *)
(* that are backed and overrides that are kept.                            *)
(***************************************************************************)
EXTENDS Installer, TLAPS

(* The state. *)

\* The steps of a process.
Steps == {"idle", "check", "copy", "preserve", "inspect", "replace",
          "rename", "devices", "inspectSpec", "writeSpec", "waiting",
          "readSpec", "removeSpec", "down", "remove"}

\* How a process ends.
Outcomes == {"none", "prepared", "installed", "refusedRoot", "refusedSpec",
             "failed", "ended", "killed"}

\* A process that runs, or the one that ran last.
Process ==
    [pc : Steps, kind : {"install", "up", "down"}, version : Version,
     value : Values \cup {0}, tries : 0 .. 2]

\* A directory at the root's path.
Root ==
    [exists : BOOLEAN, ours : BOOLEAN, files : SUBSET Files,
     value : Values \cup {0}]

\* Where the installer has its root.
HasRoot == {"devices", "inspectSpec", "writeSpec", "waiting", "readSpec",
            "removeSpec"}

\* Where the root has its device nodes.
HasNodes == HasRoot \ {"devices"}

\* Where the spec is the installer's own.
HasSpec == {"waiting", "readSpec", "removeSpec"}

\* A directory at the root's path.
RootOK(r) ==
    /\ r \in Root
    /\ r.exists \/ r = NoRoot
    /\ r.value # 0 <=> "overrides" \in r.files
    /\ r.ours => "data" \notin r.files
    /\ ~ r.ours => r.files \subseteq {"data"}

\* What holds at the steps of a process, whatever fails and whoever is killed.
StepsOK ==
    /\ proc.pc \in HasRoot => Complete
    /\ proc.pc \in HasNodes => "dev" \in root.files
    /\ proc.pc = "remove" => root.ours
    /\ proc.pc \in HasSpec => spec = proc.version

\* The inductive invariant that all proofs of this module rest on.
StateInv ==
    /\ RootOK(root)
    /\ spec \in Version \cup {NoSpec, Foreign}
    /\ proc \in Process
    /\ outcome \in Outcomes
    /\ latest \in Values \cup {0}
    /\ faults \in Nat
    /\ killed \in BOOLEAN
    /\ StepsOK

-----------------------------------------------------------------------------

\* There may be no root.
LEMMA NoRootOK == RootOK(NoRoot)
BY DEF RootOK, Root, NoRoot, Files, Built

\* A root of ours exists.
LEMMA OursExists ==
    ASSUME NEW r, RootOK(r), r.ours
    PROVE  r.exists
BY DEF RootOK, NoRoot

\* What a process does to itself.
LEMMA GotoOK ==
    ASSUME proc \in Process, NEW where \in Steps, Goto(where)
    PROVE  /\ proc' \in Process /\ proc'.pc = where
           /\ proc'.version = proc.version /\ proc'.value = proc.value
           /\ proc'.tries = proc.tries /\ proc'.kind = proc.kind
BY DEF Goto, Process

\* The process ends.
LEMMA EndOK ==
    ASSUME proc \in Process, NEW how \in Outcomes, End(how)
    PROVE  /\ proc' \in Process /\ proc'.pc = "idle" /\ outcome' \in Outcomes
           /\ outcome' = how
<1>1. proc.version \in Version /\ 0 \in 0 .. 2 /\ "idle" \in Steps
  BY DEF Process, Steps
<1> QED
  BY <1>1 DEF End, NoProc, Process

\* The process goes on with its attempt number n.
LEMMA GotoTryOK ==
    ASSUME proc \in Process, NEW where \in Steps, NEW n \in 0 .. 2,
           proc' = [proc EXCEPT !.pc = where, !.tries = n]
    PROVE  /\ proc' \in Process /\ proc'.pc = where
           /\ proc'.tries = n /\ proc'.version = proc.version
BY DEF Process

\* Run returns an error, and the deferred Down is next.
LEMMA AbortOK ==
    ASSUME proc \in Process, NEW how \in Outcomes, Abort(how)
    PROVE  /\ proc' \in Process /\ proc'.pc = "down" /\ outcome' \in Outcomes
           /\ proc'.version = proc.version
<1>1. "down" \in Steps /\ 1 \in 0 .. 2
  BY DEF Steps
<1> QED
  BY <1>1, GotoTryOK DEF Abort

\* A removal of the spec fails: it is tried again, or Down is next.
LEMMA SpecFailsOK ==
    ASSUME proc \in Process, SpecFails
    PROVE  /\ proc' \in Process /\ outcome' \in Outcomes
           /\ proc'.pc = IF proc.tries = 2 THEN "readSpec" ELSE "down"
           /\ proc'.tries = 1 /\ proc'.version = proc.version
<1> DEFINE where == IF proc.tries = 2 THEN "readSpec" ELSE "down"
<1>1. where \in Steps /\ 1 \in 0 .. 2
  BY DEF Steps
<1>2. proc' = [proc EXCEPT !.pc = where, !.tries = 1] /\ outcome' = "failed"
  BY DEF SpecFails
<1>3. outcome' \in Outcomes
  BY <1>2 DEF Outcomes
<1> HIDE DEF where
<1>4. /\ proc' \in Process /\ proc'.pc = where
      /\ proc'.tries = 1 /\ proc'.version = proc.version
  BY <1>1, <1>2, GotoTryOK
<1> QED
  BY <1>3, <1>4 DEF where

\* A failed Down is tried again, or ends the process.
LEMMA DownFailsOK ==
    ASSUME proc \in Process, outcome \in Outcomes, DownFails
    PROVE  /\ proc' \in Process /\ outcome' \in Outcomes
           /\ proc'.pc \in {"down", "idle"}
<1>1. CASE /\ proc' = [proc EXCEPT !.pc = "down", !.tries = 1]
           /\ outcome' = "failed"
  <2>1. "down" \in Steps /\ 1 \in 0 .. 2 /\ outcome' \in Outcomes
    BY <1>1 DEF Steps, Outcomes
  <2> QED
    BY <1>1, <2>1, GotoTryOK
<1>2. CASE End(IF outcome = "refusedSpec" THEN outcome ELSE "failed")
  <2> DEFINE how == IF outcome = "refusedSpec" THEN outcome ELSE "failed"
  <2>1. how \in Outcomes
    BY DEF Outcomes
  <2>2. End(how)
    BY <1>2
  <2> HIDE DEF how
  <2> QED
    BY <2>1, <2>2, EndOK
<1> QED
  BY <1>1, <1>2 DEF DownFails

\* A Down that has nothing left to do ends the process.
LEMMA DownEndsOK ==
    ASSUME proc \in Process, outcome \in Outcomes, DownEnds
    PROVE  /\ proc' \in Process /\ outcome' \in Outcomes
           /\ proc'.pc = "idle"
BY EndOK DEF DownEnds, Outcomes

\* Faults are counted.
LEMMA FaultOK == ASSUME faults \in Nat, Fault PROVE faults' \in Nat
BY DEF Fault

\* os.RemoveAll on its way leaves a root that is less, with the same owner.
LEMMA RemoveEntryOK ==
    ASSUME RootOK(root), RemoveEntry
    PROVE  RootOK(root') /\ root'.ours = root.ours /\ root'.exists = root.exists
<1>1. PICK f \in root.files :
        root' = [root EXCEPT !.files = @ \ {f},
                             !.value = IF f = "overrides" THEN 0 ELSE @]
  BY DEF RemoveEntry
<1> DEFINE F == root.files \ {f}
           v == IF f = "overrides" THEN 0 ELSE root.value
<1>2. F \in SUBSET Files /\ v \in Values \cup {0}
  BY DEF RootOK, Root
<1>3. root \in Root /\ root' = [root EXCEPT !.files = F, !.value = v]
  BY <1>1 DEF RootOK, Root
<1> HIDE DEF F, v
<1>4. /\ root' \in Root /\ root'.files = F /\ root'.value = v
      /\ root'.ours = root.ours /\ root'.exists = root.exists
  BY <1>2, <1>3 DEF Root
<1>5. root.exists
  BY DEF RootOK, NoRoot
<1> QED
  BY <1>4, <1>5 DEF RootOK, F, v

\* The root that Prepare leaves is complete and has the process's overrides.
LEMMA NewRootOK ==
    ASSUME proc \in Process
    PROVE  /\ RootOK(NewRoot) /\ NewRoot.ours /\ Built \subseteq NewRoot.files
           /\ NewRoot.value = proc.value
<1>1. proc.value \in Values \cup {0}
  BY DEF Process
<1> DEFINE F == Built \cup IF proc.value = 0 THEN {} ELSE {"overrides"}
<1>2. /\ F \in SUBSET Files /\ Built \subseteq F /\ "data" \notin F
      /\ "overrides" \in F <=> proc.value # 0
  BY DEF Built, Files
<1> HIDE DEF F
<1>3. NewRoot = [exists |-> TRUE, ours |-> TRUE, value |-> proc.value,
                 files |-> F]
  BY DEF NewRoot, F
<1> QED
  BY <1>1, <1>2, <1>3 DEF RootOK, Root

\* The steps at which nothing is known of the root and the spec.
Quiet == {"idle", "check", "copy", "preserve", "inspect", "replace", "rename",
          "down"}

\* Nothing is claimed at the quiet steps.
LEMMA QuietOK == ASSUME proc'.pc \in Quiet PROVE StepsOK'
BY DEF StepsOK, Quiet, HasRoot, HasNodes, HasSpec

\* There is no root, no spec and no process at first.
LEMMA InitState == Init => StateInv
<1> SUFFICES ASSUME Init PROVE StateInv
  OBVIOUS
<1>1. PICK v \in Version : proc = NoProc(v)
  BY DEF Init
<1>2. 0 \in 0 .. 2 /\ "idle" \in Steps
  BY DEF Steps
<1>3. proc \in Process /\ proc.pc = "idle"
  BY <1>1, <1>2 DEF NoProc, Process
<1>4. StepsOK
  BY <1>3 DEF StepsOK, HasRoot, HasNodes, HasSpec
<1> QED
  BY <1>3, <1>4, NoRootOK DEF Init, StateInv, Outcomes

-----------------------------------------------------------------------------
(* The steps of injection.Prepare. *)

\* A process begins.
LEMMA BeginState == ASSUME StateInv, Begin PROVE StateInv'
<1>1. PICK kind \in Kinds, v \in Version :
        proc' = [pc |-> IF kind = "down" THEN "down" ELSE "check",
                 kind |-> kind, version |-> v, value |-> 0, tries |-> 1]
  BY DEF Begin
<1> DEFINE where == IF kind = "down" THEN "down" ELSE "check"
<1>2. /\ where \in Steps /\ where \in Quiet /\ 1 \in 0 .. 2
      /\ kind \in {"install", "up", "down"}
  BY InstallerAssumption DEF Steps, Quiet
<1>3. proc' = [pc |-> where, kind |-> kind, version |-> v, value |-> 0,
               tries |-> 1]
  BY <1>1
<1> HIDE DEF where
<1>4. proc' \in Process /\ proc'.pc \in Quiet
  BY <1>2, <1>3 DEF Process
<1>5. StepsOK'
  BY <1>4, QuietOK
<1> QED
  BY <1>4, <1>5 DEF Begin, StateInv, Outcomes

\* A step of a process that leaves the root and the spec alone and goes to one
\* of the quiet steps.
LEMMA QuietStep ==
    ASSUME StateInv, proc' \in Process, proc'.pc \in Quiet,
           outcome' \in Outcomes, faults' \in Nat,
           UNCHANGED <<root, spec, latest, killed>>
    PROVE  StateInv'
BY QuietOK DEF StateInv

\* Where a failing step leads.
LEMMA FailedOK == "failed" \in Outcomes /\ "idle" \in Quiet /\ "down" \in Quiet
BY DEF Outcomes, Quiet

\* The root is looked at.
LEMMA CheckState == ASSUME StateInv, RequireOwnedOrAbsent PROVE StateInv'
<1> proc \in Process /\ outcome \in Outcomes /\ faults \in Nat
  BY DEF StateInv
<1>1. CASE Goto("copy") /\ UNCHANGED <<outcome, faults>>
  <2>1. "copy" \in Steps /\ "copy" \in Quiet
    BY DEF Steps, Quiet
  <2> QED
    BY <1>1, <2>1, GotoOK, QuietStep DEF RequireOwnedOrAbsent
<1>2. CASE End("refusedRoot") /\ UNCHANGED faults
  <2>1. "refusedRoot" \in Outcomes
    BY DEF Outcomes
  <2> QED
    BY <1>2, <2>1, FailedOK, EndOK, QuietStep DEF RequireOwnedOrAbsent
<1>3. CASE Fault /\ End("failed")
  BY <1>3, FailedOK, EndOK, FaultOK, QuietStep DEF RequireOwnedOrAbsent
<1> QED
  BY <1>1, <1>2, <1>3 DEF RequireOwnedOrAbsent

\* The temporary root is filled.
LEMMA CopyState == ASSUME StateInv, CopyTree PROVE StateInv'
<1> proc \in Process /\ outcome \in Outcomes /\ faults \in Nat
  BY DEF StateInv
<1>1. CASE Goto("preserve") /\ UNCHANGED <<outcome, faults>>
  <2>1. "preserve" \in Steps /\ "preserve" \in Quiet
    BY DEF Steps, Quiet
  <2> QED
    BY <1>1, <2>1, GotoOK, QuietStep DEF CopyTree
<1>2. CASE Fault /\ End("failed")
  BY <1>2, FailedOK, EndOK, FaultOK, QuietStep DEF CopyTree
<1> QED
  BY <1>1, <1>2 DEF CopyTree

\* It gets the overrides of the root.
LEMMA PreserveState == ASSUME StateInv, PreserveOverrides PROVE StateInv'
<1> proc \in Process /\ outcome \in Outcomes /\ faults \in Nat
  BY DEF StateInv
<1>1. CASE /\ proc' = [proc EXCEPT !.pc = "inspect", !.value = root.value]
           /\ UNCHANGED <<outcome, faults>>
  <2>1. "inspect" \in Steps /\ "inspect" \in Quiet
    BY DEF Steps, Quiet
  <2>2. root.value \in Values \cup {0}
    BY DEF StateInv, RootOK, Root
  <2>3. proc' \in Process /\ proc'.pc \in Quiet
    BY <1>1, <2>1, <2>2 DEF Process
  <2> QED
    BY <1>1, <2>3, QuietStep DEF PreserveOverrides
<1>2. CASE Fault /\ End("failed")
  BY <1>2, FailedOK, EndOK, FaultOK, QuietStep DEF PreserveOverrides
<1> QED
  BY <1>1, <1>2 DEF PreserveOverrides

\* Whether there is a root to replace.
LEMMA InspectState == ASSUME StateInv, InspectRoot PROVE StateInv'
<1> DEFINE where == IF root.exists THEN "replace" ELSE "rename"
<1>1. where \in Steps /\ where \in Quiet
  BY DEF Steps, Quiet
<1>2. /\ proc \in Process /\ outcome \in Outcomes /\ faults \in Nat
      /\ Goto(where)
      /\ UNCHANGED <<root, spec, outcome, latest, faults, killed>>
  BY DEF StateInv, InspectRoot
<1> HIDE DEF where
<1> QED
  BY <1>1, <1>2, GotoOK, QuietStep

\* The old root goes, entry by entry.
LEMMA ReplaceState == ASSUME StateInv, Replace PROVE StateInv'
<1> /\ proc \in Process /\ outcome \in Outcomes /\ faults \in Nat
    /\ RootOK(root)
  BY DEF StateInv
<1>1. CASE RemoveEntry /\ UNCHANGED <<proc, outcome, faults>>
  <2>1. proc'.pc \in Quiet
    BY <1>1 DEF Replace, At, Quiet
  <2>2. StepsOK' /\ RootOK(root')
    BY <1>1, <2>1, QuietOK, RemoveEntryOK
  <2> QED
    BY <1>1, <2>2 DEF Replace, StateInv
<1>2. CASE root' = NoRoot /\ Goto("rename") /\ UNCHANGED <<outcome, faults>>
  <2>1. "rename" \in Steps /\ "rename" \in Quiet
    BY DEF Steps, Quiet
  <2>2. proc' \in Process /\ StepsOK' /\ RootOK(root')
    BY <1>2, <2>1, GotoOK, QuietOK, NoRootOK
  <2> QED
    BY <1>2, <2>2 DEF Replace, StateInv
<1>3. CASE Fault /\ End("failed") /\ UNCHANGED root
  BY <1>3, FailedOK, EndOK, FaultOK, QuietStep DEF Replace
<1> QED
  BY <1>1, <1>2, <1>3 DEF Replace

\* The new root is complete when the installer goes on with it.
LEMMA RenameState == ASSUME StateInv, Rename PROVE StateInv'
<1> /\ proc \in Process /\ outcome \in Outcomes /\ faults \in Nat
    /\ RootOK(root)
  BY DEF StateInv
<1>1. CASE root' = NewRoot /\ End("prepared") /\ UNCHANGED faults
  <2>1. "prepared" \in Outcomes
    BY DEF Outcomes
  <2>2. /\ proc' \in Process /\ outcome' \in Outcomes /\ StepsOK'
        /\ RootOK(root')
    BY <1>1, <2>1, EndOK, QuietOK, FailedOK, NewRootOK
  <2> QED
    BY <1>1, <2>2 DEF Rename, StateInv
<1>2. CASE root' = NewRoot /\ Goto("devices") /\ UNCHANGED <<outcome, faults>>
  <2>1. "devices" \in Steps
    BY DEF Steps
  <2>2. /\ proc' \in Process /\ proc'.pc = "devices" /\ RootOK(root')
        /\ root'.ours /\ Built \subseteq root'.files
    BY <1>2, <2>1, GotoOK, NewRootOK
  <2>3. StepsOK'
    BY <2>2 DEF StepsOK, Complete, HasNodes, HasSpec
  <2> QED
    BY <1>2, <2>2, <2>3 DEF Rename, StateInv
<1>3. CASE End("failed") /\ UNCHANGED <<root, faults>>
  BY <1>3, FailedOK, EndOK, QuietStep DEF Rename
<1>4. CASE Fault /\ End("failed") /\ UNCHANGED root
  BY <1>4, FailedOK, EndOK, FaultOK, QuietStep DEF Rename
<1> QED
  BY <1>1, <1>2, <1>3, <1>4 DEF Rename

-----------------------------------------------------------------------------
(* The steps of the installer. *)

\* A step of the installer that leaves the root alone, at which it has it.
LEMMA InstallerStep ==
    ASSUME StateInv, proc.pc \in HasNodes, proc' \in Process,
           proc'.pc \in HasNodes, proc'.pc \in HasSpec => spec' = proc'.version,
           outcome' \in Outcomes, spec' \in Version \cup {NoSpec, Foreign},
           faults' \in Nat, UNCHANGED <<root, latest, killed>>
    PROVE  StateInv'
<1>1. Complete /\ "dev" \in root.files
  BY DEF StateInv, StepsOK, HasNodes
<1>2. Complete' /\ "dev" \in root'.files
  BY <1>1 DEF Complete
<1>3. StepsOK'
  BY <1>2 DEF StepsOK, HasNodes, HasRoot
<1> QED
  BY <1>3 DEF StateInv

\* The device nodes come on top of a complete root.
LEMMA DevicesState == ASSUME StateInv, CreateDeviceNodes PROVE StateInv'
<1> /\ proc \in Process /\ outcome \in Outcomes /\ faults \in Nat
    /\ RootOK(root)
  BY DEF StateInv
<1>1. CASE /\ root' = [root EXCEPT !.files = @ \cup {"dev"}]
           /\ Goto("inspectSpec")
           /\ UNCHANGED <<outcome, faults>>
  <2>1. "inspectSpec" \in Steps /\ "inspectSpec" \notin HasSpec
    BY DEF Steps, HasSpec
  <2>2. proc' \in Process /\ proc'.pc = "inspectSpec"
    BY <1>1, <2>1, GotoOK
  <2> DEFINE F == root.files \cup {"dev"}
  <2>3. /\ root \in Root /\ F \in SUBSET Files
        /\ root' = [root EXCEPT !.files = F]
    BY <1>1 DEF RootOK, Root, Files
  <2> HIDE DEF F
  <2>4. /\ root' \in Root /\ root'.files = F /\ root'.ours = root.ours
        /\ root'.exists = root.exists /\ root'.value = root.value
    BY <2>3 DEF Root
  <2>5. Complete
    BY DEF CreateDeviceNodes, At, StateInv, StepsOK, HasRoot
  <2>6. root.exists
    BY <2>5, OursExists DEF Complete
  <2>7. RootOK(root')
    BY <2>4, <2>5, <2>6 DEF RootOK, F, Complete
  <2>8. StepsOK'
    BY <2>1, <2>2, <2>4, <2>5 DEF StepsOK, Complete, F
  <2> QED
    BY <1>1, <2>2, <2>7, <2>8 DEF CreateDeviceNodes, StateInv
<1>2. CASE Fault /\ Abort("failed") /\ UNCHANGED root
  BY <1>2, FailedOK, AbortOK, FaultOK, QuietStep DEF CreateDeviceNodes
<1> QED
  BY <1>1, <1>2 DEF CreateDeviceNodes

\* The spec is looked at.
LEMMA InspectSpecState == ASSUME StateInv, InspectSpec PROVE StateInv'
<1> /\ proc \in Process /\ outcome \in Outcomes /\ faults \in Nat
    /\ spec \in Version \cup {NoSpec, Foreign}
  BY DEF StateInv
<1>1. CASE Goto("writeSpec") /\ UNCHANGED <<outcome, faults>>
  <2>1. /\ "writeSpec" \in Steps /\ "writeSpec" \in HasNodes
        /\ "writeSpec" \notin HasSpec /\ proc.pc \in HasNodes
    BY DEF Steps, HasNodes, HasRoot, HasSpec, InspectSpec, At
  <2>2. UNCHANGED <<root, spec, latest, killed>>
    BY DEF InspectSpec
  <2> QED
    BY <1>1, <2>1, <2>2, GotoOK, InstallerStep
<1>2. CASE Abort("refusedSpec") /\ UNCHANGED faults
  <2>1. "refusedSpec" \in Outcomes
    BY DEF Outcomes
  <2> QED
    BY <1>2, <2>1, FailedOK, AbortOK, QuietStep DEF InspectSpec
<1>3. CASE Fault /\ Abort("failed")
  BY <1>3, FailedOK, AbortOK, FaultOK, QuietStep DEF InspectSpec
<1> QED
  BY <1>1, <1>2, <1>3 DEF InspectSpec

\* The published spec is the installer's own.
LEMMA WriteSpecState == ASSUME StateInv, WriteSpec PROVE StateInv'
<1> /\ proc \in Process /\ outcome \in Outcomes /\ faults \in Nat
    /\ proc.version \in Version
  BY DEF StateInv, Process
<1>1. CASE /\ spec' = GenerateCDISpec /\ Goto("waiting")
           /\ outcome' = "installed" /\ UNCHANGED faults
  <2>1. /\ "waiting" \in Steps /\ "waiting" \in HasNodes
        /\ "installed" \in Outcomes /\ proc.pc \in HasNodes
    BY DEF Steps, HasNodes, HasRoot, Outcomes, WriteSpec, At
  <2>2. UNCHANGED <<root, latest, killed>> /\ spec' = proc.version
    BY <1>1 DEF WriteSpec, GenerateCDISpec
  <2> QED
    BY <1>1, <2>1, <2>2, GotoOK, InstallerStep
<1>2. CASE Fault /\ Abort("failed") /\ UNCHANGED spec
  BY <1>2, FailedOK, AbortOK, FaultOK, QuietStep DEF WriteSpec
<1> QED
  BY <1>1, <1>2 DEF WriteSpec

\* A signal arrives.
LEMMA TerminateState == ASSUME StateInv, Terminate PROVE StateInv'
<1>1. /\ proc \in Process /\ proc.pc = "waiting" /\ faults \in Nat
      /\ proc' = [proc EXCEPT !.pc = "readSpec", !.tries = 2]
      /\ UNCHANGED <<root, spec, latest, faults, killed>>
      /\ outcome' = "ended" /\ spec \in Version \cup {NoSpec, Foreign}
  BY DEF StateInv, Terminate, At
<1>2. /\ "readSpec" \in Steps /\ 2 \in 0 .. 2 /\ "readSpec" \in HasNodes
      /\ "waiting" \in HasNodes /\ "waiting" \in HasSpec
      /\ "ended" \in Outcomes
  BY DEF Steps, HasNodes, HasRoot, HasSpec, Outcomes
<1>3. spec = proc.version
  BY <1>1, <1>2 DEF StateInv, StepsOK
<1>4. /\ proc' \in Process /\ proc'.pc = "readSpec"
      /\ proc'.version = proc.version
  BY <1>1, <1>2, GotoTryOK
<1> QED
  BY <1>1, <1>2, <1>3, <1>4, InstallerStep

\* The spec stays where it was while its removal is tried again.
LEMMA SpecFailsState ==
    ASSUME StateInv, proc.pc \in {"readSpec", "removeSpec"}, SpecFails,
           faults' \in Nat, UNCHANGED <<root, spec, latest, killed>>
    PROVE  StateInv'
<1>1. /\ proc \in Process /\ spec = proc.version
      /\ spec \in Version \cup {NoSpec, Foreign}
  BY DEF StateInv, StepsOK, HasSpec
<1>2. /\ proc' \in Process /\ outcome' \in Outcomes
      /\ proc'.pc \in {"readSpec", "down"} /\ proc'.version = proc.version
  BY <1>1, SpecFailsOK
<1>3. CASE proc'.pc = "down"
  BY <1>2, <1>3, FailedOK, QuietStep
<1>4. CASE proc'.pc = "readSpec"
  <2>1. proc.pc \in HasNodes /\ "readSpec" \in HasNodes
    BY DEF HasNodes, HasRoot
  <2> QED
    BY <1>1, <1>2, <1>4, <2>1, InstallerStep
<1> QED
  BY <1>2, <1>3, <1>4

\* The spec is read before it is removed.
LEMMA ReadSpecState == ASSUME StateInv, ReadSpec PROVE StateInv'
<1> /\ proc \in Process /\ outcome \in Outcomes /\ faults \in Nat
    /\ proc.pc = "readSpec" /\ UNCHANGED <<root, spec, latest, killed>>
    /\ spec \in Version \cup {NoSpec, Foreign}
  BY DEF StateInv, ReadSpec, At
<1>1. CASE Goto("removeSpec") /\ UNCHANGED <<outcome, faults>>
  <2>1. /\ "removeSpec" \in Steps /\ "removeSpec" \in HasNodes
        /\ proc.pc \in HasNodes /\ proc.pc \in HasSpec
    BY DEF Steps, HasNodes, HasRoot, HasSpec
  <2>2. spec = proc.version
    BY <2>1 DEF StateInv, StepsOK
  <2> QED
    BY <1>1, <2>1, <2>2, GotoOK, InstallerStep
<1>2. CASE Goto("down") /\ UNCHANGED <<outcome, faults>>
  <2>1. "down" \in Steps
    BY DEF Steps
  <2> QED
    BY <1>2, <2>1, FailedOK, GotoOK, QuietStep
<1>3. CASE SpecFails /\ UNCHANGED faults
  BY <1>3, SpecFailsState
<1>4. CASE Fault /\ SpecFails
  BY <1>4, FaultOK, SpecFailsState
<1> QED
  BY <1>1, <1>2, <1>3, <1>4 DEF ReadSpec

\* The spec is removed, or its removal fails.
LEMMA RemoveSpecState == ASSUME StateInv, RemoveSpec PROVE StateInv'
<1> /\ proc \in Process /\ outcome \in Outcomes /\ faults \in Nat
    /\ proc.pc = "removeSpec" /\ UNCHANGED <<root, latest, killed>>
  BY DEF StateInv, RemoveSpec, At
<1>1. CASE /\ spec' = NoSpec /\ Goto("down") /\ UNCHANGED <<outcome, faults>>
  <2>1. "down" \in Steps
    BY DEF Steps
  <2>2. proc' \in Process /\ StepsOK'
    BY <1>1, <2>1, FailedOK, GotoOK, QuietOK
  <2> QED
    BY <1>1, <2>2 DEF StateInv
<1>2. CASE Fault /\ SpecFails /\ UNCHANGED spec
  BY <1>2, FaultOK, SpecFailsState
<1> QED
  BY <1>1, <1>2 DEF RemoveSpec

-----------------------------------------------------------------------------
(* The steps of injection.Down, and of everybody else. *)

\* Only our own roots have the marker.
LEMMA MarkerIsOurs == ASSUME NEW r, RootOK(r), "marker" \in r.files PROVE r.ours
BY DEF RootOK

\* A Down that fails changes nothing on disk.
LEMMA DownFailsState ==
    ASSUME StateInv, DownFails, faults' \in Nat,
           UNCHANGED <<root, spec, latest, killed>>
    PROVE  StateInv'
<1>1. /\ proc' \in Process /\ outcome' \in Outcomes
      /\ proc'.pc \in {"down", "idle"}
  BY DownFailsOK DEF StateInv
<1> QED
  BY <1>1, FailedOK, QuietStep

\* Down goes on to remove only a root of ours.
LEMMA DownState == ASSUME StateInv, Down PROVE StateInv'
<1> /\ proc \in Process /\ outcome \in Outcomes /\ faults \in Nat
    /\ RootOK(root) /\ UNCHANGED <<root, spec, latest, killed>>
  BY DEF StateInv, Down
<1>1. CASE DownEnds /\ UNCHANGED faults
  BY <1>1, DownEndsOK, FailedOK, QuietStep
<1>2. CASE Owned /\ Goto("remove") /\ UNCHANGED <<outcome, faults>>
  <2>1. "remove" \in Steps
    BY DEF Steps
  <2>2. proc' \in Process /\ proc'.pc = "remove" /\ root'.ours
    BY <1>2, <2>1, GotoOK, MarkerIsOurs DEF Owned
  <2>3. StepsOK'
    BY <2>2 DEF StepsOK, HasRoot, HasNodes, HasSpec
  <2> QED
    BY <1>2, <2>2, <2>3 DEF StateInv
<1>3. CASE DownFails /\ UNCHANGED faults
  BY <1>3, DownFailsState
<1>4. CASE Fault /\ DownFails
  BY <1>4, FaultOK, DownFailsState
<1> QED
  BY <1>1, <1>2, <1>3, <1>4 DEF Down

\* A root of ours stays ours while it is removed.
LEMMA RemoveState == ASSUME StateInv, RemoveRoot PROVE StateInv'
<1> /\ proc \in Process /\ outcome \in Outcomes /\ faults \in Nat
    /\ RootOK(root) /\ UNCHANGED <<spec, killed>> /\ proc.pc = "remove"
    /\ root.ours
  BY DEF StateInv, RemoveRoot, At, StepsOK
<1>1. CASE RemoveEntry /\ UNCHANGED <<proc, outcome, latest, faults>>
  <2>1. RootOK(root') /\ root'.ours
    BY <1>1, RemoveEntryOK
  <2>2. StepsOK'
    BY <1>1, <2>1 DEF StepsOK, HasRoot, HasNodes, HasSpec
  <2> QED
    BY <1>1, <2>1, <2>2 DEF StateInv
<1>2. CASE root' = NoRoot /\ latest' = 0 /\ DownEnds /\ UNCHANGED faults
  <2>1. /\ proc' \in Process /\ outcome' \in Outcomes /\ StepsOK'
        /\ RootOK(root')
    BY <1>2, DownEndsOK, FailedOK, QuietOK, NoRootOK
  <2> QED
    BY <1>2, <2>1 DEF StateInv
<1>3. CASE Fault /\ DownFails /\ UNCHANGED <<root, latest>>
  BY <1>3, FaultOK, DownFailsState
<1> QED
  BY <1>1, <1>2, <1>3 DEF RemoveRoot

\* A process is killed.
LEMMA KillState == ASSUME StateInv, Kill PROVE StateInv'
<1>1. "killed" \in Outcomes
  BY DEF Outcomes
<1>2. /\ proc' \in Process /\ outcome' \in Outcomes /\ StepsOK'
  BY <1>1, EndOK, FailedOK, QuietOK DEF Kill, StateInv
<1> QED
  BY <1>2 DEF Kill, StateInv

\* A store changes the override state of a root of ours, and nothing else.
LEMMA StoreEffect ==
    ASSUME RootOK(root), Store
    PROVE  /\ RootOK(root') /\ root.ours /\ root'.ours
           /\ root.files \subseteq root'.files
           /\ root'.value = latest' /\ latest' \in Values
<1>1. PICK v \in Values \ {root.value} :
        /\ root' = [root EXCEPT !.value = v, !.files = @ \cup {"overrides"}]
        /\ latest' = v
  BY DEF Store
<1> DEFINE F == root.files \cup {"overrides"}
<1>2. /\ F \in SUBSET Files /\ v \in Values \cup {0} /\ v # 0
      /\ root \in Root /\ root' = [root EXCEPT !.value = v, !.files = F]
  BY <1>1, InstallerAssumption DEF RootOK, Root, Files
<1> HIDE DEF F
<1>3. /\ root' \in Root /\ root'.files = F /\ root'.value = v
      /\ root'.ours = root.ours /\ root'.exists = root.exists
  BY <1>2 DEF Root
<1>4. root.ours /\ root.exists
  BY OursExists DEF Store
<1>5. RootOK(root')
  BY <1>2, <1>3, <1>4 DEF RootOK, F
<1> QED
  BY <1>1, <1>3, <1>4, <1>5 DEF F

\* A store takes nothing from the root.
LEMMA StoreState == ASSUME StateInv, Store PROVE StateInv'
<1>1. /\ RootOK(root') /\ root.ours /\ root'.ours
      /\ root.files \subseteq root'.files /\ latest' \in Values
  BY StoreEffect DEF StateInv
<1>2. UNCHANGED <<spec, proc, outcome, faults, killed>>
  BY DEF Store
<1>3. StepsOK'
  BY <1>1, <1>2 DEF StateInv, StepsOK, Complete
<1> QED
  BY <1>1, <1>2, <1>3 DEF StateInv

\* A root that is somebody else's.
LEMMA ForeignRootOK ==
    RootOK([exists |-> TRUE, ours |-> FALSE, files |-> {"data"}, value |-> 0])
BY DEF RootOK, Root, Files

\* Foreign files appear where no process has put its own.
LEMMA PutForeignState == ASSUME StateInv, PutForeign PROVE StateInv'
<1> /\ RootOK(root) /\ proc \in Process
    /\ UNCHANGED <<proc, outcome, latest, faults, killed>>
  BY DEF StateInv, PutForeign
<1>1. CASE /\ ~ root.exists
           /\ root' = [exists |-> TRUE, ours |-> FALSE, files |-> {"data"},
                       value |-> 0]
           /\ UNCHANGED spec
  <2>1. ~ root.ours
    BY <1>1, OursExists
  <2>2. proc.pc \notin HasRoot /\ proc.pc \notin HasNodes /\ proc.pc # "remove"
    BY <2>1 DEF StateInv, StepsOK, Complete, HasNodes
  <2>3. StepsOK'
    BY <1>1, <2>2 DEF StateInv, StepsOK
  <2> QED
    BY <1>1, <2>3, ForeignRootOK DEF StateInv
<1>2. CASE spec = NoSpec /\ spec' = Foreign /\ UNCHANGED root
  <2>1. proc.version \in Version
    BY DEF Process
  <2>2. proc.pc \notin HasSpec
    BY <1>2, <2>1, InstallerAssumption DEF StateInv, StepsOK
  <2>3. StepsOK'
    BY <1>2, <2>2 DEF StateInv, StepsOK, Complete
  <2> QED
    BY <1>2, <2>3 DEF StateInv
<1> QED
  BY <1>1, <1>2 DEF PutForeign

\* Every step keeps the invariant.
LEMMA NextState == ASSUME StateInv, [Next]_vars PROVE StateInv'
<1>1. CASE UNCHANGED vars
  BY <1>1 DEF vars, StateInv, StepsOK, Complete
<1>2. CASE Prepare
  BY <1>2, CheckState, CopyState, PreserveState, InspectState, ReplaceState,
     RenameState DEF Prepare
<1>3. CASE Install
  BY <1>3, DevicesState, InspectSpecState, WriteSpecState, TerminateState,
     ReadSpecState, RemoveSpecState DEF Install
<1> QED
  BY <1>1, <1>2, <1>3, BeginState, DownState, RemoveState, KillState,
     StoreState, PutForeignState DEF Next

\* StateInv holds in every reachable state, with no assumption on what fails,
\* who is killed or when foreign files appear.
THEOREM InstallerState == Spec => []StateInv
BY InitState, NextState, PTL DEF Spec

\* Every reachable state has its types (Layout, run), whatever fails, whoever
\* is killed and wherever foreign files appear.
THEOREM InstallerTypes == Spec => []TypeOK
<1>1. StateInv => TypeOK
  BY DEF StateInv, RootOK, Root, Process, Steps, Outcomes, TypeOK
<1> QED
  BY <1>1, InstallerState, PTL

-----------------------------------------------------------------------------
(* Where the steps of a process lead. *)

\* The process that ends is idle.
LEMMA EndPlace == ASSUME NEW how, End(how) PROVE proc'.pc = "idle"
BY DEF End, NoProc

\* The process goes where it is sent.
LEMMA GotoPlace ==
    ASSUME proc \in Process, NEW where, Goto(where) PROVE proc'.pc = where
BY DEF Process, Goto

\* The process that aborts goes to Down.
LEMMA AbortPlace ==
    ASSUME proc \in Process, NEW how, Abort(how) PROVE proc'.pc = "down"
BY DEF Process, Abort

\* Down ends or is tried again.
LEMMA DownPlace ==
    ASSUME proc \in Process, DownFails \/ DownEnds
    PROVE  proc'.pc \in {"down", "idle"}
BY EndPlace DEF Process, DownFails, DownEnds

\* The removal of the spec is tried again, or Down is next.
LEMMA SpecFailsPlace ==
    ASSUME proc \in Process, SpecFails
    PROVE  proc'.pc \in {"readSpec", "down"}
BY DEF Process, SpecFails

\* From where to where the steps of Prepare lead.
LEMMA PreparePlaces ==
    ASSUME StateInv
    PROVE  /\ Begin => proc.pc = "idle" /\ proc'.pc \in {"check", "down"}
           /\ RequireOwnedOrAbsent =>
                 proc.pc = "check" /\ proc'.pc \in {"copy", "idle"}
           /\ CopyTree => proc.pc = "copy" /\ proc'.pc \in {"preserve", "idle"}
           /\ PreserveOverrides =>
                 proc.pc = "preserve" /\ proc'.pc \in {"inspect", "idle"}
           /\ InspectRoot =>
                 proc.pc = "inspect" /\ proc'.pc \in {"replace", "rename"}
           /\ Replace =>
                 /\ proc.pc = "replace"
                 /\ proc'.pc \in {"replace", "rename", "idle"}
           /\ Rename => proc.pc = "rename" /\ proc'.pc \in {"devices", "idle"}
<1> proc \in Process
  BY DEF StateInv
<1>1. Begin => proc.pc = "idle" /\ proc'.pc \in {"check", "down"}
  BY DEF Begin, At
<1>2. RequireOwnedOrAbsent =>
         proc.pc = "check" /\ proc'.pc \in {"copy", "idle"}
  BY EndPlace, GotoPlace DEF RequireOwnedOrAbsent, At
<1>3. CopyTree => proc.pc = "copy" /\ proc'.pc \in {"preserve", "idle"}
  BY EndPlace, GotoPlace DEF CopyTree, At
<1>4. PreserveOverrides =>
         proc.pc = "preserve" /\ proc'.pc \in {"inspect", "idle"}
  BY EndPlace DEF PreserveOverrides, At, Process
<1>5. InspectRoot => proc.pc = "inspect" /\ proc'.pc \in {"replace", "rename"}
  BY GotoPlace DEF InspectRoot, At
<1>6. Replace =>
         proc.pc = "replace" /\ proc'.pc \in {"replace", "rename", "idle"}
  BY EndPlace, GotoPlace DEF Replace, At
<1>7. Rename => proc.pc = "rename" /\ proc'.pc \in {"devices", "idle"}
  BY EndPlace, GotoPlace DEF Rename, At
<1> QED
  BY <1>1, <1>2, <1>3, <1>4, <1>5, <1>6, <1>7

\* From where to where the steps of the installer lead.
LEMMA InstallPlaces ==
    ASSUME StateInv
    PROVE  /\ CreateDeviceNodes =>
                 proc.pc = "devices" /\ proc'.pc \in {"inspectSpec", "down"}
           /\ InspectSpec =>
                 proc.pc = "inspectSpec" /\ proc'.pc \in {"writeSpec", "down"}
           /\ WriteSpec =>
                 proc.pc = "writeSpec" /\ proc'.pc \in {"waiting", "down"}
           /\ Terminate => proc.pc = "waiting" /\ proc'.pc = "readSpec"
           /\ ReadSpec =>
                 /\ proc.pc = "readSpec"
                 /\ proc'.pc \in {"removeSpec", "readSpec", "down"}
           /\ RemoveSpec =>
                 proc.pc = "removeSpec" /\ proc'.pc \in {"readSpec", "down"}
<1> proc \in Process
  BY DEF StateInv
<1>1. CreateDeviceNodes =>
         proc.pc = "devices" /\ proc'.pc \in {"inspectSpec", "down"}
  BY GotoPlace, AbortPlace DEF CreateDeviceNodes, At
<1>2. InspectSpec =>
         proc.pc = "inspectSpec" /\ proc'.pc \in {"writeSpec", "down"}
  BY GotoPlace, AbortPlace DEF InspectSpec, At
<1>3. WriteSpec => proc.pc = "writeSpec" /\ proc'.pc \in {"waiting", "down"}
  BY GotoPlace, AbortPlace DEF WriteSpec, At
<1>4. Terminate => proc.pc = "waiting" /\ proc'.pc = "readSpec"
  BY DEF Terminate, At, Process
<1>5. ReadSpec =>
         /\ proc.pc = "readSpec"
         /\ proc'.pc \in {"removeSpec", "readSpec", "down"}
  BY GotoPlace, SpecFailsPlace DEF ReadSpec, At
<1>6. RemoveSpec =>
         proc.pc = "removeSpec" /\ proc'.pc \in {"readSpec", "down"}
  BY GotoPlace, SpecFailsPlace DEF RemoveSpec, At
<1> QED
  BY <1>1, <1>2, <1>3, <1>4, <1>5, <1>6

\* From where to where the steps of Down lead.
LEMMA DownPlaces ==
    ASSUME StateInv
    PROVE  /\ Down =>
                 proc.pc = "down" /\ proc'.pc \in {"remove", "down", "idle"}
           /\ RemoveRoot =>
                 proc.pc = "remove" /\ proc'.pc \in {"remove", "down", "idle"}
           /\ Kill => proc'.pc = "idle"
<1> proc \in Process
  BY DEF StateInv
<1>1. Down => proc.pc = "down" /\ proc'.pc \in {"remove", "down", "idle"}
  BY GotoPlace, DownPlace DEF Down, At
<1>2. RemoveRoot =>
         proc.pc = "remove" /\ proc'.pc \in {"remove", "down", "idle"}
  BY DownPlace DEF RemoveRoot, At
<1> QED
  BY <1>1, <1>2, EndPlace DEF Kill

-----------------------------------------------------------------------------
(* Foreign files.  Nothing but a look at the marker, or at the spec, stands *)
(* between them and os.RemoveAll or os.Rename, and it is not repeated: what *)
(* was found then must still be there.                                      *)

\* Between the look and the change there is nothing foreign.
ForeignInv ==
    /\ proc.pc \in {"copy", "preserve", "inspect", "replace"} /\ root.exists
       => root.ours
    /\ proc.pc = "writeSpec" => spec # Foreign

\* At first no process is at work.
LEMMA InitForeign == Init => ForeignInv
BY DEF Init, ForeignInv, NoProc

\* Prepare goes on only with a root of ours, or with none.
LEMMA PrepareForeign ==
    ASSUME StateInv, ForeignInv, Prepare
    PROVE  ForeignInv'
<1> RootOK(root)
  BY DEF StateInv
<1>1. CASE RequireOwnedOrAbsent
  <2>1. UNCHANGED root /\ (proc'.pc = "copy" => ~ root.exists \/ Owned)
    BY <1>1, EndPlace DEF RequireOwnedOrAbsent
  <2> QED
    BY <1>1, <2>1, PreparePlaces, MarkerIsOurs DEF ForeignInv, Owned
<1>2. CASE CopyTree
  BY <1>2, PreparePlaces DEF CopyTree, ForeignInv
<1>3. CASE PreserveOverrides
  BY <1>3, PreparePlaces DEF PreserveOverrides, ForeignInv
<1>4. CASE InspectRoot
  BY <1>4, PreparePlaces DEF InspectRoot, ForeignInv
<1>5. CASE Replace
  <2>1. CASE RemoveEntry
    BY <1>5, <2>1, PreparePlaces, RemoveEntryOK DEF ForeignInv
  <2>2. CASE root' = NoRoot
    BY <1>5, <2>2, PreparePlaces DEF NoRoot, ForeignInv
  <2>3. CASE UNCHANGED root
    BY <1>5, <2>3, PreparePlaces DEF ForeignInv
  <2> QED
    BY <1>5, <2>1, <2>2, <2>3 DEF Replace
<1>6. CASE Rename
  BY <1>6, PreparePlaces DEF ForeignInv
<1> QED
  BY <1>1, <1>2, <1>3, <1>4, <1>5, <1>6 DEF Prepare

\* The installer goes on only with a spec of its own, or with none.
LEMMA InstallForeign ==
    ASSUME StateInv, ForeignInv, Install
    PROVE  ForeignInv'
<1>1. CASE InspectSpec
  <2>1. proc.version \in Version
    BY DEF StateInv, Process
  <2>2. proc \in Process
    BY DEF StateInv
  <2>3. UNCHANGED spec /\ (proc'.pc = "writeSpec" => spec # Foreign)
    BY <1>1, <2>1, <2>2, AbortPlace, InstallerAssumption
    DEF InspectSpec, GenerateCDISpec
  <2> QED
    BY <1>1, <2>3, InstallPlaces DEF ForeignInv
<1> QED
  BY <1>1, InstallPlaces DEF Install, ForeignInv

\* Foreign files that appear only between processes are seen in time.
LEMMA NextForeign ==
    ASSUME ForeignFiles # "always", StateInv, ForeignInv, [Next]_vars
    PROVE  ForeignInv'
<1>1. CASE Store
  BY <1>1, StoreEffect DEF Store, StateInv, ForeignInv
<1>2. CASE PutForeign
  BY <1>2 DEF PutForeign, Allowed, At, ForeignInv
<1>3. CASE UNCHANGED vars
  BY <1>3 DEF vars, ForeignInv
<1>4. CASE Begin \/ Down \/ RemoveRoot \/ Kill
  BY <1>4, PreparePlaces, DownPlaces DEF ForeignInv
<1> QED
  BY <1>1, <1>2, <1>3, <1>4, PrepareForeign, InstallForeign DEF Next

\* No step changes a foreign root or a foreign spec.
LEMMA StepLeavesForeign ==
    ASSUME StateInv, ForeignInv, Next
    PROVE  /\ root.exists /\ ~ root.ours => root' = root
           /\ spec = Foreign => spec' = Foreign
<1> /\ RootOK(root) /\ proc.version \in Version
  BY DEF StateInv, Process
<1>1. spec = Foreign => proc.pc \notin HasSpec
  BY InstallerAssumption DEF StateInv, StepsOK
<1>2. CASE Replace
  BY <1>2 DEF Replace, At, ForeignInv
<1>3. CASE Rename
  BY <1>3 DEF Rename
<1>4. CASE CreateDeviceNodes
  BY <1>4 DEF CreateDeviceNodes, At, StateInv, StepsOK, HasRoot, Complete
<1>5. CASE WriteSpec
  BY <1>5 DEF WriteSpec, At, ForeignInv
<1>6. CASE RemoveSpec
  BY <1>1, <1>6 DEF RemoveSpec, At, HasSpec
<1>7. CASE RemoveRoot
  BY <1>7 DEF RemoveRoot, At, StateInv, StepsOK
<1>8. CASE Store
  BY <1>8 DEF Store
<1>9. CASE PutForeign
  BY <1>9, InstallerAssumption DEF PutForeign
<1>10. CASE RequireOwnedOrAbsent \/ CopyTree \/ PreserveOverrides \/ InspectRoot
  BY <1>10 DEF RequireOwnedOrAbsent, CopyTree, PreserveOverrides, InspectRoot
<1>11. CASE InspectSpec \/ Terminate \/ ReadSpec
  BY <1>11 DEF InspectSpec, Terminate, ReadSpec
<1>12. CASE Begin \/ Down \/ Kill
  BY <1>12 DEF Begin, Down, Kill
<1> QED
  BY <1>2, <1>3, <1>4, <1>5, <1>6, <1>7, <1>8, <1>9, <1>10, <1>11, <1>12
  DEF Next, Prepare, Install

\* A root or a spec that somebody else made is never changed or removed,
\* whatever fails and whoever is killed (requireOwned, installOwnedFile and
\* removeOwnedFile), unless it can appear while a process is at work.
THEOREM ForeignFilesSurvive ==
    ASSUME ForeignFiles # "always"
    PROVE  Spec => ForeignUntouched
<1>1. StateInv /\ ForeignInv /\ [Next]_vars => ForeignInv'
  BY NextForeign
<1>2. StateInv /\ ForeignInv /\ [Next]_vars =>
         [/\ root.exists /\ ~ root.ours => root' = root
          /\ spec = Foreign => spec' = Foreign]_vars
  BY StepLeavesForeign
<1> QED
  BY <1>1, <1>2, InitForeign, InstallerState, PTL DEF Spec, ForeignUntouched

-----------------------------------------------------------------------------
(* Backed specs.  A published spec outlives its installer only if both of   *)
(* its removals fail, and the second takes a second fault.                  *)

\* A published spec has its installer, and that has an attempt left.
BackedInv ==
    /\ faults <= MaxFaults
    /\ spec \in Version /\ ~ killed => proc.pc \in HasSpec
    /\ proc.pc \in {"readSpec", "removeSpec"}
       => proc.tries = 2 \/ (proc.tries = 1 /\ faults >= 1)

\* At first there is no spec.
LEMMA InitBacked == Init => BackedInv
BY InstallerAssumption DEF Init, BackedInv, NoProc, HasSpec

\* A step that starts outside of the installer's last steps and stays there.
LEMMA UnpublishedStep ==
    ASSUME BackedInv, proc.pc \notin HasSpec, proc'.pc \notin HasSpec,
           faults' <= MaxFaults, spec' \notin Version \/ spec' = spec,
           killed' = killed
    PROVE  BackedInv'
BY DEF BackedInv, HasSpec

\* Faults are bounded and only grow.
LEMMA FaultBound ==
    ASSUME StateInv, BackedInv, Fault \/ UNCHANGED faults
    PROVE  faults' <= MaxFaults /\ faults' \in Nat /\ faults' >= faults
BY InstallerAssumption DEF StateInv, BackedInv, Fault

\* Prepare does not touch the spec.
LEMMA PrepareBacked ==
    ASSUME StateInv, BackedInv, Prepare
    PROVE  BackedInv'
<1>1. proc.pc \notin HasSpec /\ proc'.pc \notin HasSpec
  BY PreparePlaces DEF Prepare, HasSpec
<1>2. Fault \/ UNCHANGED faults
  BY DEF Prepare, RequireOwnedOrAbsent, CopyTree, PreserveOverrides,
         InspectRoot, Replace, Rename
<1>3. UNCHANGED <<spec, killed>>
  BY DEF Prepare, RequireOwnedOrAbsent, CopyTree, PreserveOverrides,
         InspectRoot, Replace, Rename
<1> QED
  BY <1>1, <1>2, <1>3, FaultBound, UnpublishedStep

\* A removal of the spec that fails is followed by another one: it cannot be
\* the second one, for that would take a second fault.
LEMMA SpecFailsBacked ==
    ASSUME MaxFaults <= 1, StateInv, BackedInv, Fault, SpecFails,
           proc.pc \in {"readSpec", "removeSpec"}, UNCHANGED <<spec, killed>>
    PROVE  BackedInv'
<1>1. proc \in Process /\ faults \in Nat /\ MaxFaults \in Nat
  BY InstallerAssumption DEF StateInv
<1>2. proc.tries = 2 /\ faults' = faults + 1 /\ faults' <= MaxFaults
  BY <1>1 DEF BackedInv, Fault
<1>3. proc'.pc = "readSpec" /\ proc'.tries = 1
  BY <1>1, <1>2, SpecFailsOK
<1> QED
  BY <1>1, <1>2, <1>3 DEF BackedInv, HasSpec

\* The installer leaves its last steps only when the spec is gone.
LEMMA InstallBacked ==
    ASSUME MaxFaults <= 1, StateInv, BackedInv, Install
    PROVE  BackedInv'
<1> /\ proc \in Process /\ proc.version \in Version
    /\ faults \in Nat
  BY DEF StateInv, Process
<1>1. CASE CreateDeviceNodes
  <2>1. proc.pc \notin HasSpec /\ proc'.pc \notin HasSpec
    BY <1>1, InstallPlaces DEF HasSpec
  <2>2. (Fault \/ UNCHANGED faults) /\ UNCHANGED <<spec, killed>>
    BY <1>1 DEF CreateDeviceNodes
  <2> QED
    BY <2>1, <2>2, FaultBound, UnpublishedStep
<1>2. CASE InspectSpec
  <2>1. proc.pc \notin HasSpec /\ proc'.pc \notin HasSpec
    BY <1>2, InstallPlaces DEF HasSpec
  <2>2. (Fault \/ UNCHANGED faults) /\ UNCHANGED <<spec, killed>>
    BY <1>2 DEF InspectSpec
  <2> QED
    BY <2>1, <2>2, FaultBound, UnpublishedStep
<1>3. CASE WriteSpec
  <2>1. CASE Goto("waiting") /\ UNCHANGED faults
    <3>1. proc'.pc = "waiting"
      BY <2>1, GotoPlace
    <3> QED
      BY <2>1, <3>1 DEF BackedInv, HasSpec
  <2>2. CASE Fault /\ Abort("failed") /\ UNCHANGED spec
    <3>1. proc.pc \notin HasSpec /\ proc'.pc \notin HasSpec
      BY <1>3, <2>2, AbortPlace DEF HasSpec, WriteSpec, At
    <3> QED
      BY <1>3, <2>2, <3>1, FaultBound, UnpublishedStep DEF WriteSpec
  <2> QED
    BY <1>3, <2>1, <2>2 DEF WriteSpec
<1>4. CASE Terminate
  <2>1. proc'.pc = "readSpec" /\ proc'.tries = 2
    BY <1>4 DEF Terminate, Process
  <2> QED
    BY <1>4, <2>1 DEF Terminate, BackedInv, HasSpec
<1>5. CASE ReadSpec
  <2>1. spec = proc.version /\ proc.pc = "readSpec"
    BY <1>5 DEF ReadSpec, At, StateInv, StepsOK, HasSpec
  <2>2. CASE Goto("removeSpec") /\ UNCHANGED faults
    <3>1. proc'.pc = "removeSpec" /\ proc'.tries = proc.tries
      BY <2>2 DEF Goto, Process
    <3> QED
      BY <1>5, <2>1, <2>2, <3>1 DEF ReadSpec, BackedInv, HasSpec
  <2>3. CASE Fault /\ SpecFails
    BY <1>5, <2>1, <2>3, SpecFailsBacked DEF ReadSpec
  <2> QED
    BY <1>5, <2>1, <2>2, <2>3, InstallerAssumption
    DEF ReadSpec, GenerateCDISpec
<1>6. CASE RemoveSpec
  <2>1. CASE spec' = NoSpec /\ Goto("down") /\ UNCHANGED faults
    <3>1. proc'.pc = "down"
      BY <2>1, GotoPlace
    <3> QED
      BY <2>1, <3>1, InstallerAssumption DEF BackedInv
  <2>2. CASE Fault /\ SpecFails /\ UNCHANGED spec
    BY <1>6, <2>2, SpecFailsBacked DEF RemoveSpec, At
  <2> QED
    BY <1>6, <2>1, <2>2 DEF RemoveSpec
<1> QED
  BY <1>1, <1>2, <1>3, <1>4, <1>5, <1>6 DEF Install

\* Every step keeps BackedInv when one system call fails at most.
LEMMA NextBacked ==
    ASSUME MaxFaults <= 1, StateInv, BackedInv, [Next]_vars
    PROVE  BackedInv'
<1>1. CASE Begin \/ Down \/ RemoveRoot
  <2>1. proc.pc \notin HasSpec /\ proc'.pc \notin HasSpec
    BY <1>1, PreparePlaces, DownPlaces DEF HasSpec
  <2>2. (Fault \/ UNCHANGED faults) /\ UNCHANGED <<spec, killed>>
    BY <1>1 DEF Begin, Down, RemoveRoot
  <2> QED
    BY <2>1, <2>2, FaultBound, UnpublishedStep
<1>2. CASE Kill
  BY <1>2, DownPlaces DEF Kill, BackedInv
<1>3. CASE Store
  BY <1>3 DEF Store, BackedInv
<1>4. CASE PutForeign
  BY <1>4, InstallerAssumption DEF PutForeign, BackedInv
<1>5. CASE UNCHANGED vars
  BY <1>5 DEF vars, BackedInv
<1> QED
  BY <1>1, <1>2, <1>3, <1>4, <1>5, PrepareBacked, InstallBacked DEF Next

\* As long as nobody is killed and at most one system call fails, the root
\* that a published CDI spec names is complete and has its device nodes: the
\* deferred removal of the spec comes before that of the root (run).
THEOREM SpecsAreBacked ==
    ASSUME MaxFaults <= 1
    PROVE  Spec => []SpecBacked
<1>1. StateInv /\ BackedInv /\ [Next]_vars => BackedInv'
  BY NextBacked
<1>2. StateInv /\ BackedInv => SpecBacked
  BY DEF StateInv, StepsOK, BackedInv, SpecBacked, HasSpec, HasNodes, HasRoot
<1> QED
  BY <1>1, <1>2, InitBacked, InstallerState, PTL DEF Spec

-----------------------------------------------------------------------------
(* Overrides. *)

\* The steps at which the root may be incomplete or away.
Away == {"replace", "remove", "rename"}

\* The steps between the check of the root and its inspection.
Refreshing == {"copy", "preserve", "inspect"}

\* The root has the overrides stored last, or the process that takes it away
\* has them in its temporary root.
KeptInv ==
    ~ killed /\ faults = 0 =>
        /\ proc.pc \notin Away /\ root.ours => Complete /\ root.value = latest
        /\ proc.pc \notin Away /\ ~ root.exists => latest = 0
        /\ proc.pc \in Refreshing /\ ~ root.ours => latest = 0
        /\ proc.pc \in {"inspect", "replace", "rename"} => proc.value = latest
        /\ proc.pc = "rename" => ~ root.ours

\* At first nothing is stored.
LEMMA InitKept == Init => KeptInv
BY DEF Init, KeptInv, NoProc, NoRoot, Away, Refreshing

\* Nothing is claimed after a fault.
LEMMA FaultKept == ASSUME StateInv, Fault PROVE KeptInv'
BY DEF StateInv, Fault, KeptInv

\* A step that leaves the root alone, away from the steps of Prepare.
LEMMA CalmStep ==
    ASSUME KeptInv, proc.pc \notin Away,
           proc'.pc \notin Away \cup Refreshing,
           UNCHANGED <<root, latest, faults, killed>>
    PROVE  KeptInv'
BY DEF KeptInv, Complete, Away, Refreshing

\* A refresh carries the overrides from the old root to the new one.
LEMMA PrepareKept ==
    ASSUME StateInv, KeptInv, Prepare
    PROVE  KeptInv'
<1> proc \in Process /\ RootOK(root)
  BY DEF StateInv
<1>0. CASE Fault
  BY <1>0, FaultKept
<1>1. CASE RequireOwnedOrAbsent /\ ~ Fault
  <2>1. /\ UNCHANGED <<root, latest, faults, killed>> /\ proc.pc = "check"
        /\ proc'.pc \in {"copy", "idle"}
        /\ proc'.pc = "copy" => ~ root.exists \/ Owned
    BY <1>1, PreparePlaces, EndPlace DEF RequireOwnedOrAbsent
  <2> QED
    BY <2>1, MarkerIsOurs DEF KeptInv, Complete, Away, Refreshing, Owned
<1>2. CASE CopyTree /\ ~ Fault
  <2>1. /\ UNCHANGED <<root, latest, faults, killed>> /\ proc.pc = "copy"
        /\ proc'.pc \in {"preserve", "idle"}
    BY <1>2, PreparePlaces DEF CopyTree
  <2> QED
    BY <2>1 DEF KeptInv, Complete, Away, Refreshing
<1>3. CASE PreserveOverrides /\ ~ Fault
  <2>1. /\ UNCHANGED <<root, latest, faults, killed>> /\ proc.pc = "preserve"
        /\ proc'.pc = "inspect" /\ proc'.value = root.value
    BY <1>3 DEF PreserveOverrides, At, Process
  <2>2. ~ root.ours => root.value = 0
    BY DEF RootOK
  <2> QED
    BY <2>1, <2>2 DEF KeptInv, Complete, Away, Refreshing
<1>4. CASE InspectRoot
  <2>1. /\ UNCHANGED <<root, latest, faults, killed>> /\ proc.pc = "inspect"
        /\ proc'.pc = IF root.exists THEN "replace" ELSE "rename"
        /\ proc'.value = proc.value
    BY <1>4 DEF InspectRoot, At, Goto, Process
  <2> QED
    BY <2>1, OursExists DEF KeptInv, Away, Refreshing
<1>5. CASE Replace /\ ~ Fault
  <2>1. UNCHANGED <<latest, faults, killed>> /\ proc.pc = "replace"
    BY <1>5 DEF Replace, At
  <2>2. CASE UNCHANGED proc
    BY <2>1, <2>2 DEF KeptInv, Away, Refreshing
  <2>3. CASE root' = NoRoot /\ Goto("rename")
    <3>1. proc'.pc = "rename" /\ proc'.value = proc.value /\ ~ root'.ours
      BY <2>3 DEF Goto, Process, NoRoot
    <3> QED
      BY <2>1, <3>1 DEF KeptInv, Away, Refreshing
  <2> QED
    BY <1>5, <2>2, <2>3 DEF Replace
<1>6. CASE Rename /\ ~ Fault
  <2>1. UNCHANGED <<latest, faults, killed>> /\ proc.pc = "rename"
    BY <1>6 DEF Rename, At
  <2>2. proc'.pc \notin Away \cup Refreshing
    BY <1>6, PreparePlaces DEF Away, Refreshing
  <2>3. CASE root' = NewRoot
    <3>1. /\ root'.ours /\ root'.exists /\ Built \subseteq root'.files
          /\ root'.value = proc.value
      BY <2>3, NewRootOK, OursExists
    <3> QED
      BY <2>1, <2>2, <3>1 DEF KeptInv, Complete, Away, Refreshing
  <2>4. CASE root.exists /\ UNCHANGED root
    BY <2>1, <2>2, <2>4 DEF KeptInv, Complete, Away, Refreshing
  <2> QED
    BY <1>6, <2>3, <2>4 DEF Rename
<1> QED
  BY <1>0, <1>1, <1>2, <1>3, <1>4, <1>5, <1>6 DEF Prepare

\* The installer leaves the overrides alone.
LEMMA InstallKept ==
    ASSUME StateInv, KeptInv, Install
    PROVE  KeptInv'
<1>0. CASE Fault
  BY <1>0, FaultKept
<1>1. proc.pc \notin Away /\ proc'.pc \notin Away \cup Refreshing
  BY InstallPlaces DEF Install, Away, Refreshing
<1>2. CASE CreateDeviceNodes /\ ~ Fault
  <2>1. /\ root' = [root EXCEPT !.files = @ \cup {"dev"}]
        /\ UNCHANGED <<latest, faults, killed>>
    BY <1>2 DEF CreateDeviceNodes
  <2>2. /\ root'.ours = root.ours /\ root'.value = root.value
        /\ root'.exists = root.exists /\ root.files \subseteq root'.files
    BY <2>1 DEF StateInv, RootOK, Root
  <2> QED
    BY <1>1, <2>1, <2>2 DEF KeptInv, Complete, Away, Refreshing
<1>3. CASE Install /\ ~ Fault /\ ~ CreateDeviceNodes
  <2>1. UNCHANGED <<root, latest, faults, killed>>
    BY <1>3 DEF Install, InspectSpec, WriteSpec, Terminate, ReadSpec, RemoveSpec
  <2> QED
    BY <1>1, <2>1, CalmStep
<1> QED
  BY <1>0, <1>2, <1>3

\* Down forgets them only together with the root.
LEMMA DownKept ==
    ASSUME StateInv, KeptInv, Down \/ RemoveRoot
    PROVE  KeptInv'
<1>0. CASE Fault
  BY <1>0, FaultKept
<1>1. CASE Down /\ ~ Fault
  <2>1. /\ UNCHANGED <<root, latest, faults, killed>> /\ proc.pc = "down"
        /\ proc'.pc \in {"remove", "down", "idle"}
    BY <1>1, DownPlaces DEF Down
  <2> QED
    BY <2>1 DEF KeptInv, Complete, Away, Refreshing
<1>2. CASE RemoveRoot /\ ~ Fault
  <2>1. UNCHANGED <<faults, killed>> /\ proc.pc = "remove"
    BY <1>2 DEF RemoveRoot, At
  <2>2. CASE UNCHANGED proc
    BY <2>1, <2>2 DEF KeptInv, Away, Refreshing
  <2>3. CASE root' = NoRoot /\ latest' = 0 /\ DownEnds
    <3>1. proc'.pc = "idle" /\ ~ root'.ours
      BY <2>3, EndPlace DEF DownEnds, NoRoot
    <3> QED
      BY <2>3, <3>1 DEF KeptInv, Refreshing
  <2> QED
    BY <1>2, <2>2, <2>3 DEF RemoveRoot
<1> QED
  BY <1>0, <1>1, <1>2

\* Every step keeps KeptInv when stores do not race with a process.
LEMMA NextKept ==
    ASSUME Stores # "always", StateInv, KeptInv, [Next]_vars
    PROVE  KeptInv'
<1> RootOK(root)
  BY DEF StateInv
<1>1. CASE Begin
  <2>1. /\ UNCHANGED <<root, latest, faults, killed>> /\ proc.pc = "idle"
        /\ proc'.pc \in {"check", "down"}
    BY <1>1, PreparePlaces DEF Begin
  <2> QED
    BY <2>1, CalmStep DEF Away, Refreshing
<1>2. CASE Kill
  BY <1>2 DEF Kill, KeptInv
<1>3. CASE Store
  <2>1. /\ proc.pc \in {"idle", "waiting"}
        /\ UNCHANGED <<proc, faults, killed>>
    BY <1>3 DEF Store, Allowed, At
  <2>2. /\ root.ours /\ root'.ours /\ root.files \subseteq root'.files
        /\ root'.value = latest' /\ RootOK(root')
    BY <1>3, StoreEffect
  <2>3. root'.exists
    BY <2>2, OursExists
  <2> QED
    BY <2>1, <2>2, <2>3 DEF KeptInv, Complete, Away, Refreshing
<1>4. CASE PutForeign
  <2>1. UNCHANGED <<proc, latest, faults, killed>>
    BY <1>4 DEF PutForeign
  <2>2. CASE ~ root.exists /\ root'.exists /\ ~ root'.ours
    BY <2>1, <2>2 DEF KeptInv, Away, Refreshing
  <2>3. CASE UNCHANGED root
    BY <2>1, <2>3 DEF KeptInv, Complete
  <2> QED
    BY <1>4, <2>2, <2>3 DEF PutForeign
<1>5. CASE UNCHANGED vars
  BY <1>5 DEF vars, KeptInv, Complete
<1> QED
  BY <1>1, <1>2, <1>3, <1>4, <1>5, PrepareKept, InstallKept, DownKept DEF Next

\* As long as nobody is killed and no system call fails, a complete root has
\* the overrides that were stored last, through every refresh of it
\* (preserveOverrides), unless they can be stored while a process is at work.
THEOREM OverridesAreKept ==
    ASSUME Stores # "always"
    PROVE  Spec => []OverridesKept
<1>1. StateInv /\ KeptInv /\ [Next]_vars => KeptInv'
  BY NextKept
<1>2. StateInv /\ KeptInv => OverridesKept
  BY DEF KeptInv, OverridesKept, Complete, Away
<1> QED
  BY <1>1, <1>2, InitKept, InstallerState, PTL DEF Spec

==============================================================================
