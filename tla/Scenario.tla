------------------------------ MODULE Scenario ------------------------------
(***************************************************************************)
(* The commands that read a description of the machine: `scenario run` and *)
(* `scenario render` of fake-nvidia-ctl (internal/controlcli,              *)
(* internal/scenario/scenario.go), and `render`, `up` and `kubernetes` of  *)
(* fake-nvidia (cmd/fake-nvidia).                                          *)
(*                                                                         *)
(* `scenario run` executes the initial operations, then steps that wait    *)
(* for a timer or for a named event, then the cleanup operations, which    *)
(* run however the rest went.  Events are lines of standard input: a       *)
(* goroutine scans them into a channel of capacity one, the runner takes   *)
(* them out while it waits.  What an operation does is the subject of      *)
(* ControlPlane; here it succeeds or fails.                                *)
(*                                                                         *)
(* The other commands compose a base configuration (module Composer).      *)
(***************************************************************************)
EXTENDS Composer

CONSTANTS
    Commands,       \* the commands that are run
    Lines,          \* the lines that standard input may have
    MaxLines        \* bound: how many of them

ASSUME ScenarioAssumption ==
    /\ MaxLines \in Nat
    /\ Commands \subseteq CommandType

VARIABLES
    command,        \* [name, files, doc, flags]: the catalogue's files, and
                    \* a scenario document or command-line flags
    rendered,       \* the configuration it has composed
    input,          \* the lines of standard input
    scanned,        \* how many of them the scanner has read
    results,        \* the channel
    closed,         \* the scanner has seen the end of the input
    taken,          \* how many lines the runner has taken
    pc,             \* the command's phase
    i,              \* the operation it is at, within its phase
    log,            \* the operations executed: [phase, i, ok]
    cancelled       \* the context is cancelled

vars == <<command, rendered, input, scanned, results, closed, taken, pc, i,
          log, cancelled>>

config == <<command, rendered>>

source == <<config, input, scanned, closed>>

ChannelCapacity == 1

Runs == command.name = "scenario run"

Init ==
    /\ command \in Commands
    /\ rendered = Rejected
    /\ input \in IF Runs THEN BoundedSeq(Lines, MaxLines) ELSE {<<>>}
    /\ scanned = 0
    /\ results = <<>>
    /\ closed = FALSE
    /\ taken = 0
    /\ pc = "start"
    /\ i = 1
    /\ log = <<>>
    /\ cancelled = FALSE

-----------------------------------------------------------------------------
(* The scanner goroutine of NewLineEvents, which runs once the document is *)
(* loaded.                                                                 *)

Started == Runs /\ pc # "start"

\* Mutant of Scan: it does not wait for room in the channel.
ScanUnbounded ==
    /\ Started
    /\ scanned < Len(input)
    /\ results' = Append(results, input[scanned + 1])
    /\ scanned' = scanned + 1
    /\ UNCHANGED <<config, input, closed, taken, pc, i, log, cancelled>>

Scan ==
    /\ Started
    /\ scanned < Len(input)
    /\ Len(results) < ChannelCapacity
    /\ results' = Append(results, input[scanned + 1])
    /\ scanned' = scanned + 1
    /\ UNCHANGED <<config, input, closed, taken, pc, i, log, cancelled>>

\* Standard input ends, or a read of it fails; a terminal may stay open.
CloseInput ==
    /\ Started
    /\ scanned = Len(input)
    /\ ~ closed
    /\ closed' = TRUE
    /\ UNCHANGED <<config, input, scanned, results, taken, pc, i, log, cancelled>>

-----------------------------------------------------------------------------
(* The commands.  A document is loaded before anything else happens. *)

doc == command.doc

Phase(name) == pc' = name /\ i' = 1

LoadScenario ==
    /\ pc = "start"
    /\ command.name \in {"scenario run", "scenario render"}
    /\ \/ ~ (doc.decodes /\ Validate(doc)) /\ Phase("done")
       \/ doc.decodes /\ Validate(doc) /\ Phase(IF Runs THEN "initial" ELSE "render")
    /\ UNCHANGED <<source, results, taken, log, cancelled>>

\* What the command composes from a catalogue that has been loaded.
Composed ==
    LET c == Catalog(command.files)
    IN  CASE command.name = "scenario render" -> RenderBase(c, doc)
          [] command.name = "render"          -> RunRender(c, command.flags)
          [] command.name = "up"              -> RunUp(c, command.flags)
          [] command.name = "kubernetes"      -> RunKubernetes(c, command.flags)

Render ==
    /\ \/ pc = "start" /\ command.name \in {"render", "up", "kubernetes"}
       \/ pc = "render"
    /\ rendered' = IF CatalogLoads(command.files) THEN Composed ELSE Rejected
    /\ Phase("done")
    /\ UNCHANGED <<command, input, scanned, closed, results, taken, log,
                   cancelled>>

-----------------------------------------------------------------------------
(* Runner.Run. *)

\* Execute one operation: it succeeds or fails, and is logged with its outcome.
\* A scenario within a scenario fails.
Execute(op, ok) ==
    /\ ok => op # "scenario"
    /\ log' = Append(log, [phase |-> pc, i |-> i, ok |-> ok])

\* The deferred cleanup starts.
Defer == Phase("cleanup")

RunInitial ==
    /\ pc = "initial"
    /\ \/ /\ i > Len(doc.initial)
          /\ Phase("wait")
          /\ UNCHANGED log
       \/ /\ i <= Len(doc.initial)
          /\ \/ Execute(doc.initial[i], TRUE) /\ i' = i + 1 /\ UNCHANGED pc
             \/ Execute(doc.initial[i], FALSE) /\ Defer
    /\ UNCHANGED <<source, results, taken, cancelled>>

Steps == doc.steps

\* A step without an event: its timer ends, or the context does; without a
\* timer, or with one of no length, it starts at once.
WaitForTimer ==
    /\ pc = "wait"
    /\ \/ /\ i > Len(Steps)
          /\ Defer
       \/ /\ i <= Len(Steps)
          /\ Steps[i].event = Unset
          /\ \/ pc' = "step" /\ UNCHANGED i
             \/ cancelled /\ Steps[i].after \notin {<<>>, <<0>>} /\ Defer
    /\ UNCHANGED <<source, results, taken, log, cancelled>>

WaitsForEvent == pc = "wait" /\ i <= Len(Steps) /\ Steps[i].event # Unset

\* Mutants of TakeEvent: any line will do; the line after the wanted one is
\* taken too.
TakeAnyEvent ==
    /\ WaitsForEvent
    /\ results # <<>>
    /\ results' = Tail(results)
    /\ taken' = taken + 1
    /\ pc' = "step"
    /\ UNCHANGED <<source, i, log, cancelled>>

TakeEventTwice ==
    /\ WaitsForEvent
    /\ results # <<>>
    /\ results' = Tail(results)
    /\ taken' = taken + 1
    /\ pc' = IF Head(results) = Steps[i].event /\ scanned = Len(input)
               THEN "step" ELSE pc
    /\ UNCHANGED <<source, i, log, cancelled>>

\* LineEvents.Wait takes one line: the one it waits for, or one it drops.
TakeEvent ==
    /\ WaitsForEvent
    /\ results # <<>>
    /\ results' = Tail(results)
    /\ taken' = taken + 1
    /\ pc' = IF Head(results) = Steps[i].event THEN "step" ELSE pc
    /\ UNCHANGED <<source, i, log, cancelled>>

\* Mutant of EventMissing: a wait is not interrupted.
EventMissingIgnoresCancel ==
    /\ WaitsForEvent
    /\ closed /\ results = <<>>
    /\ Defer
    /\ UNCHANGED <<source, results, taken, log, cancelled>>

\* The wait ends with an error: the input is over, or the context is cancelled.
EventMissing ==
    /\ WaitsForEvent
    /\ (closed /\ results = <<>>) \/ cancelled
    /\ Defer
    /\ UNCHANGED <<source, results, taken, log, cancelled>>

RunStep ==
    /\ pc = "step"
    /\ \/ Execute(Steps[i].do, TRUE) /\ pc' = "wait" /\ i' = i + 1
       \/ Execute(Steps[i].do, FALSE) /\ Defer
    /\ UNCHANGED <<source, results, taken, cancelled>>

\* Mutant of RunCleanup: it ends with its first error.
RunCleanupUntilError ==
    /\ pc = "cleanup"
    /\ \/ i > Len(doc.cleanup) /\ Phase("done") /\ UNCHANGED log
       \/ /\ i <= Len(doc.cleanup)
          /\ \/ Execute(doc.cleanup[i], TRUE) /\ i' = i + 1 /\ UNCHANGED pc
             \/ Execute(doc.cleanup[i], FALSE) /\ Phase("done")
    /\ UNCHANGED <<source, results, taken, cancelled>>

\* The deferred function: every cleanup operation, with a context that is not
\* cancelled; an error is remembered and the next one runs.
RunCleanup ==
    /\ pc = "cleanup"
    /\ \/ i > Len(doc.cleanup) /\ Phase("done") /\ UNCHANGED log
       \/ /\ i <= Len(doc.cleanup)
          /\ \E ok \in BOOLEAN : Execute(doc.cleanup[i], ok)
          /\ i' = i + 1
          /\ UNCHANGED pc
    /\ UNCHANGED <<source, results, taken, cancelled>>

\* The caller's context ends; a run that is over no longer looks at it.
Cancel ==
    /\ ~ cancelled
    /\ Started
    /\ pc # "done"
    /\ cancelled' = TRUE
    /\ UNCHANGED <<source, results, taken, pc, i, log>>

-----------------------------------------------------------------------------

Run ==
    \/ LoadScenario
    \/ Render
    \/ RunInitial
    \/ WaitForTimer
    \/ TakeEvent
    \/ EventMissing
    \/ RunStep
    \/ RunCleanup

Next == Scan \/ CloseInput \/ Run \/ Cancel

Spec == Init /\ [][Next]_vars

\* The goroutines are scheduled, timers and operations end.  Nothing says that
\* the input ends or that the context is cancelled.
FairSpec == Spec /\ WF_vars(Scan) /\ WF_vars(Run)

-----------------------------------------------------------------------------
(* Properties. *)

\* Where the log has initial operations and steps.
Body == {k \in DOMAIN log : log[k].phase # "cleanup"}

\* The steps that have run.
StepsRun == {log[k].i : k \in {b \in Body : log[b].phase = "step"}}

\* Each of the given steps that waits for an event has a line of its own with
\* that event, and the lines are in the order of the steps.
Triggers(lines, steps) ==
    LET waiting == {k \in steps : Steps[k].event # Unset}
    IN  \E line \in [waiting -> DOMAIN lines] :
            /\ \A j, k \in waiting : j < k => line[j] < line[k]
            /\ \A k \in waiting : lines[line[k]] = Steps[k].event

\* The channel holds at most one line, and the runner takes no line before the
\* scanner has read it (NewLineEvents).
TypeOK ==
    /\ scanned \in 0 .. Len(input)
    /\ Len(results) <= ChannelCapacity
    /\ taken \in 0 .. scanned
    /\ pc \in {"start", "render", "initial", "wait", "step", "cleanup", "done"}
    /\ i \in Nat \ {0}

\* "Cleanup is attempted even when a scenario step fails" (scenario.go:142):
\* when the run is over every cleanup operation has been attempted once, in
\* order and after everything else, also after a cancellation and after failed
\* cleanup operations.
CleanupAttempted ==
    LET before == Len(log) - Len(doc.cleanup)
    IN  pc = "done" /\ Runs /\ doc.decodes /\ Validate(doc) =>
          /\ before >= 0
          /\ Body = 1 .. before
          /\ \A k \in DOMAIN log \ Body : log[k].i = k - before

\* The initial operations and the steps run as the document has them, each once
\* and in order, until one fails; after that nothing but cleanup runs, and of a
\* document that Load refuses nothing at all.  A step runs after its event: the
\* events of the steps that have run were lines of the input, in the order of
\* the steps, and each line triggered at most one of them (Load, Runner.Run,
\* LineEvents.Wait).
RunsAsWritten ==
    LET n == Len(doc.initial)
    IN  /\ log # <<>> => doc.decodes /\ Validate(doc)
        /\ \A k \in Body :
              /\ \A j \in 1 .. k - 1 : j \in Body /\ log[j].ok
              /\ IF k <= n THEN log[k].phase = "initial" /\ log[k].i = k
                           ELSE log[k].phase = "step" /\ log[k].i = k - n
        /\ Triggers(SubSeq(input, 1, taken), StepsRun)

\* A run whose input has the events in the order of the steps gets through all
\* of them, whatever other lines come between, and however early or late they
\* come, unless an operation fails or the context is cancelled.
OrderedEventsSuffice ==
    (pc = "initial" /\ Triggers(input, DOMAIN Steps))
      ~> /\ pc = "done"
         /\ \/ StepsRun = DOMAIN Steps
            \/ cancelled
            \/ \E k \in Body : ~ log[k].ok

\* The record in which a command names its devices.
Named ==
    IF command.name = "scenario render" /\ doc.base # <<>>
      THEN doc.base[1] ELSE command.flags

\* The devices that it asks for, whichever way it asks.
Asked ==
    LET topologies == Catalog(command.files).topologies
        one        == Named.count = 0 /\ command.name = "scenario render"
    IN  IF Named.topology # Unset
          THEN IF Named.topology \in DOMAIN topologies
                 THEN topologies[Named.topology].devices ELSE <<>>
        ELSE IF Named.profile # Unset
          THEN Repeated(Named.profile, IF one THEN 1 ELSE Named.count, Named.vram)
        ELSE <<>>

\* "from the same profile/topology composition used by local and Docker modes"
\* (cmd/fake-nvidia/kubernetes.go:17): a choice of a profile or a topology that
\* one of `render`, `up`, `kubernetes` and `scenario render` accepts gives the
\* very devices it names, and it is `render`'s answer too.  A topology that the
\* catalogue has let in is refused for nothing but the number of its devices,
\* a size beyond 2^64 bytes, the CUDA version or flags that do not go with it,
\* although LoadCatalog and composeDevice check sizes each with code of its own.
CommandsAgree ==
    LET c    == Catalog(command.files)
        ask  == command.flags
        same == [ask EXCEPT !.raw = <<>>, !.spec = <<>>]
    IN  pc = "done" /\ ~ Runs /\ CatalogLoads(command.files) =>
          /\ rendered # Rejected /\ Asked # <<>> =>
                /\ Len(rendered) = Len(Asked)
                /\ \A k \in DOMAIN rendered :
                      /\ rendered[k].profile = Asked[k].profile
                      /\ Asked[k].vram # 0 =>
                           rendered[k].total = Asked[k].vram * MiB
                      /\ rendered[k].used = Asked[k].used * MiB
          /\ command.name \in {"up", "kubernetes"} /\ rendered # Rejected =>
                rendered = RunRender(c, same)
          /\ /\ command.name \in {"up", "kubernetes"}
             /\ ask.manifest
             /\ ask.profile = Unset
             /\ ask.topology \in DOMAIN c.topologies
             /\ ask.count = 1 /\ ask.vram = 0
             /\ Len(Asked) <= MaxDevices
             /\ \A d \in ToSet(Asked) :
                   TotalMiB(c.profiles[d.profile], d) <= MaxMiB
             /\ ValidSystem(ask.cuda)
             => rendered # Rejected

\* Every device of a rendered configuration adds up in plain arithmetic: used,
\* free and reserved bytes are its total, the process rows own no more than
\* the used part, and no two devices have one index.  composeDevice computes in
\* uint64, where a sum or a product may wrap.
ComposedIsExact ==
    \A k \in DOMAIN rendered :
        LET d == rendered[k]
        IN  /\ d.index = k - 1
            /\ d.used + d.free + d.reserved = d.total
            /\ d.used % MiB = 0 /\ d.total % MiB = 0 /\ d.reserved % MiB = 0
            /\ RowsMiB(d.processes, Len(d.processes)) * MiB <= d.used
            /\ d.total > d.reserved

\* Cancelling the context ends the run, cleanup included, even while nothing
\* comes from standard input.
CancelEnds == cancelled ~> pc = "done"
=============================================================================
