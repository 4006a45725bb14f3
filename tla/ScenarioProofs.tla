--------------------------- MODULE ScenarioProofs ---------------------------
(***************************************************************************)
(* Proofs about Scenario, for documents and inputs of any length and any   *)
(* catalogue, flags and sizes.                                             *)
(*                                                                         *)
(* RunInv is about `scenario run`: what the log has at each phase, and     *)
(* which lines the steps in it were triggered by.  RenderInv is about the  *)
(* commands that compose: what is rendered is what Composed says, and the  *)
(* rest is about the composer's operators.                                 *)
(***************************************************************************)
EXTENDS Scenario, SumProofs, SequenceTheorems

-----------------------------------------------------------------------------
(* The run. *)

\* The phases of a command.
Phases == {"start", "render", "initial", "wait", "step", "cleanup", "done"}

\* Entry k of a log is the k-th operation of the document.
AsWritten(e, k) ==
    IF k <= Len(doc.initial) THEN e.phase = "initial" /\ e.i = k
                             ELSE e.phase = "step" /\ e.i = k - Len(doc.initial)

\* The first b entries of the log are those of the document, all but the last of
\* them succeeded, and the others are the first cleanup operations.
LogOK(b) ==
    /\ b \in 0 .. Len(log)
    /\ \A k \in 1 .. b : AsWritten(log[k], k)
    /\ \A k \in 1 .. b - 1 : log[k].ok
    /\ \A k \in b + 1 .. Len(log) : log[k].phase = "cleanup" /\ log[k].i = k - b

\* The first n steps have each had its line among those taken.
HadLines(n) == Triggers(SubSeq(input, 1, taken), 1 .. n)

\* An operation in the log.
Entry == [phase : {"initial", "step", "cleanup"}, i : Nat, ok : BOOLEAN]

\* A document that is run.
Valid == Runs /\ doc.decodes /\ Validate(doc)

\* How many entries of the log are not cleanup.
BodyLen ==
    IF pc = "cleanup" THEN Len(log) - (i - 1)
    ELSE IF pc = "done" /\ Valid THEN Len(log) - Len(doc.cleanup)
    ELSE Len(log)

\* The lines between the ones taken and the ones scanned are in the channel.
ChannelOK ==
    /\ input \in Seq(Lines)
    /\ scanned \in 0 .. Len(input)
    /\ taken \in 0 .. scanned
    /\ results \in Seq(Lines)
    /\ Len(results) = scanned - taken
    /\ Len(results) <= ChannelCapacity
    /\ \A k \in DOMAIN results : results[k] = input[taken + k]

\* Where the phases are in the document.
PhaseOK ==
    LET n == Len(doc.initial)
    IN  /\ pc \in {"initial", "wait", "step", "cleanup"} => Valid
        /\ pc \in {"initial", "wait", "step"} => \A k \in DOMAIN log : log[k].ok
        /\ pc = "initial" => Len(log) = i - 1 /\ i <= n + 1
        /\ pc \in {"wait", "step"} => Len(log) = n + i - 1 /\ i <= Len(Steps) + 1
        /\ pc = "step" => i <= Len(Steps) /\ HadLines(i)
        /\ pc = "cleanup" => i <= Len(doc.cleanup) + 1
        /\ ~ Valid => log = <<>>
        /\ pc = "start" => log = <<>>
        /\ pc = "render" => ~ Valid

\* The inductive invariant of a run.
RunInv ==
    /\ command \in CommandType
    /\ pc \in Phases
    /\ i \in Nat \ {0}
    /\ log \in Seq(Entry)
    /\ ChannelOK
    /\ PhaseOK
    /\ LogOK(BodyLen)
    /\ HadLines(BodyLen - Len(doc.initial))

-----------------------------------------------------------------------------
(* Lines and steps. *)

\* The steps up to n that wait for an event.
Waiting(n) == {k \in 1 .. n : Steps[k].event # Unset}

\* Function f gives each of them its line, among the first t of lines.
LineOf(f, lines, t, n) ==
    /\ f \in [Waiting(n) -> 1 .. t]
    /\ \A j, k \in Waiting(n) : j < k => f[j] < f[k]
    /\ \A k \in Waiting(n) : lines[f[k]] = Steps[k].event

\* Triggers by the indices of the lines.
LEMMA TriggersIndex ==
    ASSUME NEW lines \in Seq(Lines), NEW t \in 0 .. Len(lines), NEW n
    PROVE  Triggers(SubSeq(lines, 1, t), 1 .. n) <=> \E f : LineOf(f, lines, t, n)
<1> DEFINE s == SubSeq(lines, 1, t)
<1>1. DOMAIN s = 1 .. t /\ \A k \in 1 .. t : s[k] = lines[k]
  BY SubSeqProperties
<1>2. Triggers(s, 1 .. n) <=>
        \E f \in [Waiting(n) -> DOMAIN s] :
            /\ \A j, k \in Waiting(n) : j < k => f[j] < f[k]
            /\ \A k \in Waiting(n) : s[f[k]] = Steps[k].event
  BY DEF Triggers, Waiting
<1>3. ASSUME NEW f \in [Waiting(n) -> 1 .. t], NEW k \in Waiting(n)
      PROVE  s[f[k]] = lines[f[k]]
  BY <1>1
<1> HIDE DEF s
<1>4. \A f : LineOf(f, lines, t, n) <=>
               /\ f \in [Waiting(n) -> DOMAIN s]
               /\ \A j, k \in Waiting(n) : j < k => f[j] < f[k]
               /\ \A k \in Waiting(n) : s[f[k]] = Steps[k].event
  BY <1>1, <1>3 DEF LineOf
<1> QED
  BY <1>2, <1>4 DEF s

\* The steps stay the same, so that HadLines changes with the lines only.
LEMMA HadLinesPrime ==
    ASSUME UNCHANGED <<command, input>>, NEW n
    PROVE  HadLines(n)' <=> Triggers(SubSeq(input, 1, taken'), 1 .. n)
BY DEF HadLines, Triggers, Steps, doc

\* Lines that are taken stay taken.
LEMMA MoreLines ==
    ASSUME ChannelOK, ChannelOK', NEW n, HadLines(n), taken <= taken',
           UNCHANGED <<command, input>>
    PROVE  HadLines(n)'
<1>1. /\ input \in Seq(Lines)
      /\ taken \in 0 .. Len(input) /\ taken' \in 0 .. Len(input)
  BY DEF ChannelOK
<1>2. PICK f : LineOf(f, input, taken, n)
  BY <1>1, TriggersIndex DEF HadLines
<1>3. LineOf(f, input, taken', n)
  <2>1. 1 .. taken \subseteq 1 .. taken'
    BY <1>1
  <2> QED
    BY <1>2, <2>1 DEF LineOf
<1> QED
  BY <1>1, <1>3, TriggersIndex, HadLinesPrime

\* Before the first step no line is needed.
LEMMA NoLines == ASSUME NEW n, 1 .. n = {} PROVE HadLines(n)
<1> DEFINE lines == SubSeq(input, 1, taken)
           f == [k \in {} |-> 1]
<1>1. f \in [{} -> DOMAIN lines]
  OBVIOUS
<1>2. {k \in 1 .. n : Steps[k].event # Unset} = {}
  OBVIOUS
<1> HIDE DEF f, lines
<1>3. Triggers(lines, 1 .. n)
  BY <1>1, <1>2 DEF Triggers
<1> QED
  BY <1>3 DEF HadLines, lines

\* A step that waits for no event needs no line.
LEMMA NoLineNeeded ==
    ASSUME NEW n \in Nat \ {0}, HadLines(n - 1), Steps[n].event = Unset
    PROVE  HadLines(n)
<1>1. Waiting(n) = Waiting(n - 1)
  BY DEF Waiting
<1> QED
  BY <1>1 DEF HadLines, Triggers, Waiting

\* The line that is taken next is for the next step.
LEMMA NextLine ==
    ASSUME ChannelOK, ChannelOK', NEW n \in Nat \ {0}, HadLines(n - 1),
           taken' = taken + 1, UNCHANGED <<command, input>>,
           input[taken + 1] = Steps[n].event
    PROVE  HadLines(n)'
<1>1. /\ input \in Seq(Lines)
      /\ taken \in 0 .. Len(input) /\ taken' \in 0 .. Len(input)
  BY DEF ChannelOK
<1>2. PICK f : LineOf(f, input, taken, n - 1)
  BY <1>1, TriggersIndex DEF HadLines
<1> DEFINE g == [k \in Waiting(n) |-> IF k = n THEN taken + 1 ELSE f[k]]
<1>3. \A k \in Waiting(n) : k # n => k \in Waiting(n - 1) /\ k < n
  BY DEF Waiting
<1>4. \A k \in Waiting(n - 1) : f[k] \in 1 .. taken
  BY <1>2 DEF LineOf
<1>5. LineOf(g, input, taken', n)
  <2>1. g \in [Waiting(n) -> 1 .. taken']
    BY <1>1, <1>3, <1>4
  <2>2. ASSUME NEW j \in Waiting(n), NEW k \in Waiting(n), j < k
        PROVE  g[j] < g[k]
    <3>1. j # n /\ j \in Waiting(n - 1)
      BY <2>2, <1>3 DEF Waiting
    <3>2. CASE k = n
      BY <3>1, <3>2, <1>1, <1>4
    <3>3. CASE k # n
      BY <3>1, <3>3, <2>2, <1>2, <1>3 DEF LineOf
    <3> QED
      BY <3>2, <3>3
  <2>3. ASSUME NEW k \in Waiting(n)
        PROVE  input[g[k]] = Steps[k].event
    <3>1. CASE k = n
      BY <3>1
    <3>2. CASE k # n
      BY <3>2, <1>2, <1>3 DEF LineOf
    <3> QED
      BY <3>1, <3>2
  <2> HIDE DEF g
  <2> QED
    BY <2>1, <2>2, <2>3 DEF LineOf
<1> HIDE DEF g
<1> QED
  BY <1>1, <1>5, TriggersIndex, HadLinesPrime

-----------------------------------------------------------------------------
(* The log. *)

\* The parts of a document are sequences.
LEMMA DocumentParts ==
    ASSUME command \in CommandType
    PROVE  /\ doc \in DocumentType
           /\ Len(doc.initial) \in Nat /\ Len(Steps) \in Nat
           /\ Len(doc.cleanup) \in Nat
           /\ DOMAIN Steps = 1 .. Len(Steps)
<1>1. doc \in DocumentType
  BY DEF CommandType, doc
<1>2. /\ doc.initial \in Seq(STRING) /\ doc.cleanup \in Seq(STRING)
      /\ Steps \in Seq([after : Seq(Int), event : STRING, do : STRING])
  BY <1>1 DEF DocumentType, Steps
<1> QED
  BY <1>1, <1>2, LenProperties

\* Whether a document is run depends on the command only.
LEMMA ValidKept ==
    ASSUME command' = command
    PROVE  Valid' = Valid /\ Runs' = Runs /\ doc' = doc /\ Steps' = Steps
BY DEF Valid, Runs, doc, Steps

\* A step that logs nothing.
LEMMA LogKept ==
    ASSUME UNCHANGED <<command, log>>, NEW b, LogOK(b), BodyLen' = b
    PROVE  LogOK(BodyLen)'
BY DEF LogOK, AsWritten, doc

\* The operation of an initial phase or a step is logged after successes.
LEMMA BodyLogged ==
    ASSUME log \in Seq(Entry), command' = command, NEW e \in Entry,
           log' = Append(log, e), LogOK(Len(log)), \A k \in DOMAIN log : log[k].ok,
           AsWritten(e, Len(log) + 1), BodyLen' = Len(log) + 1
    PROVE  LogOK(BodyLen)' /\ log' \in Seq(Entry) /\ Len(log') = Len(log) + 1
<1>1. /\ Len(log) \in Nat /\ DOMAIN log = 1 .. Len(log)
      /\ log' \in Seq(Entry) /\ Len(log') = Len(log) + 1
      /\ \A k \in 1 .. Len(log) : log'[k] = log[k]
      /\ log'[Len(log) + 1] = e
  BY AppendProperties, LenProperties
<1>0. PICK m : m = Len(log)
  OBVIOUS
<1>2. m \in Nat /\ LogOK(m) /\ Len(log') = m + 1 /\ BodyLen' = m + 1
      /\ DOMAIN log = 1 .. m
  BY <1>0, <1>1
<1>3. \A k \in 1 .. m : AsWritten(log[k], k)
  BY <1>2 DEF LogOK
<1>4. \A k \in 1 .. m + 1 : AsWritten(log[k], k)'
  <2> SUFFICES ASSUME NEW k \in 1 .. m + 1 PROVE AsWritten(log[k], k)'
    OBVIOUS
  <2>1. CASE k = m + 1
    BY <2>1, <1>0, <1>1 DEF AsWritten, doc
  <2>2. CASE k # m + 1
    <3>1. k \in 1 .. m
      BY <1>2, <2>2
    <3> QED
      BY <3>1, <1>0, <1>1, <1>3 DEF AsWritten, doc
  <2> QED
    BY <2>1, <2>2
<1>5. \A k \in 1 .. m : log'[k].ok
  BY <1>0, <1>1, <1>2
<1>6. LogOK(m + 1)'
  <2>1. \A k \in 1 .. (m + 1) - 1 : log'[k].ok
    BY <1>2, <1>5
  <2>2. m + 1 \in 0 .. Len(log') /\ (m + 1) + 1 .. Len(log') = {}
    BY <1>2
  <2> QED
    BY <1>4, <2>1, <2>2 DEF LogOK
<1> QED
  BY <1>1, <1>2, <1>6 DEF LogOK

\* A cleanup operation is logged after the body and the ones before it.
LEMMA CleanupLogged ==
    ASSUME log \in Seq(Entry), command' = command, NEW e \in Entry, NEW b \in Nat,
           log' = Append(log, e), LogOK(b), e.phase = "cleanup",
           e.i = Len(log) + 1 - b, BodyLen' = b
    PROVE  LogOK(BodyLen)' /\ log' \in Seq(Entry) /\ Len(log') = Len(log) + 1
<1>1. /\ Len(log) \in Nat /\ DOMAIN log = 1 .. Len(log)
      /\ log' \in Seq(Entry) /\ Len(log') = Len(log) + 1
      /\ \A k \in 1 .. Len(log) : log'[k] = log[k]
      /\ log'[Len(log) + 1] = e
  BY AppendProperties, LenProperties
<1>2. b <= Len(log)
  BY <1>1 DEF LogOK
<1>3. \A k \in 1 .. b : AsWritten(log[k], k)'
  BY <1>1, <1>2 DEF LogOK, AsWritten, doc
<1>4. \A k \in 1 .. b - 1 : log'[k].ok
  BY <1>1, <1>2 DEF LogOK
<1>5. \A k \in b + 1 .. Len(log') : log'[k].phase = "cleanup" /\ log'[k].i = k - b
  <2> SUFFICES ASSUME NEW k \in b + 1 .. Len(log')
               PROVE  log'[k].phase = "cleanup" /\ log'[k].i = k - b
    OBVIOUS
  <2>1. CASE k = Len(log) + 1
    BY <2>1, <1>1
  <2>2. CASE k # Len(log) + 1
    <3>1. k \in b + 1 .. Len(log) /\ k \in 1 .. Len(log)
      BY <1>1, <2>2
    <3> QED
      BY <3>1, <1>1 DEF LogOK
  <2> QED
    BY <2>1, <2>2
<1>6. LogOK(b)'
  BY <1>1, <1>2, <1>3, <1>4, <1>5 DEF LogOK
<1> QED
  BY <1>1, <1>6 DEF LogOK

-----------------------------------------------------------------------------
(* The steps of a run. *)

\* At first nothing is logged.
LEMMA RunInit == Init => RunInv
<1> SUFFICES ASSUME Init PROVE RunInv
  OBVIOUS
<1>1. /\ command \in CommandType /\ pc = "start" /\ i = 1 /\ log = <<>>
      /\ scanned = 0 /\ taken = 0 /\ results = <<>>
  BY ScenarioAssumption DEF Init
<1>2. input \in Seq(Lines)
  <2>1. ASSUME NEW s \in BoundedSeq(Lines, MaxLines) PROVE s \in Seq(Lines)
    <3>1. PICK m \in 0 .. MaxLines : s \in [1 .. m -> Lines]
      BY DEF BoundedSeq, SeqOf
    <3>2. m \in Nat
      BY ScenarioAssumption
    <3> QED
      BY <3>1, <3>2, SeqDef
  <2>2. <<>> \in Seq(Lines)
    OBVIOUS
  <2> QED
    BY <2>1, <2>2 DEF Init
<1>3. Len(input) \in Nat /\ results \in Seq(Lines) /\ Len(results) = 0
      /\ log \in Seq(Entry) /\ Len(log) = 0 /\ DOMAIN results = {}
  BY <1>1, <1>2
<1>4. ChannelOK
  BY <1>1, <1>2, <1>3 DEF ChannelOK, ChannelCapacity
<1>5. BodyLen = 0
  BY <1>1, <1>3 DEF BodyLen
<1>6. LogOK(0) /\ PhaseOK
  BY <1>1, <1>3 DEF LogOK, PhaseOK
<1>7. HadLines(0 - Len(doc.initial))
  <2>1. 1 .. (0 - Len(doc.initial)) = {}
    BY <1>1, DocumentParts
  <2> QED
    BY <2>1, NoLines
<1> QED
  BY <1>1, <1>3, <1>4, <1>5, <1>6, <1>7 DEF RunInv, Phases

\* A step that changes neither the channel nor what has been read.
LEMMA ChannelKept ==
    ASSUME ChannelOK, UNCHANGED <<input, scanned, results, taken>>
    PROVE  ChannelOK'
BY DEF ChannelOK

\* What RunInv says of the numbers in it.
LEMMA RunNumbers ==
    ASSUME RunInv
    PROVE  /\ command \in CommandType
           /\ Len(doc.initial) \in Nat /\ Len(Steps) \in Nat
           /\ Len(doc.cleanup) \in Nat
           /\ DOMAIN Steps = 1 .. Len(Steps)
           /\ i \in Nat \ {0} /\ log \in Seq(Entry) /\ Len(log) \in Nat
           /\ DOMAIN log = 1 .. Len(log)
           /\ BodyLen \in 0 .. Len(log)
           /\ taken \in Nat
           /\ input \in Seq(Lines) /\ Len(input) \in Nat
BY DocumentParts DEF RunInv, ChannelOK, LogOK

\* A step that logs nothing and leaves the body as it is.
LEMMA QuietRun ==
    ASSUME RunInv, UNCHANGED <<command, input, log>>, ChannelOK', taken <= taken',
           pc' \in Phases, i' \in Nat \ {0}, PhaseOK', BodyLen' = BodyLen
    PROVE  RunInv'
<1>0. PICK b : b = BodyLen
  OBVIOUS
<1>1. LogOK(BodyLen)'
  BY <1>0, LogKept DEF RunInv
<1>2. PICK n : n = b - Len(doc.initial)
  OBVIOUS
<1>3. HadLines(n)'
  BY <1>0, <1>2, MoreLines DEF RunInv
<1>4. HadLines(BodyLen - Len(doc.initial))'
  <2>1. (BodyLen - Len(doc.initial))' = n
    BY <1>0, <1>2, ValidKept
  <2> QED
    BY <1>3, <2>1 DEF HadLines
<1> QED
  BY <1>1, <1>4 DEF RunInv

\* The step under way has had its line.
LEMMA StepLines ==
    ASSUME RunInv, ChannelOK', taken <= taken', UNCHANGED <<command, input, i>>,
           pc = "step"
    PROVE  HadLines(i)'
<1>1. PICK n : n = i
  OBVIOUS
<1>2. HadLines(n)'
  BY <1>1, MoreLines DEF RunInv, PhaseOK
<1> QED
  BY <1>1, <1>2 DEF HadLines

\* The scanner reads a line into the channel.
LEMMA ScanRun == ASSUME RunInv, Scan PROVE RunInv'
<1>1. /\ UNCHANGED <<command, input, taken, pc, i, log>>
      /\ scanned < Len(input) /\ Len(results) < ChannelCapacity
      /\ results' = Append(results, input[scanned + 1])
      /\ scanned' = scanned + 1
  BY DEF Scan, config
<1>2. ChannelOK
  BY DEF RunInv
<1>3. /\ Len(input) \in Nat /\ scanned \in Nat /\ taken \in Nat
      /\ input[scanned + 1] \in Lines /\ Len(results) = scanned - taken
      /\ results \in Seq(Lines)
  BY <1>1, <1>2, ElementOfSeq DEF ChannelOK
<1>4. /\ results' \in Seq(Lines) /\ Len(results') = Len(results) + 1
      /\ DOMAIN results' = 1 .. Len(results) + 1
      /\ \A k \in 1 .. Len(results) : results'[k] = results[k]
      /\ results'[Len(results) + 1] = input[scanned + 1]
  BY <1>1, <1>3, AppendProperties, LenProperties
<1>5. \A k \in DOMAIN results' : results'[k] = input[taken + k]
  BY <1>2, <1>3, <1>4 DEF ChannelOK
<1>6. ChannelOK'
  BY <1>1, <1>2, <1>3, <1>4, <1>5 DEF ChannelOK, ChannelCapacity
<1>7. PhaseOK' /\ BodyLen' = BodyLen
  <2>1. pc = "step" => HadLines(i)'
    BY <1>1, <1>3, <1>6, StepLines
  <2> QED
    BY <1>1, <2>1, ValidKept DEF RunInv, PhaseOK, BodyLen
<1> QED
  BY <1>1, <1>3, <1>6, <1>7, QuietRun DEF RunInv

\* A step of something that a run does not look at.
LEMMA OtherRun ==
    ASSUME RunInv, UNCHANGED <<command, input, scanned, results, taken, pc, i, log>>
    PROVE  RunInv'
<1>1. ChannelOK'
  BY ChannelKept DEF RunInv
<1>2. PhaseOK' /\ BodyLen' = BodyLen
  <2>1. pc = "step" => HadLines(i)'
    BY <1>1, RunNumbers, StepLines
  <2> QED
    BY <2>1, ValidKept DEF RunInv, PhaseOK, BodyLen
<1> QED
  BY <1>1, <1>2, RunNumbers, QuietRun DEF RunInv

\* A document that is not valid ends the command.
LEMMA LoadRun == ASSUME RunInv, LoadScenario PROVE RunInv'
<1>1. /\ UNCHANGED <<command, input, scanned, results, taken, log>>
      /\ pc = "start" /\ i' = 1
      /\ \/ ~ (doc.decodes /\ Validate(doc)) /\ pc' = "done"
         \/ doc.decodes /\ Validate(doc) /\ pc' = IF Runs THEN "initial" ELSE "render"
  BY DEF LoadScenario, Phase, source, config
<1>2. log = <<>> /\ Len(log) = 0
  BY <1>1 DEF RunInv, PhaseOK
<1>3. \/ pc' = "done" /\ ~ Valid
      \/ pc' = "initial" /\ Valid
      \/ pc' = "render" /\ ~ Valid
  BY <1>1 DEF Valid
<1>4. ChannelOK'
  BY <1>1, ChannelKept DEF RunInv
<1>5. PhaseOK'
  BY <1>1, <1>2, <1>3, ValidKept, RunNumbers DEF PhaseOK
<1>6. BodyLen' = BodyLen
  BY <1>1, <1>2, <1>3, ValidKept DEF BodyLen
<1> QED
  BY <1>1, <1>3, <1>4, <1>5, <1>6, RunNumbers, QuietRun DEF Phases

\* What is rendered is not run.
LEMMA RenderRun == ASSUME RunInv, Render PROVE RunInv'
<1>1. /\ UNCHANGED <<command, input, scanned, results, taken, log>>
      /\ pc' = "done" /\ i' = 1
      /\ \/ pc = "start" /\ command.name \in {"render", "up", "kubernetes"}
         \/ pc = "render"
  BY DEF Render, Phase
<1>2. ~ Valid
  BY <1>1 DEF RunInv, PhaseOK, Valid, Runs
<1>3. log = <<>>
  BY <1>2 DEF RunInv, PhaseOK
<1>4. ChannelOK'
  BY <1>1, ChannelKept DEF RunInv
<1>5. PhaseOK'
  BY <1>1, <1>2, <1>3, ValidKept DEF PhaseOK
<1>6. BodyLen' = BodyLen
  BY <1>1, <1>2, ValidKept DEF BodyLen
<1> QED
  BY <1>1, <1>4, <1>5, <1>6, RunNumbers, QuietRun DEF Phases

\* The log has grown by e.
LEMMA LogGrown ==
    ASSUME log \in Seq(Entry), NEW e \in Entry, log' = Append(log, e)
    PROVE  /\ Len(log) \in Nat /\ Len(log') = Len(log) + 1 /\ log' # <<>>
           /\ (\A k \in DOMAIN log : log[k].ok) /\ e.ok =>
                 \A k \in DOMAIN log' : log'[k].ok
<1>1. /\ Len(log) \in Nat /\ DOMAIN log = 1 .. Len(log)
      /\ Len(log') = Len(log) + 1 /\ DOMAIN log' = 1 .. Len(log) + 1
      /\ \A k \in 1 .. Len(log) : log'[k] = log[k]
      /\ log'[Len(log) + 1] = e
      /\ log' \in Seq(Entry)
  BY AppendProperties, LenProperties
<1>2. log' # <<>>
  BY <1>1
<1>3. ASSUME \A k \in DOMAIN log : log[k].ok, e.ok, NEW k \in DOMAIN log'
      PROVE  log'[k].ok
  <2>1. CASE k = Len(log) + 1
    BY <2>1, <1>1, <1>3
  <2>2. CASE k \in 1 .. Len(log)
    BY <2>2, <1>1, <1>3
  <2> QED
    BY <1>1, <2>1, <2>2
<1> QED
  BY <1>1, <1>2, <1>3

\* An operation of the body is executed.
LEMMA ExecuteRun ==
    ASSUME RunInv, UNCHANGED <<command, input, scanned, results, taken>>,
           pc \in {"initial", "step"}, NEW e \in Entry, log' = Append(log, e),
           NEW m, m = Len(log) + 1, NEW n, n = m - Len(doc.initial),
           AsWritten(e, m), HadLines(n),
           BodyLen' = m, pc' \in Phases, i' \in Nat \ {0}, PhaseOK'
    PROVE  RunInv'
<1>1. BodyLen = Len(log) /\ \A k \in DOMAIN log : log[k].ok
  BY DEF BodyLen, RunInv, PhaseOK
<1>2. LogOK(BodyLen)' /\ log' \in Seq(Entry)
  BY <1>1, BodyLogged DEF RunInv
<1>3. ChannelOK'
  BY ChannelKept DEF RunInv
<1>4. HadLines(n)'
  <2>1. ChannelOK /\ taken <= taken' /\ UNCHANGED <<command, input>>
    BY RunNumbers DEF RunInv
  <2> QED
    BY <1>3, <2>1, MoreLines
<1>5. HadLines(BodyLen - Len(doc.initial))'
  <2>1. (BodyLen - Len(doc.initial))' = n
    BY ValidKept
  <2> QED
    BY <1>4, <2>1 DEF HadLines
<1> QED
  BY <1>2, <1>3, <1>5 DEF RunInv

\* The initial operations, one after the other.
LEMMA InitialRun == ASSUME RunInv, RunInitial PROVE RunInv'
<1>1. /\ UNCHANGED <<command, input, scanned, results, taken>>
      /\ pc = "initial"
  BY DEF RunInitial, source, config
<1>2. /\ Valid /\ Len(log) = i - 1 /\ i <= Len(doc.initial) + 1
      /\ \A k \in DOMAIN log : log[k].ok
  BY <1>1 DEF RunInv, PhaseOK
<1>3. CASE i > Len(doc.initial) /\ Phase("wait") /\ UNCHANGED log
  <2>1. ChannelOK'
    BY <1>1, ChannelKept DEF RunInv
  <2>2. PhaseOK' /\ BodyLen' = BodyLen
    BY <1>1, <1>2, <1>3, ValidKept, RunNumbers DEF PhaseOK, BodyLen, Phase
  <2> QED
    BY <1>1, <1>3, <2>1, <2>2, RunNumbers, QuietRun DEF Phases, Phase
<1>4. ASSUME i <= Len(doc.initial), NEW ok \in BOOLEAN,
             Execute(doc.initial[i], ok),
             IF ok THEN i' = i + 1 /\ UNCHANGED pc ELSE Defer
      PROVE  RunInv'
  <2>0. PICK e : e = [phase |-> "initial", i |-> i, ok |-> ok]
    OBVIOUS
  <2>1. /\ e \in Entry /\ log' = Append(log, e)
        /\ e.phase = "initial" /\ e.i = i /\ e.ok = ok
    BY <2>0, <1>1, <1>4, RunNumbers DEF Entry, Execute
  <2>2. /\ Len(log') = Len(log) + 1 /\ log' # <<>>
        /\ ok => \A k \in DOMAIN log' : log'[k].ok
    BY <2>1, <1>2, RunNumbers, LogGrown
  <2> PICK m : m = Len(log) + 1
    OBVIOUS
  <2> PICK n : n = m - Len(doc.initial)
    OBVIOUS
  <2>3. AsWritten(e, m)
    BY <2>1, <1>2, <1>4, RunNumbers DEF AsWritten
  <2>4. HadLines(n)
    BY <1>2, <1>4, RunNumbers, NoLines
  <2>5. CASE ok
    <3>1. pc' = "initial" /\ i' = i + 1
      BY <1>1, <1>4, <2>5
    <3>2. PhaseOK' /\ BodyLen' = m
      BY <1>1, <1>2, <1>4, <2>2, <2>5, <3>1, ValidKept, RunNumbers
         DEF PhaseOK, BodyLen
    <3>3. /\ pc \in {"initial", "step"} /\ pc' \in Phases /\ i' \in Nat \ {0}
          /\ UNCHANGED <<command, input, scanned, results, taken>>
      BY <1>1, <3>1, RunNumbers DEF Phases
    <3> QED
      BY <1>1, <2>1, <2>3, <2>4, <3>1, <3>2, <3>3, ExecuteRun
  <2>6. CASE ~ ok
    <3>1. pc' = "cleanup" /\ i' = 1
      BY <1>4, <2>6 DEF Defer, Phase
    <3>2. PhaseOK' /\ BodyLen' = m
      BY <1>1, <1>2, <2>2, <3>1, ValidKept, RunNumbers DEF PhaseOK, BodyLen
    <3>3. /\ pc \in {"initial", "step"} /\ pc' \in Phases /\ i' \in Nat \ {0}
          /\ UNCHANGED <<command, input, scanned, results, taken>>
      BY <1>1, <3>1, RunNumbers DEF Phases
    <3> QED
      BY <1>1, <2>1, <2>3, <2>4, <3>1, <3>2, <3>3, ExecuteRun
  <2> QED
    BY <2>5, <2>6
<1> QED
  BY <1>3, <1>4 DEF RunInitial

\* A step whose timer is over runs; the end of the steps, or of the context,
\* starts the cleanup.
LEMMA TimerRun == ASSUME RunInv, WaitForTimer PROVE RunInv'
<1>1. /\ UNCHANGED <<command, input, scanned, results, taken, log>>
      /\ pc = "wait"
      /\ \/ pc' = "cleanup" /\ i' = 1
         \/ /\ pc' = "step" /\ i' = i
            /\ i <= Len(Steps) /\ Steps[i].event = Unset
  BY DEF WaitForTimer, source, config, Defer, Phase
<1>2. /\ Valid /\ Len(log) = Len(doc.initial) + i - 1
      /\ \A k \in DOMAIN log : log[k].ok
      /\ BodyLen = Len(log)
  BY <1>1 DEF RunInv, PhaseOK, BodyLen
<1>3. ChannelOK'
  BY <1>1, ChannelKept DEF RunInv
<1>4. CASE pc' = "cleanup" /\ i' = 1
  <2>1. PhaseOK' /\ BodyLen' = BodyLen
    BY <1>1, <1>2, <1>4, ValidKept, RunNumbers DEF PhaseOK, BodyLen
  <2> QED
    BY <1>1, <1>3, <1>4, <2>1, RunNumbers, QuietRun DEF Phases
<1>5. CASE pc' = "step" /\ i' = i /\ i <= Len(Steps) /\ Steps[i].event = Unset
  <2>1. PICK n : n = i
    OBVIOUS
  <2>2. HadLines(n - 1)
    <3>1. BodyLen - Len(doc.initial) = n - 1
      BY <1>2, <2>1, RunNumbers
    <3> QED
      BY <3>1 DEF RunInv
  <2>3. HadLines(n)
    BY <2>1, <2>2, <1>5, RunNumbers, NoLineNeeded
  <2>4. HadLines(n)'
    BY <2>3, <1>1, <1>3, RunNumbers, MoreLines DEF RunInv
  <2>5. HadLines(i)'
    BY <2>1, <2>4, <1>5 DEF HadLines
  <2>6. PhaseOK' /\ BodyLen' = BodyLen
    BY <1>1, <1>2, <1>5, <2>5, ValidKept, RunNumbers DEF PhaseOK, BodyLen
  <2> QED
    BY <1>1, <1>3, <1>5, <2>6, RunNumbers, QuietRun DEF Phases
<1> QED
  BY <1>1, <1>4, <1>5

\* A step that waits for an event starts the cleanup when there is none.
LEMMA MissingRun == ASSUME RunInv, EventMissing PROVE RunInv'
<1>1. /\ UNCHANGED <<command, input, scanned, results, taken, log>>
      /\ pc = "wait" /\ pc' = "cleanup" /\ i' = 1
  BY DEF EventMissing, WaitsForEvent, source, config, Defer, Phase
<1>2. Valid /\ BodyLen = Len(log)
  BY <1>1 DEF RunInv, PhaseOK, BodyLen
<1>3. ChannelOK'
  BY <1>1, ChannelKept DEF RunInv
<1>4. PhaseOK' /\ BodyLen' = BodyLen
  BY <1>1, <1>2, ValidKept, RunNumbers DEF PhaseOK, BodyLen
<1> QED
  BY <1>1, <1>3, <1>4, RunNumbers, QuietRun DEF Phases

\* The line that is taken is the next one, and triggers the step that waits for
\* it or none.
LEMMA EventRun == ASSUME RunInv, TakeEvent PROVE RunInv'
<1>1. /\ UNCHANGED <<command, input, scanned, log, i>>
      /\ pc = "wait" /\ i <= Len(Steps) /\ results # <<>>
      /\ results' = Tail(results) /\ taken' = taken + 1
      /\ pc' = IF Head(results) = Steps[i].event THEN "step" ELSE pc
  BY DEF TakeEvent, WaitsForEvent, source, config
<1>2. /\ Valid /\ Len(log) = Len(doc.initial) + i - 1
      /\ \A k \in DOMAIN log : log[k].ok
      /\ BodyLen = Len(log)
  BY <1>1 DEF RunInv, PhaseOK, BodyLen
<1>3. /\ ChannelOK /\ results \in Seq(Lines) /\ Len(results) = scanned - taken
      /\ scanned \in Nat /\ taken \in Nat /\ Len(input) \in Nat
      /\ Len(results) \in Nat
  BY DEF RunInv, ChannelOK
<1>4. /\ Len(results) # 0 /\ Head(results) = results[1]
      /\ Tail(results) \in Seq(Lines) /\ Len(Tail(results)) = Len(results) - 1
      /\ \A k \in 1 .. Len(results) - 1 : Tail(results)[k] = results[k + 1]
      /\ DOMAIN Tail(results) = 1 .. Len(results) - 1
      /\ DOMAIN results = 1 .. Len(results)
  BY <1>1, <1>3, HeadTailProperties, EmptySeq, LenProperties
<1>5. Head(results) = input[taken + 1]
  BY <1>3, <1>4 DEF ChannelOK
<1>6. ChannelOK'
  <2>1. \A k \in DOMAIN results' : results'[k] = input[taken' + k]
    <3> SUFFICES ASSUME NEW k \in 1 .. Len(results) - 1
                 PROVE  Tail(results)[k] = input[(taken + 1) + k]
      BY <1>1, <1>4
    <3>1. Tail(results)[k] = results[k + 1] /\ k + 1 \in DOMAIN results
      BY <1>3, <1>4
    <3>2. results[k + 1] = input[taken + (k + 1)]
      BY <1>3, <3>1 DEF ChannelOK
    <3>3. taken + (k + 1) = (taken + 1) + k
      BY <1>3
    <3> QED
      BY <3>1, <3>2, <3>3
  <2> QED
    BY <1>1, <1>3, <1>4, <2>1 DEF ChannelOK, ChannelCapacity
<1>7. CASE Head(results) = Steps[i].event
  <2>1. PICK n : n = i
    OBVIOUS
  <2>2. HadLines(n - 1)
    <3>1. BodyLen - Len(doc.initial) = n - 1
      BY <1>2, <2>1, RunNumbers
    <3> QED
      BY <3>1 DEF RunInv
  <2>3. HadLines(n)'
    <3>1. n \in Nat \ {0} /\ input[taken + 1] = Steps[n].event
      BY <1>5, <1>7, <2>1, RunNumbers
    <3> QED
      BY <1>1, <1>3, <1>6, <2>2, <3>1, NextLine
  <2>4. HadLines(i)'
    BY <2>1, <2>3, <1>1 DEF HadLines
  <2>5. PhaseOK' /\ BodyLen' = BodyLen
    BY <1>1, <1>2, <1>7, <2>4, ValidKept, RunNumbers DEF PhaseOK, BodyLen
  <2> QED
    BY <1>1, <1>3, <1>6, <1>7, <2>5, RunNumbers, QuietRun DEF Phases
<1>8. CASE Head(results) # Steps[i].event
  <2>1. PhaseOK' /\ BodyLen' = BodyLen
    BY <1>1, <1>2, <1>8, ValidKept, RunNumbers DEF PhaseOK, BodyLen
  <2> QED
    BY <1>1, <1>3, <1>6, <1>8, <2>1, RunNumbers, QuietRun DEF Phases
<1> QED
  BY <1>7, <1>8

\* A step is executed.
LEMMA StepRun == ASSUME RunInv, RunStep PROVE RunInv'
<1>1. /\ UNCHANGED <<command, input, scanned, results, taken>>
      /\ pc = "step"
  BY DEF RunStep, source, config
<1>2. /\ Valid /\ Len(log) = Len(doc.initial) + i - 1 /\ i <= Len(Steps)
      /\ \A k \in DOMAIN log : log[k].ok
      /\ HadLines(i)
  BY <1>1 DEF RunInv, PhaseOK
<1>3. PICK ok \in BOOLEAN :
        /\ Execute(Steps[i].do, ok)
        /\ IF ok THEN pc' = "wait" /\ i' = i + 1 ELSE pc' = "cleanup" /\ i' = 1
  BY DEF RunStep, Defer, Phase
<1>4. PICK e : e = [phase |-> "step", i |-> i, ok |-> ok]
  OBVIOUS
<1>5. /\ e \in Entry /\ log' = Append(log, e)
      /\ e.phase = "step" /\ e.i = i /\ e.ok = ok
  BY <1>1, <1>3, <1>4, RunNumbers DEF Entry, Execute
<1>6. /\ Len(log') = Len(log) + 1 /\ log' # <<>>
      /\ ok => \A k \in DOMAIN log' : log'[k].ok
  BY <1>5, <1>2, RunNumbers, LogGrown
<1>7. PICK m : m = Len(log) + 1
  OBVIOUS
<1>8. PICK n : n = m - Len(doc.initial)
  OBVIOUS
<1>9. n = i
  BY <1>2, <1>7, <1>8, RunNumbers
<1>10. AsWritten(e, m) /\ HadLines(n)
  <2>1. HadLines(n)
    BY <1>2, <1>9
  <2>2. m - Len(doc.initial) = i /\ ~ (m <= Len(doc.initial))
    <3>1. /\ i \in Nat \ {0} /\ Len(doc.initial) \in Nat
          /\ m = (Len(doc.initial) + i - 1) + 1
      BY <1>2, <1>7, RunNumbers
    <3> QED
      BY <3>1
  <2>3. AsWritten(e, m)
    BY <1>5, <2>2 DEF AsWritten
  <2> QED
    BY <2>1, <2>3
<1>11. PhaseOK' /\ BodyLen' = m
  <2>1. CASE ok
    BY <2>1, <1>1, <1>2, <1>3, <1>6, <1>7, ValidKept, RunNumbers
       DEF PhaseOK, BodyLen
  <2>2. CASE ~ ok
    BY <2>2, <1>1, <1>2, <1>3, <1>6, <1>7, ValidKept, RunNumbers
       DEF PhaseOK, BodyLen
  <2> QED
    BY <2>1, <2>2
<1>12. pc \in {"initial", "step"} /\ pc' \in Phases /\ i' \in Nat \ {0}
  BY <1>1, <1>3, RunNumbers DEF Phases
<1> QED
  BY <1>1, <1>5, <1>7, <1>8, <1>10, <1>11, <1>12, ExecuteRun

\* A cleanup operation is executed, or all have been.
LEMMA CleanupRun == ASSUME RunInv, RunCleanup PROVE RunInv'
<1>1. /\ UNCHANGED <<command, input, scanned, results, taken>>
      /\ pc = "cleanup"
  BY DEF RunCleanup, source, config
<1>2. /\ Valid /\ i <= Len(doc.cleanup) + 1
      /\ BodyLen = Len(log) - (i - 1)
  BY <1>1 DEF RunInv, PhaseOK, BodyLen
<1>3. ChannelOK'
  BY <1>1, ChannelKept DEF RunInv
<1>4. CASE i > Len(doc.cleanup) /\ Phase("done") /\ UNCHANGED log
  <2>1. PhaseOK' /\ BodyLen' = BodyLen
    BY <1>1, <1>2, <1>4, ValidKept, RunNumbers DEF PhaseOK, BodyLen, Phase
  <2> QED
    BY <1>1, <1>3, <1>4, <2>1, RunNumbers, QuietRun DEF Phases, Phase
<1>5. ASSUME i <= Len(doc.cleanup), NEW ok \in BOOLEAN,
             Execute(doc.cleanup[i], ok), i' = i + 1, UNCHANGED pc
      PROVE  RunInv'
  <2>1. PICK e : e = [phase |-> "cleanup", i |-> i, ok |-> ok]
    OBVIOUS
  <2>2. PICK b : b = BodyLen
    OBVIOUS
  <2>3. /\ e \in Entry /\ log' = Append(log, e)
        /\ e.phase = "cleanup" /\ e.i = i
    BY <1>1, <1>5, <2>1, RunNumbers DEF Entry, Execute
  <2>4. Len(log') = Len(log) + 1
    BY <2>3, RunNumbers, LogGrown
  <2>5. b \in Nat /\ e.i = Len(log) + 1 - b /\ BodyLen' = b /\ LogOK(b)
    BY <1>1, <1>2, <1>5, <2>2, <2>3, <2>4, RunNumbers DEF BodyLen, RunInv
  <2>6. LogOK(BodyLen)' /\ log' \in Seq(Entry)
    BY <1>1, <2>3, <2>5, RunNumbers, CleanupLogged
  <2>7. PhaseOK'
    BY <1>1, <1>2, <1>5, ValidKept, RunNumbers DEF PhaseOK
  <2>8. PICK n : n = b - Len(doc.initial)
    OBVIOUS
  <2>9. HadLines(n)'
    <3>1. HadLines(n) /\ ChannelOK /\ taken <= taken'
      BY <1>1, <2>2, <2>8, RunNumbers DEF RunInv
    <3> QED
      BY <1>1, <1>3, <3>1, MoreLines
  <2>10. HadLines(BodyLen - Len(doc.initial))'
    <3>1. (BodyLen - Len(doc.initial))' = n
      BY <1>1, <2>5, <2>8, ValidKept
    <3> QED
      BY <2>9, <3>1 DEF HadLines
  <2> QED
    BY <1>1, <1>3, <1>5, <2>6, <2>7, <2>10, RunNumbers DEF RunInv
<1> QED
  BY <1>4, <1>5 DEF RunCleanup

\* Every step keeps RunInv.
LEMMA RunNext == RunInv /\ [Next]_vars => RunInv'
<1> SUFFICES ASSUME RunInv, [Next]_vars PROVE RunInv'
  OBVIOUS
<1>1. CASE CloseInput \/ Cancel \/ UNCHANGED vars
  <2>1. UNCHANGED <<command, input, scanned, results, taken, pc, i, log>>
    BY <1>1 DEF CloseInput, Cancel, vars, source, config
  <2> QED
    BY <2>1, OtherRun
<1> QED
  BY <1>1, ScanRun, LoadRun, RenderRun, InitialRun, TimerRun, EventRun,
     MissingRun, StepRun, CleanupRun DEF Next, Run

\* RunInv holds in every reachable state.
THEOREM RunState == Spec => []RunInv
BY RunInit, RunNext, PTL DEF Spec

\* Whatever the input is and however the scanner and the runner interleave, the
\* channel holds at most one line and the runner takes none that the scanner has
\* not read (NewLineEvents).
THEOREM ScenarioTypes == Spec => []TypeOK
<1>1. RunInv => TypeOK
  BY DEF RunInv, ChannelOK, Phases, TypeOK
<1> QED
  BY <1>1, RunState, PTL

\* What of the log is not cleanup comes first.
LEMMA BodyFirst ==
    ASSUME RunInv
    PROVE  Body = 1 .. BodyLen /\ DOMAIN log = 1 .. Len(log)
<1>1. /\ LogOK(BodyLen) /\ BodyLen \in 0 .. Len(log) /\ Len(log) \in Nat
      /\ DOMAIN log = 1 .. Len(log)
  BY RunNumbers DEF RunInv
<1>2. PICK b \in 0 .. Len(log) : b = BodyLen
  BY <1>1
<1>3. \A k \in 1 .. b : log[k].phase # "cleanup"
  BY <1>1, <1>2 DEF LogOK, AsWritten
<1>4. \A k \in b + 1 .. Len(log) : log[k].phase = "cleanup"
  BY <1>1, <1>2 DEF LogOK
<1>5. \A k \in 1 .. Len(log) : k \in 1 .. b \/ k \in b + 1 .. Len(log)
  BY <1>1
<1>6. 1 .. b \subseteq 1 .. Len(log)
  BY <1>1
<1> QED
  BY <1>1, <1>2, <1>3, <1>4, <1>5, <1>6 DEF Body

\* "Cleanup is attempted even when a scenario step fails": for any document and
\* input, whichever operation fails, also of the cleanup, and whenever the
\* context is cancelled, a run that is over has executed every cleanup operation
\* once, in order and after everything else (Runner.Run).
THEOREM CleanupAlwaysAttempted == Spec => []CleanupAttempted
<1>1. RunInv => CleanupAttempted
  <2> SUFFICES ASSUME RunInv, pc = "done", Valid
               PROVE  LET before == Len(log) - Len(doc.cleanup)
                      IN  /\ before >= 0
                          /\ Body = 1 .. before
                          /\ \A k \in DOMAIN log \ Body : log[k].i = k - before
    BY DEF CleanupAttempted, Valid
  <2>1. /\ BodyLen = Len(log) - Len(doc.cleanup) /\ BodyLen \in 0 .. Len(log)
        /\ Len(log) \in Nat
    BY RunNumbers DEF BodyLen
  <2>2. PICK b \in 0 .. Len(log) : b = BodyLen
    BY <2>1
  <2>3. Body = 1 .. b /\ DOMAIN log = 1 .. Len(log)
    BY <2>2, BodyFirst
  <2>4. \A k \in b + 1 .. Len(log) : log[k].i = k - b
    BY <2>2 DEF RunInv, LogOK
  <2>5. \A k \in 1 .. Len(log) : k \in 1 .. b \/ k \in b + 1 .. Len(log)
    BY <2>1
  <2>6. \A k \in DOMAIN log \ Body : log[k].i = k - b
    BY <2>3, <2>4, <2>5
  <2>7. b = Len(log) - Len(doc.cleanup) /\ b >= 0
    BY <2>1, <2>2
  <2> QED
    BY <2>3, <2>6, <2>7
<1> QED
  BY <1>1, RunState, PTL

\* The steps in the log are the first ones of the document.
LEMMA StepsRunFirst ==
    ASSUME RunInv
    PROVE  StepsRun = 1 .. BodyLen - Len(doc.initial)
<1>1. /\ LogOK(BodyLen) /\ BodyLen \in 0 .. Len(log) /\ Len(log) \in Nat
      /\ Len(doc.initial) \in Nat /\ Body = 1 .. BodyLen
  BY RunNumbers, BodyFirst DEF RunInv
<1>2. PICK b \in Nat : b = BodyLen
  BY <1>1
<1>3. PICK n \in Nat : n = Len(doc.initial)
  BY <1>1
<1>4. \A k \in 1 .. b : IF k <= n THEN log[k].phase = "initial"
                                  ELSE log[k].phase = "step" /\ log[k].i = k - n
  BY <1>1, <1>2, <1>3 DEF LogOK, AsWritten
<1>5. {k \in Body : log[k].phase = "step"} = n + 1 .. b
  BY <1>1, <1>2, <1>3, <1>4
<1>6. StepsRun = {log[k].i : k \in n + 1 .. b}
  BY <1>5 DEF StepsRun
<1>7. ASSUME NEW j \in 1 .. b - n PROVE j \in StepsRun
  <2>1. j + n \in n + 1 .. b /\ j + n \in 1 .. b /\ ~ (j + n <= n)
    OBVIOUS
  <2>2. log[j + n].i = j
    BY <2>1, <1>4
  <2> QED
    BY <2>1, <2>2, <1>6
<1>8. ASSUME NEW j \in StepsRun PROVE j \in 1 .. b - n
  <2>1. PICK k \in n + 1 .. b : j = log[k].i
    BY <1>6
  <2>2. k \in 1 .. b /\ ~ (k <= n)
    OBVIOUS
  <2> QED
    BY <2>1, <2>2, <1>4
<1> QED
  BY <1>2, <1>3, <1>7, <1>8

\* For any document and input, the initial operations and the steps run in
\* the order of the document, each once, until one fails; only cleanup follows;
\* a refused document runs nothing; and a step runs only after a line with its
\* event, which comes after the lines of the steps before it (Load, Runner.Run,
\* LineEvents.Wait).
THEOREM AlwaysRunsAsWritten == Spec => []RunsAsWritten
<1>1. RunInv => RunsAsWritten
  <2> SUFFICES ASSUME RunInv PROVE RunsAsWritten
    OBVIOUS
  <2>1. log # <<>> => doc.decodes /\ Validate(doc)
    BY DEF RunInv, PhaseOK, Valid
  <2>2. /\ LogOK(BodyLen) /\ BodyLen \in Nat /\ Body = 1 .. BodyLen
    BY RunNumbers, BodyFirst DEF RunInv
  <2>3. ASSUME NEW k \in Body, NEW j \in 1 .. k - 1
        PROVE  j \in Body /\ log[j].ok
    <3>1. j \in 1 .. BodyLen /\ j \in 1 .. BodyLen - 1
      BY <2>2
    <3> QED
      BY <3>1, <2>2 DEF LogOK
  <2>4. ASSUME NEW k \in Body PROVE AsWritten(log[k], k)
    BY <2>2 DEF LogOK
  <2>5. Triggers(SubSeq(input, 1, taken), StepsRun)
    BY StepsRunFirst DEF RunInv, HadLines
  <2> QED
    BY <2>1, <2>3, <2>4, <2>5 DEF RunsAsWritten, AsWritten
<1> QED
  BY <1>1, RunState, PTL

-----------------------------------------------------------------------------
(* Composition. *)

\* What ComposedIsExact says of one device.
ExactDevice(d, k) ==
    /\ d.index = k - 1
    /\ d.used + d.free + d.reserved = d.total
    /\ d.used % MiB = 0 /\ d.total % MiB = 0 /\ d.reserved % MiB = 0
    /\ RowsMiB(d.processes, Len(d.processes)) * MiB <= d.used
    /\ d.total > d.reserved

\* What it says of all of them.
Exact(r) == \A k \in DOMAIN r : ExactDevice(r[k], k)

\* A catalogue as Catalog makes it.
TypedCatalog(c) ==
    /\ \A id \in DOMAIN c.profiles : c.profiles[id] \in ProfileType
    /\ \A id \in DOMAIN c.topologies : c.topologies[id] \in TopologyType

\* A number of MiB that fits in a uint64 as bytes is multiplied exactly.
LEMMA BytesExact ==
    ASSUME NEW m \in Nat, m <= MaxMiB
    PROVE  /\ Wrapped(m * MiB) = m * MiB
           /\ m * MiB \in Nat
           /\ m * MiB <= MaxU64
           /\ (m * MiB) % MiB = 0
<1>1. MiB \in Nat /\ MiB > 0 /\ MaxU64 \in Nat
  BY ComposerAssumption
<1>2. MaxMiB \in Nat /\ MaxMiB * MiB <= MaxU64
  BY <1>1 DEF MaxMiB
<1>3. m * MiB <= MaxMiB * MiB /\ m * MiB \in Nat
  BY <1>1, <1>2
<1>4. (m * MiB) % MiB = 0
  BY <1>1
<1>5. \A x \in Nat : x <= MaxU64 => Wrapped(x) = x
  BY <1>1 DEF Wrapped
<1>6. m * MiB <= MaxU64
  <2>1. PICK x \in Nat : x = m * MiB
    BY <1>3
  <2>2. PICK y \in Int : y = MaxMiB * MiB
    BY <1>1, <1>2
  <2> QED
    BY <1>1, <1>2, <1>3, <2>1, <2>2
<1> QED
  BY <1>3, <1>4, <1>5, <1>6

\* Some index in a set of them is the smallest.
LEMMA SmallestIndex ==
    ASSUME NEW n \in Nat, NEW T, T \subseteq 0 .. n, T # {}
    PROVE  \E k \in T : \A j \in T : k <= j
<1> DEFINE U == { 1 .. k : k \in T }
<1>1. U \subseteq SUBSET (1 .. n) /\ U # {}
  <2>1. \A k \in T : 1 .. k \in SUBSET (1 .. n)
    OBVIOUS
  <2>2. U \subseteq SUBSET (1 .. n)
    BY <2>1
  <2>3. PICK k : k \in T
    OBVIOUS
  <2>4. 1 .. k \in U
    BY <2>3
  <2> QED
    BY <2>2, <2>4
<1>2. IsFiniteSet(1 .. n)
  BY FS_Interval
<1>3. PICK x \in U : \A y \in U : y \subseteq x => y = x
  <2>1. PICK S : S = 1 .. n
    OBVIOUS
  <2>2. IsFiniteSet(S) /\ U \subseteq SUBSET S /\ U # {}
    BY <1>1, <1>2, <2>1
  <2> HIDE DEF U
  <2> QED
    BY <2>2, SmallestSubset
<1>4. PICK k \in T : x = 1 .. k
  OBVIOUS
<1>5. ASSUME NEW j \in T, j < k PROVE FALSE
  <2>1. 1 .. j \in U /\ 1 .. j \subseteq 1 .. k
    BY <1>5
  <2>2. 1 .. j = 1 .. k
    BY <1>3, <1>4, <2>1
  <2>3. k \in 1 .. k /\ k \notin 1 .. j
    BY <1>5
  <2> QED
    BY <2>2, <2>3
<1> QED
  BY <1>5

\* Rows that pass composeDevice's check add up to no more than the used VRAM,
\* however many they are: no sum that is compared has wrapped.
LEMMA RowsAddUp ==
    ASSUME NEW d, d.processes \in Seq(RowType), d.used \in Nat, d.used <= MaxU64,
           RowsFit(d), NEW n \in 0 .. Len(d.processes)
    PROVE  RowsMiB(d.processes, n) \in Nat /\ RowsMiB(d.processes, n) <= d.used
<1> DEFINE rows == d.processes
           mem == [k \in DOMAIN rows |-> rows[k].mem]
           Sum(k) == SumFunctionOnSet(mem, 1 .. k)
<1>1. DOMAIN rows = 1 .. Len(rows) /\ Len(rows) \in Nat
  BY LenProperties
<1>2. \A k \in 1 .. Len(rows) : mem[k] \in Nat /\ mem[k] = rows[k].mem
  <2> SUFFICES ASSUME NEW k \in 1 .. Len(rows)
               PROVE  mem[k] \in Nat /\ mem[k] = rows[k].mem
    OBVIOUS
  <2>1. rows[k] \in RowType
    BY <1>1, ElementOfSeq
  <2>2. rows[k].mem \in Nat
    BY <2>1, ComposerAssumption DEF RowType, U64
  <2> QED
    BY <1>1, <2>2
<1>3. \A k \in 0 .. Len(rows) : Sum(k) \in Nat
  <2> SUFFICES ASSUME NEW k \in 0 .. Len(rows) PROVE Sum(k) \in Nat
    OBVIOUS
  <2>1. IsFiniteSet(1 .. k) /\ \A x \in 1 .. k : mem[x] \in Nat
    <3>1. k \in Nat /\ 1 .. k \subseteq 1 .. Len(rows)
      BY <1>1
    <3> HIDE DEF mem
    <3> QED
      BY <1>2, <3>1, FS_Interval
  <2> HIDE DEF mem
  <2> QED
    BY <2>1, SumNat
<1>4. ASSUME NEW k \in 1 .. Len(rows) PROVE Sum(k) = mem[k] + Sum(k - 1)
  <2>1. /\ IsFiniteSet(1 .. k) /\ \A x \in 1 .. k : mem[x] \in Int
        /\ k \in 1 .. k
    <3>1. k \in Nat /\ 1 .. k \subseteq 1 .. Len(rows) /\ k \in 1 .. k
      BY <1>1
    <3> HIDE DEF mem
    <3> QED
      <4>1. IsFiniteSet(1 .. k)
        BY <3>1, FS_Interval
      <4>2. \A x \in 1 .. k : mem[x] \in Int
        BY <1>2, <3>1
      <4> QED
        BY <3>1, <4>1, <4>2
  <2>2. (1 .. k) \ {k} = 1 .. k - 1
    BY <1>1
  <2> HIDE DEF mem
  <2>3. SumFunctionOnSet(mem, 1 .. k) =
          mem[k] + SumFunctionOnSet(mem, (1 .. k) \ {k})
    BY <2>1, SumRemove
  <2> QED
    BY <2>2, <2>3
<1>5. Sum(0) = 0
  <2>1. 1 .. 0 = {}
    OBVIOUS
  <2> HIDE DEF mem
  <2> QED
    BY <2>1, SumEmpty
<1>6. \A k \in 0 .. Len(rows) : Sum(k) = RowsMiB(rows, k)
  BY DEF RowsMiB
<1> HIDE DEF mem, Sum
<1>7. ASSUME NEW k \in 1 .. Len(rows), Sum(k - 1) <= d.used
      PROVE  Sum(k) <= d.used
  <2>1. RowFits(d.used, Wrapped(Sum(k - 1)), rows[k])
    BY <1>1, <1>6 DEF RowsFit
  <2>2. Sum(k - 1) \in Nat /\ k - 1 \in 0 .. Len(rows)
    BY <1>1, <1>3
  <2>3. \A x \in 0 .. d.used : Wrapped(x) = x
    BY ComposerAssumption DEF Wrapped
  <2>4. Wrapped(Sum(k - 1)) = Sum(k - 1)
    BY <1>7, <2>2, <2>3
  <2>5. Wrapped(d.used - Sum(k - 1)) = d.used - Sum(k - 1)
    BY <1>7, <2>2, <2>3
  <2>6. mem[k] <= d.used - Sum(k - 1)
    BY <1>2, <2>1, <2>4, <2>5 DEF RowFits
  <2> QED
    BY <1>2, <1>4, <2>2, <2>6
<1>8. \A k \in 0 .. Len(rows) : Sum(k) <= d.used
  <2> DEFINE Bad == {k \in 0 .. Len(rows) : ~ (Sum(k) <= d.used)}
  <2> SUFFICES ASSUME Bad # {} PROVE FALSE
    OBVIOUS
  <2>1. PICK k \in Bad : \A j \in Bad : k <= j
    <3>1. Bad \subseteq 0 .. Len(rows)
      OBVIOUS
    <3> HIDE DEF Bad
    <3> QED
      BY <1>1, <3>1, SmallestIndex
  <2>2. k # 0
    BY <1>5
  <2>3. k \in 1 .. Len(rows) /\ k - 1 \in 0 .. Len(rows) /\ ~ (k <= k - 1)
    BY <1>1, <2>2
  <2>4. k - 1 \notin Bad
    BY <2>1, <2>3
  <2> QED
    BY <1>7, <2>3, <2>4
<1> QED
  BY <1>3, <1>6, <1>8
\* A device that passes composeDevice's checks is composed exactly.
LEMMA DeviceExact ==
    ASSUME NEW p \in ProfileType, NEW d \in DeviceType, CanComposeDevice(p, d),
           NEW k
    PROVE  ExactDevice(ComposeDevice(k - 1, p, d), k)
<1>1. /\ MiB \in Nat /\ MiB > 0 /\ MaxU64 \in Nat
      /\ p.total \in U64 /\ p.reserved \in U64
      /\ d.vram \in U64 /\ d.used \in U64 /\ d.processes \in Seq(RowType)
  BY ComposerAssumption DEF ProfileType, DeviceType
<1>2. PICK t : t = TotalMiB(p, d)
  OBVIOUS
<1>3. PICK r : r = p.reserved
  OBVIOUS
<1>4. PICK u : u = d.used
  OBVIOUS
<1>5. /\ t \in Nat /\ r \in Nat /\ u \in Nat
      /\ t <= MaxMiB /\ r <= MaxMiB /\ u <= MaxMiB /\ u <= MaxU64
      /\ t > r /\ u <= t - r
      /\ RowsFit(d)
  BY <1>1, <1>2, <1>3, <1>4 DEF CanComposeDevice, TotalMiB, U64
<1>6. PICK tb \in Nat : tb = t * MiB /\ tb = Wrapped(tb) /\ tb % MiB = 0
                       /\ tb <= MaxU64
  BY <1>5, BytesExact
<1>7. PICK rb \in Nat : rb = r * MiB /\ rb = Wrapped(rb) /\ rb % MiB = 0
  BY <1>5, BytesExact
<1>8. PICK ub \in Nat : ub = u * MiB /\ ub = Wrapped(ub) /\ ub % MiB = 0
  BY <1>5, BytesExact
<1>9. rb < tb /\ rb + ub <= tb
  BY <1>1, <1>5, <1>6, <1>7, <1>8
<1>10. PICK fb \in Nat : fb = tb - rb - ub /\ Wrapped(fb) = fb
  <2>1. tb - rb - ub \in 0 .. MaxU64
    BY <1>1, <1>6, <1>9
  <2>2. \A x \in 0 .. MaxU64 : Wrapped(x) = x
    BY <1>1 DEF Wrapped
  <2> QED
    BY <2>1, <2>2
<1>11. PICK s \in Nat : s = RowsMiB(d.processes, Len(d.processes)) /\ s <= u
  <2>1. Len(d.processes) \in 0 .. Len(d.processes)
    BY <1>1, LenProperties
  <2> QED
    BY <1>1, <1>4, <1>5, <2>1, RowsAddUp
<1>12. s * MiB <= ub
  BY <1>1, <1>5, <1>8, <1>11
<1>13. PICK e : e = ComposeDevice(k - 1, p, d)
  OBVIOUS
<1>14. /\ e.index = k - 1 /\ e.total = tb /\ e.reserved = rb /\ e.used = ub
       /\ e.free = fb /\ e.processes = d.processes
  BY <1>2, <1>3, <1>4, <1>6, <1>7, <1>8, <1>10, <1>13 DEF ComposeDevice
<1>15. ub + fb + rb = tb
  BY <1>10
<1>16. ExactDevice(e, k)
  BY <1>6, <1>7, <1>8, <1>9, <1>11, <1>12, <1>14, <1>15 DEF ExactDevice
<1> QED
  BY <1>13, <1>16

\* What Compose answers is exact.
LEMMA ComposeExact ==
    ASSUME NEW c, TypedCatalog(c), NEW cuda, NEW devices \in Seq(DeviceType)
    PROVE  Exact(Compose(c, cuda, devices))
<1>1. DOMAIN Rejected = {}
  BY DEF Rejected
<1>2. CASE Compose(c, cuda, devices) = Rejected
  BY <1>1, <1>2 DEF Exact
<1>3. CASE Compose(c, cuda, devices) # Rejected
  <2>1. \A d \in ToSet(devices) :
           /\ d.profile \in DOMAIN c.profiles
           /\ CanComposeDevice(c.profiles[d.profile], d)
    BY <1>3 DEF Compose
  <2>2. Compose(c, cuda, devices) =
          [k \in DOMAIN devices |->
              ComposeDevice(k - 1, c.profiles[devices[k].profile], devices[k])]
    BY <1>3 DEF Compose
  <2>3. ASSUME NEW k \in DOMAIN devices
        PROVE  ExactDevice(ComposeDevice(k - 1, c.profiles[devices[k].profile],
                                         devices[k]), k)
    <3>1. devices[k] \in DeviceType /\ devices[k] \in ToSet(devices)
      BY DEF ToSet
    <3>2. c.profiles[devices[k].profile] \in ProfileType
      BY <2>1, <3>1 DEF TypedCatalog
    <3> QED
      BY <2>1, <3>1, <3>2, DeviceExact
  <2> QED
    BY <2>2, <2>3 DEF Exact
<1> QED
  BY <1>2, <1>3

\* A device request of nothing but a profile and a size has a device's type.
LEMMA PlainType ==
    ASSUME NEW profile \in STRING, NEW vram \in U64
    PROVE  Plain(profile, vram) \in DeviceType
<1>1. 0 \in U64
  BY ComposerAssumption DEF U64
<1>2. <<>> \in Seq(Int) /\ <<>> \in Seq(RowType)
      /\ <<>> \in Seq([mode : STRING, probability : Int, after : Int])
  OBVIOUS
<1> QED
  BY <1>1, <1>2 DEF Plain, DeviceType

\* So has each of a profile's repetitions, of which there are none when the
\* count is negative.
LEMMA RepeatedType ==
    ASSUME NEW profile \in STRING, NEW vram \in U64, NEW count \in Int
    PROVE  Repeated(profile, count, vram) \in Seq(DeviceType)
<1>1. PICK x \in DeviceType : x = Plain(profile, vram)
  BY PlainType
<1>2. \E n \in Nat : 1 .. count = 1 .. n
  <2>1. CASE count >= 0
    BY <2>1
  <2>2. CASE count < 0
    <3>1. 1 .. count = 1 .. 0
      BY <2>2
    <3> QED
      BY <3>1
  <2> QED
    BY <2>1, <2>2
<1>3. PICK n \in Nat : 1 .. count = 1 .. n
  BY <1>2
<1>4. Repeated(profile, count, vram) = [k \in 1 .. n |-> x]
  BY <1>1, <1>3 DEF Repeated
<1>5. [k \in 1 .. n |-> x] \in [1 .. n -> DeviceType]
  BY <1>1
<1> QED
  BY <1>3, <1>4, <1>5, SeqDef

\* Files by their identifiers.
LEMMA ByIdType ==
    ASSUME NEW T, NEW files \in Seq(T), NEW id \in DOMAIN ById(files)
    PROVE  ById(files)[id] \in ToSet(files) /\ ById(files)[id] \in T
           /\ ById(files)[id].id = id
<1>1. id \in {f.id : f \in ToSet(files)}
  BY DEF ById
<1>2. ById(files)[id] = CHOOSE f \in ToSet(files) : f.id = id
  BY <1>1 DEF ById
<1>3. \E f \in ToSet(files) : f.id = id
  BY <1>1
<1>4. ToSet(files) \subseteq T
  BY DEF ToSet
<1> QED
  BY <1>2, <1>3, <1>4

\* A catalogue's profiles and topologies have the types of the files.
LEMMA CatalogTyped ==
    ASSUME NEW files \in FilesType
    PROVE  TypedCatalog(Catalog(files))
<1>1. files.profiles \in Seq(ProfileType) /\ files.topologies \in Seq(TopologyType)
  BY DEF FilesType
<1>2. /\ Catalog(files).profiles = ById(files.profiles)
      /\ Catalog(files).topologies = ById(files.topologies)
  BY DEF Catalog
<1>3. \A id \in DOMAIN ById(files.profiles) : ById(files.profiles)[id] \in ProfileType
  BY <1>1, ByIdType
<1>4. \A id \in DOMAIN ById(files.topologies) :
         ById(files.topologies)[id] \in TopologyType
  BY <1>1, ByIdType
<1> QED
  BY <1>2, <1>3, <1>4 DEF TypedCatalog

\* The requests that ComposeTopology makes of a topology's devices.
Requests(devices) ==
    [k \in DOMAIN devices |->
        [Plain(devices[k].profile, devices[k].vram)
            EXCEPT !.used = devices[k].used, !.util = devices[k].util]]

\* They are of a device's type, and nothing is lost.
LEMMA RequestsType ==
    ASSUME NEW devices \in Seq([profile : STRING, vram : U64, used : U64, util : Nat])
    PROVE  /\ Requests(devices) \in Seq(DeviceType)
           /\ DOMAIN Requests(devices) = DOMAIN devices
           /\ Len(Requests(devices)) = Len(devices)
           /\ \A k \in DOMAIN devices :
                 LET d == Requests(devices)[k]
                 IN  /\ d.profile = devices[k].profile /\ d.vram = devices[k].vram
                     /\ d.used = devices[k].used /\ d.util = devices[k].util
                     /\ d.temperature = <<>> /\ d.processes = <<>>
                     /\ d.failure = <<>>
<1>1. PICK asked : asked = Requests(devices)
  OBVIOUS
<1>2. DOMAIN devices = 1 .. Len(devices) /\ Len(devices) \in Nat
  BY LenProperties
<1>3. DOMAIN asked = DOMAIN devices
  BY <1>1 DEF Requests
<1>4. ASSUME NEW k \in DOMAIN devices
      PROVE  /\ asked[k] \in DeviceType
             /\ asked[k].profile = devices[k].profile
             /\ asked[k].vram = devices[k].vram
             /\ asked[k].used = devices[k].used /\ asked[k].util = devices[k].util
             /\ asked[k].temperature = <<>> /\ asked[k].processes = <<>>
             /\ asked[k].failure = <<>>
  <2>1. devices[k] \in [profile : STRING, vram : U64, used : U64, util : Nat]
    BY <1>2, ElementOfSeq
  <2>2. /\ devices[k].profile \in STRING /\ devices[k].vram \in U64
        /\ devices[k].used \in U64 /\ devices[k].util \in Nat
    BY <2>1
  <2>3. PICK x \in DeviceType : x = Plain(devices[k].profile, devices[k].vram)
    BY <2>2, PlainType
  <2>4. /\ x.profile = devices[k].profile /\ x.vram = devices[k].vram
        /\ x.temperature = <<>> /\ x.processes = <<>> /\ x.failure = <<>>
    BY <2>3 DEF Plain
  <2>5. asked[k] = [[x EXCEPT !.used = devices[k].used]
                       EXCEPT !.util = devices[k].util]
    BY <1>1, <2>3 DEF Requests
  <2>6. PICK y : y = [x EXCEPT !.used = devices[k].used]
    OBVIOUS
  <2>7. y \in DeviceType /\ y.used = devices[k].used
        /\ y.profile = x.profile /\ y.vram = x.vram
        /\ y.temperature = x.temperature /\ y.processes = x.processes
        /\ y.failure = x.failure
    BY <2>2, <2>6 DEF DeviceType
  <2>8. asked[k] = [y EXCEPT !.util = devices[k].util]
    BY <2>5, <2>6
  <2> QED
    BY <2>2, <2>4, <2>7, <2>8 DEF DeviceType
<1>5. asked \in [1 .. Len(devices) -> DeviceType]
  <2>1. asked = [k \in DOMAIN devices |-> asked[k]]
    BY <1>1 DEF Requests
  <2> QED
    BY <1>2, <1>4, <2>1
<1>6. asked \in Seq(DeviceType) /\ Len(asked) = Len(devices)
  BY <1>2, <1>3, <1>5, SeqDef
<1> QED
  BY <1>1, <1>3, <1>4, <1>6

\* ComposeTopology composes them.
LEMMA TopologyRequests ==
    ASSUME NEW c, NEW cuda, NEW id \in DOMAIN c.topologies
    PROVE  ComposeTopology(c, cuda, id) =
             Compose(c, cuda, Requests(c.topologies[id].devices))
BY DEF ComposeTopology, Requests

\* What ComposeTopology answers is exact.
LEMMA TopologyExact ==
    ASSUME NEW c, TypedCatalog(c), NEW cuda, NEW id
    PROVE  Exact(ComposeTopology(c, cuda, id))
<1>1. CASE id \notin DOMAIN c.topologies
  BY <1>1 DEF ComposeTopology, Exact, Rejected
<1>2. CASE id \in DOMAIN c.topologies
  <2>1. c.topologies[id].devices
          \in Seq([profile : STRING, vram : U64, used : U64, util : Nat])
    BY <1>2 DEF TypedCatalog, TopologyType
  <2>2. Requests(c.topologies[id].devices) \in Seq(DeviceType)
    BY <2>1, RequestsType
  <2> QED
    BY <1>2, <2>2, TopologyRequests, ComposeExact
<1> QED
  BY <1>1, <1>2

\* What `render` answers is exact, whichever of its four ways is chosen.
LEMMA RenderExact ==
    ASSUME NEW c, TypedCatalog(c), NEW flags \in FlagsType
    PROVE  Exact(RunRender(c, flags))
<1>1. CASE RunRender(c, flags) = Rejected
  BY <1>1 DEF Exact, Rejected
<1>2. CASE RunRender(c, flags) = ComposeTopology(c, flags.cuda, flags.topology)
  BY <1>2, TopologyExact
<1>3. CASE RunRender(c, flags) =
             Compose(c, flags.cuda,
                       Repeated(flags.profile, flags.count, flags.vram))
  <2>1. Repeated(flags.profile, flags.count, flags.vram) \in Seq(DeviceType)
    BY RepeatedType DEF FlagsType
  <2> QED
    BY <1>3, <2>1, ComposeExact
<1>4. CASE /\ flags.spec # <<>>
           /\ RunRender(c, flags) =
                Compose(c, flags.spec[1].cuda, flags.spec[1].devices)
  <2>1. flags.spec \in Seq(SpecType) /\ flags.spec # <<>>
    BY <1>4 DEF FlagsType
  <2>2. flags.spec[1] \in SpecType
    BY <2>1
  <2>3. flags.spec[1].devices \in Seq(DeviceType)
    BY <2>2 DEF SpecType
  <2> QED
    BY <1>4, <2>3, ComposeExact
<1>5. CASE /\ \A raw \in ToSet(flags.raw) : CanParseDevice(raw)
           /\ RunRender(c, flags) =
                Compose(c, flags.cuda,
                        [k \in DOMAIN flags.raw |-> ParseDevice(flags.raw[k])])
  <2>1. PICK raws \in Seq([profile : STRING, at : Seq(U64 \cup {-1})]) :
          raws = flags.raw
    BY DEF FlagsType
  <2>2. DOMAIN raws = 1 .. Len(raws) /\ Len(raws) \in Nat
    BY LenProperties
  <2>3. ASSUME NEW k \in 1 .. Len(raws) PROVE ParseDevice(raws[k]) \in DeviceType
    <3>1. PICK raw \in [profile : STRING, at : Seq(U64 \cup {-1})] : raw = raws[k]
      BY <2>2, ElementOfSeq
    <3>2. CanParseDevice(raw)
      BY <1>5, <2>1, <2>2, <3>1 DEF ToSet
    <3>3. raw.profile \in STRING /\ raw.at \in Seq(U64 \cup {-1})
      OBVIOUS
    <3>4. CASE raw.at = <<>>
      <4>1. 0 \in U64
        BY ComposerAssumption DEF U64
      <4> QED
        BY <3>1, <3>3, <3>4, <4>1, PlainType DEF ParseDevice
    <3>5. CASE raw.at # <<>>
      <4>1. 1 \in DOMAIN raw.at /\ raw.at[1] \in U64 \cup {-1}
        <5>1. /\ Len(raw.at) \in Nat /\ Len(raw.at) # 0
              /\ DOMAIN raw.at = 1 .. Len(raw.at)
          BY <3>3, <3>5, LenProperties, EmptySeq
        <5> QED
          BY <3>3, <5>1, ElementOfSeq
      <4>2. raw.at[1] > 0
        BY <3>2, <4>1 DEF CanParseDevice, ToSet
      <4>3. raw.at[1] \in U64
        BY <4>1, <4>2
      <4> QED
        BY <3>1, <3>3, <3>5, <4>3, PlainType DEF ParseDevice
    <3> QED
      BY <3>4, <3>5
  <2>4. [k \in DOMAIN raws |-> ParseDevice(raws[k])] \in [1 .. Len(raws) -> DeviceType]
    BY <2>2, <2>3
  <2>5. [k \in DOMAIN raws |-> ParseDevice(raws[k])] \in Seq(DeviceType)
    BY <2>2, <2>4, SeqDef
  <2> QED
    BY <1>5, <2>1, <2>5, ComposeExact
<1> QED
  <2>1. PICK chosen : chosen = {s \in {"profile", "topology"} : flags[s] # Unset}
                    \cup {s \in {"raw", "spec"} : flags[s] # <<>>}
    OBVIOUS
  <2>2. chosen = {"spec"} => flags.spec # <<>>
    BY <2>1
  <2> QED
    BY <1>1, <1>2, <1>3, <1>4, <1>5, <2>1, <2>2 DEF RunRender

\* `kubernetes` composes what `up` does, if its manifest can be rendered.
LEMMA KubernetesIsUp ==
    ASSUME NEW c, NEW flags
    PROVE  RunKubernetes(c, flags)
             = IF flags.manifest THEN RunUp(c, flags) ELSE Rejected
<1> DEFINE profile == Compose(c, flags.cuda,
                              Repeated(flags.profile, flags.count, flags.vram))
           topology == ComposeTopology(c, flags.cuda, flags.topology)
<1>1. PICK chosen : chosen = {s \in {"profile", "topology"} : flags[s] # Unset}
  OBVIOUS
<1>2. /\ "profile" \in chosen <=> flags.profile # Unset
      /\ "topology" \in chosen <=> flags.topology # Unset
      /\ chosen \subseteq {"profile", "topology"}
  BY <1>1
<1>3. /\ chosen = {"profile"} <=>
            flags.profile # Unset /\ flags.topology = Unset
      /\ chosen = {"topology"} <=>
            flags.profile = Unset /\ flags.topology # Unset
  <2>1. "profile" # "topology"
    OBVIOUS
  <2>2. chosen = {"profile"} <=> "profile" \in chosen /\ "topology" \notin chosen
    BY <1>2, <2>1
  <2>3. chosen = {"topology"} <=> "profile" \notin chosen /\ "topology" \in chosen
    BY <1>2, <2>1
  <2> QED
    BY <1>2, <2>2, <2>3
<1>4. RunKubernetes(c, flags) =
        IF flags.manifest
          THEN CASE chosen = {"profile"} -> profile
                 [] chosen = {"topology"} /\ flags.count = 1 /\ flags.vram = 0 ->
                      topology
                 [] OTHER -> Rejected
          ELSE Rejected
  BY <1>1 DEF RunKubernetes
<1>5. RunUp(c, flags) =
        IF (flags.profile = Unset) = (flags.topology = Unset) THEN Rejected
        ELSE IF flags.profile # Unset THEN profile
        ELSE IF flags.count # 1 \/ flags.vram # 0 THEN Rejected
        ELSE topology
  BY DEF RunUp
<1> HIDE DEF profile, topology
<1>6. CASE flags.profile # Unset /\ flags.topology = Unset
  BY <1>3, <1>4, <1>5, <1>6
<1>7. CASE flags.profile = Unset /\ flags.topology # Unset
  BY <1>3, <1>4, <1>5, <1>7
<1>8. CASE (flags.profile = Unset) = (flags.topology = Unset)
  BY <1>3, <1>4, <1>5, <1>8
<1> QED
  BY <1>6, <1>7, <1>8

\* So is the answer of `up` and `kubernetes`.
LEMMA UpExact ==
    ASSUME NEW c, TypedCatalog(c), NEW flags \in FlagsType
    PROVE  Exact(RunUp(c, flags)) /\ Exact(RunKubernetes(c, flags))
<1>1. Exact(Rejected)
  BY DEF Exact, Rejected
<1>2. Exact(ComposeTopology(c, flags.cuda, flags.topology))
  BY TopologyExact
<1>3. Exact(Compose(c, flags.cuda,
                    Repeated(flags.profile, flags.count, flags.vram)))
  <2>1. Repeated(flags.profile, flags.count, flags.vram) \in Seq(DeviceType)
    BY RepeatedType DEF FlagsType
  <2> QED
    BY <2>1, ComposeExact
<1>4. Exact(RunUp(c, flags))
  BY <1>1, <1>2, <1>3 DEF RunUp
<1> QED
  BY <1>1, <1>4, KubernetesIsUp

\* So is the answer of `scenario render`.
LEMMA BaseExact ==
    ASSUME NEW c, TypedCatalog(c), NEW document \in DocumentType
    PROVE  Exact(RenderBase(c, document))
<1>1. Exact(Rejected)
  BY DEF Exact, Rejected
<1>2. CASE RenderBase(c, document) = Rejected
  BY <1>1, <1>2
<1>3. CASE document.base # <<>>
  <2>1. document.base \in Seq(BaseType)
    BY DEF DocumentType
  <2>2. PICK base \in BaseType : base = document.base[1]
    BY <1>3, <2>1
  <2>3. PICK count \in Int : count = IF base.count = 0 THEN 1 ELSE base.count
    BY DEF BaseType
  <2>4. Exact(ComposeTopology(c, base.cuda, base.topology))
    BY TopologyExact
  <2>5. Exact(Compose(c, base.cuda, Repeated(base.profile, count, base.vram)))
    <3>1. Repeated(base.profile, count, base.vram) \in Seq(DeviceType)
      BY RepeatedType DEF BaseType
    <3> QED
      BY <3>1, ComposeExact
  <2>6. Exact(Compose(c, base.cuda, base.devices))
    BY ComposeExact DEF BaseType
  <2> QED
    BY <1>1, <1>3, <2>2, <2>3, <2>4, <2>5, <2>6 DEF RenderBase
<1> QED
  BY <1>2, <1>3 DEF RenderBase

\* Any command composes exactly.
LEMMA ComposedExact ==
    ASSUME command \in CommandType, command.name # "scenario run"
    PROVE  Exact(Composed)
<1>1. /\ command.flags \in FlagsType /\ doc \in DocumentType
      /\ command.name \in {"scenario render", "render", "up", "kubernetes"}
  BY DEF CommandType, doc
<1>2. PICK c : c = Catalog(command.files) /\ TypedCatalog(c)
  BY CatalogTyped DEF CommandType
<1>3. /\ Exact(RenderBase(c, doc)) /\ Exact(RunRender(c, command.flags))
      /\ Exact(RunUp(c, command.flags)) /\ Exact(RunKubernetes(c, command.flags))
  BY <1>1, <1>2, RenderExact, UpExact, BaseExact
<1>4. CASE command.name = "scenario render"
  BY <1>2, <1>3, <1>4 DEF Composed
<1>5. CASE command.name = "render"
  BY <1>2, <1>3, <1>5 DEF Composed
<1>6. CASE command.name = "up"
  BY <1>2, <1>3, <1>6 DEF Composed
<1>7. CASE command.name = "kubernetes"
  BY <1>2, <1>3, <1>7 DEF Composed
<1> QED
  BY <1>1, <1>4, <1>5, <1>6, <1>7

\* The command's catalogue can be loaded.
Loads == CatalogLoads(command.files)

\* The inductive invariant of a command that composes: nothing is rendered but
\* what Composed says, and `up` and `kubernetes` end with it.
RenderInv ==
    /\ command \in CommandType
    /\ pc = "render" => command.name = "scenario render"
    /\ ~ Runs => pc \in {"start", "render", "done"}
    /\ \/ rendered = Rejected
       \/ ~ Runs /\ Loads /\ rendered = Composed
    /\ /\ pc = "done"
       /\ command.name \in {"up", "kubernetes"}
       /\ Loads
       => rendered = Composed

\* What a command composes depends on the command only.
LEMMA ComposedKept ==
    ASSUME command' = command
    PROVE  Composed' = Composed /\ (Runs' <=> Runs) /\ (Loads' <=> Loads)
BY DEF Composed, Runs, Loads, doc

\* RenderInv holds in every reachable state.
LEMMA RenderInvHolds == Spec => []RenderInv
<1>1. Init => RenderInv
  BY ScenarioAssumption DEF Init, RenderInv
<1>2. RenderInv /\ [Next]_vars => RenderInv'
  <2> SUFFICES ASSUME RenderInv, [Next]_vars PROVE RenderInv'
    OBVIOUS
  <2>1. CASE Render
    <3>1. command' = command /\ pc' = "done" /\ ~ Runs
          /\ rendered' = IF Loads THEN Composed ELSE Rejected
      BY <2>1 DEF Render, RenderInv, Runs, Phase, Loads
    <3> QED
      BY <3>1, ComposedKept DEF RenderInv
  <2>2. CASE LoadScenario
    <3>1. UNCHANGED config /\ command.name \in {"scenario run", "scenario render"}
          /\ (pc' = "done" \/ pc' = IF Runs THEN "initial" ELSE "render")
      BY <2>2 DEF LoadScenario, Phase, source
    <3> QED
      BY <3>1, ComposedKept DEF RenderInv, config, Runs
  <2>3. CASE UNCHANGED config /\ pc' = pc
    BY <2>3, ComposedKept DEF config, RenderInv
  <2>4. CASE UNCHANGED config /\ pc' # "render"
             /\ pc \in {"initial", "wait", "step", "cleanup"}
    <3>1. Runs
      BY <2>4 DEF RenderInv
    <3>2. command.name = "scenario run"
      BY <3>1 DEF Runs
    <3> QED
      BY <2>4, <3>1, <3>2, ComposedKept DEF config, RenderInv
  <2> QED
    <3>1. CASE UNCHANGED vars
      BY <3>1, <2>3 DEF vars, config
    <3>2. CASE Scan \/ CloseInput \/ Cancel
      BY <3>2, <2>3 DEF Scan, CloseInput, Cancel, source
    <3>3. CASE RunInitial \/ WaitForTimer \/ EventMissing
      BY <3>3, <2>3, <2>4
         DEF RunInitial, WaitForTimer, EventMissing, WaitsForEvent, source, Phase,
             Defer
    <3>4. CASE TakeEvent \/ RunStep \/ RunCleanup
      BY <3>4, <2>3, <2>4
         DEF TakeEvent, RunStep, RunCleanup, WaitsForEvent, source, Phase, Defer
    <3> QED
      BY <2>1, <2>2, <3>1, <3>2, <3>3, <3>4 DEF Next, Run
<1> QED
  BY <1>1, <1>2, PTL DEF Spec

\* For any catalogue, flags, document and sizes: every device that any of the
\* commands renders adds up in plain arithmetic, with its process rows, although
\* composeDevice multiplies, subtracts and sums in uint64.
THEOREM AlwaysComposedExact == Spec => []ComposedIsExact
<1>1. RenderInv => Exact(rendered)
  <2> SUFFICES ASSUME RenderInv PROVE Exact(rendered)
    OBVIOUS
  <2>1. CASE rendered = Rejected
    BY <2>1 DEF Exact, Rejected
  <2>2. CASE ~ Runs /\ rendered = Composed
    <3>1. Exact(Composed)
      BY <2>2, ComposedExact DEF RenderInv, Runs
    <3> QED
      BY <2>2, <3>1
  <2> QED
    BY <2>1, <2>2 DEF RenderInv
<1>2. Exact(rendered) => ComposedIsExact
  BY DEF Exact, ExactDevice, ComposedIsExact
<1> QED
  BY <1>1, <1>2, RenderInvHolds, PTL

-----------------------------------------------------------------------------
(* What is asked for and what is composed. *)

\* A catalogue whose profiles are filed under their identifiers.
Filed(c) == \A id \in DOMAIN c.profiles : c.profiles[id].id = id

\* The device is the one that was asked for.
AsAsked(d, ask) ==
    /\ d.profile = ask.profile
    /\ ask.vram # 0 => d.total = ask.vram * MiB
    /\ d.used = ask.used * MiB

\* What Compose accepts it composes as it was asked to.
LEMMA ComposeAsAsked ==
    ASSUME NEW c, TypedCatalog(c), Filed(c), NEW cuda,
           NEW devices \in Seq(DeviceType), Compose(c, cuda, devices) # Rejected
    PROVE  /\ Len(Compose(c, cuda, devices)) = Len(devices)
           /\ DOMAIN Compose(c, cuda, devices) = DOMAIN devices
           /\ \A k \in DOMAIN devices :
                 AsAsked(Compose(c, cuda, devices)[k], devices[k])
<1>1. \A d \in ToSet(devices) :
         /\ d.profile \in DOMAIN c.profiles
         /\ CanComposeDevice(c.profiles[d.profile], d)
  BY DEF Compose
<1>2. PICK r : r = Compose(c, cuda, devices)
  OBVIOUS
<1>3. r = [k \in DOMAIN devices |->
            ComposeDevice(k - 1, c.profiles[devices[k].profile], devices[k])]
  BY <1>2 DEF Compose
<1>4. DOMAIN devices = 1 .. Len(devices) /\ Len(devices) \in Nat
  BY LenProperties
<1>5. DOMAIN r = DOMAIN devices
  BY <1>3
<1>6. Len(r) = Len(devices)
  BY <1>4, <1>5
<1>7. ASSUME NEW k \in DOMAIN devices PROVE AsAsked(r[k], devices[k])
  <2>1. PICK d \in DeviceType : d = devices[k]
    BY <1>4, ElementOfSeq
  <2>2. PICK p \in ProfileType : p = c.profiles[d.profile] /\ p.id = d.profile
                                /\ CanComposeDevice(p, d)
    BY <1>1, <2>1 DEF ToSet, TypedCatalog, Filed
  <2>3. r[k] = ComposeDevice(k - 1, p, d)
    BY <1>3, <2>1, <2>2
  <2>4. /\ d.used \in Nat /\ d.used <= MaxMiB /\ TotalMiB(p, d) \in Nat
        /\ TotalMiB(p, d) <= MaxMiB
    <3>1. d.used \in Nat /\ d.vram \in Nat /\ p.total \in Nat
      BY ComposerAssumption DEF DeviceType, ProfileType, U64
    <3>2. d.used <= MaxMiB /\ TotalMiB(p, d) <= MaxMiB
      BY <2>2 DEF CanComposeDevice
    <3> QED
      BY <3>1, <3>2 DEF TotalMiB
  <2>5. /\ Wrapped(d.used * MiB) = d.used * MiB
        /\ Wrapped(TotalMiB(p, d) * MiB) = TotalMiB(p, d) * MiB
    BY <2>4, BytesExact
  <2>6. /\ r[k].profile = d.profile /\ r[k].used = d.used * MiB
        /\ r[k].total = TotalMiB(p, d) * MiB
    BY <2>2, <2>3, <2>5 DEF ComposeDevice
  <2> QED
    BY <2>1, <2>6 DEF AsAsked, TotalMiB
<1> QED
  BY <1>2, <1>5, <1>6, <1>7


\* The configuration is what was asked for, device by device.
Matches(r, asked) ==
    /\ Len(r) = Len(asked)
    /\ \A k \in DOMAIN r : AsAsked(r[k], asked[k])

\* A topology is composed as it is in the catalogue.
LEMMA TopologyMatches ==
    ASSUME NEW c, TypedCatalog(c), Filed(c), NEW cuda, NEW id,
           ComposeTopology(c, cuda, id) # Rejected
    PROVE  /\ id \in DOMAIN c.topologies
           /\ Matches(ComposeTopology(c, cuda, id), c.topologies[id].devices)
<1>1. id \in DOMAIN c.topologies
  BY DEF ComposeTopology
<1>2. PICK devices : devices = c.topologies[id].devices
  OBVIOUS
<1>3. devices \in Seq([profile : STRING, vram : U64, used : U64, util : Nat])
  BY <1>1, <1>2 DEF TypedCatalog, TopologyType
<1>4. PICK asked : asked = Requests(devices)
  OBVIOUS
<1>5. /\ asked \in Seq(DeviceType) /\ DOMAIN asked = DOMAIN devices
      /\ Len(asked) = Len(devices)
      /\ \A k \in DOMAIN devices :
            /\ asked[k].profile = devices[k].profile
            /\ asked[k].vram = devices[k].vram /\ asked[k].used = devices[k].used
  BY <1>3, <1>4, RequestsType
<1>6. PICK r : r = ComposeTopology(c, cuda, id)
  OBVIOUS
<1>7. r = Compose(c, cuda, asked) /\ r # Rejected
  BY <1>1, <1>2, <1>4, <1>6, TopologyRequests
<1>8. /\ Len(r) = Len(asked) /\ DOMAIN r = DOMAIN asked
      /\ \A k \in DOMAIN asked : AsAsked(r[k], asked[k])
  BY <1>5, <1>7, ComposeAsAsked
<1>9. Matches(r, devices)
  BY <1>5, <1>8 DEF Matches, AsAsked
<1> QED
  BY <1>1, <1>2, <1>6, <1>9

\* So are the repetitions of a profile.
LEMMA RepeatedMatches ==
    ASSUME NEW c, TypedCatalog(c), Filed(c), NEW cuda, NEW profile \in STRING,
           NEW vram \in U64, NEW count \in Int,
           Compose(c, cuda, Repeated(profile, count, vram)) # Rejected
    PROVE  Matches(Compose(c, cuda, Repeated(profile, count, vram)),
                   Repeated(profile, count, vram))
<1>1. PICK asked \in Seq(DeviceType) : asked = Repeated(profile, count, vram)
  BY RepeatedType
<1> QED
  BY <1>1, ComposeAsAsked DEF Matches

\* How many devices of a profile are asked for.
NamedCount ==
    IF Named.count = 0 /\ command.name = "scenario render" THEN 1 ELSE Named.count

\* The three ways to ask.
LEMMA AskedIs ==
    /\ Named.topology # Unset =>
         Asked = IF Named.topology \in DOMAIN Catalog(command.files).topologies
                   THEN Catalog(command.files).topologies[Named.topology].devices
                   ELSE <<>>
    /\ Named.topology = Unset /\ Named.profile # Unset =>
         Asked = Repeated(Named.profile, NamedCount, Named.vram)
    /\ Named.topology = Unset /\ Named.profile = Unset => Asked = <<>>
BY DEF Asked, NamedCount

\* A command that is accepted composes what it names.
LEMMA ComposedIs ==
    ASSUME command \in CommandType, ~ Runs, Composed # Rejected
    PROVE  \E cuda :
             /\ Named.topology # Unset =>
                  Composed = ComposeTopology(Catalog(command.files), cuda, Named.topology)
             /\ Named.topology = Unset /\ Named.profile # Unset =>
                  Composed = Compose(Catalog(command.files), cuda,
                               Repeated(Named.profile, NamedCount, Named.vram))
<1>0. command.name \in {"scenario render", "render", "up", "kubernetes"}
  BY DEF CommandType, Runs
<1>1. PICK c : c = Catalog(command.files)
  OBVIOUS
<1>2. CASE command.name = "scenario render"
  <2>1. Composed = RenderBase(c, doc)
    BY <1>1, <1>2 DEF Composed
  <2>2. doc.base # <<>>
    BY <2>1 DEF RenderBase
  <2>3. Named = doc.base[1]
    BY <1>2, <2>2 DEF Named
  <2>4. NamedCount = IF doc.base[1].count = 0 THEN 1 ELSE doc.base[1].count
    BY <1>2, <2>3 DEF NamedCount
  <2>5. Validate(doc)
    BY <2>1 DEF RenderBase
  <2> QED
    BY <1>1, <2>1, <2>2, <2>3, <2>4, <2>5 DEF RenderBase
<1>3. CASE command.name # "scenario render"
  <2>1. PICK flags : flags = command.flags /\ Named = flags
    BY <1>3 DEF Named
  <2>2. NamedCount = flags.count
    BY <1>3, <2>1 DEF NamedCount
  <2>3. CASE command.name = "render"
    <3>1. Composed = RunRender(c, flags)
      BY <1>1, <2>1, <2>3 DEF Composed
    <3>2. PICK chosen :
            chosen = {s \in {"profile", "topology"} : flags[s] # Unset}
                       \cup {s \in {"raw", "spec"} : flags[s] # <<>>}
      OBVIOUS
    <3>3. /\ flags.topology # Unset => "topology" \in chosen
          /\ flags.profile # Unset => "profile" \in chosen
      BY <3>2
    <3>4. CASE flags.topology # Unset
      <4>1. chosen \notin {{"spec"}, {"profile"}, {"raw"}}
        BY <3>3, <3>4
      <4>2. Composed = ComposeTopology(c, flags.cuda, flags.topology)
        BY <3>1, <3>2, <4>1 DEF RunRender
      <4> QED
        BY <1>1, <2>1, <3>4, <4>2
    <3>5. CASE flags.topology = Unset /\ flags.profile # Unset
      <4>1. chosen \notin {{"spec"}, {"topology"}, {"raw"}}
        BY <3>3, <3>5
      <4>2. Composed = Compose(c, flags.cuda,
                         Repeated(flags.profile, flags.count, flags.vram))
        BY <3>1, <3>2, <4>1 DEF RunRender
      <4> QED
        BY <1>1, <2>1, <2>2, <3>5, <4>2
    <3>6. CASE flags.topology = Unset /\ flags.profile = Unset
      BY <2>1, <3>6
    <3> QED
      BY <3>4, <3>5, <3>6
  <2>4. CASE command.name \in {"up", "kubernetes"}
    <3>1. Composed = RunUp(c, flags)
      BY <1>1, <2>1, <2>4, KubernetesIsUp DEF Composed
    <3>2. CASE flags.profile # Unset
      <4>1. flags.topology = Unset
        BY <3>1, <3>2 DEF RunUp
      <4>2. Composed = Compose(c, flags.cuda,
                         Repeated(flags.profile, flags.count, flags.vram))
        BY <3>1, <3>2, <4>1 DEF RunUp
      <4> QED
        BY <1>1, <2>1, <2>2, <3>2, <4>1, <4>2
    <3>3. CASE flags.profile = Unset
      <4>1. flags.topology # Unset
        BY <3>1, <3>3 DEF RunUp
      <4>2. Composed = ComposeTopology(c, flags.cuda, flags.topology)
        BY <3>1, <3>3, <4>1 DEF RunUp
      <4> QED
        BY <1>1, <2>1, <3>3, <4>1, <4>2
    <3> QED
      BY <3>2, <3>3
  <2> QED
    BY <1>0, <1>3, <2>3, <2>4
<1> QED
  BY <1>2, <1>3

\* A catalogue files its profiles under their identifiers.
LEMMA CatalogFiled ==
    ASSUME NEW files \in FilesType
    PROVE  Filed(Catalog(files))
<1>1. files.profiles \in Seq(ProfileType)
  BY DEF FilesType
<1>2. Catalog(files).profiles = ById(files.profiles)
  BY DEF Catalog
<1>3. \A id \in DOMAIN ById(files.profiles) : ById(files.profiles)[id].id = id
  BY <1>1, ByIdType
<1> QED
  BY <1>2, <1>3 DEF Filed

\* The record that names the devices has their types.
LEMMA NamedType ==
    ASSUME command \in CommandType
    PROVE  /\ Named.profile \in STRING /\ Named.vram \in U64
           /\ NamedCount \in Int
<1>1. command.flags \in FlagsType /\ doc.base \in Seq(BaseType)
  BY DEF CommandType, DocumentType, doc
<1>2. Named.profile \in STRING /\ Named.vram \in U64 /\ Named.count \in Int
  <2>1. CASE Named = command.flags
    BY <1>1, <2>1 DEF FlagsType
  <2>2. CASE doc.base # <<>> /\ Named = doc.base[1]
    <3>1. Named \in BaseType
      BY <1>1, <2>2
    <3> QED
      BY <3>1 DEF BaseType
  <2> QED
    BY <2>1, <2>2 DEF Named
<1>3. NamedCount = 1 \/ NamedCount = Named.count
  BY DEF NamedCount
<1> QED
  BY <1>2, <1>3

\* What a command that is accepted composes is what it asks for.
LEMMA ComposedMatches ==
    ASSUME command \in CommandType, ~ Runs, Composed # Rejected, Asked # <<>>
    PROVE  Matches(Composed, Asked)
<1>1. PICK c : c = Catalog(command.files) /\ TypedCatalog(c) /\ Filed(c)
  BY CatalogTyped, CatalogFiled DEF CommandType
<1>2. PICK cuda :
        /\ Named.topology # Unset =>
             Composed = ComposeTopology(c, cuda, Named.topology)
        /\ Named.topology = Unset /\ Named.profile # Unset =>
             Composed = Compose(c, cuda,
                          Repeated(Named.profile, NamedCount, Named.vram))
  BY <1>1, ComposedIs
<1>3. CASE Named.topology # Unset
  <2>1. /\ Named.topology \in DOMAIN c.topologies
        /\ Matches(Composed, c.topologies[Named.topology].devices)
    BY <1>1, <1>2, <1>3, TopologyMatches
  <2>2. Asked = c.topologies[Named.topology].devices
    BY <1>1, <1>3, <2>1, AskedIs
  <2> QED
    BY <2>1, <2>2
<1>4. CASE Named.topology = Unset /\ Named.profile # Unset
  <2>1. Asked = Repeated(Named.profile, NamedCount, Named.vram)
    BY <1>4, AskedIs
  <2> QED
    BY <1>1, <1>2, <1>4, <2>1, NamedType, RepeatedMatches
<1> QED
  BY <1>3, <1>4, AskedIs

\* `render` gives the answer that `up` gives when it gives one.
LEMMA UpIsRender ==
    ASSUME NEW c, NEW flags \in FlagsType, RunUp(c, flags) # Rejected
    PROVE  RunUp(c, flags) =
             RunRender(c, [flags EXCEPT !.raw = <<>>, !.spec = <<>>])
<1>1. PICK same : same = [flags EXCEPT !.raw = <<>>, !.spec = <<>>]
  OBVIOUS
<1>2. /\ same.raw = <<>> /\ same.spec = <<>> /\ same.profile = flags.profile
      /\ same.topology = flags.topology /\ same.count = flags.count
      /\ same.vram = flags.vram /\ same.cuda = flags.cuda
  BY <1>1 DEF FlagsType
<1>3. PICK chosen :
        chosen = {s \in {"profile", "topology"} : same[s] # Unset}
                   \cup {s \in {"raw", "spec"} : same[s] # <<>>}
  OBVIOUS
<1>4. same["profile"] = same.profile /\ same["topology"] = same.topology
      /\ same["raw"] = same.raw /\ same["spec"] = same.spec
  OBVIOUS
<1>5. CASE flags.profile # Unset
  <2>1. flags.topology = Unset
    BY <1>5 DEF RunUp
  <2>2. chosen = {"profile"}
    BY <1>2, <1>3, <1>4, <1>5, <2>1
  <2>3. {"profile"} # {"spec"} /\ {"profile"} # {"topology"} /\ {"profile"} # {"raw"}
    OBVIOUS
  <2>4. RunRender(c, same) =
          Compose(c, flags.cuda, Repeated(flags.profile, flags.count, flags.vram))
    BY <1>2, <1>3, <2>2, <2>3 DEF RunRender
  <2> QED
    BY <1>1, <1>5, <2>1, <2>4 DEF RunUp
<1>6. CASE flags.profile = Unset
  <2>1. flags.topology # Unset
    BY <1>6 DEF RunUp
  <2>2. chosen = {"topology"}
    BY <1>2, <1>3, <1>4, <1>6, <2>1
  <2>3. {"topology"} # {"spec"} /\ {"topology"} # {"profile"} /\ {"topology"} # {"raw"}
    OBVIOUS
  <2>4. RunRender(c, same) = ComposeTopology(c, flags.cuda, flags.topology)
    BY <1>2, <1>3, <2>2, <2>3 DEF RunRender
  <2> QED
    BY <1>1, <1>6, <2>1, <2>4 DEF RunUp
<1> QED
  BY <1>5, <1>6

\* A topology that the catalogue has let in can be composed.
LEMMA LoadedComposes ==
    ASSUME NEW files \in FilesType, CatalogLoads(files), NEW c, c = Catalog(files),
           NEW id \in DOMAIN c.topologies, NEW cuda, ValidSystem(cuda),
           Len(c.topologies[id].devices) <= MaxDevices,
           \A d \in ToSet(c.topologies[id].devices) :
              TotalMiB(c.profiles[d.profile], d) <= MaxMiB
    PROVE  ComposeTopology(c, cuda, id) # Rejected
<1>1. /\ c.profiles = ById(files.profiles) /\ c.topologies = ById(files.topologies)
      /\ TypedCatalog(c)
      /\ files.profiles \in Seq(ProfileType)
      /\ files.topologies \in Seq(TopologyType)
  BY CatalogTyped DEF Catalog, FilesType
<1>2. PICK t \in TopologyType : t = c.topologies[id] /\ ValidTopology(c.profiles, t)
  <2>1. c.topologies[id] \in ToSet(files.topologies) /\ c.topologies[id] \in TopologyType
    BY <1>1, ByIdType
  <2> QED
    BY <1>1, <2>1 DEF CatalogLoads
<1>3. PICK devices \in Seq([profile : STRING, vram : U64, used : U64, util : Nat]) :
        devices = t.devices
  BY DEF TopologyType
<1>4. DOMAIN devices = 1 .. Len(devices) /\ Len(devices) \in Nat /\ Len(devices) # 0
      /\ Len(devices) <= MaxDevices
  BY <1>2, <1>3, LenProperties, EmptySeq DEF ValidTopology
<1>5. PICK asked : asked = Requests(devices)
  OBVIOUS
<1>6. /\ asked \in Seq(DeviceType) /\ DOMAIN asked = DOMAIN devices
      /\ Len(asked) = Len(devices)
      /\ \A k \in DOMAIN devices :
            /\ asked[k].profile = devices[k].profile
            /\ asked[k].vram = devices[k].vram /\ asked[k].used = devices[k].used
            /\ asked[k].util = devices[k].util
            /\ asked[k].temperature = <<>> /\ asked[k].processes = <<>>
            /\ asked[k].failure = <<>>
  BY <1>5, RequestsType
<1>7. ASSUME NEW k \in DOMAIN devices
      PROVE  /\ asked[k].profile \in DOMAIN c.profiles
             /\ CanComposeDevice(c.profiles[asked[k].profile], asked[k])
  <2>1. devices[k] \in ToSet(devices)
    BY DEF ToSet
  <2>2. /\ devices[k].profile \in DOMAIN c.profiles
        /\ devices[k].util <= 100
    BY <1>2, <1>3, <2>1 DEF ValidTopology
  <2>3. PICK p \in ProfileType : p = c.profiles[devices[k].profile] /\ ValidProfile(p)
    <3>1. /\ c.profiles[devices[k].profile] \in ToSet(files.profiles)
          /\ c.profiles[devices[k].profile] \in ProfileType
      BY <1>1, <2>2, ByIdType
    <3> QED
      BY <3>1 DEF CatalogLoads
  <2>4. PICK m : m = TotalMiB(p, devices[k])
    OBVIOUS
  <2>5. m > p.reserved /\ devices[k].used <= m - p.reserved /\ m <= MaxMiB
    BY <1>2, <1>3, <2>1, <2>3, <2>4 DEF ValidTopology
  <2>6. m = TotalMiB(p, asked[k])
    BY <1>6, <2>4 DEF TotalMiB
  <2>7. /\ p.reserved \in Nat /\ devices[k].used \in Nat /\ m \in Nat
        /\ MaxMiB \in Int
    <3>1. devices[k] \in [profile : STRING, vram : U64, used : U64, util : Nat]
      BY <1>4, ElementOfSeq
    <3>2. devices[k].used \in Nat /\ devices[k].vram \in Nat
      BY <3>1, ComposerAssumption DEF U64
    <3>3. p.reserved \in Nat /\ p.total \in Nat
      BY ComposerAssumption DEF ProfileType, U64
    <3>4. MaxMiB \in Int
      BY ComposerAssumption DEF MaxMiB
    <3> QED
      BY <2>4, <3>2, <3>3, <3>4 DEF TotalMiB
  <2>8. p.reserved <= MaxMiB /\ devices[k].used <= MaxMiB
    BY <2>5, <2>7
  <2>9. RowsFit(asked[k]) /\ ToSet(asked[k].processes) = {}
        /\ ToSet(asked[k].failure) = {}
    BY <1>6 DEF RowsFit, ToSet
  <2>10. Temperature(p, asked[k]) \in 0 .. 200
    BY <1>6, <2>3 DEF Temperature, ValidProfile
  <2>11. CanComposeDevice(p, asked[k])
    BY <1>6, <2>2, <2>5, <2>6, <2>8, <2>9, <2>10 DEF CanComposeDevice
  <2> QED
    BY <1>6, <2>2, <2>3, <2>11
<1>8. \A d \in ToSet(asked) :
         d.profile \in DOMAIN c.profiles /\ CanComposeDevice(c.profiles[d.profile], d)
  BY <1>6, <1>7 DEF ToSet
<1>9. Len(asked) \in 1 .. MaxDevices
  BY <1>4, <1>6, ComposerAssumption
<1>10. PICK r : r = Compose(c, cuda, asked)
  OBVIOUS
<1>11. DOMAIN r = DOMAIN asked
  BY <1>8, <1>9, <1>10 DEF Compose
<1>12. 1 \in DOMAIN r
  BY <1>4, <1>6, <1>11
<1>13. r # Rejected
  BY <1>12 DEF Rejected
<1> QED
  BY <1>2, <1>3, <1>5, <1>10, <1>13, TopologyRequests

\* Whatever a command names, in whichever way, it is answered with those devices
\* or not at all; `up` and `kubernetes` answer as `render` does; and a topology
\* that LoadCatalog has let in is refused only for what is named in the property.
THEOREM CommandsAlwaysAgree == Spec => []CommandsAgree
<1>1. RenderInv => CommandsAgree
  <2> SUFFICES ASSUME RenderInv, pc = "done", ~ Runs, Loads
               PROVE  CommandsAgree
    BY DEF CommandsAgree, Loads
  <2>1. PICK c : c = Catalog(command.files)
    OBVIOUS
  <2>2. PICK ask : ask = command.flags
    OBVIOUS
  <2>3. PICK same : same = [ask EXCEPT !.raw = <<>>, !.spec = <<>>]
    OBVIOUS
  <2>4. /\ command \in CommandType /\ ask \in FlagsType
        /\ command.files \in FilesType /\ CatalogLoads(command.files)
    BY <2>2 DEF RenderInv, CommandType, Loads
  <2>5. rendered # Rejected => rendered = Composed
    BY DEF RenderInv
  <2>6. ASSUME rendered # Rejected, Asked # <<>>
        PROVE  /\ Len(rendered) = Len(Asked)
               /\ \A k \in DOMAIN rendered :
                     /\ rendered[k].profile = Asked[k].profile
                     /\ Asked[k].vram # 0 =>
                          rendered[k].total = Asked[k].vram * MiB
                     /\ rendered[k].used = Asked[k].used * MiB
    <3>1. Matches(rendered, Asked)
      BY <2>4, <2>5, <2>6, ComposedMatches
    <3> QED
      BY <3>1 DEF Matches, AsAsked
  <2>7. ASSUME command.name \in {"up", "kubernetes"}
        PROVE  /\ ask.manifest => Composed = RunUp(c, ask)
               /\ Composed # Rejected => Composed = RunUp(c, ask)
    <3>1. CASE command.name = "up"
      BY <2>1, <2>2, <3>1 DEF Composed
    <3>2. CASE command.name = "kubernetes"
      BY <2>1, <2>2, <3>2, KubernetesIsUp DEF Composed
    <3> QED
      BY <2>7, <3>1, <3>2
  <2>8. ASSUME command.name \in {"up", "kubernetes"}, rendered # Rejected
        PROVE  rendered = RunRender(c, same)
    <3>1. rendered = RunUp(c, ask) /\ RunUp(c, ask) # Rejected
      BY <2>5, <2>7, <2>8
    <3> QED
      BY <2>3, <2>4, <3>1, UpIsRender
  <2>9. ASSUME command.name \in {"up", "kubernetes"}, ask.manifest,
               ask.profile = Unset, ask.topology \in DOMAIN c.topologies,
               ask.count = 1, ask.vram = 0, Len(Asked) <= MaxDevices,
               \A d \in ToSet(Asked) :
                  TotalMiB(c.profiles[d.profile], d) <= MaxMiB,
               ValidSystem(ask.cuda)
        PROVE  rendered # Rejected
    <3>1. ask.topology # Unset
      <4>1. /\ c.topologies = ById(command.files.topologies)
            /\ c.profiles = ById(command.files.profiles)
            /\ command.files.topologies \in Seq(TopologyType)
        BY <2>1, <2>4 DEF Catalog, FilesType
      <4>2. /\ c.topologies[ask.topology].id = ask.topology
            /\ c.topologies[ask.topology] \in ToSet(command.files.topologies)
        BY <2>9, <4>1, ByIdType
      <4>3. c.topologies[ask.topology].id # Unset
        BY <2>4, <4>2 DEF CatalogLoads, ValidTopology
      <4> QED
        BY <4>2, <4>3
    <3>2. Named = ask
      BY <2>2, <2>9 DEF Named
    <3>3. Asked = c.topologies[ask.topology].devices
      BY <2>1, <2>9, <3>1, <3>2, AskedIs
    <3>4. ComposeTopology(c, ask.cuda, ask.topology) # Rejected
      BY <2>1, <2>4, <2>9, <3>3, LoadedComposes
    <3>5. Composed = ComposeTopology(c, ask.cuda, ask.topology)
      BY <2>7, <2>9, <3>1 DEF RunUp
    <3>6. rendered = Composed
      BY <2>9 DEF RenderInv
    <3> QED
      BY <3>4, <3>5, <3>6
  <2> QED
    BY <2>1, <2>2, <2>3, <2>6, <2>8, <2>9 DEF CommandsAgree
<1> QED
  BY <1>1, RenderInvHolds, PTL
=============================================================================
