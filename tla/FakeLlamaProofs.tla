--------------------------- MODULE FakeLlamaProofs ---------------------------
(***************************************************************************)
(* Proofs about fake-llama-server (FakeLlama), for any number of servers,  *)
(* GPUs, targets, signals, streams and faults.                              *)
(*                                                                          *)
(* LlamaInv is the invariant of types and sizes: where a server is, what    *)
(* its registry call has reached, and that every device fits.  RowsInv says *)
(* which rows are there: none before Register, those of the targets passed *)
(* during it, all of them until the release, and those of the targets that *)
(* are left during it.  UndoInv says that the rollback of a Register takes  *)
(* them back, ShareInv that each row has the share of its target.  Each     *)
(* holds initially and is kept by every step; the theorems follow from      *)
(* them.                                                                    *)
(***************************************************************************)
EXTENDS FakeLlama, GpuStateProofs, SumProofs

-----------------------------------------------------------------------------
(* Types. *)

\* Where main is: the phases of main, Run and its cleanup.
Places ==
    {"main", "gate", "start", "register", "loading", "serving", "resize",
     "cleanup", "draining", "release", "retry", "exited", "abandoned"}

\* What Run returns, or what ended main before Run.
Errors ==
    {"none", "usage", "startup", "oom", "register", "serve", "growth", "crash"}

\* The configurations that some command line of some server parses to.
Configs == UNION { { ParseCommand(c).cfg : c \in Commands[s] } : s \in Server }

\* One server process.
Process ==
    [pc : Places, cfg : Configs, err : Errors, cancelled : BOOLEAN,
     expired : BOOLEAN, ready : BOOLEAN, registered : BOOLEAN,
     releaseMu : {"none", "main", "signal"}, grown : BOOLEAN,
     streams : 0 .. MaxStreams, sig : {"waiting", "release", "stopped"},
     pending : 0 .. SignalBuffer]

\* What apply remembers of a row, for the rollback (priorProcess).
PriorRow == [existed : BOOLEAN, mib : U64, util : U64]

\* A call of a registry method: which loop it is in, at which target, with
\* which snapshot.
Call ==
    [kind : {"none", "apply", "rollback", "release"},
     step : {"none", "snapshot", "replace", "end", "done"},
     i : Nat, before : Device, applied : Seq(PriorRow),
     error : {"none", "error", "oom"}]

-----------------------------------------------------------------------------
(* Control. *)

\* Before Register.
Before == {"main", "gate", "start"}

\* Register and Resize run apply.
Applying == {"register", "resize"}

\* Target i of s is a GPU of this machine.
Found(s, i) == \E g \in GPU : Targets(s)[i] \in GpuNames[g]

\* Every target of s is one.
AllFound(s) == \A i \in DOMAIN Targets(s) : Found(s, i)

\* currentBytes is a uint64.
Sized(s) ==
    /\ CanRequire(srv[s].cfg)
    /\ srv[s].grown => AddFits(RequiredVRAMBytes(srv[s].cfg), srv[s].cfg.growth)

\* What is known of server s wherever it is: it has targets once its command
\* line has been accepted, its size fits once it has been worked out,
\* registered and ready say where it can be, and a failed Register ends the
\* run.
ProcessOK(s) ==
    LET p == srv[s]
    IN  /\ p.pc = "main" /\ p.err # "usage" => Targets(s) # <<>>
        /\ p.pc \notin {"main", "exited"} => Targets(s) # <<>>
        /\ p.pc \in Before \cup Applying \cup {"loading"} => ~ p.grown \/ p.pc = "resize"
        /\ p.pc \in Applying \cup {"loading", "serving"} \/ p.registered => Sized(s)
        /\ p.registered => p.pc \notin Before \cup {"register"}
        /\ p.registered => Targets(s) # <<>> /\ AllFound(s)
        /\ p.ready => p.pc \in {"serving", "resize", "cleanup"}
        /\ p.streams > 0 => p.pc \in {"serving", "resize", "cleanup", "draining"}
        /\ p.sig = "release" => p.cfg.hangShutdown
        /\ p.err \in {"oom", "register"} =>
              ~ p.registered /\ p.pc \notin Before \cup Applying \cup {"loading", "serving"}

\* Registry call c of goroutine t goes with where its process is.
ApplyOK(t) ==
    LET c == call[t]
        s == Pid(t)
    IN  /\ t[2] = "main"
        /\ srv[s].pc \in Applying
        /\ c.i \in 1 .. Len(Targets(s))
        /\ Len(c.applied) = c.i - 1
        /\ c.step \in {"snapshot", "replace"}
        /\ \A j \in 1 .. c.i - 1 : Found(s, j)
        /\ c.step = "replace" => Found(s, c.i) /\ ~ Overflows(t)

\* The rollback is at one of the targets that apply has changed.
RollbackOK(t) ==
    LET c == call[t]
        s == Pid(t)
    IN  /\ t[2] = "main"
        /\ srv[s].pc \in Applying
        /\ c.i \in 1 .. Len(c.applied)
        /\ Len(c.applied) \in 1 .. Len(Targets(s))
        /\ c.step \in {"snapshot", "replace"}
        /\ c.error # "none"
        /\ \A j \in 1 .. Len(c.applied) : Found(s, j)

\* A release holds releaseMu and works on a registered server.
ReleaseOK(t) ==
    LET c == call[t]
        s == Pid(t)
    IN  /\ WantsRelease(t)
        /\ srv[s].registered
        /\ srv[s].releaseMu = t[2]
        /\ \/ c.i \in 1 .. Len(Targets(s)) /\ c.step \in {"snapshot", "replace"}
           \/ c.i = Len(Targets(s)) + 1 /\ c.step = "end"
        /\ c.step = "replace" => s \in DOMAIN c.before.mem
        /\ c.error # "oom"

\* Between calls: what the last call came to is still known.
NoneOK(t) ==
    LET c == call[t]
        s == Pid(t)
    IN  /\ c.step \in {"none", "done"}
        /\ c.i = 0
        /\ c.step = "none" => ~ (t[2] = "main" /\ srv[s].pc \in Applying)
        /\ c.step = "done" =>
              \/ WantsRelease(t)
              \/ t[2] = "main" /\ srv[s].pc \in Applying
        /\ c.step = "done" /\ t[2] = "main" /\ srv[s].pc = "register"
             /\ c.error = "none" => AllFound(s)
        /\ c.step = "done" /\ t[2] = "main" /\ srv[s].pc = "release"
             /\ c.error = "none" => ~ srv[s].registered

\* What is known of the call of goroutine t.
CallOK(t) ==
    /\ SamePIDs(call[t].before)
    /\ call[t].kind = "none" => NoneOK(t)
    /\ call[t].kind = "apply" => ApplyOK(t)
    /\ call[t].kind = "rollback" => RollbackOK(t)
    /\ call[t].kind = "release" => ReleaseOK(t)

\* Every device fits its GPU and covers its rows.
DevicesOK ==
    /\ dev \in [GPU -> Device]
    /\ \A g \in GPU : Fits(dev[g], g) /\ Covered(dev[g]) /\ SamePIDs(dev[g])

\* The inductive invariant of types and sizes.
LlamaInv ==
    /\ DevicesOK
    /\ lost \subseteq Losable
    /\ faults \in 0 .. MaxFaults
    /\ faults = 0 => lost = {}
    /\ srv \in [Server -> Process]
    /\ call \in [Goroutine -> Call]
    /\ \A s \in Server : ProcessOK(s)
    /\ \A t \in Goroutine : CallOK(t)

-----------------------------------------------------------------------------
(* The rows of the servers. *)

\* GPU g is one of the targets first .. last of server s.
Among(s, g, first, last) ==
    \E i \in DOMAIN Targets(s) : first <= i /\ i <= last /\ Targets(s)[i] \in GpuNames[g]

\* The rows of s are on its targets first .. last only.
RowsWithin(s, first, last) ==
    \A g \in GPU : HasRow(s, g) => Among(s, g, first, last)

\* Each of the targets 1 .. last of s has its row.
Backed(s, last) ==
    \A g \in GPU : Among(s, g, 1, last) => HasRow(s, g)

\* While s releases, nobody adds rows for it: there is no growth that a release
\* by the signal goroutine could run beside.
Alone(s) == ~ srv[s].cfg.hangShutdown \/ ~ srv[s].grown

\* The errors of a Register that failed.
FailedErrors == {"oom", "register"}

\* Register adds the rows in the order of the targets, and finds none there that
\* it has not added.
RegisterRows(s) ==
    LET c == call[Main(s)]
    IN  srv[s].pc = "register" =>
        /\ c.kind = "apply" => Backed(s, c.i - 1)
        /\ c.kind = "apply" /\ c.step = "replace" /\ s \in DOMAIN c.before.mem =>
              \A g \in GPU : Targets(s)[c.i] \in GpuNames[g] => HasRow(s, g)
        /\ c.step = "done" /\ c.error = "none" => Backed(s, Len(Targets(s)))

\* Resize finds every row, so that its rollback takes none away.
ResizeRows(s) ==
    LET c == call[Main(s)]
    IN  /\ srv[s].pc = "resize" => srv[s].grown
        /\ srv[s].pc = "resize" /\ ~ srv[s].cfg.hangShutdown
             /\ c.kind \in {"apply", "rollback"} =>
                  /\ \A j \in DOMAIN c.applied : c.applied[j].existed
                  /\ c.kind = "apply" /\ c.step = "replace" => s \in DOMAIN c.before.mem

\* From Register to the release the rows are there.
ServingRows(s) ==
    ~ srv[s].cfg.hangShutdown =>
        /\ srv[s].pc \in {"loading", "serving", "resize"} => srv[s].registered
        /\ srv[s].streams > 0 \/ srv[s].ready => srv[s].registered
        /\ srv[s].registered
             /\ srv[s].pc \in {"loading", "serving", "resize", "cleanup", "draining"} =>
                  Backed(s, Len(Targets(s)))

\* The release has removed the rows of the targets it has passed without error.
ReleaseRows(s) ==
    \A t \in {Main(s), Signal(s)} :
        call[t].kind = "release" /\ call[t].error = "none" /\ Alone(s) =>
            RowsWithin(s, call[t].i, Len(Targets(s)))

\* There is no row before Register and after a release.
GoneRows(s) ==
    /\ srv[s].pc \in Before => NoRowOf(s)
    /\ /\ Alone(s) /\ ~ srv[s].registered /\ srv[s].err \notin FailedErrors
       /\ srv[s].pc \notin {"register", "exited"}
       => NoRowOf(s)
    /\ /\ ~ srv[s].cfg.hangShutdown /\ srv[s].err \notin FailedErrors
       /\ srv[s].pc = "exited"
       => NoRowOf(s)

\* What is known of the rows of server s.
RowsOK(s) ==
    /\ RowsWithin(s, 1, Len(Targets(s)))
    /\ RegisterRows(s)
    /\ ResizeRows(s)
    /\ ServingRows(s)
    /\ ReleaseRows(s)
    /\ GoneRows(s)

\* The row of s at its target is still as main saw it.
OwnRowFresh(s) ==
    LET c == call[Main(s)]
    IN  \A g \in GPU : Targets(s)[c.i] \in GpuNames[g] =>
            /\ HasRow(s, g) <=> s \in DOMAIN c.before.mem
            /\ HasRow(s, g) => SameRow(dev[g], c.before, s)

\* A row was there before only if an earlier target is the same GPU.
PriorsKnown(s, priors) ==
    \A j \in DOMAIN priors :
        priors[j].existed =>
            \A g \in GPU : Targets(s)[j] \in GpuNames[g] => Among(s, g, 1, j - 1)

\* Neither SIGTERM nor a failing command has been in the way.
Undisturbed(s) == ~ srv[s].cancelled /\ faults = 0

\* What Register has added so far is on the targets before the current one, and
\* the rollback of one that nothing disturbs takes them back, last one first.
UndoCall(s) ==
    LET c == call[Main(s)]
    IN  srv[s].pc = "register" =>
          /\ c.kind = "apply" => RowsWithin(s, 1, c.i - 1)
          /\ c.kind \in {"apply", "rollback"} =>
                /\ PriorsKnown(s, c.applied)
                /\ c.step = "replace" => OwnRowFresh(s)
          /\ c.kind = "rollback" /\ Undisturbed(s) => RowsWithin(s, 1, c.i)
          /\ c.step = "done" /\ c.error # "none" /\ Undisturbed(s) => NoRowOf(s)

\* A Register that failed without being disturbed has left no row.
UndoOK(s) ==
    /\ UndoCall(s)
    /\ srv[s].err \in FailedErrors /\ Undisturbed(s) => NoRowOf(s)

\* The inductive invariant of the rows, beside LlamaInv.
RowsInv == \A s \in Server : RowsOK(s)

\* The inductive invariant of the rollback, beside both.
UndoInv == \A s \in Server : UndoOK(s)

-----------------------------------------------------------------------------
(* Sizes. *)

\* Division rounds down.
LEMMA FloorAtMost ==
    ASSUME NEW m \in Nat, NEW W \in Nat \ {0}
    PROVE  m \div W \in Nat /\ W * (m \div W) <= m
<1>1. m \div W \in Nat
  OBVIOUS
<1>2. (m \div W) * W <= m
  OBVIOUS
<1>3. W * (m \div W) = (m \div W) * W
  BY <1>1
<1> QED
  BY <1>1, <1>2, <1>3

\* Shares that are rounded down add up to at most the whole.
LEMMA FloorsSum ==
    ASSUME NEW S, IsFiniteSet(S), NEW w \in [S -> Nat], NEW R \in Nat,
           NEW W \in Nat \ {0}
    PROVE  W * SumFunctionOnSet([x \in S |-> (R * w[x]) \div W], S)
              <= R * SumFunctionOnSet(w, S)
<1> DEFINE q == [x \in S |-> (R * w[x]) \div W]
           Bad == { s \in SUBSET S :
                      ~ (W * SumFunctionOnSet(q, s) <= R * SumFunctionOnSet(w, s)) }
<1>0. ASSUME NEW x \in S PROVE q[x] \in Nat /\ W * q[x] <= R * w[x]
  <2>1. w[x] \in Nat /\ q[x] = (R * w[x]) \div W
    OBVIOUS
  <2> DEFINE m == R * w[x]
  <2>2. m \in Nat
    BY <2>1
  <2> HIDE DEF m
  <2>3. m \div W \in Nat /\ W * (m \div W) <= m
    BY <2>2, FloorAtMost
  <2> QED
    BY <2>1, <2>3 DEF m
<1> HIDE DEF q
<1> SUFFICES ASSUME S \in Bad PROVE FALSE
  BY DEF q
<1>1. PICK s \in Bad : \A y \in Bad : y \subseteq s => y = s
  <2>1. Bad \subseteq SUBSET S /\ Bad # {}
    OBVIOUS
  <2> HIDE DEF Bad
  <2> QED
    BY <2>1, SmallestSubset
<1>2. s # {}
  <2>1. SumFunctionOnSet(q, {}) = 0 /\ SumFunctionOnSet(w, {}) = 0
    BY SumEmpty
  <2>2. W * 0 <= R * 0
    OBVIOUS
  <2> QED
    BY <1>1, <2>1, <2>2
<1>3. PICK e : e \in s
  BY <1>2
<1> DEFINE r == s \ {e}
<1>4. r \subseteq S /\ r \subseteq s /\ r # s /\ s \subseteq S /\ e \in S
  BY <1>1, <1>3
<1>5. W * SumFunctionOnSet(q, r) <= R * SumFunctionOnSet(w, r)
  BY <1>1, <1>4
<1>6. IsFiniteSet(s) /\ IsFiniteSet(r)
  BY <1>4, FS_Subset
<1>7. \A x \in s : q[x] \in Nat /\ w[x] \in Nat
  BY <1>0, <1>4
<1>8. /\ SumFunctionOnSet(q, s) = q[e] + SumFunctionOnSet(q, r)
      /\ SumFunctionOnSet(w, s) = w[e] + SumFunctionOnSet(w, r)
  BY <1>3, <1>6, <1>7, SumRemove
<1>9. SumFunctionOnSet(q, r) \in Nat /\ SumFunctionOnSet(w, r) \in Nat
  BY <1>4, <1>6, <1>7, SumNat
<1>10. W * (q[e] + SumFunctionOnSet(q, r)) <= R * (w[e] + SumFunctionOnSet(w, r))
  <2> DEFINE a == SumFunctionOnSet(q, r)
             b == SumFunctionOnSet(w, r)
             c == q[e]
             d == w[e]
  <2>1. a \in Nat /\ b \in Nat /\ c \in Nat /\ d \in Nat
    BY <1>9, <1>0, <1>4
  <2>2. W * a <= R * b /\ W * c <= R * d
    BY <1>5, <1>0, <1>4
  <2> HIDE DEF a, b, c, d
  <2>3. W * (c + a) = W * c + W * a /\ R * (d + b) = R * d + R * b
    BY <2>1
  <2>4. W * c \in Nat /\ W * a \in Nat /\ R * d \in Nat /\ R * b \in Nat
    BY <2>1
  <2>5. W * (c + a) <= R * (d + b)
    BY <2>2, <2>3, <2>4
  <2> QED
    BY <2>5 DEF a, b, c, d
<1> QED
  BY <1>1, <1>8, <1>10

\* The last share is what is left, and never negative (splitProcessMiB).
LEMMA SplitNat ==
    ASSUME NEW cfg, WellFormed(cfg), NEW bytes \in Nat, NEW i \in 1 .. Len(cfg.targets)
    PROVE  SplitProcessMiB(bytes, cfg)[i] \in Nat
<1> DEFINE n == Len(cfg.targets)
           weights == [j \in 1 .. n |-> Weight(cfg, cfg.targets[j])]
           R == RoundUp(bytes)
           W == SumFunctionOnSet(weights, 1 .. n)
           shares == [j \in 1 .. n - 1 |-> (R * weights[j]) \div W]
           w == [j \in 1 .. n - 1 |-> weights[j]]
<1>1. n \in Nat /\ i \in Nat /\ 1 <= i /\ i <= n
  BY DEF WellFormed
<1>2. R \in Nat
  BY UnitAssumption DEF RoundUp
<1>3. \A x : Weight(cfg, x) \in Nat \ {0}
  BY DEF Weight, WellFormed
<1> HIDE DEF R, n
<1>4. weights \in [1 .. n -> Nat] /\ \A j \in 1 .. n : weights[j] \in Nat \ {0}
  BY <1>3
<1>5. IsFiniteSet(1 .. n) /\ IsFiniteSet(1 .. n - 1)
  BY <1>1, FS_Interval
<1>6. W = SumFunctionOnSet(weights, 1 .. n)
  OBVIOUS
<1>7. DOMAIN shares = 1 .. n - 1
  OBVIOUS
<1>8. (1 .. n) \ {n} = 1 .. n - 1 /\ n \in 1 .. n
  BY <1>1
<1>9. W = weights[n] + SumFunctionOnSet(weights, 1 .. n - 1)
  <2>1. \A j \in 1 .. n : weights[j] \in Int
    BY <1>4
  <2> HIDE DEF weights, W
  <2>2. SumFunctionOnSet(weights, 1 .. n)
          = weights[n] + SumFunctionOnSet(weights, (1 .. n) \ {n})
    BY <2>1, <1>5, <1>8, SumRemove
  <2> QED
    BY <2>2, <1>6, <1>8
<1>10. SumFunctionOnSet(weights, 1 .. n - 1) = SumFunctionOnSet(w, 1 .. n - 1)
  <2>1. \A j \in 1 .. n - 1 : weights[j] = w[j]
    OBVIOUS
  <2> HIDE DEF weights, w
  <2> QED
    BY <2>1, <1>5, SumAgree
<1>11. w \in [1 .. n - 1 -> Nat]
  BY <1>4, <1>1
<1>12. SumFunctionOnSet(w, 1 .. n - 1) \in Nat
  <2> HIDE DEF w
  <2> QED
    BY <1>5, <1>11, SumNat
<1>13. W \in Nat \ {0} /\ SumFunctionOnSet(w, 1 .. n - 1) <= W
  BY <1>4, <1>8, <1>9, <1>10, <1>12
<1> DEFINE q == [x \in 1 .. n - 1 |-> (R * w[x]) \div W]
<1>14. shares = q
  OBVIOUS
<1>15. W * SumFunctionOnSet(shares, 1 .. n - 1) <= R * SumFunctionOnSet(w, 1 .. n - 1)
  <2> HIDE DEF w, W, shares
  <2>1. W * SumFunctionOnSet(q, 1 .. n - 1) <= R * SumFunctionOnSet(w, 1 .. n - 1)
    BY <1>2, <1>5, <1>11, <1>13, FloorsSum
  <2> QED
    BY <2>1, <1>14
<1>16. \A j \in 1 .. n - 1 : shares[j] \in Nat
  <2> SUFFICES ASSUME NEW j \in 1 .. n - 1 PROVE (R * weights[j]) \div W \in Nat
    OBVIOUS
  <2>1. weights[j] \in Nat
    BY <1>4, <1>1
  <2> DEFINE m == R * weights[j]
  <2>2. m \in Nat
    BY <2>1, <1>2
  <2> HIDE DEF m, W, weights
  <2> QED
    BY <2>2, <1>13 DEF m
<1>17. SumFunctionOnSet(shares, 1 .. n - 1) \in Nat
  <2> HIDE DEF shares
  <2> QED
    BY <1>5, <1>16, SumNat
<1>18. /\ SumFunctionOnSet(shares, 1 .. n - 1) \in Nat
       /\ SumFunctionOnSet(shares, 1 .. n - 1) <= R
  <2> DEFINE a == SumFunctionOnSet(shares, 1 .. n - 1)
             b == SumFunctionOnSet(w, 1 .. n - 1)
  <2>1. a \in Nat /\ b \in Nat /\ W \in Nat \ {0} /\ b <= W /\ W * a <= R * b
    BY <1>12, <1>13, <1>15, <1>17
  <2> HIDE DEF a, b, W, shares
  <2>3. R * b <= R * W
    BY <2>1, <1>2
  <2>4. W * a <= W * R
    BY <2>1, <2>3, <1>2
  <2>5. a <= R
    BY <2>1, <2>4, <1>2
  <2> QED
    BY <2>1, <2>5 DEF a
<1>19. SplitProcessMiB(bytes, cfg) =
         [j \in 1 .. n |-> IF j < n THEN shares[j]
                         ELSE R - SumFunctionOnSet(shares, 1 .. n - 1)]
  BY DEF SplitProcessMiB, n, R
<1> HIDE DEF shares
<1> QED
  BY <1>1, <1>2, <1>16, <1>18, <1>19

-----------------------------------------------------------------------------
(* Configurations and targets. *)

\* The configuration of a process is one the parser made.
LEMMA ConfigFields == ASSUME NEW cfg \in Configs PROVE WellFormed(cfg)
BY CommandsAssumption DEF Configs

\* The targets of a server are words in a sequence.
LEMMA TargetFields ==
    ASSUME srv \in [Server -> Process], NEW s \in Server
    PROVE  /\ srv[s].cfg \in Configs
           /\ WellFormed(srv[s].cfg)
           /\ Targets(s) \in Seq(STRING)
           /\ Len(Targets(s)) \in Nat
           /\ DOMAIN Targets(s) = 1 .. Len(Targets(s))
<1>1. srv[s].cfg \in Configs
  BY DEF Process
<1>2. WellFormed(srv[s].cfg)
  BY <1>1, ConfigFields
<1> QED
  BY <1>1, <1>2 DEF Targets, WellFormed

\* A word that is a GPU's name is no other GPU's.
LEMMA TargetUnique ==
    ASSUME NEW g \in GPU, NEW h \in GPU, NEW w, w \in GpuNames[g], w \in GpuNames[h]
    PROVE  g = h
BY ServerAssumption

\* The GPU that a goroutine is at.
LEMMA TargetFound ==
    ASSUME NEW t, Found(Pid(t), call[t].i)
    PROVE  /\ Target(t) \in GPU
           /\ Targets(Pid(t))[call[t].i] \in GpuNames[Target(t)]
           /\ \A g \in GPU : Targets(Pid(t))[call[t].i] \in GpuNames[g] => g = Target(t)
           /\ Resolves(t)
<1>1. /\ Target(t) \in GPU
      /\ Targets(Pid(t))[call[t].i] \in GpuNames[Target(t)]
  BY DEF Found, Target, TargetWord
<1>2. ASSUME NEW g \in GPU, Targets(Pid(t))[call[t].i] \in GpuNames[g]
      PROVE  g = Target(t)
  BY <1>1, <1>2, TargetUnique
<1> QED
  BY <1>1, <1>2 DEF Found, Resolves, TargetWord

\* The bytes a server needs are a uint64.
LEMMA SizedBytes ==
    ASSUME srv \in [Server -> Process], NEW s \in Server, Sized(s)
    PROVE  Bytes(s) \in U64 /\ Bytes(s) \in Nat
<1> DEFINE cfg == srv[s].cfg
<1>1. WellFormed(cfg) /\ srv[s].grown \in BOOLEAN
  BY TargetFields DEF Process
<1>2. BaseBytes(cfg) \in Nat
  BY <1>1, CommandsAssumption DEF WellFormed, BaseBytes, Sized, CanRequire
<1>3. KVBytes(cfg) \in Nat /\ cfg.growth \in Nat
  BY <1>1 DEF WellFormed, KVBytes
<1>4. /\ KVBytes(cfg) <= MaxU64 /\ BaseBytes(cfg) <= MaxU64 - KVBytes(cfg)
      /\ srv[s].grown => cfg.growth <= MaxU64 - (BaseBytes(cfg) + KVBytes(cfg))
  BY DEF Sized, CanRequire, AddFits, RequiredVRAMBytes
<1>5. MaxU64 \in Nat
  BY UnitAssumption
<1>6. Bytes(s) = BaseBytes(cfg) + KVBytes(cfg) + IF srv[s].grown THEN cfg.growth ELSE 0
  BY DEF Bytes, RequiredVRAMBytes
<1> HIDE DEF cfg
<1> QED
  BY <1>1, <1>2, <1>3, <1>4, <1>5, <1>6 DEF U64

\* The share of a target that does not overflow is a uint64, in MiB.
LEMMA AmountU64 ==
    ASSUME srv \in [Server -> Process], NEW s \in Server, Sized(s),
           NEW i \in 1 .. Len(Targets(s))
    PROVE  /\ Amount(s, i) \in Nat
           /\ Amount(s, i) <= MaxU64 \div MiB => Amount(s, i) \in U64
<1>1. Bytes(s) \in Nat
  BY SizedBytes
<1>2. WellFormed(srv[s].cfg) /\ i \in 1 .. Len(srv[s].cfg.targets)
  BY TargetFields DEF Targets
<1>3. Amount(s, i) \in Nat
  BY <1>1, <1>2, SplitNat DEF Amount
<1>4. MaxU64 \div MiB <= MaxU64 /\ MaxU64 \div MiB \in Nat
  <2>1. MaxU64 \in Nat /\ MiB \in Nat \ {0}
    BY UnitAssumption
  <2> DEFINE q == MaxU64 \div MiB
  <2>2. q \in Nat /\ MiB * q <= MaxU64
    BY <2>1, FloorAtMost
  <2>3. MiB * q >= q
    <3> HIDE DEF q
    <3> QED
      BY <2>1, <2>2
  <2> QED
    BY <2>1, <2>2, <2>3
<1>5. MaxU64 \in Nat
  BY UnitAssumption
<1> QED
  BY <1>3, <1>4, <1>5 DEF U64

-----------------------------------------------------------------------------
(* One command of the manager. *)

\* What nvidia-smi shows of a device that fits and covers its rows does so too.
LEMMA ObservedFits ==
    ASSUME NEW g \in GPU, NEW d \in Device, Fits(d, g), Covered(d), SamePIDs(d)
    PROVE  /\ Observed(d) \in Device
           /\ Fits(Observed(d), g)
           /\ Covered(Observed(d))
           /\ SamePIDs(Observed(d))
           /\ Observed(d).mem = d.mem
           /\ Observed(d).util = d.util
<1> DEFINE u == SeenBytes(d.used)
           f == SeenBytes(d.free)
<1>1. d.used \in U64 /\ d.free \in U64 /\ d.used \in Nat /\ d.free \in Nat
  BY UnitAssumption DEF Device, U64
<1>2. u \in U64 /\ f \in U64 /\ u <= d.used /\ f <= d.free
  BY <1>1, SeenAtMost
<1>3. u \in Nat /\ f \in Nat
  BY <1>2, UnitAssumption DEF U64
<1>4. ProcessMiB(d.mem) * MiB <= u
  BY <1>1, SeenCovers DEF Covered, OwnedBytes
<1> HIDE DEF u, f
<1>5. Observed(d) = [d EXCEPT !.used = u, !.free = f]
  BY DEF Observed, u, f
<1>6. /\ Observed(d) \in Device
      /\ Observed(d).used = u /\ Observed(d).free = f
      /\ Observed(d).mem = d.mem /\ Observed(d).util = d.util
  BY <1>2, <1>5 DEF Device
<1>7. u + f + ReservedBytes(g) <= TotalBytes(g)
  BY <1>1, <1>2, <1>3, ConfigSizes DEF Fits
<1> QED
  BY <1>4, <1>6, <1>7 DEF Fits, Covered, OwnedBytes, SamePIDs

\* A table with the row of a PID put in, or taken out.
LEMMA WithPIDRows ==
    ASSUME NEW b \in Device, SamePIDs(b), NEW p \in PID, NEW mib \in U64, NEW util \in U64
    PROVE  /\ WithPID(b, p, mib, util) \in Rows
           /\ SamePIDs(WithPID(b, p, mib, util))
           /\ DOMAIN WithPID(b, p, mib, util).mem = DOMAIN b.mem \cup {p}
<1> DEFINE D == DOMAIN b.mem \cup {p}
<1>1. b.mem \in [DOMAIN b.mem -> U64] /\ b.util \in [DOMAIN b.mem -> U64]
      /\ DOMAIN b.mem \subseteq PID
  BY ColumnElim DEF Device, SamePIDs
<1>2. /\ WithPID(b, p, mib, util).mem \in [D -> U64]
      /\ WithPID(b, p, mib, util).util \in [D -> U64]
  BY <1>1 DEF WithPID
<1>3. D \in SUBSET PID
  BY <1>1
<1> HIDE DEF D
<1>4. /\ WithPID(b, p, mib, util).mem \in Column
      /\ WithPID(b, p, mib, util).util \in Column
  BY <1>2, <1>3, ColumnIntro
<1>5. WithPID(b, p, mib, util) \in Rows
  BY <1>4 DEF Rows, WithPID
<1> QED
  BY <1>2, <1>5 DEF SamePIDs, D

\* The same for a table with a row taken out.
LEMMA WithoutPIDRows ==
    ASSUME NEW b \in Device, SamePIDs(b), NEW p \in PID
    PROVE  /\ WithoutPID(b, p) \in Rows
           /\ SamePIDs(WithoutPID(b, p))
           /\ DOMAIN WithoutPID(b, p).mem = DOMAIN b.mem \ {p}
<1> DEFINE D == DOMAIN b.mem \ {p}
<1>1. b.mem \in [DOMAIN b.mem -> U64] /\ b.util \in [DOMAIN b.mem -> U64]
      /\ DOMAIN b.mem \subseteq PID
  BY ColumnElim DEF Device, SamePIDs
<1>2. /\ WithoutPID(b, p).mem \in [D -> U64]
      /\ WithoutPID(b, p).util \in [D -> U64]
  BY <1>1 DEF WithoutPID
<1>3. D \in SUBSET PID
  BY <1>1
<1> HIDE DEF D
<1>4. /\ WithoutPID(b, p).mem \in Column
      /\ WithoutPID(b, p).util \in Column
  BY <1>2, <1>3, ColumnIntro
<1>5. WithoutPID(b, p) \in Rows
  BY <1>4 DEF Rows, WithoutPID
<1> QED
  BY <1>2, <1>5 DEF SamePIDs, D

\* The rows of device records rebase as tables do.
LEMMA RebaseDevices ==
    ASSUME NEW b \in Device, SamePIDs(b), NEW c \in Device, SamePIDs(c),
           NEW desired \in Rows, SamePIDs(desired)
    PROVE  /\ Rebase(b, desired, c) \in Rows
           /\ SamePIDs(Rebase(b, desired, c))
<1> DEFINE bb == [mem |-> b.mem, util |-> b.util]
           cc == [mem |-> c.mem, util |-> c.util]
<1>1. bb \in Rows /\ cc \in Rows /\ SamePIDs(bb) /\ SamePIDs(cc)
  BY DEF Rows, Device, SamePIDs
<1>2. /\ bb.mem = b.mem /\ bb.util = b.util
      /\ cc.mem = c.mem /\ cc.util = c.util
  OBVIOUS
<1> HIDE DEF bb, cc
<1>3. /\ Removed(b, desired) = Removed(bb, desired)
      /\ Changed(b, desired) = Changed(bb, desired)
      /\ Added(b, desired) = Added(bb, desired)
  BY <1>2 DEF Removed, Changed, Added, SameRow
<1>4. Rebase(b, desired, c) = Rebase(bb, desired, cc)
  BY <1>2, <1>3 DEF Rebase, RebaseColumn
<1> QED
  BY <1>1, <1>4, RebaseRows

\* A command of a manager leaves a device that fits and covers its rows.
LEMMA ReplacedFits ==
    ASSUME DevicesOK, NEW g \in GPU, NEW b \in Device, SamePIDs(b),
           NEW desired \in Rows, SamePIDs(desired), CanReplace(g, b, desired),
           dev' = Replaced(g, b, desired)
    PROVE  /\ DevicesOK'
           /\ dev'[g].mem = Rebase(b, desired, dev[g]).mem
           /\ dev'[g].util = Rebase(b, desired, dev[g]).util
           /\ \A h \in GPU : h # g => dev'[h] = dev[h]
<1> DEFINE now == Observed(dev[g])
           rows == Rebase(b, desired, now)
           r == Reconcile(now, TotalBytes(g), rows)
<1>1. dev \in [GPU -> Device] /\ Fits(dev[g], g) /\ Covered(dev[g]) /\ SamePIDs(dev[g])
  BY DEF DevicesOK
<1>2. /\ now \in Device /\ Fits(now, g) /\ SamePIDs(now)
      /\ now.mem = dev[g].mem /\ now.util = dev[g].util
  BY <1>1, ObservedFits
<1>3. CanReconcile(now, TotalBytes(g), rows) /\ dev' = [dev EXCEPT ![g] = r]
  BY DEF CanReplace, Replaced
<1>4. rows = Rebase(b, desired, dev[g])
  BY <1>2 DEF Rebase
<1> HIDE DEF now
<1>5. rows \in Rows /\ SamePIDs(rows)
  BY <1>2, RebaseDevices
<1> HIDE DEF rows
<1>6. r \in Device /\ Fits(r, g) /\ Covered(r) /\ SamePIDs(r)
  BY <1>2, <1>3, <1>5, ReconcileFits
<1>7. r.mem = rows.mem /\ r.util = rows.util
  BY DEF Reconcile
<1> HIDE DEF r
<1> QED
  BY <1>1, <1>3, <1>4, <1>6, <1>7 DEF DevicesOK

-----------------------------------------------------------------------------
(* Frames. *)

\* A server and its goroutines.
LEMMA Goroutines ==
    /\ \A s \in Server : Main(s) \in Goroutine /\ Signal(s) \in Goroutine
    /\ \A s \in Server : /\ Pid(Main(s)) = s /\ Pid(Signal(s)) = s
                         /\ Main(s)[2] = "main" /\ Signal(s)[2] = "signal"
                         /\ Main(s) # Signal(s)
    /\ \A t \in Goroutine : /\ Pid(t) \in Server /\ Pid(t) \in PID
                            /\ t[2] \in {"main", "signal"}
                            /\ t[2] = "main" => t = Main(Pid(t))
                            /\ t[2] = "signal" => t = Signal(Pid(t))
BY ServerAssumption DEF Goroutine, Main, Signal, Pid

\* What depends on the configuration alone.
LEMMA SameConfig ==
    ASSUME NEW s \in Server, srv'[s].cfg = srv[s].cfg
    PROVE  /\ Targets(s)' = Targets(s)
           /\ AllFound(s)' <=> AllFound(s)
           /\ \A i : Found(s, i)' <=> Found(s, i)
           /\ srv'[s].grown = srv[s].grown =>
                 /\ Sized(s)' <=> Sized(s)
                 /\ \A i : Amount(s, i)' = Amount(s, i)
<1>1. Targets(s)' = Targets(s)
  BY DEF Targets
<1>2. srv'[s].grown = srv[s].grown => Bytes(s)' = Bytes(s) /\ (Sized(s)' <=> Sized(s))
  BY DEF Bytes, Sized
<1> QED
  BY <1>1, <1>2 DEF AllFound, Found, Amount

\* A process that is not touched stays as it is.
LEMMA SameProcess ==
    ASSUME NEW s \in Server, srv'[s] = srv[s], ProcessOK(s)
    PROVE  ProcessOK(s)'
<1>1. /\ Targets(s)' = Targets(s)
      /\ AllFound(s)' <=> AllFound(s)
      /\ Sized(s)' <=> Sized(s)
  BY SameConfig
<1> QED
  BY <1>1 DEF ProcessOK

\* Nor does a call change that is not touched, while nothing it goes by does.
LEMMA SameCall ==
    ASSUME NEW t \in Goroutine, call'[t] = call[t], CallOK(t),
           srv'[Pid(t)].cfg = srv[Pid(t)].cfg,
           t[2] = "main" => srv'[Pid(t)].grown = srv[Pid(t)].grown,
           t[2] = "main" => srv'[Pid(t)].pc = srv[Pid(t)].pc,
           t[2] = "signal" => srv'[Pid(t)].sig = srv[Pid(t)].sig,
           call[t].kind = "release" =>
               /\ srv'[Pid(t)].registered
               /\ srv'[Pid(t)].releaseMu = srv[Pid(t)].releaseMu,
           t[2] = "main" /\ ~ srv[Pid(t)].registered => ~ srv'[Pid(t)].registered
    PROVE  CallOK(t)'
<1> DEFINE s == Pid(t)
<1>1. s \in Server /\ t[2] \in {"main", "signal"}
  BY Goroutines
<1>2. /\ Targets(s)' = Targets(s)
      /\ AllFound(s)' <=> AllFound(s)
      /\ \A i : Found(s, i)' <=> Found(s, i)
      /\ t[2] = "main" => \A i : Amount(s, i)' = Amount(s, i)
  BY <1>1, SameConfig
<1>3. WantsRelease(t)' <=> WantsRelease(t)
  BY <1>1 DEF WantsRelease
<1>4. t[2] = "main" => (Overflows(t)' <=> Overflows(t))
  BY <1>2 DEF Overflows
<1>5. t[2] = "main" => srv'[s].pc = srv[s].pc
  OBVIOUS
<1>6. SamePIDs(call[t].before)'
  BY DEF CallOK, SamePIDs
<1> HIDE DEF s
<1>7. NoneOK(t) => NoneOK(t)'
  BY <1>2, <1>3, <1>5 DEF NoneOK, s
<1>8. ApplyOK(t) => ApplyOK(t)'
  BY <1>2, <1>4, <1>5 DEF ApplyOK, s
<1>9. RollbackOK(t) => RollbackOK(t)'
  BY <1>2, <1>5 DEF RollbackOK, s
<1>10. call[t].kind = "release" /\ ReleaseOK(t) => ReleaseOK(t)'
  BY <1>2, <1>3 DEF ReleaseOK, s
<1> QED
  BY <1>6, <1>7, <1>8, <1>9, <1>10 DEF CallOK

\* What a registry call leaves alone.
Elsewhere(s) ==
    \A r \in Server \ {s} :
        /\ srv'[r] = srv[r]
        /\ call'[Main(r)] = call[Main(r)]
        /\ call'[Signal(r)] = call[Signal(r)]

\* The part of the invariant that is about no server.
Surroundings ==
    /\ DevicesOK
    /\ lost \subseteq Losable
    /\ faults \in 0 .. MaxFaults
    /\ faults = 0 => lost = {}

\* A step of one server.
LEMMA ServerStep ==
    ASSUME LlamaInv, NEW s \in Server, Elsewhere(s), Surroundings',
           srv' \in [Server -> Process], call' \in [Goroutine -> Call],
           ProcessOK(s)', CallOK(Main(s))', CallOK(Signal(s))'
    PROVE  LlamaInv'
<1>1. ASSUME NEW r \in Server PROVE ProcessOK(r)'
  <2>1. CASE r = s
    BY <2>1
  <2>2. CASE r # s
    BY <2>2, SameProcess DEF LlamaInv, Elsewhere
  <2> QED
    BY <2>1, <2>2
<1>2. ASSUME NEW t \in Goroutine PROVE CallOK(t)'
  <2>1. Pid(t) \in Server /\ (t = Main(Pid(t)) \/ t = Signal(Pid(t)))
    BY Goroutines
  <2>2. CASE Pid(t) = s
    BY <2>1, <2>2
  <2>3. CASE Pid(t) # s
    <3>1. srv'[Pid(t)] = srv[Pid(t)] /\ call'[t] = call[t]
      BY <2>1, <2>3 DEF Elsewhere
    <3>2. CallOK(t)
      BY DEF LlamaInv
    <3>3. call[t].kind = "release" => srv[Pid(t)].registered
      BY <3>2 DEF CallOK, ReleaseOK
    <3> QED
      BY <3>1, <3>2, <3>3, SameCall
  <2> QED
    BY <2>2, <2>3
<1> QED
  BY <1>1, <1>2 DEF LlamaInv, Surroundings

\* A step of one registry call that leaves the process alone.
LEMMA CallStep ==
    ASSUME LlamaInv, NEW t \in Goroutine, UNCHANGED srv, Surroundings',
           NEW c \in Call, Become(t, c), CallOK(t)'
    PROVE  LlamaInv'
<1> DEFINE s == Pid(t)
<1>1. s \in Server /\ call \in [Goroutine -> Call] /\ srv \in [Server -> Process]
  BY Goroutines DEF LlamaInv
<1>2. call' = [call EXCEPT ![t] = c]
  BY DEF Become
<1>3. call' \in [Goroutine -> Call] /\ srv' \in [Server -> Process]
  BY <1>1, <1>2
<1>4. \A u \in Goroutine : u # t => call'[u] = call[u]
  BY <1>1, <1>2
<1>5. Elsewhere(s)
  BY <1>4, Goroutines DEF Elsewhere
<1>6. ProcessOK(s)'
  BY <1>1, SameProcess DEF LlamaInv
<1>7. ASSUME NEW u \in Goroutine PROVE CallOK(u)'
  <2>1. CASE u = t
    BY <2>1
  <2>2. CASE u # t
    <3>1. CallOK(u)
      BY DEF LlamaInv
    <3>2. call[u].kind = "release" => srv[Pid(u)].registered
      BY <3>1 DEF CallOK, ReleaseOK
    <3> QED
      BY <1>4, <2>2, <3>1, <3>2, SameCall
  <2> QED
    BY <2>1, <2>2
<1> QED
  BY <1>1, <1>3, <1>5, <1>6, <1>7, Goroutines, ServerStep

-----------------------------------------------------------------------------
(* How a registry call goes on. *)

\* A goroutine that is in no call.
LEMMA NoCallType ==
    NoCall \in Call /\ SamePIDs(NoCall.before) /\ NoDevice \in Device /\ SamePIDs(NoDevice)
<1>1. NoDevice \in Device /\ SamePIDs(NoDevice)
  BY NoProcsColumn, UnitAssumption DEF NoDevice, Device, U64, SamePIDs
<1> HIDE DEF NoDevice
<1> QED
  BY <1>1 DEF NoCall, Call

\* The row that apply remembers.
LEMMA PriorType ==
    ASSUME NEW b \in Device, SamePIDs(b), NEW p
    PROVE  Prior(b, p) \in PriorRow
<1>1. b.mem \in [DOMAIN b.mem -> U64] /\ b.util \in [DOMAIN b.mem -> U64]
  BY ColumnElim DEF Device, SamePIDs
<1>2. 0 \in U64
  BY UnitAssumption DEF U64
<1> QED
  BY <1>1, <1>2 DEF Prior, PriorRow

\* A call returns.
LEMMA DoneStep ==
    ASSUME LlamaInv, NEW t \in Goroutine, UNCHANGED srv, Surroundings',
           NEW e \in {"none", "error", "oom"}, Done(t, e),
           WantsRelease(t) \/ (t[2] = "main" /\ srv[Pid(t)].pc \in Applying),
           t[2] = "main" /\ srv[Pid(t)].pc = "register" /\ e = "none" => AllFound(Pid(t)),
           t[2] = "main" /\ srv[Pid(t)].pc = "release" /\ e = "none"
             => ~ srv[Pid(t)].registered
    PROVE  LlamaInv'
<1> DEFINE c == [NoCall EXCEPT !.step = "done", !.error = e]
<1>1. /\ c \in Call /\ c.kind = "none" /\ c.step = "done" /\ c.error = e /\ c.i = 0
      /\ SamePIDs(c.before)
  BY NoCallType DEF NoCall, Call
<1>2. Become(t, c) /\ call \in [Goroutine -> Call]
  BY DEF Done, LlamaInv
<1> HIDE DEF c
<1>3. call'[t] = c
  BY <1>2 DEF Become
<1>4. Pid(t) \in Server
  BY Goroutines
<1>5. AllFound(Pid(t))' <=> AllFound(Pid(t))
  BY <1>4, SameConfig
<1>6. NoneOK(t)'
  BY <1>1, <1>3, <1>5 DEF NoneOK, WantsRelease
<1>7. CallOK(t)'
  BY <1>1, <1>3, <1>6 DEF CallOK, SamePIDs
<1> QED
  BY <1>1, <1>2, <1>7, CallStep

\* The call goes on with c.
LEMMA BecomeStep ==
    ASSUME LlamaInv, NEW t \in Goroutine, UNCHANGED srv, Surroundings',
           NEW c \in Call, Become(t, c), SamePIDs(c.before),
           c.kind \in {"apply", "rollback", "release"},
           (call'[t] = c) =>
              /\ c.kind = "apply" => ApplyOK(t)'
              /\ c.kind = "rollback" => RollbackOK(t)'
              /\ c.kind = "release" => ReleaseOK(t)'
    PROVE  LlamaInv'
<1>1. call \in [Goroutine -> Call]
  BY DEF LlamaInv
<1>2. call'[t] = c
  BY <1>1 DEF Become
<1>3. CallOK(t)'
  BY <1>2 DEF CallOK, SamePIDs
<1> QED
  BY <1>3, CallStep

\* What apply knows of its process.
LEMMA ApplyFacts ==
    ASSUME LlamaInv, NEW t \in Goroutine, call[t].kind = "apply"
    PROVE  /\ ApplyOK(t) /\ Pid(t) \in Server /\ call[t] \in Call
           /\ SamePIDs(call[t].before)
           /\ Sized(Pid(t)) /\ Len(Targets(Pid(t))) \in Nat
           /\ DOMAIN Targets(Pid(t)) = 1 .. Len(Targets(Pid(t)))
           /\ ~ srv[Pid(t)].registered \/ srv[Pid(t)].pc = "resize"
<1>1. CallOK(t) /\ Pid(t) \in Server /\ call[t] \in Call /\ srv \in [Server -> Process]
  BY Goroutines DEF LlamaInv
<1>2. ApplyOK(t)
  BY <1>1 DEF CallOK
<1>3. ProcessOK(Pid(t))
  BY <1>1 DEF LlamaInv
<1> QED
  BY <1>1, <1>2, <1>3, TargetFields DEF CallOK, ApplyOK, ProcessOK, Applying

\* An error of apply.
LEMMA AbortStep ==
    ASSUME LlamaInv, NEW t \in Goroutine, UNCHANGED srv, Surroundings',
           NEW e \in {"error", "oom"}, call[t].kind = "apply", Abort(t, e)
    PROVE  LlamaInv'
<1> DEFINE s == Pid(t)
           c == call[t]
           b == [c EXCEPT !.kind = "rollback", !.error = e, !.step = "snapshot",
                          !.before = NoDevice, !.i = Len(c.applied)]
<1>1. ApplyOK(t) /\ s \in Server /\ c \in Call /\ Len(Targets(s)) \in Nat
  BY ApplyFacts
<1>2. t[2] = "main" /\ srv[s].pc \in Applying
  BY <1>1 DEF ApplyOK
<1>3. CASE c.applied = <<>>
  BY <1>2, <1>3, DoneStep DEF Abort, Applying
<1>4. CASE c.applied # <<>>
  <2>1. Become(t, b)
    BY <1>4 DEF Abort
  <2>2. c.applied \in Seq(PriorRow) /\ Len(c.applied) \in Nat /\ Len(c.applied) >= 1
    BY <1>1, <1>4 DEF Call
  <2>3. /\ b \in Call /\ b.kind = "rollback" /\ SamePIDs(b.before)
        /\ b.i = Len(c.applied) /\ b.applied = c.applied /\ b.step = "snapshot"
        /\ b.error = e
    BY <1>1, <2>2, NoCallType DEF Call
  <2> HIDE DEF b
  <2>4. Len(c.applied) = c.i - 1 /\ c.i \in 1 .. Len(Targets(s))
        /\ \A j \in 1 .. c.i - 1 : Found(s, j)
    BY <1>1 DEF ApplyOK
  <2>5. Targets(s)' = Targets(s) /\ \A j : Found(s, j)' <=> Found(s, j)
    BY <1>1, SameConfig
  <2>6. call'[t] = b => RollbackOK(t)'
    BY <1>1, <1>2, <2>2, <2>3, <2>4, <2>5 DEF RollbackOK
  <2> QED
    BY <2>1, <2>3, <2>6, BecomeStep
<1> QED
  BY <1>3, <1>4

\* What rollback knows of its process.
LEMMA RollbackFacts ==
    ASSUME LlamaInv, NEW t \in Goroutine, call[t].kind = "rollback"
    PROVE  /\ RollbackOK(t) /\ Pid(t) \in Server /\ call[t] \in Call
           /\ SamePIDs(call[t].before)
           /\ Len(Targets(Pid(t))) \in Nat
           /\ DOMAIN Targets(Pid(t)) = 1 .. Len(Targets(Pid(t)))
           /\ call[t].applied \in Seq(PriorRow)
           /\ Found(Pid(t), call[t].i)
           /\ ~ srv[Pid(t)].registered \/ srv[Pid(t)].pc = "resize"
<1>1. CallOK(t) /\ Pid(t) \in Server /\ call[t] \in Call /\ srv \in [Server -> Process]
  BY Goroutines DEF LlamaInv
<1>2. RollbackOK(t)
  BY <1>1 DEF CallOK
<1>3. ProcessOK(Pid(t))
  BY <1>1 DEF LlamaInv
<1> QED
  BY <1>1, <1>2, <1>3, TargetFields
  DEF CallOK, RollbackOK, ProcessOK, Applying, Call

\* The next target to be put back.
LEMMA RollbackNextStep ==
    ASSUME LlamaInv, NEW t \in Goroutine, UNCHANGED srv, Surroundings',
           call[t].kind = "rollback", RollbackNext(t)
    PROVE  LlamaInv'
<1> DEFINE s == Pid(t)
           c == call[t]
           b == [c EXCEPT !.i = @ - 1, !.step = "snapshot", !.before = NoDevice]
<1>1. /\ RollbackOK(t) /\ s \in Server /\ c \in Call /\ Len(Targets(s)) \in Nat
      /\ c.applied \in Seq(PriorRow)
  BY RollbackFacts
<1>2. t[2] = "main" /\ srv[s].pc \in Applying /\ c.error # "none"
      /\ c.error \in {"none", "error", "oom"}
  BY <1>1 DEF RollbackOK, Call
<1>3. CASE c.i = 1
  BY <1>2, <1>3, DoneStep DEF RollbackNext, Applying
<1>4. CASE c.i # 1
  <2>1. Become(t, b)
    BY <1>4 DEF RollbackNext
  <2>2. c.i \in 1 .. Len(c.applied) /\ Len(c.applied) \in 1 .. Len(Targets(s))
        /\ \A j \in 1 .. Len(c.applied) : Found(s, j)
    BY <1>1 DEF RollbackOK
  <2>3. /\ b \in Call /\ b.kind = "rollback" /\ SamePIDs(b.before)
        /\ b.i = c.i - 1 /\ b.applied = c.applied /\ b.step = "snapshot"
        /\ b.error = c.error
    <3>1. c.i \in Nat /\ c.i - 1 \in Nat
      BY <2>2
    <3> DEFINE k == c.i - 1
    <3>2. k \in Nat /\ b = [c EXCEPT !.i = k, !.step = "snapshot", !.before = NoDevice]
      BY <3>1
    <3> HIDE DEF k, b
    <3>3. /\ b \in Call /\ b.kind = "rollback" /\ SamePIDs(b.before)
          /\ b.i = k /\ b.applied = c.applied /\ b.step = "snapshot"
          /\ b.error = c.error
      BY <1>1, <3>2, NoCallType DEF Call
    <3> QED
      BY <3>3 DEF k
  <2> HIDE DEF b
  <2>4. Targets(s)' = Targets(s) /\ \A j : Found(s, j)' <=> Found(s, j)
    BY <1>1, SameConfig
  <2>5. call'[t] = b => RollbackOK(t)'
    BY <1>1, <1>2, <1>4, <2>2, <2>3, <2>4 DEF RollbackOK
  <2> QED
    BY <2>1, <2>3, <2>5, BecomeStep
<1> QED
  BY <1>3, <1>4

\* What release knows of its process.
LEMMA ReleaseFacts ==
    ASSUME LlamaInv, NEW t \in Goroutine, call[t].kind = "release"
    PROVE  /\ ReleaseOK(t) /\ Pid(t) \in Server /\ call[t] \in Call
           /\ SamePIDs(call[t].before)
           /\ Len(Targets(Pid(t))) \in Nat
           /\ DOMAIN Targets(Pid(t)) = 1 .. Len(Targets(Pid(t)))
           /\ AllFound(Pid(t))
           /\ call[t].step \in {"snapshot", "replace"} =>
                 call[t].i \in 1 .. Len(Targets(Pid(t))) /\ Found(Pid(t), call[t].i)
           /\ srv[Pid(t)].registered
<1>1. CallOK(t) /\ Pid(t) \in Server /\ call[t] \in Call /\ srv \in [Server -> Process]
  BY Goroutines DEF LlamaInv
<1>2. ReleaseOK(t)
  BY <1>1 DEF CallOK
<1>3. ProcessOK(Pid(t))
  BY <1>1 DEF LlamaInv
<1>4. AllFound(Pid(t))
  BY <1>2, <1>3 DEF ReleaseOK, ProcessOK
<1>5. /\ Len(Targets(Pid(t))) \in Nat
      /\ DOMAIN Targets(Pid(t)) = 1 .. Len(Targets(Pid(t)))
  BY <1>1, TargetFields
<1> QED
  BY <1>1, <1>2, <1>4, <1>5 DEF CallOK, ReleaseOK, AllFound

\* The next target to be released.
LEMMA ReleaseNextStep ==
    ASSUME LlamaInv, NEW t \in Goroutine, UNCHANGED srv, Surroundings',
           call[t].kind = "release", call[t].step \in {"snapshot", "replace"},
           NEW e \in {"none", "error"}, ReleaseNext(t, e)
    PROVE  LlamaInv'
<1> DEFINE s == Pid(t)
           c == call[t]
           b == [c EXCEPT
                   !.i = @ + 1,
                   !.step = IF c.i = Len(Targets(s)) THEN "end" ELSE "snapshot",
                   !.before = NoDevice,
                   !.error = e]
<1>1. /\ ReleaseOK(t) /\ s \in Server /\ c \in Call /\ Len(Targets(s)) \in Nat
      /\ c.i \in 1 .. Len(Targets(s))
  BY ReleaseFacts
<1>2. Become(t, b)
  BY DEF ReleaseNext
<1>3. /\ b \in Call /\ b.kind = "release" /\ SamePIDs(b.before)
      /\ b.i = c.i + 1 /\ b.error = e
      /\ b.step = IF c.i = Len(Targets(s)) THEN "end" ELSE "snapshot"
  <2> DEFINE k == c.i + 1
             where == IF c.i = Len(Targets(s)) THEN "end" ELSE "snapshot"
  <2>1. k \in Nat /\ where \in {"end", "snapshot"}
    BY <1>1
  <2>2. b = [c EXCEPT !.i = k, !.step = where, !.before = NoDevice, !.error = e]
    OBVIOUS
  <2> HIDE DEF k, where, b
  <2>3. /\ b \in Call /\ b.kind = "release" /\ SamePIDs(b.before)
        /\ b.i = k /\ b.error = e /\ b.step = where
    BY <1>1, <2>1, <2>2, NoCallType DEF Call
  <2> QED
    BY <2>3 DEF k, where
<1> HIDE DEF b
<1>4. Targets(s)' = Targets(s)
  BY <1>1, SameConfig
<1>5. call'[t] = b => ReleaseOK(t)'
  BY <1>1, <1>3, <1>4 DEF ReleaseOK, WantsRelease
<1> QED
  BY <1>2, <1>3, <1>5, BecomeStep

-----------------------------------------------------------------------------
(* The registry. *)

\* A snapshot, answered or not.
LEMMA SnapshotSurroundings ==
    ASSUME LlamaInv, NEW t, Answered(t) \/ Refused(t), UNCHANGED <<dev, lost>>
    PROVE  Surroundings'
<1>1. faults' \in 0 .. MaxFaults /\ (faults' = 0 => faults = 0)
  BY ServerAssumption DEF LlamaInv, Answered, Refused
<1> QED
  BY <1>1 DEF LlamaInv, Surroundings, DevicesOK

\* A command that changes the rows stores the change or does not.
Stores(t, desired) ==
    /\ CanReplace(Target(t), call[t].before, desired)
    /\ dev' = Replaced(Target(t), call[t].before, desired)

\* The same for a command that stores.
LEMMA ReplaceSurroundings ==
    ASSUME LlamaInv, NEW t \in Goroutine, Found(Pid(t), call[t].i), UNCHANGED lost,
           NEW desired \in Rows, SamePIDs(desired),
           ReplaceSucceeds(t, desired) \/ ReplaceFails(t, desired)
    PROVE  Surroundings' /\ (Stores(t, desired) \/ UNCHANGED dev)
<1>1. faults' \in 0 .. MaxFaults /\ (faults' = 0 => faults = 0)
  BY ServerAssumption DEF LlamaInv, ReplaceSucceeds, ReplaceFails, Refused
<1>2. Stores(t, desired) \/ UNCHANGED dev
  BY DEF ReplaceSucceeds, ReplaceFails, Stores
<1>3. /\ Target(t) \in GPU /\ DevicesOK
      /\ call[t].before \in Device /\ SamePIDs(call[t].before)
  BY TargetFound DEF LlamaInv, Call, CallOK
<1>4. DevicesOK'
  <2>1. CASE UNCHANGED dev
    BY <1>3, <2>1 DEF DevicesOK
  <2>2. CASE Stores(t, desired)
    BY <1>3, <2>2, ReplacedFits DEF Stores
  <2> QED
    BY <1>2, <2>1, <2>2
<1> QED
  BY <1>1, <1>2, <1>4 DEF LlamaInv, Surroundings

\* The steps of the registry, one by one.
LEMMA ApplySnapshotOK ==
    ASSUME LlamaInv, NEW t \in Goroutine, ApplySnapshot(t)
    PROVE  LlamaInv'
<1> DEFINE s == Pid(t)
           c == call[t]
           d == Observed(dev[Target(t)])
           b == [c EXCEPT !.before = d, !.step = "replace"]
<1>1. Surroundings' /\ UNCHANGED srv
  BY SnapshotSurroundings DEF ApplySnapshot, outside
<1>2. c.kind = "apply" /\ c.step = "snapshot"
  BY DEF ApplySnapshot
<1>3. CASE Abort(t, "error") \/ Abort(t, "oom")
  BY <1>1, <1>2, <1>3, AbortStep
<1>4. CASE Resolves(t) /\ ~ Overflows(t) /\ Become(t, b)
  <2>1. /\ ApplyOK(t) /\ s \in Server /\ c \in Call
        /\ Found(s, c.i)
    BY <1>2, <1>4, ApplyFacts DEF Resolves, Found, TargetWord
  <2>2. Target(t) \in GPU
    BY <2>1, TargetFound
  <2>3. d \in Device /\ SamePIDs(d)
    BY <2>2, ObservedFits DEF LlamaInv, DevicesOK
  <2> HIDE DEF d
  <2>4. /\ b \in Call /\ b.kind = "apply" /\ b.step = "replace" /\ SamePIDs(b.before)
        /\ b.i = c.i /\ b.applied = c.applied
    BY <1>2, <2>1, <2>3 DEF Call
  <2> HIDE DEF b
  <2>5. /\ Targets(s)' = Targets(s) /\ \A j : Found(s, j)' <=> Found(s, j)
        /\ \A j : Amount(s, j)' = Amount(s, j)
    BY <1>1, <2>1, SameConfig
  <2>6. call'[t] = b => (Overflows(t)' <=> Overflows(t))
    BY <2>4, <2>5 DEF Overflows
  <2>7. call'[t] = b => ApplyOK(t)'
    BY <1>1, <1>4, <2>1, <2>4, <2>5, <2>6 DEF ApplyOK
  <2> QED
    BY <1>1, <1>4, <2>4, <2>7, BecomeStep
<1> QED
  BY <1>3, <1>4 DEF ApplySnapshot

\* What apply wants to store.
LEMMA ApplyDesired ==
    ASSUME LlamaInv, NEW t \in Goroutine, call[t].kind = "apply", call[t].step = "replace"
    PROVE  LET desired == WithPID(call[t].before, Pid(t), Amount(Pid(t), call[t].i), LlamaUtil)
           IN  /\ desired \in Rows /\ SamePIDs(desired)
               /\ DOMAIN desired.mem = DOMAIN call[t].before.mem \cup {Pid(t)}
<1> DEFINE s == Pid(t)
           c == call[t]
<1>1. /\ ApplyOK(t) /\ s \in Server /\ s \in PID /\ c \in Call /\ SamePIDs(c.before)
      /\ Sized(s) /\ srv \in [Server -> Process]
  BY ApplyFacts, Goroutines DEF LlamaInv
<1>2. c.i \in 1 .. Len(Targets(s)) /\ Found(s, c.i) /\ ~ Overflows(t)
  BY <1>1 DEF ApplyOK
<1>3. Amount(s, c.i) \in Nat /\ (Amount(s, c.i) <= MaxU64 \div MiB => Amount(s, c.i) \in U64)
  BY <1>1, <1>2, AmountU64
<1>4. MaxU64 \div MiB \in Nat
  BY UnitAssumption, FloorAtMost
<1>5. Amount(s, c.i) \in U64
  BY <1>2, <1>3, <1>4 DEF Overflows
<1>6. LlamaUtil \in U64
  <2>1. PICK g \in GPU : TRUE
    BY <1>2 DEF Found
  <2>2. Config[g].total \in Nat /\ Config[g].total >= 1 /\ Config[g].total * MiB \in U64
    BY ConfigAssumption DEF Composable
  <2>3. Config[g].total * MiB >= 1
    BY <2>2, UnitAssumption
  <2> QED
    BY <2>2, <2>3, UnitAssumption DEF U64, LlamaUtil
<1>7. c.before \in Device
  BY <1>1 DEF Call
<1> QED
  BY <1>1, <1>5, <1>6, <1>7, WithPIDRows

\* apply goes on to its next target with what it has stored remembered, or
\* gives up.
LEMMA ApplyReplaceOK ==
    ASSUME LlamaInv, NEW t \in Goroutine, ApplyReplace(t)
    PROVE  LlamaInv'
<1> DEFINE s == Pid(t)
           c == call[t]
           desired == WithPID(c.before, s, Amount(s, c.i), LlamaUtil)
           b == [c EXCEPT !.i = @ + 1, !.step = "snapshot", !.before = NoDevice,
                          !.applied = Append(@, Prior(c.before, s))]
<1>1. /\ c.kind = "apply" /\ c.step = "replace" /\ UNCHANGED <<srv, lost>>
      /\ \/ /\ ReplaceSucceeds(t, desired)
            /\ IF c.i = Len(Targets(s)) THEN Done(t, "none") ELSE Become(t, b)
         \/ ReplaceFails(t, desired) /\ Abort(t, "error")
  BY DEF ApplyReplace, outside
<1>2. /\ ApplyOK(t) /\ s \in Server /\ c \in Call /\ SamePIDs(c.before)
      /\ Len(Targets(s)) \in Nat /\ DOMAIN Targets(s) = 1 .. Len(Targets(s))
  BY <1>1, ApplyFacts
<1>3. desired \in Rows /\ SamePIDs(desired)
  BY <1>1, ApplyDesired
<1>4. /\ c.i \in 1 .. Len(Targets(s)) /\ \A j \in 1 .. c.i : Found(s, j)
      /\ t[2] = "main" /\ srv[s].pc \in Applying /\ Len(c.applied) = c.i - 1
  BY <1>1, <1>2 DEF ApplyOK
<1> HIDE DEF desired
<1>5. Surroundings'
  BY <1>1, <1>3, <1>4, ReplaceSurroundings
<1>6. CASE Abort(t, "error")
  BY <1>1, <1>5, <1>6, AbortStep
<1>7. CASE c.i = Len(Targets(s)) /\ Done(t, "none")
  <2>1. AllFound(s)
    BY <1>2, <1>4, <1>7 DEF AllFound
  <2> QED
    BY <1>1, <1>4, <1>5, <1>7, <2>1, DoneStep DEF Applying
<1>8. CASE c.i # Len(Targets(s)) /\ Become(t, b)
  <2>1. /\ b \in Call /\ b.kind = "apply" /\ b.step = "snapshot" /\ SamePIDs(b.before)
        /\ b.i = c.i + 1 /\ Len(b.applied) = c.i
    <3> DEFINE k == c.i + 1
               a == Append(c.applied, Prior(c.before, s))
    <3>1. k \in Nat
      BY <1>4
    <3>2. c.applied \in Seq(PriorRow) /\ Prior(c.before, s) \in PriorRow
      BY <1>2, PriorType DEF Call
    <3>3. a \in Seq(PriorRow) /\ Len(a) = c.i
      BY <1>4, <3>2
    <3>4. b = [c EXCEPT !.i = k, !.step = "snapshot", !.before = NoDevice, !.applied = a]
      OBVIOUS
    <3> HIDE DEF k, a, b
    <3>5. /\ b \in Call /\ b.kind = "apply" /\ b.step = "snapshot" /\ SamePIDs(b.before)
          /\ b.i = k /\ b.applied = a
      BY <1>1, <1>2, <3>1, <3>3, <3>4, NoCallType DEF Call
    <3> QED
      BY <3>3, <3>5 DEF k
  <2> HIDE DEF b
  <2>2. /\ Targets(s)' = Targets(s) /\ \A j : Found(s, j)' <=> Found(s, j)
    BY <1>1, <1>2, SameConfig
  <2>3. call'[t] = b => ApplyOK(t)'
    BY <1>1, <1>2, <1>4, <1>8, <2>1, <2>2 DEF ApplyOK
  <2> QED
    BY <1>1, <1>5, <1>8, <2>1, <2>3, BecomeStep
<1> QED
  BY <1>1, <1>6, <1>7, <1>8

\* The rollback observes its target, or passes it.
LEMMA RollbackSnapshotOK ==
    ASSUME LlamaInv, NEW t \in Goroutine, RollbackSnapshot(t)
    PROVE  LlamaInv'
<1> DEFINE s == Pid(t)
           c == call[t]
           d == Observed(dev[Target(t)])
           b == [c EXCEPT !.before = d, !.step = "replace"]
<1>1. Surroundings' /\ UNCHANGED srv
  BY SnapshotSurroundings DEF RollbackSnapshot, outside
<1>2. c.kind = "rollback" /\ c.step = "snapshot"
  BY DEF RollbackSnapshot
<1>3. CASE RollbackNext(t)
  BY <1>1, <1>2, <1>3, RollbackNextStep
<1>4. CASE Become(t, b)
  <2>1. /\ RollbackOK(t) /\ s \in Server /\ c \in Call
        /\ Found(s, c.i)
    BY <1>2, RollbackFacts
  <2>2. Target(t) \in GPU
    BY <2>1, TargetFound
  <2>3. d \in Device /\ SamePIDs(d)
    BY <2>2, ObservedFits DEF LlamaInv, DevicesOK
  <2> HIDE DEF d
  <2>4. /\ b \in Call /\ b.kind = "rollback" /\ b.step = "replace" /\ SamePIDs(b.before)
        /\ b.i = c.i /\ b.applied = c.applied /\ b.error = c.error
    BY <1>2, <2>1, <2>3 DEF Call
  <2> HIDE DEF b
  <2>5. Targets(s)' = Targets(s) /\ \A j : Found(s, j)' <=> Found(s, j)
    BY <1>1, <2>1, SameConfig
  <2>6. call'[t] = b => RollbackOK(t)'
    BY <1>1, <2>1, <2>4, <2>5 DEF RollbackOK
  <2> QED
    BY <1>1, <1>4, <2>4, <2>6, BecomeStep
<1> QED
  BY <1>3, <1>4 DEF RollbackSnapshot

\* What rollback wants to store.
Restored(t) ==
    LET c == call[t]
        prior == c.applied[c.i]
    IN  IF prior.existed THEN WithPID(c.before, Pid(t), prior.mib, prior.util)
                         ELSE WithoutPID(c.before, Pid(t))

\* What the rollback wants to store.
LEMMA RollbackDesired ==
    ASSUME LlamaInv, NEW t \in Goroutine, call[t].kind = "rollback"
    PROVE  /\ Restored(t) \in Rows /\ SamePIDs(Restored(t))
           /\ DOMAIN Restored(t).mem =
                 IF call[t].applied[call[t].i].existed
                   THEN DOMAIN call[t].before.mem \cup {Pid(t)}
                   ELSE DOMAIN call[t].before.mem \ {Pid(t)}
<1> DEFINE c == call[t]
<1>1. /\ RollbackOK(t) /\ Pid(t) \in PID /\ c \in Call /\ SamePIDs(c.before)
      /\ c.applied \in Seq(PriorRow)
  BY RollbackFacts, Goroutines
<1>2. c.i \in 1 .. Len(c.applied)
  BY <1>1 DEF RollbackOK
<1>3. c.applied[c.i] \in PriorRow
  BY <1>1, <1>2
<1>4. c.applied[c.i].mib \in U64 /\ c.applied[c.i].util \in U64
  BY <1>3 DEF PriorRow
<1>5. c.before \in Device
  BY <1>1 DEF Call
<1>6. CASE c.applied[c.i].existed
  <2>1. Restored(t) = WithPID(c.before, Pid(t), c.applied[c.i].mib, c.applied[c.i].util)
    BY <1>6 DEF Restored
  <2> QED
    BY <1>1, <1>4, <1>5, <1>6, <2>1, WithPIDRows
<1>7. CASE ~ c.applied[c.i].existed
  <2>1. Restored(t) = WithoutPID(c.before, Pid(t))
    BY <1>7 DEF Restored
  <2> QED
    BY <1>1, <1>5, <1>7, <2>1, WithoutPIDRows
<1> QED
  BY <1>6, <1>7

\* The rollback stores, or fails to, and passes its target.
LEMMA RollbackReplaceOK ==
    ASSUME LlamaInv, NEW t \in Goroutine, RollbackReplace(t)
    PROVE  LlamaInv'
<1>1. /\ call[t].kind = "rollback" /\ UNCHANGED <<srv, lost>>
      /\ ReplaceSucceeds(t, Restored(t)) \/ ReplaceFails(t, Restored(t))
      /\ RollbackNext(t)
  BY DEF RollbackReplace, Restored, outside
<1>2. Restored(t) \in Rows /\ SamePIDs(Restored(t)) /\ Found(Pid(t), call[t].i)
  BY <1>1, RollbackDesired, RollbackFacts
<1>3. Surroundings'
  BY <1>1, <1>2, ReplaceSurroundings
<1> QED
  BY <1>1, <1>3, RollbackNextStep

\* The release finds a row, passes a target without one, or notes an error.
LEMMA ReleaseSnapshotOK ==
    ASSUME LlamaInv, NEW t \in Goroutine, ReleaseSnapshot(t)
    PROVE  LlamaInv'
<1> DEFINE s == Pid(t)
           c == call[t]
           d == Observed(dev[Target(t)])
           b == [c EXCEPT !.before = d, !.step = "replace"]
<1>1. Surroundings' /\ UNCHANGED srv
  BY SnapshotSurroundings DEF ReleaseSnapshot, outside
<1>2. c.kind = "release" /\ c.step = "snapshot"
  BY DEF ReleaseSnapshot
<1>3. /\ ReleaseOK(t) /\ s \in Server /\ c \in Call /\ Found(s, c.i)
      /\ c.i \in 1 .. Len(Targets(s))
  BY <1>2, ReleaseFacts
<1>4. c.error \in {"none", "error"}
  BY <1>3 DEF ReleaseOK, Call
<1>5. CASE ReleaseNext(t, c.error) \/ ReleaseNext(t, "error")
  BY <1>1, <1>2, <1>4, <1>5, ReleaseNextStep
<1>6. CASE s \in DOMAIN d.mem /\ Become(t, b)
  <2>1. Target(t) \in GPU
    BY <1>3, TargetFound
  <2>2. d \in Device /\ SamePIDs(d)
    BY <2>1, ObservedFits DEF LlamaInv, DevicesOK
  <2> HIDE DEF d
  <2>3. /\ b \in Call /\ b.kind = "release" /\ b.step = "replace" /\ SamePIDs(b.before)
        /\ b.i = c.i /\ b.before = d /\ b.error = c.error
    BY <1>2, <1>3, <2>2 DEF Call
  <2> HIDE DEF b
  <2>4. Targets(s)' = Targets(s)
    BY <1>1, <1>3, SameConfig
  <2>5. call'[t] = b => ReleaseOK(t)'
    BY <1>1, <1>3, <1>6, <2>3, <2>4 DEF ReleaseOK, WantsRelease
  <2> QED
    BY <1>1, <1>6, <2>3, <2>5, BecomeStep
<1> QED
  BY <1>5, <1>6 DEF ReleaseSnapshot

\* The release takes the row out, or notes an error.
LEMMA ReleaseReplaceOK ==
    ASSUME LlamaInv, NEW t \in Goroutine, ReleaseReplace(t)
    PROVE  LlamaInv'
<1> DEFINE desired == WithoutPID(call[t].before, Pid(t))
<1>1. /\ call[t].kind = "release" /\ call[t].step = "replace" /\ UNCHANGED <<srv, lost>>
      /\ \/ ReplaceSucceeds(t, desired) /\ ReleaseNext(t, call[t].error)
         \/ ReplaceFails(t, desired) /\ ReleaseNext(t, "error")
  BY DEF ReleaseReplace, outside
<1>2. /\ ReleaseOK(t) /\ call[t] \in Call /\ SamePIDs(call[t].before)
      /\ Found(Pid(t), call[t].i) /\ Pid(t) \in PID
  BY <1>1, ReleaseFacts, Goroutines
<1>3. call[t].error \in {"none", "error"} /\ call[t].before \in Device
  BY <1>2 DEF ReleaseOK, Call
<1>4. desired \in Rows /\ SamePIDs(desired)
  BY <1>2, <1>3, WithoutPIDRows
<1> HIDE DEF desired
<1>5. Surroundings'
  BY <1>1, <1>2, <1>4, ReplaceSurroundings
<1> QED
  BY <1>1, <1>3, <1>5, ReleaseNextStep

\* A change of the process and of one of its calls.
LEMMA ProcessStep ==
    ASSUME LlamaInv, NEW s \in Server, NEW p \in Process,
           srv' = [srv EXCEPT ![s] = p], UNCHANGED <<dev, lost, faults>>,
           NEW cm \in Call, NEW cs \in Call,
           call' = [call EXCEPT ![Main(s)] = cm, ![Signal(s)] = cs],
           ProcessOK(s)', CallOK(Main(s))', CallOK(Signal(s))'
    PROVE  LlamaInv'
<1>1. srv' \in [Server -> Process] /\ call' \in [Goroutine -> Call]
  BY Goroutines DEF LlamaInv
<1>2. Elsewhere(s)
  BY Goroutines DEF LlamaInv, Elsewhere, Main, Signal
<1>3. Surroundings'
  BY DEF LlamaInv, Surroundings, DevicesOK
<1> QED
  BY <1>1, <1>2, <1>3, ServerStep

\* ReleaseResources has nothing to do, or withdraws readiness and starts.
LEMMA BeginReleaseOK ==
    ASSUME LlamaInv, NEW t \in Goroutine, BeginRelease(t)
    PROVE  LlamaInv'
<1> DEFINE s == Pid(t)
<1>1. /\ WantsRelease(t) /\ call[t].step = "none" /\ srv[s].releaseMu = "none"
      /\ UNCHANGED <<dev, faults, lost>>
  BY DEF BeginRelease, outside
<1>2. s \in Server /\ srv \in [Server -> Process] /\ call \in [Goroutine -> Call]
      /\ ProcessOK(s)
  BY Goroutines DEF LlamaInv
<1>3. Surroundings'
  BY <1>1 DEF LlamaInv, Surroundings, DevicesOK
<1>4. CASE ~ srv[s].registered /\ Done(t, "none") /\ UNCHANGED srv
  BY <1>1, <1>3, <1>4, DoneStep DEF WantsRelease
<1>5. CASE /\ srv[s].registered
           /\ srv' = [srv EXCEPT ![s].ready = FALSE, ![s].releaseMu = t[2]]
           /\ Become(t, NewCall("release"))
  <2> DEFINE c == NewCall("release")
             p == [srv[s] EXCEPT !.ready = FALSE, !.releaseMu = t[2]]
  <2>1. /\ c \in Call /\ c.kind = "release" /\ c.step = "snapshot" /\ c.i = 1
        /\ SamePIDs(c.before) /\ c.error = "none"
    BY NoCallType DEF NewCall, NoCall, Call
  <2> HIDE DEF c
  <2>2. t[2] \in {"main", "signal"}
    BY Goroutines
  <2>3. srv' = [srv EXCEPT ![s] = p] /\ p \in Process
    BY <1>2, <1>5, <2>2 DEF Process
  <2>4. /\ srv'[s] = p /\ p.cfg = srv[s].cfg /\ p.grown = srv[s].grown /\ p.pc = srv[s].pc
        /\ p.sig = srv[s].sig /\ p.registered = srv[s].registered /\ p.ready = FALSE
        /\ p.releaseMu = t[2] /\ p.err = srv[s].err /\ p.streams = srv[s].streams
    BY <1>2, <2>2, <2>3 DEF Process
  <2> HIDE DEF p
  <2>5. /\ Targets(s)' = Targets(s) /\ (AllFound(s)' <=> AllFound(s))
        /\ (Sized(s)' <=> Sized(s))
    BY <1>2, <2>4, SameConfig
  <2>6. ProcessOK(s)'
    BY <1>2, <2>4, <2>5 DEF ProcessOK
  <2>7. call' = [call EXCEPT ![t] = c]
    BY <1>5 DEF Become, c
  <2>8. call'[t] = c /\ \A u \in Goroutine : u # t => call'[u] = call[u]
    BY <1>2, <2>7
  <2>9. Len(Targets(s)) \in Nat /\ Len(Targets(s)) >= 1
    <3>1. Targets(s) # <<>>
      BY <1>2, <1>5 DEF ProcessOK
    <3> QED
      BY <1>2, <3>1, TargetFields
  <2>10. CallOK(t)'
    <3>0. WantsRelease(t)'
      BY <1>1, <2>4 DEF WantsRelease
    <3>2. srv'[s].registered /\ srv'[s].releaseMu = t[2]
      BY <1>5, <2>4
    <3>3. call'[t].i \in 1 .. Len(Targets(s)') /\ call'[t].step = "snapshot"
          /\ call'[t].error # "oom"
      BY <2>1, <2>5, <2>8, <2>9
    <3>1. ReleaseOK(t)'
      BY <3>0, <3>2, <3>3 DEF ReleaseOK
    <3> QED
      BY <2>1, <2>8, <3>1 DEF CallOK, SamePIDs
  <2>11. ASSUME NEW u \in Goroutine, Pid(u) = s PROVE CallOK(u)'
    <3>1. CASE u = t
      BY <3>1, <2>10
    <3>2. CASE u # t
      <4>1. CallOK(u) /\ call'[u] = call[u]
        BY <3>2, <2>8 DEF LlamaInv
      <4>2. call[u].kind # "release"
        BY <1>1, <2>11, <4>1, Goroutines DEF CallOK, ReleaseOK
      <4> QED
        BY <1>2, <2>4, <2>11, <4>1, <4>2, SameCall
    <3> QED
      BY <3>1, <3>2
  <2>12. Elsewhere(s)
    BY <1>2, <2>3, <2>8, Goroutines DEF Elsewhere
  <2>13. srv' \in [Server -> Process] /\ call' \in [Goroutine -> Call]
    BY <1>2, <2>1, <2>3, <2>7
  <2> QED
    BY <1>2, <1>3, <2>6, <2>11, <2>12, <2>13, Goroutines, ServerStep
<1> QED
  BY <1>4, <1>5 DEF BeginRelease

\* The release is over; without error the server is no longer registered.
LEMMA EndReleaseOK ==
    ASSUME LlamaInv, NEW t \in Goroutine, EndRelease(t)
    PROVE  LlamaInv'
<1> DEFINE s == Pid(t)
           e == call[t].error
           p == [srv[s] EXCEPT !.registered = (e # "none"), !.releaseMu = "none"]
           c == [NoCall EXCEPT !.step = "done", !.error = e]
<1>1. /\ call[t].kind = "release" /\ call[t].step = "end"
      /\ srv' = [srv EXCEPT ![s].registered = (e # "none"), ![s].releaseMu = "none"]
      /\ call' = [call EXCEPT ![t] = c]
      /\ UNCHANGED <<dev, faults, lost>>
  BY DEF EndRelease, EndsRelease, Done, Become, outside
<1>2. s \in Server /\ srv \in [Server -> Process] /\ call \in [Goroutine -> Call]
      /\ ProcessOK(s) /\ ReleaseOK(t) /\ e \in {"none", "error", "oom"}
  BY <1>1, ReleaseFacts DEF LlamaInv, Call
<1>3. Surroundings'
  BY <1>1 DEF LlamaInv, Surroundings, DevicesOK
<1>4. /\ c \in Call /\ c.kind = "none" /\ c.step = "done" /\ c.error = e /\ c.i = 0
      /\ SamePIDs(c.before)
  BY <1>2, NoCallType DEF NoCall, Call
<1>5. srv[s].registered /\ srv[s].releaseMu = t[2] /\ WantsRelease(t)
      /\ t[2] \in {"main", "signal"}
  BY <1>2, Goroutines DEF ReleaseOK
<1> HIDE DEF c
<1>6. srv' = [srv EXCEPT ![s] = p] /\ p \in Process
  <2> DEFINE r == (e # "none")
             q == [srv[s] EXCEPT !.registered = r, !.releaseMu = "none"]
  <2>1. r \in BOOLEAN
    OBVIOUS
  <2>2. p = q
    OBVIOUS
  <2>3. srv' = [srv EXCEPT ![s].registered = r, ![s].releaseMu = "none"]
    BY <1>1
  <2> HIDE DEF r, p
  <2>4. srv' = [srv EXCEPT ![s] = q] /\ q \in Process
    BY <1>2, <2>1, <2>3 DEF Process
  <2> QED
    BY <2>2, <2>4
<1>7. /\ srv'[s] = p /\ p.cfg = srv[s].cfg /\ p.grown = srv[s].grown /\ p.pc = srv[s].pc
      /\ p.sig = srv[s].sig /\ p.registered = (e # "none") /\ p.ready = srv[s].ready
      /\ p.releaseMu = "none" /\ p.err = srv[s].err /\ p.streams = srv[s].streams
  BY <1>2, <1>6 DEF Process
<1> HIDE DEF p
<1>8. /\ Targets(s)' = Targets(s) /\ (AllFound(s)' <=> AllFound(s))
      /\ (Sized(s)' <=> Sized(s))
  BY <1>2, <1>7, SameConfig
<1>9. ProcessOK(s)'
  BY <1>2, <1>5, <1>7, <1>8 DEF ProcessOK
<1>10. call'[t] = c /\ \A u \in Goroutine : u # t => call'[u] = call[u]
  BY <1>1, <1>2
<1>11. CallOK(t)'
  <2>1. WantsRelease(t)'
    BY <1>5, <1>7 DEF WantsRelease
  <2>2. t[2] = "main" => srv'[s].pc = "release"
    BY <1>5, <1>7 DEF WantsRelease
  <2>3. NoneOK(t)'
    BY <1>4, <1>7, <1>10, <2>1, <2>2 DEF NoneOK
  <2> QED
    BY <1>4, <1>10, <2>3 DEF CallOK, SamePIDs
<1>12. ASSUME NEW u \in Goroutine, Pid(u) = s PROVE CallOK(u)'
  <2>1. CASE u = t
    BY <2>1, <1>11
  <2>2. CASE u # t
    <3>1. CallOK(u) /\ call'[u] = call[u]
      BY <2>2, <1>10 DEF LlamaInv
    <3>2. call[u].kind # "release"
      <4>1. u[2] # t[2]
        BY <1>12, <2>2, Goroutines
      <4> QED
        BY <1>5, <1>12, <3>1, <4>1 DEF CallOK, ReleaseOK
    <3> QED
      BY <1>5, <1>7, <1>12, <3>1, <3>2, SameCall
  <2> QED
    BY <2>1, <2>2
<1>13. Elsewhere(s)
  BY <1>2, <1>6, <1>10, Goroutines DEF Elsewhere
<1>14. srv' \in [Server -> Process] /\ call' \in [Goroutine -> Call]
  BY <1>1, <1>2, <1>4, <1>6
<1> QED
  BY <1>2, <1>3, <1>9, <1>12, <1>13, <1>14, Goroutines, ServerStep

-----------------------------------------------------------------------------
(* main and Run. *)

\* Where main is in no call of the registry.
Idle(s) == call[Main(s)].kind = "none" /\ call[Main(s)].step = "none"

\* Outside Register, Resize and a release main is in no registry call.
LEMMA MainIdle ==
    ASSUME LlamaInv, NEW s \in Server, srv[s].pc \notin Applying \cup {"release"}
    PROVE  Idle(s) /\ call[Main(s)].i = 0
<1>1. CallOK(Main(s)) /\ call[Main(s)] \in Call /\ Pid(Main(s)) = s /\ Main(s)[2] = "main"
  BY Goroutines DEF LlamaInv
<1>2. ~ WantsRelease(Main(s))
  BY <1>1 DEF WantsRelease
<1>3. call[Main(s)].kind \in {"none", "apply", "rollback", "release"}
  BY <1>1 DEF Call
<1> QED
  BY <1>1, <1>2, <1>3 DEF CallOK, NoneOK, ApplyOK, RollbackOK, ReleaseOK, Idle

\* What a step of main may do to its process.
Moves(s, p) ==
    /\ p \in Process
    /\ srv' = [srv EXCEPT ![s] = p]
    /\ UNCHANGED <<dev, lost, faults>>
    /\ p.cfg = srv[s].cfg
    /\ p.sig = srv[s].sig
    /\ p.releaseMu = srv[s].releaseMu
    /\ srv[s].registered => p.registered

\* A step of main, which has come to registry call c.
LEMMA MainStep ==
    ASSUME LlamaInv, NEW s \in Server, NEW p, Moves(s, p),
           NEW c \in Call, call' = [call EXCEPT ![Main(s)] = c],
           ProcessOK(s)', CallOK(Main(s))'
    PROVE  LlamaInv'
<1>1. /\ Main(s) \in Goroutine /\ Signal(s) \in Goroutine /\ Main(s) # Signal(s)
      /\ call \in [Goroutine -> Call] /\ srv \in [Server -> Process]
      /\ Pid(Signal(s)) = s /\ Signal(s)[2] = "signal"
  BY Goroutines DEF LlamaInv
<1>2. call'[Signal(s)] = call[Signal(s)] /\ srv'[s] = p
  BY <1>1 DEF Moves
<1>3. CallOK(Signal(s))
  BY <1>1 DEF LlamaInv
<1>4. call[Signal(s)].kind = "release" => srv[s].registered
  BY <1>1, <1>3 DEF CallOK, ReleaseOK
<1>5. CallOK(Signal(s))'
  BY <1>1, <1>2, <1>3, <1>4, SameCall DEF Moves
<1>6. Elsewhere(s)
  BY <1>1, Goroutines DEF Elsewhere, Moves
<1>7. srv' \in [Server -> Process] /\ call' \in [Goroutine -> Call]
  BY <1>1 DEF Moves
<1>8. Surroundings'
  BY DEF LlamaInv, Surroundings, DevicesOK, Moves
<1> QED
  BY <1>5, <1>6, <1>7, <1>8, ServerStep

\* main goes on outside the registry.
LEMMA IdleStep ==
    ASSUME LlamaInv, NEW s \in Server, NEW p, Moves(s, p),
           \/ UNCHANGED call /\ srv[s].pc \notin Applying \cup {"release"}
           \/ call' = [call EXCEPT ![Main(s)] = NoCall],
           p.pc \notin Applying, ProcessOK(s)'
    PROVE  LlamaInv'
<1>1. /\ Main(s) \in Goroutine /\ Pid(Main(s)) = s /\ Main(s)[2] = "main"
      /\ call \in [Goroutine -> Call] /\ srv'[s] = p
  BY Goroutines DEF LlamaInv, Moves
<1>2. PICK c \in Call : /\ call' = [call EXCEPT ![Main(s)] = c]
                        /\ c.kind = "none" /\ c.step = "none" /\ c.i = 0
                        /\ SamePIDs(c.before)
  <2>1. CASE UNCHANGED call /\ srv[s].pc \notin Applying \cup {"release"}
    <3>1. Idle(s) /\ call[Main(s)].i = 0
      BY <2>1, MainIdle
    <3>2. call' = [call EXCEPT ![Main(s)] = call[Main(s)]] /\ call[Main(s)] \in Call
      BY <1>1, <2>1
    <3>3. SamePIDs(call[Main(s)].before)
      BY <1>1 DEF LlamaInv, CallOK
    <3> QED
      BY <3>1, <3>2, <3>3 DEF Idle
  <2>2. CASE call' = [call EXCEPT ![Main(s)] = NoCall]
    BY <2>2, NoCallType DEF NoCall
  <2> QED
    BY <2>1, <2>2
<1>3. call'[Main(s)] = c
  BY <1>1, <1>2
<1>4. NoneOK(Main(s))'
  BY <1>1, <1>2, <1>3 DEF NoneOK
<1>5. CallOK(Main(s))'
  BY <1>2, <1>3, <1>4 DEF CallOK, SamePIDs
<1> QED
  BY <1>2, <1>5, MainStep

\* main calls Register or Resize.
LEMMA ApplyBegins ==
    ASSUME LlamaInv, NEW s \in Server, NEW p, Moves(s, p),
           Become(Main(s), NewCall("apply")), p.pc \in Applying, ProcessOK(s)'
    PROVE  LlamaInv'
<1> DEFINE c == NewCall("apply")
<1>1. /\ Main(s) \in Goroutine /\ Pid(Main(s)) = s /\ Main(s)[2] = "main"
      /\ call \in [Goroutine -> Call] /\ srv'[s] = p /\ srv \in [Server -> Process]
  BY Goroutines DEF LlamaInv, Moves
<1>2. /\ c \in Call /\ c.kind = "apply" /\ c.step = "snapshot" /\ c.i = 1
      /\ SamePIDs(c.before) /\ c.applied = <<>>
  BY NoCallType DEF NewCall, NoCall, Call
<1> HIDE DEF c
<1>3. call' = [call EXCEPT ![Main(s)] = c]
  BY DEF Become, c
<1>4. call'[Main(s)] = c
  BY <1>1, <1>3
<1>5. Targets(s)' = Targets(s) /\ Targets(s)' # <<>>
  <2>1. Targets(s)' = Targets(s)
    BY <1>1, SameConfig DEF Moves
  <2> QED
    BY <1>1, <2>1 DEF ProcessOK, Applying
<1>6. Len(Targets(s)') \in Nat /\ Len(Targets(s)') >= 1
  BY <1>1, <1>5, TargetFields
<1>7. ApplyOK(Main(s))'
  BY <1>1, <1>2, <1>4, <1>6 DEF ApplyOK
<1>8. CallOK(Main(s))'
  BY <1>2, <1>4, <1>7 DEF CallOK, SamePIDs
<1> QED
  BY <1>2, <1>3, <1>8, MainStep

\* The process ends.
LEMMA ExitOK ==
    ASSUME LlamaInv, NEW s \in Server, UNCHANGED <<dev, lost, faults>>,
           NEW where \in {"exited", "abandoned"}, NEW why \in Errors, Exit(s, where, why),
           where = "abandoned" => srv[s].pc \notin {"main", "exited"},
           why \in FailedErrors => ~ srv[s].registered
    PROVE  LlamaInv'
<1> DEFINE p == [Launched(srv[s].cfg, why) EXCEPT
                   !.pc = where, !.cancelled = srv[s].cancelled,
                   !.grown = srv[s].grown, !.registered = srv[s].registered]
<1>1. /\ srv \in [Server -> Process] /\ srv[s] \in Process /\ ProcessOK(s)
      /\ call \in [Goroutine -> Call]
      /\ Main(s) \in Goroutine /\ Signal(s) \in Goroutine /\ Main(s) # Signal(s)
  BY Goroutines DEF LlamaInv
<1>2. /\ srv[s].cfg \in Configs /\ srv[s].cancelled \in BOOLEAN
      /\ srv[s].grown \in BOOLEAN /\ srv[s].registered \in BOOLEAN
  BY <1>1 DEF Process
<1>3. 0 \in 0 .. MaxStreams /\ 0 \in 0 .. SignalBuffer
  BY ServerAssumption DEF SignalBuffer
<1>4. /\ p \in Process /\ p.pc = where /\ p.cfg = srv[s].cfg /\ p.err = why
      /\ p.grown = srv[s].grown /\ p.registered = srv[s].registered /\ ~ p.ready
      /\ p.streams = 0 /\ p.sig = "waiting"
  BY <1>2, <1>3 DEF Launched, Process, Places
<1>5. srv' = [srv EXCEPT ![s] = p]
      /\ call' = [call EXCEPT ![Main(s)] = NoCall, ![Signal(s)] = NoCall]
  BY DEF Exit
<1> HIDE DEF p
<1>6. srv'[s] = p /\ call'[Main(s)] = NoCall /\ call'[Signal(s)] = NoCall
  BY <1>1, <1>5
<1>7. /\ Targets(s)' = Targets(s) /\ (AllFound(s)' <=> AllFound(s))
      /\ (Sized(s)' <=> Sized(s))
  BY <1>4, <1>6, SameConfig
<1>8. ProcessOK(s)'
  BY <1>1, <1>4, <1>6, <1>7 DEF ProcessOK, Before, Applying, FailedErrors
<1>9. ASSUME NEW u \in {Main(s), Signal(s)} PROVE CallOK(u)'
  <2>1. /\ call'[u].kind = "none" /\ call'[u].step = "none" /\ call'[u].i = 0
        /\ SamePIDs(call'[u].before)
    BY <1>6, NoCallType DEF NoCall
  <2>2. Pid(u) = s
    BY Goroutines
  <2>3. NoneOK(u)'
    BY <1>4, <1>6, <2>1, <2>2 DEF NoneOK, Applying
  <2> QED
    BY <2>1, <2>3 DEF CallOK, SamePIDs
<1> QED
  BY <1>1, <1>4, <1>5, <1>8, <1>9, NoCallType, ProcessStep

\* The facts about a process that its steps start from.
LEMMA ProcessFacts ==
    ASSUME LlamaInv, NEW s \in Server
    PROVE  /\ srv \in [Server -> Process] /\ srv[s] \in Process /\ ProcessOK(s)
           /\ srv[s].registered \in BOOLEAN /\ srv[s].err \in Errors
           /\ srv[s].streams \in Nat /\ srv[s].pending \in Nat
BY ServerAssumption DEF LlamaInv, Process, SignalBuffer

\* main goes to another place.
LEMMA GotoOK ==
    ASSUME LlamaInv, NEW s \in Server, NEW where \in Places, Goto(s, where),
           UNCHANGED <<dev, lost, faults>>,
           \/ UNCHANGED call /\ srv[s].pc \notin Applying \cup {"release"}
           \/ call' = [call EXCEPT ![Main(s)] = NoCall],
           where \notin Applying \cup {"loading", "main", "exited"},
           where \in {"gate", "start"} => srv[s].pc \in Before,
           where = "serving" => srv[s].pc = "resize",
           where \notin {"serving", "cleanup"} => ~ srv[s].ready,
           where \notin {"serving", "cleanup"} => srv[s].streams = 0,
           srv[s].pc = "main" => srv[s].err # "usage", srv[s].pc # "exited"
    PROVE  LlamaInv'
<1> DEFINE p == [srv[s] EXCEPT !.pc = where]
<1>1. /\ srv \in [Server -> Process] /\ srv[s] \in Process /\ ProcessOK(s)
      /\ srv[s].streams \in Nat
  BY ProcessFacts
<1>2. srv' = [srv EXCEPT ![s] = p]
  BY <1>1 DEF Goto
<1>3. /\ p \in Process /\ p.pc = where /\ p.cfg = srv[s].cfg /\ p.err = srv[s].err
      /\ p.grown = srv[s].grown /\ p.registered = srv[s].registered
      /\ p.ready = srv[s].ready /\ p.streams = srv[s].streams /\ p.sig = srv[s].sig
      /\ p.releaseMu = srv[s].releaseMu
  BY <1>1 DEF Process
<1> HIDE DEF p
<1>4. srv'[s] = p
  BY <1>1, <1>2
<1>5. /\ Targets(s)' = Targets(s) /\ (AllFound(s)' <=> AllFound(s))
      /\ (Sized(s)' <=> Sized(s))
  BY <1>3, <1>4, SameConfig
<1>6. ProcessOK(s)'
  BY <1>1, <1>3, <1>4, <1>5 DEF ProcessOK, Before, Applying
<1>7. Moves(s, p)
  BY <1>2, <1>3 DEF Moves
<1> QED
  BY <1>3, <1>6, <1>7, IdleStep

\* Run returns.
LEMMA LeaveOK ==
    ASSUME LlamaInv, NEW s \in Server, NEW why \in Errors, Leave(s, why),
           UNCHANGED <<dev, lost, faults>>,
           \/ UNCHANGED call /\ srv[s].pc \notin Applying \cup {"release"}
           \/ call' = [call EXCEPT ![Main(s)] = NoCall],
           srv[s].pc \notin {"main", "exited"},
           why \in FailedErrors => ~ srv[s].registered
    PROVE  LlamaInv'
<1> DEFINE p == [srv[s] EXCEPT !.pc = "cleanup", !.err = why]
<1>1. /\ srv \in [Server -> Process] /\ srv[s] \in Process /\ ProcessOK(s)
  BY ProcessFacts
<1>2. srv' = [srv EXCEPT ![s] = p]
  BY <1>1 DEF Leave
<1>3. /\ p \in Process /\ p.pc = "cleanup" /\ p.cfg = srv[s].cfg /\ p.err = why
      /\ p.grown = srv[s].grown /\ p.registered = srv[s].registered
      /\ p.ready = srv[s].ready /\ p.streams = srv[s].streams /\ p.sig = srv[s].sig
      /\ p.releaseMu = srv[s].releaseMu
  BY <1>1 DEF Process, Places
<1> HIDE DEF p
<1>4. srv'[s] = p
  BY <1>1, <1>2
<1>5. /\ Targets(s)' = Targets(s) /\ (AllFound(s)' <=> AllFound(s))
      /\ (Sized(s)' <=> Sized(s))
  BY <1>3, <1>4, SameConfig
<1>6. ProcessOK(s)'
  BY <1>1, <1>3, <1>4, <1>5 DEF ProcessOK, Before, Applying, FailedErrors
<1>7. Moves(s, p)
  BY <1>2, <1>3 DEF Moves
<1> QED
  BY <1>3, <1>6, <1>7, IdleStep DEF Applying

\* The steps of main, one by one.
LEMMA ParseOK ==
    ASSUME LlamaInv, NEW s \in Server, Parse(s) PROVE LlamaInv'
<1>1. srv[s].pc = "main" /\ UNCHANGED <<dev, lost, faults>>
  BY DEF Parse, At
<1>2. ProcessOK(s) /\ srv[s].streams \in Nat
  BY ProcessFacts
<1>3. CASE Exit(s, "exited", "usage")
  BY <1>1, <1>3, ExitOK DEF Errors, FailedErrors
<1>4. CASE srv[s].err = "none" /\ Goto(s, "gate") /\ UNCHANGED call
  BY <1>1, <1>2, <1>4, GotoOK DEF Places, Applying, Before, ProcessOK
<1> QED
  BY <1>3, <1>4 DEF Parse

\* The register gate opens, or the start fails.
LEMMA GateOK ==
    ASSUME LlamaInv, NEW s \in Server, WaitForRegisterGate(s) PROVE LlamaInv'
<1>1. srv[s].pc = "gate" /\ UNCHANGED <<dev, lost, faults>>
  BY DEF WaitForRegisterGate, At, outside
<1>2. ProcessOK(s) /\ srv[s].streams \in Nat
  BY ProcessFacts
<1>3. CASE Exit(s, "exited", "startup")
  BY <1>1, <1>3, ExitOK DEF Errors, FailedErrors
<1>4. CASE Goto(s, "start") /\ UNCHANGED call
  BY <1>1, <1>2, <1>4, GotoOK DEF Places, Applying, Before, ProcessOK
<1> QED
  BY <1>3, <1>4 DEF WaitForRegisterGate

\* Run asks for its size and calls Register, or gives up.
LEMMA StartOK ==
    ASSUME LlamaInv, NEW s \in Server, Start(s) PROVE LlamaInv'
<1>1. srv[s].pc = "start" /\ UNCHANGED <<dev, lost, faults>>
  BY DEF Start, At, outside
<1>2. /\ srv \in [Server -> Process] /\ srv[s] \in Process /\ ProcessOK(s)
      /\ srv[s].streams \in Nat
  BY ProcessFacts
<1>3. CASE Exit(s, "exited", "startup")
  BY <1>1, <1>3, ExitOK DEF Errors, FailedErrors
<1>4. CASE Leave(s, "oom") /\ UNCHANGED call
  BY <1>1, <1>2, <1>4, LeaveOK DEF Errors, Applying, Before, ProcessOK
<1>5. CASE /\ CanRequire(srv[s].cfg)
           /\ Goto(s, "register") /\ Become(Main(s), NewCall("apply"))
  <2> DEFINE p == [srv[s] EXCEPT !.pc = "register"]
  <2>2. srv' = [srv EXCEPT ![s] = p]
    BY <1>2, <1>5 DEF Goto
  <2>3. /\ p \in Process /\ p.pc = "register" /\ p.cfg = srv[s].cfg /\ p.err = srv[s].err
        /\ p.grown = srv[s].grown /\ p.registered = srv[s].registered
        /\ p.ready = srv[s].ready /\ p.streams = srv[s].streams /\ p.sig = srv[s].sig
        /\ p.releaseMu = srv[s].releaseMu
    BY <1>2 DEF Process, Places
  <2> HIDE DEF p
  <2>4. srv'[s] = p
    BY <1>2, <2>2
  <2>5. /\ Targets(s)' = Targets(s) /\ (AllFound(s)' <=> AllFound(s))
        /\ (Sized(s)' <=> Sized(s))
    BY <2>3, <2>4, SameConfig
  <2>6. Sized(s)
    BY <1>1, <1>2, <1>5 DEF Sized, ProcessOK, Before
  <2>7. ProcessOK(s)'
    BY <1>1, <1>2, <2>3, <2>4, <2>5, <2>6 DEF ProcessOK, Before, Applying
  <2>8. Moves(s, p)
    BY <1>1, <2>2, <2>3 DEF Moves
  <2> QED
    BY <1>5, <2>3, <2>7, <2>8, ApplyBegins DEF Applying
<1> QED
  BY <1>3, <1>4, <1>5 DEF Start

\* The result of a registry call of main.
LEMMA MainDone ==
    ASSUME LlamaInv, NEW s \in Server, call[Main(s)].step = "done"
    PROVE  NoneOK(Main(s)) /\ call[Main(s)].kind = "none"
<1>1. CallOK(Main(s)) /\ call[Main(s)] \in Call
  BY Goroutines DEF LlamaInv
<1>2. call[Main(s)].kind \in {"none", "apply", "rollback", "release"}
  BY <1>1 DEF Call
<1> QED
  BY <1>1, <1>2 DEF CallOK, ApplyOK, RollbackOK, ReleaseOK

\* Register has returned.
LEMMA RegisteredOK ==
    ASSUME LlamaInv, NEW s \in Server, Registered(s) PROVE LlamaInv'
<1>1. /\ srv[s].pc = "register" /\ UNCHANGED <<dev, lost, faults>>
      /\ call[Main(s)].step = "done" /\ call' = [call EXCEPT ![Main(s)] = NoCall]
  BY DEF Registered, At, outside, Become
<1>2. /\ srv \in [Server -> Process] /\ srv[s] \in Process /\ ProcessOK(s)
      /\ NoneOK(Main(s)) /\ call[Main(s)].kind = "none"
      /\ Pid(Main(s)) = s /\ Main(s)[2] = "main"
  BY <1>1, ProcessFacts, MainDone, Goroutines
<1>3. CASE Leave(s, "oom") \/ Leave(s, "register")
  BY <1>1, <1>2, <1>3, LeaveOK DEF Errors, Applying, Before, ProcessOK, FailedErrors
<1>4. CASE /\ call[Main(s)].error = "none"
           /\ srv' = [srv EXCEPT ![s].pc = "loading", ![s].registered = TRUE]
  <2> DEFINE p == [srv[s] EXCEPT !.pc = "loading", !.registered = TRUE]
  <2>2. srv' = [srv EXCEPT ![s] = p]
    BY <1>2, <1>4
  <2>3. /\ p \in Process /\ p.pc = "loading" /\ p.cfg = srv[s].cfg /\ p.err = srv[s].err
        /\ p.grown = srv[s].grown /\ p.registered = TRUE
        /\ p.ready = srv[s].ready /\ p.streams = srv[s].streams /\ p.sig = srv[s].sig
        /\ p.releaseMu = srv[s].releaseMu
    BY <1>2 DEF Process, Places
  <2> HIDE DEF p
  <2>4. srv'[s] = p
    BY <1>2, <2>2
  <2>5. /\ Targets(s)' = Targets(s) /\ (AllFound(s)' <=> AllFound(s))
        /\ (Sized(s)' <=> Sized(s))
    BY <2>3, <2>4, SameConfig
  <2>6. AllFound(s)
    BY <1>1, <1>2, <1>4 DEF NoneOK
  <2>7. ProcessOK(s)'
    BY <1>1, <1>2, <2>3, <2>4, <2>5, <2>6 DEF ProcessOK, Before, Applying
  <2>8. Moves(s, p)
    BY <1>1, <2>2, <2>3 DEF Moves
  <2> QED
    BY <1>1, <2>3, <2>7, <2>8, IdleStep DEF Applying
<1> QED
  BY <1>3, <1>4 DEF Registered

\* The model is loaded: the server is ready.
LEMMA LoadOK ==
    ASSUME LlamaInv, NEW s \in Server, Load(s) PROVE LlamaInv'
<1> DEFINE p == [srv[s] EXCEPT !.pc = "serving", !.ready = TRUE]
<1>1. /\ srv[s].pc = "loading" /\ UNCHANGED <<dev, lost, faults, call>>
      /\ srv' = [srv EXCEPT ![s].pc = "serving", ![s].ready = TRUE]
  BY DEF Load, At, outside
<1>2. /\ srv \in [Server -> Process] /\ srv[s] \in Process /\ ProcessOK(s)
  BY ProcessFacts
<1>3. srv' = [srv EXCEPT ![s] = p]
  BY <1>1, <1>2
<1>4. /\ p \in Process /\ p.pc = "serving" /\ p.cfg = srv[s].cfg /\ p.err = srv[s].err
      /\ p.grown = srv[s].grown /\ p.registered = srv[s].registered
      /\ p.streams = srv[s].streams /\ p.sig = srv[s].sig
      /\ p.releaseMu = srv[s].releaseMu
  BY <1>2 DEF Process, Places
<1> HIDE DEF p
<1>5. srv'[s] = p
  BY <1>2, <1>3
<1>6. /\ Targets(s)' = Targets(s) /\ (AllFound(s)' <=> AllFound(s))
      /\ (Sized(s)' <=> Sized(s))
  BY <1>4, <1>5, SameConfig
<1>7. ProcessOK(s)'
  BY <1>1, <1>2, <1>4, <1>5, <1>6 DEF ProcessOK, Before, Applying
<1>8. Moves(s, p)
  BY <1>1, <1>3, <1>4 DEF Moves
<1> QED
  BY <1>1, <1>4, <1>7, <1>8, IdleStep DEF Applying

\* The context is cancelled before or while the server runs.
LEMMA InterruptedOK ==
    ASSUME LlamaInv, NEW s \in Server, Interrupted(s) PROVE LlamaInv'
<1>1. UNCHANGED <<dev, lost, faults>>
  BY DEF Interrupted, outside
<1>2. CASE srv[s].pc = "gate" /\ Exit(s, "exited", "none")
  BY <1>1, <1>2, ExitOK DEF Errors, FailedErrors
<1>3. CASE srv[s].pc \in {"serving", "loading"} /\ Goto(s, "cleanup") /\ UNCHANGED call
  BY <1>1, <1>3, GotoOK DEF Places, Applying, Before
<1> QED
  BY <1>2, <1>3 DEF Interrupted, At

\* The HTTP server fails.
LEMMA ServeFailsOK ==
    ASSUME LlamaInv, NEW s \in Server, ServeFails(s) PROVE LlamaInv'
<1>1. /\ UNCHANGED <<dev, lost, faults, call>> /\ srv[s].pc \in {"serving", "loading"}
      /\ Leave(s, "serve")
  BY DEF ServeFails, At, outside
<1> QED
  BY <1>1, LeaveOK DEF Errors, Applying, FailedErrors

\* The crash delay is over.
LEMMA CrashOK ==
    ASSUME LlamaInv, NEW s \in Server, Crash(s) PROVE LlamaInv'
<1> DEFINE p == [srv[s] EXCEPT !.pc = "cleanup", !.err = "crash", !.ready = FALSE]
<1>1. /\ srv[s].pc = "serving" /\ UNCHANGED <<dev, lost, faults, call>>
      /\ srv' = [srv EXCEPT ![s].pc = "cleanup", ![s].err = "crash", ![s].ready = FALSE]
  BY DEF Crash, At, outside
<1>2. /\ srv \in [Server -> Process] /\ srv[s] \in Process /\ ProcessOK(s)
  BY ProcessFacts
<1>3. srv' = [srv EXCEPT ![s] = p]
  BY <1>1, <1>2
<1>4. /\ p \in Process /\ p.pc = "cleanup" /\ p.cfg = srv[s].cfg /\ p.err = "crash"
      /\ p.grown = srv[s].grown /\ p.registered = srv[s].registered
      /\ p.ready = FALSE /\ p.streams = srv[s].streams /\ p.sig = srv[s].sig
      /\ p.releaseMu = srv[s].releaseMu
  BY <1>2 DEF Process, Places, Errors
<1> HIDE DEF p
<1>5. srv'[s] = p
  BY <1>2, <1>3
<1>6. /\ Targets(s)' = Targets(s) /\ (AllFound(s)' <=> AllFound(s))
      /\ (Sized(s)' <=> Sized(s))
  BY <1>4, <1>5, SameConfig
<1>7. ProcessOK(s)'
  BY <1>1, <1>2, <1>4, <1>5, <1>6 DEF ProcessOK, Before, Applying
<1>8. Moves(s, p)
  BY <1>1, <1>3, <1>4 DEF Moves
<1> QED
  BY <1>1, <1>4, <1>7, <1>8, IdleStep DEF Applying

\* The growth delay is over: Resize, or an error.
LEMMA GrowOK ==
    ASSUME LlamaInv, NEW s \in Server, Grow(s) PROVE LlamaInv'
<1>1. srv[s].pc = "serving" /\ UNCHANGED <<dev, lost, faults>> /\ ~ srv[s].grown
  BY DEF Grow, At, outside
<1>2. /\ srv \in [Server -> Process] /\ srv[s] \in Process /\ ProcessOK(s)
  BY ProcessFacts
<1>3. CASE Leave(s, "growth") /\ UNCHANGED call
  BY <1>1, <1>2, <1>3, LeaveOK DEF Errors, Applying, FailedErrors
<1>4. CASE /\ AddFits(Bytes(s), srv[s].cfg.growth)
           /\ srv' = [srv EXCEPT ![s].pc = "resize", ![s].grown = TRUE]
           /\ Become(Main(s), NewCall("apply"))
  <2> DEFINE p == [srv[s] EXCEPT !.pc = "resize", !.grown = TRUE]
  <2>2. srv' = [srv EXCEPT ![s] = p]
    BY <1>2, <1>4
  <2>3. /\ p \in Process /\ p.pc = "resize" /\ p.cfg = srv[s].cfg /\ p.err = srv[s].err
        /\ p.grown = TRUE /\ p.registered = srv[s].registered
        /\ p.ready = srv[s].ready /\ p.streams = srv[s].streams /\ p.sig = srv[s].sig
        /\ p.releaseMu = srv[s].releaseMu
    BY <1>2 DEF Process, Places
  <2> HIDE DEF p
  <2>4. srv'[s] = p
    BY <1>2, <2>2
  <2>5. Targets(s)' = Targets(s) /\ (AllFound(s)' <=> AllFound(s))
    BY <2>3, <2>4, SameConfig
  <2>6. RequiredVRAMBytes(srv[s].cfg) \in Int /\ Sized(s)
    <3>1. Sized(s)
      BY <1>1, <1>2 DEF ProcessOK
    <3>2. WellFormed(srv[s].cfg)
      BY <1>2, TargetFields
    <3> QED
      BY <3>1, <3>2, CommandsAssumption
      DEF RequiredVRAMBytes, BaseBytes, KVBytes, WellFormed, Sized, CanRequire
  <2>7. Bytes(s) = RequiredVRAMBytes(srv[s].cfg)
    BY <1>1, <2>6 DEF Bytes
  <2>8. Sized(s)'
    BY <1>4, <2>3, <2>4, <2>6, <2>7 DEF Sized
  <2>9. ProcessOK(s)'
    BY <1>1, <1>2, <2>3, <2>4, <2>5, <2>8 DEF ProcessOK, Before, Applying
  <2>10. Moves(s, p)
    BY <1>1, <2>2, <2>3 DEF Moves
  <2> QED
    BY <1>4, <2>3, <2>9, <2>10, ApplyBegins DEF Applying
<1> QED
  BY <1>3, <1>4 DEF Grow

\* Resize has returned.
LEMMA ResizedOK ==
    ASSUME LlamaInv, NEW s \in Server, Resized(s) PROVE LlamaInv'
<1>1. /\ srv[s].pc = "resize" /\ UNCHANGED <<dev, lost, faults>>
      /\ call' = [call EXCEPT ![Main(s)] = NoCall]
  BY DEF Resized, At, outside, Become
<1>2. CASE Goto(s, "serving")
  BY <1>1, <1>2, GotoOK DEF Places, Applying
<1>3. CASE Leave(s, "growth")
  BY <1>1, <1>3, LeaveOK DEF Errors, FailedErrors
<1> QED
  BY <1>2, <1>3 DEF Resized

\* Run's cleanup withdraws readiness.
LEMMA CleanupOK ==
    ASSUME LlamaInv, NEW s \in Server, Cleanup(s) PROVE LlamaInv'
<1> DEFINE p == [srv[s] EXCEPT !.pc = "draining", !.ready = FALSE]
<1>1. /\ srv[s].pc = "cleanup" /\ UNCHANGED <<dev, lost, faults, call>>
      /\ srv' = [srv EXCEPT ![s].pc = "draining", ![s].ready = FALSE]
  BY DEF Cleanup, At, outside
<1>2. /\ srv \in [Server -> Process] /\ srv[s] \in Process /\ ProcessOK(s)
  BY ProcessFacts
<1>3. srv' = [srv EXCEPT ![s] = p]
  BY <1>1, <1>2
<1>4. /\ p \in Process /\ p.pc = "draining" /\ p.cfg = srv[s].cfg /\ p.err = srv[s].err
      /\ p.grown = srv[s].grown /\ p.registered = srv[s].registered
      /\ p.ready = FALSE /\ p.streams = srv[s].streams /\ p.sig = srv[s].sig
      /\ p.releaseMu = srv[s].releaseMu
  BY <1>2 DEF Process, Places
<1> HIDE DEF p
<1>5. srv'[s] = p
  BY <1>2, <1>3
<1>6. /\ Targets(s)' = Targets(s) /\ (AllFound(s)' <=> AllFound(s))
      /\ (Sized(s)' <=> Sized(s))
  BY <1>4, <1>5, SameConfig
<1>7. ProcessOK(s)'
  BY <1>1, <1>2, <1>4, <1>5, <1>6 DEF ProcessOK, Before, Applying
<1>8. Moves(s, p)
  BY <1>1, <1>3, <1>4 DEF Moves
<1> QED
  BY <1>1, <1>4, <1>7, <1>8, IdleStep DEF Applying

\* The last stream has ended.
LEMMA DrainedOK ==
    ASSUME LlamaInv, NEW s \in Server, Drained(s) PROVE LlamaInv'
<1>1. /\ srv[s].pc = "draining" /\ UNCHANGED <<dev, lost, faults, call>>
      /\ Goto(s, "release") /\ srv[s].streams = 0
  BY DEF Drained, At, outside
<1>2. ~ srv[s].ready
  BY <1>1, ProcessFacts DEF ProcessOK
<1> QED
  BY <1>1, <1>2, GotoOK DEF Places, Applying

\* The streams that are left are cut off.
LEMMA DrainTimeoutOK ==
    ASSUME LlamaInv, NEW s \in Server, DrainTimeout(s) PROVE LlamaInv'
<1> DEFINE p == [srv[s] EXCEPT !.pc = "release", !.streams = 0]
<1>1. /\ srv[s].pc = "draining" /\ UNCHANGED <<dev, lost, faults, call>>
      /\ srv' = [srv EXCEPT ![s].pc = "release", ![s].streams = 0]
  BY DEF DrainTimeout, At, outside
<1>2. /\ srv \in [Server -> Process] /\ srv[s] \in Process /\ ProcessOK(s)
  BY ProcessFacts
<1>3. srv' = [srv EXCEPT ![s] = p]
  BY <1>1, <1>2
<1>4. /\ p \in Process /\ p.pc = "release" /\ p.cfg = srv[s].cfg /\ p.err = srv[s].err
      /\ p.grown = srv[s].grown /\ p.registered = srv[s].registered
      /\ p.ready = srv[s].ready /\ p.streams = 0 /\ p.sig = srv[s].sig
      /\ p.releaseMu = srv[s].releaseMu
  <2>1. 0 \in 0 .. MaxStreams
    BY ServerAssumption
  <2> QED
    BY <1>2, <2>1 DEF Process, Places
<1> HIDE DEF p
<1>5. srv'[s] = p
  BY <1>2, <1>3
<1>6. /\ Targets(s)' = Targets(s) /\ (AllFound(s)' <=> AllFound(s))
      /\ (Sized(s)' <=> Sized(s))
  BY <1>4, <1>5, SameConfig
<1>7. ProcessOK(s)'
  BY <1>1, <1>2, <1>4, <1>5, <1>6 DEF ProcessOK, Before, Applying
<1>8. Moves(s, p)
  BY <1>1, <1>3, <1>4 DEF Moves
<1> QED
  BY <1>1, <1>4, <1>7, <1>8, IdleStep DEF Applying

\* The release has returned.
LEMMA ReleasedOK ==
    ASSUME LlamaInv, NEW s \in Server, Released(s) PROVE LlamaInv'
<1>1. /\ srv[s].pc = "release" /\ UNCHANGED <<dev, lost, faults>>
  BY DEF Released, At, outside
<1>2. /\ srv[s].err \in Errors /\ ProcessOK(s) /\ srv[s].streams \in Nat
  BY ProcessFacts
<1>3. CASE Exit(s, "exited", srv[s].err)
  BY <1>1, <1>2, <1>3, ExitOK DEF FailedErrors, ProcessOK
<1>4. CASE Goto(s, "retry") /\ call' = [call EXCEPT ![Main(s)] = NoCall]
  <2>1. srv[s].streams = 0 /\ ~ srv[s].ready
    BY <1>1, <1>2 DEF ProcessOK
  <2> QED
    BY <1>1, <1>4, <2>1, GotoOK DEF Places, Applying
<1> QED
  BY <1>3, <1>4 DEF Released, Become

\* The release is tried again, or given up.
LEMMA RetryOK ==
    ASSUME LlamaInv, NEW s \in Server, Retry(s) PROVE LlamaInv'
<1>1. /\ srv[s].pc = "retry" /\ UNCHANGED <<dev, lost, faults>>
  BY DEF Retry, At, outside
<1>2. /\ srv[s].err \in Errors /\ ProcessOK(s) /\ srv[s].streams \in Nat
  BY ProcessFacts
<1>3. CASE Exit(s, "abandoned", srv[s].err)
  BY <1>1, <1>2, <1>3, ExitOK DEF FailedErrors, ProcessOK
<1>4. CASE Goto(s, "release") /\ UNCHANGED call
  BY <1>1, <1>2, <1>4, GotoOK DEF Places, Applying, ProcessOK
<1> QED
  BY <1>3, <1>4 DEF Retry

-----------------------------------------------------------------------------
(* The signal goroutine, the streams, and time. *)

\* main stays where it is.
Aside(s, p) ==
    /\ p \in Process
    /\ srv' = [srv EXCEPT ![s] = p]
    /\ UNCHANGED <<dev, lost, faults>>
    /\ p.cfg = srv[s].cfg
    /\ p.grown = srv[s].grown
    /\ p.pc = srv[s].pc
    /\ p.registered = srv[s].registered
    /\ p.releaseMu = srv[s].releaseMu
    /\ p.err = srv[s].err

\* A step of s that leaves its place in Run and its registration alone.
LEMMA AsideStep ==
    ASSUME LlamaInv, NEW s \in Server, NEW p, Aside(s, p),
           p.ready => srv[s].ready,
           p.streams > 0 => p.pc \in {"serving", "resize", "cleanup", "draining"},
           p.sig = "release" => p.cfg.hangShutdown,
           \/ UNCHANGED call /\ p.sig = srv[s].sig
           \/ /\ UNCHANGED call
              /\ call[Signal(s)].kind = "none" /\ call[Signal(s)].step = "none"
           \/ call' = [call EXCEPT ![Signal(s)] = NoCall]
    PROVE  LlamaInv'
<1>1. /\ srv \in [Server -> Process] /\ srv[s] \in Process /\ ProcessOK(s)
      /\ call \in [Goroutine -> Call]
      /\ Main(s) \in Goroutine /\ Signal(s) \in Goroutine /\ Main(s) # Signal(s)
      /\ Pid(Main(s)) = s /\ Main(s)[2] = "main"
      /\ Pid(Signal(s)) = s /\ Signal(s)[2] = "signal"
  BY ProcessFacts, Goroutines DEF LlamaInv
<1>2. srv'[s] = p
  BY <1>1 DEF Aside
<1>3. /\ Targets(s)' = Targets(s) /\ (AllFound(s)' <=> AllFound(s))
      /\ (Sized(s)' <=> Sized(s))
  BY <1>2, SameConfig DEF Aside
<1>4. ProcessOK(s)'
  BY <1>1, <1>2, <1>3 DEF ProcessOK, Aside
<1>5. call' \in [Goroutine -> Call] /\ \A u \in Goroutine : u # Signal(s) => call'[u] = call[u]
  BY <1>1, NoCallType
<1>6. \A u \in Goroutine :
         CallOK(u) /\ (call[u].kind = "release" => srv[Pid(u)].registered)
  BY DEF LlamaInv, CallOK, ReleaseOK
<1>7. CallOK(Main(s))'
  BY <1>1, <1>2, <1>5, <1>6, SameCall DEF Aside
<1>8. CallOK(Signal(s))'
  <2>1. CASE UNCHANGED call /\ p.sig = srv[s].sig
    BY <1>1, <1>2, <1>6, <2>1, SameCall DEF Aside
  <2>2. CASE /\ UNCHANGED call
             /\ call[Signal(s)].kind = "none" /\ call[Signal(s)].step = "none"
    <3>1. NoneOK(Signal(s))'
      BY <1>1, <1>6, <2>2 DEF NoneOK, CallOK
    <3> QED
      BY <1>1, <1>6, <2>2, <3>1 DEF CallOK, SamePIDs
  <2>3. CASE call' = [call EXCEPT ![Signal(s)] = NoCall]
    <3>1. call'[Signal(s)] = NoCall
      BY <1>1, <2>3
    <3>2. NoneOK(Signal(s))'
      BY <1>1, <3>1 DEF NoneOK, NoCall
    <3>3. NoCall.kind = "none" /\ SamePIDs(NoCall.before)
      BY NoCallType DEF NoCall
    <3> QED
      BY <3>1, <3>2, <3>3 DEF CallOK, SamePIDs
  <2> QED
    BY <2>1, <2>2, <2>3
<1>9. Elsewhere(s)
  BY <1>1, <1>5, Goroutines DEF Elsewhere, Aside
<1>10. srv' \in [Server -> Process]
  BY <1>1 DEF Aside
<1>11. Surroundings'
  BY DEF LlamaInv, Surroundings, DevicesOK, Aside
<1> QED
  BY <1>4, <1>5, <1>7, <1>8, <1>9, <1>10, <1>11, ServerStep

\* The deadline of main's release passes.
LEMMA ReleaseDeadlineOK ==
    ASSUME LlamaInv, NEW s \in Server, ReleaseDeadline(s) PROVE LlamaInv'
<1> DEFINE p == [srv[s] EXCEPT !.expired = TRUE]
<1>1. /\ UNCHANGED <<dev, lost, faults, call>>
      /\ srv' = [srv EXCEPT ![s].expired = TRUE]
  BY DEF ReleaseDeadline, outside
<1>2. srv \in [Server -> Process] /\ srv[s] \in Process /\ ProcessOK(s)
  BY ProcessFacts
<1>3. /\ Aside(s, p) /\ p.ready = srv[s].ready /\ p.streams = srv[s].streams
      /\ p.sig = srv[s].sig
  BY <1>1, <1>2 DEF Aside, Process
<1> HIDE DEF p
<1> QED
  BY <1>1, <1>2, <1>3, AsideStep DEF ProcessOK, Aside

\* A signal is queued.
LEMMA SigtermOK ==
    ASSUME LlamaInv, NEW s \in Server, Sigterm(s) PROVE LlamaInv'
<1> DEFINE k == srv[s].pending + 1
           p == [srv[s] EXCEPT !.pending = k]
<1>1. /\ UNCHANGED <<dev, lost, faults, call>>
      /\ srv' = [srv EXCEPT ![s].pending = k] /\ srv[s].pending < SignalBuffer
  BY ProcessFacts DEF Sigterm, outside
<1>2. srv \in [Server -> Process] /\ srv[s] \in Process /\ ProcessOK(s)
  BY ProcessFacts
<1>3. k \in 0 .. SignalBuffer
  BY <1>1, <1>2 DEF Process, SignalBuffer
<1> HIDE DEF k
<1>4. /\ Aside(s, p) /\ p.ready = srv[s].ready /\ p.streams = srv[s].streams
      /\ p.sig = srv[s].sig
  BY <1>1, <1>2, <1>3 DEF Aside, Process
<1> HIDE DEF p
<1> QED
  BY <1>1, <1>2, <1>4, AsideStep DEF ProcessOK, Aside

\* The signal goroutine takes a signal.
LEMMA HandleSignalOK ==
    ASSUME LlamaInv, NEW s \in Server, HandleSignal(s) PROVE LlamaInv'
<1> DEFINE k == srv[s].pending - 1
<1>1. /\ UNCHANGED <<dev, lost, faults, call>> /\ srv[s].sig = "waiting"
      /\ srv[s].pending > 0
  BY DEF HandleSignal, outside
<1>2. srv \in [Server -> Process] /\ srv[s] \in Process /\ ProcessOK(s)
  BY ProcessFacts
<1>3. k \in 0 .. SignalBuffer
  BY <1>1, <1>2 DEF Process, SignalBuffer
<1>4. call[Signal(s)].kind = "none" /\ call[Signal(s)].step = "none"
  <2>1. /\ CallOK(Signal(s)) /\ call[Signal(s)] \in Call
        /\ Pid(Signal(s)) = s /\ Signal(s)[2] = "signal"
    BY Goroutines DEF LlamaInv
  <2>2. ~ WantsRelease(Signal(s))
    BY <1>1, <2>1 DEF WantsRelease
  <2>3. call[Signal(s)].kind \in {"none", "apply", "rollback", "release"}
    BY <2>1 DEF Call
  <2> QED
    BY <2>1, <2>2, <2>3 DEF CallOK, NoneOK, ApplyOK, RollbackOK, ReleaseOK
<1>5. CASE /\ srv[s].cfg.hangShutdown
           /\ srv' = [srv EXCEPT ![s].pending = k, ![s].sig = "release"]
  <2> DEFINE p == [srv[s] EXCEPT !.pending = k, !.sig = "release"]
  <2> HIDE DEF k
  <2>1. /\ Aside(s, p) /\ p.ready = srv[s].ready /\ p.streams = srv[s].streams
    BY <1>1, <1>2, <1>3, <1>5 DEF Aside, Process
  <2> HIDE DEF p
  <2> QED
    BY <1>1, <1>2, <1>4, <1>5, <2>1, AsideStep DEF ProcessOK, Aside
<1>6. CASE srv' = [srv EXCEPT ![s].pending = k, ![s].sig = "stopped",
                              ![s].cancelled = TRUE]
  <2> DEFINE p == [srv[s] EXCEPT !.pending = k, !.sig = "stopped", !.cancelled = TRUE]
  <2> HIDE DEF k
  <2>1. /\ Aside(s, p) /\ p.ready = srv[s].ready /\ p.streams = srv[s].streams
        /\ p.sig = "stopped"
    BY <1>1, <1>2, <1>3, <1>6 DEF Aside, Process
  <2> HIDE DEF p
  <2> QED
    BY <1>1, <1>2, <1>4, <2>1, AsideStep DEF ProcessOK, Aside
<1> QED
  BY <1>2, <1>5, <1>6 DEF HandleSignal

\* The release of the signal goroutine has returned.
LEMMA SignalHandledOK ==
    ASSUME LlamaInv, NEW s \in Server, SignalHandled(s) PROVE LlamaInv'
<1> DEFINE p == [srv[s] EXCEPT !.sig = "waiting"]
<1>1. /\ UNCHANGED <<dev, lost, faults>> /\ call' = [call EXCEPT ![Signal(s)] = NoCall]
      /\ srv' = [srv EXCEPT ![s].sig = "waiting"]
  BY DEF SignalHandled, outside, Become
<1>2. srv \in [Server -> Process] /\ srv[s] \in Process /\ ProcessOK(s)
  BY ProcessFacts
<1>3. /\ Aside(s, p) /\ p.ready = srv[s].ready /\ p.streams = srv[s].streams
      /\ p.sig = "waiting"
  BY <1>1, <1>2 DEF Aside, Process
<1> HIDE DEF p
<1> QED
  BY <1>1, <1>2, <1>3, AsideStep DEF ProcessOK, Aside

\* A request is accepted.
LEMMA BeginStreamOK ==
    ASSUME LlamaInv, NEW s \in Server, BeginStream(s) PROVE LlamaInv'
<1> DEFINE k == srv[s].streams + 1
           p == [srv[s] EXCEPT !.streams = k]
<1>1. /\ UNCHANGED <<dev, lost, faults, call>> /\ srv[s].ready
      /\ srv' = [srv EXCEPT ![s].streams = k] /\ srv[s].streams < MaxStreams
  BY ProcessFacts DEF BeginStream, outside
<1>2. srv \in [Server -> Process] /\ srv[s] \in Process /\ ProcessOK(s)
  BY ProcessFacts
<1>3. k \in 0 .. MaxStreams
  BY <1>1, <1>2, ServerAssumption DEF Process
<1> HIDE DEF k
<1>4. /\ Aside(s, p) /\ p.ready = srv[s].ready /\ p.sig = srv[s].sig
  BY <1>1, <1>2, <1>3 DEF Aside, Process
<1> HIDE DEF p
<1>5. /\ p.pc \in {"serving", "resize", "cleanup"} /\ p.cfg = srv[s].cfg
      /\ srv[s].sig = "release" => srv[s].cfg.hangShutdown
  BY <1>1, <1>2, <1>4 DEF ProcessOK, Aside
<1>6. /\ p.ready => srv[s].ready
      /\ p.streams > 0 => p.pc \in {"serving", "resize", "cleanup", "draining"}
      /\ p.sig = "release" => p.cfg.hangShutdown
      /\ UNCHANGED call
  BY <1>1, <1>4, <1>5
<1> QED
  BY <1>4, <1>6, AsideStep

\* A request has been answered.
LEMMA EndStreamOK ==
    ASSUME LlamaInv, NEW s \in Server, EndStream(s) PROVE LlamaInv'
<1> DEFINE k == srv[s].streams - 1
           p == [srv[s] EXCEPT !.streams = k]
<1>1. /\ UNCHANGED <<dev, lost, faults, call>> /\ srv[s].streams > 0
      /\ srv' = [srv EXCEPT ![s].streams = k]
  BY ProcessFacts DEF EndStream, outside
<1>2. srv \in [Server -> Process] /\ srv[s] \in Process /\ ProcessOK(s)
  BY ProcessFacts
<1>3. k \in 0 .. MaxStreams
  BY <1>1, <1>2, ServerAssumption DEF Process
<1> HIDE DEF k
<1>4. /\ Aside(s, p) /\ p.ready = srv[s].ready /\ p.sig = srv[s].sig
  BY <1>1, <1>2, <1>3 DEF Aside, Process
<1> HIDE DEF p
<1> QED
  BY <1>1, <1>2, <1>4, AsideStep DEF ProcessOK, Aside

-----------------------------------------------------------------------------
(* Every step. *)

\* A GPU falls off the bus.
LEMMA LoseOK ==
    ASSUME LlamaInv, NEW g \in GPU, Lose(g) PROVE LlamaInv'
<1>1. /\ lost' \subseteq Losable /\ faults' \in 0 .. MaxFaults /\ faults' # 0
  BY ServerAssumption DEF LlamaInv, Lose
<1>2. DevicesOK' /\ srv' \in [Server -> Process] /\ call' \in [Goroutine -> Call]
  BY DEF LlamaInv, DevicesOK, Lose
<1>3. ASSUME NEW s \in Server PROVE ProcessOK(s)'
  BY SameProcess DEF LlamaInv, Lose
<1>4. ASSUME NEW t \in Goroutine PROVE CallOK(t)'
  <2>1. CallOK(t) /\ (call[t].kind = "release" => srv[Pid(t)].registered)
    BY DEF LlamaInv, CallOK, ReleaseOK
  <2> QED
    BY <2>1, SameCall DEF Lose
<1> QED
  BY <1>1, <1>2, <1>3, <1>4 DEF LlamaInv

\* It comes back.
LEMMA RecoverOK ==
    ASSUME LlamaInv, NEW g \in GPU, Recover(g) PROVE LlamaInv'
<1>1. /\ lost' \subseteq Losable /\ faults' \in 0 .. MaxFaults
      /\ faults' = 0 => lost' = {}
  BY DEF LlamaInv, Recover
<1>2. DevicesOK' /\ srv' \in [Server -> Process] /\ call' \in [Goroutine -> Call]
  BY DEF LlamaInv, DevicesOK, Recover
<1>3. ASSUME NEW s \in Server PROVE ProcessOK(s)'
  BY SameProcess DEF LlamaInv, Recover
<1>4. ASSUME NEW t \in Goroutine PROVE CallOK(t)'
  <2>1. CallOK(t) /\ (call[t].kind = "release" => srv[Pid(t)].registered)
    BY DEF LlamaInv, CallOK, ReleaseOK
  <2> QED
    BY <2>1, SameCall DEF Recover
<1> QED
  BY <1>1, <1>2, <1>3, <1>4 DEF LlamaInv

\* Every step of a registry call keeps the invariant.
LEMMA RegistryOK ==
    ASSUME LlamaInv, NEW t \in Goroutine, Registry(t) PROVE LlamaInv'
BY ApplySnapshotOK, ApplyReplaceOK, RollbackSnapshotOK, RollbackReplaceOK, BeginReleaseOK,
   ReleaseSnapshotOK, ReleaseReplaceOK, EndReleaseOK DEF Registry

\* Every step of main does.
LEMMA ProceedOK ==
    ASSUME LlamaInv, NEW s \in Server, Proceed(s) PROVE LlamaInv'
BY ParseOK, StartOK, RegisteredOK, LoadOK, InterruptedOK, ResizedOK, CleanupOK, DrainedOK,
   DrainTimeoutOK, ReleasedOK, RetryOK DEF Proceed

\* Every step does.
LEMMA LlamaNext ==
    LlamaInv /\ [Next]_vars => LlamaInv'
<1> SUFFICES ASSUME LlamaInv, [Next]_vars PROVE LlamaInv'
  OBVIOUS
<1>1. CASE \E t \in Goroutine : Registry(t)
  BY <1>1, RegistryOK
<1>2. CASE \E g \in GPU : Lose(g) \/ Recover(g)
  BY <1>2, LoseOK, RecoverOK
<1>3. ASSUME NEW s \in Server,
             \/ WaitForRegisterGate(s) \/ Proceed(s) \/ Grow(s) \/ Crash(s)
             \/ ServeFails(s) \/ ReleaseDeadline(s) \/ Sigterm(s) \/ HandleSignals(s)
             \/ BeginStream(s) \/ EndStream(s)
      PROVE  LlamaInv'
  BY <1>3, GateOK, ProceedOK, GrowOK, CrashOK, ServeFailsOK, ReleaseDeadlineOK, SigtermOK,
     HandleSignalOK, SignalHandledOK, BeginStreamOK, EndStreamOK DEF HandleSignals
<1>4. CASE UNCHANGED vars
  <2>1. UNCHANGED <<dev, lost, srv, call, faults>>
    BY <1>4 DEF vars
  <2>2. DevicesOK'
    BY <2>1 DEF LlamaInv, DevicesOK
  <2>3. \A s \in Server : ProcessOK(s)'
    BY <2>1, SameProcess DEF LlamaInv
  <2>4. \A t \in Goroutine : CallOK(t)'
    <3> TAKE t \in Goroutine
    <3>1. CallOK(t) /\ (call[t].kind = "release" => srv[Pid(t)].registered)
      BY DEF LlamaInv, CallOK, ReleaseOK
    <3> QED
      BY <2>1, <3>1, SameCall
  <2> QED
    BY <2>1, <2>2, <2>3, <2>4 DEF LlamaInv
<1> QED
  BY <1>1, <1>2, <1>3, <1>4 DEF Next

\* It holds at the start.
LEMMA LlamaInit == Init => LlamaInv
<1> SUFFICES ASSUME Init PROVE LlamaInv
  OBVIOUS
<1>1. DevicesOK
  BY BaseDeviceFits DEF Init, DevicesOK
<1>2. ASSUME NEW s \in Server
      PROVE  /\ srv[s] \in Process /\ ProcessOK(s) /\ srv[s].pc = "main"
             /\ srv[s].sig = "waiting"
  <2> DEFINE c == ParseCommand(command[s])
  <2>1. command[s] \in Commands[s] /\ srv[s] = c
    BY DEF Init
  <2>2. c.cfg \in Configs /\ (c.err # "usage" => c.cfg.targets # <<>>)
    BY <2>1, CommandsAssumption DEF Configs
  <2>3. PICK e \in {"usage", "none"} : c = Launched(c.cfg, e)
    BY DEF ParseCommand, Launched
  <2> HIDE DEF c
  <2>4. 0 \in 0 .. MaxStreams /\ 0 \in 0 .. SignalBuffer
    BY ServerAssumption DEF SignalBuffer
  <2>5. c \in Process
    <3> DEFINE f == c.cfg
    <3>1. f \in Configs /\ c = Launched(f, e)
      BY <2>2, <2>3
    <3> HIDE DEF f
    <3> QED
      BY <2>4, <3>1 DEF Launched, Process, Places, Errors
  <2>6. /\ c.pc = "main" /\ c.err = e /\ ~ c.grown /\ ~ c.registered /\ ~ c.ready
        /\ c.streams = 0 /\ c.sig = "waiting"
    BY <2>3 DEF Launched
  <2>7. ProcessOK(s)
    BY <2>1, <2>2, <2>6 DEF ProcessOK, Targets, Applying
  <2> QED
    BY <2>1, <2>5, <2>6, <2>7
<1>3. srv \in [Server -> Process]
  BY <1>2 DEF Init
<1>4. ASSUME NEW t \in Goroutine PROVE call[t] \in Call /\ CallOK(t)
  <2>1. call[t] = NoCall /\ srv[Pid(t)].pc = "main"
    BY <1>2, Goroutines DEF Init
  <2>2. /\ NoCall.kind = "none" /\ NoCall.step = "none" /\ NoCall.i = 0
    BY DEF NoCall
  <2>3. NoneOK(t)
    BY <2>1, <2>2 DEF NoneOK, Applying
  <2> QED
    BY <2>1, <2>2, <2>3, NoCallType DEF CallOK
<1>5. call \in [Goroutine -> Call]
  BY <1>4 DEF Init
<1>6. /\ lost = {} /\ faults = 0 /\ 0 \in 0 .. MaxFaults
  BY ServerAssumption DEF Init
<1> QED
  BY <1>1, <1>2, <1>3, <1>4, <1>5, <1>6 DEF LlamaInv

\* The invariant says what TypeOK and NeverOvercommits do.
LEMMA LlamaInvTypes == LlamaInv => TypeOK
<1> SUFFICES ASSUME LlamaInv PROVE TypeOK
  OBVIOUS
<1>1. ASSUME NEW s \in Server
      PROVE  /\ srv[s] \in Process /\ (srv[s].registered => Bytes(s) \in U64)
  BY ProcessFacts, SizedBytes DEF LlamaInv, ProcessOK
<1>2. ASSUME NEW t \in Goroutine
      PROVE  /\ call[t].kind \in {"none", "apply", "rollback", "release"}
             /\ call[t].before \in Device
             /\ call[t].i \in 0 .. Len(Targets(Pid(t))) + 1
  <2> DEFINE n == Len(Targets(Pid(t)))
  <2>1. call[t] \in Call /\ CallOK(t)
    BY DEF LlamaInv
  <2>2. n \in Nat
    BY Goroutines, ProcessFacts, TargetFields DEF LlamaInv
  <2>3. call[t].kind \in {"none", "apply", "rollback", "release"} /\ call[t].i \in Nat
    BY <2>1 DEF Call
  <2>4. call[t].i <= n + 1
    BY <2>1, <2>2, <2>3 DEF CallOK, NoneOK, ApplyOK, RollbackOK, ReleaseOK
  <2> QED
    BY <2>1, <2>2, <2>3, <2>4 DEF Call
<1>3. dev \in [GPU -> Device]
  BY DEF LlamaInv, DevicesOK
<1> QED
  BY <1>1, <1>2, <1>3 DEF LlamaInv, TypeOK, Process, Places, Errors

\* However many servers, GPUs, targets and signals there are, the servers,
\* their registry calls and the devices keep their types: in particular
\* currentBytes stays a uint64 and apply, rollback and release stay within the
\* list of targets (registry.go).
THEOREM LlamaTypes == Spec => []TypeOK
<1>1. Spec => []LlamaInv
  BY LlamaInit, LlamaNext, PTL DEF Spec
<1> QED
  BY <1>1, LlamaInvTypes, PTL

\* However the registry calls of any number of servers interleave on shared
\* GPUs, with rollbacks, lost GPUs and killed commands, no device reports more
\* used, free and reserved VRAM than it has, and none reports fewer bytes used
\* than its rows own (ReplaceProcessesFromState).
THEOREM LlamaNeverOvercommits == Spec => []NeverOvercommits
<1>1. Spec => []LlamaInv
  BY LlamaInit, LlamaNext, PTL DEF Spec
<1>2. LlamaInv => NeverOvercommits
  BY DEF LlamaInv, DevicesOK, NeverOvercommits
<1> QED
  BY <1>1, <1>2, PTL

-----------------------------------------------------------------------------
(* What a command does to the rows. *)

\* The caller changes the row of p and no other.
OnlyRow(before, desired, p) ==
    \A q : q # p =>
        /\ q \in DOMAIN before.mem <=> q \in DOMAIN desired.mem
        /\ q \in DOMAIN before.mem => SameRow(before, desired, q)

\* The row of q on h is what it was.
RowKept(q, h) ==
    /\ HasRow(q, h)' <=> HasRow(q, h)
    /\ HasRow(q, h) => SameRow(dev'[h], dev[h], q)

\* A table with or without the row of p differs in that row.
LEMMA OnlyOwnRow ==
    ASSUME NEW b \in Device, SamePIDs(b), NEW p, NEW mib, NEW util
    PROVE  OnlyRow(b, WithPID(b, p, mib, util), p) /\ OnlyRow(b, WithoutPID(b, p), p)
BY DEF OnlyRow, WithPID, WithoutPID, SameRow, SamePIDs

\* A command that is stored leaves the rows of others, and of other GPUs.
LEMMA StoredRows ==
    ASSUME LlamaInv, NEW t \in Goroutine, Found(Pid(t), call[t].i),
           NEW desired \in Rows, SamePIDs(desired),
           OnlyRow(call[t].before, desired, Pid(t)), Stores(t, desired),
           NEW g, g = Target(t)
    PROVE  /\ g \in GPU
           /\ \A q : \A h \in GPU : q # Pid(t) \/ h # g => RowKept(q, h)
           /\ HasRow(Pid(t), g)' <=>
                \/ /\ HasRow(Pid(t), g)
                   /\ ~ (Pid(t) \in DOMAIN call[t].before.mem
                           /\ Pid(t) \notin DOMAIN desired.mem)
                \/ Pid(t) \in DOMAIN desired.mem \ DOMAIN call[t].before.mem
<1> DEFINE b == call[t].before
           p == Pid(t)
           R == Rebase(b, desired, dev[g])
<1>1. /\ g \in GPU /\ DevicesOK /\ b \in Device /\ SamePIDs(b)
  BY TargetFound DEF LlamaInv, Call, CallOK
<1>2. /\ dev'[g].mem = R.mem /\ dev'[g].util = R.util
      /\ \A h \in GPU : h # g => dev'[h] = dev[h]
  BY <1>1, ReplacedFits DEF Stores
<1>3. DOMAIN dev[g].util = DOMAIN dev[g].mem
  BY <1>1 DEF DevicesOK, SamePIDs
<1>4. /\ Removed(b, desired) \subseteq {p} /\ Changed(b, desired) \subseteq {p}
      /\ Added(b, desired) \subseteq {p}
  BY DEF OnlyRow, Removed, Changed, Added
<1>5. /\ DOMAIN R.mem = (DOMAIN dev[g].mem \ Removed(b, desired)) \cup Added(b, desired)
      /\ \A q \in DOMAIN R.mem : q # p => R.mem[q] = dev[g].mem[q]
      /\ \A q \in DOMAIN R.mem : q # p => R.util[q] = dev[g].util[q]
  <2> DEFINE D == (DOMAIN dev[g].mem \ Removed(b, desired)) \cup Added(b, desired)
             C == Changed(b, desired) \cup Added(b, desired)
  <2>1. R.mem = [q \in D |-> IF q \in C THEN desired.mem[q] ELSE dev[g].mem[q]]
    BY DEF Rebase, RebaseColumn
  <2>2. R.util = [q \in D |-> IF q \in C THEN desired.util[q] ELSE dev[g].util[q]]
    BY <1>3 DEF Rebase, RebaseColumn
  <2>3. C \subseteq {p}
    BY <1>4
  <2> HIDE DEF D, C, R
  <2>4. DOMAIN R.mem = D
    BY <2>1
  <2>5. ASSUME NEW q \in DOMAIN R.mem, q # p
        PROVE  R.mem[q] = dev[g].mem[q] /\ R.util[q] = dev[g].util[q]
    BY <2>1, <2>2, <2>3, <2>4, <2>5
  <2> QED
    BY <2>4, <2>5 DEF D
<1> HIDE DEF R
<1>6. ASSUME NEW q, q # p PROVE RowKept(q, g)
  BY <1>2, <1>4, <1>5, <1>6 DEF RowKept, HasRow, SameRow
<1>7. ASSUME NEW q, NEW h \in GPU, h # g PROVE RowKept(q, h)
  BY <1>2, <1>7 DEF RowKept, HasRow, SameRow
<1> HIDE DEF p, b
<1>8. p \in DOMAIN dev'[g].mem <=>
         \/ p \in DOMAIN dev[g].mem /\ ~ (p \in DOMAIN b.mem /\ p \notin DOMAIN desired.mem)
         \/ p \in DOMAIN desired.mem \ DOMAIN b.mem
  BY <1>2, <1>5 DEF Removed, Added
<1> QED
  BY <1>1, <1>6, <1>7, <1>8 DEF HasRow, p, b

\* Without a change of the devices every row is kept.
LEMMA QuietRows ==
    ASSUME UNCHANGED dev, NEW q, NEW h PROVE RowKept(q, h)
BY DEF RowKept, HasRow, SameRow

\* Where the rows are is a matter of the targets and of the rows.
LEMMA SameWhere ==
    ASSUME NEW s \in Server, srv'[s].cfg = srv[s].cfg,
           \A g \in GPU : HasRow(s, g)' <=> HasRow(s, g)
    PROVE  /\ \A i, j : \A g \in GPU : Among(s, g, i, j)' <=> Among(s, g, i, j)
           /\ \A i, j : RowsWithin(s, i, j)' <=> RowsWithin(s, i, j)
           /\ \A i : Backed(s, i)' <=> Backed(s, i)
           /\ NoRowOf(s)' <=> NoRowOf(s)
<1>1. Targets(s)' = Targets(s)
  BY SameConfig
<1>2. \A i, j : \A g \in GPU : Among(s, g, i, j)' <=> Among(s, g, i, j)
  BY <1>1 DEF Among
<1> QED
  BY <1>2 DEF RowsWithin, Backed, NoRowOf

\* What others do to their rows does not matter.
LEMMA OthersRows ==
    ASSUME NEW s \in Server, srv'[s] = srv[s], call'[Main(s)] = call[Main(s)],
           call'[Signal(s)] = call[Signal(s)], \A g \in GPU : RowKept(s, g), RowsOK(s)
    PROVE  RowsOK(s)'
<1>1. /\ \A i, j : RowsWithin(s, i, j)' <=> RowsWithin(s, i, j)
      /\ \A i : Backed(s, i)' <=> Backed(s, i)
      /\ NoRowOf(s)' <=> NoRowOf(s)
  BY SameWhere DEF RowKept
<1>2. Targets(s)' = Targets(s) /\ (Alone(s)' <=> Alone(s))
  BY SameConfig DEF Alone
<1>3. RegisterRows(s)'
  BY <1>1, <1>2 DEF RegisterRows, RowsOK, RowKept
<1>4. ResizeRows(s)'
  BY DEF ResizeRows, RowsOK
<1>5. ServingRows(s)'
  BY <1>1, <1>2 DEF ServingRows, RowsOK
<1>6. ReleaseRows(s)'
  BY <1>1, <1>2 DEF ReleaseRows, RowsOK
<1>7. GoneRows(s)'
  BY <1>1, <1>2 DEF GoneRows, RowsOK
<1> QED
  BY <1>1, <1>2, <1>3, <1>4, <1>5, <1>6, <1>7 DEF RowsOK

-----------------------------------------------------------------------------
(* Steps that leave the rows alone. *)

\* Run has registered its rows and has not begun to clean up.
Loaded == {"loading", "serving", "resize"}

\* Run cleans up and has not released its rows yet.
Closing == {"cleanup", "draining"}

\* A new registry call is at its first target.
Fresh(u, kind) ==
    /\ call'[u].kind = kind /\ call'[u].i = 1 /\ call'[u].step = "snapshot"
    /\ call'[u].applied = <<>>

\* How server s may move on while its rows stay.
Follows(s) ==
    LET p == srv[s]
        q == srv'[s]
    IN  /\ q.cfg = p.cfg /\ (p.grown => q.grown)
        /\ \A u \in {Main(s), Signal(s)} :
              call'[u] = call[u] \/ call'[u].kind = "none" \/ Fresh(u, "release")
                \/ Fresh(u, "apply")
        /\ q.pc \in Applying =>
              \/ q.pc = p.pc /\ q.grown = p.grown /\ call'[Main(s)] = call[Main(s)]
              \/ Fresh(Main(s), "apply") /\ (q.pc = "resize" => q.grown) /\ p.pc # "register"
        /\ q.registered => p.registered \/ Backed(s, Len(Targets(s)))
        /\ ~ q.registered => ~ p.registered
        /\ q.pc \in Before => p.pc \in Before
        /\ q.pc \in Loaded => p.pc \in Loaded \/ q.registered
        /\ q.registered /\ q.pc \in Loaded \cup Closing =>
              p.pc \in Loaded \cup Closing \/ Backed(s, Len(Targets(s)))
        /\ q.streams > 0 \/ q.ready => p.streams > 0 \/ p.ready \/ p.pc \in Loaded
        /\ ~ q.registered /\ q.err \notin FailedErrors /\ q.pc \notin {"register", "exited"} =>
              p.err \notin FailedErrors /\ p.pc \notin {"register", "exited"}
        /\ ~ q.cfg.hangShutdown /\ q.err \notin FailedErrors /\ q.pc = "exited" => NoRowOf(s)
        /\ p.cancelled => q.cancelled
        /\ q.pc = "register" /\ p.pc # "register" => NoRowOf(s)
        /\ q.err \in FailedErrors /\ p.err \notin FailedErrors =>
              (UndoOK(s) /\ Undisturbed(s) => NoRowOf(s))

\* Such a step keeps what is known of the rows.
LEMMA FollowsRows ==
    ASSUME LlamaInv, NEW s \in Server, RowsOK(s), UNCHANGED dev, Follows(s)
    PROVE  RowsOK(s)'
<1>0. /\ srv[s].grown \in BOOLEAN /\ srv[s].registered \in BOOLEAN
      /\ Len(Targets(s)) \in Nat /\ DOMAIN Targets(s) = 1 .. Len(Targets(s))
  BY TargetFields, ProcessFacts DEF LlamaInv, Process
<1>1. /\ \A i, j : RowsWithin(s, i, j)' <=> RowsWithin(s, i, j)
      /\ \A i : Backed(s, i)' <=> Backed(s, i)
      /\ NoRowOf(s)' <=> NoRowOf(s)
  BY SameWhere DEF HasRow, Follows
<1>2. Targets(s)' = Targets(s) /\ (Alone(s)' => Alone(s))
  BY SameConfig DEF Alone, Follows
<1>3. Backed(s, 0)
  BY <1>0 DEF Backed, Among
<1>4. RegisterRows(s)'
  <2> SUFFICES ASSUME srv'[s].pc = "register" PROVE RegisterRows(s)'
    BY DEF RegisterRows
  <2>1. CASE Fresh(Main(s), "apply")
    BY <1>1, <1>3, <2>1 DEF RegisterRows, Fresh
  <2>2. CASE srv[s].pc = "register" /\ call'[Main(s)] = call[Main(s)]
    BY <1>1, <1>2, <2>2 DEF RegisterRows, RowsOK, HasRow
  <2> QED
    BY <2>1, <2>2 DEF Follows, Applying
<1>5. ResizeRows(s)'
  <2> SUFFICES ASSUME srv'[s].pc = "resize" PROVE ResizeRows(s)'
    BY DEF ResizeRows
  <2>1. CASE Fresh(Main(s), "apply") /\ srv'[s].grown
    BY <2>1 DEF ResizeRows, Fresh
  <2>2. CASE /\ srv[s].pc = "resize" /\ call'[Main(s)] = call[Main(s)]
             /\ srv'[s].grown = srv[s].grown
    BY <2>2 DEF ResizeRows, RowsOK, Follows
  <2> QED
    BY <2>1, <2>2 DEF Follows, Applying
<1>6. ServingRows(s)'
  BY <1>0, <1>1, <1>2 DEF ServingRows, RowsOK, Follows, Loaded, Closing
<1>7. ReleaseRows(s)'
  <2> SUFFICES ASSUME NEW u \in {Main(s), Signal(s)}, call'[u].kind = "release",
                      call'[u].error = "none", Alone(s)'
               PROVE  RowsWithin(s, call'[u].i, Len(Targets(s)))
    BY <1>1, <1>2 DEF ReleaseRows
  <2>1. call'[u] = call[u] \/ call'[u].i = 1
    BY DEF Follows, Fresh
  <2> QED
    BY <1>2, <2>1 DEF ReleaseRows, RowsOK
<1>8. GoneRows(s)'
  BY <1>0, <1>1, <1>2 DEF GoneRows, RowsOK, Follows
<1> QED
  BY <1>1, <1>2, <1>4, <1>5, <1>6, <1>7, <1>8 DEF RowsOK

\* What others do to their rows does not matter to the rollback either.
LEMMA OthersUndo ==
    ASSUME NEW s \in Server, srv'[s] = srv[s], call'[Main(s)] = call[Main(s)],
           \A g \in GPU : RowKept(s, g), faults' = 0 => faults = 0, UndoOK(s)
    PROVE  UndoOK(s)'
<1>1. /\ \A i, j : RowsWithin(s, i, j)' <=> RowsWithin(s, i, j)
      /\ \A i, j : \A g \in GPU : Among(s, g, i, j)' <=> Among(s, g, i, j)
      /\ NoRowOf(s)' <=> NoRowOf(s)
  BY SameWhere DEF RowKept
<1>2. Targets(s)' = Targets(s) /\ (Undisturbed(s)' => Undisturbed(s))
  BY SameConfig DEF Undisturbed
<1>3. OwnRowFresh(s) => OwnRowFresh(s)'
  BY <1>2 DEF OwnRowFresh, RowKept, SameRow
<1>4. PriorsKnown(s, call[Main(s)].applied) => PriorsKnown(s, call[Main(s)].applied)'
  BY <1>1, <1>2 DEF PriorsKnown
<1> QED
  BY <1>1, <1>2, <1>3, <1>4 DEF UndoOK, UndoCall

\* It keeps what is known of the rollback too.
LEMMA FollowsUndo ==
    ASSUME LlamaInv, NEW s \in Server, UndoOK(s), UNCHANGED <<dev, faults>>, Follows(s)
    PROVE  UndoOK(s)'
<1>1. /\ \A i, j : RowsWithin(s, i, j)' <=> RowsWithin(s, i, j)
      /\ \A i, j : \A g \in GPU : Among(s, g, i, j)' <=> Among(s, g, i, j)
      /\ NoRowOf(s)' <=> NoRowOf(s)
  BY SameWhere DEF HasRow, Follows
<1>2. Targets(s)' = Targets(s) /\ (Undisturbed(s)' => Undisturbed(s))
  BY SameConfig DEF Undisturbed, Follows
<1>3. srv'[s].err \in FailedErrors /\ Undisturbed(s)' => NoRowOf(s)
  BY <1>2 DEF Follows, UndoOK
<1>4. CASE srv'[s].pc # "register"
  BY <1>1, <1>3, <1>4 DEF UndoOK, UndoCall
<1>5. CASE srv'[s].pc = "register" /\ Fresh(Main(s), "apply") /\ NoRowOf(s)
  <2>1. RowsWithin(s, 1, call[Main(s)].i - 1)'
    BY <1>1, <1>5 DEF RowsWithin, NoRowOf
  <2>2. PriorsKnown(s, call[Main(s)].applied)'
    BY <1>5 DEF PriorsKnown, Fresh
  <2> QED
    BY <1>1, <1>3, <1>5, <2>1, <2>2 DEF UndoOK, UndoCall, Fresh
<1>6. CASE /\ srv'[s].pc = "register" /\ srv[s].pc = "register"
           /\ call'[Main(s)] = call[Main(s)]
  <2>1. OwnRowFresh(s) => OwnRowFresh(s)'
    BY <1>2, <1>6 DEF OwnRowFresh, HasRow
  <2>2. PriorsKnown(s, call[Main(s)].applied) => PriorsKnown(s, call[Main(s)].applied)'
    BY <1>1, <1>2, <1>6 DEF PriorsKnown
  <2> QED
    BY <1>1, <1>2, <1>3, <1>6, <2>1, <2>2 DEF UndoOK, UndoCall
<1> QED
  BY <1>4, <1>5, <1>6 DEF Follows, Applying

\* Both invariants are kept.
RowsKept == RowsInv' /\ (UndoInv => UndoInv')

\* A step of one server that leaves all rows alone keeps both invariants.
LEMMA FollowsStep ==
    ASSUME LlamaInv, RowsInv, NEW s \in Server, Elsewhere(s), UNCHANGED <<dev, faults>>,
           Follows(s)
    PROVE  RowsKept
<1>1. ASSUME NEW r \in Server PROVE RowsOK(r)' /\ (UndoOK(r) => UndoOK(r)')
  <2>1. CASE r = s
    BY <2>1, FollowsRows, FollowsUndo DEF RowsInv
  <2>2. CASE r # s
    BY <2>2, OthersRows, OthersUndo, QuietRows DEF RowsInv, Elsewhere
  <2> QED
    BY <2>1, <2>2
<1> QED
  BY <1>1 DEF RowsKept, RowsInv, UndoInv

-----------------------------------------------------------------------------

\* A step of server s leaves the others alone.
LEMMA ElsewhereStep ==
    ASSUME LlamaInv, NEW s \in Server, NEW p, srv' = [srv EXCEPT ![s] = p],
           \/ UNCHANGED call
           \/ \E c : call' = [call EXCEPT ![Main(s)] = c]
           \/ \E c : call' = [call EXCEPT ![Signal(s)] = c]
           \/ \E c, e : call' = [call EXCEPT ![Main(s)] = c, ![Signal(s)] = e]
    PROVE  Elsewhere(s) /\ srv'[s] = p
<1>1. /\ srv \in [Server -> Process] /\ call \in [Goroutine -> Call]
  BY DEF LlamaInv
<1>2. srv'[s] = p /\ \A r \in Server \ {s} : srv'[r] = srv[r]
  BY <1>1
<1>3. \A r \in Server \ {s} :
         /\ Main(r) \in Goroutine /\ Signal(r) \in Goroutine
         /\ Main(r) # Main(s) /\ Main(r) # Signal(s)
         /\ Signal(r) # Main(s) /\ Signal(r) # Signal(s)
  BY Goroutines DEF Main, Signal
<1>4. \A r \in Server \ {s} :
         call'[Main(r)] = call[Main(r)] /\ call'[Signal(r)] = call[Signal(r)]
  BY <1>1, <1>3
<1> QED
  BY <1>2, <1>4 DEF Elsewhere

\* main ends a call, or there is none.
Ends(s) == UNCHANGED call \/ call' = [call EXCEPT ![Main(s)] = NoCall]

\* It leaves the signal goroutine's call alone.
LEMMA EndsCall ==
    ASSUME LlamaInv, NEW s \in Server, Ends(s)
    PROVE  /\ call'[Main(s)] = call[Main(s)] \/ call'[Main(s)].kind = "none"
           /\ call'[Signal(s)] = call[Signal(s)]
BY Goroutines DEF LlamaInv, Ends, NoCall

\* main goes on, or Run returns.
LEMMA GotoRows ==
    ASSUME LlamaInv, RowsInv, NEW s \in Server, UNCHANGED <<dev, faults>>, Ends(s),
           NEW where \in Places, NEW why,
           \/ Goto(s, where) /\ why = srv[s].err
           \/ Leave(s, why) /\ where = "cleanup",
           where \notin Applying \cup {"exited", "loading"},
           where \in Before => srv[s].pc \in Before,
           where = "serving" => srv[s].pc = "resize",
           where \in Closing /\ srv[s].registered => srv[s].pc \in Loaded \cup Closing,
           ~ srv[s].registered /\ why \notin FailedErrors =>
               srv[s].err \notin FailedErrors /\ srv[s].pc \notin {"register", "exited"},
           /\ why \in FailedErrors /\ why # srv[s].err
           /\ UndoOK(s) /\ Undisturbed(s)
           => NoRowOf(s)
    PROVE  RowsKept
<1> DEFINE p == [srv[s] EXCEPT !.pc = where, !.err = why]
<1>1. srv \in [Server -> Process] /\ srv[s] \in Process /\ ProcessOK(s)
  BY ProcessFacts
<1>2. srv' = [srv EXCEPT ![s] = p]
  <2>1. CASE Goto(s, where) /\ why = srv[s].err
    <3>1. p = [srv[s] EXCEPT !.pc = where]
      BY <1>1, <2>1 DEF Process
    <3>2. srv' = [srv EXCEPT ![s] = [srv[s] EXCEPT !.pc = where]]
      BY <1>1, <2>1 DEF Goto
    <3> QED
      BY <3>1, <3>2
  <2>2. CASE Leave(s, why) /\ where = "cleanup"
    BY <1>1, <2>2 DEF Leave
  <2> QED
    BY <2>1, <2>2
<1>3. /\ p.cfg = srv[s].cfg /\ p.cancelled = srv[s].cancelled
      /\ p.grown = srv[s].grown /\ p.registered = srv[s].registered
      /\ p.streams = srv[s].streams /\ p.ready = srv[s].ready /\ p.pc = where /\ p.err = why
  BY <1>1 DEF Process
<1> HIDE DEF p
<1>4. Elsewhere(s) /\ srv'[s] = p
  BY <1>2, ElsewhereStep DEF Ends
<1>5. Follows(s)
  BY <1>1, <1>3, <1>4, EndsCall DEF Follows, Loaded, Closing, Applying, Before, Fresh
<1> QED
  BY <1>4, <1>5, FollowsStep

\* The process ends.
LEMMA ExitRows ==
    ASSUME LlamaInv, RowsInv, NEW s \in Server, UNCHANGED <<dev, faults>>,
           NEW where \in {"exited", "abandoned"}, NEW why, Exit(s, where, why),
           \/ srv[s].pc \in Before
           \/ why = srv[s].err /\ where = "abandoned" /\ srv[s].pc \notin {"register", "exited"}
           \/ why = srv[s].err /\ srv[s].pc = "release" /\ ~ srv[s].registered,
           where = "abandoned" => srv[s].pc \notin Before
    PROVE  RowsKept
<1> DEFINE p == [Launched(srv[s].cfg, why) EXCEPT
                   !.pc = where, !.cancelled = srv[s].cancelled,
                   !.grown = srv[s].grown, !.registered = srv[s].registered]
<1>1. /\ srv' = [srv EXCEPT ![s] = p]
      /\ call' = [call EXCEPT ![Main(s)] = NoCall, ![Signal(s)] = NoCall]
  BY DEF Exit
<1>2. /\ p.cfg = srv[s].cfg /\ p.cancelled = srv[s].cancelled
      /\ p.grown = srv[s].grown /\ p.registered = srv[s].registered
      /\ p.streams = 0 /\ ~ p.ready /\ p.pc = where /\ p.err = why
  BY DEF Launched
<1> HIDE DEF p
<1>3. Elsewhere(s) /\ srv'[s] = p
  BY <1>1, ElsewhereStep
<1>4. \A u \in {Main(s), Signal(s)} : call'[u].kind = "none"
  BY <1>1, Goroutines DEF LlamaInv, NoCall
<1>5. GoneRows(s)
  BY DEF RowsInv, RowsOK
<1>6. ~ p.cfg.hangShutdown /\ p.err \notin FailedErrors /\ p.pc = "exited" => NoRowOf(s)
  BY <1>2, <1>5 DEF GoneRows, Alone
<1>7. srv[s].pc \in Before => NoRowOf(s)
  BY <1>5 DEF GoneRows
<1>8. Follows(s)
  BY <1>2, <1>3, <1>4, <1>6, <1>7 DEF Follows, Loaded, Closing, Applying, Before
<1> QED
  BY <1>3, <1>8, FollowsStep

\* The steps of the servers, one by one, none of which touches a device.
LEMMA ParseRows ==
    ASSUME LlamaInv, RowsInv, NEW s \in Server, Parse(s) PROVE RowsKept
<1>1. srv[s].pc = "main" /\ UNCHANGED <<dev, faults>> /\ ProcessOK(s)
  BY ProcessFacts DEF Parse, At
<1>2. CASE Exit(s, "exited", "usage")
  BY <1>1, <1>2, ExitRows DEF Before
<1>3. CASE srv[s].err = "none" /\ Goto(s, "gate") /\ UNCHANGED call
  BY <1>1, <1>3, GotoRows DEF Places, Applying, Before, Closing, FailedErrors, Ends
<1> QED
  BY <1>2, <1>3 DEF Parse

\* The register gate opens, or the start fails.
LEMMA GateRows ==
    ASSUME LlamaInv, RowsInv, NEW s \in Server, WaitForRegisterGate(s) PROVE RowsKept
<1>1. srv[s].pc = "gate" /\ UNCHANGED <<dev, faults>> /\ ProcessOK(s)
  BY ProcessFacts DEF WaitForRegisterGate, At
<1>2. CASE Exit(s, "exited", "startup")
  BY <1>1, <1>2, ExitRows DEF Before
<1>3. CASE Goto(s, "start") /\ UNCHANGED call
  BY <1>1, <1>3, GotoRows DEF Places, Applying, Before, Closing, FailedErrors, Ends, ProcessOK
<1> QED
  BY <1>2, <1>3 DEF WaitForRegisterGate

\* The context is cancelled.
LEMMA InterruptedRows ==
    ASSUME LlamaInv, RowsInv, NEW s \in Server, Interrupted(s) PROVE RowsKept
<1>1. UNCHANGED <<dev, faults>> /\ ProcessOK(s)
  BY ProcessFacts DEF Interrupted
<1>2. CASE At(s, "gate") /\ Exit(s, "exited", "none")
  BY <1>1, <1>2, ExitRows DEF Before, At
<1>3. CASE srv[s].pc \in Loaded /\ Goto(s, "cleanup") /\ UNCHANGED call
  BY <1>1, <1>3, GotoRows
     DEF Places, Applying, Before, Closing, FailedErrors, Ends, ProcessOK, Loaded
<1> QED
  BY <1>2, <1>3 DEF Interrupted, At, Loaded

\* The HTTP server fails.
LEMMA ServeFailsRows ==
    ASSUME LlamaInv, RowsInv, NEW s \in Server, ServeFails(s) PROVE RowsKept
<1>1. /\ UNCHANGED <<dev, call, faults>> /\ ProcessOK(s)
      /\ srv[s].pc \in Loaded /\ Leave(s, "serve")
  BY ProcessFacts DEF ServeFails, At, Loaded
<1> QED
  BY <1>1, GotoRows DEF Places, Applying, Before, Closing, FailedErrors, Ends, ProcessOK, Loaded

\* The last stream has ended.
LEMMA DrainedRows ==
    ASSUME LlamaInv, RowsInv, NEW s \in Server, Drained(s) PROVE RowsKept
<1>1. /\ UNCHANGED <<dev, call, faults>> /\ ProcessOK(s)
      /\ srv[s].pc = "draining" /\ Goto(s, "release")
  BY ProcessFacts DEF Drained, At
<1> QED
  BY <1>1, GotoRows DEF Places, Applying, Before, Closing, FailedErrors, Ends

\* The release has returned; without error the server is not registered.
LEMMA ReleasedRows ==
    ASSUME LlamaInv, RowsInv, NEW s \in Server, Released(s) PROVE RowsKept
<1>1. UNCHANGED <<dev, faults>> /\ srv[s].pc = "release" /\ call[Main(s)].step = "done"
  BY DEF Released, At
<1>2. CASE call[Main(s)].error = "none" /\ Exit(s, "exited", srv[s].err)
  <2>1. /\ CallOK(Main(s)) /\ call[Main(s)] \in Call
        /\ Pid(Main(s)) = s /\ Main(s)[2] = "main"
    BY Goroutines DEF LlamaInv
  <2>2. ~ srv[s].registered
    BY <1>1, <1>2, <2>1 DEF CallOK, NoneOK, ApplyOK, RollbackOK, ReleaseOK, Call, Applying
  <2> QED
    BY <1>1, <1>2, <2>2, ExitRows DEF Before
<1>3. CASE Goto(s, "retry") /\ Become(Main(s), NoCall)
  BY <1>1, <1>3, GotoRows DEF Places, Applying, Before, Closing, FailedErrors, Ends, Become
<1> QED
  BY <1>2, <1>3 DEF Released

\* The release is tried again, or given up.
LEMMA RetryRows ==
    ASSUME LlamaInv, RowsInv, NEW s \in Server, Retry(s) PROVE RowsKept
<1>1. UNCHANGED <<dev, faults>> /\ srv[s].pc = "retry"
  BY DEF Retry, At
<1>2. CASE Exit(s, "abandoned", srv[s].err)
  BY <1>1, <1>2, ExitRows DEF Before
<1>3. CASE Goto(s, "release") /\ UNCHANGED call
  BY <1>1, <1>3, GotoRows DEF Places, Applying, Before, Closing, FailedErrors, Ends
<1> QED
  BY <1>2, <1>3 DEF Retry

\* Resize has returned.
LEMMA ResizedRows ==
    ASSUME LlamaInv, RowsInv, NEW s \in Server, Resized(s) PROVE RowsKept
<1>1. UNCHANGED <<dev, faults>> /\ srv[s].pc = "resize" /\ Ends(s) /\ ProcessOK(s)
  BY ProcessFacts DEF Resized, At, Become, Ends
<1>2. CASE Goto(s, "serving")
  BY <1>1, <1>2, GotoRows
     DEF Places, Applying, Before, Closing, FailedErrors, ProcessOK, Loaded
<1>3. CASE Leave(s, "growth")
  BY <1>1, <1>3, GotoRows
     DEF Places, Applying, Before, Closing, FailedErrors, ProcessOK, Loaded
<1> QED
  BY <1>2, <1>3 DEF Resized

\* main starts a registry call.
LEMMA BeginsCall ==
    ASSUME LlamaInv, NEW t \in Goroutine, NEW kind, Become(t, NewCall(kind))
    PROVE  /\ Fresh(t, kind)
           /\ \A u \in Goroutine : u # t => call'[u] = call[u]
BY DEF LlamaInv, Become, NewCall, NoCall, Fresh

\* Register is called: there is no row yet.
LEMMA StartRows ==
    ASSUME LlamaInv, RowsInv, NEW s \in Server, Start(s) PROVE RowsKept
<1>1. UNCHANGED <<dev, faults>> /\ srv[s].pc = "start" /\ ProcessOK(s) /\ srv[s] \in Process
      /\ srv \in [Server -> Process]
  BY ProcessFacts DEF Start, At
<1>2. CASE Exit(s, "exited", "startup")
  BY <1>1, <1>2, ExitRows DEF Before
<1>0. NoRowOf(s)
  BY <1>1 DEF RowsInv, RowsOK, GoneRows, Before
<1>3. CASE Leave(s, "oom") /\ UNCHANGED call
  BY <1>0, <1>1, <1>3, GotoRows
     DEF Places, Applying, Before, Closing, FailedErrors, ProcessOK, Ends
<1>4. CASE Goto(s, "register") /\ Become(Main(s), NewCall("apply"))
  <2> DEFINE p == [srv[s] EXCEPT !.pc = "register"]
  <2>1. srv' = [srv EXCEPT ![s] = p]
    BY <1>1, <1>4 DEF Goto
  <2>2. /\ p.cfg = srv[s].cfg /\ p.cancelled = srv[s].cancelled
        /\ p.grown = srv[s].grown /\ p.registered = srv[s].registered
        /\ p.streams = srv[s].streams /\ p.ready = srv[s].ready /\ p.pc = "register"
        /\ p.err = srv[s].err
    BY <1>1 DEF Process
  <2> HIDE DEF p
  <2>3. Elsewhere(s) /\ srv'[s] = p
    BY <1>4, <2>1, ElsewhereStep DEF Become
  <2>4. Fresh(Main(s), "apply") /\ call'[Signal(s)] = call[Signal(s)]
    BY <1>4, BeginsCall, Goroutines
  <2>5. Follows(s)
    BY <1>0, <1>1, <2>2, <2>3, <2>4
       DEF Follows, Loaded, Closing, Applying, Before, ProcessOK
  <2> QED
    BY <1>1, <2>3, <2>5, FollowsStep
<1> QED
  BY <1>2, <1>3, <1>4 DEF Start

\* Register has returned: every row is there, or Run leaves.
LEMMA RegisteredRows ==
    ASSUME LlamaInv, RowsInv, NEW s \in Server, Registered(s) PROVE RowsKept
<1>1. /\ UNCHANGED <<dev, faults>> /\ srv[s].pc = "register"
      /\ ProcessOK(s) /\ srv[s] \in Process
      /\ srv \in [Server -> Process] /\ Ends(s) /\ call[Main(s)].step = "done"
  BY ProcessFacts DEF Registered, At, Ends, Become
<1>2. CASE call[Main(s)].error # "none" /\ (Leave(s, "oom") \/ Leave(s, "register"))
  <2>1. UndoOK(s) /\ Undisturbed(s) => NoRowOf(s)
    BY <1>1, <1>2 DEF UndoOK, UndoCall
  <2> QED
    BY <1>1, <1>2, <2>1, GotoRows
       DEF Places, Applying, Before, Closing, FailedErrors, ProcessOK
<1>3. CASE /\ call[Main(s)].error = "none"
           /\ srv' = [srv EXCEPT ![s].pc = "loading", ![s].registered = TRUE]
  <2> DEFINE p == [srv[s] EXCEPT !.pc = "loading", !.registered = TRUE]
  <2>1. srv' = [srv EXCEPT ![s] = p]
    BY <1>1, <1>3
  <2>2. /\ p.cfg = srv[s].cfg /\ p.cancelled = srv[s].cancelled
        /\ p.grown = srv[s].grown /\ p.registered
        /\ p.streams = srv[s].streams /\ p.ready = srv[s].ready /\ p.pc = "loading"
        /\ p.err = srv[s].err
    BY <1>1 DEF Process
  <2> HIDE DEF p
  <2>3. Elsewhere(s) /\ srv'[s] = p
    BY <1>1, <2>1, ElsewhereStep DEF Ends
  <2>4. Backed(s, Len(Targets(s)))
    BY <1>1, <1>3 DEF RowsInv, RowsOK, RegisterRows
  <2>5. Follows(s)
    BY <1>1, <2>2, <2>3, <2>4, EndsCall
       DEF Follows, Loaded, Closing, Applying, Before, ProcessOK
  <2> QED
    BY <1>1, <2>3, <2>5, FollowsStep
<1> QED
  BY <1>2, <1>3 DEF Registered

\* Resize is called: every row is there.
LEMMA GrowRows ==
    ASSUME LlamaInv, RowsInv, NEW s \in Server, Grow(s) PROVE RowsKept
<1>1. /\ UNCHANGED <<dev, faults>> /\ srv[s].pc = "serving"
      /\ ProcessOK(s) /\ srv[s] \in Process
      /\ srv \in [Server -> Process]
  BY ProcessFacts DEF Grow, At
<1>2. CASE Leave(s, "growth") /\ UNCHANGED call
  BY <1>1, <1>2, GotoRows
     DEF Places, Applying, Before, Closing, FailedErrors, ProcessOK, Loaded, Ends
<1>3. CASE /\ srv' = [srv EXCEPT ![s].pc = "resize", ![s].grown = TRUE]
           /\ Become(Main(s), NewCall("apply"))
  <2> DEFINE p == [srv[s] EXCEPT !.pc = "resize", !.grown = TRUE]
  <2>1. srv' = [srv EXCEPT ![s] = p]
    BY <1>1, <1>3
  <2>2. /\ p.cfg = srv[s].cfg /\ p.registered = srv[s].registered /\ p.err = srv[s].err
        /\ p.cancelled = srv[s].cancelled
        /\ p.streams = srv[s].streams /\ p.ready = srv[s].ready /\ p.pc = "resize" /\ p.grown
    BY <1>1 DEF Process
  <2> HIDE DEF p
  <2>3. Elsewhere(s) /\ srv'[s] = p
    BY <1>3, <2>1, ElsewhereStep DEF Become
  <2>4. Fresh(Main(s), "apply") /\ call'[Signal(s)] = call[Signal(s)]
    BY <1>3, BeginsCall, Goroutines
  <2>5. Follows(s)
    BY <1>1, <2>2, <2>3, <2>4
       DEF Follows, Loaded, Closing, Applying, Before, ProcessOK, FailedErrors
  <2> QED
    BY <1>1, <2>3, <2>5, FollowsStep
<1> QED
  BY <1>2, <1>3 DEF Grow

\* The server moves on from one place to another, or stays.
Steps(s, p, where) ==
    /\ srv' = [srv EXCEPT ![s] = p]
    /\ UNCHANGED <<dev, faults>>
    /\ p.cfg = srv[s].cfg /\ p.grown = srv[s].grown
    /\ p.registered = srv[s].registered
    /\ p.pc = where /\ (srv[s].cancelled => p.cancelled)

\* Such a step keeps both invariants.
LEMMA StepsRows ==
    ASSUME LlamaInv, RowsInv, NEW s \in Server, NEW p, NEW where \in Places,
           Steps(s, p, where),
           \/ UNCHANGED call
           \/ call' = [call EXCEPT ![Signal(s)] = NoCall],
           \/ where = srv[s].pc
           \/ where = "serving" /\ srv[s].pc = "loading"
           \/ where \in Closing /\ srv[s].pc \in Loaded \cup Closing
           \/ where = "release",
           p.streams > 0 \/ p.ready =>
               srv[s].streams > 0 \/ srv[s].ready \/ srv[s].pc \in Loaded,
           \/ p.err = srv[s].err
           \/ srv[s].pc = "serving" /\ where = "cleanup" /\ p.err \notin FailedErrors,
           srv[s].pc \notin {"register", "exited"} \/ where = srv[s].pc
    PROVE  RowsKept
<1>1. Elsewhere(s) /\ srv'[s] = p
  BY ElsewhereStep DEF Steps
<1>2. call'[Main(s)] = call[Main(s)] /\
      (call'[Signal(s)] = call[Signal(s)] \/ call'[Signal(s)].kind = "none")
  BY Goroutines DEF LlamaInv, NoCall
<1>3. ProcessOK(s) /\ GoneRows(s)
  BY ProcessFacts DEF RowsInv, RowsOK
<1>4. ~ p.cfg.hangShutdown /\ p.err \notin FailedErrors /\ p.pc = "exited" => NoRowOf(s)
  BY <1>3 DEF Steps, GoneRows, Closing
<1>5. Follows(s)
  BY <1>1, <1>2, <1>3, <1>4
     DEF Follows, Loaded, Closing, Applying, Before, ProcessOK, Steps, FailedErrors
<1> QED
  BY <1>1, <1>5, FollowsStep DEF Steps

\* The model is loaded.
LEMMA LoadRows ==
    ASSUME LlamaInv, RowsInv, NEW s \in Server, Load(s) PROVE RowsKept
<1> DEFINE p == [srv[s] EXCEPT !.pc = "serving", !.ready = TRUE]
<1>1. /\ srv[s].pc = "loading" /\ UNCHANGED <<dev, call, faults>> /\ srv[s] \in Process
      /\ srv \in [Server -> Process]
      /\ srv' = [srv EXCEPT ![s].pc = "serving", ![s].ready = TRUE]
  BY ProcessFacts DEF Load, At
<1>2. srv' = [srv EXCEPT ![s] = p]
  BY <1>1
<1>3. /\ p.cfg = srv[s].cfg /\ p.cancelled = srv[s].cancelled
      /\ p.grown = srv[s].grown /\ p.registered = srv[s].registered
      /\ p.pc = "serving" /\ p.err = srv[s].err /\ p.streams = srv[s].streams
  BY <1>1 DEF Process
<1> HIDE DEF p
<1>4. Steps(s, p, "serving") /\ "serving" \in Places
  BY <1>1, <1>2, <1>3 DEF Steps, Places
<1> QED
  BY <1>1, <1>3, <1>4, StepsRows DEF Loaded, Closing

\* The crash delay is over.
LEMMA CrashRows ==
    ASSUME LlamaInv, RowsInv, NEW s \in Server, Crash(s) PROVE RowsKept
<1> DEFINE p == [srv[s] EXCEPT !.pc = "cleanup", !.err = "crash", !.ready = FALSE]
<1>1. /\ srv[s].pc = "serving" /\ UNCHANGED <<dev, call, faults>> /\ srv[s] \in Process
      /\ srv \in [Server -> Process]
      /\ srv' = [srv EXCEPT ![s].pc = "cleanup", ![s].err = "crash",
                          ![s].ready = FALSE]
  BY ProcessFacts DEF Crash, At
<1>2. srv' = [srv EXCEPT ![s] = p]
  BY <1>1
<1>3. /\ p.cfg = srv[s].cfg /\ p.cancelled = srv[s].cancelled
      /\ p.grown = srv[s].grown /\ p.registered = srv[s].registered
      /\ p.pc = "cleanup" /\ p.streams = srv[s].streams
      /\ ~ p.ready /\ p.err \notin FailedErrors
  BY <1>1 DEF Process, FailedErrors
<1> HIDE DEF p
<1>4. Steps(s, p, "cleanup") /\ "cleanup" \in Places
  BY <1>1, <1>2, <1>3 DEF Steps, Places
<1> QED
  BY <1>1, <1>3, <1>4, StepsRows DEF Loaded, Closing

\* Readiness is withdrawn.
LEMMA CleanupRows ==
    ASSUME LlamaInv, RowsInv, NEW s \in Server, Cleanup(s) PROVE RowsKept
<1> DEFINE p == [srv[s] EXCEPT !.pc = "draining", !.ready = FALSE]
<1>1. /\ srv[s].pc = "cleanup" /\ UNCHANGED <<dev, call, faults>> /\ srv[s] \in Process
      /\ srv \in [Server -> Process]
      /\ srv' = [srv EXCEPT ![s].pc = "draining", ![s].ready = FALSE]
  BY ProcessFacts DEF Cleanup, At
<1>2. srv' = [srv EXCEPT ![s] = p]
  BY <1>1
<1>3. /\ p.cfg = srv[s].cfg /\ p.cancelled = srv[s].cancelled
      /\ p.grown = srv[s].grown /\ p.registered = srv[s].registered
      /\ p.pc = "draining" /\ p.err = srv[s].err /\ p.streams = srv[s].streams
      /\ ~ p.ready
  BY <1>1 DEF Process
<1> HIDE DEF p
<1>4. Steps(s, p, "draining") /\ "draining" \in Places
  BY <1>1, <1>2, <1>3 DEF Steps, Places
<1> QED
  BY <1>1, <1>3, <1>4, StepsRows DEF Loaded, Closing

\* The streams that are left are cut off.
LEMMA DrainTimeoutRows ==
    ASSUME LlamaInv, RowsInv, NEW s \in Server, DrainTimeout(s) PROVE RowsKept
<1> DEFINE p == [srv[s] EXCEPT !.pc = "release", !.streams = 0]
<1>1. /\ srv[s].pc = "draining" /\ UNCHANGED <<dev, call, faults>> /\ srv[s] \in Process
      /\ srv \in [Server -> Process]
      /\ srv' = [srv EXCEPT ![s].pc = "release", ![s].streams = 0]
  BY ProcessFacts DEF DrainTimeout, At
<1>2. srv' = [srv EXCEPT ![s] = p]
  BY <1>1
<1>3. /\ p.cfg = srv[s].cfg /\ p.cancelled = srv[s].cancelled
      /\ p.grown = srv[s].grown /\ p.registered = srv[s].registered
      /\ p.pc = "release" /\ p.err = srv[s].err /\ p.ready = srv[s].ready
      /\ p.streams = 0
  BY <1>1 DEF Process
<1> HIDE DEF p
<1>4. Steps(s, p, "release") /\ "release" \in Places
  BY <1>1, <1>2, <1>3 DEF Steps, Places
<1> QED
  BY <1>1, <1>3, <1>4, StepsRows DEF Loaded, Closing

\* The deadline of main's release passes.
LEMMA ReleaseDeadlineRows ==
    ASSUME LlamaInv, RowsInv, NEW s \in Server, ReleaseDeadline(s) PROVE RowsKept
<1> DEFINE p == [srv[s] EXCEPT !.expired = TRUE]
<1>1. /\ TRUE /\ UNCHANGED <<dev, call, faults>> /\ srv[s] \in Process
      /\ srv \in [Server -> Process]
      /\ srv' = [srv EXCEPT ![s].expired = TRUE]
  BY ProcessFacts DEF ReleaseDeadline, At
<1>2. srv' = [srv EXCEPT ![s] = p]
  BY <1>1
<1>3. /\ p.cfg = srv[s].cfg /\ p.cancelled = srv[s].cancelled
      /\ p.grown = srv[s].grown /\ p.registered = srv[s].registered
      /\ p.pc = srv[s].pc /\ p.err = srv[s].err /\ p.streams = srv[s].streams
      /\ p.ready = srv[s].ready
  BY <1>1 DEF Process
<1> HIDE DEF p
<1>4. Steps(s, p, srv[s].pc) /\ srv[s].pc \in Places
  BY <1>1, <1>2, <1>3 DEF Steps, Places, Process
<1> QED
  BY <1>1, <1>3, <1>4, StepsRows DEF Loaded, Closing

\* A signal is queued.
LEMMA SigtermRows ==
    ASSUME LlamaInv, RowsInv, NEW s \in Server, Sigterm(s) PROVE RowsKept
<1> DEFINE k == srv[s].pending + 1
           p == [srv[s] EXCEPT !.pending = k]
<1>1. /\ TRUE /\ UNCHANGED <<dev, call, faults>> /\ srv[s] \in Process
      /\ srv \in [Server -> Process]
      /\ srv' = [srv EXCEPT ![s].pending = k]
  BY ProcessFacts DEF Sigterm, At
<1> HIDE DEF k
<1>2. srv' = [srv EXCEPT ![s] = p]
  BY <1>1
<1>3. /\ p.cfg = srv[s].cfg /\ p.cancelled = srv[s].cancelled
      /\ p.grown = srv[s].grown /\ p.registered = srv[s].registered
      /\ p.pc = srv[s].pc /\ p.err = srv[s].err /\ p.streams = srv[s].streams
      /\ p.ready = srv[s].ready
  BY <1>1 DEF Process
<1> HIDE DEF p
<1>4. Steps(s, p, srv[s].pc) /\ srv[s].pc \in Places
  BY <1>1, <1>2, <1>3 DEF Steps, Places, Process
<1> QED
  BY <1>1, <1>3, <1>4, StepsRows DEF Loaded, Closing

\* A request is accepted.
LEMMA BeginStreamRows ==
    ASSUME LlamaInv, RowsInv, NEW s \in Server, BeginStream(s) PROVE RowsKept
<1> DEFINE k == srv[s].streams + 1
           p == [srv[s] EXCEPT !.streams = k]
<1>1. /\ srv[s].ready /\ UNCHANGED <<dev, call, faults>> /\ srv[s] \in Process
      /\ srv \in [Server -> Process]
      /\ srv' = [srv EXCEPT ![s].streams = k]
  BY ProcessFacts DEF BeginStream, At
<1> HIDE DEF k
<1>2. srv' = [srv EXCEPT ![s] = p]
  BY <1>1
<1>3. /\ p.cfg = srv[s].cfg /\ p.cancelled = srv[s].cancelled
      /\ p.grown = srv[s].grown /\ p.registered = srv[s].registered
      /\ p.pc = srv[s].pc /\ p.err = srv[s].err /\ p.ready = srv[s].ready
  BY <1>1 DEF Process
<1> HIDE DEF p
<1>4. Steps(s, p, srv[s].pc) /\ srv[s].pc \in Places
  BY <1>1, <1>2, <1>3 DEF Steps, Places, Process
<1> QED
  BY <1>1, <1>3, <1>4, StepsRows DEF Loaded, Closing

\* A request has been answered.
LEMMA EndStreamRows ==
    ASSUME LlamaInv, RowsInv, NEW s \in Server, EndStream(s) PROVE RowsKept
<1> DEFINE k == srv[s].streams - 1
           p == [srv[s] EXCEPT !.streams = k]
<1>1. /\ srv[s].streams > 0 /\ UNCHANGED <<dev, call, faults>> /\ srv[s] \in Process
      /\ srv \in [Server -> Process]
      /\ srv' = [srv EXCEPT ![s].streams = k]
  BY ProcessFacts DEF EndStream, At
<1> HIDE DEF k
<1>2. srv' = [srv EXCEPT ![s] = p]
  BY <1>1
<1>3. /\ p.cfg = srv[s].cfg /\ p.cancelled = srv[s].cancelled
      /\ p.grown = srv[s].grown /\ p.registered = srv[s].registered
      /\ p.pc = srv[s].pc /\ p.err = srv[s].err /\ p.ready = srv[s].ready
  BY <1>1 DEF Process
<1> HIDE DEF p
<1>4. Steps(s, p, srv[s].pc) /\ srv[s].pc \in Places
  BY <1>1, <1>2, <1>3 DEF Steps, Places, Process
<1> QED
  BY <1>1, <1>3, <1>4, StepsRows DEF Loaded, Closing

\* The signal goroutine takes a signal.
LEMMA HandleSignalRows ==
    ASSUME LlamaInv, RowsInv, NEW s \in Server, HandleSignal(s) PROVE RowsKept
<1> DEFINE k == srv[s].pending - 1
<1>1. UNCHANGED <<dev, call, faults>> /\ srv[s] \in Process /\ srv \in [Server -> Process]
  BY ProcessFacts DEF HandleSignal
<1>2. \/ srv' = [srv EXCEPT ![s].pending = k, ![s].sig = "release"]
      \/ srv' = [srv EXCEPT ![s].pending = k, ![s].sig = "stopped", ![s].cancelled = TRUE]
  BY <1>1 DEF HandleSignal
<1> HIDE DEF k
<1>3. ASSUME NEW p, srv' = [srv EXCEPT ![s] = p], p.cfg = srv[s].cfg,
             p.grown = srv[s].grown, p.registered = srv[s].registered,
             p.pc = srv[s].pc, p.err = srv[s].err, p.streams = srv[s].streams,
             p.ready = srv[s].ready, srv[s].cancelled => p.cancelled
      PROVE  RowsKept
  <2>1. Steps(s, p, srv[s].pc) /\ srv[s].pc \in Places
    BY <1>1, <1>3 DEF Steps, Process
  <2> QED
    BY <1>1, <1>3, <2>1, StepsRows
<1>4. CASE srv' = [srv EXCEPT ![s].pending = k, ![s].sig = "release"]
  <2> DEFINE p == [srv[s] EXCEPT !.pending = k, !.sig = "release"]
  <2>1. srv' = [srv EXCEPT ![s] = p]
    BY <1>1, <1>4
  <2>2. /\ p.cfg = srv[s].cfg /\ p.cancelled = srv[s].cancelled
        /\ p.grown = srv[s].grown /\ p.registered = srv[s].registered
        /\ p.pc = srv[s].pc /\ p.err = srv[s].err /\ p.streams = srv[s].streams
        /\ p.ready = srv[s].ready
    BY <1>1 DEF Process
  <2> HIDE DEF p
  <2> QED
    BY <1>3, <2>1, <2>2
<1>5. CASE srv' = [srv EXCEPT ![s].pending = k, ![s].sig = "stopped", ![s].cancelled = TRUE]
  <2> DEFINE p == [srv[s] EXCEPT !.pending = k, !.sig = "stopped", !.cancelled = TRUE]
  <2>1. srv' = [srv EXCEPT ![s] = p]
    BY <1>1, <1>5
  <2>2. /\ p.cfg = srv[s].cfg /\ p.cancelled /\ p.grown = srv[s].grown
        /\ p.registered = srv[s].registered
        /\ p.pc = srv[s].pc /\ p.err = srv[s].err /\ p.streams = srv[s].streams
        /\ p.ready = srv[s].ready
    BY <1>1 DEF Process
  <2> HIDE DEF p
  <2> QED
    BY <1>3, <2>1, <2>2
<1> QED
  BY <1>2, <1>4, <1>5

\* The release of the signal goroutine has returned.
LEMMA SignalHandledRows ==
    ASSUME LlamaInv, RowsInv, NEW s \in Server, SignalHandled(s) PROVE RowsKept
<1> DEFINE p == [srv[s] EXCEPT !.sig = "waiting"]
<1>1. /\ UNCHANGED <<dev, faults>> /\ srv[s] \in Process /\ srv \in [Server -> Process]
      /\ call' = [call EXCEPT ![Signal(s)] = NoCall]
      /\ srv' = [srv EXCEPT ![s].sig = "waiting"]
  BY ProcessFacts DEF SignalHandled, Become
<1>2. srv' = [srv EXCEPT ![s] = p]
  BY <1>1
<1>3. /\ p.cfg = srv[s].cfg /\ p.cancelled = srv[s].cancelled
      /\ p.grown = srv[s].grown /\ p.registered = srv[s].registered
      /\ p.pc = srv[s].pc /\ p.err = srv[s].err /\ p.streams = srv[s].streams
      /\ p.ready = srv[s].ready
  BY <1>1 DEF Process
<1> HIDE DEF p
<1>4. Steps(s, p, srv[s].pc) /\ srv[s].pc \in Places
  BY <1>1, <1>2, <1>3 DEF Steps, Process
<1> QED
  BY <1>1, <1>3, <1>4, StepsRows

\* ReleaseResources has nothing to do, or starts.
LEMMA BeginReleaseRows ==
    ASSUME LlamaInv, RowsInv, NEW t \in Goroutine, BeginRelease(t) PROVE RowsKept
<1> DEFINE s == Pid(t)
<1>1. /\ WantsRelease(t) /\ call[t].step = "none" /\ UNCHANGED <<dev, faults>>
      /\ s \in Server /\ srv \in [Server -> Process] /\ srv[s] \in Process
      /\ ProcessOK(s) /\ call \in [Goroutine -> Call] /\ GoneRows(s)
  BY ProcessFacts, Goroutines DEF BeginRelease, LlamaInv, RowsInv, RowsOK
<1>2. t \in {Main(s), Signal(s)} /\ (t = Main(s) => srv[s].pc = "release")
  BY <1>1, Goroutines DEF WantsRelease
<1>3. CASE ~ srv[s].registered /\ Done(t, "none") /\ UNCHANGED srv
  <2> DEFINE c == [NoCall EXCEPT !.step = "done", !.error = "none"]
  <2>1. call' = [call EXCEPT ![t] = c] /\ c.kind = "none"
    BY <1>3 DEF Done, Become, NoCall
  <2> HIDE DEF c
  <2>2. srv' = [srv EXCEPT ![s] = srv[s]]
    BY <1>1, <1>3
  <2>3. Elsewhere(s)
    BY <1>1, <1>2, <2>1, <2>2, ElsewhereStep
  <2>4. \A u \in {Main(s), Signal(s)} :
           IF u = t THEN call'[u].kind = "none" ELSE call'[u] = call[u]
    BY <1>1, <1>2, <2>1, Goroutines
  <2>5. t # Main(s) => call'[Main(s)] = call[Main(s)]
    BY <2>4
  <2>6. Follows(s)
    BY <1>1, <1>2, <1>3, <2>4, <2>5
       DEF Follows, Applying, GoneRows
  <2> QED
    BY <1>1, <2>3, <2>6, FollowsStep
<1>4. CASE /\ srv[s].registered
           /\ srv' = [srv EXCEPT ![s].ready = FALSE, ![s].releaseMu = t[2]]
           /\ Become(t, NewCall("release"))
  <2> DEFINE p == [srv[s] EXCEPT !.ready = FALSE, !.releaseMu = t[2]]
  <2>1. srv' = [srv EXCEPT ![s] = p]
    BY <1>1, <1>4
  <2>2. /\ p.cfg = srv[s].cfg /\ p.cancelled = srv[s].cancelled
        /\ p.grown = srv[s].grown /\ p.registered
        /\ p.pc = srv[s].pc /\ p.err = srv[s].err /\ p.streams = srv[s].streams
        /\ ~ p.ready
    BY <1>1, <1>4 DEF Process
  <2> HIDE DEF p
  <2>3. Elsewhere(s) /\ srv'[s] = p
    BY <1>1, <1>2, <1>4, <2>1, ElsewhereStep DEF Become
  <2>4. Fresh(t, "release") /\ \A u \in {Main(s), Signal(s)} : u # t => call'[u] = call[u]
    BY <1>1, <1>4, BeginsCall, Goroutines
  <2>5. Follows(s)
    BY <1>1, <1>2, <1>4, <2>2, <2>3, <2>4 DEF Follows, Applying, GoneRows
  <2> QED
    BY <1>1, <2>3, <2>5, FollowsStep
<1> QED
  BY <1>3, <1>4 DEF BeginRelease

-----------------------------------------------------------------------------
(* Steps of the registry. *)

\* The call that follows an error of apply, a target that has been put back, and
\* a target that has been released.
LEMMA AbortFields ==
    ASSUME LlamaInv, NEW t \in Goroutine, NEW e, Abort(t, e)
    PROVE  /\ \A u \in Goroutine : u # t => call'[u] = call[u]
           /\ call[t].applied = <<>> =>
                 /\ call'[t].kind = "none" /\ call'[t].step = "done" /\ call'[t].error = e
           /\ call[t].applied # <<>> =>
                 /\ call'[t].kind = "rollback" /\ call'[t].step = "snapshot"
                 /\ call'[t].error = e /\ call'[t].applied = call[t].applied
                 /\ call'[t].i = Len(call[t].applied)
<1>1. call \in [Goroutine -> Call] /\ call[t] \in Call
  BY DEF LlamaInv
<1>2. CASE call[t].applied = <<>>
  BY <1>1, <1>2 DEF Abort, Done, Become, NoCall
<1>3. CASE call[t].applied # <<>>
  <2> DEFINE n == Len(call[t].applied)
             b == [call[t] EXCEPT !.kind = "rollback", !.error = e, !.step = "snapshot",
                                  !.before = NoDevice, !.i = n]
  <2>1. call' = [call EXCEPT ![t] = b]
    BY <1>3 DEF Abort, Become
  <2> HIDE DEF n
  <2>2. /\ b.kind = "rollback" /\ b.step = "snapshot" /\ b.error = e /\ b.i = n
        /\ b.applied = call[t].applied
    BY <1>1 DEF Call
  <2> HIDE DEF b
  <2> QED
    BY <1>1, <1>3, <2>1, <2>2 DEF n
<1> QED
  BY <1>2, <1>3

\* The rollback passes its target.
LEMMA RollbackNextFields ==
    ASSUME LlamaInv, NEW t \in Goroutine, RollbackNext(t)
    PROVE  /\ \A u \in Goroutine : u # t => call'[u] = call[u]
           /\ call[t].i = 1 =>
                 /\ call'[t].kind = "none" /\ call'[t].step = "done"
                 /\ call'[t].error = call[t].error
           /\ call[t].i # 1 =>
                 /\ call'[t].kind = call[t].kind /\ call'[t].step = "snapshot"
                 /\ call'[t].error = call[t].error /\ call'[t].applied = call[t].applied
                 /\ call'[t].i = call[t].i - 1
<1>1. call \in [Goroutine -> Call] /\ call[t] \in Call
  BY DEF LlamaInv
<1>2. CASE call[t].i = 1
  BY <1>1, <1>2 DEF RollbackNext, Done, Become, NoCall
<1>3. CASE call[t].i # 1
  <2> DEFINE n == call[t].i - 1
             b == [call[t] EXCEPT !.i = n, !.step = "snapshot", !.before = NoDevice]
  <2>1. call' = [call EXCEPT ![t] = b]
    BY <1>3 DEF RollbackNext, Become
  <2> HIDE DEF n
  <2>2. /\ b.kind = call[t].kind /\ b.step = "snapshot" /\ b.error = call[t].error
        /\ b.i = n /\ b.applied = call[t].applied
    BY <1>1 DEF Call
  <2> HIDE DEF b
  <2> QED
    BY <1>1, <1>3, <2>1, <2>2 DEF n
<1> QED
  BY <1>2, <1>3

\* The release passes its target.
LEMMA ReleaseNextFields ==
    ASSUME LlamaInv, NEW t \in Goroutine, NEW e, ReleaseNext(t, e)
    PROVE  /\ \A u \in Goroutine : u # t => call'[u] = call[u]
           /\ call'[t].kind = call[t].kind /\ call'[t].i = call[t].i + 1
           /\ call'[t].error = e
<1> DEFINE where == IF call[t].i = Len(Targets(Pid(t))) THEN "end" ELSE "snapshot"
<1>1. call \in [Goroutine -> Call] /\ call[t] \in Call
  BY DEF LlamaInv
<1>2. call' = [call EXCEPT ![t] = [call[t] EXCEPT !.i = call[t].i + 1, !.step = where,
                                                   !.before = NoDevice, !.error = e]]
  BY DEF ReleaseNext, Become
<1> HIDE DEF where
<1> QED
  BY <1>1, <1>2 DEF Call

\* A step of one goroutine, which leaves the rows of other servers alone.
LEMMA RegistryStep ==
    ASSUME RowsInv, NEW t \in Goroutine, UNCHANGED srv,
           \A u \in Goroutine : u # t => call'[u] = call[u],
           \A q \in Server \ {Pid(t)} : \A h \in GPU : RowKept(q, h), RowsOK(Pid(t))'
    PROVE  RowsInv'
<1> SUFFICES ASSUME NEW r \in Server, r # Pid(t) PROVE RowsOK(r)'
  BY DEF RowsInv
<1>1. Main(r) \in Goroutine /\ Signal(r) \in Goroutine /\ Main(r) # t /\ Signal(r) # t
  BY Goroutines
<1> QED
  BY <1>1, OthersRows DEF RowsInv

\* apply and rollback.
LEMMA ApplyingRows ==
    ASSUME LlamaInv, NEW s \in Server, RowsOK(s), srv[s].pc \in Applying, UNCHANGED srv,
           call'[Signal(s)] = call[Signal(s)], call'[Main(s)].kind # "release",
           RowsWithin(s, 1, Len(Targets(s)))',
           \/ \A g \in GPU : HasRow(s, g) => HasRow(s, g)'
           \/ srv[s].pc = "register"
           \/ srv[s].cfg.hangShutdown,
           RegisterRows(s)', ResizeRows(s)'
    PROVE  RowsOK(s)'
<1>1. /\ ProcessOK(s) /\ srv[s].registered \in BOOLEAN
      /\ Targets(s)' = Targets(s) /\ Alone(s)' = Alone(s)
  BY ProcessFacts, SameConfig DEF Alone
<1>2. srv[s].pc = "resize" => srv[s].grown
  BY DEF RowsOK, ResizeRows
<1>3. ServingRows(s)'
  <2> SUFFICES ASSUME ~ srv[s].cfg.hangShutdown PROVE ServingRows(s)'
    BY DEF ServingRows
  <2>1. CASE srv[s].pc = "register"
    BY <1>1, <2>1 DEF ServingRows, RowsOK, ProcessOK
  <2>2. CASE srv[s].pc = "resize" /\ \A g \in GPU : HasRow(s, g) => HasRow(s, g)'
    <3>1. srv[s].registered /\ Backed(s, Len(Targets(s)))
      BY <2>2 DEF RowsOK, ServingRows
    <3>2. Backed(s, Len(Targets(s)))'
      BY <1>1, <2>2, <3>1 DEF Backed, Among
    <3> QED
      BY <3>1, <3>2 DEF ServingRows
  <2> QED
    BY <2>1, <2>2 DEF Applying
<1>4. ReleaseRows(s)'
  <2>1. Alone(s) => call[Signal(s)].kind # "release"
    <3>1. call[Signal(s)].kind = "release" => ReleaseOK(Signal(s))
      BY Goroutines DEF LlamaInv, CallOK
    <3>2. call[Signal(s)].kind = "release" => srv[s].registered /\ srv[s].cfg.hangShutdown
      BY <1>1, <3>1, Goroutines DEF ReleaseOK, WantsRelease, ProcessOK
    <3> QED
      BY <1>1, <1>2, <3>2 DEF Alone, ProcessOK, Applying
  <2> QED
    BY <1>1, <2>1 DEF ReleaseRows
<1>5. GoneRows(s)'
  BY <1>1, <1>2 DEF GoneRows, RowsOK, ServingRows, Applying, Before, Alone
<1> QED
  BY <1>3, <1>4, <1>5 DEF RowsOK

\* A snapshot of apply sees the rows as they are.
LEMMA ApplySnapshotRows ==
    ASSUME LlamaInv, RowsInv, NEW t \in Goroutine, ApplySnapshot(t) PROVE RowsInv'
<1> DEFINE s == Pid(t)
           c == call[t]
           d == Observed(dev[Target(t)])
           b == [c EXCEPT !.before = d, !.step = "replace"]
<1>1. /\ c.kind = "apply" /\ c.step = "snapshot" /\ UNCHANGED <<dev, srv>>
  BY DEF ApplySnapshot
<1>2. /\ ApplyOK(t) /\ s \in Server /\ c \in Call /\ Len(Targets(s)) \in Nat
      /\ DOMAIN Targets(s) = 1 .. Len(Targets(s)) /\ RowsOK(s)
      /\ srv[s].pc \in Applying /\ t = Main(s) /\ Signal(s) \in Goroutine /\ Signal(s) # t
  BY <1>1, ApplyFacts, Goroutines DEF ApplyOK, RowsInv
<1>3. /\ \A i, j : RowsWithin(s, i, j)' <=> RowsWithin(s, i, j)
      /\ \A i : Backed(s, i)' <=> Backed(s, i)
      /\ Targets(s)' = Targets(s)
  BY <1>1, <1>2, SameWhere, SameConfig DEF HasRow
<1>4. ASSUME \A u \in Goroutine : u # t => call'[u] = call[u], call'[t].kind # "release",
             RegisterRows(s)', ResizeRows(s)'
      PROVE  RowsInv'
  <2>1. RowsWithin(s, 1, Len(Targets(s)))' /\ \A g \in GPU : HasRow(s, g) => HasRow(s, g)'
    BY <1>1, <1>2, <1>3 DEF RowsOK, HasRow
  <2>2. RowsOK(s)'
    BY <1>1, <1>2, <1>4, <2>1, ApplyingRows
  <2> QED
    BY <1>1, <1>4, <2>2, RegistryStep, QuietRows
<1>5. ASSUME NEW e \in {"error", "oom"}, Abort(t, e) PROVE RowsInv'
  <2>1. /\ \A u \in Goroutine : u # t => call'[u] = call[u]
        /\ \/ /\ call'[t].kind = "none" /\ call'[t].step = "done" /\ call'[t].error = e
           \/ /\ call'[t].kind = "rollback" /\ call'[t].step = "snapshot"
              /\ call'[t].applied = c.applied
    BY <1>5, AbortFields
  <2>2. RegisterRows(s)' /\ ResizeRows(s)'
    BY <1>1, <1>2, <2>1 DEF RegisterRows, ResizeRows, RowsOK
  <2> QED
    BY <1>4, <2>1, <2>2
<1>6. CASE Resolves(t) /\ Become(t, b)
  <2>1. Found(s, c.i)
    BY <1>6 DEF Resolves, Found, TargetWord
  <2>2. /\ Target(t) \in GPU /\ Targets(s)[c.i] \in GpuNames[Target(t)]
        /\ \A g \in GPU : Targets(s)[c.i] \in GpuNames[g] => g = Target(t)
    BY <2>1, TargetFound
  <2>3. d.mem = dev[Target(t)].mem
    BY <2>2, ObservedFits DEF LlamaInv, DevicesOK
  <2> HIDE DEF d
  <2>4. /\ b.kind = "apply" /\ b.step = "replace" /\ b.i = c.i /\ b.applied = c.applied
        /\ b.before = d /\ b.error = c.error
    BY <1>1, <1>2 DEF Call
  <2>5. call' = [call EXCEPT ![t] = b] /\ call \in [Goroutine -> Call]
    BY <1>6 DEF Become, LlamaInv
  <2> HIDE DEF b
  <2>6. call'[t] = b /\ \A u \in Goroutine : u # t => call'[u] = call[u]
    BY <2>5
  <2>7. RegisterRows(s)'
    <3>1. s \in DOMAIN d.mem => \A g \in GPU : Targets(s)[c.i] \in GpuNames[g] => HasRow(s, g)
      BY <2>2, <2>3 DEF HasRow
    <3>2. \A g : HasRow(s, g)' <=> HasRow(s, g)
      BY <1>1 DEF HasRow
    <3> QED
      BY <1>1, <1>2, <1>3, <2>4, <2>6, <3>1, <3>2 DEF RegisterRows, RowsOK
  <2>8. ResizeRows(s)'
    <3>1. srv[s].pc = "resize" /\ ~ srv[s].cfg.hangShutdown => s \in DOMAIN d.mem
      <4>1. srv[s].pc = "resize" /\ ~ srv[s].cfg.hangShutdown => Backed(s, Len(Targets(s)))
        BY <1>2 DEF RowsOK, ServingRows
      <4>2. c.i \in 1 .. Len(Targets(s))
        BY <1>2 DEF ApplyOK
      <4>3. Among(s, Target(t), 1, Len(Targets(s)))
        BY <1>2, <2>2, <4>2 DEF Among
      <4> QED
        BY <2>2, <2>3, <4>1, <4>3 DEF Backed, HasRow
    <3> QED
      BY <1>1, <1>2, <2>4, <2>6, <3>1 DEF ResizeRows, RowsOK
  <2> QED
    BY <1>4, <2>4, <2>6, <2>7, <2>8
<1> QED
  BY <1>5, <1>6 DEF ApplySnapshot

\* A snapshot of the rollback changes no row.
LEMMA RollbackSnapshotRows ==
    ASSUME LlamaInv, RowsInv, NEW t \in Goroutine, RollbackSnapshot(t) PROVE RowsInv'
<1> DEFINE s == Pid(t)
           c == call[t]
           d == Observed(dev[Target(t)])
           b == [c EXCEPT !.before = d, !.step = "replace"]
<1>1. /\ c.kind = "rollback" /\ c.step = "snapshot" /\ UNCHANGED <<dev, srv>>
      /\ RollbackNext(t) \/ Become(t, b)
  BY DEF RollbackSnapshot
<1>2. /\ RollbackOK(t) /\ s \in Server /\ c \in Call /\ RowsOK(s)
      /\ srv[s].pc \in Applying /\ t = Main(s) /\ Signal(s) \in Goroutine /\ Signal(s) # t
      /\ c.error # "none"
  BY <1>1, RollbackFacts, Goroutines DEF RollbackOK, RowsInv
<1>3. /\ \A u \in Goroutine : u # t => call'[u] = call[u]
      /\ \/ call'[t].kind = "none" /\ call'[t].step = "done" /\ call'[t].error # "none"
         \/ call'[t].kind = "rollback" /\ call'[t].applied = c.applied /\ call'[t].step # "done"
  <2>1. CASE RollbackNext(t)
    BY <1>1, <1>2, <2>1, RollbackNextFields
  <2>2. CASE Become(t, b)
    <3> HIDE DEF d
    <3>1. b.kind = "rollback" /\ b.applied = c.applied /\ b.step = "replace"
      BY <1>1, <1>2 DEF Call
    <3> HIDE DEF b
    <3>2. call'[t] = b /\ \A u \in Goroutine : u # t => call'[u] = call[u]
      BY <2>2 DEF Become, LlamaInv
    <3> QED
      BY <3>1, <3>2
  <2> QED
    BY <1>1, <2>1, <2>2
<1>4. RegisterRows(s)' /\ ResizeRows(s)'
  BY <1>1, <1>2, <1>3 DEF RegisterRows, ResizeRows, RowsOK
<1>5. RowsWithin(s, 1, Len(Targets(s)))' /\ \A g \in GPU : HasRow(s, g) => HasRow(s, g)'
  BY <1>1, <1>2, SameWhere, SameConfig DEF RowsOK, HasRow
<1>6. RowsOK(s)'
  BY <1>1, <1>2, <1>3, <1>4, <1>5, ApplyingRows
<1> QED
  BY <1>1, <1>3, <1>6, RegistryStep, QuietRows

\* A command that puts the own row in, or takes it out, stored or not.
LEMMA ReplaceRows ==
    ASSUME LlamaInv, NEW t \in Goroutine, Found(Pid(t), call[t].i),
           NEW desired \in Rows, SamePIDs(desired),
           OnlyRow(call[t].before, desired, Pid(t)), NEW g, g = Target(t),
           ReplaceSucceeds(t, desired) \/ ReplaceFails(t, desired)
    PROVE  /\ g \in GPU
           /\ \A q : \A h \in GPU : q # Pid(t) \/ h # g => RowKept(q, h)
           /\ Pid(t) \in DOMAIN desired.mem => (HasRow(Pid(t), g) => HasRow(Pid(t), g)')
           /\ Pid(t) \notin DOMAIN desired.mem => (HasRow(Pid(t), g)' => HasRow(Pid(t), g))
           /\ ReplaceSucceeds(t, desired) =>
                (HasRow(Pid(t), g)' <=>
                   \/ /\ HasRow(Pid(t), g)
                      /\ ~ (Pid(t) \in DOMAIN call[t].before.mem
                              /\ Pid(t) \notin DOMAIN desired.mem)
                   \/ Pid(t) \in DOMAIN desired.mem \ DOMAIN call[t].before.mem)
<1>1. g \in GPU
  BY TargetFound
<1>2. CASE Stores(t, desired)
  BY <1>1, <1>2, StoredRows
<1>3. CASE ~ Stores(t, desired)
  <2>1. UNCHANGED dev /\ ~ ReplaceSucceeds(t, desired)
    BY <1>3 DEF ReplaceSucceeds, ReplaceFails, Stores
  <2>2. \A q : \A h \in GPU : RowKept(q, h)
    BY <2>1, QuietRows
  <2> QED
    BY <1>1, <2>1, <2>2 DEF RowKept
<1> QED
  BY <1>2, <1>3

\* apply adds the row of its target, or leaves every row alone.
LEMMA ApplyReplaceRows ==
    ASSUME LlamaInv, RowsInv, NEW t \in Goroutine, ApplyReplace(t) PROVE RowsInv'
<1> DEFINE s == Pid(t)
           c == call[t]
           n == Len(Targets(s))
           desired == WithPID(c.before, s, Amount(s, c.i), LlamaUtil)
           b == [c EXCEPT !.i = @ + 1, !.step = "snapshot", !.before = NoDevice,
                          !.applied = Append(@, Prior(c.before, s))]
<1>1. /\ c.kind = "apply" /\ c.step = "replace" /\ UNCHANGED srv
      /\ \/ /\ ReplaceSucceeds(t, desired)
            /\ IF c.i = Len(Targets(s)) THEN Done(t, "none") ELSE Become(t, b)
         \/ ReplaceFails(t, desired) /\ Abort(t, "error")
  BY DEF ApplyReplace
<1>2. /\ ApplyOK(t) /\ s \in Server /\ c \in Call /\ Len(Targets(s)) \in Nat
      /\ DOMAIN Targets(s) = 1 .. Len(Targets(s)) /\ RowsOK(s)
      /\ srv[s].pc \in Applying /\ t = Main(s) /\ Signal(s) \in Goroutine /\ Signal(s) # t
      /\ SamePIDs(c.before)
  BY <1>1, ApplyFacts, Goroutines DEF ApplyOK, RowsInv
<1>3. /\ c.i \in 1 .. n /\ Found(s, c.i) /\ c.before \in Device /\ c.applied \in Seq(PriorRow)
  BY <1>1, <1>2 DEF ApplyOK, Call
<1>4. /\ desired \in Rows /\ SamePIDs(desired) /\ s \in DOMAIN desired.mem
      /\ OnlyRow(c.before, desired, s)
  BY <1>1, <1>2, <1>3, ApplyDesired, OnlyOwnRow
<1> HIDE DEF desired
<1>5. PICK g : g = Target(t)
  OBVIOUS
<1>6. /\ g \in GPU
      /\ \A q : \A h \in GPU : q # s \/ h # g => RowKept(q, h)
      /\ HasRow(s, g) => HasRow(s, g)'
      /\ ReplaceSucceeds(t, desired) =>
            (HasRow(s, g)' <=> HasRow(s, g) \/ s \notin DOMAIN c.before.mem)
  BY <1>1, <1>3, <1>4, <1>5, ReplaceRows
<1>7. /\ Targets(s)[c.i] \in GpuNames[g]
      /\ \A h \in GPU : Targets(s)[c.i] \in GpuNames[h] => h = g
  BY <1>3, <1>5, TargetFound
<1>8. Targets(s)' = Targets(s)
  BY <1>1, <1>2, SameConfig
<1>9. /\ \A h \in GPU : HasRow(s, h) => HasRow(s, h)'
      /\ \A h \in GPU : h # g /\ HasRow(s, h)' => HasRow(s, h)
  BY <1>6 DEF RowKept
<1>10. RowsWithin(s, 1, n)'
  <2> SUFFICES ASSUME NEW h \in GPU, HasRow(s, h)' PROVE Among(s, h, 1, n)
    BY <1>8 DEF RowsWithin, Among
  <2>1. CASE h = g
    BY <1>2, <1>3, <1>7, <2>1 DEF Among
  <2>2. CASE h # g
    BY <1>2, <1>9, <2>2 DEF RowsOK, RowsWithin
  <2> QED
    BY <2>1, <2>2
<1>11. ASSUME ReplaceSucceeds(t, desired), srv[s].pc = "register", NEW m, m = c.i
       PROVE  Backed(s, m)'
  <2> SUFFICES ASSUME NEW h \in GPU, Among(s, h, 1, m) PROVE HasRow(s, h)'
    BY <1>8 DEF Backed, Among
  <2>1. Backed(s, c.i - 1) /\ (s \in DOMAIN c.before.mem => HasRow(s, g))
    BY <1>1, <1>2, <1>6, <1>7, <1>11 DEF RowsOK, RegisterRows
  <2>2. PICK j \in DOMAIN Targets(s) : 1 <= j /\ j <= c.i /\ Targets(s)[j] \in GpuNames[h]
    BY <1>11 DEF Among
  <2>3. CASE j = c.i
    BY <1>6, <1>7, <1>11, <2>1, <2>2, <2>3
  <2>4. CASE j # c.i
    <3>1. j \in Nat /\ j <= c.i - 1
      BY <1>2, <1>3, <2>2, <2>4
    <3>2. Among(s, h, 1, c.i - 1)
      BY <2>2, <3>1 DEF Among
    <3> QED
      BY <1>9, <2>1, <3>2 DEF Backed
  <2> QED
    BY <2>3, <2>4
<1>12. ASSUME \A u \in Goroutine : u # t => call'[u] = call[u], call'[t].kind # "release",
              RegisterRows(s)', ResizeRows(s)'
       PROVE  RowsInv'
  <2>1. RowsOK(s)'
    BY <1>1, <1>2, <1>8, <1>9, <1>10, <1>12, ApplyingRows
  <2> QED
    BY <1>1, <1>6, <1>12, <2>1, RegistryStep
<1>13. CASE Abort(t, "error")
  <2>1. /\ \A u \in Goroutine : u # t => call'[u] = call[u]
        /\ \/ /\ call'[t].kind = "none" /\ call'[t].step = "done" /\ call'[t].error = "error"
           \/ /\ call'[t].kind = "rollback" /\ call'[t].step = "snapshot"
              /\ call'[t].applied = c.applied
    BY <1>13, AbortFields
  <2>2. RegisterRows(s)' /\ ResizeRows(s)'
    BY <1>1, <1>2, <2>1 DEF RegisterRows, ResizeRows, RowsOK
  <2> QED
    BY <1>12, <2>1, <2>2
<1>14. CASE ReplaceSucceeds(t, desired) /\ c.i = n /\ Done(t, "none")
  <2>1. /\ \A u \in Goroutine : u # t => call'[u] = call[u]
        /\ call'[t].kind = "none" /\ call'[t].step = "done" /\ call'[t].error = "none"
    BY <1>14 DEF Done, Become, NoCall, LlamaInv
  <2>2. RegisterRows(s)'
    <3>1. srv[s].pc = "register" => Backed(s, Len(Targets(s)))'
      <4>1. PICK m : m = Len(Targets(s))
        OBVIOUS
      <4>2. srv[s].pc = "register" => Backed(s, m)'
        BY <1>11, <1>14, <4>1
      <4>3. Len(Targets(s))' = m
        BY <1>8, <4>1
      <4> QED
        BY <4>2, <4>3 DEF Backed
    <3> QED
      BY <1>1, <1>2, <2>1, <3>1 DEF RegisterRows
  <2>3. ResizeRows(s)'
    BY <1>1, <1>2, <2>1 DEF ResizeRows, RowsOK
  <2> QED
    BY <1>12, <2>1, <2>2, <2>3
<1>15. CASE ReplaceSucceeds(t, desired) /\ c.i # n /\ Become(t, b)
  <2> DEFINE k == c.i + 1
             prior == Prior(c.before, s)
             more == Append(c.applied, prior)
  <2>1. /\ \A u \in Goroutine : u # t => call'[u] = call[u]
        /\ call'[t].kind = "apply" /\ call'[t].step = "snapshot" /\ call'[t].i = k
        /\ call'[t].applied = more
    <3>1. b = [c EXCEPT !.i = k, !.step = "snapshot", !.before = NoDevice, !.applied = more]
      OBVIOUS
    <3> HIDE DEF b, k, more
    <3>2. b.kind = "apply" /\ b.step = "snapshot" /\ b.i = k /\ b.applied = more
      BY <1>1, <1>2, <3>1 DEF Call
    <3> QED
      BY <1>15, <3>2 DEF Become, LlamaInv
  <2>2. RegisterRows(s)'
    <3>1. k - 1 = c.i /\ call'[t].i - 1 = c.i
      BY <1>3, <2>1
    <3>2. srv[s].pc = "register" => Backed(s, call[t].i - 1)'
      BY <1>11, <1>15, <3>1
    <3> QED
      BY <1>1, <1>2, <2>1, <3>2 DEF RegisterRows
  <2>3. ResizeRows(s)'
    <3> SUFFICES ASSUME srv[s].pc = "resize", ~ srv[s].cfg.hangShutdown
                 PROVE  \A j \in DOMAIN more : more[j].existed
      BY <1>1, <1>2, <2>1 DEF ResizeRows, RowsOK
    <3>1. /\ \A j \in DOMAIN c.applied : c.applied[j].existed
          /\ s \in DOMAIN c.before.mem
      BY <1>1, <1>2 DEF ResizeRows, RowsOK
    <3>2. prior.existed
      BY <3>1 DEF Prior
    <3> HIDE DEF prior
    <3> QED
      BY <1>3, <3>1, <3>2
  <2> QED
    BY <1>12, <2>1, <2>2, <2>3
<1> QED
  BY <1>1, <1>13, <1>14, <1>15

\* The rollback takes away only rows that were not there before.
LEMMA RollbackReplaceRows ==
    ASSUME LlamaInv, RowsInv, NEW t \in Goroutine, RollbackReplace(t) PROVE RowsInv'
<1> DEFINE s == Pid(t)
           c == call[t]
           n == Len(Targets(s))
<1>1. /\ c.kind = "rollback" /\ c.step = "replace" /\ UNCHANGED srv
      /\ ReplaceSucceeds(t, Restored(t)) \/ ReplaceFails(t, Restored(t))
      /\ RollbackNext(t)
  BY DEF RollbackReplace, Restored
<1>2. /\ RollbackOK(t) /\ s \in Server /\ c \in Call /\ Len(Targets(s)) \in Nat
      /\ DOMAIN Targets(s) = 1 .. Len(Targets(s)) /\ RowsOK(s)
      /\ srv[s].pc \in Applying /\ t = Main(s) /\ Signal(s) \in Goroutine /\ Signal(s) # t
      /\ SamePIDs(c.before) /\ Found(s, c.i) /\ c.error # "none"
      /\ c.applied \in Seq(PriorRow)
  BY <1>1, RollbackFacts, Goroutines DEF RollbackOK, RowsInv
<1>3. /\ c.i \in 1 .. n /\ c.i \in 1 .. Len(c.applied) /\ c.before \in Device
  BY <1>2 DEF RollbackOK, Call
<1>4. /\ Restored(t) \in Rows /\ SamePIDs(Restored(t))
      /\ c.applied[c.i].existed => s \in DOMAIN Restored(t).mem
      /\ OnlyRow(c.before, Restored(t), s)
  <2>1. OnlyRow(c.before, Restored(t), s)
    BY <1>2, <1>3, OnlyOwnRow DEF Restored
  <2> QED
    BY <1>1, <2>1, RollbackDesired
<1>5. PICK g : g = Target(t)
  OBVIOUS
<1>6. /\ g \in GPU
      /\ \A q : \A h \in GPU : q # s \/ h # g => RowKept(q, h)
      /\ c.applied[c.i].existed => (HasRow(s, g) => HasRow(s, g)')
  BY <1>1, <1>2, <1>4, <1>5, ReplaceRows
<1>7. Targets(s)[c.i] \in GpuNames[g]
  BY <1>2, <1>5, TargetFound
<1>8. Targets(s)' = Targets(s)
  BY <1>1, <1>2, SameConfig
<1>9. \A h \in GPU : h # g => (HasRow(s, h)' <=> HasRow(s, h))
  BY <1>6 DEF RowKept
<1>10. RowsWithin(s, 1, n)'
  <2> SUFFICES ASSUME NEW h \in GPU, HasRow(s, h)' PROVE Among(s, h, 1, n)
    BY <1>8 DEF RowsWithin, Among
  <2>1. CASE h = g
    BY <1>2, <1>3, <1>7, <2>1 DEF Among
  <2>2. CASE h # g
    BY <1>2, <1>9, <2>2 DEF RowsOK, RowsWithin
  <2> QED
    BY <2>1, <2>2
<1>11. /\ \A u \in Goroutine : u # t => call'[u] = call[u]
       /\ \/ call'[t].kind = "none" /\ call'[t].step = "done" /\ call'[t].error # "none"
          \/ /\ call'[t].kind = "rollback" /\ call'[t].applied = c.applied
             /\ call'[t].step # "done"
  BY <1>1, <1>2, RollbackNextFields
<1>12. RegisterRows(s)' /\ ResizeRows(s)'
  BY <1>1, <1>2, <1>11 DEF RegisterRows, ResizeRows, RowsOK
<1>13. \/ \A h \in GPU : HasRow(s, h) => HasRow(s, h)'
       \/ srv[s].pc = "register"
       \/ srv[s].cfg.hangShutdown
  <2> SUFFICES ASSUME srv[s].pc = "resize", ~ srv[s].cfg.hangShutdown
               PROVE  \A h \in GPU : HasRow(s, h) => HasRow(s, h)'
    BY <1>2 DEF Applying
  <2>1. \A j \in DOMAIN c.applied : c.applied[j].existed
    BY <1>1, <1>2 DEF ResizeRows, RowsOK
  <2>2. c.applied[c.i].existed
    BY <1>2, <1>3, <2>1
  <2> QED
    BY <1>6, <1>9, <2>2
<1>14. RowsOK(s)'
  BY <1>1, <1>2, <1>8, <1>10, <1>11, <1>12, <1>13, ApplyingRows
<1> QED
  BY <1>1, <1>6, <1>11, <1>14, RegistryStep

\* A release that goes on to its next target, without error so far.
LEMMA ReleasingRows ==
    ASSUME LlamaInv, NEW t \in Goroutine, call[t].kind = "release", RowsOK(Pid(t)),
           UNCHANGED srv, \A u \in Goroutine : u # t => call'[u] = call[u],
           \A g \in GPU : HasRow(Pid(t), g)' => HasRow(Pid(t), g),
           call'[t].kind = "release",
           call'[t].error = "none" /\ Alone(Pid(t)) =>
               \A m : m = call'[t].i => RowsWithin(Pid(t), m, Len(Targets(Pid(t))))'
    PROVE  RowsOK(Pid(t))'
<1> DEFINE s == Pid(t)
<1>1. /\ s \in Server /\ ReleaseOK(t) /\ ProcessOK(s) /\ srv[s].registered
      /\ t \in {Main(s), Signal(s)} /\ Main(s) \in Goroutine /\ Signal(s) \in Goroutine
  BY ReleaseFacts, ProcessFacts, Goroutines
<1>2. Targets(s)' = Targets(s) /\ Alone(s)' = Alone(s)
  BY <1>1, SameConfig DEF Alone
<1>3. /\ srv[s].pc # "register" /\ srv[s].pc \notin Before
      /\ ~ srv[s].cfg.hangShutdown => t = Main(s) /\ srv[s].pc = "release"
  BY <1>1, Goroutines DEF ProcessOK, ReleaseOK, WantsRelease
<1>4. RowsWithin(s, 1, Len(Targets(s)))'
  BY <1>2 DEF RowsWithin, Among, RowsOK
<1>5. RegisterRows(s)' /\ ResizeRows(s)'
  BY <1>3 DEF RegisterRows, ResizeRows, RowsOK
<1>6. ServingRows(s)'
  BY <1>1, <1>3 DEF ServingRows, RowsOK
<1>7. ReleaseRows(s)'
  <2> SUFFICES ASSUME NEW u \in {Main(s), Signal(s)}, call'[u].kind = "release",
                      call'[u].error = "none", Alone(s)
               PROVE  RowsWithin(s, call[u].i, Len(Targets(s)))'
    BY <1>2 DEF ReleaseRows
  <2>1. CASE u = t
    BY <2>1
  <2>2. CASE u # t
    <3>1. call[u].kind = "release" /\ u \in Goroutine /\ Pid(u) = s
      BY <1>1, <2>2, Goroutines
    <3>2. srv[s].releaseMu = u[2] /\ srv[s].releaseMu = t[2]
      BY <1>1, <3>1 DEF LlamaInv, CallOK, ReleaseOK
    <3>3. Main(s)[2] = "main" /\ Signal(s)[2] = "signal"
      BY <1>1, Goroutines
    <3>4. u[2] = t[2]
      BY <3>2
    <3>5. CASE t = Main(s)
      <4>1. u = Signal(s)
        BY <2>2, <3>5
      <4> QED
        BY <3>3, <3>4, <3>5, <4>1
    <3>6. CASE t = Signal(s)
      <4>1. u = Main(s)
        BY <2>2, <3>6
      <4> QED
        BY <3>3, <3>4, <3>6, <4>1
    <3> QED
      BY <1>1, <3>5, <3>6
  <2> QED
    BY <2>1, <2>2
<1>8. GoneRows(s)'
  BY <1>1, <1>2, <1>3 DEF GoneRows, RowsOK, NoRowOf
<1> QED
  BY <1>4, <1>5, <1>6, <1>7, <1>8 DEF RowsOK

\* Past a target without a row there are rows on the later ones only.
LEMMA PassedRows ==
    ASSUME LlamaInv, NEW s \in Server, Targets(s)' = Targets(s),
           NEW i \in 1 .. Len(Targets(s)), NEW g \in GPU, Targets(s)[i] \in GpuNames[g],
           RowsWithin(s, i, Len(Targets(s))), ~ HasRow(s, g)',
           \A h \in GPU : HasRow(s, h)' => HasRow(s, h)
    PROVE  RowsWithin(s, i + 1, Len(Targets(s)))'
<1>0. Len(Targets(s)) \in Nat /\ DOMAIN Targets(s) = 1 .. Len(Targets(s))
  BY TargetFields DEF LlamaInv
<1> SUFFICES ASSUME NEW h \in GPU, HasRow(s, h)'
             PROVE  Among(s, h, i + 1, Len(Targets(s)))
  BY DEF RowsWithin, Among
<1>1. PICK j \in DOMAIN Targets(s) :
         i <= j /\ j <= Len(Targets(s)) /\ Targets(s)[j] \in GpuNames[h]
  BY DEF RowsWithin, Among
<1>2. h # g
  OBVIOUS
<1>3. j # i
  BY <1>1, <1>2, TargetUnique
<1>4. i + 1 <= j
  BY <1>0, <1>1, <1>3
<1> QED
  BY <1>1, <1>4 DEF Among

\* The release passes targets without a row.
LEMMA ReleaseSnapshotRows ==
    ASSUME LlamaInv, RowsInv, NEW t \in Goroutine, ReleaseSnapshot(t) PROVE RowsInv'
<1> DEFINE s == Pid(t)
           c == call[t]
           d == Observed(dev[Target(t)])
           b == [c EXCEPT !.before = d, !.step = "replace"]
<1>1. /\ c.kind = "release" /\ c.step = "snapshot" /\ UNCHANGED <<dev, srv>>
  BY DEF ReleaseSnapshot
<1>2. /\ s \in Server /\ c \in Call /\ c.i \in 1 .. Len(Targets(s)) /\ Found(s, c.i)
      /\ RowsOK(s) /\ t \in {Main(s), Signal(s)}
  BY <1>1, ReleaseFacts, Goroutines DEF RowsInv
<1>3. /\ Target(t) \in GPU /\ Targets(s)[c.i] \in GpuNames[Target(t)]
      /\ Targets(s)' = Targets(s)
  BY <1>1, <1>2, TargetFound, SameConfig
<1>4. d.mem = dev[Target(t)].mem
  BY <1>3, ObservedFits DEF LlamaInv, DevicesOK
<1>5. /\ \A h \in GPU : HasRow(s, h)' <=> HasRow(s, h)
      /\ \A i, j : RowsWithin(s, i, j)' <=> RowsWithin(s, i, j)
  BY <1>1, <1>2, SameWhere DEF HasRow
<1>6. c.error = "none" /\ Alone(s) => RowsWithin(s, c.i, Len(Targets(s)))
  BY <1>1, <1>2 DEF RowsOK, ReleaseRows
<1>7. ASSUME \A u \in Goroutine : u # t => call'[u] = call[u], call'[t].kind = "release",
             call'[t].error = "none" /\ Alone(s) =>
               \A m : m = call'[t].i => RowsWithin(s, m, Len(Targets(s)))'
      PROVE  RowsInv'
  <2>1. RowsOK(s)'
    BY <1>1, <1>2, <1>5, <1>7, ReleasingRows
  <2> QED
    BY <1>1, <1>7, <2>1, RegistryStep, QuietRows
<1>8. CASE ReleaseNext(t, "error")
  BY <1>1, <1>7, <1>8, ReleaseNextFields
<1>9. CASE s \notin DOMAIN d.mem /\ ReleaseNext(t, c.error)
  <2>1. /\ \A u \in Goroutine : u # t => call'[u] = call[u]
        /\ call'[t].kind = "release" /\ call'[t].i = c.i + 1 /\ call'[t].error = c.error
    BY <1>1, <1>9, ReleaseNextFields
  <2>2. PICK g, i : g = Target(t) /\ i = c.i
    OBVIOUS
  <2>3. ~ HasRow(s, g)'
    BY <1>3, <1>4, <1>5, <1>9, <2>2 DEF HasRow
  <2>4. c.error = "none" /\ Alone(s) => RowsWithin(s, i + 1, Len(Targets(s)))'
    BY <1>2, <1>3, <1>5, <1>6, <2>2, <2>3, PassedRows
  <2> QED
    BY <1>7, <2>1, <2>2, <2>4
<1>10. CASE Become(t, b)
  <2> HIDE DEF d
  <2>1. b.kind = "release" /\ b.i = c.i /\ b.error = c.error
    BY <1>1, <1>2 DEF Call
  <2> HIDE DEF b
  <2>2. call'[t] = b /\ \A u \in Goroutine : u # t => call'[u] = call[u]
    BY <1>10 DEF Become, LlamaInv
  <2>3. PICK i, n : i = c.i /\ n = Len(Targets(s))
    OBVIOUS
  <2>4. Alone(s) /\ c.error = "none" => RowsWithin(s, i, n)'
    BY <1>5, <1>6, <2>3
  <2>5. Alone(s) /\ c.error = "none" => RowsWithin(s, i, Len(Targets(s)))'
    BY <1>3, <2>3, <2>4
  <2> QED
    BY <1>7, <2>1, <2>2, <2>3, <2>5
<1> QED
  BY <1>8, <1>9, <1>10 DEF ReleaseSnapshot

\* The release takes the row of its target out.
LEMMA ReleaseReplaceRows ==
    ASSUME LlamaInv, RowsInv, NEW t \in Goroutine, ReleaseReplace(t) PROVE RowsInv'
<1> DEFINE s == Pid(t)
           c == call[t]
           desired == WithoutPID(c.before, s)
<1>1. /\ c.kind = "release" /\ c.step = "replace" /\ UNCHANGED srv
      /\ \/ ReplaceSucceeds(t, desired) /\ ReleaseNext(t, c.error)
         \/ ReplaceFails(t, desired) /\ ReleaseNext(t, "error")
  BY DEF ReleaseReplace
<1>2. /\ s \in Server /\ s \in PID /\ c \in Call /\ c.i \in 1 .. Len(Targets(s))
      /\ Found(s, c.i) /\ RowsOK(s) /\ SamePIDs(c.before) /\ s \in DOMAIN c.before.mem
  BY <1>1, ReleaseFacts, Goroutines DEF RowsInv, ReleaseOK
<1>3. c.before \in Device
  BY <1>2 DEF Call
<1>4. /\ desired \in Rows /\ SamePIDs(desired) /\ s \notin DOMAIN desired.mem
      /\ OnlyRow(c.before, desired, s)
  BY <1>2, <1>3, WithoutPIDRows, OnlyOwnRow
<1> HIDE DEF desired
<1>5. PICK g, i : g = Target(t) /\ i = c.i
  OBVIOUS
<1>6. /\ g \in GPU
      /\ \A q : \A h \in GPU : q # s \/ h # g => RowKept(q, h)
      /\ HasRow(s, g)' => HasRow(s, g)
      /\ ReplaceSucceeds(t, desired) => ~ HasRow(s, g)'
  BY <1>1, <1>2, <1>4, <1>5, ReplaceRows
<1>7. \A h \in GPU : HasRow(s, h)' => HasRow(s, h)
  BY <1>6 DEF RowKept
<1>8. Targets(s)[i] \in GpuNames[g] /\ Targets(s)' = Targets(s)
  BY <1>1, <1>2, <1>5, TargetFound, SameConfig
<1>9. PICK e : /\ ReleaseNext(t, e)
               /\ e = "none" => ReplaceSucceeds(t, desired) /\ c.error = "none"
  BY <1>1
<1>10. /\ \A u \in Goroutine : u # t => call'[u] = call[u]
       /\ call'[t].kind = "release" /\ call'[t].i = i + 1 /\ call'[t].error = e
  BY <1>1, <1>5, <1>9, ReleaseNextFields
<1>11. e = "none" /\ Alone(s) => RowsWithin(s, i + 1, Len(Targets(s)))'
  <2>1. e = "none" /\ Alone(s) => RowsWithin(s, i, Len(Targets(s)))
    BY <1>1, <1>2, <1>5, <1>9, Goroutines DEF RowsOK, ReleaseRows
  <2> QED
    BY <1>2, <1>5, <1>6, <1>7, <1>8, <1>9, <2>1, PassedRows
<1>12. RowsOK(s)'
  BY <1>1, <1>2, <1>7, <1>10, <1>11, ReleasingRows
<1> QED
  BY <1>1, <1>6, <1>10, <1>12, RegistryStep

\* A release that ends without error has removed every row.
LEMMA EndReleaseRows ==
    ASSUME LlamaInv, RowsInv, NEW t \in Goroutine, EndRelease(t) PROVE RowsInv'
<1> DEFINE s == Pid(t)
           c == call[t]
           left == c.error # "none"
           p == [srv[s] EXCEPT !.registered = left, !.releaseMu = "none"]
<1>1. /\ c.kind = "release" /\ c.step = "end" /\ UNCHANGED dev
      /\ srv' = [srv EXCEPT ![s].registered = left, ![s].releaseMu = "none"]
      /\ Done(t, c.error)
  BY DEF EndRelease, EndsRelease
<1>2. /\ s \in Server /\ ReleaseOK(t) /\ Len(Targets(s)) \in Nat
      /\ srv \in [Server -> Process] /\ srv[s] \in Process /\ ProcessOK(s)
      /\ srv[s].registered /\ call \in [Goroutine -> Call] /\ RowsOK(s)
      /\ t \in {Main(s), Signal(s)} /\ Main(s) \in Goroutine /\ Signal(s) \in Goroutine
      /\ DOMAIN Targets(s) = 1 .. Len(Targets(s))
  BY <1>1, ReleaseFacts, ProcessFacts, Goroutines DEF LlamaInv, RowsInv
<1> HIDE DEF left
<1>3. srv' = [srv EXCEPT ![s] = p]
  BY <1>1, <1>2
<1>4. /\ p.cfg = srv[s].cfg /\ p.grown = srv[s].grown /\ p.registered = left
      /\ p.pc = srv[s].pc /\ p.err = srv[s].err /\ p.streams = srv[s].streams
      /\ p.ready = srv[s].ready
  BY <1>2 DEF Process
<1> HIDE DEF p
<1>5. Elsewhere(s) /\ srv'[s] = p
  BY <1>1, <1>2, <1>3, ElsewhereStep DEF Done, Become
<1>6. /\ call'[t].kind = "none" /\ call'[t].step = "done"
      /\ \A u \in Goroutine : u # t => call'[u] = call[u]
  BY <1>1, <1>2 DEF Done, Become, NoCall
<1>7. /\ \A i, j : RowsWithin(s, i, j)' <=> RowsWithin(s, i, j)
      /\ \A i : Backed(s, i)' <=> Backed(s, i)
      /\ NoRowOf(s)' <=> NoRowOf(s)
      /\ Targets(s)' = Targets(s) /\ (Alone(s)' <=> Alone(s))
  BY <1>1, <1>2, <1>4, <1>5, SameWhere, SameConfig DEF HasRow, Alone
<1>8. /\ srv[s].pc # "register" /\ srv[s].pc \notin Before
      /\ ~ srv[s].cfg.hangShutdown => t = Main(s) /\ srv[s].pc = "release"
      /\ t = Main(s) => srv[s].pc = "release"
  BY <1>2, Goroutines DEF ProcessOK, ReleaseOK, WantsRelease
<1>9. ~ left /\ Alone(s) => NoRowOf(s)
  <2>1. c.i = Len(Targets(s)) + 1
    BY <1>1, <1>2 DEF ReleaseOK
  <2>2. ~ left /\ Alone(s) => RowsWithin(s, c.i, Len(Targets(s)))
    BY <1>1, <1>2 DEF RowsOK, ReleaseRows, left
  <2> QED
    BY <1>2, <2>1, <2>2 DEF RowsWithin, Among, NoRowOf
<1>10. RegisterRows(s)' /\ ResizeRows(s)'
  BY <1>2, <1>4, <1>5, <1>6, <1>8 DEF RegisterRows, ResizeRows, RowsOK
<1>11. ServingRows(s)'
  BY <1>2, <1>4, <1>5, <1>8 DEF ServingRows, ProcessOK
<1>12. ReleaseRows(s)'
  BY <1>2, <1>6, <1>7 DEF ReleaseRows, RowsOK
<1>13. GoneRows(s)'
  BY <1>4, <1>5, <1>7, <1>8, <1>9 DEF GoneRows
<1>14. RowsOK(s)'
  BY <1>2, <1>7, <1>10, <1>11, <1>12, <1>13 DEF RowsOK
<1> SUFFICES ASSUME NEW r \in Server, r # s PROVE RowsOK(r)'
  BY <1>14 DEF RowsInv
<1> QED
  BY <1>1, <1>5, OthersRows, QuietRows DEF RowsInv, Elsewhere

-----------------------------------------------------------------------------
(* Every step. *)

\* No row of the configuration has the PID of a server.
FreshPIDs == \A g \in GPU : Server \cap DOMAIN Config[g].mem = {}

\* No server has a row at the start.
LEMMA RowsInit ==
    ASSUME FreshPIDs, Init PROVE RowsInv
<1> SUFFICES ASSUME NEW s \in Server PROVE RowsOK(s)
  BY DEF RowsInv
<1>1. NoRowOf(s)
  BY DEF FreshPIDs, Init, NoRowOf, HasRow, BaseDevice
<1>2. /\ srv[s].pc = "main" /\ ~ srv[s].registered /\ srv[s].streams = 0 /\ ~ srv[s].ready
  BY DEF Init, ParseCommand, Launched
<1>3. call[Main(s)].kind = "none" /\ call[Signal(s)].kind = "none"
  BY Goroutines DEF Init, NoCall
<1> QED
  BY <1>1, <1>2, <1>3
     DEF RowsOK, RowsWithin, NoRowOf, RegisterRows, ResizeRows, ServingRows, ReleaseRows,
         GoneRows

\* Every step keeps the invariant of the rows.
LEMMA RowsNext ==
    ASSUME LlamaInv, RowsInv, [Next]_vars PROVE RowsInv'
<1>1. ASSUME NEW t \in Goroutine, Registry(t) PROVE RowsInv'
  BY <1>1, ApplySnapshotRows, ApplyReplaceRows, RollbackSnapshotRows, RollbackReplaceRows,
     BeginReleaseRows, ReleaseSnapshotRows, ReleaseReplaceRows, EndReleaseRows
     DEF Registry, RowsKept
<1>2. ASSUME NEW s \in Server, Proceed(s) PROVE RowsInv'
  BY <1>2, ParseRows, StartRows, RegisteredRows, LoadRows, InterruptedRows, ResizedRows,
     CleanupRows, DrainedRows, DrainTimeoutRows, ReleasedRows, RetryRows
     DEF Proceed, RowsKept
<1>3. ASSUME NEW s \in Server,
             \/ WaitForRegisterGate(s) \/ Grow(s) \/ Crash(s)
             \/ ServeFails(s) \/ ReleaseDeadline(s) \/ Sigterm(s) \/ HandleSignals(s)
             \/ BeginStream(s) \/ EndStream(s)
      PROVE  RowsInv'
  BY <1>3, GateRows, GrowRows, CrashRows, ServeFailsRows, ReleaseDeadlineRows, SigtermRows,
     HandleSignalRows, SignalHandledRows, BeginStreamRows, EndStreamRows
     DEF HandleSignals, RowsKept
<1>4. ASSUME UNCHANGED <<dev, srv, call>> PROVE RowsInv'
  BY <1>4, OthersRows, QuietRows DEF RowsInv
<1>5. CASE \E g \in GPU : Lose(g) \/ Recover(g)
  BY <1>4, <1>5 DEF Lose, Recover
<1>6. CASE UNCHANGED vars
  BY <1>4, <1>6 DEF vars
<1> QED
  BY <1>1, <1>2, <1>3, <1>5, <1>6 DEF Next

\* Both invariants hold of every behaviour.
LEMMA RowsAlways ==
    ASSUME FreshPIDs PROVE Spec => [](LlamaInv /\ RowsInv)
<1>1. Init => LlamaInv /\ RowsInv
  BY LlamaInit, RowsInit
<1>2. LlamaInv /\ RowsInv /\ [Next]_vars => (LlamaInv /\ RowsInv)'
  BY LlamaNext, RowsNext
<1> QED
  BY <1>1, <1>2, PTL DEF Spec

\* A server that ends on its own, by SIGTERM, after a crash or an error of its
\* HTTP server, after any number of retries of the release, leaves no row on
\* any GPU, unless it hangs in shutdown or Register failed (Run and its
\* deferred ReleaseResources, server.go).
THEOREM ExitedServersLeaveNoRow ==
    ASSUME FreshPIDs PROVE Spec => []NoPhantomRows
<1>1. LlamaInv /\ RowsInv => NoPhantomRows
  BY DEF RowsInv, RowsOK, GoneRows, NoPhantomRows, At, FailedErrors
<1> QED
  BY <1>1, RowsAlways, PTL

\* Whatever fails while rows are released, by main or by the signal goroutine,
\* the server stays registered as long as one of its rows is left, so that the
\* release is tried again (ReleaseResources, "A failed release remains
\* retryable").
THEOREM FailedReleaseIsRetried ==
    ASSUME FreshPIDs PROVE Spec => []ReleaseIsRetryable
<1>1. LlamaInv /\ RowsInv => ReleaseIsRetryable
  BY DEF RowsInv, RowsOK, GoneRows, ReleaseIsRetryable, FailedErrors, Alone
<1> QED
  BY <1>1, RowsAlways, PTL

\* A request that is being answered is backed by a row on every target of its
\* server, from Register through growth and its rollback to the drain: none is
\* taken away under a stream (Run drains before it releases).
THEOREM StreamsKeepTheirRows ==
    ASSUME FreshPIDs PROVE Spec => []StreamsAreBacked
<1>1. LlamaInv /\ RowsInv => StreamsAreBacked
  <2> SUFFICES ASSUME LlamaInv, RowsInv, NEW s \in Server, srv[s].streams > 0,
                      ~ srv[s].cfg.hangShutdown, NEW i \in DOMAIN Targets(s)
               PROVE  \E g \in GPU : Targets(s)[i] \in GpuNames[g] /\ HasRow(s, g)
    BY DEF StreamsAreBacked
  <2>1. /\ ProcessOK(s) /\ Len(Targets(s)) \in Nat
        /\ DOMAIN Targets(s) = 1 .. Len(Targets(s)) /\ ServingRows(s)
    BY ProcessFacts, TargetFields DEF LlamaInv, RowsInv, RowsOK
  <2>2. srv[s].registered /\ Backed(s, Len(Targets(s)))
    BY <2>1 DEF ServingRows, ProcessOK
  <2>3. PICK g \in GPU : Targets(s)[i] \in GpuNames[g]
    BY <2>1, <2>2 DEF ProcessOK, AllFound, Found
  <2> QED
    BY <2>1, <2>2, <2>3 DEF Backed, Among
<1> QED
  BY <1>1, RowsAlways, PTL

-----------------------------------------------------------------------------
(* A Register that fails. *)

\* A row that is as the caller saw it can be taken out: the rest fits.
LEMMA RemovalGoesThrough ==
    ASSUME IsFiniteSet(PID), DevicesOK, NEW g \in GPU, NEW b \in Device, SamePIDs(b),
           NEW p \in DOMAIN b.mem, p \in DOMAIN dev[g].mem, SameRow(dev[g], b, p)
    PROVE  CanReplace(g, b, WithoutPID(b, p))
<1> DEFINE now == Observed(dev[g])
           desired == WithoutPID(b, p)
           rows == Rebase(b, desired, now)
           m == now.mem
           k == ProcessMiB(m)
           l == ProcessMiB(rows.mem)
<1>1. /\ dev[g] \in Device /\ Fits(dev[g], g) /\ Covered(dev[g]) /\ SamePIDs(dev[g])
  BY DEF DevicesOK
<1>2. /\ now \in Device /\ Fits(now, g) /\ SamePIDs(now) /\ Covered(now)
      /\ now.mem = dev[g].mem /\ now.util = dev[g].util
  BY <1>1, ObservedFits
<1> HIDE DEF now
<1>3. /\ Removed(b, desired) = {p} /\ Changed(b, desired) = {} /\ Added(b, desired) = {}
  BY DEF Removed, Changed, Added, WithoutPID, SameRow, SamePIDs
<1>4. CanRebase(b, desired, now)
  BY <1>2, <1>3 DEF CanRebase, SameRow
<1>5. rows.mem = [q \in DOMAIN m \ {p} |-> m[q]]
  BY <1>3 DEF Rebase, RebaseColumn
<1>6. m \in [DOMAIN m -> U64] /\ DOMAIN m \subseteq PID /\ p \in DOMAIN m
  BY <1>2, ColumnElim DEF Device
<1>7. /\ now.used \in Nat /\ now.free \in Nat /\ now.used <= MaxU64
      /\ now.used + now.free + ReservedBytes(g) <= TotalBytes(g)
      /\ k \in Nat /\ k * MiB <= now.used
  BY <1>2, UnitAssumption DEF Device, U64, Fits, Covered, OwnedBytes
<1> HIDE DEF m, rows, desired
<1>8. l \in Nat /\ l <= k
  <2>1. IsFiniteSet(DOMAIN m) /\ IsFiniteSet(DOMAIN m \ {p})
    BY <1>6, FS_Subset
  <2>2. \A q \in DOMAIN m : m[q] \in Nat
    BY <1>6, UnitAssumption DEF U64
  <2>3. k = m[p] + SumFunctionOnSet(m, DOMAIN m \ {p})
    <3>1. \A q \in DOMAIN m : m[q] \in Int
      BY <2>2
    <3> QED
      BY <1>6, <2>1, <3>1, SumRemove DEF ProcessMiB, SumFunction
  <2>4. l = SumFunctionOnSet(rows.mem, DOMAIN m \ {p})
    BY <1>5 DEF ProcessMiB, SumFunction
  <2>5. SumFunctionOnSet(rows.mem, DOMAIN m \ {p}) = SumFunctionOnSet(m, DOMAIN m \ {p})
    <3>1. \A q \in DOMAIN m \ {p} : rows.mem[q] = m[q]
      BY <1>5
    <3> QED
      BY <2>1, <3>1, SumAgree
  <2>6. SumFunctionOnSet(m, DOMAIN m \ {p}) \in Nat
    BY <2>1, <2>2, SumNat
  <2> QED
    BY <1>6, <2>2, <2>3, <2>4, <2>5, <2>6
<1> HIDE DEF k, l
<1>9. SumFits(now.mem) /\ SumFits(rows.mem)
  <2>1. k <= MaxU64 \div MiB
    BY <1>7, UnitAssumption
  <2>2. k \in 0 .. MaxU64 \div MiB /\ l \in 0 .. MaxU64 \div MiB
    BY <1>7, <1>8, <2>1, UnitAssumption
  <2> QED
    BY <2>2 DEF SumFits, k, l, m
<1>10. /\ ProcessBytes(now.mem) = k * MiB /\ ProcessBytes(rows.mem) = l * MiB
  BY <1>9, ProcessBytesExact DEF OwnedBytes, k, l, m
<1>11. l * MiB \in Nat /\ k * MiB \in Nat /\ l * MiB <= k * MiB
  BY <1>7, <1>8, UnitAssumption
<1>12. TotalBytes(g) \in Nat /\ ReservedBytes(g) \in Nat /\ TotalBytes(g) <= MaxU64
  BY ConfigSizes, UnitAssumption DEF U64
<1>13. Reserved(now, TotalBytes(g)) = TotalBytes(g) - (now.used + now.free)
  BY <1>7, <1>12 DEF Reserved
<1>14. CanReconcile(now, TotalBytes(g), rows)
  <2> DEFINE T == TotalBytes(g)
             x == k * MiB
             y == l * MiB
  <2>1. T \in Nat /\ x \in Nat /\ y \in Nat
    BY <1>11, <1>12
  <2>2. x <= now.used /\ y <= x /\ now.used + now.free <= T /\ T <= MaxU64
    BY <1>7, <1>11, <1>12
  <2> HIDE DEF x, y, T
  <2>3. /\ ProcessBytes(now.mem) = x /\ ProcessBytes(rows.mem) = y
        /\ Reserved(now, T) = T - (now.used + now.free)
    BY <1>10, <1>13 DEF x, y, T
  <2>4. CanReconcile(now, T, rows)
    BY <1>7, <1>9, <2>1, <2>2, <2>3, UnitAssumption
       DEF CanReconcile, AddFits, NonProcessUsed
  <2> QED
    BY <2>4 DEF T
<1> QED
  BY <1>4, <1>14 DEF CanReplace, now, rows, desired

\* A command of Register or its rollback that fails has been disturbed.
LEMMA RefusedDisturbs ==
    ASSUME LlamaInv, NEW t \in Goroutine, Refused(t), UNCHANGED srv
    PROVE  /\ faults' = 0 => faults = 0
           /\ call[t].kind \in {"apply", "rollback"} => ~ Undisturbed(Pid(t))'
<1>1. faults \in Nat /\ (faults = 0 => lost = {})
  BY ServerAssumption DEF LlamaInv
<1> QED
  BY <1>1 DEF Refused, ContextDone, Undisturbed

\* A step of one goroutine, which leaves the rows of other servers alone.
LEMMA UndoStep ==
    ASSUME UndoInv, NEW t \in Goroutine,
           \A r \in Server \ {Pid(t)} : srv'[r] = srv[r],
           \A u \in Goroutine : u # t => call'[u] = call[u],
           \A q \in Server \ {Pid(t)} : \A h \in GPU : RowKept(q, h),
           faults' = 0 => faults = 0, srv'[Pid(t)].err \notin FailedErrors,
           UndoCall(Pid(t))'
    PROVE  UndoInv'
<1> SUFFICES ASSUME NEW r \in Server PROVE UndoOK(r)'
  BY DEF UndoInv
<1>1. CASE r = Pid(t)
  BY <1>1 DEF UndoOK
<1>2. CASE r # Pid(t)
  <2>1. Main(r) \in Goroutine /\ Main(r) # t
    BY <1>2, Goroutines
  <2> QED
    BY <1>2, <2>1, OthersUndo DEF UndoInv
<1> QED
  BY <1>1, <1>2

\* main is at a target of Register, or of its rollback.
LEMMA RegisterFacts ==
    ASSUME LlamaInv, UndoInv, NEW t \in Goroutine,
           call[t].kind \in {"apply", "rollback"}
    PROVE  /\ Pid(t) \in Server /\ t = Main(Pid(t)) /\ UndoCall(Pid(t))
           /\ call[t] \in Call /\ SamePIDs(call[t].before)
           /\ srv[Pid(t)].pc \in Applying /\ srv[Pid(t)].err \notin FailedErrors
           /\ Len(Targets(Pid(t))) \in Nat
           /\ DOMAIN Targets(Pid(t)) = 1 .. Len(Targets(Pid(t)))
           /\ call[t].i \in 1 .. Len(Targets(Pid(t)))
<1>1. /\ CallOK(t) /\ Pid(t) \in Server /\ call[t] \in Call /\ srv \in [Server -> Process]
      /\ ProcessOK(Pid(t)) /\ t \in {Main(Pid(t)), Signal(Pid(t))}
  BY Goroutines DEF LlamaInv
<1>2. Len(Targets(Pid(t))) \in Nat /\ DOMAIN Targets(Pid(t)) = 1 .. Len(Targets(Pid(t)))
  BY <1>1, TargetFields
<1>3. /\ t[2] = "main" /\ srv[Pid(t)].pc \in Applying
      /\ call[t].i \in 1 .. Len(Targets(Pid(t)))
  BY <1>1, <1>2 DEF CallOK, ApplyOK, RollbackOK, Call
<1>4. t = Main(Pid(t))
  BY <1>1, <1>3, Goroutines
<1> QED
  BY <1>1, <1>2, <1>3, <1>4 DEF ProcessOK, FailedErrors, UndoInv, UndoOK, CallOK

\* apply gives up: what it has added is for the rollback.
LEMMA AbortUndo ==
    ASSUME LlamaInv, UndoInv, NEW t \in Goroutine, call[t].kind = "apply", NEW e,
           Abort(t, e), UNCHANGED srv, Undisturbed(Pid(t))' => UNCHANGED dev
    PROVE  UndoCall(Pid(t))'
<1> DEFINE c == call[t]
           l == Len(c.applied)
<1>1. PICK s : s = Pid(t)
  OBVIOUS
<1>2. /\ s \in Server /\ t = Main(s) /\ UndoCall(s) /\ c \in Call /\ ApplyOK(t)
      /\ DOMAIN Targets(s) = 1 .. Len(Targets(s)) /\ Len(Targets(s)) \in Nat
  BY <1>1, RegisterFacts, ApplyFacts
<1>3. c.applied \in Seq(PriorRow) /\ l = c.i - 1 /\ c.i \in 1 .. Len(Targets(s))
  BY <1>1, <1>2 DEF ApplyOK, Call
<1> SUFFICES ASSUME srv[s].pc = "register" PROVE UndoCall(s)'
  BY <1>1, <1>2 DEF UndoCall
<1>4. /\ call[t].applied = <<>> =>
            /\ call'[t].kind = "none" /\ call'[t].step = "done" /\ call'[t].error = e
      /\ call[t].applied # <<>> =>
            /\ call'[t].kind = "rollback" /\ call'[t].step = "snapshot"
            /\ call'[t].error = e /\ call'[t].applied = call[t].applied
            /\ call'[t].i = Len(call[t].applied)
  BY AbortFields
<1>5. RowsWithin(s, 1, c.i - 1) /\ PriorsKnown(s, c.applied)
  BY <1>1, <1>2 DEF UndoCall
<1>6. Targets(s)' = Targets(s)
  BY <1>2, SameConfig
<1>7. PICK j, a : j = c.i - 1 /\ a = c.applied
  OBVIOUS
<1>8. Undisturbed(s)' => RowsWithin(s, 1, j)'
  <2> SUFFICES ASSUME Undisturbed(s)' PROVE RowsWithin(s, 1, j)'
    OBVIOUS
  <2>1. UNCHANGED dev
    BY <1>1
  <2> QED
    BY <1>5, <1>6, <1>7, <2>1 DEF RowsWithin, Among, HasRow
<1>9. PriorsKnown(s, a)'
  BY <1>5, <1>6, <1>7 DEF PriorsKnown, Among
<1>10. CASE c.applied = <<>>
  <2>1. j = 0
    BY <1>3, <1>7, <1>10
  <2>2. Undisturbed(s)' => NoRowOf(s)'
    BY <1>2, <1>6, <1>8, <2>1 DEF RowsWithin, Among, NoRowOf
  <2> QED
    BY <1>2, <1>4, <1>10, <2>2 DEF UndoCall
<1>11. CASE c.applied # <<>>
  BY <1>2, <1>3, <1>4, <1>7, <1>8, <1>9, <1>11 DEF UndoCall
<1> QED
  BY <1>10, <1>11

\* Where the GPU of main's target is observed, its own row is seen as it is.
LEMMA SnapshotFresh ==
    ASSUME LlamaInv, NEW t \in Goroutine, NEW s \in Server, t = Main(s), s = Pid(t),
           Found(s, call[t].i), UNCHANGED <<dev, srv>>,
           call'[t].before = Observed(dev[Target(t)]), call'[t].i = call[t].i
    PROVE  OwnRowFresh(s)'
<1> DEFINE d == Observed(dev[Target(t)])
<1>1. /\ Target(t) \in GPU
      /\ \A g \in GPU : Targets(s)[call[t].i] \in GpuNames[g] => g = Target(t)
  BY TargetFound
<1>2. d.mem = dev[Target(t)].mem /\ d.util = dev[Target(t)].util
  BY <1>1, ObservedFits DEF LlamaInv, DevicesOK
<1> HIDE DEF d
<1>3. Targets(s)' = Targets(s) /\ call'[t].before = d
  BY SameConfig DEF d
<1> QED
  BY <1>1, <1>2, <1>3 DEF OwnRowFresh, HasRow, SameRow

\* The snapshot of apply sees the own row as it is, or apply gives up.
LEMMA ApplySnapshotUndo ==
    ASSUME LlamaInv, UndoInv, NEW t \in Goroutine, ApplySnapshot(t) PROVE UndoInv'
<1> DEFINE c == call[t]
           d == Observed(dev[Target(t)])
           b == [c EXCEPT !.before = d, !.step = "replace"]
<1>1. PICK s : s = Pid(t)
  OBVIOUS
<1>2. /\ c.kind = "apply" /\ c.step = "snapshot" /\ UNCHANGED <<dev, srv>>
      /\ faults' = 0 => faults = 0
  BY RefusedDisturbs DEF ApplySnapshot, Answered
<1>3. /\ s \in Server /\ t = Main(s) /\ UndoCall(s) /\ c \in Call
      /\ srv[s].err \notin FailedErrors
  BY <1>1, <1>2, RegisterFacts
<1>4. ASSUME \A u \in Goroutine : u # t => call'[u] = call[u], UndoCall(s)' PROVE UndoInv'
  <2>1. \A q : \A h \in GPU : RowKept(q, h)
    BY <1>2, QuietRows
  <2> QED
    BY <1>1, <1>2, <1>3, <1>4, <2>1, UndoStep
<1>5. ASSUME NEW e \in {"error", "oom"}, Abort(t, e) PROVE UndoInv'
  <2>1. UndoCall(s)'
    <3>1. UndoCall(Pid(t))'
      BY <1>2, <1>5, AbortUndo
    <3>2. Pid(t)' = s
      BY <1>1 DEF Pid
    <3> QED
      BY <3>1, <3>2, <1>1
  <2> QED
    BY <1>4, <1>5, <2>1, AbortFields
<1>6. CASE Resolves(t) /\ Become(t, b)
  <2>1. Found(s, c.i)
    BY <1>1, <1>6 DEF Resolves, Found, TargetWord
  <2> HIDE DEF d
  <2>2. /\ b.kind = "apply" /\ b.step = "replace" /\ b.i = c.i /\ b.applied = c.applied
        /\ b.before = d
    BY <1>2, <1>3 DEF Call
  <2> HIDE DEF b
  <2>3. call'[t] = b /\ \A u \in Goroutine : u # t => call'[u] = call[u]
    BY <1>6 DEF Become, LlamaInv
  <2>4. OwnRowFresh(s)'
    BY <1>1, <1>2, <1>3, <2>1, <2>2, <2>3, SnapshotFresh DEF d
  <2>5. Targets(s)' = Targets(s)
    BY <1>2, <1>3, SameConfig
  <2>6. PICK i, a : i = c.i - 1 /\ a = c.applied
    OBVIOUS
  <2>7. srv[s].pc = "register" => RowsWithin(s, 1, i)' /\ PriorsKnown(s, a)'
    BY <1>2, <1>3, <2>5, <2>6
       DEF UndoCall, RowsWithin, Among, HasRow, PriorsKnown
  <2>8. UndoCall(s)'
    BY <1>2, <1>3, <2>2, <2>3, <2>4, <2>6, <2>7 DEF UndoCall
  <2> QED
    BY <1>4, <2>3, <2>8
<1> QED
  BY <1>5, <1>6 DEF ApplySnapshot

\* The snapshot of the rollback sees the own row as it is.
LEMMA RollbackSnapshotUndo ==
    ASSUME LlamaInv, UndoInv, NEW t \in Goroutine, RollbackSnapshot(t) PROVE UndoInv'
<1> DEFINE c == call[t]
           d == Observed(dev[Target(t)])
           b == [c EXCEPT !.before = d, !.step = "replace"]
<1>1. PICK s : s = Pid(t)
  OBVIOUS
<1>2. /\ c.kind = "rollback" /\ c.step = "snapshot" /\ UNCHANGED <<dev, srv>>
      /\ faults' = 0 => faults = 0
  BY RefusedDisturbs DEF RollbackSnapshot, Answered
<1>3. /\ s \in Server /\ t = Main(s) /\ UndoCall(s) /\ c \in Call
      /\ srv[s].err \notin FailedErrors /\ Found(s, c.i)
  BY <1>1, <1>2, RegisterFacts, RollbackFacts
<1>4. ASSUME \A u \in Goroutine : u # t => call'[u] = call[u], UndoCall(s)' PROVE UndoInv'
  <2>1. \A q : \A h \in GPU : RowKept(q, h)
    BY <1>2, QuietRows
  <2> QED
    BY <1>1, <1>2, <1>3, <1>4, <2>1, UndoStep
<1>5. Targets(s)' = Targets(s)
  BY <1>2, <1>3, SameConfig
<1>6. PICK i, a : i = c.i /\ a = c.applied
  OBVIOUS
<1>7. srv[s].pc = "register" => PriorsKnown(s, a)'
  BY <1>2, <1>3, <1>5, <1>6 DEF UndoCall, Among, PriorsKnown
<1>8. CASE Refused(t) /\ RollbackNext(t)
  <2>1. ~ Undisturbed(s)'
    BY <1>1, <1>2, <1>8, RefusedDisturbs
  <2>2. /\ \A u \in Goroutine : u # t => call'[u] = call[u]
        /\ \/ call'[t].kind = "none"
           \/ /\ call'[t].kind = "rollback" /\ call'[t].step = "snapshot"
              /\ call'[t].applied = a
    BY <1>2, <1>6, <1>8, RollbackNextFields
  <2>3. UndoCall(s)'
    BY <1>2, <1>3, <1>7, <2>1, <2>2 DEF UndoCall
  <2> QED
    BY <1>4, <2>2, <2>3
<1>9. CASE Answered(t) /\ Become(t, b)
  <2> HIDE DEF d
  <2>1. /\ b.kind = "rollback" /\ b.step = "replace" /\ b.i = c.i /\ b.applied = c.applied
        /\ b.before = d
    BY <1>2, <1>3 DEF Call
  <2> HIDE DEF b
  <2>2. call'[t] = b /\ \A u \in Goroutine : u # t => call'[u] = call[u]
    BY <1>9 DEF Become, LlamaInv
  <2>3. OwnRowFresh(s)'
    BY <1>1, <1>2, <1>3, <2>1, <2>2, SnapshotFresh DEF d
  <2>4. Undisturbed(s)' => Undisturbed(s)
    BY <1>2, <1>9 DEF Undisturbed, Answered
  <2>5. srv[s].pc = "register" /\ Undisturbed(s)' => RowsWithin(s, 1, i)'
    BY <1>2, <1>3, <1>5, <1>6, <2>4 DEF UndoCall, RowsWithin, Among, HasRow
  <2>6. UndoCall(s)'
    BY <1>2, <1>3, <1>6, <1>7, <2>1, <2>2, <2>3, <2>5 DEF UndoCall
  <2> QED
    BY <1>4, <2>2, <2>6
<1> QED
  BY <1>8, <1>9 DEF RollbackSnapshot

\* A command that is turned down, and not disturbed, changes nothing.
LEMMA FailsUndisturbed ==
    ASSUME LlamaInv, NEW t \in Goroutine, NEW desired, ReplaceFails(t, desired),
           UNCHANGED srv, call[t].kind \in {"apply", "rollback"}
    PROVE  /\ faults' = 0 => faults = 0
           /\ Undisturbed(Pid(t))' =>
                 UNCHANGED dev /\ ~ CanReplace(Target(t), call[t].before, desired)
<1>1. CASE Refused(t)
  BY <1>1, RefusedDisturbs
<1>2. CASE ~ Refused(t)
  BY <1>2 DEF ReplaceFails
<1> QED
  BY <1>1, <1>2

\* apply adds a row on its target and on no later one.
LEMMA ApplyReplaceUndo ==
    ASSUME LlamaInv, UndoInv, NEW t \in Goroutine, ApplyReplace(t) PROVE UndoInv'
<1> DEFINE c == call[t]
           desired == WithPID(c.before, Pid(t), Amount(Pid(t), c.i), LlamaUtil)
           b == [c EXCEPT !.i = @ + 1, !.step = "snapshot", !.before = NoDevice,
                          !.applied = Append(@, Prior(c.before, Pid(t)))]
<1>1. PICK s, g : s = Pid(t) /\ g = Target(t)
  OBVIOUS
<1>2. /\ c.kind = "apply" /\ c.step = "replace" /\ UNCHANGED srv
      /\ \/ /\ ReplaceSucceeds(t, desired)
            /\ IF c.i = Len(Targets(Pid(t))) THEN Done(t, "none") ELSE Become(t, b)
         \/ ReplaceFails(t, desired) /\ Abort(t, "error")
  BY DEF ApplyReplace
<1>3. /\ s \in Server /\ t = Main(s) /\ UndoCall(s) /\ c \in Call /\ ApplyOK(t)
      /\ srv[s].err \notin FailedErrors /\ SamePIDs(c.before)
      /\ DOMAIN Targets(s) = 1 .. Len(Targets(s)) /\ Len(Targets(s)) \in Nat
  BY <1>1, <1>2, RegisterFacts, ApplyFacts
<1>4. /\ c.i \in 1 .. Len(Targets(s)) /\ Found(s, c.i) /\ c.before \in Device
      /\ c.applied \in Seq(PriorRow) /\ Len(c.applied) = c.i - 1
  BY <1>1, <1>2, <1>3 DEF ApplyOK, Call
<1>5. /\ desired \in Rows /\ SamePIDs(desired) /\ OnlyRow(c.before, desired, s)
  BY <1>1, <1>2, <1>3, <1>4, ApplyDesired, OnlyOwnRow
<1> HIDE DEF desired
<1>6. /\ g \in GPU
      /\ \A q : \A h \in GPU : q # s \/ h # g => RowKept(q, h)
  BY <1>1, <1>2, <1>4, <1>5, ReplaceRows
<1>7. /\ Targets(s)[c.i] \in GpuNames[g] /\ Targets(s)' = Targets(s)
      /\ \A h \in GPU : Targets(s)[c.i] \in GpuNames[h] => h = g
  BY <1>1, <1>2, <1>3, <1>4, TargetFound, SameConfig
<1>8. ASSUME \A u \in Goroutine : u # t => call'[u] = call[u], UndoCall(s)',
             faults' = 0 => faults = 0
      PROVE  UndoInv'
  BY <1>1, <1>2, <1>3, <1>6, <1>8, UndoStep
<1>9. CASE ReplaceFails(t, desired) /\ Abort(t, "error")
  <2>1. /\ faults' = 0 => faults = 0
        /\ Undisturbed(Pid(t))' => UNCHANGED dev
    BY <1>2, <1>9, FailsUndisturbed
  <2>2. UndoCall(Pid(t))'
    BY <1>2, <1>9, <2>1, AbortUndo
  <2>3. UndoCall(s)'
    BY <1>1, <2>2
  <2> QED
    BY <1>8, <1>9, <2>1, <2>3, AbortFields
<1>10. CASE ReplaceSucceeds(t, desired) /\ Done(t, "none")
  <2>1. /\ call'[t].kind = "none" /\ call'[t].error = "none"
        /\ \A u \in Goroutine : u # t => call'[u] = call[u]
    BY <1>10 DEF LlamaInv, Done, Become, NoCall
  <2>2. UndoCall(s)'
    BY <1>3, <2>1 DEF UndoCall
  <2> QED
    BY <1>8, <1>10, <2>1, <2>2 DEF ReplaceSucceeds
<1>11. CASE ReplaceSucceeds(t, desired) /\ Become(t, b)
  <2> DEFINE prior == Prior(c.before, Pid(t))
             a == Append(c.applied, prior)
             k == c.i + 1
  <2>1. /\ b = [c EXCEPT !.i = k, !.step = "snapshot", !.before = NoDevice, !.applied = a]
        /\ call' = [call EXCEPT ![t] = b]
    BY <1>11 DEF Become
  <2>2. prior.existed => s \in DOMAIN c.before.mem
    BY <1>1 DEF Prior
  <2> HIDE DEF prior
  <2>3. /\ DOMAIN a = 1 .. c.i /\ a[c.i] = prior
        /\ \A j \in 1 .. c.i : j # c.i => j \in DOMAIN c.applied /\ a[j] = c.applied[j]
    <3> DEFINE f == c.applied
    <3>1. f \in Seq(PriorRow) /\ Len(f) = c.i - 1 /\ a = Append(f, prior) /\ c.i \in Nat
      BY <1>4
    <3> HIDE DEF f, a
    <3>2. DOMAIN f = 1 .. c.i - 1 /\ DOMAIN a = 1 .. c.i
      BY <3>1
    <3>3. a[c.i] = prior
      BY <3>1
    <3>4. \A j \in 1 .. c.i - 1 : a[j] = f[j]
      BY <3>1
    <3> QED
      BY <3>1, <3>2, <3>3, <3>4 DEF f
  <2> HIDE DEF a, k
  <2>4. b.kind = "apply" /\ b.step = "snapshot" /\ b.i = k /\ b.applied = a
    BY <1>2, <1>3, <2>1 DEF Call
  <2> HIDE DEF b
  <2>5. call'[t] = b /\ \A u \in Goroutine : u # t => call'[u] = call[u]
    BY <2>1 DEF LlamaInv
  <2>6. SUFFICES ASSUME srv[s].pc = "register" PROVE UndoCall(s)'
    <3>1. UndoCall(s)'
      BY <1>2, <1>3, <2>6 DEF UndoCall
    <3> QED
      BY <1>8, <1>11, <2>5, <3>1 DEF ReplaceSucceeds
  <2>7. RowsWithin(s, 1, c.i - 1) /\ PriorsKnown(s, c.applied) /\ OwnRowFresh(s)
    BY <1>2, <1>3, <2>6 DEF UndoCall
  <2>8. PICK i, z : i = c.i /\ z = a
    OBVIOUS
  <2>9. RowsWithin(s, 1, i)'
    <3> SUFFICES ASSUME NEW h \in GPU, HasRow(s, h)' PROVE Among(s, h, 1, i)
      BY <1>7 DEF RowsWithin, Among
    <3>1. CASE h = g
      BY <1>3, <1>4, <1>7, <2>8, <3>1 DEF Among
    <3>2. CASE h # g
      <4>1. Among(s, h, 1, c.i - 1)
        BY <1>6, <2>7, <3>2 DEF RowKept, RowsWithin
      <4> QED
        BY <1>3, <1>4, <2>8, <4>1 DEF Among
    <3> QED
      BY <3>1, <3>2
  <2>10. PriorsKnown(s, z)'
    <3> SUFFICES ASSUME NEW j \in DOMAIN z, z[j].existed, NEW h \in GPU,
                        Targets(s)[j] \in GpuNames[h]
                 PROVE  Among(s, h, 1, j - 1)
      BY <1>7 DEF PriorsKnown, Among
    <3>1. CASE j = c.i
      <4>1. s \in DOMAIN c.before.mem
        BY <2>2, <2>3, <2>8, <3>1
      <4>2. HasRow(s, h)
        BY <1>3, <2>7, <3>1, <4>1 DEF OwnRowFresh
      <4> QED
        BY <2>7, <3>1, <4>2 DEF RowsWithin
    <3>2. CASE j # c.i
      BY <2>3, <2>7, <2>8, <3>2 DEF PriorsKnown
    <3> QED
      BY <3>1, <3>2
  <2>11. k - 1 = i
    BY <1>4, <2>8 DEF k
  <2> QED
    BY <1>3, <2>4, <2>5, <2>8, <2>9, <2>10, <2>11 DEF UndoCall
<1> QED
  BY <1>2, <1>9, <1>10, <1>11

\* The rollback has put the target back that it was at.
LEMMA RollbackReplaceUndo ==
    ASSUME IsFiniteSet(PID), LlamaInv, UndoInv, NEW t \in Goroutine, RollbackReplace(t)
    PROVE  UndoInv'
<1> DEFINE c == call[t]
           prior == c.applied[c.i]
<1>1. PICK s, g, i, a : s = Pid(t) /\ g = Target(t) /\ i = c.i /\ a = c.applied
  OBVIOUS
<1>2. /\ c.kind = "rollback" /\ c.step = "replace" /\ UNCHANGED srv
      /\ ReplaceSucceeds(t, Restored(t)) \/ ReplaceFails(t, Restored(t))
      /\ RollbackNext(t)
  BY DEF RollbackReplace, Restored
<1>3. /\ s \in Server /\ t = Main(s) /\ UndoCall(s) /\ c \in Call /\ RollbackOK(t)
      /\ srv[s].err \notin FailedErrors /\ SamePIDs(c.before) /\ Found(s, c.i)
      /\ DOMAIN Targets(s) = 1 .. Len(Targets(s)) /\ Len(Targets(s)) \in Nat
      /\ c.applied \in Seq(PriorRow) /\ i \in 1 .. Len(Targets(s))
  BY <1>1, <1>2, RegisterFacts, RollbackFacts
<1>4. i \in DOMAIN a /\ c.before \in Device
  BY <1>1, <1>3 DEF RollbackOK, Call
<1>5. /\ Restored(t) \in Rows /\ SamePIDs(Restored(t)) /\ OnlyRow(c.before, Restored(t), s)
      /\ ~ prior.existed => s \notin DOMAIN Restored(t).mem
  <2>1. OnlyRow(c.before, Restored(t), s)
    BY <1>1, <1>3, <1>4, OnlyOwnRow DEF Restored
  <2> QED
    BY <1>1, <1>2, <2>1, RollbackDesired
<1>6. /\ g \in GPU
      /\ \A q : \A h \in GPU : q # s \/ h # g => RowKept(q, h)
      /\ ReplaceSucceeds(t, Restored(t)) =>
           (HasRow(s, g)' <=>
              \/ HasRow(s, g)
                   /\ ~ (s \in DOMAIN c.before.mem /\ s \notin DOMAIN Restored(t).mem)
              \/ s \in DOMAIN Restored(t).mem \ DOMAIN c.before.mem)
  BY <1>1, <1>2, <1>3, <1>5, ReplaceRows
<1>7. /\ Targets(s)[i] \in GpuNames[g] /\ Targets(s)' = Targets(s)
  BY <1>1, <1>2, <1>3, TargetFound, SameConfig
<1>8. /\ faults' = 0 => faults = 0
      /\ Undisturbed(s)' => Undisturbed(s)
      /\ Undisturbed(s)' /\ ~ ReplaceSucceeds(t, Restored(t)) =>
           UNCHANGED dev /\ ~ CanReplace(Target(t), c.before, Restored(t))
  <2>1. CASE ReplaceSucceeds(t, Restored(t))
    BY <1>2, <2>1 DEF ReplaceSucceeds, Undisturbed
  <2>2. CASE ReplaceFails(t, Restored(t))
    <3>1. /\ faults' = 0 => faults = 0
          /\ Undisturbed(Pid(t))' =>
                UNCHANGED dev /\ ~ CanReplace(Target(t), call[t].before, Restored(t))
      BY <1>2, <2>2, FailsUndisturbed
    <3> QED
      BY <1>1, <1>2, <3>1 DEF Undisturbed
  <2> QED
    BY <1>2, <2>1, <2>2
<1>9. /\ \A u \in Goroutine : u # t => call'[u] = call[u]
      /\ i = 1 => call'[t].kind = "none" /\ call'[t].step = "done"
      /\ i # 1 =>
            /\ call'[t].kind = "rollback" /\ call'[t].step = "snapshot"
            /\ call'[t].applied = a /\ call'[t].i = i - 1
  BY <1>1, <1>2, RollbackNextFields
<1>10. ASSUME UndoCall(s)' PROVE UndoInv'
  BY <1>1, <1>2, <1>3, <1>6, <1>8, <1>9, <1>10, UndoStep
<1>11. SUFFICES ASSUME srv[s].pc = "register" PROVE UndoCall(s)'
  <2>1. UndoCall(s)'
    BY <1>2, <1>11 DEF UndoCall
  <2> QED
    BY <1>10, <2>1
<1>12. /\ PriorsKnown(s, a) /\ OwnRowFresh(s)
       /\ Undisturbed(s) => RowsWithin(s, 1, i)
  BY <1>1, <1>2, <1>3, <1>11 DEF UndoCall
<1>13. PriorsKnown(s, a)'
  BY <1>7, <1>12 DEF PriorsKnown, Among
<1>14. Undisturbed(s)' /\ ~ prior.existed => ~ HasRow(s, g)'
  <2> SUFFICES ASSUME Undisturbed(s)', ~ prior.existed, HasRow(s, g)' PROVE FALSE
    OBVIOUS
  <2>1. /\ HasRow(s, g) <=> s \in DOMAIN c.before.mem
        /\ HasRow(s, g) => SameRow(dev[g], c.before, s)
    BY <1>1, <1>3, <1>6, <1>7, <1>12 DEF OwnRowFresh
  <2>2. CASE ReplaceSucceeds(t, Restored(t))
    BY <1>5, <1>6, <2>1, <2>2
  <2>3. CASE ~ ReplaceSucceeds(t, Restored(t))
    <3>1. UNCHANGED dev /\ ~ CanReplace(Target(t), c.before, Restored(t))
      BY <1>8, <2>3
    <3>2. HasRow(s, g)
      BY <3>1 DEF HasRow
    <3>3. Restored(t) = WithoutPID(c.before, s)
      BY <1>1 DEF Restored
    <3>4. CanReplace(g, c.before, WithoutPID(c.before, s))
      BY <1>3, <1>4, <1>6, <2>1, <3>2, RemovalGoesThrough DEF LlamaInv, HasRow
    <3> QED
      BY <1>1, <3>1, <3>3, <3>4
  <2> QED
    BY <2>2, <2>3
<1>15. Undisturbed(s)' => RowsWithin(s, 1, i - 1)'
  <2> SUFFICES ASSUME Undisturbed(s)', NEW h \in GPU, HasRow(s, h)'
               PROVE  Among(s, h, 1, i - 1)
    BY <1>1, <1>7 DEF RowsWithin, Among
  <2>1. CASE h = g
    <3>1. prior.existed
      BY <1>14, <2>1
    <3> QED
      BY <1>1, <1>4, <1>7, <1>12, <2>1, <3>1 DEF PriorsKnown
  <2>2. CASE h # g
    <3>1. Among(s, h, 1, i)
      BY <1>6, <1>8, <1>12, <2>2 DEF RowKept, RowsWithin
    <3>2. PICK j \in DOMAIN Targets(s) : 1 <= j /\ j <= i /\ Targets(s)[j] \in GpuNames[h]
      BY <3>1 DEF Among
    <3>3. j # i
      BY <1>6, <1>7, <2>2, <3>2, TargetUnique
    <3>4. j <= i - 1
      BY <1>3, <3>2, <3>3
    <3> QED
      BY <3>2, <3>4 DEF Among
  <2> QED
    BY <2>1, <2>2
<1>16. CASE i = 1
  <2>1. Undisturbed(s)' => NoRowOf(s)'
    BY <1>3, <1>7, <1>15, <1>16 DEF RowsWithin, Among, NoRowOf
  <2> QED
    BY <1>3, <1>9, <1>16, <2>1 DEF UndoCall
<1>17. CASE i # 1
  BY <1>3, <1>9, <1>13, <1>15, <1>17 DEF UndoCall
<1> QED
  BY <1>16, <1>17

\* A release is no business of a Register.
LEMMA ReleasingUndo ==
    ASSUME LlamaInv, UndoInv, NEW t \in Goroutine, call[t].kind = "release",
           \A r \in Server \ {Pid(t)} : srv'[r] = srv[r],
           srv'[Pid(t)].pc = srv[Pid(t)].pc, srv'[Pid(t)].err = srv[Pid(t)].err,
           \A u \in Goroutine : u # t => call'[u] = call[u],
           \A q \in Server \ {Pid(t)} : \A h \in GPU : RowKept(q, h),
           faults' = 0 => faults = 0
    PROVE  UndoInv'
<1>1. PICK s : s = Pid(t)
  OBVIOUS
<1>2. s \in Server /\ ReleaseOK(t) /\ ProcessOK(s)
  BY <1>1, ReleaseFacts, ProcessFacts
<1>3. srv[s].pc # "register" /\ srv[s].err \notin FailedErrors
  BY <1>1, <1>2 DEF ReleaseOK, ProcessOK, FailedErrors
<1>4. UndoCall(s)'
  BY <1>1, <1>3 DEF UndoCall
<1> QED
  BY <1>1, <1>3, <1>4, UndoStep

\* The steps of a release.
LEMMA ReleaseSnapshotUndo ==
    ASSUME LlamaInv, UndoInv, NEW t \in Goroutine, ReleaseSnapshot(t) PROVE UndoInv'
<1> DEFINE b == [call[t] EXCEPT !.before = Observed(dev[Target(t)]), !.step = "replace"]
<1>1. /\ call[t].kind = "release" /\ UNCHANGED <<dev, srv>> /\ (faults' = 0 => faults = 0)
      /\ \/ \E e : ReleaseNext(t, e)
         \/ Become(t, b)
  BY RefusedDisturbs DEF ReleaseSnapshot, Answered
<1> HIDE DEF b
<1>2. \A u \in Goroutine : u # t => call'[u] = call[u]
  BY <1>1, ReleaseNextFields DEF LlamaInv, Become
<1>3. \A q : \A h \in GPU : RowKept(q, h)
  BY <1>1, QuietRows
<1> QED
  BY <1>1, <1>2, <1>3, ReleasingUndo

\* The release takes a row out.
LEMMA ReleaseReplaceUndo ==
    ASSUME LlamaInv, UndoInv, NEW t \in Goroutine, ReleaseReplace(t) PROVE UndoInv'
<1> DEFINE s == Pid(t)
           c == call[t]
           desired == WithoutPID(c.before, s)
<1>1. /\ c.kind = "release" /\ c.step = "replace" /\ UNCHANGED srv
      /\ ReplaceSucceeds(t, desired) \/ ReplaceFails(t, desired)
      /\ \E e : ReleaseNext(t, e)
  BY DEF ReleaseReplace
<1>2. /\ s \in Server /\ s \in PID /\ c \in Call /\ Found(s, c.i) /\ SamePIDs(c.before)
      /\ s \in DOMAIN c.before.mem /\ c.i \in 1 .. Len(Targets(s))
  BY <1>1, ReleaseFacts, Goroutines DEF ReleaseOK
<1>3. c.before \in Device
  BY <1>2 DEF Call
<1>4. desired \in Rows /\ SamePIDs(desired) /\ OnlyRow(c.before, desired, s)
  BY <1>2, <1>3, WithoutPIDRows, OnlyOwnRow
<1> HIDE DEF desired
<1>5. faults' = 0 => faults = 0
  BY <1>1, RefusedDisturbs DEF ReplaceSucceeds, ReplaceFails
<1>6. \A q : \A h \in GPU : q # s => RowKept(q, h)
  BY <1>1, <1>2, <1>4, ReplaceRows
<1>7. \A u \in Goroutine : u # t => call'[u] = call[u]
  BY <1>1, ReleaseNextFields
<1> QED
  BY <1>1, <1>5, <1>6, <1>7, ReleasingUndo

\* The release is over.
LEMMA EndReleaseUndo ==
    ASSUME LlamaInv, UndoInv, NEW t \in Goroutine, EndRelease(t) PROVE UndoInv'
<1> DEFINE s == Pid(t)
           left == call[t].error # "none"
<1>1. /\ call[t].kind = "release" /\ UNCHANGED <<dev, faults>>
      /\ srv' = [srv EXCEPT ![s].registered = left, ![s].releaseMu = "none"]
      /\ \E e : Done(t, e)
  BY DEF EndRelease, EndsRelease
<1> HIDE DEF left
<1>2. s \in Server /\ srv \in [Server -> Process] /\ srv[s] \in Process
  BY <1>1, ReleaseFacts, ProcessFacts DEF LlamaInv
<1>3. /\ srv'[s].pc = srv[s].pc /\ srv'[s].err = srv[s].err
      /\ \A r \in Server \ {s} : srv'[r] = srv[r]
  BY <1>1, <1>2 DEF Process
<1>4. \A u \in Goroutine : u # t => call'[u] = call[u]
  BY <1>1 DEF LlamaInv, Done, Become
<1>5. \A q : \A h \in GPU : RowKept(q, h)
  BY <1>1, QuietRows
<1> QED
  BY <1>1, <1>3, <1>4, <1>5, ReleasingUndo

\* No Register has failed at the start.
LEMMA UndoInit ==
    ASSUME Init PROVE UndoInv
<1> SUFFICES ASSUME NEW s \in Server PROVE UndoOK(s)
  BY DEF UndoInv
<1>1. srv[s].pc = "main" /\ srv[s].err \in {"usage", "none"}
  BY DEF Init, ParseCommand, Launched
<1> QED
  BY <1>1 DEF UndoOK, UndoCall, FailedErrors

\* Every step keeps the invariant of the rollback.
LEMMA UndoNext ==
    ASSUME IsFiniteSet(PID), LlamaInv, RowsInv, UndoInv, [Next]_vars PROVE UndoInv'
<1>1. ASSUME NEW t \in Goroutine, Registry(t) PROVE UndoInv'
  BY <1>1, ApplySnapshotUndo, ApplyReplaceUndo, RollbackSnapshotUndo, RollbackReplaceUndo,
     BeginReleaseRows, ReleaseSnapshotUndo, ReleaseReplaceUndo, EndReleaseUndo
     DEF Registry, RowsKept
<1>2. ASSUME NEW s \in Server, Proceed(s) PROVE UndoInv'
  BY <1>2, ParseRows, StartRows, RegisteredRows, LoadRows, InterruptedRows, ResizedRows,
     CleanupRows, DrainedRows, DrainTimeoutRows, ReleasedRows, RetryRows
     DEF Proceed, RowsKept
<1>3. ASSUME NEW s \in Server,
             \/ WaitForRegisterGate(s) \/ Grow(s) \/ Crash(s)
             \/ ServeFails(s) \/ ReleaseDeadline(s) \/ Sigterm(s) \/ HandleSignals(s)
             \/ BeginStream(s) \/ EndStream(s)
      PROVE  UndoInv'
  BY <1>3, GateRows, GrowRows, CrashRows, ServeFailsRows, ReleaseDeadlineRows, SigtermRows,
     HandleSignalRows, SignalHandledRows, BeginStreamRows, EndStreamRows
     DEF HandleSignals, RowsKept
<1>4. ASSUME UNCHANGED <<dev, srv, call>>, faults' = 0 => faults = 0 PROVE UndoInv'
  BY <1>4, OthersUndo, QuietRows DEF UndoInv
<1>5. CASE \E g \in GPU : Lose(g) \/ Recover(g)
  <2>1. faults \in Nat
    BY ServerAssumption DEF LlamaInv
  <2> QED
    BY <1>4, <1>5, <2>1 DEF Lose, Recover
<1>6. CASE UNCHANGED vars
  BY <1>4, <1>6 DEF vars
<1> QED
  BY <1>1, <1>2, <1>3, <1>5, <1>6 DEF Next

\* A server whose Register failed on one target has taken back its rows on all
\* the others when it exits, provided neither SIGTERM nor a failing command
\* disturbed the rollback (apply and rollback, registry.go). Other servers may have
\* changed the same devices in between: their changes never make the removal of
\* the own row fail.
THEOREM FailedRegisterUndone ==
    ASSUME FreshPIDs, IsFiniteSet(PID) PROVE Spec => []FailedRegisterLeavesNothing
<1>1. Init => LlamaInv /\ RowsInv /\ UndoInv
  BY LlamaInit, RowsInit, UndoInit
<1>2. LlamaInv /\ RowsInv /\ UndoInv /\ [Next]_vars => (LlamaInv /\ RowsInv /\ UndoInv)'
  BY LlamaNext, RowsNext, UndoNext
<1>3. UndoInv => FailedRegisterLeavesNothing
  BY DEF UndoInv, UndoOK, Undisturbed, FailedErrors, FailedRegisterLeavesNothing
<1> QED
  BY <1>1, <1>2, <1>3, PTL DEF Spec

-----------------------------------------------------------------------------
(* How much the rows own. *)

\* The targets of a command are different GPUs: no two of its words name one.
DistinctTargets ==
    \A s \in Server : \A c \in Commands[s] :
        LET targets == ParseCommand(c).cfg.targets
        IN  \A g \in GPU : \A i, j \in DOMAIN targets :
                targets[i] \in GpuNames[g] /\ targets[j] \in GpuNames[g] => i = j

\* The row on each of the first n targets has the share of that target.
Shared(s, n) ==
    \A j \in DOMAIN Targets(s) : \A g \in GPU :
        j <= n /\ Targets(s)[j] \in GpuNames[g] =>
            HasRow(s, g) /\ dev[g].mem[s] = Amount(s, j)

\* The shares that are there: during apply those of the targets passed, and
\* until the next apply or the cleanup all of them.
ShareOK(s) ==
    LET c == call[Main(s)]
    IN  ~ srv[s].cfg.hangShutdown =>
          /\ srv[s].pc \in Applying =>
                /\ c.kind = "apply" => Shared(s, c.i - 1)
                /\ c.kind = "apply" /\ c.step = "replace" => OwnRowFresh(s)
                /\ c.step = "done" /\ c.error = "none" => Shared(s, Len(Targets(s)))
          /\ srv[s].pc \in {"loading", "serving"} => Shared(s, Len(Targets(s)))

ShareInv == \A s \in Server : ShareOK(s)

\* A sum over a finite set is that over its image under an injection.
LEMMA SumImage ==
    ASSUME NEW S, IsFiniteSet(S), NEW G, IsFiniteSet(G), NEW at \in [S -> G],
           \A x, y \in S : at[x] = at[y] => x = y,
           NEW m, NEW r, \A x \in S : m[x] \in Int /\ r[at[x]] = m[x]
    PROVE  SumFunctionOnSet(r, {at[x] : x \in S}) = SumFunctionOnSet(m, S)
<1> DEFINE Image(s) == {at[x] : x \in s}
           Bad == { s \in SUBSET S : SumFunctionOnSet(r, Image(s)) # SumFunctionOnSet(m, s) }
<1>1. SUFFICES ASSUME Bad # {} PROVE FALSE
  OBVIOUS
<1>2. PICK s \in Bad : \A y \in Bad : y \subseteq s => y = s
  <2>1. Bad \subseteq SUBSET S
    OBVIOUS
  <2> HIDE DEF Bad
  <2> QED
    BY <1>1, <2>1, SmallestSubset
<1>3. s \subseteq S /\ IsFiniteSet(s) /\ IsFiniteSet(Image(s))
  <2>1. s \subseteq S
    OBVIOUS
  <2>2. IsFiniteSet(s)
    BY <2>1, FS_Subset
  <2> DEFINE I == Image(s)
  <2>3. I \subseteq G
    BY <2>1
  <2> HIDE DEF I
  <2>4. IsFiniteSet(I)
    BY <2>3, FS_Subset
  <2> QED
    BY <2>1, <2>2, <2>4 DEF I
<1>4. s # {}
  <2>1. ASSUME s = {} PROVE FALSE
    <3>1. Image(s) = {}
      BY <2>1
    <3> QED
      BY <2>1, <3>1, SumEmpty
  <2> QED
    BY <2>1
<1>5. PICK e : e \in s
  BY <1>4
<1>6. Image(s) \ {at[e]} = Image(s \ {e}) /\ at[e] \in Image(s)
  BY <1>3, <1>5
<1>7. s \ {e} \in SUBSET S /\ s \ {e} # s
  BY <1>5
<1>8. SumFunctionOnSet(r, Image(s \ {e})) = SumFunctionOnSet(m, s \ {e})
  BY <1>2, <1>7
<1>9. \A g \in Image(s) : r[g] \in Int
  BY <1>3
<1>10. r[at[e]] = m[e] /\ \A x \in s : m[x] \in Int
  BY <1>3, <1>5
<1> DEFINE I == Image(s)
<1>11. SumFunctionOnSet(r, I) = r[at[e]] + SumFunctionOnSet(r, I \ {at[e]})
  <2> HIDE DEF I
  <2>1. IsFiniteSet(I) /\ at[e] \in I /\ \A g \in I : r[g] \in Int
    BY <1>3, <1>6, <1>9 DEF I
  <2> QED
    BY <2>1, SumRemove
<1>12. SumFunctionOnSet(m, s) = m[e] + SumFunctionOnSet(m, s \ {e})
  BY <1>3, <1>5, <1>10, SumRemove
<1> QED
  BY <1>2, <1>6, <1>8, <1>10, <1>11, <1>12

\* Where a function is zero outside a set, the sum is that over the set.
LEMMA SumWhere ==
    ASSUME NEW G, IsFiniteSet(G), NEW r, \A g \in G : r[g] \in Int,
           NEW R, R \subseteq G, \A g \in G \ R : r[g] = 0
    PROVE  SumFunctionOnSet(r, G) = SumFunctionOnSet(r, R)
<1>1. SumFunctionOnSet(r, G) = SumFunctionOnSet(r, R) + SumFunctionOnSet(r, G \ R)
  BY SumSplit
<1>2. SumFunctionOnSet(r, G \ R) = 0
  <2>1. IsFiniteSet(G \ R)
    BY FS_Subset
  <2>2. 0 \in {0} /\ (\A a, b \in {0} : a + b \in {0}) /\ \A x \in G \ R : r[x] \in {0}
    OBVIOUS
  <2>3. SumFunctionOnSet(r, G \ R) \in {0}
    BY <2>1, <2>2, SumClosed
  <2> QED
    BY <2>3
<1>3. IsFiniteSet(R) /\ \A g \in R : r[g] \in Int
  BY FS_Subset
<1>4. SumFunctionOnSet(r, R) \in Int
  BY <1>3, SumInt
<1> QED
  BY <1>1, <1>2, <1>4

\* The shares add up to the need in whole MiB, rounded up once (splitProcessMiB).
LEMMA SplitSum ==
    ASSUME NEW cfg, WellFormed(cfg), NEW bytes \in Nat, cfg.targets # <<>>
    PROVE  SumFunctionOnSet(SplitProcessMiB(bytes, cfg), 1 .. Len(cfg.targets)) = RoundUp(bytes)
<1> DEFINE n == Len(cfg.targets)
           weights == [j \in 1 .. n |-> Weight(cfg, cfg.targets[j])]
           R == RoundUp(bytes)
           W == SumFunctionOnSet(weights, 1 .. n)
           shares == [j \in 1 .. n - 1 |-> (R * weights[j]) \div W]
           m == SplitProcessMiB(bytes, cfg)
<1>1. n \in Nat /\ n >= 1 /\ n \in 1 .. n /\ (1 .. n) \ {n} = 1 .. n - 1
  BY DEF WellFormed
<1>2. R \in Nat
  BY UnitAssumption DEF RoundUp
<1>3. \A i \in 1 .. n : m[i] \in Nat
  BY SplitNat
<1>4. m = [j \in 1 .. n |-> IF j < n THEN shares[j]
                         ELSE R - SumFunctionOnSet(shares, 1 .. n - 1)]
  BY DEF SplitProcessMiB
<1>5. IsFiniteSet(1 .. n) /\ IsFiniteSet(1 .. n - 1)
  BY <1>1, FS_Interval
<1> HIDE DEF m, shares, R, n
<1>6. m[n] = R - SumFunctionOnSet(shares, 1 .. n - 1)
  BY <1>1, <1>4
<1>7. \A j \in 1 .. n - 1 : m[j] = shares[j] /\ m[j] \in Int
  <2> SUFFICES ASSUME NEW j \in 1 .. n - 1 PROVE m[j] = shares[j] /\ m[j] \in Int
    OBVIOUS
  <2>1. j \in 1 .. n /\ j < n
    BY <1>1
  <2> QED
    BY <1>3, <1>4, <2>1
<1>8. SumFunctionOnSet(m, 1 .. n) = m[n] + SumFunctionOnSet(m, 1 .. n - 1)
  <2>1. \A i \in 1 .. n : m[i] \in Int
    BY <1>3
  <2>2. SumFunctionOnSet(m, 1 .. n) = m[n] + SumFunctionOnSet(m, (1 .. n) \ {n})
    BY <1>1, <1>5, <2>1, SumRemove
  <2> QED
    BY <1>1, <2>2
<1>9. SumFunctionOnSet(m, 1 .. n - 1) = SumFunctionOnSet(shares, 1 .. n - 1)
  BY <1>5, <1>7, SumAgree
<1>10. SumFunctionOnSet(m, 1 .. n - 1) \in Int
  BY <1>5, <1>7, SumInt
<1>11. SumFunctionOnSet(m, 1 .. n) = R
  BY <1>2, <1>6, <1>8, <1>9, <1>10
<1> QED
  BY <1>11 DEF m, n, R

\* What apply stores on its target is the target's share.
LEMMA ShareStored ==
    ASSUME LlamaInv, NEW s \in Server, NEW t \in Goroutine, t = Main(s),
           call[t].kind = "apply", call[t].step = "replace", OwnRowFresh(s),
           NEW desired, desired = WithPID(call[t].before, s, Amount(s, call[t].i), LlamaUtil),
           ReplaceSucceeds(t, desired), NEW g, g = Target(t)
    PROVE  HasRow(s, g)' /\ dev'[g].mem[s] = Amount(s, call[t].i)
<1> DEFINE b == call[t].before
           R == Rebase(b, desired, dev[g])
           a == Amount(s, call[t].i)
<1>1. /\ Pid(t) = s /\ ApplyOK(t) /\ Found(s, call[t].i) /\ b \in Device /\ SamePIDs(b)
      /\ DevicesOK
  BY Goroutines, ApplyFacts DEF ApplyOK, LlamaInv, Call
<1>2. /\ g \in GPU /\ Targets(s)[call[t].i] \in GpuNames[g]
  BY <1>1, TargetFound
<1>3. desired \in Rows /\ SamePIDs(desired)
  BY <1>1, ApplyDesired
<1>4. dev'[g].mem = R.mem
  BY <1>1, <1>2, <1>3, ReplacedFits DEF ReplaceSucceeds
<1>5. /\ HasRow(s, g) <=> s \in DOMAIN b.mem
      /\ HasRow(s, g) => dev[g].mem[s] = b.mem[s]
  BY <1>2 DEF OwnRowFresh, SameRow
<1>6. s \in DOMAIN desired.mem /\ desired.mem[s] = a
  BY DEF WithPID
<1> HIDE DEF a, b
<1>7. s \in DOMAIN R.mem /\ R.mem[s] = a
  <2> DEFINE D == (DOMAIN dev[g].mem \ Removed(b, desired)) \cup Added(b, desired)
             C == Changed(b, desired) \cup Added(b, desired)
  <2>1. R.mem = [q \in D |-> IF q \in C THEN desired.mem[q] ELSE dev[g].mem[q]]
    BY DEF Rebase, RebaseColumn
  <2>2. s \in D
    BY <1>5, <1>6 DEF HasRow, Removed, Added
  <2>3. s \in C \/ dev[g].mem[s] = desired.mem[s]
    BY <1>5, <1>6 DEF Changed, Added, SameRow
  <2> HIDE DEF D, C, R
  <2> QED
    BY <1>6, <2>1, <2>2, <2>3
<1> HIDE DEF R
<1> QED
  BY <1>4, <1>7 DEF HasRow, a

\* The shares are a matter of the configuration, of its growth and of the rows.
LEMMA SameShares ==
    ASSUME NEW s \in Server, srv'[s].cfg = srv[s].cfg, srv'[s].grown = srv[s].grown,
           \A g \in GPU : RowKept(s, g)
    PROVE  \A n : Shared(s, n)' <=> Shared(s, n)
<1>1. Targets(s)' = Targets(s) /\ \A j : Amount(s, j)' = Amount(s, j)
  BY SameConfig
<1> QED
  BY <1>1 DEF Shared, RowKept, SameRow

\* What others do does not matter.
LEMMA OthersShares ==
    ASSUME NEW s \in Server, srv'[s] = srv[s], call'[Main(s)] = call[Main(s)],
           \A g \in GPU : RowKept(s, g), ShareOK(s)
    PROVE  ShareOK(s)'
<1>1. /\ \A n : Shared(s, n)' <=> Shared(s, n)
      /\ Targets(s)' = Targets(s)
  BY SameShares, SameConfig
<1>2. OwnRowFresh(s) => OwnRowFresh(s)'
  BY <1>1 DEF OwnRowFresh, RowKept, SameRow
<1> QED
  BY <1>1, <1>2 DEF ShareOK

\* How server s may move on while the devices stay.
Advances(s) ==
    LET p == srv[s]
        q == srv'[s]
        c == call[Main(s)]
    IN  /\ q.cfg = p.cfg
        /\ q.pc \in Applying =>
              \/ q.pc = p.pc /\ q.grown = p.grown /\ call'[Main(s)] = c
              \/ Fresh(Main(s), "apply")
        /\ q.pc \in {"loading", "serving"} =>
              /\ q.grown = p.grown
              /\ \/ p.pc \in {"loading", "serving"}
                 \/ p.pc \in Applying /\ c.step = "done" /\ c.error = "none"

\* Such a step keeps the shares.
LEMMA AdvanceShares ==
    ASSUME LlamaInv, ShareInv, NEW s \in Server, UNCHANGED dev, Elsewhere(s), Advances(s)
    PROVE  ShareInv'
<1>1. \A q : \A h \in GPU : RowKept(q, h)
  BY QuietRows
<1>2. ASSUME NEW r \in Server, r # s PROVE ShareOK(r)'
  BY <1>1, <1>2, OthersShares DEF ShareInv, Elsewhere
<1>3. ShareOK(s) /\ Targets(s)' = Targets(s) /\ srv'[s].cfg = srv[s].cfg
  BY SameConfig DEF ShareInv, Advances
<1>4. Len(Targets(s)) \in Nat /\ DOMAIN Targets(s) = 1 .. Len(Targets(s))
  BY TargetFields DEF LlamaInv
<1>5. srv'[s].grown = srv[s].grown => \A n : Shared(s, n)' <=> Shared(s, n)
  BY <1>1, <1>3, SameShares
<1>6. ShareOK(s)'
  <2>1. CASE srv'[s].pc \in {"loading", "serving"}
    BY <1>3, <1>5, <2>1 DEF ShareOK, Advances, Applying
  <2>2. CASE srv'[s].pc \in Applying /\ Fresh(Main(s), "apply")
    <3>1. Shared(s, 0)'
      BY <1>3, <1>4 DEF Shared
    <3> QED
      BY <2>2, <3>1 DEF ShareOK, Fresh, Applying
  <2>3. CASE /\ srv'[s].pc \in Applying /\ srv'[s].pc = srv[s].pc
             /\ srv'[s].grown = srv[s].grown /\ call'[Main(s)] = call[Main(s)]
    <3>1. OwnRowFresh(s) => OwnRowFresh(s)'
      BY <1>1, <1>3, <2>3 DEF OwnRowFresh, RowKept, SameRow
    <3> QED
      BY <1>3, <1>5, <2>3, <3>1 DEF ShareOK, Applying
  <2>4. CASE srv'[s].pc \notin Applying \cup {"loading", "serving"}
    BY <2>4 DEF ShareOK
  <2> QED
    BY <2>1, <2>2, <2>3, <2>4 DEF Advances
<1> QED
  BY <1>2, <1>6 DEF ShareInv

\* Server s goes to a place, or stays, with its configuration.
GoesTo(s, where) ==
    /\ srv'[s].cfg = srv[s].cfg /\ srv'[s].grown = srv[s].grown /\ srv'[s].pc = where
    /\ \A r \in Server \ {s} : srv'[r] = srv[r]

\* Only the calls of server s change, if any.
OwnCalls(s) ==
    \/ UNCHANGED call
    \/ \E c : call' = [call EXCEPT ![Main(s)] = c]
    \/ \E c : call' = [call EXCEPT ![Signal(s)] = c]
    \/ \E c, e : call' = [call EXCEPT ![Main(s)] = c, ![Signal(s)] = e]

\* The other servers have not moved.
LEMMA OwnCallsElsewhere ==
    ASSUME LlamaInv, NEW s \in Server, \A r \in Server \ {s} : srv'[r] = srv[r], OwnCalls(s)
    PROVE  Elsewhere(s)
<1>1. call \in [Goroutine -> Call]
  BY DEF LlamaInv
<1>2. \A r \in Server \ {s} :
         /\ Main(r) \in Goroutine /\ Signal(r) \in Goroutine
         /\ Main(r) # Main(s) /\ Main(r) # Signal(s)
         /\ Signal(r) # Main(s) /\ Signal(r) # Signal(s)
  BY Goroutines DEF Main, Signal
<1>3. \A r \in Server \ {s} :
         call'[Main(r)] = call[Main(r)] /\ call'[Signal(r)] = call[Signal(r)]
  BY <1>1, <1>2 DEF OwnCalls
<1> QED
  BY <1>3 DEF Elsewhere

\* The places without shares, those that keep them, and those that a call with
\* all its shares leads to.
LEMMA GoesToShares ==
    ASSUME LlamaInv, ShareInv, NEW s \in Server, UNCHANGED dev, NEW where,
           GoesTo(s, where), OwnCalls(s),
           \/ where \notin Applying \cup {"loading", "serving"}
           \/ where = srv[s].pc /\ call'[Main(s)] = call[Main(s)]
           \/ where = "serving" /\ srv[s].pc = "loading"
           \/ /\ where \in {"loading", "serving"} /\ srv[s].pc \in Applying
              /\ call[Main(s)].step = "done" /\ call[Main(s)].error = "none"
           \/ where \in Applying /\ Fresh(Main(s), "apply")
    PROVE  ShareInv'
<1>1. Elsewhere(s)
  BY OwnCallsElsewhere DEF GoesTo
<1>2. Advances(s)
  BY DEF Advances, GoesTo, Applying
<1> QED
  BY <1>1, <1>2, AdvanceShares

\* main goes on.
LEMMA GotoGoes ==
    ASSUME LlamaInv, NEW s \in Server, NEW where, Goto(s, where) PROVE GoesTo(s, where)
BY ProcessFacts DEF GoesTo, Process, Goto

\* Run returns.
LEMMA LeaveGoes ==
    ASSUME LlamaInv, NEW s \in Server, NEW why, Leave(s, why) PROVE GoesTo(s, "cleanup")
BY ProcessFacts DEF GoesTo, Process, Leave

\* The process ends.
LEMMA ExitGoes ==
    ASSUME LlamaInv, NEW s \in Server, NEW where, NEW why, Exit(s, where, why)
    PROVE  GoesTo(s, where) /\ OwnCalls(s)
<1>1. GoesTo(s, where)
  BY ProcessFacts DEF GoesTo, Process, Exit, Launched
<1>2. OwnCalls(s)
  BY DEF OwnCalls, Exit
<1> QED
  BY <1>1, <1>2

\* The command has been parsed.
LEMMA ParseShares ==
    ASSUME LlamaInv, ShareInv, NEW s \in Server, Parse(s) PROVE ShareInv'
<1>1. UNCHANGED dev /\ (Exit(s, "exited", "usage") \/ (Goto(s, "gate") /\ UNCHANGED call))
  BY DEF Parse
<1>2. \E where \in {"exited", "gate"} : GoesTo(s, where) /\ OwnCalls(s)
  BY <1>1, GotoGoes, ExitGoes DEF OwnCalls
<1> QED
  BY <1>1, <1>2, GoesToShares DEF Applying

\* The register gate opens, or the start fails.
LEMMA GateShares ==
    ASSUME LlamaInv, ShareInv, NEW s \in Server, WaitForRegisterGate(s) PROVE ShareInv'
<1>1. UNCHANGED dev /\ (Exit(s, "exited", "startup") \/ (Goto(s, "start") /\ UNCHANGED call))
  BY DEF WaitForRegisterGate
<1>2. \E where \in {"exited", "start"} : GoesTo(s, where) /\ OwnCalls(s)
  BY <1>1, GotoGoes, ExitGoes DEF OwnCalls
<1> QED
  BY <1>1, <1>2, GoesToShares DEF Applying

\* Register is called, or Run ends before it.
LEMMA StartShares ==
    ASSUME LlamaInv, ShareInv, NEW s \in Server, Start(s) PROVE ShareInv'
<1>1. /\ UNCHANGED dev
      /\ \/ Exit(s, "exited", "startup")
         \/ Leave(s, "oom") /\ UNCHANGED call
         \/ Goto(s, "register") /\ Become(Main(s), NewCall("apply"))
  BY DEF Start
<1>2. CASE Exit(s, "exited", "startup") \/ (Leave(s, "oom") /\ UNCHANGED call)
  <2>1. \E where \in {"exited", "cleanup"} : GoesTo(s, where) /\ OwnCalls(s)
    BY <1>2, LeaveGoes, ExitGoes DEF OwnCalls
  <2> QED
    BY <1>1, <2>1, GoesToShares DEF Applying
<1>3. CASE Goto(s, "register") /\ Become(Main(s), NewCall("apply"))
  <2>1. GoesTo(s, "register") /\ OwnCalls(s) /\ Fresh(Main(s), "apply")
    BY <1>3, GotoGoes, BeginsCall, Goroutines DEF OwnCalls, Become
  <2> QED
    BY <1>1, <2>1, GoesToShares DEF Applying
<1> QED
  BY <1>1, <1>2, <1>3

\* Register has returned: with all the shares, or Run leaves.
LEMMA RegisteredShares ==
    ASSUME LlamaInv, ShareInv, NEW s \in Server, Registered(s) PROVE ShareInv'
<1>1. /\ UNCHANGED dev /\ OwnCalls(s)
      /\ srv[s].pc = "register" /\ call[Main(s)].step = "done"
  BY DEF Registered, At, OwnCalls, Become
<1>2. CASE Leave(s, "oom") \/ Leave(s, "register")
  <2>1. GoesTo(s, "cleanup")
    BY <1>2, LeaveGoes
  <2> QED
    BY <1>1, <2>1, GoesToShares DEF Applying
<1>3. CASE /\ call[Main(s)].error = "none"
           /\ srv' = [srv EXCEPT ![s].pc = "loading", ![s].registered = TRUE]
  <2>1. GoesTo(s, "loading")
    BY <1>3, ProcessFacts DEF GoesTo, Process
  <2> QED
    BY <1>1, <1>3, <2>1, GoesToShares DEF Applying
<1> QED
  BY <1>2, <1>3 DEF Registered

\* The server loads and serves.
LEMMA LoadShares ==
    ASSUME LlamaInv, ShareInv, NEW s \in Server, Load(s) PROVE ShareInv'
<1>1. /\ UNCHANGED dev /\ OwnCalls(s) /\ srv[s].pc = "loading"
      /\ srv' = [srv EXCEPT ![s].pc = "serving", ![s].ready = TRUE]
  BY DEF Load, At, OwnCalls
<1>2. GoesTo(s, "serving")
  BY <1>1, ProcessFacts DEF GoesTo, Process
<1> QED
  BY <1>1, <1>2, GoesToShares

\* Resize is called.
LEMMA GrowShares ==
    ASSUME LlamaInv, ShareInv, NEW s \in Server, Grow(s) PROVE ShareInv'
<1>1. /\ UNCHANGED dev
      /\ \/ Leave(s, "growth") /\ UNCHANGED call
         \/ /\ srv' = [srv EXCEPT ![s].pc = "resize", ![s].grown = TRUE]
            /\ Become(Main(s), NewCall("apply"))
  BY DEF Grow
<1>2. CASE Leave(s, "growth") /\ UNCHANGED call
  <2>1. GoesTo(s, "cleanup") /\ OwnCalls(s)
    BY <1>2, LeaveGoes DEF OwnCalls
  <2> QED
    BY <1>1, <2>1, GoesToShares DEF Applying
<1>3. CASE /\ srv' = [srv EXCEPT ![s].pc = "resize", ![s].grown = TRUE]
           /\ Become(Main(s), NewCall("apply"))
  <2>1. /\ srv'[s].cfg = srv[s].cfg /\ srv'[s].pc = "resize"
        /\ \A r \in Server \ {s} : srv'[r] = srv[r]
    BY <1>3, ProcessFacts DEF Process
  <2>2. OwnCalls(s) /\ Fresh(Main(s), "apply")
    BY <1>3, BeginsCall, Goroutines DEF OwnCalls, Become
  <2>3. Elsewhere(s) /\ Advances(s)
    BY <2>1, <2>2, OwnCallsElsewhere DEF Advances, Applying
  <2> QED
    BY <1>1, <2>3, AdvanceShares
<1> QED
  BY <1>1, <1>2, <1>3

\* Resize has returned.
LEMMA ResizedShares ==
    ASSUME LlamaInv, ShareInv, NEW s \in Server, Resized(s) PROVE ShareInv'
<1>1. /\ UNCHANGED dev /\ OwnCalls(s) /\ srv[s].pc = "resize" /\ call[Main(s)].step = "done"
  BY DEF Resized, At, OwnCalls, Become
<1>2. CASE call[Main(s)].error = "none" /\ Goto(s, "serving")
  <2>1. GoesTo(s, "serving")
    BY <1>2, GotoGoes
  <2> QED
    BY <1>1, <1>2, <2>1, GoesToShares DEF Applying
<1>3. CASE Leave(s, "growth")
  <2>1. GoesTo(s, "cleanup")
    BY <1>3, LeaveGoes
  <2> QED
    BY <1>1, <2>1, GoesToShares DEF Applying
<1> QED
  BY <1>2, <1>3 DEF Resized

\* Run returns, the server drains and releases, and the process ends.
LEMMA ClosingShares ==
    ASSUME LlamaInv, ShareInv, NEW s \in Server,
           \/ Interrupted(s) \/ ServeFails(s) \/ Crash(s) \/ Cleanup(s) \/ Drained(s)
           \/ DrainTimeout(s) \/ Released(s) \/ Retry(s)
    PROVE  ShareInv'
<1>1. ASSUME UNCHANGED dev, NEW where, GoesTo(s, where), OwnCalls(s),
             where \in {"cleanup", "draining", "release", "retry", "exited", "abandoned"}
      PROVE  ShareInv'
  BY <1>1, GoesToShares DEF Applying
<1>2. CASE Interrupted(s) \/ ServeFails(s)
  <2>1. /\ UNCHANGED dev
        /\ \/ Exit(s, "exited", "none")
           \/ (Goto(s, "cleanup") \/ Leave(s, "serve")) /\ UNCHANGED call
    BY <1>2 DEF Interrupted, ServeFails
  <2>2. \E where \in {"exited", "cleanup"} : GoesTo(s, where) /\ OwnCalls(s)
    BY <2>1, GotoGoes, LeaveGoes, ExitGoes DEF OwnCalls
  <2> QED
    BY <1>1, <2>1, <2>2
<1>3. CASE Crash(s)
  <2>1. /\ UNCHANGED <<dev, call>>
        /\ srv' = [srv EXCEPT ![s].pc = "cleanup", ![s].err = "crash", ![s].ready = FALSE]
    BY <1>3 DEF Crash
  <2>2. GoesTo(s, "cleanup") /\ OwnCalls(s)
    BY <2>1, ProcessFacts DEF GoesTo, Process, OwnCalls
  <2> QED
    BY <1>1, <2>1, <2>2
<1>4. CASE Cleanup(s)
  <2>1. /\ UNCHANGED <<dev, call>>
        /\ srv' = [srv EXCEPT ![s].pc = "draining", ![s].ready = FALSE]
    BY <1>4 DEF Cleanup
  <2>2. GoesTo(s, "draining") /\ OwnCalls(s)
    BY <2>1, ProcessFacts DEF GoesTo, Process, OwnCalls
  <2> QED
    BY <1>1, <2>1, <2>2
<1>5. CASE Drained(s)
  <2>1. UNCHANGED <<dev, call>> /\ Goto(s, "release")
    BY <1>5 DEF Drained
  <2> QED
    BY <1>1, <2>1, GotoGoes DEF OwnCalls
<1>6. CASE DrainTimeout(s)
  <2>1. /\ UNCHANGED <<dev, call>>
        /\ srv' = [srv EXCEPT ![s].pc = "release", ![s].streams = 0]
    BY <1>6 DEF DrainTimeout
  <2>2. GoesTo(s, "release") /\ OwnCalls(s)
    BY <2>1, ProcessFacts DEF GoesTo, Process, OwnCalls
  <2> QED
    BY <1>1, <2>1, <2>2
<1>7. CASE Released(s) \/ Retry(s)
  <2>1. /\ UNCHANGED dev
        /\ \/ \E where \in {"exited", "abandoned"} : Exit(s, where, srv[s].err)
           \/ Goto(s, "retry") /\ Become(Main(s), NoCall)
           \/ Goto(s, "release") /\ UNCHANGED call
    BY <1>7 DEF Released, Retry
  <2>2. \E where \in {"exited", "abandoned", "retry", "release"} :
           GoesTo(s, where) /\ OwnCalls(s)
    BY <2>1, GotoGoes, ExitGoes DEF OwnCalls, Become
  <2> QED
    BY <1>1, <2>1, <2>2
<1> QED
  BY <1>2, <1>3, <1>4, <1>5, <1>6, <1>7

\* Timers, signals and streams leave main where it is.
LEMMA AsideShares ==
    ASSUME LlamaInv, ShareInv, NEW s \in Server,
           \/ ReleaseDeadline(s) \/ Sigterm(s) \/ HandleSignal(s) \/ SignalHandled(s)
           \/ BeginStream(s) \/ EndStream(s)
    PROVE  ShareInv'
<1>1. srv \in [Server -> Process] /\ srv[s] \in Process /\ call \in [Goroutine -> Call]
  BY ProcessFacts DEF LlamaInv
<1>2. ASSUME NEW p, p = srv[s].pc, UNCHANGED dev, GoesTo(s, p), OwnCalls(s),
             call'[Main(s)] = call[Main(s)]
      PROVE  ShareInv'
  BY <1>2, GoesToShares
<1>3. PICK p : p = srv[s].pc
  OBVIOUS
<1>4. CASE ReleaseDeadline(s)
  <2>1. UNCHANGED <<dev, call>> /\ srv' = [srv EXCEPT ![s].expired = TRUE]
    BY <1>4 DEF ReleaseDeadline
  <2>2. GoesTo(s, p)
    BY <1>1, <1>3, <2>1 DEF GoesTo, Process
  <2> QED
    BY <1>2, <1>3, <2>1, <2>2 DEF OwnCalls
<1>5. CASE Sigterm(s)
  <2>1. UNCHANGED <<dev, call>> /\ \E k : srv' = [srv EXCEPT ![s].pending = k]
    BY <1>5 DEF Sigterm
  <2>2. GoesTo(s, p)
    BY <1>1, <1>3, <2>1 DEF GoesTo, Process
  <2> QED
    BY <1>2, <1>3, <2>1, <2>2 DEF OwnCalls
<1>6. CASE HandleSignal(s)
  <2>1. /\ UNCHANGED <<dev, call>>
        /\ \E k : \/ srv' = [srv EXCEPT ![s].pending = k, ![s].sig = "release"]
                  \/ srv' = [srv EXCEPT ![s].pending = k, ![s].sig = "stopped",
                                        ![s].cancelled = TRUE]
    BY <1>6 DEF HandleSignal
  <2>2. ASSUME NEW k, srv' = [srv EXCEPT ![s].pending = k, ![s].sig = "release"]
        PROVE  GoesTo(s, p)
    BY <1>1, <1>3, <2>2 DEF GoesTo, Process
  <2>3. ASSUME NEW k, srv' = [srv EXCEPT ![s].pending = k, ![s].sig = "stopped",
                                         ![s].cancelled = TRUE]
        PROVE  GoesTo(s, p)
    BY <1>1, <1>3, <2>3 DEF GoesTo, Process
  <2> QED
    BY <1>2, <1>3, <2>1, <2>2, <2>3 DEF OwnCalls
<1>7. CASE SignalHandled(s)
  <2>1. /\ UNCHANGED dev /\ call' = [call EXCEPT ![Signal(s)] = NoCall]
        /\ srv' = [srv EXCEPT ![s].sig = "waiting"]
    BY <1>7 DEF SignalHandled, Become
  <2>2. GoesTo(s, p)
    BY <1>1, <1>3, <2>1 DEF GoesTo, Process
  <2>3. OwnCalls(s) /\ call'[Main(s)] = call[Main(s)]
    BY <1>1, <2>1, Goroutines DEF OwnCalls
  <2> QED
    BY <1>2, <1>3, <2>1, <2>2, <2>3
<1>8. CASE BeginStream(s) \/ EndStream(s)
  <2>1. UNCHANGED <<dev, call>> /\ \E k : srv' = [srv EXCEPT ![s].streams = k]
    BY <1>8 DEF BeginStream, EndStream
  <2>2. GoesTo(s, p)
    BY <1>1, <1>3, <2>1 DEF GoesTo, Process
  <2> QED
    BY <1>2, <1>3, <2>1, <2>2 DEF OwnCalls
<1> QED
  BY <1>4, <1>5, <1>6, <1>7, <1>8

\* A step of one goroutine, which leaves the rows of other servers alone.
LEMMA RegistryShares ==
    ASSUME ShareInv, NEW t \in Goroutine, NEW s \in Server, s = Pid(t),
           \A r \in Server \ {s} : srv'[r] = srv[r],
           \A u \in Goroutine : u # t => call'[u] = call[u],
           \A q \in Server \ {s} : \A h \in GPU : RowKept(q, h), ShareOK(s)'
    PROVE  ShareInv'
<1> SUFFICES ASSUME NEW r \in Server, r # s PROVE ShareOK(r)'
  BY DEF ShareInv
<1>1. Main(r) \in Goroutine /\ Main(r) # t
  BY Goroutines
<1> QED
  BY <1>1, OthersShares DEF ShareInv

\* Nothing is said of the shares while apply fails.
LEMMA FailingShares ==
    ASSUME NEW s \in Server, srv[s].pc \in Applying, UNCHANGED srv,
           call'[Main(s)].kind # "apply",
           call'[Main(s)].step = "done" => call'[Main(s)].error # "none"
    PROVE  ShareOK(s)'
BY DEF ShareOK, Applying

\* apply fails.
LEMMA AbortShares ==
    ASSUME LlamaInv, NEW t \in Goroutine, call[t].kind = "apply", UNCHANGED srv,
           NEW e \in {"error", "oom"}, Abort(t, e), NEW s, s = Pid(t)
    PROVE  ShareOK(s)'
<1>1. s \in Server /\ t = Main(s) /\ srv[s].pc \in Applying
  BY ApplyFacts, Goroutines DEF ApplyOK
<1>2. call'[t].kind # "apply" /\ (call'[t].step = "done" => call'[t].error # "none")
  BY AbortFields
<1> QED
  BY <1>1, <1>2, FailingShares

\* A snapshot of apply sees the own row as it is, or apply gives up.
LEMMA ApplySnapshotShares ==
    ASSUME LlamaInv, ShareInv, NEW t \in Goroutine, ApplySnapshot(t) PROVE ShareInv'
<1> DEFINE c == call[t]
           d == Observed(dev[Target(t)])
           b == [c EXCEPT !.before = d, !.step = "replace"]
<1>1. PICK s : s = Pid(t)
  OBVIOUS
<1>2. c.kind = "apply" /\ c.step = "snapshot" /\ UNCHANGED <<dev, srv>>
  BY DEF ApplySnapshot
<1>3. /\ s \in Server /\ t = Main(s) /\ ShareOK(s) /\ c \in Call /\ srv[s].pc \in Applying
  BY <1>1, <1>2, ApplyFacts, Goroutines DEF ApplyOK, ShareInv
<1>4. \A q : \A h \in GPU : RowKept(q, h)
  BY <1>2, QuietRows
<1>5. ASSUME \A u \in Goroutine : u # t => call'[u] = call[u], ShareOK(s)' PROVE ShareInv'
  BY <1>1, <1>2, <1>3, <1>4, <1>5, RegistryShares
<1>6. ASSUME NEW e \in {"error", "oom"}, Abort(t, e) PROVE ShareInv'
  BY <1>1, <1>2, <1>5, <1>6, AbortFields, AbortShares
<1>7. CASE Resolves(t) /\ Become(t, b)
  <2>1. Found(s, c.i)
    BY <1>1, <1>7 DEF Resolves, Found, TargetWord
  <2> HIDE DEF d
  <2>2. b.kind = "apply" /\ b.step = "replace" /\ b.i = c.i /\ b.before = d
    BY <1>2, <1>3 DEF Call
  <2> HIDE DEF b
  <2>3. call'[t] = b /\ \A u \in Goroutine : u # t => call'[u] = call[u]
    BY <1>7 DEF Become, LlamaInv
  <2>4. OwnRowFresh(s)'
    BY <1>1, <1>2, <1>3, <2>1, <2>2, <2>3, SnapshotFresh DEF d
  <2>5. PICK i : i = c.i - 1
    OBVIOUS
  <2>6. Shared(s, i)' <=> Shared(s, i)
    BY <1>2, <1>3, <1>4, SameShares
  <2>7. call'[t].i - 1 = i
    BY <2>2, <2>3, <2>5
  <2>8. ~ srv[s].cfg.hangShutdown => Shared(s, i)
    BY <1>2, <1>3, <2>5 DEF ShareOK
  <2>9. ShareOK(s)'
    BY <1>2, <1>3, <2>2, <2>3, <2>4, <2>6, <2>7, <2>8 DEF ShareOK, Applying
  <2> QED
    BY <1>5, <2>3, <2>9
<1> QED
  BY <1>6, <1>7 DEF ApplySnapshot

\* The targets of a server are different GPUs.
LEMMA TargetsDiffer ==
    ASSUME DistinctTargets, LlamaInv, NEW s \in Server, NEW g \in GPU,
           NEW i \in DOMAIN Targets(s), NEW j \in DOMAIN Targets(s),
           Targets(s)[i] \in GpuNames[g], Targets(s)[j] \in GpuNames[g]
    PROVE  i = j
<1>1. PICK r \in Server : \E c \in Commands[r] : srv[s].cfg = ParseCommand(c).cfg
  BY TargetFields DEF Configs, LlamaInv
<1> QED
  BY <1>1 DEF DistinctTargets, Targets

\* A share that is stored is beside those of the targets before it.
LEMMA SharedNext ==
    ASSUME DistinctTargets, LlamaInv, NEW t \in Goroutine, NEW s, s = Pid(t),
           call[t].kind = "apply", call[t].step = "replace", OwnRowFresh(s),
           Shared(s, call[t].i - 1), UNCHANGED srv,
           ReplaceSucceeds(t, WithPID(call[t].before, s, Amount(s, call[t].i), LlamaUtil)),
           NEW m, m = call[t].i
    PROVE  Shared(s, m)'
<1> DEFINE c == call[t]
           desired == WithPID(c.before, s, Amount(s, c.i), LlamaUtil)
<1>1. PICK g : g = Target(t)
  OBVIOUS
<1>2. /\ ApplyOK(t) /\ c \in Call /\ SamePIDs(c.before) /\ Found(s, c.i)
      /\ DOMAIN Targets(s) = 1 .. Len(Targets(s)) /\ Len(Targets(s)) \in Nat
      /\ c.i \in 1 .. Len(Targets(s)) /\ c.before \in Device /\ s \in Server
  BY ApplyFacts DEF ApplyOK, Call
<1>3. /\ desired \in Rows /\ SamePIDs(desired) /\ OnlyRow(c.before, desired, s)
  BY <1>2, ApplyDesired, OnlyOwnRow
<1>4. g \in GPU /\ HasRow(s, g)' /\ dev'[g].mem[s] = Amount(s, c.i)
  <2>1. t = Main(s)
    BY <1>2, Goroutines DEF ApplyOK
  <2> QED
    BY <1>1, <1>2, <2>1, ShareStored, TargetFound
<1>5. \A h \in GPU : h # g => RowKept(s, h)
  <2>1. ReplaceSucceeds(t, desired)
    OBVIOUS
  <2> HIDE DEF desired
  <2> QED
    BY <1>1, <1>2, <1>3, <2>1, ReplaceRows
<1>6. /\ Targets(s)[c.i] \in GpuNames[g]
      /\ \A h \in GPU : Targets(s)[c.i] \in GpuNames[h] => h = g
  BY <1>1, <1>2, TargetFound
<1>7. Targets(s)' = Targets(s) /\ \A j : Amount(s, j)' = Amount(s, j)
  BY <1>2, SameConfig
<1> SUFFICES ASSUME NEW j \in DOMAIN Targets(s), NEW h \in GPU,
                    j <= m, Targets(s)[j] \in GpuNames[h]
             PROVE  HasRow(s, h)' /\ dev'[h].mem[s] = Amount(s, j)
  BY <1>7 DEF Shared
<1>8. CASE j = c.i
  BY <1>4, <1>6, <1>8
<1>9. CASE j # c.i
  <2>1. h # g
    BY <1>2, <1>6, <1>9, TargetsDiffer
  <2>2. j <= c.i - 1
    <3>1. j \in Nat /\ m \in Nat /\ j # m
      <4> HIDE DEF c
      <4>1. j \in 1 .. Len(Targets(s)) /\ c.i \in 1 .. Len(Targets(s)) /\ m = c.i
        BY <1>2 DEF c
      <4> QED
        BY <1>9, <4>1
    <3>2. j <= m - 1
      BY <3>1
    <3> QED
      BY <3>2
  <2>3. HasRow(s, h) /\ dev[h].mem[s] = Amount(s, j)
    BY <2>2 DEF Shared
  <2> QED
    BY <1>5, <2>1, <2>3 DEF RowKept, SameRow
<1> QED
  BY <1>8, <1>9

\* apply stores a share, or gives up.
LEMMA ApplyReplaceShares ==
    ASSUME DistinctTargets, LlamaInv, ShareInv, NEW t \in Goroutine, ApplyReplace(t)
    PROVE  ShareInv'
<1> DEFINE c == call[t]
           s == Pid(t)
           desired == WithPID(c.before, s, Amount(s, c.i), LlamaUtil)
           b == [c EXCEPT !.i = @ + 1, !.step = "snapshot", !.before = NoDevice,
                          !.applied = Append(@, Prior(c.before, s))]
<1>1. /\ c.kind = "apply" /\ c.step = "replace" /\ UNCHANGED srv
      /\ \/ /\ ReplaceSucceeds(t, desired)
            /\ IF c.i = Len(Targets(s)) THEN Done(t, "none") ELSE Become(t, b)
         \/ ReplaceFails(t, desired) /\ Abort(t, "error")
  BY DEF ApplyReplace
<1>2. /\ ApplyOK(t) /\ s \in Server /\ c \in Call /\ ShareOK(s) /\ SamePIDs(c.before)
      /\ srv[s].pc \in Applying /\ t = Main(s)
  BY <1>1, ApplyFacts, Goroutines DEF ApplyOK, ShareInv
<1>3. /\ c.i \in 1 .. Len(Targets(s)) /\ Found(s, c.i) /\ c.before \in Device
  BY <1>1, <1>2 DEF ApplyOK, Call
<1>4. /\ desired \in Rows /\ SamePIDs(desired) /\ OnlyRow(c.before, desired, s)
  BY <1>1, <1>2, <1>3, ApplyDesired, OnlyOwnRow
<1>5. \A q \in Server \ {s} : \A h \in GPU : RowKept(q, h)
  <2> HIDE DEF desired
  <2> QED
    BY <1>1, <1>3, <1>4, ReplaceRows
<1>6. PICK p, m : p = s /\ m = c.i
  OBVIOUS
<1>7. ASSUME \A u \in Goroutine : u # t => call'[u] = call[u], ShareOK(p)' PROVE ShareInv'
  BY <1>1, <1>2, <1>5, <1>6, <1>7, RegistryShares
<1>8. CASE Abort(t, "error")
  BY <1>1, <1>6, <1>7, <1>8, AbortFields, AbortShares
<1>9. ReplaceSucceeds(t, desired) /\ ~ srv[p].cfg.hangShutdown => Shared(p, m)'
  BY <1>1, <1>2, <1>6, SharedNext DEF ShareOK
<1>10. Targets(p)' = Targets(p) /\ srv'[p] = srv[p]
  BY <1>1, <1>2, <1>6, SameConfig
<1>11. CASE ReplaceSucceeds(t, desired) /\ c.i = Len(Targets(s)) /\ Done(t, "none")
  <2>1. /\ \A u \in Goroutine : u # t => call'[u] = call[u]
        /\ call'[t].kind = "none" /\ call'[t].step = "done" /\ call'[t].error = "none"
    BY <1>11 DEF Done, Become, NoCall, LlamaInv
  <2>2. Len(Targets(p))' = m
    BY <1>6, <1>10, <1>11
  <2>3. ShareOK(p)'
    BY <1>2, <1>6, <1>9, <1>10, <1>11, <2>1, <2>2 DEF ShareOK, Applying
  <2> QED
    BY <1>7, <2>1, <2>3
<1>12. CASE ReplaceSucceeds(t, desired) /\ Become(t, b)
  <2> DEFINE k == c.i + 1
             more == Append(c.applied, Prior(c.before, s))
  <2>1. /\ \A u \in Goroutine : u # t => call'[u] = call[u]
        /\ call'[t].kind = "apply" /\ call'[t].step = "snapshot" /\ call'[t].i = k
    <3>1. b = [c EXCEPT !.i = k, !.step = "snapshot", !.before = NoDevice, !.applied = more]
      OBVIOUS
    <3> HIDE DEF b, k, more
    <3>2. b.kind = "apply" /\ b.step = "snapshot" /\ b.i = k
      BY <1>1, <1>2, <3>1 DEF Call
    <3> QED
      BY <1>12, <3>2 DEF Become, LlamaInv
  <2>2. call'[t].i - 1 = m
    BY <1>3, <1>6, <2>1
  <2>3. ShareOK(p)'
    BY <1>2, <1>6, <1>9, <1>10, <1>12, <2>1, <2>2 DEF ShareOK, Applying
  <2> QED
    BY <1>7, <2>1, <2>3
<1> QED
  BY <1>1, <1>8, <1>11, <1>12

\* The rollback.
LEMMA RollbackShares ==
    ASSUME LlamaInv, ShareInv, NEW t \in Goroutine, RollbackSnapshot(t) \/ RollbackReplace(t)
    PROVE  ShareInv'
<1> DEFINE c == call[t]
           b == [c EXCEPT !.before = Observed(dev[Target(t)]), !.step = "replace"]
<1>1. PICK s : s = Pid(t)
  OBVIOUS
<1>2. /\ c.kind = "rollback" /\ UNCHANGED srv
      /\ \/ UNCHANGED dev /\ Become(t, b)
         \/ UNCHANGED dev /\ RollbackNext(t)
         \/ /\ ReplaceSucceeds(t, Restored(t)) \/ ReplaceFails(t, Restored(t))
            /\ RollbackNext(t)
  BY DEF RollbackSnapshot, RollbackReplace, Restored
<1>3. /\ RollbackOK(t) /\ s \in Server /\ c \in Call /\ srv[s].pc \in Applying /\ t = Main(s)
      /\ SamePIDs(c.before) /\ Found(s, c.i) /\ c.error # "none" /\ c.before \in Device
  BY <1>1, <1>2, RollbackFacts, Goroutines DEF RollbackOK, Call
<1>4. \A q \in Server \ {s} : \A h \in GPU : RowKept(q, h)
  <2>1. CASE UNCHANGED dev
    BY <2>1, QuietRows
  <2>2. CASE ReplaceSucceeds(t, Restored(t)) \/ ReplaceFails(t, Restored(t))
    <3>1. Restored(t) \in Rows /\ SamePIDs(Restored(t)) /\ OnlyRow(c.before, Restored(t), s)
      BY <1>1, <1>2, <1>3, RollbackDesired, OnlyOwnRow DEF Restored
    <3> QED
      BY <1>1, <1>3, <2>2, <3>1, ReplaceRows
  <2> QED
    BY <1>2, <2>1, <2>2
<1>5. /\ \A u \in Goroutine : u # t => call'[u] = call[u]
      /\ call'[t].kind # "apply" /\ (call'[t].step = "done" => call'[t].error # "none")
  <2>1. CASE RollbackNext(t)
    BY <1>2, <1>3, <2>1, RollbackNextFields
  <2>2. CASE Become(t, b)
    <3>1. PICK d : d = Observed(dev[Target(t)])
      OBVIOUS
    <3>2. b.kind = "rollback" /\ b.step = "replace"
      BY <1>2, <1>3, <3>1 DEF Call
    <3> HIDE DEF b
    <3> QED
      BY <2>2, <3>2 DEF Become, LlamaInv
  <2> QED
    BY <1>2, <2>1, <2>2
<1>6. ShareOK(s)'
  BY <1>2, <1>3, <1>5, FailingShares
<1> QED
  BY <1>1, <1>2, <1>3, <1>4, <1>5, <1>6, RegistryShares

\* While a server without hang-shutdown releases, nothing is said of its shares.
LEMMA ReleasingShares ==
    ASSUME LlamaInv, ShareInv, NEW t \in Goroutine, WantsRelease(t), NEW s, s = Pid(t),
           srv'[s].pc = srv[s].pc, srv'[s].cfg = srv[s].cfg,
           \A r \in Server \ {s} : srv'[r] = srv[r],
           \A u \in Goroutine : u # t => call'[u] = call[u],
           \A q \in Server \ {s} : \A h \in GPU : RowKept(q, h)
    PROVE  ShareInv'
<1>1. s \in Server /\ ProcessOK(s)
  BY Goroutines, ProcessFacts
<1>2. ~ srv[s].cfg.hangShutdown => srv[s].pc = "release"
  BY <1>1 DEF WantsRelease, ProcessOK
<1>3. ShareOK(s)'
  BY <1>2 DEF ShareOK, Applying
<1> QED
  BY <1>1, <1>3, RegistryShares

\* The steps of a release.
LEMMA ReleaseShares ==
    ASSUME LlamaInv, ShareInv, NEW t \in Goroutine,
           BeginRelease(t) \/ ReleaseSnapshot(t) \/ ReleaseReplace(t) \/ EndRelease(t)
    PROVE  ShareInv'
<1>1. PICK s : s = Pid(t)
  OBVIOUS
<1>2. /\ s \in Server /\ srv \in [Server -> Process] /\ srv[s] \in Process
      /\ call[t].kind = "release" => WantsRelease(t)
  BY <1>1, Goroutines, ProcessFacts, ReleaseFacts DEF ReleaseOK
<1>3. ASSUME UNCHANGED dev, WantsRelease(t), NEW x, NEW y,
             \/ UNCHANGED srv
             \/ srv' = [srv EXCEPT ![s].ready = x, ![s].releaseMu = y]
             \/ srv' = [srv EXCEPT ![s].registered = x, ![s].releaseMu = y],
             \A u \in Goroutine : u # t => call'[u] = call[u]
      PROVE  ShareInv'
  <2>1. CASE UNCHANGED srv
    BY <1>1, <1>3, <2>1, QuietRows, ReleasingShares
  <2>2. CASE srv' = [srv EXCEPT ![s].ready = x, ![s].releaseMu = y]
    <3>1. GoesTo(s, srv[s].pc)
      BY <1>2, <2>2 DEF GoesTo, Process
    <3> QED
      BY <1>1, <1>3, <3>1, QuietRows, ReleasingShares DEF GoesTo
  <2>3. CASE srv' = [srv EXCEPT ![s].registered = x, ![s].releaseMu = y]
    <3>1. GoesTo(s, srv[s].pc)
      BY <1>2, <2>3 DEF GoesTo, Process
    <3> QED
      BY <1>1, <1>3, <3>1, QuietRows, ReleasingShares DEF GoesTo
  <2> QED
    BY <1>3, <2>1, <2>2, <2>3
<1>4. CASE BeginRelease(t)
  <2>1. \E c : Become(t, c)
    BY <1>4 DEF BeginRelease, Done
  <2>2. \A u \in Goroutine : u # t => call'[u] = call[u]
    BY <2>1 DEF Become, LlamaInv
  <2> QED
    <3>1. /\ UNCHANGED dev /\ WantsRelease(t)
          /\ \/ UNCHANGED srv
             \/ srv' = [srv EXCEPT ![s].ready = FALSE, ![s].releaseMu = t[2]]
      BY <1>1, <1>4 DEF BeginRelease
    <3>2. PICK y : y = t[2]
      OBVIOUS
    <3> QED
      BY <1>3, <2>2, <3>1, <3>2
<1>5. CASE ReleaseSnapshot(t)
  <2>1. call[t].kind = "release" /\ UNCHANGED <<dev, srv>> /\ \E c : Become(t, c)
    BY <1>5 DEF ReleaseSnapshot, ReleaseNext
  <2>2. \A u \in Goroutine : u # t => call'[u] = call[u]
    BY <2>1 DEF Become, LlamaInv
  <2> QED
    BY <1>2, <1>3, <2>1, <2>2
<1>6. CASE ReleaseReplace(t)
  <2> DEFINE c == call[t]
             desired == WithoutPID(c.before, s)
  <2>1. /\ c.kind = "release" /\ c.step = "replace" /\ UNCHANGED srv
        /\ ReplaceSucceeds(t, desired) \/ ReplaceFails(t, desired)
        /\ \E e : ReleaseNext(t, e)
    BY <1>1, <1>6 DEF ReleaseReplace
  <2>2. s \in PID /\ c \in Call /\ Found(s, c.i) /\ SamePIDs(c.before)
    BY <1>1, <2>1, ReleaseFacts, Goroutines
  <2>3. c.before \in Device
    BY <2>2 DEF Call
  <2>4. desired \in Rows /\ SamePIDs(desired) /\ OnlyRow(c.before, desired, s)
    BY <2>2, <2>3, WithoutPIDRows, OnlyOwnRow
  <2> HIDE DEF desired
  <2>5. \A q \in Server \ {s} : \A h \in GPU : RowKept(q, h)
    BY <1>1, <2>1, <2>2, <2>4, ReplaceRows
  <2>6. \A u \in Goroutine : u # t => call'[u] = call[u]
    BY <2>1, ReleaseNextFields
  <2> QED
    BY <1>1, <1>2, <2>1, <2>5, <2>6, ReleasingShares
<1>7. CASE EndRelease(t)
  <2>1. /\ call[t].kind = "release" /\ UNCHANGED dev /\ \E c : Become(t, c)
        /\ \E x : srv' = [srv EXCEPT ![s].registered = x, ![s].releaseMu = "none"]
    BY <1>1, <1>7 DEF EndRelease, EndsRelease, Done
  <2>2. \A u \in Goroutine : u # t => call'[u] = call[u]
    BY <2>1 DEF Become, LlamaInv
  <2> QED
    BY <1>2, <1>3, <2>1, <2>2
<1> QED
  BY <1>4, <1>5, <1>6, <1>7

\* No server has shares to answer for at the start.
LEMMA ShareInit ==
    ASSUME Init PROVE ShareInv
<1> SUFFICES ASSUME NEW s \in Server PROVE ShareOK(s)
  BY DEF ShareInv
<1>1. srv[s].pc = "main"
  BY DEF Init, ParseCommand, Launched
<1> QED
  BY <1>1 DEF ShareOK, Applying

\* Every step keeps the invariant of the shares.
LEMMA ShareNext ==
    ASSUME DistinctTargets, LlamaInv, ShareInv, [Next]_vars PROVE ShareInv'
<1>1. ASSUME NEW t \in Goroutine, Registry(t) PROVE ShareInv'
  BY <1>1, ApplySnapshotShares, ApplyReplaceShares, RollbackShares, ReleaseShares DEF Registry
<1>2. ASSUME NEW s \in Server, Proceed(s) PROVE ShareInv'
  BY <1>2, ParseShares, StartShares, RegisteredShares, LoadShares, ResizedShares,
     ClosingShares DEF Proceed
<1>3. ASSUME NEW s \in Server,
             \/ WaitForRegisterGate(s) \/ Grow(s) \/ Crash(s)
             \/ ServeFails(s) \/ ReleaseDeadline(s) \/ Sigterm(s) \/ HandleSignals(s)
             \/ BeginStream(s) \/ EndStream(s)
      PROVE  ShareInv'
  BY <1>3, GateShares, GrowShares, ClosingShares, AsideShares DEF HandleSignals
<1>4. ASSUME UNCHANGED <<dev, srv, call>> PROVE ShareInv'
  BY <1>4, OthersShares, QuietRows DEF ShareInv
<1>5. CASE \E g \in GPU : Lose(g) \/ Recover(g)
  BY <1>4, <1>5 DEF Lose, Recover
<1>6. CASE UNCHANGED vars
  BY <1>4, <1>6 DEF vars
<1> QED
  BY <1>1, <1>2, <1>3, <1>5, <1>6 DEF Next

\* Where every target has its share and no other GPU has a row, the rows add up.
LEMMA SharesAddUp ==
    ASSUME DistinctTargets, IsFiniteSet(GPU), LlamaInv, NEW s \in Server, Sized(s),
           Targets(s) # <<>>, AllFound(s), Shared(s, Len(Targets(s))),
           RowsWithin(s, 1, Len(Targets(s)))
    PROVE  SumFunctionOnSet([g \in GPU |-> IF HasRow(s, g) THEN dev[g].mem[s] ELSE 0], GPU)
             = RoundUp(Bytes(s))
<1> DEFINE n == Len(Targets(s))
           S == 1 .. n
           m == SplitProcessMiB(Bytes(s), srv[s].cfg)
           r == [g \in GPU |-> IF HasRow(s, g) THEN dev[g].mem[s] ELSE 0]
           at == [i \in S |-> CHOOSE g \in GPU : Targets(s)[i] \in GpuNames[g]]
           R == {at[i] : i \in S}
<1>1. /\ WellFormed(srv[s].cfg) /\ n \in Nat /\ DOMAIN Targets(s) = S
      /\ Bytes(s) \in Nat
  BY TargetFields, SizedBytes DEF LlamaInv
<1>2. \A i \in S : at[i] \in GPU /\ Targets(s)[i] \in GpuNames[at[i]]
  BY <1>1 DEF AllFound, Found
<1>3. \A i \in S : m[i] \in Nat
  BY <1>1, SplitNat DEF Targets
<1>4. \A i \in S : HasRow(s, at[i]) /\ dev[at[i]].mem[s] = m[i]
  <2> SUFFICES ASSUME NEW i \in S PROVE HasRow(s, at[i]) /\ dev[at[i]].mem[s] = m[i]
    OBVIOUS
  <2>1. at[i] \in GPU /\ Targets(s)[i] \in GpuNames[at[i]] /\ i <= n
    BY <1>1, <1>2
  <2> HIDE DEF at, m
  <2> QED
    BY <1>1, <2>1 DEF Shared, Amount, m
<1>5. \A i, j \in S : at[i] = at[j] => i = j
  <2> SUFFICES ASSUME NEW i \in S, NEW j \in S, at[i] = at[j] PROVE i = j
    OBVIOUS
  <2>1. PICK g : g = at[i]
    OBVIOUS
  <2>2. g \in GPU /\ Targets(s)[i] \in GpuNames[g] /\ Targets(s)[j] \in GpuNames[g]
    BY <1>2, <2>1
  <2> QED
    BY <1>1, <2>2, TargetsDiffer
<1>6. \A g \in GPU : HasRow(s, g) => g \in R
  <2> SUFFICES ASSUME NEW g \in GPU, HasRow(s, g) PROVE g \in R
    OBVIOUS
  <2>1. PICK i \in S : Targets(s)[i] \in GpuNames[g]
    BY <1>1 DEF RowsWithin, Among
  <2>2. at[i] = g
    BY <1>2, <2>1, TargetUnique
  <2> QED
    BY <2>2
<1>7. at \in [S -> GPU] /\ R \subseteq GPU
  BY <1>2
<1>8. IsFiniteSet(S)
  BY <1>1, FS_Interval
<1> HIDE DEF at, m
<1>9. /\ \A i \in S : m[i] \in Int /\ r[at[i]] = m[i]
      /\ \A g \in GPU \ R : r[g] = 0
  BY <1>2, <1>3, <1>4, <1>6
<1>10. \A g \in GPU : r[g] \in Int
  <2> SUFFICES ASSUME NEW g \in GPU PROVE r[g] \in Int
    OBVIOUS
  <2>1. CASE g \in R
    <3>1. PICK i \in S : g = at[i]
      BY <2>1
    <3> QED
      BY <1>9, <3>1
  <2>2. CASE g \notin R
    BY <1>9, <2>2
  <2> QED
    BY <2>1, <2>2
<1> HIDE DEF r, S
<1>11. SumFunctionOnSet(r, R) = SumFunctionOnSet(m, S)
  BY <1>5, <1>7, <1>8, <1>9, SumImage
<1> HIDE DEF R
<1>12. SumFunctionOnSet(r, GPU) = SumFunctionOnSet(r, R)
  BY <1>7, <1>9, <1>10, SumWhere
<1>13. SumFunctionOnSet(m, S) = RoundUp(Bytes(s))
  BY <1>1, SplitSum DEF m, S, Targets
<1> QED
  BY <1>11, <1>12, <1>13 DEF r

\* A server that says it is ready owns what it needs, to the MiB: over its GPUs
\* the rows add up to its bytes, rounded up once, after Register as after a
\* growth, while other servers register, grow, roll back and release on the same
\* GPUs. Its targets are different GPUs: one that is named twice is given only
\* its last share (splitProcessMiB and apply, registry.go).
THEOREM ReadyServersAreBacked ==
    ASSUME FreshPIDs, DistinctTargets, IsFiniteSet(GPU) PROVE Spec => []ReadyIsBacked
<1>1. Init => LlamaInv /\ RowsInv /\ ShareInv
  BY LlamaInit, RowsInit, ShareInit
<1>2. LlamaInv /\ RowsInv /\ ShareInv /\ [Next]_vars => (LlamaInv /\ RowsInv /\ ShareInv)'
  BY LlamaNext, RowsNext, ShareNext
<1>3. LlamaInv /\ RowsInv /\ ShareInv => ReadyIsBacked
  <2> SUFFICES ASSUME LlamaInv, RowsInv, ShareInv, NEW s \in Server,
                      ~ srv[s].cfg.hangShutdown, srv[s].pc = "serving"
               PROVE  SumFunctionOnSet(
                        [g \in GPU |-> IF HasRow(s, g) THEN dev[g].mem[s] ELSE 0], GPU)
                        = RoundUp(Bytes(s))
    BY DEF ReadyIsBacked, At
  <2>1. ProcessOK(s) /\ ServingRows(s) /\ RowsWithin(s, 1, Len(Targets(s))) /\ ShareOK(s)
    BY ProcessFacts DEF RowsInv, RowsOK, ShareInv
  <2>2. /\ Sized(s) /\ Targets(s) # <<>> /\ AllFound(s)
        /\ Shared(s, Len(Targets(s)))
    BY <2>1 DEF ProcessOK, ServingRows, ShareOK
  <2> QED
    BY <2>1, <2>2, SharesAddUp
<1> QED
  BY <1>1, <1>2, <1>3, PTL DEF Spec
=============================================================================
