----------------------------- MODULE LlamaConfig -----------------------------
(***************************************************************************)
(* The command line and the environment of fake-llama-server, as operators *)
(* (cmd/fake-llama-server/main.go, internal/fakellama/config.go): which    *)
(* GPUs a server uses, with which weights, how many bytes it needs, and    *)
(* which failures it injects.                                              *)
(*                                                                         *)
(* A text is the sequence of its comma-separated words: <<"0", "1">> is    *)
(* "0,1".  What a word means to a parser of the standard library is a      *)
(* constant; no text is taken apart further.                               *)
(***************************************************************************)
EXTENDS GpuState, SequencesExt

CONSTANTS
    Number,         \* the words Atoi and ParseFloat accept, with their value
    Size,           \* the words ParseBytes accepts: a fraction num/den of bytes
    Duration,       \* the words ParseDuration accepts
    DeviceIndex,    \* the words normalizeManagerDevices accepts: "1", "CUDA1"
    FileSize        \* the model files: text of the path to bytes

Truth == "true" :> TRUE @@ "false" :> FALSE

\* An argument: its dashes, what follows them up to "=", and what follows that.
Arg(dashes, key) == [dashes |-> dashes, key |-> key, hasInline |-> FALSE, inline |-> <<>>]

ArgInline(dashes, key, value) ==
    [dashes |-> dashes, key |-> key, hasInline |-> TRUE, inline |-> value]

\* The argument read as a value: one with dashes or "=" is a word that no parser
\* accepts, and so is a list where one word is wanted.
Raw(arg) == IF arg.dashes = 0 /\ ~ arg.hasInline THEN arg.key ELSE <<"--">>

Word(text) == IF Len(text) = 1 THEN text[1] ELSE "--"

-----------------------------------------------------------------------------
(* main.go: the probes, and the manager's --device. *)

\* handleInfoRequest answers without starting anything, wherever the argument
\* stands.
IsInfoRequest(args) ==
    \E i \in DOMAIN args :
        /\ ~ args[i].hasInline
        /\ \/ args[i].dashes = 2 /\ args[i].key \in {<<"version">>, <<"help">>}
           \/ args[i].dashes = 1 /\ args[i].key \in {<<"version">>, <<"help">>, <<"h">>}

HasFakeGPUOverride(args) ==
    \E i \in DOMAIN args : args[i].dashes = 2 /\ args[i].key = <<"fake-gpus">>

\* The last --device, with its value, and whether one is still awaited.
ScanDevice(st, arg) ==
    CASE st.awaits -> [found |-> TRUE, awaits |-> FALSE, text |-> Raw(arg)]
      [] ~ st.awaits /\ arg.dashes = 2 /\ arg.key = <<"device">> ->
            [found |-> arg.hasInline \/ st.found, awaits |-> ~ arg.hasInline,
             text |-> IF arg.hasInline THEN arg.inline ELSE st.text]
      [] OTHER -> st

DeviceOption(args) ==
    FoldLeft(ScanDevice, [found |-> FALSE, awaits |-> FALSE, text |-> <<>>], args)

CanNormalize(text) == text # <<>> /\ \A i \in DOMAIN text : text[i] \in DOMAIN DeviceIndex

\* normalizeManagerDevices: indices without repetition, the first one kept.
NormalizeManagerDevices(text) ==
    LET index(i) == DeviceIndex[text[i]]
        first == SelectSeq([i \in DOMAIN text |-> i],
                           LAMBDA i : \A j \in 1 .. i - 1 : index(j) # index(i))
    IN  [k \in DOMAIN first |-> ToString(index(first[k]))]

\* Mutant of UsesDevice: --device also where there are explicit targets.
UsesDeviceAlways(args, env) == TRUE

UsesDevice(args, env) ==
    "FAKE_LLAMA_GPUS" \notin DOMAIN env /\ ~ HasFakeGPUOverride(args)

\* withManagerDeviceTargets: the arguments are rejected, or --device is
\* appended as --fake-gpus unless there are explicit targets.
BadDevice(args, env) ==
    LET d == DeviceOption(args)
    IN  UsesDevice(args, env) /\ (d.awaits \/ (d.found /\ ~ CanNormalize(d.text)))

WithManagerDeviceTargets(args, env) ==
    LET d == DeviceOption(args)
    IN  IF UsesDevice(args, env) /\ d.found
          THEN Append(args, ArgInline(2, <<"fake-gpus">>, NormalizeManagerDevices(d.text)))
          ELSE args

-----------------------------------------------------------------------------
(* config.go: ParseConfig. *)

\* No explicit VRAM.
NoSize == -1

DefaultConfig ==
    [host |-> <<"127.0.0.1">>, port |-> 8080, model |-> <<>>, response |-> <<"deterministic">>,
     targets |-> <<>>, mainGPU |-> <<>>, tensorSplit |-> <<>>, ctxSize |-> 0,
     vram |-> NoSize, kvBytesPerToken |-> 0, growth |-> 0,
     loadDelay |-> 0, crashAfterReady |-> 0, growthAfter |-> 0, tokenDelay |-> 0,
     smUtil |-> 35, memoryUtil |-> 20,
     startupFail |-> FALSE, forceOOM |-> FALSE, hangShutdown |-> FALSE]

\* The options with a value, the switches, and the environment variables.
Option ==
       "model" :> "model" @@ "m" :> "model" @@ "host" :> "host" @@ "port" :> "port"
    @@ "ctx-size" :> "ctxSize" @@ "c" :> "ctxSize" @@ "main-gpu" :> "mainGPU"
    @@ "tensor-split" :> "tensorSplit" @@ "fake-gpus" :> "targets" @@ "fake-vram" :> "vram"
    @@ "fake-kv-bytes-per-token" :> "kvBytesPerToken" @@ "fake-load-delay" :> "loadDelay"
    @@ "fake-crash-after-ready" :> "crashAfterReady"
    @@ "fake-vram-growth-after" :> "growthAfter" @@ "fake-vram-growth" :> "growth"
    @@ "fake-token-delay" :> "tokenDelay" @@ "fake-response" :> "response"
    @@ "fake-sm-util" :> "smUtil" @@ "fake-memory-util" :> "memoryUtil"

Switch ==
       "fake-startup-fail" :> "startupFail" @@ "fake-cuda-oom" :> "forceOOM"
    @@ "fake-hang-shutdown" :> "hangShutdown"

Variable ==
       "FAKE_LLAMA_HOST" :> "host" @@ "FAKE_LLAMA_PORT" :> "port"
    @@ "FAKE_LLAMA_RESPONSE" :> "response" @@ "FAKE_LLAMA_GPUS" :> "targets"
    @@ "FAKE_LLAMA_VRAM" :> "vram" @@ "FAKE_LLAMA_KV_BYTES_PER_TOKEN" :> "kvBytesPerToken"
    @@ "FAKE_LLAMA_LOAD_DELAY" :> "loadDelay" @@ "FAKE_LLAMA_TOKEN_DELAY" :> "tokenDelay"
    @@ "FAKE_LLAMA_CRASH_AFTER_READY" :> "crashAfterReady"
    @@ "FAKE_LLAMA_VRAM_GROWTH_AFTER" :> "growthAfter" @@ "FAKE_LLAMA_VRAM_GROWTH" :> "growth"
    @@ "FAKE_LLAMA_STARTUP_FAIL" :> "startupFail" @@ "FAKE_LLAMA_CUDA_OOM" :> "forceOOM"
    @@ "FAKE_LLAMA_HANG_SHUTDOWN" :> "hangShutdown"
    @@ "FAKE_LLAMA_SM_UTIL" :> "smUtil" @@ "FAKE_LLAMA_MEMORY_UTIL" :> "memoryUtil"

\* ParseBytes rounds a fraction of bytes to the nearest byte, half up.
ParseBytes(word) ==
    LET n == Size[word].num
        d == Size[word].den
    IN  n \div d + IF 2 * (n % d) >= d THEN 1 ELSE 0

\* The fields that are read alike: durations, and sizes.
Delays == {"loadDelay", "crashAfterReady", "growthAfter", "tokenDelay"}

Amounts == {"vram", "kvBytesPerToken", "growth"}

\* The largest value of a port and of a percentage; Atoi itself has no limit.
Limit == [port |-> 65535, smUtil |-> 100, memoryUtil |-> 100, ctxSize |-> MaxU64]

IsWordOf(text, words) == Len(text) = 1 /\ text[1] \in words

\* Whether the parser of a field accepts a text, and what it makes of it.
Accepts(field, text) ==
    CASE field \in Delays -> IsWordOf(text, DOMAIN Duration)
      [] field \in Amounts -> IsWordOf(text, DOMAIN Size) /\ ParseBytes(text[1]) <= MaxU64
      [] field \in DOMAIN Limit ->
            IsWordOf(text, DOMAIN Number) /\ Number[text[1]] <= Limit[field]
      [] field = "tensorSplit" ->
            text # <<>> /\ \A i \in DOMAIN text : text[i] \in DOMAIN Number
      [] field \in Range(Switch) -> IsWordOf(text, DOMAIN Truth)
      [] OTHER -> TRUE

Read(field, text) ==
    CASE field \in Delays -> Duration[text[1]]
      [] field \in Amounts -> ParseBytes(text[1])
      [] field \in DOMAIN Limit -> Number[text[1]]
      [] field = "tensorSplit" -> [i \in DOMAIN text |-> Number[text[i]]]
      [] field \in Range(Switch) -> Truth[text[1]]
      [] OTHER -> text

\* The state of the loop: the fields so far, whether --fake-gpus was among
\* them, the field whose value comes next, and whether an error was met.
Assign(st, field, text) ==
    IF Accepts(field, text)
      THEN [st EXCEPT !.fields[field] = Read(field, text), !.awaits = "none",
                      !.explicit = @ \/ field = "targets"]
      ELSE [st EXCEPT !.error = TRUE]

\* One argument.  Its key counts whatever its dashes; an unknown one is skipped.
ParseArg(st, arg) ==
    CASE st.error -> st
      [] ~ st.error /\ st.awaits # "none" -> Assign(st, st.awaits, Raw(arg))
      [] ~ st.error /\ st.awaits = "none" /\ IsWordOf(arg.key, DOMAIN Option) ->
            IF arg.hasInline THEN Assign(st, Option[arg.key[1]], arg.inline)
                             ELSE [st EXCEPT !.awaits = Option[arg.key[1]]]
      [] ~ st.error /\ st.awaits = "none" /\ IsWordOf(arg.key, DOMAIN Switch) ->
            Assign(st, Switch[arg.key[1]], IF arg.hasInline THEN arg.inline ELSE <<"true">>)
      [] OTHER -> st

\* The environment comes first: FAKE_LLAMA_GPUS before CUDA_VISIBLE_DEVICES.
VisibleDevices(env) ==
    IF "CUDA_VISIBLE_DEVICES" \in DOMAIN env
       /\ env["CUDA_VISIBLE_DEVICES"] \notin {<<"-1">>, <<"NoDevFiles">>}
      THEN env["CUDA_VISIBLE_DEVICES"] ELSE <<>>

\* Mutant of FromEnv: CUDA_VISIBLE_DEVICES before FAKE_LLAMA_GPUS.
FromEnvVisibleFirst(env) ==
    LET given(f) == { v \in DOMAIN Variable \cap DOMAIN env : Variable[v] = f }
        fields == [f \in DOMAIN DefaultConfig |->
                      IF f = "targets" /\ VisibleDevices(env) # <<>> THEN VisibleDevices(env)
                      ELSE IF given(f) = {} THEN DefaultConfig[f]
                      ELSE Read(f, env[CHOOSE v \in given(f) : TRUE])]
        bad == \E v \in DOMAIN Variable \cap DOMAIN env : ~ Accepts(Variable[v], env[v])
    IN  [fields |-> IF bad THEN DefaultConfig ELSE fields,
         explicit |-> ~ bad /\ fields.targets # <<>>, awaits |-> "none", error |-> bad]

FromEnv(env) ==
    LET given(f) == { v \in DOMAIN Variable \cap DOMAIN env : Variable[v] = f }
        fields == [f \in DOMAIN DefaultConfig |->
                      IF given(f) = {}
                        THEN IF f = "targets" THEN VisibleDevices(env) ELSE DefaultConfig[f]
                        ELSE Read(f, env[CHOOSE v \in given(f) : TRUE])]
        bad == \E v \in DOMAIN Variable \cap DOMAIN env : ~ Accepts(Variable[v], env[v])
    IN  [fields |-> IF bad THEN DefaultConfig ELSE fields,
         explicit |-> ~ bad /\ fields.targets # <<>>, awaits |-> "none", error |-> bad]

\* Mutant of DefaultTargets: --main-gpu before --tensor-split.
MainGPUFirst(fields) ==
    LET positive == SelectSeq([i \in DOMAIN fields.tensorSplit |-> i],
                              LAMBDA i : fields.tensorSplit[i] > 0)
    IN  IF fields.mainGPU # <<>> THEN <<Word(fields.mainGPU)>>
        ELSE IF fields.tensorSplit # <<>>
          THEN [k \in DOMAIN positive |-> ToString(positive[k] - 1)] ELSE <<"0">>

\* Without explicit targets: the GPUs with a positive weight, the main GPU, or
\* GPU 0.
DefaultTargets(fields) ==
    LET positive == SelectSeq([i \in DOMAIN fields.tensorSplit |-> i],
                              LAMBDA i : fields.tensorSplit[i] > 0)
    IN  IF fields.tensorSplit # <<>>
          THEN [k \in DOMAIN positive |-> ToString(positive[k] - 1)]
        ELSE IF fields.mainGPU # <<>> THEN <<Word(fields.mainGPU)>> ELSE <<"0">>

\* The types of the fields of Config that sizes and targets are computed from.
WellFormed(cfg) ==
    /\ cfg.targets \in Seq(STRING)
    /\ cfg.tensorSplit \in Seq(Int)
    /\ cfg.vram \in Nat \cup {NoSize}
    /\ cfg.ctxSize \in Nat /\ cfg.kvBytesPerToken \in Nat /\ cfg.growth \in Nat
    /\ cfg.hangShutdown \in BOOLEAN

\* A configuration, or the reason there is none.
Failed == [ok |-> FALSE, cfg |-> DefaultConfig]

ParseConfig(args, env) ==
    LET st == FoldLeft(ParseArg, FromEnv(env), args)
        targets == IF st.explicit THEN st.fields.targets ELSE DefaultTargets(st.fields)
    IN  IF st.error \/ st.awaits # "none" \/ st.fields.host = <<>>
           \/ st.fields.model = <<>> \/ targets = <<>>
          THEN Failed
          ELSE [ok |-> TRUE, cfg |-> [st.fields EXCEPT !.targets = targets]]

\* The part of main before the registry: exit status 2, or a configuration.
Configure(args, env) ==
    IF BadDevice(args, env) THEN Failed
                            ELSE ParseConfig(WithManagerDeviceTargets(args, env), env)

-----------------------------------------------------------------------------
(* What a configuration asks of the GPUs. *)

\* RequiredVRAMBytes: explicit VRAM or the model file's size, and the KV cache.
\* It fails without a file, and when the product or the sum is no uint64.
KVBytes(cfg) == cfg.ctxSize * cfg.kvBytesPerToken

BaseBytes(cfg) == IF cfg.vram # NoSize THEN cfg.vram ELSE FileSize[cfg.model]

CanRequire(cfg) ==
    /\ cfg.vram # NoSize \/ cfg.model \in DOMAIN FileSize
    /\ KVBytes(cfg) <= MaxU64
    /\ BaseBytes(cfg) <= MaxU64 - KVBytes(cfg)

RequiredVRAMBytes(cfg) == BaseBytes(cfg) + KVBytes(cfg)

\* The weight of a target: its tensor-split entry if that is positive.
Weight(cfg, target) ==
    IF target \in DOMAIN Number /\ Number[target] + 1 \in DOMAIN cfg.tensorSplit
       /\ cfg.tensorSplit[Number[target] + 1] > 0
      THEN cfg.tensorSplit[Number[target] + 1] ELSE 1

RoundUp(bytes) == (bytes + MiB - 1) \div MiB

\* Mutant of SplitProcessMiB: every share is rounded down.
SplitRoundsDown(bytes, cfg) ==
    LET n == Len(cfg.targets)
        weight(i) == Weight(cfg, cfg.targets[i])
        sum == SumFunctionOnSet([i \in 1 .. n |-> weight(i)], 1 .. n)
    IN  [i \in 1 .. n |-> (RoundUp(bytes) * weight(i)) \div sum]

\* splitProcessMiB: whole MiB by weight, rounded down; the last target gets
\* what is left.
SplitProcessMiB(bytes, cfg) ==
    LET n == Len(cfg.targets)
        weights == [i \in 1 .. n |-> Weight(cfg, cfg.targets[i])]
        sum == SumFunctionOnSet(weights, 1 .. n)
        total == RoundUp(bytes)
        shares == [i \in 1 .. n - 1 |-> (total * weights[i]) \div sum]
    IN  [i \in 1 .. n |-> IF i < n THEN shares[i]
                           ELSE total - SumFunctionOnSet(shares, 1 .. n - 1)]

-----------------------------------------------------------------------------
(* What FAKE_LLAMA_SERVER.md says of the options, on the command as its     *)
(* author wrote it: a sequence of items, each an option with its value.     *)

ItemName(item) == Word(item[1].key)

ItemValue(item) ==
    CASE item[1].hasInline -> item[1].inline
      [] ~ item[1].hasInline /\ Len(item) = 2 -> Raw(item[2])
      [] OTHER -> <<"true">>

HasValue(item) == Len(item) = IF item[1].hasInline THEN 1 ELSE 2

\* The value of the last item of that name.
LastValue(items, names, default) ==
    LET given == { i \in DOMAIN items : ItemName(items[i]) \in names }
    IN  IF given = {} THEN default ELSE ItemValue(items[Max(given)])

EnvValue(env, v, default) == IF v \in DOMAIN env THEN env[v] ELSE default

\* An item is complete when its option has a value that can be read, and an
\* ignored one does not bring the name of another option along.
IsComplete(item) ==
    LET name == ItemName(item)
    IN  CASE name \in DOMAIN Option ->
                 HasValue(item) /\ Accepts(Option[name], ItemValue(item))
          [] name = "device" ->
                 /\ item[1].dashes = 2
                 /\ HasValue(item) /\ CanNormalize(ItemValue(item))
          [] name \in DOMAIN Switch -> Len(item) = 1 /\ Accepts(Switch[name], ItemValue(item))
          [] OTHER -> \A i \in 2 .. Len(item) :
                 Word(item[i].key) \notin DOMAIN Option \cup DOMAIN Switch \cup {"device"}

\* "GPU targets are selected in this order" (FAKE_LLAMA_SERVER.md:88-94): the
\* first source that is given decides, whatever it selects.  The list does not
\* name --device, which gives way to the explicit targets ("never overwritten by
\* this translation", main.go:140) and stands for --fake-gpus otherwise.
DocumentedTargets(items, env) ==
    LET device == LastValue(items, {"device"}, <<>>)
        split == LastValue(items, {"tensor-split"}, <<>>)
        main == LastValue(items, {"main-gpu"}, <<>>)
        gives(name) == \E i \in DOMAIN items : ItemName(items[i]) = name
        sources ==
            << [given |-> gives("fake-gpus"),
                gpus |-> LastValue(items, {"fake-gpus"}, <<>>)],
               [given |-> "FAKE_LLAMA_GPUS" \in DOMAIN env,
                gpus |-> EnvValue(env, "FAKE_LLAMA_GPUS", <<>>)],
               [given |-> gives("device"), gpus |-> NormalizeManagerDevices(device)],
               [given |-> VisibleDevices(env) # <<>>, gpus |-> VisibleDevices(env)],
               [given |-> gives("tensor-split"),
                gpus |-> SelectSeq([i \in DOMAIN split |-> ToString(i - 1)],
                                   LAMBDA w : Number[split[Number[w] + 1]] > 0)],
               [given |-> main # <<>>, gpus |-> main],
               [given |-> TRUE, gpus |-> <<"0">>] >>
    IN  sources[Min({ i \in DOMAIN sources : sources[i].given })].gpus

\* Where the code departs from main.go:140: -fake-gpus with one dash is an option
\* to ParseConfig but no override to hasFakeGPUOverride, so that --device, which
\* is appended, has the last word.
LosesToDevice(items, env) ==
    /\ "FAKE_LLAMA_GPUS" \notin DOMAIN env
    /\ \E i \in DOMAIN items : ItemName(items[i]) = "device"
    /\ \A i \in DOMAIN items :
          ItemName(items[i]) = "fake-gpus" => items[i][1].dashes # 2

\* The GPUs of a command: the document's, but for that departure.
ExpectedTargets(items, env) ==
    IF LosesToDevice(items, env)
      THEN NormalizeManagerDevices(LastValue(items, {"device"}, <<>>))
      ELSE DocumentedTargets(items, env)

\* Every other field: the last option, else the variable, else the default.
DocumentedField(items, env, f) ==
    LET names == { n \in DOMAIN Option : Option[n] = f }
                   \cup { n \in DOMAIN Switch : Switch[n] = f }
        given == \E i \in DOMAIN items : ItemName(items[i]) \in names
        vars == { v \in DOMAIN Variable \cap DOMAIN env : Variable[v] = f }
    IN  CASE given -> Read(f, LastValue(items, names, <<>>))
          [] ~ given /\ vars # {} -> Read(f, env[CHOOSE v \in vars : TRUE])
          [] OTHER -> DefaultConfig[f]

\* A command of complete items with a model and at least one GPU yields what
\* the document says, any other one nothing; what is not an option of
\* fake-llama-server makes no difference.  A tensor split without a positive
\* entry selects no GPU, and --main-gpu does not step in for it.
AsDocumented(items, env) ==
    LET result == Configure(FlattenSeq(items), env)
        targets == ExpectedTargets(items, env)
    IN  (\A i \in DOMAIN items : IsComplete(items[i])) =>
            /\ result.ok <=> DocumentedField(items, env, "model") # <<>> /\ targets # <<>>
            /\ result.ok =>
                  /\ result.cfg.targets = targets
                  /\ \A f \in DOMAIN DefaultConfig \ {"targets"} :
                        result.cfg[f] = DocumentedField(items, env, f)
=============================================================================
