----------------------------- MODULE MCFakeLlama -----------------------------
(***************************************************************************)
(* Small instances of FakeLlama: two GPUs of four MiB, one of them         *)
(* reserved, two bytes to the MiB, and commands over a few words.          *)
(***************************************************************************)
EXTENDS FakeLlama

CONSTANTS g1, g2, s1, s2

\* One MiB is in use by the system.
MCConfig ==
    [g \in GPU |-> [total |-> 4, reserved |-> 1, used |-> 1,
                    mem |-> NoProcs, util |-> NoProcs]]

MCNumber == [w \in { ToString(n) : n \in 0 .. 9 } |-> CHOOSE n \in 0 .. 9 : ToString(n) = w]

\* Whole bytes, "2.5B", which rounds to three, and a size that is no uint64.
MCSize ==
    [w \in DOMAIN MCNumber |-> [num |-> MCNumber[w], den |-> 1]]
    @@ "2.5B" :> [num |-> 5, den |-> 2]
    @@ "32EiB" :> [num |-> MaxU64 + 1, den |-> 1]

MCDuration == "0s" :> 0 @@ "1s" :> 1

MCDeviceIndex == MCNumber @@ "CUDA0" :> 0 @@ "CUDA1" :> 1

MCFileSize == <<"m.gguf">> :> 3

MCGpuNames == g1 :> {"0", "GPU-a"} @@ g2 :> {"1", "GPU-b"}

NoEnv == [v \in {} |-> <<>>]

\* --name value, and --name=value.
Spaced(name, value) == <<Arg(2, <<name>>), Arg(0, value)>>

Inline(name, value) == <<ArgInline(2, <<name>>, value)>>

Model == Spaced("model", <<"m.gguf">>)

Crashes == Inline("fake-crash-after-ready", <<"1s">>)

Loads == Inline("fake-load-delay", <<"1s">>)

Grows == Inline("fake-vram-growth", <<"3">>)

GrowsLater == Inline("fake-vram-growth-after", <<"1s">>)

\* Two servers in opposite orders, so that they can block each other half way.
\* Five bytes, three MiB: s1 has one on its first GPU, two on its last.  s2 needs
\* three bytes, one MiB on each.
Crossed ==
       s1 :> { [items |-> <<Model, Crashes, Loads, Grows, GrowsLater,
                            Inline("fake-gpus", <<"0", "GPU-b">>),
                            Inline("fake-vram", <<"5">>)>>,
                env |-> NoEnv] }
    @@ s2 :> { [items |-> <<Model, Crashes, Loads, Grows, GrowsLater,
                            Inline("device", <<"CUDA1", "CUDA0">>)>>,
                env |-> NoEnv] }

\* The items of a command line: every way to choose GPUs, a switch with and
\* without a value, two ignored options, one option without its value and a
\* probe.  No two sources select the same GPUs, so that none can stand in for
\* another; one tensor split selects none.
Items ==
    { Model, Inline("fake-vram-growth", <<"1">>),
      Spaced("fake-gpus", <<"0", "1">>), <<ArgInline(1, <<"fake-gpus">>, <<"2">>)>>,
      Inline("device", <<"CUDA1", "1">>), Spaced("main-gpu", <<"GPU-a">>),
      Spaced("tensor-split", <<"0", "2", "1">>), Inline("tensor-split", <<"0", "0">>),
      Inline("fake-vram", <<"2.5B">>), Inline("fake-vram", <<"32EiB">>),
      <<Arg(2, <<"fake-hang-shutdown">>)>>, Inline("fake-hang-shutdown", <<"false">>),
      Spaced("threads", <<"1">>), <<Arg(2, <<"mlock">>)>>,
      <<Arg(1, <<"c">>)>>, <<Arg(1, <<"h">>)>> }

Environments ==
    { NoEnv,
      "FAKE_LLAMA_GPUS" :> <<"GPU-b">>,
      "CUDA_VISIBLE_DEVICES" :> <<"3">>,
      "CUDA_VISIBLE_DEVICES" :> <<"-1">> @@ "FAKE_LLAMA_VRAM" :> <<"5">>,
      "FAKE_LLAMA_GPUS" :> <<"GPU-b">> @@ "CUDA_VISIBLE_DEVICES" :> <<"3">>
         @@ "FAKE_LLAMA_HANG_SHUTDOWN" :> <<"true">>
         @@ "FAKE_LLAMA_VRAM_GROWTH_AFTER" :> <<"1s">> }

AllCommands ==
    [s \in Server |->
        [items : UNION { [1 .. n -> Items] : n \in 0 .. 3 }, env : Environments]]
=============================================================================
