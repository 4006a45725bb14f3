-------------------------- MODULE CudaEngineProofs --------------------------
(***************************************************************************)
(* Proofs about CudaEngine, for any programs, threads, devices and faults. *)
(*                                                                         *)
(* EngineInv is about the engines and the calls that wait for them: the    *)
(* mutex belongs to one thread, and a token that is not yet or no longer   *)
(* tracked belongs to one thread, whichever others try to free it.         *)
(* DeviceInv says that no command breaks a device.  ChargeInv adds the     *)
(* balance of bytes between them, which needs requests of whole MiB, since *)
(* the engine's manager sees a device through nvidia-smi.                  *)
(***************************************************************************)
EXTENDS CudaEngine, GpuStateProofs, SumProofs

-----------------------------------------------------------------------------
(* The engine of one program and the call of one thread. *)

\* What an engine tracks: the size of an allocation and its GPU.
Allocation == [size : Sizes, gpu : GPU]

\* The allocations of an engine, by token.
Allocs == UNION { [D -> Allocation] : D \in SUBSET Token }

\* The engine of a program.
Engine ==
    [ok : BOOLEAN, mu : Thread \cup {None}, current : GPU, allocs : Allocs,
     successes : Nat, live : SUBSET Token, lastError : BOOLEAN]

\* The call of a thread.
Call ==
    [pc : {"idle", "allocLock", "alloc", "reserve", "freeLock", "free",
           "freeToken", "resetLock", "reset", "setLock", "infoLock"},
     api : Api, token : Token \cup {None}, size : Sizes \cup {0}, gpu : GPU]

\* Where a thread holds the mutex.
Inside == {"alloc", "reserve", "free", "reset"}

\* Where a thread owns its token, which is not yet or no longer tracked.
Untracked == {"allocLock", "alloc", "reserve", "freeToken"}

\* Where a thread brings the size of an allocation.
Allocating == {"allocLock", "alloc", "reserve"}

\* An engine tracks only tokens that are allocated on the host, and keeps the
\* OOM policy.
EngineOK(e) ==
    /\ e \in Engine
    /\ DOMAIN e.allocs \subseteq e.live
    /\ OOMAfter >= 0 => e.successes <= OOMAfter

\* The call c of thread t goes with the engine e of its program.
CallOK(t, e, c) ==
    /\ c \in Call
    /\ c.pc \in Inside => e.mu = t
    /\ c.pc \in Untracked => /\ c.token \in e.live
                             /\ c.token \notin DOMAIN e.allocs
    /\ c.pc \in Allocating => c.size \in Sizes
    /\ c.pc = "reserve" /\ OOMAfter >= 0 => e.successes < OOMAfter

\* No two threads of a program own the same token.
TokensDistinct ==
    \A t, u \in Thread :
        /\ t # u /\ Owner[t] = Owner[u]
        /\ thr[t].pc \in Untracked /\ thr[u].pc \in Untracked
        => thr[t].token # thr[u].token

\* The engines and the calls go together.
EngineInv ==
    /\ eng \in [Program -> Engine]
    /\ thr \in [Thread -> Call]
    /\ \A p \in Program : EngineOK(eng[p])
    /\ \A t \in Thread : CallOK(t, E(t), thr[t])
    /\ TokensDistinct

-----------------------------------------------------------------------------
(* Records. *)

\* What programs ask for is a number of bytes.
LEMMA SizesAreBytes == Sizes \subseteq U64 /\ Sizes \subseteq Nat \ {0}
BY EngineAssumption, UnitAssumption DEF U64

\* So is what others ask for.
LEMMA OthersAreBytes ==
    ASSUME NEW g \in GPU
    PROVE  Others[g] \subseteq U64 /\ Others[g] \subseteq Nat
BY EngineAssumption, UnitAssumption DEF U64

\* What the allocations of an engine are.
LEMMA AllocsElim ==
    ASSUME NEW a \in Allocs
    PROVE  /\ DOMAIN a \subseteq Token
           /\ a = [k \in DOMAIN a |-> a[k]]
           /\ \A k \in DOMAIN a : /\ a[k] \in Allocation
                                  /\ a[k].size \in Sizes /\ a[k].gpu \in GPU
                                  /\ a[k].size \in Nat
<1>1. PICK D \in SUBSET Token : a \in [D -> Allocation]
  BY DEF Allocs
<1>2. DOMAIN a = D /\ \A k \in D : a[k] \in Allocation
  BY <1>1
<1>3. \A x \in Allocation : x.size \in Sizes /\ x.gpu \in GPU /\ x.size \in Nat
  BY SizesAreBytes DEF Allocation
<1> QED
  BY <1>1, <1>2, <1>3

\* A function from tokens to allocations is one.
LEMMA AllocsIntro ==
    ASSUME NEW D \in SUBSET Token, NEW a \in [D -> Allocation]
    PROVE  a \in Allocs
BY DEF Allocs

\* A thread that calls nothing.
LEMMA IdleCall == Idle \in Call /\ Idle.pc = "idle"
BY EngineAssumption DEF Idle, Call, Api

\* An engine begins with no allocations.
LEMMA NewEngineOK ==
    ASSUME NEW ok \in BOOLEAN
    PROVE  EngineOK(NewEngine(ok)) /\ NewEngine(ok) \in Engine
<1>1. NoProcs \in [{} -> Allocation] /\ DOMAIN NoProcs = {}
  BY DEF NoProcs
<1>2. NoProcs \in Allocs
  BY <1>1, AllocsIntro
<1> QED
  BY <1>1, <1>2, EngineAssumption DEF EngineOK, NewEngine, Engine

\* What a returning call leaves of the engine.
LEMMA ReturnedEngine ==
    ASSUME NEW t \in Thread, NEW e \in Engine, NEW api, NEW status
    PROVE  LET r == WithError(Unlocked(e, t), api, status)
           IN  /\ r \in Engine
               /\ r.allocs = e.allocs /\ r.live = e.live
               /\ r.successes = e.successes /\ r.current = e.current
               /\ r.ok = e.ok
               /\ e.mu # t => r.mu = e.mu
BY DEF WithError, Unlocked, Engine

-----------------------------------------------------------------------------

\* What a step of thread t may do to the engine of its program, from e to e1,
\* so that the calls of the other threads still go with it: only an owner
\* returns a token to the host or begins to track it.
Considerate(t, e, e1) ==
    /\ e1.mu = e.mu \/ e.mu \in {t, None}
    /\ \A k \in e.live \ e1.live : thr[t].pc \in Untracked /\ k = thr[t].token
    /\ \A k \in DOMAIN e1.allocs \ DOMAIN e.allocs :
          thr[t].pc \in Untracked /\ k = thr[t].token
    /\ e1.successes = e.successes \/ e.mu = t

\* A considerate step leaves the other threads' calls proper.
LEMMA OthersUndisturbed ==
    ASSUME NEW t \in Thread, NEW u \in Thread, NEW e, NEW e1, NEW c,
           u # t, CallOK(u, e, c), Considerate(t, e, e1),
           c.pc \in Untracked /\ thr[t].pc \in Untracked => c.token # thr[t].token
    PROVE  CallOK(u, e1, c)
<1>1. c.pc \in Inside => e1.mu = u
  BY EngineAssumption DEF CallOK, Considerate
<1>2. c.pc \in Untracked => c.token \in e1.live /\ c.token \notin DOMAIN e1.allocs
  BY DEF CallOK, Considerate
<1>3. c.pc = "reserve" /\ OOMAfter >= 0 => e1.successes < OOMAfter
  BY DEF CallOK, Considerate, Inside
<1> QED
  BY <1>1, <1>2, <1>3 DEF CallOK

\* A step of one thread keeps the invariant when it leaves a proper engine and
\* a proper call, is considerate, and becomes the owner only of a token that no
\* other thread owns.
LEMMA ThreadStep ==
    ASSUME EngineInv, NEW t \in Thread, NEW e1, NEW c1,
           eng' = [eng EXCEPT ![Owner[t]] = e1],
           thr' = [thr EXCEPT ![t] = c1],
           EngineOK(e1), CallOK(t, e1, c1), Considerate(t, E(t), e1),
           \/ c1.pc \notin Untracked
           \/ thr[t].pc \in Untracked /\ c1.token = thr[t].token
           \/ \A u \in Thread \ {t} :
                 Owner[u] = Owner[t] /\ thr[u].pc \in Untracked
                   => thr[u].token # c1.token
    PROVE  EngineInv'
<1>1. Owner[t] \in Program /\ \A u \in Thread : Owner[u] \in Program
  BY EngineAssumption
<1>2. eng' \in [Program -> Engine] /\ thr' \in [Thread -> Call]
  BY <1>1 DEF EngineInv, EngineOK, CallOK
<1>3. ASSUME NEW p \in Program PROVE EngineOK(eng'[p])
  BY DEF EngineInv
<1>4. ASSUME NEW u \in Thread PROVE CallOK(u, eng'[Owner[u]], thr'[u])
  <2>1. CASE u = t
    BY <2>1, <1>1 DEF EngineInv
  <2>2. CASE u # t /\ Owner[u] # Owner[t]
    BY <2>2, <1>1 DEF EngineInv, E
  <2>3. CASE u # t /\ Owner[u] = Owner[t]
    <3>1. thr'[u] = thr[u] /\ eng'[Owner[u]] = e1 /\ E(u) = E(t)
      BY <2>3, <1>1 DEF EngineInv, E
    <3>2. thr[u].pc \in Untracked /\ thr[t].pc \in Untracked
            => thr[u].token # thr[t].token
      BY <2>3 DEF EngineInv, TokensDistinct
    <3>3. CallOK(u, E(t), thr[u])
      BY <3>1 DEF EngineInv
    <3> QED
      BY <3>1, <3>2, <3>3, <2>3, OthersUndisturbed
  <2> QED
    BY <2>1, <2>2, <2>3
<1>5. TokensDistinct'
  <2> SUFFICES ASSUME NEW a \in Thread, NEW b \in Thread, a # b,
                      Owner[a] = Owner[b],
                      thr'[a].pc \in Untracked, thr'[b].pc \in Untracked
               PROVE  thr'[a].token # thr'[b].token
    BY DEF TokensDistinct
  <2>1. thr'[a] = IF a = t THEN c1 ELSE thr[a]
    BY DEF EngineInv
  <2>2. thr'[b] = IF b = t THEN c1 ELSE thr[b]
    BY DEF EngineInv
  <2> QED
    BY <2>1, <2>2 DEF EngineInv, TokensDistinct
<1> QED
  BY <1>2, <1>3, <1>4, <1>5 DEF EngineInv, E

\* A step with which the call returns.
LEMMA ReturnStep ==
    ASSUME EngineInv, NEW t \in Thread, NEW e, NEW status,
           ReturnWith(t, e, status),
           EngineOK(e), Considerate(t, E(t), e), e.mu = E(t).mu
    PROVE  EngineInv'
<1> DEFINE r == WithError(Unlocked(e, t), thr[t].api, status)
<1>1. e \in Engine
  BY DEF EngineOK
<1>2. /\ r \in Engine /\ r.allocs = e.allocs /\ r.live = e.live
      /\ r.successes = e.successes /\ (e.mu # t => r.mu = e.mu)
  BY <1>1, ReturnedEngine
<1>3. eng' = [eng EXCEPT ![Owner[t]] = r] /\ thr' = [thr EXCEPT ![t] = Idle]
  BY DEF ReturnWith
<1> HIDE DEF r
<1>4. EngineOK(r)
  BY <1>2 DEF EngineOK
<1>5. CallOK(t, r, Idle)
  BY IdleCall DEF CallOK, Inside, Untracked, Allocating
<1>6. Considerate(t, E(t), r)
  BY <1>2 DEF Considerate
<1>7. Idle.pc \notin Untracked
  BY IdleCall DEF Untracked
<1> QED
  BY <1>3, <1>4, <1>5, <1>6, <1>7, ThreadStep

\* What the invariant says of a thread and of its engine.
LEMMA OfThread ==
    ASSUME EngineInv, NEW t \in Thread
    PROVE  /\ Owner[t] \in Program
           /\ E(t) \in Engine /\ EngineOK(E(t))
           /\ thr[t] \in Call /\ CallOK(t, E(t), thr[t])
           /\ t # None
BY EngineAssumption DEF EngineInv, E

\* An engine as it was, perhaps without the thread's own token on the host.
LEMMA SameEngine ==
    ASSUME EngineInv, NEW t \in Thread
    PROVE  EngineOK(E(t)) /\ Considerate(t, E(t), E(t))
BY OfThread DEF Considerate

\* The engine after a thread has given its own token back.
LEMMA TokenGone ==
    ASSUME EngineInv, NEW t \in Thread, thr[t].pc \in Untracked
    PROVE  LET e == [E(t) EXCEPT !.live = @ \ {thr[t].token}]
           IN  EngineOK(e) /\ Considerate(t, E(t), e) /\ e.mu = E(t).mu
<1> DEFINE e == [E(t) EXCEPT !.live = @ \ {thr[t].token}]
<1>1. /\ E(t) \in Engine /\ EngineOK(E(t)) /\ CallOK(t, E(t), thr[t])
  BY OfThread
<1>2. /\ e \in Engine /\ e.allocs = E(t).allocs /\ e.mu = E(t).mu
      /\ e.live = E(t).live \ {thr[t].token} /\ e.successes = E(t).successes
  BY <1>1 DEF Engine
<1> HIDE DEF e
<1>3. EngineOK(e)
  BY <1>1, <1>2 DEF EngineOK, CallOK
<1>4. Considerate(t, E(t), e)
  BY <1>2 DEF Considerate
<1> QED
  BY <1>2, <1>3, <1>4 DEF e

\* A call that returns and changes nothing.
LEMMA SameReturn ==
    ASSUME EngineInv, NEW t \in Thread, NEW status, Return(t, status)
    PROVE  EngineInv'
BY SameEngine, ReturnStep DEF Return

\* A call that returns after it has given its token back.
LEMMA FailReturn ==
    ASSUME EngineInv, NEW t \in Thread, NEW status, thr[t].pc \in Untracked,
           ReturnWith(t, [E(t) EXCEPT !.live = @ \ {thr[t].token}], status)
    PROVE  EngineInv'
BY TokenGone, ReturnStep

\* A step within a call that changes no engine.
LEMMA GotoStep ==
    ASSUME EngineInv, NEW t \in Thread, NEW where, Goto(t, where),
           UNCHANGED eng, CallOK(t, E(t), [thr[t] EXCEPT !.pc = where]),
           where \in Untracked => thr[t].pc \in Untracked
    PROVE  EngineInv'
<1> DEFINE c == [thr[t] EXCEPT !.pc = where]
<1>1. thr[t] \in Call /\ Owner[t] \in Program /\ eng \in [Program -> Engine]
  BY OfThread DEF EngineInv
<1>2. thr' = [thr EXCEPT ![t] = c] /\ c.token = thr[t].token /\ c.pc = where
  BY <1>1 DEF Goto, Call
<1>3. eng' = [eng EXCEPT ![Owner[t]] = E(t)]
  BY <1>1 DEF E
<1> HIDE DEF c
<1> QED
  BY <1>2, <1>3, SameEngine, ThreadStep DEF c

\* A thread takes the mutex.
LEMMA LockStep ==
    ASSUME EngineInv, NEW t \in Thread,
           \/ Lock(t, "allocLock", "alloc")
           \/ Lock(t, "freeLock", "free")
           \/ Lock(t, "resetLock", "reset")
    PROVE  EngineInv'
<1>1. PICK to \in {"alloc", "free", "reset"} :
        /\ thr[t].pc = "allocLock" <=> to = "alloc"
        /\ thr[t].pc \notin Inside
        /\ E(t).mu = None
        /\ eng' = [eng EXCEPT ![Owner[t]].mu = t]
        /\ Goto(t, to)
  BY DEF Lock, At, Inside
<1> DEFINE e == [E(t) EXCEPT !.mu = t]
           c == [thr[t] EXCEPT !.pc = to]
<1>2. /\ Owner[t] \in Program /\ E(t) \in Engine /\ EngineOK(E(t))
      /\ thr[t] \in Call /\ CallOK(t, E(t), thr[t])
      /\ eng \in [Program -> Engine]
  BY OfThread DEF EngineInv
<1>3. /\ e \in Engine /\ e.allocs = E(t).allocs /\ e.mu = t
      /\ e.live = E(t).live /\ e.successes = E(t).successes
  BY <1>2 DEF Engine
<1>4. c \in Call /\ c.token = thr[t].token /\ c.size = thr[t].size /\ c.pc = to
  BY <1>2 DEF Call
<1>5. eng' = [eng EXCEPT ![Owner[t]] = e] /\ thr' = [thr EXCEPT ![t] = c]
  BY <1>1 DEF Goto, E
<1> HIDE DEF e, c
<1>6. EngineOK(e) /\ CallOK(t, e, c)
  BY <1>1, <1>2, <1>3, <1>4
     DEF EngineOK, CallOK, Inside, Untracked, Allocating
<1>7. Considerate(t, E(t), e)
  BY <1>1, <1>3 DEF Considerate
<1>8. c.pc \in Untracked => thr[t].pc \in Untracked
  BY <1>1, <1>4 DEF Untracked
<1> QED
  BY <1>4, <1>5, <1>6, <1>7, <1>8, ThreadStep

\* A step that only sets or clears the last error.
LEMMA ErrorStep ==
    ASSUME EngineInv, NEW t \in Thread, NEW b \in BOOLEAN, UNCHANGED thr,
           eng' = [eng EXCEPT ![Owner[t]] = [E(t) EXCEPT !.lastError = b]]
    PROVE  EngineInv'
<1> DEFINE e == [E(t) EXCEPT !.lastError = b]
<1>1. /\ E(t) \in Engine /\ EngineOK(E(t)) /\ CallOK(t, E(t), thr[t])
      /\ thr \in [Thread -> Call]
  BY OfThread DEF EngineInv
<1>2. /\ e \in Engine /\ e.allocs = E(t).allocs /\ e.mu = E(t).mu
      /\ e.live = E(t).live /\ e.successes = E(t).successes
  BY <1>1 DEF Engine
<1>3. thr' = [thr EXCEPT ![t] = thr[t]]
  BY <1>1
<1> HIDE DEF e
<1>4. EngineOK(e) /\ CallOK(t, e, thr[t])
  BY <1>1, <1>2 DEF EngineOK, CallOK
<1>5. Considerate(t, E(t), e)
  BY <1>2 DEF Considerate
<1> QED
  BY <1>3, <1>4, <1>5, ThreadStep DEF e

\* Malloc makes a token that nobody else has.
LEMMA MallocStep ==
    ASSUME EngineInv, NEW t \in Thread, Malloc(t)
    PROVE  EngineInv'
<1>1. PICK api \in Apis[t], n \in Sizes :
          \/ \E k \in Token \ E(t).live :
                /\ thr' = [thr EXCEPT ![t] =
                      [Idle EXCEPT !.pc = "allocLock", !.api = api,
                                   !.token = k, !.size = n]]
                /\ eng' = [eng EXCEPT ![Owner[t]].live = @ \cup {k}]
          \/ /\ eng' = [eng EXCEPT ![Owner[t]] = WithError(@, api, "oom")]
             /\ UNCHANGED thr
  BY DEF Malloc
<1>2. /\ Owner[t] \in Program /\ E(t) \in Engine /\ EngineOK(E(t))
      /\ thr[t] \in Call /\ CallOK(t, E(t), thr[t])
      /\ eng \in [Program -> Engine] /\ api \in Api
  BY OfThread, EngineAssumption DEF EngineInv
<1>3. ASSUME NEW k \in Token \ E(t).live,
             thr' = [thr EXCEPT ![t] =
                      [Idle EXCEPT !.pc = "allocLock", !.api = api,
                                   !.token = k, !.size = n]],
             eng' = [eng EXCEPT ![Owner[t]].live = @ \cup {k}]
      PROVE  EngineInv'
  <2> DEFINE e == [E(t) EXCEPT !.live = @ \cup {k}]
             c == [Idle EXCEPT !.pc = "allocLock", !.api = api,
                               !.token = k, !.size = n]
  <2>1. eng' = [eng EXCEPT ![Owner[t]] = e] /\ thr' = [thr EXCEPT ![t] = c]
    BY <1>3 DEF E
  <2>2. /\ e \in Engine /\ e.allocs = E(t).allocs /\ e.mu = E(t).mu
        /\ e.live = E(t).live \cup {k} /\ e.successes = E(t).successes
    BY <1>2 DEF Engine
  <2>3. c \in Call /\ c.token = k /\ c.size = n /\ c.pc = "allocLock" /\ k # None
    BY <1>2, EngineAssumption DEF Call, Idle
  <2> HIDE DEF e, c
  <2>4. EngineOK(e) /\ CallOK(t, e, c)
    BY <1>2, <2>2, <2>3
       DEF EngineOK, CallOK, Inside, Untracked, Allocating
  <2>5. Considerate(t, E(t), e)
    BY <2>2 DEF Considerate
  <2>6. \A u \in Thread \ {t} :
          Owner[u] = Owner[t] /\ thr[u].pc \in Untracked => thr[u].token # k
    <3> SUFFICES ASSUME NEW u \in Thread, Owner[u] = Owner[t],
                        thr[u].pc \in Untracked, thr[u].token = k
                 PROVE  FALSE
      OBVIOUS
    <3>1. k \in E(u).live
      BY OfThread DEF CallOK
    <3> QED
      BY <3>1 DEF E
  <2> QED
    BY <2>1, <2>3, <2>4, <2>5, <2>6, ThreadStep
<1>4. ASSUME eng' = [eng EXCEPT ![Owner[t]] = WithError(@, api, "oom")],
             UNCHANGED thr
      PROVE  EngineInv'
  <2>1. PICK b \in BOOLEAN : WithError(E(t), api, "oom") = [E(t) EXCEPT !.lastError = b]
    <3>1. E(t) = [E(t) EXCEPT !.lastError = E(t).lastError] /\ E(t).lastError \in BOOLEAN
      BY <1>2 DEF Engine
    <3> QED
      BY <3>1 DEF WithError
  <2>2. eng' = [eng EXCEPT ![Owner[t]] = [E(t) EXCEPT !.lastError = b]]
    BY <1>2, <1>4, <2>1 DEF E
  <2> QED
    BY <1>4, <2>2, ErrorStep
<1> QED
  BY <1>1, <1>3, <1>4

\* The OOM policy is asked under the mutex.
LEMMA AllocCheckStep ==
    ASSUME EngineInv, NEW t \in Thread, AllocCheck(t)
    PROVE  EngineInv'
<1>1. thr[t].pc = "alloc"
  BY DEF AllocCheck, At
<1>2. thr[t].pc \in Untracked
  BY <1>1 DEF Untracked
<1>3. ASSUME NEW status, MallocFails(t, status) PROVE EngineInv'
  BY <1>2, <1>3, FailReturn DEF MallocFails
<1>4. ASSUME ~ ShouldInjectOOM(E(t)), Goto(t, "reserve"), UNCHANGED eng
      PROVE  EngineInv'
  <2> DEFINE c == [thr[t] EXCEPT !.pc = "reserve"]
  <2>1. /\ E(t) \in Engine /\ EngineOK(E(t))
        /\ thr[t] \in Call /\ CallOK(t, E(t), thr[t])
    BY OfThread
  <2>2. c \in Call /\ c.token = thr[t].token /\ c.size = thr[t].size /\ c.pc = "reserve"
    BY <2>1 DEF Call
  <2>3. OOMAfter >= 0 => E(t).successes < OOMAfter
    <3>1. E(t).successes \in Nat /\ OOMAfter \in Int
      BY <2>1, EngineAssumption DEF Engine
    <3> QED
      BY <3>1, <1>4 DEF ShouldInjectOOM
  <2> HIDE DEF c
  <2>4. CallOK(t, E(t), c)
    BY <2>1, <2>2, <2>3, <1>1 DEF CallOK, Inside, Untracked, Allocating
  <2> QED
    BY <2>4, <1>2, <1>4, GotoStep DEF c
<1> QED
  BY <1>3, <1>4 DEF AllocCheck

\* The allocations with one more.
LEMMA AllocsAdd ==
    ASSUME NEW a \in Allocs, NEW k \in Token, NEW n \in Sizes, NEW g \in GPU
    PROVE  LET b == [j \in DOMAIN a \cup {k} |->
                       IF j = k THEN [size |-> n, gpu |-> g] ELSE a[j]]
           IN  b \in Allocs /\ DOMAIN b = DOMAIN a \cup {k}
<1> DEFINE x == [size |-> n, gpu |-> g]
           b == [j \in DOMAIN a \cup {k} |-> IF j = k THEN x ELSE a[j]]
<1>1. DOMAIN a \subseteq Token /\ \A j \in DOMAIN a : a[j] \in Allocation
  BY AllocsElim
<1>2. x \in Allocation
  BY DEF Allocation
<1> HIDE DEF x
<1>3. b \in [DOMAIN a \cup {k} -> Allocation] /\ DOMAIN a \cup {k} \in SUBSET Token
  BY <1>1, <1>2
<1> HIDE DEF b
<1>4. b \in Allocs
  BY <1>3, AllocsIntro
<1> QED
  BY <1>4 DEF b, x

\* The allocations without some of them.
LEMMA AllocsWithout ==
    ASSUME NEW a \in Allocs, NEW K
    PROVE  Without(a, K) \in Allocs /\ DOMAIN Without(a, K) = DOMAIN a \ K
<1>1. DOMAIN a \subseteq Token /\ \A j \in DOMAIN a : a[j] \in Allocation
  BY AllocsElim
<1>2. Without(a, K) \in [DOMAIN a \ K -> Allocation]
  BY <1>1 DEF Without
<1> QED
  BY <1>1, <1>2, AllocsIntro DEF Without

\* The allocations after a successful ReserveMemory of thread t.
Grown(t) ==
    [j \in DOMAIN E(t).allocs \cup {thr[t].token} |->
        IF j = thr[t].token
            THEN [size |-> thr[t].size, gpu |-> E(t).current]
            ELSE E(t).allocs[j]]

\* The outcomes of AllocReserve: it tracks, or it fails.
LEMMA AllocReserveCases ==
    ASSUME NEW t \in Thread, AllocReserve(t)
    PROVE  /\ thr[t].pc = "reserve"
           /\ \/ /\ CanReserve(Observed(dev[E(t).current]), thr[t].size)
                 /\ dev' = [dev EXCEPT ![E(t).current] =
                              Reserve(Observed(dev[E(t).current]), thr[t].size)]
                 /\ ReturnWith(t, [E(t) EXCEPT !.allocs = Grown(t),
                                               !.successes = @ + 1], "success")
                 /\ UNCHANGED trouble
              \/ MallocFails(t, "oom") /\ UNCHANGED trouble
              \/ Refused /\ MallocFails(t, "unknown")
              \/ /\ AnswerLost(E(t).current, thr[t].size)
                 /\ CanReserve(Observed(dev[E(t).current]), thr[t].size)
                 /\ dev' = [dev EXCEPT ![E(t).current] =
                              Reserve(Observed(dev[E(t).current]), thr[t].size)]
                 /\ ReturnWith(t, [E(t) EXCEPT !.live = @ \ {thr[t].token}],
                               "unknown")
BY DEF AllocReserve, Grown, At

\* Alloc tracks the token, or fails and gives it back.
LEMMA AllocReserveStep ==
    ASSUME EngineInv, NEW t \in Thread, AllocReserve(t)
    PROVE  EngineInv'
<1>1. thr[t].pc = "reserve"
  BY DEF AllocReserve, At
<1>2. thr[t].pc \in Untracked
  BY <1>1 DEF Untracked
<1>3. ASSUME NEW status, MallocFails(t, status) PROVE EngineInv'
  BY <1>2, <1>3, FailReturn DEF MallocFails
<1>4. ASSUME ReturnWith(t, [E(t) EXCEPT !.live = @ \ {thr[t].token}], "unknown")
      PROVE  EngineInv'
  BY <1>2, <1>4, FailReturn
<1>5. ASSUME ReturnWith(t, [E(t) EXCEPT !.allocs = Grown(t),
                                        !.successes = @ + 1], "success")
      PROVE  EngineInv'
  <2> DEFINE e == [E(t) EXCEPT !.allocs = Grown(t), !.successes = @ + 1]
  <2>1. /\ E(t) \in Engine /\ EngineOK(E(t))
        /\ thr[t] \in Call /\ CallOK(t, E(t), thr[t])
    BY OfThread
  <2>2. /\ thr[t].size \in Sizes /\ thr[t].token \in Token
        /\ thr[t].token \in E(t).live /\ E(t).mu = t
        /\ OOMAfter >= 0 => E(t).successes < OOMAfter
    <3>1. E(t).live \subseteq Token
      BY <2>1 DEF Engine
    <3> QED
      BY <1>1, <2>1, <3>1 DEF CallOK, Inside, Untracked, Allocating
  <2>3. /\ E(t).allocs \in Allocs /\ E(t).current \in GPU
        /\ E(t).successes \in Nat
    BY <2>1 DEF Engine
  <2>4. Grown(t) \in Allocs /\ DOMAIN Grown(t) = DOMAIN E(t).allocs \cup {thr[t].token}
    BY <2>2, <2>3, AllocsAdd DEF Grown
  <2>5. /\ e \in Engine /\ e.allocs = Grown(t) /\ e.mu = E(t).mu
        /\ e.live = E(t).live /\ e.successes = E(t).successes + 1
    <3> DEFINE n == E(t).successes + 1
    <3>1. n \in Nat
      BY <2>3
    <3>2. e = [E(t) EXCEPT !.allocs = Grown(t), !.successes = n]
      BY <2>1 DEF Engine
    <3> HIDE DEF n, e
    <3>3. /\ e \in Engine /\ e.allocs = Grown(t) /\ e.mu = E(t).mu
          /\ e.live = E(t).live /\ e.successes = n
      BY <3>1, <3>2, <2>1, <2>4 DEF Engine
    <3> QED
      BY <3>3 DEF n
  <2> HIDE DEF e
  <2>6. OOMAfter >= 0 => e.successes <= OOMAfter
    BY <2>2, <2>3, <2>5, EngineAssumption
  <2>7. EngineOK(e)
    BY <2>1, <2>2, <2>4, <2>5, <2>6 DEF EngineOK
  <2>8. Considerate(t, E(t), e)
    BY <1>2, <2>2, <2>4, <2>5 DEF Considerate
  <2> QED
    BY <1>5, <2>5, <2>7, <2>8, ReturnStep DEF e
<1> QED
  BY <1>3, <1>4, <1>5, AllocReserveCases

\* Free begins with an address that somebody else may own.
LEMMA FreeStep ==
    ASSUME EngineInv, NEW t \in Thread, Free(t)
    PROVE  EngineInv'
<1>1. PICK api \in Apis[t], k \in Token :
          thr' = [thr EXCEPT ![t] = [Idle EXCEPT !.pc = "freeLock",
                                                 !.api = api, !.token = k]]
  BY DEF Free
<1>2. Owner[t] \in Program /\ eng \in [Program -> Engine] /\ api \in Api
  BY OfThread, EngineAssumption DEF EngineInv
<1> DEFINE c == [Idle EXCEPT !.pc = "freeLock", !.api = api, !.token = k]
<1>3. c \in Call /\ c.pc = "freeLock"
  BY <1>2, EngineAssumption DEF Call, Idle
<1>4. eng' = [eng EXCEPT ![Owner[t]] = E(t)] /\ thr' = [thr EXCEPT ![t] = c]
  BY <1>1, <1>2 DEF E, Free
<1> HIDE DEF c
<1>5. CallOK(t, E(t), c) /\ c.pc \notin Untracked
  BY <1>3 DEF CallOK, Inside, Untracked, Allocating
<1> QED
  BY <1>4, <1>5, SameEngine, ThreadStep

\* The outcomes of FreeRelease: it forgets the token, or changes no engine.
LEMMA FreeReleaseCases ==
    ASSUME NEW t \in Thread, FreeRelease(t)
    PROVE  /\ thr[t].pc = "free"
           /\ \/ Return(t, "invalid") /\ UNCHANGED <<dev, trouble>>
              \/ /\ thr[t].token \in DOMAIN E(t).allocs
                 /\ LET a == E(t).allocs[thr[t].token]
                        d == Observed(dev[a.gpu])
                    IN  \/ /\ CanRelease(d, a.size)
                           /\ dev' = [dev EXCEPT ![a.gpu] = Release(d, a.size)]
                           /\ eng' = [eng EXCEPT
                                ![Owner[t]].allocs = Without(@, {thr[t].token}),
                                ![Owner[t]].mu = None]
                           /\ Goto(t, "freeToken")
                           /\ UNCHANGED trouble
                        \/ Return(t, "unknown") /\ UNCHANGED <<dev, trouble>>
                        \/ Refused /\ Return(t, "unknown") /\ UNCHANGED dev
                        \/ /\ AnswerLost(a.gpu, 0 - a.size)
                           /\ CanRelease(d, a.size)
                           /\ dev' = [dev EXCEPT ![a.gpu] = Release(d, a.size)]
                           /\ Return(t, "unknown")
BY DEF FreeRelease, ReleaseBytes, At

\* Free forgets the token before it gives it back.
LEMMA FreeReleaseStep ==
    ASSUME EngineInv, NEW t \in Thread, FreeRelease(t)
    PROVE  EngineInv'
<1>1. thr[t].pc = "free"
  BY FreeReleaseCases
<1>2. ASSUME NEW status, Return(t, status) PROVE EngineInv'
  BY <1>2, SameReturn
<1>3. ASSUME eng' = [eng EXCEPT ![Owner[t]].allocs = Without(@, {thr[t].token}),
                                ![Owner[t]].mu = None],
             Goto(t, "freeToken"), thr[t].token \in DOMAIN E(t).allocs
      PROVE  EngineInv'
  <2> DEFINE k == thr[t].token
             e == [E(t) EXCEPT !.allocs = Without(@, {k}), !.mu = None]
             c == [thr[t] EXCEPT !.pc = "freeToken"]
  <2>1. /\ E(t) \in Engine /\ EngineOK(E(t)) /\ Owner[t] \in Program
        /\ thr[t] \in Call /\ CallOK(t, E(t), thr[t])
        /\ eng \in [Program -> Engine]
    BY OfThread DEF EngineInv
  <2>2. /\ E(t).allocs \in Allocs /\ E(t).mu = t
    BY <1>1, <2>1 DEF Engine, CallOK, Inside
  <2>3. /\ Without(E(t).allocs, {k}) \in Allocs
        /\ DOMAIN Without(E(t).allocs, {k}) = DOMAIN E(t).allocs \ {k}
    BY <2>2, AllocsWithout
  <2>4. k \in E(t).live
    BY <1>3, <2>1 DEF EngineOK
  <2>5. /\ e \in Engine /\ e.allocs = Without(E(t).allocs, {k}) /\ e.mu = None
        /\ e.live = E(t).live /\ e.successes = E(t).successes
    BY <2>1, <2>3 DEF Engine
  <2>6. c \in Call /\ c.token = k /\ c.pc = "freeToken"
    BY <2>1 DEF Call
  <2>7. thr' = [thr EXCEPT ![t] = c]
    BY <1>3 DEF Goto
  <2>8. eng' = [eng EXCEPT ![Owner[t]] = e]
    BY <1>3, <2>1 DEF E
  <2> HIDE DEF e, c
  <2>9. EngineOK(e) /\ CallOK(t, e, c)
    BY <2>1, <2>3, <2>4, <2>5, <2>6
       DEF EngineOK, CallOK, Inside, Untracked, Allocating
  <2>10. Considerate(t, E(t), e)
    BY <2>2, <2>3, <2>5 DEF Considerate
  <2>11. \A u \in Thread \ {t} :
           Owner[u] = Owner[t] /\ thr[u].pc \in Untracked => thr[u].token # k
    <3> SUFFICES ASSUME NEW u \in Thread, Owner[u] = Owner[t],
                        thr[u].pc \in Untracked, thr[u].token = k
                 PROVE  FALSE
      OBVIOUS
    <3>1. k \notin DOMAIN E(u).allocs
      BY OfThread DEF CallOK
    <3> QED
      BY <3>1, <1>3 DEF E
  <2> QED
    BY <2>6, <2>7, <2>8, <2>9, <2>10, <2>11, ThreadStep
<1> QED
  BY <1>2, <1>3, FreeReleaseCases

\* The outcomes of ResetRelease: it forgets what is on the current device, or
\* changes no engine.
LEMMA ResetReleaseCases ==
    ASSUME NEW t \in Thread, ResetRelease(t)
    PROVE  LET g == E(t).current
               n == TrackedBytes(Owner[t], g)
               d == Observed(dev[g])
           IN  /\ thr[t].pc = "reset"
               /\ \/ Return(t, "success") /\ UNCHANGED <<dev, trouble>>
                  \/ /\ CanRelease(d, n)
                     /\ dev' = [dev EXCEPT ![g] = Release(d, n)]
                     /\ ReturnWith(t, [E(t) EXCEPT
                             !.allocs = Without(@, TokensOn(E(t).allocs, g))],
                             "success")
                     /\ UNCHANGED trouble
                  \/ Return(t, "unknown") /\ UNCHANGED <<dev, trouble>>
                  \/ Refused /\ Return(t, "unknown") /\ UNCHANGED dev
                  \/ /\ AnswerLost(g, 0 - n)
                     /\ CanRelease(d, n)
                     /\ dev' = [dev EXCEPT ![g] = Release(d, n)]
                     /\ Return(t, "unknown")
BY DEF ResetRelease, ReleaseBytes, At

\* A reset forgets the allocations of the current device.
LEMMA ResetReleaseStep ==
    ASSUME EngineInv, NEW t \in Thread, ResetRelease(t)
    PROVE  EngineInv'
<1> DEFINE K == TokensOn(E(t).allocs, E(t).current)
<1>1. ASSUME NEW status, Return(t, status) PROVE EngineInv'
  BY <1>1, SameReturn
<1>2. ASSUME ReturnWith(t, [E(t) EXCEPT !.allocs = Without(@, K)], "success")
      PROVE  EngineInv'
  <2> DEFINE e == [E(t) EXCEPT !.allocs = Without(@, K)]
  <2>1. E(t) \in Engine /\ EngineOK(E(t))
    BY OfThread
  <2>2. /\ Without(E(t).allocs, K) \in Allocs
        /\ DOMAIN Without(E(t).allocs, K) = DOMAIN E(t).allocs \ K
    BY <2>1, AllocsWithout DEF Engine
  <2>3. /\ e \in Engine /\ e.allocs = Without(E(t).allocs, K) /\ e.mu = E(t).mu
        /\ e.live = E(t).live /\ e.successes = E(t).successes
    BY <2>1, <2>2 DEF Engine
  <2> HIDE DEF e
  <2>4. EngineOK(e) /\ Considerate(t, E(t), e)
    BY <2>1, <2>2, <2>3 DEF EngineOK, Considerate
  <2> QED
    BY <1>2, <2>3, <2>4, ReturnStep DEF e
<1> QED
  BY <1>1, <1>2, ResetReleaseCases

\* The token goes back to the host.
LEMMA FreeTokenStep ==
    ASSUME EngineInv, NEW t \in Thread, FreeToken(t)
    PROVE  EngineInv'
BY FailReturn DEF FreeToken, At, Untracked

\* A call that begins by waiting for the mutex, with no token of its own.
LEMMA WaitStep ==
    ASSUME EngineInv, NEW t \in Thread, UNCHANGED eng,
           \/ Goto(t, "resetLock") \/ Goto(t, "infoLock")
    PROVE  EngineInv'
<1>1. PICK where \in {"resetLock", "infoLock"} : Goto(t, where)
  OBVIOUS
<1> DEFINE c == [thr[t] EXCEPT !.pc = where]
<1>2. thr[t] \in Call /\ CallOK(t, E(t), thr[t])
  BY OfThread
<1>3. c \in Call /\ c.token = thr[t].token /\ c.pc = where
  BY <1>2 DEF Call
<1> HIDE DEF c
<1>4. CallOK(t, E(t), c)
  BY <1>2, <1>3 DEF CallOK, Inside, Untracked, Allocating
<1>5. where \notin Untracked
  BY DEF Untracked
<1> QED
  BY <1>1, <1>4, <1>5, GotoStep DEF c

\* SetDevice looks at its argument.
LEMMA SetDeviceStep ==
    ASSUME EngineInv, NEW t \in Thread, SetDevice(t)
    PROVE  EngineInv'
<1>1. CASE Return(t, "unknown")
  BY <1>1, SameReturn
<1>2. ASSUME NEW g \in GPU, UNCHANGED eng,
             thr' = [thr EXCEPT ![t] = [Idle EXCEPT !.pc = "setLock", !.gpu = g]]
      PROVE  EngineInv'
  <2> DEFINE c == [Idle EXCEPT !.pc = "setLock", !.gpu = g]
  <2>1. Owner[t] \in Program /\ eng \in [Program -> Engine]
    BY OfThread DEF EngineInv
  <2>2. c \in Call /\ c.pc = "setLock"
    BY EngineAssumption DEF Call, Idle, Api
  <2>3. eng' = [eng EXCEPT ![Owner[t]] = E(t)] /\ thr' = [thr EXCEPT ![t] = c]
    BY <1>2, <2>1 DEF E
  <2> HIDE DEF c
  <2>4. CallOK(t, E(t), c) /\ c.pc \notin Untracked
    BY <2>2 DEF CallOK, Inside, Untracked, Allocating
  <2> QED
    BY <2>3, <2>4, SameEngine, ThreadStep
<1> QED
  BY <1>1, <1>2 DEF SetDevice

\* The current device is changed under the mutex.
LEMMA SetCurrentStep ==
    ASSUME EngineInv, NEW t \in Thread, SetCurrent(t)
    PROVE  EngineInv'
<1> DEFINE e == [E(t) EXCEPT !.current = thr[t].gpu]
<1>1. /\ E(t) \in Engine /\ EngineOK(E(t)) /\ thr[t].gpu \in GPU
  BY OfThread DEF Call
<1>2. /\ e \in Engine /\ e.allocs = E(t).allocs /\ e.mu = E(t).mu
      /\ e.live = E(t).live /\ e.successes = E(t).successes
  BY <1>1 DEF Engine
<1>3. ReturnWith(t, e, "success")
  BY DEF SetCurrent
<1> HIDE DEF e
<1>4. EngineOK(e) /\ Considerate(t, E(t), e)
  BY <1>1, <1>2 DEF EngineOK, Considerate
<1> QED
  BY <1>2, <1>3, <1>4, ReturnStep

\* Calls that change only the last error.
LEMMA ErrorOnlyStep ==
    ASSUME EngineInv, NEW t \in Thread, GetLastError(t) \/ NotInitialized(t)
    PROVE  EngineInv'
<1>1. Owner[t] \in Program /\ eng \in [Program -> Engine]
  BY OfThread DEF EngineInv
<1>2. PICK b \in BOOLEAN : eng' = [eng EXCEPT ![Owner[t]].lastError = b]
  BY DEF GetLastError, NotInitialized
<1>3. eng' = [eng EXCEPT ![Owner[t]] = [E(t) EXCEPT !.lastError = b]]
  BY <1>1, <1>2 DEF E
<1>4. UNCHANGED thr
  BY DEF GetLastError, NotInitialized
<1> QED
  BY <1>3, <1>4, ErrorStep

\* A program ends, with all of its threads.
LEMMA ExitStep ==
    ASSUME EngineInv, NEW p \in Program, Exit(p)
    PROVE  EngineInv'
<1>1. /\ eng' = [eng EXCEPT ![p] = NewEngine(TRUE)]
      /\ thr' = [t \in Thread |-> IF Owner[t] = p THEN Idle ELSE thr[t]]
  BY DEF Exit
<1>2. /\ eng \in [Program -> Engine] /\ thr \in [Thread -> Call]
      /\ \A t \in Thread : Owner[t] \in Program
  BY EngineAssumption DEF EngineInv
<1>3. eng' \in [Program -> Engine] /\ thr' \in [Thread -> Call]
  BY <1>1, <1>2, NewEngineOK, IdleCall
<1>4. ASSUME NEW q \in Program PROVE EngineOK(eng'[q])
  BY <1>1, <1>2, NewEngineOK DEF EngineInv
<1>5. ASSUME NEW t \in Thread PROVE CallOK(t, eng'[Owner[t]], thr'[t])
  <2>1. CASE Owner[t] = p
    <3>1. thr'[t] = Idle
      BY <1>1, <2>1
    <3> QED
      BY <3>1, IdleCall DEF CallOK, Inside, Untracked, Allocating
  <2>2. CASE Owner[t] # p
    BY <1>1, <1>2, <2>2 DEF EngineInv, E
  <2> QED
    BY <2>1, <2>2
<1>6. TokensDistinct'
  <2> SUFFICES ASSUME NEW a \in Thread, NEW b \in Thread, a # b,
                      Owner[a] = Owner[b],
                      thr'[a].pc \in Untracked, thr'[b].pc \in Untracked
               PROVE  thr'[a].token # thr'[b].token
    BY DEF TokensDistinct
  <2>1. Owner[a] # p /\ thr'[a] = thr[a] /\ thr'[b] = thr[b]
    BY <1>1, IdleCall DEF Untracked
  <2> QED
    BY <2>1 DEF EngineInv, TokensDistinct
<1> QED
  BY <1>3, <1>4, <1>5, <1>6 DEF EngineInv, E

\* At first no program has called anything.
LEMMA EngineInit ==
    ASSUME Init
    PROVE  EngineInv
<1>1. /\ eng \in [Program -> {NewEngine(TRUE), NewEngine(FALSE)}]
      /\ thr = [t \in Thread |-> Idle]
  BY DEF Init
<1>2. eng \in [Program -> Engine] /\ \A p \in Program : EngineOK(eng[p])
  BY <1>1, NewEngineOK
<1>3. thr \in [Thread -> Call] /\ \A t \in Thread : thr[t] = Idle
  BY <1>1, IdleCall
<1>4. ASSUME NEW t \in Thread PROVE CallOK(t, E(t), thr[t])
  BY <1>3, IdleCall DEF CallOK, Inside, Untracked, Allocating
<1>5. TokensDistinct
  BY <1>3, IdleCall DEF TokensDistinct, Untracked
<1> QED
  BY <1>2, <1>3, <1>4, <1>5 DEF EngineInv

\* Every step keeps EngineInv.
LEMMA EngineNext ==
    ASSUME EngineInv, [Next]_vars
    PROVE  EngineInv'
<1>1. ASSUME UNCHANGED <<eng, thr>> PROVE EngineInv'
  BY <1>1 DEF EngineInv, TokensDistinct, E
<1>2. ASSUME NEW t \in Thread, Query(t) \/ Unsupported(t) \/ MemoryInfo(t)
      PROVE  EngineInv'
  <2>1. \E status : Return(t, status)
    BY <1>2 DEF Query, Unsupported, MemoryInfo
  <2> QED
    BY <2>1, SameReturn
<1>3. ASSUME NEW t \in Thread, DeviceReset(t) \/ MemGetInfo(t)
      PROVE  EngineInv'
  BY <1>3, WaitStep DEF DeviceReset, MemGetInfo
<1>4. ASSUME NEW t \in Thread, AllocLock(t) \/ FreeLock(t) \/ ResetLock(t)
      PROVE  EngineInv'
  BY <1>4, LockStep DEF AllocLock, FreeLock, ResetLock
<1>5. ASSUME NEW t \in Thread, Continue(t) PROVE EngineInv'
  BY <1>2, <1>4, <1>5, AllocCheckStep, AllocReserveStep, FreeReleaseStep,
     FreeTokenStep, ResetReleaseStep, SetCurrentStep DEF Continue
<1>6. ASSUME NEW g \in GPU, OtherProgram(g) PROVE EngineInv'
  BY <1>1, <1>6 DEF OtherProgram
<1>7. CASE UNCHANGED vars
  BY <1>1, <1>7 DEF vars
<1> QED
  BY <1>2, <1>3, <1>5, <1>6, <1>7, MallocStep, FreeStep, SetDeviceStep,
     ErrorOnlyStep, ExitStep DEF Next

-----------------------------------------------------------------------------
(* The devices. *)

\* Every device fits and covers its rows; the counters are numbers.
DeviceInv ==
    /\ dev \in [GPU -> Device]
    /\ \A g \in GPU : Fits(dev[g], g) /\ Covered(dev[g])
    /\ faults \in 0 .. MaxFaults
    /\ others \in [GPU -> Int]
    /\ stray \in [GPU -> Int]

\* What holds without any assumption on the requests.
SafetyInv == EngineInv /\ DeviceInv

\* What nvidia-smi shows of a device that fits and covers its rows does so too.
LEMMA ObservedFits ==
    ASSUME NEW g \in GPU, NEW d \in Device, Fits(d, g), Covered(d)
    PROVE  /\ Observed(d) \in Device
           /\ Fits(Observed(d), g)
           /\ Covered(Observed(d))
           /\ Observed(d).mem = d.mem
<1> DEFINE u == SeenBytes(d.used)
           f == SeenBytes(d.free)
<1>1. d.used \in U64 /\ d.free \in U64 /\ d.used \in Nat /\ d.free \in Nat
  BY UnitAssumption DEF Device, U64
<1>2. u \in U64 /\ f \in U64 /\ u <= d.used /\ f <= d.free
  BY <1>1, SeenAtMost
<1>3. u \in Nat /\ f \in Nat
  BY <1>2, UnitAssumption DEF U64
<1>4. ProcessMiB(d.mem) * MiB <= u
  BY <1>1, SeenCovers DEF Covered, OwnedBytes
<1> HIDE DEF u, f
<1>5. Observed(d) = [d EXCEPT !.used = u, !.free = f]
  BY DEF Observed, u, f
<1>6. /\ Observed(d) \in Device
      /\ Observed(d).used = u /\ Observed(d).free = f
      /\ Observed(d).mem = d.mem
  BY <1>2, <1>5 DEF Device
<1>7. u + f + ReservedBytes(g) <= TotalBytes(g)
  BY <1>1, <1>2, <1>3, ConfigSizes DEF Fits
<1> QED
  BY <1>4, <1>6, <1>7 DEF Fits, Covered, OwnedBytes

\* A manager's ReserveMemory or ReleaseMemory on GPU g.
Moves(g, n) ==
    LET d == Observed(dev[g])
    IN  \/ CanReserve(d, n) /\ dev' = [dev EXCEPT ![g] = Reserve(d, n)]
        \/ CanRelease(d, n) /\ dev' = [dev EXCEPT ![g] = Release(d, n)]

\* A command of a manager leaves a device that fits and covers its rows.
LEMMA MovesFit ==
    ASSUME DeviceInv, NEW g \in GPU, NEW n \in Nat, Moves(g, n)
    PROVE  /\ dev' \in [GPU -> Device]
           /\ \A h \in GPU : Fits(dev'[h], h) /\ Covered(dev'[h])
<1> DEFINE d == Observed(dev[g])
<1>1. dev \in [GPU -> Device] /\ Fits(dev[g], g) /\ Covered(dev[g])
  BY DEF DeviceInv
<1>2. d \in Device /\ Fits(d, g) /\ Covered(d)
  BY <1>1, ObservedFits
<1> HIDE DEF d
<1>3. d.used \in 0 .. MaxU64 /\ d.free \in 0 .. MaxU64 /\ MaxU64 \in Nat
  BY <1>2, UnitAssumption DEF Device, U64
<1>4. PICK r : /\ dev' = [dev EXCEPT ![g] = r]
               /\ r \in Device /\ Fits(r, g) /\ Covered(r)
  <2>1. CASE CanReserve(d, n) /\ dev' = [dev EXCEPT ![g] = Reserve(d, n)]
    <3>1. n \in U64
      BY <1>3, <2>1 DEF CanReserve, U64
    <3> QED
      BY <2>1, <3>1, <1>2, ReserveFits
  <2>2. CASE CanRelease(d, n) /\ dev' = [dev EXCEPT ![g] = Release(d, n)]
    <3>1. n \in U64
      BY <1>3, <2>2 DEF CanRelease, AddFits, U64
    <3> QED
      BY <2>2, <3>1, <1>2, ReleaseFits
  <2> QED
    BY <2>1, <2>2 DEF Moves, d
<1> QED
  BY <1>1, <1>4 DEF DeviceInv

-----------------------------------------------------------------------------
(* The bytes that are tracked. *)

\* What an engine tracks on a device is a number of bytes.
LEMMA BytesOnNat ==
    ASSUME NEW a \in Allocs, NEW g
    PROVE  BytesOn(a, g) \in Nat
<1> DEFINE f == [k \in DOMAIN a |-> a[k].size]
<1>1. DOMAIN a \subseteq Token /\ \A k \in DOMAIN a : f[k] \in Nat
  BY AllocsElim
<1>2. IsFiniteSet(TokensOn(a, g)) /\ TokensOn(a, g) \subseteq DOMAIN a
  BY <1>1, FS_Subset, EngineAssumption DEF TokensOn
<1> HIDE DEF f
<1> QED
  BY <1>1, <1>2, SumNat DEF BytesOn, f

\* A step that moves no byte.
LEMMA QuietKeepsDevices ==
    ASSUME DeviceInv, UNCHANGED dev, UNCHANGED trouble \/ Refused
    PROVE  DeviceInv'
<1>1. faults' \in 0 .. MaxFaults /\ UNCHANGED <<others, stray>>
  BY EngineAssumption DEF DeviceInv, trouble, Refused
<1> QED
  BY <1>1 DEF DeviceInv

\* A step that moves n bytes on one GPU.
LEMMA MovesKeepDevices ==
    ASSUME DeviceInv, NEW g \in GPU, NEW n \in Nat, Moves(g, n), NEW b \in Int,
           UNCHANGED trouble \/ AnswerLost(g, b)
    PROVE  DeviceInv'
<1>1. /\ faults' \in 0 .. MaxFaults
      /\ others' \in [GPU -> Int] /\ stray' \in [GPU -> Int]
  BY EngineAssumption DEF DeviceInv, trouble, AnswerLost
<1> QED
  BY <1>1, MovesFit DEF DeviceInv

\* An allocation is a command of a manager, or none.
LEMMA AllocReserveDevices ==
    ASSUME SafetyInv, NEW t \in Thread, AllocReserve(t)
    PROVE  DeviceInv'
<1> DEFINE g == E(t).current
           n == thr[t].size
<1>1. g \in GPU /\ n \in Nat /\ DeviceInv
  <2>1. E(t) \in Engine /\ thr[t] \in Call /\ DeviceInv
    BY OfThread DEF SafetyInv
  <2>2. n \in Sizes \cup {0}
    BY <2>1 DEF Call
  <2>3. n \in Nat
    <3> HIDE DEF n
    <3> QED
      BY <2>2, SizesAreBytes
  <2> QED
    BY <2>1, <2>3 DEF Engine
<1> HIDE DEF g, n
<1>2. CASE UNCHANGED dev /\ (UNCHANGED trouble \/ Refused)
  BY <1>1, <1>2, QuietKeepsDevices
<1>3. CASE Moves(g, n) /\ (UNCHANGED trouble \/ AnswerLost(g, n))
  BY <1>1, <1>3, MovesKeepDevices
<1> QED
  BY <1>2, <1>3, AllocReserveCases DEF MallocFails, Moves, g, n

\* So is the release of one allocation.
LEMMA FreeReleaseDevices ==
    ASSUME SafetyInv, NEW t \in Thread, FreeRelease(t)
    PROVE  DeviceInv'
<1>1. CASE UNCHANGED dev /\ (UNCHANGED trouble \/ Refused)
  BY <1>1, QuietKeepsDevices DEF SafetyInv
<1>2. ASSUME NEW a, a = E(t).allocs[thr[t].token],
             thr[t].token \in DOMAIN E(t).allocs, Moves(a.gpu, a.size),
             UNCHANGED trouble \/ AnswerLost(a.gpu, 0 - a.size)
      PROVE  DeviceInv'
  <2>1. E(t).allocs \in Allocs
    BY OfThread DEF SafetyInv, Engine
  <2>2. a.gpu \in GPU /\ a.size \in Nat
    BY <1>2, <2>1, AllocsElim
  <2>3. 0 - a.size \in Int
    BY <2>2
  <2> QED
    BY <1>2, <2>2, <2>3, MovesKeepDevices DEF SafetyInv
<1> QED
  BY <1>1, <1>2, FreeReleaseCases DEF Moves

\* And that of all allocations of a device.
LEMMA ResetReleaseDevices ==
    ASSUME SafetyInv, NEW t \in Thread, ResetRelease(t)
    PROVE  DeviceInv'
<1> DEFINE g == E(t).current
           n == TrackedBytes(Owner[t], g)
<1>1. g \in GPU /\ n \in Nat /\ 0 - n \in Int
  <2>1. E(t) \in Engine
    BY OfThread DEF SafetyInv
  <2>2. n \in Nat
    BY <2>1, BytesOnNat DEF TrackedBytes, E, Engine
  <2> QED
    BY <2>1, <2>2 DEF Engine
<1> HIDE DEF g, n
<1>2. CASE UNCHANGED dev /\ (UNCHANGED trouble \/ Refused)
  BY <1>2, QuietKeepsDevices DEF SafetyInv
<1>3. CASE Moves(g, n) /\ (UNCHANGED trouble \/ AnswerLost(g, 0 - n))
  BY <1>1, <1>3, MovesKeepDevices DEF SafetyInv
<1> QED
  BY <1>2, <1>3, ResetReleaseCases DEF Moves, g, n

\* And whatever others reserve and release.
LEMMA OtherProgramDevices ==
    ASSUME SafetyInv, NEW g \in GPU, OtherProgram(g)
    PROVE  DeviceInv'
<1>1. PICK n \in Others[g], b \in Int :
        /\ Moves(g, n) /\ others' = [others EXCEPT ![g] = @ + b]
        /\ UNCHANGED <<faults, stray>>
  <2>1. \A n \in Others[g] : n \in Int /\ 0 - n \in Int
    BY OthersAreBytes
  <2>2. others[g] \in Int /\ \A n \in Others[g] : others[g] - n = others[g] + (0 - n)
    BY OthersAreBytes DEF SafetyInv, DeviceInv
  <2>3. PICK n \in Others[g] :
          /\ Moves(g, n)
          /\ \/ others' = [others EXCEPT ![g] = @ + n]
             \/ others' = [others EXCEPT ![g] = @ - n]
    BY DEF OtherProgram, Moves
  <2> QED
    BY <2>1, <2>2, <2>3 DEF OtherProgram, SafetyInv, DeviceInv
<1>2. others' \in [GPU -> Int]
  BY <1>1 DEF SafetyInv, DeviceInv
<1> QED
  BY <1>1, <1>2, OthersAreBytes, MovesFit DEF SafetyInv, DeviceInv

\* The end of a program leaves the devices alone.
LEMMA ExitDevices ==
    ASSUME SafetyInv, NEW p \in Program, Exit(p)
    PROVE  DeviceInv'
<1>1. \A g \in GPU : TrackedBytes(p, g) \in Int
  <2>1. eng[p].allocs \in Allocs
    BY DEF SafetyInv, EngineInv, Engine
  <2> QED
    BY <2>1, BytesOnNat DEF TrackedBytes
<1>2. /\ stray' \in [GPU -> Int] /\ faults' \in 0 .. MaxFaults
      /\ UNCHANGED <<dev, others>>
  BY <1>1, EngineAssumption DEF Exit, SafetyInv, DeviceInv
<1> QED
  BY <1>2 DEF SafetyInv, DeviceInv

\* The configuration describes devices that fit.
LEMMA SafetyInit ==
    ASSUME Init
    PROVE  SafetyInv
<1>1. dev \in [GPU -> Device] /\ \A g \in GPU : Fits(dev[g], g) /\ Covered(dev[g])
  BY BaseDeviceFits DEF Init
<1>2. /\ faults \in 0 .. MaxFaults
      /\ others \in [GPU -> Int] /\ stray \in [GPU -> Int]
  BY EngineAssumption DEF Init
<1> QED
  BY <1>1, <1>2, EngineInit DEF SafetyInv, DeviceInv

\* Every step keeps SafetyInv.
LEMMA SafetyNext ==
    ASSUME SafetyInv, [Next]_vars
    PROVE  SafetyInv'
<1> USE DEF SafetyInv
<1>1. EngineInv'
  BY EngineNext
<1>2. ASSUME UNCHANGED dev, UNCHANGED trouble \/ Refused PROVE DeviceInv'
  BY <1>2, QuietKeepsDevices
<1>3. ASSUME NEW t \in Thread,
             \/ Malloc(t) \/ Free(t) \/ DeviceReset(t) \/ SetDevice(t)
             \/ GetLastError(t) \/ NotInitialized(t) \/ Query(t)
             \/ Unsupported(t) \/ MemGetInfo(t)
      PROVE  DeviceInv'
  <2>1. UNCHANGED dev /\ (UNCHANGED trouble \/ Refused)
    BY <1>3 DEF Malloc, Free, DeviceReset, SetDevice, GetLastError,
                NotInitialized, Query, Unsupported, MemGetInfo, trouble
  <2> QED
    BY <1>2, <2>1
<1>4. ASSUME NEW t \in Thread, Continue(t) PROVE DeviceInv'
  <2>1. CASE \/ AllocLock(t) \/ AllocCheck(t) \/ FreeLock(t) \/ FreeToken(t)
             \/ ResetLock(t) \/ SetCurrent(t) \/ MemoryInfo(t)
    <3>1. UNCHANGED dev /\ (UNCHANGED trouble \/ Refused)
      BY <2>1 DEF AllocLock, AllocCheck, FreeLock, FreeToken, ResetLock, Lock,
                  SetCurrent, MemoryInfo, MallocFails, trouble
    <3> QED
      BY <1>2, <3>1
  <2> QED
    BY <1>4, <2>1, AllocReserveDevices, FreeReleaseDevices, ResetReleaseDevices
       DEF Continue
<1>5. CASE UNCHANGED vars
  <2>1. UNCHANGED dev /\ UNCHANGED trouble
    BY <1>5 DEF vars, trouble
  <2> QED
    BY <1>1, <1>2, <2>1
<1> QED
  BY <1>1, <1>3, <1>4, <1>5, OtherProgramDevices, ExitDevices DEF Next

-----------------------------------------------------------------------------

\* Whatever the threads of the programs call, whichever of their commands fails
\* and whatever programs end without freeing, byte counts stay uint64 and what
\* an engine tracks has a size and a GPU (TypeOK).
THEOREM CudaTypes == Spec => []TypeOK
<1>1. SafetyInv /\ [Next]_vars => SafetyInv'
  BY SafetyNext
<1>2. SafetyInv => TypeOK
  <2> SUFFICES ASSUME SafetyInv PROVE TypeOK
    OBVIOUS
  <2>1. ASSUME NEW p \in Program, NEW k \in Tracked(p)
        PROVE  eng[p].allocs[k] \in [size : Sizes, gpu : GPU]
    <3>1. eng[p].allocs \in Allocs
      BY DEF SafetyInv, EngineInv, Engine
    <3> QED
      BY <2>1, <3>1, AllocsElim DEF Tracked, Allocation
  <2>2. \A t \in Thread : thr[t] \in Call
    BY DEF SafetyInv, EngineInv
  <2>3. \A p \in Program : eng[p] \in Engine
    BY DEF SafetyInv, EngineInv
  <2> QED
    BY <2>1, <2>2, <2>3 DEF TypeOK, SafetyInv, DeviceInv, Call, Engine
<1> QED
  BY <1>1, <1>2, SafetyInit, PTL DEF Spec

\* Nor is a device ever overcommitted or a row left uncovered, whatever is
\* charged twice or lost when a command fails after it has stored.
THEOREM CudaNeverOvercommits == Spec => []NeverOvercommits
<1>1. SafetyInv /\ [Next]_vars => SafetyInv'
  BY SafetyNext
<1>2. SafetyInv => NeverOvercommits
  BY DEF SafetyInv, DeviceInv, NeverOvercommits
<1> QED
  BY <1>1, <1>2, SafetyInit, PTL DEF Spec

\* malloc never hands out the address of a tracked allocation: the host gets a
\* token back only after the engine has forgotten it, and of the threads that free
\* one address at once only one gets to do so (TrackedTokensLive).
THEOREM TrackedTokensStayLive == Spec => []TrackedTokensLive
<1>1. EngineInv /\ [Next]_vars => EngineInv'
  BY EngineNext
<1>2. EngineInv => TrackedTokensLive
  BY DEF EngineInv, EngineOK, TrackedTokensLive, Tracked
<1> QED
  BY <1>1, <1>2, EngineInit, PTL DEF Spec

\* However many threads allocate at once, no more allocations succeed than
\* FAKE_NVIDIA_CUDA_OOM_AFTER allows: the thread that has passed the check keeps
\* the mutex until it has counted (OOMPolicyHolds).
THEOREM OOMPolicyAlwaysHolds == Spec => []OOMPolicyHolds
<1>1. EngineInv /\ [Next]_vars => EngineInv'
  BY EngineNext
<1>2. EngineInv => OOMPolicyHolds
  BY DEF EngineInv, EngineOK, OOMPolicyHolds
<1> QED
  BY <1>1, <1>2, EngineInit, PTL DEF Spec

-----------------------------------------------------------------------------
(* What the engines track, summed. *)

\* Tokens are finitely many, and so are allocations.
LEMMA FiniteAllocs ==
    ASSUME NEW a \in Allocs, NEW S, S \subseteq DOMAIN a
    PROVE  IsFiniteSet(S)
<1>1. S \in SUBSET Token
  BY AllocsElim
<1> QED
  BY <1>1, FS_Subset, EngineAssumption

\* One allocation more.
LEMMA BytesAdd ==
    ASSUME NEW a \in Allocs, NEW b \in Allocs, NEW k \in Token, k \notin DOMAIN a,
           DOMAIN b = DOMAIN a \cup {k}, \A j \in DOMAIN a : b[j] = a[j],
           NEW h
    PROVE  BytesOn(b, h) = BytesOn(a, h) + (IF b[k].gpu = h THEN b[k].size ELSE 0)
<1> DEFINE f == [j \in DOMAIN a |-> a[j].size]
           e == [j \in DOMAIN b |-> b[j].size]
           S == TokensOn(a, h)
           R == TokensOn(b, h)
<1>1. /\ IsFiniteSet(S) /\ IsFiniteSet(R) /\ S \subseteq DOMAIN a
      /\ R \subseteq DOMAIN b
  BY FiniteAllocs DEF TokensOn
<1>2. S = R \ {k} /\ (k \in R <=> b[k].gpu = h)
  BY DEF TokensOn
<1>3. \A j \in S : f[j] = e[j]
  BY <1>1
<1>4. \A j \in R : e[j] \in Int
  BY <1>1, AllocsElim
<1>5. e[k] = b[k].size
  OBVIOUS
<1>6. BytesOn(a, h) = SumFunctionOnSet(f, S) /\ BytesOn(b, h) = SumFunctionOnSet(e, R)
  BY DEF BytesOn
<1>7. BytesOn(a, h) \in Nat
  BY BytesOnNat
<1> HIDE DEF e, f, S, R
<1>8. SumFunctionOnSet(f, S) = SumFunctionOnSet(e, S)
  BY <1>1, <1>3, SumAgree
<1>9. CASE k \in R
  <2>1. SumFunctionOnSet(e, R) = e[k] + SumFunctionOnSet(e, R \ {k})
    BY <1>1, <1>4, <1>9, SumRemove
  <2>2. e[k] \in Int
    BY <1>4, <1>9
  <2> QED
    BY <2>1, <2>2, <1>2, <1>5, <1>6, <1>7, <1>8, <1>9
<1>10. CASE k \notin R
  <2>1. R = S
    BY <1>2, <1>10
  <2>2. BytesOn(b, h) = BytesOn(a, h) /\ b[k].gpu # h
    BY <2>1, <1>2, <1>6, <1>8, <1>10
  <2> QED
    BY <2>2, <1>7
<1> QED
  BY <1>9, <1>10

\* One allocation less.
LEMMA BytesRemove ==
    ASSUME NEW a \in Allocs, NEW k \in DOMAIN a, NEW h
    PROVE  BytesOn(Without(a, {k}), h)
             = BytesOn(a, h) - (IF a[k].gpu = h THEN a[k].size ELSE 0)
<1> DEFINE b == Without(a, {k})
<1>1. b \in Allocs /\ DOMAIN b = DOMAIN a \ {k}
  BY AllocsWithout
<1>2. \A j \in DOMAIN b : a[j] = b[j]
  BY DEF Without
<1>3. /\ k \in Token /\ k \notin DOMAIN b /\ DOMAIN a = DOMAIN b \cup {k}
      /\ a[k].size \in Nat
  BY <1>1, AllocsElim
<1> HIDE DEF b
<1>4. BytesOn(a, h) = BytesOn(b, h) + (IF a[k].gpu = h THEN a[k].size ELSE 0)
  <2>1. ASSUME NEW c \in Allocs, c = b
        PROVE  BytesOn(a, h) = BytesOn(c, h) + (IF a[k].gpu = h THEN a[k].size ELSE 0)
    <3>1. k \in Token /\ k \notin DOMAIN c /\ DOMAIN a = DOMAIN c \cup {k}
      BY <1>3, <2>1
    <3>2. \A j \in DOMAIN c : a[j] = c[j]
      BY <1>2, <2>1
    <3> QED
      BY <3>1, <3>2, BytesAdd
  <2> QED
    BY <1>1, <2>1
<1>5. BytesOn(b, h) \in Nat
  BY <1>1, BytesOnNat
<1> QED
  BY <1>3, <1>4, <1>5 DEF b

\* All allocations of one GPU less.
LEMMA BytesReset ==
    ASSUME NEW a \in Allocs, NEW g, NEW h
    PROVE  BytesOn(Without(a, TokensOn(a, g)), h)
             = IF h = g THEN 0 ELSE BytesOn(a, h)
<1> DEFINE K == TokensOn(a, g)
           b == Without(a, K)
           f == [j \in DOMAIN a |-> a[j].size]
           e == [j \in DOMAIN b |-> b[j].size]
<1>1. b \in Allocs /\ DOMAIN b = DOMAIN a \ K
  BY AllocsWithout
<1>2. \A j \in DOMAIN b : a[j] = b[j]
  BY DEF Without
<1>3. CASE h = g
  <2>1. TokensOn(b, h) = {}
    BY <1>1, <1>2, <1>3 DEF TokensOn
  <2> QED
    BY <2>1, <1>3, SumEmpty DEF BytesOn
<1>4. CASE h # g
  <2>1. TokensOn(b, h) = TokensOn(a, h)
    BY <1>1, <1>2, <1>4 DEF TokensOn
  <2>2. IsFiniteSet(TokensOn(a, h)) /\ TokensOn(a, h) \subseteq DOMAIN a
    BY FiniteAllocs DEF TokensOn
  <2>3. \A j \in TokensOn(a, h) : e[j] = f[j]
    <3>1. TokensOn(a, h) \subseteq DOMAIN b
      BY <2>1 DEF TokensOn
    <3> QED
      BY <3>1, <2>2, <1>2
  <2>4. /\ BytesOn(a, h) = SumFunctionOnSet(f, TokensOn(a, h))
        /\ BytesOn(b, h) = SumFunctionOnSet(e, TokensOn(b, h))
    BY DEF BytesOn
  <2> HIDE DEF e, f, b
  <2>5. BytesOn(b, h) = BytesOn(a, h)
    BY <2>1, <2>2, <2>3, <2>4, SumAgree
  <2> QED
    BY <2>5, <1>4 DEF b
<1> QED
  BY <1>3, <1>4

\* Nothing tracked, nothing summed.
LEMMA BytesNone ==
    ASSUME NEW h
    PROVE  BytesOn(NoProcs, h) = 0
<1>1. TokensOn(NoProcs, h) = {}
  BY DEF TokensOn, NoProcs
<1> QED
  BY <1>1, SumEmpty DEF BytesOn

\* The tracked bytes of all programs.
AllBytes(e, g) == SumFunction([p \in Program |-> BytesOn(e[p].allocs, g)])

\* A step of one program changes the sum by what it changes of its own.
LEMMA AllBytesChange ==
    ASSUME NEW e \in [Program -> Engine], NEW p \in Program, NEW x \in Engine,
           NEW g
    PROVE  /\ AllBytes(e, g) \in Nat
           /\ BytesOn(e[p].allocs, g) <= AllBytes(e, g)
           /\ AllBytes([e EXCEPT ![p] = x], g)
                = AllBytes(e, g) - BytesOn(e[p].allocs, g) + BytesOn(x.allocs, g)
<1> DEFINE y == [e EXCEPT ![p] = x]
           f == [q \in Program |-> BytesOn(e[q].allocs, g)]
           h == [q \in Program |-> BytesOn(y[q].allocs, g)]
           R == Program \ {p}
<1>1. IsFiniteSet(Program) /\ IsFiniteSet(R)
  BY FS_Subset, EngineAssumption
<1>2. \A z \in Engine : BytesOn(z.allocs, g) \in Nat
  BY BytesOnNat DEF Engine
<1>3. /\ \A q \in Program : f[q] \in Nat /\ h[q] \in Nat
      /\ \A q \in R : f[q] = h[q]
      /\ f[p] = BytesOn(e[p].allocs, g) /\ h[p] = BytesOn(x.allocs, g)
  BY <1>2
<1>4. /\ AllBytes(e, g) = SumFunctionOnSet(f, Program)
      /\ AllBytes(y, g) = SumFunctionOnSet(h, Program)
  BY DEF AllBytes, SumFunction
<1> HIDE DEF y, f, h
<1>5. /\ SumFunctionOnSet(f, Program) = f[p] + SumFunctionOnSet(f, R)
      /\ SumFunctionOnSet(h, Program) = h[p] + SumFunctionOnSet(h, R)
  BY <1>1, <1>3, SumRemove
<1>6. SumFunctionOnSet(f, R) = SumFunctionOnSet(h, R)
  BY <1>1, <1>3, SumAgree
<1>7. SumFunctionOnSet(f, R) \in Nat
  BY <1>1, <1>3, SumNat
<1>8. f[p] \in Nat /\ h[p] \in Nat
  BY <1>3
<1> QED
  BY <1>3, <1>4, <1>5, <1>6, <1>7, <1>8 DEF y

-----------------------------------------------------------------------------
(* The charge of every device is exact. *)

\* Programs ask for whole numbers of MiB.
WholeRequests ==
    /\ \A n \in Sizes : ShownExactly(n)
    /\ \A g \in GPU : \A n \in Others[g] : ShownExactly(n)

\* The inductive invariant of the balance: every byte of a device is free,
\* owned by a row, or charged to somebody.
ChargeInv ==
    /\ SafetyInv
    /\ \A g \in GPU : FullPool(dev[g], g)
    /\ ChargedExactly

\* Sums of whole numbers of MiB are whole numbers of MiB.
LEMMA BytesOnWhole ==
    ASSUME WholeRequests, NEW a \in Allocs, NEW g
    PROVE  ShownExactly(BytesOn(a, g))
<1> DEFINE f == [k \in DOMAIN a |-> a[k].size]
           A == { n \in Nat : ShownExactly(n) }
<1>1. ShownExactly(0)
  <2>1. 0 = 0 * MiB
    BY UnitAssumption
  <2> QED
    BY <2>1, WholeIntro
<1>2. 0 \in A /\ \A m, n \in A : m + n \in A
  BY <1>1, WholeSum
<1>3. IsFiniteSet(TokensOn(a, g)) /\ TokensOn(a, g) \subseteq DOMAIN a
  BY FiniteAllocs DEF TokensOn
<1>4. \A k \in TokensOn(a, g) : f[k] \in A
  BY <1>3, AllocsElim DEF WholeRequests
<1> HIDE DEF f, A
<1>5. SumFunctionOnSet(f, TokensOn(a, g)) \in A
  BY <1>2, <1>3, <1>4, SumClosed
<1> QED
  BY <1>5 DEF BytesOn, f, A

\* What a full pool shows of itself is itself, and its rows are exact.
LEMMA PoolShown ==
    ASSUME ChargeInv, NEW g \in GPU
    PROVE  /\ Observed(dev[g]) = dev[g] /\ dev[g] \in Device
           /\ dev[g].used \in Nat /\ dev[g].free \in Nat
           /\ SumFits(dev[g].mem) /\ ProcessBytes(dev[g].mem) \in Nat
           /\ ProcessBytes(dev[g].mem) = OwnedBytes(dev[g].mem)
           /\ OwnedBytes(dev[g].mem) <= dev[g].used
           /\ Beyond(g) \in Int
<1> DEFINE d == dev[g]
<1>1. d \in Device /\ FullPool(d, g) /\ Covered(d) /\ Beyond(g) \in Int
  BY DEF ChargeInv, SafetyInv, DeviceInv, Beyond
<1> HIDE DEF d
<1>2. /\ d.used \in Nat /\ d.free \in Nat /\ d.used <= MaxU64
      /\ SeenBytes(d.used) = d.used /\ SeenBytes(d.free) = d.free
  BY <1>1, FullPoolShown, UnitAssumption DEF Device, U64
<1>3. Observed(d) = d
  BY <1>1, <1>2 DEF Observed, Device
<1>4. ProcessMiB(d.mem) \in Nat /\ ProcessMiB(d.mem) * MiB <= d.used
  BY <1>1 DEF Covered, OwnedBytes
<1>5. SumFits(d.mem)
  BY <1>2, <1>4, UnitAssumption DEF SumFits
<1> QED
  BY <1>1, <1>2, <1>3, <1>4, <1>5, ProcessBytesExact DEF d, OwnedBytes

\* A manager's ReserveMemory moves n bytes into what no row owns.
LEMMA ReserveCharges ==
    ASSUME ChargeInv, NEW g \in GPU, NEW n \in Nat, ShownExactly(n),
           CanReserve(Observed(dev[g]), n),
           dev' = [dev EXCEPT ![g] = Reserve(Observed(dev[g]), n)],
           NEW h \in GPU
    PROVE  /\ FullPool(dev'[h], h)
           /\ NonProcessUsed(dev'[h])
                = NonProcessUsed(dev[h]) + (IF h = g THEN n ELSE 0)
<1>1. FullPool(dev[h], h) /\ FullPool(dev[g], g) /\ dev \in [GPU -> Device]
  BY DEF ChargeInv, SafetyInv, DeviceInv
<1>2. Observed(dev[g]) = dev[g] /\ dev[g] \in Device /\ dev[g].used \in 0 .. MaxU64
      /\ dev[g].free \in 0 .. MaxU64 /\ MaxU64 \in Nat
      /\ ProcessBytes(dev[g].mem) \in Nat
  BY PoolShown, UnitAssumption DEF Device, U64
<1>3. CASE h = g
  <2>1. n \in U64 /\ CanReserve(dev[g], n)
    BY <1>2 DEF CanReserve, U64
  <2>2. dev'[g] = Reserve(dev[g], n)
    BY <1>1, <1>2
  <2>3. /\ Reserve(dev[g], n).used = dev[g].used + n
        /\ Reserve(dev[g], n).mem = dev[g].mem
    BY <1>2 DEF Reserve, Device
  <2>4. FullPool(Reserve(dev[g], n), g)
    BY <1>1, <1>2, <2>1, MemoryKeepsPool
  <2>5. NonProcessUsed(Reserve(dev[g], n)) = NonProcessUsed(dev[g]) + n
    BY <1>2, <2>3 DEF NonProcessUsed
  <2> QED
    BY <1>3, <2>2, <2>4, <2>5
<1>4. CASE h # g
  <2>1. dev'[h] = dev[h]
    BY <1>1, <1>4
  <2>2. NonProcessUsed(dev[h]) \in Int
    BY PoolShown DEF NonProcessUsed
  <2> QED
    BY <1>1, <1>4, <2>1, <2>2
<1> QED
  BY <1>3, <1>4

\* A manager's ReleaseMemory moves n bytes out of what no row owns.
LEMMA ReleaseCharges ==
    ASSUME ChargeInv, NEW g \in GPU, NEW n \in Nat, ShownExactly(n),
           CanRelease(Observed(dev[g]), n),
           dev' = [dev EXCEPT ![g] = Release(Observed(dev[g]), n)],
           NEW h \in GPU
    PROVE  /\ FullPool(dev'[h], h)
           /\ NonProcessUsed(dev'[h])
                = NonProcessUsed(dev[h]) - (IF h = g THEN n ELSE 0)
<1>1. FullPool(dev[h], h) /\ FullPool(dev[g], g) /\ dev \in [GPU -> Device]
  BY DEF ChargeInv, SafetyInv, DeviceInv
<1>2. Observed(dev[g]) = dev[g] /\ dev[g] \in Device /\ dev[g].used \in 0 .. MaxU64
      /\ dev[g].free \in 0 .. MaxU64 /\ MaxU64 \in Nat
      /\ ProcessBytes(dev[g].mem) \in Nat
  BY PoolShown, UnitAssumption DEF Device, U64
<1>3. CASE h = g
  <2>1. n \in U64 /\ CanRelease(dev[g], n)
    BY <1>2 DEF CanRelease, AddFits, U64
  <2>2. dev'[g] = Release(dev[g], n)
    BY <1>1, <1>2
  <2>3. /\ Release(dev[g], n).used = dev[g].used - n
        /\ Release(dev[g], n).mem = dev[g].mem
    BY <1>2 DEF Release, Device
  <2>4. FullPool(Release(dev[g], n), g)
    BY <1>1, <1>2, <2>1, MemoryKeepsPool
  <2>5. NonProcessUsed(Release(dev[g], n)) = NonProcessUsed(dev[g]) - n
    BY <1>2, <2>3 DEF NonProcessUsed
  <2> QED
    BY <1>3, <2>2, <2>4, <2>5
<1>4. CASE h # g
  <2>1. dev'[h] = dev[h]
    BY <1>1, <1>4
  <2>2. NonProcessUsed(dev[h]) \in Int
    BY PoolShown DEF NonProcessUsed
  <2> QED
    BY <1>1, <1>4, <2>1, <2>2
<1> QED
  BY <1>3, <1>4

\* The tracked bytes of all programs are a number.
LEMMA AllBytesNat ==
    ASSUME NEW e \in [Program -> Engine], NEW g
    PROVE  AllBytes(e, g) \in Nat
<1> DEFINE f == [q \in Program |-> BytesOn(e[q].allocs, g)]
<1>1. IsFiniteSet(Program) /\ \A q \in Program : f[q] \in Nat
  BY BytesOnNat, EngineAssumption DEF Engine
<1>2. AllBytes(e, g) = SumFunctionOnSet(f, Program)
  BY DEF AllBytes, SumFunction
<1> HIDE DEF f
<1> QED
  BY <1>1, <1>2, SumNat

\* What no row owns is a number.
LEMMA NonProcessInt ==
    ASSUME NEW d \in Device, Covered(d)
    PROVE  NonProcessUsed(d) \in Int
<1>1. d.used \in Nat /\ ProcessMiB(d.mem) \in Nat
  BY UnitAssumption DEF Device, U64, Covered
<1>2. ProcessBytes(d.mem) \in Int
  BY <1>1, UnitAssumption DEF ProcessBytes, OwnedBytes
<1> QED
  BY <1>1, <1>2 DEF NonProcessUsed

\* ChargedExactly, with the sum over all programs named.
LEMMA ChargedIsAllBytes ==
    ChargedExactly <=>
      \A g \in GPU : NonProcessUsed(dev[g])
                       = NonProcessUsed(BaseDevice(g)) + Beyond(g) + AllBytes(eng, g)
BY DEF ChargedExactly, AllBytes, TrackedBytes

\* The balance of one GPU: a step of program p is exact when what it charges
\* the device is what it adds to the tracked and the other bytes.
LEMMA BalancedStep ==
    ASSUME ChargeInv, SafetyInv', NEW p \in Program, NEW x \in Engine,
           eng' = [eng EXCEPT ![p] = x],
           \A h \in GPU : FullPool(dev'[h], h),
           \A h \in GPU :
              NonProcessUsed(dev'[h]) - NonProcessUsed(dev[h])
                = Beyond(h)' - Beyond(h)
                    + BytesOn(x.allocs, h) - BytesOn(eng[p].allocs, h)
    PROVE  ChargeInv'
<1>1. ASSUME NEW h \in GPU
      PROVE  NonProcessUsed(dev'[h])
               = NonProcessUsed(BaseDevice(h)) + Beyond(h)' + AllBytes(eng', h)
  <2>1. NonProcessUsed(dev[h])
          = NonProcessUsed(BaseDevice(h)) + Beyond(h) + AllBytes(eng, h)
    BY ChargedIsAllBytes DEF ChargeInv
  <2>2. eng \in [Program -> Engine] /\ eng[p].allocs \in Allocs /\ x.allocs \in Allocs
    BY DEF ChargeInv, SafetyInv, EngineInv, Engine
  <2>3. /\ AllBytes(eng, h) \in Nat
        /\ AllBytes(eng', h)
             = AllBytes(eng, h) - BytesOn(eng[p].allocs, h) + BytesOn(x.allocs, h)
    BY <2>2, AllBytesChange
  <2>4. BytesOn(eng[p].allocs, h) \in Nat /\ BytesOn(x.allocs, h) \in Nat
    BY <2>2, BytesOnNat
  <2>5. Beyond(h) \in Int /\ Beyond(h)' \in Int
    BY DEF ChargeInv, SafetyInv, DeviceInv, Beyond
  <2>6. NonProcessUsed(dev[h]) \in Int
    BY PoolShown DEF NonProcessUsed
  <2>7. NonProcessUsed(dev'[h]) \in Int
    BY NonProcessInt DEF SafetyInv, DeviceInv
  <2>8. NonProcessUsed(BaseDevice(h)) \in Int
    BY BaseDeviceFits, NonProcessInt
  <2>9. NonProcessUsed(dev'[h]) - NonProcessUsed(dev[h])
                = Beyond(h)' - Beyond(h)
                    + BytesOn(x.allocs, h) - BytesOn(eng[p].allocs, h)
    OBVIOUS
  <2> DEFINE u == NonProcessUsed(dev[h])
             u1 == NonProcessUsed(dev'[h])
             c == NonProcessUsed(BaseDevice(h))
             b == Beyond(h)
             b1 == Beyond(h)'
             s == AllBytes(eng, h)
             s1 == AllBytes(eng', h)
             y == BytesOn(eng[p].allocs, h)
             z == BytesOn(x.allocs, h)
  <2>10. /\ u = c + b + s /\ u1 - u = b1 - b + z - y /\ s1 = s - y + z
         /\ u \in Int /\ u1 \in Int /\ c \in Int /\ b \in Int /\ b1 \in Int
         /\ s \in Int /\ y \in Int /\ z \in Int
    <3>1. s \in Int /\ y \in Int /\ z \in Int
      BY <2>3, <2>4
    <3> QED
      BY <3>1, <2>1, <2>3, <2>5, <2>6, <2>7, <2>8, <2>9
  <2> HIDE DEF u, u1, c, b, b1, s, s1, y, z
  <2>11. u1 = c + b1 + s1
    BY <2>10
  <2> QED
    BY <2>11 DEF u1, c, b1, s1
<1>2. ChargedExactly'
  BY <1>1 DEF ChargedExactly, AllBytes, TrackedBytes
<1> QED
  BY <1>2 DEF ChargeInv

\* A step that moves no byte and leaves the tracked allocations alone.
LEMMA QuietKeepsCharge ==
    ASSUME ChargeInv, SafetyInv', UNCHANGED <<dev, others, stray>>,
           \A p \in Program : eng'[p].allocs = eng[p].allocs
    PROVE  ChargeInv'
<1>1. \A g \in GPU : AllBytes(eng', g) = AllBytes(eng, g)
  BY DEF AllBytes
<1>2. ChargedExactly'
  BY <1>1 DEF ChargeInv, ChargedExactly, AllBytes, TrackedBytes, Beyond
<1> QED
  BY <1>2 DEF ChargeInv

\* What a call returns with: an engine with the allocations of e.
LEMMA ReturnsWith ==
    ASSUME NEW t \in Thread, NEW e \in Engine, NEW status, ReturnWith(t, e, status)
    PROVE  \E x \in Engine : /\ x.allocs = e.allocs
                             /\ eng' = [eng EXCEPT ![Owner[t]] = x]
<1> DEFINE x == WithError(Unlocked(e, t), thr[t].api, status)
<1>1. x \in Engine /\ x.allocs = e.allocs
  BY ReturnedEngine
<1>2. eng' = [eng EXCEPT ![Owner[t]] = x]
  BY DEF ReturnWith
<1> HIDE DEF x
<1> QED
  BY <1>1, <1>2

\* A call that returns without a change of the allocations, and whose command
\* moved nothing.
LEMMA ReturnKeepsCharge ==
    ASSUME ChargeInv, SafetyInv', UNCHANGED <<dev, others, stray>>, NEW t \in Thread,
           NEW e \in Engine, e.allocs = E(t).allocs, NEW status,
           ReturnWith(t, e, status)
    PROVE  ChargeInv'
<1>1. PICK x \in Engine : /\ x.allocs = e.allocs
                          /\ eng' = [eng EXCEPT ![Owner[t]] = x]
  BY ReturnsWith
<1>2. eng \in [Program -> Engine]
  BY DEF ChargeInv, SafetyInv, EngineInv
<1>3. \A p \in Program : eng'[p].allocs = eng[p].allocs
  BY <1>1, <1>2 DEF E
<1> QED
  BY <1>3, QuietKeepsCharge

\* AnswerLost: the command has moved b bytes, positive or negative, and the
\* engine does not know.
LEMMA LostKeepsCharge ==
    ASSUME ChargeInv, SafetyInv', NEW t \in Thread, NEW e \in Engine,
           e.allocs = E(t).allocs, NEW status, ReturnWith(t, e, status),
           NEW g \in GPU, NEW b \in Int, AnswerLost(g, b),
           \A h \in GPU :
              /\ FullPool(dev'[h], h)
              /\ NonProcessUsed(dev'[h])
                   = NonProcessUsed(dev[h]) + (IF h = g THEN b ELSE 0)
    PROVE  ChargeInv'
<1>1. PICK x \in Engine : /\ x.allocs = e.allocs
                          /\ eng' = [eng EXCEPT ![Owner[t]] = x]
  BY ReturnsWith
<1>2. /\ eng \in [Program -> Engine] /\ Owner[t] \in Program
      /\ others \in [GPU -> Int] /\ stray \in [GPU -> Int]
  BY EngineAssumption DEF ChargeInv, SafetyInv, EngineInv, DeviceInv
<1>3. ASSUME NEW h \in GPU
      PROVE  NonProcessUsed(dev'[h]) - NonProcessUsed(dev[h])
               = Beyond(h)' - Beyond(h)
                   + BytesOn(x.allocs, h) - BytesOn(eng[Owner[t]].allocs, h)
  <2>1. x.allocs = eng[Owner[t]].allocs /\ x.allocs \in Allocs
    BY <1>1, <1>2 DEF E, Engine
  <2>2. BytesOn(x.allocs, h) \in Int
    BY <2>1, BytesOnNat
  <2>3. /\ Beyond(h) \in Int
        /\ Beyond(h)' = Beyond(h) + (IF h = g THEN b ELSE 0)
    BY <1>2 DEF AnswerLost, Beyond
  <2>4. NonProcessUsed(dev[h]) \in Int
    BY PoolShown DEF NonProcessUsed
  <2>5. NonProcessUsed(dev'[h]) = NonProcessUsed(dev[h]) + (IF h = g THEN b ELSE 0)
    OBVIOUS
  <2> QED
    BY <2>1, <2>2, <2>3, <2>4, <2>5
<1> QED
  BY <1>1, <1>2, <1>3, BalancedStep

\* An allocation charges the device what the engine then tracks.
LEMMA AllocReserveCharge ==
    ASSUME ChargeInv, SafetyInv', WholeRequests, NEW t \in Thread, AllocReserve(t)
    PROVE  ChargeInv'
<1> DEFINE g == E(t).current
           n == thr[t].size
           k == thr[t].token
<1>1. /\ E(t) \in Engine /\ thr[t] \in Call /\ CallOK(t, E(t), thr[t])
      /\ Owner[t] \in Program /\ thr[t].pc = "reserve"
  BY OfThread, AllocReserveCases DEF ChargeInv, SafetyInv
<1>2. /\ n \in Sizes /\ g \in GPU /\ k \in Token /\ k \notin DOMAIN E(t).allocs
      /\ E(t).allocs \in Allocs
  BY <1>1 DEF CallOK, Call, Engine, Untracked, Allocating
<1>3. n \in Nat /\ ShownExactly(n)
  <2> HIDE DEF n
  <2> QED
    BY <1>2, SizesAreBytes DEF WholeRequests
<1> DEFINE gone == [E(t) EXCEPT !.live = @ \ {k}]
<1>4. gone \in Engine /\ gone.allocs = E(t).allocs
  BY <1>1 DEF Engine
<1>5. ASSUME NEW status, MallocFails(t, status), UNCHANGED trouble \/ Refused
      PROVE  ChargeInv'
  <2>1. UNCHANGED <<dev, others, stray>> /\ ReturnWith(t, gone, status)
    BY <1>5 DEF MallocFails, trouble, Refused
  <2> HIDE DEF gone
  <2> QED
    BY <2>1, <1>4, ReturnKeepsCharge
<1> DEFINE Stores == /\ CanReserve(Observed(dev[g]), n)
                     /\ dev' = [dev EXCEPT ![g] = Reserve(Observed(dev[g]), n)]
<1>6. ASSUME Stores
      PROVE  \A h \in GPU : /\ FullPool(dev'[h], h)
                            /\ NonProcessUsed(dev'[h])
                                 = NonProcessUsed(dev[h]) + (IF h = g THEN n ELSE 0)
  <2> HIDE DEF g, n
  <2> QED
    BY <1>2, <1>3, <1>6, ReserveCharges
<1>7. ASSUME Stores, AnswerLost(g, n), ReturnWith(t, gone, "unknown")
      PROVE  ChargeInv'
  <2> HIDE DEF gone, Stores, g, n
  <2> QED
    BY <1>2, <1>3, <1>4, <1>6, <1>7, LostKeepsCharge
<1>8. ASSUME Stores, UNCHANGED trouble,
             ReturnWith(t, [E(t) EXCEPT !.allocs = Grown(t),
                                        !.successes = @ + 1], "success")
      PROVE  ChargeInv'
  <2> DEFINE s == E(t).successes + 1
             e == [E(t) EXCEPT !.allocs = Grown(t), !.successes = s]
  <2>1. s \in Nat /\ ReturnWith(t, e, "success")
    BY <1>1, <1>8 DEF Engine
  <2>2. Grown(t) \in Allocs /\ DOMAIN Grown(t) = DOMAIN E(t).allocs \cup {k}
    BY <1>2, AllocsAdd DEF Grown
  <2> HIDE DEF s
  <2>3. e \in Engine /\ e.allocs = Grown(t)
    BY <1>1, <2>1, <2>2 DEF Engine
  <2> HIDE DEF e
  <2>4. PICK x \in Engine : /\ x.allocs = Grown(t)
                            /\ eng' = [eng EXCEPT ![Owner[t]] = x]
    BY <2>1, <2>3, ReturnsWith
  <2>5. /\ \A j \in DOMAIN E(t).allocs : Grown(t)[j] = E(t).allocs[j]
        /\ Grown(t)[k].gpu = g /\ Grown(t)[k].size = n
    BY <1>2 DEF Grown
  <2>6. ASSUME NEW h \in GPU
        PROVE  NonProcessUsed(dev'[h]) - NonProcessUsed(dev[h])
                 = Beyond(h)' - Beyond(h)
                     + BytesOn(x.allocs, h) - BytesOn(eng[Owner[t]].allocs, h)
    <3>1. BytesOn(Grown(t), h) = BytesOn(E(t).allocs, h) + (IF g = h THEN n ELSE 0)
      <4>1. BytesOn(Grown(t), h) = BytesOn(E(t).allocs, h)
              + (IF Grown(t)[k].gpu = h THEN Grown(t)[k].size ELSE 0)
        <5> HIDE DEF k
        <5> QED
          BY <1>2, <2>2, <2>5, BytesAdd
      <4> QED
        BY <4>1, <2>5
    <3>2. BytesOn(E(t).allocs, h) \in Nat
      BY <1>2, BytesOnNat
    <3>3. Beyond(h) \in Int /\ Beyond(h)' = Beyond(h)
      BY <1>8 DEF trouble, ChargeInv, SafetyInv, DeviceInv, Beyond
    <3>4. NonProcessUsed(dev[h]) \in Int
      BY PoolShown DEF NonProcessUsed
    <3>5. NonProcessUsed(dev'[h]) = NonProcessUsed(dev[h]) + (IF h = g THEN n ELSE 0)
      BY <1>6, <1>8
    <3> HIDE DEF g, n
    <3> QED
      BY <3>1, <3>2, <3>3, <3>4, <3>5, <1>3, <2>4 DEF E
  <2> QED
    BY <1>1, <1>6, <1>8, <2>4, <2>6, BalancedStep
<1> QED
  <2> HIDE DEF gone
  <2> QED
    BY <1>5, <1>7, <1>8, AllocReserveCases DEF gone

\* Free gives back what the engine then no longer tracks.
LEMMA FreeReleaseCharge ==
    ASSUME ChargeInv, SafetyInv', WholeRequests, NEW t \in Thread, FreeRelease(t)
    PROVE  ChargeInv'
<1> DEFINE k == thr[t].token
           a == E(t).allocs[k]
           g == a.gpu
           n == a.size
<1>1. /\ E(t) \in Engine /\ E(t).allocs \in Allocs /\ Owner[t] \in Program
      /\ eng \in [Program -> Engine]
  BY OfThread DEF ChargeInv, SafetyInv, EngineInv, Engine
<1>2. ASSUME NEW status, Return(t, status), UNCHANGED dev,
             UNCHANGED trouble \/ Refused
      PROVE  ChargeInv'
  <2>1. UNCHANGED <<dev, others, stray>> /\ ReturnWith(t, E(t), status)
    BY <1>2 DEF Return, trouble, Refused
  <2> QED
    BY <2>1, <1>1, ReturnKeepsCharge
<1> DEFINE Stores == /\ k \in DOMAIN E(t).allocs
                     /\ CanRelease(Observed(dev[g]), n)
                     /\ dev' = [dev EXCEPT ![g] = Release(Observed(dev[g]), n)]
<1>3. ASSUME Stores
      PROVE  /\ g \in GPU /\ n \in Nat
             /\ \A h \in GPU : /\ FullPool(dev'[h], h)
                               /\ NonProcessUsed(dev'[h])
                                    = NonProcessUsed(dev[h]) - (IF h = g THEN n ELSE 0)
  <2>1. g \in GPU /\ n \in Sizes /\ n \in Nat
    BY <1>1, <1>3, AllocsElim
  <2> HIDE DEF g, n
  <2>2. ShownExactly(n)
    BY <2>1 DEF WholeRequests
  <2> QED
    BY <1>3, <2>1, <2>2, ReleaseCharges
<1>4. ASSUME Stores, AnswerLost(g, 0 - n), Return(t, "unknown")
      PROVE  ChargeInv'
  <2>1. /\ g \in GPU /\ 0 - n \in Int
        /\ \A h \in GPU : /\ FullPool(dev'[h], h)
                          /\ NonProcessUsed(dev'[h])
                               = NonProcessUsed(dev[h]) + (IF h = g THEN 0 - n ELSE 0)
    <3>1. g \in GPU /\ n \in Nat
      BY <1>3, <1>4
    <3> HIDE DEF g, n
    <3>2. \A h \in GPU : NonProcessUsed(dev[h]) \in Int
      BY PoolShown DEF NonProcessUsed
    <3>3. \A h \in GPU : /\ FullPool(dev'[h], h)
                         /\ NonProcessUsed(dev'[h])
                              = NonProcessUsed(dev[h]) - (IF h = g THEN n ELSE 0)
      BY <1>3, <1>4
    <3> QED
      BY <3>1, <3>2, <3>3
  <2>2. ReturnWith(t, E(t), "unknown")
    BY <1>4 DEF Return
  <2> HIDE DEF g, n, Stores
  <2> QED
    BY <1>1, <1>4, <2>1, <2>2, LostKeepsCharge
<1>5. ASSUME Stores, UNCHANGED trouble,
             eng' = [eng EXCEPT ![Owner[t]].allocs = Without(@, {k}),
                                ![Owner[t]].mu = None]
      PROVE  ChargeInv'
  <2> DEFINE x == [E(t) EXCEPT !.allocs = Without(@, {k}), !.mu = None]
  <2>1. Without(E(t).allocs, {k}) \in Allocs
    BY <1>1, AllocsWithout
  <2>2. x \in Engine /\ x.allocs = Without(E(t).allocs, {k})
    BY <1>1, <2>1 DEF Engine
  <2>3. eng' = [eng EXCEPT ![Owner[t]] = x]
    BY <1>1, <1>5 DEF E
  <2> HIDE DEF x
  <2>4. ASSUME NEW h \in GPU
        PROVE  NonProcessUsed(dev'[h]) - NonProcessUsed(dev[h])
                 = Beyond(h)' - Beyond(h)
                     + BytesOn(x.allocs, h) - BytesOn(eng[Owner[t]].allocs, h)
    <3>1. BytesOn(x.allocs, h) = BytesOn(E(t).allocs, h) - (IF g = h THEN n ELSE 0)
      BY <1>1, <1>5, <2>2, BytesRemove
    <3>2. BytesOn(E(t).allocs, h) \in Nat
      BY <1>1, BytesOnNat
    <3>3. Beyond(h) \in Int /\ Beyond(h)' = Beyond(h)
      <4>1. UNCHANGED <<others, stray>>
        BY <1>5 DEF trouble
      <4> QED
        BY <4>1, PoolShown DEF Beyond
    <3>4. NonProcessUsed(dev[h]) \in Int
      BY PoolShown DEF NonProcessUsed
    <3>5. /\ n \in Nat
          /\ NonProcessUsed(dev'[h]) = NonProcessUsed(dev[h]) - (IF h = g THEN n ELSE 0)
      BY <1>3, <1>5
    <3> HIDE DEF g, n
    <3> QED
      BY <3>1, <3>2, <3>3, <3>4, <3>5 DEF E
  <2>5. \A h \in GPU : FullPool(dev'[h], h)
    BY <1>3, <1>5
  <2> QED
    BY <1>1, <2>2, <2>3, <2>4, <2>5, BalancedStep
<1> QED
  BY <1>2, <1>4, <1>5, FreeReleaseCases

\* So does a reset, for all allocations of the current device.
LEMMA ResetReleaseCharge ==
    ASSUME ChargeInv, SafetyInv', WholeRequests, NEW t \in Thread, ResetRelease(t)
    PROVE  ChargeInv'
<1> DEFINE g == E(t).current
           K == TokensOn(E(t).allocs, g)
           n == TrackedBytes(Owner[t], g)
<1>1. /\ E(t) \in Engine /\ E(t).allocs \in Allocs /\ Owner[t] \in Program
      /\ eng \in [Program -> Engine] /\ g \in GPU
  BY OfThread DEF ChargeInv, SafetyInv, EngineInv, Engine
<1>2. n = BytesOn(E(t).allocs, g) /\ n \in Nat /\ ShownExactly(n)
  BY <1>1, BytesOnNat, BytesOnWhole DEF TrackedBytes, E
<1> HIDE DEF n
<1>3. ASSUME NEW status, Return(t, status), UNCHANGED dev,
             UNCHANGED trouble \/ Refused
      PROVE  ChargeInv'
  <2>1. UNCHANGED <<dev, others, stray>> /\ ReturnWith(t, E(t), status)
    BY <1>3 DEF Return, trouble, Refused
  <2> QED
    BY <2>1, <1>1, ReturnKeepsCharge
<1> DEFINE Stores == /\ CanRelease(Observed(dev[g]), n)
                     /\ dev' = [dev EXCEPT ![g] = Release(Observed(dev[g]), n)]
<1>4. ASSUME Stores
      PROVE  \A h \in GPU : /\ FullPool(dev'[h], h)
                            /\ NonProcessUsed(dev'[h])
                                 = NonProcessUsed(dev[h]) - (IF h = g THEN n ELSE 0)
  <2> HIDE DEF g
  <2> QED
    BY <1>1, <1>2, <1>4, ReleaseCharges
<1>5. ASSUME Stores, AnswerLost(g, 0 - n), Return(t, "unknown")
      PROVE  ChargeInv'
  <2> HIDE DEF g
  <2>1. /\ 0 - n \in Int
        /\ \A h \in GPU : /\ FullPool(dev'[h], h)
                          /\ NonProcessUsed(dev'[h])
                               = NonProcessUsed(dev[h]) + (IF h = g THEN 0 - n ELSE 0)
    <3>1. \A h \in GPU : NonProcessUsed(dev[h]) \in Int
      BY PoolShown DEF NonProcessUsed
    <3>2. \A h \in GPU : /\ FullPool(dev'[h], h)
                         /\ NonProcessUsed(dev'[h])
                              = NonProcessUsed(dev[h]) - (IF h = g THEN n ELSE 0)
      BY <1>4, <1>5
    <3> QED
      BY <1>2, <3>1, <3>2
  <2>2. ReturnWith(t, E(t), "unknown")
    BY <1>5 DEF Return
  <2> HIDE DEF Stores
  <2> QED
    BY <1>1, <1>5, <2>1, <2>2, LostKeepsCharge
<1>6. ASSUME Stores, UNCHANGED trouble,
             ReturnWith(t, [E(t) EXCEPT !.allocs = Without(@, K)], "success")
      PROVE  ChargeInv'
  <2> DEFINE e == [E(t) EXCEPT !.allocs = Without(@, K)]
  <2>1. Without(E(t).allocs, K) \in Allocs
    BY <1>1, AllocsWithout
  <2>2. e \in Engine /\ e.allocs = Without(E(t).allocs, K)
    BY <1>1, <2>1 DEF Engine
  <2>3. ReturnWith(t, e, "success")
    BY <1>6
  <2> HIDE DEF e
  <2>4. PICK x \in Engine : /\ x.allocs = Without(E(t).allocs, K)
                            /\ eng' = [eng EXCEPT ![Owner[t]] = x]
    BY <2>3, <2>2, ReturnsWith
  <2>5. ASSUME NEW h \in GPU
        PROVE  NonProcessUsed(dev'[h]) - NonProcessUsed(dev[h])
                 = Beyond(h)' - Beyond(h)
                     + BytesOn(x.allocs, h) - BytesOn(eng[Owner[t]].allocs, h)
    <3>1. BytesOn(x.allocs, h) = IF h = g THEN 0 ELSE BytesOn(E(t).allocs, h)
      BY <1>1, <2>4, BytesReset
    <3>2. BytesOn(E(t).allocs, h) \in Nat
      BY <1>1, BytesOnNat
    <3>3. Beyond(h) \in Int /\ Beyond(h)' = Beyond(h)
      BY <1>6 DEF trouble, ChargeInv, SafetyInv, DeviceInv, Beyond
    <3>4. NonProcessUsed(dev[h]) \in Int
      BY PoolShown DEF NonProcessUsed
    <3>5. NonProcessUsed(dev'[h]) = NonProcessUsed(dev[h]) - (IF h = g THEN n ELSE 0)
      BY <1>4, <1>6
    <3>6. E(t).allocs = eng[Owner[t]].allocs
      BY DEF E
    <3> HIDE DEF g
    <3> QED
      BY <3>1, <3>2, <3>3, <3>4, <3>5, <3>6, <1>2
  <2> QED
    BY <1>1, <1>4, <1>6, <2>4, <2>5, BalancedStep
<1> QED
  BY <1>3, <1>5, <1>6, ResetReleaseCases DEF n

\* What others reserve and release is theirs.
LEMMA OtherProgramCharge ==
    ASSUME ChargeInv, SafetyInv', WholeRequests, NEW g \in GPU, OtherProgram(g)
    PROVE  ChargeInv'
<1> DEFINE d == Observed(dev[g])
<1>1. PICK n \in Others[g] :
        \/ /\ CanReserve(d, n)
           /\ dev' = [dev EXCEPT ![g] = Reserve(d, n)]
           /\ others' = [others EXCEPT ![g] = @ + n]
        \/ /\ CanRelease(d, n)
           /\ dev' = [dev EXCEPT ![g] = Release(d, n)]
           /\ others' = [others EXCEPT ![g] = @ - n]
  BY DEF OtherProgram
<1>2. /\ n \in Nat /\ ShownExactly(n) /\ UNCHANGED stray
      /\ others \in [GPU -> Int] /\ stray \in [GPU -> Int]
  BY OthersAreBytes
     DEF OtherProgram, WholeRequests, ChargeInv, SafetyInv, DeviceInv
<1>3. ASSUME NEW h \in GPU
      PROVE  /\ FullPool(dev'[h], h)
             /\ NonProcessUsed(dev'[h]) - NonProcessUsed(dev[h])
                  = Beyond(h)' - Beyond(h)
  <2>1. NonProcessUsed(dev[h]) \in Int
    BY PoolShown DEF NonProcessUsed
  <2>2. CASE /\ CanReserve(d, n)
             /\ dev' = [dev EXCEPT ![g] = Reserve(d, n)]
             /\ others' = [others EXCEPT ![g] = @ + n]
    <3>1. /\ FullPool(dev'[h], h)
          /\ NonProcessUsed(dev'[h]) = NonProcessUsed(dev[h]) + (IF h = g THEN n ELSE 0)
      BY <1>2, <2>2, ReserveCharges
    <3>2. Beyond(h)' = Beyond(h) + (IF h = g THEN n ELSE 0) /\ Beyond(h) \in Int
      BY <1>2, <2>2 DEF Beyond
    <3> QED
      BY <1>2, <2>1, <3>1, <3>2
  <2>3. CASE /\ CanRelease(d, n)
             /\ dev' = [dev EXCEPT ![g] = Release(d, n)]
             /\ others' = [others EXCEPT ![g] = @ - n]
    <3>1. /\ FullPool(dev'[h], h)
          /\ NonProcessUsed(dev'[h]) = NonProcessUsed(dev[h]) - (IF h = g THEN n ELSE 0)
      BY <1>2, <2>3, ReleaseCharges
    <3>2. Beyond(h)' = Beyond(h) - (IF h = g THEN n ELSE 0) /\ Beyond(h) \in Int
      BY <1>2, <2>3 DEF Beyond
    <3> QED
      BY <1>2, <2>1, <3>1, <3>2
  <2> QED
    BY <1>1, <2>2, <2>3
<1>4. UNCHANGED eng
  BY DEF OtherProgram
<1>5. ASSUME NEW h \in GPU
      PROVE  NonProcessUsed(dev'[h])
               = NonProcessUsed(BaseDevice(h)) + Beyond(h)' + AllBytes(eng', h)
  <2>1. NonProcessUsed(dev[h])
          = NonProcessUsed(BaseDevice(h)) + Beyond(h) + AllBytes(eng, h)
    BY ChargedIsAllBytes DEF ChargeInv
  <2>2. NonProcessUsed(dev[h]) \in Int /\ Beyond(h) \in Int /\ Beyond(h)' \in Int
    BY <1>2, PoolShown DEF NonProcessUsed, SafetyInv, DeviceInv, Beyond
  <2>3. AllBytes(eng, h) \in Int
    BY AllBytesNat DEF ChargeInv, SafetyInv, EngineInv
  <2>4. NonProcessUsed(BaseDevice(h)) \in Int /\ NonProcessUsed(dev'[h]) \in Int
    BY BaseDeviceFits, NonProcessInt DEF SafetyInv, DeviceInv
  <2>5. NonProcessUsed(dev'[h]) - NonProcessUsed(dev[h]) = Beyond(h)' - Beyond(h)
    BY <1>3
  <2>6. AllBytes(eng', h) = AllBytes(eng, h)
    BY <1>4
  <2> QED
    BY <2>1, <2>2, <2>3, <2>4, <2>5, <2>6
<1>6. ChargedExactly'
  BY <1>5 DEF ChargedExactly, AllBytes, TrackedBytes
<1> QED
  BY <1>3, <1>6 DEF ChargeInv

\* What a program leaves behind when it ends is stray.
LEMMA ExitCharge ==
    ASSUME ChargeInv, SafetyInv', NEW p \in Program, Exit(p)
    PROVE  ChargeInv'
<1> DEFINE x == NewEngine(TRUE)
<1>1. x \in Engine /\ x.allocs = NoProcs
  BY NewEngineOK DEF NewEngine
<1>2. eng' = [eng EXCEPT ![p] = x]
  BY DEF Exit
<1> HIDE DEF x
<1>3. ASSUME NEW h \in GPU
      PROVE  /\ FullPool(dev'[h], h)
             /\ NonProcessUsed(dev'[h]) - NonProcessUsed(dev[h])
                  = Beyond(h)' - Beyond(h)
                      + BytesOn(x.allocs, h) - BytesOn(eng[p].allocs, h)
  <2>1. NonProcessUsed(dev[h]) \in Int /\ Beyond(h) \in Int
    BY PoolShown DEF NonProcessUsed
  <2>2. dev'[h] = dev[h] /\ Beyond(h)' = Beyond(h) + BytesOn(eng[p].allocs, h)
    <3>1. /\ others[h] \in Int /\ stray[h] \in Int
          /\ BytesOn(eng[p].allocs, h) \in Nat
      BY BytesOnNat DEF ChargeInv, SafetyInv, EngineInv, DeviceInv, Engine
    <3> QED
      BY <3>1 DEF Exit, TrackedBytes, Beyond
  <2>3. BytesOn(x.allocs, h) = 0
    BY <1>1, BytesNone
  <2>4. BytesOn(eng[p].allocs, h) \in Nat
    BY BytesOnNat DEF ChargeInv, SafetyInv, EngineInv, Engine
  <2> QED
    BY <2>1, <2>2, <2>3, <2>4 DEF ChargeInv
<1> QED
  BY <1>1, <1>2, <1>3, BalancedStep

\* At first the device owes only what the configuration says.
LEMMA ChargeInit ==
    ASSUME Init
    PROVE  ChargeInv
<1>1. \A g \in GPU : dev[g] = BaseDevice(g) /\ Beyond(g) = 0
  BY DEF Init, Beyond
<1>2. \A g \in GPU : FullPool(dev[g], g)
  BY <1>1, BaseFullPool
<1>3. ASSUME NEW g \in GPU
      PROVE  NonProcessUsed(dev[g])
               = NonProcessUsed(BaseDevice(g)) + Beyond(g) + AllBytes(eng, g)
  <2> DEFINE f == [p \in Program |-> BytesOn(eng[p].allocs, g)]
             Z == {0}
  <2>1. \A p \in Program : f[p] \in Z
    <3>1. \A p \in Program : eng[p].allocs = NoProcs
      BY DEF Init, NewEngine
    <3> QED
      BY <3>1, BytesNone
  <2>2. IsFiniteSet(Program) /\ 0 \in Z /\ \A m, n \in Z : m + n \in Z
    BY EngineAssumption
  <2>3. AllBytes(eng, g) = SumFunctionOnSet(f, Program)
    BY DEF AllBytes, SumFunction
  <2> HIDE DEF f
  <2>4. SumFunctionOnSet(f, Program) \in Z
    <3> HIDE DEF Z
    <3> QED
      BY <2>1, <2>2, SumClosed
  <2>5. NonProcessUsed(BaseDevice(g)) \in Int
    BY BaseDeviceFits, NonProcessInt
  <2> QED
    BY <1>1, <2>3, <2>4, <2>5
<1>4. ChargedExactly
  BY <1>3, ChargedIsAllBytes
<1> QED
  BY <1>2, <1>4, SafetyInit DEF ChargeInv

\* Every step keeps the balance.
LEMMA ChargeNext ==
    ASSUME ChargeInv, WholeRequests, [Next]_vars
    PROVE  ChargeInv'
<1>1. SafetyInv'
  BY SafetyNext DEF ChargeInv
<1>2. eng \in [Program -> Engine] /\ \A t \in Thread : E(t) \in Engine
  BY OfThread DEF ChargeInv, SafetyInv, EngineInv
<1>3. ASSUME UNCHANGED <<dev, others, stray>>,
             \A p \in Program : eng'[p].allocs = eng[p].allocs
      PROVE  ChargeInv'
  BY <1>1, <1>3, QuietKeepsCharge
<1>4. ASSUME NEW t \in Thread, NEW e \in Engine, e.allocs = E(t).allocs,
             UNCHANGED dev, UNCHANGED trouble \/ Refused,
             \E status : ReturnWith(t, e, status)
      PROVE  ChargeInv'
  <2>1. UNCHANGED <<dev, others, stray>>
    BY <1>4 DEF trouble, Refused
  <2> QED
    BY <1>1, <1>4, <2>1, ReturnKeepsCharge
<1>5. ASSUME NEW t \in Thread,
             \/ Free(t) \/ DeviceReset(t) \/ GetLastError(t) \/ NotInitialized(t)
             \/ MemGetInfo(t) \/ AllocLock(t) \/ FreeLock(t) \/ ResetLock(t)
             \/ Malloc(t)
      PROVE  ChargeInv'
  <2>1. UNCHANGED <<dev, others, stray>>
    BY <1>5 DEF Free, DeviceReset, GetLastError, NotInitialized, MemGetInfo,
                AllocLock, FreeLock, ResetLock, Lock, Malloc, trouble
  <2>2. Owner[t] \in Program
    BY EngineAssumption
  <2>3. CASE Free(t) \/ DeviceReset(t) \/ MemGetInfo(t)
    BY <2>1, <2>3, <1>3 DEF Free, DeviceReset, MemGetInfo
  <2>4. CASE GetLastError(t) \/ NotInitialized(t)
    <3>1. \A p \in Program : eng'[p].allocs = eng[p].allocs
      BY <1>2, <2>2, <2>4 DEF GetLastError, NotInitialized, Engine
    <3> QED
      BY <2>1, <3>1, <1>3
  <2>5. CASE AllocLock(t) \/ FreeLock(t) \/ ResetLock(t)
    <3>1. \A p \in Program : eng'[p].allocs = eng[p].allocs
      BY <1>2, <2>2, <2>5 DEF AllocLock, FreeLock, ResetLock, Lock, Engine
    <3> QED
      BY <2>1, <3>1, <1>3
  <2>6. CASE Malloc(t)
    <3>1. PICK api \in Api :
            \/ \E k \in Token : eng' = [eng EXCEPT ![Owner[t]].live = @ \cup {k}]
            \/ eng' = [eng EXCEPT ![Owner[t]] = WithError(@, api, "oom")]
      BY <2>6, EngineAssumption DEF Malloc
    <3>2. \A e \in Engine : WithError(e, api, "oom").allocs = e.allocs
      BY DEF WithError, Engine
    <3>3. PICK x : /\ eng' = [eng EXCEPT ![Owner[t]] = x]
                   /\ x.allocs = eng[Owner[t]].allocs
      <4>1. eng[Owner[t]] \in Engine
        BY <1>2, <2>2
      <4>2. ASSUME NEW k \in Token,
                   eng' = [eng EXCEPT ![Owner[t]].live = @ \cup {k}]
            PROVE  /\ eng' = [eng EXCEPT ![Owner[t]] =
                                [eng[Owner[t]] EXCEPT !.live = @ \cup {k}]]
                   /\ [eng[Owner[t]] EXCEPT !.live = @ \cup {k}].allocs
                        = eng[Owner[t]].allocs
        BY <4>1, <4>2 DEF Engine
      <4> QED
        BY <3>1, <3>2, <4>1, <4>2
    <3>4. \A p \in Program : eng'[p].allocs = eng[p].allocs
      BY <1>2, <2>2, <3>3
    <3> QED
      BY <2>1, <3>4, <1>3
  <2> QED
    BY <1>5, <2>3, <2>4, <2>5, <2>6
<1>6. ASSUME NEW t \in Thread,
             SetDevice(t) \/ Query(t) \/ Unsupported(t) \/ MemoryInfo(t)
      PROVE  ChargeInv'
  <2>1. UNCHANGED dev /\ (UNCHANGED trouble \/ Refused)
    BY <1>6 DEF SetDevice, Query, Unsupported, MemoryInfo, trouble
  <2>2. \/ \E status : ReturnWith(t, E(t), status)
        \/ UNCHANGED eng
    BY <1>6 DEF SetDevice, Query, Unsupported, MemoryInfo, Return
  <2>3. CASE UNCHANGED eng
    <3>1. UNCHANGED <<dev, others, stray>>
      BY <2>1 DEF trouble, Refused
    <3> QED
      BY <2>3, <3>1, <1>3
  <2> QED
    BY <1>2, <1>4, <2>1, <2>2, <2>3
<1>7. ASSUME NEW t \in Thread, AllocCheck(t) \/ FreeToken(t) \/ SetCurrent(t)
      PROVE  ChargeInv'
  <2>1. UNCHANGED dev /\ (UNCHANGED trouble \/ Refused)
    BY <1>7 DEF AllocCheck, FreeToken, SetCurrent, MallocFails, trouble
  <2> DEFINE gone == [E(t) EXCEPT !.live = @ \ {thr[t].token}]
             moved == [E(t) EXCEPT !.current = thr[t].gpu]
  <2>2. thr[t].gpu \in GPU
    BY OfThread DEF ChargeInv, SafetyInv, Call
  <2>3. /\ gone \in Engine /\ gone.allocs = E(t).allocs
        /\ moved \in Engine /\ moved.allocs = E(t).allocs
    BY <1>2, <2>2 DEF Engine
  <2>4. \/ \E status : ReturnWith(t, gone, status)
        \/ \E status : ReturnWith(t, moved, status)
        \/ UNCHANGED eng
    BY <1>7 DEF AllocCheck, FreeToken, SetCurrent, MallocFails
  <2>5. CASE UNCHANGED eng
    <3>1. UNCHANGED <<dev, others, stray>>
      BY <2>1 DEF trouble, Refused
    <3> QED
      BY <2>5, <3>1, <1>3
  <2> HIDE DEF gone, moved
  <2> QED
    BY <1>4, <2>1, <2>3, <2>4, <2>5
<1>8. ASSUME NEW t \in Thread, Continue(t) PROVE ChargeInv'
  BY <1>1, <1>5, <1>6, <1>7, <1>8, AllocReserveCharge, FreeReleaseCharge,
     ResetReleaseCharge DEF Continue
<1>9. CASE UNCHANGED vars
  <2>1. UNCHANGED <<dev, others, stray>> /\ UNCHANGED eng
    BY <1>9 DEF vars
  <2> QED
    BY <1>3, <2>1
<1> QED
  BY <1>1, <1>5, <1>6, <1>8, <1>9, OtherProgramCharge, ExitCharge DEF Next

\* Of whole MiB, the engines charge and give back exactly what they track: what
\* no row owns is what the configuration gave the system, what the engines
\* track, what other programs took, and the bytes that went stray when a command
\* stored and failed or a program ended (ChargedExactly).
THEOREM ChargesAreExact ==
    ASSUME WholeRequests
    PROVE  Spec => []ChargedExactly
<1>1. ChargeInv /\ [Next]_vars => ChargeInv'
  BY ChargeNext
<1>2. ChargeInv => ChargedExactly
  BY DEF ChargeInv
<1> QED
  BY <1>1, <1>2, ChargeInit, PTL DEF Spec

\* So cudaFree never fails for what the manager has of the device: unless bytes
\* that are tracked have been given back already, by other programs or by a
\* release that stored and failed, every tracked allocation can be released at
\* any moment (AllocationsReleasable).
THEOREM AllocationsStayReleasable ==
    ASSUME WholeRequests
    PROVE  Spec => []AllocationsReleasable
<1>1. ChargeInv /\ [Next]_vars => ChargeInv'
  BY ChargeNext
<1>2. ChargeInv => AllocationsReleasable
  <2> SUFFICES ASSUME ChargeInv, NEW p \in Program, NEW k \in Tracked(p),
                      NEW a, a = eng[p].allocs[k], Beyond(a.gpu) >= 0
               PROVE  CanRelease(Observed(dev[a.gpu]), a.size)
    BY DEF AllocationsReleasable
  <2> DEFINE g == a.gpu
             n == a.size
             d == dev[a.gpu]
  <2>1. eng \in [Program -> Engine] /\ eng[p].allocs \in Allocs
    BY DEF ChargeInv, SafetyInv, EngineInv, Engine
  <2>2. g \in GPU /\ n \in Nat
    BY <2>1, AllocsElim DEF Tracked
  <2>3. /\ Observed(d) = d /\ d \in Device /\ d.used \in Nat /\ d.free \in Nat
        /\ SumFits(d.mem) /\ ProcessBytes(d.mem) \in Nat
        /\ ProcessBytes(d.mem) <= d.used /\ Beyond(g) \in Int
    BY <2>2, PoolShown
  <2>4. n <= BytesOn(eng[p].allocs, g) /\ BytesOn(eng[p].allocs, g) \in Nat
    <3> DEFINE rest == Without(eng[p].allocs, {k})
    <3>1. rest \in Allocs
      BY <2>1, AllocsWithout
    <3>2. BytesOn(rest, g) = BytesOn(eng[p].allocs, g) - n
      BY <2>1, BytesRemove DEF Tracked
    <3>3. BytesOn(rest, g) \in Nat /\ BytesOn(eng[p].allocs, g) \in Nat
      BY <2>1, <3>1, BytesOnNat
    <3> HIDE DEF n, g, rest
    <3> QED
      BY <3>2, <3>3, <2>2
  <2>5. AllBytes(eng, g) \in Nat /\ BytesOn(eng[p].allocs, g) <= AllBytes(eng, g)
    BY <2>1, AllBytesChange
  <2>6. NonProcessUsed(BaseDevice(g)) \in Nat
    <3> DEFINE b == BaseDevice(g)
    <3>1. b \in Device /\ Covered(b)
      BY <2>2, BaseDeviceFits
    <3> HIDE DEF b
    <3>2. /\ b.used \in Nat /\ b.used <= MaxU64 /\ ProcessMiB(b.mem) \in Nat
          /\ ProcessMiB(b.mem) * MiB <= b.used
      BY <3>1, UnitAssumption DEF Device, U64, Covered, OwnedBytes
    <3>3. SumFits(b.mem)
      BY <3>2, UnitAssumption DEF SumFits
    <3>4. ProcessBytes(b.mem) \in Nat /\ ProcessBytes(b.mem) <= b.used
      BY <3>2, <3>3, ProcessBytesExact DEF OwnedBytes
    <3> QED
      BY <3>2, <3>4 DEF NonProcessUsed, b
  <2>7. NonProcessUsed(d) = NonProcessUsed(BaseDevice(g)) + Beyond(g) + AllBytes(eng, g)
    BY <2>2, ChargedIsAllBytes DEF ChargeInv
  <2>8. n <= d.used - ProcessBytes(d.mem)
    <3> HIDE DEF n, g, d
    <3>1. Beyond(g) >= 0
      BY DEF g
    <3>2. n <= NonProcessUsed(d)
      BY <2>2, <2>3, <2>4, <2>5, <2>6, <2>7, <3>1
    <3> QED
      BY <3>2 DEF NonProcessUsed
  <2>9. n <= MaxU64 - d.free
    <3>1. Fits(d, g)
      BY <2>2 DEF ChargeInv, SafetyInv, DeviceInv
    <3>2. d.used + d.free <= MaxU64
      BY <2>2, <2>3, <3>1, ConfigSizes, UnitAssumption DEF Fits, U64
    <3> HIDE DEF n, g, d
    <3> QED
      BY <2>2, <2>3, <2>8, <3>2, UnitAssumption
  <2> HIDE DEF n, g, d
  <2>10. CanRelease(d, n)
    BY <2>3, <2>8, <2>9 DEF CanRelease, AddFits
  <2> QED
    BY <2>3, <2>10 DEF n, g, d
<1> QED
  BY <1>1, <1>2, ChargeInit, PTL DEF Spec
==============================================================================
