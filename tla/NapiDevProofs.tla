----------------------------- MODULE NapiDevProofs -----------------------------
(***************************************************************************)
(* Proofs about one NAPI instance. The invariant follows the owner of SCHED: *)
(* at most one context schedules the instance or polls it, or a list of one  *)
(* CPU holds it, or the kthread was called, or napi_disable has it, and      *)
(* without SCHED none of them. IN_BUSY_POLL says whether the owner's poll    *)
(* must not complete; the operation under way says which bits can be set and *)
(* whether the kthread is there; and whenever the instance is enabled and a  *)
(* packet waits (or the interrupt is masked) something that leads to a poll  *)
(* is still to come. Each conjunct is kept by each action.                    *)
(***************************************************************************)
EXTENDS NapiDev, FiniteSetTheorems, TLAPS

USE DEF At, Has, Go, Bits

\* The parameters are of their kinds.
Settings ==
    /\ NdCpus \subseteq Nat \ {0}
    /\ WEIGHT \in Nat /\ DEFER \in Nat /\ MaxAdmin \in Nat
    /\ TIMEOUT \in BOOLEAN /\ Edges \subseteq BOOLEAN
    /\ Modes \subseteq {"off", "on", "busy"}

\* The contexts that can be inside napi_poll: all but interrupts.
Pollers == {Soft(c) : c \in NdCpus} \cup {Thread, Busy}

-------------------------------------------------------------------------------
(* Types.                                                                     *)

\* The bits of napi->state.
BitNames == {"SCHED", "MISSED", "DISABLE", "NPSVC", "LISTED", "IN_BUSY_POLL", "PREFER_BUSY_POLL",
             "THREADED", "SCHED_THREADED", "THREADED_BUSY_POLL"}
\* Where the instance can be listed: nowhere, or on one list of one CPU.
Lists == {Nowhere} \cup (NdCpus \X {"sd", "list", "repoll"})
\* The steps of a poll, those of its end, and all the steps there are.
PollPCs == {"poll", "full", "complete", "cmpxchg"}
EndPCs == {"arm", "ret", "look", "put", "polled"}
AllPCs == PollPCs \cup EndPCs \cup
          {"rest", "loop", "check", "restart", "punt", "repoll", "wait", "want", "assign", "try", "retry", "stop", "stop2"}
CtxTypes == [pc : AllPCs, to : {"none", "thread", "list"}, then : {"none", "driver", "ignore", "prefer"},
             done : BOOLEAN, timeout : BOOLEAN, ret : BOOLEAN, stop : BOOLEAN]
\* How far an operation under netdev_lock is.
AdminPCs == {"absent", "down", "up", "disable", "cancel", "unhash", "unthread", "unthread2", "delthread", "free"}

\* The kinds of values each variable has.
NapiTypes == napi \in [bits : SUBSET BitNames, on : Lists, count : Int, hashed : BOOLEAN]
TimerTypes == timer \in [armed : BOOLEAN, cb : {0} \cup NdCpus, looked : BOOLEAN]
SoftTypes == sd \in [NdCpus -> [raised : BOOLEAN, in : BOOLEAN]]
ContextTypes == ctx \in [Contexts -> CtxTypes]
ThreadTypes == kthread \in [there : BOOLEAN, stop : BOOLEAN]
AdminTypes == admin \in [pc : AdminPCs, left : Int]
DeviceTypes == hw \in [ring : Nat, irq : BOOLEAN, arrivals : Nat, edge : BOOLEAN]
NdTypeOK == NapiTypes /\ TimerTypes /\ SoftTypes /\ ContextTypes /\ ThreadTypes /\ AdminTypes /\ DeviceTypes

(* Where each kind of context can be, and what it remembers there.            *)
PlacesInv ==
    /\ \A c \in NdCpus : ctx[Irq(c)].pc \in {"rest", "look", "put"} /\ ctx[Irq(c)].then = "none"
    /\ \A c \in NdCpus : ctx[Soft(c)].pc \in PollPCs \cup EndPCs \cup {"rest", "loop", "check", "restart", "punt", "repoll"}
    /\ ctx[Thread].pc \in PollPCs \cup EndPCs \cup {"rest", "wait", "want", "assign", "repoll"}
    /\ ctx[Busy].pc \in PollPCs \cup EndPCs \cup {"rest", "try", "retry", "stop", "stop2"}
    /\ \A x \in Pollers : ctx[x].pc \in {"full", "complete", "cmpxchg", "arm", "ret", "look", "put"} => ctx[x].then # "none"
    /\ \A x \in Contexts : ctx[x].pc = "put" => ctx[x].to # "none"

\* x is inside a poll of the instance (Polling, as a predicate).
Polls(x) ==
    \/ ctx[x].pc \in {"want", "assign", "poll", "full", "complete", "cmpxchg", "repoll", "stop", "stop2"}
    \/ x = Busy /\ At(x, "polled") /\ ~ctx[x].stop

\* x has the instance by itself: it schedules it or, not being the thread, polls it.
Holds(x) == ctx[x].pc \in {"look", "put"} \/ (x # Thread /\ Polls(x))

\* SCHED has one owner: a context that holds it, a list, the kthread that was
\* called, or who disabled it.
OwnerInv ==
    /\ \A x, y \in Contexts : Holds(x) /\ Holds(y) => x = y
    /\ \A x \in Contexts : Holds(x) =>
         Has("SCHED") /\ napi.on = Nowhere /\ ~Has("SCHED_THREADED") /\ ~Has("NPSVC")
    /\ napi.on # Nowhere => Has("SCHED") /\ ~Has("SCHED_THREADED") /\ ~Has("NPSVC")
    /\ Has("SCHED_THREADED") => Has("SCHED") /\ ~Has("NPSVC")
    /\ Has("NPSVC") => Has("SCHED")
    /\ Has("SCHED") => \/ \E x \in Contexts : Holds(x)
                       \/ napi.on # Nowhere \/ Has("SCHED_THREADED") \/ Has("NPSVC")
    /\ Polls(Thread) => Has("SCHED_THREADED")

\* IN_BUSY_POLL is set while the busy poller has the instance, up to its last
\* poll, and otherwise only while the kthread has it; no poll completes under it.
BusyInv ==
    /\ Polls(Busy) /\ ~ctx[Busy].stop => Has("IN_BUSY_POLL")
    /\ Has("IN_BUSY_POLL") => Has("SCHED_THREADED") \/ (Polls(Busy) /\ ~ctx[Busy].stop)
    /\ \A x \in Contexts : At(x, "cmpxchg") => ~Has("IN_BUSY_POLL")
    /\ ctx[Busy].pc \in {"rest", "try", "retry", "stop", "stop2"} => ~ctx[Busy].stop
    /\ ctx[Busy].pc \in {"cmpxchg", "arm", "ret", "look", "put"} => ctx[Busy].stop

\* What the operation under way says of NPSVC, DISABLE, LISTED and the hash.
AdminInv ==
    /\ Has("NPSVC") <=> \/ admin.pc \in {"cancel", "unhash", "down", "delthread", "free"}
                        \/ admin.pc = "unthread" /\ ~napi.hashed
    /\ admin.pc \in {"up", "disable", "cancel", "unhash", "unthread2"} => napi.hashed
    /\ admin.pc \in {"down", "delthread", "free", "absent"} => ~napi.hashed
    /\ Has("DISABLE") <=> admin.pc \in {"disable", "cancel", "unhash"}
    /\ Has("LISTED") <=> admin.pc \notin {"absent", "delthread", "free"}
    /\ ~Has("LISTED") => hw.ring = 0 /\ (hw.edge => ~hw.irq)

\* Before it is added and after it is freed nobody is at the instance.
AbsentInv ==
    admin.pc = "absent" =>
      /\ napi.bits = {} /\ napi.on = Nowhere
      /\ \A x \in Contexts : ctx[x].pc \in {"rest", "loop", "check"}

\* The kthread is there, and not being stopped, whenever it is called or about
\* to be.
ThreadInv ==
    /\ ~kthread.there => ctx[Thread].pc = "rest"
    /\ admin.pc \in {"free", "absent"} => ~kthread.there
    /\ admin.pc \in {"unthread", "unthread2", "delthread"} => kthread.there
    /\ kthread.stop => kthread.there /\ admin.pc \in {"unthread2", "delthread"}
    /\ Has("SCHED_THREADED") => kthread.there /\ ~kthread.stop
    /\ Has("THREADED") => admin.pc # "unthread2"
    /\ \A x \in Contexts : At(x, "put") /\ ctx[x].to = "thread" => kthread.there /\ admin.pc # "unthread2"

\* A CPU with the instance on a list runs net_rx_action or will.
ListInv ==
    \A c \in NdCpus :
      /\ napi.on = <<c, "list">> => At(Soft(c), "loop")
      /\ napi.on = <<c, "repoll">> => At(Soft(c), "loop") \/ At(Soft(c), "punt")
      /\ napi.on = <<c, "sd">> => sd[c].raised \/ ~At(Soft(c), "rest")
      /\ At(Soft(c), "check") => ~sd[c].in
      /\ sd[c].in => sd[c].raised \/ ~At(Soft(c), "rest")

\* The poll of x that ends will start the timer, unmask or schedule again.
WillUnmask(x) ==
    \/ At(x, "arm")
    \/ At(x, "ret") /\ ctx[x].ret /\ (ctx[x].then = "prefer" \/ (ctx[x].then = "driver" /\ ~hw.edge))
\* Something that leads to the next poll is still to come.
Covered ==
    \/ hw.irq \/ Has("SCHED") \/ timer.armed \/ (timer.cb # 0 /\ timer.looked)
    \/ \E x \in Contexts : WillUnmask(x)
\* It is, while the instance is enabled and a packet or the mask waits for it;
\* a poll that ends with a packet left knows of it by the interrupt or MISSED.
EventInv ==
    /\ napi.hashed /\ ~Has("DISABLE") /\ (hw.ring > 0 \/ ~hw.edge) => Covered
    /\ \A x \in Contexts : ctx[x].pc \in {"complete", "cmpxchg"} =>
         /\ ctx[x].then = "ignore" => Has("DISABLE")
         /\ ctx[x].then = "driver" /\ hw.edge /\ ~Has("DISABLE") /\ hw.ring > 0 => hw.irq \/ Has("MISSED")
    /\ \A x \in Contexts : At(x, "cmpxchg") => ctx[x].timeout \/ ctx[x].ret

\* The inductive invariant.
NdInv == NdTypeOK /\ PlacesInv /\ OwnerInv /\ BusyInv /\ AdminInv /\ AbsentInv /\ ThreadInv /\ ListInv /\ EventInv

\* A condition on timing. napi_complete_done starts the timer after it gave up
\* SCHED, so that the start can follow the hrtimer_cancel of napi_disable, and
\* neither it nor netif_napi_del cancels again: the timer is taken to have
\* fired before the memory is freed at the end of the grace period.
TimerEndsFirst == admin.pc = "absent" => ~timer.armed /\ timer.cb = 0

\* Without gro_flush_timeout the timer is not started, and nobody is about to.
NoTimer == ~timer.armed /\ timer.cb = 0 /\ \A x \in Contexts : ctx[x].pc # "arm" /\ ~ctx[x].timeout

(* The contexts are distinct, and there are no others.                       *)
LEMMA Kinds ==
  /\ Thread \in Contexts /\ Busy \in Contexts /\ Thread # Busy /\ Thread \in Pollers /\ Busy \in Pollers
  /\ \A c \in NdCpus : /\ Irq(c) \in Contexts /\ Soft(c) \in Contexts /\ Soft(c) \in Pollers
                        /\ Irq(c) # Thread /\ Irq(c) # Busy /\ Soft(c) # Thread /\ Soft(c) # Busy
                        /\ Irq(c) \notin Pollers
  /\ \A c, d \in NdCpus : /\ Irq(c) # Soft(d)
                           /\ c # d => Irq(c) # Irq(d) /\ Soft(c) # Soft(d)
  /\ Pollers \subseteq Contexts
  /\ \A c \in NdCpus : <<c, "sd">> # Nowhere /\ <<c, "list">> # Nowhere /\ <<c, "repoll">> # Nowhere
  /\ \A x \in Contexts : x = Thread \/ x = Busy \/ (\E c \in NdCpus : x = Irq(c)) \/ (\E c \in NdCpus : x = Soft(c))
  /\ \A x \in Contexts : x \in Pollers \/ (\E c \in NdCpus : x = Irq(c))
BY DEF Contexts, Pollers, Irq, Soft, Thread, Busy, Nowhere

(* A context schedules on a CPU that is there.                               *)
LEMMA CpuInside ==
  ASSUME NEW x \in Contexts
  PROVE  CpuOf(x) \subseteq NdCpus
BY DEF CpuOf, Contexts, Irq, Soft, Thread, Busy

-------------------------------------------------------------------------------
(* What the longer steps do.                                                 *)

\* The three outcomes of a round of net_rx_action.
LoopTakes(c) ==
    /\ napi.on = <<c, "list">> /\ napi' = [napi EXCEPT !.on = Nowhere] /\ UNCHANGED sd
    /\ \/ Has("SCHED") /\ ctx' = [ctx EXCEPT ![Soft(c)].pc = "poll"]
       \/ ~Has("SCHED") /\ ctx' = [ctx EXCEPT ![Soft(c)].pc = "polled"]
LoopPunts(c) ==
    napi.on = <<c, "repoll">> /\ UNCHANGED <<napi, sd>> /\ ctx' = [ctx EXCEPT ![Soft(c)].pc = "punt"]
LoopChecks(c) ==
    /\ napi.on # <<c, "list">> /\ napi.on # <<c, "repoll">> /\ UNCHANGED napi
    /\ sd' = [sd EXCEPT ![c].in = FALSE] /\ ctx' = [ctx EXCEPT ![Soft(c)].pc = "check"]

(* A round of net_rx_action takes the instance, gives it back or ends.       *)
LEMMA LoopEffect ==
  ASSUME NEW c \in NdCpus, rx_loop(c)
  PROVE  /\ At(Soft(c), "loop") /\ UNCHANGED <<timer, kthread, admin, mode, hw, busied>>
         /\ LoopTakes(c) \/ LoopPunts(c) \/ LoopChecks(c)
<1>1. <<c, "list">> # <<c, "repoll">>
  OBVIOUS
<1>2. CASE napi.on = <<c, "list">>
  BY <1>1, <1>2 DEF rx_loop, LoopTakes
<1>3. CASE napi.on = <<c, "repoll">>
  BY <1>1, <1>3 DEF rx_loop, LoopPunts
<1>4. CASE napi.on # <<c, "list">> /\ napi.on # <<c, "repoll">>
  BY <1>4 DEF rx_loop, LoopChecks
<1> QED BY <1>2, <1>3, <1>4 DEF rx_loop

\* napi_complete_done returns at once, or goes on to give up SCHED.
CompleteRefused ==
    Has("NPSVC") \/ Has("IN_BUSY_POLL")
CompleteKeeps(x) ==
    CompleteRefused /\ UNCHANGED napi /\ ctx' = [ctx EXCEPT ![x].pc = "polled"]
CompleteLeaves(x, n) ==
    /\ ~CompleteRefused /\ napi' = [napi EXCEPT !.count = n, !.on = Nowhere]
    /\ \A y \in Contexts \ {x} : ctx'[y] = ctx[y]
    /\ ctx'[x].pc = "cmpxchg" /\ (ctx'[x].timeout \/ ctx'[x].ret)
    /\ ctx'[x].then = ctx[x].then /\ ctx'[x].to = ctx[x].to /\ ctx'[x].stop = ctx[x].stop

(* napi_complete_done leaves a busy polled instance alone; otherwise a poll   *)
(* that will not start the timer answers TRUE.                                *)
LEMMA CompleteEffect ==
  ASSUME Settings, NdTypeOK, NEW x \in Contexts, NEW held \in BOOLEAN, napi_complete_done(x, held)
  PROVE  /\ At(x, "complete") /\ UNCHANGED <<timer, sd, kthread, admin, mode, hw, busied>>
         /\ \/ CompleteKeeps(x)
            \/ \E n \in Int : CompleteLeaves(x, n)
<1> DEFINE n == IF ctx[x].done THEN DEFER ELSE napi.count
           k == IF n > 0 THEN n - 1 ELSE 0
           t == TIMEOUT /\ (n > 0 \/ (ctx[x].done /\ held))
           r == ~(n > 0 /\ TIMEOUT)
<1>1. n \in Int
  BY DEF Settings, NdTypeOK, NapiTypes
<1>2. k \in Int
  BY <1>1
<1>3. t \in BOOLEAN /\ r \in BOOLEAN /\ (t \/ r)
  OBVIOUS
<1>4. CASE CompleteRefused
  BY <1>4 DEF napi_complete_done, CompleteRefused, CompleteKeeps
<1>5. CASE ~CompleteRefused
  <2>1. napi' = [napi EXCEPT !.count = k, !.on = Nowhere]
        /\ ctx' = [ctx EXCEPT ![x].pc = "cmpxchg", ![x].timeout = t, ![x].ret = r]
    BY <1>5 DEF napi_complete_done, CompleteRefused
  <2>2. PICK u \in BOOLEAN, v \in BOOLEAN :
          (u \/ v) /\ ctx' = [ctx EXCEPT ![x].pc = "cmpxchg", ![x].timeout = u, ![x].ret = v]
    BY <1>3, <2>1
  <2> HIDE DEF k, t, r
  <2>3. /\ \A y \in Contexts \ {x} : ctx'[y] = ctx[y]
        /\ ctx'[x] = [ctx[x] EXCEPT !.pc = "cmpxchg", !.timeout = u, !.ret = v]
    BY <2>2 DEF NdTypeOK, ContextTypes
  <2>4. ctx[x] \in CtxTypes
    BY DEF NdTypeOK, ContextTypes
  <2>5. /\ ctx'[x].pc = "cmpxchg" /\ (ctx'[x].timeout \/ ctx'[x].ret)
        /\ ctx'[x].then = ctx[x].then /\ ctx'[x].to = ctx[x].to /\ ctx'[x].stop = ctx[x].stop
    <3>1. ctx'[x].pc = "cmpxchg" /\ ctx'[x].then = ctx[x].then /\ ctx'[x].to = ctx[x].to
      BY <2>3, <2>4 DEF CtxTypes
    <3>2. ctx'[x].stop = ctx[x].stop
      BY <2>3, <2>4 DEF CtxTypes
    <3>3. CASE u
      <4>1. ctx'[x].timeout
        BY <2>3, <2>4, <3>3 DEF CtxTypes
      <4> QED BY <3>1, <3>2, <4>1
    <3>4. CASE v
      <4>1. ctx'[x].ret
        BY <2>3, <2>4, <3>4 DEF CtxTypes
      <4> QED BY <3>1, <3>2, <4>1
    <3> QED BY <2>2, <3>3, <3>4
  <2>6. CompleteLeaves(x, k)
    BY <1>5, <2>1, <2>3, <2>5 DEF CompleteLeaves
  <2> QED BY <1>2, <2>6 DEF napi_complete_done
<1> QED BY <1>4, <1>5 DEF napi_complete_done

(* The thread ends, or is called.                                            *)
LEMMA WaitEffect ==
  ASSUME NdTypeOK, napi_thread_wait
  PROVE  /\ At(Thread, "wait") /\ UNCHANGED <<napi, timer, sd, kthread, admin, mode, hw, busied>>
         /\ \A x \in Contexts \ {Thread} : ctx'[x] = ctx[x]
         /\ \/ kthread.stop /\ ctx'[Thread].pc = "rest"
            \/ ~kthread.stop /\ Has("SCHED_THREADED") /\ ctx'[Thread].pc = "want"
<1>1. Rest.pc = "rest" /\ [Rest EXCEPT !.pc = "want", !.to = "thread"].pc = "want"
  BY DEF Rest
<1> DEFINE R == [Rest EXCEPT !.pc = "want", !.to = "thread"]
<1>2. (kthread.stop /\ ctx' = [ctx EXCEPT ![Thread] = Rest])
      \/ (~kthread.stop /\ Has("SCHED_THREADED") /\ ctx' = [ctx EXCEPT ![Thread] = R])
  BY DEF napi_thread_wait, ThreadOwns
<1>3. R.pc = "want"
  BY <1>1
<1> HIDE DEF R
<1> QED BY <1>1, <1>2, <1>3, Kinds DEF NdTypeOK, ContextTypes, napi_thread_wait

(* The busy poller leaves the instance to the timer or schedules it.         *)
LEMMA FullEffect ==
  ASSUME NdTypeOK, busy_stopped_full
  PROVE  /\ At(Busy, "full") /\ ctx[Busy].stop /\ UNCHANGED <<timer, sd, kthread, admin, mode, hw, busied>>
         /\ \A x \in Contexts \ {Busy} : ctx'[x] = ctx[x]
         /\ ctx'[Busy].stop = ctx[Busy].stop /\ ctx'[Busy].then = ctx[Busy].then /\ ctx'[Busy].to = ctx[Busy].to
         /\ \/ ctx'[Busy].pc = "arm" /\ napi' = [napi EXCEPT !.bits = (napi.bits \ {"SCHED"}) \cup {}]
            \/ ctx'[Busy].pc = "look" /\ UNCHANGED napi
<1>0. ctx \in [Contexts -> CtxTypes] /\ Busy \in Contexts
  BY Kinds DEF NdTypeOK, ContextTypes
<1>1. CASE PREFER /\ DEFER > 0 /\ TIMEOUT
  <2>1. ctx' = [ctx EXCEPT ![Busy].pc = "arm", ![Busy].ret = FALSE]
        /\ napi' = [napi EXCEPT !.bits = (napi.bits \ {"SCHED"}) \cup {}]
    BY <1>1 DEF busy_stopped_full
  <2>2. /\ \A x \in Contexts \ {Busy} : ctx'[x] = ctx[x]
        /\ ctx'[Busy] = [ctx[Busy] EXCEPT !.pc = "arm", !.ret = FALSE]
    BY <1>0, <2>1
  <2>3. ctx[Busy] \in CtxTypes
    BY <1>0
  <2> QED BY <2>1, <2>2, <2>3 DEF busy_stopped_full, CtxTypes
<1>2. CASE ~(PREFER /\ DEFER > 0 /\ TIMEOUT)
  <2>1. ctx' = [ctx EXCEPT ![Busy].pc = "look", ![Busy].ret = FALSE] /\ UNCHANGED napi
    BY <1>2 DEF busy_stopped_full
  <2>2. /\ \A x \in Contexts \ {Busy} : ctx'[x] = ctx[x]
        /\ ctx'[Busy] = [ctx[Busy] EXCEPT !.pc = "look", !.ret = FALSE]
    BY <1>0, <2>1
  <2>3. ctx[Busy] \in CtxTypes
    BY <1>0
  <2> QED BY <2>1, <2>2, <2>3 DEF busy_stopped_full, CtxTypes
<1> QED BY <1>1, <1>2

(* Switching the mode begins to stop the thread, or sets the bits and makes   *)
(* a thread if there is none.                                                 *)
LEMMA SwitchEffect ==
  ASSUME NdTypeOK, Settings, NEW m \in Modes, netif_set_threaded(m)
  PROVE  /\ admin.pc \in {"up", "down"} /\ UNCHANGED <<timer, sd, hw, busied>>
         /\ \A x \in Contexts \ {Thread} : ctx'[x] = ctx[x]
         /\ napi'.on = napi.on /\ napi'.hashed = napi.hashed /\ kthread'.stop = kthread.stop
         /\ \A b : b \notin {"THREADED", "THREADED_BUSY_POLL"} => (b \in napi'.bits <=> b \in napi.bits)
         /\ \/ /\ kthread.there /\ kthread'.there /\ admin'.pc = "unthread"
               /\ UNCHANGED <<napi, ctx>>
            \/ /\ admin'.pc = Settled /\ (kthread.there => kthread'.there)
               /\ ctx' = ctx \/ (~kthread.there /\ kthread'.there /\ ctx'[Thread].pc = "wait")
<1>0. /\ napi \in [bits : SUBSET BitNames, on : Lists, count : Int, hashed : BOOLEAN]
      /\ kthread \in [there : BOOLEAN, stop : BOOLEAN]
      /\ ctx \in [Contexts -> CtxTypes] /\ Thread \in Contexts
      /\ m \in {"off", "on", "busy"}
  BY Kinds DEF NdTypeOK, NapiTypes, ContextTypes, ThreadTypes, Settings
<1>1. /\ admin.pc \in {"up", "down"} /\ UNCHANGED <<timer, sd, hw, busied>>
      /\ kthread' = [kthread EXCEPT !.there = kthread.there \/ m # "off"]
  BY DEF netif_set_threaded
<1>2. kthread'.stop = kthread.stop /\ kthread'.there = (kthread.there \/ m # "off")
  BY <1>0, <1>1
<1>3. ctx' = ctx \/ (~kthread.there /\ m # "off" /\ ctx' = [ctx EXCEPT ![Thread] = [Rest EXCEPT !.pc = "wait"]])
  BY DEF netif_set_threaded, CreateThread
<1>4. [Rest EXCEPT !.pc = "wait"].pc = "wait"
  BY DEF Rest
<1>5. /\ \A x \in Contexts \ {Thread} : ctx'[x] = ctx[x]
      /\ ctx' = ctx \/ (~kthread.there /\ m # "off" /\ ctx'[Thread].pc = "wait")
  <2> DEFINE W == [Rest EXCEPT !.pc = "wait"]
  <2>1. /\ ctx' = ctx \/ (~kthread.there /\ m # "off" /\ ctx' = [ctx EXCEPT ![Thread] = W])
        /\ W.pc = "wait"
    BY <1>3, <1>4
  <2> HIDE DEF W
  <2> QED BY <1>0, <2>1
<1>6. CASE m = "off" /\ kthread.there
  <2>1. admin'.pc = "unthread" /\ UNCHANGED <<napi, ctx>>
    BY <1>6 DEF netif_set_threaded, Begin, CreateThread
  <2> QED BY <1>1, <1>2, <1>5, <1>6, <2>1
<1>7. CASE ~(m = "off" /\ kthread.there)
  <2>1. /\ admin'.pc = Settled
        /\ napi' = [napi EXCEPT !.bits = (napi.bits \ {"THREADED", "THREADED_BUSY_POLL"}) \cup ModeBits(m)]
    BY <1>7 DEF netif_set_threaded, Begin
  <2>2. ModeBits(m) \subseteq {"THREADED", "THREADED_BUSY_POLL"}
    BY DEF ModeBits
  <2> HIDE DEF ModeBits
  <2>3. napi'.on = napi.on /\ napi'.hashed = napi.hashed
        /\ napi'.bits = (napi.bits \ {"THREADED", "THREADED_BUSY_POLL"}) \cup ModeBits(m)
    BY <1>0, <2>1
  <2>4. \A b : b \notin {"THREADED", "THREADED_BUSY_POLL"} => (b \in napi'.bits <=> b \in napi.bits)
    BY <2>2, <2>3
  <2> QED BY <1>0, <1>1, <1>2, <1>5, <1>7, <2>1, <2>3, <2>4
<1> QED BY <1>6, <1>7

(* Who schedules calls the thread or is on the list of a CPU.                *)
LEMMA PutEffect ==
  ASSUME NdTypeOK, PlacesInv, NEW x \in Contexts, schedule_put(x)
  PROVE  /\ At(x, "put") /\ UNCHANGED <<timer, kthread, admin, mode, hw, busied>>
         /\ \/ x \notin Pollers /\ ctx' = [ctx EXCEPT ![x].pc = "rest"]
            \/ x \in Pollers /\ ctx' = [ctx EXCEPT ![x].pc = "polled"]
         /\ \/ /\ ctx[x].to = "thread" /\ UNCHANGED sd
               /\ napi' = [napi EXCEPT !.bits = (napi.bits \ {}) \cup {"SCHED_THREADED"}]
            \/ \E c \in NdCpus : /\ ctx[x].to = "list"
                                 /\ napi' = [napi EXCEPT !.on = <<c, "sd">>]
                                 /\ sd'[c].in = sd[c].in /\ (sd'[c].raised <=> sd[c].raised \/ ~sd[c].in)
                                 /\ \A d \in NdCpus \ {c} : sd'[d] = sd[d]
<1>1. CpuOf(x) \subseteq NdCpus
  BY CpuInside
<1>2. \/ x \notin Pollers /\ ctx[x].then = "none"
      \/ x \in Pollers /\ ctx[x].then # "none"
  BY Kinds DEF PlacesInv, schedule_put
<1>3. ASSUME NEW c \in NdCpus, sd' = [sd EXCEPT ![c].raised = sd[c].raised \/ ~sd[c].in]
      PROVE  /\ sd'[c].in = sd[c].in /\ (sd'[c].raised <=> sd[c].raised \/ ~sd[c].in)
             /\ \A d \in NdCpus \ {c} : sd'[d] = sd[d]
  BY <1>3 DEF NdTypeOK, SoftTypes
<1> QED BY <1>1, <1>2, <1>3 DEF schedule_put

(* Who is in a poll is no interrupt.                                         *)
LEMMA PollerOf ==
  ASSUME PlacesInv, NEW x \in Contexts, ctx[x].pc \notin {"rest", "look", "put"}
  PROVE  x \in Pollers
BY Kinds DEF PlacesInv

(* Steps that leave the lists and net_rx_action alone, but for a softirq that *)
(* is in a poll.                                                              *)
LEMMA ListFrame ==
  ASSUME ListInv, napi'.on = napi.on \/ napi'.on = Nowhere, sd' = sd,
         \A c \in NdCpus : \/ ctx'[Soft(c)].pc = ctx[Soft(c)].pc
                           \/ /\ ctx[Soft(c)].pc \notin {"loop", "punt"}
                              /\ ctx'[Soft(c)].pc \notin {"rest", "check"}
  PROVE  ListInv'
BY Kinds DEF ListInv

(* A poller has SCHED, and it is the only one.                               *)
LEMMA PollerAlone ==
  ASSUME OwnerInv, NEW x \in Contexts, Polls(x) \/ Holds(x)
  PROVE  /\ Has("SCHED") /\ ~Has("NPSVC") /\ napi.on = Nowhere
         /\ \A y \in Contexts \ {x} : ~Polls(y) /\ ~Holds(y)
<1>1. CASE Holds(x)
  BY <1>1, Kinds DEF OwnerInv, Holds
<1>2. CASE ~Holds(x)
  <2>1. x = Thread /\ Polls(Thread)
    BY <1>2 DEF Holds
  <2>2. Has("SCHED_THREADED")
    BY <2>1 DEF OwnerInv
  <2>3. \A y \in Contexts : ~Holds(y)
    BY <2>2 DEF OwnerInv
  <2> QED BY <2>1, <2>2, <2>3 DEF OwnerInv, Holds
<1> QED BY <1>1, <1>2

(* Nobody is at an instance that is disabled or has no owner.                *)
LEMMA NobodyThere ==
  ASSUME OwnerInv, Has("NPSVC") \/ ~Has("SCHED")
  PROVE  /\ \A x \in Contexts : ~Polls(x) /\ ~Holds(x)
         /\ napi.on = Nowhere /\ ~Has("SCHED_THREADED")
<1>1. \A x \in Contexts : ~Polls(x) /\ ~Holds(x)
  BY PollerAlone
<1> QED BY <1>1 DEF OwnerInv

(* Steps that leave the owner alone.                                         *)
LEMMA OwnerFrame ==
  ASSUME OwnerInv, \A x \in Contexts : Holds(x)' <=> Holds(x), Polls(Thread)' => Polls(Thread),
         napi'.on = Nowhere <=> napi.on = Nowhere,
         \A b \in {"SCHED", "SCHED_THREADED", "NPSVC"} : b \in napi'.bits <=> b \in napi.bits
  PROVE  OwnerInv'
BY DEF OwnerInv

(* Steps that neither cause nor handle an event.                             *)
LEMMA EventFrame ==
  ASSUME EventInv, hw' = hw, timer' = timer, napi'.hashed = napi.hashed,
         \A b \in {"SCHED", "DISABLE", "MISSED"} : b \in napi'.bits <=> b \in napi.bits,
         \A x \in Contexts : (\/ ctx[x].pc \in {"arm", "ret"}
                              \/ ctx'[x].pc \in {"complete", "cmpxchg", "arm", "ret"}) => ctx'[x] = ctx[x]
  PROVE  EventInv'
<1>1. Covered => Covered'
  <2>1. \A x \in Contexts : WillUnmask(x) => WillUnmask(x)'
    BY DEF WillUnmask
  <2> QED BY <2>1 DEF Covered
<1> QED BY <1>1 DEF EventInv


(* The driver's poll was full or completes.                                  *)
LEMMA PollEffect ==
  ASSUME NdTypeOK, NEW x \in Contexts, poll(x)
  PROVE  /\ At(x, "poll") /\ UNCHANGED <<napi, timer, sd, kthread, admin, mode, busied>>
         /\ \A y \in Contexts \ {x} : ctx'[y] = ctx[y]
         /\ ctx'[x].pc \in {"full", "complete"} /\ ctx'[x].then = "driver"
         /\ ctx'[x].to = ctx[x].to /\ ctx'[x].stop = ctx[x].stop
<1>1. PICK p \in {"full", "complete"}, d \in BOOLEAN :
        ctx' = [ctx EXCEPT ![x].pc = p, ![x].done = d, ![x].then = "driver"]
  <2> DEFINE w == IF hw.ring < WEIGHT THEN hw.ring ELSE WEIGHT
             p == IF w = WEIGHT THEN "full" ELSE "complete"
             d == w > 0
  <2>1. p \in {"full", "complete"} /\ d \in BOOLEAN
    OBVIOUS
  <2>2. ctx' = [ctx EXCEPT ![x].pc = p, ![x].done = d, ![x].then = "driver"]
    BY DEF poll
  <2> HIDE DEF p, d
  <2> QED BY <2>1, <2>2
<1>2. /\ \A y \in Contexts \ {x} : ctx'[y] = ctx[y]
      /\ ctx'[x] = [ctx[x] EXCEPT !.pc = p, !.done = d, !.then = "driver"]
  BY <1>1 DEF NdTypeOK, ContextTypes
<1>3. ctx[x] \in CtxTypes
  BY DEF NdTypeOK, ContextTypes
<1>4. /\ ctx'[x].pc = p /\ ctx'[x].then = "driver"
      /\ ctx'[x].to = ctx[x].to /\ ctx'[x].stop = ctx[x].stop
  BY <1>2, <1>3 DEF CtxTypes
<1> QED BY <1>2, <1>4 DEF poll

(* After a full poll the instance is polled again or completes for a disable  *)
(* or a busy poller.                                                          *)
LEMMA PollFullEffect ==
  ASSUME NdTypeOK, NEW x \in Contexts, poll_full(x)
  PROVE  /\ At(x, "full") /\ x # Busy /\ UNCHANGED <<napi, timer, sd, kthread, admin, mode, hw, busied>>
         /\ \A y \in Contexts \ {x} : ctx'[y] = ctx[y]
         /\ \/ ctx'[x].pc = "repoll" /\ ctx'[x].then = "none"
            \/ ctx'[x].pc = "complete" /\ ctx'[x].then \in {"ignore", "prefer"}
         /\ ctx'[x].then = "ignore" => Has("DISABLE")
         /\ ctx'[x].to = ctx[x].to /\ ctx'[x].stop = ctx[x].stop /\ ctx'[x] \in CtxTypes
<1>1. PICK p \in {"repoll", "complete"}, t \in {"none", "ignore", "prefer"}, d \in BOOLEAN :
        /\ ctx' = [ctx EXCEPT ![x].pc = p, ![x].done = d, ![x].then = t]
        /\ p = "repoll" <=> t = "none"
        /\ t = "ignore" => Has("DISABLE")
  <2>1. CASE Has("DISABLE")
    <3>1. ctx' = [ctx EXCEPT ![x].pc = "complete", ![x].done = FALSE, ![x].then = "ignore"]
      BY <2>1 DEF poll_full
    <3> QED BY <2>1, <3>1
  <2>2. CASE ~Has("DISABLE") /\ Has("PREFER_BUSY_POLL")
    <3>1. ctx' = [ctx EXCEPT ![x].pc = "complete", ![x].done = TRUE, ![x].then = "prefer"]
      BY <2>2 DEF poll_full
    <3> QED BY <3>1
  <2>3. CASE ~Has("DISABLE") /\ ~Has("PREFER_BUSY_POLL")
    <3>1. ctx' = [ctx EXCEPT ![x].pc = "repoll", ![x].done = FALSE, ![x].then = "none"]
      BY <2>3 DEF poll_full
    <3> QED BY <3>1
  <2> QED BY <2>1, <2>2, <2>3
<1>2. /\ \A y \in Contexts \ {x} : ctx'[y] = ctx[y]
      /\ ctx'[x] = [ctx[x] EXCEPT !.pc = p, !.done = d, !.then = t]
  BY <1>1 DEF NdTypeOK, ContextTypes
<1>3. ctx[x] \in CtxTypes
  BY DEF NdTypeOK, ContextTypes
<1>4. /\ ctx'[x].pc = p /\ ctx'[x].then = t
      /\ ctx'[x].to = ctx[x].to /\ ctx'[x].stop = ctx[x].stop
  BY <1>2, <1>3 DEF CtxTypes
<1>5. p \in AllPCs /\ t \in {"none", "driver", "ignore", "prefer"}
  BY <1>1 DEF AllPCs, PollPCs
<1>6. ctx'[x] \in CtxTypes
  BY <1>2, <1>3, <1>5 DEF CtxTypes
<1> QED BY <1>1, <1>2, <1>4, <1>6 DEF poll_full
-------------------------------------------------------------------------------
(* The bits, the list and the counter of the instance.                      *)
LEMMA NapiTypesStep ==
  ASSUME Settings, NdInv, TimerEndsFirst, Next
  PROVE  NapiTypes'
<1>0. Settings /\ NdTypeOK
  BY DEF NdInv
<1>1. ASSUME device_receives PROVE NapiTypes'
  BY <1>0, <1>1, Kinds DEF Settings, NdTypeOK, Lists, BitNames, NapiTypes, device_receives
<1>2. ASSUME NEW c \in NdCpus, napi_schedule(c) PROVE NapiTypes'
  BY <1>0, <1>2, Kinds
     DEF Settings, NdTypeOK, Lists, BitNames, NapiTypes,
         napi_schedule, PrepBits, PrepOwns
<1>3. ASSUME NEW c \in NdCpus, timer_expires(c) PROVE NapiTypes'
  BY <1>0, <1>3, Kinds DEF Settings, NdTypeOK, Lists, BitNames, NapiTypes, timer_expires
<1>4. ASSUME NEW c \in NdCpus, napi_watchdog(c) PROVE NapiTypes'
  BY <1>0, <1>4, Kinds
     DEF Settings, NdTypeOK, Lists, BitNames, NapiTypes,
         napi_watchdog, WatchdogOwns
<1>5. ASSUME NEW c \in NdCpus, rx_start(c) PROVE NapiTypes'
  BY <1>0, <1>5, Kinds DEF Settings, NdTypeOK, Lists, BitNames, NapiTypes, rx_start
<1>6. ASSUME NEW c \in NdCpus, rx_loop(c) PROVE NapiTypes'
  BY <1>0, <1>6, Kinds DEF Settings, NdTypeOK, Lists, BitNames, NapiTypes, rx_loop
<1>7. ASSUME NEW c \in NdCpus, rx_check(c) PROVE NapiTypes'
  BY <1>0, <1>7, Kinds DEF Settings, NdTypeOK, Lists, BitNames, NapiTypes, rx_check, AfterCheck
<1>8. ASSUME NEW c \in NdCpus, NEW e \in BOOLEAN, rx_polled(c, e) PROVE NapiTypes'
  BY <1>0, <1>8, Kinds DEF Settings, NdTypeOK, Lists, BitNames, NapiTypes, rx_polled, Rest
<1>9. ASSUME NEW c \in NdCpus, rx_punt(c) PROVE NapiTypes'
  BY <1>0, <1>9, Kinds DEF Settings, NdTypeOK, Lists, BitNames, NapiTypes, rx_punt
<1>10. ASSUME NEW x \in Contexts, schedule_look(x) PROVE NapiTypes'
  BY <1>0, <1>10, Kinds DEF Settings, NdTypeOK, Lists, BitNames, NapiTypes, schedule_look
<1>11. ASSUME NEW x \in Contexts, schedule_put(x) PROVE NapiTypes'
  <2>1. napi' = [napi EXCEPT !.bits = (napi.bits \ {}) \cup {"SCHED_THREADED"}]
        \/ \E c \in NdCpus : napi' = [napi EXCEPT !.on = <<c, "sd">>]
    <3>1. CpuOf(x) \subseteq NdCpus
      BY CpuInside
    <3> QED BY <1>11, <3>1 DEF schedule_put
  <2> QED BY <1>0, <2>1 DEF Settings, NdTypeOK, Lists, BitNames, NapiTypes
<1>12. ASSUME NEW x \in Contexts, poll(x) PROVE NapiTypes'
  BY <1>0, <1>12, Kinds DEF Settings, NdTypeOK, Lists, BitNames, NapiTypes, poll
<1>13. ASSUME NEW x \in Contexts, NEW held \in BOOLEAN, napi_complete_done(x, held) PROVE NapiTypes'
  <2>1. PICK n : n \in Int /\ (napi' = napi \/ napi' = [napi EXCEPT !.count = n, !.on = Nowhere])
    <3> DEFINE n == IF ctx[x].done THEN DEFER ELSE napi.count
               k == IF n > 0 THEN n - 1 ELSE 0
    <3>1. n \in Int
      BY <1>0 DEF NdTypeOK, NapiTypes, Settings
    <3>2. k \in Int
      BY <3>1
    <3>3. napi' = napi \/ napi' = [napi EXCEPT !.count = k, !.on = Nowhere]
      BY <1>13 DEF napi_complete_done
    <3> QED BY <3>2, <3>3
  <2> QED BY <1>0, <2>1 DEF Settings, NdTypeOK, Lists, BitNames, NapiTypes
<1>14. ASSUME NEW x \in Contexts, complete_cmpxchg(x) PROVE NapiTypes'
  BY <1>0, <1>14, Kinds
     DEF Settings, NdTypeOK, Lists, BitNames, NapiTypes,
         complete_cmpxchg, PollAgain
<1>15. ASSUME NEW x \in Contexts, hrtimer_start(x) PROVE NapiTypes'
  BY <1>0, <1>15, Kinds DEF Settings, NdTypeOK, Lists, BitNames, NapiTypes, hrtimer_start
<1>16. ASSUME NEW x \in Contexts, complete_returns(x) PROVE NapiTypes'
  BY <1>0, <1>16, Kinds
     DEF Settings, NdTypeOK, Lists, BitNames, NapiTypes,
         complete_returns, PrepBits, PrepOwns
<1>17. ASSUME NEW x \in Contexts, poll_full(x) PROVE NapiTypes'
  BY <1>0, <1>17, Kinds DEF Settings, NdTypeOK, Lists, BitNames, NapiTypes, poll_full
<1>18. ASSUME napi_thread_wait PROVE NapiTypes'
  BY <1>0, <1>18, Kinds
     DEF Settings, NdTypeOK, Lists, BitNames, NapiTypes,
         napi_thread_wait, ThreadOwns, Rest
<1>19. ASSUME threaded_want PROVE NapiTypes'
  BY <1>0, <1>19, Kinds
     DEF Settings, NdTypeOK, Lists, BitNames, NapiTypes,
         threaded_want, WantBusyPoll
<1>20. ASSUME threaded_assign PROVE NapiTypes'
  BY <1>0, <1>20, Kinds DEF Settings, NdTypeOK, Lists, BitNames, NapiTypes, threaded_assign
<1>21. ASSUME threaded_polled PROVE NapiTypes'
  BY <1>0, <1>21, Kinds DEF Settings, NdTypeOK, Lists, BitNames, NapiTypes, threaded_polled
<1>22. ASSUME busy_begins PROVE NapiTypes'
  BY <1>0, <1>22, Kinds DEF Settings, NdTypeOK, Lists, BitNames, NapiTypes, busy_begins
<1>23. ASSUME busy_try PROVE NapiTypes'
  BY <1>0, <1>23, Kinds DEF Settings, NdTypeOK, Lists, BitNames, NapiTypes, busy_try
<1>24. ASSUME NEW again \in BOOLEAN, busy_round(again) PROVE NapiTypes'
  BY <1>0, <1>24, Kinds DEF Settings, NdTypeOK, Lists, BitNames, NapiTypes, busy_round
<1>25. ASSUME busy_poll_stop PROVE NapiTypes'
  BY <1>0, <1>25, Kinds DEF Settings, NdTypeOK, Lists, BitNames, NapiTypes, busy_poll_stop
<1>26. ASSUME busy_last_poll PROVE NapiTypes'
  <2>1. PICK n \in Int : napi' = [napi EXCEPT !.bits = napi.bits \ {"IN_BUSY_POLL"}, !.count = n]
    <3> DEFINE n == IF PREFER THEN DEFER ELSE napi.count
    <3>1. n \in Int
      BY <1>0 DEF NdTypeOK, NapiTypes, Settings
    <3>2. napi' = [napi EXCEPT !.bits = napi.bits \ {"IN_BUSY_POLL"}, !.count = n]
      BY <1>26 DEF busy_last_poll
    <3> QED BY <3>1, <3>2
  <2> QED BY <1>0, <2>1 DEF Settings, NdTypeOK, Lists, BitNames, NapiTypes
<1>27. ASSUME busy_stopped_full PROVE NapiTypes'
  BY <1>0, <1>27, Kinds DEF Settings, NdTypeOK, Lists, BitNames, NapiTypes, busy_stopped_full
<1>28. ASSUME busy_ends PROVE NapiTypes'
  BY <1>0, <1>28, Kinds DEF Settings, NdTypeOK, Lists, BitNames, NapiTypes, busy_ends, Rest
<1>29. ASSUME netif_napi_add PROVE NapiTypes'
  BY <1>0, <1>29, Kinds
     DEF Settings, NdTypeOK, Lists, BitNames, NapiTypes,
         netif_napi_add, Begin, CreateThread, Rest
<1>30. ASSUME napi_enable PROVE NapiTypes'
  BY <1>0, <1>30, Kinds
     DEF Settings, NdTypeOK, Lists, BitNames, NapiTypes,
         napi_enable, Begin, ModeBits
<1>31. ASSUME disable_begins PROVE NapiTypes'
  BY <1>0, <1>31, Kinds DEF Settings, NdTypeOK, Lists, BitNames, NapiTypes, disable_begins, Begin
<1>32. ASSUME disable_takes PROVE NapiTypes'
  BY <1>0, <1>32, Kinds
     DEF Settings, NdTypeOK, Lists, BitNames, NapiTypes,
         disable_takes, MayDisable, Admin
<1>33. ASSUME hrtimer_cancel PROVE NapiTypes'
  BY <1>0, <1>33, Kinds DEF Settings, NdTypeOK, Lists, BitNames, NapiTypes, hrtimer_cancel, Admin
<1>34. ASSUME disable_ends PROVE NapiTypes'
  BY <1>0, <1>34, Kinds DEF Settings, NdTypeOK, Lists, BitNames, NapiTypes, disable_ends, Admin
<1>35. ASSUME NEW m \in Modes, netif_set_threaded(m) PROVE NapiTypes'
  BY <1>0, <1>35, Kinds
     DEF Settings, NdTypeOK, Lists, BitNames, NapiTypes,
         netif_set_threaded, Begin, Settled, CreateThread, Rest, ModeBits
<1>36. ASSUME stop_unset PROVE NapiTypes'
  BY <1>0, <1>36, Kinds
     DEF Settings, NdTypeOK, Lists, BitNames, NapiTypes,
         stop_unset, MayUnset, Admin
<1>37. ASSUME kthread_stop PROVE NapiTypes'
  BY <1>0, <1>37, Kinds DEF Settings, NdTypeOK, Lists, BitNames, NapiTypes, kthread_stop
<1>38. ASSUME thread_stopped PROVE NapiTypes'
  BY <1>0, <1>38, Kinds
     DEF Settings, NdTypeOK, Lists, BitNames, NapiTypes,
         thread_stopped, Settled, Admin
<1>39. ASSUME netif_napi_del PROVE NapiTypes'
  BY <1>0, <1>39, Kinds DEF Settings, NdTypeOK, Lists, BitNames, NapiTypes, netif_napi_del, Begin
<1>40. ASSUME napi_freed PROVE NapiTypes'
  BY <1>0, <1>40, Kinds DEF Settings, NdTypeOK, Lists, BitNames, NapiTypes, napi_freed, Admin
<1> QED BY <1>1, <1>2, <1>3, <1>4, <1>5, <1>6, <1>7, <1>8, <1>9, <1>10, <1>11, <1>12,
           <1>13, <1>14, <1>15, <1>16, <1>17, <1>18, <1>19, <1>20, <1>21, <1>22, <1>23, <1>24,
           <1>25, <1>26, <1>27, <1>28, <1>29, <1>30, <1>31, <1>32, <1>33, <1>34, <1>35, <1>36,
           <1>37, <1>38, <1>39, <1>40
        DEF Next, RxStep, PollStep, ThreadStep, BusyStep, AdminEnds

-------------------------------------------------------------------------------
(* The timer and its callback.                                              *)
LEMMA TimerTypesStep ==
  ASSUME Settings, NdInv, TimerEndsFirst, Next
  PROVE  TimerTypes'
<1>0. Settings /\ NdTypeOK
  BY DEF NdInv
<1>1. ASSUME device_receives PROVE TimerTypes'
  BY <1>0, <1>1, Kinds DEF Settings, NdTypeOK, TimerTypes, device_receives
<1>2. ASSUME NEW c \in NdCpus, napi_schedule(c) PROVE TimerTypes'
  BY <1>0, <1>2, Kinds DEF Settings, NdTypeOK, TimerTypes, napi_schedule, PrepBits, PrepOwns
<1>3. ASSUME NEW c \in NdCpus, timer_expires(c) PROVE TimerTypes'
  BY <1>0, <1>3, Kinds DEF Settings, NdTypeOK, TimerTypes, timer_expires
<1>4. ASSUME NEW c \in NdCpus, napi_watchdog(c) PROVE TimerTypes'
  BY <1>0, <1>4, Kinds DEF Settings, NdTypeOK, TimerTypes, napi_watchdog, WatchdogOwns
<1>5. ASSUME NEW c \in NdCpus, rx_start(c) PROVE TimerTypes'
  BY <1>0, <1>5, Kinds DEF Settings, NdTypeOK, TimerTypes, rx_start
<1>6. ASSUME NEW c \in NdCpus, rx_loop(c) PROVE TimerTypes'
  BY <1>0, <1>6, Kinds DEF Settings, NdTypeOK, TimerTypes, rx_loop
<1>7. ASSUME NEW c \in NdCpus, rx_check(c) PROVE TimerTypes'
  BY <1>0, <1>7, Kinds DEF Settings, NdTypeOK, TimerTypes, rx_check, AfterCheck
<1>8. ASSUME NEW c \in NdCpus, NEW e \in BOOLEAN, rx_polled(c, e) PROVE TimerTypes'
  BY <1>0, <1>8, Kinds DEF Settings, NdTypeOK, TimerTypes, rx_polled, Rest
<1>9. ASSUME NEW c \in NdCpus, rx_punt(c) PROVE TimerTypes'
  BY <1>0, <1>9, Kinds DEF Settings, NdTypeOK, TimerTypes, rx_punt
<1>10. ASSUME NEW x \in Contexts, schedule_look(x) PROVE TimerTypes'
  BY <1>0, <1>10, Kinds DEF Settings, NdTypeOK, TimerTypes, schedule_look
<1>11. ASSUME NEW x \in Contexts, schedule_put(x) PROVE TimerTypes'
  BY <1>0, <1>11, Kinds DEF Settings, NdTypeOK, TimerTypes, schedule_put
<1>12. ASSUME NEW x \in Contexts, poll(x) PROVE TimerTypes'
  BY <1>0, <1>12, Kinds DEF Settings, NdTypeOK, TimerTypes, poll
<1>13. ASSUME NEW x \in Contexts, NEW held \in BOOLEAN, napi_complete_done(x, held) PROVE TimerTypes'
  BY <1>0, <1>13, Kinds DEF Settings, NdTypeOK, TimerTypes, napi_complete_done
<1>14. ASSUME NEW x \in Contexts, complete_cmpxchg(x) PROVE TimerTypes'
  BY <1>0, <1>14, Kinds DEF Settings, NdTypeOK, TimerTypes, complete_cmpxchg, PollAgain
<1>15. ASSUME NEW x \in Contexts, hrtimer_start(x) PROVE TimerTypes'
  BY <1>0, <1>15, Kinds DEF Settings, NdTypeOK, TimerTypes, hrtimer_start
<1>16. ASSUME NEW x \in Contexts, complete_returns(x) PROVE TimerTypes'
  BY <1>0, <1>16, Kinds DEF Settings, NdTypeOK, TimerTypes, complete_returns, PrepBits, PrepOwns
<1>17. ASSUME NEW x \in Contexts, poll_full(x) PROVE TimerTypes'
  BY <1>0, <1>17, Kinds DEF Settings, NdTypeOK, TimerTypes, poll_full
<1>18. ASSUME napi_thread_wait PROVE TimerTypes'
  BY <1>0, <1>18, Kinds DEF Settings, NdTypeOK, TimerTypes, napi_thread_wait, ThreadOwns, Rest
<1>19. ASSUME threaded_want PROVE TimerTypes'
  BY <1>0, <1>19, Kinds DEF Settings, NdTypeOK, TimerTypes, threaded_want, WantBusyPoll
<1>20. ASSUME threaded_assign PROVE TimerTypes'
  BY <1>0, <1>20, Kinds DEF Settings, NdTypeOK, TimerTypes, threaded_assign
<1>21. ASSUME threaded_polled PROVE TimerTypes'
  BY <1>0, <1>21, Kinds DEF Settings, NdTypeOK, TimerTypes, threaded_polled
<1>22. ASSUME busy_begins PROVE TimerTypes'
  BY <1>0, <1>22, Kinds DEF Settings, NdTypeOK, TimerTypes, busy_begins
<1>23. ASSUME busy_try PROVE TimerTypes'
  BY <1>0, <1>23, Kinds DEF Settings, NdTypeOK, TimerTypes, busy_try
<1>24. ASSUME NEW again \in BOOLEAN, busy_round(again) PROVE TimerTypes'
  BY <1>0, <1>24, Kinds DEF Settings, NdTypeOK, TimerTypes, busy_round
<1>25. ASSUME busy_poll_stop PROVE TimerTypes'
  BY <1>0, <1>25, Kinds DEF Settings, NdTypeOK, TimerTypes, busy_poll_stop
<1>26. ASSUME busy_last_poll PROVE TimerTypes'
  BY <1>0, <1>26, Kinds DEF Settings, NdTypeOK, TimerTypes, busy_last_poll
<1>27. ASSUME busy_stopped_full PROVE TimerTypes'
  BY <1>0, <1>27, Kinds DEF Settings, NdTypeOK, TimerTypes, busy_stopped_full
<1>28. ASSUME busy_ends PROVE TimerTypes'
  BY <1>0, <1>28, Kinds DEF Settings, NdTypeOK, TimerTypes, busy_ends, Rest
<1>29. ASSUME netif_napi_add PROVE TimerTypes'
  BY <1>0, <1>29, Kinds
     DEF Settings, NdTypeOK, TimerTypes,
         netif_napi_add, Begin, CreateThread, Rest
<1>30. ASSUME napi_enable PROVE TimerTypes'
  BY <1>0, <1>30, Kinds DEF Settings, NdTypeOK, TimerTypes, napi_enable, Begin, ModeBits
<1>31. ASSUME disable_begins PROVE TimerTypes'
  BY <1>0, <1>31, Kinds DEF Settings, NdTypeOK, TimerTypes, disable_begins, Begin
<1>32. ASSUME disable_takes PROVE TimerTypes'
  BY <1>0, <1>32, Kinds DEF Settings, NdTypeOK, TimerTypes, disable_takes, MayDisable, Admin
<1>33. ASSUME hrtimer_cancel PROVE TimerTypes'
  BY <1>0, <1>33, Kinds DEF Settings, NdTypeOK, TimerTypes, hrtimer_cancel, Admin
<1>34. ASSUME disable_ends PROVE TimerTypes'
  BY <1>0, <1>34, Kinds DEF Settings, NdTypeOK, TimerTypes, disable_ends, Admin
<1>35. ASSUME NEW m \in Modes, netif_set_threaded(m) PROVE TimerTypes'
  BY <1>0, <1>35, Kinds
     DEF Settings, NdTypeOK, TimerTypes,
         netif_set_threaded, Begin, Settled, CreateThread, Rest, ModeBits
<1>36. ASSUME stop_unset PROVE TimerTypes'
  BY <1>0, <1>36, Kinds DEF Settings, NdTypeOK, TimerTypes, stop_unset, MayUnset, Admin
<1>37. ASSUME kthread_stop PROVE TimerTypes'
  BY <1>0, <1>37, Kinds DEF Settings, NdTypeOK, TimerTypes, kthread_stop
<1>38. ASSUME thread_stopped PROVE TimerTypes'
  BY <1>0, <1>38, Kinds DEF Settings, NdTypeOK, TimerTypes, thread_stopped, Settled, Admin
<1>39. ASSUME netif_napi_del PROVE TimerTypes'
  BY <1>0, <1>39, Kinds DEF Settings, NdTypeOK, TimerTypes, netif_napi_del, Begin
<1>40. ASSUME napi_freed PROVE TimerTypes'
  BY <1>0, <1>40, Kinds DEF Settings, NdTypeOK, TimerTypes, napi_freed, Admin
<1> QED BY <1>1, <1>2, <1>3, <1>4, <1>5, <1>6, <1>7, <1>8, <1>9, <1>10, <1>11, <1>12,
           <1>13, <1>14, <1>15, <1>16, <1>17, <1>18, <1>19, <1>20, <1>21, <1>22, <1>23, <1>24,
           <1>25, <1>26, <1>27, <1>28, <1>29, <1>30, <1>31, <1>32, <1>33, <1>34, <1>35, <1>36,
           <1>37, <1>38, <1>39, <1>40
        DEF Next, RxStep, PollStep, ThreadStep, BusyStep, AdminEnds

-------------------------------------------------------------------------------
(* What each CPU keeps for net_rx_action.                                   *)
LEMMA SoftTypesStep ==
  ASSUME Settings, NdInv, TimerEndsFirst, Next
  PROVE  SoftTypes'
<1>0. Settings /\ NdTypeOK
  BY DEF NdInv
<1>1. ASSUME device_receives PROVE SoftTypes'
  BY <1>0, <1>1, Kinds DEF Settings, NdTypeOK, SoftTypes, device_receives
<1>2. ASSUME NEW c \in NdCpus, napi_schedule(c) PROVE SoftTypes'
  BY <1>0, <1>2, Kinds DEF Settings, NdTypeOK, SoftTypes, napi_schedule, PrepBits, PrepOwns
<1>3. ASSUME NEW c \in NdCpus, timer_expires(c) PROVE SoftTypes'
  BY <1>0, <1>3, Kinds DEF Settings, NdTypeOK, SoftTypes, timer_expires
<1>4. ASSUME NEW c \in NdCpus, napi_watchdog(c) PROVE SoftTypes'
  BY <1>0, <1>4, Kinds DEF Settings, NdTypeOK, SoftTypes, napi_watchdog, WatchdogOwns
<1>5. ASSUME NEW c \in NdCpus, rx_start(c) PROVE SoftTypes'
  BY <1>0, <1>5, Kinds DEF Settings, NdTypeOK, SoftTypes, rx_start
<1>6. ASSUME NEW c \in NdCpus, rx_loop(c) PROVE SoftTypes'
  <2>1. CASE UNCHANGED sd
    BY <1>0, <2>1 DEF NdTypeOK, SoftTypes
  <2>2. CASE sd' = [sd EXCEPT ![c].in = FALSE]
    <3>1. [sd[c] EXCEPT !.in = FALSE] \in [raised : BOOLEAN, in : BOOLEAN]
      BY <1>0 DEF NdTypeOK, SoftTypes
    <3> QED BY <1>0, <2>2, <3>1 DEF NdTypeOK, SoftTypes
  <2> QED BY <1>6, <2>1, <2>2 DEF rx_loop
<1>7. ASSUME NEW c \in NdCpus, rx_check(c) PROVE SoftTypes'
  BY <1>0, <1>7, Kinds DEF Settings, NdTypeOK, SoftTypes, rx_check, AfterCheck
<1>8. ASSUME NEW c \in NdCpus, NEW e \in BOOLEAN, rx_polled(c, e) PROVE SoftTypes'
  BY <1>0, <1>8, Kinds DEF Settings, NdTypeOK, SoftTypes, rx_polled, Rest
<1>9. ASSUME NEW c \in NdCpus, rx_punt(c) PROVE SoftTypes'
  BY <1>0, <1>9, Kinds DEF Settings, NdTypeOK, SoftTypes, rx_punt
<1>10. ASSUME NEW x \in Contexts, schedule_look(x) PROVE SoftTypes'
  BY <1>0, <1>10, Kinds DEF Settings, NdTypeOK, SoftTypes, schedule_look
<1>11. ASSUME NEW x \in Contexts, schedule_put(x) PROVE SoftTypes'
  <2>1. UNCHANGED sd \/ \E c \in NdCpus, r \in BOOLEAN : sd' = [sd EXCEPT ![c].raised = r]
    <3>1. CpuOf(x) \subseteq NdCpus
      BY CpuInside
    <3>2. \A c \in NdCpus : (sd[c].raised \/ ~sd[c].in) \in BOOLEAN
      OBVIOUS
    <3> QED BY <1>11, <3>1, <3>2 DEF schedule_put
  <2> QED BY <1>0, <2>1 DEF Settings, NdTypeOK, SoftTypes
<1>12. ASSUME NEW x \in Contexts, poll(x) PROVE SoftTypes'
  BY <1>0, <1>12, Kinds DEF Settings, NdTypeOK, SoftTypes, poll
<1>13. ASSUME NEW x \in Contexts, NEW held \in BOOLEAN, napi_complete_done(x, held) PROVE SoftTypes'
  BY <1>0, <1>13, Kinds DEF Settings, NdTypeOK, SoftTypes, napi_complete_done
<1>14. ASSUME NEW x \in Contexts, complete_cmpxchg(x) PROVE SoftTypes'
  BY <1>0, <1>14, Kinds DEF Settings, NdTypeOK, SoftTypes, complete_cmpxchg, PollAgain
<1>15. ASSUME NEW x \in Contexts, hrtimer_start(x) PROVE SoftTypes'
  BY <1>0, <1>15, Kinds DEF Settings, NdTypeOK, SoftTypes, hrtimer_start
<1>16. ASSUME NEW x \in Contexts, complete_returns(x) PROVE SoftTypes'
  BY <1>0, <1>16, Kinds DEF Settings, NdTypeOK, SoftTypes, complete_returns, PrepBits, PrepOwns
<1>17. ASSUME NEW x \in Contexts, poll_full(x) PROVE SoftTypes'
  BY <1>0, <1>17, Kinds DEF Settings, NdTypeOK, SoftTypes, poll_full
<1>18. ASSUME napi_thread_wait PROVE SoftTypes'
  BY <1>0, <1>18, Kinds DEF Settings, NdTypeOK, SoftTypes, napi_thread_wait, ThreadOwns, Rest
<1>19. ASSUME threaded_want PROVE SoftTypes'
  BY <1>0, <1>19, Kinds DEF Settings, NdTypeOK, SoftTypes, threaded_want, WantBusyPoll
<1>20. ASSUME threaded_assign PROVE SoftTypes'
  BY <1>0, <1>20, Kinds DEF Settings, NdTypeOK, SoftTypes, threaded_assign
<1>21. ASSUME threaded_polled PROVE SoftTypes'
  BY <1>0, <1>21, Kinds DEF Settings, NdTypeOK, SoftTypes, threaded_polled
<1>22. ASSUME busy_begins PROVE SoftTypes'
  BY <1>0, <1>22, Kinds DEF Settings, NdTypeOK, SoftTypes, busy_begins
<1>23. ASSUME busy_try PROVE SoftTypes'
  BY <1>0, <1>23, Kinds DEF Settings, NdTypeOK, SoftTypes, busy_try
<1>24. ASSUME NEW again \in BOOLEAN, busy_round(again) PROVE SoftTypes'
  BY <1>0, <1>24, Kinds DEF Settings, NdTypeOK, SoftTypes, busy_round
<1>25. ASSUME busy_poll_stop PROVE SoftTypes'
  BY <1>0, <1>25, Kinds DEF Settings, NdTypeOK, SoftTypes, busy_poll_stop
<1>26. ASSUME busy_last_poll PROVE SoftTypes'
  BY <1>0, <1>26, Kinds DEF Settings, NdTypeOK, SoftTypes, busy_last_poll
<1>27. ASSUME busy_stopped_full PROVE SoftTypes'
  BY <1>0, <1>27, Kinds DEF Settings, NdTypeOK, SoftTypes, busy_stopped_full
<1>28. ASSUME busy_ends PROVE SoftTypes'
  BY <1>0, <1>28, Kinds DEF Settings, NdTypeOK, SoftTypes, busy_ends, Rest
<1>29. ASSUME netif_napi_add PROVE SoftTypes'
  BY <1>0, <1>29, Kinds
     DEF Settings, NdTypeOK, SoftTypes,
         netif_napi_add, Begin, CreateThread, Rest
<1>30. ASSUME napi_enable PROVE SoftTypes'
  BY <1>0, <1>30, Kinds DEF Settings, NdTypeOK, SoftTypes, napi_enable, Begin, ModeBits
<1>31. ASSUME disable_begins PROVE SoftTypes'
  BY <1>0, <1>31, Kinds DEF Settings, NdTypeOK, SoftTypes, disable_begins, Begin
<1>32. ASSUME disable_takes PROVE SoftTypes'
  BY <1>0, <1>32, Kinds DEF Settings, NdTypeOK, SoftTypes, disable_takes, MayDisable, Admin
<1>33. ASSUME hrtimer_cancel PROVE SoftTypes'
  BY <1>0, <1>33, Kinds DEF Settings, NdTypeOK, SoftTypes, hrtimer_cancel, Admin
<1>34. ASSUME disable_ends PROVE SoftTypes'
  BY <1>0, <1>34, Kinds DEF Settings, NdTypeOK, SoftTypes, disable_ends, Admin
<1>35. ASSUME NEW m \in Modes, netif_set_threaded(m) PROVE SoftTypes'
  BY <1>0, <1>35, Kinds
     DEF Settings, NdTypeOK, SoftTypes,
         netif_set_threaded, Begin, Settled, CreateThread, Rest, ModeBits
<1>36. ASSUME stop_unset PROVE SoftTypes'
  BY <1>0, <1>36, Kinds DEF Settings, NdTypeOK, SoftTypes, stop_unset, MayUnset, Admin
<1>37. ASSUME kthread_stop PROVE SoftTypes'
  BY <1>0, <1>37, Kinds DEF Settings, NdTypeOK, SoftTypes, kthread_stop
<1>38. ASSUME thread_stopped PROVE SoftTypes'
  BY <1>0, <1>38, Kinds DEF Settings, NdTypeOK, SoftTypes, thread_stopped, Settled, Admin
<1>39. ASSUME netif_napi_del PROVE SoftTypes'
  BY <1>0, <1>39, Kinds DEF Settings, NdTypeOK, SoftTypes, netif_napi_del, Begin
<1>40. ASSUME napi_freed PROVE SoftTypes'
  BY <1>0, <1>40, Kinds DEF Settings, NdTypeOK, SoftTypes, napi_freed, Admin
<1> QED BY <1>1, <1>2, <1>3, <1>4, <1>5, <1>6, <1>7, <1>8, <1>9, <1>10, <1>11, <1>12,
           <1>13, <1>14, <1>15, <1>16, <1>17, <1>18, <1>19, <1>20, <1>21, <1>22, <1>23, <1>24,
           <1>25, <1>26, <1>27, <1>28, <1>29, <1>30, <1>31, <1>32, <1>33, <1>34, <1>35, <1>36,
           <1>37, <1>38, <1>39, <1>40
        DEF Next, RxStep, PollStep, ThreadStep, BusyStep, AdminEnds

-------------------------------------------------------------------------------
(* The contexts.                                                            *)
LEMMA ContextTypesStep ==
  ASSUME Settings, NdInv, TimerEndsFirst, Next
  PROVE  ContextTypes'
<1>0. Settings /\ NdTypeOK
  BY DEF NdInv
<1>1. ASSUME device_receives PROVE ContextTypes'
  BY <1>0, <1>1, Kinds
     DEF Settings, NdTypeOK, ContextTypes, CtxTypes, AllPCs, PollPCs, EndPCs,
         device_receives
<1>2. ASSUME NEW c \in NdCpus, napi_schedule(c) PROVE ContextTypes'
  <2> DEFINE p == IF PrepOwns THEN "look" ELSE "rest"
  <2>1. p \in {"look", "rest"}
    BY <1>0 DEF Settings, NdTypeOK, ContextTypes, CtxTypes, AllPCs, PollPCs, EndPCs
  <2>2. ctx' = [ctx EXCEPT ![Irq(c)].pc = p]
    BY <1>2 DEF napi_schedule
  <2> HIDE DEF p
  <2> QED BY <1>0, <1>2, Kinds, <2>1, <2>2
          DEF Settings, NdTypeOK, ContextTypes, CtxTypes, AllPCs, PollPCs, EndPCs
<1>3. ASSUME NEW c \in NdCpus, timer_expires(c) PROVE ContextTypes'
  BY <1>0, <1>3, Kinds
     DEF Settings, NdTypeOK, ContextTypes, CtxTypes, AllPCs, PollPCs, EndPCs,
         timer_expires
<1>4. ASSUME NEW c \in NdCpus, napi_watchdog(c) PROVE ContextTypes'
  BY <1>0, <1>4, Kinds
     DEF Settings, NdTypeOK, ContextTypes, CtxTypes, AllPCs, PollPCs, EndPCs,
         napi_watchdog, WatchdogOwns
<1>5. ASSUME NEW c \in NdCpus, rx_start(c) PROVE ContextTypes'
  BY <1>0, <1>5, Kinds
     DEF Settings, NdTypeOK, ContextTypes, CtxTypes, AllPCs, PollPCs, EndPCs,
         rx_start
<1>6. ASSUME NEW c \in NdCpus, rx_loop(c) PROVE ContextTypes'
  BY <1>0, <1>6, Kinds
     DEF Settings, NdTypeOK, ContextTypes, CtxTypes, AllPCs, PollPCs, EndPCs,
         rx_loop
<1>7. ASSUME NEW c \in NdCpus, rx_check(c) PROVE ContextTypes'
  BY <1>0, <1>7, Kinds
     DEF Settings, NdTypeOK, ContextTypes, CtxTypes, AllPCs, PollPCs, EndPCs,
         rx_check, AfterCheck
<1>8. ASSUME NEW c \in NdCpus, NEW e \in BOOLEAN, rx_polled(c, e) PROVE ContextTypes'
  BY <1>0, <1>8, Kinds
     DEF Settings, NdTypeOK, ContextTypes, CtxTypes, AllPCs, PollPCs, EndPCs,
         rx_polled, Rest
<1>9. ASSUME NEW c \in NdCpus, rx_punt(c) PROVE ContextTypes'
  BY <1>0, <1>9, Kinds
     DEF Settings, NdTypeOK, ContextTypes, CtxTypes, AllPCs, PollPCs, EndPCs,
         rx_punt
<1>10. ASSUME NEW x \in Contexts, schedule_look(x) PROVE ContextTypes'
  <2> DEFINE t == IF Has("THREADED") /\ kthread.there THEN "thread" ELSE "list"
  <2>1. t \in {"thread", "list"}
    BY <1>0 DEF Settings, NdTypeOK, ContextTypes, CtxTypes, AllPCs, PollPCs, EndPCs
  <2>2. ctx' = [ctx EXCEPT ![x] = [ctx[x] EXCEPT !.pc = "put", !.to = t]]
    BY <1>0, <1>10, Kinds DEF schedule_look, NdTypeOK, ContextTypes
  <2> HIDE DEF t
  <2>3. ctx[x] \in CtxTypes
    BY <1>0, Kinds DEF NdTypeOK, ContextTypes
  <2>4. [ctx[x] EXCEPT !.pc = "put", !.to = t] \in CtxTypes
    BY <2>3, <2>1 DEF CtxTypes, AllPCs, PollPCs, EndPCs
  <2> QED BY <1>0, <2>2, <2>4 DEF NdTypeOK, ContextTypes
<1>11. ASSUME NEW x \in Contexts, schedule_put(x) PROVE ContextTypes'
  BY <1>0, <1>11, Kinds
     DEF Settings, NdTypeOK, ContextTypes, CtxTypes, AllPCs, PollPCs, EndPCs,
         schedule_put
<1>12. ASSUME NEW x \in Contexts, poll(x) PROVE ContextTypes'
  <2> DEFINE w == IF hw.ring < WEIGHT THEN hw.ring ELSE WEIGHT
             p == IF w = WEIGHT THEN "full" ELSE "complete"
             d == w > 0
  <2>1. p \in {"full", "complete"} /\ d \in BOOLEAN
    OBVIOUS
  <2>2. ctx' = [ctx EXCEPT ![x] = [ctx[x] EXCEPT !.pc = p, !.done = d, !.then = "driver"]]
    BY <1>0, <1>12, Kinds DEF poll, NdTypeOK, ContextTypes
  <2> HIDE DEF p, d
  <2>3. ctx[x] \in CtxTypes
    BY <1>0, Kinds DEF NdTypeOK, ContextTypes
  <2>4. [ctx[x] EXCEPT !.pc = p, !.done = d, !.then = "driver"] \in CtxTypes
    BY <2>3, <2>1 DEF CtxTypes, AllPCs, PollPCs, EndPCs
  <2> QED BY <1>0, <2>2, <2>4 DEF NdTypeOK, ContextTypes
<1>13. ASSUME NEW x \in Contexts, NEW held \in BOOLEAN, napi_complete_done(x, held) PROVE ContextTypes'
  BY <1>0, <1>13, Kinds
     DEF Settings, NdTypeOK, ContextTypes, CtxTypes, AllPCs, PollPCs, EndPCs,
         napi_complete_done
<1>14. ASSUME NEW x \in Contexts, complete_cmpxchg(x) PROVE ContextTypes'
  <2> DEFINE p == IF PollAgain THEN "look" ELSE IF ctx[x].timeout THEN "arm" ELSE "ret"
  <2> DEFINE r == ctx[x].ret /\ ~PollAgain
  <2>1. p \in {"look", "arm", "ret"}
    BY <1>0 DEF Settings, NdTypeOK, ContextTypes, CtxTypes, AllPCs, PollPCs, EndPCs
  <2>2. r \in BOOLEAN
    BY <1>0 DEF Settings, NdTypeOK, ContextTypes, CtxTypes, AllPCs, PollPCs, EndPCs
  <2>3. ctx' = [ctx EXCEPT ![x] = [ctx[x] EXCEPT !.pc = p, !.ret = r]]
    BY <1>0, <1>14, Kinds DEF complete_cmpxchg, NdTypeOK, ContextTypes
  <2> HIDE DEF p, r
  <2>4. ctx[x] \in CtxTypes
    BY <1>0, Kinds DEF NdTypeOK, ContextTypes
  <2>5. [ctx[x] EXCEPT !.pc = p, !.ret = r] \in CtxTypes
    BY <2>4, <2>1, <2>2 DEF CtxTypes, AllPCs, PollPCs, EndPCs
  <2> QED BY <1>0, <2>3, <2>5 DEF NdTypeOK, ContextTypes
<1>15. ASSUME NEW x \in Contexts, hrtimer_start(x) PROVE ContextTypes'
  BY <1>0, <1>15, Kinds
     DEF Settings, NdTypeOK, ContextTypes, CtxTypes, AllPCs, PollPCs, EndPCs,
         hrtimer_start
<1>16. ASSUME NEW x \in Contexts, complete_returns(x) PROVE ContextTypes'
  BY <1>0, <1>16, Kinds
     DEF Settings, NdTypeOK, ContextTypes, CtxTypes, AllPCs, PollPCs, EndPCs,
         complete_returns, PrepBits, PrepOwns
<1>17. ASSUME NEW x \in Contexts, poll_full(x) PROVE ContextTypes'
  <2>1. (\A y \in Contexts : ctx'[y] \in CtxTypes) /\ DOMAIN ctx' = Contexts
    BY <1>0, <1>17, PollFullEffect DEF NdTypeOK, ContextTypes, poll_full
  <2> QED BY <1>0, <1>17, <2>1 DEF NdTypeOK, ContextTypes, poll_full
<1>18. ASSUME napi_thread_wait PROVE ContextTypes'
  <2>1. Rest \in CtxTypes /\ [Rest EXCEPT !.pc = "want", !.to = "thread"] \in CtxTypes
    BY DEF Rest, CtxTypes, AllPCs
  <2> HIDE DEF Rest
  <2> QED BY <1>0, <1>18, Kinds, <2>1 DEF napi_thread_wait, NdTypeOK, ContextTypes
<1>19. ASSUME threaded_want PROVE ContextTypes'
  <2> DEFINE r == WantBusyPoll
  <2>1. r \in BOOLEAN
    BY <1>0 DEF Settings, NdTypeOK, ContextTypes, CtxTypes, AllPCs, PollPCs, EndPCs, WantBusyPoll
  <2>2. ctx' = [ctx EXCEPT ![Thread] = [ctx[Thread] EXCEPT !.pc = "assign", !.ret = r]]
    BY <1>0, <1>19, Kinds DEF threaded_want, WantBusyPoll, NdTypeOK, ContextTypes
  <2> HIDE DEF r
  <2>3. ctx[Thread] \in CtxTypes
    BY <1>0, Kinds DEF NdTypeOK, ContextTypes
  <2>4. [ctx[Thread] EXCEPT !.pc = "assign", !.ret = r] \in CtxTypes
    BY <2>3, <2>1 DEF CtxTypes, AllPCs, PollPCs, EndPCs
  <2> QED BY <1>0, <2>2, <2>4 DEF NdTypeOK, ContextTypes
<1>20. ASSUME threaded_assign PROVE ContextTypes'
  BY <1>0, <1>20, Kinds
     DEF Settings, NdTypeOK, ContextTypes, CtxTypes, AllPCs, PollPCs, EndPCs,
         threaded_assign
<1>21. ASSUME threaded_polled PROVE ContextTypes'
  BY <1>0, <1>21, Kinds
     DEF Settings, NdTypeOK, ContextTypes, CtxTypes, AllPCs, PollPCs, EndPCs,
         threaded_polled
<1>22. ASSUME busy_begins PROVE ContextTypes'
  BY <1>0, <1>22, Kinds
     DEF Settings, NdTypeOK, ContextTypes, CtxTypes, AllPCs, PollPCs, EndPCs,
         busy_begins
<1>23. ASSUME busy_try PROVE ContextTypes'
  BY <1>0, <1>23, Kinds
     DEF Settings, NdTypeOK, ContextTypes, CtxTypes, AllPCs, PollPCs, EndPCs,
         busy_try
<1>24. ASSUME NEW again \in BOOLEAN, busy_round(again) PROVE ContextTypes'
  BY <1>0, <1>24, Kinds
     DEF Settings, NdTypeOK, ContextTypes, CtxTypes, AllPCs, PollPCs, EndPCs,
         busy_round
<1>25. ASSUME busy_poll_stop PROVE ContextTypes'
  BY <1>0, <1>25, Kinds
     DEF Settings, NdTypeOK, ContextTypes, CtxTypes, AllPCs, PollPCs, EndPCs,
         busy_poll_stop
<1>26. ASSUME busy_last_poll PROVE ContextTypes'
  <2>1. ctx' = [ctx EXCEPT ![Busy] = [ctx[Busy] EXCEPT !.pc = "poll", !.stop = TRUE]]
    BY <1>0, <1>26, Kinds DEF busy_last_poll, NdTypeOK, ContextTypes
  <2>2. ctx[Busy] \in CtxTypes
    BY <1>0, Kinds DEF NdTypeOK, ContextTypes
  <2>3. [ctx[Busy] EXCEPT !.pc = "poll", !.stop = TRUE] \in CtxTypes
    BY <2>2 DEF CtxTypes, AllPCs, PollPCs, EndPCs
  <2> QED BY <1>0, <2>1, <2>3 DEF NdTypeOK, ContextTypes
<1>27. ASSUME busy_stopped_full PROVE ContextTypes'
  <2> DEFINE p == IF PREFER /\ DEFER > 0 /\ TIMEOUT THEN "arm" ELSE "look"
  <2>1. p \in {"arm", "look"}
    OBVIOUS
  <2>2. ctx' = [ctx EXCEPT ![Busy] = [ctx[Busy] EXCEPT !.pc = p, !.ret = FALSE]]
    BY <1>0, <1>27, Kinds DEF busy_stopped_full, NdTypeOK, ContextTypes
  <2> HIDE DEF p
  <2>3. ctx[Busy] \in CtxTypes
    BY <1>0, Kinds DEF NdTypeOK, ContextTypes
  <2>4. [ctx[Busy] EXCEPT !.pc = p, !.ret = FALSE] \in CtxTypes
    BY <2>3, <2>1 DEF CtxTypes, AllPCs, PollPCs, EndPCs
  <2> QED BY <1>0, <2>2, <2>4 DEF NdTypeOK, ContextTypes
<1>28. ASSUME busy_ends PROVE ContextTypes'
  BY <1>0, <1>28, Kinds
     DEF Settings, NdTypeOK, ContextTypes, CtxTypes, AllPCs, PollPCs, EndPCs,
         busy_ends, Rest
<1>29. ASSUME netif_napi_add PROVE ContextTypes'
  BY <1>0, <1>29, Kinds
     DEF Settings, NdTypeOK, ContextTypes, CtxTypes, AllPCs, PollPCs, EndPCs,
         netif_napi_add, Begin, CreateThread, Rest
<1>30. ASSUME napi_enable PROVE ContextTypes'
  BY <1>0, <1>30, Kinds
     DEF Settings, NdTypeOK, ContextTypes, CtxTypes, AllPCs, PollPCs, EndPCs,
         napi_enable, Begin, ModeBits
<1>31. ASSUME disable_begins PROVE ContextTypes'
  BY <1>0, <1>31, Kinds
     DEF Settings, NdTypeOK, ContextTypes, CtxTypes, AllPCs, PollPCs, EndPCs,
         disable_begins, Begin
<1>32. ASSUME disable_takes PROVE ContextTypes'
  BY <1>0, <1>32, Kinds
     DEF Settings, NdTypeOK, ContextTypes, CtxTypes, AllPCs, PollPCs, EndPCs,
         disable_takes, MayDisable, Admin
<1>33. ASSUME hrtimer_cancel PROVE ContextTypes'
  BY <1>0, <1>33, Kinds
     DEF Settings, NdTypeOK, ContextTypes, CtxTypes, AllPCs, PollPCs, EndPCs,
         hrtimer_cancel, Admin
<1>34. ASSUME disable_ends PROVE ContextTypes'
  BY <1>0, <1>34, Kinds
     DEF Settings, NdTypeOK, ContextTypes, CtxTypes, AllPCs, PollPCs, EndPCs,
         disable_ends, Admin
<1>35. ASSUME NEW m \in Modes, netif_set_threaded(m) PROVE ContextTypes'
  BY <1>0, <1>35, Kinds
     DEF Settings, NdTypeOK, ContextTypes, CtxTypes, AllPCs, PollPCs, EndPCs,
         netif_set_threaded, Begin, Settled, CreateThread, Rest, ModeBits
<1>36. ASSUME stop_unset PROVE ContextTypes'
  BY <1>0, <1>36, Kinds
     DEF Settings, NdTypeOK, ContextTypes, CtxTypes, AllPCs, PollPCs, EndPCs,
         stop_unset, MayUnset, Admin
<1>37. ASSUME kthread_stop PROVE ContextTypes'
  BY <1>0, <1>37, Kinds
     DEF Settings, NdTypeOK, ContextTypes, CtxTypes, AllPCs, PollPCs, EndPCs,
         kthread_stop
<1>38. ASSUME thread_stopped PROVE ContextTypes'
  BY <1>0, <1>38, Kinds
     DEF Settings, NdTypeOK, ContextTypes, CtxTypes, AllPCs, PollPCs, EndPCs,
         thread_stopped, Settled, Admin
<1>39. ASSUME netif_napi_del PROVE ContextTypes'
  BY <1>0, <1>39, Kinds
     DEF Settings, NdTypeOK, ContextTypes, CtxTypes, AllPCs, PollPCs, EndPCs,
         netif_napi_del, Begin
<1>40. ASSUME napi_freed PROVE ContextTypes'
  BY <1>0, <1>40, Kinds
     DEF Settings, NdTypeOK, ContextTypes, CtxTypes, AllPCs, PollPCs, EndPCs,
         napi_freed, Admin
<1> QED BY <1>1, <1>2, <1>3, <1>4, <1>5, <1>6, <1>7, <1>8, <1>9, <1>10, <1>11, <1>12,
           <1>13, <1>14, <1>15, <1>16, <1>17, <1>18, <1>19, <1>20, <1>21, <1>22, <1>23, <1>24,
           <1>25, <1>26, <1>27, <1>28, <1>29, <1>30, <1>31, <1>32, <1>33, <1>34, <1>35, <1>36,
           <1>37, <1>38, <1>39, <1>40
        DEF Next, RxStep, PollStep, ThreadStep, BusyStep, AdminEnds

-------------------------------------------------------------------------------
(* The kthread.                                                             *)
LEMMA ThreadTypesStep ==
  ASSUME Settings, NdInv, TimerEndsFirst, Next
  PROVE  ThreadTypes'
<1>0. Settings /\ NdTypeOK
  BY DEF NdInv
<1>1. ASSUME device_receives PROVE ThreadTypes'
  BY <1>0, <1>1, Kinds DEF Settings, NdTypeOK, ThreadTypes, device_receives
<1>2. ASSUME NEW c \in NdCpus, napi_schedule(c) PROVE ThreadTypes'
  BY <1>0, <1>2, Kinds DEF Settings, NdTypeOK, ThreadTypes, napi_schedule, PrepBits, PrepOwns
<1>3. ASSUME NEW c \in NdCpus, timer_expires(c) PROVE ThreadTypes'
  BY <1>0, <1>3, Kinds DEF Settings, NdTypeOK, ThreadTypes, timer_expires
<1>4. ASSUME NEW c \in NdCpus, napi_watchdog(c) PROVE ThreadTypes'
  BY <1>0, <1>4, Kinds DEF Settings, NdTypeOK, ThreadTypes, napi_watchdog, WatchdogOwns
<1>5. ASSUME NEW c \in NdCpus, rx_start(c) PROVE ThreadTypes'
  BY <1>0, <1>5, Kinds DEF Settings, NdTypeOK, ThreadTypes, rx_start
<1>6. ASSUME NEW c \in NdCpus, rx_loop(c) PROVE ThreadTypes'
  BY <1>0, <1>6, Kinds DEF Settings, NdTypeOK, ThreadTypes, rx_loop
<1>7. ASSUME NEW c \in NdCpus, rx_check(c) PROVE ThreadTypes'
  BY <1>0, <1>7, Kinds DEF Settings, NdTypeOK, ThreadTypes, rx_check, AfterCheck
<1>8. ASSUME NEW c \in NdCpus, NEW e \in BOOLEAN, rx_polled(c, e) PROVE ThreadTypes'
  BY <1>0, <1>8, Kinds DEF Settings, NdTypeOK, ThreadTypes, rx_polled, Rest
<1>9. ASSUME NEW c \in NdCpus, rx_punt(c) PROVE ThreadTypes'
  BY <1>0, <1>9, Kinds DEF Settings, NdTypeOK, ThreadTypes, rx_punt
<1>10. ASSUME NEW x \in Contexts, schedule_look(x) PROVE ThreadTypes'
  BY <1>0, <1>10, Kinds DEF Settings, NdTypeOK, ThreadTypes, schedule_look
<1>11. ASSUME NEW x \in Contexts, schedule_put(x) PROVE ThreadTypes'
  BY <1>0, <1>11, Kinds DEF Settings, NdTypeOK, ThreadTypes, schedule_put
<1>12. ASSUME NEW x \in Contexts, poll(x) PROVE ThreadTypes'
  BY <1>0, <1>12, Kinds DEF Settings, NdTypeOK, ThreadTypes, poll
<1>13. ASSUME NEW x \in Contexts, NEW held \in BOOLEAN, napi_complete_done(x, held) PROVE ThreadTypes'
  BY <1>0, <1>13, Kinds DEF Settings, NdTypeOK, ThreadTypes, napi_complete_done
<1>14. ASSUME NEW x \in Contexts, complete_cmpxchg(x) PROVE ThreadTypes'
  BY <1>0, <1>14, Kinds DEF Settings, NdTypeOK, ThreadTypes, complete_cmpxchg, PollAgain
<1>15. ASSUME NEW x \in Contexts, hrtimer_start(x) PROVE ThreadTypes'
  BY <1>0, <1>15, Kinds DEF Settings, NdTypeOK, ThreadTypes, hrtimer_start
<1>16. ASSUME NEW x \in Contexts, complete_returns(x) PROVE ThreadTypes'
  BY <1>0, <1>16, Kinds DEF Settings, NdTypeOK, ThreadTypes, complete_returns, PrepBits, PrepOwns
<1>17. ASSUME NEW x \in Contexts, poll_full(x) PROVE ThreadTypes'
  BY <1>0, <1>17, Kinds DEF Settings, NdTypeOK, ThreadTypes, poll_full
<1>18. ASSUME napi_thread_wait PROVE ThreadTypes'
  BY <1>0, <1>18, Kinds DEF Settings, NdTypeOK, ThreadTypes, napi_thread_wait, ThreadOwns, Rest
<1>19. ASSUME threaded_want PROVE ThreadTypes'
  BY <1>0, <1>19, Kinds DEF Settings, NdTypeOK, ThreadTypes, threaded_want, WantBusyPoll
<1>20. ASSUME threaded_assign PROVE ThreadTypes'
  BY <1>0, <1>20, Kinds DEF Settings, NdTypeOK, ThreadTypes, threaded_assign
<1>21. ASSUME threaded_polled PROVE ThreadTypes'
  BY <1>0, <1>21, Kinds DEF Settings, NdTypeOK, ThreadTypes, threaded_polled
<1>22. ASSUME busy_begins PROVE ThreadTypes'
  BY <1>0, <1>22, Kinds DEF Settings, NdTypeOK, ThreadTypes, busy_begins
<1>23. ASSUME busy_try PROVE ThreadTypes'
  BY <1>0, <1>23, Kinds DEF Settings, NdTypeOK, ThreadTypes, busy_try
<1>24. ASSUME NEW again \in BOOLEAN, busy_round(again) PROVE ThreadTypes'
  BY <1>0, <1>24, Kinds DEF Settings, NdTypeOK, ThreadTypes, busy_round
<1>25. ASSUME busy_poll_stop PROVE ThreadTypes'
  BY <1>0, <1>25, Kinds DEF Settings, NdTypeOK, ThreadTypes, busy_poll_stop
<1>26. ASSUME busy_last_poll PROVE ThreadTypes'
  BY <1>0, <1>26, Kinds DEF Settings, NdTypeOK, ThreadTypes, busy_last_poll
<1>27. ASSUME busy_stopped_full PROVE ThreadTypes'
  BY <1>0, <1>27, Kinds DEF Settings, NdTypeOK, ThreadTypes, busy_stopped_full
<1>28. ASSUME busy_ends PROVE ThreadTypes'
  BY <1>0, <1>28, Kinds DEF Settings, NdTypeOK, ThreadTypes, busy_ends, Rest
<1>29. ASSUME netif_napi_add PROVE ThreadTypes'
  BY <1>0, <1>29, Kinds
     DEF Settings, NdTypeOK, ThreadTypes,
         netif_napi_add, Begin, CreateThread, Rest
<1>30. ASSUME napi_enable PROVE ThreadTypes'
  BY <1>0, <1>30, Kinds DEF Settings, NdTypeOK, ThreadTypes, napi_enable, Begin, ModeBits
<1>31. ASSUME disable_begins PROVE ThreadTypes'
  BY <1>0, <1>31, Kinds DEF Settings, NdTypeOK, ThreadTypes, disable_begins, Begin
<1>32. ASSUME disable_takes PROVE ThreadTypes'
  BY <1>0, <1>32, Kinds DEF Settings, NdTypeOK, ThreadTypes, disable_takes, MayDisable, Admin
<1>33. ASSUME hrtimer_cancel PROVE ThreadTypes'
  BY <1>0, <1>33, Kinds DEF Settings, NdTypeOK, ThreadTypes, hrtimer_cancel, Admin
<1>34. ASSUME disable_ends PROVE ThreadTypes'
  BY <1>0, <1>34, Kinds DEF Settings, NdTypeOK, ThreadTypes, disable_ends, Admin
<1>35. ASSUME NEW m \in Modes, netif_set_threaded(m) PROVE ThreadTypes'
  BY <1>0, <1>35, Kinds
     DEF Settings, NdTypeOK, ThreadTypes,
         netif_set_threaded, Begin, Settled, CreateThread, Rest, ModeBits
<1>36. ASSUME stop_unset PROVE ThreadTypes'
  BY <1>0, <1>36, Kinds DEF Settings, NdTypeOK, ThreadTypes, stop_unset, MayUnset, Admin
<1>37. ASSUME kthread_stop PROVE ThreadTypes'
  BY <1>0, <1>37, Kinds DEF Settings, NdTypeOK, ThreadTypes, kthread_stop
<1>38. ASSUME thread_stopped PROVE ThreadTypes'
  BY <1>0, <1>38, Kinds DEF Settings, NdTypeOK, ThreadTypes, thread_stopped, Settled, Admin
<1>39. ASSUME netif_napi_del PROVE ThreadTypes'
  BY <1>0, <1>39, Kinds DEF Settings, NdTypeOK, ThreadTypes, netif_napi_del, Begin
<1>40. ASSUME napi_freed PROVE ThreadTypes'
  BY <1>0, <1>40, Kinds DEF Settings, NdTypeOK, ThreadTypes, napi_freed, Admin
<1> QED BY <1>1, <1>2, <1>3, <1>4, <1>5, <1>6, <1>7, <1>8, <1>9, <1>10, <1>11, <1>12,
           <1>13, <1>14, <1>15, <1>16, <1>17, <1>18, <1>19, <1>20, <1>21, <1>22, <1>23, <1>24,
           <1>25, <1>26, <1>27, <1>28, <1>29, <1>30, <1>31, <1>32, <1>33, <1>34, <1>35, <1>36,
           <1>37, <1>38, <1>39, <1>40
        DEF Next, RxStep, PollStep, ThreadStep, BusyStep, AdminEnds

-------------------------------------------------------------------------------
(* The operation under way.                                                 *)
LEMMA AdminTypesStep ==
  ASSUME Settings, NdInv, TimerEndsFirst, Next
  PROVE  AdminTypes'
<1>0. Settings /\ NdTypeOK
  BY DEF NdInv
<1>1. ASSUME device_receives PROVE AdminTypes'
  BY <1>0, <1>1, Kinds DEF Settings, NdTypeOK, AdminTypes, AdminPCs, device_receives
<1>2. ASSUME NEW c \in NdCpus, napi_schedule(c) PROVE AdminTypes'
  BY <1>0, <1>2, Kinds
     DEF Settings, NdTypeOK, AdminTypes, AdminPCs,
         napi_schedule, PrepBits, PrepOwns
<1>3. ASSUME NEW c \in NdCpus, timer_expires(c) PROVE AdminTypes'
  BY <1>0, <1>3, Kinds DEF Settings, NdTypeOK, AdminTypes, AdminPCs, timer_expires
<1>4. ASSUME NEW c \in NdCpus, napi_watchdog(c) PROVE AdminTypes'
  BY <1>0, <1>4, Kinds DEF Settings, NdTypeOK, AdminTypes, AdminPCs, napi_watchdog, WatchdogOwns
<1>5. ASSUME NEW c \in NdCpus, rx_start(c) PROVE AdminTypes'
  BY <1>0, <1>5, Kinds DEF Settings, NdTypeOK, AdminTypes, AdminPCs, rx_start
<1>6. ASSUME NEW c \in NdCpus, rx_loop(c) PROVE AdminTypes'
  BY <1>0, <1>6, Kinds DEF Settings, NdTypeOK, AdminTypes, AdminPCs, rx_loop
<1>7. ASSUME NEW c \in NdCpus, rx_check(c) PROVE AdminTypes'
  BY <1>0, <1>7, Kinds DEF Settings, NdTypeOK, AdminTypes, AdminPCs, rx_check, AfterCheck
<1>8. ASSUME NEW c \in NdCpus, NEW e \in BOOLEAN, rx_polled(c, e) PROVE AdminTypes'
  BY <1>0, <1>8, Kinds DEF Settings, NdTypeOK, AdminTypes, AdminPCs, rx_polled, Rest
<1>9. ASSUME NEW c \in NdCpus, rx_punt(c) PROVE AdminTypes'
  BY <1>0, <1>9, Kinds DEF Settings, NdTypeOK, AdminTypes, AdminPCs, rx_punt
<1>10. ASSUME NEW x \in Contexts, schedule_look(x) PROVE AdminTypes'
  BY <1>0, <1>10, Kinds DEF Settings, NdTypeOK, AdminTypes, AdminPCs, schedule_look
<1>11. ASSUME NEW x \in Contexts, schedule_put(x) PROVE AdminTypes'
  BY <1>0, <1>11, Kinds DEF Settings, NdTypeOK, AdminTypes, AdminPCs, schedule_put
<1>12. ASSUME NEW x \in Contexts, poll(x) PROVE AdminTypes'
  BY <1>0, <1>12, Kinds DEF Settings, NdTypeOK, AdminTypes, AdminPCs, poll
<1>13. ASSUME NEW x \in Contexts, NEW held \in BOOLEAN, napi_complete_done(x, held) PROVE AdminTypes'
  BY <1>0, <1>13, Kinds DEF Settings, NdTypeOK, AdminTypes, AdminPCs, napi_complete_done
<1>14. ASSUME NEW x \in Contexts, complete_cmpxchg(x) PROVE AdminTypes'
  BY <1>0, <1>14, Kinds DEF Settings, NdTypeOK, AdminTypes, AdminPCs, complete_cmpxchg, PollAgain
<1>15. ASSUME NEW x \in Contexts, hrtimer_start(x) PROVE AdminTypes'
  BY <1>0, <1>15, Kinds DEF Settings, NdTypeOK, AdminTypes, AdminPCs, hrtimer_start
<1>16. ASSUME NEW x \in Contexts, complete_returns(x) PROVE AdminTypes'
  BY <1>0, <1>16, Kinds
     DEF Settings, NdTypeOK, AdminTypes, AdminPCs,
         complete_returns, PrepBits, PrepOwns
<1>17. ASSUME NEW x \in Contexts, poll_full(x) PROVE AdminTypes'
  BY <1>0, <1>17, Kinds DEF Settings, NdTypeOK, AdminTypes, AdminPCs, poll_full
<1>18. ASSUME napi_thread_wait PROVE AdminTypes'
  BY <1>0, <1>18, Kinds
     DEF Settings, NdTypeOK, AdminTypes, AdminPCs,
         napi_thread_wait, ThreadOwns, Rest
<1>19. ASSUME threaded_want PROVE AdminTypes'
  BY <1>0, <1>19, Kinds DEF Settings, NdTypeOK, AdminTypes, AdminPCs, threaded_want, WantBusyPoll
<1>20. ASSUME threaded_assign PROVE AdminTypes'
  BY <1>0, <1>20, Kinds DEF Settings, NdTypeOK, AdminTypes, AdminPCs, threaded_assign
<1>21. ASSUME threaded_polled PROVE AdminTypes'
  BY <1>0, <1>21, Kinds DEF Settings, NdTypeOK, AdminTypes, AdminPCs, threaded_polled
<1>22. ASSUME busy_begins PROVE AdminTypes'
  BY <1>0, <1>22, Kinds DEF Settings, NdTypeOK, AdminTypes, AdminPCs, busy_begins
<1>23. ASSUME busy_try PROVE AdminTypes'
  BY <1>0, <1>23, Kinds DEF Settings, NdTypeOK, AdminTypes, AdminPCs, busy_try
<1>24. ASSUME NEW again \in BOOLEAN, busy_round(again) PROVE AdminTypes'
  BY <1>0, <1>24, Kinds DEF Settings, NdTypeOK, AdminTypes, AdminPCs, busy_round
<1>25. ASSUME busy_poll_stop PROVE AdminTypes'
  BY <1>0, <1>25, Kinds DEF Settings, NdTypeOK, AdminTypes, AdminPCs, busy_poll_stop
<1>26. ASSUME busy_last_poll PROVE AdminTypes'
  BY <1>0, <1>26, Kinds DEF Settings, NdTypeOK, AdminTypes, AdminPCs, busy_last_poll
<1>27. ASSUME busy_stopped_full PROVE AdminTypes'
  BY <1>0, <1>27, Kinds DEF Settings, NdTypeOK, AdminTypes, AdminPCs, busy_stopped_full
<1>28. ASSUME busy_ends PROVE AdminTypes'
  BY <1>0, <1>28, Kinds DEF Settings, NdTypeOK, AdminTypes, AdminPCs, busy_ends, Rest
<1>29. ASSUME netif_napi_add PROVE AdminTypes'
  BY <1>0, <1>29, Kinds
     DEF Settings, NdTypeOK, AdminTypes, AdminPCs,
         netif_napi_add, Begin, CreateThread, Rest
<1>30. ASSUME napi_enable PROVE AdminTypes'
  BY <1>0, <1>30, Kinds DEF Settings, NdTypeOK, AdminTypes, AdminPCs, napi_enable, Begin, ModeBits
<1>31. ASSUME disable_begins PROVE AdminTypes'
  BY <1>0, <1>31, Kinds DEF Settings, NdTypeOK, AdminTypes, AdminPCs, disable_begins, Begin
<1>32. ASSUME disable_takes PROVE AdminTypes'
  BY <1>0, <1>32, Kinds
     DEF Settings, NdTypeOK, AdminTypes, AdminPCs,
         disable_takes, MayDisable, Admin
<1>33. ASSUME hrtimer_cancel PROVE AdminTypes'
  BY <1>0, <1>33, Kinds DEF Settings, NdTypeOK, AdminTypes, AdminPCs, hrtimer_cancel, Admin
<1>34. ASSUME disable_ends PROVE AdminTypes'
  BY <1>0, <1>34, Kinds DEF Settings, NdTypeOK, AdminTypes, AdminPCs, disable_ends, Admin
<1>35. ASSUME NEW m \in Modes, netif_set_threaded(m) PROVE AdminTypes'
  BY <1>0, <1>35, Kinds
     DEF Settings, NdTypeOK, AdminTypes, AdminPCs,
         netif_set_threaded, Begin, Settled, CreateThread, Rest, ModeBits
<1>36. ASSUME stop_unset PROVE AdminTypes'
  BY <1>0, <1>36, Kinds DEF Settings, NdTypeOK, AdminTypes, AdminPCs, stop_unset, MayUnset, Admin
<1>37. ASSUME kthread_stop PROVE AdminTypes'
  BY <1>0, <1>37, Kinds DEF Settings, NdTypeOK, AdminTypes, AdminPCs, kthread_stop
<1>38. ASSUME thread_stopped PROVE AdminTypes'
  BY <1>0, <1>38, Kinds
     DEF Settings, NdTypeOK, AdminTypes, AdminPCs,
         thread_stopped, Settled, Admin
<1>39. ASSUME netif_napi_del PROVE AdminTypes'
  BY <1>0, <1>39, Kinds DEF Settings, NdTypeOK, AdminTypes, AdminPCs, netif_napi_del, Begin
<1>40. ASSUME napi_freed PROVE AdminTypes'
  BY <1>0, <1>40, Kinds DEF Settings, NdTypeOK, AdminTypes, AdminPCs, napi_freed, Admin
<1> QED BY <1>1, <1>2, <1>3, <1>4, <1>5, <1>6, <1>7, <1>8, <1>9, <1>10, <1>11, <1>12,
           <1>13, <1>14, <1>15, <1>16, <1>17, <1>18, <1>19, <1>20, <1>21, <1>22, <1>23, <1>24,
           <1>25, <1>26, <1>27, <1>28, <1>29, <1>30, <1>31, <1>32, <1>33, <1>34, <1>35, <1>36,
           <1>37, <1>38, <1>39, <1>40
        DEF Next, RxStep, PollStep, ThreadStep, BusyStep, AdminEnds

-------------------------------------------------------------------------------
(* The device.                                                              *)
LEMMA DeviceTypesStep ==
  ASSUME Settings, NdInv, TimerEndsFirst, Next
  PROVE  DeviceTypes'
<1>0. Settings /\ NdTypeOK
  BY DEF NdInv
<1>1. ASSUME device_receives PROVE DeviceTypes'
  <2>1. hw' = [hw EXCEPT !.ring = hw.ring + 1, !.arrivals = hw.arrivals + 1, !.irq = hw.irq \/ hw.edge]
    BY <1>1 DEF device_receives
  <2>2. hw.ring + 1 \in Nat /\ hw.arrivals + 1 \in Nat /\ (hw.irq \/ hw.edge) \in BOOLEAN
    BY <1>0 DEF NdTypeOK, DeviceTypes
  <2> QED BY <1>0, <2>1, <2>2 DEF Settings, NdTypeOK, DeviceTypes
<1>2. ASSUME NEW c \in NdCpus, napi_schedule(c) PROVE DeviceTypes'
  BY <1>0, <1>2, Kinds DEF Settings, NdTypeOK, DeviceTypes, napi_schedule, PrepBits, PrepOwns
<1>3. ASSUME NEW c \in NdCpus, timer_expires(c) PROVE DeviceTypes'
  BY <1>0, <1>3, Kinds DEF Settings, NdTypeOK, DeviceTypes, timer_expires
<1>4. ASSUME NEW c \in NdCpus, napi_watchdog(c) PROVE DeviceTypes'
  BY <1>0, <1>4, Kinds DEF Settings, NdTypeOK, DeviceTypes, napi_watchdog, WatchdogOwns
<1>5. ASSUME NEW c \in NdCpus, rx_start(c) PROVE DeviceTypes'
  BY <1>0, <1>5, Kinds DEF Settings, NdTypeOK, DeviceTypes, rx_start
<1>6. ASSUME NEW c \in NdCpus, rx_loop(c) PROVE DeviceTypes'
  BY <1>0, <1>6, Kinds DEF Settings, NdTypeOK, DeviceTypes, rx_loop
<1>7. ASSUME NEW c \in NdCpus, rx_check(c) PROVE DeviceTypes'
  BY <1>0, <1>7, Kinds DEF Settings, NdTypeOK, DeviceTypes, rx_check, AfterCheck
<1>8. ASSUME NEW c \in NdCpus, NEW e \in BOOLEAN, rx_polled(c, e) PROVE DeviceTypes'
  BY <1>0, <1>8, Kinds DEF Settings, NdTypeOK, DeviceTypes, rx_polled, Rest
<1>9. ASSUME NEW c \in NdCpus, rx_punt(c) PROVE DeviceTypes'
  BY <1>0, <1>9, Kinds DEF Settings, NdTypeOK, DeviceTypes, rx_punt
<1>10. ASSUME NEW x \in Contexts, schedule_look(x) PROVE DeviceTypes'
  BY <1>0, <1>10, Kinds DEF Settings, NdTypeOK, DeviceTypes, schedule_look
<1>11. ASSUME NEW x \in Contexts, schedule_put(x) PROVE DeviceTypes'
  BY <1>0, <1>11, Kinds DEF Settings, NdTypeOK, DeviceTypes, schedule_put
<1>12. ASSUME NEW x \in Contexts, poll(x) PROVE DeviceTypes'
  BY <1>0, <1>12, Kinds DEF Settings, NdTypeOK, DeviceTypes, poll
<1>13. ASSUME NEW x \in Contexts, NEW held \in BOOLEAN, napi_complete_done(x, held) PROVE DeviceTypes'
  BY <1>0, <1>13, Kinds DEF Settings, NdTypeOK, DeviceTypes, napi_complete_done
<1>14. ASSUME NEW x \in Contexts, complete_cmpxchg(x) PROVE DeviceTypes'
  BY <1>0, <1>14, Kinds DEF Settings, NdTypeOK, DeviceTypes, complete_cmpxchg, PollAgain
<1>15. ASSUME NEW x \in Contexts, hrtimer_start(x) PROVE DeviceTypes'
  BY <1>0, <1>15, Kinds DEF Settings, NdTypeOK, DeviceTypes, hrtimer_start
<1>16. ASSUME NEW x \in Contexts, complete_returns(x) PROVE DeviceTypes'
  BY <1>0, <1>16, Kinds DEF Settings, NdTypeOK, DeviceTypes, complete_returns, PrepBits, PrepOwns
<1>17. ASSUME NEW x \in Contexts, poll_full(x) PROVE DeviceTypes'
  BY <1>0, <1>17, Kinds DEF Settings, NdTypeOK, DeviceTypes, poll_full
<1>18. ASSUME napi_thread_wait PROVE DeviceTypes'
  BY <1>0, <1>18, Kinds DEF Settings, NdTypeOK, DeviceTypes, napi_thread_wait, ThreadOwns, Rest
<1>19. ASSUME threaded_want PROVE DeviceTypes'
  BY <1>0, <1>19, Kinds DEF Settings, NdTypeOK, DeviceTypes, threaded_want, WantBusyPoll
<1>20. ASSUME threaded_assign PROVE DeviceTypes'
  BY <1>0, <1>20, Kinds DEF Settings, NdTypeOK, DeviceTypes, threaded_assign
<1>21. ASSUME threaded_polled PROVE DeviceTypes'
  BY <1>0, <1>21, Kinds DEF Settings, NdTypeOK, DeviceTypes, threaded_polled
<1>22. ASSUME busy_begins PROVE DeviceTypes'
  BY <1>0, <1>22, Kinds DEF Settings, NdTypeOK, DeviceTypes, busy_begins
<1>23. ASSUME busy_try PROVE DeviceTypes'
  BY <1>0, <1>23, Kinds DEF Settings, NdTypeOK, DeviceTypes, busy_try
<1>24. ASSUME NEW again \in BOOLEAN, busy_round(again) PROVE DeviceTypes'
  BY <1>0, <1>24, Kinds DEF Settings, NdTypeOK, DeviceTypes, busy_round
<1>25. ASSUME busy_poll_stop PROVE DeviceTypes'
  BY <1>0, <1>25, Kinds DEF Settings, NdTypeOK, DeviceTypes, busy_poll_stop
<1>26. ASSUME busy_last_poll PROVE DeviceTypes'
  BY <1>0, <1>26, Kinds DEF Settings, NdTypeOK, DeviceTypes, busy_last_poll
<1>27. ASSUME busy_stopped_full PROVE DeviceTypes'
  BY <1>0, <1>27, Kinds DEF Settings, NdTypeOK, DeviceTypes, busy_stopped_full
<1>28. ASSUME busy_ends PROVE DeviceTypes'
  BY <1>0, <1>28, Kinds DEF Settings, NdTypeOK, DeviceTypes, busy_ends, Rest
<1>29. ASSUME netif_napi_add PROVE DeviceTypes'
  BY <1>0, <1>29, Kinds
     DEF Settings, NdTypeOK, DeviceTypes,
         netif_napi_add, Begin, CreateThread, Rest
<1>30. ASSUME napi_enable PROVE DeviceTypes'
  BY <1>0, <1>30, Kinds DEF Settings, NdTypeOK, DeviceTypes, napi_enable, Begin, ModeBits
<1>31. ASSUME disable_begins PROVE DeviceTypes'
  BY <1>0, <1>31, Kinds DEF Settings, NdTypeOK, DeviceTypes, disable_begins, Begin
<1>32. ASSUME disable_takes PROVE DeviceTypes'
  BY <1>0, <1>32, Kinds DEF Settings, NdTypeOK, DeviceTypes, disable_takes, MayDisable, Admin
<1>33. ASSUME hrtimer_cancel PROVE DeviceTypes'
  BY <1>0, <1>33, Kinds DEF Settings, NdTypeOK, DeviceTypes, hrtimer_cancel, Admin
<1>34. ASSUME disable_ends PROVE DeviceTypes'
  BY <1>0, <1>34, Kinds DEF Settings, NdTypeOK, DeviceTypes, disable_ends, Admin
<1>35. ASSUME NEW m \in Modes, netif_set_threaded(m) PROVE DeviceTypes'
  BY <1>0, <1>35, Kinds
     DEF Settings, NdTypeOK, DeviceTypes,
         netif_set_threaded, Begin, Settled, CreateThread, Rest, ModeBits
<1>36. ASSUME stop_unset PROVE DeviceTypes'
  BY <1>0, <1>36, Kinds DEF Settings, NdTypeOK, DeviceTypes, stop_unset, MayUnset, Admin
<1>37. ASSUME kthread_stop PROVE DeviceTypes'
  BY <1>0, <1>37, Kinds DEF Settings, NdTypeOK, DeviceTypes, kthread_stop
<1>38. ASSUME thread_stopped PROVE DeviceTypes'
  BY <1>0, <1>38, Kinds DEF Settings, NdTypeOK, DeviceTypes, thread_stopped, Settled, Admin
<1>39. ASSUME netif_napi_del PROVE DeviceTypes'
  BY <1>0, <1>39, Kinds DEF Settings, NdTypeOK, DeviceTypes, netif_napi_del, Begin
<1>40. ASSUME napi_freed PROVE DeviceTypes'
  BY <1>0, <1>40, Kinds DEF Settings, NdTypeOK, DeviceTypes, napi_freed, Admin
<1> QED BY <1>1, <1>2, <1>3, <1>4, <1>5, <1>6, <1>7, <1>8, <1>9, <1>10, <1>11, <1>12,
           <1>13, <1>14, <1>15, <1>16, <1>17, <1>18, <1>19, <1>20, <1>21, <1>22, <1>23, <1>24,
           <1>25, <1>26, <1>27, <1>28, <1>29, <1>30, <1>31, <1>32, <1>33, <1>34, <1>35, <1>36,
           <1>37, <1>38, <1>39, <1>40
        DEF Next, RxStep, PollStep, ThreadStep, BusyStep, AdminEnds

-------------------------------------------------------------------------------
(* Where each kind of context can be.                                       *)
LEMMA PlacesInvStep ==
  ASSUME Settings, NdInv, TimerEndsFirst, Next
  PROVE  PlacesInv'
<1>0. Settings /\ NdTypeOK /\ PlacesInv
  BY DEF NdInv
<1>1. ASSUME device_receives PROVE PlacesInv'
  BY <1>0, <1>1, Kinds
     DEF NdTypeOK, ContextTypes, CtxTypes, PollPCs, EndPCs, PlacesInv,
         device_receives
<1>2. ASSUME NEW c \in NdCpus, napi_schedule(c) PROVE PlacesInv'
  BY <1>0, <1>2, Kinds
     DEF NdTypeOK, ContextTypes, CtxTypes, PollPCs, EndPCs, PlacesInv,
         napi_schedule, PrepBits, PrepOwns
<1>3. ASSUME NEW c \in NdCpus, timer_expires(c) PROVE PlacesInv'
  BY <1>0, <1>3, Kinds
     DEF NdTypeOK, ContextTypes, CtxTypes, PollPCs, EndPCs, PlacesInv,
         timer_expires
<1>4. ASSUME NEW c \in NdCpus, napi_watchdog(c) PROVE PlacesInv'
  <2>1. CASE UNCHANGED ctx
    BY <1>0, <2>1 DEF PlacesInv
  <2>2. CASE ctx' = [ctx EXCEPT ![Irq(c)].pc = "look"]
    <3>1. /\ \A y \in Contexts \ {Irq(c)} : ctx'[y] = ctx[y]
          /\ ctx'[Irq(c)].pc = "look" /\ ctx'[Irq(c)].then = ctx[Irq(c)].then
      BY <1>0, <2>2, Kinds DEF NdTypeOK, ContextTypes, CtxTypes
    <3>2. \A y \in Pollers : ctx'[y] = ctx[y]
      BY <3>1, Kinds
    <3>3. \A d \in NdCpus : d # c => ctx'[Irq(d)] = ctx[Irq(d)]
      BY <3>1, Kinds
    <3>4. \A y \in Contexts : ctx'[y].pc = "put" => ctx'[y] = ctx[y]
      BY <3>1
    <3> QED BY <1>0, <3>1, <3>2, <3>3, <3>4, Kinds DEF PlacesInv
  <2> QED BY <1>4, <2>1, <2>2 DEF napi_watchdog
<1>5. ASSUME NEW c \in NdCpus, rx_start(c) PROVE PlacesInv'
  BY <1>0, <1>5, Kinds DEF NdTypeOK, ContextTypes, CtxTypes, PollPCs, EndPCs, PlacesInv, rx_start
<1>6. ASSUME NEW c \in NdCpus, rx_loop(c) PROVE PlacesInv'
  <2>1. PICK p \in {"poll", "polled", "punt", "check"} : ctx' = [ctx EXCEPT ![Soft(c)].pc = p]
    BY <1>6, LoopEffect DEF LoopTakes, LoopPunts, LoopChecks
  <2>2. \A y \in Contexts \ {Soft(c)} : ctx'[y] = ctx[y]
    BY <1>0, <2>1 DEF NdTypeOK, ContextTypes
  <2>3. ctx'[Soft(c)].pc = p
    BY <1>0, <2>1, Kinds DEF NdTypeOK, ContextTypes, CtxTypes
  <2>4. \A d \in NdCpus : ctx'[Irq(d)] = ctx[Irq(d)]
    BY <2>2, Kinds
  <2>5. \A d \in NdCpus : d # c => ctx'[Soft(d)] = ctx[Soft(d)]
    BY <2>2, Kinds
  <2>6. ctx'[Thread] = ctx[Thread] /\ ctx'[Busy] = ctx[Busy]
    BY <2>2, Kinds
  <2>7. \A y \in Contexts : y = Soft(c) \/ ctx'[y] = ctx[y]
    BY <2>2
  <2> QED BY <1>0, <2>3, <2>4, <2>5, <2>6, <2>7, Kinds DEF PlacesInv, PollPCs, EndPCs
<1>7. ASSUME NEW c \in NdCpus, rx_check(c) PROVE PlacesInv'
  BY <1>0, <1>7, Kinds
     DEF NdTypeOK, ContextTypes, CtxTypes, PollPCs, EndPCs, PlacesInv,
         rx_check, AfterCheck
<1>8. ASSUME NEW c \in NdCpus, NEW e \in BOOLEAN, rx_polled(c, e) PROVE PlacesInv'
  BY <1>0, <1>8, Kinds
     DEF NdTypeOK, ContextTypes, CtxTypes, PollPCs, EndPCs, PlacesInv,
         rx_polled, Rest
<1>9. ASSUME NEW c \in NdCpus, rx_punt(c) PROVE PlacesInv'
  BY <1>0, <1>9, Kinds DEF NdTypeOK, ContextTypes, CtxTypes, PollPCs, EndPCs, PlacesInv, rx_punt
<1>10. ASSUME NEW x \in Contexts, schedule_look(x) PROVE PlacesInv'
  BY <1>0, <1>10, Kinds
     DEF NdTypeOK, ContextTypes, CtxTypes, PollPCs, EndPCs, PlacesInv,
         schedule_look
<1>11. ASSUME NEW x \in Contexts, schedule_put(x) PROVE PlacesInv'
  BY <1>0, <1>11, Kinds
     DEF NdTypeOK, ContextTypes, CtxTypes, PollPCs, EndPCs, PlacesInv,
         schedule_put
<1>12. ASSUME NEW x \in Contexts, poll(x) PROVE PlacesInv'
  <2>1. x \in Pollers
    BY <1>0, <1>12, PollerOf, PollEffect
  <2>2. \A d \in NdCpus : ctx'[Irq(d)] = ctx[Irq(d)]
    BY <1>0, <1>12, <2>1, Kinds, PollEffect
  <2>3. /\ ctx'[x].pc \in {"full", "complete", "repoll"} /\ (ctx'[x].pc # "repoll" => ctx'[x].then # "none")
        /\ ctx'[x].pc = "repoll" => x # Busy
        /\ \A y \in Contexts : y = x \/ ctx'[y] = ctx[y]
    BY <1>0, <1>12, PollEffect
  <2> QED BY <1>0, <2>2, <2>3, Kinds DEF PlacesInv, PollPCs, EndPCs
<1>13. ASSUME NEW x \in Contexts, NEW held \in BOOLEAN, napi_complete_done(x, held) PROVE PlacesInv'
  <2>1. At(x, "complete") /\ UNCHANGED <<timer, sd, kthread, admin, mode, hw, busied>>
    BY <1>0, <1>13, CompleteEffect
  <2>2. x \in Pollers
    BY <1>0, <2>1, PollerOf
  <2>3. CASE CompleteKeeps(x)
    BY <1>0, Kinds, <2>1, <2>3
      DEF NdTypeOK, ContextTypes, CtxTypes, PollPCs, EndPCs, PlacesInv, CompleteKeeps, CompleteRefused
  <2>4. ASSUME NEW n \in Int, CompleteLeaves(x, n) PROVE PlacesInv'
    <3>1. \A c \in NdCpus : ctx'[Irq(c)] = ctx[Irq(c)]
      BY Kinds, <2>2, <2>4 DEF CompleteLeaves
    <3>2. \A c \in NdCpus : ctx'[Soft(c)] = ctx[Soft(c)] \/ ctx'[Soft(c)].pc = "cmpxchg"
      BY Kinds, <2>4 DEF CompleteLeaves
    <3>3. /\ ctx'[Thread] = ctx[Thread] \/ ctx'[Thread].pc = "cmpxchg"
          /\ ctx'[Busy] = ctx[Busy] \/ ctx'[Busy].pc = "cmpxchg"
      BY Kinds, <2>4 DEF CompleteLeaves
    <3>4. ctx'[x].then # "none"
      BY <1>0, <2>1, <2>2, <2>4 DEF CompleteLeaves, PlacesInv
    <3>5. \A y \in Contexts : y = x \/ ctx'[y] = ctx[y]
      BY <2>4 DEF CompleteLeaves
    <3>6. \A y \in Pollers : ctx'[y].pc \in {"full", "complete", "cmpxchg", "arm", "ret", "look", "put"}
                             => ctx'[y].then # "none"
      BY <1>0, Kinds, <3>4, <3>5 DEF PlacesInv
    <3>7. \A y \in Contexts : ctx'[y].pc = "put" => ctx'[y].to # "none"
      BY <1>0, Kinds, <2>4 DEF CompleteLeaves, PlacesInv
    <3> QED BY <1>0, <3>1, <3>2, <3>3, <3>6, <3>7 DEF PlacesInv, PollPCs
  <2> QED BY <1>0, <1>13, <2>3, <2>4, CompleteEffect
<1>14. ASSUME NEW x \in Contexts, complete_cmpxchg(x) PROVE PlacesInv'
  BY <1>0, <1>14, Kinds
     DEF NdTypeOK, ContextTypes, CtxTypes, PollPCs, EndPCs, PlacesInv,
         complete_cmpxchg, PollAgain
<1>15. ASSUME NEW x \in Contexts, hrtimer_start(x) PROVE PlacesInv'
  BY <1>0, <1>15, Kinds
     DEF NdTypeOK, ContextTypes, CtxTypes, PollPCs, EndPCs, PlacesInv,
         hrtimer_start
<1>16. ASSUME NEW x \in Contexts, complete_returns(x) PROVE PlacesInv'
  BY <1>0, <1>16, Kinds
     DEF NdTypeOK, ContextTypes, CtxTypes, PollPCs, EndPCs, PlacesInv,
         complete_returns, PrepBits, PrepOwns
<1>17. ASSUME NEW x \in Contexts, poll_full(x) PROVE PlacesInv'
  <2>1. x \in Pollers
    BY <1>0, <1>17, PollerOf, PollFullEffect
  <2>2. \A d \in NdCpus : ctx'[Irq(d)] = ctx[Irq(d)]
    BY <1>0, <1>17, <2>1, Kinds, PollFullEffect
  <2>3. /\ ctx'[x].pc \in {"full", "complete", "repoll"} /\ (ctx'[x].pc # "repoll" => ctx'[x].then # "none")
        /\ ctx'[x].pc = "repoll" => x # Busy
        /\ \A y \in Contexts : y = x \/ ctx'[y] = ctx[y]
    BY <1>0, <1>17, PollFullEffect
  <2> QED BY <1>0, <2>2, <2>3, Kinds DEF PlacesInv, PollPCs, EndPCs
<1>18. ASSUME napi_thread_wait PROVE PlacesInv'
  BY <1>0, <1>18, Kinds, WaitEffect DEF NdTypeOK, ContextTypes, CtxTypes, PollPCs, EndPCs, PlacesInv
<1>19. ASSUME threaded_want PROVE PlacesInv'
  BY <1>0, <1>19, Kinds
     DEF NdTypeOK, ContextTypes, CtxTypes, PollPCs, EndPCs, PlacesInv,
         threaded_want, WantBusyPoll
<1>20. ASSUME threaded_assign PROVE PlacesInv'
  BY <1>0, <1>20, Kinds
     DEF NdTypeOK, ContextTypes, CtxTypes, PollPCs, EndPCs, PlacesInv,
         threaded_assign
<1>21. ASSUME threaded_polled PROVE PlacesInv'
  BY <1>0, <1>21, Kinds
     DEF NdTypeOK, ContextTypes, CtxTypes, PollPCs, EndPCs, PlacesInv,
         threaded_polled
<1>22. ASSUME busy_begins PROVE PlacesInv'
  BY <1>0, <1>22, Kinds
     DEF NdTypeOK, ContextTypes, CtxTypes, PollPCs, EndPCs, PlacesInv,
         busy_begins
<1>23. ASSUME busy_try PROVE PlacesInv'
  BY <1>0, <1>23, Kinds DEF NdTypeOK, ContextTypes, CtxTypes, PollPCs, EndPCs, PlacesInv, busy_try
<1>24. ASSUME NEW again \in BOOLEAN, busy_round(again) PROVE PlacesInv'
  BY <1>0, <1>24, Kinds
     DEF NdTypeOK, ContextTypes, CtxTypes, PollPCs, EndPCs, PlacesInv,
         busy_round
<1>25. ASSUME busy_poll_stop PROVE PlacesInv'
  BY <1>0, <1>25, Kinds
     DEF NdTypeOK, ContextTypes, CtxTypes, PollPCs, EndPCs, PlacesInv,
         busy_poll_stop
<1>26. ASSUME busy_last_poll PROVE PlacesInv'
  BY <1>0, <1>26, Kinds
     DEF NdTypeOK, ContextTypes, CtxTypes, PollPCs, EndPCs, PlacesInv,
         busy_last_poll
<1>27. ASSUME busy_stopped_full PROVE PlacesInv'
  <2>1. ctx[Busy].then # "none" /\ ctx'[Busy].then = ctx[Busy].then
    BY <1>0, <1>27, Kinds, FullEffect DEF PlacesInv
  <2> QED BY <1>0, <1>27, <2>1, Kinds, FullEffect DEF PlacesInv, PollPCs, EndPCs
<1>28. ASSUME busy_ends PROVE PlacesInv'
  BY <1>0, <1>28, Kinds
     DEF NdTypeOK, ContextTypes, CtxTypes, PollPCs, EndPCs, PlacesInv,
         busy_ends, Rest
<1>29. ASSUME netif_napi_add PROVE PlacesInv'
  BY <1>0, <1>29, Kinds
     DEF NdTypeOK, ContextTypes, CtxTypes, PollPCs, EndPCs, PlacesInv,
         netif_napi_add, Begin, CreateThread, Rest
<1>30. ASSUME napi_enable PROVE PlacesInv'
  BY <1>0, <1>30, Kinds
     DEF NdTypeOK, ContextTypes, CtxTypes, PollPCs, EndPCs, PlacesInv,
         napi_enable, Begin, ModeBits
<1>31. ASSUME disable_begins PROVE PlacesInv'
  BY <1>0, <1>31, Kinds
     DEF NdTypeOK, ContextTypes, CtxTypes, PollPCs, EndPCs, PlacesInv,
         disable_begins, Begin
<1>32. ASSUME disable_takes PROVE PlacesInv'
  BY <1>0, <1>32, Kinds
     DEF NdTypeOK, ContextTypes, CtxTypes, PollPCs, EndPCs, PlacesInv,
         disable_takes, MayDisable, Admin
<1>33. ASSUME hrtimer_cancel PROVE PlacesInv'
  BY <1>0, <1>33, Kinds
     DEF NdTypeOK, ContextTypes, CtxTypes, PollPCs, EndPCs, PlacesInv,
         hrtimer_cancel, Admin
<1>34. ASSUME disable_ends PROVE PlacesInv'
  BY <1>0, <1>34, Kinds
     DEF NdTypeOK, ContextTypes, CtxTypes, PollPCs, EndPCs, PlacesInv,
         disable_ends, Admin
<1>35. ASSUME NEW m \in Modes, netif_set_threaded(m) PROVE PlacesInv'
  BY <1>0, <1>35, Kinds
     DEF NdTypeOK, ContextTypes, CtxTypes, PollPCs, EndPCs, PlacesInv,
         netif_set_threaded, Begin, Settled, CreateThread, Rest, ModeBits
<1>36. ASSUME stop_unset PROVE PlacesInv'
  BY <1>0, <1>36, Kinds
     DEF NdTypeOK, ContextTypes, CtxTypes, PollPCs, EndPCs, PlacesInv,
         stop_unset, MayUnset, Admin
<1>37. ASSUME kthread_stop PROVE PlacesInv'
  BY <1>0, <1>37, Kinds
     DEF NdTypeOK, ContextTypes, CtxTypes, PollPCs, EndPCs, PlacesInv,
         kthread_stop
<1>38. ASSUME thread_stopped PROVE PlacesInv'
  BY <1>0, <1>38, Kinds
     DEF NdTypeOK, ContextTypes, CtxTypes, PollPCs, EndPCs, PlacesInv,
         thread_stopped, Settled, Admin
<1>39. ASSUME netif_napi_del PROVE PlacesInv'
  BY <1>0, <1>39, Kinds
     DEF NdTypeOK, ContextTypes, CtxTypes, PollPCs, EndPCs, PlacesInv,
         netif_napi_del, Begin
<1>40. ASSUME napi_freed PROVE PlacesInv'
  BY <1>0, <1>40, Kinds
     DEF NdTypeOK, ContextTypes, CtxTypes, PollPCs, EndPCs, PlacesInv,
         napi_freed, Admin
<1> QED BY <1>1, <1>2, <1>3, <1>4, <1>5, <1>6, <1>7, <1>8, <1>9, <1>10, <1>11, <1>12,
           <1>13, <1>14, <1>15, <1>16, <1>17, <1>18, <1>19, <1>20, <1>21, <1>22, <1>23, <1>24,
           <1>25, <1>26, <1>27, <1>28, <1>29, <1>30, <1>31, <1>32, <1>33, <1>34, <1>35, <1>36,
           <1>37, <1>38, <1>39, <1>40
        DEF Next, RxStep, PollStep, ThreadStep, BusyStep, AdminEnds

-------------------------------------------------------------------------------
(* The busy poller and IN_BUSY_POLL.                                        *)
LEMMA BusyInvStep ==
  ASSUME Settings, NdInv, TimerEndsFirst, Next
  PROVE  BusyInv'
<1>0. Settings /\ NdTypeOK /\ PlacesInv /\ OwnerInv /\ BusyInv /\ AdminInv /\ AbsentInv
  BY DEF NdInv
<1>1. ASSUME device_receives PROVE BusyInv'
  BY <1>0, <1>1, Kinds
     DEF NdTypeOK, NapiTypes, ContextTypes, CtxTypes, PollPCs, EndPCs, PlacesInv, OwnerInv, BusyInv,
         AdminInv, AbsentInv, Polls, Holds,
         device_receives
<1>2. ASSUME NEW c \in NdCpus, napi_schedule(c) PROVE BusyInv'
  BY <1>0, <1>2, Kinds
     DEF NdTypeOK, NapiTypes, ContextTypes, CtxTypes, PollPCs, EndPCs, PlacesInv, OwnerInv, BusyInv,
         AdminInv, AbsentInv, Polls, Holds,
         napi_schedule, PrepBits, PrepOwns
<1>3. ASSUME NEW c \in NdCpus, timer_expires(c) PROVE BusyInv'
  BY <1>0, <1>3, Kinds
     DEF NdTypeOK, NapiTypes, ContextTypes, CtxTypes, PollPCs, EndPCs, PlacesInv, OwnerInv, BusyInv,
         AdminInv, AbsentInv, Polls, Holds,
         timer_expires
<1>4. ASSUME NEW c \in NdCpus, napi_watchdog(c) PROVE BusyInv'
  BY <1>0, <1>4, Kinds
     DEF NdTypeOK, NapiTypes, ContextTypes, CtxTypes, PollPCs, EndPCs, PlacesInv, OwnerInv, BusyInv,
         AdminInv, AbsentInv, Polls, Holds,
         napi_watchdog, WatchdogOwns
<1>5. ASSUME NEW c \in NdCpus, rx_start(c) PROVE BusyInv'
  BY <1>0, <1>5, Kinds
     DEF NdTypeOK, NapiTypes, ContextTypes, CtxTypes, PollPCs, EndPCs, PlacesInv, OwnerInv, BusyInv,
         AdminInv, AbsentInv, Polls, Holds,
         rx_start
<1>6. ASSUME NEW c \in NdCpus, rx_loop(c) PROVE BusyInv'
  <2>1. /\ At(Soft(c), "loop") /\ UNCHANGED <<timer, kthread, admin, mode, hw, busied>>
        /\ LoopTakes(c) \/ LoopPunts(c) \/ LoopChecks(c)
    BY <1>6, LoopEffect
  <2>2. CASE LoopTakes(c)
    BY <1>0, Kinds, <2>1, <2>2 DEF NdTypeOK, NapiTypes, ContextTypes, CtxTypes, BusyInv, Polls, LoopTakes
  <2>3. CASE LoopPunts(c)
    BY <1>0, Kinds, <2>1, <2>3 DEF NdTypeOK, NapiTypes, ContextTypes, CtxTypes, BusyInv, Polls, LoopPunts
  <2>4. CASE LoopChecks(c)
    BY <1>0, Kinds, <2>1, <2>4 DEF NdTypeOK, NapiTypes, ContextTypes, CtxTypes, BusyInv, Polls, LoopChecks
  <2> QED BY <2>1, <2>2, <2>3, <2>4
<1>7. ASSUME NEW c \in NdCpus, rx_check(c) PROVE BusyInv'
  BY <1>0, <1>7, Kinds
     DEF NdTypeOK, NapiTypes, ContextTypes, CtxTypes, PollPCs, EndPCs, PlacesInv, OwnerInv, BusyInv,
         AdminInv, AbsentInv, Polls, Holds,
         rx_check, AfterCheck
<1>8. ASSUME NEW c \in NdCpus, NEW e \in BOOLEAN, rx_polled(c, e) PROVE BusyInv'
  BY <1>0, <1>8, Kinds
     DEF NdTypeOK, NapiTypes, ContextTypes, CtxTypes, PollPCs, EndPCs, PlacesInv, OwnerInv, BusyInv,
         AdminInv, AbsentInv, Polls, Holds,
         rx_polled, Rest
<1>9. ASSUME NEW c \in NdCpus, rx_punt(c) PROVE BusyInv'
  BY <1>0, <1>9, Kinds
     DEF NdTypeOK, NapiTypes, ContextTypes, CtxTypes, PollPCs, EndPCs, PlacesInv, OwnerInv, BusyInv,
         AdminInv, AbsentInv, Polls, Holds,
         rx_punt
<1>10. ASSUME NEW x \in Contexts, schedule_look(x) PROVE BusyInv'
  BY <1>0, <1>10, Kinds
     DEF NdTypeOK, NapiTypes, ContextTypes, CtxTypes, PollPCs, EndPCs, PlacesInv, OwnerInv, BusyInv,
         AdminInv, AbsentInv, Polls, Holds,
         schedule_look
<1>11. ASSUME NEW x \in Contexts, schedule_put(x) PROVE BusyInv'
  BY <1>0, <1>11, Kinds
     DEF NdTypeOK, NapiTypes, ContextTypes, CtxTypes, PollPCs, EndPCs, PlacesInv, OwnerInv, BusyInv,
         AdminInv, AbsentInv, Polls, Holds,
         schedule_put
<1>12. ASSUME NEW x \in Contexts, poll(x) PROVE BusyInv'
  <2>1. /\ UNCHANGED napi /\ At(x, "poll") /\ \A y \in Contexts \ {x} : ctx'[y] = ctx[y]
        /\ ctx'[x].pc \in {"full", "complete"} /\ ctx'[x].stop = ctx[x].stop
    BY <1>0, <1>12, PollEffect
  <2>2. Polls(Busy)' <=> Polls(Busy)
    BY <2>1, Kinds DEF Polls
  <2> QED BY <1>0, <2>1, <2>2, Kinds DEF BusyInv
<1>13. ASSUME NEW x \in Contexts, NEW held \in BOOLEAN, napi_complete_done(x, held) PROVE BusyInv'
  <2>1. At(x, "complete") /\ UNCHANGED <<timer, sd, kthread, admin, mode, hw, busied>>
    BY <1>0, <1>13, CompleteEffect
  <2>2. x \in Pollers
    BY <1>0, <2>1, PollerOf
  <2>3. CASE CompleteKeeps(x)
    BY <1>0, Kinds, <2>1, <2>3
      DEF NdTypeOK, NapiTypes, ContextTypes, CtxTypes, PollPCs, EndPCs, PlacesInv, OwnerInv, BusyInv,
          AdminInv, AbsentInv, Polls, Holds, CompleteKeeps, CompleteRefused
  <2>4. ASSUME NEW n \in Int, CompleteLeaves(x, n) PROVE BusyInv'
    <3>1. napi'.bits = napi.bits /\ ~Has("IN_BUSY_POLL")
      BY <1>0, <2>4 DEF CompleteLeaves, CompleteRefused, NdTypeOK, NapiTypes
    <3>2. CASE x = Busy
      <4>1. Polls(Busy) /\ ctx'[Busy].pc = "cmpxchg" /\ ctx'[Busy].stop = ctx[Busy].stop
        BY <2>1, <2>4, <3>2 DEF CompleteLeaves, Polls
      <4>2. ctx[Busy].stop
        BY <1>0, <3>1, <4>1 DEF BusyInv
      <4> QED BY <3>1, <4>1, <4>2 DEF BusyInv
    <3>3. CASE x # Busy
      <4>1. ctx'[Busy] = ctx[Busy]
        BY Kinds, <2>4, <3>3 DEF CompleteLeaves
      <4> QED BY <1>0, <3>1, <4>1 DEF BusyInv, Polls
    <3> QED BY <3>2, <3>3
  <2> QED BY <1>0, <1>13, <2>3, <2>4, CompleteEffect
<1>14. ASSUME NEW x \in Contexts, complete_cmpxchg(x) PROVE BusyInv'
  <2>1. /\ ~Has("IN_BUSY_POLL") /\ "IN_BUSY_POLL" \notin napi'.bits
        /\ At(x, "cmpxchg")
    BY <1>0, <1>14 DEF complete_cmpxchg, PollAgain, NdTypeOK, NapiTypes, BusyInv
  <2>2. \A y \in Contexts : y # x => ctx'[y] = ctx[y]
    BY <1>0, <1>14 DEF complete_cmpxchg, NdTypeOK, ContextTypes
  <2>3. ctx'[x].stop = ctx[x].stop /\ ctx'[x].pc \in {"look", "arm", "ret"}
    BY <1>0, <1>14 DEF complete_cmpxchg, NdTypeOK, ContextTypes, CtxTypes
  <2>4. CASE x = Busy
    BY <1>0, <2>1, <2>3, <2>4 DEF BusyInv, Polls
  <2>5. CASE x # Busy
    BY <1>0, Kinds, <2>1, <2>2, <2>5 DEF BusyInv, Polls
  <2> QED BY <2>4, <2>5
<1>15. ASSUME NEW x \in Contexts, hrtimer_start(x) PROVE BusyInv'
  BY <1>0, <1>15, Kinds
     DEF NdTypeOK, NapiTypes, ContextTypes, CtxTypes, PollPCs, EndPCs, PlacesInv, OwnerInv, BusyInv,
         AdminInv, AbsentInv, Polls, Holds,
         hrtimer_start
<1>16. ASSUME NEW x \in Contexts, complete_returns(x) PROVE BusyInv'
  BY <1>0, <1>16, Kinds
     DEF NdTypeOK, NapiTypes, ContextTypes, CtxTypes, PollPCs, EndPCs, PlacesInv, OwnerInv, BusyInv,
         AdminInv, AbsentInv, Polls, Holds,
         complete_returns, PrepBits, PrepOwns
<1>17. ASSUME NEW x \in Contexts, poll_full(x) PROVE BusyInv'
  <2>1. /\ UNCHANGED napi /\ x # Busy /\ \A y \in Contexts \ {x} : ctx'[y] = ctx[y]
        /\ ctx'[x].pc \in {"repoll", "complete"}
    BY <1>0, <1>17, PollFullEffect
  <2>2. ctx'[Busy] = ctx[Busy]
    BY <2>1, Kinds
  <2> QED BY <1>0, <2>1, <2>2 DEF BusyInv, Polls
<1>18. ASSUME napi_thread_wait PROVE BusyInv'
  BY <1>0, <1>18, Kinds, WaitEffect DEF BusyInv, Polls
<1>19. ASSUME threaded_want PROVE BusyInv'
  BY <1>0, <1>19, Kinds
     DEF NdTypeOK, NapiTypes, ContextTypes, CtxTypes, PollPCs, EndPCs, PlacesInv, OwnerInv, BusyInv,
         AdminInv, AbsentInv, Polls, Holds,
         threaded_want, WantBusyPoll
<1>20. ASSUME threaded_assign PROVE BusyInv'
  BY <1>0, <1>20, Kinds
     DEF NdTypeOK, NapiTypes, ContextTypes, CtxTypes, PollPCs, EndPCs, PlacesInv, OwnerInv, BusyInv,
         AdminInv, AbsentInv, Polls, Holds,
         threaded_assign
<1>21. ASSUME threaded_polled PROVE BusyInv'
  BY <1>0, <1>21, Kinds
     DEF NdTypeOK, NapiTypes, ContextTypes, CtxTypes, PollPCs, EndPCs, PlacesInv, OwnerInv, BusyInv,
         AdminInv, AbsentInv, Polls, Holds,
         threaded_polled
<1>22. ASSUME busy_begins PROVE BusyInv'
  BY <1>0, <1>22, Kinds
     DEF NdTypeOK, NapiTypes, ContextTypes, CtxTypes, PollPCs, EndPCs, PlacesInv, OwnerInv, BusyInv,
         AdminInv, AbsentInv, Polls, Holds,
         busy_begins
<1>23. ASSUME busy_try PROVE BusyInv'
  BY <1>0, <1>23, Kinds
     DEF NdTypeOK, NapiTypes, ContextTypes, CtxTypes, PollPCs, EndPCs, PlacesInv, OwnerInv, BusyInv,
         AdminInv, AbsentInv, Polls, Holds,
         busy_try
<1>24. ASSUME NEW again \in BOOLEAN, busy_round(again) PROVE BusyInv'
  BY <1>0, <1>24, Kinds
     DEF NdTypeOK, NapiTypes, ContextTypes, CtxTypes, PollPCs, EndPCs, PlacesInv, OwnerInv, BusyInv,
         AdminInv, AbsentInv, Polls, Holds,
         busy_round
<1>25. ASSUME busy_poll_stop PROVE BusyInv'
  BY <1>0, <1>25, Kinds
     DEF NdTypeOK, NapiTypes, ContextTypes, CtxTypes, PollPCs, EndPCs, PlacesInv, OwnerInv, BusyInv,
         AdminInv, AbsentInv, Polls, Holds,
         busy_poll_stop
<1>26. ASSUME busy_last_poll PROVE BusyInv'
  BY <1>0, <1>26, Kinds
     DEF NdTypeOK, NapiTypes, ContextTypes, CtxTypes, PollPCs, EndPCs, PlacesInv, OwnerInv, BusyInv,
         AdminInv, AbsentInv, Polls, Holds,
         busy_last_poll
<1>27. ASSUME busy_stopped_full PROVE BusyInv'
  BY <1>0, <1>27, Kinds
     DEF NdTypeOK, NapiTypes, ContextTypes, CtxTypes, PollPCs, EndPCs, PlacesInv, OwnerInv, BusyInv,
         AdminInv, AbsentInv, Polls, Holds,
         busy_stopped_full
<1>28. ASSUME busy_ends PROVE BusyInv'
  BY <1>0, <1>28, Kinds
     DEF NdTypeOK, NapiTypes, ContextTypes, CtxTypes, PollPCs, EndPCs, PlacesInv, OwnerInv, BusyInv,
         AdminInv, AbsentInv, Polls, Holds,
         busy_ends, Rest
<1>29. ASSUME netif_napi_add PROVE BusyInv'
  BY <1>0, <1>29, Kinds
     DEF NdTypeOK, NapiTypes, ContextTypes, CtxTypes, PollPCs, EndPCs, PlacesInv, OwnerInv, BusyInv,
         AdminInv, AbsentInv, Polls, Holds,
         netif_napi_add, Begin, CreateThread, Rest
<1>30. ASSUME napi_enable PROVE BusyInv'
  BY <1>0, <1>30, Kinds
     DEF NdTypeOK, NapiTypes, ContextTypes, CtxTypes, PollPCs, EndPCs, PlacesInv, OwnerInv, BusyInv,
         AdminInv, AbsentInv, Polls, Holds,
         napi_enable, Begin, ModeBits
<1>31. ASSUME disable_begins PROVE BusyInv'
  BY <1>0, <1>31, Kinds
     DEF NdTypeOK, NapiTypes, ContextTypes, CtxTypes, PollPCs, EndPCs, PlacesInv, OwnerInv, BusyInv,
         AdminInv, AbsentInv, Polls, Holds,
         disable_begins, Begin
<1>32. ASSUME disable_takes PROVE BusyInv'
  BY <1>0, <1>32, Kinds
     DEF NdTypeOK, NapiTypes, ContextTypes, CtxTypes, PollPCs, EndPCs, PlacesInv, OwnerInv, BusyInv,
         AdminInv, AbsentInv, Polls, Holds,
         disable_takes, MayDisable, Admin
<1>33. ASSUME hrtimer_cancel PROVE BusyInv'
  BY <1>0, <1>33, Kinds
     DEF NdTypeOK, NapiTypes, ContextTypes, CtxTypes, PollPCs, EndPCs, PlacesInv, OwnerInv, BusyInv,
         AdminInv, AbsentInv, Polls, Holds,
         hrtimer_cancel, Admin
<1>34. ASSUME disable_ends PROVE BusyInv'
  BY <1>0, <1>34, Kinds
     DEF NdTypeOK, NapiTypes, ContextTypes, CtxTypes, PollPCs, EndPCs, PlacesInv, OwnerInv, BusyInv,
         AdminInv, AbsentInv, Polls, Holds,
         disable_ends, Admin
<1>35. ASSUME NEW m \in Modes, netif_set_threaded(m) PROVE BusyInv'
  BY <1>0, <1>35, Kinds
     DEF NdTypeOK, NapiTypes, ContextTypes, CtxTypes, PollPCs, EndPCs, PlacesInv, OwnerInv, BusyInv,
         AdminInv, AbsentInv, Polls, Holds,
         netif_set_threaded, Begin, Settled, CreateThread, Rest, ModeBits
<1>36. ASSUME stop_unset PROVE BusyInv'
  BY <1>0, <1>36, Kinds
     DEF NdTypeOK, NapiTypes, ContextTypes, CtxTypes, PollPCs, EndPCs, PlacesInv, OwnerInv, BusyInv,
         AdminInv, AbsentInv, Polls, Holds,
         stop_unset, MayUnset, Admin
<1>37. ASSUME kthread_stop PROVE BusyInv'
  BY <1>0, <1>37, Kinds
     DEF NdTypeOK, NapiTypes, ContextTypes, CtxTypes, PollPCs, EndPCs, PlacesInv, OwnerInv, BusyInv,
         AdminInv, AbsentInv, Polls, Holds,
         kthread_stop
<1>38. ASSUME thread_stopped PROVE BusyInv'
  BY <1>0, <1>38, Kinds
     DEF NdTypeOK, NapiTypes, ContextTypes, CtxTypes, PollPCs, EndPCs, PlacesInv, OwnerInv, BusyInv,
         AdminInv, AbsentInv, Polls, Holds,
         thread_stopped, Settled, Admin
<1>39. ASSUME netif_napi_del PROVE BusyInv'
  BY <1>0, <1>39, Kinds
     DEF NdTypeOK, NapiTypes, ContextTypes, CtxTypes, PollPCs, EndPCs, PlacesInv, OwnerInv, BusyInv,
         AdminInv, AbsentInv, Polls, Holds,
         netif_napi_del, Begin
<1>40. ASSUME napi_freed PROVE BusyInv'
  BY <1>0, <1>40, Kinds
     DEF NdTypeOK, NapiTypes, ContextTypes, CtxTypes, PollPCs, EndPCs, PlacesInv, OwnerInv, BusyInv,
         AdminInv, AbsentInv, Polls, Holds,
         napi_freed, Admin
<1> QED BY <1>1, <1>2, <1>3, <1>4, <1>5, <1>6, <1>7, <1>8, <1>9, <1>10, <1>11, <1>12,
           <1>13, <1>14, <1>15, <1>16, <1>17, <1>18, <1>19, <1>20, <1>21, <1>22, <1>23, <1>24,
           <1>25, <1>26, <1>27, <1>28, <1>29, <1>30, <1>31, <1>32, <1>33, <1>34, <1>35, <1>36,
           <1>37, <1>38, <1>39, <1>40
        DEF Next, RxStep, PollStep, ThreadStep, BusyStep, AdminEnds

-------------------------------------------------------------------------------
(* How far the operation is, and what that says of the bits.                *)
LEMMA AdminInvStep ==
  ASSUME Settings, NdInv, TimerEndsFirst, Next
  PROVE  AdminInv'
<1>0. Settings /\ NdTypeOK /\ PlacesInv /\ OwnerInv /\ ThreadInv /\ AdminInv /\ AbsentInv
  BY DEF NdInv
<1>1. ASSUME device_receives PROVE AdminInv'
  BY <1>0, <1>1, Kinds DEF NdTypeOK, NapiTypes, AdminTypes, DeviceTypes, AdminInv, device_receives
<1>2. ASSUME NEW c \in NdCpus, napi_schedule(c) PROVE AdminInv'
  BY <1>0, <1>2, Kinds
     DEF NdTypeOK, NapiTypes, AdminTypes, DeviceTypes, AdminInv,
         napi_schedule, PrepBits, PrepOwns
<1>3. ASSUME NEW c \in NdCpus, timer_expires(c) PROVE AdminInv'
  BY <1>0, <1>3, Kinds DEF NdTypeOK, NapiTypes, AdminTypes, DeviceTypes, AdminInv, timer_expires
<1>4. ASSUME NEW c \in NdCpus, napi_watchdog(c) PROVE AdminInv'
  BY <1>0, <1>4, Kinds
     DEF NdTypeOK, NapiTypes, AdminTypes, DeviceTypes, AdminInv,
         napi_watchdog, WatchdogOwns
<1>5. ASSUME NEW c \in NdCpus, rx_start(c) PROVE AdminInv'
  BY <1>0, <1>5, Kinds DEF NdTypeOK, NapiTypes, AdminTypes, DeviceTypes, AdminInv, rx_start
<1>6. ASSUME NEW c \in NdCpus, rx_loop(c) PROVE AdminInv'
  BY <1>0, <1>6, Kinds DEF NdTypeOK, NapiTypes, AdminTypes, DeviceTypes, AdminInv, rx_loop
<1>7. ASSUME NEW c \in NdCpus, rx_check(c) PROVE AdminInv'
  BY <1>0, <1>7, Kinds
     DEF NdTypeOK, NapiTypes, AdminTypes, DeviceTypes, AdminInv,
         rx_check, AfterCheck
<1>8. ASSUME NEW c \in NdCpus, NEW e \in BOOLEAN, rx_polled(c, e) PROVE AdminInv'
  BY <1>0, <1>8, Kinds DEF NdTypeOK, NapiTypes, AdminTypes, DeviceTypes, AdminInv, rx_polled, Rest
<1>9. ASSUME NEW c \in NdCpus, rx_punt(c) PROVE AdminInv'
  BY <1>0, <1>9, Kinds DEF NdTypeOK, NapiTypes, AdminTypes, DeviceTypes, AdminInv, rx_punt
<1>10. ASSUME NEW x \in Contexts, schedule_look(x) PROVE AdminInv'
  BY <1>0, <1>10, Kinds DEF NdTypeOK, NapiTypes, AdminTypes, DeviceTypes, AdminInv, schedule_look
<1>11. ASSUME NEW x \in Contexts, schedule_put(x) PROVE AdminInv'
  BY <1>0, <1>11, Kinds DEF NdTypeOK, NapiTypes, AdminTypes, DeviceTypes, AdminInv, schedule_put
<1>12. ASSUME NEW x \in Contexts, poll(x) PROVE AdminInv'
  BY <1>0, <1>12 DEF Settings, DeviceTypes, NdTypeOK, AdminInv, poll
<1>13. ASSUME NEW x \in Contexts, NEW held \in BOOLEAN, napi_complete_done(x, held) PROVE AdminInv'
  <2>1. UNCHANGED <<admin, hw>>
    BY <1>0, <1>13, CompleteEffect
  <2>2. napi'.bits = napi.bits /\ napi'.hashed = napi.hashed
    BY <1>0, <1>13, CompleteEffect DEF CompleteKeeps, CompleteLeaves, NdTypeOK, NapiTypes
  <2> QED BY <1>0, <2>1, <2>2 DEF AdminInv
<1>14. ASSUME NEW x \in Contexts, complete_cmpxchg(x) PROVE AdminInv'
  BY <1>0, <1>14, Kinds
     DEF NdTypeOK, NapiTypes, AdminTypes, DeviceTypes, AdminInv,
         complete_cmpxchg, PollAgain
<1>15. ASSUME NEW x \in Contexts, hrtimer_start(x) PROVE AdminInv'
  BY <1>0, <1>15, Kinds DEF NdTypeOK, NapiTypes, AdminTypes, DeviceTypes, AdminInv, hrtimer_start
<1>16. ASSUME NEW x \in Contexts, complete_returns(x) PROVE AdminInv'
  BY <1>0, <1>16, Kinds
     DEF NdTypeOK, NapiTypes, AdminTypes, DeviceTypes, AdminInv,
         complete_returns, PrepBits, PrepOwns
<1>17. ASSUME NEW x \in Contexts, poll_full(x) PROVE AdminInv'
  BY <1>0, <1>17, Kinds DEF NdTypeOK, NapiTypes, AdminTypes, DeviceTypes, AdminInv, poll_full
<1>18. ASSUME napi_thread_wait PROVE AdminInv'
  BY <1>0, <1>18, Kinds
     DEF NdTypeOK, NapiTypes, AdminTypes, DeviceTypes, AdminInv,
         napi_thread_wait, ThreadOwns, Rest
<1>19. ASSUME threaded_want PROVE AdminInv'
  BY <1>0, <1>19, Kinds
     DEF NdTypeOK, NapiTypes, AdminTypes, DeviceTypes, AdminInv,
         threaded_want, WantBusyPoll
<1>20. ASSUME threaded_assign PROVE AdminInv'
  BY <1>0, <1>20, Kinds DEF NdTypeOK, NapiTypes, AdminTypes, DeviceTypes, AdminInv, threaded_assign
<1>21. ASSUME threaded_polled PROVE AdminInv'
  BY <1>0, <1>21, Kinds DEF NdTypeOK, NapiTypes, AdminTypes, DeviceTypes, AdminInv, threaded_polled
<1>22. ASSUME busy_begins PROVE AdminInv'
  BY <1>0, <1>22, Kinds DEF NdTypeOK, NapiTypes, AdminTypes, DeviceTypes, AdminInv, busy_begins
<1>23. ASSUME busy_try PROVE AdminInv'
  BY <1>0, <1>23, Kinds DEF NdTypeOK, NapiTypes, AdminTypes, DeviceTypes, AdminInv, busy_try
<1>24. ASSUME NEW again \in BOOLEAN, busy_round(again) PROVE AdminInv'
  BY <1>0, <1>24, Kinds DEF NdTypeOK, NapiTypes, AdminTypes, DeviceTypes, AdminInv, busy_round
<1>25. ASSUME busy_poll_stop PROVE AdminInv'
  BY <1>0, <1>25, Kinds DEF NdTypeOK, NapiTypes, AdminTypes, DeviceTypes, AdminInv, busy_poll_stop
<1>26. ASSUME busy_last_poll PROVE AdminInv'
  BY <1>0, <1>26, Kinds DEF NdTypeOK, NapiTypes, AdminTypes, DeviceTypes, AdminInv, busy_last_poll
<1>27. ASSUME busy_stopped_full PROVE AdminInv'
  BY <1>0, <1>27, Kinds
     DEF NdTypeOK, NapiTypes, AdminTypes, DeviceTypes, AdminInv,
         busy_stopped_full
<1>28. ASSUME busy_ends PROVE AdminInv'
  BY <1>0, <1>28, Kinds DEF NdTypeOK, NapiTypes, AdminTypes, DeviceTypes, AdminInv, busy_ends, Rest
<1>29. ASSUME netif_napi_add PROVE AdminInv'
  BY <1>0, <1>29, Kinds
     DEF NdTypeOK, NapiTypes, AdminTypes, DeviceTypes, AdminInv,
         netif_napi_add, Begin, CreateThread, Rest
<1>30. ASSUME napi_enable PROVE AdminInv'
  BY <1>0, <1>30, Kinds
     DEF NdTypeOK, NapiTypes, AdminTypes, DeviceTypes, AdminInv,
         napi_enable, Begin, ModeBits
<1>31. ASSUME disable_begins PROVE AdminInv'
  BY <1>0, <1>31, Kinds
     DEF NdTypeOK, NapiTypes, AdminTypes, DeviceTypes, AdminInv,
         disable_begins, Begin
<1>32. ASSUME disable_takes PROVE AdminInv'
  BY <1>0, <1>32, Kinds
     DEF NdTypeOK, NapiTypes, AdminTypes, DeviceTypes, AdminInv,
         disable_takes, MayDisable, Admin
<1>33. ASSUME hrtimer_cancel PROVE AdminInv'
  BY <1>0, <1>33, Kinds
     DEF NdTypeOK, NapiTypes, AdminTypes, DeviceTypes, AdminInv,
         hrtimer_cancel, Admin
<1>34. ASSUME disable_ends PROVE AdminInv'
  BY <1>0, <1>34, Kinds
     DEF NdTypeOK, NapiTypes, AdminTypes, DeviceTypes, AdminInv,
         disable_ends, Admin
<1>35. ASSUME NEW m \in Modes, netif_set_threaded(m) PROVE AdminInv'
  <2>1. /\ \A b \in {"NPSVC", "DISABLE", "LISTED"} : b \in napi'.bits <=> b \in napi.bits
        /\ napi'.hashed = napi.hashed /\ UNCHANGED hw /\ admin.pc \in {"up", "down"}
    BY <1>0, <1>35, SwitchEffect
  <2>2. admin'.pc = "unthread" \/ admin'.pc = Settled
    BY <1>0, <1>35, SwitchEffect
  <2>3. admin'.pc = "unthread" \/ admin'.pc = admin.pc
    BY <1>0, <2>1, <2>2 DEF Settled, AdminInv
  <2> QED BY <1>0, <2>1, <2>3 DEF AdminInv
<1>36. ASSUME stop_unset PROVE AdminInv'
  BY <1>0, <1>36 DEF NdTypeOK, NapiTypes, AdminTypes, OwnerInv, AdminInv, stop_unset, MayUnset, Admin
<1>37. ASSUME kthread_stop PROVE AdminInv'
  BY <1>0, <1>37, Kinds DEF NdTypeOK, NapiTypes, AdminTypes, DeviceTypes, AdminInv, kthread_stop
<1>38. ASSUME thread_stopped PROVE AdminInv'
  BY <1>0, <1>38 DEF NdTypeOK, AdminTypes, ThreadInv, AdminInv, thread_stopped, Settled, Admin
<1>39. ASSUME netif_napi_del PROVE AdminInv'
  BY <1>0, <1>39, Kinds
     DEF NdTypeOK, NapiTypes, AdminTypes, DeviceTypes, AdminInv,
         netif_napi_del, Begin
<1>40. ASSUME napi_freed PROVE AdminInv'
  BY <1>0, <1>40, Kinds
     DEF NdTypeOK, NapiTypes, AdminTypes, DeviceTypes, AdminInv,
         napi_freed, Admin
<1> QED BY <1>1, <1>2, <1>3, <1>4, <1>5, <1>6, <1>7, <1>8, <1>9, <1>10, <1>11, <1>12,
           <1>13, <1>14, <1>15, <1>16, <1>17, <1>18, <1>19, <1>20, <1>21, <1>22, <1>23, <1>24,
           <1>25, <1>26, <1>27, <1>28, <1>29, <1>30, <1>31, <1>32, <1>33, <1>34, <1>35, <1>36,
           <1>37, <1>38, <1>39, <1>40
        DEF Next, RxStep, PollStep, ThreadStep, BusyStep, AdminEnds

-------------------------------------------------------------------------------
(* Before it is added and after it is freed nobody is at the instance.      *)
LEMMA AbsentInvStep ==
  ASSUME Settings, NdInv, TimerEndsFirst, Next
  PROVE  AbsentInv'
<1>0. Settings /\ NdTypeOK /\ PlacesInv /\ OwnerInv /\ ThreadInv /\ AdminInv /\ AbsentInv /\ TimerEndsFirst
  BY DEF NdInv
<1>1. ASSUME device_receives PROVE AbsentInv'
  BY <1>0, <1>1, Kinds
     DEF TimerEndsFirst, NdTypeOK, NapiTypes, AdminTypes, ContextTypes, CtxTypes, ThreadInv, AdminInv,
         AbsentInv,
         device_receives
<1>2. ASSUME NEW c \in NdCpus, napi_schedule(c) PROVE AbsentInv'
  BY <1>0, <1>2, Kinds
     DEF TimerEndsFirst, NdTypeOK, NapiTypes, AdminTypes, ContextTypes, CtxTypes, ThreadInv, AdminInv,
         AbsentInv,
         napi_schedule, PrepBits, PrepOwns
<1>3. ASSUME NEW c \in NdCpus, timer_expires(c) PROVE AbsentInv'
  BY <1>0, <1>3, Kinds
     DEF TimerEndsFirst, NdTypeOK, NapiTypes, AdminTypes, ContextTypes, CtxTypes, ThreadInv, AdminInv,
         AbsentInv,
         timer_expires
<1>4. ASSUME NEW c \in NdCpus, napi_watchdog(c) PROVE AbsentInv'
  BY <1>0, <1>4 DEF Settings, AbsentInv, TimerEndsFirst, napi_watchdog
<1>5. ASSUME NEW c \in NdCpus, rx_start(c) PROVE AbsentInv'
  BY <1>0, <1>5, Kinds
     DEF TimerEndsFirst, NdTypeOK, NapiTypes, AdminTypes, ContextTypes, CtxTypes, ThreadInv, AdminInv,
         AbsentInv,
         rx_start
<1>6. ASSUME NEW c \in NdCpus, rx_loop(c) PROVE AbsentInv'
  <2>1. /\ At(Soft(c), "loop") /\ UNCHANGED <<timer, kthread, admin, mode, hw, busied>>
        /\ LoopTakes(c) \/ LoopPunts(c) \/ LoopChecks(c)
    BY <1>6, LoopEffect
  <2>2. CASE LoopTakes(c)
    BY <1>0, Kinds, <2>1, <2>2
      DEF TimerEndsFirst, NdTypeOK, NapiTypes, AdminTypes, ContextTypes, CtxTypes, ThreadInv, AdminInv,
          AbsentInv, LoopTakes
  <2>3. CASE LoopPunts(c)
    BY <1>0, Kinds, <2>1, <2>3
      DEF TimerEndsFirst, NdTypeOK, NapiTypes, AdminTypes, ContextTypes, CtxTypes, ThreadInv, AdminInv,
          AbsentInv, LoopPunts
  <2>4. CASE LoopChecks(c)
    BY <1>0, Kinds, <2>1, <2>4
      DEF TimerEndsFirst, NdTypeOK, NapiTypes, AdminTypes, ContextTypes, CtxTypes, ThreadInv, AdminInv,
          AbsentInv, LoopChecks
  <2> QED BY <2>1, <2>2, <2>3, <2>4
<1>7. ASSUME NEW c \in NdCpus, rx_check(c) PROVE AbsentInv'
  <2>1. /\ \A y \in Contexts \ {Soft(c)} : ctx'[y] = ctx[y]
        /\ ctx'[Soft(c)].pc = "restart" => napi.on = <<c, "sd">>
        /\ ctx'[Soft(c)].pc \in {"rest", "restart"}
        /\ UNCHANGED <<napi, admin>>
    BY <1>0, <1>7, Kinds DEF NdTypeOK, ContextTypes, CtxTypes, rx_check, AfterCheck
  <2> QED BY <1>0, Kinds, <2>1 DEF AbsentInv
<1>8. ASSUME NEW c \in NdCpus, NEW e \in BOOLEAN, rx_polled(c, e) PROVE AbsentInv'
  BY <1>0, <1>8, Kinds
     DEF TimerEndsFirst, NdTypeOK, NapiTypes, AdminTypes, ContextTypes, CtxTypes, ThreadInv, AdminInv,
         AbsentInv,
         rx_polled, Rest
<1>9. ASSUME NEW c \in NdCpus, rx_punt(c) PROVE AbsentInv'
  BY <1>0, <1>9, Kinds
     DEF TimerEndsFirst, NdTypeOK, NapiTypes, AdminTypes, ContextTypes, CtxTypes, ThreadInv, AdminInv,
         AbsentInv,
         rx_punt
<1>10. ASSUME NEW x \in Contexts, schedule_look(x) PROVE AbsentInv'
  BY <1>0, <1>10, Kinds
     DEF TimerEndsFirst, NdTypeOK, NapiTypes, AdminTypes, ContextTypes, CtxTypes, ThreadInv, AdminInv,
         AbsentInv,
         schedule_look
<1>11. ASSUME NEW x \in Contexts, schedule_put(x) PROVE AbsentInv'
  BY <1>0, <1>11, Kinds
     DEF TimerEndsFirst, NdTypeOK, NapiTypes, AdminTypes, ContextTypes, CtxTypes, ThreadInv, AdminInv,
         AbsentInv,
         schedule_put
<1>12. ASSUME NEW x \in Contexts, poll(x) PROVE AbsentInv'
  BY <1>0, <1>12, Kinds
     DEF TimerEndsFirst, NdTypeOK, NapiTypes, AdminTypes, ContextTypes, CtxTypes, ThreadInv, AdminInv,
         AbsentInv,
         poll
<1>13. ASSUME NEW x \in Contexts, NEW held \in BOOLEAN, napi_complete_done(x, held) PROVE AbsentInv'
  <2>1. /\ At(x, "complete") /\ UNCHANGED <<timer, sd, kthread, admin, mode, hw, busied>>
        /\ \/ CompleteKeeps(x)
           \/ \E n \in Int : CompleteLeaves(x, n)
    BY <1>0, <1>13, CompleteEffect
  <2>2. CASE CompleteKeeps(x)
    BY <1>0, Kinds, <2>1, <2>2
      DEF TimerEndsFirst, NdTypeOK, NapiTypes, AdminTypes, ContextTypes, CtxTypes, ThreadInv, AdminInv,
          AbsentInv, CompleteKeeps, CompleteRefused
  <2>3. ASSUME NEW n \in Int, CompleteLeaves(x, n)
        PROVE  AbsentInv'
    BY <1>0, Kinds, <2>1, <2>3
      DEF TimerEndsFirst, NdTypeOK, NapiTypes, AdminTypes, ContextTypes, CtxTypes, ThreadInv, AdminInv,
          AbsentInv, CompleteLeaves, CompleteRefused
  <2> QED BY <2>1, <2>2, <2>3
<1>14. ASSUME NEW x \in Contexts, complete_cmpxchg(x) PROVE AbsentInv'
  BY <1>0, <1>14, Kinds
     DEF TimerEndsFirst, NdTypeOK, NapiTypes, AdminTypes, ContextTypes, CtxTypes, ThreadInv, AdminInv,
         AbsentInv,
         complete_cmpxchg, PollAgain
<1>15. ASSUME NEW x \in Contexts, hrtimer_start(x) PROVE AbsentInv'
  BY <1>0, <1>15, Kinds
     DEF TimerEndsFirst, NdTypeOK, NapiTypes, AdminTypes, ContextTypes, CtxTypes, ThreadInv, AdminInv,
         AbsentInv,
         hrtimer_start
<1>16. ASSUME NEW x \in Contexts, complete_returns(x) PROVE AbsentInv'
  BY <1>0, <1>16, Kinds
     DEF TimerEndsFirst, NdTypeOK, NapiTypes, AdminTypes, ContextTypes, CtxTypes, ThreadInv, AdminInv,
         AbsentInv,
         complete_returns, PrepBits, PrepOwns
<1>17. ASSUME NEW x \in Contexts, poll_full(x) PROVE AbsentInv'
  BY <1>0, <1>17, Kinds
     DEF TimerEndsFirst, NdTypeOK, NapiTypes, AdminTypes, ContextTypes, CtxTypes, ThreadInv, AdminInv,
         AbsentInv,
         poll_full
<1>18. ASSUME napi_thread_wait PROVE AbsentInv'
  BY <1>0, <1>18, Kinds
     DEF TimerEndsFirst, NdTypeOK, NapiTypes, AdminTypes, ContextTypes, CtxTypes, ThreadInv, AdminInv,
         AbsentInv,
         napi_thread_wait, ThreadOwns, Rest
<1>19. ASSUME threaded_want PROVE AbsentInv'
  BY <1>0, <1>19, Kinds
     DEF TimerEndsFirst, NdTypeOK, NapiTypes, AdminTypes, ContextTypes, CtxTypes, ThreadInv, AdminInv,
         AbsentInv,
         threaded_want, WantBusyPoll
<1>20. ASSUME threaded_assign PROVE AbsentInv'
  BY <1>0, <1>20, Kinds
     DEF TimerEndsFirst, NdTypeOK, NapiTypes, AdminTypes, ContextTypes, CtxTypes, ThreadInv, AdminInv,
         AbsentInv,
         threaded_assign
<1>21. ASSUME threaded_polled PROVE AbsentInv'
  BY <1>0, <1>21, Kinds
     DEF TimerEndsFirst, NdTypeOK, NapiTypes, AdminTypes, ContextTypes, CtxTypes, ThreadInv, AdminInv,
         AbsentInv,
         threaded_polled
<1>22. ASSUME busy_begins PROVE AbsentInv'
  BY <1>0, <1>22, Kinds
     DEF TimerEndsFirst, NdTypeOK, NapiTypes, AdminTypes, ContextTypes, CtxTypes, ThreadInv, AdminInv,
         AbsentInv,
         busy_begins
<1>23. ASSUME busy_try PROVE AbsentInv'
  BY <1>0, <1>23, Kinds
     DEF TimerEndsFirst, NdTypeOK, NapiTypes, AdminTypes, ContextTypes, CtxTypes, ThreadInv, AdminInv,
         AbsentInv,
         busy_try
<1>24. ASSUME NEW again \in BOOLEAN, busy_round(again) PROVE AbsentInv'
  BY <1>0, <1>24, Kinds
     DEF TimerEndsFirst, NdTypeOK, NapiTypes, AdminTypes, ContextTypes, CtxTypes, ThreadInv, AdminInv,
         AbsentInv,
         busy_round
<1>25. ASSUME busy_poll_stop PROVE AbsentInv'
  BY <1>0, <1>25, Kinds
     DEF TimerEndsFirst, NdTypeOK, NapiTypes, AdminTypes, ContextTypes, CtxTypes, ThreadInv, AdminInv,
         AbsentInv,
         busy_poll_stop
<1>26. ASSUME busy_last_poll PROVE AbsentInv'
  BY <1>0, <1>26, Kinds
     DEF TimerEndsFirst, NdTypeOK, NapiTypes, AdminTypes, ContextTypes, CtxTypes, ThreadInv, AdminInv,
         AbsentInv,
         busy_last_poll
<1>27. ASSUME busy_stopped_full PROVE AbsentInv'
  BY <1>0, <1>27, Kinds
     DEF TimerEndsFirst, NdTypeOK, NapiTypes, AdminTypes, ContextTypes, CtxTypes, ThreadInv, AdminInv,
         AbsentInv,
         busy_stopped_full
<1>28. ASSUME busy_ends PROVE AbsentInv'
  BY <1>0, <1>28, Kinds
     DEF TimerEndsFirst, NdTypeOK, NapiTypes, AdminTypes, ContextTypes, CtxTypes, ThreadInv, AdminInv,
         AbsentInv,
         busy_ends, Rest
<1>29. ASSUME netif_napi_add PROVE AbsentInv'
  BY <1>0, <1>29, Kinds
     DEF TimerEndsFirst, NdTypeOK, NapiTypes, AdminTypes, ContextTypes, CtxTypes, ThreadInv, AdminInv,
         AbsentInv,
         netif_napi_add, Begin, CreateThread, Rest
<1>30. ASSUME napi_enable PROVE AbsentInv'
  BY <1>0, <1>30, Kinds
     DEF TimerEndsFirst, NdTypeOK, NapiTypes, AdminTypes, ContextTypes, CtxTypes, ThreadInv, AdminInv,
         AbsentInv,
         napi_enable, Begin, ModeBits
<1>31. ASSUME disable_begins PROVE AbsentInv'
  BY <1>0, <1>31, Kinds
     DEF TimerEndsFirst, NdTypeOK, NapiTypes, AdminTypes, ContextTypes, CtxTypes, ThreadInv, AdminInv,
         AbsentInv,
         disable_begins, Begin
<1>32. ASSUME disable_takes PROVE AbsentInv'
  BY <1>0, <1>32, Kinds
     DEF TimerEndsFirst, NdTypeOK, NapiTypes, AdminTypes, ContextTypes, CtxTypes, ThreadInv, AdminInv,
         AbsentInv,
         disable_takes, MayDisable, Admin
<1>33. ASSUME hrtimer_cancel PROVE AbsentInv'
  BY <1>0, <1>33, Kinds
     DEF TimerEndsFirst, NdTypeOK, NapiTypes, AdminTypes, ContextTypes, CtxTypes, ThreadInv, AdminInv,
         AbsentInv,
         hrtimer_cancel, Admin
<1>34. ASSUME disable_ends PROVE AbsentInv'
  BY <1>0, <1>34, Kinds
     DEF TimerEndsFirst, NdTypeOK, NapiTypes, AdminTypes, ContextTypes, CtxTypes, ThreadInv, AdminInv,
         AbsentInv,
         disable_ends, Admin
<1>35. ASSUME NEW m \in Modes, netif_set_threaded(m) PROVE AbsentInv'
  BY <1>0, <1>35, SwitchEffect DEF Settled, AbsentInv
<1>36. ASSUME stop_unset PROVE AbsentInv'
  BY <1>0, <1>36, Kinds
     DEF TimerEndsFirst, NdTypeOK, NapiTypes, AdminTypes, ContextTypes, CtxTypes, ThreadInv, AdminInv,
         AbsentInv,
         stop_unset, MayUnset, Admin
<1>37. ASSUME kthread_stop PROVE AbsentInv'
  BY <1>0, <1>37, Kinds
     DEF TimerEndsFirst, NdTypeOK, NapiTypes, AdminTypes, ContextTypes, CtxTypes, ThreadInv, AdminInv,
         AbsentInv,
         kthread_stop
<1>38. ASSUME thread_stopped PROVE AbsentInv'
  BY <1>0, <1>38, Kinds
     DEF TimerEndsFirst, NdTypeOK, NapiTypes, AdminTypes, ContextTypes, CtxTypes, ThreadInv, AdminInv,
         AbsentInv,
         thread_stopped, Settled, Admin
<1>39. ASSUME netif_napi_del PROVE AbsentInv'
  BY <1>0, <1>39, Kinds
     DEF TimerEndsFirst, NdTypeOK, NapiTypes, AdminTypes, ContextTypes, CtxTypes, ThreadInv, AdminInv,
         AbsentInv,
         netif_napi_del, Begin
<1>40. ASSUME napi_freed PROVE AbsentInv'
  BY <1>0, <1>40, Kinds
     DEF TimerEndsFirst, NdTypeOK, NapiTypes, AdminTypes, ContextTypes, CtxTypes, ThreadInv, AdminInv,
         AbsentInv,
         napi_freed, Admin
<1> QED BY <1>1, <1>2, <1>3, <1>4, <1>5, <1>6, <1>7, <1>8, <1>9, <1>10, <1>11, <1>12,
           <1>13, <1>14, <1>15, <1>16, <1>17, <1>18, <1>19, <1>20, <1>21, <1>22, <1>23, <1>24,
           <1>25, <1>26, <1>27, <1>28, <1>29, <1>30, <1>31, <1>32, <1>33, <1>34, <1>35, <1>36,
           <1>37, <1>38, <1>39, <1>40
        DEF Next, RxStep, PollStep, ThreadStep, BusyStep, AdminEnds

-------------------------------------------------------------------------------
(* The kthread is there when it is called.                                  *)
LEMMA ThreadInvStep ==
  ASSUME Settings, NdInv, TimerEndsFirst, Next
  PROVE  ThreadInv'
<1>0. Settings /\ NdTypeOK /\ PlacesInv /\ OwnerInv /\ ThreadInv /\ AdminInv /\ AbsentInv
  BY DEF NdInv
<1>1. ASSUME device_receives PROVE ThreadInv'
  BY <1>0, <1>1, Kinds
     DEF NdTypeOK, NapiTypes, AdminTypes, ThreadTypes, ContextTypes, CtxTypes, ThreadInv,
         device_receives
<1>2. ASSUME NEW c \in NdCpus, napi_schedule(c) PROVE ThreadInv'
  BY <1>0, <1>2, Kinds
     DEF NdTypeOK, NapiTypes, AdminTypes, ThreadTypes, ContextTypes, CtxTypes, ThreadInv,
         napi_schedule, PrepBits, PrepOwns
<1>3. ASSUME NEW c \in NdCpus, timer_expires(c) PROVE ThreadInv'
  BY <1>0, <1>3, Kinds
     DEF NdTypeOK, NapiTypes, AdminTypes, ThreadTypes, ContextTypes, CtxTypes, ThreadInv,
         timer_expires
<1>4. ASSUME NEW c \in NdCpus, napi_watchdog(c) PROVE ThreadInv'
  BY <1>0, <1>4, Kinds
     DEF NdTypeOK, NapiTypes, AdminTypes, ThreadTypes, ContextTypes, CtxTypes, ThreadInv,
         napi_watchdog, WatchdogOwns
<1>5. ASSUME NEW c \in NdCpus, rx_start(c) PROVE ThreadInv'
  BY <1>0, <1>5, Kinds
     DEF NdTypeOK, NapiTypes, AdminTypes, ThreadTypes, ContextTypes, CtxTypes, ThreadInv,
         rx_start
<1>6. ASSUME NEW c \in NdCpus, rx_loop(c) PROVE ThreadInv'
  BY <1>0, <1>6, Kinds
     DEF NdTypeOK, NapiTypes, AdminTypes, ThreadTypes, ContextTypes, CtxTypes, ThreadInv,
         rx_loop
<1>7. ASSUME NEW c \in NdCpus, rx_check(c) PROVE ThreadInv'
  BY <1>0, <1>7, Kinds
     DEF NdTypeOK, NapiTypes, AdminTypes, ThreadTypes, ContextTypes, CtxTypes, ThreadInv,
         rx_check, AfterCheck
<1>8. ASSUME NEW c \in NdCpus, NEW e \in BOOLEAN, rx_polled(c, e) PROVE ThreadInv'
  BY <1>0, <1>8, Kinds
     DEF NdTypeOK, NapiTypes, AdminTypes, ThreadTypes, ContextTypes, CtxTypes, ThreadInv,
         rx_polled, Rest
<1>9. ASSUME NEW c \in NdCpus, rx_punt(c) PROVE ThreadInv'
  BY <1>0, <1>9, Kinds
     DEF NdTypeOK, NapiTypes, AdminTypes, ThreadTypes, ContextTypes, CtxTypes, ThreadInv,
         rx_punt
<1>10. ASSUME NEW x \in Contexts, schedule_look(x) PROVE ThreadInv'
  BY <1>0, <1>10, Kinds DEF NdTypeOK, NapiTypes, AdminTypes, ThreadTypes, ContextTypes, CtxTypes, PlacesInv,
        ThreadInv, OwnerInv, AdminInv, AbsentInv, Polls, Holds, schedule_look
<1>11. ASSUME NEW x \in Contexts, schedule_put(x) PROVE ThreadInv'
  BY <1>0, <1>11, Kinds DEF NdTypeOK, NapiTypes, AdminTypes, ThreadTypes, ContextTypes, CtxTypes, PlacesInv,
        ThreadInv, OwnerInv, AdminInv, AbsentInv, Polls, Holds, schedule_put
<1>12. ASSUME NEW x \in Contexts, poll(x) PROVE ThreadInv'
  BY <1>0, <1>12, Kinds
     DEF NdTypeOK, NapiTypes, AdminTypes, ThreadTypes, ContextTypes, CtxTypes, ThreadInv,
         poll
<1>13. ASSUME NEW x \in Contexts, NEW held \in BOOLEAN, napi_complete_done(x, held) PROVE ThreadInv'
  <2>1. At(x, "complete") /\ UNCHANGED <<timer, sd, kthread, admin, mode, hw, busied>>
    BY <1>0, <1>13, CompleteEffect
  <2>2. x \in Pollers
    BY <1>0, <2>1, PollerOf
  <2>3. CASE CompleteKeeps(x)
    BY <1>0, Kinds, <2>1, <2>3
      DEF NdTypeOK, NapiTypes, AdminTypes, ThreadTypes, ContextTypes, CtxTypes, ThreadInv, CompleteKeeps,
          CompleteRefused
  <2>4. ASSUME NEW n \in Int, CompleteLeaves(x, n) PROVE ThreadInv'
    <3>1. napi'.bits = napi.bits
      BY <1>0, <2>4 DEF CompleteLeaves, NdTypeOK, NapiTypes
    <3>2. \A y \in Contexts : ctx'[y].pc = "put" => ctx'[y] = ctx[y]
      BY <2>4 DEF CompleteLeaves
    <3>3. ctx[Thread].pc = "rest" => ctx'[Thread].pc = "rest"
      BY Kinds, <2>1, <2>4 DEF CompleteLeaves
    <3> QED BY <1>0, <2>1, <3>1, <3>2, <3>3 DEF ThreadInv
  <2> QED BY <1>0, <1>13, <2>3, <2>4, CompleteEffect
<1>14. ASSUME NEW x \in Contexts, complete_cmpxchg(x) PROVE ThreadInv'
  BY <1>0, <1>14, Kinds
     DEF NdTypeOK, NapiTypes, AdminTypes, ThreadTypes, ContextTypes, CtxTypes, ThreadInv,
         complete_cmpxchg, PollAgain
<1>15. ASSUME NEW x \in Contexts, hrtimer_start(x) PROVE ThreadInv'
  BY <1>0, <1>15, Kinds
     DEF NdTypeOK, NapiTypes, AdminTypes, ThreadTypes, ContextTypes, CtxTypes, ThreadInv,
         hrtimer_start
<1>16. ASSUME NEW x \in Contexts, complete_returns(x) PROVE ThreadInv'
  BY <1>0, <1>16, Kinds
     DEF NdTypeOK, NapiTypes, AdminTypes, ThreadTypes, ContextTypes, CtxTypes, ThreadInv,
         complete_returns, PrepBits, PrepOwns
<1>17. ASSUME NEW x \in Contexts, poll_full(x) PROVE ThreadInv'
  BY <1>0, <1>17, Kinds
     DEF NdTypeOK, NapiTypes, AdminTypes, ThreadTypes, ContextTypes, CtxTypes, ThreadInv,
         poll_full
<1>18. ASSUME napi_thread_wait PROVE ThreadInv'
  BY <1>0, <1>18, Kinds, WaitEffect
    DEF NdTypeOK, NapiTypes, AdminTypes, ThreadTypes, ContextTypes, CtxTypes, ThreadInv
<1>19. ASSUME threaded_want PROVE ThreadInv'
  BY <1>0, <1>19, Kinds DEF NdTypeOK, NapiTypes, AdminTypes, ThreadTypes, ContextTypes, CtxTypes, PlacesInv,
        ThreadInv, OwnerInv, AdminInv, AbsentInv, Polls, Holds, threaded_want
<1>20. ASSUME threaded_assign PROVE ThreadInv'
  BY <1>0, <1>20, Kinds
     DEF NdTypeOK, NapiTypes, AdminTypes, ThreadTypes, ContextTypes, CtxTypes, ThreadInv,
         threaded_assign
<1>21. ASSUME threaded_polled PROVE ThreadInv'
  BY <1>0, <1>21, Kinds
     DEF NdTypeOK, NapiTypes, AdminTypes, ThreadTypes, ContextTypes, CtxTypes, ThreadInv,
         threaded_polled
<1>22. ASSUME busy_begins PROVE ThreadInv'
  BY <1>0, <1>22, Kinds
     DEF NdTypeOK, NapiTypes, AdminTypes, ThreadTypes, ContextTypes, CtxTypes, ThreadInv,
         busy_begins
<1>23. ASSUME busy_try PROVE ThreadInv'
  <2>1. /\ UNCHANGED <<kthread, admin>>
        /\ \A b \in {"SCHED_THREADED", "THREADED"} : b \in napi'.bits <=> b \in napi.bits
    BY <1>0, <1>23 DEF busy_try, NdTypeOK, NapiTypes
  <2>2. (\A y \in Contexts \ {Busy} : ctx'[y] = ctx[y]) /\ ctx'[Busy].pc \in {"retry", "poll"}
    BY <1>0, <1>23, Kinds DEF busy_try, NdTypeOK, ContextTypes, CtxTypes
  <2>3. ctx'[Thread] = ctx[Thread] /\ \A y \in Contexts : ctx'[y].pc = "put" => ctx'[y] = ctx[y]
    BY <2>2, Kinds
  <2> QED BY <1>0, <2>1, <2>3 DEF ThreadInv
<1>24. ASSUME NEW again \in BOOLEAN, busy_round(again) PROVE ThreadInv'
  BY <1>0, <1>24, Kinds
     DEF NdTypeOK, NapiTypes, AdminTypes, ThreadTypes, ContextTypes, CtxTypes, ThreadInv,
         busy_round
<1>25. ASSUME busy_poll_stop PROVE ThreadInv'
  BY <1>0, <1>25, Kinds
     DEF NdTypeOK, NapiTypes, AdminTypes, ThreadTypes, ContextTypes, CtxTypes, ThreadInv,
         busy_poll_stop
<1>26. ASSUME busy_last_poll PROVE ThreadInv'
  BY <1>0, <1>26, Kinds
     DEF NdTypeOK, NapiTypes, AdminTypes, ThreadTypes, ContextTypes, CtxTypes, ThreadInv,
         busy_last_poll
<1>27. ASSUME busy_stopped_full PROVE ThreadInv'
  BY <1>0, <1>27, Kinds
     DEF NdTypeOK, NapiTypes, AdminTypes, ThreadTypes, ContextTypes, CtxTypes, ThreadInv,
         busy_stopped_full
<1>28. ASSUME busy_ends PROVE ThreadInv'
  BY <1>0, <1>28, Kinds
     DEF NdTypeOK, NapiTypes, AdminTypes, ThreadTypes, ContextTypes, CtxTypes, ThreadInv,
         busy_ends, Rest
<1>29. ASSUME netif_napi_add PROVE ThreadInv'
  BY <1>0, <1>29, Kinds DEF NdTypeOK, NapiTypes, AdminTypes, ThreadTypes, ContextTypes, CtxTypes, PlacesInv,
        ThreadInv, OwnerInv, AdminInv, AbsentInv, Polls, Holds, netif_napi_add, Begin, CreateThread, Rest
<1>30. ASSUME napi_enable PROVE ThreadInv'
  BY <1>0, <1>30, Kinds DEF NdTypeOK, NapiTypes, AdminTypes, ThreadTypes, ContextTypes, CtxTypes, PlacesInv,
        ThreadInv, OwnerInv, AdminInv, AbsentInv, Polls, Holds, napi_enable, Begin, ModeBits
<1>31. ASSUME disable_begins PROVE ThreadInv'
  BY <1>0, <1>31, Kinds
     DEF NdTypeOK, NapiTypes, AdminTypes, ThreadTypes, ContextTypes, CtxTypes, ThreadInv,
         disable_begins, Begin
<1>32. ASSUME disable_takes PROVE ThreadInv'
  BY <1>0, <1>32, Kinds
     DEF NdTypeOK, NapiTypes, AdminTypes, ThreadTypes, ContextTypes, CtxTypes, ThreadInv,
         disable_takes, MayDisable, Admin
<1>33. ASSUME hrtimer_cancel PROVE ThreadInv'
  BY <1>0, <1>33, Kinds
     DEF NdTypeOK, NapiTypes, AdminTypes, ThreadTypes, ContextTypes, CtxTypes, ThreadInv,
         hrtimer_cancel, Admin
<1>34. ASSUME disable_ends PROVE ThreadInv'
  BY <1>0, <1>34, Kinds
     DEF NdTypeOK, NapiTypes, AdminTypes, ThreadTypes, ContextTypes, CtxTypes, ThreadInv,
         disable_ends, Admin
<1>35. ASSUME NEW m \in Modes, netif_set_threaded(m) PROVE ThreadInv'
  BY <1>0, <1>35, Kinds, SwitchEffect
    DEF NdTypeOK, NapiTypes, AdminTypes, ThreadTypes, ContextTypes, CtxTypes, ThreadInv, Settled, AdminInv
<1>36. ASSUME stop_unset PROVE ThreadInv'
  BY <1>0, <1>36, Kinds DEF NdTypeOK, NapiTypes, AdminTypes, ThreadTypes, ContextTypes, CtxTypes, PlacesInv,
        ThreadInv, OwnerInv, AdminInv, AbsentInv, Polls, Holds, stop_unset, MayUnset, Admin
<1>37. ASSUME kthread_stop PROVE ThreadInv'
  BY <1>0, <1>37, Kinds DEF NdTypeOK, NapiTypes, AdminTypes, ThreadTypes, ContextTypes, CtxTypes, PlacesInv,
        ThreadInv, OwnerInv, AdminInv, AbsentInv, Polls, Holds, kthread_stop
<1>38. ASSUME thread_stopped PROVE ThreadInv'
  BY <1>0, <1>38, Kinds DEF NdTypeOK, NapiTypes, AdminTypes, ThreadTypes, ContextTypes, CtxTypes, PlacesInv,
        ThreadInv, OwnerInv, AdminInv, AbsentInv, Polls, Holds, thread_stopped, Settled, Admin
<1>39. ASSUME netif_napi_del PROVE ThreadInv'
  BY <1>0, <1>39, Kinds DEF NdTypeOK, NapiTypes, AdminTypes, ThreadTypes, ContextTypes, CtxTypes, PlacesInv,
        ThreadInv, OwnerInv, AdminInv, AbsentInv, Polls, Holds, netif_napi_del, Begin
<1>40. ASSUME napi_freed PROVE ThreadInv'
  BY <1>0, <1>40, Kinds DEF NdTypeOK, NapiTypes, AdminTypes, ThreadTypes, ContextTypes, CtxTypes, PlacesInv,
        ThreadInv, OwnerInv, AdminInv, AbsentInv, Polls, Holds, napi_freed, Admin
<1> QED BY <1>1, <1>2, <1>3, <1>4, <1>5, <1>6, <1>7, <1>8, <1>9, <1>10, <1>11, <1>12,
           <1>13, <1>14, <1>15, <1>16, <1>17, <1>18, <1>19, <1>20, <1>21, <1>22, <1>23, <1>24,
           <1>25, <1>26, <1>27, <1>28, <1>29, <1>30, <1>31, <1>32, <1>33, <1>34, <1>35, <1>36,
           <1>37, <1>38, <1>39, <1>40
        DEF Next, RxStep, PollStep, ThreadStep, BusyStep, AdminEnds

-------------------------------------------------------------------------------
(* A CPU whose list holds the instance will run net_rx_action.              *)
LEMMA ListInvStep ==
  ASSUME Settings, NdInv, TimerEndsFirst, Next
  PROVE  ListInv'
<1>0. Settings /\ NdTypeOK /\ PlacesInv /\ OwnerInv /\ ListInv
  BY DEF NdInv
<1>1. ASSUME device_receives PROVE ListInv'
  <2>1. (napi'.on = napi.on \/ napi'.on = Nowhere) /\ sd' = sd
    BY <1>0, <1>1 DEF device_receives, NdTypeOK, NapiTypes
  <2>2. \A d \in NdCpus : \/ ctx'[Soft(d)].pc = ctx[Soft(d)].pc
                          \/ /\ ctx[Soft(d)].pc \notin {"loop", "punt"}
                             /\ ctx'[Soft(d)].pc \notin {"rest", "check"}
    BY <1>0, <1>1, Kinds DEF device_receives, NdTypeOK, ContextTypes, CtxTypes
  <2> QED BY <1>0, <2>1, <2>2, ListFrame
<1>2. ASSUME NEW c \in NdCpus, napi_schedule(c) PROVE ListInv'
  <2>1. (napi'.on = napi.on \/ napi'.on = Nowhere) /\ sd' = sd
    BY <1>0, <1>2 DEF napi_schedule, PrepBits, PrepOwns, NdTypeOK, NapiTypes
  <2>2. \A d \in NdCpus : \/ ctx'[Soft(d)].pc = ctx[Soft(d)].pc
                          \/ /\ ctx[Soft(d)].pc \notin {"loop", "punt"}
                             /\ ctx'[Soft(d)].pc \notin {"rest", "check"}
    BY <1>0, <1>2, Kinds DEF napi_schedule, PrepBits, PrepOwns, NdTypeOK, ContextTypes, CtxTypes
  <2> QED BY <1>0, <2>1, <2>2, ListFrame
<1>3. ASSUME NEW c \in NdCpus, timer_expires(c) PROVE ListInv'
  <2>1. (napi'.on = napi.on \/ napi'.on = Nowhere) /\ sd' = sd
    BY <1>0, <1>3 DEF timer_expires, NdTypeOK, NapiTypes
  <2>2. \A d \in NdCpus : \/ ctx'[Soft(d)].pc = ctx[Soft(d)].pc
                          \/ /\ ctx[Soft(d)].pc \notin {"loop", "punt"}
                             /\ ctx'[Soft(d)].pc \notin {"rest", "check"}
    BY <1>0, <1>3, Kinds DEF timer_expires, NdTypeOK, ContextTypes, CtxTypes
  <2> QED BY <1>0, <2>1, <2>2, ListFrame
<1>4. ASSUME NEW c \in NdCpus, napi_watchdog(c) PROVE ListInv'
  <2>1. (napi'.on = napi.on \/ napi'.on = Nowhere) /\ sd' = sd
    BY <1>0, <1>4 DEF napi_watchdog, WatchdogOwns, NdTypeOK, NapiTypes
  <2>2. \A d \in NdCpus : \/ ctx'[Soft(d)].pc = ctx[Soft(d)].pc
                          \/ /\ ctx[Soft(d)].pc \notin {"loop", "punt"}
                             /\ ctx'[Soft(d)].pc \notin {"rest", "check"}
    BY <1>0, <1>4, Kinds DEF napi_watchdog, WatchdogOwns, NdTypeOK, ContextTypes, CtxTypes
  <2> QED BY <1>0, <2>1, <2>2, ListFrame
<1>5. ASSUME NEW c \in NdCpus, rx_start(c) PROVE ListInv'
  BY <1>0, <1>5, Kinds
     DEF NdTypeOK, NapiTypes, SoftTypes, ContextTypes, CtxTypes, PlacesInv, ListInv, OwnerInv, Polls,
         Holds, Nowhere,
         rx_start
<1>6. ASSUME NEW c \in NdCpus, rx_loop(c) PROVE ListInv'
  <2>1. /\ At(Soft(c), "loop") /\ UNCHANGED <<timer, kthread, admin, mode, hw, busied>>
        /\ LoopTakes(c) \/ LoopPunts(c) \/ LoopChecks(c)
    BY <1>6, LoopEffect
  <2>2. CASE LoopTakes(c)
    BY <1>0, Kinds, <2>1, <2>2
      DEF NdTypeOK, NapiTypes, SoftTypes, ContextTypes, CtxTypes, PlacesInv, ListInv, OwnerInv, Polls,
          Holds, Nowhere, LoopTakes
  <2>3. CASE LoopPunts(c)
    BY <1>0, Kinds, <2>1, <2>3
      DEF NdTypeOK, NapiTypes, SoftTypes, ContextTypes, CtxTypes, PlacesInv, ListInv, OwnerInv, Polls,
          Holds, Nowhere, LoopPunts
  <2>4. CASE LoopChecks(c)
    BY <1>0, Kinds, <2>1, <2>4
      DEF NdTypeOK, NapiTypes, SoftTypes, ContextTypes, CtxTypes, PlacesInv, ListInv, OwnerInv, Polls,
          Holds, Nowhere, LoopChecks
  <2> QED BY <2>1, <2>2, <2>3, <2>4
<1>7. ASSUME NEW c \in NdCpus, rx_check(c) PROVE ListInv'
  BY <1>0, <1>7, Kinds
     DEF NdTypeOK, NapiTypes, SoftTypes, ContextTypes, CtxTypes, PlacesInv, ListInv, OwnerInv, Polls,
         Holds, Nowhere,
         rx_check, AfterCheck
<1>8. ASSUME NEW c \in NdCpus, NEW e \in BOOLEAN, rx_polled(c, e) PROVE ListInv'
  <2>1. /\ \A d \in NdCpus \ {c} : ctx'[Soft(d)] = ctx[Soft(d)]
        /\ ctx'[Soft(c)].pc \in {"loop", "punt"} /\ ctx[Soft(c)].pc \in {"polled", "repoll"} /\ sd' = sd
    BY <1>0, <1>8, Kinds DEF rx_polled, Rest, NdTypeOK, ContextTypes
  <2>2. napi'.on = napi.on \/ napi'.on = <<c, "repoll">>
    BY <1>0, <1>8 DEF rx_polled, NdTypeOK, NapiTypes
  <2>3. CASE napi'.on = napi.on
    BY <1>0, <2>1, <2>3 DEF ListInv
  <2>4. CASE napi'.on = <<c, "repoll">>
    BY <1>0, <2>1, <2>4 DEF ListInv
  <2> QED BY <2>2, <2>3, <2>4
<1>9. ASSUME NEW c \in NdCpus, rx_punt(c) PROVE ListInv'
  <2>1. /\ sd' = [sd EXCEPT ![c] = [raised |-> napi.on[1] = c \/ sd[c].raised, in |-> napi.on[1] = c]]
        /\ ctx' = [ctx EXCEPT ![Soft(c)].pc = "rest"]
        /\ napi' = [napi EXCEPT !.on = IF napi.on[1] = c THEN <<c, "sd">> ELSE napi.on]
    BY <1>9 DEF rx_punt
  <2>2. \A d \in NdCpus, l \in {"sd", "list", "repoll"} : napi.on = <<d, l>> => napi.on[1] = d
    OBVIOUS
  <2>3. \A d \in NdCpus \ {c} : sd'[d] = sd[d] /\ ctx'[Soft(d)] = ctx[Soft(d)]
    BY <1>0, <2>1, Kinds DEF NdTypeOK, SoftTypes, ContextTypes
  <2>4. ctx'[Soft(c)].pc = "rest"
    BY <1>0, <2>1, Kinds DEF NdTypeOK, ContextTypes, CtxTypes
  <2>5. CASE napi.on[1] = c
    <3>1. napi'.on = <<c, "sd">>
      BY <1>0, <2>1, <2>5 DEF NdTypeOK, NapiTypes
    <3>2. sd' = [sd EXCEPT ![c] = [raised |-> TRUE, in |-> TRUE]]
      BY <2>1, <2>5
    <3>3. sd'[c].raised
      BY <1>0, <3>2 DEF NdTypeOK, SoftTypes
    <3>4. \A d \in NdCpus : napi'.on = <<d, "sd">> => d = c
      BY <3>1
    <3>5. \A d \in NdCpus : napi'.on # <<d, "list">> /\ napi'.on # <<d, "repoll">>
      BY <3>1
    <3> QED BY <1>0, <2>3, <2>4, <3>3, <3>4, <3>5 DEF ListInv
  <2>6. CASE napi.on[1] # c
    <3>1. napi'.on = napi.on
      BY <1>0, <2>1, <2>6 DEF NdTypeOK, NapiTypes
    <3>2. sd' = [sd EXCEPT ![c] = [raised |-> napi.on[1] = c \/ sd[c].raised, in |-> FALSE]]
      BY <2>1, <2>6
    <3>3. ~sd'[c].in
      BY <1>0, <3>2 DEF NdTypeOK, SoftTypes
    <3>4. napi'.on # <<c, "sd">> /\ napi'.on # <<c, "list">> /\ napi'.on # <<c, "repoll">>
      BY <2>2, <2>6, <3>1
    <3> QED BY <1>0, <2>3, <2>4, <3>1, <3>3, <3>4 DEF ListInv
  <2> QED BY <2>5, <2>6
<1>10. ASSUME NEW x \in Contexts, schedule_look(x) PROVE ListInv'
  <2>1. (napi'.on = napi.on \/ napi'.on = Nowhere) /\ sd' = sd
    BY <1>0, <1>10 DEF schedule_look, NdTypeOK, NapiTypes
  <2>2. \A d \in NdCpus : \/ ctx'[Soft(d)].pc = ctx[Soft(d)].pc
                          \/ /\ ctx[Soft(d)].pc \notin {"loop", "punt"}
                             /\ ctx'[Soft(d)].pc \notin {"rest", "check"}
    BY <1>0, <1>10, Kinds DEF schedule_look, NdTypeOK, ContextTypes, CtxTypes
  <2> QED BY <1>0, <2>1, <2>2, ListFrame
<1>11. ASSUME NEW x \in Contexts, schedule_put(x) PROVE ListInv'
  <2>1. \A d \in NdCpus : \/ ctx'[Soft(d)].pc = ctx[Soft(d)].pc
                          \/ ctx[Soft(d)].pc = "put" /\ ctx'[Soft(d)].pc = "polled"
    BY <1>0, <1>11, PutEffect, Kinds DEF NdTypeOK, ContextTypes, CtxTypes
  <2>2. CASE ctx[x].to = "thread"
    <3>1. napi'.on = napi.on /\ sd' = sd
      BY <1>0, <1>11, <2>2, PutEffect DEF NdTypeOK, NapiTypes
    <3> QED BY <1>0, <2>1, <3>1, ListFrame
  <2>3. CASE ctx[x].to = "list"
    <3>1. PICK c \in NdCpus : /\ napi'.on = <<c, "sd">>
                              /\ sd'[c].in = sd[c].in /\ (sd'[c].raised <=> sd[c].raised \/ ~sd[c].in)
                              /\ \A d \in NdCpus \ {c} : sd'[d] = sd[d]
      BY <1>0, <1>11, <2>3, PutEffect DEF NdTypeOK, NapiTypes
    <3>2. sd'[c].raised \/ ctx'[Soft(c)].pc # "rest"
      BY <1>0, <2>1, <3>1 DEF ListInv
    <3>3. \A d \in NdCpus : napi'.on = <<d, "sd">> => d = c
      BY <3>1
    <3>4. \A d \in NdCpus : napi'.on # <<d, "list">> /\ napi'.on # <<d, "repoll">>
      BY <3>1
    <3> QED BY <1>0, <2>1, <3>1, <3>2, <3>3, <3>4 DEF ListInv
  <2> QED BY <1>0, <1>11, <2>2, <2>3, PutEffect
<1>12. ASSUME NEW x \in Contexts, poll(x) PROVE ListInv'
  <2>1. (napi'.on = napi.on \/ napi'.on = Nowhere) /\ sd' = sd
    BY <1>0, <1>12 DEF poll, NdTypeOK, NapiTypes
  <2>2. \A d \in NdCpus : \/ ctx'[Soft(d)].pc = ctx[Soft(d)].pc
                          \/ /\ ctx[Soft(d)].pc \notin {"loop", "punt"}
                             /\ ctx'[Soft(d)].pc \notin {"rest", "check"}
    BY <1>0, <1>12, Kinds DEF poll, NdTypeOK, ContextTypes, CtxTypes
  <2> QED BY <1>0, <2>1, <2>2, ListFrame
<1>13. ASSUME NEW x \in Contexts, NEW held \in BOOLEAN, napi_complete_done(x, held) PROVE ListInv'
  <2>1. At(x, "complete") /\ sd' = sd
    BY <1>0, <1>13, CompleteEffect
  <2>2. CASE CompleteKeeps(x)
    BY <1>0, Kinds, <2>1, <2>2, ListFrame DEF CompleteKeeps, NdTypeOK, ContextTypes, CtxTypes
  <2>3. ASSUME NEW n \in Int, CompleteLeaves(x, n) PROVE ListInv'
    <3>1. napi'.on = Nowhere
      BY <1>0, <2>3 DEF CompleteLeaves, NdTypeOK, NapiTypes
    <3>2. \A c \in NdCpus : \/ ctx'[Soft(c)].pc = ctx[Soft(c)].pc
                            \/ /\ ctx[Soft(c)].pc \notin {"loop", "punt"}
                               /\ ctx'[Soft(c)].pc \notin {"rest", "check"}
      BY Kinds, <2>1, <2>3 DEF CompleteLeaves
    <3> QED BY <1>0, <2>1, <3>1, <3>2, ListFrame
  <2> QED BY <1>0, <1>13, <2>2, <2>3, CompleteEffect
<1>14. ASSUME NEW x \in Contexts, complete_cmpxchg(x) PROVE ListInv'
  <2>1. (napi'.on = napi.on \/ napi'.on = Nowhere) /\ sd' = sd
    BY <1>0, <1>14 DEF complete_cmpxchg, PollAgain, NdTypeOK, NapiTypes
  <2>2. \A d \in NdCpus : \/ ctx'[Soft(d)].pc = ctx[Soft(d)].pc
                          \/ /\ ctx[Soft(d)].pc \notin {"loop", "punt"}
                             /\ ctx'[Soft(d)].pc \notin {"rest", "check"}
    BY <1>0, <1>14, Kinds DEF complete_cmpxchg, PollAgain, NdTypeOK, ContextTypes, CtxTypes
  <2> QED BY <1>0, <2>1, <2>2, ListFrame
<1>15. ASSUME NEW x \in Contexts, hrtimer_start(x) PROVE ListInv'
  <2>1. (napi'.on = napi.on \/ napi'.on = Nowhere) /\ sd' = sd
    BY <1>0, <1>15 DEF hrtimer_start, NdTypeOK, NapiTypes
  <2>2. \A d \in NdCpus : \/ ctx'[Soft(d)].pc = ctx[Soft(d)].pc
                          \/ /\ ctx[Soft(d)].pc \notin {"loop", "punt"}
                             /\ ctx'[Soft(d)].pc \notin {"rest", "check"}
    BY <1>0, <1>15, Kinds DEF hrtimer_start, NdTypeOK, ContextTypes, CtxTypes
  <2> QED BY <1>0, <2>1, <2>2, ListFrame
<1>16. ASSUME NEW x \in Contexts, complete_returns(x) PROVE ListInv'
  <2>1. (napi'.on = napi.on \/ napi'.on = Nowhere) /\ sd' = sd
    BY <1>0, <1>16 DEF complete_returns, PrepBits, PrepOwns, NdTypeOK, NapiTypes
  <2>2. \A d \in NdCpus : \/ ctx'[Soft(d)].pc = ctx[Soft(d)].pc
                          \/ /\ ctx[Soft(d)].pc \notin {"loop", "punt"}
                             /\ ctx'[Soft(d)].pc \notin {"rest", "check"}
    BY <1>0, <1>16, Kinds DEF complete_returns, PrepBits, PrepOwns, NdTypeOK, ContextTypes, CtxTypes
  <2> QED BY <1>0, <2>1, <2>2, ListFrame
<1>17. ASSUME NEW x \in Contexts, poll_full(x) PROVE ListInv'
  <2>1. (napi'.on = napi.on \/ napi'.on = Nowhere) /\ sd' = sd
    BY <1>0, <1>17 DEF poll_full, NdTypeOK, NapiTypes
  <2>2. \A d \in NdCpus : \/ ctx'[Soft(d)].pc = ctx[Soft(d)].pc
                          \/ /\ ctx[Soft(d)].pc \notin {"loop", "punt"}
                             /\ ctx'[Soft(d)].pc \notin {"rest", "check"}
    BY <1>0, <1>17, Kinds DEF poll_full, NdTypeOK, ContextTypes, CtxTypes
  <2> QED BY <1>0, <2>1, <2>2, ListFrame
<1>18. ASSUME napi_thread_wait PROVE ListInv'
  <2>1. (napi'.on = napi.on \/ napi'.on = Nowhere) /\ sd' = sd
    BY <1>0, <1>18, WaitEffect
  <2>2. \A d \in NdCpus : \/ ctx'[Soft(d)].pc = ctx[Soft(d)].pc
                          \/ /\ ctx[Soft(d)].pc \notin {"loop", "punt"}
                             /\ ctx'[Soft(d)].pc \notin {"rest", "check"}
    BY <1>0, <1>18, Kinds, WaitEffect
  <2> QED BY <1>0, <2>1, <2>2, ListFrame
<1>19. ASSUME threaded_want PROVE ListInv'
  <2>1. (napi'.on = napi.on \/ napi'.on = Nowhere) /\ sd' = sd
    BY <1>0, <1>19 DEF threaded_want, WantBusyPoll, NdTypeOK, NapiTypes
  <2>2. \A d \in NdCpus : \/ ctx'[Soft(d)].pc = ctx[Soft(d)].pc
                          \/ /\ ctx[Soft(d)].pc \notin {"loop", "punt"}
                             /\ ctx'[Soft(d)].pc \notin {"rest", "check"}
    BY <1>0, <1>19, Kinds DEF threaded_want, WantBusyPoll, NdTypeOK, ContextTypes, CtxTypes
  <2> QED BY <1>0, <2>1, <2>2, ListFrame
<1>20. ASSUME threaded_assign PROVE ListInv'
  <2>1. (napi'.on = napi.on \/ napi'.on = Nowhere) /\ sd' = sd
    BY <1>0, <1>20 DEF threaded_assign, NdTypeOK, NapiTypes
  <2>2. \A d \in NdCpus : \/ ctx'[Soft(d)].pc = ctx[Soft(d)].pc
                          \/ /\ ctx[Soft(d)].pc \notin {"loop", "punt"}
                             /\ ctx'[Soft(d)].pc \notin {"rest", "check"}
    BY <1>0, <1>20, Kinds DEF threaded_assign, NdTypeOK, ContextTypes, CtxTypes
  <2> QED BY <1>0, <2>1, <2>2, ListFrame
<1>21. ASSUME threaded_polled PROVE ListInv'
  <2>1. (napi'.on = napi.on \/ napi'.on = Nowhere) /\ sd' = sd
    BY <1>0, <1>21 DEF threaded_polled, NdTypeOK, NapiTypes
  <2>2. \A d \in NdCpus : \/ ctx'[Soft(d)].pc = ctx[Soft(d)].pc
                          \/ /\ ctx[Soft(d)].pc \notin {"loop", "punt"}
                             /\ ctx'[Soft(d)].pc \notin {"rest", "check"}
    BY <1>0, <1>21, Kinds DEF threaded_polled, NdTypeOK, ContextTypes, CtxTypes
  <2> QED BY <1>0, <2>1, <2>2, ListFrame
<1>22. ASSUME busy_begins PROVE ListInv'
  <2>1. (napi'.on = napi.on \/ napi'.on = Nowhere) /\ sd' = sd
    BY <1>0, <1>22 DEF busy_begins, NdTypeOK, NapiTypes
  <2>2. \A d \in NdCpus : \/ ctx'[Soft(d)].pc = ctx[Soft(d)].pc
                          \/ /\ ctx[Soft(d)].pc \notin {"loop", "punt"}
                             /\ ctx'[Soft(d)].pc \notin {"rest", "check"}
    BY <1>0, <1>22, Kinds DEF busy_begins, NdTypeOK, ContextTypes, CtxTypes
  <2> QED BY <1>0, <2>1, <2>2, ListFrame
<1>23. ASSUME busy_try PROVE ListInv'
  <2>1. (napi'.on = napi.on \/ napi'.on = Nowhere) /\ sd' = sd
    BY <1>0, <1>23 DEF busy_try, NdTypeOK, NapiTypes
  <2>2. \A d \in NdCpus : \/ ctx'[Soft(d)].pc = ctx[Soft(d)].pc
                          \/ /\ ctx[Soft(d)].pc \notin {"loop", "punt"}
                             /\ ctx'[Soft(d)].pc \notin {"rest", "check"}
    BY <1>0, <1>23, Kinds DEF busy_try, NdTypeOK, ContextTypes, CtxTypes
  <2> QED BY <1>0, <2>1, <2>2, ListFrame
<1>24. ASSUME NEW again \in BOOLEAN, busy_round(again) PROVE ListInv'
  <2>1. (napi'.on = napi.on \/ napi'.on = Nowhere) /\ sd' = sd
    BY <1>0, <1>24 DEF busy_round, NdTypeOK, NapiTypes
  <2>2. \A d \in NdCpus : \/ ctx'[Soft(d)].pc = ctx[Soft(d)].pc
                          \/ /\ ctx[Soft(d)].pc \notin {"loop", "punt"}
                             /\ ctx'[Soft(d)].pc \notin {"rest", "check"}
    BY <1>0, <1>24, Kinds DEF busy_round, NdTypeOK, ContextTypes, CtxTypes
  <2> QED BY <1>0, <2>1, <2>2, ListFrame
<1>25. ASSUME busy_poll_stop PROVE ListInv'
  <2>1. (napi'.on = napi.on \/ napi'.on = Nowhere) /\ sd' = sd
    BY <1>0, <1>25 DEF busy_poll_stop, NdTypeOK, NapiTypes
  <2>2. \A d \in NdCpus : \/ ctx'[Soft(d)].pc = ctx[Soft(d)].pc
                          \/ /\ ctx[Soft(d)].pc \notin {"loop", "punt"}
                             /\ ctx'[Soft(d)].pc \notin {"rest", "check"}
    BY <1>0, <1>25, Kinds DEF busy_poll_stop, NdTypeOK, ContextTypes, CtxTypes
  <2> QED BY <1>0, <2>1, <2>2, ListFrame
<1>26. ASSUME busy_last_poll PROVE ListInv'
  <2>1. (napi'.on = napi.on \/ napi'.on = Nowhere) /\ sd' = sd
    BY <1>0, <1>26 DEF busy_last_poll, NdTypeOK, NapiTypes
  <2>2. \A d \in NdCpus : \/ ctx'[Soft(d)].pc = ctx[Soft(d)].pc
                          \/ /\ ctx[Soft(d)].pc \notin {"loop", "punt"}
                             /\ ctx'[Soft(d)].pc \notin {"rest", "check"}
    BY <1>0, <1>26, Kinds DEF busy_last_poll, NdTypeOK, ContextTypes, CtxTypes
  <2> QED BY <1>0, <2>1, <2>2, ListFrame
<1>27. ASSUME busy_stopped_full PROVE ListInv'
  <2>1. (napi'.on = napi.on \/ napi'.on = Nowhere) /\ sd' = sd
    BY <1>0, <1>27, FullEffect DEF NdTypeOK, NapiTypes
  <2>2. \A d \in NdCpus : \/ ctx'[Soft(d)].pc = ctx[Soft(d)].pc
                          \/ /\ ctx[Soft(d)].pc \notin {"loop", "punt"}
                             /\ ctx'[Soft(d)].pc \notin {"rest", "check"}
    BY <1>0, <1>27, Kinds, FullEffect
  <2> QED BY <1>0, <2>1, <2>2, ListFrame
<1>28. ASSUME busy_ends PROVE ListInv'
  <2>1. (napi'.on = napi.on \/ napi'.on = Nowhere) /\ sd' = sd
    BY <1>0, <1>28 DEF busy_ends, Rest, NdTypeOK, NapiTypes
  <2>2. \A d \in NdCpus : \/ ctx'[Soft(d)].pc = ctx[Soft(d)].pc
                          \/ /\ ctx[Soft(d)].pc \notin {"loop", "punt"}
                             /\ ctx'[Soft(d)].pc \notin {"rest", "check"}
    BY <1>0, <1>28, Kinds DEF busy_ends, Rest, NdTypeOK, ContextTypes, CtxTypes
  <2> QED BY <1>0, <2>1, <2>2, ListFrame
<1>29. ASSUME netif_napi_add PROVE ListInv'
  <2>1. (napi'.on = napi.on \/ napi'.on = Nowhere) /\ sd' = sd
    BY <1>0, <1>29 DEF netif_napi_add, Begin, CreateThread, Rest, NdTypeOK, NapiTypes
  <2>2. \A d \in NdCpus : \/ ctx'[Soft(d)].pc = ctx[Soft(d)].pc
                          \/ /\ ctx[Soft(d)].pc \notin {"loop", "punt"}
                             /\ ctx'[Soft(d)].pc \notin {"rest", "check"}
    BY <1>0, <1>29, Kinds DEF netif_napi_add, Begin, CreateThread, Rest, NdTypeOK, ContextTypes, CtxTypes
  <2> QED BY <1>0, <2>1, <2>2, ListFrame
<1>30. ASSUME napi_enable PROVE ListInv'
  <2>1. (napi'.on = napi.on \/ napi'.on = Nowhere) /\ sd' = sd
    BY <1>0, <1>30 DEF napi_enable, Begin, ModeBits, NdTypeOK, NapiTypes
  <2>2. \A d \in NdCpus : \/ ctx'[Soft(d)].pc = ctx[Soft(d)].pc
                          \/ /\ ctx[Soft(d)].pc \notin {"loop", "punt"}
                             /\ ctx'[Soft(d)].pc \notin {"rest", "check"}
    BY <1>0, <1>30, Kinds DEF napi_enable, Begin, ModeBits, NdTypeOK, ContextTypes, CtxTypes
  <2> QED BY <1>0, <2>1, <2>2, ListFrame
<1>31. ASSUME disable_begins PROVE ListInv'
  <2>1. (napi'.on = napi.on \/ napi'.on = Nowhere) /\ sd' = sd
    BY <1>0, <1>31 DEF disable_begins, Begin, NdTypeOK, NapiTypes
  <2>2. \A d \in NdCpus : \/ ctx'[Soft(d)].pc = ctx[Soft(d)].pc
                          \/ /\ ctx[Soft(d)].pc \notin {"loop", "punt"}
                             /\ ctx'[Soft(d)].pc \notin {"rest", "check"}
    BY <1>0, <1>31, Kinds DEF disable_begins, Begin, NdTypeOK, ContextTypes, CtxTypes
  <2> QED BY <1>0, <2>1, <2>2, ListFrame
<1>32. ASSUME disable_takes PROVE ListInv'
  <2>1. (napi'.on = napi.on \/ napi'.on = Nowhere) /\ sd' = sd
    BY <1>0, <1>32 DEF disable_takes, MayDisable, Admin, NdTypeOK, NapiTypes
  <2>2. \A d \in NdCpus : \/ ctx'[Soft(d)].pc = ctx[Soft(d)].pc
                          \/ /\ ctx[Soft(d)].pc \notin {"loop", "punt"}
                             /\ ctx'[Soft(d)].pc \notin {"rest", "check"}
    BY <1>0, <1>32, Kinds DEF disable_takes, MayDisable, Admin, NdTypeOK, ContextTypes, CtxTypes
  <2> QED BY <1>0, <2>1, <2>2, ListFrame
<1>33. ASSUME hrtimer_cancel PROVE ListInv'
  <2>1. (napi'.on = napi.on \/ napi'.on = Nowhere) /\ sd' = sd
    BY <1>0, <1>33 DEF hrtimer_cancel, Admin, NdTypeOK, NapiTypes
  <2>2. \A d \in NdCpus : \/ ctx'[Soft(d)].pc = ctx[Soft(d)].pc
                          \/ /\ ctx[Soft(d)].pc \notin {"loop", "punt"}
                             /\ ctx'[Soft(d)].pc \notin {"rest", "check"}
    BY <1>0, <1>33, Kinds DEF hrtimer_cancel, Admin, NdTypeOK, ContextTypes, CtxTypes
  <2> QED BY <1>0, <2>1, <2>2, ListFrame
<1>34. ASSUME disable_ends PROVE ListInv'
  <2>1. (napi'.on = napi.on \/ napi'.on = Nowhere) /\ sd' = sd
    BY <1>0, <1>34 DEF disable_ends, Admin, NdTypeOK, NapiTypes
  <2>2. \A d \in NdCpus : \/ ctx'[Soft(d)].pc = ctx[Soft(d)].pc
                          \/ /\ ctx[Soft(d)].pc \notin {"loop", "punt"}
                             /\ ctx'[Soft(d)].pc \notin {"rest", "check"}
    BY <1>0, <1>34, Kinds DEF disable_ends, Admin, NdTypeOK, ContextTypes, CtxTypes
  <2> QED BY <1>0, <2>1, <2>2, ListFrame
<1>35. ASSUME NEW m \in Modes, netif_set_threaded(m) PROVE ListInv'
  <2>1. (napi'.on = napi.on \/ napi'.on = Nowhere) /\ sd' = sd
    BY <1>0, <1>35, SwitchEffect
  <2>2. \A d \in NdCpus : \/ ctx'[Soft(d)].pc = ctx[Soft(d)].pc
                          \/ /\ ctx[Soft(d)].pc \notin {"loop", "punt"}
                             /\ ctx'[Soft(d)].pc \notin {"rest", "check"}
    BY <1>0, <1>35, Kinds, SwitchEffect
  <2> QED BY <1>0, <2>1, <2>2, ListFrame
<1>36. ASSUME stop_unset PROVE ListInv'
  <2>1. (napi'.on = napi.on \/ napi'.on = Nowhere) /\ sd' = sd
    BY <1>0, <1>36 DEF stop_unset, MayUnset, Admin, NdTypeOK, NapiTypes
  <2>2. \A d \in NdCpus : \/ ctx'[Soft(d)].pc = ctx[Soft(d)].pc
                          \/ /\ ctx[Soft(d)].pc \notin {"loop", "punt"}
                             /\ ctx'[Soft(d)].pc \notin {"rest", "check"}
    BY <1>0, <1>36, Kinds DEF stop_unset, MayUnset, Admin, NdTypeOK, ContextTypes, CtxTypes
  <2> QED BY <1>0, <2>1, <2>2, ListFrame
<1>37. ASSUME kthread_stop PROVE ListInv'
  <2>1. (napi'.on = napi.on \/ napi'.on = Nowhere) /\ sd' = sd
    BY <1>0, <1>37 DEF kthread_stop, NdTypeOK, NapiTypes
  <2>2. \A d \in NdCpus : \/ ctx'[Soft(d)].pc = ctx[Soft(d)].pc
                          \/ /\ ctx[Soft(d)].pc \notin {"loop", "punt"}
                             /\ ctx'[Soft(d)].pc \notin {"rest", "check"}
    BY <1>0, <1>37, Kinds DEF kthread_stop, NdTypeOK, ContextTypes, CtxTypes
  <2> QED BY <1>0, <2>1, <2>2, ListFrame
<1>38. ASSUME thread_stopped PROVE ListInv'
  <2>1. (napi'.on = napi.on \/ napi'.on = Nowhere) /\ sd' = sd
    BY <1>0, <1>38 DEF thread_stopped, Settled, Admin, NdTypeOK, NapiTypes
  <2>2. \A d \in NdCpus : \/ ctx'[Soft(d)].pc = ctx[Soft(d)].pc
                          \/ /\ ctx[Soft(d)].pc \notin {"loop", "punt"}
                             /\ ctx'[Soft(d)].pc \notin {"rest", "check"}
    BY <1>0, <1>38, Kinds DEF thread_stopped, Settled, Admin, NdTypeOK, ContextTypes, CtxTypes
  <2> QED BY <1>0, <2>1, <2>2, ListFrame
<1>39. ASSUME netif_napi_del PROVE ListInv'
  <2>1. (napi'.on = napi.on \/ napi'.on = Nowhere) /\ sd' = sd
    BY <1>0, <1>39 DEF netif_napi_del, Begin, NdTypeOK, NapiTypes
  <2>2. \A d \in NdCpus : \/ ctx'[Soft(d)].pc = ctx[Soft(d)].pc
                          \/ /\ ctx[Soft(d)].pc \notin {"loop", "punt"}
                             /\ ctx'[Soft(d)].pc \notin {"rest", "check"}
    BY <1>0, <1>39, Kinds DEF netif_napi_del, Begin, NdTypeOK, ContextTypes, CtxTypes
  <2> QED BY <1>0, <2>1, <2>2, ListFrame
<1>40. ASSUME napi_freed PROVE ListInv'
  <2>1. (napi'.on = napi.on \/ napi'.on = Nowhere) /\ sd' = sd
    BY <1>0, <1>40 DEF napi_freed, Admin, NdTypeOK, NapiTypes
  <2>2. \A d \in NdCpus : \/ ctx'[Soft(d)].pc = ctx[Soft(d)].pc
                          \/ /\ ctx[Soft(d)].pc \notin {"loop", "punt"}
                             /\ ctx'[Soft(d)].pc \notin {"rest", "check"}
    BY <1>0, <1>40, Kinds DEF napi_freed, Admin, NdTypeOK, ContextTypes, CtxTypes
  <2> QED BY <1>0, <2>1, <2>2, ListFrame
<1> QED BY <1>1, <1>2, <1>3, <1>4, <1>5, <1>6, <1>7, <1>8, <1>9, <1>10, <1>11, <1>12,
           <1>13, <1>14, <1>15, <1>16, <1>17, <1>18, <1>19, <1>20, <1>21, <1>22, <1>23, <1>24,
           <1>25, <1>26, <1>27, <1>28, <1>29, <1>30, <1>31, <1>32, <1>33, <1>34, <1>35, <1>36,
           <1>37, <1>38, <1>39, <1>40
        DEF Next, RxStep, PollStep, ThreadStep, BusyStep, AdminEnds

-------------------------------------------------------------------------------
(* SCHED has one owner.                                                     *)
LEMMA OwnerInvStep ==
  ASSUME Settings, NdInv, TimerEndsFirst, Next
  PROVE  OwnerInv'
<1>0. Settings /\ NdTypeOK /\ PlacesInv /\ OwnerInv /\ BusyInv /\ AdminInv /\ AbsentInv /\ ThreadInv /\ ListInv /\ TimerEndsFirst
  BY DEF NdInv
<1>1. ASSUME device_receives PROVE OwnerInv'
  BY <1>0, <1>1, Kinds
     DEF NdTypeOK, NapiTypes, ContextTypes, CtxTypes, OwnerInv, Polls, Holds,
         device_receives
<1>2. ASSUME NEW c \in NdCpus, napi_schedule(c) PROVE OwnerInv'
  BY <1>0, <1>2, Kinds
     DEF NdTypeOK, NapiTypes, ContextTypes, CtxTypes, OwnerInv, Polls, Holds,
         napi_schedule, PrepBits, PrepOwns
<1>3. ASSUME NEW c \in NdCpus, timer_expires(c) PROVE OwnerInv'
  BY <1>0, <1>3, Kinds
     DEF NdTypeOK, NapiTypes, ContextTypes, CtxTypes, OwnerInv, Polls, Holds,
         timer_expires
<1>4. ASSUME NEW c \in NdCpus, napi_watchdog(c) PROVE OwnerInv'
  BY <1>0, <1>4, Kinds
     DEF NdTypeOK, NapiTypes, ContextTypes, CtxTypes, OwnerInv, Polls, Holds,
         napi_watchdog, WatchdogOwns
<1>5. ASSUME NEW c \in NdCpus, rx_start(c) PROVE OwnerInv'
  BY <1>0, <1>5, Kinds
     DEF NdTypeOK, NapiTypes, ContextTypes, CtxTypes, OwnerInv, Polls, Holds,
         rx_start
<1>6. ASSUME NEW c \in NdCpus, rx_loop(c) PROVE OwnerInv'
  <2>1. /\ At(Soft(c), "loop") /\ UNCHANGED <<timer, kthread, admin, mode, hw, busied>>
        /\ LoopTakes(c) \/ LoopPunts(c) \/ LoopChecks(c)
    BY <1>6, LoopEffect
  <2>2. CASE LoopTakes(c)
    BY <1>0, Kinds, <2>1, <2>2
      DEF NdTypeOK, NapiTypes, ContextTypes, CtxTypes, OwnerInv, Polls, Holds, LoopTakes
  <2>3. CASE LoopPunts(c) \/ LoopChecks(c)
    <3>1. UNCHANGED napi /\ (ctx' = [ctx EXCEPT ![Soft(c)].pc = "punt"] \/ ctx' = [ctx EXCEPT ![Soft(c)].pc = "check"])
      BY <2>3 DEF LoopPunts, LoopChecks
    <3>2. \A x \in Contexts : Holds(x)' <=> Holds(x)
      BY <1>0, <2>1, <3>1, Kinds DEF NdTypeOK, ContextTypes, CtxTypes, Holds, Polls
    <3>3. Polls(Thread)' => Polls(Thread)
      BY <1>0, <2>1, <3>1, Kinds DEF NdTypeOK, ContextTypes, CtxTypes, Polls
    <3> QED BY <1>0, <3>1, <3>2, <3>3, OwnerFrame
  <2> QED BY <2>1, <2>2, <2>3
<1>7. ASSUME NEW c \in NdCpus, rx_check(c) PROVE OwnerInv'
  BY <1>0, <1>7, Kinds
     DEF NdTypeOK, NapiTypes, ContextTypes, CtxTypes, OwnerInv, Polls, Holds,
         rx_check, AfterCheck
<1>8. ASSUME NEW c \in NdCpus, NEW e \in BOOLEAN, rx_polled(c, e) PROVE OwnerInv'
  BY <1>0, <1>8, Kinds
     DEF NdTypeOK, NapiTypes, ContextTypes, CtxTypes, OwnerInv, Polls, Holds,
         rx_polled, Rest
<1>9. ASSUME NEW c \in NdCpus, rx_punt(c) PROVE OwnerInv'
  <2>1. \A x \in Contexts : Holds(x)' <=> Holds(x)
    BY <1>0, <1>9, Kinds DEF rx_punt, NdTypeOK, ContextTypes, CtxTypes, Holds, Polls
  <2>2. Polls(Thread)' => Polls(Thread)
    BY <1>0, <1>9, Kinds DEF rx_punt, NdTypeOK, ContextTypes, CtxTypes, Holds, Polls
  <2>3. /\ napi'.on = Nowhere <=> napi.on = Nowhere
        /\ \A b \in {"SCHED", "SCHED_THREADED", "NPSVC"} : b \in napi'.bits <=> b \in napi.bits
    BY <1>0, <1>9, Kinds DEF rx_punt, NdTypeOK, NapiTypes, Lists, Settings, Nowhere
  <2> QED BY <1>0, <2>1, <2>2, <2>3, OwnerFrame
<1>10. ASSUME NEW x \in Contexts, schedule_look(x) PROVE OwnerInv'
  BY <1>0, <1>10, Kinds
     DEF NdTypeOK, NapiTypes, ContextTypes, CtxTypes, OwnerInv, Polls, Holds,
         schedule_look
<1>11. ASSUME NEW x \in Contexts, schedule_put(x) PROVE OwnerInv'
  <2>1. Holds(x) /\ At(x, "put")
    BY <1>11 DEF schedule_put, Holds
  <2>2. /\ Has("SCHED") /\ ~Has("NPSVC") /\ ~Has("SCHED_THREADED") /\ napi.on = Nowhere
        /\ \A y \in Contexts \ {x} : ~Polls(y) /\ ~Holds(y)
    BY <1>0, <2>1, PollerAlone DEF OwnerInv
  <2>3. /\ \A y \in Contexts \ {x} : ctx'[y] = ctx[y]
        /\ ctx'[x].pc \in {"rest", "polled"} /\ ctx'[x].stop = ctx[x].stop
    BY <1>0, <1>11, PutEffect DEF NdTypeOK, ContextTypes, CtxTypes
  <2>4. x = Busy => ctx[x].stop
    BY <1>0, <2>1 DEF BusyInv
  <2>5. \A y \in Contexts : ~Polls(y)' /\ ~Holds(y)'
    BY <2>2, <2>3, <2>4 DEF Polls, Holds
  <2>6. CASE ctx[x].to = "thread"
    <3>1. napi' = [napi EXCEPT !.bits = (napi.bits \ {}) \cup {"SCHED_THREADED"}]
      BY <1>0, <1>11, <2>6, PutEffect
    <3>2. /\ "SCHED" \in napi'.bits /\ "SCHED_THREADED" \in napi'.bits /\ "NPSVC" \notin napi'.bits
          /\ napi'.on = Nowhere
      BY <1>0, <2>2, <3>1 DEF NdTypeOK, NapiTypes
    <3> QED BY Kinds, <2>5, <3>2 DEF OwnerInv
  <2>7. CASE ctx[x].to = "list"
    <3>1. \E c \in NdCpus : napi' = [napi EXCEPT !.on = <<c, "sd">>]
      BY <1>0, <1>11, <2>7, PutEffect
    <3>2. napi'.bits = napi.bits /\ napi'.on # Nowhere
      BY <1>0, <3>1, Kinds DEF NdTypeOK, NapiTypes
    <3> QED BY Kinds, <2>2, <2>5, <3>2 DEF OwnerInv
  <2> QED BY <1>0, <1>11, <2>6, <2>7, PutEffect
<1>12. ASSUME NEW x \in Contexts, poll(x) PROVE OwnerInv'
  <2>1. /\ UNCHANGED napi /\ At(x, "poll")
        /\ \A y \in Contexts \ {x} : ctx'[y] = ctx[y]
    BY <1>0, <1>12 DEF poll, NdTypeOK, ContextTypes
  <2>2. ctx'[x].pc \in {"full", "complete"}
    BY <1>0, <1>12 DEF poll, NdTypeOK, ContextTypes, CtxTypes
  <2>3. \A y \in Contexts : (Polls(y)' <=> Polls(y)) /\ (Holds(y)' <=> Holds(y))
    BY <2>1, <2>2 DEF Polls, Holds
  <2> QED BY <1>0, <2>1, <2>3, Kinds, OwnerFrame
<1>13. ASSUME NEW x \in Contexts, NEW held \in BOOLEAN, napi_complete_done(x, held) PROVE OwnerInv'
  <2>1. At(x, "complete") /\ UNCHANGED <<timer, sd, kthread, admin, mode, hw, busied>>
    BY <1>0, <1>13, CompleteEffect
  <2>2. x \in Pollers
    BY <1>0, <2>1, PollerOf
  <2>3. CASE CompleteKeeps(x)
    <3>1. /\ \A y \in Contexts \ {x} : ctx'[y] = ctx[y]
          /\ ctx'[x].pc = "polled" /\ ctx'[x].stop = ctx[x].stop /\ UNCHANGED napi
      BY <1>0, <2>3 DEF CompleteKeeps, NdTypeOK, ContextTypes, CtxTypes
    <3>2. Polls(x) /\ (Has("NPSVC") \/ Has("IN_BUSY_POLL"))
      BY <2>1, <2>3 DEF Polls, CompleteKeeps, CompleteRefused
    <3>3. x = Thread \/ (x = Busy /\ ~ctx[Busy].stop)
      <4>1. ASSUME x # Thread PROVE x = Busy /\ ~ctx[Busy].stop
        <5>1. Holds(x)
          BY <3>2, <4>1 DEF Holds
        <5>2. Polls(Busy) /\ ~ctx[Busy].stop
          BY <1>0, <3>2, <5>1 DEF OwnerInv, BusyInv
        <5> QED BY <1>0, <3>2, <5>2, PollerAlone, Kinds
      <4> QED BY <4>1
    <3>4. \A y \in Contexts : Holds(y)' <=> Holds(y)
      BY <2>1, <3>1, <3>3, Kinds DEF Holds, Polls
    <3>5. Polls(Thread)' => Polls(Thread)
      BY <2>1, <3>1, Kinds DEF Polls
    <3> QED BY <1>0, <3>1, <3>4, <3>5, OwnerFrame
  <2>4. ASSUME NEW n \in Int, CompleteLeaves(x, n) PROVE OwnerInv'
    BY <1>0, Kinds, <2>1, <2>2, <2>4
      DEF NdTypeOK, NapiTypes, ContextTypes, CtxTypes, OwnerInv, Polls, Holds, CompleteLeaves,
          CompleteRefused
  <2> QED BY <1>0, <1>13, <2>3, <2>4, CompleteEffect
<1>14. ASSUME NEW x \in Contexts, complete_cmpxchg(x) PROVE OwnerInv'
  <2>1. At(x, "cmpxchg") /\ Polls(x)
    BY <1>14 DEF complete_cmpxchg, Polls
  <2>2. /\ Has("SCHED") /\ ~Has("NPSVC") /\ napi.on = Nowhere
        /\ \A y \in Contexts \ {x} : ~Polls(y) /\ ~Holds(y)
    BY <1>0, <2>1, PollerAlone
  <2>3. /\ napi'.on = napi.on /\ "SCHED_THREADED" \notin napi'.bits /\ "NPSVC" \notin napi'.bits
        /\ "SCHED" \in napi'.bits <=> Has("MISSED")
    BY <1>0, <1>14, <2>2 DEF complete_cmpxchg, PollAgain, NdTypeOK, NapiTypes
  <2>4. \A y \in Contexts \ {x} : ctx'[y] = ctx[y]
    BY <1>0, <1>14 DEF complete_cmpxchg, NdTypeOK, ContextTypes
  <2>5. \A y \in Contexts \ {x} : ~Polls(y)' /\ ~Holds(y)'
    BY <2>2, <2>4 DEF Polls, Holds
  <2>6. CASE Has("MISSED")
    <3>1. ctx' = [ctx EXCEPT ![x].pc = "look", ![x].ret = ctx[x].ret /\ ~Has("MISSED")]
      BY <1>14, <2>6 DEF complete_cmpxchg, PollAgain
    <3>2. ctx'[x].pc = "look"
      BY <1>0, <3>1 DEF NdTypeOK, ContextTypes, CtxTypes
    <3>3. Holds(x)' /\ ~Polls(x)'
      BY <3>2 DEF Polls, Holds
    <3> QED BY <2>2, <2>3, <2>5, <2>6, <3>3, Kinds DEF OwnerInv
  <2>7. CASE ~Has("MISSED")
    <3>1. ctx'[x].pc \in {"arm", "ret"}
      BY <1>0, <1>14, <2>7 DEF complete_cmpxchg, PollAgain, NdTypeOK, ContextTypes, CtxTypes
    <3>2. ~Holds(x)' /\ ~Polls(x)'
      BY <3>1 DEF Polls, Holds
    <3> QED BY <2>2, <2>3, <2>5, <2>7, <3>2, Kinds DEF OwnerInv
  <2> QED BY <2>6, <2>7
<1>15. ASSUME NEW x \in Contexts, hrtimer_start(x) PROVE OwnerInv'
  BY <1>0, <1>15, Kinds
     DEF NdTypeOK, NapiTypes, ContextTypes, CtxTypes, OwnerInv, Polls, Holds,
         hrtimer_start
<1>16. ASSUME NEW x \in Contexts, complete_returns(x) PROVE OwnerInv'
  <2>1. /\ At(x, "ret") /\ \A y \in Contexts \ {x} : ctx'[y] = ctx[y]
        /\ ctx'[x].stop = ctx[x].stop
    BY <1>0, <1>16 DEF complete_returns, NdTypeOK, ContextTypes, CtxTypes
  <2>2. (x = Busy => ctx[x].stop) /\ ~Holds(x) /\ ~Polls(x)
    BY <1>0, <2>1 DEF BusyInv, Holds, Polls
  <2>3. CASE ctx'[x].pc = "polled" /\ \A b \in {"SCHED", "SCHED_THREADED", "NPSVC"} : b \in napi'.bits <=> b \in napi.bits
    <3>1. \A y \in Contexts : Holds(y)' <=> Holds(y)
      BY <2>1, <2>2, <2>3 DEF Holds, Polls
    <3>2. Polls(Thread)' => Polls(Thread)
      BY <2>1, <2>2, <2>3, Kinds DEF Polls
    <3>3. napi'.on = napi.on
      BY <1>0, <1>16 DEF complete_returns, NdTypeOK, NapiTypes
    <3> QED BY <1>0, <2>3, <3>1, <3>2, <3>3, OwnerFrame
  <2>4. CASE ctx'[x].pc = "look" /\ PrepOwns /\ napi' = [napi EXCEPT !.bits = (napi.bits \ {}) \cup PrepBits]
    <3>1. \A y \in Contexts : ~Polls(y) /\ ~Holds(y)
      BY <1>0, <2>4, NobodyThere DEF PrepOwns
    <3>2. napi.on = Nowhere /\ ~Has("SCHED_THREADED") /\ ~Has("NPSVC")
      BY <1>0, <2>4, NobodyThere DEF PrepOwns, OwnerInv
    <3>3. /\ napi'.on = Nowhere /\ "SCHED_THREADED" \notin napi'.bits /\ "NPSVC" \notin napi'.bits
          /\ "SCHED" \in napi'.bits
      BY <1>0, <2>4, <3>2 DEF PrepOwns, PrepBits, NdTypeOK, NapiTypes
    <3>4. /\ \A y \in Contexts : Holds(y)' <=> y = x
          /\ ~Polls(Thread)'
      BY <2>1, <2>4, <3>1, Kinds DEF Holds, Polls
    <3> QED BY <3>3, <3>4 DEF OwnerInv
  <2>5. \/ ctx'[x].pc = "polled" /\ \A b \in {"SCHED", "SCHED_THREADED", "NPSVC"} : b \in napi'.bits <=> b \in napi.bits
        \/ ctx'[x].pc = "look" /\ PrepOwns /\ napi' = [napi EXCEPT !.bits = (napi.bits \ {}) \cup PrepBits]
    <3> DEFINE again == ctx[x].ret /\ ctx[x].then = "prefer"
    <3>1. CASE again /\ PrepOwns
      BY <1>0, <1>16, <3>1 DEF complete_returns, NdTypeOK, ContextTypes, CtxTypes
    <3>2. CASE ~again
      <4>1. UNCHANGED napi /\ ctx' = [ctx EXCEPT ![x].pc = "polled"]
        BY <1>16, <3>2 DEF complete_returns
      <4> QED BY <1>0, <4>1 DEF NdTypeOK, ContextTypes, CtxTypes
    <3>3. CASE again /\ ~PrepOwns
      <4>1. napi' = [napi EXCEPT !.bits = (napi.bits \ {}) \cup PrepBits] /\ ctx' = [ctx EXCEPT ![x].pc = "polled"]
        BY <1>16, <3>3 DEF complete_returns
      <4>2. \A b \in {"SCHED", "SCHED_THREADED", "NPSVC"} : b \in napi'.bits <=> b \in napi.bits
        BY <1>0, <3>3, <4>1 DEF PrepOwns, PrepBits, NdTypeOK, NapiTypes
      <4> QED BY <1>0, <4>1, <4>2 DEF NdTypeOK, ContextTypes, CtxTypes
    <3> QED BY <3>1, <3>2, <3>3
  <2> QED BY <2>3, <2>4, <2>5
<1>17. ASSUME NEW x \in Contexts, poll_full(x) PROVE OwnerInv'
  <2>1. /\ UNCHANGED napi /\ At(x, "full") /\ x # Busy
        /\ \A y \in Contexts \ {x} : ctx'[y] = ctx[y]
    BY <1>0, <1>17 DEF poll_full, NdTypeOK, ContextTypes
  <2>2. ctx'[x].pc \in {"repoll", "complete"}
    BY <1>0, <1>17 DEF poll_full, NdTypeOK, ContextTypes, CtxTypes
  <2>3. \A y \in Contexts : (Polls(y)' <=> Polls(y)) /\ (Holds(y)' <=> Holds(y))
    BY <2>1, <2>2 DEF Polls, Holds
  <2> QED BY <1>0, <2>1, <2>3, Kinds, OwnerFrame
<1>18. ASSUME napi_thread_wait PROVE OwnerInv'
  BY <1>0, <1>18, Kinds, WaitEffect DEF NdTypeOK, NapiTypes, ContextTypes, CtxTypes, OwnerInv, Polls, Holds
<1>19. ASSUME threaded_want PROVE OwnerInv'
  BY <1>0, <1>19, Kinds
     DEF NdTypeOK, NapiTypes, ContextTypes, CtxTypes, OwnerInv, Polls, Holds,
         threaded_want, WantBusyPoll
<1>20. ASSUME threaded_assign PROVE OwnerInv'
  BY <1>0, <1>20, Kinds
     DEF NdTypeOK, NapiTypes, ContextTypes, CtxTypes, OwnerInv, Polls, Holds,
         threaded_assign
<1>21. ASSUME threaded_polled PROVE OwnerInv'
  BY <1>0, <1>21, Kinds
     DEF NdTypeOK, NapiTypes, ContextTypes, CtxTypes, OwnerInv, Polls, Holds,
         threaded_polled
<1>22. ASSUME busy_begins PROVE OwnerInv'
  BY <1>0, <1>22, Kinds
     DEF NdTypeOK, NapiTypes, ContextTypes, CtxTypes, OwnerInv, Polls, Holds,
         busy_begins
<1>23. ASSUME busy_try PROVE OwnerInv'
  BY <1>0, <1>23, Kinds
     DEF NdTypeOK, NapiTypes, ContextTypes, CtxTypes, OwnerInv, Polls, Holds,
         busy_try
<1>24. ASSUME NEW again \in BOOLEAN, busy_round(again) PROVE OwnerInv'
  BY <1>0, <1>24, Kinds
     DEF NdTypeOK, NapiTypes, ContextTypes, CtxTypes, OwnerInv, Polls, Holds,
         busy_round
<1>25. ASSUME busy_poll_stop PROVE OwnerInv'
  BY <1>0, <1>25, Kinds
     DEF NdTypeOK, NapiTypes, ContextTypes, CtxTypes, OwnerInv, Polls, Holds,
         busy_poll_stop
<1>26. ASSUME busy_last_poll PROVE OwnerInv'
  BY <1>0, <1>26, Kinds
     DEF NdTypeOK, NapiTypes, ContextTypes, CtxTypes, OwnerInv, Polls, Holds,
         busy_last_poll
<1>27. ASSUME busy_stopped_full PROVE OwnerInv'
  BY <1>0, <1>27, Kinds, FullEffect DEF NdTypeOK, NapiTypes, ContextTypes, CtxTypes, OwnerInv, Polls, Holds
<1>28. ASSUME busy_ends PROVE OwnerInv'
  BY <1>0, <1>28, Kinds
     DEF NdTypeOK, NapiTypes, ContextTypes, CtxTypes, OwnerInv, Polls, Holds,
         busy_ends, Rest
<1>29. ASSUME netif_napi_add PROVE OwnerInv'
  <2>1. \A x \in Contexts : ctx[x].pc \in {"rest", "loop", "check"}
    BY <1>0, <1>29 DEF AbsentInv, netif_napi_add
  <2>2. \A x \in Contexts : ctx'[x].pc \in {"rest", "loop", "check", "wait"}
    BY <1>0, <1>29, <2>1, Kinds DEF netif_napi_add, CreateThread, Rest, NdTypeOK, ContextTypes
  <2>3. \A x \in Contexts : ~Polls(x)' /\ ~Holds(x)'
    BY <2>2 DEF Polls, Holds
  <2>4. /\ napi'.on = Nowhere /\ "SCHED_THREADED" \notin napi'.bits /\ "NPSVC" \in napi'.bits
        /\ "SCHED" \in napi'.bits
    BY <1>29 DEF netif_napi_add
  <2> QED BY <2>3, <2>4, Kinds DEF OwnerInv
<1>30. ASSUME napi_enable PROVE OwnerInv'
  <2>1. Has("NPSVC")
    BY <1>0, <1>30 DEF AdminInv, napi_enable
  <2>2. (\A x \in Contexts : ~Polls(x) /\ ~Holds(x)) /\ napi.on = Nowhere /\ ~Has("SCHED_THREADED")
    BY <1>0, <2>1, NobodyThere
  <2>3. (\A x \in Contexts : ~Polls(x)' /\ ~Holds(x)')
    BY <1>30, <2>2 DEF napi_enable, Polls, Holds
  <2>4. /\ napi'.on = Nowhere /\ "SCHED_THREADED" \notin napi'.bits /\ "NPSVC" \notin napi'.bits
        /\ "SCHED" \notin napi'.bits
    BY <1>0, <1>30, <2>2 DEF napi_enable, ModeBits, NdTypeOK, NapiTypes
  <2> QED BY <2>3, <2>4, Kinds DEF OwnerInv
<1>31. ASSUME disable_begins PROVE OwnerInv'
  BY <1>0, <1>31, Kinds
     DEF NdTypeOK, NapiTypes, ContextTypes, CtxTypes, OwnerInv, Polls, Holds,
         disable_begins, Begin
<1>32. ASSUME disable_takes PROVE OwnerInv'
  BY <1>0, <1>32, Kinds
     DEF NdTypeOK, NapiTypes, ContextTypes, CtxTypes, OwnerInv, Polls, Holds,
         disable_takes, MayDisable, Admin
<1>33. ASSUME hrtimer_cancel PROVE OwnerInv'
  BY <1>0, <1>33, Kinds
     DEF NdTypeOK, NapiTypes, ContextTypes, CtxTypes, OwnerInv, Polls, Holds,
         hrtimer_cancel, Admin
<1>34. ASSUME disable_ends PROVE OwnerInv'
  BY <1>0, <1>34, Kinds
     DEF NdTypeOK, NapiTypes, ContextTypes, CtxTypes, OwnerInv, Polls, Holds,
         disable_ends, Admin
<1>35. ASSUME NEW m \in Modes, netif_set_threaded(m) PROVE OwnerInv'
  <2>1. \A x \in Contexts \ {Thread} : ctx'[x] = ctx[x]
    BY <1>0, <1>35, SwitchEffect
  <2>2. ctx' = ctx \/ (~kthread.there /\ ctx'[Thread].pc = "wait")
    BY <1>0, <1>35, SwitchEffect
  <2>3. ~kthread.there => ctx[Thread].pc = "rest"
    BY <1>0 DEF ThreadInv
  <2>4. \A x \in Contexts : Holds(x)' <=> Holds(x)
    BY <2>1, <2>2, <2>3, Kinds DEF Holds, Polls
  <2>5. Polls(Thread)' => Polls(Thread)
    BY <2>2, Kinds DEF Polls
  <2>6. /\ napi'.on = napi.on
        /\ \A b \in {"SCHED", "SCHED_THREADED", "NPSVC"} : b \in napi'.bits <=> b \in napi.bits
    BY <1>0, <1>35, SwitchEffect
  <2> QED BY <1>0, <2>4, <2>5, <2>6, OwnerFrame
<1>36. ASSUME stop_unset PROVE OwnerInv'
  BY <1>0, <1>36, Kinds
     DEF NdTypeOK, NapiTypes, ContextTypes, CtxTypes, OwnerInv, Polls, Holds,
         stop_unset, MayUnset, Admin
<1>37. ASSUME kthread_stop PROVE OwnerInv'
  BY <1>0, <1>37, Kinds
     DEF NdTypeOK, NapiTypes, ContextTypes, CtxTypes, OwnerInv, Polls, Holds,
         kthread_stop
<1>38. ASSUME thread_stopped PROVE OwnerInv'
  BY <1>0, <1>38, Kinds
     DEF NdTypeOK, NapiTypes, ContextTypes, CtxTypes, OwnerInv, Polls, Holds,
         thread_stopped, Settled, Admin
<1>39. ASSUME netif_napi_del PROVE OwnerInv'
  BY <1>0, <1>39, Kinds
     DEF NdTypeOK, NapiTypes, ContextTypes, CtxTypes, OwnerInv, Polls, Holds,
         netif_napi_del, Begin
<1>40. ASSUME napi_freed PROVE OwnerInv'
  <2>1. Has("NPSVC")
    BY <1>0, <1>40 DEF AdminInv, napi_freed
  <2>2. (\A x \in Contexts : ~Polls(x) /\ ~Holds(x))
    BY <1>0, <2>1, NobodyThere
  <2>3. (\A x \in Contexts : ~Polls(x)' /\ ~Holds(x)') /\ napi'.bits = {} /\ napi'.on = Nowhere
    BY <1>40, <2>2 DEF napi_freed, Polls, Holds
  <2> QED BY <2>3, Kinds DEF OwnerInv
<1> QED BY <1>1, <1>2, <1>3, <1>4, <1>5, <1>6, <1>7, <1>8, <1>9, <1>10, <1>11, <1>12,
           <1>13, <1>14, <1>15, <1>16, <1>17, <1>18, <1>19, <1>20, <1>21, <1>22, <1>23, <1>24,
           <1>25, <1>26, <1>27, <1>28, <1>29, <1>30, <1>31, <1>32, <1>33, <1>34, <1>35, <1>36,
           <1>37, <1>38, <1>39, <1>40
        DEF Next, RxStep, PollStep, ThreadStep, BusyStep, AdminEnds

-------------------------------------------------------------------------------
(* No event is lost.                                                        *)
LEMMA EventInvStep ==
  ASSUME Settings, NdInv, TimerEndsFirst, Next
  PROVE  EventInv'
<1>0. Settings /\ NdTypeOK /\ PlacesInv /\ OwnerInv /\ BusyInv /\ AdminInv /\ AbsentInv /\ ThreadInv /\ EventInv /\ TimerEndsFirst
  BY DEF NdInv
<1>1. ASSUME device_receives PROVE EventInv'
  BY <1>0, <1>1, Kinds
     DEF NdTypeOK, NapiTypes, TimerTypes, DeviceTypes, ContextTypes, CtxTypes, EventInv, Covered,
         WillUnmask,
         device_receives
<1>2. ASSUME NEW c \in NdCpus, napi_schedule(c) PROVE EventInv'
  <2>1. /\ napi'.hashed = napi.hashed /\ timer' = timer /\ hw'.ring = hw.ring /\ hw'.edge = hw.edge
        /\ Has("DISABLE") => napi'.bits = napi.bits
        /\ ~Has("DISABLE") => "SCHED" \in napi'.bits /\ (Has("SCHED") => "MISSED" \in napi'.bits)
    BY <1>0, <1>2 DEF napi_schedule, PrepBits, NdTypeOK, NapiTypes, DeviceTypes
  <2>2. \A y \in Contexts : ctx'[y].pc \in {"complete", "cmpxchg"} => ctx'[y] = ctx[y]
    BY <1>0, <1>2, Kinds DEF napi_schedule, NdTypeOK, ContextTypes, CtxTypes
  <2>3. \A y \in Contexts : ctx[y].pc \in {"complete", "cmpxchg"} => Has("SCHED")
    BY <1>0, PollerAlone DEF Polls
  <2>4. CASE Has("DISABLE")
    BY <1>0, <2>1, <2>2, <2>4 DEF EventInv
  <2>5. CASE ~Has("DISABLE")
    <3>1. Covered'
      BY <2>1, <2>5 DEF Covered
    <3> QED BY <1>0, <2>1, <2>2, <2>3, <2>5, <3>1 DEF EventInv
  <2> QED BY <2>4, <2>5
<1>3. ASSUME NEW c \in NdCpus, timer_expires(c) PROVE EventInv'
  <2>1. /\ UNCHANGED <<napi, ctx, hw>> /\ timer.armed
        /\ timer' = [armed |-> FALSE, cb |-> c, looked |-> ~Has("DISABLE")]
    BY <1>3 DEF timer_expires
  <2>2. c # 0
    BY <1>0 DEF Settings
  <2>3. ~Has("DISABLE") => timer'.cb # 0 /\ timer'.looked
    BY <2>1, <2>2
  <2>4. ~Has("DISABLE") => Covered'
    BY <2>3 DEF Covered
  <2> QED BY <1>0, <2>1, <2>4 DEF EventInv
<1>4. ASSUME NEW c \in NdCpus, napi_watchdog(c) PROVE EventInv'
  <2>1. UNCHANGED hw /\ timer.cb = c /\ timer' = [timer EXCEPT !.cb = 0]
    BY <1>4 DEF napi_watchdog
  <2>2. CASE timer.looked /\ ~Has("SCHED")
    <3>1. /\ napi' = [napi EXCEPT !.bits = (napi.bits \ {"PREFER_BUSY_POLL"}) \cup {"SCHED"}]
          /\ ctx' = [ctx EXCEPT ![Irq(c)].pc = "look"]
      BY <1>4, <2>2 DEF napi_watchdog, WatchdogOwns
    <3>2. /\ "SCHED" \in napi'.bits /\ ("DISABLE" \in napi'.bits <=> Has("DISABLE"))
          /\ "MISSED" \in napi'.bits <=> Has("MISSED")
      BY <1>0, <3>1 DEF NdTypeOK, NapiTypes
    <3>3. \A y \in Contexts : ctx'[y].pc \in {"complete", "cmpxchg"} => ctx'[y] = ctx[y]
      BY <1>0, <3>1, Kinds DEF NdTypeOK, ContextTypes, CtxTypes
    <3>4. Covered'
      BY <3>2 DEF Covered
    <3> QED BY <1>0, <2>1, <3>2, <3>3, <3>4 DEF EventInv
  <2>3. CASE ~(timer.looked /\ ~Has("SCHED"))
    <3>1. UNCHANGED <<napi, ctx>>
      BY <1>4, <2>3 DEF napi_watchdog, WatchdogOwns
    <3>2. timer'.armed = timer.armed
      BY <1>0, <2>1 DEF NdTypeOK, TimerTypes
    <3>3. Covered => Covered'
      BY <2>1, <2>3, <3>1, <3>2 DEF Covered, WillUnmask
    <3> QED BY <1>0, <2>1, <3>1, <3>3 DEF EventInv
  <2> QED BY <2>2, <2>3
<1>5. ASSUME NEW c \in NdCpus, rx_start(c) PROVE EventInv'
  <2>1. /\ hw' = hw /\ timer' = timer /\ napi'.hashed = napi.hashed
        /\ \A b \in {"SCHED", "DISABLE", "MISSED"} : b \in napi'.bits <=> b \in napi.bits
    BY <1>0, <1>5 DEF rx_start, NdTypeOK, NapiTypes
  <2>2. \A y \in Contexts : (\/ ctx[y].pc \in {"arm", "ret"}
                             \/ ctx'[y].pc \in {"complete", "cmpxchg", "arm", "ret"}) => ctx'[y] = ctx[y]
    BY <1>0, <1>5, Kinds DEF rx_start, NdTypeOK, ContextTypes, CtxTypes
  <2> QED BY <1>0, <2>1, <2>2, EventFrame
<1>6. ASSUME NEW c \in NdCpus, rx_loop(c) PROVE EventInv'
  <2>1. /\ hw' = hw /\ timer' = timer /\ napi'.hashed = napi.hashed
        /\ \A b \in {"SCHED", "DISABLE", "MISSED"} : b \in napi'.bits <=> b \in napi.bits
    BY <1>0, <1>6, LoopEffect DEF LoopTakes, LoopPunts, LoopChecks, NdTypeOK, NapiTypes
  <2>2. \A y \in Contexts : (\/ ctx[y].pc \in {"arm", "ret"}
                             \/ ctx'[y].pc \in {"complete", "cmpxchg", "arm", "ret"}) => ctx'[y] = ctx[y]
    BY <1>0, <1>6, Kinds, LoopEffect DEF LoopTakes, LoopPunts, LoopChecks, NdTypeOK, ContextTypes, CtxTypes
  <2> QED BY <1>0, <2>1, <2>2, EventFrame
<1>7. ASSUME NEW c \in NdCpus, rx_check(c) PROVE EventInv'
  <2>1. /\ hw' = hw /\ timer' = timer /\ napi'.hashed = napi.hashed
        /\ \A b \in {"SCHED", "DISABLE", "MISSED"} : b \in napi'.bits <=> b \in napi.bits
    BY <1>0, <1>7 DEF rx_check, AfterCheck, NdTypeOK, NapiTypes
  <2>2. \A y \in Contexts : (\/ ctx[y].pc \in {"arm", "ret"}
                             \/ ctx'[y].pc \in {"complete", "cmpxchg", "arm", "ret"}) => ctx'[y] = ctx[y]
    BY <1>0, <1>7, Kinds DEF rx_check, AfterCheck, NdTypeOK, ContextTypes, CtxTypes
  <2> QED BY <1>0, <2>1, <2>2, EventFrame
<1>8. ASSUME NEW c \in NdCpus, NEW e \in BOOLEAN, rx_polled(c, e) PROVE EventInv'
  <2>1. /\ hw' = hw /\ timer' = timer /\ napi'.hashed = napi.hashed
        /\ \A b \in {"SCHED", "DISABLE", "MISSED"} : b \in napi'.bits <=> b \in napi.bits
    BY <1>0, <1>8 DEF rx_polled, Rest, NdTypeOK, NapiTypes
  <2>2. \A y \in Contexts : (\/ ctx[y].pc \in {"arm", "ret"}
                             \/ ctx'[y].pc \in {"complete", "cmpxchg", "arm", "ret"}) => ctx'[y] = ctx[y]
    BY <1>0, <1>8, Kinds DEF rx_polled, Rest, NdTypeOK, ContextTypes, CtxTypes
  <2> QED BY <1>0, <2>1, <2>2, EventFrame
<1>9. ASSUME NEW c \in NdCpus, rx_punt(c) PROVE EventInv'
  <2>1. /\ hw' = hw /\ timer' = timer /\ napi'.hashed = napi.hashed
        /\ \A b \in {"SCHED", "DISABLE", "MISSED"} : b \in napi'.bits <=> b \in napi.bits
    BY <1>0, <1>9 DEF rx_punt, NdTypeOK, NapiTypes
  <2>2. \A y \in Contexts : (\/ ctx[y].pc \in {"arm", "ret"}
                             \/ ctx'[y].pc \in {"complete", "cmpxchg", "arm", "ret"}) => ctx'[y] = ctx[y]
    BY <1>0, <1>9, Kinds DEF rx_punt, NdTypeOK, ContextTypes, CtxTypes
  <2> QED BY <1>0, <2>1, <2>2, EventFrame
<1>10. ASSUME NEW x \in Contexts, schedule_look(x) PROVE EventInv'
  <2>1. /\ hw' = hw /\ timer' = timer /\ napi'.hashed = napi.hashed
        /\ \A b \in {"SCHED", "DISABLE", "MISSED"} : b \in napi'.bits <=> b \in napi.bits
    BY <1>0, <1>10 DEF schedule_look, NdTypeOK, NapiTypes
  <2>2. \A y \in Contexts : (\/ ctx[y].pc \in {"arm", "ret"}
                             \/ ctx'[y].pc \in {"complete", "cmpxchg", "arm", "ret"}) => ctx'[y] = ctx[y]
    BY <1>0, <1>10, Kinds DEF schedule_look, NdTypeOK, ContextTypes, CtxTypes
  <2> QED BY <1>0, <2>1, <2>2, EventFrame
<1>11. ASSUME NEW x \in Contexts, schedule_put(x) PROVE EventInv'
  <2>1. /\ hw' = hw /\ timer' = timer /\ napi'.hashed = napi.hashed
        /\ \A b \in {"SCHED", "DISABLE", "MISSED"} : b \in napi'.bits <=> b \in napi.bits
    BY <1>0, <1>11, PutEffect DEF NdTypeOK, NapiTypes
  <2>2. \A y \in Contexts : (\/ ctx[y].pc \in {"arm", "ret"}
                             \/ ctx'[y].pc \in {"complete", "cmpxchg", "arm", "ret"}) => ctx'[y] = ctx[y]
    BY <1>0, <1>11, Kinds, PutEffect DEF NdTypeOK, ContextTypes, CtxTypes
  <2> QED BY <1>0, <2>1, <2>2, EventFrame
<1>12. ASSUME NEW x \in Contexts, poll(x) PROVE EventInv'
  <2> DEFINE w == IF hw.ring < WEIGHT THEN hw.ring ELSE WEIGHT
             p == IF w = WEIGHT THEN "full" ELSE "complete"
             d == w > 0
  <2>1. /\ ctx' = [ctx EXCEPT ![x].pc = p, ![x].done = d, ![x].then = "driver"]
        /\ hw' = [hw EXCEPT !.ring = hw.ring - w] /\ UNCHANGED <<napi, timer>> /\ At(x, "poll")
    BY <1>12 DEF poll
  <2>2. /\ hw'.edge = hw.edge /\ hw'.irq = hw.irq /\ hw'.ring = hw.ring - w
    BY <1>0, <2>1 DEF NdTypeOK, DeviceTypes
  <2>3. p \in {"full", "complete"} /\ d \in BOOLEAN /\ (p = "complete" => hw'.ring = 0)
    BY <1>0, <2>2 DEF Settings, NdTypeOK, DeviceTypes
  <2>4. Has("SCHED") /\ \A y \in Contexts \ {x} : ~Polls(y)
    BY <1>0, <2>1, PollerAlone DEF Polls
  <2> HIDE DEF p, d
  <2>5. /\ \A y \in Contexts \ {x} : ctx'[y] = ctx[y]
        /\ ctx'[x] = [ctx[x] EXCEPT !.pc = p, !.done = d, !.then = "driver"]
    BY <1>0, <2>1 DEF NdTypeOK, ContextTypes
  <2>6. ctx'[x].pc = p /\ ctx'[x].then = "driver"
    BY <1>0, <2>5 DEF NdTypeOK, ContextTypes, CtxTypes
  <2>7. \A y \in Contexts : ctx'[y].pc \in {"complete", "cmpxchg"} => y = x /\ p = "complete"
    BY <2>3, <2>4, <2>5, <2>6 DEF Polls
  <2>8. Covered'
    BY <2>1, <2>4 DEF Covered
  <2>9. \A y \in Contexts : ctx'[y].pc \in {"complete", "cmpxchg"} =>
          ctx'[y].pc = "complete" /\ ctx'[y].then = "driver" /\ ~(hw'.ring > 0)
    BY <2>3, <2>6, <2>7
  <2> QED BY <2>8, <2>9 DEF EventInv
<1>13. ASSUME NEW x \in Contexts, NEW held \in BOOLEAN, napi_complete_done(x, held) PROVE EventInv'
  <2>1. At(x, "complete") /\ UNCHANGED <<timer, hw>>
    BY <1>0, <1>13, CompleteEffect
  <2>2. Has("SCHED") /\ \A y \in Contexts \ {x} : ~Polls(y)
    BY <1>0, <2>1, PollerAlone DEF Polls
  <2>3. CASE CompleteKeeps(x)
    <3>1. UNCHANGED napi /\ (\A y \in Contexts \ {x} : ctx'[y] = ctx[y]) /\ ctx'[x].pc = "polled"
      BY <1>0, <2>3 DEF CompleteKeeps, NdTypeOK, ContextTypes, CtxTypes
    <3>2. \A y \in Contexts : ctx'[y].pc \notin {"complete", "cmpxchg"}
      BY <2>2, <3>1 DEF Polls
    <3>3. Covered'
      BY <2>2, <3>1 DEF Covered
    <3> QED BY <3>2, <3>3 DEF EventInv
  <2>4. ASSUME NEW n \in Int, CompleteLeaves(x, n) PROVE EventInv'
    <3>1. napi'.bits = napi.bits
      BY <1>0, <2>4 DEF CompleteLeaves, NdTypeOK, NapiTypes
    <3>2. \A y \in Contexts : ctx'[y].pc \in {"complete", "cmpxchg"} => y = x
      BY <2>2, <2>4 DEF CompleteLeaves, Polls
    <3>3. Covered'
      BY <2>2, <3>1 DEF Covered
    <3>4. ctx'[x].then = ctx[x].then /\ (ctx'[x].timeout \/ ctx'[x].ret)
      BY <2>4 DEF CompleteLeaves
    <3> QED BY <1>0, <2>1, <3>1, <3>2, <3>3, <3>4 DEF EventInv
  <2> QED BY <1>0, <1>13, <2>3, <2>4, CompleteEffect
<1>14. ASSUME NEW x \in Contexts, complete_cmpxchg(x) PROVE EventInv'
  <2>1. /\ At(x, "cmpxchg") /\ UNCHANGED <<timer, hw>> /\ napi'.hashed = napi.hashed
        /\ "DISABLE" \in napi'.bits <=> Has("DISABLE")
        /\ Has("MISSED") => "SCHED" \in napi'.bits
    BY <1>0, <1>14 DEF complete_cmpxchg, PollAgain, NdTypeOK, NapiTypes
  <2>2. \A y \in Contexts \ {x} : ~Polls(y)
    BY <1>0, <2>1, PollerAlone DEF Polls
  <2>3. \A y \in Contexts \ {x} : ctx'[y] = ctx[y]
    BY <1>0, <1>14 DEF complete_cmpxchg, NdTypeOK, ContextTypes
  <2>4. ctx'[x].pc \in {"look", "arm", "ret"}
    BY <1>0, <1>14 DEF complete_cmpxchg, PollAgain, NdTypeOK, ContextTypes, CtxTypes
  <2>5. \A y \in Contexts : ctx'[y].pc \notin {"complete", "cmpxchg"}
    BY <2>2, <2>3, <2>4 DEF Polls
  <2>6. CASE Has("MISSED")
    BY <2>1, <2>5, <2>6 DEF EventInv, Covered
  <2>7. CASE ~Has("MISSED") /\ ctx[x].timeout
    <3>1. ctx' = [ctx EXCEPT ![x].pc = "arm", ![x].ret = ctx[x].ret /\ ~Has("MISSED")]
      BY <1>14, <2>7 DEF complete_cmpxchg, PollAgain
    <3>2. ctx'[x].pc = "arm"
      BY <1>0, <3>1 DEF NdTypeOK, ContextTypes, CtxTypes
    <3> QED BY <2>5, <3>2 DEF EventInv, Covered, WillUnmask
  <2>8. CASE ~Has("MISSED") /\ ~ctx[x].timeout
    <3>1. ctx[x].ret
      BY <1>0, <2>1, <2>8 DEF EventInv
    <3>2. ctx' = [ctx EXCEPT ![x].pc = "ret", ![x].ret = TRUE]
      BY <1>14, <2>8, <3>1 DEF complete_cmpxchg, PollAgain
    <3>3. ctx'[x] = [ctx[x] EXCEPT !.pc = "ret", !.ret = TRUE]
      BY <1>0, <3>2 DEF NdTypeOK, ContextTypes
    <3>4. ctx'[x].pc = "ret" /\ ctx'[x].ret /\ ctx'[x].then = ctx[x].then
      BY <1>0, <3>3 DEF NdTypeOK, ContextTypes, CtxTypes
    <3>5. ctx[x].then \in {"driver", "ignore", "prefer"}
      <4>1. x \in Pollers
        BY <1>0, <2>1, PollerOf
      <4> QED BY <1>0, <2>1, <4>1 DEF PlacesInv, NdTypeOK, ContextTypes, CtxTypes
    <3>6. ctx[x].then = "ignore" => Has("DISABLE")
      BY <1>0, <2>1 DEF EventInv
    <3>7. ctx[x].then = "driver" /\ hw.edge /\ ~Has("DISABLE") /\ hw.ring > 0 => hw.irq
      BY <1>0, <2>1, <2>8 DEF EventInv
    <3>8. ~Has("DISABLE") /\ (hw.ring > 0 \/ ~hw.edge) => hw.irq \/ WillUnmask(x)'
      BY <2>1, <3>4, <3>5, <3>6, <3>7 DEF WillUnmask
    <3>9. ~Has("DISABLE") /\ (hw.ring > 0 \/ ~hw.edge) => Covered'
      BY <2>1, <3>8 DEF Covered
    <3> QED BY <2>1, <2>5, <3>9 DEF EventInv
  <2> QED BY <2>6, <2>7, <2>8
<1>15. ASSUME NEW x \in Contexts, hrtimer_start(x) PROVE EventInv'
  BY <1>0, <1>15, Kinds
     DEF NdTypeOK, NapiTypes, TimerTypes, DeviceTypes, ContextTypes, CtxTypes, EventInv, Covered,
         WillUnmask,
         hrtimer_start
<1>16. ASSUME NEW x \in Contexts, complete_returns(x) PROVE EventInv'
  BY <1>0, <1>16, Kinds
     DEF NdTypeOK, NapiTypes, TimerTypes, DeviceTypes, ContextTypes, CtxTypes, EventInv, Covered,
         WillUnmask,
         complete_returns, PrepBits, PrepOwns
<1>17. ASSUME NEW x \in Contexts, poll_full(x) PROVE EventInv'
  <2>1. /\ At(x, "full") /\ UNCHANGED <<napi, timer, hw>> /\ \A y \in Contexts \ {x} : ctx'[y] = ctx[y]
        /\ \/ ctx'[x].pc = "repoll"
           \/ ctx'[x].pc = "complete" /\ ctx'[x].then \in {"ignore", "prefer"}
        /\ ctx'[x].then = "ignore" => Has("DISABLE")
    BY <1>0, <1>17, PollFullEffect
  <2>2. Has("SCHED")
    BY <1>0, <2>1, PollerAlone DEF Polls
  <2>3. Covered'
    BY <2>1, <2>2 DEF Covered
  <2>4. ctx'[x].pc # "cmpxchg" /\ (ctx'[x].then # "driver" \/ ctx'[x].pc = "repoll")
    BY <2>1
  <2> QED BY <1>0, <2>1, <2>3, <2>4 DEF EventInv
<1>18. ASSUME napi_thread_wait PROVE EventInv'
  <2>1. /\ hw' = hw /\ timer' = timer /\ napi'.hashed = napi.hashed
        /\ \A b \in {"SCHED", "DISABLE", "MISSED"} : b \in napi'.bits <=> b \in napi.bits
    BY <1>0, <1>18, WaitEffect
  <2>2. \A y \in Contexts : (\/ ctx[y].pc \in {"arm", "ret"}
                             \/ ctx'[y].pc \in {"complete", "cmpxchg", "arm", "ret"}) => ctx'[y] = ctx[y]
    BY <1>0, <1>18, Kinds, WaitEffect
  <2> QED BY <1>0, <2>1, <2>2, EventFrame
<1>19. ASSUME threaded_want PROVE EventInv'
  <2>1. /\ hw' = hw /\ timer' = timer /\ napi'.hashed = napi.hashed
        /\ \A b \in {"SCHED", "DISABLE", "MISSED"} : b \in napi'.bits <=> b \in napi.bits
    BY <1>0, <1>19 DEF threaded_want, WantBusyPoll, NdTypeOK, NapiTypes
  <2>2. \A y \in Contexts : (\/ ctx[y].pc \in {"arm", "ret"}
                             \/ ctx'[y].pc \in {"complete", "cmpxchg", "arm", "ret"}) => ctx'[y] = ctx[y]
    BY <1>0, <1>19, Kinds DEF threaded_want, WantBusyPoll, NdTypeOK, ContextTypes, CtxTypes
  <2> QED BY <1>0, <2>1, <2>2, EventFrame
<1>20. ASSUME threaded_assign PROVE EventInv'
  <2>1. /\ hw' = hw /\ timer' = timer /\ napi'.hashed = napi.hashed
        /\ \A b \in {"SCHED", "DISABLE", "MISSED"} : b \in napi'.bits <=> b \in napi.bits
    BY <1>0, <1>20 DEF threaded_assign, NdTypeOK, NapiTypes
  <2>2. \A y \in Contexts : (\/ ctx[y].pc \in {"arm", "ret"}
                             \/ ctx'[y].pc \in {"complete", "cmpxchg", "arm", "ret"}) => ctx'[y] = ctx[y]
    BY <1>0, <1>20, Kinds DEF threaded_assign, NdTypeOK, ContextTypes, CtxTypes
  <2> QED BY <1>0, <2>1, <2>2, EventFrame
<1>21. ASSUME threaded_polled PROVE EventInv'
  <2>1. /\ hw' = hw /\ timer' = timer /\ napi'.hashed = napi.hashed
        /\ \A b \in {"SCHED", "DISABLE", "MISSED"} : b \in napi'.bits <=> b \in napi.bits
    BY <1>0, <1>21 DEF threaded_polled, NdTypeOK, NapiTypes
  <2>2. \A y \in Contexts : (\/ ctx[y].pc \in {"arm", "ret"}
                             \/ ctx'[y].pc \in {"complete", "cmpxchg", "arm", "ret"}) => ctx'[y] = ctx[y]
    BY <1>0, <1>21, Kinds DEF threaded_polled, NdTypeOK, ContextTypes, CtxTypes
  <2> QED BY <1>0, <2>1, <2>2, EventFrame
<1>22. ASSUME busy_begins PROVE EventInv'
  <2>1. /\ hw' = hw /\ timer' = timer /\ napi'.hashed = napi.hashed
        /\ \A b \in {"SCHED", "DISABLE", "MISSED"} : b \in napi'.bits <=> b \in napi.bits
    BY <1>0, <1>22 DEF busy_begins, NdTypeOK, NapiTypes
  <2>2. \A y \in Contexts : (\/ ctx[y].pc \in {"arm", "ret"}
                             \/ ctx'[y].pc \in {"complete", "cmpxchg", "arm", "ret"}) => ctx'[y] = ctx[y]
    BY <1>0, <1>22, Kinds DEF busy_begins, NdTypeOK, ContextTypes, CtxTypes
  <2> QED BY <1>0, <2>1, <2>2, EventFrame
<1>23. ASSUME busy_try PROVE EventInv'
  BY <1>0, <1>23, Kinds
     DEF NdTypeOK, NapiTypes, TimerTypes, DeviceTypes, ContextTypes, CtxTypes, EventInv, Covered,
         WillUnmask,
         busy_try
<1>24. ASSUME NEW again \in BOOLEAN, busy_round(again) PROVE EventInv'
  <2>1. /\ hw' = hw /\ timer' = timer /\ napi'.hashed = napi.hashed
        /\ \A b \in {"SCHED", "DISABLE", "MISSED"} : b \in napi'.bits <=> b \in napi.bits
    BY <1>0, <1>24 DEF busy_round, NdTypeOK, NapiTypes
  <2>2. \A y \in Contexts : (\/ ctx[y].pc \in {"arm", "ret"}
                             \/ ctx'[y].pc \in {"complete", "cmpxchg", "arm", "ret"}) => ctx'[y] = ctx[y]
    BY <1>0, <1>24, Kinds DEF busy_round, NdTypeOK, ContextTypes, CtxTypes
  <2> QED BY <1>0, <2>1, <2>2, EventFrame
<1>25. ASSUME busy_poll_stop PROVE EventInv'
  <2>1. /\ At(Busy, "stop") /\ UNCHANGED <<timer, hw>> /\ napi'.hashed = napi.hashed
        /\ \A b \in {"SCHED", "DISABLE"} : b \in napi'.bits <=> b \in napi.bits
    BY <1>0, <1>25 DEF busy_poll_stop, NdTypeOK, NapiTypes
  <2>2. Has("SCHED") /\ \A y \in Contexts \ {Busy} : ~Polls(y)
    BY <1>0, <2>1, Kinds, PollerAlone DEF Polls
  <2>3. (\A y \in Contexts \ {Busy} : ctx'[y] = ctx[y]) /\ ctx'[Busy].pc = "stop2"
    BY <1>0, <1>25, Kinds DEF busy_poll_stop, NdTypeOK, ContextTypes, CtxTypes
  <2>4. \A y \in Contexts : ctx'[y].pc \notin {"complete", "cmpxchg"}
    BY <2>2, <2>3 DEF Polls
  <2> QED BY <2>1, <2>2, <2>4 DEF EventInv, Covered
<1>26. ASSUME busy_last_poll PROVE EventInv'
  BY <1>0, <1>26, Kinds
     DEF NdTypeOK, NapiTypes, TimerTypes, DeviceTypes, ContextTypes, CtxTypes, EventInv, Covered,
         WillUnmask,
         busy_last_poll
<1>27. ASSUME busy_stopped_full PROVE EventInv'
  BY <1>0, <1>27, Kinds
     DEF NdTypeOK, NapiTypes, TimerTypes, DeviceTypes, ContextTypes, CtxTypes, EventInv, Covered,
         WillUnmask,
         busy_stopped_full
<1>28. ASSUME busy_ends PROVE EventInv'
  BY <1>0, <1>28, Kinds
     DEF NdTypeOK, NapiTypes, TimerTypes, DeviceTypes, ContextTypes, CtxTypes, EventInv, Covered,
         WillUnmask,
         busy_ends, Rest
<1>29. ASSUME netif_napi_add PROVE EventInv'
  <2>1. ~napi'.hashed
    BY <1>29 DEF netif_napi_add
  <2>2. \A x \in Contexts : ctx[x].pc \notin {"complete", "cmpxchg"}
    BY <1>0, <1>29 DEF AbsentInv, netif_napi_add
  <2>3. [Rest EXCEPT !.pc = "wait"].pc = "wait"
    BY DEF Rest
  <2>4. \A x \in Contexts : ctx'[x].pc \notin {"complete", "cmpxchg"}
    <3> DEFINE W == [Rest EXCEPT !.pc = "wait"]
    <3>1. W.pc = "wait" /\ (ctx' = ctx \/ ctx' = [ctx EXCEPT ![Thread] = W])
      BY <1>29, <2>3 DEF netif_napi_add, CreateThread
    <3> HIDE DEF W
    <3> QED BY <1>0, <2>2, <3>1, Kinds DEF NdTypeOK, ContextTypes
  <2> QED BY <2>1, <2>4 DEF EventInv
<1>30. ASSUME napi_enable PROVE EventInv'
  BY <1>0, <1>30, Kinds
     DEF NdTypeOK, NapiTypes, TimerTypes, DeviceTypes, ContextTypes, CtxTypes, EventInv, Covered,
         WillUnmask,
         napi_enable, Begin, ModeBits
<1>31. ASSUME disable_begins PROVE EventInv'
  BY <1>0, <1>31, Kinds
     DEF NdTypeOK, NapiTypes, TimerTypes, DeviceTypes, ContextTypes, CtxTypes, EventInv, Covered,
         WillUnmask,
         disable_begins, Begin
<1>32. ASSUME disable_takes PROVE EventInv'
  BY <1>0, <1>32, Kinds
     DEF NdTypeOK, NapiTypes, TimerTypes, DeviceTypes, ContextTypes, CtxTypes, EventInv, Covered,
         WillUnmask,
         disable_takes, MayDisable, Admin
<1>33. ASSUME hrtimer_cancel PROVE EventInv'
  <2>1. UNCHANGED <<napi, ctx, hw>> /\ Has("DISABLE")
    BY <1>0, <1>33 DEF hrtimer_cancel, AdminInv
  <2> QED BY <1>0, <2>1 DEF EventInv
<1>34. ASSUME disable_ends PROVE EventInv'
  <2>1. ~napi'.hashed /\ UNCHANGED ctx /\ Has("NPSVC")
    BY <1>0, <1>34 DEF disable_ends, NdTypeOK, NapiTypes, AdminInv
  <2>2. \A x \in Contexts : ctx[x].pc \notin {"complete", "cmpxchg"}
    BY <1>0, <2>1, NobodyThere DEF Polls
  <2> QED BY <2>1, <2>2 DEF EventInv
<1>35. ASSUME NEW m \in Modes, netif_set_threaded(m) PROVE EventInv'
  <2>1. /\ hw' = hw /\ timer' = timer /\ napi'.hashed = napi.hashed
        /\ \A b \in {"SCHED", "DISABLE", "MISSED"} : b \in napi'.bits <=> b \in napi.bits
    BY <1>0, <1>35, SwitchEffect
  <2>2. \A x \in Contexts \ {Thread} : ctx'[x] = ctx[x]
    BY <1>0, <1>35, SwitchEffect
  <2>3. ctx' = ctx \/ (ctx[Thread].pc = "rest" /\ ctx'[Thread].pc = "wait")
    BY <1>0, <1>35, SwitchEffect DEF ThreadInv
  <2>4. \A y \in Contexts : (\/ ctx[y].pc \in {"arm", "ret"}
                             \/ ctx'[y].pc \in {"complete", "cmpxchg", "arm", "ret"}) => ctx'[y] = ctx[y]
    BY <2>2, <2>3
  <2> QED BY <1>0, <2>1, <2>4, EventFrame
<1>36. ASSUME stop_unset PROVE EventInv'
  <2>1. /\ hw' = hw /\ timer' = timer /\ napi'.hashed = napi.hashed
        /\ \A b \in {"SCHED", "DISABLE", "MISSED"} : b \in napi'.bits <=> b \in napi.bits
    BY <1>0, <1>36 DEF stop_unset, MayUnset, Admin, NdTypeOK, NapiTypes
  <2>2. \A y \in Contexts : (\/ ctx[y].pc \in {"arm", "ret"}
                             \/ ctx'[y].pc \in {"complete", "cmpxchg", "arm", "ret"}) => ctx'[y] = ctx[y]
    BY <1>0, <1>36, Kinds DEF stop_unset, MayUnset, Admin, NdTypeOK, ContextTypes, CtxTypes
  <2> QED BY <1>0, <2>1, <2>2, EventFrame
<1>37. ASSUME kthread_stop PROVE EventInv'
  <2>1. /\ hw' = hw /\ timer' = timer /\ napi'.hashed = napi.hashed
        /\ \A b \in {"SCHED", "DISABLE", "MISSED"} : b \in napi'.bits <=> b \in napi.bits
    BY <1>0, <1>37 DEF kthread_stop, NdTypeOK, NapiTypes
  <2>2. \A y \in Contexts : (\/ ctx[y].pc \in {"arm", "ret"}
                             \/ ctx'[y].pc \in {"complete", "cmpxchg", "arm", "ret"}) => ctx'[y] = ctx[y]
    BY <1>0, <1>37, Kinds DEF kthread_stop, NdTypeOK, ContextTypes, CtxTypes
  <2> QED BY <1>0, <2>1, <2>2, EventFrame
<1>38. ASSUME thread_stopped PROVE EventInv'
  <2>1. /\ hw' = hw /\ timer' = timer /\ napi'.hashed = napi.hashed
        /\ \A b \in {"SCHED", "DISABLE", "MISSED"} : b \in napi'.bits <=> b \in napi.bits
    BY <1>0, <1>38 DEF thread_stopped, Settled, Admin, NdTypeOK, NapiTypes
  <2>2. \A y \in Contexts : (\/ ctx[y].pc \in {"arm", "ret"}
                             \/ ctx'[y].pc \in {"complete", "cmpxchg", "arm", "ret"}) => ctx'[y] = ctx[y]
    BY <1>0, <1>38, Kinds DEF thread_stopped, Settled, Admin, NdTypeOK, ContextTypes, CtxTypes
  <2> QED BY <1>0, <2>1, <2>2, EventFrame
<1>39. ASSUME netif_napi_del PROVE EventInv'
  <2>1. ~napi'.hashed /\ UNCHANGED ctx /\ Has("NPSVC")
    BY <1>0, <1>39 DEF netif_napi_del, Begin, NdTypeOK, NapiTypes, AdminInv
  <2>2. \A x \in Contexts : ctx[x].pc \notin {"complete", "cmpxchg"}
    BY <1>0, <2>1, NobodyThere DEF Polls
  <2> QED BY <2>1, <2>2 DEF EventInv
<1>40. ASSUME napi_freed PROVE EventInv'
  <2>1. ~napi'.hashed /\ UNCHANGED ctx /\ Has("NPSVC")
    BY <1>0, <1>40 DEF napi_freed, NdTypeOK, NapiTypes, AdminInv
  <2>2. \A x \in Contexts : ctx[x].pc \notin {"complete", "cmpxchg"}
    BY <1>0, <2>1, NobodyThere DEF Polls
  <2> QED BY <2>1, <2>2 DEF EventInv
<1> QED BY <1>1, <1>2, <1>3, <1>4, <1>5, <1>6, <1>7, <1>8, <1>9, <1>10, <1>11, <1>12,
           <1>13, <1>14, <1>15, <1>16, <1>17, <1>18, <1>19, <1>20, <1>21, <1>22, <1>23, <1>24,
           <1>25, <1>26, <1>27, <1>28, <1>29, <1>30, <1>31, <1>32, <1>33, <1>34, <1>35, <1>36,
           <1>37, <1>38, <1>39, <1>40
        DEF Next, RxStep, PollStep, ThreadStep, BusyStep, AdminEnds

-------------------------------------------------------------------------------
(* Without gro_flush_timeout the timer is never started.                     *)
LEMMA NoTimerStep ==
  ASSUME Settings, NdInv, ~TIMEOUT, NoTimer, Next
  PROVE  NoTimer'
<1>0. Settings /\ NdTypeOK /\ NoTimer /\ ~TIMEOUT
  BY DEF NdInv
<1>1. ASSUME device_receives PROVE NoTimer'
  BY <1>0, <1>1, Kinds DEF NdTypeOK, TimerTypes, ContextTypes, CtxTypes, NoTimer, device_receives
<1>2. ASSUME NEW c \in NdCpus, napi_schedule(c) PROVE NoTimer'
  BY <1>0, <1>2, Kinds
     DEF NdTypeOK, TimerTypes, ContextTypes, CtxTypes, NoTimer,
         napi_schedule, PrepBits, PrepOwns
<1>3. ASSUME NEW c \in NdCpus, timer_expires(c) PROVE NoTimer'
  BY <1>0, <1>3, Kinds DEF NdTypeOK, TimerTypes, ContextTypes, CtxTypes, NoTimer, timer_expires
<1>4. ASSUME NEW c \in NdCpus, napi_watchdog(c) PROVE NoTimer'
  BY <1>0, <1>4, Kinds
     DEF NdTypeOK, TimerTypes, ContextTypes, CtxTypes, NoTimer,
         napi_watchdog, WatchdogOwns
<1>5. ASSUME NEW c \in NdCpus, rx_start(c) PROVE NoTimer'
  BY <1>0, <1>5, Kinds DEF NdTypeOK, TimerTypes, ContextTypes, CtxTypes, NoTimer, rx_start
<1>6. ASSUME NEW c \in NdCpus, rx_loop(c) PROVE NoTimer'
  BY <1>0, <1>6, Kinds DEF NdTypeOK, TimerTypes, ContextTypes, CtxTypes, NoTimer, rx_loop
<1>7. ASSUME NEW c \in NdCpus, rx_check(c) PROVE NoTimer'
  BY <1>0, <1>7, Kinds
     DEF NdTypeOK, TimerTypes, ContextTypes, CtxTypes, NoTimer,
         rx_check, AfterCheck
<1>8. ASSUME NEW c \in NdCpus, NEW e \in BOOLEAN, rx_polled(c, e) PROVE NoTimer'
  BY <1>0, <1>8, Kinds DEF NdTypeOK, TimerTypes, ContextTypes, CtxTypes, NoTimer, rx_polled, Rest
<1>9. ASSUME NEW c \in NdCpus, rx_punt(c) PROVE NoTimer'
  BY <1>0, <1>9, Kinds DEF NdTypeOK, TimerTypes, ContextTypes, CtxTypes, NoTimer, rx_punt
<1>10. ASSUME NEW x \in Contexts, schedule_look(x) PROVE NoTimer'
  BY <1>0, <1>10, Kinds DEF NdTypeOK, TimerTypes, ContextTypes, CtxTypes, NoTimer, schedule_look
<1>11. ASSUME NEW x \in Contexts, schedule_put(x) PROVE NoTimer'
  BY <1>0, <1>11, Kinds DEF NdTypeOK, TimerTypes, ContextTypes, CtxTypes, NoTimer, schedule_put
<1>12. ASSUME NEW x \in Contexts, poll(x) PROVE NoTimer'
  BY <1>0, <1>12, Kinds DEF NdTypeOK, TimerTypes, ContextTypes, CtxTypes, NoTimer, poll
<1>13. ASSUME NEW x \in Contexts, NEW held \in BOOLEAN, napi_complete_done(x, held) PROVE NoTimer'
  BY <1>0, <1>13, Kinds
     DEF NdTypeOK, TimerTypes, ContextTypes, CtxTypes, NoTimer,
         napi_complete_done
<1>14. ASSUME NEW x \in Contexts, complete_cmpxchg(x) PROVE NoTimer'
  BY <1>0, <1>14, Kinds
     DEF NdTypeOK, TimerTypes, ContextTypes, CtxTypes, NoTimer,
         complete_cmpxchg, PollAgain
<1>15. ASSUME NEW x \in Contexts, hrtimer_start(x) PROVE NoTimer'
  BY <1>0, <1>15, Kinds DEF NdTypeOK, TimerTypes, ContextTypes, CtxTypes, NoTimer, hrtimer_start
<1>16. ASSUME NEW x \in Contexts, complete_returns(x) PROVE NoTimer'
  BY <1>0, <1>16, Kinds
     DEF NdTypeOK, TimerTypes, ContextTypes, CtxTypes, NoTimer,
         complete_returns, PrepBits, PrepOwns
<1>17. ASSUME NEW x \in Contexts, poll_full(x) PROVE NoTimer'
  BY <1>0, <1>17, Kinds DEF NdTypeOK, TimerTypes, ContextTypes, CtxTypes, NoTimer, poll_full
<1>18. ASSUME napi_thread_wait PROVE NoTimer'
  <2> DEFINE R == [Rest EXCEPT !.pc = "want", !.to = "thread"]
  <2>1. /\ Rest.pc = "rest" /\ ~Rest.timeout /\ R.pc = "want" /\ ~R.timeout
    BY DEF Rest
  <2>2. timer' = timer /\ (ctx' = [ctx EXCEPT ![Thread] = Rest] \/ ctx' = [ctx EXCEPT ![Thread] = R])
    BY <1>18 DEF napi_thread_wait
  <2> HIDE DEF R
  <2> QED BY <1>0, <2>1, <2>2, Kinds DEF NdTypeOK, ContextTypes, NoTimer
<1>19. ASSUME threaded_want PROVE NoTimer'
  BY <1>0, <1>19, Kinds
     DEF NdTypeOK, TimerTypes, ContextTypes, CtxTypes, NoTimer,
         threaded_want, WantBusyPoll
<1>20. ASSUME threaded_assign PROVE NoTimer'
  BY <1>0, <1>20, Kinds DEF NdTypeOK, TimerTypes, ContextTypes, CtxTypes, NoTimer, threaded_assign
<1>21. ASSUME threaded_polled PROVE NoTimer'
  BY <1>0, <1>21, Kinds DEF NdTypeOK, TimerTypes, ContextTypes, CtxTypes, NoTimer, threaded_polled
<1>22. ASSUME busy_begins PROVE NoTimer'
  BY <1>0, <1>22, Kinds DEF NdTypeOK, TimerTypes, ContextTypes, CtxTypes, NoTimer, busy_begins
<1>23. ASSUME busy_try PROVE NoTimer'
  BY <1>0, <1>23, Kinds DEF NdTypeOK, TimerTypes, ContextTypes, CtxTypes, NoTimer, busy_try
<1>24. ASSUME NEW again \in BOOLEAN, busy_round(again) PROVE NoTimer'
  BY <1>0, <1>24, Kinds DEF NdTypeOK, TimerTypes, ContextTypes, CtxTypes, NoTimer, busy_round
<1>25. ASSUME busy_poll_stop PROVE NoTimer'
  BY <1>0, <1>25, Kinds DEF NdTypeOK, TimerTypes, ContextTypes, CtxTypes, NoTimer, busy_poll_stop
<1>26. ASSUME busy_last_poll PROVE NoTimer'
  BY <1>0, <1>26, Kinds DEF NdTypeOK, TimerTypes, ContextTypes, CtxTypes, NoTimer, busy_last_poll
<1>27. ASSUME busy_stopped_full PROVE NoTimer'
  BY <1>0, <1>27, Kinds
     DEF NdTypeOK, TimerTypes, ContextTypes, CtxTypes, NoTimer,
         busy_stopped_full
<1>28. ASSUME busy_ends PROVE NoTimer'
  BY <1>0, <1>28, Kinds DEF NdTypeOK, TimerTypes, ContextTypes, CtxTypes, NoTimer, busy_ends, Rest
<1>29. ASSUME netif_napi_add PROVE NoTimer'
  BY <1>0, <1>29, Kinds
     DEF NdTypeOK, TimerTypes, ContextTypes, CtxTypes, NoTimer,
         netif_napi_add, Begin, CreateThread, Rest
<1>30. ASSUME napi_enable PROVE NoTimer'
  BY <1>0, <1>30, Kinds
     DEF NdTypeOK, TimerTypes, ContextTypes, CtxTypes, NoTimer,
         napi_enable, Begin, ModeBits
<1>31. ASSUME disable_begins PROVE NoTimer'
  BY <1>0, <1>31, Kinds
     DEF NdTypeOK, TimerTypes, ContextTypes, CtxTypes, NoTimer,
         disable_begins, Begin
<1>32. ASSUME disable_takes PROVE NoTimer'
  BY <1>0, <1>32, Kinds
     DEF NdTypeOK, TimerTypes, ContextTypes, CtxTypes, NoTimer,
         disable_takes, MayDisable, Admin
<1>33. ASSUME hrtimer_cancel PROVE NoTimer'
  BY <1>0, <1>33, Kinds
     DEF NdTypeOK, TimerTypes, ContextTypes, CtxTypes, NoTimer,
         hrtimer_cancel, Admin
<1>34. ASSUME disable_ends PROVE NoTimer'
  BY <1>0, <1>34, Kinds
     DEF NdTypeOK, TimerTypes, ContextTypes, CtxTypes, NoTimer,
         disable_ends, Admin
<1>35. ASSUME NEW m \in Modes, netif_set_threaded(m) PROVE NoTimer'
  BY <1>0, <1>35, Kinds
     DEF NdTypeOK, TimerTypes, ContextTypes, CtxTypes, NoTimer,
         netif_set_threaded, Begin, Settled, CreateThread, Rest, ModeBits
<1>36. ASSUME stop_unset PROVE NoTimer'
  BY <1>0, <1>36, Kinds
     DEF NdTypeOK, TimerTypes, ContextTypes, CtxTypes, NoTimer,
         stop_unset, MayUnset, Admin
<1>37. ASSUME kthread_stop PROVE NoTimer'
  BY <1>0, <1>37, Kinds DEF NdTypeOK, TimerTypes, ContextTypes, CtxTypes, NoTimer, kthread_stop
<1>38. ASSUME thread_stopped PROVE NoTimer'
  BY <1>0, <1>38, Kinds
     DEF NdTypeOK, TimerTypes, ContextTypes, CtxTypes, NoTimer,
         thread_stopped, Settled, Admin
<1>39. ASSUME netif_napi_del PROVE NoTimer'
  BY <1>0, <1>39, Kinds
     DEF NdTypeOK, TimerTypes, ContextTypes, CtxTypes, NoTimer,
         netif_napi_del, Begin
<1>40. ASSUME napi_freed PROVE NoTimer'
  BY <1>0, <1>40, Kinds
     DEF NdTypeOK, TimerTypes, ContextTypes, CtxTypes, NoTimer,
         napi_freed, Admin
<1> QED BY <1>1, <1>2, <1>3, <1>4, <1>5, <1>6, <1>7, <1>8, <1>9, <1>10, <1>11, <1>12,
           <1>13, <1>14, <1>15, <1>16, <1>17, <1>18, <1>19, <1>20, <1>21, <1>22, <1>23, <1>24,
           <1>25, <1>26, <1>27, <1>28, <1>29, <1>30, <1>31, <1>32, <1>33, <1>34, <1>35, <1>36,
           <1>37, <1>38, <1>39, <1>40
        DEF Next, RxStep, PollStep, ThreadStep, BusyStep, AdminEnds

-------------------------------------------------------------------------------
(* The invariant as a whole, with the parameters of their kinds.              *)
NdKept == Settings /\ NdInv

(* Before it is added the instance satisfies the invariant.                   *)
LEMMA NdInit ==
  ASSUME Settings, Init
  PROVE  NdInv
<1>1. \A x \in Contexts : /\ ctx[x].pc = "rest" /\ ctx[x].then = "none" /\ ~ctx[x].stop
                          /\ ctx[x] \in CtxTypes
  BY DEF Init, Rest, CtxTypes, AllPCs
<1>2. /\ napi = [bits |-> {}, on |-> Nowhere, count |-> 0, hashed |-> FALSE]
      /\ kthread = [there |-> FALSE, stop |-> FALSE] /\ admin.pc = "absent"
      /\ timer = [armed |-> FALSE, cb |-> 0, looked |-> FALSE]
      /\ hw.ring = 0 /\ ~hw.irq
  BY DEF Init
<1>3. NdTypeOK
  <2>1. ContextTypes
    BY <1>1 DEF Init, ContextTypes
  <2>2. NapiTypes /\ TimerTypes /\ ThreadTypes
    BY <1>2 DEF NapiTypes, TimerTypes, ThreadTypes, Lists
  <2>3. SoftTypes /\ AdminTypes /\ DeviceTypes
    <3>1. SoftTypes
      BY DEF Init, SoftTypes
    <3>2. AdminTypes
      BY DEF Init, Settings, AdminTypes, AdminPCs
    <3>3. PICK e \in BOOLEAN : hw = [ring |-> 0, irq |-> FALSE, arrivals |-> 0, edge |-> e]
      BY DEF Init, Settings
    <3> QED BY <3>1, <3>2, <3>3 DEF DeviceTypes
  <2> QED BY <2>1, <2>2, <2>3 DEF NdTypeOK
<1>4. PlacesInv
  BY <1>1, Kinds DEF PlacesInv
<1>5. \A x \in Contexts : ~Polls(x) /\ ~Holds(x)
  BY <1>1 DEF Polls, Holds
<1>6. OwnerInv /\ BusyInv
  BY <1>1, <1>2, <1>5, Kinds DEF OwnerInv, BusyInv
<1>7. AdminInv /\ AbsentInv /\ ThreadInv
  BY <1>1, <1>2, Kinds DEF AdminInv, AbsentInv, ThreadInv
<1>8. ListInv
  <2>1. \A c \in NdCpus : ~sd[c].in /\ ctx[Soft(c)].pc = "rest"
    BY <1>1, Kinds DEF Init
  <2> QED BY <1>2, <2>1, Kinds DEF ListInv
<1>9. EventInv
  BY <1>1, <1>2 DEF EventInv
<1> QED BY <1>3, <1>4, <1>6, <1>7, <1>8, <1>9 DEF NdInv

(* Every step keeps the invariant while no timer outlives its instance.       *)
LEMMA NdStep ==
  ASSUME Settings, NdInv, TimerEndsFirst, [Next]_nd_vars
  PROVE  NdInv'
<1>1. CASE Next
  <2>1. NapiTypes' /\ TimerTypes' /\ SoftTypes' /\ ContextTypes'
    BY <1>1, NapiTypesStep, TimerTypesStep, SoftTypesStep, ContextTypesStep
  <2>2. ThreadTypes' /\ AdminTypes' /\ DeviceTypes'
    BY <1>1, ThreadTypesStep, AdminTypesStep, DeviceTypesStep
  <2>3. PlacesInv' /\ OwnerInv' /\ BusyInv' /\ AdminInv'
    BY <1>1, PlacesInvStep, OwnerInvStep, BusyInvStep, AdminInvStep
  <2>4. AbsentInv' /\ ThreadInv' /\ ListInv' /\ EventInv'
    BY <1>1, AbsentInvStep, ThreadInvStep, ListInvStep, EventInvStep
  <2> QED BY <2>1, <2>2, <2>3, <2>4 DEF NdInv, NdTypeOK
<1>2. CASE UNCHANGED nd_vars
  <2>1. UNCHANGED <<napi, timer, sd, ctx, kthread, admin, hw>>
    BY <1>2 DEF nd_vars
  <2>2. NdTypeOK'
    BY <2>1
      DEF NdInv, NdTypeOK, NapiTypes, TimerTypes, SoftTypes, ContextTypes, ThreadTypes, AdminTypes,
          DeviceTypes
  <2>3. \A x : (Polls(x)' <=> Polls(x)) /\ (Holds(x)' <=> Holds(x)) /\ (WillUnmask(x)' <=> WillUnmask(x))
    BY <2>1 DEF Polls, Holds, WillUnmask
  <2>4. PlacesInv' /\ OwnerInv' /\ BusyInv'
    BY <2>1, <2>3 DEF NdInv, PlacesInv, OwnerInv, BusyInv
  <2>5. AdminInv' /\ AbsentInv' /\ ThreadInv' /\ ListInv'
    BY <2>1 DEF NdInv, AdminInv, AbsentInv, ThreadInv, ListInv
  <2>6. EventInv'
    BY <2>1, <2>3 DEF NdInv, EventInv, Covered
  <2> QED BY <2>2, <2>4, <2>5, <2>6 DEF NdInv
<1> QED BY <1>1, <1>2

(* The invariant gives the five promises.                                     *)
LEMMA NdPromises ==
  ASSUME Settings, NdInv
  PROVE  NapiOnePollerNoneLost
<1>0. /\ NdTypeOK /\ OwnerInv /\ AdminInv /\ ThreadInv /\ ListInv /\ EventInv
  BY DEF NdInv
<1> DEFINE H == {x \in Contexts : ctx[x].pc \in {"look", "put"}} \cup (Polling \ {Thread})
<1>1. \A x : x \in Polling <=> x \in Contexts /\ Polls(x)
  BY DEF Polling, Polls
<1>2. \A x : x \in H <=> x \in Contexts /\ Holds(x)
  BY <1>1 DEF Holds
<1>3. OnePoller
  <2>1. CASE Polling = {}
    <3>1. Cardinality(Polling) = 0
      BY <2>1, FS_EmptySet
    <3> QED BY <3>1 DEF OnePoller
  <2>2. ASSUME NEW x \in Polling PROVE OnePoller
    <3>1. x \in Contexts /\ \A y \in Contexts \ {x} : ~Polls(y)
      BY <1>0, <1>1, <2>2, PollerAlone
    <3>2. Polling = {x}
      BY <1>1, <2>2, <3>1
    <3>3. Cardinality(Polling) = 1
      BY <3>2, FS_Singleton
    <3> QED BY <3>3 DEF OnePoller
  <2> QED BY <2>1, <2>2
<1> DEFINE on == IF napi.on # Nowhere THEN 1 ELSE 0
           th == IF Has("SCHED_THREADED") THEN 1 ELSE 0
           sv == IF Has("NPSVC") THEN 1 ELSE 0
           sc == IF Has("SCHED") THEN 1 ELSE 0
<1>4. Cardinality(H) + on + th + sv = sc
  <2>1. CASE H = {}
    <3>1. Cardinality(H) = 0
      BY <2>1, FS_EmptySet
    <3>2. \A x \in Contexts : ~Holds(x)
      BY <1>2, <2>1
    <3> HIDE DEF H
    <3> QED BY <1>0, <3>1, <3>2 DEF OwnerInv
  <2>2. ASSUME NEW x \in H PROVE Cardinality(H) + on + th + sv = sc
    <3>1. x \in Contexts /\ Holds(x)
      BY <1>2, <2>2
    <3>2. H = {x}
      BY <1>0, <1>2, <3>1 DEF OwnerInv
    <3>3. Cardinality(H) = 1
      BY <3>2, FS_Singleton
    <3> HIDE DEF H
    <3> QED BY <1>0, <3>1, <3>3 DEF OwnerInv
  <2> QED BY <2>1, <2>2
<1>5. ScheduledOnce
  BY <1>4 DEF ScheduledOnce
<1>6. NoEventLost
  <2>1. SUFFICES ASSUME hw.ring > 0, admin.pc = "up"
                 PROVE  \/ hw.irq \/ Has("SCHED") \/ timer.armed \/ timer.cb # 0
                        \/ \E x \in Contexts : At(x, "arm") \/ (At(x, "ret") /\ ctx[x].ret)
    BY DEF NoEventLost
  <2>2. Covered
    BY <1>0, <2>1 DEF AdminInv, EventInv
  <2> QED BY <2>2 DEF Covered, WillUnmask
<1>7. OwnerRuns
  <2>1. ASSUME napi.on # Nowhere
        PROVE  LET c == napi.on[1] IN sd[c].raised \/ ctx[Soft(c)].pc # "rest"
    <3>1. PICK c \in NdCpus, l \in {"sd", "list", "repoll"} : napi.on = <<c, l>>
      BY <1>0, <2>1 DEF NdTypeOK, NapiTypes, Lists
    <3>2. sd[c].raised \/ ctx[Soft(c)].pc # "rest"
      BY <1>0, <3>1 DEF ListInv
    <3> QED BY <3>1, <3>2
  <2> QED BY <1>0, <2>1 DEF OwnerRuns, ThreadInv
<1>8. DisabledIsQuiet
  <2>1. SUFFICES ASSUME admin.pc \in {"cancel", "unhash", "down", "delthread", "free"}
                 PROVE  Polling = {} /\ napi.on = Nowhere /\ ~Has("SCHED_THREADED")
    BY DEF DisabledIsQuiet
  <2>2. Has("NPSVC")
    BY <1>0, <2>1 DEF AdminInv
  <2> QED BY <1>0, <1>1, <2>2, NobodyThere
<1> QED BY <1>3, <1>5, <1>6, <1>7, <1>8 DEF NapiOnePollerNoneLost

(* For any CPUs, weights, modes, kinds of driver and any number of packets,   *)
(* busy polls and operations: as long as no timer outlives the grace period   *)
(* of the instance it was started for, interrupts, softirqs, the kthread and  *)
(* the busy poller never poll at once, SCHED has exactly one owner and that   *)
(* one will run, no packet is left without a wake, and an instance that       *)
(* napi_disable returned for is quiet.                                        *)
THEOREM NapiCorrect == Settings => (Spec /\ []TimerEndsFirst => []NapiOnePollerNoneLost)
<1>1. Settings /\ Init => NdKept
  BY NdInit DEF NdKept
<1>2. NdKept /\ TimerEndsFirst /\ [Next]_nd_vars => NdKept'
  BY NdStep DEF NdKept, Settings
<1>3. NdKept => NapiOnePollerNoneLost
  BY NdPromises DEF NdKept
<1> QED BY <1>1, <1>2, <1>3, PTL DEF Spec

(* Without gro_flush_timeout, the kernel's default, there is no timer, and    *)
(* the five promises need no condition.                                       *)
THEOREM NapiCorrectWithoutTimer == Settings /\ ~TIMEOUT => (Spec => []NapiOnePollerNoneLost)
<1> DEFINE Kept == NdKept /\ NoTimer /\ ~TIMEOUT
<1>1. Settings /\ ~TIMEOUT /\ Init => Kept
  <2>1. Init => NoTimer
    BY DEF Init, Rest, NoTimer
  <2> QED BY <2>1, NdInit DEF NdKept
<1>2. Kept /\ [Next]_nd_vars => Kept'
  <2>1. NoTimer => TimerEndsFirst
    BY DEF NoTimer, TimerEndsFirst
  <2>2. ASSUME Kept, Next PROVE NoTimer'
    BY <2>2, NoTimerStep DEF NdKept
  <2>3. ASSUME Kept, UNCHANGED nd_vars PROVE NoTimer'
    BY <2>3 DEF nd_vars, NoTimer
  <2> QED BY <2>1, <2>2, <2>3, NdStep DEF NdKept, Settings
<1>3. Kept => NapiOnePollerNoneLost
  BY NdPromises DEF NdKept
<1> HIDE DEF Kept
<1> QED BY <1>1, <1>2, <1>3, PTL DEF Spec

===============================================================================
