-------------------------------- MODULE NapiDev --------------------------------
(***************************************************************************)
(* One NAPI instance of a driver, with everything net/core/dev.c lets        *)
(* compete for it: interrupts and the timer on any CPU, net_rx_action, the  *)
(* instance's own kthread, a busy poller, and enabling, disabling, deleting *)
(* and switching between threaded and softirq mode. The driver, outside the *)
(* repository, is one of two: its interrupt is masked when it fires and the *)
(* poll unmasks it when napi_complete_done says so; or every packet is one  *)
(* napi_schedule, as with WireGuard. Its poll takes what is there.          *)
(***************************************************************************)
EXTENDS Integers, FiniteSets

CONSTANTS
    NdCpus,         \* CPUs, as numbers from 1
    WEIGHT,         \* napi->weight
    DEFER,          \* defer_hard_irqs
    TIMEOUT,        \* gro_flush_timeout is set
    CONFIG,         \* napi->config is there, and keeps the threaded mode
    PREFER,         \* the busy poller asks for SO_PREFER_BUSY_POLL
    Edges,          \* kinds of driver: TRUE is one napi_schedule for each packet
    Modes,          \* the threaded modes tried: a subset of "off", "on", "busy"
    SWITCH_DOWN,    \* the mode is also switched while the instance is disabled
    MaxArrivals,    \* bound: packets in all
    MaxBusy,        \* bound: busy polls in all
    MaxAdmin        \* bound: operations in all

VARIABLES
    napi,       \* state bits, the list it is on, defer_hard_irqs_count, hashed
    timer,      \* armed, and the step and CPU of the callback
    sd,         \* each CPU: softirq raised, in_net_rx_action
    ctx,        \* who may poll or schedule
    kthread,    \* napi->thread is set, and kthread_stop was called
    admin,      \* the holder of netdev_lock
    mode,       \* dev->threaded
    hw,         \* the device: packets, interrupt unmasked or due, arrivals so far
    busied      \* busy polls so far

nd_vars == <<napi, timer, sd, ctx, kthread, admin, mode, hw, busied>>

Nowhere == <<0, "none">>
Irq(c) == <<c, "irq">>
Soft(c) == <<c, "soft">>
Thread == <<0, "thread">>
Busy == <<0, "busy">>
Contexts == {Irq(c) : c \in NdCpus} \cup {Soft(c) : c \in NdCpus} \cup {Thread, Busy}
Rest == [pc |-> "rest", to |-> "none", then |-> "none", done |-> FALSE, timeout |-> FALSE, ret |-> FALSE, stop |-> FALSE]

Init ==
    /\ napi = [bits |-> {}, on |-> Nowhere, count |-> 0, hashed |-> FALSE]
    /\ timer = [armed |-> FALSE, cb |-> 0, looked |-> FALSE]
    /\ sd = [c \in NdCpus |-> [raised |-> FALSE, in |-> FALSE]]
    /\ ctx = [x \in Contexts |-> Rest]
    /\ kthread = [there |-> FALSE, stop |-> FALSE]
    /\ admin = [pc |-> "absent", left |-> MaxAdmin]
    /\ mode \in Modes
    /\ hw \in {[ring |-> 0, irq |-> FALSE, arrivals |-> 0, edge |-> e] : e \in Edges}
    /\ busied = 0

At(x, pc) == ctx[x].pc = pc
Has(b) == b \in napi.bits
Go(x, pc) == ctx' = [ctx EXCEPT ![x].pc = pc]
Bits(set, clear) == napi' = [napi EXCEPT !.bits = (@ \ clear) \cup set]
CpuOf(x) == IF x[1] = 0 THEN NdCpus ELSE {x[1]}
\* An interrupt that is being handled stops the softirq of its CPU.
Runs(x) == x[2] = "soft" => At(Irq(x[1]), "rest")

--------------------------------------------------------------------------------
\* The device receives; the interrupt fires, or fires once for this packet.
device_receives ==
    /\ hw.arrivals < MaxArrivals /\ Has("LISTED")
    /\ hw' = [hw EXCEPT !.ring = @ + 1, !.arrivals = @ + 1, !.irq = @ \/ hw.edge]
    /\ UNCHANGED <<napi, timer, sd, ctx, kthread, admin, mode, busied>>

\* napi_schedule_prep: refused while a disable is pending, MISSED if scheduled.
PrepBits == IF Has("DISABLE") THEN {} ELSE {"SCHED"} \cup (IF Has("SCHED") THEN {"MISSED"} ELSE {})

\* Slip: who merely set MISSED schedules too.
Slip_prep_always == ~Has("DISABLE")

\* What napi_schedule_prep returns.
PrepOwns == ~Has("DISABLE") /\ ~Has("SCHED")

napi_schedule(c) ==
    /\ hw.irq /\ (hw.ring > 0 \/ hw.edge) /\ At(Irq(c), "rest")
    /\ Bits(PrepBits, {})
    /\ hw' = [hw EXCEPT !.irq = FALSE]
    /\ Go(Irq(c), IF PrepOwns THEN "look" ELSE "rest")
    /\ UNCHANGED <<timer, sd, kthread, admin, mode, busied>>

\* ____napi_schedule: THREADED and the thread are looked at ...
schedule_look(x) ==
    /\ At(x, "look") /\ Runs(x)
    /\ ctx' = [ctx EXCEPT ![x].pc = "put", ![x].to = IF Has("THREADED") /\ kthread.there THEN "thread" ELSE "list"]
    /\ UNCHANGED <<napi, timer, sd, kthread, admin, mode, hw, busied>>

\* ... then the thread owns the instance and is woken, or it is on the list
\* of this CPU, and the softirq raised unless net_rx_action is running.
schedule_put(x) ==
    /\ At(x, "put") /\ Runs(x)
    /\ \/ /\ ctx[x].to = "thread"
          /\ Bits({"SCHED_THREADED"}, {}) /\ UNCHANGED sd
       \/ /\ ctx[x].to = "list"
          /\ \E c \in CpuOf(x) :
               /\ napi' = [napi EXCEPT !.on = <<c, "sd">>]
               /\ sd' = [sd EXCEPT ![c].raised = @ \/ ~sd[c].in]
    /\ Go(x, IF ctx[x].then = "none" THEN "rest" ELSE "polled")
    /\ UNCHANGED <<timer, kthread, admin, mode, hw, busied>>

\* Slip: SCHED is set without a look at what it was.
Slip_watchdog_sets == TRUE

\* napi_watchdog: whether test_and_set_bit finds SCHED clear.
WatchdogOwns == ~Has("SCHED")

\* The timer expires: DISABLE is looked at, then SCHED taken.
timer_expires(c) ==
    /\ timer.armed /\ timer.cb = 0 /\ At(Irq(c), "rest")
    /\ timer' = [armed |-> FALSE, cb |-> c, looked |-> ~Has("DISABLE")]
    /\ UNCHANGED <<napi, sd, ctx, kthread, admin, mode, hw, busied>>

napi_watchdog(c) ==
    /\ timer.cb = c /\ At(Irq(c), "rest")
    /\ timer' = [timer EXCEPT !.cb = 0]
    /\ IF timer.looked /\ WatchdogOwns
       THEN Bits({"SCHED"}, {"PREFER_BUSY_POLL"}) /\ Go(Irq(c), "look") ELSE UNCHANGED <<napi, ctx>>
    /\ UNCHANGED <<sd, kthread, admin, mode, hw, busied>>

--------------------------------------------------------------------------------
\* The driver's poll: it takes up to WEIGHT, and calls napi_complete_done if
\* that was not all.
poll(x) ==
    LET w == IF hw.ring < WEIGHT THEN hw.ring ELSE WEIGHT IN
    /\ At(x, "poll") /\ Runs(x)
    /\ hw' = [hw EXCEPT !.ring = @ - w]
    /\ ctx' = [ctx EXCEPT ![x].pc = IF w = WEIGHT THEN "full" ELSE "complete", ![x].done = w > 0, ![x].then = "driver"]
    /\ UNCHANGED <<napi, timer, sd, kthread, admin, mode, busied>>

\* napi_complete_done: nothing while busy polled. Otherwise the count of
\* deferrals and the timeout, and the instance leaves its list. `held` tells
\* whether GRO holds packets.
napi_complete_done(x, held) ==
    LET count == IF ctx[x].done THEN DEFER ELSE napi.count
        timeout == TIMEOUT /\ (count > 0 \/ (ctx[x].done /\ held))
    IN /\ At(x, "complete") /\ Runs(x)
       /\ IF napi.bits \cap {"NPSVC", "IN_BUSY_POLL"} # {}
          THEN ctx' = [ctx EXCEPT ![x].pc = "polled"] /\ UNCHANGED napi
          ELSE /\ napi' = [napi EXCEPT !.count = IF count > 0 THEN count - 1 ELSE 0, !.on = Nowhere]
               /\ ctx' = [ctx EXCEPT ![x].pc = "cmpxchg", ![x].timeout = timeout, ![x].ret = ~(count > 0 /\ TIMEOUT)]
       /\ UNCHANGED <<timer, sd, kthread, admin, mode, hw, busied>>

\* Slip: an event that was missed is forgotten.
Slip_missed_forgotten == FALSE

\* SCHED is kept for another poll.
PollAgain == Has("MISSED")

\* ... SCHED is given up, unless an event was missed ...
complete_cmpxchg(x) ==
    /\ At(x, "cmpxchg") /\ Runs(x)
    /\ Bits(IF PollAgain THEN {"SCHED"} ELSE {}, {"MISSED", "SCHED", "SCHED_THREADED", "PREFER_BUSY_POLL"})
    /\ ctx' = [ctx EXCEPT ![x].pc = IF PollAgain THEN "look" ELSE IF ctx[x].timeout THEN "arm" ELSE "ret",
                          ![x].ret = @ /\ ~PollAgain]
    /\ UNCHANGED <<timer, sd, kthread, admin, mode, hw, busied>>

\* ... and the timer started.
hrtimer_start(x) ==
    /\ At(x, "arm") /\ Runs(x)
    /\ timer' = [timer EXCEPT !.armed = TRUE]
    /\ Go(x, "ret")
    /\ UNCHANGED <<napi, sd, kthread, admin, mode, hw, busied>>

\* The caller: the driver unmasks its interrupt; __napi_poll schedules again
\* what preferred busy polling; napi_complete ignores the answer.
complete_returns(x) ==
    LET again == ctx[x].ret /\ ctx[x].then = "prefer" IN
    /\ At(x, "ret") /\ Runs(x)
    /\ hw' = [hw EXCEPT !.irq = @ \/ (ctx[x].ret /\ ctx[x].then = "driver" /\ ~hw.edge)]
    /\ IF again THEN Bits(PrepBits, {}) ELSE UNCHANGED napi
    /\ Go(x, IF again /\ PrepOwns THEN "look" ELSE "polled")
    /\ UNCHANGED <<timer, sd, kthread, admin, mode, busied>>

\* __napi_poll after a full WEIGHT: a disable or a busy poller gets the
\* instance, otherwise it is polled again.
poll_full(x) ==
    LET then == IF Has("DISABLE") THEN "ignore" ELSE IF Has("PREFER_BUSY_POLL") THEN "prefer" ELSE "none" IN
    /\ At(x, "full") /\ x # Busy /\ Runs(x)
    /\ ctx' = [ctx EXCEPT ![x].pc = IF then = "none" THEN "repoll" ELSE "complete",
                          ![x].done = then = "prefer", ![x].then = then]
    /\ UNCHANGED <<napi, timer, sd, kthread, admin, mode, hw, busied>>

--------------------------------------------------------------------------------
\* net_rx_action of a CPU: its list is taken over ...
rx_start(c) ==
    /\ Runs(Soft(c)) /\ ((At(Soft(c), "rest") /\ sd[c].raised) \/ At(Soft(c), "restart"))
    /\ sd' = [sd EXCEPT ![c] = [raised |-> FALSE, in |-> TRUE]]
    /\ napi' = [napi EXCEPT !.on = IF @ = <<c, "sd">> THEN <<c, "list">> ELSE @]
    /\ Go(Soft(c), "loop")
    /\ UNCHANGED <<timer, kthread, admin, mode, hw, busied>>

\* ... napi_poll for what is on it; with nothing left, and nothing to poll
\* again, in_net_rx_action is cleared ...
rx_loop(c) ==
    /\ At(Soft(c), "loop") /\ Runs(Soft(c))
    /\ CASE napi.on = <<c, "list">> ->
              /\ napi' = [napi EXCEPT !.on = Nowhere]
              /\ Go(Soft(c), IF Has("SCHED") THEN "poll" ELSE "polled") /\ UNCHANGED sd
         [] napi.on = <<c, "repoll">> -> Go(Soft(c), "punt") /\ UNCHANGED <<napi, sd>>
         [] OTHER -> Go(Soft(c), "check") /\ sd' = [sd EXCEPT ![c].in = FALSE] /\ UNCHANGED napi
    /\ UNCHANGED <<timer, kthread, admin, mode, hw, busied>>

\* Slip: the list is not looked at once more.
Slip_no_look(c) == "rest"

\* ... and the list looked at again.
AfterCheck(c) == IF napi.on = <<c, "sd">> THEN "restart" ELSE "rest"

rx_check(c) ==
    /\ At(Soft(c), "check") /\ Runs(Soft(c))
    /\ Go(Soft(c), AfterCheck(c))
    /\ UNCHANGED <<napi, timer, sd, kthread, admin, mode, hw, busied>>

\* After a poll, with the time or budget used up or not.
rx_polled(c, exhausted) ==
    /\ ctx[Soft(c)].pc \in {"polled", "repoll"} /\ Runs(Soft(c))
    /\ napi' = [napi EXCEPT !.on = IF At(Soft(c), "repoll") THEN <<c, "repoll">> ELSE @]
    /\ ctx' = [ctx EXCEPT ![Soft(c)] = [Rest EXCEPT !.pc = IF exhausted THEN "punt" ELSE "loop"]]
    /\ UNCHANGED <<timer, sd, kthread, admin, mode, hw, busied>>

\* What is left goes back to the list of the CPU, and the softirq is raised.
rx_punt(c) ==
    LET left == napi.on[1] = c IN
    /\ At(Soft(c), "punt") /\ Runs(Soft(c))
    /\ napi' = [napi EXCEPT !.on = IF left THEN <<c, "sd">> ELSE @]
    /\ sd' = [sd EXCEPT ![c] = [raised |-> left \/ sd[c].raised, in |-> left]]
    /\ Go(Soft(c), "rest")
    /\ UNCHANGED <<timer, kthread, admin, mode, hw, busied>>

--------------------------------------------------------------------------------
\* Slip: SCHED is taken for a call to the thread.
Slip_wait_for_sched == Has("SCHED")

\* What napi_thread_wait waits for.
ThreadOwns == Has("SCHED_THREADED")

napi_thread_wait ==
    /\ At(Thread, "wait")
    /\ \/ kthread.stop /\ ctx' = [ctx EXCEPT ![Thread] = Rest]
       \/ ~kthread.stop /\ ThreadOwns /\ ctx' = [ctx EXCEPT ![Thread] = [Rest EXCEPT !.pc = "want", !.to = "thread"]]
    /\ UNCHANGED <<napi, timer, sd, kthread, admin, mode, hw, busied>>

\* Slip: a pending disable is not looked at.
Slip_want_anyway == Has("THREADED_BUSY_POLL")

\* want_busy_poll
WantBusyPoll == Has("THREADED_BUSY_POLL") /\ ~Has("DISABLE")

\* napi_threaded_poll: whether to busy poll is read off the state ...
threaded_want ==
    /\ At(Thread, "want")
    /\ ctx' = [ctx EXCEPT ![Thread].pc = "assign", ![Thread].ret = WantBusyPoll]
    /\ UNCHANGED <<napi, timer, sd, kthread, admin, mode, hw, busied>>

\* ... and written to it; then it polls, again as long as a poll was full.
threaded_assign ==
    /\ At(Thread, "assign")
    /\ IF ctx[Thread].ret THEN Bits({"IN_BUSY_POLL"}, {}) ELSE Bits({}, {"IN_BUSY_POLL"})
    /\ Go(Thread, "poll")
    /\ UNCHANGED <<timer, sd, kthread, admin, mode, hw, busied>>

threaded_polled ==
    /\ At(Thread, "polled") \/ At(Thread, "repoll")
    /\ Go(Thread, IF At(Thread, "repoll") THEN "poll" ELSE "wait")
    /\ UNCHANGED <<napi, timer, sd, kthread, admin, mode, hw, busied>>

--------------------------------------------------------------------------------
\* __napi_busy_loop, under rcu_read_lock: the instance is looked up ...
busy_begins ==
    /\ At(Busy, "rest") /\ busied < MaxBusy /\ napi.hashed
    /\ busied' = busied + 1
    /\ Go(Busy, "try")
    /\ UNCHANGED <<napi, timer, sd, kthread, admin, mode, hw>>

\* ... and taken with a cmpxchg, or a wish left for who has it.
busy_try ==
    LET taken == napi.bits \cap {"DISABLE", "SCHED", "IN_BUSY_POLL"} # {} IN
    /\ At(Busy, "try")
    /\ IF taken THEN Bits(IF PREFER THEN {"PREFER_BUSY_POLL"} ELSE {}, {}) ELSE Bits({"IN_BUSY_POLL", "SCHED"}, {})
    /\ Go(Busy, IF taken THEN "retry" ELSE "poll")
    /\ UNCHANGED <<timer, sd, kthread, admin, mode, hw, busied>>

\* loop_end and need_resched: another round or the end.
busy_round(again) ==
    /\ \/ /\ At(Busy, "retry") /\ Go(Busy, IF again THEN "try" ELSE "rest")
       \/ /\ (At(Busy, "polled") \/ At(Busy, "full")) /\ ~ctx[Busy].stop
          /\ Go(Busy, IF again THEN "poll" ELSE "stop")
    /\ UNCHANGED <<napi, timer, sd, kthread, admin, mode, hw, busied>>

\* busy_poll_stop: MISSED goes, then IN_BUSY_POLL ...
busy_poll_stop ==
    /\ At(Busy, "stop")
    /\ Bits({}, {"MISSED"}) /\ Go(Busy, "stop2")
    /\ UNCHANGED <<timer, sd, kthread, admin, mode, hw, busied>>

\* ... the count of deferrals is set, and the instance polled once more.
busy_last_poll ==
    /\ At(Busy, "stop2")
    /\ napi' = [napi EXCEPT !.bits = @ \ {"IN_BUSY_POLL"}, !.count = IF PREFER THEN DEFER ELSE @]
    /\ ctx' = [ctx EXCEPT ![Busy].pc = "poll", ![Busy].stop = TRUE]
    /\ UNCHANGED <<timer, sd, kthread, admin, mode, hw, busied>>

\* __busy_poll_stop, if that poll was full: scheduled, or left to the timer.
busy_stopped_full ==
    LET timeout == PREFER /\ DEFER > 0 /\ TIMEOUT IN
    /\ At(Busy, "full") /\ ctx[Busy].stop
    /\ IF timeout THEN Bits({}, {"SCHED"}) ELSE UNCHANGED napi
    /\ ctx' = [ctx EXCEPT ![Busy].pc = IF timeout THEN "arm" ELSE "look", ![Busy].ret = FALSE]
    /\ UNCHANGED <<timer, sd, kthread, admin, mode, hw, busied>>

busy_ends ==
    /\ At(Busy, "polled") /\ ctx[Busy].stop
    /\ ctx' = [ctx EXCEPT ![Busy] = Rest]
    /\ UNCHANGED <<napi, timer, sd, kthread, admin, mode, hw, busied>>

--------------------------------------------------------------------------------
Admin(pc) == admin' = [admin EXCEPT !.pc = pc]
Begin(pc) == admin.left > 0 /\ admin' = [pc |-> pc, left |-> admin.left - 1]
ModeBits(m) == (IF m = "off" THEN {} ELSE {"THREADED"}) \cup (IF m = "busy" THEN {"THREADED_BUSY_POLL"} ELSE {})

\* napi_kthread_create
CreateThread(T) == [T EXCEPT ![Thread] = [Rest EXCEPT !.pc = "wait"]]

\* netif_napi_add_weight_locked: disabled, with a thread if one is wanted.
netif_napi_add ==
    /\ admin.pc = "absent" /\ Begin("down")
    /\ napi' = [bits |-> {"LISTED", "SCHED", "NPSVC"}, on |-> Nowhere, count |-> 0, hashed |-> FALSE]
    /\ kthread' = [there |-> mode # "off", stop |-> FALSE]
    /\ ctx' = IF mode # "off" THEN CreateThread(ctx) ELSE ctx
    /\ UNCHANGED <<timer, sd, mode, hw, busied>>

\* napi_enable_locked: hashed, the mode restored if there is a config, then
\* SCHED given up. The driver unmasks its interrupt.
napi_enable ==
    /\ admin.pc = "down" /\ Begin("up")
    /\ napi' = [napi EXCEPT !.hashed = TRUE,
                            !.bits = (@ \ {"SCHED", "NPSVC"}) \cup (IF CONFIG THEN ModeBits(mode) ELSE {})
                                       \cup (IF mode # "off" /\ kthread.there THEN {"THREADED"} ELSE {})]
    /\ hw' = [hw EXCEPT !.irq = TRUE]
    /\ UNCHANGED <<timer, sd, ctx, kthread, mode, busied>>

\* napi_disable_locked: DISABLE keeps others from scheduling ...
disable_begins ==
    /\ admin.pc = "up" /\ Begin("disable")
    /\ Bits({"DISABLE"}, {})
    /\ UNCHANGED <<timer, sd, ctx, kthread, mode, hw, busied>>

\* Slip: only NPSVC is waited for.
Slip_wait_for_npsvc == ~Has("NPSVC")

\* What napi_disable waits for.
MayDisable == ~Has("SCHED") /\ ~Has("NPSVC")

\* ... SCHED is waited for and taken ...
disable_takes ==
    /\ admin.pc = "disable" /\ MayDisable
    /\ Bits({"SCHED", "NPSVC"}, {"THREADED", "THREADED_BUSY_POLL", "PREFER_BUSY_POLL"})
    /\ Admin("cancel")
    /\ UNCHANGED <<timer, sd, ctx, kthread, mode, hw, busied>>

\* ... the timer cancelled, when its callback is over ...
hrtimer_cancel ==
    /\ admin.pc = "cancel" /\ timer.cb = 0
    /\ timer' = [timer EXCEPT !.armed = FALSE]
    /\ Admin("unhash")
    /\ UNCHANGED <<napi, sd, ctx, kthread, mode, hw, busied>>

\* ... and the instance found by nobody any more.
disable_ends ==
    /\ admin.pc = "unhash"
    /\ napi' = [napi EXCEPT !.hashed = FALSE, !.bits = @ \ {"DISABLE"}]
    /\ Admin("down")
    /\ UNCHANGED <<timer, sd, ctx, kthread, mode, hw, busied>>

\* netif_set_threaded, napi_set_threaded: the thread is created if needed and
\* the bits set, or the thread stopped.
Settled == IF napi.hashed THEN "up" ELSE "down"
netif_set_threaded(m) ==
    LET stop == m = "off" /\ kthread.there IN
    /\ admin.pc \in {"up", "down"} /\ (admin.pc = "down" => SWITCH_DOWN) /\ m # mode
    /\ mode' = m
    /\ Begin(IF stop THEN "unthread" ELSE Settled)
    /\ kthread' = [kthread EXCEPT !.there = @ \/ m # "off"]
    /\ ctx' = IF m # "off" /\ ~kthread.there THEN CreateThread(ctx) ELSE ctx
    /\ IF stop THEN UNCHANGED napi ELSE Bits(ModeBits(m), {"THREADED", "THREADED_BUSY_POLL"})
    /\ UNCHANGED <<timer, sd, hw, busied>>

\* Slip: THREADED is cleared at once.
Slip_unset_at_once == TRUE

\* napi_stop_kthread: the thread has the instance, or nobody.
MayUnset == Has("SCHED_THREADED") \/ ~Has("SCHED")

stop_unset ==
    /\ admin.pc = "unthread" /\ MayUnset
    /\ Bits({}, {"THREADED", "THREADED_BUSY_POLL"})
    /\ Admin("unthread2")
    /\ UNCHANGED <<timer, sd, ctx, kthread, mode, hw, busied>>

\* Once the thread is through, it is stopped ...
kthread_stop ==
    /\ admin.pc \in {"unthread2", "delthread"} /\ ~kthread.stop
    /\ admin.pc = "unthread2" => ~Has("SCHED_THREADED")
    /\ kthread' = [kthread EXCEPT !.stop = TRUE]
    /\ UNCHANGED <<napi, timer, sd, ctx, admin, mode, hw, busied>>

\* ... and has ended.
thread_stopped ==
    /\ kthread.stop /\ At(Thread, "rest")
    /\ kthread' = [there |-> FALSE, stop |-> FALSE]
    /\ Admin(IF admin.pc = "delthread" THEN "free" ELSE Settled)
    /\ UNCHANGED <<napi, timer, sd, ctx, mode, hw, busied>>

\* __netif_napi_del_locked, of a disabled instance ...
netif_napi_del ==
    /\ admin.pc = "down" /\ Begin(IF kthread.there THEN "delthread" ELSE "free")
    /\ Bits({}, {"LISTED"})
    /\ hw' = [hw EXCEPT !.irq = FALSE, !.ring = 0]
    /\ UNCHANGED <<timer, sd, ctx, kthread, mode, busied>>

\* ... whose memory is free after a grace period: nobody is in a softirq or
\* in the busy loop that was there when it began.
napi_freed ==
    /\ admin.pc = "free" /\ \A x \in Contexts \ {Thread} : At(x, "rest")
    /\ Admin("absent")
    /\ napi' = [bits |-> {}, on |-> Nowhere, count |-> 0, hashed |-> FALSE]
    /\ UNCHANGED <<timer, sd, ctx, kthread, mode, hw, busied>>

--------------------------------------------------------------------------------
PollStep(x) ==
    \/ schedule_look(x) \/ schedule_put(x) \/ poll(x) \/ (\E held \in BOOLEAN : napi_complete_done(x, held))
    \/ complete_cmpxchg(x) \/ hrtimer_start(x) \/ complete_returns(x) \/ poll_full(x)

RxStep(c) ==
    rx_start(c) \/ rx_loop(c) \/ rx_check(c) \/ (\E e \in BOOLEAN : rx_polled(c, e)) \/ rx_punt(c)

ThreadStep == napi_thread_wait \/ threaded_want \/ threaded_assign \/ threaded_polled

BusyStep == busy_try \/ busy_round(FALSE) \/ busy_poll_stop \/ busy_last_poll \/ busy_stopped_full \/ busy_ends

AdminEnds ==
    disable_takes \/ hrtimer_cancel \/ disable_ends \/ stop_unset \/ kthread_stop \/ thread_stopped \/ napi_freed

Next ==
    \/ device_receives
    \/ \E c \in NdCpus : napi_schedule(c) \/ timer_expires(c) \/ napi_watchdog(c) \/ RxStep(c)
    \/ \E x \in Contexts : PollStep(x)
    \/ ThreadStep \/ busy_begins \/ BusyStep \/ busy_round(TRUE)
    \/ netif_napi_add \/ napi_enable \/ disable_begins \/ netif_napi_del \/ AdminEnds
    \/ \E m \in Modes : netif_set_threaded(m)

Spec == Init /\ [][Next]_nd_vars

\* Interrupts, softirqs, the thread and the timer run; a busy poll ends.
Fairness ==
    /\ \A c \in NdCpus : WF_nd_vars(RxStep(c) \/ PollStep(Soft(c))) /\ WF_nd_vars(PollStep(Irq(c)))
    /\ WF_nd_vars(\E c \in NdCpus : napi_schedule(c)) /\ WF_nd_vars(\E c \in NdCpus : timer_expires(c) \/ napi_watchdog(c))
    /\ WF_nd_vars(ThreadStep \/ PollStep(Thread)) /\ WF_nd_vars(BusyStep \/ PollStep(Busy))
    /\ SF_nd_vars(busy_round(FALSE)) /\ WF_nd_vars(AdminEnds)

FairSpec == Spec /\ Fairness

--------------------------------------------------------------------------------
Polling == {x \in Contexts : ctx[x].pc \in {"want", "assign", "poll", "full", "complete", "cmpxchg", "repoll", "stop", "stop2"}
                              \/ (x = Busy /\ At(x, "polled") /\ ~ctx[x].stop)}

\* napi_schedule_prep: "insure only one NAPI poll instance runs": the interrupt,
\* the timer, the softirqs, the thread and the busy poller never poll at once.
OnePoller == Cardinality(Polling) <= 1

\* SCHED has exactly one owner: a context that schedules or polls, a list, the
\* thread that was called, or who disabled the instance; and without it none.
ScheduledOnce ==
    Cardinality({x \in Contexts : ctx[x].pc \in {"look", "put"}} \cup (Polling \ {Thread}))
      + (IF napi.on # Nowhere THEN 1 ELSE 0) + (IF Has("SCHED_THREADED") THEN 1 ELSE 0)
      + (IF Has("NPSVC") THEN 1 ELSE 0)
    = IF Has("SCHED") THEN 1 ELSE 0

\* A packet in the device of an enabled instance has somebody to fetch it: the
\* interrupt is unmasked, the instance is scheduled, the timer runs, or a poll
\* that ends is about to start or unmask one of them.
NoEventLost ==
    (hw.ring > 0 /\ admin.pc = "up") =>
      \/ hw.irq \/ Has("SCHED") \/ timer.armed \/ timer.cb # 0
      \/ \E x \in Contexts : At(x, "arm") \/ (At(x, "ret") /\ ctx[x].ret)

\* Who has the instance will run: a list has its softirq raised or running, and
\* the thread that was called is there and not being stopped.
OwnerRuns ==
    /\ napi.on # Nowhere => LET c == napi.on[1] IN sd[c].raised \/ ctx[Soft(c)].pc # "rest"
    /\ Has("SCHED_THREADED") => kthread.there /\ ~kthread.stop

\* napi_disable: "Waits till any outstanding processing completes." Until it is
\* enabled again nobody polls the instance or has it on a list.
DisabledIsQuiet ==
    admin.pc \in {"cancel", "unhash", "down", "delthread", "free"} =>
      Polling = {} /\ napi.on = Nowhere /\ ~Has("SCHED_THREADED")

\* The instance as a whole: softirq, kthread and busy polling never poll it at
\* once, SCHED has one owner and that one will poll, packets of an idle instance
\* have a wake coming, and a disabled one is quiet.
NapiOnePollerNoneLost ==
    /\ OnePoller
    /\ ScheduledOnce
    /\ NoEventLost
    /\ OwnerRuns
    /\ DisabledIsQuiet

\* A packet is fetched, unless the instance is disabled.
PacketsFetched == []<>(hw.ring = 0 \/ admin.pc # "up")

\* napi_disable, netif_napi_del and the switch of the mode come to an end.
AdminReturns == []<>(admin.pc \in {"absent", "down", "up"})

================================================================================
