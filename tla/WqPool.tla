-------------------------------- MODULE WqPool --------------------------------
(***************************************************************************)
(* The worker pools of kernel/workqueue.c, one per CPU, as WireGuard's      *)
(* packet_crypt_wq uses them: work items queued on a CPU, workers that      *)
(* sleep, wake each other and keep one of them running (nr_running), the    *)
(* manager that makes new ones, the rescuer that runs the items when no     *)
(* worker can be made, max_active, and CPUs that go away and come back.     *)
(*                                                                         *)
(* A section under pool->lock is one action, or several with the lock held; *)
(* the function of a work item runs without it.                             *)
(***************************************************************************)
EXTENDS Integers, SequencesExt, FiniteSetsExt

CONSTANTS
    Pools,          \* the pools, each of one CPU
    Workers,        \* workers that may exist
    PoolOf,         \* the pool each would belong to
    FirstWorkers,   \* those made at boot (workqueue_init)
    Works,          \* work items of the workqueue
    Intensive,      \* is it WQ_CPU_INTENSIVE, as packet_crypt_wq is?
    MAX_ACTIVE,     \* items of the workqueue active on a pool
    KEEP_IDLE,      \* idle workers a pool keeps (2)
    Hotplugs        \* bound: how often the CPU of a pool goes or comes

VARIABLES
    workers,    \* each worker: where it stands, flags, current item, scheduled items
    pool,       \* each pool
    work,       \* each item: PENDING, and the pool it ran on last
    maydays,    \* wq->maydays
    hotplugs

wp_vars == <<workers, pool, work, maydays, hotplugs>>

Rescuer == "rescuer"
Everyone == Workers \cup {Rescuer}
None == "none"
NOT_RUNNING == {"PREP", "CPU_INTENSIVE", "UNBOUND", "REBOUND"}

Unborn == [pc |-> "unborn", flags |-> {}, sleeping |-> FALSE, woken |-> FALSE, slept |-> FALSE,
           cur |-> None, sched |-> <<>>, on |-> None]

FirstOf(p) == SetToSeq({w \in FirstWorkers : PoolOf[w] = p})

Init ==
    /\ workers = [w \in Everyone |->
         IF w \in FirstWorkers THEN [Unborn EXCEPT !.pc = "idle", !.flags = {"PREP"}, !.on = PoolOf[w]]
         ELSE IF w = Rescuer THEN [Unborn EXCEPT !.pc = "off", !.flags = {"PREP"}] ELSE Unborn]
    /\ pool = [p \in Pools |-> [worklist |-> <<>>, inactive |-> <<>>, nr_active |-> 0, nr_running |-> 0,
                                idle |-> FirstOf(p), manager |-> FALSE, lock |-> None, bound |-> TRUE]]
    /\ work = [k \in Works |-> [pending |-> FALSE, last |-> None]]
    /\ maydays = <<>> /\ hotplugs = 0

--------------------------------------------------------------------------------
\* A pool P together with the workers W, changed under the pool's lock.
NotRunning(W, w) == W[w].flags \cap NOT_RUNNING # {}
Both(P, W) == [p |-> P, w |-> W]

need_more_worker(P) == P.worklist # <<>> /\ P.nr_running = 0
keep_working(P) == P.worklist # <<>> /\ P.nr_running <= 1

\* Slip: a pool that has a manager is thought to have what it needs.
Slip_manager_suffices(P) == need_more_worker(P) /\ P.idle = <<>> /\ ~P.manager

need_to_create_worker(P) == need_more_worker(P) /\ P.idle = <<>>

\* The first idle worker is woken if one is needed.
kick_pool(s) ==
    IF need_more_worker(s.p) /\ s.p.idle # <<>>
    THEN [s EXCEPT !.w[Head(s.p.idle)].woken = TRUE] ELSE s

worker_set_flags(s, w, f) ==
    [s EXCEPT !.p.nr_running = IF f \cap NOT_RUNNING # {} /\ ~NotRunning(s.w, w) THEN @ - 1 ELSE @,
              !.w[w].flags = @ \cup f]

\* Slip: clearing any of the flags makes the worker count as running.
Slip_clear_counts(s, w, f) ==
    [s EXCEPT !.p.nr_running = IF s.w[w].flags \cap f # {} THEN @ + 1 ELSE @,
              !.w[w].flags = @ \ f]

\* Only the last of the NOT_RUNNING flags to go makes the worker count.
worker_clr_flags(s, w, f) ==
    [s EXCEPT !.p.nr_running = IF NotRunning(s.w, w) /\ (s.w[w].flags \ f) \cap NOT_RUNNING = {}
                               THEN @ + 1 ELSE @,
              !.w[w].flags = @ \ f]

worker_enter_idle(s, w) ==
    [s EXCEPT !.p.idle = <<w>> \o @, !.p.lock = None, !.w[w].pc = "idle", !.w[w].woken = FALSE]

Put(p, s) == pool' = [pool EXCEPT ![p] = s.p] /\ workers' = s.w
State(p) == Both(pool[p], workers)
Locked(w) == pool[workers[w].on].lock = w
Free(p) == pool[p].lock = None

--------------------------------------------------------------------------------
Executing(p, k) == {w \in Everyone : workers[w].on = p /\ workers[w].cur = k}

\* Slip: the pool the item ran on last is not asked.
Slip_requested_pool(c, k) == c

\* An item still running on another pool is queued there.
TargetPool(c, k) ==
    LET last == work[k].last
    IN IF last # None /\ last # c /\ Executing(last, k) # {} THEN last ELSE c

\* queue_work_on: PENDING is taken, the pool chosen, and the item put on its
\* worklist, or behind those that wait for max_active.
queue_work_on(c, k) ==
    LET p == TargetPool(c, k)
        active == pool[p].inactive = <<>> /\ pool[p].nr_active < MAX_ACTIVE
        s == State(p)
    IN /\ ~work[k].pending /\ Free(p)
       /\ work[k].last # None => Free(work[k].last)
       /\ work' = [work EXCEPT ![k].pending = TRUE]
       /\ IF active
          THEN Put(p, kick_pool([s EXCEPT !.p.worklist = Append(@, k), !.p.nr_active = @ + 1]))
          ELSE Put(p, [s EXCEPT !.p.inactive = Append(@, k)])
       /\ UNCHANGED <<maydays, hotplugs>>

--------------------------------------------------------------------------------
\* worker_thread, from the wake-up: out of the idle list, or out of existence.
woke_up(w) ==
    LET p == workers[w].on  s == State(p)
    IN /\ workers[w].pc = "idle" /\ workers[w].woken /\ Free(p)
       /\ IF "DIE" \in workers[w].flags
          THEN Put(p, [s EXCEPT !.w[w] = Unborn])
          ELSE Put(p, [s EXCEPT !.p.idle = SelectSeq(@, LAMBDA v : v # w), !.p.lock = w,
                                !.w[w].pc = "recheck", !.w[w].woken = FALSE])
       /\ UNCHANGED <<work, maydays, hotplugs>>

\* Nothing to do; or no idle worker is left, and this one becomes the manager;
\* or it starts working.
recheck(w) ==
    LET p == workers[w].on  s == State(p)
    IN /\ workers[w].pc = "recheck" /\ Locked(w)
       /\ CASE ~need_more_worker(pool[p]) -> Put(p, worker_enter_idle(s, w))
            [] need_more_worker(pool[p]) /\ pool[p].idle = <<>> /\ ~pool[p].manager ->
                 Put(p, [s EXCEPT !.p.manager = TRUE, !.p.lock = None, !.w[w].pc = "manage"])
            [] OTHER -> Put(p, [worker_clr_flags(s, w, {"PREP", "REBOUND"}) EXCEPT !.w[w].pc = "loop"])
       /\ UNCHANGED <<work, maydays, hotplugs>>

\* The end of the loop: the next item, or back to sleep.
AfterWorks(s, w) ==
    IF keep_working(s.p) THEN [s EXCEPT !.w[w].pc = "loop"]
    ELSE worker_enter_idle(worker_set_flags(s, w, {"PREP"}), w)

\* Slip: an item that is being executed is started all the same.
Slip_no_collision(s, w, k) == [s EXCEPT !.w[w].sched = Append(@, k), !.w[w].pc = "next"]

\* assign_work: an item that another worker is executing is left to that worker.
assign_work(s, w, k) ==
    LET busy == {v \in Everyone : s.w[v].on = s.w[w].on /\ s.w[v].cur = k}
    IN IF busy = {} THEN [s EXCEPT !.w[w].sched = Append(@, k), !.w[w].pc = "next"]
       ELSE [s EXCEPT !.w[CHOOSE v \in busy : TRUE].sched = Append(@, k)]

worker_loop(w) ==
    LET p == workers[w].on
        k == Head(pool[p].worklist)
        s == assign_work([State(p) EXCEPT !.p.worklist = Tail(@)], w, k)
    IN /\ workers[w].pc = "loop" /\ Locked(w)
       /\ Put(p, IF s.w[w].pc = "next" THEN s ELSE AfterWorks(s, w))
       /\ UNCHANGED <<work, maydays, hotplugs>>

\* process_one_work up to the call of the function: the item leaves the list,
\* another worker is woken if this one no longer counts, PENDING goes last.
process_one_work(w) ==
    LET p == workers[w].on
        k == Head(workers[w].sched)
        s == [State(p) EXCEPT !.w[w].cur = k, !.w[w].sched = Tail(@), !.w[w].pc = "run",
                              !.w[w].slept = FALSE, !.p.lock = None]
    IN /\ workers[w].pc = "next" /\ Locked(w) /\ workers[w].sched # <<>>
       /\ Put(p, kick_pool(IF Intensive THEN worker_set_flags(s, w, {"CPU_INTENSIVE"}) ELSE s))
       /\ work' = [work EXCEPT ![k] = [pending |-> FALSE, last |-> p]]
       /\ UNCHANGED <<maydays, hotplugs>>

no_more_scheduled(w) ==
    /\ workers[w].pc = "next" /\ Locked(w) /\ workers[w].sched = <<>>
    /\ Put(workers[w].on, IF w = Rescuer THEN [State(workers[w].on) EXCEPT !.w[w].pc = "rescue"]
                          ELSE AfterWorks(State(workers[w].on), w))
    /\ UNCHANGED <<work, maydays, hotplugs>>

\* Slip: the item that ends makes room, and nobody takes it.
Slip_none_activated(P) == [P EXCEPT !.nr_active = @ - 1]

\* pwq_dec_nr_active: the first item that waits for max_active takes the place.
pwq_dec_nr_active(P) ==
    IF P.inactive # <<>> /\ P.nr_active - 1 < MAX_ACTIVE
    THEN [P EXCEPT !.inactive = Tail(@), !.worklist = Append(@, Head(P.inactive))]
    ELSE [P EXCEPT !.nr_active = @ - 1]

\* The function has returned.
work_done(w) ==
    LET p == workers[w].on
        s == worker_clr_flags([State(p) EXCEPT !.w[w].cur = None, !.w[w].pc = "next", !.p.lock = w],
                              w, {"CPU_INTENSIVE"})
    IN /\ workers[w].pc = "run" /\ Free(p)
       /\ Put(p, [s EXCEPT !.p = pwq_dec_nr_active(s.p)])
       /\ UNCHANGED <<work, maydays, hotplugs>>

--------------------------------------------------------------------------------
\* The function blocks (once, here).  A worker that counts says so first, then
\* takes the lock and looks again, since the CPU may have gone in between.
wq_worker_sleeping(w) ==
    /\ workers[w].pc = "run" /\ ~workers[w].slept
    /\ workers' = [workers EXCEPT ![w].slept = TRUE,
                                  ![w].sleeping = ~NotRunning(workers, w),
                                  ![w].pc = IF NotRunning(workers, w) THEN "blocked" ELSE "falling"]
    /\ UNCHANGED <<pool, work, maydays, hotplugs>>

\* Slip: nobody is woken in place of the worker that sleeps.
Slip_sleep_quietly(w) ==
    LET p == workers[w].on
        s == [State(p) EXCEPT !.w[w].pc = "blocked"]
    IN /\ workers[w].pc = "falling" /\ Free(p)
       /\ Put(p, IF NotRunning(workers, w) THEN s ELSE [s EXCEPT !.p.nr_running = @ - 1])
       /\ UNCHANGED <<work, maydays, hotplugs>>

worker_sleeps(w) ==
    LET p == workers[w].on
        s == [State(p) EXCEPT !.w[w].pc = "blocked"]
    IN /\ workers[w].pc = "falling" /\ Free(p)
       /\ Put(p, IF NotRunning(workers, w) THEN s ELSE kick_pool([s EXCEPT !.p.nr_running = @ - 1]))
       /\ UNCHANGED <<work, maydays, hotplugs>>

wq_worker_running(w) ==
    LET p == workers[w].on
        counts == workers[w].sleeping /\ ~NotRunning(workers, w)
    IN /\ workers[w].pc = "blocked" /\ Free(p)
       /\ Put(p, [State(p) EXCEPT !.w[w].pc = "run", !.w[w].sleeping = FALSE,
                                  !.p.nr_running = IF counts THEN @ + 1 ELSE @])
       /\ UNCHANGED <<work, maydays, hotplugs>>

\* A function that hogs the CPU: its worker no longer counts.
wq_worker_tick(w) ==
    LET p == workers[w].on
    IN /\ workers[w].pc = "run" /\ ~NotRunning(workers, w) /\ ~workers[w].sleeping /\ Free(p)
       /\ Put(p, kick_pool(worker_set_flags(State(p), w, {"CPU_INTENSIVE"})))
       /\ UNCHANGED <<work, maydays, hotplugs>>

--------------------------------------------------------------------------------
\* The manager makes a worker, if memory can be had, as long as one is needed.
create_worker(w) ==
    LET p == workers[w].on
    IN /\ workers[w].pc = "manage" /\ Free(p)
       /\ \E v \in Workers :
            /\ PoolOf[v] = p /\ workers[v].pc = "unborn"
            /\ Put(p, [State(p) EXCEPT !.p.idle = <<v>> \o @,
                         !.w[v] = [Unborn EXCEPT !.pc = "idle", !.woken = TRUE, !.on = p,
                                                 !.flags = {"PREP"} \cup (IF pool[p].bound THEN {} ELSE {"UNBOUND"})]])
       /\ UNCHANGED <<work, maydays, hotplugs>>

maybe_create_worker(w) ==
    LET p == workers[w].on
    IN /\ workers[w].pc = "manage" /\ Free(p) /\ ~need_to_create_worker(pool[p])
       /\ Put(p, [State(p) EXCEPT !.p.manager = FALSE, !.p.lock = w, !.w[w].pc = "recheck"])
       /\ UNCHANGED <<work, maydays, hotplugs>>

\* Still no worker after a while: the rescuer is called.
pool_mayday_timeout(p) ==
    /\ pool[p].manager /\ Free(p) /\ need_to_create_worker(pool[p])
    /\ p \notin ToSet(maydays)
    /\ maydays' = Append(maydays, p)
    /\ UNCHANGED <<workers, pool, work, hotplugs>>

\* The rescuer joins the first pool that called.
rescuer_attach ==
    /\ workers[Rescuer].pc = "off" /\ maydays # <<>>
    /\ LET p == Head(maydays)
       IN /\ Free(p)
          /\ Put(p, [State(p) EXCEPT !.p.lock = Rescuer, !.w[Rescuer].pc = "rescue", !.w[Rescuer].on = p,
                       !.w[Rescuer].flags = {"PREP"} \cup (IF pool[p].bound THEN {} ELSE {"UNBOUND"})])
    /\ maydays' = Tail(maydays)
    /\ UNCHANGED <<work, hotplugs>>

RescuerLeaves(s) ==
    LET left == kick_pool([s EXCEPT !.p.lock = None])
    IN [left EXCEPT !.w[Rescuer] = [Unborn EXCEPT !.pc = "off", !.flags = {"PREP"}]]

\* It takes an item while the pool has active ones and cannot help itself, or
\* is still short of memory and nobody else calls; then it leaves.  One called
\* elsewhere in the meantime may put this pool back and go.
rescuer_thread ==
    LET p == workers[Rescuer].on
        P == pool[p]
        takes == P.nr_active > 0 /\ (need_to_create_worker(P) \/ (P.manager /\ maydays = <<>>))
    IN /\ workers[Rescuer].pc = "rescue" /\ Locked(Rescuer)
       /\ \/ /\ takes /\ P.worklist # <<>>
             /\ Put(p, assign_work([State(p) EXCEPT !.p.worklist = Tail(@)], Rescuer, Head(P.worklist)))
             /\ UNCHANGED maydays
          \/ /\ ~takes \/ P.worklist = <<>>
             /\ Put(p, RescuerLeaves(State(p)))
             /\ UNCHANGED maydays
          \/ /\ takes /\ maydays # <<>>
             /\ Put(p, RescuerLeaves(State(p)))
             /\ maydays' = IF p \in ToSet(maydays) THEN maydays ELSE Append(maydays, p)
       /\ UNCHANGED <<work, hotplugs>>

--------------------------------------------------------------------------------
\* Too many idle workers, the manager among them?
too_many_workers(P, nr_workers) ==
    LET nr_idle == Len(P.idle) + (IF P.manager THEN 1 ELSE 0)
    IN  nr_idle > KEEP_IDLE /\ (nr_idle - KEEP_IDLE) * 4 >= nr_workers - nr_idle

\* idle_cull_fn, when they have been idle for too long: the oldest is told to die.
idle_cull(p) ==
    LET mine == {w \in Workers : workers[w].on = p}
    IN /\ Free(p) /\ too_many_workers(pool[p], Cardinality(mine))
       /\ Put(p, [State(p) EXCEPT !.p.idle = Front(@), !.w[Last(pool[p].idle)].flags = @ \cup {"DIE"},
                                  !.w[Last(pool[p].idle)].woken = TRUE])
       /\ UNCHANGED <<work, maydays, hotplugs>>

\* The CPU goes: no worker counts any more.
unbind_workers(p) ==
    /\ Free(p) /\ pool[p].bound /\ hotplugs < Hotplugs
    /\ Put(p, kick_pool([State(p) EXCEPT !.p.bound = FALSE, !.p.nr_running = 0,
         !.w = [w \in Everyone |-> IF workers[w].on = p
                  THEN [workers[w] EXCEPT !.flags = @ \cup {"UNBOUND"}] ELSE workers[w]]]))
    /\ hotplugs' = hotplugs + 1
    /\ UNCHANGED <<work, maydays>>

\* Slip: the workers count again as soon as the CPU is back.
Slip_rebound_at_once(p) ==
    /\ Free(p) /\ ~pool[p].bound /\ hotplugs < Hotplugs
    /\ Put(p, [State(p) EXCEPT !.p.bound = TRUE,
         !.w = [w \in Everyone |-> IF workers[w].on = p
                  THEN [workers[w] EXCEPT !.flags = @ \ {"UNBOUND"}] ELSE workers[w]]])
    /\ hotplugs' = hotplugs + 1
    /\ UNCHANGED <<work, maydays>>

\* It comes back: each worker counts again from its next round on.
rebind_workers(p) ==
    /\ Free(p) /\ ~pool[p].bound /\ hotplugs < Hotplugs
    /\ Put(p, [State(p) EXCEPT !.p.bound = TRUE,
         !.w = [w \in Everyone |-> IF workers[w].on = p
                  THEN [workers[w] EXCEPT !.flags = (@ \ {"UNBOUND"}) \cup {"REBOUND"}] ELSE workers[w]]])
    /\ hotplugs' = hotplugs + 1
    /\ UNCHANGED <<work, maydays>>

--------------------------------------------------------------------------------
WorkerStep(w) == recheck(w) \/ worker_loop(w) \/ process_one_work(w) \/ no_more_scheduled(w)
FunctionStep(w) == work_done(w) \/ worker_sleeps(w) \/ wq_worker_running(w)

Next ==
    \/ \E k \in Works, c \in Pools : queue_work_on(c, k)
    \/ \E w \in Workers : woke_up(w) \/ create_worker(w) \/ maybe_create_worker(w)
    \/ \E w \in Everyone : WorkerStep(w) \/ FunctionStep(w) \/ wq_worker_sleeping(w) \/ wq_worker_tick(w)
    \/ rescuer_attach \/ rescuer_thread
    \/ \E p \in Pools : pool_mayday_timeout(p) \/ idle_cull(p) \/ unbind_workers(p) \/ rebind_workers(p)

Spec == Init /\ [][Next]_wp_vars

\* Workers run, functions return, and the rescuer answers.  Nothing promises
\* that a worker can be made.
Fairness ==
    /\ \A w \in Everyone : WF_wp_vars(WorkerStep(w)) /\ WF_wp_vars(FunctionStep(w))
    /\ \A w \in Workers : WF_wp_vars(woke_up(w)) /\ WF_wp_vars(maybe_create_worker(w))
    /\ \A p \in Pools : WF_wp_vars(pool_mayday_timeout(p))
    /\ WF_wp_vars(rescuer_attach) /\ WF_wp_vars(rescuer_thread)

--------------------------------------------------------------------------------
(* An item is never executed by two workers at once, even if it is queued     *)
(* again on another CPU while it runs, or taken by the rescuer.               *)
NonReentrant ==
    \A k \in Works : Cardinality({w \in Everyone : workers[w].cur = k}) <= 1

(* nr_running counts the workers that are executing or about to, do not sleep *)
(* and take part in concurrency management, through sleeps, ticks and CPUs    *)
(* that go and come.                                                          *)
Counts(w) == ~NotRunning(workers, w) /\ ~(workers[w].pc = "blocked" /\ workers[w].sleeping)
NrRunningExact ==
    \A p \in Pools : pool[p].nr_running = Cardinality({w \in Everyone : workers[w].on = p /\ Counts(w)})

(* A pool with items to run is never left alone: a worker counts as running,  *)
(* or one is awake or being made, or the rescuer is at it.                    *)
PoolIsServed ==
    \A p \in Pools : pool[p].worklist # <<>> =>
        \/ pool[p].nr_running > 0 \/ pool[p].manager \/ pool[p].lock # None
        \/ \E w \in Everyone : workers[w].on = p /\ workers[w].woken /\ workers[w].pc = "idle"
                                 /\ "DIE" \notin workers[w].flags

(* No more items are active on a pool than max_active allows, the count being *)
(* exact, and none waits while there is room.                                 *)
ActiveExact ==
    \A p \in Pools :
        LET mine == {w \in Everyone : workers[w].on = p}
        IN /\ pool[p].nr_active = Len(pool[p].worklist) + Cardinality({w \in mine : workers[w].cur # None})
                + FoldSet(LAMBDA w, n : n + Len(workers[w].sched), 0, mine)
           /\ pool[p].nr_active <= MAX_ACTIVE
           /\ pool[p].inactive # <<>> => pool[p].nr_active = MAX_ACTIVE

(* Every item that is queued is started, although no worker can ever be made  *)
(* beyond the first of each pool, and functions sleep: the rescuer sees to    *)
(* it.  (WireGuard's packet_crypt_wq is WQ_MEM_RECLAIM for this.)             *)
QueuedIsStarted == \A k \in Works : []<>~work[k].pending

================================================================================
