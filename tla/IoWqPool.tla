------------------------------- MODULE IoWqPool -------------------------------
(***************************************************************************)
(* The worker threads of an io_wq (io_uring/io-wq.c), for one acct and      *)
(* works that are not hashed: made when work is queued and nobody runs, or  *)
(* by way of task_work when a worker blocks with work queued; retried from  *)
(* a delayed work when the fork fails; put on the free list, timed out, and *)
(* all gone before the io_wq is freed. worker_refs counts workers and what  *)
(* may still become one.                                                    *)
(***************************************************************************)
EXTENDS Integers, SequencesExt, FiniteSetsExt

CONSTANTS
    IoThreads,      \* worker structures
    MAX_WORKERS,    \* acct->max_workers
    UINT,           \* nr_workers wraps here
    Outcomes,       \* of create_io_thread: a subset of "ok", "retry", "fail"
    TIMEOUTS,       \* workers may sleep for WORKER_IDLE_TIMEOUT
    WORKER_INIT_LIMIT,
    MaxWorks        \* bound: works queued in all

VARIABLES
    iowq,       \* EXIT, EXIT_ON_IDLE, worker_refs, and whether it is freed
    pool,       \* nr_workers, nr_running, the number of works on work_list
    thr,        \* each worker
    tw,         \* task_work of the task: workers whose create_work is queued
    task,       \* the task that owns the io_wq
    late,       \* workers whose io_workqueue_create has added the task_work and not returned
    queued,     \* works queued so far
    miscount    \* creations cancelled that nr_workers had not counted

ip_vars == <<iowq, pool, thr, tw, task, late, queued, miscount>>

None == "none"
Absent == [pc |-> "absent", ref |-> 0, free |-> FALSE, running |-> FALSE, woken |-> FALSE, signal |-> FALSE,
           timedout |-> FALSE, create |-> FALSE, cont |-> FALSE, retries |-> 0]

Init ==
    /\ iowq = [exit |-> FALSE, idle_exit |-> FALSE, refs |-> 1, freed |-> FALSE]
    /\ pool = [nr_workers |-> 0, nr_running |-> 0, works |-> 0]
    /\ thr = [i \in IoThreads |-> Absent]
    /\ tw = <<>>
    /\ task = [pc |-> "rest", for |-> None]
    /\ late = {} /\ queued = 0 /\ miscount = 0

--------------------------------------------------------------------------------
At(i, pc) == thr[i].pc = pc
Fresh == {i \in IoThreads : At(i, "absent")}
Working == {"work", "ask", "create", "add", "recheck", "blocked"}
Less(n) == (n - 1) % UINT
Counts(workers, running, refs) ==
    /\ pool' = [pool EXCEPT !.nr_workers = (@ + workers) % UINT, !.nr_running = @ + running]
    /\ iowq' = [iowq EXCEPT !.refs = @ + refs]

\* io_worker_get succeeds for a worker on the free list.
FreeWorker(i) == thr[i].free /\ thr[i].ref > 0

\* io_acct_activate_free_worker: one of them is woken.
Activated(T) ==
    LET i == CHOOSE j \in IoThreads : FreeWorker(j) IN [T EXCEPT ![i].woken = TRUE]
SomeFree == \E i \in IoThreads : FreeWorker(i)

\* create_io_worker, with the counts taken before: the thread starts, on the
\* free list; or is tried for again later; or everything is given back. `to`
\* is where the task goes on, T the workers otherwise.
create_io_worker(T, out, to) ==
    \E i \in IoThreads :
      /\ T[i].pc = "absent" /\ i = CHOOSE j \in IoThreads : T[j].pc = "absent"
      /\ out \in Outcomes
      /\ thr' = CASE out = "ok" -> [T EXCEPT ![i] = [Absent EXCEPT !.pc = "starting", !.ref = 1, !.free = TRUE]]
                  [] out = "retry" -> [T EXCEPT ![i] = [Absent EXCEPT !.pc = "delayed", !.ref = 1, !.retries = 1]]
                  [] OTHER -> T
      /\ IF out = "fail" THEN Counts(-1, -1, -1) ELSE UNCHANGED <<pool, iowq>>
      /\ task' = IF out = "fail" THEN [to EXCEPT !.pc = IF @ = "created" THEN "uncreated" ELSE @]
                 ELSE [to EXCEPT !.pc = IF @ = "created" THEN "rest" ELSE @]

--------------------------------------------------------------------------------
\* io_wq_enqueue: the work is put on the list ...
io_wq_enqueue ==
    /\ task.pc = "rest" /\ ~iowq.exit /\ ~iowq.idle_exit /\ queued < MaxWorks
    /\ queued' = queued + 1
    /\ pool' = [pool EXCEPT !.works = @ + 1]
    /\ task' = [task EXCEPT !.pc = "activate"]
    /\ UNCHANGED <<iowq, thr, tw, late, miscount>>

\* ... a free worker is woken ...
enqueue_activate ==
    /\ task.pc = "activate"
    /\ IF SomeFree THEN thr' = Activated(thr) /\ task' = [task EXCEPT !.pc = "rest"]
       ELSE task' = [task EXCEPT !.pc = "look"] /\ UNCHANGED thr
    /\ UNCHANGED <<iowq, pool, tw, late, queued, miscount>>

\* ... or, if nobody runs or the work asks for it, io_wq_create_worker, below
\* the limit.
enqueue_look(concurrent) ==
    /\ task.pc = "look"
    /\ IF (concurrent \/ pool.nr_running = 0) /\ pool.nr_workers < MAX_WORKERS
       THEN Counts(1, 1, 1) /\ task' = [task EXCEPT !.pc = "create"]
       ELSE UNCHANGED <<pool, iowq>> /\ task' = [task EXCEPT !.pc = "rest"]
    /\ UNCHANGED <<thr, tw, late, queued, miscount>>

enqueue_create(out) ==
    /\ task.pc = "create"
    /\ create_io_worker(thr, out, [task EXCEPT !.pc = "created"])
    /\ UNCHANGED <<tw, late, queued, miscount>>

\* Without any worker a work that got none is cancelled.
enqueue_fails ==
    /\ task.pc = "uncreated"
    /\ pool' = [pool EXCEPT !.works = IF pool.nr_workers = 0 /\ @ > 0 THEN @ - 1 ELSE @]
    /\ task' = [task EXCEPT !.pc = "rest"]
    /\ UNCHANGED <<iowq, thr, tw, late, queued, miscount>>

--------------------------------------------------------------------------------
\* io_wq_worker begins, and its loop: EXIT is looked at, and the worker becomes
\* TASK_INTERRUPTIBLE (a signal sent between the two is still pending) ...
worker_begins(i) ==
    /\ At(i, "starting")
    /\ thr' = [thr EXCEPT ![i].pc = "top", ![i].running = TRUE]
    /\ UNCHANGED <<iowq, pool, tw, task, late, queued, miscount>>

worker_top(i) ==
    /\ At(i, "top")
    /\ thr' = [thr EXCEPT ![i].pc = IF iowq.exit THEN "drain" ELSE "loop", ![i].woken = FALSE]
    /\ UNCHANGED <<iowq, pool, tw, task, late, queued, miscount>>

\* ... then it takes work while there is any; it is TASK_RUNNING after that.
io_worker_handle_work(i) ==
    /\ At(i, "loop")
    /\ IF pool.works > 0
       THEN /\ pool' = [pool EXCEPT !.works = @ - 1]
            /\ thr' = [thr EXCEPT ![i].pc = "work", ![i].free = FALSE, ![i].woken = TRUE]
       ELSE thr' = [thr EXCEPT ![i].pc = "idle"] /\ UNCHANGED pool
    /\ UNCHANGED <<iowq, tw, task, late, queued, miscount>>

\* The work is done; __io_acct_run_queue or the loop looks for more.
work_done(i) ==
    /\ At(i, "work")
    /\ thr' = [thr EXCEPT ![i].pc = "loop"]
    /\ UNCHANGED <<iowq, pool, tw, task, late, queued, miscount>>

\* Slip: the count of workers is left to io_worker_exit.
Slip_uncounted_later(n) == n

\* The count of workers as one leaves.
Left(n) == Less(n)

\* With workers_lock: the worker leaves after a timeout, unless it is the last
\* (and still on a CPU it may use), and if workers are to exit when idle; else
\* it is on the free list.
worker_idle(i, exit_mask) ==
    /\ At(i, "idle")
    /\ IF (thr[i].timedout /\ (exit_mask \/ pool.nr_workers > 1)) \/ iowq.idle_exit
       THEN /\ pool' = [pool EXCEPT !.nr_workers = Left(@)]
            /\ thr' = [thr EXCEPT ![i].pc = "exit"]
       ELSE /\ thr' = [thr EXCEPT ![i].pc = "schedule", ![i].free = TRUE, ![i].timedout = FALSE]
            /\ UNCHANGED pool
    /\ UNCHANGED <<iowq, tw, task, late, queued, miscount>>

\* schedule_timeout, with io_wq_worker_sleeping: without a current work
\* io_wq_dec_running only counts.
worker_sleeps(i) ==
    /\ At(i, "schedule")
    /\ IF thr[i].woken \/ thr[i].signal
       THEN thr' = [thr EXCEPT ![i].pc = "top", ![i].signal = FALSE] /\ UNCHANGED pool
       ELSE /\ thr' = [thr EXCEPT ![i].pc = "asleep", ![i].running = FALSE]
            /\ pool' = [pool EXCEPT !.nr_running = @ - 1]
    /\ UNCHANGED <<iowq, tw, task, late, queued, miscount>>

\* Woken, or timed out; io_wq_worker_running.
worker_wakes(i) ==
    /\ At(i, "asleep") /\ (thr[i].woken \/ thr[i].signal \/ TIMEOUTS)
    /\ thr' = [thr EXCEPT ![i].pc = "top", ![i].running = TRUE, ![i].signal = FALSE,
                          ![i].timedout = ~(thr[i].woken \/ thr[i].signal)]
    /\ pool' = [pool EXCEPT !.nr_running = @ + 1]
    /\ UNCHANGED <<iowq, tw, task, late, queued, miscount>>

--------------------------------------------------------------------------------
\* Slip: the count is looked at before it goes down.
Slip_test_first == pool.nr_running = 0

\* atomic_dec_and_test(&acct->nr_running)
DecTest == pool.nr_running = 1

\* A worker blocks in its work: io_wq_worker_sleeping, io_wq_dec_running.
io_wq_worker_sleeping(i) ==
    /\ At(i, "work")
    /\ thr' = [thr EXCEPT ![i].running = FALSE, ![i].pc = IF DecTest THEN "ask" ELSE "blocked"]
    /\ pool' = [pool EXCEPT !.nr_running = @ - 1]
    /\ UNCHANGED <<iowq, tw, task, late, queued, miscount>>

\* The last one that ran, with work queued, asks for another worker.
dec_running_asks(i) ==
    /\ At(i, "ask")
    /\ IF pool.works = 0
       THEN thr' = [thr EXCEPT ![i].pc = "blocked"] /\ UNCHANGED <<pool, iowq>>
       ELSE thr' = [thr EXCEPT ![i].pc = "create"] /\ Counts(0, 1, 1)
    /\ UNCHANGED <<tw, task, late, queued, miscount>>

\* io_queue_worker_create up to the task_work: nothing on exit, or while the
\* worker's create_work is in use.
MayCreate(i) == ~iowq.exit /\ thr[i].ref > 0 /\ ~thr[i].create

queue_create(i) ==
    /\ At(i, "create")
    /\ IF MayCreate(i)
       THEN /\ thr' = [thr EXCEPT ![i].ref = @ + 1, ![i].create = TRUE, ![i].pc = "add"]
            /\ Counts(0, 0, 1)
       ELSE /\ thr' = [thr EXCEPT ![i].pc = "blocked"]
            /\ Counts(0, -1, -1)
    /\ UNCHANGED <<tw, task, late, queued, miscount>>

\* task_work_add; it fails only for a task that has exited, and then what was
\* taken for the creation is given back.
task_work_add(i, fails) ==
    /\ At(i, "add") /\ (fails => iowq.exit)
    /\ tw' = IF fails THEN tw ELSE Append(tw, i)
    /\ IF fails
       THEN /\ thr' = [thr EXCEPT ![i].pc = "blocked", ![i].create = FALSE, ![i].ref = @ - 1]
            /\ Counts(0, -1, -2)
       ELSE /\ thr' = [thr EXCEPT ![i].pc = "recheck"]
            /\ UNCHANGED <<iowq, pool>>
    /\ UNCHANGED <<task, late, queued, miscount>>

\* Slip: a cancelled creation keeps its reference to the io_wq.
Slip_cancel_keeps_ref(n) == 0

\* The references to the io_wq of n cancelled creations are put.
CancelRefs(n) == -n

\* io_worker_cancel_cb for the callbacks of S: counts and references go back.
\* A create_worker_cont belongs to a worker that never started, and is freed.
CancelCb(T, S) ==
    [i \in IoThreads |-> IF i \notin S THEN T[i]
                         ELSE IF T[i].cont THEN Absent ELSE [T[i] EXCEPT !.create = FALSE, !.ref = @ - 1]]
Miscounted(S) == Cardinality({i \in S : ~thr[i].cont})

\* Slip: the task_work queued after EXIT was set is left to the task.
Slip_no_cancel == {}

\* io_wq_cancel_tw_create, if EXIT has been set meanwhile.
ToCancel == IF iowq.exit THEN Range(tw) ELSE {}

create_recheck(i) ==
    LET S == ToCancel  n == Cardinality(S) IN
    /\ At(i, "recheck")
    /\ thr' = [CancelCb(thr, S) EXCEPT ![i].pc = "blocked"]
    /\ tw' = SelectSeq(tw, LAMBDA j : j \notin S)
    /\ Counts(-n, -n, CancelRefs(n) - 1)
    /\ miscount' = miscount + Miscounted(S)
    /\ UNCHANGED <<task, late, queued>>

\* io_wq_worker_running: the blocked worker goes on.
io_wq_worker_running(i) ==
    /\ At(i, "blocked")
    /\ thr' = [thr EXCEPT ![i].running = TRUE, ![i].pc = "work"]
    /\ pool' = [pool EXCEPT !.nr_running = @ + 1]
    /\ UNCHANGED <<iowq, tw, task, late, queued, miscount>>

--------------------------------------------------------------------------------
\* Slip: the count taken for the creation is kept.
Slip_keep_running == Counts(0, 0, -1)

\* no_need_create: the creation's count and reference are given up.
no_need_create == Counts(0, -1, -1)

\* The task runs its task_work, create_worker_cb: a free worker is enough ...
create_worker_cb ==
    /\ task.pc = "rest" /\ tw # <<>> /\ ~thr[Head(tw)].cont
    /\ tw' = Tail(tw)
    /\ task' = [pc |-> IF SomeFree THEN "cb_end" ELSE "cb_create", for |-> Head(tw)]
    /\ IF SomeFree THEN thr' = Activated(thr) /\ no_need_create ELSE UNCHANGED <<thr, pool, iowq>>
    /\ UNCHANGED <<late, queued, miscount>>

\* ... else one is created, below the limit.
cb_create ==
    /\ task.pc = "cb_create"
    /\ IF pool.nr_workers < MAX_WORKERS
       THEN pool' = [pool EXCEPT !.nr_workers = @ + 1] /\ task' = [task EXCEPT !.pc = "cb_fork"] /\ UNCHANGED iowq
       ELSE no_need_create /\ task' = [task EXCEPT !.pc = "cb_end"]
    /\ UNCHANGED <<thr, tw, late, queued, miscount>>

cb_fork(out) ==
    /\ task.pc = "cb_fork"
    /\ create_io_worker(thr, out, [task EXCEPT !.pc = "cb_end"])
    /\ UNCHANGED <<tw, late, queued, miscount>>

cb_end ==
    /\ task.pc = "cb_end"
    /\ thr' = [thr EXCEPT ![task.for].create = FALSE, ![task.for].ref = @ - 1]
    /\ task' = [pc |-> "rest", for |-> None]
    /\ UNCHANGED <<iowq, pool, tw, late, queued, miscount>>

\* io_workqueue_create, from the delayed work: io_queue_worker_create with
\* create_worker_cont. When EXIT is set, or the task has exited and takes no
\* task_work, the worker is freed.
io_workqueue_create(i) ==
    /\ At(i, "delayed") /\ i \notin late
    /\ IF iowq.exit
       THEN thr' = [thr EXCEPT ![i] = Absent] /\ Counts(0, -1, -1) /\ UNCHANGED <<tw, late>>
       ELSE /\ thr' = [thr EXCEPT ![i].ref = @ + 1, ![i].create = TRUE, ![i].cont = TRUE, ![i].pc = "forking"]
            /\ Counts(0, 0, 1)
            /\ tw' = Append(tw, i) /\ late' = late \cup {i}
    /\ UNCHANGED <<task, queued, miscount>>

\* ... which looks at EXIT again, without touching the worker.
workqueue_recheck(i) ==
    LET S == ToCancel  n == Cardinality(S) IN
    /\ i \in late
    /\ late' = late \ {i}
    /\ thr' = CancelCb(thr, S)
    /\ tw' = SelectSeq(tw, LAMBDA j : j \notin S)
    /\ Counts(-n, -n, CancelRefs(n) - 1)
    /\ miscount' = miscount + Miscounted(S)
    /\ UNCHANGED <<task, queued>>

\* create_worker_cont: another try; the last one in vain cancels all work if
\* there is no worker left.
create_worker_cont(out) ==
    LET i == Head(tw) IN
    /\ task.pc = "rest" /\ tw # <<>> /\ thr[i].cont
    /\ out \in Outcomes /\ (out = "retry" => thr[i].retries < WORKER_INIT_LIMIT)
    /\ tw' = Tail(tw)
    /\ CASE out = "ok" ->
              /\ thr' = [thr EXCEPT ![i] = [Absent EXCEPT !.pc = "starting", !.ref = 1, !.free = TRUE]]
              /\ UNCHANGED <<pool, iowq>>
         [] out = "retry" ->
              /\ thr' = [thr EXCEPT ![i] = [Absent EXCEPT !.pc = "delayed", !.ref = 1, !.retries = thr[i].retries + 1]]
              /\ UNCHANGED <<pool, iowq>>
         [] OTHER ->
              /\ thr' = [thr EXCEPT ![i] = Absent]
              /\ pool' = [nr_workers |-> Less(pool.nr_workers), nr_running |-> pool.nr_running - 1,
                          works |-> IF Less(pool.nr_workers) = 0 THEN 0 ELSE pool.works]
              /\ iowq' = [iowq EXCEPT !.refs = @ - 1]
    /\ UNCHANGED <<task, late, queued, miscount>>

--------------------------------------------------------------------------------
\* After EXIT a worker takes what is left, as cancelled work.
worker_drains(i) ==
    /\ At(i, "drain")
    /\ pool' = [pool EXCEPT !.works = 0]
    /\ thr' = [thr EXCEPT ![i].pc = "exit", ![i].free = IF pool.works > 0 THEN FALSE ELSE @]
    /\ UNCHANGED <<iowq, tw, task, late, queued, miscount>>

\* The task_work of the worker that task_work_cancel_match finds.
OwnTw(i) == {j \in Range(tw) : j = i}

\* io_worker_exit: its task_work is cancelled, its reference put ...
io_worker_exit(i) ==
    LET S == OwnTw(i)  n == Cardinality(S) IN
    /\ At(i, "exit")
    /\ tw' = SelectSeq(tw, LAMBDA j : j \notin S)
    /\ thr' = [CancelCb(thr, S) EXCEPT ![i].ref = @ - 1, ![i].pc = "unref"]
    /\ Counts(-n, -n, CancelRefs(n))
    /\ miscount' = miscount + Miscounted(S)
    /\ UNCHANGED <<task, late, queued>>

\* ... when nobody else holds one it leaves the lists ...
exit_unlisted(i) ==
    /\ At(i, "unref") /\ thr[i].ref = 0
    /\ thr' = [thr EXCEPT ![i].free = FALSE, ![i].pc = "gone"]
    /\ UNCHANGED <<iowq, pool, tw, task, late, queued, miscount>>

\* ... does not run any more, and is freed.
exit_freed(i) ==
    /\ At(i, "gone")
    /\ thr' = [thr EXCEPT ![i] = Absent]
    /\ Counts(0, -1, -1)
    /\ UNCHANGED <<tw, task, late, queued, miscount>>

\* io_wq_set_exit_on_idle: while the task has no io_uring instance, and so
\* queues nothing, its workers leave when idle, and are told so.
io_wq_set_exit_on_idle(enable) ==
    /\ task.pc = "rest" /\ iowq.idle_exit # enable /\ TIMEOUTS
    /\ enable => pool.works = 0 /\ \A i \in IoThreads : thr[i].pc \notin Working
    /\ iowq' = [iowq EXCEPT !.idle_exit = enable]
    /\ thr' = [i \in IoThreads |-> IF enable /\ thr[i].ref > 0 THEN [thr[i] EXCEPT !.signal = TRUE] ELSE thr[i]]
    /\ UNCHANGED <<pool, tw, task, late, queued, miscount>>

\* io_wq_exit_start
io_wq_exit_start ==
    /\ task.pc = "rest" /\ ~iowq.exit
    /\ iowq' = [iowq EXCEPT !.exit = TRUE]
    /\ UNCHANGED <<pool, thr, tw, task, late, queued, miscount>>

\* io_wq_exit_workers: creations are cancelled, the workers told, and the base
\* reference put.
io_wq_exit_workers ==
    LET S == ToCancel  n == Cardinality(S)  T == CancelCb(thr, S) IN
    /\ task.pc = "rest" /\ iowq.exit
    /\ tw' = SelectSeq(tw, LAMBDA j : j \notin S)
    /\ thr' = [i \in IoThreads |-> IF T[i].ref > 0 THEN [T[i] EXCEPT !.signal = TRUE] ELSE T[i]]
    /\ Counts(-n, -n, CancelRefs(n) - 1)
    /\ task' = [task EXCEPT !.pc = "wait"]
    /\ miscount' = miscount + Miscounted(S)
    /\ UNCHANGED <<late, queued>>

\* worker_done: io_wq_destroy cancels what is pending and frees.
io_wq_destroy ==
    /\ task.pc = "wait" /\ iowq.refs = 0
    /\ iowq' = [iowq EXCEPT !.freed = TRUE]
    /\ pool' = [pool EXCEPT !.works = 0]
    /\ task' = [task EXCEPT !.pc = "ended"]
    /\ UNCHANGED <<thr, tw, late, queued, miscount>>

--------------------------------------------------------------------------------
TaskStep ==
    \/ io_wq_enqueue \/ enqueue_activate \/ enqueue_fails \/ create_worker_cb \/ cb_create \/ cb_end
    \/ (\E concurrent \in BOOLEAN : enqueue_look(concurrent))
    \/ (\E out \in Outcomes : enqueue_create(out) \/ cb_fork(out) \/ create_worker_cont(out))
    \/ io_wq_exit_workers \/ io_wq_destroy

WorkerStep(i) ==
    \/ worker_begins(i) \/ worker_top(i) \/ io_worker_handle_work(i) \/ work_done(i) \/ worker_sleeps(i)
    \/ (\E exit_mask \in BOOLEAN : worker_idle(i, exit_mask)) \/ worker_wakes(i)
    \/ dec_running_asks(i) \/ queue_create(i) \/ create_recheck(i) \/ io_wq_worker_running(i)
    \/ (\E fails \in BOOLEAN : task_work_add(i, fails))
    \/ worker_drains(i) \/ io_worker_exit(i) \/ exit_unlisted(i) \/ exit_freed(i) \/ io_workqueue_create(i)

Next ==
    \/ TaskStep \/ (\E i \in IoThreads : workqueue_recheck(i)) \/ io_wq_exit_start
    \/ \E enable \in BOOLEAN : io_wq_set_exit_on_idle(enable)
    \/ \E i \in IoThreads : WorkerStep(i) \/ io_wq_worker_sleeping(i)

Spec == Init /\ [][Next]_ip_vars

\* Threads run, and work, however often it blocks, is done in the end.
Fairness ==
    /\ WF_ip_vars(TaskStep)
    /\ \A i \in IoThreads : WF_ip_vars(WorkerStep(i)) /\ WF_ip_vars(workqueue_recheck(i))
    /\ SF_ip_vars(\E i \in IoThreads : work_done(i))

--------------------------------------------------------------------------------
Alive == {i \in IoThreads : ~At(i, "absent")}

\* What may become a worker and is not yet: a fork under way, or asked for.
Creations ==
    Len(SelectSeq(tw, LAMBDA i : ~thr[i].cont))
      + (IF task.pc \in {"create", "cb_create", "cb_fork"} THEN 1 ELSE 0)
      + Cardinality({i \in IoThreads : thr[i].pc \in {"create", "add"}})

\* nr_running is the workers that run or were made to, and the creations: with
\* it at zero, and only then, somebody must be created for new work.
RunningExact ==
    pool.nr_running = Creations + Cardinality({i \in Alive : thr[i].running \/ thr[i].pc \in {"starting", "delayed", "forking"}})

\* worker_refs is the io_wq's own, the workers, the creations, and who has
\* just added a task_work; so the io_wq is freed when nothing is left that
\* would touch it, and not before.
RefsExact ==
    /\ iowq.refs = (IF task.pc \in {"wait", "ended"} THEN 0 ELSE 1) + Cardinality(Alive) + Creations + Cardinality(late)
                     + Cardinality({i \in IoThreads : thr[i].pc \in {"add", "recheck"}})
    /\ iowq.freed => Alive = {} /\ tw = <<>> /\ late = {}

\* nr_workers counts the workers that have not left and the forks under way,
\* but for the creations that were cancelled before it counted them.
WorkersCounted ==
    ~iowq.exit =>
      (pool.nr_workers + miscount) % UINT
        = (Cardinality({i \in Alive : thr[i].pc \notin {"exit", "unref", "gone"}})
             + (IF task.pc \in {"create", "cb_fork"} THEN 1 ELSE 0)) % UINT

\* io_acct_activate_free_worker: "If the worker is already running, it's either
\* already starting work or finishing work. In either case, if it does to go
\* sleep, we'll kick off a new task for this work anyway." Work on the list is
\* seen by somebody, or all workers there may be are blocked in theirs.
WorkServed ==
    pool.works > 0 /\ task.pc = "rest" /\ ~iowq.exit =>
      \/ Creations > 0
      \/ \E i \in Alive : thr[i].pc \in {"starting", "top", "loop", "work", "delayed", "forking", "ask", "recheck"}
      \/ \E i \in Alive : thr[i].pc \in {"idle", "schedule", "asleep"} /\ (thr[i].woken \/ thr[i].signal)
      \/ Cardinality({i \in Alive : At(i, "blocked")}) >= MAX_WORKERS

\* An io_wq that is to exit is freed, whatever was being created.
ExitEnds == []<>(iowq.exit => iowq.freed)

================================================================================
