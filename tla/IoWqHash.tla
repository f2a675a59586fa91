------------------------------- MODULE IoWqHash -------------------------------
(***************************************************************************)
(* io-wq's work lists and its hashed work (io_uring/io-wq.c). Work of one   *)
(* hash is not done in parallel, over all io_wqs that share the hash map;   *)
(* it sits together in a list, up to hash_tail, and is taken off as one     *)
(* chain. A worker that finds only work of busy hashes marks its list       *)
(* stalled and leaves the io_wq on hash->wait. The work is bounded: the     *)
(* callers hash none that is not, so one list (acct) of each io_wq is       *)
(* modelled, with a fixed set of workers.                                   *)
(***************************************************************************)
EXTENDS Integers, SequencesExt, FiniteSetsExt

CONSTANTS
    IoWqs,          \* io_wqs that share the hash map
    IoWorkers,      \* worker threads
    WqOf,           \* WqOf[w]: the io_wq of a worker or of a work
    IoWorks,        \* works
    HashOf,         \* HashOf[x]: its bucket, or Unhashed
    Linked          \* Linked[x]: the work io_wq_free_work returns when x is done, or None

VARIABLES
    acct,       \* each io_wq: work_list, stalled bit, the holder of acct->lock, free_list
    hash_tail,  \* each io_wq and bucket: the last work of the bucket in work_list
    map,        \* hash->map: the buckets being worked on
    waiting,    \* the io_wqs on hash->wait
    worker,     \* each worker
    state       \* each work: new, queued, taken, done, cancelled

ih_vars == <<acct, hash_tail, map, waiting, worker, state>>

None == "none"
Unhashed == -1
is_hashed(x) == HashOf[x] # Unhashed
Buckets == {HashOf[x] : x \in IoWorks} \ {Unhashed}

\* The hash bits of a work: of one that is not hashed they are zero.
io_get_work_hash(x) == IF is_hashed(x) THEN HashOf[x] ELSE 0

Init ==
    /\ acct = [q \in IoWqs |-> [list |-> <<>>, stalled |-> FALSE, lock |-> None, free |-> {}]]
    /\ hash_tail = [q \in IoWqs |-> [h \in Buckets |-> None]]
    /\ map = {} /\ waiting = {}
    /\ worker = [w \in IoWorkers |-> [pc |-> "loop", at |-> 0, stall |-> Unhashed, chain |-> <<>>,
                                      hash |-> Unhashed, running |-> TRUE, linked |-> None]]
    /\ state = [x \in IoWorks |-> "new"]

--------------------------------------------------------------------------------
At(w, pc) == worker[w].pc = pc
Q(w) == WqOf[w]
Go(w, pc) == worker' = [worker EXCEPT ![w].pc = pc]
IndexOf(s, x) == SelectInSeq(s, LAMBDA y : y = x)

__io_acct_run_queue(q) == ~acct[q].stalled /\ acct[q].list # <<>>

\* io_acct_activate_free_worker: some worker of the free lists in `qs` is made
\* runnable, one for each list.
io_acct_activate_free_worker(W, qs) ==
    [w \in IoWorkers |-> IF \E q \in qs : acct[q].free # {} /\ w = CHOOSE v \in acct[q].free : TRUE
                         THEN [W[w] EXCEPT !.running = TRUE] ELSE W[w]]

\* wake_up(&hash->wait), io_wq_hash_wake: every io_wq that waits leaves the
\* queue, and if it was stalled a free worker is woken.
io_wq_hash_wake(A, W) ==
    [a |-> [q \in IoWqs |-> IF q \in waiting THEN [A[q] EXCEPT !.stalled = FALSE] ELSE A[q]],
     w |-> io_acct_activate_free_worker(W, {q \in waiting : A[q].stalled})]

--------------------------------------------------------------------------------
\* io_wq_insert_work: behind the last work of its bucket, or at the end.
io_wq_insert_work(q, x) ==
    LET l == acct[q].list
        tail == IF is_hashed(x) THEN hash_tail[q][HashOf[x]] ELSE None
    IN [list |-> IF tail = None THEN Append(l, x) ELSE InsertAt(l, IndexOf(l, tail) + 1, x), tail |-> x]

\* io_wq_enqueue of a work, with acct->lock for the list; then a free worker
\* is woken. A worker that runs will look at the list again.
Enqueued(x, W) ==
    LET q == WqOf[x]  i == io_wq_insert_work(q, x)
    IN /\ acct[q].lock = None
       /\ acct' = [acct EXCEPT ![q].list = i.list, ![q].stalled = FALSE]
       /\ hash_tail' = IF is_hashed(x) THEN [hash_tail EXCEPT ![q][HashOf[x]] = i.tail] ELSE hash_tail
       /\ state' = [state EXCEPT ![x] = "queued"]
       /\ worker' = io_acct_activate_free_worker(W, {q})

io_wq_enqueue(x) ==
    /\ state[x] = "new" /\ \A y \in IoWorks : Linked[y] # x
    /\ Enqueued(x, worker)
    /\ UNCHANGED <<map, waiting>>

\* io_run_cancel: the work, and what is linked to it, ends as cancelled.
Cancelled(x) == [y \in IoWorks |-> IF y = x \/ (Linked[x] = y) THEN "cancelled" ELSE state[y]]

\* Slip: the tail is cleared although other work of the bucket is queued.
Slip_tail_lost(q, x) == None

\* What hash_tail becomes when the last work of its bucket is removed: the
\* previous work, if its hash bits are the same.
NewTail(q, x) ==
    LET i == IndexOf(acct[q].list, x)
        prev == acct[q].list[i - 1]
    IN IF i > 1 /\ io_get_work_hash(prev) = io_get_work_hash(x) THEN prev ELSE None

\* io_wq_cancel_cb of a work that is pending: io_wq_remove_pending.
io_acct_cancel_pending_work(x) ==
    LET q == WqOf[x] IN
    /\ state[x] = "queued" /\ acct[q].lock = None
    /\ acct' = [acct EXCEPT ![q].list = SelectSeq(@, LAMBDA y : y # x)]
    /\ hash_tail' = IF is_hashed(x) /\ hash_tail[q][HashOf[x]] = x
                    THEN [hash_tail EXCEPT ![q][HashOf[x]] = NewTail(q, x)] ELSE hash_tail
    /\ state' = Cancelled(x)
    /\ UNCHANGED <<map, waiting, worker>>

--------------------------------------------------------------------------------
\* io_acct_run_queue: with work to do, acct->lock is kept and the list looked
\* through; without, the worker becomes idle.
io_acct_run_queue(w) ==
    LET q == Q(w) IN
    /\ At(w, "loop") /\ acct[q].lock = None
    /\ IF __io_acct_run_queue(q)
       THEN /\ acct' = [acct EXCEPT ![q].lock = w]
            /\ worker' = [worker EXCEPT ![w].pc = "scan", ![w].at = 1, ![w].stall = Unhashed]
       ELSE Go(w, "idle") /\ UNCHANGED acct
    /\ UNCHANGED <<hash_tail, map, waiting, state>>

\* Slip: a bucket that is worked on by another io_wq is not noticed.
Slip_own_bucket(w, h) == \A v \in IoWorkers : Q(v) = Q(w) => worker[v].hash # h

\* test_and_set_bit(hash, &wq->hash->map): the bucket was free.
BucketFree(w, h) == h \notin map

\* io_get_next_work, one work or bucket of the list at a time. Work of a free
\* bucket is cut off up to the tail of the bucket.
scan(w) ==
    LET q == Q(w)  l == acct[q].list  i == worker[w].at  x == l[i]  h == HashOf[x]
        last == IF is_hashed(x) THEN IndexOf(l, hash_tail[q][h]) ELSE i
        take == ~is_hashed(x) \/ BucketFree(w, h)
    IN /\ At(w, "scan") /\ i <= Len(l)
       /\ IF take
          THEN /\ acct' = [acct EXCEPT ![q].list = SubSeq(l, 1, i - 1) \o SubSeq(l, last + 1, Len(l)),
                                       ![q].lock = None, ![q].free = @ \ {w}]
               /\ hash_tail' = IF is_hashed(x) THEN [hash_tail EXCEPT ![q][h] = None] ELSE hash_tail
               /\ map' = IF is_hashed(x) THEN map \cup {h} ELSE map
               /\ worker' = [worker EXCEPT ![w].pc = "work", ![w].chain = SubSeq(l, i, last), ![w].hash = h,
                                           ![w].running = TRUE]
               /\ state' = [y \in IoWorks |-> IF y \in Range(SubSeq(l, i, last)) THEN "taken" ELSE state[y]]
          ELSE /\ worker' = [worker EXCEPT ![w].at = last + 1, ![w].stall = IF @ = Unhashed THEN h ELSE @]
               /\ UNCHANGED <<acct, hash_tail, map, state>>
       /\ UNCHANGED waiting

\* Nothing could be taken: stalled, before acct->lock is dropped.
stall(w) ==
    LET q == Q(w) IN
    /\ At(w, "scan") /\ worker[w].at > Len(acct[q].list)
    /\ acct' = [acct EXCEPT ![q].stalled = TRUE, ![q].lock = None]
    /\ Go(w, "stall")
    /\ UNCHANGED <<hash_tail, map, waiting, state>>

\* Slip: the bucket is not looked at again once the io_wq waits.
Slip_no_recheck(w) ==
    /\ At(w, "stall")
    /\ waiting' = waiting \cup {Q(w)}
    /\ Go(w, "loop")
    /\ UNCHANGED <<acct, hash_tail, map, state>>

\* io_wait_on_hash, with hash->wait.lock: the io_wq waits, unless it does
\* already or the bucket has become free meanwhile.
io_wait_on_hash(w) ==
    LET q == Q(w)  unstalled == q \notin waiting /\ worker[w].stall \notin map IN
    /\ At(w, "stall")
    /\ waiting' = IF unstalled THEN waiting ELSE waiting \cup {q}
    /\ worker' = [worker EXCEPT ![w].pc = IF unstalled THEN "unstall" ELSE "loop",
                                ![w].running = @ \/ unstalled]
    /\ UNCHANGED <<acct, hash_tail, map, state>>

\* ... then the stalled bit goes, and who else waits is woken.
unstall(w) ==
    LET n == io_wq_hash_wake([acct EXCEPT ![Q(w)].stalled = FALSE], worker) IN
    /\ At(w, "unstall") /\ acct[Q(w)].lock = None
    /\ acct' = n.a /\ waiting' = {}
    /\ worker' = [n.w EXCEPT ![w].pc = "loop"]
    /\ UNCHANGED <<hash_tail, map, state>>

--------------------------------------------------------------------------------
\* io_worker_handle_work: io_wq_submit_work returns. The next of the chain,
\* or a linked work that is not hashed, is done next; another linked work is
\* queued. At the end of a chain its bucket is given back.
submit_work(w) ==
    LET x == Head(worker[w].chain)  rest == Tail(worker[w].chain)
        link == IF Linked[x] # None /\ state[Linked[x]] = "new" THEN Linked[x] ELSE None
        direct == rest = <<>> /\ link # None /\ ~is_hashed(link)
    IN /\ At(w, "work")
       /\ worker' = [worker EXCEPT ![w].chain = IF direct THEN <<link>> ELSE rest,
                                   ![w].linked = IF direct THEN None ELSE link,
                                   ![w].pc = IF link # None /\ ~direct THEN "link" ELSE "after"]
       /\ state' = [y \in IoWorks |-> IF y = x THEN "done" ELSE IF direct /\ y = link THEN "taken" ELSE state[y]]
       /\ UNCHANGED <<acct, hash_tail, map, waiting>>

enqueue_linked(w) ==
    /\ At(w, "link")
    /\ Enqueued(worker[w].linked, [worker EXCEPT ![w].pc = "after", ![w].linked = None])
    /\ UNCHANGED <<map, waiting>>

\* A whole chain is over exactly when no hashed work follows: its bucket and
\* the stalled bit are cleared under hash->wait.lock.
after_work(w) ==
    LET q == Q(w)  over == worker[w].hash # Unhashed /\ (worker[w].chain = <<>> \/ ~is_hashed(Head(worker[w].chain)))
    IN /\ At(w, "after")
       /\ map' = IF over THEN map \ {worker[w].hash} ELSE map
       /\ acct' = IF over THEN [acct EXCEPT ![q].stalled = FALSE] ELSE acct
       /\ worker' = [worker EXCEPT ![w].pc = IF over THEN "wake" ELSE IF worker[w].chain # <<>> THEN "work" ELSE "again",
                                   ![w].hash = IF over THEN Unhashed ELSE @]
       /\ UNCHANGED <<hash_tail, waiting, state>>

\* ... then who waits for a bucket is woken.
wake_waiters(w) ==
    LET n == io_wq_hash_wake(acct, worker) IN
    /\ At(w, "wake")
    /\ acct' = n.a /\ waiting' = {}
    /\ worker' = [n.w EXCEPT ![w].pc = IF worker[w].chain # <<>> THEN "work" ELSE "again"]
    /\ UNCHANGED <<hash_tail, map, state>>

\* The end of io_worker_handle_work; what __io_acct_run_queue sees without the
\* lock, io_acct_run_queue looks at again.
handle_more(w) ==
    /\ At(w, "again")
    /\ Go(w, "loop")
    /\ UNCHANGED <<acct, hash_tail, map, waiting, state>>

--------------------------------------------------------------------------------
\* Slip: the worker sleeps although it has been made runnable.
Slip_sleep_anyway(w) == FALSE

\* The task state is not TASK_INTERRUPTIBLE any more.
Runnable(w) == worker[w].running

\* io_wq_worker goes onto the free list (workers_lock) ...
worker_idle(w) ==
    /\ At(w, "idle")
    /\ acct' = [acct EXCEPT ![Q(w)].free = @ \cup {w}]
    /\ Go(w, "sleep")
    /\ UNCHANGED <<hash_tail, map, waiting, state>>

\* ... and schedule_timeout returns once it is runnable; it becomes
\* TASK_INTERRUPTIBLE before it looks at the list again.
worker_wakes(w) ==
    /\ At(w, "sleep") /\ Runnable(w)
    /\ worker' = [worker EXCEPT ![w].pc = "loop", ![w].running = FALSE]
    /\ UNCHANGED <<acct, hash_tail, map, waiting, state>>

WorkerStep(w) ==
    \/ io_acct_run_queue(w) \/ scan(w) \/ stall(w) \/ io_wait_on_hash(w) \/ unstall(w)
    \/ submit_work(w) \/ enqueue_linked(w) \/ after_work(w) \/ wake_waiters(w) \/ handle_more(w)
    \/ worker_idle(w) \/ worker_wakes(w)

Next ==
    \/ \E x \in IoWorks : io_wq_enqueue(x) \/ io_acct_cancel_pending_work(x)
    \/ \E w \in IoWorkers : WorkerStep(w)

Spec == Init /\ [][Next]_ih_vars

\* Worker threads run, and a spinlock is handed over in the end.
Fairness == \A w \in IoWorkers : WF_ih_vars(WorkerStep(w))

--------------------------------------------------------------------------------
Current(w) == IF At(w, "work") /\ worker[w].chain # <<>> THEN {Head(worker[w].chain)} ELSE {}

\* io_wq_hash_work: "Work items that hash to the same value will not be done
\* in parallel", by whichever worker of whichever io_wq; and the buckets marked
\* busy are those that workers have work of.
SerialByHash ==
    /\ \A v, w \in IoWorkers : v # w => \A x \in Current(v), y \in Current(w) : is_hashed(x) => HashOf[x] # HashOf[y]
    /\ map = {worker[w].hash : w \in IoWorkers} \ {Unhashed}

\* io_get_next_work: "all items with this hash lie in [work, tail]". The work of
\* a bucket is queued without a gap, and hash_tail is the last of it.
TailsRight ==
    \A q \in IoWqs, h \in Buckets :
      LET of == {i \in DOMAIN acct[q].list : HashOf[acct[q].list[i]] = h}
      IN IF of = {} THEN hash_tail[q][h] = None
         ELSE hash_tail[q][h] = acct[q].list[Max(of)] /\ \A i \in Min(of) .. Max(of) : i \in of

\* A list with work that may be taken has a worker that looks at it or will: no
\* order of stalling, waking and becoming idle leaves all of them asleep, unless
\* it waits for a bucket whose worker will wake it.
NobodyOversleeps ==
    \A q \in IoWqs :
      (acct[q].list # <<>> /\ \A w \in IoWorkers : WqOf[w] = q => At(w, "sleep") /\ ~worker[w].running)
        => acct[q].stalled /\ q \in waiting /\ (map # {} \/ \E v \in IoWorkers : At(v, "wake"))

\* Work that is queued is done, or cancelled, without any timeout.
QueuedWorkRuns == \A x \in IoWorks : []<>(state[x] \in {"new", "done", "cancelled"})

================================================================================
