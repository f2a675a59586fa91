------------------------------- MODULE WqCancel -------------------------------
(***************************************************************************)
(* One delayed work item of kernel/workqueue.c and everybody who competes   *)
(* for its PENDING bit: who queues it, its timer, the workers, who cancels, *)
(* disables or enables it, and who flushes it with a barrier. wg_peer's     *)
(* work items and the rate limiter's gc_work are cancelled this way.        *)
(*                                                                         *)
(* The steps of a call that touch work->data, the timer, or a pool under    *)
(* its lock are actions of their own. The workqueue's max_active is not     *)
(* reached here (see WqPool).                                               *)
(***************************************************************************)
EXTENDS Integers, SequencesExt, FiniteSetsExt

CONSTANTS
    WcPools,        \* worker pools
    WcRunners,      \* workers
    Threads,        \* the callers of the API
    Calls,          \* what each of them may call
    MaxEach         \* bound: how often each calls

VARIABLES
    data,       \* work->data: PENDING, queued (PWQ) or not, the pool, the disable count
    timer,      \* dwork->timer: "off", "armed", or "firing" with the handler at work
    worklist,   \* pool->worklist: the item and barriers
    runner,     \* each worker: its pool, what it executes, worker->scheduled
    thread,     \* each caller; quiet: it has waited for the item and not enabled it
    requeued,   \* history: flushes during which the item was queued anew
    robbed      \* history: flushes during which it was taken off its queue

wc_vars == <<data, timer, worklist, runner, thread, requeued, robbed>>

None == "none"
W == "work"     \* the item; a barrier is named after the thread that waits for it

FlushCalls == {"flush_work", "flush_delayed_work"}
SyncCalls == {"cancel_work_sync", "disable_work_sync"}
QueueCalls == {"queue_work_on", "queue_delayed_work_on", "mod_delayed_work_on"}
CancelCalls == SyncCalls \cup {"cancel_work", "disable_work"}

Init ==
    /\ data = [pending |-> FALSE, pwq |-> FALSE, pool |-> None, disable |-> 0]
    /\ timer = [state |-> "off", pool |-> None]
    /\ worklist = [p \in WcPools |-> <<>>]
    /\ runner = [r \in WcRunners |-> [pool |-> None, cur |-> None, sched |-> <<>>]]
    /\ thread = [t \in Threads |-> [pc |-> "idle", call |-> None, pool |-> None, read |-> None,
                                    delay |-> FALSE, done |-> FALSE, disables |-> FALSE, quiet |-> FALSE,
                                    calls |-> 0]]
    /\ requeued = {} /\ robbed = {}

Executing(p) == {r \in WcRunners : runner[r].pool = p /\ runner[r].cur = W}
Flushing == {t \in Threads : thread[t].call \in FlushCalls}
Go(t, pc) == thread' = [thread EXCEPT ![t].pc = pc]
At(t, pc) == thread[t].pc = pc

--------------------------------------------------------------------------------
\* The workers. What is started: the item takes PENDING off and leaves its
\* pool in the data; a barrier wakes its flusher.
Started(p) == [data EXCEPT !.pending = FALSE, !.pwq = FALSE, !.pool = p, !.disable = 0]

\* Slip: only the item itself goes to the worker that executes it.
Slip_links_stay(r, p) ==
    IF Executing(p) # {}
    THEN LET e == CHOOSE x \in Executing(p) : TRUE
         IN /\ runner' = [runner EXCEPT ![e].sched = Append(@, W)]
            /\ worklist' = [worklist EXCEPT ![p] = Tail(@)]
            /\ UNCHANGED data
    ELSE /\ runner' = [runner EXCEPT ![r] = [pool |-> p, cur |-> W, sched |-> <<>>]]
         /\ worklist' = [worklist EXCEPT ![p] = Tail(@)]
         /\ data' = Started(p)

\* assign_work: the item, with the barriers linked behind it, goes to the
\* worker that executes it already, or is started by this one.
assign_work(r, p) ==
    IF Executing(p) # {}
    THEN LET e == CHOOSE x \in Executing(p) : TRUE
         IN /\ runner' = [runner EXCEPT ![e].sched = @ \o worklist[p]]
            /\ worklist' = [worklist EXCEPT ![p] = <<>>]
            /\ UNCHANGED data
    ELSE /\ runner' = [runner EXCEPT ![r] = [pool |-> p, cur |-> W, sched |-> Tail(worklist[p])]]
         /\ worklist' = [worklist EXCEPT ![p] = <<>>]
         /\ data' = Started(p)

\* An idle worker takes the head of the worklist.
worker_takes(r, p) ==
    /\ runner[r].pool = None /\ worklist[p] # <<>>
    /\ IF Head(worklist[p]) = W THEN assign_work(r, p) /\ UNCHANGED thread
       ELSE /\ thread' = [thread EXCEPT ![Head(worklist[p])].done = TRUE]
            /\ worklist' = [worklist EXCEPT ![p] = Tail(@)]
            /\ UNCHANGED <<data, runner>>
    /\ UNCHANGED <<timer, requeued, robbed>>

\* The function of the item returns.
worker_finishes(r) ==
    /\ runner[r].cur = W
    /\ runner' = [runner EXCEPT ![r].cur = None, ![r].pool = IF runner[r].sched = <<>> THEN None ELSE @]
    /\ UNCHANGED <<data, timer, worklist, thread, requeued, robbed>>

\* process_scheduled_works: the next of what the worker has of its own.
process_scheduled_works(r) ==
    LET k == Head(runner[r].sched)
        rest == Tail(runner[r].sched)
    IN /\ runner[r].cur = None /\ runner[r].sched # <<>>
       /\ IF k = W
          THEN /\ runner' = [runner EXCEPT ![r].cur = W, ![r].sched = rest]
               /\ data' = Started(runner[r].pool) /\ UNCHANGED thread
          ELSE /\ runner' = [runner EXCEPT ![r].sched = rest, ![r].pool = IF rest = <<>> THEN None ELSE @]
               /\ thread' = [thread EXCEPT ![k].done = TRUE]
               /\ UNCHANGED data
       /\ UNCHANGED <<timer, worklist, requeued, robbed>>

--------------------------------------------------------------------------------
\* __queue_work by the owner of PENDING: on the pool that executes the item, or
\* on the one asked for. Flushes in `known` count on this queueing.
__queue_work(p, known) ==
    LET q == IF data.pool # None /\ Executing(data.pool) # {} THEN data.pool ELSE p
    IN /\ worklist' = [worklist EXCEPT ![q] = Append(@, W)]
       /\ data' = [pending |-> TRUE, pwq |-> TRUE, pool |-> q, disable |-> 0]
       /\ requeued' = requeued \cup (Flushing \ known)
       /\ UNCHANGED robbed

\* The timer expires, and its handler queues the item.
timer_expires ==
    /\ timer.state = "armed"
    /\ timer' = [timer EXCEPT !.state = "firing"]
    /\ UNCHANGED <<data, worklist, runner, thread, requeued, robbed>>

delayed_work_timer_fn ==
    /\ timer.state = "firing"
    /\ __queue_work(timer.pool, {t \in Threads : At(t, "flush_timer")})
    /\ timer' = [state |-> "off", pool |-> None]
    /\ UNCHANGED <<runner, thread>>

--------------------------------------------------------------------------------
FirstStep(call) ==
    CASE call \in {"queue_work_on", "queue_delayed_work_on"} -> "claim"
      [] call \in CancelCalls \cup {"mod_delayed_work_on"} -> "grab_timer"
      [] call = "enable_work" -> "grab"
      [] call = "flush_work" -> "flush"
      [] call = "flush_delayed_work" -> "flush_timer"

\* A thread calls. Who has disabled the item enables it again.
call(t, c, p) ==
    /\ At(t, "idle") /\ c \in Calls[t] /\ (p = None <=> c \notin QueueCalls)
    /\ IF thread[t].disables THEN c = "enable_work" ELSE c # "enable_work" /\ thread[t].calls < MaxEach[t]
    /\ thread' = [thread EXCEPT ![t] = [@ EXCEPT !.pc = FirstStep(c), !.call = c, !.pool = p, !.done = FALSE,
                                                 !.delay = c = "queue_delayed_work_on", !.calls = @ + 1]]
    /\ requeued' = requeued \ {t} /\ robbed' = robbed \ {t}
    /\ UNCHANGED <<data, timer, worklist, runner>>

Returned(r) == [r EXCEPT !.pc = "idle", !.call = None, !.pool = None, !.read = None, !.delay = FALSE]
Return(t) == thread' = [thread EXCEPT ![t] = Returned(@)]

\* queue_work_on, queue_delayed_work_on: PENDING is claimed, or the item is
\* pending already.
claim(t) ==
    /\ At(t, "claim")
    /\ IF data.pending THEN Return(t) /\ UNCHANGED data
       ELSE data' = [data EXCEPT !.pending = TRUE] /\ Go(t, "claimed")
    /\ UNCHANGED <<timer, worklist, runner, requeued, robbed>>

\* Slip: the disable count is not looked at.
Slip_queue_disabled(t) == FALSE

clear_pending_if_disabled(t) == ~data.pwq /\ data.disable > 0

\* PENDING is owned: let go again if the item is disabled, else the timer is
\* set or the item is queued.
claimed(t) ==
    /\ At(t, "claimed")
    /\ CASE clear_pending_if_disabled(t) ->
              data' = [data EXCEPT !.pending = FALSE] /\ Return(t) /\ UNCHANGED <<timer, worklist>>
         [] ~clear_pending_if_disabled(t) /\ thread[t].delay ->
              timer' = [state |-> "armed", pool |-> thread[t].pool] /\ Return(t) /\ UNCHANGED <<data, worklist>>
         [] OTHER -> Go(t, "insert") /\ UNCHANGED <<data, timer, worklist>>
    /\ UNCHANGED <<runner, requeued, robbed>>

insert(t) ==
    /\ At(t, "insert")
    /\ __queue_work(thread[t].pool, {})
    /\ Return(t)
    /\ UNCHANGED <<timer, runner>>

--------------------------------------------------------------------------------
\* try_to_grab_pending: the timer is stolen, or PENDING claimed, or the item
\* taken off the pool it is queued on; or all over again.
grab_timer(t) ==
    /\ At(t, "grab_timer")
    /\ IF timer.state = "armed"
       THEN timer' = [state |-> "off", pool |-> None] /\ Go(t, "own")
       ELSE UNCHANGED timer /\ Go(t, "grab")
    /\ UNCHANGED <<data, worklist, runner, requeued, robbed>>

grab(t) ==
    /\ At(t, "grab")
    /\ IF data.pending THEN Go(t, "grab_pool") /\ UNCHANGED data
       ELSE data' = [data EXCEPT !.pending = TRUE] /\ Go(t, "own")
    /\ UNCHANGED <<timer, worklist, runner, requeued, robbed>>

Again(t) == IF thread[t].call \in {"enable_work", "cancel_work_sync_enable"} THEN "grab" ELSE "grab_timer"

\* get_work_pool, without the lock.
grab_pool(t) ==
    /\ At(t, "grab_pool")
    /\ thread' = [thread EXCEPT ![t].read = data.pool,
                                ![t].pc = IF data.pool = None THEN Again(t) ELSE "grab_lock"]
    /\ UNCHANGED <<data, timer, worklist, runner, requeued, robbed>>

\* Slip: the barriers linked behind the item are taken off with it.
Slip_drop_linked(s) == IF W \in Range(s) THEN SubSeq(s, 1, SelectInSeq(s, LAMBDA x : x = W) - 1) ELSE s

Without(s) == SelectSeq(s, LAMBDA x : x # W)

\* Slip: an item queued on another pool by now is taken off as well.
Slip_grab_unlocked(t, p) == data.pwq

\* Is the item queued on the pool that is locked?
QueuedOn(t, p) == data.pwq /\ data.pool = p

grab_lock(t) ==
    LET p == thread[t].read
    IN /\ At(t, "grab_lock")
       /\ IF QueuedOn(t, p)
          THEN /\ worklist' = [worklist EXCEPT ![p] = Without(@)]
               /\ runner' = [r \in WcRunners |-> IF runner[r].pool = p THEN [runner[r] EXCEPT !.sched = Without(@)]
                                                 ELSE runner[r]]
               /\ data' = [data EXCEPT !.pwq = FALSE, !.pool = p, !.disable = 0]
               /\ robbed' = robbed \cup Flushing
               /\ Go(t, "own")
          ELSE UNCHANGED <<data, worklist, runner, robbed>> /\ Go(t, Again(t))
       /\ UNCHANGED <<timer, requeued>>

\* PENDING is owned: mod_delayed_work_on queues anew.
own_mod(t) ==
    /\ At(t, "own") /\ thread[t].call = "mod_delayed_work_on"
    /\ \E delay \in BOOLEAN : thread' = [thread EXCEPT ![t].pc = "claimed", ![t].delay = delay]
    /\ UNCHANGED <<data, timer, worklist, runner, requeued, robbed>>

\* __cancel_work, and enable_work: the disable count is moved and PENDING given
\* up; a synchronous call goes on to wait for the item.
own_cancel(t) ==
    LET c == thread[t].call
        disables == c \in SyncCalls \cup {"disable_work"}
        enables == c \in {"enable_work", "cancel_work_sync_enable"}
    IN /\ At(t, "own") /\ c # "mod_delayed_work_on"
       /\ data' = [data EXCEPT !.pending = FALSE,
                               !.disable = IF disables THEN @ + 1 ELSE IF enables /\ @ > 0 THEN @ - 1 ELSE @]
       /\ thread' = [thread EXCEPT ![t] =
                       LET r == [@ EXCEPT !.disables = (@ \/ disables) /\ ~enables, !.quiet = @ /\ ~enables]
                       IN IF c \in SyncCalls THEN [r EXCEPT !.pc = "flush"] ELSE Returned(r)]
       /\ UNCHANGED <<timer, worklist, runner, requeued, robbed>>

--------------------------------------------------------------------------------
\* flush_delayed_work: a timer that was set is stopped and the item queued; one
\* that has expired is waited for (timer_delete_sync).
flush_timer(t) ==
    /\ At(t, "flush_timer") /\ timer.state # "firing"
    /\ Go(t, IF timer.state = "armed" THEN "flush_queue" ELSE "flush")
    /\ timer' = [timer EXCEPT !.state = "off"]
    /\ UNCHANGED <<data, worklist, runner, requeued, robbed>>

flush_queue(t) ==
    /\ At(t, "flush_queue")
    /\ __queue_work(timer.pool, {t})
    /\ timer' = [timer EXCEPT !.pool = None]
    /\ Go(t, "flush")
    /\ UNCHANGED runner

\* start_flush_work: the pool of the item, without the lock ...
start_flush_work(t) ==
    /\ At(t, "flush")
    /\ thread' = [thread EXCEPT ![t].read = data.pool, ![t].pc = IF data.pool = None THEN "flushed" ELSE "barrier"]
    /\ UNCHANGED <<data, timer, worklist, runner, requeued, robbed>>

After(s, t) ==
    IF W \in Range(s)
    THEN InsertAt(s, SelectInSeq(s, LAMBDA x : x = W) + 1, t)
    ELSE s

\* worker->scheduled.next: before everything the worker has.
ToScheduled(s, t) == <<t>> \o s

\* insert_wq_barrier: right behind the queued item, or first of the worker
\* that executes it; nothing if the item has gone elsewhere.
insert_wq_barrier(t) ==
    LET p == thread[t].read
    IN /\ At(t, "barrier")
       /\ CASE data.pwq /\ data.pool = p ->
                 /\ worklist' = [worklist EXCEPT ![p] = After(@, t)]
                 /\ runner' = [r \in WcRunners |-> IF runner[r].pool = p THEN [runner[r] EXCEPT !.sched = After(@, t)]
                                                   ELSE runner[r]]
                 /\ Go(t, "wait")
            [] ~data.pwq /\ Executing(p) # {} ->
                 /\ runner' = [r \in WcRunners |-> IF r \in Executing(p)
                                                   THEN [runner[r] EXCEPT !.sched = ToScheduled(@, t)] ELSE runner[r]]
                 /\ UNCHANGED worklist
                 /\ Go(t, "wait")
            [] OTHER -> UNCHANGED <<worklist, runner>> /\ Go(t, "flushed")
       /\ UNCHANGED <<data, timer, requeued, robbed>>

flush_wait(t) ==
    /\ At(t, "wait") /\ thread[t].done
    /\ Go(t, "flushed")
    /\ UNCHANGED <<data, timer, worklist, runner, requeued, robbed>>

\* Back to the caller; cancel_work_sync enables the item first.
flush_returns(t) ==
    /\ At(t, "flushed")
    /\ thread' = [thread EXCEPT ![t] =
                    CASE @.call = "cancel_work_sync" ->
                           [@ EXCEPT !.pc = "grab", !.call = "cancel_work_sync_enable", !.quiet = TRUE]
                      [] @.call = "disable_work_sync" -> [Returned(@) EXCEPT !.quiet = TRUE]
                      [] OTHER -> Returned(@)]
    /\ requeued' = requeued \ {t} /\ robbed' = robbed \ {t}
    /\ UNCHANGED <<data, timer, worklist, runner>>

--------------------------------------------------------------------------------
ThreadStep(t) ==
    \/ claim(t) \/ claimed(t) \/ insert(t) \/ grab_timer(t) \/ grab(t) \/ grab_pool(t) \/ grab_lock(t)
    \/ own_mod(t) \/ own_cancel(t) \/ flush_timer(t) \/ flush_queue(t) \/ start_flush_work(t)
    \/ insert_wq_barrier(t) \/ flush_wait(t) \/ flush_returns(t)

RunnerStep(r) == (\E p \in WcPools : worker_takes(r, p)) \/ worker_finishes(r) \/ process_scheduled_works(r)

TimerStep == timer_expires \/ delayed_work_timer_fn

Next ==
    \/ \E t \in Threads, p \in WcPools \cup {None} : \E c \in Calls[t] : call(t, c, p)
    \/ \E t \in Threads : ThreadStep(t)
    \/ \E r \in WcRunners : RunnerStep(r)
    \/ TimerStep

Spec == Init /\ [][Next]_wc_vars

Fairness ==
    /\ \A t \in Threads : WF_wc_vars(ThreadStep(t))
    /\ \A r \in WcRunners : WF_wc_vars(RunnerStep(r))
    /\ WF_wc_vars(TimerStep)

--------------------------------------------------------------------------------
\* disable_work_sync and cancel_work_sync: once they have waited, and until the
\* item is enabled, it is neither executing nor queued nor on its timer,
\* whoever tried to queue it meanwhile.
DisabledIsQuiet ==
    (\E t \in Threads : thread[t].quiet \/ (At(t, "flushed") /\ thread[t].call \in SyncCalls)) =>
      /\ timer.state = "off" /\ ~data.pwq
      /\ \A p \in WcPools : Executing(p) = {} /\ W \notin Range(worklist[p])

\* The disable count is the number of threads that hold the item disabled: no
\* hand-over of PENDING loses or invents one.
DisableExact == data.disable = Cardinality({t \in Threads : thread[t].disables})

Idle == ~data.pwq /\ \A p \in WcPools : Executing(p) = {}
FlushedOf(S) == {t \in S : At(t, "flushed") /\ thread[t].call \in FlushCalls}

\* flush_work and flush_delayed_work leave the item neither queued nor
\* executing, whatever its timer was at, unless it was queued anew or
\* cancelled meanwhile.
FlushedIsIdle == FlushedOf(Threads \ (requeued \cup robbed)) # {} => Idle

\* "@work is guaranteed to be idle on return if it hasn't been requeued since
\* flush started."
FlushGuarantee == FlushedOf(Threads \ requeued) # {} => Idle

\* Every call returns: no retry for PENDING and no barrier waits for ever.
CallsReturn == \A t \in Threads : []<>At(t, "idle")

================================================================================
