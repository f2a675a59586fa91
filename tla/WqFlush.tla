------------------------------- MODULE WqFlush -------------------------------
(***************************************************************************)
(* Flushing and draining a workqueue (kernel/workqueue.c): the colours that *)
(* mark what was queued before a flush, the first flusher, the queue of     *)
(* flushers behind it, the overflow queue for when no colour is free, and   *)
(* the cascade that wakes them. peer_remove_after_dead flushes              *)
(* packet_crypt_wq this way, and wg_destruct destroys what it drained.      *)
(*                                                                         *)
(* wq->mutex is held over several actions; each per-CPU queue (pwq) is      *)
(* visited under its pool's lock, in an action of its own.                  *)
(***************************************************************************)
EXTENDS Integers, SequencesExt, FiniteSetsExt

CONSTANTS
    Flushers,       \* threads that flush or drain
    NR_PWQS,        \* pwqs of the workqueue, 1..NR_PWQS
    FlWorks,        \* work items
    WORK_NR_COLORS, \* colours (16)
    MaxCalls,       \* bound: calls of flush or drain (0: none)
    Drainers        \* the threads that drain

VARIABLES
    wq,         \* the struct workqueue_struct
    pwq,        \* its pwqs
    items,      \* each item: where it is pending and where it runs
    flusher,    \* each thread, with its struct wq_flusher
    owed,       \* history: the item runs each flush has still to wait for
    calls       \* how many calls were made, if they are bounded

wf_vars == <<wq, pwq, items, flusher, owed, calls>>

None == "none"
Pwqs == 1 .. NR_PWQS
Colors == 0 .. WORK_NR_COLORS - 1
work_next_color(c) == (c + 1) % WORK_NR_COLORS

\* An item is pending, or runs, on a pwq with a colour; or not at all.
Nowhere == [pwq |-> 0, color |-> 0]

Init ==
    /\ wq = [work_color |-> 0, flush_color |-> 0, first |-> None, queue |-> <<>>, overflow |-> <<>>,
             to_flush |-> 0, drainers |-> 0, mutex |-> None]
    /\ pwq = [p \in Pwqs |-> [work_color |-> 0, flush_color |-> -1, nr_in_flight |-> [c \in Colors |-> 0]]]
    /\ items = [w \in FlWorks |-> [pending |-> Nowhere, running |-> Nowhere]]
    /\ flusher = [f \in Flushers |-> [pc |-> "idle", color |-> -1, done |-> 0, drain |-> FALSE, at |-> 0,
                                      fc |-> -1, wc |-> -1, wait |-> FALSE, then |-> None]]
    /\ owed = [f \in Flushers |-> {}] /\ calls = 0

\* A flusher outside of a preparation.
Rest(r, pc) == [r EXCEPT !.pc = pc, !.at = 0, !.fc = -1, !.wc = -1, !.wait = FALSE, !.then = None]

--------------------------------------------------------------------------------
\* Work items. A queued item takes the work colour of its pwq; one that runs
\* is queued where it runs. Who drains lets only items queue items.
__queue_work(by, w, p) ==
    LET q == IF items[w].running # Nowhere THEN items[w].running.pwq ELSE p
        c == pwq[q].work_color
    IN /\ items[w].pending = Nowhere
       /\ IF by = None THEN wq.drainers = 0 ELSE items[by].running # Nowhere
       /\ items' = [items EXCEPT ![w].pending = [pwq |-> q, color |-> c]]
       /\ pwq' = [pwq EXCEPT ![q].nr_in_flight[c] = @ + 1]
       /\ UNCHANGED <<wq, flusher, owed, calls>>

process_one_work(w) ==
    /\ items[w].pending # Nowhere /\ items[w].running = Nowhere
    /\ items' = [items EXCEPT ![w].running = items[w].pending, ![w].pending = Nowhere]
    /\ owed' = [f \in Flushers |->
                  IF <<w, "pending">> \in owed[f]
                  THEN (owed[f] \ {<<w, "pending">>}) \cup {<<w, "running">>} ELSE owed[f]]
    /\ UNCHANGED <<wq, pwq, flusher, calls>>

\* complete(&wq->first_flusher->done)
CompleteFirst(F) == [F EXCEPT ![wq.first].done = @ + 1]

\* Slip: the flush colour is not compared.
Slip_any_color(p, c) ==
    LET left == pwq[p].nr_in_flight[c] - 1
        tip == pwq[p].flush_color # -1 /\ left = 0
    IN /\ pwq' = [pwq EXCEPT ![p].nr_in_flight[c] = left, ![p].flush_color = IF tip THEN -1 ELSE @]
       /\ wq' = [wq EXCEPT !.to_flush = IF tip THEN @ - 1 ELSE @]
       /\ flusher' = IF tip /\ wq.to_flush = 1 THEN CompleteFirst(flusher) ELSE flusher

\* One item of colour c less on p; the last one of the colour that is being
\* flushed finishes p, and the last p wakes the first flusher.
pwq_dec_nr_in_flight(p, c) ==
    LET left == pwq[p].nr_in_flight[c] - 1
        tip == pwq[p].flush_color = c /\ left = 0
    IN /\ pwq' = [pwq EXCEPT ![p].nr_in_flight[c] = left, ![p].flush_color = IF tip THEN -1 ELSE @]
       /\ wq' = [wq EXCEPT !.to_flush = IF tip THEN @ - 1 ELSE @]
       /\ flusher' = IF tip /\ wq.to_flush = 1 THEN CompleteFirst(flusher) ELSE flusher

work_done(w) ==
    /\ items[w].running # Nowhere
    /\ pwq_dec_nr_in_flight(items[w].running.pwq, items[w].running.color)
    /\ items' = [items EXCEPT ![w].running = Nowhere]
    /\ owed' = [f \in Flushers |-> owed[f] \ {<<w, "running">>}]
    /\ UNCHANGED calls

\* cancel_work takes a pending item off its pwq.
try_to_grab_pending(w) ==
    /\ items[w].pending # Nowhere
    /\ pwq_dec_nr_in_flight(items[w].pending.pwq, items[w].pending.color)
    /\ items' = [items EXCEPT ![w].pending = Nowhere]
    /\ owed' = [f \in Flushers |-> owed[f] \ {<<w, "pending">>}]
    /\ UNCHANGED calls

--------------------------------------------------------------------------------
At(f, pc) == flusher[f].pc = pc
Holds(f) == wq.mutex = f

\* What is pending or running now.
InFlight ==
    {<<w, "pending">> : w \in {v \in FlWorks : items[v].pending # Nowhere}}
      \cup {<<w, "running">> : w \in {v \in FlWorks : items[v].running # Nowhere}}

\* flush_workqueue is called, by drain_workqueue or not.
flush_workqueue(f, drain) ==
    /\ At(f, "idle") /\ (MaxCalls = 0 \/ calls < MaxCalls)
    /\ calls' = IF MaxCalls = 0 THEN calls ELSE calls + 1
    /\ drain => wq.mutex = None /\ f \in Drainers
    /\ wq' = IF drain THEN [wq EXCEPT !.drainers = @ + 1] ELSE wq
    /\ flusher' = [flusher EXCEPT ![f].pc = "called", ![f].drain = drain]
    /\ owed' = [owed EXCEPT ![f] = InFlight]
    /\ UNCHANGED <<pwq, items>>

\* flush_workqueue_prep_pwqs(wq, fc, wc) begins; `then` is where it returns to.
Prep(F, f, fc, wc, then) ==
    [F EXCEPT ![f].pc = "prep", ![f].at = 1, ![f].fc = fc, ![f].wc = wc, ![f].wait = FALSE, ![f].then = then]

\* Slip: the preparation does not count itself.
Slip_count_from_zero(q, fc) == IF fc >= 0 THEN [q EXCEPT !.to_flush = 0] ELSE q

Armed(q, fc) == IF fc >= 0 THEN [q EXCEPT !.to_flush = 1] ELSE q

\* Slip: the first flusher of an idle workqueue takes the colour after its own.
Slip_next_color(f) ==
    LET next == work_next_color(wq.work_color)
    IN /\ At(f, "called") /\ wq.mutex = None
       /\ CASE next # wq.flush_color /\ wq.first = None ->
                 /\ wq' = Armed([wq EXCEPT !.mutex = f, !.work_color = next, !.first = f], 0)
                 /\ flusher' = Prep([flusher EXCEPT ![f].color = next], f, next, next, "first")
            [] next # wq.flush_color /\ wq.first # None ->
                 /\ wq' = [wq EXCEPT !.mutex = f, !.work_color = next, !.queue = Append(@, f)]
                 /\ flusher' = Prep([flusher EXCEPT ![f].color = wq.work_color], f, -1, next, "queued")
            [] OTHER ->
                 /\ wq' = [wq EXCEPT !.overflow = Append(@, f)]
                 /\ flusher' = [flusher EXCEPT ![f].pc = "wait"]
       /\ UNCHANGED <<pwq, items, owed, calls>>

\* Start-to-wait. With a colour free, the work colour becomes the flusher's
\* and is advanced; the first flusher arms the pwqs, a later one queues up.
\* Without, the flusher waits for the next cascade.
start_to_wait(f) ==
    LET next == work_next_color(wq.work_color)
    IN /\ At(f, "called") /\ wq.mutex = None
       /\ CASE next # wq.flush_color /\ wq.first = None ->
                 /\ wq' = Armed([wq EXCEPT !.mutex = f, !.work_color = next, !.first = f], 0)
                 /\ flusher' = Prep([flusher EXCEPT ![f].color = wq.work_color], f, wq.flush_color, next, "first")
            [] next # wq.flush_color /\ wq.first # None ->
                 /\ wq' = [wq EXCEPT !.mutex = f, !.work_color = next, !.queue = Append(@, f)]
                 /\ flusher' = Prep([flusher EXCEPT ![f].color = wq.work_color], f, -1, next, "queued")
            [] OTHER ->
                 /\ wq' = [wq EXCEPT !.overflow = Append(@, f)]
                 /\ flusher' = [flusher EXCEPT ![f].pc = "wait"]
       /\ UNCHANGED <<pwq, items, owed, calls>>

\* One pwq, under its pool's lock.
prep_pwq(f) ==
    LET p == flusher[f].at
        busy == flusher[f].fc >= 0 /\ pwq[p].nr_in_flight[IF flusher[f].fc >= 0 THEN flusher[f].fc ELSE 0] > 0
    IN /\ At(f, "prep") /\ p <= NR_PWQS
       /\ pwq' = [pwq EXCEPT ![p].flush_color = IF busy THEN flusher[f].fc ELSE @,
                             ![p].work_color = IF flusher[f].wc >= 0 THEN flusher[f].wc ELSE @]
       /\ wq' = [wq EXCEPT !.to_flush = IF busy THEN @ + 1 ELSE @]
       /\ flusher' = [flusher EXCEPT ![f].at = @ + 1, ![f].wait = @ \/ busy]
       /\ UNCHANGED <<items, owed, calls>>

\* Slip: the flusher's own count is given up without looking at what is left.
Slip_dec_only(f) == [w |-> [wq EXCEPT !.to_flush = IF flusher[f].fc >= 0 THEN @ - 1 ELSE @], f |-> flusher]

\* The count the preparation held is given up.
PrepEnds(f) ==
    [w |-> [wq EXCEPT !.to_flush = IF flusher[f].fc >= 0 THEN @ - 1 ELSE @],
     f |-> IF flusher[f].fc >= 0 /\ wq.to_flush = 1 THEN CompleteFirst(flusher) ELSE flusher]

\* A flush is over: it goes back to its caller.
Returned(F, f) == [F EXCEPT ![f] = [Rest(@, "flushed") EXCEPT !.color = -1, !.done = 0]]

\* ... of the first flusher: with nothing in flight there is nothing to wait for.
prep_first(f) ==
    LET e == PrepEnds(f)
    IN /\ At(f, "prep") /\ flusher[f].at > NR_PWQS /\ flusher[f].then = "first"
       /\ wq' = IF flusher[f].wait THEN [e.w EXCEPT !.mutex = None]
                ELSE [e.w EXCEPT !.mutex = None, !.first = None, !.flush_color = work_next_color(@)]
       /\ flusher' = IF flusher[f].wait THEN [e.f EXCEPT ![f] = Rest(@, "wait")] ELSE Returned(e.f, f)
       /\ UNCHANGED <<pwq, items, owed, calls>>

\* ... of a queued flusher, which only moved the work colour.
prep_queued(f) ==
    /\ At(f, "prep") /\ flusher[f].at > NR_PWQS /\ flusher[f].then = "queued"
    /\ wq' = [wq EXCEPT !.mutex = None]
    /\ flusher' = [flusher EXCEPT ![f] = Rest(@, "wait")]
    /\ UNCHANGED <<pwq, items, owed, calls>>

\* wait_for_completion, and the look at first_flusher without the mutex.
flush_woken(f) ==
    /\ At(f, "wait") /\ flusher[f].done > 0
    /\ flusher' = IF wq.first # f THEN Returned(flusher, f)
                  ELSE [flusher EXCEPT ![f].pc = "woken", ![f].done = @ - 1]
    /\ UNCHANGED <<wq, pwq, items, owed, calls>>

\* The mutex is taken and first_flusher looked at again.
cascade_begins(f) ==
    /\ At(f, "woken") /\ wq.mutex = None
    /\ IF wq.first # f THEN wq' = wq /\ flusher' = Returned(flusher, f)
       ELSE /\ wq' = [wq EXCEPT !.mutex = f, !.first = None]
            /\ flusher' = [flusher EXCEPT ![f].pc = "cascade"]
    /\ UNCHANGED <<pwq, items, owed, calls>>

\* The flushers at the head of the queue that share the current colour.
Sharing == LongestCommonPrefix({wq.queue, SelectSeq(wq.queue, LAMBDA g : flusher[g].color = wq.flush_color)})

\* Slip: overflowed flushers get the colour that has just become free.
Slip_overflow_reuses(F) ==
    [g \in Flushers |-> IF g \in Range(wq.overflow) THEN [F[g] EXCEPT !.color = wq.flush_color] ELSE F[g]]

\* The overflowed flushers all take the work colour.
OverflowColored(F) ==
    [g \in Flushers |-> IF g \in Range(wq.overflow) THEN [F[g] EXCEPT !.color = wq.work_color] ELSE F[g]]

\* One round of the cascade: the flushers of this colour are completed, the
\* flush colour is advanced, and the overflowed flushers start to wait.
cascade(f) ==
    LET rest == SubSeq(wq.queue, Len(Sharing) + 1, Len(wq.queue))
        woken == [g \in Flushers |-> IF g \in Range(Sharing) THEN [flusher[g] EXCEPT !.done = @ + 1] ELSE flusher[g]]
        on == [wq EXCEPT !.queue = rest \o wq.overflow, !.overflow = <<>>, !.flush_color = work_next_color(@)]
    IN /\ At(f, "cascade") /\ Holds(f)
       /\ IF wq.overflow = <<>>
          THEN /\ wq' = on
               /\ flusher' = [woken EXCEPT ![f].pc = "next"]
          ELSE /\ wq' = [on EXCEPT !.work_color = work_next_color(@)]
               /\ flusher' = Prep(OverflowColored(woken), f, -1, work_next_color(wq.work_color), "overflow")
       /\ UNCHANGED <<pwq, items, owed, calls>>

prep_overflow(f) ==
    /\ At(f, "prep") /\ flusher[f].at > NR_PWQS /\ flusher[f].then = "overflow"
    /\ flusher' = [flusher EXCEPT ![f] = Rest(@, "next")]
    /\ UNCHANGED <<wq, pwq, items, owed, calls>>

\* The next flusher becomes the first, and the pwqs are armed for its colour.
cascade_next(f) ==
    /\ At(f, "next") /\ Holds(f)
    /\ IF wq.queue = <<>>
       THEN wq' = [wq EXCEPT !.mutex = None] /\ flusher' = Returned(flusher, f)
       ELSE /\ wq' = Armed([wq EXCEPT !.queue = Tail(@), !.first = Head(wq.queue)], 0)
            /\ flusher' = Prep(flusher, f, wq.flush_color, -1, "next")
    /\ UNCHANGED <<pwq, items, owed, calls>>

\* With something to wait for, that flusher takes over; without, on to the
\* next colour.
prep_next(f) ==
    LET e == PrepEnds(f)
    IN /\ At(f, "prep") /\ flusher[f].at > NR_PWQS /\ flusher[f].then = "next"
       /\ IF flusher[f].wait
          THEN wq' = [e.w EXCEPT !.mutex = None] /\ flusher' = Returned(e.f, f)
          ELSE wq' = [e.w EXCEPT !.first = None] /\ flusher' = [e.f EXCEPT ![f] = Rest(@, "cascade")]
       /\ UNCHANGED <<pwq, items, owed, calls>>

--------------------------------------------------------------------------------
\* __flush_workqueue returns: to its caller, or into drain_workqueue, which
\* goes over the pwqs with the mutex held.
flush_returns(f) ==
    /\ At(f, "flushed")
    /\ IF flusher[f].drain
       THEN /\ wq.mutex = None /\ wq' = [wq EXCEPT !.mutex = f]
            /\ flusher' = [flusher EXCEPT ![f].pc = "drained", ![f].at = 1]
       ELSE wq' = wq /\ flusher' = [flusher EXCEPT ![f].pc = "idle"]
    /\ owed' = [owed EXCEPT ![f] = {}]
    /\ UNCHANGED <<pwq, items, calls>>

pwq_is_empty(p) == \A c \in Colors : pwq[p].nr_in_flight[c] = 0

\* One pwq is looked at; one that is not empty means another flush.
drain_pwq(f) ==
    /\ At(f, "drained") /\ flusher[f].at <= NR_PWQS
    /\ IF pwq_is_empty(flusher[f].at)
       THEN /\ flusher' = [flusher EXCEPT ![f].at = @ + 1] /\ UNCHANGED <<wq, owed>>
       ELSE /\ flusher' = [flusher EXCEPT ![f] = Rest(@, "called")]
            /\ wq' = [wq EXCEPT !.mutex = None]
            /\ owed' = [owed EXCEPT ![f] = InFlight]
    /\ UNCHANGED <<pwq, items, calls>>

drain_done(f) ==
    /\ At(f, "drained") /\ flusher[f].at > NR_PWQS
    /\ wq' = [wq EXCEPT !.drainers = @ - 1, !.mutex = None]
    /\ flusher' = [flusher EXCEPT ![f] = [Rest(@, "idle") EXCEPT !.drain = FALSE]]
    /\ UNCHANGED <<pwq, items, owed, calls>>

FlushStep(f) ==
    \/ prep_pwq(f) \/ prep_first(f) \/ prep_queued(f) \/ prep_overflow(f) \/ prep_next(f)
    \/ flush_woken(f) \/ cascade(f) \/ cascade_next(f) \/ drain_pwq(f) \/ drain_done(f)

LockStep(f) == start_to_wait(f) \/ cascade_begins(f) \/ flush_returns(f)

Next ==
    \/ \E by \in FlWorks \cup {None}, w \in FlWorks, p \in Pwqs : __queue_work(by, w, p)
    \/ \E w \in FlWorks : process_one_work(w) \/ work_done(w) \/ try_to_grab_pending(w)
    \/ \E f \in Flushers, drain \in BOOLEAN : flush_workqueue(f, drain)
    \/ \E f \in Flushers : FlushStep(f) \/ LockStep(f)

Spec == Init /\ [][Next]_wf_vars

\* Items are started and end; a thread runs; a mutex is handed to who waits.
Fairness ==
    /\ \A w \in FlWorks : WF_wf_vars(process_one_work(w)) /\ WF_wf_vars(work_done(w))
    /\ \A f \in Flushers : WF_wf_vars(FlushStep(f)) /\ SF_wf_vars(LockStep(f))

--------------------------------------------------------------------------------
\* __flush_workqueue returns only when every run that was pending or under way
\* when it was called is over, or was cancelled.
FlushWaits == \A f \in Flushers : At(f, "flushed") => owed[f] = {}

\* The ring of colours, whenever the mutex is free (the WARN_ONs of
\* __flush_workqueue): every pwq queues with the workqueue's colour; flushers
\* overflow only when the colours are used up, and then there is a queue for
\* the cascade to go on with; the queue is in the order of the colours; and an
\* armed pwq has a first flusher, who is counted right.
ColoursInOrder ==
    LET dist(c) == (c - wq.flush_color) % WORK_NR_COLORS
    IN wq.mutex = None =>
         /\ \A p \in Pwqs : pwq[p].work_color = wq.work_color
         /\ wq.overflow # <<>> => wq.queue # <<>> /\ work_next_color(wq.work_color) = wq.flush_color
         /\ \A i \in DOMAIN wq.queue :
              /\ dist(flusher[wq.queue[i]].color) \in 1 .. dist(wq.work_color) - 1
              /\ i > 1 => dist(flusher[wq.queue[i - 1]].color) <= dist(flusher[wq.queue[i]].color)
         /\ wq.first = None => wq.queue = <<>> /\ wq.flush_color = wq.work_color
         /\ wq.first # None => flusher[wq.first].color = wq.flush_color

\* Whoever brings nr_pwqs_to_flush to zero finds a first flusher to complete,
\* and it counts exactly the armed pwqs and the preparation under way.
FirstFlusherThere ==
    LET armed == {p \in Pwqs : pwq[p].flush_color # -1}
        preparing == {f \in Flushers : At(f, "prep") /\ flusher[f].fc >= 0}
    IN /\ armed # {} => wq.first # None
       /\ wq.to_flush = Cardinality(armed) + Cardinality(preparing)
       /\ \A p \in armed : pwq[p].nr_in_flight[pwq[p].flush_color] > 0

\* A flush returns, whatever goes on being queued.
FlushReturns ==
    \A f \in Flushers : []<>(flusher[f].drain \/ flusher[f].pc \in {"idle", "flushed"})

\* drain_workqueue: "Wait until the workqueue becomes empty."
DrainLeavesEmpty == \A f \in Flushers : At(f, "drained") /\ flusher[f].at > NR_PWQS => InFlight = {}

================================================================================
