------------------------------- MODULE WqActive -------------------------------
(***************************************************************************)
(* How many items of an unbound workqueue may be active (kernel/workqueue.c):*)
(* the count the pwqs of a node share (wq_node_nr_active), taken with a      *)
(* compare-and-swap and no common lock; the pwqs that wait for it; max_active*)
(* set, spread over the nodes as CPUs come and go, and cleared to freeze;    *)
(* and the plug that keeps the newer pwqs of an ordered workqueue waiting.   *)
(*                                                                         *)
(* Every pwq has a pool of its own. Items are counted, not named.            *)
(***************************************************************************)
EXTENDS Integers, SequencesExt, FiniteSetsExt

CONSTANTS
    AcPwqs,         \* the pwqs, oldest first: 1..n
    Contexts,       \* CPUs that queue, finish or cancel an item
    ORDERED,        \* __WQ_ORDERED?
    SAVED_MAX,      \* the max_actives that are set (saved_max_active)
    MIN_ACTIVE,     \* saved_min_active
    NODE_CPUS,      \* CPUs of the node, and of the machine
    ALL_CPUS,
    FREEZE_AND_CANCEL,  \* does it see both freezes and cancelled items?
    MaxItems,       \* bound: items queued on the workqueue at a time
    MaxChanges      \* bound: changes of max_active or of the online CPUs

VARIABLES
    nna,        \* wq_node_nr_active: nr, max, the pending pwqs, the lock
    pwqs,       \* each pwq: counter, items that run, inactive items, plugged, pool->lock
    ctx,        \* each context: where it is, its pwq, the max it read, the pool it locked
    adj,        \* who holds wq->mutex, to adjust max_active or to unplug
    cfg,        \* wq->max_active, the CPUs online, and whether items get cancelled
    changes

wa_vars == <<nna, pwqs, ctx, adj, cfg, changes>>

None == "none"
Adjuster == "adjuster"
Actors == Contexts \cup {Adjuster}
Oldest == CHOOSE p \in AcPwqs : \A q \in AcPwqs : p <= q
Newest == CHOOSE p \in AcPwqs : \A q \in AcPwqs : p >= q

\* wq_update_node_max_active, for one node.
node_max(max, online) ==
    LET min == IF max = 0 THEN 0 ELSE IF MIN_ACTIVE < max THEN MIN_ACTIVE ELSE max
        share == (max * NODE_CPUS + online - 1) \div online
    IN IF ORDERED THEN max      \* NUMA_NO_NODE
       ELSE IF online = 0 THEN min
       ELSE IF share < min THEN min ELSE IF share > max THEN max ELSE share

Resting == [pc |-> "rest", pwq |-> Oldest, fill |-> FALSE, max |-> 0, locked |-> Oldest, retry |-> None]

Init ==
    /\ cfg \in [max : SAVED_MAX \ {0}, online : {ALL_CPUS}, cancels : BOOLEAN]
    /\ nna = [nr |-> 0, max |-> node_max(cfg.max, ALL_CPUS), pending |-> <<>>, lock |-> None]
    /\ pwqs = [p \in AcPwqs |-> [nr_active |-> 0, running |-> 0, inactive |-> 0,
                                 plugged |-> ORDERED /\ p # Oldest, lock |-> None, dead |-> FALSE]]
    /\ ctx = [c \in Actors |-> Resting]
    /\ adj = [pc |-> "free", at |-> 0, activated |-> FALSE, current |-> IF ORDERED THEN Oldest ELSE Newest]
    /\ changes = 0

--------------------------------------------------------------------------------
At(c, pc) == ctx[c].pc = pc
Mine(c) == ctx[c].pwq
InPending(p) == p \in Range(nna.pending)
Off(s, p) == SelectSeq(s, LAMBDA q : q # p)
Items == MapThenSumSet(LAMBDA p : pwqs[p].running + pwqs[p].inactive, AcPwqs)

Step(c, pc) == ctx' = [ctx EXCEPT ![c].pc = pc]

\* pwq_tryinc_nr_active has its answer: the item that asked is activated, or
\* (when it is a new one) put behind the inactive ones; the pool is unlocked.
Obtained(c, p, P) ==
    [P EXCEPT ![p].nr_active = @ + 1, ![p].running = @ + 1,
              ![p].inactive = IF ctx[c].retry = "queue" THEN @ ELSE @ - 1]
Refused(c, p, P) ==
    [P EXCEPT ![p].inactive = IF ctx[c].retry = "queue" THEN @ + 1 ELSE @]

\* Where the caller of pwq_tryinc_nr_active goes on.
Answer(c, p, got) ==
    /\ pwqs' = IF ctx[c].retry = "unplug" /\ got
               THEN Obtained(c, p, pwqs)
               ELSE [(IF got THEN Obtained(c, p, pwqs) ELSE Refused(c, p, pwqs)) EXCEPT ![p].lock = None]
    /\ IF ctx[c].retry = "unplug" /\ got
       THEN \* the second call of unplug_oldest_pwq, without fill
            /\ ctx' = [ctx EXCEPT ![c].pc = IF pwqs[p].inactive > 1 THEN "ask" ELSE "unlock",
                                  ![c].fill = FALSE, ![c].retry = "unplug2"]
            /\ UNCHANGED adj
       ELSE /\ ctx' = [ctx EXCEPT ![c] = Resting]
            /\ adj' = IF c = Adjuster
                      THEN [adj EXCEPT !.pc = IF ctx[c].retry = "adjust" THEN "round" ELSE "free",
                                       !.at = IF ctx[c].retry = "adjust" THEN @ + 1 ELSE 0,
                                       !.activated = IF ctx[c].retry = "adjust" THEN @ \/ got ELSE FALSE]
                      ELSE adj

--------------------------------------------------------------------------------
\* __queue_work: behind inactive items, and on a plugged pwq, the item is
\* inactive too; else it asks for an active count.
__queue_work(c, p) ==
    /\ At(c, "rest") /\ c \in Contexts /\ Items < MaxItems
    /\ pwqs[p].lock = None /\ ~pwqs[p].dead
    /\ ORDERED => p = adj.current
    /\ IF pwqs[p].inactive > 0 \/ pwqs[p].plugged
       THEN pwqs' = [pwqs EXCEPT ![p].inactive = @ + 1] /\ UNCHANGED ctx
       ELSE /\ pwqs' = [pwqs EXCEPT ![p].lock = c]
            /\ ctx' = [ctx EXCEPT ![c] = [Resting EXCEPT !.pc = "ask", !.pwq = p, !.retry = "queue"]]
    /\ UNCHANGED <<nna, adj, cfg, changes>>

\* pwq_tryinc_nr_active: a pwq that waits already does not jump the line,
\* unless max_active has grown (fill).
ask(c) ==
    LET p == Mine(c) IN
    /\ At(c, "ask")
    /\ IF InPending(p) /\ ~ctx[c].fill THEN Answer(c, p, FALSE)
       ELSE /\ ctx' = [ctx EXCEPT ![c].pc = "try", ![c].max = nna.max]
            /\ UNCHANGED <<pwqs, adj>>
    /\ UNCHANGED <<nna, cfg, changes>>

\* tryinc_node_nr_active: max was read before, the swap is atomic.
try(c) ==
    LET p == Mine(c) IN
    /\ At(c, "try")
    /\ IF nna.nr < ctx[c].max
       THEN nna' = [nna EXCEPT !.nr = @ + 1] /\ Answer(c, p, TRUE)
       ELSE Step(c, "wait_nna") /\ UNCHANGED <<nna, pwqs, adj>>
    /\ UNCHANGED <<cfg, changes>>

\* Slip: once on the list, the count is not asked for again.
Slip_no_second_try(c) ==
    LET p == Mine(c) IN
    /\ At(c, "wait_nna") /\ nna.lock = None
    /\ nna' = [nna EXCEPT !.pending = IF InPending(p) THEN @ ELSE Append(@, p)]
    /\ Answer(c, p, FALSE)
    /\ UNCHANGED <<cfg, changes>>

\* nna->lock is taken and the pwq put on pending_pwqs, before it asks again.
lock_nna(c) ==
    LET p == Mine(c) IN
    /\ At(c, "wait_nna") /\ nna.lock = None
    /\ IF InPending(p) /\ ~ctx[c].fill
       THEN Answer(c, p, FALSE) /\ UNCHANGED nna
       ELSE /\ nna' = [nna EXCEPT !.lock = c, !.pending = IF InPending(p) THEN @ ELSE Append(@, p)]
            /\ ctx' = [ctx EXCEPT ![c].pc = "again", ![c].max = nna.max]
            /\ UNCHANGED <<pwqs, adj>>
    /\ UNCHANGED <<cfg, changes>>

again(c) ==
    LET p == Mine(c)  got == nna.nr < ctx[c].max IN
    /\ At(c, "again")
    /\ nna' = [nna EXCEPT !.nr = IF got THEN @ + 1 ELSE @, !.lock = None,
                          !.pending = IF got /\ ~ctx[c].fill THEN Off(@, p) ELSE @]
    /\ Answer(c, p, got)
    /\ UNCHANGED <<cfg, changes>>

--------------------------------------------------------------------------------
\* An active item finishes, or is cancelled on the worklist.
pwq_dec_nr_active(c, p) ==
    /\ At(c, "rest") /\ c \in Contexts /\ pwqs[p].running > 0 /\ pwqs[p].lock = None
    /\ pwqs' = [pwqs EXCEPT ![p].nr_active = @ - 1, ![p].running = @ - 1, ![p].lock = c]
    /\ ctx' = [ctx EXCEPT ![c] = [Resting EXCEPT !.pc = "dec", !.pwq = p, !.locked = p]]
    /\ UNCHANGED <<nna, adj, cfg, changes>>

\* Slip: a cancelled inactive item gives up an active count.
Slip_cancel_counts(p) ==
    /\ pwqs[p].inactive > 0 /\ pwqs[p].lock = None
    /\ FREEZE_AND_CANCEL \/ cfg.cancels
    /\ pwqs' = [pwqs EXCEPT ![p].inactive = @ - 1]
    /\ nna' = [nna EXCEPT !.nr = @ - 1]
    /\ UNCHANGED <<ctx, adj, cfg, changes>>

\* An inactive item is cancelled: no active count is involved.
cancel_inactive(p) ==
    /\ pwqs[p].inactive > 0 /\ pwqs[p].lock = None
    /\ FREEZE_AND_CANCEL \/ cfg.cancels
    /\ pwqs' = [pwqs EXCEPT ![p].inactive = @ - 1]
    /\ UNCHANGED <<nna, ctx, adj, cfg, changes>>

\* The shared count goes down; below max there may be room for another pwq.
dec_nr(c) ==
    /\ At(c, "dec")
    /\ nna' = [nna EXCEPT !.nr = @ - 1]
    /\ IF nna.nr - 1 >= nna.max
       THEN /\ pwqs' = [pwqs EXCEPT ![Mine(c)].lock = None]
            /\ ctx' = [ctx EXCEPT ![c] = Resting]
       ELSE Step(c, "look") /\ UNCHANGED pwqs
    /\ UNCHANGED <<adj, cfg, changes>>

look_pending(c) ==
    /\ At(c, "look")
    /\ IF nna.pending = <<>>
       THEN /\ pwqs' = [pwqs EXCEPT ![Mine(c)].lock = None]
            /\ ctx' = [ctx EXCEPT ![c] = Resting]
       ELSE Step(c, "activate") /\ UNCHANGED pwqs
    /\ UNCHANGED <<nna, adj, cfg, changes>>

\* node_activate_pending_pwq takes nna->lock, inside the pool's.
node_activate_begins(c) ==
    /\ At(c, "activate") /\ nna.lock = None
    /\ nna' = [nna EXCEPT !.lock = c]
    /\ Step(c, "head")
    /\ UNCHANGED <<pwqs, adj, cfg, changes>>

\* Everything is unlocked but the caller's own pool, then that.
Leave(c) == ctx' = [ctx EXCEPT ![c].pc = "leave"]

\* The first pending pwq; one of another pool needs that pool's lock, which is
\* tried for, or waited for without nna->lock.
node_activate_head(c) ==
    LET q == Head(nna.pending) IN
    /\ At(c, "head")
    /\ CASE nna.pending = <<>> ->
              nna' = [nna EXCEPT !.lock = None] /\ Leave(c) /\ UNCHANGED pwqs
         [] nna.pending # <<>> /\ q # ctx[c].locked ->
              /\ pwqs' = [pwqs EXCEPT ![ctx[c].locked].lock = None,
                                      ![q].lock = IF pwqs[q].lock = None THEN c ELSE @]
              /\ ctx' = [ctx EXCEPT ![c].locked = q, ![c].pc = IF pwqs[q].lock = None THEN "first" ELSE "dance"]
              /\ nna' = IF pwqs[q].lock = None THEN nna ELSE [nna EXCEPT !.lock = None]
         [] OTHER -> Step(c, "first") /\ UNCHANGED <<nna, pwqs>>
    /\ UNCHANGED <<adj, cfg, changes>>

dance(c) ==
    /\ At(c, "dance") /\ pwqs[ctx[c].locked].lock = None
    /\ pwqs' = [pwqs EXCEPT ![ctx[c].locked].lock = c]
    /\ Step(c, "activate")
    /\ UNCHANGED <<nna, adj, cfg, changes>>

\* Slip: a pwq that got an item activated leaves the list.
Slip_no_rotation(q) == Off(nna.pending, q)

\* A pwq with more inactive items goes to the end of the list.
Rotated(q) == IF pwqs[q].inactive = 1 THEN Off(nna.pending, q) ELSE Append(Off(nna.pending, q), q)

\* Nothing inactive: off the list, and the next; else its first item is
\* activated if the count allows.
node_activate_first(c) ==
    LET q == ctx[c].locked  got == nna.nr < nna.max IN
    /\ At(c, "first")
    /\ IF pwqs[q].inactive = 0
       THEN nna' = [nna EXCEPT !.pending = Off(@, q)] /\ Step(c, "head") /\ UNCHANGED pwqs
       ELSE /\ nna' = [nna EXCEPT !.lock = None, !.nr = IF got THEN @ + 1 ELSE @,
                                  !.pending = IF got THEN Rotated(q) ELSE @]
            /\ pwqs' = IF got THEN [pwqs EXCEPT ![q].nr_active = @ + 1, ![q].running = @ + 1, ![q].inactive = @ - 1]
                       ELSE pwqs
            /\ Leave(c)
    /\ UNCHANGED <<adj, cfg, changes>>

\* The other pool's lock is given back, and the caller's own taken again and
\* then given up in its turn.
leave(c) ==
    /\ At(c, "leave")
    /\ pwqs' = [pwqs EXCEPT ![ctx[c].locked].lock = None]
    /\ ctx' = [ctx EXCEPT ![c] = Resting]
    /\ UNCHANGED <<nna, adj, cfg, changes>>

--------------------------------------------------------------------------------
\* workqueue_set_max_active, freeze_workqueues_begin (0) and thaw_workqueues:
\* wq_adjust_max_active with wq->mutex held.
set_max_active(m) ==
    /\ adj.pc = "free" /\ changes < MaxChanges /\ m # cfg.max
    /\ m = 0 => FREEZE_AND_CANCEL \/ ~cfg.cancels
    /\ ORDERED => m <= 1
    /\ changes' = changes + 1
    /\ cfg' = [cfg EXCEPT !.max = m]
    /\ nna' = [nna EXCEPT !.max = node_max(m, cfg.online)]
    /\ adj' = IF m = 0 THEN adj ELSE [adj EXCEPT !.pc = "round", !.at = Oldest, !.activated = FALSE]
    /\ UNCHANGED <<pwqs, ctx>>

\* Round and round over the pwqs, one inactive item each, until none moves.
adjust_round ==
    LET p == adj.at IN
    /\ adj.pc = "round"
    /\ IF p > Newest
       THEN /\ adj' = IF adj.activated THEN [adj EXCEPT !.at = Oldest, !.activated = FALSE]
                      ELSE [adj EXCEPT !.pc = "free", !.at = 0]
            /\ UNCHANGED <<pwqs, ctx>>
       ELSE /\ pwqs[p].lock = None
            /\ IF pwqs[p].inactive = 0 \/ pwqs[p].plugged
               THEN adj' = [adj EXCEPT !.at = @ + 1] /\ UNCHANGED <<pwqs, ctx>>
               ELSE /\ pwqs' = [pwqs EXCEPT ![p].lock = Adjuster]
                    /\ ctx' = [ctx EXCEPT ![Adjuster] =
                                 [Resting EXCEPT !.pc = "ask", !.pwq = p, !.fill = TRUE, !.retry = "adjust"]]
                    /\ adj' = [adj EXCEPT !.pc = "asking"]
    /\ UNCHANGED <<nna, cfg, changes>>

\* A CPU goes or comes: only the node's max moves.
cpu_online(n) ==
    /\ adj.pc = "free" /\ changes < MaxChanges /\ n # cfg.online
    /\ changes' = changes + 1
    /\ cfg' = [cfg EXCEPT !.online = n]
    /\ nna' = [nna EXCEPT !.max = node_max(cfg.max, n)]
    /\ UNCHANGED <<pwqs, ctx, adj>>

--------------------------------------------------------------------------------
\* An ordered workqueue gets a new pwq (apply_wqattrs_commit): what is queued
\* from now on waits there, plugged.
replace_pwq ==
    /\ ORDERED /\ adj.pc = "free" /\ adj.current = Oldest /\ Newest # Oldest
    /\ adj' = [adj EXCEPT !.current = Newest]
    /\ UNCHANGED <<nna, pwqs, ctx, cfg, changes>>

\* Slip: the plug is pulled as soon as the pwq is replaced.
Slip_unplug_early(p) == TRUE

\* The last reference of a replaced pwq has gone.
Released(p) == pwqs[p].running = 0 /\ pwqs[p].inactive = 0

\* unplug_oldest_pwq, from pwq_release_workfn: the next pwq starts. What was
\* skipped while it was plugged is made up for: the first item asks for a
\* count, and if there are more the pwq is put on the pending list.
unplug_oldest_pwq ==
    /\ ORDERED /\ adj.pc = "free" /\ adj.current # Oldest /\ ~pwqs[Oldest].dead
    /\ pwqs[Oldest].lock = None /\ Released(Oldest) /\ pwqs[adj.current].lock = None
    /\ pwqs' = [pwqs EXCEPT ![Oldest].dead = TRUE, ![adj.current].plugged = FALSE,
                            ![adj.current].lock = IF pwqs[adj.current].inactive > 0 THEN Adjuster ELSE None]
    /\ IF pwqs[adj.current].inactive > 0
       THEN /\ adj' = [adj EXCEPT !.pc = "asking"]
            /\ ctx' = [ctx EXCEPT ![Adjuster] = [Resting EXCEPT !.pc = "ask", !.pwq = adj.current,
                                                                !.fill = TRUE, !.retry = "unplug"]]
       ELSE UNCHANGED <<adj, ctx>>
    /\ UNCHANGED <<nna, cfg, changes>>

unlock_unplugged ==
    /\ At(Adjuster, "unlock")
    /\ pwqs' = [pwqs EXCEPT ![Mine(Adjuster)].lock = None]
    /\ ctx' = [ctx EXCEPT ![Adjuster] = Resting]
    /\ adj' = [adj EXCEPT !.pc = "free"]
    /\ UNCHANGED <<nna, cfg, changes>>

--------------------------------------------------------------------------------
ActorStep(c) ==
    \/ ask(c) \/ try(c) \/ lock_nna(c) \/ again(c) \/ dec_nr(c) \/ look_pending(c)
    \/ node_activate_begins(c) \/ node_activate_head(c) \/ dance(c) \/ node_activate_first(c) \/ leave(c)

Environment ==
    \/ \E c \in Contexts, p \in AcPwqs : __queue_work(c, p)
    \/ \E p \in AcPwqs : cancel_inactive(p)
    \/ \E m \in SAVED_MAX : set_max_active(m)
    \/ \E n \in 0 .. ALL_CPUS : cpu_online(n)
    \/ replace_pwq

Finish(p) == \E c \in Contexts : pwq_dec_nr_active(c, p)
AdjustStep == adjust_round \/ unplug_oldest_pwq \/ unlock_unplugged

Next ==
    \/ Environment
    \/ \E c \in Actors : ActorStep(c)
    \/ \E p \in AcPwqs : Finish(p)
    \/ AdjustStep

Spec == Init /\ [][Next]_wa_vars

--------------------------------------------------------------------------------
\* Nobody is inside of an operation.
Quiet == adj.pc = "free" /\ \A c \in Actors : At(c, "rest")

\* The count of the node is what its pwqs have active.
NodeCountExact ==
    LET deccing == {c \in Actors : At(c, "dec")}
    IN nna.nr = MapThenSumSet(LAMBDA p : pwqs[p].nr_active, AcPwqs) + Cardinality(deccing)

\* No item is stranded: when nobody is at work, a pwq with inactive items is on
\* the pending list, where the next item to finish finds it, and while max_active is
\* not zero there is such an item. It does not say that there is no room: a limit
\* that rises with a CPU activates nothing (wq_update_node_max_active), and a pwq that
\* stays on the list when its inactive items are cancelled, or activated to fill a
\* raised limit, makes the next item queued there wait in line.
NothingStranded ==
    Quiet => \A p \in AcPwqs : pwqs[p].inactive > 0 /\ ~pwqs[p].plugged =>
               InPending(p) /\ (nna.max > 0 => nna.nr > 0)

\* The items of an ordered workqueue run one at a time, and none of a new pwq
\* before the last of the old one.
OrderKept ==
    ORDERED => /\ MapThenSumSet(LAMBDA p : pwqs[p].running, AcPwqs) <= 1
               /\ pwqs[Newest].running > 0 /\ Newest # Oldest =>
                    pwqs[Oldest].running = 0 /\ pwqs[Oldest].inactive = 0

================================================================================
