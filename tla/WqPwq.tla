-------------------------------- MODULE WqPwq --------------------------------
(***************************************************************************)
(* The pwqs of an unbound workqueue and their pools over time               *)
(* (kernel/workqueue.c): made when the workqueue is, replaced when its      *)
(* attributes change or a CPU comes or goes, with allocations that may fail,*)
(* held by the items on them, released by a kthread of their own when the   *)
(* last reference goes, and gone with destroy_workqueue. Readers find a pwq *)
(* under RCU and lock it afterwards.                                        *)
(***************************************************************************)
EXTENDS Integers, SequencesExt, FiniteSetsExt

CONSTANTS
    PwCpus,         \* CPUs, each a pod of its own
    PwAttrs,        \* the attributes the workqueue may be given
    PWQ_ORDERED,    \* __WQ_ORDERED: one pwq for all CPUs
    Queuers,        \* threads that queue items
    PwqIds,         \* pwqs that may exist at a time: 1..n
    MaxInFlight,    \* bound: items on a pwq
    MaxMaydays,     \* bound: calls for the rescuer that wait at a time
    MaxUpdates      \* bound: changes of attributes or of the online CPUs

VARIABLES
    wq,         \* its state, the pwqs installed (cpu_pwq, dfl_pwq), attributes, online CPUs
    pwq,        \* each pwq: refcnt, the attributes of its pool, items, linked
    poolref,    \* the pools, by their attributes: the refcnt of each
    relq,       \* pwq_release_worker's queue
    admin,      \* the holder of wq_pool_mutex
    queuer,     \* each queuer: the pwq it found
    updates,
    maydays,    \* wq->maydays: the pwqs that ask the rescuer for help
    rescuing    \* the pwq the rescuer is at

pq_vars == <<wq, pwq, poolref, relq, admin, queuer, updates, maydays, rescuing>>
mayday_vars == <<maydays, rescuing>>

Dfl == "dfl"
NULL == 0
Slots == PwCpus \cup {Dfl}
SlotOrder == SetToSeq(PwCpus) \o <<Dfl>>
PoolAttrs == PwAttrs \X Slots

Unused == [refcnt |-> 0, attrs |-> <<>>, items |-> 0, linked |-> FALSE]
NoSlots == [s \in Slots |-> NULL]

Init ==
    /\ wq = [state |-> "new", slot |-> NoSlots, attrs |-> CHOOSE a \in PwAttrs : TRUE, online |-> PwCpus]
    /\ pwq = [i \in PwqIds |-> Unused]
    /\ poolref = [a \in PoolAttrs |-> 0]
    /\ relq = <<>>
    /\ admin = [pc |-> "free", tbl |-> NoSlots, todo |-> <<>>]
    /\ queuer = [q \in Queuers |-> NULL]
    /\ updates = 0
    /\ maydays = <<>> /\ rescuing = NULL

--------------------------------------------------------------------------------
Exists(i) == pwq[i].attrs # <<>>

\* A pwq's memory may be used again when no RCU reader holds on to it.
FreshIds == {i \in PwqIds : ~Exists(i) /\ \A q \in Queuers : queuer[q] # i}

\* put_pwq: the last reference hands the pwq to the release worker.
Put(s, i) ==
    IF i = NULL THEN s
    ELSE [s EXCEPT !.pwq[i].refcnt = @ - 1, !.relq = IF s.pwq[i].refcnt = 1 THEN Append(@, i) ELSE @]

Now == [pwq |-> pwq, relq |-> relq]

\* wq_calc_pod_cpumask: the CPU's own pod if it is online, else everything.
wq_calc_pod_cpumask(a, online, s) == <<a, IF s \in online /\ ~PWQ_ORDERED THEN s ELSE Dfl>>

\* The pool with these attributes, made when there is none: a reference for
\* each pwq. put_unbound_pool gives one up; the last one ends the pool.
get_unbound_pool(x, new) == poolref[x] + Cardinality(new)
put_unbound_pool(x) == poolref[x] - 1

\* alloc_unbound_pwq of the slots in `slots`, in the pools of their attributes.
Alloc(a, online, slots, new) ==
    /\ pwq' = [i \in PwqIds |->
                 IF \E s \in slots : new[s] = i
                 THEN [refcnt |-> Cardinality({s \in slots : new[s] = i}), items |-> 0, linked |-> FALSE,
                       attrs |-> wq_calc_pod_cpumask(a, online, CHOOSE s \in slots : new[s] = i)]
                 ELSE pwq[i]]
    /\ poolref' = [x \in PoolAttrs |->
                     get_unbound_pool(x, {i \in PwqIds : (\E s \in slots : new[s] = i)
                                            /\ wq_calc_pod_cpumask(a, online, CHOOSE s \in slots : new[s] = i) = x})]

\* The pwqs an apply makes: one for each slot, or one for all if ordered.
Tables(slots) ==
    {t \in [slots -> FreshIds] : \A s, r \in slots : (t[s] = t[r]) <=> (s = r \/ PWQ_ORDERED)}
SomeTable(slots) == IF Tables(slots) = {} THEN NoSlots ELSE CHOOSE t \in Tables(slots) : TRUE

Extend(t) == [s \in Slots |-> IF s \in DOMAIN t THEN t[s] ELSE NULL]

--------------------------------------------------------------------------------
\* apply_wqattrs_prepare, by apply_workqueue_attrs or __alloc_workqueue: all
\* pwqs of the new table, or, when an allocation fails, those made so far, to
\* be put again.
apply_wqattrs_prepare(a, made) ==
    LET t == SomeTable(Slots) IN
    /\ admin.pc = "free"
    /\ wq.state = "new" \/ (wq.state = "live" /\ updates < MaxUpdates /\ a # wq.attrs)
    /\ Tables(Slots) # {} /\ made \subseteq Slots /\ (made # {} => Dfl \in made)
    /\ updates' = IF wq.state = "new" THEN updates ELSE updates + 1
    /\ Alloc(a, wq.online, made, t)
    /\ admin' = [pc |-> IF made = Slots THEN "install" ELSE "put",
                 tbl |-> [s \in Slots |-> IF s \in made THEN t[s] ELSE NULL], todo |-> SlotOrder]
    /\ wq' = IF made = Slots THEN [wq EXCEPT !.attrs = a]
             ELSE IF wq.state = "new" THEN [wq EXCEPT !.state = "failed"] ELSE wq
    /\ UNCHANGED <<relq, queuer, mayday_vars>>

\* Slip: the table keeps the pwqs that were just installed.
Slip_put_new(s) == admin.tbl[s]

\* What is to be put after a slot has been filled: what was there.
OldOf(s) == wq.slot[s]

\* install_unbound_pwq, one slot at a time: readers look at them meanwhile.
install_unbound_pwq ==
    LET s == Head(admin.todo)  new == admin.tbl[s]  rest == Tail(admin.todo) IN
    /\ admin.pc = "install"
    /\ pwq' = [pwq EXCEPT ![new].linked = TRUE]
    /\ admin' = [tbl |-> [admin.tbl EXCEPT ![s] = OldOf(s)],
                 pc |-> IF rest = <<>> THEN "put" ELSE "install",
                 todo |-> IF rest = <<>> THEN SlotOrder ELSE rest]
    /\ wq' = [wq EXCEPT !.slot[s] = new, !.state = IF rest = <<>> /\ @ = "new" THEN "live" ELSE @]
    /\ UNCHANGED <<poolref, relq, queuer, updates, mayday_vars>>

\* apply_wqattrs_cleanup: put_pwq_unlocked for each entry of the table.
apply_wqattrs_cleanup ==
    LET s == Head(admin.todo)  now == Put(Now, admin.tbl[s])  rest == Tail(admin.todo) IN
    /\ admin.pc = "put"
    /\ pwq' = now.pwq /\ relq' = now.relq
    /\ admin' = [tbl |-> [admin.tbl EXCEPT ![s] = NULL], todo |-> rest,
                 pc |-> CASE rest # <<>> -> "put"
                          [] rest = <<>> /\ wq.state = "failed" -> "flush"
                          [] OTHER -> "free"]
    /\ UNCHANGED <<wq, poolref, queuer, updates, mayday_vars>>

\* Slip: the workqueue is freed without waiting for the release worker.
Slip_no_flush == TRUE

\* kthread_flush_worker has waited for what the failed allocation left.
Flushed == relq = <<>>

\* __alloc_workqueue frees the workqueue it could not make.
alloc_workqueue_fails ==
    /\ admin.pc = "flush" /\ Flushed
    /\ wq' = [wq EXCEPT !.state = "freed"]
    /\ admin' = [admin EXCEPT !.pc = "free"]
    /\ UNCHANGED <<pwq, poolref, relq, queuer, updates, mayday_vars>>

--------------------------------------------------------------------------------
\* workqueue_online_cpu and workqueue_offline_cpu, with unbound_wq_update_pwq
\* of the CPU's slot: nothing if the pool is right, a new pwq, or, when it
\* cannot be allocated, the default one.
unbound_wq_update_pwq(c, fails) ==
    LET online == IF c \in wq.online THEN wq.online \ {c} ELSE wq.online \cup {c}
        t == SomeTable({c})
        right == PWQ_ORDERED \/ pwq[wq.slot[c]].attrs = wq_calc_pod_cpumask(wq.attrs, online, c)
    IN /\ admin.pc = "free" /\ wq.state = "live" /\ updates < MaxUpdates
       /\ updates' = updates + 1
       /\ wq' = [wq EXCEPT !.online = online]
       /\ CASE right -> UNCHANGED <<pwq, poolref, admin>>
            [] ~right /\ ~fails /\ Tables({c}) # {} ->
                 /\ Alloc(wq.attrs, online, {c}, t)
                 /\ admin' = [pc |-> "install", tbl |-> Extend(t), todo |-> <<c>>]
            [] ~right /\ fails ->
                 /\ pwq' = [pwq EXCEPT ![wq.slot[Dfl]].refcnt = @ + 1]
                 /\ admin' = [pc |-> "install", tbl |-> Extend([s \in {c} |-> wq.slot[Dfl]]), todo |-> <<c>>]
                 /\ UNCHANGED poolref
       /\ UNCHANGED <<relq, queuer, mayday_vars>>

--------------------------------------------------------------------------------
\* __queue_work: the slot is read under RCU ...
queue_find(q, c) ==
    /\ queuer[q] = NULL /\ wq.slot[c] # NULL /\ wq.state = "live"
    /\ queuer' = [queuer EXCEPT ![q] = wq.slot[c]]
    /\ UNCHANGED <<wq, pwq, poolref, relq, admin, updates, mayday_vars>>

\* Slip: the reference count is not looked at.
Slip_queue_on_dead(i) == FALSE

Dead(i) == pwq[i].refcnt = 0

\* ... and with its pool locked the pwq may turn out to be dead: try again.
queue_lock(q) ==
    LET i == queuer[q] IN
    /\ i # NULL
    /\ IF Dead(i) THEN UNCHANGED pwq
       ELSE /\ pwq[i].items < MaxInFlight
            /\ pwq' = [pwq EXCEPT ![i].refcnt = @ + 1, ![i].items = @ + 1]
    /\ queuer' = [queuer EXCEPT ![q] = NULL]
    /\ UNCHANGED <<wq, poolref, relq, admin, updates, mayday_vars>>

\* An item that runs is queued where it runs.
queue_where_running(i) ==
    /\ pwq[i].items \in 1 .. MaxInFlight - 1 /\ wq.state # "destroying"
    /\ pwq' = [pwq EXCEPT ![i].refcnt = @ + 1, ![i].items = @ + 1]
    /\ UNCHANGED <<wq, poolref, relq, admin, queuer, updates, mayday_vars>>

\* An item finishes: pwq_dec_nr_in_flight puts the pwq.
work_done(i) ==
    LET now == Put(Now, i) IN
    /\ pwq[i].items > 0
    /\ pwq' = [now.pwq EXCEPT ![i].items = @ - 1]
    /\ relq' = now.relq
    /\ UNCHANGED <<wq, poolref, admin, queuer, updates, mayday_vars>>

--------------------------------------------------------------------------------
\* Slip: the pwq is put on the list without a reference.
Slip_mayday_no_get(i) == pwq

get_pwq(i) == [pwq EXCEPT ![i].refcnt = @ + 1]

\* pool_mayday_timeout, for a pwq with work on its pool's list.
send_mayday(i) ==
    /\ pwq[i].items > 0 /\ i \notin Range(maydays) /\ Len(maydays) < MaxMaydays
    /\ pwq' = get_pwq(i)
    /\ maydays' = Append(maydays, i)
    /\ UNCHANGED <<wq, poolref, relq, admin, queuer, updates, rescuing>>

\* rescuer_thread: a pwq is taken off the list and, when what it needs is
\* done, put; it may be on the list again by then.
rescuer_takes ==
    /\ rescuing = NULL /\ maydays # <<>>
    /\ rescuing' = Head(maydays) /\ maydays' = Tail(maydays)
    /\ UNCHANGED <<wq, pwq, poolref, relq, admin, queuer, updates>>

rescuer_puts ==
    LET now == Put(Now, rescuing) IN
    /\ rescuing # NULL
    /\ pwq' = now.pwq /\ relq' = now.relq
    /\ rescuing' = NULL
    /\ UNCHANGED <<wq, poolref, admin, queuer, updates, maydays>>

--------------------------------------------------------------------------------
\* pwq_release_workfn: off wq->pwqs, the pool put, both under wq_pool_mutex
\* (which destroy_workqueue's puts do not hold), the pwq freed; the last one
\* of a workqueue frees that too.
pwq_release_workfn ==
    LET i == Head(relq)
        last == pwq[i].linked /\ ~\E j \in PwqIds \ {i} : pwq[j].linked
    IN /\ relq # <<>> /\ (admin.pc \in {"free", "flush"} \/ wq.state = "destroying")
       /\ relq' = Tail(relq)
       /\ pwq' = [pwq EXCEPT ![i] = Unused]
       /\ poolref' = [poolref EXCEPT ![pwq[i].attrs] = put_unbound_pool(pwq[i].attrs)]
       /\ wq' = IF last THEN [wq EXCEPT !.state = "freed"] ELSE wq
       /\ UNCHANGED <<admin, queuer, updates, mayday_vars>>

pwq_busy(i) == pwq[i].items > 0

\* destroy_workqueue, once nobody uses the workqueue, it is drained and the
\* rescuer has emptied the list and stopped: the base references are put, slot
\* by slot.
destroy_workqueue ==
    /\ admin.pc = "free" /\ wq.state = "live"
    /\ \A q \in Queuers : queuer[q] = NULL
    /\ \A i \in PwqIds : ~pwq_busy(i)
    /\ maydays = <<>> /\ rescuing = NULL
    /\ wq' = [wq EXCEPT !.state = "destroying", !.slot = NoSlots]
    /\ admin' = [pc |-> "put", tbl |-> wq.slot, todo |-> SlotOrder]
    /\ UNCHANGED <<pwq, poolref, relq, queuer, updates, mayday_vars>>

Next ==
    \/ \E a \in PwAttrs, made \in SUBSET Slots : apply_wqattrs_prepare(a, made)
    \/ install_unbound_pwq \/ apply_wqattrs_cleanup \/ alloc_workqueue_fails \/ destroy_workqueue
    \/ \E c \in PwCpus, fails \in BOOLEAN : unbound_wq_update_pwq(c, fails)
    \/ \E q \in Queuers, c \in PwCpus : queue_find(q, c)
    \/ \E q \in Queuers : queue_lock(q)
    \/ \E i \in PwqIds : queue_where_running(i) \/ work_done(i) \/ send_mayday(i)
    \/ rescuer_takes \/ rescuer_puts \/ pwq_release_workfn

Spec == Init /\ [][Next]_pq_vars

--------------------------------------------------------------------------------
\* Every reference of a pwq is a slot that points to it, an entry of the table
\* under way, an item in flight, or a call for the rescuer; so none is released
\* early or never.
ReferencesExact ==
    \A i \in PwqIds : Exists(i) =>
      pwq[i].refcnt = Cardinality({s \in Slots : wq.slot[s] = i})
                        + Cardinality({s \in Slots : admin.tbl[s] = i})
                        + pwq[i].items
                        + (IF i \in Range(maydays) THEN 1 ELSE 0) + (IF rescuing = i THEN 1 ELSE 0)

\* Whoever follows a slot finds a pwq that is alive, linked, and in a pool that
\* is: the table is never left pointing at something on its way out.
SlotsAlive ==
    \A s \in Slots : wq.slot[s] # NULL =>
      LET i == wq.slot[s] IN pwq[i].refcnt > 0 /\ pwq[i].linked /\ poolref[pwq[i].attrs] > 0

\* The workqueue is freed after its pwqs, those of a failed change of
\* attributes included, and everything is given back.
FreedLast ==
    wq.state = "freed" => /\ relq = <<>> /\ \A i \in PwqIds : ~Exists(i)
                          /\ \A a \in PoolAttrs : poolref[a] = 0

\* A released pwq has no items: nothing is queued on a pwq that is dying.
NoneOnDead == \A i \in Range(relq) : pwq[i].items = 0 /\ pwq[i].refcnt = 0

\* The rescuer finds the pwq it was called to, and its pool, whatever became of
\* the slots and of the items that called it.
RescuerFindsIt ==
    \A i \in Range(maydays) \cup ({rescuing} \ {NULL}) :
      Exists(i) /\ pwq[i].refcnt > 0 /\ poolref[pwq[i].attrs] > 0

================================================================================
