------------------------------- MODULE RxPath -------------------------------
(***************************************************************************)
(* WireGuard's data receive path, as the trigger build of the module has   *)
(* it (build/wg515-trigger): softirq producers append a packet to its      *)
(* peer's rx_queue and to the device's decrypt ring, decrypt workers take  *)
(* packets off the ring and complete them in any order, every completion   *)
(* may wake the peer's NAPI instance, and the poll delivers the peer's     *)
(* packets in queue order.  The knobs wg_headwake, wg_supp, wg_trig_k and  *)
(* wg_steal change who wakes the poll and when.                            *)
(*                                                                         *)
(* A step is what one CPU does between two accesses to state another CPU   *)
(* can see; memory is sequentially consistent, which is what the code's    *)
(* smp_mb()s and atomics establish for the variables below.                *)
(***************************************************************************)
EXTENDS Napi, Integers, Sequences, FiniteSets

CONSTANTS
    Peers,              \* the device's peers
    Packets,            \* the data packets that may arrive
    PeerOf,             \* the peer whose keypair a packet's index names
    Producers,          \* softirq contexts running wg_packet_receive
    Workers,            \* the per-CPU decrypt works of packet_crypt_wq
    Cpus,               \* CPUs running net_rx_action
    NULL,
    MAX_QUEUED_PACKETS, \* capacity of an rx_queue
    RingSize,           \* capacity of the device's decrypt ring
    Budget,             \* NAPI_POLL_WEIGHT
    Faults,             \* what may be wrong with a packet; see FaultKinds
    KnobSettings,       \* the module parameter settings the system starts with
    LiveTune            \* the parameters that are written while traffic flows

\* wg_trig_k is compared as an int; larger settings are outside this model.
INT_MAX == 2147483647

KnobNames == {"headwake", "supp", "trig_k", "steal"}
Knobs == [headwake : BOOLEAN, supp : BOOLEAN, trig_k : 0 .. INT_MAX, steal : Nat]

\* A packet may name no keypair, fail decrypt_packet, or be refused by
\* counter_validate or wg_socket_endpoint_from_skb.
FaultKinds == {"no_keypair", "undecryptable", "refused"}

Actors == Producers \cup Workers \cup Cpus

ASSUME PeerOfAssumption == PeerOf \in [Packets -> Peers]
ASSUME NullAssumption == NULL \notin Packets /\ NULL \notin Peers
ASSUME ActorsAssumption == /\ Producers \cap Workers = {}
                           /\ Producers \cap Cpus = {}
                           /\ Workers \cap Cpus = {}
ASSUME BoundsAssumption == /\ MAX_QUEUED_PACKETS \in Nat \ {0}
                           /\ RingSize \in Nat \ {0}
                           /\ Budget \in Nat \ {0}
ASSUME FaultsAssumption == Faults \subseteq FaultKinds
ASSUME KnobAssumption == /\ KnobSettings \subseteq Knobs
                         /\ KnobSettings # {}
                         /\ LiveTune \subseteq KnobNames

VARIABLES
    knob,       \* the current module parameters
    pstate,     \* life of a packet; PACKET_CB(skb)->state while it is queued
    rxq,        \* peer->rx_queue, in the order of the xchg on its head
    peeked,     \* peer->rx_queue.peeked
    ring,       \* wg->decrypt_queue.ring
    work,       \* workers whose work item is pending
    is_dead,    \* the peers with is_dead set
    napi,       \* peer->napi.state
    poll_list,  \* the instances on each CPU's softnet_data.poll_list
    rx_blocked_on, rx_ready, rx_timer_armed,   \* fields of struct wg_peer
    timer,      \* is peer->rx_coalesce_timer enqueued?
    tpc,        \* where wg_rx_coalesce_timer's callback is
    pc,         \* where each actor is
    skb,        \* the packet an actor has in hand
    cur,        \* the peer a CPU polls
    work_done, pulled, head   \* locals of wg_packet_rx_poll

queueVars == <<pstate, rxq, peeked, ring, work, is_dead>>
napiVars  == <<napi, poll_list>>
trigVars  == <<rx_blocked_on, rx_ready, rx_timer_armed, timer, tpc>>
pollVars  == <<cur, work_done, pulled, head>>
vars == <<knob, queueVars, napiVars, trigVars, pc, skb, pollVars>>

PacketStates == {"WIRE", "UNCRYPTED", "CRYPTED", "DEAD", "DELIVERED", "FREED"}

ProducerPCs == {"idle", "enqueue", "link", "produce", "kick"}
WorkerPCs   == {"idle", "consume"}
CompletionPCs == {"set_state", "gate", "wake",
                  "inc", "xchg", "cancel", "cmpxchg", "start"}
PollPCs == {"idle", "deliver", "steal", "pull", "stolen", "finish", "publish",
            "recheck", "supp", "clear", "supp_recheck", "complete", "exhausted"}

\* Where an actor has a packet in hand.
HandPCs == CompletionPCs \cup {"enqueue", "link", "produce", "kick"}

QueueTypeOK ==
    /\ knob \in KnobSettings
    /\ pstate \in [Packets -> PacketStates]
    /\ rxq \in [Peers -> Seq(Packets)]
    /\ peeked \in [Peers -> Packets \cup {NULL}]
    /\ ring \in Seq(Packets)
    /\ work \subseteq Workers
    /\ is_dead \subseteq Peers

WakeTypeOK ==
    /\ napi \in [Peers -> SUBSET NapiBits]
    /\ poll_list \in [Cpus -> SUBSET Peers]
    /\ rx_blocked_on \in [Peers -> Packets \cup {NULL}]
    /\ rx_ready \in [Peers -> Nat]
    /\ rx_timer_armed \in [Peers -> BOOLEAN]
    /\ timer \in [Peers -> BOOLEAN]
    /\ tpc \in [Peers -> {"idle", "clear", "sched"}]

ActorTypeOK ==
    /\ pc \in [Actors -> ProducerPCs \cup WorkerPCs \cup CompletionPCs \cup PollPCs]
    /\ \A a \in Producers : pc[a] \in ProducerPCs \cup CompletionPCs
    /\ \A w \in Workers : pc[w] \in WorkerPCs \cup CompletionPCs
    /\ \A c \in Cpus : pc[c] \in PollPCs \cup CompletionPCs
    /\ skb \in [Actors -> Packets \cup {NULL}]
    /\ \A a \in Actors : pc[a] \in HandPCs <=> skb[a] # NULL

PollTypeOK ==
    /\ cur \in [Cpus -> Peers \cup {NULL}]
    /\ \A c \in Cpus : pc[c] = "idle" <=> cur[c] = NULL
    /\ work_done \in [Cpus -> 0 .. Budget]
    /\ pulled \in [Cpus -> Nat]
    /\ head \in [Cpus -> Packets \cup {NULL}]

(* Types, and two facts that are more: an actor has a packet in hand exactly *)
(* where its program counter says so, and no poll delivers beyond its budget *)
(* (net_rx_action warns if one does).                                        *)
TypeOK == QueueTypeOK /\ WakeTypeOK /\ ActorTypeOK /\ PollTypeOK

Init ==
    /\ knob \in KnobSettings
    /\ pstate = [p \in Packets |-> "WIRE"]
    /\ rxq = [peer \in Peers |-> <<>>]
    /\ peeked = [peer \in Peers |-> NULL]
    /\ ring = <<>>
    /\ work = {}
    /\ is_dead = {}
    /\ napi = [peer \in Peers |-> napi_enabled]
    /\ poll_list = [c \in Cpus |-> {}]
    /\ rx_blocked_on = [peer \in Peers |-> NULL]
    /\ rx_ready = [peer \in Peers |-> 0]
    /\ rx_timer_armed = [peer \in Peers |-> FALSE]
    /\ timer = [peer \in Peers |-> FALSE]
    /\ tpc = [peer \in Peers |-> "idle"]
    /\ pc = [a \in Actors |-> "idle"]
    /\ skb = [a \in Actors |-> NULL]
    /\ cur = [c \in Cpus |-> NULL]
    /\ work_done = [c \in Cpus |-> 0]
    /\ pulled = [c \in Cpus |-> 0]
    /\ head = [c \in Cpus |-> NULL]

-----------------------------------------------------------------------------
(* The peer's rx_queue.  Appending takes two steps, the xchg that fixes the *)
(* order and the store that links the packet to its predecessor; until the  *)
(* store, the single consumer may be unable to see the packet or the one    *)
(* before it.  Module PrevQueue shows that the pointer code of queueing.c   *)
(* behaves like this.                                                       *)

Linked(p) == \A a \in Producers : ~(pc[a] = "link" /\ skb[a] = p)

Gap(q) == \/ q = <<>>
          \/ q # <<>> /\ ~ Linked(q[1])
          \/ Len(q) > 1 /\ ~ Linked(q[2])

\* What wg_prev_queue_dequeue, and wg_prev_queue_peek, may return.
DequeueReturns(q, p) == IF p = NULL THEN Gap(q)
                        ELSE q # <<>> /\ p = q[1] /\ Linked(p)
Peeks(peer) == IF peeked[peer] # NULL THEN {peeked[peer]}
               ELSE {p \in Packets \cup {NULL} : DequeueReturns(rxq[peer], p)}

\* The queue once the peek has returned p.
RxqAfterPeek(peer, p) == IF peeked[peer] = NULL /\ p # NULL
                         THEN [rxq EXCEPT ![peer] = Tail(@)] ELSE rxq

wg_prev_queue_peek(peer, p) ==
    /\ p \in Peeks(peer)
    /\ rxq' = RxqAfterPeek(peer, p)
    /\ peeked' = [peeked EXCEPT ![peer] = p]

Deliverable(p) == p # NULL /\ pstate[p] # "UNCRYPTED"
Blocked(p)     == p # NULL /\ pstate[p] = "UNCRYPTED"

\* napi_schedule() on one of the CPUs in C.
napi_schedule(peer, C) ==
    /\ napi' = [napi EXCEPT ![peer] = napi_schedule_prep(@)]
    /\ IF schedule_prep_owns(napi[peer])
       THEN \E c \in C : poll_list' = [poll_list EXCEPT ![c] = @ \cup {peer}]
       ELSE UNCHANGED poll_list

Goto(a, l) == pc' = [pc EXCEPT ![a] = l]

-----------------------------------------------------------------------------
(* wg_packet_receive / wg_packet_consume_data in a softirq.                 *)

\* No keypair for the packet's index, or its peer is dead: the packet and the
\* references on it are dropped.
consume_data_drop(a, p) ==
    /\ pc[a] = "idle"
    /\ pstate[p] = "WIRE"
    /\ "no_keypair" \in Faults \/ PeerOf[p] \in is_dead
    /\ pstate' = [pstate EXCEPT ![p] = "FREED"]
    /\ UNCHANGED <<knob, rxq, peeked, ring, work, is_dead, napiVars, trigVars,
                   pc, skb, pollVars>>

\* queue->count: the queued packets and those about to be placed.
Count(peer) == Len(rxq[peer]) +
    Cardinality({a \in Producers : pc[a] = "enqueue" /\ PeerOf[skb[a]] = peer})

\* The keypair is found and the peer is alive: the packet is UNCRYPTED and has
\* a place in the rx_queue's count, or on -ENOSPC it is freed.
consume_data(a, p) ==
    /\ pc[a] = "idle"
    /\ pstate[p] = "WIRE"
    /\ PeerOf[p] \notin is_dead
    /\ \/ /\ Count(PeerOf[p]) < MAX_QUEUED_PACKETS
          /\ pstate' = [pstate EXCEPT ![p] = "UNCRYPTED"]
          /\ skb' = [skb EXCEPT ![a] = p]
          /\ Goto(a, "enqueue")
       \/ /\ Count(PeerOf[p]) >= MAX_QUEUED_PACKETS
          /\ pstate' = [pstate EXCEPT ![p] = "FREED"]
          /\ UNCHANGED <<skb, pc>>
    /\ UNCHANGED <<knob, rxq, peeked, ring, work, is_dead, napiVars, trigVars,
                   pollVars>>

\* The xchg of __wg_prev_queue_enqueue gives the packet its place.
prev_queue_enqueue(a) ==
    /\ pc[a] = "enqueue"
    /\ rxq' = [rxq EXCEPT ![PeerOf[skb[a]]] = Append(@, skb[a])]
    /\ Goto(a, "link")
    /\ UNCHANGED <<knob, pstate, peeked, ring, work, is_dead, napiVars, trigVars,
                   skb, pollVars>>

\* The store that links the packet behind its predecessor.
prev_queue_link(a) ==
    /\ pc[a] = "link"
    /\ Goto(a, "produce")
    /\ UNCHANGED <<knob, queueVars, napiVars, trigVars, skb, pollVars>>

\* Slip: on a full ring the packet is forgotten, though it is in the rx_queue.
Slip_produce_forgets(a) ==
    /\ pc[a] = "produce"
    /\ \/ /\ Len(ring) < RingSize
          /\ ring' = Append(ring, skb[a])
          /\ Goto(a, "kick")
          /\ UNCHANGED skb
       \/ /\ Len(ring) >= RingSize
          /\ skb' = [skb EXCEPT ![a] = NULL]
          /\ Goto(a, "idle")
          /\ UNCHANGED ring
    /\ UNCHANGED <<knob, pstate, rxq, peeked, work, is_dead, napiVars, trigVars,
                   pollVars>>

\* ptr_ring_produce_bh, or -EPIPE: the queued packet is completed as DEAD.
ring_produce(a) ==
    /\ pc[a] = "produce"
    /\ \/ /\ Len(ring) < RingSize
          /\ ring' = Append(ring, skb[a])
          /\ Goto(a, "kick")
       \/ /\ Len(ring) >= RingSize
          /\ Goto(a, "set_state")
          /\ UNCHANGED ring
    /\ UNCHANGED <<knob, pstate, rxq, peeked, work, is_dead, napiVars, trigVars,
                   skb, pollVars>>

\* queue_work_on the CPU that the racy last_cpu counter names.
queue_work(a) ==
    /\ pc[a] = "kick"
    /\ \E w \in Workers : work' = work \cup {w}
    /\ skb' = [skb EXCEPT ![a] = NULL]
    /\ Goto(a, "idle")
    /\ UNCHANGED <<knob, pstate, rxq, peeked, ring, is_dead, napiVars, trigVars,
                   pollVars>>

-----------------------------------------------------------------------------
(* wg_packet_decrypt_worker.  A work item is never run twice at once, and   *)
(* queueing it while it runs makes it run again.                            *)

worker_start(w) ==
    /\ pc[w] = "idle"
    /\ w \in work
    /\ work' = work \ {w}
    /\ Goto(w, "consume")
    /\ UNCHANGED <<knob, pstate, rxq, peeked, ring, is_dead, napiVars, trigVars,
                   skb, pollVars>>

\* Slip: the worker looks at the ring's first packet without consuming it.
Slip_consume_peeks(w) ==
    /\ pc[w] = "consume"
    /\ ring # <<>>
    /\ skb' = [skb EXCEPT ![w] = Head(ring)]
    /\ Goto(w, "set_state")
    /\ UNCHANGED <<knob, queueVars, napiVars, trigVars, pollVars>>

worker_consume(w) ==
    /\ pc[w] = "consume"
    /\ \/ /\ ring # <<>>
          /\ skb' = [skb EXCEPT ![w] = Head(ring)]
          /\ ring' = Tail(ring)
          /\ Goto(w, "set_state")
       \/ /\ ring = <<>>
          /\ Goto(w, "idle")
          /\ UNCHANGED <<skb, ring>>
    /\ UNCHANGED <<knob, pstate, rxq, peeked, work, is_dead, napiVars, trigVars,
                   pollVars>>

-----------------------------------------------------------------------------
(* wg_queue_enqueue_per_peer_rx, run by a worker, by a poll that steals, or *)
(* by a producer whose packet found the ring full.                          *)

\* Where the function returns to.
Return(a) ==
    /\ skb' = [skb EXCEPT ![a] = NULL]
    /\ Goto(a, IF a \in Producers THEN "idle"
               ELSE IF a \in Workers THEN "consume" ELSE "steal")

\* The states wg_queue_enqueue_per_peer_rx may be called with.
Verdicts(a) ==
    IF a \in Producers THEN {"DEAD"}
    ELSE {"CRYPTED"} \cup {s \in {"DEAD"} : "undecryptable" \in Faults}

\* decrypt_packet's verdict becomes the packet's state; a packet the ring had
\* no room for is DEAD.  A DEAD packet always wakes the poll.
set_state(a) ==
    /\ pc[a] = "set_state"
    /\ \E state \in Verdicts(a) :
          /\ pstate' = [pstate EXCEPT ![skb[a]] = state]
          /\ Goto(a, IF state = "CRYPTED" THEN "gate" ELSE "wake")
    /\ UNCHANGED <<knob, rxq, peeked, ring, work, is_dead, napiVars, trigVars,
                   skb, pollVars>>

\* After smp_mb(): is this completion one that may advance delivery?
WakesHead(a) == rx_blocked_on[PeerOf[skb[a]]] \in {NULL, skb[a]}

gate(a) ==
    /\ pc[a] = "gate"
    /\ \/ /\ knob.headwake
          /\ ~ WakesHead(a)
          /\ Return(a)
       \/ /\ \/ knob.headwake /\ WakesHead(a)
             \/ ~ knob.headwake /\ knob.trig_k = 0
          /\ Goto(a, "wake")
          /\ UNCHANGED skb
       \/ /\ ~ knob.headwake
          /\ knob.trig_k # 0
          /\ Goto(a, "inc")
          /\ UNCHANGED skb
    /\ UNCHANGED <<knob, queueVars, napiVars, trigVars, pollVars>>

\* Slip: a stealing poll wakes its own peer instead of the packet's.
Slip_wake_own_peer(a) ==
    /\ pc[a] = "wake"
    /\ IF a \in Cpus THEN napi_schedule(cur[a], {a})
                     ELSE napi_schedule(PeerOf[skb[a]], Cpus)
    /\ Return(a)
    /\ UNCHANGED <<knob, queueVars, trigVars, pollVars>>

wake(a) ==
    /\ pc[a] = "wake"
    /\ napi_schedule(PeerOf[skb[a]], IF a \in Cpus THEN {a} ELSE Cpus)
    /\ Return(a)
    /\ UNCHANGED <<knob, queueVars, trigVars, pollVars>>

\* atomic_inc_return(&peer->rx_ready) against the batch threshold.
inc_ready(a) ==
    LET peer == PeerOf[skb[a]] IN
    /\ pc[a] = "inc"
    /\ rx_ready' = [rx_ready EXCEPT ![peer] = @ + 1]
    /\ Goto(a, IF rx_ready[peer] + 1 >= knob.trig_k THEN "xchg" ELSE "cmpxchg")
    /\ UNCHANGED <<knob, queueVars, napiVars, rx_blocked_on, rx_timer_armed,
                   timer, tpc, skb, pollVars>>

\* atomic_xchg(&peer->rx_timer_armed, 0)
disarm(a) ==
    LET peer == PeerOf[skb[a]] IN
    /\ pc[a] = "xchg"
    /\ rx_timer_armed' = [rx_timer_armed EXCEPT ![peer] = FALSE]
    /\ Goto(a, IF rx_timer_armed[peer] THEN "cancel" ELSE "wake")
    /\ UNCHANGED <<knob, queueVars, napiVars, rx_blocked_on, rx_ready, timer,
                   tpc, skb, pollVars>>

\* hrtimer_try_to_cancel: takes an enqueued timer off, but does nothing while
\* the callback runs.
cancel_timer(a) ==
    /\ pc[a] = "cancel"
    /\ timer' = [timer EXCEPT ![PeerOf[skb[a]]] = @ /\ tpc[PeerOf[skb[a]]] # "idle"]
    /\ Goto(a, "wake")
    /\ UNCHANGED <<knob, queueVars, napiVars, rx_blocked_on, rx_ready,
                   rx_timer_armed, tpc, skb, pollVars>>

\* atomic_cmpxchg(&peer->rx_timer_armed, 0, 1): one owner starts the timer.
arm(a) ==
    LET peer == PeerOf[skb[a]] IN
    /\ pc[a] = "cmpxchg"
    /\ \/ /\ ~ rx_timer_armed[peer]
          /\ rx_timer_armed' = [rx_timer_armed EXCEPT ![peer] = TRUE]
          /\ Goto(a, "start")
          /\ UNCHANGED skb
       \/ /\ rx_timer_armed[peer]
          /\ Return(a)
          /\ UNCHANGED rx_timer_armed
    /\ UNCHANGED <<knob, queueVars, napiVars, rx_blocked_on, rx_ready, timer,
                   tpc, pollVars>>

hrtimer_start(a) ==
    /\ pc[a] = "start"
    /\ timer' = [timer EXCEPT ![PeerOf[skb[a]]] = TRUE]
    /\ Return(a)
    /\ UNCHANGED <<knob, queueVars, napiVars, rx_blocked_on, rx_ready,
                   rx_timer_armed, tpc, pollVars>>

-----------------------------------------------------------------------------
(* wg_rx_coalesce_timer: the softirq takes the timer off its base and runs  *)
(* the callback, which gives up rx_timer_armed and wakes the poll.          *)

timer_expire(peer) ==
    /\ timer[peer]
    /\ tpc[peer] = "idle"
    /\ timer' = [timer EXCEPT ![peer] = FALSE]
    /\ tpc' = [tpc EXCEPT ![peer] = "clear"]
    /\ UNCHANGED <<knob, queueVars, napiVars, rx_blocked_on, rx_ready,
                   rx_timer_armed, pc, skb, pollVars>>

\* Slip: the callback does not give up rx_timer_armed.
Slip_timer_stays_armed(peer) ==
    /\ tpc[peer] = "clear"
    /\ tpc' = [tpc EXCEPT ![peer] = "sched"]
    /\ UNCHANGED <<knob, queueVars, napiVars, rx_blocked_on, rx_ready,
                   rx_timer_armed, timer, pc, skb, pollVars>>

timer_clear(peer) ==
    /\ tpc[peer] = "clear"
    /\ rx_timer_armed' = [rx_timer_armed EXCEPT ![peer] = FALSE]
    /\ tpc' = [tpc EXCEPT ![peer] = "sched"]
    /\ UNCHANGED <<knob, queueVars, napiVars, rx_blocked_on, rx_ready, timer,
                   pc, skb, pollVars>>

timer_wake(peer) ==
    /\ tpc[peer] = "sched"
    /\ napi_schedule(peer, Cpus)
    /\ tpc' = [tpc EXCEPT ![peer] = "idle"]
    /\ UNCHANGED <<knob, queueVars, rx_blocked_on, rx_ready, rx_timer_armed,
                   timer, pc, skb, pollVars>>

-----------------------------------------------------------------------------
(* net_rx_action, __napi_poll and wg_packet_rx_poll.  Reading the head and  *)
(* reading its state is one step: only this consumer moves the head, so the *)
(* peek may as well happen when the state is read.                          *)

\* net_rx_action takes the instance off the list and polls it if SCHED is set;
\* wg_packet_rx_poll starts with rx_ready = 0.
net_rx_action(c, peer) ==
    /\ pc[c] = "idle"
    /\ peer \in poll_list[c]
    /\ poll_list' = [poll_list EXCEPT ![c] = @ \ {peer}]
    /\ IF "SCHED" \in napi[peer]
       THEN /\ cur' = [cur EXCEPT ![c] = peer]
            /\ rx_ready' = [rx_ready EXCEPT ![peer] = 0]
            /\ work_done' = [work_done EXCEPT ![c] = 0]
            /\ Goto(c, "deliver")
       ELSE UNCHANGED <<cur, rx_ready, work_done, pc>>
    /\ UNCHANGED <<knob, queueVars, napi, rx_blocked_on, rx_timer_armed, timer,
                   tpc, skb, pulled, head>>

\* Slip: the loop tests work_done > budget, one round too late.
Slip_deliver_over_budget(c) ==
    LET peer == cur[c] IN
    /\ pc[c] = "deliver"
    /\ \E p \in Peeks(peer) :
          /\ Deliverable(p)
          /\ rxq' = RxqAfterPeek(peer, p)
          /\ peeked' = [peeked EXCEPT ![peer] = NULL]
          /\ pstate' = [pstate EXCEPT ![p] = "FREED"]
    /\ work_done' = [work_done EXCEPT ![c] = @ + 1]
    /\ Goto(c, IF work_done[c] + 1 > Budget THEN "exhausted" ELSE "deliver")
    /\ UNCHANGED <<knob, ring, work, is_dead, napiVars, trigVars, skb, cur,
                   pulled, head>>

\* A CRYPTED packet whose nonce and endpoint are accepted goes to
\* wg_packet_consume_data_done and is gone: up the stack, or freed there as a
\* keepalive or for its size, type or source.  Any other packet is freed here.
Outcomes(p) ==
    IF pstate[p] = "CRYPTED"
    THEN {"DELIVERED"} \cup {s \in {"FREED"} : "refused" \in Faults}
    ELSE {"FREED"}

\* One round of the delivery loop: the head is dropped from the queue and
\* goes up the stack, or is freed (DEAD, a replayed nonce, a bad endpoint).
rx_poll_deliver(c) ==
    LET peer == cur[c] IN
    /\ pc[c] = "deliver"
    /\ \E p \in Peeks(peer) :
          /\ Deliverable(p)
          /\ rxq' = RxqAfterPeek(peer, p)
          /\ peeked' = [peeked EXCEPT ![peer] = NULL]
          /\ \E s \in Outcomes(p) : pstate' = [pstate EXCEPT ![p] = s]
    /\ work_done' = [work_done EXCEPT ![c] = @ + 1]
    /\ Goto(c, IF work_done[c] + 1 >= Budget THEN "exhausted" ELSE "deliver")
    /\ UNCHANGED <<knob, ring, work, is_dead, napiVars, trigVars, skb, cur,
                   pulled, head>>

\* The loop ends on an empty queue or an UNCRYPTED head; wg_steal's pass
\* starts with pulled = 0.
rx_poll_blocked(c) ==
    /\ pc[c] = "deliver"
    /\ \E p \in Peeks(cur[c]) : ~ Deliverable(p) /\ wg_prev_queue_peek(cur[c], p)
    /\ pulled' = [pulled EXCEPT ![c] = 0]
    /\ Goto(c, IF knob.steal > 0 THEN "steal" ELSE "finish")
    /\ UNCHANGED <<knob, pstate, ring, work, is_dead, napiVars, trigVars, skb,
                   cur, work_done, head>>

\* wg_steal, the loop test: while the head is UNCRYPTED and the pass has pulls
\* left, the poll goes to the device ring.
rx_poll_steal(c) ==
    /\ pc[c] = "steal"
    /\ \/ /\ pulled[c] < knob.steal
          /\ \E p \in Peeks(cur[c]) :
                /\ wg_prev_queue_peek(cur[c], p)
                /\ Goto(c, IF Blocked(p) THEN "pull" ELSE "stolen")
       \/ /\ pulled[c] >= knob.steal
          /\ Goto(c, "stolen")
          /\ UNCHANGED <<rxq, peeked>>
    /\ UNCHANGED <<knob, pstate, ring, work, is_dead, napiVars, trigVars, skb,
                   pollVars>>

\* Slip: the stolen packet stays in the ring.
Slip_pull_leaves_job(c) ==
    /\ pc[c] = "pull"
    /\ \/ /\ ring # <<>>
          /\ skb' = [skb EXCEPT ![c] = Head(ring)]
          /\ pulled' = [pulled EXCEPT ![c] = @ + 1]
          /\ Goto(c, "set_state")
       \/ /\ ring = <<>>
          /\ Goto(c, "stolen")
          /\ UNCHANGED <<skb, pulled>>
    /\ UNCHANGED <<knob, queueVars, napiVars, trigVars, cur, work_done, head>>

\* The poll decrypts a packet of the ring itself, whichever peer it is for.
rx_poll_pull(c) ==
    /\ pc[c] = "pull"
    /\ \/ /\ ring # <<>>
          /\ skb' = [skb EXCEPT ![c] = Head(ring)]
          /\ ring' = Tail(ring)
          /\ pulled' = [pulled EXCEPT ![c] = @ + 1]
          /\ Goto(c, "set_state")
       \/ /\ ring = <<>>
          /\ Goto(c, "stolen")
          /\ UNCHANGED <<skb, ring, pulled>>
    /\ UNCHANGED <<knob, pstate, rxq, peeked, work, is_dead, napiVars, trigVars,
                   cur, work_done, head>>

\* The pass is over; if it pulled and the head is deliverable, delivery goes on.
rx_poll_stolen(c) ==
    /\ pc[c] = "stolen"
    /\ \/ /\ pulled[c] > 0
          /\ \E p \in Peeks(cur[c]) :
                /\ wg_prev_queue_peek(cur[c], p)
                /\ Goto(c, IF Deliverable(p) THEN "deliver" ELSE "finish")
       \/ /\ pulled[c] = 0
          /\ Goto(c, "finish")
          /\ UNCHANGED <<rxq, peeked>>
    /\ UNCHANGED <<knob, pstate, ring, work, is_dead, napiVars, trigVars, skb,
                   pollVars>>

\* work_done < budget: with wg_headwake the head to park on is read, without
\* it the poll goes straight on to wg_supp.
rx_poll_finish(c) ==
    /\ pc[c] = "finish"
    /\ \/ /\ knob.headwake
          /\ \E p \in Peeks(cur[c]) : /\ wg_prev_queue_peek(cur[c], p)
                                     /\ head' = [head EXCEPT ![c] = p]
          /\ Goto(c, "publish")
       \/ /\ ~ knob.headwake
          /\ Goto(c, "supp")
          /\ UNCHANGED <<rxq, peeked, head>>
    /\ UNCHANGED <<knob, pstate, ring, work, is_dead, napiVars, trigVars, skb,
                   cur, work_done, pulled>>

\* Slip: an empty queue is not published, the old pointer stays.
Slip_publish_only_heads(c) ==
    /\ pc[c] = "publish"
    /\ rx_blocked_on' = IF head[c] = NULL THEN rx_blocked_on
                        ELSE [rx_blocked_on EXCEPT ![cur[c]] = head[c]]
    /\ Goto(c, "recheck")
    /\ UNCHANGED <<knob, queueVars, napiVars, rx_ready, rx_timer_armed, timer,
                   tpc, skb, pollVars>>

\* WRITE_ONCE(peer->rx_blocked_on, head); smp_mb()
rx_poll_publish(c) ==
    /\ pc[c] = "publish"
    /\ rx_blocked_on' = [rx_blocked_on EXCEPT ![cur[c]] = head[c]]
    /\ Goto(c, "recheck")
    /\ UNCHANGED <<knob, queueVars, napiVars, rx_ready, rx_timer_armed, timer,
                   tpc, skb, pollVars>>

\* Peek again, and set_bit(NAPI_STATE_MISSED) if the head has become
\* deliverable.
SetMissedIfReady(peer) ==
    \E p \in Peeks(peer) :
        /\ wg_prev_queue_peek(peer, p)
        /\ napi' = IF Deliverable(p) THEN [napi EXCEPT ![peer] = @ \cup {"MISSED"}]
                                    ELSE napi

\* Slip: publish without the re-check.
Slip_no_recheck(c) ==
    /\ pc[c] = "recheck"
    /\ Goto(c, "supp")
    /\ UNCHANGED <<knob, queueVars, napiVars, trigVars, skb, pollVars>>

rx_poll_recheck(c) ==
    /\ pc[c] = "recheck"
    /\ SetMissedIfReady(cur[c])
    /\ Goto(c, "supp")
    /\ UNCHANGED <<knob, pstate, ring, work, is_dead, poll_list, trigVars, skb,
                   pollVars>>

\* wg_supp: only an UNCRYPTED head makes a pending re-poll a wasted one.
rx_poll_supp(c) ==
    /\ pc[c] = "supp"
    /\ \/ /\ knob.supp
          /\ \E p \in Peeks(cur[c]) :
                /\ wg_prev_queue_peek(cur[c], p)
                /\ Goto(c, IF Blocked(p) THEN "clear" ELSE "complete")
       \/ /\ ~ knob.supp
          /\ Goto(c, "complete")
          /\ UNCHANGED <<rxq, peeked>>
    /\ UNCHANGED <<knob, pstate, ring, work, is_dead, napiVars, trigVars, skb,
                   pollVars>>

rx_poll_clear_missed(c) ==
    /\ pc[c] = "clear"
    /\ napi' = [napi EXCEPT ![cur[c]] = @ \ {"MISSED"}]
    /\ Goto(c, "supp_recheck")
    /\ UNCHANGED <<knob, queueVars, poll_list, trigVars, skb, pollVars>>

rx_poll_supp_recheck(c) ==
    /\ pc[c] = "supp_recheck"
    /\ SetMissedIfReady(cur[c])
    /\ Goto(c, "complete")
    /\ UNCHANGED <<knob, pstate, ring, work, is_dead, poll_list, trigVars, skb,
                   pollVars>>

\* napi_complete_done on CPU c: back on this CPU's list if MISSED was set.
CompleteDone(c, peer) ==
    /\ napi' = [napi EXCEPT ![peer] = IF complete_allowed(@)
                                      THEN napi_complete_done(@) ELSE @]
    /\ poll_list' = IF complete_allowed(napi[peer]) /\ "MISSED" \in napi[peer]
                    THEN [poll_list EXCEPT ![c] = @ \cup {peer}] ELSE poll_list

\* Leaving the poll: its locals are gone.
PollReturns(c) ==
    /\ Goto(c, "idle")
    /\ cur' = [cur EXCEPT ![c] = NULL]
    /\ work_done' = [work_done EXCEPT ![c] = 0]
    /\ pulled' = [pulled EXCEPT ![c] = 0]
    /\ head' = [head EXCEPT ![c] = NULL]

\* Slip: the poll leaves without napi_complete_done when its head is UNCRYPTED.
Slip_park_without_complete(c) ==
    /\ pc[c] = "complete"
    /\ IF Blocked(peeked[cur[c]]) THEN UNCHANGED napiVars
                                  ELSE CompleteDone(c, cur[c])
    /\ PollReturns(c)
    /\ UNCHANGED <<knob, queueVars, trigVars, skb>>

rx_poll_complete(c) ==
    /\ pc[c] = "complete"
    /\ CompleteDone(c, cur[c])
    /\ PollReturns(c)
    /\ UNCHANGED <<knob, queueVars, trigVars, skb>>

\* The whole budget was used: __napi_poll keeps the instance and polls it
\* again, unless napi_disable waits for it.
napi_poll_exhausted(c) ==
    /\ pc[c] = "exhausted"
    /\ \/ /\ "DISABLE" \in napi[cur[c]]
          /\ CompleteDone(c, cur[c])
       \/ /\ "DISABLE" \notin napi[cur[c]]
          /\ poll_list' = [poll_list EXCEPT ![c] = @ \cup {cur[c]}]
          /\ UNCHANGED napi
    /\ PollReturns(c)
    /\ UNCHANGED <<knob, queueVars, trigVars, skb>>

-----------------------------------------------------------------------------
\* A write to /sys/module/wireguard/parameters while traffic flows.
param_set ==
    /\ LiveTune # {}
    /\ knob' \in KnobSettings
    /\ \A name \in KnobNames : knob'[name] # knob[name] => name \in LiveTune
    /\ UNCHANGED <<queueVars, napiVars, trigVars, pc, skb, pollVars>>

ProducerStep(a) == \/ prev_queue_enqueue(a)
                   \/ prev_queue_link(a)
                   \/ ring_produce(a)
                   \/ queue_work(a)

WorkerStep(w) == worker_start(w) \/ worker_consume(w)

CompletionStep(a) == \/ set_state(a) \/ gate(a) \/ wake(a)
                     \/ inc_ready(a) \/ disarm(a) \/ cancel_timer(a)
                     \/ arm(a) \/ hrtimer_start(a)

TimerStep(peer) == \/ timer_expire(peer) \/ timer_clear(peer)
                   \/ timer_wake(peer)

PollStep(c) == \/ rx_poll_deliver(c) \/ rx_poll_blocked(c)
               \/ rx_poll_steal(c) \/ rx_poll_pull(c) \/ rx_poll_stolen(c)
               \/ rx_poll_finish(c) \/ rx_poll_publish(c) \/ rx_poll_recheck(c)
               \/ rx_poll_supp(c) \/ rx_poll_clear_missed(c)
               \/ rx_poll_supp_recheck(c)
               \/ rx_poll_complete(c) \/ napi_poll_exhausted(c)

Next ==
    \/ \E a \in Producers, p \in Packets : \/ consume_data(a, p)
                                          \/ consume_data_drop(a, p)
    \/ \E a \in Producers : ProducerStep(a)
    \/ \E w \in Workers : WorkerStep(w)
    \/ \E a \in Actors : CompletionStep(a)
    \/ \E peer \in Peers : TimerStep(peer)
    \/ \E c \in Cpus, peer \in Peers : net_rx_action(c, peer)
    \/ \E c \in Cpus : PollStep(c)
    \/ param_set

Spec == Init /\ [][Next]_vars

(* Fairness.  Softirqs, timers and runnable works run; a packet's arrival is *)
(* the network's choice.  A CPU's poll list is served in FIFO order, so an  *)
(* instance that stays on it is polled even if others keep coming: strong   *)
(* fairness on taking it.                                                   *)
Fairness ==
    /\ \A a \in Producers : WF_vars(ProducerStep(a))
    /\ \A w \in Workers : WF_vars(WorkerStep(w))
    /\ \A a \in Actors : WF_vars(CompletionStep(a))
    /\ \A peer \in Peers : WF_vars(TimerStep(peer))
    /\ \A c \in Cpus : WF_vars(PollStep(c))
    /\ \A c \in Cpus, peer \in Peers : SF_vars(net_rx_action(c, peer))

FairSpec == Spec /\ Fairness

-----------------------------------------------------------------------------
(* Properties.                                                              *)

\* CPU c has the peer's instance: on its poll list, or being polled.
Has(c, peer) == peer \in poll_list[c] \/ cur[c] = peer

(* The rx_queue is single-consumer (queueing.h: "Single consumer" on peek,  *)
(* drop_peeked and dequeue) although completions wake the instance from     *)
(* every CPU and the poll itself sets and clears MISSED: an instance is on  *)
(* one list or in one poll, exactly while SCHED is set.                     *)
SingleConsumer ==
    \A peer \in Peers :
        /\ \A c \in Cpus : ~ (peer \in poll_list[c] /\ cur[c] = peer)
        /\ \A c, d \in Cpus : Has(c, peer) /\ Has(d, peer) => c = d
        /\ "NPSVC" \notin napi[peer] =>
              ((\E c \in Cpus : Has(c, peer)) <=> "SCHED" \in napi[peer])

\* Actor a still owes packet p its completion.
Owes(a, p) == skb[a] = p /\ pc[a] \in {"enqueue", "link", "produce", "set_state"}
InRing(p)  == \E i \in DOMAIN ring : ring[i] = p

(* The state word of a packet decides who may touch it.  While it is        *)
(* UNCRYPTED exactly one producer, ring slot, worker or stealing poll owes  *)
(* it the completion; afterwards nobody but the consumer does, so no late   *)
(* writer reaches a packet that was delivered or freed (the comment "as     *)
(* soon as we call atomic_set ... from below us" in queueing.h).            *)
OneCompletionOwed ==
    \A p \in Packets :
        /\ pstate[p] = "UNCRYPTED" <=> InRing(p) \/ \E a \in Actors : Owes(a, p)
        /\ \A a \in Actors : Owes(a, p) => ~ InRing(p)
        /\ \A a, b \in Actors : Owes(a, p) /\ Owes(b, p) => a = b
        /\ \A i, j \in DOMAIN ring : ring[i] = p /\ ring[j] = p => i = j

\* The next packet to deliver, whether or not the consumer can see it yet.
First(peer) == CASE peeked[peer] # NULL -> peeked[peer]
                 [] peeked[peer] = NULL /\ rxq[peer] # <<>> -> rxq[peer][1]
                 [] OTHER -> NULL

\* The completion that actor a has begun will wake the peer, at once or by
\* the coalesce timer.
WakeComing(a, peer) ==
    /\ skb[a] # NULL
    /\ PeerOf[skb[a]] = peer
    /\ \/ pc[a] \in {"wake", "inc", "xchg", "cancel", "start"}
       \/ pc[a] = "gate" /\ (knob.headwake => WakesHead(a))
       \/ pc[a] = "cmpxchg" /\ ~ rx_timer_armed[peer]

\* The packet right behind the first one.
Second(peer) == LET q == rxq[peer] IN
                CASE peeked[peer] # NULL /\ q # <<>> -> q[1]
                  [] peeked[peer] = NULL /\ Len(q) > 1 -> q[2]
                  [] OTHER -> NULL

\* The head was completed while the packet behind it was still being linked,
\* so the delivery loop could not see it; that packet's completion will wake
\* the peer.
WakeOwedBySecond(peer) ==
    /\ Blocked(Second(peer))
    /\ knob.headwake => rx_blocked_on[peer] \in {NULL, Second(peer)}

WakePending(peer) == \/ \E a \in Actors : WakeComing(a, peer)
                     \/ timer[peer] \/ tpc[peer] # "idle"
                     \/ WakeOwedBySecond(peer)

(* No lost wake-up, the point of the publish-and-re-check of wg_headwake and *)
(* of the clear-and-re-check of wg_supp: a peer whose instance sleeps on a  *)
(* deliverable head has a wake on its way, from the very completion that    *)
(* made the head deliverable or from the timer.  The arrival of further     *)
(* traffic does not count.                                                  *)
NoLostWake ==
    \A peer \in Peers \ is_dead :
        Deliverable(First(peer)) /\ "SCHED" \notin napi[peer] => WakePending(peer)

(* A parked poll is woken by the packet it parked on: with wg_headwake, a   *)
(* sleeping instance whose head is UNCRYPTED has published that head, or    *)
(* NULL, which every completion matches.                                    *)
ParkedOnHead ==
    \A peer \in Peers \ is_dead :
        knob.headwake /\ Blocked(First(peer)) /\ "SCHED" \notin napi[peer] =>
            rx_blocked_on[peer] \in {NULL, First(peer)}

(* Every packet that got past wg_packet_consume_data leaves the queue: it   *)
(* is delivered or freed, whatever the order of completions.                *)
EveryPacketLeaves ==
    \A p \in Packets : pstate[p] \in {"UNCRYPTED", "CRYPTED", "DEAD"} ~>
                          pstate[p] \in {"DELIVERED", "FREED"}
=============================================================================
