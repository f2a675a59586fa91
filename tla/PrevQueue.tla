------------------------------ MODULE PrevQueue -----------------------------
(***************************************************************************)
(* struct prev_queue, pointer by pointer: the intrusive multi-producer     *)
(* single-consumer list of drivers/net/wireguard/queueing.c, with the peek *)
(* of queueing.h on top.  A step is one access to memory that another CPU  *)
(* may also access.  A packet that left the queue is freed, and its memory *)
(* may come back as a new packet at once.                                  *)
(***************************************************************************)
EXTENDS Integers, Sequences, FiniteSets

CONSTANTS Skbs, Producers, STUB, NULL, MAX_QUEUED_PACKETS

ASSUME QueueAssumption == /\ STUB \notin Skbs /\ NULL \notin Skbs /\ STUB # NULL
                          /\ MAX_QUEUED_PACKETS \in Nat \ {0}
                          /\ IsFiniteSet(Producers)

VARIABLES
    NEXT,          \* skb->prev, the link to the following element
    qhead, qtail,  \* queue->head, queue->tail
    count, peeked, \* queue->count, queue->peeked
    ppc, pskb,     \* each producer: where it is, its packet,
    old,           \*   and what its xchg returned
    cpc,           \* the consumer: where it is in wg_prev_queue_dequeue,
    tail,          \*   its local of that name,
    stub_old,      \*   and what its own xchg returned
    fifo,          \* history: the packets placed by xchg and not yet taken
    gap            \* history: during this call the queue looked empty

Elems == Skbs \cup {STUB}
shared == <<NEXT, qhead, qtail, count, peeked>>
producerVars == <<ppc, pskb, old>>
consumerVars == <<cpc, tail, stub_old>>
vars == <<shared, producerVars, consumerVars, fifo, gap>>

linking == {pskb[a] : a \in {b \in Producers : ppc[b] = "link"}}

\* The consumer may find nothing: the queue is empty, or one of its first two
\* packets is not linked yet.
Gap == \/ fifo = <<>>
       \/ fifo # <<>> /\ fifo[1] \in linking
       \/ Len(fifo) > 1 /\ fifo[2] \in linking

TypeOK ==
    /\ NEXT \in [Elems -> Elems \cup {NULL}]
    /\ qhead \in Elems /\ qtail \in Elems
    /\ count \in 0 .. MAX_QUEUED_PACKETS
    /\ peeked \in Skbs \cup {NULL}
    /\ ppc \in [Producers -> {"idle", "clear", "xchg", "link"}]
    /\ pskb \in [Producers -> Skbs \cup {NULL}]
    /\ old \in [Producers -> Elems \cup {NULL}]
    /\ cpc \in {"idle", "load_next", "compare", "stub_clear", "stub_xchg",
                "stub_link", "reload"}
    /\ tail \in Elems \cup {NULL}
    /\ stub_old \in Elems \cup {NULL}
    /\ fifo \in Seq(Skbs)
    /\ gap \in BOOLEAN

\* wg_prev_queue_init
Init ==
    /\ NEXT = [e \in Elems |-> NULL]
    /\ qhead = STUB /\ qtail = STUB
    /\ count = 0
    /\ peeked = NULL
    /\ ppc = [a \in Producers |-> "idle"]
    /\ pskb = [a \in Producers |-> NULL]
    /\ old = [a \in Producers |-> NULL]
    /\ cpc = "idle" /\ tail = NULL /\ stub_old = NULL
    /\ fifo = <<>>
    /\ gap = FALSE

\* A packet the stack may hand to a producer: nobody uses its memory.
Fresh(s) == /\ \A i \in DOMAIN fifo : fifo[i] # s
            /\ \A a \in Producers : pskb[a] # s
            /\ s # peeked
            /\ cpc = "idle" \/ s # tail

\* The history variable gap follows every step of a call.
TrackGap == gap' = (cpc' # "idle" /\ (gap \/ Gap \/ Gap'))

-----------------------------------------------------------------------------
(* Producers: wg_prev_queue_enqueue.                                        *)

\* Slip: the count is incremented without looking at the limit.
Slip_count_unbounded(a, s) ==
    /\ ppc[a] = "idle"
    /\ Fresh(s)
    /\ count' = count + 1
    /\ pskb' = [pskb EXCEPT ![a] = s]
    /\ ppc' = [ppc EXCEPT ![a] = "clear"]
    /\ UNCHANGED <<NEXT, qhead, qtail, peeked, old, consumerVars, fifo>>

\* atomic_add_unless(&queue->count, 1, MAX_QUEUED_PACKETS)
enqueue_count(a, s) ==
    /\ ppc[a] = "idle"
    /\ Fresh(s)
    /\ count # MAX_QUEUED_PACKETS
    /\ count' = count + 1
    /\ pskb' = [pskb EXCEPT ![a] = s]
    /\ ppc' = [ppc EXCEPT ![a] = "clear"]
    /\ UNCHANGED <<NEXT, qhead, qtail, peeked, old, consumerVars, fifo>>

\* Slip: the link of reused memory is not cleared.
Slip_stale_link(a) ==
    /\ ppc[a] = "clear"
    /\ ppc' = [ppc EXCEPT ![a] = "xchg"]
    /\ UNCHANGED <<shared, pskb, old, consumerVars, fifo>>

enqueue_clear(a) ==
    /\ ppc[a] = "clear"
    /\ NEXT' = [NEXT EXCEPT ![pskb[a]] = NULL]
    /\ ppc' = [ppc EXCEPT ![a] = "xchg"]
    /\ UNCHANGED <<qhead, qtail, count, peeked, pskb, old, consumerVars, fifo>>

enqueue_xchg(a) ==
    /\ ppc[a] = "xchg"
    /\ old' = [old EXCEPT ![a] = qhead]
    /\ qhead' = pskb[a]
    /\ fifo' = Append(fifo, pskb[a])
    /\ ppc' = [ppc EXCEPT ![a] = "link"]
    /\ UNCHANGED <<NEXT, qtail, count, peeked, pskb, consumerVars>>

enqueue_link(a) ==
    /\ ppc[a] = "link"
    /\ NEXT' = [NEXT EXCEPT ![old[a]] = pskb[a]]
    /\ pskb' = [pskb EXCEPT ![a] = NULL]
    /\ old' = [old EXCEPT ![a] = NULL]
    /\ ppc' = [ppc EXCEPT ![a] = "idle"]
    /\ UNCHANGED <<qhead, qtail, count, peeked, consumerVars, fifo>>

-----------------------------------------------------------------------------
(* Consumer: wg_prev_queue_peek, wg_prev_queue_dequeue, drop_peeked.        *)

ReturnNull == /\ cpc' = "idle"
              /\ tail' = NULL /\ stub_old' = NULL
              /\ UNCHANGED <<qtail, count, peeked>>

\* queue->tail = n; atomic_dec(&queue->count); return t, which peek remembers.
ReturnSkb(t, n) == /\ qtail' = n
                   /\ count' = count - 1
                   /\ peeked' = t
                   /\ cpc' = "idle"
                   /\ tail' = NULL /\ stub_old' = NULL

\* The packet the call takes leaves the history wherever it stands in it.
Taken(t) == fifo' = IF fifo # <<>> /\ fifo[1] = t THEN Tail(fifo)
                    ELSE SelectSeq(fifo, LAMBDA s : s # t)

\* peek with nothing peeked: load queue->tail and its NEXT, step over STUB.
dequeue_begin ==
    LET n == NEXT[qtail] IN
    /\ cpc = "idle"
    /\ peeked = NULL
    /\ \/ /\ qtail = STUB /\ n = NULL
          /\ ReturnNull
          /\ UNCHANGED fifo
       \/ /\ qtail = STUB /\ n # NULL
          /\ qtail' = n /\ tail' = n
          /\ cpc' = "load_next"
          /\ UNCHANGED <<count, peeked, stub_old, fifo>>
       \/ /\ qtail # STUB /\ n # NULL
          /\ ReturnSkb(qtail, n)
          /\ Taken(qtail)
       \/ /\ qtail # STUB /\ n = NULL
          /\ tail' = qtail
          /\ cpc' = "compare"
          /\ UNCHANGED <<qtail, count, peeked, stub_old, fifo>>
    /\ UNCHANGED <<NEXT, qhead, producerVars>>

dequeue_load_next ==
    /\ cpc = "load_next"
    /\ \/ /\ NEXT[tail] # NULL
          /\ ReturnSkb(tail, NEXT[tail])
          /\ Taken(tail)
       \/ /\ NEXT[tail] = NULL
          /\ cpc' = "compare"
          /\ UNCHANGED <<qtail, count, peeked, tail, stub_old, fifo>>
    /\ UNCHANGED <<NEXT, qhead, producerVars>>

\* if (tail != READ_ONCE(queue->head)) return NULL
dequeue_compare ==
    /\ cpc = "compare"
    /\ \/ /\ tail # qhead
          /\ ReturnNull
       \/ /\ tail = qhead
          /\ cpc' = "stub_clear"
          /\ UNCHANGED <<qtail, count, peeked, tail, stub_old>>
    /\ UNCHANGED <<NEXT, qhead, producerVars, fifo>>

\* __wg_prev_queue_enqueue(queue, STUB(queue)), in its three accesses.
dequeue_stub_clear ==
    /\ cpc = "stub_clear"
    /\ NEXT' = [NEXT EXCEPT ![STUB] = NULL]
    /\ cpc' = "stub_xchg"
    /\ UNCHANGED <<qhead, qtail, count, peeked, producerVars, tail,
                   stub_old, fifo>>

\* If the packet is still the last one, this step decides that it is taken.
dequeue_stub_xchg ==
    /\ cpc = "stub_xchg"
    /\ stub_old' = qhead
    /\ qhead' = STUB
    /\ IF qhead = tail THEN Taken(tail) ELSE UNCHANGED fifo
    /\ cpc' = "stub_link"
    /\ UNCHANGED <<NEXT, qtail, count, peeked, producerVars, tail>>

\* Slip: STUB is made the head but not linked behind the last packet.
Slip_stub_unlinked ==
    /\ cpc = "stub_link"
    /\ cpc' = "reload"
    /\ UNCHANGED <<shared, producerVars, tail, stub_old, fifo>>

dequeue_stub_link ==
    /\ cpc = "stub_link"
    /\ NEXT' = [NEXT EXCEPT ![stub_old] = STUB]
    /\ cpc' = "reload"
    /\ UNCHANGED <<qhead, qtail, count, peeked, producerVars, tail,
                   stub_old, fifo>>

\* Slip: the last path out does not decrement the count.
Slip_count_leaks ==
    /\ cpc = "reload"
    /\ \/ /\ NEXT[tail] # NULL
          /\ qtail' = NEXT[tail] /\ peeked' = tail
          /\ cpc' = "idle" /\ tail' = NULL /\ stub_old' = NULL
          /\ IF stub_old = tail THEN UNCHANGED fifo ELSE Taken(tail)
          /\ UNCHANGED count
       \/ /\ NEXT[tail] = NULL
          /\ ReturnNull
          /\ UNCHANGED fifo
    /\ UNCHANGED <<NEXT, qhead, producerVars>>

dequeue_reload ==
    /\ cpc = "reload"
    /\ \/ /\ NEXT[tail] # NULL
          /\ ReturnSkb(tail, NEXT[tail])
          /\ IF stub_old = tail THEN UNCHANGED fifo ELSE Taken(tail)
       \/ /\ NEXT[tail] = NULL
          /\ ReturnNull
          /\ UNCHANGED fifo
    /\ UNCHANGED <<NEXT, qhead, producerVars>>

\* wg_prev_queue_drop_peeked; the packet is then delivered and freed.
drop_peeked ==
    /\ cpc = "idle"
    /\ peeked # NULL
    /\ peeked' = NULL
    /\ UNCHANGED <<NEXT, qhead, qtail, count, producerVars, consumerVars, fifo>>

-----------------------------------------------------------------------------
ProducerNext(a) == \/ \E s \in Skbs : enqueue_count(a, s)
                   \/ enqueue_clear(a) \/ enqueue_xchg(a) \/ enqueue_link(a)
ConsumerNext == \/ dequeue_begin \/ dequeue_load_next \/ dequeue_compare
                \/ dequeue_stub_clear \/ dequeue_stub_xchg \/ dequeue_stub_link
                \/ dequeue_reload \/ drop_peeked

Next == ((\E a \in Producers : ProducerNext(a)) \/ ConsumerNext) /\ TrackGap

Spec == Init /\ [][Next]_vars

FairSpec == /\ Spec
            /\ \A a \in Producers :
                 WF_vars((enqueue_clear(a) \/ enqueue_xchg(a) \/ enqueue_link(a)) /\ TrackGap)
            /\ WF_vars(ConsumerNext /\ TrackGap)

-----------------------------------------------------------------------------
Abstract == INSTANCE PrevQueueSpec WITH fifo <- fifo, linking <- linking

(* The pointer code is a FIFO: whatever the interleaving of xchg, link and  *)
(* the consumer's loads, and although packet memory is reused, the packets  *)
(* come out in the order of their xchg, each once, and only once linked.    *)
ImplementsFifo == Abstract!QueueSpec

\* The consumer's next step returns NULL.
WillReturnNull ==
    \/ cpc = "idle" /\ peeked = NULL /\ qtail = STUB /\ NEXT[STUB] = NULL
    \/ cpc = "compare" /\ tail # qhead
    \/ cpc = "reload" /\ NEXT[tail] = NULL

(* wg_prev_queue_dequeue answers NULL only if during the call the queue was *)
(* empty or had an unlinked packet among its first two: it never overlooks  *)
(* two linked packets, nor a lone one.                                      *)
NullOnlyOnGap == WillReturnNull => gap \/ Gap

\* The packet of a call that has passed its deciding xchg but not returned.
TakenUnreturned == cpc \in {"stub_link", "reload"} /\ stub_old = tail

(* queue->count bounds the queue: it is at least the number of packets in   *)
(* the list, so the list never holds more than MAX_QUEUED_PACKETS, and it   *)
(* is exact once every call in progress is accounted for, so a burst of     *)
(* failed and successful calls never leaks capacity.                        *)
CountExact ==
    count = Len(fifo) + Cardinality({a \in Producers : ppc[a] \in {"clear", "xchg"}})
              + (IF TakenUnreturned THEN 1 ELSE 0)

(* Every packet placed in the queue is eventually taken out, if the         *)
(* consumer keeps calling.                                                  *)
EveryPacketTaken == \A s \in Skbs : []<>(\A i \in DOMAIN fifo : fifo[i] # s)
=============================================================================
