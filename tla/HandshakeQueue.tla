---------------------------- MODULE HandshakeQueue ----------------------------
(***************************************************************************)
(* The queue of incoming handshake messages: softirqs that put them into    *)
(* the ring (wg_packet_receive), one worker per CPU that takes them out     *)
(* (wg_packet_handshake_receive_worker), the length both keep in an atomic  *)
(* of its own, the under-load decision taken from it, and wg_stop, which    *)
(* empties the ring and sets the length to zero.                            *)
(***************************************************************************)
EXTENDS Integers, Sequences, FiniteSetsExt

CONSTANTS
    Messages,       \* the handshake messages that arrive
    Softirqs,       \* CPUs that receive
    HsCpus,         \* CPUs that have a handshake receive worker
    RING_SIZE,      \* MAX_QUEUED_INCOMING_HANDSHAKES
    TRYLOCK_ABOVE,  \* half of it
    LOAD_FROM,      \* an eighth of it
    Stops           \* bound: how often the interface may be taken down

\* LOAD_FROM <= TRYLOCK_ABOVE < RING_SIZE: an eighth, half and all of the ring.

VARIABLES
    hring,                \* wg->handshake_queue.ring
    handshake_queue_len,
    fate,                 \* what became of each message
    softirq,              \* where each CPU's wg_packet_receive stands
    hworker,              \* where each worker stands
    hwork,                \* is the work of the CPU queued?
    last_under_load,      \* "never", "now", or "old": a second ago or more
    stopping,             \* where wg_stop stands
    stops                 \* how often it ran

hq_vars == <<hring, handshake_queue_len, fate, softirq, hworker, hwork, last_under_load,
             stopping, stops>>

At(pc, m) == [pc |-> pc, msg |-> m]
Nothing == "none"

HsInit ==
    /\ hring = <<>> /\ handshake_queue_len = 0
    /\ fate = [m \in Messages |-> "coming"]
    /\ softirq = [c \in Softirqs |-> At("idle", Nothing)]
    /\ hworker = [c \in HsCpus |-> At("idle", Nothing)]
    /\ hwork = [c \in HsCpus |-> FALSE]
    /\ last_under_load = "never" /\ stopping = "no" /\ stops = 0

--------------------------------------------------------------------------------
\* wg_packet_receive reads the length to choose how to take the producer lock.
wg_packet_receive(c) ==
    /\ softirq[c].pc = "idle"
    /\ \E m \in Messages :
         /\ fate[m] = "coming"
         /\ fate' = [fate EXCEPT ![m] = "taken"]
         /\ softirq' = [softirq EXCEPT ![c] =
               At(IF handshake_queue_len > TRYLOCK_ABOVE THEN "try" ELSE "produce", m)]
    /\ UNCHANGED <<hring, handshake_queue_len, hworker, hwork, last_under_load, stopping, stops>>

Drop(c) ==
    /\ fate' = [fate EXCEPT ![softirq[c].msg] = "dropped"]
    /\ softirq' = [softirq EXCEPT ![c] = At("idle", Nothing)]
    /\ UNCHANGED hring

\* The lock is held by another CPU: the message is dropped.
trylock_fails(c) ==
    /\ softirq[c].pc = "try"
    /\ \E d \in Softirqs \ {c} : softirq[d].pc \in {"try", "produce"}
    /\ Drop(c)
    /\ UNCHANGED <<handshake_queue_len, hworker, hwork, last_under_load, stopping, stops>>

ptr_ring_produce(c) ==
    /\ softirq[c].pc \in {"try", "produce"}
    /\ IF Len(hring) = RING_SIZE THEN Drop(c)
       ELSE /\ hring' = Append(hring, softirq[c].msg)
            /\ fate' = [fate EXCEPT ![softirq[c].msg] = "queued"]
            /\ softirq' = [softirq EXCEPT ![c].pc = "count"]
    /\ UNCHANGED <<handshake_queue_len, hworker, hwork, last_under_load, stopping, stops>>

atomic_inc(c) ==
    /\ softirq[c].pc = "count"
    /\ handshake_queue_len' = handshake_queue_len + 1
    /\ softirq' = [softirq EXCEPT ![c].pc = "work"]
    /\ UNCHANGED <<hring, fate, hworker, hwork, last_under_load, stopping, stops>>

\* Slip: the work is queued only by the message that makes the queue non-empty.
Slip_work_if_first(c) ==
    /\ softirq[c].pc = "work"
    /\ \E d \in HsCpus : hwork' = [hwork EXCEPT ![d] = @ \/ handshake_queue_len = 1]
    /\ softirq' = [softirq EXCEPT ![c] = At("idle", Nothing)]
    /\ UNCHANGED <<hring, handshake_queue_len, fate, hworker, last_under_load, stopping, stops>>

\* queue_work_on for some CPU; nothing happens if its work is queued already.
queue_work_on(c) ==
    /\ softirq[c].pc = "work"
    /\ \E d \in HsCpus : hwork' = [hwork EXCEPT ![d] = TRUE]
    /\ softirq' = [softirq EXCEPT ![c] = At("idle", Nothing)]
    /\ UNCHANGED <<hring, handshake_queue_len, fate, hworker, last_under_load, stopping, stops>>

--------------------------------------------------------------------------------
worker_start(c) ==
    /\ hwork[c] /\ hworker[c].pc = "idle"
    /\ hwork' = [hwork EXCEPT ![c] = FALSE]
    /\ hworker' = [hworker EXCEPT ![c].pc = "consume"]
    /\ UNCHANGED <<hring, handshake_queue_len, fate, softirq, last_under_load, stopping, stops>>

ptr_ring_consume(c) ==
    /\ hworker[c].pc = "consume"
    /\ IF hring = <<>>
       THEN hworker' = [hworker EXCEPT ![c].pc = "idle"] /\ UNCHANGED hring
       ELSE hworker' = [hworker EXCEPT ![c] = At("handle", Head(hring))] /\ hring' = Tail(hring)
    /\ UNCHANGED <<handshake_queue_len, fate, softirq, hwork, last_under_load, stopping, stops>>

\* The length is high, or was within the last second.
under_load == handshake_queue_len >= LOAD_FROM \/ last_under_load = "now"

\* A cookie reply is consumed before the load is looked at.
cookie_message(c) ==
    /\ hworker[c].pc = "handle"
    /\ fate' = [fate EXCEPT ![hworker[c].msg] = "handled"]
    /\ hworker' = [hworker EXCEPT ![c] = At("uncount", Nothing)]
    /\ UNCHANGED <<hring, handshake_queue_len, softirq, hwork, last_under_load, stopping, stops>>

\* Any other message is handled at once, or as one that needs a cookie.
wg_receive_handshake_packet(c) ==
    /\ hworker[c].pc = "handle"
    /\ last_under_load' = IF handshake_queue_len >= LOAD_FROM THEN "now"
                          ELSE IF last_under_load = "old" THEN "never" ELSE last_under_load
    /\ fate' = [fate EXCEPT ![hworker[c].msg] = IF under_load THEN "handled_loaded" ELSE "handled"]
    /\ hworker' = [hworker EXCEPT ![c] = At("uncount", Nothing)]
    /\ UNCHANGED <<hring, handshake_queue_len, softirq, hwork, stopping, stops>>

\* Slip: the length goes down before the message is taken off.
Slip_uncount_twice(c) ==
    /\ hworker[c].pc = "uncount"
    /\ handshake_queue_len' = IF hring = <<>> THEN 0 ELSE handshake_queue_len - 1
    /\ hworker' = [hworker EXCEPT ![c].pc = "consume"]
    /\ UNCHANGED <<hring, fate, softirq, hwork, last_under_load, stopping, stops>>

atomic_dec(c) ==
    /\ hworker[c].pc = "uncount"
    /\ handshake_queue_len' = handshake_queue_len - 1
    /\ hworker' = [hworker EXCEPT ![c].pc = "consume"]
    /\ UNCHANGED <<hring, fate, softirq, hwork, last_under_load, stopping, stops>>

--------------------------------------------------------------------------------
\* wg_stop takes the messages out one by one, while others go on.
stop_purge ==
    /\ stopping = "purge" \/ (stopping = "no" /\ stops < Stops)
    /\ IF hring = <<>>
       THEN stopping' = "zero" /\ UNCHANGED <<hring, fate>>
       ELSE /\ stopping' = "purge" /\ hring' = Tail(hring)
            /\ fate' = [fate EXCEPT ![Head(hring)] = "purged"]
    /\ UNCHANGED <<handshake_queue_len, softirq, hworker, hwork, last_under_load, stops>>

stop_zero ==
    /\ stopping = "zero"
    /\ handshake_queue_len' = 0
    /\ stopping' = "no" /\ stops' = stops + 1
    /\ UNCHANGED <<hring, fate, softirq, hworker, hwork, last_under_load>>

SecondPasses ==
    /\ last_under_load = "now" /\ last_under_load' = "old"
    /\ UNCHANGED <<hring, handshake_queue_len, fate, softirq, hworker, hwork, stopping, stops>>

SoftirqRuns(c) ==
    wg_packet_receive(c) \/ trylock_fails(c) \/ ptr_ring_produce(c) \/ atomic_inc(c) \/ queue_work_on(c)
WorkerRuns(c) ==
    worker_start(c) \/ ptr_ring_consume(c) \/ cookie_message(c) \/ wg_receive_handshake_packet(c)
    \/ atomic_dec(c)

HsNext == \/ \E c \in Softirqs : SoftirqRuns(c)
          \/ \E c \in HsCpus : WorkerRuns(c)
          \/ stop_purge \/ stop_zero \/ SecondPasses

Progress == (\E c \in Softirqs : SoftirqRuns(c)) \/ (\E c \in HsCpus : WorkerRuns(c))

HsSpec == HsInit /\ [][HsNext]_hq_vars

--------------------------------------------------------------------------------
\* Messages the length should count, and what it does count.
Counting == Cardinality({c \in Softirqs : softirq[c].pc = "count"})
Handling == Cardinality({c \in HsCpus : hworker[c].pc \in {"handle", "uncount"}})
Drift == handshake_queue_len + Counting - Len(hring) - Handling

(* handshake_queue_len counts the messages in the ring or in a worker's hands *)
(* that were counted in, exactly, however CPUs interleave, as long as the     *)
(* interface stays up.  When it is taken down the length goes wrong: up by a  *)
(* message for every softirq caught before its increment, down by those       *)
(* queued or in a worker's hands when it is set to zero.  What is wrong never *)
(* adds up over several times.                                                *)
HandshakeLengthDrift ==
    stopping = "no" =>
       /\ stops = 0 => Drift = 0
       /\ Drift <= Cardinality(Softirqs)
       /\ Drift >= -(RING_SIZE + Cardinality(HsCpus))

(* A message that was queued is handled or purged in the end: the work that   *)
(* is queued after it finds it, or another CPU's worker already did.          *)
QueuedIsHandled == \A m \in Messages : []<>(fate[m] # "queued")

==============================================================================
