-------------------------------- MODULE TxPath --------------------------------
(***************************************************************************)
(* The send path of one peer: packets staged by wg_xmit, keepalives, the    *)
(* splice that takes them all, a nonce for each from the keypair's counter, *)
(* the ring of the encrypt workers, the peer's tx_queue, which is sent in   *)
(* order by the single transmit work, and the removal of the peer, which    *)
(* flushes the workqueue twice and relies on that being enough.             *)
(*                                                                         *)
(* A list of packets that goes through the queues together is known by its  *)
(* first packet, as in the code.  tx_queue is the promise of PrevQueueSpec  *)
(* with the gaps PrevQueue shows: a place is taken first and linked later,   *)
(* and an unlinked place hides the list before it as well as its own.       *)
(***************************************************************************)
EXTENDS Integers, SequencesExt, FiniteSetsExt

CONSTANTS
    Senders,                \* contexts that send: softirqs, timers, the handshake worker
    EncryptCpus,            \* CPUs with an encrypt worker
    MaxPackets,             \* bound: packets made
    MaxKeys,                \* bound: keypairs made
    MAX_STAGED_PACKETS,
    TX_QUEUE_SIZE,          \* MAX_QUEUED_PACKETS, for tx_queue
    CRYPT_RING_SIZE,        \* MAX_QUEUED_PACKETS, for the ring
    MESSAGE_LIMIT           \* REJECT_AFTER_MESSAGES

VARIABLES
    staged,      \* peer->staged_packet_queue
    made,        \* packets made so far; packets are numbered
    sender,      \* where each context stands, and its local variables
    current,     \* peer->keypairs.current_keypair, 0 for none
    keys,        \* keypairs made so far; each has sending_counter, is_valid, refs
    cb,          \* PACKET_CB: the nonce of each packet and the keypair of a list
    list,        \* the packets of each list, by its first
    txstate,     \* PACKET_CB(first)->state
    tx_queue,    \* lists in tx_queue, with "linked" once they can be reached
    txpeeked,    \* tx_queue.peeked, 0 for none
    crypt_ring,  \* wg->encrypt_queue.ring
    encrypt,     \* each encrypt work: is it pending, where does its worker stand
    transmit,    \* the peer's transmit_packet_work
    wire,        \* packets handed to the socket, in order
    order,       \* history: lists in the order their places in tx_queue were taken
    refs,        \* peer->refcount
    is_dead, removal, \* the flag, and where peer_remove_after_dead stands
    flushed      \* works the running flush still waits for

tx_vars == <<staged, made, sender, current, keys, cb, list, txstate, tx_queue, txpeeked,
             crypt_ring, encrypt, transmit, wire, order, refs, is_dead, removal, flushed>>

Packets == 1 .. MaxPackets
Idle == [pc |-> "idle", packets |-> <<>>, key |-> 0, at |-> 0]
NoKeypair == [sending_counter |-> 0, is_valid |-> TRUE, krefs |-> 0]
Quiet == [pending |-> FALSE, pc |-> "idle", first |-> 0]

TxInit ==
    /\ staged = <<>> /\ made = 0 /\ wire = <<>> /\ order = <<>>
    /\ sender = [s \in Senders |-> Idle]
    /\ current = 0 /\ keys = <<>>
    /\ cb = [p \in Packets |-> [nonce |-> -1, keypair |-> 0]]
    /\ list = [p \in Packets |-> <<>>]
    /\ txstate = [p \in Packets |-> "none"]
    /\ tx_queue = <<>> /\ txpeeked = 0 /\ crypt_ring = <<>>
    /\ encrypt = [c \in EncryptCpus |-> Quiet]
    /\ transmit = Quiet
    /\ refs = 1 /\ is_dead = FALSE /\ removal = "no" /\ flushed = {}

Goto(s, pc) == sender' = [sender EXCEPT ![s].pc = pc]
SenderDone(s) == sender' = [sender EXCEPT ![s] = Idle]
Released == removal = "removed" /\ refs = 0

queues == <<tx_queue, txpeeked, crypt_ring, order, txstate>>
workers == <<encrypt, transmit, wire>>
teardown == <<is_dead, removal, flushed>>

--------------------------------------------------------------------------------
\* The caller of a send holds a reference to the peer; the allowed-IPs trie
\* gives none to a peer that is being removed.
wg_xmit(s) ==
    /\ sender[s].pc = "idle" /\ ~is_dead
    /\ \E n \in 1 .. 2 :        \* a packet, or the segments of a large one
         /\ made + n <= MaxPackets
         /\ LET kept == IF Len(staged) > MAX_STAGED_PACKETS
                        THEN SubSeq(staged, Len(staged) - MAX_STAGED_PACKETS + 1, Len(staged))
                        ELSE staged
            IN staged' = kept \o [i \in 1 .. n |-> made + i]
         /\ made' = made + n
    /\ refs' = refs + 1
    /\ Goto(s, "steal")
    /\ UNCHANGED <<current, keys, cb, list, queues, workers, teardown>>

\* A timer, or a handshake just completed, sends a keepalive: the queue is
\* looked at without its lock.
wg_packet_send_keepalive(s) ==
    /\ sender[s].pc = "idle" /\ ~is_dead
    /\ refs' = refs + 1
    /\ Goto(s, IF staged = <<>> THEN "keepalive" ELSE "steal")
    /\ UNCHANGED <<staged, made, current, keys, cb, list, queues, workers, teardown>>

\* kref_put(&peer->refcount, kref_release): the last one purges what is staged.
wg_peer_put(n) ==
    /\ refs' = refs - n
    /\ staged' = IF refs = n THEN <<>> ELSE staged

\* The keepalive is allocated and queued, or its allocation fails.
keepalive_queue(s) ==
    /\ sender[s].pc = "keepalive"
    /\ \/ /\ made < MaxPackets
          /\ made' = made + 1 /\ staged' = Append(staged, made + 1)
          /\ Goto(s, "steal") /\ UNCHANGED refs
       \/ wg_peer_put(1) /\ SenderDone(s) /\ UNCHANGED made
    /\ UNCHANGED <<current, keys, cb, list, queues, workers, teardown>>

wg_packet_send_staged_packets(s) ==
    /\ sender[s].pc = "steal"
    /\ IF staged = <<>>
       THEN SenderDone(s) /\ wg_peer_put(1)
       ELSE /\ sender' = [sender EXCEPT ![s].pc = "key", ![s].packets = staged]
            /\ staged' = <<>> /\ UNCHANGED refs
    /\ UNCHANGED <<made, current, keys, cb, list, queues, workers, teardown>>

KeyUsable == current # 0 /\ keys[current].is_valid

\* No usable key: none, marked invalid, or too old, which marks it.
keypair_get(s) ==
    /\ sender[s].pc = "key"
    /\ \/ /\ ~KeyUsable
          /\ Goto(s, "putback") /\ UNCHANGED keys
       \/ /\ KeyUsable
          /\ keys' = [keys EXCEPT ![current].is_valid = FALSE]
          /\ Goto(s, "putback")
       \/ /\ KeyUsable
          /\ keys' = [keys EXCEPT ![current].krefs = @ + 1]
          /\ sender' = [sender EXCEPT ![s].pc = "nonce", ![s].key = current, ![s].at = 1]
    /\ UNCHANGED <<staged, made, current, cb, list, queues, workers, refs, teardown>>

\* Slip: the limit is compared one too late.
Slip_reject_late(s) ==
    LET k == sender[s].key  p == sender[s].packets[sender[s].at]  n == keys[k].sending_counter
    IN /\ sender[s].pc = "nonce"
       /\ cb' = [cb EXCEPT ![p] = [nonce |-> n, keypair |-> k]]
       /\ IF n > MESSAGE_LIMIT
          THEN /\ keys' = [keys EXCEPT ![k].sending_counter = n + 1, ![k].is_valid = FALSE, ![k].krefs = @ - 1]
               /\ Goto(s, "putback")
          ELSE /\ keys' = [keys EXCEPT ![k].sending_counter = n + 1]
               /\ IF sender[s].at < Len(sender[s].packets)
                  THEN sender' = [sender EXCEPT ![s].at = @ + 1] ELSE Goto(s, "create")
       /\ UNCHANGED <<staged, made, current, list, queues, workers, refs, teardown>>

\* One packet of the list gets the counter's value, which goes up atomically.
\* At the limit the key is marked invalid and the whole list goes back.
assign_nonce(s) ==
    LET k == sender[s].key  p == sender[s].packets[sender[s].at]  n == keys[k].sending_counter
    IN /\ sender[s].pc = "nonce"
       /\ cb' = [cb EXCEPT ![p] = [nonce |-> n, keypair |-> k]]
       /\ IF n >= MESSAGE_LIMIT
          THEN /\ keys' = [keys EXCEPT ![k].sending_counter = n + 1, ![k].is_valid = FALSE, ![k].krefs = @ - 1]
               /\ Goto(s, "putback")
          ELSE /\ keys' = [keys EXCEPT ![k].sending_counter = n + 1]
               /\ IF sender[s].at < Len(sender[s].packets)
                  THEN sender' = [sender EXCEPT ![s].at = @ + 1] ELSE Goto(s, "create")
       /\ UNCHANGED <<staged, made, current, list, queues, workers, refs, teardown>>

\* Back on the top of the queue; then a handshake is asked for.
put_back(s) ==
    /\ sender[s].pc = "putback"
    /\ staged' = IF refs = 1 THEN <<>> ELSE sender[s].packets \o staged
    /\ refs' = refs - 1
    /\ SenderDone(s)
    /\ UNCHANGED <<made, current, keys, cb, list, queues, workers, teardown>>

--------------------------------------------------------------------------------
First(s) == Head(sender[s].packets)

\* wg_packet_create_data enters its read-side section and looks at is_dead; the
\* list has a reference of its own from here on.
wg_packet_create_data(s) ==
    /\ sender[s].pc = "create"
    /\ refs' = refs + 1
    /\ Goto(s, IF is_dead THEN "free" ELSE "enqueue")
    /\ UNCHANGED <<staged, made, current, keys, cb, list, queues, workers, teardown>>

\* wg_prev_queue_enqueue: the count is checked, a place taken by the exchange.
enqueue_per_peer(s) ==
    /\ sender[s].pc = "enqueue"
    /\ IF Len(tx_queue) >= TX_QUEUE_SIZE
       THEN Goto(s, "free") /\ UNCHANGED <<queues, list>>
       ELSE /\ tx_queue' = Append(tx_queue, [first |-> First(s), linked |-> FALSE])
            /\ order' = Append(order, First(s))
            /\ list' = [list EXCEPT ![First(s)] = sender[s].packets]
            /\ txstate' = [txstate EXCEPT ![First(s)] = "UNCRYPTED"]
            /\ Goto(s, "link")
            /\ UNCHANGED <<txpeeked, crypt_ring>>
    /\ UNCHANGED <<staged, made, current, keys, cb, workers, refs, teardown>>

queue_link(s) ==
    /\ sender[s].pc = "link"
    /\ tx_queue' = [i \in DOMAIN tx_queue |->
                      IF tx_queue[i].first = First(s) THEN [tx_queue[i] EXCEPT !.linked = TRUE]
                      ELSE tx_queue[i]]
    /\ Goto(s, "produce")
    /\ UNCHANGED <<staged, made, current, keys, cb, list, txpeeked, crypt_ring, order, txstate,
                   workers, refs, teardown>>

\* The list goes to the encrypt workers, or, the ring full, is marked DEAD by
\* wg_queue_enqueue_per_peer_tx, which takes a reference first.
enqueue_per_device(s) ==
    /\ sender[s].pc = "produce"
    /\ IF Len(crypt_ring) < CRYPT_RING_SIZE
       THEN crypt_ring' = Append(crypt_ring, First(s)) /\ UNCHANGED txstate /\ Goto(s, "kick")
       ELSE txstate' = [txstate EXCEPT ![First(s)] = "DEAD"] /\ UNCHANGED crypt_ring /\ Goto(s, "kicktx")
    /\ refs' = IF Len(crypt_ring) < CRYPT_RING_SIZE THEN refs ELSE refs + 1
    /\ UNCHANGED <<staged, made, current, keys, cb, list, tx_queue, txpeeked, order, workers, teardown>>

queue_encrypt_work(s) ==
    /\ sender[s].pc = "kick"
    /\ \E c \in EncryptCpus : encrypt' = [encrypt EXCEPT ![c].pending = TRUE]
    /\ SenderDone(s) /\ wg_peer_put(1)
    /\ UNCHANGED <<made, current, keys, cb, list, queues, transmit, wire, teardown>>

queue_transmit_work(s) ==
    /\ sender[s].pc = "kicktx"
    /\ transmit' = [transmit EXCEPT !.pending = TRUE]
    /\ SenderDone(s) /\ wg_peer_put(2)
    /\ UNCHANGED <<made, current, keys, cb, list, queues, encrypt, wire, teardown>>

\* Slip: the reference of the list itself is forgotten.
Slip_err_puts_once(s) ==
    /\ sender[s].pc = "free"
    /\ keys' = [keys EXCEPT ![sender[s].key].krefs = @ - 1]
    /\ SenderDone(s) /\ wg_peer_put(1)
    /\ UNCHANGED <<made, current, cb, list, queues, workers, teardown>>

\* The list could not be queued: it is freed with its references.
create_data_err(s) ==
    /\ sender[s].pc = "free"
    /\ keys' = [keys EXCEPT ![sender[s].key].krefs = @ - 1]
    /\ SenderDone(s) /\ wg_peer_put(2)
    /\ UNCHANGED <<made, current, cb, list, queues, workers, teardown>>

\* The read-side section of wg_packet_create_data.
InRcu(s) == sender[s].pc \in {"enqueue", "link", "produce", "kick", "kicktx"}

--------------------------------------------------------------------------------
encrypt_start(c) ==
    /\ encrypt[c].pending /\ encrypt[c].pc = "idle"
    /\ encrypt' = [encrypt EXCEPT ![c] = [Quiet EXCEPT !.pc = "consume"]]
    /\ flushed' = IF <<c, "pending">> \in flushed
                  THEN (flushed \ {<<c, "pending">>}) \cup {<<c, "running">>} ELSE flushed
    /\ UNCHANGED <<staged, made, sender, current, keys, cb, list, queues, transmit, wire, refs, is_dead, removal>>

\* A list is taken and encrypted; or the ring is empty and the worker is done.
wg_packet_encrypt_worker(c) ==
    /\ encrypt[c].pc = "consume"
    /\ IF crypt_ring = <<>>
       THEN /\ encrypt' = [encrypt EXCEPT ![c].pc = "idle"]
            /\ flushed' = flushed \ {<<c, "running">>}
            /\ UNCHANGED crypt_ring
       ELSE /\ encrypt' = [encrypt EXCEPT ![c].pc = "state", ![c].first = Head(crypt_ring)]
            /\ crypt_ring' = Tail(crypt_ring)
            /\ UNCHANGED flushed
    /\ UNCHANGED <<staged, made, sender, current, keys, cb, list, tx_queue, txpeeked, order, txstate,
                   transmit, wire, refs, is_dead, removal>>

\* Slip: the transmit work is not queued while it is running.
Slip_no_wake_if_running(c) ==
    /\ encrypt[c].pc = "transmit"
    /\ transmit' = [transmit EXCEPT !.pending = @ \/ transmit.pc = "idle"]
    /\ encrypt' = [encrypt EXCEPT ![c].pc = "put", ![c].first = 0]
    /\ UNCHANGED <<staged, made, sender, current, keys, cb, list, queues, wire, refs, teardown>>

\* Slip: the worker takes no reference of its own before the state is set.
Slip_no_get(c) ==
    /\ encrypt[c].pc = "state"
    /\ \E st \in {"CRYPTED", "DEAD"} : txstate' = [txstate EXCEPT ![encrypt[c].first] = st]
    /\ encrypt' = [encrypt EXCEPT ![c].pc = "transmit"]
    /\ UNCHANGED <<staged, made, sender, current, keys, cb, list, tx_queue, txpeeked, crypt_ring, order,
                   transmit, wire, refs, teardown>>

\* wg_queue_enqueue_per_peer_tx: a reference, as the transmit work can take the
\* list's from the moment the state is set; the state; then the transmit work.
set_state(c) ==
    /\ encrypt[c].pc = "state"
    /\ \E st \in {"CRYPTED", "DEAD"} : txstate' = [txstate EXCEPT ![encrypt[c].first] = st]
    /\ encrypt' = [encrypt EXCEPT ![c].pc = "transmit"]
    /\ refs' = refs + 1
    /\ UNCHANGED <<staged, made, sender, current, keys, cb, list, tx_queue, txpeeked, crypt_ring, order,
                   transmit, wire, teardown>>

wake_transmit(c) ==
    /\ encrypt[c].pc = "transmit"
    /\ transmit' = [transmit EXCEPT !.pending = TRUE]
    /\ encrypt' = [encrypt EXCEPT ![c].pc = "put", ![c].first = 0]
    /\ UNCHANGED <<staged, made, sender, current, keys, cb, list, queues, wire, refs, teardown>>

\* The reference goes, perhaps the last one, and the next list is taken.
encrypt_put(c) ==
    /\ encrypt[c].pc = "put"
    /\ encrypt' = [encrypt EXCEPT ![c].pc = "consume"]
    /\ wg_peer_put(1)
    /\ UNCHANGED <<made, sender, current, keys, cb, list, queues, transmit, wire, teardown>>

transmit_start ==
    /\ transmit.pending /\ transmit.pc = "idle"
    /\ transmit' = [Quiet EXCEPT !.pc = "peek"]
    /\ flushed' = IF <<"tx", "pending">> \in flushed
                  THEN (flushed \ {<<"tx", "pending">>}) \cup {<<"tx", "running">>} ELSE flushed
    /\ UNCHANGED <<staged, made, sender, current, keys, cb, list, queues, encrypt, wire, refs, is_dead, removal>>

\* Slip: a list that is still being encrypted is passed over.
Slip_pass_over ==
    /\ transmit.pc = "peek" /\ txpeeked = 0
    /\ \E i \in DOMAIN tx_queue :
         /\ tx_queue[i].linked /\ txstate[tx_queue[i].first] # "UNCRYPTED"
         /\ txpeeked' = tx_queue[i].first
         /\ tx_queue' = RemoveAt(tx_queue, i)
    /\ UNCHANGED <<staged, made, sender, current, keys, cb, list, crypt_ring, order, txstate, workers,
                   refs, teardown>>

Reachable == tx_queue # <<>> /\ Head(tx_queue).linked

\* The list behind the first has its place and is not linked.
GapBehind == Len(tx_queue) >= 2 /\ ~tx_queue[2].linked

\* wg_prev_queue_peek: the oldest list, if it is linked, is moved to peeked.  With
\* a gap behind it wg_prev_queue_dequeue finds it only if STUB lies between.
wg_prev_queue_peek ==
    /\ transmit.pc = "peek" /\ txpeeked = 0
    /\ Reachable
    /\ txpeeked' = Head(tx_queue).first
    /\ tx_queue' = Tail(tx_queue)
    /\ UNCHANGED <<staged, made, sender, current, keys, cb, list, crypt_ring, order, txstate, workers,
                   refs, teardown>>

\* Nothing to peek at, a list that a gap hides, or one still being encrypted:
\* the loop ends, ...
transmit_stop ==
    /\ transmit.pc = "peek"
    /\ \/ txpeeked = 0 /\ (~Reachable \/ GapBehind)
       \/ txpeeked # 0 /\ txstate[txpeeked] = "UNCRYPTED"
    /\ transmit' = [transmit EXCEPT !.pc = "return"]
    /\ UNCHANGED <<staged, made, sender, current, keys, cb, list, queues, encrypt, wire, refs, teardown>>

\* ... and the work is no longer running.
transmit_return ==
    /\ transmit.pc = "return"
    /\ transmit' = [transmit EXCEPT !.pc = "idle"]
    /\ flushed' = flushed \ {<<"tx", "running">>}
    /\ UNCHANGED <<staged, made, sender, current, keys, cb, list, queues, encrypt, wire, refs, is_dead, removal>>

\* Slip: only a list that is sent gives its reference to the peer back.
Slip_dead_keeps_ref ==
    /\ transmit.pc = "peek" /\ txpeeked # 0 /\ txstate[txpeeked] # "UNCRYPTED"
    /\ wire' = IF txstate[txpeeked] = "CRYPTED" THEN wire \o list[txpeeked] ELSE wire
    /\ txpeeked' = 0
    /\ txstate' = [txstate EXCEPT ![txpeeked] = "gone"]
    /\ keys' = [keys EXCEPT ![cb[txpeeked].keypair].krefs = @ - 1]
    /\ wg_peer_put(IF txstate[txpeeked] = "CRYPTED" THEN 1 ELSE 0)
    /\ UNCHANGED <<made, sender, current, cb, list, tx_queue, crypt_ring, order, encrypt, transmit, teardown>>

\* The peeked list is sent, or freed if it is DEAD, and its references go.
wg_packet_tx_worker ==
    /\ transmit.pc = "peek" /\ txpeeked # 0 /\ txstate[txpeeked] # "UNCRYPTED"
    /\ wire' = IF txstate[txpeeked] = "CRYPTED" THEN wire \o list[txpeeked] ELSE wire
    /\ txpeeked' = 0
    /\ txstate' = [txstate EXCEPT ![txpeeked] = "gone"]
    /\ keys' = [keys EXCEPT ![cb[txpeeked].keypair].krefs = @ - 1]
    /\ wg_peer_put(1)
    /\ UNCHANGED <<made, sender, current, cb, list, tx_queue, crypt_ring, order, encrypt, transmit, teardown>>

--------------------------------------------------------------------------------
\* A handshake ends with a new current keypair; add_new_keypair refuses one to
\* a dead peer.  What is staged is then sent (wg_packet_send_keepalive).
NewKeypair(s) ==
    /\ sender[s].pc = "idle" /\ ~is_dead /\ Len(keys) < MaxKeys
    /\ keys' = Append([k \in DOMAIN keys |-> IF k = current THEN [keys[k] EXCEPT !.krefs = @ - 1] ELSE keys[k]],
                      [NoKeypair EXCEPT !.krefs = 1])
    /\ current' = Len(keys) + 1
    /\ refs' = refs + 1
    /\ Goto(s, IF staged = <<>> THEN "keepalive" ELSE "steal")
    /\ UNCHANGED <<staged, made, cb, list, queues, workers, teardown>>

peer_make_dead ==
    /\ removal = "no"
    /\ is_dead' = TRUE /\ removal' = "grace"
    /\ UNCHANGED <<staged, made, sender, current, keys, cb, list, queues, workers, refs, flushed>>

\* What a flush that begins now has to wait for.
Queued == {<<c, "pending">> : c \in {c \in EncryptCpus : encrypt[c].pending}}
    \cup {<<c, "running">> : c \in {c \in EncryptCpus : encrypt[c].pc # "idle"}}
    \cup (IF transmit.pending THEN {<<"tx", "pending">>} ELSE {})
    \cup (IF transmit.pc # "idle" THEN {<<"tx", "running">>} ELSE {})

\* synchronize_net() returned: the keypairs go, and the first flush begins.
keypairs_clear ==
    /\ removal = "grace" /\ \A s \in Senders : ~InRcu(s)
    /\ keys' = [k \in DOMAIN keys |-> IF k = current THEN [keys[k] EXCEPT !.krefs = @ - 1] ELSE keys[k]]
    /\ current' = 0
    /\ removal' = "flush1" /\ flushed' = Queued
    /\ UNCHANGED <<staged, made, sender, cb, list, queues, workers, refs, is_dead>>

\* Slip: one flush is taken to be enough.
Slip_flush_once ==
    /\ removal = "flush1" /\ flushed = {}
    /\ removal' = "flush2"
    /\ UNCHANGED <<staged, made, sender, current, keys, cb, list, queues, workers, refs, is_dead, flushed>>

flush_again ==
    /\ removal = "flush1" /\ flushed = {}
    /\ removal' = "flush2" /\ flushed' = Queued
    /\ UNCHANGED <<staged, made, sender, current, keys, cb, list, queues, workers, refs, is_dead>>

peer_remove_after_dead ==
    /\ removal = "flush2" /\ flushed = {}
    /\ removal' = "removed"
    /\ wg_peer_put(1)
    /\ UNCHANGED <<made, sender, current, keys, cb, list, queues, workers, is_dead, flushed>>

--------------------------------------------------------------------------------
SenderRuns(s) ==
    \/ keepalive_queue(s) \/ wg_packet_send_staged_packets(s) \/ keypair_get(s) \/ assign_nonce(s)
    \/ put_back(s) \/ wg_packet_create_data(s) \/ enqueue_per_peer(s) \/ queue_link(s)
    \/ enqueue_per_device(s) \/ queue_encrypt_work(s) \/ queue_transmit_work(s) \/ create_data_err(s)
EncryptRuns(c) ==
    \/ encrypt_start(c) \/ wg_packet_encrypt_worker(c) \/ set_state(c) \/ wake_transmit(c)
    \/ encrypt_put(c)
TransmitRuns == transmit_start \/ wg_prev_queue_peek \/ transmit_stop \/ transmit_return \/ wg_packet_tx_worker
RemovalRuns == keypairs_clear \/ flush_again \/ peer_remove_after_dead

TxNext == \/ \E s \in Senders : wg_xmit(s) \/ wg_packet_send_keepalive(s) \/ NewKeypair(s) \/ SenderRuns(s)
          \/ \E c \in EncryptCpus : EncryptRuns(c)
          \/ TransmitRuns \/ peer_make_dead \/ RemovalRuns

\* Every context and every worker that can run does, as the scheduler ensures.
Fairness == /\ \A s \in Senders : WF_tx_vars(SenderRuns(s))
            /\ \A c \in EncryptCpus : WF_tx_vars(EncryptRuns(c))
            /\ WF_tx_vars(TransmitRuns)
            /\ WF_tx_vars(RemovalRuns)

TxSpec == TxInit /\ [][TxNext]_tx_vars

--------------------------------------------------------------------------------
InFlight == {p \in Packets : txstate[p] \in {"UNCRYPTED", "CRYPTED", "DEAD"}}
OnTheWay == ToSet(wire) \cup UNION {ToSet(list[f]) : f \in InFlight}

(* No nonce is used twice with a key, and none at or above the limit, however *)
(* many contexts take nonces from the same counter while the key is replaced, *)
(* runs out or goes stale (wg_packet_send_staged_packets).                    *)
NoncesAreFresh ==
    \A p, q \in OnTheWay :
        /\ cb[p].nonce < MESSAGE_LIMIT
        /\ p # q => cb[p] # cb[q]

(* Packets reach the socket in the order their lists took places in tx_queue, *)
(* although several CPUs encrypt them (wg_packet_tx_worker).                  *)
SentInQueueOrder ==
    LET Rank(p) == CHOOSE i \in DOMAIN order : p \in ToSet(list[order[i]])
    IN \A i, j \in DOMAIN wire : i < j => Rank(wire[i]) <= Rank(wire[j])

(* "Each reference's life is strictly bounded by two generations": after the  *)
(* second flush of peer_remove_after_dead nothing is left in the ring or in   *)
(* tx_queue, so the WARN_ON of rcu_release is silent.                         *)
TwoFlushesSuffice ==
    removal = "removed" => crypt_ring = <<>> /\ tx_queue = <<>> /\ txpeeked = 0

(* A keypair and the peer outlive every list that points to them and whoever  *)
(* is between a list's new state and the end of wg_queue_enqueue_per_peer_tx;  *)
(* once the lists are gone only the references of the running contexts remain. *)
ReferencesBalance ==
    /\ \A k \in DOMAIN keys :
         keys[k].krefs = (IF k = current THEN 1 ELSE 0)
            + Cardinality({f \in InFlight : cb[f].keypair = k})
            + Cardinality({s \in Senders : sender[s].key = k
                              /\ sender[s].pc \in {"nonce", "create", "enqueue", "free"}})
    /\ refs = (IF removal = "removed" THEN 0 ELSE 1)
            + Cardinality(InFlight)
            + Cardinality({s \in Senders : sender[s].pc # "idle"})
            + Cardinality({s \in Senders : sender[s].pc \in {"enqueue", "free", "kicktx"}})
            + Cardinality({c \in EncryptCpus : encrypt[c].pc \in {"transmit", "put"}})

(* The send path as a whole: no nonce is used twice or beyond the limit,      *)
(* packets leave in the order of the queue, two flushes leave no packet of a  *)
(* dead peer in the queues, and every reference taken is put once.            *)
SendingOrderAndReferences ==
    /\ NoncesAreFresh
    /\ SentInQueueOrder
    /\ TwoFlushesSuffice
    /\ ReferencesBalance

(* A list that got its place in tx_queue leaves it, sent or freed: whoever    *)
(* finishes it queues the transmit work after its state is set, and a work    *)
(* that gave up at a gap or at a list still being encrypted is queued again.  *)
QueuedPacketsLeave == \A p \in Packets : []<>(p \notin InFlight)

(* Removing a peer ends: no context hands its reference to another for ever.  *)
RemovalEnds == []<>(is_dead => Released)

================================================================================
