------------------------------- MODULE Session -------------------------------
(***************************************************************************)
(* Two WireGuard devices that are each other's only peer: the handshake     *)
(* (noise.c), the three keypair slots, the protocol timers (timers.c) and   *)
(* the handshake and data messages between them (send.c, receive.c), over a *)
(* network that delays, reorders, loses or duplicates.                      *)
(*                                                                          *)
(* A device's view of its peer, struct wg_peer, is the record ep[e]; every  *)
(* function of the code is an operator from that record to the record it    *)
(* leaves behind, and the messages it sends collect in the field out.       *)
(* Handshake receive workers are split where the code drops the handshake   *)
(* lock; the other handlers are one step.  Time is counted in ticks, and    *)
(* ages stop growing once no test can tell them apart.                      *)
(***************************************************************************)
EXTENDS Noise, FiniteSets

CONSTANTS
    REKEY_TIMEOUT, KEEPALIVE_TIMEOUT, REKEY_AFTER_TIME, REJECT_AFTER_TIME,
    REKEY_AFTER_MESSAGES, REJECT_AFTER_MESSAGES,
    MAX_TIMER_HANDSHAKES, MAX_STAGED_PACKETS,
    PersistentKeepalive,   \* the devices with a persistent keepalive interval
    Talkers,               \* the devices whose users send data
    Workers,               \* Workers[e]: the handshake receive workers of e
    TimelyNetwork,         \* no tick while a message is in flight
    Duplicates,            \* may a message be delivered again and again?
    MaxIndex,              \* bound: indices and ephemeral keys a device may draw
    Budgets                \* bounds: how many events of each kind may happen

Endpoints == {"A", "B"}
Other(e) == CHOOSE o \in Endpoints : o # e
AllWorkers == UNION {Workers[e] : e \in Endpoints}
HostOf(w) == CHOOSE e \in Endpoints : w \in Workers[e]

\* 0 < REKEY_TIMEOUT < REKEY_AFTER_TIME < REJECT_AFTER_TIME (messages.h), and no
\* worker is of both devices.

VARIABLES
    ep,       \* ep[e]: e's struct wg_peer for the other device
    worker,   \* what each handshake receive worker is doing
    net,      \* the messages under way
    left      \* how many more events of each kind may happen; -1: any number

vars == <<ep, worker, net, left>>

OFF == -1
Timers == {"retransmit", "keepalive", "new_handshake", "zero_key", "persistent"}
Delay(t) == CASE t = "retransmit"    -> REKEY_TIMEOUT
              [] t = "keepalive"     -> KEEPALIVE_TIMEOUT
              [] t = "new_handshake" -> KEEPALIVE_TIMEOUT + REKEY_TIMEOUT
              [] t = "zero_key"      -> REJECT_AFTER_TIME + 1
              [] t = "persistent"    -> KEEPALIVE_TIMEOUT + 1

wg_birthdate_has_expired(age, limit) == age >= limit

--------------------------------------------------------------------------------
(* noise.c: the handshake and the keypairs *)

handshake_zero ==
    [state |-> "ZEROED", ck |-> <<>>, hash |-> <<>>, epriv |-> 0,
     remote_ephemeral |-> <<>>, remote_index |-> 0]

\* tab is the index hash table; hidx the index of the handshake's entry, 0 when
\* it is not hashed; keypairs are numbered by their internal_id, 0 for NULL.
wg_noise_handshake_init ==
    [hs |-> handshake_zero, latest_timestamp |-> 0, just_consumed |-> FALSE,
     hidx |-> 0, tab |-> [i \in 1 .. MaxIndex |-> "free"], serial |-> 0,
     kp |-> <<>>, current |-> 0, previous |-> 0, next |-> 0,
     last_sent |-> REKEY_TIMEOUT, attempts |-> 0, lastminute |-> FALSE,
     another |-> FALSE, timer |-> [t \in Timers |-> OFF], staged |-> <<>>,
     transmit_handshake_work |-> FALSE, clear_peer_work |-> FALSE, out |-> {}]

wg_index_hashtable_remove(p, i) == IF i = 0 THEN p ELSE [p EXCEPT !.tab[i] = "free"]

\* A random index no entry has; the handshake's old entry goes first.
wg_index_hashtable_insert(p) ==
    [wg_index_hashtable_remove(p, p.hidx) EXCEPT !.tab[p.serial + 1] = "handshake",
                                                 !.hidx = p.serial + 1]

wg_noise_handshake_clear(p) ==
    [wg_index_hashtable_remove(p, p.hidx) EXCEPT !.hidx = 0, !.hs = handshake_zero]

wg_noise_keypair_put(p, id) ==
    IF id = 0 THEN p ELSE wg_index_hashtable_remove(p, p.kp[id].index)

\* Slip: the unconfirmed keypair keeps its entry in the index table.
Slip_clear_forgets_next(p) ==
    [wg_noise_keypair_put(wg_noise_keypair_put(p, p.previous), p.current)
        EXCEPT !.next = 0, !.previous = 0, !.current = 0]

wg_noise_keypairs_clear(p) ==
    LET p1 == wg_noise_keypair_put(p, p.next)
        p2 == wg_noise_keypair_put(p1, p.previous)
        p3 == wg_noise_keypair_put(p2, p.current)
    IN  [p3 EXCEPT !.next = 0, !.previous = 0, !.current = 0]

wg_noise_expire_current_peer_keypairs(p) ==
    LET q == [wg_noise_handshake_clear(p) EXCEPT !.last_sent = REKEY_TIMEOUT]
    IN  [q EXCEPT !.kp = [id \in DOMAIN q.kp |->
            IF id \in {q.next, q.current} THEN [q.kp[id] EXCEPT !.sending_valid = FALSE]
                                          ELSE q.kp[id]]]

AddAsInitiator(p, new) ==
    IF p.next # 0
    THEN LET q == wg_noise_keypair_put(wg_noise_keypair_put(p, p.current), p.previous)
         IN  [q EXCEPT !.previous = p.next, !.next = 0, !.current = new]
    ELSE [wg_noise_keypair_put(p, p.previous) EXCEPT !.previous = p.current,
                                                     !.current = new]

AddAsResponder(p, new) ==
    [wg_noise_keypair_put(wg_noise_keypair_put(p, p.next), p.previous)
        EXCEPT !.next = new, !.previous = 0]

\* Slip: the responder sends with a session before anything confirmed it.
Slip_responder_sends_first(p, new) == AddAsInitiator(p, new)

add_new_keypair(p, new) ==
    IF p.kp[new].i_am_the_initiator THEN AddAsInitiator(p, new) ELSE AddAsResponder(p, new)

\* A data packet confirms the session the responder holds in next.
wg_noise_received_with_keypair(p, id) ==
    [wg_noise_keypair_put(p, p.previous) EXCEPT !.previous = p.current,
                                                !.current = id, !.next = 0]

\* Slip: both ends take the first derived key for sending.
Slip_same_direction(p) ==
    [index |-> p.hidx, remote_index |-> p.hs.remote_index,
     i_am_the_initiator |-> p.hs.state = "CONSUMED_RESPONSE",
     sending |-> derive_keys(p.hs.ck)[1], receiving |-> derive_keys(p.hs.ck)[2],
     sending_valid |-> TRUE, receiving_valid |-> TRUE, age |-> 0,
     sending_counter |-> 0, received |-> {}]

keypair_create(p) ==
    LET initiator == p.hs.state = "CONSUMED_RESPONSE"
        keys == derive_keys(p.hs.ck)
    IN  [index |-> p.hidx, remote_index |-> p.hs.remote_index,
         i_am_the_initiator |-> initiator,
         sending |-> keys[IF initiator THEN 1 ELSE 2],
         receiving |-> keys[IF initiator THEN 2 ELSE 1],
         sending_valid |-> TRUE, receiving_valid |-> TRUE, age |-> 0,
         sending_counter |-> 0, received |-> {}]

BeginsSession(p) == p.hs.state \in {"CREATED_RESPONSE", "CONSUMED_RESPONSE"}

\* The handshake's index passes to the new keypair's entry, if it was hashed.
wg_noise_handshake_begin_session(p) ==
    LET new == Len(p.kp) + 1
        q == add_new_keypair([p EXCEPT !.kp = Append(@, keypair_create(p)),
                                       !.hs = handshake_zero], new)
    IN  IF q.hidx = 0 THEN q ELSE [q EXCEPT !.tab[q.hidx] = "keypair", !.hidx = 0]

--------------------------------------------------------------------------------
(* timers.c *)

mod_peer_timer(p, t) == [p EXCEPT !.timer[t] = Delay(t)]
timer_delete(p, t) == [p EXCEPT !.timer[t] = OFF]
timer_pending(p, t) == p.timer[t] # OFF

wg_timers_data_sent(p) ==
    IF timer_pending(p, "new_handshake") THEN p ELSE mod_peer_timer(p, "new_handshake")

wg_timers_data_received(p) ==
    IF timer_pending(p, "keepalive") THEN [p EXCEPT !.another = TRUE]
                                     ELSE mod_peer_timer(p, "keepalive")

wg_timers_any_authenticated_packet_sent(p) == timer_delete(p, "keepalive")
wg_timers_any_authenticated_packet_received(p) == timer_delete(p, "new_handshake")
\* Slip: nothing retries a lost initiation.
Slip_no_retransmit(p) == p

wg_timers_handshake_initiated(p) == mod_peer_timer(p, "retransmit")
wg_timers_session_derived(p) == mod_peer_timer(p, "zero_key")

wg_timers_handshake_complete(p) ==
    [timer_delete(p, "retransmit") EXCEPT !.attempts = 0, !.lastminute = FALSE]

wg_timers_any_authenticated_packet_traversal(e, p) ==
    IF e \in PersistentKeepalive THEN mod_peer_timer(p, "persistent") ELSE p

wg_timers_stop(p) ==
    [p EXCEPT !.timer = [t \in Timers |-> OFF], !.clear_peer_work = FALSE]

--------------------------------------------------------------------------------
(* send.c *)

wg_packet_send_queued_handshake_initiation(p, is_retry) ==
    LET q == IF is_retry THEN p ELSE [p EXCEPT !.attempts = 0]
    IN  IF wg_birthdate_has_expired(q.last_sent, REKEY_TIMEOUT)
        THEN [q EXCEPT !.transmit_handshake_work = TRUE]
        ELSE q

\* keep_key_fresh of send.c: rekey after enough messages, or enough time.
keep_key_fresh_sending(p) ==
    LET k == p.kp[p.current]
    IN  IF /\ p.current # 0 /\ k.sending_valid
           /\ \/ k.sending_counter > REKEY_AFTER_MESSAGES
              \/ k.i_am_the_initiator /\ wg_birthdate_has_expired(k.age, REKEY_AFTER_TIME)
        THEN wg_packet_send_queued_handshake_initiation(p, FALSE)
        ELSE p

wg_packet_create_data_done(e, p, kinds) ==
    LET q == wg_timers_any_authenticated_packet_sent(
                 wg_timers_any_authenticated_packet_traversal(e, p))
    IN  keep_key_fresh_sending(IF "data" \in kinds THEN wg_timers_data_sent(q) ELSE q)

DataMessage(e, k, i, kind) ==
    [type |-> "data", to |-> Other(e), key_idx |-> k.remote_index, key |-> k.sending,
     counter |-> k.sending_counter + i - 1, kind |-> kind]

\* Without a usable key the packets go back to the queue and a handshake starts;
\* an exhausted or outdated key is given up as well.
wg_packet_send_staged_packets(e, p) ==
    LET id == p.current
        k  == p.kp[id]
        n  == Len(p.staged)
        room == REJECT_AFTER_MESSAGES - k.sending_counter
        nokey(q) == wg_packet_send_queued_handshake_initiation(q, FALSE)
    IN  IF n = 0 THEN p
        ELSE IF id = 0 THEN nokey(p)
        ELSE IF ~k.sending_valid THEN nokey(p)
        ELSE IF wg_birthdate_has_expired(k.age, REJECT_AFTER_TIME)
             THEN nokey([p EXCEPT !.kp[id].sending_valid = FALSE])
        ELSE IF n > room
             THEN nokey([p EXCEPT !.kp[id].sending_valid = FALSE,
                                  !.kp[id].sending_counter = @ + room + 1])
        ELSE wg_packet_create_data_done(e,
                 [p EXCEPT !.staged = <<>>, !.kp[id].sending_counter = @ + n,
                           !.out = @ \cup {DataMessage(e, k, i, p.staged[i]) : i \in 1 .. n}],
                 {p.staged[i] : i \in 1 .. n})

wg_packet_send_keepalive(e, p) ==
    wg_packet_send_staged_packets(e,
        IF p.staged = <<>> THEN [p EXCEPT !.staged = <<"keepalive">>] ELSE p)

wg_packet_purge_staged_packets(p) == [p EXCEPT !.staged = <<>>]

--------------------------------------------------------------------------------
(* noise.c: the two messages of the handshake *)

\* e, es, s, ss, {t}; the coarse wall clock of tai64n_now grows between two
\* initiations, which are REKEY_TIMEOUT or a reset apart.
wg_noise_handshake_create_initiation(e, p) ==
    LET n  == p.serial + 1
        c1 == message_ephemeral(handshake_init(StaticKey(Other(e))), <<e, n>>)
        c2 == mix_dh(c1, <<e, n>>, StaticKey(Other(e)))
        c3 == mix_precomputed_dh(message_encrypt(c2, StaticKey(e)),
                                 curve25519(StaticKey(e), StaticKey(Other(e))))
        c4 == message_encrypt(c3, <<"t", n>>)
    IN  [wg_index_hashtable_insert(p) EXCEPT
            !.serial = n,
            !.hs.state = "CREATED_INITIATION", !.hs.ck = c4.ck, !.hs.hash = c4.hash,
            !.hs.epriv = n,
            !.out = {[type |-> "initiation", to |-> Other(e), sender_index |-> n,
                      ephemeral |-> <<e, n>>, static |-> Sealed(c2, StaticKey(e)),
                      timestamp |-> Sealed(c3, <<"t", n>>)]}]

\* What the responder derives from an initiation.
InitiationStatic(e, m) ==
    mix_dh(message_ephemeral(handshake_init(StaticKey(e)), m.ephemeral),
           StaticKey(e), m.ephemeral)
InitiationTime(e, m) ==
    mix_precomputed_dh(message_encrypt(InitiationStatic(e, m), Plaintext(m.static)),
                       curve25519(StaticKey(e), StaticKey(Other(e))))

Authentic(e, m) ==
    /\ message_decrypt(InitiationStatic(e, m), m.static)
    /\ Plaintext(m.static) = StaticKey(Other(e))
    /\ message_decrypt(InitiationTime(e, m), m.timestamp)

\* The checks under the read lock: neither a replay nor a flood.
InitiationAcceptable(e, p, m) ==
    /\ Authentic(e, m)
    /\ Plaintext(m.timestamp)[2] > p.latest_timestamp
    /\ ~p.just_consumed

\* The copy under the write lock.
wg_noise_handshake_consume_initiation(e, p, m) ==
    LET c == message_encrypt(InitiationTime(e, m), Plaintext(m.timestamp))
        t == Plaintext(m.timestamp)[2]
    IN  [p EXCEPT !.hs.remote_ephemeral = m.ephemeral, !.hs.hash = c.hash,
                  !.hs.ck = c.ck, !.hs.remote_index = m.sender_index,
                  !.hs.state = "CONSUMED_INITIATION", !.just_consumed = TRUE,
                  !.latest_timestamp = IF t > @ THEN t ELSE @]

\* e, ee, se, psk, {}
ResponseCipher(c, epriv, spriv, ephemeral, remote_ephemeral, remote_static) ==
    mix_psk(mix_dh(mix_dh(message_ephemeral(c, ephemeral), epriv, remote_ephemeral),
                   spriv, remote_static), <<"psk", "AB">>)

wg_noise_handshake_create_response(e, p) ==
    LET n == p.serial + 1
        c == ResponseCipher([ck |-> p.hs.ck, hash |-> p.hs.hash, key |-> <<>>],
                            <<e, n>>, <<e, n>>, <<e, n>>, p.hs.remote_ephemeral,
                            StaticKey(Other(e)))
    IN  [wg_index_hashtable_insert(p) EXCEPT
            !.serial = n,
            !.hs.state = "CREATED_RESPONSE", !.hs.epriv = n, !.hs.ck = c.ck,
            !.hs.hash = message_encrypt(c, <<>>).hash,
            !.out = {[type |-> "response", to |-> Other(e), sender_index |-> n,
                      receiver_index |-> p.hs.remote_index, ephemeral |-> <<e, n>>,
                      nothing |-> Sealed(c, <<>>)]}]

\* The initiator's side of the same computation, from a copy hs of its handshake.
ReceivedCipher(e, hs, m) ==
    ResponseCipher([ck |-> hs.ck, hash |-> hs.hash, key |-> <<>>],
                   <<e, hs.epriv>>, StaticKey(e), m.ephemeral, m.ephemeral, m.ephemeral)

\* Under the write lock only the state is compared with the copy made earlier.
wg_noise_handshake_consume_response(e, p, hs, m) ==
    LET c == ReceivedCipher(e, hs, m)
    IN  [p EXCEPT !.hs.remote_ephemeral = m.ephemeral, !.hs.ck = c.ck,
                  !.hs.hash = message_encrypt(c, <<>>).hash,
                  !.hs.remote_index = m.sender_index, !.hs.state = "CONSUMED_RESPONSE"]

--------------------------------------------------------------------------------
(* The steps *)

IdleWorker == [pc |-> "idle", msg |-> <<>>, hs |-> <<>>]

Init ==
    /\ ep = [e \in Endpoints |-> wg_noise_handshake_init]
    /\ worker = [w \in AllWorkers |-> IdleWorker]
    /\ net = {}
    /\ left \in Budgets

\* A function of the code ran on e and left its peer as q; taken messages leave
\* the network unless they may be duplicated.
Commit(e, q, taken) ==
    /\ ep' = [ep EXCEPT ![e] = [q EXCEPT !.out = {}]]
    /\ net' = (IF Duplicates THEN net ELSE net \ taken) \cup q.out

\* One more event of a bounded kind.
Spend(kind) ==
    /\ left[kind] # 0
    /\ left' = IF left[kind] < 0 THEN left ELSE [left EXCEPT ![kind] = @ - 1]

\* Slip: the staged queue is not trimmed.
Slip_stage_without_bound(e) ==
    /\ e \in Talkers /\ Spend("data")
    /\ Commit(e, wg_packet_send_staged_packets(e,
                     [ep[e] EXCEPT !.staged = Append(@, "data")]), {})
    /\ UNCHANGED worker

\* wg_xmit: the oldest staged packets make room, then the queue is sent.
wg_xmit(e) ==
    /\ e \in Talkers
    /\ Spend("data")
    /\ LET q == ep[e].staged
           kept == IF Len(q) > MAX_STAGED_PACKETS
                   THEN SubSeq(q, Len(q) - MAX_STAGED_PACKETS + 1, Len(q)) ELSE q
       IN  Commit(e, wg_packet_send_staged_packets(e,
                         [ep[e] EXCEPT !.staged = Append(kept, "data")]), {})
    /\ UNCHANGED worker

\* wg_packet_handshake_send_worker and wg_packet_send_handshake_initiation.
wg_packet_handshake_send_worker(e) ==
    /\ ep[e].transmit_handshake_work
    /\ LET p == [ep[e] EXCEPT !.transmit_handshake_work = FALSE]
           q == wg_timers_any_authenticated_packet_sent(
                    wg_timers_any_authenticated_packet_traversal(e,
                        wg_noise_handshake_create_initiation(e, p)))
       IN  IF ~wg_birthdate_has_expired(p.last_sent, REKEY_TIMEOUT)
           THEN Commit(e, p, {})
           ELSE /\ p.serial < MaxIndex
                /\ Commit(e, wg_timers_handshake_initiated([q EXCEPT !.last_sent = 0]), {})
    /\ UNCHANGED <<worker, left>>

\* The worker a message is handed to is idle, and any idle one will do; that
\* another one is still busy with its message is bounded like the other events.
Idle(e) == {w \in Workers[e] : worker[w].pc = "idle"}
TakesNext(w) == /\ worker[w].pc = "idle"
                /\ w = CHOOSE v \in Idle(HostOf(w)) : TRUE
                /\ Idle(HostOf(w)) # Workers[HostOf(w)] => left.overlaps # 0

Arrived(w, type) == {m \in net : m.type = type /\ m.to = HostOf(w) /\ TakesNext(w)}

WorkerAt(w, pc, msg, hs) == worker' = [worker EXCEPT ![w] = [pc |-> pc, msg |-> msg, hs |-> hs]]

\* What every handled handshake message ends with.
HandshakeReceived(e, p) ==
    wg_timers_any_authenticated_packet_traversal(e,
        wg_timers_any_authenticated_packet_received(p))

ReceiveInitiation(w) ==
    /\ \E m \in Arrived(w, "initiation") :
         /\ IF InitiationAcceptable(HostOf(w), ep[HostOf(w)], m)
            THEN WorkerAt(w, "copy", m, <<>>)
            ELSE UNCHANGED worker
         /\ Commit(HostOf(w), ep[HostOf(w)], {m})
    /\ UNCHANGED left

CopyInitiation(w) ==
    LET e == HostOf(w)
    IN  /\ worker[w].pc = "copy"
        /\ Commit(e, wg_noise_handshake_consume_initiation(e, ep[e], worker[w].msg), {})
        /\ WorkerAt(w, "respond", worker[w].msg, <<>>)
        /\ UNCHANGED left

\* wg_packet_send_handshake_response up to begin_session; the packet waits in msg.
CreateResponse(w) ==
    LET e == HostOf(w)
        p == [ep[e] EXCEPT !.last_sent = 0]
        q == wg_noise_handshake_create_response(e, p)
    IN  /\ worker[w].pc = "respond"
        /\ IF p.hs.state # "CONSUMED_INITIATION"
           THEN Commit(e, HandshakeReceived(e, p), {}) /\ WorkerAt(w, "idle", <<>>, <<>>)
           ELSE /\ p.serial < MaxIndex
                /\ Commit(e, [q EXCEPT !.out = {}], {})
                /\ WorkerAt(w, "begin", q.out, <<>>)
        /\ UNCHANGED left

wg_packet_send_handshake_response(w) ==
    LET e == HostOf(w)
        p == ep[e]
        q == wg_timers_any_authenticated_packet_sent(
                 wg_timers_any_authenticated_packet_traversal(e,
                     wg_timers_session_derived(wg_noise_handshake_begin_session(p))))
    IN  /\ worker[w].pc = "begin"
        /\ Commit(e, HandshakeReceived(e,
               IF ~BeginsSession(p) THEN p
               ELSE IF p.hidx = 0 THEN wg_noise_handshake_begin_session(p)
               ELSE [q EXCEPT !.last_sent = 0, !.out = worker[w].msg]), {})
        /\ WorkerAt(w, "idle", <<>>, <<>>)
        /\ UNCHANGED left

\* A response is matched with the handshake its index names, under the read lock.
ReceiveResponse(w) ==
    LET e == HostOf(w)
        p == ep[e]
    IN  /\ \E m \in Arrived(w, "response") :
             /\ IF /\ p.hidx = m.receiver_index
                   /\ p.hs.state = "CREATED_INITIATION"
                   /\ message_decrypt(ReceivedCipher(e, p.hs, m), m.nothing)
                THEN WorkerAt(w, "rcopy", m, p.hs)
                ELSE UNCHANGED worker
             /\ Commit(e, p, {m})
        /\ UNCHANGED left

CopyResponse(w) ==
    LET e == HostOf(w)
    IN  /\ worker[w].pc = "rcopy"
        /\ IF ep[e].hs.state # "CREATED_INITIATION"
           THEN WorkerAt(w, "idle", <<>>, <<>>) /\ UNCHANGED <<ep, net>>
           ELSE /\ Commit(e, wg_noise_handshake_consume_response(e, ep[e], worker[w].hs,
                                                                 worker[w].msg), {})
                /\ WorkerAt(w, "confirm", <<>>, <<>>)
        /\ UNCHANGED left

\* begin_session, then the staged packets or a keepalive confirm the session.
ConfirmSession(w) ==
    LET e == HostOf(w)
        p == ep[e]
        q == wg_noise_handshake_begin_session(p)
    IN  /\ worker[w].pc = "confirm"
        /\ Commit(e, HandshakeReceived(e,
               IF ~BeginsSession(p) THEN p
               ELSE IF p.hidx = 0 THEN q
               ELSE wg_packet_send_keepalive(e, wg_timers_handshake_complete(
                        wg_timers_session_derived(q)))), {})
        /\ WorkerAt(w, "idle", <<>>, <<>>)
        /\ UNCHANGED left

\* keep_key_fresh of receive.c: a last attempt before the keys are rejected.
keep_key_fresh_receiving(p) ==
    LET k == p.kp[p.current]
    IN  IF /\ ~p.lastminute /\ p.current # 0 /\ k.sending_valid /\ k.i_am_the_initiator
           /\ wg_birthdate_has_expired(k.age, REJECT_AFTER_TIME - 1)
        THEN wg_packet_send_queued_handshake_initiation([p EXCEPT !.lastminute = TRUE], FALSE)
        ELSE p

\* Slip: any keypair but the current one counts as the next.
Slip_any_key_confirms(e, p, id, kind) ==
    LET q == IF p.current = id THEN p
             ELSE wg_packet_send_staged_packets(e,
                      wg_timers_handshake_complete(wg_noise_received_with_keypair(p, id)))
    IN  wg_timers_any_authenticated_packet_received(q)

wg_packet_consume_data_done(e, p, id, kind) ==
    LET p1 == IF p.next # id THEN p
              ELSE wg_packet_send_staged_packets(e,
                       wg_timers_handshake_complete(wg_noise_received_with_keypair(p, id)))
        p2 == wg_timers_any_authenticated_packet_traversal(e,
                  wg_timers_any_authenticated_packet_received(keep_key_fresh_receiving(p1)))
    IN  IF kind = "keepalive" THEN p2 ELSE wg_timers_data_received(p2)

\* The keypair a data message's index finds, 0 if none.
wg_packet_consume_data(p, m) ==
    LET found == {id \in DOMAIN p.kp : p.kp[id].index = m.key_idx
                                       /\ p.tab[m.key_idx] = "keypair"}
    IN  IF found = {} THEN 0 ELSE CHOOSE id \in found : TRUE

KeyRejected(k) ==
    \/ ~k.receiving_valid
    \/ wg_birthdate_has_expired(k.age, REJECT_AFTER_TIME)
    \/ \E c \in k.received : c + 1 >= REJECT_AFTER_MESSAGES

\* Decryption, the replay check and consumption of one data packet.
ReceiveData(e) ==
    /\ \E m \in {m \in net : m.type = "data" /\ m.to = e} :
         LET p  == ep[e]
             id == wg_packet_consume_data(p, m)
             k  == p.kp[id]
         IN  Commit(e,
                 IF id = 0 THEN p
                 ELSE IF KeyRejected(k) THEN [p EXCEPT !.kp[id].receiving_valid = FALSE]
                 ELSE IF k.receiving # m.key \/ m.counter \in k.received THEN p
                 ELSE wg_packet_consume_data_done(e,
                          [p EXCEPT !.kp[id].received = @ \cup {m.counter}], id, m.kind),
                 {m})
    /\ UNCHANGED <<worker, left>>

--------------------------------------------------------------------------------
(* The expiry functions of timers.c *)

wg_expired_retransmit_handshake(e, p) ==
    IF p.attempts > MAX_TIMER_HANDSHAKES
    THEN LET q == wg_packet_purge_staged_packets(timer_delete(p, "keepalive"))
         IN  IF timer_pending(q, "zero_key") THEN q ELSE mod_peer_timer(q, "zero_key")
    ELSE wg_packet_send_queued_handshake_initiation([p EXCEPT !.attempts = @ + 1], TRUE)

wg_expired_send_keepalive(e, p) ==
    LET q == wg_packet_send_keepalive(e, p)
    IN  IF q.another THEN mod_peer_timer([q EXCEPT !.another = FALSE], "keepalive") ELSE q

wg_expired_new_handshake(e, p) == wg_packet_send_queued_handshake_initiation(p, FALSE)

wg_expired_zero_key_material(e, p) == [p EXCEPT !.clear_peer_work = TRUE]

wg_expired_send_persistent_keepalive(e, p) ==
    IF e \in PersistentKeepalive THEN wg_packet_send_keepalive(e, p) ELSE p

Expire(e, t) ==
    /\ ep[e].timer[t] = 0
    /\ LET p == timer_delete(ep[e], t)
       IN  Commit(e, CASE t = "retransmit"    -> wg_expired_retransmit_handshake(e, p)
                       [] t = "keepalive"     -> wg_expired_send_keepalive(e, p)
                       [] t = "new_handshake" -> wg_expired_new_handshake(e, p)
                       [] t = "zero_key"      -> wg_expired_zero_key_material(e, p)
                       [] t = "persistent"    -> wg_expired_send_persistent_keepalive(e, p), {})
    /\ UNCHANGED <<worker, left>>

wg_queued_expired_zero_key_material(e) ==
    /\ ep[e].clear_peer_work
    /\ Commit(e, wg_noise_keypairs_clear(wg_noise_handshake_clear(
                     [ep[e] EXCEPT !.clear_peer_work = FALSE])), {})
    /\ UNCHANGED <<worker, left>>

--------------------------------------------------------------------------------
(* Events from outside *)

Older(k) == [k EXCEPT !.age = IF @ < REJECT_AFTER_TIME THEN @ + 1 ELSE @]

PassTime(p) ==
    [p EXCEPT !.kp = [id \in DOMAIN p.kp |-> Older(p.kp[id])],
              !.last_sent = IF @ < REKEY_TIMEOUT THEN @ + 1 ELSE @,
              !.just_consumed = FALSE,
              !.timer = [t \in Timers |-> IF @[t] > 0 THEN @[t] - 1 ELSE @[t]]]

\* Under a timely network nothing is under way, and no work or timer is due,
\* when the clock moves.
Tick ==
    /\ TimelyNetwork => /\ net = {}
                        /\ \A w \in AllWorkers : worker[w].pc = "idle"
                        /\ \A e \in Endpoints :
                              /\ ~ep[e].transmit_handshake_work /\ ~ep[e].clear_peer_work
                              /\ \A t \in Timers : ep[e].timer[t] # 0
    /\ Spend("ticks")
    /\ ep' = [e \in Endpoints |-> PassTime(ep[e])]
    /\ UNCHANGED <<worker, net>>

Lose ==
    /\ Spend("losses")
    /\ \E m \in net : net' = net \ {m}
    /\ UNCHANGED <<ep, worker>>

Reset(e, q) ==
    /\ Spend("resets")
    /\ Commit(e, q, {})
    /\ UNCHANGED worker

\* Suspend: every key is forgotten.
wg_pm_notification(e) ==
    Reset(e, wg_noise_keypairs_clear(wg_noise_handshake_clear(
                 timer_delete(ep[e], "zero_key"))))

\* A forked VM: no key may be used again, by either copy.
wg_vm_notification(e) == Reset(e, wg_noise_expire_current_peer_keypairs(ep[e]))

wg_open(e, p) ==
    LET q == wg_packet_send_staged_packets(e, p)
    IN  IF e \in PersistentKeepalive THEN wg_packet_send_keepalive(e, q) ELSE q

\* The interface goes down and comes up again.
wg_stop(e) ==
    Reset(e, wg_open(e, [wg_noise_keypairs_clear(wg_noise_handshake_clear(wg_timers_stop(
                             wg_packet_purge_staged_packets(ep[e]))))
                         EXCEPT !.last_sent = REKEY_TIMEOUT]))

Step(e) ==
    \/ wg_packet_handshake_send_worker(e)
    \/ ReceiveData(e)
    \/ \E t \in Timers : Expire(e, t)
    \/ wg_queued_expired_zero_key_material(e)
    \/ \E w \in Workers[e] :
          \/ ReceiveInitiation(w) \/ CopyInitiation(w) \/ CreateResponse(w)
          \/ wg_packet_send_handshake_response(w)
          \/ ReceiveResponse(w) \/ CopyResponse(w) \/ ConfirmSession(w)

Next ==
    \/ \E e \in Endpoints :
          Step(e) \/ wg_xmit(e) \/ wg_pm_notification(e) \/ wg_vm_notification(e) \/ wg_stop(e)
    \/ Tick
    \/ Lose

Spec == Init /\ [][Next]_vars

\* The machines do not all stop: as long as a softirq, a worker or the clock has
\* something to do, one of them does it.
Fairness == WF_vars(Tick \/ \E e \in Endpoints : Step(e))
LiveSpec == Spec /\ Fairness

--------------------------------------------------------------------------------
\* No worker takes up a message while another one of its device is busy.
OneAtATime == left.overlaps = 0

Slots(p) == {p.current, p.previous, p.next} \ {0}

TypeOK ==
    /\ \A e \in Endpoints :
         /\ ep[e].hs.state \in {"ZEROED", "CREATED_INITIATION", "CONSUMED_INITIATION",
                                "CREATED_RESPONSE", "CONSUMED_RESPONSE"}
         /\ Slots(ep[e]) \subseteq DOMAIN ep[e].kp
         /\ ep[e].timer \in [Timers -> OFF .. REJECT_AFTER_TIME + 1]
         /\ Len(ep[e].staged) <= MAX_STAGED_PACKETS + 1
         /\ ep[e].out = {}
    /\ \A w \in AllWorkers : worker[w].pc \in {"idle", "copy", "respond", "begin",
                                               "rcopy", "confirm"}

(* Two keypairs whose indices name each other hold each other's keys, however *)
(* handshakes from both sides, retries and duplicates interleave.             *)
KeysAgree ==
    \A ka \in {ep["A"].kp[i] : i \in Slots(ep["A"])} :
       \A kb \in {ep["B"].kp[i] : i \in Slots(ep["B"])} :
          (ka.remote_index = kb.index /\ kb.remote_index = ka.index)
             => /\ ka.sending = kb.receiving /\ kb.sending = ka.receiving
                /\ ka.i_am_the_initiator # kb.i_am_the_initiator

\* The keypairs k and o were made by the two ends of one exchange.
Mates(k, o) == /\ o.receiving = k.sending /\ o.sending = k.receiving
               /\ o.i_am_the_initiator # k.i_am_the_initiator

(* Where each device handles one handshake message at a time, a session is   *)
(* only used for sending once the other end is known to have it: it holds    *)
(* the mate of the current keypair, under the index the initiator sends to,  *)
(* and what is sent under the current keypair reaches its mate or nobody.    *)
(* Nobody, because consume_response compares only the state after it had     *)
(* dropped the lock: when the send worker replaced the initiation in         *)
(* between, the initiator's keypair gets the index of the new initiation.    *)
(* Two workers that take up the same initiation can mix the response to one  *)
(* with the keys of the other, and the claim fails.                          *)
CurrentIsShared ==
    OneAtATime => \A e \in Endpoints : ep[e].current # 0 =>
       LET k == ep[e].kp[ep[e].current]
           theirs == {ep[Other(e)].kp[id] : id \in DOMAIN ep[Other(e)].kp}
       IN  /\ \A o \in theirs : o.index = k.remote_index => Mates(k, o)
           /\ \E o \in theirs : /\ Mates(k, o)
                                /\ k.i_am_the_initiator => o.index = k.remote_index

(* The index table holds the keypairs in the three slots, each under its own  *)
(* index, and the handshake while an answer to it may still come: a keypair   *)
(* in a slot can be found by the packets that use it, and one that was pushed *)
(* out cannot.                                                                *)
TableMatchesSlots ==
    \A e \in Endpoints :
       LET p == ep[e]
       IN  /\ {i \in 1 .. MaxIndex : p.tab[i] = "keypair"} = {p.kp[id].index : id \in Slots(p)}
           /\ {i \in 1 .. MaxIndex : p.tab[i] = "handshake"} = {p.hidx} \ {0}
           /\ p.hs.state \in {"CREATED_INITIATION", "CREATED_RESPONSE", "CONSUMED_RESPONSE"}
                 => p.hidx # 0
           /\ p.current # p.previous \/ p.current = 0
           /\ p.next \notin {p.current, p.previous} \/ p.next = 0

(* A device never returns to an older key: the current keypair only changes  *)
(* to a younger one, or to none when the keys are zeroed, even when the      *)
(* packets that confirm two sessions arrive in the wrong order.              *)
KeysMoveForward ==
    \A e \in Endpoints : ep'[e].current \in {0} \cup {id \in DOMAIN ep'[e].kp :
                                                         id >= ep[e].current}
KeysOnlyMoveForward == [][KeysMoveForward]_vars

(* Retransmission gets through: once a handshake is queued for staged packets *)
(* they are sent, or given up after the last attempt, though handshake        *)
(* messages may be lost and keys dropped at any moment.  Packets staged less  *)
(* than REKEY_TIMEOUT after the last handshake message queue none and have no *)
(* timer of their own: they wait for the next packet.                         *)
StagedPacketsGo ==
    \A e \in Endpoints :
       (ep[e].staged # <<>> /\ ep[e].transmit_handshake_work) ~> ep[e].staged = <<>>

================================================================================
