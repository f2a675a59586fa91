-------------------------------- MODULE Cookie --------------------------------
(***************************************************************************)
(* cookie.c with the part of receive.c that asks for cookies: an initiator  *)
(* that retries its handshake, and a responder under load that answers only *)
(* messages whose second MAC proves the source address.                     *)
(*                                                                          *)
(* A cookie is the pair of the responder's secret and the address it was    *)
(* made for; a first MAC is the identity of its message.  The network       *)
(* loses, delays, duplicates and reorders messages and may deliver a copy   *)
(* from another address than it was sent from.  The responder's workers and *)
(* the initiator's sender and openers of replies are split where the code   *)
(* drops the lock or reads without it.                                      *)
(***************************************************************************)
EXTENDS Naturals, FiniteSets

CONSTANTS
    Addresses,               \* the addresses the initiator may send from
    Responders,              \* the responder's handshake workers
    Openers,                 \* the initiator's workers that get cookie replies
    COOKIE_SECRET_MAX_AGE, COOKIE_SECRET_LATENCY,
    Macs, Secrets,           \* bounds: values of first MACs and of secrets in use
    CookieBudgets            \* bounds: how often the environment interferes

\* 0 < COOKIE_SECRET_LATENCY < COOKIE_SECRET_MAX_AGE - 1 (messages.h: 5 and 120 s).

VARIABLES
    checker,        \* the responder's secret and its age
    latest_cookie,  \* the initiator's struct cookie for the responder
    address,        \* where the initiator sends from
    wire,           \* messages under way
    under_load,
    sender,         \* the initiator's send worker: ready, mac2, or sent in this tick
    waiting,        \* the initiator's handshake has not been answered
    worker,         \* the responder's workers
    opener,         \* the initiator's openers: the reply each has decrypted
    issued,         \* history: the addresses sent a cookie made with the secret in use
    spare           \* what is left of the budget

ck_vars == <<checker, latest_cookie, address, wire, under_load, sender, waiting, worker,
             opener, issued, spare>>

None == <<>>
has_expired(age, limit) == age >= limit

wg_cookie_init ==
    [cookie |-> None, age |-> 0, is_valid |-> FALSE, have_sent_mac1 |-> FALSE,
     last_mac1_sent |-> 0]

\* A message: for a handshake, cookie is what its second MAC was made with. old is
\* history: the initiator has taken a cookie since the message, or the one it
\* answers, was sent.
Message(type, src, mac1, cookie, old) ==
    [type |-> type, src |-> src, mac1 |-> mac1, cookie |-> cookie, old |-> old]

NoMessage == Message("none", 0, 0, None, FALSE)
Resting == [pc |-> "idle", call |-> "none", msg |-> NoMessage]

Init ==
    /\ checker = [secret |-> CHOOSE s \in Secrets : TRUE, age |-> 0]
    /\ latest_cookie = wg_cookie_init
    /\ address = CHOOSE a \in Addresses : TRUE
    /\ wire = {} /\ issued = {}
    /\ sender = "ready" /\ waiting = TRUE
    /\ worker = [w \in Responders |-> Resting]
    /\ opener = [o \in Openers |-> NoMessage]
    /\ under_load \in BOOLEAN
    /\ spare \in CookieBudgets

Pay(kind) == spare[kind] > 0 /\ spare' = [spare EXCEPT ![kind] = @ - 1]

\* A message is delivered; the network may keep a copy to deliver again.
Arrives(m) ==
    \/ wire' = wire \ {m} /\ UNCHANGED spare
    \/ wire' = wire /\ Pay("repeats")

InHand == {worker[w].msg : w \in Responders} \cup {opener[o] : o \in Openers}

--------------------------------------------------------------------------------
(* The initiator *)

\* A first MAC no message has that is under way or in hand.
UnusedMacs == Macs \ ({m.mac1 : m \in wire \cup InHand} \cup {latest_cookie.last_mac1_sent})

\* The initiator sends, or repeats, its initiation, at most once per REKEY_TIMEOUT:
\* under the write lock it notes the first MAC.
wg_cookie_add_mac_to_packet ==
    /\ waiting /\ sender = "ready" /\ UnusedMacs # {}
    /\ latest_cookie' = [latest_cookie EXCEPT !.last_mac1_sent = CHOOSE x \in UnusedMacs : TRUE,
                                              !.have_sent_mac1 = TRUE]
    /\ sender' = "mac2"
    /\ UNCHANGED <<checker, address, wire, under_load, waiting, worker, opener, issued, spare>>

\* The cookie for the second MAC: only while it is young enough.
compute_mac2 ==
    IF latest_cookie.is_valid
       /\ ~has_expired(latest_cookie.age, COOKIE_SECRET_MAX_AGE - COOKIE_SECRET_LATENCY)
    THEN latest_cookie.cookie
    ELSE None

\* Under the read lock the second MAC is made, and the message goes out.
add_mac2_and_send ==
    /\ sender = "mac2"
    /\ wire' = wire \cup {Message("handshake", address, latest_cookie.last_mac1_sent,
                                  compute_mac2, FALSE)}
    /\ sender' = "sent"
    /\ UNCHANGED <<checker, latest_cookie, address, under_load, waiting, worker, opener, issued,
                   spare>>

\* Slip: a reply to any message is taken.
Slip_reply_to_any(r) == TRUE

\* The reply's ciphertext opens only with the last first MAC sent.
Decrypts(r) == latest_cookie.have_sent_mac1 /\ r.mac1 = latest_cookie.last_mac1_sent

\* Under the read lock the reply is decrypted, or dropped.
wg_cookie_message_consume(o, r) ==
    /\ opener[o] = NoMessage
    /\ r \in wire /\ r.type = "cookie" /\ r.src = address
    /\ Arrives(r)
    /\ opener' = IF Decrypts(r) THEN [opener EXCEPT ![o] = r] ELSE opener
    /\ UNCHANGED <<checker, latest_cookie, address, under_load, sender, waiting, worker, issued>>

\* The store of a cookie, and what it makes of the messages sent before it.
StoreCookie(o, sent) ==
    /\ opener[o] # NoMessage
    /\ latest_cookie' = [latest_cookie EXCEPT !.cookie = opener[o].cookie, !.age = 0,
                                              !.is_valid = TRUE, !.have_sent_mac1 = sent]
    /\ opener' = [opener EXCEPT ![o] = NoMessage]
    /\ wire' = {[m EXCEPT !.old = TRUE] : m \in wire}
    /\ worker' = [w \in Responders |->
          IF worker[w].pc = "idle" THEN worker[w] ELSE [worker[w] EXCEPT !.msg.old = TRUE]]
    /\ UNCHANGED <<checker, address, under_load, sender, waiting, issued, spare>>

\* Slip: the reply may be taken again.
Slip_keeps_have_sent_mac1(o) == StoreCookie(o, latest_cookie.have_sent_mac1)

\* Under the write lock, taken anew, the cookie is stored.
consume_store(o) == StoreCookie(o, FALSE)

--------------------------------------------------------------------------------
(* The responder *)

\* Slip: a new secret for every cookie.
Slip_secret_for_each(call, m) == [pc |-> "renew", call |-> call, msg |-> m]

\* make_cookie reads the birthdate of the secret without a lock. A worker's state
\* when it has done so for the validation of m, or for the reply to it.
make_cookie(call, m) ==
    [pc |-> IF has_expired(checker.age, COOKIE_SECRET_MAX_AGE) THEN "renew" ELSE "compute",
     call |-> call, msg |-> m]

\* A message is taken up by a worker. Without load its first MAC is enough.
wg_receive_handshake_packet(w, m) ==
    /\ worker[w].pc = "idle" /\ m \in wire /\ m.type = "handshake"
    /\ Arrives(m)
    /\ IF under_load
       THEN worker' = [worker EXCEPT ![w] = make_cookie("validate", m)] /\ UNCHANGED waiting
       ELSE waiting' = FALSE /\ UNCHANGED worker
    /\ UNCHANGED <<checker, latest_cookie, address, under_load, sender, opener, issued>>

\* It replaces an old secret under the write lock, by one no cookie in use was made
\* with, and without another look at the birthdate.
make_cookie_renew(w) ==
    LET known == {m.cookie : m \in wire \cup InHand} \cup {latest_cookie.cookie}
        fresh == CHOOSE s \in Secrets \ {checker.secret} : \A k \in known \ {None} : s # k[1]
    IN  /\ worker[w].pc = "renew"
        /\ checker' = [secret |-> fresh, age |-> 0]
        /\ issued' = {}
        /\ worker' = [worker EXCEPT ![w].pc = "compute"]
        /\ UNCHANGED <<latest_cookie, address, wire, under_load, sender, waiting, opener, spare>>

\* Slip: the source address is left out of the cookie.
Slip_source_ignored(m) == m.cookie # None /\ m.cookie[1] = checker.secret

\* The second MAC against the cookie made under the read lock.
MacMatches(m) == m.cookie = <<checker.secret, m.src>>

Validates(w) == worker[w].pc = "compute" /\ worker[w].call = "validate"

\* The responder acts on a message with a valid second MAC and the rate limiter's consent.
HandleMessage(w) ==
    /\ Validates(w) /\ MacMatches(worker[w].msg)
    /\ waiting' = FALSE
    /\ worker' = [worker EXCEPT ![w] = Resting]
    /\ UNCHANGED <<checker, latest_cookie, address, wire, under_load, sender, opener, issued,
                   spare>>

wg_cookie_validate_packet_limited(w) ==
    /\ Validates(w) /\ MacMatches(worker[w].msg)
    /\ Pay("refusals")
    /\ worker' = [worker EXCEPT ![w] = Resting]
    /\ UNCHANGED <<checker, latest_cookie, address, wire, under_load, sender, waiting, opener,
                   issued>>

\* A message without a valid second MAC is answered: make_cookie is called again.
validate_no_cookie(w) ==
    /\ Validates(w) /\ ~MacMatches(worker[w].msg)
    /\ worker' = [worker EXCEPT ![w] = make_cookie("create", worker[w].msg)]
    /\ UNCHANGED <<checker, latest_cookie, address, wire, under_load, sender, waiting, opener,
                   issued, spare>>

wg_cookie_message_create(w) ==
    LET m == worker[w].msg
    IN  /\ worker[w].pc = "compute" /\ worker[w].call = "create"
        /\ wire' = wire \cup {Message("cookie", m.src, m.mac1, <<checker.secret, m.src>>, m.old)}
        /\ issued' = issued \cup {m.src}
        /\ worker' = [worker EXCEPT ![w] = Resting]
        /\ UNCHANGED <<checker, latest_cookie, address, under_load, sender, waiting, opener, spare>>

--------------------------------------------------------------------------------
(* The environment *)

ck_Lose == /\ Pay("losses")
           /\ \E m \in wire : wire' = wire \ {m}
           /\ UNCHANGED <<checker, latest_cookie, address, under_load, sender, waiting, worker,
                          opener, issued>>

\* A copy of a message arrives from, or at, another address.
Divert == /\ Pay("diverted")
          /\ \E m \in wire, a \in Addresses :
                a # m.src /\ wire' = wire \cup {[m EXCEPT !.src = a]}
          /\ UNCHANGED <<checker, latest_cookie, address, under_load, sender, waiting, worker,
                         opener, issued>>

Roam == /\ Pay("roams")
        /\ \E a \in Addresses \ {address} : address' = a
        /\ UNCHANGED <<checker, latest_cookie, wire, under_load, sender, waiting, worker, opener,
                       issued>>

LoadChanges == /\ Pay("loads")
               /\ under_load' = ~under_load
               /\ UNCHANGED <<checker, latest_cookie, address, wire, sender, waiting, worker,
                              opener, issued>>

\* A new handshake of the initiator.
NewHandshake == /\ ~waiting /\ waiting' = TRUE
                /\ UNCHANGED <<checker, latest_cookie, address, wire, under_load, sender, worker,
                               opener, issued, spare>>

\* Replies to an address the initiator has left are lost.
Gone(r) == r.type = "cookie" /\ r.src # address

Older(age) == IF age < COOKIE_SECRET_MAX_AGE THEN age + 1 ELSE age

\* The initiator has tried and nothing is under way or in hand.
Quiet ==
    /\ sender = "sent" \/ (sender = "ready" /\ ~waiting)
    /\ \A m \in wire : Gone(m)
    /\ \A w \in Responders : worker[w].pc = "idle"
    /\ \A o \in Openers : opener[o] = NoMessage

\* REKEY_TIMEOUT passes: messages may be late and workers slow.
ck_Tick ==
    /\ \/ Quiet /\ wire' = {} /\ UNCHANGED spare
       \/ ~Quiet /\ Pay("late") /\ UNCHANGED wire
    /\ sender' = IF sender = "sent" THEN "ready" ELSE sender
    /\ checker' = [checker EXCEPT !.age = Older(@)]
    /\ latest_cookie' = [latest_cookie EXCEPT !.age = Older(@)]
    /\ UNCHANGED <<address, under_load, waiting, worker, opener, issued>>

SenderRuns == wg_cookie_add_mac_to_packet \/ add_mac2_and_send

OpenerRuns(o) == (\E r \in wire : wg_cookie_message_consume(o, r)) \/ consume_store(o)

ResponderRuns(w) ==
    \/ \E m \in wire : wg_receive_handshake_packet(w, m)
    \/ make_cookie_renew(w) \/ HandleMessage(w)
    \/ validate_no_cookie(w) \/ wg_cookie_message_create(w)

Next ==
    \/ SenderRuns
    \/ \E o \in Openers : OpenerRuns(o)
    \/ \E w \in Responders : ResponderRuns(w) \/ wg_cookie_validate_packet_limited(w)
    \/ ck_Lose \/ Divert \/ Roam \/ LoadChanges \/ NewHandshake \/ ck_Tick

Spec == Init /\ [][Next]_ck_vars

--------------------------------------------------------------------------------
(* Under load the responder acts only on a message whose source address was   *)
(* sent a cookie made with the secret in use when it was checked: wherever    *)
(* copies of the message come from, however late, and however the workers     *)
(* replace the secret in between, no other address gets it to compute a       *)
(* handshake.                                                                 *)
ProvenOrRefused ==
    \A w \in Responders :
       (Validates(w) /\ worker'[w].pc = "idle" /\ spare' = spare) => worker[w].msg.src \in issued

(* The initiator opens a reply only to a message it sent after it took the    *)
(* cookie it holds: a reply that is late or delivered again never replaces a  *)
(* cookie taken since.                                                        *)
NoOldReply == \A o \in Openers : ~opener[o].old

(* Load does not shut an initiator out: with replies getting through in the   *)
(* end, one of its retries carries a cookie the responder still accepts,      *)
(* though secret and cookie age on two clocks.                                *)
CookieGetsThrough == []<>~waiting

==============================================================================
