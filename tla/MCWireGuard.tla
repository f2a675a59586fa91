----------------------------- MODULE MCWireGuard ----------------------------
(* The parts of WireGuard around the receive path, in one TLC run. Each     *)
(* part is a component with state of its own: the initial state picks the   *)
(* part that runs (the variable part). The components theorems are about    *)
(* have their own variables, which stay as they started while another part  *)
(* runs, and the cfg's constants: a replay window of eight, three messages  *)
(* through a handshake ring of two and a wg_stop, two peers and a keypair   *)
(* in one bucket, two senders with a ring of one and keys that run out      *)
(* after one message, and a socket that is replaced under a peer that       *)
(* roams. The other parts share the variables v1, v2, ...                   *)
EXTENDS ReplayCounter, HandshakeQueue, PeerLookup, TxPath, WgSocket, TLC

CONSTANTS
    Parts,    \* the parts this run checks
    Contexts  \* the contexts that call, in the parts where all of them are alike

Symmetry == Permutations(Contexts)

\* One of the two peers has a keypair.
OneKeypair == [p1 |-> {1}, p2 |-> {}]

VARIABLES
    part, \* the part that runs
    v1, v2, v3, v4, v5, v6, v7, v8, v9, v10, v11

wg_vars == <<part, vars, hq_vars, pl_vars, tx_vars, sk_vars, v1, v2, v3, v4, v5, v6, v7, v8, v9,
             v10, v11>>

\* Handshakes from both sides that cross and are retried while traffic flows,
\* and a session lost to a suspend, a VM fork or a restarted interface.
HandshakeRuns == INSTANCE Session WITH
    REKEY_TIMEOUT <- 1, KEEPALIVE_TIMEOUT <- 1, REKEY_AFTER_TIME <- 2, REJECT_AFTER_TIME <- 3,
    REKEY_AFTER_MESSAGES <- 1, REJECT_AFTER_MESSAGES <- 3, MAX_TIMER_HANDSHAKES <- 1,
    MAX_STAGED_PACKETS <- 0, PersistentKeepalive <- {"A"}, Talkers <- {"A", "B"},
    Workers <- [A |-> {"wA", "vA"}, B |-> {"wB", "vB"}], TimelyNetwork <- FALSE,
    Duplicates <- TRUE, MaxIndex <- 2,
    Budgets <- {[data |-> 1, resets |-> 1, losses |-> 0, ticks |-> 2, overlaps |-> 0],
                [data |-> 1, resets |-> 0, losses |-> 0, ticks |-> 1, overlaps |-> -1]},
    ep <- v1, worker <- v2, net <- v3, left <- v4

\* Two CPUs take packets of one source: a table of two entries, a burst of two,
\* and a clock that goes on after a collection has taken an entry that expired.
Limiter == INSTANCE RateLimiter WITH
    Sources <- {"s1"}, Callers <- Contexts, PACKETS_BURSTABLE <- 2, SECOND <- 2,
    max_entries <- 2, MaxUsers <- 1, EndOfTime <- 5, Wrap <- 64,
    now <- v1, table <- v2, entries <- v3, total_entries <- v4, caller <- v5, gc <- v6,
    init_refcnt <- v7, meter <- v8

\* An initiator that roams, messages that are lost, late, repeated or reach the
\* wrong host, and two workers that find the secret too old.
Cookies == INSTANCE Cookie WITH
    Addresses <- {1, 2}, Responders <- Contexts, Openers <- {"o1"},
    COOKIE_SECRET_MAX_AGE <- 3, COOKIE_SECRET_LATENCY <- 1, Macs <- 1 .. 7, Secrets <- 1 .. 9,
    CookieBudgets <-
        {[losses |-> 0, repeats |-> 1, late |-> 1, diverted |-> 0, roams |-> 0, loads |-> 0, refusals |-> 0],
         [losses |-> 0, repeats |-> 0, late |-> 1, diverted |-> 1, roams |-> 1, loads |-> 0, refusals |-> 0],
         [losses |-> 1, repeats |-> 0, late |-> 1, diverted |-> 0, roams |-> 0, loads |-> 1, refusals |-> 1]},
    checker <- v1, latest_cookie <- v2, address <- v3, wire <- v4, under_load <- v5, sender <- v6,
    waiting <- v7, worker <- v8, opener <- v9, issued <- v10, spare <- v11

\* Addresses of two bits, three writes and a lookup.
Routes == INSTANCE AllowedIps WITH
    BITS <- 2, AiPeers <- {"p1", "p2"}, MaxNodes <- 4, RouteKeys <- {<<0, 0>>, <<0, 1>>},
    AiBudgets <- {[writes |-> 3, reads |-> 1]},
    node <- v1, root <- v2, removal <- v3, doomed <- v4, walker <- v5, routes <- v6, more <- v7

\* Three keys, at most two of them peers, and a dump in pieces.
Interface == INSTANCE Device WITH
    Keys <- {"k1", "k2", "k3"}, Ips <- {"i1", "i2"}, MAX_PEERS_PER_DEVICE <- 2, MaxPeers <- 3,
    MaxIpNodes <- 3, MaxCommands <- 3, ROOM <- 2,
    life <- v1, loaded <- v2, held <- v3, peer_list <- v4, peers <- v5, ipnodes <- v6,
    ipseq <- v7, update_gen <- v8, identity <- v9, commands <- v10, dump <- v11

\* A part uses the first of these, as many as it has; the others stay 0.
Zero10 == v10 = 0 /\ v11 = 0
from10 == <<v10, v11>>
Zero9 == v9 = 0 /\ Zero10
from9 == <<v9, from10>>
Zero8 == v8 = 0 /\ Zero9
from8 == <<v8, from9>>
Zero5 == v5 = 0 /\ v6 = 0 /\ v7 = 0 /\ Zero8
from5 == <<v5, v6, v7, from8>>
Zero1 == v1 = 0 /\ v2 = 0 /\ v3 = 0 /\ v4 = 0 /\ Zero5
from1 == <<v1, v2, v3, v4, from5>>

\* The parts with variables of their own.
OwnParts == {"replay", "queue", "lookup", "sending", "sockets"}

WgInit ==
    /\ part \in Parts
    /\ Init /\ HsInit /\ PlInit /\ TxInit /\ SkInit
    /\ \/ part \in OwnParts /\ Zero1
       \/ part = "session" /\ HandshakeRuns!Init /\ Zero5
       \/ part = "limiter" /\ Limiter!Init /\ Zero9
       \/ part = "cookies" /\ Cookies!Init
       \/ part = "routes" /\ Routes!Init /\ Zero8
       \/ part = "interface" /\ Interface!Init

WgNext ==
    /\ UNCHANGED part
    /\ part # "replay" => UNCHANGED vars
    /\ part # "queue" => UNCHANGED hq_vars
    /\ part # "lookup" => UNCHANGED pl_vars
    /\ part # "sending" => UNCHANGED tx_vars
    /\ part # "sockets" => UNCHANGED sk_vars
    /\ part \in OwnParts => UNCHANGED from1
    /\ \/ part = "replay" /\ Next
       \/ part = "queue" /\ HsNext
       \/ part = "lookup" /\ PlNext
       \/ part = "sending" /\ TxNext
       \/ part = "sockets" /\ SkNext
       \/ part = "session" /\ HandshakeRuns!Next /\ UNCHANGED from5
       \/ part = "limiter" /\ Limiter!Next /\ UNCHANGED from9
       \/ part = "cookies" /\ Cookies!Next
       \/ part = "routes" /\ Routes!Next /\ UNCHANGED from8
       \/ part = "interface" /\ Interface!Next

WgSpec == WgInit /\ [][WgNext]_wg_vars

(* Session: although messages are lost, late and duplicated, both ends that *)
(* use a key derived it from the same exchange, the index table holds       *)
(* exactly the keypairs in the three slots and, while an end handles one    *)
(* handshake message at a time, what is sent under a current key is under   *)
(* one that the other end has.                                              *)
SessionKeysAgree == 
    part = "session" =>
      /\ HandshakeRuns!TypeOK
      /\ HandshakeRuns!TableMatchesSlots
      /\ HandshakeRuns!CurrentIsShared
      /\ HandshakeRuns!KeysAgree

(* RateLimiter: through expiry, collection and insertion a source gets its   *)
(* burst and rate and no more than the named races add to them, and          *)
(* total_entries counts exactly what is in the table, being inserted or      *)
(* waiting to be freed.                                                      *)
LimiterRateBounded == 
    part = "limiter" =>
      /\ Limiter!RateBounded
      /\ Limiter!EntriesCounted

(* AllowedIps: the trie gives every address the peer of its longest prefix, *)
(* stays well formed under inserts and removals, and a lookup that overlaps *)
(* writes answers with a peer that had a matching prefix.                   *)
RoutesLongestPrefix == 
    part = "routes" =>
      /\ Routes!LongestPrefixWins
      /\ Routes!TrieWellFormed
      /\ Routes!LookupSound

(* Device: a failed creation leaves nothing behind, no interface is its own *)
(* peer, a dump that did not report an inconsistency saw one configuration, *)
(* and the cursor of a dump stands on peers that are alive.                 *)
InterfaceConsistent == 
    part = "interface" =>
      /\ Interface!NothingLeaks
      /\ Interface!NotItsOwnPeer
      /\ Interface!DumpIsCoherent
      /\ Interface!CursorsAlive

(* Session: the keypair slots only move forward, no late message or packet  *)
(* brings an older key back.                                                *)
SessionKeysMoveForward == [][part = "session" => HandshakeRuns!KeysMoveForward]_wg_vars

(* Cookie: under load a handshake is taken up only from an address that was *)
(* sent a cookie made with the secret it is checked with, and the initiator *)
(* opens no reply to a message older than the cookie it holds.              *)
CookieProvesAddress ==
    [][part = "cookies" => Cookies!ProvenOrRefused /\ Cookies!NoOldReply']_wg_vars
=============================================================================
