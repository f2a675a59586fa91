-------------------------------- MODULE Device --------------------------------
(***************************************************************************)
(* A WireGuard device and its configuration: the module's start and end;    *)
(* wg_newlink, which takes its resources one after the other and gives them *)
(* back when one fails; the netlink command that changes peers, keys and    *)
(* allowed IPs (wg_set_device_doit, set_peer, set_allowedip); the dump that *)
(* reads them message by message, letting the lock go in between            *)
(* (wg_get_device_dumpit, get_peer); and wg_destruct.                       *)
(*                                                                         *)
(* Peers and trie nodes are numbered in the order they are made, so that a  *)
(* pointer kept across messages can be told from one to a later object.     *)
(***************************************************************************)
EXTENDS Integers, SequencesExt, FiniteSetsExt

CONSTANTS
    Keys,                   \* public keys
    Ips,                    \* allowed IPs that may be configured
    MAX_PEERS_PER_DEVICE,
    MaxPeers, MaxIpNodes,   \* bounds: peers and trie nodes ever made
    MaxCommands,            \* bound: configuration commands
    ROOM                    \* items (peers, allowed IPs) that fit in a message

VARIABLES
    life,       \* how far wg_mod_init came, then wg_newlink, "up", wg_destruct, wg_mod_exit
    loaded,     \* what the module has registered
    held,       \* the resources the device holds
    peer_list,  \* wg->peer_list
    peers,      \* every peer made: key, is_dead, refs, and its allowedips_list
    ipnodes,    \* every node made: its IP; 0 owner once it is removed
    ipseq,      \* peer_allowedips.seq
    update_gen, \* device_update_gen
    identity,   \* static_identity: the public key, or "none"
    commands,   \* commands so far
    dump        \* the dump: dump_ctx, what was sent, was it flagged as interrupted

dv_vars == <<life, loaded, held, peer_list, peers, ipnodes, ipseq, update_gen, identity, commands, dump>>

NoKey == "none"
NoDump == [pc |-> "idle", next_peer |-> 0, seq |-> 0, node |-> 0, prev_seq |-> 0, intr |-> FALSE,
           room |-> 0, cursor |-> 0, at |-> 0, done |-> FALSE, out |-> {}]

\* What wg_mod_init registers, in order; wg_mod_exit undoes it from the end.
Registered == <<"allowedips_slab", "peer_cache", "pm_notifier", "vm_notifier", "pernet", "link_ops",
                "genetlink">>
\* What wg_newlink takes, in order.
Resources == <<"peer_hashtable", "index_hashtable", "handshake_receive_wq", "handshake_send_wq",
               "packet_crypt_wq", "encrypt_queue", "decrypt_queue", "handshake_queue", "ratelimiter">>
\* What wg_destruct gives back, in order.
Releases == <<"handshake_receive_wq", "handshake_send_wq", "packet_crypt_wq", "handshake_queue",
              "decrypt_queue", "encrypt_queue", "ratelimiter", "index_hashtable", "peer_hashtable">>

Init ==
    /\ life = [phase |-> "load", at |-> 1] /\ loaded = {} /\ held = {}
    /\ peer_list = <<>> /\ peers = <<>> /\ ipnodes = <<>> /\ ipseq = 1
    /\ update_gen = 1 /\ identity = NoKey /\ commands = 0
    /\ dump = NoDump

configuration == <<peer_list, peers, ipnodes, ipseq, update_gen, identity, commands>>

--------------------------------------------------------------------------------
\* wg_mod_init and wg_device_init: the next registration succeeds or fails.
wg_mod_init ==
    /\ life.phase = "load"
    /\ \/ /\ life.at <= Len(Registered)
          /\ loaded' = loaded \cup {Registered[life.at]}
          /\ life' = [life EXCEPT !.at = @ + 1]
       \/ /\ life.at > Len(Registered)
          /\ life' = [phase |-> "new", at |-> 1] /\ UNCHANGED loaded
       \/ life.at <= Len(Registered) /\ life' = [phase |-> "unload", at |-> life.at - 1] /\ UNCHANGED loaded
    /\ UNCHANGED <<held, configuration, dump>>

\* wg_mod_exit, when there is no device, and the error labels of wg_mod_init.
wg_mod_exit ==
    /\ \/ /\ life.phase \in {"failed", "gone"}
          /\ life' = [phase |-> "unload", at |-> Len(Registered)] /\ UNCHANGED loaded
       \/ /\ life.phase = "unload" /\ life.at = 0
          /\ life' = [phase |-> "unloaded", at |-> 0] /\ UNCHANGED loaded
       \/ /\ life.phase = "unload" /\ life.at # 0
          /\ loaded' = loaded \ {Registered[life.at]} /\ life' = [life EXCEPT !.at = @ - 1]
    /\ UNCHANGED <<held, configuration, dump>>

\* The next resource is taken, or is not to be had; the last step registers.
wg_newlink ==
    /\ life.phase = "new"
    /\ \/ /\ life.at <= Len(Resources)
          /\ held' = held \cup {Resources[life.at]}
          /\ life' = [life EXCEPT !.at = @ + 1]
       \/ /\ life.at > Len(Resources)
          /\ life' = [phase |-> "up", at |-> 0] /\ UNCHANGED held
       \/ life' = [phase |-> "unwind", at |-> life.at - 1] /\ UNCHANGED held
    /\ UNCHANGED <<loaded, configuration, dump>>

\* Slip: the error label of a resource gives back one too few.
Slip_unwind_skips ==
    /\ life.phase = "unwind"
    /\ IF life.at <= 1
       THEN life' = [phase |-> "failed", at |-> 0] /\ UNCHANGED held
       ELSE held' = held \ {Resources[life.at - 1]} /\ life' = [life EXCEPT !.at = @ - 1]
    /\ UNCHANGED <<loaded, configuration, dump>>

\* The error labels, from the resource that was taken last.
newlink_error ==
    /\ life.phase = "unwind"
    /\ IF life.at = 0
       THEN life' = [phase |-> "failed", at |-> 0] /\ UNCHANGED held
       ELSE held' = held \ {Resources[life.at]} /\ life' = [life EXCEPT !.at = @ - 1]
    /\ UNCHANGED <<loaded, configuration, dump>>

--------------------------------------------------------------------------------
\* A command works on the configuration as a record, step by step.
Config == [list |-> peer_list, peers |-> peers, nodes |-> ipnodes, seq |-> ipseq, identity |-> identity]

\* wg_allowedips_remove_by_peer: its nodes go and its list is emptied.
RemoveIps(c, p) ==
    [c EXCEPT !.nodes = [n \in DOMAIN c.nodes |->
                           IF c.nodes[n].owner = p THEN [c.nodes[n] EXCEPT !.owner = 0] ELSE c.nodes[n]],
              !.peers[p].ips = <<>>,
              !.seq = IF c.peers[p].ips = <<>> THEN @ ELSE @ + 1]

\* The reference the list held is given up; a peer without references is freed.
Put(c, p) == [c EXCEPT !.peers[p].refs = @ - 1]

wg_peer_remove(c, p) ==
    Put([RemoveIps(c, p) EXCEPT !.list = SelectSeq(c.list, LAMBDA q : q # p), !.peers[p].is_dead = TRUE], p)

\* wg_peer_remove_all: the trie is emptied at once, with one step of seq.
wg_peer_remove_all(c) ==
    [c EXCEPT !.list = <<>>,
              !.peers = [p \in DOMAIN c.peers |->
                 IF p \in ToSet(c.list)
                 THEN [c.peers[p] EXCEPT !.is_dead = TRUE, !.ips = <<>>, !.refs = @ - 1] ELSE c.peers[p]],
              !.nodes = [n \in DOMAIN c.nodes |-> [c.nodes[n] EXCEPT !.owner = 0]],
              !.seq = @ + 1]

Lookup(c, k) == SelectInSeq(c.list, LAMBDA p : c.peers[p].key = k)

\* Slip: a peer with the device's own key is looked for after the key is set.
Slip_own_key_stays(c, k) == [c EXCEPT !.identity = k]

\* The private key of k: the peer that has k is removed, then k becomes ours.
\* A key of zeroes has no public key and leaves the device without identity.
SetPrivateKey(c, k) ==
    LET i == Lookup(c, k)
    IN IF k = c.identity THEN c
       ELSE [(IF i # 0 THEN wg_peer_remove(c, c.list[i]) ELSE c) EXCEPT !.identity = k]

\* wg_peer_create; the table of peers may be full.
CanCreate(c) == Len(c.list) < MAX_PEERS_PER_DEVICE /\ Len(c.peers) < MaxPeers
wg_peer_create(c, k) ==
    [c EXCEPT !.list = Append(@, Len(c.peers) + 1),
              !.peers = Append(@, [key |-> k, is_dead |-> FALSE, refs |-> 1, ips |-> <<>>])]

\* A node that has the IP goes over to the peer, to the end of its list; seq
\* moves as for a new one.
Owned(c, ip) == {n \in DOMAIN c.nodes : c.nodes[n].ip = ip /\ c.nodes[n].owner # 0}

\* Slip: a node that changes hands leaves seq as it is.
Slip_move_keeps_seq(c, p, ip) ==
    IF Owned(c, ip) = {}
    THEN [c EXCEPT !.nodes = Append(@, [ip |-> ip, owner |-> p]),
                   !.peers[p].ips = Append(@, Len(c.nodes) + 1), !.seq = @ + 1]
    ELSE LET n == CHOOSE n \in Owned(c, ip) : TRUE
             q == c.nodes[n].owner
             left == [c EXCEPT !.nodes[n].owner = p, !.peers[q].ips = SelectSeq(@, LAMBDA m : m # n)]
         IN [left EXCEPT !.peers[p].ips = Append(@, n)]

InsertIp(c, p, ip) ==
    IF Owned(c, ip) = {}
    THEN [c EXCEPT !.nodes = Append(@, [ip |-> ip, owner |-> p]),
                   !.peers[p].ips = Append(@, Len(c.nodes) + 1), !.seq = @ + 1]
    ELSE LET n == CHOOSE n \in Owned(c, ip) : TRUE
             q == c.nodes[n].owner
             left == [c EXCEPT !.nodes[n].owner = p, !.peers[q].ips = SelectSeq(@, LAMBDA m : m # n),
                               !.seq = @ + 1]
         IN [left EXCEPT !.peers[p].ips = Append(@, n)]

\* Only the peer that has the IP can give it up; the attempt moves seq anyway.
RemoveIp(c, p, ip) ==
    LET mine == {n \in Owned(c, ip) : c.nodes[n].owner = p}
    IN [c EXCEPT !.nodes = [n \in DOMAIN c.nodes |->
                              IF n \in mine THEN [c.nodes[n] EXCEPT !.owner = 0] ELSE c.nodes[n]],
                 !.peers[p].ips = SelectSeq(@, LAMBDA m : m \notin mine),
                 !.seq = @ + 1]

\* set_allowedip, for a list of one; an insertion may fail for want of memory.
SetIp(c, p, a) ==
    CASE a.op = "none" -> c
      [] a.op = "remove" -> RemoveIp(c, p, a.ip)
      [] a.op = "insert" -> IF Owned(c, a.ip) # {} \/ Len(c.nodes) < MaxIpNodes THEN InsertIp(c, p, a.ip) ELSE c

\* set_peer: what the attributes of one peer do to the configuration.
set_peer(c, a) ==
    LET i == Lookup(c, a.key)
        old == c.list[i]
        fresh == wg_peer_create(c, a.key)
    IN CASE i = 0 /\ (a.flag \in {"remove", "update_only"} \/ a.key = c.identity \/ ~CanCreate(c)) -> c
         [] i = 0 -> SetIp(fresh, Len(fresh.peers), a)
         [] a.flag = "remove" -> wg_peer_remove(c, old)
         [] OTHER -> SetIp(IF a.flag = "replace_ips" THEN RemoveIps(c, old) ELSE c, old, a)

Commands ==
    [op : {"replace_peers"}] \cup [op : {"private_key"}, key : Keys \cup {NoKey}] \cup
    [op : {"peer"}, a : [key : Keys, flag : {"none", "remove", "update_only", "replace_ips"},
                         op : {"none"}, ip : {CHOOSE ip \in Ips : TRUE}]
                  \cup [key : Keys, flag : {"none", "replace_ips"}, op : {"insert", "remove"}, ip : Ips]]

Apply(c, m) ==
    CASE m.op = "replace_peers" -> wg_peer_remove_all(c)
      [] m.op = "private_key" -> SetPrivateKey(c, m.key)
      [] m.op = "peer" -> set_peer(c, m.a)

\* Slip: the generation moves only if the list of peers changed.
Slip_gen_for_peers(c) == update_gen + (IF c.list = peer_list THEN 0 ELSE 1)

\* ++wg->device_update_gen, before anything of the command is done.
NextGen(c) == update_gen + 1

wg_set_device_doit ==
    /\ life.phase = "up" /\ dump.pc \in {"idle", "between"} /\ commands < MaxCommands
    /\ \E m \in Commands :
         LET c == Apply(Config, m)
         IN /\ peer_list' = c.list /\ peers' = c.peers /\ ipnodes' = c.nodes /\ ipseq' = c.seq
            /\ identity' = c.identity
            /\ update_gen' = NextGen(c)
    /\ commands' = commands + 1
    /\ UNCHANGED <<life, loaded, held, dump>>

--------------------------------------------------------------------------------
\* The peer after p in the list; the first, for 0.  0 when there is none.
After(p) ==
    LET i == IF p = 0 THEN 0 ELSE SelectInSeq(peer_list, LAMBDA q : q = p)
    IN IF i < Len(peer_list) THEN peer_list[i + 1] ELSE 0

dump_start ==
    /\ life.phase = "up" /\ dump.pc = "idle"
    /\ dump' = [NoDump EXCEPT !.pc = "between"]
    /\ UNCHANGED <<life, loaded, held, configuration>>

\* One message: the generation is compared with that of the one before; a
\* cursor whose peer was removed ends the dump. (The header and the device's own
\* attributes fit in the new skb of a message: the -EMSGSIZE exits are not taken.)
dumpit_begin ==
    /\ dump.pc = "between"
    /\ LET over == peer_list = <<>> \/ (dump.next_peer # 0 /\ peers[dump.next_peer].is_dead)
       IN dump' = [dump EXCEPT !.pc = IF over THEN "out" ELSE "peer", !.done = over,
                               !.room = ROOM, !.cursor = dump.next_peer, !.at = After(dump.next_peer),
                               !.intr = @ \/ (dump.prev_seq # 0 /\ dump.prev_seq # update_gen),
                               !.prev_seq = update_gen]
    /\ UNCHANGED <<life, loaded, held, configuration>>

\* get_peer: the peer itself, unless only its allowed IPs are wanted still, and
\* then its list, from the node remembered if seq is what it was.
get_peer ==
    /\ dump.pc = "peer"
    /\ LET p == dump.at
           first == IF dump.node # 0 THEN dump.node ELSE IF peers[p].ips = <<>> THEN 0 ELSE Head(peers[p].ips)
           cost == 1
       IN \/ /\ p = 0
             /\ dump' = [dump EXCEPT !.pc = "out", !.done = TRUE]
          \/ /\ p # 0 /\ dump.room < cost
             /\ dump' = [dump EXCEPT !.pc = "out"]
          \/ /\ p # 0 /\ dump.room >= cost
             /\ LET said == IF dump.node = 0 THEN dump.out \cup {<<peers[p].key, "peer">>} ELSE dump.out
                IN IF first = 0 \/ (dump.seq # 0 /\ dump.seq # ipseq)
                   THEN dump' = [dump EXCEPT !.out = said, !.room = @ - cost, !.node = 0, !.seq = 0,
                                             !.cursor = p, !.at = After(p)]
                   ELSE dump' = [dump EXCEPT !.out = said, !.room = @ - cost, !.pc = "ips", !.node = first,
                                             !.seq = ipseq]
    /\ UNCHANGED <<life, loaded, held, configuration>>

\* wg_allowedips_read_node of the current node, if there is room; else the rest
\* of the list is for the next message.
get_allowedips ==
    /\ dump.pc = "ips"
    /\ LET p == dump.at
           i == SelectInSeq(peers[p].ips, LAMBDA n : n = dump.node)
       IN IF dump.room = 0
          THEN dump' = [dump EXCEPT !.pc = "out"]
          ELSE LET said == [dump EXCEPT !.out = @ \cup {<<peers[p].key, ipnodes[dump.node].ip>>},
                                        !.room = @ - 1]
               IN IF i < Len(peers[p].ips)
                  THEN dump' = [said EXCEPT !.node = peers[p].ips[i + 1]]
                  ELSE dump' = [said EXCEPT !.node = 0, !.seq = 0, !.pc = "peer", !.cursor = p, !.at = After(p)]
    /\ UNCHANGED <<life, loaded, held, configuration>>

\* Slip: the cursor is kept without a reference.
Slip_cursor_unheld ==
    /\ dump.pc = "out"
    /\ peers' = [p \in DOMAIN peers |->
                   [peers[p] EXCEPT !.refs = @ - (IF p = dump.next_peer THEN 1 ELSE 0)]]
    /\ dump' = [dump EXCEPT !.pc = IF dump.done THEN "finished" ELSE "between",
                            !.next_peer = IF dump.done THEN 0 ELSE dump.cursor]
    /\ UNCHANGED <<life, loaded, held, peer_list, ipnodes, ipseq, update_gen, identity, commands>>

\* The message ends: a reference to the new cursor, none any more to the old.
dumpit_end ==
    /\ dump.pc = "out"
    /\ peers' = [p \in DOMAIN peers |->
                   [peers[p] EXCEPT !.refs = @ + (IF ~dump.done /\ p = dump.cursor THEN 1 ELSE 0)
                                               - (IF p = dump.next_peer THEN 1 ELSE 0)]]
    /\ dump' = [dump EXCEPT !.pc = IF dump.done THEN "finished" ELSE "between",
                            !.next_peer = IF dump.done THEN 0 ELSE dump.cursor]
    /\ UNCHANGED <<life, loaded, held, peer_list, ipnodes, ipseq, update_gen, identity, commands>>

\* wg_get_device_done, at the end or when the reader goes away.
wg_get_device_done ==
    /\ dump.pc \in {"between", "finished"}
    /\ peers' = [p \in DOMAIN peers |->
                   [peers[p] EXCEPT !.refs = @ - (IF p = dump.next_peer THEN 1 ELSE 0)]]
    /\ dump' = NoDump
    /\ UNCHANGED <<life, loaded, held, peer_list, ipnodes, ipseq, update_gen, identity, commands>>

--------------------------------------------------------------------------------
\* The device is unregistered and nobody refers to it any more.  Its peers go,
\* then its resources one by one.
wg_destruct ==
    /\ life.phase = "up" /\ dump.pc = "idle" /\ commands = MaxCommands
    /\ LET c == wg_peer_remove_all(Config)
       IN peer_list' = c.list /\ peers' = c.peers /\ ipnodes' = c.nodes /\ ipseq' = c.seq
    /\ life' = [phase |-> "destruct", at |-> 1]
    /\ UNCHANGED <<loaded, held, update_gen, identity, commands, dump>>

destruct_release ==
    /\ life.phase = "destruct"
    /\ IF life.at > Len(Releases)
       THEN life' = [phase |-> "gone", at |-> 0] /\ UNCHANGED held
       ELSE held' = held \ {Releases[life.at]} /\ life' = [life EXCEPT !.at = @ + 1]
    /\ UNCHANGED <<loaded, configuration, dump>>

Next == \/ wg_mod_init \/ wg_mod_exit \/ wg_newlink \/ newlink_error \/ wg_set_device_doit
        \/ dump_start \/ dumpit_begin \/ get_peer \/ get_allowedips \/ dumpit_end \/ wg_get_device_done
        \/ wg_destruct \/ destruct_release

Spec == Init /\ [][Next]_dv_vars

--------------------------------------------------------------------------------
(* A device that could not be made, or that is gone, holds nothing, and a     *)
(* module that was unloaded or could not start has nothing registered.  While *)
(* a device is being destroyed a workqueue goes before the queues its works   *)
(* use.                                                                       *)
NothingLeaks ==
    /\ life.phase \in {"failed", "gone", "unload"} => held = {}
    /\ life.phase = "unloaded" => loaded = {}
    /\ life.phase = "destruct" =>
         /\ "packet_crypt_wq" \in held => {"encrypt_queue", "decrypt_queue", "index_hashtable"} \subseteq held
         /\ "handshake_receive_wq" \in held => {"handshake_queue", "peer_hashtable"} \subseteq held

(* The device is never its own peer: setting the key removes such a peer      *)
(* first, and set_peer ignores one ("We remove before setting").              *)
NotItsOwnPeer == \A i \in DOMAIN peer_list : peers[peer_list[i]].key # identity

(* A dump that was not flagged as interrupted told of exactly the peers and   *)
(* allowed IPs there are, however its messages were cut and whatever commands *)
(* came in between.                                                           *)
Actual == UNION {{<<peers[p].key, "peer">>} \cup {<<peers[p].key, ipnodes[n].ip>> : n \in ToSet(peers[p].ips)}
                 : p \in ToSet(peer_list)}
DumpIsCoherent == dump.pc = "finished" /\ ~dump.intr /\ dump.prev_seq = update_gen => dump.out = Actual

(* What a dump keeps between messages stays good: the peer it stopped at is   *)
(* not freed, and the trie node it reads is one the peer still has.           *)
CursorsAlive ==
    /\ dump.next_peer # 0 => peers[dump.next_peer].refs > 0
    /\ dump.pc = "ips" => dump.node \in ToSet(peers[dump.at].ips)

================================================================================
