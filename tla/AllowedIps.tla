------------------------------ MODULE AllowedIps ------------------------------
(***************************************************************************)
(* allowedips.c: the trie that maps prefixes to peers, node by node, with   *)
(* its writers (serialised by device_update_lock) and a reader under RCU    *)
(* that walks it one link per step.  A writer's stores a reader can see are *)
(* steps of their own: insertion has one, removal up to three.              *)
(*                                                                          *)
(* The IPv4 and IPv6 tries differ in the number of bits only; an address is *)
(* a sequence of BITS bits.  routes is the reference the self-test keeps,   *)
(* a plain list of prefixes.                                                *)
(***************************************************************************)
EXTENDS Integers, SequencesExt

CONSTANTS
    BITS,        \* bits of an address
    AiPeers,     \* the peers
    RouteKeys,   \* bound: the addresses prefixes are given with
    MaxNodes,    \* bound: nodes that exist at once
    AiBudgets    \* bounds: updates and lookups

VARIABLES
    node,      \* node[n]: the allocated nodes
    root,      \* the root pointer, 0 for NULL
    removal,   \* the nodes remove_by_peer has still to remove, and where it stands
    doomed,    \* nodes taken out of the trie, waiting for a grace period
    walker,    \* the reader
    routes,    \* reference: the prefixes in the table and their peers
    more       \* updates and lookups that may still come

ai_vars == <<node, root, removal, doomed, walker, routes, more>>

NoPeer == "nobody"
Addresses == [1 .. BITS -> {0, 1}]
Prefix(key, cidr) == SubSeq(key, 1, cidr)

\* up is the slot that points to the node: 0 for the root pointer.
copy_and_assign_cidr(key, cidr, p) ==
    [bits |-> key, cidr |-> cidr, peer |-> p, bit |-> <<0, 0>>, up |-> 0, upbit |-> 0]

Unused == {n \in 1 .. MaxNodes : n \notin DOMAIN node}
NewNode == Min(Unused)

Idle == [pc |-> "idle", todo |-> <<>>, at |-> 0, parent |-> 0]
NotWalking == [pc |-> "idle", key |-> CHOOSE a \in Addresses : TRUE, top |-> 0, at |-> 0, found |-> 0,
               result |-> NoPeer, valid |-> {}, still |-> TRUE]

wg_allowedips_init ==
    /\ node = <<>> /\ root = 0 /\ routes = <<>>
    /\ removal = Idle /\ doomed = {} /\ walker = NotWalking /\ more \in AiBudgets

Init == wg_allowedips_init

--------------------------------------------------------------------------------
(* The reference: horrible_allowedips of selftest/allowedips.c *)

horrible_insert(p, cidr_prefix) ==
    [x \in DOMAIN routes \cup {cidr_prefix} |-> IF x = cidr_prefix THEN p ELSE routes[x]]
horrible_remove(gone) == [x \in DOMAIN routes \ gone |-> routes[x]]
horrible_match(r, key) == {x \in DOMAIN r : Prefix(key, Len(x)) = x}
horrible_lookup(r, key) ==
    LET m == horrible_match(r, key)
    IN  IF m = {} THEN NoPeer ELSE r[CHOOSE x \in m : \A y \in m : Len(y) <= Len(x)]

--------------------------------------------------------------------------------
\* The child slots are numbered 1 and 2.
choose(n, key) == key[n.cidr + 1] + 1

common_bits(n, key) ==
    LET differ == {i \in 1 .. BITS : n.bits[i] # key[i]}
    IN  IF differ = {} THEN BITS ELSE Min(differ) - 1

prefix_matches(n, key) == common_bits(n, key) >= n.cidr

\* Where a prefix belongs: the deepest node it extends, and whether that is it.
RECURSIVE Placement(_, _, _, _)
Placement(n, parent, key, cidr) ==
    IF n # 0 /\ node[n].cidr <= cidr /\ prefix_matches(node[n], key)
    THEN IF node[n].cidr = cidr THEN [exact |-> TRUE, node |-> n]
         ELSE Placement(node[n].bit[choose(node[n], key)], n, key, cidr)
    ELSE [exact |-> FALSE, node |-> parent]

node_placement(key, cidr) == Placement(root, 0, key, cidr)

Update == /\ removal.pc = "idle" /\ more.writes > 0
          /\ more' = [more EXCEPT !.writes = @ - 1]

\* A reader's changed view of the routes while it walks.
Witness(r) == IF walker.pc = "idle" THEN walker
              ELSE [walker EXCEPT !.valid = @ \cup {r[x] : x \in horrible_match(r, walker.key)},
                                  !.still = FALSE]

\* connect_node: n hangs below slot bit of parent, or below the root pointer.
connect_node(mem, parent, bit, n) ==
    LET m == [mem EXCEPT ![n].up = parent, ![n].upbit = bit]
    IN  IF parent = 0 THEN m ELSE [m EXCEPT ![parent].bit[bit] = n]

choose_and_connect_node(mem, parent, n) ==
    IF parent = 0 THEN connect_node(mem, 0, 0, n)
    ELSE connect_node(mem, parent, choose(mem[parent], mem[n].bits), n)

With(n, rec) == [x \in DOMAIN node \cup {n} |-> IF x = n THEN rec ELSE node[x]]

AddEmpty(key, cidr, p) ==
    /\ root = 0
    /\ node' = connect_node(With(NewNode, copy_and_assign_cidr(key, cidr, p)), 0, 0, NewNode)
    /\ root' = NewNode

AddExact(key, cidr, p) ==
    LET at == node_placement(key, cidr)
    IN  /\ root # 0 /\ at.exact
        /\ node' = [node EXCEPT ![at.node].peer = p]
        /\ UNCHANGED root

\* Slip: the branching node is put at the new prefix's length.
Slip_split_too_deep(key, cidr, p) ==
    LET at == node_placement(key, cidr).node
        n == NewNode
    IN  /\ root # 0 /\ ~node_placement(key, cidr).exact
        /\ node' = choose_and_connect_node(With(n, copy_and_assign_cidr(key, cidr, p)), at, n)
        /\ root' = IF at = 0 THEN n ELSE root

\* A new node below its place, above what was there, or beside it under a
\* branching node of their common length.
AddNode(key, cidr, p) ==
    LET at   == node_placement(key, cidr).node
        n    == NewNode
        mem  == With(n, copy_and_assign_cidr(key, cidr, p))
        down == IF at = 0 THEN root ELSE node[at].bit[choose(node[at], key)]
        len  == Min({cidr, common_bits(node[down], key)})
        b    == Min(Unused \ {n})
        mem2 == [x \in DOMAIN mem \cup {b} |->
                    IF x = b THEN copy_and_assign_cidr(key, len, NoPeer) ELSE mem[x]]
        top  == IF down = 0 \/ len = cidr THEN n ELSE b
    IN  /\ root # 0 /\ ~node_placement(key, cidr).exact
        /\ down # 0 /\ len # cidr => Cardinality(Unused) > 1
        /\ node' = IF down = 0 THEN choose_and_connect_node(mem, at, n)
                   ELSE IF len = cidr
                   THEN choose_and_connect_node(choose_and_connect_node(mem, n, down), at, n)
                   ELSE choose_and_connect_node(
                            choose_and_connect_node(choose_and_connect_node(mem2, b, down), b, n),
                            at, b)
        /\ root' = IF at = 0 THEN top ELSE root

\* wg_allowedips_insert; without memory it fails and changes nothing.
add(key, cidr, p) ==
    /\ Update /\ Unused # {}
    /\ AddEmpty(key, cidr, p) \/ AddExact(key, cidr, p) \/ AddNode(key, cidr, p)
    /\ routes' = horrible_insert(p, Prefix(key, cidr))
    /\ walker' = Witness(routes')
    /\ UNCHANGED <<removal, doomed>>

--------------------------------------------------------------------------------
\* The peer's nodes in the order of its list; any order serves here.
remove(key, cidr, p) ==
    LET at == node_placement(key, cidr)
    IN  /\ Update /\ root # 0
        /\ at.exact /\ node[at.node].peer = p
        /\ removal' = [Idle EXCEPT !.pc = "forget", !.todo = <<at.node>>]
        /\ UNCHANGED <<node, root, doomed, walker, routes>>

wg_allowedips_remove_by_peer(p) ==
    LET mine == {n \in DOMAIN node \ doomed : node[n].peer = p}
    IN  /\ Update /\ mine # {}
        /\ removal' = [Idle EXCEPT !.pc = "forget", !.todo = SetToSortSeq(mine, <)]
        /\ UNCHANGED <<node, root, doomed, walker, routes>>

NextRemoval == IF Len(removal.todo) = 1 THEN Idle
               ELSE [Idle EXCEPT !.pc = "forget", !.todo = Tail(removal.todo)]

\* remove_node: the peer goes first; a branching node stays.
remove_peer ==
    LET n == Head(removal.todo)
    IN  /\ removal.pc = "forget"
        /\ node' = [node EXCEPT ![n].peer = NoPeer]
        /\ removal' = IF node[n].bit[1] # 0 /\ node[n].bit[2] # 0 THEN NextRemoval
                      ELSE [removal EXCEPT !.pc = "unlink", !.at = n]
        /\ routes' = horrible_remove({Prefix(node[n].bits, node[n].cidr)})
        /\ walker' = Witness(routes')
        /\ UNCHANGED <<root, doomed, more>>

\* slot := child, and the child's way up is the one of the node it replaces.
Bypass(n, child) ==
    LET up == node[n].up
        m == IF child = 0 THEN node
             ELSE [node EXCEPT ![child].up = up, ![child].upbit = node[n].upbit]
    IN  IF up = 0 THEN m ELSE [m EXCEPT ![up].bit[node[n].upbit] = child]

\* Slip: the peerless parent of a removed leaf stays.
Slip_parent_stays ==
    LET n == removal.at
        child == IF node[n].bit[1] # 0 THEN node[n].bit[1] ELSE node[n].bit[2]
    IN  /\ removal.pc = "unlink"
        /\ node' = Bypass(n, child)
        /\ root' = IF node[n].up = 0 THEN child ELSE root
        /\ doomed' = doomed \cup {n}
        /\ removal' = NextRemoval
        /\ UNCHANGED <<walker, routes, more>>

\* The only child, if any, moves up; a leaf may leave a parent without purpose.
remove_node ==
    LET n == removal.at
        child == IF node[n].bit[1] # 0 THEN node[n].bit[1] ELSE node[n].bit[2]
        up == node[n].up
    IN  /\ removal.pc = "unlink"
        /\ node' = Bypass(n, child)
        /\ root' = IF up = 0 THEN child ELSE root
        /\ doomed' = doomed \cup {n}
        /\ removal' = IF child = 0 /\ up # 0 /\ node[up].peer = NoPeer
                      THEN [removal EXCEPT !.pc = "parent", !.parent = up]
                      ELSE NextRemoval
        /\ UNCHANGED <<walker, routes, more>>

remove_parent ==
    LET n == removal.parent
        child == node[n].bit[3 - node[removal.at].upbit]
    IN  /\ removal.pc = "parent"
        /\ node' = Bypass(n, child)
        /\ root' = IF node[n].up = 0 THEN child ELSE root
        /\ doomed' = doomed \cup {n}
        /\ removal' = NextRemoval
        /\ UNCHANGED <<walker, routes, more>>

\* The whole trie at once.
wg_allowedips_free ==
    /\ Update /\ root # 0
    /\ root' = 0 /\ doomed' = DOMAIN node
    /\ routes' = <<>> /\ walker' = Witness(<<>>)
    /\ UNCHANGED <<node, removal>>

\* node_free_rcu, root_free_rcu: no reader is left that could stand on the node.
node_free_rcu ==
    /\ doomed # {} /\ walker.pc = "idle" /\ removal.pc = "idle"
    /\ node' = [n \in DOMAIN node \ doomed |-> node[n]]
    /\ doomed' = {}
    /\ UNCHANGED <<root, removal, walker, routes, more>>

--------------------------------------------------------------------------------
lookup(key) ==
    /\ walker.pc = "idle"
    /\ more.reads > 0 /\ more' = [more EXCEPT !.reads = @ - 1]
    /\ walker' = [pc |-> "walk", key |-> key, top |-> root, at |-> root, found |-> 0,
                  result |-> NoPeer,
                  valid |-> {routes[x] : x \in horrible_match(routes, key)}, still |-> TRUE]
    /\ UNCHANGED <<node, root, removal, doomed, routes>>

\* Slip: the first node with a peer is kept, not the last.
Slip_shortest_kept ==
    LET n == walker.at
        found == IF walker.found = 0 /\ node[n].peer # NoPeer THEN n ELSE walker.found
    IN  /\ walker.pc = "walk"
        /\ walker' = IF n # 0 /\ prefix_matches(node[n], walker.key)
                     THEN [walker EXCEPT !.found = found,
                                         !.at = IF node[n].cidr = BITS THEN 0
                                                ELSE node[n].bit[choose(node[n], walker.key)]]
                     ELSE [walker EXCEPT !.pc = "get"]
        /\ UNCHANGED <<node, root, removal, doomed, routes, more>>

find_node ==
    LET n == walker.at
        found == IF node[n].peer # NoPeer THEN n ELSE walker.found
    IN  /\ walker.pc = "walk"
        /\ walker' = IF n # 0 /\ prefix_matches(node[n], walker.key)
                     THEN [walker EXCEPT !.found = found,
                                         !.at = IF node[n].cidr = BITS THEN 0
                                                ELSE node[n].bit[choose(node[n], walker.key)]]
                     ELSE [walker EXCEPT !.pc = "get"]
        /\ UNCHANGED <<node, root, removal, doomed, routes, more>>

\* The node's peer is read again; if it went meanwhile, the walk starts over,
\* from the root that was passed by value, which may not be the root any more.
lookup_get ==
    LET p == node[walker.found].peer
    IN  /\ walker.pc = "get"
        /\ walker' = IF walker.found # 0 /\ p = NoPeer
                     THEN [walker EXCEPT !.pc = "walk", !.at = walker.top, !.found = 0]
                     ELSE [walker EXCEPT !.pc = "done",
                                         !.result = IF walker.found = 0 THEN NoPeer ELSE p]
        /\ UNCHANGED <<node, root, removal, doomed, routes, more>>

lookup_return ==
    /\ walker.pc = "done" /\ walker' = NotWalking
    /\ UNCHANGED <<node, root, removal, doomed, routes, more>>

Next ==
    \/ \E key \in RouteKeys, cidr \in 0 .. BITS, p \in AiPeers :
          add(key, cidr, p) \/ remove(key, cidr, p)
    \/ \E p \in AiPeers : wg_allowedips_remove_by_peer(p)
    \/ remove_peer \/ remove_node \/ remove_parent \/ wg_allowedips_free \/ node_free_rcu
    \/ \E key \in Addresses : lookup(key)
    \/ find_node \/ lookup_get \/ lookup_return

Spec == Init /\ [][Next]_ai_vars

--------------------------------------------------------------------------------
Live == DOMAIN node \ doomed

RECURSIVE Longest(_, _, _)
Longest(n, key, best) ==
    IF n = 0 THEN best
    ELSE IF ~prefix_matches(node[n], key) THEN best
    ELSE LET b == IF node[n].peer = NoPeer THEN best ELSE node[n].peer
         IN  IF node[n].cidr = BITS THEN b
             ELSE Longest(node[n].bit[choose(node[n], key)], key, b)

(* At every moment, in the middle of a removal too, the trie finds for every  *)
(* address the peer of the longest prefix, as the list of prefixes does.      *)
LongestPrefixWins ==
    \A key \in Addresses : Longest(root, key, NoPeer) = horrible_lookup(routes, key)

(* Between updates every node has a peer or two children, knows the slot that *)
(* points to it, and lies below the node whose prefix it extends: nothing is  *)
(* lost or left over, and the next removal can find its way up.               *)
TrieWellFormed ==
    removal.pc = "idle" =>
       \A n \in Live :
          /\ node[n].peer # NoPeer \/ (node[n].bit[1] # 0 /\ node[n].bit[2] # 0)
          /\ IF node[n].up = 0 THEN root = n
             ELSE /\ node[n].up \in Live
                  /\ node[node[n].up].bit[node[n].upbit] = n
                  /\ node[node[n].up].cidr < node[n].cidr
                  /\ prefix_matches(node[node[n].up], node[n].bits)

(* A lookup returns the peer of a prefix that held the address at some moment *)
(* of the lookup, and of the longest one if the table did not change; a peer  *)
(* that was removed before it began is never returned.                        *)
LookupSound ==
    walker.pc = "done" =>
       /\ walker.result # NoPeer => walker.result \in walker.valid
       /\ walker.still /\ removal.pc = "idle"
             => walker.result = horrible_lookup(routes, walker.key)

==============================================================================
