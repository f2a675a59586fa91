------------------------------- MODULE WgSocket -------------------------------
(***************************************************************************)
(* The UDP sockets of a device and the endpoint of a peer: contexts that    *)
(* send (wg_socket_send_skb_to_peer), a handler that learns where a peer    *)
(* is (wg_socket_set_peer_endpoint), and the configuration, one operation   *)
(* at a time under rtnl: open, stop, a new port, a new mark, and the end of *)
(* the network namespace the device was created in.                        *)
(*                                                                         *)
(* sock4 and sock6 are replaced together and are one socket here; the       *)
(* addresses of the peer and of this host are small numbers, and routegen   *)
(* is the generation of the host's routes, which a removed address bumps.   *)
(***************************************************************************)
EXTENDS Integers, Sequences, FiniteSets

CONSTANTS
    SockSenders,    \* contexts that send to the peer
    Places,         \* where the peer may be
    SockPorts,      \* ports other than 0
    MaxSockets,     \* bound: sockets made
    MaxConfigs,     \* bound: configuration operations
    MaxRoams        \* bound: endpoint changes, and host address removals

VARIABLES
    sock,           \* wg->sock4 and sock6: 0 or a socket
    sockets,        \* the sockets made: port, and is it freed?
    incoming_port,
    fwmark,
    creating_net,   \* is wg->creating_net set?
    net_alive,      \* does the namespace still have users?
    running,        \* netif_running
    endpoint,       \* peer->endpoint: where the peer is, and which source to use
    eplock,         \* holders of endpoint_lock: readers, or "write"
    cache,          \* peer->endpoint_cache: at most one route
    hostaddr,       \* is the source address still one of this host's?
    routegen,       \* generation of the routes
    ssender,        \* the contexts that send
    learner,        \* the handler that updates the endpoint
    config,         \* the operation under rtnl, and where it stands
    configs, roams  \* how many there were

sk_vars == <<sock, sockets, incoming_port, fwmark, creating_net, net_alive, running, endpoint, eplock,
             cache, hostaddr, routegen, ssender, learner, config, configs, roams>>

NoRoute == [to |-> 0, src |-> 0, mark |-> 0, gen |-> 0]
SendIdle == [pc |-> "idle", sk |-> 0, had |-> TRUE, route |-> NoRoute]
NoConfig == [op |-> "none", pc |-> "none", arg |-> 0, old |-> 0, retries |-> 0]

SkInit ==
    /\ sock = 0 /\ sockets = <<>> /\ incoming_port = 0 /\ fwmark = 0
    /\ creating_net = TRUE /\ net_alive = TRUE /\ running = FALSE
    /\ endpoint = [to |-> CHOOSE p \in Places : TRUE, src |-> 1]
    /\ eplock = {} /\ cache = NoRoute
    /\ hostaddr = TRUE /\ routegen = 1
    /\ ssender = [s \in SockSenders |-> SendIdle]
    /\ learner = [pc |-> "idle", to |-> 0]
    /\ config = NoConfig /\ configs = 0 /\ roams = 0

devstate == <<sock, sockets, incoming_port, fwmark, creating_net, net_alive, running>>
hoststate == <<hostaddr, routegen>>

--------------------------------------------------------------------------------
\* Sending, with endpoint_lock held for reading from the first step to the last.
Route(s) == ssender[s].route

\* The flow is filled in, and the read-side section begun.
send_begin(s) ==
    /\ ssender[s].pc = "idle" /\ "write" \notin eplock
    /\ eplock' = eplock \cup {s}
    /\ ssender' = [ssender EXCEPT ![s] =
         [pc |-> "sock", sk |-> 0, had |-> hostaddr,
          route |-> [to |-> endpoint.to, src |-> endpoint.src, mark |-> fwmark, gen |-> 0]]]
    /\ UNCHANGED <<devstate, endpoint, cache, hoststate, learner, config, configs, roams>>

\* Slip: a route in the cache is used whether or not it is still valid.
Slip_stale_route(s) ==
    /\ ssender[s].pc = "sock"
    /\ LET hit == sock # 0 /\ cache # NoRoute
       IN ssender' = [ssender EXCEPT ![s].sk = sock,
                                     ![s].pc = IF sock = 0 THEN "out" ELSE IF hit THEN "xmit" ELSE "confirm",
                                     ![s].route = IF hit THEN [cache EXCEPT !.to = Route(s).to] ELSE @]
    /\ UNCHANGED <<devstate, endpoint, eplock, cache, hoststate, learner, config, configs, roams>>

\* No socket is an error; a route in the cache that is still valid is used.
send_socket(s) ==
    /\ ssender[s].pc = "sock"
    /\ LET hit == sock # 0 /\ cache.gen = routegen
       IN ssender' = [ssender EXCEPT ![s].sk = sock,
                                     ![s].pc = IF sock = 0 THEN "out" ELSE IF hit THEN "xmit" ELSE "confirm",
                                     ![s].route = IF hit THEN [cache EXCEPT !.to = Route(s).to] ELSE @]
    /\ UNCHANGED <<devstate, endpoint, eplock, cache, hoststate, learner, config, configs, roams>>

\* A source address that is not the host's is forgotten, with the cache.
send_confirm(s) ==
    /\ ssender[s].pc = "confirm"
    /\ IF Route(s).src = 0 \/ hostaddr
       THEN /\ ssender' = [ssender EXCEPT ![s].pc = "route"]
            /\ UNCHANGED <<endpoint, cache>>
       ELSE /\ ssender' = [ssender EXCEPT ![s].pc = "route", ![s].route.src = 0]
            /\ endpoint' = [endpoint EXCEPT !.src = 0]
            /\ cache' = NoRoute
    /\ UNCHANGED <<devstate, eplock, hoststate, learner, config, configs, roams>>

\* The route: none; a source address that is no longer the host's (EINVAL) or a
\* route by another interface than it wants, which forgets the source and looks
\* again; or one to use and to cache.
send_route(s) ==
    /\ ssender[s].pc = "route"
    /\ \/ /\ ssender' = [ssender EXCEPT ![s].pc = "out"]
          /\ UNCHANGED <<endpoint, cache>>
       \/ /\ endpoint.src # 0
          /\ endpoint' = [endpoint EXCEPT !.src = 0]
          /\ cache' = NoRoute
          /\ ssender' = [ssender EXCEPT ![s].pc = "store", ![s].route.src = 0, ![s].route.gen = routegen]
       \/ /\ Route(s).src = 0 \/ hostaddr
          /\ ssender' = [ssender EXCEPT ![s].pc = "store", ![s].route.gen = routegen]
          /\ UNCHANGED <<endpoint, cache>>
    /\ UNCHANGED <<devstate, eplock, hoststate, learner, config, configs, roams>>

dst_cache_set(s) ==
    /\ ssender[s].pc = "store"
    /\ cache' = Route(s)
    /\ ssender' = [ssender EXCEPT ![s].pc = "xmit"]
    /\ UNCHANGED <<devstate, endpoint, eplock, hoststate, learner, config, configs, roams>>

udp_tunnel_xmit_skb(s) ==
    /\ ssender[s].pc = "xmit"
    /\ ssender' = [ssender EXCEPT ![s].pc = "out"]
    /\ UNCHANGED <<devstate, endpoint, eplock, cache, hoststate, learner, config, configs, roams>>

send_end(s) ==
    /\ ssender[s].pc = "out"
    /\ ssender' = [ssender EXCEPT ![s] = SendIdle]
    /\ eplock' = eplock \ {s}
    /\ UNCHANGED <<devstate, endpoint, cache, hoststate, learner, config, configs, roams>>

InSend(s) == ssender[s].pc # "idle"

--------------------------------------------------------------------------------
\* A packet arrived from a place: compared without the lock, written under it.
set_peer_endpoint ==
    /\ learner.pc = "idle" /\ roams < MaxRoams
    /\ \E p \in Places :
         /\ endpoint # [to |-> p, src |-> IF hostaddr THEN 1 ELSE 0]
         /\ learner' = [pc |-> "lock", to |-> p]
    /\ roams' = roams + 1
    /\ UNCHANGED <<devstate, endpoint, eplock, cache, hoststate, ssender, config, configs>>

\* Slip: the cached route survives a change of the endpoint.
Slip_keep_route ==
    /\ learner.pc = "lock" /\ eplock = {}
    /\ endpoint' = [to |-> learner.to, src |-> IF hostaddr THEN 1 ELSE 0]
    /\ learner' = [pc |-> "idle", to |-> 0]
    /\ UNCHANGED <<devstate, eplock, cache, hoststate, ssender, config, configs, roams>>

write_endpoint ==
    /\ learner.pc = "lock" /\ eplock = {}
    /\ endpoint' = [to |-> learner.to, src |-> IF hostaddr THEN 1 ELSE 0]
    /\ cache' = NoRoute
    /\ learner' = [pc |-> "idle", to |-> 0]
    /\ UNCHANGED <<devstate, eplock, hoststate, ssender, config, configs, roams>>

\* The host loses the address: its routes change generation.
AddressRemoved ==
    /\ hostaddr /\ roams < MaxRoams
    /\ hostaddr' = FALSE /\ routegen' = routegen + 1
    /\ roams' = roams + 1
    /\ UNCHANGED <<devstate, endpoint, eplock, cache, ssender, learner, config, configs>>

--------------------------------------------------------------------------------
\* The configuration.  One operation at a time, under rtnl and the device lock.
Begin(op, pc, arg) ==
    /\ config = NoConfig /\ configs < MaxConfigs
    /\ config' = [NoConfig EXCEPT !.op = op, !.pc = pc, !.arg = arg]
    /\ configs' = configs + 1

wg_open ==
    /\ ~running /\ Begin("open", "net", incoming_port)
    /\ UNCHANGED <<devstate, endpoint, eplock, cache, hoststate, ssender, learner, roams>>

wg_stop ==
    /\ running /\ Begin("stop", "swap", 0)
    /\ running' = FALSE
    /\ UNCHANGED <<sock, sockets, incoming_port, fwmark, creating_net, net_alive, endpoint, eplock, cache,
                   hoststate, ssender, learner, roams>>

\* Refused when the namespace is gone; a port already in use here is no change.
set_port ==
    /\ creating_net
    /\ \E p \in {0} \cup SockPorts : p # incoming_port /\ Begin("port", "clear", p)
    /\ UNCHANGED <<devstate, endpoint, eplock, cache, hoststate, ssender, learner, roams>>

set_fwmark ==
    /\ creating_net /\ Begin("mark", "clear", 0)
    /\ fwmark' = 1 - fwmark
    /\ UNCHANGED <<sock, sockets, incoming_port, creating_net, net_alive, running, endpoint, eplock, cache,
                   hoststate, ssender, learner, roams>>

\* The last user of the namespace goes (wg_socket_init is one while it runs);
\* its exit handler follows.
net_dies ==
    /\ config.op \in {"open", "port"} => config.pc \in {"net", "clear"}
    /\ net_alive /\ net_alive' = FALSE
    /\ UNCHANGED <<sock, sockets, incoming_port, fwmark, creating_net, running, endpoint, eplock, cache,
                   hoststate, ssender, learner, config, configs, roams>>

\* Slip: the device keeps its pointer to the namespace.
Slip_net_kept ==
    /\ ~net_alive /\ creating_net /\ config = NoConfig
    /\ config' = [NoConfig EXCEPT !.op = "exit", !.pc = "swap"]
    /\ UNCHANGED <<devstate, endpoint, eplock, cache, hoststate, ssender, learner, configs, roams>>

wg_netns_exit ==
    /\ ~net_alive /\ creating_net /\ config = NoConfig
    /\ config' = [NoConfig EXCEPT !.op = "exit", !.pc = "swap"]
    /\ creating_net' = FALSE
    /\ UNCHANGED <<sock, sockets, incoming_port, fwmark, net_alive, running, endpoint, eplock, cache,
                   hoststate, ssender, learner, configs, roams>>

\* Slip: the route is not taken out of the cache.
Slip_clear_src_only ==
    /\ config.pc = "clear" /\ eplock = {}
    /\ endpoint' = [endpoint EXCEPT !.src = 0]
    /\ IF config.op = "port"
       THEN IF running THEN config' = [config EXCEPT !.pc = "net"] /\ UNCHANGED incoming_port
            ELSE config' = NoConfig /\ incoming_port' = config.arg
       ELSE config' = NoConfig /\ UNCHANGED incoming_port
    /\ UNCHANGED <<sock, sockets, fwmark, creating_net, net_alive, running, eplock, cache, hoststate, ssender,
                   learner, configs, roams>>

\* wg_socket_clear_peer_endpoint_src for the peer, under the write lock.
clear_peer_endpoint_src ==
    /\ config.pc = "clear" /\ eplock = {}
    /\ endpoint' = [endpoint EXCEPT !.src = 0]
    /\ cache' = NoRoute
    /\ IF config.op = "port"
       THEN IF running THEN config' = [config EXCEPT !.pc = "net"] /\ UNCHANGED incoming_port
            ELSE config' = NoConfig /\ incoming_port' = config.arg
       ELSE config' = NoConfig /\ UNCHANGED incoming_port
    /\ UNCHANGED <<sock, sockets, fwmark, creating_net, net_alive, running, eplock, hoststate, ssender,
                   learner, configs, roams>>

\* The operation fails: nothing that is in use changes.
SocketFails ==
    config' = NoConfig /\ UNCHANGED <<devstate, endpoint, eplock, cache, hoststate, ssender, learner, configs, roams>>

\* wg_socket_init: a reference to the namespace, if it is there to be had.
maybe_get_net ==
    /\ config.pc = "net"
    /\ IF creating_net /\ net_alive
       THEN /\ config' = [config EXCEPT !.pc = "create"]
            /\ UNCHANGED <<devstate, endpoint, eplock, cache, hoststate, ssender, learner, configs, roams>>
       ELSE SocketFails

\* Both sockets are made and bound, to any port if the port is 0.  The second
\* may find the port of the first taken, which is retried for a free choice.
udp_sock_create ==
    /\ config.pc = "create"
    /\ \/ SocketFails
       \/ /\ config.arg = 0 /\ config.retries < 1
          /\ config' = [config EXCEPT !.retries = @ + 1]
          /\ UNCHANGED <<devstate, endpoint, eplock, cache, hoststate, ssender, learner, configs, roams>>
       \/ /\ Len(sockets) < MaxSockets
          /\ \E p \in IF config.arg = 0 THEN SockPorts ELSE {config.arg} :
               sockets' = Append(sockets, [port |-> p, freed |-> FALSE])
          /\ config' = [config EXCEPT !.pc = "swap", !.arg = Len(sockets) + 1]
          /\ UNCHANGED <<sock, incoming_port, fwmark, creating_net, net_alive, running, endpoint, eplock,
                         cache, hoststate, ssender, learner, configs, roams>>

\* wg_socket_reinit: the new socket, if any, takes the place of the old.
swap_sockets ==
    LET new == IF config.op \in {"stop", "exit"} THEN 0 ELSE config.arg
    IN /\ config.pc = "swap"
       /\ sock' = new
       /\ incoming_port' = IF new # 0 THEN sockets[new].port ELSE incoming_port
       /\ config' = [config EXCEPT !.pc = "sync", !.old = sock]
       /\ UNCHANGED <<sockets, fwmark, creating_net, net_alive, running, endpoint, eplock, cache, hoststate,
                      ssender, learner, configs, roams>>

\* Slip: nobody is waited for.
Slip_free_at_once ==
    /\ config.pc = "sync"
    /\ config' = [config EXCEPT !.pc = "free"]
    /\ UNCHANGED <<devstate, endpoint, eplock, cache, hoststate, ssender, learner, configs, roams>>

\* synchronize_net: senders that may have seen the old socket have finished.
synchronize_net ==
    /\ config.pc = "sync"
    /\ \A s \in SockSenders : ssender[s].sk = 0 \/ ssender[s].sk # config.old
    /\ config' = [config EXCEPT !.pc = "free"]
    /\ UNCHANGED <<devstate, endpoint, eplock, cache, hoststate, ssender, learner, configs, roams>>

\* The old socket goes; after an open the interface is up.  When the namespace
\* exits the source addresses of the peers are forgotten too.
sock_free ==
    /\ config.pc = "free"
    /\ sockets' = IF config.old = 0 THEN sockets ELSE [sockets EXCEPT ![config.old].freed = TRUE]
    /\ running' = (running \/ config.op = "open")
    /\ config' = IF config.op = "exit" THEN [config EXCEPT !.pc = "clear"] ELSE NoConfig
    /\ UNCHANGED <<sock, incoming_port, fwmark, creating_net, net_alive, endpoint, eplock, cache, hoststate,
                   ssender, learner, configs, roams>>

--------------------------------------------------------------------------------
SendRuns(s) ==
    \/ send_begin(s) \/ send_socket(s) \/ send_confirm(s) \/ send_route(s)
    \/ dst_cache_set(s) \/ udp_tunnel_xmit_skb(s) \/ send_end(s)
ConfigRuns ==
    \/ wg_open \/ wg_stop \/ set_port \/ set_fwmark \/ wg_netns_exit \/ clear_peer_endpoint_src
    \/ maybe_get_net \/ udp_sock_create \/ swap_sockets \/ synchronize_net \/ sock_free

SkNext == \/ \E s \in SockSenders : SendRuns(s)
          \/ set_peer_endpoint \/ write_endpoint \/ AddressRemoved \/ net_dies
          \/ ConfigRuns

SkSpec == SkInit /\ [][SkNext]_sk_vars

--------------------------------------------------------------------------------
(* A context that sends never holds a socket that has been freed, whatever    *)
(* replaces the sockets meanwhile (wg_socket_reinit's synchronize_net).       *)
SocketNotFreed == \A s \in SockSenders : ssender[s].sk # 0 => ~sockets[ssender[s].sk].freed

(* Between operations: an interface that is up has a socket, on the port it   *)
(* reports, as long as its namespace lives, even after a change of port that  *)
(* failed; and once the namespace has gone it has none, for good, since the   *)
(* sockets hold no reference to it.                                           *)
SocketMatchesConfig ==
    config = NoConfig =>
        /\ running /\ creating_net => sock # 0
        /\ sock # 0 => ~sockets[sock].freed /\ sockets[sock].port = incoming_port
        /\ ~net_alive /\ ~creating_net => sock = 0

(* The route in the cache leads to the peer's present endpoint under the      *)
(* present mark, once the operation that changed the mark has returned: a     *)
(* send that began before the change ends before the cache is cleared.        *)
CachedRouteCurrent ==
    cache # NoRoute => /\ cache.to = endpoint.to
                       /\ config.op # "mark" => cache.mark = fwmark

(* A packet never leaves with a source address the host had lost before the  *)
(* send began, though another sender may have put a route with that address   *)
(* into the cache after it was removed (send4, dst_cache_get_ip4).            *)
SourceIsLocal ==
    \A s \in SockSenders : ssender[s].pc = "xmit" /\ ~ssender[s].had => Route(s).src = 0

(* All four: nobody uses a freed socket, the sockets match the configuration, *)
(* and a cached route and source address are of the endpoint as it is.        *)
SocketEndpointsCurrent ==
    SocketNotFreed /\ SocketMatchesConfig /\ CachedRouteCurrent /\ SourceIsLocal

================================================================================
