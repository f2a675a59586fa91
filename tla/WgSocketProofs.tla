---------------------------- MODULE WgSocketProofs ----------------------------
(***************************************************************************)
(* The sockets of a device and the endpoint of a peer, for any number of    *)
(* contexts that send, any places and ports, and any number of              *)
(* configuration changes: nobody uses a freed socket, the sockets match the *)
(* configuration, and cached routes and source addresses are current.       *)
(*                                                                          *)
(* Each of the three rests on a fact about who may be under way: a context  *)
(* that sends holds the present socket, or the old one that                 *)
(* synchronize_net still waits for; endpoint and mark only change for the   *)
(* cache while nobody holds endpoint_lock for reading; and a route of the   *)
(* present generation was looked up after the address went.                 *)
(***************************************************************************)
EXTENDS WgSocket, TLAPS

Ports == {0} \cup SockPorts
Routes == [to : {0} \cup Places, src : {0, 1}, mark : Int, gen : Nat]
Sends == [pc : {"idle", "sock", "confirm", "route", "store", "xmit", "out"}, sk : Nat,
          had : BOOLEAN, route : Routes]
Configs == [op : {"none", "open", "stop", "port", "mark", "exit"},
            pc : {"none", "net", "clear", "create", "swap", "sync", "free"},
            arg : Ports \cup Nat, old : Nat, retries : Nat]

DevTypes ==
    /\ sock \in Nat /\ sockets \in Seq([port : SockPorts, freed : BOOLEAN])
    /\ incoming_port \in Ports /\ fwmark \in Int
    /\ creating_net \in BOOLEAN /\ net_alive \in BOOLEAN /\ running \in BOOLEAN
PeerTypes ==
    /\ endpoint \in [to : Places, src : {0, 1}] /\ eplock \subseteq SockSenders
    /\ cache \in Routes
    /\ hostaddr \in BOOLEAN /\ routegen \in Nat \ {0}
    /\ learner \in [pc : {"idle", "lock"}, to : {0} \cup Places]
    /\ learner.pc = "lock" => learner.to \in Places
SkTypeOK ==
    DevTypes /\ PeerTypes /\ ssender \in [SockSenders -> Sends] /\ config \in Configs

\* The operation replaces the sockets.
Remakes == config.op \in {"open", "port"}

\* What an operation under way has got.
ConfigInv ==
    /\ config.pc = "none" <=> config = NoConfig
    /\ config.op = "none" <=> config = NoConfig
    /\ config.op = "mark" => config.pc = "clear"
    /\ config.op = "open" => config.pc # "clear" /\ ~running
    /\ config.op = "stop" => config.pc \in {"swap", "sync", "free"} /\ ~running
    /\ config.op = "exit" => config.pc \in {"swap", "sync", "free", "clear"} /\ ~creating_net
    /\ config.op = "port" /\ config.pc # "clear" => running
    /\ Remakes /\ config.pc \in {"net", "clear", "create"} => config.arg \in Ports
    /\ Remakes /\ config.pc \notin {"net", "clear"} => creating_net
    /\ Remakes /\ config.pc = "swap" =>
          /\ config.arg \in 1 .. Len(sockets) /\ sock # config.arg
          /\ ~sockets[config.arg].freed
    /\ Remakes /\ config.pc \in {"sync", "free"} => sock # 0

\* The sockets in use, the one that is being replaced, and who holds which.
SockInv ==
    /\ sock \in 0 .. Len(sockets)
    /\ sock # 0 => ~sockets[sock].freed /\ sockets[sock].port = incoming_port
    /\ sock # 0 => \/ running
                   \/ config.op = "open" /\ config.pc \in {"sync", "free"}
                   \/ config.op = "stop" /\ config.pc = "swap"
    /\ sock # 0 => creating_net \/ (config.op = "exit" /\ config.pc = "swap")
    /\ running /\ creating_net => sock # 0
    /\ config.pc \in {"sync", "free"} => /\ config.old \in 0 .. Len(sockets)
                                         /\ config.old = 0 \/ config.old # sock
    /\ config.pc = "sync" /\ config.old # 0 => ~sockets[config.old].freed
    /\ \A s \in SockSenders : ssender[s].sk # 0 =>
          \/ ssender[s].sk = sock
          \/ config.pc = "sync" /\ ssender[s].sk = config.old

\* Whoever sends holds endpoint_lock, and its route is of the present endpoint.
RouteInv ==
    /\ eplock = {s \in SockSenders : InSend(s)}
    /\ \A s \in SockSenders : InSend(s) =>
          /\ Route(s).to = endpoint.to
          /\ config.op # "mark" => Route(s).mark = fwmark
    /\ CachedRouteCurrent

\* A route of the present generation knows which addresses the host has.
SourceInv ==
    /\ cache.gen <= routegen /\ (~hostaddr /\ cache.gen = routegen => cache.src = 0)
    /\ \A s \in SockSenders :
          /\ Route(s).gen <= routegen /\ (~ssender[s].had => ~hostaddr)
          /\ ssender[s].pc \in {"store", "xmit"} /\ ~ssender[s].had => Route(s).src = 0
          /\ ssender[s].pc = "store" /\ ~hostaddr /\ Route(s).gen = routegen => Route(s).src = 0

SkInv == SkTypeOK /\ ConfigInv /\ SockInv /\ RouteInv /\ SourceInv


-------------------------------------------------------------------------------
(* The steps of a send that change its route, field by field.                *)

(* send_socket: a route of the present generation is taken from the cache.   *)
LEMMA SocketEffect ==
  ASSUME SkTypeOK, NEW s \in SockSenders, send_socket(s)
  PROVE  \E x \in Sends : \E y \in Sends :
           /\ x = ssender[s] /\ ssender' = [ssender EXCEPT ![s] = y]
           /\ x.pc = "sock" /\ y.sk = sock /\ y.had = x.had /\ y.route.to = x.route.to
           /\ y.pc = IF sock = 0 THEN "out" ELSE IF cache.gen = routegen THEN "xmit" ELSE "confirm"
           /\ \/ y.route = x.route /\ y.pc # "xmit"
              \/ /\ sock # 0 /\ cache.gen = routegen
                 /\ y.route.src = cache.src /\ y.route.mark = cache.mark /\ y.route.gen = cache.gen
<1>1. PICK x \in Sends : x = ssender[s]
  BY DEF SkTypeOK
<1> DEFINE hit == sock # 0 /\ cache.gen = routegen
           rt == IF hit THEN [cache EXCEPT !.to = x.route.to] ELSE x.route
           y == [x EXCEPT !.sk = sock,
                          !.pc = IF sock = 0 THEN "out" ELSE IF hit THEN "xmit" ELSE "confirm",
                          !.route = rt]
<1>2. x.route \in Routes /\ cache \in Routes /\ sock \in Nat /\ x.pc = "sock"
  BY <1>1 DEF Sends, SkTypeOK, PeerTypes, DevTypes, send_socket
<1>3. /\ rt \in Routes /\ rt.to = x.route.to /\ (~hit => rt = x.route)
      /\ hit => rt.src = cache.src /\ rt.mark = cache.mark /\ rt.gen = cache.gen
  BY <1>2 DEF Routes
<1>4. ssender' = [ssender EXCEPT ![s] = y]
  BY <1>1 DEF send_socket, Route, SkTypeOK
<1> HIDE DEF rt
<1>5. y \in Sends /\ y.sk = sock /\ y.had = x.had /\ y.route = rt
        /\ y.pc = IF sock = 0 THEN "out" ELSE IF cache.gen = routegen THEN "xmit" ELSE "confirm"
  BY <1>2, <1>3 DEF Sends
<1> HIDE DEF y
<1> QED BY <1>1, <1>2, <1>3, <1>4, <1>5

(* send_confirm and send_route: the source address may be forgotten, and a   *)
(* route that is found carries the present generation.                       *)
LEMMA ConfirmEffect ==
  ASSUME SkTypeOK, NEW s \in SockSenders, send_confirm(s)
  PROVE  \E x \in Sends : \E y \in Sends :
           /\ x = ssender[s] /\ ssender' = [ssender EXCEPT ![s] = y]
           /\ x.pc = "confirm" /\ y.pc = "route" /\ y.sk = x.sk /\ y.had = x.had
           /\ y.route.to = x.route.to /\ y.route.mark = x.route.mark /\ y.route.gen = x.route.gen
           /\ \/ UNCHANGED <<endpoint, cache>>
              \/ cache' = NoRoute /\ endpoint' = [endpoint EXCEPT !.src = 0]
<1>1. PICK x \in Sends : x = ssender[s]
  BY DEF SkTypeOK
<1> DEFINE keep == x.route.src = 0 \/ hostaddr
           rt == IF keep THEN x.route ELSE [x.route EXCEPT !.src = 0]
           y == [x EXCEPT !.pc = "route", !.route = rt]
<1>2. x.route \in Routes /\ x.pc = "confirm"
  BY <1>1 DEF Sends, send_confirm
<1>3. /\ rt \in Routes /\ rt.to = x.route.to /\ rt.mark = x.route.mark /\ rt.gen = x.route.gen
  BY <1>2 DEF Routes
<1>4. ssender' = [ssender EXCEPT ![s] = y]
  <2>1. CASE keep
    <3>1. ssender' = [ssender EXCEPT ![s].pc = "route"]
      BY <1>1, <2>1 DEF send_confirm, Route
    <3>2. y = [x EXCEPT !.pc = "route"]
      BY <1>2, <2>1 DEF Sends
    <3> HIDE DEF y
    <3> QED BY <1>1, <3>1, <3>2 DEF SkTypeOK
  <2>2. CASE ~keep
    <3>1. ssender' = [ssender EXCEPT ![s].pc = "route", ![s].route.src = 0]
      BY <1>1, <2>2 DEF send_confirm, Route
    <3>2. y = [x EXCEPT !.pc = "route", !.route = [x.route EXCEPT !.src = 0]]
      BY <2>2
    <3> HIDE DEF y
    <3> QED BY <1>1, <3>1, <3>2 DEF SkTypeOK
  <2> QED BY <2>1, <2>2
<1> HIDE DEF rt
<1>5. y \in Sends /\ y.sk = x.sk /\ y.had = x.had /\ y.route = rt /\ y.pc = "route"
  BY <1>2, <1>3 DEF Sends
<1> HIDE DEF y, keep
<1>6. \/ UNCHANGED <<endpoint, cache>>
      \/ cache' = NoRoute /\ endpoint' = [endpoint EXCEPT !.src = 0]
  BY DEF send_confirm
<1> QED BY <1>1, <1>2, <1>3, <1>4, <1>5, <1>6

LEMMA RouteEffect ==
  ASSUME SkTypeOK, NEW s \in SockSenders, send_route(s)
  PROVE  \E x \in Sends : \E y \in Sends :
           /\ x = ssender[s] /\ ssender' = [ssender EXCEPT ![s] = y]
           /\ x.pc = "route" /\ y.sk = x.sk /\ y.had = x.had
           /\ y.route.to = x.route.to /\ y.route.mark = x.route.mark
           /\ \/ y.pc = "out" /\ y.route = x.route
              \/ /\ y.pc = "store" /\ y.route.gen = routegen
                 /\ y.route.src = 0 \/ (hostaddr /\ y.route.src = x.route.src)
           /\ \/ UNCHANGED <<endpoint, cache>>
              \/ cache' = NoRoute /\ endpoint' = [endpoint EXCEPT !.src = 0]
<1>1. PICK x \in Sends : x = ssender[s]
  BY DEF SkTypeOK
<1>2. x.route \in Routes /\ x.pc = "route" /\ routegen \in Nat
  BY <1>1 DEF Sends, send_route, SkTypeOK, PeerTypes
<1>3. CASE /\ ssender' = [ssender EXCEPT ![s].pc = "out"]
           /\ UNCHANGED <<endpoint, cache>>
  <2> DEFINE y == [x EXCEPT !.pc = "out"]
  <2>1. y \in Sends /\ y.sk = x.sk /\ y.had = x.had /\ y.route = x.route /\ y.pc = "out"
    BY <1>2 DEF Sends
  <2>2. ssender' = [ssender EXCEPT ![s] = y]
    BY <1>1, <1>3 DEF SkTypeOK
  <2> HIDE DEF y
  <2> QED BY <1>1, <1>2, <1>3, <2>1, <2>2
<1>4. CASE /\ endpoint' = [endpoint EXCEPT !.src = 0] /\ cache' = NoRoute
           /\ ssender' = [ssender EXCEPT ![s].pc = "store", ![s].route.src = 0, ![s].route.gen = routegen]
  <2> DEFINE rt == [x.route EXCEPT !.src = 0, !.gen = routegen]
             y == [x EXCEPT !.pc = "store", !.route = rt]
  <2>1. /\ rt \in Routes /\ rt.to = x.route.to /\ rt.mark = x.route.mark /\ rt.gen = routegen
        /\ rt.src = 0
    BY <1>2 DEF Routes
  <2>2. ssender' = [ssender EXCEPT ![s] = y]
    BY <1>1, <1>4 DEF SkTypeOK
  <2> HIDE DEF rt
  <2>3. y \in Sends /\ y.sk = x.sk /\ y.had = x.had /\ y.route = rt /\ y.pc = "store"
    BY <1>2, <2>1 DEF Sends
  <2> HIDE DEF y
  <2> QED BY <1>1, <1>2, <1>4, <2>1, <2>2, <2>3
<1>5. CASE /\ x.route.src = 0 \/ hostaddr
           /\ ssender' = [ssender EXCEPT ![s].pc = "store", ![s].route.gen = routegen]
           /\ UNCHANGED <<endpoint, cache>>
  <2> DEFINE rt == [x.route EXCEPT !.gen = routegen]
             y == [x EXCEPT !.pc = "store", !.route = rt]
  <2>1. /\ rt \in Routes /\ rt.to = x.route.to /\ rt.mark = x.route.mark /\ rt.gen = routegen
        /\ rt.src = x.route.src
    BY <1>2 DEF Routes
  <2>2. ssender' = [ssender EXCEPT ![s] = y]
    BY <1>1, <1>5 DEF SkTypeOK
  <2> HIDE DEF rt
  <2>3. y \in Sends /\ y.sk = x.sk /\ y.had = x.had /\ y.route = rt /\ y.pc = "store"
    BY <1>2, <2>1 DEF Sends
  <2> HIDE DEF y
  <2> QED BY <1>1, <1>2, <1>5, <2>1, <2>2, <2>3
<1> QED BY <1>1, <1>3, <1>4, <1>5 DEF send_route, Route

-------------------------------------------------------------------------------
(* Types.                                                                   *)

(* What a sequence holds.                                                    *)
LEMMA ElementOf ==
  ASSUME NEW S, NEW q \in Seq(S), NEW i \in 1 .. Len(q)
  PROVE  q[i] \in S
OBVIOUS

(* The empty sequence is one of any set.                                     *)
LEMMA EmptySequence ==
  ASSUME NEW S
  PROVE  <<>> \in Seq(S)
OBVIOUS

(* Counting on.                                                              *)
LEMMA OneMore ==
  ASSUME NEW n \in Nat
  PROVE  n + 1 \in Nat \ {0}
OBVIOUS

(* The device.                                                               *)
LEMMA DevStep ==
  ASSUME SkInv, SkNext
  PROVE  DevTypes'
<1> USE DEF SkInv, SkTypeOK, DevTypes
<1>1. ASSUME NEW s \in SockSenders, send_begin(s) PROVE DevTypes'
  BY <1>1 DEF send_begin, devstate, hoststate
<1>2. ASSUME NEW s \in SockSenders, send_socket(s) PROVE DevTypes'
  BY <1>2 DEF send_socket, devstate, hoststate
<1>3. ASSUME NEW s \in SockSenders, send_confirm(s) PROVE DevTypes'
  BY <1>3 DEF send_confirm, devstate, hoststate
<1>4. ASSUME NEW s \in SockSenders, send_route(s) PROVE DevTypes'
  BY <1>4 DEF send_route, devstate, hoststate
<1>5. ASSUME NEW s \in SockSenders, dst_cache_set(s) PROVE DevTypes'
  BY <1>5 DEF dst_cache_set, devstate, hoststate
<1>6. ASSUME NEW s \in SockSenders, udp_tunnel_xmit_skb(s) PROVE DevTypes'
  BY <1>6 DEF udp_tunnel_xmit_skb, devstate, hoststate
<1>7. ASSUME NEW s \in SockSenders, send_end(s) PROVE DevTypes'
  BY <1>7 DEF send_end, devstate, hoststate
<1>8. ASSUME set_peer_endpoint PROVE DevTypes'
  BY <1>8 DEF set_peer_endpoint, devstate, hoststate
<1>9. ASSUME write_endpoint PROVE DevTypes'
  BY <1>9 DEF write_endpoint, devstate, hoststate
<1>10. ASSUME AddressRemoved PROVE DevTypes'
  BY <1>10 DEF AddressRemoved, devstate, hoststate
<1>11. ASSUME net_dies PROVE DevTypes'
  BY <1>11 DEF net_dies, devstate, hoststate
<1>12. ASSUME wg_open PROVE DevTypes'
  BY <1>12 DEF wg_open, Begin, devstate, hoststate
<1>13. ASSUME wg_stop PROVE DevTypes'
  BY <1>13 DEF wg_stop, Begin, devstate, hoststate
<1>14. ASSUME set_port PROVE DevTypes'
  BY <1>14 DEF set_port, Begin, devstate, hoststate
<1>15. ASSUME set_fwmark PROVE DevTypes'
  BY <1>15 DEF set_fwmark, Begin, devstate, hoststate
<1>16. ASSUME wg_netns_exit PROVE DevTypes'
  BY <1>16 DEF wg_netns_exit, devstate, hoststate
<1>17. ASSUME clear_peer_endpoint_src PROVE DevTypes'
  <2>1. incoming_port' \in Ports
    BY <1>17 DEF clear_peer_endpoint_src, ConfigInv, Remakes
  <2> QED BY <1>17, <2>1 DEF clear_peer_endpoint_src
<1>18. ASSUME maybe_get_net PROVE DevTypes'
  BY <1>18 DEF maybe_get_net, SocketFails, devstate, hoststate
<1>19. ASSUME udp_sock_create PROVE DevTypes'
  <2>1. sockets' \in Seq([port : SockPorts, freed : BOOLEAN])
    <3>1. CASE sockets' = sockets
      BY <3>1
    <3>2. CASE \E p \in IF config.arg = 0 THEN SockPorts ELSE {config.arg} :
                  sockets' = Append(sockets, [port |-> p, freed |-> FALSE])
      BY <1>19, <3>2 DEF udp_sock_create, ConfigInv, Remakes, Ports, Configs
    <3> QED BY <1>19, <3>1, <3>2 DEF udp_sock_create, SocketFails, devstate
  <2>2. UNCHANGED <<sock, incoming_port, fwmark, creating_net, net_alive, running>>
    BY <1>19 DEF udp_sock_create, SocketFails, devstate
  <2> QED BY <2>1, <2>2
<1>20. ASSUME swap_sockets PROVE DevTypes'
  <2>0. config.op \in {"open", "port", "stop", "exit"}
    BY <1>20 DEF swap_sockets, Configs, ConfigInv, NoConfig
  <2>1. sock' \in Nat /\ incoming_port' \in Ports
    <3>1. CASE config.op \in {"stop", "exit"}
      BY <1>20, <3>1 DEF swap_sockets
    <3>2. CASE config.op \in {"open", "port"}
      <4>1. config.arg \in 1 .. Len(sockets) /\ config.arg \in Nat /\ config.arg # 0
        BY <1>20, <3>2 DEF swap_sockets, ConfigInv, Remakes
      <4>2. sockets[config.arg] \in [port : SockPorts, freed : BOOLEAN]
        BY <4>1, ElementOf
      <4>3. sockets[config.arg].port \in SockPorts
        BY <4>2
      <4> QED BY <1>20, <3>2, <4>1, <4>3 DEF swap_sockets, Ports
    <3> QED BY <2>0, <3>1, <3>2
  <2> QED BY <1>20, <2>1 DEF swap_sockets
<1>21. ASSUME synchronize_net PROVE DevTypes'
  BY <1>21 DEF synchronize_net, devstate, hoststate
<1>22. ASSUME sock_free PROVE DevTypes'
  <2>1. sockets' \in Seq([port : SockPorts, freed : BOOLEAN])
    <3>1. CASE config.old = 0
      BY <1>22, <3>1 DEF sock_free
    <3>2. CASE config.old # 0
      <4>1. sockets' = [sockets EXCEPT ![config.old].freed = TRUE]
        BY <1>22, <3>2 DEF sock_free
      <4>2. config.old \in 1 .. Len(sockets)
        BY <1>22, <3>2 DEF sock_free, SockInv
      <4>3. sockets[config.old] \in [port : SockPorts, freed : BOOLEAN]
        BY <4>2, ElementOf
      <4>4. [sockets[config.old] EXCEPT !.freed = TRUE] \in [port : SockPorts, freed : BOOLEAN]
        BY <4>3
      <4> QED BY <4>1, <4>2, <4>4
    <3> QED BY <3>1, <3>2
  <2> QED BY <1>22, <2>1 DEF sock_free
<1> QED BY <1>1, <1>2, <1>3, <1>4, <1>5, <1>6, <1>7, <1>8, <1>9, <1>10, <1>11, <1>12,
           <1>13, <1>14, <1>15, <1>16, <1>17, <1>18, <1>19, <1>20, <1>21, <1>22 DEF SkNext, SendRuns, ConfigRuns

(* The peer.                                                                 *)
LEMMA PeerStep ==
  ASSUME SkInv, SkNext
  PROVE  PeerTypes'
<1> USE DEF SkInv, SkTypeOK, PeerTypes, Routes, NoRoute
<1>1. ASSUME NEW s \in SockSenders, send_begin(s) PROVE PeerTypes'
  BY <1>1 DEF send_begin, devstate, hoststate
<1>2. ASSUME NEW s \in SockSenders, send_socket(s) PROVE PeerTypes'
  BY <1>2, SocketEffect DEF send_socket, devstate, hoststate
<1>3. ASSUME NEW s \in SockSenders, send_confirm(s) PROVE PeerTypes'
  BY <1>3, ConfirmEffect DEF send_confirm, devstate, hoststate
<1>4. ASSUME NEW s \in SockSenders, send_route(s) PROVE PeerTypes'
  <2>1. \/ UNCHANGED <<endpoint, cache>>
        \/ cache' = NoRoute /\ endpoint' = [endpoint EXCEPT !.src = 0]
    BY <1>4 DEF send_route
  <2>2. UNCHANGED <<eplock, hostaddr, routegen, learner>>
    BY <1>4 DEF send_route, hoststate
  <2> QED BY <2>1, <2>2
<1>5. ASSUME NEW s \in SockSenders, dst_cache_set(s) PROVE PeerTypes'
  <2>1. cache' \in Routes
    BY <1>5 DEF dst_cache_set, Sends, Route
  <2> QED BY <1>5, <2>1 DEF dst_cache_set, hoststate
<1>6. ASSUME NEW s \in SockSenders, udp_tunnel_xmit_skb(s) PROVE PeerTypes'
  BY <1>6 DEF udp_tunnel_xmit_skb, devstate, hoststate
<1>7. ASSUME NEW s \in SockSenders, send_end(s) PROVE PeerTypes'
  BY <1>7 DEF send_end, devstate, hoststate
<1>8. ASSUME set_peer_endpoint PROVE PeerTypes'
  BY <1>8 DEF set_peer_endpoint, devstate, hoststate
<1>9. ASSUME write_endpoint PROVE PeerTypes'
  BY <1>9 DEF write_endpoint, devstate, hoststate
<1>10. ASSUME AddressRemoved PROVE PeerTypes'
  <2>0. routegen + 1 \in Nat \ {0}
    BY OneMore
  <2>1. routegen' = routegen + 1 /\ hostaddr' = FALSE
    BY <1>10 DEF AddressRemoved
  <2>2. UNCHANGED <<endpoint, eplock, cache, learner>>
    BY <1>10 DEF AddressRemoved
  <2> QED BY <2>0, <2>1, <2>2
<1>11. ASSUME net_dies PROVE PeerTypes'
  BY <1>11 DEF net_dies, devstate, hoststate
<1>12. ASSUME wg_open PROVE PeerTypes'
  BY <1>12 DEF wg_open, Begin, devstate, hoststate
<1>13. ASSUME wg_stop PROVE PeerTypes'
  BY <1>13 DEF wg_stop, Begin, devstate, hoststate
<1>14. ASSUME set_port PROVE PeerTypes'
  BY <1>14 DEF set_port, Begin, devstate, hoststate
<1>15. ASSUME set_fwmark PROVE PeerTypes'
  BY <1>15 DEF set_fwmark, Begin, devstate, hoststate
<1>16. ASSUME wg_netns_exit PROVE PeerTypes'
  BY <1>16 DEF wg_netns_exit, devstate, hoststate
<1>17. ASSUME clear_peer_endpoint_src PROVE PeerTypes'
  BY <1>17 DEF clear_peer_endpoint_src, devstate, hoststate
<1>18. ASSUME maybe_get_net PROVE PeerTypes'
  BY <1>18 DEF maybe_get_net, SocketFails, devstate, hoststate
<1>19. ASSUME udp_sock_create PROVE PeerTypes'
  BY <1>19 DEF udp_sock_create, SocketFails, devstate, hoststate
<1>20. ASSUME swap_sockets PROVE PeerTypes'
  BY <1>20 DEF swap_sockets, devstate, hoststate
<1>21. ASSUME synchronize_net PROVE PeerTypes'
  BY <1>21 DEF synchronize_net, devstate, hoststate
<1>22. ASSUME sock_free PROVE PeerTypes'
  BY <1>22 DEF sock_free, devstate, hoststate
<1> QED BY <1>1, <1>2, <1>3, <1>4, <1>5, <1>6, <1>7, <1>8, <1>9, <1>10, <1>11, <1>12,
           <1>13, <1>14, <1>15, <1>16, <1>17, <1>18, <1>19, <1>20, <1>21, <1>22 DEF SkNext, SendRuns, ConfigRuns

(* The contexts that send.                                                   *)
LEMMA SendStep ==
  ASSUME SkInv, SkNext
  PROVE  ssender' \in [SockSenders -> Sends]
<1> USE DEF SkInv, SkTypeOK, NoRoute, SendIdle, PeerTypes, DevTypes
<1>1. ASSUME NEW s \in SockSenders, send_begin(s) PROVE ssender' \in [SockSenders -> Sends]
  BY <1>1 DEF send_begin, Sends, Routes
<1>2. ASSUME NEW s \in SockSenders, send_socket(s) PROVE ssender' \in [SockSenders -> Sends]
  BY <1>2, SocketEffect
<1>3. ASSUME NEW s \in SockSenders, send_confirm(s) PROVE ssender' \in [SockSenders -> Sends]
  BY <1>3, ConfirmEffect
<1>4. ASSUME NEW s \in SockSenders, send_route(s) PROVE ssender' \in [SockSenders -> Sends]
  BY <1>4, RouteEffect
<1>5. ASSUME NEW s \in SockSenders, dst_cache_set(s) PROVE ssender' \in [SockSenders -> Sends]
  BY <1>5 DEF dst_cache_set, Sends, Routes
<1>6. ASSUME NEW s \in SockSenders, udp_tunnel_xmit_skb(s) PROVE ssender' \in [SockSenders -> Sends]
  BY <1>6 DEF udp_tunnel_xmit_skb, Sends, Routes
<1>7. ASSUME NEW s \in SockSenders, send_end(s) PROVE ssender' \in [SockSenders -> Sends]
  BY <1>7 DEF send_end, Sends, Routes
<1>8. ASSUME set_peer_endpoint PROVE ssender' \in [SockSenders -> Sends]
  BY <1>8 DEF set_peer_endpoint, devstate, hoststate
<1>9. ASSUME write_endpoint PROVE ssender' \in [SockSenders -> Sends]
  BY <1>9 DEF write_endpoint, devstate, hoststate
<1>10. ASSUME AddressRemoved PROVE ssender' \in [SockSenders -> Sends]
  BY <1>10 DEF AddressRemoved, devstate, hoststate
<1>11. ASSUME net_dies PROVE ssender' \in [SockSenders -> Sends]
  BY <1>11 DEF net_dies, devstate, hoststate
<1>12. ASSUME wg_open PROVE ssender' \in [SockSenders -> Sends]
  BY <1>12 DEF wg_open, Begin, devstate, hoststate
<1>13. ASSUME wg_stop PROVE ssender' \in [SockSenders -> Sends]
  BY <1>13 DEF wg_stop, Begin, devstate, hoststate
<1>14. ASSUME set_port PROVE ssender' \in [SockSenders -> Sends]
  BY <1>14 DEF set_port, Begin, devstate, hoststate
<1>15. ASSUME set_fwmark PROVE ssender' \in [SockSenders -> Sends]
  BY <1>15 DEF set_fwmark, Begin, devstate, hoststate
<1>16. ASSUME wg_netns_exit PROVE ssender' \in [SockSenders -> Sends]
  BY <1>16 DEF wg_netns_exit, devstate, hoststate
<1>17. ASSUME clear_peer_endpoint_src PROVE ssender' \in [SockSenders -> Sends]
  BY <1>17 DEF clear_peer_endpoint_src, devstate, hoststate
<1>18. ASSUME maybe_get_net PROVE ssender' \in [SockSenders -> Sends]
  BY <1>18 DEF maybe_get_net, SocketFails, devstate, hoststate
<1>19. ASSUME udp_sock_create PROVE ssender' \in [SockSenders -> Sends]
  BY <1>19 DEF udp_sock_create, SocketFails, devstate, hoststate
<1>20. ASSUME swap_sockets PROVE ssender' \in [SockSenders -> Sends]
  BY <1>20 DEF swap_sockets, devstate, hoststate
<1>21. ASSUME synchronize_net PROVE ssender' \in [SockSenders -> Sends]
  BY <1>21 DEF synchronize_net, devstate, hoststate
<1>22. ASSUME sock_free PROVE ssender' \in [SockSenders -> Sends]
  BY <1>22 DEF sock_free, devstate, hoststate
<1> QED BY <1>1, <1>2, <1>3, <1>4, <1>5, <1>6, <1>7, <1>8, <1>9, <1>10, <1>11, <1>12,
           <1>13, <1>14, <1>15, <1>16, <1>17, <1>18, <1>19, <1>20, <1>21, <1>22 DEF SkNext, SendRuns, ConfigRuns

(* The operation under rtnl.                                                 *)
LEMMA ConfigTypeStep ==
  ASSUME SkInv, SkNext
  PROVE  config' \in Configs
<1> USE DEF SkInv, SkTypeOK, Configs, Ports, NoConfig, DevTypes
<1>1. ASSUME NEW s \in SockSenders, send_begin(s) PROVE config' \in Configs
  BY <1>1 DEF send_begin, devstate, hoststate
<1>2. ASSUME NEW s \in SockSenders, send_socket(s) PROVE config' \in Configs
  BY <1>2 DEF send_socket, devstate, hoststate
<1>3. ASSUME NEW s \in SockSenders, send_confirm(s) PROVE config' \in Configs
  BY <1>3 DEF send_confirm, devstate, hoststate
<1>4. ASSUME NEW s \in SockSenders, send_route(s) PROVE config' \in Configs
  BY <1>4 DEF send_route, devstate, hoststate
<1>5. ASSUME NEW s \in SockSenders, dst_cache_set(s) PROVE config' \in Configs
  BY <1>5 DEF dst_cache_set, devstate, hoststate
<1>6. ASSUME NEW s \in SockSenders, udp_tunnel_xmit_skb(s) PROVE config' \in Configs
  BY <1>6 DEF udp_tunnel_xmit_skb, devstate, hoststate
<1>7. ASSUME NEW s \in SockSenders, send_end(s) PROVE config' \in Configs
  BY <1>7 DEF send_end, devstate, hoststate
<1>8. ASSUME set_peer_endpoint PROVE config' \in Configs
  BY <1>8 DEF set_peer_endpoint, devstate, hoststate
<1>9. ASSUME write_endpoint PROVE config' \in Configs
  BY <1>9 DEF write_endpoint, devstate, hoststate
<1>10. ASSUME AddressRemoved PROVE config' \in Configs
  BY <1>10 DEF AddressRemoved, devstate, hoststate
<1>11. ASSUME net_dies PROVE config' \in Configs
  BY <1>11 DEF net_dies, devstate, hoststate
<1>12. ASSUME wg_open PROVE config' \in Configs
  BY <1>12 DEF wg_open, Begin, devstate, hoststate
<1>13. ASSUME wg_stop PROVE config' \in Configs
  BY <1>13 DEF wg_stop, Begin, devstate, hoststate
<1>14. ASSUME set_port PROVE config' \in Configs
  BY <1>14 DEF set_port, Begin, devstate, hoststate
<1>15. ASSUME set_fwmark PROVE config' \in Configs
  BY <1>15 DEF set_fwmark, Begin, devstate, hoststate
<1>16. ASSUME wg_netns_exit PROVE config' \in Configs
  BY <1>16 DEF wg_netns_exit, devstate, hoststate
<1>17. ASSUME clear_peer_endpoint_src PROVE config' \in Configs
  BY <1>17 DEF clear_peer_endpoint_src, devstate, hoststate
<1>18. ASSUME maybe_get_net PROVE config' \in Configs
  BY <1>18 DEF maybe_get_net, SocketFails, devstate, hoststate
<1>19. ASSUME udp_sock_create PROVE config' \in Configs
  <2>1. Len(sockets) + 1 \in Nat
    BY OneMore
  <2>2. CASE config' = NoConfig
    BY <2>2
  <2>3. CASE config' = [config EXCEPT !.retries = @ + 1]
    BY <2>3
  <2>4. CASE config' = [config EXCEPT !.pc = "swap", !.arg = Len(sockets) + 1]
    BY <2>1, <2>4
  <2> QED BY <1>19, <2>2, <2>3, <2>4 DEF udp_sock_create, SocketFails
<1>20. ASSUME swap_sockets PROVE config' \in Configs
  BY <1>20 DEF swap_sockets, devstate, hoststate
<1>21. ASSUME synchronize_net PROVE config' \in Configs
  BY <1>21 DEF synchronize_net, devstate, hoststate
<1>22. ASSUME sock_free PROVE config' \in Configs
  BY <1>22 DEF sock_free, devstate, hoststate
<1> QED BY <1>1, <1>2, <1>3, <1>4, <1>5, <1>6, <1>7, <1>8, <1>9, <1>10, <1>11, <1>12,
           <1>13, <1>14, <1>15, <1>16, <1>17, <1>18, <1>19, <1>20, <1>21, <1>22 DEF SkNext, SendRuns, ConfigRuns

-------------------------------------------------------------------------------
(* The invariants, one action at a time.                                     *)

(* Where an operation under rtnl stands.                                     *)
LEMMA ConfigStep ==
  ASSUME SkInv, SkNext
  PROVE  ConfigInv'
<1> USE DEF SkInv, SkTypeOK, DevTypes, Configs, Ports, ConfigInv, SockInv, Remakes, NoConfig
<1>1. ASSUME NEW s \in SockSenders, send_begin(s) PROVE ConfigInv'
  BY <1>1 DEF send_begin, devstate, hoststate
<1>2. ASSUME NEW s \in SockSenders, send_socket(s) PROVE ConfigInv'
  BY <1>2 DEF send_socket, devstate, hoststate
<1>3. ASSUME NEW s \in SockSenders, send_confirm(s) PROVE ConfigInv'
  BY <1>3 DEF send_confirm, devstate, hoststate
<1>4. ASSUME NEW s \in SockSenders, send_route(s) PROVE ConfigInv'
  BY <1>4 DEF send_route, devstate, hoststate
<1>5. ASSUME NEW s \in SockSenders, dst_cache_set(s) PROVE ConfigInv'
  BY <1>5 DEF dst_cache_set, devstate, hoststate
<1>6. ASSUME NEW s \in SockSenders, udp_tunnel_xmit_skb(s) PROVE ConfigInv'
  BY <1>6 DEF udp_tunnel_xmit_skb, devstate, hoststate
<1>7. ASSUME NEW s \in SockSenders, send_end(s) PROVE ConfigInv'
  BY <1>7 DEF send_end, devstate, hoststate
<1>8. ASSUME set_peer_endpoint PROVE ConfigInv'
  BY <1>8 DEF set_peer_endpoint, devstate, hoststate
<1>9. ASSUME write_endpoint PROVE ConfigInv'
  BY <1>9 DEF write_endpoint, devstate, hoststate
<1>10. ASSUME AddressRemoved PROVE ConfigInv'
  BY <1>10 DEF AddressRemoved, devstate, hoststate
<1>11. ASSUME net_dies PROVE ConfigInv'
  BY <1>11 DEF net_dies, devstate, hoststate
<1>12. ASSUME wg_open PROVE ConfigInv'
  BY <1>12 DEF wg_open, Begin, devstate, hoststate
<1>13. ASSUME wg_stop PROVE ConfigInv'
  BY <1>13 DEF wg_stop, Begin, devstate, hoststate
<1>14. ASSUME set_port PROVE ConfigInv'
  BY <1>14 DEF set_port, Begin, devstate, hoststate
<1>15. ASSUME set_fwmark PROVE ConfigInv'
  BY <1>15 DEF set_fwmark, Begin, devstate, hoststate
<1>16. ASSUME wg_netns_exit PROVE ConfigInv'
  BY <1>16 DEF wg_netns_exit, devstate, hoststate
<1>17. ASSUME clear_peer_endpoint_src PROVE ConfigInv'
  <2>1. UNCHANGED <<sock, sockets, running, creating_net>> /\ config.pc = "clear"
    BY <1>17 DEF clear_peer_endpoint_src
  <2>2. CASE config' = NoConfig
    BY <2>1, <2>2
  <2>3. CASE config' = [config EXCEPT !.pc = "net"] /\ config.op = "port" /\ running
    BY <2>1, <2>3
  <2> QED BY <1>17, <2>2, <2>3 DEF clear_peer_endpoint_src
<1>18. ASSUME maybe_get_net PROVE ConfigInv'
  BY <1>18 DEF maybe_get_net, SocketFails, devstate, hoststate
<1>19. ASSUME udp_sock_create PROVE ConfigInv'
  <2>1. UNCHANGED <<sock, running, creating_net>> /\ config.pc = "create"
    BY <1>19 DEF udp_sock_create, SocketFails, devstate
  <2>2. CASE config' = NoConfig
    BY <2>1, <2>2
  <2>3. CASE config' = [config EXCEPT !.retries = @ + 1] /\ sockets' = sockets
    BY <2>1, <2>3
  <2>4. CASE /\ config' = [config EXCEPT !.pc = "swap", !.arg = Len(sockets) + 1]
             /\ \E p : sockets' = Append(sockets, [port |-> p, freed |-> FALSE])
    <3>1. PICK p : sockets' = Append(sockets, [port |-> p, freed |-> FALSE])
      BY <2>4
    <3>2. /\ Len(sockets') = Len(sockets) + 1 /\ Len(sockets) \in Nat
          /\ sockets'[Len(sockets) + 1] = [port |-> p, freed |-> FALSE]
      BY <3>1
    <3>3. /\ config'.pc = "swap" /\ config'.op = config.op /\ config'.arg = Len(sockets) + 1
          /\ config'.op \in {"open", "port"}
      BY <2>1, <2>4
    <3>4. Len(sockets) + 1 \in 1 .. Len(sockets') /\ sock' # Len(sockets) + 1
      BY <2>1, <3>2
    <3>5. ~sockets'[config'.arg].freed
      BY <3>2, <3>3
    <3> QED BY <2>1, <3>3, <3>4, <3>5
  <2> QED BY <1>19, <2>2, <2>3, <2>4 DEF udp_sock_create, SocketFails, devstate
<1>20. ASSUME swap_sockets PROVE ConfigInv'
  <2>1. UNCHANGED <<sockets, running, creating_net>> /\ config.pc = "swap"
    BY <1>20 DEF swap_sockets
  <2>2. config'.pc = "sync" /\ config'.op = config.op /\ config'.arg = config.arg
    BY <1>20 DEF swap_sockets
  <2>3. config.op \in {"open", "port"} => sock' # 0
    BY <1>20 DEF swap_sockets
  <2> QED BY <2>1, <2>2, <2>3
<1>21. ASSUME synchronize_net PROVE ConfigInv'
  BY <1>21 DEF synchronize_net, devstate, hoststate
<1>22. ASSUME sock_free PROVE ConfigInv'
  BY <1>22 DEF sock_free, devstate, hoststate
<1> QED BY <1>1, <1>2, <1>3, <1>4, <1>5, <1>6, <1>7, <1>8, <1>9, <1>10, <1>11, <1>12,
           <1>13, <1>14, <1>15, <1>16, <1>17, <1>18, <1>19, <1>20, <1>21, <1>22 DEF SkNext, SendRuns, ConfigRuns

(* The sockets.                                                              *)
LEMMA SockStep ==
  ASSUME SkInv, SkNext
  PROVE  SockInv'
<1> USE DEF SkInv, SkTypeOK, DevTypes, Configs, Ports, ConfigInv, SockInv, Remakes, SendIdle, NoConfig
<1>1. ASSUME NEW s \in SockSenders, send_begin(s) PROVE SockInv'
  BY <1>1 DEF send_begin, devstate, Sends
<1>2. ASSUME NEW s \in SockSenders, send_socket(s) PROVE SockInv'
  <2>1. PICK x \in Sends, y \in Sends :
           /\ x = ssender[s] /\ ssender' = [ssender EXCEPT ![s] = y]
           /\ y.sk = sock
    BY <1>2, SocketEffect
  <2>2. \A t \in SockSenders : ssender'[t] = IF t = s THEN y ELSE ssender[t]
    BY <2>1
  <2>3. UNCHANGED <<sock, sockets, incoming_port, running, creating_net, config>>
    BY <1>2 DEF send_socket, devstate, hoststate
  <2> QED BY <2>1, <2>2, <2>3
<1>3. ASSUME NEW s \in SockSenders, send_confirm(s) PROVE SockInv'
  <2>1. PICK x \in Sends, y \in Sends :
           /\ x = ssender[s] /\ ssender' = [ssender EXCEPT ![s] = y]
           /\ y.sk = x.sk
    BY <1>3, ConfirmEffect
  <2>2. \A t \in SockSenders : ssender'[t] = IF t = s THEN y ELSE ssender[t]
    BY <2>1
  <2>3. UNCHANGED <<sock, sockets, incoming_port, running, creating_net, config>>
    BY <1>3 DEF send_confirm, devstate, hoststate
  <2> QED BY <2>1, <2>2, <2>3
<1>4. ASSUME NEW s \in SockSenders, send_route(s) PROVE SockInv'
  <2>1. PICK x \in Sends, y \in Sends :
           /\ x = ssender[s] /\ ssender' = [ssender EXCEPT ![s] = y]
           /\ y.sk = x.sk
    BY <1>4, RouteEffect
  <2>2. \A t \in SockSenders : ssender'[t] = IF t = s THEN y ELSE ssender[t]
    BY <2>1
  <2>3. UNCHANGED <<sock, sockets, incoming_port, running, creating_net, config>>
    BY <1>4 DEF send_route, devstate, hoststate
  <2> QED BY <2>1, <2>2, <2>3
<1>5. ASSUME NEW s \in SockSenders, dst_cache_set(s) PROVE SockInv'
  BY <1>5 DEF dst_cache_set, devstate, Sends
<1>6. ASSUME NEW s \in SockSenders, udp_tunnel_xmit_skb(s) PROVE SockInv'
  BY <1>6 DEF udp_tunnel_xmit_skb, devstate, Sends
<1>7. ASSUME NEW s \in SockSenders, send_end(s) PROVE SockInv'
  BY <1>7 DEF send_end, devstate, Sends
<1>8. ASSUME set_peer_endpoint PROVE SockInv'
  BY <1>8 DEF set_peer_endpoint, devstate, hoststate
<1>9. ASSUME write_endpoint PROVE SockInv'
  BY <1>9 DEF write_endpoint, devstate, hoststate
<1>10. ASSUME AddressRemoved PROVE SockInv'
  BY <1>10 DEF AddressRemoved, devstate, hoststate
<1>11. ASSUME net_dies PROVE SockInv'
  BY <1>11 DEF net_dies, devstate, hoststate
<1>12. ASSUME wg_open PROVE SockInv'
  BY <1>12 DEF wg_open, Begin, devstate, hoststate
<1>13. ASSUME wg_stop PROVE SockInv'
  BY <1>13 DEF wg_stop, Begin, devstate, hoststate
<1>14. ASSUME set_port PROVE SockInv'
  BY <1>14 DEF set_port, Begin, devstate, hoststate
<1>15. ASSUME set_fwmark PROVE SockInv'
  BY <1>15 DEF set_fwmark, Begin, devstate, hoststate
<1>16. ASSUME wg_netns_exit PROVE SockInv'
  BY <1>16 DEF wg_netns_exit, devstate, hoststate
<1>17. ASSUME clear_peer_endpoint_src PROVE SockInv'
  BY <1>17 DEF clear_peer_endpoint_src, devstate, hoststate
<1>18. ASSUME maybe_get_net PROVE SockInv'
  BY <1>18 DEF maybe_get_net, SocketFails, devstate, hoststate
<1>19. ASSUME udp_sock_create PROVE SockInv'
  <2>1. UNCHANGED <<sock, incoming_port, running, creating_net, ssender>> /\ config.pc = "create"
    BY <1>19 DEF udp_sock_create, SocketFails, devstate
  <2>2. Len(sockets) \in Nat /\ Len(sockets') \in Nat /\ Len(sockets) <= Len(sockets')
        /\ \A i \in 1 .. Len(sockets) : sockets'[i] = sockets[i]
    <3>1. CASE sockets' = sockets
      BY <3>1
    <3>2. CASE \E p : sockets' = Append(sockets, [port |-> p, freed |-> FALSE])
      BY <3>2
    <3> QED BY <1>19, <3>1, <3>2 DEF udp_sock_create, SocketFails, devstate
  <2>3. /\ config'.pc \notin {"sync", "free"}
        /\ config.op \notin {"exit", "stop"}
        /\ config'.op # "none" => config'.op = config.op
    <3>1. config.op \notin {"exit", "stop"}
      BY <2>1
    <3>2. CASE config' = NoConfig
      BY <3>1, <3>2
    <3>3. CASE config' = [config EXCEPT !.retries = @ + 1]
      BY <2>1, <3>1, <3>3
    <3>4. CASE config' = [config EXCEPT !.pc = "swap", !.arg = Len(sockets) + 1]
      BY <3>1, <3>4
    <3> QED BY <1>19, <3>2, <3>3, <3>4 DEF udp_sock_create, SocketFails
  <2> QED BY <2>1, <2>2, <2>3
<1>20. ASSUME swap_sockets PROVE SockInv'
  BY <1>20 DEF swap_sockets, devstate, hoststate
<1>21. ASSUME synchronize_net PROVE SockInv'
  BY <1>21 DEF synchronize_net, devstate, hoststate
<1>22. ASSUME sock_free PROVE SockInv'
  BY <1>22 DEF sock_free, devstate, hoststate
<1> QED BY <1>1, <1>2, <1>3, <1>4, <1>5, <1>6, <1>7, <1>8, <1>9, <1>10, <1>11, <1>12,
           <1>13, <1>14, <1>15, <1>16, <1>17, <1>18, <1>19, <1>20, <1>21, <1>22 DEF SkNext, SendRuns, ConfigRuns

(* Routes.                                                                   *)
LEMMA RouteStep ==
  ASSUME SkInv, SkNext
  PROVE  RouteInv'
<1> USE DEF SkInv, SkTypeOK, PeerTypes, DevTypes, Configs, ConfigInv, RouteInv, CachedRouteCurrent, InSend, Route, NoRoute, SendIdle, NoConfig
<1>1. ASSUME NEW s \in SockSenders, send_begin(s) PROVE RouteInv'
  BY <1>1 DEF send_begin, devstate, hoststate
<1>2. ASSUME NEW s \in SockSenders, send_socket(s) PROVE RouteInv'
  <2>1. PICK x \in Sends, y \in Sends :
           /\ x = ssender[s] /\ ssender' = [ssender EXCEPT ![s] = y]
           /\ x.pc = "sock" /\ y.pc # "idle" /\ y.route.to = x.route.to
           /\ \/ y.route = x.route
              \/ cache.gen = routegen /\ y.route.mark = cache.mark
    BY <1>2, SocketEffect
  <2>2. \A t \in SockSenders : ssender'[t] = IF t = s THEN y ELSE ssender[t]
    BY <2>1
  <2>3. UNCHANGED <<eplock, fwmark, config, endpoint, cache>>
    BY <1>2 DEF send_socket, devstate, hoststate
  <2> QED BY <2>1, <2>2, <2>3
<1>3. ASSUME NEW s \in SockSenders, send_confirm(s) PROVE RouteInv'
  <2>1. PICK x \in Sends, y \in Sends :
           /\ x = ssender[s] /\ ssender' = [ssender EXCEPT ![s] = y]
           /\ x.pc = "confirm" /\ y.pc = "route"
           /\ y.route.to = x.route.to /\ y.route.mark = x.route.mark
           /\ \/ UNCHANGED <<endpoint, cache>>
              \/ cache' = NoRoute /\ endpoint' = [endpoint EXCEPT !.src = 0]
    BY <1>3, ConfirmEffect
  <2>2. \A t \in SockSenders : ssender'[t] = IF t = s THEN y ELSE ssender[t]
    BY <2>1
  <2>3. UNCHANGED <<eplock, fwmark, config>>
    BY <1>3 DEF send_confirm, devstate, hoststate
  <2> QED BY <2>1, <2>2, <2>3
<1>4. ASSUME NEW s \in SockSenders, send_route(s) PROVE RouteInv'
  <2>1. PICK x \in Sends, y \in Sends :
           /\ x = ssender[s] /\ ssender' = [ssender EXCEPT ![s] = y]
           /\ x.pc = "route" /\ y.pc # "idle"
           /\ y.route.to = x.route.to /\ y.route.mark = x.route.mark
           /\ \/ UNCHANGED <<endpoint, cache>>
              \/ cache' = NoRoute /\ endpoint' = [endpoint EXCEPT !.src = 0]
    BY <1>4, RouteEffect
  <2>2. \A t \in SockSenders : ssender'[t] = IF t = s THEN y ELSE ssender[t]
    BY <2>1
  <2>3. UNCHANGED <<eplock, fwmark, config>>
    BY <1>4 DEF send_route, devstate, hoststate
  <2> QED BY <2>1, <2>2, <2>3
<1>5. ASSUME NEW s \in SockSenders, dst_cache_set(s) PROVE RouteInv'
  BY <1>5 DEF dst_cache_set, devstate, hoststate
<1>6. ASSUME NEW s \in SockSenders, udp_tunnel_xmit_skb(s) PROVE RouteInv'
  BY <1>6 DEF udp_tunnel_xmit_skb, devstate, hoststate
<1>7. ASSUME NEW s \in SockSenders, send_end(s) PROVE RouteInv'
  BY <1>7 DEF send_end, devstate, hoststate
<1>8. ASSUME set_peer_endpoint PROVE RouteInv'
  BY <1>8 DEF set_peer_endpoint, devstate, hoststate
<1>9. ASSUME write_endpoint PROVE RouteInv'
  BY <1>9 DEF write_endpoint, devstate, hoststate
<1>10. ASSUME AddressRemoved PROVE RouteInv'
  BY <1>10 DEF AddressRemoved, devstate, hoststate
<1>11. ASSUME net_dies PROVE RouteInv'
  BY <1>11 DEF net_dies, devstate, hoststate
<1>12. ASSUME wg_open PROVE RouteInv'
  BY <1>12 DEF wg_open, Begin, devstate, hoststate
<1>13. ASSUME wg_stop PROVE RouteInv'
  BY <1>13 DEF wg_stop, Begin, devstate, hoststate
<1>14. ASSUME set_port PROVE RouteInv'
  BY <1>14 DEF set_port, Begin, devstate, hoststate
<1>15. ASSUME set_fwmark PROVE RouteInv'
  BY <1>15 DEF set_fwmark, Begin, devstate, hoststate
<1>16. ASSUME wg_netns_exit PROVE RouteInv'
  BY <1>16 DEF wg_netns_exit, devstate, hoststate
<1>17. ASSUME clear_peer_endpoint_src PROVE RouteInv'
  BY <1>17 DEF clear_peer_endpoint_src, devstate, hoststate
<1>18. ASSUME maybe_get_net PROVE RouteInv'
  BY <1>18 DEF maybe_get_net, SocketFails, devstate, hoststate
<1>19. ASSUME udp_sock_create PROVE RouteInv'
  BY <1>19 DEF udp_sock_create, SocketFails, devstate, hoststate
<1>20. ASSUME swap_sockets PROVE RouteInv'
  BY <1>20 DEF swap_sockets, devstate, hoststate
<1>21. ASSUME synchronize_net PROVE RouteInv'
  BY <1>21 DEF synchronize_net, devstate, hoststate
<1>22. ASSUME sock_free PROVE RouteInv'
  BY <1>22 DEF sock_free, devstate, hoststate
<1> QED BY <1>1, <1>2, <1>3, <1>4, <1>5, <1>6, <1>7, <1>8, <1>9, <1>10, <1>11, <1>12,
           <1>13, <1>14, <1>15, <1>16, <1>17, <1>18, <1>19, <1>20, <1>21, <1>22 DEF SkNext, SendRuns, ConfigRuns

(* Source addresses.                                                         *)
LEMMA SourceStep ==
  ASSUME SkInv, SkNext
  PROVE  SourceInv'
<1> USE DEF SkInv, SkTypeOK, PeerTypes, SourceInv, Route, NoRoute, SendIdle
<1>1. ASSUME NEW s \in SockSenders, send_begin(s) PROVE SourceInv'
  BY <1>1 DEF send_begin, devstate, hoststate
<1>2. ASSUME NEW s \in SockSenders, send_socket(s) PROVE SourceInv'
  <2>1. PICK x \in Sends, y \in Sends :
           /\ x = ssender[s] /\ ssender' = [ssender EXCEPT ![s] = y]
           /\ y.had = x.had /\ y.pc # "store"
           /\ \/ y.route = x.route /\ y.pc # "xmit"
              \/ cache.gen = routegen /\ y.route.src = cache.src /\ y.route.gen = cache.gen
    BY <1>2, SocketEffect
  <2>2. \A t \in SockSenders : ssender'[t] = IF t = s THEN y ELSE ssender[t]
    BY <2>1
  <2>3. UNCHANGED <<cache, hostaddr, routegen>>
    BY <1>2 DEF send_socket, devstate, hoststate
  <2> QED BY <2>1, <2>2, <2>3
<1>3. ASSUME NEW s \in SockSenders, send_confirm(s) PROVE SourceInv'
  BY <1>3, ConfirmEffect DEF send_confirm, devstate, hoststate
<1>4. ASSUME NEW s \in SockSenders, send_route(s) PROVE SourceInv'
  <2>1. PICK x \in Sends, y \in Sends :
           /\ x = ssender[s] /\ ssender' = [ssender EXCEPT ![s] = y]
           /\ y.had = x.had
           /\ \/ y.pc = "out" /\ y.route = x.route
              \/ /\ y.pc = "store" /\ y.route.gen = routegen
                 /\ y.route.src = 0 \/ (hostaddr /\ y.route.src = x.route.src)
           /\ \/ UNCHANGED <<endpoint, cache>>
              \/ cache' = NoRoute /\ endpoint' = [endpoint EXCEPT !.src = 0]
    BY <1>4, RouteEffect
  <2>2. \A t \in SockSenders : ssender'[t] = IF t = s THEN y ELSE ssender[t]
    BY <2>1
  <2>3. UNCHANGED <<hostaddr, routegen>>
    BY <1>4 DEF send_route, devstate, hoststate
  <2> QED BY <2>1, <2>2, <2>3
<1>5. ASSUME NEW s \in SockSenders, dst_cache_set(s) PROVE SourceInv'
  BY <1>5 DEF dst_cache_set, devstate, hoststate
<1>6. ASSUME NEW s \in SockSenders, udp_tunnel_xmit_skb(s) PROVE SourceInv'
  BY <1>6 DEF udp_tunnel_xmit_skb, devstate, hoststate
<1>7. ASSUME NEW s \in SockSenders, send_end(s) PROVE SourceInv'
  BY <1>7 DEF send_end, devstate, hoststate
<1>8. ASSUME set_peer_endpoint PROVE SourceInv'
  BY <1>8 DEF set_peer_endpoint, devstate, hoststate
<1>9. ASSUME write_endpoint PROVE SourceInv'
  BY <1>9 DEF write_endpoint, devstate, hoststate
<1>10. ASSUME AddressRemoved PROVE SourceInv'
  <2>1. /\ routegen' = routegen + 1 /\ routegen \in Nat /\ cache.gen \in Nat
        /\ \A s \in SockSenders : Route(s).gen \in Nat
    BY <1>10 DEF AddressRemoved, Routes, Sends
  <2>2. hostaddr /\ UNCHANGED <<cache, ssender>>
    BY <1>10 DEF AddressRemoved
  <2> QED BY <2>1, <2>2
<1>11. ASSUME net_dies PROVE SourceInv'
  BY <1>11 DEF net_dies, devstate, hoststate
<1>12. ASSUME wg_open PROVE SourceInv'
  BY <1>12 DEF wg_open, Begin, devstate, hoststate
<1>13. ASSUME wg_stop PROVE SourceInv'
  BY <1>13 DEF wg_stop, Begin, devstate, hoststate
<1>14. ASSUME set_port PROVE SourceInv'
  BY <1>14 DEF set_port, Begin, devstate, hoststate
<1>15. ASSUME set_fwmark PROVE SourceInv'
  BY <1>15 DEF set_fwmark, Begin, devstate, hoststate
<1>16. ASSUME wg_netns_exit PROVE SourceInv'
  BY <1>16 DEF wg_netns_exit, devstate, hoststate
<1>17. ASSUME clear_peer_endpoint_src PROVE SourceInv'
  BY <1>17 DEF clear_peer_endpoint_src, devstate, hoststate
<1>18. ASSUME maybe_get_net PROVE SourceInv'
  BY <1>18 DEF maybe_get_net, SocketFails, devstate, hoststate
<1>19. ASSUME udp_sock_create PROVE SourceInv'
  BY <1>19 DEF udp_sock_create, SocketFails, devstate, hoststate
<1>20. ASSUME swap_sockets PROVE SourceInv'
  BY <1>20 DEF swap_sockets, devstate, hoststate
<1>21. ASSUME synchronize_net PROVE SourceInv'
  BY <1>21 DEF synchronize_net, devstate, hoststate
<1>22. ASSUME sock_free PROVE SourceInv'
  BY <1>22 DEF sock_free, devstate, hoststate
<1> QED BY <1>1, <1>2, <1>3, <1>4, <1>5, <1>6, <1>7, <1>8, <1>9, <1>10, <1>11, <1>12,
           <1>13, <1>14, <1>15, <1>16, <1>17, <1>18, <1>19, <1>20, <1>21, <1>22 DEF SkNext, SendRuns, ConfigRuns

-------------------------------------------------------------------------------
(* All of it holds initially.                                                *)
LEMMA SkInitially == Places # {} /\ SkInit => SkInv
<1> SUFFICES ASSUME Places # {}, SkInit PROVE SkInv
  OBVIOUS
<1>1. DevTypes
  <2>1. sockets \in Seq([port : SockPorts, freed : BOOLEAN])
    BY EmptySequence DEF SkInit
  <2>2. sock = 0 /\ incoming_port = 0 /\ fwmark = 0
    BY DEF SkInit
  <2>3. sock \in Nat /\ incoming_port \in Ports /\ fwmark \in Int
    BY <2>2 DEF Ports
  <2>4. creating_net \in BOOLEAN /\ net_alive \in BOOLEAN /\ running \in BOOLEAN
    BY DEF SkInit
  <2> QED BY <2>1, <2>3, <2>4 DEF DevTypes
<1>2. PeerTypes
  BY DEF SkInit, PeerTypes, Routes, NoRoute
<1>3. SendIdle \in Sends /\ NoConfig \in Configs
  BY DEF SendIdle, Sends, Routes, NoRoute, NoConfig, Configs, Ports
<1>4. SkTypeOK
  BY <1>1, <1>2, <1>3 DEF SkInit, SkTypeOK
<1>5. ConfigInv /\ SockInv
  BY DEF SkInit, ConfigInv, SockInv, Remakes, NoConfig, SendIdle
<1>6. RouteInv /\ SourceInv
  BY DEF SkInit, RouteInv, SourceInv, CachedRouteCurrent, InSend, Route, SendIdle, NoRoute
<1> QED BY <1>4, <1>5, <1>6 DEF SkInv

(* Every step keeps it.                                                      *)
LEMMA SkStep == SkInv /\ [SkNext]_sk_vars => SkInv'
<1> SUFFICES ASSUME SkInv, [SkNext]_sk_vars PROVE SkInv'
  OBVIOUS
<1>1. CASE SkNext
  BY <1>1, DevStep, PeerStep, SendStep, ConfigTypeStep, ConfigStep, SockStep, RouteStep, SourceStep
     DEF SkInv, SkTypeOK
<1>2. CASE UNCHANGED sk_vars
  <2> USE <1>2 DEF SkInv, sk_vars
  <2>1. SkTypeOK'
    BY DEF SkTypeOK, DevTypes, PeerTypes
  <2>2. ConfigInv'
    BY DEF ConfigInv, Remakes
  <2>3. SockInv'
    BY DEF SockInv
  <2>4. RouteInv'
    BY DEF RouteInv, InSend, Route, CachedRouteCurrent
  <2>5. SourceInv'
    BY DEF SourceInv, Route
  <2> QED BY <2>1, <2>2, <2>3, <2>4, <2>5
<1> QED BY <1>1, <1>2

(* socket.c for any senders, places, ports and numbers of changes: a context  *)
(* that sends never holds a freed socket, an interface that is up has its     *)
(* socket on its port and none after its namespace has gone, and the cached   *)
(* route and the source address that are used are of the endpoint as it is.   *)
THEOREM SocketsCorrect ==
  ASSUME Places # {}
  PROVE  SkSpec => []SocketEndpointsCurrent
<1>1. SkInv => SocketEndpointsCurrent
  <2> SUFFICES ASSUME SkInv PROVE SocketEndpointsCurrent
    OBVIOUS
  <2> USE DEF SkInv
  <2>1. SocketNotFreed
    BY DEF SockInv, SocketNotFreed
  <2>2. SocketMatchesConfig
    BY DEF SockInv, SocketMatchesConfig, NoConfig
  <2>3. CachedRouteCurrent /\ SourceIsLocal
    BY DEF RouteInv, SourceInv, SourceIsLocal
  <2> QED BY <2>1, <2>2, <2>3 DEF SocketEndpointsCurrent
<1>2. SkInit => SkInv
  BY SkInitially
<1> QED BY <1>1, <1>2, SkStep, PTL DEF SkSpec
===============================================================================
