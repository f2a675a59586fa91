----------------------------- MODULE NetdevLife -----------------------------
(***************************************************************************)
(* The life of network devices as net/core/dev.c runs it: allocation,      *)
(* registration with its error labels, opening and closing, renaming,      *)
(* moving to another namespace, unregistration in its two grace periods,   *)
(* and the work done after the RTNL is dropped (netdev_run_todo); the      *)
(* notifier chains, with replay and rollback; and the lockless readers     *)
(* that look a device up under RCU, hold it or lock it.                    *)
(*                                                                         *)
(* One RTNL operation runs at a time (rt); between its grace periods the   *)
(* readers and the finished unregistrations of earlier operations move.    *)
(***************************************************************************)
EXTENDS Integers, Sequences, FiniteSets, SequencesExt

CONSTANTS
    NlDevs,     \* net_device objects; none is reused after it was freed
    SelfFreeing,\* those whose driver sets needs_free_netdev
    Nets,       \* network namespaces
    MaxName,    \* names are 1..MaxName
    MaxIndex,   \* interface indexes are 1..MaxIndex
    Blocks,     \* notifier blocks
    Watchers,   \* contexts that look devices up without the RTNL
    VetoIn,     \* the events a notifier block may answer with an error
    PATTERNS,   \* may a new name be a pattern ("wg%d")?
    MaxOps      \* bound on the RTNL operations of a behaviour

VARIABLES
    nd,      \* the devices
    tab,     \* net->dev_by_index: 0 free, "reserved" or the device
    chain,   \* netdev_chain (0) and net->netdev_chain
    follows, \* the device on whose net_notifier_list a block is
    view,    \* ghost: what the notifications told a block about a device:
             \* "no", "reg", "up", or "missed": a block on the chain whose
             \* refusal, or that of a block before it, was ignored
    rt,      \* the operation that holds the RTNL
    reader,  \* the lockless contexts
    ops      \* ghost: operations begun

nl_vars == <<nd, tab, chain, follows, view, rt, reader, ops>>

NoDev  == "none"
Global == 0
PATTERN == 0   \* a name with "%d" in it
NlNames == 1..MaxName
Indexes == 1..MaxIndex

\* The network namespace initial devices are made in (init_net).
init_net == CHOOSE n \in Nets : \A m \in Nets : n <= m

Unborn == [reg |-> "none", net |-> init_net, name |-> PATTERN, sys |-> PATTERN,
           hash |-> PATTERN, alts |-> {}, index |-> 0, listed |-> FALSE,
           up |-> FALSE, poll |-> TRUE, res |-> {}, tracked |-> FALSE,
           needs_free |-> FALSE, kref |-> 0, todo |-> "no", moving |-> FALSE,
           warned |-> FALSE, twice |-> FALSE, alive |-> FALSE]

IdleRtnl == [op |-> "idle", devs |-> {}, wait |-> {}, net |-> init_net,
             index |-> 0, name |-> PATTERN, old |-> PATTERN, err |-> FALSE]

Init ==
    /\ nd = [d \in NlDevs |-> Unborn]
    /\ tab = [n \in Nets |-> [i \in Indexes |-> NoDev]]
    /\ chain = [c \in Nets \cup {Global} |-> <<>>]
    /\ follows = [b \in Blocks |-> NoDev]
    /\ view = [b \in Blocks |-> [d \in NlDevs |-> "no"]]
    /\ rt = IdleRtnl
    /\ reader = [r \in Watchers |-> [pc |-> "idle", dev |-> NoDev, net |-> init_net]]
    /\ ops = 0

\* What a block that was told v has a reference for.
Knows(v) == v \in {"reg", "up"}

-----------------------------------------------------------------------------
\* Names and indexes.

Listed(net) == {d \in NlDevs : nd[d].listed /\ nd[d].net = net}

\* netdev_name_node_lookup: the name node sits in the bucket of the name it
\* had when it was added and is compared with dev->name.
HasName(d, n) == (nd[d].hash = n /\ nd[d].name = n) \/ n \in nd[d].alts

netdev_name_in_use(net, n) == \E d \in Listed(net) : HasName(d, n)

\* __dev_alloc_name: the first unit no listed device of the net carries.
AllocName(net) ==
    LET taken == UNION {{nd[d].name} \cup nd[d].alts : d \in Listed(net)}
        free  == NlNames \ taken
    IN  {n \in free : \A m \in free : n <= m}

\* dev_prep_valid_name: the names that want may become, none when it fails.
ValidName(net, want) ==
    IF want = PATTERN THEN AllocName(net)
    ELSE {n \in {want} : ~netdev_name_in_use(net, n)}

\* dev_index_reserve; xa_alloc_cyclic may return any free index.
Reserve(net, want) ==
    {i \in Indexes : tab[net][i] = NoDev /\ want \in {0, i}}

-----------------------------------------------------------------------------
\* Notifier chains: the blocks of the net first, then the global ones.

Chain(net) == chain[net] \o chain[Global]

\* The blocks an event reaches when the block veto (or "none") stops it.
Reached(net, veto) ==
    {Chain(net)[i] : i \in {j \in 1..Len(Chain(net)) :
                               \A k \in 1..j : Chain(net)[k] # veto}}

Vetoes(net, event) ==
    {"none"} \cup (IF event \in VetoIn THEN Range(Chain(net)) ELSE {})

Told(v, blocks, devs, what) ==
    [b \in Blocks |-> [d \in NlDevs |->
        IF b \in blocks /\ d \in devs THEN what ELSE v[b][d]]]

Slip_replay_register_only(d) == "reg"

\* call_netdevice_register_notifiers: what one block is told of a device.
Replayed(d) == IF nd[d].up THEN "up" ELSE "reg"

Slip_no_rollback(v, b, devs, refused, before) ==
    [v EXCEPT ![b] = [d \in NlDevs |->
        IF d \in (IF refused = NoDev THEN devs ELSE before)
        THEN Replayed(d) ELSE v[b][d]]]

\* call_netdevice_register_net_notifiers of one or all nets, devs in some
\* order: a device the block refuses takes back those before it.
Replay(v, b, devs, refused, before) ==
    LET met == IF refused = NoDev THEN devs ELSE before
        up  == [v EXCEPT ![b] = [d \in NlDevs |->
                   IF d \in met THEN Replayed(d) ELSE v[b][d]]]
    IN  IF refused = NoDev THEN up ELSE Told(up, {b}, before, "no")

MayRefuse(devs) == {NoDev} \cup (IF "REGISTER" \in VetoIn THEN devs ELSE {})

Unchained(b) == \A c \in DOMAIN chain : b \notin Range(chain[c])

RtnlFree == rt.op = "idle" /\ ops < MaxOps

\* register_netdevice_notifier (c = Global) and its per-net forms; follow is
\* the device of register_netdevice_notifier_dev_net.
register_netdevice_notifier(b, c, follow) ==
    /\ RtnlFree /\ Unchained(b)
    /\ LET devs == IF c = Global THEN UNION {Listed(n) : n \in Nets} ELSE Listed(c)
       IN  \E refused \in MayRefuse(devs) :
           \E before \in SUBSET (devs \ {refused}) :
             /\ refused = NoDev => before = {}
             /\ view' = Replay(view, b, devs, refused, before)
             /\ chain' = IF refused = NoDev
                         THEN [chain EXCEPT ![c] = Append(@, b)] ELSE chain
             /\ follows' = IF refused = NoDev
                           THEN [follows EXCEPT ![b] = follow] ELSE follows
    /\ ops' = ops + 1
    /\ UNCHANGED <<nd, tab, rt, reader>>

Without(s, b) == SelectSeq(s, LAMBDA x : x # b)

\* unregister_netdevice_notifier and its per-net forms: down and unregister
\* events are made up for every device on the list.
unregister_netdevice_notifier(b) ==
    /\ RtnlFree
    /\ \E c \in DOMAIN chain :
         LET devs == IF c = Global THEN UNION {Listed(n) : n \in Nets} ELSE Listed(c)
         IN  /\ b \in Range(chain[c])
             /\ chain' = [chain EXCEPT ![c] = Without(@, b)]
             /\ view' = Told(view, {b}, devs, "no")
    /\ follows' = [follows EXCEPT ![b] = NoDev]
    /\ ops' = ops + 1
    /\ UNCHANGED <<nd, tab, rt, reader>>

-----------------------------------------------------------------------------
\* Allocation, registration and its error labels.

\* alloc_netdev_mqs, and dev_net_set by whoever creates the link; when an
\* allocation in it fails, everything is given back and no device appears.
alloc_netdev_mqs(d, net, name) ==
    /\ nd[d].reg = "none"
    /\ nd' = [nd EXCEPT ![d] = [Unborn EXCEPT !.reg = "uninit", !.name = name,
                                              !.net = net, !.needs_free = d \in SelfFreeing,
                                              !.res = {"priv"}, !.alive = TRUE]]
    /\ UNCHANGED <<tab, chain, follows, view, rt, reader, ops>>

\* Where register_netdevice can fail, what it owns by then, the label it
\* jumps to, and what the code from that label on gives back.
Stages == {"name", "node", "init", "vlan", "pcpu", "index", "post_init", "kobject"}

Owned(stage) ==
    CASE stage \in {"name", "node"} -> {"priv"}
      [] stage = "init"             -> {"priv", "node"}
      [] stage \in {"vlan", "pcpu"} -> {"priv", "node", "init"}
      [] stage = "index"            -> {"priv", "node", "init", "pcpu"}
      [] OTHER                      -> {"priv", "node", "init", "pcpu", "index"}

Slip_label_too_low(stage) ==
    CASE stage \in {"name", "node"} -> "out"
      [] stage = "init"             -> "err_free_name"
      [] stage = "post_init"        -> "err_free_pcpu"
      [] OTHER                      -> "err_uninit"

Label(stage) ==
    CASE stage \in {"name", "node"} -> "out"
      [] stage = "init"             -> "err_free_name"
      [] stage \in {"vlan", "pcpu"} -> "err_uninit"
      [] stage = "index"            -> "err_free_pcpu"
      [] stage = "post_init"        -> "err_ifindex_release"
      [] OTHER                      -> "err_uninit_notify"

GivenBack(label) ==
    CASE label = "out"           -> {}
      [] label = "err_free_name" -> {"node"}
      [] label = "err_uninit"    -> {"node", "init", "priv"}
      [] label = "err_free_pcpu" -> {"node", "init", "priv", "pcpu"}
      [] OTHER                   -> {"node", "init", "priv", "pcpu", "index"}

GiveBack(x, what) == [x EXCEPT !.res = @ \ what, !.twice = @ \/ ~(what \subseteq x.res)]

\* The failing half of register_netdevice: name is what dev_get_valid_name
\* wrote, i the index that was reserved.
register_netdevice_fails(d, name, stage, i) ==
    LET x == GiveBack([nd[d] EXCEPT !.res = Owned(stage)], GivenBack(Label(stage)))
    IN  /\ nd' = [nd EXCEPT ![d] = [x EXCEPT
                    !.name = name,
                    !.reg  = IF stage = "kobject" THEN "unregistered" ELSE "uninit",
                    !.kref = IF stage = "kobject" THEN 1 ELSE 0]]
        /\ tab' = IF "index" \in x.res
                  THEN [tab EXCEPT ![nd[d].net][i] = "reserved"] ELSE tab
        /\ UNCHANGED <<view, rt>>

\* list_netdevice and unlist_netdevice.
list_netdevice(x) == [x EXCEPT !.listed = TRUE, !.hash = x.name]
unlist_netdevice(x) == [x EXCEPT !.listed = FALSE, !.hash = PATTERN]

\* The other half: the device is listed, then the chain is told of it. A
\* refusal unregisters it again, and leaves the free to the caller.
register_netdevice_lists(d, name, i, veto) ==
    LET net == nd[d].net
        x   == [nd[d] EXCEPT !.reg = "registered", !.name = name, !.sys = name,
                             !.index = i, !.tracked = TRUE, !.kref = 1,
                             !.res = {"priv", "node", "init", "pcpu", "kobject"}]
    IN  /\ nd' = [nd EXCEPT ![d] = [list_netdevice(x) EXCEPT
                    !.needs_free = @ /\ veto = "none"]]
        /\ tab' = [tab EXCEPT ![net][i] = d]
        /\ view' = Told(view, Reached(net, veto), {d}, "reg")
        /\ rt' = IF veto = "none" THEN rt
                 ELSE [IdleRtnl EXCEPT !.op = "unregister", !.devs = {d}]

register_netdevice(d, want) ==
    /\ RtnlFree /\ nd[d].reg = "uninit"
    /\ ops' = ops + 1
    /\ LET names == ValidName(nd[d].net, nd[d].name)
       IN  IF names = {}
           THEN register_netdevice_fails(d, nd[d].name, "name", 1)
           ELSE \E name \in names, stage \in Stages \cup {"none"} :
                LET free == Reserve(nd[d].net, want)
                IN  /\ stage # "name"
                    /\ stage = "post_init" =>
                         Vetoes(nd[d].net, "POST_INIT") # {"none"}
                    /\ stage \in {"none", "post_init", "kobject"} => free # {}
                    /\ stage = "index" => free = {}
                    /\ \E i \in free \cup {1} :
                         /\ free # {} => i \in free
                         /\ IF stage # "none"
                            THEN register_netdevice_fails(d, name, stage, i)
                            ELSE \E veto \in Vetoes(nd[d].net, "REGISTER") :
                                   register_netdevice_lists(d, name, i, veto)
    /\ UNCHANGED <<chain, follows, reader>>

-----------------------------------------------------------------------------
\* Opening and closing (netif_open, netif_close).

\* NETDEV_UP, which no block stops.
UpTold(v, d) ==
    [b \in Blocks |-> [e \in NlDevs |->
        IF e = d /\ Knows(v[b][e]) /\ b \in Range(Chain(nd[d].net))
        THEN "up" ELSE v[b][e]]]

\* __dev_open fails when the device is gone, when a block refuses
\* NETDEV_PRE_UP (netpoll then stays disabled) or when the driver does.
netif_open(d) ==
    /\ RtnlFree /\ nd[d].reg = "registered" /\ ~nd[d].up /\ nd[d].poll
    /\ ops' = ops + 1
    /\ \E veto \in Vetoes(nd[d].net, "PRE_UP"), opens \in BOOLEAN :
         /\ nd' = [nd EXCEPT ![d].poll = (veto = "none"),
                             ![d].up   = (veto = "none" /\ opens)]
         /\ view' = IF veto = "none" /\ opens THEN UpTold(view, d) ELSE view
    /\ UNCHANGED <<tab, chain, follows, rt, reader>>

Closed(x) == [x EXCEPT !.up = FALSE]

\* NETDEV_GOING_DOWN and NETDEV_DOWN of the devices of devs that are up.
DownTold(v, devs) ==
    [b \in Blocks |-> [d \in NlDevs |->
        IF d \in devs /\ nd[d].up /\ Knows(v[b][d]) /\ b \in Range(Chain(nd[d].net))
        THEN "reg" ELSE v[b][d]]]

netif_close(d) ==
    /\ RtnlFree /\ nd[d].reg = "registered" /\ nd[d].up
    /\ nd' = [nd EXCEPT ![d] = Closed(@)]
    /\ view' = DownTold(view, {d})
    /\ ops' = ops + 1
    /\ UNCHANGED <<tab, chain, follows, rt, reader>>

-----------------------------------------------------------------------------
\* Renaming (netif_change_name) and alternative names.

InSection == {r \in Watchers : reader[r].pc = "rcu"}

\* synchronize_net waits for the readers that are inside a section now.
GracePeriod == InSection

\* From the label rollback to synchronize_net; device_rename may fail, and
\* then dev->name gets old back.
Rename(d, name, old, newname, err) ==
    \/ /\ nd' = [nd EXCEPT ![d].name = old]
       /\ rt' = IdleRtnl
    \/ /\ nd' = [nd EXCEPT ![d].name = name, ![d].sys = name, ![d].hash = PATTERN,
                         ![d].warned = FALSE]
       /\ rt' = [IdleRtnl EXCEPT !.op = "rename", !.devs = {d}, !.wait = GracePeriod,
                                 !.name = newname, !.old = old, !.err = err]

netif_change_name(d, newname) ==
    /\ RtnlFree /\ nd[d].reg = "registered" /\ nd[d].name # newname
    /\ newname = PATTERN => PATTERNS
    /\ \E name \in ValidName(nd[d].net, newname) :
         Rename(d, name, nd[d].name, newname, FALSE)
    /\ ops' = ops + 1
    /\ UNCHANGED <<tab, chain, follows, view, reader>>

\* After the grace period: the node is added again and the chain is told; a
\* refusal goes round once more with the old name. What is then kept as the
\* name to fall back on is newname as it was passed.
change_name_added(d, veto) ==
    LET added == [nd[d] EXCEPT !.hash = nd[d].name]
    IN  IF veto = "none" \/ rt.err
        THEN /\ nd' = [nd EXCEPT ![d] = added] /\ rt' = IdleRtnl
        ELSE \/ /\ nd' = [nd EXCEPT ![d] = [added EXCEPT !.name = rt.name]]
                /\ rt' = IdleRtnl
             \/ /\ nd' = [nd EXCEPT ![d] = [added EXCEPT !.name = rt.old,
                                                !.sys = rt.old, !.hash = PATTERN]]
                /\ rt' = [rt EXCEPT !.wait = GracePeriod, !.old = rt.name, !.err = TRUE]

netif_change_name_ends ==
    /\ rt.op = "rename" /\ rt.wait = {}
    /\ \E d \in rt.devs : \E veto \in Vetoes(nd[d].net, "CHANGENAME") :
         change_name_added(d, veto)
    /\ UNCHANGED <<tab, chain, follows, view, reader, ops>>

netdev_name_node_alt_create(d, n) ==
    /\ RtnlFree /\ nd[d].reg = "registered"
    /\ ~netdev_name_in_use(nd[d].net, n)
    /\ nd' = [nd EXCEPT ![d].alts = @ \cup {n}]
    /\ ops' = ops + 1
    /\ UNCHANGED <<tab, chain, follows, view, rt, reader>>

netdev_name_node_alt_destroy(d, n) ==
    /\ RtnlFree /\ nd[d].reg = "registered" /\ n \in nd[d].alts
    /\ nd' = [nd EXCEPT ![d].alts = @ \ {n}]
    /\ ops' = ops + 1
    /\ UNCHANGED <<tab, chain, follows, view, rt, reader>>

-----------------------------------------------------------------------------
\* Moving to another namespace (__dev_change_net_namespace).

NlLocked(d) == \E r \in Watchers : reader[r].pc = "locked" /\ reader[r].dev = d

Slip_names_unchecked(net, d, pat) == {nd[d].name}

\* The names a device may carry in the target net; pat is tried only when
\* its own is taken there. None when an alternative name is taken.
NamesIn(net, d, pat) ==
    IF \E n \in nd[d].alts : netdev_name_in_use(net, n) THEN {}
    ELSE IF ~netdev_name_in_use(net, nd[d].name) THEN {nd[d].name}
    ELSE IF pat THEN AllocName(net) ELSE {}

\* The index that was asked for, or none; when none was, the same index if
\* it is free there, otherwise any.
IndexesIn(net, d, want) ==
    IF want # 0 \/ Reserve(net, nd[d].index) # {}
    THEN Reserve(net, IF want # 0 THEN want ELSE nd[d].index)
    ELSE Reserve(net, 0)

\* Checks, reservation, close and unlist; the chain of the old net is left
\* for after the grace period.
dev_change_net_namespace(d, net, pat, new_ifindex) ==
    /\ RtnlFree /\ nd[d].reg = "registered" /\ nd[d].net # net
    /\ \E name \in NamesIn(net, d, pat), i \in IndexesIn(net, d, new_ifindex) :
         /\ tab' = [tab EXCEPT ![net][i] = "reserved", ![nd[d].net][nd[d].index] = NoDev]
         /\ rt' = [IdleRtnl EXCEPT !.op = "lock", !.devs = {d}, !.net = net,
                                   !.index = i, !.name = name]
    /\ view' = DownTold(view, {d})
    /\ nd' = [nd EXCEPT ![d] = unlist_netdevice(Closed(@))]
    /\ ops' = ops + 1
    /\ UNCHANGED <<chain, follows, reader>>

change_net_marks ==
    /\ rt.op = "lock" /\ \A d \in rt.devs : ~NlLocked(d)
    /\ nd' = [d \in NlDevs |-> IF d \in rt.devs THEN [nd[d] EXCEPT !.moving = TRUE]
                               ELSE nd[d]]
    /\ rt' = [rt EXCEPT !.op = "move", !.wait = GracePeriod]
    /\ UNCHANGED <<tab, chain, follows, view, reader, ops>>

\* move_netdevice_notifiers_dev_net: the blocks that follow d leave the old
\* net's chain and join the new one's.
Moved(d, net) == {b \in Blocks : follows[b] = d /\ b \in Range(chain[nd[d].net])}

ChainsMoved(d, net) ==
    [chain EXCEPT ![nd[d].net] = SelectSeq(@, LAMBDA b : b \notin Moved(d, net)),
                  ![net] = @ \o SetToSeq(Moved(d, net))]

\* The followers that refuse a device the new net has: the devices replayed
\* before it are taken back, the error is ignored and the block stays on the
\* chain (ignore_call_fail of __register_netdevice_notifier_net).
Deaf(d, net) ==
    IF "REGISTER" \in VetoIn /\ Listed(net) # {} THEN SUBSET Moved(d, net) ELSE {{}}

Slip_move_forgets_old(v, d, net, deaf) ==
    [b \in Blocks |-> [e \in NlDevs |->
        IF b \notin Moved(d, net) THEN v[b][e]
        ELSE IF e \in Listed(net) THEN (IF b \in deaf THEN "missed" ELSE Replayed(e))
        ELSE v[b][e]]]

ViewsMoved(v, d, net, deaf) ==
    [b \in Blocks |-> [e \in NlDevs |->
        IF b \notin Moved(d, net) THEN v[b][e]
        ELSE IF e \in Listed(net) THEN (IF b \in deaf THEN "missed" ELSE Replayed(e))
        ELSE IF e \in Listed(nd[d].net) THEN "no" ELSE v[b][e]]]

\* The old chain hears NETDEV_UNREGISTER, the followers move, the device is
\* listed in its new net and the chain there hears NETDEV_REGISTER: a block
\* that refuses it (the one at stop) ends the call and nobody looks at the
\* answer. device_rename may fail: WARN_ON, and the name in sysfs is the old.
dev_change_net_namespace_ends ==
    /\ rt.op = "move" /\ rt.wait = {}
    /\ \E d \in rt.devs :
         LET net   == rt.net
             gone  == Told(view, Reached(nd[d].net, "none"), {d}, "no")
             moved == ChainsMoved(d, net)
             all   == moved[net] \o moved[Global]
             stops == (IF "REGISTER" \in VetoIn THEN 1..Len(all) ELSE {})
                      \cup {Len(all) + 1}
         IN  \E deaf \in Deaf(d, net), stop \in stops, renamed \in BOOLEAN :
               /\ chain' = moved
               /\ view' = LET told == Told(ViewsMoved(gone, d, net, deaf), Range(all),
                                           {d}, "missed")
                          IN  Told(told, {all[k] : k \in 1..(stop - 1)}, {d}, "reg")
               /\ nd' = [nd EXCEPT ![d] = list_netdevice([@ EXCEPT
                           !.net = net, !.index = rt.index, !.name = rt.name,
                           !.sys = IF renamed THEN rt.name ELSE @,
                           !.warned = ~renamed, !.moving = FALSE])]
               /\ tab' = [tab EXCEPT ![net][rt.index] = d]
    /\ rt' = [IdleRtnl EXCEPT !.op = "settle", !.wait = GracePeriod]
    /\ UNCHANGED <<follows, reader, ops>>

\* Its last synchronize_net.
change_net_settles ==
    /\ rt.op = "settle" /\ rt.wait = {}
    /\ rt' = IdleRtnl
    /\ UNCHANGED <<nd, tab, chain, follows, view, reader, ops>>

-----------------------------------------------------------------------------
\* Unregistration (unregister_netdevice_many_notify).

unregister_netdevice_many(devs) ==
    /\ RtnlFree /\ devs # {} /\ \A d \in devs : nd[d].reg = "registered"
    /\ rt' = [IdleRtnl EXCEPT !.op = "unregister", !.devs = devs]
    /\ ops' = ops + 1
    /\ UNCHANGED <<nd, tab, chain, follows, view, reader>>

\* The devices are closed and taken off the lists.
unregister_closes ==
    /\ rt.op = "unregister"
    /\ view' = DownTold(view, rt.devs)
    /\ nd' = [d \in NlDevs |-> IF d \in rt.devs THEN unlist_netdevice(Closed(nd[d]))
                               ELSE nd[d]]
    /\ tab' = [n \in Nets |-> [i \in Indexes |->
                  IF tab[n][i] \in rt.devs THEN NoDev ELSE tab[n][i]]]
    /\ rt' = [rt EXCEPT !.op = "state"]
    /\ UNCHANGED <<chain, follows, reader, ops>>

\* NETREG_UNREGISTERING is set under each device's lock; then the first
\* synchronize_net (flush_all_backlogs is module Backlog's).
unregister_marks ==
    /\ rt.op = "state" /\ \A d \in rt.devs : ~NlLocked(d)
    /\ nd' = [d \in NlDevs |-> IF d \in rt.devs
                               THEN [nd[d] EXCEPT !.reg = "unregistering"] ELSE nd[d]]
    /\ rt' = [rt EXCEPT !.op = "notify", !.wait = GracePeriod]
    /\ UNCHANGED <<tab, chain, follows, view, reader, ops>>

Slip_no_wait == TRUE

\* synchronize_net has returned.
Waited == rt.wait = {}

Slip_nobody_told(devs) == view

\* NETDEV_UNREGISTER, which no block stops.
UnregisterTold(devs) ==
    [b \in Blocks |-> [d \in NlDevs |->
        IF d \in devs /\ b \in Reached(nd[d].net, "none") THEN "no" ELSE view[b][d]]]

\* The chain is told; names, driver and kobject go; netdev_unregister_kobject
\* takes a reference for the time until netdev_run_todo.
unregister_notifies ==
    /\ rt.op = "notify" /\ Waited
    /\ view' = UnregisterTold(rt.devs)
    /\ nd' = [d \in NlDevs |->
                IF d \notin rt.devs THEN nd[d]
                ELSE [GiveBack(nd[d], {"node", "init", "kobject"}) EXCEPT
                         !.alts = {}, !.kref = @ + 1]]
    /\ rt' = [rt EXCEPT !.op = "put", !.wait = GracePeriod]
    /\ UNCHANGED <<tab, chain, follows, reader, ops>>

\* netdev_put of the registration's reference, net_set_todo.
unregister_puts ==
    /\ rt.op = "put" /\ Waited
    /\ nd' = [d \in NlDevs |-> IF d \in rt.devs
                               THEN [nd[d] EXCEPT !.tracked = FALSE, !.todo = "listed"]
                               ELSE nd[d]]
    /\ rt' = [rt EXCEPT !.op = "unlock"]
    /\ UNCHANGED <<tab, chain, follows, view, reader, ops>>

-----------------------------------------------------------------------------
\* After the RTNL (netdev_run_todo) and the end (free_netdev).

\* rtnl_unlock takes the list over and drops the lock.
netdev_run_todo ==
    /\ rt.op = "unlock" /\ \A d \in rt.devs : ~NlLocked(d)
    /\ nd' = [d \in NlDevs |-> IF nd[d].todo = "listed"
                               THEN [nd[d] EXCEPT !.reg = "unregistered", !.todo = "run"]
                               ELSE nd[d]]
    /\ rt' = IdleRtnl
    /\ UNCHANGED <<tab, chain, follows, view, reader, ops>>

Slip_refs_ignored(d) == 1

\* netdev_refcnt_read: the device's own, the registration's, those of blocks
\* that were told of the device and of readers that hold it.
netdev_refcnt_read(d) ==
    1 + (IF nd[d].tracked THEN 1 ELSE 0)
      + Cardinality({b \in Blocks : Knows(view[b][d])})
      + Cardinality({r \in Watchers : reader[r].pc = "held" /\ reader[r].dev = d})

KrefPut(x, n) == [x EXCEPT !.kref = @ - n, !.alive = (x.kref > n)]

\* free_netdev of a device that was registered once.
Released(x) == KrefPut([x EXCEPT !.reg = "released"], 1)

\* netdev_wait_allrefs_any has found d with one reference. (What it
\* broadcasts again while it waits tells the blocks nothing new.)
run_todo_frees(d) ==
    /\ nd[d].todo = "run" /\ netdev_refcnt_read(d) = 1
    /\ LET x == [GiveBack(nd[d], {"pcpu", "priv"}) EXCEPT !.todo = "done"]
       IN  nd' = [nd EXCEPT ![d] = KrefPut(IF x.needs_free THEN Released(x) ELSE x, 1)]
    /\ UNCHANGED <<tab, chain, follows, view, rt, reader, ops>>

\* The driver's free: at once if the device never was registered, left to
\* netdev_run_todo while it is being unregistered under this RTNL, otherwise
\* after its unregistration has returned.
free_netdev(d) ==
    /\ \/ /\ nd[d].reg = "uninit"
          /\ nd' = [nd EXCEPT ![d] = [@ EXCEPT !.alive = FALSE, !.reg = "released"]]
       \/ /\ nd[d].reg = "unregistering" /\ rt.op = "unlock" /\ d \in rt.devs
          /\ ~nd[d].needs_free
          /\ nd' = [nd EXCEPT ![d].needs_free = TRUE]
       \/ /\ nd[d].reg = "unregistered" /\ nd[d].todo \in {"no", "done"}
          /\ nd' = [nd EXCEPT ![d] = Released(@)]
    /\ UNCHANGED <<tab, chain, follows, view, rt, reader, ops>>

-----------------------------------------------------------------------------
\* Lockless readers.

\* dev_get_by_index_rcu / dev_get_by_name_rcu inside rcu_read_lock.
dev_get_rcu(r, d) ==
    /\ reader[r].pc = "idle" /\ nd[d].listed
    /\ reader' = [reader EXCEPT ![r] = [pc |-> "rcu", dev |-> d, net |-> nd[d].net]]
    /\ UNCHANGED <<nd, tab, chain, follows, view, rt, ops>>

\* rcu_read_unlock, with dev_hold before it or without.
rcu_read_unlock(r, hold) ==
    /\ reader[r].pc = "rcu"
    /\ reader' = [reader EXCEPT ![r].pc = IF hold THEN "held" ELSE "idle"]
    /\ rt' = [rt EXCEPT !.wait = @ \ {r}]
    /\ UNCHANGED <<nd, tab, chain, follows, view, ops>>

dev_put(r) ==
    /\ reader[r].pc = "held"
    /\ reader' = [reader EXCEPT ![r].pc = "idle"]
    /\ UNCHANGED <<nd, tab, chain, follows, view, rt, ops>>

Slip_any_state(d, net) == TRUE

\* netdev_put_lock: is the device still what was looked up?
StillThere(d, net) == nd[d].reg = "registered" /\ ~nd[d].moving /\ nd[d].net = net

netdev_put_lock(r) ==
    /\ reader[r].pc = "held" /\ ~NlLocked(reader[r].dev)
    /\ reader' = [reader EXCEPT ![r].pc =
                    IF StillThere(reader[r].dev, reader[r].net) THEN "locked" ELSE "idle"]
    /\ UNCHANGED <<nd, tab, chain, follows, view, rt, ops>>

netdev_unlock(r) ==
    /\ reader[r].pc = "locked"
    /\ reader' = [reader EXCEPT ![r].pc = "idle"]
    /\ UNCHANGED <<nd, tab, chain, follows, view, rt, ops>>

-----------------------------------------------------------------------------
Next ==
    \/ \E d \in NlDevs :
         \/ \E net \in Nets, n \in NlNames : alloc_netdev_mqs(d, net, n)
         \/ \E i \in {0} \cup Indexes : register_netdevice(d, i)
         \/ netif_open(d) \/ netif_close(d)
         \/ \E n \in NlNames \cup {PATTERN} : netif_change_name(d, n)
         \/ \E n \in NlNames : \/ netdev_name_node_alt_create(d, n)
                               \/ netdev_name_node_alt_destroy(d, n)
         \/ \E n \in Nets, pat \in BOOLEAN, i \in {0} \cup Indexes :
              dev_change_net_namespace(d, n, pat, i)
         \/ run_todo_frees(d) \/ free_netdev(d)
    \/ \E b \in Blocks :
         \/ \E c \in DOMAIN chain : register_netdevice_notifier(b, c, NoDev)
         \/ \E d \in NlDevs : /\ nd[d].reg = "registered"
                              /\ register_netdevice_notifier(b, nd[d].net, d)
         \/ unregister_netdevice_notifier(b)
    \/ \E devs \in SUBSET NlDevs : unregister_netdevice_many(devs)
    \/ netif_change_name_ends
    \/ change_net_marks \/ dev_change_net_namespace_ends \/ change_net_settles
    \/ unregister_closes \/ unregister_marks \/ unregister_notifies
    \/ unregister_puts \/ netdev_run_todo
    \/ \E r \in Watchers :
         \/ \E d \in NlDevs : dev_get_rcu(r, d)
         \/ \E hold \in BOOLEAN : rcu_read_unlock(r, hold)
         \/ dev_put(r) \/ netdev_put_lock(r) \/ netdev_unlock(r)

Spec == Init /\ [][Next]_nl_vars

\* The holder of the RTNL goes on, and then runs the todo list, which polls the
\* reference count; readers end.
RtnlStep ==
    \/ netif_change_name_ends
    \/ change_net_marks \/ dev_change_net_namespace_ends \/ change_net_settles
    \/ unregister_closes \/ unregister_marks \/ unregister_notifies \/ unregister_puts
    \/ netdev_run_todo \/ \E d \in NlDevs : run_todo_frees(d)

ReaderStep(r) ==
    dev_put(r) \/ netdev_unlock(r) \/ \E hold \in BOOLEAN : rcu_read_unlock(r, hold)

Fairness == WF_nl_vars(RtnlStep) /\ \A r \in Watchers : WF_nl_vars(ReaderStep(r))

-----------------------------------------------------------------------------
\* What a block should know of a device.
TrueView(b, d) ==
    LET covers == b \in Range(Chain(nd[d].net))
    IN  IF ~covers \/ ~nd[d].listed THEN "no"
        ELSE IF nd[d].up THEN "up" ELSE "reg"

(* Race free view (register_netdevice_notifier): whenever no operation is   *)
(* under way, what a block has been told matches the devices on the lists  *)
(* it covers, whatever registrations, refusals, rollbacks, moves and        *)
(* closes came before, and a block on no chain believes in no device. The   *)
(* exception is what a move does not look at: a block that refused a        *)
(* device there (or came after the one that did) stays on the chain and     *)
(* knows nothing of that device, until the device or the block is gone.    *)
ViewsAgree ==
    rt.op = "idle" =>
        \A b \in Blocks, d \in NlDevs :
            \/ view[b][d] = TrueView(b, d)
            \/ view[b][d] = "missed" /\ TrueView(b, d) # "no"

(* Whenever no operation is under way the tables agree with the devices:   *)
(* a device on the list is found under its name and its index and in sysfs *)
(* (unless device_rename failed in a move, which only warns), no two        *)
(* devices of a net share a name, and no index stays reserved by a         *)
(* registration or a move that failed.                                     *)
TablesAgree ==
    rt.op = "idle" =>
        /\ \A n \in Nets, i \in Indexes : \A d \in NlDevs :
             tab[n][i] = d <=> nd[d].listed /\ nd[d].net = n /\ nd[d].index = i
        /\ \A n \in Nets, i \in Indexes : tab[n][i] # "reserved"
        /\ \A n \in Nets : \A d \in Listed(n) :
             /\ nd[d].hash = nd[d].name /\ (nd[d].warned \/ nd[d].sys = nd[d].name)
             /\ \A e \in Listed(n) \ {d} :
                  ({nd[d].name} \cup nd[d].alts) \cap ({nd[e].name} \cup nd[e].alts) = {}

(* Every resource of a registration is given back exactly once, on every    *)
(* error label and on the long way through netdev_run_todo; the driver's   *)
(* own part (priv_destructor) is left only when registration failed early. *)
NothingLeaks ==
    \A d \in NlDevs :
        /\ ~nd[d].twice /\ nd[d].kref >= 0
        /\ nd[d].reg # "none" /\ ~nd[d].alive => nd[d].res \subseteq {"priv"}

(* Nobody is left with a freed device: a reader that holds or locks one,    *)
(* and a notifier block that was told of one, find its memory there; a      *)
(* reader still inside its RCU section finds the driver's state there too; *)
(* a locked device is a registered one.                                    *)
UsersFindItAlive ==
    /\ \A r \in Watchers : LET d == reader[r].dev IN
         /\ reader[r].pc \in {"rcu", "held", "locked"} => nd[d].alive
         /\ reader[r].pc = "rcu" => "init" \in nd[d].res
         /\ reader[r].pc = "locked" => nd[d].reg = "registered"
    /\ \A b \in Blocks, d \in NlDevs : Knows(view[b][d]) => nd[d].alive

(* Unregistration ends: a device being unregistered is let go of by every   *)
(* block and reader and reaches the end of netdev_run_todo.                *)
UnregistrationEnds ==
    \A d \in NlDevs : []<>(nd[d].reg # "unregistering" /\ nd[d].todo \in {"no", "done"})
=============================================================================
