# WireGuard's receive path: a TLA+ development

The repository studies how the WireGuard kernel module wakes the poll that
delivers decrypted packets, and carries an experimental build of it
(`build/wg515-trigger`) beside the unmodified one (`build/wg515-pristine`) and the
kernel it runs on (`linux-source`). This directory specifies the module and the
kernel services it leans on in TLA+, model-checks them with TLC on small
instances, and proves central facts with TLAPS for all instances. The
unmodified receive path is the same model with every knob at 0.

## 1. The system

### 1.1 Parts, state and interaction

| Part | State | Operations | Talks to | Module |
|---|---|---|---|---|
| Data receive (`receive.c`, `queueing.h`) | `PACKET_CB(skb)->state`, decrypt ring, per-CPU works | `wg_packet_consume_data`, decrypt workers, `wg_queue_enqueue_per_peer_rx` | peer's `rx_queue`, NAPI | `RxPath` |
| Poll (`wg_packet_rx_poll`) | `rx_queue.peeked`, locals | deliver, steal, park, complete | NAPI, `rx_queue`, ring | `RxPath`, `Napi` |
| Wake policies (knobs of `main.c`) | `wg_headwake`, `wg_supp`, `wg_trig_k`, `wg_steal`; `rx_blocked_on`, `rx_ready` | read at every completion and poll | workers and poll | `RxPath` |
| Coalesce timer | `rx_timer_armed`, the hrtimer | start, try_to_cancel, expire, cancel | workers, NAPI, removal | `RxPath`, `RxTeardown` |
| `prev_queue` (`queueing.c`) | `head`, `tail`, `count`, `peeked`, intrusive links | enqueue (many), dequeue and peek (one) | producers, poll | `PrevQueue`, `PrevQueueSpec` |
| Replay counter (`counter_validate`) | counter and bitmap | validate | poll | `ReplayCounter` |
| Peer removal (`peer.c`) | `is_dead`, references | make dead, grace period, two flushes, cancel, disable, put | all of the above | `RxTeardown`, `TxPath` |
| Noise handshake, keypairs, protocol timers | handshake state, three slots, five timers | create, consume, rotate, expire | receive, send, network | `Noise`, `Session` |
| Hash tables (`peerlookup.c`) | chains, indices | insert, replace, remove, lookup under RCU | Noise, receive | `PeerLookup` |
| Handshake queue, cookies, rate limiter | ring and `handshake_queue_len`; secrets and cookies; token buckets | enqueue, under-load decision, MAC checks, allow, collect | receive, Noise | `HandshakeQueue`, `Cookie`, `RateLimiter` |
| Allowed IPs | trie | insert, remove, lookup under RCU | netlink, send, receive | `AllowedIps` |
| Send path (`send.c`) | staged queue, nonces, encrypt ring, `tx_queue`, references | xmit, keepalive, encrypt, transmit, removal | Noise, sockets | `TxPath` |
| Sockets and endpoints (`socket.c`) | socket, endpoint, cached route | send, learn, reconfigure | send path, device | `WgSocket` |
| Device and netlink (`device.c`, `netlink.c`) | resources, peers, keys, dump cursors | newlink, set, dump, destruct | all | `Device` |
| NAPI, backlog, device registration (`net/core/dev.c`) | state word, poll lists; per-CPU queues; tables and notifier chains | schedule, poll, disable, switch; steer, IPI, hotplug; register, rename, move, unregister | drivers, WireGuard | `NapiDev`, `Backlog`, `NetdevLife` |
| Workqueues (`kernel/workqueue.c`) | pools, colours, PENDING, active counts, pwqs | queue, run, flush, drain, cancel, disable, freeze, change attributes | WireGuard's works | `WqPool`, `WqFlush`, `WqCancel`, `WqActive`, `WqPwq` |
| io-wq (`io_uring/io-wq.c`) | work lists, hash map, workers | enqueue, take, cancel, create, exit | io_uring | `IoWqHash`, `IoWqPool` |

A data packet takes this way. A softirq (*producer*) looks the keypair up, marks
the packet `UNCRYPTED`, appends it to its peer's `rx_queue` and then to the
device's decrypt ring, and kicks a per-CPU work. A *worker* takes packets off the
ring, decrypts, stores the new state and wakes the peer's NAPI instance,
according to the knobs. A *CPU* running `net_rx_action` polls the instance: it
delivers packets in queue order until the head is `UNCRYPTED` or missing, and
then goes to sleep with `napi_complete_done`. Sending mirrors this: contexts stage
packets, take them all, number them from the keypair's counter and put them into
`tx_queue` and the encrypt ring; workers encrypt in any order; one transmit work
sends in queue order.

The hard part is the going to sleep. Packets complete in any order, so most wakes
find an `UNCRYPTED` head; the knobs suppress such wakes from both sides, and each
suppression may swallow the one wake that mattered.

### 1.2 What makes each part correct

* Wake policies: no instance sleeps on a deliverable head without a wake on its
  way (`NoLostWake`); a parked poll is parked on its real head (`ParkedOnHead`);
  every accepted packet leaves (`EveryPacketLeaves`). NAPI gives each queue one
  consumer (`SingleConsumer`), packets have one completion (`OneCompletionOwed`).
* `prev_queue`: a FIFO whatever the interleaving (`ImplementsFifo`), complete
  (`NullOnlyOnGap`, `EveryPacketTaken`), bounded (`CountExact`).
* Replay window: no replay, no false reject (`VerdictIsExact`).
* Removal: nothing freed in use (`NoUseAfterRelease`), the timer stays off
  (`TimerStaysCancelled`), nothing left behind (`NothingLeftWithoutTrigger`;
  `NoReferencesLeft` is the statement without its conditions), it ends.
* Sessions: both ends agree on keys (`SessionKeysAgree`), no slot goes back to an
  older key (`SessionKeysMoveForward`), staged packets go.
* Around them: who is let in and at what rate (`CookieProvesAddress`,
  `LimiterRateBounded`, `HandshakeLengthDrift`), what a lookup finds while the
  structure changes (`LookupFindsExactly`, `RoutesLongestPrefix`), order, nonces
  and references of what is sent (`SendingOrderAndReferences`), sockets and
  configuration (`SocketEndpointsCurrent`, `InterfaceConsistent`).
* Kernel services: what WireGuard takes from workqueues and NAPI (one executor,
  nothing stranded, flush waits for what came before, cancel leaves the work
  idle) and the same for the backlog, device tables and io-wq.

`PROJECT.json` lists the hazards behind these properties line by line.

## 2. Modules

Components are one module each, parameterised by CONSTANTS. `RxTeardown` EXTENDS
`RxPath`, which EXTENDS `Napi`; `Session` EXTENDS `Noise`; `PrevQueue` INSTANCEs
`PrevQueueSpec` for its refinement. The other components share no state that a
property relates, and are composed by contract: what one promises is what the
model of the other assumes (the FIFO with a gap in `RxPath` and `TxPath` is the
promise of `PrevQueueSpec`, with what `NullOnlyOnGap` says of a gap behind the
head; the flushes in `RxTeardown` and `TxPath` are what
`WqFlush` guarantees; the instance in `Napi` is that of `NapiDev` without kthread
and busy polling).

MC modules give the instances: `MCRxPath` and `MCRxTeardown` for the receive path;
`MCWireGuard`, `MCKernel` and `MCLive` hold several components side by side, of
which the initial state picks the one that runs (the variable `part`), the others
being inert. The components theorems are about are extended (`ReplayCounter`,
`HandshakeQueue`, `PeerLookup`, `TxPath` and `WgSocket` by `MCWireGuard`, `NapiDev`
by `MCKernel`, `PrevQueue` by `MCLive`): the run checks the very definition the
theorem states, with the cfg's constants. The others are instances. A state of
such a run is a state of one component; the runs are unions, not compositions. `MCIoWqTail` is the instance of one finding.

Steps of a component carry the name of the function they translate, or of the
atomic access inside it. A section under a lock is one step where nobody can look
in between, and several where readers walk under RCU or the lock is dropped.
`Slip_...` definitions next to an action are its mutants: the mistake a property
is there to catch, each listed with its property in `PROJECT.json`.

### 2.1 RxPath

The variables are the fields of `struct wg_peer`, the packet states, the ring, the
pending works, the poll lists, and for every actor (producer, worker, CPU) a
program counter `pc` and the packet in hand `skb`. A step is what a CPU does
between two accesses to state another CPU can see. The steps of a function carry
the function's name or the name of the atomic operation they stand for:

* `wg_packet_consume_data`: `consume_data_drop`, `consume_data`,
  `prev_queue_enqueue` (the xchg), `prev_queue_link` (the store), `ring_produce`,
  `queue_work`.
* `wg_packet_decrypt_worker`: `worker_start`, `worker_consume`.
* `wg_queue_enqueue_per_peer_rx`: `set_state`, `gate`, `wake`, `inc_ready`,
  `disarm`, `cancel_timer`, `arm`, `hrtimer_start`. Workers run it, stealing
  polls, and producers that found the ring full.
* `wg_rx_coalesce_timer`: `timer_expire`, `timer_clear`, `timer_wake`.
* `wg_packet_rx_poll`: `net_rx_action` enters it; `rx_poll_deliver`,
  `rx_poll_blocked`, the steal pass `rx_poll_steal`/`_pull`/`_stolen`,
  `rx_poll_finish`, wg_headwake's `rx_poll_publish`/`_recheck`, wg_supp's
  `rx_poll_supp`/`_clear_missed`/`_supp_recheck`, `rx_poll_complete`; `__napi_poll`
  ends an exhausted one in `napi_poll_exhausted`.
* `param_set`: a write to a module parameter (those named in `LiveTune`).

Abstractions. Memory is sequentially consistent: the code puts `smp_mb()` between
the store and the load of both Dekker pairs (`queueing.h` 247, `receive.c` 686 and
716), and all other shared state is changed by atomics. The `rx_queue` is a
sequence whose dequeue may return NULL whenever one of its first two packets is
not linked yet, which is what `PrevQueue` shows of the pointers. What decryption,
`counter_validate` and the endpoint check decide is free choice (`Faults`); once
accepted, a packet is `DELIVERED` when it is handed to
`wg_packet_consume_data_done`, which consumes it in every case. CPUs other than
the chosen one may run a work item: `last_cpu` is racy by design. The diagnostic
counters and the injected decrypt delay are left out.

### 2.2 RxTeardown

Adds the thread in `wg_peer_remove` / `wg_peer_remove_all`. `synchronize_net`
waits for every softirq context that was busy when it began, `flush_workqueue`
for the works then queued or running. `PacketRefs` counts the references packets
hold on the peer, `Released` is the state in which `kref_release` has run: the
reference `wg_queue_enqueue_per_peer_rx` holds while it completes a packet is part
of it (`CompletionRefs`), not a step. The history `overran` records that a poll has
used up its budget while `napi_disable` waited for its instance. The flush of
`handshake_send_wq` at the end touches nothing of the receive path and is left out.

### 2.3 PrevQueue, PrevQueueSpec and ReplayCounter

`PrevQueue` has one step per memory access of `wg_prev_queue_enqueue` and
`wg_prev_queue_dequeue`. Freed packets come back as new ones at once, so stale
links are real. The history variable `fifo` holds the packets placed and not yet
taken; it is the refinement mapping to `PrevQueueSpec`, and `gap` records whether
during a call the queue looked empty or unlinked. In `ReplayCounter` word size,
number of words and integer width are parameters, and u64 arithmetic wraps; the
spinlock makes a call one step, and `accepted` is a history variable.

### 2.4 Noise and Session

Two devices, each the other's only peer. Cryptography is symbolic (`Noise`): a
hash, key or ciphertext is the term it is computed from. `struct wg_peer` is a
record; every function of `noise.c`, `timers.c`, `send.c` and `receive.c` on it is
an operator from record to record, and handshake workers are split where the code
drops the handshake lock. Each device has a receive worker per CPU, and the send
worker runs at any time; the budget `overlaps` says how often a receive worker may
take a message while another is at work. Time is in ticks and ages stop growing once no test can
tell them apart; jitter is left out.

### 2.5 The rest of WireGuard

`PeerLookup` and `AllowedIps` keep the links as they are in memory, because a
reader under RCU follows them one per step while writers change them; `AllowedIps`
carries the reference list of the selftest beside the trie, and a lookup that finds
its peer gone starts again at the root it was called with, which may have been
replaced. `HandshakeQueue` keeps `handshake_queue_len` apart from the ring, as the
code does: `wg_stop` takes the messages out one by one and then sets it to zero, and
a cookie reply is consumed before the load is looked at. `Cookie` has both sides of
the exchange: the responder's workers read the age of the secret without the lock
and renew it under it, the initiator's send worker notes the first MAC and makes the
second in two sections, and whoever opens a reply decrypts and stores in two. The
network may lose a message, deliver it ticks late or twice, or from another address.
`RateLimiter` splits `allow` where it holds no lock and reads the collector's clock
once, u64 wrap included; `meter` is a token bucket by definition, which the code's
table is compared with. `TxPath` has the nonce counter, the two queues, the transmit
work, keypair and peer references (the one an encrypt worker takes before it stores
a list's state and puts after it has queued the transmit work included), and the
removal's two flushes. A place in `tx_queue` is taken before it is linked, and the
transmit work stops at an unlinked head and, as `wg_prev_queue_dequeue` may, at a
linked one with a gap behind it. `WgSocket` has the replacement of
sockets under RCU and the endpoint's cached route. `Device` has every error label
of `wg_newlink`, sets and clears the private key, and numbers objects so that a
stale dump cursor can be told from a fresh one. A message of a dump has room for its
first peer (a fresh skb has), so the -EMSGSIZE exits before it are not taken.

### 2.6 Kernel services

`NapiDev` is one NAPI instance with all its contenders: interrupts, timer,
softirq, kthread, busy poller, enable, disable, switch. `Backlog` is
`netif_rx` with flow steering, the RPS map, the flow limit, IPIs and hotplug; the
flow's entry in the socket flow table may be another flow's (`want` is 0), and then
its packets are not steered. `NetdevLife` is the life of devices with notifier
chains, vetoes and rollbacks; a block may follow a device into another namespace,
and refuse what it finds there. The workqueue modules each take one
protocol of `kernel/workqueue.c`: the pool with its manager and rescuer
(`WqPool`; `too_many_workers` counts the manager among the idle workers, and the
runs keep one idle worker where the code keeps two, so that culling happens with two
workers), flush colours and draining (`WqFlush`), the PENDING bit between
queuers, timers, workers and cancellers (`WqCancel`), active limits and ordered
workqueues (`WqActive`), pool_workqueues and their references, those of calls for the rescuer included
(`WqPwq`). `IoWqHash`
and `IoWqPool` do the same for io-wq's hashed work and its threads.

## 3. Runs

| Run | Instance | Shows |
|---|---|---|
| `rx_wake_policies` | 1 peer, 3 packets, 2 producers, 2 workers, 2 CPUs, queue and ring of 2, budget 2, all faults; stock, headwake, supp, both | `TypeOK`, `SingleConsumer`, `OneCompletionOwed`, `NoLostWake`, `ParkedOnHead` |
| `rx_trigger_and_steal` | 2 peers, 5 packets (4 of one peer), 1 producer, **1** worker, 1 CPU; trigger with a batch of 2, or steal with supp | `OneCompletionOwed`, `NoLostWake` |
| `rx_liveness` | 2 packets, 2 producers, 2 workers, 1 CPU, ring and budget 1; policies with and without steal | `EveryPacketLeaves` |
| `teardown` | 1 peer, 2 packets, 1 producer, 2 workers, 2 CPUs, ring 1, budget 2; stock, fix or trigger | `NothingLeftWithoutTrigger`, `NoUseAfterRelease`, `TimerStaysCancelled`, `RemovalEnds` |
| `wireguard_parts` | the parts of `MCWireGuard`, see below | the properties named after each part |
| `kernel_parts` | the parts of `MCKernel` | the properties named after each part |
| `parts_live` | the parts of `MCLive`, under fairness | `prev_queue`'s properties, `WireGuardProgress`, `KernelProgress` |
| `rx_trigger_race` | 4 packets, 2 workers, trigger | *violates* `NoLostWake` |
| `rx_headwake_tune` | 2 packets, `wg_headwake` rewritten | *violates* `NoLostWake` |
| `teardown_trigger` | 2 packets, trigger | *violates* `NoReferencesLeft` |
| `iowq_tail` | one worker, two works of bucket 0 and an unhashed one | *violates* `BucketZeroTogether` |
| `napi_threaded_down` | one instance switched while disabled | *violates* `AdminReturns` |

`wireguard_parts`: the replay window with four words of two bits and counters up
to the end of their range; a session of two devices with one data packet and
duplicated messages, either with a device reset and two ticks of time and one
message handled at a time, or with one tick and two receive workers on each device;
the limiter with one source, two CPUs, a table of two, a burst and a second of two
units, and time for an entry to be used, expire, be collected and be made again;
cookies with two addresses and two responder workers, a tick that finds messages
under way, and besides it a repeated message, or one diverted and a roam, or one
lost and a change of load; three handshake messages through a ring of two with one
`wg_stop`; two peers and a keypair in one bucket; addresses of two bits with three
writes and a lookup; two sending contexts with a ring of one and keys that end after
one message; two sending contexts and a socket replaced twice, on one port besides
0; three keys of which two may be peers, three commands and a dump in pieces. The
contexts of the limiter, cookies, queue, sending and socket parts are
interchangeable model values, and TLC explores one of each symmetric pair of states
(`Symmetry`).
Each merged property is the conjunction of the component's own:

* `SessionKeysAgree`: `TypeOK`, `TableMatchesSlots`, `CurrentIsShared`, `KeysAgree`.
  `CurrentIsShared` (a current key in use is one the other end derived too) is
  stated while each end handles one handshake message at a time, see 3.2.
  `SessionKeysMoveForward` is about the current slot; two indices per device do not
  reach data that is delayed over two rekeys.
* `LimiterRateBounded`: `RateBounded`, `EntriesCounted`. The reference bucket of
  `RateBounded` runs through collections; three races may add to it, each by a
  stated amount: a burst and a packet for an entry made while there is another, a
  burst for an entry that the collector takes although it was used since its clock
  was read, a packet for a worker that pays from an entry unlinked since it was found.
* `CookieProvesAddress`: `ProvenOrRefused` (a handshake is taken up under load only
  from an address that was sent a cookie made with the very secret it is checked
  with) and `NoOldReply` (a reply to a message sent before the cookie the initiator
  holds is not opened).
* `LookupFindsExactly`: `StableEntryFound`, `IndexUnique`, `FoundWasThere`.
* `RoutesLongestPrefix`: `LongestPrefixWins`, `TrieWellFormed`, `LookupSound`.
* `SendingOrderAndReferences`: `NoncesAreFresh`, `SentInQueueOrder`,
  `TwoFlushesSuffice`, `ReferencesBalance`.
* `SocketEndpointsCurrent`: `SocketNotFreed`, `SocketMatchesConfig`,
  `CachedRouteCurrent`, `SourceIsLocal`.
* `InterfaceConsistent`: `NothingLeaks`, `NotItsOwnPeer`, `DumpIsCoherent`,
  `CursorsAlive`.

`kernel_parts`: a pool of two workers with a hotplug, and two pools with a work
queued on either; three flushers, one of which drains, with three colours; a work
queued on two pools and called on by three threads; two pwqs sharing `max_active`
with two changes, so that it is frozen and thawed or a CPU goes and comes back, and an
ordered workqueue that gets a new pwq; pwqs replaced by one update and a hotplug, with
a call for the rescuer; two io-wqs sharing a hash map; an io-wq pool of three threads
with creations that fail; a NAPI instance switched between modes; a backlog of two
CPUs whose flow is steered, not steered, or changes from one to the other; two
devices in two namespaces with a vetoing notifier and a reader (`netdev`, three
operations) and the same without readers and with five operations, enough for a
block to follow a device into a namespace that has one, to refuse it, and for what
comes after (`followers`).

Why the bounds are enough to be interesting. Three packets through a queue of two
give a head, a packet behind it and one that finds the queue full; two workers
complete them in either order; two CPUs and two producers give every pair of
racing parties that the protocol has, including a packet being linked while its
predecessor is delivered. A budget of 1 or 2 makes polls run out of budget, a ring
of 1 makes it overflow. A `prev_queue` of at most two packets with a third that
finds it full reaches every branch of dequeue with both stub positions. The other
instances have, for each race, both parties and one object more than fits.
Every action of every component fires in a passing run. Deadlock is not checked
where the system may fall silent: all packets handled, all calls returned.

Fairness (`FairSpec`, `RmFairSpec`, `LiveSpec`): softirqs, timers and runnable works
run, a task that waits for nothing runs, a work's function ends, a contended mutex
is handed on (strong fairness, as the kernel's mutexes do). `MCLive` gives each
context of the part that runs (`Context`) weak fairness and each waiter for a mutex
(`LockTaker`) strong fairness. Its bound `SecondSenderBounds` keeps the sending part
small: the second sender starts when the first is about to take its place in
`tx_queue`, which is where gaps come from, and the removal comes with one packet. What
the outside does
(packets arriving, commands, hotplug, loss) is not fair. Taking an instance off a
poll list is strongly fair because the lists are FIFO: the model keeps them as
sets, and an instance on the list is served after finitely many others.

### 3.1 Disagreements found

1. `rx_trigger_race`. In `wg_queue_enqueue_per_peer_rx` a worker that reached the
   batch threshold clears `rx_timer_armed` and cancels the timer in two steps. In
   between the old timer may fire and another worker may arm and start a new one;
   the late cancel removes the new timer and leaves `rx_timer_armed` set. Later
   completions below the threshold see the flag and stay silent. "Nothing waits
   longer than tau" (`receive.c` 460-462) does not hold. The other completer need not
   be a worker: with `wg_steal` on as well, one worker, one CPU and four packets of
   one peer are enough, the poll stealing and arming between the worker's two steps.
   `rx_trigger_and_steal` shows that with a single completer, one worker and no
   stealing, the trigger loses no wake.
2. `rx_headwake_tune`. `wg_headwake` cannot be turned on under traffic: the
   published head is stale. The knobs are documented as live-tunable.
3. `teardown_trigger`. Removing a peer under the trigger cancels the only wake of
   packets that wait for the timer; they keep their references forever.
4. `iowq_tail`. Cancelling the last work of bucket 0 behind an unhashed work makes
   `hash_tail[0]` name the unhashed work.
5. `napi_threaded_down`. Switching a disabled instance out of threaded mode waits
   for a bit nobody will clear.

### 3.2 Observations the models make without a run of their own

Each of these is a state or order the model reaches; where a parameter switches it
on, the passing runs have it off, so that what they show is not hidden behind it.

Receive path. A poll that runs out of budget while `napi_disable` waits for it is
completed by `__napi_poll` with packets left, in the stock module too: this is what
`overran` records, and why `NothingLeftWithoutTrigger` has its second condition. It
is the only way: how many packets were queued before does not matter. With `wg_steal` another peer's poll may hold a packet across
both flushes, and with `wg_trig_k` on as well it re-arms the timer after
`hrtimer_cancel` (`queueing.h` 276): this is the hypothesis of `TimerNotRearmed`.

Sessions. `CurrentIsShared` fails when handshake messages of one peer overlap, and
TLC shows two ways. The send worker may replace an initiation between `noise.c` 761,
where the lock is dropped with the old handshake copied, and 786, where it is taken
again and only the state is compared: the session is then derived from the old
exchange with the new index. And a duplicated initiation may be taken up by two
receive workers, both of which pass the timestamp check under the read lock
(632-640) before either writes it back (643 on, without another look): two responses
to one initiation, and the ends may settle on different ones. Later traffic makes a
new handshake. The retransmit timer is not re-armed
after a response, a packet staged less than `REKEY_TIMEOUT` after an initiation
has no timer of its own, and symmetric initiations can collide repeatedly; later
traffic repairs all three. `wg_stop` zeroes `handshake_queue_len` while workers
hold messages, so the length drifts; how far is proved (section 4).

Rate limiter, cookies and trie. The collector reads the clock once, so an entry
touched later has an age that wraps and is unlinked in use; two CPUs may insert the
same source twice. Two workers that find the secret too old renew it one after the
other, so a cookie just sent may be worthless at once, and a reply opened before
another was stored is stored over it; the initiator tries again in each case. A lookup
in the trie during several writes may answer what no single moment would have
answered; `LookupSound` states what it may.

Workqueues. `drain_workqueue` looks at the pwqs one by one (`DrainLeavesEmpty`);
`flush_work` racing `cancel_work` of another thread may return before a requeued
run ends (`FlushGuarantee`); cancelling an item of a frozen workqueue can strand
those behind it (`FREEZE_AND_CANCEL`); a node's limit raised by hotplug activates
nothing at once, which is why `NothingStranded` promises that an active work will
find the pwq when it ends, and not that there is no room; `freeze_workqueues_busy` may see a stale maximum.

io-wq, NAPI, devices. `io_wq_cancel_cb` misses works already cut off as a chain;
`io_worker_cancel_cb` can leave `nr_workers` miscounted; a timed-out worker racing
exit is the case of `TIMEOUTS`. The deferral hrtimer is started after SCHED is
given up, which can race `napi_disable`. On hotplug a backlog may be taken over
before its IPI (`IPI_FIRST`). A packet that comes before the flow's first `recvmsg`,
or while its entry is another flow's, is queued by the RPS map or on the CPU it came
in on with no tail saved; the next steered packet moves at once and may overtake it
with no CPU going down, although the comment at `dev.c` 5178 "guarantees that all
previous packets for the flow have been dequeued": `FlowInOrder` holds for the
steered packets among themselves, and for the others. A rename with a pattern rolls
back to another name (`PATTERNS`). In a move between namespaces refusals are ignored:
a block that follows the device and refuses what it finds in the new namespace, or
one there that refuses the device, stays on the chain without knowing it ("missed"
in `view`, until the device goes), and a failing `device_rename` leaves the old name
in sysfs behind a warning. `__dev_open` vetoed at PRE_UP leaves netpoll disabled.

## 4. Proofs

TLAPS proves the theorems below for every value of the constants that satisfies
the named assumptions (disjoint kinds of actors, positive capacities, sizes that
are numbers). Components that a run reaches only through INSTANCE state their
assumption as a hypothesis (`Sizes`, `Limits`), which every instance here
satisfies. The inductive invariants were checked by TLC before they were proved.

**Receive path, any knob settings, rewritten at any time or not**
(`RxPathProofs`, first part):

* `TypeCorrect`: `Spec => []TypeOK`. The bound on `work_done` is not inductive: a
  round of the delivery loop adds one. `WorkBound` (a poll that is not exhausted
  has budget left) makes it so. The proof has one lemma per kind of actor, over
  lemmas about peek, `napi_schedule`, `napi_complete_done` and moves of `pc`.
* `OneConsumer`: `Spec => []SingleConsumer`. Inductive together with the types
  and `Alive` (without removal nobody disables NAPI). Only the caller that sets
  SCHED puts the instance on a list, only `net_rx_action` moves it into a poll,
  and leaving the poll puts it back or clears SCHED.
* `OneDebtor`: `Spec => []OneCompletionOwed`. Inductive with the types. The debt
  is created by `consume_data`, moves from the producer into the ring and from
  the ring into one hand, and is paid by `set_state`.
* `PlacedOnce`: a queued packet is in the queue of its own peer, once, and waits
  for delivery. Inductive with the debts and `Unplaced` (a packet about to be
  appended is in no queue). `Findable` is the converse: a packet that waits for
  delivery is in the queue of its peer or about to be appended.

**Receive path, policies that stay as they are and do not use the trigger**
(`FixedPolicies`: `LiveTune` is empty, and `wg_trig_k` is 0 or overruled by
`wg_headwake`), with any mix of `wg_headwake`, `wg_supp` and `wg_steal`
(`RxPathProofs`, second part):

* `NoWakeLost`: `Spec => []NoLostWake`, and `HeadCanWake`: `Spec =>
  []ParkedOnHead`. Neither is inductive, because a wake is decided on while the
  poll is still going to sleep. `WakeInv` adds: a sleeping instance is `Quiet` (a
  deliverable head has its wake coming, and what is published is the peeked
  head); a poll that is `Settled`, past its last look at the head, has MISSED set
  or is `Quiet`; before its re-check it has published its peeked head or NULL.
  `set_state` on the head starts a wake, because the published pointer names that
  head or nothing (`SetStateLive`). A peek that shows nothing leaves a
  deliverable head only if the packet behind it is unlinked; that packet is
  UNCRYPTED (`OneDebtor`), so its completion will wake (`PeekBlocked`,
  `FruitlessPeek`). A wake during a poll sets MISSED, and `napi_complete_done`
  sees it (`OutsideStep`). Other peers are not touched by a poll (`InsideStep`).
  Both conditions of `FixedPolicies` are needed: `rx_trigger_race` and
  `rx_headwake_tune` are counterexamples without them.

**Peer removal** (`RxPathProofs`, third part):

* `RemovalOneConsumer` (`SingleConsumer` while `napi_disable` competes for the
  instance), under every setting, over the types of the removal (`RmTypeOK`).
* `TwoFlushesSuffice`: after the second flush no packet of the removed peer is in
  the ring or in the hands of a receiving softirq or a worker. Four invariants
  lead there. `GraceInv`: after the grace period no producer holds a packet of the
  peer. `RingServed`: a packet in the ring has a pending work, a busy worker or the
  producer that is about to kick one. `FlushInv`: the first flush is not over
  while the ring holds a packet of the peer, and the second waits for every worker
  that has one in hand. `FlushSets`: what a flush waits for is queued or running.
* `TimerNotRearmed` (`TimerStaysCancelled`) and `ReleasedUnreachable`
  (`NoUseAfterRelease`): from `hrtimer_cancel` on nobody can start the timer
  (`CancelInv`), because whoever does holds a packet it completes. A poll that steals owes them
  too and no flush waits for it; the hypothesis `NoStealWithTrigger` (no setting,
  and no two between which a live write can leave a poll, have stealing and the
  trigger on) excludes exactly that, and the theorem is false without it
  (section 3.2).
* `RemovalLeavesNothing` (`NothingLeftWithoutTrigger`): when `napi_disable` has taken
  the instance no packet holds a reference on the peer, for any number of packets and
  any budget, unless a poll overran. Under `FixedNoSteal` (the parameters stay as they
  are and `wg_steal` is 0). `DrainInv` keeps `WakeInv` through the removal: until
  DISABLE is set every wake works as before, so after the second flush, when nobody
  owes a completion any more, a queue that is not empty has a deliverable head
  (`Findable`, `OneDebtor`) and a sleeping instance would have a wake coming.
  `napi_disable` therefore waits for a poll that goes on until the queue is empty,
  unless it exhausts its budget, which `OverrunInv` has on record. Stealing must be
  off because no flush waits for a poll of another peer that holds a stolen packet.

**`prev_queue`** (`PrevQueueProofs`), any number of producers, capacity and reuse of
packet memory:

* `QueueTypeCorrect`, `QueueCountExact`, `QueueNullOnlyOnGap`, and
  `QueueImplementsFifo`: `Spec` implements `PrevQueueSpec` under the mapping that
  reads the promised queue off `fifo`. `QueueInv` adds `ListInv` to types and
  count: for some k, the number of packets ahead of STUB (-1 when STUB is out of
  the list), the chain from `tail` through the links is the first k of `fifo`,
  STUB, and the rest, with a missing link exactly where a producer is between its
  exchange and its store, and `head` the last of it. Each step is a case on where
  STUB is.

**Replay counter** (`ReplayProofs`): `ReplayVerdictIsExact` (`VerdictIsExact`) and
`ReplayTypeCorrect`, for any word size, number of words and integer width. The
invariant says bit by bit what the bitmap remembers: the bit of a counter inside
the window is set exactly if the counter was accepted, although words are cleared
one by one and reused modulo their number.

**Handshake queue** (`HandshakeQueueProofs`): `LengthDriftBounded`: whatever number
of messages, softirqs, workers and `wg_stop` calls, `handshake_queue_len` exceeds
the counted messages in the ring and in the workers' hands by at most the number of
softirqs and falls short by at most `RING_SIZE` plus the number of workers, and
does not drift at all before the first `wg_stop`. The surprise is that the error
of several stops does not add up. Stated with the softirqs that have queued and not
yet counted on one side and the workers that hold a message on the other, the
bound is inductive with the types; the steps change the cardinality of one of the
two sets by one. The theorem states `HandshakeLengthDrift`.

**Hash tables** (`PeerLookupProofs`): `LookupCorrect`: `PlSpec => []LookupFindsExactly`,
for any peers, keypairs, readers, indices and buckets. A chain is a linked list,
so "the reader will still meet e" is a reachability that one would define by
recursion; `Ahead(next, a, e)` says it as membership in every set that contains a
and is closed under `next`. `ChainInv`: a chain has no cycle and holds exactly the
hashed entries of its bucket. `WalkInv`: an entry that is stable since a lookup began lies
ahead of the reader, or something was moved, and whatever of the wanted index lies
ahead was seen in the table during the walk. A deletion leaves its entry's own link
in place, which is why nothing else leaves what lies ahead of a reader, even of one
that stands on the deleted entry; an insertion at the front adds nothing behind.
`IndexInv`: an index is written only while its entry is out of the table, so the
second look under the lock makes it unique.

**Sockets** (`WgSocketProofs`): `SocketsCorrect`: `SkSpec => []SocketEndpointsCurrent`,
if there is a place a peer can be at. `SockInv`: a context that sends holds the
present socket, or the old one while `synchronize_net` still waits for it, and the
old one is freed after that only. `RouteInv`: the readers of `endpoint_lock` are the
contexts between picking the endpoint and sending, so whoever writes the endpoint and clears the
cache finds none of them with a route of the old one. `SourceInv`: a route of the
present generation was looked up after the address went away, and one of an earlier
generation is not used.

**NAPI** (`NapiDevProofs`): `NapiCorrect` and `NapiCorrectWithoutTimer`
(`NapiOnePollerNoneLost`), for any CPUs, weight, deferral, modes and either kind of
driver, and any number of packets, busy polls and operations. None of the five
promises is inductive alone. `OwnerInv` says who has SCHED: a context that schedules
or polls, one list, the called kthread, or who disabled the instance, exactly one of
these while it is set and none while it is clear; every `test_and_set`, `cmpxchg`
and clearing in `dev.c` hands it on or gives it up. `BusyInv`: IN_BUSY_POLL is set
until the busy poller's last poll and otherwise only with SCHED_THREADED, which is
why `napi_complete_done` cannot give up what a busy poller has. `AdminInv`,
`AbsentInv`, `ThreadInv`: what the operation under way says of NPSVC, DISABLE,
LISTED and the kthread. `ListInv`: a CPU with the instance on a list has its softirq
raised or runs it, since `in_net_rx_action` is only cleared before the second look
at the list. `EventInv`: an enabled instance with a packet waiting or with its
interrupt masked has an interrupt, SCHED, the timer or a poll that ends and will
start one of them; a poll that took less than its weight leaves no packet behind but
one announced by the interrupt or MISSED.

`NapiCorrect` has a condition on timing, `TimerEndsFirst`: when the memory of an
instance is freed its timer is not running. `napi_complete_done` starts the timer
after it gave up SCHED, so the start can come after the `hrtimer_cancel` in
`napi_disable`, and nothing cancels it again; what is needed is that it fires within
the grace period. Without the condition the property fails for an instance that is
deleted and added again with the old timer pending (TLC, with `MaxAdmin` 5; with the
3 of `kernel_parts` there is no second life). `NapiCorrectWithoutTimer` has no such
condition: where `gro_flush_timeout` is 0, as it is unless an administrator sets it,
the timer is never started (`NoTimer`).

**Send path** (`TxPathProofs`). The four properties of the sending part are all
proved, for any number of contexts, encrypt workers, packets and keys and any queue
sizes; `SendingCorrect` states them together (`SendingOrderAndReferences`). `NoncesNeverReused`: `Limits => (TxSpec =>
[]NoncesAreFresh)`. No nonce is used twice with a key and none at or above
`REJECT_AFTER_MESSAGES`. `NoncesAreFresh` looks at packets on their way only; it
is inductive once one knows where packets are. `OnePlace`: a packet is staged, in
the hands of one context, or gone into a list, and in one of these only, so
numbering a packet never touches one that is sent. `NumbersFresh`: what is gone,
and what a context has already numbered, has a number below its key's counter,
below the limit and different from all others. A list that goes back at the limit
loses its numbers, since only the first `Upto(s)` packets of a context that is
still numbering count as numbered. Most steps are instances of `HarmlessStep`.

* `SentInOrder` (`SentInQueueOrder`). `QueueIsEnd`: what waits, the peeked list
  included, is the end of the history `order`, and no packet is in two lists of
  it. `WireFollows`: what was sent is of the lists before that end, in their order.
  A list is appended to both ends at once and leaves from the front only; linking a
  place changes neither.
* `TwoGenerationsSuffice` (`TwoFlushesSuffice`). After the grace period no context
  is between taking a place and queueing the work (`Generations`), so every list
  that waits and is not finished is in the ring or with an encrypt worker
  (`ListsOwned`). Something in the ring has a work that is queued or running, and a
  finished list at the front has the transmit work queued, about to be queued or
  about to look again (`Served`); the first flush therefore ends with the ring
  empty and the second with tx_queue empty. `NotHandedOn` (a list its context still
  works on is known to nobody else) makes this inductive. The transmit work may stop
  early with a linked list at the front when there is a gap behind it; the list in the
  gap is of a context that has not queued its work yet, so the transmit work is still
  to be woken. Besides `Limits` the theorem assumes `Names`: the transmit work's name is
  not that of a CPU.
* `ReferencesAccounted` (`ReferencesBalance`), for a finite number of contexts and of
  encrypt workers, which hold a reference from before they store a list's state until
  the transmit work is queued. On top of the
  three invariants: `HandsApart` (a list is in the ring once or with one worker, and
  not yet encrypted), `FlightListed` (what waits is in flight, what is in flight has
  its list) and `HandKeys` (what a context has numbered carries the key it holds,
  so that the list takes over exactly the context's reference). Each step changes
  each counted set by at most one element (`DifferInOne`); the accounts of a context are
  `PeerAccount` and `KeyAccount`. `SentInOrder`'s invariant is needed where a list
  leaves: it must not also wait further back in the queue.

**Only model-checked.** All liveness properties: fairness and ENABLED are out of
the installed provers' reach. What computes by recursion over data: `AllowedIps`
uses RECURSIVE operators (`RoutesLongestPrefix`), and sums over sets need induction
(`EntriesCounted`, the counters of `IoWqPool` and `WqPwq`). Sessions over a faulty
network (`SessionKeysAgree`), the rate limiter's rate over time, the interface's
configuration, and the properties of workqueues, io-wq, backlog and device
registration: their invariants have not been made inductive.

## 5. What is left out, and the plan

Not modelled: cryptographic arithmetic and packet contents; GRO and the
protocols' offloads (sequential code over headers inside one poll); selftests and
scripts; attribute encoding of netlink; adjacency lists, features, XDP and
statistics of devices; affinity tables, sysfs, watchdog and BH workqueues; weak
memory beyond what the barriers in the code order. The fix called M1 in the
repository's README has no code to model.

Next:

1. Safety of `IoWqHash` and `WqFlush` as theorems: who holds a bucket, and which
   colour a flush waits for.
2. The first life of an instance in `NapiCorrect` with its timer but without
   `TimerEndsFirst`: until the first deletion the condition is not needed.
3. `SessionKeysAgree`, with messages in flight as the carrier of the agreement.
