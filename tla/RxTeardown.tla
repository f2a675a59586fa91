----------------------------- MODULE RxTeardown -----------------------------
(***************************************************************************)
(* Removing peers while their packets are in flight (build/wg515-trigger   *)
(* peer.c): the peers are marked dead, an RCU grace period and two flushes *)
(* of packet_crypt_wq pass, the coalesce timer is cancelled and NAPI is    *)
(* disabled, and the reference of the configuration is dropped.  The data  *)
(* path is RxPath; this module adds the thread that removes peers, which   *)
(* the device_update_lock makes the only one.                              *)
(***************************************************************************)
EXTENDS RxPath

VARIABLES
    rm,          \* where the removing thread is
    dead_peers,  \* the peers it has yet to tear down, rm_peer among them
    rm_peer,     \* the peer it is tearing down
    removed,     \* peers whose configuration reference has been put
    rcu_wait,    \* read-side sections synchronize_net waits for
    flush_pend, flush_run, \* work items flush_workqueue waits for: those that
                           \* were queued, and those that were running
    overran      \* history: has a poll used up its budget while napi_disable
                 \* waited for its instance?

rmVars == <<rm, dead_peers, rm_peer, removed, rcu_wait, flush_pend, flush_run>>
allVars == <<vars, rmVars>>     \* the variables of the code
rmHistory == <<allVars, overran>>

RmPCs == {"idle", "sync", "pick", "flush_crypt", "flush_serial", "hrtimer_cancel",
          "napi_disable", "napi_wait", "put"}

RmTypeOK ==
    /\ TypeOK
    /\ rm \in RmPCs
    /\ dead_peers \subseteq Peers
    /\ rm_peer \in Peers \cup {NULL}
    /\ removed \subseteq Peers
    /\ rcu_wait \subseteq Producers \cup Cpus
    /\ flush_pend \subseteq Workers
    /\ flush_run \subseteq Workers

RmInit ==
    /\ Init
    /\ rm = "idle"
    /\ dead_peers = {}
    /\ rm_peer = NULL
    /\ removed = {}
    /\ rcu_wait = {}
    /\ flush_pend = {} /\ flush_run = {}
    /\ overran = FALSE

-----------------------------------------------------------------------------
\* Softirq contexts and works that are in the middle of something.
Busy(S) == {a \in S : pc[a] # "idle"}

\* A step of the data path ends the sections and executions waited for: a
\* pending item becomes a running one, a context that goes idle is done.
DuringRemoval(step) ==
    /\ step
    /\ rcu_wait' = {a \in rcu_wait : pc'[a] # "idle"}
    /\ flush_pend' = flush_pend \cap work'
    /\ flush_run' = {w \in flush_run \cup (flush_pend \ work') : pc'[w] # "idle"}
    /\ UNCHANGED <<rm, dead_peers, rm_peer, removed>>

DataPathStep == DuringRemoval(Next)

\* Slip: synchronize_net() is skipped.
Slip_no_grace_period(S) ==
    /\ rm = "idle"
    /\ S # {}
    /\ S \cap is_dead = {}
    /\ is_dead' = is_dead \cup S
    /\ dead_peers' = S
    /\ rm' = "sync"
    /\ UNCHANGED <<knob, pstate, rxq, peeked, ring, work, napiVars, trigVars, pc,
                   skb, pollVars, rm_peer, removed, rcu_wait, flush_pend,
                   flush_run>>

\* peer_make_dead for one peer (wg_peer_remove) or for all (wg_peer_remove_all),
\* then synchronize_net() begins.
peer_make_dead(S) ==
    /\ rm = "idle"
    /\ S # {}
    /\ S \cap is_dead = {}
    /\ is_dead' = is_dead \cup S
    /\ dead_peers' = S
    /\ rcu_wait' = Busy(Producers \cup Cpus)
    /\ rm' = "sync"
    /\ UNCHANGED <<knob, pstate, rxq, peeked, ring, work, napiVars, trigVars, pc,
                   skb, pollVars, rm_peer, removed, flush_pend, flush_run>>

synchronize_net ==
    /\ rm = "sync"
    /\ rcu_wait = {}
    /\ rm' = "pick"
    /\ UNCHANGED <<vars, dead_peers, rm_peer, removed, rcu_wait, flush_pend,
                   flush_run>>

\* flush_workqueue(packet_crypt_wq) waits for what is queued or running now.
BeginFlush == /\ flush_pend' = work
              /\ flush_run' = Busy(Workers)

\* Slip: the flush does not wait.
Slip_flush_returns == TRUE

FlushDone == flush_pend = {} /\ flush_run = {}

peer_remove_after_dead(peer) ==
    /\ rm = "pick"
    /\ peer \in dead_peers
    /\ rm_peer' = peer
    /\ BeginFlush
    /\ rm' = "flush_crypt"
    /\ UNCHANGED <<vars, dead_peers, removed, rcu_wait>>

flush_again ==
    /\ rm = "flush_crypt"
    /\ FlushDone
    /\ BeginFlush
    /\ rm' = "flush_serial"
    /\ UNCHANGED <<vars, dead_peers, rm_peer, removed, rcu_wait>>

flush_done ==
    /\ rm = "flush_serial"
    /\ FlushDone
    /\ rm' = "hrtimer_cancel"
    /\ UNCHANGED <<vars, dead_peers, rm_peer, removed, rcu_wait, flush_pend,
                   flush_run>>

\* Slip: the timer is left to expire by itself.
Slip_no_cancel ==
    /\ rm = "hrtimer_cancel"
    /\ rm' = "napi_disable"
    /\ UNCHANGED <<vars, dead_peers, rm_peer, removed, rcu_wait, flush_pend,
                   flush_run>>

\* hrtimer_cancel waits out a running callback and takes the timer off.
hrtimer_cancel ==
    /\ rm = "hrtimer_cancel"
    /\ tpc[rm_peer] = "idle"
    /\ timer' = [timer EXCEPT ![rm_peer] = FALSE]
    /\ rm' = "napi_disable"
    /\ UNCHANGED <<knob, queueVars, napiVars, rx_blocked_on, rx_ready,
                   rx_timer_armed, tpc, pc, skb, pollVars, dead_peers, rm_peer,
                   removed, rcu_wait, flush_pend, flush_run>>

\* napi_disable: set_bit(DISABLE), then wait for the instance to be idle and
\* take it for good.
napi_disable ==
    /\ rm = "napi_disable"
    /\ napi' = [napi EXCEPT ![rm_peer] = @ \cup {"DISABLE"}]
    /\ rm' = "napi_wait"
    /\ UNCHANGED <<knob, queueVars, poll_list, trigVars, pc, skb, pollVars,
                   dead_peers, rm_peer, removed, rcu_wait, flush_pend, flush_run>>

\* Slip: the instance is taken although a poll still owns it.
Slip_disable_no_wait ==
    /\ rm = "napi_wait"
    /\ napi' = [napi EXCEPT ![rm_peer] = napi_disabled(@)]
    /\ rm' = "put"
    /\ UNCHANGED <<knob, queueVars, poll_list, trigVars, pc, skb, pollVars,
                   dead_peers, rm_peer, removed, rcu_wait, flush_pend, flush_run>>

napi_disable_wait ==
    /\ rm = "napi_wait"
    /\ disable_allowed(napi[rm_peer])
    /\ napi' = [napi EXCEPT ![rm_peer] = napi_disabled(@)]
    /\ rm' = "put"
    /\ UNCHANGED <<knob, queueVars, poll_list, trigVars, pc, skb, pollVars,
                   dead_peers, rm_peer, removed, rcu_wait, flush_pend, flush_run>>

\* netif_napi_del, num_peers--, wg_peer_put; on to the next dead peer.
final_put ==
    /\ rm = "put"
    /\ removed' = removed \cup {rm_peer}
    /\ dead_peers' = dead_peers \ {rm_peer}
    /\ rm_peer' = NULL
    /\ rm' = IF dead_peers = {rm_peer} THEN "idle" ELSE "pick"
    /\ UNCHANGED <<vars, rcu_wait, flush_pend, flush_run>>

RemovalStep == \/ synchronize_net
               \/ \E peer \in Peers : peer_remove_after_dead(peer)
               \/ flush_again \/ flush_done \/ hrtimer_cancel
               \/ napi_disable \/ napi_disable_wait \/ final_put

\* A poll has delivered its whole budget while napi_disable waits for its
\* instance: __napi_poll will complete it, and nobody polls it again.
Overruns == \E c \in Cpus : pc[c] = "exhausted" /\ "DISABLE" \in napi[cur[c]]

RmNext == /\ \/ DataPathStep
             \/ \E peer \in Peers : peer_make_dead({peer})
             \/ peer_make_dead(Peers)
             \/ RemovalStep
          /\ overran' = (overran \/ Overruns')

RmSpec == RmInit /\ [][RmNext]_rmHistory

\* The removing thread is a task and runs when it can; the data path is fair
\* as in RxPath.
RmFairSpec ==
    /\ RmSpec
    /\ WF_allVars(RemovalStep)
    /\ \A a \in Producers : WF_allVars(DuringRemoval(ProducerStep(a)))
    /\ \A w \in Workers : WF_allVars(DuringRemoval(WorkerStep(w)))
    /\ \A a \in Actors : WF_allVars(DuringRemoval(CompletionStep(a)))
    /\ \A peer \in Peers : WF_allVars(DuringRemoval(TimerStep(peer)))
    /\ \A c \in Cpus : WF_allVars(DuringRemoval(PollStep(c)))
    /\ \A c \in Cpus, peer \in Peers :
          SF_allVars(DuringRemoval(net_rx_action(c, peer)))

-----------------------------------------------------------------------------
\* References on a peer besides the configuration's: one per packet that
\* passed wg_packet_consume_data and is not yet delivered or freed, one per
\* completion under way (wg_queue_enqueue_per_peer_rx takes its own).
PacketRefs(peer) == {p \in Packets : /\ PeerOf[p] = peer
                                     /\ pstate[p] \in {"UNCRYPTED", "CRYPTED", "DEAD"}}
CompletionRefs(peer) == {a \in Actors : /\ pc[a] \in CompletionPCs \ {"set_state"}
                                        /\ PeerOf[skb[a]] = peer}

\* The last reference is gone: kref_release has run and RCU frees the peer.
Released(peer) == /\ peer \in removed
                  /\ PacketRefs(peer) = {}
                  /\ CompletionRefs(peer) = {}

(* peer_remove_after_dead: "we can simply flush twice, and be sure that we  *)
(* no longer have references inside these queues".  Once NAPI is disabled   *)
(* no packet holds a reference on the peer; one that does would never be    *)
(* polled again, and neither it nor the peer would ever be freed.           *)
NoReferencesLeft ==
    \A peer \in Peers :
        peer \in removed \/ (rm = "put" /\ rm_peer = peer) => PacketRefs(peer) = {}

(* NoReferencesLeft for the policies without trigger: their packets need no *)
(* timer, so the two flushes and the polls that napi_disable waits for take *)
(* all of them out, however much was queued.  The exception is a poll that  *)
(* uses up its budget at that moment: __napi_poll then completes the        *)
(* instance with packets left in its queue.                                 *)
NothingLeftWithoutTrigger ==
    knob.trig_k = 0 /\ ~ overran => NoReferencesLeft

(* A released peer is memory the allocator may reuse: no poll list, poll,   *)
(* timer, callback or queue may still reach it.                             *)
NoUseAfterRelease ==
    \A peer \in Peers : Released(peer) =>
        /\ \A c \in Cpus : ~ Has(c, peer)
        /\ ~ timer[peer] /\ tpc[peer] = "idle"
        /\ First(peer) = NULL

\* peer_remove_after_dead is past its hrtimer_cancel for this peer.
AfterCancel(peer) ==
    \/ peer \in removed
    \/ rm_peer = peer /\ rm \in {"napi_disable", "napi_wait", "put"}

(* peer_remove_after_dead: "The crypt_wq flushes above guarantee no decrypt  *)
(* worker can re-arm it past here".  From hrtimer_cancel on the coalesce     *)
(* timer of the peer is off: nothing started it after the cancel.            *)
TimerStaysCancelled ==
    \A peer \in Peers :
        AfterCancel(peer) => ~ timer[peer] /\ tpc[peer] = "idle"

(* A removal that has begun ends: the grace period, the flushes and the wait *)
(* of napi_disable for a sleeping instance all come to an end although the   *)
(* data path keeps running under them.                                       *)
RemovalEnds == rm # "idle" ~> rm = "idle"
=============================================================================
