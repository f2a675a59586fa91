---------------------------- MODULE RxPathProofs ----------------------------
(***************************************************************************)
(* Theorems about RxPath, for any number of peers, packets, producers,     *)
(* workers and CPUs, any capacities and budget.                            *)
(*                                                                         *)
(* First, for any knob settings: type correctness, and who owns what in    *)
(* the receive path.  The rx_queue of a peer has one consumer, an          *)
(* UNCRYPTED packet is in exactly one place from which its state will be   *)
(* set, and a packet is at most once in a queue, the one of its own peer,  *)
(* until it is delivered.                                                  *)
(*                                                                         *)
(* Then, that no wake-up is lost: an instance which sleeps on a            *)
(* deliverable head has a wake on its way, and with wg_headwake a sleeping *)
(* instance can be woken by its head.  This part is for the policies that  *)
(* do not change while traffic flows and do not use the wg_trig_k trigger; *)
(* without these conditions wake-ups are lost (runs rx_trigger_race,       *)
(* rx_headwake_tune).                                                      *)
(*                                                                         *)
(* Last, removing a peer under traffic (RxTeardown): a released peer is    *)
(* reached by no poll list, poll, timer, callback or queue, and nothing of *)
(* it is left anywhere.                                                    *)
(***************************************************************************)
EXTENDS RxTeardown, FiniteSetTheorems, TLAPS

USE DEF Actors, ProducerPCs, WorkerPCs, CompletionPCs, PollPCs, HandPCs,
        NapiBits, PacketStates

-----------------------------------------------------------------------------
(* Type correctness.  The bound on work_done is not inductive by itself: it *)
(* holds after one more round of the delivery loop because a poll that used *)
(* up its budget has left the loop.                                         *)

WorkBound == \A c \in Cpus : pc[c] # "exhausted" => work_done[c] < Budget

TypeInv == TypeOK /\ WorkBound

(* The initial state satisfies the strengthened type invariant.             *)
LEMMA TypeInit == Init => TypeInv
  BY PeerOfAssumption, NullAssumption, ActorsAssumption, BoundsAssumption,
     KnobAssumption
  DEF Init, TypeInv, TypeOK, QueueTypeOK, WakeTypeOK, ActorTypeOK, PollTypeOK,
      WorkBound, napi_enabled

(* What wg_prev_queue_peek returns, and what it leaves of the queue.        *)
LEMMA PeekType ==
  ASSUME QueueTypeOK, NEW peer \in Peers, NEW p \in Peeks(peer)
  PROVE  /\ p \in Packets \cup {NULL}
         /\ RxqAfterPeek(peer, p) \in [Peers -> Seq(Packets)]
<1>1. p \in Packets \cup {NULL}
  BY DEF QueueTypeOK, Peeks
<1>2. CASE peeked[peer] = NULL /\ p # NULL
  <2>1. rxq[peer] # <<>> /\ rxq[peer] \in Seq(Packets)
    BY <1>2 DEF QueueTypeOK, Peeks, DequeueReturns
  <2>2. Tail(rxq[peer]) \in Seq(Packets)
    BY <2>1
  <2> QED BY <1>1, <1>2, <2>2 DEF QueueTypeOK, RxqAfterPeek
<1>3. CASE ~ (peeked[peer] = NULL /\ p # NULL)
  BY <1>1, <1>3 DEF QueueTypeOK, RxqAfterPeek
<1> QED BY <1>2, <1>3

(* A step that does no more to the queues than one peek keeps their types.  *)
LEMMA PeekStepType ==
  ASSUME QueueTypeOK, NEW peer \in Peers,
         \E p \in Peeks(peer) : wg_prev_queue_peek(peer, p),
         UNCHANGED <<knob, pstate, ring, work, is_dead>>
  PROVE  QueueTypeOK'
<1>1. PICK p \in Peeks(peer) : wg_prev_queue_peek(peer, p)
  OBVIOUS
<1>2. rxq' \in [Peers -> Seq(Packets)]
  BY <1>1, PeekType DEF wg_prev_queue_peek
<1>3. peeked' \in [Peers -> Packets \cup {NULL}]
  BY <1>1, PeekType DEF wg_prev_queue_peek, QueueTypeOK
<1> QED BY <1>2, <1>3 DEF QueueTypeOK

(* napi_schedule, napi_complete_done and the re-check keep the NAPI types.  *)
LEMMA ScheduleType ==
  ASSUME WakeTypeOK, NEW peer \in Peers, NEW C \in SUBSET Cpus,
         napi_schedule(peer, C)
  PROVE  /\ napi' \in [Peers -> SUBSET NapiBits]
         /\ poll_list' \in [Cpus -> SUBSET Peers]
<1>1. napi' \in [Peers -> SUBSET NapiBits]
  BY DEF WakeTypeOK, napi_schedule, napi_schedule_prep
<1>2. poll_list' \in [Cpus -> SUBSET Peers]
  BY DEF WakeTypeOK, napi_schedule
<1> QED BY <1>1, <1>2

(* napi_complete_done keeps the types of the NAPI state and the poll lists. *)
LEMMA CompleteDoneType ==
  ASSUME WakeTypeOK, NEW peer \in Peers, NEW c \in Cpus, CompleteDone(c, peer)
  PROVE  /\ napi' \in [Peers -> SUBSET NapiBits]
         /\ poll_list' \in [Cpus -> SUBSET Peers]
<1>1. napi' \in [Peers -> SUBSET NapiBits]
  BY DEF WakeTypeOK, CompleteDone, napi_complete_done
<1>2. poll_list' \in [Cpus -> SUBSET Peers]
  BY DEF WakeTypeOK, CompleteDone
<1> QED BY <1>1, <1>2

(* The re-check sets no bit outside the NAPI word.                          *)
LEMMA SetMissedType ==
  ASSUME WakeTypeOK, NEW peer \in Peers, SetMissedIfReady(peer)
  PROVE  napi' \in [Peers -> SUBSET NapiBits]
  BY DEF WakeTypeOK, SetMissedIfReady

(* Moves of a CPU within the poll.                                          *)
LEMMA PollMoveType ==
  ASSUME ActorTypeOK, PollTypeOK, WorkBound, NEW c \in Cpus,
         pc[c] \in PollPCs \ {"idle", "exhausted"},
         NEW l \in PollPCs \ {"idle", "exhausted"}, Goto(c, l),
         UNCHANGED <<skb, cur, work_done>>,
         pulled' \in [Cpus -> Nat], head' \in [Cpus -> Packets \cup {NULL}]
  PROVE  ActorTypeOK' /\ PollTypeOK' /\ WorkBound'
<1>1. ActorTypeOK'
  BY NullAssumption, ActorsAssumption DEF ActorTypeOK, Goto
<1>2. PollTypeOK'
  BY NullAssumption, ActorsAssumption DEF ActorTypeOK, PollTypeOK, Goto
<1>3. WorkBound'
  BY DEF ActorTypeOK, PollTypeOK, WorkBound, Goto
<1> QED BY <1>1, <1>2, <1>3

(* Leaving the poll resets its locals to values of their types.             *)
LEMMA PollReturnType ==
  ASSUME ActorTypeOK, PollTypeOK, WorkBound, NEW c \in Cpus,
         pc[c] \in PollPCs, PollReturns(c), UNCHANGED skb
  PROVE  ActorTypeOK' /\ PollTypeOK' /\ WorkBound'
<1>1. ActorTypeOK'
  BY NullAssumption, ActorsAssumption DEF ActorTypeOK, Goto, PollReturns
<1>2. PollTypeOK'
  BY NullAssumption, ActorsAssumption, BoundsAssumption
  DEF ActorTypeOK, PollTypeOK, Goto, PollReturns
<1>3. WorkBound'
  BY BoundsAssumption DEF ActorTypeOK, PollTypeOK, WorkBound, Goto, PollReturns
<1> QED BY <1>1, <1>2, <1>3

(* Moves of a producer or worker do not concern the polls.                  *)
LEMMA OtherMoveType ==
  ASSUME ActorTypeOK, PollTypeOK, WorkBound, NEW a \in Producers \cup Workers,
         NEW l, pc' = [pc EXCEPT ![a] = l], UNCHANGED pollVars
  PROVE  PollTypeOK' /\ WorkBound'
<1>1. \A c \in Cpus : pc'[c] = pc[c]
  BY ActorsAssumption DEF ActorTypeOK
<1> QED BY <1>1 DEF PollTypeOK, WorkBound, pollVars

(* Moves within wg_queue_enqueue_per_peer_rx, and its return.               *)
LEMMA CompletionMoveType ==
  ASSUME ActorTypeOK, PollTypeOK, WorkBound, NEW a \in Actors,
         pc[a] \in CompletionPCs,
         \/ Return(a)
         \/ (\E l \in CompletionPCs : Goto(a, l)) /\ UNCHANGED skb,
         UNCHANGED pollVars
  PROVE  ActorTypeOK' /\ PollTypeOK' /\ WorkBound'
<1>1. CASE Return(a)
  <2>1. ActorTypeOK'
    BY <1>1, NullAssumption, ActorsAssumption DEF ActorTypeOK, Goto, Return
  <2>2. PollTypeOK'
    BY <1>1, NullAssumption, ActorsAssumption
    DEF ActorTypeOK, PollTypeOK, Goto, Return, pollVars
  <2>3. WorkBound'
    BY <1>1, ActorsAssumption DEF ActorTypeOK, WorkBound, Goto, Return, pollVars
  <2> QED BY <2>1, <2>2, <2>3
<1>2. CASE (\E l \in CompletionPCs : Goto(a, l)) /\ UNCHANGED skb
  <2>1. ActorTypeOK'
    BY <1>2, NullAssumption, ActorsAssumption DEF ActorTypeOK, Goto
  <2>2. PollTypeOK'
    BY <1>2, NullAssumption, ActorsAssumption
    DEF ActorTypeOK, PollTypeOK, Goto, pollVars
  <2>3. WorkBound'
    BY <1>2 DEF ActorTypeOK, WorkBound, Goto, pollVars
  <2> QED BY <2>1, <2>2, <2>3
<1> QED BY <1>1, <1>2

(* The steps of a producer keep the type invariant.                         *)
LEMMA ProducerType ==
  ASSUME TypeInv, NEW a \in Producers,
         ProducerStep(a) \/ \E p \in Packets : consume_data(a, p) \/ consume_data_drop(a, p)
  PROVE  TypeInv'
<1> USE NullAssumption, ActorsAssumption
    DEF TypeInv, TypeOK, queueVars, napiVars, trigVars, pollVars, Goto
<1>0. UNCHANGED <<napiVars, trigVars>> => WakeTypeOK'
  BY DEF WakeTypeOK
<1>1. ASSUME NEW p \in Packets, consume_data_drop(a, p) PROVE TypeInv'
  <2>1. QueueTypeOK'
    BY <1>1 DEF consume_data_drop, QueueTypeOK
  <2>2. ActorTypeOK' /\ PollTypeOK' /\ WorkBound'
    BY <1>1 DEF consume_data_drop, ActorTypeOK, PollTypeOK, WorkBound
  <2> QED BY <1>0, <1>1, <2>1, <2>2 DEF consume_data_drop
<1>2. ASSUME NEW p \in Packets, consume_data(a, p) PROVE TypeInv'
  <2>1. QueueTypeOK'
    BY <1>2 DEF consume_data, QueueTypeOK
  <2>2. CASE UNCHANGED <<skb, pc>>
    <3>1. ActorTypeOK' /\ PollTypeOK' /\ WorkBound'
      BY <1>2, <2>2 DEF consume_data, ActorTypeOK, PollTypeOK, WorkBound
    <3> QED BY <1>0, <1>2, <2>1, <3>1 DEF consume_data
  <2>3. CASE skb' = [skb EXCEPT ![a] = p] /\ Goto(a, "enqueue")
    <3>1. ActorTypeOK'
      BY <1>2, <2>3 DEF consume_data, ActorTypeOK
    <3>2. PollTypeOK' /\ WorkBound'
      BY <1>2, <2>3, OtherMoveType DEF consume_data
    <3> QED BY <1>0, <1>2, <2>1, <3>1, <3>2 DEF consume_data
  <2> QED BY <1>2, <2>2, <2>3 DEF consume_data
<1>3. CASE prev_queue_enqueue(a)
  <2>1. skb[a] \in Packets /\ PeerOf[skb[a]] \in Peers
    BY <1>3, PeerOfAssumption DEF prev_queue_enqueue, ActorTypeOK
  <2>2. Append(rxq[PeerOf[skb[a]]], skb[a]) \in Seq(Packets)
    BY <2>1 DEF QueueTypeOK
  <2>3. QueueTypeOK'
    BY <1>3, <2>1, <2>2 DEF prev_queue_enqueue, QueueTypeOK
  <2>4. ActorTypeOK'
    BY <1>3 DEF prev_queue_enqueue, ActorTypeOK
  <2>5. PollTypeOK' /\ WorkBound'
    BY <1>3, OtherMoveType DEF prev_queue_enqueue
  <2> QED BY <1>0, <1>3, <2>3, <2>4, <2>5 DEF prev_queue_enqueue
<1>4. CASE prev_queue_link(a)
  <2>1. QueueTypeOK'
    BY <1>4 DEF prev_queue_link, QueueTypeOK
  <2>2. ActorTypeOK'
    BY <1>4 DEF prev_queue_link, ActorTypeOK
  <2>3. PollTypeOK' /\ WorkBound'
    BY <1>4, OtherMoveType DEF prev_queue_link
  <2> QED BY <1>0, <1>4, <2>1, <2>2, <2>3 DEF prev_queue_link
<1>5. CASE ring_produce(a)
  <2>1. skb[a] \in Packets
    BY <1>5 DEF ring_produce, ActorTypeOK
  <2>2. ring' = ring \/ ring' = Append(ring, skb[a])
    BY <1>5 DEF ring_produce
  <2>3. ring \in Seq(Packets) /\ Append(ring, skb[a]) \in Seq(Packets)
    BY <2>1 DEF QueueTypeOK
  <2>4. QueueTypeOK'
    BY <1>5, <2>2, <2>3 DEF ring_produce, QueueTypeOK
  <2>5. \E l \in {"kick", "set_state"} : Goto(a, l)
    BY <1>5 DEF ring_produce
  <2>6. ActorTypeOK'
    BY <1>5, <2>5 DEF ring_produce, ActorTypeOK
  <2>7. PollTypeOK' /\ WorkBound'
    BY <1>5, <2>5, OtherMoveType DEF ring_produce
  <2> QED BY <1>0, <1>5, <2>4, <2>6, <2>7 DEF ring_produce
<1>6. CASE queue_work(a)
  <2>1. QueueTypeOK'
    BY <1>6 DEF queue_work, QueueTypeOK
  <2>2. ActorTypeOK'
    BY <1>6 DEF queue_work, ActorTypeOK
  <2>3. PollTypeOK' /\ WorkBound'
    BY <1>6, OtherMoveType DEF queue_work
  <2> QED BY <1>0, <1>6, <2>1, <2>2, <2>3 DEF queue_work
<1> QED BY <1>1, <1>2, <1>3, <1>4, <1>5, <1>6 DEF ProducerStep

(* The steps of a decrypt worker keep the type invariant.                   *)
LEMMA WorkerType ==
  ASSUME TypeInv, NEW w \in Workers, WorkerStep(w)
  PROVE  TypeInv'
<1> USE NullAssumption, ActorsAssumption
    DEF TypeInv, TypeOK, queueVars, napiVars, trigVars, pollVars, Goto
<1>0. UNCHANGED <<napiVars, trigVars>> => WakeTypeOK'
  BY DEF WakeTypeOK
<1>1. CASE worker_start(w)
  <2>1. QueueTypeOK'
    BY <1>1 DEF worker_start, QueueTypeOK
  <2>2. ActorTypeOK'
    BY <1>1 DEF worker_start, ActorTypeOK
  <2>3. PollTypeOK' /\ WorkBound'
    BY <1>1, OtherMoveType DEF worker_start
  <2> QED BY <1>0, <1>1, <2>1, <2>2, <2>3 DEF worker_start
<1>2. CASE worker_consume(w) /\ ring # <<>>
  <2>1. Head(ring) \in Packets /\ Tail(ring) \in Seq(Packets)
    BY <1>2 DEF QueueTypeOK
  <2>2. /\ ring' = Tail(ring) /\ skb' = [skb EXCEPT ![w] = Head(ring)]
        /\ pc' = [pc EXCEPT ![w] = "set_state"]
    BY <1>2 DEF worker_consume
  <2>3. QueueTypeOK'
    BY <1>2, <2>1, <2>2 DEF worker_consume, QueueTypeOK
  <2>4. ActorTypeOK'
    BY <2>1, <2>2 DEF ActorTypeOK
  <2>5. PollTypeOK' /\ WorkBound'
    BY <1>2, <2>2, OtherMoveType DEF worker_consume
  <2> QED BY <1>0, <1>2, <2>3, <2>4, <2>5 DEF worker_consume
<1>3. CASE worker_consume(w) /\ ring = <<>>
  <2>1. pc' = [pc EXCEPT ![w] = "idle"] /\ pc[w] = "consume" /\ UNCHANGED <<skb, ring>>
    BY <1>3 DEF worker_consume
  <2>2. QueueTypeOK'
    BY <1>3, <2>1 DEF worker_consume, QueueTypeOK
  <2>3. ActorTypeOK'
    BY <2>1 DEF ActorTypeOK
  <2>4. PollTypeOK' /\ WorkBound'
    BY <1>3, <2>1, OtherMoveType DEF worker_consume
  <2> QED BY <1>0, <1>3, <2>2, <2>3, <2>4 DEF worker_consume
<1> QED BY <1>1, <1>2, <1>3 DEF WorkerStep

(* The steps of wg_queue_enqueue_per_peer_rx keep the type invariant.       *)
LEMMA CompletionType ==
  ASSUME TypeInv, NEW a \in Actors, CompletionStep(a)
  PROVE  TypeInv'
<1> USE DEF TypeInv, TypeOK
<1>0. UNCHANGED <<knob, queueVars>> => QueueTypeOK'
  BY DEF QueueTypeOK, queueVars
<1>1. pc[a] \in CompletionPCs
  BY DEF CompletionStep, set_state, gate, wake, inc_ready, disarm, cancel_timer,
         arm, hrtimer_start
<1>2. skb[a] \in Packets /\ PeerOf[skb[a]] \in Peers
  BY <1>1, PeerOfAssumption DEF ActorTypeOK
<1>3. CASE set_state(a)
  <2>1. QueueTypeOK'
    BY <1>2, <1>3 DEF set_state, QueueTypeOK, Verdicts
  <2>2. WakeTypeOK'
    BY <1>3 DEF set_state, WakeTypeOK, napiVars, trigVars
  <2>3. \E l \in CompletionPCs : Goto(a, l)
    BY <1>3 DEF set_state, Verdicts
  <2> QED BY <1>1, <1>3, <2>1, <2>2, <2>3, CompletionMoveType DEF set_state
<1>4. CASE gate(a)
  <2>1. WakeTypeOK'
    BY <1>4 DEF gate, WakeTypeOK, napiVars, trigVars
  <2>2. Return(a) \/ ((Goto(a, "wake") \/ Goto(a, "inc")) /\ skb' = skb)
    BY <1>4 DEF gate
  <2> QED BY <1>0, <1>1, <1>4, <2>1, <2>2, CompletionMoveType DEF gate
<1>5. CASE wake(a)
  <2>1. WakeTypeOK'
    BY <1>2, <1>5, ScheduleType DEF wake, WakeTypeOK, trigVars
  <2> QED BY <1>0, <1>1, <1>5, <2>1, CompletionMoveType DEF wake
<1>6. CASE inc_ready(a)
  <2>1. WakeTypeOK'
    BY <1>2, <1>6 DEF inc_ready, WakeTypeOK, napiVars
  <2>2. (\E l \in CompletionPCs : Goto(a, l)) /\ UNCHANGED <<skb, pollVars>>
    BY <1>6 DEF inc_ready
  <2> QED BY <1>0, <1>1, <1>6, <2>1, <2>2, CompletionMoveType DEF inc_ready
<1>7. CASE disarm(a)
  <2>1. WakeTypeOK'
    BY <1>2, <1>7 DEF disarm, WakeTypeOK, napiVars
  <2>2. (\E l \in CompletionPCs : Goto(a, l)) /\ UNCHANGED <<skb, pollVars>>
    BY <1>7 DEF disarm
  <2> QED BY <1>0, <1>1, <1>7, <2>1, <2>2, CompletionMoveType DEF disarm
<1>8. CASE cancel_timer(a)
  <2>1. WakeTypeOK'
    BY <1>2, <1>8 DEF cancel_timer, WakeTypeOK, napiVars
  <2>2. (\E l \in CompletionPCs : Goto(a, l)) /\ UNCHANGED <<skb, pollVars>>
    BY <1>8 DEF cancel_timer
  <2> QED BY <1>0, <1>1, <1>8, <2>1, <2>2, CompletionMoveType DEF cancel_timer
<1>9. CASE arm(a)
  <2>1. WakeTypeOK'
    BY <1>2, <1>9 DEF arm, WakeTypeOK, napiVars
  <2>2. Return(a) \/ (Goto(a, "start") /\ skb' = skb)
    BY <1>9 DEF arm
  <2> QED BY <1>0, <1>1, <1>9, <2>1, <2>2, CompletionMoveType DEF arm
<1>10. CASE hrtimer_start(a)
  <2>1. WakeTypeOK'
    BY <1>2, <1>10 DEF hrtimer_start, WakeTypeOK, napiVars
  <2> QED BY <1>0, <1>1, <1>10, <2>1, CompletionMoveType DEF hrtimer_start
<1> QED BY <1>3, <1>4, <1>5, <1>6, <1>7, <1>8, <1>9, <1>10 DEF CompletionStep

(* The steps of the coalesce timer keep the type invariant.                 *)
LEMMA TimerType ==
  ASSUME TypeInv, NEW peer \in Peers, TimerStep(peer)
  PROVE  TypeInv'
<1> USE DEF TypeInv, TypeOK, napiVars
<1>1. UNCHANGED <<knob, queueVars, pc, skb, pollVars>>
  BY DEF TimerStep, timer_expire, timer_clear, timer_wake
<1>2. QueueTypeOK' /\ ActorTypeOK' /\ PollTypeOK' /\ WorkBound'
  BY <1>1 DEF QueueTypeOK, ActorTypeOK, PollTypeOK, WorkBound, queueVars, pollVars
<1>3. CASE timer_expire(peer)
  BY <1>2, <1>3 DEF timer_expire, WakeTypeOK
<1>4. CASE timer_clear(peer)
  BY <1>2, <1>4 DEF timer_clear, WakeTypeOK
<1>5. CASE timer_wake(peer)
  BY <1>2, <1>5, ScheduleType DEF timer_wake, WakeTypeOK
<1> QED BY <1>3, <1>4, <1>5 DEF TimerStep

(* The steps of a poll keep the type invariant.                             *)
LEMMA PollType ==
  ASSUME TypeInv, NEW c \in Cpus, PollStep(c)
  PROVE  TypeInv'
<1> USE DEF TypeInv, TypeOK
<1>0. /\ UNCHANGED <<knob, queueVars>> => QueueTypeOK'
      /\ UNCHANGED <<napiVars, trigVars>> => WakeTypeOK'
      /\ UNCHANGED <<pulled, head>> =>
            pulled' \in [Cpus -> Nat] /\ head' \in [Cpus -> Packets \cup {NULL}]
  BY DEF QueueTypeOK, WakeTypeOK, PollTypeOK, queueVars, napiVars, trigVars
<1>1. /\ pc[c] \in PollPCs \ {"idle"}
      /\ cur[c] \in Peers
  <2>1. pc[c] \in PollPCs \ {"idle"}
    BY DEF PollStep, rx_poll_deliver, rx_poll_blocked, rx_poll_steal, rx_poll_pull,
           rx_poll_stolen, rx_poll_finish, rx_poll_publish, rx_poll_recheck,
           rx_poll_supp, rx_poll_clear_missed, rx_poll_supp_recheck,
           rx_poll_complete, napi_poll_exhausted
  <2> QED BY <2>1 DEF PollTypeOK
<1>2. CASE rx_poll_deliver(c)
  <2>1. PICK p \in Peeks(cur[c]) :
              /\ Deliverable(p)
              /\ rxq' = RxqAfterPeek(cur[c], p)
              /\ pstate' \in {[pstate EXCEPT ![p] = "DELIVERED"],
                              [pstate EXCEPT ![p] = "FREED"]}
    BY <1>2 DEF rx_poll_deliver, Outcomes
  <2>2. p \in Packets /\ rxq' \in [Peers -> Seq(Packets)]
    BY <1>1, <2>1, PeekType DEF Deliverable
  <2>3. QueueTypeOK'
    BY <1>1, <1>2, <2>1, <2>2 DEF rx_poll_deliver, QueueTypeOK
  <2>4. WakeTypeOK'
    BY <1>0, <1>2 DEF rx_poll_deliver
  <2>5. ActorTypeOK'
    BY <1>2, NullAssumption, ActorsAssumption DEF rx_poll_deliver, ActorTypeOK, Goto
  <2>6. PollTypeOK'
    BY <1>1, <1>2, BoundsAssumption, NullAssumption
    DEF rx_poll_deliver, PollTypeOK, ActorTypeOK, WorkBound, Goto
  <2>7. WorkBound'
    BY <1>1, <1>2, BoundsAssumption
    DEF rx_poll_deliver, PollTypeOK, ActorTypeOK, WorkBound, Goto
  <2> QED BY <2>3, <2>4, <2>5, <2>6, <2>7
<1>3. CASE rx_poll_blocked(c)
  <2>1. QueueTypeOK'
    BY <1>1, <1>3, PeekStepType DEF rx_poll_blocked
  <2>2. /\ \E l \in {"steal", "finish"} : Goto(c, l)
        /\ pulled' \in [Cpus -> Nat] /\ head' \in [Cpus -> Packets \cup {NULL}]
        /\ pc[c] \in PollPCs \ {"idle", "exhausted"}
    BY <1>3 DEF rx_poll_blocked, PollTypeOK
  <2>3. UNCHANGED <<skb, cur, work_done>> /\ WakeTypeOK'
    BY <1>0, <1>3 DEF rx_poll_blocked
  <2> QED BY <2>1, <2>2, <2>3, PollMoveType
<1>4. CASE rx_poll_steal(c)
  <2>1. QueueTypeOK'
    <3>1. CASE UNCHANGED <<rxq, peeked>>
      BY <1>0, <1>4, <3>1 DEF rx_poll_steal, queueVars
    <3>2. CASE \E p \in Peeks(cur[c]) : wg_prev_queue_peek(cur[c], p)
      BY <1>1, <1>4, <3>2, PeekStepType DEF rx_poll_steal
    <3> QED BY <1>4, <3>1, <3>2 DEF rx_poll_steal
  <2>2. /\ \E l \in {"pull", "stolen"} : Goto(c, l)
        /\ pc[c] \in PollPCs \ {"idle", "exhausted"}
    BY <1>4 DEF rx_poll_steal
  <2>3. UNCHANGED <<skb, cur, work_done, pulled, head>> /\ WakeTypeOK'
    BY <1>0, <1>4 DEF rx_poll_steal, pollVars
  <2> QED BY <1>0, <2>1, <2>2, <2>3, PollMoveType
<1>5. CASE rx_poll_pull(c) /\ ring # <<>>
  <2>1. Head(ring) \in Packets /\ Tail(ring) \in Seq(Packets)
    BY <1>5 DEF QueueTypeOK
  <2>2. /\ ring' = Tail(ring) /\ skb' = [skb EXCEPT ![c] = Head(ring)]
        /\ pc' = [pc EXCEPT ![c] = "set_state"]
        /\ pulled' = [pulled EXCEPT ![c] = @ + 1]
        /\ UNCHANGED <<knob, pstate, rxq, peeked, work, is_dead>>
        /\ UNCHANGED <<cur, work_done, head>>
        /\ WakeTypeOK'
    BY <1>0, <1>5 DEF rx_poll_pull, Goto
  <2>3. QueueTypeOK'
    BY <2>1, <2>2 DEF QueueTypeOK
  <2>4. ActorTypeOK'
    BY <2>1, <2>2, NullAssumption, ActorsAssumption DEF ActorTypeOK
  <2>5. PollTypeOK'
    BY <1>1, <2>2 DEF ActorTypeOK, PollTypeOK
  <2>6. WorkBound'
    BY <1>5, <2>2 DEF ActorTypeOK, WorkBound, rx_poll_pull
  <2> QED BY <2>2, <2>3, <2>4, <2>5, <2>6
<1>6. CASE rx_poll_pull(c) /\ ring = <<>>
  <2>1. /\ Goto(c, "stolen") /\ pc[c] \in PollPCs \ {"idle", "exhausted"}
        /\ UNCHANGED <<knob, queueVars, skb, cur, work_done, pulled, head>>
        /\ UNCHANGED <<napiVars, trigVars>>
    BY <1>6 DEF rx_poll_pull, queueVars
  <2> QED BY <1>0, <2>1, PollMoveType
<1>7. CASE rx_poll_stolen(c)
  <2>1. QueueTypeOK'
    <3>1. CASE UNCHANGED <<rxq, peeked>>
      BY <1>0, <1>7, <3>1 DEF rx_poll_stolen, queueVars
    <3>2. CASE \E p \in Peeks(cur[c]) : wg_prev_queue_peek(cur[c], p)
      BY <1>1, <1>7, <3>2, PeekStepType DEF rx_poll_stolen
    <3> QED BY <1>7, <3>1, <3>2 DEF rx_poll_stolen
  <2>2. /\ \E l \in {"deliver", "finish"} : Goto(c, l)
        /\ pc[c] \in PollPCs \ {"idle", "exhausted"}
    BY <1>7 DEF rx_poll_stolen
  <2>3. UNCHANGED <<skb, cur, work_done, pulled, head>> /\ WakeTypeOK'
    BY <1>0, <1>7 DEF rx_poll_stolen, pollVars
  <2> QED BY <1>0, <2>1, <2>2, <2>3, PollMoveType
<1>8. CASE rx_poll_finish(c) /\ knob.headwake
  <2>1. PICK p \in Peeks(cur[c]) : /\ wg_prev_queue_peek(cur[c], p)
                                   /\ head' = [head EXCEPT ![c] = p]
    BY <1>8 DEF rx_poll_finish
  <2>2. QueueTypeOK'
    BY <1>1, <1>8, <2>1, PeekStepType DEF rx_poll_finish
  <2>3. head' \in [Cpus -> Packets \cup {NULL}]
    BY <1>1, <2>1, PeekType DEF PollTypeOK
  <2>4. /\ Goto(c, "publish") /\ pc[c] \in PollPCs \ {"idle", "exhausted"}
        /\ UNCHANGED <<skb, cur, work_done>> /\ pulled' \in [Cpus -> Nat]
        /\ WakeTypeOK'
    BY <1>0, <1>8 DEF rx_poll_finish, PollTypeOK
  <2> QED BY <2>2, <2>3, <2>4, PollMoveType
<1>9. CASE rx_poll_finish(c) /\ ~ knob.headwake
  <2>1. /\ Goto(c, "supp") /\ pc[c] \in PollPCs \ {"idle", "exhausted"}
        /\ UNCHANGED <<knob, queueVars, skb, cur, work_done, pulled, head>>
        /\ UNCHANGED <<napiVars, trigVars>>
    BY <1>9 DEF rx_poll_finish, queueVars
  <2> QED BY <1>0, <2>1, PollMoveType
<1>10. CASE rx_poll_publish(c)
  <2>1. WakeTypeOK'
    BY <1>1, <1>10 DEF rx_poll_publish, WakeTypeOK, PollTypeOK, napiVars
  <2>2. /\ Goto(c, "recheck") /\ pc[c] \in PollPCs \ {"idle", "exhausted"}
        /\ UNCHANGED <<knob, queueVars, skb, cur, work_done, pulled, head>>
    BY <1>10 DEF rx_poll_publish, pollVars
  <2> QED BY <1>0, <2>1, <2>2, PollMoveType
<1>11. CASE rx_poll_recheck(c) \/ rx_poll_supp_recheck(c)
  <2>1. /\ SetMissedIfReady(cur[c])
        /\ \E l \in {"supp", "complete"} : Goto(c, l)
        /\ pc[c] \in PollPCs \ {"idle", "exhausted"}
        /\ UNCHANGED <<knob, pstate, ring, work, is_dead>>
        /\ UNCHANGED <<skb, cur, work_done, pulled, head>>
        /\ UNCHANGED <<poll_list, trigVars>>
    BY <1>11 DEF rx_poll_recheck, rx_poll_supp_recheck, pollVars
  <2>2. QueueTypeOK'
    BY <1>1, <2>1, PeekStepType DEF SetMissedIfReady
  <2>3. WakeTypeOK'
    BY <1>1, <2>1, SetMissedType DEF WakeTypeOK, trigVars
  <2> QED BY <1>0, <2>1, <2>2, <2>3, PollMoveType
<1>12. CASE rx_poll_supp(c)
  <2>1. QueueTypeOK'
    <3>1. CASE UNCHANGED <<rxq, peeked>>
      BY <1>0, <1>12, <3>1 DEF rx_poll_supp, queueVars
    <3>2. CASE \E p \in Peeks(cur[c]) : wg_prev_queue_peek(cur[c], p)
      BY <1>1, <1>12, <3>2, PeekStepType DEF rx_poll_supp
    <3> QED BY <1>12, <3>1, <3>2 DEF rx_poll_supp
  <2>2. /\ \E l \in {"clear", "complete"} : Goto(c, l)
        /\ pc[c] \in PollPCs \ {"idle", "exhausted"}
    BY <1>12 DEF rx_poll_supp
  <2>3. UNCHANGED <<skb, cur, work_done, pulled, head>> /\ WakeTypeOK'
    BY <1>0, <1>12 DEF rx_poll_supp, pollVars
  <2> QED BY <1>0, <2>1, <2>2, <2>3, PollMoveType
<1>13. CASE rx_poll_clear_missed(c)
  <2>1. WakeTypeOK'
    BY <1>1, <1>13 DEF rx_poll_clear_missed, WakeTypeOK, trigVars
  <2>2. /\ Goto(c, "supp_recheck") /\ pc[c] \in PollPCs \ {"idle", "exhausted"}
        /\ UNCHANGED <<knob, queueVars, skb, cur, work_done, pulled, head>>
    BY <1>13 DEF rx_poll_clear_missed, pollVars
  <2> QED BY <1>0, <2>1, <2>2, PollMoveType
<1>14. CASE rx_poll_complete(c)
  <2>1. WakeTypeOK'
    BY <1>1, <1>14, CompleteDoneType DEF rx_poll_complete, WakeTypeOK, trigVars
  <2>2. PollReturns(c) /\ UNCHANGED <<knob, queueVars, skb>>
    BY <1>14 DEF rx_poll_complete
  <2> QED BY <1>0, <1>1, <2>1, <2>2, PollReturnType
<1>15. CASE napi_poll_exhausted(c)
  <2>1. WakeTypeOK'
    BY <1>1, <1>15, CompleteDoneType DEF napi_poll_exhausted, WakeTypeOK, trigVars
  <2>2. PollReturns(c) /\ UNCHANGED <<knob, queueVars, skb>>
    BY <1>15 DEF napi_poll_exhausted
  <2> QED BY <1>0, <1>1, <2>1, <2>2, PollReturnType
<1> QED BY <1>2, <1>3, <1>4, <1>5, <1>6, <1>7, <1>8, <1>9, <1>10, <1>11, <1>12,
           <1>13, <1>14, <1>15
        DEF PollStep, rx_poll_pull, rx_poll_finish

(* Every step keeps the type invariant.                                     *)
LEMMA TypeStep ==
  ASSUME TypeInv, [Next]_vars
  PROVE  TypeInv'
<1> USE DEF TypeInv, TypeOK
<1>1. ASSUME NEW c \in Cpus, NEW peer \in Peers, net_rx_action(c, peer)
      PROVE  TypeInv'
  <2>1. QueueTypeOK'
    BY <1>1 DEF net_rx_action, QueueTypeOK, queueVars
  <2>2. WakeTypeOK'
    BY <1>1 DEF net_rx_action, WakeTypeOK
  <2>3. ActorTypeOK'
    BY <1>1, NullAssumption, ActorsAssumption DEF net_rx_action, ActorTypeOK, Goto
  <2>4. PollTypeOK'
    BY <1>1, NullAssumption, BoundsAssumption
    DEF net_rx_action, ActorTypeOK, PollTypeOK, Goto
  <2>5. WorkBound'
    BY <1>1, BoundsAssumption
    DEF net_rx_action, ActorTypeOK, PollTypeOK, WorkBound, Goto
  <2> QED BY <2>1, <2>2, <2>3, <2>4, <2>5
<1>2. CASE param_set \/ UNCHANGED vars
  <2>1. UNCHANGED <<queueVars, napiVars, trigVars, pc, skb, pollVars>> /\ knob' \in KnobSettings
    BY <1>2 DEF param_set, vars, QueueTypeOK
  <2> QED BY <2>1 DEF QueueTypeOK, WakeTypeOK, ActorTypeOK, PollTypeOK, WorkBound,
                     queueVars, napiVars, trigVars, pollVars
<1> QED BY <1>1, <1>2, ProducerType, WorkerType, CompletionType, TimerType,
           PollType DEF Next

(* wg_packet_rx_poll stays within its budget, an actor has a packet in hand *)
(* exactly where the code has one, and every field keeps its type.          *)
THEOREM TypeCorrect == Spec => []TypeOK
<1>1. Init => TypeInv
  BY TypeInit
<1>2. TypeInv /\ [Next]_vars => TypeInv'
  BY TypeStep
<1>3. TypeInv => TypeOK
  BY DEF TypeInv
<1> QED BY <1>1, <1>2, <1>3, PTL DEF Spec

-----------------------------------------------------------------------------
(* One consumer: an instance is on one poll list or in one poll exactly      *)
(* while SCHED is set.                                                       *)

\* SingleConsumer for one peer.
OwnedOnce(peer) ==
    /\ \A c \in Cpus : ~ (peer \in poll_list[c] /\ cur[c] = peer)
    /\ \A c, d \in Cpus : Has(c, peer) /\ Has(d, peer) => c = d
    /\ "NPSVC" \notin napi[peer] =>
          ((\E c \in Cpus : Has(c, peer)) <=> "SCHED" \in napi[peer])

(* Nothing in RxPath itself disables NAPI or removes a peer.                *)
Alive == /\ is_dead = {}
         /\ napi \in [Peers -> SUBSET {"SCHED", "MISSED"}]

ConsumerInv == TypeInv /\ Alive /\ SingleConsumer

(* No instance is scheduled when the device comes up.                       *)
LEMMA ConsumerInit == Init => ConsumerInv
<1> SUFFICES ASSUME Init PROVE Alive /\ SingleConsumer
  BY TypeInit DEF ConsumerInv
<1>1. Alive
  BY DEF Init, Alive, napi_enabled
<1>2. SingleConsumer
  BY NullAssumption DEF Init, SingleConsumer, Has, napi_enabled
<1> QED BY <1>1, <1>2

(* Steps that touch neither the NAPI state nor the instance being polled.   *)
LEMMA SameOwner ==
  ASSUME ConsumerInv, UNCHANGED <<napi, poll_list, cur, is_dead>>
  PROVE  Alive' /\ SingleConsumer'
  BY DEF ConsumerInv, Alive, SingleConsumer, Has

(* Only the caller that sets SCHED puts the instance on a list.             *)
LEMMA ScheduleOwner ==
  ASSUME ConsumerInv, NEW peer \in Peers, NEW C \in SUBSET Cpus,
         napi_schedule(peer, C), UNCHANGED <<cur, is_dead>>
  PROVE  Alive' /\ SingleConsumer'
<1> USE DEF ConsumerInv, TypeInv, TypeOK
<1>1. napi[peer] \in SUBSET {"SCHED", "MISSED"} /\ napi \in [Peers -> SUBSET NapiBits]
  BY DEF Alive, WakeTypeOK
<1>2. Alive'
  BY <1>1 DEF Alive, napi_schedule, napi_schedule_prep
<1>3. CASE "SCHED" \in napi[peer]
  <2>1. napi' = [napi EXCEPT ![peer] = @ \cup {"MISSED"}] /\ poll_list' = poll_list
    BY <1>1, <1>3 DEF napi_schedule, napi_schedule_prep, schedule_prep_owns
  <2>2. \A q \in Peers : ("SCHED" \in napi'[q] <=> "SCHED" \in napi[q]) /\ "NPSVC" \notin napi[q]
    BY <1>1, <1>3, <2>1 DEF Alive
  <2>3. \A c \in Cpus, q \in Peers : Has(c, q)' <=> Has(c, q)
    BY <2>1 DEF Has
  <2>4. SingleConsumer'
    BY <2>1, <2>2, <2>3 DEF SingleConsumer
  <2> QED BY <1>2, <2>4
<1>4. CASE "SCHED" \notin napi[peer]
  <2>1. napi' = [napi EXCEPT ![peer] = @ \cup {"SCHED"}]
    BY <1>1, <1>4 DEF napi_schedule, napi_schedule_prep
  <2>2. PICK c \in C : poll_list' = [poll_list EXCEPT ![c] = @ \cup {peer}]
    BY <1>1, <1>4 DEF napi_schedule, schedule_prep_owns
  <2>3. \A d \in Cpus : ~ Has(d, peer)
    BY <1>1, <1>4 DEF SingleConsumer
  <2>4. \A d \in Cpus : Has(d, peer)' <=> d = c
    BY <2>2, <2>3 DEF Has, WakeTypeOK
  <2>5. \A d \in Cpus, q \in Peers \ {peer} : Has(d, q)' <=> Has(d, q)
    BY <2>2 DEF Has, WakeTypeOK
  <2>6. \A q \in Peers : /\ "NPSVC" \notin napi[q]
                         /\ q # peer => napi'[q] = napi[q]
    BY <2>1 DEF Alive, WakeTypeOK
  <2>7. "SCHED" \in napi'[peer]
    BY <1>1, <2>1
  <2>8. \A d \in Cpus : ~ (peer \in poll_list'[d] /\ cur'[d] = peer)
    BY <2>3 DEF Has
  <2>9. \A d \in Cpus, q \in Peers \ {peer} : ~ (q \in poll_list'[d] /\ cur'[d] = q)
    BY <2>2 DEF SingleConsumer, WakeTypeOK
  <2>10. SingleConsumer'
    BY <2>4, <2>5, <2>6, <2>7, <2>8, <2>9 DEF SingleConsumer
  <2> QED BY <1>2, <2>10
<1> QED BY <1>3, <1>4

(* The poll that has the instance may set or clear MISSED.                  *)
LEMMA MissedOwner ==
  ASSUME ConsumerInv, NEW peer \in Peers,
         \/ napi' = napi
         \/ napi' = [napi EXCEPT ![peer] = @ \cup {"MISSED"}]
         \/ napi' = [napi EXCEPT ![peer] = @ \ {"MISSED"}],
         UNCHANGED <<poll_list, cur, is_dead>>
  PROVE  Alive' /\ SingleConsumer'
<1> USE DEF ConsumerInv
<1>1. Alive'
  BY DEF Alive
<1>2. \A q \in Peers : ("SCHED" \in napi'[q] <=> "SCHED" \in napi[q]) /\ "NPSVC" \notin napi[q]
  BY DEF Alive
<1>3. \A c \in Cpus, q \in Peers : Has(c, q)' <=> Has(c, q)
  BY DEF Has
<1>4. SingleConsumer'
  BY <1>2, <1>3 DEF SingleConsumer
<1> QED BY <1>1, <1>4

(* A poll leaves its instance to a list of its CPU, or asleep.              *)
LEMMA LeaveOwner ==
  ASSUME ConsumerInv, NEW c \in Cpus, NEW peer \in Peers, cur[c] = peer,
         \/ CompleteDone(c, peer)
         \/ poll_list' = [poll_list EXCEPT ![c] = @ \cup {peer}] /\ napi' = napi,
         cur' = [cur EXCEPT ![c] = NULL], UNCHANGED is_dead
  PROVE  Alive' /\ SingleConsumer'
<1> USE DEF ConsumerInv, TypeInv, TypeOK
<1>1. /\ napi[peer] \in SUBSET {"SCHED", "MISSED"} /\ "SCHED" \in napi[peer]
      /\ \A d \in Cpus : Has(d, peer) => d = c
      /\ peer \notin poll_list[c]
  BY DEF Alive, SingleConsumer, Has
<1>2. Alive'
  BY DEF Alive, CompleteDone, napi_complete_done
<1>3. \A d \in Cpus, q \in Peers \ {peer} :
        /\ Has(d, q)' <=> Has(d, q)
        /\ q \in poll_list'[d] <=> q \in poll_list[d]
  BY NullAssumption DEF Has, WakeTypeOK, PollTypeOK, CompleteDone
<1>4. \A q \in Peers \ {peer} : napi'[q] = napi[q]
  BY DEF WakeTypeOK, CompleteDone
<1>5. \A d \in Cpus : cur'[d] # peer
  BY <1>1, NullAssumption DEF Has, PollTypeOK
<1>6. \A d \in Cpus, q \in Peers : cur'[d] = q => cur[d] = q
  BY NullAssumption DEF PollTypeOK
<1>7. ASSUME NEW q \in Peers \ {peer} PROVE OwnedOnce(q)'
  <2>1. OwnedOnce(q)
    BY DEF SingleConsumer, OwnedOnce
  <2>2. \A d \in Cpus : ~ (q \in poll_list'[d] /\ cur'[d] = q)
    BY <1>3, <1>6, <2>1 DEF OwnedOnce
  <2>3. \A d, e \in Cpus : Has(d, q)' /\ Has(e, q)' => d = e
    BY <1>3, <2>1 DEF OwnedOnce
  <2>4. "NPSVC" \notin napi'[q] =>
           ((\E d \in Cpus : Has(d, q)') <=> "SCHED" \in napi'[q])
    BY <1>3, <1>4, <2>1 DEF OwnedOnce
  <2> QED BY <2>2, <2>3, <2>4 DEF OwnedOnce
<1>8. CASE "SCHED" \in napi'[peer]
  <2>1. poll_list' = [poll_list EXCEPT ![c] = @ \cup {peer}]
    BY <1>1, <1>8 DEF CompleteDone, complete_allowed, napi_complete_done, WakeTypeOK
  <2>2. \A d \in Cpus : Has(d, peer)' <=> d = c
    BY <1>1, <1>5, <2>1 DEF Has, WakeTypeOK
  <2>3. OwnedOnce(peer)'
    BY <1>5, <1>8, <2>2 DEF OwnedOnce
  <2> QED BY <1>2, <1>7, <2>3 DEF SingleConsumer, OwnedOnce
<1>9. CASE "SCHED" \notin napi'[peer]
  <2>1. poll_list' = poll_list
    BY <1>1, <1>9 DEF CompleteDone, complete_allowed, napi_complete_done, WakeTypeOK
  <2>2. \A d \in Cpus : ~ Has(d, peer)'
    BY <1>1, <1>5, <2>1 DEF Has
  <2>3. OwnedOnce(peer)'
    BY <1>5, <1>9, <2>2 DEF OwnedOnce
  <2> QED BY <1>2, <1>7, <2>3 DEF SingleConsumer, OwnedOnce
<1> QED BY <1>8, <1>9

(* net_rx_action moves the instance from the list into the poll.            *)
LEMMA TakeOwner ==
  ASSUME ConsumerInv, NEW c \in Cpus, NEW peer \in Peers, net_rx_action(c, peer)
  PROVE  Alive' /\ SingleConsumer'
<1> USE DEF ConsumerInv, TypeInv, TypeOK
<1>1. /\ "SCHED" \in napi[peer] /\ cur[c] = NULL /\ peer \in poll_list[c]
      /\ \A d \in Cpus : Has(d, peer) => d = c
  BY DEF net_rx_action, Alive, SingleConsumer, Has, PollTypeOK
<1>2. /\ poll_list' = [poll_list EXCEPT ![c] = @ \ {peer}]
      /\ cur' = [cur EXCEPT ![c] = peer]
      /\ UNCHANGED <<napi, is_dead>>
  BY <1>1 DEF net_rx_action, queueVars
<1>3. Alive'
  BY <1>2 DEF Alive
<1>4. \A d \in Cpus, q \in Peers : Has(d, q)' <=> Has(d, q)
  BY <1>1, <1>2, NullAssumption DEF Has, WakeTypeOK, PollTypeOK
<1>5. \A q \in Peers, d \in Cpus : ~ (q \in poll_list'[d] /\ cur'[d] = q)
  BY <1>1, <1>2 DEF SingleConsumer, WakeTypeOK, PollTypeOK
<1>6. SingleConsumer'
  BY <1>2, <1>4, <1>5 DEF SingleConsumer
<1> QED BY <1>3, <1>6

(* Every step keeps the single-consumer invariant.                          *)
LEMMA ConsumerStep ==
  ASSUME ConsumerInv, [Next]_vars
  PROVE  ConsumerInv'
<1> USE DEF queueVars, napiVars, trigVars, pollVars
<1>0. TypeInv' /\ TypeOK
  BY TypeStep DEF ConsumerInv, TypeInv
<1>1. ASSUME NEW a \in Producers,
             ProducerStep(a) \/ \E p \in Packets : consume_data(a, p) \/ consume_data_drop(a, p)
      PROVE  Alive' /\ SingleConsumer'
  <2>1. UNCHANGED <<napi, poll_list, cur, is_dead>>
    BY <1>1 DEF ProducerStep, consume_data, consume_data_drop, prev_queue_enqueue,
                prev_queue_link, ring_produce, queue_work
  <2> QED BY <2>1, SameOwner
<1>2. ASSUME NEW w \in Workers, WorkerStep(w) PROVE Alive' /\ SingleConsumer'
  <2>1. UNCHANGED <<napi, poll_list, cur, is_dead>>
    BY <1>2 DEF WorkerStep, worker_start, worker_consume
  <2> QED BY <2>1, SameOwner
<1>3. ASSUME NEW a \in Actors, CompletionStep(a) PROVE Alive' /\ SingleConsumer'
  <2>1. CASE wake(a)
    <3>1. PeerOf[skb[a]] \in Peers
      BY <1>0, <2>1, PeerOfAssumption DEF TypeOK, ActorTypeOK, wake
    <3> QED BY <2>1, <3>1, ScheduleOwner DEF wake
  <2>2. CASE ~ wake(a)
    <3>1. UNCHANGED <<napi, poll_list, cur, is_dead>>
      BY <1>3, <2>2 DEF CompletionStep, set_state, gate, inc_ready, disarm,
                       cancel_timer, arm, hrtimer_start
    <3> QED BY <3>1, SameOwner
  <2> QED BY <2>1, <2>2
<1>4. ASSUME NEW peer \in Peers, TimerStep(peer) PROVE Alive' /\ SingleConsumer'
  <2>1. CASE timer_wake(peer)
    BY <2>1, ScheduleOwner DEF timer_wake
  <2>2. CASE timer_expire(peer) \/ timer_clear(peer)
    <3>1. UNCHANGED <<napi, poll_list, cur, is_dead>>
      BY <2>2 DEF timer_expire, timer_clear
    <3> QED BY <3>1, SameOwner
  <2> QED BY <1>4, <2>1, <2>2 DEF TimerStep
<1>5. ASSUME NEW c \in Cpus, PollStep(c) PROVE Alive' /\ SingleConsumer'
  <2>1. CASE rx_poll_deliver(c) \/ rx_poll_blocked(c) \/ rx_poll_steal(c)
             \/ rx_poll_pull(c) \/ rx_poll_stolen(c) \/ rx_poll_finish(c)
             \/ rx_poll_publish(c) \/ rx_poll_supp(c)
    <3>1. UNCHANGED <<napi, poll_list, cur, is_dead>>
      BY <2>1 DEF rx_poll_deliver, rx_poll_blocked, rx_poll_steal, rx_poll_pull,
                  rx_poll_stolen, rx_poll_finish, rx_poll_publish, rx_poll_supp
    <3> QED BY <3>1, SameOwner
  <2>2. CASE rx_poll_recheck(c) \/ rx_poll_clear_missed(c) \/ rx_poll_supp_recheck(c)
    <3>1. cur[c] \in Peers
      BY <1>0, <2>2 DEF TypeOK, PollTypeOK, rx_poll_recheck, rx_poll_clear_missed,
                        rx_poll_supp_recheck
    <3>2. UNCHANGED <<poll_list, cur, is_dead>>
      BY <2>2 DEF rx_poll_recheck, rx_poll_clear_missed, rx_poll_supp_recheck
    <3>3. \/ napi' = napi
          \/ napi' = [napi EXCEPT ![cur[c]] = @ \cup {"MISSED"}]
          \/ napi' = [napi EXCEPT ![cur[c]] = @ \ {"MISSED"}]
      BY <2>2 DEF rx_poll_recheck, rx_poll_clear_missed, rx_poll_supp_recheck,
                  SetMissedIfReady
    <3> QED BY <3>1, <3>2, <3>3, MissedOwner
  <2>3. CASE rx_poll_complete(c) \/ napi_poll_exhausted(c)
    <3>1. cur[c] \in Peers
      BY <1>0, <2>3 DEF TypeOK, PollTypeOK, rx_poll_complete, napi_poll_exhausted
    <3>2. cur' = [cur EXCEPT ![c] = NULL] /\ UNCHANGED is_dead
      BY <2>3 DEF rx_poll_complete, napi_poll_exhausted, PollReturns
    <3>3. \/ CompleteDone(c, cur[c])
          \/ poll_list' = [poll_list EXCEPT ![c] = @ \cup {cur[c]}] /\ napi' = napi
      BY <2>3 DEF rx_poll_complete, napi_poll_exhausted
    <3> QED BY <3>1, <3>2, <3>3, LeaveOwner
  <2> QED BY <1>5, <2>1, <2>2, <2>3 DEF PollStep
<1>6. CASE param_set \/ UNCHANGED vars
  <2>1. UNCHANGED <<napi, poll_list, cur, is_dead>>
    BY <1>6 DEF param_set, vars
  <2> QED BY <1>0, <2>1, SameOwner DEF ConsumerInv
<1> QED BY <1>0, <1>1, <1>2, <1>3, <1>4, <1>5, <1>6, TakeOwner DEF Next, ConsumerInv

(* An rx_queue never has two consumers at once, whichever CPUs its packets   *)
(* complete on and however wg_headwake and wg_supp set and clear MISSED.     *)
THEOREM OneConsumer == Spec => []SingleConsumer
<1>1. Init => ConsumerInv
  BY ConsumerInit
<1>2. ConsumerInv /\ [Next]_vars => ConsumerInv'
  BY ConsumerStep
<1>3. ConsumerInv => SingleConsumer
  BY DEF ConsumerInv
<1> QED BY <1>1, <1>2, <1>3, PTL DEF Spec

-----------------------------------------------------------------------------
(* One debtor: who owes a packet its completion.                             *)

\* OneCompletionOwed for one packet.
OwedOnce(p) ==
    /\ pstate[p] = "UNCRYPTED" <=> InRing(p) \/ \E a \in Actors : Owes(a, p)
    /\ \A a \in Actors : Owes(a, p) => ~ InRing(p)
    /\ \A a, b \in Actors : Owes(a, p) /\ Owes(b, p) => a = b
    /\ \A i, j \in DOMAIN ring : ring[i] = p /\ ring[j] = p => i = j

OwnerInv == TypeInv /\ OneCompletionOwed

(* Sequences: what Tail and Append do to the elements.                      *)
LEMMA TailFacts ==
  ASSUME NEW q \in Seq(Packets), q # <<>>
  PROVE  /\ Tail(q) \in Seq(Packets)
         /\ 1 \in DOMAIN q /\ Head(q) = q[1] /\ q[1] \in Packets
         /\ \A i \in DOMAIN Tail(q) : /\ i + 1 \in DOMAIN q
                                      /\ Tail(q)[i] = q[i + 1]
                                      /\ i + 1 # 1
         /\ \A i \in DOMAIN q : i # 1 => /\ i - 1 \in DOMAIN Tail(q)
                                         /\ Tail(q)[i - 1] = q[i]
  OBVIOUS

(* An element of Append(s, e) is one of s, or e at the end.                 *)
LEMMA AppendFacts ==
  ASSUME NEW q \in Seq(Packets), NEW p \in Packets
  PROVE  /\ Append(q, p) \in Seq(Packets)
         /\ Len(q) + 1 \in DOMAIN Append(q, p)
         /\ Append(q, p)[Len(q) + 1] = p
         /\ Len(q) + 1 \notin DOMAIN q
         /\ \A i \in DOMAIN q : i \in DOMAIN Append(q, p) /\ Append(q, p)[i] = q[i]
         /\ \A i \in DOMAIN Append(q, p) : i \in DOMAIN q \/ i = Len(q) + 1
  OBVIOUS

(* Before the first packet arrives nobody owes a completion.                *)
LEMMA OwnerInit == Init => OwnerInv
<1> SUFFICES ASSUME Init PROVE OneCompletionOwed
  BY TypeInit DEF OwnerInv
<1>1. ring = <<>> /\ DOMAIN ring = {}
  BY DEF Init
<1>2. \A p \in Packets : pstate[p] = "WIRE" /\ ~ InRing(p)
  BY <1>1 DEF Init, InRing
<1>3. \A a \in Actors, p \in Packets : ~ Owes(a, p)
  BY DEF Init, Owes
<1> QED BY <1>1, <1>2, <1>3 DEF OneCompletionOwed

(* A packet whose state, ring slots and debtors do not change.              *)
LEMMA SameDebt ==
  ASSUME NEW p \in Packets, OwedOnce(p),
         pstate'[p] = "UNCRYPTED" <=> pstate[p] = "UNCRYPTED",
         \A a \in Actors : Owes(a, p)' <=> Owes(a, p),
         UNCHANGED ring
  PROVE  OwedOnce(p)'
  BY DEF OwedOnce, InRing

(* A step of actor a between places where it owes nothing, or that owe the  *)
(* same packet, changes nobody's debt.                                      *)
LEMMA SameDebts ==
  ASSUME OwnerInv, NEW a \in Actors,
         \A b \in Actors \ {a} : pc'[b] = pc[b] /\ skb'[b] = skb[b],
         \A p \in Packets : Owes(a, p)' <=> Owes(a, p),
         \A p \in Packets : pstate'[p] = "UNCRYPTED" <=> pstate[p] = "UNCRYPTED",
         UNCHANGED ring
  PROVE  OneCompletionOwed'
<1> SUFFICES ASSUME NEW p \in Packets PROVE OwedOnce(p)'
  BY DEF OneCompletionOwed, OwedOnce
<1>1. \A b \in Actors : Owes(b, p)' <=> Owes(b, p)
  BY DEF Owes
<1> QED BY <1>1, SameDebt DEF OwnerInv, OneCompletionOwed, OwedOnce

(* The new packet of wg_packet_consume_data.                                *)
LEMMA NewDebt ==
  ASSUME OwnerInv, NEW a \in Producers, NEW p \in Packets, consume_data(a, p)
  PROVE  OneCompletionOwed'
<1> USE DEF OwnerInv, TypeInv, TypeOK
<1>1. /\ pc[a] = "idle" /\ pstate[p] = "WIRE" /\ ring' = ring
      /\ pc \in [Actors -> ProducerPCs \cup WorkerPCs \cup CompletionPCs \cup PollPCs]
      /\ skb \in [Actors -> Packets \cup {NULL}]
      /\ pstate \in [Packets -> PacketStates]
  BY DEF consume_data, ActorTypeOK, QueueTypeOK
<1>2. \A q \in Packets : ~ Owes(a, q)
  BY <1>1 DEF Owes
<1>3. CASE /\ pstate' = [pstate EXCEPT ![p] = "UNCRYPTED"]
           /\ skb' = [skb EXCEPT ![a] = p] /\ pc' = [pc EXCEPT ![a] = "enqueue"]
  <2>1. \A b \in Actors, q \in Packets : q # p => (Owes(b, q)' <=> Owes(b, q))
    BY <1>1, <1>2, <1>3 DEF Owes
  <2>2. ASSUME NEW q \in Packets, q # p PROVE OwedOnce(q)'
    <3>1. OwedOnce(q)
      BY DEF OneCompletionOwed, OwedOnce
    <3>2. pstate'[q] = pstate[q]
      BY <1>1, <1>3, <2>2
    <3> QED BY <1>1, <2>1, <2>2, <3>1, <3>2, SameDebt
  <2>3. ~ InRing(p) /\ \A b \in Actors : ~ Owes(b, p)
    BY <1>1 DEF OneCompletionOwed
  <2>4. ~ InRing(p)'
    BY <1>1, <2>3 DEF InRing
  <2>5. \A b \in Actors : Owes(b, p)' <=> b = a
    BY <1>1, <1>3, <2>3 DEF Owes
  <2>6. pstate'[p] = "UNCRYPTED"
    BY <1>1, <1>3
  <2>7. OwedOnce(p)'
    BY <1>1, <2>4, <2>5, <2>6 DEF OwedOnce, InRing
  <2> QED BY <2>2, <2>7 DEF OneCompletionOwed, OwedOnce
<1>4. CASE pstate' = [pstate EXCEPT ![p] = "FREED"] /\ UNCHANGED <<skb, pc>>
  <2>1. \A q \in Packets : pstate'[q] = "UNCRYPTED" <=> pstate[q] = "UNCRYPTED"
    BY <1>1, <1>4
  <2> QED BY <1>1, <1>4, <2>1, SameDebts DEF Owes
<1> QED BY <1>3, <1>4 DEF consume_data, Goto

(* The packet moves from a producer's hand into the ring.                   *)
LEMMA DebtToRing ==
  ASSUME OwnerInv, NEW a \in Producers, ring_produce(a)
  PROVE  OneCompletionOwed'
<1> USE DEF OwnerInv, TypeInv, TypeOK
<1>1. /\ pc[a] = "produce" /\ skb' = skb /\ pstate' = pstate
      /\ pc \in [Actors -> ProducerPCs \cup WorkerPCs \cup CompletionPCs \cup PollPCs]
      /\ skb[a] \in Packets /\ ring \in Seq(Packets)
  BY DEF ring_produce, ActorTypeOK, QueueTypeOK
<1>2. CASE ring' = ring /\ pc' = [pc EXCEPT ![a] = "set_state"]
  BY <1>1, <1>2, SameDebts DEF Owes
<1>3. CASE ring' = Append(ring, skb[a]) /\ pc' = [pc EXCEPT ![a] = "kick"]
  <2> DEFINE p == skb[a]
  <2>1. /\ Owes(a, p) /\ ~ InRing(p) /\ pstate[p] = "UNCRYPTED"
        /\ \A b \in Actors : Owes(b, p) => b = a
    BY <1>1 DEF OneCompletionOwed, Owes
  <2>2. \A b \in Actors, q \in Packets : Owes(b, q)' <=> Owes(b, q) /\ b # a
    BY <1>1, <1>3 DEF Owes
  <2>3. \A q \in Packets : InRing(q)' <=> InRing(q) \/ q = p
    BY <1>1, <1>3, AppendFacts DEF InRing
  <2>4. ASSUME NEW q \in Packets PROVE OwedOnce(q)'
    <3>1. OwedOnce(q)
      BY DEF OneCompletionOwed, OwedOnce
    <3>2. \A i, j \in DOMAIN ring' : ring'[i] = q /\ ring'[j] = q => i = j
      <4> SUFFICES ASSUME NEW i \in DOMAIN ring', NEW j \in DOMAIN ring',
                          ring'[i] = q, ring'[j] = q
                   PROVE  i = j
        OBVIOUS
      <4>1. CASE i \in DOMAIN ring /\ j \in DOMAIN ring
        BY <1>1, <1>3, <3>1, <4>1, AppendFacts DEF OwedOnce
      <4>2. CASE i \notin DOMAIN ring \/ j \notin DOMAIN ring
        <5>1. \A k \in DOMAIN ring' : k \in DOMAIN ring \/ k = Len(ring) + 1
          BY <1>1, <1>3, AppendFacts
        <5>2. q = p
          BY <1>1, <1>3, <4>2, <5>1, AppendFacts
        <5>3. \A k \in DOMAIN ring : ring'[k] # p
          BY <1>1, <1>3, <2>1, AppendFacts DEF InRing
        <5> QED BY <5>1, <5>2, <5>3
      <4> QED BY <4>1, <4>2
    <3>3. pstate'[q] = "UNCRYPTED" <=> InRing(q)' \/ \E b \in Actors : Owes(b, q)'
      <4>1. CASE q = p
        BY <1>1, <2>1, <2>3, <4>1
      <4>2. CASE q # p
        <5>1. ~ Owes(a, q)
          BY <4>2 DEF Owes
        <5> QED BY <1>1, <2>2, <2>3, <3>1, <4>2, <5>1 DEF OwedOnce
      <4> QED BY <4>1, <4>2
    <3>4. \A b \in Actors : Owes(b, q)' => ~ InRing(q)'
      BY <2>1, <2>2, <2>3, <3>1 DEF OwedOnce
    <3>5. \A b, d \in Actors : Owes(b, q)' /\ Owes(d, q)' => b = d
      BY <2>2, <3>1 DEF OwedOnce
    <3> QED BY <3>2, <3>3, <3>4, <3>5 DEF OwedOnce
  <2> QED BY <2>4 DEF OneCompletionOwed, OwedOnce
<1> QED BY <1>2, <1>3 DEF ring_produce, Goto

(* The ring's first packet moves into the hand of a worker or a poll.       *)
LEMMA DebtFromRing ==
  ASSUME OwnerInv, NEW a \in Actors, ring # <<>>,
         pc[a] \in {"consume", "pull"},
         ring' = Tail(ring), skb' = [skb EXCEPT ![a] = Head(ring)],
         pc' = [pc EXCEPT ![a] = "set_state"], UNCHANGED pstate
  PROVE  OneCompletionOwed'
<1> USE DEF OwnerInv, TypeInv, TypeOK
<1> DEFINE p == ring[1]
<1>1. /\ pc \in [Actors -> ProducerPCs \cup WorkerPCs \cup CompletionPCs \cup PollPCs]
      /\ skb \in [Actors -> Packets \cup {NULL}] /\ ring \in Seq(Packets)
  BY DEF ActorTypeOK, QueueTypeOK
<1>2. 1 \in DOMAIN ring /\ p \in Packets /\ Head(ring) = p
  BY <1>1, TailFacts
<1>3. /\ InRing(p) /\ pstate[p] = "UNCRYPTED"
      /\ \A b \in Actors : ~ Owes(b, p)
      /\ \A i \in DOMAIN ring : ring[i] = p => i = 1
  BY <1>2 DEF OneCompletionOwed, InRing
<1>4. \A b \in Actors, q \in Packets :
         Owes(b, q)' <=> Owes(b, q) \/ (b = a /\ q = p)
  BY <1>1, <1>2 DEF Owes
<1>5. \A q \in Packets : InRing(q)' <=> InRing(q) /\ q # p
  <2> SUFFICES ASSUME NEW q \in Packets PROVE InRing(q)' <=> InRing(q) /\ q # p
    OBVIOUS
  <2>1. ASSUME InRing(q)' PROVE InRing(q) /\ q # p
    <3>1. PICK i \in DOMAIN Tail(ring) : Tail(ring)[i] = q
      BY <2>1 DEF InRing
    <3>2. i + 1 \in DOMAIN ring /\ ring[i + 1] = q /\ i + 1 # 1
      BY <1>1, <3>1, TailFacts
    <3> QED BY <1>3, <3>2 DEF InRing
  <2>2. ASSUME InRing(q), q # p PROVE InRing(q)'
    <3>1. PICK i \in DOMAIN ring : ring[i] = q
      BY <2>2 DEF InRing
    <3>2. i - 1 \in DOMAIN Tail(ring) /\ Tail(ring)[i - 1] = q
      BY <1>1, <2>2, <3>1, TailFacts
    <3> QED BY <3>2 DEF InRing
  <2> QED BY <2>1, <2>2
<1>6. ASSUME NEW q \in Packets PROVE OwedOnce(q)'
  <2>1. OwedOnce(q)
    BY DEF OneCompletionOwed, OwedOnce
  <2>2. \A i, j \in DOMAIN ring' : ring'[i] = q /\ ring'[j] = q => i = j
    <3> SUFFICES ASSUME NEW i \in DOMAIN ring', NEW j \in DOMAIN ring',
                        ring'[i] = q, ring'[j] = q
                 PROVE  i = j
      OBVIOUS
    <3>1. /\ i + 1 \in DOMAIN ring /\ ring[i + 1] = q
          /\ j + 1 \in DOMAIN ring /\ ring[j + 1] = q
      BY <1>1, TailFacts
    <3>2. i + 1 = j + 1
      BY <2>1, <3>1 DEF OwedOnce
    <3>3. i \in Int /\ j \in Int
      BY <1>1, TailFacts
    <3> QED BY <3>2, <3>3
  <2>3. pstate'[q] = "UNCRYPTED" <=> InRing(q)' \/ \E b \in Actors : Owes(b, q)'
    <3>1. CASE q = p
      BY <1>3, <1>4, <1>2, <3>1
    <3>2. CASE q # p
      BY <1>4, <1>5, <2>1, <3>2 DEF OwedOnce
    <3> QED BY <3>1, <3>2
  <2>4. \A b \in Actors : Owes(b, q)' => ~ InRing(q)'
    BY <1>4, <1>5, <2>1 DEF OwedOnce
  <2>5. \A b, d \in Actors : Owes(b, q)' /\ Owes(d, q)' => b = d
    BY <1>3, <1>4, <2>1 DEF OwedOnce
  <2> QED BY <2>2, <2>3, <2>4, <2>5 DEF OwedOnce
<1> QED BY <1>6 DEF OneCompletionOwed, OwedOnce

(* The store of the packet's new state pays the debt.                       *)
LEMMA DebtPaid ==
  ASSUME OwnerInv, NEW a \in Actors, set_state(a)
  PROVE  OneCompletionOwed'
<1> USE DEF OwnerInv, TypeInv, TypeOK
<1> DEFINE p == skb[a]
<1>1. /\ pc \in [Actors -> ProducerPCs \cup WorkerPCs \cup CompletionPCs \cup PollPCs]
      /\ p \in Packets /\ pstate \in [Packets -> PacketStates]
      /\ pc[a] = "set_state" /\ skb' = skb /\ ring' = ring
  BY DEF set_state, ActorTypeOK, QueueTypeOK
<1>2. PICK s \in {"CRYPTED", "DEAD"}, l \in {"gate", "wake"} :
         pstate' = [pstate EXCEPT ![p] = s] /\ pc' = [pc EXCEPT ![a] = l]
  BY DEF set_state, Verdicts, Goto
<1>3. /\ Owes(a, p) /\ ~ InRing(p)
      /\ \A b \in Actors : Owes(b, p) => b = a
  BY <1>1 DEF OneCompletionOwed, Owes
<1>4. \A b \in Actors, q \in Packets : Owes(b, q)' <=> Owes(b, q) /\ b # a
  BY <1>1, <1>2 DEF Owes
<1>5. ASSUME NEW q \in Packets, q # p PROVE OwedOnce(q)'
  <2>1. OwedOnce(q) /\ ~ Owes(a, q)
    BY <1>5 DEF OneCompletionOwed, OwedOnce, Owes
  <2>2. pstate'[q] = pstate[q]
    BY <1>1, <1>2, <1>5
  <2> QED BY <1>1, <1>4, <2>1, <2>2, SameDebt
<1>6. ASSUME NEW q \in Packets, q = p PROVE OwedOnce(q)'
  <2>1. OwedOnce(q) /\ ~ InRing(q)' /\ pstate'[q] # "UNCRYPTED"
    BY <1>1, <1>2, <1>3, <1>6 DEF OneCompletionOwed, OwedOnce, InRing
  <2>2. \A b \in Actors : ~ Owes(b, q)'
    BY <1>3, <1>4, <1>6
  <2> QED BY <1>1, <2>1, <2>2 DEF OwedOnce
<1> QED BY <1>5, <1>6 DEF OneCompletionOwed, OwedOnce

(* Every step keeps the completion debts in order.                          *)
LEMMA OwnerStep ==
  ASSUME OwnerInv, [Next]_vars
  PROVE  OwnerInv'
<1> USE DEF OwnerInv, queueVars, napiVars, trigVars, pollVars, Goto
<1>0. /\ TypeInv' /\ QueueTypeOK /\ ActorTypeOK
      /\ pc \in [Actors -> ProducerPCs \cup WorkerPCs \cup CompletionPCs \cup PollPCs]
      /\ skb \in [Actors -> Packets \cup {NULL}]
      /\ pstate \in [Packets -> PacketStates]
  BY TypeStep DEF TypeInv, TypeOK, ActorTypeOK, QueueTypeOK
<1>1. ASSUME UNCHANGED <<pstate, ring, pc, skb>> PROVE OneCompletionOwed'
  BY <1>1 DEF OneCompletionOwed, Owes, InRing
<1>2. ASSUME NEW a \in Producers, NEW p \in Packets, consume_data_drop(a, p)
      PROVE  OneCompletionOwed'
  <2>1. \A q \in Packets : pstate'[q] = "UNCRYPTED" <=> pstate[q] = "UNCRYPTED"
    BY <1>0, <1>2 DEF consume_data_drop
  <2>2. UNCHANGED <<ring, pc, skb>>
    BY <1>2 DEF consume_data_drop
  <2> QED BY <2>1, <2>2, SameDebts DEF Owes
<1>3. ASSUME NEW a \in Producers, ProducerStep(a) PROVE OneCompletionOwed'
  <2>1. CASE prev_queue_enqueue(a)
    <3>1. /\ pc[a] = "enqueue" /\ pc' = [pc EXCEPT ![a] = "link"]
          /\ UNCHANGED <<pstate, ring, skb>>
      BY <2>1 DEF prev_queue_enqueue
    <3> QED BY <1>0, <3>1, SameDebts DEF Owes
  <2>2. CASE prev_queue_link(a)
    <3>1. /\ pc[a] = "link" /\ pc' = [pc EXCEPT ![a] = "produce"]
          /\ UNCHANGED <<pstate, ring, skb>>
      BY <2>2 DEF prev_queue_link
    <3> QED BY <1>0, <3>1, SameDebts DEF Owes
  <2>3. CASE queue_work(a)
    <3>1. /\ pc[a] = "kick" /\ pc' = [pc EXCEPT ![a] = "idle"]
          /\ skb' = [skb EXCEPT ![a] = NULL] /\ UNCHANGED <<pstate, ring>>
      BY <2>3 DEF queue_work
    <3> QED BY <1>0, <3>1, SameDebts DEF Owes
  <2> QED BY <1>3, <2>1, <2>2, <2>3, DebtToRing DEF ProducerStep
<1>4. ASSUME NEW w \in Workers, WorkerStep(w) PROVE OneCompletionOwed'
  <2>1. CASE worker_start(w) \/ (worker_consume(w) /\ ring = <<>>)
    <3>1. /\ pc[w] \in {"idle", "consume"}
          /\ \E l \in {"idle", "consume"} : pc' = [pc EXCEPT ![w] = l]
          /\ UNCHANGED <<pstate, ring, skb>>
      BY <2>1 DEF worker_start, worker_consume
    <3> QED BY <1>0, <3>1, SameDebts DEF Owes
  <2>2. CASE worker_consume(w) /\ ring # <<>>
    <3>1. /\ pc[w] = "consume" /\ ring' = Tail(ring)
          /\ skb' = [skb EXCEPT ![w] = Head(ring)]
          /\ pc' = [pc EXCEPT ![w] = "set_state"] /\ UNCHANGED pstate
      BY <2>2 DEF worker_consume
    <3> QED BY <2>2, <3>1, DebtFromRing
  <2> QED BY <1>4, <2>1, <2>2 DEF WorkerStep
<1>5. ASSUME NEW a \in Actors, CompletionStep(a) PROVE OneCompletionOwed'
  <2>1. CASE ~ set_state(a)
    <3>1. /\ pc[a] \in CompletionPCs \ {"set_state"}
          /\ \E l \in (CompletionPCs \ {"set_state"}) \cup {"idle", "consume", "steal"} :
                pc' = [pc EXCEPT ![a] = l]
          /\ \E s \in {NULL, skb[a]} : skb' = [skb EXCEPT ![a] = s]
          /\ UNCHANGED <<pstate, ring>>
      <4>1. skb' = skb => skb' = [skb EXCEPT ![a] = skb[a]]
        BY <1>0
      <4> QED BY <1>5, <2>1, <4>1
              DEF CompletionStep, gate, wake, inc_ready, disarm, cancel_timer, arm,
                  hrtimer_start, Return
    <3> QED BY <1>0, <3>1, SameDebts DEF Owes
  <2> QED BY <2>1, DebtPaid
<1>6. ASSUME NEW c \in Cpus, PollStep(c) PROVE OneCompletionOwed'
  <2>1. CASE rx_poll_pull(c) /\ ring # <<>>
    <3>1. /\ pc[c] = "pull" /\ ring' = Tail(ring)
          /\ skb' = [skb EXCEPT ![c] = Head(ring)]
          /\ pc' = [pc EXCEPT ![c] = "set_state"] /\ UNCHANGED pstate
      BY <2>1 DEF rx_poll_pull
    <3> QED BY <2>1, <3>1, DebtFromRing
  <2>2. CASE rx_poll_deliver(c)
    <3>1. /\ pc[c] = "deliver" /\ UNCHANGED <<ring, skb>>
          /\ \E l \in {"deliver", "exhausted"} : pc' = [pc EXCEPT ![c] = l]
      BY <2>2 DEF rx_poll_deliver
    <3>2. PICK p : /\ Deliverable(p)
                   /\ \E s \in {"DELIVERED", "FREED"} : pstate' = [pstate EXCEPT ![p] = s]
      BY <2>2 DEF rx_poll_deliver, Outcomes
    <3>3. \A q \in Packets : pstate'[q] = "UNCRYPTED" <=> pstate[q] = "UNCRYPTED"
      BY <1>0, <3>2 DEF Deliverable
    <3> QED BY <1>0, <3>1, <3>3, SameDebts DEF Owes
  <2>3. CASE \/ rx_poll_blocked(c) \/ rx_poll_steal(c) \/ rx_poll_stolen(c)
             \/ rx_poll_pull(c) /\ ring = <<>>
             \/ rx_poll_finish(c) \/ rx_poll_publish(c) \/ rx_poll_recheck(c)
             \/ rx_poll_supp(c) \/ rx_poll_clear_missed(c)
             \/ rx_poll_supp_recheck(c) \/ rx_poll_complete(c)
             \/ napi_poll_exhausted(c)
    <3>1. /\ pc[c] \in PollPCs
          /\ \E l \in PollPCs : pc' = [pc EXCEPT ![c] = l]
          /\ UNCHANGED <<pstate, ring, skb>>
      BY <2>3 DEF rx_poll_blocked, rx_poll_steal, rx_poll_stolen, rx_poll_pull,
                  rx_poll_finish, rx_poll_publish, rx_poll_recheck, rx_poll_supp,
                  rx_poll_clear_missed, rx_poll_supp_recheck, rx_poll_complete,
                  napi_poll_exhausted, PollReturns
    <3> QED BY <1>0, <3>1, SameDebts DEF Owes
  <2> QED BY <1>6, <2>1, <2>2, <2>3 DEF PollStep
<1>7. ASSUME NEW c \in Cpus, NEW peer \in Peers, net_rx_action(c, peer)
      PROVE  OneCompletionOwed'
  <2>1. /\ pc[c] = "idle" /\ UNCHANGED <<pstate, ring, skb>>
        /\ \E l \in {"idle", "deliver"} : pc' = [pc EXCEPT ![c] = l]
    BY <1>0, <1>7 DEF net_rx_action
  <2> QED BY <1>0, <2>1, SameDebts DEF Owes
<1>8. ASSUME NEW peer \in Peers, TimerStep(peer) PROVE OneCompletionOwed'
  BY <1>1, <1>8 DEF TimerStep, timer_expire, timer_clear, timer_wake
<1>9. CASE param_set \/ UNCHANGED vars
  BY <1>0, <1>1, <1>9 DEF param_set, vars
<1> QED BY <1>0, <1>2, <1>3, <1>4, <1>5, <1>6, <1>7, <1>8, <1>9, NewDebt DEF Next

(* A packet is UNCRYPTED exactly while one producer, ring slot, worker or    *)
(* stealing poll owes it the completion, so no late writer reaches a packet  *)
(* that was delivered or freed, whatever the interleaving.                   *)
THEOREM OneDebtor == Spec => []OneCompletionOwed
<1>1. Init => OwnerInv
  BY OwnerInit
<1>2. OwnerInv /\ [Next]_vars => OwnerInv'
  BY OwnerStep
<1>3. OwnerInv => OneCompletionOwed
  BY DEF OwnerInv
<1> QED BY <1>1, <1>2, <1>3, PTL DEF Spec

-----------------------------------------------------------------------------
(* One place: where packets are.                                             *)

\* The states of a queued packet.
Queued == {"UNCRYPTED", "CRYPTED", "DEAD"}

InRxq(peer, p)   == \E i \in DOMAIN rxq[peer] : rxq[peer][i] = p
InQueue(peer, p) == peeked[peer] = p \/ InRxq(peer, p)

\* The peer's queue holds no packet twice.
NoTwice(peer) ==
    /\ \A i, j \in DOMAIN rxq[peer] : rxq[peer][i] = rxq[peer][j] => i = j
    /\ peeked[peer] # NULL => ~ InRxq(peer, peeked[peer])

(* A queued packet is in its own peer's queue and still waits for delivery;  *)
(* a packet about to be appended is in no queue yet.                         *)
Placed   == \A peer \in Peers, p \in Packets :
                InQueue(peer, p) => PeerOf[p] = peer /\ pstate[p] \in Queued
Unplaced == \A a \in Producers : pc[a] = "enqueue" => ~ InQueue(PeerOf[skb[a]], skb[a])

PlaceInv == OwnerInv /\ Placed /\ Unplaced /\ \A peer \in Peers : NoTwice(peer)

(* The queues are empty at first.                                           *)
LEMMA PlaceInit == Init => PlaceInv
<1> SUFFICES ASSUME Init PROVE Placed /\ Unplaced /\ \A peer \in Peers : NoTwice(peer)
  BY OwnerInit DEF PlaceInv
<1>1. \A peer \in Peers : rxq[peer] = <<>> /\ DOMAIN rxq[peer] = {} /\ peeked[peer] = NULL
  BY DEF Init
<1>2. \A peer \in Peers, p \in Packets : ~ InQueue(peer, p)
  BY <1>1, NullAssumption DEF InQueue, InRxq
<1>3. \A peer \in Peers : NoTwice(peer)
  BY <1>1 DEF NoTwice
<1>4. Unplaced
  BY DEF Init, Unplaced
<1> QED BY <1>2, <1>3, <1>4 DEF Placed

(* A peek moves the first packet from the list to queue->peeked and changes *)
(* neither what is queued nor its order.                                    *)
LEMMA PeekPlaces ==
  ASSUME QueueTypeOK, NEW peer \in Peers, NEW p \in Peeks(peer),
         wg_prev_queue_peek(peer, p), NoTwice(peer)
  PROVE  /\ NoTwice(peer)'
         /\ \A q \in Packets : InQueue(peer, q)' <=> InQueue(peer, q)
         /\ \A r \in Peers \ {peer} : rxq'[r] = rxq[r] /\ peeked'[r] = peeked[r]
<1>1. p \in Packets \cup {NULL}
  BY PeekType
<1>2. /\ \A r \in Peers \ {peer} : rxq'[r] = rxq[r] /\ peeked'[r] = peeked[r]
      /\ peeked'[peer] = p
  BY <1>1 DEF wg_prev_queue_peek, RxqAfterPeek, QueueTypeOK
<1>3. CASE peeked[peer] = NULL /\ p # NULL
  <2> DEFINE s == rxq[peer]
  <2>1. /\ s \in Seq(Packets) /\ s # <<>> /\ p = s[1] /\ p \in Packets
        /\ rxq'[peer] = Tail(s)
    BY <1>1, <1>3 DEF Peeks, DequeueReturns, wg_prev_queue_peek, RxqAfterPeek, QueueTypeOK
  <2> HIDE DEF s
  <2>2. /\ 1 \in DOMAIN s
        /\ \A i \in DOMAIN Tail(s) : i + 1 \in DOMAIN s /\ Tail(s)[i] = s[i + 1] /\ i + 1 # 1
        /\ \A i \in DOMAIN s : i # 1 => /\ i - 1 \in DOMAIN Tail(s)
                                        /\ Tail(s)[i - 1] = s[i]
    BY <2>1, TailFacts
  <2>3. \A i, j \in DOMAIN s : s[i] = s[j] => i = j
    BY DEF NoTwice, s
  <2>4. \A i \in DOMAIN Tail(s) : Tail(s)[i] # p
    BY <2>1, <2>2, <2>3
  <2>5. ASSUME NEW i \in DOMAIN Tail(s), NEW j \in DOMAIN Tail(s), Tail(s)[i] = Tail(s)[j]
        PROVE  i = j
    <3>1. i + 1 = j + 1
      BY <2>2, <2>3, <2>5
    <3>2. i \in Int /\ j \in Int
      BY <2>1
    <3> QED BY <3>1, <3>2
  <2>6. NoTwice(peer)'
    BY <1>2, <2>1, <2>4, <2>5 DEF NoTwice, InRxq
  <2>7. ASSUME NEW q \in Packets PROVE InQueue(peer, q)' <=> InQueue(peer, q)
    <3>1. InQueue(peer, q) <=> \E i \in DOMAIN s : s[i] = q
      BY <1>3, NullAssumption DEF InQueue, InRxq, s
    <3>2. InQueue(peer, q)' <=> p = q \/ \E i \in DOMAIN Tail(s) : Tail(s)[i] = q
      BY <1>2, <2>1 DEF InQueue, InRxq
    <3>3. ASSUME NEW i \in DOMAIN s, s[i] = q
          PROVE  p = q \/ \E j \in DOMAIN Tail(s) : Tail(s)[j] = q
      <4>1. CASE i = 1
        BY <2>1, <2>2, <3>3, <4>1
      <4>2. CASE i # 1
        <5>1. i - 1 \in DOMAIN Tail(s) /\ Tail(s)[i - 1] = q
          BY <2>2, <3>3, <4>2
        <5> QED BY <5>1
      <4> QED BY <4>1, <4>2
    <3>4. p = q \/ (\E j \in DOMAIN Tail(s) : Tail(s)[j] = q) =>
             \E i \in DOMAIN s : s[i] = q
      BY <2>1, <2>2
    <3> QED BY <3>1, <3>2, <3>3, <3>4
  <2> QED BY <1>2, <2>6, <2>7
<1>4. CASE ~ (peeked[peer] = NULL /\ p # NULL)
  <2>1. rxq' = rxq /\ peeked'[peer] = peeked[peer]
    BY <1>2, <1>4 DEF Peeks, wg_prev_queue_peek, RxqAfterPeek
  <2>2. NoTwice(peer)'
    BY <2>1 DEF NoTwice, InRxq
  <2>3. \A q \in Packets : InQueue(peer, q)' <=> InQueue(peer, q)
    BY <2>1 DEF InQueue, InRxq
  <2> QED BY <1>2, <2>2, <2>3
<1> QED BY <1>3, <1>4

(* A step that moves no packet keeps every packet's place.                  *)
LEMMA SamePlaces ==
  ASSUME PlaceInv, UNCHANGED <<rxq, peeked>>,
         \A p \in Packets : pstate[p] \in Queued => pstate'[p] \in Queued,
         \A a \in Producers : pc'[a] = "enqueue" => pc[a] = "enqueue" /\ skb'[a] = skb[a]
  PROVE  Placed' /\ Unplaced' /\ \A peer \in Peers : NoTwice(peer)'
<1>1. \A peer \in Peers, p \in Packets : InQueue(peer, p)' <=> InQueue(peer, p)
  BY DEF InQueue, InRxq
<1>2. Placed'
  BY <1>1 DEF PlaceInv, Placed
<1>3. Unplaced'
  BY DEF PlaceInv, Unplaced, InQueue, InRxq
<1>4. \A peer \in Peers : NoTwice(peer)'
  BY DEF PlaceInv, NoTwice, InRxq
<1> QED BY <1>2, <1>3, <1>4

(* Nor does a peek by a poll, which leaves the producers alone.             *)
LEMMA PeekKeepsPlaces ==
  ASSUME PlaceInv, NEW peer \in Peers, NEW p \in Peeks(peer),
         wg_prev_queue_peek(peer, p), UNCHANGED pstate,
         \A a \in Producers : pc'[a] = pc[a] /\ skb'[a] = skb[a]
  PROVE  Placed' /\ Unplaced' /\ \A r \in Peers : NoTwice(r)'
<1>0. QueueTypeOK /\ ActorTypeOK /\ NoTwice(peer)
  BY DEF PlaceInv, OwnerInv, TypeInv, TypeOK
<1>1. /\ NoTwice(peer)'
      /\ \A q \in Packets : InQueue(peer, q)' <=> InQueue(peer, q)
      /\ \A r \in Peers \ {peer} : rxq'[r] = rxq[r] /\ peeked'[r] = peeked[r]
  BY <1>0, PeekPlaces
<1>2. \A r \in Peers, q \in Packets : InQueue(r, q)' <=> InQueue(r, q)
  BY <1>1 DEF InQueue, InRxq
<1>3. \A r \in Peers : NoTwice(r)'
  BY <1>1 DEF PlaceInv, NoTwice, InRxq
<1>4. Placed'
  BY <1>2 DEF PlaceInv, Placed
<1>5. Unplaced'
  <2> SUFFICES ASSUME NEW a \in Producers, pc'[a] = "enqueue"
               PROVE  ~ InQueue(PeerOf[skb[a]], skb[a])'
    BY DEF Unplaced
  <2>1. pc[a] = "enqueue" /\ skb[a] \in Packets
    BY <1>0 DEF ActorTypeOK
  <2>2. PeerOf[skb[a]] \in Peers /\ ~ InQueue(PeerOf[skb[a]], skb[a])
    BY <2>1, PeerOfAssumption DEF PlaceInv, Unplaced
  <2> QED BY <1>2, <2>1, <2>2
<1> QED BY <1>3, <1>4, <1>5

(* The xchg places the packet at the end of its peer's queue.               *)
LEMMA EnqueuePlaces ==
  ASSUME PlaceInv, NEW a \in Producers, prev_queue_enqueue(a)
  PROVE  /\ Placed' /\ Unplaced' /\ \A r \in Peers : NoTwice(r)'
         /\ \A r \in Peers, q \in Packets :
               InQueue(r, q) \/ (r = PeerOf[q] /\ q = skb[a]) => InQueue(r, q)'
<1>0. pc[a] = "enqueue" /\ skb[a] \in Packets
  BY DEF prev_queue_enqueue, PlaceInv, OwnerInv, TypeInv, TypeOK, ActorTypeOK
<1> PICK p \in Packets, peer \in Peers, s \in Seq(Packets) :
      p = skb[a] /\ peer = PeerOf[p] /\ s = rxq[peer]
  BY <1>0, PeerOfAssumption DEF PlaceInv, OwnerInv, TypeInv, TypeOK, QueueTypeOK
<1>1. /\ pc[a] = "enqueue" /\ pc' = [pc EXCEPT ![a] = "link"]
      /\ UNCHANGED <<pstate, skb, peeked>>
      /\ rxq' = [rxq EXCEPT ![peer] = Append(s, p)]
  BY DEF prev_queue_enqueue, Goto
<1>2. /\ QueueTypeOK /\ ActorTypeOK /\ OneCompletionOwed
      /\ Placed /\ Unplaced /\ \A r \in Peers : NoTwice(r)
  BY DEF PlaceInv, OwnerInv, TypeInv, TypeOK
<1>3. p \in Packets /\ peer \in Peers /\ s \in Seq(Packets)
  OBVIOUS
<1>4. /\ rxq'[peer] = Append(s, p)
      /\ \A r \in Peers : r # peer => rxq'[r] = rxq[r]
  BY <1>1, <1>2, <1>3 DEF QueueTypeOK
<1>5. ~ InQueue(peer, p)
  BY <1>1, <1>2 DEF Unplaced
<1>6. \A r \in Peers, q \in Packets :
         InQueue(r, q)' <=> InQueue(r, q) \/ (r = peer /\ q = p)
  <2> SUFFICES ASSUME NEW r \in Peers, NEW q \in Packets
               PROVE  InRxq(r, q)' <=> InRxq(r, q) \/ (r = peer /\ q = p)
    BY <1>1 DEF InQueue
  <2>1. CASE r # peer
    BY <1>4, <2>1 DEF InRxq
  <2>2. CASE r = peer
    <3>1. InRxq(r, q)' <=> \E i \in DOMAIN Append(s, p) : Append(s, p)[i] = q
      BY <1>4, <2>2 DEF InRxq
    <3>2. InRxq(r, q) <=> \E i \in DOMAIN s : s[i] = q
      BY <2>2 DEF InRxq
    <3> QED BY <1>3, <2>2, <3>1, <3>2, AppendFacts
  <2> QED BY <2>1, <2>2
<1>7. pstate[p] = "UNCRYPTED"
  BY <1>1, <1>2, <1>3 DEF OneCompletionOwed, Owes
<1>8. Placed'
  BY <1>1, <1>2, <1>6, <1>7 DEF Placed, Queued
<1>9. Unplaced'
  <2> SUFFICES ASSUME NEW b \in Producers, pc'[b] = "enqueue"
               PROVE  ~ InQueue(PeerOf[skb[b]], skb[b])'
    BY <1>1 DEF Unplaced
  <2> PICK q \in Packets, r \in Peers : q = skb[b] /\ r = PeerOf[q]
    BY <1>1, <1>2, PeerOfAssumption DEF ActorTypeOK
  <2>1. b # a /\ pc[b] = "enqueue" /\ skb[b] \in Packets
    BY <1>1, <1>2 DEF ActorTypeOK
  <2>2. skb[b] # p
    BY <1>1, <1>2, <1>3, <2>1 DEF OneCompletionOwed, Owes
  <2>3. PeerOf[skb[b]] \in Peers /\ ~ InQueue(PeerOf[skb[b]], skb[b])
    BY <1>2, <2>1, PeerOfAssumption DEF Unplaced
  <2>4. ~ InQueue(r, q)'
    BY <1>6, <2>2, <2>3
  <2> QED BY <1>1, <2>4 DEF InQueue, InRxq
<1>10. ASSUME NEW r \in Peers PROVE NoTwice(r)'
  <2>1. CASE r # peer
    BY <1>1, <1>2, <1>4, <2>1 DEF NoTwice, InRxq
  <2>2. CASE r = peer
    <3>1. /\ \A i, j \in DOMAIN s : s[i] = s[j] => i = j
          /\ \A i \in DOMAIN s : s[i] # p
          /\ peeked[peer] # NULL => peeked[peer] # p /\ ~ InRxq(peer, peeked[peer])
      BY <1>2, <1>3, <1>5 DEF NoTwice, InQueue, InRxq
    <3>2. peeked[peer] # NULL => peeked[peer] \in Packets
      BY <1>2, <1>3 DEF QueueTypeOK
    <3>3. peeked'[peer] # NULL => ~ InRxq(peer, peeked[peer])'
      BY <1>1, <1>3, <1>4, <3>1, <3>2, AppendFacts DEF InRxq
    <3>4. \A i, j \in DOMAIN rxq'[peer] : rxq'[peer][i] = rxq'[peer][j] => i = j
      BY <1>3, <1>4, <3>1, AppendFacts
    <3> QED BY <1>1, <2>2, <3>3, <3>4 DEF NoTwice, InRxq
  <2> QED BY <2>1, <2>2
<1> QED BY <1>6, <1>8, <1>9, <1>10

(* Delivery takes the first packet out of the queue.                        *)
LEMMA DeliverPlaces ==
  ASSUME PlaceInv, NEW c \in Cpus, cur[c] \in Peers, rx_poll_deliver(c)
  PROVE  /\ Placed' /\ Unplaced' /\ \A r \in Peers : NoTwice(r)'
         /\ \E p \in Packets :
               /\ pstate[p] \in Queued
               /\ \E o \in {"DELIVERED", "FREED"} : pstate' = [pstate EXCEPT ![p] = o]
               /\ \A r \in Peers, q \in Packets : q # p /\ InQueue(r, q) => InQueue(r, q)'
<1> PICK peer \in Peers, s \in Seq(Packets) : peer = cur[c] /\ s = rxq[peer]
  BY DEF PlaceInv, OwnerInv, TypeInv, TypeOK, QueueTypeOK
<1>1. PICK p \in Peeks(peer) :
         /\ Deliverable(p)
         /\ rxq' = RxqAfterPeek(peer, p)
         /\ peeked' = [peeked EXCEPT ![peer] = NULL]
         /\ \E o \in {"DELIVERED", "FREED"} : pstate' = [pstate EXCEPT ![p] = o]
  BY DEF rx_poll_deliver, Outcomes
<1>2. \A a \in Producers : pc'[a] = pc[a] /\ skb'[a] = skb[a]
  BY ActorsAssumption DEF rx_poll_deliver, Goto, PlaceInv, OwnerInv, TypeInv, TypeOK, ActorTypeOK
<1>3. /\ QueueTypeOK /\ ActorTypeOK
      /\ Placed /\ Unplaced /\ \A r \in Peers : NoTwice(r)
      /\ peer \in Peers /\ s \in Seq(Packets)
  BY DEF PlaceInv, OwnerInv, TypeInv, TypeOK, QueueTypeOK
<1>4. p \in Packets
  BY <1>1, <1>3, PeekType DEF Deliverable
<1>5. /\ peeked'[peer] = NULL
      /\ \A r \in Peers : r # peer => rxq'[r] = rxq[r] /\ peeked'[r] = peeked[r]
      /\ \A q \in Packets : q # p => pstate'[q] = pstate[q]
  BY <1>1, <1>3 DEF RxqAfterPeek, QueueTypeOK
<1>6. /\ NoTwice(peer)' /\ InQueue(peer, p)
      /\ \A q \in Packets : InQueue(peer, q)' <=> InQueue(peer, q) /\ q # p
  <2>1. CASE peeked[peer] = p
    <3>1. rxq' = rxq
      BY <1>1, <1>4, <2>1, NullAssumption DEF RxqAfterPeek
    <3>2. ~ InRxq(peer, p) /\ InQueue(peer, p)
      BY <1>3, <1>4, <2>1, NullAssumption DEF NoTwice, InQueue
    <3>3. \A q \in Packets : InQueue(peer, q)' <=> InQueue(peer, q) /\ q # p
      BY <1>5, <2>1, <3>1, <3>2, NullAssumption DEF InQueue, InRxq
    <3> QED BY <1>3, <1>5, <3>1, <3>2, <3>3 DEF NoTwice
  <2>2. CASE peeked[peer] # p
    <3>1. /\ peeked[peer] = NULL /\ s # <<>> /\ p = s[1] /\ rxq'[peer] = Tail(s)
      BY <1>1, <1>3, <1>4, <2>2, NullAssumption DEF Peeks, DequeueReturns, RxqAfterPeek, QueueTypeOK
    <3>2. \A i, j \in DOMAIN s : s[i] = s[j] => i = j
      BY <1>3 DEF NoTwice
    <3>3. \A q \in Packets : InQueue(peer, q) <=> \E i \in DOMAIN s : s[i] = q
      BY <3>1, NullAssumption DEF InQueue, InRxq
    <3>4. \A q \in Packets : InQueue(peer, q)' <=> \E i \in DOMAIN Tail(s) : Tail(s)[i] = q
      BY <1>5, <3>1, NullAssumption DEF InQueue, InRxq
    <3>5. NoTwice(peer)' <=> \A i, j \in DOMAIN Tail(s) : Tail(s)[i] = Tail(s)[j] => i = j
      BY <1>5, <3>1 DEF NoTwice
    <3>6. s \in Seq(Packets)
      BY <1>3
    <3>7. /\ 1 \in DOMAIN s
          /\ \A i \in DOMAIN Tail(s) : i + 1 \in DOMAIN s /\ Tail(s)[i] = s[i + 1] /\ i + 1 # 1
          /\ \A i \in DOMAIN s : i # 1 => /\ i - 1 \in DOMAIN Tail(s)
                                          /\ Tail(s)[i - 1] = s[i]
      BY <3>1, <3>6, TailFacts
    <3>8. ASSUME NEW i \in DOMAIN Tail(s), NEW j \in DOMAIN Tail(s), Tail(s)[i] = Tail(s)[j]
          PROVE  i = j
      <4>1. i + 1 = j + 1
        BY <3>2, <3>7, <3>8
      <4>2. i \in Int /\ j \in Int
        BY <3>1, <3>6
      <4> QED BY <4>1, <4>2
    <3>9. \A q \in Packets : InQueue(peer, q)' <=> InQueue(peer, q) /\ q # p
      <4> SUFFICES ASSUME NEW q \in Packets
                   PROVE  (\E i \in DOMAIN Tail(s) : Tail(s)[i] = q)
                             <=> (\E i \in DOMAIN s : s[i] = q) /\ q # s[1]
        BY <3>1, <3>3, <3>4
      <4>1. ASSUME NEW i \in DOMAIN Tail(s), Tail(s)[i] = q
            PROVE  i + 1 \in DOMAIN s /\ s[i + 1] = q /\ q # s[1]
        BY <3>2, <3>7, <4>1
      <4>2. ASSUME NEW i \in DOMAIN s, s[i] = q, q # s[1]
            PROVE  i - 1 \in DOMAIN Tail(s) /\ Tail(s)[i - 1] = q
        BY <3>7, <4>2
      <4> QED BY <4>1, <4>2
    <3> QED BY <1>4, <3>1, <3>3, <3>5, <3>7, <3>8, <3>9
  <2> QED BY <2>1, <2>2
<1>7. \A r \in Peers, q \in Packets : InQueue(r, q)' => InQueue(r, q) /\ q # p
  <2>1. ASSUME NEW r \in Peers, NEW q \in Packets, InQueue(r, q)', r # peer
        PROVE  InQueue(r, q) /\ q # p
    <3>1. InQueue(r, q)
      BY <1>5, <2>1 DEF InQueue, InRxq
    <3>2. PeerOf[q] = r /\ PeerOf[p] = peer
      BY <1>3, <1>4, <1>6, <3>1 DEF Placed
    <3> QED BY <2>1, <3>1, <3>2
  <2> QED BY <1>6, <2>1
<1>8. Placed'
  BY <1>3, <1>5, <1>7 DEF Placed
<1>9. Unplaced'
  <2> SUFFICES ASSUME NEW a \in Producers, pc'[a] = "enqueue"
               PROVE  ~ InQueue(PeerOf[skb[a]], skb[a])'
    BY <1>2 DEF Unplaced
  <2>1. pc[a] = "enqueue" /\ skb[a] \in Packets
    BY <1>2, <1>3 DEF ActorTypeOK
  <2>2. PeerOf[skb[a]] \in Peers /\ ~ InQueue(PeerOf[skb[a]], skb[a])
    BY <1>3, <2>1, PeerOfAssumption DEF Unplaced
  <2> PICK q \in Packets, r \in Peers : q = skb[a] /\ r = PeerOf[q]
    BY <2>1, PeerOfAssumption
  <2>3. ~ InQueue(r, q)'
    BY <1>7, <2>2
  <2> QED BY <1>2, <2>3 DEF InQueue, InRxq
<1>10. \A r \in Peers : NoTwice(r)'
  BY <1>3, <1>5, <1>6 DEF NoTwice, InRxq
<1>11. \A r \in Peers, q \in Packets : q # p /\ InQueue(r, q) => InQueue(r, q)'
  BY <1>5, <1>6 DEF InQueue, InRxq
<1>12. pstate[p] \in Queued
  BY <1>3, <1>4, <1>6 DEF Placed
<1> QED BY <1>1, <1>4, <1>8, <1>9, <1>10, <1>11, <1>12

(* Every step keeps the packets in their places.                            *)
LEMMA PlaceStep ==
  ASSUME PlaceInv, [Next]_vars
  PROVE  PlaceInv'
<1> USE DEF queueVars, napiVars, trigVars, pollVars, Goto
<1> DEFINE Good == Placed' /\ Unplaced' /\ \A peer \in Peers : NoTwice(peer)'
<1>0. /\ OwnerInv' /\ QueueTypeOK /\ ActorTypeOK /\ PollTypeOK
      /\ pc \in [Actors -> ProducerPCs \cup WorkerPCs \cup CompletionPCs \cup PollPCs]
      /\ skb \in [Actors -> Packets \cup {NULL}]
      /\ pstate \in [Packets -> PacketStates]
  BY OwnerStep DEF PlaceInv, OwnerInv, TypeInv, TypeOK, ActorTypeOK, QueueTypeOK
<1>1. ASSUME UNCHANGED <<rxq, peeked, pstate>>, NEW a \in Actors, NEW l,
             l # "enqueue", pc' = [pc EXCEPT ![a] = l],
             \A b \in Actors \ {a} : skb'[b] = skb[b]
      PROVE  Good
  BY <1>0, <1>1, SamePlaces
<1>2. ASSUME UNCHANGED <<rxq, peeked, pstate, pc, skb>> PROVE Good
  BY <1>2, SamePlaces
<1>3. ASSUME NEW a \in Producers, NEW p \in Packets,
             consume_data(a, p) \/ consume_data_drop(a, p)
      PROVE  Good
  <2>1. /\ pstate[p] = "WIRE" /\ UNCHANGED <<rxq, peeked>>
        /\ \A q \in Packets : q # p => pstate'[q] = pstate[q]
        /\ \A b \in Producers : \/ b # a /\ pc'[b] = pc[b] /\ skb'[b] = skb[b]
                                \/ pc'[b] = pc[b] /\ skb'[b] = skb[b]
                                \/ b = a /\ skb'[b] = p
    BY <1>0, <1>3 DEF consume_data, consume_data_drop
  <2>2. \A q \in Packets : pstate[q] \in Queued => pstate'[q] \in Queued
    BY <2>1 DEF Queued
  <2>3. \A peer \in Peers, q \in Packets : InQueue(peer, q)' <=> InQueue(peer, q)
    BY <2>1 DEF InQueue, InRxq
  <2>4. Placed'
    BY <2>2, <2>3 DEF PlaceInv, Placed
  <2>5. \A peer \in Peers : ~ InQueue(peer, p)
    BY <2>1 DEF PlaceInv, Placed, Queued
  <2>6. Unplaced'
    <3> SUFFICES ASSUME NEW b \in Producers, pc'[b] = "enqueue"
                 PROVE  ~ InQueue(PeerOf[skb[b]], skb[b])'
      BY DEF Unplaced
    <3>1. CASE pc'[b] = pc[b] /\ skb'[b] = skb[b]
      BY <2>1, <3>1 DEF PlaceInv, Unplaced, InQueue, InRxq
    <3>2. CASE skb'[b] = p
      <4>1. ~ InQueue(PeerOf[p], p)
        BY <2>5, PeerOfAssumption
      <4> QED BY <2>1, <3>2, <4>1 DEF InQueue, InRxq
    <3> QED BY <2>1, <3>1, <3>2
  <2>7. \A peer \in Peers : NoTwice(peer)'
    BY <2>1 DEF PlaceInv, NoTwice, InRxq
  <2> QED BY <2>4, <2>6, <2>7
<1>4. ASSUME NEW a \in Producers, ProducerStep(a) PROVE Good
  <2>1. CASE ~ prev_queue_enqueue(a)
    <3>1. /\ UNCHANGED <<rxq, peeked, pstate>>
          /\ \E l : l # "enqueue" /\ pc' = [pc EXCEPT ![a] = l]
          /\ \A b \in Actors \ {a} : skb'[b] = skb[b]
      BY <1>0, <1>4, <2>1 DEF ProducerStep, prev_queue_link, ring_produce, queue_work
    <3> QED BY <1>1, <3>1
  <2> QED BY <2>1, EnqueuePlaces
<1>5. ASSUME NEW w \in Workers, WorkerStep(w) PROVE Good
  <2>1. /\ UNCHANGED <<rxq, peeked, pstate>>
        /\ \E l : l # "enqueue" /\ pc' = [pc EXCEPT ![w] = l]
        /\ \A b \in Actors \ {w} : skb'[b] = skb[b]
    BY <1>0, <1>5 DEF WorkerStep, worker_start, worker_consume
  <2> QED BY <1>1, <2>1
<1>6. ASSUME NEW a \in Actors, CompletionStep(a) PROVE Good
  <2>1. CASE ~ set_state(a)
    <3>1. /\ UNCHANGED <<rxq, peeked, pstate>>
          /\ \E l : l # "enqueue" /\ pc' = [pc EXCEPT ![a] = l]
          /\ \A b \in Actors \ {a} : skb'[b] = skb[b]
      BY <1>0, <1>6, <2>1
         DEF CompletionStep, gate, wake, inc_ready, disarm, cancel_timer, arm,
             hrtimer_start, Return
    <3> QED BY <1>1, <3>1
  <2>2. CASE set_state(a)
    <3>1. /\ UNCHANGED <<rxq, peeked, skb>>
          /\ \E l \in {"gate", "wake"} : pc' = [pc EXCEPT ![a] = l]
          /\ \E o \in {"CRYPTED", "DEAD"} : pstate' = [pstate EXCEPT ![skb[a]] = o]
      BY <2>2 DEF set_state, Verdicts
    <3>2. \A q \in Packets : pstate[q] \in Queued => pstate'[q] \in Queued
      BY <1>0, <3>1 DEF Queued
    <3>3. \A b \in Producers : pc'[b] = "enqueue" => pc[b] = "enqueue" /\ skb'[b] = skb[b]
      BY <1>0, <3>1
    <3> QED BY <3>1, <3>2, <3>3, SamePlaces
  <2> QED BY <2>1, <2>2
<1>7. ASSUME NEW c \in Cpus, PollStep(c) PROVE Good
  <2>1. cur[c] \in Peers
    <3>1. pc[c] # "idle"
      BY <1>7 DEF PollStep, rx_poll_deliver, rx_poll_blocked, rx_poll_steal, rx_poll_pull,
                  rx_poll_stolen, rx_poll_finish, rx_poll_publish, rx_poll_recheck,
                  rx_poll_supp, rx_poll_clear_missed, rx_poll_supp_recheck,
                  rx_poll_complete, napi_poll_exhausted
    <3> QED BY <1>0, <3>1 DEF PollTypeOK
  <2>2. CASE rx_poll_deliver(c)
    BY <2>1, <2>2, DeliverPlaces
  <2>3. CASE ~ rx_poll_deliver(c)
    <3>1. /\ UNCHANGED pstate
          /\ \E l : l # "enqueue" /\ pc' = [pc EXCEPT ![c] = l]
          /\ \A b \in Actors \ {c} : skb'[b] = skb[b]
          /\ \/ UNCHANGED <<rxq, peeked>>
             \/ \E p \in Peeks(cur[c]) : wg_prev_queue_peek(cur[c], p)
      BY <1>0, <1>7, <2>3
         DEF PollStep, rx_poll_blocked, rx_poll_steal, rx_poll_pull,
             rx_poll_stolen, rx_poll_finish, rx_poll_publish, rx_poll_recheck,
             rx_poll_supp, rx_poll_clear_missed, rx_poll_supp_recheck,
             rx_poll_complete, napi_poll_exhausted, PollReturns, SetMissedIfReady
    <3>2. CASE UNCHANGED <<rxq, peeked>>
      BY <1>1, <3>1, <3>2
    <3>3. CASE \E p \in Peeks(cur[c]) : wg_prev_queue_peek(cur[c], p)
      <4>1. \A a \in Producers : pc'[a] = pc[a] /\ skb'[a] = skb[a]
        BY <1>0, <3>1, ActorsAssumption
      <4> QED BY <2>1, <3>1, <3>3, <4>1, PeekKeepsPlaces
    <3> QED BY <3>1, <3>2, <3>3
  <2> QED BY <2>2, <2>3
<1>8. ASSUME NEW c \in Cpus, NEW peer \in Peers, net_rx_action(c, peer) PROVE Good
  <2>1. /\ UNCHANGED <<rxq, peeked, pstate, skb>>
        /\ pc' = pc \/ pc' = [pc EXCEPT ![c] = "deliver"]
    BY <1>8 DEF net_rx_action
  <2> QED BY <1>1, <1>2, <2>1
<1>9. ASSUME NEW peer \in Peers, TimerStep(peer) PROVE Good
  BY <1>2, <1>9 DEF TimerStep, timer_expire, timer_clear, timer_wake
<1>10. ASSUME param_set \/ UNCHANGED vars PROVE Good
  BY <1>2, <1>10 DEF param_set, vars
<1>11. Good
  BY <1>3, <1>4, <1>5, <1>6, <1>7, <1>8, <1>9, <1>10 DEF Next
<1> QED BY <1>0, <1>11 DEF PlaceInv

\* A packet that waits for delivery is in its peer's queue, or a producer is
\* about to append it.
Appending(p) == \E a \in Producers : pc[a] = "enqueue" /\ skb[a] = p
Findable == \A p \in Packets : pstate[p] \in Queued => InQueue(PeerOf[p], p) \/ Appending(p)

(* Steps that take nothing out of a queue or out of a producer's hands.     *)
LEMMA StillFindable ==
  ASSUME Findable,
         \A p \in Packets : pstate'[p] \in Queued =>
            pstate[p] \in Queued \/ InQueue(PeerOf[p], p)' \/ Appending(p)',
         \A p \in Packets : pstate'[p] \in Queued /\ InQueue(PeerOf[p], p) =>
            InQueue(PeerOf[p], p)',
         \A p \in Packets : Appending(p) => Appending(p)' \/ InQueue(PeerOf[p], p)'
  PROVE  Findable'
  BY DEF Findable

(* No packet that waits for delivery is lost from the queues.               *)
LEMMA FindableStep ==
  ASSUME PlaceInv, Findable, [Next]_vars
  PROVE  Findable'
<1> USE DEF queueVars, napiVars, trigVars, pollVars, Goto
<1>0. /\ QueueTypeOK /\ ActorTypeOK /\ PollTypeOK /\ OneCompletionOwed
      /\ pc \in [Actors -> ProducerPCs \cup WorkerPCs \cup CompletionPCs \cup PollPCs]
      /\ skb \in [Actors -> Packets \cup {NULL}]
      /\ pstate \in [Packets -> PacketStates]
      /\ \A p \in Packets : PeerOf[p] \in Peers
  BY PeerOfAssumption DEF PlaceInv, OwnerInv, TypeInv, TypeOK, ActorTypeOK, QueueTypeOK
<1>1. ASSUME UNCHANGED <<rxq, peeked>>,
             \A p \in Packets : pstate'[p] \in Queued => pstate[p] \in Queued,
             \A a \in Producers : pc[a] = "enqueue" => pc'[a] = "enqueue" /\ skb'[a] = skb[a]
      PROVE  Findable'
  <2>1. \A p \in Packets : InQueue(PeerOf[p], p) => InQueue(PeerOf[p], p)'
    BY <1>1 DEF InQueue, InRxq
  <2>2. \A p \in Packets : Appending(p) => Appending(p)'
    BY <1>1 DEF Appending
  <2> QED BY <1>1, <2>1, <2>2, StillFindable
<1>2. ASSUME NEW a \in Actors, UNCHANGED <<rxq, peeked, pstate>>, pc[a] # "enqueue",
             \A b \in Actors \ {a} : pc'[b] = pc[b] /\ skb'[b] = skb[b]
      PROVE  Findable'
  BY <1>1, <1>2
<1>3. ASSUME NEW a \in Producers, NEW p \in Packets,
             consume_data(a, p) \/ consume_data_drop(a, p)
      PROVE  Findable'
  <2>1. /\ UNCHANGED <<rxq, peeked>> /\ pc[a] = "idle"
        /\ \A b \in Actors \ {a} : pc'[b] = pc[b] /\ skb'[b] = skb[b]
        /\ \A q \in Packets : q # p => pstate'[q] = pstate[q]
        /\ \/ pstate'[p] = "FREED"
           \/ pc'[a] = "enqueue" /\ skb'[a] = p
    BY <1>0, <1>3 DEF consume_data, consume_data_drop
  <2>2. \A q \in Packets : Appending(q) => Appending(q)'
    BY <2>1 DEF Appending
  <2>3. \A q \in Packets : InQueue(PeerOf[q], q) => InQueue(PeerOf[q], q)'
    BY <2>1 DEF InQueue, InRxq
  <2>4. pstate'[p] \in Queued => Appending(p)'
    BY <2>1 DEF Appending, Queued
  <2> QED BY <2>1, <2>2, <2>3, <2>4, StillFindable
<1>4. ASSUME NEW a \in Producers, ProducerStep(a) PROVE Findable'
  <2>1. CASE ~ prev_queue_enqueue(a)
    <3>1. /\ UNCHANGED <<rxq, peeked, pstate>> /\ pc[a] # "enqueue"
          /\ \A b \in Actors \ {a} : pc'[b] = pc[b] /\ skb'[b] = skb[b]
      BY <1>0, <1>4, <2>1 DEF ProducerStep, prev_queue_link, ring_produce, queue_work
    <3> QED BY <1>2, <3>1
  <2>2. CASE prev_queue_enqueue(a)
    <3>1. /\ UNCHANGED <<pstate, skb>>
          /\ \A b \in Actors \ {a} : pc'[b] = pc[b]
      BY <1>0, <2>2 DEF prev_queue_enqueue
    <3>2. \A r \in Peers, q \in Packets :
             InQueue(r, q) \/ (r = PeerOf[q] /\ q = skb[a]) => InQueue(r, q)'
      BY <2>2, EnqueuePlaces
    <3>3. \A q \in Packets : Appending(q) => Appending(q)' \/ InQueue(PeerOf[q], q)'
      BY <1>0, <3>1, <3>2 DEF Appending
    <3> QED BY <1>0, <3>1, <3>2, <3>3, StillFindable
  <2> QED BY <2>1, <2>2
<1>5. ASSUME NEW w \in Workers, WorkerStep(w) PROVE Findable'
  <2>1. /\ UNCHANGED <<rxq, peeked, pstate>> /\ pc[w] # "enqueue"
        /\ \A b \in Actors \ {w} : pc'[b] = pc[b] /\ skb'[b] = skb[b]
    BY <1>0, <1>5 DEF WorkerStep, worker_start, worker_consume
  <2> QED BY <1>2, <2>1
<1>6. ASSUME NEW a \in Actors, CompletionStep(a) PROVE Findable'
  <2>1. CASE ~ set_state(a)
    <3>1. /\ UNCHANGED <<rxq, peeked, pstate>> /\ pc[a] # "enqueue"
          /\ \A b \in Actors \ {a} : pc'[b] = pc[b] /\ skb'[b] = skb[b]
      BY <1>0, <1>6, <2>1
         DEF CompletionStep, gate, wake, inc_ready, disarm, cancel_timer, arm,
             hrtimer_start, Return
    <3> QED BY <1>2, <3>1
  <2>2. CASE set_state(a)
    <3>1. /\ UNCHANGED <<rxq, peeked, skb>> /\ pc[a] = "set_state" /\ skb[a] \in Packets
          /\ \A b \in Actors \ {a} : pc'[b] = pc[b]
          /\ \A q \in Packets : q # skb[a] => pstate'[q] = pstate[q]
      BY <1>0, <2>2 DEF set_state, ActorTypeOK
    <3>2. pstate[skb[a]] = "UNCRYPTED"
      BY <1>0, <3>1 DEF OneCompletionOwed, Owes
    <3> QED BY <1>1, <3>1, <3>2 DEF Queued
  <2> QED BY <2>1, <2>2
<1>7. ASSUME NEW c \in Cpus, PollStep(c) PROVE Findable'
  <2>1. cur[c] \in Peers /\ pc[c] # "enqueue"
    <3>1. pc[c] # "idle" /\ pc[c] # "enqueue"
      BY <1>7 DEF PollStep, rx_poll_deliver, rx_poll_blocked, rx_poll_steal, rx_poll_pull,
                  rx_poll_stolen, rx_poll_finish, rx_poll_publish, rx_poll_recheck,
                  rx_poll_supp, rx_poll_clear_missed, rx_poll_supp_recheck,
                  rx_poll_complete, napi_poll_exhausted
    <3> QED BY <1>0, <3>1 DEF PollTypeOK
  <2>2. \A b \in Actors \ {c} : pc'[b] = pc[b] /\ skb'[b] = skb[b]
    BY <1>0, <1>7
       DEF PollStep, rx_poll_deliver, rx_poll_blocked, rx_poll_steal, rx_poll_pull,
           rx_poll_stolen, rx_poll_finish, rx_poll_publish, rx_poll_recheck,
           rx_poll_supp, rx_poll_clear_missed, rx_poll_supp_recheck,
           rx_poll_complete, napi_poll_exhausted, PollReturns
  <2>3. \A q \in Packets : Appending(q) => Appending(q)'
    BY <2>1, <2>2 DEF Appending
  <2>4. CASE rx_poll_deliver(c)
    <3>1. PICK p \in Packets :
             /\ \E o \in {"DELIVERED", "FREED"} : pstate' = [pstate EXCEPT ![p] = o]
             /\ \A r \in Peers, q \in Packets : q # p /\ InQueue(r, q) => InQueue(r, q)'
      BY <2>1, <2>4, DeliverPlaces
    <3>2. \A q \in Packets : pstate'[q] \in Queued => q # p /\ pstate[q] \in Queued
      BY <1>0, <3>1 DEF Queued
    <3> QED BY <1>0, <2>3, <3>1, <3>2, StillFindable
  <2>5. CASE ~ rx_poll_deliver(c)
    <3>1. /\ UNCHANGED pstate
          /\ \/ UNCHANGED <<rxq, peeked>>
             \/ \E p \in Peeks(cur[c]) : wg_prev_queue_peek(cur[c], p)
      BY <1>0, <1>7, <2>5
         DEF PollStep, rx_poll_blocked, rx_poll_steal, rx_poll_pull,
             rx_poll_stolen, rx_poll_finish, rx_poll_publish, rx_poll_recheck,
             rx_poll_supp, rx_poll_clear_missed, rx_poll_supp_recheck,
             rx_poll_complete, napi_poll_exhausted, SetMissedIfReady
    <3>2. CASE UNCHANGED <<rxq, peeked>>
      BY <1>2, <2>1, <2>2, <3>1, <3>2
    <3>3. CASE \E p \in Peeks(cur[c]) : wg_prev_queue_peek(cur[c], p)
      <4> PICK r \in Peers : r = cur[c]
        BY <2>1
      <4>0. NoTwice(r)
        BY DEF PlaceInv
      <4>1. /\ \A q \in Packets : InQueue(r, q)' <=> InQueue(r, q)
            /\ \A u \in Peers \ {r} : rxq'[u] = rxq[u] /\ peeked'[u] = peeked[u]
        BY <1>0, <3>3, <4>0, PeekPlaces
      <4>2. \A u \in Peers, q \in Packets : InQueue(u, q) => InQueue(u, q)'
        BY <4>1 DEF InQueue, InRxq
      <4> QED BY <1>0, <2>3, <3>1, <4>2, StillFindable
    <3> QED BY <3>1, <3>2, <3>3
  <2> QED BY <2>4, <2>5
<1>8. ASSUME NEW c \in Cpus, NEW peer \in Peers, net_rx_action(c, peer) PROVE Findable'
  <2>1. /\ UNCHANGED <<rxq, peeked, pstate, skb>> /\ pc[c] # "enqueue"
        /\ \A b \in Actors \ {c} : pc'[b] = pc[b]
    BY <1>0, <1>8 DEF net_rx_action
  <2> QED BY <1>2, <2>1
<1>9. ASSUME NEW peer \in Peers, TimerStep(peer) PROVE Findable'
  BY <1>1, <1>9 DEF TimerStep, timer_expire, timer_clear, timer_wake
<1>10. ASSUME param_set \/ UNCHANGED vars PROVE Findable'
  BY <1>1, <1>10 DEF param_set, vars
<1> QED BY <1>3, <1>4, <1>5, <1>6, <1>7, <1>8, <1>9, <1>10 DEF Next

(* A packet waits in the queue of its own peer, once, and only until it is  *)
(* delivered or freed: no packet reaches the stack twice or under another   *)
(* peer, and none that waits is lost from the queue.                        *)
THEOREM PlacedOnce ==
  Spec => [](Placed /\ Findable /\ \A peer \in Peers : NoTwice(peer))
<1>1. Init => PlaceInv /\ Findable
  <2>1. Init => Findable
    BY DEF Init, Findable, Queued
  <2> QED BY <2>1, PlaceInit
<1>2. PlaceInv /\ Findable /\ [Next]_vars => (PlaceInv /\ Findable)'
  BY PlaceStep, FindableStep
<1>3. PlaceInv => Placed /\ \A peer \in Peers : NoTwice(peer)
  BY DEF PlaceInv
<1> QED BY <1>1, <1>2, <1>3, PTL DEF Spec
-----------------------------------------------------------------------------
(* No wake-up is lost.                                                     *)

\* The policies of the theorem.
FixedPolicies == /\ LiveTune = {}
                 /\ \A k \in KnobSettings : k.trig_k = 0 \/ k.headwake

TriggerPCs == {"inc", "xchg", "cancel", "cmpxchg", "start"}

(* Nothing of the trigger and its timer is ever in use.                     *)
Untriggered ==
    /\ knob.trig_k = 0 \/ knob.headwake
    /\ \A a \in Actors : pc[a] \notin TriggerPCs
    /\ \A r \in Peers : ~ timer[r] /\ tpc[r] = "idle"

\* The completion actor a has begun will wake peer r.
Wakes(a, r) ==
    /\ skb[a] # NULL
    /\ PeerOf[skb[a]] = r
    /\ \/ pc[a] = "wake"
       \/ pc[a] = "gate" /\ (knob.headwake => rx_blocked_on[r] \in {NULL, skb[a]})

\* A deliverable head has its wake on the way.
Live(r) == Deliverable(First(r)) => \/ \E a \in Actors : Wakes(a, r)
                                    \/ WakeOwedBySecond(r)

\* The packet published in rx_blocked_on is the peeked one.
Published(r) == rx_blocked_on[r] # NULL => rx_blocked_on[r] = peeked[r]

Quiet(r) == Live(r) /\ (knob.headwake => Published(r))
Rest(r)  == "SCHED" \notin napi[r] => Quiet(r)

\* Where a poll has seen the head blocked and has yet to complete or re-check.
StealPCs  == {"steal", "pull", "stolen", "finish"} \cup CompletionPCs
ParkPCs   == {"recheck", "supp", "clear", "supp_recheck", "complete"}
Settled(c) == \/ pc[c] \in {"supp", "complete"}
              \/ ~ knob.headwake /\ pc[c] \in StealPCs

(* On its way to sleep, a poll has either left MISSED set or a wake coming, *)
(* and what it published is its head.                                       *)
Parking(c) ==
    /\ cur[c] # NULL /\ Settled(c) => "MISSED" \in napi[cur[c]] \/ Live(cur[c])
    /\ knob.headwake /\ pc[c] \in ParkPCs => Published(cur[c])
    /\ pc[c] = "publish" => head[c] \in {NULL, peeked[cur[c]]}

Resting == \A r \in Peers : Rest(r)
Parked  == \A c \in Cpus : Parking(c)

\* Actor a has a packet of the peer in hand.
Holds(a, peer) == skb[a] # NULL /\ PeerOf[skb[a]] = peer

(* What the wake-ups need of the NAPI word: the instance of a list or a     *)
(* poll is scheduled, napi_schedule is refused only for peers that nobody   *)
(* will wake, and no poll ends at its budget while napi_disable waits.      *)
Wakeable ==
    /\ \A c \in Cpus, r \in Peers : Has(c, r) => "SCHED" \in napi[r] /\ "NPSVC" \notin napi[r]
    /\ \A r \in Peers : "DISABLE" \in napi[r] => \A a \in Actors : ~ Holds(a, r)
    /\ \A c \in Cpus : pc[c] = "exhausted" => "DISABLE" \notin napi[cur[c]]

PollInv == TypeInv /\ SingleConsumer /\ Wakeable
WakeInv == PollInv /\ PlaceInv /\ Untriggered /\ Resting /\ Parked

(* While no peer is removed nothing refuses a wake.                         *)
LEMMA AliveWakeable == ConsumerInv => PollInv
<1> SUFFICES ASSUME ConsumerInv PROVE Wakeable
  BY DEF ConsumerInv, PollInv
<1>1. /\ TypeOK /\ SingleConsumer
      /\ \A r \in Peers : "NPSVC" \notin napi[r] /\ "DISABLE" \notin napi[r]
  BY DEF ConsumerInv, Alive, TypeInv
<1>2. \A c \in Cpus : pc[c] = "exhausted" => cur[c] \in Peers
  BY <1>1 DEF TypeOK, PollTypeOK
<1> QED BY <1>1, <1>2 DEF Wakeable, SingleConsumer

-----------------------------------------------------------------------------
(* The first two packets of a queue.                                        *)

(* They are packets of the peer that wait for delivery.                     *)
LEMMA ViewType ==
  ASSUME PlaceInv, NEW r \in Peers
  PROVE  /\ First(r) \in Packets \cup {NULL}
         /\ Second(r) \in Packets \cup {NULL}
         /\ First(r) # NULL => PeerOf[First(r)] = r /\ pstate[First(r)] \in Queued
         /\ Second(r) # NULL => PeerOf[Second(r)] = r /\ pstate[Second(r)] \in Queued
<1>1. /\ rxq[r] \in Seq(Packets) /\ peeked[r] \in Packets \cup {NULL}
      /\ \A p \in Packets : InQueue(r, p) => PeerOf[p] = r /\ pstate[p] \in Queued
  BY DEF PlaceInv, OwnerInv, TypeInv, TypeOK, QueueTypeOK, Placed
<1>2. /\ rxq[r] # <<>> => rxq[r][1] \in Packets /\ InRxq(r, rxq[r][1])
      /\ Len(rxq[r]) > 1 => rxq[r][2] \in Packets /\ InRxq(r, rxq[r][2])
  BY <1>1 DEF InRxq
<1>3. First(r) \in Packets \cup {NULL} /\ (First(r) # NULL => InQueue(r, First(r)))
  BY <1>1, <1>2 DEF First, InQueue
<1>4. Second(r) \in Packets \cup {NULL} /\ (Second(r) # NULL => InQueue(r, Second(r)))
  BY <1>1, <1>2 DEF Second, InQueue
<1> QED BY <1>1, <1>3, <1>4

(* They depend on the peer's own queue alone.                               *)
LEMMA SameView ==
  ASSUME NEW r \in Peers, rxq'[r] = rxq[r], peeked'[r] = peeked[r]
  PROVE  First(r)' = First(r) /\ Second(r)' = Second(r)
  BY DEF First, Second

(* A peek does not change them.                                             *)
LEMMA PeekView ==
  ASSUME PlaceInv, NEW q \in Peers, NEW p \in Peeks(q), wg_prev_queue_peek(q, p)
  PROVE  First(q)' = First(q) /\ Second(q)' = Second(q) /\ peeked'[q] = p
<1>1. /\ QueueTypeOK /\ p \in Packets \cup {NULL}
      /\ rxq[q] \in Seq(Packets) /\ peeked[q] \in Packets \cup {NULL}
      /\ peeked'[q] = p
  BY PeekType DEF PlaceInv, OwnerInv, TypeInv, TypeOK, QueueTypeOK, wg_prev_queue_peek
<1>2. CASE peeked[q] = NULL /\ p # NULL
  <2>1. rxq[q] # <<>> /\ p = rxq[q][1] /\ rxq'[q] = Tail(rxq[q])
    BY <1>1, <1>2 DEF Peeks, DequeueReturns, wg_prev_queue_peek, RxqAfterPeek, QueueTypeOK
  <2>2. First(q) = p /\ First(q)' = p
    BY <1>1, <1>2, <2>1 DEF First
  <2>3. CASE Len(rxq[q]) > 1
    <3>1. Tail(rxq[q]) # <<>> /\ Tail(rxq[q])[1] = rxq[q][2]
      BY <1>1, <2>1, <2>3
    <3>2. Second(q) = rxq[q][2]
      BY <1>2, <2>3 DEF Second
    <3>3. Second(q)' = Tail(rxq[q])[1]
      BY <1>1, <1>2, <2>1, <3>1 DEF Second
    <3> QED BY <1>1, <2>2, <3>1, <3>2, <3>3
  <2>4. CASE ~ (Len(rxq[q]) > 1)
    <3>1. Tail(rxq[q]) = <<>>
      BY <1>1, <2>1, <2>4
    <3>2. Second(q) = NULL
      BY <1>2, <2>4 DEF Second
    <3>3. Second(q)' = NULL
      BY <1>1, <1>2, <2>1, <3>1 DEF Second
    <3> QED BY <1>1, <2>2, <3>2, <3>3
  <2> QED BY <2>3, <2>4
<1>3. CASE ~ (peeked[q] = NULL /\ p # NULL)
  <2>1. rxq'[q] = rxq[q] /\ peeked'[q] = peeked[q]
    BY <1>1, <1>3 DEF Peeks, wg_prev_queue_peek, RxqAfterPeek
  <2> QED BY <1>1, <2>1, SameView
<1> QED BY <1>2, <1>3

(* A packet whose link is still to be stored is UNCRYPTED.                  *)
LEMMA UnlinkedBlocked ==
  ASSUME PlaceInv, NEW p \in Packets, ~ Linked(p)
  PROVE  Blocked(p)
<1>1. PICK a \in Producers : pc[a] = "link" /\ skb[a] = p
  BY DEF Linked
<1>2. Owes(a, p)
  BY <1>1 DEF Owes
<1> QED BY <1>2, NullAssumption DEF PlaceInv, OwnerInv, OneCompletionOwed, Blocked

(* A peek that shows nothing deliverable: the head is not, or the packet    *)
(* behind it, still unlinked, hides it.                                     *)
LEMMA PeekBlocked ==
  ASSUME PlaceInv, NEW q \in Peers, NEW p \in Peeks(q), ~ Deliverable(p)
  PROVE  ~ Deliverable(First(q)) \/ (p = NULL /\ peeked[q] = NULL /\ Blocked(Second(q)))
<1>1. /\ rxq[q] \in Seq(Packets) /\ peeked[q] \in Packets \cup {NULL}
      /\ p \in Packets \cup {NULL}
  BY PeekType DEF PlaceInv, OwnerInv, TypeInv, TypeOK, QueueTypeOK
<1>2. CASE peeked[q] # NULL
  <2>1. p = peeked[q] /\ First(q) = p
    BY <1>2 DEF Peeks, First
  <2> QED BY <2>1
<1>3. CASE peeked[q] = NULL /\ p # NULL
  <2>1. rxq[q] # <<>> /\ p = rxq[q][1]
    BY <1>3 DEF Peeks, DequeueReturns
  <2>2. First(q) = p
    BY <1>3, <2>1 DEF First
  <2> QED BY <2>2
<1>4. CASE peeked[q] = NULL /\ p = NULL
  <2>1. Gap(rxq[q])
    BY <1>4 DEF Peeks, DequeueReturns
  <2>2. CASE rxq[q] = <<>>
    <3>1. First(q) = NULL
      BY <1>4, <2>2 DEF First
    <3> QED BY <3>1 DEF Deliverable
  <2>3. CASE rxq[q] # <<>> /\ ~ Linked(rxq[q][1])
    <3>1. First(q) = rxq[q][1] /\ rxq[q][1] \in Packets
      BY <1>1, <1>4, <2>3 DEF First
    <3>2. Blocked(First(q))
      BY <2>3, <3>1, UnlinkedBlocked
    <3> QED BY <3>2 DEF Blocked, Deliverable
  <2>4. CASE Len(rxq[q]) > 1 /\ ~ Linked(rxq[q][2])
    <3>1. Second(q) = rxq[q][2] /\ rxq[q][2] \in Packets
      BY <1>1, <1>4, <2>4 DEF Second
    <3>2. Blocked(Second(q))
      BY <2>4, <3>1, UnlinkedBlocked
    <3> QED BY <1>4, <3>2
  <2> QED BY <2>1, <2>2, <2>3, <2>4 DEF Gap
<1> QED BY <1>1, <1>2, <1>3, <1>4

-----------------------------------------------------------------------------
(* What keeps a wake on its way.                                            *)

(* If the first two packets stay and so do the wakes already coming.        *)
LEMMA LiveFrame ==
  ASSUME PlaceInv, NEW r \in Peers,
         knob' = knob, rx_blocked_on'[r] = rx_blocked_on[r],
         First(r)' = First(r), Second(r)' = Second(r),
         \A p \in Packets : PeerOf[p] = r /\ pstate[p] \in Queued =>
                               (pstate'[p] = "UNCRYPTED" <=> pstate[p] = "UNCRYPTED"),
         \A a \in Actors : Wakes(a, r) => Wakes(a, r)'
  PROVE  Live(r) => Live(r)'
<1>1. Deliverable(First(r))' <=> Deliverable(First(r))
  BY ViewType DEF Deliverable
<1>2. Blocked(Second(r))' <=> Blocked(Second(r))
  BY ViewType DEF Blocked
<1>3. WakeOwedBySecond(r)' <=> WakeOwedBySecond(r)
  BY <1>2 DEF WakeOwedBySecond
<1> QED BY <1>1, <1>3 DEF Live

(* A step of one actor that moves no packet and takes back no wake.         *)
LEMMA ActorLive ==
  ASSUME PlaceInv, NEW r \in Peers, NEW a \in Actors,
         knob' = knob, rx_blocked_on'[r] = rx_blocked_on[r],
         rxq'[r] = rxq[r], peeked'[r] = peeked[r],
         \A p \in Packets : PeerOf[p] = r /\ pstate[p] \in Queued =>
                               (pstate'[p] = "UNCRYPTED" <=> pstate[p] = "UNCRYPTED"),
         \A b \in Actors \ {a} : pc'[b] = pc[b] /\ skb'[b] = skb[b],
         Wakes(a, r) => Wakes(a, r)'
  PROVE  Live(r) => Live(r)'
<1>1. \A b \in Actors : Wakes(b, r) => Wakes(b, r)'
  BY DEF Wakes
<1> QED BY <1>1, SameView, LiveFrame

(* An appended packet is UNCRYPTED and changes neither a head nor the       *)
(* packet behind it that is already there.                                  *)
LEMMA EnqueueLive ==
  ASSUME PlaceInv, NEW a \in Producers, prev_queue_enqueue(a), NEW r \in Peers
  PROVE  Live(r) => Live(r)'
<1>1. /\ pc[a] = "enqueue" /\ pc' = [pc EXCEPT ![a] = "link"]
      /\ UNCHANGED <<knob, pstate, skb, peeked, rx_blocked_on>>
      /\ rxq' = [rxq EXCEPT ![PeerOf[skb[a]]] = Append(@, skb[a])]
  BY DEF prev_queue_enqueue, Goto, trigVars
<1>2. /\ QueueTypeOK /\ ActorTypeOK /\ OneCompletionOwed
      /\ skb[a] \in Packets /\ rxq[r] \in Seq(Packets)
  BY <1>1 DEF PlaceInv, OwnerInv, TypeInv, TypeOK, QueueTypeOK, ActorTypeOK
<1>3. pstate[skb[a]] = "UNCRYPTED"
  BY <1>1, <1>2 DEF OneCompletionOwed, Owes
<1>4. \A b \in Actors : Wakes(b, r) => Wakes(b, r)'
  BY <1>1, <1>2 DEF Wakes, ActorTypeOK
<1>5. CASE PeerOf[skb[a]] # r
  <2>1. rxq'[r] = rxq[r]
    BY <1>1, <1>2, <1>5 DEF QueueTypeOK
  <2> QED BY <1>1, <1>4, <2>1, SameView, LiveFrame
<1>6. CASE PeerOf[skb[a]] = r
  <2>1. rxq'[r] = Append(rxq[r], skb[a])
    BY <1>1, <1>2, <1>6 DEF QueueTypeOK
  <2>2. CASE First(r) = NULL
    <3>1. peeked[r] = NULL /\ rxq[r] = <<>>
      BY <1>2, <2>2, NullAssumption DEF First
    <3>2. First(r)' = skb[a]
      <4>1. Append(rxq[r], skb[a]) # <<>> /\ Append(rxq[r], skb[a])[1] = skb[a]
        BY <1>2, <3>1
      <4> QED BY <1>1, <2>1, <3>1, <4>1 DEF First
    <3>3. ~ Deliverable(First(r))'
      BY <1>1, <1>3, <3>2 DEF Deliverable
    <3> QED BY <3>3 DEF Live
  <2>3. CASE First(r) # NULL
    <3>1. First(r)' = First(r)
      BY <1>1, <1>2, <2>1, <2>3 DEF First
    <3>2. CASE Second(r) # NULL
      <4>1. Second(r)' = Second(r)
        BY <1>1, <1>2, <2>1, <3>2 DEF Second
      <4> QED BY <1>1, <1>4, <3>1, <4>1, LiveFrame
    <3>3. CASE Second(r) = NULL
      <4>1. ~ WakeOwedBySecond(r)
        BY <3>3 DEF WakeOwedBySecond, Blocked
      <4>2. Deliverable(First(r))' <=> Deliverable(First(r))
        BY <1>1, <3>1 DEF Deliverable
      <4> QED BY <1>4, <4>1, <4>2 DEF Live
    <3> QED BY <3>2, <3>3
  <2> QED BY <2>2, <2>3
<1> QED BY <1>5, <1>6

(* The completion of a packet that a sleeping instance needs starts the     *)
(* wake: it is the head, or the packet that hid the head.                   *)
LEMMA SetStateLive ==
  ASSUME PlaceInv, NEW a \in Actors, set_state(a), NEW r \in Peers, Quiet(r)
  PROVE  Live(r)'
<1>1. /\ QueueTypeOK /\ ActorTypeOK /\ skb[a] \in Packets
      /\ pc[a] = "set_state"
      /\ pc \in [Actors -> ProducerPCs \cup WorkerPCs \cup CompletionPCs \cup PollPCs]
      /\ pstate \in [Packets -> PacketStates]
  BY DEF set_state, PlaceInv, OwnerInv, TypeInv, TypeOK, QueueTypeOK, ActorTypeOK
<1>2. /\ UNCHANGED <<knob, rxq, peeked, rx_blocked_on, skb>>
      /\ \E o \in {"CRYPTED", "DEAD"} : pstate' = [pstate EXCEPT ![skb[a]] = o]
      /\ \E l \in {"gate", "wake"} : pc' = [pc EXCEPT ![a] = l]
  BY DEF set_state, Verdicts, Goto, trigVars
<1>3. \A b \in Actors : Wakes(b, r) => Wakes(b, r)'
  BY <1>1, <1>2 DEF Wakes
<1>4. First(r)' = First(r) /\ Second(r)' = Second(r)
  BY <1>2, SameView
<1>5. ASSUME PeerOf[skb[a]] = r, knob.headwake => rx_blocked_on[r] \in {NULL, skb[a]}
      PROVE  Live(r)'
  <2>1. Wakes(a, r)'
    BY <1>1, <1>2, <1>5, NullAssumption DEF Wakes
  <2> QED BY <2>1 DEF Live
<1>6. CASE skb[a] # First(r) /\ skb[a] # Second(r)
  <2>1. /\ Deliverable(First(r))' <=> Deliverable(First(r))
        /\ Blocked(Second(r))' <=> Blocked(Second(r))
    BY <1>1, <1>2, <1>4, <1>6, ViewType DEF Deliverable, Blocked
  <2>2. WakeOwedBySecond(r)' <=> WakeOwedBySecond(r)
    BY <1>2, <1>4, <2>1 DEF WakeOwedBySecond
  <2> QED BY <1>3, <2>1, <2>2 DEF Live, Quiet
<1>7. CASE skb[a] = First(r)
  <2>1. PeerOf[skb[a]] = r
    BY <1>1, <1>7, ViewType, NullAssumption
  <2>2. knob.headwake => rx_blocked_on[r] \in {NULL, skb[a]}
    BY <1>7 DEF Quiet, Published, First
  <2> QED BY <1>5, <2>1, <2>2
<1>8. CASE skb[a] = Second(r) /\ skb[a] # First(r)
  <2>1. PeerOf[skb[a]] = r
    BY <1>1, <1>8, ViewType, NullAssumption
  <2>2. CASE WakeOwedBySecond(r)
    BY <1>5, <1>8, <2>1, <2>2 DEF WakeOwedBySecond
  <2>3. CASE ~ WakeOwedBySecond(r)
    <3>1. Deliverable(First(r))' <=> Deliverable(First(r))
      BY <1>1, <1>2, <1>4, <1>8, ViewType DEF Deliverable
    <3> QED BY <1>3, <2>3, <3>1 DEF Live, Quiet
  <2> QED BY <2>2, <2>3
<1> QED BY <1>6, <1>7, <1>8

-----------------------------------------------------------------------------
(* The steps.                                                               *)

(* At first every queue is empty.                                           *)
LEMMA WakeInit ==
  ASSUME Init, knob.trig_k = 0 \/ knob.headwake
  PROVE  WakeInv
<1>1. PollInv /\ PlaceInv
  BY ConsumerInit, AliveWakeable, PlaceInit
<1>2. Untriggered
  BY DEF Init, Untriggered, TriggerPCs
<1>3. ASSUME NEW r \in Peers PROVE Rest(r)
  <2>1. First(r) = NULL
    BY DEF Init, First
  <2> QED BY <2>1 DEF Init, Rest, Quiet, Live, Published, Deliverable
<1>4. ASSUME NEW c \in Cpus PROVE Parking(c)
  BY DEF Init, Parking, ParkPCs
<1> QED BY <1>1, <1>2, <1>3, <1>4 DEF WakeInv, Resting, Parked

(* The trigger stays out of use.                                            *)
LEMMA UntriggeredStep ==
  ASSUME LiveTune = {}, TypeOK, Untriggered, [Next]_vars
  PROVE  Untriggered' /\ knob' = knob
<1> USE DEF queueVars, napiVars, trigVars, pollVars, Goto
<1>1. /\ pc \in [Actors -> ProducerPCs \cup WorkerPCs \cup CompletionPCs \cup PollPCs]
      /\ \A a \in Actors : pc[a] \notin TriggerPCs
      /\ knob.trig_k = 0 \/ knob.headwake
      /\ \A r \in Peers : ~ timer[r] /\ tpc[r] = "idle"
  BY DEF Untriggered, TypeOK, ActorTypeOK
<1>2. ASSUME UNCHANGED <<knob, timer, tpc>>, NEW a \in Actors,
             \/ pc' = pc
             \/ \E l : l \notin TriggerPCs /\ pc' = [pc EXCEPT ![a] = l]
      PROVE  Untriggered' /\ knob' = knob
  BY <1>1, <1>2 DEF Untriggered
<1>3. ASSUME NEW a \in Producers,
             ProducerStep(a) \/ \E p \in Packets : consume_data(a, p) \/ consume_data_drop(a, p)
      PROVE  Untriggered' /\ knob' = knob
  <2>1. /\ UNCHANGED <<knob, timer, tpc>>
        /\ pc' = pc \/ \E l : l \notin TriggerPCs /\ pc' = [pc EXCEPT ![a] = l]
    BY <1>3 DEF ProducerStep, consume_data, consume_data_drop, prev_queue_enqueue,
                prev_queue_link, ring_produce, queue_work, TriggerPCs
  <2> QED BY <1>2, <2>1
<1>4. ASSUME NEW w \in Workers, WorkerStep(w) PROVE Untriggered' /\ knob' = knob
  <2>1. /\ UNCHANGED <<knob, timer, tpc>>
        /\ \E l : l \notin TriggerPCs /\ pc' = [pc EXCEPT ![w] = l]
    BY <1>4 DEF WorkerStep, worker_start, worker_consume, TriggerPCs
  <2> QED BY <1>2, <2>1
<1>5. ASSUME NEW a \in Actors, CompletionStep(a) PROVE Untriggered' /\ knob' = knob
  <2>1. set_state(a) \/ gate(a) \/ wake(a)
    BY <1>1, <1>5 DEF CompletionStep, inc_ready, disarm, cancel_timer, arm,
                      hrtimer_start, TriggerPCs
  <2>2. /\ UNCHANGED <<knob, timer, tpc>>
        /\ \E l : l \notin TriggerPCs /\ pc' = [pc EXCEPT ![a] = l]
    BY <1>1, <2>1 DEF set_state, gate, wake, Return, TriggerPCs
  <2> QED BY <1>2, <2>2
<1>6. ASSUME NEW r \in Peers PROVE ~ TimerStep(r)
  BY <1>1 DEF TimerStep, timer_expire, timer_clear, timer_wake
<1>7. ASSUME NEW c \in Cpus, PollStep(c) \/ \E r \in Peers : net_rx_action(c, r)
      PROVE  Untriggered' /\ knob' = knob
  <2>1. /\ UNCHANGED <<knob, timer, tpc>>
        /\ pc' = pc \/ \E l : l \notin TriggerPCs /\ pc' = [pc EXCEPT ![c] = l]
    BY <1>7 DEF net_rx_action, PollStep, rx_poll_deliver, rx_poll_blocked, rx_poll_steal,
                rx_poll_pull, rx_poll_stolen, rx_poll_finish, rx_poll_publish,
                rx_poll_recheck, rx_poll_supp, rx_poll_clear_missed,
                rx_poll_supp_recheck, rx_poll_complete, napi_poll_exhausted,
                PollReturns, TriggerPCs
  <2> QED BY <1>2, <2>1
<1>8. ASSUME UNCHANGED vars PROVE Untriggered' /\ knob' = knob
  BY <1>8 DEF Untriggered, vars
<1>9. ~ param_set
  BY DEF param_set
<1> QED BY <1>3, <1>4, <1>5, <1>6, <1>7, <1>8, <1>9 DEF Next

\* The wake of peer r has arrived in its NAPI word.
Roused(r) == /\ "SCHED" \in napi'[r]
             /\ "SCHED" \in napi[r] => "MISSED" \in napi'[r]

(* Steps that are no part of a poll's own work: they wake, or keep what is  *)
(* on its way, and leave polls where they were.                             *)
LEMMA OutsideStep ==
  ASSUME WakeInv,
         UNCHANGED <<knob, cur, head, rx_blocked_on, peeked>>,
         \A r \in Peers : (Quiet(r) => Live(r)') \/ Roused(r),
         \A r \in Peers : "SCHED" \in napi[r] => "SCHED" \in napi'[r],
         \A r \in Peers : "MISSED" \in napi[r] => "MISSED" \in napi'[r],
         \A c \in Cpus : pc'[c] = pc[c] \/ (pc[c] \in StealPCs /\ pc'[c] \in StealPCs)
  PROVE  Resting' /\ Parked'
<1>1. \A r \in Peers : Published(r)' <=> Published(r)
  BY DEF Published
<1>2. ASSUME NEW r \in Peers PROVE Rest(r)'
  BY <1>1 DEF Rest, Quiet, Roused, WakeInv, Resting
<1>3. ASSUME NEW c \in Cpus PROVE Parking(c)'
  <2>1. CASE cur[c] = NULL
    <3>1. pc[c] = "idle"
      BY <2>1 DEF WakeInv, PollInv, TypeInv, TypeOK, PollTypeOK
    <3> QED BY <2>1, <3>1 DEF Parking, ParkPCs, StealPCs
  <2>2. CASE cur[c] # NULL
    <3> PICK r \in Peers : r = cur[c]
      BY <2>2 DEF WakeInv, PollInv, TypeInv, TypeOK, PollTypeOK
    <3>1. "SCHED" \in napi[r]
      BY DEF WakeInv, PollInv, Wakeable, Has
    <3>2. /\ Settled(c)' => Settled(c)
          /\ pc'[c] \in ParkPCs => pc[c] \in ParkPCs
          /\ pc'[c] = "publish" => pc[c] = "publish"
      BY DEF Settled, StealPCs, ParkPCs
    <3>3. Parking(c)
      BY DEF WakeInv, Parked
    <3>4. Settled(c) /\ knob.headwake => Published(r)
      BY <3>3 DEF Settled, Parking, ParkPCs
    <3>5. Settled(c)' => "MISSED" \in napi'[r] \/ Live(r)'
      BY <2>2, <3>1, <3>2, <3>3, <3>4 DEF Parking, Quiet, Roused
    <3>6. knob.headwake /\ pc'[c] \in ParkPCs => Published(r)'
      BY <1>1, <3>2, <3>3 DEF Parking
    <3>7. pc'[c] = "publish" => head[c] \in {NULL, peeked[r]}
      BY <3>2, <3>3 DEF Parking
    <3>8. Live(cur[c])' <=> Live(r)'
      BY DEF Live, First, Second, Wakes, WakeOwedBySecond
    <3> QED BY <3>5, <3>6, <3>7, <3>8 DEF Parking, Published
  <2> QED BY <2>1, <2>2
<1> QED BY <1>2, <1>3 DEF Resting, Parked

(* What a producer or a worker does, the completion apart.                  *)
LEMMA ProducerWake ==
  ASSUME WakeInv, NEW a \in Producers \cup Workers,
         \/ a \in Producers /\ ProducerStep(a)
         \/ a \in Producers /\ \E p \in Packets : consume_data(a, p) \/ consume_data_drop(a, p)
         \/ a \in Workers /\ WorkerStep(a)
  PROVE  Resting' /\ Parked'
<1> USE DEF queueVars, napiVars, trigVars, pollVars, Goto
<1>1. /\ PlaceInv /\ QueueTypeOK /\ ActorTypeOK /\ a \in Actors /\ a \notin Cpus
      /\ pc \in [Actors -> ProducerPCs \cup WorkerPCs \cup CompletionPCs \cup PollPCs]
      /\ skb \in [Actors -> Packets \cup {NULL}]
      /\ pstate \in [Packets -> PacketStates]
  BY ActorsAssumption DEF WakeInv, PlaceInv, OwnerInv, TypeInv, TypeOK, QueueTypeOK, ActorTypeOK
<1>2. /\ UNCHANGED <<knob, cur, head, rx_blocked_on, peeked, napi>>
      /\ pc[a] \in ProducerPCs \cup WorkerPCs
      /\ \A b \in Actors \ {a} : pc'[b] = pc[b] /\ skb'[b] = skb[b]
  BY <1>1 DEF ProducerStep, WorkerStep, consume_data, consume_data_drop,
              prev_queue_enqueue, prev_queue_link, ring_produce, queue_work,
              worker_start, worker_consume
<1>3. \A c \in Cpus : pc'[c] = pc[c]
  BY <1>1, <1>2
<1>4. ASSUME NEW r \in Peers PROVE Quiet(r) => Live(r)'
  <2>1. CASE a \in Producers /\ prev_queue_enqueue(a)
    BY <1>1, <2>1, EnqueueLive DEF Quiet
  <2>2. CASE ~ (a \in Producers /\ prev_queue_enqueue(a))
    <3>1. /\ UNCHANGED rxq
          /\ \/ pstate' = pstate
             \/ \E p \in Packets, o \in {"UNCRYPTED", "FREED"} :
                   pstate[p] = "WIRE" /\ pstate' = [pstate EXCEPT ![p] = o]
      BY <2>2 DEF ProducerStep, WorkerStep, consume_data, consume_data_drop,
                  prev_queue_link, ring_produce, queue_work, worker_start, worker_consume
    <3>2. \A p \in Packets : PeerOf[p] = r /\ pstate[p] \in Queued =>
                                (pstate'[p] = "UNCRYPTED" <=> pstate[p] = "UNCRYPTED")
      BY <1>1, <3>1 DEF Queued
    <3>3. ~ Wakes(a, r)
      BY <1>2 DEF Wakes
    <3> QED BY <1>1, <1>2, <3>1, <3>2, <3>3, ActorLive DEF Quiet
  <2> QED BY <2>1, <2>2
<1> QED BY <1>2, <1>3, <1>4, OutsideStep

(* Completions, whoever runs them.                                          *)
LEMMA CompletionWake ==
  ASSUME WakeInv, NEW a \in Actors, CompletionStep(a)
  PROVE  Resting' /\ Parked'
<1> USE DEF queueVars, napiVars, trigVars, pollVars, Goto
<1>1. /\ PlaceInv /\ QueueTypeOK /\ ActorTypeOK /\ Wakeable
      /\ pc \in [Actors -> ProducerPCs \cup WorkerPCs \cup CompletionPCs \cup PollPCs]
      /\ skb \in [Actors -> Packets \cup {NULL}]
      /\ pc[a] \notin TriggerPCs
      /\ knob.trig_k = 0 \/ knob.headwake
  BY DEF WakeInv, PollInv, PlaceInv, OwnerInv, TypeInv, TypeOK, QueueTypeOK,
         ActorTypeOK, Untriggered
<1>2. set_state(a) \/ gate(a) \/ wake(a)
  BY <1>1 DEF CompletionStep, inc_ready, disarm, cancel_timer, arm, hrtimer_start, TriggerPCs
<1>3. /\ UNCHANGED <<knob, cur, head, rx_blocked_on, peeked, rxq>>
      /\ pc[a] \in CompletionPCs /\ skb[a] \in Packets
      /\ \A b \in Actors \ {a} : pc'[b] = pc[b] /\ skb'[b] = skb[b]
  BY <1>1, <1>2 DEF set_state, gate, wake, Return, ActorTypeOK
<1>4. ASSUME NEW c \in Cpus
      PROVE  pc'[c] = pc[c] \/ (pc[c] \in StealPCs /\ pc'[c] \in StealPCs)
  <2>1. CASE c # a
    BY <1>3, <2>1
  <2>2. CASE c = a
    <3>1. c \notin Producers /\ c \notin Workers
      BY ActorsAssumption
    <3> QED BY <1>1, <1>2, <1>3, <2>2, <3>1
            DEF set_state, gate, wake, Return, StealPCs, TriggerPCs
  <2> QED BY <2>1, <2>2
<1>5. CASE set_state(a)
  <2>1. UNCHANGED napi
    BY <1>5 DEF set_state
  <2> QED BY <1>1, <1>3, <1>4, <1>5, <2>1, SetStateLive, OutsideStep
<1>6. CASE gate(a)
  <2>1. UNCHANGED <<napi, pstate>>
    BY <1>6 DEF gate
  <2>2. ASSUME NEW r \in Peers PROVE Quiet(r) => Live(r)'
    <3>1. Wakes(a, r) => Wakes(a, r)'
      <4> SUFFICES ASSUME Wakes(a, r) PROVE Wakes(a, r)'
        OBVIOUS
      <4>1. skb' = skb /\ pc' = [pc EXCEPT ![a] = "wake"]
        BY <1>1, <1>6 DEF gate, Wakes, WakesHead
      <4> QED BY <1>1, <4>1 DEF Wakes
    <3> QED BY <1>1, <1>3, <2>1, <3>1, ActorLive DEF Quiet
  <2> QED BY <1>3, <1>4, <2>1, <2>2, OutsideStep
<1>7. CASE wake(a)
  <2> PICK q \in Peers : q = PeerOf[skb[a]]
    BY <1>3, PeerOfAssumption
  <2>1. /\ UNCHANGED pstate
        /\ napi' = [napi EXCEPT ![q] = napi_schedule_prep(@)]
    BY <1>7 DEF wake, napi_schedule
  <2>2. /\ napi \in [Peers -> SUBSET NapiBits]
        /\ \A r \in Peers : r # q => napi'[r] = napi[r]
        /\ napi'[q] = IF "SCHED" \in napi[q] THEN napi[q] \cup {"MISSED"}
                                             ELSE napi[q] \cup {"SCHED"}
    <3>1. napi \in [Peers -> SUBSET NapiBits] /\ "DISABLE" \notin napi[q]
      BY <1>1, <1>3, NullAssumption
         DEF Wakeable, Holds, WakeInv, PollInv, TypeInv, TypeOK, WakeTypeOK
    <3>2. napi_schedule_prep(napi[q]) = IF "SCHED" \in napi[q] THEN napi[q] \cup {"MISSED"}
                                                               ELSE napi[q] \cup {"SCHED"}
      BY <3>1 DEF napi_schedule_prep
    <3> QED BY <2>1, <3>1, <3>2
  <2>3. Roused(q)
    BY <2>2 DEF Roused
  <2>4. ASSUME NEW r \in Peers, r # q PROVE Quiet(r) => Live(r)'
    <3>1. ~ Wakes(a, r)
      BY <2>4 DEF Wakes
    <3> QED BY <1>1, <1>3, <2>1, <3>1, ActorLive DEF Quiet
  <2>5. \A r \in Peers : /\ "SCHED" \in napi[r] => "SCHED" \in napi'[r]
                         /\ "MISSED" \in napi[r] => "MISSED" \in napi'[r]
    BY <2>2
  <2> QED BY <1>3, <1>4, <2>3, <2>4, <2>5, OutsideStep
<1> QED BY <1>2, <1>5, <1>6, <1>7

(* A poll of c on peer q touches only q: what is left to show is where it   *)
(* leaves q.                                                                *)
LEMMA InsideStep ==
  ASSUME WakeInv, NEW c \in Cpus, NEW q \in Peers, Has(c, q),
         knob' = knob, pc[c] \notin {"gate", "wake"},
         \A a \in Actors \ {c} : pc'[a] = pc[a] /\ skb'[a] = skb[a],
         \A d \in Cpus \ {c} : cur'[d] = cur[d] /\ head'[d] = head[d],
         \A r \in Peers \ {q} : /\ rxq'[r] = rxq[r] /\ peeked'[r] = peeked[r]
                                /\ rx_blocked_on'[r] = rx_blocked_on[r]
                                /\ napi'[r] = napi[r],
         \A p \in Packets : PeerOf[p] # q => pstate'[p] = pstate[p],
         "SCHED" \in napi'[q] \/ Quiet(q)',
         Parking(c)'
  PROVE  Resting' /\ Parked'
<1>1. ASSUME NEW r \in Peers \ {q}
      PROVE  (Live(r) => Live(r)') /\ (Published(r)' <=> Published(r))
  <2>1. ~ Wakes(c, r)
    BY DEF Wakes
  <2>2. Live(r) => Live(r)'
    BY <2>1, ActorLive DEF WakeInv
  <2> QED BY <2>2 DEF Published
<1>2. ASSUME NEW r \in Peers PROVE Rest(r)'
  <2>1. CASE r = q
    BY <2>1 DEF Rest
  <2>2. CASE r # q
    BY <1>1, <2>2 DEF Rest, Quiet, WakeInv, Resting
  <2> QED BY <2>1, <2>2
<1>3. ASSUME NEW d \in Cpus, d # c PROVE Parking(d)'
  <2>0. pc'[d] = pc[d] /\ cur'[d] = cur[d] /\ head'[d] = head[d]
    BY <1>3
  <2>1. CASE cur[d] = NULL
    <3>1. pc[d] = "idle"
      BY <2>1 DEF WakeInv, PollInv, TypeInv, TypeOK, PollTypeOK
    <3> QED BY <2>0, <2>1, <3>1 DEF Parking, ParkPCs
  <2>2. CASE cur[d] # NULL
    <3> PICK r \in Peers : r = cur[d]
      BY <2>2 DEF WakeInv, PollInv, TypeInv, TypeOK, PollTypeOK
    <3>1. r # q
      BY <1>3 DEF WakeInv, PollInv, SingleConsumer, Has
    <3>2. Parking(d)
      BY DEF WakeInv, Parked
    <3>3. /\ Settled(d)' => "MISSED" \in napi'[r] \/ Live(r)'
          /\ knob.headwake /\ pc'[d] \in ParkPCs => Published(r)'
          /\ pc'[d] = "publish" => head'[d] \in {NULL, peeked'[r]}
      BY <1>1, <2>0, <2>2, <3>1, <3>2 DEF Parking, Settled
    <3>4. Live(cur[d])' <=> Live(r)'
      BY <2>0 DEF Live, First, Second, Wakes, WakeOwedBySecond
    <3> QED BY <2>0, <3>3, <3>4 DEF Parking, Published
  <2> QED BY <2>1, <2>2
<1> QED BY <1>2, <1>3 DEF Resting, Parked

(* What a poll's own step keeps of its peer, and what a fruitless peek      *)
(* establishes.                                                             *)
LEMMA OwnPeer ==
  ASSUME WakeInv, NEW c \in Cpus, NEW q \in Peers,
         UNCHANGED <<knob, pstate, rx_blocked_on>>, pc[c] \notin {"gate", "wake"},
         \A a \in Actors \ {c} : pc'[a] = pc[a] /\ skb'[a] = skb[a],
         \/ UNCHANGED <<rxq, peeked>>
         \/ \E p \in Peeks(q) : wg_prev_queue_peek(q, p)
  PROVE  /\ Live(q) => Live(q)'
         /\ Published(q) => Published(q)'
<1>0. PlaceInv
  BY DEF WakeInv
<1>1. First(q)' = First(q) /\ Second(q)' = Second(q)
  BY <1>0, SameView, PeekView
<1>2. \A a \in Actors : Wakes(a, q) => Wakes(a, q)'
  BY DEF Wakes
<1>3. Live(q) => Live(q)'
  BY <1>0, <1>1, <1>2, LiveFrame
<1>4. Published(q) => Published(q)'
  <2>1. CASE UNCHANGED <<rxq, peeked>>
    BY <2>1 DEF Published
  <2>2. CASE \E p \in Peeks(q) : wg_prev_queue_peek(q, p)
    <3>1. PICK p \in Peeks(q) : wg_prev_queue_peek(q, p)
      BY <2>2
    <3>2. peeked'[q] = p /\ (peeked[q] # NULL => p = peeked[q])
      BY <1>0, <3>1, PeekView DEF Peeks
    <3> QED BY <3>2 DEF Published
  <2> QED BY <2>1, <2>2
<1> QED BY <1>3, <1>4

(* A peek that shows nothing deliverable lets the poll go to sleep, if what *)
(* it published is its head.                                                *)
LEMMA FruitlessPeek ==
  ASSUME WakeInv, NEW q \in Peers, NEW p \in Peeks(q), wg_prev_queue_peek(q, p),
         ~ Deliverable(p), UNCHANGED <<knob, pstate, rx_blocked_on>>,
         knob.headwake => Published(q)
  PROVE  Live(q)'
<1>0. PlaceInv
  BY DEF WakeInv
<1>1. First(q)' = First(q) /\ Second(q)' = Second(q)
  BY <1>0, PeekView
<1>2. CASE ~ Deliverable(First(q))
  BY <1>1, <1>2 DEF Deliverable, Live
<1>3. CASE peeked[q] = NULL /\ Blocked(Second(q))
  <2>1. knob.headwake => rx_blocked_on[q] = NULL
    BY <1>3 DEF Published
  <2>2. WakeOwedBySecond(q)'
    BY <1>1, <1>3, <2>1 DEF WakeOwedBySecond, Blocked
  <2> QED BY <2>2 DEF Live
<1> QED BY <1>0, <1>2, <1>3, PeekBlocked

(* Parking(c)', with the polled peer named.                                 *)
LEMMA ParkAt ==
  ASSUME NEW c \in Cpus, NEW q \in Peers, cur'[c] = q,
         Settled(c)' => "MISSED" \in napi'[q] \/ Live(q)',
         knob'.headwake /\ pc'[c] \in ParkPCs => Published(q)',
         pc'[c] = "publish" => head'[c] \in {NULL, peeked'[q]}
  PROVE  Parking(c)'
<1>1. Live(cur[c])' <=> Live(q)'
  BY DEF Live, First, Second, Wakes, WakeOwedBySecond
<1> QED BY <1>1 DEF Parking, Published

(* A step of a poll touches no other peer.                                  *)
LEMMA PollTouches ==
  ASSUME WakeInv, NEW c \in Cpus, PollStep(c), NEW q \in Peers, q = cur[c]
  PROVE  /\ pc[c] \notin {"gate", "wake"} /\ knob' = knob
         /\ \A a \in Actors \ {c} : pc'[a] = pc[a] /\ skb'[a] = skb[a]
         /\ \A d \in Cpus \ {c} : cur'[d] = cur[d] /\ head'[d] = head[d]
         /\ \A r \in Peers \ {q} : /\ rxq'[r] = rxq[r] /\ peeked'[r] = peeked[r]
                                   /\ rx_blocked_on'[r] = rx_blocked_on[r]
                                   /\ napi'[r] = napi[r]
         /\ \A p \in Packets : PeerOf[p] # q => pstate'[p] = pstate[p]
<1> USE DEF queueVars, napiVars, trigVars, pollVars, Goto, PollReturns
<1>1. /\ PlaceInv /\ QueueTypeOK /\ NoTwice(q) /\ napi \in [Peers -> SUBSET NapiBits]
      /\ pc \in [Actors -> ProducerPCs \cup WorkerPCs \cup CompletionPCs \cup PollPCs]
      /\ skb \in [Actors -> Packets \cup {NULL}]
      /\ pstate \in [Packets -> PacketStates]
      /\ cur \in [Cpus -> Peers \cup {NULL}] /\ head \in [Cpus -> Packets \cup {NULL}]
      /\ rx_blocked_on \in [Peers -> Packets \cup {NULL}]
  BY DEF WakeInv, PlaceInv, OwnerInv, TypeInv, TypeOK, QueueTypeOK, ActorTypeOK,
         PollTypeOK, WakeTypeOK
<1>2. /\ pc[c] \notin {"gate", "wake"} /\ knob' = knob
      /\ \A a \in Actors \ {c} : pc'[a] = pc[a] /\ skb'[a] = skb[a]
      /\ \A d \in Cpus \ {c} : cur'[d] = cur[d] /\ head'[d] = head[d]
  BY <1>1
     DEF PollStep, rx_poll_deliver, rx_poll_blocked, rx_poll_steal, rx_poll_pull,
         rx_poll_stolen, rx_poll_finish, rx_poll_publish, rx_poll_recheck,
         rx_poll_supp, rx_poll_clear_missed, rx_poll_supp_recheck,
         rx_poll_complete, napi_poll_exhausted
<1>3. \A r \in Peers \ {q} : /\ rx_blocked_on'[r] = rx_blocked_on[r]
                             /\ napi'[r] = napi[r]
  BY <1>1
     DEF PollStep, rx_poll_deliver, rx_poll_blocked, rx_poll_steal, rx_poll_pull,
         rx_poll_stolen, rx_poll_finish, rx_poll_publish, rx_poll_recheck,
         rx_poll_supp, rx_poll_clear_missed, rx_poll_supp_recheck,
         rx_poll_complete, napi_poll_exhausted, SetMissedIfReady, CompleteDone
<1>4. CASE rx_poll_deliver(c)
  <2>1. PICK p \in Peeks(q) :
           /\ Deliverable(p)
           /\ rxq' = RxqAfterPeek(q, p)
           /\ peeked' = [peeked EXCEPT ![q] = NULL]
           /\ \E o : pstate' = [pstate EXCEPT ![p] = o]
    BY <1>4 DEF rx_poll_deliver
  <2>2. \A r \in Peers \ {q} : rxq'[r] = rxq[r] /\ peeked'[r] = peeked[r]
    BY <1>1, <2>1 DEF RxqAfterPeek, QueueTypeOK
  <2>3. p \in Packets
    BY <1>1, <2>1, PeekType DEF Deliverable
  <2>4. InQueue(q, p)
    <3>1. CASE peeked[q] # NULL
      BY <3>1 DEF Peeks, InQueue
    <3>2. CASE peeked[q] = NULL
      <4>1. rxq[q] \in Seq(Packets) /\ rxq[q] # <<>> /\ p = rxq[q][1]
        BY <1>1, <2>3, <3>2, NullAssumption DEF Peeks, DequeueReturns, QueueTypeOK
      <4> QED BY <4>1 DEF InQueue, InRxq
    <3> QED BY <3>1, <3>2
  <2>5. PeerOf[p] = q
    BY <1>1, <2>3, <2>4 DEF PlaceInv, Placed
  <2> QED BY <1>1, <1>2, <1>3, <2>1, <2>2, <2>5
<1>5. CASE ~ rx_poll_deliver(c)
  <2>1. /\ UNCHANGED pstate
        /\ \/ UNCHANGED <<rxq, peeked>>
           \/ \E p \in Peeks(q) : wg_prev_queue_peek(q, p)
    BY <1>5 DEF PollStep, rx_poll_blocked, rx_poll_steal, rx_poll_pull,
         rx_poll_stolen, rx_poll_finish, rx_poll_publish, rx_poll_recheck,
         rx_poll_supp, rx_poll_clear_missed, rx_poll_supp_recheck,
         rx_poll_complete, napi_poll_exhausted, SetMissedIfReady
  <2>2. \A r \in Peers \ {q} : rxq'[r] = rxq[r] /\ peeked'[r] = peeked[r]
    BY <1>1, <2>1, PeekPlaces
  <2> QED BY <1>2, <1>3, <2>1, <2>2
<1> QED BY <1>4, <1>5

(* The steps of a poll.                                                     *)
LEMMA PollWake ==
  ASSUME WakeInv, NEW c \in Cpus, PollStep(c)
  PROVE  Resting' /\ Parked'
<1> USE DEF queueVars, napiVars, trigVars, pollVars, Goto
<1>1. /\ TypeOK /\ Wakeable /\ SingleConsumer /\ Parking(c)
      /\ pc \in [Actors -> ProducerPCs \cup WorkerPCs \cup CompletionPCs \cup PollPCs]
      /\ pc[c] \in PollPCs \ {"idle"}
  <2>1. pc[c] \in PollPCs \ {"idle"}
    BY DEF PollStep, rx_poll_deliver, rx_poll_blocked, rx_poll_steal, rx_poll_pull,
           rx_poll_stolen, rx_poll_finish, rx_poll_publish, rx_poll_recheck,
           rx_poll_supp, rx_poll_clear_missed, rx_poll_supp_recheck,
           rx_poll_complete, napi_poll_exhausted
  <2> QED BY <2>1 DEF WakeInv, Parked, PollInv, TypeInv, TypeOK, ActorTypeOK
<1> PICK q \in Peers : q = cur[c]
  BY <1>1 DEF TypeOK, PollTypeOK
<1>2. /\ Has(c, q) /\ "SCHED" \in napi[q] /\ "NPSVC" \notin napi[q]
      /\ napi \in [Peers -> SUBSET NapiBits]
  BY <1>1 DEF Has, Wakeable, TypeOK, WakeTypeOK
<1>3. /\ pc[c] \notin {"gate", "wake"} /\ knob' = knob
      /\ \A a \in Actors \ {c} : pc'[a] = pc[a] /\ skb'[a] = skb[a]
  BY PollTouches
<1>4. ASSUME "SCHED" \in napi'[q] \/ Quiet(q)', Parking(c)'
      PROVE  Resting' /\ Parked'
  BY <1>2, <1>4, PollTouches, InsideStep
<1>5. CASE rx_poll_deliver(c)
  <2>1. /\ UNCHANGED <<cur, napi>>
        /\ \E l \in {"deliver", "exhausted"} : pc' = [pc EXCEPT ![c] = l]
    BY <1>5 DEF rx_poll_deliver
  <2>2. pc'[c] \in {"deliver", "exhausted"}
    BY <1>1, <2>1
  <2>3. Parking(c)'
    BY <2>2 DEF Parking, Settled, StealPCs, ParkPCs
  <2> QED BY <1>2, <1>4, <2>1, <2>3
<1>6. CASE \/ rx_poll_steal(c) \/ rx_poll_pull(c) \/ rx_poll_stolen(c) \/ rx_poll_supp(c)
           \/ rx_poll_finish(c) /\ ~ knob.headwake
  <2>1. /\ UNCHANGED <<cur, napi, pstate, rx_blocked_on>>
        /\ \/ UNCHANGED <<rxq, peeked>>
           \/ \E p \in Peeks(q) : wg_prev_queue_peek(q, p)
    BY <1>6 DEF rx_poll_steal, rx_poll_pull, rx_poll_stolen, rx_poll_supp, rx_poll_finish
  <2>2. (Live(q) => Live(q)') /\ (Published(q) => Published(q)')
    BY <1>3, <2>1, OwnPeer
  <2>3. \/ pc[c] \in StealPCs /\ pc'[c] \in StealPCs \cup {"deliver"}
        \/ pc[c] = "supp" /\ pc'[c] \in {"clear", "complete"}
        \/ pc[c] = "finish" /\ pc'[c] = "supp" /\ ~ knob.headwake
    BY <1>1, <1>6 DEF rx_poll_steal, rx_poll_pull, rx_poll_stolen, rx_poll_supp,
                      rx_poll_finish, StealPCs
  <2>4. /\ Settled(c)' => Settled(c)
        /\ knob.headwake /\ pc'[c] \in ParkPCs => pc[c] \in ParkPCs
        /\ pc'[c] # "publish"
    BY <1>3, <2>3 DEF Settled, StealPCs, ParkPCs
  <2>5. /\ Settled(c) => "MISSED" \in napi[q] \/ Live(q)
        /\ knob.headwake /\ pc[c] \in ParkPCs => Published(q)
    BY <1>1, NullAssumption DEF Parking
  <2>6. Parking(c)'
    BY <1>3, <2>1, <2>2, <2>4, <2>5, ParkAt
  <2> QED BY <1>2, <1>4, <2>1, <2>6
<1>7. CASE rx_poll_blocked(c)
  <2>1. PICK p \in Peeks(q) : ~ Deliverable(p) /\ wg_prev_queue_peek(q, p)
    BY <1>7 DEF rx_poll_blocked
  <2>2. /\ UNCHANGED <<cur, napi, pstate, rx_blocked_on>>
        /\ pc'[c] \in {"steal", "finish"}
    BY <1>1, <1>7 DEF rx_poll_blocked
  <2>3. ~ knob.headwake => Live(q)'
    BY <1>3, <2>1, <2>2, FruitlessPeek
  <2>4. Parking(c)'
    BY <1>3, <2>2, <2>3, ParkAt DEF Settled, StealPCs, ParkPCs
  <2> QED BY <1>2, <1>4, <2>2, <2>4
<1>8. CASE rx_poll_finish(c) /\ knob.headwake
  <2>1. PICK p \in Peeks(q) : /\ wg_prev_queue_peek(q, p)
                              /\ head' = [head EXCEPT ![c] = p]
    BY <1>8 DEF rx_poll_finish
  <2>2. UNCHANGED <<cur, napi>> /\ pc'[c] = "publish"
    BY <1>1, <1>8 DEF rx_poll_finish
  <2>3. head'[c] = p /\ peeked'[q] = p
    BY <1>1, <2>1, PeekView DEF TypeOK, PollTypeOK, WakeInv
  <2>4. Parking(c)'
    BY <1>3, <1>8, <2>2, <2>3, ParkAt DEF Settled, StealPCs, ParkPCs
  <2> QED BY <1>2, <1>4, <2>2, <2>4
<1>9. CASE rx_poll_publish(c)
  <2>1. /\ UNCHANGED <<cur, napi, peeked>> /\ pc'[c] = "recheck" /\ pc[c] = "publish"
        /\ rx_blocked_on'[q] = head[c]
    BY <1>1, <1>9 DEF rx_poll_publish, TypeOK, WakeTypeOK
  <2>2. head[c] \in {NULL, peeked[q]}
    BY <1>1, <2>1 DEF Parking
  <2>3. Published(q)'
    BY <2>1, <2>2 DEF Published
  <2>4. Parking(c)'
    BY <2>1, <2>3, ParkAt DEF Settled, StealPCs
  <2> QED BY <1>2, <1>4, <2>1, <2>4
<1>10. CASE rx_poll_recheck(c) \/ rx_poll_supp_recheck(c)
  <2>1. PICK p \in Peeks(q) :
           /\ wg_prev_queue_peek(q, p)
           /\ napi' = IF Deliverable(p) THEN [napi EXCEPT ![q] = @ \cup {"MISSED"}]
                                        ELSE napi
    BY <1>10 DEF rx_poll_recheck, rx_poll_supp_recheck, SetMissedIfReady
  <2>2. /\ UNCHANGED <<cur, pstate, rx_blocked_on>>
        /\ pc'[c] \in {"supp", "complete"} /\ pc[c] \in ParkPCs
    BY <1>1, <1>10 DEF rx_poll_recheck, rx_poll_supp_recheck, ParkPCs
  <2>3. knob.headwake => Published(q)
    BY <1>1, <2>2 DEF Parking
  <2>4. Published(q) => Published(q)'
    BY <1>3, <2>1, <2>2, OwnPeer
  <2>5. "SCHED" \in napi'[q] /\ (Deliverable(p) => "MISSED" \in napi'[q])
    BY <1>2, <2>1
  <2>6. ~ Deliverable(p) => Live(q)'
    BY <1>3, <2>1, <2>2, <2>3, FruitlessPeek
  <2>7. Parking(c)'
    BY <1>3, <2>2, <2>3, <2>4, <2>5, <2>6, ParkAt
  <2> QED BY <1>4, <2>5, <2>7
<1>11. CASE rx_poll_clear_missed(c)
  <2>1. /\ UNCHANGED <<cur, peeked, rx_blocked_on>> /\ pc'[c] = "supp_recheck"
        /\ napi' = [napi EXCEPT ![q] = @ \ {"MISSED"}] /\ pc[c] = "clear"
    BY <1>1, <1>11 DEF rx_poll_clear_missed
  <2>2. knob.headwake => Published(q)
    BY <1>1, <2>1 DEF Parking, ParkPCs
  <2>3. "SCHED" \in napi'[q]
    BY <1>2, <2>1
  <2>4. Parking(c)'
    BY <1>3, <2>1, <2>2, ParkAt DEF Settled, StealPCs, ParkPCs, Published
  <2> QED BY <1>4, <2>3, <2>4
<1>12. CASE rx_poll_complete(c)
  <2>1. /\ pc[c] = "complete" /\ pc'[c] = "idle" /\ cur'[c] = NULL
        /\ UNCHANGED <<pstate, rxq, peeked, rx_blocked_on>>
        /\ CompleteDone(c, q)
    BY <1>1, <1>12 DEF rx_poll_complete, PollReturns, TypeOK, PollTypeOK
  <2>2. Parking(c)'
    BY <2>1 DEF Parking, ParkPCs
  <2>3. CASE "MISSED" \in napi[q]
    <3>1. "SCHED" \in napi'[q]
      BY <1>2, <2>1, <2>3 DEF CompleteDone, complete_allowed, napi_complete_done
    <3> QED BY <1>4, <2>2, <3>1
  <2>4. CASE "MISSED" \notin napi[q]
    <3>1. Live(q) /\ (knob.headwake => Published(q))
      BY <1>1, <2>1, <2>4, NullAssumption DEF Parking, Settled, ParkPCs
    <3>2. (Live(q) => Live(q)') /\ (Published(q) => Published(q)')
      BY <1>3, <1>12, <2>1, OwnPeer DEF rx_poll_complete
    <3>3. Quiet(q)'
      BY <1>3, <3>1, <3>2 DEF Quiet
    <3> QED BY <1>4, <2>2, <3>3
  <2> QED BY <2>3, <2>4
<1>13. CASE napi_poll_exhausted(c)
  <2>1. /\ pc'[c] = "idle" /\ cur'[c] = NULL /\ napi' = napi
    BY <1>1, <1>13 DEF napi_poll_exhausted, PollReturns, TypeOK, PollTypeOK, Wakeable
  <2>2. Parking(c)'
    BY <2>1 DEF Parking, ParkPCs
  <2> QED BY <1>2, <1>4, <2>1, <2>2
<1> QED BY <1>5, <1>6, <1>7, <1>8, <1>9, <1>10, <1>11, <1>12, <1>13 DEF PollStep

(* net_rx_action takes the instance from the list; the poll starts afresh.  *)
LEMMA TakeWake ==
  ASSUME WakeInv, NEW c \in Cpus, NEW q \in Peers, net_rx_action(c, q)
  PROVE  Resting' /\ Parked'
<1>1. /\ TypeOK /\ Wakeable /\ SingleConsumer /\ Has(c, q) /\ pc[c] = "idle"
      /\ pc \in [Actors -> ProducerPCs \cup WorkerPCs \cup CompletionPCs \cup PollPCs]
  BY DEF WakeInv, PollInv, TypeInv, TypeOK, ActorTypeOK, net_rx_action, Has
<1>2. "SCHED" \in napi[q]
  BY <1>1 DEF Wakeable
<1>3. /\ UNCHANGED <<knob, pstate, rxq, peeked, napi, rx_blocked_on, skb, head>>
      /\ cur' = [cur EXCEPT ![c] = q] /\ pc' = [pc EXCEPT ![c] = "deliver"]
  BY <1>2 DEF net_rx_action, queueVars, Goto
<1>4. Parking(c)'
  BY <1>1, <1>3 DEF Parking, Settled, StealPCs, ParkPCs
<1> QED BY <1>1, <1>2, <1>3, <1>4, InsideStep DEF TypeOK, PollTypeOK

(* Every step of the data path keeps the wake-ups in order.                 *)
LEMMA WakeStep ==
  ASSUME LiveTune = {}, WakeInv, [Next]_vars
  PROVE  PlaceInv' /\ Untriggered' /\ Resting' /\ Parked' /\ knob' = knob
<1>1. /\ PlaceInv' /\ Untriggered' /\ ~ param_set /\ knob' = knob
      /\ \A r \in Peers : ~ TimerStep(r)
  <2>1. TypeOK /\ Untriggered
    BY DEF WakeInv, PollInv, TypeInv
  <2>2. \A r \in Peers : ~ TimerStep(r)
    BY <2>1 DEF Untriggered, TimerStep, timer_expire, timer_clear, timer_wake
  <2> QED BY <2>1, <2>2, PlaceStep, UntriggeredStep DEF WakeInv, param_set
<1>2. CASE UNCHANGED vars
  <2>1. Resting /\ Parked
    BY DEF WakeInv
  <2>2. Resting' /\ Parked'
    BY <1>2, <2>1 DEF vars, queueVars, napiVars, trigVars, pollVars, Resting, Parked,
       Rest, Quiet, Live, Published, Parking, Settled, Wakes, WakeOwedBySecond,
       First, Second, Deliverable, Blocked
  <2> QED BY <1>1, <2>2
<1>3. CASE Next
  <2>1. Resting' /\ Parked'
    BY <1>1, <1>3, ProducerWake, CompletionWake, PollWake, TakeWake DEF Next
  <2> QED BY <1>1, <2>1
<1> QED BY <1>2, <1>3

(* While no peer is removed the invariant holds.                            *)
LEMMA WakeInvariant == ASSUME FixedPolicies PROVE Spec => []WakeInv
<1>1. Init => ConsumerInv /\ WakeInv
  BY ConsumerInit, WakeInit DEF FixedPolicies, Init
<1>2. ConsumerInv /\ WakeInv /\ [Next]_vars => (ConsumerInv /\ WakeInv)'
  <2> SUFFICES ASSUME ConsumerInv, WakeInv, [Next]_vars PROVE (ConsumerInv /\ WakeInv)'
    OBVIOUS
  <2>1. ConsumerInv'
    BY ConsumerStep
  <2>2. PollInv'
    BY <2>1, AliveWakeable, PTL
  <2>3. LiveTune = {}
    BY DEF FixedPolicies
  <2> QED BY <2>1, <2>2, <2>3, WakeStep DEF WakeInv
<1> QED BY <1>1, <1>2, PTL DEF Spec

(* With fixed policies that leave the trigger off, an instance that sleeps  *)
(* on a deliverable head always has a wake on its way: the wg_headwake      *)
(* publish-and-re-check, the wg_supp clear-and-re-check and wg_steal lose   *)
(* no wake-up, alone or together.                                           *)
THEOREM NoWakeLost == ASSUME FixedPolicies PROVE Spec => []NoLostWake
<1>1. WakeInv => NoLostWake
  <2> SUFFICES ASSUME WakeInv, NEW r \in Peers, Deliverable(First(r)), "SCHED" \notin napi[r]
               PROVE  WakePending(r)
    BY DEF NoLostWake
  <2>1. Live(r)
    BY DEF WakeInv, Resting, Rest, Quiet
  <2>2. \A a \in Actors : Wakes(a, r) => WakeComing(a, r)
    BY DEF Wakes, WakeComing, WakesHead
  <2> QED BY <2>1, <2>2 DEF Live, WakePending
<1> QED BY <1>1, WakeInvariant, PTL

(* With the same policies, a sleeping instance whose head is UNCRYPTED will *)
(* be woken by that head's completion: wg_headwake has published it, or     *)
(* NULL.                                                                    *)
THEOREM HeadCanWake == ASSUME FixedPolicies PROVE Spec => []ParkedOnHead
<1>1. WakeInv => ParkedOnHead
  <2> SUFFICES ASSUME WakeInv, NEW r \in Peers, knob.headwake, Blocked(First(r)),
                      "SCHED" \notin napi[r]
               PROVE  rx_blocked_on[r] \in {NULL, First(r)}
    BY DEF ParkedOnHead
  <2>1. Published(r)
    BY DEF WakeInv, Resting, Rest, Quiet
  <2> QED BY <2>1 DEF Published, First
<1> QED BY <1>1, WakeInvariant, PTL

--------------------------------------------------------------------------------
(***************************************************************************)
(* Removing a peer under traffic: proof that a released peer is reached by *)
(* no poll list, poll, timer, callback or queue.  The argument follows     *)
(* peer_remove_after_dead: the grace period ends the producers of a dead   *)
(* peer, the first flush empties the ring of its packets, the second flush *)
(* ends the workers that hold one, so nobody can start the timer once it   *)
(* is cancelled, and a disabled instance is never scheduled again.         *)
(***************************************************************************)

USE DEF Actors, ProducerPCs, WorkerPCs, CompletionPCs, PollPCs, HandPCs,
        NapiBits, PacketStates

\* The part of a completion that may start the coalesce timer.
TrigPCs == {"inc", "xchg", "cancel", "cmpxchg", "start"}

\* No poll can both steal and run the trigger: not under one setting, nor
\* under two when the parameters may be written while traffic flows.
NoStealWithTrigger ==
    \A k, l \in KnobSettings : LiveTune # {} \/ k = l => k.steal = 0 \/ l.trig_k = 0

\* How far the removal of a peer has come.
FlushPCs == {"flush_crypt", "flush_serial", "hrtimer_cancel", "napi_disable",
             "napi_wait", "put"}
RingFlushed(peer) == \/ peer \in removed
                     \/ rm_peer = peer /\ rm \in FlushPCs \ {"flush_crypt"}
WorkersFlushed(peer) ==
    \/ peer \in removed
    \/ rm_peer = peer /\ rm \in FlushPCs \ {"flush_crypt", "flush_serial"}
Disabled(peer) == peer \in removed \/ (rm = "put" /\ rm_peer = peer)

\* A disabled instance keeps SCHED and belongs to no CPU.
DisabledUnowned ==
    \A peer \in Peers : "NPSVC" \in napi[peer] =>
        "SCHED" \in napi[peer] /\ \A c \in Cpus : ~ Has(c, peer)

RmShape ==
    /\ dead_peers \subseteq is_dead
    /\ removed \subseteq is_dead
    /\ dead_peers \cap removed = {}
    /\ rm \in FlushPCs => rm_peer \in dead_peers

\* Only the producers the grace period waits for still have a packet of a
\* dead peer.
GraceInv ==
    \A a \in Producers, peer \in is_dead :
        Holds(a, peer) => rm = "sync" /\ a \in rcu_wait /\ peer \in dead_peers

\* A packet in the ring has a worker coming for it.
RingServed ==
    \A p \in Packets : InRing(p) =>
        \/ work # {}
        \/ Busy(Workers) # {}
        \/ \E a \in Producers : pc[a] = "kick" /\ skb[a] = p

\* The first flush outlasts the peer's packets in the ring, the second one
\* the workers that took them.
FlushInv ==
    \A peer \in Peers :
        /\ \A p \in Packets : PeerOf[p] = peer /\ InRing(p) =>
              /\ ~ RingFlushed(peer)
              /\ rm = "flush_crypt" /\ rm_peer = peer => ~ FlushDone
        /\ \A w \in Workers : Holds(w, peer) =>
              /\ ~ WorkersFlushed(peer)
              /\ rm = "flush_serial" /\ rm_peer = peer => w \in flush_run

\* A CPU in the stealing pass was sent there by a setting with wg_steal.
StealInv ==
    \A c \in Cpus :
        /\ pc[c] \in {"steal", "pull"} \cup CompletionPCs =>
              \E k \in KnobSettings : k.steal # 0 /\ (LiveTune # {} \/ k = knob)
        /\ pc[c] \notin TrigPCs

\* What a flush waits for is queued or running.
FlushSets == flush_pend \subseteq work /\ \A w \in flush_run : pc[w] # "idle"

RmBase == PlaceInv /\ RmTypeOK /\ RmShape

OwnInv == SingleConsumer /\ DisabledUnowned
            /\ \A peer \in Peers : Disabled(peer) => "NPSVC" \in napi[peer]

RemovalInv == RmBase /\ OwnInv /\ GraceInv /\ RingServed
                /\ FlushSets /\ FlushInv

CancelInv == NoStealWithTrigger /\ RemovalInv /\ StealInv /\ TimerStaysCancelled

-----------------------------------------------------------------------------
(* What a step of the data path may do to the hands, the ring and the works. *)

(* The data path marks no peer dead.                                         *)
LEMMA DeadSame ==
  ASSUME [Next]_vars PROVE is_dead' = is_dead
<1> USE DEF queueVars, napiVars, trigVars, pollVars, vars
<1>1. ASSUME NEW a \in Producers,
             ProducerStep(a) \/ \E p \in Packets : consume_data(a, p) \/ consume_data_drop(a, p)
      PROVE  is_dead' = is_dead
  BY <1>1 DEF ProducerStep, consume_data, consume_data_drop, prev_queue_enqueue,
              prev_queue_link, ring_produce, queue_work
<1>2. ASSUME NEW w \in Workers, WorkerStep(w) PROVE is_dead' = is_dead
  BY <1>2 DEF WorkerStep, worker_start, worker_consume
<1>3. ASSUME NEW a \in Actors, CompletionStep(a) PROVE is_dead' = is_dead
  BY <1>3 DEF CompletionStep, set_state, gate, wake, inc_ready, disarm,
              cancel_timer, arm, hrtimer_start
<1>4. ASSUME NEW peer \in Peers, TimerStep(peer) PROVE is_dead' = is_dead
  BY <1>4 DEF TimerStep, timer_expire, timer_clear, timer_wake
<1>5. ASSUME NEW c \in Cpus, PollStep(c) PROVE is_dead' = is_dead
  BY <1>5 DEF PollStep, rx_poll_deliver, rx_poll_blocked, rx_poll_steal,
              rx_poll_pull, rx_poll_stolen, rx_poll_finish, rx_poll_publish,
              rx_poll_recheck, rx_poll_supp, rx_poll_clear_missed,
              rx_poll_supp_recheck, rx_poll_complete, napi_poll_exhausted
<1>6. ASSUME NEW c \in Cpus, NEW peer \in Peers, net_rx_action(c, peer)
      PROVE  is_dead' = is_dead
  BY <1>6 DEF net_rx_action
<1>7. param_set \/ UNCHANGED vars => is_dead' = is_dead
  BY DEF param_set
<1> QED BY <1>1, <1>2, <1>3, <1>4, <1>5, <1>6, <1>7 DEF Next

(* The parameters are changed by writing them only.                          *)
LEMMA KnobSame ==
  ASSUME [Next]_vars, ~ param_set PROVE knob' = knob
<1> USE DEF queueVars, napiVars, trigVars, pollVars, vars
<1>1. ASSUME NEW a \in Producers,
             ProducerStep(a) \/ \E p \in Packets : consume_data(a, p) \/ consume_data_drop(a, p)
      PROVE  knob' = knob
  BY <1>1 DEF ProducerStep, consume_data, consume_data_drop, prev_queue_enqueue,
              prev_queue_link, ring_produce, queue_work
<1>2. ASSUME NEW w \in Workers, WorkerStep(w) PROVE knob' = knob
  BY <1>2 DEF WorkerStep, worker_start, worker_consume
<1>3. ASSUME NEW a \in Actors, CompletionStep(a) PROVE knob' = knob
  BY <1>3 DEF CompletionStep, set_state, gate, wake, inc_ready, disarm,
              cancel_timer, arm, hrtimer_start
<1>4. ASSUME NEW peer \in Peers, TimerStep(peer) PROVE knob' = knob
  BY <1>4 DEF TimerStep, timer_expire, timer_clear, timer_wake
<1>5. ASSUME NEW c \in Cpus, PollStep(c) PROVE knob' = knob
  BY <1>5 DEF PollStep, rx_poll_deliver, rx_poll_blocked, rx_poll_steal,
              rx_poll_pull, rx_poll_stolen, rx_poll_finish, rx_poll_publish,
              rx_poll_recheck, rx_poll_supp, rx_poll_clear_missed,
              rx_poll_supp_recheck, rx_poll_complete, napi_poll_exhausted
<1>6. ASSUME NEW c \in Cpus, NEW peer \in Peers, net_rx_action(c, peer) PROVE knob' = knob
  BY <1>6 DEF net_rx_action
<1> QED BY <1>1, <1>2, <1>3, <1>4, <1>5, <1>6 DEF Next

\* What one actor's step may change: a new packet is a live peer's or comes
\* from the ring, and a worker rests only on an empty ring.
HandOk(a) ==
    \/ skb'[a] \in {skb[a], NULL}
    \/ a \in Producers /\ skb'[a] \in Packets /\ PeerOf[skb'[a]] \notin is_dead
    \/ a \notin Producers /\ skb'[a] \in Packets /\ InRing(skb'[a])
RestOk(w) == pc[w] # "idle" /\ pc'[w] = "idle" => ring = <<>> /\ ring' = ring
StartOk(w) == w \in work => w \in work' \/ pc'[w] # "idle"
KickOk(a) == pc[a] = "kick" => \/ pc'[a] = "kick" /\ skb'[a] = skb[a]
                               \/ work' # {}
RingOk(p) == InRing(p)' =>
    \/ InRing(p)
    \/ \E a \in Producers : /\ pc[a] = "produce" /\ skb[a] = p
                            /\ pc'[a] = "kick" /\ skb'[a] = p

HandsOk == /\ \A a \in Actors : HandOk(a)
           /\ \A w \in Workers : RestOk(w) /\ StartOk(w)
           /\ \A a \in Producers : KickOk(a)
           /\ \A p \in Packets : RingOk(p)

(* A step that leaves the ring and the works alone, and in which one actor   *)
(* keeps its packet or lets it go without going to rest as a worker.         *)
LEMMA QuietHands ==
  ASSUME TypeInv, NEW a \in Actors, UNCHANGED <<ring, work>>,
         \E l : pc' = [pc EXCEPT ![a] = l] /\ (a \in Workers => l # "idle"),
         \E s \in {NULL, skb[a]} : skb' = [skb EXCEPT ![a] = s],
         pc[a] # "kick"
  PROVE  HandsOk
<1>1. /\ pc \in [Actors -> ProducerPCs \cup WorkerPCs \cup CompletionPCs \cup PollPCs]
      /\ skb \in [Actors -> Packets \cup {NULL}]
  BY DEF TypeInv, TypeOK, ActorTypeOK
<1>2. \A b \in Actors : HandOk(b)
  BY <1>1 DEF HandOk
<1>3. \A w \in Workers : RestOk(w) /\ StartOk(w)
  BY <1>1 DEF RestOk, StartOk
<1>4. \A b \in Producers : KickOk(b)
  BY <1>1 DEF KickOk
<1>5. \A p \in Packets : RingOk(p)
  BY DEF RingOk, InRing
<1> QED BY <1>2, <1>3, <1>4, <1>5 DEF HandsOk

(* Steps that touch neither hands, ring nor works.                           *)
LEMMA SameHands ==
  ASSUME UNCHANGED <<ring, work, pc, skb>>
  PROVE  HandsOk
  BY DEF HandsOk, HandOk, RestOk, StartOk, KickOk, RingOk, InRing

(* Taking the first packet off the ring.                                     *)
LEMMA TakeHands ==
  ASSUME TypeInv, NEW a \in Actors, a \notin Producers, ring # <<>>,
         ring' = Tail(ring), skb' = [skb EXCEPT ![a] = Head(ring)],
         pc' = [pc EXCEPT ![a] = "set_state"], UNCHANGED work
  PROVE  HandsOk
<1>1. /\ pc \in [Actors -> ProducerPCs \cup WorkerPCs \cup CompletionPCs \cup PollPCs]
      /\ skb \in [Actors -> Packets \cup {NULL}] /\ ring \in Seq(Packets)
  BY DEF TypeInv, TypeOK, ActorTypeOK, QueueTypeOK
<1>2. Head(ring) \in Packets /\ InRing(Head(ring))
  BY <1>1, TailFacts DEF InRing
<1>3. \A b \in Actors : HandOk(b)
  BY <1>1, <1>2 DEF HandOk
<1>4. \A w \in Workers : RestOk(w) /\ StartOk(w)
  BY <1>1 DEF RestOk, StartOk
<1>5. \A b \in Producers : KickOk(b)
  BY <1>1 DEF KickOk
<1>6. ASSUME NEW p \in Packets, InRing(p)' PROVE InRing(p)
  <2>1. PICK i \in DOMAIN Tail(ring) : Tail(ring)[i] = p
    BY <1>6 DEF InRing
  <2>2. i + 1 \in DOMAIN ring /\ ring[i + 1] = p
    BY <1>1, <2>1, TailFacts
  <2> QED BY <2>2 DEF InRing
<1> QED BY <1>3, <1>4, <1>5, <1>6 DEF HandsOk, RingOk

(* Every step of the data path.                                              *)
LEMMA HandsStep ==
  ASSUME TypeInv, [Next]_vars
  PROVE  HandsOk
<1> USE DEF queueVars, napiVars, trigVars, pollVars, Goto
<1>0. /\ pc \in [Actors -> ProducerPCs \cup WorkerPCs \cup CompletionPCs \cup PollPCs]
      /\ skb \in [Actors -> Packets \cup {NULL}] /\ ring \in Seq(Packets)
      /\ \A a \in Actors : skb' = skb => skb' = [skb EXCEPT ![a] = skb[a]]
  BY DEF TypeInv, TypeOK, ActorTypeOK, QueueTypeOK
<1>1. ASSUME NEW a \in Producers, NEW p \in Packets, consume_data(a, p)
      PROVE  HandsOk
  <2>1. CASE UNCHANGED <<skb, pc>>
    BY <1>1, <2>1, SameHands DEF consume_data
  <2>2. CASE skb' = [skb EXCEPT ![a] = p] /\ pc' = [pc EXCEPT ![a] = "enqueue"]
    <3>1. PeerOf[p] \notin is_dead /\ UNCHANGED <<ring, work>> /\ pc[a] = "idle"
      BY <1>1 DEF consume_data
    <3>2. \A b \in Actors : HandOk(b)
      BY <1>0, <2>2, <3>1 DEF HandOk
    <3>3. \A w \in Workers : RestOk(w) /\ StartOk(w)
      BY <1>0, <2>2, <3>1, ActorsAssumption DEF RestOk, StartOk
    <3>4. \A b \in Producers : KickOk(b)
      BY <1>0, <2>2, <3>1 DEF KickOk
    <3>5. \A q \in Packets : RingOk(q)
      BY <3>1 DEF RingOk, InRing
    <3> QED BY <3>2, <3>3, <3>4, <3>5 DEF HandsOk
  <2> QED BY <1>1, <2>1, <2>2 DEF consume_data
<1>2. ASSUME NEW a \in Producers, NEW p \in Packets, consume_data_drop(a, p)
      PROVE  HandsOk
  BY <1>2, SameHands DEF consume_data_drop
<1>3. ASSUME NEW a \in Producers, ProducerStep(a) PROVE HandsOk
  <2>1. CASE \/ prev_queue_enqueue(a) \/ prev_queue_link(a)
             \/ ring_produce(a) /\ ring' = ring
    <3>1. /\ pc[a] \in {"enqueue", "link", "produce"} /\ UNCHANGED <<ring, work, skb>>
          /\ \E l : pc' = [pc EXCEPT ![a] = l]
      BY <2>1 DEF prev_queue_enqueue, prev_queue_link, ring_produce
    <3> QED BY <1>0, <3>1, QuietHands, ActorsAssumption
  <2>2. CASE ring_produce(a) /\ ring' # ring
    <3>1. /\ pc[a] = "produce" /\ pc' = [pc EXCEPT ![a] = "kick"]
          /\ ring' = Append(ring, skb[a]) /\ UNCHANGED <<work, skb>>
      BY <2>2 DEF ring_produce
    <3>2. skb[a] \in Packets
      BY <3>1 DEF TypeInv, TypeOK, ActorTypeOK
    <3>3. \A b \in Actors : HandOk(b)
      BY <3>1 DEF HandOk
    <3>4. \A w \in Workers : RestOk(w) /\ StartOk(w)
      BY <1>0, <3>1, ActorsAssumption DEF RestOk, StartOk
    <3>5. \A b \in Producers : KickOk(b)
      BY <1>0, <3>1 DEF KickOk
    <3>6. ASSUME NEW q \in Packets, InRing(q)' PROVE InRing(q) \/ q = skb[a]
      <4>1. PICK i \in DOMAIN Append(ring, skb[a]) : Append(ring, skb[a])[i] = q
        BY <3>1, <3>6 DEF InRing
      <4> QED BY <1>0, <3>2, <4>1, AppendFacts DEF InRing
    <3>7. \A q \in Packets : RingOk(q)
      BY <1>0, <3>1, <3>6 DEF RingOk
    <3> QED BY <3>3, <3>4, <3>5, <3>7 DEF HandsOk
  <2>3. CASE queue_work(a)
    <3>1. /\ pc' = [pc EXCEPT ![a] = "idle"] /\ skb' = [skb EXCEPT ![a] = NULL]
          /\ ring' = ring /\ work \subseteq work' /\ work' # {}
      BY <2>3 DEF queue_work
    <3>2. \A b \in Actors : HandOk(b)
      BY <1>0, <3>1 DEF HandOk
    <3>3. \A w \in Workers : RestOk(w) /\ StartOk(w)
      BY <1>0, <3>1, ActorsAssumption DEF RestOk, StartOk
    <3>4. \A b \in Producers : KickOk(b)
      BY <3>1 DEF KickOk
    <3>5. \A q \in Packets : RingOk(q)
      BY <3>1 DEF RingOk, InRing
    <3> QED BY <3>2, <3>3, <3>4, <3>5 DEF HandsOk
  <2> QED BY <1>3, <2>1, <2>2, <2>3 DEF ProducerStep
<1>4. ASSUME NEW w \in Workers, WorkerStep(w) PROVE HandsOk
  <2>1. CASE worker_start(w)
    <3>1. /\ work' = work \ {w} /\ pc' = [pc EXCEPT ![w] = "consume"]
          /\ UNCHANGED <<ring, skb>>
      BY <2>1 DEF worker_start
    <3>2. \A v \in Workers : RestOk(v) /\ StartOk(v)
      BY <1>0, <3>1 DEF RestOk, StartOk
    <3>3. \A b \in Producers : KickOk(b)
      BY <1>0, <3>1, ActorsAssumption DEF KickOk
    <3> QED BY <3>1, <3>2, <3>3 DEF HandsOk, HandOk, RingOk, InRing
  <2>2. CASE worker_consume(w) /\ ring # <<>>
    BY <2>2, TakeHands, ActorsAssumption DEF worker_consume
  <2>3. CASE worker_consume(w) /\ ring = <<>>
    <3>1. /\ pc' = [pc EXCEPT ![w] = "idle"] /\ ring = <<>>
          /\ UNCHANGED <<ring, skb, work>>
      BY <2>3 DEF worker_consume
    <3>2. \A v \in Workers : RestOk(v) /\ StartOk(v)
      BY <1>0, <3>1 DEF RestOk, StartOk
    <3>3. \A b \in Producers : KickOk(b)
      BY <1>0, <3>1, ActorsAssumption DEF KickOk
    <3> QED BY <3>1, <3>2, <3>3 DEF HandsOk, HandOk, RingOk, InRing
  <2> QED BY <1>4, <2>1, <2>2, <2>3 DEF WorkerStep
<1>5. ASSUME NEW a \in Actors, CompletionStep(a) PROVE HandsOk
  <2>1. /\ pc[a] \in CompletionPCs /\ UNCHANGED <<ring, work>>
        /\ \E l : pc' = [pc EXCEPT ![a] = l] /\ (a \in Workers => l # "idle")
        /\ \E s \in {NULL, skb[a]} : skb' = [skb EXCEPT ![a] = s]
    BY <1>0, <1>5, ActorsAssumption
    DEF CompletionStep, set_state, gate, wake, inc_ready, disarm, cancel_timer,
        arm, hrtimer_start, Return, Verdicts
  <2> QED BY <2>1, QuietHands
<1>6. ASSUME NEW c \in Cpus, PollStep(c) PROVE HandsOk
  <2>1. CASE rx_poll_pull(c) /\ ring # <<>>
    BY <2>1, TakeHands, ActorsAssumption DEF rx_poll_pull
  <2>2. CASE ~ (rx_poll_pull(c) /\ ring # <<>>)
    <3>1. /\ pc[c] \in PollPCs /\ UNCHANGED <<ring, work, skb>>
          /\ \E l : pc' = [pc EXCEPT ![c] = l]
      BY <1>6, <2>2
      DEF PollStep, rx_poll_deliver, rx_poll_blocked, rx_poll_steal, rx_poll_pull,
          rx_poll_stolen, rx_poll_finish, rx_poll_publish, rx_poll_recheck,
          rx_poll_supp, rx_poll_clear_missed, rx_poll_supp_recheck,
          rx_poll_complete, napi_poll_exhausted, PollReturns
    <3> QED BY <1>0, <3>1, QuietHands, ActorsAssumption
  <2> QED BY <2>1, <2>2
<1>7. ASSUME NEW c \in Cpus, NEW peer \in Peers, net_rx_action(c, peer)
      PROVE  HandsOk
  <2>1. /\ pc[c] = "idle" /\ UNCHANGED <<ring, work, skb>>
        /\ \E l : pc' = [pc EXCEPT ![c] = l]
    BY <1>0, <1>7 DEF net_rx_action
  <2> QED BY <1>0, <2>1, QuietHands, ActorsAssumption
<1>8. ASSUME NEW peer \in Peers, TimerStep(peer) PROVE HandsOk
  BY <1>8, SameHands DEF TimerStep, timer_expire, timer_clear, timer_wake
<1>9. CASE param_set \/ UNCHANGED vars
  BY <1>9, SameHands DEF param_set, vars
<1> QED BY <1>1, <1>2, <1>3, <1>4, <1>5, <1>6, <1>7, <1>8, <1>9 DEF Next

-----------------------------------------------------------------------------
(* The parts of the invariant that the grace period and the flushes need.    *)

(* Nothing of the removal has begun.                                         *)
LEMMA RemovalInit == RmInit => RemovalInv
<1> SUFFICES ASSUME RmInit PROVE RemovalInv
  OBVIOUS
<1>1. PlaceInv /\ Init
  BY PlaceInit DEF RmInit
<1>2. RmTypeOK
  BY <1>1 DEF PlaceInv, OwnerInv, TypeInv, RmInit, RmTypeOK, RmPCs
<1>3. RmShape /\ GraceInv /\ FlushSets
  BY DEF RmInit, Init, RmShape, GraceInv, FlushPCs, FlushSets
<1>4. OwnInv
  BY NullAssumption DEF RmInit, Init, OwnInv, SingleConsumer, DisabledUnowned, Has,
     Disabled, napi_enabled
<1>5. ring = <<>> /\ \A p \in Packets : ~ InRing(p)
  BY <1>1 DEF Init, InRing
<1>6. \A w \in Workers, peer \in Peers : ~ Holds(w, peer)
  BY <1>1 DEF Init, Holds
<1>7. RingServed /\ FlushInv
  BY <1>5, <1>6 DEF RingServed, FlushInv
<1> QED BY <1>1, <1>2, <1>3, <1>4, <1>7 DEF RemovalInv, RmBase

(* The removing thread's steps leave the queues, the ring and the hands.     *)
LEMMA PlaceSame ==
  ASSUME PlaceInv, is_dead' \subseteq Peers,
         napi' \in [Peers -> SUBSET NapiBits], timer' \in [Peers -> BOOLEAN],
         UNCHANGED <<knob, pstate, rxq, peeked, ring, work, poll_list,
                     rx_blocked_on, rx_ready, rx_timer_armed, tpc, pc, skb,
                     pollVars>>
  PROVE  PlaceInv'
<1> USE DEF pollVars
<1>1. TypeInv'
  BY DEF PlaceInv, OwnerInv, TypeInv, TypeOK, QueueTypeOK, WakeTypeOK, ActorTypeOK,
         PollTypeOK, WorkBound
<1>2. OneCompletionOwed'
  BY DEF PlaceInv, OwnerInv, OneCompletionOwed, Owes, InRing
<1>3. Placed' /\ Unplaced' /\ \A peer \in Peers : NoTwice(peer)'
  BY DEF PlaceInv, Placed, Unplaced, NoTwice, InQueue, InRxq
<1> QED BY <1>1, <1>2, <1>3 DEF PlaceInv, OwnerInv

\* What the removing thread changes of the data path's state.
RemovalEffect ==
    /\ UNCHANGED <<knob, pstate, rxq, peeked, ring, work, poll_list, rx_blocked_on,
                   rx_ready, rx_timer_armed, tpc, pc, skb, pollVars>>
    /\ is_dead' \subseteq Peers
    /\ napi' \in [Peers -> SUBSET NapiBits]
    /\ timer' \in [Peers -> BOOLEAN]

(* Every step of the removing thread has this effect, and only marking dead  *)
(* changes is_dead.                                                          *)
LEMMA RemovalEffects ==
  ASSUME RmTypeOK,
         RemovalStep \/ \E S \in SUBSET Peers : peer_make_dead(S)
  PROVE  RemovalEffect
<1> USE DEF vars, queueVars, napiVars, trigVars, pollVars
<1>1. /\ is_dead \subseteq Peers /\ napi \in [Peers -> SUBSET NapiBits]
      /\ timer \in [Peers -> BOOLEAN]
  BY DEF RmTypeOK, TypeOK, QueueTypeOK, WakeTypeOK
<1>2. ASSUME NEW S \in SUBSET Peers, peer_make_dead(S) PROVE RemovalEffect
  BY <1>1, <1>2 DEF peer_make_dead, RemovalEffect
<1>3. CASE synchronize_net \/ (\E peer \in Peers : peer_remove_after_dead(peer))
           \/ flush_again \/ flush_done \/ final_put
  BY <1>1, <1>3 DEF synchronize_net, peer_remove_after_dead, flush_again, flush_done,
                    final_put, RemovalEffect
<1>4. CASE hrtimer_cancel
  BY <1>1, <1>4 DEF hrtimer_cancel, RemovalEffect
<1>5. CASE napi_disable \/ napi_disable_wait
  <2>1. napi' \in [Peers -> SUBSET NapiBits]
    BY <1>1, <1>5 DEF napi_disable, napi_disable_wait, napi_disabled
  <2> QED BY <1>1, <1>5, <2>1 DEF napi_disable, napi_disable_wait, RemovalEffect
<1> QED BY <1>2, <1>3, <1>4, <1>5 DEF RemovalStep

\* The steps of RmNext, as the proofs below take them apart.
DataStep == [Next]_vars /\ \/ DataPathStep
                           \/ UNCHANGED allVars

(* A step is one of the data path, one of the removing thread, or nothing.   *)
LEMMA RmSteps ==
  ASSUME [RmNext]_allVars
  PROVE  \/ DataStep
         \/ RemovalStep
         \/ \E S \in SUBSET Peers : peer_make_dead(S)
  BY DEF RmNext, DataStep, DataPathStep, DuringRemoval, allVars, vars

(* The history does not restrict the steps of the code.                      *)
LEMMA CodeStep == [RmNext]_rmHistory => [RmNext]_allVars
  BY DEF rmHistory

(* A step of the data path leaves the removing thread where it is, and keeps *)
(* of the sets it waits for those that are not done.                         *)
LEMMA DataSteps ==
  ASSUME RmTypeOK, FlushSets, DataStep, HandsOk
  PROVE  /\ UNCHANGED <<rm, dead_peers, rm_peer, removed>>
         /\ is_dead' = is_dead
         /\ \A a \in rcu_wait : pc'[a] # "idle" => a \in rcu_wait'
         /\ \A w \in flush_pend : w \in flush_pend' \/ w \in flush_run'
         /\ \A w \in flush_run : pc'[w] # "idle" => w \in flush_run'
         /\ rcu_wait' \subseteq rcu_wait
         /\ flush_pend' \subseteq Workers /\ flush_run' \subseteq Workers
         /\ FlushSets'
<1>1. [Next]_vars /\ is_dead' = is_dead
  BY DeadSame DEF DataStep
<1>2. /\ flush_pend \subseteq Workers /\ flush_run \subseteq Workers
      /\ flush_pend \subseteq work /\ \A w \in flush_run : pc[w] # "idle"
  BY DEF RmTypeOK, FlushSets
<1>3. CASE UNCHANGED allVars
  BY <1>1, <1>2, <1>3 DEF allVars, rmVars, vars, queueVars, FlushSets
<1>4. CASE DataPathStep
  <2>1. \A w \in flush_pend : w \in work' \/ pc'[w] # "idle"
    BY <1>2 DEF HandsOk, StartOk
  <2> QED BY <1>1, <1>2, <1>4, <2>1 DEF DataPathStep, DuringRemoval, FlushSets
<1> QED BY <1>3, <1>4 DEF DataStep

(* Types and the bookkeeping of the removing thread.                         *)
LEMMA BaseStep ==
  ASSUME RmBase, FlushSets, [RmNext]_allVars
  PROVE  RmBase'
<1> USE DEF RmBase
<1>1. CASE DataStep
  <2>1. TypeInv /\ [Next]_vars
    BY <1>1 DEF PlaceInv, OwnerInv, DataStep
  <2>2. HandsOk
    BY <2>1, HandsStep
  <2>3. PlaceInv' /\ TypeOK'
    BY <2>1, PlaceStep DEF PlaceInv, OwnerInv, TypeInv
  <2> QED BY <1>1, <2>2, <2>3, DataSteps DEF RmTypeOK, RmShape
<1>2. CASE RemovalStep \/ \E S \in SUBSET Peers : peer_make_dead(S)
  <2>1. RemovalEffect
    BY <1>2, RemovalEffects
  <2>2. PlaceInv' /\ TypeOK'
    BY <2>1, PlaceSame DEF RemovalEffect, PlaceInv, OwnerInv, TypeInv
  <2>3. work \subseteq Workers /\ Busy(Workers) \subseteq Workers
        /\ Busy(Producers \cup Cpus) \subseteq Producers \cup Cpus
    BY DEF RmTypeOK, TypeOK, QueueTypeOK, Busy
  <2>4. CASE \E S \in SUBSET Peers : peer_make_dead(S)
    BY <2>2, <2>3, <2>4 DEF RmTypeOK, RmShape, peer_make_dead, RmPCs, FlushPCs
  <2>5. CASE RemovalStep
    <3> USE DEF vars, queueVars
    <3>1. CASE synchronize_net \/ (\E peer \in Peers : peer_remove_after_dead(peer))
               \/ flush_again \/ flush_done
      BY <2>2, <2>3, <3>1 DEF RmTypeOK, RmShape, RmPCs, FlushPCs, synchronize_net,
         peer_remove_after_dead, flush_again, flush_done, BeginFlush
    <3>2. CASE hrtimer_cancel \/ napi_disable \/ napi_disable_wait
      BY <2>2, <3>2 DEF RmTypeOK, RmShape, RmPCs, FlushPCs, hrtimer_cancel,
         napi_disable, napi_disable_wait
    <3>3. CASE final_put
      BY <2>2, <3>3 DEF RmTypeOK, RmShape, RmPCs, FlushPCs, final_put
    <3> QED BY <2>5, <3>1, <3>2, <3>3 DEF RemovalStep
  <2> QED BY <1>2, <2>4, <2>5
<1> QED BY <1>1, <1>2, RmSteps

(* After the grace period no producer has a packet of a dead peer.           *)
LEMMA GraceStep ==
  ASSUME RmBase, FlushSets, GraceInv, [RmNext]_allVars
  PROVE  GraceInv'
<1>0. /\ RmBase' /\ TypeInv /\ TypeInv'
      /\ \A a \in Producers : skb[a] # NULL => pc[a] # "idle"
      /\ \A a \in Producers : skb'[a] # NULL => pc'[a] # "idle"
  BY BaseStep DEF RmBase, PlaceInv, OwnerInv, TypeInv, TypeOK, ActorTypeOK
<1>1. CASE DataStep
  <2>1. HandsOk
    BY <1>0, <1>1, HandsStep DEF DataStep
  <2>2. /\ UNCHANGED <<rm, dead_peers>> /\ is_dead' = is_dead
        /\ \A a \in rcu_wait : pc'[a] # "idle" => a \in rcu_wait'
    BY <1>1, <2>1, DataSteps DEF RmBase
  <2> SUFFICES ASSUME NEW a \in Producers, NEW peer \in is_dead, Holds(a, peer)'
               PROVE  rm' = "sync" /\ a \in rcu_wait' /\ peer \in dead_peers'
    BY <2>2 DEF GraceInv
  <2>3. skb'[a] = skb[a]
    BY <2>1 DEF HandsOk, HandOk, Holds
  <2>4. Holds(a, peer)
    BY <2>3 DEF Holds
  <2> QED BY <1>0, <2>2, <2>3, <2>4 DEF GraceInv, Holds
<1>2. CASE \E S \in SUBSET Peers : peer_make_dead(S)
  <2>1. PICK S \in SUBSET Peers : peer_make_dead(S)
    BY <1>2
  <2>2. \A a \in Producers, peer \in Peers : Holds(a, peer)' => Holds(a, peer)
    BY <2>1 DEF peer_make_dead, Holds
  <2>3. \A a \in Producers, peer \in Peers : Holds(a, peer) => a \in rcu_wait'
    BY <1>0, <2>1 DEF peer_make_dead, Holds, Busy
  <2>4. \A a \in Producers, peer \in is_dead : ~ Holds(a, peer)
    BY <2>1 DEF GraceInv, peer_make_dead
  <2>5. /\ is_dead' = is_dead \cup S /\ is_dead' \subseteq Peers
        /\ rm' = "sync" /\ dead_peers' = S
    BY <2>1 DEF peer_make_dead, RmBase, RmTypeOK, TypeOK, QueueTypeOK
  <2> QED BY <2>2, <2>3, <2>4, <2>5 DEF GraceInv
<1>3. CASE RemovalStep
  <2>1. is_dead' = is_dead /\ \A a \in Producers, peer \in is_dead : Holds(a, peer)' => Holds(a, peer)
    BY <1>3 DEF RemovalStep, synchronize_net, peer_remove_after_dead, flush_again,
       flush_done, hrtimer_cancel, napi_disable, napi_disable_wait, final_put, Holds,
       vars, queueVars
  <2>2. \A a \in Producers, peer \in is_dead : ~ Holds(a, peer)
    BY <1>3 DEF RemovalStep, synchronize_net, peer_remove_after_dead, flush_again,
       flush_done, hrtimer_cancel, napi_disable, napi_disable_wait, final_put, GraceInv
  <2> QED BY <2>1, <2>2 DEF GraceInv
<1> QED BY <1>1, <1>2, <1>3, RmSteps

(* Whoever put a packet into the ring also queued a worker for it, and a     *)
(* worker rests only when the ring is empty.                                 *)
LEMMA ServedStep ==
  ASSUME RmBase, RingServed, [RmNext]_allVars
  PROVE  RingServed'
<1>1. CASE DataStep
  <2>1. HandsOk /\ work \subseteq Workers
    BY <1>1, HandsStep DEF DataStep, RmBase, PlaceInv, OwnerInv, TypeInv, TypeOK,
       QueueTypeOK
  <2> SUFFICES ASSUME NEW p \in Packets, InRing(p)'
               PROVE  \/ work' # {}
                      \/ \E w \in Workers : pc'[w] # "idle"
                      \/ \E a \in Producers : pc'[a] = "kick" /\ skb'[a] = p
    BY DEF RingServed, Busy
  <2>2. CASE ~ InRing(p)
    BY <2>1, <2>2 DEF HandsOk, RingOk
  <2>3. CASE InRing(p)
    <3>1. CASE work # {}
      BY <2>1, <3>1 DEF HandsOk, StartOk
    <3>2. ASSUME NEW w \in Workers, pc[w] # "idle" PROVE pc'[w] # "idle"
      <4>1. ring' # <<>>
        BY DEF InRing
      <4> QED BY <2>1, <3>2, <4>1 DEF HandsOk, RestOk
    <3>3. ASSUME NEW a \in Producers, pc[a] = "kick", skb[a] = p
          PROVE  work' # {} \/ (pc'[a] = "kick" /\ skb'[a] = p)
      BY <2>1, <3>3 DEF HandsOk, KickOk
    <3> QED BY <2>3, <3>1, <3>2, <3>3 DEF RingServed, Busy
  <2> QED BY <2>2, <2>3
<1>2. CASE RemovalStep \/ \E S \in SUBSET Peers : peer_make_dead(S)
  BY <1>2, RemovalEffects DEF RmBase, RemovalEffect, RingServed, InRing, Busy
<1> QED BY <1>1, <1>2, RmSteps

(* What the flushes wait for.                                                *)
LEMMA FlushSetsStep ==
  ASSUME RmBase, FlushSets, [RmNext]_allVars
  PROVE  FlushSets'
<1>1. CASE DataStep
  <2>1. HandsOk
    BY <1>1, HandsStep DEF DataStep, RmBase, PlaceInv, OwnerInv
  <2> QED BY <1>1, <2>1, DataSteps DEF RmBase
<1>2. CASE RemovalStep \/ \E S \in SUBSET Peers : peer_make_dead(S)
  <2>1. UNCHANGED <<work, pc>>
    BY <1>2, RemovalEffects DEF RmBase, RemovalEffect
  <2>2. \/ UNCHANGED <<flush_pend, flush_run>>
        \/ flush_pend' = work /\ flush_run' = Busy(Workers)
    BY <1>2 DEF RemovalStep, peer_make_dead, synchronize_net, peer_remove_after_dead,
       flush_again, flush_done, hrtimer_cancel, napi_disable, napi_disable_wait,
       final_put, BeginFlush
  <2> QED BY <2>1, <2>2 DEF FlushSets, Busy
<1> QED BY <1>1, <1>2, RmSteps

(* The first flush ends with an empty ring as far as the peer is concerned,  *)
(* the second one with no worker that has one of its packets.                *)
LEMMA FlushStep ==
  ASSUME RmBase, FlushSets, GraceInv, RingServed, FlushInv, [RmNext]_allVars
  PROVE  FlushInv'
<1> USE DEF RmBase
<1>0. /\ TypeInv /\ TypeInv'
      /\ \A w \in Workers : skb[w] # NULL => pc[w] # "idle"
      /\ \A w \in Workers : skb'[w] # NULL => pc'[w] # "idle"
  BY BaseStep DEF PlaceInv, OwnerInv, TypeInv, TypeOK, ActorTypeOK
<1>1. CASE DataStep
  <2>1. HandsOk
    BY <1>0, <1>1, HandsStep DEF DataStep
  <2>2. /\ UNCHANGED <<rm, dead_peers, rm_peer, removed>>
        /\ \A w \in flush_pend : w \in flush_pend' \/ w \in flush_run'
        /\ \A w \in flush_run : pc'[w] # "idle" => w \in flush_run'
    BY <1>1, <2>1, DataSteps
  <2>3. ASSUME NEW peer \in Peers, NEW p \in Packets, PeerOf[p] = peer, InRing(p)'
        PROVE  /\ ~ RingFlushed(peer)'
               /\ rm' = "flush_crypt" /\ rm_peer' = peer => ~ FlushDone'
    <3>1. CASE InRing(p)
      <4>1. ~ RingFlushed(peer)'
        BY <2>2, <2>3, <3>1 DEF FlushInv, RingFlushed
      <4>2. ASSUME rm' = "flush_crypt", rm_peer' = peer PROVE ~ FlushDone'
        <5>1. PICK w \in flush_pend \cup flush_run : TRUE
          BY <2>2, <2>3, <3>1, <4>2 DEF FlushInv, FlushDone
        <5>2. CASE w \in flush_pend
          BY <2>2, <5>2 DEF FlushDone
        <5>3. CASE w \in flush_run
          <6>1. ring' # <<>> /\ pc[w] # "idle" /\ w \in Workers
            BY <2>3, <5>3 DEF InRing, FlushSets, RmTypeOK
          <6>2. pc'[w] # "idle"
            BY <2>1, <6>1 DEF HandsOk, RestOk
          <6> QED BY <2>2, <5>3, <6>2 DEF FlushDone
        <5> QED BY <5>1, <5>2, <5>3
      <4> QED BY <4>1, <4>2
    <3>2. CASE ~ InRing(p)
      <4>1. PICK a \in Producers : skb[a] = p
        BY <2>1, <2>3, <3>2 DEF HandsOk, RingOk
      <4>2. Holds(a, peer)
        BY <2>3, <4>1, NullAssumption DEF Holds
      <4>3. peer \in is_dead => rm = "sync" /\ peer \in dead_peers
        BY <4>2 DEF GraceInv
      <4> QED BY <2>2, <4>3 DEF RmShape, RingFlushed, FlushPCs
    <3> QED BY <3>1, <3>2
  <2>4. ASSUME NEW peer \in Peers, NEW w \in Workers, Holds(w, peer)'
        PROVE  /\ ~ WorkersFlushed(peer)'
               /\ rm' = "flush_serial" /\ rm_peer' = peer => w \in flush_run'
    <3>1. CASE skb'[w] = skb[w]
      <4>1. Holds(w, peer) /\ pc'[w] # "idle"
        BY <1>0, <2>4, <3>1 DEF Holds
      <4> QED BY <2>2, <4>1 DEF FlushInv, WorkersFlushed
    <3>2. CASE skb'[w] # skb[w]
      <4>1. skb'[w] \in Packets /\ PeerOf[skb'[w]] = peer /\ InRing(skb'[w])
        BY <2>1, <2>4, <3>2, ActorsAssumption DEF HandsOk, HandOk, Holds
      <4>2. ~ RingFlushed(peer)
        BY <4>1 DEF FlushInv
      <4> QED BY <2>2, <4>2 DEF RingFlushed, WorkersFlushed, FlushPCs
    <3> QED BY <3>1, <3>2
  <2> QED BY <2>3, <2>4 DEF FlushInv
<1>2. CASE RemovalStep \/ \E S \in SUBSET Peers : peer_make_dead(S)
  <2>0. /\ \A p \in Packets : InRing(p)' <=> InRing(p)
        /\ \A w \in Workers, peer \in Peers : Holds(w, peer)' <=> Holds(w, peer)
    BY <1>2, RemovalEffects DEF RemovalEffect, InRing, Holds
  <2> SUFFICES ASSUME NEW peer \in Peers
               PROVE  /\ \A p \in Packets : PeerOf[p] = peer /\ InRing(p) =>
                            /\ ~ RingFlushed(peer)'
                            /\ rm' = "flush_crypt" /\ rm_peer' = peer => ~ FlushDone'
                      /\ \A w \in Workers : Holds(w, peer) =>
                            /\ ~ WorkersFlushed(peer)'
                            /\ rm' = "flush_serial" /\ rm_peer' = peer => w \in flush_run'
    BY <2>0 DEF FlushInv
  <2>1. /\ \A p \in Packets : PeerOf[p] = peer /\ InRing(p) => ~ RingFlushed(peer)
        /\ \A w \in Workers : Holds(w, peer) => ~ WorkersFlushed(peer)
    BY DEF FlushInv
  <2>2. CASE (\E S \in SUBSET Peers : peer_make_dead(S)) \/ synchronize_net
    BY <2>1, <2>2 DEF peer_make_dead, synchronize_net, RingFlushed, WorkersFlushed,
       FlushPCs
  <2>3. CASE \E q \in Peers : peer_remove_after_dead(q)
    <3>1. PICK q \in Peers : peer_remove_after_dead(q)
      BY <2>3
    <3>2. ASSUME NEW p \in Packets, PeerOf[p] = q, InRing(p) PROVE ~ FlushDone'
      <4>1. \A a \in Producers : skb[a] # p
        <5> SUFFICES ASSUME NEW a \in Producers, skb[a] = p PROVE FALSE
          OBVIOUS
        <5>1. Holds(a, q) /\ q \in is_dead /\ rm = "pick"
          BY <3>1, <3>2, NullAssumption DEF Holds, peer_remove_after_dead, RmShape
        <5> QED BY <5>1 DEF GraceInv
      <4>2. work # {} \/ Busy(Workers) # {}
        BY <3>2, <4>1 DEF RingServed
      <4> QED BY <3>1, <4>2 DEF peer_remove_after_dead, BeginFlush, FlushDone
    <3> QED BY <2>1, <3>1, <3>2 DEF peer_remove_after_dead, RingFlushed, WorkersFlushed,
               FlushPCs
  <2>4. CASE flush_again
    <3>1. \A p \in Packets : PeerOf[p] = peer /\ InRing(p) => rm_peer # peer
      BY <2>4 DEF flush_again, FlushInv
    <3>2. \A w \in Workers : Holds(w, peer) => w \in flush_run'
      BY <1>0, <2>4 DEF flush_again, BeginFlush, Busy, Holds
    <3> QED BY <2>1, <2>4, <3>1, <3>2 DEF flush_again, RingFlushed, WorkersFlushed,
               FlushPCs
  <2>5. CASE flush_done
    <3>1. \A w \in Workers : Holds(w, peer) => rm_peer # peer
      BY <2>5 DEF flush_done, FlushInv, FlushDone
    <3> QED BY <2>1, <2>5, <3>1 DEF flush_done, RingFlushed, WorkersFlushed, FlushPCs
  <2>6. CASE hrtimer_cancel \/ napi_disable \/ napi_disable_wait
    BY <2>1, <2>6 DEF hrtimer_cancel, napi_disable, napi_disable_wait, RingFlushed,
       WorkersFlushed, FlushPCs
  <2>7. CASE final_put
    BY <2>1, <2>7 DEF final_put, RingFlushed, WorkersFlushed, FlushPCs
  <2> QED BY <1>2, <2>2, <2>3, <2>4, <2>5, <2>6, <2>7 DEF RemovalStep
<1> QED BY <1>1, <1>2, RmSteps

-----------------------------------------------------------------------------
(* The NAPI instance of a peer under removal: one owner while it can be      *)
(* scheduled, none once napi_disable has taken it.                           *)

\* SingleConsumer and DisabledUnowned for one peer.
PeerOwned(peer) ==
    /\ \A c \in Cpus : ~ (peer \in poll_list[c] /\ cur[c] = peer)
    /\ \A c, d \in Cpus : Has(c, peer) /\ Has(d, peer) => c = d
    /\ "NPSVC" \notin napi[peer] =>
          ((\E c \in Cpus : Has(c, peer)) <=> "SCHED" \in napi[peer])
    /\ "NPSVC" \in napi[peer] =>
          "SCHED" \in napi[peer] /\ \A c \in Cpus : ~ Has(c, peer)

\* A step of the data path keeps every instance's owner unique and does not
\* bring a disabled instance back.
OwnerKept == \A peer \in Peers :
    PeerOwned(peer)' /\ ("NPSVC" \in napi'[peer] <=> "NPSVC" \in napi[peer])

AllOwned == TypeInv /\ \A peer \in Peers : PeerOwned(peer)

(* An instance whose bits and places do not change keeps its owner.          *)
LEMMA SamePeerOwned ==
  ASSUME NEW peer \in Peers, PeerOwned(peer),
         "SCHED" \in napi'[peer] <=> "SCHED" \in napi[peer],
         "NPSVC" \in napi'[peer] <=> "NPSVC" \in napi[peer],
         \A c \in Cpus : /\ peer \in poll_list'[c] <=> peer \in poll_list[c]
                         /\ cur'[c] = peer <=> cur[c] = peer
  PROVE  PeerOwned(peer)'
<1>1. \A c \in Cpus : Has(c, peer)' <=> Has(c, peer)
  BY DEF Has
<1> QED BY <1>1 DEF PeerOwned

(* A word that keeps SCHED and NPSVC, on no other list and in no other poll. *)
LEMMA KeepsOwners ==
  ASSUME AllOwned, UNCHANGED <<poll_list, cur>>,
         \A peer \in Peers : /\ "SCHED" \in napi'[peer] <=> "SCHED" \in napi[peer]
                             /\ "NPSVC" \in napi'[peer] <=> "NPSVC" \in napi[peer]
  PROVE  OwnerKept
<1>1. ASSUME NEW peer \in Peers PROVE PeerOwned(peer)'
  BY SamePeerOwned DEF AllOwned
<1> QED BY <1>1 DEF OwnerKept

(* Only the caller that sets SCHED puts the instance on a list; a disabled   *)
(* instance, which has SCHED, is put on none.                                *)
LEMMA ScheduleKept ==
  ASSUME AllOwned, NEW q \in Peers, NEW C \in SUBSET Cpus,
         napi_schedule(q, C), UNCHANGED cur
  PROVE  OwnerKept
<1>1. /\ napi \in [Peers -> SUBSET NapiBits]
      /\ poll_list \in [Cpus -> SUBSET Peers]
      /\ PeerOwned(q)
  BY DEF AllOwned, TypeInv, TypeOK, WakeTypeOK
<1>2. CASE ~ schedule_prep_owns(napi[q])
  <2>1. poll_list' = poll_list
    BY <1>2 DEF napi_schedule
  <2>2. \A peer \in Peers : /\ "SCHED" \in napi'[peer] <=> "SCHED" \in napi[peer]
                            /\ "NPSVC" \in napi'[peer] <=> "NPSVC" \in napi[peer]
    BY <1>1, <1>2 DEF napi_schedule, napi_schedule_prep, schedule_prep_owns
  <2> QED BY <2>1, <2>2, KeepsOwners
<1>3. CASE schedule_prep_owns(napi[q])
  <2>1. "SCHED" \notin napi[q] /\ "DISABLE" \notin napi[q]
    BY <1>3 DEF schedule_prep_owns
  <2>2. "NPSVC" \notin napi[q] /\ \A d \in Cpus : ~ Has(d, q)
    BY <1>1, <2>1 DEF PeerOwned
  <2>3. napi' = [napi EXCEPT ![q] = @ \cup {"SCHED"}]
    BY <1>1, <2>1 DEF napi_schedule, napi_schedule_prep
  <2>4. PICK c \in C : poll_list' = [poll_list EXCEPT ![c] = @ \cup {q}]
    BY <1>3 DEF napi_schedule
  <2>5. \A d \in Cpus : (Has(d, q)' <=> d = c) /\ cur'[d] # q
    BY <1>1, <2>2, <2>4 DEF Has
  <2>6. "SCHED" \in napi'[q] /\ "NPSVC" \notin napi'[q]
    BY <1>1, <2>2, <2>3
  <2>7. PeerOwned(q)'
    BY <2>5, <2>6 DEF PeerOwned
  <2>8. ASSUME NEW peer \in Peers, peer # q
        PROVE  PeerOwned(peer)' /\ napi'[peer] = napi[peer]
    <3>1. napi'[peer] = napi[peer]
      BY <1>1, <2>3, <2>8
    <3>2. \A d \in Cpus : peer \in poll_list'[d] <=> peer \in poll_list[d]
      BY <1>1, <2>4, <2>8
    <3> QED BY <3>1, <3>2, SamePeerOwned DEF AllOwned
  <2> QED BY <2>2, <2>6, <2>7, <2>8 DEF OwnerKept
<1> QED BY <1>2, <1>3

(* A poll leaves its instance to a list of its CPU, or asleep.               *)
LEMMA LeaveKept ==
  ASSUME AllOwned, NEW c \in Cpus, NEW q \in Peers, cur[c] = q,
         \/ CompleteDone(c, q)
         \/ poll_list' = [poll_list EXCEPT ![c] = @ \cup {q}] /\ napi' = napi,
         cur' = [cur EXCEPT ![c] = NULL]
  PROVE  OwnerKept
<1>1. /\ napi \in [Peers -> SUBSET NapiBits]
      /\ poll_list \in [Cpus -> SUBSET Peers]
      /\ cur \in [Cpus -> Peers \cup {NULL}]
      /\ PeerOwned(q)
  BY DEF AllOwned, TypeInv, TypeOK, WakeTypeOK, PollTypeOK
<1>2. Has(c, q)
  BY DEF Has
<1>3. /\ "NPSVC" \notin napi[q] /\ "SCHED" \in napi[q]
      /\ \A d \in Cpus : Has(d, q) => d = c
      /\ q \notin poll_list[c]
  BY <1>1, <1>2 DEF PeerOwned
<1>4. "NPSVC" \notin napi'[q]
  BY <1>1, <1>3 DEF CompleteDone, napi_complete_done
<1>5. \A d \in Cpus : cur'[d] # q
  BY <1>1, <1>3, NullAssumption DEF Has
<1>6. ASSUME NEW peer \in Peers, peer # q
      PROVE  PeerOwned(peer)' /\ napi'[peer] = napi[peer]
  <2>1. napi'[peer] = napi[peer]
    BY <1>1, <1>6 DEF CompleteDone
  <2>2. \A d \in Cpus : /\ peer \in poll_list'[d] <=> peer \in poll_list[d]
                        /\ cur'[d] = peer <=> cur[d] = peer
    BY <1>1, <1>6, NullAssumption DEF CompleteDone
  <2> QED BY <2>1, <2>2, SamePeerOwned DEF AllOwned
<1>7. CASE "SCHED" \in napi'[q]
  <2>1. poll_list' = [poll_list EXCEPT ![c] = @ \cup {q}]
    BY <1>1, <1>3, <1>7 DEF CompleteDone, complete_allowed, napi_complete_done
  <2>2. \A d \in Cpus : Has(d, q)' <=> d = c
    BY <1>1, <1>3, <1>5, <2>1 DEF Has
  <2>3. PeerOwned(q)'
    BY <1>4, <1>5, <1>7, <2>2 DEF PeerOwned
  <2> QED BY <1>3, <1>4, <1>6, <2>3 DEF OwnerKept
<1>8. CASE "SCHED" \notin napi'[q]
  <2>1. poll_list' = poll_list
    BY <1>1, <1>3, <1>8 DEF CompleteDone, complete_allowed, napi_complete_done
  <2>2. \A d \in Cpus : ~ Has(d, q)'
    BY <1>3, <1>5, <2>1 DEF Has
  <2>3. PeerOwned(q)'
    BY <1>4, <1>5, <1>8, <2>2 DEF PeerOwned
  <2> QED BY <1>3, <1>4, <1>6, <2>3 DEF OwnerKept
<1> QED BY <1>7, <1>8

(* net_rx_action moves the instance from the list into the poll.             *)
LEMMA TakeKept ==
  ASSUME AllOwned, NEW c \in Cpus, NEW q \in Peers, net_rx_action(c, q)
  PROVE  OwnerKept
<1>1. /\ poll_list \in [Cpus -> SUBSET Peers]
      /\ cur \in [Cpus -> Peers \cup {NULL}] /\ cur[c] = NULL
      /\ PeerOwned(q)
  BY DEF AllOwned, TypeInv, TypeOK, WakeTypeOK, PollTypeOK, net_rx_action
<1>2. Has(c, q) /\ q \in poll_list[c]
  BY DEF Has, net_rx_action
<1>3. "NPSVC" \notin napi[q] /\ "SCHED" \in napi[q] /\ \A d \in Cpus : Has(d, q) => d = c
  BY <1>1, <1>2 DEF PeerOwned
<1>4. /\ poll_list' = [poll_list EXCEPT ![c] = @ \ {q}]
      /\ cur' = [cur EXCEPT ![c] = q] /\ napi' = napi
  BY <1>3 DEF net_rx_action
<1>5. \A d \in Cpus : (Has(d, q)' <=> d = c) /\ ~ (q \in poll_list'[d] /\ cur'[d] = q)
  BY <1>1, <1>3, <1>4 DEF Has
<1>6. PeerOwned(q)'
  BY <1>3, <1>4, <1>5 DEF PeerOwned
<1>7. ASSUME NEW peer \in Peers, peer # q PROVE PeerOwned(peer)'
  <2>1. \A d \in Cpus : /\ peer \in poll_list'[d] <=> peer \in poll_list[d]
                        /\ cur'[d] = peer <=> cur[d] = peer
    BY <1>1, <1>4, <1>7, NullAssumption
  <2> QED BY <1>4, <2>1, SamePeerOwned DEF AllOwned
<1> QED BY <1>4, <1>6, <1>7 DEF OwnerKept

(* Every step of the data path.                                              *)
LEMMA OwnersKept ==
  ASSUME AllOwned, [Next]_vars
  PROVE  OwnerKept
<1> USE DEF queueVars, napiVars, trigVars, pollVars
<1>0. TypeOK
  BY DEF AllOwned, TypeInv
<1>1. ASSUME NEW a \in Producers,
             ProducerStep(a) \/ \E p \in Packets : consume_data(a, p) \/ consume_data_drop(a, p)
      PROVE  OwnerKept
  <2>1. UNCHANGED <<napi, poll_list, cur>>
    BY <1>1 DEF ProducerStep, consume_data, consume_data_drop, prev_queue_enqueue,
                prev_queue_link, ring_produce, queue_work
  <2> QED BY <2>1, KeepsOwners
<1>2. ASSUME NEW w \in Workers, WorkerStep(w) PROVE OwnerKept
  <2>1. UNCHANGED <<napi, poll_list, cur>>
    BY <1>2 DEF WorkerStep, worker_start, worker_consume
  <2> QED BY <2>1, KeepsOwners
<1>3. ASSUME NEW a \in Actors, CompletionStep(a) PROVE OwnerKept
  <2>1. CASE wake(a)
    <3>1. PeerOf[skb[a]] \in Peers
      BY <1>0, <2>1, PeerOfAssumption DEF TypeOK, ActorTypeOK, wake
    <3> QED BY <2>1, <3>1, ScheduleKept DEF wake
  <2>2. CASE ~ wake(a)
    <3>1. UNCHANGED <<napi, poll_list, cur>>
      BY <1>3, <2>2 DEF CompletionStep, set_state, gate, inc_ready, disarm,
                       cancel_timer, arm, hrtimer_start
    <3> QED BY <3>1, KeepsOwners
  <2> QED BY <2>1, <2>2
<1>4. ASSUME NEW peer \in Peers, TimerStep(peer) PROVE OwnerKept
  <2>1. CASE timer_wake(peer)
    BY <2>1, ScheduleKept DEF timer_wake
  <2>2. CASE timer_expire(peer) \/ timer_clear(peer)
    <3>1. UNCHANGED <<napi, poll_list, cur>>
      BY <2>2 DEF timer_expire, timer_clear
    <3> QED BY <3>1, KeepsOwners
  <2> QED BY <1>4, <2>1, <2>2 DEF TimerStep
<1>5. ASSUME NEW c \in Cpus, PollStep(c) PROVE OwnerKept
  <2>1. CASE rx_poll_deliver(c) \/ rx_poll_blocked(c) \/ rx_poll_steal(c)
             \/ rx_poll_pull(c) \/ rx_poll_stolen(c) \/ rx_poll_finish(c)
             \/ rx_poll_publish(c) \/ rx_poll_supp(c)
    <3>1. UNCHANGED <<napi, poll_list, cur>>
      BY <2>1 DEF rx_poll_deliver, rx_poll_blocked, rx_poll_steal, rx_poll_pull,
                  rx_poll_stolen, rx_poll_finish, rx_poll_publish, rx_poll_supp
    <3> QED BY <3>1, KeepsOwners
  <2>2. CASE rx_poll_recheck(c) \/ rx_poll_clear_missed(c) \/ rx_poll_supp_recheck(c)
    <3>1. napi \in [Peers -> SUBSET NapiBits]
      BY <1>0 DEF TypeOK, WakeTypeOK
    <3>2. UNCHANGED <<poll_list, cur>>
      BY <2>2 DEF rx_poll_recheck, rx_poll_clear_missed, rx_poll_supp_recheck
    <3>3. \/ napi' = napi
          \/ napi' = [napi EXCEPT ![cur[c]] = @ \cup {"MISSED"}]
          \/ napi' = [napi EXCEPT ![cur[c]] = @ \ {"MISSED"}]
      BY <2>2 DEF rx_poll_recheck, rx_poll_clear_missed, rx_poll_supp_recheck,
                  SetMissedIfReady
    <3>4. \A peer \in Peers : /\ "SCHED" \in napi'[peer] <=> "SCHED" \in napi[peer]
                              /\ "NPSVC" \in napi'[peer] <=> "NPSVC" \in napi[peer]
      BY <3>1, <3>3
    <3> QED BY <3>2, <3>4, KeepsOwners
  <2>3. CASE rx_poll_complete(c) \/ napi_poll_exhausted(c)
    <3>1. cur[c] \in Peers
      BY <1>0, <2>3 DEF TypeOK, PollTypeOK, rx_poll_complete, napi_poll_exhausted
    <3>2. cur' = [cur EXCEPT ![c] = NULL]
      BY <2>3 DEF rx_poll_complete, napi_poll_exhausted, PollReturns
    <3>3. \/ CompleteDone(c, cur[c])
          \/ poll_list' = [poll_list EXCEPT ![c] = @ \cup {cur[c]}] /\ napi' = napi
      BY <2>3 DEF rx_poll_complete, napi_poll_exhausted
    <3> QED BY <3>1, <3>2, <3>3, LeaveKept
  <2> QED BY <1>5, <2>1, <2>2, <2>3 DEF PollStep
<1>6. CASE param_set \/ UNCHANGED vars
  <2>1. UNCHANGED <<napi, poll_list, cur>>
    BY <1>6 DEF param_set, vars
  <2> QED BY <2>1, KeepsOwners
<1> QED BY <1>1, <1>2, <1>3, <1>4, <1>5, <1>6, TakeKept DEF Next

(* The removing thread takes an instance only when it has no owner.          *)
LEMMA OwnStep ==
  ASSUME RmBase, OwnInv, [RmNext]_allVars
  PROVE  OwnInv'
<1>0. AllOwned /\ \A peer \in Peers : Disabled(peer) => "NPSVC" \in napi[peer]
  BY DEF AllOwned, OwnInv, SingleConsumer, DisabledUnowned, PeerOwned, RmBase,
         PlaceInv, OwnerInv
<1> SUFFICES \A peer \in Peers : /\ PeerOwned(peer)'
                                 /\ Disabled(peer)' => "NPSVC" \in napi'[peer]
  BY DEF OwnInv, SingleConsumer, DisabledUnowned, PeerOwned
<1>1. CASE DataStep
  <2>1. OwnerKept
    BY <1>0, <1>1, OwnersKept DEF DataStep
  <2>2. UNCHANGED <<rm, rm_peer, removed>>
    BY <1>1 DEF DataStep, DataPathStep, DuringRemoval, allVars, rmVars
  <2> QED BY <1>0, <2>1, <2>2 DEF OwnerKept, Disabled
<1>2. CASE RemovalStep \/ \E S \in SUBSET Peers : peer_make_dead(S)
  <2>0. UNCHANGED <<poll_list, cur>> /\ napi \in [Peers -> SUBSET NapiBits]
    BY <1>2, RemovalEffects
    DEF RmBase, RemovalEffect, pollVars, RmTypeOK, TypeOK, WakeTypeOK
  <2>1. CASE (\E S \in SUBSET Peers : peer_make_dead(S)) \/ synchronize_net
             \/ (\E peer \in Peers : peer_remove_after_dead(peer)) \/ flush_again
             \/ flush_done \/ hrtimer_cancel \/ final_put
    <3>1. napi' = napi
      BY <2>1 DEF peer_make_dead, synchronize_net, peer_remove_after_dead,
         flush_again, flush_done, hrtimer_cancel, final_put, vars, napiVars
    <3>2. \A peer \in Peers : PeerOwned(peer)'
      BY <1>0, <2>0, <3>1, SamePeerOwned DEF AllOwned
    <3>3. \A peer \in Peers : Disabled(peer)' => Disabled(peer)
      BY <2>1 DEF peer_make_dead, synchronize_net, peer_remove_after_dead,
         flush_again, flush_done, hrtimer_cancel, final_put, Disabled
    <3> QED BY <1>0, <3>1, <3>2, <3>3
  <2>2. CASE napi_disable
    <3>1. \A peer \in Peers : /\ "SCHED" \in napi'[peer] <=> "SCHED" \in napi[peer]
                              /\ "NPSVC" \in napi'[peer] <=> "NPSVC" \in napi[peer]
      BY <2>0, <2>2 DEF napi_disable
    <3>2. \A peer \in Peers : PeerOwned(peer)'
      BY <1>0, <2>0, <3>1, SamePeerOwned DEF AllOwned
    <3>3. \A peer \in Peers : Disabled(peer)' => Disabled(peer)
      BY <2>2 DEF napi_disable, Disabled
    <3> QED BY <1>0, <3>1, <3>2, <3>3
  <2>3. CASE napi_disable_wait
    <3>1. rm_peer \in Peers /\ rm = "napi_wait"
      BY <2>3 DEF napi_disable_wait, RmBase, RmShape, RmTypeOK, FlushPCs
    <3>2. /\ "SCHED" \notin napi[rm_peer] /\ "NPSVC" \notin napi[rm_peer]
          /\ napi' = [napi EXCEPT ![rm_peer] = napi_disabled(@)]
          /\ UNCHANGED <<rm_peer, removed>>
      BY <2>3 DEF napi_disable_wait, disable_allowed
    <3>3. \A c \in Cpus : ~ Has(c, rm_peer)
      BY <1>0, <3>1, <3>2 DEF AllOwned, PeerOwned
    <3>4. "SCHED" \in napi'[rm_peer] /\ "NPSVC" \in napi'[rm_peer]
      BY <2>0, <3>1, <3>2 DEF napi_disabled
    <3>5. \A c \in Cpus : ~ (Has(c, rm_peer)')
      BY <2>0, <3>2, <3>3 DEF Has
    <3>6. ASSUME NEW peer \in Peers PROVE PeerOwned(peer)'
      <4>1. CASE peer = rm_peer
        <5>1. \A c \in Cpus : ~ (Has(c, peer)')
          BY <2>0, <3>2, <3>3, <4>1 DEF Has
        <5>2. "SCHED" \in napi'[peer] /\ "NPSVC" \in napi'[peer]
          BY <3>4, <4>1
        <5> QED BY <5>1, <5>2 DEF PeerOwned, Has
      <4>2. CASE peer # rm_peer
        <5>1. napi'[peer] = napi[peer]
          BY <2>0, <3>2, <4>2
        <5> QED BY <1>0, <2>0, <5>1, SamePeerOwned DEF AllOwned
      <4> QED BY <4>1, <4>2
    <3>7. ASSUME NEW peer \in Peers, Disabled(peer)' PROVE "NPSVC" \in napi'[peer]
      <4>1. CASE peer = rm_peer
        BY <3>4, <4>1
      <4>2. CASE peer # rm_peer
        <5>1. Disabled(peer) /\ napi'[peer] = napi[peer]
          BY <2>0, <3>2, <3>7, <4>2 DEF Disabled
        <5> QED BY <1>0, <5>1
      <4> QED BY <4>1, <4>2
    <3> QED BY <3>6, <3>7
  <2> QED BY <1>2, <2>1, <2>2, <2>3 DEF RemovalStep
<1> QED BY <1>1, <1>2, RmSteps

(* The whole invariant of the removal.                                       *)
LEMMA RemovalInvStep ==
  ASSUME RemovalInv, [RmNext]_allVars
  PROVE  RemovalInv'
  BY BaseStep, OwnStep, GraceStep, ServedStep, FlushSetsStep, FlushStep DEF RemovalInv

-----------------------------------------------------------------------------
(* The coalesce timer.                                                       *)

(* A CPU enters a completion only from the stealing pass, so under a setting *)
(* with wg_steal, and then the gate never sends it to the trigger.           *)
LEMMA StealStep ==
  ASSUME NoStealWithTrigger, TypeInv, StealInv, [Next]_vars
  PROVE  StealInv'
<1> USE DEF queueVars, napiVars, trigVars, pollVars, Goto
<1> DEFINE StealingPCs == {"steal", "pull"} \cup CompletionPCs
           Stealing == \E k \in KnobSettings : k.steal # 0 /\ (LiveTune # {} \/ k = knob)
<1>0. /\ pc \in [Actors -> ProducerPCs \cup WorkerPCs \cup CompletionPCs \cup PollPCs]
      /\ knob \in KnobSettings /\ KnobSettings \subseteq Knobs
      /\ \A c \in Cpus : pc[c] \in StealingPCs => Stealing
      /\ \A c \in Cpus : pc[c] \notin TrigPCs
  BY KnobAssumption DEF TypeInv, TypeOK, ActorTypeOK, QueueTypeOK, StealInv
<1>1. ASSUME NEW a \in Actors, NEW l, pc' = [pc EXCEPT ![a] = l], knob' = knob,
             a \in Cpus => (l \in StealingPCs => Stealing) /\ l \notin TrigPCs
      PROVE  StealInv'
  <2>1. \A c \in Cpus : (pc'[c] \in StealingPCs => Stealing) /\ pc'[c] \notin TrigPCs
    BY <1>0, <1>1
  <2> QED BY <1>1, <2>1 DEF StealInv
<1>2. CASE UNCHANGED <<knob, pc>>
  BY <1>2 DEF StealInv
<1>3. ASSUME NEW a \in Producers, \/ ProducerStep(a)
                                  \/ \E p \in Packets : consume_data(a, p) \/ consume_data_drop(a, p)
      PROVE  StealInv'
  <2>1. knob' = knob /\ (pc' = pc \/ \E l : pc' = [pc EXCEPT ![a] = l])
    BY <1>3 DEF ProducerStep, consume_data, consume_data_drop, prev_queue_enqueue,
       prev_queue_link, ring_produce, queue_work
  <2> QED BY <1>1, <1>2, <2>1, ActorsAssumption
<1>4. ASSUME NEW w \in Workers, WorkerStep(w) PROVE StealInv'
  <2>1. knob' = knob /\ \E l : pc' = [pc EXCEPT ![w] = l]
    BY <1>4 DEF WorkerStep, worker_start, worker_consume
  <2> QED BY <1>1, <2>1, ActorsAssumption
<1>5. ASSUME NEW a \in Actors, CompletionStep(a) PROVE StealInv'
  <2>1. knob' = knob /\ pc[a] \in CompletionPCs /\ \E l : pc' = [pc EXCEPT ![a] = l]
    BY <1>5 DEF CompletionStep, set_state, gate, wake, inc_ready, disarm, cancel_timer,
       arm, hrtimer_start, Return
  <2>2. CASE a \notin Cpus
    BY <1>1, <2>1, <2>2
  <2>3. CASE a \in Cpus
    <3>1. Stealing /\ pc[a] \notin TrigPCs
      BY <1>0, <2>1, <2>3
    <3>2. knob.trig_k = 0
      BY <1>0, <3>1 DEF NoStealWithTrigger
    <3>3. \E l \in {"gate", "wake", "steal", "idle", "consume"} : pc' = [pc EXCEPT ![a] = l]
      BY <1>5, <3>1, <3>2 DEF CompletionStep, set_state, gate, wake, inc_ready, disarm,
         cancel_timer, arm, hrtimer_start, Return, TrigPCs
    <3> QED BY <1>1, <2>1, <2>3, <3>1, <3>3 DEF TrigPCs
  <2> QED BY <2>2, <2>3
<1>6. ASSUME NEW c \in Cpus, PollStep(c) PROVE StealInv'
  <2>1. CASE rx_poll_blocked(c)
    <3>1. CASE knob.steal > 0
      <4>1. knob.steal # 0 /\ Stealing
        BY <1>0, <3>1 DEF Knobs
      <4>2. knob' = knob /\ pc' = [pc EXCEPT ![c] = "steal"]
        BY <2>1, <3>1 DEF rx_poll_blocked
      <4> QED BY <1>1, <4>1, <4>2 DEF TrigPCs
    <3>2. CASE ~ (knob.steal > 0)
      <4>1. knob' = knob /\ pc' = [pc EXCEPT ![c] = "finish"]
        BY <2>1, <3>2 DEF rx_poll_blocked
      <4> QED BY <1>1, <4>1 DEF TrigPCs
    <3> QED BY <3>1, <3>2
  <2>2. CASE rx_poll_steal(c) \/ rx_poll_pull(c)
    <3>1. pc[c] \in StealingPCs /\ knob' = knob
          /\ \E l \in {"pull", "stolen", "set_state"} : pc' = [pc EXCEPT ![c] = l]
      BY <2>2 DEF rx_poll_steal, rx_poll_pull
    <3>2. Stealing
      BY <1>0, <3>1
    <3> QED BY <1>1, <3>1, <3>2 DEF TrigPCs
  <2>3. CASE ~ rx_poll_blocked(c) /\ ~ rx_poll_steal(c) /\ ~ rx_poll_pull(c)
    <3>1. knob' = knob
          /\ \E l \in PollPCs \ {"steal", "pull"} : pc' = [pc EXCEPT ![c] = l]
      BY <1>6, <2>3 DEF PollStep, rx_poll_deliver, rx_poll_stolen, rx_poll_finish,
         rx_poll_publish, rx_poll_recheck, rx_poll_supp, rx_poll_clear_missed,
         rx_poll_supp_recheck, rx_poll_complete, napi_poll_exhausted, PollReturns
    <3> QED BY <1>1, <3>1 DEF TrigPCs
  <2> QED BY <2>1, <2>2, <2>3
<1>7. ASSUME NEW c \in Cpus, NEW peer \in Peers, net_rx_action(c, peer)
      PROVE  StealInv'
  <2>1. knob' = knob /\ (pc' = pc \/ pc' = [pc EXCEPT ![c] = "deliver"])
    BY <1>7 DEF net_rx_action
  <2> QED BY <1>1, <1>2, <2>1 DEF TrigPCs
<1>8. ASSUME NEW peer \in Peers, TimerStep(peer) PROVE StealInv'
  BY <1>2, <1>8 DEF TimerStep, timer_expire, timer_clear, timer_wake
<1>9. CASE param_set
  BY <1>9 DEF param_set, StealInv
<1>10. CASE UNCHANGED vars
  BY <1>2, <1>10 DEF vars
<1> QED BY <1>3, <1>4, <1>5, <1>6, <1>7, <1>8, <1>9, <1>10 DEF Next

(* Only the last step of a completion starts the timer of a peer, and only a *)
(* timer that is on makes its callback run.                                  *)
LEMMA TimerSteps ==
  ASSUME TypeInv, [Next]_vars, NEW peer \in Peers, ~ timer[peer], tpc[peer] = "idle"
  PROVE  \/ ~ timer'[peer] /\ tpc'[peer] = "idle"
         \/ \E a \in Actors : pc[a] = "start" /\ Holds(a, peer)
<1> USE DEF queueVars, napiVars, trigVars, pollVars
<1> DEFINE Off == ~ timer'[peer] /\ tpc'[peer] = "idle"
<1>0. /\ timer \in [Peers -> BOOLEAN] /\ tpc \in [Peers -> {"idle", "clear", "sched"}]
      /\ \A a \in Actors : pc[a] \in HandPCs => skb[a] \in Packets
  BY DEF TypeInv, TypeOK, WakeTypeOK, ActorTypeOK
<1>1. CASE UNCHANGED <<timer, tpc>>
  BY <1>1
<1>2. ASSUME NEW a \in Producers, \/ ProducerStep(a)
                                  \/ \E p \in Packets : consume_data(a, p) \/ consume_data_drop(a, p)
      PROVE  UNCHANGED <<timer, tpc>>
  BY <1>2 DEF ProducerStep, consume_data, consume_data_drop, prev_queue_enqueue,
     prev_queue_link, ring_produce, queue_work
<1>3. ASSUME NEW w \in Workers, WorkerStep(w) PROVE UNCHANGED <<timer, tpc>>
  BY <1>3 DEF WorkerStep, worker_start, worker_consume
<1>4. ASSUME NEW a \in Actors, CompletionStep(a)
      PROVE  Off \/ (pc[a] = "start" /\ Holds(a, peer))
  <2>1. CASE hrtimer_start(a)
    <3>1. skb[a] \in Packets /\ pc[a] = "start" /\ tpc' = tpc
          /\ timer' = [timer EXCEPT ![PeerOf[skb[a]]] = TRUE]
      BY <1>0, <2>1 DEF hrtimer_start
    <3>2. CASE PeerOf[skb[a]] = peer
      BY <3>1, <3>2, NullAssumption DEF Holds
    <3>3. CASE PeerOf[skb[a]] # peer
      BY <1>0, <3>1, <3>3
    <3> QED BY <3>2, <3>3
  <2>2. CASE cancel_timer(a)
    <3>1. tpc' = tpc /\ timer' = [timer EXCEPT ![PeerOf[skb[a]]] =
                                    @ /\ tpc[PeerOf[skb[a]]] # "idle"]
      BY <2>2 DEF cancel_timer
    <3> QED BY <1>0, <3>1
  <2>3. CASE ~ hrtimer_start(a) /\ ~ cancel_timer(a)
    <3>1. UNCHANGED <<timer, tpc>>
      BY <1>4, <2>3 DEF CompletionStep, set_state, gate, wake, inc_ready, disarm, arm
    <3> QED BY <3>1
  <2> QED BY <2>1, <2>2, <2>3
<1>5. ASSUME NEW q \in Peers, TimerStep(q) PROVE Off
  <2>1. q # peer \/ UNCHANGED <<timer, tpc>>
    BY <1>5 DEF TimerStep, timer_expire, timer_clear, timer_wake
  <2>2. CASE q # peer
    BY <1>0, <1>5, <2>2 DEF TimerStep, timer_expire, timer_clear, timer_wake
  <2> QED BY <2>1, <2>2
<1>6. ASSUME NEW c \in Cpus, PollStep(c) PROVE UNCHANGED <<timer, tpc>>
  BY <1>6 DEF PollStep, rx_poll_deliver, rx_poll_blocked, rx_poll_steal,
     rx_poll_pull, rx_poll_stolen, rx_poll_finish, rx_poll_publish,
     rx_poll_recheck, rx_poll_supp, rx_poll_clear_missed, rx_poll_supp_recheck,
     rx_poll_complete, napi_poll_exhausted
<1>7. ASSUME NEW c \in Cpus, NEW q \in Peers, net_rx_action(c, q)
      PROVE  UNCHANGED <<timer, tpc>>
  BY <1>7 DEF net_rx_action
<1>8. param_set \/ UNCHANGED vars => UNCHANGED <<timer, tpc>>
  BY DEF param_set, vars
<1> QED BY <1>1, <1>2, <1>3, <1>4, <1>5, <1>6, <1>7, <1>8 DEF Next

(* Once cancelled, the timer has nobody left to start it: the producers and  *)
(* the workers have let go of the peer's packets and a poll that completes   *)
(* packets does not run the trigger.                                         *)
LEMMA CancelStep ==
  ASSUME CancelInv, [RmNext]_allVars
  PROVE  CancelInv'
<1>0. RemovalInv /\ RemovalInv' /\ StealInv /\ TimerStaysCancelled
      /\ NoStealWithTrigger
  BY RemovalInvStep DEF CancelInv
<1>1. CASE DataStep
  <2>1. TypeInv /\ [Next]_vars /\ RmShape /\ RmTypeOK
    BY <1>0, <1>1 DEF RemovalInv, RmBase, PlaceInv, OwnerInv, DataStep
  <2>2. StealInv'
    BY <1>0, <2>1, StealStep
  <2>3. UNCHANGED <<rm, rm_peer, removed>>
    BY <1>1 DEF DataStep, DataPathStep, DuringRemoval, allVars, rmVars
  <2>4. ASSUME NEW peer \in Peers, AfterCancel(peer)
        PROVE  ~ timer'[peer] /\ tpc'[peer] = "idle"
    <3>1. ~ timer[peer] /\ tpc[peer] = "idle"
      BY <1>0, <2>4 DEF TimerStaysCancelled
    <3>2. WorkersFlushed(peer) /\ peer \in is_dead
      BY <2>1, <2>4 DEF AfterCancel, WorkersFlushed, FlushPCs, RmShape
    <3>3. ASSUME NEW a \in Actors, pc[a] = "start", Holds(a, peer) PROVE FALSE
      <4>1. CASE a \in Cpus
        BY <1>0, <3>3, <4>1 DEF StealInv, TrigPCs
      <4>2. CASE a \in Workers
        BY <1>0, <3>2, <3>3, <4>2 DEF RemovalInv, FlushInv
      <4>3. CASE a \in Producers
        <5>1. rm = "sync" /\ peer \in dead_peers
          BY <1>0, <3>2, <3>3, <4>3 DEF RemovalInv, GraceInv
        <5> QED BY <2>1, <3>2, <5>1 DEF RmShape, WorkersFlushed, FlushPCs
      <4> QED BY <4>1, <4>2, <4>3
    <3> QED BY <2>1, <3>1, <3>3, TimerSteps
  <2>5. TimerStaysCancelled'
    BY <2>3, <2>4 DEF TimerStaysCancelled, AfterCancel
  <2> QED BY <1>0, <2>2, <2>5 DEF CancelInv
<1>2. CASE RemovalStep \/ \E S \in SUBSET Peers : peer_make_dead(S)
  <2>0. /\ RmTypeOK /\ RmShape /\ UNCHANGED <<knob, pc, tpc>>
        /\ timer \in [Peers -> BOOLEAN]
    BY <1>0, <1>2, RemovalEffects
    DEF RemovalInv, RmBase, RemovalEffect, RmTypeOK, TypeOK, WakeTypeOK
  <2>1. StealInv'
    BY <1>0, <2>0 DEF StealInv
  <2>2. CASE hrtimer_cancel
    <3>1. /\ timer' = [timer EXCEPT ![rm_peer] = FALSE] /\ tpc[rm_peer] = "idle"
          /\ UNCHANGED <<rm_peer, removed>>
      BY <2>2 DEF hrtimer_cancel
    <3>2. ASSUME NEW peer \in Peers, AfterCancel(peer)'
          PROVE  ~ timer'[peer] /\ tpc'[peer] = "idle"
      <4>1. CASE peer = rm_peer
        BY <2>0, <3>1, <3>2, <4>1
      <4>2. CASE peer # rm_peer
        <5>1. AfterCancel(peer)
          BY <3>1, <3>2, <4>2 DEF AfterCancel
        <5>2. ~ timer[peer] /\ tpc[peer] = "idle"
          BY <1>0, <5>1 DEF TimerStaysCancelled
        <5> QED BY <2>0, <3>1, <4>2, <5>2
      <4> QED BY <4>1, <4>2
    <3> QED BY <1>0, <2>1, <3>2 DEF CancelInv, TimerStaysCancelled
  <2>3. CASE ~ hrtimer_cancel
    <3>1. timer' = timer
      BY <1>2, <2>3 DEF RemovalStep, peer_make_dead, synchronize_net,
         peer_remove_after_dead, flush_again, flush_done, napi_disable,
         napi_disable_wait, final_put, vars, trigVars
    <3>2. \A peer \in Peers : AfterCancel(peer)' => AfterCancel(peer)
      BY <1>2, <2>3 DEF RemovalStep, peer_make_dead, synchronize_net,
         peer_remove_after_dead, flush_again, flush_done, napi_disable,
         napi_disable_wait, final_put, AfterCancel
    <3>3. TimerStaysCancelled'
      BY <1>0, <2>0, <3>1, <3>2 DEF TimerStaysCancelled
    <3> QED BY <1>0, <2>1, <3>3 DEF CancelInv
  <2> QED BY <2>2, <2>3
<1> QED BY <1>1, <1>2, RmSteps

(* No timer runs at first.                                                   *)
LEMMA CancelInit == NoStealWithTrigger /\ RmInit => CancelInv
<1> SUFFICES ASSUME NoStealWithTrigger, RmInit PROVE CancelInv
  OBVIOUS
<1>1. StealInv /\ TimerStaysCancelled
  BY DEF RmInit, Init, StealInv, TimerStaysCancelled, TrigPCs
<1> QED BY <1>1, RemovalInit DEF CancelInv

-----------------------------------------------------------------------------
(* What is left in the queue when napi_disable takes the instance.           *)

\* The parameters stay as they are, and no poll steals.
FixedNoSteal == LiveTune = {} /\ \A k \in KnobSettings : k.steal = 0

\* The history knows of every poll that overruns.
OverrunInv == overran \in BOOLEAN /\ (Overruns => overran)

\* DISABLE is set only while napi_disable waits for the instance.
DisableInv == \A peer \in Peers :
    "DISABLE" \in napi[peer] => rm = "napi_wait" /\ rm_peer = peer

NoTrigger == knob.trig_k = 0 /\ ~ overran

\* The wake-ups work until napi_disable, and leave an empty queue to it.
DrainInv == /\ CancelInv /\ Findable /\ OverrunInv /\ DisableInv
            /\ NoTrigger => WakeInv /\ NoReferencesLeft

(* What a step of the data path may do to the life of a packet.              *)
LEMMA LifeStep ==
  ASSUME PlaceInv, [Next]_vars
  PROVE  \A p \in Packets : pstate'[p] \in Queued =>
            pstate[p] \in Queued \/ PeerOf[p] \notin is_dead
<1> USE DEF queueVars, napiVars, trigVars, pollVars
<1> DEFINE Ages == \A p \in Packets : pstate'[p] \in Queued =>
                      pstate[p] \in Queued \/ PeerOf[p] \notin is_dead
<1>0. /\ pstate \in [Packets -> PacketStates] /\ TypeOK /\ OneCompletionOwed
      /\ skb \in [Actors -> Packets \cup {NULL}]
  BY DEF PlaceInv, OwnerInv, TypeInv, TypeOK, QueueTypeOK, ActorTypeOK
<1>1. ASSUME pstate' = pstate PROVE Ages
  BY <1>1
<1>2. ASSUME NEW a \in Producers, NEW p \in Packets, consume_data(a, p) PROVE Ages
  <2>1. /\ pstate[p] = "WIRE" /\ PeerOf[p] \notin is_dead
        /\ \E o : pstate' = [pstate EXCEPT ![p] = o]
    BY <1>2 DEF consume_data
  <2> QED BY <1>0, <2>1
<1>3. ASSUME NEW a \in Producers, NEW p \in Packets, consume_data_drop(a, p) PROVE Ages
  <2>1. pstate[p] = "WIRE" /\ pstate' = [pstate EXCEPT ![p] = "FREED"]
    BY <1>3 DEF consume_data_drop
  <2> QED BY <1>0, <2>1 DEF Queued
<1>4. ASSUME NEW a \in Producers, ProducerStep(a) PROVE Ages
  BY <1>1, <1>4 DEF ProducerStep, prev_queue_enqueue, prev_queue_link, ring_produce, queue_work
<1>5. ASSUME NEW w \in Workers, WorkerStep(w) PROVE Ages
  BY <1>1, <1>5 DEF WorkerStep, worker_start, worker_consume
<1>6. ASSUME NEW a \in Actors, CompletionStep(a) PROVE Ages
  <2>1. CASE set_state(a)
    <3>1. /\ skb[a] \in Packets /\ pc[a] = "set_state"
          /\ \E o : pstate' = [pstate EXCEPT ![skb[a]] = o]
      BY <1>0, <2>1 DEF set_state, TypeOK, ActorTypeOK
    <3>2. pstate[skb[a]] = "UNCRYPTED"
      BY <1>0, <3>1 DEF OneCompletionOwed, Owes
    <3> QED BY <1>0, <3>1, <3>2 DEF Queued
  <2>2. CASE ~ set_state(a)
    BY <1>1, <1>6, <2>2 DEF CompletionStep, gate, wake, inc_ready, disarm, cancel_timer,
                            arm, hrtimer_start
  <2> QED BY <2>1, <2>2
<1>7. ASSUME NEW c \in Cpus, PollStep(c) PROVE Ages
  <2>1. CASE rx_poll_deliver(c)
    <3>1. cur[c] \in Peers
      BY <1>0, <2>1 DEF TypeOK, PollTypeOK, rx_poll_deliver
    <3>2. PICK p \in Packets :
             /\ pstate[p] \in Queued
             /\ \E o \in {"DELIVERED", "FREED"} : pstate' = [pstate EXCEPT ![p] = o]
      BY <2>1, <3>1, DeliverPlaces
    <3> QED BY <1>0, <3>2 DEF Queued
  <2>2. CASE ~ rx_poll_deliver(c)
    BY <1>1, <1>7, <2>2
       DEF PollStep, rx_poll_blocked, rx_poll_steal, rx_poll_pull,
           rx_poll_stolen, rx_poll_finish, rx_poll_publish, rx_poll_recheck,
           rx_poll_supp, rx_poll_clear_missed, rx_poll_supp_recheck,
           rx_poll_complete, napi_poll_exhausted
  <2> QED BY <2>1, <2>2
<1>8. ASSUME NEW c \in Cpus, NEW peer \in Peers, net_rx_action(c, peer) PROVE Ages
  BY <1>1, <1>8 DEF net_rx_action
<1>9. ASSUME NEW peer \in Peers, TimerStep(peer) PROVE Ages
  BY <1>1, <1>9 DEF TimerStep, timer_expire, timer_clear, timer_wake
<1>10. ASSUME param_set \/ UNCHANGED vars PROVE Ages
  BY <1>1, <1>10 DEF param_set, vars
<1>11. Ages
  BY <1>2, <1>3, <1>4, <1>5, <1>6, <1>7, <1>8, <1>9, <1>10 DEF Next
<1> QED BY <1>11

(* The data path does not set DISABLE.                                       *)
LEMMA DisableSame ==
  ASSUME TypeOK, [Next]_vars, NEW peer \in Peers, "DISABLE" \in napi'[peer]
  PROVE  "DISABLE" \in napi[peer]
<1> USE DEF queueVars, napiVars, trigVars, pollVars
<1>0. napi \in [Peers -> SUBSET NapiBits]
  BY DEF TypeOK, WakeTypeOK
<1>1. ASSUME napi' = napi PROVE "DISABLE" \in napi[peer]
  BY <1>1
<1>2. ASSUME NEW q \in Peers, NEW C, napi_schedule(q, C) PROVE "DISABLE" \in napi[peer]
  BY <1>0, <1>2 DEF napi_schedule, napi_schedule_prep
<1>3. ASSUME NEW a \in Producers,
             ProducerStep(a) \/ \E p \in Packets : consume_data(a, p) \/ consume_data_drop(a, p)
      PROVE  "DISABLE" \in napi[peer]
  BY <1>1, <1>3 DEF ProducerStep, consume_data, consume_data_drop, prev_queue_enqueue,
                    prev_queue_link, ring_produce, queue_work
<1>4. ASSUME NEW w \in Workers, WorkerStep(w) PROVE "DISABLE" \in napi[peer]
  BY <1>1, <1>4 DEF WorkerStep, worker_start, worker_consume
<1>5. ASSUME NEW a \in Actors, CompletionStep(a) PROVE "DISABLE" \in napi[peer]
  <2>1. CASE wake(a)
    <3>1. PeerOf[skb[a]] \in Peers /\ \E C : napi_schedule(PeerOf[skb[a]], C)
      BY <2>1, PeerOfAssumption DEF TypeOK, ActorTypeOK, wake
    <3> QED BY <1>2, <3>1
  <2>2. CASE ~ wake(a)
    BY <1>1, <1>5, <2>2 DEF CompletionStep, set_state, gate, inc_ready, disarm,
                            cancel_timer, arm, hrtimer_start
  <2> QED BY <2>1, <2>2
<1>6. ASSUME NEW q \in Peers, TimerStep(q) PROVE "DISABLE" \in napi[peer]
  BY <1>1, <1>2, <1>6 DEF TimerStep, timer_expire, timer_clear, timer_wake
<1>7. ASSUME NEW c \in Cpus, PollStep(c) PROVE "DISABLE" \in napi[peer]
  BY <1>0, <1>7
     DEF PollStep, rx_poll_deliver, rx_poll_blocked, rx_poll_steal, rx_poll_pull,
         rx_poll_stolen, rx_poll_finish, rx_poll_publish, rx_poll_recheck,
         rx_poll_supp, rx_poll_clear_missed, rx_poll_supp_recheck,
         rx_poll_complete, napi_poll_exhausted, SetMissedIfReady, CompleteDone,
         napi_complete_done
<1>8. ASSUME NEW c \in Cpus, NEW q \in Peers, net_rx_action(c, q) PROVE "DISABLE" \in napi[peer]
  BY <1>0, <1>1, <1>8 DEF net_rx_action
<1>9. ASSUME param_set \/ UNCHANGED vars PROVE "DISABLE" \in napi[peer]
  BY <1>1, <1>9 DEF param_set, vars
<1> QED BY <1>3, <1>4, <1>5, <1>6, <1>7, <1>8, <1>9 DEF Next

(* After the flushes, with no poll that steals, nobody has a packet of the   *)
(* peer in hand, and all its packets are completed.                          *)
LEMMA HandsEmpty ==
  ASSUME FixedNoSteal, CancelInv, NEW peer \in Peers, WorkersFlushed(peer)
  PROVE  /\ \A a \in Actors : ~ Holds(a, peer)
         /\ \A p \in Packets : PeerOf[p] = peer => pstate[p] # "UNCRYPTED"
<1>1. /\ RemovalInv /\ StealInv /\ TypeOK /\ OneCompletionOwed /\ knob \in KnobSettings
  BY DEF CancelInv, RemovalInv, RmBase, PlaceInv, OwnerInv, TypeInv, TypeOK, QueueTypeOK
<1>2. RingFlushed(peer) /\ peer \in is_dead /\ (rm = "sync" => peer \notin dead_peers)
  BY <1>1 DEF RemovalInv, RmBase, RmShape, RingFlushed, WorkersFlushed, FlushPCs
<1>3. \A w \in Workers : ~ Holds(w, peer)
  BY <1>1 DEF RemovalInv, FlushInv
<1>4. \A a \in Producers : ~ Holds(a, peer)
  BY <1>1, <1>2 DEF RemovalInv, GraceInv
<1>5. ASSUME NEW c \in Cpus PROVE ~ Holds(c, peer)
  <2>1. pc[c] \notin CompletionPCs
    BY <1>1 DEF StealInv, FixedNoSteal
  <2>2. pc[c] \notin HandPCs
    BY <1>1, <2>1 DEF TypeOK, ActorTypeOK
  <2> QED BY <1>1, <2>2 DEF TypeOK, ActorTypeOK, Holds
<1>6. \A a \in Actors : ~ Holds(a, peer)
  BY <1>3, <1>4, <1>5
<1>7. ASSUME NEW p \in Packets, PeerOf[p] = peer, pstate[p] = "UNCRYPTED" PROVE FALSE
  <2>1. ~ InRing(p)
    BY <1>1, <1>2, <1>7 DEF RemovalInv, FlushInv
  <2>2. PICK a \in Actors : Owes(a, p)
    BY <1>1, <1>7, <2>1 DEF OneCompletionOwed
  <2> QED BY <1>6, <1>7, <2>2, NullAssumption DEF Owes, Holds
<1> QED BY <1>6, <1>7

(* The peers are being emptied and no poll has overrun.                      *)
Draining == FixedNoSteal /\ CancelInv /\ OverrunInv /\ ~ overran /\ DisableInv

(* Until then nothing refuses a wake that somebody owes.                     *)
LEMMA DrainWakeable == Draining => PollInv
<1> SUFFICES ASSUME FixedNoSteal, CancelInv, OverrunInv, ~ overran, DisableInv
             PROVE  PollInv
  BY DEF Draining
<1>1. /\ TypeInv /\ SingleConsumer /\ DisabledUnowned
  BY DEF CancelInv, RemovalInv, RmBase, OwnInv, PlaceInv, OwnerInv
<1>2. \A c \in Cpus, r \in Peers : Has(c, r) => "SCHED" \in napi[r] /\ "NPSVC" \notin napi[r]
  BY <1>1 DEF SingleConsumer, DisabledUnowned
<1>3. ASSUME NEW r \in Peers, "DISABLE" \in napi[r] PROVE \A a \in Actors : ~ Holds(a, r)
  <2>1. WorkersFlushed(r)
    BY <1>3 DEF DisableInv, WorkersFlushed, FlushPCs
  <2> QED BY <2>1, HandsEmpty
<1>4. \A c \in Cpus : pc[c] = "exhausted" => "DISABLE" \notin napi[cur[c]]
  BY DEF OverrunInv, Overruns
<1> QED BY <1>1, <1>2, <1>3, <1>4 DEF PollInv, Wakeable

(* An instance that sleeps after the flushes sleeps on an empty queue.       *)
LEMMA SleepsEmpty ==
  ASSUME FixedNoSteal, CancelInv, Findable, WakeInv, NEW peer \in Peers,
         WorkersFlushed(peer), "SCHED" \notin napi[peer]
  PROVE  PacketRefs(peer) = {}
<1>1. /\ \A a \in Actors : ~ Holds(a, peer)
      /\ \A p \in Packets : PeerOf[p] = peer => pstate[p] # "UNCRYPTED"
  BY HandsEmpty
<1>2. PlaceInv /\ Live(peer)
  BY DEF WakeInv, Resting, Rest, Quiet
<1>3. \A a \in Actors : ~ Wakes(a, peer)
  BY <1>1 DEF Wakes, Holds
<1>4. ~ WakeOwedBySecond(peer)
  BY <1>1, <1>2, ViewType DEF WakeOwedBySecond, Blocked
<1>5. First(peer) = NULL
  BY <1>1, <1>2, <1>3, <1>4, ViewType DEF Live, Deliverable
<1>6. /\ rxq[peer] \in Seq(Packets) /\ peeked[peer] \in Packets \cup {NULL}
  BY <1>2 DEF PlaceInv, OwnerInv, TypeInv, TypeOK, QueueTypeOK
<1>7. peeked[peer] = NULL /\ rxq[peer] = <<>>
  <2>1. peeked[peer] = NULL
    BY <1>5 DEF First
  <2>2. ASSUME rxq[peer] # <<>> PROVE FALSE
    <3>1. rxq[peer][1] \in Packets /\ First(peer) = rxq[peer][1]
      BY <1>6, <2>1, <2>2, TailFacts DEF First
    <3> QED BY <1>5, <3>1, NullAssumption
  <2> QED BY <2>1, <2>2
<1>8. ASSUME NEW p \in PacketRefs(peer) PROVE FALSE
  <2>1. p \in Packets /\ PeerOf[p] = peer /\ pstate[p] \in Queued
    BY <1>8 DEF PacketRefs, Queued
  <2>2. ~ InQueue(peer, p)
    BY <1>7, <2>1, NullAssumption DEF InQueue, InRxq
  <2>3. ~ Appending(p)
    BY <1>1, <2>1, NullAssumption DEF Appending, Holds
  <2> QED BY <2>1, <2>2, <2>3 DEF Findable
<1> QED BY <1>8

(* The removing thread's own steps keep the wake-ups of the polls.           *)
LEMMA RemovalWake ==
  ASSUME RmBase, OwnInv, WakeInv, RemovalStep \/ \E S \in SUBSET Peers : peer_make_dead(S)
  PROVE  Untriggered' /\ Resting' /\ Parked'
<1>1. RemovalEffect
  BY RemovalEffects DEF RmBase
<1>2. napi \in [Peers -> SUBSET NapiBits] /\ timer \in [Peers -> BOOLEAN]
  BY DEF RmBase, RmTypeOK, TypeOK, WakeTypeOK
<1>3. \A r \in Peers : /\ "SCHED" \in napi[r] => "SCHED" \in napi'[r]
                       /\ "MISSED" \in napi[r] => "MISSED" \in napi'[r]
                       /\ timer'[r] => timer[r]
  BY <1>2 DEF RemovalStep, peer_make_dead, synchronize_net, peer_remove_after_dead,
         flush_again, flush_done, hrtimer_cancel, napi_disable, napi_disable_wait,
         final_put, napi_disabled, vars, queueVars, napiVars, trigVars
<1>4. UNCHANGED <<knob, pstate, rxq, peeked, rx_blocked_on, tpc, pc, skb, cur, head>>
  BY <1>1 DEF RemovalEffect, pollVars
<1>5. Untriggered'
  BY <1>3, <1>4 DEF Untriggered, WakeInv
<1>6. \A r \in Peers : Quiet(r) => Live(r)'
  BY <1>4 DEF Quiet, Live, First, Second, Wakes, WakeOwedBySecond, Deliverable, Blocked
<1> QED BY <1>3, <1>4, <1>5, <1>6, OutsideStep

(* The whole invariant.                                                      *)
LEMMA DrainStep ==
  ASSUME FixedNoSteal, DrainInv, [RmNext]_rmHistory
  PROVE  DrainInv'
<1>0. [RmNext]_allVars /\ OverrunInv' /\ (overran => overran')
  <2>1. CASE RmNext
    <3>1. overran' = (overran \/ Overruns')
      BY <2>1 DEF RmNext
    <3> QED BY <2>1, <3>1 DEF OverrunInv
  <2>2. CASE UNCHANGED rmHistory
    <3>1. allVars' = allVars /\ overran' = overran /\ Overruns' = Overruns
      BY <2>2 DEF rmHistory, allVars, vars, napiVars, pollVars, Overruns
    <3> QED BY <3>1 DEF OverrunInv, DrainInv
  <2> QED BY <2>1, <2>2
<1>1. /\ CancelInv' /\ PlaceInv /\ PlaceInv' /\ TypeOK /\ RmBase /\ OwnInv /\ FlushSets
      /\ RmShape
  BY <1>0, CancelStep
     DEF DrainInv, CancelInv, RemovalInv, RmBase, PlaceInv, OwnerInv, TypeInv
<1>2. ASSUME Findable', DisableInv', NoTrigger' => NoTrigger,
             NoTrigger => Untriggered' /\ Resting' /\ Parked' /\ NoReferencesLeft'
      PROVE  DrainInv'
  <2>1. ~ overran' => PollInv'
    <3>1. ~ overran' => Draining'
      BY <1>0, <1>1, <1>2 DEF Draining, FixedNoSteal
    <3> QED BY <3>1, DrainWakeable, PTL
  <2> QED BY <1>0, <1>1, <1>2, <2>1 DEF DrainInv, WakeInv, NoTrigger
<1>3. CASE DataStep
  <2>1. [Next]_vars /\ UNCHANGED <<rm, rm_peer, removed, dead_peers>>
    BY <1>3 DEF DataStep, DataPathStep, DuringRemoval, allVars, rmVars
  <2>2. Findable'
    BY <1>1, <2>1, FindableStep DEF DrainInv
  <2>3. DisableInv'
    BY <1>1, <2>1, DisableSame DEF DisableInv, DrainInv
  <2>4. knob' = knob
    <3>1. ~ param_set
      BY DEF param_set, FixedNoSteal
    <3> QED BY <2>1, <3>1, KnobSame
  <2>5. ASSUME NoTrigger PROVE Untriggered' /\ Resting' /\ Parked' /\ NoReferencesLeft'
    <3>1. WakeInv /\ NoReferencesLeft
      BY <2>5 DEF DrainInv
    <3>2. Untriggered' /\ Resting' /\ Parked'
      BY <2>1, <3>1, WakeStep DEF FixedNoSteal
    <3>3. \A peer \in Peers : Disabled(peer) => peer \in is_dead
      BY <1>1 DEF RmShape, Disabled, FlushPCs
    <3>4. \A p \in Packets : PeerOf[p] \in is_dead /\ pstate'[p] \in Queued =>
                                pstate[p] \in Queued
      BY <1>1, <2>1, LifeStep
    <3>5. ASSUME NEW peer \in Peers, peer \in is_dead, PacketRefs(peer) = {}
          PROVE  PacketRefs(peer)' = {}
      BY <3>4, <3>5 DEF PacketRefs, Queued
    <3> QED BY <2>1, <3>1, <3>2, <3>3, <3>5 DEF NoReferencesLeft, Disabled
  <2> QED BY <1>0, <1>2, <2>2, <2>3, <2>4, <2>5 DEF NoTrigger
<1>4. CASE RemovalStep \/ \E S \in SUBSET Peers : peer_make_dead(S)
  <2>1. RemovalEffect
    BY <1>1, <1>4, RemovalEffects DEF RmBase
  <2>2. UNCHANGED <<knob, pstate, rxq, peeked, pc, skb, work_done>>
    BY <2>1 DEF RemovalEffect, pollVars
  <2>3. Findable'
    BY <2>2 DEF DrainInv, Findable, InQueue, InRxq, Appending
  <2>4. DisableInv'
    <3>1. napi \in [Peers -> SUBSET NapiBits]
      BY <1>1 DEF TypeOK, WakeTypeOK
    <3>2. CASE napi_disable
      BY <3>1, <3>2 DEF DrainInv, DisableInv, napi_disable
    <3>3. CASE napi_disable_wait
      BY <3>1, <3>3 DEF DrainInv, DisableInv, napi_disable_wait, napi_disabled
    <3>4. CASE ~ (napi_disable \/ napi_disable_wait)
      <4>1. napi' = napi /\ rm # "napi_wait"
        BY <1>4, <3>4
           DEF RemovalStep, peer_make_dead, synchronize_net, peer_remove_after_dead,
               flush_again, flush_done, hrtimer_cancel, final_put, vars, napiVars
      <4> QED BY <4>1 DEF DrainInv, DisableInv
    <3> QED BY <3>2, <3>3, <3>4
  <2>5. ASSUME NoTrigger PROVE Untriggered' /\ Resting' /\ Parked' /\ NoReferencesLeft'
    <3>1. WakeInv /\ NoReferencesLeft
      BY <2>5 DEF DrainInv
    <3>2. Untriggered' /\ Resting' /\ Parked'
      BY <1>1, <1>4, <3>1, RemovalWake
    <3>3. ASSUME NEW peer \in Peers, Disabled(peer)' PROVE PacketRefs(peer) = {}
      <4>1. CASE Disabled(peer)
        BY <3>1, <4>1 DEF NoReferencesLeft, Disabled
      <4>2. CASE ~ Disabled(peer)
        <5>1. napi_disable_wait /\ rm_peer = peer
          BY <1>4, <3>3, <4>2
             DEF RemovalStep, peer_make_dead, synchronize_net, peer_remove_after_dead,
                 flush_again, flush_done, hrtimer_cancel, napi_disable, napi_disable_wait,
                 final_put, Disabled
        <5>2. WorkersFlushed(peer) /\ "SCHED" \notin napi[peer]
          BY <5>1 DEF napi_disable_wait, disable_allowed, WorkersFlushed, FlushPCs
        <5> QED BY <3>1, <5>2, SleepsEmpty DEF DrainInv
      <4> QED BY <4>1, <4>2
    <3>4. \A peer \in Peers : PacketRefs(peer)' = PacketRefs(peer)
      BY <2>2 DEF PacketRefs
    <3> QED BY <3>2, <3>3, <3>4 DEF NoReferencesLeft, Disabled
  <2> QED BY <1>0, <1>2, <2>2, <2>3, <2>4, <2>5 DEF NoTrigger
<1> QED BY <1>0, <1>3, <1>4, RmSteps

(* At first nothing waits anywhere.                                          *)
LEMMA DrainInit ==
  ASSUME FixedNoSteal, RmInit
  PROVE  DrainInv
<1>1. CancelInv /\ Init
  BY CancelInit DEF FixedNoSteal, NoStealWithTrigger, RmInit
<1>2. OverrunInv
  BY <1>1 DEF Init, RmInit, OverrunInv, Overruns
<1>3. Findable /\ DisableInv
  BY <1>1 DEF Init, Findable, Queued, DisableInv, napi_enabled
<1>4. NoTrigger => WakeInv
  BY <1>1, WakeInit DEF NoTrigger
<1>5. NoReferencesLeft
  BY <1>1 DEF Init, NoReferencesLeft, PacketRefs
<1> QED BY <1>1, <1>2, <1>3, <1>4, <1>5 DEF DrainInv

-----------------------------------------------------------------------------
(* Theorems.                                                                 *)

(* The removal keeps the types of the data path and of its own bookkeeping,  *)
(* whatever the data path does under it.                                     *)
THEOREM RemovalTypeCorrect == RmSpec => []RmTypeOK
<1>1. RmInit => RemovalInv
  BY RemovalInit
<1>2. RemovalInv /\ [RmNext]_rmHistory => RemovalInv'
  BY RemovalInvStep, CodeStep
<1>3. RemovalInv => RmTypeOK
  BY DEF RemovalInv, RmBase
<1> QED BY <1>1, <1>2, <1>3, PTL DEF RmSpec

(* The rx_queue keeps its single consumer while napi_disable competes with   *)
(* the polls and the completions for the instance.                           *)
THEOREM RemovalOneConsumer == RmSpec => []SingleConsumer
<1>1. RmInit => RemovalInv
  BY RemovalInit
<1>2. RemovalInv /\ [RmNext]_rmHistory => RemovalInv'
  BY RemovalInvStep, CodeStep
<1>3. RemovalInv => SingleConsumer
  BY DEF RemovalInv, OwnInv
<1> QED BY <1>1, <1>2, <1>3, PTL DEF RmSpec

\* No packet of the peer is in the decrypt ring or in the hands of a softirq
\* or of a worker, and only a stealing poll may still owe one its completion.
FlushedOut(peer) ==
    \A p \in Packets : PeerOf[p] = peer =>
        /\ ~ InRing(p)
        /\ \A a \in Producers \cup Workers : skb[a] # p
        /\ pstate[p] = "UNCRYPTED" => \E c \in Cpus : Owes(c, p)

(* peer_remove_after_dead: "we can simply flush twice, and be sure that we   *)
(* no longer have references inside these queues".  After both flushes the   *)
(* packets of the peer are out of the decrypt queue and out of the workers   *)
(* and softirqs, under every setting of the wake policies.                   *)
THEOREM TwoFlushesSuffice ==
  RmSpec => [](\A peer \in Peers : WorkersFlushed(peer) => FlushedOut(peer))
<1>1. RmInit => RemovalInv
  BY RemovalInit
<1>2. RemovalInv /\ [RmNext]_rmHistory => RemovalInv'
  BY RemovalInvStep, CodeStep
<1>3. RemovalInv => \A peer \in Peers : WorkersFlushed(peer) => FlushedOut(peer)
  <2> SUFFICES ASSUME RemovalInv, NEW peer \in Peers, WorkersFlushed(peer),
                      NEW p \in Packets, PeerOf[p] = peer
               PROVE  /\ ~ InRing(p)
                      /\ \A a \in Producers \cup Workers : skb[a] # p
                      /\ pstate[p] = "UNCRYPTED" => \E c \in Cpus : Owes(c, p)
    BY DEF FlushedOut
  <2>1. RingFlushed(peer) /\ peer \in is_dead /\ (rm = "sync" => peer \notin dead_peers)
    BY DEF RemovalInv, RmBase, RmShape, RingFlushed, WorkersFlushed, FlushPCs
  <2>2. ~ InRing(p)
    BY <2>1 DEF RemovalInv, FlushInv
  <2>3. ASSUME NEW w \in Workers, skb[w] = p PROVE FALSE
    BY <2>3, NullAssumption DEF RemovalInv, FlushInv, Holds
  <2>4. ASSUME NEW a \in Producers, skb[a] = p PROVE FALSE
    BY <2>1, <2>4, NullAssumption DEF RemovalInv, GraceInv, Holds
  <2>5. ASSUME pstate[p] = "UNCRYPTED" PROVE \E c \in Cpus : Owes(c, p)
    <3>1. OneCompletionOwed
      BY DEF RemovalInv, RmBase, PlaceInv, OwnerInv
    <3>2. PICK a \in Actors : Owes(a, p)
      BY <2>2, <2>5, <3>1 DEF OneCompletionOwed
    <3> QED BY <2>3, <2>4, <3>2 DEF Owes
  <2> QED BY <2>2, <2>3, <2>4, <2>5
<1> QED BY <1>1, <1>2, <1>3, PTL DEF RmSpec

(* peer_remove_after_dead: "The crypt_wq flushes above guarantee no decrypt  *)
(* worker can re-arm it past here".  The coalesce timer stays off after      *)
(* hrtimer_cancel provided no poll both steals and runs the trigger; with    *)
(* wg_steal and wg_trig_k set together a poll re-arms it.                    *)
THEOREM TimerNotRearmed ==
  NoStealWithTrigger => (RmSpec => []TimerStaysCancelled)
<1>1. NoStealWithTrigger /\ RmInit => CancelInv
  BY CancelInit
<1>2. CancelInv /\ [RmNext]_rmHistory => CancelInv'
  BY CancelStep, CodeStep
<1>3. CancelInv => TimerStaysCancelled
  BY DEF CancelInv
<1> QED BY <1>1, <1>2, <1>3, PTL DEF RmSpec

(* A peer whose last reference is put is out of every poll list and poll,    *)
(* its timer is off and its queue is empty, so nothing reaches the memory    *)
(* that kref_release hands to RCU.                                           *)
THEOREM ReleasedUnreachable ==
  NoStealWithTrigger => (RmSpec => []NoUseAfterRelease)
<1>1. NoStealWithTrigger /\ RmInit => CancelInv
  BY CancelInit
<1>2. CancelInv /\ [RmNext]_rmHistory => CancelInv'
  BY CancelStep, CodeStep
<1>3. CancelInv => NoUseAfterRelease
  <2> SUFFICES ASSUME CancelInv, NEW peer \in Peers, Released(peer)
               PROVE  /\ \A c \in Cpus : ~ Has(c, peer)
                      /\ ~ timer[peer] /\ tpc[peer] = "idle"
                      /\ First(peer) = NULL
    BY DEF NoUseAfterRelease
  <2>1. \A c \in Cpus : ~ Has(c, peer)
    BY DEF CancelInv, RemovalInv, OwnInv, DisabledUnowned, Disabled, Released
  <2>2. ~ timer[peer] /\ tpc[peer] = "idle"
    BY DEF CancelInv, TimerStaysCancelled, AfterCancel, Released
  <2>3. First(peer) = NULL
    <3>1. QueueTypeOK /\ Placed
      BY DEF CancelInv, RemovalInv, RmBase, PlaceInv, OwnerInv, TypeInv, TypeOK
    <3>2. \A p \in Packets : ~ InQueue(peer, p)
      BY <3>1 DEF Placed, Queued, Released, PacketRefs
    <3>3. peeked[peer] = NULL
      BY <3>1, <3>2 DEF QueueTypeOK, InQueue
    <3>4. rxq[peer] = <<>>
      <4> SUFFICES ASSUME rxq[peer] # <<>> PROVE FALSE
        OBVIOUS
      <4>1. rxq[peer] \in Seq(Packets)
        BY <3>1 DEF QueueTypeOK
      <4>2. 1 \in DOMAIN rxq[peer] /\ rxq[peer][1] \in Packets
        BY <4>1, TailFacts
      <4> QED BY <3>2, <4>2 DEF InQueue, InRxq
    <3> QED BY <3>3, <3>4 DEF First
  <2> QED BY <2>1, <2>2, <2>3
<1> QED BY <1>1, <1>2, <1>3, PTL DEF RmSpec

(* With the wake policies that use neither the trigger nor stealing, and     *)
(* that stay as they are, the removal leaves no packet behind, however many  *)
(* were queued and however fast more arrive: when napi_disable takes the     *)
(* instance the flushes and the last polls have emptied the rx_queue, so the *)
(* configuration's reference is the last one.  The one exception in          *)
(* NothingLeftWithoutTrigger is a poll that uses up its whole budget while   *)
(* napi_disable waits for it.  With stealing a poll of another peer can keep *)
(* a packet past both flushes.                                               *)
THEOREM RemovalLeavesNothing ==
  ASSUME FixedNoSteal
  PROVE  RmSpec => []NothingLeftWithoutTrigger
<1>1. RmInit => DrainInv
  BY DrainInit
<1>2. DrainInv /\ [RmNext]_rmHistory => DrainInv'
  BY DrainStep
<1>3. DrainInv => NothingLeftWithoutTrigger
  BY DEF DrainInv, NoTrigger, NothingLeftWithoutTrigger
<1> QED BY <1>1, <1>2, <1>3, PTL DEF RmSpec
=============================================================================
