-------------------------------- MODULE Backlog --------------------------------
(***************************************************************************)
(* The per-CPU backlog of net/core/dev.c: netif_rx with receive flow         *)
(* steering (get_rps_cpu, enqueue_to_backlog), the IPIs that wake another   *)
(* CPU's backlog, process_backlog in net_rx_action, CPUs going down and     *)
(* coming back, and the removal of the device the packets came from, which  *)
(* they hold no reference to. All packets are of one device and one flow,   *)
(* whose place in the socket flow table another flow may take.              *)
(* backlog threads are off.                                                 *)
(***************************************************************************)
EXTENDS Integers, SequencesExt, FiniteSetsExt

CONSTANTS
    BlCpus,         \* CPUs, as numbers from 1; packets come in on CPU 1
    QUOTA,          \* dev_rx_weight
    MAX_BACKLOG,    \* max_backlog
    MAP,            \* the CPU the RPS map has for the flow, 0 if there is no map
    IPI_FIRST,      \* a CPU goes down only when no IPI for it is still to be sent
    MaxPackets,     \* bound: packets in all
    MaxMoves,       \* bound: changes of the flow's entry in the socket flow table
    MaxHotplug      \* bound: times a CPU goes down

VARIABLES
    sd,         \* each CPU's softnet_data
    ipi,        \* CPUs with rps_trigger_softirq on its way
    rx,         \* contexts in netif_rx: the interrupt, and the one that buries a CPU
    want,       \* sock_flow_table: the CPU of the last recvmsg, 0 if the entry is
                \* another flow's
    flow,       \* rps_dev_flow: cpu (0 if unset) and last_qtail
    dev,        \* the device and its removal
    gp,         \* whom synchronize_net waits for
    log,        \* packets received, in order, and dropped; history: queued unsteered
    budget      \* packets, moves and hotplugs so far

bl_vars == <<sd, ipi, rx, want, flow, dev, gp, log, budget>>

Irq == 0
Dead == -1
Contexts == {Irq, Dead}
Rest == [pc |-> "rest", pkt |-> 0, cpu |-> 0, save |-> FALSE, tail |-> 0, from |-> 0]
CpuAfresh == [online |-> TRUE, inq |-> <<>>, pq |-> <<>>, sched |-> FALSE, list |-> "no", ipis |-> {}, raised |-> FALSE,
              in |-> FALSE, head |-> 0, tail |-> 0, pc |-> "rest", work |-> 0, pkt |-> 0]

Init ==
    /\ sd = [c \in BlCpus |-> CpuAfresh]
    /\ ipi = {} /\ gp = {}
    /\ rx = [x \in Contexts |-> Rest]
    /\ want \in BlCpus \cup {0}
    /\ flow = [cpu |-> 0, last_qtail |-> 0]
    /\ dev = [pc |-> "up", running |-> TRUE, flush |-> {}]
    /\ log = [got |-> <<>>, dropped |-> {}, unsteered |-> {}]
    /\ budget = [packets |-> 0, moves |-> 0, hotplugs |-> 0]

Queued(c) == sd[c].inq \o sd[c].pq
Buried == {c \in BlCpus : ~sd[c].online /\ Queued(c) # <<>>}
\* The CPU a context runs on.
CpuOf(x) == IF x = Irq THEN 1 ELSE CHOOSE c \in BlCpus : sd[c].online
\* A softirq runs while no interrupt holds its CPU.
Runs(c) == sd[c].online /\ (c = CpuOf(Irq) => rx[Irq].pc = "rest")
\* A context leaves its read-side critical section.
Left(x) == gp' = gp \ {x}
\* netif_rx returns; the one that buries a CPU then moves that CPU's head.
Return(x) ==
    /\ rx' = [rx EXCEPT ![x] =
          IF x = Dead THEN [Rest EXCEPT !.pc = "head", !.from = rx[x].from] ELSE Rest]
    /\ Left(x)

--------------------------------------------------------------------------------
\* netif_rx: a packet comes in, or is taken from the queues of a dead CPU.
packet_arrives ==
    /\ rx[Irq].pc = "rest" /\ budget.packets < MaxPackets /\ dev.pc \in {"up", "closing"}
    /\ budget' = [budget EXCEPT !.packets = @ + 1]
    /\ rx' = [rx EXCEPT ![Irq] = [Rest EXCEPT !.pc = "choose", !.pkt = budget.packets + 1]]
    /\ UNCHANGED <<sd, ipi, want, flow, dev, gp, log>>

dead_packet(c) ==
    LET process == sd[c].pq # <<>> IN
    /\ rx[Dead].pc = "rest" /\ c \in Buried
    /\ sd' = IF process THEN [sd EXCEPT ![c].pq = Tail(@)] ELSE [sd EXCEPT ![c].inq = Tail(@)]
    /\ rx' = [rx EXCEPT ![Dead] = [Rest EXCEPT !.pc = "choose", !.from = c,
                                               !.pkt = Head(IF process THEN sd[c].pq ELSE sd[c].inq)]]
    /\ UNCHANGED <<ipi, want, flow, dev, gp, log, budget>>

\* rps_input_queue_head_incr, after netif_rx
dead_head_incr ==
    /\ rx[Dead].pc = "head"
    /\ sd' = [sd EXCEPT ![rx[Dead].from].head = @ + 1]
    /\ rx' = [rx EXCEPT ![Dead] = Rest]
    /\ UNCHANGED <<ipi, want, flow, dev, gp, log, budget>>

\* Slip: the flow follows its reader at once.
Slip_move_at_once == TRUE

\* The flow may move: its CPU is unset, offline or has dequeued all of its packets.
MayMove == flow.cpu = 0 \/ ~sd[flow.cpu].online \/ sd[flow.cpu].head >= flow.last_qtail

\* get_rps_cpu, with set_rps_cpu: a flow whose entry matches is steered to a CPU;
\* otherwise, or when that CPU is offline, the packet goes where the RPS map says,
\* or stays here, and no tail is saved for it.
get_rps_cpu(x) ==
    LET move == want # 0 /\ flow.cpu # want /\ MayMove
        cpu == IF move THEN want ELSE flow.cpu
        online == {c \in BlCpus : sd[c].online}
        steered == want # 0 /\ cpu \in online
    IN /\ rx[x].pc = "choose"
       /\ flow' = IF move THEN [cpu |-> want, last_qtail |-> sd[want].head] ELSE flow
       /\ rx' = [rx EXCEPT ![x].pc = "check", ![x].save = steered,
                           ![x].cpu = IF steered THEN cpu ELSE IF MAP \in online THEN MAP ELSE CpuOf(x)]
       /\ UNCHANGED <<sd, ipi, want, dev, gp, log, budget>>

Dropped(x) ==
    /\ log' = [log EXCEPT !.dropped = @ \cup {rx[x].pkt}]
    /\ Return(x)

\* enqueue_to_backlog: not for a device that does not run ...
enqueue_check(x) ==
    /\ rx[x].pc = "check"
    /\ IF dev.running THEN rx' = [rx EXCEPT ![x].pc = "limit"] /\ UNCHANGED <<log, gp>>
       ELSE Dropped(x)
    /\ UNCHANGED <<sd, ipi, want, flow, dev, budget>>

\* ... nor, by the length read without the lock, for a queue that is full or, when
\* it is half full, for a flow that had most of the last packets ...
skb_flow_limit(x) ==
    LET qlen == Len(sd[rx[x].cpu].inq) IN
    /\ rx[x].pc = "limit"
    /\ \/ qlen >= MAX_BACKLOG \div 2 /\ Dropped(x)
       \/ qlen <= MAX_BACKLOG /\ rx' = [rx EXCEPT ![x].pc = "enqueue"] /\ UNCHANGED <<log, gp>>
    /\ UNCHANGED <<sd, ipi, want, flow, dev, budget>>

\* Slip: the softirq is not raised for an IPI.
Slip_ipi_quiet(S, me, cpu) == [S EXCEPT ![me].ipis = @ \cup {cpu}]

\* napi_schedule_rps for another CPU: linked to this CPU's rps_ipi_list.
LinkIpi(S, me, cpu) == [S EXCEPT ![me].ipis = @ \cup {cpu}, ![me].raised = @ \/ ~S[me].in]

\* ____napi_schedule of a backlog on its own CPU.
Scheduled(S, cpu) == [S EXCEPT ![cpu].list = "sd", ![cpu].raised = @ \/ ~S[cpu].in]

\* ... with the queue locked: the first packet schedules the backlog, unless
\* that has been done; a full queue drops.
enqueue_to_backlog(x) ==
    LET c == rx[x].cpu  me == CpuOf(x)
        S == [sd EXCEPT ![c].inq = Append(@, rx[x].pkt), ![c].tail = @ + 1]
        first == sd[c].inq = <<>> /\ ~sd[c].sched
        T == [S EXCEPT ![c].sched = TRUE]
    IN /\ rx[x].pc = "enqueue"
       /\ IF Len(sd[c].inq) > MAX_BACKLOG
          THEN Dropped(x) /\ UNCHANGED sd
          ELSE /\ sd' = IF ~first THEN S ELSE IF c = me THEN Scheduled(T, c) ELSE LinkIpi(T, me, c)
               /\ rx' = [rx EXCEPT ![x].pc = "save", ![x].tail = sd[c].tail + 1]
               /\ log' = IF rx[x].save THEN log ELSE [log EXCEPT !.unsteered = @ \cup {rx[x].pkt}]
               /\ UNCHANGED gp
       /\ UNCHANGED <<ipi, want, flow, dev, budget>>

\* rps_input_queue_tail_save, outside of the lock.
tail_save(x) ==
    /\ rx[x].pc = "save"
    /\ flow' = IF rx[x].save THEN [flow EXCEPT !.last_qtail = rx[x].tail] ELSE flow
    /\ Return(x)
    /\ UNCHANGED <<sd, ipi, want, dev, log, budget>>

\* rps_trigger_softirq, on the CPU the IPI was sent to.
rps_trigger_softirq(c) ==
    /\ c \in ipi /\ sd[c].online
    /\ sd' = Scheduled(sd, c)
    /\ ipi' = ipi \ {c}
    /\ UNCHANGED <<rx, want, flow, dev, gp, log, budget>>

\* The reader of the socket calls recvmsg on another CPU (rps_record_sock_flow), or
\* (0) the reader of another flow takes the entry.
reader_moves(c) ==
    /\ budget.moves < MaxMoves /\ c # want /\ want' = c
    /\ budget' = [budget EXCEPT !.moves = @ + 1]
    /\ UNCHANGED <<sd, ipi, rx, flow, dev, gp, log>>

--------------------------------------------------------------------------------
At(c, pc) == sd[c].pc = pc /\ Runs(c)
Go(c, pc) == sd' = [sd EXCEPT ![c].pc = pc]
Same == UNCHANGED <<rx, want, flow, dev, budget>>

\* net_rx_action: the list is taken over ...
rx_start(c) ==
    /\ (At(c, "rest") /\ sd[c].raised) \/ At(c, "restart")
    /\ sd' = [sd EXCEPT ![c].raised = FALSE, ![c].in = TRUE, ![c].pc = "loop", ![c].list = IF @ = "sd" THEN "local" ELSE @]
    /\ UNCHANGED <<ipi, gp, log>> /\ Same

\* ... the backlog polled; with nothing to poll in_net_rx_action is cleared ...
rx_loop(c) ==
    /\ At(c, "loop")
    /\ sd' = CASE sd[c].list = "local" -> [sd EXCEPT ![c].list = "no", ![c].pc = "ipis"]
               [] sd[c].list = "repoll" -> [sd EXCEPT ![c].pc = "punt"]
               [] OTHER -> [sd EXCEPT ![c].in = FALSE, ![c].pc = "check"]
    /\ UNCHANGED <<ipi, gp, log>> /\ Same

\* ... and the lists looked at again.
rx_check(c) ==
    LET pc == IF sd[c].list = "sd" THEN "restart" ELSE IF sd[c].ipis # {} THEN "punt" ELSE "rest" IN
    /\ At(c, "check")
    /\ Go(c, pc)
    /\ gp' = IF pc = "rest" THEN gp \ {c} ELSE gp
    /\ UNCHANGED <<ipi, log>> /\ Same

\* net_rps_action_and_irq_enable: IPIs to the CPUs of the list that are online.
Sent(c) == {d \in sd[c].ipis : sd[d].online}

\* The end of net_rx_action: what is left is raised again, IPIs are sent.
rx_punt(c) ==
    LET left == sd[c].list # "no" IN
    /\ At(c, "punt")
    /\ sd' = [sd EXCEPT ![c].list = IF left THEN "sd" ELSE @, ![c].raised = @ \/ left, ![c].in = left,
                        ![c].ipis = {}, ![c].pc = "rest"]
    /\ ipi' = ipi \cup Sent(c)
    /\ Left(c)
    /\ UNCHANGED log /\ Same

\* process_backlog: waiting IPIs are sent first ...
process_backlog(c) ==
    /\ At(c, "ipis")
    /\ sd' = [sd EXCEPT ![c].ipis = {}, ![c].pc = "dequeue", ![c].work = 0]
    /\ ipi' = ipi \cup Sent(c)
    /\ UNCHANGED <<gp, log>> /\ Same

\* ... a packet is taken off process_queue ...
process_dequeue(c) ==
    /\ At(c, "dequeue") /\ sd[c].pq # <<>>
    /\ sd' = [sd EXCEPT ![c].pq = Tail(@), ![c].pkt = Head(sd[c].pq), ![c].pc = "receive"]
    /\ UNCHANGED <<ipi, gp, log>> /\ Same

\* ... and received; input_queue_head is moved when the quota is used up ...
netif_receive_skb(c) ==
    LET full == sd[c].work + 1 >= QUOTA IN
    /\ At(c, "receive")
    /\ log' = [log EXCEPT !.got = Append(@, sd[c].pkt)]
    /\ sd' = [sd EXCEPT ![c].pkt = 0, ![c].work = @ + 1, ![c].pc = IF full THEN "full" ELSE "dequeue"]
    /\ UNCHANGED <<ipi, gp>> /\ Same

\* Slip: the backlog is given up although packets have come in.
Slip_give_up(c) == TRUE

\* The input queue is empty, so that the next packet will schedule again.
InputEmpty(c) == sd[c].inq = <<>>

\* ... with the queue locked: the backlog is given up, or the input spliced.
process_input(c) ==
    /\ At(c, "dequeue") /\ sd[c].pq = <<>>
    /\ sd' = IF InputEmpty(c) THEN [sd EXCEPT ![c].sched = FALSE, ![c].pc = "done"]
             ELSE [sd EXCEPT ![c].pq = sd[c].inq, ![c].inq = <<>>]
    /\ UNCHANGED <<ipi, gp, log>> /\ Same

\* Slip: the packets of a poll are not counted.
Slip_head_stays(c) == 0

\* rps_input_queue_head_add
HeadAdd(c) == sd[c].work

\* The poll is over; __napi_poll has a full one polled again. The time of the
\* softirq is used up or not.
process_ends(c, exhausted) ==
    /\ At(c, "done") \/ At(c, "full")
    /\ sd' = [sd EXCEPT ![c].head = @ + HeadAdd(c), ![c].work = 0, ![c].pc = IF exhausted THEN "punt" ELSE "loop",
                        ![c].list = IF sd[c].pc = "full" THEN "repoll" ELSE @]
    /\ UNCHANGED <<ipi, gp, log>> /\ Same

--------------------------------------------------------------------------------
\* A CPU goes down, at rest and with no IPI on its way; dev_cpu_dead takes its
\* backlog off the list, sends its IPIs, and buries its packets one by one.
dev_cpu_dead(c) ==
    /\ c # 1 /\ sd[c].online /\ sd[c].pc = "rest" /\ c \notin ipi /\ budget.hotplugs < MaxHotplug
    /\ dev.pc # "flush" /\ rx[Dead].pc = "rest"
    \* stop_machine does not interrupt who is in netif_rx
    /\ rx[Irq].pc = "rest" /\ (IPI_FIRST => \A d \in BlCpus : c \notin sd[d].ipis)
    /\ budget' = [budget EXCEPT !.hotplugs = @ + 1]
    /\ sd' = [sd EXCEPT ![c].online = FALSE, ![c].sched = IF sd[c].list = "sd" THEN FALSE ELSE @, ![c].list = "no",
                        ![c].ipis = {}, ![c].raised = FALSE, ![c].in = FALSE]
    /\ ipi' = ipi \cup Sent(c)
    /\ UNCHANGED <<rx, want, flow, dev, gp, log>>

cpu_up(c) ==
    /\ ~sd[c].online /\ c \notin Buried /\ rx[Dead].pc = "rest" /\ dev.pc # "flush"
    /\ sd' = [sd EXCEPT ![c].online = TRUE]
    /\ UNCHANGED <<ipi, gp, log>> /\ Same

--------------------------------------------------------------------------------
\* Who is in a read-side critical section.
Readers == {x \in Contexts : rx[x].pc # "rest"} \cup {c \in BlCpus : sd[c].pc # "rest"}

\* The device is closed: __LINK_STATE_START goes, and synchronize_net waits for
\* who has seen it.
dev_close ==
    /\ dev.pc = "up"
    /\ dev' = [dev EXCEPT !.running = FALSE, !.pc = "closing"]
    /\ gp' = Readers
    /\ UNCHANGED <<sd, ipi, rx, want, flow, log, budget>>

\* It is NETREG_UNREGISTERING; flush_all_backlogs begins, with no CPU going down.
unregister ==
    /\ dev.pc = "closing" /\ gp = {} /\ Buried = {} /\ rx[Dead].pc = "rest"
    /\ dev' = [dev EXCEPT !.pc = "flush", !.flush = {c \in BlCpus : sd[c].online}]
    /\ UNCHANGED <<sd, ipi, rx, want, flow, gp, log, budget>>

\* flush_required: a CPU without packets gets no work.
flush_required(c) ==
    /\ dev.pc = "flush" /\ c \in dev.flush /\ Queued(c) = <<>>
    /\ dev' = [dev EXCEPT !.flush = @ \ {c}]
    /\ UNCHANGED <<sd, ipi, rx, want, flow, gp, log, budget>>

\* Slip: process_queue is not looked through.
Slip_flush_input(c) == sd[c].pq

\* What flush_backlog leaves in process_queue.
Unflushed(c) == <<>>

\* flush_backlog, in a work on the CPU, with softirqs off.
flush_backlog(c) ==
    /\ dev.pc = "flush" /\ c \in dev.flush /\ sd[c].pc = "rest"
    /\ log' = [log EXCEPT !.dropped = @ \cup (Range(Queued(c)) \ Range(Unflushed(c)))]
    /\ sd' = [sd EXCEPT ![c].head = @ + Len(Queued(c)) - Len(Unflushed(c)), ![c].inq = <<>>, ![c].pq = Unflushed(c)]
    /\ dev' = [dev EXCEPT !.flush = @ \ {c}]
    /\ UNCHANGED <<ipi, rx, want, flow, gp, budget>>

\* synchronize_net for packets in flight, then the device may be freed.
flushed ==
    /\ dev.pc = "flush" /\ dev.flush = {}
    /\ dev' = [dev EXCEPT !.pc = "sync"]
    /\ gp' = Readers
    /\ UNCHANGED <<sd, ipi, rx, want, flow, log, budget>>

dev_freed ==
    /\ dev.pc = "sync" /\ gp = {}
    /\ dev' = [dev EXCEPT !.pc = "freed"]
    /\ UNCHANGED <<sd, ipi, rx, want, flow, gp, log, budget>>

--------------------------------------------------------------------------------
RxAction(c) ==
    \/ rx_start(c) \/ rx_loop(c) \/ rx_check(c) \/ rx_punt(c) \/ process_backlog(c) \/ process_dequeue(c)
    \/ netif_receive_skb(c) \/ process_input(c) \/ (\E e \in BOOLEAN : process_ends(c, e)) \/ rps_trigger_softirq(c)
NetifRx(x) ==
    \/ get_rps_cpu(x) \/ enqueue_check(x) \/ skb_flow_limit(x) \/ enqueue_to_backlog(x) \/ tail_save(x)
    \/ x = Dead /\ dead_head_incr
Removal == unregister \/ (\E c \in BlCpus : flush_required(c) \/ flush_backlog(c)) \/ flushed \/ dev_freed

Next ==
    \/ packet_arrives \/ dev_close \/ Removal
    \/ \E x \in Contexts : NetifRx(x)
    \/ \E c \in BlCpus : RxAction(c) \/ dead_packet(c) \/ dev_cpu_dead(c) \/ cpu_up(c)
    \/ \E c \in BlCpus \cup {0} : reader_moves(c)

Spec == Init /\ [][Next]_bl_vars

\* Softirqs, IPIs and works run, and what has begun goes on.
Fairness ==
    /\ \A c \in BlCpus : WF_bl_vars(RxAction(c)) /\ WF_bl_vars(dead_packet(c))
    /\ \A x \in Contexts : WF_bl_vars(NetifRx(x))
    /\ WF_bl_vars(Removal)

--------------------------------------------------------------------------------
\* unregister_netdevice: a device is freed when no packet of it is queued or in
\* anybody's hands: netif_running, the flush of every CPU and two grace periods
\* together leave no packet behind.
NoPacketOfFreed ==
    dev.pc = "freed" => \A c \in BlCpus : Queued(c) = <<>> /\ sd[c].pkt = 0 /\ rx[Irq].pkt = 0 /\ rx[Dead].pkt = 0

\* get_rps_cpu: "This guarantees that all previous packets for the flow have been
\* dequeued, thus preserving in order delivery", however the reader moves, as long
\* as no CPU goes down. It is so for the packets that were steered, and for those
\* that were not; but one that came before the first recvmsg, or while the entry was
\* another flow's, leaves no tail behind, and may be overtaken or overtake.
FlowInOrder ==
    budget.hotplugs = 0 =>
       \A i, j \in DOMAIN log.got :
          i < j /\ (log.got[i] \in log.unsteered <=> log.got[j] \in log.unsteered) =>
             log.got[i] < log.got[j]

\* input_queue_tail and input_queue_head are apart by what is queued, being received
\* or being buried, on CPUs that went down too.
CountersExact ==
    \A c \in BlCpus : sd[c].tail - sd[c].head =
       Len(Queued(c)) + sd[c].work + (IF sd[c].pkt # 0 THEN 1 ELSE 0)
                      + (IF rx[Dead].from = c THEN 1 ELSE 0)

\* A backlog with packets is scheduled, and who must act on it will: its softirq,
\* an IPI on its way, or the softirq of a CPU that has to send it.
BacklogServed ==
    \A c \in BlCpus : sd[c].online /\ Queued(c) # <<>> =>
      /\ sd[c].sched
      /\ \/ sd[c].list # "no" /\ (sd[c].raised \/ sd[c].pc # "rest")
         \/ sd[c].pc # "rest" \/ c \in ipi
         \/ \E d \in BlCpus : c \in sd[d].ipis /\ sd[d].online /\ (sd[d].raised \/ sd[d].pc # "rest")

\* Every packet is received or dropped.
PacketsGo == \A n \in 1 .. MaxPackets : []<>(budget.packets >= n => n \in log.dropped \cup Range(log.got))

================================================================================
