------------------------------- MODULE MCLive -------------------------------
(* What must happen in the end, for the components outside of the receive   *)
(* path, in one TLC run. Each part is a component with state of its own;    *)
(* the initial state picks the part that runs (the variable part), and the  *)
(* others stay as they started. The fairness is each component's Fairness,  *)
(* for the part that runs: threads that can run do, a mutex is handed on, a *)
(* work's function ends.                                                    *)
EXTENDS PrevQueue

CONSTANT Parts   \* the parts this run checks

VARIABLES
    part,
    ep, worker, net, left,
    checker, latest_cookie, address, wire, under_load, ck_sender, waiting, ck_worker, opener,
    issued, spare,
    hring, handshake_queue_len, fate, softirq, hworker, hwork, last_under_load, stopping, stops,
    staged, made, sender, current, keys, cb, list, txstate, tx_queue, txpeeked, crypt_ring,
    encrypt, transmit, tx_wire, order, refs, is_dead, removal, flushed,
    workers, pool, work, maydays, hotplugs,
    wq, pwq, items, flusher, owed, calls,
    data, timer, worklist, runner, thread, requeued, robbed,
    acct, hash_tail, map, io_waiting, io_worker, state,
    iowq, io_pool, thr, tw, task, late, queued, miscount,
    napi, nd_timer, sd, ctx, kthread, admin, mode, hw, busied,
    bl_sd, ipi, rx, want, flow, dev, gp, log, budget,
    nd, tab, chain, follows, view, rt, reader, ops

session_vars == <<ep, worker, net, left>>
cookies_vars == <<checker, latest_cookie, address, wire, under_load, ck_sender, waiting,
                  ck_worker, opener, issued, spare>>
queue_vars == <<hring, handshake_queue_len, fate, softirq, hworker, hwork, last_under_load,
                stopping, stops>>
sending_vars == <<staged, made, sender, current, keys, cb, list, txstate, tx_queue, txpeeked,
                  crypt_ring, encrypt, transmit, tx_wire, order, refs, is_dead, removal, flushed>>
pool_vars == <<workers, pool, work, maydays, hotplugs>>
flush_vars == <<wq, pwq, items, flusher, owed, calls>>
cancel_vars == <<data, timer, worklist, runner, thread, requeued, robbed>>
hash_vars == <<acct, hash_tail, map, io_waiting, io_worker, state>>
iopool_vars == <<iowq, io_pool, thr, tw, task, late, queued, miscount>>
napi_vars == <<napi, nd_timer, sd, ctx, kthread, admin, mode, hw, busied>>
backlog_vars == <<bl_sd, ipi, rx, want, flow, dev, gp, log, budget>>
netdev_vars == <<nd, tab, chain, follows, view, rt, reader, ops>>
live_vars == <<part, vars, session_vars, cookies_vars, queue_vars, sending_vars, pool_vars,
              flush_vars, cancel_vars, hash_vars, iopool_vars, napi_vars, backlog_vars,
              netdev_vars>>

\* The variables of the part that runs.
active_vars ==
    CASE part = "prev_queue" -> vars
      [] part = "session" -> session_vars
      [] part = "cookies" -> cookies_vars
      [] part = "queue" -> queue_vars
      [] part = "sending" -> sending_vars
      [] part = "pool" -> pool_vars
      [] part = "flush" -> flush_vars
      [] part = "cancel" -> cancel_vars
      [] part = "hash" -> hash_vars
      [] part = "iopool" -> iopool_vars
      [] part = "napi" -> napi_vars
      [] part = "backlog" -> backlog_vars
      [] part = "netdev" -> netdev_vars

\* One side has data to send; two losses, or a loss and a reset, on a network
\* that delivers in time.
Handshake == INSTANCE Session WITH
    REKEY_TIMEOUT <- 1, KEEPALIVE_TIMEOUT <- 1, REKEY_AFTER_TIME <- 2, REJECT_AFTER_TIME <- 3,
    REKEY_AFTER_MESSAGES <- 1, REJECT_AFTER_MESSAGES <- 3, MAX_TIMER_HANDSHAKES <- 1,
    MAX_STAGED_PACKETS <- 1, PersistentKeepalive <- {}, Talkers <- {"A"},
    Workers <- [A |-> {"wA"}, B |-> {"wB"}], TimelyNetwork <- TRUE,
    Duplicates <- FALSE, MaxIndex <- 5,
    Budgets <- {[data |-> 1, resets |-> 0, losses |-> 2, ticks |-> -1, overlaps |-> 0],
                [data |-> 1, resets |-> 1, losses |-> 1, ticks |-> -1, overlaps |-> 0]}

\* An initiator that roams, messages that are lost, late or repeated, a responder
\* under load with one worker.
Cookies == INSTANCE Cookie WITH
    Addresses <- {1, 2}, Responders <- {"c1"}, Openers <- {"o1"},
    COOKIE_SECRET_MAX_AGE <- 3, COOKIE_SECRET_LATENCY <- 1, Macs <- 1 .. 4, Secrets <- 1 .. 6,
    CookieBudgets <-
        {[losses |-> 1, repeats |-> 0, late |-> 1, diverted |-> 0, roams |-> 1, loads |-> 0,
          refusals |-> 0]},
    sender <- ck_sender, worker <- ck_worker

\* Two messages, one worker, and a wg_stop.
Handshakes == INSTANCE HandshakeQueue WITH
    Messages <- {"m1", "m2"}, Softirqs <- {"s1"}, HsCpus <- {"h1", "h2"}, RING_SIZE <- 2,
    TRYLOCK_ABOVE <- 1, LOAD_FROM <- 1, Stops <- 1

\* Two senders, one encrypt worker, two packets and a removal.
Sending == INSTANCE TxPath WITH
    Senders <- {"s1", "s2"}, EncryptCpus <- {"c1"}, MaxPackets <- 2, MaxKeys <- 1,
    MAX_STAGED_PACKETS <- 1, TX_QUEUE_SIZE <- 2, CRYPT_RING_SIZE <- 1,
    MESSAGE_LIMIT <- 2, wire <- tx_wire

\* Bound: the second sender starts with the second packet when the first is about
\* to take its place in tx_queue; the peer is removed after one packet at most,
\* and not while the second sender sends.
SecondSenderBounds ==
    /\ (sender["s2"].pc = "idle" /\ sender'["s2"].pc # "idle") => sender["s1"].pc = "enqueue" /\ made' = 2
    /\ (is_dead' /\ ~is_dead) => made < 2
    /\ sender'["s2"].pc # "idle" => ~is_dead'

\* One worker, a rescuer, two works that may sleep.
Pool == INSTANCE WqPool WITH
    Pools <- {"A"}, Workers <- {"a1"}, PoolOf <- [a1 |-> "A"], FirstWorkers <- {"a1"},
    Works <- {"k1", "k2"}, Intensive <- FALSE, MAX_ACTIVE <- 1, KEEP_IDLE <- 1, Hotplugs <- 0

\* Two flushers that flush again and again, one of which drains.
Flush == INSTANCE WqFlush WITH
    Flushers <- {"f1", "f2"}, Drainers <- {"f1"}, NR_PWQS <- 1, FlWorks <- {"w1"},
    WORK_NR_COLORS <- 3, MaxCalls <- 0

\* Three threads, one call each.
Cancel == INSTANCE WqCancel WITH
    WcPools <- {"A", "B"}, WcRunners <- {1}, Threads <- {"q", "c", "f"},
    Calls <- [q |-> {"queue_work_on", "mod_delayed_work_on"},
              c |-> {"cancel_work_sync", "disable_work_sync"},
              f |-> {"flush_work", "flush_delayed_work"}],
    MaxEach <- [q |-> 1, c |-> 1, f |-> 1]

\* Two io-wqs with a worker each, hashed, unhashed and linked works.
IoHash == INSTANCE IoWqHash WITH
    IoWqs <- {"q1", "q2"}, IoWorkers <- {"w1", "w3"}, IoWorks <- {"x1", "x2", "x4"},
    WqOf <- [w1 |-> "q1", w3 |-> "q2", x1 |-> "q1", x2 |-> "q1", x4 |-> "q2"],
    HashOf <- [x1 |-> 1, x2 |-> 1, x4 |-> 1],
    Linked <- [x1 |-> "none", x2 |-> "none", x4 |-> "none"], worker <- io_worker,
    waiting <- io_waiting

\* Three threads, two workers, creations that fail, and the exit.
IoPool == INSTANCE IoWqPool WITH
    IoThreads <- 1 .. 3, MAX_WORKERS <- 2, UINT <- 8, Outcomes <- {"ok", "retry", "fail"},
    TIMEOUTS <- TRUE, WORKER_INIT_LIMIT <- 2, MaxWorks <- 1, pool <- io_pool

\* An instance polled by softirq or kthread, switched and disabled.
Instance == INSTANCE NapiDev WITH
    NdCpus <- {1}, WEIGHT <- 1, DEFER <- 1, TIMEOUT <- TRUE, CONFIG <- TRUE, PREFER <- TRUE,
    Edges <- {TRUE}, Modes <- {"off", "busy"}, SWITCH_DOWN <- FALSE, MaxArrivals <- 1,
    MaxBusy <- 0, MaxAdmin <- 4, timer <- nd_timer

\* One packet, two CPUs, a move and a hotplug.
Queues == INSTANCE Backlog WITH
    BlCpus <- {1, 2}, QUOTA <- 1, MAX_BACKLOG <- 1, MAP <- 2, IPI_FIRST <- TRUE, MaxPackets <- 1,
    MaxMoves <- 1, MaxHotplug <- 1, sd <- bl_sd

\* One device, one namespace, a notifier and a reader.
Devices == INSTANCE NetdevLife WITH
    NlDevs <- {"d1"}, SelfFreeing <- {"d1"}, Nets <- {1}, MaxName <- 2, MaxIndex <- 1,
    Blocks <- {"b1"}, Watchers <- {"r1"}, VetoIn <- {"POST_INIT", "REGISTER", "CHANGENAME"},
    PATTERNS <- FALSE, MaxOps <- 4

LiveInit ==
    /\ part \in Parts
    /\ Init
    /\ Handshake!Init /\ (part # "session" => left.resets = 0)
    /\ Cookies!Init /\ (part # "cookies" => ~ under_load)
    /\ Handshakes!HsInit
    /\ Sending!TxInit
    /\ Pool!Init
    /\ Flush!Init
    /\ Cancel!Init
    /\ IoHash!Init
    /\ IoPool!Init
    /\ Instance!Init /\ (part # "napi" => mode = "off")
    /\ Queues!Init /\ (part # "backlog" => want = 1)
    /\ Devices!Init

\* The parts that do not run stay as they are.
OthersRest ==
    /\ UNCHANGED part
    /\ part # "prev_queue" => UNCHANGED vars
    /\ part # "session" => UNCHANGED session_vars
    /\ part # "cookies" => UNCHANGED cookies_vars
    /\ part # "queue" => UNCHANGED queue_vars
    /\ part # "sending" => UNCHANGED sending_vars
    /\ part # "pool" => UNCHANGED pool_vars
    /\ part # "flush" => UNCHANGED flush_vars
    /\ part # "cancel" => UNCHANGED cancel_vars
    /\ part # "hash" => UNCHANGED hash_vars
    /\ part # "iopool" => UNCHANGED iopool_vars
    /\ part # "napi" => UNCHANGED napi_vars
    /\ part # "backlog" => UNCHANGED backlog_vars
    /\ part # "netdev" => UNCHANGED netdev_vars

LiveNext ==
    /\ \/ part = "prev_queue" /\ Next
       \/ part = "session" /\ Handshake!Next
       \/ part = "cookies" /\ Cookies!Next
       \/ part = "queue" /\ Handshakes!HsNext
       \/ part = "sending" /\ Sending!TxNext /\ SecondSenderBounds
       \/ part = "pool" /\ Pool!Next
       \/ part = "flush" /\ Flush!Next
       \/ part = "cancel" /\ Cancel!Next
       \/ part = "hash" /\ IoHash!Next
       \/ part = "iopool" /\ IoPool!Next
       \/ part = "napi" /\ Instance!Next
       \/ part = "backlog" /\ Queues!Next
       \/ part = "netdev" /\ Devices!Next
    /\ OthersRest

\* The contexts of the part that runs, by number: each is scheduled when it can
\* run, a mutex waiter excepted.
Context(i) ==
    \/ part = "session" /\ i = 1 /\ (Handshake!Tick \/ \E e \in {"A", "B"} : Handshake!Step(e))
    \/ /\ part = "cookies"
       /\ \/ i = 1 /\ Cookies!SenderRuns
          \/ i = 2 /\ Cookies!OpenerRuns("o1")
          \/ i = 3 /\ Cookies!ResponderRuns("c1")
          \/ i = 4 /\ Cookies!ck_Tick
    \/ part = "queue" /\ i = 1 /\ Handshakes!Progress
    \/ /\ part = "sending"
       /\ \/ i = 1 /\ Sending!SenderRuns("s1")
          \/ i = 2 /\ Sending!SenderRuns("s2")
          \/ i = 3 /\ Sending!EncryptRuns("c1")
          \/ i = 4 /\ Sending!TransmitRuns
          \/ i = 5 /\ Sending!RemovalRuns
    \/ /\ part = "pool"
       /\ \/ i = 1 /\ Pool!WorkerStep("a1")
          \/ i = 2 /\ Pool!FunctionStep("a1")
          \/ i = 3 /\ Pool!WorkerStep(Pool!Rescuer)
          \/ i = 4 /\ Pool!FunctionStep(Pool!Rescuer)
          \/ i = 5 /\ Pool!woke_up("a1")
          \/ i = 6 /\ Pool!maybe_create_worker("a1")
          \/ i = 7 /\ Pool!pool_mayday_timeout("A")
          \/ i = 8 /\ Pool!rescuer_attach
          \/ i = 9 /\ Pool!rescuer_thread
    \/ /\ part = "flush"
       /\ \/ i = 1 /\ Flush!process_one_work("w1")
          \/ i = 2 /\ Flush!work_done("w1")
          \/ i = 3 /\ Flush!FlushStep("f1")
          \/ i = 4 /\ Flush!FlushStep("f2")
    \/ /\ part = "cancel"
       /\ \/ i = 1 /\ Cancel!ThreadStep("q")
          \/ i = 2 /\ Cancel!ThreadStep("c")
          \/ i = 3 /\ Cancel!ThreadStep("f")
          \/ i = 4 /\ Cancel!RunnerStep(1)
          \/ i = 5 /\ Cancel!TimerStep
    \/ /\ part = "hash"
       /\ \/ i = 1 /\ IoHash!WorkerStep("w1")
          \/ i = 2 /\ IoHash!WorkerStep("w3")
    \/ /\ part = "iopool"
       /\ \/ i \in 1 .. 3 /\ IoPool!WorkerStep(i)
          \/ i \in 4 .. 6 /\ IoPool!workqueue_recheck(i - 3)
          \/ i = 7 /\ IoPool!TaskStep
    \/ /\ part = "napi"
       /\ \/ i = 1 /\ (Instance!RxStep(1) \/ Instance!PollStep(Instance!Soft(1)))
          \/ i = 2 /\ Instance!PollStep(Instance!Irq(1))
          \/ i = 3 /\ Instance!napi_schedule(1)
          \/ i = 4 /\ (Instance!timer_expires(1) \/ Instance!napi_watchdog(1))
          \/ i = 5 /\ (Instance!ThreadStep \/ Instance!PollStep(Instance!Thread))
          \/ i = 6 /\ Instance!AdminEnds
    \/ /\ part = "backlog"
       /\ \/ i \in {1, 2} /\ Queues!RxAction(i)
          \/ i \in {3, 4} /\ Queues!dead_packet(i - 2)
          \/ i = 5 /\ Queues!NetifRx(Queues!Irq)
          \/ i = 6 /\ Queues!NetifRx(Queues!Dead)
          \/ i = 7 /\ Queues!Removal
    \/ /\ part = "netdev"
       /\ \/ i = 1 /\ Devices!RtnlStep
          \/ i = 2 /\ Devices!ReaderStep("r1")

\* The steps that wait for a lock others take as well, by number.
LockTaker(i) ==
    \/ part = "flush" /\ i = 1 /\ Flush!LockStep("f1")
    \/ part = "flush" /\ i = 2 /\ Flush!LockStep("f2")
    \/ part = "iopool" /\ i = 1 /\ (\E w \in 1 .. 3 : IoPool!work_done(w))

LiveFairness ==
    /\ \A a \in Producers : WF_vars(/\ part = "prev_queue"
                                    /\ enqueue_clear(a) \/ enqueue_xchg(a) \/ enqueue_link(a)
                                    /\ TrackGap)
    /\ WF_vars(part = "prev_queue" /\ ConsumerNext /\ TrackGap)
    /\ \A i \in 1 .. 9 : WF_active_vars(UNCHANGED part /\ Context(i))
    /\ \A i \in 1 .. 2 : SF_active_vars(UNCHANGED part /\ LockTaker(i))

LiveSpec == LiveInit /\ [][LiveNext]_live_vars /\ LiveFairness

(* What WireGuard must get done is done: a packet in a prev_queue is taken  *)
(* out, staged packets are sent or given up although handshake messages are *)
(* lost, an initiator refused under load gets through with a cookie         *)
(* although secret and cookie age on two clocks, a handshake message in the *)
(* ring is taken out, a packet in tx_queue is sent or freed, and a removed  *)
(* peer is released.                                                        *)
WireGuardProgress ==
    /\ EveryPacketTaken
    /\ Handshake!StagedPacketsGo
    /\ (part = "cookies" => Cookies!CookieGetsThrough)
    /\ Handshakes!QueuedIsHandled
    /\ Sending!QueuedPacketsLeave
    /\ Sending!RemovalEnds

(* What the kernel services promise to get done is done: a pending work is  *)
(* started although no new worker can be made, flush_workqueue returns      *)
(* although others flush and drain all the time, cancelling and flushing a  *)
(* work return, an io-wq work runs or is cancelled although its bucket is   *)
(* shared, io_wq_exit ends, packets are polled, napi_disable and the switch *)
(* of the mode return, a packet given to netif_rx is delivered or dropped   *)
(* also when its CPU goes away, and unregistration ends.                    *)
KernelProgress ==
    /\ Pool!QueuedIsStarted
    /\ Flush!FlushReturns
    /\ Cancel!CallsReturn
    /\ IoHash!QueuedWorkRuns
    /\ IoPool!ExitEnds
    /\ Instance!PacketsFetched
    /\ Instance!AdminReturns
    /\ Queues!PacketsGo
    /\ Devices!UnregistrationEnds
=============================================================================
