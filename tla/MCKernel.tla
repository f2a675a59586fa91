------------------------------ MODULE MCKernel ------------------------------
(* The kernel services under the receive path, in one TLC run: workqueues,  *)
(* io-wq, NAPI, the backlog and device registration. Each part is a         *)
(* component with state of its own: the initial state picks the part that   *)
(* runs (the variable part). NapiDev, which theorems are about, has its own *)
(* variables and the cfg's constants: an instance with softirq, kthread and *)
(* busy polling and deferred interrupts. The others share v1, v2, ...       *)
EXTENDS NapiDev

CONSTANT Parts   \* the parts this run checks

VARIABLES
    part, \* the part that runs
    v1, v2, v3, v4, v5, v6, v7, v8, v9

kernel_vars == <<part, v1, v2, v3, v4, v5, v6, v7, v8, v9, nd_vars>>

\* One per-CPU pool, two workers and a rescuer, two works.
Pool == INSTANCE WqPool WITH
    Pools <- {"A"}, Workers <- {"a1", "a2"}, PoolOf <- [a1 |-> "A", a2 |-> "A"],
    FirstWorkers <- {"a1"}, Works <- {"k1", "k2"}, Intensive <- FALSE, MAX_ACTIVE <- 2,
    KEEP_IDLE <- 1, Hotplugs <- 1,
    workers <- v1, pool <- v2, work <- v3, maydays <- v4, hotplugs <- v5

\* Two pools and a work that is queued on either.
TwoPools == INSTANCE WqPool WITH
    Pools <- {"A", "B"}, Workers <- {"a1", "a2", "b1"},
    PoolOf <- [a1 |-> "A", a2 |-> "A", b1 |-> "B"], FirstWorkers <- {"a1", "b1"},
    Works <- {"k1"}, Intensive <- FALSE, MAX_ACTIVE <- 1, KEEP_IDLE <- 1, Hotplugs <- 0,
    workers <- v1, pool <- v2, work <- v3, maydays <- v4, hotplugs <- v5

\* Three flushers, one of which drains, and three colours.
Flush == INSTANCE WqFlush WITH
    Flushers <- {"f1", "f2", "f3"}, Drainers <- {"f1"}, NR_PWQS <- 2, FlWorks <- {"w1"},
    WORK_NR_COLORS <- 3, MaxCalls <- 3,
    wq <- v1, pwq <- v2, items <- v3, flusher <- v4, owed <- v5, calls <- v6

\* A work queued on two pools, cancelled, disabled and flushed by three threads.
Cancel == INSTANCE WqCancel WITH
    WcPools <- {"A", "B"}, WcRunners <- {1, 2}, Threads <- {"q", "c", "f"},
    Calls <-
        [q |-> {"queue_work_on", "mod_delayed_work_on"},
         c |-> {"cancel_work", "cancel_work_sync", "disable_work_sync", "enable_work"},
         f |-> {"flush_work", "flush_delayed_work", "disable_work", "enable_work",
                "queue_delayed_work_on"}],
    MaxEach <- [q |-> 1, c |-> 1, f |-> 1],
    data <- v1, timer <- v2, worklist <- v3, runner <- v4, thread <- v5, requeued <- v6,
    robbed <- v7

\* Two pool_workqueues that share max_active, which is frozen and thawed and follows
\* the CPUs that are online.
Active == INSTANCE WqActive WITH
    AcPwqs <- {1, 2}, Contexts <- {"c1", "c2"}, ORDERED <- FALSE, SAVED_MAX <- {0, 2},
    MIN_ACTIVE <- 1, NODE_CPUS <- 2, ALL_CPUS <- 2, FREEZE_AND_CANCEL <- FALSE, MaxItems <- 3,
    MaxChanges <- 2,
    nna <- v1, pwqs <- v2, ctx <- v3, adj <- v4, cfg <- v5, changes <- v6

\* An ordered workqueue that gets a new pool_workqueue.
Ordered == INSTANCE WqActive WITH
    AcPwqs <- {1, 2}, Contexts <- {"c1", "c2"}, ORDERED <- TRUE, SAVED_MAX <- {0, 1},
    MIN_ACTIVE <- 1, NODE_CPUS <- 2, ALL_CPUS <- 2, FREEZE_AND_CANCEL <- FALSE, MaxItems <- 3,
    MaxChanges <- 2,
    nna <- v1, pwqs <- v2, ctx <- v3, adj <- v4, cfg <- v5, changes <- v6

\* Two CPUs, two sets of attributes, one change and a hotplug.
Pwqs == INSTANCE WqPwq WITH
    PwCpus <- {"c1", "c2"}, PwAttrs <- {1, 2}, PWQ_ORDERED <- FALSE, Queuers <- {"q1"},
    PwqIds <- 1 .. 7, MaxInFlight <- 2, MaxMaydays <- 1, MaxUpdates <- 1,
    wq <- v1, pwq <- v2, poolref <- v3, relq <- v4, admin <- v5, queuer <- v6, updates <- v7,
    maydays <- v8, rescuing <- v9

\* Two io-wqs that share the hash map, with hashed, unhashed and linked works.
IoHash == INSTANCE IoWqHash WITH
    IoWqs <- {"q1", "q2"}, IoWorkers <- {"w1", "w2", "w3"}, IoWorks <- {"x1", "x2", "x3", "x4"},
    WqOf <- [w1 |-> "q1", w2 |-> "q1", w3 |-> "q2", x1 |-> "q1", x2 |-> "q1", x3 |-> "q1",
             x4 |-> "q2"],
    HashOf <- [x1 |-> 1, x2 |-> 1, x3 |-> -1, x4 |-> 1],
    Linked <- [x1 |-> "none", x2 |-> "x3", x3 |-> "none", x4 |-> "none"],
    acct <- v1, hash_tail <- v2, map <- v3, waiting <- v4, worker <- v5, state <- v6

\* Three threads, at most two workers, creation that fails or is retried, idle timeouts.
IoPool == INSTANCE IoWqPool WITH
    IoThreads <- {1, 2, 3}, MAX_WORKERS <- 1, UINT <- 8, Outcomes <- {"ok", "retry", "fail"},
    TIMEOUTS <- TRUE, WORKER_INIT_LIMIT <- 1, MaxWorks <- 2,
    iowq <- v1, pool <- v2, thr <- v3, tw <- v4, task <- v5, late <- v6, queued <- v7,
    miscount <- v8

\* Without idle timeouts and hard failures queued work has somebody to run it.
Served == INSTANCE IoWqPool WITH
    IoThreads <- {1, 2, 3, 4}, MAX_WORKERS <- 2, UINT <- 8, Outcomes <- {"ok", "retry"},
    TIMEOUTS <- FALSE, WORKER_INIT_LIMIT <- 2, MaxWorks <- 2,
    iowq <- v1, pool <- v2, thr <- v3, tw <- v4, task <- v5, late <- v6, queued <- v7,
    miscount <- v8

\* Two CPUs, a flow that moves between them or is not steered, a CPU that goes away.
Queues == INSTANCE Backlog WITH
    BlCpus <- {1, 2}, QUOTA <- 1, MAX_BACKLOG <- 1, MAP <- 2, IPI_FIRST <- TRUE, MaxPackets <- 2,
    MaxMoves <- 1, MaxHotplug <- 1,
    sd <- v1, ipi <- v2, rx <- v3, want <- v4, flow <- v5, dev <- v6, gp <- v7, log <- v8,
    budget <- v9

\* Two devices and namespaces, a notifier that vetoes, a lockless reader.
Devices == INSTANCE NetdevLife WITH
    NlDevs <- {"d1", "d2"}, SelfFreeing <- {"d1"}, Nets <- {1, 2}, MaxName <- 2, MaxIndex <- 2,
    Blocks <- {"b1"}, Watchers <- {"r1"}, VetoIn <- {"POST_INIT", "REGISTER", "CHANGENAME"},
    PATTERNS <- FALSE, MaxOps <- 3,
    nd <- v1, tab <- v2, chain <- v3, follows <- v4, view <- v5, rt <- v6, reader <- v7,
    ops <- v8

\* Without readers, two operations more: a block that follows a device into a
\* namespace that has one, refuses it there, and what comes after.
Followers == INSTANCE NetdevLife WITH
    NlDevs <- {"d1", "d2"}, SelfFreeing <- {"d1"}, Nets <- {1, 2}, MaxName <- 2, MaxIndex <- 2,
    Blocks <- {"b1"}, Watchers <- {}, VetoIn <- {"REGISTER"},
    PATTERNS <- FALSE, MaxOps <- 5,
    nd <- v1, tab <- v2, chain <- v3, follows <- v4, view <- v5, rt <- v6, reader <- v7,
    ops <- v8

\* A part uses the first variables, as many as it has; the others stay 0.
Zero9 == v9 = 0
from9 == <<v9>>
Zero8 == v8 = 0 /\ Zero9
from8 == <<v8, from9>>
Zero7 == v7 = 0 /\ Zero8
from7 == <<v7, from8>>
Zero6 == v6 = 0 /\ Zero7
from6 == <<v6, from7>>

\* While another part runs there is no NAPI instance.
NoInstance == Init /\ mode = "off"

KernelInit ==
    /\ part \in Parts
    /\ part # "napi" => NoInstance
    /\ \/ part = "napi" /\ Init /\ v1 = 0 /\ v2 = 0 /\ v3 = 0 /\ v4 = 0 /\ v5 = 0 /\ Zero6
       \/ part = "pool" /\ Pool!Init /\ Zero6
       \/ part = "pools" /\ TwoPools!Init /\ Zero6
       \/ part = "flush" /\ Flush!Init /\ Zero7
       \/ part = "cancel" /\ Cancel!Init /\ Zero8
       \/ part = "active" /\ Active!Init /\ Zero7
       \/ part = "ordered" /\ Ordered!Init /\ Zero7
       \/ part = "pwqs" /\ Pwqs!Init
       \/ part = "hash" /\ IoHash!Init /\ Zero7
       \/ part = "iopool" /\ IoPool!Init /\ Zero9
       \/ part = "served" /\ Served!Init /\ Zero9
       \/ part = "backlog" /\ Queues!Init
       \/ part = "netdev" /\ Devices!Init /\ Zero9
       \/ part = "followers" /\ Followers!Init /\ Zero9

KernelNext ==
    /\ UNCHANGED part
    /\ part # "napi" => UNCHANGED nd_vars
    /\ \/ part = "napi" /\ Next /\ UNCHANGED <<v1, v2, v3, v4, v5, from6>>
       \/ part = "pool" /\ Pool!Next /\ UNCHANGED from6
       \/ part = "pools" /\ TwoPools!Next /\ UNCHANGED from6
       \/ part = "flush" /\ Flush!Next /\ UNCHANGED from7
       \/ part = "cancel" /\ Cancel!Next /\ UNCHANGED from8
       \/ part = "active" /\ Active!Next /\ UNCHANGED from7
       \/ part = "ordered" /\ Ordered!Next /\ UNCHANGED from7
       \/ part = "pwqs" /\ Pwqs!Next
       \/ part = "hash" /\ IoHash!Next /\ UNCHANGED from7
       \/ part = "iopool" /\ IoPool!Next /\ UNCHANGED from9
       \/ part = "served" /\ Served!Next /\ UNCHANGED from9
       \/ part = "backlog" /\ Queues!Next
       \/ part = "netdev" /\ Devices!Next /\ UNCHANGED from9
       \/ part = "followers" /\ Followers!Next /\ UNCHANGED from9

KernelSpec == KernelInit /\ [][KernelNext]_kernel_vars

(* WqPool: a work never runs on two workers at once, nr_running and         *)
(* nr_active count what they say through sleeping, hotplug and rebinding,   *)
(* and a pool with work and nobody running has somebody who will run it.    *)
PoolServesWork == 
    /\ part = "pool" =>
          /\ Pool!NonReentrant
          /\ Pool!NrRunningExact
          /\ Pool!ActiveExact
          /\ Pool!PoolIsServed
    /\ part = "pools" =>
          /\ TwoPools!NonReentrant
          /\ TwoPools!NrRunningExact
          /\ TwoPools!ActiveExact
          /\ TwoPools!PoolIsServed

(* WqFlush: a flush returns only after every work queued before it has      *)
(* finished, flushers wait for colours in the order they came, and while a  *)
(* colour is flushed there is a first flusher who will hand on.             *)
FlushWaitsInOrder == 
    part = "flush" =>
      /\ Flush!FlushWaits
      /\ Flush!ColoursInOrder
      /\ Flush!FirstFlusherThere

(* WqCancel: a work that was disabled or cancelled synchronously is neither *)
(* pending nor running, the disable count is exact, and a flushed work that *)
(* nobody touched is idle.                                                  *)
CancelLeavesIdle == 
    part = "cancel" =>
      /\ Cancel!DisabledIsQuiet
      /\ Cancel!DisableExact
      /\ Cancel!FlushedIsIdle

(* WqActive: a node's count is the number of works active on it, and a pwq  *)
(* with inactive works is on the node's pending list, where an active work  *)
(* that finishes will find it, whatever freezes, thaws and changes of the   *)
(* limit came in between; an ordered workqueue runs one work at a time and  *)
(* none of a new pwq before the last of the old one.                        *)
ActiveNothingStranded == 
    /\ part = "active" =>
          /\ Active!NodeCountExact
          /\ Active!NothingStranded
    /\ part = "ordered" =>
          /\ Ordered!NodeCountExact
          /\ Ordered!NothingStranded
          /\ Ordered!OrderKept

(* WqPwq: the references of a pool_workqueue are its slots, its works, its  *)
(* calls for the rescuer and who holds it, slots point at live ones, no     *)
(* work is queued on a dead one, the rescuer finds the one it was called    *)
(* to, and the workqueue is freed last.                                     *)
PwqReferencesExact == 
    part = "pwqs" =>
      /\ Pwqs!ReferencesExact
      /\ Pwqs!SlotsAlive
      /\ Pwqs!FreedLast
      /\ Pwqs!NoneOnDead
      /\ Pwqs!RescuerFindsIt

(* IoWqHash: two works of one hash never run at once, also over io-wqs that *)
(* share the map, hash_tail is the last work of its bucket, and a list      *)
(* whose workers all sleep has nothing to run or a wake coming.             *)
IoHashSerial == 
    part = "hash" =>
      /\ IoHash!SerialByHash
      /\ IoHash!TailsRight
      /\ IoHash!NobodyOversleeps

(* IoWqPool: nr_running, nr_workers and worker_refs count workers and       *)
(* creations under way, although creations fail, are retried and cancelled, *)
(* and with work pending somebody runs, wakes up or is being made.          *)
IoPoolCounts == 
    /\ part = "iopool" =>
          /\ IoPool!RunningExact
          /\ IoPool!RefsExact
          /\ IoPool!WorkersCounted
    /\ part = "served" =>
          /\ Served!RunningExact
          /\ Served!RefsExact
          /\ Served!WorkersCounted
          /\ Served!WorkServed

(* Backlog: the packets of a flow that RFS steers are delivered in order      *)
(* although the flow moves, no queue holds a packet of a freed device, a CPU  *)
(* with queued packets has its backlog scheduled or an IPI on its way, and    *)
(* the head and tail counters are apart by exactly what is queued.            *)
BacklogInOrder == 
    part = "backlog" =>
      /\ Queues!NoPacketOfFreed
      /\ Queues!FlowInOrder
      /\ Queues!CountersExact
      /\ Queues!BacklogServed

(* NetdevLife: what a notifier was told is what is registered and up, but   *)
(* for a refusal that a move ignores (that block then knows nothing of the  *)
(* device until it goes); the name and index tables list exactly the listed *)
(* devices, a failed registration or a device that is gone holds nothing,   *)
(* and a device found or held is not freed.                                 *)
NetdevTablesAndViews == 
    /\ part = "netdev" =>
         /\ Devices!ViewsAgree
         /\ Devices!TablesAgree
         /\ Devices!NothingLeaks
         /\ Devices!UsersFindItAlive
    /\ part = "followers" => Followers!ViewsAgree /\ Followers!TablesAgree
=============================================================================
