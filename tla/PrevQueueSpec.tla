--------------------------- MODULE PrevQueueSpec ----------------------------
(***************************************************************************)
(* What a struct prev_queue promises its users (queueing.h: "Multi         *)
(* producer", "Single consumer"): a FIFO in which an enqueue happens in    *)
(* two steps.  The first fixes the packet's place, the second links it;    *)
(* the consumer takes packets in order and only after they are linked.     *)
(***************************************************************************)
EXTENDS Sequences, Naturals

CONSTANTS Skbs, MAX_QUEUED_PACKETS

VARIABLES fifo,    \* the queued packets, in order
          linking  \* those whose second step is still to come

specVars == <<fifo, linking>>

InFifo(s) == \E i \in DOMAIN fifo : fifo[i] = s

SpecInit == fifo = <<>> /\ linking = {}

Place(s) ==
    /\ ~ InFifo(s)
    /\ Len(fifo) < MAX_QUEUED_PACKETS
    /\ fifo' = Append(fifo, s)
    /\ linking' = linking \cup {s}

Link(s) ==
    /\ s \in linking
    /\ linking' = linking \ {s}
    /\ UNCHANGED fifo

Take ==
    /\ fifo # <<>>
    /\ Head(fifo) \notin linking
    /\ fifo' = Tail(fifo)
    /\ UNCHANGED linking

SpecNext == Take \/ \E s \in Skbs : Place(s) \/ Link(s)

QueueSpec == SpecInit /\ [][SpecNext]_specVars
=============================================================================
