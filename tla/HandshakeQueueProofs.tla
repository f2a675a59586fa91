------------------------- MODULE HandshakeQueueProofs -------------------------
(***************************************************************************)
(* How far handshake_queue_len can be from the number of handshake messages *)
(* that wait: proof for any number of CPUs, any size of the ring and any    *)
(* number of times the interface is taken down.                             *)
(***************************************************************************)
EXTENDS HandshakeQueue, FiniteSetTheorems, TLAPS

\* The CPUs are finitely many and the ring has a size.
Sizes == IsFiniteSet(Softirqs) /\ IsFiniteSet(HsCpus) /\ RING_SIZE \in Nat

HeldMessage == Messages \cup {Nothing}

HqTypeOK ==
    /\ hring \in Seq(HeldMessage) /\ Len(hring) <= RING_SIZE
    /\ handshake_queue_len \in Int
    /\ softirq \in [Softirqs -> [pc : {"idle", "try", "produce", "count", "work"}, msg : HeldMessage]]
    /\ hworker \in [HsCpus -> [pc : {"idle", "consume", "handle", "uncount"}, msg : HeldMessage]]
    /\ stopping \in {"no", "purge", "zero"} /\ stops \in Nat

HqInv == Sizes /\ HqTypeOK /\ HandshakeLengthDrift

\* Softirqs that queued a message and did not count it, and workers that took
\* one out and did not count it out.
Uncounted == {c \in Softirqs : softirq[c].pc = "count"}
Holding(pc) == pc \in {"handle", "uncount"}
InHand    == {c \in HsCpus : Holding(hworker[c].pc)}

(* The two parts of Drift are sizes of sets of CPUs.                        *)
LEMMA DriftParts ==
  ASSUME Sizes
  PROVE  /\ IsFiniteSet(Uncounted) /\ IsFiniteSet(InHand)
         /\ Counting = Cardinality(Uncounted) /\ Handling = Cardinality(InHand)
         /\ Counting \in Nat /\ Counting <= Cardinality(Softirqs)
         /\ Handling \in Nat /\ Handling <= Cardinality(HsCpus)
         /\ Cardinality(Softirqs) \in Nat /\ Cardinality(HsCpus) \in Nat
<1>1. Uncounted \subseteq Softirqs /\ InHand \subseteq HsCpus
  BY DEF Uncounted, InHand
<1>2. /\ IsFiniteSet(Uncounted) /\ Cardinality(Uncounted) <= Cardinality(Softirqs)
      /\ IsFiniteSet(InHand) /\ Cardinality(InHand) <= Cardinality(HsCpus)
  BY <1>1, FS_Subset DEF Sizes
<1>3. /\ Cardinality(Uncounted) \in Nat /\ Cardinality(InHand) \in Nat
      /\ Cardinality(Softirqs) \in Nat /\ Cardinality(HsCpus) \in Nat
  BY <1>2, FS_CardinalityType DEF Sizes
<1> QED BY <1>2, <1>3 DEF Counting, Handling, Uncounted, InHand, Holding

(* A softirq's move to the program counter pc, and what it does to the      *)
(* number of uncounted messages.                                            *)
LEMMA SoftirqMoves ==
  ASSUME Sizes, HqTypeOK, NEW c \in Softirqs, NEW st,
         softirq' = [softirq EXCEPT ![c] = st]
  PROVE  /\ Counting \in Nat
         /\ softirq[c].pc # "count" /\ st.pc # "count" => Counting' = Counting
         /\ softirq[c].pc # "count" /\ st.pc = "count" => Counting' = Counting + 1
         /\ softirq[c].pc = "count" /\ st.pc # "count" => Counting' = Counting - 1
<1>1. \A d \in Softirqs : softirq'[d] = IF d = c THEN st ELSE softirq[d]
  BY DEF HqTypeOK
<1>2. /\ IsFiniteSet(Uncounted) /\ Counting = Cardinality(Uncounted) /\ Counting \in Nat
      /\ Counting' = Cardinality(Uncounted')
  BY DriftParts DEF Counting, Uncounted
<1>3. CASE softirq[c].pc # "count" /\ st.pc # "count"
  <2>1. Uncounted' = Uncounted
    BY <1>1, <1>3 DEF Uncounted
  <2> QED BY <1>2, <1>3, <2>1
<1>4. CASE softirq[c].pc # "count" /\ st.pc = "count"
  <2>1. Uncounted' = Uncounted \cup {c} /\ c \notin Uncounted
    BY <1>1, <1>4 DEF Uncounted
  <2> QED BY <1>2, <1>4, <2>1, FS_AddElement
<1>5. CASE softirq[c].pc = "count" /\ st.pc # "count"
  <2>1. Uncounted' = Uncounted \ {c} /\ c \in Uncounted
    BY <1>1, <1>5 DEF Uncounted
  <2> QED BY <1>2, <1>5, <2>1, FS_RemoveElement
<1> QED BY <1>2, <1>3, <1>4, <1>5

(* The same for a worker's move and the messages in the workers' hands.     *)
LEMMA WorkerMoves ==
  ASSUME Sizes, HqTypeOK, NEW c \in HsCpus, NEW st,
         hworker' = [hworker EXCEPT ![c] = st]
  PROVE  /\ Handling \in Nat
         /\ (Holding(hworker[c].pc) <=> Holding(st.pc)) => Handling' = Handling
         /\ ~ Holding(hworker[c].pc) /\ Holding(st.pc) => Handling' = Handling + 1
         /\ Holding(hworker[c].pc) /\ ~ Holding(st.pc) => Handling' = Handling - 1
<1>1. \A d \in HsCpus : hworker'[d] = IF d = c THEN st ELSE hworker[d]
  BY DEF HqTypeOK
<1>2. /\ IsFiniteSet(InHand) /\ Handling = Cardinality(InHand) /\ Handling \in Nat
      /\ Handling' = Cardinality(InHand')
  BY DriftParts DEF Handling, InHand, Holding
<1>3. CASE Holding(hworker[c].pc) <=> Holding(st.pc)
  <2>1. InHand' = InHand
    BY <1>1, <1>3 DEF InHand
  <2> QED BY <1>2, <1>3, <2>1
<1>4. CASE ~ Holding(hworker[c].pc) /\ Holding(st.pc)
  <2>1. InHand' = InHand \cup {c} /\ c \notin InHand
    BY <1>1, <1>4 DEF InHand
  <2> QED BY <1>2, <1>4, <2>1, FS_AddElement
<1>5. CASE Holding(hworker[c].pc) /\ ~ Holding(st.pc)
  <2>1. InHand' = InHand \ {c} /\ c \in InHand
    BY <1>1, <1>5 DEF InHand
  <2> QED BY <1>2, <1>5, <2>1, FS_RemoveElement
<1> QED BY <1>2, <1>3, <1>4, <1>5

(* A step that leaves Drift, and what wg_stop goes by, as they are.         *)
LEMMA SameDrift ==
  ASSUME HandshakeLengthDrift, Drift' = Drift, stopping' = stopping, stops' = stops
  PROVE  HandshakeLengthDrift'
  BY DEF HandshakeLengthDrift

(* The steps of wg_packet_receive.                                          *)
LEMMA SoftirqStep ==
  ASSUME HqInv, NEW c \in Softirqs, SoftirqRuns(c)
  PROVE  HqInv'
<1>1. Sizes' /\ Sizes /\ HqTypeOK /\ HandshakeLengthDrift
  BY DEF HqInv, Sizes
<1>t. /\ hring \in Seq(HeldMessage) /\ Len(hring) \in Nat /\ handshake_queue_len \in Int
      /\ Handling \in Nat /\ Counting \in Nat /\ RING_SIZE \in Nat
  BY <1>1, DriftParts DEF HqTypeOK, Sizes
<1>h. UNCHANGED hworker => Handling' = Handling
  BY DEF Handling
<1>n. \A pc : At(pc, Nothing).pc = pc /\ At(pc, Nothing).msg \in HeldMessage
  BY DEF At, HeldMessage
<1>2. CASE wg_packet_receive(c)
  <2>1. PICK m \in Messages, pc \in {"try", "produce"} :
              softirq' = [softirq EXCEPT ![c] = At(pc, m)]
    BY <1>2 DEF wg_packet_receive
  <2>2. HqTypeOK'
    BY <1>1, <1>2, <2>1 DEF wg_packet_receive, HqTypeOK, At, HeldMessage
  <2>m. softirq[c].pc # "count" /\ At(pc, m).pc # "count"
    BY <1>2 DEF At, wg_packet_receive
  <2>3. Counting' = Counting
    BY <1>1, <2>1, <2>m, SoftirqMoves
  <2>4. Drift' = Drift
    BY <1>2, <1>h, <2>3 DEF wg_packet_receive, Drift
  <2> QED BY <1>1, <1>2, <2>2, <2>4, SameDrift DEF HqInv, wg_packet_receive
<1>3. ASSUME Drop(c), softirq[c].pc \in {"try", "produce"},
             UNCHANGED <<handshake_queue_len, hworker, hwork, last_under_load, stopping, stops>>
      PROVE  HqInv'
  <2>1. softirq' = [softirq EXCEPT ![c] = At("idle", Nothing)] /\ UNCHANGED hring
    BY <1>3 DEF Drop
  <2>2. HqTypeOK'
    BY <1>1, <1>3, <2>1 DEF HqTypeOK, At, HeldMessage
  <2>3. Counting' = Counting
    BY <1>1, <1>3, <2>1, <1>n, SoftirqMoves
  <2>4. Drift' = Drift
    BY <1>3, <1>h, <2>1, <2>3 DEF Drift
  <2> QED BY <1>1, <1>3, <2>2, <2>4, SameDrift DEF HqInv
<1>4. CASE trylock_fails(c)
  BY <1>3, <1>4 DEF trylock_fails
<1>5. CASE ptr_ring_produce(c)
  <2>1. CASE Len(hring) = RING_SIZE
    BY <1>3, <1>5, <2>1 DEF ptr_ring_produce
  <2>2. CASE Len(hring) # RING_SIZE
    <3>1. /\ hring' = Append(hring, softirq[c].msg)
          /\ softirq' = [softirq EXCEPT ![c].pc = "count"]
          /\ softirq[c].pc \in {"try", "produce"}
          /\ UNCHANGED <<handshake_queue_len, hworker, stopping, stops>>
      BY <1>5, <2>2 DEF ptr_ring_produce
    <3>2. softirq[c].msg \in HeldMessage
      BY <1>1 DEF HqTypeOK
    <3>3. Len(hring') = Len(hring) + 1 /\ hring' \in Seq(HeldMessage)
      BY <1>t, <3>1, <3>2
    <3>4. HqTypeOK'
      BY <1>1, <1>t, <2>2, <3>1, <3>3 DEF HqTypeOK
    <3>5. softirq' = [softirq EXCEPT ![c] = [softirq[c] EXCEPT !.pc = "count"]]
      BY <3>1
    <3>6. [softirq[c] EXCEPT !.pc = "count"].pc = "count"
      BY <1>1 DEF HqTypeOK
    <3>7. Counting' = Counting + 1
      BY <1>1, <3>1, <3>5, <3>6, SoftirqMoves
    <3>8. Drift' = Drift
      BY <1>h, <1>t, <3>1, <3>3, <3>7 DEF Drift
    <3> QED BY <1>1, <3>1, <3>4, <3>8, SameDrift DEF HqInv
  <2> QED BY <2>1, <2>2
<1>6. CASE atomic_inc(c)
  <2>1. /\ handshake_queue_len' = handshake_queue_len + 1
        /\ softirq' = [softirq EXCEPT ![c].pc = "work"] /\ softirq[c].pc = "count"
        /\ UNCHANGED <<hring, hworker, stopping, stops>>
    BY <1>6 DEF atomic_inc
  <2>2. HqTypeOK'
    BY <1>1, <2>1 DEF HqTypeOK
  <2>3. softirq' = [softirq EXCEPT ![c] = [softirq[c] EXCEPT !.pc = "work"]]
    BY <2>1
  <2>4. [softirq[c] EXCEPT !.pc = "work"].pc = "work"
    BY <1>1 DEF HqTypeOK
  <2>5. Counting' = Counting - 1
    BY <1>1, <2>1, <2>3, <2>4, SoftirqMoves
  <2>6. Drift' = Drift
    BY <1>h, <1>t, <2>1, <2>5 DEF Drift
  <2> QED BY <1>1, <2>1, <2>2, <2>6, SameDrift DEF HqInv
<1>7. CASE queue_work_on(c)
  <2>1. /\ softirq' = [softirq EXCEPT ![c] = At("idle", Nothing)] /\ softirq[c].pc = "work"
        /\ UNCHANGED <<hring, handshake_queue_len, hworker, stopping, stops>>
    BY <1>7 DEF queue_work_on
  <2>2. HqTypeOK'
    BY <1>1, <2>1 DEF HqTypeOK, At, HeldMessage
  <2>3. Counting' = Counting
    BY <1>1, <1>n, <2>1, SoftirqMoves
  <2>4. Drift' = Drift
    BY <1>h, <2>1, <2>3 DEF Drift
  <2> QED BY <1>1, <2>1, <2>2, <2>4, SameDrift DEF HqInv
<1> QED BY <1>2, <1>4, <1>5, <1>6, <1>7 DEF SoftirqRuns

(* The steps of wg_packet_handshake_receive_worker.                         *)
LEMMA WorkerStep ==
  ASSUME HqInv, NEW c \in HsCpus, WorkerRuns(c)
  PROVE  HqInv'
<1>1. Sizes' /\ Sizes /\ HqTypeOK /\ HandshakeLengthDrift
  BY DEF HqInv, Sizes
<1>t. /\ hring \in Seq(HeldMessage) /\ Len(hring) \in Nat /\ handshake_queue_len \in Int
      /\ Handling \in Nat /\ Counting \in Nat /\ RING_SIZE \in Nat
  BY <1>1, DriftParts DEF HqTypeOK, Sizes
<1>s. UNCHANGED softirq => Counting' = Counting
  BY DEF Counting
<1>pc. \A p : [hworker[c] EXCEPT !.pc = p].pc = p
  BY <1>1 DEF HqTypeOK
<1>2. CASE worker_start(c)
  <2>1. /\ hworker' = [hworker EXCEPT ![c].pc = "consume"] /\ hworker[c].pc = "idle"
        /\ UNCHANGED <<hring, handshake_queue_len, softirq, stopping, stops>>
    BY <1>2 DEF worker_start
  <2>2. HqTypeOK'
    BY <1>1, <2>1 DEF HqTypeOK
  <2>3. hworker' = [hworker EXCEPT ![c] = [hworker[c] EXCEPT !.pc = "consume"]]
    BY <2>1
  <2>m. ~ Holding(hworker[c].pc) /\ ~ Holding([hworker[c] EXCEPT !.pc = "consume"].pc)
    BY <1>pc, <2>1 DEF Holding
  <2>4. Handling' = Handling
    BY <1>1, <2>3, <2>m, WorkerMoves
  <2>5. Drift' = Drift
    BY <1>s, <2>1, <2>4 DEF Drift
  <2> QED BY <1>1, <2>1, <2>2, <2>5, SameDrift DEF HqInv
<1>3. CASE ptr_ring_consume(c) /\ hring = <<>>
  <2>1. /\ hworker' = [hworker EXCEPT ![c].pc = "idle"] /\ hworker[c].pc = "consume"
        /\ UNCHANGED <<hring, handshake_queue_len, softirq, stopping, stops>>
    BY <1>3 DEF ptr_ring_consume
  <2>2. HqTypeOK'
    BY <1>1, <2>1 DEF HqTypeOK
  <2>3. hworker' = [hworker EXCEPT ![c] = [hworker[c] EXCEPT !.pc = "idle"]]
    BY <2>1
  <2>m. ~ Holding(hworker[c].pc) /\ ~ Holding([hworker[c] EXCEPT !.pc = "idle"].pc)
    BY <1>pc, <2>1 DEF Holding
  <2>4. Handling' = Handling
    BY <1>1, <2>3, <2>m, WorkerMoves
  <2>5. Drift' = Drift
    BY <1>s, <2>1, <2>4 DEF Drift
  <2> QED BY <1>1, <2>1, <2>2, <2>5, SameDrift DEF HqInv
<1>4. CASE ptr_ring_consume(c) /\ hring # <<>>
  <2>1. /\ hworker' = [hworker EXCEPT ![c] = At("handle", Head(hring))]
        /\ hworker[c].pc = "consume" /\ hring' = Tail(hring)
        /\ UNCHANGED <<handshake_queue_len, softirq, stopping, stops>>
    BY <1>4 DEF ptr_ring_consume
  <2>2. /\ Head(hring) \in HeldMessage /\ Tail(hring) \in Seq(HeldMessage)
        /\ Len(Tail(hring)) = Len(hring) - 1
    BY <1>4, <1>t
  <2>3. HqTypeOK'
    BY <1>1, <1>t, <2>1, <2>2 DEF HqTypeOK, At
  <2>m. ~ Holding(hworker[c].pc) /\ Holding(At("handle", Head(hring)).pc)
    BY <2>1 DEF At, Holding
  <2>4. Handling' = Handling + 1
    BY <1>1, <2>1, <2>m, WorkerMoves
  <2>5. Drift' = Drift
    BY <1>s, <1>t, <2>1, <2>2, <2>4 DEF Drift
  <2> QED BY <1>1, <2>1, <2>3, <2>5, SameDrift DEF HqInv
<1>5. CASE cookie_message(c) \/ wg_receive_handshake_packet(c)
  <2>1. /\ hworker' = [hworker EXCEPT ![c] = At("uncount", Nothing)] /\ hworker[c].pc = "handle"
        /\ UNCHANGED <<hring, handshake_queue_len, softirq, stopping, stops>>
    BY <1>5 DEF cookie_message, wg_receive_handshake_packet
  <2>2. HqTypeOK'
    BY <1>1, <2>1 DEF HqTypeOK, At, HeldMessage
  <2>m. Holding(hworker[c].pc) /\ Holding(At("uncount", Nothing).pc)
    BY <2>1 DEF At, Holding
  <2>3. Handling' = Handling
    BY <1>1, <2>1, <2>m, WorkerMoves
  <2>4. Drift' = Drift
    BY <1>s, <2>1, <2>3 DEF Drift
  <2> QED BY <1>1, <2>1, <2>2, <2>4, SameDrift DEF HqInv
<1>6. CASE atomic_dec(c)
  <2>1. /\ hworker' = [hworker EXCEPT ![c].pc = "consume"] /\ hworker[c].pc = "uncount"
        /\ handshake_queue_len' = handshake_queue_len - 1
        /\ UNCHANGED <<hring, softirq, stopping, stops>>
    BY <1>6 DEF atomic_dec
  <2>2. HqTypeOK'
    BY <1>1, <2>1 DEF HqTypeOK
  <2>3. hworker' = [hworker EXCEPT ![c] = [hworker[c] EXCEPT !.pc = "consume"]]
    BY <2>1
  <2>m. Holding(hworker[c].pc) /\ ~ Holding([hworker[c] EXCEPT !.pc = "consume"].pc)
    BY <1>pc, <2>1 DEF Holding
  <2>4. Handling' = Handling - 1
    BY <1>1, <2>3, <2>m, WorkerMoves
  <2>5. Drift' = Drift
    BY <1>s, <1>t, <2>1, <2>4 DEF Drift
  <2> QED BY <1>1, <2>1, <2>2, <2>5, SameDrift DEF HqInv
<1> QED BY <1>2, <1>3, <1>4, <1>5, <1>6 DEF WorkerRuns

(* wg_stop empties the ring, a message at a time, and then sets the length  *)
(* to zero whatever softirqs and workers are about to add and take off.     *)
LEMMA StopStep ==
  ASSUME HqInv, stop_purge \/ stop_zero \/ SecondPasses
  PROVE  HqInv'
<1>1. Sizes' /\ Sizes /\ HqTypeOK /\ HandshakeLengthDrift
  BY DEF HqInv, Sizes
<1>2. CASE stop_purge
  <2>1. /\ hring' = hring \/ (hring # <<>> /\ hring' = Tail(hring))
        /\ stopping' \in {"purge", "zero"} /\ stops' = stops
        /\ UNCHANGED <<handshake_queue_len, softirq, hworker>>
    BY <1>2 DEF stop_purge
  <2>t. hring' \in Seq(HeldMessage) /\ Len(hring') <= RING_SIZE
    <3>1. hring \in Seq(HeldMessage) /\ Len(hring) <= RING_SIZE /\ RING_SIZE \in Nat
      BY <1>1 DEF HqTypeOK, Sizes
    <3>2. hring # <<>> => /\ Tail(hring) \in Seq(HeldMessage)
                          /\ Len(Tail(hring)) = Len(hring) - 1
      BY <3>1
    <3>3. Len(hring) \in Nat
      BY <3>1
    <3> QED BY <2>1, <3>1, <3>2, <3>3
  <2>2. HqTypeOK'
    BY <1>1, <2>1, <2>t DEF HqTypeOK
  <2>3. HandshakeLengthDrift'
    BY <2>1 DEF HandshakeLengthDrift
  <2> QED BY <1>1, <2>2, <2>3 DEF HqInv
<1>3. CASE stop_zero
  <2>1. handshake_queue_len' = 0 /\ stopping' = "no" /\ stops' = stops + 1
        /\ UNCHANGED <<hring, softirq, hworker>>
    BY <1>3 DEF stop_zero
  <2>2. HqTypeOK'
    BY <1>1, <2>1 DEF HqTypeOK
  <2>3. /\ Counting' = Counting /\ Handling' = Handling
        /\ Len(hring) \in Nat /\ Len(hring) <= RING_SIZE /\ stops \in Nat
    BY <1>1, <2>1 DEF Counting, Handling, HqTypeOK
  <2>4. Drift' = 0 + Counting - Len(hring) - Handling
    BY <2>1, <2>3 DEF Drift
  <2>5. HandshakeLengthDrift'
    BY <1>1, <2>1, <2>3, <2>4, DriftParts DEF HandshakeLengthDrift, Sizes
  <2> QED BY <1>1, <2>2, <2>5 DEF HqInv
<1>4. CASE SecondPasses
  <2>1. UNCHANGED <<hring, handshake_queue_len, softirq, hworker, stopping, stops>>
    BY <1>4 DEF SecondPasses
  <2>2. HqTypeOK' /\ Drift' = Drift
    BY <1>1, <2>1 DEF HqTypeOK, Drift, Counting, Handling
  <2> QED BY <1>1, <2>1, <2>2, SameDrift DEF HqInv
<1> QED BY <1>2, <1>3, <1>4

(* With an empty ring and everyone idle there is nothing to count.          *)
LEMMA HqInit == Sizes /\ HsInit => HqInv
<1> SUFFICES ASSUME Sizes, HsInit PROVE HqInv
  OBVIOUS
<1>1. HqTypeOK
  BY DEF HsInit, HqTypeOK, At, HeldMessage, Sizes
<1>2. Uncounted = {} /\ InHand = {}
  BY DEF HsInit, Uncounted, InHand, Holding, At
<1>3. Counting = 0 /\ Handling = 0
  BY <1>2, DriftParts, FS_EmptySet
<1>4. hring = <<>> /\ handshake_queue_len = 0
  BY DEF HsInit
<1>5. handshake_queue_len = 0 /\ Len(hring) = 0
  BY <1>4
<1>6. Drift = 0
  BY <1>3, <1>5 DEF Drift
<1>7. HandshakeLengthDrift
  BY <1>6, DriftParts DEF HandshakeLengthDrift, Sizes
<1> QED BY <1>1, <1>7 DEF HqInv

(* The drift of handshake_queue_len stays within the CPUs at work and the   *)
(* size of the ring, however often the interface is taken down, and is zero *)
(* until it is.                                                             *)
THEOREM LengthDriftBounded == Sizes => (HsSpec => []HandshakeLengthDrift)
<1>1. Sizes /\ HsInit => HqInv
  BY HqInit
<1>2. HqInv /\ [HsNext]_hq_vars => HqInv'
  <2> SUFFICES ASSUME HqInv, [HsNext]_hq_vars PROVE HqInv'
    OBVIOUS
  <2>1. CASE UNCHANGED hq_vars
    BY <2>1 DEF hq_vars, HqInv, Sizes, HqTypeOK, HandshakeLengthDrift, Drift, Counting, Handling
  <2>2. CASE HsNext
    BY <2>2, SoftirqStep, WorkerStep, StopStep DEF HsNext
  <2> QED BY <2>1, <2>2
<1>3. HqInv => HandshakeLengthDrift
  BY DEF HqInv
<1> QED BY <1>1, <1>2, <1>3, PTL DEF HsSpec

==============================================================================
