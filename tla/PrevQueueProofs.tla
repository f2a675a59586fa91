--------------------------- MODULE PrevQueueProofs --------------------------
(***************************************************************************)
(* Theorems about PrevQueue, for any packets, any finite set of producers  *)
(* and any capacity: its types, the exact count, what a NULL answer means, *)
(* and that the pointer code implements the queue of PrevQueueSpec.        *)
(***************************************************************************)
EXTENDS PrevQueue, FiniteSetTheorems, TLAPS

-----------------------------------------------------------------------------
(* The inductive invariant says where the links go.  The list runs from     *)
(* queue->tail to queue->head through the packets of fifo, in order, with   *)
(* STUB behind the first k of them, or with STUB out of the list (k = -1).  *)
(* A link is NULL exactly while the actor that will write it is between its *)
(* xchg and its store.                                                      *)

InFifo(s) == \E i \in DOMAIN fifo : fifo[i] = s

\* The element in front of packet i, if there is one.
Pred(k, i) == IF i = k + 1 THEN STUB ELSE fifo[i - 1]
HasPred(k, i) == i > 1 \/ k = 0

Distinct == \A i, j \in DOMAIN fifo : fifo[i] = fifo[j] => i = j

\* A packet already decided but not returned still stands before STUB.
Ends(k) ==
    /\ k = -1 => Len(fifo) > 0
    /\ TakenUnreturned => k = 0 /\ ~ InFifo(tail)
    /\ qtail = IF TakenUnreturned THEN tail
               ELSE IF k = 0 THEN STUB ELSE fifo[1]
    /\ qhead = IF k = Len(fifo) THEN STUB ELSE fifo[Len(fifo)]
    /\ NEXT[qhead] = NULL

\* The links to packets, and who will write the missing ones.
PacketLinks(k) ==
    \A i \in DOMAIN fifo : HasPred(k, i) =>
        NEXT[Pred(k, i)] = IF fifo[i] \in linking THEN NULL ELSE fifo[i]

Linkers(k) ==
    \A a \in Producers : ppc[a] = "link" =>
        \E i \in DOMAIN fifo : /\ fifo[i] = pskb[a]
                               /\ HasPred(k, i)
                               /\ old[a] = Pred(k, i)

\* The link to STUB.
StubPred(k) == IF TakenUnreturned THEN tail ELSE fifo[k]

StubLink(k) ==
    /\ TakenUnreturned \/ k > 0 =>
         NEXT[StubPred(k)] = IF cpc = "stub_link" THEN NULL ELSE STUB
    /\ cpc = "stub_link" => /\ TakenUnreturned \/ k > 0
                            /\ stub_old = StubPred(k)

\* A packet on its way in belongs to one producer and is nowhere else.
Owners ==
    /\ \A a \in Producers : ppc[a] = "idle" <=> pskb[a] = NULL
    /\ \A a, b \in Producers : pskb[a] = pskb[b] /\ pskb[a] # NULL => a = b
    /\ \A a \in Producers : ppc[a] \in {"clear", "xchg"} =>
         ~ InFifo(pskb[a]) /\ (TakenUnreturned => pskb[a] # tail)
    /\ \A a \in Producers : ppc[a] = "xchg" => NEXT[pskb[a]] = NULL

ConsumerAt(k) ==
    /\ cpc = "idle" => tail = NULL /\ stub_old = NULL
    /\ cpc # "idle" => tail = qtail /\ tail \in Skbs
    /\ cpc \in {"stub_clear", "stub_xchg"} => k = -1
    /\ cpc = "reload" => k # -1
    /\ cpc = "stub_xchg" => NEXT[STUB] = NULL
    /\ cpc = "compare" /\ ~ gap => k = -1 /\ Len(fifo) = 1

Shape(k) == /\ Ends(k) /\ PacketLinks(k) /\ Linkers(k) /\ StubLink(k)
            /\ ConsumerAt(k)

ListInv == Distinct /\ Owners /\ \E k \in -1 .. Len(fifo) : Shape(k)

QueueInv == TypeOK /\ CountExact /\ ListInv

(* The initial queue is empty, with STUB alone in the list.                 *)
LEMMA InitInv == Init => QueueInv
<1> SUFFICES ASSUME Init PROVE QueueInv
  OBVIOUS
<1>1. TypeOK
  <2>1. fifo \in Seq(Skbs)
    BY DEF Init
  <2>2. count \in 0 .. MAX_QUEUED_PACKETS
    BY QueueAssumption DEF Init
  <2>3. gap \in BOOLEAN
    BY DEF Init
  <2> QED BY <2>1, <2>2, <2>3 DEF Init, TypeOK, Elems
<1>2. CountExact
  <2>1. {a \in Producers : ppc[a] \in {"clear", "xchg"}} = {}
    BY DEF Init
  <2>2. Cardinality({a \in Producers : ppc[a] \in {"clear", "xchg"}}) = 0
    BY <2>1, FS_EmptySet
  <2>3. ~ TakenUnreturned /\ Len(fifo) = 0 /\ count = 0
    BY DEF Init, TakenUnreturned
  <2> QED BY <2>2, <2>3 DEF CountExact
<1>3. Distinct /\ Owners
  BY DEF Init, Distinct, Owners
<1>4. Shape(0)
  BY DEF Init, Shape, Ends, PacketLinks, Linkers, StubLink, ConsumerAt,
         TakenUnreturned, Elems
<1>5. 0 \in -1 .. Len(fifo)
  BY DEF Init
<1> QED BY <1>1, <1>2, <1>3, <1>4, <1>5 DEF QueueInv, ListInv

-----------------------------------------------------------------------------
(* Producers.                                                               *)

(* What each step of a producer does to the set of unlinked packets.        *)
LEMMA LinkingSteps ==
  ASSUME TypeOK, Owners, NEW a \in Producers
  PROVE  /\ \A s \in Skbs : enqueue_count(a, s) => linking' = linking
         /\ enqueue_clear(a) => linking' = linking
         /\ enqueue_xchg(a) => linking' = linking \cup {pskb[a]}
         /\ enqueue_link(a) => /\ pskb[a] \in linking
                               /\ linking' = linking \ {pskb[a]}
<1>1. ASSUME NEW s \in Skbs, enqueue_count(a, s) PROVE linking' = linking
  BY <1>1 DEF TypeOK, enqueue_count, linking
<1>2. ASSUME enqueue_clear(a) PROVE linking' = linking
  BY <1>2 DEF TypeOK, enqueue_clear, linking
<1>3. ASSUME enqueue_xchg(a) PROVE linking' = linking \cup {pskb[a]}
  BY <1>3 DEF TypeOK, enqueue_xchg, linking
<1>4. ASSUME enqueue_link(a)
      PROVE  pskb[a] \in linking /\ linking' = linking \ {pskb[a]}
  BY <1>4 DEF TypeOK, Owners, enqueue_link, linking
<1> QED BY <1>1, <1>2, <1>3, <1>4

(* A packet waiting for its link is in the queue, behind its predecessor.   *)
LEMMA LinkingQueued ==
  ASSUME TypeOK, NEW k \in -1 .. Len(fifo), Linkers(k), NEW s \in linking
  PROVE  \E i \in DOMAIN fifo : fifo[i] = s /\ HasPred(k, i)
BY DEF TypeOK, Linkers, linking

(* Taking a fresh packet leaves the list alone.                             *)
LEMMA CountStep ==
  ASSUME QueueInv, NEW a \in Producers, NEW s \in Skbs, enqueue_count(a, s),
         TrackGap
  PROVE  ListInv'
<1>1. PICK k \in -1 .. Len(fifo) : Shape(k)
  BY DEF QueueInv, ListInv
<1>2. linking' = linking
  BY LinkingSteps DEF QueueInv, ListInv
<1>3. Distinct'
  BY DEF QueueInv, ListInv, Distinct, enqueue_count
<1>4. Owners'
  BY QueueAssumption
  DEF QueueInv, ListInv, Owners, enqueue_count, Fresh, TypeOK, InFifo,
      TakenUnreturned, consumerVars
<1>5. Ends(k)'
  BY <1>1 DEF Shape, Ends, InFifo, enqueue_count, TakenUnreturned, consumerVars
<1>6. PacketLinks(k)' /\ StubLink(k)'
  BY <1>1, <1>2 DEF Shape, PacketLinks, StubLink, StubPred, HasPred, Pred,
     enqueue_count, TakenUnreturned, consumerVars
<1>7. Linkers(k)'
  BY <1>1 DEF QueueInv, TypeOK, Shape, Linkers, HasPred, Pred, enqueue_count
<1>8. ConsumerAt(k)'
  BY <1>1 DEF Shape, ConsumerAt, enqueue_count, consumerVars, TrackGap
<1> QED BY <1>1, <1>3, <1>4, <1>5, <1>6, <1>7, <1>8
        DEF ListInv, Shape, enqueue_count

(* Clearing the link of a packet that is not in the list changes no link    *)
(* of the list.                                                             *)
LEMMA ClearStep ==
  ASSUME QueueInv, NEW a \in Producers, enqueue_clear(a), TrackGap
  PROVE  ListInv'
<1>1. PICK k \in -1 .. Len(fifo) : Shape(k)
  BY DEF QueueInv, ListInv
<1>2. linking' = linking
  BY LinkingSteps DEF QueueInv, ListInv
<1>3. /\ pskb[a] \in Skbs /\ ~ InFifo(pskb[a])
      /\ TakenUnreturned => pskb[a] # tail
  BY QueueAssumption DEF QueueInv, ListInv, Owners, TypeOK, enqueue_clear
<1>4. \A e \in Elems : e # pskb[a] => NEXT'[e] = NEXT[e]
  BY DEF QueueInv, TypeOK, enqueue_clear
<1>5. Distinct'
  BY DEF QueueInv, ListInv, Distinct, enqueue_clear
<1>6. Owners'
  BY <1>3, QueueAssumption
  DEF QueueInv, ListInv, Owners, enqueue_clear, TypeOK, InFifo,
      TakenUnreturned, consumerVars, Elems
<1>7. Ends(k)'
  <2>1. qhead # pskb[a]
    BY <1>1, <1>3, QueueAssumption DEF QueueInv, TypeOK, Shape, Ends, InFifo
  <2> QED BY <1>1, <1>4, <2>1
          DEF QueueInv, TypeOK, Shape, Ends, InFifo, enqueue_clear,
              TakenUnreturned, consumerVars
<1>8. PacketLinks(k)'
  <2>1. \A i \in DOMAIN fifo : HasPred(k, i) =>
           Pred(k, i) \in Elems /\ Pred(k, i) # pskb[a]
    BY <1>1, <1>3, QueueAssumption
    DEF QueueInv, TypeOK, HasPred, Pred, InFifo, Elems
  <2> QED BY <1>1, <1>2, <1>4, <2>1
          DEF Shape, PacketLinks, HasPred, Pred, enqueue_clear
<1>9. StubLink(k)'
  <2>1. TakenUnreturned \/ k > 0 =>
           StubPred(k) \in Elems /\ StubPred(k) # pskb[a]
    BY <1>1, <1>3
    DEF QueueInv, TypeOK, Shape, StubPred, InFifo, Elems, ConsumerAt,
        TakenUnreturned
  <2> QED BY <1>1, <1>4, <2>1
          DEF Shape, StubLink, StubPred, enqueue_clear, TakenUnreturned,
              consumerVars
<1>10. Linkers(k)'
  BY <1>1 DEF QueueInv, TypeOK, Shape, Linkers, HasPred, Pred, enqueue_clear
<1>11. ConsumerAt(k)'
  <2>1. STUB # pskb[a] /\ STUB \in Elems
    BY <1>3, QueueAssumption DEF Elems
  <2> QED BY <1>1, <1>4, <2>1
          DEF Shape, ConsumerAt, enqueue_clear, consumerVars, TrackGap
<1> QED BY <1>1, <1>5, <1>6, <1>7, <1>8, <1>9, <1>10, <1>11
        DEF ListInv, Shape, enqueue_clear

(* The xchg puts the packet behind the last element, its link still to      *)
(* come: a NULL link until the producer's store.                            *)
LEMMA XchgStep ==
  ASSUME QueueInv, NEW a \in Producers, enqueue_xchg(a), TrackGap
  PROVE  ListInv'
<1>1. PICK k \in -1 .. Len(fifo) : Shape(k)
  BY DEF QueueInv, ListInv
<1>n. PICK n \in Nat : n = Len(fifo)
  BY DEF QueueInv, TypeOK
<1> DEFINE s == pskb[a]
<1>2. linking' = linking \cup {s}
  BY LinkingSteps DEF QueueInv, ListInv
<1>3. /\ s \in Skbs /\ ~ InFifo(s) /\ NEXT[s] = NULL
      /\ TakenUnreturned => s # tail
  BY QueueAssumption DEF QueueInv, ListInv, Owners, TypeOK, enqueue_xchg
<1>4. /\ fifo \in Seq(Skbs) /\ fifo' \in Seq(Skbs) /\ n \in Nat
      /\ Len(fifo') = n + 1 /\ fifo'[n + 1] = s
      /\ \A i \in 1 .. n : fifo'[i] = fifo[i]
      /\ DOMAIN fifo = 1 .. n /\ DOMAIN fifo' = 1 .. n + 1
  BY <1>3, <1>n DEF QueueInv, TypeOK, enqueue_xchg
<1>15. HasPred(k, n + 1) /\ \A i : i = n + 1 => Pred(k, i)' = qhead
  <2>1. CASE k = n
    BY <1>1, <1>n, <2>1 DEF Shape, Ends, Pred, HasPred
  <2>2. CASE k # n
    <3>1. n > 0
      BY <1>1, <1>n, <2>2 DEF Shape, Ends
    <3>2. qhead = fifo[n]
      BY <1>1, <1>n, <2>2 DEF Shape, Ends
    <3>3. fifo'[n] = fifo[n]
      BY <1>4, <3>1
    <3> QED BY <2>2, <3>1, <3>2, <3>3 DEF Pred, HasPred
  <2> QED BY <2>1, <2>2
<1>5. s \notin linking
  BY <1>1, <1>3, LinkingQueued DEF QueueInv, Shape, InFifo
<1>6. Distinct'
  BY <1>3, <1>4 DEF QueueInv, ListInv, Distinct, InFifo
<1>7. TakenUnreturned' = TakenUnreturned
  BY DEF TakenUnreturned, enqueue_xchg, consumerVars
<1>8. Owners'
  BY <1>3, <1>4, <1>7
  DEF QueueInv, ListInv, Owners, enqueue_xchg, TypeOK, InFifo, consumerVars
<1>9. Ends(k)'
  BY <1>1, <1>3, <1>4, <1>7, <1>n
  DEF Shape, Ends, InFifo, enqueue_xchg, consumerVars
<1>10. PacketLinks(k)'
  <2> SUFFICES ASSUME NEW i \in 1 .. n + 1, HasPred(k, i)
      PROVE (NEXT[Pred(k, i)] = IF fifo[i] \in linking THEN NULL ELSE fifo[i])'
    BY <1>4 DEF PacketLinks, HasPred
  <2>1. CASE i = n + 1
    <3>1. Pred(k, i)' = qhead
      BY <1>15, <2>1
    <3> QED BY <1>1, <1>2, <1>4, <2>1, <3>1 DEF Shape, Ends, enqueue_xchg
  <2>2. CASE i \in 1 .. n
    <3>1. Pred(k, i)' = Pred(k, i)
      BY <1>4, <2>2 DEF Pred, HasPred
    <3>2. fifo'[i] = fifo[i] /\ fifo[i] # s
      BY <1>3, <1>4, <2>2 DEF InFifo
    <3> QED BY <1>1, <1>2, <1>4, <2>2, <3>1, <3>2
            DEF Shape, PacketLinks, enqueue_xchg
  <2> QED BY <2>1, <2>2, <1>4
<1>11. Linkers(k)'
  <2> SUFFICES ASSUME NEW b \in Producers, ppc'[b] = "link"
      PROVE \E i \in 1 .. n + 1 : /\ fifo'[i] = pskb'[b]
                                  /\ HasPred(k, i)
                                  /\ old'[b] = Pred(k, i)'
    BY <1>4 DEF Linkers, HasPred
  <2>1. CASE b = a
    <3>1. HasPred(k, n + 1) /\ Pred(k, n + 1)' = qhead
      BY <1>15
    <3>2. fifo'[n + 1] = pskb'[a] /\ old'[a] = qhead
      BY <1>4 DEF QueueInv, TypeOK, enqueue_xchg
    <3> QED BY <1>4, <2>1, <3>1, <3>2
  <2>2. CASE b # a
    <3>1. ppc[b] = "link" /\ pskb'[b] = pskb[b] /\ old'[b] = old[b]
      BY <2>2 DEF QueueInv, TypeOK, enqueue_xchg
    <3>2. PICK i \in 1 .. n : fifo[i] = pskb[b] /\ HasPred(k, i) /\ old[b] = Pred(k, i)
      BY <1>1, <1>4, <3>1 DEF Shape, Linkers
    <3>3. Pred(k, i)' = Pred(k, i)
      BY <1>4, <3>2 DEF Pred, HasPred
    <3> QED BY <1>4, <3>1, <3>2, <3>3
  <2> QED BY <2>1, <2>2
<1>12. StubLink(k)'
  <2>1. k > 0 => fifo'[k] = fifo[k]
    BY <1>1, <1>4, <1>n
  <2> QED BY <1>1, <1>7, <2>1
          DEF Shape, StubLink, StubPred, enqueue_xchg, consumerVars
<1>13. ConsumerAt(k)'
  <2>1. cpc = "compare" /\ ~ gap => Gap'
    BY <1>1, <1>2, <1>4, <1>n DEF Shape, ConsumerAt, Gap
  <2> QED BY <1>1, <2>1
          DEF Shape, ConsumerAt, enqueue_xchg, consumerVars, TrackGap
<1>14. k \in -1 .. Len(fifo')
  BY <1>4, <1>n
<1> QED BY <1>6, <1>8, <1>9, <1>10, <1>11, <1>12, <1>13, <1>14
        DEF ListInv, Shape

(* Two packets have different predecessors, and none of these is the last   *)
(* element of the list or STUB's own predecessor.                           *)
LEMMA PredFacts ==
  ASSUME QueueInv, NEW k \in -1 .. Len(fifo), Shape(k), NEW i \in DOMAIN fifo,
         HasPred(k, i)
  PROVE  /\ Pred(k, i) \in Elems
         /\ Pred(k, i) # qhead
         /\ TakenUnreturned \/ k > 0 => Pred(k, i) # StubPred(k)
         /\ \A j \in DOMAIN fifo : HasPred(k, j) /\ Pred(k, i) = Pred(k, j) => i = j
         /\ \A b \in Producers : ppc[b] = "xchg" => Pred(k, i) # pskb[b]
         /\ k = -1 => Pred(k, i) # STUB
<1>1. fifo \in Seq(Skbs) /\ i \in 1 .. Len(fifo) /\ DOMAIN fifo = 1 .. Len(fifo)
  BY DEF QueueInv, TypeOK
<1>2. i # k + 1 => Pred(k, i) = fifo[i - 1] /\ i - 1 \in DOMAIN fifo /\ fifo[i - 1] \in Skbs
  BY <1>1 DEF Pred, HasPred
<1>3. i = k + 1 => Pred(k, i) = STUB
  BY DEF Pred
<1>4. Pred(k, i) \in Elems
  BY <1>2, <1>3 DEF Elems
<1>5. Pred(k, i) # qhead
  <2>1. CASE k = Len(fifo)
    BY <1>1, <1>2, <2>1, QueueAssumption DEF Shape, Ends
  <2>2. CASE k # Len(fifo)
    <3>1. qhead = fifo[Len(fifo)] /\ Len(fifo) \in DOMAIN fifo
      <4>1. qhead = fifo[Len(fifo)]
        BY <2>2 DEF Shape, Ends
      <4>2. Len(fifo) \in Nat
        BY <1>1
      <4> QED BY <1>1, <4>1, <4>2
    <3>2. i # k + 1 => i - 1 # Len(fifo)
      BY <1>1
    <3> QED BY <1>1, <1>2, <1>3, <3>1, <3>2, QueueAssumption
            DEF QueueInv, ListInv, Distinct
  <2> QED BY <2>1, <2>2
<1>6. TakenUnreturned \/ k > 0 => Pred(k, i) # StubPred(k)
  <2>1. CASE TakenUnreturned
    BY <1>2, <1>3, <2>1, QueueAssumption
    DEF Shape, Ends, ConsumerAt, StubPred, TakenUnreturned, InFifo
  <2>2. CASE ~ TakenUnreturned /\ k > 0
    BY <1>1, <1>2, <1>3, <2>2, QueueAssumption
    DEF StubPred, QueueInv, ListInv, Distinct
  <2> QED BY <2>1, <2>2
<1>7. ASSUME NEW j \in DOMAIN fifo, HasPred(k, j), Pred(k, i) = Pred(k, j)
      PROVE  i = j
  <2>1. j # k + 1 => Pred(k, j) = fifo[j - 1] /\ j - 1 \in DOMAIN fifo /\ fifo[j - 1] \in Skbs
    BY <1>1, <1>7 DEF Pred, HasPred
  <2>2. j = k + 1 => Pred(k, j) = STUB
    BY DEF Pred
  <2>3. j \in 1 .. Len(fifo)
    BY <1>1
  <2> QED BY <1>1, <1>2, <1>3, <1>7, <2>1, <2>2, <2>3, QueueAssumption
          DEF QueueInv, ListInv, Distinct
<1>8. ASSUME NEW b \in Producers, ppc[b] = "xchg" PROVE Pred(k, i) # pskb[b]
  <2>1. pskb[b] \in Skbs /\ ~ InFifo(pskb[b])
    BY <1>8, QueueAssumption DEF QueueInv, ListInv, Owners, TypeOK
  <2> QED BY <1>2, <1>3, <2>1, QueueAssumption DEF InFifo
<1>9. k = -1 => Pred(k, i) # STUB
  BY <1>1, <1>2, QueueAssumption
<1> QED BY <1>4, <1>5, <1>6, <1>7, <1>8, <1>9

(* The producer's store turns the NULL link in front of its packet into the *)
(* link to it, and no other.                                                *)
LEMMA LinkStep ==
  ASSUME QueueInv, NEW a \in Producers, enqueue_link(a), TrackGap
  PROVE  ListInv'
<1>1. PICK k \in -1 .. Len(fifo) : Shape(k)
  BY DEF QueueInv, ListInv
<1>2. PICK p \in DOMAIN fifo : fifo[p] = pskb[a] /\ HasPred(k, p) /\ old[a] = Pred(k, p)
  BY <1>1 DEF Shape, Linkers, enqueue_link
<1>3. linking' = linking \ {fifo[p]}
  BY <1>2, LinkingSteps DEF QueueInv, ListInv
<1>4. /\ Pred(k, p) \in Elems
      /\ NEXT' = [NEXT EXCEPT ![Pred(k, p)] = fifo[p]]
      /\ NEXT \in [Elems -> Elems \cup {NULL}]
  BY <1>1, <1>2, PredFacts DEF QueueInv, TypeOK, enqueue_link
<1>5. Distinct'
  BY DEF QueueInv, ListInv, Distinct, enqueue_link
<1>6. TakenUnreturned' = TakenUnreturned
  BY DEF TakenUnreturned, enqueue_link, consumerVars
<1>7. Owners'
  <2>1. \A b \in Producers : ppc[b] = "xchg" => Pred(k, p) # pskb[b] /\ pskb[b] \in Elems
    BY <1>1, <1>2, PredFacts, QueueAssumption
    DEF QueueInv, ListInv, Owners, TypeOK, Elems
  <2>2. \A b \in Producers : ppc'[b] = "xchg" => NEXT'[pskb'[b]] = NULL
    BY <1>4, <2>1 DEF QueueInv, ListInv, Owners, TypeOK, enqueue_link
  <2> QED BY <1>6, <2>2, QueueAssumption
          DEF QueueInv, ListInv, Owners, TypeOK, enqueue_link, InFifo,
              consumerVars
<1>8. Ends(k)'
  <2>1. Pred(k, p) # qhead /\ qhead \in Elems
    BY <1>1, <1>2, PredFacts DEF QueueInv, TypeOK
  <2> QED BY <1>1, <1>4, <1>6, <2>1
          DEF Shape, Ends, InFifo, enqueue_link, consumerVars
<1>9. PacketLinks(k)'
  <2> SUFFICES ASSUME NEW i \in DOMAIN fifo, HasPred(k, i)
      PROVE NEXT'[Pred(k, i)] = IF fifo[i] \in linking' THEN NULL ELSE fifo[i]
    BY DEF PacketLinks, HasPred, Pred, enqueue_link
  <2>1. Pred(k, i) \in Elems
    BY <1>1, PredFacts
  <2>2. CASE i = p
    BY <1>3, <1>4, <2>2
  <2>3. CASE i # p
    <3>1. Pred(k, i) # Pred(k, p) /\ fifo[i] # fifo[p]
      BY <1>1, <1>2, <2>3, PredFacts DEF QueueInv, ListInv, Distinct
    <3> QED BY <1>1, <1>3, <1>4, <2>1, <3>1 DEF Shape, PacketLinks
  <2> QED BY <2>2, <2>3
<1>10. Linkers(k)'
  BY <1>1 DEF QueueInv, TypeOK, Shape, Linkers, HasPred, Pred, enqueue_link
<1>11. StubLink(k)'
  <2>1. TakenUnreturned \/ k > 0 => StubPred(k) # Pred(k, p) /\ StubPred(k) \in Elems
    BY <1>1, <1>2, PredFacts
    DEF QueueInv, TypeOK, StubPred, Shape, ConsumerAt, TakenUnreturned, Elems
  <2>2. StubPred(k)' = StubPred(k)
    BY <1>6 DEF StubPred, enqueue_link, consumerVars
  <2> QED BY <1>1, <1>4, <1>6, <2>1, <2>2
          DEF Shape, StubLink, enqueue_link, consumerVars
<1>12. ConsumerAt(k)'
  <2>1. k = -1 => NEXT'[STUB] = NEXT[STUB]
    BY <1>1, <1>2, <1>4, PredFacts DEF Elems
  <2> QED BY <1>1, <2>1
          DEF Shape, ConsumerAt, enqueue_link, consumerVars, TrackGap
<1> QED BY <1>1, <1>5, <1>7, <1>8, <1>9, <1>10, <1>11, <1>12
        DEF ListInv, Shape, enqueue_link

-----------------------------------------------------------------------------
(* The consumer.                                                            *)

(* Returning the first packet, whose link is in place, leaves the list from *)
(* the second element on.  Its own link was written, so no producer is      *)
(* about to write into the memory the consumer now owns.                    *)
LEMMA TakeFirst ==
  ASSUME QueueInv, ~ TakenUnreturned, cpc # "stub_link",
         qtail # STUB, NEXT[qtail] # NULL,
         ReturnSkb(qtail, NEXT[qtail]), Taken(qtail),
         UNCHANGED <<NEXT, qhead, producerVars>>
  PROVE  /\ ListInv'
         /\ fifo # <<>> /\ fifo' = Tail(fifo)
         /\ fifo[1] \notin linking /\ linking' = linking
<1>1. PICK k \in -1 .. Len(fifo) : Shape(k)
  BY DEF QueueInv, ListInv
<1>2. PICK n \in Nat : n = Len(fifo)
  BY DEF QueueInv, TypeOK
<1>3. k # 0 /\ k \in -1 .. n /\ n > 0 /\ qtail = fifo[1]
  BY <1>1, <1>2 DEF Shape, Ends
<1>4. fifo \in Seq(Skbs) /\ fifo # <<>> /\ DOMAIN fifo = 1 .. n
  BY <1>2, <1>3 DEF QueueInv, TypeOK
<1>5. fifo' = Tail(fifo)
  BY <1>3, <1>4 DEF Taken
<1>6. /\ Len(fifo') = n - 1 /\ DOMAIN fifo' = 1 .. n - 1
      /\ \A i \in 1 .. n - 1 : fifo'[i] = fifo[i + 1]
  BY <1>2, <1>3, <1>4, <1>5
<1>7. linking' = linking
  BY DEF linking, producerVars
<1>8. fifo[1] \notin linking
  <2> SUFFICES ASSUME fifo[1] \in linking PROVE FALSE
    OBVIOUS
  <2>1. PICK i \in DOMAIN fifo : fifo[i] = fifo[1] /\ HasPred(k, i)
    BY <1>1, LinkingQueued DEF QueueInv, Shape
  <2>2. i = 1
    BY <1>3, <1>4, <2>1 DEF QueueInv, ListInv, Distinct
  <2> QED BY <1>3, <2>1, <2>2 DEF HasPred
\* The second element: STUB behind one packet, or the second packet.
<1>9. k = 1 => NEXT[fifo[1]] = STUB
  BY <1>1 DEF Shape, StubLink, StubPred
<1>10. k # 1 => n > 1 /\ fifo[2] \notin linking /\ NEXT[fifo[1]] = fifo[2]
  <2> SUFFICES ASSUME k # 1 PROVE n > 1 /\ fifo[2] \notin linking /\ NEXT[fifo[1]] = fifo[2]
    OBVIOUS
  <2>1. n > 1
    BY <1>1, <1>2, <1>3 DEF Shape, Ends
  <2>2. 2 \in DOMAIN fifo /\ HasPred(k, 2) /\ Pred(k, 2) = fifo[1]
    BY <1>3, <1>4, <2>1 DEF HasPred, Pred
  <2> QED BY <1>1, <1>3, <2>1, <2>2 DEF Shape, PacketLinks
<1>11. PICK j \in -1 .. n - 1 : j = IF k = -1 THEN -1 ELSE k - 1
  BY <1>3
<1>12. ASSUME NEW i \in 1 .. n - 1, HasPred(j, i)
       PROVE  HasPred(k, i + 1) /\ Pred(j, i)' = Pred(k, i + 1)
  BY <1>3, <1>6, <1>11, <1>12 DEF HasPred, Pred
<1>13. ~ TakenUnreturned' /\ cpc' = "idle"
  BY DEF ReturnSkb, TakenUnreturned
<1>14. Distinct'
  <2> SUFFICES ASSUME NEW h \in 1 .. n - 1, NEW i \in 1 .. n - 1, fifo'[h] = fifo'[i]
      PROVE h = i
    BY <1>6 DEF Distinct
  <2>1. h + 1 \in DOMAIN fifo /\ i + 1 \in DOMAIN fifo /\ fifo[h + 1] = fifo[i + 1]
    BY <1>4, <1>6
  <2>2. h + 1 = i + 1
    BY <2>1 DEF QueueInv, ListInv, Distinct
  <2> QED BY <2>2
<1>15. ASSUME NEW s, InFifo(s)' PROVE InFifo(s)
  <2>1. PICK i \in 1 .. n - 1 : fifo'[i] = s
    BY <1>6, <1>15 DEF InFifo
  <2>2. i + 1 \in DOMAIN fifo /\ fifo[i + 1] = s
    BY <1>4, <1>6, <2>1
  <2> QED BY <2>2 DEF InFifo
<1>16. Owners'
  BY <1>13, <1>15 DEF QueueInv, ListInv, Owners, producerVars
<1>17. Ends(j)'
  <2>1. j = -1 => Len(fifo') > 0
    BY <1>3, <1>6, <1>10, <1>11
  <2>2. qtail' = IF j = 0 THEN STUB ELSE fifo'[1]
    BY <1>3, <1>6, <1>9, <1>10, <1>11 DEF ReturnSkb
  <2>3. qhead = IF j = Len(fifo') THEN STUB ELSE fifo'[Len(fifo')]
    BY <1>1, <1>2, <1>3, <1>6, <1>10, <1>11 DEF Shape, Ends
  <2> QED BY <1>1, <1>13, <2>1, <2>2, <2>3 DEF Shape, Ends
<1>18. PacketLinks(j)'
  <2> SUFFICES ASSUME NEW i \in 1 .. n - 1, HasPred(j, i)
      PROVE NEXT[Pred(j, i)'] = IF fifo'[i] \in linking THEN NULL ELSE fifo'[i]
    BY <1>6, <1>7 DEF PacketLinks, HasPred
  <2>1. i + 1 \in DOMAIN fifo
    BY <1>4
  <2> QED BY <1>1, <1>6, <1>12, <2>1 DEF Shape, PacketLinks
<1>19. Linkers(j)'
  <2> SUFFICES ASSUME NEW b \in Producers, ppc[b] = "link"
      PROVE \E i \in 1 .. n - 1 : /\ fifo'[i] = pskb[b]
                                  /\ HasPred(j, i)
                                  /\ old[b] = Pred(j, i)'
    BY <1>6 DEF Linkers, HasPred, producerVars
  <2>1. PICK i \in 1 .. n : fifo[i] = pskb[b] /\ HasPred(k, i) /\ old[b] = Pred(k, i)
    BY <1>1, <1>4 DEF Shape, Linkers
  <2>2. fifo[i] \in linking
    BY <2>1 DEF linking
  <2>3. i # 1
    BY <1>8, <2>2
  <2>4. i = 2 => k = 1
    BY <1>10, <2>2
  <2>5. i - 1 \in 1 .. n - 1 /\ HasPred(j, i - 1)
    BY <1>11, <2>3, <2>4 DEF HasPred
  <2>6. fifo'[i - 1] = fifo[i] /\ Pred(j, i - 1)' = Pred(k, i)
    BY <1>6, <1>12, <2>5
  <2> QED BY <2>1, <2>5, <2>6
<1>20. StubLink(j)'
  <2>1. j > 0 => fifo'[j] = fifo[k] /\ k > 0
    BY <1>3, <1>6, <1>11
  <2> QED BY <1>1, <1>13, <2>1 DEF Shape, StubLink, StubPred
<1>21. ConsumerAt(j)'
  BY <1>13 DEF ConsumerAt, ReturnSkb
<1>22. Shape(j)'
  BY <1>17, <1>18, <1>19, <1>20, <1>21 DEF Shape
<1>23. j \in -1 .. Len(fifo')
  BY <1>6
<1> QED BY <1>4, <1>5, <1>7, <1>8, <1>14, <1>16, <1>22, <1>23 DEF ListInv

(* Returning NULL leaves the list as it is.                                 *)
LEMMA NullReturned ==
  ASSUME QueueInv, ~ TakenUnreturned, cpc # "stub_link", ReturnNull,
         UNCHANGED <<NEXT, qhead, producerVars, fifo>>
  PROVE  ListInv'
<1>1. PICK k \in -1 .. Len(fifo) : Shape(k)
  BY DEF QueueInv, ListInv
<1>2. ~ TakenUnreturned' /\ cpc' = "idle"
  BY DEF ReturnNull, TakenUnreturned
<1>3. linking' = linking
  BY DEF linking, producerVars
<1>4. Distinct' /\ Owners'
  BY <1>2 DEF QueueInv, ListInv, Distinct, Owners, InFifo, producerVars
<1>5. Ends(k)'
  BY <1>1, <1>2 DEF Shape, Ends, ReturnNull
<1>6. PacketLinks(k)' /\ Linkers(k)'
  BY <1>1, <1>3 DEF Shape, PacketLinks, Linkers, HasPred, Pred, producerVars
<1>7. StubLink(k)' /\ ConsumerAt(k)'
  BY <1>1, <1>2 DEF Shape, StubLink, StubPred, ConsumerAt, ReturnNull
<1> QED BY <1>1, <1>4, <1>5, <1>6, <1>7 DEF ListInv, Shape

(* Where STUB is when it is neither before nor behind a single packet.      *)
LEMMA OnlyFirst ==
  ASSUME NEW n \in Nat, NEW k \in -1 .. n, n > 0, ~ (n > 1), k # 0, k # 1
  PROVE  k = -1 /\ n = 1
  OBVIOUS

(* A call that finds no link behind the first packet goes on to compare it  *)
(* with queue->head.  Either it is the only element, or the second packet   *)
(* is not linked yet, which gap remembers.                                  *)
LEMMA ToCompare ==
  ASSUME QueueInv, cpc \in {"idle", "load_next"}, qtail # STUB,
         NEXT[qtail] = NULL, tail' = qtail, cpc' = "compare",
         UNCHANGED <<NEXT, qhead, qtail, producerVars, fifo>>, TrackGap
  PROVE  ListInv'
<1>1. PICK k \in -1 .. Len(fifo) : Shape(k)
  BY DEF QueueInv, ListInv
<1>2. ~ TakenUnreturned /\ ~ TakenUnreturned'
  BY DEF TakenUnreturned
<1>3. linking' = linking
  BY DEF linking, producerVars
<1>4. Distinct' /\ Owners'
  BY <1>2 DEF QueueInv, ListInv, Distinct, Owners, InFifo, producerVars
<1>5. Ends(k)'
  BY <1>1, <1>2 DEF Shape, Ends
<1>6. PacketLinks(k)' /\ Linkers(k)'
  BY <1>1, <1>3 DEF Shape, PacketLinks, Linkers, HasPred, Pred, producerVars
<1>7. StubLink(k)'
  BY <1>1, <1>2 DEF Shape, StubLink, StubPred
<1>8. fifo \in Seq(Skbs) /\ k # 0 /\ Len(fifo) > 0 /\ qtail = fifo[1]
  BY <1>1, <1>2 DEF Shape, Ends, QueueInv, TypeOK
<1>9. ConsumerAt(k)'
  <2>1. qtail \in Skbs
    BY <1>8
  <2>2. ~ gap' => k = -1 /\ Len(fifo) = 1
    <3> SUFFICES ASSUME ~ gap' PROVE k = -1 /\ Len(fifo) = 1
      OBVIOUS
    <3>1. k # 1
      BY <1>1, <1>2, <1>8, QueueAssumption DEF Shape, StubLink, StubPred
    <3>2. Len(fifo) > 1 => fifo[2] \notin linking
      BY DEF TrackGap, Gap
    <3>3. CASE Len(fifo) > 1
      <4>1. 2 \in DOMAIN fifo /\ HasPred(k, 2) /\ Pred(k, 2) = fifo[1] /\ fifo[2] \in Skbs
        BY <1>8, <3>1, <3>3 DEF HasPred, Pred
      <4> QED BY <1>1, <1>8, <3>2, <3>3, <4>1, QueueAssumption DEF Shape, PacketLinks
    <3>4. Len(fifo) \in Nat /\ Len(fifo) > 0 /\ k # 0
      BY <1>8
    <3>5. CASE ~ (Len(fifo) > 1)
      BY <3>1, <3>4, <3>5, OnlyFirst
    <3> QED BY <3>3, <3>5
  <2> QED BY <2>1, <2>2 DEF ConsumerAt
<1> QED BY <1>1, <1>4, <1>5, <1>6, <1>7, <1>9 DEF ListInv, Shape

\* What a consumer's step does to the queue: it takes the first packet, which
\* is linked, or nothing, and the count follows.
Took == /\ fifo # <<>> /\ fifo[1] \notin linking
        /\ fifo' = Tail(fifo) /\ linking' = linking
Kept == fifo' = fifo /\ linking' = linking
InHand == IF TakenUnreturned THEN 1 ELSE 0
Balanced == count' = count + (Len(fifo') + InHand') - (Len(fifo) + InHand)

ConsumerStepOK == ListInv' /\ (Took \/ Kept) /\ Balanced /\ count' <= count

(* A call that returns NULL takes nothing.                                  *)
LEMMA NullReturnedOK ==
  ASSUME QueueInv, ~ TakenUnreturned, cpc # "stub_link", ReturnNull,
         UNCHANGED <<NEXT, qhead, producerVars, fifo>>
  PROVE  ConsumerStepOK
<1>1. ListInv'
  BY NullReturned
<1>2. Kept
  BY DEF Kept, linking, producerVars
<1>3. InHand = 0 /\ InHand' = 0 /\ count' = count
  BY DEF InHand, TakenUnreturned, ReturnNull
<1>4. Len(fifo) \in Nat /\ count \in Nat
  BY DEF QueueInv, TypeOK
<1> QED BY <1>1, <1>2, <1>3, <1>4 DEF ConsumerStepOK, Kept, Balanced

(* A call that returns the first packet takes it.                           *)
LEMMA TakeFirstOK ==
  ASSUME QueueInv, ~ TakenUnreturned, cpc # "stub_link",
         qtail # STUB, NEXT[qtail] # NULL,
         ReturnSkb(qtail, NEXT[qtail]), Taken(qtail),
         UNCHANGED <<NEXT, qhead, producerVars>>
  PROVE  ConsumerStepOK
<1>1. ListInv' /\ Took
  BY TakeFirst DEF Took
<1>2. InHand = 0 /\ InHand' = 0 /\ count' = count - 1
  BY DEF InHand, TakenUnreturned, ReturnSkb
<1>3. Len(fifo) \in Nat /\ Len(fifo') = Len(fifo) - 1 /\ count \in Nat
  BY <1>1 DEF QueueInv, TypeOK, Took
<1> QED BY <1>1, <1>2, <1>3 DEF ConsumerStepOK, Balanced

(* A step that leaves fifo and count alone takes nothing.                   *)
LEMMA KeptOK ==
  ASSUME QueueInv, ListInv', ~ TakenUnreturned, ~ TakenUnreturned',
         UNCHANGED <<fifo, count, producerVars>>
  PROVE  ConsumerStepOK
<1>1. Kept
  BY DEF Kept, linking, producerVars
<1>2. InHand = 0 /\ InHand' = 0
  BY DEF InHand
<1>3. Len(fifo) \in Nat /\ count \in Nat
  BY DEF QueueInv, TypeOK
<1> QED BY <1>1, <1>2, <1>3 DEF ConsumerStepOK, Kept, Balanced

(* The first accesses of a call: the four ways on from queue->tail.         *)
LEMMA BeginStep ==
  ASSUME QueueInv, dequeue_begin, TrackGap
  PROVE  ConsumerStepOK
<1>1. PICK k \in -1 .. Len(fifo) : Shape(k)
  BY DEF QueueInv, ListInv
<1>2. cpc = "idle" /\ ~ TakenUnreturned /\ UNCHANGED <<NEXT, qhead, producerVars>>
  BY DEF dequeue_begin, TakenUnreturned
<1>3. CASE qtail = STUB /\ NEXT[qtail] = NULL
  BY <1>2, <1>3, NullReturnedOK DEF dequeue_begin
<1>4. CASE qtail # STUB /\ NEXT[qtail] # NULL
  BY <1>2, <1>4, TakeFirstOK DEF dequeue_begin
<1>5. CASE qtail # STUB /\ NEXT[qtail] = NULL
  <2>1. /\ tail' = qtail /\ cpc' = "compare"
        /\ UNCHANGED <<qtail, count, fifo>>
    BY <1>5 DEF dequeue_begin
  <2>2. ListInv'
    BY <1>2, <1>5, <2>1, ToCompare
  <2> QED BY <1>2, <2>1, <2>2, KeptOK DEF TakenUnreturned
<1>6. CASE qtail = STUB /\ NEXT[qtail] # NULL
  <2>1. /\ qtail' = NEXT[STUB] /\ tail' = NEXT[STUB] /\ cpc' = "load_next"
        /\ UNCHANGED <<count, fifo>>
    BY <1>6 DEF dequeue_begin
  <2>2. ~ TakenUnreturned'
    BY <2>1 DEF TakenUnreturned
  <2>3. fifo \in Seq(Skbs)
    BY DEF QueueInv, TypeOK
  <2>4. k = 0
    BY <1>1, <1>2, <1>6, <2>3, QueueAssumption DEF Shape, Ends
  <2>5. Len(fifo) > 0
    BY <1>1, <1>6, <2>3, <2>4 DEF Shape, Ends
  <2>6. NEXT[STUB] = fifo[1] /\ fifo[1] \in Skbs /\ fifo[1] \notin linking
    <3>1. 1 \in DOMAIN fifo /\ HasPred(k, 1) /\ Pred(k, 1) = STUB
      BY <2>3, <2>4, <2>5 DEF HasPred, Pred
    <3> QED BY <1>1, <1>6, <2>3, <2>5, <3>1 DEF Shape, PacketLinks
  <2>7. linking' = linking
    BY <1>2 DEF linking, producerVars
  <2>8. Distinct' /\ Owners'
    BY <1>2, <2>1, <2>2
    DEF QueueInv, ListInv, Distinct, Owners, InFifo, producerVars
  <2>9. Ends(-1)'
    <3>1. qhead = fifo[Len(fifo)]
      BY <1>1, <2>3, <2>4, <2>5 DEF Shape, Ends
    <3>2. -1 # Len(fifo)
      BY <2>3
    <3> QED BY <1>1, <1>2, <2>1, <2>2, <2>5, <2>6, <3>1, <3>2 DEF Shape, Ends
  <2>10. PacketLinks(-1)'
    <3> SUFFICES ASSUME NEW i \in DOMAIN fifo, i > 1
        PROVE NEXT[fifo[i - 1]] = IF fifo[i] \in linking THEN NULL ELSE fifo[i]
      BY <1>2, <2>1, <2>3, <2>7 DEF PacketLinks, HasPred, Pred
    <3>1. HasPred(k, i) /\ Pred(k, i) = fifo[i - 1]
      BY <2>4 DEF HasPred, Pred
    <3> QED BY <1>1, <3>1 DEF Shape, PacketLinks
  <2>11. Linkers(-1)'
    <3> SUFFICES ASSUME NEW b \in Producers, ppc[b] = "link"
        PROVE \E i \in DOMAIN fifo : /\ fifo[i] = pskb[b]
                                     /\ HasPred(-1, i)
                                     /\ old[b] = Pred(-1, i)
      BY <1>2, <2>1 DEF Linkers, HasPred, Pred, producerVars
    <3>1. PICK i \in DOMAIN fifo : fifo[i] = pskb[b] /\ old[b] = Pred(k, i)
      BY <1>1 DEF Shape, Linkers
    <3>2. i # 1
      BY <2>6, <3>1 DEF linking
    <3>3. i \in Nat /\ i > 1
      BY <2>3, <3>2
    <3>4. HasPred(-1, i) /\ Pred(-1, i) = Pred(k, i)
      BY <2>4, <3>3 DEF HasPred, Pred
    <3> QED BY <3>1, <3>4
  <2>12. StubLink(-1)' /\ ConsumerAt(-1)'
    BY <2>1, <2>2, <2>6 DEF StubLink, ConsumerAt
  <2>13. -1 \in -1 .. Len(fifo')
    BY <2>1, <2>3
  <2>14. ListInv'
    BY <2>8, <2>9, <2>10, <2>11, <2>12, <2>13 DEF ListInv, Shape
  <2> QED BY <1>2, <2>1, <2>2, <2>14, KeptOK
<1> QED BY <1>3, <1>4, <1>5, <1>6

(* The call stepped over STUB and reloads the link of the first packet.     *)
LEMMA LoadNextStep ==
  ASSUME QueueInv, dequeue_load_next, TrackGap
  PROVE  ConsumerStepOK
<1>1. tail = qtail /\ tail \in Skbs
  BY DEF QueueInv, ListInv, Shape, ConsumerAt, dequeue_load_next
<1>2. qtail # STUB /\ cpc = "load_next" /\ ~ TakenUnreturned
  BY <1>1, QueueAssumption DEF dequeue_load_next, TakenUnreturned
<1>3. UNCHANGED <<NEXT, qhead, producerVars>>
  BY DEF dequeue_load_next
<1>4. CASE NEXT[tail] # NULL
  BY <1>1, <1>2, <1>3, <1>4, TakeFirstOK DEF dequeue_load_next
<1>5. CASE NEXT[tail] = NULL
  <2>1. /\ tail' = qtail /\ cpc' = "compare"
        /\ UNCHANGED <<qtail, count, fifo>>
    BY <1>1, <1>5 DEF dequeue_load_next
  <2>2. ListInv'
    BY <1>1, <1>2, <1>3, <1>5, <2>1, ToCompare
  <2> QED BY <1>2, <1>3, <2>1, <2>2, KeptOK DEF TakenUnreturned
<1> QED BY <1>4, <1>5

(* The first packet is the last too: STUB is out of the list.               *)
LEMMA CompareStep ==
  ASSUME QueueInv, dequeue_compare, TrackGap
  PROVE  ConsumerStepOK
<1>1. PICK k \in -1 .. Len(fifo) : Shape(k)
  BY DEF QueueInv, ListInv
<1>2. /\ cpc = "compare" /\ ~ TakenUnreturned
      /\ UNCHANGED <<NEXT, qhead, producerVars, fifo>>
  BY DEF dequeue_compare, TakenUnreturned
<1>3. CASE tail # qhead
  BY <1>2, <1>3, NullReturnedOK DEF dequeue_compare
<1>4. CASE tail = qhead
  <2>1. cpc' = "stub_clear" /\ UNCHANGED <<qtail, count, tail, stub_old>>
    BY <1>4 DEF dequeue_compare
  <2>2. ~ TakenUnreturned'
    BY <2>1 DEF TakenUnreturned
  <2>3. linking' = linking
    BY <1>2 DEF linking, producerVars
  <2>4. Distinct' /\ Owners'
    BY <1>2, <2>2 DEF QueueInv, ListInv, Distinct, Owners, InFifo, producerVars
  <2>5. Ends(k)'
    BY <1>1, <1>2, <2>1, <2>2 DEF Shape, Ends
  <2>6. PacketLinks(k)' /\ Linkers(k)'
    BY <1>1, <1>2, <2>3 DEF Shape, PacketLinks, Linkers, HasPred, Pred, producerVars
  <2>7. StubLink(k)'
    BY <1>1, <1>2, <2>1, <2>2 DEF Shape, StubLink, StubPred
  <2>8. k = -1
    <3>1. fifo \in Seq(Skbs) /\ tail \in Skbs /\ tail = qtail
      BY <1>1, <1>2 DEF QueueInv, TypeOK, Shape, ConsumerAt
    <3>2. k # 0 /\ qtail = fifo[1]
      BY <1>1, <1>2, <3>1, QueueAssumption DEF Shape, Ends
    <3>3. k # Len(fifo) /\ qhead = fifo[Len(fifo)]
      BY <1>1, <1>4, <3>1, QueueAssumption DEF Shape, Ends
    <3>4. Len(fifo) > 0
      BY <1>1, <3>1, <3>2 DEF Shape, Ends
    <3>5. 1 \in DOMAIN fifo /\ Len(fifo) \in DOMAIN fifo
      BY <3>1, <3>4
    <3>6. Len(fifo) = 1
      BY <1>4, <3>1, <3>2, <3>3, <3>5 DEF QueueInv, ListInv, Distinct
    <3> QED BY <3>2, <3>3, <3>6
  <2>9. ConsumerAt(k)'
    BY <1>1, <1>2, <2>1, <2>8 DEF Shape, ConsumerAt
  <2>10. ListInv'
    BY <1>1, <1>2, <2>4, <2>5, <2>6, <2>7, <2>9 DEF ListInv, Shape
  <2> QED BY <1>2, <2>1, <2>2, <2>10, KeptOK
<1> QED BY <1>3, <1>4

(* STUB is out of the list, so clearing its link changes nothing in it.     *)
LEMMA StubClearStep ==
  ASSUME QueueInv, dequeue_stub_clear, TrackGap
  PROVE  ConsumerStepOK
<1>1. PICK k \in -1 .. Len(fifo) : Shape(k)
  BY DEF QueueInv, ListInv
<1>2. /\ cpc = "stub_clear" /\ cpc' = "stub_xchg"
      /\ UNCHANGED <<qhead, qtail, count, producerVars, tail, fifo>>
  BY DEF dequeue_stub_clear
<1>3. ~ TakenUnreturned /\ ~ TakenUnreturned'
  BY <1>2 DEF TakenUnreturned
<1>4. /\ k = -1 /\ fifo \in Seq(Skbs) /\ NEXT'[STUB] = NULL
      /\ \A e \in Elems : e # STUB => NEXT'[e] = NEXT[e]
  BY <1>1, <1>2
  DEF QueueInv, TypeOK, Shape, ConsumerAt, dequeue_stub_clear, Elems
<1>5. linking' = linking
  BY <1>2 DEF linking, producerVars
<1>6. Distinct'
  BY <1>2 DEF QueueInv, ListInv, Distinct
<1>7. Owners'
  <2>1. \A a \in Producers : ppc[a] = "xchg" => pskb[a] \in Elems /\ pskb[a] # STUB
    BY QueueAssumption DEF QueueInv, TypeOK, ListInv, Owners, Elems
  <2> QED BY <1>2, <1>3, <1>4, <2>1
          DEF QueueInv, ListInv, Owners, InFifo, producerVars
<1>8. Ends(k)'
  <2>1. qhead \in Skbs
    BY <1>1, <1>4 DEF Shape, Ends
  <2>2. qhead \in Elems /\ qhead # STUB
    BY <2>1, QueueAssumption DEF Elems
  <2> QED BY <1>1, <1>2, <1>3, <1>4, <2>2 DEF Shape, Ends
<1>9. PacketLinks(k)'
  <2>1. \A i \in DOMAIN fifo : HasPred(k, i) => Pred(k, i) \in Elems /\ Pred(k, i) # STUB
    BY <1>1, <1>4, PredFacts
  <2>2. \A i \in DOMAIN fifo : Pred(k, i)' = Pred(k, i)
    BY <1>2 DEF Pred
  <2> QED BY <1>1, <1>2, <1>4, <1>5, <2>1, <2>2 DEF Shape, PacketLinks, HasPred
<1>10. Linkers(k)'
  BY <1>1, <1>2 DEF Shape, Linkers, HasPred, Pred, producerVars
<1>11. StubLink(k)' /\ ConsumerAt(k)'
  BY <1>1, <1>2, <1>3, <1>4 DEF Shape, StubLink, ConsumerAt
<1>12. ListInv'
  BY <1>1, <1>2, <1>6, <1>7, <1>8, <1>9, <1>10, <1>11 DEF ListInv, Shape
<1> QED BY <1>2, <1>3, <1>12, KeptOK

(* STUB goes behind the last element.  If that is the packet in the         *)
(* consumer's hand, nothing can come between them any more: it is taken.    *)
LEMMA StubXchgStep ==
  ASSUME QueueInv, dequeue_stub_xchg, TrackGap
  PROVE  ConsumerStepOK
<1>1. PICK k \in -1 .. Len(fifo) : Shape(k)
  BY DEF QueueInv, ListInv
<1>2. /\ cpc = "stub_xchg" /\ cpc' = "stub_link"
      /\ stub_old' = qhead /\ qhead' = STUB
      /\ UNCHANGED <<NEXT, qtail, count, producerVars, tail>>
  BY DEF dequeue_stub_xchg
<1>3. ~ TakenUnreturned
  BY <1>2 DEF TakenUnreturned
<1>4. TakenUnreturned' <=> qhead = tail
  BY <1>2 DEF TakenUnreturned
<1>5. /\ k = -1 /\ fifo \in Seq(Skbs) /\ Len(fifo) > 0 /\ NEXT[STUB] = NULL
      /\ tail = qtail /\ tail \in Skbs /\ count \in Nat
  BY <1>1, <1>2 DEF QueueInv, TypeOK, Shape, Ends, ConsumerAt
<1>6. qtail = fifo[1] /\ qhead = fifo[Len(fifo)] /\ NEXT[qhead] = NULL
  BY <1>1, <1>3, <1>5 DEF Shape, Ends
<1>7. 1 \in DOMAIN fifo /\ Len(fifo) \in DOMAIN fifo /\ DOMAIN fifo = 1 .. Len(fifo)
  BY <1>5
<1>8. linking' = linking
  BY <1>2 DEF linking, producerVars
<1>9. CASE qhead = tail
  <2>1. Len(fifo) = 1
    BY <1>5, <1>6, <1>7, <1>9 DEF QueueInv, ListInv, Distinct
  <2>2. fifo' = Tail(fifo) /\ fifo # <<>>
    BY <1>5, <1>6, <1>9 DEF dequeue_stub_xchg, Taken
  <2>3. Len(fifo') = 0 /\ DOMAIN fifo' = {}
    BY <1>5, <2>1, <2>2
  <2>4. TakenUnreturned'
    BY <1>4, <1>9
  <2>5. ~ \E s \in linking : TRUE
    <3> SUFFICES ASSUME NEW s \in linking PROVE FALSE
      OBVIOUS
    <3>1. PICK i \in DOMAIN fifo : fifo[i] = s /\ HasPred(k, i)
      BY <1>1, LinkingQueued DEF QueueInv, Shape
    <3> QED BY <1>5, <1>7, <2>1, <3>1 DEF HasPred
  <2>6. \A a \in Producers : ppc[a] # "link"
    BY <2>5 DEF linking
  <2>7. Distinct'
    BY <2>3 DEF Distinct
  <2>8. Owners'
    <3>1. \A a \in Producers : ppc[a] \in {"clear", "xchg"} => pskb[a] # tail
      BY <1>5, <1>6, <1>7 DEF QueueInv, ListInv, Owners, InFifo
    <3> QED BY <1>2, <2>3, <3>1
            DEF QueueInv, ListInv, Owners, InFifo, producerVars
  <2>9. Ends(0)'
    BY <1>2, <1>5, <2>3, <2>4 DEF Ends, InFifo
  <2>10. PacketLinks(0)' /\ Linkers(0)'
    BY <1>2, <2>3, <2>6 DEF PacketLinks, Linkers, producerVars
  <2>11. StubLink(0)'
    BY <1>2, <1>6, <1>9, <2>4 DEF StubLink, StubPred
  <2>12. ConsumerAt(0)'
    BY <1>2, <1>5 DEF ConsumerAt
  <2>13. ListInv'
    BY <2>3, <2>7, <2>8, <2>9, <2>10, <2>11, <2>12 DEF ListInv, Shape
  <2>14. Took
    BY <1>8, <2>2, <2>5 DEF Took
  <2>15. Balanced /\ count' <= count
    BY <1>2, <1>3, <1>5, <2>1, <2>3, <2>4 DEF Balanced, InHand
  <2> QED BY <2>13, <2>14, <2>15 DEF ConsumerStepOK
<1>10. CASE qhead # tail
  <2>1. fifo' = fifo /\ ~ TakenUnreturned'
    BY <1>4, <1>10 DEF dequeue_stub_xchg
  <2>2. PICK n \in Nat : n = Len(fifo) /\ n > 0
    BY <1>5
  <2>3. Distinct' /\ Owners'
    BY <1>2, <2>1 DEF QueueInv, ListInv, Distinct, Owners, InFifo, producerVars
  <2>4. Ends(n)'
    BY <1>2, <1>5, <1>6, <2>1, <2>2 DEF Ends
  <2>5. \A i \in DOMAIN fifo : /\ HasPred(n, i) <=> HasPred(k, i)
                               /\ Pred(n, i)' = Pred(k, i)
    BY <1>5, <1>7, <2>1, <2>2 DEF HasPred, Pred
  <2>6. PacketLinks(n)'
    BY <1>1, <1>2, <1>8, <2>1, <2>5 DEF Shape, PacketLinks, HasPred
  <2>7. Linkers(n)'
    BY <1>1, <1>2, <2>1, <2>5 DEF Shape, Linkers, HasPred, producerVars
  <2>8. StubLink(n)'
    BY <1>2, <1>6, <2>1, <2>2 DEF StubLink, StubPred
  <2>9. ConsumerAt(n)'
    BY <1>2, <1>5 DEF ConsumerAt
  <2>10. n \in -1 .. Len(fifo')
    BY <2>1, <2>2
  <2>11. ListInv'
    BY <2>3, <2>4, <2>6, <2>7, <2>8, <2>9, <2>10 DEF ListInv, Shape
  <2> QED BY <1>2, <1>3, <2>1, <2>11, KeptOK
<1> QED BY <1>9, <1>10

(* The consumer links STUB behind the packet its xchg returned.             *)
LEMMA StubLinkStep ==
  ASSUME QueueInv, dequeue_stub_link, TrackGap
  PROVE  ConsumerStepOK
<1>1. PICK k \in -1 .. Len(fifo) : Shape(k)
  BY DEF QueueInv, ListInv
<1>2. /\ cpc = "stub_link" /\ cpc' = "reload"
      /\ UNCHANGED <<qhead, qtail, count, producerVars, tail, stub_old, fifo>>
  BY DEF dequeue_stub_link
<1>3. TakenUnreturned' = TakenUnreturned
  BY <1>2 DEF TakenUnreturned
<1>4. fifo \in Seq(Skbs) /\ tail \in Skbs /\ tail = qtail /\ count \in Nat
  BY <1>1, <1>2 DEF QueueInv, TypeOK, Shape, ConsumerAt
<1>5. (TakenUnreturned \/ k > 0) /\ stub_old = StubPred(k)
  BY <1>1, <1>2 DEF Shape, StubLink
<1>6. /\ StubPred(k) \in Skbs
      /\ TakenUnreturned => ~ InFifo(StubPred(k)) /\ k = 0
      /\ ~ TakenUnreturned => k \in DOMAIN fifo /\ StubPred(k) = fifo[k]
  BY <1>1, <1>4, <1>5 DEF Shape, Ends, StubPred
<1>7. StubPred(k) \in Elems /\ StubPred(k) # STUB
  BY <1>6, QueueAssumption DEF Elems
<1>8. NEXT' = [NEXT EXCEPT ![StubPred(k)] = STUB] /\ NEXT \in [Elems -> Elems \cup {NULL}]
  BY <1>5 DEF QueueInv, TypeOK, dequeue_stub_link
<1>9. linking' = linking
  BY <1>2 DEF linking, producerVars
<1>10. Distinct'
  BY <1>2 DEF QueueInv, ListInv, Distinct
<1>11. Owners'
  <2>1. ASSUME NEW a \in Producers, ppc[a] = "xchg"
        PROVE  pskb[a] \in Elems /\ pskb[a] # StubPred(k)
    <3>1. /\ pskb[a] \in Skbs /\ ~ InFifo(pskb[a])
          /\ TakenUnreturned => pskb[a] # tail
      BY <2>1, QueueAssumption DEF QueueInv, TypeOK, ListInv, Owners
    <3>2. TakenUnreturned => StubPred(k) = tail
      BY DEF StubPred
    <3> QED BY <1>6, <3>1, <3>2 DEF InFifo, Elems
  <2>2. \A a \in Producers : ppc[a] = "xchg" => NEXT'[pskb[a]] = NULL
    BY <1>8, <2>1 DEF QueueInv, ListInv, Owners
  <2> QED BY <1>2, <1>3, <2>2
          DEF QueueInv, ListInv, Owners, InFifo, producerVars
<1>12. Ends(k)'
  <2>1. qhead # StubPred(k) /\ qhead \in Elems
    <3>1. CASE k = Len(fifo)
      BY <1>1, <1>7, <3>1 DEF Shape, Ends, Elems
    <3>2. CASE k # Len(fifo)
      <4>1. qhead = fifo[Len(fifo)] /\ Len(fifo) \in DOMAIN fifo
        <5>1. k < Len(fifo) /\ k >= 0
          BY <1>4, <1>5, <1>6, <3>2
        <5> QED BY <1>1, <1>4, <3>2, <5>1 DEF Shape, Ends
      <4>2. qhead \in Elems
        BY DEF QueueInv, TypeOK
      <4> QED BY <1>6, <3>2, <4>1, <4>2 DEF InFifo, QueueInv, ListInv, Distinct
    <3> QED BY <3>1, <3>2
  <2> QED BY <1>1, <1>2, <1>3, <1>8, <2>1 DEF Shape, Ends, InFifo
<1>13. PacketLinks(k)'
  <2>1. \A i \in DOMAIN fifo : HasPred(k, i) => Pred(k, i) \in Elems /\ Pred(k, i) # StubPred(k)
    BY <1>1, <1>5, PredFacts
  <2>2. \A i \in DOMAIN fifo : Pred(k, i)' = Pred(k, i)
    BY <1>2 DEF Pred
  <2> QED BY <1>1, <1>2, <1>8, <1>9, <2>1, <2>2 DEF Shape, PacketLinks, HasPred
<1>14. Linkers(k)'
  BY <1>1, <1>2 DEF Shape, Linkers, HasPred, Pred, producerVars
<1>15. StubLink(k)'
  <2>1. StubPred(k)' = StubPred(k)
    BY <1>2, <1>3 DEF StubPred
  <2> QED BY <1>2, <1>7, <1>8, <2>1 DEF StubLink
<1>16. ConsumerAt(k)'
  BY <1>1, <1>2, <1>5, <1>6 DEF Shape, ConsumerAt
<1>17. ListInv'
  BY <1>1, <1>2, <1>10, <1>11, <1>12, <1>13, <1>14, <1>15, <1>16 DEF ListInv, Shape
<1>18. Kept
  BY <1>2, <1>9 DEF Kept
<1>19. Balanced /\ count' <= count
  BY <1>2, <1>3, <1>4 DEF Balanced, InHand
<1> QED BY <1>17, <1>18, <1>19 DEF ConsumerStepOK

(* After the STUB is linked the call looks at its packet once more.         *)
LEMMA ReloadStep ==
  ASSUME QueueInv, dequeue_reload, TrackGap
  PROVE  ConsumerStepOK
<1>1. PICK k \in -1 .. Len(fifo) : Shape(k)
  BY DEF QueueInv, ListInv
<1>2. /\ cpc = "reload" /\ tail = qtail /\ tail \in Skbs /\ tail # STUB
      /\ UNCHANGED <<NEXT, qhead, producerVars>>
  BY <1>1, QueueAssumption DEF Shape, ConsumerAt, dequeue_reload
<1>3. TakenUnreturned <=> stub_old = tail
  BY <1>2 DEF TakenUnreturned
<1>4. CASE ~ TakenUnreturned /\ NEXT[tail] # NULL
  BY <1>2, <1>3, <1>4, TakeFirstOK DEF dequeue_reload
<1>5. CASE ~ TakenUnreturned /\ NEXT[tail] = NULL
  BY <1>2, <1>5, NullReturnedOK DEF dequeue_reload
<1>6. CASE TakenUnreturned
  <2>1. k = 0 /\ NEXT[tail] = STUB
    BY <1>1, <1>2, <1>6 DEF Shape, Ends, StubLink, StubPred
  <2>2. /\ fifo' = fifo /\ qtail' = STUB /\ count' = count - 1
        /\ cpc' = "idle" /\ tail' = NULL /\ stub_old' = NULL
    BY <1>3, <1>6, <2>1, QueueAssumption DEF dequeue_reload, ReturnSkb
  <2>3. ~ TakenUnreturned'
    BY <2>2 DEF TakenUnreturned
  <2>4. linking' = linking
    BY <1>2 DEF linking, producerVars
  <2>5. Distinct' /\ Owners'
    BY <1>2, <2>2, <2>3 DEF QueueInv, ListInv, Distinct, Owners, InFifo, producerVars
  <2>6. Ends(k)'
    BY <1>1, <1>2, <2>1, <2>2, <2>3 DEF Shape, Ends
  <2>7. PacketLinks(k)' /\ Linkers(k)'
    BY <1>1, <1>2, <2>2, <2>4 DEF Shape, PacketLinks, Linkers, HasPred, Pred, producerVars
  <2>8. StubLink(k)' /\ ConsumerAt(k)'
    BY <2>1, <2>2, <2>3 DEF StubLink, ConsumerAt
  <2>9. ListInv'
    BY <1>1, <2>2, <2>5, <2>6, <2>7, <2>8 DEF ListInv, Shape
  <2>10. count \in Nat /\ Len(fifo) \in Nat
    BY DEF QueueInv, TypeOK
  <2>11. Balanced /\ count' <= count
    BY <1>6, <2>2, <2>3, <2>10 DEF Balanced, InHand
  <2> QED BY <2>2, <2>4, <2>9, <2>11 DEF ConsumerStepOK, Kept
<1> QED BY <1>4, <1>5, <1>6

(* What the invariant looks at is the same before and after.                *)
LEMMA SameList ==
  ASSUME QueueInv, UNCHANGED <<NEXT, qhead, qtail, count, producerVars,
                               consumerVars, fifo, gap>>
  PROVE  ListInv' /\ ConsumerStepOK
<1>1. PICK k \in -1 .. Len(fifo) : Shape(k)
  BY DEF QueueInv, ListInv
<1>2. TakenUnreturned' = TakenUnreturned /\ linking' = linking
  BY DEF TakenUnreturned, consumerVars, linking, producerVars
<1>3. Distinct' /\ Owners'
  BY <1>2 DEF QueueInv, ListInv, Distinct, Owners, InFifo, producerVars, consumerVars
<1>4. Ends(k)' /\ PacketLinks(k)' /\ Linkers(k)'
  BY <1>1, <1>2 DEF Shape, Ends, PacketLinks, Linkers, InFifo, HasPred, Pred,
     producerVars, consumerVars
<1>5. StubLink(k)' /\ ConsumerAt(k)'
  BY <1>1, <1>2 DEF Shape, StubLink, StubPred, ConsumerAt, consumerVars
<1>6. ListInv'
  BY <1>1, <1>3, <1>4, <1>5 DEF ListInv, Shape
<1>7. count \in Nat /\ Len(fifo) \in Nat
  BY DEF QueueInv, TypeOK
<1>8. Balanced /\ count' <= count
  BY <1>2, <1>7 DEF Balanced, InHand
<1> QED BY <1>2, <1>6, <1>8 DEF ConsumerStepOK, Kept

(* Dropping the peeked packet does not touch the list.                      *)
LEMMA DropStep ==
  ASSUME QueueInv, drop_peeked, TrackGap
  PROVE  ConsumerStepOK
<1>1. cpc' = "idle" /\ cpc = "idle" /\ UNCHANGED <<NEXT, qhead, qtail, count,
         producerVars, tail, stub_old, fifo>>
  BY DEF drop_peeked, consumerVars
<1>2. PICK k \in -1 .. Len(fifo) : Shape(k)
  BY DEF QueueInv, ListInv
<1>3. ~ TakenUnreturned /\ ~ TakenUnreturned' /\ linking' = linking
  BY <1>1 DEF TakenUnreturned, linking, producerVars
<1>4. Distinct' /\ Owners'
  BY <1>1, <1>3 DEF QueueInv, ListInv, Distinct, Owners, InFifo, producerVars
<1>5. Ends(k)' /\ PacketLinks(k)' /\ Linkers(k)'
  BY <1>1, <1>2, <1>3 DEF Shape, Ends, PacketLinks, Linkers, HasPred, Pred,
     producerVars
<1>6. StubLink(k)' /\ ConsumerAt(k)'
  BY <1>1, <1>2, <1>3 DEF Shape, StubLink, StubPred, ConsumerAt
<1>7. ListInv'
  BY <1>1, <1>2, <1>4, <1>5, <1>6 DEF ListInv, Shape
<1> QED BY <1>1, <1>3, <1>7, KeptOK

(* Every step of the consumer.                                              *)
LEMMA ConsumerStep ==
  ASSUME QueueInv, ConsumerNext, TrackGap
  PROVE  ConsumerStepOK
BY BeginStep, LoadNextStep, CompareStep, StubClearStep, StubXchgStep,
   StubLinkStep, ReloadStep, DropStep DEF ConsumerNext

-----------------------------------------------------------------------------
(* Types and the count.                                                     *)

Pending == {a \in Producers : ppc[a] \in {"clear", "xchg"}}

(* The producers that have counted their packet and not yet placed it.      *)
LEMMA PendingFacts ==
  /\ IsFiniteSet(Pending) /\ Cardinality(Pending) \in Nat
  /\ \A a \in Pending : Cardinality(Pending) >= 1
<1>1. IsFiniteSet(Pending)
  BY QueueAssumption, FS_Subset DEF Pending
<1>2. Cardinality(Pending) \in Nat
  BY <1>1, FS_CardinalityType
<1>3. ASSUME NEW a \in Pending PROVE Cardinality(Pending) >= 1
  <2>1. Cardinality(Pending) # 0
    BY <1>1, <1>3, FS_EmptySet
  <2> QED BY <1>2, <2>1
<1> QED BY <1>1, <1>2, <1>3

(* The count after a producer's step.                                       *)
LEMMA ProducerCount ==
  ASSUME QueueInv, NEW a \in Producers, ProducerNext(a)
  PROVE  CountExact' /\ count' \in 0 .. MAX_QUEUED_PACKETS
<1>1. /\ count = Len(fifo) + Cardinality(Pending) + InHand
      /\ count \in 0 .. MAX_QUEUED_PACKETS /\ MAX_QUEUED_PACKETS \in Nat
      /\ fifo \in Seq(Skbs) /\ Len(fifo) \in Nat /\ InHand \in {0, 1}
      /\ ppc \in [Producers -> {"idle", "clear", "xchg", "link"}]
  BY QueueAssumption DEF QueueInv, TypeOK, CountExact, Pending, InHand
<1>2. InHand' = InHand
  BY DEF InHand, TakenUnreturned, ProducerNext, enqueue_count, enqueue_clear,
         enqueue_xchg, enqueue_link, consumerVars
<1> SUFFICES /\ count' = Len(fifo') + Cardinality(Pending') + InHand'
             /\ count' \in 0 .. MAX_QUEUED_PACKETS
  BY DEF CountExact, Pending, InHand
<1>3. ASSUME NEW s \in Skbs, enqueue_count(a, s)
      PROVE  /\ count' = Len(fifo') + Cardinality(Pending') + InHand'
             /\ count' \in 0 .. MAX_QUEUED_PACKETS
  <2>1. Pending' = Pending \cup {a} /\ a \notin Pending
    BY <1>1, <1>3 DEF Pending, enqueue_count
  <2>2. Cardinality(Pending') = Cardinality(Pending) + 1
    BY <2>1, PendingFacts, FS_AddElement
  <2>3. fifo' = fifo /\ count' = count + 1 /\ count # MAX_QUEUED_PACKETS
    BY <1>3 DEF enqueue_count
  <2> QED BY <1>1, <1>2, <2>2, <2>3, PendingFacts
<1>4. ASSUME enqueue_clear(a) \/ enqueue_link(a)
      PROVE  /\ count' = Len(fifo') + Cardinality(Pending') + InHand'
             /\ count' \in 0 .. MAX_QUEUED_PACKETS
  <2>1. Pending' = Pending
    BY <1>1, <1>4 DEF Pending, enqueue_clear, enqueue_link
  <2>2. fifo' = fifo /\ count' = count
    BY <1>4 DEF enqueue_clear, enqueue_link
  <2> QED BY <1>1, <1>2, <2>1, <2>2
<1>5. ASSUME enqueue_xchg(a)
      PROVE  /\ count' = Len(fifo') + Cardinality(Pending') + InHand'
             /\ count' \in 0 .. MAX_QUEUED_PACKETS
  <2>1. Pending' = Pending \ {a} /\ a \in Pending
    BY <1>1, <1>5 DEF Pending, enqueue_xchg
  <2>2. Cardinality(Pending') = Cardinality(Pending) - 1
    BY <2>1, PendingFacts, FS_RemoveElement
  <2>3. Len(fifo') = Len(fifo) + 1 /\ count' = count
    BY <1>1, <1>5, QueueAssumption
    DEF enqueue_xchg, QueueInv, TypeOK, ListInv, Owners
  <2> QED BY <1>1, <1>2, <2>2, <2>3, PendingFacts
<1> QED BY <1>3, <1>4, <1>5 DEF ProducerNext

(* The count after a consumer's step.                                       *)
LEMMA ConsumerCount ==
  ASSUME QueueInv, ConsumerStepOK, UNCHANGED producerVars
  PROVE  CountExact' /\ count' \in 0 .. MAX_QUEUED_PACKETS
<1>1. /\ count = Len(fifo) + Cardinality(Pending) + InHand
      /\ count \in 0 .. MAX_QUEUED_PACKETS /\ MAX_QUEUED_PACKETS \in Nat
      /\ Len(fifo) \in Nat /\ fifo \in Seq(Skbs)
      /\ InHand \in {0, 1} /\ InHand' \in {0, 1}
  BY QueueAssumption DEF QueueInv, TypeOK, CountExact, Pending, InHand
<1>2. Pending' = Pending
  BY DEF Pending, producerVars
<1>3. Len(fifo') \in Nat
  BY <1>1 DEF ConsumerStepOK, Took, Kept
<1>4. count' = Len(fifo') + Cardinality(Pending') + InHand'
  BY <1>1, <1>2, <1>3, PendingFacts DEF ConsumerStepOK, Balanced
<1>5. count' \in 0 .. MAX_QUEUED_PACKETS
  BY <1>1, <1>2, <1>3, <1>4, PendingFacts DEF ConsumerStepOK
<1> QED BY <1>4, <1>5 DEF CountExact, Pending, InHand

\* The types of what the producers and the consumer assign.
ListTypes == /\ NEXT \in [Elems -> Elems \cup {NULL}]
             /\ qhead \in Elems /\ qtail \in Elems
             /\ peeked \in Skbs \cup {NULL}
ProducerTypes == /\ ppc \in [Producers -> {"idle", "clear", "xchg", "link"}]
                 /\ pskb \in [Producers -> Skbs \cup {NULL}]
                 /\ old \in [Producers -> Elems \cup {NULL}]
ConsumerTypes == /\ cpc \in {"idle", "load_next", "compare", "stub_clear",
                             "stub_xchg", "stub_link", "reload"}
                 /\ tail \in Elems \cup {NULL}
                 /\ stub_old \in Elems \cup {NULL}

(* A producer's step keeps the types: what it holds is a packet.            *)
LEMMA ProducerType ==
  ASSUME QueueInv, NEW a \in Producers, ProducerNext(a)
  PROVE  /\ ListTypes' /\ ProducerTypes' /\ ConsumerTypes'
         /\ fifo' \in Seq(Skbs)
<1>1. ppc[a] # "idle" => pskb[a] \in Skbs
  BY QueueAssumption DEF QueueInv, TypeOK, ListInv, Owners
<1>2. ConsumerTypes'
  BY DEF QueueInv, TypeOK, ConsumerTypes, consumerVars, ProducerNext,
         enqueue_count, enqueue_clear, enqueue_xchg, enqueue_link
<1>3. ASSUME NEW s \in Skbs, enqueue_count(a, s)
      PROVE  ListTypes' /\ ProducerTypes' /\ fifo' \in Seq(Skbs)
  BY <1>3 DEF QueueInv, TypeOK, ListTypes, ProducerTypes, enqueue_count
<1>4. ASSUME enqueue_clear(a)
      PROVE  ListTypes' /\ ProducerTypes' /\ fifo' \in Seq(Skbs)
  BY <1>4 DEF QueueInv, TypeOK, ListTypes, ProducerTypes, enqueue_clear
<1>5. ASSUME enqueue_xchg(a)
      PROVE  ListTypes' /\ ProducerTypes' /\ fifo' \in Seq(Skbs)
  BY <1>1, <1>5 DEF QueueInv, TypeOK, ListTypes, ProducerTypes, enqueue_xchg, Elems
<1>6. ASSUME enqueue_link(a)
      PROVE  ListTypes' /\ ProducerTypes' /\ fifo' \in Seq(Skbs)
  BY <1>1, <1>6 DEF QueueInv, TypeOK, ListTypes, ProducerTypes, enqueue_link, Elems
<1> QED BY <1>2, <1>3, <1>4, <1>5, <1>6 DEF ProducerNext

(* A consumer's step keeps the types: it returns packets, never STUB.       *)
LEMMA ConsumerType ==
  ASSUME QueueInv, ConsumerNext, ConsumerStepOK
  PROVE  /\ ListTypes' /\ ProducerTypes' /\ ConsumerTypes'
         /\ fifo' \in Seq(Skbs)
<1>1. cpc # "idle" => tail \in Skbs
  BY DEF QueueInv, ListInv, Shape, ConsumerAt
<1>2. ListTypes /\ ProducerTypes /\ ConsumerTypes /\ STUB \in Elems
  BY DEF QueueInv, TypeOK, ListTypes, ProducerTypes, ConsumerTypes, Elems
<1>3. ProducerTypes'
  BY <1>2 DEF ProducerTypes, ConsumerNext, dequeue_begin, dequeue_load_next,
     dequeue_compare, dequeue_stub_clear, dequeue_stub_xchg, dequeue_stub_link,
     dequeue_reload, drop_peeked, producerVars
<1>4. fifo' \in Seq(Skbs)
  <2>1. fifo \in Seq(Skbs)
    BY DEF QueueInv, TypeOK
  <2>2. CASE Took
    BY <2>1, <2>2 DEF Took
  <2>3. CASE Kept
    BY <2>1, <2>3 DEF Kept
  <2> QED BY <2>2, <2>3 DEF ConsumerStepOK
<1>5. ASSUME dequeue_begin PROVE ListTypes' /\ ConsumerTypes'
  BY <1>2, <1>5 DEF ListTypes, ConsumerTypes, dequeue_begin, ReturnNull,
     ReturnSkb, Elems
<1>6. ASSUME dequeue_load_next \/ dequeue_reload PROVE ListTypes' /\ ConsumerTypes'
  BY <1>1, <1>2, <1>6 DEF ListTypes, ConsumerTypes, dequeue_load_next,
     dequeue_reload, ReturnNull, ReturnSkb, Elems
<1>7. ASSUME dequeue_compare PROVE ListTypes' /\ ConsumerTypes'
  BY <1>2, <1>7 DEF ListTypes, ConsumerTypes, dequeue_compare, ReturnNull
<1>8. ASSUME dequeue_stub_clear \/ dequeue_stub_xchg PROVE ListTypes' /\ ConsumerTypes'
  BY <1>2, <1>8 DEF ListTypes, ConsumerTypes, dequeue_stub_clear,
     dequeue_stub_xchg
<1>9. ASSUME dequeue_stub_link PROVE ListTypes' /\ ConsumerTypes'
  BY <1>2, <1>9 DEF ListTypes, ConsumerTypes, dequeue_stub_link
<1>10. ASSUME drop_peeked PROVE ListTypes' /\ ConsumerTypes'
  BY <1>2, <1>10 DEF ListTypes, ConsumerTypes, drop_peeked, consumerVars
<1> QED BY <1>3, <1>4, <1>5, <1>6, <1>7, <1>8, <1>9, <1>10 DEF ConsumerNext

(* The history variable gap stays a truth value.                            *)
LEMMA GapType == TrackGap => gap' \in BOOLEAN
BY DEF TrackGap

(* Every step preserves the inductive invariant.                            *)
LEMMA StepInv == QueueInv /\ [Next]_vars => QueueInv'
<1> SUFFICES ASSUME QueueInv, [Next]_vars PROVE QueueInv'
  OBVIOUS
<1>1. ASSUME NEW a \in Producers, ProducerNext(a), TrackGap PROVE QueueInv'
  <2>1. ListInv'
    BY <1>1, CountStep, ClearStep, XchgStep, LinkStep DEF ProducerNext
  <2>2. CountExact' /\ count' \in 0 .. MAX_QUEUED_PACKETS
    BY <1>1, ProducerCount
  <2>3. /\ ListTypes' /\ ProducerTypes' /\ ConsumerTypes'
        /\ fifo' \in Seq(Skbs)
    BY <1>1, ProducerType
  <2>4. gap' \in BOOLEAN
    BY <1>1, GapType
  <2> QED BY <2>1, <2>2, <2>3, <2>4
          DEF QueueInv, TypeOK, ListTypes, ProducerTypes, ConsumerTypes
<1>2. ASSUME ConsumerNext, TrackGap PROVE QueueInv'
  <2>1. ConsumerStepOK
    BY <1>2, ConsumerStep
  <2>2. UNCHANGED producerVars
    BY <1>2 DEF ConsumerNext, dequeue_begin, dequeue_load_next,
       dequeue_compare, dequeue_stub_clear, dequeue_stub_xchg,
       dequeue_stub_link, dequeue_reload, drop_peeked
  <2>3. CountExact' /\ count' \in 0 .. MAX_QUEUED_PACKETS
    BY <2>1, <2>2, ConsumerCount
  <2>4. /\ ListTypes' /\ ProducerTypes' /\ ConsumerTypes'
        /\ fifo' \in Seq(Skbs)
    BY <1>2, <2>1, ConsumerType
  <2>5. gap' \in BOOLEAN
    BY <1>2, GapType
  <2> QED BY <2>1, <2>3, <2>4, <2>5
          DEF QueueInv, TypeOK, ListTypes, ProducerTypes, ConsumerTypes,
              ConsumerStepOK
<1>3. CASE UNCHANGED vars
  <2>1. ListInv'
    BY <1>3, SameList DEF vars, shared
  <2>2. TypeOK'
    BY <1>3 DEF QueueInv, TypeOK, vars, shared, producerVars, consumerVars
  <2>3. CountExact'
    BY <1>3 DEF QueueInv, CountExact, TakenUnreturned, vars, shared,
       producerVars, consumerVars
  <2> QED BY <2>1, <2>2, <2>3 DEF QueueInv
<1> QED BY <1>1, <1>2, <1>3 DEF Next

-----------------------------------------------------------------------------
(* The theorems.                                                            *)

(* The inductive invariant holds in every reachable state.                  *)
LEMMA QueueInvHolds == Spec => []QueueInv
BY InitInv, StepInv, PTL DEF Spec

(* Type correctness: in particular queue->count stays within 0 and          *)
(* MAX_QUEUED_PACKETS, and wg_prev_queue_dequeue never returns STUB.        *)
THEOREM QueueTypeCorrect == Spec => []TypeOK
<1>1. QueueInv => TypeOK
  BY DEF QueueInv
<1> QED BY <1>1, QueueInvHolds, PTL

(* queue->count is exact: the packets in the list, those of the producers   *)
(* between counting and xchg, and the one in the consumer's hand.           *)
THEOREM QueueCountExact == Spec => []CountExact
<1>1. QueueInv => CountExact
  BY DEF QueueInv
<1> QED BY <1>1, QueueInvHolds, PTL

(* wg_prev_queue_dequeue answers NULL only if during the call the queue was *)
(* empty or one of its first two packets was not linked.                    *)
THEOREM QueueNullOnlyOnGap == Spec => []NullOnlyOnGap
<1>1. QueueInv => NullOnlyOnGap
  <2> SUFFICES ASSUME QueueInv, WillReturnNull, ~ gap PROVE Gap
    BY DEF NullOnlyOnGap
  <2>1. PICK k \in -1 .. Len(fifo) : Shape(k)
    BY DEF QueueInv, ListInv
  <2>2. fifo \in Seq(Skbs) /\ STUB \notin Skbs /\ NULL \notin Skbs /\ STUB # NULL
    BY QueueAssumption DEF QueueInv, TypeOK
  <2>3. CASE cpc = "idle" /\ qtail = STUB /\ NEXT[STUB] = NULL
    <3>1. k = 0
      BY <2>1, <2>2, <2>3 DEF Shape, Ends, TakenUnreturned
    <3>2. CASE Len(fifo) > 0
      <4>1. 1 \in DOMAIN fifo /\ HasPred(k, 1) /\ Pred(k, 1) = STUB /\ fifo[1] \in Skbs
        BY <2>2, <3>1, <3>2 DEF HasPred, Pred
      <4>2. fifo[1] \in linking
        BY <2>1, <2>2, <2>3, <4>1 DEF Shape, PacketLinks
      <4> QED BY <2>2, <3>2, <4>2 DEF Gap
    <3>3. CASE Len(fifo) = 0
      BY <2>2, <3>3 DEF Gap
    <3> QED BY <2>2, <3>2, <3>3
  <2>4. CASE cpc = "compare" /\ tail # qhead
    <3>1. k = -1 /\ Len(fifo) = 1 /\ tail = qtail
      BY <2>1, <2>4 DEF Shape, ConsumerAt
    <3>2. qtail = fifo[1] /\ qhead = fifo[1]
      BY <2>1, <2>4, <3>1 DEF Shape, Ends, TakenUnreturned
    <3> QED BY <2>4, <3>1, <3>2
  <2>5. CASE cpc = "reload" /\ NEXT[tail] = NULL
    <3>1. tail = qtail /\ tail \in Skbs
      BY <2>1, <2>5 DEF Shape, ConsumerAt
    <3>2. ~ TakenUnreturned
      BY <2>1, <2>2, <2>5 DEF Shape, StubLink, StubPred
    <3>3. k # 0 /\ tail = fifo[1]
      BY <2>1, <2>2, <3>1, <3>2 DEF Shape, Ends
    <3>4. k # 1
      BY <2>1, <2>2, <2>5, <3>2, <3>3 DEF Shape, StubLink, StubPred
    <3>5. Len(fifo) > 1
      BY <2>1, <2>2, <2>5, <3>3, <3>4 DEF Shape, ConsumerAt
    <3>6. 2 \in DOMAIN fifo /\ HasPred(k, 2) /\ Pred(k, 2) = fifo[1] /\ fifo[2] \in Skbs
      BY <2>2, <3>4, <3>5 DEF HasPred, Pred
    <3>7. fifo[2] \in linking
      BY <2>1, <2>2, <2>5, <3>3, <3>6 DEF Shape, PacketLinks
    <3> QED BY <3>5, <3>7 DEF Gap
  <2> QED BY <2>3, <2>4, <2>5 DEF WillReturnNull
<1> QED BY <1>1, QueueInvHolds, PTL

(* Every step of the pointer code is a step of the queue, or none: an xchg  *)
(* places, a store links, and the consumer takes the first linked packet.   *)
LEMMA StepRefines ==
  ASSUME QueueInv, [Next]_vars
  PROVE  [Abstract!SpecNext]_(Abstract!specVars)
<1>1. ASSUME NEW a \in Producers, ProducerNext(a)
      PROVE  [Abstract!SpecNext]_(Abstract!specVars)
  <2>1. Owners /\ TypeOK
    BY DEF QueueInv, ListInv
  <2>2. ASSUME enqueue_xchg(a) PROVE \E s \in Skbs : Abstract!Place(s)
    <3>1. pskb[a] \in Skbs /\ ~ InFifo(pskb[a])
      BY <2>1, <2>2, QueueAssumption DEF Owners, TypeOK, enqueue_xchg
    <3>2. Len(fifo) < MAX_QUEUED_PACKETS
      <4>1. a \in Pending
        BY <2>2 DEF Pending, enqueue_xchg
      <4>2. count = Len(fifo) + Cardinality(Pending) + InHand /\ InHand \in {0, 1}
        BY DEF QueueInv, CountExact, Pending, InHand
      <4>3. Len(fifo) \in Nat /\ count \in 0 .. MAX_QUEUED_PACKETS
        BY <2>1 DEF TypeOK
      <4> QED BY <4>1, <4>2, <4>3, PendingFacts, QueueAssumption
    <3>3. linking' = linking \cup {pskb[a]}
      BY <2>1, <2>2, LinkingSteps
    <3> QED BY <2>2, <3>1, <3>2, <3>3
            DEF Abstract!Place, Abstract!InFifo, InFifo, enqueue_xchg
  <2>3. ASSUME enqueue_link(a) PROVE \E s \in Skbs : Abstract!Link(s)
    <3>1. pskb[a] \in linking /\ linking' = linking \ {pskb[a]} /\ fifo' = fifo
      BY <2>1, <2>3, LinkingSteps DEF enqueue_link
    <3>2. pskb[a] \in Skbs
      BY <2>1, <2>3, QueueAssumption DEF Owners, TypeOK, enqueue_link
    <3> QED BY <3>1, <3>2 DEF Abstract!Link
  <2>4. ASSUME NEW s \in Skbs, enqueue_count(a, s) PROVE UNCHANGED Abstract!specVars
    BY <2>1, <2>4, LinkingSteps DEF Abstract!specVars, enqueue_count
  <2>5. ASSUME enqueue_clear(a) PROVE UNCHANGED Abstract!specVars
    BY <2>1, <2>5, LinkingSteps DEF Abstract!specVars, enqueue_clear
  <2> QED BY <1>1, <2>2, <2>3, <2>4, <2>5 DEF ProducerNext, Abstract!SpecNext
<1>2. ASSUME ConsumerNext, TrackGap
      PROVE  [Abstract!SpecNext]_(Abstract!specVars)
  <2>1. Took \/ Kept
    BY <1>2, ConsumerStep DEF ConsumerStepOK
  <2>2. ASSUME Took PROVE Abstract!Take
    <3>1. Head(fifo) = fifo[1]
      BY DEF QueueInv, TypeOK
    <3> QED BY <2>2, <3>1 DEF Took, Abstract!Take
  <2> QED BY <2>1, <2>2 DEF Kept, Abstract!SpecNext, Abstract!specVars
<1>3. ASSUME UNCHANGED vars PROVE UNCHANGED Abstract!specVars
  BY <1>3 DEF vars, shared, producerVars, linking, Abstract!specVars
<1> QED BY <1>1, <1>2, <1>3 DEF Next

(* The pointer code of wg_prev_queue_enqueue and wg_prev_queue_dequeue      *)
(* implements the FIFO with two-step enqueue, for every interleaving of any *)
(* number of producers with the consumer, although memory is reused.        *)
THEOREM QueueImplementsFifo == Spec => ImplementsFifo
<1>1. Init => Abstract!SpecInit
  BY DEF Init, linking, Abstract!SpecInit
<1>2. QueueInv /\ [Next]_vars => [Abstract!SpecNext]_(Abstract!specVars)
  BY StepRefines
<1> QED BY <1>1, <1>2, QueueInvHolds, PTL DEF Spec, ImplementsFifo, Abstract!QueueSpec
=============================================================================
