----------------------------- MODULE TxPathProofs -----------------------------
(***************************************************************************)
(* The send path, for any number of contexts that send, encrypt workers,    *)
(* packets and keys, and any sizes of the queues.                           *)
(*                                                                          *)
(* The packets: no nonce is used twice with a key and none at or above the  *)
(* limit, and packets are sent in the order in which their lists took       *)
(* places in tx_queue.  The argument is about where a packet is: staged, in *)
(* the hands of one context, or in one list on its way, and never in two of *)
(* these places, so that a number is only written into a packet nobody      *)
(* sends yet.                                                               *)
(*                                                                          *)
(* The lists: who owns a list at each moment, that the two flushes of       *)
(* peer_remove_after_dead leave none in the queues, and that the references *)
(* to peer and keypairs are exactly those of the lists, contexts and slots  *)
(* that point to them.                                                      *)
(***************************************************************************)
EXTENDS TxPath, FiniteSetTheorems, TLAPS

\* The bounds and the limit are numbers.
Limits == MaxPackets \in Nat /\ MAX_STAGED_PACKETS \in Nat /\ MESSAGE_LIMIT \in Nat

SenderPCs == {"idle", "keepalive", "steal", "key", "nonce", "putback", "create", "enqueue",
              "link", "produce", "kick", "kicktx", "free"}

\* A context in one of these holds the packets it took off the staged queue.
HoldPCs == {"key", "nonce", "putback", "create", "enqueue"}
\* In these it still works on the list it has put into tx_queue.
ListPCs == {"link", "produce"}

SenderTypes == [pc : SenderPCs, packets : Seq(Packets), key : Nat, at : Nat]
Slots == [first : Packets, linked : BOOLEAN]
KeyTypes == [sending_counter : Nat, is_valid : BOOLEAN, krefs : Int]

TxTypeOK ==
    /\ made \in 0 .. MaxPackets
    /\ staged \in Seq(Packets) /\ wire \in Seq(Packets)
    /\ list \in [Packets -> Seq(Packets)]
    /\ cb \in [Packets -> [nonce : Int, keypair : Nat]]
    /\ keys \in Seq(KeyTypes) /\ current \in 0 .. Len(keys)
    /\ sender \in [Senders -> SenderTypes]
    /\ tx_queue \in Seq(Slots)
    /\ txpeeked \in 0 .. MaxPackets

\* A context at work has packets, and one that numbers them is within them.
Shaped(r, n) ==
    /\ r.pc \in HoldPCs \cup ListPCs => r.packets # <<>>
    /\ r.pc = "nonce" => r.key \in 1 .. n /\ r.at \in 1 .. Len(r.packets)
SenderShape == \A s \in Senders : Shaped(sender[s], Len(keys))

In(p, q) == \E i \in 1 .. Len(q) : q[i] = p
NoRepeat(q) == \A i, j \in 1 .. Len(q) : q[i] = q[j] => i = j

Holds(s) == sender[s].pc \in HoldPCs
Held(s, p) == Holds(s) /\ In(p, sender[s].packets)
Staged(p) == In(p, staged)
Gone(p) == In(p, wire) \/ \E f \in Packets : In(p, list[f])

\* How many of its packets a context has numbered.
UptoOf(r) == IF r.pc = "nonce" THEN r.at - 1
             ELSE IF r.pc \in {"create", "enqueue"} THEN Len(r.packets) ELSE 0
Upto(s) == UptoOf(sender[s])
Numbered(p) == Gone(p) \/ \E s \in Senders : \E i \in 1 .. Upto(s) : sender[s].packets[i] = p

(* A packet is in one place: staged, with one context, or gone into a list.  *)
OnePlace ==
    /\ NoRepeat(staged) /\ \A s \in Senders : Holds(s) => NoRepeat(sender[s].packets)
    /\ \A p \in Packets : Staged(p) \/ Gone(p) \/ (\E s \in Senders : Held(s, p)) => p <= made
    /\ \A p \in Packets : Staged(p) => ~ Gone(p) /\ \A s \in Senders : ~ Held(s, p)
    /\ \A p \in Packets, s \in Senders : Held(s, p) =>
          ~ Gone(p) /\ \A t \in Senders : Held(t, p) => t = s

(* A numbered packet has a number its key has given out, below the limit,    *)
(* and shares it with no other.                                              *)
NumbersFresh ==
    /\ \A p \in Packets : Numbered(p) =>
          /\ cb[p].keypair \in 1 .. Len(keys)
          /\ cb[p].nonce \in Nat /\ cb[p].nonce < MESSAGE_LIMIT
          /\ cb[p].nonce < keys[cb[p].keypair].sending_counter
    /\ \A p, q \in Packets : Numbered(p) /\ Numbered(q) /\ p # q => cb[p] # cb[q]

NonceInv == Limits /\ TxTypeOK /\ SenderShape /\ OnePlace /\ NumbersFresh

-------------------------------------------------------------------------------
(* Sequences of packets.                                                     *)

(* What is in a sequence, in two put together, and in none.                  *)
LEMMA InConcat ==
  ASSUME NEW q \in Seq(Packets), NEW r \in Seq(Packets), NEW p
  PROVE  /\ q \o r \in Seq(Packets)
         /\ In(p, q \o r) => In(p, q) \/ In(p, r)
         /\ ~ In(p, <<>>)
<1>1. /\ q \o r \in Seq(Packets) /\ Len(q) \in Nat /\ Len(r) \in Nat
      /\ Len(q \o r) = Len(q) + Len(r)
      /\ \A i \in 1 .. Len(q \o r) :
            (q \o r)[i] = IF i <= Len(q) THEN q[i] ELSE r[i - Len(q)]
  OBVIOUS
<1>2. ASSUME In(p, q \o r) PROVE In(p, q) \/ In(p, r)
  <2>1. PICK i \in 1 .. Len(q \o r) : (q \o r)[i] = p
    BY <1>2 DEF In
  <2>2. CASE i <= Len(q)
    BY <1>1, <2>1, <2>2 DEF In
  <2>3. CASE i > Len(q)
    <3>1. i - Len(q) \in 1 .. Len(r) /\ r[i - Len(q)] = p
      BY <1>1, <2>1, <2>3
    <3> QED BY <3>1 DEF In
  <2> QED BY <1>1, <2>2, <2>3
<1>3. ~ In(p, <<>>)
  BY DEF In
<1> QED BY <1>1, <1>2, <1>3

(* Two sequences without repetition that have nothing in common.             *)
LEMMA NoRepeatConcat ==
  ASSUME NEW q \in Seq(Packets), NEW r \in Seq(Packets), NoRepeat(q), NoRepeat(r),
         \A p \in Packets : ~ (In(p, q) /\ In(p, r))
  PROVE  NoRepeat(q \o r)
<1>1. /\ Len(q) \in Nat /\ Len(r) \in Nat /\ Len(q \o r) = Len(q) + Len(r)
      /\ \A i \in 1 .. Len(q) : q[i] \in Packets
      /\ \A i \in 1 .. Len(r) : r[i] \in Packets
      /\ \A i \in 1 .. Len(q \o r) :
            (q \o r)[i] = IF i <= Len(q) THEN q[i] ELSE r[i - Len(q)]
  OBVIOUS
<1>2. ASSUME NEW i \in 1 .. Len(q), NEW j \in 1 .. Len(r) PROVE q[i] # r[j]
  BY <1>1 DEF In
<1> SUFFICES ASSUME NEW i \in 1 .. Len(q \o r), NEW j \in 1 .. Len(q \o r),
                    (q \o r)[i] = (q \o r)[j]
             PROVE  i = j
  BY DEF NoRepeat
<1>3. CASE i <= Len(q) /\ j <= Len(q)
  BY <1>1, <1>3 DEF NoRepeat
<1>4. CASE i > Len(q) /\ j > Len(q)
  <2>1. /\ i - Len(q) \in 1 .. Len(r) /\ j - Len(q) \in 1 .. Len(r)
        /\ r[i - Len(q)] = r[j - Len(q)]
    BY <1>1, <1>4
  <2>2. i - Len(q) = j - Len(q)
    BY <2>1 DEF NoRepeat
  <2> QED BY <1>1, <2>2
<1>5. CASE i <= Len(q) /\ j > Len(q)
  <2>1. i \in 1 .. Len(q) /\ j - Len(q) \in 1 .. Len(r) /\ q[i] = r[j - Len(q)]
    BY <1>1, <1>5
  <2> QED BY <1>2, <2>1
<1>6. CASE i > Len(q) /\ j <= Len(q)
  <2>1. j \in 1 .. Len(q) /\ i - Len(q) \in 1 .. Len(r) /\ q[j] = r[i - Len(q)]
    BY <1>1, <1>6
  <2> QED BY <1>2, <2>1
<1> QED BY <1>1, <1>3, <1>4, <1>5, <1>6

(* The end of a sequence, as the staged queue keeps it when it is full.      *)
LEMMA EndOfSeq ==
  ASSUME NEW q \in Seq(Packets), NEW n \in Nat, n < Len(q), NoRepeat(q)
  PROVE  LET e == SubSeq(q, Len(q) - n + 1, Len(q))
         IN  e \in Seq(Packets) /\ NoRepeat(e) /\ \A p : In(p, e) => In(p, q)
<1> DEFINE e == SubSeq(q, Len(q) - n + 1, Len(q))
<1>1. /\ e \in Seq(Packets) /\ Len(e) = n /\ Len(q) \in Nat
      /\ \A i \in 1 .. n : e[i] = q[Len(q) - n + i] /\ Len(q) - n + i \in 1 .. Len(q)
  OBVIOUS
<1> HIDE DEF e
<1>2. NoRepeat(e)
  <2> SUFFICES ASSUME NEW i \in 1 .. n, NEW j \in 1 .. n, e[i] = e[j] PROVE i = j
    BY <1>1 DEF NoRepeat
  <2>1. PICK k \in 1 .. Len(q), l \in 1 .. Len(q) :
              k = Len(q) - n + i /\ l = Len(q) - n + j /\ q[k] = q[l]
    BY <1>1
  <2>2. k = l
    BY <2>1 DEF NoRepeat
  <2> QED BY <1>1, <2>1, <2>2
<1>3. \A p : In(p, e) => In(p, q)
  BY <1>1 DEF In
<1> QED BY <1>1, <1>2, <1>3 DEF e

-------------------------------------------------------------------------------
(* Steps that move no packet into a place.                                   *)

\* The keys keep their counters; a new one may be added.
KeysKept == /\ Len(keys') >= Len(keys)
            /\ \A k \in 1 .. Len(keys) : keys'[k].sending_counter = keys[k].sending_counter

\* A context that is as before, has nothing in hand, or has what it had and
\* no more of it numbered.
KeepsHand(t) == \/ sender'[t] = sender[t]
                \/ ~ Holds(t)'
                \/ Holds(t) /\ sender'[t].packets = sender[t].packets /\ Upto(t)' <= Upto(t)

(* Nothing in such a step can break the invariant.                           *)
LEMMA HarmlessStep ==
  ASSUME NonceInv, TxTypeOK', SenderShape', made' = made, cb' = cb, KeysKept,
         staged' = staged \/ staged' = <<>>,
         \A p \in Packets : Gone(p)' => Gone(p),
         \A t \in Senders : KeepsHand(t)
  PROVE  NonceInv'
<1>1. \A p \in Packets : Staged(p)' => Staged(p)
  BY DEF Staged, In
<1>2. \A p \in Packets, t \in Senders : Held(t, p)' => Held(t, p)
  BY DEF KeepsHand, Held, Holds
<1>3. NoRepeat(staged)' /\ \A t \in Senders : Holds(t)' => NoRepeat(sender[t].packets)'
  <2>1. NoRepeat(staged) /\ \A t \in Senders : Holds(t) => NoRepeat(sender[t].packets)
    BY DEF NonceInv, OnePlace
  <2>2. NoRepeat(<<>>)
    BY DEF NoRepeat
  <2>3. \A t \in Senders : Holds(t)' => Holds(t) /\ sender'[t].packets = sender[t].packets
    BY DEF KeepsHand, Holds
  <2>4. NoRepeat(staged')
    BY <2>1, <2>2
  <2>5. \A t \in Senders : Holds(t)' => NoRepeat(sender'[t].packets)
    BY <2>1, <2>3
  <2> QED BY <2>4, <2>5 DEF NoRepeat
<1>4. OnePlace'
  BY <1>1, <1>2, <1>3 DEF NonceInv, OnePlace
<1>5. \A p \in Packets : Numbered(p)' => Numbered(p)
  <2> SUFFICES ASSUME NEW t \in Senders, NEW i \in 1 .. Upto(t)'
               PROVE  i \in 1 .. Upto(t) /\ sender'[t].packets = sender[t].packets
    BY DEF Numbered
  <2>1. Upto(t) \in Int /\ Upto(t)' \in Int
    <3>1. sender[t].at \in Nat /\ sender[t].packets \in Seq(Packets)
      BY DEF NonceInv, TxTypeOK, SenderTypes
    <3>2. sender'[t].at \in Nat /\ sender'[t].packets \in Seq(Packets)
      BY DEF TxTypeOK, SenderTypes
    <3>3. Len(sender[t].packets) \in Nat /\ Len(sender'[t].packets) \in Nat
      BY <3>1, <3>2
    <3>4. Upto(t) \in Int
      BY <3>1, <3>3 DEF Upto, UptoOf
    <3>5. Upto(t)' \in Int
      BY <3>2, <3>3 DEF Upto, UptoOf
    <3> QED BY <3>4, <3>5
  <2>2. CASE sender'[t] = sender[t]
    BY <2>2 DEF Upto
  <2>3. CASE ~ Holds(t)'
    BY <2>3 DEF Upto, UptoOf, Holds, HoldPCs
  <2>4. CASE Holds(t) /\ sender'[t].packets = sender[t].packets /\ Upto(t)' <= Upto(t)
    BY <2>1, <2>4
  <2> QED BY <2>2, <2>3, <2>4 DEF KeepsHand
<1>6. NumbersFresh'
  <2>1. Len(keys) \in Nat /\ Len(keys') \in Nat
    <3>1. keys \in Seq(KeyTypes) /\ keys' \in Seq(KeyTypes)
      BY DEF NonceInv, TxTypeOK
    <3> QED BY <3>1
  <2>2. ASSUME NEW p \in Packets, Numbered(p)'
        PROVE  /\ cb'[p].keypair \in 1 .. Len(keys')
               /\ cb'[p].nonce \in Nat /\ cb'[p].nonce < MESSAGE_LIMIT
               /\ cb'[p].nonce < keys'[cb'[p].keypair].sending_counter
    <3>1. /\ cb[p].keypair \in 1 .. Len(keys)
          /\ cb[p].nonce \in Nat /\ cb[p].nonce < MESSAGE_LIMIT
          /\ cb[p].nonce < keys[cb[p].keypair].sending_counter
      BY <1>5, <2>2 DEF NonceInv, NumbersFresh
    <3>2. cb[p].keypair \in 1 .. Len(keys')
      BY <2>1, <3>1 DEF KeysKept
    <3>3. keys'[cb[p].keypair].sending_counter = keys[cb[p].keypair].sending_counter
      BY <3>1 DEF KeysKept
    <3> QED BY <3>1, <3>2, <3>3
  <2>3. \A p, q \in Packets : Numbered(p)' /\ Numbered(q)' /\ p # q => cb'[p] # cb'[q]
    BY <1>5 DEF NonceInv, NumbersFresh
  <2> QED BY <2>2, <2>3 DEF NumbersFresh
<1> QED BY <1>4, <1>6 DEF NonceInv, Limits

(* A context alone changes: it lets go of what it had, or keeps it and has   *)
(* numbered no more of it.                                                   *)
LEMMA SenderHarmless ==
  ASSUME NonceInv, NEW s \in Senders, NEW r \in SenderTypes,
         sender' = [sender EXCEPT ![s] = r],
         made' = made, cb' = cb, wire' = wire, list' = list, txpeeked' = txpeeked,
         staged' = staged \/ staged' = <<>>,
         keys' \in Seq(KeyTypes), KeysKept, current' \in 0 .. Len(keys'),
         tx_queue' \in Seq(Slots),
         r.pc \notin HoldPCs
           \/ (Holds(s) /\ r.packets = sender[s].packets /\ UptoOf(r) <= Upto(s)),
         Shaped(r, Len(keys'))
  PROVE  NonceInv'
<1>1. TxTypeOK /\ SenderShape
  BY DEF NonceInv
<1>2. \A t \in Senders : sender'[t] = IF t = s THEN r ELSE sender[t]
  BY <1>1 DEF TxTypeOK
<1>3. staged' \in Seq(Packets)
  <2>1. staged \in Seq(Packets) /\ <<>> \in Seq(Packets)
    BY <1>1 DEF TxTypeOK
  <2> QED BY <2>1
<1>4. sender' \in [Senders -> SenderTypes]
  BY <1>1 DEF TxTypeOK
<1>5. TxTypeOK'
  BY <1>1, <1>3, <1>4 DEF TxTypeOK
<1>6. Len(keys) \in Nat /\ Len(keys') \in Nat
  <2>1. keys \in Seq(KeyTypes)
    BY <1>1 DEF TxTypeOK
  <2> QED BY <2>1
<1>7. SenderShape'
  <2> SUFFICES ASSUME NEW t \in Senders PROVE Shaped(sender'[t], Len(keys'))
    BY DEF SenderShape
  <2>1. CASE t = s
    BY <1>2, <2>1
  <2>2. CASE t # s
    BY <1>1, <1>2, <1>6, <2>2 DEF SenderShape, Shaped, KeysKept
  <2> QED BY <2>1, <2>2
<1>8. \A t \in Senders : KeepsHand(t)
  BY <1>2 DEF KeepsHand, Holds, Upto
<1>9. \A p \in Packets : Gone(p)' => Gone(p)
  BY DEF Gone
<1> QED BY <1>5, <1>7, <1>8, <1>9, HarmlessStep

(* No context changes.                                                       *)
LEMMA OthersHarmless ==
  ASSUME NonceInv, UNCHANGED <<made, cb, list, sender>>,
         staged' = staged \/ staged' = <<>>,
         keys' \in Seq(KeyTypes), KeysKept, current' \in 0 .. Len(keys'),
         tx_queue' \in Seq(Slots),
         txpeeked' \in 0 .. MaxPackets, wire' \in Seq(Packets),
         \A p \in Packets : In(p, wire') => Gone(p)
  PROVE  NonceInv'
<1>1. TxTypeOK /\ SenderShape
  BY DEF NonceInv
<1>2. TxTypeOK'
  <2>1. staged \in Seq(Packets) /\ <<>> \in Seq(Packets)
    BY <1>1 DEF TxTypeOK
  <2>2. staged' \in Seq(Packets)
    BY <2>1
  <2> QED BY <1>1, <2>2 DEF TxTypeOK
<1>3. Len(keys) \in Nat /\ Len(keys') \in Nat
  <2>1. keys \in Seq(KeyTypes)
    BY <1>1 DEF TxTypeOK
  <2> QED BY <2>1
<1>4. SenderShape'
  BY <1>1, <1>3 DEF SenderShape, Shaped, KeysKept
<1>5. \A t \in Senders : KeepsHand(t)
  BY DEF KeepsHand
<1>6. \A p \in Packets : Gone(p)' => Gone(p)
  BY DEF Gone
<1> QED BY <1>2, <1>4, <1>5, <1>6, HarmlessStep

(* Writes to the fields of a key.                                            *)
LEMMA KeyRecord ==
  ASSUME NEW e \in KeyTypes
  PROVE  /\ [e EXCEPT !.krefs = @ + 1] \in KeyTypes
         /\ [e EXCEPT !.krefs = @ - 1] \in KeyTypes
         /\ [e EXCEPT !.is_valid = FALSE] \in KeyTypes
         /\ [e EXCEPT !.krefs = @ + 1].sending_counter = e.sending_counter
         /\ [e EXCEPT !.krefs = @ - 1].sending_counter = e.sending_counter
         /\ [e EXCEPT !.is_valid = FALSE].sending_counter = e.sending_counter
<1>1. e.krefs + 1 \in Int /\ e.krefs - 1 \in Int
  BY DEF KeyTypes
<1>2. ASSUME NEW n \in Int
      PROVE  /\ [e EXCEPT !.krefs = n] \in KeyTypes
             /\ [e EXCEPT !.krefs = n].sending_counter = e.sending_counter
  BY DEF KeyTypes
<1>3. /\ [e EXCEPT !.is_valid = FALSE] \in KeyTypes
      /\ [e EXCEPT !.is_valid = FALSE].sending_counter = e.sending_counter
  BY DEF KeyTypes
<1> QED BY <1>1, <1>2, <1>3

(* A write to one key that leaves its counter alone.                         *)
LEMMA KeyWrite ==
  ASSUME keys \in Seq(KeyTypes), NEW k, NEW r, keys' = [keys EXCEPT ![k] = r],
         k \in 1 .. Len(keys) =>
            r \in KeyTypes /\ r.sending_counter = keys[k].sending_counter
  PROVE  keys' \in Seq(KeyTypes) /\ Len(keys') = Len(keys) /\ KeysKept
<1>1. Len(keys) \in Nat /\ DOMAIN keys = 1 .. Len(keys)
  OBVIOUS
<1>2. \A i \in 1 .. Len(keys) : keys[i] \in KeyTypes
  OBVIOUS
<1>3. keys' \in [1 .. Len(keys) -> KeyTypes]
  BY <1>1, <1>2
<1>4. keys' \in Seq(KeyTypes) /\ Len(keys') = Len(keys)
  BY <1>1, <1>3
<1>5. \A i \in 1 .. Len(keys) : keys'[i] = IF i = k THEN r ELSE keys[i]
  BY <1>1
<1> QED BY <1>1, <1>4, <1>5 DEF KeysKept

(* Keys that are as they were.                                               *)
LEMMA KeysSame ==
  ASSUME TxTypeOK, UNCHANGED <<keys, current>>
  PROVE  keys' \in Seq(KeyTypes) /\ KeysKept /\ current' \in 0 .. Len(keys')
<1>1. keys \in Seq(KeyTypes) /\ Len(keys) \in Nat
  BY DEF TxTypeOK
<1> QED BY <1>1 DEF TxTypeOK, KeysKept

(* The forms a context's move has.                                           *)
LEMMA GotoHarmless ==
  ASSUME NonceInv, NEW s \in Senders, NEW pc \in SenderPCs, Goto(s, pc),
         UNCHANGED <<made, cb, wire, list, txpeeked>>,
         staged' = staged \/ staged' = <<>>,
         keys' \in Seq(KeyTypes), KeysKept, current' \in 0 .. Len(keys'),
         tx_queue' \in Seq(Slots),
         pc \in ListPCs => sender[s].pc \in HoldPCs \cup ListPCs,
         pc \in HoldPCs => Holds(s) /\ pc # "nonce"
                             /\ (pc \in {"create", "enqueue"} => sender[s].pc = "create")
  PROVE  NonceInv'
<1> DEFINE r == [sender[s] EXCEPT !.pc = pc]
<1>1. TxTypeOK /\ SenderShape
  BY DEF NonceInv
<1>2. sender[s] \in SenderTypes
  BY <1>1 DEF TxTypeOK
<1>3. /\ r \in SenderTypes /\ r.pc = pc /\ r.packets = sender[s].packets
      /\ sender' = [sender EXCEPT ![s] = r]
  BY <1>2 DEF SenderTypes, Goto
<1>4. Shaped(r, Len(keys'))
  BY <1>1, <1>3 DEF SenderShape, Shaped, HoldPCs, Holds, ListPCs
<1>5. ASSUME pc \in HoldPCs PROVE UptoOf(r) <= Upto(s)
  <2>1. sender[s].at \in Nat /\ sender[s].packets \in Seq(Packets)
    BY <1>2 DEF SenderTypes
  <2>2. Len(sender[s].packets) \in Nat
    BY <2>1
  <2>3. CASE pc \in {"create", "enqueue"}
    BY <1>3, <1>5, <2>2, <2>3 DEF Upto, UptoOf, HoldPCs
  <2>4. CASE pc \notin {"create", "enqueue"}
    <3>1. UptoOf(r) = 0
      BY <1>3, <1>5, <2>4 DEF UptoOf
    <3>2. Upto(s) >= 0
      BY <1>1, <2>1, <2>2 DEF Upto, UptoOf, SenderShape, Shaped
    <3> QED BY <3>1, <3>2
  <2> QED BY <2>3, <2>4
<1>6. made' = made /\ cb' = cb /\ wire' = wire /\ list' = list /\ txpeeked' = txpeeked
  OBVIOUS
<1> HIDE DEF r
<1>7. r.pc \notin HoldPCs
        \/ (Holds(s) /\ r.packets = sender[s].packets /\ UptoOf(r) <= Upto(s))
  BY <1>3, <1>5
<1> QED BY <1>3, <1>4, <1>7, <1>6, SenderHarmless

LEMMA DoneHarmless ==
  ASSUME NonceInv, NEW s \in Senders, SenderDone(s),
         UNCHANGED <<made, cb, wire, list, txpeeked>>,
         staged' = staged \/ staged' = <<>>,
         keys' \in Seq(KeyTypes), KeysKept, current' \in 0 .. Len(keys'),
         tx_queue' \in Seq(Slots)
  PROVE  NonceInv'
<1>1. Idle \in SenderTypes /\ Idle.pc = "idle"
  BY DEF Idle, SenderTypes, SenderPCs
<1>2. sender' = [sender EXCEPT ![s] = Idle]
  BY DEF SenderDone
<1>3. Shaped(Idle, Len(keys')) /\ Idle.pc \notin HoldPCs
  BY <1>1 DEF Shaped, HoldPCs, ListPCs
<1>4. made' = made /\ cb' = cb /\ wire' = wire /\ list' = list /\ txpeeked' = txpeeked
  OBVIOUS
<1> QED BY <1>1, <1>2, <1>3, <1>4, SenderHarmless

-------------------------------------------------------------------------------
(* The steps of the contexts that send.                                      *)

(* Steps that move no packet.                                                *)
LEMMA QuietSenderStep ==
  ASSUME NonceInv, NEW s \in Senders,
         \/ wg_packet_send_keepalive(s) \/ wg_packet_create_data(s) \/ queue_link(s)
         \/ enqueue_per_device(s) \/ queue_encrypt_work(s) \/ queue_transmit_work(s)
  PROVE  NonceInv'
<1>1. TxTypeOK
  BY DEF NonceInv
<1>2. UNCHANGED <<made, cb, wire, list, txpeeked, keys, current>>
  BY DEF wg_packet_send_keepalive, wg_packet_create_data, queue_link, enqueue_per_device,
         queue_encrypt_work, queue_transmit_work, queues, workers
<1>3. staged' = staged \/ staged' = <<>>
  BY DEF wg_packet_send_keepalive, wg_packet_create_data, queue_link, enqueue_per_device,
         queue_encrypt_work, queue_transmit_work, wg_peer_put
<1>4. keys' \in Seq(KeyTypes) /\ KeysKept /\ current' \in 0 .. Len(keys')
  BY <1>1, <1>2, KeysSame
<1>5. tx_queue' \in Seq(Slots)
  <2>1. tx_queue \in Seq(Slots)
    BY <1>1 DEF TxTypeOK
  <2>2. CASE queue_link(s)
    <3>1. /\ DOMAIN tx_queue = 1 .. Len(tx_queue) /\ Len(tx_queue) \in Nat
          /\ \A i \in DOMAIN tx_queue : tx_queue[i] \in Slots
      BY <2>1
    <3>2. \A i \in DOMAIN tx_queue : [tx_queue[i] EXCEPT !.linked = TRUE] \in Slots
      BY <3>1 DEF Slots
    <3>3. tx_queue' \in [1 .. Len(tx_queue) -> Slots]
      BY <2>2, <3>1, <3>2 DEF queue_link
    <3> QED BY <3>1, <3>3
  <2>3. CASE ~ queue_link(s)
    BY <2>1, <2>3 DEF wg_packet_send_keepalive, wg_packet_create_data, enqueue_per_device,
         queue_encrypt_work, queue_transmit_work, queues
  <2> QED BY <2>2, <2>3
<1>6. CASE wg_packet_send_keepalive(s)
  <2>1. PICK pc \in {"keepalive", "steal"} : Goto(s, pc)
    BY <1>6 DEF wg_packet_send_keepalive
  <2>2. pc \in SenderPCs /\ pc \notin HoldPCs /\ pc \notin ListPCs
    BY DEF SenderPCs, HoldPCs, ListPCs
  <2> QED BY <1>2, <1>3, <1>4, <1>5, <2>1, <2>2, GotoHarmless
<1>7. CASE wg_packet_create_data(s)
  <2>1. PICK pc \in {"free", "enqueue"} : Goto(s, pc) /\ sender[s].pc = "create"
    BY <1>7 DEF wg_packet_create_data
  <2>2. /\ pc \in SenderPCs /\ pc \notin ListPCs /\ pc # "nonce"
        /\ Holds(s)
    BY <2>1 DEF SenderPCs, HoldPCs, ListPCs, Holds
  <2> QED BY <1>2, <1>3, <1>4, <1>5, <2>1, <2>2, GotoHarmless
<1>8. CASE queue_link(s)
  <2>1. Goto(s, "produce") /\ sender[s].pc \in ListPCs
    BY <1>8 DEF queue_link, ListPCs
  <2>2. "produce" \in SenderPCs /\ "produce" \notin HoldPCs
    BY DEF SenderPCs, HoldPCs
  <2> QED BY <1>2, <1>3, <1>4, <1>5, <2>1, <2>2, GotoHarmless
<1>9. CASE enqueue_per_device(s)
  <2>1. PICK pc \in {"kick", "kicktx"} : Goto(s, pc)
    BY <1>9 DEF enqueue_per_device
  <2>2. pc \in SenderPCs /\ pc \notin HoldPCs /\ pc \notin ListPCs
    BY DEF SenderPCs, HoldPCs, ListPCs
  <2> QED BY <1>2, <1>3, <1>4, <1>5, <2>1, <2>2, GotoHarmless
<1>10. CASE queue_encrypt_work(s) \/ queue_transmit_work(s)
  <2>1. SenderDone(s)
    BY <1>10 DEF queue_encrypt_work, queue_transmit_work
  <2> QED BY <1>2, <1>3, <1>4, <1>5, <2>1, DoneHarmless
<1> QED BY <1>6, <1>7, <1>8, <1>9, <1>10

(* The key's references and validity change, not its counter.                *)
LEMMA KeyStep ==
  ASSUME NonceInv, NEW s \in Senders, keypair_get(s) \/ create_data_err(s)
  PROVE  NonceInv'
<1>1. TxTypeOK /\ SenderShape
  BY DEF NonceInv
<1>2. /\ UNCHANGED <<made, cb, wire, list, txpeeked, current, tx_queue>>
      /\ staged' = staged \/ staged' = <<>>
  BY DEF keypair_get, create_data_err, queues, workers, wg_peer_put
<1>3. /\ keys \in Seq(KeyTypes) /\ Len(keys) \in Nat /\ current \in 0 .. Len(keys)
      /\ tx_queue' \in Seq(Slots)
      /\ \A k \in 1 .. Len(keys) : keys[k] \in KeyTypes
  BY <1>1, <1>2 DEF TxTypeOK
<1>4. ASSUME NEW k, NEW e, keys' = [keys EXCEPT ![k] = e],
             k \in 1 .. Len(keys) =>
                e \in KeyTypes /\ e.sending_counter = keys[k].sending_counter
      PROVE  keys' \in Seq(KeyTypes) /\ KeysKept /\ current' \in 0 .. Len(keys')
  BY <1>2, <1>3, <1>4, KeyWrite
<1>5. CASE keypair_get(s) /\ Goto(s, "putback")
  <2>1. keys' \in Seq(KeyTypes) /\ KeysKept /\ current' \in 0 .. Len(keys')
    <3>1. CASE keys' = keys
      BY <1>1, <1>2, <3>1, KeysSame
    <3>2. CASE keys' = [keys EXCEPT ![current].is_valid = FALSE]
      <4>1. keys' = [keys EXCEPT ![current] = [keys[current] EXCEPT !.is_valid = FALSE]]
        BY <3>2
      <4>2. ASSUME current \in 1 .. Len(keys)
            PROVE  /\ [keys[current] EXCEPT !.is_valid = FALSE] \in KeyTypes
                   /\ [keys[current] EXCEPT !.is_valid = FALSE].sending_counter
                         = keys[current].sending_counter
        BY <1>3, <4>2, KeyRecord
      <4> QED BY <1>4, <4>1, <4>2
    <3>3. CASE sender' = [sender EXCEPT ![s].pc = "nonce", ![s].key = current, ![s].at = 1]
      <4>1. sender[s] \in SenderTypes
        BY <1>1 DEF TxTypeOK
      <4>2. sender'[s].pc = "nonce"
        BY <1>1, <3>3, <4>1 DEF TxTypeOK, SenderTypes
      <4>3. sender'[s].pc = "putback"
        BY <1>1, <1>5, <4>1 DEF Goto, TxTypeOK, SenderTypes
      <4> QED BY <4>2, <4>3
    <3> QED BY <1>5, <3>1, <3>2, <3>3 DEF keypair_get
  <2>2. /\ "putback" \in SenderPCs /\ "putback" \notin ListPCs /\ "putback" # "nonce"
        /\ Holds(s)
    BY <1>5 DEF SenderPCs, HoldPCs, ListPCs, Holds, keypair_get
  <2> QED BY <1>2, <1>3, <1>5, <2>1, <2>2, GotoHarmless
<1>6. CASE /\ keypair_get(s) /\ KeyUsable
           /\ keys' = [keys EXCEPT ![current].krefs = @ + 1]
           /\ sender' = [sender EXCEPT ![s].pc = "nonce", ![s].key = current, ![s].at = 1]
  <2> DEFINE r == [sender[s] EXCEPT !.pc = "nonce", !.key = current, !.at = 1]
  <2>1. current \in 1 .. Len(keys)
    BY <1>3, <1>6 DEF KeyUsable
  <2>2. keys' \in Seq(KeyTypes) /\ KeysKept /\ current' \in 0 .. Len(keys')
    <3>1. keys' = [keys EXCEPT ![current] = [keys[current] EXCEPT !.krefs = @ + 1]]
      BY <1>6
    <3>2. /\ [keys[current] EXCEPT !.krefs = @ + 1] \in KeyTypes
          /\ [keys[current] EXCEPT !.krefs = @ + 1].sending_counter
                = keys[current].sending_counter
      BY <1>3, <2>1, KeyRecord
    <3> QED BY <1>4, <3>1, <3>2
  <2>3. sender[s] \in SenderTypes /\ sender[s].pc = "key"
    BY <1>1, <1>6 DEF TxTypeOK, keypair_get
  <2>4. /\ r \in SenderTypes /\ r.pc = "nonce" /\ r.packets = sender[s].packets
        /\ r.key = current /\ r.at = 1 /\ sender' = [sender EXCEPT ![s] = r]
    <3>1. sender' = [sender EXCEPT ![s] = r]
      BY <1>6
    <3>2. "nonce" \in SenderPCs /\ current \in Nat /\ 1 \in Nat
      BY <1>3 DEF SenderPCs
    <3>3. r = [sender[s] EXCEPT !.pc = "nonce", !.key = current, !.at = 1]
      OBVIOUS
    <3> HIDE DEF r
    <3>4. /\ r \in SenderTypes /\ r.pc = "nonce" /\ r.packets = sender[s].packets
          /\ r.key = current /\ r.at = 1
      BY <2>3, <3>2, <3>3 DEF SenderTypes
    <3> QED BY <3>1, <3>4
  <2> HIDE DEF r
  <2>5. Holds(s) /\ sender[s].packets # <<>> /\ sender[s].packets \in Seq(Packets)
    BY <1>1, <2>3 DEF Holds, HoldPCs, SenderShape, Shaped, SenderTypes
  <2>6. Len(sender[s].packets) \in Nat \ {0}
    BY <2>5
  <2>7. Shaped(r, Len(keys'))
    <3>1. Len(keys') >= Len(keys) /\ Len(keys') \in Nat
      BY <2>2 DEF KeysKept
    <3> QED BY <1>3, <2>1, <2>4, <2>5, <2>6, <3>1 DEF Shaped
  <2>8. UptoOf(r) <= Upto(s)
    BY <2>3, <2>4 DEF Upto, UptoOf
  <2>9. made' = made /\ cb' = cb /\ wire' = wire /\ list' = list /\ txpeeked' = txpeeked
    BY <1>2
  <2> QED BY <1>2, <1>3, <2>2, <2>4, <2>5, <2>7, <2>8, <2>9, SenderHarmless
<1>7. CASE create_data_err(s)
  <2> DEFINE k == sender[s].key
  <2>1. keys' = [keys EXCEPT ![k] = [keys[k] EXCEPT !.krefs = @ - 1]]
    BY <1>7 DEF create_data_err
  <2>2. ASSUME k \in 1 .. Len(keys)
        PROVE  /\ [keys[k] EXCEPT !.krefs = @ - 1] \in KeyTypes
               /\ [keys[k] EXCEPT !.krefs = @ - 1].sending_counter = keys[k].sending_counter
    BY <1>3, <2>2, KeyRecord
  <2>3. keys' \in Seq(KeyTypes) /\ KeysKept /\ current' \in 0 .. Len(keys')
    BY <1>4, <2>1, <2>2
  <2>4. SenderDone(s)
    BY <1>7 DEF create_data_err
  <2> QED BY <1>2, <1>3, <2>3, <2>4, DoneHarmless
<1> QED BY <1>5, <1>6, <1>7 DEF keypair_get

(* A context that moves: the others are as they were.                        *)
LEMMA Moved ==
  ASSUME TxTypeOK, NEW s \in Senders, NEW r \in SenderTypes,
         sender' = [sender EXCEPT ![s] = r]
  PROVE  /\ sender' \in [Senders -> SenderTypes] /\ sender'[s] = r
         /\ \A t \in Senders : t # s =>
               /\ sender'[t] = sender[t] /\ (Holds(t)' <=> Holds(t)) /\ Upto(t)' = Upto(t)
               /\ \A p : Held(t, p)' <=> Held(t, p)
<1>1. /\ sender' \in [Senders -> SenderTypes] /\ sender'[s] = r
      /\ \A t \in Senders : t # s => sender'[t] = sender[t]
  BY DEF TxTypeOK
<1> QED BY <1>1 DEF Holds, Held, Upto

(* One that has numbered nothing adds nothing to what is numbered.           *)
LEMMA NumberedKept ==
  ASSUME TxTypeOK, NEW s \in Senders, NEW r \in SenderTypes,
         sender' = [sender EXCEPT ![s] = r], Upto(s)' = 0,
         \A p \in Packets : Gone(p)' <=> Gone(p)
  PROVE  \A p \in Packets : Numbered(p)' => Numbered(p)
<1> SUFFICES ASSUME NEW p \in Packets, NEW t \in Senders, NEW i \in 1 .. Upto(t)',
                    sender'[t].packets[i] = p
             PROVE  Numbered(p)
  BY DEF Numbered
<1>1. t # s
  OBVIOUS
<1>2. sender'[t] = sender[t] /\ Upto(t)' = Upto(t)
  BY <1>1, Moved
<1> QED BY <1>2 DEF Numbered

(* New packets join the staged queue, or what is kept of it.                 *)
LEMMA StageStep ==
  ASSUME NonceInv, NEW s \in Senders, ~ Holds(s), Goto(s, "steal"),
         NEW q \in Seq(Packets), NoRepeat(q), \A p \in Packets : In(p, q) => Staged(p),
         NEW n \in Nat, made + n <= MaxPackets, made' = made + n,
         staged' = q \o [i \in 1 .. n |-> made + i],
         UNCHANGED <<cb, wire, list, txpeeked, keys, current, tx_queue>>
  PROVE  NonceInv'
<1> DEFINE r == [sender[s] EXCEPT !.pc = "steal"]
           new == [i \in 1 .. n |-> made + i]
<1>1. TxTypeOK /\ SenderShape /\ OnePlace /\ NumbersFresh /\ Limits
  BY DEF NonceInv
<1>2. sender[s] \in SenderTypes /\ made \in Nat /\ MaxPackets \in Nat
  BY <1>1 DEF TxTypeOK, Limits
<1>3. r \in SenderTypes /\ r.pc = "steal" /\ sender' = [sender EXCEPT ![s] = r]
  BY <1>2 DEF SenderTypes, SenderPCs, Goto
<1>4. /\ new \in Seq(Packets) /\ Len(new) = n
      /\ \A i \in 1 .. n : new[i] = made + i
  <2>1. new \in [1 .. n -> Packets]
    BY <1>2 DEF Packets
  <2> QED BY <2>1
<1>5. NoRepeat(new) /\ \A p \in Packets : In(p, new) => p > made /\ p <= made + n
  BY <1>2, <1>4 DEF NoRepeat, In
<1>6. staged' = q \o new /\ staged' \in Seq(Packets)
  BY <1>4, InConcat
<1> HIDE DEF r, new
<1>7. made' \in 0 .. MaxPackets /\ made' >= made
  BY <1>2
<1>8. TxTypeOK'
  BY <1>1, <1>3, <1>6, <1>7, Moved DEF TxTypeOK
<1>9. SenderShape'
  <2>1. Shaped(r, Len(keys'))
    BY <1>3 DEF Shaped, HoldPCs, ListPCs
  <2> QED BY <1>1, <1>3, <2>1, Moved DEF SenderShape
<1>10. /\ ~ Holds(s)' /\ Upto(s)' = 0
       /\ \A p \in Packets : ~ Held(s, p)' /\ ~ Held(s, p) /\ (Gone(p)' <=> Gone(p))
  BY <1>1, <1>3, Moved DEF Holds, Held, HoldPCs, Upto, UptoOf, Gone
<1>11. \A p \in Packets, t \in Senders : Held(t, p)' => Held(t, p)
  BY <1>1, <1>3, <1>10, Moved
<1>12. \A p \in Packets : Staged(p)' => Staged(p) \/ (p > made /\ p <= made')
  BY <1>4, <1>5, <1>6, InConcat DEF Staged
<1>13. NoRepeat(staged')
  <2>1. \A p \in Packets : ~ (In(p, q) /\ In(p, new))
    <3> SUFFICES ASSUME NEW p \in Packets, In(p, q), In(p, new) PROVE FALSE
      OBVIOUS
    <3>1. p > made
      BY <1>5
    <3>2. p <= made
      BY <1>1 DEF OnePlace
    <3>3. p \in Nat
      BY <1>2 DEF Packets
    <3> QED BY <1>2, <3>1, <3>2, <3>3
  <2> QED BY <1>4, <1>5, <1>6, <2>1, NoRepeatConcat
<1>14. OnePlace'
  <2>1. \A p \in Packets : p \in Nat
    BY <1>2 DEF Packets
  <2>2. NoRepeat(staged)' /\ \A t \in Senders : Holds(t)' => NoRepeat(sender[t].packets)'
    <3>1. \A t \in Senders : Holds(t)' => t # s
      BY <1>10
    <3>2. \A t \in Senders : Holds(t)' => NoRepeat(sender'[t].packets)
      BY <1>1, <1>3, <3>1, Moved DEF OnePlace
    <3> QED BY <1>13, <3>2 DEF NoRepeat
  <2>3. \A p \in Packets : Staged(p)' \/ Gone(p)' \/ (\E t \in Senders : Held(t, p)') => p <= made'
    <3>1. \A p \in Packets : p <= made => p <= made'
      BY <1>2, <1>7, <2>1
    <3> QED BY <1>1, <1>10, <1>11, <1>12, <3>1 DEF OnePlace
  <2>4. ASSUME NEW p \in Packets, Staged(p)'
        PROVE  ~ Gone(p)' /\ \A t \in Senders : ~ Held(t, p)'
    <3>1. CASE Staged(p)
      BY <1>1, <1>10, <1>11, <3>1 DEF OnePlace
    <3>2. CASE p > made
      <4>1. ~ (p <= made)
        BY <1>2, <2>1, <3>2
      <4> QED BY <1>1, <1>10, <1>11, <4>1 DEF OnePlace
    <3> QED BY <1>12, <2>4, <3>1, <3>2
  <2>5. \A p \in Packets, u \in Senders : Held(u, p)' =>
           ~ Gone(p)' /\ \A t \in Senders : Held(t, p)' => t = u
    BY <1>1, <1>10, <1>11 DEF OnePlace
  <2> QED BY <2>2, <2>3, <2>4, <2>5 DEF OnePlace
<1>15. \A p \in Packets : Numbered(p)' => Numbered(p)
  BY <1>1, <1>3, <1>10, NumberedKept
<1>16. NumbersFresh'
  BY <1>1, <1>15 DEF NumbersFresh
<1> QED BY <1>1, <1>8, <1>9, <1>14, <1>16 DEF NonceInv, Limits

(* wg_xmit drops the oldest staged packets when there are too many, and adds *)
(* its own; a keepalive adds one.                                            *)
LEMMA NewPacketStep ==
  ASSUME NonceInv, NEW s \in Senders, wg_xmit(s) \/ keepalive_queue(s)
  PROVE  NonceInv'
<1>1. TxTypeOK /\ OnePlace
  BY DEF NonceInv
<1>2. /\ staged \in Seq(Packets) /\ NoRepeat(staged) /\ made \in Nat
      /\ MAX_STAGED_PACKETS \in Nat
  BY <1>1 DEF TxTypeOK, OnePlace, NonceInv, Limits
<1>3. ~ Holds(s)
  BY DEF wg_xmit, keepalive_queue, Holds, HoldPCs
<1>4. UNCHANGED <<cb, wire, list, txpeeked, keys, current, tx_queue>>
  BY DEF wg_xmit, keepalive_queue, queues, workers
<1>5. CASE wg_xmit(s)
  <2> DEFINE kept == IF Len(staged) > MAX_STAGED_PACKETS
                     THEN SubSeq(staged, Len(staged) - MAX_STAGED_PACKETS + 1, Len(staged))
                     ELSE staged
  <2>1. PICK n \in 1 .. 2 : /\ made + n <= MaxPackets /\ made' = made + n
                            /\ staged' = kept \o [i \in 1 .. n |-> made + i]
    BY <1>5 DEF wg_xmit
  <2>2. /\ kept \in Seq(Packets) /\ NoRepeat(kept)
        /\ \A p \in Packets : In(p, kept) => Staged(p)
    <3>1. CASE Len(staged) > MAX_STAGED_PACKETS
      BY <1>2, <3>1, EndOfSeq DEF Staged
    <3>2. CASE ~ (Len(staged) > MAX_STAGED_PACKETS)
      BY <1>2, <3>2 DEF Staged
    <3> QED BY <3>1, <3>2
  <2> HIDE DEF kept
  <2>3. n \in Nat
    OBVIOUS
  <2>4. Goto(s, "steal")
    BY <1>5 DEF wg_xmit
  <2> QED BY <1>3, <1>4, <2>1, <2>2, <2>3, <2>4, StageStep
<1>6. CASE keepalive_queue(s) /\ made < MaxPackets /\ made' = made + 1
           /\ staged' = Append(staged, made + 1) /\ Goto(s, "steal")
  <2>1. made + 1 <= MaxPackets /\ 1 \in Nat
    BY <1>1, <1>2, <1>6 DEF NonceInv, Limits
  <2>2. staged' = staged \o [i \in 1 .. 1 |-> made + i]
    BY <1>2, <1>6
  <2>3. \A p \in Packets : In(p, staged) => Staged(p)
    BY DEF Staged
  <2> QED BY <1>2, <1>3, <1>4, <1>6, <2>1, <2>2, <2>3, StageStep
<1>7. CASE keepalive_queue(s) /\ SenderDone(s) /\ wg_peer_put(1) /\ made' = made
  <2>1. staged' = staged \/ staged' = <<>>
    BY <1>7 DEF wg_peer_put
  <2>2. /\ keys' \in Seq(KeyTypes) /\ KeysKept /\ current' \in 0 .. Len(keys')
        /\ tx_queue' \in Seq(Slots)
    BY <1>1, <1>4, KeysSame DEF TxTypeOK
  <2> QED BY <1>4, <1>7, <2>1, <2>2, DoneHarmless
<1> QED BY <1>5, <1>6, <1>7 DEF keepalive_queue

(* A context takes all that is staged, or finds nothing.                     *)
LEMMA StealStep ==
  ASSUME NonceInv, NEW s \in Senders, wg_packet_send_staged_packets(s)
  PROVE  NonceInv'
<1>1. TxTypeOK /\ SenderShape /\ OnePlace /\ NumbersFresh /\ Limits
  BY DEF NonceInv
<1>2. UNCHANGED <<made, cb, wire, list, txpeeked, keys, current, tx_queue>>
  BY DEF wg_packet_send_staged_packets, queues, workers
<1>3. CASE staged = <<>>
  <2>1. SenderDone(s) /\ (staged' = staged \/ staged' = <<>>)
    BY <1>3 DEF wg_packet_send_staged_packets, wg_peer_put
  <2>2. /\ keys' \in Seq(KeyTypes) /\ KeysKept /\ current' \in 0 .. Len(keys')
        /\ tx_queue' \in Seq(Slots)
    BY <1>1, <1>2, KeysSame DEF TxTypeOK
  <2> QED BY <1>2, <2>1, <2>2, DoneHarmless
<1>4. CASE staged # <<>>
  <2> DEFINE r == [sender[s] EXCEPT !.pc = "key", !.packets = staged]
  <2>1. /\ sender[s] \in SenderTypes /\ staged \in Seq(Packets) /\ <<>> \in Seq(Packets)
    BY <1>1 DEF TxTypeOK
  <2>2. /\ sender' = [sender EXCEPT ![s] = r] /\ staged' = <<>> /\ sender[s].pc = "steal"
    BY <1>4 DEF wg_packet_send_staged_packets
  <2>3. r \in SenderTypes /\ r.pc = "key" /\ r.packets = staged
    BY <2>1 DEF SenderTypes, SenderPCs
  <2> HIDE DEF r
  <2>4. TxTypeOK'
    <3>1. staged' \in Seq(Packets)
      BY <2>1, <2>2
    <3> QED BY <1>1, <1>2, <2>2, <2>3, <3>1, Moved DEF TxTypeOK
  <2>5. SenderShape'
    <3>1. Shaped(r, Len(keys'))
      BY <1>4, <2>3 DEF Shaped
    <3> QED BY <1>1, <1>2, <2>2, <2>3, <3>1, Moved DEF SenderShape
  <2>6. /\ Holds(s)' /\ Upto(s)' = 0 /\ sender'[s].packets = staged
        /\ \A p \in Packets : ~ Held(s, p) /\ ~ Staged(p)'
        /\ \A p \in Packets : (Held(s, p)' <=> Staged(p)) /\ (Gone(p)' <=> Gone(p))
    <3>1. sender'[s] = r
      BY <1>1, <2>2, <2>3, Moved
    <3>2. Holds(s)' /\ Upto(s)' = 0 /\ sender'[s].packets = staged
      BY <2>3, <3>1 DEF Holds, HoldPCs, Upto, UptoOf
    <3>3. \A p \in Packets : ~ Held(s, p) /\ (Held(s, p)' <=> Staged(p))
      BY <2>2, <3>2 DEF Held, Holds, HoldPCs, Staged
    <3>4. \A p \in Packets : ~ Staged(p)'
      BY <2>2 DEF Staged, In
    <3>5. \A p \in Packets : Gone(p)' <=> Gone(p)
      BY <1>2 DEF Gone
    <3> QED BY <3>2, <3>3, <3>4, <3>5
  <2>7. \A p \in Packets, t \in Senders : Held(t, p)' => Held(t, p) \/ (t = s /\ Staged(p))
    BY <1>1, <2>2, <2>3, <2>6, Moved
  <2>8. OnePlace'
    <3>1. NoRepeat(staged)' /\ \A t \in Senders : Holds(t)' => NoRepeat(sender[t].packets)'
      <4>1. NoRepeat(<<>>)
        BY DEF NoRepeat
      <4>2. \A t \in Senders : Holds(t)' => NoRepeat(sender'[t].packets)
        BY <1>1, <2>2, <2>3, <2>6, Moved DEF OnePlace
      <4> QED BY <2>2, <4>1, <4>2 DEF NoRepeat
    <3>2. \A p \in Packets : Staged(p)' \/ Gone(p)' \/ (\E t \in Senders : Held(t, p)') => p <= made'
      BY <1>1, <1>2, <2>6, <2>7 DEF OnePlace
    <3>3. \A p \in Packets : Staged(p)' => ~ Gone(p)' /\ \A t \in Senders : ~ Held(t, p)'
      BY <2>6
    <3>4. \A p \in Packets, u \in Senders : Held(u, p)' =>
             ~ Gone(p)' /\ \A t \in Senders : Held(t, p)' => t = u
      BY <1>1, <2>6, <2>7 DEF OnePlace
    <3> QED BY <3>1, <3>2, <3>3, <3>4 DEF OnePlace
  <2>9. \A p \in Packets : Numbered(p)' => Numbered(p)
    BY <1>1, <2>2, <2>3, <2>6, NumberedKept
  <2>10. NumbersFresh'
    BY <1>1, <1>2, <2>9 DEF NumbersFresh
  <2> QED BY <1>1, <2>4, <2>5, <2>8, <2>10 DEF NonceInv, Limits
<1> QED BY <1>3, <1>4

(* A context puts its packets back, on top of what is staged by now.         *)
LEMMA PutBackStep ==
  ASSUME NonceInv, NEW s \in Senders, put_back(s)
  PROVE  NonceInv'
<1>1. TxTypeOK /\ SenderShape /\ OnePlace /\ NumbersFresh /\ Limits
  BY DEF NonceInv
<1>2. UNCHANGED <<made, cb, wire, list, txpeeked, keys, current, tx_queue>> /\ SenderDone(s)
  BY DEF put_back, queues, workers
<1>3. CASE staged' = <<>>
  <2>1. /\ keys' \in Seq(KeyTypes) /\ KeysKept /\ current' \in 0 .. Len(keys')
        /\ tx_queue' \in Seq(Slots)
    BY <1>1, <1>2, KeysSame DEF TxTypeOK
  <2> QED BY <1>2, <1>3, <2>1, DoneHarmless
<1>4. CASE staged' = sender[s].packets \o staged
  <2> DEFINE q == sender[s].packets
  <2>1. q \in Seq(Packets) /\ staged \in Seq(Packets) /\ Holds(s)
    BY <1>1 DEF TxTypeOK, SenderTypes, put_back, Holds, HoldPCs
  <2>2. Idle \in SenderTypes /\ Idle.pc = "idle" /\ sender' = [sender EXCEPT ![s] = Idle]
    BY <1>2 DEF Idle, SenderTypes, SenderPCs, SenderDone
  <2>3. staged' = q \o staged /\ staged' \in Seq(Packets)
    BY <1>4, <2>1, InConcat
  <2>4. \A p \in Packets : In(p, q) => Held(s, p)
    BY <2>1 DEF Held
  <2>5. NoRepeat(q) /\ NoRepeat(staged) /\ \A p \in Packets : ~ (In(p, q) /\ In(p, staged))
    BY <1>1, <2>1, <2>4 DEF OnePlace, Staged
  <2> HIDE DEF q
  <2>6. TxTypeOK'
    BY <1>1, <1>2, <2>2, <2>3, Moved DEF TxTypeOK
  <2>7. SenderShape'
    <3>1. Shaped(Idle, Len(keys'))
      BY <2>2 DEF Shaped, HoldPCs, ListPCs
    <3> QED BY <1>1, <1>2, <2>2, <3>1, Moved DEF SenderShape
  <2>8. /\ ~ Holds(s)' /\ Upto(s)' = 0
        /\ \A p \in Packets : ~ Held(s, p)' /\ (Gone(p)' <=> Gone(p))
    BY <1>1, <1>2, <2>2, Moved DEF Holds, Held, HoldPCs, Upto, UptoOf, Gone
  <2>9. \A p \in Packets, t \in Senders : Held(t, p)' => t # s /\ Held(t, p)
    BY <1>1, <2>2, <2>8, Moved
  <2>10. \A p \in Packets : Staged(p)' => Staged(p) \/ Held(s, p)
    BY <2>1, <2>3, <2>4, InConcat DEF Staged
  <2>11. NoRepeat(staged')
    BY <2>1, <2>3, <2>5, NoRepeatConcat DEF q
  <2>12. OnePlace'
    <3>1. NoRepeat(staged)' /\ \A t \in Senders : Holds(t)' => NoRepeat(sender[t].packets)'
      <4>1. \A t \in Senders : Holds(t)' => NoRepeat(sender'[t].packets)
        BY <1>1, <2>2, <2>8, Moved DEF OnePlace
      <4> QED BY <2>11, <4>1 DEF NoRepeat
    <3>2. \A p \in Packets : Staged(p)' \/ Gone(p)' \/ (\E t \in Senders : Held(t, p)') => p <= made'
      BY <1>1, <1>2, <2>8, <2>9, <2>10 DEF OnePlace
    <3>3. \A p \in Packets : Staged(p)' => ~ Gone(p)' /\ \A t \in Senders : ~ Held(t, p)'
      BY <1>1, <2>8, <2>9, <2>10 DEF OnePlace
    <3>4. \A p \in Packets, u \in Senders : Held(u, p)' =>
             ~ Gone(p)' /\ \A t \in Senders : Held(t, p)' => t = u
      BY <1>1, <2>8, <2>9 DEF OnePlace
    <3> QED BY <3>1, <3>2, <3>3, <3>4 DEF OnePlace
  <2>13. \A p \in Packets : Numbered(p)' => Numbered(p)
    BY <1>1, <2>2, <2>8, NumberedKept
  <2>14. NumbersFresh'
    BY <1>1, <1>2, <2>13 DEF NumbersFresh
  <2> QED BY <1>1, <2>6, <2>7, <2>12, <2>14 DEF NonceInv, Limits
<1> QED BY <1>3, <1>4 DEF put_back

(* A packet a context has numbered is in its hands.                          *)
LEMMA NumberedIsHeld ==
  ASSUME TxTypeOK, SenderShape, NEW t \in Senders
  PROVE  /\ Upto(t) \in Int
         /\ \A i \in 1 .. Upto(t) : /\ i \in 1 .. Len(sender[t].packets)
                                    /\ sender[t].packets[i] \in Packets
                                    /\ Held(t, sender[t].packets[i])
<1>1. sender[t].at \in Nat /\ sender[t].packets \in Seq(Packets)
  BY DEF TxTypeOK, SenderTypes
<1>2. Len(sender[t].packets) \in Nat
  BY <1>1
<1>3. Upto(t) \in Int /\ Upto(t) <= Len(sender[t].packets)
  BY <1>1, <1>2 DEF Upto, UptoOf, SenderShape, Shaped
<1>4. Upto(t) > 0 => Holds(t)
  BY DEF Upto, UptoOf, Holds, HoldPCs
<1>5. ASSUME NEW i \in 1 .. Upto(t)
      PROVE  i \in 1 .. Len(sender[t].packets) /\ Holds(t)
  BY <1>2, <1>3, <1>4
<1>6. \A i \in 1 .. Len(sender[t].packets) : sender[t].packets[i] \in Packets
  BY <1>1
<1> QED BY <1>3, <1>5, <1>6 DEF Held, In

(* A packet gets the next number of the key; at the limit the list is given  *)
(* up, with the number wasted.                                               *)
LEMMA NonceStep ==
  ASSUME NonceInv, NEW s \in Senders, assign_nonce(s)
  PROVE  NonceInv'
<1> DEFINE k == sender[s].key
           at == sender[s].at
           q == sender[s].packets
           p == q[at]
           n == keys[k].sending_counter
<1>1. TxTypeOK /\ SenderShape /\ OnePlace /\ NumbersFresh /\ Limits
  BY DEF NonceInv
<1>2. /\ UNCHANGED <<made, staged, wire, list, txpeeked, current, tx_queue>>
      /\ sender[s].pc = "nonce" /\ cb' = [cb EXCEPT ![p] = [nonce |-> n, keypair |-> k]]
  BY DEF assign_nonce, queues, workers
<1>3. /\ sender[s] \in SenderTypes /\ q \in Seq(Packets) /\ at \in Nat
      /\ keys \in Seq(KeyTypes) /\ Len(keys) \in Nat /\ Len(q) \in Nat
  <2>1. sender[s] \in SenderTypes /\ keys \in Seq(KeyTypes)
    BY <1>1 DEF TxTypeOK
  <2>2. q \in Seq(Packets) /\ at \in Nat
    BY <2>1 DEF SenderTypes
  <2> QED BY <2>1, <2>2
<1>4. k \in 1 .. Len(keys) /\ at \in 1 .. Len(q)
  BY <1>1, <1>2 DEF SenderShape, Shaped
<1>5. keys[k] \in KeyTypes /\ p \in Packets
  BY <1>3, <1>4
<1>6. n \in Nat /\ Holds(s) /\ Held(s, p) /\ Upto(s) = at - 1 /\ NoRepeat(q)
  <2>1. n \in Nat
    BY <1>5 DEF KeyTypes
  <2>2. Holds(s) /\ Upto(s) = at - 1
    BY <1>2 DEF Holds, HoldPCs, Upto, UptoOf
  <2>3. Held(s, p) /\ NoRepeat(q)
    BY <1>1, <1>4, <2>2 DEF Held, In, OnePlace
  <2> QED BY <2>1, <2>2, <2>3
<1>7. /\ keys' \in Seq(KeyTypes) /\ Len(keys') = Len(keys)
      /\ keys'[k].sending_counter = n + 1
      /\ \A l \in 1 .. Len(keys) : l # k => keys'[l] = keys[l]
  <2>1. PICK e \in KeyTypes : keys' = [keys EXCEPT ![k] = e] /\ e.sending_counter = n + 1
    <3> DEFINE e1 == [keys[k] EXCEPT !.sending_counter = n + 1]
               e2 == [[[keys[k] EXCEPT !.sending_counter = n + 1]
                           EXCEPT !.is_valid = FALSE] EXCEPT !.krefs = @ - 1]
    <3>1. e1 \in KeyTypes /\ e1.sending_counter = n + 1
      BY <1>5, <1>6 DEF KeyTypes
    <3>2. [e1 EXCEPT !.is_valid = FALSE] \in KeyTypes
          /\ [e1 EXCEPT !.is_valid = FALSE].sending_counter = n + 1
      BY <3>1, KeyRecord
    <3>3. e2 \in KeyTypes /\ e2.sending_counter = n + 1
      BY <3>2, KeyRecord
    <3>4. keys' = [keys EXCEPT ![k] = e1] \/ keys' = [keys EXCEPT ![k] = e2]
      BY DEF assign_nonce
    <3> HIDE DEF e1, e2
    <3> QED BY <3>1, <3>3, <3>4
  <2>2. DOMAIN keys = 1 .. Len(keys) /\ \A l \in 1 .. Len(keys) : keys[l] \in KeyTypes
    BY <1>3
  <2>3. keys' \in [1 .. Len(keys) -> KeyTypes]
    BY <2>1, <2>2
  <2>4. keys' \in Seq(KeyTypes) /\ Len(keys') = Len(keys)
    BY <1>3, <2>3
  <2> HIDE DEF n
  <2>5. \A l \in 1 .. Len(keys) : keys'[l] = IF l = k THEN e ELSE keys[l]
    BY <2>1, <2>2
  <2> QED BY <1>4, <2>1, <2>4, <2>5
<1>8. PICK r \in SenderTypes :
         /\ sender' = [sender EXCEPT ![s] = r] /\ r.packets = q /\ r.key = k
         /\ \/ r.pc = "putback"
            \/ n < MESSAGE_LIMIT /\ r.pc = "nonce" /\ r.at = at + 1 /\ at < Len(q)
            \/ n < MESSAGE_LIMIT /\ r.pc = "create" /\ at = Len(q)
  <2>1. MESSAGE_LIMIT \in Nat
    BY <1>1 DEF Limits
  <2>2. n < MESSAGE_LIMIT => ~ (n >= MESSAGE_LIMIT)
    BY <1>6, <2>1
  <2>3. n < MESSAGE_LIMIT =>
          IF at < Len(q) THEN sender' = [sender EXCEPT ![s].at = @ + 1] ELSE Goto(s, "create")
    BY <2>2 DEF assign_nonce
  <2>4. CASE n >= MESSAGE_LIMIT
    <3> DEFINE r == [sender[s] EXCEPT !.pc = "putback"]
    <3>1. sender' = [sender EXCEPT ![s] = r]
      BY <2>4 DEF assign_nonce, Goto
    <3>2. r \in SenderTypes /\ r.pc = "putback" /\ r.packets = q /\ r.key = k
      BY <1>3 DEF SenderTypes, SenderPCs
    <3> HIDE DEF r
    <3> QED BY <3>1, <3>2
  <2>5. CASE n < MESSAGE_LIMIT /\ at < Len(q)
    <3> DEFINE r == [sender[s] EXCEPT !.at = @ + 1]
    <3>1. sender' = [sender EXCEPT ![s] = r]
      BY <2>5, <2>3
    <3>2. at + 1 \in Nat
      BY <1>3
    <3>3. ASSUME NEW m \in Nat
          PROVE  LET e == [sender[s] EXCEPT !.at = m]
                 IN  /\ e \in SenderTypes /\ e.pc = "nonce" /\ e.packets = q /\ e.key = k
                     /\ e.at = m
      BY <1>2, <1>3 DEF SenderTypes
    <3>4. r \in SenderTypes /\ r.pc = "nonce" /\ r.packets = q /\ r.key = k /\ r.at = at + 1
      BY <3>2, <3>3
    <3> HIDE DEF r
    <3> QED BY <2>5, <3>1, <3>4
  <2>6. CASE n < MESSAGE_LIMIT /\ ~ (at < Len(q))
    <3> DEFINE r == [sender[s] EXCEPT !.pc = "create"]
    <3>1. sender' = [sender EXCEPT ![s] = r]
      BY <2>6, <2>3 DEF Goto
    <3>2. at = Len(q)
      BY <1>3, <1>4, <2>6
    <3>3. r \in SenderTypes /\ r.pc = "create" /\ r.packets = q /\ r.key = k
      BY <1>3 DEF SenderTypes, SenderPCs
    <3> HIDE DEF r
    <3> QED BY <2>6, <3>1, <3>3, <3>2
  <2> QED BY <1>6, <2>1, <2>4, <2>5, <2>6
<1> HIDE DEF k, at, q, p, n
<1>9. TxTypeOK'
  <2>1. [nonce |-> n, keypair |-> k] \in [nonce : Int, keypair : Nat]
    BY <1>3, <1>4, <1>6
  <2>2. cb' \in [Packets -> [nonce : Int, keypair : Nat]]
    BY <1>1, <1>2, <2>1 DEF TxTypeOK
  <2>3. sender' \in [Senders -> SenderTypes]
    BY <1>1, <1>8, Moved
  <2> QED BY <1>1, <1>2, <1>7, <2>2, <2>3 DEF TxTypeOK
<1>10. SenderShape'
  <2>1. q # <<>>
    BY <1>3, <1>4
  <2>2. Shaped(r, Len(keys'))
    BY <1>3, <1>4, <1>7, <1>8, <2>1 DEF Shaped
  <2> QED BY <1>1, <1>7, <1>8, <2>2, Moved DEF SenderShape
<1>11. /\ Holds(s)' /\ sender'[s].packets = q /\ sender[s].packets = q
       /\ \A x \in Packets : /\ Staged(x)' <=> Staged(x)
                             /\ Gone(x)' <=> Gone(x)
                             /\ Held(s, x)' <=> Held(s, x)
  <2>1. Holds(s)' /\ sender'[s].packets = q /\ sender[s].packets = q
    BY <1>1, <1>8, Moved DEF Holds, HoldPCs, q
  <2> QED BY <1>2, <1>6, <2>1 DEF Staged, Gone, Held
<1>12. \A x \in Packets, t \in Senders : Held(t, x)' <=> Held(t, x)
  BY <1>1, <1>8, <1>11, Moved
<1>13. OnePlace'
  <2>1. NoRepeat(staged)' /\ \A t \in Senders : Holds(t)' => NoRepeat(sender[t].packets)'
    <3>1. \A t \in Senders : Holds(t)' => NoRepeat(sender'[t].packets)
      BY <1>1, <1>6, <1>8, <1>11, Moved DEF OnePlace
    <3> QED BY <1>1, <1>2, <3>1 DEF NoRepeat, OnePlace
  <2> QED BY <1>1, <1>2, <1>11, <1>12, <2>1 DEF OnePlace
<1>14. \A x \in Packets : Numbered(x)' =>
          \/ Numbered(x) /\ x # p
          \/ x = p /\ n < MESSAGE_LIMIT
  <2> SUFFICES ASSUME NEW x \in Packets, Numbered(x)',
                      ~ (x = p /\ n < MESSAGE_LIMIT)
               PROVE  Numbered(x) /\ x # p
    OBVIOUS
  <2>1. CASE Gone(x)'
    BY <1>1, <1>5, <1>6, <1>11, <2>1 DEF OnePlace, Numbered
  <2>2. ASSUME NEW t \in Senders, NEW i \in 1 .. Upto(t)', sender'[t].packets[i] = x, t # s
        PROVE  Numbered(x) /\ x # p
    <3>1. i \in 1 .. Upto(t) /\ sender[t].packets[i] = x
      BY <1>1, <1>8, <2>2, Moved
    <3>2. Held(t, x)
      BY <1>1, <3>1, NumberedIsHeld
    <3>3. x # p
      BY <1>1, <1>5, <1>6, <2>2, <3>2 DEF OnePlace
    <3> QED BY <3>1, <3>3 DEF Numbered
  <2>3. ASSUME NEW i \in 1 .. Upto(s)', sender'[s].packets[i] = x
        PROVE  Numbered(x) /\ x # p
    <3>1. Upto(s)' = UptoOf(r)
      BY <1>1, <1>8, Moved DEF Upto
    <3>2. UptoOf(r) = at /\ n < MESSAGE_LIMIT /\ i \in 1 .. at
      <4>1. CASE r.pc = "putback"
        BY <2>3, <3>1, <4>1 DEF UptoOf
      <4>2. CASE n < MESSAGE_LIMIT /\ r.pc = "nonce" /\ r.at = at + 1
        BY <1>3, <2>3, <3>1, <4>2 DEF UptoOf
      <4>3. CASE n < MESSAGE_LIMIT /\ r.pc = "create" /\ at = Len(q)
        BY <1>3, <1>8, <2>3, <3>1, <4>3 DEF UptoOf
      <4> QED BY <1>8, <4>1, <4>2, <4>3
    <3>3. x # p /\ q[i] = x /\ p = q[at]
      BY <1>11, <2>3, <3>2 DEF p
    <3>4. i \in 1 .. Upto(s)
      BY <1>3, <1>6, <3>2, <3>3
    <3> QED BY <1>11, <3>3, <3>4 DEF Numbered
  <2> QED BY <2>1, <2>2, <2>3 DEF Numbered
<1>15. \A x \in Packets : cb'[x] = IF x = p THEN [nonce |-> n, keypair |-> k] ELSE cb[x]
  BY <1>1, <1>2 DEF TxTypeOK
<1>16. ASSUME NEW x \in Packets, Numbered(x)'
       PROVE  /\ cb'[x].keypair \in 1 .. Len(keys')
              /\ cb'[x].nonce \in Nat /\ cb'[x].nonce < MESSAGE_LIMIT
              /\ cb'[x].nonce < keys'[cb'[x].keypair].sending_counter
  <2>1. CASE x = p
    <3>1. cb'[x].nonce = n /\ cb'[x].keypair = k /\ n < MESSAGE_LIMIT
      BY <1>14, <1>15, <1>16, <2>1
    <3> QED BY <1>4, <1>6, <1>7, <3>1
  <2>2. CASE x # p
    <3>1. cb'[x] = cb[x] /\ Numbered(x)
      BY <1>14, <1>15, <1>16, <2>2
    <3>2. /\ cb[x].keypair \in 1 .. Len(keys)
          /\ cb[x].nonce \in Nat /\ cb[x].nonce < MESSAGE_LIMIT
          /\ cb[x].nonce < keys[cb[x].keypair].sending_counter
      BY <1>1, <3>1 DEF NumbersFresh
    <3>3. CASE cb[x].keypair = k
      BY <1>6, <1>7, <3>1, <3>2, <3>3 DEF n
    <3>4. CASE cb[x].keypair # k
      BY <1>7, <3>1, <3>2, <3>4
    <3> QED BY <3>3, <3>4
  <2> QED BY <2>1, <2>2
<1>17. ASSUME NEW x \in Packets, Numbered(x)', x # p
       PROVE  cb'[x] # [nonce |-> n, keypair |-> k]
  <2>1. cb'[x] = cb[x] /\ Numbered(x)
    BY <1>14, <1>15, <1>17
  <2>2. cb[x].nonce \in Nat /\ cb[x].nonce < keys[cb[x].keypair].sending_counter
    BY <1>1, <2>1 DEF NumbersFresh
  <2>3. cb[x].keypair = k => cb[x].nonce < n
    BY <2>2 DEF n
  <2>4. cb[x].keypair = k => cb[x].nonce # n
    BY <1>6, <2>2, <2>3
  <2> QED BY <2>1, <2>4
<1>18. \A x, y \in Packets : Numbered(x)' /\ Numbered(y)' /\ x # y => cb'[x] # cb'[y]
  <2> SUFFICES ASSUME NEW x \in Packets, NEW y \in Packets, Numbered(x)', Numbered(y)', x # y
               PROVE  cb'[x] # cb'[y]
    OBVIOUS
  <2>1. CASE x = p
    BY <1>15, <1>17, <2>1
  <2>2. CASE y = p
    BY <1>15, <1>17, <2>2
  <2>3. CASE x # p /\ y # p
    BY <1>1, <1>14, <1>15, <2>3 DEF NumbersFresh
  <2> QED BY <2>1, <2>2, <2>3
<1>19. NumbersFresh'
  BY <1>16, <1>18 DEF NumbersFresh
<1> QED BY <1>1, <1>9, <1>10, <1>13, <1>19 DEF NonceInv, Limits

-------------------------------------------------------------------------------
(* A list goes into tx_queue.                                                *)
LEMMA EnqueueStep ==
  ASSUME NonceInv, NEW s \in Senders, enqueue_per_peer(s)
  PROVE  NonceInv'
<1> DEFINE q == sender[s].packets
           f == First(s)
<1>1. TxTypeOK /\ SenderShape /\ OnePlace /\ NumbersFresh /\ Limits
  BY DEF NonceInv
<1>2. UNCHANGED <<made, staged, cb, wire, txpeeked, keys, current>> /\ sender[s].pc = "enqueue"
  BY DEF enqueue_per_peer, queues, workers
<1>3. /\ sender[s] \in SenderTypes /\ q \in Seq(Packets) /\ q # <<>> /\ Holds(s)
      /\ tx_queue \in Seq(Slots)
  BY <1>1, <1>2 DEF TxTypeOK, SenderTypes, SenderShape, Shaped, Holds, HoldPCs
<1>4. f \in Packets
  BY <1>3 DEF First
<1>5. CASE Goto(s, "free") /\ UNCHANGED <<queues, list>>
  <2>1. /\ keys' \in Seq(KeyTypes) /\ KeysKept /\ current' \in 0 .. Len(keys')
        /\ tx_queue' \in Seq(Slots) /\ list' = list
    BY <1>1, <1>2, <1>5, KeysSame DEF TxTypeOK, queues
  <2>2. "free" \in SenderPCs /\ "free" \notin HoldPCs /\ "free" \notin ListPCs
    BY DEF SenderPCs, HoldPCs, ListPCs
  <2> QED BY <1>2, <1>5, <2>1, <2>2, GotoHarmless
<1>6. CASE /\ tx_queue' = Append(tx_queue, [first |-> f, linked |-> FALSE])
           /\ list' = [list EXCEPT ![f] = q] /\ Goto(s, "link")
  <2> DEFINE r == [sender[s] EXCEPT !.pc = "link"]
  <2>1. r \in SenderTypes /\ r.pc = "link" /\ r.packets = q /\ sender' = [sender EXCEPT ![s] = r]
    BY <1>3, <1>6 DEF SenderTypes, SenderPCs, Goto
  <2> HIDE DEF r, f, q
  <2>2. TxTypeOK'
    <3>1. tx_queue' \in Seq(Slots)
      <4>1. [first |-> f, linked |-> FALSE] \in Slots
        BY <1>4 DEF Slots
      <4> QED BY <1>3, <1>6, <4>1
    <3>2. list' \in [Packets -> Seq(Packets)]
      BY <1>1, <1>3, <1>6 DEF TxTypeOK
    <3> QED BY <1>1, <1>2, <2>1, <3>1, <3>2, Moved DEF TxTypeOK
  <2>3. SenderShape'
    <3>1. Shaped(r, Len(keys'))
      BY <1>3, <2>1 DEF Shaped
    <3> QED BY <1>1, <1>2, <2>1, <3>1, Moved DEF SenderShape
  <2>4. ~ Holds(s)' /\ Upto(s)' = 0 /\ \A x \in Packets : ~ Held(s, x)'
    BY <1>1, <2>1, Moved DEF Holds, Held, HoldPCs, Upto, UptoOf
  <2>5. \A x \in Packets, t \in Senders : Held(t, x)' => t # s /\ Held(t, x)
    BY <1>1, <2>1, <2>4, Moved
  <2>6. \A x \in Packets : (Staged(x)' <=> Staged(x)) /\ (In(x, q) <=> Held(s, x))
    BY <1>2, <1>3 DEF Staged, Held, q
  <2>7. \A x \in Packets : Gone(x)' => Gone(x) \/ Held(s, x)
    <3>1. \A g \in Packets : list'[g] = IF g = f THEN q ELSE list[g]
      BY <1>1, <1>6 DEF TxTypeOK
    <3> QED BY <1>2, <2>6, <3>1 DEF Gone
  <2>8. OnePlace'
    <3>1. NoRepeat(staged)' /\ \A t \in Senders : Holds(t)' => NoRepeat(sender[t].packets)'
      <4>1. \A t \in Senders : Holds(t)' => NoRepeat(sender'[t].packets)
        BY <1>1, <2>1, <2>4, Moved DEF OnePlace
      <4> QED BY <1>1, <1>2, <4>1 DEF NoRepeat, OnePlace
    <3>2. \A x \in Packets : Staged(x)' \/ Gone(x)' \/ (\E t \in Senders : Held(t, x)') => x <= made'
      BY <1>1, <1>2, <2>5, <2>6, <2>7 DEF OnePlace
    <3>3. \A x \in Packets : Staged(x)' => ~ Gone(x)' /\ \A t \in Senders : ~ Held(t, x)'
      BY <1>1, <2>5, <2>6, <2>7 DEF OnePlace
    <3>4. \A x \in Packets, u \in Senders : Held(u, x)' =>
             ~ Gone(x)' /\ \A t \in Senders : Held(t, x)' => t = u
      BY <1>1, <2>5, <2>7 DEF OnePlace
    <3> QED BY <3>1, <3>2, <3>3, <3>4 DEF OnePlace
  <2>9. \A x \in Packets : Numbered(x)' => Numbered(x)
    <3>1. \A t \in Senders : \A i \in 1 .. Upto(t)' : t # s
      BY <2>4
    <3>2. Upto(s) = Len(q)
      BY <1>2 DEF Upto, UptoOf, q
    <3>3. \A x \in Packets : Held(s, x) => Numbered(x)
      BY <3>2 DEF Held, In, Numbered, q
    <3>4. ASSUME NEW t \in Senders, NEW i \in 1 .. Upto(t)'
          PROVE  i \in 1 .. Upto(t) /\ sender'[t].packets[i] = sender[t].packets[i]
      BY <1>1, <2>1, <3>1, Moved
    <3> QED BY <2>7, <3>3, <3>4 DEF Numbered
  <2>10. NumbersFresh'
    BY <1>1, <1>2, <2>9 DEF NumbersFresh
  <2> QED BY <1>1, <2>2, <2>3, <2>8, <2>10 DEF NonceInv, Limits
<1> QED BY <1>5, <1>6 DEF enqueue_per_peer

(* The current key loses a reference, and perhaps a new key is added.        *)
LEMMA DropCurrent ==
  ASSUME TxTypeOK
  PROVE  LET dropped == [k \in DOMAIN keys |->
                           IF k = current THEN [keys[k] EXCEPT !.krefs = @ - 1] ELSE keys[k]]
         IN  /\ dropped \in Seq(KeyTypes) /\ Len(dropped) = Len(keys) /\ Len(keys) \in Nat
             /\ \A k \in 1 .. Len(keys) : dropped[k].sending_counter = keys[k].sending_counter
<1> DEFINE dropped == [k \in DOMAIN keys |->
                         IF k = current THEN [keys[k] EXCEPT !.krefs = @ - 1] ELSE keys[k]]
<1>1. keys \in Seq(KeyTypes)
  BY DEF TxTypeOK
<1>2. /\ DOMAIN keys = 1 .. Len(keys) /\ Len(keys) \in Nat
      /\ \A k \in 1 .. Len(keys) : keys[k] \in KeyTypes
  BY <1>1
<1>3. \A k \in 1 .. Len(keys) : /\ dropped[k] \in KeyTypes
                                /\ dropped[k].sending_counter = keys[k].sending_counter
  BY <1>2, KeyRecord
<1>4. dropped \in [1 .. Len(keys) -> KeyTypes]
  BY <1>2, <1>3
<1> HIDE DEF dropped
<1>5. dropped \in Seq(KeyTypes) /\ Len(dropped) = Len(keys)
  BY <1>2, <1>4
<1> QED BY <1>2, <1>3, <1>5 DEF dropped

(* A new key becomes the current one.                                        *)
LEMMA NewKeypairStep ==
  ASSUME NonceInv, NEW s \in Senders, NewKeypair(s)
  PROVE  NonceInv'
<1> DEFINE dropped == [k \in DOMAIN keys |->
                         IF k = current THEN [keys[k] EXCEPT !.krefs = @ - 1] ELSE keys[k]]
           e == [NoKeypair EXCEPT !.krefs = 1]
<1>1. TxTypeOK
  BY DEF NonceInv
<1>2. UNCHANGED <<made, cb, wire, list, txpeeked, staged, tx_queue>>
  BY DEF NewKeypair, queues, workers
<1>3. keys' = Append(dropped, e) /\ current' = Len(keys) + 1
  BY DEF NewKeypair
<1>4. e \in KeyTypes
  <2>1. TRUE \in BOOLEAN /\ 0 \in Nat /\ 0 \in Int /\ 1 \in Int
    OBVIOUS
  <2>2. NoKeypair \in KeyTypes
    BY <2>1 DEF NoKeypair, KeyTypes
  <2>3. ASSUME NEW n \in Int PROVE [NoKeypair EXCEPT !.krefs = n] \in KeyTypes
    BY <2>2 DEF KeyTypes
  <2> QED BY <2>1, <2>3
<1>5. /\ dropped \in Seq(KeyTypes) /\ Len(dropped) = Len(keys) /\ Len(keys) \in Nat
      /\ \A k \in 1 .. Len(keys) : dropped[k].sending_counter = keys[k].sending_counter
  BY <1>1, DropCurrent
<1> HIDE DEF dropped, e
<1>6. /\ keys' \in Seq(KeyTypes) /\ Len(keys') = Len(keys) + 1
      /\ \A k \in 1 .. Len(keys) : keys'[k] = dropped[k]
  BY <1>3, <1>4, <1>5
<1>7. KeysKept /\ current' \in 0 .. Len(keys')
  BY <1>3, <1>5, <1>6 DEF KeysKept
<1>8. PICK pc \in {"keepalive", "steal"} : Goto(s, pc)
  BY DEF NewKeypair
<1>9. pc \in SenderPCs /\ pc \notin HoldPCs /\ pc \notin ListPCs
  BY DEF SenderPCs, HoldPCs, ListPCs
<1>10. tx_queue' \in Seq(Slots)
  BY <1>1, <1>2 DEF TxTypeOK
<1> QED BY <1>2, <1>6, <1>7, <1>8, <1>9, <1>10, GotoHarmless

-------------------------------------------------------------------------------
(* The steps of the workers and of the removal.                              *)

(* Steps that touch neither packets nor keys.                                *)
LEMMA QuietStep ==
  ASSUME NonceInv,
         \/ \E c \in EncryptCpus : EncryptRuns(c)
         \/ transmit_start \/ transmit_stop \/ transmit_return
         \/ peer_make_dead \/ flush_again \/ peer_remove_after_dead
         \/ UNCHANGED tx_vars
  PROVE  NonceInv'
<1>1. TxTypeOK
  BY DEF NonceInv
<1>2. /\ UNCHANGED <<made, cb, list, sender, keys, current, tx_queue, txpeeked, wire>>
      /\ staged' = staged \/ staged' = <<>>
  BY DEF EncryptRuns, encrypt_start, wg_packet_encrypt_worker, set_state, wake_transmit,
         encrypt_put,          transmit_start, transmit_stop, transmit_return, peer_make_dead, flush_again,
         peer_remove_after_dead, wg_peer_put, queues, workers, teardown, tx_vars
<1>3. keys' \in Seq(KeyTypes) /\ KeysKept /\ current' \in 0 .. Len(keys')
  BY <1>1, <1>2, KeysSame
<1>4. /\ tx_queue' \in Seq(Slots) /\ txpeeked' \in 0 .. MaxPackets /\ wire' \in Seq(Packets)
      /\ \A p \in Packets : In(p, wire') => Gone(p)
  BY <1>1, <1>2 DEF TxTypeOK, Gone
<1> QED BY <1>2, <1>3, <1>4, OthersHarmless

(* The peek moves the oldest list to peeked.                                 *)
LEMMA PeekStep ==
  ASSUME NonceInv, wg_prev_queue_peek
  PROVE  NonceInv'
<1>1. TxTypeOK /\ Limits
  BY DEF NonceInv
<1>2. UNCHANGED <<made, cb, list, sender, keys, current, staged, wire>>
  BY DEF wg_prev_queue_peek, workers
<1>3. tx_queue \in Seq(Slots) /\ tx_queue # <<>>
  BY <1>1 DEF TxTypeOK, wg_prev_queue_peek, Reachable
<1>4. Head(tx_queue) \in Slots /\ Tail(tx_queue) \in Seq(Slots)
  BY <1>3
<1>5. tx_queue' \in Seq(Slots) /\ txpeeked' \in Packets
  BY <1>4 DEF wg_prev_queue_peek, Slots
<1>6. txpeeked' \in 0 .. MaxPackets
  BY <1>1, <1>5 DEF Packets, Limits
<1>7. keys' \in Seq(KeyTypes) /\ KeysKept /\ current' \in 0 .. Len(keys')
  BY <1>1, <1>2, KeysSame
<1>8. wire' \in Seq(Packets) /\ \A p \in Packets : In(p, wire') => Gone(p)
  BY <1>1, <1>2 DEF TxTypeOK, Gone
<1> QED BY <1>2, <1>5, <1>6, <1>7, <1>8, OthersHarmless

(* The transmit work hands a list to the socket, or frees it.                *)
LEMMA TransmitStep ==
  ASSUME NonceInv, wg_packet_tx_worker
  PROVE  NonceInv'
<1> DEFINE k == cb[txpeeked].keypair
<1>1. TxTypeOK /\ Limits
  BY DEF NonceInv
<1>2. /\ UNCHANGED <<made, cb, list, sender, current, tx_queue>>
      /\ staged' = staged \/ staged' = <<>>
  BY DEF wg_packet_tx_worker, wg_peer_put
<1>3. /\ keys \in Seq(KeyTypes) /\ Len(keys) \in Nat /\ current \in 0 .. Len(keys)
      /\ \A l \in 1 .. Len(keys) : keys[l] \in KeyTypes
  <2>1. keys \in Seq(KeyTypes) /\ current \in 0 .. Len(keys)
    BY <1>1 DEF TxTypeOK
  <2> QED BY <2>1
<1>4. keys' = [keys EXCEPT ![k] = [keys[k] EXCEPT !.krefs = @ - 1]]
  BY DEF wg_packet_tx_worker
<1>5. ASSUME k \in 1 .. Len(keys)
      PROVE  /\ [keys[k] EXCEPT !.krefs = @ - 1] \in KeyTypes
             /\ [keys[k] EXCEPT !.krefs = @ - 1].sending_counter = keys[k].sending_counter
  BY <1>3, <1>5, KeyRecord
<1>6. keys' \in Seq(KeyTypes) /\ Len(keys') = Len(keys) /\ KeysKept
  BY <1>3, <1>4, <1>5, KeyWrite
<1>7. current' \in 0 .. Len(keys')
  BY <1>2, <1>3, <1>6
<1>8. txpeeked \in Packets /\ txpeeked' \in 0 .. MaxPackets
  BY <1>1 DEF wg_packet_tx_worker, TxTypeOK, Packets, Limits
<1>9. wire \in Seq(Packets) /\ list[txpeeked] \in Seq(Packets)
  BY <1>1, <1>8 DEF TxTypeOK
<1>10. wire' = wire \/ wire' = wire \o list[txpeeked]
  BY DEF wg_packet_tx_worker
<1>11. wire' \in Seq(Packets)
  BY <1>9, <1>10, InConcat
<1>12. \A p \in Packets : In(p, wire') => Gone(p)
  BY <1>8, <1>9, <1>10, InConcat DEF Gone
<1>13. tx_queue' \in Seq(Slots)
  BY <1>1, <1>2 DEF TxTypeOK
<1> QED BY <1>2, <1>6, <1>7, <1>8, <1>11, <1>12, <1>13, OthersHarmless

(* The removal gives up the current key.                                     *)
LEMMA ClearStep ==
  ASSUME NonceInv, keypairs_clear
  PROVE  NonceInv'
<1>1. TxTypeOK
  BY DEF NonceInv
<1>2. UNCHANGED <<made, cb, list, sender, staged, tx_queue, txpeeked, wire>>
  BY DEF keypairs_clear, queues, workers
<1>3. /\ keys' \in Seq(KeyTypes) /\ Len(keys') = Len(keys) /\ Len(keys) \in Nat
      /\ \A k \in 1 .. Len(keys) : keys'[k].sending_counter = keys[k].sending_counter
  BY <1>1, DropCurrent DEF keypairs_clear
<1>4. KeysKept /\ current' \in 0 .. Len(keys')
  BY <1>3 DEF KeysKept, keypairs_clear
<1>5. /\ tx_queue' \in Seq(Slots) /\ txpeeked' \in 0 .. MaxPackets /\ wire' \in Seq(Packets)
      /\ \A p \in Packets : In(p, wire') => Gone(p)
  BY <1>1, <1>2 DEF TxTypeOK, Gone
<1> QED BY <1>2, <1>3, <1>4, <1>5, OthersHarmless

-------------------------------------------------------------------------------
(* It holds at the start: there is no packet.                                *)
LEMMA NonceInit ==
  ASSUME Limits, TxInit
  PROVE  NonceInv
<1>1. TxTypeOK
  <2>1. /\ staged \in Seq(Packets) /\ wire \in Seq(Packets) /\ keys \in Seq(KeyTypes)
        /\ tx_queue \in Seq(Slots) /\ <<>> \in Seq(Packets) /\ Len(keys) = 0
    BY DEF TxInit
  <2>2. Idle \in SenderTypes
    BY <2>1 DEF Idle, SenderTypes, SenderPCs
  <2>3. made \in 0 .. MaxPackets /\ current \in 0 .. Len(keys) /\ txpeeked \in 0 .. MaxPackets
    BY <2>1 DEF TxInit, Limits
  <2>4. list \in [Packets -> Seq(Packets)] /\ sender \in [Senders -> SenderTypes]
    BY <2>1, <2>2 DEF TxInit
  <2>5. cb \in [Packets -> [nonce : Int, keypair : Nat]]
    BY DEF TxInit
  <2> QED BY <2>1, <2>3, <2>4, <2>5 DEF TxTypeOK
<1>2. \A s \in Senders : sender[s].pc = "idle"
  BY DEF TxInit, Idle
<1>3. SenderShape
  BY <1>2 DEF SenderShape, Shaped, HoldPCs, ListPCs
<1>4. \A p, s : ~ In(p, <<>>)
  BY DEF In
<1>5. \A p \in Packets : ~ Staged(p) /\ ~ Gone(p)
  BY <1>4 DEF TxInit, Staged, Gone
<1>6. \A s \in Senders : ~ Holds(s) /\ Upto(s) = 0
  BY <1>2 DEF Holds, HoldPCs, Upto, UptoOf
<1>7. \A p \in Packets : ~ Numbered(p)
  BY <1>5, <1>6 DEF Numbered
<1>8. OnePlace
  <2>1. NoRepeat(staged)
    BY DEF TxInit, NoRepeat
  <2> QED BY <1>5, <1>6, <2>1 DEF OnePlace, Held
<1>9. NumbersFresh
  BY <1>7 DEF NumbersFresh
<1> QED BY <1>1, <1>3, <1>8, <1>9 DEF NonceInv

(* Every step keeps it.                                                      *)
LEMMA NonceNext ==
  ASSUME NonceInv, [TxNext]_tx_vars
  PROVE  NonceInv'
<1>1. ASSUME NEW s \in Senders,
             wg_xmit(s) \/ wg_packet_send_keepalive(s) \/ NewKeypair(s) \/ SenderRuns(s)
      PROVE  NonceInv'
  BY <1>1, QuietSenderStep, KeyStep, NewPacketStep, StealStep, PutBackStep, NonceStep,
     EnqueueStep, NewKeypairStep DEF SenderRuns
<1>2. ASSUME TransmitRuns \/ RemovalRuns
      PROVE  NonceInv'
  BY <1>2, QuietStep, PeekStep, TransmitStep, ClearStep DEF TransmitRuns, RemovalRuns
<1>3. ASSUME (\E c \in EncryptCpus : EncryptRuns(c)) \/ peer_make_dead \/ UNCHANGED tx_vars
      PROVE  NonceInv'
  BY <1>3, QuietStep
<1> QED BY <1>1, <1>2, <1>3 DEF TxNext

(* What is on the wire or in a list is gone from the contexts, so numbered.  *)
LEMMA NonceInvImplies ==
  ASSUME NonceInv
  PROVE  NoncesAreFresh
<1>1. TxTypeOK /\ NumbersFresh
  BY DEF NonceInv
<1>2. ASSUME NEW q \in Seq(Packets), NEW p \in ToSet(q)
      PROVE  p \in Packets /\ In(p, q)
  BY <1>2 DEF ToSet, In
<1>3. ASSUME NEW p \in OnTheWay
      PROVE  p \in Packets /\ Gone(p)
  <2>1. wire \in Seq(Packets) /\ \A f \in Packets : list[f] \in Seq(Packets)
    BY <1>1 DEF TxTypeOK
  <2>2. CASE p \in ToSet(wire)
    BY <1>2, <2>1, <2>2 DEF Gone
  <2>3. ASSUME NEW f \in InFlight, p \in ToSet(list[f])
        PROVE  p \in Packets /\ Gone(p)
    <3>1. f \in Packets
      BY DEF InFlight
    <3> QED BY <1>2, <2>1, <2>3, <3>1 DEF Gone
  <2> QED BY <1>3, <2>2, <2>3 DEF OnTheWay
<1>4. \A p \in OnTheWay : p \in Packets /\ Numbered(p)
  BY <1>3 DEF Numbered
<1> QED BY <1>1, <1>4 DEF NumbersFresh, NoncesAreFresh

(* No nonce is used twice with a key and none at or above the limit: for any *)
(* number of contexts that send, encrypt workers, keys and packets, whatever *)
(* the sizes of the queues (wg_packet_send_staged_packets, encrypt_packet).  *)
THEOREM NoncesNeverReused == Limits => (TxSpec => []NoncesAreFresh)
<1> SUFFICES ASSUME Limits PROVE TxSpec => []NoncesAreFresh
  OBVIOUS
<1>1. TxInit => NonceInv
  BY NonceInit
<1>2. NonceInv /\ [TxNext]_tx_vars => NonceInv'
  BY NonceNext
<1>3. NonceInv => NoncesAreFresh
  BY NonceInvImplies
<1> QED BY <1>1, <1>2, <1>3, PTL DEF TxSpec

-------------------------------------------------------------------------------
(* The order of sending.                                                     *)

\* The lists that have left the queue: those before the peeked one.
SentLists == Len(order) - Len(tx_queue) - (IF txpeeked = 0 THEN 0 ELSE 1)

(* What waits is the end of the order, and no packet is of two lists.        *)
QueueIsEnd ==
    /\ order \in Seq(Packets) /\ SentLists >= 0
    /\ \A i \in 1 .. Len(tx_queue) :
          tx_queue[i].first = order[Len(order) - Len(tx_queue) + i]
    /\ txpeeked # 0 => txpeeked = order[Len(order) - Len(tx_queue)]
    /\ \A k \in 1 .. Len(order) : In(order[k], list[order[k]])
    /\ \A p \in Packets : \A k, l \in 1 .. Len(order) :
          In(p, list[order[k]]) /\ In(p, list[order[l]]) => k = l

(* What was sent is of the lists that have left, in their order.             *)
WireFollows ==
    /\ \A i \in 1 .. Len(wire) : \E k \in 1 .. SentLists : In(wire[i], list[order[k]])
    /\ \A i, j \in 1 .. Len(wire) : \A k, l \in 1 .. Len(order) :
          i < j /\ In(wire[i], list[order[k]]) /\ In(wire[j], list[order[l]]) => k <= l

OrderInv == QueueIsEnd /\ WireFollows

-------------------------------------------------------------------------------
(* The lengths the invariant speaks of.                                      *)
LEMMA OrderLengths ==
  ASSUME TxTypeOK, QueueIsEnd
  PROVE  /\ Len(order) \in Nat /\ Len(tx_queue) \in Nat /\ Len(wire) \in Nat
         /\ order \in Seq(Packets) /\ tx_queue \in Seq(Slots) /\ wire \in Seq(Packets)
         /\ \A k \in 1 .. Len(order) : order[k] \in Packets
         /\ \A i \in 1 .. Len(wire) : wire[i] \in Packets
         /\ SentLists \in Nat /\ SentLists <= Len(order)
<1>1. order \in Seq(Packets) /\ tx_queue \in Seq(Slots) /\ wire \in Seq(Packets)
  BY DEF TxTypeOK, QueueIsEnd
<1>2. Len(order) \in Nat /\ Len(tx_queue) \in Nat /\ Len(wire) \in Nat
  BY <1>1
<1>3. SentLists >= 0
  BY DEF QueueIsEnd
<1>4. SentLists \in Nat /\ SentLists <= Len(order)
  BY <1>2, <1>3 DEF SentLists
<1> QED BY <1>1, <1>2, <1>4

(* What is in a list after a step.                                           *)
LEMMA InNext ==
  /\ \A p, k : In(p, list[order[k]])' <=> In(p, list'[order'[k]])
  /\ \A k : In(order[k], list[order[k]])' <=> In(order'[k], list'[order'[k]])
  /\ \A i, k : In(wire[i], list[order[k]])' <=> In(wire'[i], list'[order'[k]])
BY DEF In

(* Most steps have nothing to do with it.                                    *)
LEMMA OrderSame ==
  ASSUME OrderInv, UNCHANGED <<order, tx_queue, txpeeked, list, wire>>
  PROVE  OrderInv'
<1>1. SentLists' = SentLists
  BY DEF SentLists
<1> QED BY <1>1, InNext DEF OrderInv, QueueIsEnd, WireFollows

(* A list takes its place at the end.                                        *)
LEMMA OrderEnqueue ==
  ASSUME NonceInv, OrderInv, NEW s \in Senders, enqueue_per_peer(s)
  PROVE  OrderInv'
<1> DEFINE q == sender[s].packets
           f == First(s)
           n == Len(order)
           m == Len(tx_queue)
           slot == [first |-> f, linked |-> FALSE]
<1>1. CASE UNCHANGED <<queues, list>>
  BY <1>1, OrderSame DEF enqueue_per_peer, queues, workers
<1>2. CASE /\ tx_queue' = Append(tx_queue, slot) /\ order' = Append(order, f)
           /\ list' = [list EXCEPT ![f] = q] /\ UNCHANGED <<txpeeked, wire>>
  <2>1. sender[s].pc = "enqueue" /\ Holds(s)
    BY DEF enqueue_per_peer, Holds, HoldPCs
  <2>2. q \in Seq(Packets) /\ f \in Packets /\ In(f, q)
    <3>1. q \in Seq(Packets) /\ q # <<>>
      BY <2>1 DEF NonceInv, TxTypeOK, SenderTypes, SenderShape, Shaped, HoldPCs
    <3>2. Head(q) = q[1] /\ 1 \in 1 .. Len(q) /\ Head(q) \in Packets
      BY <3>1
    <3> QED BY <3>1, <3>2 DEF First, In
  <2>3. \A p \in Packets : In(p, q) => ~ Gone(p)
    BY <2>1 DEF NonceInv, OnePlace, Held
  <2>4. /\ n \in Nat /\ m \in Nat /\ order \in Seq(Packets) /\ tx_queue \in Seq(Slots)
        /\ \A k \in 1 .. n : order[k] \in Packets
        /\ \A i \in 1 .. Len(wire) : wire[i] \in Packets
        /\ SentLists \in Nat /\ SentLists <= n
    BY OrderLengths DEF NonceInv, OrderInv
  <2>5. slot \in Slots /\ slot.first = f
    BY <2>2 DEF Slots
  <2> HIDE DEF slot, f, q
  <2>6. /\ order' \in Seq(Packets) /\ Len(order') = n + 1 /\ order'[n + 1] = f
        /\ \A k \in 1 .. n : order'[k] = order[k]
    BY <1>2, <2>2, <2>4
  <2>7. /\ Len(tx_queue') = m + 1 /\ tx_queue'[m + 1] = slot
        /\ \A i \in 1 .. m : tx_queue'[i] = tx_queue[i]
    BY <1>2, <2>4, <2>5
  <2>8. /\ \A k \in 1 .. n : list'[order[k]] = list[order[k]]
        /\ list'[f] = q
    <3>1. \A k \in 1 .. n : order[k] # f
      <4>1. \A k \in 1 .. n : Gone(order[k])
        BY <2>4 DEF OrderInv, QueueIsEnd, Gone
      <4> QED BY <2>2, <2>3, <4>1
    <3> QED BY <1>2, <2>2, <2>4, <3>1 DEF NonceInv, TxTypeOK
  <2>9. SentLists' = SentLists /\ SentLists = n - m - (IF txpeeked = 0 THEN 0 ELSE 1)
    BY <1>2, <2>4, <2>6, <2>7 DEF SentLists
  <2> HIDE DEF n, m
  <2>10. QueueIsEnd'
    <3>1. ASSUME NEW i \in 1 .. m + 1
          PROVE  tx_queue'[i].first = order'[n + 1 - (m + 1) + i]
      <4>1. CASE i = m + 1
        <5>1. n + 1 - (m + 1) + i = n + 1
          BY <2>4, <4>1
        <5> QED BY <2>5, <2>6, <2>7, <4>1, <5>1
      <4>2. CASE i \in 1 .. m
        <5>1. n + 1 - (m + 1) + i = n - m + i /\ n - m + i \in 1 .. n
          BY <2>4, <2>9, <4>2
        <5>2. tx_queue[i].first = order[n - m + i]
          BY <4>2 DEF OrderInv, QueueIsEnd, n, m
        <5> QED BY <2>6, <2>7, <4>2, <5>1, <5>2
      <4> QED BY <2>4, <4>1, <4>2
    <3>2. ASSUME txpeeked # 0 PROVE txpeeked = order'[n + 1 - (m + 1)]
      <4>1. n + 1 - (m + 1) = n - m /\ n - m \in 1 .. n
        BY <2>4, <2>9, <3>2
      <4>2. txpeeked = order[n - m]
        BY <3>2 DEF OrderInv, QueueIsEnd, n, m
      <4> QED BY <2>6, <4>1, <4>2
    <3>3. ASSUME NEW k \in 1 .. n + 1 PROVE In(order'[k], list'[order'[k]])
      <4>1. CASE k = n + 1
        BY <2>2, <2>6, <2>8, <4>1
      <4>2. CASE k \in 1 .. n
        <5>1. In(order[k], list[order[k]])
          BY <4>2 DEF OrderInv, QueueIsEnd, n
        <5> QED BY <2>6, <2>8, <4>2, <5>1
      <4> QED BY <2>4, <4>1, <4>2
    <3>4. ASSUME NEW p \in Packets, NEW k \in 1 .. n + 1, NEW l \in 1 .. n + 1,
                 In(p, list'[order'[k]]), In(p, list'[order'[l]])
          PROVE  k = l
      <4>1. CASE k \in 1 .. n /\ l \in 1 .. n
        <5>1. In(p, list[order[k]]) /\ In(p, list[order[l]])
          BY <2>6, <2>8, <3>4, <4>1
        <5> QED BY <4>1, <5>1 DEF OrderInv, QueueIsEnd, n
      <4>2. CASE k = n + 1 /\ l \in 1 .. n
        <5>1. In(p, q) /\ In(p, list[order[l]])
          BY <2>6, <2>8, <3>4, <4>2
        <5> QED BY <2>3, <2>4, <4>2, <5>1 DEF Gone
      <4>3. CASE k \in 1 .. n /\ l = n + 1
        <5>1. In(p, q) /\ In(p, list[order[k]])
          BY <2>6, <2>8, <3>4, <4>3
        <5> QED BY <2>3, <2>4, <4>3, <5>1 DEF Gone
      <4> QED BY <2>4, <4>1, <4>2, <4>3
    <3>5. \A k \in 1 .. Len(order') : In(order[k], list[order[k]])'
      BY <2>6, <3>3, InNext
    <3>6. \A p \in Packets : \A k, l \in 1 .. Len(order') :
             In(p, list[order[k]])' /\ In(p, list[order[l]])' => k = l
      BY <2>6, <3>4, InNext
    <3>7. SentLists' >= 0
      BY <2>4, <2>9
    <3>8. \A i \in 1 .. Len(tx_queue') : tx_queue'[i].first = order'[Len(order') - Len(tx_queue') + i]
      BY <2>4, <2>6, <2>7, <3>1
    <3>9. txpeeked' # 0 => txpeeked' = order'[Len(order') - Len(tx_queue')]
      <4>1. Len(order') - Len(tx_queue') = n + 1 - (m + 1)
        BY <2>4, <2>6, <2>7
      <4>2. txpeeked' = txpeeked
        BY <1>2
      <4> QED BY <3>2, <4>1, <4>2
    <3> QED BY <2>6, <3>5, <3>6, <3>7, <3>8, <3>9 DEF QueueIsEnd
  <2>11. WireFollows'
    <3>1. ASSUME NEW i \in 1 .. Len(wire)
          PROVE  \E k \in 1 .. SentLists : In(wire[i], list'[order'[k]])
      <4>1. PICK k \in 1 .. SentLists : In(wire[i], list[order[k]])
        BY DEF OrderInv, WireFollows
      <4>2. k \in 1 .. n
        BY <2>4
      <4> QED BY <2>6, <2>8, <4>1, <4>2
    <3>2. ASSUME NEW i \in 1 .. Len(wire), NEW k \in 1 .. n + 1, In(wire[i], list'[order'[k]])
          PROVE  k \in 1 .. n /\ In(wire[i], list[order[k]])
      <4>1. CASE k = n + 1
        <5>1. In(wire[i], q)
          BY <2>6, <2>8, <3>2, <4>1
        <5>2. Gone(wire[i])
          BY DEF Gone, In
        <5> QED BY <2>3, <2>4, <5>1, <5>2
      <4>2. CASE k \in 1 .. n
        BY <2>6, <2>8, <3>2, <4>2
      <4>3. n \in Nat
        BY <2>4
      <4>4. k = n + 1 \/ k \in 1 .. n
        BY <4>3
      <4> QED BY <4>1, <4>2, <4>4
    <3>3. \A i, j \in 1 .. Len(wire) : \A k, l \in 1 .. n + 1 :
             i < j /\ In(wire[i], list'[order'[k]]) /\ In(wire[j], list'[order'[l]]) => k <= l
      BY <3>2 DEF OrderInv, WireFollows, n
    <3>4. \A i \in 1 .. Len(wire') : \E k \in 1 .. SentLists' : In(wire[i], list[order[k]])'
      BY <1>2, <2>9, <3>1, InNext
    <3>5. \A i, j \in 1 .. Len(wire') : \A k, l \in 1 .. Len(order') :
             i < j /\ In(wire[i], list[order[k]])' /\ In(wire[j], list[order[l]])' => k <= l
      <4>1. wire' = wire /\ Len(order') = n + 1
        BY <1>2, <2>6
      <4> QED BY <3>3, <4>1, InNext
    <3> QED BY <3>4, <3>5 DEF WireFollows
  <2> QED BY <2>10, <2>11 DEF OrderInv
<1> QED BY <1>1, <1>2 DEF enqueue_per_peer, workers

(* A place is linked: it is the same list.                                   *)
LEMMA OrderLink ==
  ASSUME NonceInv, NonceInv', OrderInv, NEW s \in Senders, queue_link(s)
  PROVE  OrderInv'
<1>1. UNCHANGED <<order, txpeeked, list, wire>>
  BY DEF queue_link, workers
<1>2. /\ tx_queue \in Seq(Slots) /\ tx_queue' \in Seq(Slots)
      /\ DOMAIN tx_queue' = DOMAIN tx_queue
      /\ \A i \in DOMAIN tx_queue :
            tx_queue'[i] = IF tx_queue[i].first = First(s)
                           THEN [tx_queue[i] EXCEPT !.linked = TRUE] ELSE tx_queue[i]
  BY DEF NonceInv, TxTypeOK, queue_link
<1>3. /\ Len(tx_queue') = Len(tx_queue) /\ DOMAIN tx_queue = 1 .. Len(tx_queue)
      /\ \A i \in 1 .. Len(tx_queue) : tx_queue[i] \in Slots
  BY <1>2
<1>4. \A i \in 1 .. Len(tx_queue) : tx_queue'[i].first = tx_queue[i].first
  BY <1>2, <1>3 DEF Slots
<1>5. SentLists' = SentLists
  BY <1>1, <1>3 DEF SentLists
<1>6. QueueIsEnd'
  BY <1>1, <1>3, <1>4, <1>5, InNext DEF OrderInv, QueueIsEnd
<1>7. WireFollows'
  BY <1>1, <1>5, InNext DEF OrderInv, WireFollows
<1> QED BY <1>6, <1>7 DEF OrderInv

(* The oldest list is peeked at.                                             *)
LEMMA OrderPeek ==
  ASSUME NonceInv, OrderInv, wg_prev_queue_peek
  PROVE  OrderInv'
<1> DEFINE n == Len(order)
           m == Len(tx_queue)
<1>1. /\ UNCHANGED <<order, list, wire>> /\ txpeeked = 0 /\ tx_queue # <<>>
      /\ txpeeked' = Head(tx_queue).first /\ tx_queue' = Tail(tx_queue)
  BY DEF wg_prev_queue_peek, workers, Reachable
<1>2. /\ n \in Nat /\ m \in Nat /\ tx_queue \in Seq(Slots) /\ SentLists \in Nat
  BY OrderLengths DEF NonceInv, OrderInv
<1>3. /\ m >= 1 /\ Head(tx_queue) = tx_queue[1] /\ Head(tx_queue) \in Slots
      /\ Len(tx_queue') = m - 1
      /\ \A i \in 1 .. m - 1 : tx_queue'[i] = tx_queue[i + 1]
  BY <1>1, <1>2
<1>4. txpeeked' \in Packets /\ txpeeked' # 0 /\ txpeeked' = tx_queue[1].first
  BY <1>1, <1>3 DEF Slots, Packets
<1>5. SentLists' = SentLists /\ SentLists = n - m
  BY <1>1, <1>2, <1>3, <1>4 DEF SentLists
<1> HIDE DEF n, m
<1>6. \A i \in 1 .. m : tx_queue[i].first = order[n - m + i]
  BY DEF OrderInv, QueueIsEnd, n, m
<1>7. ASSUME NEW i \in 1 .. m - 1 PROVE tx_queue'[i].first = order[n - (m - 1) + i]
  <2>1. i + 1 \in 1 .. m /\ n - m + (i + 1) = n - (m - 1) + i
    BY <1>2
  <2> QED BY <1>3, <1>6, <2>1
<1>8. txpeeked' = order[n - (m - 1)]
  <2>1. 1 \in 1 .. m /\ n - m + 1 = n - (m - 1)
    BY <1>2, <1>3
  <2> QED BY <1>4, <1>6, <2>1
<1>9. QueueIsEnd'
  <2>1. /\ \A k \in 1 .. Len(order') : In(order[k], list[order[k]])'
        /\ \A p \in Packets : \A k, l \in 1 .. Len(order') :
             In(p, list[order[k]])' /\ In(p, list[order[l]])' => k = l
        /\ order' \in Seq(Packets)
    BY <1>1, InNext DEF OrderInv, QueueIsEnd
  <2>2. SentLists' >= 0
    BY <1>2, <1>5
  <2>3. Len(order') = n /\ order' = order /\ Len(tx_queue') = m - 1
    BY <1>1, <1>3 DEF n
  <2>4. \A i \in 1 .. Len(tx_queue') : tx_queue'[i].first = order'[Len(order') - Len(tx_queue') + i]
    BY <1>7, <2>3
  <2>5. txpeeked' # 0 => txpeeked' = order'[Len(order') - Len(tx_queue')]
    BY <1>8, <2>3
  <2> QED BY <2>1, <2>2, <2>4, <2>5 DEF QueueIsEnd
<1>10. WireFollows'
  BY <1>1, <1>5, InNext DEF OrderInv, WireFollows
<1> QED BY <1>9, <1>10 DEF OrderInv

(* The peeked list is the next to leave, all of it or none of it sent.       *)
LEMMA OrderSend ==
  ASSUME NonceInv, OrderInv, wg_packet_tx_worker
  PROVE  OrderInv'
<1> DEFINE n == Len(order)
           m == Len(tx_queue)
           q == list[txpeeked]
           w == Len(wire)
<1>1. /\ UNCHANGED <<order, list, tx_queue>> /\ txpeeked # 0 /\ txpeeked' = 0
      /\ wire' = wire \/ wire' = wire \o q
  BY DEF wg_packet_tx_worker
<1>2. /\ n \in Nat /\ m \in Nat /\ w \in Nat /\ wire \in Seq(Packets) /\ SentLists \in Nat
      /\ \A k \in 1 .. n : order[k] \in Packets
  BY OrderLengths DEF NonceInv, OrderInv
<1>3. SentLists' = n - m /\ SentLists = n - m - 1 /\ n - m \in 1 .. n
  BY <1>1, <1>2 DEF SentLists
<1>4. txpeeked = order[n - m] /\ q = list[order[n - m]] /\ q \in Seq(Packets)
  <2>1. txpeeked = order[n - m]
    BY <1>1 DEF OrderInv, QueueIsEnd
  <2> QED BY <1>2, <1>3, <2>1 DEF NonceInv, TxTypeOK
<1> HIDE DEF n, m, q
<1>5. QueueIsEnd'
  <2>1. /\ \A k \in 1 .. Len(order') : In(order[k], list[order[k]])'
        /\ \A p \in Packets : \A k, l \in 1 .. Len(order') :
             In(p, list[order[k]])' /\ In(p, list[order[l]])' => k = l
        /\ order' \in Seq(Packets)
        /\ \A i \in 1 .. Len(tx_queue') :
             tx_queue'[i].first = order'[Len(order') - Len(tx_queue') + i]
    BY <1>1, InNext DEF OrderInv, QueueIsEnd
  <2>2. SentLists' >= 0
    BY <1>2, <1>3
  <2> QED BY <1>1, <2>1, <2>2 DEF QueueIsEnd
<1>6. CASE wire' = wire
  <2>1. \A i \in 1 .. w : \E k \in 1 .. SentLists' : In(wire[i], list[order[k]])
    <3> SUFFICES ASSUME NEW i \in 1 .. w
                 PROVE  \E k \in 1 .. SentLists' : In(wire[i], list[order[k]])
      OBVIOUS
    <3>1. PICK k \in 1 .. SentLists : In(wire[i], list[order[k]])
      BY DEF OrderInv, WireFollows
    <3>2. k \in 1 .. SentLists'
      BY <1>2, <1>3
    <3> QED BY <3>1, <3>2
  <2>2. WireFollows'
    BY <1>1, <1>6, <2>1, InNext DEF OrderInv, WireFollows
  <2> QED BY <1>5, <2>2 DEF OrderInv
<1>7. CASE wire' = wire \o q
  <2>1. /\ Len(q) \in Nat /\ Len(wire') = w + Len(q)
        /\ \A i \in 1 .. w : wire'[i] = wire[i]
        /\ \A i \in w + 1 .. w + Len(q) : wire'[i] = q[i - w] /\ q[i - w] \in Packets
    BY <1>2, <1>4, <1>7
  <2>2. ASSUME NEW i \in 1 .. w PROVE \E k \in 1 .. n - m - 1 : In(wire'[i], list[order[k]])
    BY <1>3, <2>1 DEF OrderInv, WireFollows
  <2>3. ASSUME NEW i \in w + 1 .. w + Len(q)
        PROVE  In(wire'[i], list[order[n - m]]) /\ wire'[i] \in Packets
    <3>1. i - w \in 1 .. Len(q)
      BY <1>2, <2>1
    <3> QED BY <1>4, <2>1, <3>1 DEF In
  <2> HIDE DEF w
  <2>4. \A p \in Packets : \A k, l \in 1 .. n : In(p, list[order[k]]) /\ In(p, list[order[l]]) => k = l
    BY DEF OrderInv, QueueIsEnd, n
  <2>5. ASSUME NEW i \in 1 .. w + Len(q) PROVE \E k \in 1 .. n - m : In(wire'[i], list[order[k]])
    <3>1. CASE i \in 1 .. w
      <4>1. PICK k \in 1 .. n - m - 1 : In(wire'[i], list[order[k]])
        BY <2>2, <3>1
      <4>2. k \in 1 .. n - m
        BY <1>2, <1>3
      <4> QED BY <4>1, <4>2
    <3>2. CASE i \in w + 1 .. w + Len(q)
      BY <1>2, <1>3, <2>3, <3>2
    <3> QED BY <1>2, <2>1, <3>1, <3>2
  <2>6. ASSUME NEW i \in 1 .. w + Len(q), NEW j \in 1 .. w + Len(q), NEW k \in 1 .. n, NEW l \in 1 .. n,
               i < j, In(wire'[i], list[order[k]]), In(wire'[j], list[order[l]])
        PROVE  k <= l
    <3>1. CASE i \in 1 .. w /\ j \in 1 .. w
      <4>1. In(wire[i], list[order[k]]) /\ In(wire[j], list[order[l]])
        BY <2>1, <2>6, <3>1
      <4> QED BY <2>6, <3>1, <4>1 DEF OrderInv, WireFollows, n, w
    <3>2. CASE j \in w + 1 .. w + Len(q)
      <4>1. l = n - m
        BY <1>3, <2>3, <2>4, <2>6, <3>2
      <4>2. CASE i \in w + 1 .. w + Len(q)
        <5>1. k = n - m
          BY <1>3, <2>3, <2>4, <2>6, <4>2
        <5> QED BY <1>2, <4>1, <5>1
      <4>3. CASE i \in 1 .. w
        <5>1. PICK k2 \in 1 .. n - m - 1 : In(wire'[i], list[order[k2]])
          BY <2>2, <4>3
        <5>2. wire'[i] \in Packets /\ k2 \in 1 .. n
          BY <1>2, <1>3, <2>1, <4>3 DEF w
        <5>3. k = k2
          BY <2>4, <2>6, <5>1, <5>2
        <5> QED BY <1>2, <4>1, <5>1, <5>3
      <4> QED BY <1>2, <2>1, <4>2, <4>3
    <3> QED BY <1>2, <2>1, <2>6, <3>1, <3>2
  <2>7. \A i \in 1 .. Len(wire') : \E k \in 1 .. SentLists' : In(wire[i], list[order[k]])'
    BY <1>1, <1>3, <2>1, <2>5, InNext
  <2>8. \A i, j \in 1 .. Len(wire') : \A k, l \in 1 .. Len(order') :
           i < j /\ In(wire[i], list[order[k]])' /\ In(wire[j], list[order[l]])' => k <= l
    BY <1>1, <2>1, <2>6, InNext DEF n
  <2> QED BY <1>5, <2>7, <2>8 DEF OrderInv, WireFollows
<1> QED BY <1>1, <1>6, <1>7

(* It holds at the start: nothing was queued.                                *)
LEMMA OrderInit ==
  ASSUME TxInit
  PROVE  OrderInv
<1>1. order = <<>> /\ tx_queue = <<>> /\ txpeeked = 0 /\ wire = <<>>
  BY DEF TxInit
<1>2. Len(order) = 0 /\ Len(tx_queue) = 0 /\ Len(wire) = 0 /\ order \in Seq(Packets)
  BY <1>1
<1>3. SentLists = 0
  BY <1>1, <1>2 DEF SentLists
<1>4. 1 .. 0 = {}
  OBVIOUS
<1> QED BY <1>1, <1>2, <1>3, <1>4 DEF OrderInv, QueueIsEnd, WireFollows

(* Every step keeps it.                                                      *)
LEMMA OrderNext ==
  ASSUME NonceInv, OrderInv, [TxNext]_tx_vars
  PROVE  OrderInv'
<1>1. NonceInv'
  BY NonceNext
<1>2. ASSUME NEW s \in Senders,
             \/ wg_xmit(s) \/ wg_packet_send_keepalive(s) \/ NewKeypair(s) \/ keepalive_queue(s)
             \/ wg_packet_send_staged_packets(s) \/ keypair_get(s) \/ assign_nonce(s) \/ put_back(s)
             \/ wg_packet_create_data(s) \/ create_data_err(s) \/ enqueue_per_device(s)
             \/ queue_encrypt_work(s) \/ queue_transmit_work(s)
      PROVE  OrderInv'
  <2>1. UNCHANGED <<order, tx_queue, txpeeked, list, wire>>
    BY <1>2 DEF wg_xmit, wg_packet_send_keepalive, NewKeypair, keepalive_queue,
         wg_packet_send_staged_packets, keypair_get, assign_nonce, put_back,
         wg_packet_create_data, create_data_err, enqueue_per_device, queue_encrypt_work,
         queue_transmit_work, queues, workers
  <2> QED BY <2>1, OrderSame
<1>3. ASSUME \/ \E c \in EncryptCpus : EncryptRuns(c)
             \/ transmit_start \/ transmit_stop \/ transmit_return
             \/ peer_make_dead \/ RemovalRuns \/ UNCHANGED tx_vars
      PROVE  OrderInv'
  <2>1. UNCHANGED <<order, tx_queue, txpeeked, list, wire>>
    BY <1>3 DEF EncryptRuns, encrypt_start, wg_packet_encrypt_worker, set_state, wake_transmit,
         encrypt_put,          transmit_start, transmit_stop, transmit_return, peer_make_dead, RemovalRuns,
         keypairs_clear, flush_again, peer_remove_after_dead, queues, workers, tx_vars
  <2> QED BY <2>1, OrderSame
<1>4. ASSUME NEW s \in Senders, enqueue_per_peer(s) \/ queue_link(s)
      PROVE  OrderInv'
  BY <1>1, <1>4, OrderEnqueue, OrderLink
<1>5. ASSUME wg_prev_queue_peek \/ wg_packet_tx_worker
      PROVE  OrderInv'
  BY <1>5, OrderPeek, OrderSend
<1> QED BY <1>2, <1>3, <1>4, <1>5 DEF TxNext, SenderRuns, TransmitRuns

(* Every packet sent has one rank, and the ranks do not go down.             *)
LEMMA OrderInvImplies ==
  ASSUME NonceInv, OrderInv
  PROVE  SentInQueueOrder
<1> DEFINE Rank(p) == CHOOSE k \in DOMAIN order : p \in ToSet(list[order[k]])
<1>1. /\ order \in Seq(Packets) /\ wire \in Seq(Packets)
      /\ Len(order) \in Nat /\ SentLists \in Nat /\ SentLists <= Len(order)
      /\ \A k \in 1 .. Len(order) : order[k] \in Packets
  BY OrderLengths DEF NonceInv, OrderInv
<1>2. DOMAIN order = 1 .. Len(order) /\ DOMAIN wire = 1 .. Len(wire)
  BY <1>1
<1>3. ASSUME NEW r \in Seq(Packets), NEW p PROVE p \in ToSet(r) <=> In(p, r)
  BY DEF ToSet, In
<1>4. \A k \in 1 .. Len(order) : list[order[k]] \in Seq(Packets)
  BY <1>1 DEF NonceInv, TxTypeOK
<1>5. ASSUME NEW i \in 1 .. Len(wire)
      PROVE  Rank(wire[i]) \in 1 .. Len(order) /\ In(wire[i], list[order[Rank(wire[i])]])
  <2>1. PICK k \in 1 .. SentLists : In(wire[i], list[order[k]])
    BY DEF OrderInv, WireFollows
  <2>2. k \in 1 .. Len(order)
    BY <1>1
  <2>3. wire[i] \in ToSet(list[order[k]])
    BY <1>3, <1>4, <2>1, <2>2
  <2>4. Rank(wire[i]) \in 1 .. Len(order) /\ wire[i] \in ToSet(list[order[Rank(wire[i])]])
    BY <1>2, <2>2, <2>3
  <2> QED BY <1>3, <1>4, <2>4
<1> HIDE DEF Rank
<1>6. \A i, j \in 1 .. Len(wire) : i < j => Rank(wire[i]) <= Rank(wire[j])
  BY <1>5 DEF OrderInv, WireFollows
<1> QED BY <1>2, <1>6 DEF SentInQueueOrder, Rank

(* Packets reach the socket in the order their lists took places in          *)
(* tx_queue, for any number of contexts and encrypt workers, whichever of    *)
(* them finishes first (wg_packet_tx_worker, wg_prev_queue_peek).            *)
THEOREM SentInOrder == Limits => (TxSpec => []SentInQueueOrder)
<1> SUFFICES ASSUME Limits PROVE TxSpec => []SentInQueueOrder
  OBVIOUS
<1>1. TxInit => NonceInv /\ OrderInv
  BY NonceInit, OrderInit
<1>2. NonceInv /\ OrderInv /\ [TxNext]_tx_vars => (NonceInv /\ OrderInv)'
  BY NonceNext, OrderNext
<1>3. NonceInv /\ OrderInv => SentInQueueOrder
  BY OrderInvImplies
<1> QED BY <1>1, <1>2, <1>3, PTL DEF TxSpec


-------------------------------------------------------------------------------
(* The two flushes.  After the grace period no context has a list it has not *)
(* handed on, so all that waits is in the ring, with an encrypt worker or     *)
(* finished.  The first flush waits for every encrypt work: it ends with the  *)
(* ring empty, and each list finished has queued the transmit work.  The      *)
(* second waits for that work, which sends or frees all that waits.           *)

\* Types of the works and the states of a list.
States == {"none", "UNCRYPTED", "CRYPTED", "DEAD", "gone"}
WorkTypes == [pending : BOOLEAN,
              pc : {"idle", "consume", "state", "transmit", "put", "peek", "return"},
              first : 0 .. MaxPackets]

\* A list a context still works on, one an encrypt worker has, one of the queue.
Mine(s, f) == sender[s].pc \in ListPCs /\ First(s) = f
InHand(c, f) == encrypt[c].pc = "state" /\ encrypt[c].first = f
Owned(f) == \/ \E s \in Senders : Mine(s, f)
            \/ In(f, crypt_ring)
            \/ \E c \in EncryptCpus : InHand(c, f)
Unfinished == \E f \in Packets : Owned(f)
Waits(f) == txpeeked = f \/ \E i \in 1 .. Len(tx_queue) : tx_queue[i].first = f

\* The list at the front can be sent or freed.
HeadDone == IF txpeeked # 0 THEN txstate[txpeeked] # "UNCRYPTED"
            ELSE Reachable /\ txstate[Head(tx_queue).first] # "UNCRYPTED"

FlushTypeOK ==
    /\ crypt_ring \in Seq(Packets) /\ txstate \in [Packets -> States]
    /\ encrypt \in [EncryptCpus -> WorkTypes] /\ transmit \in WorkTypes

(* A list not handed on yet is known to nobody else, ...                     *)
NotHandedOn ==
    \A s \in Senders : sender[s].pc \in ListPCs =>
        /\ txstate[First(s)] = "UNCRYPTED" /\ ~ In(First(s), crypt_ring)
        /\ \A c \in EncryptCpus : ~ InHand(c, First(s))
        /\ \A t \in Senders : Mine(t, First(s)) => t = s

(* ... each list that is owned is in the books, each that waits uncrypted    *)
(* is owned, and each gap in the queue is about to be closed.                *)
ListsOwned ==
    /\ \A f \in Packets : Owned(f) => In(f, list[f])
    /\ \A f \in Packets : Waits(f) /\ txstate[f] = "UNCRYPTED" => Owned(f)
    /\ \A i \in 1 .. Len(tx_queue) : ~ tx_queue[i].linked =>
          \E s \in Senders : sender[s].pc = "link" /\ First(s) = tx_queue[i].first

(* What is in the ring has a work that will see it, and so has what can be   *)
(* sent, though it may be the work of a list that is not finished yet: the   *)
(* one at whose gap the transmit work gave up, say.                          *)
Served ==
    /\ crypt_ring # <<>> =>
          \/ \E c \in EncryptCpus : encrypt[c].pending \/ encrypt[c].pc # "idle"
          \/ \E s \in Senders : sender[s].pc = "kick"
    /\ HeadDone =>
          \/ transmit.pending \/ transmit.pc = "peek"
          \/ \E c \in EncryptCpus : encrypt[c].pc = "transmit"
          \/ \E s \in Senders : sender[s].pc = "kicktx"
          \/ Unfinished

(* The generations of a removal: no context queues any more, then no encrypt *)
(* worker has anything, then the transmit work has nothing either.           *)
Generations ==
    /\ removal # "no" => is_dead
    /\ removal \in {"flush1", "flush2", "removed"} => \A s \in Senders : ~ InRcu(s)
    /\ removal = "flush1" => \A c \in EncryptCpus :
          /\ encrypt[c].pending => <<c, "pending">> \in flushed
          /\ encrypt[c].pc # "idle" => <<c, "running">> \in flushed
    /\ removal \in {"flush2", "removed"} =>
          crypt_ring = <<>> /\ \A c \in EncryptCpus : ~ encrypt[c].pending /\ encrypt[c].pc = "idle"
    /\ removal = "flush2" =>
          /\ transmit.pending => <<"tx", "pending">> \in flushed
          /\ transmit.pc # "idle" => <<"tx", "running">> \in flushed
    /\ TwoFlushesSuffice

FlushInv == FlushTypeOK /\ NotHandedOn /\ ListsOwned /\ Served /\ Generations

\* Works and contexts have names of their own.
Names == "tx" \notin EncryptCpus

-------------------------------------------------------------------------------
(* The first packet of what a context has.                                   *)
LEMMA FirstOf ==
  ASSUME NonceInv, NEW s \in Senders, sender[s].pc \in HoldPCs \cup ListPCs
  PROVE  First(s) \in Packets /\ In(First(s), sender[s].packets)
<1>1. sender[s].packets \in Seq(Packets) /\ sender[s].packets # <<>>
  BY DEF NonceInv, TxTypeOK, SenderTypes, SenderShape, Shaped
<1>2. /\ Head(sender[s].packets) = sender[s].packets[1] /\ 1 \in 1 .. Len(sender[s].packets)
      /\ Head(sender[s].packets) \in Packets
  BY <1>1
<1> QED BY <1>2 DEF First, In

(* The lists are where they were and with whom they were.                    *)
LEMMA SameLists ==
  ASSUME FlushInv, UNCHANGED <<list, tx_queue, txpeeked, crypt_ring, txstate>>,
         \A t \in Senders : /\ sender'[t].pc \in ListPCs <=> sender[t].pc \in ListPCs
                            /\ sender'[t].pc = "link" <=> sender[t].pc = "link"
                            /\ sender[t].pc \in ListPCs => First(t)' = First(t),
         \A c \in EncryptCpus : \A f : InHand(c, f)' <=> InHand(c, f)
  PROVE  NotHandedOn' /\ ListsOwned' /\ (HeadDone' <=> HeadDone) /\ (Unfinished' <=> Unfinished)
<1>1. \A f : \A t \in Senders : Mine(t, f)' <=> Mine(t, f)
  BY DEF Mine
<1>2. \A f : /\ Owned(f)' <=> Owned(f)
             /\ In(f, crypt_ring)' <=> In(f, crypt_ring)
             /\ Waits(f)' <=> Waits(f)
  BY <1>1 DEF Owned, In, Waits
<1>3. NotHandedOn'
  BY <1>1, <1>2 DEF FlushInv, NotHandedOn
<1>4. ListsOwned'
  <2>1. \A f \in Packets : Owned(f)' => In(f, list[f])'
    BY <1>2 DEF FlushInv, ListsOwned, In
  <2>2. \A f \in Packets : Waits(f)' /\ txstate'[f] = "UNCRYPTED" => Owned(f)'
    BY <1>2 DEF FlushInv, ListsOwned
  <2>3. \A i \in 1 .. Len(tx_queue) : ~ tx_queue[i].linked =>
          \E t \in Senders : sender'[t].pc = "link" /\ First(t)' = tx_queue[i].first
    BY DEF FlushInv, ListsOwned, ListPCs
  <2> QED BY <2>1, <2>2, <2>3 DEF ListsOwned
<1>5. HeadDone' <=> HeadDone
  BY DEF HeadDone, Reachable
<1>6. Unfinished' <=> Unfinished
  BY <1>2 DEF Unfinished
<1> QED BY <1>3, <1>4, <1>5, <1>6

(* A context moves where it has no list that anybody waits for, and enters   *)
(* the read-side section only while the peer is not dead.                    *)
LEMMA ContextMoves ==
  ASSUME NonceInv, FlushInv, NEW s \in Senders, NEW r \in SenderTypes,
         sender' = [sender EXCEPT ![s] = r],
         sender[s].pc \notin ListPCs \cup {"kick", "kicktx"},
         r.pc \notin ListPCs \cup {"kick", "kicktx"},
         r.pc = "enqueue" => sender[s].pc = "enqueue" \/ ~ is_dead,
         UNCHANGED <<list, queues, encrypt, transmit, teardown>>
  PROVE  FlushInv'
<1>1. \A t \in Senders : sender'[t] = IF t = s THEN r ELSE sender[t]
  BY DEF NonceInv, TxTypeOK
<1>2. UNCHANGED <<list, tx_queue, txpeeked, crypt_ring, txstate, encrypt, transmit, is_dead, removal, flushed>>
  BY DEF queues, teardown
<1>3. \A t \in Senders : /\ sender'[t].pc \in ListPCs <=> sender[t].pc \in ListPCs
                         /\ sender'[t].pc = "link" <=> sender[t].pc = "link"
                         /\ sender'[t].pc = "kick" <=> sender[t].pc = "kick"
                         /\ sender'[t].pc = "kicktx" <=> sender[t].pc = "kicktx"
                         /\ sender[t].pc \in ListPCs => First(t)' = First(t)
  BY <1>1 DEF ListPCs, First
<1>4. FlushTypeOK'
  BY <1>2 DEF FlushInv, FlushTypeOK
<1>5. NotHandedOn' /\ ListsOwned' /\ (HeadDone' <=> HeadDone) /\ (Unfinished' <=> Unfinished)
  <2>1. \A c \in EncryptCpus : \A f : InHand(c, f)' <=> InHand(c, f)
    BY <1>2 DEF InHand
  <2> QED BY <1>2, <1>3, <2>1, SameLists
<1>6. Served'
  BY <1>2, <1>3, <1>5 DEF FlushInv, Served
<1>7. Generations'
  BY <1>1, <1>2 DEF FlushInv, Generations, InRcu, ListPCs, TwoFlushesSuffice
<1> QED BY <1>4, <1>5, <1>6, <1>7 DEF FlushInv

(* The steps of a context outside the queues.                                *)
LEMMA ContextStep ==
  ASSUME NonceInv, FlushInv, NEW s \in Senders,
         \/ wg_xmit(s) \/ wg_packet_send_keepalive(s) \/ NewKeypair(s) \/ keepalive_queue(s)
         \/ wg_packet_send_staged_packets(s) \/ keypair_get(s) \/ assign_nonce(s) \/ put_back(s)
         \/ wg_packet_create_data(s) \/ create_data_err(s)
  PROVE  FlushInv'
<1>1. UNCHANGED <<list, queues, encrypt, transmit, teardown>>
  BY DEF wg_xmit, wg_packet_send_keepalive, NewKeypair, keepalive_queue,
         wg_packet_send_staged_packets, keypair_get, assign_nonce, put_back,
         wg_packet_create_data, create_data_err, workers
<1>2. sender[s] \in SenderTypes /\ staged \in Seq(Packets) /\ current \in Nat
  <2>1. keys \in Seq(KeyTypes) /\ current \in 0 .. Len(keys)
    BY DEF NonceInv, TxTypeOK
  <2> QED BY <2>1 DEF NonceInv, TxTypeOK
<1>3. sender[s].pc \notin ListPCs \cup {"kick", "kicktx"}
  BY DEF wg_xmit, wg_packet_send_keepalive, NewKeypair, keepalive_queue,
         wg_packet_send_staged_packets, keypair_get, assign_nonce, put_back,
         wg_packet_create_data, create_data_err, ListPCs
<1>4. ASSUME NEW pc \in {"keepalive", "steal", "putback", "create", "free", "enqueue"}, Goto(s, pc),
             pc = "enqueue" => ~ is_dead
      PROVE  FlushInv'
  <2> DEFINE r == [sender[s] EXCEPT !.pc = pc]
  <2>1. r \in SenderTypes /\ r.pc = pc /\ sender' = [sender EXCEPT ![s] = r]
    BY <1>2, <1>4 DEF SenderTypes, SenderPCs, Goto
  <2>2. r.pc \notin ListPCs \cup {"kick", "kicktx"}
    BY <2>1 DEF ListPCs
  <2> QED BY <1>1, <1>3, <1>4, <2>1, <2>2, ContextMoves
<1>5. ASSUME SenderDone(s) PROVE FlushInv'
  <2>1. Idle \in SenderTypes /\ Idle.pc = "idle"
    <3>1. <<>> \in Seq(Packets)
      OBVIOUS
    <3> QED BY <3>1 DEF Idle, SenderTypes, SenderPCs
  <2>2. Idle.pc \notin ListPCs \cup {"kick", "kicktx"}
    BY <2>1 DEF ListPCs
  <2> QED BY <1>1, <1>3, <1>5, <2>1, <2>2, ContextMoves DEF SenderDone
<1>6. CASE wg_xmit(s) \/ wg_packet_send_keepalive(s) \/ NewKeypair(s)
  BY <1>4, <1>6 DEF wg_xmit, wg_packet_send_keepalive, NewKeypair
<1>7. CASE keepalive_queue(s) \/ put_back(s) \/ create_data_err(s)
  BY <1>4, <1>5, <1>7 DEF keepalive_queue, put_back, create_data_err
<1>8. CASE wg_packet_create_data(s)
  BY <1>4, <1>8 DEF wg_packet_create_data
<1>9. CASE wg_packet_send_staged_packets(s)
  <2>1. CASE SenderDone(s)
    BY <1>5, <2>1
  <2>2. CASE sender' = [sender EXCEPT ![s].pc = "key", ![s].packets = staged]
    <3> DEFINE r == [sender[s] EXCEPT !.pc = "key", !.packets = staged]
    <3>1. r \in SenderTypes /\ r.pc = "key" /\ sender' = [sender EXCEPT ![s] = r]
      BY <1>2, <2>2 DEF SenderTypes, SenderPCs
    <3>2. r.pc \notin ListPCs \cup {"kick", "kicktx"}
      BY <3>1 DEF ListPCs
    <3> QED BY <1>1, <1>3, <3>1, <3>2, ContextMoves
  <2> QED BY <1>9, <2>1, <2>2 DEF wg_packet_send_staged_packets
<1>10. CASE keypair_get(s)
  <2>1. CASE sender' = [sender EXCEPT ![s].pc = "nonce", ![s].key = current, ![s].at = 1]
    <3> DEFINE r == [sender[s] EXCEPT !.pc = "nonce", !.key = current, !.at = 1]
    <3>1. r \in SenderTypes /\ r.pc = "nonce" /\ sender' = [sender EXCEPT ![s] = r]
      BY <1>2, <2>1 DEF SenderTypes, SenderPCs
    <3>2. r.pc \notin ListPCs \cup {"kick", "kicktx"}
      BY <3>1 DEF ListPCs
    <3> QED BY <1>1, <1>3, <3>1, <3>2, ContextMoves
  <2> QED BY <1>4, <1>10, <2>1 DEF keypair_get
<1>11. CASE assign_nonce(s)
  <2>1. CASE sender' = [sender EXCEPT ![s].at = @ + 1]
    <3> DEFINE r == [sender[s] EXCEPT !.at = @ + 1]
    <3>1. sender[s].at + 1 \in Nat
      BY <1>2 DEF SenderTypes
    <3>2. ASSUME NEW n \in Nat
          PROVE  [sender[s] EXCEPT !.at = n] \in SenderTypes /\ [sender[s] EXCEPT !.at = n].pc = sender[s].pc
      BY <1>2 DEF SenderTypes
    <3>3. r \in SenderTypes /\ r.pc = sender[s].pc /\ sender' = [sender EXCEPT ![s] = r]
      BY <2>1, <3>1, <3>2
    <3> QED BY <1>1, <1>3, <3>3, ContextMoves
  <2> QED BY <1>4, <1>11, <2>1 DEF assign_nonce
<1> QED BY <1>6, <1>7, <1>8, <1>9, <1>10, <1>11

-------------------------------------------------------------------------------
(* The steps of a context inside the read-side section.                      *)

(* While one is there, the removal has not got beyond the grace period.      *)
LEMMA InsideRcu ==
  ASSUME FlushInv, NEW s \in Senders, InRcu(s), removal' = removal, is_dead' = is_dead
  PROVE  removal \notin {"flush1", "flush2", "removed"} /\ Generations'
BY DEF FlushInv, Generations, TwoFlushesSuffice

(* A place in tx_queue is taken.                                             *)
LEMMA EnqueueFlush ==
  ASSUME NonceInv, FlushInv, NEW s \in Senders, enqueue_per_peer(s)
  PROVE  FlushInv'
<1> DEFINE q == sender[s].packets
           f == First(s)
           slot == [first |-> f, linked |-> FALSE]
<1>1. sender[s] \in SenderTypes /\ sender[s].pc = "enqueue" /\ InRcu(s)
  BY DEF NonceInv, TxTypeOK, enqueue_per_peer, InRcu
<1>2. f \in Packets /\ In(f, q)
  BY <1>1, FirstOf DEF HoldPCs
<1>3. UNCHANGED <<encrypt, transmit, teardown>>
  BY DEF enqueue_per_peer, workers
<1>4. CASE Goto(s, "free") /\ UNCHANGED <<queues, list>>
  <2> DEFINE r == [sender[s] EXCEPT !.pc = "free"]
  <2>1. r \in SenderTypes /\ r.pc = "free" /\ sender' = [sender EXCEPT ![s] = r]
    BY <1>1, <1>4 DEF SenderTypes, SenderPCs, Goto
  <2>2. r.pc \notin ListPCs \cup {"kick", "kicktx"} /\ sender[s].pc \notin ListPCs \cup {"kick", "kicktx"}
    BY <1>1, <2>1 DEF ListPCs
  <2> QED BY <1>1, <1>3, <1>4, <2>1, <2>2, ContextMoves
<1>5. CASE /\ tx_queue' = Append(tx_queue, slot) /\ list' = [list EXCEPT ![f] = q]
           /\ txstate' = [txstate EXCEPT ![f] = "UNCRYPTED"] /\ Goto(s, "link")
           /\ UNCHANGED <<txpeeked, crypt_ring>>
  <2> DEFINE r == [sender[s] EXCEPT !.pc = "link"]
  <2>1. /\ r.pc = "link" /\ r.packets = q
        /\ \A t \in Senders : sender'[t] = IF t = s THEN r ELSE sender[t]
    BY <1>1, <1>5 DEF NonceInv, TxTypeOK, SenderTypes, Goto
  <2>2. /\ \A g \in Packets : list'[g] = IF g = f THEN q ELSE list[g]
        /\ \A g \in Packets : txstate'[g] = IF g = f THEN "UNCRYPTED" ELSE txstate[g]
        /\ txstate' \in [Packets -> States]
    BY <1>2, <1>5 DEF NonceInv, TxTypeOK, FlushInv, FlushTypeOK, States
  <2>3. /\ tx_queue \in Seq(Slots) /\ Len(tx_queue) \in Nat
        /\ Len(tx_queue') = Len(tx_queue) + 1 /\ tx_queue'[Len(tx_queue) + 1] = slot
        /\ \A i \in 1 .. Len(tx_queue) : tx_queue'[i] = tx_queue[i]
    <3>1. slot \in Slots
      BY <1>2 DEF Slots
    <3>2. tx_queue \in Seq(Slots)
      BY DEF NonceInv, TxTypeOK
    <3> HIDE DEF slot
    <3> QED BY <1>5, <3>1, <3>2
  <2>4. slot.first = f /\ slot.linked = FALSE
    OBVIOUS
  <2>5. ~ Owned(f)
    <3>1. Held(s, f)
      BY <1>1, <1>2 DEF Held, Holds, HoldPCs
    <3>2. ~ In(f, list[f])
      BY <1>2, <3>1 DEF NonceInv, OnePlace, Gone
    <3> QED BY <1>2, <3>2 DEF FlushInv, ListsOwned
  <2> HIDE DEF r, f, q, slot
  <2>6. /\ \A t \in Senders : First(t)' = First(t)
        /\ \A t \in Senders : t # s => sender'[t].pc = sender[t].pc
    BY <2>1 DEF First, q
  <2>7. \A g : \A t \in Senders : Mine(t, g)' <=> Mine(t, g) \/ (t = s /\ g = f)
    BY <1>1, <2>1, <2>6 DEF Mine, ListPCs, f
  <2>8. \A g : /\ In(g, crypt_ring)' <=> In(g, crypt_ring)
               /\ \A c \in EncryptCpus : InHand(c, g)' <=> InHand(c, g)
    BY <1>3, <1>5 DEF In, InHand
  <2>9. \A g : Owned(g)' <=> Owned(g) \/ g = f
    BY <2>7, <2>8 DEF Owned
  <2>10. FlushTypeOK'
    BY <1>3, <1>5, <2>2 DEF FlushInv, FlushTypeOK
  <2>11. NotHandedOn'
    <3> SUFFICES ASSUME NEW t \in Senders, sender'[t].pc \in ListPCs
                 PROVE  /\ txstate'[First(t)] = "UNCRYPTED" /\ ~ In(First(t), crypt_ring)
                        /\ \A c \in EncryptCpus : ~ InHand(c, First(t))
                        /\ \A u \in Senders : Mine(u, First(t)) \/ (u = s /\ First(t) = f) => u = t
      BY <2>6, <2>7, <2>8 DEF NotHandedOn
    <3>1. CASE t = s
      BY <1>2, <2>2, <2>5, <3>1 DEF Owned, f
    <3>2. CASE t # s
      <4>1. sender[t].pc \in ListPCs
        BY <2>1, <3>2
      <4>2. First(t) \in Packets /\ Mine(t, First(t))
        BY <4>1, FirstOf DEF Mine
      <4>3. First(t) # f
        BY <2>5, <4>2 DEF Owned
      <4> QED BY <2>2, <4>1, <4>2, <4>3 DEF FlushInv, NotHandedOn
    <3> QED BY <3>1, <3>2
  <2>12. ListsOwned'
    <3>1. \A g \in Packets : Owned(g)' => In(g, list'[g])
      BY <1>2, <2>2, <2>9 DEF FlushInv, ListsOwned, f, q
    <3>2. \A g \in Packets : Waits(g)' => Waits(g) \/ g = f
      BY <1>5, <2>3, <2>4 DEF Waits
    <3>3. \A g \in Packets : Waits(g)' /\ txstate'[g] = "UNCRYPTED" => Owned(g)'
      BY <2>2, <2>9, <3>2 DEF FlushInv, ListsOwned
    <3>4. ASSUME NEW i \in 1 .. Len(tx_queue'), ~ tx_queue'[i].linked
          PROVE  \E t \in Senders : sender'[t].pc = "link" /\ First(t)' = tx_queue'[i].first
      <4>1. CASE i = Len(tx_queue) + 1
        BY <2>1, <2>3, <2>4, <2>6, <4>1 DEF f
      <4>2. CASE i \in 1 .. Len(tx_queue)
        BY <1>1, <2>3, <2>6, <3>4, <4>2 DEF FlushInv, ListsOwned
      <4> QED BY <2>3, <4>1, <4>2
    <3>5. \A g \in Packets : Owned(g)' => In(g, list[g])'
      BY <3>1 DEF In
    <3> QED BY <3>3, <3>4, <3>5 DEF ListsOwned
  <2>13. Served'
    <3>1. HeadDone' => HeadDone
      <4> SUFFICES ASSUME HeadDone' PROVE HeadDone
        OBVIOUS
      <4>1. CASE txpeeked # 0
        <5>1. txpeeked \in Packets
          BY <4>1 DEF NonceInv, TxTypeOK, Packets, Limits
        <5> QED BY <1>5, <2>2, <4>1, <5>1 DEF HeadDone
      <4>2. CASE txpeeked = 0 /\ tx_queue = <<>>
        <5>1. Head(tx_queue') = slot
          BY <2>3, <4>2, <1>5
        <5> QED BY <1>5, <2>4, <4>2, <5>1 DEF HeadDone, Reachable
      <4>3. CASE txpeeked = 0 /\ tx_queue # <<>>
        <5>1. Head(tx_queue') = Head(tx_queue) /\ Head(tx_queue) \in Slots
          BY <1>5, <2>3, <4>3
        <5>2. Head(tx_queue).first \in Packets
          BY <5>1 DEF Slots
        <5> QED BY <1>5, <2>2, <4>3, <5>1, <5>2 DEF HeadDone, Reachable
      <4> QED BY <4>1, <4>2, <4>3
    <3>2. \A t \in Senders : sender[t].pc \in {"kick", "kicktx"} => sender'[t].pc = sender[t].pc
      BY <1>1, <2>6
    <3>3. Unfinished'
      BY <1>2, <2>9 DEF Unfinished, f
    <3> QED BY <1>3, <1>5, <3>1, <3>2, <3>3 DEF FlushInv, Served
  <2>14. Generations'
    BY <1>1, <1>3, InsideRcu DEF teardown
  <2> QED BY <2>10, <2>11, <2>12, <2>13, <2>14 DEF FlushInv
<1> QED BY <1>4, <1>5 DEF enqueue_per_peer

(* A context goes on, with the packets it had.                               *)
LEMMA ContextGoesOn ==
  ASSUME NonceInv, NEW s \in Senders, NEW pc, Goto(s, pc)
  PROVE  /\ \A t \in Senders : First(t)' = First(t)
         /\ \A t \in Senders : sender'[t].pc = IF t = s THEN pc ELSE sender[t].pc
<1>1. sender \in [Senders -> SenderTypes]
  BY DEF NonceInv, TxTypeOK
<1>2. \A t \in Senders : /\ sender'[t].packets = sender[t].packets
                         /\ sender'[t].pc = IF t = s THEN pc ELSE sender[t].pc
  BY <1>1 DEF Goto, SenderTypes
<1> QED BY <1>2 DEF First

(* Its place is linked.                                                      *)
LEMMA LinkFlush ==
  ASSUME NonceInv, NonceInv', FlushInv, NEW s \in Senders, queue_link(s)
  PROVE  FlushInv'
<1>1. /\ sender[s].pc = "link" /\ InRcu(s) /\ Goto(s, "produce")
      /\ UNCHANGED <<list, txpeeked, crypt_ring, txstate, encrypt, transmit, is_dead, removal, flushed>>
  BY DEF queue_link, InRcu, workers, teardown
<1>2. /\ \A t \in Senders : First(t)' = First(t)
      /\ \A t \in Senders : sender'[t].pc = IF t = s THEN "produce" ELSE sender[t].pc
  BY <1>1, ContextGoesOn
<1>3. /\ tx_queue \in Seq(Slots) /\ tx_queue' \in Seq(Slots)
      /\ DOMAIN tx_queue' = DOMAIN tx_queue
      /\ \A i \in DOMAIN tx_queue :
            tx_queue'[i] = IF tx_queue[i].first = First(s)
                           THEN [tx_queue[i] EXCEPT !.linked = TRUE] ELSE tx_queue[i]
  BY DEF NonceInv, TxTypeOK, queue_link
<1>4. /\ Len(tx_queue') = Len(tx_queue) /\ Len(tx_queue) \in Nat
      /\ DOMAIN tx_queue = 1 .. Len(tx_queue)
      /\ \A i \in 1 .. Len(tx_queue) : tx_queue[i] \in Slots
  BY <1>3
<1>5. \A i \in 1 .. Len(tx_queue) :
         /\ tx_queue'[i].first = tx_queue[i].first
         /\ tx_queue'[i].linked = (tx_queue[i].linked \/ tx_queue[i].first = First(s))
  BY <1>3, <1>4 DEF Slots
<1>6. \A g : /\ \A t \in Senders : Mine(t, g)' <=> Mine(t, g)
             /\ In(g, crypt_ring)' <=> In(g, crypt_ring)
             /\ \A c \in EncryptCpus : InHand(c, g)' <=> InHand(c, g)
             /\ Owned(g)' <=> Owned(g)
             /\ Waits(g)' <=> Waits(g)
  <2>1. \A g : /\ \A t \in Senders : Mine(t, g)' <=> Mine(t, g)
               /\ In(g, crypt_ring)' <=> In(g, crypt_ring)
               /\ \A c \in EncryptCpus : InHand(c, g)' <=> InHand(c, g)
    BY <1>1, <1>2 DEF Mine, In, InHand, ListPCs
  <2>2. \A g : Owned(g)' <=> Owned(g)
    BY <2>1 DEF Owned
  <2>3. \A g : Waits(g)' <=> Waits(g)
    BY <1>1, <1>4, <1>5 DEF Waits
  <2> QED BY <2>1, <2>2, <2>3
<1>7. FlushTypeOK'
  BY <1>1 DEF FlushInv, FlushTypeOK
<1>8. NotHandedOn'
  <2> SUFFICES ASSUME NEW t \in Senders, sender'[t].pc \in ListPCs
               PROVE  /\ txstate[First(t)] = "UNCRYPTED" /\ ~ In(First(t), crypt_ring)
                      /\ \A c \in EncryptCpus : ~ InHand(c, First(t))
                      /\ \A u \in Senders : Mine(u, First(t)) => u = t
    BY <1>1, <1>2, <1>6 DEF NotHandedOn
  <2>1. sender[t].pc \in ListPCs
    BY <1>1, <1>2 DEF ListPCs
  <2> QED BY <2>1 DEF FlushInv, NotHandedOn
<1>9. ListsOwned'
  <2>1. \A g \in Packets : Owned(g)' => In(g, list[g])'
    BY <1>1, <1>6 DEF FlushInv, ListsOwned, In
  <2>2. \A g \in Packets : Waits(g)' /\ txstate'[g] = "UNCRYPTED" => Owned(g)'
    BY <1>1, <1>6 DEF FlushInv, ListsOwned
  <2>3. ASSUME NEW i \in 1 .. Len(tx_queue), ~ tx_queue'[i].linked
        PROVE  \E t \in Senders : sender'[t].pc = "link" /\ First(t)' = tx_queue'[i].first
    <3>1. ~ tx_queue[i].linked /\ tx_queue[i].first # First(s)
      BY <1>5, <2>3
    <3>2. PICK t \in Senders : sender[t].pc = "link" /\ First(t) = tx_queue[i].first
      BY <3>1 DEF FlushInv, ListsOwned
    <3> QED BY <1>2, <1>5, <3>1, <3>2
  <2> QED BY <1>4, <2>1, <2>2, <2>3 DEF ListsOwned
<1>10. Served'
  <2>1. HeadDone' => HeadDone
    <3> SUFFICES ASSUME HeadDone', txpeeked = 0 PROVE HeadDone
      BY <1>1 DEF HeadDone
    <3>1. tx_queue' # <<>> /\ Head(tx_queue').linked /\ txstate[Head(tx_queue').first] # "UNCRYPTED"
      BY <1>1 DEF HeadDone, Reachable
    <3>2. /\ tx_queue # <<>> /\ 1 \in 1 .. Len(tx_queue)
          /\ Head(tx_queue') = tx_queue'[1] /\ Head(tx_queue) = tx_queue[1]
      BY <1>3, <1>4, <3>1
    <3>3. txstate[First(s)] = "UNCRYPTED"
      BY <1>1 DEF FlushInv, NotHandedOn, ListPCs
    <3>4. Head(tx_queue).linked /\ Head(tx_queue).first = Head(tx_queue').first
      BY <1>5, <3>1, <3>2, <3>3
    <3> QED BY <3>1, <3>2, <3>4 DEF HeadDone, Reachable
  <2>2. \A t \in Senders : sender[t].pc \in {"kick", "kicktx"} => sender'[t].pc = sender[t].pc
    BY <1>1, <1>2
  <2>3. Unfinished' <=> Unfinished
    BY <1>6 DEF Unfinished
  <2> QED BY <1>1, <2>1, <2>2, <2>3 DEF FlushInv, Served
<1>11. Generations'
  BY <1>1, InsideRcu
<1> QED BY <1>7, <1>8, <1>9, <1>10, <1>11 DEF FlushInv

(* The list is handed to the encrypt workers, or given up.                   *)
LEMMA ProduceFlush ==
  ASSUME NonceInv, FlushInv, NEW s \in Senders, enqueue_per_device(s)
  PROVE  FlushInv'
<1> DEFINE f == First(s)
<1>1. /\ sender[s].pc = "produce" /\ InRcu(s) /\ Mine(s, f)
      /\ UNCHANGED <<list, tx_queue, txpeeked, encrypt, transmit, is_dead, removal, flushed>>
  BY DEF enqueue_per_device, InRcu, Mine, ListPCs, workers, teardown
<1>2. f \in Packets
  BY <1>1, FirstOf DEF ListPCs
<1>3. Generations'
  BY <1>1, InsideRcu
<1>4. \A g : /\ \A c \in EncryptCpus : InHand(c, g)' <=> InHand(c, g)
             /\ Waits(g)' <=> Waits(g)
  BY <1>1 DEF InHand, Waits
<1> HIDE DEF f
<1>5. CASE crypt_ring' = Append(crypt_ring, f) /\ UNCHANGED txstate /\ Goto(s, "kick")
  <2>1. /\ \A t \in Senders : First(t)' = First(t)
        /\ \A t \in Senders : sender'[t].pc = IF t = s THEN "kick" ELSE sender[t].pc
    BY <1>5, ContextGoesOn
  <2>2. /\ crypt_ring' \in Seq(Packets) /\ crypt_ring \in Seq(Packets) /\ Len(crypt_ring) \in Nat
        /\ Len(crypt_ring') = Len(crypt_ring) + 1 /\ crypt_ring'[Len(crypt_ring) + 1] = f
        /\ \A i \in 1 .. Len(crypt_ring) : crypt_ring'[i] = crypt_ring[i]
    <3>1. crypt_ring \in Seq(Packets)
      BY DEF FlushInv, FlushTypeOK
    <3> QED BY <1>2, <1>5, <3>1
  <2>3. \A g : In(g, crypt_ring)' <=> In(g, crypt_ring) \/ g = f
    <3>1. ASSUME NEW g, In(g, crypt_ring') PROVE In(g, crypt_ring) \/ g = f
      BY <2>2, <3>1 DEF In
    <3>2. ASSUME NEW g, In(g, crypt_ring) \/ g = f PROVE In(g, crypt_ring')
      <4>1. CASE g = f
        <5>1. Len(crypt_ring) + 1 \in 1 .. Len(crypt_ring')
          BY <2>2
        <5> QED BY <2>2, <4>1, <5>1 DEF In
      <4>2. CASE In(g, crypt_ring)
        BY <2>2, <4>2 DEF In
      <4> QED BY <3>2, <4>1, <4>2
    <3> QED BY <3>1, <3>2 DEF In
  <2>4. \A g : \A t \in Senders : Mine(t, g)' <=> Mine(t, g) /\ t # s
    BY <2>1 DEF Mine, ListPCs
  <2>5. \A g : Owned(g)' <=> Owned(g)
    <3>1. \A g : Mine(s, g) <=> g = f
      BY <1>1 DEF Mine
    <3> QED BY <1>4, <2>3, <2>4, <3>1 DEF Owned
  <2>6. FlushTypeOK'
    BY <1>1, <1>5, <2>2 DEF FlushInv, FlushTypeOK
  <2>7. NotHandedOn'
    <3> SUFFICES ASSUME NEW t \in Senders, sender'[t].pc \in ListPCs
                 PROVE  /\ txstate[First(t)] = "UNCRYPTED" /\ ~ In(First(t), crypt_ring) /\ First(t) # f
                        /\ \A c \in EncryptCpus : ~ InHand(c, First(t))
                        /\ \A u \in Senders : Mine(u, First(t)) => u = t
      BY <1>4, <1>5, <2>1, <2>3, <2>4 DEF NotHandedOn
    <3>1. sender[t].pc \in ListPCs /\ t # s
      BY <2>1 DEF ListPCs
    <3> QED BY <1>1, <3>1 DEF FlushInv, NotHandedOn, f
  <2>8. ListsOwned'
    <3>1. \A g \in Packets : Owned(g)' => In(g, list[g])'
      BY <1>1, <2>5 DEF FlushInv, ListsOwned, In
    <3>2. \A g \in Packets : Waits(g)' /\ txstate'[g] = "UNCRYPTED" => Owned(g)'
      BY <1>4, <1>5, <2>5 DEF FlushInv, ListsOwned
    <3>3. \A i \in 1 .. Len(tx_queue) : ~ tx_queue[i].linked =>
            \E t \in Senders : sender'[t].pc = "link" /\ First(t)' = tx_queue[i].first
      BY <1>1, <2>1 DEF FlushInv, ListsOwned
    <3> QED BY <1>1, <3>1, <3>2, <3>3 DEF ListsOwned
  <2>9. Served'
    <3>1. HeadDone' <=> HeadDone
      BY <1>1, <1>5 DEF HeadDone, Reachable
    <3>2. sender'[s].pc = "kick" /\ \A t \in Senders : sender[t].pc = "kicktx" => sender'[t].pc = "kicktx"
      BY <1>1, <2>1
    <3>3. Unfinished' <=> Unfinished
      BY <2>5 DEF Unfinished
    <3> QED BY <1>1, <3>1, <3>2, <3>3 DEF FlushInv, Served
  <2> QED BY <1>3, <2>6, <2>7, <2>8, <2>9 DEF FlushInv
<1>6. CASE txstate' = [txstate EXCEPT ![f] = "DEAD"] /\ UNCHANGED crypt_ring /\ Goto(s, "kicktx")
  <2>1. /\ \A t \in Senders : First(t)' = First(t)
        /\ \A t \in Senders : sender'[t].pc = IF t = s THEN "kicktx" ELSE sender[t].pc
    BY <1>6, ContextGoesOn
  <2>2. /\ txstate' \in [Packets -> States]
        /\ \A g \in Packets : txstate'[g] = IF g = f THEN "DEAD" ELSE txstate[g]
    BY <1>2, <1>6 DEF FlushInv, FlushTypeOK, States
  <2>3. \A g : In(g, crypt_ring)' <=> In(g, crypt_ring)
    BY <1>6 DEF In
  <2>4. \A g : \A t \in Senders : Mine(t, g)' <=> Mine(t, g) /\ t # s
    BY <2>1 DEF Mine, ListPCs
  <2>5. \A g : (Owned(g)' => Owned(g)) /\ (Owned(g) /\ g # f => Owned(g)')
    <3>1. \A g : Mine(s, g) <=> g = f
      BY <1>1 DEF Mine
    <3> QED BY <1>4, <2>3, <2>4, <3>1 DEF Owned
  <2>6. FlushTypeOK'
    BY <1>1, <1>6, <2>2 DEF FlushInv, FlushTypeOK
  <2>7. NotHandedOn'
    <3> SUFFICES ASSUME NEW t \in Senders, sender'[t].pc \in ListPCs
                 PROVE  /\ txstate'[First(t)'] = "UNCRYPTED" /\ ~ In(First(t), crypt_ring)'
                        /\ \A c \in EncryptCpus : ~ InHand(c, First(t))'
                        /\ \A u \in Senders : Mine(u, First(t))' => u = t
      BY DEF NotHandedOn
    <3>1. sender[t].pc \in ListPCs /\ t # s /\ First(t)' = First(t)
      BY <2>1 DEF ListPCs
    <3>2. /\ txstate[First(t)] = "UNCRYPTED" /\ ~ In(First(t), crypt_ring) /\ First(t) # f
          /\ \A c \in EncryptCpus : ~ InHand(c, First(t))
          /\ \A u \in Senders : Mine(u, First(t)) => u = t
      BY <1>1, <3>1 DEF FlushInv, NotHandedOn, f
    <3>3. First(t) \in Packets
      BY <3>1, FirstOf
    <3>4. txstate'[First(t)'] = "UNCRYPTED"
      BY <2>2, <3>1, <3>2, <3>3
    <3>5. ~ In(First(t), crypt_ring)' /\ \A c \in EncryptCpus : ~ InHand(c, First(t))'
      BY <1>1, <1>6, <3>1, <3>2 DEF In, InHand
    <3>6. \A u \in Senders : Mine(u, First(t))' => u = t
      BY <2>1, <3>1, <3>2 DEF Mine, ListPCs
    <3> QED BY <3>4, <3>5, <3>6
  <2>8. ListsOwned'
    <3>1. \A g \in Packets : Owned(g)' => In(g, list[g])'
      BY <1>1, <2>5 DEF FlushInv, ListsOwned, In
    <3>2. \A g \in Packets : Waits(g)' /\ txstate'[g] = "UNCRYPTED" => Owned(g)'
      BY <1>4, <2>2, <2>5 DEF FlushInv, ListsOwned
    <3>3. \A i \in 1 .. Len(tx_queue) : ~ tx_queue[i].linked =>
            \E t \in Senders : sender'[t].pc = "link" /\ First(t)' = tx_queue[i].first
      BY <1>1, <2>1 DEF FlushInv, ListsOwned
    <3> QED BY <1>1, <3>1, <3>2, <3>3 DEF ListsOwned
  <2>9. Served'
    <3>1. sender'[s].pc = "kicktx" /\ \A t \in Senders : sender[t].pc = "kick" => sender'[t].pc = "kick"
      BY <1>1, <2>1
    <3> QED BY <1>1, <1>6, <3>1 DEF FlushInv, Served
  <2> QED BY <1>3, <2>6, <2>7, <2>8, <2>9 DEF FlushInv
<1> QED BY <1>5, <1>6 DEF enqueue_per_device, f

(* The encrypt work, or the transmit work, is queued.                        *)
LEMMA KickFlush ==
  ASSUME NonceInv, FlushInv, NEW s \in Senders, queue_encrypt_work(s) \/ queue_transmit_work(s)
  PROVE  FlushInv'
<1>1. /\ sender[s].pc \in {"kick", "kicktx"} /\ InRcu(s) /\ SenderDone(s)
      /\ UNCHANGED <<list, tx_queue, txpeeked, crypt_ring, txstate, is_dead, removal>>
  BY DEF queue_encrypt_work, queue_transmit_work, InRcu, queues, teardown
<1>2. /\ sender'[s].pc = "idle" /\ \A t \in Senders : t # s => sender'[t] = sender[t]
  BY <1>1 DEF NonceInv, TxTypeOK, SenderDone, Idle
<1>3. \A t \in Senders : /\ sender'[t].pc \in ListPCs <=> sender[t].pc \in ListPCs
                         /\ sender'[t].pc = "link" <=> sender[t].pc = "link"
                         /\ sender[t].pc \in ListPCs => First(t)' = First(t)
  BY <1>1, <1>2 DEF ListPCs, First
<1>4. Generations'
  BY <1>1, InsideRcu
<1>5. CASE queue_encrypt_work(s)
  <2>1. PICK c \in EncryptCpus : encrypt' = [encrypt EXCEPT ![c].pending = TRUE]
    BY <1>5 DEF queue_encrypt_work
  <2>2. /\ encrypt' \in [EncryptCpus -> WorkTypes] /\ encrypt'[c].pending /\ transmit' = transmit
        /\ \A d \in EncryptCpus : /\ encrypt'[d].pc = encrypt[d].pc /\ encrypt'[d].first = encrypt[d].first
                                  /\ encrypt[d].pending => encrypt'[d].pending
    BY <1>5, <2>1 DEF FlushInv, FlushTypeOK, WorkTypes, queue_encrypt_work
  <2>3. FlushTypeOK'
    BY <1>1, <2>2 DEF FlushInv, FlushTypeOK
  <2>4. NotHandedOn' /\ ListsOwned' /\ (HeadDone' <=> HeadDone) /\ (Unfinished' <=> Unfinished)
    <3>1. \A d \in EncryptCpus : \A f : InHand(d, f)' <=> InHand(d, f)
      BY <2>2 DEF InHand
    <3> QED BY <1>1, <1>3, <3>1, SameLists
  <2>5. Served'
    <3>1. \A t \in Senders : sender[t].pc = "kicktx" => sender'[t].pc = "kicktx"
      BY <1>2, <1>5 DEF queue_encrypt_work
    <3> QED BY <2>2, <2>4, <3>1 DEF FlushInv, Served
  <2> QED BY <1>4, <2>3, <2>4, <2>5 DEF FlushInv
<1>6. CASE queue_transmit_work(s)
  <2>1. transmit' = [transmit EXCEPT !.pending = TRUE] /\ encrypt' = encrypt
    BY <1>6 DEF queue_transmit_work
  <2>2. transmit' \in WorkTypes /\ transmit'.pending
    BY <2>1 DEF FlushInv, FlushTypeOK, WorkTypes
  <2>3. FlushTypeOK'
    BY <1>1, <2>1, <2>2 DEF FlushInv, FlushTypeOK
  <2>4. NotHandedOn' /\ ListsOwned' /\ (HeadDone' <=> HeadDone) /\ (Unfinished' <=> Unfinished)
    <3>1. \A d \in EncryptCpus : \A f : InHand(d, f)' <=> InHand(d, f)
      BY <2>1 DEF InHand
    <3> QED BY <1>1, <1>3, <3>1, SameLists
  <2>5. Served'
    <3>1. \A t \in Senders : sender[t].pc = "kick" => sender'[t].pc = "kick"
      BY <1>2, <1>6 DEF queue_transmit_work
    <3> QED BY <1>1, <2>1, <2>2, <2>4, <3>1 DEF FlushInv, Served
  <2> QED BY <1>4, <2>3, <2>4, <2>5 DEF FlushInv
<1> QED BY <1>5, <1>6

-------------------------------------------------------------------------------
(* The steps of the encrypt workers.                                         *)

(* A work is queued and begins to run: the flush that waits for it goes on   *)
(* waiting, for the run.                                                     *)
LEMMA EncryptStartFlush ==
  ASSUME NonceInv, FlushInv, NEW c \in EncryptCpus, encrypt_start(c)
  PROVE  FlushInv'
<1>1. UNCHANGED <<list, sender, tx_queue, txpeeked, crypt_ring, txstate, transmit, is_dead, removal>>
  BY DEF encrypt_start, queues
<1>2. /\ encrypt[c].pending /\ encrypt[c].pc = "idle"
      /\ encrypt' \in [EncryptCpus -> WorkTypes]
      /\ encrypt'[c].pc = "consume" /\ ~ encrypt'[c].pending
      /\ \A d \in EncryptCpus : d # c => encrypt'[d] = encrypt[d]
  <2>1. 0 \in 0 .. MaxPackets
    BY DEF NonceInv, Limits
  <2>2. [Quiet EXCEPT !.pc = "consume"] \in WorkTypes
    BY <2>1 DEF Quiet, WorkTypes
  <2> QED BY <2>2 DEF encrypt_start, FlushInv, FlushTypeOK, Quiet
<1>3. FlushTypeOK'
  BY <1>1, <1>2 DEF FlushInv, FlushTypeOK
<1>4. NotHandedOn' /\ ListsOwned' /\ (HeadDone' <=> HeadDone) /\ (Unfinished' <=> Unfinished)
  <2>1. \A d \in EncryptCpus : \A f : InHand(d, f)' <=> InHand(d, f)
    BY <1>2 DEF InHand
  <2>2. \A t \in Senders : First(t)' = First(t)
    BY <1>1 DEF First
  <2> QED BY <1>1, <2>1, <2>2, SameLists
<1>5. Served'
  BY <1>1, <1>2, <1>4 DEF FlushInv, Served
<1>6. Generations'
  <2>1. removal \notin {"flush2", "removed"}
    BY <1>2 DEF FlushInv, Generations
  <2>2. ASSUME removal = "flush1", NEW d \in EncryptCpus
        PROVE  /\ encrypt'[d].pending => <<d, "pending">> \in flushed'
               /\ encrypt'[d].pc # "idle" => <<d, "running">> \in flushed'
    <3>1. /\ encrypt[d].pending => <<d, "pending">> \in flushed
          /\ encrypt[d].pc # "idle" => <<d, "running">> \in flushed
          /\ <<c, "pending">> \in flushed
      BY <1>2, <2>2 DEF FlushInv, Generations
    <3>2. flushed' = (flushed \ {<<c, "pending">>}) \cup {<<c, "running">>}
      BY <3>1 DEF encrypt_start
    <3> QED BY <1>2, <3>1, <3>2
  <2> QED BY <1>1, <2>1, <2>2 DEF FlushInv, Generations, InRcu, TwoFlushesSuffice
<1> QED BY <1>3, <1>4, <1>5, <1>6 DEF FlushInv

(* A worker takes a list off the ring, or ends because there is none.        *)
LEMMA EncryptWorkerFlush ==
  ASSUME NonceInv, FlushInv, NEW c \in EncryptCpus, wg_packet_encrypt_worker(c)
  PROVE  FlushInv'
<1>1. /\ UNCHANGED <<list, sender, tx_queue, txpeeked, txstate, transmit, is_dead, removal>>
      /\ encrypt[c].pc = "consume" /\ crypt_ring \in Seq(Packets)
      /\ encrypt \in [EncryptCpus -> WorkTypes]
  BY DEF wg_packet_encrypt_worker, FlushInv, FlushTypeOK
<1>2. removal \notin {"flush2", "removed"}
  BY <1>1 DEF FlushInv, Generations
<1>3. \A t \in Senders : First(t)' = First(t)
  BY <1>1 DEF First
<1>4. CASE crypt_ring = <<>>
  <2>1. /\ encrypt' = [encrypt EXCEPT ![c].pc = "idle"] /\ crypt_ring' = crypt_ring
        /\ flushed' = flushed \ {<<c, "running">>}
    BY <1>4 DEF wg_packet_encrypt_worker
  <2>2. /\ encrypt' \in [EncryptCpus -> WorkTypes]
        /\ encrypt'[c].pc = "idle" /\ encrypt'[c].pending = encrypt[c].pending
        /\ \A d \in EncryptCpus : d # c => encrypt'[d] = encrypt[d]
    BY <1>1, <2>1 DEF WorkTypes
  <2>3. FlushTypeOK'
    BY <1>1, <2>1, <2>2 DEF FlushInv, FlushTypeOK
  <2>4. NotHandedOn' /\ ListsOwned' /\ (HeadDone' <=> HeadDone) /\ (Unfinished' <=> Unfinished)
    <3>1. \A d \in EncryptCpus : \A f : InHand(d, f)' <=> InHand(d, f)
      BY <1>1, <2>2 DEF InHand
    <3> QED BY <1>1, <1>3, <2>1, <3>1, SameLists
  <2>5. Served'
    BY <1>1, <1>4, <2>1, <2>2, <2>4 DEF FlushInv, Served
  <2>6. Generations'
    <3>1. ASSUME removal = "flush1", NEW d \in EncryptCpus
          PROVE  /\ encrypt'[d].pending => <<d, "pending">> \in flushed'
                 /\ encrypt'[d].pc # "idle" => <<d, "running">> \in flushed'
      <4>1. /\ encrypt[d].pending => <<d, "pending">> \in flushed
            /\ encrypt[d].pc # "idle" => <<d, "running">> \in flushed
        BY <3>1 DEF FlushInv, Generations
      <4> QED BY <2>1, <2>2, <4>1
    <3> QED BY <1>1, <1>2, <3>1 DEF FlushInv, Generations, InRcu, TwoFlushesSuffice
  <2> QED BY <2>3, <2>4, <2>5, <2>6 DEF FlushInv
<1>5. CASE crypt_ring # <<>>
  <2> DEFINE h == Head(crypt_ring)
  <2>1. /\ encrypt' = [encrypt EXCEPT ![c].pc = "state", ![c].first = h]
        /\ crypt_ring' = Tail(crypt_ring) /\ flushed' = flushed
    BY <1>5 DEF wg_packet_encrypt_worker
  <2>2. /\ h \in Packets /\ h = crypt_ring[1] /\ Len(crypt_ring) \in Nat /\ Len(crypt_ring) >= 1
        /\ crypt_ring' \in Seq(Packets) /\ Len(crypt_ring') = Len(crypt_ring) - 1
        /\ \A i \in 1 .. Len(crypt_ring) - 1 : crypt_ring'[i] = crypt_ring[i + 1]
    BY <1>1, <1>5, <2>1
  <2> HIDE DEF h
  <2>3. /\ encrypt' \in [EncryptCpus -> WorkTypes]
        /\ encrypt'[c].pc = "state" /\ encrypt'[c].first = h
        /\ encrypt'[c].pending = encrypt[c].pending
        /\ \A d \in EncryptCpus : d # c => encrypt'[d] = encrypt[d]
    <3>1. h \in 0 .. MaxPackets
      BY <2>2 DEF Packets, NonceInv, Limits
    <3> QED BY <1>1, <2>1, <3>1 DEF WorkTypes
  <2>4. \A g : In(g, crypt_ring) <=> In(g, crypt_ring') \/ g = h
    <3>1. ASSUME NEW g, In(g, crypt_ring') PROVE In(g, crypt_ring)
      BY <2>2, <3>1 DEF In
    <3>2. In(h, crypt_ring)
      BY <2>2 DEF In
    <3>3. ASSUME NEW g, In(g, crypt_ring), g # h PROVE In(g, crypt_ring')
      <4>1. PICK i \in 1 .. Len(crypt_ring) : crypt_ring[i] = g
        BY <3>3 DEF In
      <4>2. i - 1 \in 1 .. Len(crypt_ring') /\ crypt_ring'[i - 1] = g
        BY <2>2, <3>3, <4>1
      <4> QED BY <4>2 DEF In
    <3> QED BY <3>1, <3>2, <3>3
  <2>5. \A g : /\ \A t \in Senders : Mine(t, g)' <=> Mine(t, g)
               /\ \A d \in EncryptCpus : InHand(d, g)' <=> InHand(d, g) \/ (d = c /\ g = h)
               /\ Waits(g)' <=> Waits(g)
    BY <1>1, <1>3, <2>3 DEF Mine, InHand, Waits
  <2>6. \A g : Owned(g)' <=> Owned(g)
    BY <2>4, <2>5 DEF Owned, In
  <2>7. FlushTypeOK'
    BY <1>1, <2>2, <2>3 DEF FlushInv, FlushTypeOK
  <2>8. NotHandedOn'
    <3>1. ASSUME NEW t \in Senders, sender[t].pc \in ListPCs
          PROVE  /\ txstate[First(t)] = "UNCRYPTED" /\ ~ In(First(t), crypt_ring') /\ First(t) # h
                 /\ \A d \in EncryptCpus : ~ InHand(d, First(t))
                 /\ \A u \in Senders : Mine(u, First(t)) => u = t
      <4>1. ~ In(First(t), crypt_ring)
        BY <3>1 DEF FlushInv, NotHandedOn
      <4>2. ~ In(First(t), crypt_ring') /\ First(t) # h
        BY <2>4, <4>1
      <4> QED BY <3>1, <4>2 DEF FlushInv, NotHandedOn
    <3>2. ASSUME NEW t \in Senders, sender'[t].pc \in ListPCs
          PROVE  /\ txstate'[First(t)'] = "UNCRYPTED" /\ ~ In(First(t)', crypt_ring')
                 /\ \A d \in EncryptCpus : ~ InHand(d, First(t))'
                 /\ \A u \in Senders : Mine(u, First(t))' => u = t
      <4>1. sender[t].pc \in ListPCs /\ First(t)' = First(t)
        BY <1>1, <1>3, <3>2
      <4>2. ~ In(First(t)', crypt_ring') /\ txstate'[First(t)'] = "UNCRYPTED"
        BY <1>1, <3>1, <4>1
      <4>3. \A d \in EncryptCpus : ~ InHand(d, First(t))'
        BY <1>1, <1>3, <2>3, <3>1, <4>1 DEF InHand
      <4>4. \A u \in Senders : Mine(u, First(t))' => u = t
        BY <1>1, <1>3, <3>1, <4>1 DEF Mine
      <4> QED BY <4>2, <4>3, <4>4
    <3> QED BY <3>2 DEF NotHandedOn, In
  <2>9. ListsOwned'
    <3>1. \A g \in Packets : Owned(g)' => In(g, list[g])'
      BY <1>1, <2>6 DEF FlushInv, ListsOwned, In
    <3>2. \A g \in Packets : Waits(g)' /\ txstate'[g] = "UNCRYPTED" => Owned(g)'
      BY <1>1, <2>5, <2>6 DEF FlushInv, ListsOwned
    <3> QED BY <1>1, <1>3, <3>1, <3>2 DEF FlushInv, ListsOwned
  <2>10. Served'
    <3>1. HeadDone' <=> HeadDone
      BY <1>1 DEF HeadDone, Reachable
    <3>2. \A d \in EncryptCpus : encrypt[d].pc = "transmit" => encrypt'[d].pc = "transmit"
      BY <1>1, <2>3
    <3>3. Unfinished' <=> Unfinished
      BY <2>6 DEF Unfinished
    <3> QED BY <1>1, <2>3, <3>1, <3>2, <3>3 DEF FlushInv, Served
  <2>11. Generations'
    <3>1. \A d \in EncryptCpus : /\ encrypt'[d].pending = encrypt[d].pending
                                 /\ encrypt'[d].pc # "idle" => encrypt[d].pc # "idle"
      BY <1>1, <2>3
    <3> QED BY <1>1, <1>2, <2>1, <3>1 DEF FlushInv, Generations, InRcu, TwoFlushesSuffice
  <2> QED BY <2>7, <2>8, <2>9, <2>10, <2>11 DEF FlushInv
<1> QED BY <1>4, <1>5

(* The state of a list is set, ...                                           *)
LEMMA SetStateFlush ==
  ASSUME NonceInv, FlushInv, NEW c \in EncryptCpus, set_state(c)
  PROVE  FlushInv'
<1> DEFINE f == encrypt[c].first
<1>1. /\ UNCHANGED <<list, sender, tx_queue, txpeeked, crypt_ring, transmit, is_dead, removal, flushed>>
      /\ encrypt[c].pc = "state" /\ encrypt' = [encrypt EXCEPT ![c].pc = "transmit"]
      /\ encrypt \in [EncryptCpus -> WorkTypes] /\ txstate \in [Packets -> States]
  BY DEF set_state, teardown, FlushInv, FlushTypeOK
<1>2. PICK st \in {"CRYPTED", "DEAD"} : txstate' = [txstate EXCEPT ![f] = st]
  BY DEF set_state
<1>3. /\ txstate' \in [Packets -> States]
      /\ \A g \in Packets : txstate'[g] = IF g = f THEN st ELSE txstate[g]
  BY <1>1, <1>2 DEF States
<1>4. /\ encrypt' \in [EncryptCpus -> WorkTypes]
      /\ encrypt'[c].pc = "transmit" /\ encrypt'[c].pending = encrypt[c].pending
      /\ \A d \in EncryptCpus : d # c => encrypt'[d] = encrypt[d]
  BY <1>1 DEF WorkTypes
<1>5. removal \notin {"flush2", "removed"}
  BY <1>1 DEF FlushInv, Generations
<1>6. \A t \in Senders : First(t)' = First(t)
  BY <1>1 DEF First
<1> HIDE DEF f
<1>7. \A g : /\ \A t \in Senders : Mine(t, g)' <=> Mine(t, g)
             /\ In(g, crypt_ring)' <=> In(g, crypt_ring)
             /\ \A d \in EncryptCpus : InHand(d, g)' <=> InHand(d, g) /\ d # c
             /\ InHand(c, g) <=> g = f
             /\ Waits(g)' <=> Waits(g)
  BY <1>1, <1>4, <1>6 DEF Mine, In, InHand, Waits, f
<1>8. \A g : (Owned(g)' => Owned(g)) /\ (Owned(g) /\ g # f => Owned(g)')
  BY <1>7 DEF Owned
<1>9. FlushTypeOK'
  BY <1>1, <1>3, <1>4 DEF FlushInv, FlushTypeOK
<1>10. NotHandedOn'
  <2> SUFFICES ASSUME NEW t \in Senders, sender[t].pc \in ListPCs
               PROVE  /\ txstate'[First(t)] = "UNCRYPTED" /\ ~ In(First(t), crypt_ring)
                      /\ \A d \in EncryptCpus : ~ InHand(d, First(t))
                      /\ \A u \in Senders : Mine(u, First(t)) => u = t
    BY <1>1, <1>6, <1>7 DEF NotHandedOn
  <2>1. First(t) \in Packets
    BY FirstOf
  <2>2. First(t) # f
    BY <1>7 DEF FlushInv, NotHandedOn
  <2> QED BY <1>3, <2>1, <2>2 DEF FlushInv, NotHandedOn
<1>11. ListsOwned'
  <2>1. \A g \in Packets : Owned(g)' => In(g, list[g])'
    BY <1>1, <1>8 DEF FlushInv, ListsOwned, In
  <2>2. \A g \in Packets : Waits(g)' /\ txstate'[g] = "UNCRYPTED" => Owned(g)'
    BY <1>3, <1>7, <1>8 DEF FlushInv, ListsOwned
  <2> QED BY <1>1, <1>6, <2>1, <2>2 DEF FlushInv, ListsOwned
<1>12. Served'
  BY <1>1, <1>4 DEF FlushInv, Served
<1>13. Generations'
  <2>1. \A d \in EncryptCpus : /\ encrypt'[d].pending = encrypt[d].pending
                               /\ encrypt'[d].pc # "idle" => encrypt[d].pc # "idle"
    BY <1>1, <1>4
  <2> QED BY <1>1, <1>5, <2>1 DEF FlushInv, Generations, InRcu, TwoFlushesSuffice
<1> QED BY <1>9, <1>10, <1>11, <1>12, <1>13 DEF FlushInv

(* ... and the transmit work queued.                                         *)
LEMMA WakeFlush ==
  ASSUME NonceInv, FlushInv, NEW c \in EncryptCpus, wake_transmit(c)
  PROVE  FlushInv'
<1>1. /\ UNCHANGED <<list, sender, tx_queue, txpeeked, crypt_ring, txstate, is_dead, removal, flushed>>
      /\ encrypt[c].pc = "transmit" /\ transmit' = [transmit EXCEPT !.pending = TRUE]
      /\ encrypt' = [encrypt EXCEPT ![c].pc = "put", ![c].first = 0]
  BY DEF wake_transmit, queues, teardown
<1>2. 0 \in 0 .. MaxPackets
  BY DEF NonceInv, Limits
<1>3. /\ encrypt' \in [EncryptCpus -> WorkTypes]
      /\ encrypt'[c].pc = "put" /\ encrypt'[c].pending = encrypt[c].pending
      /\ \A d \in EncryptCpus : d # c => encrypt'[d] = encrypt[d]
  BY <1>1, <1>2 DEF FlushInv, FlushTypeOK, WorkTypes
<1>4. transmit' \in WorkTypes /\ transmit'.pending
  BY <1>1 DEF FlushInv, FlushTypeOK, WorkTypes
<1>5. FlushTypeOK'
  BY <1>1, <1>3, <1>4 DEF FlushInv, FlushTypeOK
<1>6. NotHandedOn' /\ ListsOwned' /\ (HeadDone' <=> HeadDone) /\ (Unfinished' <=> Unfinished)
  <2>1. \A d \in EncryptCpus : \A f : InHand(d, f)' <=> InHand(d, f)
    BY <1>1, <1>3 DEF InHand
  <2>2. \A t \in Senders : First(t)' = First(t)
    BY <1>1 DEF First
  <2> QED BY <1>1, <2>1, <2>2, SameLists
<1>7. Served'
  BY <1>1, <1>3, <1>4 DEF FlushInv, Served
<1>8. Generations'
  <2>1. \A d \in EncryptCpus : /\ encrypt'[d].pending = encrypt[d].pending
                               /\ encrypt'[d].pc # "idle" => encrypt[d].pc # "idle"
    BY <1>1, <1>3
  <2>2. removal \notin {"flush2", "removed"}
    BY <1>1 DEF FlushInv, Generations
  <2> QED BY <1>1, <2>1, <2>2 DEF FlushInv, Generations, InRcu, TwoFlushesSuffice
<1> QED BY <1>5, <1>6, <1>7, <1>8 DEF FlushInv

(* The worker gives its reference back.                                      *)
LEMMA PutFlush ==
  ASSUME NonceInv, FlushInv, NEW c \in EncryptCpus, encrypt_put(c)
  PROVE  FlushInv'
<1>1. /\ UNCHANGED <<list, sender, tx_queue, txpeeked, crypt_ring, txstate, transmit, is_dead, removal, flushed>>
      /\ encrypt[c].pc = "put" /\ encrypt' = [encrypt EXCEPT ![c].pc = "consume"]
  BY DEF encrypt_put, queues, teardown
<1>2. /\ encrypt' \in [EncryptCpus -> WorkTypes]
      /\ encrypt'[c].pc = "consume" /\ encrypt'[c].pending = encrypt[c].pending
      /\ \A d \in EncryptCpus : d # c => encrypt'[d] = encrypt[d]
  BY <1>1 DEF FlushInv, FlushTypeOK, WorkTypes
<1>3. FlushTypeOK'
  BY <1>1, <1>2 DEF FlushInv, FlushTypeOK
<1>4. NotHandedOn' /\ ListsOwned' /\ (HeadDone' <=> HeadDone) /\ (Unfinished' <=> Unfinished)
  <2>1. \A d \in EncryptCpus : \A f : InHand(d, f)' <=> InHand(d, f)
    BY <1>1, <1>2 DEF InHand
  <2>2. \A t \in Senders : First(t)' = First(t)
    BY <1>1 DEF First
  <2> QED BY <1>1, <2>1, <2>2, SameLists
<1>5. Served'
  <2>1. \A d \in EncryptCpus : encrypt[d].pc = "transmit" => encrypt'[d].pc = "transmit"
    BY <1>1, <1>2
  <2> QED BY <1>1, <1>2, <1>4, <2>1 DEF FlushInv, Served
<1>6. Generations'
  <2>1. \A d \in EncryptCpus : /\ encrypt'[d].pending = encrypt[d].pending
                               /\ encrypt'[d].pc # "idle" => encrypt[d].pc # "idle"
    BY <1>1, <1>2
  <2>2. removal \notin {"flush2", "removed"}
    BY <1>1 DEF FlushInv, Generations
  <2> QED BY <1>1, <2>1, <2>2 DEF FlushInv, Generations, InRcu, TwoFlushesSuffice
<1> QED BY <1>3, <1>4, <1>5, <1>6 DEF FlushInv

-------------------------------------------------------------------------------
(* The steps of the transmit work.                                           *)

(* It begins, gives up, and returns.                                         *)
LEMMA TransmitRunFlush ==
  ASSUME NonceInv, FlushInv, Names, transmit_start \/ transmit_stop \/ transmit_return
  PROVE  FlushInv'
<1>1. UNCHANGED <<list, sender, tx_queue, txpeeked, crypt_ring, txstate, encrypt, is_dead, removal>>
  BY DEF transmit_start, transmit_stop, transmit_return, queues, teardown
<1>2. transmit' \in WorkTypes
  <2>1. transmit \in WorkTypes /\ 0 \in 0 .. MaxPackets
    BY DEF FlushInv, FlushTypeOK, NonceInv, Limits
  <2> QED BY <2>1 DEF transmit_start, transmit_stop, transmit_return, WorkTypes, Quiet
<1>3. FlushTypeOK'
  BY <1>1, <1>2 DEF FlushInv, FlushTypeOK
<1>4. NotHandedOn' /\ ListsOwned' /\ (HeadDone' <=> HeadDone) /\ (Unfinished' <=> Unfinished)
  <2>1. \A d \in EncryptCpus : \A f : InHand(d, f)' <=> InHand(d, f)
    BY <1>1 DEF InHand
  <2>2. \A t \in Senders : First(t)' = First(t)
    BY <1>1 DEF First
  <2> QED BY <1>1, <2>1, <2>2, SameLists
<1>5. transmit.pending \in BOOLEAN /\ transmit \in WorkTypes
  BY DEF FlushInv, FlushTypeOK, WorkTypes
<1>6. CASE transmit_start
  <2>1. /\ transmit'.pc = "peek" /\ ~ transmit'.pending /\ transmit.pending
        /\ flushed' = IF <<"tx", "pending">> \in flushed
                      THEN (flushed \ {<<"tx", "pending">>}) \cup {<<"tx", "running">>} ELSE flushed
    BY <1>6 DEF transmit_start, Quiet
  <2>2. Served'
    BY <1>1, <2>1 DEF FlushInv, Served
  <2>3. \A d \in EncryptCpus : /\ <<d, "pending">> \in flushed => <<d, "pending">> \in flushed'
                               /\ <<d, "running">> \in flushed => <<d, "running">> \in flushed'
    BY <2>1 DEF Names
  <2>4. removal = "flush2" => <<"tx", "running">> \in flushed'
    BY <2>1 DEF FlushInv, Generations
  <2>5. Generations'
    BY <1>1, <2>1, <2>3, <2>4 DEF FlushInv, Generations, InRcu, TwoFlushesSuffice
  <2> QED BY <1>3, <1>4, <2>2, <2>5 DEF FlushInv
<1>7. CASE transmit_stop
  <2>1. /\ transmit'.pc = "return" /\ transmit'.pending = transmit.pending
        /\ transmit.pc = "peek" /\ flushed' = flushed /\ (~ HeadDone \/ GapBehind)
    BY <1>5, <1>7 DEF transmit_stop, teardown, WorkTypes, HeadDone
  <2>2. GapBehind => Unfinished
    <3> SUFFICES ASSUME GapBehind PROVE Unfinished
      OBVIOUS
    <3>1. tx_queue \in Seq(Slots)
      BY DEF NonceInv, TxTypeOK
    <3>2. 2 \in 1 .. Len(tx_queue) /\ ~ tx_queue[2].linked
      BY <3>1 DEF GapBehind
    <3>3. PICK t \in Senders : sender[t].pc = "link" /\ First(t) = tx_queue[2].first
      BY <3>2 DEF FlushInv, ListsOwned
    <3>4. Mine(t, First(t)) /\ First(t) \in Packets
      BY <3>3, FirstOf DEF Mine, ListPCs
    <3> QED BY <3>4 DEF Unfinished, Owned
  <2>3. Served'
    BY <1>1, <1>4, <2>1, <2>2 DEF FlushInv, Served
  <2>4. Generations'
    BY <1>1, <2>1 DEF FlushInv, Generations, InRcu, TwoFlushesSuffice
  <2> QED BY <1>3, <1>4, <2>4, <2>3 DEF FlushInv
<1>8. CASE transmit_return
  <2>1. /\ transmit'.pc = "idle" /\ transmit'.pending = transmit.pending
        /\ transmit.pc = "return" /\ flushed' = flushed \ {<<"tx", "running">>}
    BY <1>5, <1>8 DEF transmit_return, WorkTypes
  <2>2. Served'
    BY <1>1, <1>4, <2>1 DEF FlushInv, Served
  <2>3. \A d \in EncryptCpus : /\ <<d, "pending">> \in flushed => <<d, "pending">> \in flushed'
                               /\ <<d, "running">> \in flushed => <<d, "running">> \in flushed'
    BY <2>1 DEF Names
  <2>4. <<"tx", "pending">> \in flushed => <<"tx", "pending">> \in flushed'
    BY <2>1
  <2>5. Generations'
    BY <1>1, <2>1, <2>3, <2>4 DEF FlushInv, Generations, InRcu, TwoFlushesSuffice
  <2> QED BY <1>3, <1>4, <2>2, <2>5 DEF FlushInv
<1> QED BY <1>6, <1>7, <1>8

(* It takes the oldest list.                                                 *)
LEMMA PeekFlush ==
  ASSUME NonceInv, FlushInv, wg_prev_queue_peek
  PROVE  FlushInv'
<1>1. /\ UNCHANGED <<list, sender, crypt_ring, txstate, encrypt, transmit, is_dead, removal, flushed>>
      /\ transmit.pc = "peek" /\ txpeeked = 0 /\ tx_queue # <<>> /\ tx_queue \in Seq(Slots)
      /\ txpeeked' = Head(tx_queue).first /\ tx_queue' = Tail(tx_queue)
  BY DEF wg_prev_queue_peek, Reachable, workers, teardown, NonceInv, TxTypeOK
<1>2. /\ Head(tx_queue) = tx_queue[1] /\ Len(tx_queue) \in Nat /\ Len(tx_queue) >= 1
      /\ Len(tx_queue') = Len(tx_queue) - 1
      /\ \A i \in 1 .. Len(tx_queue) - 1 : tx_queue'[i] = tx_queue[i + 1]
  BY <1>1
<1>3. \A t \in Senders : First(t)' = First(t)
  BY <1>1 DEF First
<1>4. \A g : /\ \A t \in Senders : Mine(t, g)' <=> Mine(t, g)
             /\ In(g, crypt_ring)' <=> In(g, crypt_ring)
             /\ \A d \in EncryptCpus : InHand(d, g)' <=> InHand(d, g)
  BY <1>1, <1>3 DEF Mine, In, InHand
<1>5. \A g : Owned(g)' <=> Owned(g)
  BY <1>4 DEF Owned
<1>6. ASSUME NEW g \in Packets, Waits(g)' PROVE Waits(g)
  <2>1. CASE txpeeked' = g
    <3>1. 1 \in 1 .. Len(tx_queue) /\ tx_queue[1].first = g
      BY <1>1, <1>2, <2>1
    <3> QED BY <3>1 DEF Waits
  <2>2. CASE \E i \in 1 .. Len(tx_queue') : tx_queue'[i].first = g
    <3>1. PICK i \in 1 .. Len(tx_queue') : tx_queue'[i].first = g
      BY <2>2
    <3>2. i + 1 \in 1 .. Len(tx_queue) /\ tx_queue[i + 1].first = g
      BY <1>2, <3>1
    <3> QED BY <3>2 DEF Waits
  <2> QED BY <1>6, <2>1, <2>2 DEF Waits
<1>7. FlushTypeOK'
  BY <1>1 DEF FlushInv, FlushTypeOK
<1>8. NotHandedOn'
  <2> SUFFICES ASSUME NEW t \in Senders, sender'[t].pc \in ListPCs
               PROVE  /\ txstate'[First(t)'] = "UNCRYPTED" /\ ~ In(First(t), crypt_ring)'
                      /\ \A d \in EncryptCpus : ~ InHand(d, First(t))'
                      /\ \A u \in Senders : Mine(u, First(t))' => u = t
    BY DEF NotHandedOn
  <2>1. sender[t].pc \in ListPCs /\ First(t)' = First(t)
    BY <1>1, <1>3
  <2>2. /\ txstate[First(t)] = "UNCRYPTED" /\ ~ In(First(t), crypt_ring)
        /\ \A d \in EncryptCpus : ~ InHand(d, First(t))
        /\ \A u \in Senders : Mine(u, First(t)) => u = t
    BY <2>1 DEF FlushInv, NotHandedOn
  <2> QED BY <1>1, <1>3, <2>1, <2>2 DEF In, InHand, Mine
<1>9. ListsOwned'
  <2>1. \A g \in Packets : Owned(g)' => In(g, list[g])'
    BY <1>1, <1>5 DEF FlushInv, ListsOwned, In
  <2>2. \A g \in Packets : Waits(g)' /\ txstate'[g] = "UNCRYPTED" => Owned(g)'
    BY <1>1, <1>5, <1>6 DEF FlushInv, ListsOwned
  <2>3. ASSUME NEW i \in 1 .. Len(tx_queue'), ~ tx_queue'[i].linked
        PROVE  \E t \in Senders : sender'[t].pc = "link" /\ First(t)' = tx_queue'[i].first
    <3>1. i + 1 \in 1 .. Len(tx_queue) /\ tx_queue'[i] = tx_queue[i + 1]
      BY <1>2
    <3> QED BY <1>1, <1>3, <2>3, <3>1 DEF FlushInv, ListsOwned
  <2> QED BY <2>1, <2>2, <2>3 DEF ListsOwned
<1>10. Served'
  BY <1>1 DEF FlushInv, Served
<1>11. Generations'
  BY <1>1 DEF FlushInv, Generations, InRcu, TwoFlushesSuffice
<1> QED BY <1>7, <1>8, <1>9, <1>10, <1>11 DEF FlushInv

(* It sends or frees the list it has.                                        *)
LEMMA SendFlush ==
  ASSUME NonceInv, FlushInv, wg_packet_tx_worker
  PROVE  FlushInv'
<1>1. /\ UNCHANGED <<list, sender, tx_queue, crypt_ring, encrypt, transmit, is_dead, removal, flushed>>
      /\ transmit.pc = "peek" /\ txpeeked # 0 /\ txpeeked' = 0
      /\ txstate[txpeeked] # "UNCRYPTED" /\ txstate' = [txstate EXCEPT ![txpeeked] = "gone"]
  BY DEF wg_packet_tx_worker, teardown
<1>2. txpeeked \in Packets
  BY <1>1 DEF NonceInv, TxTypeOK, Packets, Limits
<1>3. /\ txstate' \in [Packets -> States]
      /\ \A g \in Packets : txstate'[g] = IF g = txpeeked THEN "gone" ELSE txstate[g]
  BY <1>1, <1>2 DEF FlushInv, FlushTypeOK, States
<1>4. \A t \in Senders : First(t)' = First(t)
  BY <1>1 DEF First
<1>5. \A g : /\ \A t \in Senders : Mine(t, g)' <=> Mine(t, g)
             /\ In(g, crypt_ring)' <=> In(g, crypt_ring)
             /\ \A d \in EncryptCpus : InHand(d, g)' <=> InHand(d, g)
  BY <1>1, <1>4 DEF Mine, In, InHand
<1>6. \A g : Owned(g)' <=> Owned(g)
  BY <1>5 DEF Owned
<1>7. \A g \in Packets : Waits(g)' => Waits(g)
  BY <1>1 DEF Waits, Packets
<1>8. FlushTypeOK'
  BY <1>1, <1>3 DEF FlushInv, FlushTypeOK
<1>9. NotHandedOn'
  <2> SUFFICES ASSUME NEW t \in Senders, sender[t].pc \in ListPCs
               PROVE  /\ txstate'[First(t)] = "UNCRYPTED" /\ ~ In(First(t), crypt_ring)
                      /\ \A d \in EncryptCpus : ~ InHand(d, First(t))
                      /\ \A u \in Senders : Mine(u, First(t)) => u = t
    BY <1>1, <1>4, <1>5 DEF NotHandedOn
  <2>1. First(t) \in Packets
    BY FirstOf
  <2>2. First(t) # txpeeked
    BY <1>1 DEF FlushInv, NotHandedOn
  <2> QED BY <1>3, <2>1, <2>2 DEF FlushInv, NotHandedOn
<1>10. ListsOwned'
  <2>1. \A g \in Packets : Owned(g)' => In(g, list[g])'
    BY <1>1, <1>6 DEF FlushInv, ListsOwned, In
  <2>2. \A g \in Packets : Waits(g)' /\ txstate'[g] = "UNCRYPTED" => Owned(g)'
    BY <1>3, <1>6, <1>7 DEF FlushInv, ListsOwned
  <2> QED BY <1>1, <1>4, <2>1, <2>2 DEF FlushInv, ListsOwned
<1>11. Served'
  BY <1>1 DEF FlushInv, Served
<1>12. Generations'
  BY <1>1 DEF FlushInv, Generations, InRcu, TwoFlushesSuffice
<1> QED BY <1>8, <1>9, <1>10, <1>11, <1>12 DEF FlushInv

-------------------------------------------------------------------------------
(* The steps of the removal.                                                 *)
LEMMA RemovalFlush ==
  ASSUME NonceInv, FlushInv, peer_make_dead \/ RemovalRuns \/ UNCHANGED tx_vars
  PROVE  FlushInv'
<1>1. UNCHANGED <<list, sender, tx_queue, txpeeked, crypt_ring, txstate, encrypt, transmit>>
  BY DEF peer_make_dead, RemovalRuns, keypairs_clear, flush_again, peer_remove_after_dead, queues,
         workers, tx_vars
<1>2. FlushTypeOK'
  BY <1>1 DEF FlushInv, FlushTypeOK
<1>3. NotHandedOn' /\ ListsOwned' /\ (HeadDone' <=> HeadDone) /\ (Unfinished' <=> Unfinished)
  <2>1. \A d \in EncryptCpus : \A f : InHand(d, f)' <=> InHand(d, f)
    BY <1>1 DEF InHand
  <2>2. \A t \in Senders : First(t)' = First(t)
    BY <1>1 DEF First
  <2> QED BY <1>1, <2>1, <2>2, SameLists
<1>4. Served'
  BY <1>1, <1>3 DEF FlushInv, Served
<1>5. \A t \in Senders : InRcu(t)' <=> InRcu(t)
  BY <1>1 DEF InRcu
<1>6. CASE peer_make_dead
  <2>1. removal' = "grace" /\ is_dead'
    BY <1>6 DEF peer_make_dead
  <2>2. Generations'
    BY <2>1 DEF Generations, TwoFlushesSuffice
  <2> QED BY <1>2, <1>3, <1>4, <2>2 DEF FlushInv
<1>7. CASE keypairs_clear
  <2>1. /\ removal' = "flush1" /\ removal = "grace" /\ is_dead' = is_dead
        /\ flushed' = Queued /\ \A t \in Senders : ~ InRcu(t)
    BY <1>7 DEF keypairs_clear
  <2>2. \A c \in EncryptCpus : /\ encrypt[c].pending => <<c, "pending">> \in Queued
                               /\ encrypt[c].pc # "idle" => <<c, "running">> \in Queued
    BY DEF Queued
  <2>3. Generations'
    BY <1>1, <1>5, <2>1, <2>2 DEF FlushInv, Generations, TwoFlushesSuffice
  <2> QED BY <1>2, <1>3, <1>4, <2>3 DEF FlushInv
<1>8. CASE flush_again
  <2>1. /\ removal = "flush1" /\ flushed = {} /\ removal' = "flush2" /\ is_dead' = is_dead
        /\ flushed' = Queued
    BY <1>8 DEF flush_again
  <2>2. \A c \in EncryptCpus : ~ encrypt[c].pending /\ encrypt[c].pc = "idle"
    BY <2>1 DEF FlushInv, Generations
  <2>3. is_dead /\ \A t \in Senders : ~ InRcu(t)
    BY <2>1 DEF FlushInv, Generations
  <2>4. crypt_ring = <<>>
    BY <2>2, <2>3 DEF FlushInv, Served, InRcu
  <2>5. /\ transmit.pending => <<"tx", "pending">> \in Queued
        /\ transmit.pc # "idle" => <<"tx", "running">> \in Queued
    BY DEF Queued
  <2>6. Generations'
    BY <1>1, <1>5, <2>1, <2>2, <2>3, <2>4, <2>5 DEF Generations, TwoFlushesSuffice
  <2> QED BY <1>2, <1>3, <1>4, <2>6 DEF FlushInv
<1>9. CASE peer_remove_after_dead
  <2>1. removal = "flush2" /\ flushed = {} /\ removal' = "removed" /\ is_dead' = is_dead
    BY <1>9 DEF peer_remove_after_dead
  <2>2. /\ crypt_ring = <<>> /\ \A c \in EncryptCpus : ~ encrypt[c].pending /\ encrypt[c].pc = "idle"
        /\ ~ transmit.pending /\ transmit.pc = "idle"
        /\ is_dead /\ \A t \in Senders : ~ InRcu(t)
    BY <2>1 DEF FlushInv, Generations
  <2>3. \A f \in Packets : ~ Owned(f)
    <3>1. \A f : ~ In(f, crypt_ring)
      BY <2>2 DEF In
    <3> QED BY <2>2, <3>1 DEF Owned, Mine, InHand, InRcu, ListPCs
  <2>4. ~ HeadDone
    BY <2>2, <2>3 DEF FlushInv, Served, InRcu, Unfinished
  <2>5. txpeeked = 0
    <3> SUFFICES ASSUME txpeeked # 0 PROVE FALSE
      OBVIOUS
    <3>1. txpeeked \in Packets
      BY DEF NonceInv, TxTypeOK, Packets, Limits
    <3> QED BY <2>4, <2>3, <3>1 DEF HeadDone, FlushInv, ListsOwned, Waits
  <2>6. tx_queue = <<>>
    <3> SUFFICES ASSUME tx_queue # <<>> PROVE FALSE
      OBVIOUS
    <3>1. tx_queue \in Seq(Slots)
      BY DEF NonceInv, TxTypeOK
    <3>2. Head(tx_queue) = tx_queue[1] /\ 1 \in 1 .. Len(tx_queue) /\ tx_queue[1] \in Slots
      BY <3>1
    <3>3. tx_queue[1].linked
      BY <2>2, <3>2 DEF FlushInv, ListsOwned, InRcu
    <3>4. tx_queue[1].first \in Packets /\ Waits(tx_queue[1].first)
      BY <3>2 DEF Slots, Waits
    <3> QED BY <2>4, <2>3, <2>5, <3>2, <3>3, <3>4 DEF HeadDone, Reachable, FlushInv, ListsOwned
  <2>7. Generations'
    BY <1>1, <1>5, <2>1, <2>2, <2>5, <2>6 DEF Generations, TwoFlushesSuffice
  <2> QED BY <1>2, <1>3, <1>4, <2>7 DEF FlushInv
<1>10. CASE UNCHANGED tx_vars
  <2>1. Generations'
    BY <1>10 DEF FlushInv, Generations, InRcu, TwoFlushesSuffice, tx_vars
  <2> QED BY <1>2, <1>3, <1>4, <2>1 DEF FlushInv
<1> QED BY <1>6, <1>7, <1>8, <1>9, <1>10 DEF RemovalRuns

-------------------------------------------------------------------------------
(* It holds at the start: there is no list.                                  *)
LEMMA FlushInit ==
  ASSUME Limits, TxInit
  PROVE  FlushInv
<1>1. /\ \A s \in Senders : sender[s].pc = "idle"
      /\ \A c \in EncryptCpus : encrypt[c].pc = "idle"
      /\ crypt_ring = <<>> /\ tx_queue = <<>> /\ txpeeked = 0 /\ removal = "no"
  BY DEF TxInit, Idle, Quiet
<1>2. FlushTypeOK
  <2>1. 0 \in 0 .. MaxPackets /\ <<>> \in Seq(Packets)
    BY DEF Limits
  <2>2. Quiet \in WorkTypes
    BY <2>1 DEF Quiet, WorkTypes
  <2>3. txstate \in [Packets -> States]
    BY DEF TxInit, States
  <2> QED BY <2>1, <2>2, <2>3 DEF TxInit, FlushTypeOK
<1>3. NotHandedOn
  BY <1>1 DEF NotHandedOn, ListPCs
<1>4. \A f : ~ Owned(f)
  BY <1>1 DEF Owned, Mine, In, InHand, ListPCs
<1>5. \A f \in Packets : ~ Waits(f)
  BY <1>1 DEF Waits, Packets
<1>6. ListsOwned
  BY <1>1, <1>4, <1>5 DEF ListsOwned
<1>7. Served
  BY <1>1 DEF Served, HeadDone, Reachable
<1>8. Generations
  BY <1>1 DEF Generations, TwoFlushesSuffice
<1> QED BY <1>2, <1>3, <1>6, <1>7, <1>8 DEF FlushInv

(* Every step keeps it.                                                      *)
LEMMA FlushNext ==
  ASSUME Names, NonceInv, FlushInv, [TxNext]_tx_vars
  PROVE  FlushInv'
<1>1. NonceInv'
  BY NonceNext
<1>2. ASSUME NEW s \in Senders,
             wg_xmit(s) \/ wg_packet_send_keepalive(s) \/ NewKeypair(s) \/ SenderRuns(s)
      PROVE  FlushInv'
  BY <1>1, <1>2, ContextStep, EnqueueFlush, LinkFlush, ProduceFlush, KickFlush DEF SenderRuns
<1>3. ASSUME NEW c \in EncryptCpus, EncryptRuns(c)
      PROVE  FlushInv'
  BY <1>3, EncryptStartFlush, EncryptWorkerFlush, SetStateFlush, WakeFlush, PutFlush DEF EncryptRuns
<1>4. ASSUME TransmitRuns
      PROVE  FlushInv'
  BY <1>4, TransmitRunFlush, PeekFlush, SendFlush DEF TransmitRuns
<1> QED BY <1>2, <1>3, <1>4, RemovalFlush DEF TxNext

(* "Each reference's life is strictly bounded by two generations": for any   *)
(* number of contexts, workers, packets and keys, when the second flush of   *)
(* peer_remove_after_dead has returned there is nothing left in the encrypt  *)
(* ring or in tx_queue.                                                      *)
THEOREM TwoGenerationsSuffice == Limits /\ Names => (TxSpec => []TwoFlushesSuffice)
<1> SUFFICES ASSUME Limits, Names PROVE TxSpec => []TwoFlushesSuffice
  OBVIOUS
<1>1. TxInit => NonceInv /\ FlushInv
  BY NonceInit, FlushInit
<1>2. NonceInv /\ FlushInv /\ [TxNext]_tx_vars => (NonceInv /\ FlushInv)'
  BY NonceNext, FlushNext
<1>3. FlushInv => TwoFlushesSuffice
  BY DEF FlushInv, Generations
<1> QED BY <1>1, <1>2, <1>3, PTL DEF TxSpec

-------------------------------------------------------------------------------
(* The references.  Every reference is somebody's: a list in flight, a       *)
(* context at work, the current keypair, the peer's place in the device.     *)

InHands(f) == In(f, crypt_ring) \/ \E c \in EncryptCpus : InHand(c, f)

(* A list is in the ring once or with one worker, and not yet encrypted.     *)
HandsApart ==
    /\ NoRepeat(crypt_ring)
    /\ \A c \in EncryptCpus : encrypt[c].pc = "state" =>
          /\ encrypt[c].first \in Packets /\ ~ In(encrypt[c].first, crypt_ring)
          /\ \A d \in EncryptCpus : InHand(d, encrypt[c].first) => d = c
    /\ \A f \in Packets : InHands(f) => txstate[f] = "UNCRYPTED"

(* What is in flight was given a list, what waits is in flight.              *)
FlightListed ==
    /\ \A f \in InFlight : In(f, list[f])
    /\ \A f \in Packets : Waits(f) => f \in InFlight

(* The packets a context has numbered carry the key it holds.                *)
HandKeys ==
    /\ \A s \in Senders : sender[s].key <= Len(keys)
    /\ \A s \in Senders : \A i \in 1 .. Upto(s) : cb[sender[s].packets[i]].keypair = sender[s].key

\* Those that have a reference to the peer, and to a key.
KeyPCs == {"nonce", "create", "enqueue", "free"}
Busy == {s \in Senders : sender[s].pc # "idle"}
Twice == {s \in Senders : sender[s].pc \in {"enqueue", "free", "kicktx"}}
Lenders == {c \in EncryptCpus : encrypt[c].pc \in {"transmit", "put"}}
Carriers(k) == {f \in InFlight : cb[f].keypair = k}
Keepers(k) == {s \in Senders : sender[s].key = k /\ sender[s].pc \in KeyPCs}

PeerRefs == refs = (IF removal = "removed" THEN 0 ELSE 1)
                    + Cardinality(InFlight) + Cardinality(Busy) + Cardinality(Twice)
                    + Cardinality(Lenders)
KeyRefs == \A k \in 1 .. Len(keys) :
             keys[k].krefs = (IF k = current THEN 1 ELSE 0)
                              + Cardinality(Carriers(k)) + Cardinality(Keepers(k))

Balanced == HandKeys /\ refs \in Int /\ PeerRefs /\ KeyRefs

RefInv == HandsApart /\ FlightListed /\ Balanced

\* All that is known of the send path besides the references.
PathInv == NonceInv /\ FlushInv /\ OrderInv /\ IsFiniteSet(Senders) /\ IsFiniteSet(EncryptCpus)

-------------------------------------------------------------------------------
(* Counting.                                                                 *)

One(b) == IF b THEN 1 ELSE 0

(* Two sets that differ at most in one element.                              *)
LEMMA DifferInOne ==
  ASSUME NEW U, IsFiniteSet(U), NEW S \in SUBSET U, NEW T \in SUBSET U, NEW x,
         \A y \in U : y # x => (y \in S <=> y \in T)
  PROVE  /\ Cardinality(S) \in Nat /\ Cardinality(T) \in Nat
         /\ Cardinality(T) = Cardinality(S) + One(x \in T) - One(x \in S)
<1>1. IsFiniteSet(S) /\ IsFiniteSet(T)
  BY FS_Subset
<1>2. Cardinality(S) \in Nat /\ Cardinality(T) \in Nat
  BY <1>1, FS_CardinalityType
<1>3. CASE x \in S /\ x \in T
  <2>1. S = T
    BY <1>3
  <2> QED BY <1>2, <1>3, <2>1 DEF One
<1>4. CASE x \notin S /\ x \notin T
  <2>1. S = T
    BY <1>4
  <2> QED BY <1>2, <1>4, <2>1 DEF One
<1>5. CASE x \in T /\ x \notin S
  <2>1. T = S \cup {x}
    BY <1>5
  <2>2. Cardinality(T) = Cardinality(S) + 1
    BY <1>1, <1>5, <2>1, FS_AddElement
  <2> QED BY <1>2, <1>5, <2>2 DEF One
<1>6. CASE x \in S /\ x \notin T
  <2>1. T = S \ {x}
    BY <1>6
  <2>2. Cardinality(T) = Cardinality(S) - 1
    BY <1>1, <1>6, <2>1, FS_RemoveElement
  <2> QED BY <1>2, <1>6, <2>2 DEF One
<1> QED BY <1>3, <1>4, <1>5, <1>6

(* The sets that are counted are finite.                                     *)
LEMMA Finite ==
  ASSUME PathInv
  PROVE  /\ IsFiniteSet(Packets) /\ InFlight \in SUBSET Packets
         /\ Cardinality(InFlight) \in Nat /\ Cardinality(Busy) \in Nat /\ Cardinality(Twice) \in Nat
         /\ Cardinality(Lenders) \in Nat
         /\ \A k : Cardinality(Carriers(k)) \in Nat /\ Cardinality(Keepers(k)) \in Nat
<1>1. IsFiniteSet(Packets)
  <2>1. MaxPackets \in Int /\ 1 \in Int
    BY DEF PathInv, NonceInv, Limits
  <2> QED BY <2>1, FS_Interval DEF Packets
<1>2. InFlight \in SUBSET Packets
  BY DEF InFlight
<1>3. ASSUME NEW U, IsFiniteSet(U), NEW S \in SUBSET U PROVE Cardinality(S) \in Nat
  BY <1>3, FS_Subset, FS_CardinalityType
<1>4. Cardinality(InFlight) \in Nat
  BY <1>1, <1>2, <1>3
<1>5. Busy \in SUBSET Senders /\ Twice \in SUBSET Senders
  BY DEF Busy, Twice
<1>6. \A k : Carriers(k) \in SUBSET Packets /\ Keepers(k) \in SUBSET Senders
  BY <1>2 DEF Carriers, Keepers
<1>7. IsFiniteSet(Senders)
  BY DEF PathInv
<1>8. Cardinality(Busy) \in Nat /\ Cardinality(Twice) \in Nat
  BY <1>3, <1>5, <1>7
<1>9. \A k : Cardinality(Carriers(k)) \in Nat /\ Cardinality(Keepers(k)) \in Nat
  BY <1>1, <1>3, <1>6, <1>7
<1>10. Cardinality(Lenders) \in Nat
  <2>1. Lenders \in SUBSET EncryptCpus /\ IsFiniteSet(EncryptCpus)
    BY DEF Lenders, PathInv
  <2> QED BY <1>3, <2>1
<1> QED BY <1>1, <1>2, <1>4, <1>8, <1>9, <1>10

(* What the invariant says is what ReferencesBalance says.                   *)
LEMMA RefInvImplies ==
  ASSUME PathInv, RefInv
  PROVE  ReferencesBalance
<1>1. DOMAIN keys = 1 .. Len(keys)
  <2>1. keys \in Seq(KeyTypes)
    BY DEF PathInv, NonceInv, TxTypeOK
  <2> QED BY <2>1
<1>2. \A k \in DOMAIN keys :
         keys[k].krefs = (IF k = current THEN 1 ELSE 0)
            + Cardinality({f \in InFlight : cb[f].keypair = k})
            + Cardinality({s \in Senders : sender[s].key = k
                              /\ sender[s].pc \in {"nonce", "create", "enqueue", "free"}})
  BY <1>1 DEF RefInv, Balanced, KeyRefs, Carriers, Keepers, KeyPCs
<1>3. refs = (IF removal = "removed" THEN 0 ELSE 1)
            + Cardinality(InFlight)
            + Cardinality({s \in Senders : sender[s].pc # "idle"})
            + Cardinality({s \in Senders : sender[s].pc \in {"enqueue", "free", "kicktx"}})
            + Cardinality({c \in EncryptCpus : encrypt[c].pc \in {"transmit", "put"}})
  BY DEF RefInv, Balanced, PeerRefs, Busy, Twice, Lenders
<1> QED BY <1>2, <1>3 DEF ReferencesBalance

(* A context moves: what it counts for before is taken away, what it counts  *)
(* for after is added.                                                       *)
LEMMA ContextCounts ==
  ASSUME PathInv, NEW s \in Senders, NEW r \in SenderTypes, sender' = [sender EXCEPT ![s] = r]
  PROVE  /\ Cardinality(Busy)' = Cardinality(Busy) + One(r.pc # "idle") - One(sender[s].pc # "idle")
         /\ Cardinality(Twice)' = Cardinality(Twice) + One(r.pc \in {"enqueue", "free", "kicktx"})
                                    - One(sender[s].pc \in {"enqueue", "free", "kicktx"})
         /\ \A k : Cardinality(Keepers(k))' = Cardinality(Keepers(k))
                       + One(r.key = k /\ r.pc \in KeyPCs)
                       - One(sender[s].key = k /\ sender[s].pc \in KeyPCs)
<1>1. \A t \in Senders : sender'[t] = IF t = s THEN r ELSE sender[t]
  BY DEF PathInv, NonceInv, TxTypeOK
<1>2. IsFiniteSet(Senders)
  BY DEF PathInv
<1>3. Cardinality(Busy)' = Cardinality(Busy) + One(r.pc # "idle") - One(sender[s].pc # "idle")
  <2> DEFINE B == {t \in Senders : sender'[t].pc # "idle"}
  <2>1. /\ Busy \in SUBSET Senders /\ B \in SUBSET Senders
        /\ \A t \in Senders : t # s => (t \in Busy <=> t \in B)
        /\ s \in Busy <=> sender[s].pc # "idle"
        /\ s \in B <=> r.pc # "idle"
    BY <1>1 DEF Busy
  <2>2. Cardinality(B) = Cardinality(Busy) + One(s \in B) - One(s \in Busy)
    BY <1>2, <2>1, DifferInOne
  <2>3. One(s \in B) = One(r.pc # "idle") /\ One(s \in Busy) = One(sender[s].pc # "idle")
    BY <2>1 DEF One
  <2> QED BY <2>2, <2>3 DEF Busy
<1>4. Cardinality(Twice)' = Cardinality(Twice) + One(r.pc \in {"enqueue", "free", "kicktx"})
                              - One(sender[s].pc \in {"enqueue", "free", "kicktx"})
  <2> DEFINE B == {t \in Senders : sender'[t].pc \in {"enqueue", "free", "kicktx"}}
  <2>1. /\ Twice \in SUBSET Senders /\ B \in SUBSET Senders
        /\ \A t \in Senders : t # s => (t \in Twice <=> t \in B)
        /\ s \in Twice <=> sender[s].pc \in {"enqueue", "free", "kicktx"}
        /\ s \in B <=> r.pc \in {"enqueue", "free", "kicktx"}
    BY <1>1 DEF Twice
  <2>2. Cardinality(B) = Cardinality(Twice) + One(s \in B) - One(s \in Twice)
    BY <1>2, <2>1, DifferInOne
  <2>3. /\ One(s \in B) = One(r.pc \in {"enqueue", "free", "kicktx"})
        /\ One(s \in Twice) = One(sender[s].pc \in {"enqueue", "free", "kicktx"})
    BY <2>1 DEF One
  <2> QED BY <2>2, <2>3 DEF Twice
<1>5. ASSUME NEW k
      PROVE  Cardinality(Keepers(k))' = Cardinality(Keepers(k)) + One(r.key = k /\ r.pc \in KeyPCs)
                                          - One(sender[s].key = k /\ sender[s].pc \in KeyPCs)
  <2> DEFINE B == {t \in Senders : sender'[t].key = k /\ sender'[t].pc \in KeyPCs}
  <2>1. /\ Keepers(k) \in SUBSET Senders /\ B \in SUBSET Senders
        /\ \A t \in Senders : t # s => (t \in Keepers(k) <=> t \in B)
        /\ s \in Keepers(k) <=> (sender[s].key = k /\ sender[s].pc \in KeyPCs)
        /\ s \in B <=> (r.key = k /\ r.pc \in KeyPCs)
    BY <1>1 DEF Keepers
  <2>2. Cardinality(B) = Cardinality(Keepers(k)) + One(s \in B) - One(s \in Keepers(k))
    BY <1>2, <2>1, DifferInOne
  <2>3. /\ One(s \in B) = One(r.key = k /\ r.pc \in KeyPCs)
        /\ One(s \in Keepers(k)) = One(sender[s].key = k /\ sender[s].pc \in KeyPCs)
    BY <2>1 DEF One
  <2> QED BY <2>2, <2>3 DEF Keepers
<1> QED BY <1>3, <1>4, <1>5

-------------------------------------------------------------------------------
(* Where the lists are.                                                      *)

(* The hands keep what they had, and nothing in them is finished.            *)
LEMMA HandsSame ==
  ASSUME HandsApart, UNCHANGED crypt_ring,
         \A f \in Packets : InHands(f) => txstate'[f] = txstate[f] \/ txstate'[f] = "UNCRYPTED",
         \A c \in EncryptCpus : /\ encrypt'[c].pc = "state" <=> encrypt[c].pc = "state"
                                /\ encrypt[c].pc = "state" => encrypt'[c].first = encrypt[c].first
  PROVE  HandsApart'
<1>1. \A c \in EncryptCpus : \A f : InHand(c, f)' <=> InHand(c, f)
  BY DEF InHand
<1>2. \A f : In(f, crypt_ring)' <=> In(f, crypt_ring)
  BY DEF In
<1>3. \A f : InHands(f)' <=> InHands(f)
  BY <1>1, <1>2 DEF InHands
<1>4. \A f \in Packets : InHands(f)' => txstate'[f] = "UNCRYPTED"
  BY <1>3 DEF HandsApart
<1>5. ASSUME NEW c \in EncryptCpus, encrypt'[c].pc = "state"
      PROVE  /\ encrypt'[c].first \in Packets /\ ~ In(encrypt'[c].first, crypt_ring')
             /\ \A d \in EncryptCpus : encrypt'[d].pc = "state" /\ encrypt'[d].first = encrypt'[c].first
                                          => d = c
  BY <1>5 DEF HandsApart, InHand
<1>6. NoRepeat(crypt_ring')
  BY DEF HandsApart
<1> QED BY <1>4, <1>5, <1>6 DEF HandsApart, InHand, In, NoRepeat

(* A list goes into the ring: it was known to nobody.                        *)
LEMMA HandsProduce ==
  ASSUME PathInv, HandsApart, NEW s \in Senders, enqueue_per_device(s)
  PROVE  HandsApart'
<1> DEFINE f == First(s)
<1>1. sender[s].pc = "produce" /\ encrypt' = encrypt
  BY DEF enqueue_per_device, workers
<1>2. f \in Packets
  BY <1>1, FirstOf DEF PathInv, ListPCs
<1>3. /\ txstate[f] = "UNCRYPTED" /\ ~ In(f, crypt_ring)
      /\ \A c \in EncryptCpus : ~ InHand(c, f)
  BY <1>1 DEF PathInv, FlushInv, NotHandedOn, ListPCs
<1>4. txstate \in [Packets -> States] /\ crypt_ring \in Seq(Packets)
  BY DEF PathInv, FlushInv, FlushTypeOK
<1>5. CASE txstate' = [txstate EXCEPT ![f] = "DEAD"] /\ UNCHANGED crypt_ring
  <2>1. \A g \in Packets : InHands(g) => txstate'[g] = txstate[g]
    BY <1>3, <1>4, <1>5 DEF InHands
  <2> QED BY <1>1, <1>5, <2>1, HandsSame
<1>6. CASE crypt_ring' = Append(crypt_ring, f) /\ UNCHANGED txstate
  <2>1. /\ Len(crypt_ring) \in Nat /\ Len(crypt_ring') = Len(crypt_ring) + 1
        /\ \A i \in 1 .. Len(crypt_ring) : crypt_ring'[i] = crypt_ring[i]
        /\ crypt_ring'[Len(crypt_ring) + 1] = f
    BY <1>2, <1>4, <1>6
  <2>2. \A g : In(g, crypt_ring') => In(g, crypt_ring) \/ g = f
    BY <2>1 DEF In
  <2>3. NoRepeat(crypt_ring')
    <3> SUFFICES ASSUME NEW i \in 1 .. Len(crypt_ring'), NEW j \in 1 .. Len(crypt_ring'),
                        crypt_ring'[i] = crypt_ring'[j]
                 PROVE  i = j
      BY DEF NoRepeat
    <3>1. \A l \in 1 .. Len(crypt_ring) : crypt_ring[l] # f
      BY <1>3 DEF In
    <3>2. CASE i \in 1 .. Len(crypt_ring) /\ j \in 1 .. Len(crypt_ring)
      BY <2>1, <3>2 DEF HandsApart, NoRepeat
    <3> QED BY <2>1, <3>1, <3>2
  <2>4. ASSUME NEW c \in EncryptCpus, encrypt[c].pc = "state"
        PROVE  /\ encrypt[c].first \in Packets /\ ~ In(encrypt[c].first, crypt_ring')
               /\ \A d \in EncryptCpus : InHand(d, encrypt[c].first) => d = c
    BY <1>3, <2>2, <2>4 DEF HandsApart, InHand
  <2>5. ASSUME NEW g \in Packets, In(g, crypt_ring') \/ \E c \in EncryptCpus : InHand(c, g)
        PROVE  txstate[g] = "UNCRYPTED"
    BY <1>3, <2>2, <2>5 DEF HandsApart, InHands
  <2> QED BY <1>1, <1>6, <2>3, <2>4, <2>5 DEF HandsApart, InHands, InHand, In, NoRepeat
<1> QED BY <1>5, <1>6 DEF enqueue_per_device

(* A worker takes a list from the ring: it is in the ring no more.           *)
LEMMA HandsTake ==
  ASSUME PathInv, HandsApart, NEW c \in EncryptCpus, wg_packet_encrypt_worker(c)
  PROVE  HandsApart'
<1>1. /\ encrypt \in [EncryptCpus -> WorkTypes] /\ crypt_ring \in Seq(Packets)
      /\ encrypt[c].pc = "consume" /\ txstate' = txstate
  BY DEF PathInv, FlushInv, FlushTypeOK, wg_packet_encrypt_worker
<1>2. CASE crypt_ring = <<>>
  <2>1. encrypt' = [encrypt EXCEPT ![c].pc = "idle"] /\ UNCHANGED crypt_ring
    BY <1>2 DEF wg_packet_encrypt_worker
  <2>2. \A d \in EncryptCpus : /\ encrypt'[d].pc = "state" <=> encrypt[d].pc = "state"
                               /\ encrypt[d].pc = "state" => encrypt'[d].first = encrypt[d].first
    BY <1>1, <2>1 DEF WorkTypes
  <2> QED BY <1>1, <2>1, <2>2, HandsSame
<1>3. CASE crypt_ring # <<>>
  <2> DEFINE h == Head(crypt_ring)
  <2>1. /\ encrypt' = [encrypt EXCEPT ![c].pc = "state", ![c].first = h]
        /\ crypt_ring' = Tail(crypt_ring)
    BY <1>3 DEF wg_packet_encrypt_worker
  <2>2. /\ Len(crypt_ring) \in Nat /\ Len(crypt_ring) >= 1 /\ h = crypt_ring[1] /\ h \in Packets
        /\ Len(crypt_ring') = Len(crypt_ring) - 1
        /\ \A i \in 1 .. Len(crypt_ring') : crypt_ring'[i] = crypt_ring[i + 1]
    BY <1>1, <1>3, <2>1
  <2>3. In(h, crypt_ring) /\ \A g : In(g, crypt_ring') => In(g, crypt_ring)
    BY <2>2 DEF In
  <2>4. ~ In(h, crypt_ring')
    <3> SUFFICES ASSUME NEW i \in 1 .. Len(crypt_ring'), crypt_ring'[i] = h PROVE FALSE
      BY DEF In
    <3>1. i + 1 \in 1 .. Len(crypt_ring) /\ 1 \in 1 .. Len(crypt_ring) /\ crypt_ring[i + 1] = crypt_ring[1]
      BY <2>2
    <3>2. i + 1 = 1
      BY <3>1 DEF HandsApart, NoRepeat
    <3> QED BY <2>2, <3>2
  <2>5. NoRepeat(crypt_ring')
    <3> SUFFICES ASSUME NEW i \in 1 .. Len(crypt_ring'), NEW j \in 1 .. Len(crypt_ring'),
                        crypt_ring'[i] = crypt_ring'[j]
                 PROVE  i = j
      BY DEF NoRepeat
    <3>1. i + 1 \in 1 .. Len(crypt_ring) /\ j + 1 \in 1 .. Len(crypt_ring)
          /\ crypt_ring[i + 1] = crypt_ring[j + 1]
      BY <2>2
    <3>2. i + 1 = j + 1
      BY <3>1 DEF HandsApart, NoRepeat
    <3> QED BY <2>2, <3>2
  <2>6. /\ encrypt'[c].pc = "state" /\ encrypt'[c].first = h
        /\ \A d \in EncryptCpus : d # c => encrypt'[d] = encrypt[d]
    BY <1>1, <2>1 DEF WorkTypes
  <2>7. \A d \in EncryptCpus : ~ InHand(d, h)
    BY <2>3 DEF HandsApart, InHand
  <2>8. ASSUME NEW d \in EncryptCpus, encrypt'[d].pc = "state"
        PROVE  /\ encrypt'[d].first \in Packets /\ ~ In(encrypt'[d].first, crypt_ring')
               /\ \A e \in EncryptCpus :
                     encrypt'[e].pc = "state" /\ encrypt'[e].first = encrypt'[d].first => e = d
    <3>1. CASE d = c
      BY <2>2, <2>4, <2>6, <2>7, <3>1 DEF InHand
    <3>2. CASE d # c
      BY <2>3, <2>6, <2>7, <2>8, <3>2 DEF HandsApart, InHand
    <3> QED BY <3>1, <3>2
  <2>9. ASSUME NEW g \in Packets,
               In(g, crypt_ring') \/ \E d \in EncryptCpus : encrypt'[d].pc = "state" /\ encrypt'[d].first = g
        PROVE  txstate[g] = "UNCRYPTED"
    <3>1. InHands(g)
      BY <2>3, <2>6, <2>9 DEF InHands, InHand
    <3> QED BY <3>1 DEF HandsApart
  <2> QED BY <1>1, <2>5, <2>8, <2>9 DEF HandsApart, InHands, InHand, In, NoRepeat
<1> QED BY <1>2, <1>3

(* A worker finishes the list in its hand, which is in no other.             *)
LEMMA HandsFinish ==
  ASSUME PathInv, HandsApart, NEW c \in EncryptCpus, set_state(c)
  PROVE  HandsApart' /\ InFlight' = InFlight
<1> DEFINE f == encrypt[c].first
<1>1. /\ encrypt \in [EncryptCpus -> WorkTypes] /\ txstate \in [Packets -> States]
      /\ encrypt[c].pc = "state" /\ crypt_ring' = crypt_ring
      /\ encrypt' = [encrypt EXCEPT ![c].pc = "transmit"]
  BY DEF PathInv, FlushInv, FlushTypeOK, set_state
<1>2. PICK st \in {"CRYPTED", "DEAD"} : txstate' = [txstate EXCEPT ![f] = st]
  BY DEF set_state
<1>3. /\ encrypt'[c].pc = "transmit"
      /\ \A d \in EncryptCpus : d # c => encrypt'[d] = encrypt[d]
  BY <1>1 DEF WorkTypes
<1>4. /\ f \in Packets /\ ~ In(f, crypt_ring) /\ InHands(f)
      /\ \A d \in EncryptCpus : InHand(d, f) => d = c
  BY <1>1 DEF HandsApart, InHands, InHand
<1>5. txstate[f] = "UNCRYPTED"
  BY <1>4 DEF HandsApart
<1>6. InFlight' = InFlight
  BY <1>1, <1>2, <1>4, <1>5 DEF InFlight
<1>7. ASSUME NEW d \in EncryptCpus, encrypt'[d].pc = "state"
      PROVE  /\ encrypt'[d].first \in Packets /\ ~ In(encrypt'[d].first, crypt_ring)
             /\ \A e \in EncryptCpus :
                   encrypt'[e].pc = "state" /\ encrypt'[e].first = encrypt'[d].first => e = d
  BY <1>3, <1>7 DEF HandsApart, InHand
<1>8. ASSUME NEW g \in Packets,
             In(g, crypt_ring) \/ \E d \in EncryptCpus : encrypt'[d].pc = "state" /\ encrypt'[d].first = g
      PROVE  txstate'[g] = "UNCRYPTED"
  <2>1. InHands(g) /\ g # f
    BY <1>3, <1>4, <1>8 DEF InHands, InHand
  <2> QED BY <1>1, <1>2, <2>1 DEF HandsApart
<1>9. NoRepeat(crypt_ring)
  BY DEF HandsApart
<1> QED BY <1>1, <1>6, <1>7, <1>8, <1>9 DEF HandsApart, InHands, InHand, In, NoRepeat

(* The same lists are in flight and wait.                                    *)
LEMMA FlightSame ==
  ASSUME FlightListed, UNCHANGED <<list, tx_queue, txpeeked>>, InFlight' = InFlight
  PROVE  FlightListed'
<1>1. \A f \in InFlight' : In(f, list'[f])
  BY DEF FlightListed
<1>2. \A f \in Packets : Waits(f)' => f \in InFlight'
  BY DEF FlightListed, Waits
<1> QED BY <1>1, <1>2 DEF FlightListed, In

(* A list that a context has in hand is not in flight.                       *)
LEMMA HeldNotInFlight ==
  ASSUME PathInv, FlightListed, NEW s \in Senders, NEW p \in Packets, Held(s, p)
  PROVE  p \notin InFlight
<1>1. ~ Gone(p)
  BY DEF PathInv, NonceInv, OnePlace
<1> QED BY <1>1 DEF FlightListed, Gone

-------------------------------------------------------------------------------
(* The balance after a step.                                                 *)

(* Facts about keys that all of the following need.                          *)
LEMMA KeyFacts ==
  ASSUME PathInv
  PROVE  /\ keys \in Seq(KeyTypes) /\ Len(keys) \in Nat /\ DOMAIN keys = 1 .. Len(keys)
         /\ current \in 0 .. Len(keys) /\ current \in Nat
         /\ \A k \in 1 .. Len(keys) : keys[k] \in KeyTypes /\ keys[k].krefs \in Int
         /\ sender \in [Senders -> SenderTypes]
<1>1. keys \in Seq(KeyTypes) /\ current \in 0 .. Len(keys) /\ sender \in [Senders -> SenderTypes]
  BY DEF PathInv, NonceInv, TxTypeOK
<1>2. Len(keys) \in Nat /\ DOMAIN keys = 1 .. Len(keys) /\ \A k \in 1 .. Len(keys) : keys[k] \in KeyTypes
  BY <1>1
<1>3. \A k \in 1 .. Len(keys) : keys[k].krefs \in Int
  BY <1>2 DEF KeyTypes
<1>4. current \in Nat
  BY <1>1, <1>2
<1> QED BY <1>1, <1>2, <1>3, <1>4

(* No context is an encrypt worker.                                          *)
LEMMA LendersSame ==
  ASSUME PathInv, NEW s \in Senders,
         wg_xmit(s) \/ wg_packet_send_keepalive(s) \/ NewKeypair(s) \/ SenderRuns(s)
  PROVE  Lenders' = Lenders
<1>1. \A c \in EncryptCpus : encrypt'[c].pc = encrypt[c].pc
  <2>1. CASE queue_encrypt_work(s)
    <3>1. encrypt \in [EncryptCpus -> WorkTypes]
      BY DEF PathInv, FlushInv, FlushTypeOK
    <3> QED BY <2>1, <3>1 DEF queue_encrypt_work, WorkTypes
  <2>2. CASE ~ queue_encrypt_work(s)
    BY <2>2 DEF wg_xmit, wg_packet_send_keepalive, NewKeypair, SenderRuns, keepalive_queue,
         wg_packet_send_staged_packets, keypair_get, assign_nonce, put_back, wg_packet_create_data,
         enqueue_per_peer, queue_link, enqueue_per_device, queue_transmit_work, create_data_err, workers
  <2> QED BY <2>1, <2>2
<1> QED BY <1>1 DEF Lenders

(* Nobody's references change.                                               *)
LEMMA OthersBalanced ==
  ASSUME Balanced, UNCHANGED <<sender, keys, current, cb, refs>>, InFlight' = InFlight,
         Lenders' = Lenders, removal' = "removed" <=> removal = "removed"
  PROVE  Balanced'
<1>1. Busy' = Busy /\ Twice' = Twice /\ \A k : Carriers(k)' = Carriers(k) /\ Keepers(k)' = Keepers(k)
  BY DEF Busy, Twice, Carriers, Keepers
<1>2. HandKeys' /\ refs' \in Int
  BY DEF Balanced, HandKeys, Upto
<1>3. PeerRefs'
  BY <1>1 DEF Balanced, PeerRefs
<1>4. KeyRefs'
  BY <1>1 DEF Balanced, KeyRefs
<1> QED BY <1>2, <1>3, <1>4 DEF Balanced

(* A context moves, and d lists more are in flight.                          *)
LEMMA PeerAccount ==
  ASSUME PathInv, Balanced, NEW s \in Senders, NEW r \in SenderTypes,
         sender' = [sender EXCEPT ![s] = r], removal' = removal, Lenders' = Lenders,
         NEW d \in Int, Cardinality(InFlight)' = Cardinality(InFlight) + d,
         refs' = refs + d + One(r.pc # "idle") - One(sender[s].pc # "idle")
                   + One(r.pc \in {"enqueue", "free", "kicktx"}) - One(sender[s].pc \in {"enqueue", "free", "kicktx"})
  PROVE  refs' \in Int /\ PeerRefs'
<1>1. \A b \in BOOLEAN : One(b) \in Int
  BY DEF One
<1>2. refs \in Int /\ PeerRefs
  BY DEF Balanced
<1>3. Cardinality(InFlight) \in Nat /\ Cardinality(Busy) \in Nat /\ Cardinality(Twice) \in Nat
      /\ Cardinality(Lenders) \in Nat
  BY Finite
<1>4. /\ Cardinality(Busy)' = Cardinality(Busy) + One(r.pc # "idle") - One(sender[s].pc # "idle")
      /\ Cardinality(Twice)' = Cardinality(Twice) + One(r.pc \in {"enqueue", "free", "kicktx"})
                                 - One(sender[s].pc \in {"enqueue", "free", "kicktx"})
  BY ContextCounts
<1>5. /\ One(r.pc # "idle") \in Int /\ One(sender[s].pc # "idle") \in Int
      /\ One(r.pc \in {"enqueue", "free", "kicktx"}) \in Int
      /\ One(sender[s].pc \in {"enqueue", "free", "kicktx"}) \in Int
  BY DEF One
<1>6. refs' \in Int
  BY <1>2, <1>5
<1>7. (IF removal = "removed" THEN 0 ELSE 1) \in Int
  OBVIOUS
<1>8. refs' = (IF removal = "removed" THEN 0 ELSE 1)
                + Cardinality(InFlight)' + Cardinality(Busy)' + Cardinality(Twice)'
                + Cardinality(Lenders)
  BY <1>2, <1>3, <1>4, <1>5, <1>7 DEF PeerRefs
<1> QED BY <1>6, <1>8 DEF PeerRefs

(* A context moves, and e lists more carry the key.                          *)
LEMMA KeyAccount ==
  ASSUME PathInv, Balanced, NEW s \in Senders, NEW r \in SenderTypes,
         sender' = [sender EXCEPT ![s] = r], current' = current,
         NEW k \in 1 .. Len(keys), NEW e \in Int,
         Cardinality(Carriers(k))' = Cardinality(Carriers(k)) + e,
         keys'[k].krefs = keys[k].krefs + e + One(r.key = k /\ r.pc \in KeyPCs)
                            - One(sender[s].key = k /\ sender[s].pc \in KeyPCs)
  PROVE  keys'[k].krefs = (IF k = current' THEN 1 ELSE 0)
                             + Cardinality(Carriers(k))' + Cardinality(Keepers(k))'
<1>1. keys[k].krefs = (IF k = current THEN 1 ELSE 0)
                         + Cardinality(Carriers(k)) + Cardinality(Keepers(k))
  BY DEF Balanced, KeyRefs
<1>2. Cardinality(Carriers(k)) \in Nat /\ Cardinality(Keepers(k)) \in Nat
  BY Finite
<1>3. Cardinality(Keepers(k))' = Cardinality(Keepers(k)) + One(r.key = k /\ r.pc \in KeyPCs)
                                   - One(sender[s].key = k /\ sender[s].pc \in KeyPCs)
  <2>1. \A l : Cardinality(Keepers(l))' = Cardinality(Keepers(l)) + One(r.key = l /\ r.pc \in KeyPCs)
                                           - One(sender[s].key = l /\ sender[s].pc \in KeyPCs)
    BY ContextCounts
  <2> QED BY <2>1
<1>4. /\ One(r.key = k /\ r.pc \in KeyPCs) \in Int
      /\ One(sender[s].key = k /\ sender[s].pc \in KeyPCs) \in Int
  BY DEF One
<1>5. (IF k = current THEN 1 ELSE 0) \in Int
  OBVIOUS
<1> QED BY <1>1, <1>2, <1>3, <1>4, <1>5

(* A context lets go of what it had, or keeps it with the key.               *)
LEMMA HandMoves ==
  ASSUME PathInv, HandKeys, NEW s \in Senders, NEW r \in SenderTypes,
         sender' = [sender EXCEPT ![s] = r], cb' = cb,
         Len(keys') \in Nat, Len(keys') >= Len(keys), r.key <= Len(keys'),
         UptoOf(r) <= 0
           \/ (r.packets = sender[s].packets /\ r.key = sender[s].key /\ UptoOf(r) <= Upto(s))
  PROVE  HandKeys'
<1>1. /\ \A t \in Senders : sender'[t] = IF t = s THEN r ELSE sender[t]
      /\ \A t \in Senders : sender[t].key \in Nat
  BY KeyFacts DEF SenderTypes
<1>2. Len(keys) \in Nat
  BY KeyFacts
<1>3. \A t \in Senders : sender'[t].key <= Len(keys')
  BY <1>1, <1>2 DEF HandKeys
<1>4. Upto(s) \in Int
  BY NumberedIsHeld DEF PathInv, NonceInv
<1>5. UptoOf(r) \in Int
  <2>1. r.at \in Nat /\ r.packets \in Seq(Packets)
    BY DEF SenderTypes
  <2>2. Len(r.packets) \in Nat
    BY <2>1
  <2> QED BY <2>1, <2>2 DEF UptoOf
<1>6. ASSUME NEW t \in Senders, NEW i \in 1 .. UptoOf(sender'[t])
      PROVE  cb[sender'[t].packets[i]].keypair = sender'[t].key
  <2>1. CASE t = s
    <3>1. i \in 1 .. Upto(s) /\ r.packets = sender[s].packets /\ r.key = sender[s].key
      BY <1>1, <1>4, <1>5, <2>1
    <3> QED BY <1>1, <2>1, <3>1 DEF HandKeys
  <2>2. CASE t # s
    BY <1>1, <2>2 DEF HandKeys, Upto
  <2> QED BY <2>1, <2>2
<1> QED BY <1>3, <1>6 DEF HandKeys, Upto

(* A context moves and no key, number or list does.                          *)
LEMMA PlainMove ==
  ASSUME PathInv, Balanced, NEW s \in Senders, NEW r \in SenderTypes,
         sender' = [sender EXCEPT ![s] = r],
         UNCHANGED <<cb, current, removal>>, InFlight' = InFlight, Lenders' = Lenders,
         Len(keys') = Len(keys), \A k \in 1 .. Len(keys) : keys'[k].krefs = keys[k].krefs,
         refs' = refs + One(r.pc # "idle") - One(sender[s].pc # "idle")
                   + One(r.pc \in {"enqueue", "free", "kicktx"}) - One(sender[s].pc \in {"enqueue", "free", "kicktx"}),
         r.pc \in KeyPCs <=> sender[s].pc \in KeyPCs,
         r.key = sender[s].key \/ (r.key = 0 /\ r.pc \notin KeyPCs),
         UptoOf(r) <= 0
           \/ (r.packets = sender[s].packets /\ r.key = sender[s].key /\ UptoOf(r) <= Upto(s))
  PROVE  Balanced'
<1>1. Len(keys) \in Nat /\ sender[s] \in SenderTypes
  BY KeyFacts
<1>2. r.key <= Len(keys)
  BY <1>1 DEF Balanced, HandKeys
<1>3. HandKeys'
  <2>1. HandKeys /\ cb' = cb /\ Len(keys') \in Nat /\ Len(keys') >= Len(keys) /\ r.key <= Len(keys')
    BY <1>1, <1>2 DEF Balanced
  <2> QED BY <2>1, HandMoves
<1>4. refs' \in Int /\ PeerRefs'
  <2>1. refs \in Int /\ Cardinality(InFlight) \in Nat
    BY Finite DEF Balanced
  <2>2. Cardinality(InFlight)' = Cardinality(InFlight) + 0 /\ 0 \in Int /\ removal' = removal
    BY <2>1
  <2>3. refs' = refs + 0 + One(r.pc # "idle") - One(sender[s].pc # "idle")
                  + One(r.pc \in {"enqueue", "free", "kicktx"}) - One(sender[s].pc \in {"enqueue", "free", "kicktx"})
    BY <2>1
  <2> QED BY <2>2, <2>3, PeerAccount
<1>5. ASSUME NEW k \in 1 .. Len(keys)
      PROVE  keys'[k].krefs = (IF k = current' THEN 1 ELSE 0)
                                + Cardinality(Carriers(k))' + Cardinality(Keepers(k))'
  <2>1. Cardinality(Carriers(k)) \in Nat /\ keys[k].krefs \in Int
    BY Finite, KeyFacts
  <2>2. Carriers(k)' = Carriers(k)
    BY DEF Carriers
  <2>3. Cardinality(Carriers(k))' = Cardinality(Carriers(k)) + 0
    BY <2>1, <2>2
  <2>4. /\ One(r.key = k /\ r.pc \in KeyPCs) = One(sender[s].key = k /\ sender[s].pc \in KeyPCs)
        /\ One(sender[s].key = k /\ sender[s].pc \in KeyPCs) \in Int
    BY DEF One
  <2>5. /\ keys'[k].krefs = keys[k].krefs + 0 + One(r.key = k /\ r.pc \in KeyPCs)
                               - One(sender[s].key = k /\ sender[s].pc \in KeyPCs)
        /\ 0 \in Int /\ current' = current
    BY <2>1, <2>4
  <2> QED BY <2>3, <2>5, KeyAccount
<1>6. KeyRefs'
  BY <1>5 DEF KeyRefs
<1> QED BY <1>3, <1>4, <1>6 DEF Balanced

-------------------------------------------------------------------------------
(* The steps of the contexts.                                                *)

\* How many references to the peer a context has.
Weight(pc) == IF pc = "idle" THEN 0 ELSE IF pc \in {"enqueue", "free", "kicktx"} THEN 2 ELSE 1

(* The references a context has are counted in two sets.                     *)
LEMMA WeightParts ==
  ASSUME NEW x, NEW y, NEW n \in Int
  PROVE  n + Weight(x) - Weight(y)
           = n + One(x # "idle") - One(y # "idle")
               + One(x \in {"enqueue", "free", "kicktx"}) - One(y \in {"enqueue", "free", "kicktx"})
<1>1. Weight(x) = One(x # "idle") + One(x \in {"enqueue", "free", "kicktx"})
  BY DEF Weight, One
<1>2. Weight(y) = One(y # "idle") + One(y \in {"enqueue", "free", "kicktx"})
  BY DEF Weight, One
<1>3. /\ One(x # "idle") \in Int /\ One(x \in {"enqueue", "free", "kicktx"}) \in Int
      /\ One(y # "idle") \in Int /\ One(y \in {"enqueue", "free", "kicktx"}) \in Int
  BY DEF One
<1> QED BY <1>1, <1>2, <1>3

(* A context goes on with what it has.                                       *)
LEMMA GotoBalanced ==
  ASSUME PathInv, Balanced, NEW s \in Senders, NEW pc \in SenderPCs, Goto(s, pc),
         UNCHANGED <<cb, current, removal>>, InFlight' = InFlight, Lenders' = Lenders,
         Len(keys') = Len(keys), \A k \in 1 .. Len(keys) : keys'[k].krefs = keys[k].krefs,
         refs' = refs + Weight(pc) - Weight(sender[s].pc),
         pc \in KeyPCs <=> sender[s].pc \in KeyPCs,
         pc # "nonce", pc \in {"create", "enqueue"} => sender[s].pc \in {"create", "enqueue"}
  PROVE  Balanced'
<1> DEFINE r == [sender[s] EXCEPT !.pc = pc]
<1>1. sender[s] \in SenderTypes
  BY KeyFacts
<1>2. r \in SenderTypes /\ r.pc = pc /\ r.key = sender[s].key /\ r.packets = sender[s].packets
  BY <1>1 DEF SenderTypes
<1>3. sender' = [sender EXCEPT ![s] = r]
  BY DEF Goto
<1>4. refs' = refs + One(r.pc # "idle") - One(sender[s].pc # "idle")
                + One(r.pc \in {"enqueue", "free", "kicktx"}) - One(sender[s].pc \in {"enqueue", "free", "kicktx"})
  BY <1>2, WeightParts DEF Balanced
<1>5. UptoOf(r) <= 0
        \/ (r.packets = sender[s].packets /\ r.key = sender[s].key /\ UptoOf(r) <= Upto(s))
  <2>1. sender[s].packets \in Seq(Packets)
    BY <1>1 DEF SenderTypes
  <2>2. Len(sender[s].packets) \in Nat
    BY <2>1
  <2>3. CASE pc \in {"create", "enqueue"}
    BY <1>2, <2>2, <2>3 DEF UptoOf, Upto
  <2>4. CASE pc \notin {"create", "enqueue"}
    BY <1>2, <2>4 DEF UptoOf
  <2> QED BY <2>3, <2>4
<1>6. (r.pc \in KeyPCs <=> sender[s].pc \in KeyPCs)
      /\ (r.key = sender[s].key \/ (r.key = 0 /\ r.pc \notin KeyPCs))
  BY <1>2
<1> HIDE DEF r
<1> QED BY <1>2, <1>3, <1>4, <1>5, <1>6, PlainMove

(* A context that has no key is done.                                        *)
LEMMA DoneBalanced ==
  ASSUME PathInv, Balanced, NEW s \in Senders, SenderDone(s),
         UNCHANGED <<cb, current, removal, keys>>, InFlight' = InFlight, Lenders' = Lenders,
         sender[s].pc \notin KeyPCs \cup {"idle"}, refs' = refs - Weight(sender[s].pc)
  PROVE  Balanced'
<1>1. Idle \in SenderTypes /\ Idle.pc = "idle" /\ Idle.key = 0
  <2>1. <<>> \in Seq(Packets)
    OBVIOUS
  <2> QED BY <2>1 DEF Idle, SenderTypes, SenderPCs
<1>2. sender' = [sender EXCEPT ![s] = Idle]
  BY DEF SenderDone
<1>3. refs' = refs + One(Idle.pc # "idle") - One(sender[s].pc # "idle")
                + One(Idle.pc \in {"enqueue", "free", "kicktx"}) - One(sender[s].pc \in {"enqueue", "free", "kicktx"})
  <2>1. Weight(sender[s].pc) \in Int /\ Weight(Idle.pc) = 0 /\ refs \in Int
    BY <1>1 DEF Weight, KeyPCs, Balanced
  <2>2. refs' = refs + Weight(Idle.pc) - Weight(sender[s].pc)
    BY <2>1
  <2> QED BY <2>1, <2>2, WeightParts
<1>4. UptoOf(Idle) <= 0 /\ Idle.pc \notin KeyPCs
  BY <1>1 DEF UptoOf, KeyPCs
<1> QED BY <1>1, <1>2, <1>3, <1>4, PlainMove

(* The steps that have nothing to do with a key or the queues.               *)
LEMMA PlainContextStep ==
  ASSUME PathInv, Balanced, NEW s \in Senders,
         \/ wg_xmit(s) \/ wg_packet_send_keepalive(s) \/ keepalive_queue(s)
         \/ wg_packet_send_staged_packets(s) \/ put_back(s) \/ wg_packet_create_data(s)
         \/ queue_encrypt_work(s) \/ queue_transmit_work(s) \/ queue_link(s)
  PROVE  Balanced'
<1>1. UNCHANGED <<cb, current, removal, keys, txstate>>
  BY DEF wg_xmit, wg_packet_send_keepalive, keepalive_queue, wg_packet_send_staged_packets,
         put_back, wg_packet_create_data, queue_encrypt_work, queue_transmit_work, queue_link,
         queues, teardown
<1>2. InFlight' = InFlight /\ Lenders' = Lenders
  BY <1>1, LendersSame DEF InFlight, SenderRuns
<1>3. refs \in Int
  BY DEF Balanced
<1>4. ASSUME NEW pc \in SenderPCs, Goto(s, pc), refs' = refs + Weight(pc) - Weight(sender[s].pc),
             pc \in KeyPCs <=> sender[s].pc \in KeyPCs,
             pc # "nonce", pc \in {"create", "enqueue"} => sender[s].pc \in {"create", "enqueue"}
      PROVE  Balanced'
  BY <1>1, <1>2, <1>4, GotoBalanced
<1>5. ASSUME SenderDone(s), sender[s].pc \notin KeyPCs \cup {"idle"}, refs' = refs - Weight(sender[s].pc)
      PROVE  Balanced'
  BY <1>1, <1>2, <1>5, DoneBalanced
<1>6. CASE wg_xmit(s) \/ wg_packet_send_keepalive(s)
  <2>1. PICK pc \in {"steal", "keepalive"} : Goto(s, pc)
    BY <1>6 DEF wg_xmit, wg_packet_send_keepalive
  <2>2. sender[s].pc = "idle" /\ refs' = refs + 1
    BY <1>6 DEF wg_xmit, wg_packet_send_keepalive
  <2>3. /\ pc \in SenderPCs /\ pc \notin KeyPCs /\ "idle" \notin KeyPCs
        /\ Weight(pc) = 1 /\ Weight("idle") = 0
    BY DEF SenderPCs, KeyPCs, Weight
  <2>4. refs' = refs + Weight(pc) - Weight(sender[s].pc)
    BY <1>3, <2>2, <2>3
  <2> QED BY <1>4, <2>1, <2>2, <2>3, <2>4
<1>7. CASE keepalive_queue(s)
  <2>1. sender[s].pc = "keepalive"
    BY <1>7 DEF keepalive_queue
  <2>2. CASE Goto(s, "steal") /\ UNCHANGED refs
    <3>1. /\ Weight("steal") = 1 /\ Weight("keepalive") = 1 /\ "steal" \in SenderPCs
          /\ "steal" \notin KeyPCs /\ "keepalive" \notin KeyPCs
      BY DEF Weight, SenderPCs, KeyPCs
    <3>2. refs' = refs + Weight("steal") - Weight(sender[s].pc)
      BY <1>3, <2>1, <2>2, <3>1
    <3> QED BY <1>4, <2>1, <2>2, <3>1, <3>2
  <2>3. CASE wg_peer_put(1) /\ SenderDone(s)
    BY <1>5, <2>1, <2>3 DEF wg_peer_put, KeyPCs, Weight
  <2> QED BY <1>7, <2>2, <2>3 DEF keepalive_queue
<1>8. CASE wg_packet_send_staged_packets(s)
  <2>1. sender[s].pc = "steal"
    BY <1>8 DEF wg_packet_send_staged_packets
  <2>2. CASE SenderDone(s) /\ wg_peer_put(1)
    BY <1>5, <2>1, <2>2 DEF wg_peer_put, KeyPCs, Weight
  <2>3. CASE sender' = [sender EXCEPT ![s].pc = "key", ![s].packets = staged] /\ UNCHANGED refs
    <3> DEFINE r == [sender[s] EXCEPT !.pc = "key", !.packets = staged]
    <3>1. sender[s] \in SenderTypes /\ staged \in Seq(Packets)
      BY DEF PathInv, NonceInv, TxTypeOK
    <3>2. /\ r \in SenderTypes /\ r.pc = "key" /\ r.key = sender[s].key
          /\ sender' = [sender EXCEPT ![s] = r]
      BY <2>3, <3>1 DEF SenderTypes, SenderPCs
    <3>3. UptoOf(r) <= 0 /\ r.pc \notin KeyPCs /\ sender[s].pc \notin KeyPCs
      BY <2>1, <3>2 DEF UptoOf, KeyPCs
    <3>4. refs' = refs + One(r.pc # "idle") - One(sender[s].pc # "idle")
                + One(r.pc \in {"enqueue", "free", "kicktx"}) - One(sender[s].pc \in {"enqueue", "free", "kicktx"})
      BY <1>3, <2>1, <2>3, <3>2 DEF One
    <3> HIDE DEF r
    <3> QED BY <1>1, <1>2, <3>2, <3>3, <3>4, PlainMove
  <2> QED BY <1>8, <2>2, <2>3 DEF wg_packet_send_staged_packets
<1>9. CASE put_back(s) \/ queue_encrypt_work(s) \/ queue_transmit_work(s)
  <2>1. sender[s].pc \in {"putback", "kick", "kicktx"} /\ SenderDone(s)
        /\ refs' = refs - Weight(sender[s].pc)
    BY <1>9 DEF put_back, queue_encrypt_work, queue_transmit_work, wg_peer_put, Weight
  <2> QED BY <1>5, <2>1 DEF KeyPCs
<1>10. CASE wg_packet_create_data(s)
  <2>1. PICK pc \in {"free", "enqueue"} : Goto(s, pc)
    BY <1>10 DEF wg_packet_create_data
  <2>2. sender[s].pc = "create" /\ refs' = refs + 1
    BY <1>10 DEF wg_packet_create_data
  <2>3. /\ pc \in SenderPCs /\ pc \in KeyPCs /\ "create" \in KeyPCs
        /\ Weight(pc) = 2 /\ Weight("create") = 1
    BY DEF SenderPCs, KeyPCs, Weight
  <2>4. refs' = refs + Weight(pc) - Weight(sender[s].pc)
    BY <1>3, <2>2, <2>3
  <2> QED BY <1>4, <2>1, <2>2, <2>3, <2>4
<1>11. CASE queue_link(s)
  <2>1. sender[s].pc = "link" /\ Goto(s, "produce") /\ refs' = refs
    BY <1>11 DEF queue_link
  <2>2. /\ Weight("link") = 1 /\ Weight("produce") = 1 /\ "produce" \in SenderPCs
        /\ "link" \notin KeyPCs /\ "produce" \notin KeyPCs
    BY DEF Weight, SenderPCs, KeyPCs
  <2>3. refs' = refs + Weight("produce") - Weight(sender[s].pc)
    BY <1>3, <2>1, <2>2
  <2> QED BY <1>4, <2>1, <2>2, <2>3
<1> QED BY <1>6, <1>7, <1>8, <1>9, <1>10, <1>11

(* A list goes to the encrypt workers, or is marked DEAD: it stays in flight. *)
LEMMA ProduceBalanced ==
  ASSUME PathInv, Balanced, NEW s \in Senders, enqueue_per_device(s)
  PROVE  Balanced' /\ InFlight' = InFlight
<1>1. /\ UNCHANGED <<cb, current, removal, keys>> /\ sender[s].pc = "produce"
      /\ txstate \in [Packets -> States] /\ refs \in Int
  BY DEF enqueue_per_device, teardown, PathInv, FlushInv, FlushTypeOK, Balanced
<1>2. First(s) \in Packets
  BY <1>1, FirstOf DEF PathInv, ListPCs
<1>3. txstate[First(s)] = "UNCRYPTED"
  BY <1>1 DEF PathInv, FlushInv, NotHandedOn, ListPCs
<1>4. UNCHANGED txstate \/ txstate' = [txstate EXCEPT ![First(s)] = "DEAD"]
  BY DEF enqueue_per_device
<1>5. InFlight' = InFlight
  BY <1>1, <1>2, <1>3, <1>4 DEF InFlight
<1>6. Lenders' = Lenders
  BY LendersSame DEF SenderRuns
<1>7. PICK pc \in {"kick", "kicktx"} : Goto(s, pc) /\ refs' = IF pc = "kick" THEN refs ELSE refs + 1
  BY DEF enqueue_per_device
<1>8. /\ Weight(pc) = (IF pc = "kick" THEN 1 ELSE 2) /\ Weight("produce") = 1 /\ pc \in SenderPCs
      /\ "produce" \notin KeyPCs /\ pc \notin KeyPCs
  BY DEF Weight, SenderPCs, KeyPCs
<1>9. refs' = refs + Weight(pc) - Weight(sender[s].pc)
  BY <1>1, <1>7, <1>8
<1> QED BY <1>1, <1>5, <1>7, <1>8, <1>9, <1>6, GotoBalanced

-------------------------------------------------------------------------------
(* The steps that take or give back a key.                                   *)

(* Writing a key.                                                            *)
LEMMA KeyCount ==
  ASSUME PathInv, NEW j \in 1 .. Len(keys), NEW e, keys' = [keys EXCEPT ![j] = e]
  PROVE  /\ Len(keys') = Len(keys)
         /\ \A k \in 1 .. Len(keys) : keys'[k].krefs = IF k = j THEN e.krefs ELSE keys[k].krefs
<1>1. keys \in Seq(KeyTypes)
  BY KeyFacts
<1>2. Len(keys') = Len(keys) /\ \A k \in 1 .. Len(keys) : keys'[k] = IF k = j THEN e ELSE keys[k]
  BY <1>1
<1> QED BY <1>2

(* Writing its number of references, and its other fields.                   *)
LEMMA KeyFields ==
  ASSUME NEW e \in KeyTypes, NEW n
  PROVE  /\ [e EXCEPT !.krefs = n].krefs = n
         /\ [e EXCEPT !.is_valid = FALSE].krefs = e.krefs
         /\ [e EXCEPT !.sending_counter = n].krefs = e.krefs
BY DEF KeyTypes

(* A context moves and takes a reference to a key, or gives one back.        *)
LEMMA KeyMove ==
  ASSUME PathInv, Balanced, NEW s \in Senders, NEW r \in SenderTypes,
         sender' = [sender EXCEPT ![s] = r], HandKeys',
         UNCHANGED <<current, removal>>, InFlight' = InFlight, Lenders' = Lenders,
         \A f \in InFlight : cb'[f] = cb[f], Len(keys') = Len(keys),
         \A k \in 1 .. Len(keys) :
             keys'[k].krefs = keys[k].krefs + One(r.key = k /\ r.pc \in KeyPCs)
                                - One(sender[s].key = k /\ sender[s].pc \in KeyPCs),
         refs' = refs + Weight(r.pc) - Weight(sender[s].pc)
  PROVE  Balanced'
<1>1. Len(keys) \in Nat /\ sender[s] \in SenderTypes /\ refs \in Int /\ Cardinality(InFlight) \in Nat
  BY KeyFacts, Finite DEF Balanced
<1>2. refs' \in Int /\ PeerRefs'
  <2>1. /\ One(r.pc # "idle") \in Int /\ One(sender[s].pc # "idle") \in Int
        /\ One(r.pc \in {"enqueue", "free", "kicktx"}) \in Int
        /\ One(sender[s].pc \in {"enqueue", "free", "kicktx"}) \in Int
    BY DEF One
  <2>2. refs' = refs + One(r.pc # "idle") - One(sender[s].pc # "idle")
                  + One(r.pc \in {"enqueue", "free", "kicktx"}) - One(sender[s].pc \in {"enqueue", "free", "kicktx"})
    BY <1>1, WeightParts
  <2>3. refs' = refs + 0 + One(r.pc # "idle") - One(sender[s].pc # "idle")
                  + One(r.pc \in {"enqueue", "free", "kicktx"}) - One(sender[s].pc \in {"enqueue", "free", "kicktx"})
    BY <1>1, <2>1, <2>2
  <2>4. Cardinality(InFlight)' = Cardinality(InFlight) + 0 /\ 0 \in Int /\ removal' = removal
    BY <1>1
  <2> QED BY <2>3, <2>4, PeerAccount
<1>3. ASSUME NEW k \in 1 .. Len(keys)
      PROVE  keys'[k].krefs = (IF k = current' THEN 1 ELSE 0)
                                + Cardinality(Carriers(k))' + Cardinality(Keepers(k))'
  <2>1. Cardinality(Carriers(k)) \in Nat /\ keys[k].krefs \in Int
    BY Finite, KeyFacts
  <2>2. Carriers(k)' = Carriers(k)
    BY DEF Carriers
  <2>3. Cardinality(Carriers(k))' = Cardinality(Carriers(k)) + 0
    BY <2>1, <2>2
  <2>4. /\ keys'[k].krefs = keys[k].krefs + 0 + One(r.key = k /\ r.pc \in KeyPCs)
                               - One(sender[s].key = k /\ sender[s].pc \in KeyPCs)
        /\ 0 \in Int /\ current' = current
    BY <2>1
  <2> QED BY <2>3, <2>4, KeyAccount
<1>4. KeyRefs'
  BY <1>3 DEF KeyRefs
<1> QED BY <1>2, <1>4 DEF Balanced

(* The current key is taken, or found to be of no use.                       *)
LEMMA KeyGetBalanced ==
  ASSUME PathInv, Balanced, NEW s \in Senders, keypair_get(s)
  PROVE  Balanced'
<1>1. /\ UNCHANGED <<cb, current, removal, refs, txstate>> /\ sender[s].pc = "key"
      /\ sender[s] \in SenderTypes /\ refs \in Int
  BY KeyFacts DEF keypair_get, queues, teardown, Balanced
<1>2. InFlight' = InFlight /\ Lenders' = Lenders
  BY <1>1, LendersSame DEF InFlight, SenderRuns
<1>3. Weight("key") = 1 /\ Weight("putback") = 1 /\ Weight("nonce") = 1 /\ "key" \notin KeyPCs
      /\ "putback" \in SenderPCs /\ "putback" \notin KeyPCs /\ "nonce" \in KeyPCs
  BY DEF Weight, KeyPCs, SenderPCs
<1>4. ASSUME Goto(s, "putback"), Len(keys') = Len(keys),
             \A k \in 1 .. Len(keys) : keys'[k].krefs = keys[k].krefs
      PROVE  Balanced'
  <2>1. refs' = refs + Weight("putback") - Weight(sender[s].pc)
    BY <1>1, <1>3
  <2> QED BY <1>1, <1>2, <1>3, <1>4, <2>1, GotoBalanced
<1>5. CASE Goto(s, "putback") /\ UNCHANGED keys
  BY <1>4, <1>5
<1>6. ASSUME KeyUsable
      PROVE  current \in 1 .. Len(keys) /\ keys[current] \in KeyTypes
  BY <1>6, KeyFacts DEF KeyUsable
<1>7. CASE /\ KeyUsable /\ Goto(s, "putback")
           /\ keys' = [keys EXCEPT ![current].is_valid = FALSE]
  <2>1. keys' = [keys EXCEPT ![current] = [keys[current] EXCEPT !.is_valid = FALSE]]
    BY <1>7
  <2>2. [keys[current] EXCEPT !.is_valid = FALSE].krefs = keys[current].krefs
    BY <1>6, <1>7, KeyFields
  <2>3. Len(keys') = Len(keys) /\ \A k \in 1 .. Len(keys) : keys'[k].krefs = keys[k].krefs
    BY <1>6, <1>7, <2>1, <2>2, KeyCount
  <2> QED BY <1>4, <1>7, <2>3
<1>8. CASE /\ KeyUsable /\ keys' = [keys EXCEPT ![current].krefs = @ + 1]
           /\ sender' = [sender EXCEPT ![s].pc = "nonce", ![s].key = current, ![s].at = 1]
  <2> DEFINE r == [sender[s] EXCEPT !.pc = "nonce", !.key = current, !.at = 1]
  <2>1. current \in Nat /\ Len(keys) \in Nat /\ current <= Len(keys) /\ keys[current].krefs \in Int
    BY <1>6, <1>8, KeyFacts
  <2>2. /\ r \in SenderTypes /\ r.pc = "nonce" /\ r.key = current /\ r.at = 1
        /\ sender' = [sender EXCEPT ![s] = r]
    BY <1>1, <1>8, <2>1 DEF SenderTypes, SenderPCs
  <2> HIDE DEF r
  <2>3. keys' = [keys EXCEPT ![current] = [keys[current] EXCEPT !.krefs = keys[current].krefs + 1]]
    BY <1>8
  <2>4. [keys[current] EXCEPT !.krefs = keys[current].krefs + 1].krefs = keys[current].krefs + 1
    BY <1>6, <1>8, KeyFields
  <2>5. /\ Len(keys') = Len(keys)
        /\ \A k \in 1 .. Len(keys) :
              keys'[k].krefs = IF k = current THEN keys[current].krefs + 1 ELSE keys[k].krefs
    BY <1>6, <1>8, <2>3, <2>4, KeyCount
  <2>6. ASSUME NEW k \in 1 .. Len(keys)
        PROVE  keys'[k].krefs = keys[k].krefs + One(r.key = k /\ r.pc \in KeyPCs)
                                  - One(sender[s].key = k /\ sender[s].pc \in KeyPCs)
    <3>1. keys[k].krefs \in Int
      BY KeyFacts
    <3> QED BY <1>1, <1>3, <2>2, <2>5, <3>1 DEF One
  <2>7. HandKeys'
    <3>1. UptoOf(r) <= 0
      BY <2>2 DEF UptoOf
    <3>2. /\ HandKeys /\ cb' = cb /\ Len(keys') \in Nat /\ Len(keys') >= Len(keys)
          /\ r.key <= Len(keys')
      BY <1>1, <2>1, <2>2, <2>5 DEF Balanced
    <3> QED BY <2>2, <3>1, <3>2, HandMoves
  <2>8. refs' = refs + Weight(r.pc) - Weight(sender[s].pc)
    BY <1>1, <1>3, <2>2
  <2> QED BY <1>1, <1>2, <2>2, <2>5, <2>6, <2>7, <2>8, KeyMove
<1> QED BY <1>5, <1>7, <1>8 DEF keypair_get

(* A list that cannot be queued is freed with its references.                *)
LEMMA FreeBalanced ==
  ASSUME PathInv, Balanced, NEW s \in Senders, create_data_err(s)
  PROVE  Balanced'
<1> DEFINE j == sender[s].key
<1>1. /\ UNCHANGED <<cb, current, removal, txstate>> /\ sender[s].pc = "free"
      /\ keys' = [keys EXCEPT ![j].krefs = @ - 1]
      /\ sender' = [sender EXCEPT ![s] = Idle] /\ refs' = refs - 2
      /\ sender[s] \in SenderTypes /\ refs \in Int /\ j \in Nat
  BY KeyFacts DEF create_data_err, queues, teardown, Balanced, SenderDone, wg_peer_put, SenderTypes
<1>2. InFlight' = InFlight /\ Lenders' = Lenders
  BY <1>1, LendersSame DEF InFlight, SenderRuns
<1>3. Idle \in SenderTypes /\ Idle.pc = "idle" /\ Idle.key = 0
  <2>1. <<>> \in Seq(Packets)
    OBVIOUS
  <2> QED BY <2>1 DEF Idle, SenderTypes, SenderPCs
<1>4. "idle" \notin KeyPCs /\ "free" \in KeyPCs /\ Weight("idle") = 0 /\ Weight("free") = 2
  BY DEF KeyPCs, Weight
<1>5. /\ Len(keys') = Len(keys) /\ Len(keys) \in Nat
      /\ \A k \in 1 .. Len(keys) :
            keys'[k].krefs = IF k = j THEN keys[k].krefs - 1 ELSE keys[k].krefs
  <2>1. keys \in Seq(KeyTypes) /\ Len(keys) \in Nat /\ DOMAIN keys = 1 .. Len(keys)
    BY KeyFacts
  <2>2. CASE j \in 1 .. Len(keys)
    <3>1. keys' = [keys EXCEPT ![j] = [keys[j] EXCEPT !.krefs = keys[j].krefs - 1]]
      BY <1>1
    <3>2. [keys[j] EXCEPT !.krefs = keys[j].krefs - 1].krefs = keys[j].krefs - 1
      BY <2>2, KeyFacts, KeyFields
    <3> QED BY <2>1, <2>2, <3>1, <3>2, KeyCount
  <2>3. CASE j \notin 1 .. Len(keys)
    <3>1. keys' = keys
      BY <1>1, <2>1, <2>3
    <3> QED BY <2>1, <2>3, <3>1
  <2> QED BY <2>2, <2>3
<1>6. ASSUME NEW k \in 1 .. Len(keys)
      PROVE  keys'[k].krefs = keys[k].krefs + One(Idle.key = k /\ Idle.pc \in KeyPCs)
                                - One(sender[s].key = k /\ sender[s].pc \in KeyPCs)
  <2>1. keys[k].krefs \in Int
    BY KeyFacts
  <2> QED BY <1>1, <1>3, <1>4, <1>5, <2>1 DEF One
<1>7. HandKeys'
  <2>1. UptoOf(Idle) <= 0
    BY <1>3 DEF UptoOf
  <2>2. /\ HandKeys /\ cb' = cb /\ Len(keys') \in Nat /\ Len(keys') >= Len(keys)
        /\ Idle.key <= Len(keys')
    BY <1>1, <1>3, <1>5 DEF Balanced
  <2> QED BY <1>1, <1>3, <2>1, <2>2, HandMoves
<1>8. refs' = refs + Weight(Idle.pc) - Weight(sender[s].pc)
  BY <1>1, <1>3, <1>4
<1> QED BY <1>1, <1>2, <1>3, <1>5, <1>6, <1>7, <1>8, KeyMove

(* A packet is numbered: it is nobody else's and not in flight.  At the      *)
(* limit the key is given back.                                              *)
LEMMA NonceBalanced ==
  ASSUME PathInv, Balanced, FlightListed, NEW s \in Senders, assign_nonce(s)
  PROVE  Balanced'
<1> DEFINE j == sender[s].key
           at == sender[s].at
           q == sender[s].packets
           p == q[at]
           n == keys[j].sending_counter
<1>1. /\ UNCHANGED <<current, removal, txstate, refs>> /\ sender[s].pc = "nonce"
      /\ cb' = [cb EXCEPT ![p] = [nonce |-> n, keypair |-> j]]
      /\ sender[s] \in SenderTypes /\ refs \in Int /\ HandKeys
      /\ cb \in [Packets -> [nonce : Int, keypair : Nat]]
  BY KeyFacts DEF assign_nonce, queues, teardown, Balanced, PathInv, NonceInv, TxTypeOK
<1>2. InFlight' = InFlight /\ Lenders' = Lenders
  BY <1>1, LendersSame DEF InFlight, SenderRuns
<1>3. q \in Seq(Packets) /\ j \in Nat /\ at \in Nat
  BY <1>1 DEF SenderTypes
<1>4. Len(q) \in Nat /\ at \in 1 .. Len(q) /\ j \in 1 .. Len(keys)
  BY <1>1, <1>3 DEF PathInv, NonceInv, SenderShape, Shaped
<1>5. p \in Packets /\ Held(s, p)
  <2>1. p \in Packets
    BY <1>3, <1>4
  <2> QED BY <1>1, <1>4, <2>1 DEF Held, Holds, HoldPCs, In
<1>6. p \notin InFlight
  BY <1>5, HeldNotInFlight
<1>7. \A f \in Packets : f # p => cb'[f] = cb[f]
  BY <1>1
<1>8. \A f \in InFlight : cb'[f] = cb[f]
  BY <1>6, <1>7 DEF InFlight
<1>9. cb'[p].keypair = j
  BY <1>1, <1>5
<1>10. Len(keys) \in Nat /\ keys \in Seq(KeyTypes) /\ keys[j] \in KeyTypes /\ keys[j].krefs \in Int
  BY <1>4, KeyFacts
<1>11. ASSUME NEW r \in SenderTypes, sender' = [sender EXCEPT ![s] = r], Len(keys') = Len(keys),
              r.key = j, r.packets = q, UptoOf(r) <= at, UptoOf(r) \in Int
       PROVE  HandKeys'
  <2>1. \A t \in Senders : sender'[t] = IF t = s THEN r ELSE sender[t]
    BY <1>11, KeyFacts
  <2>2. \A t \in Senders : sender'[t].key <= Len(keys')
    BY <1>1, <1>11, <2>1 DEF HandKeys
  <2>3. ASSUME NEW t \in Senders, NEW i \in 1 .. UptoOf(sender'[t])
        PROVE  cb'[sender'[t].packets[i]].keypair = sender'[t].key
    <3>1. CASE t # s
      <4>1. i \in 1 .. Upto(t) /\ sender'[t] = sender[t]
        BY <2>1, <2>3, <3>1 DEF Upto
      <4>2. sender[t].packets[i] \in Packets /\ Held(t, sender[t].packets[i])
        BY <4>1, NumberedIsHeld DEF PathInv, NonceInv
      <4>3. sender[t].packets[i] # p
        BY <1>5, <3>1, <4>2 DEF PathInv, NonceInv, OnePlace
      <4>4. cb[sender[t].packets[i]].keypair = sender[t].key
        BY <1>1, <4>1 DEF HandKeys
      <4> QED BY <1>7, <4>1, <4>2, <4>3, <4>4
    <3>2. CASE t = s
      <4>1. sender'[t].packets = q /\ sender'[t].key = j /\ i \in 1 .. at
        BY <1>3, <1>11, <2>1, <2>3, <3>2
      <4>2. CASE i = at
        BY <1>9, <4>1, <4>2
      <4>3. CASE i # at
        <5>1. i \in 1 .. Upto(s) /\ i \in 1 .. Len(q)
          BY <1>1, <1>3, <1>4, <4>1, <4>3 DEF Upto, UptoOf
        <5>2. cb[q[i]].keypair = j /\ q[i] \in Packets
          BY <1>1, <1>3, <5>1 DEF HandKeys
        <5>3. NoRepeat(q)
          BY <1>5 DEF PathInv, NonceInv, OnePlace, Held
        <5>4. q[i] # p
          BY <1>4, <4>3, <5>1, <5>3 DEF NoRepeat
        <5> QED BY <1>7, <4>1, <5>2, <5>4
      <4> QED BY <4>2, <4>3
    <3> QED BY <3>1, <3>2
  <2> QED BY <2>2, <2>3 DEF HandKeys, Upto
<1>12. Weight("nonce") = 1 /\ Weight("putback") = 1 /\ Weight("create") = 1
       /\ "nonce" \in KeyPCs /\ "create" \in KeyPCs /\ "putback" \notin KeyPCs
  BY DEF Weight, KeyPCs
<1>13. ASSUME NEW r \in SenderTypes, sender' = [sender EXCEPT ![s] = r], Len(keys') = Len(keys),
              r.key = j, r.packets = q, UptoOf(r) <= at, UptoOf(r) \in Int,
              r.pc \in {"nonce", "create", "putback"},
              \A k \in 1 .. Len(keys) :
                  keys'[k].krefs = IF k = j /\ r.pc = "putback" THEN keys[k].krefs - 1 ELSE keys[k].krefs
       PROVE  Balanced'
  <2>1. HandKeys'
    BY <1>11, <1>13
  <2>2. refs' = refs + Weight(r.pc) - Weight(sender[s].pc)
    BY <1>1, <1>12, <1>13
  <2>3. ASSUME NEW k \in 1 .. Len(keys)
        PROVE  keys'[k].krefs = keys[k].krefs + One(r.key = k /\ r.pc \in KeyPCs)
                                  - One(sender[s].key = k /\ sender[s].pc \in KeyPCs)
    <3>1. keys[k].krefs \in Int
      BY KeyFacts
    <3> QED BY <1>1, <1>12, <1>13, <3>1 DEF One
  <2> QED BY <1>1, <1>2, <1>8, <1>13, <2>1, <2>2, <2>3, KeyMove
<1>14. CASE n >= MESSAGE_LIMIT
  <2> DEFINE r == [sender[s] EXCEPT !.pc = "putback"]
             e == [keys[j] EXCEPT !.sending_counter = n + 1, !.is_valid = FALSE, !.krefs = @ - 1]
  <2>1. keys' = [keys EXCEPT ![j] = e] /\ sender' = [sender EXCEPT ![s] = r]
    BY <1>14 DEF assign_nonce, Goto
  <2>2. r \in SenderTypes /\ r.pc = "putback" /\ r.key = j /\ r.packets = q
    BY <1>1 DEF SenderTypes, SenderPCs
  <2>3. e.krefs = keys[j].krefs - 1
    BY <1>10 DEF KeyTypes
  <2> HIDE DEF r, e
  <2>4. UptoOf(r) = 0
    BY <2>2 DEF UptoOf
  <2>5. /\ Len(keys') = Len(keys)
        /\ \A k \in 1 .. Len(keys) :
              keys'[k].krefs = IF k = j /\ r.pc = "putback" THEN keys[k].krefs - 1 ELSE keys[k].krefs
    BY <1>4, <2>1, <2>2, <2>3, KeyCount
  <2>6. UptoOf(r) <= at /\ UptoOf(r) \in Int
    BY <1>3, <2>4
  <2> QED BY <1>13, <2>1, <2>2, <2>5, <2>6
<1>15. CASE ~ (n >= MESSAGE_LIMIT)
  <2> DEFINE e == [keys[j] EXCEPT !.sending_counter = n + 1]
  <2>1. keys' = [keys EXCEPT ![j] = e]
    BY <1>15 DEF assign_nonce
  <2>2. e.krefs = keys[j].krefs
    BY <1>10, KeyFields
  <2> HIDE DEF e
  <2>3. Len(keys') = Len(keys) /\ \A k \in 1 .. Len(keys) : keys'[k].krefs = keys[k].krefs
    BY <1>4, <2>1, <2>2, KeyCount
  <2>4. CASE at < Len(q)
    <3> DEFINE r == [sender[s] EXCEPT !.at = at + 1]
    <3>1. sender' = [sender EXCEPT ![s] = r]
      BY <1>15, <2>4 DEF assign_nonce
    <3>2. ASSUME NEW m \in Nat
          PROVE  LET x == [sender[s] EXCEPT !.at = m]
                 IN x \in SenderTypes /\ x.pc = sender[s].pc /\ x.key = j /\ x.packets = q /\ x.at = m
      BY <1>1 DEF SenderTypes
    <3>3. at + 1 \in Nat
      BY <1>3
    <3>4. r \in SenderTypes /\ r.pc = "nonce" /\ r.key = j /\ r.packets = q /\ r.at = at + 1
      BY <1>1, <3>2, <3>3
    <3> HIDE DEF r
    <3>5. UptoOf(r) <= at /\ UptoOf(r) \in Int
      BY <1>3, <3>4 DEF UptoOf
    <3> QED BY <1>13, <2>3, <3>1, <3>4, <3>5
  <2>5. CASE ~ (at < Len(q))
    <3> DEFINE r == [sender[s] EXCEPT !.pc = "create"]
    <3>1. sender' = [sender EXCEPT ![s] = r]
      BY <1>15, <2>5 DEF assign_nonce, Goto
    <3>2. r \in SenderTypes /\ r.pc = "create" /\ r.key = j /\ r.packets = q
      BY <1>1 DEF SenderTypes, SenderPCs
    <3> HIDE DEF r
    <3>3. UptoOf(r) <= at /\ UptoOf(r) \in Int
      BY <1>3, <1>4, <2>5, <3>2 DEF UptoOf
    <3> QED BY <1>13, <2>3, <3>1, <3>2, <3>3
  <2> QED BY <2>4, <2>5
<1> QED BY <1>14, <1>15

-------------------------------------------------------------------------------
(* The steps at which a list enters and leaves.                              *)

(* A list takes its place in tx_queue and takes over the references of the   *)
(* context.                                                                  *)
LEMMA EnqueueBalanced ==
  ASSUME PathInv, Balanced, HandsApart, FlightListed, NEW s \in Senders, enqueue_per_peer(s)
  PROVE  Balanced' /\ HandsApart' /\ FlightListed'
<1> DEFINE j == sender[s].key
           q == sender[s].packets
           f == First(s)
<1>1. /\ UNCHANGED <<cb, current, removal, refs, keys, encrypt>> /\ sender[s].pc = "enqueue"
      /\ sender[s] \in SenderTypes /\ refs \in Int /\ HandKeys /\ j \in Nat /\ q \in Seq(Packets)
      /\ txstate \in [Packets -> States] /\ list \in [Packets -> Seq(Packets)]
      /\ tx_queue \in Seq(Slots)
  BY KeyFacts DEF enqueue_per_peer, teardown, workers, Balanced, PathInv, NonceInv, TxTypeOK,
                  FlushInv, FlushTypeOK, SenderTypes
<1>2. f \in Packets /\ In(f, q) /\ Held(s, f)
  BY <1>1, FirstOf DEF PathInv, HoldPCs, Held, Holds
<1>3. Lenders' = Lenders
  BY LendersSame DEF SenderRuns
<1>4. f \notin InFlight
  BY <1>2, HeldNotInFlight
<1>5. Weight("enqueue") = 2 /\ Weight("free") = 2 /\ Weight("link") = 1
      /\ "enqueue" \in KeyPCs /\ "free" \in KeyPCs /\ "link" \notin KeyPCs
      /\ "free" \in SenderPCs /\ "link" \in SenderPCs
  BY DEF Weight, KeyPCs, SenderPCs
<1>6. CASE Goto(s, "free") /\ UNCHANGED <<queues, list>>
  <2>1. UNCHANGED <<tx_queue, txpeeked, crypt_ring, txstate, list>>
    BY <1>6 DEF queues
  <2>2. InFlight' = InFlight
    BY <2>1 DEF InFlight
  <2>3. refs' = refs + Weight("free") - Weight(sender[s].pc)
    BY <1>1, <1>5
  <2>4. Balanced'
    BY <1>1, <1>5, <1>6, <1>3, <2>2, <2>3, GotoBalanced
  <2> QED BY <1>1, <2>1, <2>2, <2>4, FlightSame, HandsSame
<1>7. CASE /\ tx_queue' = Append(tx_queue, [first |-> f, linked |-> FALSE])
           /\ list' = [list EXCEPT ![f] = q]
           /\ txstate' = [txstate EXCEPT ![f] = "UNCRYPTED"]
           /\ Goto(s, "link") /\ UNCHANGED <<txpeeked, crypt_ring>>
  <2> DEFINE r == [sender[s] EXCEPT !.pc = "link"]
  <2>1. r \in SenderTypes /\ r.pc = "link" /\ r.key = j /\ sender' = [sender EXCEPT ![s] = r]
    BY <1>1, <1>5, <1>7 DEF SenderTypes, Goto
  <2> HIDE DEF r
  <2>2. /\ f \in InFlight' /\ InFlight' \in SUBSET Packets
        /\ \A g \in Packets : g # f => (g \in InFlight <=> g \in InFlight')
    BY <1>1, <1>2, <1>7 DEF InFlight
  <2>3. cb[f].keypair = j
    <3>1. /\ q # <<>> /\ Len(q) \in Nat /\ f = q[1]
      BY <1>1, <1>2 DEF First, In
    <3>2. Len(q) >= 1
      BY <1>1, <3>1
    <3>3. 1 \in 1 .. Upto(s)
      BY <1>1, <3>1, <3>2 DEF Upto, UptoOf
    <3> QED BY <1>1, <3>1, <3>3 DEF HandKeys
  <2>4. refs' \in Int /\ PeerRefs'
    <3>1. /\ IsFiniteSet(Packets) /\ InFlight \in SUBSET Packets /\ Cardinality(InFlight) \in Nat
      BY Finite
    <3>2. Cardinality(InFlight') = Cardinality(InFlight) + One(f \in InFlight') - One(f \in InFlight)
      BY <2>2, <3>1, DifferInOne
    <3>3. Cardinality(InFlight)' = Cardinality(InFlight) + 1
      BY <1>4, <2>2, <3>1, <3>2 DEF One
    <3>4. refs' = refs + 1 + One(r.pc # "idle") - One(sender[s].pc # "idle")
                + One(r.pc \in {"enqueue", "free", "kicktx"}) - One(sender[s].pc \in {"enqueue", "free", "kicktx"})
      BY <1>1, <2>1 DEF One
    <3>5. 1 \in Int /\ removal' = removal
      BY <1>1
    <3> QED BY <1>3, <2>1, <3>3, <3>4, <3>5, PeerAccount
  <2>5. ASSUME NEW k \in 1 .. Len(keys)
        PROVE  keys'[k].krefs = (IF k = current' THEN 1 ELSE 0)
                                  + Cardinality(Carriers(k))' + Cardinality(Keepers(k))'
    <3> DEFINE C == {g \in InFlight' : cb[g].keypair = k}
    <3>1. /\ IsFiniteSet(Packets) /\ Cardinality(Carriers(k)) \in Nat /\ keys[k].krefs \in Int
          /\ InFlight \in SUBSET Packets
      BY Finite, KeyFacts
    <3>2. /\ C \in SUBSET Packets /\ Carriers(k) \in SUBSET Packets
          /\ \A g \in Packets : g # f => (g \in Carriers(k) <=> g \in C)
          /\ f \notin Carriers(k) /\ (f \in C <=> j = k)
      BY <1>4, <2>2, <2>3, <3>1 DEF Carriers
    <3>3. Cardinality(C) = Cardinality(Carriers(k)) + One(f \in C) - One(f \in Carriers(k))
      BY <3>1, <3>2, DifferInOne
    <3>4. One(f \in C) = One(j = k) /\ One(f \in Carriers(k)) = 0 /\ One(j = k) \in Int
      BY <3>2 DEF One
    <3>5. C = Carriers(k)'
      BY <1>1 DEF Carriers
    <3> HIDE DEF C
    <3>6. Cardinality(C) = Cardinality(Carriers(k)) + One(j = k)
      BY <3>1, <3>3, <3>4
    <3>7. Cardinality(Carriers(k))' = Cardinality(Carriers(k)) + One(j = k)
      BY <3>5, <3>6
    <3>8. /\ One(r.key = k /\ r.pc \in KeyPCs) = 0
          /\ One(sender[s].key = k /\ sender[s].pc \in KeyPCs) = One(j = k)
      BY <1>1, <1>5, <2>1 DEF One
    <3>9. /\ keys'[k].krefs = keys[k].krefs + One(j = k) + One(r.key = k /\ r.pc \in KeyPCs)
                                 - One(sender[s].key = k /\ sender[s].pc \in KeyPCs)
          /\ current' = current
      BY <1>1, <3>1, <3>4, <3>8
    <3>10. One(j = k) \in Int
      BY <3>4
    <3> QED BY <2>1, <3>7, <3>9, <3>10, KeyAccount
  <2>6. KeyRefs'
    BY <1>1, <2>5 DEF KeyRefs
  <2>7. HandKeys'
    <3>1. UptoOf(r) <= 0 /\ Len(keys) \in Nat
      BY <2>1, KeyFacts DEF UptoOf
    <3>2. /\ cb' = cb /\ Len(keys') \in Nat /\ Len(keys') >= Len(keys) /\ r.key <= Len(keys')
      BY <1>1, <2>1, <3>1 DEF HandKeys
    <3> QED BY <1>1, <2>1, <3>1, <3>2, HandMoves
  <2>8. Balanced'
    BY <2>4, <2>6, <2>7 DEF Balanced
  <2>9. HandsApart'
    <3>1. \A g \in Packets : txstate'[g] = txstate[g] \/ txstate'[g] = "UNCRYPTED"
      BY <1>1, <1>2, <1>7
    <3> QED BY <1>1, <1>7, <3>1, HandsSame
  <2>10. FlightListed'
    <3>1. \A g \in InFlight' : In(g, list'[g])
      BY <1>1, <1>2, <1>7, <2>2 DEF FlightListed
    <3>2. ASSUME NEW g \in Packets,
                 txpeeked = g \/ \E i \in 1 .. Len(tx_queue') : tx_queue'[i].first = g
          PROVE  g \in InFlight'
      <4>1. [first |-> f, linked |-> FALSE] \in Slots /\ [first |-> f, linked |-> FALSE].first = f
        BY <1>2 DEF Slots
      <4>2. /\ Len(tx_queue) \in Nat /\ Len(tx_queue') = Len(tx_queue) + 1
            /\ \A i \in 1 .. Len(tx_queue) : tx_queue'[i] = tx_queue[i]
            /\ tx_queue'[Len(tx_queue) + 1] = [first |-> f, linked |-> FALSE]
        BY <1>1, <1>7, <4>1
      <4>3. Waits(g) \/ g = f
        BY <3>2, <4>1, <4>2 DEF Waits
      <4> QED BY <2>2, <4>3 DEF FlightListed
    <3> QED BY <1>7, <3>1, <3>2 DEF FlightListed, Waits, In
  <2> QED BY <2>8, <2>9, <2>10
<1> QED BY <1>6, <1>7 DEF enqueue_per_peer

(* The peeked list leaves with its references.                               *)
LEMMA SendBalanced ==
  ASSUME PathInv, Balanced, HandsApart, FlightListed, wg_packet_tx_worker
  PROVE  Balanced' /\ HandsApart' /\ FlightListed'
<1> DEFINE f == txpeeked
           j == cb[f].keypair
<1>1. /\ UNCHANGED <<cb, current, removal, sender, list, tx_queue, encrypt, crypt_ring>>
      /\ f # 0 /\ txpeeked' = 0 /\ txstate[f] # "UNCRYPTED"
      /\ txstate' = [txstate EXCEPT ![f] = "gone"]
      /\ keys' = [keys EXCEPT ![j].krefs = @ - 1] /\ refs' = refs - 1
      /\ refs \in Int /\ txstate \in [Packets -> States]
      /\ HandKeys /\ PeerRefs /\ KeyRefs
  BY DEF wg_packet_tx_worker, wg_peer_put, teardown, Balanced, PathInv, FlushInv, FlushTypeOK
<1>2. f \in Packets
  BY <1>1 DEF PathInv, NonceInv, TxTypeOK, Packets, Limits
<1>3. f \in InFlight
  BY <1>2 DEF FlightListed, Waits
<1>4. /\ f \notin InFlight' /\ InFlight' \in SUBSET Packets
      /\ \A g \in Packets : g # f => (g \in InFlight <=> g \in InFlight')
  BY <1>1, <1>2 DEF InFlight
<1>5. j \in 1 .. Len(keys)
  <2>1. Numbered(f)
    BY <1>2, <1>3 DEF FlightListed, Numbered, Gone
  <2> QED BY <1>2, <2>1 DEF PathInv, NonceInv, NumbersFresh
<1>6. /\ Len(keys') = Len(keys)
      /\ \A k \in 1 .. Len(keys) :
            keys'[k].krefs = IF k = j THEN keys[k].krefs - 1 ELSE keys[k].krefs
  <2>1. keys' = [keys EXCEPT ![j] = [keys[j] EXCEPT !.krefs = keys[j].krefs - 1]]
    BY <1>1
  <2>2. [keys[j] EXCEPT !.krefs = keys[j].krefs - 1].krefs = keys[j].krefs - 1
    BY <1>5, KeyFacts, KeyFields
  <2> QED BY <1>5, <2>1, <2>2, KeyCount
<1>7. Busy' = Busy /\ Twice' = Twice /\ Lenders' = Lenders /\ \A k : Keepers(k)' = Keepers(k)
  BY <1>1 DEF Busy, Twice, Lenders, Keepers
<1>8. refs' \in Int /\ PeerRefs'
  <2>1. /\ IsFiniteSet(Packets) /\ InFlight \in SUBSET Packets /\ Cardinality(InFlight) \in Nat
        /\ Cardinality(Busy) \in Nat /\ Cardinality(Twice) \in Nat /\ Cardinality(Lenders) \in Nat
    BY Finite
  <2>2. Cardinality(InFlight') = Cardinality(InFlight) + One(f \in InFlight') - One(f \in InFlight)
    BY <1>4, <2>1, DifferInOne
  <2>3. Cardinality(InFlight') = Cardinality(InFlight) - 1
    BY <1>3, <1>4, <2>1, <2>2 DEF One
  <2> QED BY <1>1, <1>7, <2>1, <2>3 DEF PeerRefs
<1>9. ASSUME NEW k \in 1 .. Len(keys)
      PROVE  keys'[k].krefs = (IF k = current' THEN 1 ELSE 0)
                                + Cardinality(Carriers(k))' + Cardinality(Keepers(k))'
  <2> DEFINE C == {g \in InFlight' : cb[g].keypair = k}
  <2>1. /\ IsFiniteSet(Packets) /\ Cardinality(Carriers(k)) \in Nat /\ keys[k].krefs \in Int
        /\ InFlight \in SUBSET Packets /\ Cardinality(Keepers(k)) \in Nat
    BY Finite, KeyFacts
  <2>2. /\ C \in SUBSET Packets /\ Carriers(k) \in SUBSET Packets
        /\ \A g \in Packets : g # f => (g \in Carriers(k) <=> g \in C)
        /\ f \notin C /\ (f \in Carriers(k) <=> j = k)
    BY <1>3, <1>4, <2>1 DEF Carriers
  <2>3. Cardinality(C) = Cardinality(Carriers(k)) + One(f \in C) - One(f \in Carriers(k))
    BY <2>1, <2>2, DifferInOne
  <2>4. One(f \in Carriers(k)) = (IF k = j THEN 1 ELSE 0) /\ One(f \in C) = 0
    BY <2>2 DEF One
  <2>5. C = Carriers(k)'
    BY <1>1 DEF Carriers
  <2> HIDE DEF C
  <2>6. Cardinality(C) = Cardinality(Carriers(k)) - (IF k = j THEN 1 ELSE 0)
    BY <2>1, <2>3, <2>4
  <2>7. Cardinality(Carriers(k))' = Cardinality(Carriers(k)) - (IF k = j THEN 1 ELSE 0)
        /\ Cardinality(Keepers(k))' = Cardinality(Keepers(k))
    BY <1>7, <2>5, <2>6
  <2>8. keys[k].krefs = (IF k = current THEN 1 ELSE 0)
                           + Cardinality(Carriers(k)) + Cardinality(Keepers(k))
    BY <1>1 DEF KeyRefs
  <2> DEFINE d == IF k = j THEN 1 ELSE 0
             b == IF k = current THEN 1 ELSE 0
  <2>9. /\ keys'[k].krefs = keys[k].krefs - d /\ b = (IF k = current' THEN 1 ELSE 0)
        /\ d \in Int /\ b \in Int
    BY <1>1, <1>6, <2>1
  <2>10. /\ Cardinality(Carriers(k))' = Cardinality(Carriers(k)) - d
         /\ keys[k].krefs = b + Cardinality(Carriers(k)) + Cardinality(Keepers(k))
    BY <2>7, <2>8
  <2> HIDE DEF d, b
  <2>11. keys'[k].krefs = b + Cardinality(Carriers(k))' + Cardinality(Keepers(k))'
    BY <2>1, <2>7, <2>9, <2>10
  <2> QED BY <2>9, <2>11
<1>10. KeyRefs'
  BY <1>6, <1>9 DEF KeyRefs
<1>11. HandKeys'
  BY <1>1, <1>6 DEF HandKeys, Upto
<1>12. HandsApart'
  <2>1. \A g \in Packets : InHands(g) => txstate'[g] = txstate[g]
    BY <1>1, <1>2 DEF HandsApart
  <2> QED BY <1>1, <2>1, HandsSame
<1>13. FlightListed'
  <2>1. \A g \in InFlight' : In(g, list'[g])
    BY <1>1, <1>4 DEF FlightListed
  <2>2. ASSUME NEW i \in 1 .. Len(tx_queue)
        PROVE  tx_queue[i].first \in InFlight /\ tx_queue[i].first # f
    <3>1. tx_queue \in Seq(Slots)
      BY DEF PathInv, NonceInv, TxTypeOK
    <3>2. tx_queue[i].first \in Packets
      <4>1. tx_queue[i] \in Slots
        BY <3>1
      <4> QED BY <4>1 DEF Slots
    <3>3. tx_queue[i].first \in InFlight
      BY <3>2 DEF FlightListed, Waits
    <3>4. /\ order \in Seq(Packets) /\ SentLists >= 0
          /\ f = order[Len(order) - Len(tx_queue)]
          /\ tx_queue[i].first = order[Len(order) - Len(tx_queue) + i]
      BY <1>1 DEF PathInv, OrderInv, QueueIsEnd
    <3>5. Len(order) \in Nat /\ Len(tx_queue) \in Nat
      BY <3>1, <3>4
    <3>6. /\ Len(order) - Len(tx_queue) \in 1 .. Len(order)
          /\ Len(order) - Len(tx_queue) + i \in 1 .. Len(order)
          /\ Len(order) - Len(tx_queue) # Len(order) - Len(tx_queue) + i
      BY <1>1, <3>4, <3>5 DEF SentLists
    <3>7. In(f, list[f])
      BY <1>3 DEF FlightListed
    <3>8. tx_queue[i].first # f
      BY <1>2, <3>4, <3>6, <3>7 DEF PathInv, OrderInv, QueueIsEnd
    <3> QED BY <3>3, <3>8
  <2>3. ASSUME NEW g \in Packets, Waits(g)'
        PROVE  g \in InFlight'
    <3>1. g # 0
      BY DEF Packets
    <3>2. PICK i \in 1 .. Len(tx_queue) : tx_queue[i].first = g
      BY <1>1, <2>3, <3>1 DEF Waits
    <3> QED BY <1>4, <2>2, <3>2
  <2> QED BY <2>1, <2>3 DEF FlightListed, In
<1> QED BY <1>8, <1>10, <1>11, <1>12, <1>13 DEF Balanced

-------------------------------------------------------------------------------
(* The current key is replaced or cleared.                                   *)

(* The reference of the slot goes.                                           *)
LEMMA DropCount ==
  ASSUME PathInv
  PROVE  LET dropped == [k \in DOMAIN keys |->
                           IF k = current THEN [keys[k] EXCEPT !.krefs = @ - 1] ELSE keys[k]]
         IN  \A k \in 1 .. Len(keys) :
                 dropped[k].krefs = IF k = current THEN keys[k].krefs - 1 ELSE keys[k].krefs
<1>1. /\ DOMAIN keys = 1 .. Len(keys) /\ \A k \in 1 .. Len(keys) : keys[k] \in KeyTypes
  BY KeyFacts
<1>2. ASSUME NEW k \in 1 .. Len(keys)
      PROVE  [keys[k] EXCEPT !.krefs = keys[k].krefs - 1].krefs = keys[k].krefs - 1
  BY <1>1, KeyFields
<1> QED BY <1>1, <1>2

(* A new key has the reference of the slot and no other.                     *)
LEMMA NewKeyBalanced ==
  ASSUME PathInv, Balanced, FlightListed, NEW s \in Senders, NewKeypair(s)
  PROVE  Balanced'
<1> DEFINE dropped == [k \in DOMAIN keys |->
                         IF k = current THEN [keys[k] EXCEPT !.krefs = @ - 1] ELSE keys[k]]
           new == [NoKeypair EXCEPT !.krefs = 1]
           N == Len(keys) + 1
<1>1. /\ UNCHANGED <<cb, removal, txstate>> /\ sender[s].pc = "idle" /\ refs' = refs + 1
      /\ keys' = Append(dropped, new) /\ current' = N
      /\ sender[s] \in SenderTypes /\ refs \in Int /\ HandKeys /\ KeyRefs
  BY KeyFacts DEF NewKeypair, queues, teardown, Balanced
<1>2. InFlight' = InFlight /\ Lenders' = Lenders
  BY <1>1, LendersSame DEF InFlight, SenderRuns
<1>3. PICK pc \in {"keepalive", "steal"} : Goto(s, pc)
  BY DEF NewKeypair
<1> DEFINE r == [sender[s] EXCEPT !.pc = pc]
<1>4. /\ r \in SenderTypes /\ r.pc = pc /\ r.key = sender[s].key
      /\ sender' = [sender EXCEPT ![s] = r]
  BY <1>1, <1>3 DEF SenderTypes, SenderPCs, Goto
<1> HIDE DEF r
<1>5. /\ dropped \in Seq(KeyTypes) /\ Len(dropped) = Len(keys) /\ Len(keys) \in Nat
      /\ \A k \in 1 .. Len(keys) :
            dropped[k].krefs = IF k = current THEN keys[k].krefs - 1 ELSE keys[k].krefs
  BY DropCurrent, DropCount DEF PathInv, NonceInv
<1>6. new.krefs = 1 /\ new \in KeyTypes
  <2>1. TRUE \in BOOLEAN /\ 0 \in Nat /\ 0 \in Int /\ 1 \in Int
    OBVIOUS
  <2>2. NoKeypair \in KeyTypes
    BY <2>1 DEF NoKeypair, KeyTypes
  <2>3. ASSUME NEW n \in Int
        PROVE  [NoKeypair EXCEPT !.krefs = n] \in KeyTypes /\ [NoKeypair EXCEPT !.krefs = n].krefs = n
    BY <2>2 DEF KeyTypes
  <2> QED BY <2>1, <2>3
<1> HIDE DEF dropped, new
<1>7. /\ Len(keys') = N
      /\ \A k \in 1 .. Len(keys) :
            keys'[k].krefs = IF k = current THEN keys[k].krefs - 1 ELSE keys[k].krefs
      /\ keys'[N].krefs = 1
  <2>1. /\ Len(keys') = N /\ keys'[N] = new
        /\ \A k \in 1 .. Len(keys) : keys'[k] = dropped[k]
    BY <1>1, <1>5, <1>6
  <2> QED BY <1>5, <1>6, <2>1
<1>8. pc \notin KeyPCs /\ "idle" \notin KeyPCs /\ pc # "idle" /\ pc \notin {"enqueue", "free", "kicktx"}
  BY DEF KeyPCs
<1>9. refs' \in Int /\ PeerRefs'
  <2>1. Cardinality(InFlight) \in Nat
    BY Finite
  <2>2. Cardinality(InFlight)' = Cardinality(InFlight) + 0 /\ 0 \in Int /\ removal' = removal
    BY <1>1, <1>2, <2>1
  <2>3. refs' = refs + 0 + One(r.pc # "idle") - One(sender[s].pc # "idle")
                  + One(r.pc \in {"enqueue", "free", "kicktx"}) - One(sender[s].pc \in {"enqueue", "free", "kicktx"})
    BY <1>1, <1>4, <1>8 DEF One
  <2> QED BY <1>2, <1>4, <2>2, <2>3, PeerAccount
<1>10. \A k : Cardinality(Keepers(k))' = Cardinality(Keepers(k))
  <2> SUFFICES ASSUME NEW k PROVE Cardinality(Keepers(k))' = Cardinality(Keepers(k))
    OBVIOUS
  <2>1. /\ One(r.key = k /\ r.pc \in KeyPCs) = 0
        /\ One(sender[s].key = k /\ sender[s].pc \in KeyPCs) = 0
    BY <1>1, <1>4, <1>8 DEF One
  <2>2. Cardinality(Keepers(k)) \in Nat
    BY Finite
  <2>3. Cardinality(Keepers(k))' = Cardinality(Keepers(k)) + One(r.key = k /\ r.pc \in KeyPCs)
                                   - One(sender[s].key = k /\ sender[s].pc \in KeyPCs)
    BY <1>4, ContextCounts
  <2> QED BY <2>1, <2>2, <2>3
<1>11. \A k : Carriers(k)' = Carriers(k)
  BY <1>1, <1>2 DEF Carriers
<1>12. ASSUME NEW k \in 1 .. Len(keys')
       PROVE  keys'[k].krefs = (IF k = current' THEN 1 ELSE 0)
                                 + Cardinality(Carriers(k))' + Cardinality(Keepers(k))'
  <2>1. CASE k \in 1 .. Len(keys)
    <3>1. keys[k].krefs = (IF k = current THEN 1 ELSE 0)
                             + Cardinality(Carriers(k)) + Cardinality(Keepers(k))
      BY <1>1, <2>1 DEF KeyRefs
    <3>2. Cardinality(Carriers(k)) \in Nat /\ Cardinality(Keepers(k)) \in Nat
      BY Finite
    <3>3. keys'[k].krefs = Cardinality(Carriers(k)) + Cardinality(Keepers(k))
      BY <1>7, <2>1, <3>1, <3>2
    <3>4. k # current'
      BY <1>1, <1>5, <2>1
    <3>5. /\ Cardinality(Carriers(k))' = Cardinality(Carriers(k))
          /\ Cardinality(Keepers(k))' = Cardinality(Keepers(k))
      BY <1>10, <1>11
    <3> QED BY <3>2, <3>3, <3>4, <3>5
  <2>2. CASE k = N
    <3>1. Carriers(k) = {}
      <4> SUFFICES ASSUME NEW f \in InFlight, cb[f].keypair = k PROVE FALSE
        BY DEF Carriers
      <4>1. f \in Packets /\ Numbered(f)
        BY DEF InFlight, FlightListed, Numbered, Gone
      <4>2. cb[f].keypair \in 1 .. Len(keys)
        BY <4>1 DEF PathInv, NonceInv, NumbersFresh
      <4> QED BY <1>5, <2>2, <4>2
    <3>2. Keepers(k) = {}
      <4> SUFFICES ASSUME NEW t \in Senders, sender[t].key = k PROVE FALSE
        BY DEF Keepers
      <4>1. sender[t].key <= Len(keys)
        BY <1>1 DEF HandKeys
      <4> QED BY <1>5, <2>2, <4>1
    <3>3. Cardinality({}) = 0
      BY FS_EmptySet
    <3>4. Carriers(k)' = {} /\ Cardinality(Keepers(k)) = 0
      BY <1>11, <3>1, <3>2, <3>3
    <3>5. Cardinality(Keepers(k))' = 0
      BY <1>10, <3>4
    <3>6. Cardinality(Carriers(k))' = 0
      BY <3>3, <3>4
    <3> QED BY <1>1, <1>7, <2>2, <3>5, <3>6
  <2> QED BY <1>5, <1>7, <2>1, <2>2
<1>13. KeyRefs'
  BY <1>12 DEF KeyRefs
<1>14. HandKeys'
  <2>1. UptoOf(r) <= 0
    BY <1>4, <1>8 DEF UptoOf, KeyPCs
  <2>2. sender[s].key \in Nat /\ sender[s].key <= Len(keys)
    BY <1>1 DEF HandKeys, SenderTypes
  <2>3. cb' = cb /\ Len(keys') \in Nat /\ Len(keys') >= Len(keys) /\ r.key <= Len(keys')
    BY <1>1, <1>4, <1>5, <1>7, <2>2
  <2> QED BY <1>1, <1>4, <2>1, <2>3, HandMoves
<1> QED BY <1>9, <1>13, <1>14 DEF Balanced

(* The keypairs of a dead peer are cleared.                                  *)
LEMMA ClearBalanced ==
  ASSUME PathInv, Balanced, keypairs_clear
  PROVE  Balanced' /\ InFlight' = InFlight
<1> DEFINE dropped == [k \in DOMAIN keys |->
                         IF k = current THEN [keys[k] EXCEPT !.krefs = @ - 1] ELSE keys[k]]
<1>1. /\ UNCHANGED <<cb, txstate, sender, encrypt, refs>> /\ removal = "grace" /\ removal' = "flush1"
      /\ keys' = dropped /\ current' = 0
      /\ refs \in Int /\ HandKeys /\ KeyRefs /\ PeerRefs
  BY DEF keypairs_clear, queues, workers, Balanced
<1>2. InFlight' = InFlight
  BY <1>1 DEF InFlight
<1>3. /\ Len(keys') = Len(keys) /\ Len(keys) \in Nat
      /\ \A k \in 1 .. Len(keys) :
            keys'[k].krefs = IF k = current THEN keys[k].krefs - 1 ELSE keys[k].krefs
  BY <1>1, DropCurrent, DropCount DEF PathInv, NonceInv
<1>4. /\ Busy' = Busy /\ Twice' = Twice /\ Lenders' = Lenders
      /\ \A k : Carriers(k)' = Carriers(k) /\ Keepers(k)' = Keepers(k)
  BY <1>1, <1>2 DEF Busy, Twice, Lenders, Carriers, Keepers
<1>5. PeerRefs'
  BY <1>1, <1>2, <1>4 DEF PeerRefs
<1>6. ASSUME NEW k \in 1 .. Len(keys)
      PROVE  keys'[k].krefs = (IF k = current' THEN 1 ELSE 0)
                                + Cardinality(Carriers(k))' + Cardinality(Keepers(k))'
  <2>1. keys[k].krefs = (IF k = current THEN 1 ELSE 0)
                           + Cardinality(Carriers(k)) + Cardinality(Keepers(k))
    BY <1>1 DEF KeyRefs
  <2>2. Cardinality(Carriers(k)) \in Nat /\ Cardinality(Keepers(k)) \in Nat
    BY Finite
  <2>3. keys'[k].krefs = Cardinality(Carriers(k)) + Cardinality(Keepers(k)) /\ k # current'
    BY <1>1, <1>3, <2>1, <2>2
  <2>4. /\ Cardinality(Carriers(k))' = Cardinality(Carriers(k))
        /\ Cardinality(Keepers(k))' = Cardinality(Keepers(k))
    BY <1>4
  <2> QED BY <2>2, <2>3, <2>4
<1>7. KeyRefs'
  BY <1>3, <1>6 DEF KeyRefs
<1>8. HandKeys'
  BY <1>1, <1>3 DEF HandKeys, Upto
<1> QED BY <1>1, <1>2, <1>5, <1>7, <1>8 DEF Balanced

(* The removal gives its reference back.                                     *)
LEMMA RemoveBalanced ==
  ASSUME PathInv, Balanced, peer_remove_after_dead
  PROVE  Balanced' /\ InFlight' = InFlight
<1>1. /\ UNCHANGED <<cb, txstate, sender, encrypt, keys, current>> /\ removal = "flush2" /\ removal' = "removed"
      /\ refs' = refs - 1 /\ refs \in Int /\ HandKeys /\ KeyRefs /\ PeerRefs
  BY DEF peer_remove_after_dead, queues, workers, Balanced, wg_peer_put
<1>2. InFlight' = InFlight
  BY <1>1 DEF InFlight
<1>3. /\ Busy' = Busy /\ Twice' = Twice /\ Lenders' = Lenders
      /\ \A k : Carriers(k)' = Carriers(k) /\ Keepers(k)' = Keepers(k)
  BY <1>1, <1>2 DEF Busy, Twice, Lenders, Carriers, Keepers
<1>4. PeerRefs'
  <2>1. Cardinality(InFlight) \in Nat /\ Cardinality(Busy) \in Nat /\ Cardinality(Twice) \in Nat
        /\ Cardinality(Lenders) \in Nat
    BY Finite
  <2> QED BY <1>1, <1>2, <1>3, <2>1 DEF PeerRefs
<1>5. KeyRefs'
  BY <1>1, <1>3 DEF KeyRefs
<1>6. HandKeys'
  BY <1>1 DEF HandKeys, Upto
<1> QED BY <1>1, <1>2, <1>4, <1>5, <1>6 DEF Balanced

-------------------------------------------------------------------------------
(* Every step, and the theorem.                                              *)

(* At the start there is one reference, that of the device.                  *)
LEMMA RefInit ==
  ASSUME Limits, TxInit
  PROVE  RefInv
<1>1. /\ \A s \in Senders : sender[s] = Idle
      /\ \A c \in EncryptCpus : encrypt[c].pc = "idle"
      /\ crypt_ring = <<>> /\ tx_queue = <<>> /\ txpeeked = 0 /\ removal = "no" /\ refs = 1
      /\ keys = <<>> /\ \A p \in Packets : txstate[p] = "none"
  BY DEF TxInit, Quiet
<1>2. Idle.pc = "idle" /\ Idle.key = 0 /\ UptoOf(Idle) = 0
  BY DEF Idle, UptoOf
<1>3. InFlight = {} /\ Busy = {} /\ Twice = {} /\ Lenders = {}
  BY <1>1, <1>2 DEF InFlight, Busy, Twice, Lenders
<1>4. HandsApart
  BY <1>1 DEF HandsApart, NoRepeat, InHands, InHand, In
<1>5. FlightListed
  <2>1. \A f \in Packets : ~ Waits(f)
    BY <1>1 DEF Waits, Packets
  <2> QED BY <1>3, <2>1 DEF FlightListed
<1>6. HandKeys /\ KeyRefs
  BY <1>1, <1>2 DEF HandKeys, Upto, KeyRefs
<1>7. PeerRefs
  BY <1>1, <1>3, FS_EmptySet DEF PeerRefs
<1> QED BY <1>1, <1>4, <1>5, <1>6, <1>7 DEF Balanced, RefInv

(* The steps of a context.                                                   *)
LEMMA RefContext ==
  ASSUME PathInv, HandsApart, FlightListed, Balanced, NEW s \in Senders,
         wg_xmit(s) \/ wg_packet_send_keepalive(s) \/ NewKeypair(s) \/ SenderRuns(s)
  PROVE  HandsApart' /\ FlightListed' /\ Balanced'
<1>1. CASE \/ wg_xmit(s) \/ wg_packet_send_keepalive(s) \/ keepalive_queue(s)
           \/ wg_packet_send_staged_packets(s) \/ put_back(s) \/ wg_packet_create_data(s)
           \/ NewKeypair(s) \/ keypair_get(s) \/ assign_nonce(s) \/ create_data_err(s)
  <2>1. UNCHANGED <<list, tx_queue, txpeeked, crypt_ring, txstate, encrypt>>
    BY <1>1 DEF wg_xmit, wg_packet_send_keepalive, keepalive_queue, wg_packet_send_staged_packets,
                put_back, wg_packet_create_data, NewKeypair, keypair_get, assign_nonce,
                create_data_err, queues, workers
  <2>2. InFlight' = InFlight
    BY <2>1 DEF InFlight
  <2>3. HandsApart' /\ FlightListed'
    BY <2>1, <2>2, HandsSame, FlightSame
  <2>4. Balanced'
    BY <1>1, PlainContextStep, NewKeyBalanced, KeyGetBalanced, NonceBalanced, FreeBalanced
  <2> QED BY <2>3, <2>4
<1>2. CASE queue_encrypt_work(s) \/ queue_transmit_work(s)
  <2>1. /\ UNCHANGED <<list, tx_queue, txpeeked, crypt_ring, txstate>>
        /\ encrypt \in [EncryptCpus -> WorkTypes]
    BY <1>2 DEF queue_encrypt_work, queue_transmit_work, queues, PathInv, FlushInv, FlushTypeOK
  <2>2. InFlight' = InFlight
    BY <2>1 DEF InFlight
  <2>3. \A d \in EncryptCpus : /\ encrypt'[d].pc = "state" <=> encrypt[d].pc = "state"
                               /\ encrypt[d].pc = "state" => encrypt'[d].first = encrypt[d].first
    BY <1>2, <2>1 DEF queue_encrypt_work, queue_transmit_work, WorkTypes
  <2>4. HandsApart' /\ FlightListed'
    BY <2>1, <2>2, <2>3, HandsSame, FlightSame
  <2> QED BY <1>2, <2>4, PlainContextStep
<1>3. CASE queue_link(s)
  <2>1. /\ UNCHANGED <<list, txpeeked, crypt_ring, txstate, encrypt>>
        /\ tx_queue \in Seq(Slots)
    BY <1>3 DEF queue_link, workers, PathInv, NonceInv, TxTypeOK
  <2>2. InFlight' = InFlight
    BY <2>1 DEF InFlight
  <2>3. HandsApart'
    BY <2>1, HandsSame
  <2>4. /\ Len(tx_queue') = Len(tx_queue)
        /\ \A i \in 1 .. Len(tx_queue) : tx_queue'[i].first = tx_queue[i].first
    <3>1. /\ DOMAIN tx_queue = 1 .. Len(tx_queue) /\ Len(tx_queue) \in Nat
          /\ \A i \in 1 .. Len(tx_queue) : tx_queue[i] \in Slots
      BY <2>1
    <3>2. tx_queue' = [i \in 1 .. Len(tx_queue) |->
                         IF tx_queue[i].first = First(s) THEN [tx_queue[i] EXCEPT !.linked = TRUE]
                         ELSE tx_queue[i]]
      BY <1>3, <3>1 DEF queue_link
    <3>3. \A i \in 1 .. Len(tx_queue) : tx_queue'[i].first = tx_queue[i].first
      BY <3>1, <3>2 DEF Slots
    <3>4. Len(tx_queue') = Len(tx_queue)
      BY <3>1, <3>2
    <3> QED BY <3>3, <3>4
  <2>5. \A f : Waits(f)' <=> Waits(f)
    BY <2>1, <2>4 DEF Waits
  <2>6. FlightListed'
    <3>1. \A f \in InFlight' : In(f, list'[f])
      BY <2>1, <2>2 DEF FlightListed
    <3>2. \A f \in Packets : Waits(f)' => f \in InFlight'
      BY <2>2, <2>5 DEF FlightListed
    <3> QED BY <3>1, <3>2 DEF FlightListed, In
  <2> QED BY <1>3, <2>3, <2>6, PlainContextStep
<1>4. CASE enqueue_per_peer(s)
  BY <1>4, EnqueueBalanced
<1>5. CASE enqueue_per_device(s)
  <2>1. HandsApart' /\ Balanced' /\ InFlight' = InFlight
    BY <1>5, HandsProduce, ProduceBalanced
  <2>2. UNCHANGED <<list, tx_queue, txpeeked>>
    BY <1>5 DEF enqueue_per_device
  <2> QED BY <2>1, <2>2, FlightSame
<1> QED BY <1>1, <1>2, <1>3, <1>4, <1>5 DEF SenderRuns

(* An encrypt worker takes a reference of its own, or gives it back.         *)
LEMMA LenderBalanced ==
  ASSUME PathInv, Balanced, NEW c \in EncryptCpus,
         UNCHANGED <<sender, keys, current, cb, removal>>, InFlight' = InFlight,
         \A d \in EncryptCpus : d # c => encrypt'[d] = encrypt[d],
         refs' = refs + One(encrypt'[c].pc \in {"transmit", "put"})
                   - One(encrypt[c].pc \in {"transmit", "put"})
  PROVE  Balanced'
<1>1. Busy' = Busy /\ Twice' = Twice /\ \A k : Carriers(k)' = Carriers(k) /\ Keepers(k)' = Keepers(k)
  BY DEF Busy, Twice, Carriers, Keepers
<1>2. HandKeys' /\ KeyRefs' /\ refs \in Int /\ PeerRefs
  BY <1>1 DEF Balanced, HandKeys, Upto, KeyRefs
<1>3. /\ One(encrypt'[c].pc \in {"transmit", "put"}) \in Int
      /\ One(encrypt[c].pc \in {"transmit", "put"}) \in Int
  BY DEF One
<1>4. Cardinality(Lenders)' = Cardinality(Lenders) + One(encrypt'[c].pc \in {"transmit", "put"})
                                - One(encrypt[c].pc \in {"transmit", "put"})
  <2> DEFINE L == {d \in EncryptCpus : encrypt'[d].pc \in {"transmit", "put"}}
  <2>1. /\ Lenders \in SUBSET EncryptCpus /\ L \in SUBSET EncryptCpus /\ IsFiniteSet(EncryptCpus)
        /\ \A d \in EncryptCpus : d # c => (d \in Lenders <=> d \in L)
        /\ c \in Lenders <=> encrypt[c].pc \in {"transmit", "put"}
        /\ c \in L <=> encrypt'[c].pc \in {"transmit", "put"}
    BY DEF Lenders, PathInv
  <2>2. Cardinality(L) = Cardinality(Lenders) + One(c \in L) - One(c \in Lenders)
    BY <2>1, DifferInOne
  <2>3. /\ One(c \in L) = One(encrypt'[c].pc \in {"transmit", "put"})
        /\ One(c \in Lenders) = One(encrypt[c].pc \in {"transmit", "put"})
    BY <2>1 DEF One
  <2> QED BY <2>2, <2>3 DEF Lenders
<1>5. /\ Cardinality(InFlight) \in Nat /\ Cardinality(Busy) \in Nat /\ Cardinality(Twice) \in Nat
      /\ Cardinality(Lenders) \in Nat
  BY Finite
<1>6. refs' \in Int
  BY <1>2, <1>3
<1>7. PeerRefs'
  BY <1>1, <1>2, <1>3, <1>4, <1>5 DEF PeerRefs
<1> QED BY <1>2, <1>6, <1>7 DEF Balanced

(* The steps of the workers.                                                 *)
LEMMA RefWorkers ==
  ASSUME PathInv, HandsApart, FlightListed, Balanced,
         (\E c \in EncryptCpus : EncryptRuns(c)) \/ TransmitRuns
  PROVE  HandsApart' /\ FlightListed' /\ Balanced'
<1>1. encrypt \in [EncryptCpus -> WorkTypes]
  BY DEF PathInv, FlushInv, FlushTypeOK
<1>2. ASSUME NEW c \in EncryptCpus, wg_packet_encrypt_worker(c)
      PROVE  HandsApart' /\ FlightListed' /\ Balanced'
  <2>1. UNCHANGED <<list, tx_queue, txpeeked, txstate, sender, keys, current, cb, refs, removal>>
    BY <1>2 DEF wg_packet_encrypt_worker
  <2>2. Lenders' = Lenders
    BY <1>1, <1>2 DEF wg_packet_encrypt_worker, Lenders, WorkTypes
  <2>3. InFlight' = InFlight
    BY <2>1 DEF InFlight
  <2> QED BY <1>2, <2>1, <2>3, <2>2, HandsTake, FlightSame, OthersBalanced
<1>3. ASSUME NEW c \in EncryptCpus, set_state(c)
      PROVE  HandsApart' /\ FlightListed' /\ Balanced'
  <2>1. UNCHANGED <<list, tx_queue, txpeeked, sender, keys, current, cb, removal>>
    BY <1>3 DEF set_state, teardown
  <2>2. HandsApart' /\ InFlight' = InFlight
    BY <1>3, HandsFinish
  <2>3. /\ encrypt[c].pc = "state" /\ encrypt'[c].pc = "transmit" /\ refs' = refs + 1
        /\ \A d \in EncryptCpus : d # c => encrypt'[d] = encrypt[d]
    BY <1>1, <1>3 DEF set_state, WorkTypes
  <2>4. One("transmit" \in {"transmit", "put"}) = 1 /\ One("state" \in {"transmit", "put"}) = 0 /\ refs \in Int
    BY DEF One, Balanced
  <2> QED BY <2>1, <2>2, <2>3, <2>4, FlightSame, LenderBalanced
<1>4. ASSUME \/ \E c \in EncryptCpus : encrypt_start(c) \/ wake_transmit(c)
             \/ transmit_start \/ transmit_stop \/ transmit_return
      PROVE  HandsApart' /\ FlightListed' /\ Balanced'
  <2>1. UNCHANGED <<list, tx_queue, txpeeked, txstate, crypt_ring, sender, keys, current, cb, refs, removal>>
    BY <1>4 DEF encrypt_start, wake_transmit, transmit_start, transmit_stop, transmit_return, queues,
                teardown
  <2>2. InFlight' = InFlight
    BY <2>1 DEF InFlight
  <2>3. \A d \in EncryptCpus :
          /\ encrypt'[d].pc = "state" <=> encrypt[d].pc = "state"
          /\ encrypt[d].pc = "state" => encrypt'[d].first = encrypt[d].first
          /\ encrypt'[d].pc \in {"transmit", "put"} <=> encrypt[d].pc \in {"transmit", "put"}
    <3>1. ASSUME NEW c \in EncryptCpus, encrypt_start(c) \/ wake_transmit(c)
          PROVE  /\ encrypt[c].pc # "state" /\ encrypt'[c].pc \in {"consume", "put"}
                 /\ encrypt'[c].pc \in {"transmit", "put"} <=> encrypt[c].pc \in {"transmit", "put"}
                 /\ \A d \in EncryptCpus : d # c => encrypt'[d] = encrypt[d]
      BY <1>1, <3>1 DEF encrypt_start, wake_transmit, WorkTypes, Quiet
    <3>2. ASSUME transmit_start \/ transmit_stop \/ transmit_return
          PROVE  encrypt' = encrypt
      BY <3>2 DEF transmit_start, transmit_stop, transmit_return
    <3>3. CASE transmit_start \/ transmit_stop \/ transmit_return
      BY <3>2, <3>3
    <3>4. CASE \E c \in EncryptCpus : encrypt_start(c) \/ wake_transmit(c)
      <4>1. PICK c \in EncryptCpus : encrypt_start(c) \/ wake_transmit(c)
        BY <3>4
      <4>2. /\ encrypt[c].pc # "state" /\ encrypt'[c].pc # "state"
            /\ encrypt'[c].pc \in {"transmit", "put"} <=> encrypt[c].pc \in {"transmit", "put"}
            /\ \A d \in EncryptCpus : d # c => encrypt'[d] = encrypt[d]
        BY <3>1, <4>1
      <4> QED BY <4>2
    <3> QED BY <1>4, <3>3, <3>4
  <2>4. Lenders' = Lenders
    BY <2>3 DEF Lenders
  <2> QED BY <2>1, <2>2, <2>3, <2>4, HandsSame, FlightSame, OthersBalanced
<1>5. ASSUME wg_prev_queue_peek
      PROVE  HandsApart' /\ FlightListed' /\ Balanced'
  <2>1. /\ UNCHANGED <<list, txstate, crypt_ring, encrypt, sender, keys, current, cb, refs, removal>>
        /\ tx_queue \in Seq(Slots) /\ tx_queue # <<>>
        /\ txpeeked' = Head(tx_queue).first /\ tx_queue' = Tail(tx_queue)
    BY <1>5 DEF wg_prev_queue_peek, Reachable, workers, teardown, PathInv, NonceInv, TxTypeOK
  <2>2. InFlight' = InFlight
    BY <2>1 DEF InFlight
  <2>3. /\ Head(tx_queue) = tx_queue[1] /\ Len(tx_queue) \in Nat /\ Len(tx_queue) >= 1
        /\ Len(tx_queue') = Len(tx_queue) - 1
        /\ \A i \in 1 .. Len(tx_queue') : tx_queue'[i] = tx_queue[i + 1]
    BY <2>1
  <2>4. \A f : Waits(f)' => Waits(f)
    BY <2>1, <2>3 DEF Waits
  <2>5. FlightListed'
    <3>1. \A f \in InFlight' : In(f, list'[f])
      BY <2>1, <2>2 DEF FlightListed
    <3>2. \A f \in Packets : Waits(f)' => f \in InFlight'
      BY <2>2, <2>4 DEF FlightListed
    <3> QED BY <3>1, <3>2 DEF FlightListed, In
  <2>6. Lenders' = Lenders
    BY <2>1 DEF Lenders
  <2> QED BY <2>1, <2>2, <2>5, <2>6, HandsSame, OthersBalanced
<1>6. ASSUME NEW c \in EncryptCpus, encrypt_put(c)
      PROVE  HandsApart' /\ FlightListed' /\ Balanced'
  <2>1. UNCHANGED <<list, tx_queue, txpeeked, txstate, crypt_ring, sender, keys, current, cb, removal>>
    BY <1>6 DEF encrypt_put, queues, teardown
  <2>2. InFlight' = InFlight
    BY <2>1 DEF InFlight
  <2>3. /\ encrypt[c].pc = "put" /\ encrypt'[c].pc = "consume" /\ refs' = refs - 1
        /\ \A d \in EncryptCpus : d # c => encrypt'[d] = encrypt[d]
    BY <1>1, <1>6 DEF encrypt_put, wg_peer_put, WorkTypes
  <2>4. One("consume" \in {"transmit", "put"}) = 0 /\ One("put" \in {"transmit", "put"}) = 1 /\ refs \in Int
    BY DEF One, Balanced
  <2>5. HandsApart' /\ FlightListed'
    BY <2>1, <2>2, <2>3, HandsSame, FlightSame
  <2> QED BY <2>1, <2>2, <2>3, <2>4, <2>5, LenderBalanced
<1> QED BY <1>2, <1>3, <1>4, <1>5, <1>6, SendBalanced DEF EncryptRuns, TransmitRuns

(* The steps of the removal.                                                 *)
LEMMA RefRemoval ==
  ASSUME PathInv, HandsApart, FlightListed, Balanced,
         peer_make_dead \/ RemovalRuns \/ UNCHANGED tx_vars
  PROVE  HandsApart' /\ FlightListed' /\ Balanced'
<1>1. UNCHANGED <<list, tx_queue, txpeeked, crypt_ring, txstate, encrypt>>
  BY DEF peer_make_dead, RemovalRuns, keypairs_clear, flush_again, peer_remove_after_dead, queues,
         workers, tx_vars
<1>2. InFlight' = InFlight
  BY <1>1 DEF InFlight
<1>3. HandsApart' /\ FlightListed'
  BY <1>1, <1>2, HandsSame, FlightSame
<1>4. ASSUME peer_make_dead \/ flush_again \/ UNCHANGED tx_vars
      PROVE  Balanced'
  <2>1. /\ UNCHANGED <<sender, keys, current, cb, refs>>
        /\ removal' = "removed" <=> removal = "removed"
    BY <1>4 DEF peer_make_dead, flush_again, tx_vars
  <2>2. Lenders' = Lenders
    BY <1>1 DEF Lenders
  <2> QED BY <1>2, <2>1, <2>2, OthersBalanced
<1> QED BY <1>3, <1>4, ClearBalanced, RemoveBalanced DEF RemovalRuns

(* Every step keeps it.                                                      *)
LEMMA RefNext ==
  ASSUME Names, PathInv, RefInv, [TxNext]_tx_vars
  PROVE  (PathInv /\ RefInv)'
<1>1. NonceInv /\ FlushInv /\ OrderInv /\ IsFiniteSet(Senders) /\ IsFiniteSet(EncryptCpus)
  BY DEF PathInv
<1>2. NonceInv' /\ FlushInv' /\ OrderInv'
  BY <1>1, NonceNext, FlushNext, OrderNext
<1>3. HandsApart' /\ FlightListed' /\ Balanced'
  BY RefContext, RefWorkers, RefRemoval DEF TxNext, RefInv
<1> QED BY <1>1, <1>2, <1>3 DEF PathInv, RefInv

(* For any number of contexts, workers, packets and keys, every keypair and  *)
(* the peer have as many references as there are lists in flight, contexts   *)
(* at work and slots that point to them: none is freed while something       *)
(* points to it, and none is kept when nothing does (wg_peer_put and         *)
(* wg_noise_keypair_put on every path of send.c).                            *)
THEOREM ReferencesAccounted ==
  Limits /\ Names /\ IsFiniteSet(Senders) /\ IsFiniteSet(EncryptCpus) => (TxSpec => []ReferencesBalance)
<1> SUFFICES ASSUME Limits, Names, IsFiniteSet(Senders), IsFiniteSet(EncryptCpus)
             PROVE  TxSpec => []ReferencesBalance
  OBVIOUS
<1>1. TxInit => PathInv /\ RefInv
  BY NonceInit, FlushInit, OrderInit, RefInit DEF PathInv
<1>2. PathInv /\ RefInv /\ [TxNext]_tx_vars => (PathInv /\ RefInv)'
  BY RefNext
<1>3. PathInv /\ RefInv => ReferencesBalance
  BY RefInvImplies
<1> QED BY <1>1, <1>2, <1>3, PTL DEF TxSpec

(* The four together, for any number of contexts, packets and keys: what a   *)
(* receiver relies on (fresh nonces, the order of the queue) and what the    *)
(* removal of the peer relies on (nothing left after two flushes, references *)
(* that are exactly those in use) hold in one and the same execution.        *)
THEOREM SendingCorrect ==
  Limits /\ Names /\ IsFiniteSet(Senders) /\ IsFiniteSet(EncryptCpus) => (TxSpec => []SendingOrderAndReferences)
<1> SUFFICES ASSUME Limits, Names, IsFiniteSet(Senders), IsFiniteSet(EncryptCpus)
             PROVE  TxSpec => []SendingOrderAndReferences
  OBVIOUS
<1>1. TxSpec => []NoncesAreFresh
  BY NoncesNeverReused
<1>2. TxSpec => []SentInQueueOrder
  BY SentInOrder
<1>3. TxSpec => []TwoFlushesSuffice
  BY TwoGenerationsSuffice
<1>4. TxSpec => []ReferencesBalance
  BY ReferencesAccounted
<1>5. NoncesAreFresh /\ SentInQueueOrder /\ TwoFlushesSuffice /\ ReferencesBalance
        => SendingOrderAndReferences
  BY DEF SendingOrderAndReferences
<1> QED BY <1>1, <1>2, <1>3, <1>4, <1>5, PTL

===============================================================================
