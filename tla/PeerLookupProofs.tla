--------------------------- MODULE PeerLookupProofs ---------------------------
(***************************************************************************)
(* Lookups that walk a hash chain without a lock, for any number of peers,  *)
(* keypairs, readers, indices and buckets: an index names one entry, a      *)
(* lookup finds an entry that stays where it is, and returns none that was  *)
(* not there.                                                               *)
(*                                                                          *)
(* Which entries a reader will still meet is said without recursion: e lies *)
(* ahead of a if every set that holds a and, with an entry, its successor,  *)
(* also holds e.  A deletion keeps its own link and closes the gap behind   *)
(* it, so that nothing but the deleted entry leaves what lies ahead of a    *)
(* reader, even of one that stands on it.                                   *)
(***************************************************************************)
EXTENDS PeerLookup, TLAPS

Closed(S, next) == \A n \in S : next[n] # NULL => next[n] \in S

\* Following next from a leads to e.
Ahead(next, a, e) ==
    a \in Entries /\ e \in Entries
      /\ \A S \in SUBSET Entries : a \in S /\ Closed(S, next) => e \in S

Links == [Entries -> Entries \cup {NULL}]

\* The chain an entry belongs to.
BucketOf(e) == IF e[2] = "peer" THEN PUBKEYS ELSE index_bucket(index[e])

ListTypes ==
    /\ first \in [Buckets -> Entries \cup {NULL}] /\ link \in Links
    /\ hashed \in [Entries -> BOOLEAN]

\* What may be looked up, and the lookups.
Wanted == Indices \cup {PubkeyOf(p) : p \in PlPeers} \cup {NULL}
Lookups ==
    [pc : {"idle", "walk", "done"}, at : Entries \cup {NULL}, want : Wanted,
     mask : SUBSET {"handshake", "keypair", "peer"}, found : Entries \cup {NULL},
     stable : SUBSET Entries, seen : SUBSET (Entries \cup {NULL}), moved : BOOLEAN]

PlTypeOK ==
    /\ ListTypes
    /\ index \in [Entries -> Wanted]
    /\ inserting \in [PlPeers -> {"no", "search", "lock"}]
    /\ reader \in [Readers -> Lookups]

\* The chains hold only entries that are hashed, all of them, and have no cycle.
ChainInv ==
    /\ \A b \in Buckets : first[b] # NULL => hashed[first[b]]
    /\ \A n \in Entries : hashed[n] /\ link[n] # NULL =>
          hashed[link[n]] /\ ~Ahead(link, link[n], n)
    /\ \A e \in Entries : hashed[e] => Ahead(link, first[BucketOf(e)], e)

\* What an index may be, and that it is only written while the entry is out.
IndexInv ==
    /\ IndexUnique
    /\ \A p \in PlPeers : inserting[p] # "no" => ~hashed[handshake(p)]
    /\ \A p \in PlPeers : inserting[p] = "lock" => index[handshake(p)] \in Indices
    /\ \A p \in PlPeers : index[peer(p)] = PubkeyOf(p)
    /\ \A e \in Entries : e[2] # "peer" =>
          index[e] \in Indices \cup {NULL} /\ (hashed[e] => index[e] \in Indices)

\* All that is hashed under the index a reader wants, and all it may meet with
\* that index but a handshake that is being inserted, it has noticed.
SeenInv(r) ==
    /\ reader[r].want # NULL
    /\ \A e \in Entries : hashed[e] /\ index[e] = reader[r].want => e \in reader[r].seen
    /\ \A n \in Entries : Ahead(link, reader[r].at, n) /\ index[n] = reader[r].want
                            => n \in reader[r].seen \/ n[2] = "handshake"

\* As long as nothing moved, an entry that stays lies ahead of the reader, and
\* no other under the same index does.
StableInv(r) ==
    ~reader[r].moved => \A e \in reader[r].stable :
        /\ hashed[e] /\ index[e] = reader[r].want
        /\ Ahead(link, reader[r].at, e)
        /\ \A n \in Entries : Ahead(link, reader[r].at, n) /\ index[n] = reader[r].want => n = e

WalkInv == \A r \in Readers : reader[r].pc = "walk" => SeenInv(r) /\ StableInv(r)

PlInv == PlTypeOK /\ ChainInv /\ IndexInv /\ WalkInv /\ StableEntryFound /\ FoundWasThere

-------------------------------------------------------------------------------
(* Entries, indices and buckets are told apart by what their tuples hold.    *)
LEMMA EntryFacts ==
  /\ NULL \notin Entries
  /\ \A p \in PlPeers : /\ handshake(p) \in Entries /\ handshake(p)[1] = p
                        /\ handshake(p)[2] = "handshake"
                        /\ peer(p) \in Entries /\ peer(p)[1] = p /\ peer(p)[2] = "peer"
  /\ \A p \in PlPeers : \A k \in Keypairs[p] :
        keypair(p, k) \in Entries /\ keypair(p, k)[1] = p /\ keypair(p, k)[2] = "keypair"
  /\ \A e \in Entries : /\ e[2] \in {"handshake", "keypair", "peer"} /\ e[1] \in PlPeers
                        /\ e[2] = "peer" => e = peer(e[1])
                        /\ e[2] = "handshake" => e = handshake(e[1])
<1>1. \A p \in PlPeers : /\ handshake(p) \in Entries /\ handshake(p)[1] = p
                         /\ handshake(p)[2] = "handshake"
                         /\ peer(p) \in Entries /\ peer(p)[1] = p /\ peer(p)[2] = "peer"
  BY DEF Entries, handshake, peer
<1>2. \A p \in PlPeers : \A k \in Keypairs[p] :
        keypair(p, k) \in Entries /\ keypair(p, k)[1] = p /\ keypair(p, k)[2] = "keypair"
  BY DEF Entries, keypair
<1>3. \A e \in Entries : \/ \E p \in PlPeers : e = handshake(p) \/ e = peer(p)
                         \/ \E p \in PlPeers : \E k \in Keypairs[p] : e = keypair(p, k)
  BY DEF Entries
<1>4. \A p, k : handshake(p) # NULL /\ peer(p) # NULL /\ keypair(p, k) # NULL
  BY DEF handshake, peer, keypair, NULL
<1> QED BY <1>1, <1>2, <1>3, <1>4

(* A public key is not a random index, and peers have different ones.        *)
LEMMA IndexFacts ==
  /\ NULL \notin Indices
  /\ \A p : PubkeyOf(p) \notin Indices /\ PubkeyOf(p) # NULL
  /\ \A p, q : PubkeyOf(p) = PubkeyOf(q) => p = q
  /\ PUBKEYS \in Buckets /\ \A i \in Indices : index_bucket(i) \in Buckets
<1>1. NULL \notin Indices
  BY DEF NULL, Indices
<1>2. \A p : PubkeyOf(p) \notin Indices /\ PubkeyOf(p) # NULL
  BY DEF PubkeyOf, NULL, Indices
<1>3. \A p, q : PubkeyOf(p) = PubkeyOf(q) => p = q
  BY DEF PubkeyOf
<1>4. PUBKEYS \in Buckets /\ \A i \in Indices : index_bucket(i) \in Buckets
  BY DEF Buckets
<1> QED BY <1>1, <1>2, <1>3, <1>4

-------------------------------------------------------------------------------
(* What lies ahead.                                                          *)

(* An entry lies ahead of itself.                                            *)
LEMMA AheadSelf ==
  ASSUME NEW next, NEW a \in Entries
  PROVE  Ahead(next, a, a)
BY DEF Ahead

(* What lies ahead of the successor lies ahead.                              *)
LEMMA AheadBack ==
  ASSUME NEW next, NEW a \in Entries, next[a] # NULL, NEW n, Ahead(next, next[a], n)
  PROVE  Ahead(next, a, n)
BY DEF Ahead, Closed

(* What lies ahead is the entry itself or lies ahead of its successor.       *)
LEMMA AheadStep ==
  ASSUME NEW next \in Links, NEW a, NEW e, Ahead(next, a, e), e # a
  PROVE  next[a] # NULL /\ Ahead(next, next[a], e)
<1>1. next[a] # NULL
  <2>1. SUFFICES ASSUME next[a] = NULL PROVE FALSE
    OBVIOUS
  <2>2. {a} \in SUBSET Entries /\ Closed({a}, next)
    BY <2>1 DEF Ahead, Closed
  <2> QED BY <2>2 DEF Ahead
<1>2. ASSUME NEW S \in SUBSET Entries, next[a] \in S, Closed(S, next) PROVE e \in S
  <2>1. S \cup {a} \in SUBSET Entries /\ Closed(S \cup {a}, next)
    BY <1>2 DEF Ahead, Closed
  <2> QED BY <2>1 DEF Ahead
<1>3. next[a] \in Entries /\ e \in Entries
  BY <1>1 DEF Ahead, Links
<1> QED BY <1>1, <1>2, <1>3 DEF Ahead

(* A closed set holds all that lies ahead of its members.                    *)
LEMMA AheadIn ==
  ASSUME NEW next, NEW S \in SUBSET Entries, Closed(S, next), NEW a \in S, NEW e,
         Ahead(next, a, e)
  PROVE  e \in S
BY DEF Ahead

(* All that lies ahead of an entry is a closed set.                          *)
LEMMA AheadClosed ==
  ASSUME NEW next \in Links, NEW a
  PROVE  Closed({n \in Entries : Ahead(next, a, n)}, next)
<1> SUFFICES ASSUME NEW n \in Entries, Ahead(next, a, n), next[n] # NULL
             PROVE  next[n] \in Entries /\ Ahead(next, a, next[n])
  BY DEF Closed
<1>1. next[n] \in Entries
  BY DEF Links
<1> QED BY <1>1 DEF Ahead, Closed

(* What lies ahead of a hashed entry is hashed.                              *)
LEMMA AheadHashed ==
  ASSUME ListTypes, ChainInv, NEW a, hashed[a], NEW n, Ahead(link, a, n)
  PROVE  hashed[n]
<1>1. Closed({e \in Entries : hashed[e]}, link)
  BY DEF Closed, ChainInv, ListTypes, Links
<1>2. a \in {e \in Entries : hashed[e]}
  BY DEF Ahead
<1> QED BY <1>1, <1>2, AheadIn

-------------------------------------------------------------------------------
(* The three operations on the chains.                                       *)

(* hlist_del_init_rcu, entry by entry.                                       *)
LEMMA DelEffect ==
  ASSUME ListTypes, NEW d \in Entries, Relink(hlist_del_init_rcu(d))
  PROVE  /\ first' \in [Buckets -> Entries \cup {NULL}] /\ link' \in Links
         /\ \A b \in Buckets : first'[b] = IF hashed[d] /\ first[b] = d THEN link[d] ELSE first[b]
         /\ \A n \in Entries : link'[n] = IF hashed[d] /\ hashed[n] /\ link[n] = d
                                          THEN link[d] ELSE link[n]
BY DEF Relink, hlist_del_init_rcu, ListTypes, Links

(* A deletion takes nothing but the deleted entry from what lies ahead.      *)
LEMMA DelKeeps ==
  ASSUME ListTypes, NEW d \in Entries, Relink(hlist_del_init_rcu(d)),
         NEW a, NEW e, e # d, Ahead(link, a, e)
  PROVE  Ahead(link', a, e)
<1>1. /\ link' \in Links
      /\ \A n \in Entries : link'[n] = IF hashed[d] /\ hashed[n] /\ link[n] = d
                                       THEN link[d] ELSE link[n]
  BY DelEffect
<1>2. ASSUME NEW S \in SUBSET Entries, a \in S, Closed(S, link') PROVE e \in S
  <2>1. CASE \E n \in S : hashed[d] /\ hashed[n] /\ link[n] = d
    <3>1. link[d] # NULL => link[d] \in S
      BY <1>1, <1>2, <2>1 DEF Closed
    <3>2. S \cup {d} \in SUBSET Entries /\ Closed(S \cup {d}, link)
      BY <1>1, <1>2, <3>1 DEF Closed
    <3> QED BY <1>2, <3>2 DEF Ahead
  <2>2. CASE \A n \in S : ~(hashed[d] /\ hashed[n] /\ link[n] = d)
    <3>1. Closed(S, link)
      BY <1>1, <1>2, <2>2 DEF Closed
    <3> QED BY <1>2, <3>1 DEF Ahead
  <2> QED BY <2>1, <2>2
<1> QED BY <1>2 DEF Ahead

(* ... and brings nothing new.                                               *)
LEMMA DelAddsNone ==
  ASSUME ListTypes, NEW d \in Entries, Relink(hlist_del_init_rcu(d)),
         NEW a, NEW e, Ahead(link', a, e)
  PROVE  Ahead(link, a, e)
<1>1. \A n \in Entries : link'[n] = IF hashed[d] /\ hashed[n] /\ link[n] = d
                                    THEN link[d] ELSE link[n]
  BY DelEffect
<1>2. ASSUME NEW S \in SUBSET Entries, a \in S, Closed(S, link) PROVE e \in S
  <2>1. Closed(S, link')
    BY <1>1, <1>2, EntryFacts DEF Closed
  <2> QED BY <1>2, <2>1 DEF Ahead
<1> QED BY <1>2 DEF Ahead

(* hlist_add_head_rcu of an entry that is out: ahead of anyone comes only    *)
(* what was ahead or what is hashed.                                         *)
LEMMA AddBrings ==
  ASSUME ListTypes, ChainInv, NEW h \in Entries, ~hashed[h], NEW b \in Buckets,
         Relink(hlist_add_head_rcu(h, b)), hashed' = [hashed EXCEPT ![h] = TRUE],
         NEW a, NEW n, Ahead(link', a, n)
  PROVE  Ahead(link, a, n) \/ hashed'[n]
<1> DEFINE S == {m \in Entries : Ahead(link, a, m) \/ hashed'[m]}
<1>1. \A m \in Entries : link'[m] = IF m = h THEN first[b] ELSE link[m]
  BY DEF Relink, hlist_add_head_rcu, ListTypes, Links
<1>2. \A m \in Entries : hashed'[m] <=> hashed[m] \/ m = h
  BY DEF ListTypes
<1>3. Closed({m \in Entries : Ahead(link, a, m)}, link)
  BY AheadClosed DEF ListTypes
<1>4. ASSUME NEW m \in S, link'[m] # NULL PROVE link'[m] \in S
  <2>1. CASE m = h
    BY <1>1, <1>2, <1>4, <2>1 DEF ChainInv, ListTypes
  <2>2. CASE m # h /\ hashed[m]
    BY <1>1, <1>2, <1>4, <2>2 DEF ChainInv, ListTypes, Links
  <2>3. CASE m # h /\ ~hashed[m]
    BY <1>1, <1>2, <1>3, <1>4, <2>3 DEF Closed
  <2> QED BY <2>1, <2>2, <2>3
<1>5. Closed(S, link') /\ S \in SUBSET Entries
  BY <1>4 DEF Closed
<1>6. a \in S
  BY AheadSelf DEF Ahead
<1>7. n \in S
  BY <1>5, <1>6, AheadIn
<1> QED BY <1>7

(* hlist_replace_rcu of an entry by one that is out: the same, but for the   *)
(* replaced entry itself.                                                    *)
LEMMA ReplaceEffect ==
  ASSUME ListTypes, NEW old \in Entries, NEW new \in Entries, hashed[old], ~hashed[new],
         Relink(hlist_replace_rcu(old, new)),
         hashed' = [hashed EXCEPT ![old] = FALSE, ![new] = TRUE]
  PROVE  /\ ListTypes' /\ old # new
         /\ \A b \in Buckets : first'[b] = IF first[b] = old THEN new ELSE first[b]
         /\ \A m \in Entries : /\ link'[m] = IF m = old THEN NULL
                                  ELSE IF m = new THEN link[old]
                                  ELSE IF hashed[m] /\ link[m] = old THEN new ELSE link[m]
                               /\ hashed'[m] <=> m = new \/ (hashed[m] /\ m # old)
BY DEF Relink, hlist_replace_rcu, ListTypes, Links

LEMMA ReplaceBrings ==
  ASSUME ListTypes, ChainInv, NEW old \in Entries, NEW new \in Entries, hashed[old], ~hashed[new],
         Relink(hlist_replace_rcu(old, new)),
         hashed' = [hashed EXCEPT ![old] = FALSE, ![new] = TRUE],
         NEW a, NEW n, Ahead(link', a, n)
  PROVE  Ahead(link, a, n) \/ hashed'[n] \/ n = old
<1> DEFINE S == {m \in Entries : Ahead(link, a, m) \/ hashed'[m] \/ m = old}
<1>1. /\ old # new
      /\ \A m \in Entries : /\ link'[m] = IF m = old THEN NULL
                                  ELSE IF m = new THEN link[old]
                                  ELSE IF hashed[m] /\ link[m] = old THEN new ELSE link[m]
                            /\ hashed'[m] <=> m = new \/ (hashed[m] /\ m # old)
  BY ReplaceEffect
<1>3. Closed({m \in Entries : Ahead(link, a, m)}, link)
  BY AheadClosed DEF ListTypes
<1>4. ASSUME NEW m \in S, link'[m] # NULL PROVE link'[m] \in S
  <2>1. CASE m = new
    BY <1>1, <1>4, <2>1 DEF ChainInv, ListTypes, Links
  <2>2. CASE m # new /\ hashed[m]
    BY <1>1, <1>4, <2>2 DEF ChainInv, ListTypes, Links
  <2>3. CASE m # new /\ ~hashed[m]
    BY <1>1, <1>3, <1>4, <2>3 DEF Closed
  <2> QED BY <2>1, <2>2, <2>3
<1>5. Closed(S, link') /\ S \in SUBSET Entries
  BY <1>4 DEF Closed
<1>6. a \in S
  BY AheadSelf DEF Ahead
<1>7. n \in S
  BY <1>5, <1>6, AheadIn
<1> QED BY <1>7

(* An entry that is hashed is in one of the buckets.                         *)
LEMMA BucketThere ==
  ASSUME PlTypeOK, IndexInv, NEW e \in Entries, hashed[e]
  PROVE  BucketOf(e) \in Buckets
BY IndexFacts DEF IndexInv, BucketOf

(* A deletion leaves the chains in order.                                    *)
LEMMA DelChain ==
  ASSUME PlTypeOK, ChainInv, IndexInv, NEW d \in Entries, Relink(hlist_del_init_rcu(d)),
         hashed' = [hashed EXCEPT ![d] = FALSE], index' = index
  PROVE  ListTypes' /\ ChainInv'
<1>0. ListTypes
  BY DEF PlTypeOK
<1>1. /\ first' \in [Buckets -> Entries \cup {NULL}] /\ link' \in Links
      /\ \A b \in Buckets : first'[b] = IF hashed[d] /\ first[b] = d THEN link[d] ELSE first[b]
      /\ \A n \in Entries : link'[n] = IF hashed[d] /\ hashed[n] /\ link[n] = d
                                       THEN link[d] ELSE link[n]
  BY <1>0, DelEffect
<1>2. /\ hashed' \in [Entries -> BOOLEAN]
      /\ \A n \in Entries : hashed'[n] <=> hashed[n] /\ n # d
  BY <1>0 DEF ListTypes
<1>3. hashed[d] /\ link[d] # NULL => link[d] # d /\ hashed[link[d]]
  BY AheadSelf DEF ChainInv
<1>4. \A b \in Buckets : first'[b] # NULL => hashed'[first'[b]]
  BY <1>0, <1>1, <1>2, <1>3 DEF ChainInv, ListTypes, Links
<1>5. ASSUME NEW n \in Entries, hashed'[n], link'[n] # NULL PROVE hashed'[link'[n]]
  BY <1>0, <1>1, <1>2, <1>3, <1>5 DEF ChainInv, ListTypes, Links
<1>6. ASSUME NEW n \in Entries, hashed'[n], link'[n] # NULL, Ahead(link', link'[n], n) PROVE FALSE
  <2>1. Ahead(link, link'[n], n)
    BY <1>0, <1>6, DelAddsNone
  <2>2. CASE link'[n] = link[n]
    BY <1>2, <1>6, <2>1, <2>2 DEF ChainInv
  <2>3. CASE link'[n] = link[d] /\ link[n] = d
    <3>1. Ahead(link, d, n)
      BY <1>6, <2>1, <2>3, AheadBack
    <3> QED BY <1>2, <1>6, <2>3, <3>1, EntryFacts DEF ChainInv
  <2> QED BY <1>1, <2>2, <2>3
<1>7. ASSUME NEW e \in Entries, hashed'[e] PROVE Ahead(link', first'[BucketOf(e)'], e)
  <2>1. hashed[e] /\ e # d
    BY <1>2, <1>7
  <2>2. PICK b \in Buckets : b = BucketOf(e) /\ b = BucketOf(e)'
    BY <2>1, BucketThere DEF BucketOf
  <2>3. Ahead(link, first[b], e)
    BY <2>1, <2>2 DEF ChainInv
  <2>4. CASE hashed[d] /\ first[b] = d
    <3>1. Ahead(link, link[d], e)
      BY <1>0, <2>1, <2>3, <2>4, AheadStep DEF ListTypes
    <3> QED BY <1>0, <1>1, <2>1, <2>2, <2>4, <3>1, DelKeeps
  <2>5. CASE ~(hashed[d] /\ first[b] = d)
    BY <1>0, <1>1, <2>1, <2>2, <2>3, <2>5, DelKeeps
  <2> QED BY <2>4, <2>5
<1> QED BY <1>1, <1>2, <1>4, <1>5, <1>6, <1>7 DEF ListTypes, ChainInv

(* So does a new head.                                                       *)
LEMMA AddChain ==
  ASSUME PlTypeOK, ChainInv, IndexInv, NEW h \in Entries, ~hashed[h], NEW b \in Buckets,
         BucketOf(h) = b, Relink(hlist_add_head_rcu(h, b)),
         hashed' = [hashed EXCEPT ![h] = TRUE], index' = index
  PROVE  ListTypes' /\ ChainInv'
<1>0. ListTypes
  BY DEF PlTypeOK
<1>1. /\ first' \in [Buckets -> Entries \cup {NULL}] /\ link' \in Links
      /\ \A c \in Buckets : first'[c] = IF c = b THEN h ELSE first[c]
      /\ \A n \in Entries : link'[n] = IF n = h THEN first[b] ELSE link[n]
  BY <1>0 DEF ListTypes, Relink, hlist_add_head_rcu, Links
<1>2. /\ hashed' \in [Entries -> BOOLEAN]
      /\ \A n \in Entries : hashed'[n] <=> hashed[n] \/ n = h
  BY <1>0 DEF ListTypes
<1>3. \A c \in Buckets : first'[c] # NULL => hashed'[first'[c]]
  BY <1>0, <1>1, <1>2 DEF ChainInv, ListTypes
<1>4. ASSUME NEW n \in Entries, hashed'[n], link'[n] # NULL PROVE hashed'[link'[n]]
  BY <1>0, <1>1, <1>2, <1>4 DEF ChainInv, ListTypes, Links
<1> DEFINE H == {m \in Entries : hashed[m]}
<1>5. ASSUME NEW S \in SUBSET Entries, Closed(S, link) PROVE S \cap H \in SUBSET Entries /\ Closed(S \cap H, link')
  BY <1>0, <1>1, <1>5 DEF Closed, ChainInv, ListTypes, Links
<1>6. ASSUME NEW n \in Entries, hashed'[n], link'[n] # NULL, Ahead(link', link'[n], n) PROVE FALSE
  <2>1. ASSUME NEW S \in SUBSET Entries, link'[n] \in S, Closed(S, link) PROVE n \in S /\ hashed[n]
    <3>1. link'[n] \in S \cap H
      BY <1>0, <1>1, <1>2, <1>6, <2>1 DEF ChainInv, ListTypes, Links
    <3>2. n \in S \cap H
      BY <1>5, <1>6, <2>1, <3>1 DEF Ahead
    <3> QED BY <3>2
  <2>2. Closed(Entries, link) /\ link'[n] \in Entries
    BY <1>0, <1>1, <1>6 DEF Closed, ListTypes, Links
  <2>3. hashed[n] /\ link'[n] = link[n]
    BY <1>1, <2>1, <2>2
  <2>4. Ahead(link, link[n], n)
    BY <2>1, <2>2, <2>3 DEF Ahead
  <2> QED BY <1>6, <2>3, <2>4 DEF ChainInv
<1>7. ASSUME NEW e \in Entries, hashed'[e] PROVE Ahead(link', first'[BucketOf(e)'], e)
  <2>1. CASE e = h
    <3>1. first'[BucketOf(e)'] = h
      BY <1>1, <2>1 DEF BucketOf
    <3> QED BY <2>1, <3>1, AheadSelf
  <2>2. CASE e # h
    <3>1. hashed[e]
      BY <1>2, <1>7, <2>2
    <3>2. PICK c \in Buckets : c = BucketOf(e) /\ c = BucketOf(e)'
      BY <3>1, BucketThere DEF BucketOf
    <3>3. Ahead(link, first[c], e) /\ hashed[first[c]]
      <4>1. Ahead(link, first[c], e)
        BY <3>1, <3>2 DEF ChainInv
      <4>2. first[c] # NULL
        BY <4>1, EntryFacts DEF Ahead
      <4> QED BY <4>1, <4>2 DEF ChainInv
    <3>4. ASSUME NEW S \in SUBSET Entries, first'[c] \in S, Closed(S, link') PROVE e \in S
      <4>1. first[c] \in S
        BY <1>0, <1>1, <3>3, <3>4, EntryFacts DEF Closed, Ahead
      <4>2. Closed(S \cap H, link) /\ first[c] \in S \cap H
        BY <1>0, <1>1, <3>3, <3>4, <4>1 DEF Closed, ChainInv, ListTypes, Links
      <4> QED BY <3>3, <4>2 DEF Ahead
    <3>5. first'[c] \in Entries
      BY <1>0, <1>1, <3>3 DEF Ahead, ListTypes
    <3> QED BY <3>2, <3>4, <3>5 DEF Ahead
  <2> QED BY <2>1, <2>2
<1> QED BY <1>1, <1>2, <1>3, <1>4, <1>6, <1>7 DEF ListTypes, ChainInv

(* And an entry that takes the place of another under the same index.        *)
LEMMA ReplaceChain ==
  ASSUME PlTypeOK, ChainInv, IndexInv, NEW old \in Entries, NEW new \in Entries,
         hashed[old], ~hashed[new], old[2] # "peer", new[2] # "peer",
         Relink(hlist_replace_rcu(old, new)),
         hashed' = [hashed EXCEPT ![old] = FALSE, ![new] = TRUE],
         index' = [index EXCEPT ![new] = index[old]]
  PROVE  ListTypes' /\ ChainInv'
<1>0. ListTypes
  BY DEF PlTypeOK
<1>1. /\ ListTypes' /\ old # new
      /\ \A b \in Buckets : first'[b] = IF first[b] = old THEN new ELSE first[b]
      /\ \A m \in Entries : /\ link'[m] = IF m = old THEN NULL
                               ELSE IF m = new THEN link[old]
                               ELSE IF hashed[m] /\ link[m] = old THEN new ELSE link[m]
                            /\ hashed'[m] <=> m = new \/ (hashed[m] /\ m # old)
  BY <1>0, ReplaceEffect
<1>2. link[old] # NULL => link[old] # old /\ hashed[link[old]]
  BY AheadSelf DEF ChainInv
<1>3. \A b \in Buckets : first'[b] # NULL => hashed'[first'[b]]
  BY <1>0, <1>1 DEF ChainInv, ListTypes
<1>4. ASSUME NEW n \in Entries, hashed'[n], link'[n] # NULL PROVE hashed'[link'[n]]
  BY <1>0, <1>1, <1>2, <1>4 DEF ChainInv, ListTypes, Links
\* A set closed before, as it looks afterwards.
<1> DEFINE H == {m \in Entries : hashed[m]}
           After(S) == ((S \cap H) \ {old}) \cup (IF old \in S THEN {new} ELSE {})
<1>5. ASSUME NEW S \in SUBSET Entries, Closed(S, link)
      PROVE  After(S) \in SUBSET Entries /\ Closed(After(S), link')
  <2>1. ASSUME NEW m \in After(S), link'[m] # NULL PROVE link'[m] \in After(S)
    <3>1. CASE m = new
      <4>1. old \in S /\ link'[m] = link[old]
        BY <1>1, <3>1
      <4>2. link[old] \in S /\ link[old] # old /\ hashed[link[old]]
        BY <1>2, <1>5, <2>1, <4>1 DEF Closed
      <4> QED BY <4>1, <4>2
    <3>2. CASE m # new
      <4>1. m \in S /\ hashed[m] /\ m # old
        BY <3>2
      <4>2. CASE link[m] = old
        <5>1. old \in S
          BY <1>5, <4>1, <4>2, EntryFacts DEF Closed
        <5> QED BY <1>1, <4>1, <4>2, <3>2, <5>1
      <4>3. CASE link[m] # old
        <5>1. link'[m] = link[m]
          BY <1>1, <4>1, <4>3, <3>2
        <5>2. link[m] \in S /\ hashed[link[m]]
          BY <1>5, <2>1, <4>1, <5>1 DEF Closed, ChainInv
        <5> QED BY <4>3, <5>1, <5>2
      <4> QED BY <4>2, <4>3
    <3> QED BY <3>1, <3>2
  <2>2. After(S) \in SUBSET Entries
    OBVIOUS
  <2> QED BY <2>1, <2>2 DEF Closed
<1>6. ASSUME NEW n \in Entries, hashed'[n], link'[n] # NULL, Ahead(link', link'[n], n) PROVE FALSE
  <2> DEFINE was == IF n = new THEN old ELSE n
  <2>0. was \in Entries /\ hashed[was] /\ link[was] # NULL /\ (was = old <=> n = new)
    BY <1>0, <1>1, <1>6, EntryFacts
  <2>1. ASSUME NEW S \in SUBSET Entries, link[was] \in S, Closed(S, link) PROVE was \in S
    <3>1. link'[n] \in After(S)
      <4>1. hashed[link[was]]
        BY <2>0 DEF ChainInv
      <4>2. CASE n = new
        BY <1>1, <1>2, <1>6, <2>1, <4>1, <4>2
      <4>3. CASE n # new /\ link[n] = old
        BY <1>1, <1>6, <2>1, <4>3
      <4>4. CASE n # new /\ link[n] # old
        BY <1>1, <1>6, <2>1, <4>1, <4>4
      <4> QED BY <4>2, <4>3, <4>4
    <3>2. n \in After(S)
      BY <1>5, <1>6, <2>1, <3>1 DEF Ahead
    <3> QED BY <2>0, <3>2
  <2>2. link[was] \in Entries
    BY <1>0, <2>0 DEF ListTypes, Links
  <2>3. Ahead(link, link[was], was)
    BY <2>0, <2>1, <2>2 DEF Ahead
  <2> QED BY <2>0, <2>3 DEF ChainInv
<1>7. ASSUME NEW e \in Entries, hashed'[e] PROVE Ahead(link', first'[BucketOf(e)'], e)
  <2> DEFINE was == IF e = new THEN old ELSE e
  <2>0. was \in Entries /\ hashed[was] /\ (was = old <=> e = new)
    BY <1>1, <1>7
  <2>1. PICK b \in Buckets : b = BucketOf(was) /\ b = BucketOf(e)'
    BY <2>0, BucketThere DEF BucketOf, PlTypeOK
  <2>2. Ahead(link, first[b], was) /\ first[b] # NULL
    BY <2>0, <2>1, EntryFacts DEF ChainInv, Ahead
  <2>3. first'[b] \in Entries
    BY <1>1, <2>2, EntryFacts DEF ListTypes, Ahead
  <2>4. ASSUME NEW S \in SUBSET Entries, first'[b] \in S, Closed(S, link') PROVE e \in S
    <3> DEFINE T == ((S \cap H) \ {old}) \cup (IF new \in S THEN {old} ELSE {})
    <3>1. ASSUME NEW m \in T, link[m] # NULL PROVE link[m] \in T
      <4>1. CASE m = old
        <5>1. new \in S /\ link'[new] = link[old]
          BY <1>1, <4>1
        <5>2. link[old] \in S
          BY <2>4, <3>1, <4>1, <5>1 DEF Closed
        <5> QED BY <1>2, <1>0, <3>1, <4>1, <5>2
      <4>2. CASE m # old
        <5>1. m \in S /\ hashed[m] /\ m # new
          BY <4>2
        <5>2. CASE link[m] = old
          <6>1. new \in S
            BY <1>1, <2>4, <4>2, <5>1, <5>2, EntryFacts DEF Closed
          <6> QED BY <5>2, <6>1
        <5>3. CASE link[m] # old
          BY <1>1, <2>4, <3>1, <4>2, <5>1, <5>3 DEF Closed, ChainInv
        <5> QED BY <5>2, <5>3
      <4> QED BY <4>1, <4>2
    <3>2. T \in SUBSET Entries /\ Closed(T, link)
      BY <3>1 DEF Closed
    <3>3. first[b] \in T
      BY <1>1, <2>2, <2>4 DEF ChainInv
    <3>4. was \in T
      BY <2>2, <3>2, <3>3 DEF Ahead
    <3> QED BY <2>0, <3>4
  <2> QED BY <2>1, <2>3, <2>4 DEF Ahead
<1> QED BY <1>1, <1>3, <1>4, <1>6, <1>7 DEF ChainInv

-------------------------------------------------------------------------------
(* What the writers do to the readers.                                       *)

(* Noticed, field by field.                                                  *)
LEMMA NoticedEffect ==
  ASSUME PlTypeOK, NEW gone \in Entries \cup {NULL}, NEW new \in Entries \cup {NULL}, NEW i,
         NEW moved \in BOOLEAN, Noticed(gone, new, i, moved)
  PROVE  /\ \A r \in Readers : reader[r].pc # "walk" => reader'[r] = reader[r]
         /\ \A r \in Readers : reader[r].pc = "walk" =>
              /\ reader'[r].pc = "walk" /\ reader'[r].at = reader[r].at
              /\ reader'[r].want = reader[r].want
              /\ reader'[r].stable = reader[r].stable \ {gone}
              /\ reader'[r].seen = IF reader[r].want = i THEN reader[r].seen \cup {new}
                                                         ELSE reader[r].seen
              /\ reader'[r].moved = (reader[r].moved \/ moved)
         /\ reader' \in [Readers -> Lookups]
<1>1. ASSUME NEW r \in Readers, NEW l \in Lookups, l = reader[r] PROVE
         /\ l.pc # "walk" => reader'[r] = l
         /\ l.pc = "walk" =>
              /\ reader'[r].pc = "walk" /\ reader'[r].at = l.at /\ reader'[r].want = l.want
              /\ reader'[r].stable = l.stable \ {gone}
              /\ reader'[r].seen = IF l.want = i THEN l.seen \cup {new} ELSE l.seen
              /\ reader'[r].moved = (l.moved \/ moved)
         /\ reader'[r] \in Lookups
  <2>1. reader'[r] = IF l.pc # "walk" THEN l
                     ELSE [l EXCEPT !.stable = l.stable \ {gone},
                                    !.seen = IF l.want = i THEN l.seen \cup {new} ELSE l.seen,
                                    !.moved = l.moved \/ moved]
    BY <1>1 DEF Noticed
  <2>2. CASE l.pc # "walk"
    BY <2>1, <2>2
  <2>3. CASE l.pc = "walk"
    <3> DEFINE st == l.stable \ {gone}
               se == IF l.want = i THEN l.seen \cup {new} ELSE l.seen
               mo == l.moved \/ moved
    <3>1. /\ st \in SUBSET Entries /\ se \in SUBSET (Entries \cup {NULL}) /\ mo \in BOOLEAN
      BY DEF Lookups
    <3>2. reader'[r] = [l EXCEPT !.stable = st, !.seen = se, !.moved = mo]
      BY <2>1, <2>3
    <3> HIDE DEF st, se, mo
    <3>3. /\ reader'[r].pc = l.pc /\ reader'[r].at = l.at /\ reader'[r].want = l.want
          /\ reader'[r].stable = st /\ reader'[r].seen = se /\ reader'[r].moved = mo
      BY <3>2 DEF Lookups
    <3>4. reader'[r] \in Lookups
      BY <3>1, <3>2 DEF Lookups
    <3> QED BY <2>3, <3>3, <3>4 DEF st, se, mo
  <2> QED BY <2>2, <2>3
<1>2. reader' = [r \in Readers |-> reader'[r]]
  BY DEF Noticed
<1>3. \A r \in Readers : reader[r] \in Lookups
  BY DEF PlTypeOK
<1>4. reader' \in [Readers -> Lookups]
  <2>1. \A r \in Readers : reader'[r] \in Lookups
    BY <1>1, <1>3
  <2> QED BY <1>2, <2>1
<1>5. \A r \in Readers : reader[r].pc # "walk" => reader'[r] = reader[r]
  BY <1>1, <1>3
<1> QED BY <1>1, <1>3, <1>4, <1>5

(* A deletion keeps what walking readers rely on, also where they stand on   *)
(* the deleted entry.                                                        *)
LEMMA WalkDel ==
  ASSUME PlInv, NEW d \in Entries, Relink(hlist_del_init_rcu(d)),
         hashed' = [hashed EXCEPT ![d] = FALSE], index' = index, Noticed(d, NULL, NULL, FALSE)
  PROVE  WalkInv'
<1>0. PlTypeOK /\ ListTypes /\ WalkInv
  BY DEF PlInv, PlTypeOK
<1> SUFFICES ASSUME NEW r \in Readers, reader'[r].pc = "walk"
             PROVE  SeenInv(r)' /\ StableInv(r)'
  BY DEF WalkInv
<1>1. \A n \in Entries : hashed'[n] <=> hashed[n] /\ n # d
  BY <1>0 DEF ListTypes
<1>2. reader[r].pc = "walk" /\ SeenInv(r) /\ StableInv(r)
  BY <1>0, NoticedEffect DEF WalkInv
<1>3. /\ reader'[r].at = reader[r].at /\ reader'[r].want = reader[r].want
      /\ reader'[r].stable = reader[r].stable \ {d} /\ reader'[r].seen = reader[r].seen
      /\ reader'[r].moved = reader[r].moved
  <2>1. reader'[r].moved = (reader[r].moved \/ FALSE) /\ reader[r].moved \in BOOLEAN
    BY <1>0, <1>2, NoticedEffect DEF PlTypeOK, Lookups
  <2>2. reader'[r].moved = reader[r].moved
    BY <2>1
  <2>3. \A q \in Readers : reader[q].pc = "walk" =>
              /\ reader'[q].pc = "walk" /\ reader'[q].at = reader[q].at
              /\ reader'[q].want = reader[q].want
              /\ reader'[q].stable = reader[q].stable \ {d}
              /\ reader'[q].seen = IF reader[q].want = NULL THEN reader[q].seen \cup {NULL}
                                                            ELSE reader[q].seen
              /\ reader'[q].moved = (reader[q].moved \/ FALSE)
    BY <1>0, NoticedEffect, Zenon
  <2>4. reader[r].want # NULL
    BY <1>2 DEF SeenInv
  <2> QED BY <1>2, <2>2, <2>3, <2>4
<1>4. SeenInv(r)'
  <2>1. \A n \in Entries : Ahead(link', reader[r].at, n) => Ahead(link, reader[r].at, n)
    BY <1>0, DelAddsNone
  <2>2. \A e \in Entries : hashed'[e] /\ index'[e] = reader'[r].want => e \in reader'[r].seen
    BY <1>1, <1>2, <1>3 DEF SeenInv
  <2>3. \A n \in Entries : Ahead(link', reader'[r].at, n) /\ index'[n] = reader'[r].want
                             => n \in reader'[r].seen \/ n[2] = "handshake"
    BY <1>2, <1>3, <2>1 DEF SeenInv
  <2> QED BY <1>2, <1>3, <2>2, <2>3 DEF SeenInv
<1>5. ASSUME ~reader'[r].moved, NEW e \in reader'[r].stable
      PROVE  /\ hashed'[e] /\ index'[e] = reader'[r].want /\ Ahead(link', reader'[r].at, e)
             /\ \A n \in Entries : Ahead(link', reader'[r].at, n) /\ index'[n] = reader'[r].want
                                     => n = e
  <2>1. /\ e # d /\ hashed[e] /\ index[e] = reader[r].want /\ Ahead(link, reader[r].at, e)
        /\ \A n \in Entries : Ahead(link, reader[r].at, n) /\ index[n] = reader[r].want => n = e
    BY <1>2, <1>3, <1>5 DEF StableInv
  <2>2. e \in Entries
    BY <2>1 DEF Ahead
  <2>3. Ahead(link', reader[r].at, e)
    BY <1>0, <2>1, DelKeeps
  <2>4. \A n \in Entries : Ahead(link', reader[r].at, n) => Ahead(link, reader[r].at, n)
    BY <1>0, DelAddsNone
  <2> QED BY <1>1, <1>3, <2>1, <2>2, <2>3, <2>4
<1> QED BY <1>4, <1>5 DEF StableInv

\* Only the entry new, under the index i, and handshakes are added to what a
\* reader may meet.
OnlyAdds(new, i) ==
    /\ \A e \in Entries : hashed'[e] => \/ hashed[e] /\ index'[e] = index[e]
                                        \/ e = new /\ index'[e] = i
    /\ \A a, n : Ahead(link', a, n) => Ahead(link, a, n) \/ hashed'[n] \/ n[2] = "handshake"
    /\ \A n \in Entries : \/ index'[n] = index[n] \/ n[2] = "handshake"
                          \/ n = new /\ index'[n] = i

(* A change that moves entries is noticed.                                   *)
LEMMA WalkMoves ==
  ASSUME PlInv, NEW gone \in Entries \cup {NULL}, NEW new \in Entries \cup {NULL}, NEW i,
         Noticed(gone, new, i, TRUE), OnlyAdds(new, i)
  PROVE  WalkInv'
<1> USE DEF OnlyAdds
<1>0. PlTypeOK /\ ListTypes /\ WalkInv
  BY DEF PlInv, PlTypeOK
<1> SUFFICES ASSUME NEW r \in Readers, reader'[r].pc = "walk"
             PROVE  SeenInv(r)' /\ StableInv(r)'
  BY DEF WalkInv
<1>2. reader[r].pc = "walk" /\ SeenInv(r)
  BY <1>0, NoticedEffect DEF WalkInv
<1>3. /\ reader'[r].at = reader[r].at /\ reader'[r].want = reader[r].want
      /\ reader'[r].moved
      /\ reader[r].seen \subseteq reader'[r].seen
      /\ reader[r].want = i => new \in reader'[r].seen
  <2>1. reader'[r].moved = (reader[r].moved \/ TRUE)
    BY <1>0, <1>2, NoticedEffect
  <2>2. \A q \in Readers : reader[q].pc = "walk" =>
              /\ reader'[q].pc = "walk" /\ reader'[q].at = reader[q].at
              /\ reader'[q].want = reader[q].want
              /\ reader'[q].stable = reader[q].stable \ {gone}
              /\ reader'[q].seen = IF reader[q].want = i THEN reader[q].seen \cup {new}
                                                         ELSE reader[q].seen
              /\ reader'[q].moved = (reader[q].moved \/ TRUE)
    BY <1>0, NoticedEffect, Zenon
  <2>3. reader'[r].moved
    BY <2>1
  <2> QED BY <1>2, <2>2, <2>3
<1>4. \A e \in Entries : hashed'[e] /\ index'[e] = reader'[r].want => e \in reader'[r].seen
  BY <1>2, <1>3 DEF SeenInv
<1>5. ASSUME NEW n \in Entries, Ahead(link', reader'[r].at, n), index'[n] = reader'[r].want
      PROVE  n \in reader'[r].seen \/ n[2] = "handshake"
  <2>1. CASE Ahead(link, reader[r].at, n)
    BY <1>2, <1>3, <1>5, <2>1 DEF SeenInv
  <2>2. CASE hashed'[n]
    BY <1>4, <1>5, <2>2
  <2> QED BY <1>3, <1>5, <2>1, <2>2
<1> QED BY <1>2, <1>3, <1>4, <1>5 DEF SeenInv, StableInv

(* What a lookup answered stays true: a peer that is released stays so.      *)
LEMMA DoneKept ==
  ASSUME StableEntryFound, FoundWasThere, released \subseteq released',
         \A r \in Readers : reader'[r].pc = "done" => reader'[r] = reader[r]
  PROVE  StableEntryFound' /\ FoundWasThere'
BY DEF StableEntryFound, FoundWasThere

(* A step that does not touch the tables or who walks them.                  *)
LEMMA TablesSame ==
  ASSUME WalkInv, UNCHANGED <<link, hashed, index, reader>>
  PROVE  WalkInv'
BY DEF WalkInv, SeenInv, StableInv, Ahead

-------------------------------------------------------------------------------
(* The operations.                                                           *)

(* insert_begin and wg_index_hashtable_remove: an entry goes.                *)
LEMMA DelStep ==
  ASSUME PlInv, NEW d \in Entries, Relink(hlist_del_init_rcu(d)),
         hashed' = [hashed EXCEPT ![d] = FALSE], index' = index, released' = released,
         Noticed(d, NULL, NULL, FALSE), inserting' \in [PlPeers -> {"no", "search", "lock"}],
         \A p \in PlPeers : \/ inserting'[p] = inserting[p]
                            \/ inserting'[p] = "search" /\ d = handshake(p)
  PROVE  PlInv'
<1>0. PlTypeOK /\ ChainInv /\ IndexInv /\ StableEntryFound /\ FoundWasThere
  BY DEF PlInv
<1>1. ListTypes' /\ ChainInv' /\ WalkInv'
  BY <1>0, DelChain, WalkDel
<1>2. PlTypeOK'
  BY <1>0, <1>1, NoticedEffect DEF PlTypeOK
<1>3. \A n \in Entries : hashed'[n] <=> hashed[n] /\ n # d
  BY <1>0 DEF PlTypeOK, ListTypes
<1>4. IndexInv'
  BY <1>0, <1>3, EntryFacts DEF IndexInv, IndexUnique
<1>5. \A r \in Readers : reader'[r].pc = "done" => reader'[r] = reader[r]
  BY <1>0, NoticedEffect
<1>6. StableEntryFound' /\ FoundWasThere'
  BY <1>0, <1>5, DoneKept
<1> QED BY <1>1, <1>2, <1>4, <1>6 DEF PlInv

(* insert_search: an index is tried for a handshake that is out.             *)
LEMMA SearchStep ==
  ASSUME PlInv, NEW p \in PlPeers, insert_search(p)
  PROVE  PlInv'
<1>0. PlTypeOK /\ ChainInv /\ IndexInv /\ StableEntryFound /\ FoundWasThere
  BY DEF PlInv
<1>1. PICK i \in Indices : /\ index' = [index EXCEPT ![handshake(p)] = i]
                           /\ inserting' = [inserting EXCEPT ![p] = IF Taken(i) THEN "search" ELSE "lock"]
  BY DEF insert_search
<1>2. /\ UNCHANGED <<first, link, hashed, released>> /\ inserting[p] = "search"
      /\ Noticed(NULL, NULL, NULL, TRUE)
  BY DEF insert_search
<1>3. handshake(p) \in Entries /\ handshake(p)[2] = "handshake" /\ ~hashed[handshake(p)]
  BY <1>0, <1>2, EntryFacts DEF IndexInv
<1>4. \A n \in Entries : index'[n] = IF n = handshake(p) THEN i ELSE index[n]
  BY <1>0, <1>1 DEF PlTypeOK
<1>5. PlTypeOK'
  <2>1. reader' \in [Readers -> Lookups]
    BY <1>0, <1>2, NoticedEffect
  <2>2. index' \in [Entries -> Wanted] /\ inserting' \in [PlPeers -> {"no", "search", "lock"}]
    BY <1>0, <1>1 DEF PlTypeOK, Wanted
  <2> QED BY <1>0, <1>2, <2>1, <2>2 DEF PlTypeOK, ListTypes
<1>6. ChainInv'
  <2>1. \A e \in Entries : hashed[e] => BucketOf(e)' = BucketOf(e)
    BY <1>3, <1>4 DEF BucketOf
  <2> QED BY <1>0, <1>2, <2>1 DEF ChainInv
<1>7. IndexInv'
  <2>1. \A q \in PlPeers : inserting'[q] = IF q = p THEN (IF Taken(i) THEN "search" ELSE "lock")
                                           ELSE inserting[q]
    BY <1>0, <1>1 DEF PlTypeOK
  <2>2. \A q \in PlPeers : /\ peer(q) \in Entries /\ peer(q) # handshake(p)
                           /\ handshake(q) \in Entries
                           /\ q # p => handshake(q) # handshake(p)
    BY EntryFacts
  <2> QED BY <1>0, <1>2, <1>3, <1>4, <2>1, <2>2 DEF IndexInv, IndexUnique
<1>8. WalkInv'
  <2>1. \A a, n : Ahead(link', a, n) => Ahead(link, a, n)
    BY <1>2
  <2>2. \A e \in Entries : hashed'[e] => hashed[e] /\ index'[e] = index[e]
    BY <1>2, <1>3, <1>4
  <2>3. \A n \in Entries : index'[n] = index[n] \/ n[2] = "handshake"
    BY <1>3, <1>4
  <2>4. OnlyAdds(NULL, NULL)
    BY <2>1, <2>2, <2>3 DEF OnlyAdds
  <2> QED BY <1>2, <2>4, WalkMoves
<1>9. StableEntryFound' /\ FoundWasThere'
  <2>1. \A r \in Readers : reader'[r].pc = "done" => reader'[r] = reader[r]
    BY <1>0, <1>2, NoticedEffect
  <2> QED BY <1>0, <1>2, <2>1, DoneKept
<1> QED BY <1>5, <1>6, <1>7, <1>8, <1>9 DEF PlInv

(* wg_index_hashtable_insert: under the lock the index is free, or it is not *)
(* used.                                                                     *)
LEMMA InsertStep ==
  ASSUME PlInv, NEW p \in PlPeers, wg_index_hashtable_insert(p)
  PROVE  PlInv'
<1> DEFINE h == handshake(p)
<1>0. PlTypeOK /\ ChainInv /\ IndexInv /\ WalkInv /\ StableEntryFound /\ FoundWasThere /\ ListTypes
  BY DEF PlInv, PlTypeOK
<1>1. inserting[p] = "lock" /\ UNCHANGED <<index, released>>
  BY DEF wg_index_hashtable_insert
<1>2. /\ h \in Entries /\ h[2] = "handshake" /\ ~hashed[h] /\ index[h] \in Indices
      /\ \A q \in PlPeers : handshake(q) \in Entries /\ (q # p => handshake(q) # h)
  BY <1>0, <1>1, EntryFacts DEF IndexInv
<1>3. CASE Taken(index[h])
  <2>1. /\ inserting' = [inserting EXCEPT ![p] = "search"]
        /\ UNCHANGED <<first, link, hashed, reader>>
    BY <1>3 DEF wg_index_hashtable_insert
  <2>2. PlTypeOK' /\ ChainInv' /\ WalkInv'
    <3>1. PlTypeOK'
      BY <1>0, <1>1, <2>1 DEF PlTypeOK, ListTypes
    <3>2. ChainInv'
      BY <1>0, <1>1, <2>1 DEF ChainInv, BucketOf
    <3> QED BY <1>0, <1>1, <2>1, <3>1, <3>2, TablesSame
  <2>3. IndexInv'
    BY <1>0, <1>1, <1>2, <2>1 DEF IndexInv, IndexUnique, PlTypeOK
  <2>4. StableEntryFound' /\ FoundWasThere'
    BY <1>0, <1>1, <2>1, DoneKept
  <2> QED BY <2>2, <2>3, <2>4 DEF PlInv
<1>4. CASE ~Taken(index[h])
  <2>1. /\ Relink(hlist_add_head_rcu(h, index_bucket(index[h])))
        /\ hashed' = [hashed EXCEPT ![h] = TRUE]
        /\ inserting' = [inserting EXCEPT ![p] = "no"]
        /\ Noticed(NULL, h, index[h], TRUE)
    BY <1>4 DEF wg_index_hashtable_insert
  <2>2. index_bucket(index[h]) \in Buckets /\ BucketOf(h) = index_bucket(index[h])
    BY <1>2, IndexFacts DEF BucketOf
  <2>3. ListTypes' /\ ChainInv'
    BY <1>0, <1>1, <1>2, <2>1, <2>2, AddChain
  <2>4. PlTypeOK'
    <3>1. reader' \in [Readers -> Lookups]
      BY <1>0, <1>2, <2>1, NoticedEffect
    <3> QED BY <1>0, <1>1, <2>1, <2>3, <3>1 DEF PlTypeOK
  <2>5. \A n \in Entries : hashed'[n] <=> hashed[n] \/ n = h
    BY <1>0, <2>1 DEF ListTypes
  <2>6. IndexInv'
    <3>1. \A e \in Entries : hashed[e] => index[e] # index[h]
      BY <1>4 DEF Taken
    <3>2. IndexUnique'
      BY <1>0, <1>1, <2>5, <3>1 DEF IndexInv, IndexUnique
    <3>3. \A q \in PlPeers : inserting'[q] = IF q = p THEN "no" ELSE inserting[q]
      BY <1>0, <2>1 DEF PlTypeOK
    <3> QED BY <1>0, <1>1, <1>2, <2>5, <3>2, <3>3 DEF IndexInv
  <2>7. WalkInv'
    <3>1. \A a, n : Ahead(link', a, n) => Ahead(link, a, n) \/ hashed'[n]
      BY <1>0, <1>2, <2>1, <2>2, AddBrings
    <3>2. \A e \in Entries : hashed'[e] => \/ hashed[e] /\ index'[e] = index[e]
                                           \/ e = h /\ index'[e] = index[h]
      BY <1>1, <2>5
    <3>3. \A a, n : Ahead(link', a, n)
                      => Ahead(link, a, n) \/ hashed'[n] \/ n[2] = "handshake"
      BY <3>1
    <3>4. \A n \in Entries : \/ index'[n] = index[n] \/ n[2] = "handshake"
                             \/ n = h /\ index'[n] = index[h]
      BY <1>1
    <3>5. OnlyAdds(h, index[h])
      BY <3>2, <3>3, <3>4 DEF OnlyAdds
    <3> QED BY <1>2, <2>1, <3>5, WalkMoves
  <2>8. StableEntryFound' /\ FoundWasThere'
    <3>1. \A r \in Readers : reader'[r].pc = "done" => reader'[r] = reader[r]
      BY <1>0, <1>2, <2>1, NoticedEffect
    <3> QED BY <1>0, <1>1, <3>1, DoneKept
  <2> QED BY <2>3, <2>4, <2>6, <2>7, <2>8 DEF PlInv
<1> QED BY <1>3, <1>4

(* wg_index_hashtable_replace: the keypair takes the handshake's index and   *)
(* its place at once.                                                        *)
LEMMA ReplaceStep ==
  ASSUME PlInv, NEW p \in PlPeers, NEW k \in Keypairs[p], wg_index_hashtable_replace(p, k)
  PROVE  PlInv'
<1> DEFINE h == handshake(p)
           e == keypair(p, k)
<1>0. PlTypeOK /\ ChainInv /\ IndexInv /\ WalkInv /\ StableEntryFound /\ FoundWasThere /\ ListTypes
  BY DEF PlInv, PlTypeOK
<1>1. /\ inserting[p] = "no" /\ hashed[h] /\ ~hashed[e]
      /\ index' = [index EXCEPT ![e] = index[h]]
      /\ Relink(hlist_replace_rcu(h, e))
      /\ hashed' = [hashed EXCEPT ![h] = FALSE, ![e] = TRUE]
      /\ Noticed(h, e, index[h], TRUE)
      /\ UNCHANGED <<inserting, released>>
  BY DEF wg_index_hashtable_replace
<1>2. /\ h \in Entries /\ h[2] = "handshake" /\ e \in Entries /\ e[2] = "keypair"
      /\ \A q \in PlPeers : /\ handshake(q) \in Entries /\ handshake(q) # e
                            /\ peer(q) \in Entries /\ peer(q) # e /\ peer(q) # h
      /\ index[h] \in Indices
  BY <1>0, <1>1, EntryFacts DEF IndexInv
<1> HIDE DEF h, e
<1>3. /\ ListTypes' /\ h # e
      /\ \A m \in Entries : hashed'[m] <=> m = e \/ (hashed[m] /\ m # h)
  BY <1>0, <1>1, <1>2, ReplaceEffect
<1>4. ChainInv'
  BY <1>0, <1>1, <1>2, ReplaceChain
<1>5. \A n \in Entries : index'[n] = IF n = e THEN index[h] ELSE index[n]
  BY <1>0, <1>1 DEF PlTypeOK
<1>6. PlTypeOK'
  <2>1. reader' \in [Readers -> Lookups]
    BY <1>0, <1>1, <1>2, NoticedEffect
  <2>2. index' \in [Entries -> Wanted]
    BY <1>0, <1>1, <1>2 DEF PlTypeOK, Wanted
  <2> QED BY <1>0, <1>1, <1>3, <2>1, <2>2 DEF PlTypeOK
<1>7. IndexInv'
  <2>1. IndexUnique'
    BY <1>0, <1>1, <1>2, <1>3, <1>5 DEF IndexInv, IndexUnique
  <2>2. \A q \in PlPeers : inserting'[q] # "no" => ~hashed'[handshake(q)]
    BY <1>0, <1>1, <1>2, <1>3 DEF IndexInv
  <2>3. \A q \in PlPeers : /\ inserting'[q] = "lock" => index'[handshake(q)] \in Indices
                           /\ index'[peer(q)] = PubkeyOf(q)
    BY <1>0, <1>1, <1>2, <1>5 DEF IndexInv
  <2>4. \A n \in Entries : n[2] # "peer" =>
          index'[n] \in Indices \cup {NULL} /\ (hashed'[n] => index'[n] \in Indices)
    BY <1>0, <1>2, <1>3, <1>5 DEF IndexInv
  <2> QED BY <2>1, <2>2, <2>3, <2>4 DEF IndexInv
<1>8. WalkInv'
  <2>1. \A a, n : Ahead(link', a, n) => Ahead(link, a, n) \/ hashed'[n] \/ n = h
    BY <1>0, <1>1, <1>2, ReplaceBrings
  <2>2. \A a, n : Ahead(link', a, n) => Ahead(link, a, n) \/ hashed'[n] \/ n[2] = "handshake"
    BY <1>2, <2>1
  <2>3. \A n \in Entries : hashed'[n] => \/ hashed[n] /\ index'[n] = index[n]
                                         \/ n = e /\ index'[n] = index[h]
    BY <1>3, <1>5
  <2>4. \A n \in Entries : \/ index'[n] = index[n] \/ n[2] = "handshake"
                           \/ n = e /\ index'[n] = index[h]
    BY <1>5
  <2>5. OnlyAdds(e, index[h])
    BY <2>2, <2>3, <2>4 DEF OnlyAdds
  <2> QED BY <1>1, <1>2, <2>5, WalkMoves
<1>9. StableEntryFound' /\ FoundWasThere'
  <2>1. \A r \in Readers : reader'[r].pc = "done" => reader'[r] = reader[r]
    BY <1>0, <1>1, <1>2, NoticedEffect
  <2> QED BY <1>0, <1>1, <2>1, DoneKept
<1> QED BY <1>4, <1>6, <1>7, <1>8, <1>9 DEF PlInv

(* wg_pubkey_hashtable_add, before anybody looks the new peer up.            *)
LEMMA PubkeyStep ==
  ASSUME PlInv, NEW p \in PlPeers, wg_pubkey_hashtable_add(p)
  PROVE  PlInv'
<1>0. PlTypeOK /\ ChainInv /\ IndexInv /\ WalkInv /\ StableEntryFound /\ FoundWasThere /\ ListTypes
  BY DEF PlInv, PlTypeOK
<1>1. /\ ~hashed[peer(p)] /\ \A r \in Readers : reader[r].pc # "walk"
      /\ Relink(hlist_add_head_rcu(peer(p), PUBKEYS))
      /\ hashed' = [hashed EXCEPT ![peer(p)] = TRUE]
      /\ UNCHANGED <<index, inserting, reader, released>>
  BY DEF wg_pubkey_hashtable_add
<1>2. peer(p) \in Entries /\ peer(p)[2] = "peer" /\ BucketOf(peer(p)) = PUBKEYS /\ PUBKEYS \in Buckets
  BY EntryFacts, IndexFacts DEF BucketOf
<1>3. ListTypes' /\ ChainInv'
  BY <1>0, <1>1, <1>2, AddChain
<1>4. PlTypeOK'
  BY <1>0, <1>1, <1>3 DEF PlTypeOK
<1>5. \A n \in Entries : hashed'[n] <=> hashed[n] \/ n = peer(p)
  BY <1>0, <1>1 DEF ListTypes
<1>6. IndexInv'
  <2>1. \A n \in Entries : index[n] = PubkeyOf(p) => n = peer(p)
    <3> SUFFICES ASSUME NEW n \in Entries, index[n] = PubkeyOf(p) PROVE n = peer(p)
      OBVIOUS
    <3>1. n[2] = "peer"
      BY <1>0, IndexFacts DEF IndexInv
    <3>2. n = peer(n[1]) /\ n[1] \in PlPeers
      BY <3>1, EntryFacts
    <3>3. PubkeyOf(n[1]) = PubkeyOf(p)
      BY <1>0, <3>2 DEF IndexInv
    <3> QED BY <3>2, <3>3, IndexFacts
  <2>2. index[peer(p)] = PubkeyOf(p)
    BY <1>0 DEF IndexInv
  <2>3. IndexUnique'
    BY <1>0, <1>1, <1>2, <1>5, <2>1, <2>2 DEF IndexInv, IndexUnique
  <2>4. \A q \in PlPeers : handshake(q) \in Entries /\ handshake(q) # peer(p)
    BY EntryFacts
  <2> QED BY <1>0, <1>1, <1>2, <1>5, <2>3, <2>4 DEF IndexInv
<1>7. WalkInv'
  BY <1>1 DEF WalkInv
<1>8. StableEntryFound' /\ FoundWasThere'
  BY <1>0, <1>1, DoneKept
<1> QED BY <1>3, <1>4, <1>6, <1>7, <1>8 DEF PlInv

-------------------------------------------------------------------------------
(* The readers.                                                              *)

(* A lookup begins at the head of the chain of the index.                    *)
LEMMA StartStep ==
  ASSUME PlInv, NEW r \in Readers, NEW i \in Wanted \ {NULL}, NEW b \in Buckets,
         NEW mask \in SUBSET {"handshake", "keypair", "peer"},
         \A e \in Entries : hashed[e] /\ index[e] = i => BucketOf(e) = b,
         StartLookup(r, i, b, mask),
         UNCHANGED <<first, link, hashed, index, inserting, released, inserts>>
  PROVE  PlInv'
<1>0. PlTypeOK /\ ChainInv /\ IndexInv /\ WalkInv /\ StableEntryFound /\ FoundWasThere /\ ListTypes
  BY DEF PlInv, PlTypeOK
<1> DEFINE there == {e \in Entries : hashed[e] /\ index[e] = i}
           l == [pc |-> "walk", at |-> first[b], want |-> i, mask |-> mask, found |-> NULL,
                 stable |-> there, seen |-> there, moved |-> FALSE]
<1>1. reader' = [reader EXCEPT ![r] = l]
  BY DEF StartLookup
<1>2. l \in Lookups
  BY <1>0 DEF Lookups, ListTypes
<1>3. /\ l.pc = "walk" /\ l.at = first[b] /\ l.want = i /\ l.stable = there /\ l.seen = there
  OBVIOUS
<1> HIDE DEF l
<1>4. PlTypeOK'
  BY <1>0, <1>1, <1>2 DEF PlTypeOK, ListTypes
<1>5. ChainInv' /\ IndexInv'
  BY <1>0 DEF ChainInv, IndexInv, IndexUnique, BucketOf
<1>6. reader'[r] = l /\ \A q \in Readers : q # r => reader'[q] = reader[q]
  BY <1>0, <1>1 DEF PlTypeOK
<1>7. SeenInv(r)' /\ StableInv(r)'
  <2>1. \A n \in Entries : Ahead(link, first[b], n) => hashed[n]
    <3> SUFFICES ASSUME NEW n \in Entries, Ahead(link, first[b], n) PROVE hashed[n]
      OBVIOUS
    <3>1. first[b] # NULL
      BY EntryFacts DEF Ahead
    <3>2. hashed[first[b]]
      BY <1>0, <3>1 DEF ChainInv
    <3> QED BY <1>0, <3>2, AheadHashed
  <2>2. SeenInv(r)'
    BY <1>3, <1>6, <2>1 DEF SeenInv
  <2>3. ASSUME NEW e \in there
        PROVE  /\ hashed[e] /\ index[e] = i /\ Ahead(link, first[b], e)
               /\ \A n \in Entries : Ahead(link, first[b], n) /\ index[n] = i => n = e
    BY <1>0, <2>1 DEF ChainInv, IndexInv, IndexUnique
  <2> HIDE DEF there
  <2>4. StableInv(r)'
    BY <1>3, <1>6, <2>3 DEF StableInv
  <2> QED BY <2>2, <2>4
<1>8. WalkInv'
  BY <1>0, <1>6, <1>7 DEF WalkInv, SeenInv, StableInv
<1>9. StableEntryFound' /\ FoundWasThere'
  <2>1. \A q \in Readers : reader'[q].pc = "done" => reader'[q] = reader[q]
    BY <1>3, <1>6
  <2> QED BY <1>0, <2>1, DoneKept
<1> QED BY <1>4, <1>5, <1>8, <1>9 DEF PlInv

(* wg_index_hashtable_lookup and wg_pubkey_hashtable_lookup take the chain   *)
(* that the index belongs to.                                                *)
LEMMA LookupStep ==
  ASSUME PlInv, NEW r \in Readers,
         wg_index_hashtable_lookup(r) \/ wg_pubkey_hashtable_lookup(r)
  PROVE  PlInv'
<1>0. IndexInv
  BY DEF PlInv
<1>1. CASE wg_index_hashtable_lookup(r)
  <2>1. PICK i \in Indices, mask \in {{"handshake"}, {"keypair"}} :
           StartLookup(r, i, index_bucket(i), mask)
    BY <1>1 DEF wg_index_hashtable_lookup
  <2>2. \A e \in Entries : hashed[e] /\ index[e] = i => BucketOf(e) = index_bucket(i)
    <3> SUFFICES ASSUME NEW e \in Entries, index[e] = i PROVE e[2] # "peer"
      BY DEF BucketOf
    <3>1. e[2] = "peer" => index[e] = PubkeyOf(e[1])
      BY <1>0, EntryFacts DEF IndexInv
    <3> QED BY <3>1, IndexFacts
  <2>3. i \in Wanted \ {NULL} /\ index_bucket(i) \in Buckets
    BY IndexFacts DEF Wanted
  <2>4. UNCHANGED <<first, link, hashed, index, inserting, released, inserts>>
    BY <1>1 DEF wg_index_hashtable_lookup
  <2> QED BY <2>1, <2>2, <2>3, <2>4, StartStep
<1>2. CASE wg_pubkey_hashtable_lookup(r)
  <2>1. PICK p \in PlPeers : StartLookup(r, PubkeyOf(p), PUBKEYS, {"peer"})
    BY <1>2 DEF wg_pubkey_hashtable_lookup
  <2>2. \A e \in Entries : hashed[e] /\ index[e] = PubkeyOf(p) => BucketOf(e) = PUBKEYS
    BY <1>0, IndexFacts DEF IndexInv, BucketOf
  <2>3. PubkeyOf(p) \in Wanted \ {NULL} /\ PUBKEYS \in Buckets
    BY IndexFacts DEF Wanted
  <2>4. UNCHANGED <<first, link, hashed, index, inserting, released, inserts>>
    BY <1>2 DEF wg_pubkey_hashtable_lookup
  <2> QED BY <2>1, <2>2, <2>3, <2>4, StartStep
<1> QED BY <1>1, <1>2

(* lookup_step: past an entry of another index everything that stays is      *)
(* still ahead; an entry of the index is the one that stays, if any does.    *)
LEMMA WalkStep ==
  ASSUME PlInv, NEW r \in Readers, lookup_step(r)
  PROVE  PlInv'
<1>0. PlTypeOK /\ ChainInv /\ IndexInv /\ WalkInv /\ StableEntryFound /\ FoundWasThere /\ ListTypes
  BY DEF PlInv, PlTypeOK
<1>1. PICK l \in Lookups : l = reader[r]
  BY <1>0 DEF PlTypeOK
<1>2. l.pc = "walk" /\ UNCHANGED <<first, link, hashed, index, inserting, released>>
  BY <1>1 DEF lookup_step
<1>3. SeenInv(r) /\ StableInv(r)
  BY <1>0, <1>1, <1>2 DEF WalkInv
<1>4. ChainInv' /\ IndexInv'
  BY <1>0, <1>2 DEF ChainInv, IndexInv, IndexUnique, BucketOf
<1>5. ASSUME NEW m \in Lookups, reader' = [reader EXCEPT ![r] = m],
             m.pc = "walk" => SeenInv(r)' /\ StableInv(r)',
             m.pc = "done" => /\ m.found = NULL /\ ~m.moved
                                   => \A e \in m.stable : e[2] \notin m.mask \/ e[1] \in released
                              /\ m.found # NULL => m.found \in m.seen \/ m.found[2] = "handshake"
      PROVE  PlInv'
  <2>1. reader'[r] = m /\ \A q \in Readers : q # r => reader'[q] = reader[q]
    BY <1>0, <1>5 DEF PlTypeOK
  <2>2. PlTypeOK'
    BY <1>0, <1>2, <1>5 DEF PlTypeOK, ListTypes
  <2>3. WalkInv'
    BY <1>0, <1>2, <1>5, <2>1 DEF WalkInv, SeenInv, StableInv
  <2>4. StableEntryFound'
    BY <1>0, <1>2, <1>5, <2>1 DEF StableEntryFound
  <2>5. FoundWasThere'
    BY <1>0, <1>2, <1>5, <2>1 DEF FoundWasThere
  <2> QED BY <1>4, <2>2, <2>3, <2>4, <2>5 DEF PlInv
<1>6. CASE l.at = NULL
  <2> DEFINE m == [l EXCEPT !.pc = "done", !.found = NULL]
  <2>1. reader' = [reader EXCEPT ![r] = m]
    BY <1>1, <1>6 DEF lookup_step, Done
  <2>2. m \in Lookups /\ m.pc = "done" /\ m.found = NULL /\ m.moved = l.moved /\ m.stable = l.stable
    BY DEF Lookups
  <2>3. ~l.moved => l.stable = {}
    BY <1>1, <1>3, <1>6, EntryFacts DEF StableInv, Ahead
  <2> HIDE DEF m
  <2> QED BY <1>5, <2>1, <2>2, <2>3
<1>7. CASE l.at # NULL /\ index[l.at] = l.want
  <2> DEFINE ok == l.at[2] \in l.mask /\ l.at[1] \notin released
             m == [l EXCEPT !.pc = "done", !.found = IF ok THEN l.at ELSE NULL]
  <2>0. l.at \in Entries
    BY <1>7 DEF Lookups
  <2>1. reader' = [reader EXCEPT ![r] = m]
    BY <1>1, <1>7 DEF lookup_step, Done
  <2>2. /\ m \in Lookups /\ m.pc = "done" /\ m.found = (IF ok THEN l.at ELSE NULL)
        /\ m.moved = l.moved /\ m.stable = l.stable /\ m.seen = l.seen /\ m.mask = l.mask
    BY <2>0 DEF Lookups
  <2>3. Ahead(link, l.at, l.at)
    BY <2>0, AheadSelf
  <2>4. ~l.moved => \A e \in l.stable : l.at = e
    BY <1>1, <1>3, <1>7, <2>0, <2>3 DEF StableInv
  <2>5. l.at \in l.seen \/ l.at[2] = "handshake"
    BY <1>1, <1>3, <1>7, <2>0, <2>3 DEF SeenInv
  <2> HIDE DEF m
  <2> QED BY <1>5, <1>7, <2>1, <2>2, <2>4, <2>5
<1>8. CASE l.at # NULL /\ index[l.at] # l.want
  <2> DEFINE m == [l EXCEPT !.at = link[l.at]]
  <2>0. l.at \in Entries /\ link[l.at] \in Entries \cup {NULL}
    BY <1>0, <1>8 DEF Lookups, ListTypes, Links
  <2>1. reader' = [reader EXCEPT ![r] = m]
    BY <1>1, <1>8 DEF lookup_step
  <2>2. /\ m \in Lookups /\ m.pc = l.pc /\ m.at = link[l.at] /\ m.want = l.want
        /\ m.moved = l.moved /\ m.stable = l.stable /\ m.seen = l.seen
    BY <2>0 DEF Lookups
  <2> HIDE DEF m
  <2>3. reader'[r] = m
    BY <1>0, <2>1 DEF PlTypeOK
  <2>4. \A n \in Entries : Ahead(link, link[l.at], n) => Ahead(link, l.at, n)
    <3> SUFFICES ASSUME NEW n \in Entries, Ahead(link, link[l.at], n) PROVE Ahead(link, l.at, n)
      OBVIOUS
    <3>1. link[l.at] # NULL
      BY EntryFacts DEF Ahead
    <3> QED BY <2>0, <3>1, AheadBack
  <2>5. SeenInv(r)'
    BY <1>1, <1>2, <1>3, <2>2, <2>3, <2>4 DEF SeenInv
  <2>6. StableInv(r)'
    <3> SUFFICES ASSUME ~l.moved, NEW e \in l.stable
                 PROVE  /\ hashed[e] /\ index[e] = l.want /\ Ahead(link, link[l.at], e)
                        /\ \A n \in Entries : Ahead(link, link[l.at], n) /\ index[n] = l.want => n = e
      BY <1>2, <2>2, <2>3 DEF StableInv
    <3>1. /\ hashed[e] /\ index[e] = l.want /\ Ahead(link, l.at, e)
          /\ \A n \in Entries : Ahead(link, l.at, n) /\ index[n] = l.want => n = e
      BY <1>1, <1>3 DEF StableInv
    <3>2. e # l.at
      BY <1>8, <3>1
    <3>3. Ahead(link, link[l.at], e)
      BY <1>0, <3>1, <3>2, AheadStep DEF ListTypes
    <3> QED BY <2>4, <3>1, <3>3
  <2> QED BY <1>2, <1>5, <2>1, <2>2, <2>5, <2>6
<1> QED BY <1>6, <1>7, <1>8

-------------------------------------------------------------------------------
(* All invariants hold initially.                                            *)
LEMMA PlInitially == PlInit => PlInv
<1> SUFFICES ASSUME PlInit PROVE PlInv
  OBVIOUS
<1>1. NoLookup \in Lookups /\ NoLookup.pc = "idle"
  BY DEF NoLookup, Lookups, Wanted
<1>2. ASSUME NEW e \in Entries PROVE /\ e[2] = "peer" => index[e] = PubkeyOf(e[1]) /\ e[1] \in PlPeers
                                     /\ e[2] # "peer" => index[e] = NULL
  BY EntryFacts DEF PlInit
<1>3. ListTypes
  BY DEF PlInit, ListTypes, Links
<1>4. index \in [Entries -> Wanted]
  BY <1>2 DEF PlInit, Wanted
<1>5. PlTypeOK
  BY <1>1, <1>3, <1>4 DEF PlTypeOK, PlInit
<1>6. ChainInv
  BY DEF PlInit, ChainInv
<1>7. IndexInv
  BY <1>2, EntryFacts DEF PlInit, IndexInv, IndexUnique
<1>8. \A r \in Readers : reader[r].pc = "idle"
  BY <1>1 DEF PlInit
<1> QED BY <1>5, <1>6, <1>7, <1>8 DEF PlInv, WalkInv, StableEntryFound, FoundWasThere

(* Every step keeps them.                                                    *)
LEMMA PlStep ==
  ASSUME PlInv, [PlNext]_pl_vars
  PROVE  PlInv'
<1>0. PlTypeOK
  BY DEF PlInv
<1>1. ASSUME NEW p \in PlPeers, insert_begin(p) PROVE PlInv'
  <2>1. handshake(p) \in Entries
    BY EntryFacts
  <2>2. /\ inserting' \in [PlPeers -> {"no", "search", "lock"}]
        /\ \A q \in PlPeers : \/ inserting'[q] = inserting[q]
                              \/ inserting'[q] = "search" /\ handshake(p) = handshake(q)
    BY <1>0, <1>1 DEF insert_begin, PlTypeOK
  <2>3. /\ Relink(hlist_del_init_rcu(handshake(p))) /\ UNCHANGED <<index, released>>
        /\ hashed' = [hashed EXCEPT ![handshake(p)] = FALSE]
        /\ Noticed(handshake(p), NULL, NULL, FALSE)
    BY <1>1 DEF insert_begin
  <2> QED BY <2>1, <2>2, <2>3, DelStep
<1>2. ASSUME NEW e \in Entries, wg_index_hashtable_remove(e) PROVE PlInv'
  <2>1. /\ Relink(hlist_del_init_rcu(e)) /\ UNCHANGED <<index, inserting, released>>
        /\ hashed' = [hashed EXCEPT ![e] = FALSE] /\ Noticed(e, NULL, NULL, FALSE)
    BY <1>2 DEF wg_index_hashtable_remove
  <2>2. /\ inserting' \in [PlPeers -> {"no", "search", "lock"}]
        /\ \A q \in PlPeers : inserting'[q] = inserting[q]
    BY <1>0, <2>1 DEF PlTypeOK
  <2> QED BY <2>1, <2>2, DelStep
<1>3. ASSUME NEW p \in PlPeers, kref_release(p) PROVE PlInv'
  <2>1. UNCHANGED <<first, link, hashed, index, inserting, reader>> /\ released \subseteq released'
    BY <1>3 DEF kref_release
  <2>2. PlTypeOK' /\ ChainInv' /\ IndexInv' /\ WalkInv'
    BY <2>1, TablesSame
       DEF PlInv, PlTypeOK, ListTypes, ChainInv, IndexInv, IndexUnique, BucketOf
  <2>3. StableEntryFound' /\ FoundWasThere'
    BY <2>1, DoneKept DEF PlInv
  <2> QED BY <2>2, <2>3 DEF PlInv
<1>4. CASE UNCHANGED pl_vars
  <2>1. PlTypeOK' /\ ChainInv' /\ IndexInv' /\ WalkInv'
    BY <1>4, TablesSame
       DEF pl_vars, PlInv, PlTypeOK, ListTypes, ChainInv, IndexInv, IndexUnique, BucketOf
  <2>2. StableEntryFound' /\ FoundWasThere'
    BY <1>4, DoneKept DEF PlInv, pl_vars
  <2> QED BY <2>1, <2>2 DEF PlInv
<1> QED BY <1>1, <1>2, <1>3, <1>4, SearchStep, InsertStep, PubkeyStep, ReplaceStep, LookupStep,
           WalkStep DEF PlNext

(* peerlookup.c for any peers, keypairs, readers, indices and buckets: an     *)
(* index names one entry although it is found free without the lock, a lookup *)
(* that nothing moves under finds an entry that stays in the table, and what  *)
(* a lookup returns was there while it looked.                                *)
THEOREM LookupCorrect == PlSpec => []LookupFindsExactly
<1>1. PlInv => LookupFindsExactly
  BY DEF PlInv, IndexInv, LookupFindsExactly
<1>2. PlInv /\ [PlNext]_pl_vars => PlInv'
  BY PlStep
<1> QED BY <1>1, <1>2, PlInitially, PTL DEF PlSpec
===============================================================================
