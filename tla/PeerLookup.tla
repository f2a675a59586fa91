------------------------------ MODULE PeerLookup ------------------------------
(***************************************************************************)
(* peerlookup.c: the index table and the public-key table, link by link.    *)
(* Writers hold the table's lock for a step; readers walk a chain under RCU *)
(* with no lock at all, one link per step, while entries are removed,       *)
(* replaced and put back under another index.                               *)
(***************************************************************************)
EXTENDS Integers, FiniteSets

CONSTANTS
    PlPeers,      \* peers of the device
    Keypairs,     \* Keypairs[p]: the keypair objects of p
    Readers,      \* receive handlers that look entries up
    Numbers,      \* the values of random indices
    BUCKETS,      \* buckets of the index table
    MaxInserts    \* bound: handshakes a peer starts

VARIABLES
    first,      \* first[b]: the first entry of a bucket
    link,       \* link[e]: the next entry, kept when e is taken off
    hashed,     \* is e in a table?
    index,      \* entry->index
    inserting,  \* where wg_index_hashtable_insert of each peer stands
    reader,     \* where each lookup stands
    released,   \* peers whose last reference is gone
    inserts     \* how many inserts have begun

pl_vars == <<first, link, hashed, index, inserting, reader, released, inserts>>

NULL == <<>>
handshake(p) == <<p, "handshake">>
keypair(p, k) == <<p, "keypair", k>>
peer(p) == <<p, "peer">>
Entries == {handshake(p) : p \in PlPeers} \cup {peer(p) : p \in PlPeers}
              \cup UNION {{keypair(p, k) : k \in Keypairs[p]} : p \in PlPeers}

\* The public-key table is one more chain; a public key never changes.
PUBKEYS == <<"pubkeys">>
PubkeyOf(p) == <<"key", p>>
Indices == {<<"index", n>> : n \in Numbers}
index_bucket(i) == <<"bucket", i[2] % BUCKETS>>
Buckets == {PUBKEYS} \cup {index_bucket(i) : i \in Indices}

NoLookup == [pc |-> "idle", at |-> NULL, want |-> NULL, mask |-> {}, found |-> NULL,
             stable |-> {}, seen |-> {}, moved |-> FALSE]

PlInit ==
    /\ first = [b \in Buckets |-> NULL]
    /\ link = [e \in Entries |-> NULL]
    /\ hashed = [e \in Entries |-> FALSE]
    /\ index = [e \in Entries |-> IF e[2] = "peer" THEN PubkeyOf(e[1]) ELSE NULL]
    /\ inserting = [p \in PlPeers |-> "no"]
    /\ reader = [r \in Readers |-> NoLookup]
    /\ released = {} /\ inserts = 0

--------------------------------------------------------------------------------
(* hlist operations, as they act on first, link and hashed *)

\* Slip: the entry's own link is cleared as well.
Slip_del_clears_link(e) ==
    IF ~hashed[e] THEN [first |-> first, link |-> link]
    ELSE [first |-> [b \in Buckets |-> IF first[b] = e THEN link[e] ELSE first[b]],
          link |-> [n \in Entries |-> IF n = e THEN NULL
                                      ELSE IF hashed[n] /\ link[n] = e THEN link[e] ELSE link[n]]]

\* The neighbours close the gap, the entry keeps its own link for readers on it.
hlist_del_init_rcu(e) ==
    IF ~hashed[e] THEN [first |-> first, link |-> link]
    ELSE [first |-> [b \in Buckets |-> IF first[b] = e THEN link[e] ELSE first[b]],
          link |-> [n \in Entries |-> IF hashed[n] /\ link[n] = e THEN link[e] ELSE link[n]]]

hlist_add_head_rcu(e, b) ==
    [first |-> [first EXCEPT ![b] = e], link |-> [link EXCEPT ![e] = first[b]]]

\* new takes old's place; old's link is cleared at once.
hlist_replace_rcu(old, new) ==
    [first |-> [b \in Buckets |-> IF first[b] = old THEN new ELSE first[b]],
     link |-> [n \in Entries |-> IF n = old THEN NULL
                                 ELSE IF n = new THEN link[old]
                                 ELSE IF hashed[n] /\ link[n] = old THEN new ELSE link[n]]]

Relink(lists) == first' = lists.first /\ link' = lists.link

\* What running lookups get to see of a change: who is no longer there, who is
\* new under their index, and whether an entry they might stand on has moved.
Noticed(gone, new, i, moved) ==
    reader' = [r \in Readers |->
        IF reader[r].pc # "walk" THEN reader[r]
        ELSE [reader[r] EXCEPT !.stable = @ \ {gone},
                               !.seen = IF reader[r].want = i THEN @ \cup {new} ELSE @,
                               !.moved = @ \/ moved]]

--------------------------------------------------------------------------------
\* wg_index_hashtable_insert: the old entry goes, ...
insert_begin(p) ==
    /\ inserting[p] = "no" /\ inserts < MaxInserts
    /\ Relink(hlist_del_init_rcu(handshake(p)))
    /\ hashed' = [hashed EXCEPT ![handshake(p)] = FALSE]
    /\ inserting' = [inserting EXCEPT ![p] = "search"]
    /\ inserts' = inserts + 1
    /\ Noticed(handshake(p), NULL, NULL, FALSE)
    /\ UNCHANGED <<index, released>>

Taken(i) == \E e \in Entries : hashed[e] /\ index[e] = i

\* ... a random index is tried without the lock, ...
insert_search(p) ==
    /\ inserting[p] = "search"
    /\ \E i \in Indices :
         /\ index' = [index EXCEPT ![handshake(p)] = i]
         /\ inserting' = [inserting EXCEPT ![p] = IF Taken(i) THEN "search" ELSE "lock"]
    /\ Noticed(NULL, NULL, NULL, TRUE)
    /\ UNCHANGED <<first, link, hashed, released, inserts>>

\* Slip: nobody looks again once the lock is held.
Slip_no_double_check(p) ==
    LET h == handshake(p)
    IN  /\ inserting[p] = "lock"
        /\ Relink(hlist_add_head_rcu(h, index_bucket(index[h])))
        /\ hashed' = [hashed EXCEPT ![h] = TRUE]
        /\ inserting' = [inserting EXCEPT ![p] = "no"]
        /\ Noticed(NULL, h, index[h], TRUE)
        /\ UNCHANGED <<index, released, inserts>>

\* ... and with it: the index may have been stolen meanwhile.
wg_index_hashtable_insert(p) ==
    LET h == handshake(p)
    IN  /\ inserting[p] = "lock"
        /\ IF Taken(index[h])
           THEN /\ inserting' = [inserting EXCEPT ![p] = "search"]
                /\ UNCHANGED <<first, link, hashed, reader>>
           ELSE /\ Relink(hlist_add_head_rcu(h, index_bucket(index[h])))
                /\ hashed' = [hashed EXCEPT ![h] = TRUE]
                /\ inserting' = [inserting EXCEPT ![p] = "no"]
                /\ Noticed(NULL, h, index[h], TRUE)
        /\ UNCHANGED <<index, released, inserts>>

\* A session begins: the keypair takes the handshake's place under its index.
\* A keypair object is reused only after a grace period.
wg_index_hashtable_replace(p, k) ==
    LET h == handshake(p)
        e == keypair(p, k)
    IN  /\ inserting[p] = "no" /\ hashed[h] /\ ~hashed[e]
        /\ index[e] # NULL => \A r \in Readers : reader[r].pc # "walk"
        /\ index' = [index EXCEPT ![e] = index[h]]
        /\ Relink(hlist_replace_rcu(h, e))
        /\ hashed' = [hashed EXCEPT ![h] = FALSE, ![e] = TRUE]
        /\ Noticed(h, e, index[h], TRUE)
        /\ UNCHANGED <<inserting, released, inserts>>

\* wg_noise_keypair_put, wg_noise_handshake_clear and wg_pubkey_hashtable_remove.
wg_index_hashtable_remove(e) ==
    /\ hashed[e]
    /\ e[2] = "handshake" => inserting[e[1]] = "no"
    /\ Relink(hlist_del_init_rcu(e))
    /\ hashed' = [hashed EXCEPT ![e] = FALSE]
    /\ Noticed(e, NULL, NULL, FALSE)
    /\ UNCHANGED <<index, inserting, released, inserts>>

\* Once, when the peer is created.
wg_pubkey_hashtable_add(p) ==
    /\ ~hashed[peer(p)] /\ link[peer(p)] = NULL /\ p \notin released /\ inserts = 0
    /\ \A r \in Readers : reader[r].pc # "walk"
    /\ Relink(hlist_add_head_rcu(peer(p), PUBKEYS))
    /\ hashed' = [hashed EXCEPT ![peer(p)] = TRUE]
    /\ UNCHANGED <<index, inserting, reader, released, inserts>>

\* The last reference goes once all entries of the peer are off the tables.
kref_release(p) ==
    /\ p \notin released /\ inserting[p] = "no" /\ inserts > 0
    /\ \A e \in Entries : e[1] = p => ~hashed[e]
    /\ released' = released \cup {p}
    /\ UNCHANGED <<first, link, hashed, index, inserting, reader, inserts>>

--------------------------------------------------------------------------------
StartLookup(r, i, b, mask) ==
    reader' = [reader EXCEPT ![r] =
        [pc |-> "walk", at |-> first[b], want |-> i, mask |-> mask, found |-> NULL,
         stable |-> {e \in Entries : hashed[e] /\ index[e] = i},
         seen |-> {e \in Entries : hashed[e] /\ index[e] = i}, moved |-> FALSE]]

wg_index_hashtable_lookup(r) ==
    /\ reader[r].pc \in {"idle", "done"}
    /\ \E i \in Indices, mask \in {{"handshake"}, {"keypair"}} :
         StartLookup(r, i, index_bucket(i), mask)
    /\ UNCHANGED <<first, link, hashed, index, inserting, released, inserts>>

wg_pubkey_hashtable_lookup(r) ==
    /\ reader[r].pc \in {"idle", "done"}
    /\ \E p \in PlPeers : StartLookup(r, PubkeyOf(p), PUBKEYS, {"peer"})
    /\ UNCHANGED <<first, link, hashed, index, inserting, released, inserts>>

Done(r, e) == reader' = [reader EXCEPT ![r].pc = "done", ![r].found = e]

\* Slip: the first entry of the wanted type is taken for a match.
Slip_match_by_type(r) ==
    LET e == reader[r].at
    IN  /\ reader[r].pc = "walk"
        /\ IF e = NULL THEN Done(r, NULL)
           ELSE IF e[2] \in reader[r].mask THEN Done(r, IF e[1] \notin released THEN e ELSE NULL)
           ELSE reader' = [reader EXCEPT ![r].at = link[e]]
        /\ UNCHANGED <<first, link, hashed, index, inserting, released, inserts>>

\* One more entry of the chain; the match counts if its type is asked for and
\* its peer still has a reference to give (wg_peer_get_maybe_zero).
lookup_step(r) ==
    LET e == reader[r].at
    IN  /\ reader[r].pc = "walk"
        /\ IF e = NULL THEN Done(r, NULL)
           ELSE IF index[e] = reader[r].want
                THEN Done(r, IF e[2] \in reader[r].mask /\ e[1] \notin released THEN e ELSE NULL)
           ELSE reader' = [reader EXCEPT ![r].at = link[e]]
        /\ UNCHANGED <<first, link, hashed, index, inserting, released, inserts>>

PlNext ==
    \/ \E p \in PlPeers : \/ insert_begin(p) \/ insert_search(p) \/ wg_index_hashtable_insert(p)
                          \/ wg_pubkey_hashtable_add(p) \/ kref_release(p)
                          \/ \E k \in Keypairs[p] : wg_index_hashtable_replace(p, k)
    \/ \E e \in Entries : wg_index_hashtable_remove(e)
    \/ \E r \in Readers : \/ wg_index_hashtable_lookup(r) \/ wg_pubkey_hashtable_lookup(r)
                          \/ lookup_step(r)

PlSpec == PlInit /\ [][PlNext]_pl_vars

--------------------------------------------------------------------------------
(* An index names one entry, although it was found free without the lock and  *)
(* two peers may have drawn it at once.                                       *)
IndexUnique ==
    \A d, e \in Entries : hashed[d] /\ hashed[e] /\ index[d] = index[e] => d = e

(* A lookup misses an entry that was there all along only when some entry got *)
(* a new index or was replaced meanwhile, the case the comment in                       *)
(* wg_index_hashtable_replace accepts; entries that merely go away never      *)
(* mislead a reader, even one that stands on them.                            *)
StableEntryFound ==
    \A r \in Readers :
       LET l == reader[r]
       IN  l.pc = "done" /\ l.found = NULL /\ ~l.moved
              => \A e \in l.stable : e[2] \notin l.mask \/ e[1] \in released

(* What a lookup returns was in the table under the index asked for at some   *)
(* moment of the lookup, or is an entry that was just being put there.        *)
FoundWasThere ==
    \A r \in Readers :
       LET l == reader[r]
       IN  l.pc = "done" /\ l.found # NULL
              => \/ l.found \in l.seen
                 \/ l.found[2] = "handshake"

(* All three: a lookup that walks a bucket while it changes finds an entry    *)
(* that is there all the time, finds none that was not there during the walk, *)
(* and no two entries share an index.                                         *)
LookupFindsExactly == StableEntryFound /\ IndexUnique /\ FoundWasThere

==============================================================================
