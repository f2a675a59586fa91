----------------------------- MODULE RateLimiter -----------------------------
(***************************************************************************)
(* ratelimiter.c: a token bucket per source address in a table shared by    *)
(* all handshake workers, a garbage collector that runs every second, and   *)
(* the reference count that brings table and collector up and down.         *)
(*                                                                          *)
(* Time is counted in units of PACKET_COST and wraps at 2^64, here Wrap.    *)
(* An allow call is split where it holds no lock: between finding an entry  *)
(* and locking it, between missing it and reserving one, between filling in *)
(* the new entry and linking it. The collector reads the clock once and     *)
(* then visits the buckets one by one.                                      *)
(*                                                                          *)
(* meter is history: for each source a reference bucket that the code does  *)
(* not have, with one refill per PACKET_COST and one packet off per packet  *)
(* let through, and what the races RateBounded names have added to it.      *)
(***************************************************************************)
EXTENDS Integers, Sequences, FiniteSetsExt, SequencesExt

CONSTANTS
    Sources,            \* source addresses; each has a bucket of its own
    Callers,            \* handshake workers that call wg_ratelimiter_allow
    PACKETS_BURSTABLE,  \* TOKEN_MAX, in units of PACKET_COST
    SECOND,             \* NSEC_PER_SEC and HZ, in units of PACKET_COST
    max_entries,
    MaxUsers,           \* bound: devices that hold the limiter at once
    EndOfTime,          \* bound: the last tick of the clock
    Wrap                \* the modulus of u64 arithmetic

\* 0 < PACKETS_BURSTABLE <= SECOND, and Wrap is more than twice EndOfTime.

VARIABLES
    now,            \* ktime_get_coarse_boottime_ns
    table,          \* table[s]: the chain of s, newest entry first
    entries,        \* the allocated entries: last_time and tokens of each
    total_entries,
    caller,         \* where each call of wg_ratelimiter_allow stands
    gc,             \* the collector: pc, when it is due or the clock it read, buckets to visit
    init_refcnt,
    meter           \* history: the reference bucket of each source

rl_vars == <<now, table, entries, total_entries, caller, gc, init_refcnt, meter>>

EntryIds == 1 .. max_entries
NoEntry == [last_time |-> 0, tokens |-> -1]
NoCall == [pc |-> "idle", src |-> CHOOSE s \in Sources : TRUE, e |-> 0]
NoGc == [pc |-> "off", now |-> 0, todo |-> {}]
FullMeter == [left |-> PACKETS_BURSTABLE, raced |-> 0]

Init ==
    /\ now = 0 /\ total_entries = 0 /\ init_refcnt = 0
    /\ table = [s \in Sources |-> <<>>]
    /\ entries = [e \in EntryIds |-> NoEntry]
    /\ meter = [s \in Sources |-> FullMeter]
    /\ caller = [c \in Callers |-> NoCall]
    /\ gc = NoGc

Allocated == {e \in EntryIds : entries[e] # NoEntry}
Linked == UNION {Range(table[s]) : s \in Sources}
\* The entries of calls that have filled one in and not linked it yet.
InHand == {caller[c].e : c \in {d \in Callers : caller[d].pc = "link"}}
\* Unlinked, and waiting for the grace period.
Dying == Allocated \ (Linked \union InHand)

--------------------------------------------------------------------------------
\* The first user sets up the table and starts the collector; allocation may fail.
wg_ratelimiter_init ==
    /\ init_refcnt < MaxUsers
    /\ init_refcnt' = init_refcnt + 1
    /\ gc' = IF init_refcnt = 0 THEN [NoGc EXCEPT !.pc = "queued", !.now = now + SECOND] ELSE gc
    /\ UNCHANGED <<now, table, entries, total_entries, caller, meter>>

\* The last user cancels the collector, empties the table and waits for RCU.
\* No call is left: the devices have stopped their workers.
wg_ratelimiter_uninit ==
    /\ init_refcnt > 0
    /\ init_refcnt' = init_refcnt - 1
    /\ IF init_refcnt > 1
       THEN UNCHANGED <<table, entries, total_entries, gc, meter>>
       ELSE /\ gc.pc # "run"
            /\ \A c \in Callers : caller[c].pc = "idle"
            /\ gc' = NoGc
            /\ table' = [s \in Sources |-> <<>>]
            /\ entries' = [e \in EntryIds |-> NoEntry]
            /\ meter' = [s \in Sources |-> FullMeter]
            /\ total_entries' = total_entries - Cardinality(Linked \union Dying)
    /\ UNCHANGED <<now, caller>>

\* What the reference bucket of s shows after one more packet, when a race has
\* added n to what the source may get.
Passed(s, n) == [meter EXCEPT ![s].left = @ - 1, ![s].raced = @ + n]

\* The chain is walked under RCU alone.
allow_find(c, s) ==
    /\ init_refcnt > 0 /\ caller[c].pc = "idle"
    /\ table[s] # <<>>
    /\ caller' = [caller EXCEPT ![c] = [pc |-> "found", src |-> s, e |-> Head(table[s])]]
    /\ UNCHANGED <<now, table, entries, total_entries, gc, init_refcnt, meter>>

\* Under the entry's lock: refill, then pay if the bucket allows. The entry may
\* have been unlinked since it was found, or have another in front of it.
allow_found(c) ==
    LET s == caller[c].src
        e == caller[c].e
        filled == entries[e].tokens + (now - entries[e].last_time)
        tokens == IF filled < PACKETS_BURSTABLE THEN filled ELSE PACKETS_BURSTABLE
        late == table[s] = <<>> \/ Head(table[s]) # e
    IN  /\ caller[c].pc = "found"
        /\ entries' = [entries EXCEPT ![e] =
              [last_time |-> now, tokens |-> IF tokens >= 1 THEN tokens - 1 ELSE tokens]]
        /\ meter' = IF tokens >= 1 THEN Passed(s, IF late THEN 1 ELSE 0) ELSE meter
        /\ caller' = [caller EXCEPT ![c] = NoCall]
        /\ UNCHANGED <<now, table, total_entries, gc, init_refcnt>>

\* No entry: out of the RCU section the caller reserves one, or refuses.
allow_reserve(c, s) ==
    /\ init_refcnt > 0 /\ caller[c].pc = "idle"
    /\ table[s] = <<>>
    /\ total_entries' = total_entries + 1
    /\ caller' = [caller EXCEPT ![c] =
          [pc |-> IF total_entries' > max_entries THEN "refuse" ELSE "insert", src |-> s, e |-> 0]]
    /\ UNCHANGED <<now, table, entries, gc, init_refcnt, meter>>

\* The chain of s has an entry, or another call is about to link one.
AnotherEntry(c, s) ==
    table[s] # <<>> \/ \E d \in Callers \ {c} : caller[d].pc = "link" /\ caller[d].src = s

\* An entry is allocated and filled in: its packet is let through.
Fill(c, tokens) ==
    LET e == Min(EntryIds \ Allocated)
        s == caller[c].src
    IN  /\ caller[c].pc = "insert"
        /\ entries' = [entries EXCEPT ![e] = [last_time |-> now, tokens |-> tokens]]
        /\ caller' = [caller EXCEPT ![c].pc = "link", ![c].e = e]
        /\ meter' = Passed(s, IF AnotherEntry(c, s) THEN PACKETS_BURSTABLE + 1 ELSE 0)
        /\ UNCHANGED <<now, table, total_entries, gc, init_refcnt>>

\* Slip: the packet that creates an entry is free.
Slip_insert_full_bucket(c) == Fill(c, PACKETS_BURSTABLE)

allow_fill(c) == Fill(c, PACKETS_BURSTABLE - 1)

\* The entry goes to the head of its chain without another look at it.
allow_insert(c) ==
    LET s == caller[c].src
    IN  /\ caller[c].pc = "link"
        /\ table' = [table EXCEPT ![s] = <<caller[c].e>> \o @]
        /\ caller' = [caller EXCEPT ![c] = NoCall]
        /\ UNCHANGED <<now, entries, total_entries, gc, init_refcnt, meter>>

\* Slip: a failed allocation keeps its reservation.
Slip_failed_alloc_counts(c) ==
    /\ caller[c].pc \in {"insert", "refuse"}
    /\ caller' = [caller EXCEPT ![c] = NoCall]
    /\ UNCHANGED <<now, table, entries, total_entries, gc, init_refcnt, meter>>

\* err_oom: the table is full or kmem_cache_alloc fails.
allow_oom(c) ==
    /\ caller[c].pc \in {"insert", "refuse"}
    /\ total_entries' = total_entries - 1
    /\ caller' = [caller EXCEPT ![c] = NoCall]
    /\ UNCHANGED <<now, table, entries, gc, init_refcnt, meter>>

--------------------------------------------------------------------------------
\* The delayed work runs, HZ after it was queued: it reads the clock once.
gc_start ==
    /\ gc.pc = "queued" /\ now >= gc.now
    /\ gc' = [pc |-> "run", now |-> now, todo |-> Sources]
    /\ UNCHANGED <<now, table, entries, total_entries, caller, init_refcnt, meter>>

\* Slip: the age is not compared with a second.
Slip_any_age(e) == (gc.now - entries[e].last_time) % Wrap > 0

\* now - last_time_ns > NSEC_PER_SEC, in u64: an entry used since the clock was
\* read looks ages old.
Expired(e) == (gc.now - entries[e].last_time) % Wrap > SECOND

wg_ratelimiter_gc_entries(s) ==
    LET gone == {e \in Range(table[s]) : Expired(e)}
        inuse == Cardinality({e \in gone : entries[e].last_time > gc.now})
    IN  /\ gc.pc = "run" /\ s \in gc.todo
        /\ gc' = IF gc.todo = {s} THEN [NoGc EXCEPT !.pc = "queued", !.now = now + SECOND]
                                  ELSE [gc EXCEPT !.todo = @ \ {s}]
        /\ table' = [table EXCEPT ![s] = SelectSeq(@, LAMBDA e : e \notin gone)]
        /\ meter' = [meter EXCEPT ![s].raced = @ + inuse * PACKETS_BURSTABLE]
        /\ UNCHANGED <<now, entries, total_entries, caller, init_refcnt>>

\* A grace period ends: nobody is left that found the entry. It leaves the count.
entry_free(e) ==
    /\ e \in Dying
    /\ \A c \in Callers : ~(caller[c].pc = "found" /\ caller[c].e = e)
    /\ entries' = [entries EXCEPT ![e] = NoEntry]
    /\ total_entries' = total_entries - 1
    /\ UNCHANGED <<now, table, caller, gc, init_refcnt, meter>>

rl_Tick ==
    /\ now < EndOfTime
    /\ now' = now + 1
    /\ meter' = [s \in Sources |->
          [meter[s] EXCEPT !.left = IF @ < PACKETS_BURSTABLE THEN @ + 1 ELSE @]]
    /\ UNCHANGED <<table, entries, total_entries, caller, gc, init_refcnt>>

Next ==
    \/ wg_ratelimiter_init \/ wg_ratelimiter_uninit
    \/ \E c \in Callers : \/ \E s \in Sources : allow_find(c, s) \/ allow_reserve(c, s)
                          \/ allow_found(c) \/ allow_fill(c) \/ allow_insert(c) \/ allow_oom(c)
    \/ gc_start \/ rl_Tick
    \/ \E s \in Sources : wg_ratelimiter_gc_entries(s)
    \/ \E e \in EntryIds : entry_free(e)

Spec == Init /\ [][Next]_rl_vars

--------------------------------------------------------------------------------
(* total_entries counts the entries in the table, those being added and those *)
(* that wait for their grace period; it never passes max_entries and is back  *)
(* at zero when the last user is gone, so the limiter cannot wear out.        *)
EntriesCounted ==
    /\ total_entries = Cardinality(Allocated)
                         + Cardinality({c \in Callers : caller[c].pc \in {"insert", "refuse"}})
    /\ init_refcnt = 0 => total_entries = 0 /\ gc.pc = "off"

(* Over the whole time the limiter is up, collections and insertions included, *)
(* a source gets no more than one packet per PACKET_COST beyond its burst: an  *)
(* entry that went unused for a second was full, so the one that replaces it   *)
(* gives nothing away. What three races add to that is bounded: a packet and a *)
(* burst for an entry filled in while there is another, by workers that missed *)
(* together; a burst for an entry collected in use, because the collector read *)
(* its clock before the entry's last packet; and one packet for a worker that  *)
(* paid from an entry unlinked or pushed back since it was found.              *)
RateBounded == \A s \in Sources : meter[s].left + meter[s].raced >= 0

==============================================================================
