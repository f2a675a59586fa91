--------------------------- MODULE ReplayCounter ----------------------------
(***************************************************************************)
(* counter_validate (build/wg515-trigger/receive.c), the RFC 6479 replay   *)
(* window: a ring of bitmap words that is advanced word by word.  The      *)
(* spinlock makes a call one step.  Word size, ring size and integer width *)
(* are parameters; the code has 64-bit words, 128 of them, 64-bit          *)
(* counters.                                                               *)
(***************************************************************************)
EXTENDS Integers, FiniteSets

CONSTANTS BITS_PER_LONG,  \* bits of a bitmap word
          Words,          \* COUNTER_BITS_TOTAL / BITS_PER_LONG
          U64_MAX         \* the largest counter value

ASSUME ReplayAssumption == /\ BITS_PER_LONG \in Nat \ {0}
                           /\ Words \in Nat \ {0, 1}
                           /\ U64_MAX \in Nat
                           /\ U64_MAX > BITS_PER_LONG * Words + 1

COUNTER_WINDOW_SIZE == BITS_PER_LONG * Words - BITS_PER_LONG
REJECT_AFTER_MESSAGES == U64_MAX - COUNTER_WINDOW_SIZE - 1

\* u64 arithmetic wraps.
U64(n) == n % (U64_MAX + 1)

VARIABLES counter,    \* one more than the largest counter accepted
          backtrack,  \* the bits set in each word
          accepted    \* history: the counters accepted

vars == <<counter, backtrack, accepted>>

TypeOK == /\ counter \in 0 .. U64_MAX
          /\ backtrack \in [0 .. Words - 1 -> SUBSET (0 .. BITS_PER_LONG - 1)]
          /\ accepted \subseteq 0 .. U64_MAX

Init == /\ counter = 0
        /\ backtrack = [w \in 0 .. Words - 1 |-> {}]
        /\ accepted = {}

\* The early exits: exhausted keys, and counters behind the window.
Rejected(their) ==
    \/ counter >= REJECT_AFTER_MESSAGES + 1
    \/ their >= REJECT_AFTER_MESSAGES
    \/ U64(COUNTER_WINDOW_SIZE + U64(their + 1)) < counter

\* Slip: the last word the window moves into keeps its old bits.
Slip_clears_one_less(c) ==
    LET current == counter \div BITS_PER_LONG
        cleared == {(i + current) % Words : i \in 1 .. c \div BITS_PER_LONG - current - 1}
    IN  IF c > counter
        THEN [w \in 0 .. Words - 1 |-> IF w \in cleared THEN {} ELSE backtrack[w]]
        ELSE backtrack

\* The words the window moves into are cleared, all of them at most once.
Advanced(c) ==
    LET current == counter \div BITS_PER_LONG
        top == IF c \div BITS_PER_LONG - current < Words
               THEN c \div BITS_PER_LONG - current ELSE Words
        cleared == {(i + current) % Words : i \in 1 .. top}
    IN  IF c > counter
        THEN [w \in 0 .. Words - 1 |-> IF w \in cleared THEN {} ELSE backtrack[w]]
        ELSE backtrack

\* Slip: the bit number is not masked to the word.
Slip_bit_unmasked(their) ==
    LET c == U64(their + 1)
        word == (c \div BITS_PER_LONG) % Words
        bits == Advanced(c)
    IN  /\ ~ Rejected(their)
        /\ counter' = IF c > counter THEN c ELSE counter
        /\ backtrack' = [bits EXCEPT ![word] = @ \cup {c}]
        /\ accepted' = IF c \in bits[word] THEN accepted ELSE accepted \cup {their}

counter_validate(their) ==
    LET c == U64(their + 1)
        word == (c \div BITS_PER_LONG) % Words
        bit  == c % BITS_PER_LONG
        bits == Advanced(c)
    IN  /\ ~ Rejected(their)
        /\ counter' = IF c > counter THEN c ELSE counter
        /\ backtrack' = [bits EXCEPT ![word] = @ \cup {bit}]
        /\ accepted' = IF bit \in bits[word] THEN accepted ELSE accepted \cup {their}

Next == \E their \in 0 .. U64_MAX : counter_validate(their)

Spec == Init /\ [][Next]_vars

-----------------------------------------------------------------------------
\* What a call would return.
Accepts(their) == LET c == U64(their + 1) IN
    ~ Rejected(their) /\ c % BITS_PER_LONG \notin Advanced(c)[(c \div BITS_PER_LONG) % Words]

\* The verdict by definition: a counter below the limit, not further behind
\* the newest than the window, not accepted before.
InWindow(their) == /\ counter <= REJECT_AFTER_MESSAGES
                   /\ their < REJECT_AFTER_MESSAGES
                   /\ their + 1 + COUNTER_WINDOW_SIZE >= counter

(* No replay and no false reject: after any history the bitmap's verdict on *)
(* any counter is the verdict by definition; wrap-around of the ring,       *)
(* partially cleared words and the end of the counter range included.       *)
VerdictIsExact ==
    \A their \in 0 .. U64_MAX :
        Accepts(their) <=> InWindow(their) /\ their \notin accepted
=============================================================================
