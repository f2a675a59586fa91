---------------------------- MODULE ReplayProofs ----------------------------
(***************************************************************************)
(* Theorems about ReplayCounter, for any word size, any number of bitmap   *)
(* words and any integer width: the code's 64-bit words, 128 words and     *)
(* 64-bit counters are one instance.                                       *)
(***************************************************************************)
EXTENDS ReplayCounter, TLAPS

-----------------------------------------------------------------------------
(* Division and remainder.                                                  *)

(* A number is quotient times divisor plus a remainder below the divisor.   *)
LEMMA DivMod ==
  ASSUME NEW x \in Nat, NEW d \in Nat \ {0}
  PROVE  \E q \in Nat : \E r \in 0 .. d - 1 :
            x = d * q + r /\ q = x \div d /\ r = x % d
<1> DEFINE q == x \div d  r == x % d
<1>1. q \in Nat /\ r \in 0 .. d - 1
  OBVIOUS
<1>2. x = q * d + r
  OBVIOUS
<1> HIDE DEF q, r
<1>3. x = d * q + r
  BY <1>1, <1>2
<1>4. q = x \div d /\ r = x % d
  BY DEF q, r
<1> QED BY <1>1, <1>3, <1>4

(* ... and only one quotient and one remainder do that.                     *)
LEMMA DivModUnique ==
  ASSUME NEW x \in Nat, NEW d \in Nat \ {0}, NEW q \in Nat,
         NEW r \in 0 .. d - 1, x = d * q + r
  PROVE  x \div d = q /\ x % d = r
OBVIOUS

(* Division is monotonic.                                                   *)
LEMMA DivMonotonic ==
  ASSUME NEW x \in Nat, NEW y \in Nat, NEW d \in Nat \ {0}, x <= y
  PROVE  x \div d <= y \div d
OBVIOUS

(* Numbers less than d apart have different remainders.                     *)
LEMMA ModApart ==
  ASSUME NEW x \in Nat, NEW y \in Nat, NEW d \in Nat \ {0}, y < x, x < y + d
  PROVE  x % d # y % d
<1> SUFFICES ASSUME x % d = y % d PROVE FALSE
  OBVIOUS
<1>1. PICK p \in Nat : \E r \in 0 .. d - 1 : x = d * p + r /\ r = x % d
  BY DivMod
<1>5. PICK r \in 0 .. d - 1 : x = d * p + r /\ r = x % d
  BY <1>1
<1>6. PICK q \in Nat : \E u \in 0 .. d - 1 : y = d * q + u /\ u = y % d
  BY DivMod
<1>7. y = d * q + r
  BY <1>5, <1>6
<1>2. d * p \in Int /\ d * q \in Int
  OBVIOUS
<1>3. CASE p <= q
  <2>1. d * p <= d * q
    BY <1>3
  <2> QED BY <1>5, <1>7, <1>2, <2>1
<1>4. CASE q + 1 <= p
  <2>1. d * (q + 1) <= d * p
    BY <1>4
  <2>2. d * (q + 1) = d * q + d
    OBVIOUS
  <2> QED BY <1>5, <1>7, <1>2, <2>1, <2>2
<1> QED BY <1>3, <1>4

(* d successive numbers have all the remainders.                            *)
LEMMA ModOnto ==
  ASSUME NEW x \in Nat, NEW d \in Nat \ {0}, NEW r \in 0 .. d - 1
  PROVE  \E i \in 1 .. d : (i + x) % d = r
<1>1. PICK q \in Nat, s \in 0 .. d - 1 : x = d * q + s
  BY DivMod
<1>2. d * q \in Nat /\ d * (q + 1) = d * q + d
  OBVIOUS
<1>3. CASE s < r
  <2>1. r - s \in 1 .. d /\ (r - s) + x \in Nat /\ (r - s) + x = d * q + r
    BY <1>1, <1>2, <1>3
  <2> QED BY <2>1, DivModUnique
<1>4. CASE r <= s
  <2>1. /\ r - s + d \in 1 .. d /\ (r - s + d) + x \in Nat
        /\ (r - s + d) + x = d * (q + 1) + r
    BY <1>1, <1>2, <1>4
  <2>2. q + 1 \in Nat
    OBVIOUS
  <2>3. ((r - s + d) + x) % d = r
    BY <2>1, <2>2, DivModUnique
  <2> QED BY <2>1, <2>3
<1> QED BY <1>3, <1>4

-----------------------------------------------------------------------------
(* The bitmap of a window that ends in the word of counter n: word q of the *)
(* last Words words is kept in slot q % Words, and a bit is set exactly if  *)
(* its counter was accepted.                                                *)
Bitmap(bits, n) ==
    \A q \in Nat : \A b \in 0 .. BITS_PER_LONG - 1 :
        q <= n \div BITS_PER_LONG /\ n \div BITS_PER_LONG < q + Words =>
            (b \in bits[q % Words] <=> (BITS_PER_LONG * q + b) - 1 \in accepted)

ReplayInv == /\ TypeOK
             /\ counter <= REJECT_AFTER_MESSAGES
             /\ \A t \in accepted : t + 1 <= counter
             /\ Bitmap(backtrack, counter)

(* The constants are what they are in the code: the window is the bitmap    *)
(* less one word, and no sum in counter_validate wraps.                     *)
LEMMA Constants ==
  /\ BITS_PER_LONG \in Nat \ {0} /\ Words \in Nat \ {0, 1} /\ U64_MAX \in Nat
  /\ COUNTER_WINDOW_SIZE \in Nat
  /\ COUNTER_WINDOW_SIZE = BITS_PER_LONG * (Words - 1)
  /\ REJECT_AFTER_MESSAGES \in Nat
  /\ REJECT_AFTER_MESSAGES + COUNTER_WINDOW_SIZE + 1 = U64_MAX
<1>1. BITS_PER_LONG \in Nat \ {0} /\ Words \in Nat \ {0, 1} /\ U64_MAX \in Nat
  BY ReplayAssumption
<1>2. /\ COUNTER_WINDOW_SIZE = BITS_PER_LONG * (Words - 1)
      /\ COUNTER_WINDOW_SIZE \in Nat
  BY <1>1 DEF COUNTER_WINDOW_SIZE
<1>3. BITS_PER_LONG * Words \in Nat /\ COUNTER_WINDOW_SIZE <= BITS_PER_LONG * Words
  BY <1>1 DEF COUNTER_WINDOW_SIZE
<1> QED BY <1>1, <1>2, <1>3, ReplayAssumption DEF REJECT_AFTER_MESSAGES

(* A value that fits is not changed by the wrap of u64.                     *)
LEMMA U64Fits == ASSUME NEW n \in 0 .. U64_MAX PROVE U64(n) = n
BY Constants DEF U64

(* The early exits turn away exactly the counters outside the window.       *)
LEMMA RejectedIsOutside ==
  ASSUME TypeOK, NEW t \in 0 .. U64_MAX
  PROVE  /\ Rejected(t) <=> ~ InWindow(t)
         /\ InWindow(t) => U64(t + 1) = t + 1
<1>1. CASE t >= REJECT_AFTER_MESSAGES
  BY <1>1, Constants DEF Rejected, InWindow
<1>2. CASE t < REJECT_AFTER_MESSAGES
  <2>1. t + 1 \in 0 .. U64_MAX /\ COUNTER_WINDOW_SIZE + (t + 1) \in 0 .. U64_MAX
    BY <1>2, Constants
  <2>2. U64(t + 1) = t + 1 /\ U64(COUNTER_WINDOW_SIZE + (t + 1)) = COUNTER_WINDOW_SIZE + (t + 1)
    BY <2>1, U64Fits
  <2> QED BY <1>2, <2>2, Constants DEF Rejected, InWindow, TypeOK
<1> QED BY <1>1, <1>2, Constants

(* A counter in the window has its word among the last Words words.         *)
LEMMA WindowWord ==
  ASSUME NEW n \in Nat, NEW c \in Nat, c <= n, c + COUNTER_WINDOW_SIZE >= n
  PROVE  /\ c \div BITS_PER_LONG <= n \div BITS_PER_LONG
         /\ n \div BITS_PER_LONG < c \div BITS_PER_LONG + Words
<1> DEFINE B == BITS_PER_LONG
<1>1. PICK q \in Nat, r \in 0 .. B - 1 : c = B * q + r /\ q = c \div B
  BY DivMod, Constants
<1>2. B * (q + Words) = B * q + B * (Words - 1) + B
  BY Constants
<1>3. n < B * (q + Words)
  <2>1. B * q \in Nat /\ B * (Words - 1) \in Nat
    BY Constants
  <2> QED BY <1>1, <1>2, <2>1, Constants
<1>4. PICK p \in Nat, s \in 0 .. B - 1 : n = B * p + s /\ p = n \div B
  BY DivMod, Constants
<1>5. p < q + Words
  <2> SUFFICES ASSUME q + Words <= p PROVE FALSE
    BY Constants
  <2>1. B * (q + Words) <= B * p
    BY Constants
  <2>2. B * p \in Nat /\ B * (q + Words) \in Nat
    BY Constants
  <2> QED BY <1>3, <1>4, <2>1, <2>2
<1>6. c \div B <= n \div B
  BY DivMonotonic, Constants
<1> QED BY <1>1, <1>4, <1>5, <1>6

\* The counter after a call that is not turned away.
Newest(c) == IF c > counter THEN c ELSE counter

(* What clearing does to one slot: the words between the old end of the     *)
(* window and the new one are emptied, the older words that stay in the     *)
(* window are left alone.                                                   *)
LEMMA AdvancedSlots ==
  ASSUME TypeOK, NEW c \in Nat, c > counter, NEW q \in Nat,
         q <= c \div BITS_PER_LONG, c \div BITS_PER_LONG < q + Words
  PROVE  /\ q > counter \div BITS_PER_LONG => Advanced(c)[q % Words] = {}
         /\ q <= counter \div BITS_PER_LONG =>
              Advanced(c)[q % Words] = backtrack[q % Words]
<1> DEFINE cur == counter \div BITS_PER_LONG
           new == c \div BITS_PER_LONG
           top == IF new - cur < Words THEN new - cur ELSE Words
           cleared == {(i + cur) % Words : i \in 1 .. top}
<1>1. cur \in Nat /\ new \in Nat /\ Words \in Nat \ {0}
  BY Constants DEF TypeOK
<1>2. q % Words \in 0 .. Words - 1
  BY <1>1
<1>3. Advanced(c) = [w \in 0 .. Words - 1 |-> IF w \in cleared THEN {} ELSE backtrack[w]]
  BY DEF Advanced
<1>4. q <= new /\ new < q + Words
  OBVIOUS
<1> HIDE DEF cur, new
<1>5. ASSUME q > cur PROVE q % Words \in cleared
  <2>1. CASE new - cur < Words
    <3>1. q - cur \in 1 .. top /\ (q - cur) + cur = q
      BY <1>1, <1>4, <1>5, <2>1
    <3> QED BY <3>1
  <2>2. CASE ~ (new - cur < Words)
    <3>1. PICK i \in 1 .. Words : (i + cur) % Words = q % Words
      BY <1>1, <1>2, ModOnto
    <3> QED BY <2>2, <3>1
  <2> QED BY <2>1, <2>2
<1>6. ASSUME q <= cur PROVE q % Words \notin cleared
  <2> SUFFICES ASSUME NEW i \in 1 .. top, (i + cur) % Words = q % Words PROVE FALSE
    OBVIOUS
  <2>1. new - cur < Words
    BY <1>1, <1>4, <1>6
  <2>2. i \in 1 .. new - cur
    BY <2>1
  <2>3. i + cur \in Nat /\ q < i + cur /\ i + cur < q + Words
    BY <1>1, <1>4, <1>6, <2>2
  <2> QED BY <1>1, <2>3, ModApart
<1>7. q > cur => Advanced(c)[q % Words] = {}
  BY <1>2, <1>3, <1>5
<1>8. q <= cur => Advanced(c)[q % Words] = backtrack[q % Words]
  BY <1>2, <1>3, <1>6
<1> QED BY <1>7, <1>8 DEF cur

(* After the clearing the bitmap is right for the new end of the window.    *)
LEMMA AdvancedBitmap ==
  ASSUME ReplayInv, NEW c \in Nat
  PROVE  Bitmap(Advanced(c), Newest(c))
<1>1. CASE ~ (c > counter)
  BY <1>1 DEF ReplayInv, Advanced, Newest
<1>2. CASE c > counter
  <2> SUFFICES ASSUME NEW q \in Nat, NEW b \in 0 .. BITS_PER_LONG - 1,
                      q <= c \div BITS_PER_LONG, c \div BITS_PER_LONG < q + Words
      PROVE  b \in Advanced(c)[q % Words] <=> (BITS_PER_LONG * q + b) - 1 \in accepted
    BY <1>2 DEF Bitmap, Newest
  <2>1. counter \in Nat /\ counter \div BITS_PER_LONG \in Nat
    BY Constants DEF ReplayInv, TypeOK
  <2>2. CASE q <= counter \div BITS_PER_LONG
    <3>1. Advanced(c)[q % Words] = backtrack[q % Words]
      BY <1>2, <2>2, AdvancedSlots DEF ReplayInv
    <3>2. counter \div BITS_PER_LONG <= c \div BITS_PER_LONG
      BY <1>2, <2>1, DivMonotonic, Constants
    <3>3. c \div BITS_PER_LONG \in Nat
      BY Constants
    <3>4. counter \div BITS_PER_LONG < q + Words
      BY <2>1, <3>2, <3>3, Constants
    <3> QED BY <2>2, <3>1, <3>4 DEF ReplayInv, Bitmap
  <2>3. CASE q > counter \div BITS_PER_LONG
    <3>1. Advanced(c)[q % Words] = {}
      BY <1>2, <2>3, AdvancedSlots DEF ReplayInv
    <3>2. (BITS_PER_LONG * q + b) - 1 \notin accepted
      <4> SUFFICES ASSUME (BITS_PER_LONG * q + b) - 1 \in accepted PROVE FALSE
        OBVIOUS
      <4>1. BITS_PER_LONG * q + b \in Nat
        BY Constants
      <4>2. BITS_PER_LONG * q + b <= counter
        BY <2>1, <4>1 DEF ReplayInv
      <4>3. (BITS_PER_LONG * q + b) \div BITS_PER_LONG = q
        BY <4>1, DivModUnique, Constants
      <4>4. (BITS_PER_LONG * q + b) \div BITS_PER_LONG <= counter \div BITS_PER_LONG
        BY <2>1, <4>1, <4>2, DivMonotonic, Constants
      <4> QED BY <2>1, <2>3, <4>3, <4>4
    <3> QED BY <3>1, <3>2
  <2> QED BY <2>1, <2>2, <2>3
<1> QED BY <1>1, <1>2

(* The word of a counter in the window is one of the new window's words.    *)
LEMMA NewestWindow ==
  ASSUME TypeOK, NEW c \in Nat, c + COUNTER_WINDOW_SIZE >= counter
  PROVE  \E q \in Nat, b \in 0 .. BITS_PER_LONG - 1 :
            /\ q = c \div BITS_PER_LONG /\ b = c % BITS_PER_LONG
            /\ c = BITS_PER_LONG * q + b
            /\ q <= Newest(c) \div BITS_PER_LONG
            /\ Newest(c) \div BITS_PER_LONG < q + Words
<1>1. PICK q \in Nat : \E r \in 0 .. BITS_PER_LONG - 1 :
        c = BITS_PER_LONG * q + r /\ q = c \div BITS_PER_LONG /\ r = c % BITS_PER_LONG
  BY DivMod, Constants
<1>2. Newest(c) \in Nat /\ c <= Newest(c) /\ counter <= Newest(c)
  BY DEF Newest, TypeOK
<1>3. c + COUNTER_WINDOW_SIZE >= Newest(c)
  BY Constants DEF Newest, TypeOK
<1>4. /\ c \div BITS_PER_LONG <= Newest(c) \div BITS_PER_LONG
      /\ Newest(c) \div BITS_PER_LONG < c \div BITS_PER_LONG + Words
  BY <1>2, <1>3, WindowWord
<1>5. PICK b \in 0 .. BITS_PER_LONG - 1 :
        c = BITS_PER_LONG * q + b /\ q = c \div BITS_PER_LONG /\ b = c % BITS_PER_LONG
  BY <1>1
<1>6. q <= Newest(c) \div BITS_PER_LONG /\ Newest(c) \div BITS_PER_LONG < q + Words
  BY <1>4, <1>5
<1> QED BY <1>5, <1>6, Zenon

(* The bit of a counter in the window says whether it was accepted.         *)
LEMMA BitIsExact ==
  ASSUME ReplayInv, NEW t \in 0 .. U64_MAX, InWindow(t)
  PROVE  (t + 1) % BITS_PER_LONG
             \in Advanced(t + 1)[((t + 1) \div BITS_PER_LONG) % Words]
           <=> t \in accepted
<1> DEFINE c == t + 1
<1>1. c \in Nat /\ c + COUNTER_WINDOW_SIZE >= counter /\ c - 1 = t
  BY Constants DEF InWindow, ReplayInv, TypeOK
<1>2. Bitmap(Advanced(c), Newest(c))
  BY <1>1, AdvancedBitmap
<1> HIDE DEF c
<1>3. PICK q \in Nat, b \in 0 .. BITS_PER_LONG - 1 :
        /\ q = c \div BITS_PER_LONG /\ b = c % BITS_PER_LONG
        /\ c = BITS_PER_LONG * q + b
        /\ q <= Newest(c) \div BITS_PER_LONG
        /\ Newest(c) \div BITS_PER_LONG < q + Words
  BY <1>1, NewestWindow, Zenon DEF ReplayInv
<1>4. b \in Advanced(c)[q % Words] <=> c - 1 \in accepted
  BY <1>2, <1>3 DEF Bitmap
<1> QED BY <1>1, <1>3, <1>4 DEF c

-----------------------------------------------------------------------------
(* The inductive invariant holds initially and after every call.            *)
LEMMA ReplayInit == Init => ReplayInv
<1> SUFFICES ASSUME Init PROVE ReplayInv
  OBVIOUS
<1>1. TypeOK /\ counter <= REJECT_AFTER_MESSAGES
  BY Constants DEF Init, TypeOK
<1>2. Bitmap(backtrack, counter)
  <2> SUFFICES ASSUME NEW q \in Nat PROVE backtrack[q % Words] = {}
    BY DEF Init, Bitmap
  <2>1. q % Words \in 0 .. Words - 1
    BY Constants
  <2> QED BY <2>1 DEF Init
<1> QED BY <1>1, <1>2 DEF Init, ReplayInv

(* A call that is not turned away sets the bit of its counter and no other, *)
(* and the history records the counter.                                     *)
LEMMA ReplayStep ==
  ASSUME ReplayInv, NEW t \in 0 .. U64_MAX, counter_validate(t)
  PROVE  ReplayInv'
<1> DEFINE c == t + 1
<1>1. TypeOK /\ InWindow(t) /\ U64(t + 1) = c
  BY RejectedIsOutside DEF ReplayInv, counter_validate
<1>2. /\ c \in Nat /\ c - 1 = t /\ c <= REJECT_AFTER_MESSAGES
      /\ c + COUNTER_WINDOW_SIZE >= counter
  BY <1>1, Constants DEF InWindow, TypeOK
<1>3. Bitmap(Advanced(c), Newest(c))
  BY <1>2, AdvancedBitmap
<1> DEFINE word == (c \div BITS_PER_LONG) % Words
           bit  == c % BITS_PER_LONG
<1>4. bit \in Advanced(c)[word] <=> t \in accepted
  BY <1>1, BitIsExact
<1>5. /\ counter' = Newest(c)
      /\ backtrack' = [Advanced(c) EXCEPT ![word] = @ \cup {bit}]
      /\ accepted' = accepted \cup {t}
  BY <1>1, <1>4 DEF counter_validate, Newest
<1>6. PICK q \in Nat, b \in 0 .. BITS_PER_LONG - 1 :
        /\ q = c \div BITS_PER_LONG /\ b = c % BITS_PER_LONG
        /\ c = BITS_PER_LONG * q + b
        /\ q <= Newest(c) \div BITS_PER_LONG
        /\ Newest(c) \div BITS_PER_LONG < q + Words
  BY <1>1, <1>2, NewestWindow, Zenon
<1>7. word = q % Words /\ bit = b
  BY <1>6
<1>8. q % Words \in 0 .. Words - 1
  BY Constants
<1>9. Advanced(c) \in [0 .. Words - 1 -> SUBSET (0 .. BITS_PER_LONG - 1)]
  BY <1>1 DEF Advanced, TypeOK
<1>10. Newest(c) \in Nat /\ Newest(c) <= REJECT_AFTER_MESSAGES
  BY <1>1, <1>2 DEF Newest, ReplayInv, TypeOK
<1> HIDE DEF c, word, bit
<1>11. TypeOK'
  <2>1. counter' \in 0 .. U64_MAX
    BY <1>5, <1>10, Constants
  <2>2. backtrack' \in [0 .. Words - 1 -> SUBSET (0 .. BITS_PER_LONG - 1)]
    BY <1>5, <1>7, <1>8, <1>9
  <2>3. accepted' \subseteq 0 .. U64_MAX
    BY <1>1, <1>5 DEF TypeOK
  <2> QED BY <2>1, <2>2, <2>3 DEF TypeOK
<1>12. \A u \in accepted' : u + 1 <= counter'
  <2>1. c <= Newest(c) /\ counter <= Newest(c)
    BY <1>1, <1>2 DEF Newest, TypeOK
  <2> QED BY <1>1, <1>2, <1>5, <1>10, <2>1 DEF ReplayInv, TypeOK
<1>13. Bitmap(backtrack, counter)'
  <2> SUFFICES ASSUME NEW p \in Nat, NEW a \in 0 .. BITS_PER_LONG - 1,
                      p <= Newest(c) \div BITS_PER_LONG,
                      Newest(c) \div BITS_PER_LONG < p + Words
      PROVE  a \in backtrack'[p % Words]
               <=> (BITS_PER_LONG * p + a) - 1 \in accepted \cup {t}
    BY <1>5 DEF Bitmap
  <2>1. p % Words \in 0 .. Words - 1
    BY Constants
  <2>2. a \in Advanced(c)[p % Words] <=> (BITS_PER_LONG * p + a) - 1 \in accepted
    BY <1>3 DEF Bitmap
  <2>3. BITS_PER_LONG * p + a \in Nat /\ BITS_PER_LONG * q + b \in Nat
    BY Constants
  <2>4. CASE p = q
    <3>1. a = b <=> (BITS_PER_LONG * p + a) - 1 = t
      <4>1. PICK m \in Nat : m = BITS_PER_LONG * q
        BY Constants
      <4>2. c = m + b /\ BITS_PER_LONG * p + a = m + a
        BY <1>6, <2>4, <4>1
      <4>3. a \in Int /\ b \in Int
        BY Constants
      <4> QED BY <1>2, <4>2, <4>3
    <3>2. backtrack'[p % Words] = Advanced(c)[p % Words] \cup {b}
      BY <1>5, <1>7, <1>9, <2>1, <2>4
    <3> QED BY <2>2, <3>1, <3>2
  <2>5. CASE p # q
    <3>1. p % Words # q % Words
      <4>1. Newest(c) \div BITS_PER_LONG \in Nat
        BY <1>10, Constants
      <4>2. p < q => q < p + Words
        BY <1>6, <4>1, Constants
      <4>3. q < p => p < q + Words
        BY <1>6, <4>1, Constants
      <4>4. Words \in Nat \ {0}
        BY Constants
      <4>5. CASE p < q
        BY <4>2, <4>4, <4>5, ModApart
      <4>6. CASE q < p
        BY <4>3, <4>4, <4>6, ModApart
      <4> QED BY <2>5, <4>5, <4>6
    <3>2. backtrack'[p % Words] = Advanced(c)[p % Words]
      BY <1>5, <1>7, <1>9, <2>1, <3>1
    <3>3. (BITS_PER_LONG * p + a) - 1 # t
      <4> SUFFICES ASSUME BITS_PER_LONG * p + a = c PROVE FALSE
        BY <1>2, <2>3
      <4>1. c \div BITS_PER_LONG = p
        BY <1>2, DivModUnique, Constants
      <4> QED BY <1>6, <2>5, <4>1
    <3> QED BY <2>2, <3>2, <3>3
  <2> QED BY <2>4, <2>5
<1> QED BY <1>5, <1>10, <1>11, <1>12, <1>13 DEF ReplayInv

(* The inductive invariant holds in every reachable state.                  *)
LEMMA ReplayInvHolds == Spec => []ReplayInv
<1>1. ReplayInv /\ [Next]_vars => ReplayInv'
  <2> SUFFICES ASSUME ReplayInv, [Next]_vars PROVE ReplayInv'
    OBVIOUS
  <2>1. CASE Next
    BY <2>1, ReplayStep DEF Next
  <2>2. CASE UNCHANGED vars
    BY <2>2 DEF ReplayInv, TypeOK, Bitmap, vars
  <2> QED BY <2>1, <2>2
<1> QED BY <1>1, ReplayInit, PTL DEF Spec

(* counter_validate keeps its bitmap and its counter in range: every index  *)
(* into backtrack is below the number of words.                             *)
THEOREM ReplayTypeCorrect == Spec => []TypeOK
<1>1. ReplayInv => TypeOK
  BY DEF ReplayInv
<1> QED BY <1>1, ReplayInvHolds, PTL

(* The replay window is exact: for any history, counter_validate accepts a  *)
(* counter if and only if it is inside the window and was not accepted      *)
(* before.  No packet is taken twice, and none in the window is refused.    *)
THEOREM ReplayVerdictIsExact == Spec => []VerdictIsExact
<1>1. ReplayInv => VerdictIsExact
  <2> SUFFICES ASSUME ReplayInv, NEW t \in 0 .. U64_MAX
      PROVE  Accepts(t) <=> InWindow(t) /\ t \notin accepted
    BY DEF VerdictIsExact
  <2>1. Rejected(t) <=> ~ InWindow(t)
    BY RejectedIsOutside DEF ReplayInv
  <2>2. CASE ~ InWindow(t)
    BY <2>1, <2>2 DEF Accepts
  <2>3. CASE InWindow(t)
    <3>1. U64(t + 1) = t + 1
      BY <2>3, RejectedIsOutside DEF ReplayInv
    <3>2. Accepts(t) <=> (t + 1) % BITS_PER_LONG
              \notin Advanced(t + 1)[((t + 1) \div BITS_PER_LONG) % Words]
      BY <2>1, <2>3, <3>1 DEF Accepts
    <3> QED BY <2>3, <3>2, BitIsExact
  <2> QED BY <2>2, <2>3
<1> QED BY <1>1, ReplayInvHolds, PTL
=============================================================================
