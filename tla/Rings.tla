------------------------------- MODULE Rings --------------------------------
(***************************************************************************)
(* The arithmetic of ring buffers: indices that count modulo w, slots that *)
(* are indices modulo n, w a multiple of n.  TLAPS's provers know little   *)
(* about % with a symbolic divisor.                                        *)
(***************************************************************************)
EXTENDS Integers, TLAPS

\* What % means, with the quotient named.
LEMMA Division ==
  ASSUME NEW a \in Nat, NEW n \in Nat, n > 0
  PROVE  \E q \in Int, r \in 0 .. n - 1 : a % n = r /\ a = n * q + r
<1> DEFINE q == a \div n
           r == a % n
<1>1. r \in 0 .. n - 1 /\ q \in Int
  OBVIOUS
<1>2. r = a - n * q
  BY SMTT(20)
<1> HIDE DEF q, r
<1>3. a = n * q + r
  BY <1>1, <1>2
<1>4. a % n = r
  BY DEF r
<1> QED
  BY <1>1, <1>3, <1>4, Zenon

\* A remainder is unique.
LEMMA Remainder ==
  ASSUME NEW a \in Nat, NEW n \in Nat, n > 0, NEW q \in Int, NEW r \in 0 .. n - 1, a = n * q + r
  PROVE  a % n = r
<1>1. PICK q2 \in Int, r2 \in 0 .. n - 1 : a % n = r2 /\ a = n * q2 + r2
  BY Division
<1> SUFFICES r = r2
  BY <1>1
<1>2. n * (q - q2) = r2 - r
  BY <1>1
<1>3. q - q2 >= 1 => n * (q - q2) >= n
  OBVIOUS
<1>4. q - q2 <= -1 => n * (q - q2) <= -n
  OBVIOUS
<1> QED
  BY <1>2, <1>3, <1>4

\* Reduction of a number below 2 * n.
LEMMA SmallMod ==
  ASSUME NEW n \in Nat, n > 0, NEW a \in 0 .. 2 * n - 1
  PROVE  a % n = IF a < n THEN a ELSE a - n
<1>1. CASE a < n
  BY <1>1, a = n * 0 + a, Remainder
<1>2. CASE a >= n
  BY <1>2, a = n * 1 + (a - n), Remainder
<1> QED
  BY <1>1, <1>2

\* A multiple of n may be added: indices that wrap at a multiple of the ring's size
\* name the same slots.
LEMMA AddMultiple ==
  ASSUME NEW a \in Nat, NEW n \in Nat, n > 0, NEW m \in Nat, m % n = 0
  PROVE  (a + m) % n = a % n
<1>1. PICK x \in Int, r \in 0 .. n - 1 : a % n = r /\ a = n * x + r
  BY Division
<1>2. PICK y \in Int, s \in 0 .. n - 1 : m % n = s /\ m = n * y + s
  BY Division
<1>3. a + m = n * (x + y) + r /\ x + y \in Int
  <2>1. s = 0 /\ n * (x + y) = n * x + n * y
    BY <1>2
  <2> QED
    BY <1>1, <1>2, <2>1
<1>4. (a + m) % n = r
  <2>1. PICK c \in Nat, z \in Int : c = a + m /\ z = x + y
    OBVIOUS
  <2>2. c = n * z + r
    BY <1>3, <2>1
  <2>3. c % n = r
    BY <2>2, Remainder
  <2> QED
    BY <2>1, <2>3
<1> QED
  BY <1>1, <1>4

\* Less than n apart, two indices name different slots of a ring of n.
LEMMA Distinct ==
  ASSUME NEW n \in Nat, n > 0, NEW a \in Nat, NEW b \in Nat, a <= b, b < a + n, a % n = b % n
  PROVE  a = b
<1>1. PICK x \in Int, r \in 0 .. n - 1 : a % n = r /\ a = n * x + r
  BY Division
<1>2. PICK y \in Int, s \in 0 .. n - 1 : b % n = s /\ b = n * y + s
  BY Division
<1>3. n * (y - x) = b - a
  BY <1>1, <1>2
<1>4. y - x >= 1 => n * (y - x) >= n
  OBVIOUS
<1>5. y - x <= -1 => n * (y - x) < 0
  OBVIOUS
<1> QED
  BY <1>1, <1>2, <1>3, <1>4, <1>5

\* The next index.
LEMMA Increment ==
  ASSUME NEW w \in Nat, w > 1, NEW a \in 0 .. w - 1
  PROVE  (a + 1) % w = IF a = w - 1 THEN 0 ELSE a + 1
<1>1. a + 1 \in 0 .. 2 * w - 1
  OBVIOUS
<1> QED
  BY <1>1, SmallMod

\* The distance from index b to index a, as unsigned subtraction gives it.
LEMMA Distance ==
  ASSUME NEW w \in Nat, w > 0, NEW a \in 0 .. w - 1, NEW b \in 0 .. w - 1
  PROVE  (a + w - b) % w = IF b <= a THEN a - b ELSE a + w - b
<1>1. a + w - b \in 0 .. 2 * w - 1
  OBVIOUS
<1> QED
  BY <1>1, SmallMod

\* The distance grows and shrinks with its ends.
LEMMA Grow ==
  ASSUME NEW w \in Nat, w > 1, NEW a \in 0 .. w - 1, NEW b \in 0 .. w - 1,
         (a + w - b) % w < w - 1, NEW c \in 0 .. w - 1, c = (a + 1) % w
  PROVE  (c + w - b) % w = ((a + w - b) % w) + 1
<1>0. w > 0
  OBVIOUS
<1>1. c = IF a = w - 1 THEN 0 ELSE a + 1
  BY Increment
<1>2. PICK d \in Nat : d = (a + w - b) % w /\ d = IF b <= a THEN a - b ELSE a + w - b
  BY Distance
<1>3. (c + w - b) % w = IF b <= c THEN c - b ELSE c + w - b
  BY <1>0, Distance, Zenon
<1>4. d < w - 1
  BY <1>2
<1>5. (c + w - b) % w = d + 1
  <2> DEFINE x == (c + w - b) % w
  <2>1. x = IF b <= c THEN c - b ELSE c + w - b
    BY <1>3
  <2>2. d = IF b <= a THEN a - b ELSE a + w - b
    BY <1>2
  <2>3. c = IF a = w - 1 THEN 0 ELSE a + 1
    BY <1>1
  <2> HIDE DEF x
  <2>4. x = d + 1
    BY <1>4, <2>1, <2>2, <2>3
  <2> QED
    BY <2>4 DEF x
<1> QED
  BY <1>2, <1>5

\* A step of the reading index takes one from the distance.
LEMMA Shrink ==
  ASSUME NEW w \in Nat, w > 1, NEW a \in 0 .. w - 1, NEW b \in 0 .. w - 1,
         (a + w - b) % w > 0, NEW c \in 0 .. w - 1, c = (b + 1) % w
  PROVE  (a + w - c) % w = ((a + w - b) % w) - 1
<1>0. w > 0
  OBVIOUS
<1>1. c = IF b = w - 1 THEN 0 ELSE b + 1
  BY Increment
<1>2. PICK d \in Nat : d = (a + w - b) % w /\ d = IF b <= a THEN a - b ELSE a + w - b
  BY Distance
<1>3. (a + w - c) % w = IF c <= a THEN a - c ELSE a + w - c
  BY <1>0, Distance, Zenon
<1>4. d > 0
  BY <1>2
<1>5. (a + w - c) % w = d - 1
  <2> DEFINE x == (a + w - c) % w
  <2>1. x = IF c <= a THEN a - c ELSE a + w - c
    BY <1>3
  <2>2. d = IF b <= a THEN a - b ELSE a + w - b
    BY <1>2
  <2>3. c = IF b = w - 1 THEN 0 ELSE b + 1
    BY <1>1
  <2> HIDE DEF x
  <2>4. x = d - 1
    BY <1>4, <2>1, <2>2, <2>3
  <2> QED
    BY <2>4 DEF x
<1> QED
  BY <1>2, <1>5

\* Two indices and their distance.
LEMMA Position ==
  ASSUME NEW w \in Nat, w > 0, NEW a \in 0 .. w - 1, NEW b \in 0 .. w - 1,
         NEW d, d = (a + w - b) % w
  PROVE  d \in 0 .. w - 1 /\ (b + d) % w = a
<1>1. d = IF b <= a THEN a - b ELSE a + w - b
  BY Distance
<1>2. d \in 0 .. w - 1
  BY <1>1
<1>3. PICK c \in 0 .. 2 * w - 1 : c = b + d
  BY <1>2
<1>4. c % w = IF c < w THEN c ELSE c - w
  BY SmallMod
<1>5. c % w = a
  BY <1>1, <1>3, <1>4
<1> QED
  BY <1>2, <1>3, <1>5

\* The index d behind b has the distance d.
LEMMA Apart ==
  ASSUME NEW w \in Nat, w > 0, NEW b \in 0 .. w - 1, NEW d \in 0 .. w - 1,
         NEW a, a = (b + d) % w
  PROVE  a \in 0 .. w - 1 /\ (a + w - b) % w = d
<1>1. PICK c \in 0 .. 2 * w - 1 : c = b + d
  OBVIOUS
<1>2. a = IF c < w THEN c ELSE c - w
  BY <1>1, SmallMod
<1>3. a \in 0 .. w - 1
  BY <1>1, <1>2
<1>4. (a + w - b) % w = IF b <= a THEN a - b ELSE a + w - b
  BY <1>3, Distance
<1>5. d = IF b <= a THEN a - b ELSE a + w - b
  BY <1>1, <1>2
<1> QED
  BY <1>3, <1>4, <1>5

\* Two steps forward are one.
LEMMA Advance ==
  ASSUME NEW w \in Nat, w > 0, NEW b \in 0 .. w - 1, NEW j \in Nat, NEW k \in Nat, j + k < w,
         NEW a, a = (b + j) % w
  PROVE  (a + k) % w = (b + (j + k)) % w
<1>1. PICK c \in 0 .. 2 * w - 1 : c = b + j
  OBVIOUS
<1>2. a = IF c < w THEN c ELSE c - w
  BY <1>1, SmallMod
<1>3. PICK x \in 0 .. 2 * w - 1, y \in 0 .. 2 * w - 1 : x = a + k /\ y = b + (j + k)
  BY <1>1, <1>2
<1>4. x % w = IF x < w THEN x ELSE x - w
  BY SmallMod
<1>5. y % w = IF y < w THEN y ELSE y - w
  BY SmallMod
<1>6. (IF x < w THEN x ELSE x - w) = IF y < w THEN y ELSE y - w
  BY <1>1, <1>2, <1>3
<1> QED
  BY <1>3, <1>4, <1>5, <1>6

\* A step forward and a smaller one back.
LEMMA Retreat ==
  ASSUME NEW w \in Nat, w > 0, NEW b \in 0 .. w - 1, NEW j \in 0 .. w - 1, NEW n \in 0 .. j,
         NEW a, a = (b + j) % w
  PROVE  (a + w - n) % w = (b + (j - n)) % w
<1>1. PICK c \in 0 .. 2 * w - 1 : c = b + j
  OBVIOUS
<1>2. a = IF c < w THEN c ELSE c - w
  BY <1>1, SmallMod
<1>3. PICK x \in 0 .. 2 * w - 1, y \in 0 .. 2 * w - 1 : x = a + w - n /\ y = b + (j - n)
  BY <1>1, <1>2
<1>4. x % w = IF x < w THEN x ELSE x - w
  BY SmallMod
<1>5. y % w = IF y < w THEN y ELSE y - w
  BY SmallMod
<1>6. (IF x < w THEN x ELSE x - w) = IF y < w THEN y ELSE y - w
  BY <1>1, <1>2, <1>3
<1> QED
  BY <1>3, <1>4, <1>5, <1>6
=============================================================================
