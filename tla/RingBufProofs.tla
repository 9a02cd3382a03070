---------------------------- MODULE RingBufProofs ---------------------------
(* The ring buffer implements a bounded FIFO, for every width of size_t,   *)
(* every capacity asked of ringbuf_new and every set of bytes.             *)
EXTENDS RingBuf, SequenceTheorems, WellFoundedInduction, TLAPS

----------------------------------------------------------------------------
(* Arithmetic.                                                             *)

M == 2^Bits

(* A set of numbers has a least element.                                   *)
LEMMA Least ==
  ASSUME NEW S \in SUBSET Nat, S # {}
  PROVE  \E x \in S : \A y \in S : ~(y < x)
<1>1. IsWellFoundedOn(OpToRel(<, Nat), Nat)
  BY NatLessThanWellFounded
<1>2. \E x \in S : \A y \in S : ~(<<y, x>> \in OpToRel(<, Nat))
  BY <1>1, WFMin
<1>3. QED
  BY <1>2 DEF OpToRel

(* Powers of two are positive.                                             *)
LEMMA PowerPositive == \A k \in 0 .. Bits : 2^k \in Nat \ {0}
<1> DEFINE S == {k \in 0 .. Bits : 2^k \notin Nat \ {0}}
<1>1. Bits \in Nat
  BY RingBufAssumption
<1>2. SUFFICES ASSUME S # {} PROVE FALSE
  OBVIOUS
<1>3. S \in SUBSET Nat
  BY <1>1
<1>4. PICK k \in S : \A j \in S : ~(j < k)
  BY <1>2, <1>3, Least
<1>5. k # 0
  <2>1. 2^0 = 1
    BY PowersAssumption
  <2>2. 0 \notin S
    BY <2>1
  <2>3. QED
    BY <1>4, <2>2
<1>6. k - 1 \in 0 .. Bits - 1 /\ k - 1 < k
  BY <1>1, <1>4, <1>5
<1>7. 2^(k - 1) \in Nat \ {0}
  BY <1>1, <1>4, <1>6
<1>8. 2^((k - 1) + 1) = 2 * 2^(k - 1)
  BY <1>6, PowersAssumption
<1>9. (k - 1) + 1 = k
  BY <1>1, <1>4
<1>10. 2^k \in Nat \ {0}
  BY <1>7, <1>8, <1>9
<1>11. QED
  BY <1>4, <1>10

(* A smaller power divides a greater one, at least twice.                  *)
LEMMA PowerDivides == \A k \in 0 .. Bits - 1 : \E q \in Nat \ {0} : M = 2 * (q * 2^k)
<1> DEFINE Divides(j) == \E q \in Nat \ {0} : M = q * 2^(Bits - j)
           S == {j \in 0 .. Bits : ~Divides(j)}
<1>1. Bits \in Nat
  BY RingBufAssumption
<1>2. S = {}
  <2>1. SUFFICES ASSUME S # {} PROVE FALSE
    OBVIOUS
  <2>2. S \in SUBSET Nat
    BY <1>1
  <2>3. PICK j \in S : \A i \in S : ~(i < j)
    BY <2>1, <2>2, Least
  <2>4. j # 0
    <3>1. Bits - 0 = Bits /\ 1 * M = M
      BY <1>1, PowerPositive DEF M
    <3>2. Divides(0)
      BY <3>1 DEF M
    <3>3. QED
      BY <2>3, <3>2
  <2>5. j - 1 \in 0 .. Bits /\ j - 1 < j /\ Bits - j \in 0 .. Bits - 1 /\ (Bits - j) + 1 = Bits - (j - 1)
    BY <1>1, <2>3, <2>4
  <2>6. Divides(j - 1)
    BY <2>3, <2>5
  <2>7. PICK q \in Nat \ {0} : M = q * 2^(Bits - (j - 1))
    BY <2>6
  <2>8. 2^(Bits - (j - 1)) = 2 * 2^(Bits - j)
    BY <2>5, PowersAssumption
  <2>9. 2^(Bits - j) \in Nat
    BY <1>1, <2>5, PowerPositive
  <2>10. M = (q * 2) * 2^(Bits - j) /\ q * 2 \in Nat \ {0}
    BY <2>7, <2>8, <2>9
  <2>11. Divides(j)
    BY <2>10
  <2>12. QED
    BY <2>3, <2>11
<1>3. SUFFICES ASSUME NEW k \in 0 .. Bits - 1 PROVE \E q \in Nat \ {0} : M = 2 * (q * 2^k)
  OBVIOUS
<1>4. Bits - (k + 1) \in 0 .. Bits /\ Bits - (Bits - (k + 1)) = k + 1
  BY <1>1
<1>5. Divides(Bits - (k + 1))
  BY <1>2, <1>4
<1>6. PICK q \in Nat \ {0} : M = q * 2^(k + 1)
  BY <1>4, <1>5
<1>7. 2^(k + 1) = 2 * 2^k /\ 2^k \in Nat
  BY <1>1, PowersAssumption, PowerPositive
<1>8. M = 2 * (q * 2^k)
  BY <1>6, <1>7
<1>9. QED
  BY <1>8

(* nextpow2sz finds a power of two that covers the request, and it divides *)
(* the number of values of a size_t.                                       *)
LEMMA CapacityFacts ==
  /\ M \in Nat \ {0} /\ Capacity \in Nat \ {0} /\ Requested <= Capacity
  /\ \E q \in Nat \ {0} : M = 2 * (q * Capacity)
<1> DEFINE S == {k \in 0 .. Bits - 1 : Requested <= 2^k}
           Cover == {2^k : k \in 0 .. Bits - 1}
<1>1. Bits \in Nat \ {0} /\ Requested \in Nat \ {0} /\ Requested <= 2^(Bits - 1)
  <2>1. Bits - 1 \in 0 .. Bits
    BY RingBufAssumption
  <2>2. 2^(Bits - 1) \in Nat
    BY <2>1, PowerPositive
  <2>3. QED
    BY <2>2, RingBufAssumption
<1>2. S \in SUBSET Nat /\ Bits - 1 \in S
  BY <1>1
<1>3. PICK k \in S : \A j \in S : ~(j < k)
  BY <1>2, Least
<1>4. 2^k \in Nat \ {0}
  BY <1>1, <1>3, PowerPositive
<1>5. 2^k < 2 * Requested
  <2>1. CASE k = 0
    BY <1>1, <2>1, PowersAssumption
  <2>2. CASE k # 0
    <3>1. k - 1 \in 0 .. Bits - 1 /\ k - 1 < k /\ (k - 1) + 1 = k /\ k - 1 \in 0 .. Bits
      BY <1>1, <1>3, <2>2
    <3>2. 2^(k - 1) \in Nat /\ 2^((k - 1) + 1) = 2 * 2^(k - 1)
      BY <3>1, PowersAssumption, PowerPositive
    <3>3. ~(Requested <= 2^(k - 1))
      BY <1>3, <3>1
    <3>4. QED
      BY <1>1, <3>1, <3>2, <3>3
  <2>3. QED
    BY <2>1, <2>2
<1>6. \E c \in Cover : Requested <= c /\ c < 2 * Requested
  BY <1>3, <1>5
<1>7. Capacity \in Cover /\ Requested <= Capacity
  BY <1>6 DEF Capacity, NextPow2Sz
<1>8. PICK m \in 0 .. Bits - 1 : Capacity = 2^m
  BY <1>7
<1>9. Capacity \in Nat \ {0}
  BY <1>1, <1>8, PowerPositive
<1>10. M \in Nat \ {0}
  BY <1>1, PowerPositive DEF M
<1>11. QED
  BY <1>7, <1>8, <1>9, <1>10, PowerDivides

(* A number is what mod takes from it and a multiple.                      *)
LEMMA ModFacts ==
  ASSUME NEW c \in Nat \ {0}
  PROVE  /\ \A x \in Int : x % c \in 0 .. c - 1 /\ x \div c \in Int /\ x = c * (x \div c) + (x % c)
         /\ \A q \in Int : \A r \in 0 .. c - 1 : (c * q + r) % c = r
<1>1. ASSUME NEW x \in Int PROVE x % c \in 0 .. c - 1 /\ x \div c \in Int /\ x = c * (x \div c) + (x % c)
  OBVIOUS
<1>2. ASSUME NEW q \in Int, NEW r \in 0 .. c - 1 PROVE (c * q + r) % c = r
  OBVIOUS
<1>3. QED
  BY <1>1, <1>2

(* A counter that wraps around.                                            *)
LEMMA WrapFacts ==
  /\ \A x \in 0 .. M - 1 : Wrap(x) = x /\ Wrap(x + M) = x /\ Wrap(x - M) = x
  /\ \A x \in Int : Wrap(x) \in 0 .. M - 1
<1>1. M \in Nat \ {0}
  BY CapacityFacts
<1>2. \A x : Wrap(x) = x % M
  BY DEF Wrap, M
<1> HIDE DEF M
<1>3. ASSUME NEW x \in 0 .. M - 1 PROVE x % M = x
  BY <1>1
<1>4. ASSUME NEW x \in 0 .. M - 1 PROVE (x + M) % M = x
  BY <1>1
<1>5. ASSUME NEW x \in 0 .. M - 1 PROVE (x - M) % M = x
  BY <1>1
<1>6. ASSUME NEW x \in Int PROVE x % M \in 0 .. M - 1
  BY <1>1
<1>7. QED
  BY <1>2, <1>3, <1>4, <1>5, <1>6

(* An index that goes on, around the end of mem.                           *)
LEMMA ClipAdd ==
  ASSUME NEW x \in Nat, NEW k \in 0 .. Capacity
  PROVE  /\ Clip(x) \in 0 .. Capacity - 1
         /\ Clip(x + k) = IF Clip(x) + k < Capacity THEN Clip(x) + k ELSE Clip(x) + k - Capacity
<1> DEFINE c == Capacity
           r == x % c
           d == x \div c
<1>1. c \in Nat \ {0}
  BY CapacityFacts
<1>2. \A y : Clip(y) = y % c
  BY DEF Clip
<1> HIDE DEF c
<1>3. r \in 0 .. c - 1 /\ d \in Int /\ x = c * d + r
  BY <1>1, ModFacts
<1> HIDE DEF r, d
<1>4. k \in 0 .. c
  BY DEF c
<1>5. CASE r + k < c
  <2>1. r + k \in 0 .. c - 1 /\ x + k = c * d + (r + k)
    BY <1>1, <1>3, <1>4, <1>5
  <2>2. (c * d + (r + k)) % c = r + k
    BY <1>1, <1>3, <2>1, ModFacts
  <2>3. QED
    BY <1>2, <1>3, <1>5, <2>1, <2>2 DEF r, c
<1>6. CASE ~(r + k < c)
  <2>1. r + k - c \in 0 .. c - 1 /\ d + 1 \in Int
    BY <1>1, <1>3, <1>4, <1>6
  <2>2. x + k = c * (d + 1) + (r + k - c)
    <3>1. c * (d + 1) = c * d + c
      BY <1>1, <1>3
    <3>2. c * d \in Int
      BY <1>1, <1>3
    <3>3. QED
      BY <1>1, <1>3, <1>4, <3>1, <3>2
  <2>3. (c * (d + 1) + (r + k - c)) % c = r + k - c
    BY <1>1, <2>1, ModFacts
  <2>4. QED
    BY <1>2, <1>3, <1>6, <2>2, <2>3 DEF r, c
<1>7. QED
  BY <1>5, <1>6

(* The wrap-around of the counters does not move the index.                *)
LEMMA ClipWrap ==
  ASSUME NEW x \in Nat
  PROVE  Clip(x + M) = Clip(x)
<1> DEFINE c == Capacity
           r == x % c
           d == x \div c
<1>1. c \in Nat \ {0}
  BY CapacityFacts
<1>2. \A y : Clip(y) = y % c
  BY DEF Clip
<1>3. PICK q \in Nat \ {0} : M = 2 * (q * c)
  BY CapacityFacts
<1> HIDE DEF c, M
<1>4. r \in 0 .. c - 1 /\ d \in Int /\ x = c * d + r
  BY <1>1, ModFacts
<1> HIDE DEF r, d
<1>5. x + M = c * (d + 2 * q) + r
  <2>1. c * (d + 2 * q) = c * d + 2 * (q * c)
    BY <1>1, <1>3, <1>4
  <2>2. c * d \in Int /\ q * c \in Int
    BY <1>1, <1>3, <1>4
  <2>3. QED
    BY <1>3, <1>4, <2>1, <2>2
<1>6. (c * (d + 2 * q) + r) % c = r
  <2>1. d + 2 * q \in Int
    BY <1>3, <1>4
  <2>2. QED
    BY <1>1, <1>4, <2>1, ModFacts
<1>7. QED
  BY <1>2, <1>5, <1>6 DEF r

----------------------------------------------------------------------------
(* The buffer.                                                             *)

(* How far apart the counters are.                                         *)
LEMMA SizeFacts ==
  ASSUME RingTypeOK
  PROVE  /\ Size \in 0 .. Capacity /\ Size < M /\ Capacity < M
         /\ Size = IF nr_removed <= nr_added THEN nr_added - nr_removed ELSE nr_added - nr_removed + M
         /\ Room = Capacity - Size
<1>1. M \in Nat \ {0} /\ Capacity \in Nat \ {0} /\ Capacity < M
  <2>1. PICK q \in Nat \ {0} : M = 2 * (q * Capacity)
    BY CapacityFacts
  <2>2. Capacity \in Nat \ {0} /\ M \in Nat \ {0}
    BY CapacityFacts
  <2> HIDE DEF M
  <2>3. q * Capacity >= Capacity /\ q * Capacity \in Nat
    BY <2>2
  <2>4. QED
    BY <2>1, <2>2, <2>3
<1>2. nr_added \in 0 .. M - 1 /\ nr_removed \in 0 .. M - 1 /\ Size <= Capacity
  BY DEF RingTypeOK, M
<1> HIDE DEF M
<1>3. Size = IF nr_removed <= nr_added THEN nr_added - nr_removed ELSE nr_added - nr_removed + M
  <2>1. CASE nr_removed <= nr_added
    <3>1. nr_added - nr_removed \in 0 .. M - 1
      BY <1>1, <1>2, <2>1
    <3>2. QED
      BY <2>1, <3>1, WrapFacts DEF Size
  <2>2. CASE ~(nr_removed <= nr_added)
    <3>1. nr_added - nr_removed + M \in 0 .. M - 1 /\ (nr_added - nr_removed + M) - M = nr_added - nr_removed
      BY <1>1, <1>2, <2>2
    <3>2. Wrap((nr_added - nr_removed + M) - M) = nr_added - nr_removed + M
      BY <3>1, WrapFacts
    <3>3. QED
      BY <2>2, <3>1, <3>2 DEF Size
  <2>3. QED
    BY <2>1, <2>2
<1>4. Size \in 0 .. Capacity /\ Size < M
  BY <1>1, <1>2, <1>3
<1>5. Room = Capacity - Size
  <2>1. Capacity - Size \in 0 .. M - 1
    BY <1>1, <1>4
  <2>2. QED
    BY <2>1, WrapFacts DEF Room
<1>6. QED
  BY <1>1, <1>3, <1>4, <1>5

(* ringbuf_io_region covers the places that follow pos, around the end.    *)
LEMMA RegionFacts ==
  ASSUME NEW pos \in Nat, NEW len \in 0 .. Capacity, NEW i \in 1 .. len
  PROVE  IoRegion(pos, len)[i] = Clip(pos + (i - 1))
<1>1. Capacity \in Nat \ {0}
  BY CapacityFacts
<1>2. i - 1 \in 0 .. Capacity
  BY <1>1
<1>3. /\ Clip(pos) \in 0 .. Capacity - 1
      /\ Clip(pos + (i - 1)) = IF Clip(pos) + (i - 1) < Capacity THEN Clip(pos) + (i - 1) ELSE Clip(pos) + (i - 1) - Capacity
  BY <1>2, ClipAdd
<1> DEFINE idx == Clip(pos)
           len0 == IF idx + len > Capacity THEN Capacity - idx ELSE len
<1>4. IoRegion(pos, len)[i] = IF i <= len0 THEN idx + i - 1 ELSE i - len0 - 1
  BY DEF IoRegion
<1> HIDE DEF idx
<1>5. QED
  BY <1>1, <1>3, <1>4 DEF idx

(* Places that are less than the capacity apart are different.             *)
LEMMA PlacesDiffer ==
  ASSUME NEW x \in Nat, NEW i \in 0 .. Capacity - 1, NEW j \in 0 .. Capacity - 1, Clip(x + i) = Clip(x + j)
  PROVE  i = j
<1>1. Capacity \in Nat \ {0} /\ i \in 0 .. Capacity /\ j \in 0 .. Capacity
  BY CapacityFacts
<1>2. /\ Clip(x) \in 0 .. Capacity - 1
      /\ Clip(x + i) = IF Clip(x) + i < Capacity THEN Clip(x) + i ELSE Clip(x) + i - Capacity
      /\ Clip(x + j) = IF Clip(x) + j < Capacity THEN Clip(x) + j ELSE Clip(x) + j - Capacity
  BY <1>1, ClipAdd
<1> DEFINE c == Clip(x)
<1> HIDE DEF c
<1>3. c \in 0 .. Capacity - 1 /\ (IF c + i < Capacity THEN c + i ELSE c + i - Capacity) = (IF c + j < Capacity THEN c + j ELSE c + j - Capacity)
  BY <1>2 DEF c
<1>4. QED
  BY <1>1, <1>3

(* The contents, byte by byte.                                             *)
Described ==
  /\ Contents \in Seq(Byte) /\ Len(Contents) = Size
  /\ \A i \in 1 .. Size : Contents[i] = mem[Clip(nr_removed + (i - 1))]

(* What the type invariant says of them.                                   *)
LEMMA ContentsFacts == RingTypeOK => Described
<1> SUFFICES ASSUME RingTypeOK PROVE Described
  OBVIOUS
<1>1. Size \in 0 .. Capacity /\ Size \in Nat /\ nr_removed \in Nat /\ mem \in [0 .. Capacity - 1 -> Byte]
  BY SizeFacts, CapacityFacts DEF RingTypeOK
<1> DEFINE n == Size
           q == Contents
<1> HIDE DEF n
<1>2. /\ q = [i \in 1 .. n |-> q[i]]
      /\ \A i \in 1 .. n : q[i] = mem[IoRegion(nr_removed, n)[i]]
  BY DEF Contents, Load, n
<1>3. \A i \in 1 .. n : q[i] = mem[Clip(nr_removed + (i - 1))]
  BY <1>1, <1>2, RegionFacts DEF n
<1>4. ASSUME NEW i \in 1 .. n PROVE q[i] \in Byte
  <2>1. nr_removed + (i - 1) \in Nat /\ 0 \in 0 .. Capacity
    BY <1>1, <1>4, CapacityFacts DEF n
  <2>2. Clip(nr_removed + (i - 1)) \in 0 .. Capacity - 1
    BY <2>1, ClipAdd
  <2>3. QED
    BY <1>1, <1>3, <2>2
<1> HIDE DEF q
<1>5. q \in [1 .. n -> Byte]
  BY <1>2, <1>4
<1>6. q \in Seq(Byte) /\ DOMAIN q = 1 .. n /\ n \in Nat
  BY <1>1, <1>5, SeqDef DEF n
<1>7. Len(q) = n
  BY <1>6, LenProperties
<1>8. QED
  BY <1>3, <1>6, <1>7 DEF Described, q, n

(* The same of the next state.                                             *)
LEMMA ContentsAfter == RingTypeOK' => Described'
BY ContentsFacts, PTL

(* The place behind the contents is the one at nr_added.                   *)
LEMMA PlaceAdded ==
  ASSUME RingTypeOK, NEW k \in Nat
  PROVE  Clip(nr_added + k) = Clip(nr_removed + (Size + k))
<1>1. M \in Nat /\ nr_added \in Nat /\ nr_removed \in Nat /\ Size \in Nat
  BY SizeFacts, CapacityFacts DEF RingTypeOK, M
<1>2. nr_removed + (Size + k) = nr_added + k \/ nr_removed + (Size + k) = (nr_added + k) + M
  <2> HIDE DEF M
  <2>1. QED
    BY <1>1, SizeFacts
<1>3. nr_added + k \in Nat
  BY <1>1
<1>4. QED
  BY <1>2, <1>3, ClipWrap

(* ringbuf_note_added: the counters after n bytes more.                    *)
LEMMA AddedCounters ==
  ASSUME RingTypeOK, NEW n \in Nat, Size + n <= Capacity, NoteAdded(n)
  PROVE  /\ nr_added' \in 0 .. M - 1 /\ nr_removed' = nr_removed /\ nr_removed \in 0 .. M - 1
         /\ Size' = Size + n
<1>1. M \in Nat \ {0} /\ nr_added \in 0 .. M - 1 /\ nr_removed \in 0 .. M - 1 /\ Size \in Nat /\ Capacity < M /\ Capacity \in Nat
  BY SizeFacts, CapacityFacts DEF RingTypeOK, M
<1>2. Size = IF nr_removed <= nr_added THEN nr_added - nr_removed ELSE nr_added - nr_removed + M
  BY SizeFacts
<1>3. nr_added' = Wrap(nr_added + n) /\ nr_removed' = nr_removed /\ Size' = Wrap(nr_added' - nr_removed')
  BY DEF NoteAdded, Size, Wrap
<1> DEFINE t == Size
           a == nr_added
           r == nr_removed
           b == nr_added'
<1> HIDE DEF M, t
<1>4. b = IF a + n < M THEN a + n ELSE a + n - M
  <2>1. CASE a + n < M
    <3>1. a + n \in 0 .. M - 1
      BY <1>1, <2>1
    <3>2. QED
      BY <1>3, <2>1, <3>1, WrapFacts
  <2>2. CASE ~(a + n < M)
    <3>1. a + n - M \in 0 .. M - 1 /\ (a + n - M) + M = a + n
      BY <1>1, <2>2 DEF t
    <3>2. Wrap((a + n - M) + M) = a + n - M
      BY <3>1, WrapFacts
    <3>3. QED
      BY <1>3, <2>2, <3>1, <3>2
  <2>3. QED
    BY <2>1, <2>2
<1>5. b \in 0 .. M - 1
  BY <1>1, <1>4 DEF t
<1>6. t + n \in 0 .. M - 1 /\ (b - r = t + n \/ b - r = (t + n) - M)
  BY <1>1, <1>2, <1>4 DEF t
<1>7. Wrap(b - r) = t + n
  BY <1>6, WrapFacts
<1>8. QED
  BY <1>1, <1>3, <1>5, <1>7 DEF t

(* What storing bytes behind the contents leaves in mem.                   *)
LEMMA StoredFacts ==
  ASSUME RingTypeOK, NEW sz \in 0 .. Capacity, NEW n \in 0 .. sz, NEW s \in [1 .. n -> Byte], Len(s) = n,
         mem' = Store(IoRegion(nr_added, sz), s)
  PROVE  /\ mem' \in [0 .. Capacity - 1 -> Byte]
         /\ \A j \in 1 .. n : mem'[Clip(nr_added + (j - 1))] = s[j]
         /\ \A k \in 0 .. Capacity - 1 : (\A j \in 1 .. n : Clip(nr_added + (j - 1)) # k) => mem'[k] = mem[k]
<1> DEFINE R == IoRegion(nr_added, sz)
<1>1. /\ mem \in [0 .. Capacity - 1 -> Byte] /\ nr_added \in Nat /\ Capacity \in Nat \ {0} /\ sz \in Nat /\ n \in Nat
      /\ DOMAIN mem = 0 .. Capacity - 1
  BY CapacityFacts DEF RingTypeOK, M
<1>2. \A j \in 1 .. n : R[j] = Clip(nr_added + (j - 1))
  BY <1>1, RegionFacts
<1>3. mem' = [k \in 0 .. Capacity - 1 |->
                IF \E i \in 1 .. n : R[i] = k THEN s[CHOOSE i \in 1 .. n : R[i] = k] ELSE mem[k]]
  BY <1>1 DEF Store
<1> HIDE DEF R
<1>4. ASSUME NEW k \in 0 .. Capacity - 1, NEW j \in 1 .. n, R[j] = k
      PROVE  mem'[k] = s[j]
  <2>1. (CHOOSE i \in 1 .. n : R[i] = k) \in 1 .. n /\ R[CHOOSE i \in 1 .. n : R[i] = k] = k
    BY <1>4
  <2>2. mem'[k] = s[CHOOSE i \in 1 .. n : R[i] = k]
    BY <1>3, <1>4
  <2> DEFINE i == CHOOSE i \in 1 .. n : R[i] = k
  <2> HIDE DEF i
  <2>3. i \in 1 .. n /\ R[i] = k
    BY <2>1 DEF i
  <2>4. i - 1 \in 0 .. Capacity - 1 /\ j - 1 \in 0 .. Capacity - 1
    BY <1>1, <2>3
  <2>5. Clip(nr_added + (i - 1)) = Clip(nr_added + (j - 1))
    BY <1>2, <1>4, <2>3
  <2>6. i - 1 = j - 1
    BY <1>1, <2>4, <2>5, PlacesDiffer
  <2>7. i = j
    BY <1>1, <2>3, <2>6
  <2>8. QED
    BY <2>2, <2>7 DEF i
<1>5. ASSUME NEW j \in 1 .. n
      PROVE  Clip(nr_added + (j - 1)) \in 0 .. Capacity - 1 /\ mem'[Clip(nr_added + (j - 1))] = s[j]
  <2>1. nr_added + (j - 1) \in Nat /\ 0 \in 0 .. Capacity
    BY <1>1
  <2>2. Clip(nr_added + (j - 1)) \in 0 .. Capacity - 1
    BY <2>1, ClipAdd
  <2>3. QED
    BY <1>2, <1>4, <2>2
<1>6. ASSUME NEW k \in 0 .. Capacity - 1, \A j \in 1 .. n : Clip(nr_added + (j - 1)) # k
      PROVE  mem'[k] = mem[k]
  BY <1>2, <1>3, <1>6
<1>7. ASSUME NEW k \in 0 .. Capacity - 1 PROVE mem'[k] \in Byte
  <2>1. CASE \E j \in 1 .. n : R[j] = k
    BY <1>4, <2>1
  <2>2. CASE ~\E j \in 1 .. n : R[j] = k
    BY <1>1, <1>3, <2>2
  <2>3. QED
    BY <2>1, <2>2
<1>8. mem' \in [0 .. Capacity - 1 -> Byte]
  BY <1>3, <1>7
<1>9. QED
  BY <1>5, <1>6, <1>8

(* channel_read_1 and channel_write put bytes behind those held.           *)
LEMMA ReadInPuts ==
  ASSUME RingTypeOK, NEW sz \in 0 .. Capacity, NEW n \in 0 .. Capacity, NEW s \in [1 .. n -> Byte], ReadIn(sz, s)
  PROVE  RingTypeOK' /\ Fifo!Put(s)
<1>1. s \in Seq(Byte) /\ Len(s) = n /\ n \in Nat /\ Capacity \in Nat
  <2>1. n \in Nat /\ Capacity \in Nat
    BY CapacityFacts
  <2>2. s \in Seq(Byte)
    BY <2>1, SeqDef
  <2>3. QED
    BY <2>1, <2>2, LenProperties
<1>2. sz <= Room /\ n <= sz /\ mem' = Store(IoRegion(nr_added, sz), s) /\ NoteAdded(n) /\ taken' = <<>>
  BY <1>1 DEF ReadIn
<1>3. Size \in 0 .. Capacity /\ Size \in Nat /\ Size + n <= Capacity /\ n \in 0 .. sz
  BY <1>1, <1>2, SizeFacts
<1>4. /\ nr_added' \in 0 .. M - 1 /\ nr_removed' = nr_removed /\ nr_removed \in 0 .. M - 1
      /\ Size' = Size + n
  BY <1>1, <1>2, <1>3, AddedCounters
<1>5. /\ mem' \in [0 .. Capacity - 1 -> Byte]
      /\ \A j \in 1 .. n : mem'[Clip(nr_added + (j - 1))] = s[j]
      /\ \A k \in 0 .. Capacity - 1 : (\A j \in 1 .. n : Clip(nr_added + (j - 1)) # k) => mem'[k] = mem[k]
  BY <1>1, <1>2, <1>3, StoredFacts
<1>6. RingTypeOK'
  BY <1>3, <1>4, <1>5 DEF RingTypeOK, M
<1>7. Described /\ Described'
  BY <1>6, ContentsFacts, ContentsAfter
<1> DEFINE q == Contents
           q2 == Contents'
           t == Size
<1>8. /\ q \in Seq(Byte) /\ Len(q) = t /\ \A i \in 1 .. t : q[i] = mem[Clip(nr_removed + (i - 1))]
      /\ q2 \in Seq(Byte) /\ Len(q2) = t + n /\ \A i \in 1 .. t + n : q2[i] = mem'[Clip(nr_removed + (i - 1))]
  BY <1>4, <1>7 DEF Described, Clip
<1>9. /\ q \o s \in Seq(Byte) /\ Len(q \o s) = t + n
      /\ \A i \in 1 .. t + n : (q \o s)[i] = IF i <= t THEN q[i] ELSE s[i - t]
  BY <1>1, <1>8, ConcatProperties
<1> HIDE DEF q, q2
<1>10. ASSUME NEW i \in 1 .. t + n PROVE q2[i] = (q \o s)[i]
  <2>1. CASE i <= t
    <3>1. i \in 1 .. t /\ i - 1 \in 0 .. Capacity - 1 /\ nr_removed \in Nat
      BY <1>1, <1>3, <1>4, <2>1
    <3> DEFINE k == Clip(nr_removed + (i - 1))
    <3>2. k \in 0 .. Capacity - 1
      <4>1. nr_removed + (i - 1) \in Nat /\ 0 \in 0 .. Capacity
        BY <1>1, <3>1
      <4>2. QED
        BY <4>1, ClipAdd
    <3>3. ASSUME NEW j \in 1 .. n, Clip(nr_added + (j - 1)) = k PROVE FALSE
      <4>1. j - 1 \in Nat /\ t + (j - 1) \in 0 .. Capacity - 1
        BY <1>1, <1>3, <3>3
      <4>2. Clip(nr_added + (j - 1)) = Clip(nr_removed + (t + (j - 1)))
        BY <4>1, PlaceAdded
      <4>3. i - 1 = t + (j - 1)
        BY <3>1, <3>3, <4>1, <4>2, PlacesDiffer
      <4>4. QED
        BY <1>1, <1>3, <3>1, <4>3
    <3>4. mem'[k] = mem[k]
      BY <1>5, <3>2, <3>3
    <3> HIDE DEF k
    <3>5. q2[i] = mem'[k] /\ q[i] = mem[k]
      BY <1>8, <3>1 DEF k
    <3>6. QED
      BY <1>9, <2>1, <3>4, <3>5
  <2>2. CASE ~(i <= t)
    <3>1. i - t \in 1 .. n /\ (i - t) - 1 \in Nat /\ t + ((i - t) - 1) = i - 1
      BY <1>1, <1>3, <2>2
    <3>2. Clip(nr_added + ((i - t) - 1)) = Clip(nr_removed + (i - 1))
      BY <3>1, PlaceAdded
    <3>3. mem'[Clip(nr_removed + (i - 1))] = s[i - t]
      BY <1>5, <3>1, <3>2
    <3>4. QED
      BY <1>8, <1>9, <2>2, <3>3
  <2>3. QED
    BY <2>1, <2>2
<1>11. q2 = q \o s
  BY <1>8, <1>9, <1>10, SeqEqual
<1>12. Len(q) + Len(s) <= Capacity
  BY <1>1, <1>3, <1>8
<1>13. QED
  BY <1>2, <1>6, <1>11, <1>12 DEF Fifo!Put, q, q2

(* ringbuf_note_removed: the counters after n bytes less.  An empty buffer *)
(* starts over.                                                            *)
LEMMA RemovedCounters ==
  ASSUME RingTypeOK, NEW n \in Nat, n <= Size, NoteRemoved(n)
  PROVE  /\ nr_added' \in 0 .. M - 1 /\ nr_removed' \in 0 .. M - 1 /\ Size' = Size - n
         /\ Size - n > 0 => \A k \in Nat : Clip(nr_removed' + k) = Clip(nr_removed + (n + k))
<1>1. M \in Nat \ {0} /\ nr_added \in 0 .. M - 1 /\ nr_removed \in 0 .. M - 1 /\ Size \in Nat /\ Size < M
  BY SizeFacts, CapacityFacts DEF RingTypeOK, M
<1>2. Size = IF nr_removed <= nr_added THEN nr_added - nr_removed ELSE nr_added - nr_removed + M
  BY SizeFacts
<1> DEFINE t == Size
           a == nr_added
           r == nr_removed
           v == Wrap(nr_removed + n)
<1>3. Size' = Wrap(nr_added' - nr_removed')
  BY DEF Size, Wrap
<1> HIDE DEF M, t, v
<1>4. v = IF r + n < M THEN r + n ELSE r + n - M
  <2>1. CASE r + n < M
    <3>1. r + n \in 0 .. M - 1
      BY <1>1, <2>1
    <3>2. QED
      BY <2>1, <3>1, WrapFacts DEF v
  <2>2. CASE ~(r + n < M)
    <3>1. r + n - M \in 0 .. M - 1 /\ (r + n - M) + M = r + n
      BY <1>1, <2>2
    <3>2. Wrap((r + n - M) + M) = r + n - M
      BY <3>1, WrapFacts
    <3>3. QED
      BY <2>2, <3>1, <3>2 DEF v
  <2>3. QED
    BY <2>1, <2>2
<1>5. v \in 0 .. M - 1
  BY <1>1, <1>4
<1>6. t - n \in 0 .. M - 1 /\ (a - v = t - n \/ a - v = (t - n) - M \/ a - v = (t - n) + M)
  BY <1>1, <1>2, <1>4 DEF t
<1>7. Wrap(a - v) = t - n
  BY <1>6, WrapFacts
<1>8. CASE t - n = 0
  <2>1. nr_added' = 0 /\ nr_removed' = 0
    BY <1>7, <1>8 DEF NoteRemoved, v
  <2>2. 0 \in 0 .. M - 1 /\ 0 - 0 = 0
    BY <1>1
  <2>3. Wrap(0) = 0
    BY <2>2, WrapFacts
  <2>4. QED
    BY <1>3, <1>8, <2>1, <2>2, <2>3 DEF t
<1>9. CASE t - n # 0
  <2>1. nr_added' = a /\ nr_removed' = v
    BY <1>7, <1>9 DEF NoteRemoved, v
  <2>2. Size' = t - n
    BY <1>3, <1>7, <2>1
  <2>3. ASSUME NEW k \in Nat PROVE Clip(v + k) = Clip(r + (n + k))
    <3>1. r + (n + k) = v + k \/ r + (n + k) = (v + k) + M
      BY <1>1, <1>4
    <3>2. v + k \in Nat
      BY <1>1, <1>5
    <3>3. QED
      BY <3>1, <3>2, ClipWrap
  <2>4. QED
    BY <1>1, <1>5, <2>1, <2>2, <2>3 DEF t
<1>10. QED
  BY <1>8, <1>9

(* The oldest bytes go, and the others stay as they are.                   *)
LEMMA RemovedContents ==
  ASSUME RingTypeOK, NEW n \in Nat, n <= Size, NoteRemoved(n), UNCHANGED mem
  PROVE  RingTypeOK' /\ n <= Len(Contents) /\ Contents' = SubSeq(Contents, n + 1, Len(Contents))
<1>1. /\ nr_added' \in 0 .. M - 1 /\ nr_removed' \in 0 .. M - 1 /\ Size' = Size - n
      /\ Size - n > 0 => \A k \in Nat : Clip(nr_removed' + k) = Clip(nr_removed + (n + k))
  BY RemovedCounters
<1>2. Size \in 0 .. Capacity /\ Size \in Nat /\ Capacity \in Nat
  BY SizeFacts, CapacityFacts
<1>3. RingTypeOK'
  <2>1. mem' \in [0 .. Capacity - 1 -> Byte] /\ Size' <= Capacity
    BY <1>1, <1>2 DEF RingTypeOK
  <2>2. QED
    BY <1>1, <2>1 DEF RingTypeOK, M
<1>4. Described /\ Described'
  BY <1>3, ContentsFacts, ContentsAfter
<1> DEFINE q == Contents
           q2 == Contents'
           t == Size
<1>5. /\ q \in Seq(Byte) /\ Len(q) = t /\ \A i \in 1 .. t : q[i] = mem[Clip(nr_removed + (i - 1))]
      /\ q2 \in Seq(Byte) /\ Len(q2) = t - n /\ \A i \in 1 .. t - n : q2[i] = mem[Clip(nr_removed' + (i - 1))]
  BY <1>1, <1>4 DEF Described, Clip
<1> HIDE DEF q, q2, t
<1> DEFINE x == SubSeq(q, n + 1, t)
<1>6. x \in Seq(Byte) /\ Len(x) = t - n /\ \A i \in 1 .. t - n : x[i] = q[n + i]
  <2>1. \A i \in n + 1 .. t : q[i] \in Byte
    BY <1>2, <1>5, ElementOfSeq DEF t
  <2>2. n + 1 \in Int /\ t \in Int
    BY <1>2 DEF t
  <2>3. /\ x \in Seq(Byte) /\ Len(x) = (IF n + 1 <= t THEN t - (n + 1) + 1 ELSE 0)
        /\ \A i \in 1 .. t - (n + 1) + 1 : x[i] = q[(n + 1) + i - 1]
    BY <2>1, <2>2, SubSeqProperties
  <2> HIDE DEF x
  <2>4. Len(x) = t - n
    BY <1>2, <2>3 DEF t
  <2>5. ASSUME NEW i \in 1 .. t - n PROVE x[i] = q[n + i]
    <3>1. i \in 1 .. t - (n + 1) + 1 /\ (n + 1) + i - 1 = n + i
      BY <1>2 DEF t
    <3>2. QED
      BY <2>3, <3>1
  <2>6. QED
    BY <2>3, <2>4, <2>5
<1> HIDE DEF x
<1>7. ASSUME NEW i \in 1 .. t - n PROVE q2[i] = x[i]
  <2>1. t - n > 0 /\ i - 1 \in Nat /\ n + i \in 1 .. t /\ n + (i - 1) = (n + i) - 1
    BY <1>2 DEF t
  <2>2. Clip(nr_removed' + (i - 1)) = Clip(nr_removed + (n + (i - 1)))
    BY <1>1, <2>1 DEF t
  <2>3. QED
    BY <1>5, <1>6, <2>1, <2>2, SMTT(30)
<1>8. q2 = x
  BY <1>5, <1>6, <1>7, SeqEqual
<1>9. QED
  BY <1>3, <1>5, <1>8 DEF q, q2, x, t

(* The bytes that are offered to writev are the oldest ones.               *)
LEMMA LoadedFacts ==
  ASSUME RingTypeOK, NEW sz \in 0 .. Capacity, NEW n \in 0 .. Capacity, sz <= Size, n <= sz
  PROVE  Load(IoRegion(nr_removed, sz), n) = SubSeq(Contents, 1, n)
<1>1. Size \in 0 .. Capacity /\ Size \in Nat /\ Capacity \in Nat /\ nr_removed \in Nat
  BY SizeFacts, CapacityFacts DEF RingTypeOK, M
<1>2. Described
  BY ContentsFacts
<1> DEFINE q == Contents
           t == Size
           y == Load(IoRegion(nr_removed, sz), n)
           x == SubSeq(q, 1, n)
<1>3. q \in Seq(Byte) /\ Len(q) = t /\ \A i \in 1 .. t : q[i] = mem[Clip(nr_removed + (i - 1))]
  BY <1>2 DEF Described
<1>4. y = [i \in 1 .. n |-> y[i]] /\ \A i \in 1 .. n : y[i] = mem[IoRegion(nr_removed, sz)[i]]
  BY DEF Load
<1>5. ASSUME NEW i \in 1 .. n PROVE y[i] = q[i]
  <2>1. i \in 1 .. sz /\ i \in 1 .. t
    BY <1>1
  <2>2. IoRegion(nr_removed, sz)[i] = Clip(nr_removed + (i - 1))
    BY <1>1, <2>1, RegionFacts
  <2>3. QED
    BY <1>3, <1>4, <2>1, <2>2
<1> HIDE DEF q, y, t
<1>6. n \in Nat /\ \A i \in 1 .. n : q[i] \in Byte
  BY <1>1, <1>3, ElementOfSeq DEF t
<1>7. x \in Seq(Byte) /\ Len(x) = n /\ \A i \in 1 .. n : x[i] = q[i]
  BY <1>6, SubSeqProperties
<1>8. y \in Seq(Byte) /\ Len(y) = n
  <2>1. y \in [1 .. n -> Byte] /\ DOMAIN y = 1 .. n
    BY <1>4, <1>5, <1>6
  <2>2. y \in Seq(Byte)
    BY <1>6, <2>1, SeqDef
  <2>3. QED
    BY <1>6, <2>1, <2>2, LenProperties
<1> HIDE DEF x
<1>9. y = x
  BY <1>5, <1>7, <1>8, SeqEqual
<1>10. QED
  BY <1>9 DEF q, x, y

----------------------------------------------------------------------------
(* Every operation keeps the types and is one of the FIFO.                 *)
LEMMA RingStep ==
  ASSUME RingTypeOK, [RingNext]_rvars
  PROVE  RingTypeOK' /\ [Fifo!FifoNext]_(Fifo!fvars)
<1>1. Capacity \in Nat
  BY CapacityFacts
<1>2. CASE UNCHANGED rvars
  <2>1. RingTypeOK'
    BY <1>2 DEF rvars, RingTypeOK, Size
  <2>2. UNCHANGED <<Contents, taken>>
    BY <1>2 DEF rvars, Contents, Load, Size, IoRegion, Clip
  <2>3. QED
    BY <2>1, <2>2 DEF Fifo!fvars
<1>3. ASSUME NEW sz \in 0 .. Capacity, NEW n \in 0 .. Capacity, NEW s \in [1 .. n -> Byte], ReadIn(sz, s)
      PROVE  RingTypeOK' /\ Fifo!FifoNext
  BY <1>3, ReadInPuts DEF Fifo!FifoNext
<1>4. ASSUME NEW n \in 0 .. Capacity, NEW s \in [1 .. n -> Byte], CopyIn(s)
      PROVE  RingTypeOK' /\ Fifo!FifoNext
  <2>1. Len(s) = n
    <3>1. n \in Nat /\ s \in Seq(Byte)
      BY <1>1, SeqDef
    <3>2. QED
      BY <3>1, LenProperties
  <2>2. QED
    BY <1>3, <1>4, <2>1 DEF CopyIn
<1>5. ASSUME NEW sz \in 0 .. Capacity, NEW n \in 0 .. Capacity, WriteOut(sz, n)
      PROVE  RingTypeOK' /\ Fifo!FifoNext
  <2>1. /\ sz <= Size /\ n <= sz /\ n \in Nat /\ n <= Size /\ NoteRemoved(n) /\ UNCHANGED mem
        /\ taken' = Load(IoRegion(nr_removed, sz), n)
    BY <1>1, <1>5, SizeFacts DEF WriteOut
  <2>2. RingTypeOK' /\ n <= Len(Contents) /\ Contents' = SubSeq(Contents, n + 1, Len(Contents))
    BY <2>1, RemovedContents
  <2>3. taken' = SubSeq(Contents, 1, n)
    BY <2>1, LoadedFacts
  <2>4. Fifo!Take(n)
    BY <2>2, <2>3 DEF Fifo!Take
  <2>5. QED
    BY <2>2, <2>4 DEF Fifo!FifoNext
<1>6. ASSUME NEW n \in 0 .. Capacity, Discard(n)
      PROVE  RingTypeOK' /\ Fifo!FifoNext
  <2>1. n \in Nat /\ n <= Size /\ NoteRemoved(n) /\ UNCHANGED mem /\ taken' = <<>>
    BY <1>1, <1>6 DEF Discard
  <2>2. RingTypeOK' /\ n <= Len(Contents) /\ Contents' = SubSeq(Contents, n + 1, Len(Contents))
    BY <2>1, RemovedContents
  <2>3. Fifo!Drop(n)
    BY <2>1, <2>2 DEF Fifo!Drop
  <2>4. QED
    BY <2>2, <2>3 DEF Fifo!FifoNext
<1>7. QED
  BY <1>2, <1>3, <1>4, <1>5, <1>6 DEF RingNext, CopyOut

(* At the start the buffer is empty.                                       *)
LEMMA RingStart ==
  ASSUME RingInit
  PROVE  RingTypeOK /\ Fifo!FifoInit
<1>1. M \in Nat \ {0} /\ Capacity \in Nat
  BY CapacityFacts
<1>2. Size = 0
  <2>1. 0 \in 0 .. M - 1 /\ 0 - 0 = 0
    BY <1>1
  <2>2. Wrap(0) = 0
    BY <2>1, WrapFacts
  <2>3. QED
    BY <2>1, <2>2 DEF RingInit, Size
<1>3. RingTypeOK
  BY <1>1, <1>2 DEF RingInit, RingTypeOK, M
<1>4. Contents \in Seq(Byte) /\ Len(Contents) = 0
  BY <1>2, <1>3, ContentsFacts DEF Described
<1>5. Contents = <<>>
  BY <1>4, EmptySeq
<1>6. QED
  BY <1>3, <1>5 DEF Fifo!FifoInit, RingInit

(* The counters stay within a size_t and never more than the capacity      *)
(* apart, so ringbuf_room does not wrap around, and neither does the       *)
(* ringbuf_size of a buffer whose counters did.                            *)
THEOREM CountersHold == RingSpec => []RingTypeOK
<1>1. RingInit => RingTypeOK
  BY RingStart
<1>2. RingTypeOK /\ [RingNext]_rvars => RingTypeOK'
  BY RingStep
<1>3. QED
  BY <1>1, <1>2, PTL DEF RingSpec

(* The ring buffer is a bounded FIFO: regions that are split at the end of *)
(* mem (ringbuf_io_region), starting over when empty                       *)
(* (ringbuf_note_removed) and the wrap-around of the counters neither      *)
(* reorder, lose nor repeat bytes.                                         *)
THEOREM RingIsFifo == RingSpec => IsFifo
<1>1. RingInit => RingTypeOK /\ Fifo!FifoInit
  BY RingStart
<1>2. RingTypeOK /\ [RingNext]_rvars => RingTypeOK' /\ [Fifo!FifoNext]_(Fifo!fvars)
  BY RingStep
<1>3. QED
  BY <1>1, <1>2, PTL DEF RingSpec, IsFifo, Fifo!FifoSpec

=============================================================================
