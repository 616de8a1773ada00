---------------------------- MODULE Sync_proofs ----------------------------
(* Theorems about the SYNC extension: its macros add for words of every    *)
(* size (SyncValue); the lists of counters are exact and their walks sound *)
(* and complete (SyncCounters); and with the counter SERVERTIME            *)
(* (ServerTime) the server does not sleep past an alarm, and the counter   *)
(* reaches no comparison that has not fired.                               *)
EXTENDS SyncCounters, ServerTime, WellFoundedInduction, TLAPS

Half == Word \div 2

LEMMA Halves == Half \in Nat \ {0} /\ Word = 2 * Half
BY SyncValueAssumption DEF Half

(* Division by the size of a word has one result.                          *)
LEMMA DivMod ==
  ASSUME NEW v \in Int
  PROVE  /\ v \div Word \in Int /\ v % Word \in 0 .. Word - 1
         /\ v = Word * (v \div Word) + (v % Word)
BY SyncValueAssumption, SMTT(30)

(* A multiple of the word is less than another if and only if the factor   *)
(* is: the low words do not matter.                                        *)
LEMMA HighCounts ==
  ASSUME NEW h \in Int, NEW l \in 0 .. Word - 1, NEW n \in Int
  PROVE  (Word * h + l < Word * n) <=> h < n
<1>1. ASSUME h < n PROVE Word * h + l < Word * n
  <2>1. h + 1 <= n
    BY <1>1
  <2>2. Word * (h + 1) <= Word * n
    BY <2>1, SyncValueAssumption, SMTT(30)
  <2>3. Word * (h + 1) = Word * h + Word
    BY SyncValueAssumption, SMTT(30)
  <2> QED BY <2>2, <2>3, SyncValueAssumption, SMTT(30)
<1>2. ASSUME h >= n PROVE Word * h + l >= Word * n
  <2>1. Word * h >= Word * n
    BY <1>2, SyncValueAssumption, SMTT(30)
  <2> QED BY <2>1, SyncValueAssumption, SMTT(30)
<1>3. h < n \/ h >= n
  OBVIOUS
<1>4. Word * h \in Int /\ Word * n \in Int
  BY SyncValueAssumption, SMTT(30)
<1> QED BY <1>1, <1>2, <1>3, <1>4, SyncValueAssumption

(* A value is an integer whose high word is in range.                      *)
LEMMA ValueHigh ==
  ASSUME NEW h \in Int, NEW l \in 0 .. Word - 1
  PROVE  Word * h + l \in Values <=> h \in -Half .. Half - 1
<1>1. Word * h + l < Word * Half <=> h < Half
  BY HighCounts, Halves
<1>2. Word * h + l < Word * (-Half) <=> h < -Half
  BY HighCounts, Halves
<1>3. Word * (-Half) = -(Word * Half) /\ Word * h \in Int /\ Word * Half \in Int
  BY Halves, SyncValueAssumption, SMTT(30)
<1> QED BY <1>1, <1>2, <1>3, Halves, SyncValueAssumption DEF Values, Half

LEMMA Unique ==
  ASSUME NEW h \in Int, NEW l \in 0 .. Word - 1
  PROVE  (Word * h + l) \div Word = h /\ (Word * h + l) % Word = l
<1> DEFINE v == Word * h + l
           d == v \div Word
           m == v % Word
<1>1. v \in Int
  BY SyncValueAssumption, SMTT(30)
<1>2. d \in Int /\ m \in 0 .. Word - 1 /\ v = Word * d + m
  BY <1>1, DivMod
<1> HIDE DEF d, m
<1>3. v < Word * (h + 1) /\ ~(v < Word * h)
  BY HighCounts
<1>4. d < h + 1 /\ ~(d < h)
  BY <1>2, <1>3, HighCounts
<1>5. d = h
  BY <1>2, <1>4
<1>6. Word * h \in Int
  BY SyncValueAssumption, SMTT(30)
<1>7. m = l
  <2>1. Word * h + m = Word * h + l
    BY <1>2, <1>5
  <2> QED BY <2>1, <1>2, <1>6
<1> QED BY <1>5, <1>7 DEF d, m

(* A high word between -Word and Word - 1 that is out of range by one bit. *)
LEMMA SignedIs ==
  ASSUME NEW h \in -Word .. Word - 1
  PROVE  Signed(h) = IF h < -Half THEN h + Word ELSE IF h >= Half THEN h - Word ELSE h
<1> USE Halves, SyncValueAssumption
<1>1. CASE h < -Half
  <2>0. h + Half + Word \in 0 .. Word - 1
    BY <1>1
  <2>1. h + Half = Word * (-1) + (h + Half + Word)
    OBVIOUS
  <2>2. (h + Half) % Word = h + Half + Word
    BY <1>1, <2>1, Unique, <2>0
  <2> QED BY <1>1, <2>2 DEF Signed, Half
<1>2. CASE h >= Half
  <2>0. h + Half - Word \in 0 .. Word - 1
    BY <1>2
  <2>1. h + Half = Word * 1 + (h + Half - Word)
    OBVIOUS
  <2>2. (h + Half) % Word = h + Half - Word
    BY <1>2, <2>1, Unique, <2>0
  <2> QED BY <1>2, <2>2 DEF Signed, Half
<1>3. CASE h \in -Half .. Half - 1
  <2>0. h + Half \in 0 .. Word - 1
    BY <1>3
  <2>1. h + Half = Word * 0 + (h + Half)
    OBVIOUS
  <2>2. (h + Half) % Word = h + Half
    BY <1>3, <2>1, Unique, <2>0
  <2> QED BY <1>3, <2>2 DEF Signed, Half
<1> QED BY <1>1, <1>2, <1>3

(* XSyncValueAdd adds word by word what AddExact says: the low words may   *)
(* carry, the high words may leave their range by one bit, and two values  *)
(* of one sign have a sum of the other exactly then.                       *)
THEOREM AdditionIsExact == AddExact
<1> SUFFICES ASSUME NEW a \in Values, NEW b \in Values
             PROVE  LET sum == XSyncValueAdd(a, b)
                    IN  IF a + b \in Values THEN ~sum.overflow /\ sum.value = a + b ELSE sum.overflow
  BY DEF AddExact
<1>1. a \in Int /\ b \in Int
  <2>1. Word * (Word \div 2) \in Int
    BY Halves, SyncValueAssumption, SMTT(30) DEF Half
  <2> QED BY <2>1 DEF Values
<1> DEFINE ah == a \div Word
           al == a % Word
           bh == b \div Word
           bl == b % Word
           lo == (al + bl) % Word
           c  == IF al > lo THEN 1 ELSE 0
           hi == ah + bh + c
           v  == XSyncIntsToValue(lo, hi)
<1>2. /\ ah \in Int /\ al \in 0 .. Word - 1 /\ a = Word * ah + al
      /\ bh \in Int /\ bl \in 0 .. Word - 1 /\ b = Word * bh + bl
  BY <1>1, DivMod
<1>3. /\ XSyncValueAdd(a, b).value = v
      /\ XSyncValueAdd(a, b).overflow <=> (ah < 0 <=> bh < 0) /\ ~(ah < 0 <=> v \div Word < 0)
  BY DEF XSyncValueAdd, XSyncValueLow32, XSyncValueHigh32, XSyncValueIsNegative
<1> HIDE DEF ah, al, bh, bl
<1>4. ah \in -Half .. Half - 1 /\ bh \in -Half .. Half - 1
  BY <1>2, ValueHigh
<1>5. lo \in 0 .. Word - 1 /\ al + bl = Word * c + lo
  <2>1. CASE al + bl < Word
    <3>0. al + bl \in 0 .. Word - 1
      BY <2>1, <1>2, SyncValueAssumption
    <3>1. al + bl = Word * 0 + (al + bl)
      BY <1>2, SyncValueAssumption
    <3>2. lo = al + bl
      BY <2>1, <3>1, <1>2, Unique, <3>0
    <3> QED BY <2>1, <3>2, <1>2, SyncValueAssumption
  <2>2. CASE al + bl >= Word
    <3>0. al + bl - Word \in 0 .. Word - 1
      BY <2>2, <1>2, SyncValueAssumption
    <3>1. al + bl = Word * 1 + (al + bl - Word)
      BY <1>2, SyncValueAssumption
    <3>2. lo = al + bl - Word
      BY <2>2, <3>1, <1>2, Unique, <3>0
    <3> QED BY <2>2, <3>2, <1>2, SyncValueAssumption
  <2> QED BY <2>1, <2>2, <1>2, SyncValueAssumption
<1>6. c \in {0, 1}
  OBVIOUS
<1> HIDE DEF lo, c
<1>7. hi \in -Word .. Word - 1
  BY <1>4, <1>6, Halves
<1>8. a + b = Word * hi + lo
  <2>1. Word * hi = Word * ah + Word * bh + Word * c
    BY <1>2, <1>6, SyncValueAssumption, SMTT(30)
  <2>2. Word * ah \in Int /\ Word * bh \in Int /\ Word * c \in Int
    BY <1>2, <1>6, SyncValueAssumption, SMTT(30)
  <2> HIDE DEF hi
  <2> QED BY <2>1, <2>2, <1>2, <1>5
<1>9. a + b \in Values <=> hi \in -Half .. Half - 1
  <2>1. hi \in Int
    BY <1>7, SyncValueAssumption
  <2> HIDE DEF hi
  <2>2. Word * hi + lo \in Values <=> hi \in -Half .. Half - 1
    BY <2>1, <1>5, ValueHigh
  <2> QED BY <2>2, <1>8
<1> DEFINE s == Signed(hi)
<1>10. s = IF hi < -Half THEN hi + Word ELSE IF hi >= Half THEN hi - Word ELSE hi
  BY <1>7, SignedIs
<1>11. s \in Int
  BY <1>7, <1>10, Halves
<1>12. v = Word * s + lo
  <2>1. Word * s = s * Word
    BY <1>11, SyncValueAssumption, SMTT(30)
  <2> QED BY <2>1 DEF XSyncIntsToValue
<1> HIDE DEF s, v
<1>13. v \div Word < 0 <=> s < 0
  BY <1>5, <1>11, <1>12, Unique
<1>14. CASE hi \in -Half .. Half - 1
  <2>1. s = hi /\ v = a + b
    BY <1>8, <1>10, <1>12, <1>14, Halves
  <2>2. ~((ah < 0 <=> bh < 0) /\ ~(ah < 0 <=> hi < 0))
    BY <1>4, <1>6, Halves
  <2>3. a + b \in Values
    BY <1>9, <1>14
  <2>4. ~XSyncValueAdd(a, b).overflow
    BY <1>3, <1>13, <2>1, <2>2
  <2>5. XSyncValueAdd(a, b).value = a + b
    BY <1>3, <2>1
  <2> QED BY <2>3, <2>4, <2>5, Zenon
<1>15. CASE hi \notin -Half .. Half - 1
  <2>1. (ah < 0 <=> bh < 0) /\ ~(ah < 0 <=> s < 0)
    BY <1>4, <1>6, <1>7, <1>10, <1>15, Halves
  <2>2. a + b \notin Values
    BY <1>9, <1>15
  <2>3. XSyncValueAdd(a, b).overflow
    BY <1>3, <1>13, <2>1
  <2> QED BY <2>2, <2>3, Zenon
<1> QED BY <1>14, <1>15

-----------------------------------------------------------------------------
(* Counters: values, and the lists of triggers.                            *)

(* A set of natural numbers has a least element.                           *)
LEMMA LeastOf ==
  ASSUME NEW S \in SUBSET Nat, S # {}
  PROVE  \E x \in S : \A y \in S : x <= y
<1>1. PICK R : IsWellFoundedOn(R, Nat) /\ \A x, y \in Nat : <<x, y>> \in R <=> x < y
  <2>1. \A x, y \in Nat : <<x, y>> \in OpToRel(<, Nat) <=> x < y
    BY DEF OpToRel
  <2> QED BY <2>1, NatLessThanWellFounded, Zenon
<1>2. PICK x \in S : \A y \in S : ~ (<<y, x>> \in R)
  <2>1. IsWellFoundedOn(R, Nat) /\ S \subseteq Nat
    BY <1>1
  <2> QED BY <2>1, WFMin, Zenon
<1>3. \A y \in S : ~(y < x)
  BY <1>1, <1>2
<1> QED BY <1>2, <1>3

(* Values are integers, and what the macros make of words is a value.      *)
LEMMA ValuesAre == Values \subseteq Int /\ 0 \in Values
<1>1. Word * Half \in Nat \ {0}
  BY Halves, SyncValueAssumption, SMTT(30)
<1> QED BY <1>1 DEF Values, Half

LEMMA IntsTyped ==
  ASSUME NEW l \in 0 .. Word - 1, NEW h \in Int
  PROVE  XSyncIntsToValue(l, h) \in Values
<1> DEFINE r == (h + Half) % Word
<1>1. h + Half \in Int
  BY Halves
<1>2. r \in 0 .. Word - 1
  BY <1>1, DivMod
<1> HIDE DEF r
<1>3. r - Half \in -Half .. Half - 1 /\ r - Half \in Int
  BY <1>2, Halves
<1>4. Word * (r - Half) + l \in Values
  BY <1>3, ValueHigh
<1>5. XSyncIntsToValue(l, h) = (r - Half) * Word + l
  BY DEF XSyncIntsToValue, Signed, Half, r
<1>6. (r - Half) * Word = Word * (r - Half)
  BY <1>3, SyncValueAssumption, SMTT(30)
<1> QED BY <1>4, <1>5, <1>6

LEMMA AddTyped ==
  ASSUME NEW a \in Values, NEW b \in Values
  PROVE  XSyncValueAdd(a, b).value \in Values
<1> DEFINE lo == (XSyncValueLow32(a) + XSyncValueLow32(b)) % Word
           hi == XSyncValueHigh32(a) + XSyncValueHigh32(b)
                   + (IF XSyncValueLow32(a) > lo THEN 1 ELSE 0)
<1>1. a \in Int /\ b \in Int
  BY ValuesAre
<1>2. /\ XSyncValueLow32(a) \in 0 .. Word - 1 /\ XSyncValueLow32(b) \in 0 .. Word - 1
      /\ XSyncValueHigh32(a) \in Int /\ XSyncValueHigh32(b) \in Int
  BY <1>1, DivMod DEF XSyncValueLow32, XSyncValueHigh32
<1>3. lo \in 0 .. Word - 1
  BY <1>2, DivMod
<1>4. hi \in Int
  BY <1>2, <1>3
<1>5. XSyncValueAdd(a, b).value = XSyncIntsToValue(lo, hi)
  BY DEF XSyncValueAdd
<1> HIDE DEF lo, hi
<1> QED BY <1>3, <1>4, <1>5, IntsTyped

(* A delta leaves the range of values after as many additions as there are *)
(* values.                                                                 *)
LEMMA LeavesRange ==
  ASSUME NEW v \in Values, NEW d \in Values, d # 0
  PROVE  v + (Word * Word) * d \notin Values /\ Word * Word \in Nat \ {0}
<1> DEFINE W == Word * Word
           H == Word * Half
<1>1. W \in Nat \ {0} /\ H \in Nat /\ W = 2 * H
  BY Halves, SyncValueAssumption, SMTT(30)
<1>2. v \in -H .. H - 1 /\ d \in Int /\ Values = -H .. H - 1
  BY ValuesAre DEF Values, Half
<1> HIDE DEF W, H
<1>3. CASE d >= 1
  <2>1. W * d >= W /\ W * d \in Int
    BY <1>1, <1>2, <1>3, SMTT(30)
  <2> QED BY <1>1, <1>2, <2>1 DEF W
<1>4. CASE d <= -1
  <2>1. W * d <= -W /\ W * d \in Int
    BY <1>1, <1>2, <1>4, SMTT(30)
  <2> QED BY <1>1, <1>2, <2>1 DEF W
<1> QED BY <1>2, <1>3, <1>4

-----------------------------------------------------------------------------
(* Lists of triggers.                                                      *)
Once(s) == \A i, j \in DOMAIN s : s[i] = s[j] => i = j
Before(s, u, v) == \E i, j \in DOMAIN s : i < j /\ s[i] = u /\ s[j] = v

\* The end of a list: what is left of it after a deletion.
Suffix(r, s) ==
  /\ ToSet(r) \subseteq ToSet(s)
  /\ \A u \in ToSet(r) : \A v : Before(s, u, v) <=> Before(r, u, v)

(* A list has an order.                                                    *)
LEMMA OrderIs ==
  ASSUME NEW s \in Seq(Triggers), Once(s)
  PROVE  /\ \A u, v : Before(s, u, v) => u \in ToSet(s) /\ v \in ToSet(s) /\ ~Before(s, v, u)
         /\ \A u, v, w : Before(s, u, v) /\ Before(s, v, w) => Before(s, u, w)
         /\ \A u, v \in ToSet(s) : u = v \/ Before(s, u, v) \/ Before(s, v, u)
<1>1. DOMAIN s \subseteq Nat
  OBVIOUS
<1>2. ASSUME NEW u, NEW v, Before(s, u, v) PROVE u \in ToSet(s) /\ v \in ToSet(s) /\ ~Before(s, v, u)
  <2>1. PICK i \in DOMAIN s, j \in DOMAIN s : i < j /\ s[i] = u /\ s[j] = v
    BY <1>2 DEF Before
  <2>2. ASSUME Before(s, v, u) PROVE FALSE
    <3>1. PICK m \in DOMAIN s, n \in DOMAIN s : m < n /\ s[m] = v /\ s[n] = u
      BY <2>2 DEF Before
    <3>2. m = j /\ n = i
      BY <2>1, <3>1 DEF Once
    <3> QED BY <1>1, <2>1, <3>1, <3>2
  <2> QED BY <2>1, <2>2 DEF ToSet
<1>3. ASSUME NEW u, NEW v, NEW w, Before(s, u, v), Before(s, v, w) PROVE Before(s, u, w)
  <2>1. PICK i \in DOMAIN s, j \in DOMAIN s : i < j /\ s[i] = u /\ s[j] = v
    BY <1>3 DEF Before
  <2>2. PICK m \in DOMAIN s, n \in DOMAIN s : m < n /\ s[m] = v /\ s[n] = w
    BY <1>3 DEF Before
  <2>3. m = j
    BY <2>1, <2>2 DEF Once
  <2>4. i < n
    BY <1>1, <2>1, <2>2, <2>3
  <2> QED BY <2>1, <2>2, <2>4 DEF Before
<1>4. ASSUME NEW u \in ToSet(s), NEW v \in ToSet(s) PROVE u = v \/ Before(s, u, v) \/ Before(s, v, u)
  <2>1. PICK i \in DOMAIN s, j \in DOMAIN s : s[i] = u /\ s[j] = v
    BY DEF ToSet
  <2>2. i < j \/ i = j \/ j < i
    BY <1>1
  <2> QED BY <2>1, <2>2 DEF Before
<1> QED BY <1>2, <1>3, <1>4

(* After the deletion of a trigger its list has what was behind it.        *)
LEMMA BehindIs ==
  ASSUME NEW s \in Seq(Triggers), Once(s), NEW t
  PROVE  /\ Behind(s, t) \in Seq(Triggers) /\ Once(Behind(s, t)) /\ Suffix(Behind(s, t), s)
         /\ \A u : u \in ToSet(Behind(s, t)) <=> u \in ToSet(s) /\ (t \in ToSet(s) => Before(s, t, u))
         /\ \A u : u \in InFront(s, t) <=> Before(s, u, t)
<1>1. CASE t \notin ToSet(s)
  <2>1. Behind(s, t) = s /\ InFront(s, t) = {}
    BY <1>1 DEF Behind, InFront
  <2>2. \A u : ~Before(s, u, t)
    BY <1>1, OrderIs
  <2> QED BY <1>1, <2>1, <2>2 DEF Suffix
<1>2. CASE t \in ToSet(s)
  <2> DEFINE p == Place(s, t)
             r == SubSeq(s, p + 1, Len(s))
  <2>1. p \in DOMAIN s /\ s[p] = t
    BY <1>2 DEF Place, ToSet
  <2>2. Behind(s, t) = r /\ InFront(s, t) = {s[i] : i \in 1 .. p - 1}
    BY <1>2 DEF Behind, InFront
  <2>3. DOMAIN s = 1 .. Len(s) /\ Len(s) \in Nat
    OBVIOUS
  <2> HIDE DEF p
  <2>4. /\ r \in Seq(Triggers) /\ DOMAIN r = 1 .. Len(s) - p
        /\ \A j \in 1 .. Len(s) - p : r[j] = s[p + j]
    <3>1. p \in 1 .. Len(s)
      BY <2>1, <2>3
    <3>2. /\ r \in Seq(Triggers) /\ Len(r) = Len(s) - p
          /\ \A j \in 1 .. Len(s) - p : r[j] = s[p + j]
      BY <3>1
    <3> HIDE DEF r
    <3> QED BY <3>2
  <2> HIDE DEF r
  <2>12. p \in Nat /\ p >= 1 /\ p <= Len(s)
    BY <2>1, <2>3
  <2>5. \A i \in DOMAIN s : s[i] = t => i = p
    BY <2>1 DEF Once
  <2>6. \A j \in DOMAIN r : p + j \in DOMAIN s /\ p < p + j /\ r[j] = s[p + j]
    BY <2>1, <2>3, <2>4
  <2>7. ASSUME NEW i \in DOMAIN s, p < i PROVE i - p \in DOMAIN r /\ r[i - p] = s[i]
    <3>1. i - p \in 1 .. Len(s) - p /\ p + (i - p) = i
      BY <2>3, <2>7, <2>12
    <3> QED BY <2>4, <3>1
  <2>8. Once(r)
    <3> SUFFICES ASSUME NEW i \in DOMAIN r, NEW j \in DOMAIN r, r[i] = r[j] PROVE i = j
      BY DEF Once
    <3>1. p + i = p + j
      BY <2>6 DEF Once
    <3> QED BY <2>1, <2>3, <2>4, <3>1
  <2>9. \A u : u \in ToSet(r) <=> u \in ToSet(s) /\ Before(s, t, u)
    <3>1. ASSUME NEW u \in ToSet(r) PROVE u \in ToSet(s) /\ Before(s, t, u)
      <4>1. PICK j \in DOMAIN r : r[j] = u
        BY DEF ToSet
      <4>2. p + j \in DOMAIN s /\ p < p + j /\ s[p + j] = u
        BY <2>6, <4>1
      <4> QED BY <2>1, <4>2 DEF ToSet, Before
    <3>2. ASSUME NEW u, Before(s, t, u) PROVE u \in ToSet(r)
      <4>1. PICK i \in DOMAIN s : p < i /\ s[i] = u
        BY <2>5, <3>2 DEF Before
      <4>2. i - p \in DOMAIN r /\ r[i - p] = u
        BY <2>7, <4>1
      <4> QED BY <4>2 DEF ToSet
    <3> QED BY <3>1, <3>2
  <2>10. Suffix(r, s)
    <3>1. ASSUME NEW u, NEW v, Before(r, u, v) PROVE Before(s, u, v)
      <4>1. PICK i \in DOMAIN r, j \in DOMAIN r : i < j /\ r[i] = u /\ r[j] = v
        BY <3>1 DEF Before
      <4>2. p + i \in DOMAIN s /\ p + j \in DOMAIN s /\ s[p + i] = u /\ s[p + j] = v
        BY <2>6, <4>1
      <4>3. p + i < p + j
        BY <2>1, <2>3, <2>4, <4>1
      <4> QED BY <4>2, <4>3 DEF Before
    <3>2. ASSUME NEW u \in ToSet(r), NEW v, Before(s, u, v) PROVE Before(r, u, v)
      <4>1. PICK i \in DOMAIN s, j \in DOMAIN s : i < j /\ s[i] = u /\ s[j] = v
        BY <3>2 DEF Before
      <4>2. PICK m \in DOMAIN r : r[m] = u
        BY DEF ToSet
      <4>3. p + m = i
        BY <2>6, <4>1, <4>2 DEF Once
      <4>4. p < i /\ p < j
        BY <2>1, <2>3, <2>6, <4>1, <4>3
      <4>5. /\ i - p \in DOMAIN r /\ r[i - p] = u /\ j - p \in DOMAIN r /\ r[j - p] = v
        BY <2>7, <4>1, <4>4
      <4>6. i - p < j - p
        BY <2>1, <2>3, <4>1
      <4> QED BY <4>5, <4>6 DEF Before
    <3> QED BY <2>9, <3>1, <3>2 DEF Suffix
  <2>11. \A u : u \in {s[i] : i \in 1 .. p - 1} <=> Before(s, u, t)
    <3>1. ASSUME NEW u, Before(s, u, t) PROVE u \in {s[i] : i \in 1 .. p - 1}
      <4>1. PICK i \in DOMAIN s : i < p /\ s[i] = u
        BY <2>5, <3>1 DEF Before
      <4>2. i \in 1 .. p - 1
        BY <2>1, <2>3, <4>1
      <4> QED BY <4>1, <4>2
    <3>2. ASSUME NEW i \in 1 .. p - 1 PROVE Before(s, s[i], t)
      <4>1. i \in DOMAIN s /\ i < p
        BY <2>1, <2>3
      <4> QED BY <2>1, <4>1 DEF Before
    <3> QED BY <3>1, <3>2
  <2> QED BY <1>2, <2>2, <2>4, <2>8, <2>9, <2>10, <2>11
<1> QED BY <1>1, <1>2

(* What the lists hold, after a trigger was taken from one or added.       *)
Lists == [Counters -> Seq(Triggers)]
AllOnce(ls) == \A k \in Counters : Once(ls[k])

LEMMA DeleteIs ==
  ASSUME NEW ls \in Lists, AllOnce(ls), NEW t, NEW from
  PROVE  LET d == SyncDeleteTriggerFromCounter(ls, t, from)
         IN  /\ d \in Lists /\ AllOnce(d)
             /\ \A k \in Counters :
                  /\ Suffix(d[k], ls[k]) /\ (k # from => d[k] = ls[k])
                  /\ \A u : u \in ToSet(d[k]) <=>
                              u \in ToSet(ls[k]) /\ (k = from /\ t \in ToSet(ls[k]) => Before(ls[k], t, u))
<1> DEFINE d == SyncDeleteTriggerFromCounter(ls, t, from)
<1>1. \A k \in Counters : d[k] = IF k = from THEN Behind(ls[k], t) ELSE ls[k]
  BY DEF SyncDeleteTriggerFromCounter
<1>2. \A k \in Counters : ls[k] \in Seq(Triggers) /\ Once(ls[k])
  BY DEF Lists, AllOnce
<1>3. ASSUME NEW k \in Counters
      PROVE  /\ d[k] \in Seq(Triggers) /\ Once(d[k])
             /\ Suffix(d[k], ls[k]) /\ (k # from => d[k] = ls[k])
             /\ \A u : u \in ToSet(d[k]) <=>
                         u \in ToSet(ls[k]) /\ (k = from /\ t \in ToSet(ls[k]) => Before(ls[k], t, u))
  <2>1. ls[k] \in Seq(Triggers) /\ Once(ls[k])
    BY <1>2
  <2>2. CASE k = from
    <3>1. d[k] = Behind(ls[k], t)
      BY <1>1, <2>2
    <3> HIDE DEF d
    <3> QED BY <2>1, <2>2, <3>1, BehindIs
  <2>3. CASE k # from
    <3>1. d[k] = ls[k]
      BY <1>1, <2>3
    <3> HIDE DEF d
    <3> QED BY <2>1, <2>3, <3>1 DEF Suffix
  <2> QED BY <2>2, <2>3
<1>4. d = [k \in Counters |-> d[k]]
  BY DEF SyncDeleteTriggerFromCounter
<1> HIDE DEF d
<1>5. d \in Lists /\ AllOnce(d)
  BY <1>3, <1>4 DEF Lists, AllOnce
<1> QED BY <1>3, <1>5 DEF d

LEMMA AddIs ==
  ASSUME NEW ls \in Lists, AllOnce(ls), NEW t \in Triggers, NEW onto
  PROVE  LET d == SyncAddTriggerToCounter(ls, t, onto)
         IN  /\ d \in Lists /\ AllOnce(d)
             /\ \A k \in Counters : \A u : u \in ToSet(d[k]) <=> u \in ToSet(ls[k]) \/ (k = onto /\ u = t)
<1> DEFINE d == SyncAddTriggerToCounter(ls, t, onto)
<1>1. \A k \in Counters : d[k] = IF k = onto /\ t \notin ToSet(ls[k]) THEN <<t>> \o ls[k] ELSE ls[k]
  BY DEF SyncAddTriggerToCounter
<1>2. \A k \in Counters : ls[k] \in Seq(Triggers) /\ Once(ls[k])
  BY DEF Lists, AllOnce
<1>3. ASSUME NEW k \in Counters
      PROVE  /\ d[k] \in Seq(Triggers) /\ Once(d[k])
             /\ ToSet(d[k]) = IF k = onto THEN ToSet(ls[k]) \cup {t} ELSE ToSet(ls[k])
  <2>1. CASE k = onto /\ t \notin ToSet(ls[k])
    <3> DEFINE s == ls[k]
               r == <<t>> \o s
    <3>0. s \in Seq(Triggers) /\ Once(s) /\ t \notin ToSet(s)
      BY <1>2, <2>1
    <3>1. d[k] = r
      BY <1>1, <2>1
    <3> HIDE DEF s, d
    <3>2. /\ r \in Seq(Triggers) /\ DOMAIN r = 1 .. Len(s) + 1 /\ DOMAIN s = 1 .. Len(s) /\ Len(s) \in Nat
          /\ r[1] = t /\ \A j \in 1 .. Len(s) : r[j + 1] = s[j]
      BY <3>0
    <3> HIDE DEF r
    <3>3. \A j \in DOMAIN r : j = 1 \/ (j - 1 \in DOMAIN s /\ r[j] = s[j - 1])
      BY <3>2
    <3>4. Once(r)
      <4> SUFFICES ASSUME NEW i \in DOMAIN r, NEW j \in DOMAIN r, r[i] = r[j] PROVE i = j
        BY DEF Once
      <4>1. \A n \in DOMAIN s : s[n] # t
        BY <3>0 DEF ToSet
      <4>2. (i = 1) <=> (j = 1)
        BY <3>2, <3>3, <4>1
      <4>3. CASE i # 1
        <5>1. i - 1 \in DOMAIN s /\ j - 1 \in DOMAIN s /\ s[i - 1] = s[j - 1]
          BY <3>3, <4>2, <4>3
        <5>2. i - 1 = j - 1
          BY <5>1, <3>0 DEF Once
        <5> QED BY <5>2, <3>2
      <4> QED BY <4>2, <4>3
    <3>5. ToSet(r) = ToSet(s) \cup {t}
      <4>1. \A j \in DOMAIN s : j + 1 \in DOMAIN r /\ r[j + 1] = s[j]
        BY <3>2
      <4>2. 1 \in DOMAIN r
        BY <3>2
      <4>3. \A u \in ToSet(r) : u \in ToSet(s) \cup {t}
        BY <3>2, <3>3 DEF ToSet
      <4>4. \A u \in ToSet(s) \cup {t} : u \in ToSet(r)
        BY <3>2, <4>1, <4>2 DEF ToSet
      <4> QED BY <4>3, <4>4
    <3> QED BY <2>1, <3>1, <3>2, <3>4, <3>5 DEF s
  <2>2. CASE k = onto /\ t \in ToSet(ls[k])
    BY <1>1, <1>2, <2>2
  <2>3. CASE k # onto
    BY <1>1, <1>2, <2>3
  <2> QED BY <2>1, <2>2, <2>3
<1>4. d = [k \in Counters |-> d[k]]
  BY DEF SyncAddTriggerToCounter
<1> HIDE DEF d
<1>5. d \in Lists /\ AllOnce(d)
  BY <1>3, <1>4 DEF Lists, AllOnce
<1> QED BY <1>3, <1>5 DEF d

(* The trigger after another is the first of those behind it.              *)
LEMMA FollowingIs ==
  ASSUME NEW k \in Counters, list \in Lists, Once(list[k]), NEW t \in ToSet(list[k])
  PROVE  LET n == Following(k, t)
         IN  /\ n = None \/ (n \in ToSet(list[k]) /\ Before(list[k], t, n))
             /\ \A u : Before(list[k], t, u) => n # None /\ (u = n \/ Before(list[k], n, u))
<1> DEFINE s == list[k]
           i == Place(s, t)
           n == Following(k, t)
<1>1. s \in Seq(Triggers) /\ Once(s)
  BY DEF Lists
<1>2. i \in DOMAIN s /\ s[i] = t
  BY DEF Place, ToSet
<1>3. n = IF i < Len(s) THEN s[i + 1] ELSE None
  BY DEF Following
<1> HIDE DEF s, i, n
<1>4. DOMAIN s = 1 .. Len(s) /\ Len(s) \in Nat /\ \A j \in DOMAIN s : s[j] # None
  <2>1. \A j \in DOMAIN s : s[j] \in Triggers
    BY <1>1
  <2> QED BY <1>1, <2>1, SyncCountersAssumption
<1>5. \A j \in DOMAIN s : s[j] = t => j = i
  BY <1>1, <1>2 DEF Once
<1>6. ASSUME n # None PROVE n \in ToSet(s) /\ Before(s, t, n)
  <2>1. i + 1 \in DOMAIN s /\ n = s[i + 1]
    BY <1>2, <1>3, <1>4, <1>6
  <2>2. i < i + 1
    BY <1>2, <1>4
  <2> QED BY <1>2, <2>1, <2>2 DEF ToSet, Before
<1>7. ASSUME NEW u, Before(s, t, u) PROVE n # None /\ (u = n \/ Before(s, n, u))
  <2>1. PICK j \in DOMAIN s : i < j /\ s[j] = u
    BY <1>7, <1>5 DEF Before
  <2>2. i + 1 \in DOMAIN s /\ n = s[i + 1] /\ n # None
    BY <1>2, <1>3, <1>4, <2>1
  <2>3. i + 1 = j \/ i + 1 < j
    BY <2>1, <1>2, <1>4
  <2> QED BY <2>1, <2>2, <2>3 DEF Before
<1> QED BY <1>6, <1>7 DEF s, n

-----------------------------------------------------------------------------
(* Firing.  A loop that ends leaves the alarm inactive or not due.         *)
LEMMA FiredAlarm ==
  ASSUME NEW al \in Alarm, NEW new \in Values, ~Loops(al, new)
  PROVE  LET f == AlarmTriggerFired(al, new)
         IN  /\ f \in Alarm
             /\ f.owner = al.owner /\ f.counter = al.counter /\ f.test = al.test /\ f.check = al.check
             /\ f.state = "none" <=> al.state = "none"
             /\ f.state = "active" => f.counter # None /\ ~Check(f, new, new)
<1>1. CASE al.state # "active"
  BY <1>1 DEF AlarmTriggerFired
<1>2. CASE al.state = "active" /\ ~Advances(al)
  BY <1>2 DEF AlarmTriggerFired, Alarm
<1>3. CASE Advances(al)
  <2> DEFINE n == CHOOSE m \in Ends(al, new) : \A l \in Ends(al, new) : m <= l
  <2>1. Ends(al, new) # {} /\ Ends(al, new) \subseteq Nat
    <3>1. Word * Word \in Nat
      BY SyncValueAssumption, SMTT(30)
    <3>2. 1 .. Word * Word \subseteq Nat
      BY <3>1
    <3> QED BY <1>3, <3>2 DEF Loops, Ends
  <2>2. n \in Ends(al, new)
    BY <2>1, LeastOf
  <2>3. AlarmTriggerFired(al, new) = IF After(al, n) \in Values THEN [al EXCEPT !.value = After(al, n)]
                                     ELSE [al EXCEPT !.state = "inactive"]
    BY <1>3 DEF AlarmTriggerFired, Advanced, Advances
  <2>4. After(al, n) \notin Values \/ ~Check([al EXCEPT !.value = After(al, n)], new, new)
    BY <2>2 DEF Ends
  <2> HIDE DEF n
  <2>5. CASE After(al, n) \in Values
    <3> DEFINE f == [al EXCEPT !.value = After(al, n)]
    <3>1. f \in Alarm /\ f.state = "active" /\ f.counter # None /\ ~Check(f, new, new)
      BY <1>3, <2>4, <2>5 DEF Alarm, Advances
    <3>2. f.owner = al.owner /\ f.counter = al.counter /\ f.test = al.test /\ f.check = al.check
      BY DEF Alarm
    <3>3. AlarmTriggerFired(al, new) = f
      BY <2>3, <2>5
    <3> HIDE DEF f
    <3> QED BY <1>3, <3>1, <3>2, <3>3 DEF Advances
  <2>6. CASE After(al, n) \notin Values
    BY <1>3, <2>3, <2>6 DEF Advances, Alarm
  <2> QED BY <2>5, <2>6
<1> QED BY <1>1, <1>2, <1>3 DEF Advances

(* The loop ends if the test type is the one that the check was chosen     *)
(* for: a transition is false at once, and another delta is not zero.      *)
LEMMA LoopEnds ==
  ASSUME NEW al \in Alarm, NEW new \in Values, al.check = al.test
  PROVE  ~Loops(al, new)
<1> SUFFICES ASSUME Advances(al) PROVE Ends(al, new) # {}
  BY DEF Loops
<1>1. al.value \in Values /\ al.delta \in Values /\ new \in Int /\ al.value \in Int /\ al.delta \in Int
  BY ValuesAre DEF Alarm
<1>2. CASE al.delta # 0
  <2>1. al.value + (Word * Word) * al.delta \notin Values /\ Word * Word \in Nat \ {0}
    BY <1>1, <1>2, LeavesRange
  <2>2. Word * Word \in 1 .. Word * Word /\ After(al, Word * Word) \notin Values
    BY <2>1 DEF After
  <2> QED BY <2>2 DEF Ends
<1>3. CASE al.test \notin Comparisons
  <2> DEFINE f == [al EXCEPT !.value = After(al, 1)]
  <2>1. After(al, 1) \in Int
    BY <1>1 DEF After
  <2>2. f.check \in {"PositiveTransition", "NegativeTransition"} /\ f.value \in Int
    BY <1>3, <2>1 DEF Alarm, TestTypes, Comparisons
  <2> HIDE DEF f
  <2>3. ~Check(f, new, new)
    BY <1>1, <2>2 DEF Check
  <2>4. 1 \in 1 .. Word * Word
    <3>1. Word * Word \in Nat \ {0}
      BY SyncValueAssumption, SMTT(30)
    <3> QED BY <3>1
  <2> QED BY <2>3, <2>4 DEF Ends, f
<1> QED BY <1>2, <1>3 DEF Advances

-----------------------------------------------------------------------------
(* The inductive invariant.                                                *)

\* A trigger of which the completeness of the lists speaks: not one that its
\* list has lost, and not an alarm, when the move of one may overflow.
Counts(t) == t \notin lost /\ (t \in Alarms => ~Does("overflow"))

\* A trigger on the list of k.
Belongs(t, k) ==
  /\ Exists(k) /\ t \notin lost
  /\ Live(t) => Trigger(t).counter = k
  /\ Live(t) \/ (Does("same") /\ counter[k].beingDestroyed)

\* A trigger that is allocated, and its counter.
Refers(t) ==
  /\ Counts(t) /\ Trigger(t).counter # None =>
       Trigger(t).counter \in Counters /\ t \in ToSet(list[Trigger(t).counter])
  /\ Trigger(t).counter \in Counters => Exists(Trigger(t).counter)

ListsInv ==
  /\ AllOnce(list)
  /\ \A k \in Counters : \A t \in ToSet(list[k]) : Belongs(t, k)
  /\ \A t \in Triggers : Live(t) => Refers(t)
  /\ \A t \in lost : Live(t) /\ Trigger(t).counter # None
  /\ \A a \in Alarms : alarm[a].state = "none" => alarm[a].counter = None

WalkInv ==
  /\ \A k \in Counters : counter[k].beingDestroyed => walk.counter = k /\ walk.node = None
  /\ walk.counter = None => walk = Idle \/ Does("mismatch")
  /\ walk.counter # None /\ walk.node # None /\ ~Does("same") => walk.node \in ToSet(list[walk.counter])
  /\ walk.counter # None /\ dying # None =>
       counter[walk.counter].beingDestroyed /\ counter[walk.counter].owner = dying

ClientsInv ==
  /\ \A c \in Clients : Blocked(c) => open[c] \/ dying = c
  /\ ~Does("own") => \A c \in Clients : \A i \in DOMAIN await[c] :
                       await[c][i].counter # Freed => counter[await[c][i].counter].owner # c
  /\ ~Does("same") => \A c \in Clients : \A i, j \in DOMAIN await[c] :
                        await[c][i].counter # Freed /\ await[c][i].counter = await[c][j].counter => i = j

MatchInv == ~Does("mismatch") => \A a \in Alarms : alarm[a].check = alarm[a].test

\* What the walk of a list has still to come to.
Ahead(t) ==
  /\ walk.counter # None /\ walk.node # None
  /\ t \in ToSet(list[walk.counter])
  /\ t = walk.node \/ Before(list[walk.counter], walk.node, t)

\* A walk at a trigger that is gone, or the loop of an alarm: no more steps.
Stuck ==
  /\ walk.node # None
  /\ walk.counter # None => walk.node \notin ToSet(list[walk.counter])

ValueOf(k) == counter[k].value
IsDue(t) ==
  /\ Live(t) /\ Counts(t)
  /\ t \in Alarms => Trigger(t).state = "active"
  /\ Trigger(t).check \in Comparisons
  /\ Trigger(t).counter # None => Check(Trigger(t), ValueOf(Trigger(t).counter), ValueOf(Trigger(t).counter))

\* What is true already is ahead of the walk, and so is a transition that
\* the change has made.
DueInv == Stuck \/ \A t \in Triggers : IsDue(t) => Ahead(t)
IsMade(t) == t \notin Alarms /\ Live(t) /\ Check(Trigger(t), walk.old, ValueOf(walk.counter))
SeenInv ==
  Stuck \/ (walk.counter # None /\ ~counter[walk.counter].beingDestroyed =>
              \A t \in ToSet(list[walk.counter]) : IsMade(t) => Ahead(t))

IInv == TypeOK /\ ListsInv /\ WalkInv /\ ClientsInv /\ MatchInv /\ DueInv /\ SeenInv

(* Facts about types that the steps need.                                  *)
LEMMA Typed ==
  ASSUME TypeOK
  PROVE  /\ list \in Lists
         /\ \A k \in Counters : list[k] \in Seq(Triggers) /\ ToSet(list[k]) \subseteq Triggers
         /\ \A c \in Clients : await[c] \in {<<>>} \cup [1 .. 1 -> Condition] \cup [1 .. 2 -> Condition]
         /\ \A c \in Clients : DOMAIN await[c] \subseteq {1, 2}
         /\ \A c \in Clients : \A i \in DOMAIN await[c] : await[c][i] \in Condition
         /\ \A a \in Alarms : alarm[a] \in Alarm
         /\ \A k \in Counters : counter[k].value \in Values
         /\ None \notin Counters /\ None \notin Triggers /\ None \notin Clients
         /\ Freed \notin Counters /\ Freed # None /\ lost \subseteq Triggers
         /\ \A t \in Triggers : t \in Alarms \/ (t \in Conditions /\ t \notin Alarms)
<1>1. list \in Lists
  BY DEF TypeOK, Lists
<1>2. \A k \in Counters : list[k] \in Seq(Triggers) /\ ToSet(list[k]) \subseteq Triggers
  <2> TAKE k \in Counters
  <2>1. list[k] \in Seq(Triggers)
    BY DEF TypeOK
  <2>2. \A i \in DOMAIN list[k] : list[k][i] \in Triggers
    BY <2>1
  <2> QED BY <2>1, <2>2 DEF ToSet
<1>3. \A c \in Clients : await[c] \in {<<>>} \cup [1 .. 1 -> Condition] \cup [1 .. 2 -> Condition]
  BY DEF TypeOK
<1>4. ASSUME NEW c \in Clients
      PROVE  DOMAIN await[c] \subseteq {1, 2} /\ \A i \in DOMAIN await[c] : await[c][i] \in Condition
  <2>1. CASE await[c] = <<>>
    BY <2>1
  <2>2. CASE await[c] \in [1 .. 1 -> Condition]
    BY <2>2
  <2>3. CASE await[c] \in [1 .. 2 -> Condition]
    BY <2>3
  <2> QED BY <1>3, <2>1, <2>2, <2>3
<1>5. \A a \in Alarms : alarm[a] \in Alarm
  BY DEF TypeOK
<1>6. \A k \in Counters : counter[k].value \in Values
  BY DEF TypeOK
<1>7. lost \subseteq Triggers
  BY DEF TypeOK
<1> QED BY <1>1, <1>2, <1>3, <1>4, <1>5, <1>6, <1>7, SyncCountersAssumption DEF Triggers

(* A condition is a client and a number.                                   *)
LEMMA ConditionIs ==
  ASSUME NEW t \in Conditions
  PROVE  /\ t[1] \in Clients /\ t[2] \in {1, 2} /\ t = <<t[1], t[2]>>
         /\ t \notin Alarms
         /\ Live(t) <=> t[2] \in DOMAIN await[t[1]]
         /\ Trigger(t) = await[t[1]][t[2]]
<1>1. t[1] \in Clients /\ t[2] \in {1, 2} /\ t = <<t[1], t[2]>>
  BY DEF Conditions
<1>2. t \notin Alarms
  BY SyncCountersAssumption
<1> QED BY <1>1, <1>2 DEF Live, Trigger

LEMMA TriggerTyped ==
  ASSUME TypeOK, NEW t \in Triggers, Live(t)
  PROVE  /\ Trigger(t).counter \in Counters \cup {None, Freed} /\ Trigger(t).check \in TestTypes
         /\ Trigger(t).value \in Values
         /\ t \in Conditions => Trigger(t).counter \in Counters \cup {Freed}
<1>1. CASE t \in Alarms
  <2>1. Trigger(t) \in Alarm
    BY <1>1, Typed DEF Trigger
  <2>2. t \notin Conditions
    BY <1>1, SyncCountersAssumption
  <2> QED BY <2>1, <2>2 DEF Alarm
<1>2. CASE t \in Conditions
  <2>1. Trigger(t) \in Condition
    BY <1>2, Typed, ConditionIs
  <2> QED BY <2>1 DEF Condition
<1> QED BY <1>1, <1>2 DEF Triggers

(* What the lists are to have they have.                                   *)
LEMMA CountedIs ==
  ASSUME IInv, NEW t \in Triggers, Live(t)
  PROVE  /\ Counts(t) => /\ Trigger(t).counter \in Counters \cup {None}
                         /\ Trigger(t).counter # None => t \in ToSet(list[Trigger(t).counter])
         /\ Trigger(t).counter \in Counters => Exists(Trigger(t).counter)
         /\ \A k \in Counters : t \in ToSet(list[k]) => Trigger(t).counter = k
BY DEF IInv, ListsInv, Refers, Belongs

LEMMA NoAlarmTyped == NoAlarm \in Alarm
BY ValuesAre DEF NoAlarm, Alarm, TestTypes

LEMMA IdleTyped == Idle \in [counter : Counters \cup {None}, node : Triggers \cup {None}, old : Values]
BY ValuesAre DEF Idle

LEMMA SyncInitIInv == Init => IInv
<1> SUFFICES ASSUME Init PROVE IInv
  OBVIOUS
<1>1. /\ alarm = [a \in Alarms |-> NoAlarm] /\ list = [k \in Counters |-> <<>>] /\ walk = Idle
      /\ await = [c \in Clients |-> <<>>] /\ counter = [k \in Counters |-> NoCounter]
      /\ open = [c \in Clients |-> TRUE] /\ dying = None /\ scenario \in Scenarios /\ lost = {}
  BY DEF Init
<1>2. TypeOK
  <2>1. alarm \in [Alarms -> Alarm]
    BY <1>1, NoAlarmTyped
  <2>2. list \in [Counters -> Seq(Triggers)]
    BY <1>1
  <2>3. counter \in [Counters -> [owner : Clients \cup {None}, value : Values, beingDestroyed : BOOLEAN]]
    BY <1>1, ValuesAre DEF NoCounter
  <2>4. walk \in [counter : Counters \cup {None}, node : Triggers \cup {None}, old : Values]
    BY <1>1, IdleTyped
  <2> QED BY <1>1, <2>1, <2>2, <2>3, <2>4 DEF TypeOK
<1>3. \A k \in Counters : ToSet(list[k]) = {} /\ Once(list[k])
  BY <1>1 DEF ToSet, Once
<1>4. \A t \in Triggers : ~Live(t)
  <2> TAKE t \in Triggers
  <2>1. CASE t \in Alarms
    BY <1>1, <2>1 DEF Live, NoAlarm
  <2>2. CASE t \in Conditions
    BY <1>1, <2>2, ConditionIs
  <2> QED BY <2>1, <2>2 DEF Triggers
<1>5. ListsInv
  <2>1. \A a \in Alarms : alarm[a].counter = None
    BY <1>1 DEF NoAlarm
  <2> QED BY <1>1, <1>3, <1>4, <2>1 DEF ListsInv, AllOnce
<1>6. WalkInv
  BY <1>1 DEF WalkInv, Idle, NoCounter
<1>7. ClientsInv
  BY <1>1 DEF ClientsInv, Blocked
<1>8. MatchInv
  BY <1>1 DEF MatchInv, NoAlarm
<1>9. DueInv
  BY <1>4 DEF DueInv, IsDue
<1>10. SeenInv
  BY <1>1 DEF SeenInv, Idle
<1> QED BY <1>2, <1>5, <1>6, <1>7, <1>8, <1>9, <1>10 DEF IInv

(* Without a walk nothing is destroyed, and nothing is true already.       *)
LEMMA IdleIs ==
  ASSUME IInv, walk = Idle
  PROVE  /\ \A k \in Counters : ~counter[k].beingDestroyed
         /\ \A t \in Triggers : ~IsDue(t)
         /\ \A k \in Counters : \A t \in ToSet(list[k]) : Live(t) /\ Trigger(t).counter = k /\ Exists(k)
<1>1. walk.counter = None /\ walk.node = None
  BY DEF Idle
<1>2. \A k \in Counters : ~counter[k].beingDestroyed
  BY <1>1, SyncCountersAssumption DEF IInv, WalkInv
<1>3. \A t \in Triggers : ~IsDue(t)
  BY <1>1 DEF IInv, DueInv, Stuck, Ahead
<1> QED BY <1>2, <1>3 DEF IInv, ListsInv, Belongs

-----------------------------------------------------------------------------
(* Steps that leave the triggers alone.                                    *)

Triggers0 == <<await, alarm, list, lost, scenario>>

LEMMA TriggersStay ==
  ASSUME UNCHANGED Triggers0
  PROVE  \A t \in Triggers : (Live(t)' <=> Live(t)) /\ Trigger(t)' = Trigger(t) /\ (Counts(t)' <=> Counts(t))
BY DEF Triggers0, Live, Trigger, Counts, Does

(* Clients come and go.                                                    *)
LEMMA ClientStep ==
  ASSUME IInv, walk = Idle, UNCHANGED <<counter, walk>>, UNCHANGED Triggers0,
         open' \in [Clients -> BOOLEAN], dying' \in Clients \cup {None},
         \A c \in Clients : Blocked(c) => open'[c] \/ dying' = c
  PROVE  IInv'
<1>1. TypeOK'
  BY DEF IInv, TypeOK, Triggers0
<1>2. ListsInv'
  BY DEF IInv, ListsInv, Belongs, Refers, Triggers0, AllOnce, Exists, Live, Trigger, Counts, Does
<1>3. WalkInv'
  <2>1. walk.counter = None
    BY DEF Idle
  <2> QED BY <2>1 DEF IInv, WalkInv, Triggers0, Does
<1>4. ClientsInv'
  BY DEF IInv, ClientsInv, Blocked, Triggers0, Does
<1>5. MatchInv' /\ SeenInv'
  BY DEF IInv, MatchInv, SeenInv, Idle, Triggers0, Does
<1>6. DueInv'
  BY TriggersStay, IdleIs DEF DueInv, IsDue, ValueOf, Triggers0
<1> QED BY <1>1, <1>2, <1>3, <1>4, <1>5, <1>6 DEF IInv

LEMMA ChangedIInv == IInv /\ Changed /\ scenario' = scenario => IInv'
<1> SUFFICES ASSUME IInv, Changed, scenario' = scenario PROVE IInv'
  OBVIOUS
<1> DEFINE k == walk.counter
<1>1. /\ k # None /\ k \in Counters /\ ~counter[k].beingDestroyed /\ walk.node = None /\ walk' = Idle
      /\ UNCHANGED <<open, dying, counter>> /\ UNCHANGED Triggers0
  BY DEF IInv, TypeOK, Changed, Triggers0
<1>2. walk'.counter = None /\ walk'.node = None
  BY <1>1 DEF Idle
<1>3. TypeOK'
  BY <1>1, IdleTyped DEF IInv, TypeOK, Triggers0
<1>4. ListsInv'
  BY <1>1 DEF IInv, ListsInv, Belongs, Refers, Triggers0, AllOnce, Exists, Live, Trigger, Counts, Does
<1>5. WalkInv'
  BY <1>1, <1>2 DEF IInv, WalkInv, Triggers0, Does
<1>6. ClientsInv'
  BY <1>1 DEF IInv, ClientsInv, Blocked, Triggers0, Does
<1>7. \A t \in Triggers : ~IsDue(t)
  BY <1>1 DEF IInv, DueInv, Stuck, Ahead
<1>8. DueInv'
  BY <1>1, <1>7 DEF DueInv, IsDue, Live, Trigger, Counts, Does, ValueOf, Triggers0
<1>9. SeenInv' /\ MatchInv'
  BY <1>1, <1>2 DEF SeenInv, IInv, MatchInv, Triggers0, Does
<1> QED BY <1>3, <1>4, <1>5, <1>6, <1>8, <1>9 DEF IInv

(* The first trigger of a list is before all others.                       *)
LEMMA FirstIs ==
  ASSUME NEW s \in Seq(Triggers)
  PROVE  /\ s # <<>> => First(s) \in ToSet(s) /\ First(s) = Head(s)
         /\ \A t \in ToSet(s) : First(s) # None /\ (t = First(s) \/ Before(s, First(s), t))
<1>1. ASSUME s # <<>> PROVE 1 \in DOMAIN s /\ First(s) = s[1] /\ First(s) = Head(s) /\ s[1] \in Triggers
  BY <1>1 DEF First
<1>2. ASSUME NEW t \in ToSet(s) PROVE First(s) # None /\ (t = First(s) \/ Before(s, First(s), t))
  <2>1. PICK i \in DOMAIN s : s[i] = t
    BY <1>2 DEF ToSet
  <2>2. s # <<>> /\ (i = 1 \/ 1 < i)
    BY <2>1
  <2> QED BY <1>1, <2>1, <2>2, SyncCountersAssumption DEF Before
<1> QED BY <1>1, <1>2 DEF ToSet

(* The triggers that still refer to a counter, when it is freed.           *)
Dangle(k) ==
  /\ alarm' = [a \in Alarms |-> Dangling(alarm[a], k)]
  /\ await' = [c \in Clients |-> [i \in DOMAIN await[c] |-> Dangling(await[c][i], k)]]

LEMMA DanglingIs ==
  ASSUME TypeOK, NEW k \in Counters, Dangle(k)
  PROVE  /\ alarm' \in [Alarms -> Alarm]
         /\ await' \in [Clients -> {<<>>} \cup [1 .. 1 -> Condition] \cup [1 .. 2 -> Condition]]
         /\ \A t \in Triggers : (Live(t)' <=> Live(t)) /\ (Live(t) => Trigger(t)' = Dangling(Trigger(t), k))
         /\ \A a \in Alarms : alarm'[a] = Dangling(alarm[a], k)
         /\ \A c \in Clients : /\ DOMAIN await'[c] = DOMAIN await[c] /\ (Blocked(c)' => Blocked(c))
                               /\ \A i \in DOMAIN await[c] : await'[c][i] = Dangling(await[c][i], k)
<1>1. \A al \in Alarm : Dangling(al, k) \in Alarm /\ Dangling(al, k).state = al.state
  BY DEF Dangling, Alarm
<1>2. \A one \in Condition : Dangling(one, k) \in Condition
  BY DEF Dangling, Condition
<1>3. alarm' \in [Alarms -> Alarm] /\ \A a \in Alarms : alarm'[a] = Dangling(alarm[a], k)
  BY <1>1, Typed DEF Dangle
<1>4. ASSUME NEW c \in Clients
      PROVE  /\ await'[c] \in {<<>>} \cup [1 .. 1 -> Condition] \cup [1 .. 2 -> Condition]
             /\ DOMAIN await'[c] = DOMAIN await[c] /\ (Blocked(c)' => Blocked(c))
             /\ \A i \in DOMAIN await[c] : await'[c][i] = Dangling(await[c][i], k)
  <2>1. await'[c] = [i \in DOMAIN await[c] |-> Dangling(await[c][i], k)]
    BY DEF Dangle
  <2>2. \A i \in DOMAIN await[c] : Dangling(await[c][i], k) \in Condition
    BY <1>2, Typed
  <2>3. CASE await[c] = <<>>
    BY <2>1, <2>3 DEF Blocked
  <2>4. CASE await[c] # <<>>
    <3>1. await'[c] \in [1 .. 1 -> Condition] \cup [1 .. 2 -> Condition]
      BY <2>1, <2>2, <2>4, Typed
    <3> QED BY <2>1, <2>4, <3>1 DEF Blocked
  <2> QED BY <2>3, <2>4
<1>5. await' \in [Clients -> {<<>>} \cup [1 .. 1 -> Condition] \cup [1 .. 2 -> Condition]]
  BY <1>4 DEF Dangle
<1>6. ASSUME NEW t \in Triggers
      PROVE  (Live(t)' <=> Live(t)) /\ (Live(t) => Trigger(t)' = Dangling(Trigger(t), k))
  <2>1. CASE t \in Alarms
    BY <1>1, <1>3, <2>1, Typed DEF Live, Trigger
  <2>2. CASE t \in Conditions
    <3>1. t[1] \in Clients /\ t \notin Alarms
      BY <2>2, ConditionIs
    <3> QED BY <1>4, <3>1 DEF Live, Trigger
  <2> QED BY <2>1, <2>2 DEF Triggers
<1> QED BY <1>3, <1>4, <1>5, <1>6

(* The end of a counter, or its creation.                                  *)
LEMMA OtherCounter ==
  ASSUME IInv, NEW k \in Counters, list[k] = <<>>, NEW r, counter' = [counter EXCEPT ![k] = r],
         r \in [owner : Clients \cup {None}, value : Values, beingDestroyed : BOOLEAN],
         walk' = Idle, ~r.beingDestroyed, \A t \in Triggers : ~IsDue(t),
         \A j \in Counters \ {k} : ~counter[j].beingDestroyed,
         UNCHANGED <<open, dying, list, lost, scenario>>, Dangle(k)
  PROVE  IInv'
<1>1. walk'.counter = None /\ walk'.node = None
  BY DEF Idle
<1>2. /\ TypeOK /\ ListsInv /\ ClientsInv
      /\ alarm' \in [Alarms -> Alarm]
      /\ await' \in [Clients -> {<<>>} \cup [1 .. 1 -> Condition] \cup [1 .. 2 -> Condition]]
      /\ \A t \in Triggers : (Live(t)' <=> Live(t)) /\ (Live(t) => Trigger(t)' = Dangling(Trigger(t), k))
      /\ \A a \in Alarms : alarm'[a] = Dangling(alarm[a], k)
      /\ \A c \in Clients : /\ DOMAIN await'[c] = DOMAIN await[c] /\ (Blocked(c)' => Blocked(c))
                            /\ \A i \in DOMAIN await[c] : await'[c][i] = Dangling(await[c][i], k)
  <2>1. TypeOK /\ ListsInv /\ ClientsInv
    BY DEF IInv
  <2> QED BY <2>1, DanglingIs
<1>3. TypeOK'
  BY <1>2, IdleTyped DEF TypeOK
<1>4. /\ \A j \in Counters : j # k => counter'[j] = counter[j]
      /\ counter'[k] = r
  BY <1>2 DEF TypeOK
<1>5. ToSet(list[k]) = {}
  BY DEF ToSet
<1>6. ASSUME NEW t \in Triggers, Live(t)
      PROVE  /\ Trigger(t)'.counter = IF Trigger(t).counter = k THEN Freed ELSE Trigger(t).counter
             /\ Trigger(t).counter # k => Trigger(t)' = Trigger(t)
             /\ Trigger(t).counter \in Counters \cup {None, Freed}
             /\ Counts(t)' => Counts(t)
             /\ Counts(t) => Trigger(t).counter # k
  <2> DEFINE trig == Trigger(t)
  <2>1. Trigger(t)' = Dangling(trig, k)
    BY <1>2, <1>6
  <2>2. trig \in Alarm \/ trig \in Condition
    BY <1>2, <1>6, Typed, ConditionIs DEF Trigger, Triggers
  <2> HIDE DEF trig
  <2>3. trig.counter \in Counters \cup {None, Freed}
    BY <2>2 DEF Alarm, Condition
  <2>4. /\ Dangling(trig, k).counter = IF trig.counter = k THEN Freed ELSE trig.counter
        /\ trig.counter # k => Dangling(trig, k) = trig
    BY <2>2 DEF Dangling, Alarm, Condition
  <2>5. Counts(t)' => Counts(t)
    BY DEF Counts, Does
  <2>6. Counts(t) => trig.counter # k
    BY <1>5, <1>6, SyncCountersAssumption, CountedIs DEF trig
  <2>7. /\ Trigger(t)'.counter = IF trig.counter = k THEN Freed ELSE trig.counter
        /\ trig.counter # k => Trigger(t)' = trig
    BY <2>1, <2>4
  <2> QED BY <2>3, <2>5, <2>6, <2>7 DEF trig
<1>7. Freed \notin Counters /\ Freed # None /\ k # None
  BY SyncCountersAssumption
<1>8. ListsInv'
  <2>1. AllOnce(list)' /\ \A a \in Alarms : alarm'[a].state = "none" => alarm'[a].counter = None
    <3>1. \A a \in Alarms : alarm[a].state = "none" => alarm[a].counter = None
      BY <1>2 DEF ListsInv
    <3>2. \A a \in Alarms : alarm'[a].state = "none" => alarm'[a] = alarm[a]
      BY <1>2, <1>7, <3>1, Typed DEF Dangling, Alarm
    <3> QED BY <1>2, <3>1, <3>2 DEF ListsInv, AllOnce
  <2>2. ASSUME NEW j \in Counters, NEW t \in ToSet(list[j]) PROVE Belongs(t, j)'
    <3>1. j # k /\ t \in Triggers
      BY <1>2, <1>5, <2>2, Typed
    <3>2. Belongs(t, j) /\ Live(t)
      BY <1>2, <2>2, <3>1 DEF ListsInv, Belongs
    <3>3. Trigger(t).counter = j /\ Trigger(t)' = Trigger(t)
      BY <1>6, <3>1, <3>2 DEF Belongs
    <3> QED BY <1>2, <1>4, <3>1, <3>2, <3>3 DEF Belongs, Exists, Does
  <2>3. ASSUME NEW t \in Triggers, Live(t)' PROVE Refers(t)'
    <3>1. Live(t) /\ Refers(t)
      BY <1>2, <2>3 DEF ListsInv
    <3>2. Counts(t)' => Trigger(t)' = Trigger(t)
      BY <1>6, <3>1
    <3>3. Trigger(t)'.counter \in Counters => Trigger(t)'.counter = Trigger(t).counter /\ Trigger(t).counter # k
      BY <1>6, <1>7, <3>1
    <3> QED BY <1>4, <1>6, <3>1, <3>2, <3>3 DEF Refers, Exists
  <2>4. ASSUME NEW t \in lost' PROVE Live(t)' /\ Trigger(t)'.counter # None
    <3>1. t \in Triggers /\ Live(t) /\ Trigger(t).counter # None
      BY <1>2, Typed DEF ListsInv
    <3> QED BY <1>2, <1>6, <1>7, <3>1
  <2> QED BY <2>1, <2>2, <2>3, <2>4 DEF ListsInv
<1>9. WalkInv'
  BY <1>1, <1>4 DEF WalkInv
<1>10. ClientsInv'
  <2>1. ASSUME NEW c \in Clients, NEW i \in DOMAIN await[c]
        PROVE  /\ await[c][i].counter \in Counters \cup {Freed}
               /\ await'[c][i].counter = IF await[c][i].counter = k THEN Freed ELSE await[c][i].counter
    <3>1. await[c][i] \in Condition
      BY <1>2, Typed
    <3> QED BY <1>2, <3>1 DEF Dangling, Condition
  <2>2. ASSUME NEW c \in Clients, NEW i \in DOMAIN await'[c], await'[c][i].counter # Freed, ~Does("own")
        PROVE  counter'[await'[c][i].counter].owner # c
    <3>1. i \in DOMAIN await[c] /\ await'[c][i].counter = await[c][i].counter
          /\ await[c][i].counter \in Counters /\ await[c][i].counter # k
      BY <1>2, <2>1, <2>2
    <3> QED BY <1>2, <1>4, <2>2, <3>1 DEF ClientsInv
  <2>3. ASSUME NEW c \in Clients, NEW i \in DOMAIN await'[c], NEW j \in DOMAIN await'[c], ~Does("same"),
               await'[c][i].counter # Freed, await'[c][i].counter = await'[c][j].counter
        PROVE  i = j
    <3>1. i \in DOMAIN await[c] /\ j \in DOMAIN await[c]
          /\ await[c][i].counter # Freed /\ await[c][i].counter = await[c][j].counter
      BY <1>2, <2>1, <2>3
    <3> QED BY <1>2, <2>3, <3>1 DEF ClientsInv
  <2>4. \A c \in Clients : Blocked(c)' => open'[c] \/ dying' = c
    BY <1>2 DEF ClientsInv
  <2> QED BY <2>2, <2>3, <2>4 DEF ClientsInv, Does
<1>11. DueInv'
  <2>1. ASSUME NEW t \in Triggers, IsDue(t)' PROVE FALSE
    <3>1. Live(t) /\ Counts(t)
      BY <1>2, <1>6, <2>1 DEF IsDue
    <3>2. Trigger(t)' = Trigger(t) /\ Trigger(t).counter # k /\ Trigger(t).counter \in Counters \cup {None}
      BY <1>6, <3>1, CountedIs
    <3>3. Trigger(t).counter # None => counter'[Trigger(t).counter] = counter[Trigger(t).counter]
      BY <1>4, <3>2
    <3>4. IsDue(t)
      BY <2>1, <3>1, <3>2, <3>3 DEF IsDue, ValueOf
    <3> QED BY <3>4
  <2> QED BY <2>1 DEF DueInv
<1>12. SeenInv' /\ MatchInv'
  <2>1. \A a \in Alarms : alarm'[a].check = alarm[a].check /\ alarm'[a].test = alarm[a].test
    BY <1>2, Typed DEF Dangling, Alarm
  <2> QED BY <1>1, <2>1 DEF SeenInv, IInv, MatchInv, Does
<1> QED BY <1>3, <1>8, <1>9, <1>10, <1>11, <1>12 DEF IInv

LEMMA DestroyedIInv == IInv /\ Destroyed /\ scenario' = scenario => IInv'
<1> SUFFICES ASSUME IInv, Destroyed, scenario' = scenario PROVE IInv'
  OBVIOUS
<1> DEFINE k == walk.counter
<1>1. /\ k \in Counters /\ counter[k].beingDestroyed /\ list[k] = <<>>
      /\ counter' = [counter EXCEPT ![k] = NoCounter] /\ walk' = Idle
      /\ UNCHANGED <<open, dying, list, lost, scenario>> /\ Dangle(k)
  BY DEF IInv, TypeOK, Destroyed, Dangle
<1>2. walk.node = None /\ \A j \in Counters \ {k} : ~counter[j].beingDestroyed
  BY <1>1 DEF IInv, WalkInv
<1>3. \A t \in Triggers : ~IsDue(t)
  BY <1>2 DEF IInv, DueInv, Stuck, Ahead
<1>4. /\ NoCounter \in [owner : Clients \cup {None}, value : Values, beingDestroyed : BOOLEAN]
      /\ ~NoCounter.beingDestroyed
  BY ValuesAre DEF NoCounter
<1> HIDE DEF k
<1> QED BY <1>1, <1>2, <1>3, <1>4, OtherCounter

LEMMA CreateCounterIInv ==
  ASSUME IInv, NEW c \in Clients, NEW k \in Counters, CreateCounter(c, k), scenario' = scenario
  PROVE  IInv'
<1>1. /\ walk = Idle /\ ~Exists(k) /\ UNCHANGED <<open, dying, walk>> /\ UNCHANGED Triggers0
  BY DEF CreateCounter, Runs, Triggers0
<1>2. PICK v \in WaitValues : counter' = [counter EXCEPT ![k] = [NoCounter EXCEPT !.owner = c, !.value = v]]
  BY Zenon DEF CreateCounter
<1> DEFINE r == [NoCounter EXCEPT !.owner = c, !.value = v]
<1>3. /\ r \in [owner : Clients \cup {None}, value : Values, beingDestroyed : BOOLEAN]
      /\ ~r.beingDestroyed
  BY SyncCountersAssumption DEF NoCounter
<1>4. list[k] = <<>>
  <2>1. ToSet(list[k]) = {}
    BY <1>1, IdleIs
  <2>2. list[k] \in Seq(Triggers)
    BY DEF IInv, TypeOK
  <2> QED BY <2>1, <2>2, FirstIs
<1> HIDE DEF r
<1>5. counter' = [counter EXCEPT ![k] = r]
  BY <1>2 DEF r
<1>6. Dangle(k) /\ UNCHANGED <<open, dying, list, lost, scenario>> /\ walk' = Idle
  <2>1. ASSUME NEW a \in Alarms PROVE Dangling(alarm[a], k) = alarm[a]
    <3>1. alarm[a].counter # k
      <4>1. CASE alarm[a].state = "none"
        BY <4>1, SyncCountersAssumption DEF IInv, ListsInv
      <4>2. CASE alarm[a].state # "none"
        <5>1. a \in Triggers /\ Live(a) /\ Trigger(a) = alarm[a]
          BY <4>2 DEF Live, Trigger, Triggers
        <5> QED BY <1>1, <5>1, CountedIs
      <4> QED BY <4>1, <4>2
    <3> QED BY <3>1 DEF Dangling
  <2>2. ASSUME NEW d \in Clients PROVE [i \in DOMAIN await[d] |-> Dangling(await[d][i], k)] = await[d]
    <3>1. \A i \in DOMAIN await[d] : Dangling(await[d][i], k) = await[d][i]
      <4> TAKE i \in DOMAIN await[d]
      <4>1. <<d, i>> \in Conditions
        BY Typed DEF IInv, Conditions
      <4>2. Live(<<d, i>>) /\ Trigger(<<d, i>>) = await[d][i]
        BY <4>1, ConditionIs
      <4>3. await[d][i].counter # k
        BY <1>1, <4>1, <4>2, CountedIs DEF Triggers
      <4> QED BY <4>3 DEF Dangling
    <3>2. await[d] \in {<<>>} \cup [1 .. 1 -> Condition] \cup [1 .. 2 -> Condition]
      BY DEF IInv, TypeOK
    <3>3. await[d] = [i \in DOMAIN await[d] |-> await[d][i]]
      BY <3>2
    <3> QED BY <3>1, <3>3
  <2>3. alarm' = [a \in Alarms |-> Dangling(alarm[a], k)]
    BY <1>1, <2>1 DEF IInv, TypeOK, Triggers0
  <2>4. await' = [d \in Clients |-> [i \in DOMAIN await[d] |-> Dangling(await[d][i], k)]]
    BY <1>1, <2>2 DEF IInv, TypeOK, Triggers0
  <2> QED BY <1>1, <2>3, <2>4 DEF Dangle, Triggers0
<1> QED BY <1>1, <1>3, <1>4, <1>5, <1>6, IdleIs, OtherCounter

(* Counters keep their owners, and the triggers stay where they are.       *)
LEMMA OwnersStay ==
  ASSUME IInv, UNCHANGED Triggers0, UNCHANGED <<open, dying>>,
         \A j \in Counters : /\ counter'[j].owner = counter[j].owner
                             /\ counter[j].beingDestroyed => counter'[j].beingDestroyed
  PROVE  ListsInv' /\ ClientsInv'
<1>1. TypeOK /\ ListsInv /\ ClientsInv
  BY DEF IInv
<1>2. UNCHANGED <<list, lost, alarm, await, scenario>>
  BY DEF Triggers0
<1>3. ListsInv'
  <2>1. AllOnce(list)' /\ \A a \in Alarms : alarm'[a].state = "none" => alarm'[a].counter = None
    BY <1>1, <1>2 DEF ListsInv, AllOnce
  <2>2. ASSUME NEW j \in Counters, NEW t \in ToSet(list[j]) PROVE Belongs(t, j)'
    <3>1. t \in Triggers /\ Belongs(t, j)
      BY <1>1, <2>2, Typed DEF ListsInv
    <3>2. (Live(t)' <=> Live(t)) /\ Trigger(t)' = Trigger(t)
      BY <3>1, TriggersStay
    <3>3. counter'[j].owner = counter[j].owner /\ (counter[j].beingDestroyed => counter'[j].beingDestroyed)
      OBVIOUS
    <3> QED BY <1>2, <3>1, <3>2, <3>3 DEF Belongs, Exists, Does
  <2>3. ASSUME NEW t \in Triggers, Live(t)' PROVE Refers(t)'
    <3>1. Trigger(t)' = Trigger(t) /\ (Counts(t)' <=> Counts(t)) /\ Live(t)
      BY <2>3, TriggersStay
    <3>2. Refers(t)
      BY <1>1, <3>1 DEF ListsInv
    <3>3. \A j \in Counters : counter'[j].owner = counter[j].owner
      OBVIOUS
    <3> QED BY <1>2, <3>1, <3>2, <3>3 DEF Refers, Exists
  <2>4. ASSUME NEW t \in lost' PROVE Live(t)' /\ Trigger(t)'.counter # None
    <3>1. t \in Triggers /\ Live(t) /\ Trigger(t).counter # None
      BY <1>1, <1>2, Typed DEF ListsInv
    <3> QED BY <3>1, TriggersStay
  <2> QED BY <1>2, <2>1, <2>2, <2>3, <2>4 DEF ListsInv
<1>4. ClientsInv'
  <2>1. \A c \in Clients : \A i \in DOMAIN await[c] : await[c][i].counter \in Counters \cup {Freed}
    <3>1. \A c \in Clients : \A i \in DOMAIN await[c] : await[c][i] \in Condition
      BY <1>1, Typed
    <3> QED BY <3>1 DEF Condition
  <2>2. ASSUME ~Does("own"), NEW c \in Clients, NEW i \in DOMAIN await[c], await[c][i].counter # Freed
        PROVE  counter'[await[c][i].counter].owner # c
    <3>1. await[c][i].counter \in Counters
      BY <2>1, <2>2
    <3>2. counter[await[c][i].counter].owner # c
      BY <1>1, <2>2 DEF ClientsInv
    <3>3. counter'[await[c][i].counter].owner = counter[await[c][i].counter].owner
      BY <3>1
    <3> QED BY <3>2, <3>3
  <2>3. /\ \A c \in Clients : Blocked(c) => open[c] \/ dying = c
        /\ ~Does("same") => \A c \in Clients : \A i, j \in DOMAIN await[c] :
                              await[c][i].counter # Freed /\ await[c][i].counter = await[c][j].counter => i = j
    BY <1>1 DEF ClientsInv
  <2> QED BY <1>2, <2>2, <2>3 DEF ClientsInv, Blocked, Does
<1> QED BY <1>3, <1>4

(* A counter is about to be destroyed.                                     *)
LEMMA DestroyIInv ==
  ASSUME IInv, NEW k \in Counters, walk = Idle, Exists(k), Destroy(k), UNCHANGED <<open, dying>>, UNCHANGED Triggers0,
         dying # None => counter[k].owner = dying
  PROVE  IInv'
<1>1. /\ walk' = [Idle EXCEPT !.counter = k] /\ walk'.counter = k /\ walk'.node = None
      /\ counter' = [counter EXCEPT ![k].beingDestroyed = TRUE]
  BY DEF Destroy, Idle
<1>2. /\ \A j \in Counters : counter'[j].owner = counter[j].owner /\ counter'[j].value = counter[j].value
      /\ \A j \in Counters : counter'[j].beingDestroyed = IF j = k THEN TRUE ELSE counter[j].beingDestroyed
  BY <1>1 DEF IInv, TypeOK
<1>3. TypeOK'
  <2> DEFINE r == [counter[k] EXCEPT !.beingDestroyed = TRUE]
             R == [owner : Clients \cup {None}, value : Values, beingDestroyed : BOOLEAN]
  <2>1. counter' \in [Counters -> R]
    <3>1. counter \in [Counters -> R]
      BY DEF IInv, TypeOK
    <3>2. \A x \in R : [x EXCEPT !.beingDestroyed = TRUE] \in R
      OBVIOUS
    <3>3. r \in R
      BY <3>1, <3>2, Zenon
    <3>4. counter' = [counter EXCEPT ![k] = r]
      BY <1>1
    <3> HIDE DEF r, R
    <3> QED BY <3>1, <3>3, <3>4
  <2>2. walk' \in [counter : Counters \cup {None}, node : Triggers \cup {None}, old : Values]
    BY <1>1, ValuesAre DEF Idle
  <2> QED BY <2>1, <2>2 DEF IInv, TypeOK, Triggers0
<1>4. ListsInv' /\ ClientsInv'
  BY <1>2, OwnersStay
<1>5. WalkInv'
  <2>1. k # None
    BY SyncCountersAssumption
  <2> QED BY <1>1, <1>2, <2>1, IdleIs DEF WalkInv
<1>6. DueInv'
  <2>1. ASSUME NEW t \in Triggers, IsDue(t)' PROVE FALSE
    <3>1. Live(t) /\ Counts(t)
      BY <2>1, TriggersStay DEF IsDue
    <3>2. Trigger(t).counter \in Counters \cup {None}
      BY <3>1, CountedIs
    <3>3. Trigger(t).counter # None => ValueOf(Trigger(t).counter)' = ValueOf(Trigger(t).counter)
      BY <3>2, <1>2, TriggersStay DEF ValueOf
    <3>4. IsDue(t)
      BY <2>1, <3>1, <3>3, TriggersStay DEF IsDue, Does, Triggers0
    <3> QED BY <3>4, IdleIs
  <2> QED BY <2>1 DEF DueInv
<1>7. SeenInv' /\ MatchInv'
  BY <1>1, <1>2 DEF SeenInv, IInv, MatchInv, Triggers0, Does
<1> QED BY <1>3, <1>4, <1>5, <1>6, <1>7 DEF IInv

(* A walk begins: everything on the list is ahead.                         *)
LEMMA ChangeIInv ==
  ASSUME IInv, NEW k \in Counters, NEW new \in Values, walk = Idle, dying = None, Change(k, new), scenario' = scenario
  PROVE  IInv'
<1>1. /\ counter' = [counter EXCEPT ![k].value = new]
      /\ walk' = [counter |-> k, node |-> First(list[k]), old |-> counter[k].value]
      /\ UNCHANGED <<open, dying>> /\ UNCHANGED Triggers0
  BY DEF Change, Triggers0
<1>2. \A j \in Counters : /\ counter'[j].owner = counter[j].owner
                          /\ counter'[j].beingDestroyed = counter[j].beingDestroyed
                          /\ j # k => counter'[j].value = counter[j].value
  BY <1>1 DEF IInv, TypeOK
<1>3. k # None /\ list[k] \in Seq(Triggers)
  BY SyncCountersAssumption, Typed DEF IInv
<1>4. First(list[k]) \in ToSet(list[k]) \/ First(list[k]) = None
  BY <1>3, FirstIs DEF First
<1>5. TypeOK'
  <2>1. counter' \in [Counters -> [owner : Clients \cup {None}, value : Values, beingDestroyed : BOOLEAN]]
    BY <1>1 DEF IInv, TypeOK
  <2>2. walk' \in [counter : Counters \cup {None}, node : Triggers \cup {None}, old : Values]
    BY <1>1, <1>4, Typed DEF IInv
  <2> QED BY <1>1, <2>1, <2>2 DEF IInv, TypeOK, Triggers0
<1>6. ListsInv' /\ ClientsInv'
  BY <1>1, <1>2, OwnersStay
<1>7. WalkInv'
  BY <1>1, <1>2, <1>3, <1>4, IdleIs DEF WalkInv, Triggers0, Does
<1>8. \A t \in ToSet(list[k]) : Ahead(t)'
  <2> TAKE t \in ToSet(list[k])
  <2>1. First(list[k]) # None /\ (t = First(list[k]) \/ Before(list[k], First(list[k]), t))
    BY <1>3, FirstIs
  <2> QED BY <1>1, <1>3, <2>1 DEF Ahead, Triggers0
<1>9. DueInv'
  <2>1. ASSUME NEW t \in Triggers, IsDue(t)' PROVE Ahead(t)'
    <3>1. Live(t) /\ Counts(t)
      BY <1>1, <2>1, TriggersStay DEF IsDue
    <3>2. Trigger(t).counter \in Counters \cup {None}
      BY <3>1, CountedIs
    <3>3. CASE Trigger(t).counter = k
      BY <1>3, <1>8, <3>1, <3>3, CountedIs
    <3>4. CASE Trigger(t).counter # k
      <4>1. Trigger(t).counter # None => ValueOf(Trigger(t).counter)' = ValueOf(Trigger(t).counter)
        BY <1>1, <3>2, <3>4, <1>2, TriggersStay DEF ValueOf
      <4>2. IsDue(t)
        BY <1>1, <2>1, <3>1, <4>1, TriggersStay DEF IsDue, Does, Triggers0
      <4> QED BY <4>2, IdleIs
    <3> QED BY <3>3, <3>4
  <2> QED BY <2>1 DEF DueInv
<1>10. SeenInv' /\ MatchInv'
  BY <1>1, <1>8 DEF SeenInv, IInv, MatchInv, Triggers0, Does
<1> QED BY <1>5, <1>6, <1>7, <1>9, <1>10 DEF IInv

-----------------------------------------------------------------------------
(* Awaits.                                                                 *)

\* The conditions of a client.
Of(c) == {<<c, 1>>, <<c, 2>>}

LEMMA OfIs ==
  ASSUME NEW c \in Clients
  PROVE  /\ Of(c) \subseteq Conditions /\ Of(c) \cap Alarms = {}
         /\ \A t \in Conditions : t \in Of(c) <=> t[1] = c
<1>1. Of(c) \subseteq Conditions
  BY DEF Of, Conditions
<1>2. \A t \in Conditions : t \in Of(c) <=> t[1] = c
  <2> TAKE t \in Conditions
  <2>1. t = <<t[1], t[2]>> /\ t[2] \in {1, 2}
    BY ConditionIs
  <2> QED BY <2>1 DEF Of
<1> QED BY <1>1, <1>2, SyncCountersAssumption

(* Which list a condition is taken from.                                   *)
LEMMA TakenIs ==
  ASSUME IInv, NEW c \in Clients, NEW i \in {1, 2}
  PROVE  /\ TakenFrom(c, i) \in Counters => ~counter[TakenFrom(c, i)].beingDestroyed
         /\ \A k \in Counters : ~counter[k].beingDestroyed /\ <<c, i>> \in ToSet(list[k]) => TakenFrom(c, i) = k
<1>1. TakenFrom(c, i) \in Counters => ~counter[TakenFrom(c, i)].beingDestroyed
  BY SyncCountersAssumption DEF TakenFrom
<1>2. ASSUME NEW k \in Counters, ~counter[k].beingDestroyed, <<c, i>> \in ToSet(list[k])
      PROVE  TakenFrom(c, i) = k
  <2>1. Belongs(<<c, i>>, k) /\ <<c, i>> \in Conditions
    BY <1>2 DEF IInv, ListsInv, Conditions
  <2>2. i \in DOMAIN await[c] /\ await[c][i].counter = k
    BY <1>2, <2>1, ConditionIs DEF Belongs
  <2> QED BY <1>2, <2>2 DEF TakenFrom
<1> QED BY <1>1, <1>2

(* A trigger is on the list of one counter.                                *)
LEMMA OneList ==
  ASSUME IInv, NEW j \in Counters, NEW k \in Counters, NEW u \in ToSet(list[j]), u \in ToSet(list[k])
  PROVE  j = k
<1>1. Belongs(u, j) /\ Belongs(u, k)
  BY DEF IInv, ListsInv
<1> QED BY <1>1 DEF Belongs, IInv, WalkInv

(* The end of an await takes its conditions from the lists of the counters *)
(* that are not being destroyed, and what is in front of them.             *)
LEMMA WithoutIs ==
  ASSUME IInv, NEW c \in Clients
  PROVE  /\ Without(c) \in Lists /\ AllOnce(Without(c))
         /\ \A k \in Counters :
              IF counter[k].beingDestroyed THEN Without(c)[k] = list[k]
              ELSE /\ Suffix(Without(c)[k], list[k])
                   /\ \A u : u \in ToSet(Without(c)[k]) <=>
                        u \in ToSet(list[k]) /\ \A t \in Of(c) : t \in ToSet(list[k]) => Before(list[k], t, u)
<1> DEFINE t1 == <<c, 1>>
           t2 == <<c, 2>>
           k1 == TakenFrom(c, 1)
           k2 == TakenFrom(c, 2)
           one == SyncDeleteTriggerFromCounter(list, t1, k1)
           two == SyncDeleteTriggerFromCounter(one, t2, k2)
<1>1. Without(c) = two
  BY DEF Without
<1>2. list \in Lists /\ AllOnce(list) /\ t1 # t2
  BY Typed DEF IInv, ListsInv
<1>3. /\ k1 \in Counters => ~counter[k1].beingDestroyed
      /\ k2 \in Counters => ~counter[k2].beingDestroyed
      /\ \A k \in Counters : ~counter[k].beingDestroyed =>
           (t1 \in ToSet(list[k]) => k1 = k) /\ (t2 \in ToSet(list[k]) => k2 = k)
  BY TakenIs
<1>4. Of(c) = {t1, t2}
  BY DEF Of
<1> HIDE DEF t1, t2, k1, k2
<1>5. /\ one \in Lists /\ AllOnce(one)
      /\ \A k \in Counters :
           /\ Suffix(one[k], list[k]) /\ (k # k1 => one[k] = list[k])
           /\ \A u : u \in ToSet(one[k]) <=>
                       u \in ToSet(list[k]) /\ (k = k1 /\ t1 \in ToSet(list[k]) => Before(list[k], t1, u))
  BY <1>2, DeleteIs, Zenon
<1> HIDE DEF one
<1>6. /\ two \in Lists /\ AllOnce(two)
      /\ \A k \in Counters :
           /\ Suffix(two[k], one[k]) /\ (k # k2 => two[k] = one[k])
           /\ \A u : u \in ToSet(two[k]) <=>
                       u \in ToSet(one[k]) /\ (k = k2 /\ t2 \in ToSet(one[k]) => Before(one[k], t2, u))
  BY <1>5, DeleteIs, Zenon
<1> HIDE DEF two
<1>7. ASSUME NEW k \in Counters, counter[k].beingDestroyed PROVE two[k] = list[k]
  BY <1>3, <1>5, <1>6, <1>7
<1>8. ASSUME NEW k \in Counters, ~counter[k].beingDestroyed
      PROVE  /\ Suffix(two[k], list[k])
             /\ \A u : u \in ToSet(two[k]) <=>
                  u \in ToSet(list[k]) /\ \A t \in Of(c) : t \in ToSet(list[k]) => Before(list[k], t, u)
  <2> DEFINE s == list[k]
             r == one[k]
             q == two[k]
  <2>1. s \in Seq(Triggers) /\ Once(s)
    BY <1>2 DEF Lists, AllOnce
  <2>2. Suffix(r, s) /\ Suffix(q, r)
    BY <1>5, <1>6
  <2>3. \A u : u \in ToSet(r) <=> u \in ToSet(s) /\ (t1 \in ToSet(s) => Before(s, t1, u))
    BY <1>3, <1>5, <1>8
  <2>4. \A u : u \in ToSet(q) <=> u \in ToSet(r) /\ (t2 \in ToSet(r) => Before(r, t2, u))
    <3>1. t2 \in ToSet(r) => k2 = k
      BY <1>3, <1>8, <2>2 DEF Suffix
    <3> QED BY <1>6, <3>1
  <2>5. \A u, v : u \in ToSet(r) => (Before(s, u, v) <=> Before(r, u, v))
    BY <2>2 DEF Suffix
  <2> HIDE DEF s, r, q
  <2>6. Suffix(q, s)
    BY <2>2 DEF Suffix
  <2>7. ASSUME NEW u \in ToSet(q), t2 \in ToSet(s) PROVE Before(s, t2, u)
    <3>1. CASE t2 \in ToSet(r)
      BY <2>4, <2>5, <3>1
    <3>2. CASE t2 \notin ToSet(r)
      <4>1. t1 \in ToSet(s) /\ ~Before(s, t1, t2) /\ Before(s, t1, u)
        BY <2>3, <2>4, <2>7, <3>2
      <4>2. Before(s, t2, t1)
        BY <1>2, <2>1, <2>7, <4>1, OrderIs
      <4> QED BY <2>1, <4>1, <4>2, OrderIs
    <3> QED BY <3>1, <3>2
  <2>8. \A u : u \in ToSet(q) <=> /\ u \in ToSet(s)
                                  /\ t1 \in ToSet(s) => Before(s, t1, u)
                                  /\ t2 \in ToSet(s) => Before(s, t2, u)
    BY <2>3, <2>4, <2>5, <2>7
  <2> QED BY <1>4, <2>6, <2>8 DEF s, q
<1> QED BY <1>1, <1>6, <1>7, <1>8

(* What the lists lose: what is in front of the conditions on them.        *)
LEMMA LostIs ==
  ASSUME IInv, NEW c \in Clients
  PROVE  /\ LostWithout(c) \subseteq Triggers /\ LostWithout(c) \cap Of(c) = {} /\ lost \ Of(c) \subseteq LostWithout(c)
         /\ \A u \in LostWithout(c) :
              u \in lost \/ \E k \in Counters : ~counter[k].beingDestroyed /\ u \in ToSet(list[k])
         /\ \A k \in Counters :
              IF counter[k].beingDestroyed THEN ToSet(list[k]) \cap LostWithout(c) = {}
              ELSE ToSet(Without(c)[k]) = ToSet(list[k]) \ (Of(c) \cup LostWithout(c))
<1> DEFINE D(i) == Dropped(<<c, i>>, TakenFrom(c, i))
<1>1. \A u : u \in LostWithout(c) <=> u \notin Of(c) /\ (u \in lost \/ u \in D(1) \/ u \in D(2))
  <2>1. {c} \X (1 .. 2) = Of(c)
    BY DEF Of
  <2>2. LostWithout(c) = (lost \cup D(1) \cup D(2)) \ ({c} \X (1 .. 2))
    BY DEF LostWithout
  <2> HIDE DEF D
  <2> QED BY <2>1, <2>2
<1>2. \A k \in Counters : list[k] \in Seq(Triggers) /\ Once(list[k]) /\ ToSet(list[k]) \subseteq Triggers
  BY Typed DEF IInv, ListsInv, AllOnce
<1>3. ASSUME NEW i \in {1, 2}, NEW u \in D(i)
      PROVE  \E k \in Counters : /\ ~counter[k].beingDestroyed
                                 /\ <<c, i>> \in ToSet(list[k]) /\ u \in ToSet(list[k]) /\ Before(list[k], u, <<c, i>>)
  <2> DEFINE k == TakenFrom(c, i)
  <2>1. k \in Counters /\ u \in InFront(list[k], <<c, i>>)
    BY <1>3 DEF Dropped
  <2>2. ~counter[k].beingDestroyed
    BY <2>1, TakenIs
  <2> HIDE DEF k
  <2>3. Before(list[k], u, <<c, i>>)
    BY <1>2, <2>1, BehindIs
  <2>4. <<c, i>> \in ToSet(list[k]) /\ u \in ToSet(list[k])
    BY <1>2, <2>1, <2>3, OrderIs
  <2> QED BY <2>1, <2>2, <2>3, <2>4
<1>4. ASSUME NEW i \in {1, 2}, NEW k \in Counters, ~counter[k].beingDestroyed, <<c, i>> \in ToSet(list[k]),
             NEW u, Before(list[k], u, <<c, i>>)
      PROVE  u \in D(i)
  <2>1. TakenFrom(c, i) = k
    BY <1>4, TakenIs
  <2>2. u \in InFront(list[k], <<c, i>>)
    BY <1>2, <1>4, BehindIs
  <2> QED BY <2>1, <2>2 DEF Dropped
<1> HIDE DEF D
<1>5. \A k \in Counters : \A u \in ToSet(list[k]) : u \notin lost
  BY DEF IInv, ListsInv, Belongs
<1>6. ASSUME NEW u \in LostWithout(c)
      PROVE  u \in lost \/ \E k \in Counters : ~counter[k].beingDestroyed /\ u \in ToSet(list[k])
  BY <1>1, <1>3
<1>7. LostWithout(c) \subseteq Triggers
  BY <1>2, <1>6, Typed DEF IInv
<1>8. ASSUME NEW k \in Counters, counter[k].beingDestroyed PROVE ToSet(list[k]) \cap LostWithout(c) = {}
  BY <1>5, <1>6, <1>8, OneList
<1>9. ASSUME NEW k \in Counters, ~counter[k].beingDestroyed, NEW u \in ToSet(list[k])
      PROVE  u \in ToSet(Without(c)[k]) <=> u \notin Of(c) /\ u \notin LostWithout(c)
  <2>1. u \in ToSet(Without(c)[k]) <=> \A t \in Of(c) : t \in ToSet(list[k]) => Before(list[k], t, u)
    BY <1>9, WithoutIs
  <2>2. \A t \in Of(c) : t = <<c, 1>> \/ t = <<c, 2>>
    BY DEF Of
  <2>3. ASSUME u \in ToSet(Without(c)[k]) PROVE u \notin Of(c) /\ u \notin LostWithout(c)
    <3>1. u \notin Of(c)
      <4>1. ~Before(list[k], u, u)
        BY <1>2, OrderIs
      <4> QED BY <1>9, <2>1, <2>3, <4>1
    <3>2. ASSUME NEW i \in {1, 2}, u \in D(i) PROVE FALSE
      <4>1. PICK j \in Counters : <<c, i>> \in ToSet(list[j]) /\ u \in ToSet(list[j]) /\ Before(list[j], u, <<c, i>>)
        BY <1>3, <3>2
      <4>2. j = k
        BY <1>9, <4>1, OneList
      <4>3. <<c, i>> \in Of(c)
        BY DEF Of
      <4>4. Before(list[k], <<c, i>>, u)
        BY <2>1, <2>3, <4>1, <4>2, <4>3
      <4> QED BY <1>2, <4>1, <4>2, <4>4, OrderIs
    <3> QED BY <1>1, <1>5, <1>9, <3>1, <3>2
  <2>4. ASSUME u \notin Of(c), u \notin LostWithout(c), NEW t \in Of(c), t \in ToSet(list[k]) PROVE Before(list[k], t, u)
    <3>1. u # t /\ u \notin D(1) /\ u \notin D(2)
      BY <1>1, <2>4
    <3>2. ~Before(list[k], u, t)
      BY <1>4, <1>9, <2>2, <2>4, <3>1
    <3> QED BY <1>2, <1>9, <2>4, <3>1, <3>2, OrderIs
  <2> QED BY <2>1, <2>3, <2>4
<1>10. ASSUME NEW k \in Counters, ~counter[k].beingDestroyed
       PROVE  ToSet(Without(c)[k]) = ToSet(list[k]) \ (Of(c) \cup LostWithout(c))
  <2>1. \A u \in ToSet(Without(c)[k]) : u \in ToSet(list[k])
    BY <1>10, WithoutIs
  <2> QED BY <1>9, <1>10, <2>1
<1> QED BY <1>1, <1>6, <1>7, <1>8, <1>10

(* The triggers after the end of an await: those that were there, without  *)
(* the client's conditions.                                                *)
LEMMA AwaitEnds ==
  ASSUME TypeOK, NEW c \in Clients, await' = [await EXCEPT ![c] = <<>>], UNCHANGED <<alarm, scenario>>
  PROVE  /\ await' \in [Clients -> {<<>>} \cup [1 .. 1 -> Condition] \cup [1 .. 2 -> Condition]]
         /\ \A t \in Triggers : /\ Live(t)' <=> Live(t) /\ t \notin Of(c)
                                /\ Live(t)' => Trigger(t)' = Trigger(t)
         /\ \A d \in Clients : d # c => await'[d] = await[d]
         /\ await'[c] = <<>>
<1>1. /\ await' \in [Clients -> {<<>>} \cup [1 .. 1 -> Condition] \cup [1 .. 2 -> Condition]]
      /\ \A d \in Clients : d # c => await'[d] = await[d]
      /\ await'[c] = <<>>
  BY DEF TypeOK
<1>2. ASSUME NEW t \in Triggers
      PROVE  /\ Live(t)' <=> Live(t) /\ t \notin Of(c)
             /\ Live(t)' => Trigger(t)' = Trigger(t)
  <2>1. CASE t \in Alarms
    <3>1. t \notin Of(c)
      BY <2>1, OfIs
    <3> QED BY <2>1, <3>1 DEF Live, Trigger
  <2>2. CASE t \in Conditions
    <3>1. t[1] \in Clients /\ t[2] \in {1, 2} /\ t \notin Alarms
      BY <2>2, ConditionIs
    <3>2. t \in Of(c) <=> t[1] = c
      BY <2>2, OfIs
    <3>3. CASE t[1] = c
      BY <1>1, <3>1, <3>2, <3>3 DEF Live
    <3>4. CASE t[1] # c
      BY <1>1, <3>1, <3>2, <3>4 DEF Live, Trigger
    <3> QED BY <3>3, <3>4
  <2> QED BY <2>1, <2>2 DEF Triggers
<1> QED BY <1>1, <1>2

(* What an await's end does to the invariant while no counter is being     *)
(* destroyed.                                                              *)
LEMMA FreedStep ==
  ASSUME IInv, NEW c \in Clients, await' = [await EXCEPT ![c] = <<>>], list' = Without(c), lost' = LostWithout(c),
         UNCHANGED <<alarm, scenario, counter, open, dying>>,
         \A k \in Counters : ~counter[k].beingDestroyed
  PROVE  /\ list' \in [Counters -> Seq(Triggers)] /\ lost' \subseteq Triggers
         /\ ListsInv' /\ ClientsInv' /\ MatchInv'
         /\ \A t \in Triggers : IsDue(t)' => IsDue(t) /\ t \notin Of(c)
<1>1. /\ list' \in Lists /\ AllOnce(list')
      /\ \A k \in Counters : ToSet(list'[k]) = ToSet(list[k]) \ (Of(c) \cup lost')
  BY WithoutIs, LostIs
<1>2. TypeOK
  BY DEF IInv
<1>3. \A t \in Triggers : /\ Live(t)' <=> Live(t) /\ t \notin Of(c)
                          /\ Live(t)' => Trigger(t)' = Trigger(t)
  BY <1>2, AwaitEnds
<1>4. /\ lost' \subseteq Triggers /\ lost' \cap Of(c) = {} /\ lost \ Of(c) \subseteq lost'
      /\ \A u \in lost' : u \in lost \/ \E k \in Counters : u \in ToSet(list[k])
  BY LostIs
<1>5. \A t \in Triggers : Counts(t)' /\ t \notin Of(c) => Counts(t)
  BY <1>4 DEF Counts, Does
<1>6. ListsInv'
  <2>1. ASSUME NEW k \in Counters, NEW t \in ToSet(list'[k]) PROVE Belongs(t, k)'
    <3>1. t \in ToSet(list[k]) /\ t \notin Of(c) /\ t \notin lost'
      BY <1>1
    <3>2. t \in Triggers /\ Belongs(t, k)
      BY <1>2, <3>1, Typed DEF IInv, ListsInv
    <3> QED BY <1>3, <3>1, <3>2 DEF Belongs, Exists, Does
  <2>2. ASSUME NEW t \in Triggers, Live(t)' PROVE Refers(t)'
    <3>1. Live(t) /\ t \notin Of(c) /\ Trigger(t)' = Trigger(t) /\ (Counts(t)' => Counts(t) /\ t \notin lost')
      BY <1>3, <1>5, <2>2 DEF Counts
    <3>2. Refers(t)
      BY <3>1 DEF IInv, ListsInv
    <3> QED BY <1>1, <3>1, <3>2 DEF Refers, Exists
  <2>3. ASSUME NEW t \in lost' PROVE Live(t)' /\ Trigger(t)'.counter # None
    <3>1. Live(t) /\ Trigger(t).counter # None
      <4>1. CASE t \in lost
        BY <4>1 DEF IInv, ListsInv
      <4>2. ASSUME NEW k \in Counters, t \in ToSet(list[k]) PROVE Live(t) /\ Trigger(t).counter # None
        BY <4>2, SyncCountersAssumption DEF IInv, ListsInv, Belongs
      <4> QED BY <1>4, <4>1, <4>2
    <3>2. t \in Triggers /\ t \notin Of(c)
      BY <1>4, <2>3
    <3> QED BY <1>3, <3>1, <3>2
  <2>4. \A a \in Alarms : alarm'[a].state = "none" => alarm'[a].counter = None
    BY DEF IInv, ListsInv
  <2> QED BY <1>1, <2>1, <2>2, <2>3, <2>4 DEF ListsInv
<1>7. ClientsInv'
  <2>1. \A d \in Clients : (d # c => await'[d] = await[d]) /\ await'[c] = <<>>
    BY <1>2, AwaitEnds
  <2> QED BY <2>1 DEF IInv, ClientsInv, Blocked, Does
<1>8. \A t \in Triggers : IsDue(t)' => IsDue(t) /\ t \notin Of(c)
  BY <1>3, <1>5 DEF IsDue, ValueOf, Does
<1> QED BY <1>1, <1>4, <1>6, <1>7, <1>8 DEF Lists, IInv, MatchInv, Does

LEMMA FreeAwaitIInv == IInv /\ FreeAwait /\ scenario' = scenario => IInv'
<1> SUFFICES ASSUME IInv, FreeAwait, scenario' = scenario PROVE IInv'
  OBVIOUS
<1>1. /\ walk = Idle /\ dying # None /\ await' = [await EXCEPT ![dying] = <<>>]
      /\ list' = Without(dying) /\ lost' = LostWithout(dying)
      /\ UNCHANGED <<open, dying, counter, alarm, walk, scenario>>
  BY DEF FreeAwait
<1>2. dying \in Clients
  BY <1>1 DEF IInv, TypeOK
<1>3. \A k \in Counters : ~counter[k].beingDestroyed
  BY <1>1, IdleIs
<1>4. /\ list' \in [Counters -> Seq(Triggers)] /\ lost' \subseteq Triggers
      /\ ListsInv' /\ ClientsInv' /\ MatchInv'
      /\ \A t \in Triggers : IsDue(t)' => IsDue(t)
  BY <1>1, <1>2, <1>3, FreedStep
<1>5. TypeOK'
  <2>1. await' \in [Clients -> {<<>>} \cup [1 .. 1 -> Condition] \cup [1 .. 2 -> Condition]]
    BY <1>1, <1>2, AwaitEnds DEF IInv
  <2> QED BY <1>1, <1>4, <2>1 DEF IInv, TypeOK
<1>6. WalkInv'
  BY <1>1, <1>3 DEF WalkInv, Idle
<1>7. DueInv'
  BY <1>1, <1>4, IdleIs DEF DueInv
<1>8. SeenInv'
  BY <1>1 DEF SeenInv, Idle
<1> QED BY <1>4, <1>5, <1>6, <1>7, <1>8 DEF IInv

(* A client goes to sleep: its conditions are not true, and are on their   *)
(* lists.                                                                  *)
LEMMA AwaitIInv ==
  ASSUME IInv, NEW c \in Clients, NEW conds \in [1 .. 1 -> Condition] \cup [1 .. 2 -> Condition],
         Await(c, conds), scenario' = scenario,
         \A i \in DOMAIN conds :
           /\ conds[i].counter \in Counters /\ Exists(conds[i].counter)
           /\ Does("own") \/ counter[conds[i].counter].owner # c,
         Does("same") \/ \A i, j \in DOMAIN conds : conds[i].counter = conds[j].counter => i = j
  PROVE  IInv'
<1> DEFINE one == Registered(list, c, 1, conds)
           two == Registered(one, c, 2, conds)
           At(i, k) == i \in DOMAIN conds /\ conds[i].counter = k
<1>1. /\ walk = Idle /\ open[c] /\ await[c] = <<>>
      /\ await' = [await EXCEPT ![c] = conds] /\ list' = two
      /\ UNCHANGED <<open, dying, counter, alarm, lost, walk, scenario>>
      /\ \A i \in DOMAIN conds :
           ~Check(conds[i], counter[conds[i].counter].value, counter[conds[i].counter].value)
  BY DEF Await, Runs, Blocked
<1>2. TypeOK /\ list \in Lists /\ AllOnce(list)
  BY Typed DEF IInv, ListsInv
<1>3. /\ DOMAIN conds \subseteq {1, 2}
      /\ \A i \in DOMAIN conds : conds[i] \in Condition /\ conds[i].counter \in Counters
  <2>1. CASE conds \in [1 .. 1 -> Condition]
    BY <2>1 DEF Condition
  <2>2. CASE conds \in [1 .. 2 -> Condition]
    BY <2>2 DEF Condition
  <2> QED BY <2>1, <2>2
<1>4. <<c, 1>> \in Triggers /\ <<c, 2>> \in Triggers
  BY DEF Triggers, Conditions
<1>5. /\ one \in Lists /\ AllOnce(one)
      /\ \A k \in Counters : \A u : u \in ToSet(one[k]) <=> u \in ToSet(list[k]) \/ (At(1, k) /\ u = <<c, 1>>)
  <2>1. CASE 1 \in DOMAIN conds
    BY <1>2, <1>4, <2>1, AddIs DEF Registered
  <2>2. CASE 1 \notin DOMAIN conds
    BY <1>2, <2>2 DEF Registered
  <2> QED BY <2>1, <2>2
<1> HIDE DEF one
<1>6. /\ two \in Lists /\ AllOnce(two)
      /\ \A k \in Counters : \A u : u \in ToSet(two[k]) <=> u \in ToSet(one[k]) \/ (At(2, k) /\ u = <<c, 2>>)
  <2>1. CASE 2 \in DOMAIN conds
    <3>1. two = SyncAddTriggerToCounter(one, <<c, 2>>, conds[2].counter)
      BY <2>1 DEF Registered
    <3>2. \A k \in Counters : At(2, k) <=> k = conds[2].counter
      BY <2>1
    <3> HIDE DEF two, At
    <3> QED BY <1>5, <1>4, <3>1, <3>2, AddIs
  <2>2. CASE 2 \notin DOMAIN conds
    BY <1>5, <2>2 DEF Registered
  <2> QED BY <2>1, <2>2
<1> HIDE DEF two
<1>7. /\ \A d \in Clients : d # c => await'[d] = await[d]
      /\ await'[c] = conds
      /\ await' \in [Clients -> {<<>>} \cup [1 .. 1 -> Condition] \cup [1 .. 2 -> Condition]]
  BY <1>1, <1>2 DEF TypeOK
<1>8. \A t \in Of(c) : t \in Conditions /\ t \notin Alarms /\ t[1] = c /\ t[2] \in {1, 2} /\ t = <<c, t[2]>> /\ ~Live(t)
  <2> TAKE t \in Of(c)
  <2>1. t \in Conditions /\ t[1] = c
    BY OfIs
  <2> QED BY <2>1, <1>1, ConditionIs
<1>9. \A t \in Of(c) : (Live(t)' <=> t[2] \in DOMAIN conds) /\ (Live(t)' => Trigger(t)' = conds[t[2]])
  BY <1>7, <1>8 DEF Live, Trigger
<1>10. ASSUME NEW t \in Triggers, t \notin Of(c)
       PROVE  (Live(t)' <=> Live(t)) /\ (Live(t)' => Trigger(t)' = Trigger(t))
  <2>1. CASE t \in Alarms
    BY <1>1, <2>1 DEF Live, Trigger
  <2>2. CASE t \in Conditions
    <3>1. t[1] \in Clients /\ t[1] # c /\ t \notin Alarms
      BY <1>10, <2>2, OfIs, ConditionIs
    <3> QED BY <1>7, <3>1 DEF Live, Trigger
  <2> QED BY <2>1, <2>2 DEF Triggers
<1>11. \A k \in Counters : \A t : t \in ToSet(list'[k]) <=>
          t \in ToSet(list[k]) \/ (t \in Of(c) /\ At(t[2], k))
  <2> TAKE k \in Counters
  <2>1. \A t : t \in ToSet(two[k]) <=> t \in ToSet(list[k]) \/ (t = <<c, 1>> /\ At(1, k)) \/ (t = <<c, 2>> /\ At(2, k))
    <3> HIDE DEF At
    <3> QED BY <1>5, <1>6
  <2>2. \A t : t \in Of(c) /\ At(t[2], k) <=> (t = <<c, 1>> /\ At(1, k)) \/ (t = <<c, 2>> /\ At(2, k))
    <3> HIDE DEF At
    <3> QED BY DEF Of
  <2> QED BY <1>1, <2>1, <2>2
<1>12. ListsInv'
  <2>1. \A t \in lost : t \in Triggers /\ Live(t) /\ Trigger(t).counter # None /\ t \notin Of(c)
    BY <1>2, <1>8, Typed DEF IInv, ListsInv
  <2>2. ASSUME NEW k \in Counters, NEW t \in ToSet(list'[k]) PROVE Belongs(t, k)'
    <3>1. CASE t \in ToSet(list[k])
      <4>1. Live(t) /\ Trigger(t).counter = k /\ Exists(k) /\ t \notin lost
        BY <1>1, <3>1, IdleIs DEF IInv, ListsInv, Belongs
      <4>2. t \in Triggers /\ t \notin Of(c)
        BY <1>2, <1>8, <3>1, <4>1, Typed
      <4> QED BY <1>1, <1>10, <4>1, <4>2 DEF Belongs, Exists
    <3>2. CASE t \in Of(c) /\ At(t[2], k)
      BY <1>1, <1>9, <2>1, <3>2 DEF Belongs, Exists
    <3> QED BY <1>11, <2>2, <3>1, <3>2
  <2>3. ASSUME NEW t \in Triggers, Live(t)' PROVE Refers(t)'
    <3>1. CASE t \in Of(c)
      <4>1. t[2] \in DOMAIN conds /\ Trigger(t)' = conds[t[2]] /\ conds[t[2]].counter \in Counters
        BY <1>3, <1>9, <2>3, <3>1
      <4>2. t \in ToSet(list'[conds[t[2]].counter]) /\ Exists(conds[t[2]].counter)
        BY <1>11, <3>1, <4>1
      <4> QED BY <1>1, <4>1, <4>2 DEF Refers, Exists
    <3>2. CASE t \notin Of(c)
      <4>1. Live(t) /\ Trigger(t)' = Trigger(t) /\ (Counts(t)' <=> Counts(t))
        BY <1>1, <1>10, <2>3, <3>2 DEF Counts, Does
      <4>2. Refers(t)
        BY <4>1 DEF IInv, ListsInv
      <4> QED BY <1>1, <1>11, <4>1, <4>2 DEF Refers, Exists
    <3> QED BY <3>1, <3>2
  <2>4. ASSUME NEW t \in lost' PROVE Live(t)' /\ Trigger(t)'.counter # None
    BY <1>1, <1>10, <2>1, <2>4
  <2>5. \A a \in Alarms : alarm'[a].state = "none" => alarm'[a].counter = None
    BY <1>1 DEF IInv, ListsInv
  <2> QED BY <1>1, <1>6, <2>2, <2>3, <2>4, <2>5 DEF ListsInv
<1>13. DueInv'
  <2>1. ASSUME NEW t \in Triggers, IsDue(t)' PROVE FALSE
    <3>1. CASE t \in Of(c)
      <4>1. t[2] \in DOMAIN conds /\ Trigger(t)' = conds[t[2]]
        BY <1>9, <2>1, <3>1 DEF IsDue
      <4>2. conds[t[2]].counter # None
        BY <1>3, <4>1, SyncCountersAssumption
      <4> QED BY <1>1, <2>1, <4>1, <4>2 DEF IsDue, ValueOf
    <3>2. CASE t \notin Of(c)
      <4>1. Live(t) /\ Trigger(t)' = Trigger(t)
        BY <1>10, <2>1, <3>2 DEF IsDue
      <4>2. IsDue(t)
        BY <1>1, <2>1, <4>1 DEF IsDue, ValueOf, Counts, Does
      <4> QED BY <1>1, <4>2, IdleIs
    <3> QED BY <3>1, <3>2
  <2> QED BY <2>1 DEF DueInv
<1>14. TypeOK'
  BY <1>1, <1>2, <1>6, <1>7 DEF TypeOK, Lists
<1>15. WalkInv' /\ SeenInv' /\ MatchInv'
  <2>1. walk'.counter = None
    BY <1>1 DEF Idle
  <2> QED BY <1>1, <2>1, IdleIs DEF WalkInv, SeenInv, IInv, MatchInv, Does
<1>16. ClientsInv'
  <2>1. \A d \in Clients : Blocked(d)' => open'[d] \/ dying' = d
    BY <1>1, <1>7 DEF IInv, ClientsInv, Blocked
  <2>2. ~Does("own")' => \A d \in Clients : \A i \in DOMAIN await'[d] :
                           await'[d][i].counter # Freed => counter'[await'[d][i].counter].owner # d
    BY <1>1, <1>7 DEF IInv, ClientsInv, Does
  <2>3. ~Does("same")' => \A d \in Clients : \A i, j \in DOMAIN await'[d] :
                            await'[d][i].counter # Freed /\ await'[d][i].counter = await'[d][j].counter => i = j
    BY <1>1, <1>7 DEF IInv, ClientsInv, Does
  <2> QED BY <2>1, <2>2, <2>3 DEF ClientsInv
<1> QED BY <1>12, <1>13, <1>14, <1>15, <1>16 DEF IInv

-----------------------------------------------------------------------------
(* The walk of a change.                                                   *)

\* What Visit knows of the trigger that it comes to.
Visited(k, t) ==
  /\ k = walk.counter /\ t = walk.node
  /\ k \in Counters /\ ~counter[k].beingDestroyed
  /\ t \in Triggers /\ Live(t) /\ t \in ToSet(list[k])

\* The parts of the invariant about the walk and what is ahead of it.
LEMMA VisitFacts ==
  ASSUME IInv, Visit, NEW k, NEW t, k = walk.counter, t = walk.node
  PROVE  /\ Visited(k, t) /\ k # None /\ t # None
         /\ \A j \in Counters : ~counter[j].beingDestroyed
         /\ dying = None
         /\ UNCHANGED <<open, dying, counter>>
         /\ \A u \in Triggers : IsDue(u) => Ahead(u)
         /\ \A u \in ToSet(list[k]) : IsMade(u) => Ahead(u)
         /\ Trigger(t).counter = k
<1>1. /\ Visited(k, t) /\ k # None /\ t # None /\ UNCHANGED <<open, dying, counter>>
      /\ ~counter[k].beingDestroyed
  <2>1. k # None /\ t # None /\ ~counter[k].beingDestroyed /\ Live(t) /\ t \in ToSet(list[k])
        /\ UNCHANGED <<open, dying, counter>>
    BY DEF Visit
  <2>2. k \in Counters /\ t \in Triggers
    BY <2>1 DEF IInv, TypeOK
  <2> QED BY <2>1, <2>2 DEF Visited
<1>2. ~Stuck
  BY <1>1 DEF Stuck, Visited
<1>3. \A j \in Counters : ~counter[j].beingDestroyed
  BY <1>1 DEF IInv, WalkInv
<1>4. dying = None
  BY <1>1 DEF IInv, WalkInv
<1>5. Trigger(t).counter = k
  BY <1>1 DEF IInv, ListsInv, Belongs, Visited
<1> QED BY <1>1, <1>2, <1>3, <1>4, <1>5 DEF IInv, DueInv, SeenInv

(* The walk goes on: what was ahead, and is not the trigger visited, still *)
(* is, unless the next one was taken from the list: if it was not, neither *)
(* was what is behind it.                                                  *)
LEMMA StillAhead ==
  ASSUME IInv, NEW k, NEW t, Visited(k, t), walk' = [walk EXCEPT !.node = Following(k, t)],
         Suffix(list'[k], list[k])
  PROVE  /\ walk'.counter = k /\ walk'.old = walk.old
         /\ walk' \in [counter : Counters \cup {None}, node : Triggers \cup {None}, old : Values]
         /\ walk'.node = None \/ (walk'.node \in ToSet(list[k]) /\ Before(list[k], t, walk'.node))
         /\ walk'.node # t
         /\ Stuck' \/ \A u : Ahead(u) /\ u # t => Ahead(u)'
<1> DEFINE n == Following(k, t)
<1>1. /\ k \in Counters /\ list \in Lists /\ Once(list[k]) /\ t \in ToSet(list[k]) /\ k = walk.counter /\ t = walk.node
      /\ TypeOK /\ list[k] \in Seq(Triggers) /\ k # None /\ t # None
  BY Typed, SyncCountersAssumption DEF Visited, IInv, ListsInv, AllOnce
<1>2. /\ n = None \/ (n \in ToSet(list[k]) /\ Before(list[k], t, n))
      /\ \A u : Before(list[k], t, u) => n # None /\ (u = n \/ Before(list[k], n, u))
  BY <1>1, FollowingIs
<1>3. n # t
  <2>1. ~Before(list[k], t, t)
    BY <1>1 DEF Before, Once
  <2> QED BY <1>1, <1>2, <2>1
<1> HIDE DEF n
<1>4. /\ walk'.counter = k /\ walk'.old = walk.old /\ walk'.node = n
      /\ walk' \in [counter : Counters \cup {None}, node : Triggers \cup {None}, old : Values]
  <2>1. walk \in [counter : Counters \cup {None}, node : Triggers \cup {None}, old : Values]
    BY <1>1 DEF TypeOK
  <2>2. walk' = [walk EXCEPT !.node = n]
    BY DEF n
  <2>3. n \in Triggers \cup {None}
    BY <1>1, <1>2, Typed
  <2> QED BY <1>1, <2>1, <2>2, <2>3
<1>5. ASSUME ~Stuck', NEW u, Ahead(u), u # t PROVE Ahead(u)'
  <2>1. Before(list[k], t, u)
    BY <1>1, <1>5 DEF Ahead
  <2>2. n # None /\ (u = n \/ Before(list[k], n, u))
    BY <1>2, <2>1
  <2>3. n \in ToSet(list'[k])
    BY <1>1, <1>4, <1>5, <2>2 DEF Stuck
  <2>4. u = n \/ Before(list'[k], n, u)
    BY <2>2, <2>3 DEF Suffix
  <2>5. u \in ToSet(list'[k])
    BY <2>3, <2>4 DEF Before, ToSet
  <2> QED BY <1>1, <1>4, <2>2, <2>4, <2>5 DEF Ahead
<1> QED BY <1>2, <1>3, <1>4, <1>5

LEMMA StillAheadSame ==
  ASSUME IInv, NEW k, NEW t, Visited(k, t), walk' = [walk EXCEPT !.node = Following(k, t)],
         list' = list
  PROVE  /\ walk'.counter = k /\ walk'.old = walk.old
         /\ walk' \in [counter : Counters \cup {None}, node : Triggers \cup {None}, old : Values]
         /\ walk'.node = None \/ walk'.node \in ToSet(list[k])
         /\ Stuck' \/ \A u : Ahead(u) /\ u # t => Ahead(u)'
<1>1. Suffix(list'[k], list[k])
  BY DEF Suffix
<1> QED BY <1>1, StillAhead

LEMMA WalkGoesOn ==
  ASSUME IInv, NEW k, NEW t, Visited(k, t), UNCHANGED <<counter, dying, scenario>>, dying = None,
         \A j \in Counters : ~counter[j].beingDestroyed,
         walk'.counter = k, walk'.node = None \/ Does("same") \/ walk'.node \in ToSet(list'[k])
  PROVE  WalkInv'
BY SyncCountersAssumption DEF WalkInv, Visited, Does

(* The lists stay exact while neither they nor the triggers change.        *)
LEMMA ListsStay ==
  ASSUME ListsInv, UNCHANGED Triggers0, UNCHANGED counter
  PROVE  ListsInv'
<1>1. UNCHANGED <<await, alarm, list, lost, scenario>>
  BY DEF Triggers0
<1>2. ASSUME NEW k \in Counters, NEW t \in ToSet(list[k]) PROVE Belongs(t, k)'
  <2>1. Belongs(t, k)
    BY DEF ListsInv
  <2> QED BY <1>1, <2>1 DEF Belongs, Live, Trigger, Exists, Does
<1>3. ASSUME NEW t \in Triggers, Live(t)' PROVE Refers(t)'
  <2>1. Live(t) /\ Refers(t)
    BY <1>1, <1>3 DEF ListsInv, Live
  <2> QED BY <1>1, <2>1 DEF Refers, Counts, Trigger, Exists, Does
<1>4. \A t \in lost : Live(t)' /\ Trigger(t)'.counter # None
  BY <1>1 DEF ListsInv, Live, Trigger
<1> QED BY <1>1, <1>2, <1>3, <1>4 DEF ListsInv, AllOnce

(* A trigger that is not fired.                                            *)
LEMMA PassIInv ==
  ASSUME IInv, Visit, scenario' = scenario, NEW k, NEW t, k = walk.counter, t = walk.node,
         ~Check(Trigger(t), walk.old, counter[k].value)
  PROVE  IInv'
<1>1. /\ Visited(k, t) /\ k # None /\ t # None
      /\ \A j \in Counters : ~counter[j].beingDestroyed
      /\ dying = None
      /\ UNCHANGED <<open, dying, counter>>
      /\ \A u \in Triggers : IsDue(u) => Ahead(u)
      /\ \A u \in ToSet(list[k]) : IsMade(u) => Ahead(u)
      /\ Trigger(t).counter = k
  BY VisitFacts
<1>2. walk' = [walk EXCEPT !.node = Following(k, t)] /\ UNCHANGED Triggers0
  BY DEF Visit, Triggers0
<1>3. list'[k] = list[k] /\ list[k] \in Seq(Triggers)
  BY <1>1, <1>2, Typed DEF IInv, Visited, Triggers0
<1>4. /\ walk'.counter = k /\ walk'.old = walk.old
      /\ walk' \in [counter : Counters \cup {None}, node : Triggers \cup {None}, old : Values]
      /\ walk'.node = None \/ walk'.node \in ToSet(list[k])
      /\ Stuck' \/ \A u : Ahead(u) /\ u # t => Ahead(u)'
  BY <1>1, <1>2, StillAheadSame DEF Triggers0
<1>5. TypeOK'
  BY <1>1, <1>2, <1>4 DEF IInv, TypeOK, Triggers0
<1>6. ListsInv' /\ ClientsInv' /\ MatchInv'
  BY <1>1, <1>2, ListsStay DEF IInv, ListsInv, ClientsInv, MatchInv, Blocked, Triggers0, Does
<1>7. WalkInv'
  BY <1>1, <1>2, <1>3, <1>4, WalkGoesOn DEF Triggers0
<1>8. t \in Triggers
  BY <1>1 DEF Visited
<1>9. \A u \in Triggers : (IsDue(u)' => IsDue(u)) /\ (IsMade(u)' => IsMade(u))
  BY <1>1, <1>2, <1>4, TriggersStay DEF IsDue, IsMade, ValueOf, Triggers0
<1>10. ~IsDue(t) /\ ~IsMade(t)
  <2>1. Trigger(t).check \in Comparisons => ~Check(Trigger(t), counter[k].value, counter[k].value)
    BY DEF Check, Comparisons
  <2> QED BY <1>1, <2>1 DEF IsDue, IsMade, ValueOf
<1>11. DueInv'
  BY <1>1, <1>4, <1>9, <1>10 DEF DueInv
<1>12. SeenInv'
  <2>1. ASSUME ~Stuck', NEW u \in ToSet(list'[k]), IsMade(u)' PROVE Ahead(u)'
    <3>1. u \in Triggers /\ u \in ToSet(list[k])
      BY <1>1, <1>3, <2>1, Typed DEF IInv, Visited
    <3> QED BY <1>1, <1>4, <1>9, <1>10, <2>1, <3>1
  <2> QED BY <1>4, <2>1 DEF SeenInv
<1> QED BY <1>5, <1>6, <1>7, <1>11, <1>12 DEF IInv

(* A condition that is true: its client wakes up.                          *)
LEMMA WakeIInv ==
  ASSUME IInv, Visit, scenario' = scenario, NEW k, NEW t, k = walk.counter, t = walk.node,
         Check(Trigger(t), walk.old, counter[k].value), t \in Conditions
  PROVE  IInv'
<1> DEFINE c == t[1]
<1>1. /\ Visited(k, t) /\ k # None /\ t # None
      /\ \A j \in Counters : ~counter[j].beingDestroyed
      /\ dying = None
      /\ UNCHANGED <<open, dying, counter>>
      /\ \A u \in Triggers : IsDue(u) => Ahead(u)
      /\ \A u \in ToSet(list[k]) : IsMade(u) => Ahead(u)
      /\ Trigger(t).counter = k
  BY VisitFacts
<1>2. /\ walk' = [walk EXCEPT !.node = Following(k, t)]
      /\ await' = [await EXCEPT ![c] = <<>>] /\ alarm' = alarm
      /\ list' = Without(c) /\ lost' = LostWithout(c)
  BY DEF Visit
<1>3. c \in Clients /\ t \in Of(c)
  BY ConditionIs, OfIs
<1>4. /\ k \in Counters /\ Suffix(list'[k], list[k])
      /\ \A u : u \in ToSet(list'[k]) <=>
           u \in ToSet(list[k]) /\ \A o \in Of(c) : o \in ToSet(list[k]) => Before(list[k], o, u)
  <2>1. k \in Counters /\ ~counter[k].beingDestroyed
    BY <1>1 DEF Visited
  <2> HIDE DEF c
  <2> QED BY <1>2, <1>3, <2>1, WithoutIs
<1>5. /\ walk'.counter = k /\ walk'.old = walk.old
      /\ walk' \in [counter : Counters \cup {None}, node : Triggers \cup {None}, old : Values]
      /\ walk'.node = None \/ (walk'.node \in ToSet(list[k]) /\ Before(list[k], t, walk'.node))
      /\ Stuck' \/ \A u : Ahead(u) /\ u # t => Ahead(u)'
  BY <1>1, <1>2, <1>4, StillAhead
<1>6. /\ list' \in [Counters -> Seq(Triggers)] /\ lost' \subseteq Triggers
      /\ ListsInv' /\ ClientsInv' /\ MatchInv'
      /\ \A u \in Triggers : IsDue(u)' => IsDue(u) /\ u \notin Of(c)
  <2> HIDE DEF c
  <2> QED BY <1>1, <1>2, <1>3, FreedStep
<1>7. /\ await' \in [Clients -> {<<>>} \cup [1 .. 1 -> Condition] \cup [1 .. 2 -> Condition]]
      /\ \A u \in Triggers : /\ Live(u)' <=> Live(u) /\ u \notin Of(c)
                             /\ Live(u)' => Trigger(u)' = Trigger(u)
  <2> HIDE DEF c
  <2> QED BY <1>2, <1>3, AwaitEnds DEF IInv
<1>8. TypeOK'
  BY <1>1, <1>2, <1>5, <1>6, <1>7 DEF IInv, TypeOK
<1>9. walk'.node = None \/ Does("same") \/ walk'.node \in ToSet(list'[k])
  <2> SUFFICES ASSUME walk'.node \in ToSet(list[k]), Before(list[k], t, walk'.node), ~Does("same"),
                      NEW u \in Of(c), u \in ToSet(list[k])
               PROVE  u = t
    BY <1>4, <1>5
  <2>1. u \in Conditions /\ u[1] = c
    BY <1>3, OfIs
  <2>2. Live(u) /\ Trigger(u).counter = k
    BY <1>1, <1>4 DEF IInv, ListsInv, Belongs
  <2> HIDE DEF c
  <2>3. /\ u[2] \in DOMAIN await[c] /\ await[c][u[2]].counter = k
        /\ t[2] \in DOMAIN await[c] /\ await[c][t[2]].counter = k
    BY <1>1, <2>1, <2>2, ConditionIs DEF Visited, c
  <2>4. k # Freed
    BY <1>4, SyncCountersAssumption
  <2>5. u[2] = t[2]
    BY <1>3, <2>3, <2>4 DEF IInv, ClientsInv
  <2> QED BY <2>1, <2>5, ConditionIs DEF c
<1>10. WalkInv'
  BY <1>1, <1>5, <1>9, WalkGoesOn
<1>11. DueInv'
  BY <1>1, <1>3, <1>5, <1>6 DEF DueInv
<1>12. SeenInv'
  <2>1. ASSUME ~Stuck', NEW u \in ToSet(list'[k]), IsMade(u)' PROVE Ahead(u)'
    <3>1. u \in ToSet(list[k]) /\ u \in Triggers
      BY <1>4, <2>1, Typed DEF IInv
    <3>2. u \notin Of(c) /\ u # t
      BY <1>3, <1>7, <2>1, <3>1 DEF IsMade
    <3>3. IsMade(u)
      BY <1>1, <1>5, <1>7, <2>1, <3>1 DEF IsMade, ValueOf
    <3> QED BY <1>1, <1>5, <2>1, <3>1, <3>2, <3>3
  <2> QED BY <1>5, <2>1 DEF SeenInv
<1> QED BY <1>6, <1>8, <1>10, <1>11, <1>12 DEF IInv

(* An alarm that goes off.                                                 *)
LEMMA GoOffIInv ==
  ASSUME IInv, Visit, scenario' = scenario, NEW k, NEW t, k = walk.counter, t = walk.node,
         Check(Trigger(t), walk.old, counter[k].value), t \notin Conditions, ~Loops(alarm[t], counter[k].value)
  PROVE  IInv'
<1> DEFINE f == AlarmTriggerFired(alarm[t], counter[k].value)
<1>1. /\ Visited(k, t) /\ k # None /\ t # None
      /\ \A j \in Counters : ~counter[j].beingDestroyed
      /\ dying = None
      /\ UNCHANGED <<open, dying, counter>>
      /\ \A u \in Triggers : IsDue(u) => Ahead(u)
      /\ \A u \in ToSet(list[k]) : IsMade(u) => Ahead(u)
      /\ Trigger(t).counter = k
  BY VisitFacts
<1>2. t \in Alarms /\ k \in Counters /\ t \in Triggers /\ Live(t) /\ t \in ToSet(list[k])
  BY <1>1 DEF Visited, Triggers
<1>3. /\ walk' = [walk EXCEPT !.node = Following(k, t)]
      /\ alarm' = [alarm EXCEPT ![t] = f] /\ UNCHANGED <<await, list, lost>>
  BY DEF Visit
<1>4. /\ f \in Alarm
      /\ f.counter = k /\ f.test = alarm[t].test /\ f.check = alarm[t].check
      /\ f.state # "none"
      /\ f.state = "active" => ~Check(f, counter[k].value, counter[k].value)
  <2>1. alarm[t] \in Alarm /\ counter[k].value \in Values
    BY <1>2, Typed DEF IInv
  <2>2. alarm[t].counter = k /\ alarm[t].state # "none"
    BY <1>1, <1>2 DEF Trigger, Live
  <2> HIDE DEF f
  <2> QED BY <2>1, <2>2, FiredAlarm DEF f
<1> HIDE DEF f
<1>5. \A a \in Alarms : alarm'[a] = IF a = t THEN f ELSE alarm[a]
  BY <1>2, <1>3 DEF IInv, TypeOK
<1>6. \A u \in Triggers : /\ Live(u)' <=> Live(u)
                          /\ u # t => Trigger(u)' = Trigger(u)
                          /\ Trigger(u)'.counter = Trigger(u).counter
  BY <1>1, <1>2, <1>3, <1>4, <1>5 DEF Live, Trigger
<1>7. Trigger(t)' = f
  BY <1>2, <1>5 DEF Trigger
<1>8. list'[k] = list[k] /\ list[k] \in Seq(Triggers)
  BY <1>2, <1>3, Typed DEF IInv
<1>9. /\ walk'.counter = k /\ walk'.old = walk.old
      /\ walk' \in [counter : Counters \cup {None}, node : Triggers \cup {None}, old : Values]
      /\ walk'.node = None \/ walk'.node \in ToSet(list[k])
      /\ Stuck' \/ \A u : Ahead(u) /\ u # t => Ahead(u)'
  BY <1>1, <1>3, StillAheadSame
<1>10. TypeOK'
  <2>1. alarm' \in [Alarms -> Alarm]
    BY <1>2, <1>3, <1>4 DEF IInv, TypeOK
  <2> QED BY <1>1, <1>3, <1>9, <2>1 DEF IInv, TypeOK
<1>11. ListsInv'
  <2>1. \A j \in Counters : \A u \in ToSet(list[j]) : u \in Triggers
    BY Typed DEF IInv
  <2>2. \A j \in Counters : \A u \in ToSet(list[j]) : Belongs(u, j)'
    BY <1>1, <1>3, <1>6, <2>1 DEF IInv, ListsInv, Belongs, Exists, Does
  <2>3. ASSUME NEW u \in Triggers, Live(u)' PROVE Refers(u)'
    <3>1. Refers(u) /\ Trigger(u)'.counter = Trigger(u).counter
      BY <1>6, <2>3 DEF IInv, ListsInv
    <3> QED BY <1>1, <1>3, <3>1 DEF Refers, Counts, Exists, Does
  <2>4. \A a \in Alarms : alarm'[a].state = "none" => alarm'[a].counter = None
    BY <1>4, <1>5 DEF IInv, ListsInv
  <2>5. \A u \in lost : Live(u)' /\ Trigger(u)'.counter # None
    BY <1>6, Typed DEF IInv, ListsInv
  <2> QED BY <1>3, <2>2, <2>3, <2>4, <2>5 DEF IInv, ListsInv, AllOnce
<1>12. ClientsInv' /\ MatchInv'
  BY <1>1, <1>3, <1>4, <1>5 DEF IInv, ClientsInv, MatchInv, Blocked, Does
<1>13. WalkInv'
  BY <1>1, <1>8, <1>9, WalkGoesOn
<1>14. DueInv'
  <2>1. ASSUME NEW u \in Triggers, u # t, IsDue(u)' PROVE IsDue(u)
    BY <1>1, <1>3, <1>6, <2>1 DEF IsDue, ValueOf, Counts, Does
  <2>2. ~IsDue(t)'
    BY <1>1, <1>2, <1>4, <1>7 DEF IsDue, ValueOf
  <2> QED BY <1>1, <1>9, <2>1, <2>2 DEF DueInv
<1>15. SeenInv'
  <2>1. ASSUME ~Stuck', NEW u \in ToSet(list'[k]), IsMade(u)' PROVE Ahead(u)'
    <3>1. u \in ToSet(list[k]) /\ u \in Triggers /\ u # t
      BY <1>2, <1>8, <2>1, Typed DEF IInv, IsMade
    <3>2. IsMade(u)
      BY <1>1, <1>6, <1>9, <2>1, <3>1 DEF IsMade, ValueOf
    <3> QED BY <1>1, <1>9, <2>1, <3>1, <3>2
  <2> QED BY <1>9, <2>1 DEF SeenInv
<1> QED BY <1>10, <1>11, <1>12, <1>13, <1>14, <1>15 DEF IInv

(* An alarm whose loop has no end.                                         *)
LEMMA StoppedIs ==
  ASSUME NEW t \in Triggers
  PROVE  /\ Stopped(t) \in [counter : Counters \cup {None}, node : Triggers \cup {None}, old : Values]
         /\ Stopped(t).counter = None /\ Stopped(t).node = t /\ t # None
BY ValuesAre, SyncCountersAssumption DEF Stopped, Idle

LEMMA LoopIInv ==
  ASSUME IInv, Visit, scenario' = scenario, NEW k, NEW t, k = walk.counter, t = walk.node,
         Check(Trigger(t), walk.old, counter[k].value), t \notin Conditions, Loops(alarm[t], counter[k].value)
  PROVE  IInv'
<1>1. /\ Visited(k, t) /\ k # None /\ t # None
      /\ \A j \in Counters : ~counter[j].beingDestroyed
      /\ UNCHANGED <<open, dying, counter>>
  BY VisitFacts
<1>2. t \in Alarms /\ t \in Triggers /\ k \in Counters
  BY <1>1 DEF Visited, Triggers
<1>3. walk' = Stopped(t) /\ UNCHANGED <<await, alarm, list, lost>>
  BY DEF Visit
<1>4. walk' \in [counter : Counters \cup {None}, node : Triggers \cup {None}, old : Values]
      /\ walk'.counter = None /\ walk'.node # None
  BY <1>2, <1>3, StoppedIs
<1>5. Does("mismatch")
  <2>1. alarm[t] \in Alarm /\ counter[k].value \in Values
    BY <1>2, Typed DEF IInv
  <2>2. alarm[t].check # alarm[t].test
    BY <2>1, LoopEnds
  <2> QED BY <1>2, <2>2 DEF IInv, MatchInv
<1>6. TypeOK'
  BY <1>1, <1>3, <1>4 DEF IInv, TypeOK
<1>7. ListsInv' /\ ClientsInv' /\ MatchInv'
  <2>1. UNCHANGED Triggers0
    BY <1>3 DEF Triggers0
  <2> QED BY <1>1, <1>3, <2>1, ListsStay DEF IInv, ClientsInv, MatchInv, Blocked, Does
<1>8. WalkInv'
  BY <1>1, <1>4, <1>5 DEF WalkInv, Does
<1>9. DueInv' /\ SeenInv'
  BY <1>4 DEF DueInv, SeenInv, Stuck
<1> QED BY <1>6, <1>7, <1>8, <1>9 DEF IInv

LEMMA VisitIInv == IInv /\ Visit /\ scenario' = scenario => IInv'
<1> SUFFICES ASSUME IInv, Visit, scenario' = scenario, NEW k, NEW t, k = walk.counter, t = walk.node PROVE IInv'
  OBVIOUS
<1> QED BY PassIInv, WakeIInv, GoOffIInv, LoopIInv

-----------------------------------------------------------------------------
(* The walk of a counter's end.                                            *)
LEMMA TailIs ==
  ASSUME NEW s \in Seq(Triggers), s # <<>>, Once(s)
  PROVE  /\ Tail(s) \in Seq(Triggers) /\ Once(Tail(s))
         /\ ToSet(Tail(s)) = ToSet(s) \ {Head(s)} /\ Head(s) \in ToSet(s)
<1>1. /\ Tail(s) \in Seq(Triggers) /\ Len(s) \in Nat \ {0} /\ DOMAIN s = 1 .. Len(s)
      /\ DOMAIN Tail(s) = 1 .. Len(s) - 1
      /\ \A i \in 1 .. Len(s) - 1 : Tail(s)[i] = s[i + 1]
      /\ Head(s) = s[1]
  OBVIOUS
<1>2. Once(Tail(s))
  <2> SUFFICES ASSUME NEW i \in DOMAIN Tail(s), NEW j \in DOMAIN Tail(s), Tail(s)[i] = Tail(s)[j] PROVE i = j
    BY DEF Once
  <2>1. i + 1 \in DOMAIN s /\ j + 1 \in DOMAIN s /\ s[i + 1] = s[j + 1]
    BY <1>1
  <2>2. i + 1 = j + 1
    BY <2>1 DEF Once
  <2> QED BY <1>1, <2>2
<1>3. ASSUME NEW i \in DOMAIN Tail(s) PROVE Tail(s)[i] \in ToSet(s) \ {Head(s)}
  <2>1. i + 1 \in DOMAIN s /\ i + 1 # 1 /\ 1 \in DOMAIN s /\ Tail(s)[i] = s[i + 1]
    BY <1>1
  <2> QED BY <1>1, <2>1 DEF ToSet, Once
<1>4. ASSUME NEW i \in DOMAIN s, s[i] # Head(s) PROVE s[i] \in ToSet(Tail(s))
  <2>1. i - 1 \in DOMAIN Tail(s) /\ Tail(s)[i - 1] = s[i]
    BY <1>1, <1>4
  <2> QED BY <2>1 DEF ToSet
<1>5. Head(s) \in ToSet(s)
  BY <1>1 DEF ToSet
<1>6. \A u \in ToSet(Tail(s)) : u \in ToSet(s) /\ u # Head(s)
  BY <1>3 DEF ToSet
<1>7. \A u \in ToSet(s) : u # Head(s) => u \in ToSet(Tail(s))
  BY <1>4 DEF ToSet
<1> QED BY <1>1, <1>2, <1>5, <1>6, <1>7

(* What Tell knows of the trigger that it tells.                           *)
LEMMA TellFacts ==
  ASSUME IInv, Tell, NEW k, NEW t, k = walk.counter, t = Head(list[k])
  PROVE  /\ k \in Counters /\ counter[k].beingDestroyed /\ walk.node = None /\ k # None
         /\ \A j \in Counters : j # k => ~counter[j].beingDestroyed
         /\ list[k] \in Seq(Triggers) /\ list[k] # <<>> /\ Once(list[k])
         /\ t \in ToSet(list[k]) /\ t \in Triggers /\ Live(t) /\ Trigger(t).counter = k
         /\ \A u \in Triggers : ~IsDue(u)
         /\ UNCHANGED <<open, dying, counter, walk>>
<1>1. /\ k # None /\ k \in Counters /\ counter[k].beingDestroyed /\ list[k] # <<>> /\ Live(t)
      /\ UNCHANGED <<open, dying, counter, walk>>
  BY DEF Tell, IInv, TypeOK
<1>2. walk.node = None /\ \A j \in Counters : j # k => ~counter[j].beingDestroyed
  BY <1>1 DEF IInv, WalkInv
<1>3. list[k] \in Seq(Triggers) /\ Once(list[k])
  BY <1>1, Typed DEF IInv, ListsInv, AllOnce
<1>4. t \in ToSet(list[k]) /\ t \in Triggers
  BY <1>1, <1>3, TailIs, Typed DEF IInv
<1>5. Trigger(t).counter = k
  BY <1>1, <1>4 DEF IInv, ListsInv, Belongs
<1>6. \A u \in Triggers : ~IsDue(u)
  BY <1>2 DEF IInv, DueInv, Stuck, Ahead
<1> QED BY <1>1, <1>2, <1>3, <1>4, <1>5, <1>6

LEMMA TellAlarmIInv ==
  ASSUME IInv, Tell, scenario' = scenario, NEW k, NEW t, k = walk.counter, t = Head(list[k]), t \in Alarms
  PROVE  IInv'
<1> DEFINE f == [alarm[t] EXCEPT !.state = "inactive", !.counter = None]
<1>1. /\ k \in Counters /\ counter[k].beingDestroyed /\ walk.node = None /\ k # None
      /\ \A j \in Counters : j # k => ~counter[j].beingDestroyed
      /\ list[k] \in Seq(Triggers) /\ list[k] # <<>> /\ Once(list[k])
      /\ t \in ToSet(list[k]) /\ t \in Triggers /\ Live(t) /\ Trigger(t).counter = k
      /\ \A u \in Triggers : ~IsDue(u)
      /\ UNCHANGED <<open, dying, counter, walk>>
  BY TellFacts
<1>2. /\ alarm' = [alarm EXCEPT ![t] = f] /\ list' = [list EXCEPT ![k] = Tail(@)] /\ UNCHANGED <<await, lost>>
  <2>1. IF t \in Alarms
          THEN /\ alarm' = [alarm EXCEPT ![t].state = "inactive", ![t].counter = None]
               /\ list' = [list EXCEPT ![k] = Tail(@)]
               /\ UNCHANGED <<await, lost>>
          ELSE TRUE
    BY DEF Tell
  <2>2. alarm \in [Alarms -> Alarm]
    BY DEF IInv, TypeOK
  <2> QED BY <2>1, <2>2
<1>3. f \in Alarm /\ f.counter = None /\ f.state = "inactive" /\ f.test = alarm[t].test /\ f.check = alarm[t].check
  <2>1. alarm[t] \in Alarm
    BY Typed DEF IInv
  <2> QED BY <2>1 DEF Alarm
<1> HIDE DEF f
<1>4. \A a \in Alarms : alarm'[a] = IF a = t THEN f ELSE alarm[a]
  BY <1>2 DEF IInv, TypeOK
<1>5. \A j \in Counters : list'[j] = IF j = k THEN Tail(list[k]) ELSE list[j]
  BY <1>2 DEF IInv, TypeOK
<1>6. /\ Tail(list[k]) \in Seq(Triggers) /\ Once(Tail(list[k]))
      /\ ToSet(Tail(list[k])) = ToSet(list[k]) \ {t}
  BY <1>1, TailIs
<1>7. \A u \in Triggers : u # t => (Live(u)' <=> Live(u)) /\ Trigger(u)' = Trigger(u)
  BY <1>2, <1>4 DEF Live, Trigger
<1>8. Trigger(t)' = f /\ Live(t)'
  BY <1>3, <1>4 DEF Trigger, Live
<1>9. TypeOK'
  <2>1. alarm' \in [Alarms -> Alarm]
    BY <1>2, <1>3 DEF IInv, TypeOK
  <2>2. list' \in [Counters -> Seq(Triggers)]
    BY <1>2, <1>6 DEF IInv, TypeOK
  <2> QED BY <1>1, <1>2, <2>1, <2>2 DEF IInv, TypeOK
<1>10. \A j \in Counters : ToSet(list'[j]) = ToSet(list[j]) \ {t}
  <2>1. ASSUME NEW j \in Counters, j # k PROVE t \notin ToSet(list[j])
    BY <1>1, <2>1 DEF IInv, ListsInv, Belongs
  <2> QED BY <1>5, <1>6, <2>1
<1>11. ListsInv'
  <2>1. AllOnce(list')
    BY <1>5, <1>6 DEF AllOnce, IInv, ListsInv
  <2>2. ASSUME NEW j \in Counters, NEW u \in ToSet(list'[j]) PROVE Belongs(u, j)'
    <3>1. u \in ToSet(list[j]) /\ u # t /\ u \in Triggers
      BY <1>10, <2>2, Typed DEF IInv
    <3> QED BY <1>1, <1>2, <1>7, <3>1 DEF IInv, ListsInv, Belongs, Exists, Does
  <2>3. ASSUME NEW u \in Triggers, Live(u)' PROVE Refers(u)'
    <3>1. CASE u = t
      BY <1>3, <1>8, <3>1, SyncCountersAssumption DEF Refers
    <3>2. CASE u # t
      <4>1. Live(u) /\ Trigger(u)' = Trigger(u) /\ (Counts(u)' <=> Counts(u))
        BY <1>2, <1>7, <2>3, <3>2 DEF Counts, Does
      <4>2. Refers(u)
        BY <4>1 DEF IInv, ListsInv
      <4> QED BY <1>1, <1>10, <3>2, <4>1, <4>2 DEF Refers, Exists
    <3> QED BY <3>1, <3>2
  <2>4. \A a \in Alarms : alarm'[a].state = "none" => alarm'[a].counter = None
    BY <1>3, <1>4 DEF IInv, ListsInv
  <2>5. ASSUME NEW u \in lost PROVE Live(u)' /\ Trigger(u)'.counter # None
    <3>1. u # t /\ Live(u) /\ Trigger(u).counter # None
      BY <1>1, <2>5 DEF IInv, ListsInv, Belongs
    <3>2. u \in Triggers
      BY <2>5, Typed DEF IInv
    <3> QED BY <1>7, <3>1, <3>2
  <2> QED BY <1>2, <2>1, <2>2, <2>3, <2>4, <2>5 DEF ListsInv
<1>12. WalkInv' /\ SeenInv'
  <2>1. WalkInv'
    BY <1>1 DEF IInv, WalkInv, Does
  <2>2. SeenInv'
    BY <1>1 DEF SeenInv
  <2> QED BY <2>1, <2>2
<1>13. ClientsInv' /\ MatchInv'
  <2>1. ClientsInv'
    BY <1>1, <1>2 DEF IInv, ClientsInv, Blocked, Does
  <2>2. MatchInv'
    BY <1>3, <1>4 DEF IInv, MatchInv, Does
  <2> QED BY <2>1, <2>2
<1>14. DueInv'
  <2>1. ASSUME NEW u \in Triggers, IsDue(u)' PROVE FALSE
    <3>1. u # t
      BY <1>3, <1>8, <2>1 DEF IsDue
    <3> QED BY <1>1, <1>2, <1>7, <2>1, <3>1 DEF IsDue, ValueOf, Counts, Does
  <2> QED BY <2>1 DEF DueInv
<1> QED BY <1>9, <1>11, <1>12, <1>13, <1>14 DEF IInv

(* A client is told: only one that waits in two ways leaves a condition on *)
(* the list.                                                               *)
LEMMA TellAwaitIInv ==
  ASSUME IInv, Tell, scenario' = scenario, NEW k, NEW t, k = walk.counter, t = Head(list[k]), t \in Conditions
  PROVE  IInv'
<1> DEFINE c == t[1]
<1>1. /\ k \in Counters /\ counter[k].beingDestroyed /\ walk.node = None /\ k # None
      /\ \A j \in Counters : j # k => ~counter[j].beingDestroyed
      /\ list[k] \in Seq(Triggers) /\ list[k] # <<>> /\ Once(list[k])
      /\ t \in ToSet(list[k]) /\ t \in Triggers /\ Live(t) /\ Trigger(t).counter = k
      /\ \A u \in Triggers : ~IsDue(u)
      /\ UNCHANGED <<open, dying, counter, walk>>
  BY TellFacts
<1>2. c \in Clients /\ t \in Of(c) /\ t \notin Alarms
  BY ConditionIs, OfIs
<1>3. /\ await' = [await EXCEPT ![c] = <<>>] /\ alarm' = alarm
      /\ list' = [Without(c) EXCEPT ![k] = Tail(@)] /\ lost' = LostWithout(c)
  BY <1>2 DEF Tell
<1>4. t[2] \in DOMAIN await[c] /\ await[c][t[2]].counter = k
  BY <1>1, ConditionIs
<1> HIDE DEF c
<1>5. /\ Without(c) \in Lists /\ AllOnce(Without(c)) /\ Without(c)[k] = list[k]
      /\ \A j \in Counters : j # k => ToSet(Without(c)[j]) = ToSet(list[j]) \ (Of(c) \cup lost')
      /\ lost' \subseteq Triggers /\ lost' \cap Of(c) = {} /\ lost \ Of(c) \subseteq lost'
      /\ ToSet(list[k]) \cap lost' = {}
      /\ \A u \in lost' : u \in lost \/ \E j \in Counters : ~counter[j].beingDestroyed /\ u \in ToSet(list[j])
  <2>1. Without(c) \in Lists /\ AllOnce(Without(c)) /\ Without(c)[k] = list[k]
    BY <1>1, <1>2, WithoutIs
  <2>2. \A j \in Counters : j # k => ToSet(Without(c)[j]) = ToSet(list[j]) \ (Of(c) \cup LostWithout(c))
    BY <1>1, <1>2, LostIs
  <2>3. ToSet(list[k]) \cap LostWithout(c) = {}
    BY <1>1, <1>2, LostIs
  <2>4. /\ LostWithout(c) \subseteq Triggers /\ LostWithout(c) \cap Of(c) = {} /\ lost \ Of(c) \subseteq LostWithout(c)
        /\ \A u \in LostWithout(c) :
             u \in lost \/ \E j \in Counters : ~counter[j].beingDestroyed /\ u \in ToSet(list[j])
    BY <1>2, LostIs, Zenon
  <2> QED BY <1>3, <2>1, <2>2, <2>3, <2>4
<1>6. /\ Tail(list[k]) \in Seq(Triggers) /\ Once(Tail(list[k]))
      /\ ToSet(Tail(list[k])) = ToSet(list[k]) \ {t}
  BY <1>1, TailIs
<1>7. \A j \in Counters : list'[j] = IF j = k THEN Tail(list[k]) ELSE Without(c)[j]
  BY <1>3, <1>5 DEF Lists
<1>8. list' \in [Counters -> Seq(Triggers)]
  BY <1>3, <1>5, <1>6 DEF Lists
<1>9. /\ await' \in [Clients -> {<<>>} \cup [1 .. 1 -> Condition] \cup [1 .. 2 -> Condition]]
      /\ \A u \in Triggers : /\ Live(u)' <=> Live(u) /\ u \notin Of(c)
                             /\ Live(u)' => Trigger(u)' = Trigger(u)
                             /\ Counts(u)' /\ u \notin Of(c) => Counts(u)
      /\ \A d \in Clients : d # c => await'[d] = await[d]
      /\ await'[c] = <<>>
  <2>1. /\ await' \in [Clients -> {<<>>} \cup [1 .. 1 -> Condition] \cup [1 .. 2 -> Condition]]
        /\ \A u \in Triggers : /\ Live(u)' <=> Live(u) /\ u \notin Of(c)
                               /\ Live(u)' => Trigger(u)' = Trigger(u)
        /\ \A d \in Clients : d # c => await'[d] = await[d]
        /\ await'[c] = <<>>
    BY <1>2, <1>3, AwaitEnds DEF IInv
  <2>2. \A u \in Triggers : Counts(u)' /\ u \notin Of(c) => Counts(u)
    BY <1>5 DEF Counts, Does
  <2> QED BY <2>1, <2>2
<1>10. TypeOK'
  BY <1>1, <1>3, <1>5, <1>8, <1>9 DEF IInv, TypeOK
<1>11. ListsInv'
  <2>1. AllOnce(list')
    BY <1>5, <1>6, <1>7 DEF AllOnce
  <2>2. ASSUME NEW u \in ToSet(list'[k]) PROVE Belongs(u, k)'
    <3>1. u \in ToSet(list[k]) /\ u # t /\ u \in Triggers
      BY <1>1, <1>6, <1>7, <2>2, Typed DEF IInv
    <3>2. Belongs(u, k) /\ u \notin lost'
      BY <1>1, <1>5, <3>1 DEF IInv, ListsInv
    <3>3. CASE u \in Of(c) /\ Live(u)
      <4>1. u \in Conditions /\ u[1] = c
        BY <1>2, <3>3, OfIs
      <4>2. u[2] \in DOMAIN await[c] /\ await[c][u[2]].counter = k
        BY <3>2, <3>3, <4>1, ConditionIs DEF Belongs
      <4>3. u[2] # t[2]
        BY <3>1, <4>1, ConditionIs DEF c
      <4>4. Does("same")
        BY <1>1, <1>2, <1>4, <4>2, <4>3, SyncCountersAssumption DEF IInv, ClientsInv
      <4> QED BY <1>1, <1>9, <3>1, <3>2, <3>3, <4>4 DEF Belongs, Exists, Does
    <3>4. CASE ~(u \in Of(c) /\ Live(u))
      BY <1>1, <1>9, <3>1, <3>2, <3>4 DEF Belongs, Exists, Does
    <3> QED BY <3>3, <3>4
  <2>3. ASSUME NEW j \in Counters, j # k, NEW u \in ToSet(list'[j]) PROVE Belongs(u, j)'
    <3>1. u \in ToSet(list[j]) /\ u \notin Of(c) /\ u \notin lost'
      BY <1>5, <1>7, <2>3
    <3>2. u \in Triggers /\ Belongs(u, j)
      BY <3>1, Typed DEF IInv, ListsInv
    <3> QED BY <1>1, <1>9, <3>1, <3>2 DEF Belongs, Exists, Does
  <2>4. ASSUME NEW u \in Triggers, Live(u)' PROVE Refers(u)'
    <3>1. Live(u) /\ Trigger(u)' = Trigger(u) /\ u \notin Of(c) /\ u # t
          /\ (Counts(u)' => Counts(u) /\ u \notin lost')
      BY <1>2, <1>9, <2>4 DEF Counts
    <3>2. Refers(u)
      BY <3>1 DEF IInv, ListsInv
    <3>3. \A j \in Counters : u \in ToSet(list[j]) /\ u \notin lost' => u \in ToSet(list'[j])
      BY <1>5, <1>6, <1>7, <3>1
    <3> QED BY <1>1, <3>1, <3>2, <3>3 DEF Refers, Exists
  <2>5. \A a \in Alarms : alarm'[a].state = "none" => alarm'[a].counter = None
    BY <1>3 DEF IInv, ListsInv
  <2>6. ASSUME NEW u \in lost' PROVE Live(u)' /\ Trigger(u)'.counter # None
    <3>1. u \in Triggers /\ u \notin Of(c)
      BY <1>5, <2>6
    <3>2. Live(u) /\ Trigger(u).counter # None
      <4>1. CASE u \in lost
        BY <4>1 DEF IInv, ListsInv
      <4>2. ASSUME NEW j \in Counters, ~counter[j].beingDestroyed, u \in ToSet(list[j])
            PROVE  Live(u) /\ Trigger(u).counter # None
        BY <4>2, SyncCountersAssumption DEF IInv, ListsInv, Belongs
      <4> QED BY <1>5, <2>6, <4>1, <4>2
    <3> QED BY <1>9, <3>1, <3>2
  <2> QED BY <1>1, <2>1, <2>2, <2>3, <2>4, <2>5, <2>6 DEF ListsInv
<1>12. WalkInv' /\ SeenInv' /\ MatchInv'
  BY <1>1, <1>3, SyncCountersAssumption DEF IInv, WalkInv, SeenInv, MatchInv, Does
<1>13. ClientsInv'
  <2>1. \A d \in Clients : Blocked(d)' => open'[d] \/ dying' = d
    BY <1>1, <1>9 DEF IInv, ClientsInv, Blocked
  <2>2. ~Does("own")' => \A d \in Clients : \A i \in DOMAIN await'[d] :
                           await'[d][i].counter # Freed => counter'[await'[d][i].counter].owner # d
    BY <1>1, <1>9 DEF IInv, ClientsInv, Does
  <2>3. ~Does("same")' => \A d \in Clients : \A i, j \in DOMAIN await'[d] :
                            await'[d][i].counter # Freed /\ await'[d][i].counter = await'[d][j].counter => i = j
    BY <1>1, <1>9 DEF IInv, ClientsInv, Does
  <2> QED BY <2>1, <2>2, <2>3 DEF ClientsInv
<1>14. DueInv'
  <2>1. ASSUME NEW u \in Triggers, IsDue(u)' PROVE IsDue(u)
    BY <1>1, <1>9, <2>1 DEF IsDue, ValueOf, Does
  <2> QED BY <1>1, <2>1 DEF DueInv
<1> QED BY <1>10, <1>11, <1>12, <1>13, <1>14 DEF IInv

LEMMA TellIInv == IInv /\ Tell /\ scenario' = scenario => IInv'
<1> SUFFICES ASSUME IInv, Tell, scenario' = scenario, NEW k, NEW t, k = walk.counter, t = Head(list[k])
             PROVE  IInv'
  OBVIOUS
<1>1. t \in Alarms \/ t \in Conditions
  <2>1. t \in Triggers
    BY TellFacts
  <2> QED BY <2>1 DEF Triggers
<1> QED BY <1>1, TellAlarmIInv, TellAwaitIInv

-----------------------------------------------------------------------------
(* Requests about alarms.                                                  *)

\* The alarm has not gone past what it waits for.
NotDue(al) ==
  al.state = "active" /\ al.check \in Comparisons /\ ~Does("overflow") =>
    al.counter # None /\ ~Check(al, ValueOf(al.counter), ValueOf(al.counter))

\* What all of them do: the alarm becomes al, and its trigger leaves its
\* list for that of the counter to.
AlarmSet(a, al, to) ==
  /\ walk = Idle
  /\ alarm' = [alarm EXCEPT ![a] = al] /\ al \in Alarm
  /\ al.state = "none" => al.counter = None
  /\ Does("mismatch") \/ al.check = al.test
  /\ alarm[a].counter # Freed /\ al.counter # Freed
  /\ al.counter \in {None, alarm[a].counter} \/ Exists(al.counter)
  /\ list' = Listed(a, alarm[a].counter, to) /\ lost' = LostListed(a, alarm[a].counter, to)
  /\ to \in {None, al.counter} /\ (to # al.counter => Does("overflow"))
  /\ (walk' = walk /\ (NotDue(al) \/ a \in lost')) \/ (walk' = Stopped(a) /\ Does("mismatch"))
  /\ UNCHANGED <<open, dying, counter, await, scenario>>

(* The lists after an alarm has moved: what was in front of it is lost.    *)
LEMMA ListedIs ==
  ASSUME IInv, NEW a \in Alarms, NEW from, NEW to, from # to,
         \A j \in Counters : a \in ToSet(list[j]) => j = from
  PROVE  LET ls == Listed(a, from, to)
             lo == LostListed(a, from, to)
         IN  /\ ls \in Lists /\ AllOnce(ls)
             /\ lo \subseteq Triggers \ {a} /\ lost \ {a} \subseteq lo
             /\ \A u \in lo : u \in lost \/ \E j \in Counters : u \in ToSet(list[j])
             /\ \A j \in Counters : \A u : u \in ToSet(ls[j]) <=>
                  (u \in ToSet(list[j]) /\ u # a /\ u \notin lo) \/ (j = to /\ u = a)
<1> DEFINE d == SyncDeleteTriggerFromCounter(list, a, from)
           e == SyncAddTriggerToCounter(d, a, to)
           lo == LostListed(a, from, to)
<1>1. a \in Triggers /\ list \in Lists /\ AllOnce(list) /\ lost \subseteq Triggers
  BY Typed DEF IInv, ListsInv, Triggers
<1>2. Listed(a, from, to) = e
  BY DEF Listed
<1>3. \A j \in Counters : list[j] \in Seq(Triggers) /\ Once(list[j]) /\ ToSet(list[j]) \subseteq Triggers
  BY <1>1, Typed DEF AllOnce, IInv
<1>4. /\ d \in Lists /\ AllOnce(d)
      /\ \A k \in Counters :
           /\ Suffix(d[k], list[k]) /\ (k # from => d[k] = list[k])
           /\ \A u : u \in ToSet(d[k]) <=>
                       u \in ToSet(list[k]) /\ (k = from /\ a \in ToSet(list[k]) => Before(list[k], a, u))
  BY <1>1, DeleteIs, Zenon
<1> HIDE DEF d
<1>5. d \in Lists /\ AllOnce(d)
  BY <1>4
<1>6. /\ e \in Lists /\ AllOnce(e)
      /\ \A k \in Counters : \A u : u \in ToSet(e[k]) <=> u \in ToSet(d[k]) \/ (k = to /\ u = a)
  BY <1>1, <1>5, AddIs
<1> HIDE DEF e
<1>7. \A u : u \in lo <=> u # a /\ (u \in lost \/ u \in Dropped(a, from))
  BY DEF LostListed
<1> HIDE DEF lo
<1>8. \A u : u \in Dropped(a, from) <=> from \in Counters /\ Before(list[from], u, a)
  <2>1. CASE from \in Counters
    BY <1>3, <2>1, BehindIs DEF Dropped
  <2>2. CASE from \notin Counters
    BY <2>2 DEF Dropped
  <2> QED BY <2>1, <2>2
<1>9. \A u \in Dropped(a, from) : from \in Counters /\ u \in ToSet(list[from])
  BY <1>3, <1>8, OrderIs
<1>10. /\ lo \subseteq Triggers \ {a} /\ lost \ {a} \subseteq lo
       /\ \A u \in lo : u \in lost \/ \E j \in Counters : u \in ToSet(list[j])
  BY <1>1, <1>3, <1>7, <1>9
<1>11. ASSUME NEW j \in Counters, NEW u
       PROVE  u \in ToSet(d[j]) <=> u \in ToSet(list[j]) /\ u # a /\ u \notin lo
  <2>1. CASE u \notin ToSet(list[j])
    BY <1>4, <2>1
  <2>2. CASE u \in ToSet(list[j]) /\ u = a
    <3>1. j = from /\ ~Before(list[j], a, a)
      BY <1>3, <2>2, OrderIs
    <3> QED BY <1>4, <2>2, <3>1
  <2>3. CASE u \in ToSet(list[j]) /\ u # a
    <3>1. u \notin lost
      BY <2>3 DEF IInv, ListsInv, Belongs
    <3>2. u \in Dropped(a, from) => j = from
      BY <1>9, <2>3, OneList
    <3>3. CASE j # from
      BY <1>4, <1>7, <2>3, <3>1, <3>2, <3>3
    <3>4. CASE j = from
      <4>1. u \in ToSet(d[j]) <=> (a \in ToSet(list[j]) => Before(list[j], a, u))
        BY <1>4, <2>3, <3>4
      <4>2. u \in lo <=> Before(list[j], u, a)
        BY <1>7, <1>8, <2>3, <3>1, <3>4
      <4>3. (a \in ToSet(list[j]) => Before(list[j], a, u)) <=> ~Before(list[j], u, a)
        BY <1>3, <2>3, OrderIs
      <4> QED BY <2>3, <4>1, <4>2, <4>3
    <3> QED BY <3>3, <3>4
  <2> QED BY <2>1, <2>2, <2>3
<1>12. \A j \in Counters : \A u : u \in ToSet(e[j]) <=>
         (u \in ToSet(list[j]) /\ u # a /\ u \notin lo) \/ (j = to /\ u = a)
  BY <1>6, <1>11
<1>13. /\ e \in Lists /\ AllOnce(e)
       /\ lo \subseteq Triggers \ {a} /\ lost \ {a} \subseteq lo
       /\ \A u \in lo : u \in lost \/ \E j \in Counters : u \in ToSet(list[j])
       /\ \A j \in Counters : \A u : u \in ToSet(e[j]) <=>
            (u \in ToSet(list[j]) /\ u # a /\ u \notin lo) \/ (j = to /\ u = a)
  BY <1>6, <1>10, <1>12
<1> QED BY <1>2, <1>13 DEF lo

LEMMA AlarmSetIInv ==
  ASSUME IInv, NEW a \in Alarms, NEW al, NEW to, AlarmSet(a, al, to)
  PROVE  IInv'
<1> DEFINE from == alarm[a].counter
<1>1. /\ walk = Idle
      /\ alarm' = [alarm EXCEPT ![a] = al] /\ al \in Alarm
      /\ al.state = "none" => al.counter = None
      /\ Does("mismatch") \/ al.check = al.test
      /\ from # Freed /\ al.counter # Freed
      /\ al.counter \in {None, from} \/ Exists(al.counter)
      /\ list' = Listed(a, from, to) /\ lost' = LostListed(a, from, to)
      /\ to \in {None, al.counter} /\ (to # al.counter => Does("overflow"))
      /\ (walk' = walk /\ (NotDue(al) \/ a \in lost')) \/ (walk' = Stopped(a) /\ Does("mismatch"))
      /\ UNCHANGED <<open, dying, counter, await, scenario>>
  BY DEF AlarmSet
<1>2. a \in Triggers /\ list \in Lists /\ AllOnce(list) /\ TypeOK
  BY Typed DEF IInv, ListsInv, Triggers
<1>3. \A j \in Counters : a \in ToSet(list[j]) => j = from /\ Exists(j) /\ alarm[a].state # "none"
  BY <1>1, IdleIs DEF Trigger, Live
<1>4. /\ from \in Counters => Exists(from) /\ alarm[a].state # "none"
      /\ from \in Counters /\ Counts(a) => a \in ToSet(list[from])
      /\ a \in lost => from # None
  <2>1. Trigger(a) = alarm[a] /\ (Live(a) <=> alarm[a].state # "none")
    BY DEF Trigger, Live
  <2>2. from # None => Live(a)
    BY <2>1 DEF IInv, ListsInv
  <2>3. Live(a) => Refers(a)
    BY <1>2 DEF IInv, ListsInv
  <2>4. a \in lost => from # None
    BY <2>1 DEF IInv, ListsInv
  <2>5. from \in Counters => from # None
    BY SyncCountersAssumption
  <2> QED BY <2>1, <2>2, <2>3, <2>4, <2>5 DEF Refers
<1> HIDE DEF from
<1>5. /\ list' \in Lists /\ AllOnce(list') /\ lost' \subseteq Triggers /\ lost \ {a} \subseteq lost'
      /\ \A u \in lost' : u \in lost \/ \E j \in Counters : u \in ToSet(list[j])
      /\ \A j \in Counters : \A u : u # a => (u \in ToSet(list'[j]) <=> u \in ToSet(list[j]) /\ u \notin lost')
      /\ \A j \in Counters : a \in ToSet(list'[j]) => j = to
      /\ a \in lost' => from = to /\ a \in lost
      /\ IF from = to THEN list' = list /\ lost' = lost
                      ELSE to \in Counters => a \in ToSet(list'[to])
  <2>1. CASE from = to
    <3>1. list' = list /\ lost' = lost
      BY <1>1, <2>1 DEF Listed, LostListed
    <3>2. \A j \in Counters : \A u \in ToSet(list[j]) : u \notin lost
      BY DEF IInv, ListsInv, Belongs
    <3>3. lost \subseteq Triggers
      BY <1>2, Typed
    <3> QED BY <1>2, <1>3, <2>1, <3>1, <3>2, <3>3
  <2>2. CASE from # to
    <3>1. LET ls == Listed(a, from, to)
              lo == LostListed(a, from, to)
          IN  /\ ls \in Lists /\ AllOnce(ls)
              /\ lo \subseteq Triggers \ {a} /\ lost \ {a} \subseteq lo
              /\ \A u \in lo : u \in lost \/ \E j \in Counters : u \in ToSet(list[j])
              /\ \A j \in Counters : \A u : u \in ToSet(ls[j]) <=>
                   (u \in ToSet(list[j]) /\ u # a /\ u \notin lo) \/ (j = to /\ u = a)
      BY <1>3, <2>2, ListedIs, Zenon
    <3>2. /\ list' \in Lists /\ AllOnce(list')
          /\ lost' \subseteq Triggers \ {a} /\ lost \ {a} \subseteq lost'
          /\ \A u \in lost' : u \in lost \/ \E j \in Counters : u \in ToSet(list[j])
          /\ \A j \in Counters : \A u : u \in ToSet(list'[j]) <=>
               (u \in ToSet(list[j]) /\ u # a /\ u \notin lost') \/ (j = to /\ u = a)
      BY <1>1, <3>1
    <3> QED BY <2>2, <3>2
  <2> QED BY <2>1, <2>2
<1>6. \A b \in Alarms : alarm'[b] = IF b = a THEN al ELSE alarm[b]
  BY <1>1, <1>2 DEF TypeOK
<1>7. \A u \in Triggers : u # a => (Live(u)' <=> Live(u)) /\ Trigger(u)' = Trigger(u)
  BY <1>1, <1>6 DEF Live, Trigger
<1>8. Trigger(a)' = al /\ (Live(a)' <=> al.state # "none")
  BY <1>6 DEF Trigger, Live
<1>9. \A u : (u # a => (Counts(u)' => Counts(u) /\ u \notin lost')) /\ (Counts(u)' <=> u \notin lost' /\ (u \in Alarms => ~Does("overflow")))
  BY <1>1, <1>5 DEF Counts, Does
<1>10. TypeOK'
  <2>1. alarm' \in [Alarms -> Alarm]
    BY <1>1, <1>2 DEF TypeOK
  <2>2. walk' \in [counter : Counters \cup {None}, node : Triggers \cup {None}, old : Values]
    BY <1>1, <1>2, StoppedIs DEF TypeOK
  <2> QED BY <1>1, <1>2, <1>5, <2>1, <2>2 DEF TypeOK, Lists
<1>11. ListsInv'
  <2>1. ASSUME NEW j \in Counters, NEW u \in ToSet(list'[j]) PROVE Belongs(u, j)'
    <3>1. CASE u = a
      <4>1. j = to
        BY <1>5, <2>1, <3>1
      <4>2. to = al.counter /\ al.state # "none"
        BY <1>1, <4>1, SyncCountersAssumption
      <4>3. Exists(j)
        BY <1>1, <1>4, <4>1, <4>2, SyncCountersAssumption
      <4>4. a \notin lost'
        BY <1>5, <2>1, <3>1 DEF IInv, ListsInv, Belongs
      <4> QED BY <1>1, <1>8, <3>1, <4>1, <4>2, <4>3, <4>4 DEF Belongs, Exists
    <3>2. CASE u # a
      <4>1. u \in ToSet(list[j]) /\ u \notin lost'
        BY <1>5, <2>1, <3>2
      <4>2. u \in Triggers /\ Belongs(u, j)
        BY <1>2, <4>1, Typed DEF IInv, ListsInv
      <4> QED BY <1>1, <1>7, <3>2, <4>1, <4>2 DEF Belongs, Exists, Does
    <3> QED BY <3>1, <3>2
  <2>2. ASSUME NEW u \in Triggers, Live(u)' PROVE Refers(u)'
    <3>1. CASE u = a
      <4>1. al.counter \in Counters => Exists(al.counter)'
        BY <1>1, <1>4, SyncCountersAssumption DEF Exists
      <4>2. ASSUME Counts(a)', al.counter # None PROVE al.counter \in Counters /\ a \in ToSet(list'[al.counter])
        <5>1. al.counter \in Counters /\ to = al.counter
          BY <1>1, <1>9, <4>2 DEF Alarm
        <5>2. CASE from = to
          BY <1>4, <1>5, <1>9, <4>2, <5>1, <5>2 DEF Counts
        <5>3. CASE from # to
          BY <1>5, <5>1, <5>3
        <5> QED BY <5>1, <5>2, <5>3
      <4> QED BY <1>8, <3>1, <4>1, <4>2 DEF Refers
    <3>2. CASE u # a
      <4>1. Live(u) /\ Trigger(u)' = Trigger(u) /\ (Counts(u)' => Counts(u) /\ u \notin lost')
        BY <1>7, <1>9, <2>2, <3>2
      <4>2. Refers(u)
        BY <4>1 DEF IInv, ListsInv
      <4> QED BY <1>1, <1>5, <3>2, <4>1, <4>2 DEF Refers, Exists
    <3> QED BY <3>1, <3>2
  <2>3. ASSUME NEW u \in lost' PROVE Live(u)' /\ Trigger(u)'.counter # None
    <3>1. CASE u = a
      BY <1>1, <1>4, <1>5, <1>8, <2>3, <3>1
    <3>2. CASE u # a
      <4>1. CASE u \in lost
        BY <1>5, <1>7, <2>3, <3>2, <4>1 DEF IInv, ListsInv
      <4>2. ASSUME NEW j \in Counters, u \in ToSet(list[j]) PROVE Live(u) /\ Trigger(u).counter # None
        BY <1>1, <4>2, IdleIs, SyncCountersAssumption
      <4> QED BY <1>5, <1>7, <2>3, <3>2, <4>1, <4>2
    <3> QED BY <3>1, <3>2
  <2>4. \A b \in Alarms : alarm'[b].state = "none" => alarm'[b].counter = None
    BY <1>1, <1>6 DEF IInv, ListsInv
  <2> QED BY <1>5, <2>1, <2>2, <2>3, <2>4 DEF ListsInv
<1>12. WalkInv' /\ SeenInv'
  <2>1. walk'.counter = None
    BY <1>1, <1>2, StoppedIs DEF Idle
  <2> QED BY <1>1, <2>1, IdleIs DEF WalkInv, SeenInv, Does
<1>13. ClientsInv' /\ MatchInv'
  BY <1>1, <1>6 DEF IInv, ClientsInv, MatchInv, Blocked, Does
<1>14. DueInv'
  <2>1. CASE walk' = Stopped(a)
    BY <1>2, <2>1, StoppedIs DEF DueInv, Stuck
  <2>2. CASE NotDue(al) \/ a \in lost'
    <3>1. ASSUME NEW u \in Triggers, IsDue(u)' PROVE FALSE
      <4>1. CASE u = a
        <5>1. a \notin lost' /\ NotDue(al) /\ ~Does("overflow")
          BY <1>9, <2>2, <3>1, <4>1 DEF IsDue
        <5> QED BY <1>1, <1>8, <3>1, <4>1, <5>1 DEF IsDue, NotDue, ValueOf
      <4>2. CASE u # a
        <5>1. Live(u) /\ Trigger(u)' = Trigger(u) /\ Counts(u)
          BY <1>7, <1>9, <3>1, <4>2 DEF IsDue
        <5>2. IsDue(u)
          BY <1>1, <3>1, <5>1 DEF IsDue, ValueOf
        <5> QED BY <1>1, <5>2, IdleIs
      <4> QED BY <4>1, <4>2
    <3> QED BY <3>1 DEF DueInv
  <2> QED BY <1>1, <2>1, <2>2
<1> QED BY <1>10, <1>11, <1>12, <1>13, <1>14 DEF IInv

(* See if an alarm is triggered already: then it is not, if this ends.     *)
LEMMA StartedIs ==
  ASSUME TypeOK, NEW al \in Alarm, al.counter # Freed, ~(Triggered(al) /\ Loops(al, Value(al.counter)))
  PROVE  /\ Started(al) \in Alarm
         /\ Started(al).counter = al.counter
         /\ Started(al).test = al.test /\ Started(al).check = al.check
         /\ Started(al).state = "none" <=> al.state = "none"
         /\ NotDue(Started(al))
<1>1. Value(al.counter) \in Values
  BY ValuesAre, Typed DEF Value, Alarm
<1>2. CASE Triggered(al)
  <2> DEFINE f == AlarmTriggerFired(al, Value(al.counter))
  <2>1. Started(al) = f
    BY <1>2 DEF Started
  <2>2. /\ f \in Alarm
        /\ f.counter = al.counter /\ f.test = al.test /\ f.check = al.check
        /\ f.state = "none" <=> al.state = "none"
        /\ f.state = "active" => f.counter # None /\ ~Check(f, Value(al.counter), Value(al.counter))
    <3> DEFINE v == Value(al.counter)
    <3>1. v \in Values /\ ~Loops(al, v)
      BY <1>1, <1>2
    <3> HIDE DEF v
    <3>2. LET g == AlarmTriggerFired(al, v)
          IN  /\ g \in Alarm
              /\ g.counter = al.counter /\ g.test = al.test /\ g.check = al.check
              /\ g.state = "none" <=> al.state = "none"
              /\ g.state = "active" => g.counter # None /\ ~Check(g, v, v)
      BY <3>1, FiredAlarm
    <3> QED BY <3>2 DEF v
  <2> HIDE DEF f
  <2>3. NotDue(f)
    BY <2>2 DEF NotDue, ValueOf, Value
  <2> QED BY <2>1, <2>2, <2>3
<1>3. CASE ~Triggered(al)
  BY <1>3 DEF Started, Triggered, NotDue, ValueOf, Value
<1> QED BY <1>2, <1>3

LEMMA TestValuesTyped ==
  ASSUME TypeOK, NEW k \in Counters
  PROVE  TestValues(k) \subseteq Values
<1>1. counter[k].value \in Values
  BY Typed
<1>2. \A w \in WaitValues : XSyncValueAdd(counter[k].value, w).value \in Values
  BY <1>1, AddTyped, SyncCountersAssumption
<1> QED BY <1>2, SyncCountersAssumption DEF TestValues

LEMMA CreateAlarmIInv ==
  ASSUME IInv, NEW c \in Clients, NEW a \in Alarms, NEW k \in Counters \cup {None}, NEW y \in TestTypes,
         NEW v \in Values, NEW d \in Values, scenario' = scenario,
         CreateAlarm(c, a, [state |-> "active", owner |-> None, counter |-> k,
                            test |-> y, check |-> y, value |-> v, delta |-> d])
  PROVE  IInv'
<1> DEFINE al0 == [state |-> "active", owner |-> None, counter |-> k,
                   test |-> y, check |-> y, value |-> v, delta |-> d]
           al  == [al0 EXCEPT !.owner = c]
<1>1. /\ walk = Idle /\ alarm[a].state = "none" /\ (k # None => Exists(k))
      /\ alarm' = [alarm EXCEPT ![a] = Started(al)]
      /\ list' = Listed(a, None, k) /\ lost' = LostListed(a, None, k)
      /\ UNCHANGED <<open, dying, counter, await, walk, scenario>>
  <2>1. CreateAlarm(c, a, al0) /\ al0.counter = k
    OBVIOUS
  <2> HIDE DEF al0
  <2> QED BY <2>1 DEF CreateAlarm, Runs
<1>2. al \in Alarm /\ al.counter = k /\ k # Freed /\ al.check = al.test /\ al.state = "active"
  <2>1. /\ al0 \in Alarm /\ al0.counter = k /\ al0.check = y /\ al0.test = y /\ al0.state = "active"
    BY DEF Alarm
  <2>2. k # Freed
    BY SyncCountersAssumption
  <2> HIDE DEF al0
  <2> QED BY <2>1, <2>2 DEF Alarm
<1>3. TypeOK
  BY DEF IInv
<1> HIDE DEF al
<1>4. Value(al.counter) \in Values
  BY <1>2, <1>3, ValuesAre, Typed DEF Value
<1>5. ~Loops(al, Value(al.counter))
  BY <1>2, <1>4, LoopEnds
<1>6. alarm[a].counter = None
  BY <1>1 DEF IInv, ListsInv
<1> DEFINE f == Started(al)
<1>7. f \in Alarm /\ f.counter = k /\ f.check = f.test /\ f.state # "none" /\ NotDue(f)
  BY <1>2, <1>3, <1>5, StartedIs
<1> HIDE DEF f
<1>8. AlarmSet(a, f, k)
  BY <1>1, <1>2, <1>6, <1>7, SyncCountersAssumption DEF AlarmSet, f
<1> QED BY <1>8, AlarmSetIInv

\* The attributes of a request.
ToTyped(to) ==
  to.counter \in Counters \cup {None} /\ to.test \in TestTypes /\ to.value \in Values /\ to.delta \in Values

LEMMA InitializedIs ==
  ASSUME NEW al \in Alarm, NEW m, NEW to, ToTyped(to)
  PROVE  /\ Stored(al, m, to) \in Alarm
         /\ Stored(al, m, to).state = al.state /\ Stored(al, m, to).counter = al.counter
         /\ Stored(al, m, to).check = al.check /\ Stored(al, m, to).value = al.value
         /\ Initialized(al, m, to) \in Alarm
         /\ Initialized(al, m, to).state = al.state
         /\ Initialized(al, m, to).counter = (IF "counter" \in m THEN to.counter ELSE al.counter)
         /\ al.check = al.test => Initialized(al, m, to).check = Initialized(al, m, to).test
<1> DEFINE s == Stored(al, m, to)
           i == Initialized(al, m, to)
<1>1. /\ s \in Alarm /\ s.state = al.state /\ s.counter = al.counter
      /\ s.check = al.check /\ s.value = al.value
      /\ s.test = IF "test" \in m THEN to.test ELSE al.test
  BY DEF Stored, Alarm, ToTyped
<1>2. i = [s EXCEPT !.counter = IF "counter" \in m THEN to.counter ELSE @,
                    !.check = IF "test" \in m THEN to.test ELSE @]
  BY DEF Initialized
<1> HIDE DEF s, i
<1>3. /\ i \in Alarm /\ i.state = al.state /\ i.test = s.test
      /\ i.counter = (IF "counter" \in m THEN to.counter ELSE al.counter)
      /\ i.check = IF "test" \in m THEN to.test ELSE al.check
  BY <1>1, <1>2 DEF Alarm, ToTyped
<1> QED BY <1>1, <1>3 DEF s, i

LEMMA ChangeAlarmIInv ==
  ASSUME IInv, NEW c \in Clients, NEW a \in Alarms, NEW m, NEW to, ToTyped(to),
         ChangeAlarm(c, a, m, to), scenario' = scenario
  PROVE  IInv'
<1> DEFINE init == Initialized(alarm[a], m, to)
           al   == [init EXCEPT !.value = IF "value" \in m THEN to.value ELSE @, !.state = "active"]
           hang == Triggered(al) /\ Loops(al, Value(al.counter))
<1>1. /\ walk = Idle /\ Usable(a) /\ ~BadCounter(m, to)
      /\ IF hang THEN alarm' = [alarm EXCEPT ![a] = al] /\ walk' = Stopped(a)
                 ELSE alarm' = [alarm EXCEPT ![a] = Started(al)] /\ walk' = walk
      /\ list' = Listed(a, alarm[a].counter, init.counter)
      /\ lost' = LostListed(a, alarm[a].counter, init.counter)
      /\ UNCHANGED <<open, dying, counter, await, scenario>>
  BY DEF ChangeAlarm, Runs
<1>2. TypeOK /\ alarm[a] \in Alarm
  BY Typed DEF IInv
<1>3. /\ init \in Alarm /\ init.counter = (IF "counter" \in m THEN to.counter ELSE alarm[a].counter)
      /\ Does("mismatch") \/ init.check = init.test
  BY <1>2, InitializedIs DEF IInv, MatchInv
<1>4. /\ init.counter \in {None, alarm[a].counter} \/ Exists(init.counter)
      /\ alarm[a].counter # Freed /\ init.counter # Freed
  BY <1>1, <1>3, SyncCountersAssumption DEF BadCounter, Usable, ToTyped
<1> HIDE DEF init
<1>5. al \in Alarm /\ al.counter = init.counter /\ al.state = "active" /\ al.check = init.check /\ al.test = init.test
  BY <1>3 DEF Alarm, ToTyped
<1> HIDE DEF al
<1>6. Value(al.counter) \in Values
  BY <1>2, <1>4, <1>5, ValuesAre, Typed DEF Value, Alarm
<1>7. CASE hang
  <2>1. Does("mismatch")
    BY <1>3, <1>5, <1>6, <1>7, LoopEnds
  <2>2. AlarmSet(a, al, al.counter)
    BY <1>1, <1>4, <1>5, <1>7, <2>1 DEF AlarmSet
  <2> QED BY <2>2, AlarmSetIInv
<1>8. CASE ~hang
  <2> DEFINE f == Started(al)
  <2>1. /\ f \in Alarm /\ f.counter = al.counter /\ f.state # "none" /\ NotDue(f)
        /\ f.check = al.check /\ f.test = al.test
    BY <1>2, <1>4, <1>5, <1>8, StartedIs
  <2> HIDE DEF f
  <2>2. AlarmSet(a, f, al.counter)
    BY <1>1, <1>3, <1>4, <1>5, <1>8, <2>1 DEF AlarmSet, f
  <2> QED BY <2>2, AlarmSetIInv
<1> QED BY <1>7, <1>8

LEMMA ChangeAlarmMismatchIInv ==
  ASSUME IInv, NEW c \in Clients, NEW a \in Alarms, NEW m, NEW to, ToTyped(to),
         ChangeAlarmMismatch(c, a, m, to), scenario' = scenario
  PROVE  IInv'
<1> DEFINE al == Stored(alarm[a], m, to)
<1>1. /\ walk = Idle /\ Does("mismatch") /\ Usable(a) /\ alarm' = [alarm EXCEPT ![a] = al]
      /\ UNCHANGED <<open, dying, counter, await, list, lost, walk, scenario>>
  BY DEF ChangeAlarmMismatch, Runs
<1>2. alarm[a] \in Alarm
  BY Typed DEF IInv
<1>3. /\ al \in Alarm /\ al.state = alarm[a].state /\ al.counter = alarm[a].counter
      /\ al.check = alarm[a].check /\ al.value = alarm[a].value
  BY <1>2, InitializedIs
<1> HIDE DEF al
<1>4. /\ list' = Listed(a, alarm[a].counter, al.counter)
      /\ lost' = LostListed(a, alarm[a].counter, al.counter) /\ lost' = lost
  BY <1>1, <1>3 DEF Listed, LostListed
<1>5. NotDue(al) \/ a \in lost
  <2>1. ~IsDue(a)
    BY <1>1, IdleIs DEF Triggers
  <2>2. Live(a) <=> alarm[a].state # "none"
    BY DEF Live
  <2>3. Trigger(a) = alarm[a]
    BY DEF Trigger
  <2> QED BY <1>3, <2>1, <2>2, <2>3 DEF NotDue, IsDue, Counts, Check
<1>6. al.state = "none" => al.counter = None
  BY <1>3 DEF IInv, ListsInv
<1>7. AlarmSet(a, al, al.counter)
  BY <1>1, <1>3, <1>4, <1>5, <1>6 DEF AlarmSet, Usable
<1> QED BY <1>7, AlarmSetIInv

LEMMA ChangeAlarmOverflowIInv ==
  ASSUME IInv, NEW c \in Clients, NEW a \in Alarms, NEW m, NEW to, ToTyped(to),
         ChangeAlarmOverflow(c, a, m, to), scenario' = scenario
  PROVE  IInv'
<1> DEFINE init == Initialized(alarm[a], m, to)
           sum  == XSyncValueAdd(counter[init.counter].value, to.value)
           al   == IF init.counter = None THEN init ELSE [init EXCEPT !.value = sum.value]
           dest == IF init.counter = alarm[a].counter THEN init.counter ELSE None
<1>1. /\ walk = Idle /\ Does("overflow") /\ Usable(a) /\ alarm' = [alarm EXCEPT ![a] = al]
      /\ ~BadCounter(m, to)
      /\ IF init.counter = alarm[a].counter THEN list' = list /\ lost' = lost
         ELSE /\ list' = Listed(a, alarm[a].counter, None)
              /\ lost' = LostListed(a, alarm[a].counter, None)
      /\ UNCHANGED <<open, dying, counter, await, walk, scenario>>
  BY DEF ChangeAlarmOverflow, Runs
<1>2. TypeOK /\ alarm[a] \in Alarm
  BY Typed DEF IInv
<1>3. /\ init \in Alarm /\ init.state = alarm[a].state /\ (Does("mismatch") \/ init.check = init.test)
      /\ init.counter = (IF "counter" \in m THEN to.counter ELSE alarm[a].counter)
  BY <1>2, InitializedIs DEF IInv, MatchInv
<1>10. /\ init.counter \in {None, alarm[a].counter} \/ Exists(init.counter)
      /\ alarm[a].counter # Freed /\ init.counter # Freed
  BY <1>1, <1>3, SyncCountersAssumption DEF BadCounter, Usable, ToTyped
<1> HIDE DEF init
<1>4. init.counter # None => sum.value \in Values
  BY <1>10, <1>2, <1>3, AddTyped, Typed DEF ToTyped, Alarm
<1> HIDE DEF sum
<1>5. /\ al \in Alarm /\ al.counter = init.counter /\ al.state = init.state
      /\ al.check = init.check /\ al.test = init.test
  BY <1>3, <1>4 DEF Alarm
<1> HIDE DEF al
<1>6. list' = Listed(a, alarm[a].counter, dest) /\ lost' = LostListed(a, alarm[a].counter, dest)
  BY <1>1 DEF Listed, LostListed
<1>7. NotDue(al)
  BY <1>1 DEF NotDue
<1>8. al.state # "none"
  BY <1>1, <1>3, <1>5 DEF Usable
<1>9. AlarmSet(a, al, dest)
  BY <1>10, <1>1, <1>3, <1>5, <1>6, <1>7, <1>8 DEF AlarmSet
<1> QED BY <1>9, AlarmSetIInv

LEMMA FreeIInv ==
  ASSUME IInv, NEW a \in Alarms, walk = Idle, Usable(a), Free(a), UNCHANGED <<open, dying, counter, await, walk, scenario>>
  PROVE  IInv'
<1>1. /\ NoAlarm \in Alarm /\ NoAlarm.state = "none" /\ NoAlarm.counter = None /\ NoAlarm.check = NoAlarm.test
  BY NoAlarmTyped DEF NoAlarm
<1>2. NotDue(NoAlarm)
  BY <1>1 DEF NotDue
<1>3. AlarmSet(a, NoAlarm, None)
  BY <1>1, <1>2, SyncCountersAssumption DEF AlarmSet, Free, Usable
<1> QED BY <1>3, AlarmSetIInv

-----------------------------------------------------------------------------
(* Every step.                                                             *)

LEMMA ScenarioIs ==
  ASSUME TypeOK
  PROVE  scenario.types \subseteq TestTypes
BY SyncCountersAssumption DEF TypeOK, Scenario

\* What a client asks to wait for.
LEMMA CondsAre ==
  ASSUME TypeOK, NEW c \in Clients, NEW one \in Conds(c)
  PROVE  /\ one \in Condition /\ one.counter \in Counters /\ Exists(one.counter)
         /\ Does("own") \/ counter[one.counter].owner # c
<1>1. PICK k \in {l \in Counters : Exists(l) /\ Does("await") /\ (Does("own") \/ counter[l].owner # c)} :
        one \in {[counter |-> k, check |-> y, value |-> v] : y \in scenario.types, v \in TestValues(k)}
  BY DEF Conds
<1>2. PICK y \in scenario.types, v \in TestValues(k) : one = [counter |-> k, check |-> y, value |-> v]
  BY <1>1
<1>3. y \in TestTypes /\ v \in Values
  BY <1>2, ScenarioIs, TestValuesTyped
<1> QED BY <1>1, <1>2, <1>3 DEF Condition

LEMMA CounterRequestIInv ==
  ASSUME IInv, NEW c \in Clients, CounterRequest(c), scenario' = scenario
  PROVE  IInv'
<1>1. TypeOK
  BY DEF IInv
<1>2. ASSUME NEW k \in Counters, CreateCounter(c, k) PROVE IInv'
  BY <1>2, CreateCounterIInv
<1>3. ASSUME NEW k \in Counters, DestroyCounter(c, k) PROVE IInv'
  <2>1. /\ walk = Idle /\ dying = None /\ Exists(k) /\ Destroy(k)
        /\ UNCHANGED <<open, dying>> /\ UNCHANGED Triggers0
    BY <1>3 DEF DestroyCounter, Runs, Triggers0
  <2> QED BY <2>1, DestroyIInv
<1>4. ASSUME NEW k \in Counters, NEW v \in WaitValues, SetCounter(c, k, v) PROVE IInv'
  <2>1. walk = Idle /\ dying = None /\ Change(k, v) /\ v \in Values
    BY <1>4, SyncCountersAssumption DEF SetCounter, Runs
  <2> QED BY <2>1, ChangeIInv
<1>5. ASSUME NEW k \in Counters, NEW v \in WaitValues, ChangeCounter(c, k, v) PROVE IInv'
  <2> DEFINE new == XSyncValueAdd(counter[k].value, v).value
  <2>1. walk = Idle /\ dying = None /\ Change(k, new)
    BY <1>5 DEF ChangeCounter, Runs
  <2>2. counter[k].value \in Values /\ v \in Values
    BY <1>1, Typed, SyncCountersAssumption
  <2>3. new \in Values
    BY <2>2, AddTyped
  <2> HIDE DEF new
  <2> QED BY <2>1, <2>3, ChangeIInv
<1>6. ASSUME NEW one \in Conds(c), Await(c, <<one>>) PROVE IInv'
  <2> DEFINE conds == <<one>>
  <2>1. /\ one \in Condition /\ one.counter \in Counters /\ Exists(one.counter)
        /\ Does("own") \/ counter[one.counter].owner # c
    BY <1>1, CondsAre
  <2>2. conds \in [1 .. 1 -> Condition] /\ DOMAIN conds = {1} /\ conds[1] = one
    BY <2>1
  <2>3. Await(c, conds)
    BY <1>6
  <2> HIDE DEF conds
  <2>4. \A i \in DOMAIN conds :
          /\ conds[i].counter \in Counters /\ Exists(conds[i].counter)
          /\ Does("own") \/ counter[conds[i].counter].owner # c
    BY <2>1, <2>2
  <2>5. \A i, j \in DOMAIN conds : conds[i].counter = conds[j].counter => i = j
    BY <2>2
  <2> QED BY <2>2, <2>3, <2>4, <2>5, AwaitIInv
<1>7. ASSUME NEW one \in Conds(c), NEW two \in Conds(c), Does("same") \/ one.counter # two.counter,
             Await(c, <<one, two>>)
      PROVE  IInv'
  <2> DEFINE conds == <<one, two>>
  <2>1. /\ one \in Condition /\ one.counter \in Counters /\ Exists(one.counter)
        /\ Does("own") \/ counter[one.counter].owner # c
    BY <1>1, CondsAre
  <2>2. /\ two \in Condition /\ two.counter \in Counters /\ Exists(two.counter)
        /\ Does("own") \/ counter[two.counter].owner # c
    BY <1>1, CondsAre
  <2>3. conds \in [1 .. 2 -> Condition] /\ DOMAIN conds = {1, 2} /\ conds[1] = one /\ conds[2] = two
    BY <2>1, <2>2
  <2>4. Await(c, conds)
    BY <1>7
  <2> HIDE DEF conds
  <2>5. \A i \in DOMAIN conds :
          /\ conds[i].counter \in Counters /\ Exists(conds[i].counter)
          /\ Does("own") \/ counter[conds[i].counter].owner # c
    BY <2>1, <2>2, <2>3
  <2>6. Does("same") \/ \A i, j \in DOMAIN conds : conds[i].counter = conds[j].counter => i = j
    BY <1>7, <2>3
  <2> QED BY <2>3, <2>4, <2>5, <2>6, AwaitIInv
<1> QED BY <1>2, <1>3, <1>4, <1>5, <1>6, <1>7 DEF CounterRequest

LEMMA AlarmRequestIInv ==
  ASSUME IInv, NEW c \in Clients, NEW a \in Alarms, AlarmRequest(c, a), scenario' = scenario
  PROVE  IInv'
<1>1. TypeOK /\ alarm[a] \in Alarm
  BY Typed DEF IInv
<1>2. ASSUME NEW k \in Counters \cup {None}, NEW y \in scenario.types, NEW d \in Deltas,
             NEW v \in IF k = None THEN {0} ELSE TestValues(k),
             CreateAlarm(c, a, [state |-> "active", owner |-> None, counter |-> k,
                                test |-> y, check |-> y, value |-> v, delta |-> d])
      PROVE  IInv'
  <2>1. y \in TestTypes /\ d \in Values
    BY <1>1, ScenarioIs, SyncCountersAssumption
  <2>2. v \in Values
    <3>1. CASE k = None
      BY <3>1, ValuesAre
    <3>2. CASE k # None
      BY <1>1, <3>2, TestValuesTyped
    <3> QED BY <3>1, <3>2
  <2> QED BY <1>2, <2>1, <2>2, CreateAlarmIInv
<1>3. ASSUME DestroyAlarm(c, a) PROVE IInv'
  <2>1. walk = Idle /\ Usable(a) /\ Free(a) /\ UNCHANGED <<open, dying, counter, await, walk, scenario>>
    BY <1>3 DEF DestroyAlarm, Runs
  <2> QED BY <2>1, FreeIInv
<1>4. ASSUME Usable(a), NEW m \in SUBSET {"counter", "value", "test", "delta"},
             NEW k \in IF "counter" \in m THEN Counters \cup {None} ELSE {alarm[a].counter},
             NEW y \in IF "test" \in m THEN scenario.types ELSE {alarm[a].test},
             NEW v \in IF "value" \in m THEN Values ELSE {alarm[a].value},
             NEW d \in IF "delta" \in m THEN Deltas ELSE {alarm[a].delta},
             LET to == [counter |-> k, test |-> y, value |-> v, delta |-> d]
             IN  \/ ChangeAlarm(c, a, m, to)
                 \/ ChangeAlarmMismatch(c, a, m, to)
                 \/ ChangeAlarmOverflow(c, a, m, to)
      PROVE  IInv'
  <2> DEFINE to == [counter |-> k, test |-> y, value |-> v, delta |-> d]
  <2>1. k \in Counters \cup {None} /\ y \in TestTypes /\ v \in Values /\ d \in Values
    BY <1>1, <1>4, ScenarioIs, SyncCountersAssumption DEF Alarm, Usable
  <2>2. ToTyped(to)
    BY <2>1 DEF ToTyped
  <2>3. ChangeAlarm(c, a, m, to) \/ ChangeAlarmMismatch(c, a, m, to) \/ ChangeAlarmOverflow(c, a, m, to)
    BY <1>4
  <2> HIDE DEF to
  <2> QED BY <2>2, <2>3, ChangeAlarmIInv, ChangeAlarmMismatchIInv, ChangeAlarmOverflowIInv
<1>5. ASSUME Usable(a), NEW m \in SUBSET {"counter", "value", "test", "delta"},
             \E k \in IF "counter" \in m THEN Counters \cup {None} ELSE {alarm[a].counter},
                y \in IF "test" \in m THEN scenario.types ELSE {alarm[a].test},
                v \in IF "value" \in m THEN Values ELSE {alarm[a].value},
                d \in IF "delta" \in m THEN Deltas ELSE {alarm[a].delta} :
               LET to == [counter |-> k, test |-> y, value |-> v, delta |-> d]
               IN  \/ ChangeAlarm(c, a, m, to)
                   \/ ChangeAlarmMismatch(c, a, m, to)
                   \/ ChangeAlarmOverflow(c, a, m, to)
      PROVE  IInv'
  <2>1. PICK k \in IF "counter" \in m THEN Counters \cup {None} ELSE {alarm[a].counter},
             y \in IF "test" \in m THEN scenario.types ELSE {alarm[a].test},
             v \in IF "value" \in m THEN Values ELSE {alarm[a].value},
             d \in IF "delta" \in m THEN Deltas ELSE {alarm[a].delta} :
               LET to == [counter |-> k, test |-> y, value |-> v, delta |-> d]
               IN  \/ ChangeAlarm(c, a, m, to)
                   \/ ChangeAlarmMismatch(c, a, m, to)
                   \/ ChangeAlarmOverflow(c, a, m, to)
    BY <1>5, Zenon
  <2>2. Usable(a)
    BY <1>5
  <2> QED BY <1>4, <2>1, <2>2, Zenon
<1>6. \/ \E k \in Counters \cup {None}, y \in scenario.types, d \in Deltas :
           \E v \in IF k = None THEN {0} ELSE TestValues(k) :
             CreateAlarm(c, a, [state |-> "active", owner |-> None, counter |-> k,
                                test |-> y, check |-> y, value |-> v, delta |-> d])
      \/ DestroyAlarm(c, a)
      \/ Usable(a) /\ \E m \in SUBSET {"counter", "value", "test", "delta"} :
           \E k \in IF "counter" \in m THEN Counters \cup {None} ELSE {alarm[a].counter},
              y \in IF "test" \in m THEN scenario.types ELSE {alarm[a].test},
              v \in IF "value" \in m THEN Values ELSE {alarm[a].value},
              d \in IF "delta" \in m THEN Deltas ELSE {alarm[a].delta} :
             LET to == [counter |-> k, test |-> y, value |-> v, delta |-> d]
             IN  \/ ChangeAlarm(c, a, m, to)
                 \/ ChangeAlarmMismatch(c, a, m, to)
                 \/ ChangeAlarmOverflow(c, a, m, to)
  BY Zenon DEF AlarmRequest
<1> QED BY <1>2, <1>3, <1>5, <1>6, Zenon

LEMMA FreeAlarmIInv == IInv /\ FreeAlarm /\ scenario' = scenario => IInv'
<1> SUFFICES ASSUME IInv, FreeAlarm, scenario' = scenario PROVE IInv'
  OBVIOUS
<1>1. PICK a \in Alarms : Usable(a) /\ Free(a)
  BY DEF FreeAlarm
<1>2. walk = Idle /\ UNCHANGED <<open, dying, counter, await, walk, scenario>>
  BY DEF FreeAlarm
<1> QED BY <1>1, <1>2, FreeIInv

LEMMA FreeCounterIInv == IInv /\ FreeCounter /\ scenario' = scenario => IInv'
<1> SUFFICES ASSUME IInv, FreeCounter, scenario' = scenario PROVE IInv'
  OBVIOUS
<1>1. PICK k \in Counters : counter[k].owner = dying /\ Destroy(k)
  BY DEF FreeCounter
<1>2. walk = Idle /\ dying # None /\ UNCHANGED <<open, dying>> /\ UNCHANGED Triggers0
  BY DEF FreeCounter, Triggers0
<1>3. Exists(k)
  BY <1>1, <1>2 DEF Exists
<1> QED BY <1>1, <1>2, <1>3, DestroyIInv

\* The clients that wait have a connection, or are being freed.
LEMMA ClientsIInv ==
  ASSUME IInv, Gone \/ \E c \in Clients : CloseDownClient(c) \/ Connect(c), scenario' = scenario
  PROVE  IInv'
<1>1. /\ open \in [Clients -> BOOLEAN] /\ dying \in Clients \cup {None}
      /\ \A d \in Clients : Blocked(d) => open[d] \/ dying = d
  BY DEF IInv, TypeOK, ClientsInv
<1>2. CASE Gone
  <2>1. /\ walk = Idle /\ dying # None /\ ~Blocked(dying) /\ dying' = None /\ open' = open
        /\ UNCHANGED <<counter, walk>> /\ UNCHANGED Triggers0
    BY <1>2 DEF Gone, Remains, Triggers0
  <2>2. \A d \in Clients : Blocked(d) => open'[d] \/ dying' = d
    BY <1>1, <2>1
  <2> QED BY <1>1, <2>1, <2>2, ClientStep
<1>3. ASSUME NEW c \in Clients, CloseDownClient(c) PROVE IInv'
  <2>1. /\ walk = Idle /\ dying = None /\ dying' = c /\ open' = [open EXCEPT ![c] = FALSE]
        /\ UNCHANGED <<counter, walk>> /\ UNCHANGED Triggers0
    BY <1>3 DEF CloseDownClient, Triggers0
  <2>2. open' \in [Clients -> BOOLEAN] /\ \A d \in Clients : d # c => open'[d] = open[d]
    BY <1>1, <2>1
  <2>3. \A d \in Clients : Blocked(d) => open'[d] \/ dying' = d
    BY <1>1, <2>1, <2>2, SyncCountersAssumption
  <2> QED BY <2>1, <2>2, <2>3, ClientStep
<1>4. ASSUME NEW c \in Clients, Connect(c) PROVE IInv'
  <2>1. /\ walk = Idle /\ dying = None /\ dying' = dying /\ open' = [open EXCEPT ![c] = TRUE]
        /\ UNCHANGED <<counter, walk>> /\ UNCHANGED Triggers0
    BY <1>4 DEF Connect, Triggers0
  <2>2. open' \in [Clients -> BOOLEAN] /\ \A d \in Clients : open[d] => open'[d]
    BY <1>1, <2>1
  <2>3. \A d \in Clients : Blocked(d) => open'[d] \/ dying' = d
    BY <1>1, <2>1, <2>2
  <2> QED BY <1>1, <2>1, <2>2, <2>3, ClientStep
<1> QED BY <1>2, <1>3, <1>4

LEMMA SyncNextIInv == IInv /\ [Next]_vars => IInv'
<1> SUFFICES ASSUME IInv, [Next]_vars PROVE IInv'
  OBVIOUS
<1>1. CASE UNCHANGED vars
  <2>1. TypeOK'
    BY <1>1 DEF vars, IInv, TypeOK
  <2>2. ListsInv'
    BY <1>1, ListsStay DEF vars, IInv, Triggers0
  <2>3. WalkInv' /\ ClientsInv' /\ MatchInv'
    BY <1>1 DEF vars, IInv, WalkInv, ClientsInv, Blocked, MatchInv, Does
  <2>4. DueInv'
    <3>1. \A t \in Triggers : (Live(t)' <=> Live(t)) /\ Trigger(t)' = Trigger(t) /\ (Counts(t)' <=> Counts(t))
      BY <1>1, TriggersStay DEF vars, Triggers0
    <3>2. \A t \in Triggers : IsDue(t)' => IsDue(t)
      BY <1>1, <3>1 DEF vars, IsDue, ValueOf
    <3>3. \A t : Ahead(t) => Ahead(t)'
      BY <1>1 DEF vars, Ahead
    <3>4. Stuck => Stuck'
      BY <1>1 DEF vars, Stuck
    <3> QED BY <3>2, <3>3, <3>4 DEF IInv, DueInv
  <2>5. SeenInv'
    BY <1>1 DEF vars, IInv, SeenInv, Stuck, IsMade, Ahead, ValueOf, Live, Trigger
  <2> QED BY <2>1, <2>2, <2>3, <2>4, <2>5 DEF IInv
<1>2. CASE Next
  <2>1. scenario' = scenario
    BY <1>2 DEF Next
  <2>2. ASSUME NEW c \in Clients, CounterRequest(c) PROVE IInv'
    BY <2>1, <2>2, CounterRequestIInv
  <2>3. ASSUME NEW c \in Clients, NEW a \in Alarms, AlarmRequest(c, a) PROVE IInv'
    BY <2>1, <2>3, AlarmRequestIInv
  <2>4. ASSUME Gone \/ \E c \in Clients : CloseDownClient(c) \/ Connect(c) PROVE IInv'
    BY <2>1, <2>4, ClientsIInv
  <2>5. CASE Visit \/ Changed \/ Tell \/ Destroyed
    BY <2>1, <2>5, VisitIInv, ChangedIInv, TellIInv, DestroyedIInv
  <2>6. CASE FreeAwait \/ FreeAlarm \/ FreeCounter
    BY <2>1, <2>6, FreeAwaitIInv, FreeAlarmIInv, FreeCounterIInv
  <2> QED BY <1>2, <2>2, <2>3, <2>4, <2>5, <2>6 DEF Next
<1> QED BY <1>1, <1>2

LEMMA SyncInvariance == Spec => []IInv
BY SyncInitIInv, SyncNextIInv, PTL DEF Spec

-----------------------------------------------------------------------------
(* What follows.                                                           *)

(* However counters, awaits and alarms are used, every value is of its      *)
(* type: the arithmetic of the macros never leaves the range of values.     *)
THEOREM SyncCountersTyped == Spec => []TypeOK
<1>1. IInv => TypeOK
  BY DEF IInv
<1> QED BY <1>1, SyncInvariance, PTL

LEMMA IInvListsExact == IInv => ListsExact
<1> SUFFICES ASSUME IInv PROVE ListsExact
  OBVIOUS
<1>1. TypeOK /\ ListsInv
  BY DEF IInv
<1>2. ASSUME NEW k \in Counters PROVE \A i, j \in DOMAIN list[k] : list[k][i] = list[k][j] => i = j
  BY <1>1 DEF ListsInv, AllOnce, Once
<1>3. ASSUME ~Does("same"), NEW k \in Counters, NEW t \in ToSet(list[k]) 
      PROVE  Live(t) /\ Trigger(t).counter = k /\ t \notin lost
  BY <1>1, <1>3 DEF ListsInv, Belongs
<1>4. ASSUME ~Does("overflow"), NEW k \in Counters, NEW t \in Triggers, Live(t), Trigger(t).counter = k
      PROVE  t \in ToSet(list[k]) \cup lost
  BY <1>1, <1>4, SyncCountersAssumption DEF ListsInv, Refers, Counts
<1> QED BY <1>2, <1>3, <1>4 DEF ListsExact

(* Any number of clients, counters and alarms: a list has triggers of its   *)
(* counter, once, and no other, and it has all of them but those that were  *)
(* in front of one that was taken from it.                                  *)
THEOREM ListsAreExact == Spec => []ListsExact
BY IInvListsExact, SyncInvariance, PTL

LEMMA IInvWalkSound == IInv => WalkSound
<1> SUFFICES ASSUME IInv PROVE WalkSound
  OBVIOUS
<1> DEFINE k == walk.counter
           t == IF counter[k].beingDestroyed THEN First(list[k]) ELSE walk.node
           fires == t # None /\ t \notin Alarms /\ Live(t)
                      /\ (counter[k].beingDestroyed \/ Check(Trigger(t), walk.old, counter[k].value))
<1>1. TypeOK /\ ListsInv /\ WalkInv /\ ClientsInv
  BY DEF IInv
<1>2. k = None => walk = Idle \/ Does("mismatch")
  BY <1>1 DEF WalkInv
<1>3. ASSUME k # None PROVE k \in Counters /\ list[k] \in Seq(Triggers)
  BY <1>1, <1>3 DEF TypeOK
<1>4. ASSUME k # None, ~Does("same"), counter[k].beingDestroyed, list[k] # <<>> PROVE Live(Head(list[k]))
  <2>1. Head(list[k]) \in ToSet(list[k])
    BY <1>3, <1>4, FirstIs
  <2> QED BY <1>1, <1>3, <1>4, <2>1 DEF ListsInv, Belongs
<1>5. ASSUME k # None, ~Does("same"), ~counter[k].beingDestroyed, walk.node # None
      PROVE  Live(walk.node) /\ walk.node \in ToSet(list[k])
  BY <1>1, <1>3, <1>5 DEF WalkInv, ListsInv, Belongs
<1>6. ASSUME k # None, ~Does("own"), fires PROVE open[t[1]]
  <2>1. t \in Triggers
    <3>1. CASE counter[k].beingDestroyed
      <4>1. list[k] # <<>>
        BY <1>6, <3>1 DEF First
      <4>2. First(list[k]) \in ToSet(list[k]) /\ ToSet(list[k]) \subseteq Triggers
        BY <1>1, <1>3, <1>6, <4>1, FirstIs, Typed
      <4> QED BY <3>1, <4>2
    <3>2. CASE ~counter[k].beingDestroyed
      BY <1>1, <1>6, <3>2 DEF TypeOK
    <3> QED BY <3>1, <3>2
  <2> HIDE DEF t
  <2>2. t \in Conditions /\ Live(t)
    BY <1>6, <2>1 DEF Triggers
  <2>3. t[1] \in Clients /\ t[2] \in DOMAIN await[t[1]]
    BY <2>2, ConditionIs
  <2>4. Blocked(t[1])
    BY <2>3 DEF Blocked
  <2>5. CASE dying = None
    BY <1>1, <2>3, <2>4, <2>5, SyncCountersAssumption DEF ClientsInv
  <2>6. CASE dying # None
    <3>1. counter[k].beingDestroyed /\ counter[k].owner = dying
      BY <1>1, <1>6, <2>6 DEF WalkInv
    <3>2. t \in ToSet(list[k])
      <4>1. list[k] # <<>>
        BY <1>6, <3>1 DEF First, t
      <4> QED BY <1>3, <1>6, <3>1, <4>1, FirstIs DEF t
    <3>3. Trigger(t).counter = k
      BY <1>1, <1>3, <1>6, <2>2, <3>2 DEF ListsInv, Belongs
    <3>4. await[t[1]][t[2]].counter = k
      BY <2>2, <3>3, ConditionIs
    <3>5. t[1] # dying
      BY <1>1, <1>3, <1>6, <2>3, <3>1, <3>4, SyncCountersAssumption DEF ClientsInv
    <3> QED BY <1>1, <2>3, <2>4, <3>5 DEF ClientsInv
  <2> QED BY <2>5, <2>6
<1>7. ASSUME ~Does("overflow"), NEW u \in Triggers, Live(u), Trigger(u).counter = Freed PROVE u \in lost
  BY <1>1, <1>7, SyncCountersAssumption DEF ListsInv, Refers, Counts
<1> QED BY <1>2, <1>4, <1>5, <1>6, <1>7 DEF WalkSound

(* No walk comes to a trigger that the firing of another has freed, nor     *)
(* unblocks a client that is gone; the update of an alarm ends; and only    *)
(* what a list has lost still refers to its counter when that is gone.      *)
THEOREM WalksAreSound == Spec => []WalkSound
BY IInvWalkSound, SyncInvariance, PTL

LEMMA IInvNothingDue == IInv => NothingDue
<1> SUFFICES ASSUME IInv, walk = Idle, ~Does("overflow"), NEW t \in Triggers \ lost, Live(t),
                    t \in Alarms => Trigger(t).state = "active", Trigger(t).check \in Comparisons
             PROVE  /\ Trigger(t).counter # None
                    /\ ~Check(Trigger(t), counter[Trigger(t).counter].value, counter[Trigger(t).counter].value)
  BY DEF NothingDue
<1>1. Counts(t)
  BY DEF Counts
<1>2. ~IsDue(t)
  BY IdleIs
<1> QED BY <1>1, <1>2 DEF IsDue, ValueOf

(* Between requests nobody sleeps, and no alarm is set, on a comparison     *)
(* that is true, unless the list of its counter has lost it.                *)
THEOREM NothingIsDue == Spec => []NothingDue
BY IInvNothingDue, SyncInvariance, PTL

LEMMA IInvTransitionsSeen == IInv => TransitionsSeen
<1> SUFFICES ASSUME IInv, walk.counter # None, ~counter[walk.counter].beingDestroyed, walk.node = None,
                    NEW t \in Triggers \ (Alarms \cup lost), Live(t), Trigger(t).counter = walk.counter
             PROVE  ~Check(Trigger(t), walk.old, counter[walk.counter].value)
  BY DEF TransitionsSeen
<1>1. walk.counter \in Counters
  BY DEF IInv, TypeOK
<1>2. t \in ToSet(list[walk.counter])
  BY <1>1, CountedIs DEF Counts
<1>3. ~IsMade(t)
  BY <1>2 DEF IInv, SeenInv, Stuck, Ahead
<1> QED BY <1>3 DEF IsMade, ValueOf

(* A walk passes no condition for a transition that the change has made:    *)
(* only one that the list of the counter has lost may be left behind.       *)
THEOREM TransitionsAreSeen == Spec => []TransitionsSeen
BY IInvTransitionsSeen, SyncInvariance, PTL

-----------------------------------------------------------------------------
(* SERVERTIME.                                                             *)
USE ServerTimeAssumption DEF Times, Never, Least

LEMMA SmallestIn ==
  ASSUME NEW S \in SUBSET Nat, S # {}
  PROVE  Smallest(S) \in S /\ \A n \in S : Smallest(S) <= n
<1>1. \E x \in S : \A y \in S : x <= y
  BY LeastOf
<1> QED BY <1>1 DEF Smallest

LEMMA LargestIn ==
  ASSUME NEW S \in SUBSET (Least .. Never), S # {}
  PROVE  Largest(S) \in S
<1> DEFINE T == {Never - x : x \in S}
<1>1. T \in SUBSET Nat /\ T # {}
  <2>1. ASSUME NEW x \in S PROVE Never - x \in Nat
    <3>1. x \in Least .. Never /\ MaxTime \in Nat
      OBVIOUS
    <3> QED BY <3>1
  <2>2. PICK x \in S : TRUE
    OBVIOUS
  <2>3. Never - x \in T
    BY <2>2
  <2> QED BY <2>1, <2>3
<1>2. PICK y \in T : \A z \in T : y <= z
  <2> HIDE DEF T
  <2> QED BY <1>1, LeastOf
<1>3. PICK x \in S : y = Never - x
  BY <1>2
<1>4. \A z \in S : z <= x
  <2> TAKE z \in S
  <2>1. Never - z \in T
    OBVIOUS
  <2>2. Never - x <= Never - z
    BY <1>2, <1>3, <2>1
  <2> QED BY <2>2
<1> QED BY <1>4 DEF Largest

-----------------------------------------------------------------------------
(* What firing does to an alarm whose time has come: it is inactive, or    *)
(* has moved past the counter's value if it is a comparison.               *)
LEMMA FiredTimeAlarm ==
  ASSUME NEW al \in TimeAlarm, NEW new \in Times, al.value <= new
  PROVE  /\ Fired(al, new) \in TimeAlarm
         /\ Fired(al, new).test = al.test /\ (al.state # "none" => Fired(al, new).state # "none")
         /\ al.state = "none" => Fired(al, new).state = "none"
         /\ Fired(al, new).state = "active" /\ al.test = "comparison" => new < Fired(al, new).value
         /\ al.delta = 0 /\ al.test = "comparison" => Fired(al, new).state # "active"
         /\ al.delta = 0 /\ al.test = "transition" => Fired(al, new) = al
<1>1. CASE al.state # "active"
  BY <1>1 DEF Fired
<1>2. CASE al.state = "active" /\ al.delta = 0 /\ al.test = "comparison"
  BY <1>2 DEF Fired, TimeAlarm
<1>3. CASE al.state = "active" /\ ~(al.delta = 0 /\ al.test = "comparison")
  <2> DEFINE TimeAfter(n) == al.value + n * al.delta
             ends == {n \in 1 .. MaxTime + 1 :
                        ~CheckTime([al EXCEPT !.value = TimeAfter(n)], new, new)}
             end  == TimeAfter(Smallest(ends))
  <2>1. Fired(al, new) = [al EXCEPT !.value = end]
    BY <1>3 DEF Fired
  <2>2. /\ al.value \in 0 .. 2 * MaxTime /\ al.delta \in 0 .. MaxTime /\ al.delta \in TimeDeltas
        /\ al.test \in {"comparison", "transition"} /\ al.state \in {"none", "active", "inactive"}
        /\ al = [state |-> al.state, test |-> al.test, value |-> al.value, delta |-> al.delta]
    BY DEF TimeAlarm
  <2>3. \A n \in Nat : n * al.delta \in Nat /\ (al.delta # 0 => n <= n * al.delta)
    BY <2>2, SMTT(30)
  <2>4. \A n \in Nat : TimeAfter(n) \in Nat
    BY <2>2, <2>3
  <2>5. \A n \in Nat : CheckTime([al EXCEPT !.value = TimeAfter(n)], new, new)
                       <=> new >= TimeAfter(n) /\ al.test # "transition"
    BY <2>2, <2>4 DEF CheckTime
  <2>6. MaxTime + 1 \in ends
    <3>1. al.test = "comparison" => MaxTime + 1 <= TimeAfter(MaxTime + 1)
      BY <1>3, <2>2, <2>3
    <3> QED BY <2>2, <2>4, <2>5, <3>1
  <2>7. Smallest(ends) \in ends /\ \A n \in ends : Smallest(ends) <= n
    <3>1. ends \in SUBSET Nat /\ ends # {}
      BY <2>6, ServerTimeAssumption
    <3> HIDE DEF ends
    <3> QED BY <3>1, SmallestIn
  <2>8. end \in Nat /\ (al.test = "comparison" => new < end)
    <3>1. \A m \in ends : TimeAfter(m) \in Nat /\ (al.test = "comparison" => new < TimeAfter(m))
      BY <2>2, <2>4, <2>5
    <3> HIDE DEF ends, TimeAfter
    <3> QED BY <2>7, <3>1
  <2>9. end <= 2 * MaxTime
    <3> DEFINE m == Smallest(ends)
    <3>1. m \in 1 .. MaxTime + 1
      <4>1. ends \subseteq 1 .. MaxTime + 1
        OBVIOUS
      <4> HIDE DEF ends
      <4> QED BY <2>7, <4>1
    <3>2. m = 1 \/ m - 1 \notin ends
      <4> HIDE DEF ends
      <4> QED BY <2>7, <3>1
    <3>3. m - 1 \in Nat /\ (m = 1 \/ m - 1 \in 1 .. MaxTime + 1)
      BY <3>1
    <3>4. end = TimeAfter(m)
      OBVIOUS
    <3> HIDE DEF m, end
    <3>5. TimeAfter(m - 1) <= new
      <4>1. CASE m = 1
        BY <2>2, <4>1
      <4>2. CASE m # 1
        <5>1. CheckTime([al EXCEPT !.value = TimeAfter(m - 1)], new, new)
          BY <3>2, <3>3, <4>2
        <5> HIDE DEF TimeAfter
        <5> QED BY <2>4, <2>5, <3>3, <5>1
      <4> QED BY <4>1, <4>2
    <3>6. TimeAfter(m) = TimeAfter(m - 1) + al.delta
      <4>1. m * al.delta = (m - 1) * al.delta + al.delta
        BY <2>2, <3>1, SMTT(30)
      <4> QED BY <2>2, <2>3, <3>1, <3>3, <4>1
    <3> HIDE DEF TimeAfter
    <3> QED BY <2>2, <2>4, <3>3, <3>4, <3>5, <3>6
  <2>10. al.delta = 0 => end = al.value
    <3>1. Smallest(ends) \in Nat
      <4>1. ends \subseteq Nat
        OBVIOUS
      <4> HIDE DEF ends
      <4> QED BY <2>7, <4>1
    <3> HIDE DEF ends
    <3> QED BY <2>2, <3>1
  <2> HIDE DEF end
  <2>11. end \in 0 .. 2 * MaxTime
    BY <2>8, <2>9
  <2> QED BY <1>3, <2>1, <2>2, <2>8, <2>10, <2>11 DEF TimeAlarm
<1> QED BY <1>1, <1>2, <1>3

(* The bracket that a search finds is ahead of no value of the list that   *)
(* is ahead of the counter; or the handlers were removed for a transition. *)
LEMMA BracketFound ==
  ASSUME NEW s \in Seq(TimeAlarms), NEW als \in [TimeAlarms -> TimeAlarm], NEW v \in Times,
         NEW startOver \in BOOLEAN, startOver \/ armed,
         bracket \in 0 .. Never, less \in Least .. Never, armed \in BOOLEAN,
         SyncComputeBracketValues(s, als, v, startOver)
  PROVE  /\ bracket' \in 0 .. Never /\ less' \in Least .. Never /\ armed' \in BOOLEAN
         /\ \/ \A a \in ToSet(s) : v < als[a].value => armed' /\ bracket' <= als[a].value
            \/ ~armed' /\ \E a \in ToSet(s) : /\ v < als[a].value
                                              /\ als[a].test = "transition" /\ als[a].value = less'
<1> DEFINE from   == IF startOver THEN Never ELSE bracket
           least  == IF startOver THEN Least ELSE less
           ahead  == AheadOn(s, als, v)
           nearer == Nearer(s, als, v, from)
           other  == {i \in ahead \ nearer : als[s[i]].test = "transition" /\ als[s[i]].value > least}
           near   == {als[s[i]].value : i \in nearer}
           far    == {als[s[i]].value : i \in other}
<1>1. /\ bracket' = IF nearer = {} THEN from ELSE Smallest(near)
      /\ less' = IF other = {} THEN least ELSE Largest(far)
      /\ armed' = IF nearer # {} THEN TRUE ELSE IF other # {} THEN FALSE ELSE armed
  BY DEF SyncComputeBracketValues
<1>2. \A i \in DOMAIN s : s[i] \in TimeAlarms /\ als[s[i]].value \in 0 .. 2 * MaxTime
  BY DEF TimeAlarm
<1>3. DOMAIN s \subseteq Nat /\ ahead \subseteq DOMAIN s /\ \A i \in ahead : v < als[s[i]].value
  BY DEF AheadOn
<1>4. /\ nearer \subseteq ahead
      /\ \A i \in ahead : i \in nearer <=>
           als[s[i]].value < from /\ \A j \in ahead : j < i => als[s[i]].value < als[s[j]].value
      /\ from \in 0 .. Never /\ least \in Least .. Never
  BY DEF Nearer
<1>5. near \in SUBSET Nat /\ near \subseteq 0 .. 2 * MaxTime /\ far \in SUBSET (Least .. Never)
  BY <1>2, <1>3, <1>4
<1>6. near = {} <=> nearer = {}
  OBVIOUS
<1>7. far = {} <=> other = {}
  OBVIOUS
<1>8. from = Never \/ armed
  OBVIOUS
<1>9. \A n \in near : n < from
  BY <1>3, <1>4
<1>10. \A n \in far : \E a \in ToSet(s) : v < als[a].value /\ als[a].test = "transition" /\ als[a].value = n
  BY <1>3 DEF ToSet
<1>11. \A a \in ToSet(s) : v < als[a].value => \E i \in ahead : s[i] = a
  BY DEF AheadOn, ToSet
<1> HIDE DEF from, least, ahead, nearer, other
<1>12. ASSUME NEW i \in ahead, als[s[i]].value < from
       PROVE  \E n \in near : n <= als[s[i]].value
  <2> DEFINE T == {j \in ahead : als[s[j]].value < from}
             VT == {als[s[j]].value : j \in T}
             m == Smallest(VT)
             LT == {j \in T : als[s[j]].value = m}
             l == Smallest(LT)
  <2>1. VT \in SUBSET Nat /\ VT # {} /\ als[s[i]].value \in VT
    <3>1. \A j \in ahead : als[s[j]].value \in Nat
      BY <1>2, <1>3
    <3>2. VT \subseteq Nat
      BY <3>1
    <3>3. i \in T
      BY <1>12
    <3>4. als[s[i]].value \in VT
      BY <3>3
    <3> QED BY <3>2, <3>4
  <2>2. m \in VT /\ \A n \in VT : m <= n
    <3> HIDE DEF VT
    <3> QED BY <2>1, SmallestIn
  <2> HIDE DEF m
  <2>3. LT \in SUBSET Nat /\ LT # {}
    BY <1>3, <2>2
  <2>4. l \in LT /\ \A j \in LT : l <= j
    <3> HIDE DEF LT
    <3> QED BY <2>3, SmallestIn
  <2> HIDE DEF l
  <2>5. l \in ahead /\ als[s[l]].value = m /\ m < from /\ l \in Nat
    BY <1>3, <2>4
  <2>6. ASSUME NEW j \in ahead, j < l PROVE m < als[s[j]].value
    <3>1. als[s[j]].value \in Nat /\ m \in Nat /\ from \in Nat /\ j \in Nat
      BY <1>2, <1>3, <1>4, <2>1, <2>2
    <3>2. ASSUME als[s[j]].value <= m PROVE FALSE
      <4>1. j \in T
        BY <2>5, <2>6, <3>1, <3>2
      <4>2. m <= als[s[j]].value
        BY <2>2, <4>1
      <4>3. als[s[j]].value = m
        BY <3>1, <3>2, <4>2
      <4>4. j \in LT
        BY <4>1, <4>3
      <4> QED BY <2>4, <2>5, <2>6, <3>1, <4>4
    <3> DEFINE w == als[s[j]].value
    <3>3. w \in Nat /\ m \in Nat /\ ~(w <= m)
      BY <3>1, <3>2
    <3>4. m < w
      <4> HIDE DEF w
      <4> QED BY <3>3
    <3> QED BY <3>4
  <2>7. l \in nearer
    BY <1>4, <2>5, <2>6
  <2>8. m \in near
    BY <2>5, <2>7
  <2> QED BY <2>1, <2>2, <2>8
<1> HIDE DEF near, far
<1>13. CASE nearer # {}
  <2>1. Smallest(near) \in near /\ \A n \in near : Smallest(near) <= n
    BY <1>5, <1>6, <1>13, SmallestIn
  <2>2. bracket' = Smallest(near) /\ armed' = TRUE
    BY <1>1, <1>13
  <2>3. bracket' \in near /\ \A n \in near : bracket' <= n
    BY <2>1, <2>2
  <2>4. bracket' \in 0 .. Never /\ bracket' < from
    BY <1>5, <1>9, <2>3
  <2>5. \A i \in ahead : bracket' <= als[s[i]].value
    <3> TAKE i \in ahead
    <3>1. als[s[i]].value \in Nat
      BY <1>2, <1>3
    <3>2. CASE als[s[i]].value < from
      BY <1>5, <1>12, <2>3, <2>4, <3>1, <3>2
    <3>3. CASE ~(als[s[i]].value < from)
      BY <1>4, <2>4, <3>1, <3>3
    <3> QED BY <3>2, <3>3
  <2>6. less' \in Least .. Never
    <3>1. far # {} => Largest(far) \in far
      BY <1>5, LargestIn
    <3> QED BY <1>1, <1>4, <1>5, <1>7, <3>1
  <2>7. \A a \in ToSet(s) : v < als[a].value => bracket' <= als[a].value
    BY <1>11, <2>5
  <2> QED BY <2>2, <2>4, <2>6, <2>7
<1>14. CASE nearer = {}
  <2>1. \A i \in ahead : from <= als[s[i]].value
    <3> TAKE i \in ahead
    <3>1. ~(als[s[i]].value < from)
      BY <1>6, <1>12, <1>14
    <3>2. als[s[i]].value \in Nat
      BY <1>2, <1>3
    <3> QED BY <1>4, <3>1, <3>2
  <2>2. bracket' = from
    BY <1>1, <1>14
  <2>3. CASE other # {}
    <3>1. Largest(far) \in far
      BY <1>5, <1>7, <2>3, LargestIn
    <3>2. armed' = FALSE /\ less' = Largest(far)
      BY <1>1, <1>14, <2>3
    <3>3. less' \in far
      BY <3>1, <3>2
    <3>4. less' \in Least .. Never
      BY <1>5, <3>3
    <3>5. \E a \in ToSet(s) : v < als[a].value /\ als[a].test = "transition" /\ als[a].value = less'
      BY <1>10, <3>3
    <3> QED BY <1>4, <2>2, <3>2, <3>4, <3>5
  <2>4. CASE other = {}
    <3>1. armed' = armed /\ less' = least
      BY <1>1, <1>14, <2>4
    <3>2. ASSUME NEW i \in ahead PROVE from # Never
      BY <1>2, <1>3, <2>1
    <3>3. ASSUME NEW a \in ToSet(s), v < als[a].value PROVE armed' /\ bracket' <= als[a].value
      <4>1. PICK i \in ahead : s[i] = a
        BY <1>11, <3>3
      <4>2. from <= als[a].value /\ from # Never
        BY <2>1, <3>2, <4>1
      <4> QED BY <1>8, <2>2, <3>1, <4>2
    <3> QED BY <1>4, <2>2, <3>1, <3>3
  <2> QED BY <2>3, <2>4
<1> QED BY <1>13, <1>14

-----------------------------------------------------------------------------
(* The inductive invariant.  The list has the alarms once, and all of them *)
(* that it has not lost, and the counter is not ahead of the time.         *)
TimeListInv ==
  /\ Once(timeList)
  /\ ToSet(timeList) \cap timeLost = {}
  /\ \A a \in TimeAlarms : timeAlarm[a].state # "none" <=> a \in ToSet(timeList) \cup timeLost

TimeIInv == TimeTypeOK /\ value <= now /\ TimeListInv /\ NoOversleep /\ AllChecked

LEMMA NoTimeAlarmTyped == NoTimeAlarm \in TimeAlarm
<1>1. Smallest(TimeDeltas) \in TimeDeltas
  BY SmallestIn
<1> QED BY <1>1 DEF NoTimeAlarm, TimeAlarm

LEMMA InitTimeIInv == TimeInit => TimeIInv
<1> SUFFICES ASSUME TimeInit PROVE TimeIInv
  OBVIOUS
<1>1. timeList = <<>> /\ timeLost = {} /\ ToSet(timeList) = {}
  BY DEF TimeInit, ToSet
<1>2. TimeTypeOK /\ value <= now
  <2>1. timeAlarm \in [TimeAlarms -> TimeAlarm]
    BY NoTimeAlarmTyped DEF TimeInit
  <2>2. habits \subseteq TimeHabit /\ phase \in {"dispatch", "asleep"} /\ armed \in BOOLEAN
    BY DEF TimeInit
  <2>3. now \in Times /\ value \in Times /\ bracket \in 0 .. Never /\ less \in Least .. Never /\ value <= now
    BY DEF TimeInit
  <2>4. timeList \in Seq(TimeAlarms) /\ timeLost \subseteq TimeAlarms
    BY <1>1
  <2> QED BY <2>1, <2>2, <2>3, <2>4, Zenon DEF TimeTypeOK
<1>3. \A a \in TimeAlarms : ~Active(a) /\ timeAlarm[a].state = "none"
  BY DEF TimeInit, Active, NoTimeAlarm
<1>4. TimeListInv
  BY <1>1, <1>3 DEF TimeListInv, Once
<1> QED BY <1>2, <1>3, <1>4 DEF TimeIInv, NoOversleep, AllChecked

(* An alarm that is set is on the list, or is lost.                        *)
LEMMA ListedTime ==
  ASSUME TimeListInv, NEW a \in TimeAlarms \ timeLost, Active(a)
  PROVE  a \in ToSet(timeList)
BY DEF TimeListInv, Active

(* The list after an alarm was added or destroyed.                         *)
LEMMA AddedIs ==
  ASSUME TimeIInv, NEW a \in TimeAlarms
  PROVE  /\ Added(a) \in Seq(TimeAlarms) /\ Once(Added(a))
         /\ ToSet(Added(a)) \cap timeLost = {}
         /\ \A b : b \in ToSet(Added(a)) \cup timeLost <=> b = a \/ b \in ToSet(timeList) \cup timeLost
<1>1. timeList \in Seq(TimeAlarms) /\ TimeListInv
  BY DEF TimeIInv, TimeTypeOK
<1>2. CASE timeAlarm[a].state # "none"
  <2>1. Added(a) = timeList
    BY <1>2 DEF Added
  <2> QED BY <1>1, <1>2, <2>1 DEF TimeListInv
<1>3. CASE timeAlarm[a].state = "none"
  <2> DEFINE s == <<a>> \o timeList
  <2>1. Added(a) = s /\ a \notin ToSet(timeList) /\ a \notin timeLost
    BY <1>1, <1>3 DEF Added, TimeListInv
  <2>2. Len(timeList) \in Nat /\ DOMAIN timeList = 1 .. Len(timeList)
    BY <1>1
  <2>3. /\ s \in Seq(TimeAlarms) /\ DOMAIN s = 1 .. Len(timeList) + 1
        /\ s[1] = a /\ \A n \in 2 .. Len(timeList) + 1 : s[n] = timeList[n - 1]
    BY <1>1
  <2> HIDE DEF s
  <2>4. \A n \in DOMAIN s : n = 1 \/ (n - 1 \in DOMAIN timeList /\ s[n] = timeList[n - 1])
    BY <2>2, <2>3
  <2>5. \A n \in DOMAIN s : n # 1 => s[n] # a
    BY <2>1, <2>4 DEF ToSet
  <2>6. Once(s)
    <3> SUFFICES ASSUME NEW m \in DOMAIN s, NEW n \in DOMAIN s, s[m] = s[n] PROVE m = n
      BY DEF Once
    <3>1. m \in Nat /\ n \in Nat
      BY <2>2, <2>3
    <3>2. CASE m = 1 \/ n = 1
      BY <2>3, <2>5, <3>2
    <3>3. CASE m # 1 /\ n # 1
      <4>1. m - 1 = n - 1
        BY <1>1, <2>4, <3>3 DEF TimeListInv, Once
      <4> QED BY <3>1, <4>1
    <3> QED BY <3>2, <3>3
  <2>7. ToSet(s) = ToSet(timeList) \cup {a}
    <3>1. \A n \in DOMAIN timeList : n + 1 \in DOMAIN s /\ s[n + 1] = timeList[n]
      BY <2>2, <2>3
    <3>2. 1 \in DOMAIN s
      BY <2>2, <2>3
    <3> QED BY <2>3, <2>4, <3>1, <3>2 DEF ToSet
  <2> QED BY <1>1, <2>1, <2>3, <2>6, <2>7 DEF TimeListInv
<1> QED BY <1>2, <1>3

LEMMA RestIs ==
  ASSUME TimeIInv, NEW a \in TimeAlarms
  PROVE  LET lo == (timeLost \cup InFrontOf(a)) \ {a}
         IN  /\ Rest(a) \in Seq(TimeAlarms) /\ Once(Rest(a)) /\ ToSet(Rest(a)) \subseteq ToSet(timeList)
             /\ lo \subseteq TimeAlarms /\ ToSet(Rest(a)) \cap lo = {}
             /\ \A b : b \in ToSet(Rest(a)) \cup lo <=> b # a /\ b \in ToSet(timeList) \cup timeLost
<1>1. timeList \in Seq(TimeAlarms) /\ TimeListInv /\ timeLost \subseteq TimeAlarms
  BY DEF TimeIInv, TimeTypeOK
<1>2. CASE a \notin ToSet(timeList)
  <2>1. Rest(a) = timeList /\ InFrontOf(a) = {}
    BY <1>2 DEF Rest, InFrontOf
  <2> QED BY <1>1, <1>2, <2>1 DEF TimeListInv
<1>3. CASE a \in ToSet(timeList)
  <2> DEFINE p == TimePlace(a)
             r == SubSeq(timeList, p + 1, Len(timeList))
             f == {timeList[i] : i \in 1 .. p - 1}
  <2>1. Rest(a) = r /\ InFrontOf(a) = f
    BY <1>3 DEF Rest, InFrontOf
  <2>2. p \in DOMAIN timeList /\ timeList[p] = a
    BY <1>3 DEF TimePlace, ToSet
  <2>3. Len(timeList) \in Nat /\ DOMAIN timeList = 1 .. Len(timeList)
    BY <1>1
  <2> HIDE DEF p
  <2>4. p \in 1 .. Len(timeList) /\ p + 1 \in Nat
    BY <2>2, <2>3
  <2>5. /\ r \in Seq(TimeAlarms) /\ DOMAIN r = 1 .. Len(timeList) - p
        /\ \A n \in 1 .. Len(timeList) - p : r[n] = timeList[p + n]
    BY <1>1, <2>3, <2>4
  <2> HIDE DEF r
  <2>6. \A n \in DOMAIN r : n \in Nat /\ p + n \in DOMAIN timeList /\ n >= 1 /\ r[n] = timeList[p + n]
    BY <2>3, <2>4, <2>5
  <2>7. Once(r)
    <3> SUFFICES ASSUME NEW m \in DOMAIN r, NEW n \in DOMAIN r, r[m] = r[n] PROVE m = n
      BY DEF Once
    <3>1. p + m = p + n
      BY <1>1, <2>6 DEF TimeListInv, Once
    <3> QED BY <2>4, <2>6, <3>1
  <2>8. ToSet(r) \subseteq ToSet(timeList) /\ a \notin ToSet(r)
    <3>1. \A n \in DOMAIN r : r[n] # a
      <4> TAKE n \in DOMAIN r
      <4>1. r[n] = a => p + n = p
        BY <1>1, <2>2, <2>6 DEF TimeListInv, Once
      <4> QED BY <2>4, <2>6, <4>1
    <3> QED BY <2>6, <3>1 DEF ToSet
  <2>9. \A i \in 1 .. p - 1 : i \in DOMAIN timeList /\ i \in Nat /\ i < p
    BY <2>3, <2>4
  <2>10. f \subseteq ToSet(timeList) /\ a \notin f
    <3>1. \A i \in 1 .. p - 1 : timeList[i] # a
      <4> TAKE i \in 1 .. p - 1
      <4>1. timeList[i] = a => i = p
        BY <1>1, <2>2, <2>9 DEF TimeListInv, Once
      <4> QED BY <2>4, <2>9, <4>1
    <3> QED BY <2>9, <3>1 DEF ToSet
  <2>11. ToSet(r) \cap f = {}
    <3> SUFFICES ASSUME NEW n \in DOMAIN r, NEW i \in 1 .. p - 1, r[n] = timeList[i] PROVE FALSE
      BY DEF ToSet
    <3>1. p + n = i
      BY <1>1, <2>6, <2>9 DEF TimeListInv, Once
    <3> QED BY <2>4, <2>6, <2>9, <3>1
  <2>12. ASSUME NEW b \in ToSet(timeList), b # a PROVE b \in ToSet(r) \/ b \in f
    <3>1. PICK i \in DOMAIN timeList : timeList[i] = b
      BY <2>12 DEF ToSet
    <3>2. i \in Nat /\ i # p /\ i \in 1 .. Len(timeList)
      BY <2>2, <2>3, <2>12, <3>1
    <3>3. CASE i < p
      BY <2>4, <3>1, <3>2, <3>3
    <3>4. CASE i > p
      <4>1. i - p \in DOMAIN r /\ r[i - p] = timeList[i]
        BY <2>4, <2>5, <3>2, <3>4
      <4> QED BY <3>1, <4>1 DEF ToSet
    <3> QED BY <2>4, <3>2, <3>3, <3>4
  <2> HIDE DEF f
  <2>13. a \notin timeLost /\ ToSet(timeList) \cap timeLost = {} /\ ToSet(timeList) \subseteq TimeAlarms
    BY <1>1, <1>3 DEF TimeListInv, ToSet
  <2> QED BY <1>1, <2>1, <2>5, <2>7, <2>8, <2>10, <2>11, <2>12, <2>13
<1> QED BY <1>2, <1>3

(* The counter takes the time, and every alarm on the list is checked.     *)
LEMMA TimeChangeIInv ==
  ASSUME TimeIInv, armed, SyncChangeCounter, UNCHANGED <<habits, now, timeList, timeLost>>, phase' = "dispatch"
  PROVE  TimeIInv'
<1> DEFINE als == [a \in TimeAlarms |-> IF a \in ToSet(timeList) /\ CheckTime(timeAlarm[a], value, now)
                                          THEN Fired(timeAlarm[a], now) ELSE timeAlarm[a]]
<1>1. value' = now /\ timeAlarm' = als /\ SyncComputeBracketValues(timeList, als, now, FALSE)
  BY DEF SyncChangeCounter
<1>2. /\ now \in Times /\ timeAlarm \in [TimeAlarms -> TimeAlarm] /\ value \in Times
      /\ timeList \in Seq(TimeAlarms) /\ TimeListInv
      /\ bracket \in 0 .. Never /\ less \in Least .. Never /\ armed \in BOOLEAN
  BY DEF TimeIInv, TimeTypeOK
<1>3. ASSUME NEW a \in TimeAlarms
      PROVE  /\ als[a] \in TimeAlarm /\ (als[a].state = "none" <=> timeAlarm[a].state = "none")
             /\ a \in ToSet(timeList) /\ als[a].state = "active" /\ als[a].test = "comparison" => now < als[a].value
  <2>1. CASE a \in ToSet(timeList) /\ CheckTime(timeAlarm[a], value, now)
    <3>1. timeAlarm[a].value <= now /\ timeAlarm[a] \in TimeAlarm
      BY <1>2, <2>1 DEF CheckTime, TimeAlarm
    <3>2. als[a] = Fired(timeAlarm[a], now)
      BY <2>1
    <3> HIDE DEF als
    <3> QED BY <1>2, <3>1, <3>2, FiredTimeAlarm
  <2>2. CASE a \notin ToSet(timeList)
    BY <1>2, <2>2
  <2>3. CASE a \in ToSet(timeList) /\ ~CheckTime(timeAlarm[a], value, now)
    BY <1>2, <2>3 DEF CheckTime, TimeAlarm
  <2> QED BY <2>1, <2>2, <2>3
<1>4. als \in [TimeAlarms -> TimeAlarm]
  BY <1>3
<1> HIDE DEF als
<1>5. /\ bracket' \in 0 .. Never /\ less' \in Least .. Never /\ armed' \in BOOLEAN
      /\ \/ \A a \in ToSet(timeList) : now < als[a].value => armed' /\ bracket' <= als[a].value
         \/ ~armed' /\ \E a \in ToSet(timeList) : /\ now < als[a].value
                                                  /\ als[a].test = "transition" /\ als[a].value = less'
  BY <1>1, <1>2, <1>4, BracketFound
<1>6. TimeTypeOK' /\ value' <= now'
  BY <1>1, <1>4, <1>5 DEF TimeIInv, TimeTypeOK
<1>7. TimeListInv'
  BY <1>1, <1>2, <1>3 DEF TimeListInv
<1>8. \A a \in TimeAlarms \ timeLost : als[a].state = "active" => a \in ToSet(timeList)
  BY <1>2, <1>3 DEF TimeListInv
<1>9. NoOversleep'
  BY <1>1, <1>5, <1>8, Zenon DEF NoOversleep, Active, Removed
<1>10. AllChecked'
  BY <1>1, <1>3, <1>8 DEF AllChecked, Active
<1> QED BY <1>6, <1>7, <1>9, <1>10 DEF TimeIInv

(* A request asks for the time only when nothing is due, or the clients    *)
(* are the ones that do not care.                                          *)
LEMMA NothingPassed ==
  ASSUME TimeIInv, Due => "query" \in habits
  PROVE  "query" \notin habits =>
           \A a \in TimeAlarms \ timeLost :
             Active(a) /\ timeAlarm[a].test = "comparison" => now < timeAlarm[a].value
<1> SUFFICES ASSUME "query" \notin habits, NEW a \in TimeAlarms \ timeLost, Active(a), timeAlarm[a].test = "comparison"
             PROVE  now < timeAlarm[a].value
  OBVIOUS
<1>1. a \in ToSet(timeList)
  BY ListedTime DEF TimeIInv
<1> QED BY <1>1 DEF TimeIInv, TimeTypeOK, Due, CheckTime, TimeAlarm, Active

LEMMA QueryIInv ==
  ASSUME TimeIInv, QueryCounter, UNCHANGED habits
  PROVE  TimeIInv'
<1>1. /\ value' = now /\ UNCHANGED <<now, bracket, less, armed, timeAlarm, timeList, timeLost, phase>>
      /\ Due => "query" \in habits
  BY DEF QueryCounter
<1>2. TimeTypeOK' /\ value' <= now'
  BY <1>1 DEF TimeIInv, TimeTypeOK
<1>3. TimeListInv'
  BY <1>1 DEF TimeIInv, TimeListInv
<1>4. NoOversleep'
  <2>1. Removed' <=> Removed
    BY <1>1 DEF Removed
  <2>2. value <= now /\ value \in Nat /\ now \in Nat /\ \A a \in TimeAlarms : timeAlarm[a].value \in Nat
    BY DEF TimeIInv, TimeTypeOK, TimeAlarm
  <2> QED BY <1>1, <2>1, <2>2 DEF TimeIInv, NoOversleep, Active
<1>5. AllChecked'
  BY <1>1, NothingPassed DEF AllChecked, Active
<1> QED BY <1>2, <1>3, <1>4, <1>5 DEF TimeIInv

LEMMA TimeAlarmParts ==
  ASSUME NEW al \in TimeAlarm
  PROVE  al.value \in Nat /\ al.test \in {"comparison", "transition"} /\ al.delta \in Nat
<1>1. al.value \in 0 .. 2 * MaxTime /\ al.test \in {"comparison", "transition"} /\ al.delta \in TimeDeltas
  BY DEF TimeAlarm
<1>2. MaxTime \in Nat /\ TimeDeltas \subseteq 0 .. MaxTime
  OBVIOUS
<1>3. 0 .. 2 * MaxTime \subseteq Nat /\ 0 .. MaxTime \subseteq Nat
  BY <1>2
<1> QED BY <1>1, <1>2, <1>3

(* An alarm is set.  One that is due at once fires, and if it repeats then *)
(* its next time is not among those the bracket was found from.            *)
LEMMA SetAlarmIInv ==
  ASSUME TimeIInv, UNCHANGED habits, NEW a \in TimeAlarms, NEW al \in TimeAlarm, al.state = "active",
         al.value <= now /\ al.delta # 0 /\ al.test = "comparison" => "past" \in habits,
         SetAlarm(a, al)
  PROVE  TimeIInv'
<1> DEFINE als == [timeAlarm EXCEPT ![a] = al]
           fired == IF CheckTime(al, now, now) THEN Fired(al, now) ELSE al
           s == Added(a)
<1>1. /\ value' = now /\ timeAlarm' = [timeAlarm EXCEPT ![a] = fired] /\ timeList' = s
      /\ SyncComputeBracketValues(s, als, now, TRUE)
      /\ UNCHANGED <<now, timeLost, phase>> /\ (Due => "query" \in habits)
  BY DEF SetAlarm
<1>2. /\ now \in Times /\ timeAlarm \in [TimeAlarms -> TimeAlarm] /\ value \in Times /\ TimeListInv
      /\ bracket \in 0 .. Never /\ less \in Least .. Never /\ armed \in BOOLEAN
  BY DEF TimeIInv, TimeTypeOK
<1>3. als \in [TimeAlarms -> TimeAlarm] /\ als[a] = al /\ \A b \in TimeAlarms \ {a} : als[b] = timeAlarm[b]
  BY <1>2
<1>4. /\ fired \in TimeAlarm /\ fired.state # "none"
      /\ fired.state = "active" /\ fired.test = "comparison" => now < fired.value
      /\ fired = al \/ (~(now < al.value) /\ (fired.state # "active" \/ "past" \in habits))
  <2>1. al.value \in Nat /\ al.test \in {"comparison", "transition"} /\ al.delta \in Nat
    BY TimeAlarmParts
  <2>2. CASE CheckTime(al, now, now)
    <3>1. al.value <= now /\ al.test = "comparison"
      BY <1>2, <2>1, <2>2 DEF CheckTime
    <3>2. fired = Fired(al, now)
      BY <2>2
    <3>3. /\ Fired(al, now) \in TimeAlarm /\ Fired(al, now).state # "none"
          /\ Fired(al, now).state = "active" => now < Fired(al, now).value
          /\ al.delta = 0 => Fired(al, now).state # "active"
      BY <1>2, <3>1, FiredTimeAlarm
    <3> HIDE DEF fired
    <3> QED BY <1>2, <2>1, <3>1, <3>2, <3>3
  <2>3. CASE ~CheckTime(al, now, now)
    BY <1>2, <2>1, <2>3 DEF CheckTime
  <2> QED BY <2>2, <2>3
<1>5. /\ s \in Seq(TimeAlarms) /\ Once(s) /\ ToSet(s) \cap timeLost = {}
      /\ \A b : b \in ToSet(s) \cup timeLost <=> b = a \/ b \in ToSet(timeList) \cup timeLost
  BY AddedIs
<1> HIDE DEF als, fired, s
<1>6. /\ bracket' \in 0 .. Never /\ less' \in Least .. Never /\ armed' \in BOOLEAN
      /\ \/ \A b \in ToSet(s) : now < als[b].value => armed' /\ bracket' <= als[b].value
         \/ ~armed' /\ \E b \in ToSet(s) : /\ now < als[b].value
                                           /\ als[b].test = "transition" /\ als[b].value = less'
  BY <1>1, <1>2, <1>3, <1>5, BracketFound
<1>7. timeAlarm' \in [TimeAlarms -> TimeAlarm] /\ timeAlarm'[a] = fired /\ \A b \in TimeAlarms \ {a} : timeAlarm'[b] = timeAlarm[b]
  BY <1>1, <1>2, <1>4
<1>8. TimeTypeOK' /\ value' <= now'
  BY <1>1, <1>5, <1>6, <1>7 DEF TimeIInv, TimeTypeOK
<1>9. TimeListInv'
  BY <1>1, <1>2, <1>4, <1>5, <1>7 DEF TimeListInv
<1>10. \A b \in ToSet(s) : b \in TimeAlarms
  BY <1>5 DEF ToSet
<1>11. \A b \in ToSet(s) : now < als[b].value => timeAlarm'[b] = als[b]
  BY <1>3, <1>4, <1>7, <1>10
<1>12. NoOversleep'
  <2> SUFFICES ASSUME "past" \notin habits, NEW b \in TimeAlarms \ timeLost, timeAlarm'[b].state = "active",
                      timeAlarm'[b].value > now
               PROVE  Removed' \/ (armed' /\ bracket' <= timeAlarm'[b].value)
    BY <1>1 DEF NoOversleep, Active
  <2>1. b \in ToSet(s)
    BY <1>1, <1>9 DEF TimeListInv
  <2>2. now < als[b].value /\ timeAlarm'[b] = als[b]
    BY <1>3, <1>4, <1>7
  <2>3. ASSUME NEW x \in ToSet(s), ~armed', now < als[x].value, als[x].test = "transition", als[x].value = less'
        PROVE  Removed'
    BY <1>1, <1>11, <2>3 DEF Removed
  <2> QED BY <1>6, <2>1, <2>2, <2>3
<1>13. AllChecked'
  BY <1>1, <1>4, <1>7, NothingPassed DEF AllChecked, Active
<1> QED BY <1>8, <1>9, <1>12, <1>13 DEF TimeIInv

(* An alarm is freed: those that were in front of it are lost.             *)
LEMMA TimeDestroyIInv ==
  ASSUME TimeIInv, UNCHANGED habits, NEW a \in TimeAlarms, DestroyTimeAlarm(a)
  PROVE  TimeIInv'
<1> DEFINE als == [timeAlarm EXCEPT ![a] = NoTimeAlarm]
           s == Rest(a)
           lo == (timeLost \cup InFrontOf(a)) \ {a}
<1>1. /\ timeAlarm' = als /\ timeList' = s /\ timeLost' = lo
      /\ SyncComputeBracketValues(s, als, value, TRUE)
      /\ UNCHANGED <<now, value, phase>>
  BY DEF DestroyTimeAlarm
<1>2. /\ als \in [TimeAlarms -> TimeAlarm] /\ als[a].state = "none"
      /\ \A b \in TimeAlarms \ {a} : als[b] = timeAlarm[b]
  BY NoTimeAlarmTyped DEF TimeIInv, TimeTypeOK, NoTimeAlarm
<1>3. /\ s \in Seq(TimeAlarms) /\ Once(s) /\ ToSet(s) \subseteq ToSet(timeList)
      /\ lo \subseteq TimeAlarms /\ ToSet(s) \cap lo = {}
      /\ \A b : b \in ToSet(s) \cup lo <=> b # a /\ b \in ToSet(timeList) \cup timeLost
  BY RestIs, Zenon
<1>4. TimeListInv /\ value \in Times /\ bracket \in 0 .. Never /\ less \in Least .. Never /\ armed \in BOOLEAN
  BY DEF TimeIInv, TimeTypeOK
<1> HIDE DEF als, s, lo
<1>5. /\ bracket' \in 0 .. Never /\ less' \in Least .. Never /\ armed' \in BOOLEAN
      /\ \/ \A b \in ToSet(s) : value < als[b].value => armed' /\ bracket' <= als[b].value
         \/ ~armed' /\ \E b \in ToSet(s) : /\ value < als[b].value
                                           /\ als[b].test = "transition" /\ als[b].value = less'
  BY <1>1, <1>2, <1>3, <1>4, BracketFound
<1>6. TimeTypeOK' /\ value' <= now'
  BY <1>1, <1>2, <1>3, <1>5 DEF TimeIInv, TimeTypeOK
<1>7. TimeListInv'
  BY <1>1, <1>2, <1>3, <1>4 DEF TimeListInv
<1>8. \A b \in TimeAlarms \ lo : als[b].state = "active" => b \in ToSet(s) /\ b # a /\ b \notin timeLost
  BY <1>1, <1>2, <1>3, <1>4, <1>7 DEF TimeListInv
<1>9. NoOversleep'
  BY <1>1, <1>5, <1>8, Zenon DEF NoOversleep, Active, Removed
<1>10. AllChecked'
  BY <1>1, <1>2, <1>8 DEF TimeIInv, AllChecked, Active
<1> QED BY <1>6, <1>7, <1>9, <1>10 DEF TimeIInv

(* What changes nothing that the invariant speaks of but the time.         *)
LEMMA TimeStays ==
  ASSUME TimeIInv, now' \in Times, now <= now', phase' \in {"dispatch", "asleep"},
         UNCHANGED <<habits, value, bracket, less, armed, timeAlarm, timeList, timeLost>>
  PROVE  TimeIInv'
<1>1. TimeTypeOK'
  BY DEF TimeIInv, TimeTypeOK
<1>2. value' <= now'
  BY DEF TimeIInv, TimeTypeOK
<1>3. TimeListInv'
  BY DEF TimeIInv, TimeListInv
<1>4. NoOversleep' /\ AllChecked'
  BY DEF TimeIInv, NoOversleep, AllChecked, Active, Removed
<1> QED BY <1>1, <1>2, <1>3, <1>4 DEF TimeIInv

LEMMA NextTimeIInv == TimeIInv /\ [TimeNext]_timeVars => TimeIInv'
<1> SUFFICES ASSUME TimeIInv, [TimeNext]_timeVars PROVE TimeIInv'
  OBVIOUS
<1>1. now \in Times /\ phase \in {"dispatch", "asleep"} /\ now <= now
  BY DEF TimeIInv, TimeTypeOK
<1>2. CASE Block /\ UNCHANGED habits
  <2>1. phase' = "asleep" /\ UNCHANGED <<habits, now, value, bracket, less, armed, timeAlarm, timeList, timeLost>>
    BY <1>2 DEF Block
  <2> QED BY <1>1, <2>1, TimeStays
<1>3. CASE Wakeup /\ UNCHANGED habits
  <2>1. CASE armed /\ now >= bracket
    BY <1>3, <2>1, TimeChangeIInv DEF Wakeup
  <2>2. CASE ~(armed /\ now >= bracket)
    <3>1. phase' = "dispatch" /\ UNCHANGED <<habits, now, value, bracket, less, armed, timeAlarm, timeList, timeLost>>
      BY <1>3, <2>2 DEF Wakeup
    <3> QED BY <1>1, <3>1, TimeStays
  <2> QED BY <2>1, <2>2
<1>4. CASE Tick /\ UNCHANGED habits
  <2>1. /\ now' = now + 1 /\ now < MaxTime
        /\ UNCHANGED <<habits, value, bracket, less, armed, timeAlarm, timeList, timeLost, phase>>
    BY <1>4 DEF Tick
  <2>2. now' \in Times /\ now <= now'
    BY <1>1, <2>1
  <2> QED BY <1>1, <2>1, <2>2, TimeStays
<1>5. CASE Request /\ UNCHANGED habits
  <2>1. CASE QueryCounter
    BY <1>5, <2>1, QueryIInv
  <2>2. ASSUME NEW a \in TimeAlarms, NEW t \in {"comparison", "transition"}, NEW v \in Times, NEW d \in TimeDeltas,
               v <= now /\ d # 0 /\ t = "comparison" => "past" \in habits,
               SetAlarm(a, [state |-> "active", test |-> t, value |-> v, delta |-> d])
        PROVE  TimeIInv'
    <3>0. v \in 0 .. 2 * MaxTime
      <4>1. v \in 0 .. MaxTime /\ MaxTime \in Nat
        OBVIOUS
      <4> QED BY <4>1
    <3>1. [state |-> "active", test |-> t, value |-> v, delta |-> d] \in TimeAlarm
      BY <3>0 DEF TimeAlarm
    <3> QED BY <1>5, <2>2, <3>1, SetAlarmIInv
  <2>3. ASSUME NEW a \in TimeAlarms, DestroyTimeAlarm(a) PROVE TimeIInv'
    BY <1>5, <2>3, TimeDestroyIInv
  <2> QED BY <1>5, <2>1, <2>2, <2>3 DEF Request
<1>6. CASE UNCHANGED timeVars
  BY <1>1, <1>6, TimeStays DEF timeVars
<1> QED BY <1>2, <1>3, <1>4, <1>5, <1>6 DEF TimeNext

LEMMA TimeInvariance == TimeSpec => []TimeIInv
BY InitTimeIInv, NextTimeIInv, PTL DEF TimeSpec

(* Whatever alarms are set, fired and destroyed, for any number of them    *)
(* and any deltas, the server wakes up at the first that is still ahead,   *)
(* but for those that the list has lost, and while the handlers have not   *)
(* been removed for a transition.                                          *)
THEOREM NeverOversleeps == TimeSpec => []NoOversleep
<1>1. TimeIInv => NoOversleep
  BY DEF TimeIInv
<1> QED BY <1>1, TimeInvariance, PTL

(* If nobody but the wakeup handler finds that an alarm is due, SERVERTIME *)
(* never shows a time at which a comparison was to fire and has not, but   *)
(* for one that the list has lost.                                         *)
THEOREM AlarmsAreChecked == TimeSpec => []AllChecked
<1>1. TimeIInv => AllChecked
  BY DEF TimeIInv
<1> QED BY <1>1, TimeInvariance, PTL
=============================================================================
