-------------------------- MODULE Resources_proofs --------------------------
(* The theorems about Resources: the XIDs that are taken without a look    *)
(* into the tables are free; walks never go on from a record that was      *)
(* freed; nothing dangles; between requests the tables and the windows     *)
(* agree; and the windows of save sets survive.                            *)
(*                                                                         *)
(* The first needs IInv, that is about one table, and what the helpers of  *)
(* the tables do to sequences of any length: each is a function that is    *)
(* defined step by step, and a least counterexample takes the place of an  *)
(* induction.  The others need JInv: what the tables, the windows, the     *)
(* references and the calls in progress have to do with each other while   *)
(* delete functions free records of all tables.                            *)
EXTENDS Resources, FiniteSetTheorems, WellFoundedInduction, TLAPS

-----------------------------------------------------------------------------
(* Sequences.                                                              *)

(* A set of natural numbers has a least element.                           *)
LEMMA LeastOf ==
  ASSUME NEW S \in SUBSET Nat, S # {}
  PROVE  \E x \in S : \A y \in S : x <= y
<1>1. PICK R : IsWellFoundedOn(R, Nat) /\ \A x, y \in Nat : <<x, y>> \in R <=> x < y
  <2>1. \A x, y \in Nat : <<x, y>> \in OpToRel(<, Nat) <=> x < y
    BY DEF OpToRel
  <2> QED BY <2>1, NatLessThanWellFounded, Zenon
<1>2. PICK x \in S : \A y \in S : ~ (<<y, x>> \in R)
  <2>1. IsWellFoundedOn(R, Nat) /\ S \subseteq Nat
    BY <1>1
  <2> QED BY <2>1, WFMin, Zenon
<1>3. \A y \in S : ~(y < x)
  BY <1>1, <1>2
<1> QED BY <1>2, <1>3

\* The functions that are defined step by step, from s.
Steps(n, S, s, step) ==
  {f \in [0 .. n -> S] : f[0] = s /\ \A i \in 1 .. n : f[i] = step[i][f[i - 1]]}

(* There is one, of any length.                                            *)
LEMMA StepByStep ==
  ASSUME NEW n \in Nat, NEW S, NEW s \in S, NEW step \in [1 .. n -> [S -> S]]
  PROVE  \E f : f \in Steps(n, S, s, step)
<1> DEFINE upTo(k, f) == f \in [0 .. k -> S] /\ f[0] = s /\ \A i \in 1 .. k : f[i] = step[i][f[i - 1]]
           bad == {k \in 0 .. n : ~ \E f : upTo(k, f)}
<1>1. SUFFICES ASSUME bad # {} PROVE FALSE
  <2>1. n \notin bad => \E f : upTo(n, f)
    OBVIOUS
  <2> QED BY <1>1, <2>1 DEF Steps
<1>2. PICK k \in bad : \A j \in bad : k <= j
  <2>1. bad \in SUBSET Nat
    OBVIOUS
  <2> HIDE DEF bad
  <2> QED BY <1>1, <2>1, LeastOf
<1>3. CASE k = 0
  <2>1. upTo(0, [i \in 0 .. 0 |-> s])
    OBVIOUS
  <2> QED BY <1>2, <1>3, <2>1
<1>4. CASE k # 0
  <2>1. k - 1 \in 0 .. n /\ k - 1 \notin bad /\ k \in 1 .. n
    BY <1>2, <1>4
  <2>2. PICK f : upTo(k - 1, f)
    BY <2>1
  <2> DEFINE g == [i \in 0 .. k |-> IF i = k THEN step[k][f[k - 1]] ELSE f[i]]
  <2>3. f[k - 1] \in S /\ step[k][f[k - 1]] \in S
    BY <2>1, <2>2
  <2>4. g \in [0 .. k -> S] /\ g[0] = s
    BY <1>4, <2>1, <2>2, <2>3
  <2>5. ASSUME NEW i \in 1 .. k PROVE g[i] = step[i][g[i - 1]]
    <3>0. i - 1 \in 0 .. k /\ i - 1 # k /\ i \in 0 .. k
      BY <2>1
    <3>1. g[i - 1] = f[i - 1]
      BY <3>0
    <3>2. CASE i = k
      <4>1. g[k] = step[k][f[k - 1]]
        BY <3>0, <3>2
      <4> QED BY <3>1, <3>2, <4>1
    <3>3. CASE i # k
      <4>1. g[i] = f[i] /\ i \in 1 .. k - 1
        BY <2>1, <3>0, <3>3
      <4>2. f[i] = step[i][f[i - 1]]
        BY <2>2, <4>1
      <4> QED BY <3>1, <4>1, <4>2
    <3> QED BY <3>2, <3>3
  <2>6. upTo(k, g)
    BY <2>4, <2>5
  <2> QED BY <1>2, <2>6
<1> QED BY <1>3, <1>4

\* The records of a bucket are different, and the private of a window is in
\* front of the record of the window that has its XID.
Apart(q, r) == q # r /\ (q.id = r.id => ~(q.type = "window" /\ r.type = "private"))
InOrder(s) == \A i, j \in DOMAIN s : i < j => Apart(s[i], s[j])

(* What Append does to a sequence.                                         *)
LEMMA AppendIs ==
  ASSUME NEW D, NEW s \in Seq(D), NEW d \in D
  PROVE  /\ Append(s, d) \in Seq(D) /\ DOMAIN Append(s, d) = 1 .. Len(s) + 1
         /\ DOMAIN s = 1 .. Len(s) /\ Len(s) \in Nat
         /\ Append(s, d)[Len(s) + 1] = d /\ \A i \in DOMAIN s : Append(s, d)[i] = s[i]
OBVIOUS

(* What concatenation does to two sequences.                               *)
LEMMA ConcatIs ==
  ASSUME NEW D, NEW s \in Seq(D), NEW t \in Seq(D)
  PROVE  /\ s \o t \in Seq(D) /\ DOMAIN (s \o t) = 1 .. Len(s) + Len(t)
         /\ DOMAIN s = 1 .. Len(s) /\ Len(s) \in Nat
         /\ DOMAIN t = 1 .. Len(t) /\ Len(t) \in Nat
         /\ \A i \in DOMAIN s : (s \o t)[i] = s[i]
         /\ \A i \in DOMAIN t : (s \o t)[Len(s) + i] = t[i]
OBVIOUS

(* Those takes the elements of the set, in their order.                    *)
LEMMA ThoseIs ==
  ASSUME NEW D, NEW s \in Seq(D), NEW S
  PROVE  /\ Those(s, S) \in Seq(D)
         /\ Range(Those(s, S)) = Range(s) \cap S
         /\ InOrder(s) => InOrder(Those(s, S))
<1> DEFINE n == Len(s)
           step == [i \in 1 .. n |-> [t \in Seq(D) |-> IF s[i] \in S THEN Append(t, s[i]) ELSE t]]
           def(f) == f = [i \in 0 .. n |-> IF i = 0 THEN <<>>
                            ELSE IF s[i] \in S THEN Append(f[i - 1], s[i]) ELSE f[i - 1]]
<1>1. n \in Nat /\ DOMAIN s = 1 .. n /\ \A i \in 1 .. n : s[i] \in D
  OBVIOUS
<1>2. step \in [1 .. n -> [Seq(D) -> Seq(D)]] /\ <<>> \in Seq(D)
  BY <1>1
<1>3. \A i \in 1 .. n, t \in Seq(D) : step[i][t] = IF s[i] \in S THEN Append(t, s[i]) ELSE t
  OBVIOUS
<1> HIDE DEF n, step
<1>4. PICK f \in [0 .. n -> Seq(D)] : f[0] = <<>> /\ \A i \in 1 .. n : f[i] = step[i][f[i - 1]]
  <2>1. \E f : f \in Steps(n, Seq(D), <<>>, step)
    BY <1>1, <1>2, StepByStep, Zenon
  <2> QED BY <2>1 DEF Steps
<1>5. \A i \in 1 .. n : f[i - 1] \in Seq(D) /\ f[i] = IF s[i] \in S THEN Append(f[i - 1], s[i]) ELSE f[i - 1]
  <2>1. \A i \in 1 .. n : i - 1 \in 0 .. n
    BY <1>1
  <2> QED BY <1>3, <1>4, <2>1
<1>6. def(f)
  <2>1. ASSUME NEW i \in 0 .. n
        PROVE  f[i] = IF i = 0 THEN <<>> ELSE IF s[i] \in S THEN Append(f[i - 1], s[i]) ELSE f[i - 1]
    <3>1. CASE i = 0
      BY <1>4, <3>1
    <3>2. CASE i # 0
      <4>1. i \in 1 .. n
        BY <1>1, <3>2
      <4> QED BY <1>5, <3>2, <4>1
    <3> QED BY <3>1, <3>2
  <2> QED BY <1>4, <2>1
<1> DEFINE g == CHOOSE h : def(h)
<1>7. def(g)
  BY <1>6
<1> HIDE DEF g
<1>8. ASSUME NEW i \in 0 .. n
      PROVE  g[i] = IF i = 0 THEN <<>> ELSE IF s[i] \in S THEN Append(g[i - 1], s[i]) ELSE g[i - 1]
  <2> DEFINE h == [m \in 0 .. n |-> IF m = 0 THEN <<>>
                     ELSE IF s[m] \in S THEN Append(g[m - 1], s[m]) ELSE g[m - 1]]
  <2>1. g = h
    BY <1>7
  <2>2. h[i] = IF i = 0 THEN <<>> ELSE IF s[i] \in S THEN Append(g[i - 1], s[i]) ELSE g[i - 1]
    OBVIOUS
  <2> HIDE DEF h
  <2> QED BY <2>1, <2>2
<1>9. g[0] = <<>> /\ \A i \in 1 .. n : g[i] = IF s[i] \in S THEN Append(g[i - 1], s[i]) ELSE g[i - 1]
  <2>1. 0 \in 0 .. n /\ \A i \in 1 .. n : i \in 0 .. n /\ i # 0
    BY <1>1
  <2> QED BY <1>8, <2>1
<1>10. Those(s, S) = g[n]
  BY DEF Those, n, g
<1> DEFINE good(k) == /\ g[k] \in Seq(D)
                      /\ \A d : d \in Range(g[k]) <=> d \in S /\ \E i \in 1 .. k : s[i] = d
                      /\ InOrder(s) => InOrder(g[k])
           bad == {k \in 0 .. n : ~good(k)}
<1>11. good(0)
  BY <1>9 DEF Range, InOrder
<1>12. ASSUME NEW k \in 1 .. n, good(k - 1) PROVE good(k)
  <2> DEFINE t == g[k - 1]
             u == g[k]
  <2>1. t \in Seq(D) /\ s[k] \in D /\ k \in 1 .. k /\ k - 1 \in Nat
    BY <1>1, <1>12
  <2>2. \A i \in 1 .. k - 1 : i \in 1 .. k /\ i < k
    BY <1>1
  <2>3. \A i \in 1 .. k : i = k \/ i \in 1 .. k - 1
    BY <1>1
  <2>4. \A d : d \in Range(t) <=> d \in S /\ \E i \in 1 .. k - 1 : s[i] = d
    BY <1>12
  <2>6. u = IF s[k] \in S THEN Append(t, s[k]) ELSE t
    BY <1>9
  <2> HIDE DEF t, u
  <2>7. CASE s[k] \notin S
    <3>1. u = t
      BY <2>6, <2>7
    <3>2. \A d : d \in Range(u) <=> d \in S /\ \E i \in 1 .. k : s[i] = d
      BY <2>2, <2>3, <2>4, <2>7, <3>1
    <3>3. InOrder(s) => InOrder(u)
      BY <1>12, <3>1 DEF t
    <3> QED BY <2>1, <3>1, <3>2, <3>3 DEF u
  <2>8. CASE s[k] \in S
    <3>1. u = Append(t, s[k])
      BY <2>6, <2>8
    <3>2. /\ u \in Seq(D) /\ DOMAIN u = 1 .. Len(t) + 1 /\ DOMAIN t = 1 .. Len(t) /\ Len(t) \in Nat
          /\ u[Len(t) + 1] = s[k] /\ \A i \in DOMAIN t : u[i] = t[i]
      BY <2>1, <3>1, AppendIs
    <3>3. \A d : d \in Range(u) <=> d = s[k] \/ d \in Range(t)
      <4>1. Len(t) + 1 \in DOMAIN u /\ \A i \in DOMAIN t : i \in DOMAIN u
        BY <3>2
      <4>2. \A i \in DOMAIN u : i = Len(t) + 1 \/ i \in DOMAIN t
        BY <3>2
      <4> QED BY <3>2, <4>1, <4>2 DEF Range
    <3>4. \A d : d \in Range(u) <=> d \in S /\ \E i \in 1 .. k : s[i] = d
      BY <2>1, <2>2, <2>3, <2>4, <2>8, <3>3
    <3>5. ASSUME InOrder(s) PROVE InOrder(u)
      <4>1. InOrder(t)
        BY <1>12, <3>5 DEF t
      <4>2. SUFFICES ASSUME NEW i \in DOMAIN u, NEW j \in DOMAIN u, i < j PROVE Apart(u[i], u[j])
        BY DEF InOrder
      <4>3. CASE j \in DOMAIN t
        <5>1. i \in DOMAIN t
          BY <3>2, <4>2, <4>3
        <5> QED BY <3>2, <4>1, <4>2, <4>3, <5>1 DEF InOrder
      <4>4. CASE j \notin DOMAIN t
        <5>1. j = Len(t) + 1 /\ i \in DOMAIN t
          BY <3>2, <4>2, <4>4
        <5>2. u[i] \in Range(t)
          BY <3>2, <5>1 DEF Range
        <5>3. PICK m \in 1 .. k - 1 : s[m] = u[i]
          BY <2>4, <5>2
        <5>4. m \in DOMAIN s /\ k \in DOMAIN s /\ m < k
          BY <1>1, <5>3
        <5>5. u[j] = s[k]
          BY <3>2, <5>1
        <5> QED BY <3>5, <5>3, <5>4, <5>5 DEF InOrder
      <4> QED BY <4>3, <4>4
    <3> QED BY <3>2, <3>4, <3>5 DEF u
  <2> QED BY <2>7, <2>8
<1> HIDE DEF good
<1>13. bad = {}
  <2>1. SUFFICES ASSUME bad # {} PROVE FALSE
    OBVIOUS
  <2>2. PICK k \in bad : \A j \in bad : k <= j
    <3>1. bad \in SUBSET Nat
      BY <1>1
    <3> HIDE DEF bad
    <3> QED BY <2>1, <3>1, LeastOf
  <2>3. k # 0
    BY <1>11, <2>2
  <2>4. k \in 1 .. n /\ k - 1 \in 0 .. n /\ ~(k <= k - 1)
    BY <1>1, <2>2, <2>3
  <2>5. good(k - 1)
    BY <2>2, <2>4
  <2> QED BY <1>12, <2>2, <2>4, <2>5
<1>14. good(n)
  <2>1. n \in 0 .. n
    BY <1>1
  <2> QED BY <1>13, <2>1
<1>15. \A d : d \in Range(s) <=> \E i \in 1 .. n : s[i] = d
  BY <1>1 DEF Range
<1>16. g[n] \in Seq(D) /\ Range(g[n]) = Range(s) \cap S /\ (InOrder(s) => InOrder(g[n]))
  BY <1>14, <1>15 DEF good
<1> QED BY <1>10, <1>16

(* A concatenation has what its parts have.                                *)
LEMMA RangeOfConcat ==
  ASSUME NEW D, NEW s \in Seq(D), NEW t \in Seq(D)
  PROVE  /\ s \o t \in Seq(D) /\ \A d : d \in Range(s \o t) <=> d \in Range(s) \/ d \in Range(t)
         /\ /\ InOrder(s) /\ InOrder(t)
            /\ \A d \in Range(s), e \in Range(t) : Apart(d, e)
            => InOrder(s \o t)
<1> DEFINE u == s \o t
<1>1. /\ u \in Seq(D) /\ DOMAIN u = 1 .. Len(s) + Len(t)
      /\ DOMAIN s = 1 .. Len(s) /\ Len(s) \in Nat
      /\ DOMAIN t = 1 .. Len(t) /\ Len(t) \in Nat
      /\ \A i \in DOMAIN s : u[i] = s[i]
      /\ \A i \in DOMAIN t : u[Len(s) + i] = t[i]
  BY ConcatIs
<1> HIDE DEF u
<1>2. ASSUME NEW i \in DOMAIN u PROVE u[i] \in Range(s) \cup Range(t)
  <2>1. CASE i \in DOMAIN s
    BY <1>1, <2>1 DEF Range
  <2>2. CASE i \notin DOMAIN s
    <3>1. i - Len(s) \in DOMAIN t /\ Len(s) + (i - Len(s)) = i
      BY <1>1, <2>2
    <3>2. u[i] = t[i - Len(s)]
      BY <1>1, <3>1
    <3> QED BY <3>1, <3>2 DEF Range
  <2> QED BY <2>1, <2>2
<1>3. ASSUME NEW i \in DOMAIN s PROVE s[i] \in Range(u)
  <2>1. i \in DOMAIN u
    BY <1>1
  <2> QED BY <1>1, <2>1 DEF Range
<1>4. ASSUME NEW i \in DOMAIN t PROVE t[i] \in Range(u)
  <2>1. Len(s) + i \in DOMAIN u
    BY <1>1
  <2> QED BY <1>1, <2>1 DEF Range
<1>5. \A d : d \in Range(u) <=> d \in Range(s) \/ d \in Range(t)
  BY <1>2, <1>3, <1>4 DEF Range
<1>6. ASSUME InOrder(s), InOrder(t), \A d \in Range(s), e \in Range(t) : Apart(d, e)
      PROVE  InOrder(u)
  <2> SUFFICES ASSUME NEW i \in DOMAIN u, NEW j \in DOMAIN u, i < j PROVE Apart(u[i], u[j])
    BY DEF InOrder
  <2>1. CASE j \in DOMAIN s
    <3>1. i \in DOMAIN s
      BY <1>1, <2>1
    <3> QED BY <1>1, <1>6, <2>1, <3>1 DEF InOrder
  <2>2. CASE i \notin DOMAIN s
    <3>0. i \in Int /\ j \in Int /\ i > Len(s) /\ j > Len(s)
      BY <1>1, <2>2
    <3>1. /\ i - Len(s) \in DOMAIN t /\ Len(s) + (i - Len(s)) = i
          /\ j - Len(s) \in DOMAIN t /\ Len(s) + (j - Len(s)) = j
          /\ i - Len(s) < j - Len(s)
      BY <1>1, <3>0
    <3>2. u[i] = t[i - Len(s)] /\ u[j] = t[j - Len(s)]
      BY <1>1, <3>1
    <3> QED BY <1>6, <3>1, <3>2 DEF InOrder
  <2>3. CASE i \in DOMAIN s /\ j \notin DOMAIN s
    <3>1. j - Len(s) \in DOMAIN t /\ Len(s) + (j - Len(s)) = j
      BY <1>1, <2>3
    <3>2. u[i] = s[i] /\ u[j] = t[j - Len(s)]
      BY <1>1, <2>3, <3>1
    <3>3. s[i] \in Range(s) /\ t[j - Len(s)] \in Range(t)
      BY <2>3, <3>1 DEF Range
    <3> QED BY <1>6, <3>2, <3>3
  <2> QED BY <2>1, <2>2, <2>3
<1> QED BY <1>1, <1>5, <1>6 DEF u

(* A function on 1 .. n is a sequence.                                     *)
LEMMA FunctionIsSeq ==
  ASSUME NEW D, NEW n \in Nat, NEW f \in [1 .. n -> D]
  PROVE  f \in Seq(D) /\ Len(f) = n
OBVIOUS

(* RemoveAt leaves out one element, and those after it move up.            *)
LEMMA RemoveAtIs ==
  ASSUME NEW D, NEW s \in Seq(D), NEW i \in DOMAIN s
  PROVE  /\ RemoveAt(s, i) \in Seq(D)
         /\ DOMAIN RemoveAt(s, i) = 1 .. Len(s) - 1
         /\ \A j \in 1 .. Len(s) - 1 : RemoveAt(s, i)[j] = s[IF j < i THEN j ELSE j + 1]
<1> DEFINE r      == RemoveAt(s, i)
           before == SubSeq(s, 1, i - 1)
           after  == SubSeq(s, i + 1, Len(s))
<1>1. /\ before \in Seq(D) /\ Len(before) = i - 1
      /\ \A j \in 1 .. i - 1 : before[j] = s[j]
  OBVIOUS
<1>2. /\ after \in Seq(D) /\ Len(after) = Len(s) - i
      /\ \A j \in 1 .. Len(s) - i : after[j] = s[i + j]
  OBVIOUS
<1>3. r = before \o after
  BY DEF RemoveAt
<1> HIDE DEF before, after, r
<1>4. r \in Seq(D) /\ Len(r) = Len(s) - 1
  BY <1>1, <1>2, <1>3
<1>5. \A j \in 1 .. Len(s) - 1 : r[j] = s[IF j < i THEN j ELSE j + 1]
  BY <1>1, <1>2, <1>3
<1>6. DOMAIN r = 1 .. Len(s) - 1
  BY <1>4
<1> QED BY <1>4, <1>5, <1>6 DEF r

(* RemoveFirst adds nothing to a sequence.                                 *)
LEMMA RemoveFirstIs ==
  ASSUME NEW D, NEW s \in Seq(D), NEW d
  PROVE  RemoveFirst(s, d) \in Seq(D) /\ Range(RemoveFirst(s, d)) \subseteq Range(s)
<1>1. DOMAIN s = 1 .. Len(s) /\ Len(s) \in Nat
  OBVIOUS
<1>2. CASE \A i \in 1 .. Len(s) : s[i] # d
  BY <1>2 DEF RemoveFirst
<1>3. CASE \E i \in 1 .. Len(s) : s[i] = d
  <2> DEFINE I == {i \in 1 .. Len(s) : s[i] = d}
             m == SelectInSeq(s, LAMBDA v : v = d)
             r == RemoveAt(s, m)
  <2>1. \E i \in I : \A j \in I : i <= j
    <3>1. I \in SUBSET Nat /\ I # {}
      BY <1>1, <1>3
    <3> HIDE DEF I
    <3> QED BY <3>1, LeastOf
  <2>2. m \in I
    <3>1. m = CHOOSE i \in I : \A j \in I : i <= j
      BY <1>3 DEF SelectInSeq, Min
    <3> HIDE DEF I, m
    <3> QED BY <2>1, <3>1
  <2>3. m \in 1 .. Len(s)
    BY <2>2
  <2>4. RemoveFirst(s, d) = r
    BY <1>3 DEF RemoveFirst
  <2> HIDE DEF m, I
  <2>5. m \in DOMAIN s
    BY <1>1, <2>3
  <2>8. /\ r \in Seq(D) /\ DOMAIN r = 1 .. Len(s) - 1
        /\ \A j \in 1 .. Len(s) - 1 : r[j] = s[IF j < m THEN j ELSE j + 1]
    BY <2>5, RemoveAtIs
  <2> HIDE DEF r
  <2>9. \A j \in 1 .. Len(s) - 1 : j \in DOMAIN s /\ j + 1 \in DOMAIN s
    BY <1>1
  <2>10. Range(r) \subseteq Range(s)
    BY <2>8, <2>9 DEF Range
  <2> QED BY <2>4, <2>8, <2>10
<1> QED BY <1>2, <1>3

(* FlattenSeq has what its sequences have.                                 *)
LEMMA FlattenIs ==
  ASSUME NEW D, NEW s \in Seq(Seq(D))
  PROVE  /\ FlattenSeq(s) \in Seq(D)
         /\ Range(FlattenSeq(s)) = UNION {Range(s[i]) : i \in DOMAIN s}
         /\ /\ \A i \in DOMAIN s : InOrder(s[i])
            /\ \A i, j \in DOMAIN s : i < j => \A d \in Range(s[i]), e \in Range(s[j]) : Apart(d, e)
            => InOrder(FlattenSeq(s))
<1>0. Len(s) \in Nat /\ DOMAIN s = 1 .. Len(s) /\ \A i \in 1 .. Len(s) : s[i] \in Seq(D)
  OBVIOUS
<1>1. CASE Len(s) = 0
  <2>1. s = <<>>
    BY <1>0, <1>1
  <2> QED BY <1>1, <2>1 DEF FlattenSeq, Range, InOrder
<1>2. CASE Len(s) # 0
  <2> DEFINE n == Len(s)
             step == [i \in 1 .. n |-> [t \in Seq(D) |-> t \o s[i]]]
             def(f) == f = [i \in 1 .. n |-> IF i = 1 THEN s[i] ELSE f[i - 1] \o s[i]]
  <2>1. step \in [1 .. n -> [Seq(D) -> Seq(D)]] /\ <<>> \in Seq(D)
    BY <1>0
  <2>2. \A i \in 1 .. n, t \in Seq(D) : step[i][t] = t \o s[i]
    OBVIOUS
  <2>3. n \in Nat /\ n \in 1 .. n /\ 1 \in 1 .. n
    BY <1>0, <1>2
  <2>4. \A i \in 1 .. n : s[i] \in Seq(D)
    BY <1>0
  <2> HIDE DEF n, step
  <2>5. PICK f \in [0 .. n -> Seq(D)] : f[0] = <<>> /\ \A i \in 1 .. n : f[i] = step[i][f[i - 1]]
    <3>1. \E f : f \in Steps(n, Seq(D), <<>>, step)
      BY <2>1, <2>3, StepByStep, Zenon
    <3> QED BY <3>1 DEF Steps
  <2>6. \A i \in 1 .. n : f[i - 1] \in Seq(D) /\ f[i] = f[i - 1] \o s[i]
    <3>1. \A i \in 1 .. n : i - 1 \in 0 .. n
      BY <2>3
    <3> QED BY <2>2, <2>5, <3>1
  <2>7. f[1] = s[1]
    <3>1. f[1] = f[0] \o s[1]
      <4>1. 1 - 1 = 0
        OBVIOUS
      <4> QED BY <2>3, <2>6, <4>1
    <3>2. s[1] \in Seq(D)
      BY <2>3, <2>4
    <3> QED BY <2>5, <3>1, <3>2
  <2> DEFINE e == [i \in 1 .. n |-> f[i]]
  <2>8. def(e)
    <3>1. ASSUME NEW i \in 1 .. n PROVE e[i] = IF i = 1 THEN s[i] ELSE e[i - 1] \o s[i]
      <4>1. CASE i = 1
        BY <2>7, <4>1
      <4>2. CASE i # 1
        <5>1. i - 1 \in 1 .. n
          BY <2>3, <4>2
        <5>2. e[i - 1] = f[i - 1] /\ e[i] = f[i]
          BY <5>1
        <5> HIDE DEF e
        <5> QED BY <2>6, <4>2, <5>2
      <4> QED BY <4>1, <4>2
    <3> QED BY <3>1
  <2> HIDE DEF e
  <2> DEFINE g == CHOOSE h : def(h)
  <2>9. def(g)
    BY <2>8
  <2> HIDE DEF g
  <2>10. ASSUME NEW i \in 1 .. n PROVE g[i] = IF i = 1 THEN s[i] ELSE g[i - 1] \o s[i]
    <3> DEFINE h == [m \in 1 .. n |-> IF m = 1 THEN s[m] ELSE g[m - 1] \o s[m]]
    <3>1. g = h
      BY <2>9
    <3>2. h[i] = IF i = 1 THEN s[i] ELSE g[i - 1] \o s[i]
      OBVIOUS
    <3> HIDE DEF h
    <3> QED BY <3>1, <3>2
  <2>11. FlattenSeq(s) = g[n]
    BY <1>2 DEF FlattenSeq, n, g
  <2> DEFINE apart == /\ \A i \in 1 .. n : InOrder(s[i])
                      /\ \A i, j \in 1 .. n : i < j =>
                           \A d \in Range(s[i]), x \in Range(s[j]) : Apart(d, x)
             good(k) == /\ g[k] \in Seq(D)
                        /\ \A d : d \in Range(g[k]) <=> \E i \in 1 .. k : d \in Range(s[i])
                        /\ apart => InOrder(g[k])
             bad == {k \in 1 .. n : ~good(k)}
  <2>12. good(1)
    <3>1. g[1] = s[1]
      BY <2>3, <2>10
    <3>2. 1 .. 1 = {1}
      OBVIOUS
    <3> QED BY <2>3, <2>4, <3>1, <3>2
  <2>13. ASSUME NEW k \in 1 .. n, k # 1, good(k - 1) PROVE good(k)
    <3> DEFINE t == g[k - 1]
               u == g[k]
    <3>1. \A i : i \in 1 .. k <=> i = k \/ i \in 1 .. k - 1
      BY <2>3
    <3>2. t \in Seq(D) /\ s[k] \in Seq(D) /\ u = t \o s[k]
      BY <2>4, <2>10, <2>13
    <3>3. \A d : d \in Range(t) <=> \E i \in 1 .. k - 1 : d \in Range(s[i])
      BY <2>13
    <3> HIDE DEF t, u
    <3>4. u \in Seq(D) /\ \A d : d \in Range(u) <=> d \in Range(t) \/ d \in Range(s[k])
      BY <3>2, RangeOfConcat
    <3>5. \A d : d \in Range(u) <=> \E i \in 1 .. k : d \in Range(s[i])
      BY <3>1, <3>3, <3>4
    <3>6. ASSUME apart PROVE InOrder(u)
      <4>1. InOrder(t) /\ InOrder(s[k])
        BY <2>13, <3>6 DEF t
      <4>2. \A i \in 1 .. k - 1 : i \in 1 .. n /\ i < k
        BY <2>3
      <4>3. \A d \in Range(t), x \in Range(s[k]) : Apart(d, x)
        BY <3>3, <3>6, <4>2
      <4> QED BY <3>2, <4>1, <4>3, RangeOfConcat
    <3> QED BY <3>4, <3>5, <3>6 DEF u
  <2> HIDE DEF good
  <2>14. bad = {}
    <3>1. SUFFICES ASSUME bad # {} PROVE FALSE
      OBVIOUS
    <3>2. PICK k \in bad : \A j \in bad : k <= j
      <4>1. bad \in SUBSET Nat
        BY <2>3
      <4> HIDE DEF bad
      <4> QED BY <3>1, <4>1, LeastOf
    <3>3. k # 1
      BY <2>12, <3>2
    <3>4. k \in 1 .. n /\ k - 1 \in 1 .. n /\ ~(k <= k - 1)
      BY <2>3, <3>2, <3>3
    <3>5. good(k - 1)
      BY <3>2, <3>4
    <3> QED BY <2>13, <3>2, <3>3, <3>4, <3>5
  <2>15. good(n)
    BY <2>3, <2>14
  <2>16. DOMAIN s = 1 .. n
    BY <1>0 DEF n
  <2>17. Range(g[n]) = UNION {Range(s[i]) : i \in DOMAIN s}
    BY <2>15, <2>16 DEF good
  <2> QED BY <2>11, <2>15, <2>16, <2>17 DEF good
<1> QED BY <1>1, <1>2

-----------------------------------------------------------------------------
(* The search for XIDs that are not used.                                  *)

(* What the assumptions say of the constants.                              *)
LEMMA Constants ==
  /\ Ids \in Nat /\ Ids # 0
  /\ \A n \in Int : n >= 0 => n # None
BY ResourcesAssumption DEF ResourcesAssumption

(* AvailableID finds a number of the range that is not used, if there is   *)
(* one.                                                                    *)
LEMMA AvailableIs ==
  ASSUME NEW U \in SUBSET Nat, NEW lo \in 0 .. Ids, NEW hi \in -1 .. Ids - 1,
         NEW good \in {None} \cup ((0 .. Ids - 1) \ U)
  PROVE  \/ AvailableID(U, lo, hi, good) = None /\ lo .. hi \subseteq U
         \/ AvailableID(U, lo, hi, good) \in (lo .. hi) \ U
<1> DEFINE free == (lo .. hi) \ U
<1>1. CASE good \in lo .. hi
  <2>1. good # None
    BY <1>1, Constants
  <2> QED BY <1>1, <2>1 DEF AvailableID
<1>2. CASE good \notin lo .. hi /\ free = {}
  BY <1>2 DEF AvailableID
<1>3. CASE good \notin lo .. hi /\ free # {}
  <2>1. free \in SUBSET Nat
    BY Constants
  <2>2. AvailableID(U, lo, hi, good) = CHOOSE n \in free : \A m \in free : n <= m
    BY <1>3 DEF AvailableID
  <2> HIDE DEF free
  <2>3. \E n \in free : \A m \in free : n <= m
    BY <1>3, <2>1, LeastOf
  <2>4. AvailableID(U, lo, hi, good) \in free
    BY <2>2, <2>3
  <2> QED BY <2>4 DEF free
<1> QED BY <1>1, <1>2, <1>3

\* What the search has, where the numbers in U are used: a part of the range
\* has one that is not used, unless all are used.
Search(U) ==
  {r \in [lo : 0 .. Ids, hi : -1 .. Ids - 1, good : {None} \cup ((0 .. Ids - 1) \ U)] :
     r.lo .. r.hi \subseteq U => 0 .. Ids - 1 \subseteq U}

(* A step of the search leaves a part of the range, without the number.    *)
LEMMA NarrowIs ==
  ASSUME NEW U \in SUBSET Nat, NEW r \in Search(U), NEW n \in U
  PROVE  /\ Narrow(U, r, n) \in Search(U)
         /\ Narrow(U, r, n).lo .. Narrow(U, r, n).hi \subseteq (r.lo .. r.hi) \ {n}
<1>1. /\ r \in [lo : 0 .. Ids, hi : -1 .. Ids - 1, good : {None} \cup ((0 .. Ids - 1) \ U)]
      /\ r.lo .. r.hi \subseteq U => 0 .. Ids - 1 \subseteq U
  BY DEF Search
<1>2. CASE n \notin r.lo .. r.hi
  <2>1. Narrow(U, r, n) = r
    BY <1>2 DEF Narrow
  <2> QED BY <1>2, <2>1
<1>3. CASE n \in r.lo .. r.hi
  <2> DEFINE left == n - r.lo >= r.hi - n
             good == IF left THEN AvailableID(U, r.lo, n - 1, r.good)
                             ELSE AvailableID(U, n + 1, r.hi, r.good)
             low  == [r EXCEPT !.hi = n - 1, !.good = good]
             high == [r EXCEPT !.lo = n + 1, !.good = good]
  <2>1. /\ r.lo \in 0 .. Ids /\ r.hi \in -1 .. Ids - 1 /\ n \in Nat
        /\ r.good \in {None} \cup ((0 .. Ids - 1) \ U)
        /\ n + 1 \in 0 .. Ids /\ n - 1 \in -1 .. Ids - 1
        /\ r.lo <= n /\ n <= r.hi
    BY <1>1, <1>3, Constants
  <2>2. IF left THEN \/ good = None /\ r.lo .. n - 1 \subseteq U
                     \/ good \in (r.lo .. n - 1) \ U
                ELSE \/ good = None /\ n + 1 .. r.hi \subseteq U
                     \/ good \in (n + 1 .. r.hi) \ U
    <3>1. CASE left
      BY <2>1, <3>1, AvailableIs
    <3>2. CASE ~left
      BY <2>1, <3>2, AvailableIs
    <3> QED BY <3>1, <3>2
  <2>3. Narrow(U, r, n) = IF left = (good # None) THEN low ELSE high
    BY <1>3 DEF Narrow
  <2>4. /\ low.lo = r.lo /\ low.hi = n - 1 /\ high.lo = n + 1 /\ high.hi = r.hi
        /\ low.good = good /\ high.good = good
        /\ DOMAIN low = {"lo", "hi", "good"} /\ DOMAIN high = {"lo", "hi", "good"}
    BY <1>1
  <2>13. left \in BOOLEAN
    OBVIOUS
  <2> HIDE DEF good, left
  <2>5. good \in {None} \cup ((0 .. Ids - 1) \ U)
    BY <2>1, <2>2, Constants
  <2>6. good \in (r.lo .. n - 1) \ U => ~(r.lo .. n - 1 \subseteq U)
    OBVIOUS
  <2>7. good \in (n + 1 .. r.hi) \ U => ~(n + 1 .. r.hi \subseteq U)
    OBVIOUS
  <2>8. r.lo .. r.hi \subseteq (r.lo .. n - 1) \cup {n} \cup (n + 1 .. r.hi)
    BY <2>1
  <2>9. good # None <=> good \in 0 .. Ids - 1
    BY <2>5, Constants
  <2>12. None \notin r.lo .. n - 1 /\ None \notin n + 1 .. r.hi
    BY <2>1, Constants
  <2>10. CASE left = (good # None)
    <3>1. low \in [lo : 0 .. Ids, hi : -1 .. Ids - 1, good : {None} \cup ((0 .. Ids - 1) \ U)]
      BY <1>1, <2>1, <2>5
    <3>2. r.lo .. n - 1 \subseteq U => r.lo .. r.hi \subseteq U
      <4>1. CASE good = None
        <5>1. n + 1 .. r.hi \subseteq U
          BY <2>2, <2>10, <2>12, <4>1
        <5> QED BY <2>8, <5>1
      <4>2. CASE good # None
        <5>1. good \in (r.lo .. n - 1) \ U
          BY <2>2, <2>10, <4>2
        <5> QED BY <2>6, <5>1
      <4> QED BY <4>1, <4>2
    <3>3. low \in Search(U)
      BY <1>1, <2>4, <3>1, <3>2 DEF Search
    <3>4. r.lo .. n - 1 \subseteq (r.lo .. r.hi) \ {n}
      BY <2>1
    <3> QED BY <2>3, <2>4, <2>10, <3>3, <3>4
  <2>11. CASE left # (good # None)
    <3>1. high \in [lo : 0 .. Ids, hi : -1 .. Ids - 1, good : {None} \cup ((0 .. Ids - 1) \ U)]
      BY <1>1, <2>1, <2>5
    <3>2. n + 1 .. r.hi \subseteq U => r.lo .. r.hi \subseteq U
      <4>1. CASE good = None
        <5>1. r.lo .. n - 1 \subseteq U
          BY <2>2, <2>11, <2>12, <2>13, <4>1
        <5> QED BY <2>8, <5>1
      <4>2. CASE good # None
        <5>1. good \in (n + 1 .. r.hi) \ U
          BY <2>2, <2>11, <4>2
        <5> QED BY <2>7, <5>1
      <4> QED BY <4>1, <4>2
    <3>3. high \in Search(U)
      BY <1>1, <2>4, <3>1, <3>2 DEF Search
    <3>4. n + 1 .. r.hi \subseteq (r.lo .. r.hi) \ {n}
      BY <2>1
    <3> QED BY <2>3, <2>4, <2>11, <3>3, <3>4
  <2> QED BY <2>10, <2>11
<1> QED BY <1>2, <1>3

\* The records of a table, and the numbers that they have in a range.
Held(t) == UNION {Range(t.buckets[i]) : i \in DOMAIN t.buckets}
Numbers(t, kind) == {r.id[3] : r \in {q \in Held(t) : q.id[2] = kind}}

(* GetXIDRange finds a range of numbers that are not used, that is empty   *)
(* only if all are.                                                        *)
LEMMA RangeIs ==
  ASSUME NEW c, table[c].buckets \in Seq(Seq(Record)), NEW kind
  PROVE  /\ \E lo \in 0 .. Ids, hi \in -1 .. Ids - 1 : GetXIDRange(c, kind) = lo .. hi
         /\ GetXIDRange(c, kind) \cap Numbers(table[c], kind) = {}
         /\ GetXIDRange(c, kind) = {} => 0 .. Ids - 1 \subseteq Numbers(table[c], kind)
<1> DEFINE all  == FlattenSeq(table[c].buckets)
           nums == [i \in DOMAIN all |-> IF all[i].id[2] = kind THEN all[i].id[3] ELSE Ids]
           U    == Range(nums)
           n    == Len(nums)
           s    == [lo |-> 0, hi |-> Ids - 1, good |-> None]
<1>1. all \in Seq(Record) /\ Range(all) = Held(table[c])
  BY FlattenIs DEF Held
<1>2. DOMAIN all = 1 .. Len(all) /\ Len(all) \in Nat /\ \A i \in 1 .. Len(all) : all[i] \in Record
  BY <1>1
<1>3. \A r \in Record : r.id[3] \in 0 .. Ids - 1
  BY DEF Record, XID
<1> HIDE DEF all
<1>4. /\ n = Len(all) /\ DOMAIN nums = 1 .. n /\ n \in Nat
      /\ \A i \in 1 .. n : nums[i] \in 0 .. Ids
  <2>1. \A i \in 1 .. Len(all) : nums[i] \in 0 .. Ids
    BY <1>2, <1>3, Constants
  <2>2. nums \in [1 .. Len(all) -> 0 .. Ids]
    BY <1>2, <2>1
  <2> HIDE DEF nums
  <2>3. nums \in Seq(0 .. Ids) /\ Len(nums) = Len(all)
    BY <1>2, <2>2, FunctionIsSeq
  <2> QED BY <1>2, <2>2, <2>3
<1>5. U \in SUBSET Nat /\ \A i \in 1 .. n : nums[i] \in U
  <2> HIDE DEF nums, n
  <2> QED BY <1>4, Constants DEF Range
<1>6. \A m : m \in 0 .. Ids - 1 => (m \in U <=> m \in Numbers(table[c], kind))
  <2> SUFFICES ASSUME NEW m \in 0 .. Ids - 1 PROVE m \in U <=> m \in Numbers(table[c], kind)
    OBVIOUS
  <2>1. ASSUME m \in U PROVE m \in Numbers(table[c], kind)
    <3>1. PICK i \in DOMAIN all : m = IF all[i].id[2] = kind THEN all[i].id[3] ELSE Ids
      BY <2>1 DEF Range
    <3>2. all[i].id[2] = kind /\ m = all[i].id[3]
      BY <3>1, Constants
    <3>3. all[i] \in Held(table[c])
      BY <1>1, <3>1 DEF Range
    <3> QED BY <3>2, <3>3 DEF Numbers
  <2>2. ASSUME m \in Numbers(table[c], kind) PROVE m \in U
    <3>1. PICK r \in Range(all) : r.id[2] = kind /\ r.id[3] = m
      BY <1>1, <2>2 DEF Numbers
    <3>2. PICK i \in DOMAIN all : all[i] = r
      BY <3>1 DEF Range
    <3>3. nums[i] = m
      BY <3>1, <3>2
    <3> QED BY <1>2, <1>4, <1>5, <3>2, <3>3
  <2> QED BY <2>1, <2>2
<1> DEFINE step == [i \in 1 .. n |-> [r \in Search(U) |-> Narrow(U, r, nums[i])]]
           def(f) == f = [i \in 0 .. n |-> IF i = 0 THEN s ELSE Narrow(U, f[i - 1], nums[i])]
<1>7. s \in Search(U)
  BY Constants DEF Search
<1>8. GetXIDRange(c, kind) = LET f == CHOOSE f : def(f) IN f[n].lo .. f[n].hi
  BY DEF GetXIDRange, all
<1> HIDE DEF nums, U, n
<1>9. step \in [1 .. n -> [Search(U) -> Search(U)]]
  BY <1>5, NarrowIs
<1>10. \A i \in 1 .. n, r \in Search(U) : step[i][r] = Narrow(U, r, nums[i])
  OBVIOUS
<1> HIDE DEF step, s
<1>11. PICK f \in [0 .. n -> Search(U)] : f[0] = s /\ \A i \in 1 .. n : f[i] = step[i][f[i - 1]]
  <2>1. \E f : f \in Steps(n, Search(U), s, step)
    BY <1>4, <1>7, <1>9, StepByStep, Zenon
  <2> QED BY <2>1 DEF Steps
<1>12. def(f)
  <2>1. ASSUME NEW i \in 0 .. n PROVE f[i] = IF i = 0 THEN s ELSE Narrow(U, f[i - 1], nums[i])
    <3>1. CASE i = 0
      BY <1>11, <3>1
    <3>2. CASE i # 0
      <4>1. i \in 1 .. n /\ i - 1 \in 0 .. n
        BY <1>4, <3>2
      <4>2. f[i] = step[i][f[i - 1]] /\ f[i - 1] \in Search(U)
        BY <1>11, <4>1
      <4> QED BY <1>10, <3>2, <4>1, <4>2
    <3> QED BY <3>1, <3>2
  <2> QED BY <1>11, <2>1
<1> DEFINE g == CHOOSE h : def(h)
<1>13. def(g)
  BY <1>12
<1>14. GetXIDRange(c, kind) = g[n].lo .. g[n].hi
  BY <1>8
<1> HIDE DEF g
<1>15. ASSUME NEW i \in 0 .. n PROVE g[i] = IF i = 0 THEN s ELSE Narrow(U, g[i - 1], nums[i])
  <2> DEFINE h == [m \in 0 .. n |-> IF m = 0 THEN s ELSE Narrow(U, g[m - 1], nums[m])]
  <2>1. g = h
    BY <1>13
  <2>2. h[i] = IF i = 0 THEN s ELSE Narrow(U, g[i - 1], nums[i])
    OBVIOUS
  <2> HIDE DEF h
  <2> QED BY <2>1, <2>2
<1> DEFINE good(k) == g[k] \in Search(U) /\ \A i \in 1 .. k : nums[i] \notin g[k].lo .. g[k].hi
           bad == {k \in 0 .. n : ~good(k)}
<1>16. good(0)
  BY <1>4, <1>7, <1>15
<1>17. ASSUME NEW k \in 1 .. n, good(k - 1) PROVE good(k)
  <2>1. k \in 0 .. n /\ k # 0 /\ nums[k] \in U /\ \A i \in 1 .. k : i = k \/ i \in 1 .. k - 1
    BY <1>4, <1>5
  <2>2. g[k] = Narrow(U, g[k - 1], nums[k])
    BY <1>15, <2>1
  <2>3. g[k] \in Search(U) /\ g[k].lo .. g[k].hi \subseteq (g[k - 1].lo .. g[k - 1].hi) \ {nums[k]}
    <3>1. g[k - 1] \in Search(U)
      BY <1>17
    <3>2. Narrow(U, g[k - 1], nums[k]) \in Search(U)
      BY <1>5, <2>1, <3>1, NarrowIs
    <3>3. /\ Narrow(U, g[k - 1], nums[k]).lo .. Narrow(U, g[k - 1], nums[k]).hi
               \subseteq (g[k - 1].lo .. g[k - 1].hi) \ {nums[k]}
      BY <1>5, <2>1, <3>1, NarrowIs
    <3> QED BY <2>2, <3>2, <3>3
  <2> QED BY <1>17, <2>1, <2>3
<1> HIDE DEF good
<1>18. bad = {}
  <2>1. SUFFICES ASSUME bad # {} PROVE FALSE
    OBVIOUS
  <2>2. PICK k \in bad : \A j \in bad : k <= j
    <3>1. bad \in SUBSET Nat
      BY <1>4
    <3> HIDE DEF bad
    <3> QED BY <2>1, <3>1, LeastOf
  <2>3. k # 0
    BY <1>16, <2>2
  <2>4. k \in 1 .. n /\ k - 1 \in 0 .. n /\ ~(k <= k - 1)
    BY <1>4, <2>2, <2>3
  <2>5. good(k - 1)
    BY <2>2, <2>4
  <2> QED BY <1>17, <2>2, <2>4, <2>5
<1>19. good(n)
  <2>1. n \in 0 .. n
    BY <1>4
  <2> QED BY <1>18, <2>1
<1> DEFINE lo == g[n].lo
           hi == g[n].hi
<1>20. /\ lo \in 0 .. Ids /\ hi \in -1 .. Ids - 1
       /\ lo .. hi \subseteq U => 0 .. Ids - 1 \subseteq U
       /\ \A i \in 1 .. n : nums[i] \notin lo .. hi
  BY <1>19 DEF good, Search
<1> HIDE DEF lo, hi
<1>21. \A m \in U : m \notin lo .. hi
  BY <1>4, <1>20 DEF U, Range
<1>22. lo .. hi \subseteq 0 .. Ids - 1
  BY <1>20, Constants
<1>23. GetXIDRange(c, kind) = lo .. hi
  BY <1>14 DEF lo, hi
<1> QED BY <1>6, <1>20, <1>21, <1>22, <1>23

-----------------------------------------------------------------------------
(* The tables.                                                             *)

\* The tables by their types; that no count falls below zero is TypeOK's.
TableType == [buckets : Seq(Seq(Record)), elements : Int, fakeID : Nat,
              endFakeID : 0 .. Ids, expectID : Nat]
Tables == [Clients \cup {Server} -> TableType]

\* A table gives no XID away that has a record.
Fresh(t) ==
  \A r \in Held(t) : /\ r.id[2] = "fake" => r.id[3] \notin t.fakeID .. t.endFakeID - 1
                     /\ r.id[2] = "own" => r.id[3] < t.expectID

\* A table that has what another has, but for records that are gone.
Fewer(u, t) ==
  /\ Held(u) \subseteq Held(t)
  /\ u.fakeID = t.fakeID /\ u.endFakeID = t.endFakeID /\ u.expectID = t.expectID

(* What a table holds are records.                                         *)
LEMMA HeldAreRecords ==
  ASSUME NEW t \in TableType, NEW q \in Held(t)
  PROVE  q \in Record
<1>1. PICK i \in DOMAIN t.buckets : q \in Range(t.buckets[i])
  BY DEF Held
<1>2. t.buckets[i] \in Seq(Record)
  BY <1>1 DEF TableType
<1> QED BY <1>1, <1>2 DEF Range

(* A table that loses records still gives no XID away that has one.        *)
LEMMA FewerFresh ==
  ASSUME NEW t, NEW u, Fewer(u, t), Fresh(t)
  PROVE  Fresh(u)
BY DEF Fewer, Fresh

(* Unlink takes records from one table.                                    *)
LEMMA UnlinkIs ==
  ASSUME table \in Tables, NEW r, NEW n \in Int
  PROVE  /\ Unlink(r, n) \in Tables
         /\ \A c \in Clients \cup {Server} : Fewer(Unlink(r, n)[c], table[c])
<1> DEFINE k == Owner(r.id)
           h == Hash(r.id, Len(table[k].buckets))
           u == Unlink(r, n)
           b == [table[k].buckets EXCEPT ![h] = RemoveFirst(@, r)]
           t == [table[k] EXCEPT !.buckets = b, !.elements = table[k].elements - n]
<1>1. u = [table EXCEPT ![k] = t]
  BY DEF Unlink
<1> HIDE DEF k, h, u, b, t
<1>2. \A c \in Clients \cup {Server} : c # k => u[c] = table[c]
  BY <1>1 DEF Tables
<1>3. CASE k \notin Clients \cup {Server}
  <2>1. u = table
    BY <1>1, <1>3 DEF Tables
  <2> QED BY <2>1 DEF Fewer, u
<1>4. CASE k \in Clients \cup {Server}
  <2>1. table[k] \in TableType
    BY <1>4 DEF Tables
  <2>2. u[k] = t
    BY <1>1, <1>4 DEF Tables
  <2>3. \A i \in DOMAIN table[k].buckets :
          b[i] = IF i = h THEN RemoveFirst(table[k].buckets[i], r) ELSE table[k].buckets[i]
    BY DEF b
  <2>4. \A i \in DOMAIN table[k].buckets : table[k].buckets[i] \in Seq(Record)
    BY <2>1 DEF TableType
  <2>5. \A i \in DOMAIN table[k].buckets :
          b[i] \in Seq(Record) /\ Range(b[i]) \subseteq Range(table[k].buckets[i])
    BY <2>3, <2>4, RemoveFirstIs
  <2>6. DOMAIN b = DOMAIN table[k].buckets
    BY DEF b
  <2>7. b \in Seq(Seq(Record))
    <3>1. DOMAIN table[k].buckets = 1 .. Len(table[k].buckets) /\ Len(table[k].buckets) \in Nat
      BY <2>1 DEF TableType
    <3>2. b \in [1 .. Len(table[k].buckets) -> Seq(Record)]
      BY <2>5, <2>6, <3>1 DEF b
    <3> QED BY <3>1, <3>2, FunctionIsSeq
  <2>8. t \in TableType
    <3>1. table[k].elements - n \in Int
      BY <2>1 DEF TableType
    <3> QED BY <2>1, <2>7, <3>1 DEF TableType, t
  <2>9. u[k].buckets = b /\ u[k].fakeID = table[k].fakeID /\ u[k].endFakeID = table[k].endFakeID
          /\ u[k].expectID = table[k].expectID
    BY <2>1, <2>2 DEF TableType, t
  <2>10. Held(u[k]) \subseteq Held(table[k])
    BY <2>5, <2>6, <2>9 DEF Held
  <2>11. Fewer(u[k], table[k])
    BY <2>9, <2>10 DEF Fewer
  <2>12. u \in Tables
    BY <1>1, <2>8 DEF Tables
  <2>13. \A c \in Clients \cup {Server} : Fewer(table[c], table[c])
    BY DEF Fewer
  <2> QED BY <1>2, <2>11, <2>12, <2>13 DEF u
<1> QED BY <1>3, <1>4

(* RebuildTable adds nothing.                                              *)
LEMMA RebuildIs ==
  ASSUME NEW b \in Seq(Seq(Record))
  PROVE  /\ RebuildTable(b) \in Seq(Seq(Record))
         /\ UNION {Range(RebuildTable(b)[i]) : i \in DOMAIN RebuildTable(b)}
              \subseteq UNION {Range(b[i]) : i \in DOMAIN b}
<1> DEFINE all == FlattenSeq(b)
           n   == 2 * Len(b)
           S(i) == {r \in Range(all) : Hash(r.id, n) = i}
           u   == RebuildTable(b)
<1>1. all \in Seq(Record) /\ Range(all) = UNION {Range(b[i]) : i \in DOMAIN b}
  BY FlattenIs
<1>2. n \in Nat
  OBVIOUS
<1>3. u = [i \in 1 .. n |-> Those(all, S(i))]
  BY DEF RebuildTable
<1> HIDE DEF all, n, S, u
<1>4. \A i \in 1 .. n : u[i] \in Seq(Record) /\ Range(u[i]) \subseteq Range(all)
  BY <1>1, <1>3, ThoseIs
<1>5. u \in [1 .. n -> Seq(Record)]
  BY <1>3, <1>4
<1>6. u \in Seq(Seq(Record))
  BY <1>2, <1>5, FunctionIsSeq
<1>7. UNION {Range(u[i]) : i \in DOMAIN u} \subseteq Range(all)
  BY <1>4, <1>5
<1> QED BY <1>1, <1>6, <1>7 DEF u

(* AddResource adds the record to one table, where expectID is past it     *)
(* then.                                                                   *)
LEMMA AddIs ==
  ASSUME table \in Tables, NEW r \in Record
  PROVE  LET k == Owner(r.id)
             u == AddResource(r)
         IN  /\ u \in Tables /\ k \in Clients \cup {Server}
             /\ \A c \in Clients \cup {Server} : c # k => u[c] = table[c]
             /\ \A q \in Held(u[k]) : q = r \/ q \in Held(table[k])
             /\ u[k].fakeID = table[k].fakeID /\ u[k].endFakeID = table[k].endFakeID
             /\ u[k].expectID >= table[k].expectID
             /\ r.id[2] = "own" => r.id[3] < u[k].expectID
<1> DEFINE k == Owner(r.id)
           b == Grown(table[k])
           h == Hash(r.id, Len(b))
           u == AddResource(r)
           a == [b EXCEPT ![h] = <<r>> \o @]
           e == IF r.id[2] = "own" /\ r.id[3] >= table[k].expectID
                  THEN r.id[3] + 1 ELSE table[k].expectID
<1>1. r.id \in XID /\ k \in Clients \cup {Server} /\ r.id[3] \in Nat
  BY Constants DEF Record, XID, Owner
<1>2. table[k] \in TableType
  BY <1>1 DEF Tables
<1>3. /\ b \in Seq(Seq(Record))
      /\ \A q : (\E i \in DOMAIN b : q \in Range(b[i])) => q \in Held(table[k])
  <2>1. table[k].buckets \in Seq(Seq(Record))
    BY <1>2 DEF TableType
  <2>2. b = table[k].buckets \/ b = RebuildTable(table[k].buckets)
    BY DEF Grown
  <2> QED BY <2>1, <2>2, RebuildIs DEF Held
<1> DEFINE t == [table[k] EXCEPT !.buckets = a, !.elements = table[k].elements + 1, !.expectID = e]
<1>4. u = [table EXCEPT ![k] = t]
  BY DEF AddResource
<1> HIDE DEF k, b, h, u, t
<1>5. u[k] = t
  BY <1>1, <1>4 DEF Tables
<1>6. DOMAIN a = DOMAIN b /\ DOMAIN b = 1 .. Len(b) /\ Len(b) \in Nat
  BY <1>3
<1>7. \A i \in DOMAIN b : a[i] = IF i = h THEN <<r>> \o b[i] ELSE b[i]
  OBVIOUS
<1>8. \A i \in DOMAIN b : a[i] \in Seq(Record) /\ \A q \in Range(a[i]) : q = r \/ q \in Range(b[i])
  <2>1. ASSUME NEW i \in DOMAIN b
        PROVE  <<r>> \o b[i] \in Seq(Record) /\ \A q \in Range(<<r>> \o b[i]) : q = r \/ q \in Range(b[i])
    <3>1. b[i] \in Seq(Record) /\ <<r>> \in Seq(Record) /\ Range(<<r>>) = {r}
      BY <1>3 DEF Range
    <3> QED BY <3>1, RangeOfConcat
  <2>2. \A i \in DOMAIN b : b[i] \in Seq(Record)
    BY <1>3
  <2> QED BY <1>7, <2>1, <2>2
<1>9. a \in Seq(Seq(Record))
  <2>1. a \in [1 .. Len(b) -> Seq(Record)]
    BY <1>6, <1>8
  <2> HIDE DEF a
  <2> QED BY <1>6, <2>1, FunctionIsSeq
<1>10. e \in Nat /\ e >= table[k].expectID /\ (r.id[2] = "own" => r.id[3] < e)
  <2>1. table[k].expectID \in Nat
    BY <1>2 DEF TableType
  <2> QED BY <1>1, <2>1
<1> HIDE DEF a, e
<1>11. /\ u[k] \in TableType /\ u[k].buckets = a /\ u[k].expectID = e
       /\ u[k].fakeID = table[k].fakeID /\ u[k].endFakeID = table[k].endFakeID
  <2>1. table[k].elements + 1 \in Int
    BY <1>2 DEF TableType
  <2>2. t \in TableType
    BY <1>2, <1>9, <1>10, <2>1 DEF TableType, t
  <2> QED BY <1>2, <1>5, <2>2 DEF TableType, t
<1>12. \A q \in Held(u[k]) : q = r \/ q \in Held(table[k])
  BY <1>3, <1>6, <1>8, <1>11 DEF Held
<1>13. u \in Tables
  BY <1>1, <1>4, <1>5, <1>11 DEF Tables
<1>14. \A c \in Clients \cup {Server} : c # k => u[c] = table[c]
  BY <1>4 DEF Tables
<1> QED BY <1>1, <1>10, <1>11, <1>12, <1>13, <1>14 DEF k, u

-----------------------------------------------------------------------------
(* Every step keeps the XIDs fresh.                                        *)

IInv ==
  /\ setup \in Setups
  /\ state \in [Clients -> {"none", "running", "exception", "retained", "gone"}]
  /\ table \in Tables
  /\ \A w \in Live : w \in XID /\ w[2] = "own"
  /\ \A c \in Clients : state[c] = "running" => Fresh(table[c])

(* The tables are empty at the start, but for the server's.                *)
LEMMA InitIInv == Init => IInv
<1> SUFFICES ASSUME Init PROVE IInv
  OBVIOUS
<1>1. Empty \in TableType
  BY Constants DEF Empty, TableType
<1>2. ServerTable \in TableType
  <2> DEFINE r == [id |-> Root, type |-> "window", win |-> Root]
  <2>1. r \in Record
    BY Constants DEF Record, XID, Root
  <2>2. ServerTable = [buckets |-> <<<<r>>>>, elements |-> 1, fakeID |-> 0, endFakeID |-> Ids,
                       expectID |-> 1]
    BY DEF ServerTable
  <2> HIDE DEF r
  <2>3. <<<<r>>>> \in Seq(Seq(Record))
    BY <2>1
  <2>4. Ids \in 0 .. Ids
    BY Constants
  <2> QED BY <2>2, <2>3, <2>4 DEF TableType
<1>3. table \in Tables
  BY <1>1, <1>2 DEF Init, Tables
<1>4. \A w \in Live : w \in XID /\ w[2] = "own"
  BY Constants DEF Init, Live, XID, Root
<1>5. \A c \in Clients : state[c] = "none"
  BY DEF Init
<1> QED BY <1>3, <1>4, <1>5 DEF Init, IInv

(* A step that adds no window and no record keeps it.                      *)
LEMMA Thinner ==
  ASSUME IInv, setup' = setup, Live' \subseteq Live, table' \in Tables,
         state' \in [Clients -> {"none", "running", "exception", "retained", "gone"}],
         \A c \in Clients : state'[c] = "running" => state[c] = "running" /\ Fewer(table'[c], table[c])
  PROVE  IInv'
<1>1. \A c \in Clients : state'[c] = "running" => Fresh(table'[c])
  BY FewerFresh DEF IInv
<1>2. \A c \in Clients : state'[c] = "running" => Fresh(table[c])'
  BY <1>1 DEF Fresh, Held
<1> QED BY <1>2 DEF IInv, Tables, TableType, XID, Record

(* ... nor does one that leaves the tables as they are.                    *)
LEMMA Unchanged ==
  ASSUME IInv, UNCHANGED <<setup, state, table>>, Live' \subseteq Live
  PROVE  IInv'
BY Thinner DEF IInv, Fewer

(* ... nor one that unlinks a record.                                      *)
LEMMA Unlinks ==
  ASSUME IInv, UNCHANGED <<setup, state>>, Live' \subseteq Live,
         NEW r, NEW n \in Int, table' = Unlink(r, n)
  PROVE  IInv'
BY Thinner, UnlinkIs DEF IInv

(* A delete function adds no window.                                       *)
LEMMA DeleteFuncLive ==
  ASSUME NEW r, NEW calls, DeleteFunc(r, calls)
  PROVE  Live' \subseteq Live
BY DEF DeleteFunc, OtherClientGone, DRIDrawablePrivDelete, Live

(* A record that has an XID of the client's own.                           *)
LEMMA AddsOwn ==
  ASSUME IInv, UNCHANGED <<setup, state>>, NEW r \in Record, r.id[2] = "own", table' = AddResource(r),
         \A w \in Live' : w \in Live \/ (w \in XID /\ w[2] = "own")
  PROVE  IInv'
<1> DEFINE k == Owner(r.id)
<1>1. /\ table' \in Tables /\ k \in Clients \cup {Server}
      /\ \A c \in Clients \cup {Server} : c # k => table'[c] = table[c]
      /\ \A q \in Held(table'[k]) : q = r \/ q \in Held(table[k])
      /\ table'[k].fakeID = table[k].fakeID /\ table'[k].endFakeID = table[k].endFakeID
      /\ table'[k].expectID >= table[k].expectID
      /\ r.id[3] < table'[k].expectID
  BY AddIs DEF IInv
<1>2. table[k] \in TableType /\ table'[k] \in TableType
  BY <1>1 DEF IInv, Tables
<1> HIDE DEF k
<1>3. Fresh(table[k]) => Fresh(table'[k])
  <2> SUFFICES ASSUME Fresh(table[k]), NEW q \in Held(table'[k])
               PROVE  /\ q.id[2] = "fake" => q.id[3] \notin table'[k].fakeID .. table'[k].endFakeID - 1
                      /\ q.id[2] = "own" => q.id[3] < table'[k].expectID
    BY DEF Fresh
  <2>1. CASE q = r
    BY <1>1, <2>1
  <2>2. CASE q \in Held(table[k])
    <3>1. q.id[3] \in Nat
      <4>1. q \in Record
        BY <1>2, <2>2, HeldAreRecords
      <4> QED BY <4>1, Constants DEF Record, XID
    <3>2. /\ q.id[2] = "fake" => q.id[3] \notin table[k].fakeID .. table[k].endFakeID - 1
          /\ q.id[2] = "own" => q.id[3] < table[k].expectID
      BY <2>2 DEF Fresh
    <3>3. table[k].expectID \in Nat /\ table'[k].expectID \in Nat
      BY <1>2 DEF TableType
    <3> QED BY <1>1, <3>1, <3>2, <3>3
  <2> QED BY <1>1, <2>1, <2>2
<1>4. \A c \in Clients : state'[c] = "running" => Fresh(table'[c])
  BY <1>1, <1>3 DEF IInv
<1>5. \A c \in Clients : state'[c] = "running" => Fresh(table[c])'
  BY <1>4 DEF Fresh, Held
<1> QED BY <1>1, <1>5 DEF IInv, Tables, TableType, XID, Record

(* An event list gets an entry with the next XID of the range, and what is *)
(* left of the range is past it.                                           *)
LEMMA Selects ==
  ASSUME IInv, NEW c \in Clients, NEW w \in Live, SelectEvents(c, w)
  PROVE  IInv'
<1> DEFINE t     == table[c]
           range == IF t.fakeID >= t.endFakeID THEN GetXIDRange(c, "fake")
                    ELSE t.fakeID .. t.endFakeID - 1
           over  == range = {}
           first == CHOOSE n \in range : \A m \in range : n <= m
           id    == IF over THEN <<c, "over", 0>> ELSE <<c, "fake", first>>
           r     == [id |-> id, type |-> "other", win |-> w]
           u     == AddResource(r)
           left  == IF over THEN 1 ELSE first + 1
           end   == IF over THEN Ids ELSE first + Cardinality(range)
<1>1. t \in TableType /\ c \in Clients \cup {Server} /\ state[c] = "running" /\ Fresh(t)
  BY DEF SelectEvents, Sends, IInv, Tables
<1>2. /\ table' = [u EXCEPT ![c].fakeID = left, ![c].endFakeID = end]
      /\ state' = IF over THEN [state EXCEPT ![c] = "exception"] ELSE state
      /\ win' = [win EXCEPT ![w].others = @ \cup {id}]
      /\ setup' = setup
  BY DEF SelectEvents
<1>3. /\ \E lo \in Nat, hi \in -1 .. Ids - 1 : range = lo .. hi
      /\ \A q \in Held(t) : q.id[2] = "fake" => q.id[3] \notin range
  <2>1. CASE t.fakeID >= t.endFakeID
    <3>1. t.buckets \in Seq(Seq(Record))
      BY <1>1 DEF TableType
    <3>2. /\ \E lo \in 0 .. Ids, hi \in -1 .. Ids - 1 : GetXIDRange(c, "fake") = lo .. hi
          /\ GetXIDRange(c, "fake") \cap Numbers(t, "fake") = {}
      BY <3>1, RangeIs
    <3>3. \A q \in Held(t) : q.id[2] = "fake" => q.id[3] \in Numbers(t, "fake")
      BY DEF Numbers
    <3> QED BY <2>1, <3>2, <3>3, Constants
  <2>2. CASE ~(t.fakeID >= t.endFakeID)
    <3>1. t.fakeID \in Nat /\ t.endFakeID - 1 \in -1 .. Ids - 1
      BY <1>1, Constants DEF TableType
    <3> QED BY <1>1, <2>2, <3>1 DEF Fresh
  <2> QED BY <2>1, <2>2
<1> HIDE DEF t, range
<1>4. PICK lo \in Nat, hi \in -1 .. Ids - 1 : range = lo .. hi
  BY <1>3
<1>5. ~over => first = lo /\ lo <= hi
  <2>1. ~over => lo <= hi /\ lo \in lo .. hi /\ \A m \in lo .. hi : lo <= m
    BY <1>4
  <2>2. ~over => first \in lo .. hi /\ \A m \in lo .. hi : first <= m
    BY <1>4, <2>1
  <2> HIDE DEF first, over
  <2>3. SUFFICES ASSUME ~over PROVE first = lo /\ lo <= hi
    OBVIOUS
  <2> QED BY <2>1, <2>2, <2>3
<1>6. ~over => end = hi + 1
  <2>1. Cardinality(lo .. hi) = IF lo > hi THEN 0 ELSE hi - lo + 1
    BY <1>4, FS_Interval
  <2>2. ~over => end = first + Cardinality(lo .. hi)
    BY <1>4
  <2> HIDE DEF first, over, end
  <2> QED BY <1>4, <1>5, <2>1, <2>2
<1> HIDE DEF first, over
<1>7. /\ left \in Nat /\ end \in 0 .. Ids /\ id \in XID /\ Owner(id) = c
      /\ (~over => id[2] = "fake" /\ id[3] = lo)
  <2>1. CASE over
    <3>1. left = 1 /\ end = Ids /\ id = <<c, "over", 0>>
      BY <2>1
    <3> HIDE DEF left, end, id
    <3> QED BY <2>1, <3>1, Constants DEF XID, Owner
  <2>2. CASE ~over
    <3>1. left = lo + 1 /\ end = hi + 1 /\ id = <<c, "fake", lo>> /\ lo <= hi
      BY <1>5, <1>6, <2>2
    <3>2. lo \in 0 .. Ids - 1 /\ hi + 1 \in 0 .. Ids
      BY <1>4, <3>1, Constants
    <3> HIDE DEF left, end, id
    <3> QED BY <1>4, <3>1, <3>2, Constants DEF XID, Owner
  <2> QED BY <2>1, <2>2
<1>8. r \in Record
  BY <1>7 DEF Record, IInv
<1>9. /\ u \in Tables
      /\ \A d \in Clients \cup {Server} : d # c => u[d] = table[d]
      /\ \A q \in Held(u[c]) : q = r \/ q \in Held(t)
      /\ u[c].expectID >= t.expectID
  <2> DEFINE k == Owner(r.id)
  <2>1. k = c
    BY <1>7
  <2>2. /\ u \in Tables
        /\ \A d \in Clients \cup {Server} : d # k => u[d] = table[d]
        /\ \A q \in Held(u[k]) : q = r \/ q \in Held(table[k])
        /\ u[k].expectID >= table[k].expectID
    BY <1>8, AddIs DEF IInv
  <2> HIDE DEF k, u, r
  <2> QED BY <2>1, <2>2 DEF t
<1> DEFINE v == [u[c] EXCEPT !.fakeID = left, !.endFakeID = end]
<1>10. r.id = id
  OBVIOUS
<1> HIDE DEF u, r, left, end, id
<1>11. u[c] \in TableType
  BY <1>1, <1>9 DEF Tables
<1>12. /\ v \in TableType /\ v.buckets = u[c].buckets /\ v.expectID = u[c].expectID
       /\ v.fakeID = left /\ v.endFakeID = end
  BY <1>7, <1>11 DEF TableType
<1>13. table' = [u EXCEPT ![c] = v]
  BY <1>1, <1>2, <1>9 DEF Tables
<1> HIDE DEF v
<1>14. table'[c] = v /\ \A d \in Clients \cup {Server} : d # c => table'[d] = table[d]
  BY <1>1, <1>9, <1>13 DEF Tables
<1>15. table' \in Tables
  BY <1>9, <1>12, <1>13 DEF Tables
<1>16. ~over => Fresh(v)
  <2> SUFFICES ASSUME ~over, NEW q \in Held(v)
               PROVE  /\ q.id[2] = "fake" => q.id[3] \notin v.fakeID .. v.endFakeID - 1
                      /\ q.id[2] = "own" => q.id[3] < v.expectID
    BY DEF Fresh
  <2>1. q \in Held(u[c])
    BY <1>12 DEF Held
  <2>2. v.fakeID = lo + 1 /\ v.endFakeID = hi + 1
    BY <1>5, <1>6, <1>12 DEF left
  <2>3. CASE q = r
    BY <1>4, <1>7, <1>10, <2>2, <2>3
  <2>4. CASE q \in Held(t)
    <3>1. q.id[3] \in Nat
      <4>1. q \in Record
        BY <1>1, <2>4, HeldAreRecords
      <4> QED BY <4>1, Constants DEF Record, XID
    <3>2. /\ q.id[2] = "fake" => q.id[3] \notin lo .. hi
          /\ q.id[2] = "own" => q.id[3] < t.expectID
      BY <1>1, <1>3, <1>4, <2>4 DEF Fresh
    <3>3. t.expectID \in Nat /\ v.expectID \in Nat /\ v.expectID >= t.expectID
      BY <1>1, <1>9, <1>12 DEF TableType
    <3> QED BY <1>4, <2>2, <3>1, <3>2, <3>3
  <2> QED BY <1>9, <2>1, <2>3, <2>4
<1>17. \A d \in Clients : state'[d] = "running" => Fresh(table'[d])
  <2> SUFFICES ASSUME NEW d \in Clients, state'[d] = "running" PROVE Fresh(table'[d])
    OBVIOUS
  <2>1. CASE d = c
    <3>1. ~over
      BY <1>2, <2>1 DEF IInv
    <3> QED BY <1>14, <1>16, <2>1, <3>1
  <2>2. CASE d # c
    BY <1>2, <1>14, <2>2 DEF IInv
  <2> QED BY <2>1, <2>2
<1>18. \A d \in Clients : state'[d] = "running" => Fresh(table[d])'
  BY <1>17 DEF Fresh, Held
<1>19. state' \in [Clients -> {"none", "running", "exception", "retained", "gone"}]
  BY <1>2 DEF IInv
<1>20. \A d \in Live' : d \in Live
  BY <1>2 DEF Live
<1> QED BY <1>2, <1>15, <1>18, <1>19, <1>20 DEF IInv, Tables, TableType, XID, Record

(* Every step keeps it.                                                    *)
LEMMA NextIInv == IInv /\ [Next]_vars => IInv'
<1> SUFFICES ASSUME IInv, [Next]_vars PROVE IInv'
  OBVIOUS
<1>1. CASE FreeNext
  <2>1. PICK r, calls : table' = Unlink(r, 1) /\ (DeleteFunc(r, calls) \/ UNCHANGED win)
    BY <1>1 DEF FreeNext
  <2>2. Live' \subseteq Live
    BY <2>1, DeleteFuncLive DEF Live
  <2> QED BY <1>1, <2>1, <2>2, Unlinks DEF FreeNext
<1>2. CASE FreeEnd
  BY <1>2, Unchanged DEF FreeEnd, Live
<1>3. CASE CrushTree
  BY <1>3, Unchanged DEF CrushTree, Live
<1>4. CASE DestroySubwindows
  BY <1>4, Unchanged DEF DestroySubwindows, Live
<1>5. CASE ForgetWindow
  BY <1>5, Unchanged DEF ForgetWindow, Live
<1>6. CASE FreeWindow
  <2>1. Live' \subseteq Live
    BY <1>6 DEF FreeWindow, Live
  <2> QED BY <1>6, <2>1, Unchanged DEF FreeWindow
<1>7. CASE FreeClientNext
  <2>1. PICK r : table' = Unlink(r, 0) /\ DeleteFunc(r, stack)
    BY <1>7 DEF FreeClientNext
  <2>2. Live' \subseteq Live
    BY <2>1, DeleteFuncLive
  <2> QED BY <1>7, <2>1, <2>2, Unlinks DEF FreeClientNext
<1>8. CASE FreeClientEnd
  <2> DEFINE c == Top.client
  <2>1. table' = [table EXCEPT ![c] = Empty] /\ state' = [state EXCEPT ![c] = "none"]
        /\ UNCHANGED <<setup, win>>
    BY <1>8 DEF FreeClientEnd
  <2> HIDE DEF c
  <2>2. Empty \in TableType
    BY Constants DEF Empty, TableType
  <2>3. table' \in Tables
    BY <2>1, <2>2 DEF IInv, Tables
  <2>4. state' \in [Clients -> {"none", "running", "exception", "retained", "gone"}]
    BY <2>1 DEF IInv
  <2>5. \A d \in Clients : state'[d] = "running" => state[d] = "running" /\ Fewer(table'[d], table[d])
    BY <2>1 DEF IInv, Tables, Fewer
  <2> QED BY <2>1, <2>3, <2>4, <2>5, Thinner DEF Live
<1>9. ASSUME NEW c \in Clients, Connect(c) PROVE IInv'
  <2> DEFINE b == [i \in 1 .. InitBuckets |-> <<>>]
             t == [Empty EXCEPT !.buckets = b, !.endFakeID = Ids]
  <2>1. table' = [table EXCEPT ![c] = t] /\ state' = [state EXCEPT ![c] = "running"]
        /\ UNCHANGED <<setup, win>>
    BY <1>9 DEF Connect
  <2>2. b \in Seq(Seq(Record))
    <3>1. InitBuckets \in Nat /\ b \in [1 .. InitBuckets -> Seq(Record)]
      BY ResourcesAssumption DEF ResourcesAssumption
    <3> HIDE DEF b
    <3> QED BY <3>1, FunctionIsSeq
  <2>3. \A i \in DOMAIN b : b[i] = <<>>
    OBVIOUS
  <2> HIDE DEF b
  <2>4. t \in TableType /\ t.buckets = b
    <3>1. Ids \in 0 .. Ids
      BY Constants
    <3>2. Empty \in TableType
      BY Constants DEF Empty, TableType
    <3> QED BY <2>2, <3>1, <3>2 DEF TableType
  <2> HIDE DEF t
  <2>5. Fresh(t)
    <3>1. Held(t) = {}
      BY <2>3, <2>4 DEF Held, Range
    <3> QED BY <3>1 DEF Fresh
  <2>6. table' \in Tables
    BY <2>1, <2>4 DEF IInv, Tables
  <2>7. \A d \in Clients : state'[d] = "running" => Fresh(table'[d])
    BY <2>1, <2>5 DEF IInv, Tables
  <2>8. \A d \in Clients : state'[d] = "running" => Fresh(table[d])'
    BY <2>7 DEF Fresh, Held
  <2>9. state' \in [Clients -> {"none", "running", "exception", "retained", "gone"}] /\ Live' = Live
    BY <2>1 DEF IInv, Live
  <2> QED BY <2>1, <2>6, <2>8, <2>9 DEF IInv, Tables, TableType, XID, Record
<1>10. ASSUME NEW c \in Clients, CloseDownClient(c) \/ CloseDownRetainedResources(c) PROVE IInv'
  <2>1. UNCHANGED setup
    BY <1>10 DEF CloseDownClient, CloseDownRetainedResources
  <2>2. CASE FreeClientResources(c)
    <3>1. state' = [state EXCEPT ![c] = "gone"] /\ UNCHANGED table /\ Live' = Live
      BY <2>2 DEF FreeClientResources, HandleSaveSet, Live
    <3>2. state' \in [Clients -> {"none", "running", "exception", "retained", "gone"}]
      BY <3>1 DEF IInv
    <3>3. \A d \in Clients : state'[d] = "running" => state[d] = "running" /\ Fewer(table'[d], table[d])
      BY <3>1 DEF IInv, Fewer
    <3>4. table' \in Tables
      BY <3>1 DEF IInv
    <3> QED BY <2>1, <3>1, <3>2, <3>3, <3>4, Thinner
  <2>3. CASE FreeClientNeverRetainResources(c)
    <3> DEFINE b == [i \in DOMAIN table[c].buckets |->
                       Those(table[c].buckets[i], {r \in Range(table[c].buckets[i]) : r.type # "other"})]
               t == [table[c] EXCEPT !.buckets = b]
    <3>1. state' = [state EXCEPT ![c] = "retained"] /\ Live' = Live
      BY <2>3 DEF FreeClientNeverRetainResources, Live
    <3>2. table' = [table EXCEPT ![c] = t]
      BY <2>3 DEF FreeClientNeverRetainResources, IInv, Tables
    <3>3. table[c] \in TableType
      BY DEF IInv, Tables
    <3>4. b \in Seq(Seq(Record))
      <4>1. /\ DOMAIN table[c].buckets = 1 .. Len(table[c].buckets) /\ Len(table[c].buckets) \in Nat
            /\ \A i \in DOMAIN table[c].buckets : table[c].buckets[i] \in Seq(Record)
        BY <3>3 DEF TableType
      <4>2. b \in [1 .. Len(table[c].buckets) -> Seq(Record)]
        BY <4>1, ThoseIs
      <4> HIDE DEF b
      <4> QED BY <4>1, <4>2, FunctionIsSeq
    <3> HIDE DEF b
    <3>5. t \in TableType
      BY <3>3, <3>4 DEF TableType
    <3> HIDE DEF t
    <3>6. table' \in Tables
      BY <3>2, <3>5 DEF IInv, Tables
    <3>7. state' \in [Clients -> {"none", "running", "exception", "retained", "gone"}]
      BY <3>1 DEF IInv
    <3>8. \A d \in Clients : state'[d] = "running" => state[d] = "running" /\ Fewer(table'[d], table[d])
      BY <3>1, <3>2 DEF IInv, Tables, Fewer
    <3> QED BY <2>1, <3>1, <3>6, <3>7, <3>8, Thinner
  <2> QED BY <1>10, <2>2, <2>3 DEF CloseDownClient, CloseDownRetainedResources
<1>11. ASSUME NEW c \in Clients, NEW w \in Live, SelectEvents(c, w) PROVE IInv'
  BY <1>11, Selects
<1>12. ASSUME NEW c \in Clients, NEW w \in Live, CreateDrawable(c, w) PROVE IInv'
  <2> DEFINE r == [id |-> w, type |-> "private", win |-> w]
  <2>1. r \in Record /\ r.id[2] = "own"
    BY DEF IInv, Record
  <2>2. UNCHANGED <<setup, state>> /\ table' = AddResource(r) /\ Live' \subseteq Live
    BY <1>12 DEF CreateDrawable, Live
  <2> HIDE DEF r
  <2> QED BY <2>1, <2>2, AddsOwn
<1>13. ASSUME NEW c \in Clients, NEW n \in setup.own[c], NEW p \in Live, CreateWindow(c, <<c, "own", n>>, p)
       PROVE  IInv'
  <2> DEFINE id == <<c, "own", n>>
             r  == [id |-> id, type |-> "window", win |-> id]
  <2>1. n \in 0 .. Ids - 1
    BY ResourcesAssumption DEF IInv, ResourcesAssumption, Setup
  <2>2. id \in XID /\ id[2] = "own"
    BY <2>1 DEF XID
  <2>3. r \in Record /\ r.id[2] = "own"
    BY <2>2 DEF Record
  <2>4. UNCHANGED <<setup, state>> /\ table' = AddResource(r) /\ Live' = Live \cup {id}
    BY <1>13 DEF CreateWindow, Live
  <2> HIDE DEF r, id
  <2> QED BY <2>2, <2>3, <2>4, AddsOwn
<1>14. ASSUME NEW c \in Clients, NEW w \in Live, DestroyDrawable(c, w) PROVE IInv'
  <2>1. PICK r : table' = Unlink(r, 0) /\ DRIDrawablePrivDelete(r) /\ UNCHANGED <<setup, state>>
    BY <1>14 DEF DestroyDrawable
  <2>2. Live' \subseteq Live
    BY <2>1 DEF DRIDrawablePrivDelete, Live
  <2> QED BY <2>1, <2>2, Unlinks
<1>15. ASSUME NEW c \in Clients, NEW w \in Live,
              \/ DestroyWindow(c, w) \/ ProcDestroySubwindows(c, w)
              \/ DeselectEvents(c, w) \/ ChangeSaveSet(c, w)
       PROVE  IInv'
  BY <1>15, Unchanged DEF DestroyWindow, ProcDestroySubwindows, DeselectEvents, ChangeSaveSet, Live
<1>16. ASSUME NEW c \in Clients, NEW w, SetSelectionOwner(c, w) PROVE IInv'
  BY <1>16, Unchanged DEF SetSelectionOwner, Live
<1>17. ASSUME NEW c \in Clients, NEW w \in Live, NEW p \in Live, ReparentWindow(c, w, p) PROVE IInv'
  <2>1. Live' = Live /\ UNCHANGED <<setup, state, table>>
    BY <1>17 DEF ReparentWindow, Live
  <2> QED BY <2>1, Unchanged
<1>18. CASE UNCHANGED vars
  BY <1>18, Unchanged DEF vars, Live
<1>19. ASSUME NEW c \in Clients, Requests(c) PROVE IInv'
  BY <1>19, <1>11, <1>12, <1>13, <1>14, <1>15, <1>16, <1>17 DEF Requests
<1> QED BY <1>1, <1>2, <1>3, <1>4, <1>5, <1>6, <1>7, <1>8, <1>9, <1>10, <1>18, <1>19 DEF Next

(* An XID that is not looked up when a request takes it is free, however   *)
(* many XIDs a range has and whatever was freed in between: what           *)
(* FakeClientID has left and the numbers from expectID on have no record,  *)
(* and GetXIDRange finds a range that has none, that is empty only if all  *)
(* are in use.                                                             *)
THEOREM XIDsAreFresh == Spec => []IdsFresh
<1>1. IInv => IdsFresh
  <2> SUFFICES ASSUME IInv, NEW c \in Clients, state[c] = "running"
               PROVE  LET used(kind) == {r.id[3] : r \in {q \in Records(c) : q.id[2] = kind}}
                      IN  /\ (table[c].fakeID .. table[c].endFakeID - 1) \cap used("fake") = {}
                          /\ \A n \in used("own") : n < table[c].expectID
                          /\ \A kind \in {"own", "fake"} :
                               /\ GetXIDRange(c, kind) \cap used(kind) = {}
                               /\ GetXIDRange(c, kind) = {} => 0 .. Ids - 1 \subseteq used(kind)
    BY DEF IdsFresh
  <2>1. Records(c) = Held(table[c])
    BY DEF Records, Held
  <2>2. \A kind : {r.id[3] : r \in {q \in Records(c) : q.id[2] = kind}} = Numbers(table[c], kind)
    BY <2>1 DEF Numbers
  <2>3. table[c] \in TableType
    BY DEF IInv, Tables
  <2>4. table[c].buckets \in Seq(Seq(Record))
    BY <2>3 DEF TableType
  <2>5. \A kind : /\ GetXIDRange(c, kind) \cap Numbers(table[c], kind) = {}
                  /\ GetXIDRange(c, kind) = {} => 0 .. Ids - 1 \subseteq Numbers(table[c], kind)
    BY <2>4, RangeIs
  <2>6. Fresh(table[c])
    BY DEF IInv
  <2>7. (table[c].fakeID .. table[c].endFakeID - 1) \cap Numbers(table[c], "fake") = {}
    BY <2>6 DEF Fresh, Numbers
  <2>8. \A n \in Numbers(table[c], "own") : n < table[c].expectID
    BY <2>6 DEF Fresh, Numbers
  <2> QED BY <2>2, <2>5, <2>7, <2>8
<1> QED BY <1>1, InitIInv, NextIInv, PTL DEF Spec

-----------------------------------------------------------------------------
(* What Unlink and AddResource do to buckets that are in order.            *)

(* RemoveFirst takes out one element of a sequence that has each once.     *)
LEMMA RemoveIs ==
  ASSUME NEW D, NEW s \in Seq(D), InOrder(s), NEW m \in DOMAIN s
  PROVE  LET r == RemoveFirst(s, s[m])
         IN  /\ r \in Seq(D) /\ Range(r) = Range(s) \ {s[m]} /\ InOrder(r)
             /\ \A j \in 1 .. m - 1 : j \in DOMAIN r /\ r[j] = s[j]
<1> DEFINE n == SelectInSeq(s, LAMBDA v : v = s[m])
           r == RemoveFirst(s, s[m])
<1>1. DOMAIN s = 1 .. Len(s) /\ Len(s) \in Nat /\ m \in 1 .. Len(s)
  OBVIOUS
<1>2. \A i \in DOMAIN s : s[i] = s[m] => i = m
  BY <1>1 DEF InOrder, Apart
<1>3. n = m
  <2> DEFINE I == {i \in 1 .. Len(s) : s[i] = s[m]}
  <2>1. n = CHOOSE i \in I : \A j \in I : i <= j
    BY <1>1 DEF SelectInSeq, Min
  <2>2. I = {m}
    BY <1>1, <1>2
  <2> HIDE DEF I, n
  <2>3. \E i \in I : \A j \in I : i <= j
    BY <1>1, <2>2
  <2> QED BY <2>1, <2>2, <2>3
<1>4. r = RemoveAt(s, n)
  BY <1>1 DEF RemoveFirst
<1> HIDE DEF r, n
<1>5. /\ r \in Seq(D) /\ DOMAIN r = 1 .. Len(s) - 1
      /\ \A j \in 1 .. Len(s) - 1 : r[j] = s[IF j < m THEN j ELSE j + 1]
  BY <1>3, <1>4, RemoveAtIs
<1> DEFINE at(j) == IF j < m THEN j ELSE j + 1
<1>6. \A j \in 1 .. Len(s) - 1 : at(j) \in DOMAIN s /\ at(j) # m
  BY <1>1
<1>7. \A i, j \in 1 .. Len(s) - 1 : i < j => at(i) < at(j)
  BY <1>1
<1>8. \A i \in DOMAIN s : i # m => \E j \in 1 .. Len(s) - 1 : at(j) = i
  <2> SUFFICES ASSUME NEW i \in DOMAIN s, i # m PROVE \E j \in 1 .. Len(s) - 1 : at(j) = i
    OBVIOUS
  <2>1. CASE i < m
    <3>1. i \in 1 .. Len(s) - 1 /\ at(i) = i
      BY <1>1, <2>1
    <3> QED BY <3>1
  <2>2. CASE ~(i < m)
    <3>1. i - 1 \in 1 .. Len(s) - 1 /\ at(i - 1) = i
      BY <1>1, <2>2
    <3> QED BY <3>1
  <2> QED BY <2>1, <2>2
<1>9. \A j \in 1 .. Len(s) - 1 : r[j] = s[at(j)]
  BY <1>5
<1>10. \A j \in 1 .. m - 1 : j \in 1 .. Len(s) - 1 /\ at(j) = j
  BY <1>1
<1> HIDE DEF at
<1>11. Range(r) = Range(s) \ {s[m]}
  <2>1. ASSUME NEW j \in DOMAIN r PROVE r[j] \in Range(s) \ {s[m]}
    <3>1. at(j) \in DOMAIN s /\ at(j) # m /\ r[j] = s[at(j)]
      BY <1>5, <1>6, <1>9
    <3> QED BY <1>2, <3>1 DEF Range
  <2>2. ASSUME NEW i \in DOMAIN s, s[i] # s[m] PROVE s[i] \in Range(r)
    <3>1. PICK j \in 1 .. Len(s) - 1 : at(j) = i
      BY <1>8, <2>2
    <3>2. r[j] = s[i]
      BY <1>9, <3>1
    <3> QED BY <1>5, <3>2 DEF Range
  <2> QED BY <2>1, <2>2 DEF Range
<1>12. InOrder(r)
  <2> SUFFICES ASSUME NEW i \in DOMAIN r, NEW j \in DOMAIN r, i < j PROVE Apart(r[i], r[j])
    BY DEF InOrder
  <2>1. at(i) \in DOMAIN s /\ at(j) \in DOMAIN s /\ at(i) < at(j) /\ r[i] = s[at(i)] /\ r[j] = s[at(j)]
    BY <1>5, <1>6, <1>7, <1>9
  <2> QED BY <2>1 DEF InOrder
<1>13. \A j \in 1 .. m - 1 : j \in DOMAIN r /\ r[j] = s[j]
  BY <1>5, <1>9, <1>10
<1> QED BY <1>5, <1>11, <1>12, <1>13 DEF r

\* The records of a table are in their buckets, each once.
Sound(t, c) ==
  \A i \in DOMAIN t.buckets :
    /\ InOrder(t.buckets[i])
    /\ \A r \in Range(t.buckets[i]) : Owner(r.id) = c /\ Hash(r.id, Len(t.buckets)) = i

\* The bucket of an XID.
BucketOf(t, id) == IF t.buckets = <<>> THEN <<>> ELSE t.buckets[Hash(id, Len(t.buckets))]

(* Hash returns a bucket of the table.                                     *)
LEMMA HashIs ==
  ASSUME NEW id \in XID, NEW n \in Nat, n # 0
  PROVE  Hash(id, n) \in 1 .. n
<1>1. id[3] \in Nat
  BY Constants DEF XID
<1>2. \A k \in Nat : k % n \in 0 .. n - 1
  OBVIOUS
<1> QED BY <1>1, <1>2 DEF Hash

(* What a table has of an XID is in its bucket.                            *)
LEMMA BucketIs ==
  ASSUME NEW t \in TableType, NEW c, Sound(t, c), NEW id \in XID
  PROVE  /\ BucketOf(t, id) \in Seq(Record) /\ InOrder(BucketOf(t, id))
         /\ Range(BucketOf(t, id)) \subseteq Held(t)
         /\ \A r \in Held(t) : Owner(r.id) = c /\ (r.id = id => r \in Range(BucketOf(t, id)))
<1> DEFINE b == t.buckets
           h == Hash(id, Len(b))
<1>1. b \in Seq(Seq(Record)) /\ Len(b) \in Nat /\ DOMAIN b = 1 .. Len(b)
  BY DEF TableType
<1>2. \A r \in Held(t) : Owner(r.id) = c
  BY DEF Held, Sound
<1>3. CASE b = <<>>
  <2>1. Held(t) = {}
    BY <1>3 DEF Held
  <2>2. BucketOf(t, id) = <<>>
    BY <1>3 DEF BucketOf
  <2> QED BY <2>1, <2>2 DEF Range, InOrder
<1>4. CASE b # <<>>
  <2>1. Len(b) # 0
    BY <1>1, <1>4
  <2>2. h \in DOMAIN b /\ BucketOf(t, id) = b[h]
    BY <1>1, <1>4, <2>1, HashIs DEF BucketOf
  <2>3. b[h] \in Seq(Record)
    BY <1>1, <2>2
  <2>4. \A r \in Held(t) : r.id = id => r \in Range(b[h])
    BY DEF Held, Sound
  <2>5. InOrder(b[h]) /\ Range(b[h]) \subseteq Held(t)
    BY <2>2 DEF Held, Sound
  <2> QED BY <1>2, <2>2, <2>3, <2>4, <2>5
<1> QED BY <1>3, <1>4

(* Unlink takes the record, and nothing else.                              *)
LEMMA UnlinkTakes ==
  ASSUME table \in Tables, NEW c \in Clients, Sound(table[c], c), NEW r \in Held(table[c]), NEW n \in Int
  PROVE  LET u == Unlink(r, n)
         IN  /\ u \in Tables /\ \A d \in Clients \cup {Server} : d # c => u[d] = table[d]
             /\ Held(u[c]) = Held(table[c]) \ {r} /\ Sound(u[c], c)
             /\ u[c].elements = table[c].elements - n
             /\ u[c].buckets # <<>>
             /\ \A m \in DOMAIN BucketOf(table[c], r.id) : BucketOf(table[c], r.id)[m] = r =>
                  \A j \in 1 .. m - 1 :
                    /\ j \in DOMAIN BucketOf(u[c], r.id)
                    /\ BucketOf(u[c], r.id)[j] = BucketOf(table[c], r.id)[j]
<1> DEFINE b == table[c].buckets
           h == Hash(r.id, Len(b))
           a == [b EXCEPT ![h] = RemoveFirst(@, r)]
           t == [table[c] EXCEPT !.buckets = a, !.elements = table[c].elements - n]
           u == Unlink(r, n)
<1>1. table[c] \in TableType
  BY DEF Tables
<1>2. b \in Seq(Seq(Record)) /\ Len(b) \in Nat /\ DOMAIN b = 1 .. Len(b) /\ \A i \in DOMAIN b : b[i] \in Seq(Record)
  BY <1>1 DEF TableType
<1>3. h \in DOMAIN b /\ r \in Range(b[h]) /\ Owner(r.id) = c
  BY DEF Held, Sound
<1>4. u = [table EXCEPT ![c] = t] /\ u \in Tables
  BY <1>3, UnlinkIs DEF Unlink
<1>5. u[c] = t /\ \A d \in Clients \cup {Server} : d # c => u[d] = table[d]
  BY <1>4 DEF Tables
<1>6. t.buckets = a /\ t.elements = table[c].elements - n
  BY <1>1 DEF TableType
<1> HIDE DEF u, t
<1>7. DOMAIN a = DOMAIN b /\ a[h] = RemoveFirst(b[h], r) /\ \A i \in DOMAIN b : i # h => a[i] = b[i]
  BY <1>3
<1>8. PICK m \in DOMAIN b[h] : b[h][m] = r
  BY <1>3 DEF Range
<1>9. /\ a[h] \in Seq(Record) /\ Range(a[h]) = Range(b[h]) \ {r} /\ InOrder(a[h])
      /\ \A j \in 1 .. m - 1 : j \in DOMAIN a[h] /\ a[h][j] = b[h][j]
  <2>1. InOrder(b[h])
    BY <1>3 DEF Sound
  <2> QED BY <1>2, <1>3, <1>7, <1>8, <2>1, RemoveIs
<1>10. \A i \in DOMAIN b : i # h => r \notin Range(b[i])
  BY DEF Sound
<1> HIDE DEF a
<1>11. Len(a) = Len(b)
  <2>1. u[c] \in TableType
    BY <1>4 DEF Tables
  <2>2. a \in Seq(Seq(Record))
    BY <1>5, <1>6, <2>1 DEF TableType
  <2> HIDE DEF b
  <2>3. DOMAIN a = 1 .. Len(a) /\ Len(a) \in Nat
    BY <2>2
  <2> QED BY <1>2, <1>7, <2>3
<1>12. \A i \in DOMAIN b : InOrder(a[i]) /\ \A q : q \in Range(a[i]) <=> q \in Range(b[i]) /\ q # r
  BY <1>7, <1>9, <1>10 DEF Sound
<1>13. Sound(t, c)
  BY <1>6, <1>7, <1>11, <1>12 DEF Sound
<1>14. Held(t) = Held(table[c]) \ {r}
  BY <1>6, <1>7, <1>12 DEF Held
<1>15. a # <<>> /\ b # <<>>
  BY <1>2, <1>3, <1>7
<1>16. BucketOf(table[c], r.id) = b[h] /\ BucketOf(t, r.id) = a[h]
  BY <1>6, <1>11, <1>15 DEF BucketOf
<1>17. \A k \in DOMAIN b[h] : b[h][k] = r => k = m
  <2>1. InOrder(b[h]) /\ DOMAIN b[h] \subseteq Nat
    BY <1>2, <1>3 DEF Sound
  <2> QED BY <1>8, <2>1 DEF InOrder, Apart
<1>18. \A k \in DOMAIN BucketOf(table[c], r.id) : BucketOf(table[c], r.id)[k] = r =>
         \A j \in 1 .. k - 1 :
           j \in DOMAIN BucketOf(t, r.id) /\ BucketOf(t, r.id)[j] = BucketOf(table[c], r.id)[j]
  BY <1>9, <1>16, <1>17
<1> QED BY <1>4, <1>5, <1>6, <1>13, <1>14, <1>15, <1>18 DEF u

(* RebuildTable keeps the records and their order.                         *)
LEMMA RebuildKeeps ==
  ASSUME NEW t \in TableType, NEW c, Sound(t, c), t.buckets # <<>>,
         NEW u, u.buckets = RebuildTable(t.buckets)
  PROVE  Held(u) = Held(t) /\ Sound(u, c) /\ u.buckets # <<>>
<1> DEFINE b == t.buckets
           all == FlattenSeq(b)
           n   == 2 * Len(b)
           S(i) == {r \in Range(all) : Hash(r.id, n) = i}
           a   == RebuildTable(b)
<1>1. b \in Seq(Seq(Record)) /\ Len(b) \in Nat /\ DOMAIN b = 1 .. Len(b) /\ Len(b) # 0
  BY DEF TableType
<1>2. ASSUME NEW i \in DOMAIN b, NEW j \in DOMAIN b, i < j,
             NEW d \in Range(b[i]), NEW e \in Range(b[j])
      PROVE  Apart(d, e)
  <2>1. d.id # e.id
    <3>1. Hash(d.id, Len(b)) = i /\ Hash(e.id, Len(b)) = j /\ i # j
      BY <1>1, <1>2 DEF Sound
    <3> QED BY <3>1
  <2> QED BY <2>1 DEF Apart
<1>3. all \in Seq(Record) /\ Range(all) = Held(t) /\ InOrder(all)
  <2>1. \A i \in DOMAIN b : InOrder(b[i])
    BY DEF Sound
  <2> QED BY <1>1, <1>2, <2>1, FlattenIs DEF Held
<1>4. a = [i \in 1 .. n |-> Those(all, S(i))]
  BY DEF RebuildTable
<1>5. n \in Nat /\ n # 0
  BY <1>1
<1> HIDE DEF all, n, a
<1>6. \A i \in 1 .. n : /\ a[i] \in Seq(Record) /\ Range(a[i]) = Range(all) \cap S(i) /\ InOrder(a[i])
  <2> HIDE DEF S
  <2> QED BY <1>3, <1>4, ThoseIs
<1>7. a \in Seq(Seq(Record)) /\ Len(a) = n /\ DOMAIN a = 1 .. n
  <2>1. a \in [1 .. n -> Seq(Record)]
    BY <1>4, <1>6
  <2> QED BY <1>5, <2>1, FunctionIsSeq
<1>8. \A i \in 1 .. n : \A q : q \in Range(a[i]) <=> q \in Held(t) /\ Hash(q.id, n) = i
  BY <1>3, <1>6
<1>9. \A q \in Held(t) : Hash(q.id, n) \in 1 .. n /\ Owner(q.id) = c
  <2> SUFFICES ASSUME NEW q \in Held(t) PROVE Hash(q.id, n) \in 1 .. n /\ Owner(q.id) = c
    OBVIOUS
  <2>1. q.id \in XID
    BY HeldAreRecords DEF Record
  <2>2. Owner(q.id) = c
    BY DEF Held, Sound
  <2> QED BY <1>5, <2>1, <2>2, HashIs
<1>10. u.buckets = a
  BY DEF a
<1>11. \A q : q \in Held(u) <=> q \in Held(t)
  <2>1. \A q : q \in Held(u) <=> \E i \in 1 .. n : q \in Range(a[i])
    BY <1>7, <1>10 DEF Held
  <2> QED BY <1>8, <1>9, <2>1
<1>12. Sound(u, c)
  BY <1>6, <1>7, <1>8, <1>9, <1>10 DEF Sound
<1>13. a # <<>>
  BY <1>5, <1>7
<1> QED BY <1>10, <1>11, <1>12, <1>13

(* AddResource adds the record, and nothing else.                          *)
LEMMA AddAdds ==
  ASSUME table \in Tables, NEW c \in Clients, Sound(table[c], c), table[c].buckets # <<>>,
         NEW r \in Record, Owner(r.id) = c, r \notin Held(table[c]),
         \A q \in Held(table[c]) : q.id = r.id => ~(r.type = "window" /\ q.type = "private")
  PROVE  LET u == AddResource(r)
         IN  /\ u \in Tables /\ \A d \in Clients \cup {Server} : d # c => u[d] = table[d]
             /\ Held(u[c]) = Held(table[c]) \cup {r} /\ Sound(u[c], c) /\ u[c].buckets # <<>>
<1> DEFINE b == Grown(table[c])
           h == Hash(r.id, Len(b))
           a == [b EXCEPT ![h] = <<r>> \o @]
           t == [table[c] EXCEPT !.buckets = b]
           u == AddResource(r)
<1>1. table[c] \in TableType
  BY DEF Tables
<1>2. u \in Tables /\ \A d \in Clients \cup {Server} : d # c => u[d] = table[d]
  BY AddIs
<1>3. u[c].buckets = a
  <2> DEFINE e == IF r.id[2] = "own" /\ r.id[3] >= table[c].expectID
                  THEN r.id[3] + 1 ELSE table[c].expectID
             v == [table[c] EXCEPT !.buckets = a, !.elements = table[c].elements + 1, !.expectID = e]
  <2>1. u = [table EXCEPT ![c] = v]
    BY DEF AddResource
  <2>2. v.buckets = a
    BY <1>1 DEF TableType
  <2> HIDE DEF v, u
  <2> QED BY <2>1, <2>2 DEF Tables
<1> HIDE DEF u
<1>4. t \in TableType /\ t.buckets = b /\ Held(t) = Held(table[c]) /\ Sound(t, c) /\ b # <<>>
  <2>1. CASE b = table[c].buckets
    <3>1. t = table[c]
      BY <1>1, <2>1 DEF TableType
    <3> QED BY <1>1, <2>1, <3>1
  <2>2. CASE b = RebuildTable(table[c].buckets)
    <3>1. b \in Seq(Seq(Record))
      <4>1. table[c].buckets \in Seq(Seq(Record))
        BY <1>1 DEF TableType
      <4> QED BY <2>2, <4>1, RebuildIs
    <3> HIDE DEF b
    <3>2. t \in TableType /\ t.buckets = b
      BY <1>1, <3>1 DEF TableType
    <3> HIDE DEF t
    <3>3. Held(t) = Held(table[c]) /\ Sound(t, c) /\ t.buckets # <<>>
      BY <1>1, <2>2, <3>2, RebuildKeeps
    <3> QED BY <3>2, <3>3
  <2> QED BY <2>1, <2>2 DEF Grown
<1> HIDE DEF b, t
<1>5. b \in Seq(Seq(Record)) /\ Len(b) \in Nat /\ DOMAIN b = 1 .. Len(b) /\ Len(b) # 0
      /\ \A i \in DOMAIN b : b[i] \in Seq(Record)
  BY <1>4 DEF TableType
<1>6. r.id \in XID /\ h \in DOMAIN b
  BY <1>5, HashIs DEF Record
<1>7. DOMAIN a = DOMAIN b /\ a[h] = <<r>> \o b[h] /\ \A i \in DOMAIN b : i # h => a[i] = b[i]
  BY <1>6
<1>8. \A q : q \in Held(table[c]) <=> \E i \in DOMAIN b : q \in Range(b[i])
  BY <1>4 DEF Held
<1>9. \A i \in DOMAIN b : InOrder(b[i])
        /\ \A q \in Range(b[i]) : Owner(q.id) = c /\ Hash(q.id, Len(b)) = i
  BY <1>4 DEF Sound
<1>10. a[h] \in Seq(Record) /\ InOrder(a[h]) /\ \A q : q \in Range(a[h]) <=> q = r \/ q \in Range(b[h])
  <2>1. <<r>> \in Seq(Record) /\ b[h] \in Seq(Record) /\ \A q : q \in Range(<<r>>) <=> q = r
    BY <1>5, <1>6 DEF Range
  <2>2. InOrder(<<r>>)
    BY DEF InOrder
  <2>3. \A d \in Range(<<r>>), e \in Range(b[h]) : Apart(d, e)
    <3>1. \A e \in Range(b[h]) : e \in Held(table[c])
      BY <1>6, <1>8
    <3>2. \A e \in Range(b[h]) : Apart(r, e)
      BY <3>1 DEF Apart
    <3> QED BY <2>1, <3>2
  <2>4. InOrder(b[h])
    BY <1>6, <1>9
  <2> DEFINE x == <<r>>
             y == b[h]
  <2>5. x \in Seq(Record) /\ y \in Seq(Record) /\ InOrder(x) /\ InOrder(y)
        /\ \A d \in Range(x), e \in Range(y) : Apart(d, e)
    BY <2>1, <2>2, <2>3, <2>4
  <2>6. \A q : q \in Range(x) <=> q = r
    BY <2>1
  <2>7. a[h] = x \o y
    BY <1>7
  <2> HIDE DEF x, y, a
  <2>8. /\ x \o y \in Seq(Record) /\ InOrder(x \o y)
        /\ \A q : q \in Range(x \o y) <=> q \in Range(x) \/ q \in Range(y)
    BY <2>5, RangeOfConcat
  <2> QED BY <2>6, <2>7, <2>8 DEF y
<1> HIDE DEF a
<1>11. Len(a) = Len(b)
  <2>1. u[c] \in TableType
    BY <1>2 DEF Tables
  <2>2. a \in Seq(Seq(Record))
    BY <1>3, <2>1 DEF TableType
  <2>3. DOMAIN a = 1 .. Len(a) /\ Len(a) \in Nat
    BY <2>2
  <2> QED BY <1>5, <1>7, <2>3
<1>12. h = Hash(r.id, Len(b))
  OBVIOUS
<1> HIDE DEF h
<1>13. Sound(u[c], c)
  <2> SUFFICES ASSUME NEW i \in DOMAIN a
               PROVE  /\ InOrder(a[i])
                      /\ \A q \in Range(a[i]) : Owner(q.id) = c /\ Hash(q.id, Len(a)) = i
    BY <1>3 DEF Sound
  <2>1. CASE i = h
    <3>1. \A q \in Range(a[i]) : q = r \/ q \in Range(b[h])
      BY <1>10, <2>1
    <3> QED BY <1>6, <1>9, <1>10, <1>11, <1>12, <2>1, <3>1
  <2>2. CASE i # h
    BY <1>7, <1>9, <1>11, <2>2
  <2> QED BY <2>1, <2>2
<1>14. Held(u[c]) = Held(table[c]) \cup {r}
  <2>1. \A q : (\E i \in DOMAIN a : q \in Range(a[i])) <=> q = r \/ \E i \in DOMAIN b : q \in Range(b[i])
    BY <1>6, <1>7, <1>10
  <2>2. \A q : q \in Held(u[c]) <=> \E i \in DOMAIN a : q \in Range(a[i])
    BY <1>3 DEF Held
  <2> QED BY <1>8, <2>1, <2>2
<1>15. a # <<>>
  BY <1>5, <1>7
<1> QED BY <1>2, <1>3, <1>13, <1>14, <1>15 DEF u

-----------------------------------------------------------------------------
(* The invariant that the other properties need: each part of it over the  *)
(* components of a state that it is about.                                 *)

WindowOf(v)   == [id |-> v, type |-> "window", win |-> v]
PrivateOf(v)  == [id |-> v, type |-> "private", win |-> v]
OtherOf(o, v) == [id |-> o, type |-> "other", win |-> v]

HeldOf(t, id) == Held(t[Owner(id)])
Named(t, id)  == \E r \in HeldOf(t, id) : r.id = id

TablesOK(t, st) ==
  \A c \in Clients : /\ Sound(t[c], c)
                     /\ st[c] = "none" => Held(t[c]) = {}
                     /\ st[c] # "none" => t[c].buckets # <<>>

\* A window that DeleteWindow or CrushTree is about to free.
Goes(k, v) == \E i \in DOMAIN k : k[i].do \in {"forget", "events"} /\ k[i].win = v

\* What a record is of.
Of(r, w) ==
  /\ r.win \in DOMAIN w
  /\ \/ r = WindowOf(r.win) /\ r.win # Root
     \/ r = PrivateOf(r.win) /\ w[r.win].private
     \/ r = OtherOf(r.id, r.win) /\ r.id \in w[r.win].others

\* The records and the windows agree, but for the windows that go.
RecordsOK(t, w, k, ca) ==
  /\ \A c \in Clients : \A r \in Held(t[c]) : Of(r, w)
  /\ \A v \in DOMAIN w :
       /\ w[v].private => PrivateOf(v) \in HeldOf(t, v)
       /\ \A o \in w[v].others : OtherOf(o, v) \in HeldOf(t, o)
       /\ \/ v = Root \/ WindowOf(v) \in HeldOf(t, v)
          \/ Goes(k, v) /\ \A c \in Clients : ca[c] # v

Closed(w, S) == \A v \in S : w[v].parent \in S \cup {None}

Entry == {o \in XID : Owner(o) \in Clients /\ o[2] # "own"}

\* The windows are a tree: there is a set that has all above a window, but
\* not the window.
WindowsOK(w) ==
  /\ Root \in DOMAIN w /\ IsFiniteSet(DOMAIN w)
  /\ \A v \in DOMAIN w :
       /\ v \in XID /\ v[2] = "own" /\ (v # Root => Owner(v) \in Clients)
       /\ w[v] \in [parent : DOMAIN w \cup {None}, private : BOOLEAN, others : SUBSET Entry]
       /\ v = Root <=> w[v].parent = None
       /\ v = Root => ~w[v].private
       /\ \E S \in SUBSET (DOMAIN w) : Closed(w, S) /\ w[v].parent \in S \cup {None} /\ v \notin S

ReferencesOK(w, ca, sa, ow, st) ==
  /\ ca \in [Clients -> DOMAIN w]
  /\ sa \in [Clients -> SUBSET (DOMAIN w)] /\ \A c \in Clients : \A v \in sa[c] : Owner(v) # c
  /\ ow \in [win : DOMAIN w \cup {None}, client : Clients \cup {None}]
  /\ ow.client # None => st[ow.client] \in {"running", "exception"}

-----------------------------------------------------------------------------
(* The tree.                                                               *)

(* None is no XID and no client, and the root is the server's.             *)
LEMMA NoneIs == /\ \A v \in XID : v # None
                /\ None \notin Clients /\ Server \notin Clients
                /\ Root \in XID /\ Owner(Root) = Server
BY ResourcesAssumption, Constants DEF ResourcesAssumption, XID, Root, Owner

(* What is above a window is the least set that has its parent and, with a *)
(* window, the parent of that.                                             *)
LEMMA AboveIs ==
  ASSUME WindowsOK(win), NEW v \in Live
  PROVE  /\ Above(v) \subseteq Live /\ v \notin Above(v) /\ win[v].parent \in Above(v) \cup {None}
         /\ Closed(win, Above(v))
         /\ \A S \in SUBSET Live : Closed(win, S) /\ win[v].parent \in S \cup {None} => Above(v) \subseteq S
<1> DEFINE closed == {S \in SUBSET Live : \A u \in S : win[u].parent \in S \cup {None}}
<1>1. Above(v) = {u \in Live : \A S \in closed : win[v].parent \in S \cup {None} => u \in S}
  BY DEF Above
<1>2. \A S : S \in closed <=> S \in SUBSET Live /\ Closed(win, S)
  BY DEF Closed
<1> HIDE DEF closed
<1>3. \A u \in Live : win[u].parent \in Live \cup {None}
  BY DEF WindowsOK, Live
<1>4. \A S \in SUBSET Live : Closed(win, S) /\ win[v].parent \in S \cup {None} => Above(v) \subseteq S
  BY <1>1, <1>2
<1>5. PICK S \in SUBSET Live : Closed(win, S) /\ win[v].parent \in S \cup {None} /\ v \notin S
  BY DEF WindowsOK, Live
<1>6. v \notin Above(v)
  BY <1>4, <1>5
<1>7. win[v].parent \in Above(v) \cup {None}
  <2>1. None \notin Live
    BY NoneIs DEF WindowsOK, Live
  <2> QED BY <1>1, <1>3, <2>1
<1>8. Closed(win, Above(v))
  <2> SUFFICES ASSUME NEW u \in Above(v), win[u].parent # None PROVE win[u].parent \in Above(v)
    BY DEF Closed
  <2>1. u \in Live /\ win[u].parent \in Live
    BY <1>1, <1>3
  <2>2. ASSUME NEW T \in closed, win[v].parent \in T \cup {None} PROVE win[u].parent \in T
    <3>1. u \in T
      BY <1>1, <2>2
    <3> QED BY <1>2, <2>2, <3>1 DEF Closed
  <2> QED BY <1>1, <2>1, <2>2
<1> QED BY <1>1, <1>4, <1>6, <1>7, <1>8

(* A set that has the parents of its windows has all that is above them.   *)
LEMMA AboveClosed ==
  ASSUME WindowsOK(win), NEW Z \in SUBSET Live, Closed(win, Z), NEW v \in Z
  PROVE  Above(v) \subseteq Z
<1>1. v \in Live /\ win[v].parent \in Z \cup {None}
  BY DEF Closed
<1> QED BY <1>1, AboveIs

(* The windows above a window are ordered by how many are above them.      *)
LEMMA AboveFewer ==
  ASSUME WindowsOK(win), NEW v \in Live, NEW u \in Above(v)
  PROVE  /\ u \in Live /\ Above(u) \subseteq Above(v)
         /\ Cardinality(Above(u)) \in Nat /\ Cardinality(Above(u)) < Cardinality(Above(v))
<1>1. /\ u \in Live /\ Above(v) \in SUBSET Live /\ Closed(win, Above(v))
      /\ u \notin Above(u)
  BY AboveIs
<1>2. Above(u) \subseteq Above(v)
  BY <1>1, AboveClosed
<1>3. IsFiniteSet(Above(v))
  <2>1. IsFiniteSet(Live)
    BY DEF WindowsOK, Live
  <2> QED BY <1>1, <2>1, FS_Subset
<1>4. /\ IsFiniteSet(Above(u)) /\ Cardinality(Above(u)) <= Cardinality(Above(v))
      /\ Above(u) # Above(v) => Cardinality(Above(u)) # Cardinality(Above(v))
  BY <1>2, <1>3, FS_Subset
<1>5. Cardinality(Above(u)) \in Nat /\ Cardinality(Above(v)) \in Nat
  BY <1>3, <1>4, FS_CardinalityType
<1>6. Above(u) # Above(v)
  BY <1>1
<1> QED BY <1>1, <1>2, <1>4, <1>5, <1>6

(* The root is above all others.                                           *)
LEMMA RootAbove ==
  ASSUME WindowsOK(win), NEW v \in Live, v # Root
  PROVE  Root \in Above(v)
<1> DEFINE N == {Cardinality(Above(u)) : u \in Above(v)}
<1>1. Above(v) # {}
  <2>1. win[v].parent # None
    BY DEF WindowsOK, Live
  <2> QED BY <2>1, AboveIs
<1>2. PICK n \in N : \A m \in N : n <= m
  <2>1. N \in SUBSET Nat /\ N # {}
    BY <1>1, AboveFewer
  <2> HIDE DEF N
  <2> QED BY <2>1, LeastOf
<1>3. PICK u \in Above(v) : n = Cardinality(Above(u))
  BY <1>2
<1>4. u \in Live
  BY AboveFewer
<1>5. win[u].parent = None
  <2> SUFFICES ASSUME win[u].parent # None PROVE FALSE
    OBVIOUS
  <2>1. win[u].parent \in Above(u)
    BY <1>4, AboveIs
  <2>2. win[u].parent \in Above(v)
    BY <2>1, AboveFewer
  <2>3. Cardinality(Above(win[u].parent)) < n /\ Cardinality(Above(win[u].parent)) \in Nat /\ n \in Nat
    BY <1>3, <1>4, <2>1, AboveFewer
  <2>4. n <= Cardinality(Above(win[u].parent))
    BY <1>2, <2>2
  <2> QED BY <2>3, <2>4
<1>6. u = Root
  BY <1>4, <1>5 DEF WindowsOK, Live
<1> QED BY <1>3, <1>6

(* The window to which one of a save set is moved.                         *)
LEMMA OutsideIs ==
  ASSUME WindowsOK(win), NEW c \in Clients, NEW v \in Live, v # Root
  PROVE  Outside(c, v) \in Above(v) /\ Owner(Outside(c, v)) # c
<1> DEFINE X == {u \in Above(v) : Owner(u) # c}
           N == {Cardinality(Live) - Cardinality(Above(u)) : u \in X}
<1>1. Root \in X
  BY RootAbove, NoneIs
<1>2. \A u \in Live : Cardinality(Above(u)) \in Nat /\ Cardinality(Above(u)) <= Cardinality(Live)
  <2> SUFFICES ASSUME NEW u \in Live
               PROVE  Cardinality(Above(u)) \in Nat /\ Cardinality(Above(u)) <= Cardinality(Live)
    OBVIOUS
  <2>1. Above(u) \in SUBSET Live
    BY AboveIs
  <2>2. IsFiniteSet(Live)
    BY DEF WindowsOK, Live
  <2>3. IsFiniteSet(Above(u)) /\ Cardinality(Above(u)) <= Cardinality(Live)
    BY <2>1, <2>2, FS_Subset
  <2> QED BY <2>3, FS_CardinalityType
<1>3. Cardinality(Live) \in Nat
  BY FS_CardinalityType DEF WindowsOK, Live
<1>4. \A u \in X : u \in Live
  BY AboveIs
<1>5. PICK n \in N : \A m \in N : n <= m
  <2>1. N \in SUBSET Nat /\ N # {}
    BY <1>1, <1>2, <1>3, <1>4
  <2> HIDE DEF N
  <2> QED BY <2>1, LeastOf
<1>6. PICK u \in X : n = Cardinality(Live) - Cardinality(Above(u))
  BY <1>5
<1>7. \A x \in Above(v) : u \in Above(x) => Owner(x) = c
  <2> SUFFICES ASSUME NEW x \in X, u \in Above(x) PROVE FALSE
    OBVIOUS
  <2>1. x \in Live
    BY <1>4
  <2>2. Cardinality(Above(u)) < Cardinality(Above(x))
    BY <2>1, AboveFewer
  <2>3. n <= Cardinality(Live) - Cardinality(Above(x))
    BY <1>5
  <2> QED BY <1>2, <1>3, <1>4, <1>6, <2>1, <2>2, <2>3
<1> DEFINE out(x) == Owner(x) # c /\ \A y \in Above(v) : x \in Above(y) => Owner(y) = c
<1>8. Outside(c, v) = CHOOSE x \in Above(v) : out(x)
  BY DEF Outside
<1>9. \E x \in Above(v) : out(x)
  BY <1>6, <1>7
<1>10. Outside(c, v) \in Above(v) /\ out(Outside(c, v))
  <2> HIDE DEF out
  <2> QED BY <1>8, <1>9
<1> QED BY <1>10

-----------------------------------------------------------------------------
(* The stack of calls.                                                     *)

CallType ==
  [do : {"free"}, id : XID, skip : {"none", "window"}, prev : Record \cup {None},
   elements : Int \cup {None}, gotOne : BOOLEAN]
    \cup [do : {"crush", "forget", "events", "subwindows"}, win : XID]
    \cup [do : {"client"}, client : Clients]

Forget(v) == [do |-> "forget", win |-> v]

\* FreeResource from CrushTree and DeleteWindowFromAnyEvents frees nothing
\* that calls others.
Inner(f) == f.do = "free" /\ (f.skip = "window" \/ f.id[2] # "own")

\* What calls what.  A window is crushed by one call at a time.
Fits(k, i) ==
  LET f == k[i]
  IN  /\ i > 1 => ~Inner(k[i - 1])
      /\ f.do \in {"client", "subwindows"} => i = 1
      /\ f.do = "crush" => /\ i > 1 /\ k[i - 1] = Forget(f.win)
                           /\ \A j \in 1 .. i - 2 : k[j].do \in {"client", "subwindows", "free"}
      /\ f.do \in {"forget", "events"} =>
           \A j \in 1 .. i - 1 : k[j].do \in {"forget", "events"} => k[j].win # f.win
      /\ f.do = "free" =>
           IF f.skip = "window" THEN i > 1 /\ f.id[2] = "own" /\ k[i - 1] = Forget(f.id)
           ELSE IF f.id[2] = "own" THEN \A j \in 1 .. i - 1 : k[j].do = "subwindows"
           ELSE i > 1 => k[i - 1].do = "events"

\* The saved link of a walk, if nothing was freed since: the records of the
\* bucket up to it do not have the XID.
Place(f, t) ==
  LET b == BucketOf(t[Owner(f.id)], f.id)
  IN  \/ f.prev = None
      \/ \E p \in DOMAIN b : b[p] = f.prev /\ \A q \in 1 .. p : b[q].id # f.id

Childless(w, x) == \A v \in DOMAIN w : w[v].parent # x

\* What a call has seen to, or has called others to see to.
FrameOK(k, i, t, w, sa, ow, st) ==
  LET f == k[i]
  IN  /\ f.do = "free" =>
           /\ Owner(f.id) \in Clients
           /\ ~f.gotOne => i = Len(k) /\ f.elements = None /\ Named(t, f.id)
           /\ f.elements = None => f.prev = None
           /\ f.elements # None =>
                /\ t[Owner(f.id)].elements <= f.elements
                /\ t[Owner(f.id)].elements = f.elements => Place(f, t)
      /\ f.do = "forget" =>
           /\ f.win \in DOMAIN w \ {Root}
           /\ ~Named(t, f.win) \/ (i < Len(k) /\ k[i + 1].do = "free")
           /\ Childless(w, f.win) \/ (i < Len(k) /\ k[i + 1].do = "crush")
      /\ f.do = "events" =>
           /\ f.win \in DOMAIN w \ {Root} /\ ~Named(t, f.win) /\ Childless(w, f.win)
           /\ \A c \in Clients : f.win \notin sa[c]
           /\ ow.win # f.win
      /\ f.do = "client" => st[f.client] = "gone"

StackOK(k, t, w, sa, ow, st) ==
  /\ k \in Seq(CallType)
  /\ \A i \in DOMAIN k : Fits(k, i) /\ FrameOK(k, i, t, w, sa, ow, st)

\* The windows to keep, and all that are above them, are not the client's and
\* do not go.
SafeOK(w, k, sf) ==
  \/ sf = {}
  \/ /\ k # <<>> /\ k[1].do = "client"
     /\ \E Z \in SUBSET (DOMAIN w) :
          /\ sf \subseteq Z /\ Closed(w, Z)
          /\ \A z \in Z : Owner(z) # k[1].client /\ ~Goes(k, z)

\* The invariant: every step keeps it, together with IInv.
JInv ==
  /\ TablesOK(table, state)
  /\ RecordsOK(table, win, stack, cache)
  /\ WindowsOK(win)
  /\ ReferencesOK(win, cache, saved, owner, state)
  /\ StackOK(stack, table, win, saved, owner, state)
  /\ SafeOK(win, stack, safe)
  /\ fatal = FALSE

(* JInv holds in the next state if each part of it does.                   *)
LEMMA JPrime ==
  ASSUME TablesOK(table', state'), RecordsOK(table', win', stack', cache'), WindowsOK(win'),
         ReferencesOK(win', cache', saved', owner', state'),
         StackOK(stack', table', win', saved', owner', state'), SafeOK(win', stack', safe'),
         fatal' = FALSE
  PROVE  JInv'
<1>1. TablesOK(table, state)'
  BY DEF TablesOK, Sound, InOrder, Apart, Held
<1>2. RecordsOK(table, win, stack, cache)'
  BY DEF RecordsOK, Of, Goes, HeldOf, Held, WindowOf, PrivateOf, OtherOf
<1>3. WindowsOK(win)'
  BY DEF WindowsOK, Closed, Entry, XID
<1>4. ReferencesOK(win, cache, saved, owner, state)'
  BY DEF ReferencesOK
<1>5. StackOK(stack, table, win, saved, owner, state)'
  BY DEF StackOK, CallType, Fits, FrameOK, Inner, Place, BucketOf, Childless, Named, HeldOf, Held,
         Forget, XID, Record
<1>6. SafeOK(win, stack, safe)'
  BY DEF SafeOK, Closed, Goes
<1> QED BY <1>1, <1>2, <1>3, <1>4, <1>5, <1>6 DEF JInv

(* A sequence without its last element.                                    *)
LEMMA FrontIs ==
  ASSUME NEW D, NEW s \in Seq(D), s # <<>>
  PROVE  /\ Front(s) \in Seq(D) /\ Len(Front(s)) = Len(s) - 1 /\ DOMAIN Front(s) = 1 .. Len(s) - 1
         /\ \A i \in 1 .. Len(s) - 1 : Front(s)[i] = s[i]
         /\ Len(s) \in Nat \ {0} /\ DOMAIN s = 1 .. Len(s) /\ Last(s) = s[Len(s)] /\ Last(s) \in D
<1>1. Len(s) \in Nat \ {0} /\ DOMAIN s = 1 .. Len(s) /\ \A i \in DOMAIN s : s[i] \in D
  OBVIOUS
<1>2. /\ SubSeq(s, 1, Len(s) - 1) \in Seq(D) /\ Len(SubSeq(s, 1, Len(s) - 1)) = Len(s) - 1
      /\ \A i \in 1 .. Len(s) - 1 : SubSeq(s, 1, Len(s) - 1)[i] = s[i]
  BY <1>1
<1>3. DOMAIN SubSeq(s, 1, Len(s) - 1) = 1 .. Len(s) - 1
  BY <1>2
<1> QED BY <1>1, <1>2, <1>3 DEF Front, Last

(* A sequence with another last element.                                   *)
LEMMA PutIs ==
  ASSUME NEW D, NEW s \in Seq(D), s # <<>>, NEW d \in D
  PROVE  /\ Append(Front(s), d) \in Seq(D) /\ Len(Append(Front(s), d)) = Len(s)
         /\ DOMAIN Append(Front(s), d) = 1 .. Len(s)
         /\ Append(Front(s), d)[Len(s)] = d
         /\ \A i \in 1 .. Len(s) - 1 : Append(Front(s), d)[i] = s[i]
<1> DEFINE f == Front(s)
<1>1. /\ f \in Seq(D) /\ Len(f) = Len(s) - 1 /\ DOMAIN f = 1 .. Len(s) - 1
      /\ \A i \in 1 .. Len(s) - 1 : f[i] = s[i] /\ Len(s) \in Nat \ {0}
  BY FrontIs
<1>2. Len(s) \in Nat \ {0}
  BY FrontIs
<1> HIDE DEF f
<1>3. Append(f, d) \in Seq(D) /\ Len(Append(f, d)) = Len(s) /\ Append(f, d)[Len(s)] = d
      /\ \A i \in 1 .. Len(s) - 1 : Append(f, d)[i] = f[i]
  BY <1>1, <1>2
<1>4. DOMAIN Append(f, d) = 1 .. Len(s)
  BY <1>3
<1> QED BY <1>1, <1>3, <1>4 DEF f

(* A call fits upon others wherever the same are below it.                 *)
LEMMA FitsSame ==
  ASSUME NEW k, NEW m, NEW i \in Nat, i # 0, Fits(k, i), \A j \in 1 .. i : m[j] = k[j]
  PROVE  Fits(m, i)
<1>1. i \in 1 .. i /\ (i > 1 => i - 1 \in 1 .. i) /\ \A j \in 1 .. i - 1 : j \in 1 .. i
  OBVIOUS
<1>2. \A j \in 1 .. i - 2 : j \in 1 .. i
  OBVIOUS
<1> QED BY <1>1, <1>2 DEF Fits

(* A call that waits for another keeps what it has seen to, whatever the   *)
(* other does: it frees records and windows.                               *)
Later(t, w, sa, ow, u, v, sb, ox) ==
  /\ \A id \in XID : Owner(id) \in Clients /\ Named(u, id) => Named(t, id)
  /\ \A d \in Clients : u[d] = t[d] \/ u[d].elements < t[d].elements
  /\ \A x : Childless(w, x) => Childless(v, x)
  /\ \A d \in Clients : sb[d] \subseteq sa[d]
  /\ ox.win = ow.win \/ ox.win = None

(* ... and so its frame holds in the stack and the state that the other    *)
(* leaves.                                                                 *)
LEMMA FrameKeeps ==
  ASSUME NEW k \in Seq(CallType), NEW m, NEW i \in DOMAIN k, i # Len(k), m[i] = k[i],
         NEW t \in Tables, NEW u \in Tables, NEW w, NEW v, NEW sa, NEW sb, NEW ow, NEW ox, NEW st,
         FrameOK(k, i, t, w, sa, ow, st), Later(t, w, sa, ow, u, v, sb, ox),
         k[i].do \in {"forget", "events"} =>
           k[i].win \in DOMAIN v \ {Root} /\ Owner(k[i].win) \in Clients,
         k[i].do = "forget" => (k[i + 1].do = "free" =>
           (i < Len(m) /\ m[i + 1].do = "free") \/ ~Named(u, k[i].win)),
         k[i].do = "forget" => (k[i + 1].do = "crush" =>
           (i < Len(m) /\ m[i + 1].do = "crush") \/ Childless(v, k[i].win))
  PROVE  FrameOK(m, i, u, v, sb, ox, st)
<1> DEFINE f == k[i]
<1>1. f \in CallType
  OBVIOUS
<1> HIDE DEF f
<1>2. ASSUME f.do = "free"
      PROVE  /\ Owner(f.id) \in Clients
             /\ ~f.gotOne => i = Len(m) /\ f.elements = None /\ Named(u, f.id)
             /\ f.elements = None => f.prev = None
             /\ f.elements # None =>
                  /\ u[Owner(f.id)].elements <= f.elements
                  /\ u[Owner(f.id)].elements = f.elements => Place(f, u)
  <2>1. /\ Owner(f.id) \in Clients /\ f.gotOne
        /\ f.elements = None => f.prev = None
        /\ f.elements # None =>
             /\ t[Owner(f.id)].elements <= f.elements
             /\ t[Owner(f.id)].elements = f.elements => Place(f, t)
    BY <1>2 DEF FrameOK, f
  <2>2. ASSUME f.elements # None
        PROVE  /\ u[Owner(f.id)].elements <= f.elements
               /\ u[Owner(f.id)].elements = f.elements => Place(f, u)
    <3>1. f.elements \in Int
      BY <1>1, <1>2, <2>2 DEF CallType
    <3>2. t[Owner(f.id)] \in TableType /\ u[Owner(f.id)] \in TableType
      BY <2>1 DEF Tables
    <3>3. t[Owner(f.id)].elements \in Int /\ u[Owner(f.id)].elements \in Int
      BY <3>2 DEF TableType
    <3>4. CASE u[Owner(f.id)] = t[Owner(f.id)]
      BY <2>1, <2>2, <3>4 DEF Place
    <3>5. CASE u[Owner(f.id)].elements < t[Owner(f.id)].elements
      BY <2>1, <2>2, <3>1, <3>3, <3>5
    <3> QED BY <2>1, <3>4, <3>5 DEF Later
  <2> QED BY <2>1, <2>2
<1>3. f.do \in {"forget", "events"} =>
        /\ f.win \in DOMAIN v \ {Root} /\ Owner(f.win) \in Clients
        /\ f.win \in XID
        /\ Named(u, f.win) => Named(t, f.win)
        /\ Childless(w, f.win) => Childless(v, f.win)
  <2>1. f.do \in {"forget", "events"} => f.win \in XID
    BY <1>1 DEF CallType
  <2> QED BY <2>1 DEF Later, f
<1>4. ASSUME f.do = "forget"
      PROVE  /\ f.win \in DOMAIN v \ {Root}
             /\ ~Named(u, f.win) \/ (i < Len(m) /\ m[i + 1].do = "free")
             /\ Childless(v, f.win) \/ (i < Len(m) /\ m[i + 1].do = "crush")
  BY <1>3, <1>4 DEF FrameOK, f
<1>5. ASSUME f.do = "events"
      PROVE  /\ f.win \in DOMAIN v \ {Root} /\ ~Named(u, f.win) /\ Childless(v, f.win)
             /\ \A c \in Clients : f.win \notin sb[c]
             /\ ox.win # f.win
  <2>1. f.win # None
    BY <1>3, <1>5, NoneIs
  <2> QED BY <1>3, <1>5, <2>1 DEF FrameOK, Later, f
<1>6. f.do = "client" => st[f.client] = "gone"
  BY DEF FrameOK, f
<1> QED BY <1>2, <1>4, <1>5, <1>6 DEF FrameOK, f

\* What the delete function of a record does to the windows, but for
\* DeleteWindow.
Cleared(w, r) ==
  IF r.type = "private" THEN [w EXCEPT ![r.win].private = FALSE]
  ELSE IF r.type = "other" THEN [w EXCEPT ![r.win].others = @ \ {r.id}]
  ELSE w

\* Windows in the same tree.
SameTree(w, v) == DOMAIN v = DOMAIN w /\ \A x \in DOMAIN w : v[x].parent = w[x].parent

(* Windows that keep their parents remain a tree.                          *)
LEMMA TreeKept ==
  ASSUME NEW w, NEW v, WindowsOK(w), SameTree(w, v),
         \A x \in DOMAIN w :
           /\ v[x] \in [parent : DOMAIN w \cup {None}, private : BOOLEAN, others : SUBSET Entry]
           /\ x = Root => ~v[x].private
  PROVE  WindowsOK(v)
<1>1. \A S \in SUBSET (DOMAIN w) : Closed(w, S) => Closed(v, S)
  BY DEF Closed, SameTree
<1>2. ASSUME NEW x \in DOMAIN w
      PROVE  \E S \in SUBSET (DOMAIN v) : Closed(v, S) /\ v[x].parent \in S \cup {None} /\ x \notin S
  BY <1>1 DEF WindowsOK, SameTree
<1> QED BY <1>2 DEF WindowsOK, SameTree

(* ... and the same ones have no children.                                 *)
LEMMA TreeChildless ==
  ASSUME NEW w, NEW v, SameTree(w, v)
  PROVE  \A x : Childless(w, x) => Childless(v, x)
BY DEF SameTree, Childless

(* What the delete functions of privates and entries change.               *)
LEMMA ClearedIs ==
  ASSUME NEW w, NEW r, WindowsOK(w), r.win \in DOMAIN w
  PROVE  /\ SameTree(w, Cleared(w, r)) /\ WindowsOK(Cleared(w, r))
         /\ \A x \in DOMAIN w :
              /\ Cleared(w, r)[x].private <=> w[x].private /\ ~(r.type = "private" /\ x = r.win)
              /\ Cleared(w, r)[x].others =
                   IF r.type = "other" /\ x = r.win THEN w[x].others \ {r.id} ELSE w[x].others
<1> DEFINE v == Cleared(w, r)
<1>1. \A x \in DOMAIN w :
        w[x] \in [parent : DOMAIN w \cup {None}, private : BOOLEAN, others : SUBSET Entry]
  BY DEF WindowsOK
<1>2. ASSUME NEW x \in DOMAIN w
      PROVE  /\ x \in DOMAIN v /\ v[x].parent = w[x].parent
             /\ v[x] \in [parent : DOMAIN w \cup {None}, private : BOOLEAN, others : SUBSET Entry]
             /\ v[x].private <=> w[x].private /\ ~(r.type = "private" /\ x = r.win)
             /\ v[x].others = IF r.type = "other" /\ x = r.win THEN w[x].others \ {r.id} ELSE w[x].others
  <2>1. CASE r.type = "private"
    BY <1>1, <2>1 DEF Cleared
  <2>2. CASE r.type = "other"
    BY <1>1, <2>2 DEF Cleared
  <2>3. CASE r.type \notin {"private", "other"}
    BY <1>1, <2>3 DEF Cleared
  <2> QED BY <2>1, <2>2, <2>3
<1>3. DOMAIN v = DOMAIN w
  BY DEF Cleared
<1> HIDE DEF v
<1>4. SameTree(w, v)
  BY <1>2, <1>3 DEF SameTree
<1>5. \A x \in DOMAIN w : x = Root => ~v[x].private
  BY <1>2 DEF WindowsOK
<1>6. WindowsOK(v)
  BY <1>2, <1>4, <1>5, TreeKept
<1> QED BY <1>2, <1>4, <1>6 DEF v

(* A record is unlinked, and the delete function clears what it is of.     *)
LEMMA Unlinked ==
  ASSUME IInv, JInv, NEW c \in Clients, NEW r \in Held(table[c]), NEW n \in Int
  PROVE  LET u == Unlink(r, n)
         IN  /\ u \in Tables /\ TablesOK(u, state) /\ r \in Record /\ Owner(r.id) = c
             /\ \A d \in Clients : d # c => u[d] = table[d]
             /\ Held(u[c]) = Held(table[c]) \ {r}
             /\ u[c].elements = table[c].elements - n
             /\ \A id \in XID : Owner(id) \in Clients /\ Named(u, id) => Named(table, id)
             /\ \A m \in DOMAIN BucketOf(table[c], r.id) : BucketOf(table[c], r.id)[m] = r =>
                  \A j \in 1 .. m - 1 :
                    /\ j \in DOMAIN BucketOf(u[c], r.id)
                    /\ BucketOf(u[c], r.id)[j] = BucketOf(table[c], r.id)[j]
<1> DEFINE u == Unlink(r, n)
<1>1. table \in Tables /\ TablesOK(table, state) /\ Sound(table[c], c) /\ table[c] \in TableType
  BY DEF IInv, JInv, TablesOK, Tables
<1>2. /\ u \in Tables /\ \A d \in Clients : d # c => u[d] = table[d]
      /\ Held(u[c]) = Held(table[c]) \ {r} /\ Sound(u[c], c)
      /\ u[c].elements = table[c].elements - n
      /\ u[c].buckets # <<>>
      /\ \A m \in DOMAIN BucketOf(table[c], r.id) : BucketOf(table[c], r.id)[m] = r =>
           \A j \in 1 .. m - 1 :
             /\ j \in DOMAIN BucketOf(u[c], r.id)
             /\ BucketOf(u[c], r.id)[j] = BucketOf(table[c], r.id)[j]
  <2>1. /\ u \in Tables /\ \A d \in Clients \cup {Server} : d # c => u[d] = table[d]
        /\ Held(u[c]) = Held(table[c]) \ {r} /\ Sound(u[c], c)
        /\ u[c].elements = table[c].elements - n
        /\ u[c].buckets # <<>>
        /\ \A m \in DOMAIN BucketOf(table[c], r.id) : BucketOf(table[c], r.id)[m] = r =>
             \A j \in 1 .. m - 1 :
               /\ j \in DOMAIN BucketOf(u[c], r.id)
               /\ BucketOf(u[c], r.id)[j] = BucketOf(table[c], r.id)[j]
    BY <1>1, UnlinkTakes, Zenon
  <2> HIDE DEF u
  <2> QED BY <2>1
<1> HIDE DEF u
<1>3. TablesOK(u, state)
  BY <1>1, <1>2 DEF TablesOK
<1>4. r \in Record /\ Owner(r.id) = c
  <2>1. Owner(r.id) = c
    BY <1>1 DEF Held, Sound
  <2> QED BY <1>1, <2>1, HeldAreRecords
<1>5. \A id \in XID : Owner(id) \in Clients /\ Named(u, id) => Named(table, id)
  BY <1>2 DEF Named, HeldOf
<1> QED BY <1>2, <1>3, <1>4, <1>5 DEF u

(* The records of a table have XIDs of its client.                         *)
LEMMA OwnersAre ==
  ASSUME NEW t, NEW st, TablesOK(t, st), NEW c \in Clients, NEW r \in Held(t[c])
  PROVE  Owner(r.id) = c
BY DEF TablesOK, Sound, Held

(* Without the record and with what it is of cleared, the records and the  *)
(* windows agree as before.                                                *)
LEMMA RecordGone ==
  ASSUME JInv, NEW c \in Clients, NEW r \in Held(table[c]), NEW u, NEW m, NEW ca,
         \A d \in Clients : d # c => u[d] = table[d], Held(u[c]) = Held(table[c]) \ {r},
         \A x : Goes(stack, x) => Goes(m, x), r.type = "window" => Goes(m, r.win),
         \A d \in Clients : ca[d] = cache[d] \/ ca[d] = Root,
         r.type = "window" => \A d \in Clients : ca[d] # r.win
  PROVE  RecordsOK(u, Cleared(win, r), m, ca)
<1>0. TablesOK(table, state) /\ RecordsOK(table, win, stack, cache) /\ WindowsOK(win)
  BY DEF JInv
<1> DEFINE v == Cleared(win, r)
<1>1. /\ Of(r, win) /\ r.win \in DOMAIN win /\ Owner(r.id) = c
      /\ \A d \in Clients : \A q \in Held(table[d]) : Of(q, win) /\ Owner(q.id) = d
  BY <1>0, OwnersAre DEF RecordsOK, Of
<1>2. \A d \in Clients : \A q : q \in Held(u[d]) <=> q \in Held(table[d]) /\ q # r
  BY <1>1
<1>3. /\ DOMAIN v = DOMAIN win
      /\ \A x \in DOMAIN win :
              /\ v[x].private <=> win[x].private /\ ~(r.type = "private" /\ x = r.win)
              /\ v[x].others =
                   IF r.type = "other" /\ x = r.win THEN win[x].others \ {r.id} ELSE win[x].others
  <2>1. WindowsOK(win) /\ r.win \in DOMAIN win
    BY <1>0, <1>1
  <2>2. SameTree(win, v)
    BY <2>1, ClearedIs
  <2>3. \A x \in DOMAIN win :
              /\ v[x].private <=> win[x].private /\ ~(r.type = "private" /\ x = r.win)
              /\ v[x].others =
                   IF r.type = "other" /\ x = r.win THEN win[x].others \ {r.id} ELSE win[x].others
    BY <2>1, ClearedIs
  <2> QED BY <2>2, <2>3 DEF SameTree
<1> HIDE DEF v
<1>4. \/ r = WindowOf(r.win) /\ r.win # Root
      \/ r = PrivateOf(r.win)
      \/ r = OtherOf(r.id, r.win)
  BY <1>1 DEF Of
<1>5. ASSUME NEW d \in Clients, NEW q \in Held(u[d]) PROVE Of(q, v)
  <2>1. Of(q, win) /\ q # r
    BY <1>1, <1>2
  <2>2. CASE q = WindowOf(q.win) /\ q.win # Root
    BY <1>3, <2>1, <2>2 DEF Of
  <2>3. CASE q = PrivateOf(q.win) /\ win[q.win].private
    <3>1. r.type = "private" => r = PrivateOf(r.win)
      BY <1>4 DEF WindowOf, OtherOf
    <3>2. ~(r.type = "private" /\ q.win = r.win)
      BY <2>1, <2>3, <3>1
    <3> QED BY <1>3, <2>1, <2>3, <3>2 DEF Of
  <2>4. CASE q = OtherOf(q.id, q.win) /\ q.id \in win[q.win].others
    <3>1. r.type = "other" => r = OtherOf(r.id, r.win)
      BY <1>4 DEF WindowOf, PrivateOf
    <3>2. ~(r.type = "other" /\ q.win = r.win /\ q.id = r.id)
      BY <2>1, <2>4, <3>1
    <3> QED BY <1>3, <2>1, <2>4, <3>2 DEF Of
  <2> QED BY <2>1, <2>2, <2>3, <2>4 DEF Of
<1>6. ASSUME NEW x \in DOMAIN win
      PROVE  /\ v[x].private => PrivateOf(x) \in HeldOf(u, x)
             /\ \A o \in v[x].others : OtherOf(o, x) \in HeldOf(u, o)
             /\ \/ x = Root \/ WindowOf(x) \in HeldOf(u, x)
                \/ Goes(m, x) /\ \A d \in Clients : ca[d] # x
  <2>0. /\ x \in XID /\ (x # Root => Owner(x) \in Clients) /\ (win[x].private => x # Root)
        /\ \A o \in win[x].others : Owner(o) \in Clients
    BY <1>0 DEF WindowsOK, Entry
  <2>1. ASSUME v[x].private PROVE PrivateOf(x) \in HeldOf(u, x)
    <3>1. win[x].private /\ ~(r.type = "private" /\ x = r.win)
      BY <1>3, <2>1
    <3>2. PrivateOf(x) # r
      BY <3>1 DEF PrivateOf
    <3>3. PrivateOf(x) \in HeldOf(table, x) /\ Owner(x) \in Clients
      BY <1>0, <2>0, <3>1 DEF RecordsOK
    <3> QED BY <1>2, <3>2, <3>3 DEF HeldOf
  <2>2. ASSUME NEW o \in v[x].others PROVE OtherOf(o, x) \in HeldOf(u, o)
    <3>1. o \in win[x].others /\ ~(r.type = "other" /\ x = r.win /\ o = r.id)
      BY <1>3, <2>2
    <3>2. OtherOf(o, x) # r
      BY <3>1 DEF OtherOf
    <3>3. OtherOf(o, x) \in HeldOf(table, o) /\ Owner(o) \in Clients
      BY <1>0, <2>0, <3>1 DEF RecordsOK
    <3> QED BY <1>2, <3>2, <3>3 DEF HeldOf
  <2>3. ASSUME x # Root
        PROVE  \/ WindowOf(x) \in HeldOf(u, x)
               \/ Goes(m, x) /\ \A d \in Clients : ca[d] # x
    <3>1. CASE WindowOf(x) = r
      <4>1. r.type = "window" /\ r.win = x
        BY <3>1 DEF WindowOf
      <4> QED BY <4>1
    <3>2. CASE WindowOf(x) # r /\ WindowOf(x) \in HeldOf(table, x)
      BY <1>2, <2>0, <2>3, <3>2 DEF HeldOf
    <3>3. CASE Goes(stack, x) /\ \A d \in Clients : cache[d] # x
      BY <2>3, <3>3
    <3> QED BY <1>0, <2>3, <3>1, <3>2, <3>3 DEF RecordsOK
  <2> QED BY <2>1, <2>2, <2>3
<1> QED BY <1>3, <1>5, <1>6 DEF RecordsOK, v

(* The windows to keep are kept, if no window of theirs goes.              *)
LEMMA SafeKeeps ==
  ASSUME NEW w, NEW v, NEW k, NEW m, NEW sf, SafeOK(w, k, sf),
         DOMAIN v \subseteq DOMAIN w, \A x \in DOMAIN v : v[x].parent = w[x].parent,
         \A x \in DOMAIN w \ DOMAIN v : Goes(k, x),
         k # <<>> /\ k[1].do = "client" => m # <<>> /\ m[1] = k[1],
         \A x : Goes(m, x) => \/ Goes(k, x)
                              \/ k[1].do = "client" /\ Owner(x) = k[1].client
                              \/ \E y : Goes(k, y) /\ \A Z \in SUBSET (DOMAIN w) :
                                          Closed(w, Z) /\ x \in Z => y \in Z
  PROVE  SafeOK(v, m, sf)
<1>1. CASE sf = {}
  BY <1>1 DEF SafeOK
<1>2. CASE sf # {}
  <2>1. k # <<>> /\ k[1].do = "client" /\ m # <<>> /\ m[1] = k[1]
    BY <1>2 DEF SafeOK
  <2>2. PICK Z \in SUBSET (DOMAIN w) :
          /\ sf \subseteq Z /\ Closed(w, Z)
          /\ \A z \in Z : Owner(z) # k[1].client /\ ~Goes(k, z)
    BY <1>2 DEF SafeOK
  <2>3. Z \in SUBSET (DOMAIN v)
    BY <2>2
  <2>4. Closed(v, Z)
    BY <2>2, <2>3 DEF Closed
  <2>5. \A z \in Z : ~Goes(m, z)
    BY <2>2
  <2> QED BY <2>1, <2>2, <2>3, <2>4, <2>5 DEF SafeOK
<1> QED BY <1>1, <1>2

-----------------------------------------------------------------------------
(* The steps of the calls.                                                 *)

(* The innermost call, and what the invariant says of all.                 *)
LEMMA TopIs ==
  ASSUME JInv, stack # <<>>
  PROVE  /\ stack \in Seq(CallType) /\ Len(stack) \in Nat \ {0} /\ DOMAIN stack = 1 .. Len(stack)
         /\ Top = stack[Len(stack)] /\ Top \in CallType
         /\ \A i \in 1 .. Len(stack) : /\ Fits(stack, i)
                                       /\ FrameOK(stack, i, table, win, saved, owner, state)
<1>1. stack \in Seq(CallType) /\ \A i \in DOMAIN stack :
        Fits(stack, i) /\ FrameOK(stack, i, table, win, saved, owner, state)
  BY DEF JInv, StackOK
<1> QED BY <1>1, FrontIs DEF Top

(* A walk goes on from where it was or, if records of the table were freed *)
(* since, from the start: what it has passed has no record of the XID.     *)
LEMMA WalkIs ==
  ASSUME IInv, JInv, Calls("free")
  PROVE  LET b == BucketOf(table[Owner(Top.id)], Top.id)
             o == Onward(Top)
         IN  /\ Owner(Top.id) \in Clients /\ Top.id \in XID /\ b \in Seq(Record) /\ InOrder(b)
             /\ Range(b) \subseteq Held(table[Owner(Top.id)])
             /\ \A r \in Held(table[Owner(Top.id)]) : r.id = Top.id => r \in Range(b)
             /\ o \in 1 .. Len(b) + 1 /\ \A q \in 1 .. o - 1 : b[q].id # Top.id
             /\ IF o = 1 THEN PrevOf(Top) = None ELSE PrevOf(Top) = b[o - 1] /\ o - 1 \in DOMAIN b
             /\ Found(Top) = {i \in DOMAIN b : b[i].id = Top.id}
<1> DEFINE f == Top
           c == Owner(f.id)
           b == BucketOf(table[c], f.id)
           o == Onward(f)
<1>1. f \in CallType /\ f.do = "free" /\ FrameOK(stack, Len(stack), table, win, saved, owner, state)
      /\ f = stack[Len(stack)]
  BY TopIs DEF Calls
<1>2. /\ f.id \in XID /\ c \in Clients
      /\ f.elements = None => f.prev = None
      /\ f.elements # None /\ table[c].elements = f.elements => Place(f, table)
  BY <1>1 DEF CallType, FrameOK
<1>3. table[c] \in TableType /\ Sound(table[c], c)
  BY <1>2 DEF IInv, JInv, Tables, TablesOK
<1>4. /\ b \in Seq(Record) /\ InOrder(b) /\ Range(b) \subseteq Held(table[c])
      /\ \A r \in Held(table[c]) : r.id = f.id => r \in Range(b)
  BY <1>2, <1>3, BucketIs
<1>5. Bucket(f.id) = b
  BY DEF Bucket, BucketOf
<1> HIDE DEF f, c
<1>6. DOMAIN b = 1 .. Len(b) /\ Len(b) \in Nat
  BY <1>4
<1>7. \/ PrevOf(f) = None
      \/ \E p \in DOMAIN b : b[p] = PrevOf(f) /\ \A q \in 1 .. p : b[q].id # f.id
  BY <1>2 DEF PrevOf, Place, c
<1>8. o = IF PrevOf(f) = None THEN 1
          ELSE IF PrevOf(f) \in Range(b) THEN 1 + CHOOSE i \in DOMAIN b : b[i] = PrevOf(f)
          ELSE Len(b) + 1
  BY <1>5 DEF Onward
<1>9. /\ o \in 1 .. Len(b) + 1 /\ \A q \in 1 .. o - 1 : b[q].id # f.id
      /\ IF o = 1 THEN PrevOf(f) = None ELSE PrevOf(f) = b[o - 1] /\ o - 1 \in DOMAIN b
  <2> HIDE DEF o
  <2>1. CASE PrevOf(f) = None
    <3>1. o = 1
      BY <1>8, <2>1
    <3> QED BY <1>6, <2>1, <3>1
  <2>2. CASE PrevOf(f) # None
    <3>1. PICK p \in DOMAIN b : b[p] = PrevOf(f) /\ \A q \in 1 .. p : b[q].id # f.id
      BY <1>7, <2>2
    <3>2. \A i \in DOMAIN b : b[i] = PrevOf(f) => i = p
      BY <1>4, <1>6, <3>1 DEF InOrder, Apart
    <3>3. (CHOOSE i \in DOMAIN b : b[i] = PrevOf(f)) = p
      BY <3>1, <3>2
    <3>4. PrevOf(f) \in Range(b)
      BY <3>1 DEF Range
    <3>5. o = 1 + p
      BY <1>8, <2>2, <3>3, <3>4
    <3>6. p \in 1 .. Len(b) /\ o - 1 = p /\ o # 1 /\ o \in 1 .. Len(b) + 1
      BY <1>6, <3>1, <3>5
    <3> QED BY <3>1, <3>6
  <2> QED BY <2>1, <2>2
<1>10. Found(f) = {i \in DOMAIN b : b[i].id = f.id}
  <2>1. Found(f) = {i \in DOMAIN b : i >= o /\ b[i].id = f.id}
    BY <1>5 DEF Found
  <2> HIDE DEF o
  <2>2. \A i \in DOMAIN b : ~(i >= o) => i \in 1 .. o - 1
    BY <1>6, <1>9
  <2> QED BY <1>9, <2>1, <2>2
<1> QED BY <1>2, <1>4, <1>9, <1>10 DEF f, c

(* The record that a walk comes to next.                                   *)
LEMMA NextIs ==
  ASSUME IInv, JInv, FreeNext
  PROVE  \E r, call :
           LET c == Owner(Top.id)
               u == Unlink(r, 1)
           IN  /\ c \in Clients /\ r \in Held(table[c]) /\ r.id = Top.id
               /\ table' = u /\ cache' = Flushed(r)
               /\ call \in CallType /\ call.do = "free" /\ call.id = Top.id /\ call.skip = Top.skip
               /\ call.gotOne /\ call.elements = u[c].elements /\ call.elements \in Int
               /\ Place(call, u)
               /\ \A q \in Held(table[c]) : q.id = r.id /\ q # r => ~(r.type = "window" /\ q.type = "private")
               /\ IF r.type = Top.skip
                    THEN stack' = Append(Rest, call) /\ UNCHANGED <<win, fatal>>
                    ELSE DeleteFunc(r, Append(Rest, call))
<1> DEFINE f == Top
           c == Owner(f.id)
           b == BucketOf(table[c], f.id)
           o == Onward(f)
           i == CHOOSE j \in Found(f) : \A k \in Found(f) : j <= k
           r == b[i]
           u == Unlink(r, 1)
           prev == IF i = o THEN PrevOf(f) ELSE b[i - 1]
           elements == table[c].elements - 1
           call == [f EXCEPT !.prev = prev, !.elements = elements, !.gotOne = TRUE]
<1>1. Calls("free") /\ Found(f) # {}
  BY DEF FreeNext
<1>2. /\ c \in Clients /\ f.id \in XID /\ b \in Seq(Record) /\ InOrder(b)
      /\ Range(b) \subseteq Held(table[c])
      /\ \A q \in Held(table[c]) : q.id = f.id => q \in Range(b)
      /\ o \in 1 .. Len(b) + 1 /\ \A q \in 1 .. o - 1 : b[q].id # f.id
      /\ IF o = 1 THEN PrevOf(f) = None ELSE PrevOf(f) = b[o - 1] /\ o - 1 \in DOMAIN b
      /\ Found(f) = {j \in DOMAIN b : b[j].id = f.id}
  BY <1>1, WalkIs, Zenon
<1>3. f \in CallType /\ f.do = "free"
  BY <1>1, TopIs DEF Calls
<1>4. Bucket(f.id) = b
  BY DEF Bucket, BucketOf
<1>5. /\ table' = u /\ cache' = Flushed(r)
      /\ IF r.type = f.skip
           THEN stack' = Append(Rest, call) /\ UNCHANGED <<win, fatal>>
           ELSE DeleteFunc(r, Append(Rest, call))
  BY <1>4 DEF FreeNext
<1> HIDE DEF f, c, b, o
<1>6. DOMAIN b = 1 .. Len(b) /\ Len(b) \in Nat
  BY <1>2
<1>7. i \in Found(f) /\ \A k \in Found(f) : i <= k
  <2> DEFINE F == Found(f)
  <2>1. F \in SUBSET Nat /\ F # {}
    BY <1>1, <1>2, <1>6
  <2> HIDE DEF F
  <2>2. \E j \in F : \A k \in F : j <= k
    BY <2>1, LeastOf
  <2>3. i = CHOOSE j \in F : \A k \in F : j <= k
    BY DEF F
  <2> HIDE DEF i
  <2>4. i \in F /\ \A k \in F : i <= k
    BY <2>2, <2>3
  <2> QED BY <2>4 DEF F
<1> HIDE DEF i
<1>8. i \in 1 .. Len(b) /\ b[i].id = f.id /\ \A q \in 1 .. i - 1 : b[q].id # f.id
  <2>1. i \in 1 .. Len(b) /\ b[i].id = f.id
    BY <1>2, <1>6, <1>7
  <2>2. \A q \in 1 .. i - 1 : q \in DOMAIN b /\ ~(i <= q)
    BY <1>6, <2>1
  <2> QED BY <1>2, <1>7, <2>1, <2>2
<1>9. r \in Held(table[c]) /\ r.id = f.id /\ r \in Record
  <2>1. b[i] \in Range(b)
    BY <1>6, <1>8 DEF Range
  <2> QED BY <1>2, <1>6, <1>8, <2>1
<1>10. \/ prev = None
       \/ i > 1 /\ prev = b[i - 1]
  BY <1>2, <1>8
<1>11. /\ u[c].elements = elements /\ elements \in Int
       /\ \A j \in 1 .. i - 1 :
            /\ j \in DOMAIN BucketOf(u[c], f.id)
            /\ BucketOf(u[c], f.id)[j] = b[j]
  <2>1. table[c] \in TableType
    BY <1>2 DEF IInv, Tables
  <2>2. table[c].elements \in Int
    BY <2>1 DEF TableType
  <2>3. /\ u[c].elements = elements
        /\ \A m \in DOMAIN BucketOf(table[c], r.id) : BucketOf(table[c], r.id)[m] = r =>
                  \A j \in 1 .. m - 1 :
                    /\ j \in DOMAIN BucketOf(u[c], r.id)
                    /\ BucketOf(u[c], r.id)[j] = BucketOf(table[c], r.id)[j]
    BY <1>2, <1>9, Unlinked
  <2>4. BucketOf(table[c], r.id) = b
    BY <1>9 DEF b
  <2> QED BY <1>6, <1>8, <1>9, <2>2, <2>3, <2>4
<1>12. prev \in Record \cup {None}
  <2>1. i > 1 => i - 1 \in DOMAIN b
    BY <1>6, <1>8
  <2> QED BY <1>2, <1>10, <2>1
<1> HIDE DEF prev, elements
<1>13. /\ call \in CallType /\ call.do = "free" /\ call.id = f.id /\ call.skip = f.skip
       /\ call.gotOne /\ call.elements = elements /\ call.prev = prev
  BY <1>3, <1>11, <1>12 DEF CallType
<1> HIDE DEF call, u, r
<1>14. Place(call, u)
  <2>1. CASE prev = None
    BY <1>13, <2>1 DEF Place
  <2>2. CASE i > 1 /\ prev = b[i - 1]
    <3> DEFINE a == BucketOf(u[c], f.id)
    <3>1. i - 1 \in 1 .. i - 1 /\ i - 1 \in DOMAIN a /\ a[i - 1] = prev
      BY <1>8, <1>11, <2>2
    <3>2. \A q \in 1 .. i - 1 : a[q].id # f.id
      BY <1>8, <1>11
    <3>3. Owner(call.id) = c /\ call.id = f.id
      BY <1>13 DEF c
    <3> QED BY <1>13, <3>1, <3>2, <3>3 DEF Place
  <2> QED BY <1>10, <2>1, <2>2
<1>15. \A q \in Held(table[c]) : q.id = r.id /\ q # r => ~(r.type = "window" /\ q.type = "private")
  <2> SUFFICES ASSUME NEW q \in Held(table[c]), q.id = r.id, q # r
               PROVE  ~(r.type = "window" /\ q.type = "private")
    OBVIOUS
  <2>1. PICK j \in DOMAIN b : b[j] = q
    BY <1>2, <1>9 DEF Range
  <2>2. j > i /\ i \in DOMAIN b
    <3>1. j \notin 1 .. i - 1 /\ j # i
      BY <1>8, <1>9, <2>1 DEF r
    <3> QED BY <1>6, <1>8, <3>1
  <2>3. Apart(b[i], b[j])
    BY <1>2, <2>2 DEF InOrder
  <2> QED BY <2>1, <2>3 DEF Apart, r
<1>16. r \in Held(table[c]) /\ r.id = f.id /\ call.elements = u[c].elements /\ call.elements \in Int
  BY <1>9, <1>11, <1>13
<1>17. u = Unlink(r, 1)
  BY DEF u
<1> QED BY <1>2, <1>5, <1>13, <1>14, <1>15, <1>16, <1>17 DEF f, c

(* A call that waits, as FrameKeeps, in a stack that is sound.             *)
LEMMA Waiting ==
  ASSUME IInv, JInv, stack # <<>>, NEW m, NEW u \in Tables, NEW v, NEW sb, NEW ox,
         Later(table, win, saved, owner, u, v, sb, ox),
         NEW i \in 1 .. Len(stack) - 1, m[i] = stack[i],
         stack[i].do \in {"forget", "events"} => stack[i].win \in DOMAIN v,
         stack[i].do = "forget" =>
           \/ i < Len(m) /\ m[i + 1].do = stack[i + 1].do
           \/ stack[i + 1].do = "free" /\ ~Named(u, stack[i].win)
           \/ stack[i + 1].do = "crush" /\ Childless(v, stack[i].win)
           \/ stack[i + 1].do \notin {"free", "crush"}
  PROVE  FrameOK(m, i, u, v, sb, ox, state)
<1>1. /\ stack \in Seq(CallType) /\ Len(stack) \in Nat \ {0} /\ DOMAIN stack = 1 .. Len(stack)
      /\ \A j \in 1 .. Len(stack) : /\ Fits(stack, j)
                                    /\ FrameOK(stack, j, table, win, saved, owner, state)
  BY TopIs
<1>2. i \in DOMAIN stack /\ i # Len(stack) /\ FrameOK(stack, i, table, win, saved, owner, state)
  <2>0. Len(stack) \in Nat
    BY <1>1
  <2>1. i \in 1 .. Len(stack) /\ i # Len(stack)
    BY <2>0
  <2> QED BY <1>1, <2>1
<1>3. ASSUME stack[i].do \in {"forget", "events"}
      PROVE  stack[i].win \in DOMAIN v \ {Root} /\ Owner(stack[i].win) \in Clients
  <2>1. stack[i].win \in DOMAIN win \ {Root}
    BY <1>2, <1>3 DEF FrameOK
  <2> QED BY <1>3, <2>1 DEF JInv, WindowsOK
<1>4. ASSUME stack[i].do = "forget"
      PROVE  /\ stack[i + 1].do = "free" =>
                  (i < Len(m) /\ m[i + 1].do = "free") \/ ~Named(u, stack[i].win)
             /\ stack[i + 1].do = "crush" =>
                  (i < Len(m) /\ m[i + 1].do = "crush") \/ Childless(v, stack[i].win)
  BY <1>4
<1>5. table \in Tables
  BY DEF IInv
<1> QED BY <1>1, <1>2, <1>3, <1>4, <1>5, FrameKeeps

(* A window that goes is not freed yet.                                    *)
LEMMA GoesLive ==
  ASSUME JInv, NEW x, Goes(stack, x)
  PROVE  x \in DOMAIN win \ {Root} /\ Owner(x) \in Clients /\ x \in XID
<1>1. PICK i \in DOMAIN stack : stack[i].do \in {"forget", "events"} /\ stack[i].win = x
  BY DEF Goes
<1>2. FrameOK(stack, i, table, win, saved, owner, state)
  BY <1>1 DEF JInv, StackOK
<1>3. x \in DOMAIN win \ {Root}
  BY <1>1, <1>2 DEF FrameOK
<1> QED BY <1>3 DEF JInv, WindowsOK

(* What the rest of an invariant has of a record's delete function.        *)
LEMMA ClearedKeeps ==
  ASSUME IInv, JInv, NEW c \in Clients, NEW r \in Held(table[c])
  PROVE  /\ r.win \in DOMAIN win /\ Of(r, win)
         /\ DOMAIN Cleared(win, r) = DOMAIN win /\ WindowsOK(Cleared(win, r))
         /\ \A x \in DOMAIN win : Cleared(win, r)[x].parent = win[x].parent
         /\ \A x : Childless(win, x) => Childless(Cleared(win, r), x)
         /\ \A st, ca : ReferencesOK(win, ca, saved, owner, st) =>
              ReferencesOK(Cleared(win, r), ca, saved, owner, st)
         /\ r.type = "window" => r = WindowOf(r.win) /\ r.win # Root /\ Cleared(win, r) = win
         /\ r.type \in {"window", "private", "other"}
<1>1. Of(r, win) /\ r.win \in DOMAIN win /\ WindowsOK(win)
  BY DEF JInv, RecordsOK, Of
<1> DEFINE v == Cleared(win, r)
<1>2. SameTree(win, v) /\ WindowsOK(v)
  BY <1>1, ClearedIs
<1>3. r.type = "window" => v = win
  BY DEF Cleared
<1> HIDE DEF v
<1>4. \A x : Childless(win, x) => Childless(v, x)
  BY <1>2, TreeChildless
<1>5. DOMAIN v = DOMAIN win /\ \A x \in DOMAIN win : v[x].parent = win[x].parent
  BY <1>2 DEF SameTree
<1>6. \A st, ca : ReferencesOK(win, ca, saved, owner, st) => ReferencesOK(v, ca, saved, owner, st)
  BY <1>5 DEF ReferencesOK
<1>7. /\ r.type = "window" => r = WindowOf(r.win) /\ r.win # Root
      /\ r.type \in {"window", "private", "other"}
  BY <1>1 DEF Of, WindowOf, PrivateOf, OtherOf
<1> QED BY <1>1, <1>2, <1>3, <1>4, <1>5, <1>6, <1>7 DEF v

(* A delete function finds what it looks for, so that it is not fatal: it  *)
(* clears it, or calls DeleteWindow.                                       *)
LEMMA DeleteFuncIs ==
  ASSUME IInv, JInv, NEW c \in Clients, NEW r \in Held(table[c]), NEW calls, DeleteFunc(r, calls)
  PROVE  /\ win' = Cleared(win, r) /\ fatal' = FALSE
         /\ IF r.type = "window" THEN stack' = calls \o DeleteWindow(r.win) ELSE stack' = calls
<1>1. /\ Of(r, win) /\ r.win \in Live /\ fatal = FALSE
      /\ r.type = "window" => Cleared(win, r) = win
  BY ClearedKeeps DEF JInv, Live
<1>2. CASE r.type = "window"
  BY <1>1, <1>2 DEF DeleteFunc
<1>3. CASE r.type = "other"
  <2>1. r.id \in win[r.win].others
    BY <1>1, <1>3 DEF Of, WindowOf, PrivateOf
  <2> QED BY <1>1, <1>3, <2>1 DEF DeleteFunc, OtherClientGone, Cleared
<1>4. CASE r.type = "private"
  BY <1>1, <1>4 DEF DeleteFunc, DRIDrawablePrivDelete, Cleared
<1> QED BY <1>2, <1>3, <1>4 DEF DeleteFunc

(* FlushClientCaches leaves no client with the window.                     *)
LEMMA FlushedIs ==
  ASSUME JInv, NEW r, r.type = "window" => r = WindowOf(r.win) /\ r.win # Root
  PROVE  /\ \A d \in Clients : Flushed(r)[d] = cache[d] \/ Flushed(r)[d] = Root
         /\ r.type = "window" => \A d \in Clients : Flushed(r)[d] # r.win
         /\ ReferencesOK(win, Flushed(r), saved, owner, state)
<1>1. /\ cache \in [Clients -> DOMAIN win] /\ Root \in DOMAIN win
      /\ ReferencesOK(win, cache, saved, owner, state)
  BY DEF JInv, ReferencesOK, WindowsOK
<1>2. r.type = "window" => r.id = r.win
  BY DEF WindowOf
<1>3. \A d \in Clients : Flushed(r)[d] = IF r.type = "window" /\ cache[d] = r.id THEN Root ELSE cache[d]
  BY DEF Flushed, FlushClientCaches
<1>4. Flushed(r) \in [Clients -> DOMAIN win]
  BY <1>1 DEF Flushed, FlushClientCaches
<1> QED BY <1>1, <1>2, <1>3, <1>4 DEF ReferencesOK

(* A walk that has found a record is the same call with a new place.       *)
LEMMA PutCall ==
  ASSUME JInv, Calls("free"), NEW call \in CallType,
         call.do = "free", call.id = Top.id, call.skip = Top.skip
  PROVE  LET p == Append(Rest, call)
             n == Len(stack)
         IN  /\ p \in Seq(CallType) /\ Len(p) = n /\ DOMAIN p = 1 .. n
             /\ p[n] = call /\ \A i \in 1 .. n - 1 : p[i] = stack[i]
             /\ \A i \in 1 .. n : Fits(p, i)
             /\ \A x : Goes(p, x) <=> Goes(stack, x)
<1> DEFINE p == Append(Rest, call)
           n == Len(stack)
<1>1. /\ stack \in Seq(CallType) /\ n \in Nat \ {0} /\ DOMAIN stack = 1 .. n
      /\ stack # <<>> /\ Top = stack[n] /\ Top.do = "free"
      /\ \A i \in 1 .. n : Fits(stack, i)
  BY TopIs DEF Calls
<1>2. /\ p \in Seq(CallType) /\ Len(p) = n /\ DOMAIN p = 1 .. n
      /\ p[n] = call /\ \A i \in 1 .. n - 1 : p[i] = stack[i]
  <2>1. stack \in Seq(CallType) /\ stack # <<>>
    BY <1>1
  <2>2. /\ Append(Front(stack), call) \in Seq(CallType)
        /\ Len(Append(Front(stack), call)) = Len(stack)
        /\ DOMAIN Append(Front(stack), call) = 1 .. Len(stack)
        /\ Append(Front(stack), call)[Len(stack)] = call
        /\ \A i \in 1 .. Len(stack) - 1 : Append(Front(stack), call)[i] = stack[i]
    <3> HIDE DEF p, n
    <3> QED BY <2>1, PutIs
  <2>3. p = Append(Front(stack), call)
    BY DEF Rest
  <2> HIDE DEF p
  <2> QED BY <2>2, <2>3, Zenon
<1> HIDE DEF p, n
<1>3. ASSUME NEW i \in 1 .. n PROVE Fits(p, i)
  <2>1. i \in Nat /\ i # 0 /\ Fits(stack, i)
    BY <1>1
  <2>2. CASE i # n
    <3>1. \A j \in 1 .. i : p[j] = stack[j]
      BY <1>1, <1>2, <2>1, <2>2
    <3> QED BY <2>1, <3>1, FitsSame
  <2>3. CASE i = n
    <3>1. \A j \in 1 .. n - 1 : p[j] = stack[j]
      BY <1>2
    <3>2. (n > 1 => n - 1 \in 1 .. n - 1) /\ \A j \in 1 .. n - 2 : j \in 1 .. n - 1
      BY <1>1
    <3> QED BY <1>1, <1>2, <2>1, <2>3, <3>1, <3>2 DEF Fits
  <2> QED BY <2>2, <2>3
<1>4. ASSUME NEW x PROVE Goes(p, x) <=> Goes(stack, x)
  <2>1. \A i \in 1 .. n : i # n => i \in 1 .. n - 1
    BY <1>1
  <2> QED BY <1>1, <1>2, <2>1 DEF Goes
<1> QED BY <1>2, <1>3, <1>4 DEF p, n

(* When its record is unlinked nothing has the XID of a window, if the      *)
(* private was unlinked before.                                            *)
LEMMA Unnamed ==
  ASSUME JInv, NEW c \in Clients, NEW w \in XID, w[2] = "own", WindowOf(w) \in Held(table[c]),
         NEW u, Held(u[c]) = Held(table[c]) \ {WindowOf(w)},
         \A q \in Held(table[c]) : q.id = w /\ q # WindowOf(w) => q.type # "private"
  PROVE  ~Named(u, w)
<1> SUFFICES ASSUME NEW q \in HeldOf(u, w), q.id = w PROVE FALSE
  BY DEF Named
<1>1. Owner(w) = c
  <2>1. TablesOK(table, state)
    BY DEF JInv
  <2> QED BY <2>1, OwnersAre DEF WindowOf
<1>2. q \in Held(table[c]) /\ q # WindowOf(w)
  BY <1>1 DEF HeldOf
<1>3. Of(q, win)
  BY <1>2 DEF JInv, RecordsOK
<1>4. q.type # "private"
  BY <1>2
<1>5. q # WindowOf(q.win)
  BY <1>2 DEF WindowOf
<1>6. q.id \in win[q.win].others /\ q.win \in DOMAIN win
  BY <1>3, <1>4, <1>5 DEF Of, PrivateOf
<1>7. q.id \in Entry
  BY <1>6 DEF JInv, WindowsOK
<1> QED BY <1>7 DEF Entry

(* FreeResource up to its next record, with the delete function.           *)
LEMMA FreeNextKeeps ==
  ASSUME IInv, JInv, FreeNext
  PROVE  JInv'
<1> DEFINE n == Len(stack)
           c == Owner(Top.id)
<1>1. Calls("free") /\ stack # <<>> /\ UNCHANGED <<setup, state, saved, owner, safe, added>>
  BY DEF FreeNext, Calls
<1>2. PICK r, call :
         LET u == Unlink(r, 1)
         IN  /\ c \in Clients /\ r \in Held(table[c]) /\ r.id = Top.id
             /\ table' = u /\ cache' = Flushed(r)
             /\ call \in CallType /\ call.do = "free" /\ call.id = Top.id /\ call.skip = Top.skip
             /\ call.gotOne /\ call.elements = u[c].elements /\ call.elements \in Int
             /\ Place(call, u)
             /\ \A q \in Held(table[c]) : q.id = r.id /\ q # r => ~(r.type = "window" /\ q.type = "private")
             /\ IF r.type = Top.skip
                  THEN stack' = Append(Rest, call) /\ UNCHANGED <<win, fatal>>
                  ELSE DeleteFunc(r, Append(Rest, call))
  BY NextIs
<1> DEFINE u == Unlink(r, 1)
           v == Cleared(win, r)
           p == Append(Rest, call)
           m == stack'
<1>3. /\ u \in Tables /\ TablesOK(u, state) /\ r \in Record /\ Owner(r.id) = c
      /\ \A d \in Clients : d # c => u[d] = table[d]
      /\ Held(u[c]) = Held(table[c]) \ {r}
      /\ u[c].elements = table[c].elements - 1
      /\ \A id \in XID : Owner(id) \in Clients /\ Named(u, id) => Named(table, id)
  <2>1. c \in Clients /\ r \in Held(table[c]) /\ 1 \in Int
    BY <1>2
  <2> HIDE DEF c
  <2> QED BY <2>1, Unlinked
<1>4. /\ stack \in Seq(CallType) /\ n \in Nat \ {0} /\ DOMAIN stack = 1 .. n
      /\ Top = stack[n] /\ Top \in CallType /\ Top.do = "free"
      /\ \A i \in 1 .. n : Fits(stack, i) /\ FrameOK(stack, i, table, win, saved, owner, state)
  BY <1>1, TopIs DEF Calls
<1>5. /\ p \in Seq(CallType) /\ Len(p) = n /\ DOMAIN p = 1 .. n
      /\ p[n] = call /\ \A i \in 1 .. n - 1 : p[i] = stack[i]
      /\ \A i \in 1 .. n : Fits(p, i)
      /\ \A x : Goes(p, x) <=> Goes(stack, x)
  <2>1. /\ Calls("free") /\ call \in CallType
        /\ call.do = "free" /\ call.id = Top.id /\ call.skip = Top.skip
    BY <1>1, <1>2
  <2>2. LET q == Append(Rest, call)
            l == Len(stack)
        IN  /\ q \in Seq(CallType) /\ Len(q) = l /\ DOMAIN q = 1 .. l
            /\ q[l] = call /\ \A i \in 1 .. l - 1 : q[i] = stack[i]
            /\ \A i \in 1 .. l : Fits(q, i)
            /\ \A x : Goes(q, x) <=> Goes(stack, x)
    BY <2>1, PutCall, Zenon
  <2> QED BY <2>2
<1> HIDE DEF n
<1>6. /\ r.win \in DOMAIN win /\ Of(r, win)
      /\ DOMAIN v = DOMAIN win /\ WindowsOK(v)
      /\ \A x \in DOMAIN win : v[x].parent = win[x].parent
      /\ \A x : Childless(win, x) => Childless(v, x)
      /\ \A st, ca : ReferencesOK(win, ca, saved, owner, st) => ReferencesOK(v, ca, saved, owner, st)
      /\ r.type = "window" => r = WindowOf(r.win) /\ r.win # Root /\ v = win
      /\ r.type \in {"window", "private", "other"}
  <2>1. c \in Clients /\ r \in Held(table[c])
    BY <1>2
  <2> HIDE DEF c
  <2> QED BY <2>1, ClearedKeeps
<1>7. /\ table' = u /\ cache' = Flushed(r) /\ win' = v /\ fatal' = FALSE
      /\ IF r.type = "window" /\ Top.skip # "window" THEN m = p \o DeleteWindow(r.win) ELSE m = p
  <2>1. CASE r.type = Top.skip
    <3>1. r.type = "window"
      <4>1. Top.skip \in {"none", "window"}
        BY <1>4 DEF CallType
      <4> QED BY <1>6, <2>1, <4>1
    <3> QED BY <1>2, <1>6, <2>1, <3>1 DEF JInv
  <2>2. CASE r.type # Top.skip
    <3>1. DeleteFunc(r, p)
      BY <1>2, <2>2
    <3>2. c \in Clients /\ r \in Held(table[c])
      BY <1>2
    <3> HIDE DEF c, p
    <3>3. /\ win' = v /\ fatal' = FALSE
          /\ IF r.type = "window" THEN stack' = p \o DeleteWindow(r.win) ELSE stack' = p
      BY <3>1, <3>2, DeleteFuncIs
    <3> QED BY <1>2, <2>2, <3>3
  <2> QED BY <2>1, <2>2
<1> HIDE DEF u, v, p, m
<1>8. /\ \A d \in Clients : Flushed(r)[d] = cache[d] \/ Flushed(r)[d] = Root
      /\ r.type = "window" => \A d \in Clients : Flushed(r)[d] # r.win
      /\ ReferencesOK(win, Flushed(r), saved, owner, state)
  BY <1>6, FlushedIs
<1>9. Later(table, win, saved, owner, u, v, saved, owner)
  <2>1. table[c] \in TableType
    BY <1>2 DEF IInv, Tables
  <2>2. u[c].elements < table[c].elements
    BY <1>3, <2>1 DEF TableType
  <2> HIDE DEF c
  <2> QED BY <1>3, <1>6, <2>2 DEF Later
<1>10. \A x : Goes(stack, x) => x \in DOMAIN v
  BY <1>6, GoesLive
<1> DEFINE w == r.win
           forget == Forget(w)
           crush  == [do |-> "crush", win |-> w]
           deep   == r.type = "window" /\ Top.skip # "window"
<1>11. w \in XID /\ w \in DOMAIN win /\ (r.type = "window" => w # Root /\ r.id = w /\ w[2] = "own")
  BY <1>6 DEF JInv, WindowsOK, WindowOf
<1>12. /\ m \in Seq(CallType) /\ DOMAIN m = 1 .. Len(m) /\ Len(m) \in Nat
       /\ Len(m) = IF deep THEN n + 2 ELSE n
       /\ \A i \in 1 .. n : m[i] = p[i]
       /\ deep => m[n + 1] = forget /\ m[n + 2] = crush
  <2>1. CASE ~deep
    <3>1. m = p
      BY <1>7, <2>1
    <3> QED BY <1>4, <1>5, <2>1, <3>1
  <2>2. CASE deep
    <3> DEFINE more == <<forget, crush>>
    <3>1. m = p \o more
      BY <1>7, <2>2 DEF DeleteWindow, Forget
    <3>2. forget \in CallType /\ crush \in CallType
      BY <1>11 DEF Forget, CallType
    <3>3. more \in Seq(CallType) /\ Len(more) = 2 /\ more[1] = forget /\ more[2] = crush
      BY <3>2
    <3> HIDE DEF more, forget, crush
    <3>4. /\ m \in Seq(CallType) /\ DOMAIN m = 1 .. n + 2
          /\ \A i \in 1 .. n : m[i] = p[i]
          /\ \A i \in 1 .. 2 : m[n + i] = more[i]
      <4>1. /\ p \o more \in Seq(CallType) /\ DOMAIN (p \o more) = 1 .. Len(p) + Len(more)
            /\ DOMAIN p = 1 .. Len(p) /\ Len(p) \in Nat
            /\ DOMAIN more = 1 .. Len(more) /\ Len(more) \in Nat
            /\ \A i \in DOMAIN p : (p \o more)[i] = p[i]
            /\ \A i \in DOMAIN more : (p \o more)[Len(p) + i] = more[i]
        <5>1. p \in Seq(CallType)
          BY <1>5
        <5> HIDE DEF n
        <5>2. Len(more) \in Nat /\ more \in Seq(CallType)
          BY <3>3
        <5> HIDE DEF c, u, v, deep
        <5> QED BY <5>1, <5>2, ConcatIs, SMTT(30)
      <4> QED BY <1>5, <3>1, <3>3, <4>1
    <3>5. Len(m) = n + 2
      BY <1>4, <3>4
    <3>6. m[n + 1] = forget /\ m[n + 2] = crush
      BY <3>3, <3>4
    <3> QED BY <2>2, <3>4, <3>5, <3>6
  <2> QED BY <2>1, <2>2
<1>13. n >= 1 /\ n <= Len(m) /\ \A i \in 1 .. n : i \in Nat /\ i # 0 /\ i \in DOMAIN m
  BY <1>4, <1>12
<1>14. \A i \in 1 .. n : i # n => m[i] = stack[i] /\ m[i].do = stack[i].do
  BY <1>4, <1>5, <1>12
<1>15. m[n] = call /\ m[n].do = stack[n].do /\ m[n].do = "free"
  BY <1>2, <1>4, <1>5, <1>12, <1>13
<1>16. \A i \in 1 .. n : m[i].do = stack[i].do
  BY <1>14, <1>15
<1>17. ASSUME deep
       PROVE  /\ \A j \in 1 .. n : m[j].do \in {"subwindows", "free"}
              /\ ~Inner(m[n])
              /\ \A j \in 1 .. n - 1 : stack[j].do = "subwindows"
  <2>1. Top.skip # "window" /\ Top.id[2] = "own"
    BY <1>2, <1>11, <1>17
  <2>2. Fits(stack, n)
    BY <1>4
  <2>3. \A j \in 1 .. n - 1 : stack[j].do = "subwindows"
    BY <1>4, <2>1, <2>2 DEF Fits
  <2>4. \A j \in 1 .. n : j = n \/ j \in 1 .. n - 1
    BY <1>4
  <2>5. ~Inner(m[n])
    BY <1>2, <1>15, <2>1 DEF Inner
  <2> QED BY <1>15, <1>16, <2>3, <2>4, <2>5
<1>18. \A x : Goes(stack, x) => Goes(m, x)
  BY <1>4, <1>5, <1>12, <1>13 DEF Goes
<1>19. r.type = "window" => Goes(m, w)
  <2>1. CASE deep
    <3>1. n + 1 \in DOMAIN m /\ m[n + 1].do = "forget" /\ m[n + 1].win = w
      BY <1>4, <1>12, <2>1 DEF Forget
    <3> QED BY <3>1 DEF Goes
  <2>2. CASE r.type = "window" /\ Top.skip = "window"
    <3>1. n > 1 /\ stack[n - 1] = Forget(Top.id)
      BY <1>4, <2>2 DEF Fits
    <3>2. n - 1 \in DOMAIN stack /\ stack[n - 1].do = "forget" /\ stack[n - 1].win = w
      BY <1>2, <1>4, <1>11, <2>2, <3>1 DEF Forget
    <3>3. Goes(stack, w)
      BY <3>2 DEF Goes
    <3> QED BY <1>18, <3>3
  <2> QED BY <2>1, <2>2
<1>20. RecordsOK(u, v, m, Flushed(r))
  <2>1. c \in Clients /\ r \in Held(table[c])
    BY <1>2
  <2> HIDE DEF c, w
  <2> QED BY <1>3, <1>8, <1>18, <1>19, <2>1, RecordGone DEF v, w
<1>21. /\ n \in Nat /\ n >= 1 /\ (deep => Len(m) = n + 2) /\ (~deep => Len(m) = n)
       /\ \A i \in 1 .. n - 1 : i \in 1 .. n /\ i + 1 \in 1 .. n /\ i < n /\ i < Len(m) /\ i # n
  BY <1>4, <1>12
<1>22. ASSUME NEW i \in 1 .. n PROVE Fits(m, i)
  <2>1. Fits(p, i) /\ i \in Nat /\ i # 0
    BY <1>5, <1>13
  <2>2. \A j \in 1 .. i : j \in 1 .. n
    BY <1>21
  <2>3. \A j \in 1 .. i : m[j] = p[j]
    BY <1>12, <2>2
  <2> QED BY <2>1, <2>3, FitsSame
<1>23. ASSUME NEW i \in 1 .. n - 1 PROVE FrameOK(m, i, u, v, saved, owner, state)
  <2>1. m[i] = stack[i] /\ i < Len(m) /\ m[i + 1].do = stack[i + 1].do
    BY <1>14, <1>16, <1>21
  <2> HIDE DEF c
  <2>2. n = Len(stack)
    BY DEF n
  <2>3. stack[i].do \in {"forget", "events"} => stack[i].win \in DOMAIN v
    BY <1>4, <1>10, <1>21 DEF Goes
  <2> QED BY <1>1, <1>3, <1>9, <2>1, <2>2, <2>3, Waiting
<1>24. FrameOK(m, n, u, v, saved, owner, state)
  <2>1. call.elements # None
    BY <1>2, ResourcesAssumption DEF ResourcesAssumption
  <2>2. /\ c \in Clients /\ Owner(call.id) = c /\ call.gotOne /\ call.do = "free"
        /\ call.elements = u[c].elements /\ call.elements \in Int /\ Place(call, u)
    BY <1>2 DEF u
  <2>3. u[c].elements <= call.elements
    BY <2>2
  <2> HIDE DEF c
  <2> QED BY <1>15, <2>1, <2>2, <2>3 DEF FrameOK
<1>25. ASSUME deep PROVE ~Named(u, w)
  <2>1. r = WindowOf(w) /\ c \in Clients /\ r \in Held(table[c]) /\ w \in XID /\ w[2] = "own"
        /\ Held(u[c]) = Held(table[c]) \ {r}
    BY <1>2, <1>3, <1>6, <1>11, <1>25
  <2>2. \A q \in Held(table[c]) : q.id = w /\ q # r => q.type # "private"
    BY <1>2, <1>11, <1>25
  <2> HIDE DEF c, w
  <2> QED BY <2>1, <2>2, Unnamed
<1>26. ASSUME deep
       PROVE  /\ Fits(m, n + 1) /\ FrameOK(m, n + 1, u, v, saved, owner, state)
              /\ Fits(m, n + 2) /\ FrameOK(m, n + 2, u, v, saved, owner, state)
  <2>1. /\ m[n + 1] = forget /\ m[n + 2] = crush /\ Len(m) = n + 2
        /\ w \in DOMAIN v \ {Root} /\ ~Named(u, w)
    BY <1>6, <1>11, <1>12, <1>25, <1>26
  <2>2. /\ forget.do = "forget" /\ forget.win = w /\ crush.do = "crush" /\ crush.win = w
        /\ forget = Forget(w)
    BY DEF Forget
  <2>3. /\ n + 1 > 1 /\ (n + 1) - 1 = n /\ n + 1 < Len(m) /\ (n + 1) + 1 = n + 2
        /\ n + 2 > 1 /\ (n + 2) - 1 = n + 1 /\ (n + 2) - 2 = n
    BY <1>21, <2>1
  <2>4. \A j \in 1 .. n : m[j].do \in {"subwindows", "free"}
    BY <1>17, <1>26
  <2>5. ~Inner(m[n]) /\ ~Inner(forget)
    BY <1>17, <1>26, <2>2 DEF Inner
  <2> HIDE DEF forget, crush, w
  <2>6. Fits(m, n + 1)
    BY <2>1, <2>2, <2>3, <2>4, <2>5 DEF Fits
  <2>7. Fits(m, n + 2)
    BY <2>1, <2>2, <2>3, <2>4, <2>5 DEF Fits
  <2>8. FrameOK(m, n + 1, u, v, saved, owner, state)
    BY <2>1, <2>2, <2>3 DEF FrameOK
  <2>9. FrameOK(m, n + 2, u, v, saved, owner, state)
    BY <2>1, <2>2 DEF FrameOK
  <2> QED BY <2>6, <2>7, <2>8, <2>9
<1>27. StackOK(m, u, v, saved, owner, state)
  <2>1. ASSUME NEW i \in DOMAIN m PROVE Fits(m, i) /\ FrameOK(m, i, u, v, saved, owner, state)
    <3>1. CASE ~deep
      <4>1. i \in 1 .. n /\ (i = n \/ i \in 1 .. n - 1)
        BY <1>12, <1>21, <3>1
      <4> QED BY <1>22, <1>23, <1>24, <4>1
    <3>2. CASE deep
      <4>1. \/ i \in 1 .. n /\ (i = n \/ i \in 1 .. n - 1)
            \/ i = n + 1 \/ i = n + 2
        BY <1>12, <1>21, <3>2
      <4> QED BY <1>22, <1>23, <1>24, <1>26, <3>2, <4>1
    <3> QED BY <3>1, <3>2
  <2> QED BY <1>12, <2>1 DEF StackOK
<1>28. SafeOK(v, m, safe)
  <2>1. SafeOK(win, stack, safe)
    BY DEF JInv
  <2>2. CASE ~deep
    <3>1. m = p
      BY <1>7, <2>2
    <3>2. \A x : Goes(m, x) => Goes(stack, x)
      BY <1>5, <3>1
    <3>3. stack[1].do = "client" => m # <<>> /\ m[1] = stack[1]
      <4>1. stack[1].do = "client" => 1 \in 1 .. n /\ 1 # n
        BY <1>4
      <4> QED BY <1>12, <1>14, <1>21, <4>1
    <3>4. DOMAIN v = DOMAIN win /\ \A x \in DOMAIN v : v[x].parent = win[x].parent
      BY <1>6
    <3> QED BY <2>1, <3>2, <3>3, <3>4, SafeKeeps
  <2>3. CASE deep
    <3>1. stack[1].do # "client"
      <4>1. 1 = n \/ 1 \in 1 .. n - 1
        BY <1>21
      <4> QED BY <1>4, <1>17, <2>3, <4>1
    <3> QED BY <2>1, <3>1 DEF SafeOK
  <2> QED BY <2>2, <2>3
<1>29. ReferencesOK(v, Flushed(r), saved, owner, state)
  BY <1>6, <1>8
<1> HIDE DEF c, w, n
<1>30. /\ table' = u /\ win' = v /\ cache' = Flushed(r) /\ stack' = m /\ fatal' = FALSE
       /\ state' = state /\ saved' = saved /\ owner' = owner /\ safe' = safe
  BY <1>1, <1>7 DEF m
<1> QED BY <1>3, <1>6, <1>20, <1>27, <1>28, <1>29, <1>30, JPrime

(* A step that leaves the state as it is keeps what waiting calls need.    *)
LEMMA LaterSame == ASSUME IInv PROVE Later(table, win, saved, owner, table, win, saved, owner)
BY DEF Later

(* A call ends.                                                            *)
LEMMA PopIs ==
  ASSUME JInv, stack # <<>>
  PROVE  /\ Rest \in Seq(CallType) /\ Len(Rest) = Len(stack) - 1 /\ DOMAIN Rest = 1 .. Len(stack) - 1
         /\ \A i \in 1 .. Len(stack) - 1 : Rest[i] = stack[i] /\ Fits(Rest, i)
         /\ \A x : Goes(Rest, x) => Goes(stack, x)
         /\ \A x : Goes(stack, x) => Goes(Rest, x) \/ (Top.do \in {"forget", "events"} /\ Top.win = x)
         /\ stack[1].do = "client" /\ Top.do # "client" => Rest # <<>> /\ Rest[1] = stack[1]
<1> DEFINE n == Len(stack)
           m == Rest
<1>1. /\ stack \in Seq(CallType) /\ n \in Nat \ {0} /\ DOMAIN stack = 1 .. n
      /\ Top = stack[n] /\ \A i \in 1 .. n : Fits(stack, i)
  BY TopIs
<1>2. /\ m \in Seq(CallType) /\ Len(m) = n - 1 /\ DOMAIN m = 1 .. n - 1
      /\ \A i \in 1 .. n - 1 : m[i] = stack[i]
  BY <1>1, FrontIs DEF Rest
<1> HIDE DEF m, n
<1>3. \A i \in 1 .. n - 1 : i \in 1 .. n /\ i \in Nat /\ i # 0 /\ \A j \in 1 .. i : j \in 1 .. n - 1
  BY <1>1
<1>4. ASSUME NEW i \in 1 .. n - 1 PROVE Fits(m, i)
  <2>1. \A j \in 1 .. i : m[j] = stack[j]
    BY <1>2, <1>3
  <2> QED BY <1>1, <1>3, <2>1, FitsSame
<1>5. \A i \in 1 .. n : i = n \/ i \in 1 .. n - 1
  BY <1>1
<1>6. \A x : Goes(m, x) => Goes(stack, x)
  BY <1>1, <1>2, <1>3 DEF Goes
<1>7. \A x : Goes(stack, x) => Goes(m, x) \/ (Top.do \in {"forget", "events"} /\ Top.win = x)
  BY <1>1, <1>2, <1>5 DEF Goes
<1>8. ASSUME stack[1].do = "client", Top.do # "client" PROVE m # <<>> /\ m[1] = stack[1]
  <2>1. n # 1
    BY <1>1, <1>8
  <2>2. 1 \in 1 .. n - 1 /\ Len(m) # 0
    BY <1>1, <1>2, <2>1
  <2> QED BY <1>2, <2>2
<1> QED BY <1>2, <1>4, <1>6, <1>7, <1>8 DEF m, n

(* ... and the stack that it leaves is sound.                              *)
LEMMA PopOK ==
  ASSUME IInv, JInv, stack # <<>>, NEW u \in Tables, NEW v, NEW sb, NEW ox,
         Later(table, win, saved, owner, u, v, sb, ox), \A x : Goes(Rest, x) => x \in DOMAIN v,
         \A i \in Nat : i + 1 = Len(stack) /\ i # 0 /\ stack[i].do = "forget" =>
           \/ Top.do = "free" /\ ~Named(u, stack[i].win)
           \/ Top.do = "crush" /\ Childless(v, stack[i].win)
           \/ Top.do \notin {"free", "crush"}
  PROVE  StackOK(Rest, u, v, sb, ox, state)
<1> DEFINE n == Len(stack)
           m == Rest
<1>1. /\ stack \in Seq(CallType) /\ n \in Nat \ {0} /\ DOMAIN stack = 1 .. n
      /\ Top = stack[n]
  BY TopIs
<1>2. /\ m \in Seq(CallType) /\ Len(m) = n - 1 /\ DOMAIN m = 1 .. n - 1
      /\ \A i \in 1 .. n - 1 : m[i] = stack[i] /\ Fits(m, i)
  BY PopIs
<1> HIDE DEF m
<1>3. ASSUME NEW i \in 1 .. n - 1 PROVE FrameOK(m, i, u, v, sb, ox, state)
  <2>1. m[i] = stack[i]
    BY <1>2
  <2>2. stack[i].do \in {"forget", "events"} => stack[i].win \in DOMAIN v
    BY <1>2 DEF Goes, m
  <2>3. ASSUME stack[i].do = "forget"
        PROVE  \/ i < Len(m) /\ m[i + 1].do = stack[i + 1].do
               \/ stack[i + 1].do = "free" /\ ~Named(u, stack[i].win)
               \/ stack[i + 1].do = "crush" /\ Childless(v, stack[i].win)
               \/ stack[i + 1].do \notin {"free", "crush"}
    <3> HIDE DEF n
    <3>0. n = Len(stack)
      BY DEF n
    <3>1. CASE i + 1 = n
      <4>1. i \in Nat /\ i # 0
        BY <1>1
      <4>2. Top = stack[i + 1]
        BY <1>1, <3>1
      <4> QED BY <2>3, <3>0, <3>1, <4>1, <4>2
    <3>2. CASE i + 1 # n
      <4>1. i + 1 \in 1 .. n - 1 /\ i < n - 1
        BY <1>1, <3>2
      <4> QED BY <1>2, <4>1
    <3> QED BY <3>1, <3>2
  <2> QED BY <2>1, <2>2, <2>3, Waiting
<1> QED BY <1>2, <1>3 DEF StackOK, m

(* What a walk frees is that of the call below it.                         *)
LEMMA FreedBy ==
  ASSUME JInv, Calls("free"), NEW i \in Nat, i + 1 = Len(stack), i # 0, stack[i].do = "forget"
  PROVE  stack[i].win = Top.id
<1>1. /\ stack # <<>> /\ Top.do = "free"
      /\ Len(stack) \in Nat /\ i + 1 \in 1 .. Len(stack) /\ i \in 1 .. (i + 1) - 1 /\ i + 1 > 1 /\ (i + 1) - 1 = i
  BY DEF Calls
<1>2. Top = stack[i + 1] /\ Fits(stack, i + 1)
  BY <1>1, TopIs
<1>3. stack[i].do # "subwindows" /\ stack[i].do # "events"
  OBVIOUS
<1>4. Top.skip = "window" /\ stack[i] = Forget(Top.id)
  BY <1>1, <1>2, <1>3 DEF Fits
<1> QED BY <1>4 DEF Forget

(* FreeResource has found no record: it has got one before, or FatalError  *)
(* would be called.                                                        *)
LEMMA FreeEndKeeps ==
  ASSUME IInv, JInv, FreeEnd
  PROVE  JInv'
<1> DEFINE c == Owner(Top.id)
<1>1. /\ Calls("free") /\ stack # <<>> /\ Top.do = "free" /\ Found(Top) = {}
      /\ cache' = IF table[c].buckets # <<>> /\ cache[c] = Top.id
                    THEN [cache EXCEPT ![c] = Root] ELSE cache
      /\ fatal' = ~Top.gotOne /\ stack' = Rest
      /\ UNCHANGED <<setup, state, table, win, saved, owner, safe, added>>
  BY DEF FreeEnd, Calls
<1>2. c \in Clients /\ ~Named(table, Top.id)
  <2> DEFINE b == BucketOf(table[c], Top.id)
  <2>1. /\ c \in Clients /\ b \in Seq(Record)
        /\ \A r \in Held(table[c]) : r.id = Top.id => r \in Range(b)
        /\ Found(Top) = {i \in DOMAIN b : b[i].id = Top.id}
    BY <1>1, WalkIs, Zenon
  <2> HIDE DEF b
  <2>2. \A r \in Range(b) : r.id # Top.id
    BY <1>1, <2>1 DEF Range
  <2> QED BY <2>1, <2>2 DEF Named, HeldOf
<1>3. fatal' = FALSE
  <2>1. Top = stack[Len(stack)] /\ FrameOK(stack, Len(stack), table, win, saved, owner, state)
    BY <1>1, TopIs
  <2>2. Top.gotOne
    BY <1>1, <1>2, <2>1 DEF FrameOK
  <2>3. Top.gotOne \in BOOLEAN
    BY <1>1, TopIs DEF CallType
  <2> QED BY <1>1, <2>2, <2>3
<1> HIDE DEF c
<1>4. /\ cache' \in [Clients -> DOMAIN win]
      /\ \A d \in Clients : cache'[d] = cache[d] \/ cache'[d] = Root
  <2>1. cache \in [Clients -> DOMAIN win] /\ Root \in DOMAIN win
    BY DEF JInv, ReferencesOK, WindowsOK
  <2> QED BY <1>1, <1>2, <2>1
<1>5. /\ \A x : Goes(Rest, x) => Goes(stack, x)
      /\ \A x : Goes(stack, x) => Goes(Rest, x)
      /\ stack[1].do = "client" => Rest # <<>> /\ Rest[1] = stack[1]
  BY <1>1, PopIs
<1>6. RecordsOK(table, win, Rest, cache')
  <2>1. RecordsOK(table, win, stack, cache)
    BY DEF JInv
  <2>2. \A x : x # Root /\ Goes(stack, x) /\ (\A d \in Clients : cache[d] # x) =>
          Goes(Rest, x) /\ \A d \in Clients : cache'[d] # x
    BY <1>4, <1>5
  <2> QED BY <2>1, <2>2 DEF RecordsOK
<1>7. ReferencesOK(win, cache', saved, owner, state)
  BY <1>4 DEF JInv, ReferencesOK
<1>8. StackOK(Rest, table, win, saved, owner, state)
  <2>1. table \in Tables
    BY DEF IInv
  <2>2. \A x : Goes(Rest, x) => x \in DOMAIN win
    BY <1>5, GoesLive
  <2> QED BY <1>1, <1>2, <2>1, <2>2, LaterSame, FreedBy, PopOK
<1>9. SafeOK(win, Rest, safe)
  <2>1. SafeOK(win, stack, safe)
    BY DEF JInv
  <2> QED BY <1>5, <2>1, SafeKeeps
<1> QED BY <1>1, <1>3, <1>6, <1>7, <1>8, <1>9, JPrime DEF JInv

(* A call ends that changes nothing.                                       *)
LEMMA EndKeeps ==
  ASSUME IInv, JInv, stack # <<>>, stack' = Rest, Top.do \in {"crush", "subwindows"},
         Top.do = "crush" => Childless(win, Top.win),
         UNCHANGED <<setup, state, table, win, cache, saved, owner, safe, fatal, added>>
  PROVE  JInv'
<1>5. /\ \A x : Goes(Rest, x) => Goes(stack, x)
      /\ \A x : Goes(stack, x) => Goes(Rest, x)
      /\ stack[1].do = "client" => Rest # <<>> /\ Rest[1] = stack[1]
  BY PopIs
<1>6. RecordsOK(table, win, Rest, cache)
  BY <1>5 DEF JInv, RecordsOK
<1>8. StackOK(Rest, table, win, saved, owner, state)
  <2>1. table \in Tables
    BY DEF IInv
  <2>2. \A x : Goes(Rest, x) => x \in DOMAIN win
    BY <1>5, GoesLive
  <2>3. ASSUME NEW i \in Nat, i + 1 = Len(stack), i # 0, stack[i].do = "forget"
        PROVE  \/ Top.do = "crush" /\ Childless(win, stack[i].win)
               \/ Top.do \notin {"free", "crush"}
    <3>1. CASE Top.do = "crush"
      <4>1. i + 1 \in 1 .. Len(stack) /\ (i + 1) - 1 = i
        BY <2>3
      <4>2. Top = stack[i + 1] /\ Fits(stack, i + 1)
        BY <2>3, <4>1, TopIs
      <4>3. stack[i] = Forget(Top.win)
        BY <3>1, <4>1, <4>2 DEF Fits
      <4> QED BY <3>1, <4>3 DEF Forget
    <3> QED BY <3>1
  <2> QED BY <2>1, <2>2, <2>3, LaterSame, PopOK
<1>9. SafeOK(win, Rest, safe)
  <2>1. SafeOK(win, stack, safe)
    BY DEF JInv
  <2> QED BY <1>5, <2>1, SafeKeeps
<1> QED BY <1>6, <1>8, <1>9, JPrime DEF JInv

(* A call makes others.                                                    *)
LEMMA PushIs ==
  ASSUME JInv, stack # <<>>, NEW more \in Seq(CallType), NEW m, m = stack \o more
  PROVE  /\ m \in Seq(CallType) /\ Len(m) = Len(stack) + Len(more)
         /\ DOMAIN m = 1 .. Len(stack) + Len(more)
         /\ \A i \in 1 .. Len(stack) : i \in 1 .. Len(m) /\ m[i] = stack[i] /\ Fits(m, i)
         /\ \A j \in 1 .. Len(more) : m[Len(stack) + j] = more[j]
         /\ \A x : Goes(stack, x) => Goes(m, x)
         /\ \A x : Goes(m, x) => Goes(stack, x) \/ Goes(more, x)
         /\ m # <<>> /\ m[1] = stack[1] /\ m[Len(stack)] = Top
<1> DEFINE n == Len(stack)
           l == Len(more)
<1>1. /\ stack \in Seq(CallType) /\ n \in Nat \ {0} /\ DOMAIN stack = 1 .. n
      /\ Top = stack[n] /\ \A i \in 1 .. n : Fits(stack, i)
  BY TopIs
<1>2. /\ m \in Seq(CallType) /\ DOMAIN m = 1 .. n + l /\ l \in Nat /\ DOMAIN more = 1 .. l
      /\ \A i \in 1 .. n : m[i] = stack[i]
      /\ \A j \in 1 .. l : m[n + j] = more[j]
  BY <1>1, ConcatIs
<1> HIDE DEF n, l
<1>3. Len(m) = n + l
  BY <1>1, <1>2
<1>4. \A i \in 1 .. n : i \in 1 .. n + l /\ i \in Nat /\ i # 0 /\ \A j \in 1 .. i : j \in 1 .. n
  BY <1>1, <1>2
<1>5. ASSUME NEW i \in 1 .. n PROVE Fits(m, i)
  <2>1. \A j \in 1 .. i : m[j] = stack[j]
    BY <1>2, <1>4
  <2> QED BY <1>1, <1>4, <2>1, FitsSame
<1>6. \A x : Goes(stack, x) => Goes(m, x)
  BY <1>1, <1>2, <1>4 DEF Goes
<1>7. ASSUME NEW x, Goes(m, x) PROVE Goes(stack, x) \/ Goes(more, x)
  <2>1. PICK i \in 1 .. n + l : m[i].do \in {"forget", "events"} /\ m[i].win = x
    BY <1>2, <1>7 DEF Goes
  <2>2. CASE i \in 1 .. n
    BY <1>1, <1>2, <2>1, <2>2 DEF Goes
  <2>3. CASE i \notin 1 .. n
    <3>1. i - n \in 1 .. l /\ n + (i - n) = i
      BY <1>1, <1>2, <2>3
    <3>2. m[i] = more[i - n]
      BY <1>2, <3>1
    <3> QED BY <1>2, <2>1, <3>1, <3>2 DEF Goes
  <2> QED BY <2>2, <2>3
<1>8. 1 \in 1 .. n /\ n \in 1 .. n /\ Len(m) # 0
  BY <1>1, <1>2, <1>3
<1>9. m # <<>> /\ m[1] = stack[1] /\ m[n] = Top
  BY <1>1, <1>2, <1>8
<1>10. \A i \in 1 .. n : i \in 1 .. Len(m)
  BY <1>3, <1>4
<1> QED BY <1>2, <1>3, <1>5, <1>6, <1>7, <1>9, <1>10 DEF n, l

(* ... and the stack with them is sound.                                   *)
LEMMA PushOK ==
  ASSUME IInv, JInv, stack # <<>>, NEW more \in Seq(CallType), more # <<>>, NEW m, m = stack \o more,
         NEW u \in Tables, NEW v, Later(table, win, saved, owner, u, v, saved, owner),
         DOMAIN v = DOMAIN win, FrameOK(m, Len(stack), u, v, saved, owner, state),
         \A j \in 1 .. Len(more) :
           /\ Fits(m, Len(stack) + j)
           /\ FrameOK(m, Len(stack) + j, u, v, saved, owner, state)
  PROVE  StackOK(m, u, v, saved, owner, state)
<1> DEFINE n == Len(stack)
           l == Len(more)
<1>1. /\ stack \in Seq(CallType) /\ n \in Nat \ {0} /\ DOMAIN stack = 1 .. n
  BY TopIs
<1>2. /\ m \in Seq(CallType) /\ Len(m) = n + l /\ DOMAIN m = 1 .. n + l
      /\ \A i \in 1 .. n : i \in 1 .. Len(m) /\ m[i] = stack[i] /\ Fits(m, i)
  BY PushIs
<1>3. ASSUME NEW i \in 1 .. n - 1 PROVE FrameOK(m, i, u, v, saved, owner, state)
  <2> HIDE DEF n
  <2>1. n = Len(stack) /\ i \in 1 .. n /\ i + 1 \in 1 .. n
    BY <1>1 DEF n
  <2>2. m[i] = stack[i] /\ m[i + 1] = stack[i + 1]
    BY <1>2, <2>1
  <2>3. stack[i].do \in {"forget", "events"} => stack[i].win \in DOMAIN v
    BY <1>1, <2>1, GoesLive DEF Goes
  <2>4. i < Len(m)
    <3>1. n \in 1 .. Len(m) /\ i < n /\ Len(m) \in Nat
      BY <1>1, <1>2, <2>1
    <3> QED BY <3>1
  <2> QED BY <2>1, <2>2, <2>3, <2>4, Waiting
<1>4. ASSUME NEW i \in DOMAIN m PROVE Fits(m, i) /\ FrameOK(m, i, u, v, saved, owner, state)
  <2>1. l \in Nat
    OBVIOUS
  <2> HIDE DEF l, n
  <2>2. n = Len(stack) /\ l = Len(more)
    BY DEF n, l
  <2>3. CASE i \in 1 .. n - 1
    <3>1. i \in 1 .. n
      BY <1>1, <2>3
    <3> QED BY <1>2, <1>3, <2>3, <3>1
  <2>4. CASE i = n
    <3>1. i \in 1 .. n
      BY <1>1, <2>4
    <3> QED BY <1>2, <2>2, <2>4, <3>1
  <2>5. CASE i \notin 1 .. n
    <3>1. i - n \in 1 .. l /\ n + (i - n) = i
      BY <1>1, <1>2, <2>1, <2>5
    <3> QED BY <2>2, <3>1
  <2>6. i \in 1 .. n - 1 \/ i = n \/ i \notin 1 .. n
    BY <1>1
  <2> QED BY <2>3, <2>4, <2>5, <2>6
<1> QED BY <1>2, <1>4 DEF StackOK

(* A window that does not go has its record.                               *)
LEMMA HasRecord ==
  ASSUME JInv, NEW x \in Live, x # Root
  PROVE  /\ x \in XID /\ x[2] = "own" /\ Owner(x) \in Clients
         /\ Goes(stack, x) \/ Named(table, x)
<1>1. x \in XID /\ x[2] = "own" /\ Owner(x) \in Clients
  BY DEF JInv, WindowsOK, Live
<1>2. WindowOf(x) \in HeldOf(table, x) \/ Goes(stack, x)
  BY DEF JInv, RecordsOK, Live
<1> QED BY <1>1, <1>2 DEF Named, WindowOf

\* A call that walks the bucket of an XID from the start.
LEMMA FreeIs ==
  ASSUME NEW id \in XID, NEW type \in {"none", "window"}
  PROVE  /\ FreeResource(id, type) \in CallType
         /\ FreeResource(id, type).do = "free" /\ FreeResource(id, type).id = id
         /\ FreeResource(id, type).skip = type /\ ~FreeResource(id, type).gotOne
         /\ FreeResource(id, type).elements = None /\ FreeResource(id, type).prev = None
BY DEF FreeResource, CallType

(* A call of FreeResource for an XID that has a record holds as a frame.   *)
LEMMA FreeFrame ==
  ASSUME NEW m, NEW i, i = Len(m), NEW id \in XID, NEW type \in {"none", "window"},
         m[i] = FreeResource(id, type), Owner(id) \in Clients,
         NEW t, NEW w, NEW sa, NEW ow, NEW st, Named(t, id)
  PROVE  FrameOK(m, i, t, w, sa, ow, st)
<1>1. /\ m[i].do = "free" /\ m[i].id = id /\ ~m[i].gotOne /\ m[i].elements = None /\ m[i].prev = None
  BY FreeIs
<1> QED BY <1>1 DEF FrameOK

(* CrushTree frees a leaf below its window, or ends when there is none.    *)
LEMMA CrushTreeKeeps ==
  ASSUME IInv, JInv, CrushTree
  PROVE  JInv'
<1> DEFINE below == {x \in Live : Top.win \in Above(x)}
           n == Len(stack)
<1>1. /\ stack # <<>> /\ Top.do = "crush"
      /\ UNCHANGED <<setup, state, table, win, cache, saved, owner, safe, fatal, added>>
      /\ \/ below = {} /\ stack' = Rest
         \/ \E x \in below : (\A y \in below : win[y].parent # x) /\
              stack' = stack \o <<Forget(x), FreeResource(x, "window")>>
  BY DEF CrushTree, Calls, Forget
<1>2. WindowsOK(win) /\ RecordsOK(table, win, stack, cache)
  BY DEF JInv
<1>3. /\ n \in Nat \ {0} /\ DOMAIN stack = 1 .. n /\ Top = stack[n]
      /\ Fits(stack, n) /\ n \in 1 .. n /\ \A i \in 1 .. n : i = n \/ i = n - 1 \/ i \in 1 .. n - 2
  <2>1. /\ n \in Nat \ {0} /\ DOMAIN stack = 1 .. n /\ Top = stack[n]
        /\ \A i \in 1 .. n : Fits(stack, i)
    BY <1>1, TopIs
  <2> HIDE DEF n
  <2>2. n \in 1 .. n /\ \A i \in 1 .. n : i = n \/ i = n - 1 \/ i \in 1 .. n - 2
    BY <2>1
  <2> QED BY <2>1, <2>2
<1>4. n > 1 /\ stack[n - 1] = Forget(Top.win)
  BY <1>1, <1>3 DEF Fits
<1>5. Goes(stack, Top.win) /\ \A x : Goes(stack, x) => x = Top.win
  <2>1. n - 1 \in DOMAIN stack /\ stack[n - 1].do = "forget" /\ stack[n - 1].win = Top.win
    <3> HIDE DEF n
    <3>1. n - 1 \in 1 .. n
      BY <1>3, <1>4
    <3> QED BY <1>3, <1>4, <3>1 DEF Forget
  <2>2. ASSUME NEW i \in 1 .. n, stack[i].do \in {"forget", "events"} PROVE stack[i].win = Top.win
    <3>1. i # n
      BY <1>1, <1>3, <2>2
    <3>2. i \notin 1 .. n - 2
      BY <1>1, <1>3, <2>2 DEF Fits
    <3> QED BY <1>3, <2>1, <3>1, <3>2
  <2> QED BY <1>3, <2>1, <2>2 DEF Goes
<1>6. CASE below = {} /\ stack' = Rest
  <2>1. Childless(win, Top.win)
    <3> SUFFICES ASSUME NEW x \in DOMAIN win, win[x].parent = Top.win PROVE FALSE
      BY DEF Childless
    <3>1. win[x].parent \in Above(x) \cup {None}
      BY <1>2, AboveIs DEF Live
    <3>2. Top.win # None
      BY <1>5, GoesLive, NoneIs
    <3> QED BY <1>6, <3>1, <3>2 DEF Live
  <2> QED BY <1>1, <1>6, <2>1, EndKeeps
<1>7. ASSUME NEW x \in below, \A y \in below : win[y].parent # x,
             stack' = stack \o <<Forget(x), FreeResource(x, "window")>>
      PROVE  JInv'
  <2> DEFINE more == <<Forget(x), FreeResource(x, "window")>>
             m == stack'
  <2>1. x \in Live /\ Top.win \in Above(x) /\ Above(x) \subseteq Live /\ x \notin Above(x)
    BY <1>2, AboveIs
  <2>2. x # Root
    <3> SUFFICES ASSUME x = Root PROVE FALSE
      OBVIOUS
    <3>1. win[x].parent = None
      BY <1>2, <2>1 DEF WindowsOK, Live
    <3>2. Closed(win, {}) /\ {} \in SUBSET Live /\ win[x].parent \in {} \cup {None}
      BY <3>1 DEF Closed
    <3>3. Above(x) \subseteq {}
      BY <1>2, <2>1, <3>2, AboveIs
    <3> QED BY <2>1, <3>3
  <2>3. ~Goes(stack, x)
    BY <1>5, <2>1
  <2>4. x \in XID /\ x[2] = "own" /\ Owner(x) \in Clients /\ Named(table, x)
    BY <2>1, <2>2, <2>3, HasRecord
  <2>5. Childless(win, x)
    <3> SUFFICES ASSUME NEW y \in DOMAIN win, win[y].parent = x PROVE FALSE
      BY DEF Childless
    <3>1. x \in Above(y)
      BY <1>2, <2>4, AboveIs, NoneIs DEF Live
    <3>2. Above(x) \subseteq Above(y)
      BY <1>2, <3>1, AboveFewer DEF Live
    <3>3. y \in below
      BY <2>1, <3>2 DEF Live
    <3> QED BY <1>7, <3>3
  <2>6. /\ more \in Seq(CallType) /\ more # <<>> /\ Len(more) = 2 /\ DOMAIN more = 1 .. 2
        /\ more[1] = Forget(x) /\ more[2] = FreeResource(x, "window")
    <3>1. Forget(x) \in CallType /\ FreeResource(x, "window") \in CallType
      BY <2>4, FreeIs DEF Forget, CallType
    <3> QED BY <3>1
  <2> HIDE DEF more
  <2>7. m = stack \o more
    BY <1>7 DEF more
  <2> HIDE DEF m, below
  <2>8. /\ m \in Seq(CallType) /\ Len(m) = n + 2
        /\ \A i \in 1 .. n : m[i] = stack[i]
        /\ m[n + 1] = Forget(x) /\ m[n + 2] = FreeResource(x, "window")
        /\ \A y : Goes(stack, y) => Goes(m, y)
        /\ \A y : Goes(m, y) => Goes(stack, y) \/ Goes(more, y)
        /\ m # <<>> /\ m[1] = stack[1] /\ m[n] = Top
    <3>0. stack # <<>> /\ more \in Seq(CallType)
      BY <1>1, <2>6
    <3>1. m \in Seq(CallType) /\ Len(m) = n + Len(more)
      BY <2>7, <3>0, PushIs
    <3>3. \A i \in 1 .. n : m[i] = stack[i]
      BY <2>7, <3>0, PushIs
    <3>4. /\ \A y : Goes(stack, y) => Goes(m, y)
          /\ \A y : Goes(m, y) => Goes(stack, y) \/ Goes(more, y)
          /\ m # <<>> /\ m[1] = stack[1] /\ m[n] = Top
      BY <2>7, <3>0, PushIs
    <3>2. \A j \in 1 .. Len(more) : m[n + j] = more[j]
      BY <2>7, <3>0, PushIs
    <3> HIDE DEF n
    <3> QED BY <2>6, <3>1, <3>2, <3>3, <3>4
  <2>9. \A y : Goes(m, y) => Goes(stack, y) \/ y = x
    BY <2>6, <2>8, FreeIs, <2>4 DEF Goes, Forget
  <2>10. Fits(m, n + 1) /\ Fits(m, n + 2) /\ FrameOK(m, n + 1, table, win, saved, owner, state)
         /\ FrameOK(m, n + 2, table, win, saved, owner, state) /\ FrameOK(m, n, table, win, saved, owner, state)
    <3> HIDE DEF n
    <3>1. /\ n + 1 > 1 /\ (n + 1) - 1 = n /\ n + 1 < Len(m) /\ (n + 1) + 1 = n + 2
          /\ n + 2 > 1 /\ (n + 2) - 1 = n + 1 /\ n + 2 = Len(m)
      BY <1>3, <2>8
    <3>2. ~Inner(m[n]) /\ ~Inner(m[n + 1])
      BY <1>1, <2>8 DEF Inner, Forget
    <3>3. Fits(m, n + 1)
      <4>1. \A j \in 1 .. n : m[j].do \in {"forget", "events"} => m[j].win # x
        BY <1>3, <2>3, <2>8 DEF Goes
      <4> QED BY <2>8, <3>1, <3>2, <4>1 DEF Fits, Forget
    <3>4. Fits(m, n + 2)
      BY <2>4, <2>8, <3>1, <3>2, FreeIs DEF Fits
    <3>5. FrameOK(m, n + 1, table, win, saved, owner, state)
      <4>1. m[n + 1].do = "forget" /\ m[n + 1].win = x /\ m[(n + 1) + 1].do = "free"
        BY <2>4, <2>8, <3>1, FreeIs DEF Forget
      <4> QED BY <2>1, <2>2, <2>5, <3>1, <4>1 DEF FrameOK, Live
    <3>6. FrameOK(m, n + 2, table, win, saved, owner, state)
      BY <2>4, <2>8, <3>1, FreeFrame
    <3>7. FrameOK(m, n, table, win, saved, owner, state)
      BY <1>1, <2>8 DEF FrameOK
    <3> QED BY <3>3, <3>4, <3>5, <3>6, <3>7
  <2>11. StackOK(m, table, win, saved, owner, state)
    <3>1. \A j \in 1 .. Len(more) : j = 1 \/ j = 2
      BY <2>6
    <3>2. \A j \in 1 .. Len(more) :
            /\ Fits(m, n + j) /\ FrameOK(m, n + j, table, win, saved, owner, state)
      BY <2>10, <3>1
    <3>3. table \in Tables
      BY DEF IInv
    <3> QED BY <1>1, <2>6, <2>7, <2>10, <3>2, <3>3, LaterSame, PushOK
  <2>12. RecordsOK(table, win, m, cache)
    BY <1>2, <2>8 DEF RecordsOK
  <2>13. SafeOK(win, m, safe)
    <3>1. SafeOK(win, stack, safe)
      BY DEF JInv
    <3>2. ASSUME NEW Z \in SUBSET (DOMAIN win), Closed(win, Z), x \in Z PROVE Top.win \in Z
      BY <1>2, <2>1, <3>2, AboveClosed DEF Live
    <3> QED BY <1>5, <2>8, <2>9, <3>1, <3>2, SafeKeeps
  <2> QED BY <1>1, <2>11, <2>12, <2>13, JPrime DEF JInv, m
<1> QED BY <1>1, <1>6, <1>7

(* DestroySubwindows and FreeWindowResources call FreeResource.            *)
LEMMA PushFree ==
  ASSUME IInv, JInv, stack # <<>>, Top.do \in {"subwindows", "events"},
         NEW id \in XID, id[2] = "own" <=> Top.do = "subwindows", Owner(id) \in Clients, Named(table, id),
         stack' = Append(stack, FreeResource(id, "none")),
         UNCHANGED <<setup, state, table, win, cache, saved, owner, safe, fatal, added>>
  PROVE  JInv'
<1> DEFINE f == FreeResource(id, "none")
           more == <<f>>
           m == stack'
           n == Len(stack)
<1>1. /\ stack \in Seq(CallType) /\ n \in Nat \ {0} /\ DOMAIN stack = 1 .. n
      /\ Top = stack[n] /\ n \in 1 .. n
      /\ Fits(stack, n) /\ FrameOK(stack, n, table, win, saved, owner, state)
  <2>1. /\ stack \in Seq(CallType) /\ n \in Nat \ {0} /\ DOMAIN stack = 1 .. n /\ Top = stack[n]
        /\ \A i \in 1 .. n : Fits(stack, i) /\ FrameOK(stack, i, table, win, saved, owner, state)
    BY TopIs
  <2> HIDE DEF n
  <2>2. n \in 1 .. n
    BY <2>1
  <2> QED BY <2>1, <2>2
<1>2. /\ f \in CallType /\ f.do = "free" /\ f.id = id /\ f.skip = "none"
  BY FreeIs
<1> HIDE DEF f
<1>3. more \in Seq(CallType) /\ more # <<>> /\ Len(more) = 1 /\ DOMAIN more = {1} /\ more[1] = f
  BY <1>2
<1>4. m = stack \o more
  BY <1>1, <1>2 DEF f
<1> HIDE DEF m, more
<1>5. m \in Seq(CallType) /\ Len(m) = n + Len(more)
  BY <1>3, <1>4, PushIs
<1>6. \A j \in 1 .. Len(more) : m[n + j] = more[j]
  BY <1>3, <1>4, PushIs
<1>7. \A i \in 1 .. n : m[i] = stack[i]
  BY <1>3, <1>4, PushIs
<1>8. /\ \A x : Goes(stack, x) => Goes(m, x)
      /\ \A x : Goes(m, x) => Goes(stack, x) \/ Goes(more, x)
      /\ m # <<>> /\ m[1] = stack[1] /\ m[n] = Top
  BY <1>3, <1>4, PushIs
<1>9. \A x : Goes(m, x) <=> Goes(stack, x)
  BY <1>2, <1>3, <1>8 DEF Goes
<1>10. FrameOK(m, n, table, win, saved, owner, state)
  BY <1>1, <1>8 DEF FrameOK
<1>11. Fits(m, n + 1) /\ FrameOK(m, n + 1, table, win, saved, owner, state)
  <2> HIDE DEF n
  <2>1. n + 1 > 1 /\ (n + 1) - 1 = n /\ n + 1 = Len(m) /\ m[n + 1] = f
    BY <1>1, <1>3, <1>5, <1>6
  <2>2. ~Inner(m[n])
    BY <1>8 DEF Inner
  <2>3. id[2] = "own" => \A j \in 1 .. n : m[j].do = "subwindows"
    <3>1. id[2] = "own" => n = 1
      BY <1>1 DEF Fits
    <3>2. \A j \in 1 .. 1 : j = 1
      OBVIOUS
    <3> QED BY <1>8, <3>1, <3>2
  <2>4. id[2] # "own" => m[n].do = "events"
    BY <1>8
  <2>5. Fits(m, n + 1)
    BY <1>2, <2>1, <2>2, <2>3, <2>4 DEF Fits
  <2>6. FrameOK(m, n + 1, table, win, saved, owner, state)
    BY <2>1, FreeFrame DEF f
  <2> QED BY <2>5, <2>6
<1>12. StackOK(m, table, win, saved, owner, state)
  <2>1. \A j \in 1 .. Len(more) : j = 1
    BY <1>3
  <2>2. table \in Tables
    BY DEF IInv
  <2> QED BY <1>3, <1>4, <1>10, <1>11, <2>1, <2>2, LaterSame, PushOK
<1>13. RecordsOK(table, win, m, cache)
  BY <1>8 DEF JInv, RecordsOK
<1>14. SafeOK(win, m, safe)
  <2>1. SafeOK(win, stack, safe)
    BY DEF JInv
  <2> QED BY <1>8, <1>9, <2>1, SafeKeeps
<1> QED BY <1>12, <1>13, <1>14, JPrime DEF JInv, m

(* DestroySubwindows frees a child, or ends when there is none.            *)
LEMMA DestroySubwindowsKeeps ==
  ASSUME IInv, JInv, DestroySubwindows
  PROVE  JInv'
<1>1. /\ stack # <<>> /\ Top.do = "subwindows"
      /\ UNCHANGED <<setup, state, table, win, cache, saved, owner, safe, fatal, added>>
      /\ \/ stack' = Rest
         \/ \E x \in Live : win[x].parent = Top.win /\ stack' = Append(stack, FreeResource(x, "none"))
  BY DEF DestroySubwindows, Calls
<1>2. CASE stack' = Rest
  BY <1>1, <1>2, EndKeeps
<1>3. ASSUME NEW x \in Live, win[x].parent = Top.win, stack' = Append(stack, FreeResource(x, "none"))
      PROVE  JInv'
  <2>1. Top.win \in XID
    BY <1>1, TopIs DEF CallType
  <2>2. x # Root
    BY <1>3, <2>1, NoneIs DEF JInv, WindowsOK, Live
  <2>3. ~Goes(stack, x)
    <3>1. Len(stack) \in Nat \ {0} /\ DOMAIN stack = 1 .. Len(stack) /\ Top = stack[Len(stack)]
          /\ \A i \in 1 .. Len(stack) : Fits(stack, i)
      BY <1>1, TopIs
    <3>2. Len(stack) \in 1 .. Len(stack)
      BY <3>1
    <3>3. Len(stack) = 1
      BY <1>1, <3>1, <3>2 DEF Fits
    <3>4. \A i \in DOMAIN stack : i = Len(stack)
      BY <3>1, <3>3
    <3> QED BY <1>1, <3>1, <3>4 DEF Goes
  <2>4. x \in XID /\ x[2] = "own" /\ Owner(x) \in Clients /\ Named(table, x)
    BY <2>2, <2>3, HasRecord
  <2> QED BY <1>1, <1>3, <2>4, PushFree
<1> QED BY <1>1, <1>2, <1>3

(* The save sets and the selection let go of the window: its record and    *)
(* its children are gone.                                                  *)
LEMMA ForgetWindowKeeps ==
  ASSUME IInv, JInv, ForgetWindow
  PROVE  JInv'
<1> DEFINE n == Len(stack)
           f == [Top EXCEPT !.do = "events"]
           m == stack'
<1>1. /\ stack # <<>> /\ Top.do = "forget"
      /\ saved' = [c \in Clients |-> saved[c] \ {Top.win}]
      /\ owner' = IF owner.win = Top.win THEN NoOwner ELSE owner
      /\ stack' = Append(Front(stack), f)
      /\ UNCHANGED <<setup, state, table, win, cache, safe, fatal, added>>
  BY DEF ForgetWindow, Calls, Rest
<1>2. /\ stack \in Seq(CallType) /\ n \in Nat \ {0} /\ DOMAIN stack = 1 .. n
      /\ Top = stack[n] /\ Top \in CallType
      /\ \A i \in 1 .. n : Fits(stack, i) /\ FrameOK(stack, i, table, win, saved, owner, state)
  BY <1>1, TopIs
<1>3. f \in CallType /\ f.do = "events" /\ f.win = Top.win
  BY <1>1, <1>2 DEF CallType
<1> HIDE DEF f, m
<1>4. m \in Seq(CallType) /\ Len(m) = n /\ DOMAIN m = 1 .. n /\ m[n] = f
      /\ \A i \in 1 .. n - 1 : m[i] = stack[i]
  <2>1. m = Append(Front(stack), f)
    BY <1>1 DEF m
  <2>2. stack \in Seq(CallType) /\ stack # <<>> /\ f \in CallType
    BY <1>1, <1>2, <1>3
  <2>3. /\ Append(Front(stack), f) \in Seq(CallType)
        /\ Len(Append(Front(stack), f)) = Len(stack)
        /\ DOMAIN Append(Front(stack), f) = 1 .. Len(stack)
        /\ Append(Front(stack), f)[Len(stack)] = f
        /\ \A i \in 1 .. Len(stack) - 1 : Append(Front(stack), f)[i] = stack[i]
    BY <2>2, PutIs
  <2> QED BY <2>1, <2>3
<1> HIDE DEF n
<1>5. /\ n \in 1 .. n /\ \A i \in 1 .. n : i = n \/ i \in 1 .. n - 1
      /\ \A i \in 1 .. n - 1 : /\ i \in 1 .. n /\ i \in Nat /\ i # 0 /\ i < n
                               /\ i + 1 = n \/ i + 1 \in 1 .. n - 1
                               /\ \A j \in 1 .. i : j \in 1 .. n - 1
  BY <1>2
<1>6. ASSUME NEW i \in 1 .. n PROVE Fits(m, i)
  <2>1. CASE i = n
    <3>1. n > 1 => n - 1 \in 1 .. n - 1
      BY <1>2
    <3> QED BY <1>1, <1>2, <1>3, <1>4, <1>5, <2>1, <3>1 DEF Fits
  <2>2. CASE i \in 1 .. n - 1
    <3>1. \A j \in 1 .. i : m[j] = stack[j]
      BY <1>4, <1>5, <2>2
    <3> QED BY <1>2, <1>5, <2>2, <3>1, FitsSame
  <2> QED BY <1>5, <2>1, <2>2
<1>7. \A x : Goes(m, x) <=> Goes(stack, x)
  <2>1. \A i \in 1 .. n : /\ m[i].do \in {"forget", "events"} <=> stack[i].do \in {"forget", "events"}
                          /\ stack[i].do \in {"forget", "events"} => m[i].win = stack[i].win
    BY <1>1, <1>2, <1>3, <1>4, <1>5
  <2> QED BY <1>2, <1>4, <2>1 DEF Goes
<1>8. Later(table, win, saved, owner, table, win, saved', owner')
  BY <1>1 DEF Later, NoOwner
<1>9. ASSUME NEW i \in 1 .. n PROVE FrameOK(m, i, table, win, saved', owner', state)
  <2>1. CASE i = n
    <3>1. Top.win \in DOMAIN win \ {Root} /\ ~Named(table, Top.win) /\ Childless(win, Top.win)
      <4>1. FrameOK(stack, n, table, win, saved, owner, state) /\ n = Len(stack) /\ ~(n < n)
        <5>1. n = Len(stack)
          BY DEF n
        <5>2. n \in Nat => ~(n < n)
          OBVIOUS
        <5>3. FrameOK(stack, n, table, win, saved, owner, state)
          BY <1>2, <1>5
        <5> QED BY <1>2, <5>1, <5>2, <5>3
      <4> QED BY <1>1, <1>2, <4>1 DEF FrameOK
    <3>2. \A c \in Clients : Top.win \notin saved'[c]
      BY <1>1
    <3>3. owner'.win # Top.win
      <4>1. Top.win # None
        BY <3>1, NoneIs DEF JInv, WindowsOK
      <4> QED BY <1>1, <4>1 DEF NoOwner
    <3> QED BY <1>3, <1>4, <2>1, <3>1, <3>2, <3>3 DEF FrameOK
  <2>2. CASE i \in 1 .. n - 1
    <3>1. m[i] = stack[i]
      BY <1>4, <2>2
    <3>2. stack[i].do \in {"forget", "events"} => stack[i].win \in DOMAIN win
      BY <1>2, GoesLive DEF Goes
    <3>3. \/ i < Len(m) /\ m[i + 1].do = stack[i + 1].do
          \/ stack[i + 1].do \notin {"free", "crush"}
      <4>1. CASE i + 1 = n
        BY <1>1, <1>2, <4>1
      <4>2. CASE i + 1 \in 1 .. n - 1
        BY <1>4, <1>5, <2>2, <4>2
      <4> QED BY <1>5, <2>2, <4>1, <4>2
    <3>4. table \in Tables /\ n = Len(stack)
      BY DEF IInv, n
    <3> QED BY <1>1, <1>8, <2>2, <3>1, <3>2, <3>3, <3>4, Waiting
  <2> QED BY <1>5, <2>1, <2>2
<1>10. StackOK(m, table, win, saved', owner', state)
  BY <1>4, <1>6, <1>9 DEF StackOK
<1>11. ReferencesOK(win, cache, saved', owner', state)
  BY <1>1 DEF JInv, ReferencesOK, NoOwner
<1>12. RecordsOK(table, win, m, cache)
  BY <1>7 DEF JInv, RecordsOK
<1>13. SafeOK(win, m, safe)
  <2>1. SafeOK(win, stack, safe)
    BY DEF JInv
  <2>2. stack[1].do = "client" => m # <<>> /\ m[1] = stack[1]
    <3>1. 1 \in 1 .. n /\ Len(m) # 0
      BY <1>2, <1>4
    <3>2. stack[1].do = "client" => 1 \in 1 .. n - 1
      BY <1>1, <1>2, <1>5, <3>1
    <3> QED BY <1>4, <3>1, <3>2
  <2> QED BY <1>7, <2>1, <2>2, SafeKeeps
<1> QED BY <1>1, <1>10, <1>11, <1>12, <1>13, JPrime DEF JInv, m

(* The entries of the event list are freed, and then the window, that      *)
(* nothing refers to any more.                                             *)
LEMMA FreeWindowKeeps ==
  ASSUME IInv, JInv, FreeWindow
  PROVE  JInv'
<1> DEFINE w == Top.win
           n == Len(stack)
           v == [x \in Live \ {w} |-> win[x]]
<1>1. /\ stack # <<>> /\ Top.do = "events"
      /\ UNCHANGED <<setup, state, table, cache, saved, owner, safe, fatal, added>>
      /\ \/ \E o \in win[w].others : stack' = Append(stack, FreeResource(o, "none")) /\ UNCHANGED win
         \/ win[w].others = {} /\ win' = v /\ stack' = Rest
  BY DEF FreeWindow, Calls
<1>2. /\ n \in Nat \ {0} /\ DOMAIN stack = 1 .. n /\ Top = stack[n] /\ n \in 1 .. n
      /\ Fits(stack, n) /\ FrameOK(stack, n, table, win, saved, owner, state)
  <2>1. /\ n \in Nat \ {0} /\ DOMAIN stack = 1 .. n /\ Top = stack[n]
        /\ \A i \in 1 .. n : Fits(stack, i) /\ FrameOK(stack, i, table, win, saved, owner, state)
    BY <1>1, TopIs
  <2> HIDE DEF n
  <2>2. n \in 1 .. n
    BY <2>1
  <2> QED BY <2>1, <2>2
<1>3. /\ w \in DOMAIN win \ {Root} /\ ~Named(table, w) /\ Childless(win, w)
      /\ \A c \in Clients : w \notin saved[c]
      /\ owner.win # w
  BY <1>1, <1>2 DEF FrameOK
<1>4. WindowsOK(win) /\ RecordsOK(table, win, stack, cache)
      /\ ReferencesOK(win, cache, saved, owner, state)
  BY DEF JInv
<1>5. w \in XID /\ Owner(w) \in Clients
  BY <1>3, <1>4 DEF WindowsOK
<1>6. ASSUME NEW o \in win[w].others, stack' = Append(stack, FreeResource(o, "none")), UNCHANGED win
      PROVE  JInv'
  <2>1. o \in XID /\ Owner(o) \in Clients /\ o[2] # "own"
    BY <1>3, <1>4 DEF WindowsOK, Entry
  <2>2. Named(table, o)
    BY <1>3, <1>4 DEF RecordsOK, Named, OtherOf
  <2> QED BY <1>1, <1>6, <2>1, <2>2, PushFree
<1>7. ASSUME win[w].others = {}, win' = v, stack' = Rest
      PROVE  JInv'
  <2> HIDE DEF w, v
  <2>1. DOMAIN v = DOMAIN win \ {w} /\ \A x \in DOMAIN v : v[x] = win[x]
    BY DEF v, Live
  <2>2. \A i \in 1 .. n - 1 : stack[i].do \in {"forget", "events"} => stack[i].win # w
    BY <1>1, <1>2 DEF Fits, w
  <2>3. /\ \A x : Goes(Rest, x) => Goes(stack, x) /\ x # w
        /\ \A x : Goes(stack, x) => Goes(Rest, x) \/ x = w
        /\ stack[1].do = "client" => Rest # <<>> /\ Rest[1] = stack[1]
    <3>1. /\ \A x : Goes(Rest, x) => Goes(stack, x)
          /\ \A x : Goes(stack, x) => Goes(Rest, x) \/ x = w
          /\ stack[1].do = "client" => Rest # <<>> /\ Rest[1] = stack[1]
      BY <1>1, PopIs DEF w
    <3>2. DOMAIN Rest = 1 .. n - 1 /\ \A i \in 1 .. n - 1 : Rest[i] = stack[i]
      BY <1>1, PopIs
    <3>3. \A x : Goes(Rest, x) => x # w
      BY <2>2, <3>2 DEF Goes
    <3> QED BY <3>1, <3>3
  <2>4. cache \in [Clients -> DOMAIN v]
    <3>1. cache \in [Clients -> DOMAIN win]
      BY <1>4 DEF ReferencesOK
    <3>2. \A c \in Clients : cache[c] # w
      BY <1>3, <1>4, <1>5 DEF RecordsOK, Named, WindowOf
    <3> QED BY <2>1, <3>1, <3>2
  <2>5. RecordsOK(table, v, Rest, cache)
    <3>1. ASSUME NEW c \in Clients, NEW r \in Held(table[c]) PROVE Of(r, v)
      <4>1. Of(r, win) /\ Owner(r.id) = c
        BY <1>4, OwnersAre DEF RecordsOK, JInv
      <4>2. r.win # w
        <5> SUFFICES ASSUME r.win = w PROVE FALSE
          OBVIOUS
        <5>1. r.id = w
          BY <1>7, <4>1 DEF Of, WindowOf, PrivateOf
        <5>2. r \in HeldOf(table, w)
          BY <4>1, <5>1 DEF HeldOf
        <5> QED BY <1>3, <5>1, <5>2 DEF Named, w
      <4> QED BY <2>1, <4>1, <4>2 DEF Of
    <3>2. ASSUME NEW x \in DOMAIN v
          PROVE  /\ v[x].private => PrivateOf(x) \in HeldOf(table, x)
                 /\ \A o \in v[x].others : OtherOf(o, x) \in HeldOf(table, o)
                 /\ \/ x = Root \/ WindowOf(x) \in HeldOf(table, x)
                    \/ Goes(Rest, x) /\ \A c \in Clients : cache[c] # x
      <4>1. v[x] = win[x] /\ x \in DOMAIN win /\ x # w
        BY <2>1
      <4> QED BY <1>4, <2>3, <4>1 DEF RecordsOK
    <3> QED BY <3>1, <3>2 DEF RecordsOK
  <2>6. WindowsOK(v)
    <3>1. Root \in DOMAIN v
      BY <1>3, <1>4, <2>1 DEF WindowsOK, w
    <3>2. IsFiniteSet(DOMAIN v)
      BY <1>4, <2>1, FS_Subset DEF WindowsOK
    <3>3. \A x \in DOMAIN v : v[x].parent # w
      BY <1>3, <2>1 DEF Childless, w
    <3>4. ASSUME NEW x \in DOMAIN v
          PROVE  \E S \in SUBSET (DOMAIN v) : Closed(v, S) /\ v[x].parent \in S \cup {None} /\ x \notin S
      <4>1. PICK S \in SUBSET (DOMAIN win) :
              Closed(win, S) /\ win[x].parent \in S \cup {None} /\ x \notin S
        BY <1>4, <2>1 DEF WindowsOK
      <4>2. S \ {w} \in SUBSET (DOMAIN v)
        BY <2>1
      <4>3. Closed(v, S \ {w})
        BY <2>1, <3>3, <4>1, <4>2 DEF Closed
      <4>4. v[x].parent \in (S \ {w}) \cup {None} /\ x \notin S \ {w}
        BY <2>1, <3>3, <4>1
      <4> QED BY <4>2, <4>3, <4>4
    <3>5. ASSUME NEW x \in DOMAIN v
          PROVE v[x] \in [parent : DOMAIN v \cup {None}, private : BOOLEAN, others : SUBSET Entry]
      <4>1. v[x] \in [parent : DOMAIN win \cup {None}, private : BOOLEAN, others : SUBSET Entry]
        BY <1>4, <2>1 DEF WindowsOK
      <4>2. v[x].parent \in DOMAIN v \cup {None}
        BY <2>1, <3>3, <4>1
      <4> QED BY <4>1, <4>2
    <3> QED BY <1>4, <2>1, <3>1, <3>2, <3>4, <3>5 DEF WindowsOK
  <2>7. ReferencesOK(v, cache, saved, owner, state)
    <3>1. \A c \in Clients : w \notin saved[c]
      BY <1>3 DEF w
    <3>2. owner.win # w
      BY <1>3 DEF w
    <3>3. saved \in [Clients -> SUBSET (DOMAIN win)]
          /\ owner \in [win : DOMAIN win \cup {None}, client : Clients \cup {None}]
      BY <1>4 DEF ReferencesOK
    <3>4. saved \in [Clients -> SUBSET (DOMAIN v)]
      BY <2>1, <3>1, <3>3
    <3>5. owner \in [win : DOMAIN v \cup {None}, client : Clients \cup {None}]
      BY <2>1, <3>2, <3>3
    <3> QED BY <1>4, <2>4, <3>4, <3>5 DEF ReferencesOK
  <2>8. StackOK(Rest, table, v, saved, owner, state)
    <3>1. table \in Tables
      BY DEF IInv
    <3>2. Later(table, win, saved, owner, table, v, saved, owner)
      BY <2>1 DEF Later, Childless
    <3>3. \A x : Goes(Rest, x) => x \in DOMAIN v
      BY <2>1, <2>3, GoesLive
    <3> QED BY <1>1, <3>1, <3>2, <3>3, PopOK
  <2>9. SafeOK(v, Rest, safe)
    <3>1. SafeOK(win, stack, safe)
      BY DEF JInv
    <3>2. Goes(stack, w)
      BY <1>1, <1>2 DEF Goes, w
    <3>3. \A x \in DOMAIN win \ DOMAIN v : Goes(stack, x)
      BY <2>1, <3>2
    <3>4. DOMAIN v \subseteq DOMAIN win /\ \A x \in DOMAIN v : v[x].parent = win[x].parent
      BY <2>1
    <3> QED BY <2>3, <3>1, <3>3, <3>4, SafeKeeps
  <2> QED BY <1>1, <1>7, <2>5, <2>6, <2>7, <2>8, <2>9, JPrime DEF JInv
<1> QED BY <1>1, <1>6, <1>7

\* A client that is closed down is the outermost call.
LEMMA ClientIs ==
  ASSUME JInv, Calls("client")
  PROVE  /\ stack # <<>> /\ Len(stack) = 1 /\ DOMAIN stack = {1} /\ stack[1] = Top /\ Top.do = "client"
         /\ Rest = <<>> /\ stack \in Seq(CallType)
         /\ Top.client \in Clients /\ state[Top.client] = "gone"
         /\ \A x : ~Goes(stack, x)
<1>1. stack # <<>> /\ Top.do = "client"
  BY DEF Calls
<1>2. /\ stack \in Seq(CallType) /\ Len(stack) \in Nat \ {0} /\ DOMAIN stack = 1 .. Len(stack)
      /\ Top = stack[Len(stack)] /\ Top \in CallType
      /\ \A i \in 1 .. Len(stack) : /\ Fits(stack, i)
                                    /\ FrameOK(stack, i, table, win, saved, owner, state)
  BY <1>1, TopIs
<1>3. Len(stack) \in 1 .. Len(stack)
  BY <1>2
<1>4. Len(stack) = 1
  BY <1>1, <1>2, <1>3 DEF Fits
<1>5. DOMAIN stack = {1}
  BY <1>2, <1>4
<1>6. Rest = <<>>
  <2>1. Rest \in Seq(CallType) /\ Len(Rest) = 1 - 1
    BY <1>1, <1>4, PopIs
  <2> QED BY <2>1
<1>7. Top.client \in Clients
  BY <1>1, <1>2 DEF CallType
<1>8. state[Top.client] = "gone"
  BY <1>1, <1>2, <1>3 DEF FrameOK
<1>9. \A x : ~Goes(stack, x)
  BY <1>1, <1>2, <1>4, <1>5 DEF Goes
<1> QED BY <1>1, <1>2, <1>4, <1>5, <1>6, <1>7, <1>8, <1>9

(* FreeClientResources takes a record from the front of a bucket: the      *)
(* private of a window comes before the window.                            *)
LEMMA FreeClientNextKeeps ==
  ASSUME IInv, JInv, FreeClientNext
  PROVE  JInv'
<1> DEFINE c == Top.client
           b == table[c].buckets
<1>1. /\ Calls("client") /\ UNCHANGED <<setup, state, saved, owner, safe, added>>
      /\ \E i \in DOMAIN b :
           /\ b[i] # <<>>
           /\ table' = Unlink(Head(b[i]), 0) /\ cache' = Flushed(Head(b[i]))
           /\ DeleteFunc(Head(b[i]), stack)
  BY DEF FreeClientNext
<1>2. /\ stack # <<>> /\ Len(stack) = 1 /\ DOMAIN stack = {1} /\ stack[1] = Top /\ Top.do = "client"
      /\ c \in Clients /\ state[c] = "gone" /\ stack \in Seq(CallType)
      /\ \A x : ~Goes(stack, x)
  BY <1>1, ClientIs
<1> HIDE DEF c
<1>3. PICK i \in DOMAIN b :
           /\ b[i] # <<>>
           /\ table' = Unlink(Head(b[i]), 0) /\ cache' = Flushed(Head(b[i]))
           /\ DeleteFunc(Head(b[i]), stack)
  BY <1>1
<1> DEFINE r == Head(b[i])
           u == Unlink(r, 0)
           v == Cleared(win, r)
           w == r.win
           m == stack'
<1>4. table[c] \in TableType /\ Sound(table[c], c) /\ b \in Seq(Seq(Record)) /\ b[i] \in Seq(Record)
  <2>1. table[c] \in TableType /\ Sound(table[c], c)
    BY <1>2 DEF IInv, JInv, Tables, TablesOK
  <2> QED BY <2>1 DEF TableType
<1>5. /\ r \in Held(table[c])
      /\ \A q \in Held(table[c]) : q.id = r.id /\ q # r => ~(r.type = "window" /\ q.type = "private")
  <2>1. Len(b[i]) \in Nat \ {0} /\ DOMAIN b[i] = 1 .. Len(b[i]) /\ r = b[i][1]
    BY <1>3, <1>4
  <2>2. 1 \in DOMAIN b[i]
    BY <2>1
  <2>3. r \in Range(b[i])
    BY <2>1, <2>2 DEF Range
  <2> HIDE DEF r, b
  <2>4. r \in Held(table[c]) /\ Hash(r.id, Len(b)) = i /\ InOrder(b[i])
    BY <1>4, <2>3 DEF Held, Sound, b
  <2>5. ASSUME NEW q \in Held(table[c]), q.id = r.id, q # r
        PROVE  ~(r.type = "window" /\ q.type = "private")
    <3>1. PICK j \in DOMAIN b : q \in Range(b[j])
      BY DEF Held, b
    <3>2. j = i
      BY <1>4, <2>4, <2>5, <3>1 DEF Sound, b
    <3>3. PICK k \in DOMAIN b[i] : b[i][k] = q
      BY <3>1, <3>2 DEF Range
    <3>4. 1 < k
      <4>1. k # 1
        BY <2>1, <2>5, <3>3
      <4> QED BY <2>1, <3>3, <4>1
    <3>5. Apart(r, q)
      BY <2>1, <2>2, <2>4, <3>3, <3>4 DEF InOrder
    <3> QED BY <2>5, <3>5 DEF Apart
  <2> QED BY <2>4, <2>5
<1>6. /\ table' = u /\ cache' = Flushed(r) /\ DeleteFunc(r, stack)
  BY <1>3
<1> HIDE DEF r, b
<1>7. /\ u \in Tables /\ TablesOK(u, state) /\ Owner(r.id) = c
      /\ \A d \in Clients : d # c => u[d] = table[d]
      /\ Held(u[c]) = Held(table[c]) \ {r}
  <2>1. c \in Clients /\ r \in Held(table[c]) /\ 0 \in Int
    BY <1>2, <1>5
  <2> QED BY <2>1, Unlinked
<1>8. /\ r.win \in DOMAIN win /\ Of(r, win)
      /\ DOMAIN v = DOMAIN win /\ WindowsOK(v)
      /\ \A x \in DOMAIN win : v[x].parent = win[x].parent
      /\ \A x : Childless(win, x) => Childless(v, x)
      /\ \A st, ca : ReferencesOK(win, ca, saved, owner, st) => ReferencesOK(v, ca, saved, owner, st)
      /\ r.type = "window" => r = WindowOf(r.win) /\ r.win # Root /\ v = win
  BY <1>2, <1>5, ClearedKeeps
<1>9. /\ win' = v /\ fatal' = FALSE
      /\ IF r.type = "window" THEN m = stack \o DeleteWindow(w) ELSE m = stack
  <2>1. /\ win' = v /\ fatal' = FALSE
        /\ IF r.type = "window" THEN stack' = stack \o DeleteWindow(r.win) ELSE stack' = stack
    BY <1>2, <1>5, <1>6, DeleteFuncIs
  <2> QED BY <2>1
<1> HIDE DEF u, v, w, m
<1>10. /\ \A d \in Clients : Flushed(r)[d] = cache[d] \/ Flushed(r)[d] = Root
       /\ r.type = "window" => \A d \in Clients : Flushed(r)[d] # r.win
       /\ ReferencesOK(win, Flushed(r), saved, owner, state)
  BY <1>8, FlushedIs
<1> DEFINE more == DeleteWindow(w)
           forget == Forget(w)
           crush == [do |-> "crush", win |-> w]
<1>11. w \in DOMAIN win /\ w \in XID /\ r.win = w /\ (r.type = "window" => w[2] = "own" /\ w # Root)
  BY <1>8 DEF JInv, WindowsOK, w
<1>12. /\ more \in Seq(CallType) /\ more # <<>> /\ Len(more) = 2 /\ DOMAIN more = 1 .. 2
       /\ more[1] = forget /\ more[2] = crush
  <2>1. forget \in CallType /\ crush \in CallType
    BY <1>11 DEF Forget, CallType
  <2> QED BY <2>1 DEF DeleteWindow, Forget
<1>13. /\ forget.do = "forget" /\ forget.win = w /\ crush.do = "crush" /\ crush.win = w
  BY DEF Forget
<1> HIDE DEF more, forget, crush
<1>14. ASSUME r.type = "window"
       PROVE  /\ m \in Seq(CallType) /\ DOMAIN m = {1, 2, 3} /\ Len(m) = 3
              /\ m[1] = Top /\ m[2] = forget /\ m[3] = crush
  <2>1. m = stack \o more
    BY <1>9, <1>14 DEF more
  <2>0. stack # <<>> /\ more \in Seq(CallType)
    BY <1>2, <1>12
  <2>2. /\ m \in Seq(CallType) /\ Len(m) = Len(stack) + Len(more)
        /\ DOMAIN m = 1 .. Len(stack) + Len(more)
    BY <2>0, <2>1, PushIs
  <2>3. \A j \in 1 .. Len(more) : m[Len(stack) + j] = more[j]
    BY <2>0, <2>1, PushIs
  <2>4. m[1] = Top
    <3>1. m[1] = stack[1]
      BY <2>0, <2>1, PushIs
    <3> QED BY <1>2, <3>1
  <2>5. m[2] = forget /\ m[3] = crush
    <3>1. 1 \in 1 .. Len(more) /\ 2 \in 1 .. Len(more)
      BY <1>12
    <3> QED BY <1>2, <1>12, <2>3, <3>1
  <2> QED BY <1>2, <1>12, <2>2, <2>4, <2>5
<1>15. /\ \A x : Goes(m, x) => r.type = "window" /\ x = w
       /\ r.type = "window" => Goes(m, w)
       /\ m # <<>> /\ m[1] = stack[1]
  <2>1. CASE r.type = "window"
    <3>1. m # <<>>
      BY <1>14, <2>1
    <3> QED BY <1>2, <1>13, <1>14, <2>1, <3>1 DEF Goes
  <2>2. CASE r.type # "window"
    BY <1>2, <1>9, <2>2
  <2> QED BY <2>1, <2>2
<1>16. RecordsOK(u, v, m, Flushed(r))
  <2>1. \A x : Goes(stack, x) => Goes(m, x)
    BY <1>2
  <2>2. r.type = "window" => Goes(m, r.win)
    BY <1>11, <1>15
  <2>3. c \in Clients /\ r \in Held(table[c])
    BY <1>2, <1>5
  <2> QED BY <1>7, <1>10, <2>1, <2>2, <2>3, RecordGone DEF v
<1>17. ASSUME r.type = "window" PROVE ~Named(u, w)
  <2>1. r = WindowOf(w)
    BY <1>8, <1>11, <1>17
  <2>2. r.id = w
    BY <2>1 DEF WindowOf
  <2> QED BY <1>2, <1>5, <1>7, <1>11, <1>17, <2>1, <2>2, Unnamed
<1>18. StackOK(m, u, v, saved, owner, state)
  <2>1. CASE r.type # "window"
    <3>1. m = stack
      BY <1>9, <2>1
    <3>2. Fits(stack, 1)
      BY <1>2 DEF JInv, StackOK
    <3>3. FrameOK(stack, 1, u, v, saved, owner, state)
      BY <1>2 DEF FrameOK, c
    <3> QED BY <1>2, <3>1, <3>2, <3>3 DEF StackOK
  <2>2. CASE r.type = "window"
    <3>1. /\ \A j \in 1 .. 1 - 1 : FALSE
          /\ \A j \in 1 .. 2 - 1 : j = 1
          /\ \A j \in 1 .. 3 - 2 : j = 1
          /\ 2 > 1 /\ 2 - 1 = 1 /\ 3 > 1 /\ 3 - 1 = 2 /\ 2 < 3 /\ 2 + 1 = 3 /\ ~(1 > 1)
      OBVIOUS
    <3>2. Fits(m, 1) /\ FrameOK(m, 1, u, v, saved, owner, state)
      <4>1. m[1].do = "client" /\ m[1].client = c
        BY <1>2, <1>14, <2>2 DEF c
      <4>2. Fits(m, 1)
        BY <3>1, <4>1 DEF Fits
      <4>3. FrameOK(m, 1, u, v, saved, owner, state)
        BY <1>2, <4>1 DEF FrameOK
      <4> QED BY <4>2, <4>3
    <3>3. Fits(m, 2)
      BY <1>2, <1>13, <1>14, <2>2, <3>1 DEF Fits, Inner
    <3>4. FrameOK(m, 2, u, v, saved, owner, state)
      <4>1. m[2].do = "forget" /\ m[2].win = w /\ 2 < Len(m) /\ m[2 + 1].do = "crush"
        BY <1>13, <1>14, <2>2, <3>1
      <4>2. w \in DOMAIN v \ {Root} /\ ~Named(u, w)
        BY <1>8, <1>11, <1>17, <2>2
      <4> QED BY <4>1, <4>2 DEF FrameOK
    <3>5. Fits(m, 3)
      <4>1. m[3].do = "crush" /\ m[3].win = w /\ m[2] = Forget(w)
        BY <1>13, <1>14, <2>2 DEF forget
      <4>2. ~Inner(m[2])
        BY <1>13, <1>14, <2>2 DEF Inner
      <4>3. m[1].do = "client"
        BY <1>2, <1>14, <2>2
      <4> QED BY <3>1, <4>1, <4>2, <4>3 DEF Fits
    <3>6. FrameOK(m, 3, u, v, saved, owner, state)
      BY <1>13, <1>14, <2>2 DEF FrameOK
    <3> QED BY <1>14, <2>2, <3>2, <3>3, <3>4, <3>5, <3>6 DEF StackOK
  <2> QED BY <2>1, <2>2
<1>19. SafeOK(v, m, safe)
  <2>1. SafeOK(win, stack, safe)
    BY DEF JInv
  <2>2. ASSUME NEW x, Goes(m, x) PROVE stack[1].do = "client" /\ Owner(x) = stack[1].client
    <3>1. r.type = "window" /\ x = w
      BY <1>15, <2>2
    <3>2. r.id = w
      BY <1>8, <1>11, <3>1 DEF WindowOf
    <3> QED BY <1>2, <1>7, <3>1, <3>2 DEF c
  <2>3. DOMAIN v \subseteq DOMAIN win /\ \A x \in DOMAIN v : v[x].parent = win[x].parent
    BY <1>8
  <2>4. \A x \in DOMAIN win \ DOMAIN v : Goes(stack, x)
    BY <1>8
  <2> QED BY <1>15, <2>1, <2>2, <2>3, <2>4, SafeKeeps
<1>20. ReferencesOK(v, Flushed(r), saved, owner, state)
  BY <1>8, <1>10
<1>21. /\ table' = u /\ win' = v /\ cache' = Flushed(r) /\ stack' = m /\ fatal' = FALSE
       /\ state' = state /\ saved' = saved /\ owner' = owner /\ safe' = safe
  BY <1>1, <1>6, <1>9 DEF m, u
<1> QED BY <1>7, <1>8, <1>16, <1>18, <1>19, <1>20, <1>21, JPrime

(* FreeClientResources ends with an empty table, and the windows that were *)
(* to be kept are there.                                                   *)
LEMMA FreeClientEndKeeps ==
  ASSUME IInv, JInv, FreeClientEnd
  PROVE  JInv'
<1> DEFINE c == Top.client
           u == [table EXCEPT ![c] = Empty]
           st == [state EXCEPT ![c] = "none"]
           ca == [cache EXCEPT ![c] = Root]
<1>1. /\ Calls("client") /\ Records(c) = {} /\ table' = u /\ state' = st /\ cache' = ca
      /\ stack' = Rest /\ safe' = {} /\ UNCHANGED <<setup, win, saved, owner, fatal, added>>
  BY DEF FreeClientEnd
<1>2. Rest = <<>> /\ c \in Clients /\ state[c] = "gone" /\ \A x : ~Goes(stack, x)
  BY <1>1, ClientIs
<1> HIDE DEF c
<1>3. Held(table[c]) = {}
  BY <1>1 DEF Held, Records
<1>4. Held(Empty) = {} /\ Sound(Empty, c)
  BY DEF Held, Sound, Empty
<1>5. /\ \A d \in Clients : u[d] = IF d = c THEN Empty ELSE table[d]
      /\ \A d \in Clients : Held(u[d]) = Held(table[d])
  <2>1. c \in DOMAIN table /\ Clients \subseteq DOMAIN table
    BY <1>2 DEF IInv, Tables
  <2>2. \A d \in Clients : u[d] = IF d = c THEN Empty ELSE table[d]
    BY <2>1
  <2> HIDE DEF u
  <2> QED BY <1>3, <1>4, <2>2
<1>6. \A d \in Clients : st[d] = IF d = c THEN "none" ELSE state[d]
  BY <1>2 DEF IInv
<1>7. cache \in [Clients -> DOMAIN win] /\ Root \in DOMAIN win
  BY DEF JInv, ReferencesOK, WindowsOK
<1>8. ca \in [Clients -> DOMAIN win] /\ \A d \in Clients : ca[d] = cache[d] \/ ca[d] = Root
  BY <1>2, <1>7
<1> HIDE DEF u, st, ca
<1>9. TablesOK(u, st)
  BY <1>4, <1>5, <1>6 DEF JInv, TablesOK
<1>10. \A id : Owner(id) \in Clients => HeldOf(u, id) = HeldOf(table, id)
  BY <1>5 DEF HeldOf
<1>11. RecordsOK(u, win, <<>>, ca)
  <2>1. \A x \in DOMAIN win : /\ x # Root => Owner(x) \in Clients
                              /\ win[x].private => Owner(x) \in Clients
                              /\ \A o \in win[x].others : Owner(o) \in Clients
    BY DEF JInv, WindowsOK, Entry
  <2> QED BY <1>2, <1>5, <1>10, <2>1 DEF JInv, RecordsOK
<1>12. ReferencesOK(win, ca, saved, owner, st)
  <2>1. owner.client # c
    BY <1>2, NoneIs DEF JInv, ReferencesOK
  <2> QED BY <1>6, <1>8, <2>1 DEF JInv, ReferencesOK
<1>13. StackOK(<<>>, u, win, saved, owner, st)
  BY DEF StackOK
<1>14. SafeOK(win, <<>>, {})
  BY DEF SafeOK
<1> QED BY <1>1, <1>2, <1>9, <1>11, <1>12, <1>13, <1>14, JPrime DEF JInv

-----------------------------------------------------------------------------
(* The steps of the clients, when no call is in progress.                  *)

(* When no call is in progress no window goes, and all have their records. *)
LEMMA IdleIs ==
  ASSUME JInv, stack = <<>>
  PROVE  /\ safe = {} /\ \A x : ~Goes(stack, x)
         /\ \A x \in Live : x # Root => WindowOf(x) \in HeldOf(table, x)
         /\ \A t, w, sa, ow, st : StackOK(<<>>, t, w, sa, ow, st) /\ SafeOK(w, <<>>, {})
<1>1. safe = {} /\ \A x : ~Goes(stack, x)
  BY DEF JInv, SafeOK, Goes
<1>2. \A x \in Live : x # Root => WindowOf(x) \in HeldOf(table, x)
  BY <1>1 DEF JInv, RecordsOK, Live
<1>3. \A t, w, sa, ow, st : StackOK(<<>>, t, w, sa, ow, st) /\ SafeOK(w, <<>>, {})
  BY DEF StackOK, SafeOK
<1> QED BY <1>1, <1>2, <1>3

(* A client connects, and has an empty table.                              *)
LEMMA ConnectKeeps ==
  ASSUME IInv, JInv, NEW c \in Clients, Connect(c)
  PROVE  JInv'
<1> DEFINE b == [i \in 1 .. InitBuckets |-> <<>>]
           t == [Empty EXCEPT !.buckets = b, !.endFakeID = Ids]
           u == [table EXCEPT ![c] = t]
           st == [state EXCEPT ![c] = "running"]
<1>1. /\ stack = <<>> /\ state[c] = "none" /\ table' = u /\ state' = st
      /\ UNCHANGED <<setup, win, cache, saved, owner, stack, safe, fatal, added>>
  BY DEF Connect, Ready
<1>2. t.buckets = b /\ DOMAIN b = 1 .. InitBuckets /\ InitBuckets \in Nat /\ InitBuckets # 0
      /\ \A i \in DOMAIN b : b[i] = <<>>
  BY ResourcesAssumption DEF ResourcesAssumption, Empty
<1> HIDE DEF b, t
<1>3. Held(t) = {} /\ Sound(t, c) /\ t.buckets # <<>>
  <2>1. \A i \in DOMAIN b : Range(b[i]) = {} /\ InOrder(b[i])
    BY <1>2 DEF Range, InOrder
  <2>2. b # <<>>
    <3>1. 1 \in DOMAIN b
      BY <1>2
    <3> QED BY <3>1
  <2> QED BY <1>2, <2>1, <2>2 DEF Held, Sound
<1>4. \A d \in Clients : u[d] = IF d = c THEN t ELSE table[d]
  BY DEF IInv, Tables
<1>5. \A d \in Clients : st[d] = IF d = c THEN "running" ELSE state[d]
  BY DEF IInv
<1> HIDE DEF u, st
<1>6. Held(table[c]) = {} /\ \A d \in Clients : Held(u[d]) = Held(table[d])
  <2>1. Held(table[c]) = {}
    BY <1>1 DEF JInv, TablesOK
  <2> QED BY <1>3, <1>4, <2>1
<1>7. TablesOK(u, st)
  BY <1>3, <1>4, <1>5 DEF JInv, TablesOK
<1>8. \A id : Owner(id) \in Clients => HeldOf(u, id) = HeldOf(table, id)
  BY <1>6 DEF HeldOf
<1>9. RecordsOK(u, win, stack, cache)
  <2>1. \A x \in DOMAIN win : /\ x # Root => Owner(x) \in Clients
                              /\ win[x].private => Owner(x) \in Clients
                              /\ \A o \in win[x].others : Owner(o) \in Clients
    BY DEF JInv, WindowsOK, Entry
  <2> QED BY <1>6, <1>8, <2>1 DEF JInv, RecordsOK
<1>10. ReferencesOK(win, cache, saved, owner, st)
  <2>1. owner.client # c
    BY <1>1, NoneIs DEF JInv, ReferencesOK
  <2> QED BY <1>5, <2>1 DEF JInv, ReferencesOK
<1> QED BY <1>1, <1>7, <1>9, <1>10, IdleIs, JPrime DEF JInv

(* A client is closed down: the windows of its save set are moved to       *)
(* windows that are not its own, with all above them.                      *)
LEMMA FreeClientResourcesKeeps ==
  ASSUME IInv, JInv, stack = <<>>, NEW c \in Clients, FreeClientResources(c), state[c] # "none",
         owner' \in {owner, NoOwner}, owner'.client # c, UNCHANGED fatal
  PROVE  JInv'
<1> DEFINE v == [x \in Live |-> IF x \in saved[c] /\ x # Root THEN [win[x] EXCEPT !.parent = Outside(c, x)]
                                ELSE win[x]]
           sa == [saved EXCEPT ![c] = {}]
           st == [state EXCEPT ![c] = "gone"]
           call == [do |-> "client", client |-> c]
           sf == Sheltered(c)
<1>1. /\ state' = st /\ safe' = sf /\ win' = v /\ saved' = sa /\ stack' = <<call>>
      /\ UNCHANGED <<table, cache>>
  BY DEF FreeClientResources, HandleSaveSet
<1>2. WindowsOK(win) /\ RecordsOK(table, win, stack, cache)
      /\ ReferencesOK(win, cache, saved, owner, state)
  BY DEF JInv
<1>3. saved[c] \subseteq Live /\ \A x \in saved[c] : Owner(x) # c
  BY <1>2 DEF ReferencesOK, Live
<1>4. ASSUME NEW x \in saved[c], x # Root
      PROVE  /\ Outside(c, x) \in Above(x) /\ Owner(Outside(c, x)) # c
             /\ Outside(c, x) \in Live /\ Above(Outside(c, x)) \subseteq Above(x)
  <2>1. x \in Live
    BY <1>3
  <2>2. Outside(c, x) \in Above(x) /\ Owner(Outside(c, x)) # c
    BY <1>2, <1>4, <2>1, OutsideIs
  <2> QED BY <1>2, <2>1, <2>2, AboveFewer
<1>5. ASSUME NEW x \in Live
      PROVE  /\ v[x] \in [parent : Live \cup {None}, private : BOOLEAN, others : SUBSET Entry]
             /\ v[x].private = win[x].private /\ v[x].others = win[x].others
             /\ v[x].parent = IF x \in saved[c] /\ x # Root THEN Outside(c, x) ELSE win[x].parent
             /\ v[x].parent \in Above(x) \cup {None}
             /\ v[x].parent = None <=> win[x].parent = None
  <2>1. win[x] \in [parent : Live \cup {None}, private : BOOLEAN, others : SUBSET Entry]
    BY <1>2 DEF WindowsOK, Live
  <2>2. win[x].parent \in Above(x) \cup {None} /\ (x # Root => win[x].parent # None)
    BY <1>2, AboveIs DEF WindowsOK, Live
  <2>3. CASE x \in saved[c] /\ x # Root
    <3>1. v[x] = [win[x] EXCEPT !.parent = Outside(c, x)]
      BY <2>3
    <3>2. Outside(c, x) \in Live /\ Outside(c, x) \in Above(x) /\ Outside(c, x) # None
      <4>1. Outside(c, x) \in Live /\ Outside(c, x) \in Above(x)
        BY <1>4, <2>3
      <4> QED BY <1>2, <4>1, NoneIs DEF WindowsOK, Live
    <3> HIDE DEF v
    <3> QED BY <2>1, <2>2, <2>3, <3>1, <3>2
  <2>4. CASE ~(x \in saved[c] /\ x # Root)
    <3>1. v[x] = win[x]
      BY <2>4
    <3> HIDE DEF v
    <3> QED BY <2>1, <2>2, <2>4, <3>1
  <2> QED BY <2>3, <2>4
<1>6. DOMAIN v = Live
  OBVIOUS
<1> HIDE DEF v
<1>7. RecordsOK(table, v, stack', cache)
  <2>1. \A d \in Clients : \A r \in Held(table[d]) : Of(r, v)
    BY <1>2, <1>5, <1>6 DEF RecordsOK, Of, Live
  <2>2. \A x \in Live : /\ x # Root => WindowOf(x) \in HeldOf(table, x)
                        /\ v[x].private => PrivateOf(x) \in HeldOf(table, x)
                        /\ \A o \in v[x].others : OtherOf(o, x) \in HeldOf(table, o)
    BY <1>2, <1>5, IdleIs DEF RecordsOK, Live
  <2> QED BY <1>6, <2>1, <2>2 DEF RecordsOK
<1>8. WindowsOK(v)
  <2>1. ASSUME NEW x \in Live
        PROVE  \E S \in SUBSET Live : Closed(v, S) /\ v[x].parent \in S \cup {None} /\ x \notin S
    <3>1. Above(x) \in SUBSET Live /\ x \notin Above(x)
      BY <1>2, AboveIs
    <3>2. Closed(v, Above(x))
      <4> SUFFICES ASSUME NEW y \in Above(x) PROVE v[y].parent \in Above(x) \cup {None}
        BY DEF Closed
      <4>1. y \in Live /\ Above(y) \subseteq Above(x)
        BY <1>2, AboveFewer
      <4> QED BY <1>5, <4>1
    <3> QED BY <1>5, <3>1, <3>2
  <2>2. \A x \in Live : /\ x \in XID /\ x[2] = "own" /\ (x # Root => Owner(x) \in Clients)
                        /\ x = Root <=> v[x].parent = None
                        /\ x = Root => ~v[x].private
    BY <1>2, <1>5 DEF WindowsOK, Live
  <2>3. Root \in Live /\ IsFiniteSet(Live)
    BY <1>2 DEF WindowsOK, Live
  <2> QED BY <1>5, <1>6, <2>1, <2>2, <2>3 DEF WindowsOK
<1>9. \A d \in Clients : st[d] = IF d = c THEN "gone" ELSE state[d]
  BY DEF IInv
<1>10. sa \in [Clients -> SUBSET Live] /\ \A d \in Clients : sa[d] \subseteq saved[d]
  BY <1>2 DEF ReferencesOK, Live
<1> HIDE DEF st, sa
<1>11. ReferencesOK(v, cache, sa, owner', st)
  <2>1. owner' \in [win : Live \cup {None}, client : Clients \cup {None}]
    BY <1>2 DEF ReferencesOK, NoOwner, Live
  <2>2. owner'.client # None => st[owner'.client] \in {"running", "exception"}
    BY <1>2, <1>9 DEF ReferencesOK, NoOwner
  <2>3. cache \in [Clients -> Live] /\ \A d \in Clients : \A x \in sa[d] : Owner(x) # d
    BY <1>2, <1>10 DEF ReferencesOK, Live
  <2> QED BY <1>6, <1>10, <2>1, <2>2, <2>3 DEF ReferencesOK
<1>12. TablesOK(table, st)
  BY <1>9 DEF JInv, TablesOK
<1>13. StackOK(stack', table, v, sa, owner', st)
  <2>1. call \in CallType /\ call.do = "client" /\ call.client = c
    BY DEF CallType
  <2> HIDE DEF call
  <2>2. stack' \in Seq(CallType) /\ DOMAIN stack' = {1} /\ stack'[1] = call
    BY <1>1, <2>1
  <2>3. Fits(stack', 1)
    <3>1. ~(1 > 1)
      OBVIOUS
    <3> QED BY <2>1, <2>2, <3>1 DEF Fits
  <2>4. FrameOK(stack', 1, table, v, sa, owner', st)
    BY <1>9, <2>1, <2>2 DEF FrameOK
  <2> QED BY <2>2, <2>3, <2>4 DEF StackOK
<1>14. SafeOK(v, stack', sf)
  <2> DEFINE Z == UNION {{x, Outside(c, x)} \cup Above(Outside(c, x)) : x \in sf}
  <2>1. ASSUME NEW x \in sf
        PROVE  /\ x \in saved[c] /\ x # Root /\ x \in Live /\ Outside(c, x) \in Live
               /\ Owner(x) # c /\ Owner(Outside(c, x)) # c /\ \A y \in Above(Outside(c, x)) : Owner(y) # c
               /\ Above(Outside(c, x)) \subseteq Live
    <3>1. x \in saved[c] /\ x # Root /\ \A y \in Above(Outside(c, x)) : Owner(y) # c
      BY DEF Sheltered
    <3>2. Outside(c, x) \in Live
      BY <1>4, <3>1
    <3> QED BY <1>2, <1>3, <1>4, <3>1, <3>2, AboveIs
  <2> HIDE DEF sf
  <2>2. sf \subseteq Z /\ Z \in SUBSET Live /\ \A z \in Z : Owner(z) # c
    BY <2>1
  <2>3. Closed(v, Z)
    <3> SUFFICES ASSUME NEW z \in Z PROVE v[z].parent \in Z \cup {None}
      BY DEF Closed
    <3>1. PICK x \in sf : z \in {x, Outside(c, x)} \cup Above(Outside(c, x))
      OBVIOUS
    <3>2. {x, Outside(c, x)} \cup Above(Outside(c, x)) \subseteq Z
      OBVIOUS
    <3> HIDE DEF Z
    <3>3. CASE z = x
      BY <1>5, <2>1, <3>2, <3>3
    <3>4. CASE z = Outside(c, x)
      BY <1>5, <2>1, <3>2, <3>4
    <3>5. CASE z \in Above(Outside(c, x))
      <4>1. z \in Live /\ Above(z) \subseteq Above(Outside(c, x))
        BY <1>2, <2>1, <3>5, AboveFewer
      <4> QED BY <1>5, <3>2, <4>1
    <3> QED BY <3>1, <3>3, <3>4, <3>5
  <2>4. stack' # <<>> /\ stack'[1].do = "client" /\ stack'[1].client = c /\ \A x : ~Goes(stack', x)
    BY <1>1 DEF Goes
  <2> HIDE DEF Z
  <2> QED BY <1>6, <2>2, <2>3, <2>4 DEF SafeOK
<1> QED BY <1>1, <1>7, <1>8, <1>11, <1>12, <1>13, <1>14, JPrime DEF JInv

(* A client retains its resources, but for its entries of event lists.     *)
LEMMA NeverRetainKeeps ==
  ASSUME IInv, JInv, stack = <<>>, NEW c \in Clients, FreeClientNeverRetainResources(c),
         state[c] # "none", owner' \in {owner, NoOwner}, owner'.client # c, UNCHANGED fatal
  PROVE  JInv'
<1> DEFINE b == table[c].buckets
           kept(i) == {r \in Range(b[i]) : r.type # "other"}
           a == [i \in DOMAIN b |-> Those(b[i], kept(i))]
           t == [table[c] EXCEPT !.buckets = a]
           u == [table EXCEPT ![c] = t]
           v == [x \in Live |-> [win[x] EXCEPT !.others = {o \in win[x].others : Owner(o) # c}]]
           st == [state EXCEPT ![c] = "retained"]
<1>1. /\ state' = st /\ win' = v /\ UNCHANGED <<cache, saved, stack, safe>>
  BY DEF FreeClientNeverRetainResources
<1>2. table' = u
  BY DEF FreeClientNeverRetainResources, IInv, Tables
<1>3. /\ WindowsOK(win) /\ RecordsOK(table, win, stack, cache) /\ TablesOK(table, state)
      /\ ReferencesOK(win, cache, saved, owner, state)
  BY DEF JInv
<1>4. table[c] \in TableType /\ Sound(table[c], c) /\ b # <<>>
  BY <1>3 DEF IInv, Tables, TablesOK
<1>5. /\ b \in Seq(Seq(Record)) /\ Len(b) \in Nat /\ DOMAIN b = 1 .. Len(b)
      /\ \A i \in DOMAIN b : b[i] \in Seq(Record)
  BY <1>4 DEF TableType
<1> HIDE DEF b
<1>6. ASSUME NEW i \in DOMAIN b
      PROVE  /\ a[i] \in Seq(Record) /\ InOrder(a[i])
             /\ \A r : r \in Range(a[i]) <=> r \in Range(b[i]) /\ r.type # "other"
  <2>1. b[i] \in Seq(Record) /\ InOrder(b[i])
    BY <1>4, <1>5 DEF Sound, b
  <2>2. a[i] = Those(b[i], kept(i))
    OBVIOUS
  <2> HIDE DEF a
  <2>3. \A r : r \in kept(i) <=> r \in Range(b[i]) /\ r.type # "other"
    OBVIOUS
  <2> HIDE DEF kept
  <2>4. /\ Those(b[i], kept(i)) \in Seq(Record) /\ InOrder(Those(b[i], kept(i)))
        /\ Range(Those(b[i], kept(i))) = Range(b[i]) \cap kept(i)
    BY <2>1, ThoseIs
  <2> QED BY <2>2, <2>3, <2>4
<1>7. DOMAIN a = 1 .. Len(b)
  BY <1>5
<1> HIDE DEF a
<1>8. Len(a) = Len(b) /\ a \in Seq(Seq(Record))
  <2>1. a \in [1 .. Len(b) -> Seq(Record)]
    <3>1. a = [i \in 1 .. Len(b) |-> a[i]]
      BY <1>5 DEF a
    <3> QED BY <1>5, <1>6, <3>1
  <2> QED BY <1>5, <2>1, FunctionIsSeq
<1>9. t.buckets = a
  BY <1>4 DEF TableType
<1> HIDE DEF t
<1>10. Sound(t, c) /\ a # <<>>
  <2>1. \A i \in DOMAIN b : \A r \in Range(b[i]) : Owner(r.id) = c /\ Hash(r.id, Len(b)) = i
    BY <1>4 DEF Sound, b
  <2>2. a # <<>>
    BY <1>4, <1>5, <1>7
  <2> QED BY <1>5, <1>6, <1>7, <1>8, <1>9, <2>1, <2>2 DEF Sound
<1>11. \A r : r \in Held(t) <=> r \in Held(table[c]) /\ r.type # "other"
  <2>1. \A r : r \in Held(t) <=> \E i \in DOMAIN b : r \in Range(a[i])
    BY <1>5, <1>7, <1>9 DEF Held
  <2>2. \A r : r \in Held(table[c]) <=> \E i \in DOMAIN b : r \in Range(b[i])
    BY DEF Held, b
  <2> QED BY <1>6, <2>1, <2>2
<1>12. \A d \in Clients : u[d] = IF d = c THEN t ELSE table[d]
  BY DEF IInv, Tables
<1>13. \A d \in Clients : st[d] = IF d = c THEN "retained" ELSE state[d]
  BY DEF IInv
<1> HIDE DEF u, st
<1>14. TablesOK(u, st)
  BY <1>3, <1>9, <1>10, <1>12, <1>13 DEF TablesOK
<1>15. ASSUME NEW x \in Live
       PROVE  /\ v[x] \in [parent : Live \cup {None}, private : BOOLEAN, others : SUBSET Entry]
              /\ v[x].private = win[x].private /\ v[x].parent = win[x].parent
              /\ v[x].others = {o \in win[x].others : Owner(o) # c}
  <2>1. win[x] \in [parent : Live \cup {None}, private : BOOLEAN, others : SUBSET Entry]
    BY <1>3 DEF WindowsOK, Live
  <2> QED BY <2>1
<1>16. DOMAIN v = Live
  OBVIOUS
<1> HIDE DEF v
<1>17. WindowsOK(v)
  <2>1. SameTree(win, v)
    BY <1>15, <1>16 DEF SameTree, Live
  <2>2. \A x \in DOMAIN win : x = Root => ~v[x].private
    BY <1>3, <1>15 DEF WindowsOK, Live
  <2> QED BY <1>3, <1>15, <2>1, <2>2, TreeKept DEF Live
<1>18. RecordsOK(u, v, stack, cache)
  <2>1. ASSUME NEW d \in Clients, NEW r \in Held(u[d]) PROVE Of(r, v)
    <3>1. r \in Held(table[d]) /\ (d = c => r.type # "other")
      BY <1>11, <1>12
    <3>2. Of(r, win) /\ Owner(r.id) = d
      BY <1>3, <3>1, OwnersAre DEF RecordsOK
    <3>3. r.type = "other" => Owner(r.id) # c
      BY <3>1, <3>2
    <3> QED BY <1>15, <1>16, <3>2, <3>3 DEF Of, Live, OtherOf
  <2>2. ASSUME NEW x \in Live
        PROVE  /\ v[x].private => PrivateOf(x) \in HeldOf(u, x)
               /\ \A o \in v[x].others : OtherOf(o, x) \in HeldOf(u, o)
               /\ x = Root \/ WindowOf(x) \in HeldOf(u, x)
    <3>1. /\ x # Root => Owner(x) \in Clients
          /\ win[x].private => x # Root
          /\ \A o \in win[x].others : Owner(o) \in Clients
      BY <1>3 DEF WindowsOK, Entry, Live
    <3>2. /\ win[x].private => PrivateOf(x) \in HeldOf(table, x)
          /\ \A o \in win[x].others : OtherOf(o, x) \in HeldOf(table, o)
          /\ x = Root \/ WindowOf(x) \in HeldOf(table, x)
      BY <1>3, IdleIs DEF RecordsOK, Live
    <3>3. WindowOf(x).type # "other" /\ PrivateOf(x).type # "other"
      BY DEF WindowOf, PrivateOf
    <3> QED BY <1>11, <1>12, <1>15, <3>1, <3>2, <3>3 DEF HeldOf
  <2> QED BY <1>16, <2>1, <2>2 DEF RecordsOK
<1>19. ReferencesOK(v, cache, saved, owner', st)
  <2>1. owner' \in [win : Live \cup {None}, client : Clients \cup {None}]
    BY <1>3 DEF ReferencesOK, NoOwner, Live
  <2>2. owner'.client # None => st[owner'.client] \in {"running", "exception"}
    BY <1>3, <1>13 DEF ReferencesOK, NoOwner
  <2>3. /\ cache \in [Clients -> Live] /\ saved \in [Clients -> SUBSET Live]
        /\ \A d \in Clients : \A x \in saved[d] : Owner(x) # d
    BY <1>3 DEF ReferencesOK, Live
  <2> QED BY <1>16, <2>1, <2>2, <2>3 DEF ReferencesOK
<1> QED BY <1>1, <1>2, <1>14, <1>17, <1>18, <1>19, IdleIs, JPrime DEF JInv

(* A client is closed down in either way.                                  *)
LEMMA CloseDownKeeps ==
  ASSUME IInv, JInv, NEW c \in Clients, CloseDownClient(c) \/ CloseDownRetainedResources(c)
  PROVE  JInv'
<1>1. CASE CloseDownClient(c)
  <2>1. /\ stack = <<>> /\ state[c] # "none" /\ UNCHANGED fatal
        /\ owner' = IF owner.client = c THEN NoOwner ELSE owner
        /\ FreeClientNeverRetainResources(c) \/ FreeClientResources(c)
    BY <1>1 DEF CloseDownClient
  <2>2. owner' \in {owner, NoOwner} /\ owner'.client # c
    BY <2>1, NoneIs DEF NoOwner
  <2> QED BY <2>1, <2>2, NeverRetainKeeps, FreeClientResourcesKeeps
<1>2. CASE CloseDownRetainedResources(c)
  <2>1. stack = <<>> /\ state[c] = "retained" /\ UNCHANGED <<owner, fatal>> /\ FreeClientResources(c)
    BY <1>2 DEF CloseDownRetainedResources, Ready
  <2>2. owner'.client # c
    BY <2>1, NoneIs DEF JInv, ReferencesOK
  <2> QED BY <2>1, <2>2, FreeClientResourcesKeeps
<1> QED BY <1>1, <1>2

(* ... whatever the clients used last.                                     *)
LEMMA IdleRecords ==
  ASSUME JInv, stack = <<>>, NEW k, NEW ca
  PROVE  RecordsOK(table, win, k, ca)
BY IdleIs DEF JInv, RecordsOK, Live

(* A request makes a call.                                                 *)
LEMMA CallStarts ==
  ASSUME IInv, JInv, stack = <<>>, NEW f \in CallType, stack' = <<f>>, cache' \in [Clients -> Live],
         UNCHANGED <<state, table, win, saved, owner, safe, fatal>>,
         Fits(<<f>>, 1), FrameOK(<<f>>, 1, table, win, saved, owner, state)
  PROVE  JInv'
<1>1. StackOK(<<f>>, table, win, saved, owner, state)
  <2>1. <<f>> \in Seq(CallType) /\ DOMAIN <<f>> = {1}
    OBVIOUS
  <2> QED BY <2>1 DEF StackOK
<1>2. SafeOK(win, <<f>>, safe)
  BY IdleIs DEF SafeOK
<1>3. ReferencesOK(win, cache', saved, owner, state)
  BY DEF JInv, ReferencesOK, Live
<1>4. RecordsOK(table, win, <<f>>, cache')
  BY IdleRecords
<1> QED BY <1>1, <1>2, <1>3, <1>4, JPrime DEF JInv

\* A request that calls nothing and leaves the records as they are.
LEMMA NothingStarts ==
  ASSUME IInv, JInv, stack = <<>>, cache' \in [Clients -> Live],
         UNCHANGED <<state, table, win, stack, safe, fatal>>,
         ReferencesOK(win, cache', saved', owner', state)
  PROVE  JInv'
<1>1. RecordsOK(table, win, stack, cache')
  BY IdleRecords
<1> QED BY <1>1, IdleIs, JPrime DEF JInv

(* What a client used last is a window.                                    *)
LEMMA UsedIs ==
  ASSUME JInv, NEW c \in Clients, NEW w \in Live
  PROVE  Used(c, w) \in [Clients -> Live]
BY DEF JInv, ReferencesOK, Used, Live

(* The requests that make a call.                                          *)
LEMMA CallsKeep ==
  ASSUME IInv, JInv, NEW c \in Clients, NEW w \in Live,
         DestroyWindow(c, w) \/ ProcDestroySubwindows(c, w) \/ DeselectEvents(c, w)
  PROVE  JInv'
<1>1. /\ stack = <<>> /\ cache' = Used(c, w)
      /\ UNCHANGED <<state, table, win, saved, owner, safe, fatal>>
  BY DEF DestroyWindow, ProcDestroySubwindows, DeselectEvents, Sends, Ready
<1>2. WindowsOK(win) /\ RecordsOK(table, win, stack, cache)
  BY DEF JInv
<1>3. /\ w \in XID /\ w[2] = "own"
      /\ win[w] \in [parent : Live \cup {None}, private : BOOLEAN, others : SUBSET Entry]
  BY <1>2 DEF WindowsOK, Live
<1>4. cache' \in [Clients -> Live]
  BY <1>1, UsedIs
<1>5. ~(1 > 1) /\ \A j \in 1 .. 1 - 1 : FALSE
  OBVIOUS
<1>6. ASSUME NEW id \in XID, Owner(id) \in Clients, Named(table, id),
             stack' = <<FreeResource(id, "none")>>
      PROVE  JInv'
  <2> DEFINE f == FreeResource(id, "none")
  <2>1. f \in CallType /\ f.do = "free" /\ f.id = id /\ f.skip = "none"
    BY FreeIs
  <2> HIDE DEF f
  <2>2. <<f>>[1] = f /\ Len(<<f>>) = 1
    OBVIOUS
  <2>3. Fits(<<f>>, 1)
    BY <1>5, <2>1, <2>2 DEF Fits
  <2>4. FrameOK(<<f>>, 1, table, win, saved, owner, state)
    BY <1>6, <2>2, FreeFrame DEF f
  <2>5. stack' = <<f>>
    BY <1>6 DEF f
  <2> QED BY <1>1, <1>4, <2>1, <2>3, <2>4, <2>5, CallStarts
<1>7. CASE DestroyWindow(c, w)
  <2>1. win[w].parent # None /\ stack' = <<FreeResource(w, "none")>>
    BY <1>7 DEF DestroyWindow
  <2>2. w # Root
    BY <1>2, <2>1 DEF WindowsOK, Live
  <2>3. Owner(w) \in Clients /\ Named(table, w)
    BY <1>1, <2>2, HasRecord, IdleIs
  <2> QED BY <1>3, <1>6, <2>1, <2>3
<1>8. CASE DeselectEvents(c, w)
  <2>1. PICK o \in win[w].others : stack' = <<FreeResource(o, "none")>>
    BY <1>8 DEF DeselectEvents, EntryOf
  <2>2. o \in Entry
    BY <1>3
  <2>3. Named(table, o)
    BY <1>2 DEF RecordsOK, Named, OtherOf, Live
  <2> QED BY <1>6, <2>1, <2>2, <2>3 DEF Entry
<1>9. CASE ProcDestroySubwindows(c, w)
  <2> DEFINE f == [do |-> "subwindows", win |-> w]
  <2>1. f \in CallType /\ f.do = "subwindows" /\ stack' = <<f>>
    BY <1>3, <1>9 DEF CallType, ProcDestroySubwindows
  <2> HIDE DEF f
  <2>2. <<f>>[1] = f
    OBVIOUS
  <2>3. Fits(<<f>>, 1)
    BY <1>5, <2>1, <2>2 DEF Fits
  <2>4. FrameOK(<<f>>, 1, table, win, saved, owner, state)
    BY <2>1, <2>2 DEF FrameOK
  <2> QED BY <1>1, <1>4, <2>1, <2>3, <2>4, CallStarts
<1> QED BY <1>7, <1>8, <1>9

(* A save set gets a window of another client, or loses one.               *)
LEMMA ChangeSaveSetKeeps ==
  ASSUME IInv, JInv, NEW c \in Clients, NEW w \in Live, ChangeSaveSet(c, w)
  PROVE  JInv'
<1>1. /\ stack = <<>> /\ cache' = Used(c, w) /\ Owner(w) # c
      /\ \E s \in {saved[c] \cup {w}, saved[c] \ {w}} : saved' = [saved EXCEPT ![c] = s]
      /\ UNCHANGED <<state, table, win, owner, stack, safe, fatal>>
  BY DEF ChangeSaveSet, Sends, Ready
<1>2. PICK s : s \in {saved[c] \cup {w}, saved[c] \ {w}} /\ saved' = [saved EXCEPT ![c] = s]
  BY <1>1
<1>3. ReferencesOK(win, cache, saved, owner, state) /\ cache' \in [Clients -> Live]
  BY <1>1, UsedIs DEF JInv
<1>4. s \subseteq Live /\ \A x \in s : Owner(x) # c
  BY <1>1, <1>2, <1>3 DEF ReferencesOK, Live
<1>5. saved' \in [Clients -> SUBSET Live] /\ \A d \in Clients : \A x \in saved'[d] : Owner(x) # d
  BY <1>2, <1>3, <1>4 DEF ReferencesOK, Live
<1>6. ReferencesOK(win, cache', saved', owner, state)
  BY <1>3, <1>5 DEF ReferencesOK, Live
<1> QED BY <1>1, <1>3, <1>6, NothingStarts

(* The selection gets an owner that runs, or none.                         *)
LEMMA SetSelectionOwnerKeeps ==
  ASSUME IInv, JInv, NEW c \in Clients, NEW w \in Live \cup {None}, SetSelectionOwner(c, w)
  PROVE  JInv'
<1>1. /\ stack = <<>> /\ state[c] = "running"
      /\ \/ owner' = NoOwner /\ UNCHANGED cache
         \/ w # None /\ owner' = [win |-> w, client |-> c] /\ cache' = Used(c, w)
      /\ UNCHANGED <<state, table, win, saved, stack, safe, fatal>>
  BY DEF SetSelectionOwner, Sends, Ready
<1>2. ReferencesOK(win, cache, saved, owner, state)
  BY DEF JInv
<1>3. cache' \in [Clients -> Live]
  BY <1>1, <1>2, UsedIs DEF ReferencesOK, Live
<1>4. ReferencesOK(win, cache', saved, owner', state)
  <2>1. CASE owner' = NoOwner
    BY <1>2, <1>3, <2>1 DEF ReferencesOK, NoOwner, Live
  <2>2. CASE w # None /\ owner' = [win |-> w, client |-> c]
    <3>1. owner' \in [win : Live \cup {None}, client : Clients \cup {None}] /\ owner'.client = c
      BY <2>2
    <3> QED BY <1>1, <1>2, <1>3, <3>1 DEF ReferencesOK, Live
  <2> QED BY <1>1, <2>1, <2>2
<1> QED BY <1>1, <1>3, <1>4, NothingStarts

(* A window is moved with all below it; the others that are not below it   *)
(* keep what is above them.                                                *)
LEMMA ReparentWindowKeeps ==
  ASSUME IInv, JInv, NEW c \in Clients, NEW w \in Live, NEW p \in Live, ReparentWindow(c, w, p)
  PROVE  JInv'
<1> DEFINE v == [win EXCEPT ![w].parent = p]
           A == Above(p) \cup {p}
<1>1. /\ stack = <<>> /\ cache' = Used(c, p)
      /\ win' = IF w \in A THEN win ELSE v
      /\ UNCHANGED <<state, table, saved, owner, stack, safe, fatal>>
  BY DEF ReparentWindow, Sends, Ready
<1>2. /\ WindowsOK(win) /\ RecordsOK(table, win, stack, cache)
      /\ ReferencesOK(win, cache, saved, owner, state)
  BY DEF JInv
<1>3. cache' \in [Clients -> Live]
  BY <1>1, UsedIs
<1>4. CASE w \in A
  <2>1. ReferencesOK(win, cache', saved, owner, state)
    BY <1>2, <1>3 DEF ReferencesOK, Live
  <2> QED BY <1>1, <1>3, <1>4, <2>1, NothingStarts
<1>5. CASE w \notin A
  <2>1. w # Root
    <3>1. Root \in A
      BY <1>2, RootAbove
    <3> QED BY <1>5, <3>1
  <2>2. ASSUME NEW x \in Live
        PROVE  /\ v[x] \in [parent : Live \cup {None}, private : BOOLEAN, others : SUBSET Entry]
               /\ v[x].private = win[x].private /\ v[x].others = win[x].others
               /\ v[x].parent = IF x = w THEN p ELSE win[x].parent
    <3>1. win[x] \in [parent : Live \cup {None}, private : BOOLEAN, others : SUBSET Entry]
      BY <1>2 DEF WindowsOK, Live
    <3> QED BY <3>1 DEF Live
  <2>3. DOMAIN v = Live
    BY DEF Live
  <2> HIDE DEF v
  <2>4. A \in SUBSET Live /\ Closed(win, A)
    <3>1. /\ Above(p) \subseteq Live /\ Closed(win, Above(p)) /\ win[p].parent \in Above(p) \cup {None}
      BY <1>2, AboveIs
    <3> QED BY <3>1 DEF Closed
  <2>5. ASSUME NEW x \in Live
        PROVE  \E S \in SUBSET Live : Closed(v, S) /\ v[x].parent \in S \cup {None} /\ x \notin S
    <3>1. /\ Above(x) \in SUBSET Live /\ Closed(win, Above(x)) /\ win[x].parent \in Above(x) \cup {None}
          /\ x \notin Above(x)
      BY <1>2, AboveIs
    <3>2. CASE w \in Above(x) \cup {x}
      <4> DEFINE S == A \cup Above(x)
      <4>1. x \notin A
        <5> SUFFICES ASSUME x \in A PROVE FALSE
          OBVIOUS
        <5>1. Above(x) \subseteq A
          BY <1>2, AboveFewer
        <5> QED BY <1>5, <3>2, <5>1
      <4> HIDE DEF A
      <4>2. Closed(v, S)
        <5> SUFFICES ASSUME NEW y \in S PROVE v[y].parent \in S \cup {None}
          BY DEF Closed
        <5>1. y \in Live
          BY <2>4, <3>1
        <5>2. p \in A
          BY DEF A
        <5> QED BY <2>2, <2>4, <3>1, <5>1, <5>2 DEF Closed
      <4>3. v[x].parent \in S \cup {None}
        BY <2>2, <3>1 DEF A
      <4> QED BY <2>4, <3>1, <4>1, <4>2, <4>3
    <3>3. CASE w \notin Above(x) \cup {x}
      <4>1. Closed(v, Above(x))
        BY <2>2, <3>1, <3>3 DEF Closed
      <4>2. v[x].parent \in Above(x) \cup {None}
        BY <2>2, <3>1, <3>3
      <4> QED BY <3>1, <4>1, <4>2
    <3> QED BY <3>2, <3>3
  <2>6. \A x \in Live : /\ x \in XID /\ x[2] = "own" /\ (x # Root => Owner(x) \in Clients)
                        /\ x = Root <=> v[x].parent = None
                        /\ x = Root => ~v[x].private
    <3>1. p # None
      BY <1>2, NoneIs DEF WindowsOK, Live
    <3> QED BY <1>2, <2>1, <2>2, <3>1 DEF WindowsOK, Live
  <2>7. WindowsOK(v)
    <3>1. Root \in Live /\ IsFiniteSet(Live)
      BY <1>2 DEF WindowsOK, Live
    <3> QED BY <2>2, <2>3, <2>5, <2>6, <3>1 DEF WindowsOK
  <2>8. RecordsOK(table, v, stack, cache')
    <3>1. \A d \in Clients : \A r \in Held(table[d]) : Of(r, v)
      BY <1>2, <2>2, <2>3 DEF RecordsOK, Of, Live
    <3>2. \A x \in Live : /\ x # Root => WindowOf(x) \in HeldOf(table, x)
                          /\ v[x].private => PrivateOf(x) \in HeldOf(table, x)
                          /\ \A o \in v[x].others : OtherOf(o, x) \in HeldOf(table, o)
      BY <1>1, <1>2, <2>2, IdleIs DEF RecordsOK, Live
    <3> QED BY <2>3, <3>1, <3>2 DEF RecordsOK
  <2>9. ReferencesOK(v, cache', saved, owner, state)
    BY <1>2, <1>3, <2>3 DEF ReferencesOK, Live
  <2>10. win' = v
    BY <1>1, <1>5
  <2> QED BY <1>1, <2>7, <2>8, <2>9, <2>10, IdleIs, JPrime DEF JInv
<1> QED BY <1>4, <1>5

-----------------------------------------------------------------------------
(* A record is added, with what it is of.                                  *)
LEMMA RecordAdded ==
  ASSUME IInv, JInv, stack = <<>>, NEW c \in Clients, state[c] # "none", NEW r, Owner(r.id) = c,
         \A d \in Clients : d # c => table'[d] = table[d],
         Held(table'[c]) = Held(table[c]) \cup {r}, Sound(table'[c], c), table'[c].buckets # <<>>,
         \A d \in Clients : state'[d] = "none" <=> state[d] = "none",
         Of(r, win'),
         \A x \in Live : /\ x \in DOMAIN win' /\ (win[x].private => win'[x].private)
                         /\ win[x].others \subseteq win'[x].others,
         \A x \in DOMAIN win' :
           /\ win'[x].private => (x \in Live /\ win[x].private) \/ r = PrivateOf(x)
           /\ \A o \in win'[x].others : (x \in Live /\ o \in win[x].others) \/ r = OtherOf(o, x)
           /\ x \in Live \/ r = WindowOf(x)
  PROVE  TablesOK(table', state') /\ RecordsOK(table', win', stack, cache')
<1>1. TablesOK(table, state) /\ RecordsOK(table, win, stack, cache) /\ WindowsOK(win)
  BY DEF JInv
<1>2. TablesOK(table', state')
  BY <1>1 DEF TablesOK
<1>3. ASSUME NEW d \in Clients, NEW q \in Held(table'[d]) PROVE Of(q, win')
  <2>1. CASE d = c /\ q = r
    BY <2>1
  <2>2. CASE ~(d = c /\ q = r)
    <3>1. q \in Held(table[d])
      BY <2>2
    <3>2. Of(q, win)
      BY <1>1, <3>1 DEF RecordsOK
    <3> QED BY <3>2 DEF Of, Live
  <2> QED BY <2>1, <2>2
<1>4. \A id : Owner(id) \in Clients => HeldOf(table, id) \subseteq HeldOf(table', id)
  BY DEF HeldOf
<1>5. r \in HeldOf(table', r.id)
  BY DEF HeldOf
<1>6. \A x \in Live : /\ win[x].private => Owner(x) \in Clients
                      /\ \A o \in win[x].others : Owner(o) \in Clients
                      /\ x # Root => Owner(x) \in Clients
  BY <1>1 DEF WindowsOK, Entry, Live
<1>7. ASSUME NEW x \in DOMAIN win'
      PROVE  /\ win'[x].private => PrivateOf(x) \in HeldOf(table', x)
             /\ \A o \in win'[x].others : OtherOf(o, x) \in HeldOf(table', o)
             /\ x = Root \/ WindowOf(x) \in HeldOf(table', x)
  <2>1. r = PrivateOf(x) => PrivateOf(x) \in HeldOf(table', x)
    BY <1>5 DEF PrivateOf
  <2>2. \A o : r = OtherOf(o, x) => OtherOf(o, x) \in HeldOf(table', o)
    BY <1>5 DEF OtherOf
  <2>3. r = WindowOf(x) => WindowOf(x) \in HeldOf(table', x)
    BY <1>5 DEF WindowOf
  <2>4. x \in Live => /\ win[x].private => PrivateOf(x) \in HeldOf(table', x)
                      /\ \A o \in win[x].others : OtherOf(o, x) \in HeldOf(table', o)
    BY <1>1, <1>4, <1>6 DEF RecordsOK, Live
  <2>5. x \in Live => x = Root \/ WindowOf(x) \in HeldOf(table', x)
    BY <1>4, <1>6, IdleIs
  <2> QED BY <2>1, <2>2, <2>3, <2>4, <2>5
<1>8. RecordsOK(table', win', stack, cache')
  BY <1>3, <1>7 DEF RecordsOK
<1> QED BY <1>2, <1>8

(* An XID that LegalNewID lets pass has no record, and no window.          *)
LEMMA LegalIsFree ==
  ASSUME IInv, JInv, stack = <<>>, NEW c \in Clients, state[c] = "running",
         NEW id \in XID, Owner(id) = c, id[2] = "own", LegalNewID(id)
  PROVE  ~Named(table, id) /\ id \notin Live
<1>1. table[c] \in TableType /\ Fresh(table[c]) /\ Sound(table[c], c)
  BY DEF IInv, Tables, JInv, TablesOK
<1>2. ASSUME NEW q \in Held(table[c]), q.id = id PROVE FALSE
  <2>1. CASE table[c].expectID <= id[3]
    <3>1. q.id[3] < table[c].expectID
      BY <1>1, <1>2 DEF Fresh
    <3>2. table[c].expectID \in Nat /\ id[3] \in Nat
      BY <1>1, Constants DEF TableType, XID
    <3> QED BY <1>2, <2>1, <3>1, <3>2
  <2>2. CASE \A r \in Range(Bucket(id)) : r.id # id
    <3>1. Bucket(id) = BucketOf(table[c], id)
      BY DEF Bucket, BucketOf
    <3>2. \A r \in Held(table[c]) : r.id = id => r \in Range(BucketOf(table[c], id))
      BY <1>1, BucketIs
    <3> QED BY <1>2, <2>2, <3>1, <3>2
  <2> QED BY <2>1, <2>2 DEF LegalNewID
<1>3. ~Named(table, id)
  BY <1>2 DEF Named, HeldOf
<1>4. id # Root
  BY NoneIs
<1>5. id \notin Live
  <2> SUFFICES ASSUME id \in Live PROVE FALSE
    OBVIOUS
  <2>1. WindowOf(id) \in HeldOf(table, id)
    BY <1>4, IdleIs
  <2> QED BY <1>3, <2>1 DEF Named, WindowOf
<1> QED BY <1>3, <1>5

(* A window is added below another.                                        *)
LEMMA CreateWindowKeeps ==
  ASSUME IInv, JInv, NEW c \in Clients, NEW id \in XID, Owner(id) = c, id[2] = "own",
         NEW p \in Live, CreateWindow(c, id, p)
  PROVE  JInv'
<1> DEFINE r == WindowOf(id)
           new == [parent |-> p, private |-> FALSE, others |-> {}]
<1>1. /\ stack = <<>> /\ state[c] = "running" /\ LegalNewID(id)
      /\ win' = [w \in Live \cup {id} |-> IF w = id THEN new ELSE win[w]]
      /\ table' = AddResource(r) /\ cache' = Used(c, p)
      /\ UNCHANGED <<state, saved, owner, stack, safe, fatal>>
  BY DEF CreateWindow, Ready, WindowOf
<1>2. ~Named(table, id) /\ id \notin Live
  BY <1>1, LegalIsFree
<1>3. /\ WindowsOK(win) /\ TablesOK(table, state) /\ ReferencesOK(win, cache, saved, owner, state)
      /\ table \in Tables
  BY DEF JInv, IInv
<1>4. Sound(table[c], c) /\ table[c].buckets # <<>>
  BY <1>1, <1>3 DEF TablesOK
<1>5. r \in Record /\ r.id = id
  BY DEF Record, WindowOf
<1>6. \A q \in Held(table[c]) : q.id # id
  BY <1>2 DEF Named, HeldOf
<1>7. DOMAIN win' = Live \cup {id} /\ win'[id] = new /\ \A x \in Live : win'[x] = win[x]
  BY <1>1, <1>2
<1>8. new.parent = p /\ new.private = FALSE /\ new.others = {}
  OBVIOUS
<1> HIDE DEF r
<1>9. /\ \A d \in Clients \cup {Server} : d # c => table'[d] = table[d]
      /\ Held(table'[c]) = Held(table[c]) \cup {r} /\ Sound(table'[c], c) /\ table'[c].buckets # <<>>
  <2>1. Owner(r.id) = c /\ r \notin Held(table[c])
    BY <1>5, <1>6
  <2>2. \A q \in Held(table[c]) : q.id = r.id => ~(r.type = "window" /\ q.type = "private")
    BY <1>5, <1>6
  <2> DEFINE u == AddResource(r)
  <2>3. /\ u \in Tables /\ \A d \in Clients \cup {Server} : d # c => u[d] = table[d]
        /\ Held(u[c]) = Held(table[c]) \cup {r} /\ Sound(u[c], c) /\ u[c].buckets # <<>>
    BY <1>3, <1>4, <1>5, <2>1, <2>2, AddAdds, Zenon
  <2> HIDE DEF u
  <2>4. table' = u
    BY <1>1 DEF u
  <2> QED BY <2>3, <2>4
<1>10. id # Root
  BY NoneIs
<1> HIDE DEF new
<1>11. TablesOK(table', state') /\ RecordsOK(table', win', stack, cache')
  <2>1. Of(r, win')
    BY <1>7, <1>10 DEF r, Of, WindowOf
  <2>2. Owner(r.id) = c /\ state[c] # "none" /\ \A d \in Clients : d # c => table'[d] = table[d]
    BY <1>1, <1>5, <1>9
  <2>3. \A x \in Live : /\ x \in DOMAIN win' /\ (win[x].private => win'[x].private)
                        /\ win[x].others \subseteq win'[x].others
    BY <1>7
  <2>4. \A x \in DOMAIN win' :
           /\ win'[x].private => (x \in Live /\ win[x].private) \/ r = PrivateOf(x)
           /\ \A o \in win'[x].others : (x \in Live /\ o \in win[x].others) \/ r = OtherOf(o, x)
           /\ x \in Live \/ r = WindowOf(x)
    BY <1>7, <1>8 DEF r
  <2> QED BY <1>1, <1>9, <2>1, <2>2, <2>3, <2>4, RecordAdded
<1>12. ASSUME NEW x \in Live \cup {id}
       PROVE  \E S \in SUBSET (Live \cup {id}) :
                Closed(win', S) /\ win'[x].parent \in S \cup {None} /\ x \notin S
  <2>1. ASSUME NEW S \in SUBSET Live, Closed(win, S) PROVE Closed(win', S)
    BY <1>7, <2>1 DEF Closed
  <2>2. CASE x \in Live
    <3>1. PICK S \in SUBSET Live : Closed(win, S) /\ win[x].parent \in S \cup {None} /\ x \notin S
      BY <1>3, <2>2 DEF WindowsOK, Live
    <3> QED BY <1>7, <2>1, <2>2, <3>1
  <2>3. CASE x = id
    <3> DEFINE S == Above(p) \cup {p}
    <3>1. /\ Above(p) \subseteq Live /\ Closed(win, Above(p)) /\ win[p].parent \in Above(p) \cup {None}
      BY <1>3, AboveIs
    <3>2. S \in SUBSET Live /\ Closed(win, S)
      BY <3>1 DEF Closed
    <3>3. p \in S
      OBVIOUS
    <3> HIDE DEF S
    <3>4. Closed(win', S)
      BY <2>1, <3>2
    <3>5. x \notin S /\ win'[x].parent = p
      BY <1>2, <1>7, <1>8, <2>3, <3>2
    <3> QED BY <3>2, <3>3, <3>4, <3>5
  <2> QED BY <2>2, <2>3
<1>13. WindowsOK(win')
  <2>1. Root \in Live /\ IsFiniteSet(Live)
    BY <1>3 DEF WindowsOK, Live
  <2>2. IsFiniteSet(Live \cup {id})
    BY <2>1, FS_AddElement
  <2>3. \A x \in Live \cup {id} :
          /\ x \in XID /\ x[2] = "own" /\ (x # Root => Owner(x) \in Clients)
          /\ x = Root <=> win'[x].parent = None
          /\ x = Root => ~win'[x].private
    <3>1. p # None
      BY <1>3, NoneIs DEF WindowsOK, Live
    <3>2. \A x \in Live : /\ x \in XID /\ x[2] = "own" /\ (x # Root => Owner(x) \in Clients)
                          /\ x = Root <=> win[x].parent = None
                          /\ x = Root => ~win[x].private
      BY <1>3 DEF WindowsOK, Live
    <3> QED BY <1>7, <1>8, <1>10, <3>1, <3>2
  <2>4. ASSUME NEW x \in Live \cup {id}
        PROVE  win'[x] \in [parent : (Live \cup {id}) \cup {None}, private : BOOLEAN, others : SUBSET Entry]
    <3>1. CASE x \in Live
      <4>1. win[x] \in [parent : Live \cup {None}, private : BOOLEAN, others : SUBSET Entry]
        BY <1>3, <3>1 DEF WindowsOK, Live
      <4> QED BY <1>7, <3>1, <4>1
    <3>2. CASE x = id
      <4>1. new \in [parent : (Live \cup {id}) \cup {None}, private : BOOLEAN, others : SUBSET Entry]
        BY DEF new
      <4> QED BY <1>7, <3>2, <4>1
    <3> QED BY <3>1, <3>2
  <2> QED BY <1>7, <1>12, <2>1, <2>2, <2>3, <2>4 DEF WindowsOK
<1>14. ReferencesOK(win', cache', saved', owner', state')
  <2>1. cache' \in [Clients -> Live]
    BY <1>1, UsedIs
  <2>2. /\ saved \in [Clients -> SUBSET Live] /\ \A d \in Clients : \A v \in saved[d] : Owner(v) # d
        /\ owner \in [win : Live \cup {None}, client : Clients \cup {None}]
        /\ owner.client # None => state[owner.client] \in {"running", "exception"}
    BY <1>3 DEF ReferencesOK, Live
  <2>3. /\ cache' \in [Clients -> Live \cup {id}] /\ saved \in [Clients -> SUBSET (Live \cup {id})]
        /\ owner \in [win : (Live \cup {id}) \cup {None}, client : Clients \cup {None}]
    BY <2>1, <2>2
  <2> QED BY <1>1, <1>7, <2>2, <2>3 DEF ReferencesOK
<1> QED BY <1>1, <1>11, <1>13, <1>14, IdleIs, JPrime DEF JInv

(* Direct rendering adds its private under the XID of the window, and the  *)
(* window's record is there before.                                        *)
LEMMA CreateDrawableKeeps ==
  ASSUME IInv, JInv, NEW c \in Clients, NEW w \in Live, CreateDrawable(c, w)
  PROVE  JInv'
<1> DEFINE r == PrivateOf(w)
           d == Owner(w)
<1>1. /\ stack = <<>> /\ w # Root /\ ~win[w].private
      /\ win' = [win EXCEPT ![w].private = TRUE]
      /\ table' = AddResource(r)
      /\ UNCHANGED <<state, cache, saved, owner, stack, safe, fatal>>
  BY DEF CreateDrawable, Sends, Ready, PrivateOf
<1>2. /\ WindowsOK(win) /\ TablesOK(table, state) /\ ReferencesOK(win, cache, saved, owner, state)
      /\ table \in Tables /\ RecordsOK(table, win, stack, cache)
  BY DEF JInv, IInv
<1>3. w \in XID /\ d \in Clients
  BY <1>1, <1>2 DEF WindowsOK, Live
<1>4. r \in Record /\ r.id = w /\ r.type = "private" /\ r.win = w
  BY <1>3 DEF Record, PrivateOf
<1>5. WindowOf(w) \in Held(table[d])
  BY <1>1, IdleIs DEF HeldOf
<1>6. r \notin Held(table[d])
  <2> SUFFICES ASSUME r \in Held(table[d]) PROVE FALSE
    OBVIOUS
  <2>1. Of(r, win)
    BY <1>2, <1>3 DEF RecordsOK
  <2> QED BY <1>1, <1>4, <2>1 DEF Of, WindowOf, OtherOf
<1>7. state[d] # "none" /\ Sound(table[d], d) /\ table[d].buckets # <<>>
  BY <1>2, <1>3, <1>5 DEF TablesOK
<1> HIDE DEF r, d
<1>8. /\ \A e \in Clients \cup {Server} : e # d => table'[e] = table[e]
      /\ Held(table'[d]) = Held(table[d]) \cup {r} /\ Sound(table'[d], d) /\ table'[d].buckets # <<>>
  <2>1. Owner(r.id) = d
    BY <1>4 DEF d
  <2>2. \A q \in Held(table[d]) : q.id = r.id => ~(r.type = "window" /\ q.type = "private")
    BY <1>4
  <2> DEFINE u == AddResource(r)
  <2>3. /\ u \in Tables /\ \A e \in Clients \cup {Server} : e # d => u[e] = table[e]
        /\ Held(u[d]) = Held(table[d]) \cup {r} /\ Sound(u[d], d) /\ u[d].buckets # <<>>
    BY <1>2, <1>3, <1>4, <1>6, <1>7, <2>1, <2>2, AddAdds, Zenon
  <2> HIDE DEF u
  <2>4. table' = u
    BY <1>1 DEF u
  <2> QED BY <2>3, <2>4
<1>9. \A x \in Live : win[x] \in [parent : Live \cup {None}, private : BOOLEAN, others : SUBSET Entry]
  BY <1>2 DEF WindowsOK, Live
<1>10. /\ DOMAIN win' = Live
       /\ \A x \in Live : /\ win'[x].parent = win[x].parent /\ win'[x].others = win[x].others
                          /\ win'[x].private <=> win[x].private \/ x = w
                          /\ win'[x] \in [parent : Live \cup {None}, private : BOOLEAN, others : SUBSET Entry]
  <2>1. DOMAIN win' = Live
    BY <1>1 DEF Live
  <2>2. ASSUME NEW x \in Live
        PROVE  /\ win'[x].parent = win[x].parent /\ win'[x].others = win[x].others
               /\ win'[x].private <=> win[x].private \/ x = w
               /\ win'[x] \in [parent : Live \cup {None}, private : BOOLEAN, others : SUBSET Entry]
    BY <1>1, <1>9 DEF Live
  <2> QED BY <2>1, <2>2
<1>11. WindowsOK(win')
  <2>1. SameTree(win, win')
    BY <1>10 DEF SameTree, Live
  <2>2. \A x \in DOMAIN win :
           /\ win'[x] \in [parent : DOMAIN win \cup {None}, private : BOOLEAN, others : SUBSET Entry]
           /\ x = Root => ~win'[x].private
    BY <1>1, <1>2, <1>10 DEF WindowsOK, Live
  <2> QED BY <1>2, <2>1, <2>2, TreeKept
<1>12. TablesOK(table', state') /\ RecordsOK(table', win', stack, cache')
  <2>1. Of(r, win') /\ Owner(r.id) = d
    BY <1>4, <1>10 DEF r, d, Of, PrivateOf
  <2>2. \A e \in Clients : e # d => table'[e] = table[e]
    BY <1>8
  <2>3. \A x \in Live : /\ x \in DOMAIN win' /\ (win[x].private => win'[x].private)
                        /\ win[x].others \subseteq win'[x].others
    BY <1>10
  <2>4. \A x \in DOMAIN win' :
           /\ win'[x].private => (x \in Live /\ win[x].private) \/ r = PrivateOf(x)
           /\ \A o \in win'[x].others : (x \in Live /\ o \in win[x].others) \/ r = OtherOf(o, x)
           /\ x \in Live \/ r = WindowOf(x)
    BY <1>10 DEF r
  <2>5. \A e \in Clients : state'[e] = "none" <=> state[e] = "none"
    BY <1>1
  <2>6. d \in Clients
    BY <1>3
  <2> QED BY <1>1, <1>7, <1>8, <2>1, <2>2, <2>3, <2>4, <2>5, <2>6, RecordAdded
<1>13. ReferencesOK(win', cache', saved', owner', state')
  BY <1>1, <1>2, <1>10 DEF ReferencesOK, Live
<1> QED BY <1>1, <1>11, <1>12, <1>13, IdleIs, JPrime DEF JInv

(* ... and takes it away again.                                            *)
LEMMA DestroyDrawableKeeps ==
  ASSUME IInv, JInv, NEW c \in Clients, NEW w \in Live, DestroyDrawable(c, w)
  PROVE  JInv'
<1> DEFINE r == PrivateOf(w)
           d == Owner(w)
<1>1. /\ stack = <<>> /\ w # Root /\ win[w].private
      /\ win' = [win EXCEPT ![w].private = FALSE]
      /\ table' = Unlink(r, 0)
      /\ cache' = IF cache[d] = w THEN [cache EXCEPT ![d] = Root] ELSE cache
      /\ UNCHANGED <<state, saved, owner, stack, safe, fatal>>
  <2>1. [id |-> w, type |-> "private", win |-> w] = r /\ r.win = w
    BY DEF PrivateOf
  <2> HIDE DEF r
  <2>2. DRIDrawablePrivDelete(r)
    BY <2>1 DEF DestroyDrawable
  <2>3. win' = [win EXCEPT ![w].private = FALSE] /\ UNCHANGED fatal
    BY <2>1, <2>2 DEF DRIDrawablePrivDelete
  <2> QED BY <2>1, <2>3 DEF DestroyDrawable, Sends, Ready
<1>2. /\ WindowsOK(win) /\ TablesOK(table, state) /\ ReferencesOK(win, cache, saved, owner, state)
      /\ RecordsOK(table, win, stack, cache)
  BY DEF JInv
<1>3. w \in XID /\ d \in Clients
  BY <1>1, <1>2 DEF WindowsOK, Live
<1>4. r.type = "private" /\ r.win = w
  BY DEF PrivateOf
<1>5. r \in Held(table[d])
  BY <1>1, <1>2 DEF RecordsOK, HeldOf, Live
<1>6. win' = Cleared(win, r)
  BY <1>1, <1>4 DEF Cleared
<1> HIDE DEF r, d
<1>7. /\ TablesOK(table', state) /\ \A e \in Clients : e # d => table'[e] = table[e]
      /\ Held(table'[d]) = Held(table[d]) \ {r}
  <2> DEFINE u == Unlink(r, 0)
  <2>1. 0 \in Int
    OBVIOUS
  <2>2. /\ TablesOK(u, state) /\ \A e \in Clients : e # d => u[e] = table[e]
        /\ Held(u[d]) = Held(table[d]) \ {r}
    BY <1>3, <1>5, <2>1, Unlinked
  <2> HIDE DEF u
  <2>3. table' = u
    BY <1>1 DEF u
  <2> QED BY <2>2, <2>3
<1>8. \A e \in Clients : cache'[e] = cache[e] \/ cache'[e] = Root
  BY <1>1, <1>2 DEF ReferencesOK
<1>9. RecordsOK(table', win', stack, cache')
  <2>1. r.type # "window"
    BY <1>4
  <2> QED BY <1>3, <1>5, <1>6, <1>7, <1>8, <2>1, RecordGone
<1>10. WindowsOK(win') /\ DOMAIN win' = DOMAIN win
  BY <1>2, <1>4, <1>6, ClearedIs DEF SameTree, Live
<1>11. ReferencesOK(win', cache', saved', owner', state')
  <2>1. cache' \in [Clients -> DOMAIN win]
    BY <1>1, <1>2 DEF ReferencesOK, WindowsOK
  <2> QED BY <1>1, <1>2, <1>10, <2>1 DEF ReferencesOK
<1> QED BY <1>1, <1>7, <1>9, <1>10, <1>11, IdleIs, JPrime DEF JInv

(* A client that has no entry in an event list gets one.                   *)
LEMMA SelectEventsKeeps ==
  ASSUME IInv, JInv, NEW c \in Clients, NEW w \in Live, SelectEvents(c, w)
  PROVE  JInv'
<1> DEFINE t     == table[c]
           range == IF t.fakeID >= t.endFakeID THEN GetXIDRange(c, "fake")
                    ELSE t.fakeID .. t.endFakeID - 1
           over  == range = {}
           first == CHOOSE n \in range : \A m \in range : n <= m
           id    == IF over THEN <<c, "over", 0>> ELSE <<c, "fake", first>>
           r     == OtherOf(id, w)
           u     == AddResource(r)
           left  == IF over THEN 1 ELSE first + 1
           end   == IF over THEN Ids ELSE first + Cardinality(range)
<1>1. /\ stack = <<>> /\ state[c] = "running" /\ EntryOf(c, w) = {}
      /\ table' = [u EXCEPT ![c].fakeID = left, ![c].endFakeID = end]
      /\ state' = IF over THEN [state EXCEPT ![c] = "exception"] ELSE state
      /\ win' = [win EXCEPT ![w].others = @ \cup {id}]
      /\ cache' = Used(c, w)
      /\ UNCHANGED <<saved, owner, stack, safe, fatal>>
  BY DEF SelectEvents, Sends, Ready, OtherOf
<1>2. /\ WindowsOK(win) /\ TablesOK(table, state) /\ ReferencesOK(win, cache, saved, owner, state)
      /\ table \in Tables /\ RecordsOK(table, win, stack, cache) /\ t \in TableType
  BY DEF JInv, IInv, Tables
<1>3. \E lo \in Nat, hi \in -1 .. Ids - 1 : range = lo .. hi
  <2>1. CASE t.fakeID >= t.endFakeID
    <3>1. t.buckets \in Seq(Seq(Record))
      BY <1>2 DEF TableType
    <3>2. \E lo \in 0 .. Ids, hi \in -1 .. Ids - 1 : GetXIDRange(c, "fake") = lo .. hi
      BY <3>1, RangeIs
    <3> QED BY <2>1, <3>2, Constants
  <2>2. CASE ~(t.fakeID >= t.endFakeID)
    <3>1. t.fakeID \in Nat /\ t.endFakeID - 1 \in -1 .. Ids - 1
      BY <1>2, Constants DEF TableType
    <3> QED BY <2>2, <3>1
  <2> QED BY <2>1, <2>2
<1> HIDE DEF t, range
<1>4. PICK lo \in Nat, hi \in -1 .. Ids - 1 : range = lo .. hi
  BY <1>3
<1>5. ~over => first \in 0 .. Ids - 1
  <2>1. ~over => lo <= hi /\ lo \in lo .. hi /\ \A m \in lo .. hi : lo <= m
    BY <1>4
  <2>2. ~over => first \in lo .. hi
    BY <1>4, <2>1
  <2> HIDE DEF first, over
  <2> QED BY <1>4, <2>2, Constants
<1> HIDE DEF first, over
<1>6. id \in Entry /\ Owner(id) = c
  <2>1. CASE over
    <3>1. id = <<c, "over", 0>>
      BY <2>1
    <3> HIDE DEF id
    <3> QED BY <3>1, Constants DEF XID, Owner, Entry
  <2>2. CASE ~over
    <3>1. id = <<c, "fake", first>> /\ first \in 0 .. Ids - 1
      BY <1>5, <2>2
    <3> HIDE DEF id
    <3> QED BY <3>1 DEF XID, Owner, Entry
  <2> QED BY <2>1, <2>2
<1>7. w \in XID
  BY <1>2 DEF WindowsOK, Live
<1>8. r \in Record /\ r.id = id /\ r.type = "other" /\ r.win = w
  BY <1>6, <1>7 DEF Record, OtherOf, Entry
<1> HIDE DEF id, left, end
<1>9. id \notin win[w].others
  BY <1>1, <1>6 DEF EntryOf
<1>10. r \notin Held(t)
  <2> SUFFICES ASSUME r \in Held(table[c]) PROVE FALSE
    BY DEF t
  <2>1. Of(r, win)
    BY <1>2 DEF RecordsOK
  <2> QED BY <1>8, <1>9, <2>1 DEF Of, WindowOf, PrivateOf
<1>11. state[c] # "none" /\ Sound(t, c) /\ t.buckets # <<>>
  BY <1>1, <1>2 DEF TablesOK, t
<1> HIDE DEF r
<1>12. /\ u \in Tables /\ \A d \in Clients \cup {Server} : d # c => u[d] = table[d]
       /\ Held(u[c]) = Held(t) \cup {r} /\ Sound(u[c], c) /\ u[c].buckets # <<>>
  <2>1. Owner(r.id) = c
    BY <1>6, <1>8
  <2>2. \A q \in Held(table[c]) : q.id = r.id => ~(r.type = "window" /\ q.type = "private")
    BY <1>8
  <2>3. Sound(table[c], c) /\ table[c].buckets # <<>> /\ r \notin Held(table[c])
    BY <1>10, <1>11 DEF t
  <2>4. /\ u \in Tables /\ \A d \in Clients \cup {Server} : d # c => u[d] = table[d]
        /\ Held(u[c]) = Held(table[c]) \cup {r} /\ Sound(u[c], c) /\ u[c].buckets # <<>>
    BY <1>2, <1>8, <2>1, <2>2, <2>3, AddAdds, Zenon
  <2> QED BY <2>4 DEF t
<1> HIDE DEF u
<1> DEFINE v == [u[c] EXCEPT !.fakeID = left, !.endFakeID = end]
<1>13. v.buckets = u[c].buckets
  <2>1. u[c] \in TableType
    BY <1>12 DEF Tables
  <2> QED BY <2>1 DEF TableType
<1>14. table' = [u EXCEPT ![c] = v]
  BY <1>1, <1>12 DEF Tables
<1> HIDE DEF v
<1>15. table'[c] = v /\ \A d \in Clients : d # c => table'[d] = table[d]
  BY <1>12, <1>14 DEF Tables
<1>16. Held(table'[c]) = Held(table[c]) \cup {r} /\ Sound(table'[c], c) /\ table'[c].buckets # <<>>
  <2>1. Held(table'[c]) = Held(u[c]) /\ (Sound(table'[c], c) <=> Sound(u[c], c))
    BY <1>13, <1>15 DEF Held, Sound
  <2> QED BY <1>12, <1>13, <1>15, <2>1 DEF t
<1>17. \A x \in Live : win[x] \in [parent : Live \cup {None}, private : BOOLEAN, others : SUBSET Entry]
  BY <1>2 DEF WindowsOK, Live
<1>18. /\ DOMAIN win' = Live
       /\ \A x \in Live : /\ win'[x].parent = win[x].parent /\ win'[x].private = win[x].private
                          /\ win'[x].others = IF x = w THEN win[x].others \cup {id} ELSE win[x].others
                          /\ win'[x] \in [parent : Live \cup {None}, private : BOOLEAN, others : SUBSET Entry]
  <2>1. DOMAIN win' = Live
    BY <1>1 DEF Live
  <2>2. ASSUME NEW x \in Live
        PROVE  /\ win'[x].parent = win[x].parent /\ win'[x].private = win[x].private
               /\ win'[x].others = IF x = w THEN win[x].others \cup {id} ELSE win[x].others
               /\ win'[x] \in [parent : Live \cup {None}, private : BOOLEAN, others : SUBSET Entry]
    BY <1>1, <1>6, <1>17 DEF Live
  <2> QED BY <2>1, <2>2
<1>19. WindowsOK(win')
  <2>1. SameTree(win, win')
    BY <1>18 DEF SameTree, Live
  <2>2. \A x \in DOMAIN win :
           /\ win'[x] \in [parent : DOMAIN win \cup {None}, private : BOOLEAN, others : SUBSET Entry]
           /\ x = Root => ~win'[x].private
    BY <1>2, <1>18 DEF WindowsOK, Live
  <2> QED BY <1>2, <2>1, <2>2, TreeKept
<1>20. /\ \A e \in Clients : state'[e] = "none" <=> state[e] = "none"
       /\ \A e \in Clients : state[e] \in {"running", "exception"} => state'[e] \in {"running", "exception"}
  BY <1>1 DEF IInv
<1>21. TablesOK(table', state') /\ RecordsOK(table', win', stack, cache')
  <2>1. Of(r, win') /\ Owner(r.id) = c
    BY <1>6, <1>8, <1>18 DEF r, Of
  <2>2. \A e \in Clients : e # c => table'[e] = table[e]
    BY <1>15
  <2>3. \A x \in Live : /\ x \in DOMAIN win' /\ (win[x].private => win'[x].private)
                        /\ win[x].others \subseteq win'[x].others
    BY <1>18
  <2>4. \A x \in DOMAIN win' :
           /\ win'[x].private => (x \in Live /\ win[x].private) \/ r = PrivateOf(x)
           /\ \A o \in win'[x].others : (x \in Live /\ o \in win[x].others) \/ r = OtherOf(o, x)
           /\ x \in Live \/ r = WindowOf(x)
    BY <1>18 DEF r
  <2> QED BY <1>1, <1>11, <1>16, <1>20, <2>1, <2>2, <2>3, <2>4, RecordAdded
<1>22. ReferencesOK(win', cache', saved', owner', state')
  <2>1. cache' \in [Clients -> Live]
    BY <1>1, UsedIs
  <2>2. owner.client # None => owner.client \in Clients /\ state'[owner.client] \in {"running", "exception"}
    BY <1>2, <1>20 DEF ReferencesOK
  <2> QED BY <1>1, <1>2, <1>18, <2>1, <2>2 DEF ReferencesOK, Live
<1>23. StackOK(stack', table', win', saved', owner', state') /\ SafeOK(win', stack', safe')
  <2>1. stack' = <<>> /\ safe' = {}
    BY <1>1, IdleIs
  <2> QED BY <1>1, <2>1, IdleIs
<1>24. fatal' = FALSE
  BY <1>1 DEF JInv
<1>25. RecordsOK(table', win', stack', cache')
  BY <1>1, <1>21
<1> QED BY <1>19, <1>21, <1>22, <1>23, <1>24, <1>25, JPrime

-----------------------------------------------------------------------------
(* The invariant holds, and has the others.                                *)

(* At the start there is the root, with no record of a client.             *)
LEMMA InitJInv == Init => JInv
<1> SUFFICES ASSUME Init PROVE JInv
  OBVIOUS
<1>1. /\ state = [c \in Clients |-> "none"] /\ cache = [c \in Clients |-> Root]
      /\ table = [c \in Clients \cup {Server} |-> IF c = Server THEN ServerTable ELSE Empty]
      /\ win = [w \in {Root} |-> [parent |-> None, private |-> FALSE, others |-> {}]]
      /\ saved = [c \in Clients |-> {}] /\ owner = NoOwner /\ stack = <<>> /\ safe = {} /\ fatal = FALSE
  BY DEF Init
<1>2. \A c \in Clients : table[c] = Empty /\ state[c] = "none"
  BY <1>1, ResourcesAssumption DEF ResourcesAssumption
<1>3. Empty.buckets = <<>> /\ Held(Empty) = {} /\ \A c : Sound(Empty, c)
  <2>1. Empty.buckets = <<>>
    BY DEF Empty
  <2> QED BY <2>1 DEF Held, Sound
<1>4. TablesOK(table, state)
  BY <1>2, <1>3 DEF TablesOK
<1>5. /\ DOMAIN win = {Root} /\ win[Root].parent = None /\ win[Root].private = FALSE
      /\ win[Root].others = {}
      /\ win[Root] \in [parent : DOMAIN win \cup {None}, private : BOOLEAN, others : SUBSET Entry]
  BY <1>1
<1>6. RecordsOK(table, win, stack, cache)
  BY <1>2, <1>3, <1>5 DEF RecordsOK
<1>7. WindowsOK(win)
  <2>1. Root \in XID /\ Root[2] = "own"
    BY NoneIs DEF Root
  <2>2. IsFiniteSet({Root})
    BY FS_Singleton
  <2>3. {} \in SUBSET (DOMAIN win) /\ Closed(win, {}) /\ win[Root].parent \in {} \cup {None} /\ Root \notin {}
    BY <1>5 DEF Closed
  <2>4. \E S \in SUBSET (DOMAIN win) : Closed(win, S) /\ win[Root].parent \in S \cup {None} /\ Root \notin S
    BY <2>3
  <2> QED BY <1>5, <2>1, <2>2, <2>4 DEF WindowsOK
<1>8. ReferencesOK(win, cache, saved, owner, state)
  BY <1>1, <1>5 DEF ReferencesOK, NoOwner
<1>9. StackOK(stack, table, win, saved, owner, state) /\ SafeOK(win, stack, safe)
  BY <1>1 DEF StackOK, SafeOK
<1> QED BY <1>1, <1>4, <1>6, <1>7, <1>8, <1>9 DEF JInv

(* Every step keeps the invariant.                                         *)
LEMMA NextJInv == IInv /\ JInv /\ [Next]_vars => JInv'
<1> SUFFICES ASSUME IInv, JInv, [Next]_vars PROVE JInv'
  OBVIOUS
<1>1. CASE FreeNext
  BY <1>1, FreeNextKeeps
<1>2. CASE FreeEnd
  BY <1>2, FreeEndKeeps
<1>3. CASE CrushTree
  BY <1>3, CrushTreeKeeps
<1>4. CASE DestroySubwindows
  BY <1>4, DestroySubwindowsKeeps
<1>5. CASE ForgetWindow
  BY <1>5, ForgetWindowKeeps
<1>6. CASE FreeWindow
  BY <1>6, FreeWindowKeeps
<1>7. CASE FreeClientNext
  BY <1>7, FreeClientNextKeeps
<1>8. CASE FreeClientEnd
  BY <1>8, FreeClientEndKeeps
<1>9. ASSUME NEW c \in Clients, Connect(c) PROVE JInv'
  BY <1>9, ConnectKeeps
<1>10. ASSUME NEW c \in Clients, CloseDownClient(c) \/ CloseDownRetainedResources(c) PROVE JInv'
  BY <1>10, CloseDownKeeps
<1>11. ASSUME NEW c \in Clients, Requests(c) PROVE JInv'
  <2>1. ASSUME NEW w \in Live,
               DestroyWindow(c, w) \/ ProcDestroySubwindows(c, w) \/ DeselectEvents(c, w)
        PROVE  JInv'
    BY <2>1, CallsKeep
  <2>2. ASSUME NEW w \in Live, SelectEvents(c, w) PROVE JInv'
    BY <2>2, SelectEventsKeeps
  <2>3. ASSUME NEW w \in Live, ChangeSaveSet(c, w) PROVE JInv'
    BY <2>3, ChangeSaveSetKeeps
  <2>4. ASSUME NEW w \in Live, CreateDrawable(c, w) PROVE JInv'
    BY <2>4, CreateDrawableKeeps
  <2>5. ASSUME NEW w \in Live, DestroyDrawable(c, w) PROVE JInv'
    BY <2>5, DestroyDrawableKeeps
  <2>6. ASSUME NEW w \in Live \cup {None}, SetSelectionOwner(c, w) PROVE JInv'
    BY <2>6, SetSelectionOwnerKeeps
  <2>7. ASSUME NEW w \in Live, NEW p \in Live, ReparentWindow(c, w, p) PROVE JInv'
    BY <2>7, ReparentWindowKeeps
  <2>8. ASSUME NEW n \in setup.own[c], NEW p \in Live, CreateWindow(c, <<c, "own", n>>, p) PROVE JInv'
    <3> DEFINE id == <<c, "own", n>>
    <3>1. n \in 0 .. Ids - 1
      BY ResourcesAssumption DEF IInv, ResourcesAssumption, Setup
    <3>2. id \in XID /\ Owner(id) = c /\ id[2] = "own"
      BY <3>1 DEF XID, Owner
    <3> HIDE DEF id
    <3>3. CreateWindow(c, id, p)
      BY <2>8 DEF id
    <3> QED BY <3>2, <3>3, CreateWindowKeeps
  <2> QED BY <1>11, <2>1, <2>2, <2>3, <2>4, <2>5, <2>6, <2>7, <2>8 DEF Requests
<1>12. CASE UNCHANGED vars
  BY <1>12, JPrime DEF JInv, vars
<1> QED BY <1>1, <1>2, <1>3, <1>4, <1>5, <1>6, <1>7, <1>8, <1>9, <1>10, <1>11, <1>12 DEF Next

(* The invariants hold in every state.                                     *)
LEMMA BothAlways == Spec => [](IInv /\ JInv)
<1>1. Init => IInv /\ JInv
  BY InitIInv, InitJInv
<1>2. IInv /\ JInv /\ [Next]_vars => (IInv /\ JInv)'
  BY NextIInv, NextJInv
<1> QED BY <1>1, <1>2, PTL DEF Spec

(* A walk of a bucket never goes on from a record that was freed, whatever *)
(* the delete functions that it calls free, and nothing calls FatalError:  *)
(* for any number of clients and windows, however a table has grown.       *)
THEOREM WalksAreSafe == Spec => []WalksGoOn
<1>1. IInv /\ JInv => WalksGoOn
  <2> SUFFICES ASSUME IInv, JInv PROVE WalksGoOn
    OBVIOUS
  <2>1. ~fatal
    BY DEF JInv
  <2>2. ASSUME Calls("free"), PrevOf(Top) # None PROVE PrevOf(Top) \in Range(Bucket(Top.id))
    <3> DEFINE b == BucketOf(table[Owner(Top.id)], Top.id)
               o == Onward(Top)
    <3>1. IF o = 1 THEN PrevOf(Top) = None ELSE PrevOf(Top) = b[o - 1] /\ o - 1 \in DOMAIN b
      BY <2>2, WalkIs
    <3>2. PrevOf(Top) \in Range(b)
      BY <2>2, <3>1 DEF Range
    <3>3. Bucket(Top.id) = b
      BY DEF Bucket, BucketOf
    <3> QED BY <3>2, <3>3
  <2> QED BY <2>1, <2>2 DEF WalksGoOn
<1> QED BY <1>1, BothAlways, PTL

(* The records of a client, by either name.                                *)
LEMMA RecordsAre == \A c \in Clients : Records(c) = Held(table[c])
BY DEF Records, Held

(* What is freed is not referred to, in the middle of closing a client     *)
(* down too: not by what a client used last, a save set, a selection, the  *)
(* tree or a record.                                                       *)
THEOREM NothingIsLeftDangling == Spec => []NothingDangles
<1>1. JInv => NothingDangles
  <2> SUFFICES ASSUME JInv PROVE NothingDangles
    OBVIOUS
  <2>1. /\ RecordsOK(table, win, stack, cache) /\ WindowsOK(win)
        /\ ReferencesOK(win, cache, saved, owner, state)
    BY DEF JInv
  <2>2. \A c \in Clients : cache[c] \in Live /\ saved[c] \subseteq Live
    BY <2>1 DEF ReferencesOK, Live
  <2>3. owner.win \in Live \cup {None}
    BY <2>1 DEF ReferencesOK, Live
  <2>4. \A w \in Live : win[w].parent \in Live \cup {None}
    BY <2>1 DEF WindowsOK, Live
  <2>5. \A c \in Clients : \A r \in Records(c) : r.win \in Live
    BY <2>1, RecordsAre DEF RecordsOK, Of, Live
  <2>6. owner.client # None => state[owner.client] \in {"running", "exception"}
    BY <2>1 DEF ReferencesOK
  <2> QED BY <2>2, <2>3, <2>4, <2>5, <2>6 DEF NothingDangles
<1> QED BY <1>1, BothAlways, PTL

(* Between requests the records of all tables are those that the windows   *)
(* want, each once in its bucket: no window and no entry is without its    *)
(* record, and none has a record too many.                                 *)
THEOREM TablesAndWindowsAgree == Spec => []TablesAgree
<1>1. IInv /\ JInv => TablesAgree
  <2> SUFFICES ASSUME IInv, JInv, stack = <<>> PROVE TablesAgree
    BY DEF TablesAgree
  <2> DEFINE all   == UNION {Records(c) : c \in Clients}
             wants == {[id |-> w, type |-> "window", win |-> w] : w \in Live \ {Root}}
               \cup {[id |-> w, type |-> "private", win |-> w] : w \in {v \in Live : win[v].private}}
               \cup UNION {{[id |-> o, type |-> "other", win |-> w] : o \in win[w].others} : w \in Live}
  <2>1. TablesOK(table, state) /\ RecordsOK(table, win, stack, cache) /\ WindowsOK(win) /\ table \in Tables
    BY DEF JInv, IInv
  <2>2. wants = {WindowOf(w) : w \in Live \ {Root}} \cup {PrivateOf(w) : w \in {v \in Live : win[v].private}}
                  \cup UNION {{OtherOf(o, w) : o \in win[w].others} : w \in Live}
    BY DEF WindowOf, PrivateOf, OtherOf
  <2>3. \A q : q \in all <=> \E c \in Clients : q \in Held(table[c])
    BY RecordsAre
  <2> HIDE DEF all, wants
  <2>4. ASSUME NEW q \in all PROVE q \in wants
    <3>1. Of(q, win)
      BY <2>1, <2>3 DEF RecordsOK
    <3> QED BY <2>2, <3>1 DEF Of, Live
  <2>5. ASSUME NEW q \in wants PROVE q \in all
    <3>1. CASE \E w \in Live \ {Root} : q = WindowOf(w)
      <4>1. PICK w \in Live \ {Root} : q = WindowOf(w)
        BY <3>1
      <4>2. Owner(w) \in Clients /\ q \in HeldOf(table, w)
        BY <2>1, <4>1, IdleIs DEF WindowsOK, Live
      <4> QED BY <2>3, <4>2 DEF HeldOf
    <3>2. CASE \E w \in Live : win[w].private /\ q = PrivateOf(w)
      <4>1. PICK w \in Live : win[w].private /\ q = PrivateOf(w)
        BY <3>2
      <4>2. Owner(w) \in Clients /\ q \in HeldOf(table, w)
        BY <2>1, <4>1 DEF WindowsOK, RecordsOK, Live
      <4> QED BY <2>3, <4>2 DEF HeldOf
    <3>3. CASE \E w \in Live : \E o \in win[w].others : q = OtherOf(o, w)
      <4>1. PICK w \in Live : \E o \in win[w].others : q = OtherOf(o, w)
        BY <3>3
      <4>2. PICK o \in win[w].others : q = OtherOf(o, w)
        BY <4>1
      <4>3. Owner(o) \in Clients /\ q \in HeldOf(table, o)
        BY <2>1, <4>2 DEF WindowsOK, RecordsOK, Entry, Live
      <4> QED BY <2>3, <4>3 DEF HeldOf
    <3> QED BY <2>2, <3>1, <3>2, <3>3
  <2>6. all = wants
    BY <2>4, <2>5
  <2>7. ASSUME NEW c \in Clients, NEW i \in DOMAIN table[c].buckets PROVE Once(table[c].buckets[i])
    <3>1. InOrder(table[c].buckets[i])
      BY <2>1 DEF TablesOK, Sound
    <3>2. DOMAIN table[c].buckets[i] \subseteq Nat
      <4>1. table[c] \in TableType
        BY <2>1 DEF Tables
      <4>2. table[c].buckets[i] \in Seq(Record)
        BY <4>1 DEF TableType
      <4> QED BY <4>2
    <3> QED BY <3>1, <3>2 DEF Once, InOrder, Apart
  <2>8. \A c \in Clients : state[c] = "none" => Records(c) = {}
    BY <2>1, RecordsAre DEF TablesOK
  <2> QED BY <2>6, <2>7, <2>8 DEF TablesAgree, all, wants
<1> QED BY <1>1, BothAlways, PTL

(* However deep in the windows of a client a window of its save set is,    *)
(* closing the client down does not destroy it, if no window of the client *)
(* is above the window that it is moved to.                                *)
THEOREM SavedWindowsSurvive == Spec => []SavedSurvive
<1>1. JInv => SavedSurvive
  BY DEF JInv, SafeOK, SavedSurvive, Live
<1> QED BY <1>1, BothAlways, PTL
=============================================================================
