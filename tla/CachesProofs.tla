---------------------------- MODULE CachesProofs ----------------------------
(***************************************************************************)
(* Proofs about what is kept instead of asked for anew: the LRU caches of  *)
(* vectors and of code chunks with the jobs that use them (Caches), and    *)
(* the health verdict that OllamaClient keeps for a while.  For every size *)
(* of the cache and of the chunks, every text, list of texts, number of    *)
(* threads and bound.                                                      *)
(*                                                                         *)
(* What a recursive function of the model computes is proved through the   *)
(* least counterexample (LeastNat, AllUpTo): first that a function with    *)
(* the recursion's equation exists, then what its values are.              *)
(***************************************************************************)
EXTENDS OllamaClient, Caches, SequenceTheorems, WellFoundedInduction, TLAPS

-----------------------------------------------------------------------------
(* Induction up to a number, and the sums of the sizes of entries.           *)

(* A set of natural numbers that is not empty has a least element: the form  *)
(* of induction used below, on the least number that fails.                  *)
LEMMA LeastNat ==
  ASSUME NEW T \in SUBSET Nat, T # {}
  PROVE  \E n \in T : \A m \in T : n <= m
<1>1. IsWellFoundedOn(OpToRel(<, Nat), Nat)
  BY NatLessThanWellFounded
<1>2. PICK n \in T : \A m \in T : <<m, n>> \notin OpToRel(<, Nat)
  BY <1>1, WFMin
<1>3. \A m \in T : ~(m < n)
  BY <1>2 DEF OpToRel
<1> QED BY <1>3

(* The least number that is not in a set of numbers up to a bound: 0, or one  *)
(* whose predecessor is in it.  To show that all are in it, it is enough to  *)
(* have 0 in it and each successor of a member.                              *)
LEMMA AllUpTo ==
  ASSUME NEW N \in Nat, NEW S, 0 \in S,
         \A n \in 1 .. N : n - 1 \in S => n \in S
  PROVE  \A n \in 0 .. N : n \in S
<1> DEFINE T == {n \in 0 .. N : n \notin S}
<1>1. SUFFICES ASSUME T # {} PROVE FALSE
  OBVIOUS
<1>2. T \in SUBSET Nat
  OBVIOUS
<1>3. PICK n \in T : \A m \in T : n <= m
  BY <1>1, <1>2, LeastNat
<1>4. n \in 1 .. N /\ n - 1 \in 0 .. N
  BY <1>3
<1>5. n - 1 \in S
  BY <1>3, <1>4
<1> QED BY <1>3, <1>4, <1>5

-----------------------------------------------------------------------------
(* SumTo is defined by its equation, and is an integer everywhere.           *)
Sized == [key : Nat, value : Seq(Nat), size : Nat]

SumBody(es, sum) ==
  [n \in 0 .. Len(es) |-> IF n = 0 THEN 0 ELSE sum[n - 1] + es[n].size]

(* The sums of the first entries' sizes satisfy their recursive equation.    *)
LEMMA SumEquation ==
  ASSUME NEW es \in Seq(Sized)
  PROVE  SumTo(es) = SumBody(es, SumTo(es))
<1> DEFINE N == Len(es)
           Part(n, f) == f = [k \in 0 .. n |-> IF k = 0 THEN 0 ELSE f[k - 1] + es[k].size]
           S == {n \in Nat : n <= N => \E f : Part(n, f)}
<1>1. N \in Nat
  OBVIOUS
<1>2. 0 \in S
  <2>1. Part(0, [k \in 0 .. 0 |-> 0])
    OBVIOUS
  <2> QED BY <2>1
<1>3. ASSUME NEW n \in 1 .. N, n - 1 \in S PROVE n \in S
  <2>1. PICK f : Part(n - 1, f)
    BY <1>1, <1>3
  <2> DEFINE g == [k \in 0 .. n |-> IF k = n THEN f[n - 1] + es[n].size ELSE f[k]]
  <2>2. \A k \in 0 .. n : g[k] = IF k = 0 THEN 0 ELSE g[k - 1] + es[k].size
    BY <1>1, <1>3, <2>1
  <2>3. Part(n, g)
    BY <1>1, <2>2
  <2>4. \E h : Part(n, h)
    <3> HIDE DEF g
    <3> QED BY <2>3
  <2> QED BY <1>1, <2>4
<1>4. N \in S
  <2> HIDE DEF S, N
  <2> QED BY <1>1, <1>2, <1>3, AllUpTo
<1>5. PICK f : f = SumBody(es, f)
  BY <1>1, <1>4 DEF SumBody
<1>6. SumTo(es) = CHOOSE h : h = SumBody(es, h)
  BY DEF SumTo, SumBody
<1> QED BY <1>5, <1>6

(* So the sums begin at 0 and grow by one size at a time.                    *)
LEMMA SumStep ==
  ASSUME NEW es \in Seq(Sized)
  PROVE  /\ SumTo(es)[0] = 0
         /\ \A n \in 1 .. Len(es) : SumTo(es)[n] = SumTo(es)[n - 1] + es[n].size
         /\ \A n \in 0 .. Len(es) : SumTo(es)[n] \in Int
<1>1. SumTo(es) = SumBody(es, SumTo(es))
  BY SumEquation
<1>2. SumTo(es)[0] = 0 /\ \A n \in 1 .. Len(es) : SumTo(es)[n] = SumTo(es)[n - 1] + es[n].size
  BY <1>1 DEF SumBody
<1> DEFINE S == {n \in Nat : SumTo(es)[n] \in Int}
<1>3. 0 \in S
  BY <1>2
<1>4. ASSUME NEW n \in 1 .. Len(es), n - 1 \in S PROVE n \in S
  <2>1. SumTo(es)[n] = SumTo(es)[n - 1] + es[n].size
    BY <1>2
  <2>2. es[n].size \in Int
    <3>1. es[n] \in Sized
      OBVIOUS
    <3> QED BY <3>1 DEF Sized
  <2>3. SumTo(es)[n - 1] \in Int
    BY <1>4
  <2>4. SumTo(es)[n] \in Int
    BY <2>1, <2>2, <2>3
  <2> QED BY <2>4
<1>5. \A n \in 0 .. Len(es) : n \in S
  <2>1. Len(es) \in Nat
    OBVIOUS
  <2> HIDE DEF S
  <2> QED BY <1>3, <1>4, <2>1, AllUpTo
<1> QED BY <1>2, <1>5

(* Where two sequences hold the same entries, a number of places apart, their *)
(* sums grow alike.                                                          *)
LEMMA SumsAlike ==
  ASSUME NEW es \in Seq(Sized), NEW fs \in Seq(Sized),
         NEW m \in Nat, NEW n \in Nat, NEW d \in Nat,
         m <= n, n <= Len(fs), n + d <= Len(es),
         \A k \in Nat : m < k /\ k <= n => fs[k] = es[k + d]
  PROVE  SumTo(fs)[n] - SumTo(fs)[m] = SumTo(es)[n + d] - SumTo(es)[m + d]
<1> DEFINE F(k) == SumTo(fs)[k]
           E(k) == SumTo(es)[k + d]
           S == {k \in Nat : F(m + k) - F(m) = E(m + k) - E(m)}
<1>1. Len(es) \in Nat /\ Len(fs) \in Nat
  OBVIOUS
<1>2. \A k \in 0 .. n : F(k) \in Int /\ E(k) \in Int
  BY <1>1, SumStep
<1>3. ASSUME NEW k \in m + 1 .. n PROVE F(k) - F(k - 1) = E(k) - E(k - 1)
  <2>1. k \in 1 .. Len(fs) /\ k + d \in 1 .. Len(es) /\ k \in Nat
    BY <1>1
  <2>2. F(k) = F(k - 1) + fs[k].size
    BY <2>1, SumStep
  <2>3. SumTo(es)[k + d] = SumTo(es)[(k + d) - 1] + es[k + d].size
    BY <2>1, SumStep
  <2>4. (k + d) - 1 = (k - 1) + d
    BY <2>1
  <2>5. E(k) = E(k - 1) + es[k + d].size
    BY <2>3, <2>4
  <2>6. fs[k] \in Sized /\ es[k + d] = fs[k]
    BY <2>1
  <2>7. fs[k].size \in Int
    BY ONLY <2>6 DEF Sized
  <2>8. F(k) \in Int /\ F(k - 1) \in Int /\ E(k) \in Int /\ E(k - 1) \in Int
    BY <1>2, <2>1
  <2> HIDE DEF F, E
  <2> QED BY <2>2, <2>5, <2>6, <2>7, <2>8
<1>4. 0 \in S
  BY <1>2
<1>5. ASSUME NEW k \in 1 .. n - m, k - 1 \in S PROVE k \in S
  <2>1. m + k \in m + 1 .. n /\ m \in 0 .. n /\ m + (k - 1) \in 0 .. n
        /\ m + k \in 0 .. n /\ (m + k) - 1 = m + (k - 1) /\ k \in Nat
    OBVIOUS
  <2> DEFINE f0 == F(m)   f1 == F(m + (k - 1))   f2 == F(m + k)
             e0 == E(m)   e1 == E(m + (k - 1))   e2 == E(m + k)
  <2>2. f2 - f1 = e2 - e1
    BY <1>3, <2>1
  <2>3. f1 - f0 = e1 - e0
    BY <1>5
  <2>4. /\ f0 \in Int /\ f1 \in Int /\ f2 \in Int
        /\ e0 \in Int /\ e1 \in Int /\ e2 \in Int
    BY <1>2, <2>1
  <2>5. f2 - f0 = e2 - e0
    <3> HIDE DEF f0, f1, f2, e0, e1, e2
    <3> QED BY <2>2, <2>3, <2>4
  <2> QED BY <2>1, <2>5
<1>6. n - m \in Nat /\ m + (n - m) = n
  OBVIOUS
<1>7. n - m \in S
  <2> HIDE DEF S
  <2>1. \A k \in 0 .. n - m : k \in S
    BY <1>4, <1>5, <1>6, AllUpTo
  <2>2. n - m \in 0 .. n - m
    BY <1>6
  <2> QED BY <2>1, <2>2
<1> QED BY <1>6, <1>7

-----------------------------------------------------------------------------
(* What the cache holds, and the three ways its list of entries changes.     *)

LruTypes == [entries : Seq(Sized), size : Int]
Holds(c) == {c.entries[i] : i \in DOMAIN c.entries}
Total(es) == SumTo(es)[Len(es)]
Distinct(es) == \A i, j \in DOMAIN es : es[i].key = es[j].key => i = j

(* An entry taken out: what is left, its sum, and its distinct keys.         *)
LEMMA WithoutOne ==
  ASSUME NEW es \in Seq(Sized), NEW i \in 1 .. Len(es)
  PROVE  /\ Without(es, i) \in Seq(Sized)
         /\ Len(Without(es, i)) = Len(es) - 1
         /\ Total(Without(es, i)) = Total(es) - es[i].size
         /\ Distinct(es) => Distinct(Without(es, i))
                            /\ \A j \in DOMAIN Without(es, i) : Without(es, i)[j].key # es[i].key
         /\ \A j \in DOMAIN Without(es, i) : \E k \in DOMAIN es : Without(es, i)[j] = es[k]
<1> DEFINE fs == Without(es, i)
           n  == Len(es)
<1>1. /\ n \in Nat /\ n >= 1 /\ n - 1 \in Nat /\ i \in Nat /\ i >= 1 /\ i <= n
      /\ i - 1 \in Nat /\ 0 <= i - 1 /\ i - 1 <= n - 1 /\ (i - 1) + 0 <= n
      /\ (n - 1) + 1 <= n
  OBVIOUS
<1>2. \A j \in 1 .. n - 1 : es[IF j < i THEN j ELSE j + 1] \in Sized
  BY <1>1
<1>3. fs \in [1 .. n - 1 -> Sized]
  BY <1>2 DEF Without
<1>4. fs \in Seq(Sized) /\ Len(fs) = n - 1 /\ DOMAIN fs = 1 .. n - 1
  <2>1. fs \in Seq(Sized)
    BY <1>1, <1>3, SeqDef
  <2> QED BY <1>1, <1>3, <2>1
<1>5. \A j \in 1 .. n - 1 : fs[j] = IF j < i THEN es[j] ELSE es[j + 1]
  BY DEF Without
<1> HIDE DEF fs
<1>6. Total(fs) = Total(es) - es[i].size
  <2>1. SumTo(fs)[i - 1] - SumTo(fs)[0] = SumTo(es)[i - 1] - SumTo(es)[0]
    <3>1. \A k \in Nat : 0 < k /\ k <= i - 1 => fs[k] = es[k + 0]
      BY <1>1, <1>5
    <3>2. /\ es \in Seq(Sized) /\ fs \in Seq(Sized) /\ 0 \in Nat /\ i - 1 \in Nat
          /\ 0 <= i - 1 /\ i - 1 <= Len(fs) /\ (i - 1) + 0 <= Len(es)
      BY <1>1, <1>4
    <3>3. SumTo(fs)[i - 1] - SumTo(fs)[0] = SumTo(es)[(i - 1) + 0] - SumTo(es)[0 + 0]
      BY ONLY <3>1, <3>2, SumsAlike
    <3>4. (i - 1) + 0 = i - 1 /\ 0 + 0 = 0
      BY <1>1
    <3> QED BY ONLY <3>3, <3>4
  <2>2. SumTo(fs)[n - 1] - SumTo(fs)[i - 1] = SumTo(es)[n] - SumTo(es)[i]
    <3> DEFINE m0 == i - 1   n0 == n - 1
    <3>1. \A k \in Nat : m0 < k /\ k <= n0 => fs[k] = es[k + 1]
      BY <1>1, <1>5
    <3>2. /\ es \in Seq(Sized) /\ fs \in Seq(Sized) /\ m0 \in Nat /\ n0 \in Nat /\ 1 \in Nat
          /\ m0 <= n0 /\ n0 <= Len(fs) /\ n0 + 1 <= Len(es)
      BY <1>1, <1>4
    <3>3. SumTo(fs)[n0] - SumTo(fs)[m0] = SumTo(es)[n0 + 1] - SumTo(es)[m0 + 1]
      <4> HIDE DEF m0, n0
      <4> QED BY ONLY <3>1, <3>2, SumsAlike
    <3>4. n0 + 1 = n /\ m0 + 1 = i
      BY <1>1
    <3> QED BY ONLY <3>3, <3>4
  <2>3. SumTo(es)[i] = SumTo(es)[i - 1] + es[i].size
    BY SumStep
  <2>4. SumTo(es)[0] = 0 /\ SumTo(fs)[0] = 0
    BY <1>4, SumStep
  <2>5. es[i].size \in Int
    <3>1. es[i] \in Sized
      BY <1>1
    <3> QED BY <3>1 DEF Sized
  <2> DEFINE f1 == SumTo(fs)[i - 1]   f2 == SumTo(fs)[n - 1]
             e1 == SumTo(es)[i - 1]   e2 == SumTo(es)[i]   e3 == SumTo(es)[n]
             f0 == SumTo(fs)[0]       e0 == SumTo(es)[0]   z == es[i].size
  <2>6. f1 \in Int /\ f2 \in Int /\ e1 \in Int /\ e2 \in Int /\ e3 \in Int
    BY <1>1, <1>4, SumStep
  <2>7. f2 = e3 - z
    <3>1. f1 - f0 = e1 - e0 /\ f2 - f1 = e3 - e2 /\ e2 = e1 + z /\ e0 = 0 /\ f0 = 0 /\ z \in Int
      BY <2>1, <2>2, <2>3, <2>4, <2>5
    <3> HIDE DEF f0, f1, f2, e0, e1, e2, e3, z
    <3> QED BY <3>1, <2>6
  <2> QED BY <1>4, <2>7 DEF Total
<1>7. ASSUME Distinct(es)
      PROVE  Distinct(fs) /\ \A j \in DOMAIN fs : fs[j].key # es[i].key
  <2> DEFINE Old(j) == IF j < i THEN j ELSE j + 1
  <2>1. \A j \in 1 .. n - 1 : Old(j) \in 1 .. n /\ Old(j) # i /\ fs[j] = es[Old(j)]
    BY <1>1, <1>5
  <2>2. \A j, k \in 1 .. n - 1 : Old(j) = Old(k) => j = k
    BY <1>1
  <2>3. \A j, k \in 1 .. n : es[j].key = es[k].key => j = k
    BY <1>1, <1>7 DEF Distinct
  <2> HIDE DEF Old
  <2>4. \A j, k \in 1 .. n - 1 : fs[j].key = fs[k].key => j = k
    BY <2>1, <2>2, <2>3
  <2>5. \A j \in 1 .. n - 1 : fs[j].key # es[i].key
    BY <1>1, <2>1, <2>3
  <2> QED BY <1>4, <2>4, <2>5 DEF Distinct
<1>8. \A j \in DOMAIN fs : \E k \in DOMAIN es : fs[j] = es[k]
  BY <1>1, <1>4, <1>5
<1> QED BY <1>4, <1>6, <1>7, <1>8 DEF fs

(* An entry put at the end.                                                  *)
LEMMA WithOneMore ==
  ASSUME NEW es \in Seq(Sized), NEW e \in Sized
  PROVE  /\ Append(es, e) \in Seq(Sized)
         /\ Total(Append(es, e)) = Total(es) + e.size
<1> DEFINE fs == Append(es, e)
           n  == Len(es)
<1>1. n \in Nat /\ fs \in Seq(Sized) /\ Len(fs) = n + 1 /\ fs[n + 1] = e
      /\ \A k \in 1 .. n : fs[k] = es[k]
  OBVIOUS
<1> HIDE DEF fs
<1>2. SumTo(fs)[n] - SumTo(fs)[0] = SumTo(es)[n] - SumTo(es)[0]
  <2>1. \A k \in Nat : 0 < k /\ k <= n => fs[k] = es[k + 0]
    BY <1>1
  <2>2. /\ es \in Seq(Sized) /\ fs \in Seq(Sized) /\ 0 \in Nat /\ n \in Nat
        /\ 0 <= n /\ n <= Len(fs) /\ n + 0 <= Len(es)
    BY <1>1
  <2>3. SumTo(fs)[n] - SumTo(fs)[0] = SumTo(es)[n + 0] - SumTo(es)[0 + 0]
    BY ONLY <2>1, <2>2, SumsAlike
  <2>4. n + 0 = n /\ 0 + 0 = 0
    BY <1>1
  <2> QED BY ONLY <2>3, <2>4
<1>3. n + 1 \in 1 .. Len(fs) /\ (n + 1) - 1 = n
  BY <1>1
<1>4. SumTo(fs)[n + 1] = SumTo(fs)[n] + e.size
  BY <1>1, <1>3, SumStep
<1>5. SumTo(fs)[0] = 0 /\ SumTo(es)[0] = 0 /\ SumTo(fs)[n] \in Int /\ SumTo(es)[n] \in Int
  BY <1>1, SumStep
<1>6. e.size \in Int
  BY DEF Sized
<1>7. Total(fs) = Total(es) + e.size
  BY <1>1, <1>2, <1>4, <1>5, <1>6 DEF Total
<1> QED BY <1>1, <1>7 DEF fs

(* The first entries dropped.                                                *)
LEMMA WithoutOldest ==
  ASSUME NEW es \in Seq(Sized), NEW d \in 0 .. Len(es)
  PROVE  /\ SubSeq(es, d + 1, Len(es)) \in Seq(Sized)
         /\ Len(SubSeq(es, d + 1, Len(es))) = Len(es) - d
         /\ Total(SubSeq(es, d + 1, Len(es))) = Total(es) - SumTo(es)[d]
         /\ \A j \in 1 .. Len(es) - d : SubSeq(es, d + 1, Len(es))[j] = es[j + d]
<1> DEFINE fs == SubSeq(es, d + 1, Len(es))
           n  == Len(es)
<1>1. n \in Nat /\ d \in Nat /\ n - d \in Nat /\ (n - d) + d = n
  OBVIOUS
<1>2. fs \in Seq(Sized) /\ Len(fs) = n - d /\ \A j \in 1 .. n - d : fs[j] = es[j + d]
  OBVIOUS
<1> HIDE DEF fs
<1>3. SumTo(fs)[n - d] - SumTo(fs)[0] = SumTo(es)[n] - SumTo(es)[d]
  <2> DEFINE z == 0   l == n - d
  <2>1. \A k \in Nat : z < k /\ k <= l => fs[k] = es[k + d]
    BY <1>1, <1>2
  <2>2. /\ es \in Seq(Sized) /\ fs \in Seq(Sized) /\ z \in Nat /\ l \in Nat /\ d \in Nat
        /\ z <= l /\ l <= Len(fs) /\ l + d <= Len(es)
    BY <1>1, <1>2
  <2>3. SumTo(fs)[l] - SumTo(fs)[z] = SumTo(es)[l + d] - SumTo(es)[z + d]
    <3> HIDE DEF z, l
    <3> QED BY ONLY <2>1, <2>2, SumsAlike, SMTT(60)
  <2>4. l + d = n /\ z + d = d
    BY <1>1
  <2> QED BY ONLY <2>3, <2>4
<1>4. SumTo(fs)[0] = 0 /\ SumTo(fs)[n - d] \in Int /\ SumTo(es)[n] \in Int /\ SumTo(es)[d] \in Int
  BY <1>1, <1>2, SumStep
<1>5. Total(fs) = Total(es) - SumTo(es)[d]
  BY <1>1, <1>2, <1>3, <1>4 DEF Total
<1> QED BY <1>2, <1>5 DEF fs

-----------------------------------------------------------------------------
(* Look-ups.                                                                 *)

(* The one place of a key that is cached.                                    *)
LEMMA PlaceFound ==
  ASSUME NEW c \in LruTypes, NEW k \in Keys(c)
  PROVE  /\ Place(c, k) \in 1 .. Len(c.entries)
         /\ Entry(c, k) \in Holds(c) /\ Entry(c, k) \in Sized
         /\ Entry(c, k).key = k
<1>1. c.entries \in Seq(Sized)
  BY DEF LruTypes
<1>2. \E i \in DOMAIN c.entries : c.entries[i].key = k
  BY DEF Keys
<1>3. Place(c, k) \in DOMAIN c.entries /\ c.entries[Place(c, k)].key = k
  BY <1>2 DEF Place
<1>4. DOMAIN c.entries = 1 .. Len(c.entries)
  BY <1>1
<1> HIDE DEF Place
<1> QED BY <1>1, <1>3, <1>4 DEF Entry, Holds

(* What the other keys leave, whether k is there or not.                     *)
LEMMA OthersKept ==
  ASSUME NEW c \in LruTypes, NEW k, WellFormed(c)
  PROVE  /\ Others(c, k) \in Seq(Sized)
         /\ Total(Others(c, k)) = c.size - (IF k \in Keys(c) THEN Entry(c, k).size ELSE 0)
         /\ Len(Others(c, k)) = IF k \in Keys(c) THEN Len(c.entries) - 1 ELSE Len(c.entries)
         /\ Distinct(Others(c, k))
         /\ \A j \in DOMAIN Others(c, k) : /\ Others(c, k)[j].key # k
                                           /\ Others(c, k)[j] \in Holds(c)
<1>1. c.entries \in Seq(Sized) /\ c.size \in Int
  BY DEF LruTypes
<1>2. c.size = Total(c.entries) /\ Distinct(c.entries)
  BY DEF WellFormed, Total, Distinct
<1>3. CASE k \in Keys(c)
  <2> DEFINE i == Place(c, k)
  <2>1. i \in 1 .. Len(c.entries) /\ c.entries[i] = Entry(c, k) /\ Entry(c, k).key = k
    BY <1>3, PlaceFound DEF Entry
  <2>2. Others(c, k) = Without(c.entries, i)
    BY <1>3 DEF Others
  <2> HIDE DEF i
  <2> QED BY <1>1, <1>2, <1>3, <2>1, <2>2, WithoutOne DEF Holds
<1>4. CASE k \notin Keys(c)
  <2>1. Others(c, k) = c.entries
    BY <1>4 DEF Others
  <2>2. \A j \in DOMAIN c.entries : c.entries[j].key # k /\ c.entries[j] \in Holds(c)
    BY <1>4 DEF Keys, Holds
  <2>3. c.size - 0 = c.size
    BY <1>1
  <2> QED BY <1>1, <1>2, <1>4, <2>1, <2>2, <2>3
<1> QED BY <1>3, <1>4

(* An entry put at the end of those of other keys.                           *)
LEMMA LastIsNew ==
  ASSUME NEW es \in Seq(Sized), NEW e \in Sized, Distinct(es),
         \A j \in DOMAIN es : es[j].key # e.key
  PROVE  Distinct(Append(es, e))
<1> DEFINE fs == Append(es, e)
           n  == Len(es)
<1>1. n \in Nat /\ DOMAIN es = 1 .. n /\ DOMAIN fs = 1 .. n + 1 /\ fs[n + 1] = e
      /\ \A k \in 1 .. n : fs[k] = es[k]
  OBVIOUS
<1> HIDE DEF fs
<1>2. ASSUME NEW i \in 1 .. n + 1, NEW j \in 1 .. n + 1, fs[i].key = fs[j].key
      PROVE  i = j
  <2>1. CASE i \in 1 .. n /\ j \in 1 .. n
    BY <1>1, <1>2, <2>1 DEF Distinct
  <2>2. CASE i = n + 1 \/ j = n + 1
    BY <1>1, <1>2, <2>2
  <2> QED BY <1>1, <2>1, <2>2
<1> QED BY <1>1, <1>2 DEF Distinct, fs

(* LRUCache.get moves the entry to the end.                                  *)
LEMMA TouchKeeps ==
  ASSUME NEW c \in LruTypes, NEW k, WellFormed(c)
  PROVE  /\ Touch(c, k) \in LruTypes
         /\ WellFormed(Touch(c, k))
         /\ Holds(Touch(c, k)) \subseteq Holds(c)
<1>1. CASE k \notin Keys(c)
  BY <1>1 DEF Touch
<1>2. CASE k \in Keys(c)
  <2> DEFINE es == Others(c, k)
             e  == Entry(c, k)
             fs == Append(es, e)
  <2>1. e \in Sized /\ e \in Holds(c) /\ e.key = k /\ e.size \in Int
    BY <1>2, PlaceFound DEF Sized
  <2>2. /\ es \in Seq(Sized) /\ Total(es) = c.size - e.size /\ Distinct(es)
        /\ Len(es) = Len(c.entries) - 1
        /\ \A j \in DOMAIN es : es[j].key # k /\ es[j] \in Holds(c)
    BY <1>2, OthersKept
  <2>3. Touch(c, k) = [c EXCEPT !.entries = fs]
    BY <1>2 DEF Touch
  <2> HIDE DEF es, e
  <2>4. c.size \in Int /\ Len(c.entries) \in Nat /\ c.entries \in Seq(Sized)
    BY DEF LruTypes
  <2>5. fs \in Seq(Sized) /\ Total(fs) = c.size
    <3>1. fs \in Seq(Sized) /\ Total(fs) = Total(es) + e.size
      BY <2>1, <2>2, WithOneMore
    <3>2. (c.size - e.size) + e.size = c.size
      BY <2>1, <2>4
    <3> QED BY <2>2, <3>1, <3>2
  <2>6. Distinct(fs)
    BY <2>1, <2>2, LastIsNew
  <2>7. /\ Len(fs) = Len(c.entries) /\ DOMAIN fs = 1 .. Len(es) + 1
        /\ fs[Len(es) + 1] = e /\ \A j \in 1 .. Len(es) : fs[j] = es[j]
    BY <2>2, <2>4
  <2>8. \A j \in DOMAIN fs : fs[j] \in Holds(c)
    BY <2>1, <2>2, <2>7
  <2> DEFINE d == [c EXCEPT !.entries = fs]
  <2> HIDE DEF fs
  <2>9. d \in LruTypes /\ d.entries = fs /\ d.size = c.size
    BY <2>5 DEF LruTypes
  <2>10. WellFormed(d)
    BY <2>5, <2>6, <2>7, <2>9 DEF WellFormed, Total, Distinct
  <2>11. Holds(d) \subseteq Holds(c)
    <3>1. Holds(d) = {fs[j] : j \in DOMAIN fs}
      BY <2>9 DEF Holds
    <3> QED BY <2>8, <3>1
  <2> QED BY <2>3, <2>9, <2>10, <2>11
<1> QED BY <1>1, <1>2

-----------------------------------------------------------------------------
(* Put, evict and invalidate.                                                *)

(* put, up to its evictions: the total is exact again, the key there once.   *)
LEMMA SetKeeps ==
  ASSUME NEW c \in LruTypes, NEW k \in Nat, NEW v \in Seq(Nat), NEW s \in Nat,
         WellFormed(c)
  PROVE  /\ Set(c, k, v, s) \in LruTypes
         /\ Len(Set(c, k, v, s).entries) >= 1
         /\ Set(c, k, v, s).size = Total(Set(c, k, v, s).entries)
         /\ Distinct(Set(c, k, v, s).entries)
         /\ Holds(Set(c, k, v, s)) \subseteq
              Holds(c) \cup {[key |-> k, value |-> v, size |-> s]}
<1> DEFINE es  == Others(c, k)
           e   == [key |-> k, value |-> v, size |-> s]
           fs  == Append(es, e)
           old == IF k \in Keys(c) THEN Entry(c, k).size ELSE 0
           d   == Set(c, k, v, s)
<1>1. e \in Sized /\ e.key = k /\ e.size = s
  BY DEF Sized
<1>2. old \in Int
  BY PlaceFound DEF Sized
<1>3. c.size \in Int
  BY DEF LruTypes
<1>4. /\ es \in Seq(Sized) /\ Total(es) = c.size - old /\ Distinct(es)
      /\ \A j \in DOMAIN es : es[j].key # k /\ es[j] \in Holds(c)
  BY OthersKept
<1>5. d.entries = fs /\ d.size = c.size + s - old /\ d = [entries |-> fs, size |-> d.size]
  BY DEF Set
<1> HIDE DEF es, e, old, d
<1>6. fs \in Seq(Sized) /\ Total(fs) = Total(es) + s
  BY <1>1, <1>4, WithOneMore
<1>7. d.size = Total(fs) /\ d.size \in Int
  <2>1. c.size + s - old = (c.size - old) + s /\ c.size + s - old \in Int
    BY <1>2, <1>3
  <2> QED BY <1>4, <1>5, <1>6, <2>1
<1>8. Distinct(fs)
  BY <1>1, <1>4, LastIsNew
<1>9. /\ Len(es) \in Nat /\ Len(fs) = Len(es) + 1 /\ DOMAIN fs = 1 .. Len(es) + 1
      /\ fs[Len(es) + 1] = e /\ \A j \in 1 .. Len(es) : fs[j] = es[j]
  BY <1>4
<1>10. \A j \in DOMAIN fs : fs[j] \in Holds(c) \cup {e}
  BY <1>4, <1>9
<1> HIDE DEF fs
<1>11. Holds(d) = {fs[j] : j \in DOMAIN fs}
  BY <1>5 DEF Holds
<1>12. d \in LruTypes
  BY <1>5, <1>6, <1>7 DEF LruTypes
<1>13. Len(d.entries) >= 1 /\ Holds(d) \subseteq Holds(c) \cup {e}
  BY <1>5, <1>9, <1>10, <1>11
<1> QED BY <1>5, <1>7, <1>8, <1>12, <1>13 DEF d, e

(* The evictions of put drop a first part that makes the rest fit, or leave  *)
(* one entry.                                                                *)
LEMMA EvictKeeps ==
  ASSUME NEW c \in LruTypes, Len(c.entries) >= 1, c.size = Total(c.entries),
         Distinct(c.entries)
  PROVE  /\ Evict(c) \in LruTypes
         /\ WellFormed(Evict(c))
         /\ Holds(Evict(c)) \subseteq Holds(c)
<1> DEFINE es == c.entries
           n  == Len(es)
           Enough(i) == c.size - SumTo(es)[i] <= MaxSize \/ i = Len(es) - 1
           drop == CHOOSE i \in 0 .. Len(es) - 1 : Enough(i) /\ \A m \in 0 .. i - 1 : ~Enough(m)
           fs == SubSeq(es, drop + 1, Len(es))
           d  == [entries |-> fs, size |-> c.size - SumTo(es)[drop]]
<1>1. es \in Seq(Sized) /\ c.size \in Int /\ n \in Nat /\ n - 1 \in Nat
  BY DEF LruTypes
<1>2. Evict(c) = d
  BY DEF Evict
<1>3. drop \in 0 .. n - 1 /\ Enough(drop)
  <2> DEFINE T == {i \in 0 .. n - 1 : Enough(i)}
  <2>1. n - 1 \in T /\ T \in SUBSET Nat
    BY <1>1
  <2>2. PICK i \in T : \A m \in T : i <= m
    BY <2>1, LeastNat
  <2>3. i \in 0 .. n - 1 /\ Enough(i) /\ \A m \in 0 .. i - 1 : ~Enough(m)
    BY <1>1, <2>2
  <2> HIDE DEF Enough
  <2> QED BY <2>3
<1> HIDE DEF drop
<1>4. drop \in 0 .. Len(es) /\ drop \in Nat
  BY <1>1, <1>3
<1>5. /\ fs \in Seq(Sized) /\ Len(fs) = n - drop /\ Total(fs) = Total(es) - SumTo(es)[drop]
      /\ \A j \in 1 .. n - drop : fs[j] = es[j + drop]
  BY <1>1, <1>4, WithoutOldest
<1>6. SumTo(es)[drop] \in Int
  BY <1>1, <1>4, SumStep
<1> HIDE DEF fs
<1>7. d \in LruTypes /\ d.entries = fs /\ d.size = c.size - SumTo(es)[drop]
  BY <1>1, <1>5, <1>6 DEF LruTypes
<1>8. DOMAIN fs = 1 .. n - drop /\ DOMAIN es = 1 .. n
  BY <1>1, <1>5
<1>9. Distinct(fs)
  <2>1. \A i, j \in 1 .. n : es[i].key = es[j].key => i = j
    BY <1>8 DEF Distinct
  <2>2. \A j \in 1 .. n - drop : fs[j] = es[j + drop] /\ j + drop \in 1 .. n
    BY <1>1, <1>4, <1>5
  <2>3. ASSUME NEW i \in 1 .. n - drop, NEW j \in 1 .. n - drop, fs[i].key = fs[j].key
        PROVE  i = j
    <3>1. i + drop = j + drop
      BY <2>1, <2>2, <2>3
    <3> QED BY <1>4, <3>1
  <2> QED BY <1>8, <2>3 DEF Distinct
<1>10. d.size <= MaxSize \/ Len(fs) = 1
  BY <1>1, <1>3, <1>5, <1>7
<1>11. WellFormed(d)
  <2>1. d.size = SumTo(fs)[Len(fs)]
    BY <1>5, <1>7 DEF Total
  <2> HIDE DEF d
  <2> QED BY <1>7, <1>9, <1>10, <2>1 DEF WellFormed, Distinct
<1>12. Holds(d) \subseteq Holds(c)
  <2>1. \A j \in DOMAIN fs : fs[j] = es[j + drop] /\ j + drop \in DOMAIN es
    BY <1>1, <1>4, <1>5, <1>8
  <2> HIDE DEF d
  <2> QED BY <1>7, <2>1 DEF Holds
<1> QED BY <1>2, <1>7, <1>11, <1>12

(* LRUCache.put.                                                             *)
LEMMA PutKeeps ==
  ASSUME NEW c \in LruTypes, NEW k \in Nat, NEW v \in Seq(Nat), NEW s \in Nat,
         WellFormed(c)
  PROVE  /\ Put(c, k, v, s) \in LruTypes
         /\ WellFormed(Put(c, k, v, s))
         /\ Holds(Put(c, k, v, s)) \subseteq
              Holds(c) \cup {[key |-> k, value |-> v, size |-> s]}
<1> DEFINE d == Set(c, k, v, s)
<1>1. /\ d \in LruTypes /\ Len(d.entries) >= 1 /\ d.size = Total(d.entries)
      /\ Distinct(d.entries)
      /\ Holds(d) \subseteq Holds(c) \cup {[key |-> k, value |-> v, size |-> s]}
  BY SetKeeps
<1>2. Put(c, k, v, s) = Evict(d)
  BY DEF Put
<1> HIDE DEF d
<1>3. Evict(d) \in LruTypes /\ WellFormed(Evict(d)) /\ Holds(Evict(d)) \subseteq Holds(d)
  BY <1>1, EvictKeeps
<1> QED BY <1>1, <1>2, <1>3

(* LRUCache.invalidate.                                                      *)
LEMMA InvalidateKeeps ==
  ASSUME NEW c \in LruTypes, NEW k, WellFormed(c)
  PROVE  /\ Invalidate(c, k) \in LruTypes
         /\ WellFormed(Invalidate(c, k))
         /\ Holds(Invalidate(c, k)) \subseteq Holds(c)
<1> DEFINE es  == Others(c, k)
           old == IF k \in Keys(c) THEN Entry(c, k).size ELSE 0
           d   == Invalidate(c, k)
<1>1. old \in Nat
  BY PlaceFound DEF Sized
<1>2. c.size \in Int /\ c.entries \in Seq(Sized)
  BY DEF LruTypes
<1>3. /\ es \in Seq(Sized) /\ Total(es) = c.size - old /\ Distinct(es)
      /\ Len(es) = IF k \in Keys(c) THEN Len(c.entries) - 1 ELSE Len(c.entries)
      /\ \A j \in DOMAIN es : es[j].key # k /\ es[j] \in Holds(c)
  BY OthersKept
<1>4. d.entries = es /\ d.size = c.size - old /\ d = [entries |-> es, size |-> c.size - old]
  BY DEF Invalidate
<1>5. k \notin Keys(c) => old = 0
  OBVIOUS
<1> HIDE DEF es, old, d
<1>6. d \in LruTypes
  BY <1>1, <1>2, <1>3, <1>4 DEF LruTypes
<1>7. d.size <= MaxSize \/ Len(es) = 1
  <2>1. CASE c.size <= MaxSize
    BY <1>1, <1>2, <1>4, <2>1, LruAssumption
  <2>2. CASE Len(c.entries) = 1 /\ k \notin Keys(c)
    BY <1>3, <2>2
  <2>3. CASE Len(c.entries) = 1 /\ k \in Keys(c)
    <3>1. Len(es) = 0
      BY <1>3, <2>3
    <3>2. Total(es) = 0
      BY <1>3, <3>1, SumStep DEF Total
    <3> QED BY <1>3, <1>4, <3>2, LruAssumption
  <2>4. c.size <= MaxSize \/ Len(c.entries) = 1
    BY DEF WellFormed
  <2> QED BY <2>1, <2>2, <2>3, <2>4
<1>8. WellFormed(d)
  BY <1>3, <1>4, <1>7 DEF WellFormed, Total, Distinct
<1>9. Holds(d) \subseteq Holds(c)
  BY <1>3, <1>4 DEF Holds
<1> QED BY <1>6, <1>8, <1>9 DEF d

-----------------------------------------------------------------------------
(* Lengths of texts.                                                         *)

(* Length is defined by its equation, grows, and differs by a line's length.  *)
LengthBody(t, N, f) ==
  [n \in 0 .. N |-> IF n = 0 THEN 0 ELSE f[n - 1] + t[n]]

(* The lengths of the first lines satisfy their recursive equation.          *)
LEMMA LengthEquation ==
  ASSUME NEW t \in Seq(Nat)
  PROVE  Length(t) = LengthBody(t, Len(t), Length(t))
<1> DEFINE N == Len(t)
           S == {n \in Nat : n <= N => \E f : f = LengthBody(t, n, f)}
<1>1. N \in Nat
  OBVIOUS
<1>2. 0 \in S
  <2>1. [k \in 0 .. 0 |-> 0] = LengthBody(t, 0, [k \in 0 .. 0 |-> 0])
    BY DEF LengthBody
  <2> QED BY <2>1
<1>3. ASSUME NEW n \in 1 .. N, n - 1 \in S PROVE n \in S
  <2>1. n - 1 <= N
    BY <1>1
  <2>2. PICK h : h = LengthBody(t, n - 1, h)
    BY <1>3, <2>1
  <2> DEFINE g == [k \in 0 .. n |-> IF k = n THEN h[n - 1] + t[n] ELSE h[k]]
  <2>3. h[0] = 0 /\ \A k \in 1 .. n - 1 : h[k] = h[k - 1] + t[k]
    BY <1>1, <2>2 DEF LengthBody
  <2>4. \A k \in 0 .. n : g[k] = IF k = 0 THEN 0 ELSE g[k - 1] + t[k]
    BY <1>1, <2>3
  <2>5. g = LengthBody(t, n, g)
    BY <1>1, <2>4 DEF LengthBody
  <2>6. \E f : f = LengthBody(t, n, f)
    <3> HIDE DEF g
    <3> QED BY <2>5
  <2> QED BY <1>1, <2>6
<1>4. N \in S
  <2> HIDE DEF S, N
  <2>1. \A n \in 0 .. N : n \in S
    BY <1>1, <1>2, <1>3, AllUpTo
  <2> QED BY <1>1, <2>1
<1>5. PICK f : f = LengthBody(t, N, f)
  BY <1>1, <1>4
<1>6. Length(t) = CHOOSE h : h = LengthBody(t, Len(t), h)
  BY DEF Length, LengthBody
<1> QED BY <1>5, <1>6

(* So they begin at 0 and grow by one line at a time ...                     *)
LEMMA LengthStep ==
  ASSUME NEW t \in Seq(Nat)
  PROVE  /\ Length(t)[0] = 0
         /\ \A n \in 1 .. Len(t) : Length(t)[n] = Length(t)[n - 1] + t[n]
         /\ \A n \in 0 .. Len(t) : Length(t)[n] \in Nat
<1>1. Length(t) = LengthBody(t, Len(t), Length(t))
  BY LengthEquation
<1>2. Length(t)[0] = 0 /\ \A n \in 1 .. Len(t) : Length(t)[n] = Length(t)[n - 1] + t[n]
  BY <1>1 DEF LengthBody
<1> DEFINE S == {n \in Nat : Length(t)[n] \in Nat}
<1>3. 0 \in S
  BY <1>2
<1>4. ASSUME NEW n \in 1 .. Len(t), n - 1 \in S PROVE n \in S
  <2>1. Length(t)[n] = Length(t)[n - 1] + t[n] /\ t[n] \in Nat
    BY <1>2
  <2>2. Length(t)[n - 1] \in Nat
    BY <1>4
  <2>3. Length(t)[n] \in Nat
    BY <2>1, <2>2
  <2> QED BY <2>3
<1>5. \A n \in 0 .. Len(t) : n \in S
  <2>1. Len(t) \in Nat
    OBVIOUS
  <2> HIDE DEF S
  <2> QED BY <1>3, <1>4, <2>1, AllUpTo
<1> QED BY <1>2, <1>5

(* ... and never shrink.                                                     *)
LEMMA LengthGrows ==
  ASSUME NEW t \in Seq(Nat), NEW m \in 0 .. Len(t), NEW n \in 0 .. Len(t), m <= n
  PROVE  Length(t)[m] <= Length(t)[n]
<1> DEFINE S == {k \in Nat : m <= k => Length(t)[m] <= Length(t)[k]}
<1>1. 0 \in S
  BY LengthStep
<1>2. ASSUME NEW k \in 1 .. Len(t), k - 1 \in S PROVE k \in S
  <2>1. /\ Length(t)[k] = Length(t)[k - 1] + t[k] /\ t[k] \in Nat
        /\ Length(t)[k - 1] \in Nat /\ Length(t)[k] \in Nat /\ Length(t)[m] \in Nat
    BY LengthStep
  <2>2. CASE m = k
    BY <2>1, <2>2
  <2>3. CASE m <= k - 1
    <3>1. Length(t)[m] <= Length(t)[k - 1]
      BY <1>2, <2>3
    <3>2. Length(t)[m] <= Length(t)[k]
      BY <2>1, <3>1
    <3> QED BY <3>2
  <2> QED BY <2>2, <2>3
<1>3. \A k \in 0 .. Len(t) : k \in S
  <2>1. Len(t) \in Nat
    OBVIOUS
  <2> HIDE DEF S
  <2> QED BY <1>1, <1>2, <2>1, AllUpTo
<1> QED BY <1>3

(* The characters of some lines: never negative, all those of one line for   *)
(* that line alone, and one line more adds its length.                       *)
LEMMA CharsOf ==
  ASSUME NEW t \in Seq(Nat), NEW first \in 1 .. Len(t), NEW last \in first .. Len(t)
  PROVE  /\ Chars(t, first, last) \in Nat
         /\ Chars(t, first, last) =
              t[first] + (IF first = last THEN 0 ELSE Chars(t, first + 1, last))
         /\ t[first] \in Nat
<1>1. /\ first \in Nat /\ last \in Nat /\ Len(t) \in Nat /\ first - 1 \in 0 .. Len(t)
      /\ last \in 0 .. Len(t) /\ first \in 0 .. Len(t) /\ first - 1 <= last
      /\ (first + 1) - 1 = first
  OBVIOUS
<1>2. Length(t)[first] = Length(t)[first - 1] + t[first]
  BY LengthStep
<1>3. Length(t)[first] \in Nat /\ Length(t)[first - 1] \in Nat /\ Length(t)[last] \in Nat
  BY <1>1, LengthStep
<1>4. Length(t)[first - 1] <= Length(t)[last]
  BY <1>1, LengthGrows
<1>5. t[first] \in Nat
  OBVIOUS
<1>6. Chars(t, first, last) = Length(t)[last] - Length(t)[first - 1]
  BY DEF Chars
<1>7. Chars(t, first + 1, last) = Length(t)[last] - Length(t)[first]
  BY <1>1 DEF Chars
<1> QED BY <1>2, <1>3, <1>4, <1>5, <1>6, <1>7

-----------------------------------------------------------------------------
(* Chunks, as far as they have been cut.                                     *)

(* Chunks up to line n, the current one beginning at line first: they begin  *)
(* at the first line, and each begins within the one before or right after.  *)
Pieces(cs, first, n) ==
  /\ cs \in Seq(Nat \X Nat)
  /\ \A i \in 1 .. Len(cs) : 1 <= cs[i][1] /\ cs[i][1] <= cs[i][2] /\ cs[i][2] <= n
  /\ \A i \in 1 .. Len(cs) - 1 : /\ cs[i + 1][1] \in cs[i][1] .. cs[i][2] + 1
                                 /\ cs[i + 1][2] >= cs[i][2]
  /\ cs = <<>> => first = 1
  /\ cs # <<>> => cs[1][1] = 1 /\ first \in cs[Len(cs)][1] .. cs[Len(cs)][2]

(* A line that alone all but fills a chunk.                                  *)
Long(t, first) == t[first] > ChunkSize - Overlap

(* The first lines of the chunks never go back, and stay only at a long one.  *)
Ids(t, cs, first) ==
  /\ \A i \in 1 .. Len(cs) : /\ cs[i][1] <= first
                             /\ cs[i][1] = first => Long(t, first)
  /\ \A i, j \in 1 .. Len(cs) : i < j => /\ cs[i][1] <= cs[j][1]
                                         /\ cs[i][1] = cs[j][1] => Long(t, cs[i][1])

(* The current chunk begins at a line already read, or the next.             *)
LEMMA FirstInText ==
  ASSUME NEW cs, NEW first, NEW n \in Nat \ {0}, NEW m \in 0 .. n, Pieces(cs, first, m)
  PROVE  first \in 1 .. n
<1>1. CASE cs = <<>>
  BY <1>1 DEF Pieces
<1>2. CASE cs # <<>>
  <2> DEFINE l == Len(cs)
  <2>1. l \in 1 .. Len(cs) /\ cs[l] \in Nat \X Nat
    BY <1>2 DEF Pieces
  <2>2. 1 <= cs[l][1] /\ cs[l][2] <= m /\ first \in cs[l][1] .. cs[l][2]
        /\ cs[l][1] \in Nat /\ cs[l][2] \in Nat
    BY <1>2, <2>1 DEF Pieces
  <2> HIDE DEF l
  <2> QED BY <2>2
<1> QED BY <1>1, <1>2

(* A chunk closed at line n, and the next begun at line s of it.             *)
LEMMA PieceAdded ==
  ASSUME NEW cs, NEW first, NEW n \in Nat \ {0}, NEW m \in 0 .. n,
         Pieces(cs, first, m), NEW s \in first .. n
  PROVE  Pieces(Append(cs, <<first, n>>), s, n)
<1> DEFINE ds == Append(cs, <<first, n>>)
           l  == Len(cs)
<1>1. first \in 1 .. n
  BY FirstInText
<1>2. cs \in Seq(Nat \X Nat) /\ l \in Nat /\ <<first, n>> \in Nat \X Nat
  BY <1>1 DEF Pieces
<1>3. /\ ds \in Seq(Nat \X Nat) /\ Len(ds) = l + 1 /\ ds[l + 1] = <<first, n>>
      /\ \A i \in 1 .. l : ds[i] = cs[i] /\ cs[i] \in Nat \X Nat
      /\ ds # <<>>
  <2> DEFINE p == <<first, n>>
  <2>1. p \in Nat \X Nat
    BY <1>2
  <2> HIDE DEF p
  <2>2. Append(cs, p) \in Seq(Nat \X Nat) /\ Len(Append(cs, p)) = l + 1
        /\ Append(cs, p)[l + 1] = p /\ \A i \in 1 .. l : Append(cs, p)[i] = cs[i]
    BY <1>2, <2>1
  <2>3. \A i \in 1 .. l : cs[i] \in Nat \X Nat
    BY <1>2
  <2>4. Append(cs, p) # <<>>
    <3>1. Len(Append(cs, p)) # 0 /\ Len(<<>>) = 0
      BY <1>2, <2>2
    <3> QED BY <3>1
  <2> QED BY <2>2, <2>3, <2>4 DEF p
<1>4. cs = <<>> <=> l = 0
  BY <1>2
<1> HIDE DEF ds, l
<1>5. \A i \in 1 .. l + 1 : 1 <= ds[i][1] /\ ds[i][1] <= ds[i][2] /\ ds[i][2] <= n
  <2> TAKE i \in 1 .. l + 1
  <2>1. CASE i = l + 1
    BY <1>1, <1>3, <2>1
  <2>2. CASE i \in 1 .. l
    <3>1. 1 <= cs[i][1] /\ cs[i][1] <= cs[i][2] /\ cs[i][2] <= m
      BY <2>2 DEF Pieces, l
    <3>2. cs[i][1] \in Nat /\ cs[i][2] \in Nat /\ ds[i] = cs[i]
      BY <1>3, <2>2
    <3> QED BY <3>1, <3>2
  <2> QED BY <1>2, <2>1, <2>2
<1>6. \A i \in 1 .. l : ds[i + 1][1] \in ds[i][1] .. ds[i][2] + 1 /\ ds[i + 1][2] >= ds[i][2]
  <2> TAKE i \in 1 .. l
  <2>1. CASE i = l
    <3>1. /\ first \in cs[l][1] .. cs[l][2] /\ cs[l][2] <= m
          /\ cs[l][1] \in Nat /\ cs[l][2] \in Nat
      BY <1>2, <1>3, <1>4, <2>1 DEF Pieces, l
    <3>2. ds[i + 1] = <<first, n>> /\ ds[i] = cs[l]
      BY <1>3, <2>1
    <3> QED BY <1>1, <3>1, <3>2
  <2>2. CASE i \in 1 .. l - 1
    <3>1. cs[i + 1][1] \in cs[i][1] .. cs[i][2] + 1 /\ cs[i + 1][2] >= cs[i][2]
      BY <2>2 DEF Pieces, l
    <3>2. i \in 1 .. l /\ i + 1 \in 1 .. l
      BY <1>2, <2>2
    <3>3. ds[i] = cs[i] /\ ds[i + 1] = cs[i + 1]
      BY <1>3, <3>2
    <3> QED BY <3>1, <3>3
  <2> QED BY <1>2, <2>1, <2>2
<1>7. ds[1][1] = 1
  <2>1. CASE l = 0
    BY <1>2, <1>3, <1>4, <2>1 DEF Pieces
  <2>2. CASE l # 0
    BY <1>2, <1>3, <1>4, <2>2 DEF Pieces
  <2> QED BY <2>1, <2>2
<1>8. s \in ds[l + 1][1] .. ds[l + 1][2]
  BY <1>1, <1>3
<1>9. Len(ds) - 1 = l
  BY <1>2, <1>3
<1> QED BY <1>3, <1>5, <1>6, <1>7, <1>8, <1>9 DEF Pieces, ds

(* Reading on without cutting changes nothing.                               *)
LEMMA PiecesStay ==
  ASSUME NEW cs, NEW first, NEW n \in Nat, NEW m \in 0 .. n, Pieces(cs, first, m)
  PROVE  Pieces(cs, first, n)
<1>1. ASSUME NEW i \in 1 .. Len(cs) PROVE cs[i][2] <= n
  <2>1. cs[i] \in Nat \X Nat /\ cs[i][2] <= m
    BY DEF Pieces
  <2> QED BY <2>1
<1> QED BY <1>1 DEF Pieces

(* Chunks that end with the text cover it.                                   *)
LEMMA PiecesCover ==
  ASSUME NEW t \in Seq(Nat), NEW cs, NEW first, Pieces(cs, first, Len(t)), cs # <<>>,
         cs[Len(cs)][2] = Len(t)
  PROVE  Covers(t, cs)
  BY DEF Pieces, Covers

(* A chunk cut adds its first line, which only a long line repeats.          *)
LEMMA IdAdded ==
  ASSUME NEW t, NEW cs \in Seq(Nat \X Nat), NEW first \in Nat, NEW n \in Nat,
         Ids(t, cs, first), NEW s \in Nat, first <= s, s = first => Long(t, first)
  PROVE  Ids(t, Append(cs, <<first, n>>), s)
<1> DEFINE ds == Append(cs, <<first, n>>)
           l  == Len(cs)
<1>1. /\ l \in Nat /\ Len(ds) = l + 1 /\ ds[l + 1][1] = first
      /\ \A i \in 1 .. l : ds[i] = cs[i] /\ cs[i][1] \in Nat
  OBVIOUS
<1> HIDE DEF ds
<1>2. \A i \in 1 .. l : cs[i][1] <= first /\ (cs[i][1] = first => Long(t, first))
  BY DEF Ids
<1>3. ASSUME NEW i \in 1 .. l + 1
      PROVE  ds[i][1] <= s /\ (ds[i][1] = s => Long(t, s))
  <2>1. CASE i = l + 1
    BY <1>1, <2>1
  <2>2. CASE i \in 1 .. l
    BY <1>1, <1>2, <2>2
  <2> QED BY <1>1, <2>1, <2>2
<1>4. ASSUME NEW i \in 1 .. l + 1, NEW j \in 1 .. l + 1, i < j
      PROVE  ds[i][1] <= ds[j][1] /\ (ds[i][1] = ds[j][1] => Long(t, ds[i][1]))
  <2>1. i \in 1 .. l
    BY <1>1, <1>4
  <2>2. CASE j = l + 1
    BY <1>1, <1>2, <2>1, <2>2
  <2>3. CASE j \in 1 .. l
    BY <1>1, <1>4, <2>1, <2>3 DEF Ids
  <2> QED BY <1>1, <2>2, <2>3
<1> QED BY <1>1, <1>3, <1>4 DEF Ids, ds

-----------------------------------------------------------------------------
(* Both ways of cutting a text.                                              *)

(* One line more: the current chunk is closed with it, or goes on.           *)
SplitStep(t, p, n) ==
  IF Chars(t, p.first, n) >= ChunkSize
  THEN [chunks |-> Append(p.chunks, <<p.first, n>>), first |-> OverlapFrom(t, p.first, n)]
  ELSE p

FastStep(t, p, n) ==
  IF Chars(t, p.first, n) >= ChunkSize \/ n = Len(t)
  THEN [chunks |-> Append(p.chunks, <<p.first, n>>), first |-> FastOverlapFrom(t, p.first, n)]
  ELSE p

(* After each line: the chunks of the text so far, by its equation.          *)
SplitBody(t, N, f) ==
  [n \in 0 .. N |-> IF n = 0 THEN [chunks |-> <<>>, first |-> 1] ELSE SplitStep(t, f[n - 1], n)]

SplitAfter(t) == CHOOSE f : f = SplitBody(t, Len(t), f)

(* The chunks so far satisfy the equation of the loop over the lines ...     *)
LEMMA SplitEquation ==
  ASSUME NEW t \in Seq(Nat)
  PROVE  /\ Split(t) = SplitAfter(t)[Len(t)]
         /\ SplitAfter(t) = SplitBody(t, Len(t), SplitAfter(t))
<1> DEFINE N == Len(t)
           S == {n \in Nat : n <= N => \E f : f = SplitBody(t, n, f)}
<1>1. N \in Nat
  OBVIOUS
<1>2. 0 \in S
  <2>1. [k \in 0 .. 0 |-> [chunks |-> <<>>, first |-> 1]]
          = SplitBody(t, 0, [k \in 0 .. 0 |-> [chunks |-> <<>>, first |-> 1]])
    BY DEF SplitBody
  <2> QED BY <2>1
<1>3. ASSUME NEW n \in 1 .. N, n - 1 \in S PROVE n \in S
  <2>1. n - 1 <= N
    BY <1>1
  <2>2. PICK h : h = SplitBody(t, n - 1, h)
    BY <1>3, <2>1
  <2> DEFINE g == [k \in 0 .. n |-> IF k = n THEN SplitStep(t, h[n - 1], n) ELSE h[k]]
  <2>3. /\ h[0] = [chunks |-> <<>>, first |-> 1]
        /\ \A k \in 1 .. n - 1 : h[k] = SplitStep(t, h[k - 1], k)
    BY <1>1, <2>2 DEF SplitBody
  <2>4. \A k \in 0 .. n :
          g[k] = IF k = 0 THEN [chunks |-> <<>>, first |-> 1] ELSE SplitStep(t, g[k - 1], k)
    BY <1>1, <2>3
  <2>5. g = SplitBody(t, n, g)
    BY <1>1, <2>4 DEF SplitBody
  <2>6. \E f : f = SplitBody(t, n, f)
    <3> HIDE DEF g
    <3> QED BY <2>5
  <2> QED BY <1>1, <2>6
<1>4. N \in S
  <2> HIDE DEF S, N
  <2>1. \A n \in 0 .. N : n \in S
    BY <1>1, <1>2, <1>3, AllUpTo
  <2> QED BY <1>1, <2>1
<1>5. PICK f : f = SplitBody(t, N, f)
  BY <1>1, <1>4
<1>6. Split(t) = SplitAfter(t)[Len(t)]
  BY DEF Split, SplitStep, SplitAfter, SplitBody
<1>7. SplitAfter(t) = SplitBody(t, N, SplitAfter(t))
  BY <1>5 DEF SplitAfter
<1> QED BY <1>6, <1>7

(* The same for the native splitter.                                         *)
FastBody(t, N, f) ==
  [n \in 0 .. N |-> IF n = 0 THEN [chunks |-> <<>>, first |-> 1] ELSE FastStep(t, f[n - 1], n)]

FastAfter(t) == CHOOSE f : f = FastBody(t, Len(t), f)

(* ... and so do the native module's.                                        *)
LEMMA FastEquation ==
  ASSUME NEW t \in Seq(Nat)
  PROVE  /\ FastChunks(t) = FastAfter(t)[Len(t)].chunks
         /\ FastAfter(t) = FastBody(t, Len(t), FastAfter(t))
<1> DEFINE N == Len(t)
           S == {n \in Nat : n <= N => \E f : f = FastBody(t, n, f)}
<1>1. N \in Nat
  OBVIOUS
<1>2. 0 \in S
  <2>1. [k \in 0 .. 0 |-> [chunks |-> <<>>, first |-> 1]]
          = FastBody(t, 0, [k \in 0 .. 0 |-> [chunks |-> <<>>, first |-> 1]])
    BY DEF FastBody
  <2> QED BY <2>1
<1>3. ASSUME NEW n \in 1 .. N, n - 1 \in S PROVE n \in S
  <2>1. n - 1 <= N
    BY <1>1
  <2>2. PICK h : h = FastBody(t, n - 1, h)
    BY <1>3, <2>1
  <2> DEFINE g == [k \in 0 .. n |-> IF k = n THEN FastStep(t, h[n - 1], n) ELSE h[k]]
  <2>3. /\ h[0] = [chunks |-> <<>>, first |-> 1]
        /\ \A k \in 1 .. n - 1 : h[k] = FastStep(t, h[k - 1], k)
    BY <1>1, <2>2 DEF FastBody
  <2>4. \A k \in 0 .. n :
          g[k] = IF k = 0 THEN [chunks |-> <<>>, first |-> 1] ELSE FastStep(t, g[k - 1], k)
    BY <1>1, <2>3
  <2>5. g = FastBody(t, n, g)
    BY <1>1, <2>4 DEF FastBody
  <2>6. \E f : f = FastBody(t, n, f)
    <3> HIDE DEF g
    <3> QED BY <2>5
  <2> QED BY <1>1, <2>6
<1>4. N \in S
  <2> HIDE DEF S, N
  <2>1. \A n \in 0 .. N : n \in S
    BY <1>1, <1>2, <1>3, AllUpTo
  <2> QED BY <1>1, <2>1
<1>5. PICK f : f = FastBody(t, N, f)
  BY <1>1, <1>4
<1>6. FastChunks(t) = FastAfter(t)[Len(t)].chunks
  BY DEF FastChunks, FastStep, FastAfter, FastBody
<1>7. FastAfter(t) = FastBody(t, N, FastAfter(t))
  BY <1>5 DEF FastAfter
<1> QED BY <1>6, <1>7

(* The overlap begins within the chunk, at its first line only if that is    *)
(* long.                                                                     *)
LEMMA OverlapWithin ==
  ASSUME NEW t \in Seq(Nat), NEW first \in 1 .. Len(t), NEW last \in first .. Len(t),
         Chars(t, first, last) >= ChunkSize
  PROVE  /\ OverlapFrom(t, first, last) \in first .. last
         /\ OverlapFrom(t, first, last) = first => Long(t, first)
<1> DEFINE enough == {s \in first .. last : Chars(t, s, last) >= Overlap}
           T == {last - s : s \in enough}
<1>1. first \in Nat /\ last \in Nat /\ first <= last /\ Len(t) \in Nat
  OBVIOUS
<1>2. ChunkSize \in Nat /\ Overlap \in Nat /\ 1 <= Overlap /\ Overlap <= ChunkSize
  BY ChunksAssumption
<1>3. Chars(t, first, last) \in Nat
  BY CharsOf
<1>4. first \in enough
  BY <1>1, <1>2, <1>3
<1>5. T \in SUBSET Nat /\ T # {}
  BY <1>1, <1>4
<1>6. PICK d \in T : \A e \in T : d <= e
  BY <1>5, LeastNat
<1>7. PICK s \in enough : d = last - s
  BY <1>6
<1>8. \A r \in enough : r <= s
  <2> TAKE r \in enough
  <2>1. last - r \in T /\ r \in Int /\ s \in Int
    BY <1>1
  <2>2. last - s <= last - r
    BY <1>6, <1>7, <2>1
  <2> QED BY <1>1, <2>1, <2>2
<1>9. OverlapFrom(t, first, last) = CHOOSE q \in enough : \A r \in enough : r <= q
  BY <1>4 DEF OverlapFrom
<1> DEFINE o == OverlapFrom(t, first, last)
<1>10. o \in enough /\ \A r \in enough : r <= o
  <2> HIDE DEF enough
  <2> QED BY <1>7, <1>8, <1>9
<1> HIDE DEF o
<1>11. ASSUME o = first PROVE Long(t, first)
  <2>1. CASE first = last
    <3>1. Chars(t, first, last) = t[first] + 0 /\ t[first] \in Nat
      BY <2>1, CharsOf
    <3> QED BY <1>2, <3>1 DEF Long
  <2>2. CASE first < last
    <3>1. first + 1 \in first .. last /\ first + 1 \in 1 .. Len(t) /\ last \in first + 1 .. Len(t)
      BY <1>1, <2>2
    <3>2. first + 1 \notin enough
      BY <1>1, <1>10, <1>11
    <3>3. Chars(t, first + 1, last) \in Nat
      BY <3>1, CharsOf
    <3>4. Chars(t, first + 1, last) < Overlap
      BY <1>2, <3>1, <3>2, <3>3
    <3>5. Chars(t, first, last) = t[first] + Chars(t, first + 1, last) /\ t[first] \in Nat
      BY <1>1, <2>2, CharsOf
    <3> QED BY <1>2, <1>3, <3>3, <3>4, <3>5 DEF Long
  <2> QED BY <1>1, <2>1, <2>2
<1> QED BY <1>10, <1>11 DEF o

(* The native splitter's begins within the chunk.                            *)
LEMMA FastOverlapWithin ==
  ASSUME NEW t \in Seq(Nat), NEW first \in 1 .. Len(t), NEW last \in first .. Len(t)
  PROVE  FastOverlapFrom(t, first, last) \in first .. last
<1> DEFINE Starts(s) == s = last \/ Chars(t, s, last) <= Overlap
           T == {s \in first .. last : Starts(s)}
<1>1. first \in Nat /\ last \in Nat /\ first <= last /\ Len(t) \in Nat
  OBVIOUS
<1>2. T \in SUBSET Nat /\ last \in T
  BY <1>1
<1>3. PICK s \in T : \A r \in T : s <= r
  BY <1>2, LeastNat
<1>4. s \in first .. last /\ Starts(s)
  BY <1>3
<1>5. s = first \/ Chars(t, s - 1, last) > Overlap
  <2>1. SUFFICES ASSUME s # first PROVE Chars(t, s - 1, last) > Overlap
    OBVIOUS
  <2>2. s - 1 \in first .. last /\ s - 1 \in 1 .. Len(t) /\ last \in s - 1 .. Len(t)
    BY <1>1, <1>4, <2>1
  <2>3. s - 1 \notin T
    BY <1>1, <1>3, <1>4
  <2>4. Chars(t, s - 1, last) \in Nat
    BY <2>2, CharsOf
  <2> QED BY <2>2, <2>3, <2>4, ChunksAssumption
<1>6. \E q \in first .. last : /\ q = last \/ Chars(t, q, last) <= Overlap
                               /\ q = first \/ Chars(t, q - 1, last) > Overlap
  BY <1>4, <1>5
<1> QED BY <1>6 DEF FastOverlapFrom

(* What the splitter has after line n.                                       *)
LEMMA SplitInduction ==
  ASSUME NEW t \in Seq(Nat), NEW n \in 0 .. Len(t)
  PROVE  LET p == SplitAfter(t)[n] IN Pieces(p.chunks, p.first, n) /\ Ids(t, p.chunks, p.first)
<1> DEFINE f == SplitAfter(t)
           Good(p, k) == Pieces(p.chunks, p.first, k) /\ Ids(t, p.chunks, p.first)
           S == {k \in Nat : Good(f[k], k)}
<1>1. f = SplitBody(t, Len(t), f)
  BY SplitEquation
<1>2. Len(t) \in Nat
  OBVIOUS
<1>3. f[0] = [chunks |-> <<>>, first |-> 1]
  BY <1>1, <1>2 DEF SplitBody
<1>4. \A k \in 1 .. Len(t) : f[k] = SplitStep(t, f[k - 1], k)
  BY <1>1, <1>2 DEF SplitBody
<1> HIDE DEF f
<1>5. 0 \in S
  <2>1. <<>> \in Seq(Nat \X Nat) /\ Len(<<>>) = 0
    OBVIOUS
  <2>2. Pieces(<<>>, 1, 0)
    BY <2>1 DEF Pieces
  <2>3. Ids(t, <<>>, 1)
    BY <2>1 DEF Ids
  <2> QED BY <1>3, <2>2, <2>3
<1>6. ASSUME NEW k \in 1 .. Len(t), k - 1 \in S PROVE k \in S
  <2> DEFINE p == f[k - 1]
             c == p.chunks
             s == OverlapFrom(t, p.first, k)
  <2>1. Pieces(c, p.first, k - 1) /\ Ids(t, c, p.first)
    BY <1>6
  <2>2. k \in Nat \ {0} /\ k - 1 \in 0 .. k /\ k \in 1 .. Len(t)
    BY <1>2
  <2>3. f[k] = SplitStep(t, p, k)
    BY <1>4
  <2> HIDE DEF p
  <2>4. p.first \in 1 .. k
    BY <2>1, <2>2, FirstInText
  <2>5. CASE Chars(t, p.first, k) >= ChunkSize
    <3>1. p.first \in 1 .. Len(t) /\ k \in p.first .. Len(t) /\ p.first \in Nat
      BY <2>2, <2>4
    <3>2. s \in p.first .. k /\ (s = p.first => Long(t, p.first))
      BY <2>5, <3>1, OverlapWithin
    <3> HIDE DEF s
    <3>3. Pieces(Append(c, <<p.first, k>>), s, k)
      BY <2>1, <2>2, <3>2, PieceAdded
    <3>4. c \in Seq(Nat \X Nat) /\ s \in Nat /\ p.first <= s
      BY <2>1, <3>1, <3>2 DEF Pieces
    <3>5. Ids(t, Append(c, <<p.first, k>>), s)
      BY <2>1, <2>2, <3>1, <3>2, <3>4, IdAdded
    <3>6. f[k].chunks = Append(c, <<p.first, k>>) /\ f[k].first = s
      BY <2>3, <2>5 DEF SplitStep, s
    <3> QED BY <2>2, <3>3, <3>5, <3>6
  <2>6. CASE ~(Chars(t, p.first, k) >= ChunkSize)
    <3>1. f[k] = p
      BY <2>3, <2>6 DEF SplitStep
    <3>2. Pieces(c, p.first, k)
      BY <2>1, <2>2, PiecesStay
    <3> QED BY <2>1, <2>2, <3>1, <3>2
  <2> QED BY <2>5, <2>6
<1>7. \A k \in 0 .. Len(t) : k \in S
  <2> HIDE DEF S
  <2> QED BY <1>2, <1>5, <1>6, AllUpTo
<1>8. n \in S
  BY <1>7
<1> QED BY <1>8 DEF f

(* The chunks of every text cover it, and share an id only on a long line.   *)
LEMMA ChunksOfWhole ==
  ASSUME NEW t \in Seq(Nat)
  PROVE  Covers(t, ChunksOf(t)) /\ SameIdOnlyOnLongLine(t, ChunksOf(t))
         /\ ChunksOf(t) \in Seq(Nat \X Nat)
         /\ \A i \in 1 .. Len(ChunksOf(t)) :
              /\ ChunksOf(t)[i][1] \in 1 .. Len(t)
              /\ ChunksOf(t)[i][2] \in ChunksOf(t)[i][1] .. Len(t)
<1>1. CASE t = <<>>
  <2>1. <<>> \in Seq(Nat \X Nat) /\ Len(<<>>) = 0 /\ DOMAIN <<>> = {}
    OBVIOUS
  <2>2. ChunksOf(t) = <<>>
    BY <1>1 DEF ChunksOf
  <2>3. Covers(t, <<>>)
    BY <1>1 DEF Covers
  <2>4. SameIdOnlyOnLongLine(t, <<>>)
    BY <2>1 DEF SameIdOnlyOnLongLine
  <2>5. 1 .. 0 = {}
    OBVIOUS
  <2> QED BY <2>1, <2>2, <2>3, <2>4, <2>5
<1>2. CASE t # <<>>
  <2> DEFINE n  == Len(t)
             p  == SplitAfter(t)[n]
             cs == p.chunks
             ds == Append(cs, <<p.first, n>>)
  <2>1. n \in Nat \ {0} /\ n \in 0 .. n
    BY <1>2
  <2>2. Pieces(cs, p.first, n) /\ Ids(t, cs, p.first)
    BY <2>1, SplitInduction
  <2>3. ChunksOf(t) = ds
    BY <1>2, SplitEquation DEF ChunksOf
  <2> HIDE DEF p
  <2>4. p.first \in 1 .. n
    BY <2>1, <2>2, FirstInText
  <2>5. Pieces(ds, p.first, n)
    BY <2>1, <2>2, <2>4, PieceAdded
  <2>6. cs \in Seq(Nat \X Nat)
    BY <2>2 DEF Pieces
  <2> HIDE DEF n, cs
  <2>7. /\ Len(cs) \in Nat /\ Len(ds) = Len(cs) + 1 /\ ds[Len(cs) + 1] = <<p.first, n>>
        /\ \A i \in 1 .. Len(cs) : ds[i] = cs[i] /\ cs[i] \in Nat \X Nat
        /\ DOMAIN ds = 1 .. Len(cs) + 1
    <3> DEFINE q == <<p.first, n>>
    <3>1. q \in Nat \X Nat
      BY <2>1, <2>4
    <3> HIDE DEF q
    <3>2. /\ Len(Append(cs, q)) = Len(cs) + 1 /\ Append(cs, q)[Len(cs) + 1] = q
          /\ \A i \in 1 .. Len(cs) : Append(cs, q)[i] = cs[i]
          /\ DOMAIN Append(cs, q) = 1 .. Len(cs) + 1
      BY <2>6, <3>1
    <3> QED BY <2>6, <3>2 DEF q
  <2> HIDE DEF ds
  <2>8. ds # <<>> /\ ds[Len(ds)][2] = n
    <3>1. Len(<<>>) = 0 /\ Len(ds) # 0
      BY <2>7
    <3> QED BY <2>7, <3>1
  <2>9. Covers(t, ds)
    BY <2>5, <2>8, PiecesCover DEF n
  <2>10. ASSUME NEW i \in 1 .. Len(cs) + 1, NEW j \in 1 .. Len(cs) + 1, i < j,
                ds[i][1] = ds[j][1]
         PROVE  Long(t, ds[i][1])
    <3>1. i \in 1 .. Len(cs)
      BY <2>7, <2>10
    <3>2. CASE j = Len(cs) + 1
      BY <2>2, <2>7, <2>10, <3>1, <3>2 DEF Ids
    <3>3. CASE j \in 1 .. Len(cs)
      BY <2>2, <2>7, <2>10, <3>1, <3>3 DEF Ids
    <3> QED BY <2>7, <3>2, <3>3
  <2>11. SameIdOnlyOnLongLine(t, ds)
    BY <2>7, <2>10 DEF SameIdOnlyOnLongLine, Long
  <2>12. ASSUME NEW i \in 1 .. Len(ds)
         PROVE  ds[i][1] \in 1 .. n /\ ds[i][2] \in ds[i][1] .. n
    <3>1. ds[i] \in Nat \X Nat /\ 1 <= ds[i][1] /\ ds[i][1] <= ds[i][2] /\ ds[i][2] <= n
      BY <2>5 DEF Pieces
    <3> QED BY <2>1, <3>1
  <2> QED BY <2>3, <2>5, <2>9, <2>11, <2>12 DEF Pieces, n
<1> QED BY <1>1, <1>2

(* What the native splitter has after line n, and that it ends with the      *)
(* text.                                                                     *)
LEMMA FastInduction ==
  ASSUME NEW t \in Seq(Nat), NEW n \in 0 .. Len(t)
  PROVE  /\ Pieces(FastAfter(t)[n].chunks, FastAfter(t)[n].first, n)
         /\ n = Len(t) /\ n # 0 =>
              LET cs == FastAfter(t)[n].chunks IN cs # <<>> /\ cs[Len(cs)][2] = n
<1> DEFINE f == FastAfter(t)
           Good(p, k) == /\ Pieces(p.chunks, p.first, k)
                         /\ k = Len(t) /\ k # 0 =>
                              p.chunks # <<>> /\ p.chunks[Len(p.chunks)][2] = k
           S == {k \in Nat : Good(f[k], k)}
<1>1. f = FastBody(t, Len(t), f)
  BY FastEquation
<1>2. Len(t) \in Nat
  OBVIOUS
<1>3. f[0] = [chunks |-> <<>>, first |-> 1]
  BY <1>1, <1>2 DEF FastBody
<1>4. \A k \in 1 .. Len(t) : f[k] = FastStep(t, f[k - 1], k)
  BY <1>1, <1>2 DEF FastBody
<1> HIDE DEF f
<1>5. 0 \in S
  <2>1. <<>> \in Seq(Nat \X Nat) /\ Len(<<>>) = 0
    OBVIOUS
  <2>2. Pieces(<<>>, 1, 0)
    BY <2>1 DEF Pieces
  <2> QED BY <1>3, <2>2
<1>6. ASSUME NEW k \in 1 .. Len(t), k - 1 \in S PROVE k \in S
  <2> DEFINE p == f[k - 1]
             c == p.chunks
             s == FastOverlapFrom(t, p.first, k)
             closes == Chars(t, p.first, k) >= ChunkSize \/ k = Len(t)
  <2>1. Pieces(c, p.first, k - 1)
    BY <1>6
  <2>2. k \in Nat \ {0} /\ k - 1 \in 0 .. k /\ k \in 1 .. Len(t)
    BY <1>2
  <2>3. f[k] = FastStep(t, p, k)
    BY <1>4
  <2> HIDE DEF p
  <2>4. p.first \in 1 .. k
    BY <2>1, <2>2, FirstInText
  <2>5. CASE closes
    <3>1. p.first \in 1 .. Len(t) /\ k \in p.first .. Len(t) /\ p.first \in Nat
      BY <2>2, <2>4
    <3>2. s \in p.first .. k
      BY <3>1, FastOverlapWithin
    <3>3. f[k].chunks = Append(c, <<p.first, k>>) /\ f[k].first = s
      BY <2>3, <2>5 DEF FastStep
    <3> HIDE DEF s
    <3>4. Pieces(Append(c, <<p.first, k>>), s, k)
      BY <2>1, <2>2, <3>2, PieceAdded
    <3>5. Append(c, <<p.first, k>>) # <<>>
          /\ Append(c, <<p.first, k>>)[Len(Append(c, <<p.first, k>>))][2] = k
      <4> DEFINE q == <<p.first, k>>
      <4>1. c \in Seq(Nat \X Nat) /\ q \in Nat \X Nat /\ q[2] = k
        BY <2>1, <2>2, <3>1 DEF Pieces
      <4> HIDE DEF q
      <4>2. Len(Append(c, q)) = Len(c) + 1 /\ Append(c, q)[Len(c) + 1] = q /\ Len(c) \in Nat
        BY <4>1
      <4>3. Len(<<>>) = 0
        OBVIOUS
      <4>4. Append(c, q) # <<>>
        <5>1. Len(Append(c, q)) # 0
          BY <4>2
        <5> QED BY ONLY <4>3, <5>1, Zenon
      <4>5. Append(c, q)[Len(Append(c, q))][2] = k
        BY <4>1, <4>2
      <4> QED BY <4>4, <4>5 DEF q
    <3> QED BY <2>2, <3>3, <3>4, <3>5
  <2>6. CASE ~closes
    <3>1. f[k] = p /\ k # Len(t)
      BY <2>3, <2>6 DEF FastStep
    <3>2. Pieces(c, p.first, k)
      BY <2>1, <2>2, PiecesStay
    <3> QED BY <2>1, <2>2, <3>1, <3>2
  <2> QED BY <2>5, <2>6
<1>7. \A k \in 0 .. Len(t) : k \in S
  <2> HIDE DEF S
  <2> QED BY <1>2, <1>5, <1>6, AllUpTo
<1>8. n \in S
  BY <1>7
<1> QED BY <1>8 DEF f

(* The native module's chunks leave no line out.                             *)
LEMMA FastChunksWhole ==
  ASSUME NEW t \in Seq(Nat)
  PROVE  Covers(t, FastChunks(t))
<1> DEFINE n  == Len(t)
           cs == FastAfter(t)[n].chunks
<1>1. SUFFICES ASSUME t # <<>> PROVE Covers(t, cs)
  BY FastEquation DEF Covers
<1>2. n \in 0 .. Len(t) /\ n = Len(t) /\ n # 0
  BY <1>1
<1>3. Pieces(cs, FastAfter(t)[n].first, n) /\ cs # <<>> /\ cs[Len(cs)][2] = n
  BY <1>2, FastInduction
<1> HIDE DEF cs
<1> QED BY <1>3, PiecesCover

-----------------------------------------------------------------------------
(* The size a list of chunks is put with.                                    *)

(* The size of a text's chunks, by the equation of its sum.                  *)
SizeBody(text, cs, N, f) ==
  [n \in 0 .. N |-> IF n = 0 THEN 1 ELSE f[n - 1] + Chars(text, cs[n][1], cs[n][2])]

(* A function with the sum's equation exists ...                             *)
LEMMA SizeExists ==
  ASSUME NEW text, NEW cs \in Seq(Nat \X Nat)
  PROVE  \E f : f = SizeBody(text, cs, Len(cs), f)
<1> DEFINE N == Len(cs)
           S == {n \in Nat : n <= N => \E f : f = SizeBody(text, cs, n, f)}
<1>1. N \in Nat
  OBVIOUS
<1>2. 0 \in S
  <2>1. [k \in 0 .. 0 |-> 1] = SizeBody(text, cs, 0, [k \in 0 .. 0 |-> 1])
    BY DEF SizeBody
  <2> QED BY <2>1
<1>3. ASSUME NEW n \in 1 .. N, n - 1 \in S PROVE n \in S
  <2>1. n - 1 <= N
    BY <1>1
  <2>2. PICK h : h = SizeBody(text, cs, n - 1, h)
    BY <1>3, <2>1
  <2> DEFINE g == [k \in 0 .. n |->
                  IF k = n THEN h[n - 1] + Chars(text, cs[n][1], cs[n][2]) ELSE h[k]]
  <2>3. h[0] = 1 /\ \A k \in 1 .. n - 1 : h[k] = h[k - 1] + Chars(text, cs[k][1], cs[k][2])
    BY <1>1, <2>2 DEF SizeBody
  <2>4. \A k \in 0 .. n : g[k] = IF k = 0 THEN 1 ELSE g[k - 1] + Chars(text, cs[k][1], cs[k][2])
    BY <1>1, <2>3
  <2>5. g = SizeBody(text, cs, n, g)
    BY <1>1, <2>4 DEF SizeBody
  <2>6. \E f : f = SizeBody(text, cs, n, f)
    <3> HIDE DEF g
    <3> QED BY <2>5
  <2> QED BY <1>1, <2>6
<1>4. N \in S
  <2> HIDE DEF S, N
  <2>1. \A n \in 0 .. N : n \in S
    BY <1>1, <1>2, <1>3, AllUpTo
  <2> QED BY <1>1, <2>1
<1>5. PICK f : f = SizeBody(text, cs, N, f)
  BY <1>1, <1>4
<1> QED BY <1>5

(* ... and its value is a natural number.                                    *)
LEMMA ChunksSizeIsNatural ==
  ASSUME NEW text \in Seq(Nat)
  PROVE  ChunksSize(text) \in Nat
<1> DEFINE cs == ChunksOf(text)
           f  == CHOOSE g : g = SizeBody(text, cs, Len(cs), g)
           S  == {n \in Nat : f[n] \in Nat}
<1>1. /\ cs \in Seq(Nat \X Nat)
      /\ \A i \in 1 .. Len(cs) : cs[i][1] \in 1 .. Len(text) /\ cs[i][2] \in cs[i][1] .. Len(text)
  BY ChunksOfWhole
<1>2. ChunksSize(text) = f[Len(cs)]
  BY DEF ChunksSize, SizeBody
<1> HIDE DEF cs
<1>3. f = SizeBody(text, cs, Len(cs), f)
  BY <1>1, SizeExists
<1> HIDE DEF f
<1>4. Len(cs) \in Nat
  BY <1>1
<1>5. 0 \in S
  BY <1>3, <1>4 DEF SizeBody
<1>6. ASSUME NEW n \in 1 .. Len(cs), n - 1 \in S PROVE n \in S
  <2>1. f[n] = f[n - 1] + Chars(text, cs[n][1], cs[n][2])
    BY <1>3, <1>4 DEF SizeBody
  <2>2. Chars(text, cs[n][1], cs[n][2]) \in Nat
    BY <1>1, CharsOf
  <2>3. f[n - 1] \in Nat
    BY <1>6
  <2>4. f[n] \in Nat
    BY <2>1, <2>2, <2>3
  <2> QED BY <1>4, <2>4
<1>7. \A n \in 0 .. Len(cs) : n \in S
  <2> HIDE DEF S
  <2> QED BY <1>4, <1>5, <1>6, AllUpTo
<1> QED BY <1>2, <1>4, <1>7

-----------------------------------------------------------------------------
(* Types of the caches and of the jobs that use them.                        *)

JobStates == {"idle", "look", "fill", "again", "ask", "stat", "get", "read", "restat",
              "put", "done", "raised"}
Jobs == [at : JobStates, texts : Seq(Nat), got : Seq(Seq(Nat)), i : Nat, lack : Seq(Nat),
         refused : SUBSET Nat, begun : Nat, time : Nat]

(* A job has as many places for answers as texts, and what it lacks, it      *)
(* lacks at places it has looked at.                                         *)
InPlace(j) ==
  /\ Len(j.got) = Len(j.texts)
  /\ j.i <= Len(j.texts)
  /\ \A n \in 1 .. Len(j.lack) : j.lack[n] \in 1 .. j.i
  /\ j.at = "ask" => j.lack # <<>>
  /\ j.at \in {"stat", "get", "read", "restat", "put"} => Len(j.texts) = 1

(* The types of the caches and of the jobs that use them.                    *)
CachesTypes ==
  /\ side \in {"vectors", "chunks"} /\ native \in BOOLEAN
  /\ cache \in LruTypes
  /\ job \in [Threads -> Jobs] /\ \A t \in Threads : InPlace(job[t])
  /\ jobs \in Nat /\ spoilt \in SUBSET Nat
  /\ disk \in [time : Nat, text : Seq(Nat) \cup {NoFile}]

(* A look-up finds the value of an entry of its key, or nothing.             *)
LEMMA GetFinds ==
  ASSUME NEW c \in LruTypes, NEW k
  PROVE  /\ Get(c, k) \in Seq(Nat)
         /\ Get(c, k) # None => \E e \in Holds(c) : e.key = k /\ e.value = Get(c, k)
<1>1. CASE k \in Keys(c)
  BY <1>1, PlaceFound DEF Get, Sized
<1>2. CASE k \notin Keys(c)
  <2>1. <<>> \in Seq(Nat)
    OBVIOUS
  <2> QED BY <1>2, <2>1 DEF Get, None
<1> QED BY <1>1, <1>2

(* Facts about short sequences that the provers need spelled out.            *)
LEMMA SeqFacts ==
  /\ <<>> \in Seq(Nat) /\ <<>> \in Seq(Seq(Nat)) /\ Len(<<>>) = 0
  /\ \A n \in Nat : <<n>> \in Seq(Nat) /\ <<n>> # <<>> /\ Vector(n) \in Seq(Nat) /\ Vector(n) # None
  /\ \A s \in Seq(Nat) : <<s>> \in Seq(Seq(Nat)) /\ Len(<<s>>) = 1 /\ <<s>>[1] = s
  /\ VectorSize \in Nat
  /\ NoFile \notin Seq(Nat)
<1>1. <<>> \in Seq(Nat) /\ <<>> \in Seq(Seq(Nat)) /\ Len(<<>>) = 0
  OBVIOUS
<1>2. \A n \in Nat : <<n>> \in Seq(Nat) /\ <<n>> # <<>>
  OBVIOUS
<1>3. \A s \in Seq(Nat) : <<s>> \in Seq(Seq(Nat)) /\ Len(<<s>>) = 1 /\ <<s>>[1] = s
  OBVIOUS
<1>4. NoFile \notin Seq(Nat)
  <2>1. SUFFICES ASSUME <<-1>> \in Seq(Nat) PROVE FALSE
    BY DEF NoFile
  <2>2. <<-1>>[1] \in Nat
    <3>1. 1 \in 1 .. Len(<<-1>>)
      OBVIOUS
    <3> HIDE DEF NoFile
    <3> QED BY <2>1, <3>1
  <2>3. <<-1>>[1] = -1
    OBVIOUS
  <2> QED BY <2>2, <2>3
<1> QED BY <1>1, <1>2, <1>3, <1>4 DEF Vector, VectorSize, None

(* An answer in its place.                                                   *)
LEMMA GetsInPlace ==
  ASSUME NEW j \in Jobs, InPlace(j), NEW i \in 1 .. Len(j.texts), NEW v \in Seq(Nat)
  PROVE  /\ Gets(j, i, v) = [j EXCEPT !.got = [j.got EXCEPT ![i] = v]]
         /\ [j.got EXCEPT ![i] = v] \in Seq(Seq(Nat))
         /\ Len([j.got EXCEPT ![i] = v]) = Len(j.texts)
         /\ [j.got EXCEPT ![i] = v][i] = v
         /\ \A n \in 1 .. Len(j.texts) : n # i => [j.got EXCEPT ![i] = v][n] = j.got[n]
<1>1. j.got \in Seq(Seq(Nat)) /\ Len(j.got) = Len(j.texts)
  BY DEF Jobs, InPlace
<1> QED BY <1>1 DEF Gets

(* What is lacking, less the first.                                          *)
LEMMA LackTail ==
  ASSUME NEW s \in Seq(Nat), s # <<>>
  PROVE  /\ Tail(s) \in Seq(Nat) /\ Len(Tail(s)) = Len(s) - 1 /\ Len(s) \in Nat
         /\ 1 \in 1 .. Len(s) /\ s[1] \in Nat
         /\ \A n \in 1 .. Len(Tail(s)) : Tail(s)[n] = s[n + 1] /\ n + 1 \in 1 .. Len(s)
  OBVIOUS

(* What is lacking, and one place more.                                      *)
LEMMA LackMore ==
  ASSUME NEW s \in Seq(Nat), NEW i \in Nat
  PROVE  /\ Append(s, i) \in Seq(Nat) /\ Len(Append(s, i)) = Len(s) + 1 /\ Len(s) \in Nat
         /\ Append(s, i)[Len(s) + 1] = i
         /\ \A n \in 1 .. Len(s) : Append(s, i)[n] = s[n]
  OBVIOUS

-----------------------------------------------------------------------------
(* Jobs that embed texts.                                                    *)

(* A place has its answer, or none because Ollama refused the text or the    *)
(* job still lacks it.                                                       *)
Answered(j, n) == j.got[n] = Vector(j.texts[n])
Unanswered(j, n) ==
  /\ j.got[n] = None
  /\ j.texts[n] \in j.refused \/ \E m \in 1 .. Len(j.lack) : j.lack[m] = n

(* A job that embeds texts: the places it has looked at are accounted for,   *)
(* it is past looking once it has looked at all, and done when it lacks      *)
(* nothing.                                                                  *)
VectorJob(j) ==
  /\ j.at \in {"idle", "look", "fill", "again", "ask", "done"}
  /\ j.at \in {"fill", "again", "ask", "done"} => j.i = Len(j.texts)
  /\ j.at = "done" => j.lack = <<>>
  /\ \A n \in 1 .. j.i : Answered(j, n) \/ Unanswered(j, n)

(* Entries of the cache of vectors hold the vector of their own text.        *)
OwnEntries == \A e \in Holds(cache) : e.value = Vector(e.key)

(* The places of a job, by its type.                                         *)
LEMMA PlacesTyped ==
  ASSUME NEW j \in Jobs, InPlace(j)
  PROVE  /\ j.texts \in Seq(Nat) /\ Len(j.texts) \in Nat /\ j.i \in Nat /\ j.i <= Len(j.texts)
         /\ j.lack \in Seq(Nat) /\ Len(j.lack) \in Nat
         /\ j.got \in Seq(Seq(Nat)) /\ Len(j.got) = Len(j.texts)
         /\ \A n \in 1 .. Len(j.texts) : j.texts[n] \in Nat /\ j.got[n] \in Seq(Nat)
         /\ \A n \in 1 .. Len(j.lack) : j.lack[n] \in 1 .. j.i /\ j.lack[n] \in 1 .. Len(j.texts)
<1>1. j.texts \in Seq(Nat) /\ j.got \in Seq(Seq(Nat)) /\ j.lack \in Seq(Nat) /\ j.i \in Nat
  BY DEF Jobs
<1>2. /\ Len(j.texts) \in Nat /\ Len(j.got) = Len(j.texts) /\ Len(j.lack) \in Nat
      /\ j.i <= Len(j.texts)
  BY <1>1 DEF InPlace
<1>3. \A n \in 1 .. Len(j.texts) : j.texts[n] \in Nat /\ j.got[n] \in Seq(Nat)
  BY <1>1, <1>2
<1>4. \A n \in 1 .. Len(j.lack) : j.lack[n] \in 1 .. j.i
  BY DEF InPlace
<1> QED BY <1>1, <1>2, <1>3, <1>4

(* One look-up more.                                                         *)
LookedUp(j, i, hit) ==
  [Gets(j, i, hit) EXCEPT !.i = i, !.lack = IF hit = None THEN Append(@, i) ELSE @]

(* Its place has the hit or is lacking; the others stay as they were.        *)
LEMMA LookedUpKept ==
  ASSUME NEW j \in Jobs, InPlace(j), j.at = "look", j.i + 1 <= Len(j.texts),
         NEW hit \in Seq(Nat)
  PROVE  LET k == LookedUp(j, j.i + 1, hit)
         IN  /\ k \in Jobs /\ InPlace(k)
             /\ VectorJob(j) /\ hit \in {None, Vector(j.texts[j.i + 1])} => VectorJob(k)
<1> DEFINE i == j.i + 1
           k == LookedUp(j, i, hit)
           g == [j.got EXCEPT ![i] = hit]
           l == IF hit = None THEN Append(j.lack, i) ELSE j.lack
<1>1. /\ j.i \in Nat /\ i \in Nat /\ i \in 1 .. Len(j.texts) /\ Len(j.texts) \in Nat
      /\ j.lack \in Seq(Nat) /\ j.got \in Seq(Seq(Nat)) /\ Len(j.lack) \in Nat
      /\ i = j.i + 1
  BY PlacesTyped
<1> HIDE DEF i
<1>2. /\ Gets(j, i, hit) = [j EXCEPT !.got = g] /\ g \in Seq(Seq(Nat)) /\ Len(g) = Len(j.texts)
      /\ g[i] = hit /\ \A n \in 1 .. Len(j.texts) : n # i => g[n] = j.got[n]
  <2>1. j.got \in Seq(Seq(Nat)) /\ Len(j.got) = Len(j.texts)
    BY PlacesTyped
  <2> QED BY <1>1, <2>1 DEF Gets
<1>3. /\ Append(j.lack, i) \in Seq(Nat) /\ Len(Append(j.lack, i)) = Len(j.lack) + 1
      /\ Append(j.lack, i)[Len(j.lack) + 1] = i
      /\ \A n \in 1 .. Len(j.lack) : Append(j.lack, i)[n] = j.lack[n]
  BY <1>1, LackMore
<1> HIDE DEF g
<1>4. /\ k.at = "look" /\ k.texts = j.texts /\ k.got = g /\ k.i = i /\ k.lack = l
      /\ k.refused = j.refused /\ k \in Jobs
  <2>1. l \in Seq(Nat)
    BY <1>1, <1>3
  <2>2. k = [[j EXCEPT !.got = g] EXCEPT !.i = i, !.lack = l]
    BY <1>2 DEF LookedUp, Jobs
  <2> HIDE DEF l, k
  <2> QED BY <1>1, <1>2, <2>1, <2>2 DEF Jobs
<1> HIDE DEF k
<1>5. \A n \in 1 .. Len(l) : l[n] \in 1 .. i
  <2>1. \A n \in 1 .. Len(j.lack) : j.lack[n] \in 1 .. j.i
    BY DEF InPlace
  <2>2. CASE hit = None
    <3>1. l = Append(j.lack, i)
      BY <2>2
    <3> HIDE DEF l
    <3>2. ASSUME NEW n \in 1 .. Len(j.lack) + 1 PROVE Append(j.lack, i)[n] \in 1 .. i
      <4>1. CASE n = Len(j.lack) + 1
        BY <1>1, <1>3, <4>1
      <4>2. CASE n \in 1 .. Len(j.lack)
        <5>1. j.lack[n] \in 1 .. j.i
          BY <2>1, <4>2
        <5>2. Append(j.lack, i)[n] = j.lack[n]
          BY <1>3, <4>2
        <5> QED BY <1>1, <5>1, <5>2
      <4> QED BY <1>1, <4>1, <4>2
    <3> QED BY <1>3, <3>1, <3>2
  <2>3. CASE hit # None
    BY <1>1, <2>1, <2>3
  <2> QED BY <2>2, <2>3
<1>6. InPlace(k)
  BY <1>1, <1>2, <1>4, <1>5 DEF InPlace
<1>7. ASSUME VectorJob(j), hit \in {None, Vector(j.texts[i])} PROVE VectorJob(k)
  <2>1. ASSUME NEW n \in 1 .. i PROVE Answered(k, n) \/ Unanswered(k, n)
    <3>1. CASE n = i /\ hit = None
      <4>1. Len(l) = Len(j.lack) + 1 /\ l[Len(j.lack) + 1] = n
        BY <1>3, <3>1
      <4>2. Len(j.lack) + 1 \in 1 .. Len(l)
        BY <1>1, <4>1
      <4> QED BY <1>2, <1>4, <3>1, <4>1, <4>2 DEF Unanswered
    <3>2. CASE n = i /\ hit # None
      BY <1>2, <1>4, <1>7, <3>2 DEF Answered
    <3>3. CASE n # i
      <4>1. n \in 1 .. j.i /\ n \in 1 .. Len(j.texts)
        BY <1>1, <3>3
      <4>2. g[n] = j.got[n]
        BY <1>2, <3>3, <4>1
      <4>3. CASE Answered(j, n)
        BY <1>4, <4>2, <4>3 DEF Answered
      <4>4. CASE Unanswered(j, n)
        <5>1. ASSUME NEW m \in 1 .. Len(j.lack), j.lack[m] = n
              PROVE  m \in 1 .. Len(l) /\ l[m] = n
          BY <1>1, <1>3, <5>1
        <5> HIDE DEF l
        <5> QED BY <1>4, <4>2, <4>4, <5>1 DEF Unanswered
      <4> QED BY <1>7, <4>1, <4>3, <4>4 DEF VectorJob
    <3> QED BY <3>1, <3>2, <3>3
  <2> QED BY <1>4, <2>1 DEF VectorJob
<1> QED BY <1>4, <1>6, <1>7 DEF k, i

(* The first lacking place gets its answer, or the text is refused: what is  *)
(* lacking then is the rest.                                                 *)
LEMMA SuppliedKept ==
  ASSUME NEW j \in Jobs, InPlace(j), j.lack # <<>>, NEW k \in Jobs,
         k.texts = j.texts, k.i = j.i, k.lack = Tail(j.lack),
         k.at \in {"fill", "again"}, Len(k.got) = Len(j.got),
         \A n \in 1 .. Len(j.texts) : n # j.lack[1] => k.got[n] = j.got[n],
         j.refused \subseteq k.refused
  PROVE  /\ InPlace(k)
         /\ /\ VectorJob(j) /\ j.at \in {"fill", "again", "ask"}
            /\ \/ k.got[j.lack[1]] = Vector(j.texts[j.lack[1]])
               \/ k.got = j.got /\ j.texts[j.lack[1]] \in k.refused
            => VectorJob(k)
<1> DEFINE l == j.lack
<1>1. /\ l \in Seq(Nat) /\ Len(l) \in Nat /\ j.i \in Nat /\ j.i <= Len(j.texts)
      /\ Len(j.texts) \in Nat
      /\ \A n \in 1 .. Len(l) : l[n] \in 1 .. j.i
  BY PlacesTyped
<1>2. /\ Len(Tail(l)) = Len(l) - 1 /\ 1 \in 1 .. Len(l)
      /\ \A n \in 1 .. Len(Tail(l)) : Tail(l)[n] = l[n + 1] /\ n + 1 \in 1 .. Len(l)
  BY <1>1, LackTail
<1> HIDE DEF l
<1>3. InPlace(k)
  <2>1. \A n \in 1 .. Len(k.lack) : k.lack[n] \in 1 .. k.i
    BY <1>1, <1>2 DEF l
  <2> QED BY <2>1 DEF InPlace
<1>4. ASSUME VectorJob(j), j.at \in {"fill", "again", "ask"},
             \/ k.got[j.lack[1]] = Vector(j.texts[j.lack[1]])
             \/ k.got = j.got /\ j.texts[j.lack[1]] \in k.refused
      PROVE  VectorJob(k)
  <2>1. j.i = Len(j.texts)
    BY <1>4 DEF VectorJob
  <2>2. ASSUME NEW n \in 1 .. k.i PROVE Answered(k, n) \/ Unanswered(k, n)
    <3>1. n \in 1 .. Len(j.texts) /\ n \in 1 .. j.i
      BY <2>1
    <3>2. Answered(j, n) \/ Unanswered(j, n)
      BY <1>4, <3>1 DEF VectorJob
    <3>3. CASE n = j.lack[1]
      <4>1. CASE k.got[n] = Vector(j.texts[n])
        BY <4>1 DEF Answered
      <4>2. CASE k.got = j.got /\ j.texts[n] \in k.refused
        BY <3>2, <4>2 DEF Answered, Unanswered
      <4> QED BY <1>4, <3>3, <4>1, <4>2
    <3>4. CASE n # j.lack[1]
      <4>1. k.got[n] = j.got[n]
        BY <3>1, <3>4
      <4>2. CASE Answered(j, n)
        BY <4>1, <4>2 DEF Answered
      <4>3. CASE Unanswered(j, n)
        <5>1. ASSUME NEW m \in 1 .. Len(l), l[m] = n
              PROVE  \E q \in 1 .. Len(Tail(l)) : Tail(l)[q] = n
          <6>1. m # 1
            BY <3>4, <5>1 DEF l
          <6>2. m - 1 \in 1 .. Len(Tail(l)) /\ (m - 1) + 1 = m
            BY <1>1, <1>2, <6>1
          <6> QED BY <1>2, <5>1, <6>2
        <5> QED BY <4>1, <4>3, <5>1 DEF Unanswered, l
      <4> QED BY <3>2, <4>2, <4>3
    <3> QED BY <3>3, <3>4
  <2> QED BY <1>4, <2>1, <2>2 DEF VectorJob
<1> QED BY <1>3, <1>4

-----------------------------------------------------------------------------
(* The inductive invariant.                                                  *)

(* What a chunking job knows of the file.  What it took at a time is true as  *)
(* long as the file stays, unless the file is spoilt at that time.           *)
OfNow(time, got) ==
  time = disk.time => disk.time \in spoilt \/ (disk.text # NoFile /\ got = <<disk.text>>)
Current(text) == IF text = NoFile THEN <<>> ELSE text

ChunkJob(j) ==
  /\ j.at \in {"idle", "stat", "get", "read", "restat", "put", "done", "raised"}
  /\ j.begun <= disk.time /\ j.time <= disk.time
  /\ j.at \in {"get", "put"} => j.begun <= j.time
  /\ j.at = "get" => (j.time = disk.time => disk.text # NoFile)
  /\ j.at = "restat" => OfNow(disk.time, j.got)
  /\ j.at = "put" => OfNow(j.time, j.got)
  /\ j.at = "done" /\ j.begun = disk.time /\ disk.time \notin spoilt =>
       j.got = <<Current(disk.text)>>

(* No entry is for a time to come, and the one for the file's time holds its  *)
(* text.                                                                     *)
FreshEntry(e) ==
  /\ e.key <= disk.time
  /\ e.key = disk.time /\ disk.time \notin spoilt => e.value = disk.text

VectorsKept ==
  side = "vectors" => OwnEntries /\ \A t \in Threads : VectorJob(job[t])
ChunksKept ==
  side = "chunks" => /\ \A e \in Holds(cache) : FreshEntry(e)
                     /\ \A t \in Threads : ChunkJob(job[t])

CachesInv == CachesTypes /\ SizeIsExact /\ VectorsKept /\ ChunksKept

(* A thread's step, as the next job of the thread.                           *)
LEMMA JobMoves ==
  ASSUME CachesTypes, NEW t \in Threads, NEW k \in Jobs, InPlace(k),
         job' = [job EXCEPT ![t] = k], cache' \in LruTypes, jobs' \in Nat,
         UNCHANGED <<side, native, disk, spoilt>>
  PROVE  /\ CachesTypes'
         /\ job'[t] = k /\ \A u \in Threads : u # t => job'[u] = job[u]
<1>1. job' \in [Threads -> Jobs]
  BY DEF CachesTypes
<1>2. job'[t] = k /\ \A u \in Threads : u # t => job'[u] = job[u]
  BY DEF CachesTypes
<1>3. ASSUME NEW u \in Threads PROVE InPlace(job[u])'
  <2>1. CASE u = t
    BY <1>2, <2>1 DEF InPlace
  <2>2. CASE u # t
    <3>1. InPlace(job[u])
      BY DEF CachesTypes
    <3> QED BY <1>2, <2>2, <3>1 DEF InPlace
  <2> QED BY <2>1, <2>2
<1> QED BY <1>1, <1>2, <1>3 DEF CachesTypes

(* A step of a job that embeds, whose cache gains own entries at most.       *)
LEMMA VectorStep ==
  ASSUME CachesInv, NEW t \in Threads, NEW k \in Jobs, InPlace(k), VectorJob(k),
         side = "vectors",
         job' = [job EXCEPT ![t] = k], cache' \in LruTypes, jobs' \in Nat,
         WellFormed(cache'),
         \A e \in Holds(cache') : e \in Holds(cache) \/ e.value = Vector(e.key),
         UNCHANGED <<side, native, disk, spoilt>>
  PROVE  CachesInv'
<1>1. CachesTypes' /\ job'[t] = k /\ \A u \in Threads : u # t => job'[u] = job[u]
  BY JobMoves DEF CachesInv
<1>2. OwnEntries /\ \A u \in Threads : VectorJob(job[u])
  BY DEF CachesInv, VectorsKept
<1>3. OwnEntries'
  BY <1>2 DEF OwnEntries, Holds
<1>4. ASSUME NEW u \in Threads PROVE VectorJob(job[u])'
  <2>1. VectorJob(job'[u])
    BY <1>1, <1>2
  <2> QED BY <2>1 DEF VectorJob, Answered, Unanswered
<1>5. SizeIsExact'
  BY DEF SizeIsExact, WellFormed, SumTo
<1> QED BY <1>1, <1>3, <1>4, <1>5 DEF CachesInv, VectorsKept, ChunksKept

(* A step of a job that chunks, whose cache gains fresh entries at most.     *)
LEMMA ChunkStep ==
  ASSUME CachesInv, NEW t \in Threads, NEW k \in Jobs, InPlace(k), ChunkJob(k),
         side = "chunks",
         job' = [job EXCEPT ![t] = k], cache' \in LruTypes, jobs' \in Nat,
         WellFormed(cache'),
         \A e \in Holds(cache') : e \in Holds(cache) \/ FreshEntry(e),
         UNCHANGED <<side, native, disk, spoilt>>
  PROVE  CachesInv'
<1>1. CachesTypes' /\ job'[t] = k /\ \A u \in Threads : u # t => job'[u] = job[u]
  BY JobMoves DEF CachesInv
<1>2. /\ \A e \in Holds(cache) : FreshEntry(e)
      /\ \A u \in Threads : ChunkJob(job[u])
  BY DEF CachesInv, ChunksKept
<1>3. ASSUME NEW e \in Holds(cache') PROVE FreshEntry(e)'
  <2>1. FreshEntry(e)
    BY <1>2
  <2> QED BY <2>1 DEF FreshEntry
<1>4. ASSUME NEW u \in Threads PROVE ChunkJob(job[u])'
  <2>1. ChunkJob(job'[u])
    BY <1>1, <1>2
  <2> QED BY <2>1 DEF ChunkJob, OfNow
<1>5. SizeIsExact'
  BY DEF SizeIsExact, WellFormed, SumTo
<1>6. \A e \in Holds(cache)' : FreshEntry(e)'
  BY <1>3 DEF Holds
<1> QED BY <1>1, <1>4, <1>5, <1>6 DEF CachesInv, VectorsKept, ChunksKept

(* Which of the two it is shows in what a thread is doing.                   *)
LEMMA SideOf ==
  ASSUME CachesInv, NEW t \in Threads
  PROVE  /\ job[t].at \in {"look", "fill", "again", "ask"} =>
              side = "vectors" /\ VectorJob(job[t])
         /\ job[t].at \in {"stat", "get", "read", "restat", "put"} =>
              side = "chunks" /\ ChunkJob(job[t])
         /\ \/ side = "vectors" /\ VectorJob(job[t])
            \/ side = "chunks" /\ ChunkJob(job[t])
         /\ job[t] \in Jobs /\ InPlace(job[t])
         /\ cache \in LruTypes /\ WellFormed(cache) /\ jobs \in Nat
         /\ disk \in [time : Nat, text : Seq(Nat) \cup {NoFile}]
<1>1. /\ side \in {"vectors", "chunks"} /\ job[t] \in Jobs /\ InPlace(job[t])
      /\ cache \in LruTypes /\ WellFormed(cache) /\ jobs \in Nat
      /\ disk \in [time : Nat, text : Seq(Nat) \cup {NoFile}]
  BY DEF CachesInv, CachesTypes, SizeIsExact
<1>2. /\ side = "vectors" => VectorJob(job[t])
      /\ side = "chunks" => ChunkJob(job[t])
  BY DEF CachesInv, VectorsKept, ChunksKept
<1>3. VectorJob(job[t]) => job[t].at \notin {"stat", "get", "read", "restat", "put"}
  BY DEF VectorJob
<1>4. ChunkJob(job[t]) => job[t].at \notin {"look", "fill", "again", "ask"}
  BY DEF ChunkJob
<1>5. job[t].at \in {"look", "fill", "again", "ask"} => side = "vectors" /\ VectorJob(job[t])
  BY <1>1, <1>2, <1>4, Zenon
<1>6. job[t].at \in {"stat", "get", "read", "restat", "put"} => side = "chunks" /\ ChunkJob(job[t])
  BY <1>1, <1>2, <1>3, Zenon
<1>7. \/ side = "vectors" /\ VectorJob(job[t])
      \/ side = "chunks" /\ ChunkJob(job[t])
  <2>1. ASSUME side = "vectors" PROVE VectorJob(job[t])
    BY <2>1 DEF CachesInv, VectorsKept
  <2>2. ASSUME side = "chunks" PROVE ChunkJob(job[t])
    BY <2>2 DEF CachesInv, ChunksKept
  <2> QED BY <1>1, <2>1, <2>2
<1> QED BY ONLY <1>1, <1>5, <1>6, <1>7, Zenon

-----------------------------------------------------------------------------
(* Steps that begin, end or move on a job.                                   *)

(* The job's step keeps what is cached as it is: its place and type suffice.  *)
LEMMA CacheStays ==
  ASSUME CachesInv, UNCHANGED cache
  PROVE  /\ cache' \in LruTypes /\ WellFormed(cache')
         /\ \A e \in Holds(cache') : e \in Holds(cache)
<1>1. cache \in LruTypes /\ WellFormed(cache)
  BY DEF CachesInv, CachesTypes, SizeIsExact
<1> QED BY <1>1

(* An idle job has nothing to account for.                                   *)
LEMMA IdleJob ==
  /\ Idle \in Jobs /\ InPlace(Idle) /\ VectorJob(Idle)
  /\ \A j \in {Idle} : j.at = "idle" /\ j.begun = 0 /\ j.time = 0
<1>1. Idle \in Jobs
  BY SeqFacts DEF Idle, Jobs, JobStates
<1>2. InPlace(Idle)
  BY SeqFacts DEF Idle, InPlace
<1>3. VectorJob(Idle)
  BY SeqFacts DEF Idle, VectorJob
<1> QED BY <1>1, <1>2, <1>3 DEF Idle

(* A job begun: nothing looked at, no answers.                               *)
LEMMA BegunJob ==
  ASSUME CachesInv, NEW at \in {"look", "stat"}, NEW texts \in Seq(Nat),
         at = "stat" => Len(texts) = 1
  PROVE  LET k == [Idle EXCEPT !.at = at, !.texts = texts,
                     !.got = [i \in DOMAIN texts |-> None], !.begun = disk.time]
         IN  /\ k \in Jobs /\ InPlace(k)
             /\ at = "look" => VectorJob(k)
             /\ at = "stat" => ChunkJob(k)
<1> DEFINE g == [i \in DOMAIN texts |-> None]
           k == [Idle EXCEPT !.at = at, !.texts = texts, !.got = g, !.begun = disk.time]
<1>1. Len(texts) \in Nat /\ DOMAIN texts = 1 .. Len(texts)
  OBVIOUS
<1>2. g \in Seq(Seq(Nat)) /\ Len(g) = Len(texts)
  <2>1. g \in [1 .. Len(texts) -> Seq(Nat)]
    BY <1>1, SeqFacts DEF None
  <2> QED BY <1>1, <2>1, SeqDef
<1> HIDE DEF g
<1>3. disk.time \in Nat
  BY DEF CachesInv, CachesTypes
<1>4. /\ k.at = at /\ k.texts = texts /\ k.got = g /\ k.i = 0 /\ k.lack = <<>>
      /\ k.refused = {} /\ k.begun = disk.time /\ k.time = 0 /\ k \in Jobs
  BY <1>2, <1>3, IdleJob, SeqFacts DEF Idle, Jobs, JobStates
<1> HIDE DEF k
<1>5. InPlace(k)
  BY <1>1, <1>2, <1>4, SeqFacts DEF InPlace
<1>6. at = "look" => VectorJob(k)
  BY <1>4 DEF VectorJob
<1>7. at = "stat" => ChunkJob(k)
  BY <1>3, <1>4 DEF ChunkJob
<1> QED BY <1>4, <1>5, <1>6, <1>7 DEF k, g

(* A request begins.                                                         *)
LEMMA BeginStep ==
  ASSUME CachesInv, NEW t \in Threads
  PROVE  /\ \A texts \in Batches : BeginEmbeddings(t, texts) => CachesInv'
         /\ BeginChunks(t) => CachesInv'
<1>1. ASSUME NEW texts \in Batches, BeginEmbeddings(t, texts) PROVE CachesInv'
  <2> DEFINE k == [Idle EXCEPT !.at = "look", !.texts = texts,
                     !.got = [i \in DOMAIN texts |-> None], !.begun = disk.time]
  <2>1. texts \in Seq(Nat)
    BY CachesAssumption
  <2>2. k \in Jobs /\ InPlace(k) /\ VectorJob(k)
    BY <2>1, BegunJob
  <2>3. /\ side = "vectors" /\ job' = [job EXCEPT ![t] = k] /\ jobs' = jobs + 1
        /\ UNCHANGED <<side, native, cache, disk, spoilt>>
    BY <1>1 DEF BeginEmbeddings, Begin, files
  <2> HIDE DEF k
  <2>4. jobs' \in Nat
    BY <2>3, SideOf
  <2> QED BY <2>2, <2>3, <2>4, CacheStays, VectorStep
<1>2. ASSUME BeginChunks(t) PROVE CachesInv'
  <2> DEFINE texts == <<0>>
             k == [Idle EXCEPT !.at = "stat", !.texts = texts,
                     !.got = [i \in DOMAIN texts |-> None], !.begun = disk.time]
  <2>1. texts \in Seq(Nat) /\ Len(texts) = 1
    OBVIOUS
  <2>2. /\ side = "chunks" /\ job' = [job EXCEPT ![t] = k] /\ jobs' = jobs + 1
        /\ UNCHANGED <<side, native, cache, disk, spoilt>>
    BY <1>2 DEF BeginChunks, Begin, files
  <2> HIDE DEF texts
  <2>3. k \in Jobs /\ InPlace(k) /\ ChunkJob(k)
    BY <2>1, BegunJob
  <2> HIDE DEF k
  <2>4. jobs' \in Nat
    BY <2>2, SideOf
  <2> QED BY <2>2, <2>3, <2>4, CacheStays, ChunkStep
<1> QED BY <1>1, <1>2

(* A request has been answered.                                              *)
LEMMA FinishStep ==
  ASSUME CachesInv, NEW t \in Threads, Finish(t)
  PROVE  CachesInv'
<1>1. /\ job' = [job EXCEPT ![t] = Idle] /\ UNCHANGED <<side, native, jobs, cache, disk, spoilt>>
  BY DEF Finish, rest, files
<1>2. jobs' \in Nat /\ disk.time \in Nat
  BY <1>1, SideOf
<1>3. ChunkJob(Idle)
  BY <1>2, IdleJob DEF ChunkJob
<1>4. CASE side = "vectors"
  BY <1>1, <1>2, <1>4, IdleJob, CacheStays, VectorStep
<1>5. CASE side = "chunks"
  BY <1>1, <1>2, <1>3, <1>5, IdleJob, CacheStays, ChunkStep
<1> QED BY <1>4, <1>5, SideOf

(* A job that only goes on to another state.                                 *)
LEMMA MovedOn ==
  ASSUME NEW j \in Jobs, InPlace(j), NEW at \in {"fill", "again", "ask", "done"},
         at = "ask" => j.lack # <<>>, VectorJob(j), j.i = Len(j.texts), at = "done" => j.lack = <<>>
  PROVE  LET k == [j EXCEPT !.at = at] IN k \in Jobs /\ InPlace(k) /\ VectorJob(k)
<1> DEFINE k == [j EXCEPT !.at = at]
<1>1. /\ k.at = at /\ k.texts = j.texts /\ k.got = j.got /\ k.i = j.i /\ k.lack = j.lack
      /\ k.refused = j.refused /\ k \in Jobs
  BY DEF Jobs, JobStates
<1> HIDE DEF k
<1>2. InPlace(k)
  BY <1>1 DEF InPlace
<1>3. VectorJob(k)
  BY <1>1 DEF VectorJob, Answered, Unanswered
<1> QED BY <1>1, <1>2, <1>3 DEF k

(* A job has looked at every text, or has been supplied with the last.       *)
LEMMA AskAllStep ==
  ASSUME CachesInv, NEW t \in Threads, AskAll(t) \/ Filled(t)
  PROVE  CachesInv'
<1> DEFINE j == job[t]
<1>1. /\ side = "vectors" /\ VectorJob(j) /\ j \in Jobs /\ InPlace(j) /\ jobs \in Nat
      /\ j.i = Len(j.texts)
  BY SideOf DEF AskAll, Filled, VectorJob
<1>2. PICK at \in {"fill", "again", "done"} :
        /\ job' = [job EXCEPT ![t].at = at]
        /\ at = "done" => j.lack = <<>>
        /\ UNCHANGED <<side, native, jobs, cache, disk, spoilt>>
  BY DEF AskAll, Filled, rest, files
<1> DEFINE k == [j EXCEPT !.at = at]
<1>3. k \in Jobs /\ InPlace(k) /\ VectorJob(k)
  BY <1>1, <1>2, MovedOn
<1>4. job' = [job EXCEPT ![t] = k]
  BY <1>2
<1> HIDE DEF k
<1> QED BY <1>1, <1>2, <1>3, <1>4, CacheStays, VectorStep

-----------------------------------------------------------------------------
(* Steps of the jobs that embed.                                             *)

(* A look-up's hit in a cache of vectors.                                    *)
LEMMA HitIsOwn ==
  ASSUME CachesInv, side = "vectors", NEW text \in Nat
  PROVE  /\ Get(cache, text) \in Seq(Nat)
         /\ Get(cache, text) \in {None, Vector(text)}
         /\ Touch(cache, text) \in LruTypes /\ WellFormed(Touch(cache, text))
         /\ Holds(Touch(cache, text)) \subseteq Holds(cache)
<1>1. cache \in LruTypes /\ WellFormed(cache)
  BY DEF CachesInv, CachesTypes, SizeIsExact
<1>2. OwnEntries
  BY DEF CachesInv, VectorsKept
<1>3. Get(cache, text) # None => Get(cache, text) = Vector(text)
  BY <1>1, <1>2, GetFinds DEF OwnEntries
<1> QED BY <1>1, <1>3, GetFinds, TouchKeeps

(* A text's vector put into a cache of vectors.                              *)
LEMMA VectorPut ==
  ASSUME CachesInv, NEW text \in Nat
  PROVE  LET c == Put(cache, text, Vector(text), VectorSize)
         IN  /\ c \in LruTypes /\ WellFormed(c)
             /\ \A e \in Holds(c) : e \in Holds(cache) \/ e.value = Vector(e.key)
<1>1. cache \in LruTypes /\ WellFormed(cache)
  BY DEF CachesInv, CachesTypes, SizeIsExact
<1>2. Vector(text) \in Seq(Nat) /\ VectorSize \in Nat
  BY SeqFacts
<1> DEFINE c == Put(cache, text, Vector(text), VectorSize)
<1>3. /\ c \in LruTypes /\ WellFormed(c)
      /\ Holds(c) \subseteq
           Holds(cache) \cup {[key |-> text, value |-> Vector(text), size |-> VectorSize]}
  BY <1>1, <1>2, PutKeeps
<1> HIDE DEF c
<1>4. ASSUME NEW e \in Holds(c), e \notin Holds(cache) PROVE e.value = Vector(e.key)
  <2>1. e = [key |-> text, value |-> Vector(text), size |-> VectorSize]
    BY <1>3, <1>4
  <2> QED BY <2>1
<1> QED BY <1>3, <1>4 DEF c

(* One text is looked up.                                                    *)
LEMMA LookUpStep ==
  ASSUME CachesInv, NEW t \in Threads, LookUp(t)
  PROVE  CachesInv'
<1> DEFINE j == job[t]
           i == j.i + 1
           hit == Get(cache, j.texts[i])
           k == LookedUp(j, i, hit)
<1>1. /\ j.at = "look" /\ i <= Len(j.texts) /\ cache' = Touch(cache, j.texts[i])
      /\ UNCHANGED <<side, native, jobs, disk, spoilt>>
  BY DEF LookUp, rest, files
<1>2. job' = [job EXCEPT ![t] = k]
  BY DEF LookUp, LookedUp
<1>3. /\ side = "vectors" /\ VectorJob(j) /\ j \in Jobs /\ InPlace(j) /\ jobs \in Nat
  BY <1>1, SideOf
<1>4. i \in 1 .. Len(j.texts) /\ j.texts[i] \in Nat
  BY <1>1, <1>3, PlacesTyped
<1>5. /\ hit \in Seq(Nat) /\ hit \in {None, Vector(j.texts[i])}
      /\ cache' \in LruTypes /\ WellFormed(cache') /\ Holds(cache') \subseteq Holds(cache)
  BY <1>1, <1>3, <1>4, HitIsOwn
<1> HIDE DEF hit
<1>6. k \in Jobs /\ InPlace(k) /\ VectorJob(k)
  BY <1>1, <1>3, <1>5, LookedUpKept
<1> HIDE DEF k, i, j
<1>7. \A e \in Holds(cache') : e \in Holds(cache)
  BY <1>5
<1>8. jobs' \in Nat
  BY <1>1, <1>3
<1> QED BY <1>1, <1>2, <1>3, <1>5, <1>6, <1>7, <1>8, VectorStep

(* The first lacking text gets its vector.                                   *)
LEMMA Supplied ==
  ASSUME NEW j \in Jobs, InPlace(j), VectorJob(j), j.lack # <<>>,
         j.at \in {"fill", "again", "ask"}, NEW at \in {"fill", "again"},
         NEW k, k = [Gets(j, j.lack[1], Vector(j.texts[j.lack[1]])) EXCEPT
                      !.at = at, !.lack = Tail(@)]
  PROVE  k \in Jobs /\ InPlace(k) /\ VectorJob(k)
<1> DEFINE i == j.lack[1]
           v == Vector(j.texts[i])
           g == [j.got EXCEPT ![i] = v]
           l == Tail(j.lack)
<1>1. i \in 1 .. Len(j.texts) /\ j.texts[i] \in Nat /\ j.lack \in Seq(Nat) /\ l \in Seq(Nat)
  BY PlacesTyped, LackTail
<1>2. v \in Seq(Nat)
  BY <1>1, SeqFacts
<1> HIDE DEF v
<1>3. /\ Gets(j, i, v) = [j EXCEPT !.got = g] /\ g \in Seq(Seq(Nat)) /\ Len(g) = Len(j.got)
      /\ g[i] = v /\ \A n \in 1 .. Len(j.texts) : n # i => g[n] = j.got[n]
  <2>1. j.got \in Seq(Seq(Nat)) /\ Len(j.got) = Len(j.texts)
    BY PlacesTyped
  <2> QED BY <1>1, <1>2, <2>1 DEF Gets
<1>4. k = [[j EXCEPT !.got = g] EXCEPT !.at = at, !.lack = l]
  BY <1>3 DEF Jobs, v
<1> HIDE DEF g, l, i
<1>5. /\ k.at = at /\ k.texts = j.texts /\ k.got = g /\ k.i = j.i /\ k.lack = l
      /\ k.refused = j.refused /\ k \in Jobs
  BY <1>1, <1>3, <1>4 DEF Jobs, JobStates
<1>6. /\ k.texts = j.texts /\ k.i = j.i /\ k.lack = Tail(j.lack) /\ k.at \in {"fill", "again"}
      /\ Len(k.got) = Len(j.got) /\ j.refused \subseteq k.refused
      /\ \A n \in 1 .. Len(j.texts) : n # j.lack[1] => k.got[n] = j.got[n]
      /\ k.got[j.lack[1]] = Vector(j.texts[j.lack[1]])
  BY <1>3, <1>5 DEF i, v, l
<1> QED BY <1>5, <1>6, SuppliedKept

(* The answer to the request for all gives the first lacking text's vector.  *)
LEMMA FillStep ==
  ASSUME CachesInv, NEW t \in Threads, Fill(t)
  PROVE  CachesInv'
<1> DEFINE j == job[t]
           text == j.texts[j.lack[1]]
           k == [Gets(j, j.lack[1], Vector(text)) EXCEPT !.lack = Tail(@)]
           h == [Gets(j, j.lack[1], Vector(text)) EXCEPT !.at = "fill", !.lack = Tail(@)]
<1>1. /\ j.at = "fill" /\ j.lack # <<>> /\ cache' = Put(cache, text, Vector(text), VectorSize)
      /\ job' = [job EXCEPT ![t] = k]
      /\ UNCHANGED <<side, native, jobs, disk, spoilt>>
  BY DEF Fill, rest, files
<1>2. side = "vectors" /\ VectorJob(j) /\ j \in Jobs /\ InPlace(j) /\ jobs \in Nat
  BY <1>1, SideOf
<1>3. text \in Nat
  BY <1>1, <1>2, PlacesTyped, LackTail
<1>4. h \in Jobs /\ InPlace(h) /\ VectorJob(h)
  BY <1>1, <1>2, Supplied
<1>5. h = k
  BY <1>1, <1>2 DEF Jobs, Gets
<1>6. /\ cache' \in LruTypes /\ WellFormed(cache')
      /\ \A e \in Holds(cache') : e \in Holds(cache) \/ e.value = Vector(e.key)
  BY <1>1, <1>3, VectorPut
<1>7. jobs' \in Nat
  BY <1>1, <1>2
<1> HIDE DEF k, h, j, text
<1> QED BY <1>1, <1>2, <1>4, <1>5, <1>6, <1>7, VectorStep

(* The first lacking text is looked up again.                                *)
LEMMA LookAgainStep ==
  ASSUME CachesInv, NEW t \in Threads, LookAgain(t)
  PROVE  CachesInv'
<1> DEFINE j == job[t]
           text == j.texts[j.lack[1]]
           hit == Get(cache, text)
           a == [j EXCEPT !.at = "ask"]
           k == [Gets(j, j.lack[1], hit) EXCEPT !.lack = Tail(@)]
           h == [Gets(j, j.lack[1], Vector(text)) EXCEPT !.at = "again", !.lack = Tail(@)]
<1>1. /\ j.at = "again" /\ j.lack # <<>> /\ cache' = Touch(cache, text)
      /\ job' = [job EXCEPT ![t] = IF hit = None THEN a ELSE k]
      /\ UNCHANGED <<side, native, jobs, disk, spoilt>>
  BY DEF LookAgain, rest, files
<1>2. side = "vectors" /\ VectorJob(j) /\ j \in Jobs /\ InPlace(j) /\ jobs \in Nat
  BY <1>1, SideOf
<1>3. text \in Nat
  BY <1>1, <1>2, PlacesTyped, LackTail
<1>4. /\ hit \in {None, Vector(text)}
      /\ cache' \in LruTypes /\ WellFormed(cache') /\ Holds(cache') \subseteq Holds(cache)
  BY <1>1, <1>2, <1>3, HitIsOwn
<1>5. \A e \in Holds(cache') : e \in Holds(cache)
  BY <1>4
<1>6. jobs' \in Nat
  BY <1>1, <1>2
<1> HIDE DEF hit
<1>7. CASE hit = None
  <2>1. j.i = Len(j.texts)
    BY <1>1, <1>2 DEF VectorJob
  <2>2. a \in Jobs /\ InPlace(a) /\ VectorJob(a)
    BY <1>1, <1>2, <2>1, MovedOn
  <2>3. job' = [job EXCEPT ![t] = a]
    BY <1>1, <1>7
  <2> HIDE DEF a, j, text
  <2> QED BY <1>1, <1>2, <1>4, <1>5, <1>6, <2>2, <2>3, VectorStep
<1>8. CASE hit # None
  <2>1. hit = Vector(text)
    BY <1>4, <1>8
  <2>2. h \in Jobs /\ InPlace(h) /\ VectorJob(h)
    BY <1>1, <1>2, Supplied
  <2>3. h = k
    BY <1>1, <1>2, <2>1 DEF Jobs, Gets
  <2>4. job' = [job EXCEPT ![t] = h]
    BY <1>1, <1>8, <2>3
  <2> HIDE DEF k, h, j, text
  <2> QED BY <1>1, <1>2, <1>4, <1>5, <1>6, <2>2, <2>4, VectorStep
<1> QED BY <1>7, <1>8

(* It is asked for alone.                                                    *)
LEMMA AskOneStep ==
  ASSUME CachesInv, NEW t \in Threads, AskOne(t)
  PROVE  CachesInv'
<1> DEFINE j == job[t]
           text == j.texts[j.lack[1]]
           k == [j EXCEPT !.at = "again", !.lack = Tail(j.lack), !.refused = j.refused \cup {text}]
           h == [Gets(j, j.lack[1], Vector(text)) EXCEPT !.at = "again", !.lack = Tail(@)]
<1>1. /\ j.at = "ask" /\ UNCHANGED <<side, native, jobs, disk, spoilt>>
      /\ \/ cache' = Put(cache, text, Vector(text), VectorSize) /\ job' = [job EXCEPT ![t] = h]
         \/ UNCHANGED cache /\ job' = [job EXCEPT ![t] = k]
  BY DEF AskOne, rest, files
<1>2. side = "vectors" /\ VectorJob(j) /\ j \in Jobs /\ InPlace(j) /\ jobs \in Nat
  BY <1>1, SideOf
<1>3. j.lack # <<>>
  BY <1>1, <1>2 DEF InPlace
<1>4. text \in Nat /\ j.lack \in Seq(Nat) /\ Tail(j.lack) \in Seq(Nat)
  BY <1>2, <1>3, PlacesTyped, LackTail
<1>5. jobs' \in Nat
  BY <1>1, <1>2
<1>6. CASE cache' = Put(cache, text, Vector(text), VectorSize) /\ job' = [job EXCEPT ![t] = h]
  <2>1. h \in Jobs /\ InPlace(h) /\ VectorJob(h)
    BY <1>1, <1>2, <1>3, Supplied
  <2>2. /\ cache' \in LruTypes /\ WellFormed(cache')
        /\ \A e \in Holds(cache') : e \in Holds(cache) \/ e.value = Vector(e.key)
    BY <1>4, <1>6, VectorPut
  <2> HIDE DEF h, j, text
  <2> QED BY <1>1, <1>2, <1>5, <1>6, <2>1, <2>2, VectorStep
<1>7. CASE UNCHANGED cache /\ job' = [job EXCEPT ![t] = k]
  <2>1. /\ k.at = "again" /\ k.texts = j.texts /\ k.got = j.got /\ k.i = j.i
        /\ k.lack = Tail(j.lack) /\ k.refused = j.refused \cup {text} /\ k \in Jobs
    BY <1>2, <1>4 DEF Jobs, JobStates
  <2> HIDE DEF k
  <2>2. InPlace(k) /\ VectorJob(k)
    BY <1>1, <1>2, <1>3, <2>1, SuppliedKept
  <2> HIDE DEF j, text
  <2> QED BY <1>1, <1>2, <1>5, <1>7, <2>1, <2>2, CacheStays, VectorStep
<1> QED BY <1>1, <1>6, <1>7

-----------------------------------------------------------------------------
(* Steps of the jobs that chunk.                                             *)

(* The next job of a thread that chunks: another state, another time or      *)
(* other chunks.                                                             *)
ChunkJobOf(j, at, time, got) == [j EXCEPT !.at = at, !.time = time, !.got = got]

(* It is of its type and in its place.                                       *)
LEMMA ChunkJobMade ==
  ASSUME NEW j \in Jobs, InPlace(j),
         j.at \in {"stat", "get", "read", "restat", "put"},
         NEW at \in {"get", "read", "restat", "put", "done", "raised"},
         NEW time \in Nat, NEW got \in Seq(Seq(Nat)), Len(got) = 1
  PROVE  LET k == ChunkJobOf(j, at, time, got)
         IN  k \in Jobs /\ InPlace(k) /\ k.at = at /\ k.time = time /\ k.got = got
             /\ k.begun = j.begun
<1> DEFINE k == ChunkJobOf(j, at, time, got)
<1>1. /\ k.at = at /\ k.texts = j.texts /\ k.got = got /\ k.i = j.i /\ k.lack = j.lack
      /\ k.time = time /\ k.begun = j.begun /\ k \in Jobs
  BY DEF Jobs, JobStates, ChunkJobOf
<1> HIDE DEF k
<1>2. InPlace(k)
  BY <1>1 DEF InPlace
<1> QED BY <1>1, <1>2 DEF k

(* What the type invariant says of a job that chunks.                        *)
LEMMA ChunkJobTyped ==
  ASSUME CachesInv, NEW t \in Threads,
         job[t].at \in {"stat", "get", "read", "restat", "put"}
  PROVE  /\ side = "chunks" /\ ChunkJob(job[t]) /\ job[t] \in Jobs /\ InPlace(job[t])
         /\ jobs \in Nat /\ cache \in LruTypes /\ WellFormed(cache)
         /\ disk.time \in Nat /\ disk.text \in Seq(Nat) \cup {NoFile}
         /\ job[t].time \in Nat /\ job[t].begun \in Nat /\ job[t].time <= disk.time
         /\ job[t].begun <= disk.time
         /\ job[t].got \in Seq(Seq(Nat)) /\ Len(job[t].got) = 1 /\ job[t].got[1] \in Seq(Nat)
<1>1. /\ side = "chunks" /\ ChunkJob(job[t]) /\ job[t] \in Jobs /\ InPlace(job[t])
      /\ jobs \in Nat /\ cache \in LruTypes /\ WellFormed(cache)
      /\ disk.time \in Nat /\ disk.text \in Seq(Nat) \cup {NoFile}
  BY SideOf
<1>2. job[t].time <= disk.time /\ job[t].begun <= disk.time
  BY <1>1 DEF ChunkJob
<1>3. /\ job[t].time \in Nat /\ job[t].begun \in Nat /\ job[t].got \in Seq(Seq(Nat))
      /\ Len(job[t].got) = 1
  BY <1>1 DEF Jobs, InPlace
<1>4. job[t].got[1] \in Seq(Nat)
  BY <1>3
<1> QED BY <1>1, <1>2, <1>3, <1>4

(* The file's time is taken, before the look-up or before the put.           *)
LEMMA StatStep ==
  ASSUME CachesInv, NEW t \in Threads, Stat(t) \/ Restat(t)
  PROVE  CachesInv'
<1> DEFINE j == job[t]
<1>1. /\ j.at \in {"stat", "restat"}
      /\ UNCHANGED <<side, native, jobs, cache, disk, spoilt>>
  BY DEF Stat, Restat, rest, files
<1>2. PICK at \in {"get", "read", "put", "done"} :
        /\ job' = [job EXCEPT ![t] = [j EXCEPT !.at = at, !.time = disk.time]]
        /\ at = "get" => disk.text # NoFile
        /\ at \in {"put", "done"} => j.at = "restat"
        /\ at = "done" => disk.text = NoFile
  BY DEF Stat, Restat
<1>3. /\ side = "chunks" /\ ChunkJob(j) /\ j \in Jobs /\ InPlace(j) /\ jobs \in Nat
      /\ disk.time \in Nat /\ j.begun <= disk.time
      /\ j.got \in Seq(Seq(Nat)) /\ Len(j.got) = 1
  BY <1>1, ChunkJobTyped
<1> DEFINE k == [j EXCEPT !.at = at, !.time = disk.time]
           h == ChunkJobOf(j, at, disk.time, j.got)
<1>4. h = k
  BY <1>3 DEF Jobs, ChunkJobOf
<1> HIDE DEF k, h
<1>5. /\ k \in Jobs /\ InPlace(k) /\ k.at = at /\ k.time = disk.time /\ k.got = j.got
      /\ k.begun = j.begun
  BY <1>1, <1>3, <1>4, ChunkJobMade DEF h
<1>6. j.at = "restat" => OfNow(disk.time, j.got)
  BY <1>3 DEF ChunkJob
<1>7. ChunkJob(k)
  <2>1. at = "put" => OfNow(disk.time, k.got)
    BY <1>2, <1>5, <1>6
  <2>2. at = "done" => disk.time \in spoilt
    BY <1>2, <1>6 DEF OfNow
  <2> QED BY <1>2, <1>3, <1>5, <2>1, <2>2 DEF ChunkJob
<1>8. jobs' \in Nat /\ job' = [job EXCEPT ![t] = k]
  BY <1>1, <1>2, <1>3 DEF k
<1> HIDE DEF j
<1> QED BY <1>1, <1>3, <1>5, <1>7, <1>8, CacheStays, ChunkStep

(* A hit at the file's time is its text.                                     *)
LEMMA GetChunksStep ==
  ASSUME CachesInv, NEW t \in Threads, GetChunks(t)
  PROVE  CachesInv'
<1> DEFINE j == job[t]
           hit == Get(cache, j.time)
           at == IF hit = None THEN "read" ELSE "done"
           k == [j EXCEPT !.got = <<hit>>, !.at = at]
           h == ChunkJobOf(j, at, j.time, <<hit>>)
<1>1. /\ j.at = "get" /\ cache' = Touch(cache, j.time) /\ job' = [job EXCEPT ![t] = k]
      /\ UNCHANGED <<side, native, jobs, disk, spoilt>>
  BY DEF GetChunks, Key, rest, files
<1>2. /\ side = "chunks" /\ ChunkJob(j) /\ j \in Jobs /\ InPlace(j) /\ jobs \in Nat
      /\ cache \in LruTypes /\ WellFormed(cache)
      /\ disk.time \in Nat /\ j.begun \in Nat /\ j.time \in Nat
      /\ j.time <= disk.time /\ j.begun <= disk.time
  BY <1>1, ChunkJobTyped
<1>3. /\ hit \in Seq(Nat)
      /\ hit # None => \E e \in Holds(cache) : e.key = j.time /\ e.value = hit
      /\ cache' \in LruTypes /\ WellFormed(cache')
      /\ \A e \in Holds(cache') : e \in Holds(cache)
  BY <1>1, <1>2, GetFinds, TouchKeeps
<1> HIDE DEF hit
<1>4. <<hit>> \in Seq(Seq(Nat)) /\ Len(<<hit>>) = 1
  BY <1>3, SeqFacts
<1>5. h = k
  BY <1>2 DEF Jobs, ChunkJobOf
<1> HIDE DEF k, h
<1>6. /\ k \in Jobs /\ InPlace(k) /\ k.at = at /\ k.time = j.time /\ k.got = <<hit>>
      /\ k.begun = j.begun
  <2> DEFINE got == <<hit>>
  <2>1. at \in {"read", "done"} /\ got \in Seq(Seq(Nat)) /\ Len(got) = 1
    BY <1>4
  <2>2. k = ChunkJobOf(j, at, j.time, got)
    BY <1>5 DEF h
  <2> HIDE DEF at, got
  <2>3. k \in Jobs /\ InPlace(k) /\ k.at = at /\ k.time = j.time /\ k.got = got /\ k.begun = j.begun
    BY <1>1, <1>2, <2>1, <2>2, ChunkJobMade
  <2> QED BY <2>3 DEF got
<1>7. ASSUME hit # None, j.begun = disk.time, disk.time \notin spoilt
      PROVE  hit = Current(disk.text)
  <2>1. j.begun <= j.time
    BY <1>1, <1>2 DEF ChunkJob
  <2>2. j.time = disk.time
    BY <1>2, <1>7, <2>1
  <2>3. disk.text # NoFile
    BY <1>1, <1>2, <2>2 DEF ChunkJob
  <2>4. PICK e \in Holds(cache) : e.key = j.time /\ e.value = hit
    BY <1>3, <1>7
  <2>5. FreshEntry(e)
    BY <1>2 DEF CachesInv, ChunksKept
  <2> QED BY <1>7, <2>2, <2>3, <2>4, <2>5 DEF FreshEntry, Current
<1>8. ChunkJob(k)
  BY <1>2, <1>6, <1>7 DEF ChunkJob
<1>9. jobs' \in Nat
  BY <1>1, <1>2
<1> HIDE DEF j, at
<1> QED BY <1>1, <1>2, <1>3, <1>6, <1>8, <1>9, ChunkStep

(* The file is read and cut.                                                 *)
LEMMA ReadStep ==
  ASSUME CachesInv, NEW t \in Threads, Read(t)
  PROVE  CachesInv'
<1> DEFINE j == job[t]
           text == Current(disk.text)
           at == IF text = <<>> THEN "done" ELSE IF native THEN "raised" ELSE "restat"
           k == [j EXCEPT !.got = <<text>>, !.at = at]
           h == ChunkJobOf(j, at, j.time, <<text>>)
<1>1. /\ j.at = "read" /\ job' = [job EXCEPT ![t] = k]
      /\ UNCHANGED <<side, native, jobs, cache, disk, spoilt>>
  BY DEF Read, Current, rest, files
<1>2. /\ side = "chunks" /\ ChunkJob(j) /\ j \in Jobs /\ InPlace(j) /\ jobs \in Nat
      /\ disk.time \in Nat /\ j.begun \in Nat /\ j.time \in Nat
      /\ disk.text \in Seq(Nat) \cup {NoFile}
      /\ j.time <= disk.time /\ j.begun <= disk.time
  BY <1>1, ChunkJobTyped
<1>3. text \in Seq(Nat)
  BY <1>2, SeqFacts DEF Current
<1>4. text # <<>> => disk.text # NoFile /\ text = disk.text
  BY DEF Current
<1> HIDE DEF text
<1>5. <<text>> \in Seq(Seq(Nat)) /\ Len(<<text>>) = 1
  BY <1>3, SeqFacts
<1>6. h = k
  BY <1>2 DEF Jobs, ChunkJobOf
<1>7. at \in {"restat", "done", "raised"}
  OBVIOUS
<1> HIDE DEF k, h
<1>8. /\ k \in Jobs /\ InPlace(k) /\ k.at = at /\ k.time = j.time /\ k.got = <<text>>
      /\ k.begun = j.begun
  <2> DEFINE got == <<text>>
  <2>1. got \in Seq(Seq(Nat)) /\ Len(got) = 1
    BY <1>5
  <2>2. k = ChunkJobOf(j, at, j.time, got)
    BY <1>6 DEF h
  <2> HIDE DEF at, got
  <2>3. k \in Jobs /\ InPlace(k) /\ k.at = at /\ k.time = j.time /\ k.got = got /\ k.begun = j.begun
    BY <1>1, <1>2, <1>7, <2>1, <2>2, ChunkJobMade
  <2> QED BY <2>3 DEF got
<1>9. at = "restat" => OfNow(disk.time, <<text>>)
  BY <1>4 DEF OfNow
<1>10. ChunkJob(k)
  <2> HIDE DEF at
  <2> QED BY <1>2, <1>7, <1>8, <1>9 DEF ChunkJob, text
<1>11. jobs' \in Nat
  BY <1>1, <1>2
<1> HIDE DEF j, at
<1> QED BY <1>1, <1>2, <1>8, <1>10, <1>11, CacheStays, ChunkStep

(* The entry put at the file's time is of its text, or the time is spoilt.   *)
LEMMA PutChunksStep ==
  ASSUME CachesInv, NEW t \in Threads, PutChunks(t)
  PROVE  CachesInv'
<1> DEFINE j == job[t]
           text == j.got[1]
           k == [j EXCEPT !.at = "done"]
           h == ChunkJobOf(j, "done", j.time, j.got)
           e0 == [key |-> j.time, value |-> text, size |-> ChunksSize(text)]
<1>1. /\ j.at = "put" /\ cache' = Put(cache, j.time, text, ChunksSize(text))
      /\ job' = [job EXCEPT ![t] = k]
      /\ UNCHANGED <<side, native, jobs, disk, spoilt>>
  BY DEF PutChunks, Key, rest, files
<1>2. /\ side = "chunks" /\ ChunkJob(j) /\ j \in Jobs /\ InPlace(j) /\ jobs \in Nat
      /\ cache \in LruTypes /\ WellFormed(cache)
      /\ disk.time \in Nat /\ j.begun \in Nat /\ j.time \in Nat
      /\ disk.text \in Seq(Nat) \cup {NoFile}
      /\ j.time <= disk.time /\ j.begun <= disk.time
      /\ j.got \in Seq(Seq(Nat)) /\ Len(j.got) = 1 /\ text \in Seq(Nat)
  BY <1>1, ChunkJobTyped
<1>3. ChunksSize(text) \in Nat
  BY <1>2, ChunksSizeIsNatural
<1>4. /\ cache' \in LruTypes /\ WellFormed(cache')
      /\ Holds(cache') \subseteq Holds(cache) \cup {e0}
  BY <1>1, <1>2, <1>3, PutKeeps
<1>5. j.time = disk.time /\ disk.time \notin spoilt => disk.text # NoFile /\ j.got = <<disk.text>>
  BY <1>1, <1>2 DEF ChunkJob, OfNow
<1>6. FreshEntry(e0)
  <2>1. e0.key = j.time /\ e0.value = text
    OBVIOUS
  <2> HIDE DEF e0
  <2>2. ASSUME j.time = disk.time, disk.time \notin spoilt PROVE text = disk.text
    <3>1. j.got = <<disk.text>>
      BY <1>5, <2>2
    <3> QED BY <3>1
  <2> QED BY <1>2, <2>1, <2>2 DEF FreshEntry
<1>7. h = k
  BY <1>2 DEF Jobs, ChunkJobOf
<1> HIDE DEF k, h
<1>8. /\ k \in Jobs /\ InPlace(k) /\ k.at = "done" /\ k.time = j.time /\ k.got = j.got
      /\ k.begun = j.begun
  BY <1>1, <1>2, <1>7, ChunkJobMade DEF h
<1>9. ASSUME j.begun = disk.time, disk.time \notin spoilt PROVE j.got = <<Current(disk.text)>>
  <2>1. j.begun <= j.time
    BY <1>1, <1>2 DEF ChunkJob
  <2>2. j.time = disk.time
    BY <1>2, <1>9, <2>1
  <2> QED BY <1>5, <1>9, <2>2 DEF Current
<1>10. ChunkJob(k)
  BY <1>2, <1>8, <1>9 DEF ChunkJob
<1>11. \A e \in Holds(cache') : e \in Holds(cache) \/ FreshEntry(e)
  <2> HIDE DEF e0
  <2> QED BY <1>4, <1>6
<1>12. jobs' \in Nat
  BY <1>1, <1>2
<1> HIDE DEF j, text, e0
<1> QED BY <1>1, <1>2, <1>4, <1>8, <1>10, <1>11, <1>12, ChunkStep

(* Entries go.                                                               *)
LEMMA InvalidateStep ==
  ASSUME CachesInv, InvalidateFile
  PROVE  CachesInv'
<1>1. PICK k \in Keys(cache) : cache' = Invalidate(cache, k)
  BY DEF InvalidateFile
<1>2. side = "chunks" /\ UNCHANGED <<side, native, job, jobs, disk, spoilt>>
  BY DEF InvalidateFile, rest, files
<1>3. cache \in LruTypes /\ WellFormed(cache)
  BY DEF CachesInv, CachesTypes, SizeIsExact
<1>4. cache' \in LruTypes /\ WellFormed(cache') /\ Holds(cache') \subseteq Holds(cache)
  BY <1>1, <1>3, InvalidateKeeps
<1>5. CachesTypes'
  BY <1>2, <1>4 DEF CachesInv, CachesTypes, InPlace
<1>6. SizeIsExact'
  BY <1>4 DEF SizeIsExact, WellFormed, SumTo
<1>7. ASSUME NEW e \in Holds(cache') PROVE FreshEntry(e)'
  <2>1. FreshEntry(e)
    BY <1>2, <1>4 DEF CachesInv, ChunksKept
  <2> QED BY <1>2, <2>1 DEF FreshEntry
<1>8. ASSUME NEW t \in Threads PROVE ChunkJob(job[t])'
  <2>1. ChunkJob(job[t])
    BY <1>2 DEF CachesInv, ChunksKept
  <2> QED BY <1>2, <2>1 DEF ChunkJob, OfNow
<1>9. \A e \in Holds(cache)' : FreshEntry(e)'
  BY <1>7 DEF Holds
<1> QED BY <1>2, <1>5, <1>6, <1>8, <1>9 DEF CachesInv, VectorsKept, ChunksKept

(* The file changes: what was taken before is of a time gone by.             *)
LEMMA EditStep ==
  ASSUME CachesInv, NEW text \in NextTexts, Edit(text)
  PROVE  CachesInv'
<1> DEFINE newer == disk.time + 1
<1>1. /\ side = "chunks" /\ disk' = [time |-> newer, text |-> text]
      /\ spoilt' = IF \E t \in Threads : job[t].at = "restat" THEN spoilt \cup {newer} ELSE spoilt
      /\ UNCHANGED <<side, native, jobs, cache, job>>
  BY DEF Edit, rest
<1>2. /\ disk.time \in Nat /\ newer \in Nat /\ newer > disk.time
      /\ disk'.time = newer /\ disk'.text = text
      /\ text \in Seq(Nat) \cup {NoFile} /\ spoilt \in SUBSET Nat
  <2>1. disk.time \in Nat /\ spoilt \in SUBSET Nat
    BY DEF CachesInv, CachesTypes
  <2>2. text \in Seq(Nat) \cup {NoFile}
    BY CachesAssumption
  <2>3. newer \in Nat /\ newer > disk.time
    BY <2>1
  <2> QED BY <1>1, <2>1, <2>2, <2>3
<1> HIDE DEF newer
<1>3. CachesTypes'
  <2>1. spoilt' \in SUBSET Nat
    BY <1>1, <1>2
  <2>2. disk' \in [time : Nat, text : Seq(Nat) \cup {NoFile}]
    BY <1>1, <1>2
  <2> QED BY <1>1, <2>1, <2>2 DEF CachesInv, CachesTypes, InPlace
<1>4. SizeIsExact'
  BY <1>1 DEF CachesInv, SizeIsExact, WellFormed, SumTo
<1>5. ASSUME NEW e \in Holds(cache) PROVE FreshEntry(e)'
  <2>1. e.key <= disk.time /\ e.key \in Nat
    <3>1. e \in Sized
      BY <1>5 DEF CachesInv, CachesTypes, LruTypes, Holds
    <3>2. FreshEntry(e)
      BY <1>1, <1>5 DEF CachesInv, ChunksKept
    <3> QED BY <3>1, <3>2 DEF FreshEntry, Sized
  <2>2. e.key <= newer /\ e.key # newer
    BY <1>2, <2>1
  <2> QED BY <1>2, <2>2 DEF FreshEntry
<1>6. ASSUME NEW t \in Threads PROVE ChunkJob(job[t])'
  <2> DEFINE j == job[t]
  <2>1. ChunkJob(j)
    BY <1>1 DEF CachesInv, ChunksKept
  <2>2. j.begun \in Nat /\ j.time \in Nat
    BY DEF CachesInv, CachesTypes, Jobs
  <2>3. j.begun <= disk.time /\ j.time <= disk.time
    BY <2>1 DEF ChunkJob
  <2>4. j.begun <= newer /\ j.time <= newer /\ j.begun # newer /\ j.time # newer
    BY <1>2, <2>2, <2>3
  <2>5. j.at = "restat" => newer \in spoilt'
    BY <1>1
  <2>6. j = job'[t]
    BY <1>1
  <2> HIDE DEF j
  <2> QED BY <1>2, <2>1, <2>4, <2>5, <2>6 DEF ChunkJob, OfNow
<1>7. \A e \in Holds(cache)' : FreshEntry(e)'
  BY <1>1, <1>5 DEF Holds
<1> QED BY <1>1, <1>3, <1>4, <1>6, <1>7 DEF CachesInv, VectorsKept, ChunksKept

-----------------------------------------------------------------------------
(* The theorems about Caches.                                                *)

(* The invariant holds at first ...                                          *)
LEMMA CachesBegin == CachesInit => CachesInv
<1>1. SUFFICES ASSUME CachesInit PROVE CachesInv
  OBVIOUS
<1>2. /\ side \in {"vectors", "chunks"} /\ native \in BOOLEAN /\ jobs = 0 /\ spoilt = {}
      /\ cache = Empty /\ job = [t \in Threads |-> Idle]
  BY <1>1 DEF CachesInit
<1>3. disk \in [time : Nat, text : Seq(Nat) \cup {NoFile}] /\ disk.time = 1
  <2>1. CASE side = "chunks"
    <3>1. disk \in [time : {1}, text : FirstTexts]
      BY <1>1, <2>1 DEF CachesInit
    <3> QED BY <3>1, CachesAssumption
  <2>2. CASE side = "vectors"
    <3>1. disk \in [time : {1}, text : {<<>>}]
      BY <1>1, <2>2 DEF CachesInit
    <3>2. {<<>>} \subseteq Seq(Nat) \cup {NoFile}
      BY SeqFacts
    <3> HIDE DEF NoFile
    <3> DEFINE S == {<<>>}
    <3>3. disk \in [time : {1}, text : S] /\ S \subseteq Seq(Nat) \cup {NoFile}
      BY <3>1, <3>2
    <3> HIDE DEF S
    <3> QED BY <3>3
  <2> QED BY <1>2, <2>1, <2>2
<1>4. /\ Empty \in LruTypes /\ Holds(Empty) = {} /\ WellFormed(Empty)
  <2>1. <<>> \in Seq(Sized) /\ Len(<<>>) = 0
    OBVIOUS
  <2>2. SumTo(<<>>)[0] = 0
    BY <2>1, SumStep
  <2>3. Empty.entries = <<>> /\ Empty.size = 0 /\ Empty \in LruTypes
    BY <2>1 DEF Empty, LruTypes
  <2>4. DOMAIN Empty.entries = {}
    BY <2>3
  <2> QED BY <2>1, <2>2, <2>3, <2>4, LruAssumption DEF WellFormed, Holds
<1>5. CachesTypes
  BY <1>2, <1>3, <1>4, IdleJob DEF CachesTypes
<1>6. ChunkJob(Idle)
  BY <1>3, IdleJob DEF ChunkJob
<1> QED BY <1>2, <1>4, <1>5, <1>6, IdleJob
        DEF CachesInv, SizeIsExact, VectorsKept, ChunksKept, OwnEntries

(* ... and every step keeps it.                                              *)
LEMMA CachesGoOn == CachesInv /\ [CachesNext]_cachesVars => CachesInv'
<1>1. ASSUME CachesInv, CachesNext PROVE CachesInv'
  <2>1. ASSUME NEW t \in Threads, NEW texts \in Batches, BeginEmbeddings(t, texts) PROVE CachesInv'
    BY <1>1, <2>1, BeginStep
  <2>2. ASSUME NEW t \in Threads, LookUp(t) PROVE CachesInv'
    BY <1>1, <2>2, LookUpStep
  <2>3. ASSUME NEW t \in Threads, AskAll(t) \/ Filled(t) PROVE CachesInv'
    BY <1>1, <2>3, AskAllStep
  <2>4. ASSUME NEW t \in Threads, Fill(t) PROVE CachesInv'
    BY <1>1, <2>4, FillStep
  <2>5. ASSUME NEW t \in Threads, LookAgain(t) PROVE CachesInv'
    BY <1>1, <2>5, LookAgainStep
  <2>6. ASSUME NEW t \in Threads, AskOne(t) PROVE CachesInv'
    BY <1>1, <2>6, AskOneStep
  <2>7. ASSUME NEW t \in Threads, BeginChunks(t) PROVE CachesInv'
    BY <1>1, <2>7, BeginStep
  <2>8. ASSUME NEW t \in Threads, Stat(t) \/ Restat(t) PROVE CachesInv'
    BY <1>1, <2>8, StatStep
  <2>9. ASSUME NEW t \in Threads, GetChunks(t) PROVE CachesInv'
    BY <1>1, <2>9, GetChunksStep
  <2>10. ASSUME NEW t \in Threads, Read(t) PROVE CachesInv'
    BY <1>1, <2>10, ReadStep
  <2>11. ASSUME NEW t \in Threads, PutChunks(t) PROVE CachesInv'
    BY <1>1, <2>11, PutChunksStep
  <2>12. ASSUME NEW t \in Threads, Finish(t) PROVE CachesInv'
    BY <1>1, <2>12, FinishStep
  <2>13. ASSUME NEW text \in NextTexts, Edit(text) PROVE CachesInv'
    BY <1>1, <2>13, EditStep
  <2>14. ASSUME InvalidateFile PROVE CachesInv'
    BY <1>1, <2>14, InvalidateStep
  <2> QED BY <1>1, <2>1, <2>2, <2>3, <2>4, <2>5, <2>6, <2>7, <2>8, <2>9, <2>10, <2>11,
             <2>12, <2>13, <2>14 DEF CachesNext
<1>2. ASSUME CachesInv, UNCHANGED cachesVars PROVE CachesInv'
  <2>1. UNCHANGED <<side, native, cache, job, jobs, disk, spoilt>>
    BY <1>2 DEF cachesVars
  <2>2. CachesTypes'
    BY <1>2, <2>1 DEF CachesInv, CachesTypes, InPlace
  <2>3. SizeIsExact'
    BY <1>2, <2>1 DEF CachesInv, SizeIsExact, WellFormed, SumTo
  <2>4. VectorsKept'
    BY <1>2, <2>1 DEF CachesInv, VectorsKept, OwnEntries, Holds, VectorJob, Answered, Unanswered
  <2>5. ChunksKept'
    BY <1>2, <2>1 DEF CachesInv, ChunksKept, FreshEntry, Holds, ChunkJob, OfNow
  <2> QED BY <2>2, <2>3, <2>4, <2>5 DEF CachesInv
<1> QED BY <1>1, <1>2

(* The states of the caches and of the jobs that use them are of their types. *)
THEOREM CachesTypeCorrect == CachesSpec => []CachesTypes
<1>1. CachesInv => CachesTypes
  BY DEF CachesInv
<1> QED BY <1>1, CachesBegin, CachesGoOn, PTL DEF CachesSpec

(* SizeIsExact: whatever is put, evicted and put twice, a cache's total is   *)
(* the sum of its entries' sizes, no key is there twice, and the budget is   *)
(* kept unless a single entry exceeds it (cache.py:93-97).                   *)
THEOREM TotalIsTheSum == CachesSpec => []SizeIsExact
<1>1. CachesInv => SizeIsExact
  BY DEF CachesInv
<1> QED BY <1>1, CachesBegin, CachesGoOn, PTL DEF CachesSpec

(* OwnVectors: create_embeddings answers each place of its list with the     *)
(* vector of that text, or None if Ollama refused the text alone as well.    *)
THEOREM VectorsAreTheirOwn == CachesSpec => []OwnVectors
<1>1. CachesInv => OwnVectors
  <2>1. SUFFICES ASSUME CachesInv, side = "vectors", NEW t \in Threads, job[t].at = "done",
                        NEW i \in DOMAIN job[t].texts
                 PROVE  \/ job[t].got[i] = Vector(job[t].texts[i])
                        \/ job[t].got[i] = None /\ job[t].texts[i] \in job[t].refused
    BY DEF OwnVectors
  <2>2. VectorJob(job[t]) /\ job[t] \in Jobs /\ InPlace(job[t])
    BY <2>1, SideOf DEF CachesInv, VectorsKept
  <2>3. i \in 1 .. job[t].i
    BY <2>1, <2>2, PlacesTyped DEF VectorJob
  <2>4. Answered(job[t], i) \/ Unanswered(job[t], i)
    BY <2>2, <2>3 DEF VectorJob
  <2>5. Len(job[t].lack) = 0
    BY <2>1, <2>2, SeqFacts DEF VectorJob
  <2> QED BY <2>4, <2>5 DEF Answered, Unanswered
<1> QED BY <1>1, CachesBegin, CachesGoOn, PTL DEF CachesSpec

(* FreshUnlessRaced: a request for chunks gets the file's text of a moment   *)
(* since it began, unless the file changed between a reading and the put.    *)
THEOREM ChunksAreFresh == CachesSpec => []FreshUnlessRaced
<1>1. CachesInv => FreshUnlessRaced
  BY DEF CachesInv, ChunksKept, FreshUnlessRaced, ChunkJob, Current
<1> QED BY <1>1, CachesBegin, CachesGoOn, PTL DEF CachesSpec

(* ChunksAreWhole: both ways of cutting leave no line out of the chunks, and  *)
(* chunks share an id only where a line all but fills one.                   *)
THEOREM EveryTextIsWhole == CachesSpec => []ChunksAreWhole
<1>1. CachesInv => ChunksAreWhole
  <2>1. SUFFICES ASSUME CachesInv, disk.text # NoFile
                 PROVE  /\ Covers(disk.text, ChunksOf(disk.text))
                        /\ SameIdOnlyOnLongLine(disk.text, ChunksOf(disk.text))
                        /\ Covers(disk.text, FastChunks(disk.text))
    BY DEF ChunksAreWhole
  <2>2. disk.text \in Seq(Nat)
    BY <2>1 DEF CachesInv, CachesTypes
  <2> QED BY <2>2, ChunksOfWhole, FastChunksWhole
<1> QED BY <1>1, CachesBegin, CachesGoOn, PTL DEF CachesSpec

-----------------------------------------------------------------------------
(* The freshness of the health verdict.  Inductive is that every verdict     *)
(* under way was shown by the server recently enough: what a check has       *)
(* heard, what the cache holds since checkedAt, and what a check that found  *)
(* the cache fresh will read.                                                *)

USE ClientAssumption

CacheShown ==
  client.health # "none" =>
    /\ client.checkedAt <= now
    /\ Shown(client.health, client.checkedAt, now)

CheckShown(p) ==
  /\ check[p].began <= now
  /\ check[p].at = "fresh" =>
       /\ client.health # "none"
       /\ Shown(client.health, check[p].began - Ttl + 1, now)
  /\ check[p].at = "heard" =>
       check[p].heard \in Servers /\ check[p].heard \in seen[now]
  /\ check[p].at = "done" =>
       Shown(check[p].answer, check[p].began - Ttl + 1, now)

IInv ==
  /\ TypeOK /\ server \in seen[now]
  /\ CacheShown
  /\ \A p \in Checkers : CheckShown(p)

(* What was shown stays shown as time passes and the history grows, and from  *)
(* an earlier beginning on.                                                  *)
LEMMA ShownGrows ==
  ASSUME NEW h \in [0 .. MaxTime -> SUBSET Servers],
         NEW g \in [0 .. MaxTime -> SUBSET Servers],
         NEW good, NEW from \in Int, NEW to \in Int,
         NEW from2 \in Int, NEW to2 \in Int, from2 <= from, to <= to2,
         \A t \in 0 .. MaxTime : t <= to => h[t] \subseteq g[t],
         \E t \in 0 .. MaxTime : t \in from .. to /\ \E s \in h[t] : Fits(good, s)
  PROVE  \E t \in 0 .. MaxTime : t \in from2 .. to2 /\ \E s \in g[t] : Fits(good, s)
<1>1. PICK t \in 0 .. MaxTime :
        t \in from .. to /\ \E s \in h[t] : Fits(good, s)
  OBVIOUS
<1>2. t \in from2 .. to2 /\ t <= to
  BY <1>1
<1>3. \E s \in g[t] : Fits(good, s)
  BY <1>1, <1>2
<1> QED BY <1>2, <1>3

(* A state Ollama has had in this unit of time is shown by it.               *)
LEMMA ShownNow ==
  ASSUME TypeOK, NEW s \in seen[now], NEW from \in Int, from <= now
  PROVE  /\ Shown(Says(s), from, now)
         /\ s # "up" => Shown("no", from, now)
<1>1. now \in 0 .. MaxTime /\ now \in from .. now
  BY DEF TypeOK
<1>2. Fits(Says(s), s) /\ (s # "up" => Fits("no", s))
  BY DEF Fits, Says
<1> QED BY <1>1, <1>2 DEF Shown

(* Every step keeps the types.                                               *)
LEMMA Types == TypeOK /\ [Next]_vars => TypeOK'
<1> SUFFICES ASSUME TypeOK, [Next]_vars PROVE TypeOK'
  OBVIOUS
<1> USE DEF TypeOK, world
<1>1. CASE TimePasses
  BY <1>1 DEF TimePasses
<1>2. ASSUME NEW s \in Servers, ServerChanges(s) PROVE TypeOK'
  BY <1>2 DEF ServerChanges
<1>3. ASSUME NEW p \in Checkers,
             CheckBegins(p) \/ Check(p) \/ CheckReturns(p)
      PROVE  TypeOK'
  <2>1. CASE CheckBegins(p)
    <3> DEFINE point == IF Fresh THEN "fresh" ELSE "asking"
    <3>1. point \in {"idle", "fresh", "asking", "heard", "done"}
      OBVIOUS
    <3>2. /\ check' = [check EXCEPT ![p].at = point, ![p].began = now]
          /\ UNCHANGED <<world, now, client>>
      BY <2>1 DEF CheckBegins
    <3> HIDE DEF point
    <3> QED BY <3>1, <3>2
  <2>2. CASE CheckCached(p)
    BY <2>2 DEF CheckCached
  <2>3. CASE CheckHears(p)
    BY <2>3 DEF CheckHears
  <2>4. CASE CheckRecords(p)
    <3>1. client' \in [health : {"none", "yes", "no"}, checkedAt : 0 .. MaxTime]
      <4>1. check[p].began \in 0 .. MaxTime
        OBVIOUS
      <4>2. client' \in {Verdict("yes", check[p].began),
                        Verdict("no", check[p].began), client}
        BY <2>4 DEF CheckRecords, Says
      <4> QED BY <4>1, <4>2 DEF Verdict
    <3> DEFINE a == Says(check[p].heard)
    <3>2. a \in {"none", "yes", "no"}
      BY DEF Says
    <3>3. /\ UNCHANGED <<world, now>>
          /\ check' = [check EXCEPT ![p].at = "done", ![p].heard = "none",
                                    ![p].answer = a]
      BY <2>4 DEF CheckRecords
    <3> HIDE DEF a
    <3> DEFINE Record == [at : {"idle", "fresh", "asking", "heard", "done"},
                          began : 0 .. MaxTime, heard : Servers \cup {"none"},
                          answer : {"none", "yes", "no"}]
    <3>4. [check[p] EXCEPT !.at = "done", !.heard = "none", !.answer = a] \in Record
      <4>1. check[p] \in Record
        OBVIOUS
      <4> QED BY <3>2, <4>1
    <3>5. check' \in [Checkers -> Record]
      <4>1. check \in [Checkers -> Record]
        OBVIOUS
      <4>2. check' = [check EXCEPT ![p] = [check[p] EXCEPT !.at = "done",
                                             !.heard = "none", !.answer = a]]
        BY <3>3
      <4> HIDE DEF Record
      <4> QED BY <3>4, <4>1, <4>2
    <3> QED BY <3>1, <3>3, <3>5
  <2>5. CASE CheckReturns(p)
    BY <2>5 DEF CheckReturns, NoCheck
  <2> QED BY <1>3, <2>1, <2>2, <2>3, <2>4, <2>5 DEF Check
<1>4. ASSUME NEW r \in Requests,
             AskChat(r) \/ AskStream(r) \/ Request(r) \/ NextTurn(r)
      PROVE  TypeOK'
  <2>1. CASE GivesUp(r)
    BY <2>1 DEF GivesUp, Verdict
  <2>2. CASE UNCHANGED <<world, now, client, check>>
    BY <2>2
  <2> QED BY <1>4, <2>1, <2>2 DEF AskChat, AskStream, Ask, Request, NextTurn,
        ChatAnswered, StreamOpened, Retry, StreamBegins, StreamRefused, StreamEnds
<1>5. CASE UNCHANGED vars
  BY <1>5 DEF vars
<1> QED BY <1>1, <1>2, <1>3, <1>4, <1>5 DEF Next, Outside, ClientNext

(* Every action keeps the invariant: a verdict is recorded in the unit of    *)
(* time it was heard in, and the clock waits for those on their way.         *)
LEMMA Inductive == IInv /\ [Next]_vars => IInv'
<1> SUFFICES ASSUME IInv, [Next]_vars PROVE IInv'
  OBVIOUS
<1>1. TypeOK /\ TypeOK'
  BY Types DEF IInv
<1>2. CASE TimePasses
  <2>1. now' = now + 1 /\ seen' = [seen EXCEPT ![now + 1] = {server}]
    BY <1>2 DEF TimePasses
  <2>2. \A t \in 0 .. MaxTime : t <= now => seen[t] \subseteq seen'[t]
    BY <1>1, <2>1 DEF TypeOK
  <2>3. ASSUME NEW a, NEW from \in Int, Shown(a, from, now)
        PROVE  \E t \in 0 .. MaxTime :
                 t \in from .. now' /\ \E s \in seen'[t] : Fits(a, s)
    BY <1>1, <2>1, <2>2, <2>3, ShownGrows DEF Shown, TypeOK
  <2>4. server' \in seen'[now']
    BY <1>1, <1>2, <2>1 DEF TimePasses, TypeOK, world
  <2>5. CacheShown'
    BY <1>1, <1>2, <2>1, <2>3 DEF TimePasses, CacheShown, IInv, Shown, TypeOK
  <2>6. ASSUME NEW p \in Checkers PROVE CheckShown(p)'
    BY <1>1, <1>2, <2>1, <2>3 DEF TimePasses, CheckShown, IInv, Shown, TypeOK
  <2> QED BY <1>1, <2>4, <2>5, <2>6 DEF IInv
<1>3. ASSUME NEW s \in Servers, ServerChanges(s) PROVE IInv'
  <2>1. now' = now /\ seen' = [seen EXCEPT ![now] = @ \cup {s}] /\ server' = s
    BY <1>3 DEF ServerChanges
  <2>2. \A t \in 0 .. MaxTime : seen[t] \subseteq seen'[t]
    BY <1>1, <2>1 DEF TypeOK
  <2>3. ASSUME NEW a, NEW from \in Int, Shown(a, from, now)
        PROVE  \E t \in 0 .. MaxTime :
                 t \in from .. now' /\ \E x \in seen'[t] : Fits(a, x)
    BY <1>1, <2>1, <2>2, <2>3, ShownGrows DEF Shown, TypeOK
  <2>4. server' \in seen'[now']
    BY <1>1, <2>1 DEF TypeOK
  <2>5. CacheShown'
    BY <1>1, <1>3, <2>1, <2>3 DEF ServerChanges, CacheShown, IInv, Shown, TypeOK
  <2>6. ASSUME NEW p \in Checkers PROVE CheckShown(p)'
    BY <1>1, <1>3, <2>1, <2>2, <2>3
       DEF ServerChanges, CheckShown, IInv, Shown, TypeOK
  <2> QED BY <1>1, <2>4, <2>5, <2>6 DEF IInv
<1>4. ASSUME NEW p \in Checkers,
             CheckBegins(p) \/ Check(p) \/ CheckReturns(p)
      PROVE  IInv'
  <2>1. UNCHANGED <<server, seen, now>>
    BY <1>4 DEF CheckBegins, Check, CheckCached, CheckHears, CheckRecords,
         CheckReturns, world
  <2>2. server' \in seen'[now']
    BY <2>1 DEF IInv
  <2>3. CacheShown /\ CheckShown(p)
    BY DEF IInv
  <2> DEFINE Fields == {"at", "began", "heard", "answer"}
  <2>3a. p \in DOMAIN check /\ DOMAIN check[p] = Fields
    BY <1>1 DEF TypeOK
  <2>4. CASE CheckBegins(p)
    <3>1. client' = client
      BY <2>4 DEF CheckBegins
    <3>2. CacheShown'
      BY <2>1, <2>3, <3>1 DEF CacheShown, Shown
    <3>3. Fresh => Shown(client.health, now - Ttl + 1, now)
      <4>1. ASSUME Fresh PROVE now - Ttl + 1 <= client.checkedAt
        BY <1>1, <4>1 DEF Fresh, TypeOK
      <4> QED BY <1>1, <2>3, <4>1 DEF Fresh, CacheShown, Shown, TypeOK
    <3>4. CheckShown(p)'
      <4>1. /\ check'[p].at = IF Fresh THEN "fresh" ELSE "asking"
            /\ check'[p].began = now
        BY <2>4, <2>3a DEF CheckBegins
      <4>2. now <= now /\ (Fresh => client.health # "none")
        BY <1>1 DEF TypeOK, Fresh
      <4> QED BY <2>1, <3>1, <3>3, <4>1, <4>2 DEF CheckShown, Shown
    <3>5. ASSUME NEW q \in Checkers, q # p PROVE CheckShown(q)'
      BY <1>1, <2>1, <2>4, <3>1, <3>5 DEF CheckBegins, CheckShown, Shown, IInv, TypeOK
    <3> QED BY <1>1, <2>2, <3>2, <3>4, <3>5 DEF IInv
  <2>5. CASE CheckCached(p) \/ CheckHears(p) \/ CheckReturns(p)
    <3>1. client' = client
      BY <2>5 DEF CheckCached, CheckHears, CheckReturns
    <3>2. CacheShown'
      BY <2>1, <2>3, <3>1 DEF CacheShown, Shown
    <3>3. CheckShown(p)'
      <4>1. CASE CheckCached(p)
        <5>1. /\ check'[p].at = "done" /\ check'[p].began = check[p].began
              /\ check'[p].answer = client.health
          BY <2>3a, <4>1 DEF CheckCached
        <5>2. check[p].at = "fresh"
          BY <4>1 DEF CheckCached
        <5> QED BY <2>1, <2>3, <3>1, <5>1, <5>2 DEF CheckShown, Shown
      <4>2. CASE CheckHears(p)
        <5>1. /\ check'[p].at = "heard" /\ check'[p].began = check[p].began
              /\ check'[p].heard = server
          BY <2>3a, <4>2 DEF CheckHears
        <5> QED BY <1>1, <2>1, <2>3, <5>1 DEF CheckShown, IInv, TypeOK
      <4>3. CASE CheckReturns(p)
        <5>1. check'[p] = NoCheck
          BY <2>3a, <4>3 DEF CheckReturns
        <5> QED BY <1>1, <2>1, <5>1 DEF CheckShown, NoCheck, TypeOK
      <4> QED BY <2>5, <4>1, <4>2, <4>3
    <3>4. ASSUME NEW q \in Checkers, q # p PROVE CheckShown(q)'
      BY <1>1, <2>1, <2>5, <3>1, <3>4
         DEF CheckCached, CheckHears, CheckReturns, CheckShown, Shown, IInv, TypeOK
    <3> QED BY <1>1, <2>2, <3>2, <3>3, <3>4 DEF IInv
  <2>6. CASE CheckRecords(p)
    <3> DEFINE s == check[p].heard
    <3>1. s \in Servers /\ s \in seen[now] /\ check[p].began \in 0 .. now
      BY <1>1, <2>3, <2>6 DEF CheckRecords, CheckShown, TypeOK
    <3>2. \A from \in Int : from <= now => Shown(Says(s), from, now)
      BY <1>1, <3>1, ShownNow
    <3>3. \/ client' = client
          \/ client' = Verdict(Says(s), check[p].began)
      BY <2>6, <3>1 DEF CheckRecords, Says, Servers
    <3>4. CacheShown'
      <4>1. CASE client' = client
        BY <2>1, <2>3, <4>1 DEF CacheShown, Shown
      <4>2. CASE client' = Verdict(Says(s), check[p].began)
        <5>1. /\ client'.health = Says(s) /\ client'.checkedAt = check[p].began
          BY <4>2 DEF Verdict
        <5>2. check[p].began \in Int /\ check[p].began <= now
          BY <1>1, <3>1 DEF TypeOK
        <5>3. Shown(Says(s), check[p].began, now)
          BY <3>2, <5>2
        <5> HIDE DEF s
        <5> QED BY <2>1, <5>1, <5>2, <5>3 DEF CacheShown, Shown
      <4> QED BY <3>3, <4>1, <4>2
    <3>5. CheckShown(p)'
      <4>1. /\ check'[p].at = "done" /\ check'[p].began = check[p].began
            /\ check'[p].answer = Says(s)
        BY <2>6, <2>3a DEF CheckRecords
      <4>2. check[p].began - Ttl + 1 \in Int /\ check[p].began - Ttl + 1 <= now
        BY <1>1, <3>1 DEF TypeOK
      <4> QED BY <2>1, <2>3, <3>2, <4>1, <4>2 DEF CheckShown, Shown
    <3>6. ASSUME NEW q \in Checkers, q # p PROVE CheckShown(q)'
      <4>1. check'[q] = check[q] /\ CheckShown(q) /\ check[q].began \in 0 .. now
        BY <1>1, <2>6, <3>6 DEF CheckRecords, IInv, CheckShown, TypeOK
      <4>2. check[q].began - Ttl + 1 \in Int /\ check[q].began - Ttl + 1 <= now
        BY <1>1, <4>1 DEF TypeOK
      <4>3. Shown(Says(s), check[q].began - Ttl + 1, now)
        BY <3>2, <4>2
      <4>4. Says(s) # "none"
        BY DEF Says
      <4>5. client' = client \/ client'.health = Says(s)
        BY <3>3 DEF Verdict
      <4> HIDE DEF s
      <4> QED BY <2>1, <4>1, <4>3, <4>4, <4>5 DEF CheckShown, Shown
    <3> QED BY <1>1, <2>2, <3>4, <3>5, <3>6 DEF IInv
  <2> QED BY <1>4, <2>4, <2>5, <2>6 DEF Check
<1>5. ASSUME NEW r \in Requests, GivesUp(r) PROVE IInv'
  <2>1. /\ UNCHANGED <<server, seen, now, check>>
        /\ client' = Verdict("no", now) /\ server # "up"
    BY <1>5 DEF GivesUp, Refused, world
  <2>2. \A from \in Int : from <= now => Shown("no", from, now)
    BY <1>1, <2>1, ShownNow DEF IInv
  <2>3. CacheShown'
    <3>1. now \in Int /\ now <= now
      BY <1>1 DEF TypeOK
    <3>2. Shown("no", now, now)
      BY <2>2, <3>1
    <3> QED BY <2>1, <3>1, <3>2 DEF CacheShown, Shown, Verdict
  <2>4. ASSUME NEW p \in Checkers PROVE CheckShown(p)'
    <3>1. check[p].began - Ttl + 1 \in Int /\ check[p].began - Ttl + 1 <= now
      BY <1>1 DEF IInv, CheckShown, TypeOK
    <3> QED BY <2>1, <2>2, <3>1 DEF CheckShown, Shown, Verdict, IInv
  <2> QED BY <1>1, <2>1, <2>3, <2>4 DEF IInv
<1>6. CASE UNCHANGED <<world, now, client, check>>
  BY <1>1, <1>6 DEF IInv, CacheShown, CheckShown, Shown, world
<1>7. ASSUME NEW r \in Requests,
             AskChat(r) \/ AskStream(r) \/ Request(r) \/ NextTurn(r)
      PROVE  IInv'
  BY <1>5, <1>6, <1>7 DEF AskChat, AskStream, Ask, Request, NextTurn, ChatAnswered,
       StreamOpened, Retry, StreamBegins, StreamRefused, StreamEnds
<1>8. CASE UNCHANGED vars
  BY <1>6, <1>8 DEF vars, world
<1> QED BY <1>2, <1>3, <1>4, <1>7, <1>8 DEF Next, Outside, ClientNext

(* HealthAnswersFresh for any checkers, turns, attempts and limit: what      *)
(* is_healthy answers was so within HEALTH_CACHE_TTL.                        *)
THEOREM FreshAnswers == Spec => []HealthAnswersFresh
<1>1. Init => IInv
  <2> SUFFICES ASSUME Init PROVE IInv
    OBVIOUS
  <2>1. TypeOK
    BY DEF Init, TypeOK, NoCheck, Servers
  <2> QED BY <2>1 DEF Init, IInv, CacheShown, CheckShown, NoCheck, TypeOK
<1>2. IInv => HealthAnswersFresh
  BY DEF IInv, CheckShown, HealthAnswersFresh
<1> QED BY <1>1, <1>2, Inductive, PTL DEF Spec
=============================================================================
