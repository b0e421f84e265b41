--------------------------- MODULE PortSetupProofs ---------------------------
(***************************************************************************)
(* The queues of a port, for any number of cores, pools, Ports and calls,  *)
(* and the list of cores the EAL is started with, for any settings.        *)
(*                                                                         *)
(* That a core has one queue of its own rests on PortBuilder::cores, which *)
(* sorts the cores and drops repetitions; so the first part shows that     *)
(* dedup after sort leaves each core once, in rising order.                *)
(*                                                                         *)
(* The list is written by a loop over the ports, and Digits, FlattenSeq    *)
(* and EalCores are recursive functions.  RecursionExists shows that they  *)
(* are defined, Induction what they compute.                               *)
(***************************************************************************)
EXTENDS PortSetup, FiniteSetTheorems, SequenceTheorems, WellFoundedInduction, TLAPS

\* Each element of either vector is one of the other.
SameElements(s, t) ==
  /\ \A i \in DOMAIN s : \E j \in DOMAIN t : s[i] = t[j]
  /\ \A j \in DOMAIN t : \E i \in DOMAIN s : s[i] = t[j]

Rising(s) == \A i, j \in DOMAIN s : i < j => s[i] < s[j]

-----------------------------------------------------------------------------
(* Least elements and places of elements.                                  *)

LEMMA NatMin ==
  ASSUME NEW T \in SUBSET Nat, T # {}
  PROVE  \E x \in T : \A y \in T : x <= y
<1> DEFINE R == {r \in Nat \X Nat : r[1] < r[2]}
<1>1. IsWellFoundedOn(R, Nat)
  BY NatLessThanWellFounded DEF OpToRel
<1>2. PICK x \in T : \A y \in T : ~(<<y, x>> \in R)
  BY <1>1, WFMin
<1>3. ASSUME NEW y \in T
      PROVE  x <= y
  <2>1. ~(<<y, x>> \in R)
    BY <1>2
  <2>2. ~(y < x)
    BY <2>1
  <2> QED
    BY <2>2
<1> QED
  BY <1>3

\* Different places for the elements of a finite set are all its places.
LEMMA AllPlaces ==
  ASSUME NEW S, IsFiniteSet(S), NEW r \in [S -> 1 .. Cardinality(S)],
         \A a, b \in S : r[a] = r[b] => a = b
  PROVE  \A k \in 1 .. Cardinality(S) : \E i \in S : r[i] = k
<1> DEFINE T == 1 .. Cardinality(S)
<1>1. Cardinality(S) \in Nat
  BY FS_CardinalityType
<1>2. IsFiniteSet(T) /\ Cardinality(T) = Cardinality(S)
  BY <1>1, FS_Interval
<1>3. r \in Injection(S, T)
  BY DEF Injection, IsInjective
<1> HIDE DEF T
<1>4. r \in Surjection(S, T)
  BY <1>2, <1>3, FS_Injection
<1> QED
  BY <1>4 DEF Surjection, T

\* A larger set has more elements.
LEMMA MoreElements ==
  ASSUME NEW S, IsFiniteSet(S), NEW T \in SUBSET S, NEW x \in S, x \notin T
  PROVE  Cardinality(T) < Cardinality(S) /\ Cardinality(T) \in Nat /\ Cardinality(S) \in Nat
<1>1. IsFiniteSet(T) /\ Cardinality(T) <= Cardinality(S) /\ Cardinality(T) # Cardinality(S)
  BY FS_Subset
<1> QED
  BY <1>1, FS_CardinalityType

LEMMA SortIs ==
  ASSUME NEW s \in Seq(Nat)
  PROVE  /\ sort(s) \in Seq(Nat) /\ Len(sort(s)) = Len(s)
         /\ \A k, l \in 1 .. Len(s) : k < l => sort(s)[k] <= sort(s)[l]
         /\ SameElements(sort(s), s)
<1> DEFINE D == 1 .. Len(s)
           Before(i) == {j \in D : s[j] < s[i] \/ (s[j] = s[i] /\ j <= i)}
           r == [i \in D |-> Cardinality(Before(i))]
           At(k) == CHOOSE i \in D : Cardinality(Before(i)) = k
<1>1. /\ DOMAIN s = D /\ Len(s) \in Nat /\ \A i \in D : s[i] \in Nat
      /\ IsFiniteSet(D) /\ Cardinality(D) = Len(s)
  <2>1. DOMAIN s = D /\ Len(s) \in Nat /\ \A i \in D : s[i] \in Nat
    OBVIOUS
  <2> QED
    BY <2>1, FS_Interval, SMTT(30)
<1>2. \A i \in D : Before(i) \subseteq D /\ i \in Before(i) /\ IsFiniteSet(Before(i))
  BY <1>1, FS_Subset
<1>3. ASSUME NEW i \in D
      PROVE  Cardinality(Before(i)) \in 1 .. Len(s)
  <2>1. Cardinality(Before(i)) \in Nat /\ Cardinality(Before(i)) <= Len(s)
    BY <1>1, <1>2, FS_Subset, FS_CardinalityType
  <2>2. Cardinality({}) < Cardinality(Before(i)) /\ Cardinality({}) = 0
    BY <1>2, MoreElements, FS_EmptySet
  <2> QED
    BY <1>1, <2>1, <2>2
<1>4. ASSUME NEW i \in D, NEW j \in D, s[i] < s[j] \/ (s[i] = s[j] /\ i < j)
      PROVE  Cardinality(Before(i)) < Cardinality(Before(j))
  <2>1. Before(i) \subseteq Before(j)
    BY <1>1, <1>4
  <2>2. j \in Before(j) /\ j \notin Before(i)
    BY <1>1, <1>4
  <2> QED
    BY <1>2, <2>1, <2>2, MoreElements
<1>5. \A i, j \in D : r[i] = r[j] => i = j
  <2> SUFFICES ASSUME NEW i \in D, NEW j \in D, Cardinality(Before(i)) = Cardinality(Before(j)), i # j
               PROVE  FALSE
    OBVIOUS
  <2>1. \/ s[i] < s[j] \/ (s[i] = s[j] /\ i < j)
        \/ s[j] < s[i] \/ (s[j] = s[i] /\ j < i)
    BY <1>1
  <2>2. /\ ~(Cardinality(Before(i)) < Cardinality(Before(j)))
        /\ ~(Cardinality(Before(j)) < Cardinality(Before(i)))
    BY <1>1, <1>3
  <2> HIDE DEF Before
  <2> QED
    BY <1>4, <2>1, <2>2
<1>6. \A k \in D : At(k) \in D /\ Cardinality(Before(At(k))) = k
  <2>1. r \in [D -> 1 .. Cardinality(D)]
    BY <1>1, <1>3
  <2> HIDE DEF r
  <2>2. \A k \in 1 .. Cardinality(D) : \E i \in D : r[i] = k
    BY <1>1, <1>5, <2>1, AllPlaces
  <2>3. \A k \in D : \E i \in D : Cardinality(Before(i)) = k
    BY <1>1, <2>2 DEF r
  <2> HIDE DEF D, Before
  <2> QED
    BY <2>3
<1>7. sort(s) = [k \in D |-> s[At(k)]]
  BY <1>1 DEF sort
<1>8. \A i \in D : r[i] \in D /\ At(r[i]) = i
  <2> TAKE i \in D
  <2>1. r[i] \in D /\ r[i] = Cardinality(Before(i))
    BY <1>3
  <2>2. At(r[i]) \in D /\ r[At(r[i])] = r[i]
    <3>1. At(r[i]) \in D /\ Cardinality(Before(At(r[i]))) = r[i]
      BY <1>6, <2>1
    <3> HIDE DEF At, Before
    <3> QED
      BY <3>1
  <2> HIDE DEF At, r
  <2> QED
    BY <1>5, <2>1, <2>2
<1> HIDE DEF At, Before, r
<1>9. sort(s) \in [D -> Nat]
  BY <1>1, <1>6, <1>7
<1>10. ASSUME NEW k \in D, NEW l \in D, k < l
      PROVE  s[At(k)] <= s[At(l)]
  <2>1. ~(s[At(l)] < s[At(k)])
    <3>1. ~(Cardinality(Before(At(l))) < Cardinality(Before(At(k))))
      BY <1>1, <1>6, <1>10
    <3> QED
      BY <1>4, <1>6, <3>1
  <2> QED
    BY <1>1, <1>6, <2>1
<1>11. sort(s) \in Seq(Nat) /\ Len(sort(s)) = Len(s)
  BY <1>1, <1>9
<1>12. \A k, l \in D : k < l => sort(s)[k] <= sort(s)[l]
  BY <1>7, <1>10
<1>13. SameElements(sort(s), s)
  <2>1. DOMAIN sort(s) = D /\ \A k \in D : sort(s)[k] = s[At(k)] /\ At(k) \in D
    BY <1>6, <1>7
  <2>2. \A i \in D : r[i] \in D /\ sort(s)[r[i]] = s[i]
    BY <1>8, <2>1
  <2> QED
    BY <1>1, <2>1, <2>2 DEF SameElements
<1> QED
  BY <1>11, <1>12, <1>13

LEMMA DedupIs ==
  ASSUME NEW s \in Seq(Nat), s # <<>>,
         \A k, l \in 1 .. Len(s) : k < l => s[k] <= s[l]
  PROVE  /\ dedup(s) \in Seq(Nat) /\ Rising(dedup(s)) /\ Len(dedup(s)) >= 1
         /\ SameElements(dedup(s), s)
<1> DEFINE K == {i \in DOMAIN s : i = 1 \/ s[i] # s[i - 1]}
           n == Cardinality(K)
           Before(i) == {j \in K : j <= i}
           r == [i \in K |-> Cardinality(Before(i))]
           At(k) == CHOOSE i \in K : Cardinality(Before(i)) = k
<1>1. /\ DOMAIN s = 1 .. Len(s) /\ Len(s) \in Nat /\ Len(s) >= 1 /\ \A i \in 1 .. Len(s) : s[i] \in Nat
      /\ K \subseteq 1 .. Len(s) /\ 1 \in K
  OBVIOUS
<1>2. IsFiniteSet(K) /\ n \in Nat
  <2>1. IsFiniteSet(1 .. Len(s))
    BY <1>1, FS_Interval
  <2> QED
    BY <1>1, <2>1, FS_Subset, FS_CardinalityType
<1>3. \A i, j \in K : i < j => s[i] < s[j]
  <2> SUFFICES ASSUME NEW i \in K, NEW j \in K, i < j
               PROVE  s[i] < s[j]
    OBVIOUS
  <2>1. i \in 1 .. Len(s) /\ j \in 1 .. Len(s) /\ j # 1 /\ s[j] # s[j - 1]
    BY <1>1
  <2>2. j - 1 \in 1 .. Len(s) /\ i <= j - 1 /\ j - 1 < j
    BY <1>1, <2>1
  <2>3. s[j - 1] <= s[j]
    BY <2>1, <2>2
  <2>4. s[i] <= s[j - 1]
    <3>1. CASE i = j - 1
      BY <1>1, <2>1, <3>1
    <3>2. CASE i < j - 1
      BY <2>1, <2>2, <3>2
    <3> QED
      BY <2>1, <2>2, <3>1, <3>2
  <2>5. s[i] \in Nat /\ s[j] \in Nat /\ s[j - 1] \in Nat
    BY <1>1, <2>1, <2>2
  <2> QED
    BY <2>1, <2>3, <2>4, <2>5
<1> USE <1>2
<1>4. \A i \in K : i \in Int
  BY <1>1
<1>5. \A i \in 1 .. Len(s) : \E m \in K : s[m] = s[i]
  <2> TAKE i \in 1 .. Len(s)
  <2> DEFINE T == {j \in 1 .. Len(s) : s[j] = s[i]}
  <2>1. PICK m \in T : \A j \in T : m <= j
    <3>1. i \in T /\ T \in SUBSET Nat
      OBVIOUS
    <3> HIDE DEF T
    <3> QED
      BY <3>1, NatMin
  <2>2. m \in 1 .. Len(s) /\ s[m] = s[i] /\ m - 1 \notin T
    BY <1>1, <2>1
  <2>3. m = 1 \/ s[m] # s[m - 1]
    BY <1>1, <2>2
  <2> QED
    BY <1>1, <2>2, <2>3
<1> HIDE DEF K
<1>6. \A i \in K : Before(i) \subseteq K /\ i \in Before(i) /\ IsFiniteSet(Before(i))
  <2>1. \A i \in K : Before(i) \subseteq K /\ i \in Before(i)
    BY <1>4
  <2> QED
    BY <2>1, FS_Subset
<1>7. ASSUME NEW i \in K
      PROVE  Cardinality(Before(i)) \in 1 .. n
  <2>1. Cardinality(Before(i)) \in Nat /\ Cardinality(Before(i)) <= n
    BY <1>6, FS_Subset, FS_CardinalityType
  <2>2. Cardinality({}) < Cardinality(Before(i)) /\ Cardinality({}) = 0
    BY <1>6, MoreElements, FS_EmptySet
  <2> QED
    BY <2>1, <2>2
<1>8. ASSUME NEW i \in K, NEW j \in K, i < j
      PROVE  Cardinality(Before(i)) < Cardinality(Before(j))
  <2>1. Before(i) \subseteq Before(j)
    BY <1>4, <1>8
  <2>2. j \in Before(j) /\ j \notin Before(i)
    BY <1>4, <1>8
  <2> QED
    BY <1>6, <2>1, <2>2, MoreElements
<1>9. \A i, j \in K : r[i] = r[j] => i = j
  <2> SUFFICES ASSUME NEW i \in K, NEW j \in K, Cardinality(Before(i)) = Cardinality(Before(j)), i # j
               PROVE  FALSE
    OBVIOUS
  <2>1. i < j \/ j < i
    BY <1>4
  <2>2. /\ ~(Cardinality(Before(i)) < Cardinality(Before(j)))
        /\ ~(Cardinality(Before(j)) < Cardinality(Before(i)))
    BY <1>7
  <2> HIDE DEF Before
  <2> QED
    BY <1>8, <2>1, <2>2
<1>10. \A k \in 1 .. n : At(k) \in K /\ Cardinality(Before(At(k))) = k
  <2>1. r \in [K -> 1 .. Cardinality(K)]
    BY <1>7
  <2> HIDE DEF r
  <2>2. \A k \in 1 .. Cardinality(K) : \E i \in K : r[i] = k
    BY <1>9, <2>1, AllPlaces
  <2>3. \A k \in 1 .. n : \E i \in K : Cardinality(Before(i)) = k
    BY <2>2 DEF r
  <2> HIDE DEF n, Before
  <2> QED
    BY <2>3
<1>11. dedup(s) = [k \in 1 .. n |-> s[At(k)]]
  BY DEF dedup, K
<1>12. \A i \in K : r[i] \in 1 .. n /\ At(r[i]) = i
  <2> TAKE i \in K
  <2>1. r[i] \in 1 .. n /\ r[i] = Cardinality(Before(i))
    BY <1>7
  <2>2. At(r[i]) \in K /\ r[At(r[i])] = r[i]
    <3>1. At(r[i]) \in K /\ Cardinality(Before(At(r[i]))) = r[i]
      BY <1>10, <2>1
    <3> HIDE DEF At, Before
    <3> QED
      BY <3>1
  <2> HIDE DEF At, r
  <2> QED
    BY <1>9, <2>1, <2>2
<1>13. n >= 1
  <2>1. Cardinality(Before(1)) \in 1 .. n
    BY <1>1, <1>7
  <2> QED
    BY <2>1
<1> HIDE DEF At, Before, r, n
<1>14. dedup(s) \in [1 .. n -> Nat]
  BY <1>1, <1>10, <1>11
<1>15. dedup(s) \in Seq(Nat) /\ Len(dedup(s)) = n
  BY <1>14
<1>16. ASSUME NEW k \in 1 .. n, NEW l \in 1 .. n, k < l
       PROVE  s[At(k)] < s[At(l)]
  <2>1. ~(At(l) < At(k)) /\ At(l) # At(k)
    <3>1. ~(Cardinality(Before(At(l))) < Cardinality(Before(At(k))))
      BY <1>10, <1>16
    <3> QED
      BY <1>8, <1>10, <1>16, <3>1
  <2>2. At(k) < At(l)
    BY <1>4, <1>10, <2>1
  <2> QED
    BY <1>3, <1>10, <2>2
<1>17. Rising(dedup(s))
  BY <1>11, <1>16 DEF Rising
<1>18. SameElements(dedup(s), s)
  <2>1. DOMAIN dedup(s) = 1 .. n /\ \A k \in 1 .. n : dedup(s)[k] = s[At(k)] /\ At(k) \in 1 .. Len(s)
    BY <1>1, <1>10, <1>11
  <2>2. \A i \in K : r[i] \in 1 .. n /\ dedup(s)[r[i]] = s[i]
    BY <1>12, <2>1
  <2>3. \A i \in 1 .. Len(s) : \E k \in 1 .. n : dedup(s)[k] = s[i]
    <3> TAKE i \in 1 .. Len(s)
    <3>1. PICK m \in K : s[m] = s[i]
      BY <1>5
    <3> QED
      BY <2>2, <3>1
  <2>4. DOMAIN s = 1 .. Len(s)
    BY <1>1
  <2>5. \A k \in DOMAIN dedup(s) : \E j \in DOMAIN s : dedup(s)[k] = s[j]
    BY <2>1, <2>4
  <2> QED
    BY <2>1, <2>3, <2>4, <2>5 DEF SameElements
<1> QED
  BY <1>13, <1>15, <1>17, <1>18

\* What sort and dedup make of a vector of cores of any length (all_cores,
\* PortBuilder::cores): each of its cores once, in rising order, and no other.
THEOREM CoresOnceInOrder ==
  ASSUME NEW s \in Seq(Nat), s # <<>>
  PROVE  /\ dedup(sort(s)) \in Seq(Nat) /\ Len(dedup(sort(s))) >= 1
         /\ Rising(dedup(sort(s))) /\ ToSet(dedup(sort(s))) = ToSet(s)
<1>1. PICK t : t = sort(s)
  OBVIOUS
<1>2. /\ t \in Seq(Nat) /\ Len(t) = Len(s) /\ \A k, l \in 1 .. Len(s) : k < l => t[k] <= t[l]
      /\ SameElements(t, s)
  BY <1>1, SortIs
<1>3. t # <<>> /\ \A k, l \in 1 .. Len(t) : k < l => t[k] <= t[l]
  BY <1>2
<1>4. PICK d : d = dedup(t)
  OBVIOUS
<1>5. d \in Seq(Nat) /\ Rising(d) /\ Len(d) >= 1 /\ SameElements(d, t)
  BY <1>2, <1>3, <1>4, DedupIs
<1>6. \A c : c \in ToSet(d) <=> c \in ToSet(s)
  <2>1. SameElements(d, s)
    BY <1>2, <1>5 DEF SameElements
  <2> QED
    BY <2>1 DEF SameElements, ToSet
<1> QED
  BY <1>1, <1>4, <1>5, <1>6

-----------------------------------------------------------------------------
(* The limits of the device.                                               *)

LEMMA MaxIs ==
  ASSUME NEW n \in Nat, NEW T \in SUBSET (0 .. n), T # {}
  PROVE  Max(T) \in T
<1> DEFINE D == {n - x : x \in T}
<1>1. D \in SUBSET Nat /\ D # {}
  <2>1. \A x \in T : x \in 0 .. n /\ n - x \in Nat
    OBVIOUS
  <2> QED
    BY <2>1
<1> HIDE DEF D
<1>2. PICK d \in D : \A y \in D : d <= y
  BY <1>1, NatMin
<1>3. PICK x \in T : d = n - x
  BY <1>2 DEF D
<1>4. \A y \in T : x >= y
  <2> TAKE y \in T
  <2>1. n - y \in D
    BY DEF D
  <2>2. d <= n - y
    BY <1>2, <2>1
  <2> QED
    BY <1>3, <2>2
<1> QED
  BY <1>4 DEF Max

\* A number brought between the limits of the device.
LEMMA AdjustIs ==
  ASSUME NEW n \in Nat
  PROVE  Adjust(n) \in DescLimits.min .. DescLimits.max
<1>1. \A a, b \in Nat : Min({a, b}) \in {a, b} /\ Min({a, b}) <= a
  <2> TAKE a, b \in Nat
  <2>1. \E x \in {a, b} : \A y \in {a, b} : x <= y
    OBVIOUS
  <2>2. Min({a, b}) \in {a, b} /\ \A y \in {a, b} : Min({a, b}) <= y
    BY <2>1 DEF Min
  <2> QED
    BY <2>2
<1>2. \A a, b \in Nat : Max({a, b}) \in {a, b} /\ Max({a, b}) >= a
  <2> TAKE a, b \in Nat
  <2>1. \E x \in {a, b} : \A y \in {a, b} : x >= y
    OBVIOUS
  <2>2. Max({a, b}) \in {a, b} /\ \A y \in {a, b} : Max({a, b}) >= y
    BY <2>1 DEF Max
  <2> QED
    BY <2>2
<1>3. DescLimits.min \in Nat /\ DescLimits.max \in Nat /\ DescLimits.min <= DescLimits.max
  BY PortAssumption
<1>4. PICK m : m = Min({DescLimits.max, n})
  OBVIOUS
<1>5. m \in Nat /\ m <= DescLimits.max
  BY <1>1, <1>3, <1>4
<1>6. Max({DescLimits.min, m}) \in DescLimits.min .. DescLimits.max
  BY <1>2, <1>3, <1>5
<1> QED
  BY <1>4, <1>6 DEF Adjust

-----------------------------------------------------------------------------
(* The builder, the device and the Ports.                                  *)

IsBuilder(b) ==
  /\ b = [cores |-> b.cores, rxd |-> b.rxd, txd |-> b.txd, pools |-> b.pools]
  /\ b.cores \in Seq(Nat) /\ Rising(b.cores) /\ Len(b.cores) >= 1
  /\ \A s \in DOMAIN b.pools : b.pools[s] \in Pools /\ PoolSocket[b.pools[s]] = s

IsDevice(d) ==
  /\ d = [socket |-> d.socket, state |-> d.state, queues |-> d.queues, rx |-> d.rx, tx |-> d.tx]
  /\ d.queues \in Nat
  /\ DOMAIN d.rx \subseteq 0 .. d.queues - 1 /\ d.tx \subseteq 0 .. d.queues - 1
  /\ \A q \in DOMAIN d.rx : d.rx[q] \in Pools

\* All queues of a device have been set up, the receive queues with one pool.
AllReady(d, pool) ==
  /\ DOMAIN d.rx = 0 .. d.queues - 1 /\ d.tx = 0 .. d.queues - 1
  /\ \A q \in DOMAIN d.rx : d.rx[q] = pool

PortRecords == [queues : UNION {[S -> Nat] : S \in SUBSET Nat}, live : BOOLEAN]

\* rte_eth_dev_configure changes the number of queues only.
LEMMA ConfiguredIs ==
  ASSUME IsDevice(device), NEW n \in Nat
  PROVE  /\ IsDevice(Configured(n)) /\ Configured(n).queues = n
         /\ Configured(n).socket = device.socket /\ Configured(n).state = device.state
<1> DEFINE rx == Restrict(device.rx, DOMAIN device.rx \cap (0 .. n - 1))
           tx == device.tx \cap (0 .. n - 1)
<1>1. /\ DOMAIN rx \subseteq 0 .. n - 1 /\ tx \subseteq 0 .. n - 1
      /\ \A q \in DOMAIN rx : rx[q] \in Pools
  BY DEF Restrict, IsDevice
<1>2. PICK e : e = Configured(n)
  OBVIOUS
<1>3. e = [device EXCEPT !.queues = n, !.rx = rx, !.tx = tx]
  BY <1>2 DEF Configured
<1> HIDE DEF rx, tx
<1>4. /\ e = [socket |-> e.socket, state |-> e.state, queues |-> e.queues, rx |-> e.rx, tx |-> e.tx]
      /\ e.queues = n /\ e.rx = rx /\ e.tx = tx /\ e.socket = device.socket /\ e.state = device.state
  BY <1>3 DEF IsDevice
<1>5. IsDevice(e)
  BY <1>1, <1>4 DEF IsDevice
<1> QED
  BY <1>2, <1>4, <1>5

\* The loop over the cores, when it has ended, has set up every queue.
LEMMA AfterSetupsIs ==
  ASSUME NEW d, IsDevice(d), NEW pool \in Pools, NEW k \in Nat
  PROVE  LET e == AfterSetups(d, pool, k)
         IN /\ IsDevice(e) /\ e.queues = d.queues /\ e.socket = d.socket /\ e.state = d.state
            /\ k = 2 * d.queues => AllReady(e, pool)
<1> DEFINE ready == {i \in 0 .. d.queues - 1 : 2 * i < k}
           sent == {i \in 0 .. d.queues - 1 : 2 * i + 1 < k}
           rx == [q \in DOMAIN d.rx \cup ready |-> IF q \in ready THEN pool ELSE d.rx[q]]
           tx == d.tx \cup sent
<1>1. PICK e : e = AfterSetups(d, pool, k)
  OBVIOUS
<1>2. /\ DOMAIN rx \subseteq 0 .. d.queues - 1 /\ tx \subseteq 0 .. d.queues - 1
      /\ \A q \in DOMAIN rx : rx[q] \in Pools
  BY DEF IsDevice
<1>3. ASSUME k = 2 * d.queues
      PROVE  /\ DOMAIN rx = 0 .. d.queues - 1 /\ tx = 0 .. d.queues - 1
             /\ \A q \in DOMAIN rx : rx[q] = pool
  <2>1. d.queues \in Nat /\ DOMAIN d.rx \subseteq 0 .. d.queues - 1 /\ d.tx \subseteq 0 .. d.queues - 1
    BY DEF IsDevice
  <2>2. ready = 0 .. d.queues - 1 /\ sent = 0 .. d.queues - 1
    BY <1>3, <2>1
  <2> HIDE DEF ready, sent
  <2> QED
    BY <2>1, <2>2
<1>4. d.queues \in Nat
  BY DEF IsDevice
<1>5. e = [d EXCEPT !.rx = rx, !.tx = tx]
  BY <1>1 DEF AfterSetups
<1> HIDE DEF rx, tx
<1>6. /\ e = [socket |-> e.socket, state |-> e.state, queues |-> e.queues, rx |-> e.rx, tx |-> e.tx]
      /\ e.queues = d.queues /\ e.rx = rx /\ e.tx = tx /\ e.socket = d.socket /\ e.state = d.state
  BY <1>5 DEF IsDevice
<1>7. IsDevice(e)
  BY <1>2, <1>4, <1>6 DEF IsDevice
<1>8. k = 2 * d.queues => AllReady(e, pool)
  BY <1>3, <1>6 DEF AllReady
<1> QED
  BY <1>1, <1>6, <1>7, <1>8

\* A number below the width is not cut.
LEMMA NotCut ==
  ASSUME NEW a \in Nat, NEW m \in Nat \ {0}, a < m
  PROVE  a % m = a
OBVIOUS

\* The queues of the cores, in the order of the cores.
LEMMA QueuesIs ==
  ASSUME IsBuilder(builder), Len(builder.cores) <= U16
  PROVE  /\ Queues \in Bijection(DOMAIN Queues, 0 .. Len(builder.cores) - 1)
         /\ \A c, d \in DOMAIN Queues : c < d => Queues[c] < Queues[d]
         /\ Min(DOMAIN Queues) = Head(builder.cores)
         /\ DOMAIN Queues \subseteq Nat
<1>1. PICK C : C = builder.cores
  OBVIOUS
<1>2. C \in Seq(Nat) /\ Rising(C) /\ Len(C) >= 1
  BY <1>1 DEF IsBuilder
<1>3. /\ DOMAIN C = 1 .. Len(C) /\ Len(C) \in Nat /\ \A i \in 1 .. Len(C) : C[i] \in Nat
      /\ Head(C) = C[1] /\ 1 \in 1 .. Len(C)
  BY <1>2
<1>4. \A i, j \in 1 .. Len(C) : i < j => C[i] < C[j]
  BY <1>2, <1>3 DEF Rising
<1>5. \A i, j \in 1 .. Len(C) : C[i] = C[j] => i = j
  <2> SUFFICES ASSUME NEW i \in 1 .. Len(C), NEW j \in 1 .. Len(C), C[i] = C[j], i # j
               PROVE  FALSE
    OBVIOUS
  <2>1. C[i] < C[j] \/ C[j] < C[i]
    BY <1>3, <1>4
  <2> QED
    BY <1>3, <2>1
<1> DEFINE U == ToSet(C)
           At(c) == CHOOSE i \in 1 .. Len(C) : C[i] = c
           Q == [c \in U |-> (At(c) - 1) % U16]
<1>6. Queues = Q /\ DOMAIN Q = U
  BY <1>1, <1>3 DEF Queues
<1>7. \A c \in U : At(c) \in 1 .. Len(C) /\ C[At(c)] = c
  <2>1. \A c \in U : \E i \in 1 .. Len(C) : C[i] = c
    BY <1>3 DEF ToSet
  <2> QED
    BY <2>1
<1>8. \A i \in 1 .. Len(C) : C[i] \in U
  BY <1>3 DEF ToSet
<1>9. U \subseteq Nat
  BY <1>3, <1>7
<1> HIDE DEF U, At
<1>10. \A c \in U : Q[c] \in 0 .. Len(C) - 1 /\ C[Q[c] + 1] = c
  <2> TAKE c \in U
  <2>0. At(c) \in 1 .. Len(C) /\ Q[c] = (At(c) - 1) % U16
    BY <1>7
  <2>1. Q[c] = At(c) - 1 /\ At(c) \in 1 .. Len(C)
    <3>1. PICK i \in 1 .. Len(C) : i = At(c)
      BY <2>0
    <3>2. U16 \in Nat \ {0} /\ Len(C) <= U16
      BY <1>1, PortAssumption
    <3>3. i - 1 \in Nat /\ i - 1 < U16
      BY <1>3, <3>2
    <3>4. (i - 1) % U16 = i - 1
      BY <3>2, <3>3, NotCut
    <3> QED
      BY <2>0, <3>1, <3>4
  <2>2. Q[c] \in 0 .. Len(C) - 1 /\ Q[c] + 1 = At(c)
    BY <1>3, <2>1
  <2> QED
    BY <1>7, <2>2
<1>11. DOMAIN Q = U /\ Q \in [U -> 0 .. Len(C) - 1]
  BY <1>10
<1> HIDE DEF Q
<1>12. Q \in Injection(U, 0 .. Len(C) - 1)
  BY <1>10, <1>11 DEF Injection, IsInjective
<1>13. Q \in Surjection(U, 0 .. Len(C) - 1)
  <2>1. ASSUME NEW t \in 0 .. Len(C) - 1
        PROVE  \E c \in U : Q[c] = t
    <3>1. t + 1 \in 1 .. Len(C)
      BY <1>3
    <3>2. C[t + 1] \in U
      BY <1>8, <3>1
    <3>3. PICK q : q = Q[C[t + 1]]
      OBVIOUS
    <3>4. q \in 0 .. Len(C) - 1 /\ C[q + 1] = C[t + 1]
      BY <1>10, <3>2, <3>3
    <3>5. q + 1 \in 1 .. Len(C)
      BY <1>3, <3>4
    <3>6. q + 1 = t + 1
      BY <1>5, <3>1, <3>4, <3>5
    <3> QED
      BY <1>3, <3>2, <3>3, <3>4, <3>6
  <2> QED
    BY <1>11, <2>1 DEF Surjection
<1>14. ASSUME NEW c \in U, NEW d \in U, c < d
       PROVE  Q[c] < Q[d]
  <2>1. PICK i, j : i = Q[c] + 1 /\ j = Q[d] + 1
    OBVIOUS
  <2>2. i \in 1 .. Len(C) /\ j \in 1 .. Len(C) /\ C[i] = c /\ C[j] = d
    BY <1>3, <1>10, <2>1, SMTT(30)
  <2>3. c \in Nat /\ d \in Nat /\ ~(d < c) /\ c # d
    BY <1>9, <1>14
  <2>4. ~(j < i) /\ i # j
    BY <1>4, <2>2, <2>3
  <2> QED
    BY <1>10, <2>1, <2>2, <2>4
<1>15. Min(U) = C[1]
  <2>1. C[1] \in U
    BY <1>3, <1>8
  <2>2. \A c \in U : C[1] <= c
    <3> TAKE c \in U
    <3>1. PICK i \in 1 .. Len(C) : C[i] = c
      BY <1>7
    <3>2. i = 1 \/ 1 < i
      BY <3>1
    <3> QED
      BY <1>3, <1>4, <3>1, <3>2
  <2>3. ASSUME NEW x \in U, \A y \in U : x <= y
        PROVE  x = C[1]
    <3>1. x <= C[1] /\ C[1] <= x /\ x \in Nat /\ C[1] \in Nat
      BY <1>9, <2>1, <2>2, <2>3
    <3> QED
      BY <3>1
  <2> QED
    BY <2>1, <2>2, <2>3 DEF Min
<1> QED
  BY <1>1, <1>3, <1>6, <1>9, <1>11, <1>12, <1>13, <1>14, <1>15 DEF Bijection

\* The map of the pools holds a pool of the socket for each socket.
LEMMA MempoolMapIs ==
  ASSUME NEW pools \in SetToAllKPermutations(Pools)
  PROVE  \A s \in DOMAIN MempoolMap(pools) :
           MempoolMap(pools)[s] \in Pools /\ PoolSocket[MempoolMap(pools)[s]] = s
<1>1. PICK n \in Nat : pools \in [1 .. n -> Pools]
  <2>1. PICK S \in SUBSET Pools : pools \in [1 .. Cardinality(S) -> S]
    BY DEF SetToAllKPermutations, SetToSeqs
  <2>2. Cardinality(S) \in Nat
    BY PortAssumption, FS_Subset, FS_CardinalityType
  <2> QED
    BY <2>1, <2>2
<1> SUFFICES ASSUME NEW s \in DOMAIN MempoolMap(pools)
             PROVE  MempoolMap(pools)[s] \in Pools /\ PoolSocket[MempoolMap(pools)[s]] = s
  OBVIOUS
<1> DEFINE T == {i \in 1 .. n : PoolSocket[pools[i]] = s}
<1>2. T # {} /\ T \in SUBSET (0 .. n) /\ MempoolMap(pools)[s] = pools[Max(T)]
  <2>1. DOMAIN pools = 1 .. n /\ ToSet(pools) = {pools[i] : i \in 1 .. n}
    BY <1>1 DEF ToSet
  <2>2. /\ MempoolMap(pools)[s] = pools[Max(T)]
        /\ \E p \in ToSet(pools) : s = PoolSocket[p]
    BY <2>1 DEF MempoolMap
  <2>3. \E i \in 1 .. n : PoolSocket[pools[i]] = s
    BY <2>1, <2>2
  <2> QED
    BY <2>2, <2>3
<1>3. Max(T) \in T
  <2> HIDE DEF T
  <2> QED
    BY <1>2, MaxIs
<1> QED
  BY <1>1, <1>2, <1>3

-----------------------------------------------------------------------------
(* The invariant.                                                          *)

\* A step that leaves the device and the Ports alone.
LEMMA KeepsQueues ==
  ASSUME QueuesExact, UNCHANGED <<device, ports, owner>>
  PROVE  QueuesExact'
BY DEF QueuesExact

\* The conjuncts of TypeOK, by what they speak of.
RestFits ==
  /\ config \in Configs
  /\ eal \in {"down", "up", "failed"}
  /\ result \in {"ok", "err"}

CoresFit(b) ==
  \/ b.cores = <<0>>
  \/ CoreCount(b.cores) <= MaxRxQueues /\ CoreCount(b.cores) <= MaxTxQueues

BuilderFits(b) ==
  /\ CoresFit(b)
  /\ b.rxd \in {0} \cup (DescLimits.min .. DescLimits.max)
  /\ b.txd \in {0} \cup (DescLimits.min .. DescLimits.max)

DeviceFits(d) == d.socket \in DeviceSockets /\ d.state \in {"idle", "started", "closed"}

PortsFit == Len(ports) <= MaxPorts /\ owner \in 0 .. Len(ports)

\* The inductive invariant.
IInv ==
  /\ RestFits
  /\ IsBuilder(builder) /\ BuilderFits(builder)
  /\ IsDevice(device) /\ DeviceFits(device)
  /\ ports \in Seq(PortRecords) /\ PortsFit
  /\ QueuesExact

LEMMA InvTyped == IInv => TypeOK
<1> SUFFICES ASSUME IInv
             PROVE  TypeOK
  OBVIOUS
<1>1. \/ builder.cores = <<0>>
      \/ /\ CoreCount(builder.cores) <= MaxRxQueues
         /\ CoreCount(builder.cores) <= MaxTxQueues
         /\ builder.cores # <<>>
         /\ \A i \in 1 .. Len(builder.cores) - 1 : builder.cores[i] < builder.cores[i + 1]
  <2>1. PICK C : C = builder.cores
    OBVIOUS
  <2>2. C \in Seq(Nat) /\ Rising(C) /\ Len(C) >= 1 /\ DOMAIN C = 1 .. Len(C) /\ Len(C) \in Nat
    BY <2>1 DEF IInv, IsBuilder
  <2>3. \A i \in 1 .. Len(C) - 1 : C[i] < C[i + 1]
    BY <2>2 DEF Rising
  <2>4. C = <<0>> \/ (CoreCount(C) <= MaxRxQueues /\ CoreCount(C) <= MaxTxQueues)
    BY <2>1 DEF IInv, BuilderFits, CoresFit
  <2>5. C # <<>>
    BY <2>2
  <2> QED
    BY <2>1, <2>3, <2>4, <2>5
<1>2. /\ {builder.rxd, builder.txd} \subseteq {0} \cup (DescLimits.min .. DescLimits.max)
      /\ \A s \in DOMAIN builder.pools : PoolSocket[builder.pools[s]] = s
  BY DEF IInv, BuilderFits, IsBuilder
<1>3. /\ device.socket \in DeviceSockets /\ device.state \in {"idle", "started", "closed"}
      /\ DOMAIN device.rx \cup device.tx \subseteq 0 .. device.queues - 1
      /\ Range(device.rx) \subseteq Pools
  BY DEF IInv, DeviceFits, IsDevice, Range
<1> QED
  BY <1>1, <1>2, <1>3 DEF IInv, RestFits, PortsFit, TypeOK

LEMMA ErrStep ==
  ASSUME IInv, Err, UNCHANGED configVars
  PROVE  IInv'
<1>1. UNCHANGED <<builder, device, ports, owner, config, eal>> /\ result' = "err"
  BY DEF Err, configVars
<1>2. QueuesExact'
  BY <1>1, KeepsQueues DEF IInv
<1> QED
  BY <1>1, <1>2 DEF IInv, RestFits, PortsFit

\* A call that only replaces the builder.
LEMMA BuilderStep ==
  ASSUME IInv, IsBuilder(builder'), BuilderFits(builder'), result' = "ok",
         UNCHANGED <<device, ports, owner>>, UNCHANGED configVars
  PROVE  IInv'
<1>1. UNCHANGED <<device, ports, owner, config, eal>>
  BY DEF configVars
<1>2. QueuesExact'
  BY <1>1, KeepsQueues DEF IInv
<1> QED
  BY <1>1, <1>2 DEF IInv, RestFits, PortsFit

LEMMA NewBuilderIs == IsBuilder(NewBuilder) /\ BuilderFits(NewBuilder)
<1>1. <<0>> \in Seq(Nat) /\ Len(<<0>>) = 1 /\ Rising(<<0>>)
  BY DEF Rising
<1>2. DOMAIN NoPools = {}
  BY DEF NoPools
<1>3. /\ NewBuilder.cores = <<0>> /\ NewBuilder.rxd = 0 /\ NewBuilder.txd = 0
      /\ NewBuilder.pools = NoPools
  BY DEF NewBuilder
<1> QED
  BY <1>1, <1>2, <1>3 DEF NewBuilder, IsBuilder, BuilderFits, CoresFit

LEMMA NewStep ==
  ASSUME IInv, new, UNCHANGED configVars
  PROVE  IInv'
BY NewBuilderIs, BuilderStep, ErrStep DEF new

LEMMA CoresStep ==
  ASSUME IInv, NEW i \in DOMAIN config.ports, cores(config.ports[i]), UNCHANGED configVars
  PROVE  IInv'
<1>1. PICK asked : asked = config.ports[i]
  OBVIOUS
<1>2. asked \in Seq(Nat)
  BY <1>1, ConfigsAssumption DEF IInv, RestFits
<1>3. PICK kept : kept = dedup(sort(asked))
  OBVIOUS
<1>4. CASE Err
  BY <1>4, ErrStep
<1>5. CASE /\ asked # <<>> /\ CoreCount(kept) <= MaxRxQueues /\ CoreCount(kept) <= MaxTxQueues
           /\ builder' = [builder EXCEPT !.cores = kept]
           /\ result' = "ok" /\ UNCHANGED <<device, ports, owner>>
  <2>1. kept \in Seq(Nat) /\ Rising(kept) /\ Len(kept) >= 1
    BY <1>2, <1>3, <1>5, CoresOnceInOrder
  <2>2. IsBuilder(builder) /\ BuilderFits(builder)
    BY DEF IInv
  <2>3. /\ builder' = [cores |-> builder'.cores, rxd |-> builder'.rxd,
                       txd |-> builder'.txd, pools |-> builder'.pools]
        /\ builder'.cores = kept /\ builder'.rxd = builder.rxd /\ builder'.txd = builder.txd
        /\ builder'.pools = builder.pools
    BY <1>5, <2>2 DEF IsBuilder
  <2>4. IsBuilder(builder')
    BY <2>1, <2>2, <2>3 DEF IsBuilder
  <2>5. BuilderFits(builder')
    BY <1>5, <2>2, <2>3 DEF BuilderFits, CoresFit
  <2> QED
    BY <1>5, <2>4, <2>5, BuilderStep
<1> QED
  BY <1>1, <1>3, <1>4, <1>5 DEF cores

LEMMA CapacityStep ==
  ASSUME IInv, NEW r \in Capacities, NEW t \in Capacities, rx_tx_queue_capacity(r, t),
         UNCHANGED configVars
  PROVE  IInv'
<1>1. PICK a, b : a = Adjust(r % U16) /\ b = Adjust(t % U16)
  OBVIOUS
<1>2. a \in DescLimits.min .. DescLimits.max /\ b \in DescLimits.min .. DescLimits.max
  <2>1. r \in Nat /\ t \in Nat /\ U16 \in Nat \ {0}
    BY PortAssumption
  <2>2. r % U16 \in Nat /\ t % U16 \in Nat
    BY <2>1
  <2> QED
    BY <1>1, <2>2, AdjustIs
<1>3. CASE Err
  BY <1>3, ErrStep
<1>4. CASE /\ builder' = [builder EXCEPT !.rxd = a, !.txd = b]
           /\ result' = "ok" /\ UNCHANGED <<device, ports, owner>>
  <2>1. IsBuilder(builder) /\ BuilderFits(builder)
    BY DEF IInv
  <2>2. /\ builder' = [cores |-> builder'.cores, rxd |-> builder'.rxd,
                       txd |-> builder'.txd, pools |-> builder'.pools]
        /\ builder'.cores = builder.cores /\ builder'.rxd = a /\ builder'.txd = b
        /\ builder'.pools = builder.pools
    BY <1>4, <2>1 DEF IsBuilder
  <2>3. IsBuilder(builder')
    BY <2>1, <2>2 DEF IsBuilder
  <2>4. BuilderFits(builder')
    BY <1>2, <2>1, <2>2 DEF BuilderFits, CoresFit
  <2> QED
    BY <1>4, <2>3, <2>4, BuilderStep
<1> QED
  BY <1>1, <1>3, <1>4 DEF rx_tx_queue_capacity

LEMMA MempoolsStep ==
  ASSUME IInv, NEW pools \in SetToAllKPermutations(Pools), mempools(pools), UNCHANGED configVars
  PROVE  IInv'
<1>1. PICK m : m = MempoolMap(pools)
  OBVIOUS
<1>2. \A s \in DOMAIN m : m[s] \in Pools /\ PoolSocket[m[s]] = s
  BY <1>1, MempoolMapIs
<1>3. IsBuilder(builder) /\ BuilderFits(builder)
  BY DEF IInv
<1>4. builder' = [builder EXCEPT !.pools = m] /\ result' = "ok" /\ UNCHANGED <<device, ports, owner>>
  BY <1>1 DEF mempools
<1>5. /\ builder' = [cores |-> builder'.cores, rxd |-> builder'.rxd,
                     txd |-> builder'.txd, pools |-> builder'.pools]
      /\ builder'.cores = builder.cores /\ builder'.rxd = builder.rxd /\ builder'.txd = builder.txd
      /\ builder'.pools = m
  BY <1>3, <1>4 DEF IsBuilder
<1>6. IsBuilder(builder')
  BY <1>2, <1>3, <1>5 DEF IsBuilder
<1>7. BuilderFits(builder')
  BY <1>3, <1>5 DEF BuilderFits, CoresFit
<1> QED
  BY <1>4, <1>6, <1>7, BuilderStep

\* finish fails: the device belongs to no Port.
LEMMA FailStep ==
  ASSUME IInv, NEW d, IsDevice(d), DeviceFits(d), FailWith(d), UNCHANGED builder,
         UNCHANGED configVars
  PROVE  IInv'
<1>1. /\ device' = d /\ owner' = 0 /\ result' = "err"
      /\ UNCHANGED <<ports, builder, config, eal>>
  BY DEF FailWith, configVars
<1>2. QueuesExact'
  BY <1>1 DEF QueuesExact
<1>3. PortsFit'
  BY <1>1 DEF IInv, PortsFit
<1> QED
  BY <1>1, <1>2, <1>3 DEF IInv, RestFits

\* finish succeeds: the new Port has all the queues.
LEMMA FinishedStep ==
  ASSUME IInv, UNCHANGED builder, UNCHANGED configVars,
         NEW d, IsDevice(d), d.socket = device.socket, d.state = device.state,
         d.queues = Len(builder.cores), d.queues <= U16,
         socket_id \in DOMAIN builder.pools, Len(ports) < MaxPorts,
         device' = AfterSetups(d, builder.pools[socket_id], 2 * d.queues),
         ports' = Append(ports, [queues |-> Queues, live |-> TRUE]),
         owner' = Len(ports'), result' = "ok"
  PROVE  IInv'
<1>1. PICK n, pool : n = d.queues /\ pool = builder.pools[socket_id]
  OBVIOUS
<1>2. /\ IsBuilder(builder) /\ n = Len(builder.cores) /\ n \in Nat /\ n >= 1
      /\ pool \in Pools /\ PoolSocket[pool] = socket_id
  BY <1>1 DEF IInv, IsBuilder
<1>3. /\ IsDevice(device') /\ device'.queues = n
      /\ device'.socket = device.socket /\ device'.state = device.state
      /\ DOMAIN device'.rx = 0 .. n - 1 /\ device'.tx = 0 .. n - 1
      /\ \A q \in DOMAIN device'.rx : device'.rx[q] = pool
  <2>1. PICK k : k = 2 * n
    OBVIOUS
  <2>2. k \in Nat /\ k = 2 * d.queues /\ d.queues = n
    BY <1>1, <1>2, <2>1
  <2>3. PICK e : e = AfterSetups(d, pool, k)
    OBVIOUS
  <2>4. /\ IsDevice(e) /\ e.queues = d.queues /\ e.socket = d.socket /\ e.state = d.state
        /\ AllReady(e, pool)
    BY <1>2, <2>2, <2>3, AfterSetupsIs
  <2>5. device' = e
    BY <1>1, <2>2, <2>3
  <2> QED
    BY <2>2, <2>4, <2>5 DEF AllReady
<1>4. PICK qs : qs = Queues
  OBVIOUS
<1>5. /\ qs \in Bijection(DOMAIN qs, 0 .. n - 1)
      /\ \A c, e \in DOMAIN qs : c < e => qs[c] < qs[e]
      /\ Min(DOMAIN qs) = Head(builder.cores) /\ DOMAIN qs \subseteq Nat
  <2>1. Len(builder.cores) <= U16
    BY <1>1, <1>2
  <2> QED
    BY <1>2, <1>4, <2>1, QueuesIs
<1>6. [queues |-> qs, live |-> TRUE] \in PortRecords
  <2>1. qs \in [DOMAIN qs -> Nat]
    BY <1>2, <1>5 DEF Bijection, Injection
  <2>2. qs \in UNION {[S -> Nat] : S \in SUBSET Nat}
    BY <1>5, <2>1
  <2> QED
    BY <2>2 DEF PortRecords
<1>7. /\ ports \in Seq(PortRecords) /\ Len(ports) \in Nat
      /\ ports' = Append(ports, [queues |-> qs, live |-> TRUE])
  BY <1>4 DEF IInv
<1>8. /\ ports' \in Seq(PortRecords) /\ Len(ports') = Len(ports) + 1
      /\ ports'[owner'] = [queues |-> qs, live |-> TRUE]
  BY <1>6, <1>7
<1>9. PortsFit'
  BY <1>7, <1>8, PortAssumption, SMTT(30) DEF PortsFit
<1>10. QueuesExact'
  <2>1. ports'[owner'].queues = qs
    BY <1>8
  <2>2. Range(device'.rx) = {pool}
    <3>1. 0 \in DOMAIN device'.rx
      BY <1>2, <1>3
    <3> QED
      BY <1>3, <3>1 DEF Range
  <2>3. PoolSocket[pool] = IF device'.socket \in PhysicalSockets
                           THEN device'.socket ELSE CoreSocket(Min(DOMAIN qs))
    <3>1. PICK low : low = Min(DOMAIN qs) /\ low = Head(builder.cores)
      BY <1>5
    <3>2. PoolSocket[pool] = socket_id /\ device'.socket = device.socket
      BY <1>2, <1>3
    <3> QED
      BY <3>1, <3>2, Zenon DEF socket_id
  <2>4. /\ qs \in Bijection(DOMAIN qs, 0 .. device'.queues - 1)
        /\ DOMAIN device'.rx = 0 .. device'.queues - 1 /\ device'.tx = 0 .. device'.queues - 1
    BY <1>3, <1>5
  <2> QED
    BY <1>2, <1>5, <2>1, <2>2, <2>3, <2>4, ZenonT(60) DEF QueuesExact
<1>11. DeviceFits(device')
  BY <1>3 DEF IInv, DeviceFits
<1>12. IsBuilder(builder') /\ BuilderFits(builder')
  BY DEF IInv
<1>13. RestFits'
  BY DEF IInv, RestFits, configVars
<1> QED
  BY <1>3, <1>8, <1>9, <1>10, <1>11, <1>12, <1>13 DEF IInv

LEMMA FinishStep ==
  ASSUME IInv, finish, UNCHANGED configVars
  PROVE  IInv'
<1>0. PICK len, cut : len = Len(builder.cores) /\ cut = CoreCount(builder.cores)
  OBVIOUS
<1>a. /\ IsDevice(device) /\ IsBuilder(builder) /\ DeviceFits(device)
      /\ len \in Nat /\ len >= 1 /\ U16 \in Nat \ {0} /\ cut = len % U16
  BY <1>0, PortAssumption DEF IInv, IsBuilder, CoreCount
<1>b. cut \in 0 .. U16 - 1
  BY <1>a
<1>1. PICK n : n = IF cut = 0 THEN 1 ELSE cut
  OBVIOUS
<1>2. n \in Nat /\ IsDevice(device) /\ IsBuilder(builder) /\ DeviceFits(device)
  BY <1>1, <1>a, <1>b
\* As many queues as the cut number says are enough for all cores only when
\* nothing was cut off.
<1>c. len <= n => n = len /\ n <= U16
  <2>1. CASE cut = 0
    BY <1>1, <1>a, <2>1
  <2>2. CASE cut # 0 /\ len <= n
    <3>1. n = cut /\ len < U16
      BY <1>1, <1>a, <1>b, <2>2
    <3>2. len % U16 = len
      BY <1>a, <3>1, NotCut
    <3> QED
      BY <1>a, <3>1, <3>2
  <2> QED
    BY <2>1, <2>2
<1>3. CASE Err
  BY <1>3, ErrStep
<1>4. ASSUME UNCHANGED builder, FailWith(Configured(0))
      PROVE  IInv'
  <2>1. /\ IsDevice(Configured(0)) /\ Configured(0).socket = device.socket
        /\ Configured(0).state = device.state
    BY <1>2, ConfiguredIs
  <2>2. DeviceFits(Configured(0))
    BY <1>2, <2>1 DEF DeviceFits
  <2> QED
    BY <1>4, <2>1, <2>2, FailStep
<1>5. ASSUME UNCHANGED builder, SetUpQueues(Configured(n))
      PROVE  IInv'
  <2>1. PICK d : d = Configured(n)
    OBVIOUS
  <2>2. IsDevice(d) /\ d.queues = n /\ d.socket = device.socket /\ d.state = device.state
    BY <1>2, <2>1, ConfiguredIs
  <2>3. DeviceFits(d)
    BY <1>2, <2>2 DEF DeviceFits
  <2>4. CASE FailWith(d)
    BY <1>5, <2>2, <2>3, <2>4, FailStep
  <2>5. ASSUME socket_id \in DOMAIN builder.pools, NEW k \in 0 .. 2 * d.queues,
               FailWith(AfterSetups(d, builder.pools[socket_id], k))
        PROVE  IInv'
    <3>1. PICK pool, e : pool = builder.pools[socket_id] /\ e = AfterSetups(d, pool, k)
      OBVIOUS
    <3>2. pool \in Pools /\ k \in Nat
      BY <1>2, <2>5, <3>1 DEF IsBuilder
    <3>3. IsDevice(e) /\ e.socket = d.socket /\ e.state = d.state
      BY <2>2, <3>1, <3>2, AfterSetupsIs
    <3>4. DeviceFits(e)
      BY <2>3, <3>3 DEF DeviceFits
    <3> QED
      BY <1>5, <2>5, <3>1, <3>3, <3>4, FailStep
  <2>6. CASE /\ socket_id \in DOMAIN builder.pools
             /\ Len(builder.cores) <= d.queues
             /\ Len(ports) < MaxPorts
             /\ device' = AfterSetups(d, builder.pools[socket_id], 2 * d.queues)
             /\ ports' = Append(ports, [queues |-> Queues, live |-> TRUE])
             /\ owner' = Len(ports')
             /\ result' = "ok"
    <3>1. d.queues = Len(builder.cores) /\ d.queues <= U16
      BY <1>0, <1>c, <2>2, <2>6
    <3> QED
      BY <1>5, <2>2, <2>6, <3>1, FinishedStep
  <2> QED
    BY <1>5, <2>1, <2>4, <2>5, <2>6 DEF SetUpQueues
<1> QED
  BY <1>0, <1>1, <1>3, <1>4, <1>5 DEF finish

\* start and stop change the state of the device only, and never from closed.
LEMMA StateStep ==
  ASSUME IInv, NEW st \in {"idle", "started", "closed"},
         device.state = "closed" => st = "closed",
         device' = [device EXCEPT !.state = st], result' \in {"ok", "err"},
         UNCHANGED <<builder, ports, owner>>, UNCHANGED configVars
  PROVE  IInv'
<1>1. IsDevice(device) /\ DeviceFits(device)
  BY DEF IInv
<1>2. /\ device' = [socket |-> device'.socket, state |-> device'.state,
                    queues |-> device'.queues, rx |-> device'.rx, tx |-> device'.tx]
      /\ device'.socket = device.socket /\ device'.state = st /\ device'.queues = device.queues
      /\ device'.rx = device.rx /\ device'.tx = device.tx
  BY <1>1 DEF IsDevice
<1>3. IsDevice(device') /\ DeviceFits(device')
  BY <1>1, <1>2 DEF IsDevice, DeviceFits
<1>4. QueuesExact'
  BY <1>2 DEF IInv, QueuesExact
<1> QED
  BY <1>3, <1>4 DEF IInv, RestFits, PortsFit, configVars

LEMMA StartStep ==
  ASSUME IInv, NEW p, start(p), UNCHANGED configVars
  PROVE  IInv'
BY StateStep, ErrStep DEF start

LEMMA StopStep ==
  ASSUME IInv, NEW p, stop(p), UNCHANGED configVars
  PROVE  IInv'
<1>1. PICK st : st = IF device.state = "started" THEN "idle" ELSE device.state
  OBVIOUS
<1>2. st \in {"idle", "started", "closed"} /\ (device.state = "closed" => st = "closed")
  BY <1>1 DEF IInv, DeviceFits
<1>3. device' = [device EXCEPT !.state = st] /\ result' = "ok" /\ UNCHANGED <<builder, ports, owner>>
  BY <1>1 DEF stop
<1> QED
  BY <1>2, <1>3, StateStep

LEMMA DropStep ==
  ASSUME IInv, NEW p \in DOMAIN ports, drop(p), UNCHANGED configVars
  PROVE  IInv'
<1>1. /\ ports' = [ports EXCEPT ![p].live = FALSE]
      /\ device' = [device EXCEPT !.state = "closed", !.queues = 0, !.rx = <<>>, !.tx = {}]
      /\ result' = "ok" /\ UNCHANGED <<builder, owner, config, eal>>
  BY DEF drop, configVars
<1>2. IsDevice(device) /\ DeviceFits(device) /\ ports \in Seq(PortRecords)
  BY DEF IInv
<1>3. /\ device' = [socket |-> device'.socket, state |-> device'.state,
                    queues |-> device'.queues, rx |-> device'.rx, tx |-> device'.tx]
      /\ device'.socket = device.socket /\ device'.state = "closed" /\ device'.queues = 0
      /\ device'.rx = <<>> /\ device'.tx = {}
  BY <1>1, <1>2 DEF IsDevice
<1>4. IsDevice(device') /\ DeviceFits(device')
  BY <1>2, <1>3 DEF IsDevice, DeviceFits
<1>5. ports' \in Seq(PortRecords) /\ Len(ports') = Len(ports)
  <2>1. ports[p] \in PortRecords
    BY <1>2
  <2>2. [ports[p] EXCEPT !.live = FALSE] \in PortRecords
    BY <2>1 DEF PortRecords
  <2>3. ports' = [ports EXCEPT ![p] = [ports[p] EXCEPT !.live = FALSE]]
    BY <1>1
  <2> QED
    BY <1>2, <2>2, <2>3
<1>6. QueuesExact'
  BY <1>3 DEF QueuesExact
<1> QED
  BY <1>1, <1>4, <1>5, <1>6 DEF IInv, RestFits, PortsFit

LEMMA Invariant == Spec => []IInv
<1>1. Init => IInv
  <2> SUFFICES ASSUME Init
               PROVE  IInv
    OBVIOUS
  <2>1. IsBuilder(builder) /\ BuilderFits(builder)
    BY NewBuilderIs DEF Init
  <2>2. /\ device = [socket |-> device.socket, state |-> device.state,
                     queues |-> device.queues, rx |-> device.rx, tx |-> device.tx]
        /\ device.socket \in DeviceSockets /\ device.state = "idle" /\ device.queues = 0
        /\ device.rx = <<>> /\ device.tx = {}
    BY DEF Init
  <2>3. IsDevice(device) /\ DeviceFits(device)
    BY <2>2 DEF IsDevice, DeviceFits
  <2>4. ports \in Seq(PortRecords) /\ PortsFit
    BY PortAssumption DEF Init, PortsFit
  <2>5. RestFits /\ QueuesExact
    BY DEF Init, ConfigInit, RestFits, QueuesExact
  <2> QED
    BY <2>1, <2>3, <2>4, <2>5 DEF IInv
<1>2. IInv /\ [Next]_vars => IInv'
  <2> SUFFICES ASSUME IInv, [Next]_vars
               PROVE  IInv'
    OBVIOUS
  <2>1. CASE eal_init /\ UNCHANGED portVars
    <3>1. UNCHANGED <<builder, device, ports, result, owner, config>> /\ eal' \in {"up", "failed"}
      BY <2>1 DEF eal_init, portVars
    <3>2. QueuesExact'
      BY <3>1, KeepsQueues DEF IInv
    <3> QED
      BY <3>1, <3>2 DEF IInv, RestFits, PortsFit
  <2>2. CASE BuilderCall /\ UNCHANGED configVars
    BY <2>2, NewStep, CoresStep, CapacityStep, MempoolsStep, FinishStep DEF BuilderCall
  <2>3. CASE /\ \E p \in DOMAIN ports : ports[p].live /\ (start(p) \/ stop(p) \/ drop(p))
             /\ UNCHANGED configVars
    BY <2>3, StartStep, StopStep, DropStep
  <2>4. CASE UNCHANGED vars
    <3>1. UNCHANGED <<builder, device, ports, result, owner, config, eal>>
      BY <2>4 DEF vars, portVars, configVars
    <3>2. QueuesExact'
      BY <3>1, KeepsQueues DEF IInv
    <3> QED
      BY <3>1, <3>2 DEF IInv, RestFits, PortsFit
  <2> QED
    BY <2>1, <2>2, <2>3, <2>4 DEF Next
<1> QED
  BY <1>1, <1>2, PTL DEF Spec

\* The cores of a builder rise and fit the device, its capacities are within
\* the device's limits and its pools sorted by their sockets, and the device
\* has no queue set up beyond those configured, whatever is called.
THEOREM TypeCorrect == Spec => []TypeOK
BY Invariant, InvTyped, PTL

\* The Port made last has the device to itself until a later finish fails or a
\* Port is dropped: one queue pair per core in the order of the cores, all set
\* up, all with one pool of the right socket.
THEOREM AlwaysQueuesExact == Spec => []QueuesExact
<1>1. IInv => QueuesExact
  BY DEF IInv
<1> QED
  BY <1>1, Invariant, PTL

-----------------------------------------------------------------------------
(* Induction and recursion over the natural numbers.                       *)

\* Induction over the numbers of a set, which stands for the property.
LEMMA Induction ==
  ASSUME NEW S, 0 \in S, \A n \in Nat : n \in S => n + 1 \in S
  PROVE  Nat \subseteq S
<1> SUFFICES ASSUME ~(Nat \subseteq S)
             PROVE  FALSE
  OBVIOUS
<1>1. PICK m \in Nat \ S : \A k \in Nat \ S : m <= k
  BY NatMin
<1>2. m # 0 /\ m - 1 \in Nat /\ (m - 1) + 1 = m
  BY <1>1
<1> QED
  BY <1>1, <1>2

\* g has the values up to n of a function that goes back from n to h[n].
Computes(g, n, D, B, base, h, G) ==
  /\ g \in [0 .. n -> D]
  /\ \A k \in 0 .. n : g[k] = IF k \in B THEN base[k] ELSE G[k][g[h[k]]]

\* f is such a function.
Recursive(f, D, B, base, h, G) ==
  /\ f \in [Nat -> D]
  /\ \A n \in Nat : f[n] = IF n \in B THEN base[n] ELSE G[n][f[h[n]]]

\* There is a function that is given on B and, at any other number n, by G
\* from its value at the smaller number h[n].
LEMMA RecursionExists ==
  ASSUME NEW D, NEW B \in SUBSET Nat, NEW base \in [B -> D],
         NEW h \in [Nat -> Nat], \A n \in Nat \ B : h[n] < n,
         NEW G \in [Nat -> [D -> D]]
  PROVE  \E f : Recursive(f, D, B, base, h, G)
<1> DEFINE C(g, n) == Computes(g, n, D, B, base, h, G)
<1>1. 0 \in B
  OBVIOUS
<1>2. ASSUME NEW n \in Nat, NEW m \in Nat, n <= m, NEW g, NEW e, C(g, n), C(e, m)
      PROVE  \A k \in 0 .. n : g[k] = e[k]
  <2> DEFINE T == {k \in 0 .. n : g[k] # e[k]}
  <2> SUFFICES ASSUME T # {}
               PROVE  FALSE
    OBVIOUS
  <2>1. PICK k \in T : \A j \in T : k <= j
    <3>1. T \in SUBSET Nat
      OBVIOUS
    <3> HIDE DEF T
    <3> QED
      BY <3>1, NatMin
  <2>2. /\ k \in 0 .. n /\ k \in 0 .. m
        /\ g[k] = IF k \in B THEN base[k] ELSE G[k][g[h[k]]]
        /\ e[k] = IF k \in B THEN base[k] ELSE G[k][e[h[k]]]
    <3>1. k \in 0 .. n /\ k \in 0 .. m
      BY <1>2
    <3> QED
      BY <1>2, <3>1 DEF Computes
  <2>3. k \notin B
    BY <2>1, <2>2
  <2>4. h[k] \in Nat /\ h[k] < k
    BY <2>2, <2>3
  <2>5. g[h[k]] = e[h[k]]
    BY <2>1, <2>2, <2>4
  <2> QED
    BY <2>1, <2>2, <2>5
<1>3. \A n \in Nat : \E g : C(g, n)
  <2> DEFINE S == {n \in Nat : \E g : C(g, n)}
  <2>1. 0 \in S
    <3>1. C([k \in 0 .. 0 |-> base[k]], 0)
      <4>1. 0 .. 0 = {0}
        OBVIOUS
      <4> QED
        BY <1>1, <4>1 DEF Computes
    <3> QED
      BY <3>1
  <2>2. ASSUME NEW n \in Nat, n \in S
        PROVE  n + 1 \in S
    <3>1. PICK g : C(g, n)
      BY <2>2
    <3> DEFINE v == IF n + 1 \in B THEN base[n + 1] ELSE G[n + 1][g[h[n + 1]]]
               e == [k \in 0 .. n + 1 |-> IF k = n + 1 THEN v ELSE g[k]]
    <3>2. g \in [0 .. n -> D]
      BY <3>1 DEF Computes
    <3>3. n + 1 \notin B => h[n + 1] \in 0 .. n
      OBVIOUS
    <3>4. v \in D
      <4>1. CASE n + 1 \in B
        BY <4>1
      <4>2. CASE n + 1 \notin B
        BY <3>2, <3>3, <4>2
      <4> QED
        BY <4>1, <4>2
    <3> HIDE DEF v
    <3>5. e \in [0 .. n + 1 -> D]
      BY <3>2, <3>4
    <3>6. \A k \in 0 .. n : e[k] = g[k]
      OBVIOUS
    <3>7. e[n + 1] = v
      OBVIOUS
    <3> HIDE DEF e
    <3>8. ASSUME NEW k \in 0 .. n + 1
          PROVE  e[k] = IF k \in B THEN base[k] ELSE G[k][e[h[k]]]
      <4>1. CASE k = n + 1
        <5>1. n + 1 \notin B => e[h[n + 1]] = g[h[n + 1]]
          BY <3>3, <3>6
        <5> QED
          BY <3>7, <4>1, <5>1 DEF v
      <4>2. CASE k \in 0 .. n
        <5>1. g[k] = IF k \in B THEN base[k] ELSE G[k][g[h[k]]]
          BY <3>1, <4>2 DEF Computes
        <5>2. k \notin B => h[k] \in 0 .. n
          BY <4>2
        <5> QED
          BY <3>6, <4>2, <5>1, <5>2
      <4> QED
        BY <4>1, <4>2
    <3>9. C(e, n + 1)
      BY <3>5, <3>8 DEF Computes
    <3> QED
      BY <3>9
  <2> HIDE DEF S
  <2>3. Nat \subseteq S
    BY <2>1, <2>2, Induction
  <2> QED
    BY <2>3 DEF S
<1> DEFINE F(n) == CHOOSE g : C(g, n)
           f == [n \in Nat |-> F(n)[n]]
<1>4. \A n \in Nat : C(F(n), n)
  BY <1>3, Zenon
<1> HIDE DEF F
<1>5. \A n \in Nat : \A k \in 0 .. n : F(n)[k] = f[k]
  <2> SUFFICES ASSUME NEW n \in Nat, NEW k \in 0 .. n
               PROVE  F(n)[k] = f[k]
    OBVIOUS
  <2>1. F(k)[k] = F(n)[k]
    BY <1>2, <1>4
  <2> QED
    BY <2>1
<1>6. \A n \in Nat : f[n] \in D
  <2> TAKE n \in Nat
  <2>1. F(n) \in [0 .. n -> D]
    BY <1>4 DEF Computes
  <2> QED
    BY <2>1
<1>7. f \in [Nat -> D]
  BY <1>6
<1>8. ASSUME NEW n \in Nat
      PROVE  f[n] = IF n \in B THEN base[n] ELSE G[n][f[h[n]]]
  <2>1. F(n)[n] = IF n \in B THEN base[n] ELSE G[n][F(n)[h[n]]]
    BY <1>4 DEF Computes
  <2>2. n \notin B => F(n)[h[n]] = f[h[n]]
    BY <1>5
  <2> QED
    BY <2>1, <2>2
<1> HIDE DEF f
<1> QED
  BY <1>7, <1>8 DEF Recursive

-----------------------------------------------------------------------------
(* The digits of a core.                                                   *)

\* A number and what is left of it without its last digit.
LEMMA QuotientSmaller ==
  ASSUME NEW n \in Nat
  PROVE  /\ n \div 10 \in Nat /\ n % 10 \in Nat
         /\ n \div 10 <= n
         /\ n >= 10 => n \div 10 < n
         /\ n = (n \div 10) * 10 + (n % 10)
         /\ n < 10 => (n % 10) = n
OBVIOUS

\* Digits is the function its definition says.
LEMMA DigitsDefined ==
  /\ Digits \in [Nat -> Seq(Nat)]
  /\ \A n \in Nat : Digits[n] = IF n < 10 THEN <<n>> ELSE Append(Digits[n \div 10], n % 10)
<1> DEFINE base == [n \in 0 .. 9 |-> <<n>>]
           h    == [n \in Nat |-> n \div 10]
           G    == [n \in Nat |-> [x \in Seq(Nat) |-> Append(x, n % 10)]]
<1>1. base \in [0 .. 9 -> Seq(Nat)] /\ h \in [Nat -> Nat] /\ G \in [Nat -> [Seq(Nat) -> Seq(Nat)]]
  <2>1. \A n \in Nat : n \div 10 \in Nat /\ n % 10 \in Nat
    BY QuotientSmaller
  <2> QED
    BY <2>1
<1>2. \A n \in Nat \ (0 .. 9) : h[n] < n
  <2> TAKE n \in Nat \ (0 .. 9)
  <2>1. n \in Nat /\ n >= 10
    OBVIOUS
  <2> QED
    BY <2>1, QuotientSmaller
<1>3. /\ \A n \in 0 .. 9 : base[n] = <<n>>
      /\ \A n \in Nat : h[n] = n \div 10
      /\ \A n \in Nat : \A x \in Seq(Nat) : G[n][x] = Append(x, n % 10)
  OBVIOUS
<1> HIDE DEF base, h, G
<1>4. PICK f : Recursive(f, Seq(Nat), 0 .. 9, base, h, G)
  <2>1. 0 .. 9 \in SUBSET Nat
    OBVIOUS
  <2> QED
    BY <1>1, <1>2, <2>1, RecursionExists
<1>5. f \in [Nat -> Seq(Nat)]
  BY <1>4 DEF Recursive
<1>6. ASSUME NEW n \in Nat
      PROVE  f[n] = IF n < 10 THEN <<n>> ELSE Append(f[n \div 10], n % 10)
  <2>1. f[n] = IF n \in 0 .. 9 THEN base[n] ELSE G[n][f[h[n]]]
    BY <1>4 DEF Recursive
  <2>2. CASE n < 10
    <3>1. n \in 0 .. 9
      BY <2>2
    <3> QED
      BY <1>3, <2>1, <2>2, <3>1
  <2>3. CASE ~(n < 10)
    <3>1. n \notin 0 .. 9 /\ n \div 10 \in Nat
      BY <2>3, QuotientSmaller
    <3>2. h[n] = n \div 10 /\ f[n \div 10] \in Seq(Nat)
      BY <1>3, <1>5, <3>1
    <3>3. G[n][f[n \div 10]] = Append(f[n \div 10], n % 10)
      BY <1>3, <3>2
    <3> QED
      BY <2>1, <2>3, <3>1, <3>2, <3>3
  <2> QED
    BY <2>2, <2>3
<1>7. f = [n \in Nat |-> IF n < 10 THEN <<n>> ELSE Append(f[n \div 10], n % 10)]
  BY <1>5, <1>6
<1>8. Digits = [n \in Nat |-> IF n < 10 THEN <<n>> ELSE Append(Digits[n \div 10], n % 10)]
  BY <1>7, Zenon DEF Digits
<1>9. \A n \in Nat : Digits[n] = IF n < 10 THEN <<n>> ELSE Append(Digits[n \div 10], n % 10)
  BY <1>8
<1>10. \A n \in Nat : Digits[n] \in Seq(Nat)
  <2> DEFINE T == {n \in Nat : Digits[n] \notin Seq(Nat)}
  <2> SUFFICES ASSUME T # {}
               PROVE  FALSE
    OBVIOUS
  <2>1. PICK n \in T : \A m \in T : n <= m
    <3>1. T \in SUBSET Nat
      OBVIOUS
    <3> HIDE DEF T
    <3> QED
      BY <3>1, NatMin
  <2>2. n \in Nat /\ Digits[n] \notin Seq(Nat)
    BY <2>1
  <2>3. ~(n < 10)
    <3>1. n < 10 => Digits[n] = <<n>>
      BY <1>9, <2>2
    <3>2. <<n>> \in Seq(Nat)
      BY <2>2
    <3> QED
      BY <2>2, <3>1, <3>2
  <2>4. n \div 10 \in Nat /\ n \div 10 < n /\ n % 10 \in Nat
    BY <2>2, <2>3, QuotientSmaller
  <2>5. Digits[n \div 10] \in Seq(Nat)
    <3>1. n \div 10 \notin T
      BY <2>1, <2>2, <2>4
    <3> QED
      BY <2>4, <3>1
  <2>6. Digits[n] = Append(Digits[n \div 10], n % 10)
    BY <1>9, <2>2, <2>3
  <2>7. Digits[n] \in Seq(Nat)
    BY <2>4, <2>5, <2>6, AppendProperties
  <2> QED
    BY <2>2, <2>7
<1> QED
  BY <1>8, <1>9, <1>10

\* The digits of a number, and the digits of the number without the last.
LEMMA DigitsAre ==
  ASSUME NEW n \in Nat
  PROVE  /\ Digits[n] \in Seq(Nat) /\ Len(Digits[n]) \in Nat \ {0}
         /\ n < 10 => Len(Digits[n]) = 1 /\ Digits[n][1] = n
         /\ n >= 10 =>
              /\ Len(Digits[n]) = Len(Digits[n \div 10]) + 1 /\ Len(Digits[n \div 10]) \in Nat \ {0}
              /\ \A j \in 1 .. Len(Digits[n \div 10]) : Digits[n][j] = Digits[n \div 10][j]
         /\ Digits[n][Len(Digits[n])] = n % 10
<1>1. n \div 10 \in Nat /\ n % 10 \in Nat
  BY QuotientSmaller
<1>2. \A m \in Nat : Digits[m] \in Seq(Nat) /\ Len(Digits[m]) \in Nat \ {0}
  <2> TAKE m \in Nat
  <2>1. Digits[m] \in Seq(Nat)
    BY DigitsDefined
  <2>2. Digits[m] = IF m < 10 THEN <<m>> ELSE Append(Digits[m \div 10], m % 10)
    BY DigitsDefined
  <2>3. m \div 10 \in Nat /\ m % 10 \in Nat
    BY QuotientSmaller
  <2>4. Digits[m \div 10] \in Seq(Nat)
    BY <2>3, DigitsDefined
  <2>5. Len(Digits[m]) # 0
    <3>1. CASE m < 10
      BY <2>2, <3>1
    <3>2. CASE ~(m < 10)
      <4>1. Digits[m] = Append(Digits[m \div 10], m % 10)
        BY <2>2, <3>2
      <4>2. Len(Digits[m]) = Len(Digits[m \div 10]) + 1 /\ Len(Digits[m \div 10]) \in Nat
        BY <2>3, <2>4, <4>1, AppendProperties, LenProperties
      <4> QED
        BY <4>2
    <3> QED
      BY <3>1, <3>2
  <2> QED
    BY <2>1, <2>5, LenProperties
<1>3. CASE n < 10
  <2>1. Digits[n] = <<n>>
    BY <1>3, DigitsDefined
  <2>2. Len(Digits[n]) = 1 /\ Digits[n][1] = n
    BY <2>1
  <2>3. (n % 10) = n /\ ~(n >= 10)
    BY <1>3, QuotientSmaller
  <2> QED
    BY <1>2, <1>3, <2>2, <2>3
<1>4. CASE n >= 10
  <2>1. ~(n < 10)
    BY <1>4
  <2>2. Digits[n] = Append(Digits[n \div 10], n % 10)
    BY <2>1, DigitsDefined
  <2>3. Digits[n \div 10] \in Seq(Nat) /\ Len(Digits[n \div 10]) \in Nat \ {0}
    BY <1>1, <1>2
  <2>4. /\ Len(Digits[n]) = Len(Digits[n \div 10]) + 1
        /\ \A j \in 1 .. Len(Digits[n \div 10]) : Digits[n][j] = Digits[n \div 10][j]
        /\ Digits[n][Len(Digits[n \div 10]) + 1] = n % 10
    BY <1>1, <2>2, <2>3, AppendProperties
  <2> QED
    BY <1>2, <2>1, <2>3, <2>4
<1> QED
  BY <1>3, <1>4

\* t is found in s after the first i elements.
FoundAt(t, s, i) ==
  i \in Nat /\ i + Len(t) <= Len(s) /\ \A j \in 1 .. Len(t) : s[i + j] = t[j]

\* To be found in the digits of d, place by place.
LEMMA DigitsInIs ==
  ASSUME NEW c \in Nat, NEW d \in Nat
  PROVE  DigitsIn(c, d) <=> \E i : FoundAt(Digits[c], Digits[d], i)
<1>1. PICK t \in Seq(Nat), s \in Seq(Nat) : t = Digits[c] /\ s = Digits[d]
  BY DigitsAre
<1>2. Len(t) \in Nat /\ Len(s) \in Nat /\ \A j \in 1 .. Len(s) : s[j] \in Nat
  OBVIOUS
<1>3. ASSUME NEW i \in 0 .. Len(s) - Len(t)
      PROVE  SubSeq(s, i + 1, i + Len(t)) = t <=> FoundAt(t, s, i)
  <2>1. PICK m \in Int, n \in Int : m = i + 1 /\ n = i + Len(t)
    BY <1>2
  <2>2. \A j \in m .. n : s[j] \in Nat
    BY <1>2, <2>1
  <2>3. PICK u : u = SubSeq(s, m, n)
    OBVIOUS
  <2>4. u \in Seq(Nat) /\ Len(u) = (IF m <= n THEN n - m + 1 ELSE 0)
        /\ \A j \in 1 .. n - m + 1 : u[j] = s[m + j - 1]
    BY <2>2, <2>3, SubSeqProperties
  <2>5. Len(u) = Len(t) /\ n - m + 1 = Len(t)
    BY <1>2, <2>1, <2>4
  <2>6. \A j \in 1 .. Len(t) : u[j] = s[i + j]
    <3> TAKE j \in 1 .. Len(t)
    <3>1. m + j - 1 = i + j
      BY <1>2, <2>1
    <3> QED
      BY <2>4, <2>5, <3>1
  <2>7. u = t <=> \A j \in 1 .. Len(t) : u[j] = t[j]
    <3>1. u \in Seq(Nat) /\ Len(u) = Len(t)
      BY <2>4, <2>5
    <3>2. (\A j \in 1 .. Len(t) : u[j] = t[j]) => u = t
      BY <3>1, SeqEqual
    <3> QED
      BY <3>2
  <2>8. i \in Nat /\ i + Len(t) <= Len(s)
    BY <1>2
  <2>9. FoundAt(t, s, i) <=> \A j \in 1 .. Len(t) : s[i + j] = t[j]
    BY <2>8 DEF FoundAt
  <2> QED
    BY <2>1, <2>3, <2>6, <2>7, <2>9
<1>4. \A i : FoundAt(t, s, i) => i \in 0 .. Len(s) - Len(t)
  BY <1>2 DEF FoundAt
<1>5. DigitsIn(c, d) <=> \E i \in 0 .. Len(s) - Len(t) : SubSeq(s, i + 1, i + Len(t)) = t
  BY <1>1 DEF DigitsIn
<1> QED
  BY <1>1, <1>3, <1>4, <1>5

\* A core that is listed is found.
LEMMA DigitsInItself ==
  ASSUME NEW c \in Nat
  PROVE  DigitsIn(c, c)
<1>1. Digits[c] \in Seq(Nat) /\ Len(Digits[c]) \in Nat
  BY DigitsAre
<1>2. FoundAt(Digits[c], Digits[c], 0)
  BY <1>1 DEF FoundAt
<1> QED
  BY <1>2, DigitsInIs

\* The digits of c are a part of those of d only if c is no larger.
LEMMA DigitsInSmaller ==
  ASSUME NEW c \in Nat, NEW d \in Nat, DigitsIn(c, d)
  PROVE  c <= d
<1> DEFINE T == {m \in Nat : \E a \in Nat : DigitsIn(a, m) /\ ~(a <= m)}
<1> SUFFICES T = {}
  OBVIOUS
<1> SUFFICES ASSUME T # {}
             PROVE  FALSE
  OBVIOUS
<1>1. PICK m \in T : \A x \in T : m <= x
  <2>1. T \in SUBSET Nat
    OBVIOUS
  <2> HIDE DEF T
  <2> QED
    BY <2>1, NatMin
<1>2. PICK a \in Nat : DigitsIn(a, m) /\ ~(a <= m)
  BY <1>1
<1>3. m \in Nat
  BY <1>1
<1>4. PICK i : FoundAt(Digits[a], Digits[m], i)
  BY <1>2, <1>3, DigitsInIs
<1>5. PICK t, s, k, n : t = Digits[a] /\ s = Digits[m] /\ k = Len(t) /\ n = Len(s)
  OBVIOUS
<1>6. k \in Nat \ {0} /\ n \in Nat \ {0} /\ i \in Nat /\ i + k <= n /\ \A j \in 1 .. k : s[i + j] = t[j]
  BY <1>3, <1>4, <1>5, DigitsAre DEF FoundAt
<1>7. ASSUME NEW b \in Nat, NEW e \in Nat, e < m, DigitsIn(b, e)
      PROVE  b <= e
  <2>1. e \notin T
    BY <1>1, <1>3, <1>7
  <2> QED
    BY <1>7, <2>1
<1> HIDE DEF T
<1>8. CASE i + k < n
  <2>1. m >= 10
    <3>1. n # 1
      BY <1>6, <1>8
    <3>2. m < 10 => n = 1
      BY <1>3, <1>5, DigitsAre
    <3> QED
      BY <1>3, <3>1, <3>2
  <2>2. PICK e \in Nat : e = m \div 10 /\ e < m
    BY <1>3, <2>1, QuotientSmaller
  <2>3. n = Len(Digits[e]) + 1 /\ \A j \in 1 .. Len(Digits[e]) : s[j] = Digits[e][j]
    BY <1>3, <1>5, <2>1, <2>2, DigitsAre
  <2>4. Len(Digits[e]) \in Nat
    BY DigitsAre
  <2>5. FoundAt(t, Digits[e], i)
    <3>1. i + k <= Len(Digits[e])
      BY <1>6, <1>8, <2>3, <2>4
    <3>2. \A j \in 1 .. k : Digits[e][i + j] = t[j]
      <4> TAKE j \in 1 .. k
      <4>1. i + j \in 1 .. Len(Digits[e])
        BY <1>6, <2>4, <3>1
      <4> QED
        BY <1>6, <2>3, <4>1
    <3> QED
      BY <1>5, <1>6, <3>1, <3>2 DEF FoundAt
  <2>6. DigitsIn(a, e)
    BY <1>5, <2>5, DigitsInIs
  <2>7. a <= e
    BY <1>7, <2>2, <2>6
  <2> QED
    BY <1>2, <1>3, <2>2, <2>7
<1>9. CASE i + k = n
  <2>1. (a % 10) = (m % 10)
    <3>1. t[k] = a % 10 /\ s[n] = m % 10
      BY <1>3, <1>5, DigitsAre
    <3>2. s[i + k] = t[k]
      BY <1>6
    <3> QED
      BY <1>9, <3>1, <3>2
  <2>2. CASE a < 10
    <3>1. PICK r \in Nat, q \in Nat : r = (m % 10) /\ m = q * 10 + r
      BY <1>3, QuotientSmaller
    <3>2. a = r
      BY <2>1, <2>2, <3>1, QuotientSmaller
    <3> QED
      BY <1>2, <3>1, <3>2
  <2>3. CASE a >= 10
    <3>1. PICK b \in Nat : b = a \div 10
      BY QuotientSmaller
    <3>2. /\ k = Len(Digits[b]) + 1 /\ Len(Digits[b]) \in Nat \ {0}
          /\ \A j \in 1 .. Len(Digits[b]) : t[j] = Digits[b][j]
      BY <1>5, <2>3, <3>1, DigitsAre
    <3>3. m >= 10
      <4>1. n # 1
        BY <1>6, <3>2
      <4>2. m < 10 => n = 1
        BY <1>3, <1>5, DigitsAre
      <4> QED
        BY <1>3, <4>1, <4>2
    <3>4. PICK e \in Nat : e = m \div 10 /\ e < m
      BY <1>3, <3>3, QuotientSmaller
    <3>5. /\ n = Len(Digits[e]) + 1 /\ Len(Digits[e]) \in Nat \ {0}
          /\ \A j \in 1 .. Len(Digits[e]) : s[j] = Digits[e][j]
      BY <1>3, <1>5, <3>3, <3>4, DigitsAre
    <3>6. FoundAt(Digits[b], Digits[e], i)
      <4>0. PICK x \in Nat \ {0}, y \in Nat \ {0} :
              x = Len(Digits[b]) /\ y = Len(Digits[e]) /\ k = x + 1 /\ n = y + 1
        BY <3>2, <3>5
      <4>1. i + x = y /\ i \in Nat
        <5>1. i \in Nat
          BY <1>6
        <5>2. i + (x + 1) = y + 1
          BY <1>9, <4>0
        <5> QED
          BY <5>1, <5>2
      <4>2. \A j \in 1 .. Len(Digits[b]) : Digits[e][i + j] = Digits[b][j]
        <5> TAKE j \in 1 .. Len(Digits[b])
        <5>1. i + j \in 1 .. Len(Digits[e]) /\ j \in 1 .. k
          BY <4>0, <4>1
        <5>2. s[i + j] = Digits[e][i + j] /\ t[j] = Digits[b][j] /\ s[i + j] = t[j]
          BY <1>6, <3>2, <3>5, <5>1
        <5> QED
          BY <5>2
      <4>3. i + Len(Digits[b]) <= Len(Digits[e])
        BY <4>0, <4>1
      <4> QED
        BY <1>6, <4>2, <4>3 DEF FoundAt
    <3>7. DigitsIn(b, e)
      BY <3>6, DigitsInIs
    <3>8. b <= e
      BY <1>7, <3>4, <3>7
    <3>9. PICK r \in Nat : r = (a % 10) /\ a = b * 10 + r /\ m = e * 10 + r
      BY <1>3, <2>1, <3>1, <3>4, QuotientSmaller
    <3>10. a <= m
      BY <3>8, <3>9
    <3> QED
      BY <1>2, <3>10
  <2> QED
    BY <2>2, <2>3
<1> QED
  BY <1>6, <1>8, <1>9

-----------------------------------------------------------------------------
(* The cores of the ports.                                                 *)

\* s holds every element of the first n of a sequence of sequences.
HoldsFirst(s, seqs, n) == \A i \in 1 .. n : \A j \in DOMAIN seqs[i] : seqs[i][j] \in ToSet(s)

\* What a concatenation holds.
LEMMA ConcatHolds ==
  ASSUME NEW s \in Seq(Nat), NEW t \in Seq(Nat)
  PROVE  s \o t \in Seq(Nat) /\ ToSet(s \o t) = ToSet(s) \cup ToSet(t)
<1>1. PICK u : u = s \o t
  OBVIOUS
<1>2. PICK m \in Nat, n \in Nat : m = Len(s) /\ n = Len(t)
  OBVIOUS
<1>3. u \in Seq(Nat) /\ Len(u) = m + n
      /\ \A i \in 1 .. m + n : u[i] = IF i <= m THEN s[i] ELSE t[i - m]
  BY <1>1, <1>2, ConcatProperties
<1>4. DOMAIN u = 1 .. m + n /\ DOMAIN s = 1 .. m /\ DOMAIN t = 1 .. n
  BY <1>2, <1>3
<1>5. ASSUME NEW c \in ToSet(u)
      PROVE  c \in ToSet(s) \cup ToSet(t)
  <2>1. PICK i \in 1 .. m + n : c = u[i]
    BY <1>4 DEF ToSet
  <2>2. CASE i <= m
    <3>1. i \in 1 .. m /\ c = s[i]
      BY <1>3, <2>1, <2>2
    <3> QED
      BY <1>4, <3>1 DEF ToSet
  <2>3. CASE ~(i <= m)
    <3>1. i - m \in 1 .. n
      BY <2>1, <2>3
    <3>2. c = t[i - m]
      BY <1>3, <2>1, <2>3
    <3> QED
      BY <1>4, <3>1, <3>2 DEF ToSet
  <2> QED
    BY <2>2, <2>3
<1>6. ASSUME NEW c \in ToSet(s)
      PROVE  c \in ToSet(u)
  <2>1. PICK i \in 1 .. m : c = s[i]
    BY <1>4 DEF ToSet
  <2>2. i \in 1 .. m + n /\ i <= m
    BY <2>1
  <2>3. u[i] = c
    BY <1>3, <2>1, <2>2
  <2> QED
    BY <1>4, <2>2, <2>3 DEF ToSet
<1>7. ASSUME NEW c \in ToSet(t)
      PROVE  c \in ToSet(u)
  <2>1. PICK i \in 1 .. n : c = t[i]
    BY <1>4 DEF ToSet
  <2>2. PICK x : x = m + i
    OBVIOUS
  <2>3. x \in 1 .. m + n /\ ~(x <= m) /\ x - m = i
    BY <2>1, <2>2
  <2>4. u[x] = c
    BY <1>3, <2>1, <2>3
  <2> QED
    BY <1>4, <2>3, <2>4 DEF ToSet
<1> QED
  BY <1>1, <1>3, <1>5, <1>6, <1>7

\* The loop over the ports visits every core of every port.
LEMMA FlattenIs ==
  ASSUME NEW seqs \in Seq(Seq(Nat))
  PROVE  FlattenSeq(seqs) \in Seq(Nat) /\ HoldsFirst(FlattenSeq(seqs), seqs, Len(seqs))
<1>1. PICK n \in Nat : n = Len(seqs)
  OBVIOUS
<1>2. \A i \in 1 .. n : seqs[i] \in Seq(Nat)
  BY <1>1
<1>3. CASE n = 0
  <2>1. seqs = <<>>
    BY <1>1, <1>3, EmptySeq
  <2>2. FlattenSeq(seqs) = seqs
    BY <1>1, <1>3, Zenon DEF FlattenSeq
  <2>3. FlattenSeq(seqs) \in Seq(Nat)
    BY <2>1, <2>2, EmptySeq
  <2>4. HoldsFirst(FlattenSeq(seqs), seqs, 0)
    BY DEF HoldsFirst
  <2> QED
    BY <1>1, <1>3, <2>3, <2>4
<1>4. CASE n # 0
  <2> DEFINE B    == {0, 1}
             base == [i \in B |-> seqs[1]]
             h    == [i \in Nat |-> IF i = 0 THEN 0 ELSE i - 1]
             G    == [i \in Nat |-> [x \in Seq(Nat) |-> IF i \in 1 .. n THEN x \o seqs[i] ELSE x]]
  <2>1. B \in SUBSET Nat /\ base \in [B -> Seq(Nat)] /\ h \in [Nat -> Nat]
    BY <1>2, <1>4
  <2>2. \A i \in Nat \ B : h[i] < i
    OBVIOUS
  <2>3. /\ base[1] = seqs[1]
        /\ \A i \in Nat \ B : h[i] = i - 1
        /\ \A i \in 1 .. n : \A x \in Seq(Nat) : G[i][x] = x \o seqs[i]
    OBVIOUS
  <2>4. G \in [Nat -> [Seq(Nat) -> Seq(Nat)]]
    <3>1. \A i \in Nat : \A x \in Seq(Nat) : (IF i \in 1 .. n THEN x \o seqs[i] ELSE x) \in Seq(Nat)
      BY <1>2, ConcatProperties
    <3> QED
      BY <3>1
  <2>5. \A i \in Nat : i \in B <=> i <= 1
    OBVIOUS
  <2> HIDE DEF B, base, h, G
  <2>6. PICK f : Recursive(f, Seq(Nat), B, base, h, G)
    BY <2>1, <2>2, <2>4, RecursionExists
  <2>7. f \in [Nat -> Seq(Nat)]
    BY <2>6 DEF Recursive
  <2>8. ASSUME NEW i \in 1 .. n
        PROVE  f[i] = IF i = 1 THEN seqs[i] ELSE f[i - 1] \o seqs[i]
    <3>1. f[i] = IF i \in B THEN base[i] ELSE G[i][f[h[i]]]
      <4>1. i \in Nat
        OBVIOUS
      <4> QED
        BY <2>6, <4>1 DEF Recursive
    <3>2. CASE i = 1
      BY <2>3, <2>5, <3>1, <3>2
    <3>3. CASE i # 1
      <4>1. i \in Nat /\ i \notin B /\ i - 1 \in Nat
        BY <2>5, <3>3
      <4>2. h[i] = i - 1 /\ f[i - 1] \in Seq(Nat)
        BY <2>3, <2>7, <4>1
      <4>3. G[i][f[i - 1]] = f[i - 1] \o seqs[i]
        BY <2>3, <4>2
      <4> QED
        BY <3>1, <3>3, <4>1, <4>2, <4>3
    <3> QED
      BY <3>2, <3>3
  <2> DEFINE g == [i \in 1 .. n |-> f[i]]
  <2>9. g = [i \in 1 .. n |-> IF i = 1 THEN seqs[i] ELSE g[i - 1] \o seqs[i]]
    <3>1. ASSUME NEW i \in 1 .. n
          PROVE  g[i] = IF i = 1 THEN seqs[i] ELSE g[i - 1] \o seqs[i]
      <4>1. g[i] = f[i]
        OBVIOUS
      <4>2. i # 1 => g[i - 1] = f[i - 1]
        OBVIOUS
      <4> HIDE DEF g
      <4> QED
        BY <2>8, <4>1, <4>2
    <3> QED
      BY <3>1
  <2> HIDE DEF g
  <2> DEFINE flatten[i \in 1 .. Len(seqs)] == IF i = 1 THEN seqs[i] ELSE flatten[i - 1] \o seqs[i]
  <2>10. g = [i \in 1 .. Len(seqs) |-> IF i = 1 THEN seqs[i] ELSE g[i - 1] \o seqs[i]]
    BY <1>1, <2>9
  <2>11. flatten = [i \in 1 .. Len(seqs) |-> IF i = 1 THEN seqs[i] ELSE flatten[i - 1] \o seqs[i]]
    BY <2>10, Zenon
  <2>12. FlattenSeq(seqs) = flatten[Len(seqs)]
    BY <1>1, <1>4 DEF FlattenSeq
  <2> HIDE DEF flatten
  <2>13. \A i \in 1 .. n : flatten[i] = IF i = 1 THEN seqs[i] ELSE flatten[i - 1] \o seqs[i]
    BY <1>1, <2>11
  <2> DEFINE P(i) == i \in 1 .. n => flatten[i] \in Seq(Nat) /\ HoldsFirst(flatten[i], seqs, i)
             S    == {i \in Nat : P(i)}
  <2>14. 0 \in S
    OBVIOUS
  <2>15. ASSUME NEW i \in Nat, i \in S, i + 1 \in 1 .. n
         PROVE  flatten[i + 1] \in Seq(Nat) /\ HoldsFirst(flatten[i + 1], seqs, i + 1)
    <3>1. CASE i = 0
      <4>1. flatten[1] = seqs[1] /\ seqs[1] \in Seq(Nat)
        BY <1>2, <2>13, <2>15, <3>1
      <4>2. HoldsFirst(flatten[1], seqs, 1)
        BY <4>1 DEF HoldsFirst, ToSet
      <4> QED
        BY <3>1, <4>1, <4>2
    <3>2. CASE i # 0
      <4>1. i \in 1 .. n /\ i + 1 # 1 /\ (i + 1) - 1 = i
        BY <2>15, <3>2
      <4>2. flatten[i] \in Seq(Nat) /\ HoldsFirst(flatten[i], seqs, i)
        BY <2>15, <4>1
      <4>3. flatten[i + 1] = flatten[i] \o seqs[i + 1] /\ seqs[i + 1] \in Seq(Nat)
        BY <1>2, <2>13, <2>15, <4>1
      <4>4. /\ flatten[i + 1] \in Seq(Nat)
            /\ ToSet(flatten[i + 1]) = ToSet(flatten[i]) \cup ToSet(seqs[i + 1])
        BY <4>2, <4>3, ConcatHolds
      <4>5. ASSUME NEW x \in 1 .. i + 1, NEW j \in DOMAIN seqs[x]
            PROVE  seqs[x][j] \in ToSet(flatten[i + 1])
        <5>1. CASE x = i + 1
          <6>1. seqs[x][j] \in ToSet(seqs[i + 1])
            BY <4>5, <5>1 DEF ToSet
          <6> QED
            BY <4>4, <6>1
        <5>2. CASE x \in 1 .. i
          BY <4>2, <4>4, <5>2 DEF HoldsFirst
        <5> QED
          BY <5>1, <5>2
      <4> QED
        BY <4>4, <4>5 DEF HoldsFirst
    <3> QED
      BY <3>1, <3>2
  <2>16. \A i \in Nat : i \in S => i + 1 \in S
    BY <2>15
  <2> HIDE DEF S
  <2>17. Nat \subseteq S
    BY <2>14, <2>16, Induction
  <2>18. P(n)
    BY <2>17 DEF S
  <2> QED
    BY <1>1, <1>4, <2>12, <2>18
<1> QED
  BY <1>3, <1>4

-----------------------------------------------------------------------------
(* The list for the EAL.                                                   *)

\* What the loop over the cores has written after the first n of them.
ListFits(list, asked, n) ==
  /\ list \in Seq(Nat)
  /\ ToSet(list) \subseteq ToSet(asked)
  /\ \A i, j \in DOMAIN list : list[i] = list[j] => i = j
  /\ \A i \in 1 .. n : TextContains(list, asked[i])

\* The next core is found in the list or appended to it.
LEMMA ListStep ==
  ASSUME NEW asked \in Seq(Nat), NEW n \in Nat, n + 1 \in 1 .. Len(asked),
         NEW list, ListFits(list, asked, n), NEW longer,
         longer = IF TextContains(list, asked[n + 1]) THEN list ELSE Append(list, asked[n + 1])
  PROVE  ListFits(longer, asked, n + 1)
<1>1. PICK c \in Nat : c = asked[n + 1]
  OBVIOUS
<1>2. /\ list \in Seq(Nat) /\ ToSet(list) \subseteq ToSet(asked)
      /\ \A i, j \in DOMAIN list : list[i] = list[j] => i = j
      /\ \A i \in 1 .. n : TextContains(list, asked[i])
  BY DEF ListFits
<1>3. \A i \in 1 .. n + 1 : i \in 1 .. n \/ i = n + 1
  OBVIOUS
<1>4. CASE TextContains(list, c)
  BY <1>1, <1>2, <1>3, <1>4 DEF ListFits
<1>5. CASE ~TextContains(list, c)
  <2>1. longer = Append(list, c)
    BY <1>1, <1>5
  <2>2. PICK l \in Nat : l = Len(list) /\ DOMAIN list = 1 .. l
    BY <1>2
  <2>3. /\ longer \in Seq(Nat) /\ Len(longer) = l + 1 /\ longer[l + 1] = c
        /\ \A i \in 1 .. l : longer[i] = list[i]
    BY <1>2, <2>1, <2>2, AppendProperties
  <2>4. DOMAIN longer = 1 .. l + 1
    BY <2>3
  <2>5. \A i \in 1 .. l : list[i] # c
    BY <1>5, <2>2, DigitsInItself DEF TextContains
  <2>6. \A i \in 1 .. l + 1 : i \in 1 .. l \/ i = l + 1
    OBVIOUS
  <2>7. \A i, j \in DOMAIN longer : longer[i] = longer[j] => i = j
    <3>1. \A i, j \in 1 .. l : longer[i] = longer[j] => i = j
      BY <1>2, <2>2, <2>3, ZenonT(30)
    <3>2. \A i \in 1 .. l : longer[i] # longer[l + 1]
      BY <2>3, <2>5
    <3> QED
      BY <2>4, <2>6, <3>1, <3>2, ZenonT(30)
  <2>8. ToSet(longer) \subseteq ToSet(asked)
    <3>1. c \in ToSet(asked)
      BY <1>1 DEF ToSet
    <3>2. \A i \in 1 .. l : list[i] \in ToSet(asked)
      BY <1>2, <2>2 DEF ToSet
    <3>3. ASSUME NEW i \in 1 .. l + 1
          PROVE  longer[i] \in ToSet(asked)
      <4>1. CASE i \in 1 .. l
        BY <2>3, <3>2, <4>1
      <4>2. CASE i = l + 1
        BY <2>3, <3>1, <4>2
      <4> QED
        BY <2>6, <4>1, <4>2
    <3>4. \A x \in ToSet(longer) : \E i \in 1 .. l + 1 : x = longer[i]
      BY <2>4 DEF ToSet
    <3> QED
      BY <3>3, <3>4
  <2>9. \A x : TextContains(list, x) => TextContains(longer, x)
    <3> TAKE x
    <3> HAVE TextContains(list, x)
    <3>1. PICK i \in 1 .. l : DigitsIn(x, list[i])
      BY <2>2 DEF TextContains
    <3>2. i \in 1 .. l + 1 /\ longer[i] = list[i]
      BY <2>3, <3>1
    <3> QED
      BY <2>4, <3>1, <3>2 DEF TextContains
  <2>10. TextContains(longer, c)
    <3>1. l + 1 \in DOMAIN longer /\ DigitsIn(c, longer[l + 1])
      BY <2>3, <2>4, DigitsInItself
    <3> QED
      BY <3>1 DEF TextContains
  <2> QED
    BY <1>1, <1>2, <1>3, <2>3, <2>7, <2>8, <2>9, <2>10 DEF ListFits
<1> QED
  BY <1>1, <1>4, <1>5

\* What the loop has written at its end.
LEMMA EalCoresAre ==
  ASSUME NEW c, PortCores(c) \in Seq(Nat)
  PROVE  ListFits(EalCores(c), PortCores(c), Len(PortCores(c)))
<1>1. PICK asked \in Seq(Nat) : asked = PortCores(c)
  OBVIOUS
<1>2. PICK n \in Nat : n = Len(asked)
  OBVIOUS
<1> DEFINE Step(i, x) == IF TextContains(x, asked[i]) THEN x ELSE Append(x, asked[i])
           base == [i \in {0} |-> <<>>]
           h    == [i \in Nat |-> IF i = 0 THEN 0 ELSE i - 1]
           G    == [i \in Nat |-> [x \in Seq(Nat) |-> IF i \in 1 .. n THEN Step(i, x) ELSE x]]
<1>3. base \in [{0} -> Seq(Nat)] /\ h \in [Nat -> Nat] /\ {0} \in SUBSET Nat /\ base[0] = <<>>
  OBVIOUS
<1>4. \A i \in Nat \ {0} : h[i] < i /\ h[i] = i - 1
  OBVIOUS
<1>5. \A i \in 1 .. n : \A x \in Seq(Nat) : Step(i, x) \in Seq(Nat)
  BY <1>2, AppendProperties
<1> HIDE DEF Step
<1>6. G \in [Nat -> [Seq(Nat) -> Seq(Nat)]] /\ \A i \in 1 .. n : \A x \in Seq(Nat) : G[i][x] = Step(i, x)
  BY <1>5
<1> HIDE DEF base, h, G
<1>7. PICK f : Recursive(f, Seq(Nat), {0}, base, h, G)
  BY <1>3, <1>4, <1>6, RecursionExists
<1>8. f \in [Nat -> Seq(Nat)]
  BY <1>7 DEF Recursive
<1>9. ASSUME NEW i \in 0 .. n
      PROVE  f[i] = IF i = 0 THEN <<>> ELSE Step(i, f[i - 1])
  <2>1. f[i] = IF i \in {0} THEN base[i] ELSE G[i][f[h[i]]]
    BY <1>7 DEF Recursive
  <2>2. CASE i = 0
    BY <1>3, <2>1, <2>2
  <2>3. CASE i # 0
    <3>1. i \in 1 .. n /\ i - 1 \in Nat /\ h[i] = i - 1
      BY <1>4, <2>3
    <3>2. G[i][f[i - 1]] = Step(i, f[i - 1])
      BY <1>6, <1>8, <3>1
    <3> QED
      BY <2>1, <2>3, <3>1, <3>2
  <2> QED
    BY <2>2, <2>3
<1> DEFINE g == [i \in 0 .. n |-> f[i]]
<1>10. ASSUME NEW i \in 0 .. n
       PROVE  g[i] = IF i = 0 THEN <<>> ELSE Step(i, g[i - 1])
  <2>1. g[i] = f[i]
    OBVIOUS
  <2>2. i # 0 => g[i - 1] = f[i - 1]
    OBVIOUS
  <2> HIDE DEF g
  <2> QED
    BY <1>9, <2>1, <2>2
<1>11. g = [i \in 0 .. n |-> IF i = 0 THEN <<>> ELSE Step(i, g[i - 1])]
  BY <1>10
<1> HIDE DEF g
<1> DEFINE list[i \in 0 .. Len(asked)] ==
        IF i = 0 THEN <<>>
        ELSE IF TextContains(list[i - 1], asked[i]) THEN list[i - 1]
        ELSE Append(list[i - 1], asked[i])
<1>12. g = [i \in 0 .. Len(asked) |->
        IF i = 0 THEN <<>>
        ELSE IF TextContains(g[i - 1], asked[i]) THEN g[i - 1]
        ELSE Append(g[i - 1], asked[i])]
  BY <1>2, <1>11 DEF Step
<1>13. list = [i \in 0 .. Len(asked) |->
        IF i = 0 THEN <<>>
        ELSE IF TextContains(list[i - 1], asked[i]) THEN list[i - 1]
        ELSE Append(list[i - 1], asked[i])]
  BY <1>12, Zenon
<1>14. EalCores(c) = list[Len(asked)]
  BY <1>1, Zenon DEF EalCores
<1> HIDE DEF list
<1> DEFINE S == {i \in Nat : i <= n => ListFits(list[i], asked, i)}
<1>15. 0 \in S
  <2>1. list[0] = <<>>
    BY <1>2, <1>13
  <2>2. ListFits(<<>>, asked, 0)
    BY DEF ListFits, ToSet
  <2> QED
    BY <2>1, <2>2
<1>16. ASSUME NEW i \in Nat, i \in S, i + 1 <= n
       PROVE  ListFits(list[i + 1], asked, i + 1)
  <2>1. ListFits(list[i], asked, i)
    BY <1>16
  <2>2. i + 1 \in 0 .. Len(asked) /\ i + 1 \in 1 .. Len(asked) /\ (i + 1) - 1 = i /\ i + 1 # 0
    BY <1>2, <1>16
  <2>3. list[i + 1] = IF TextContains(list[i], asked[i + 1]) THEN list[i] ELSE Append(list[i], asked[i + 1])
    BY <1>13, <2>2
  <2> QED
    BY <2>1, <2>2, <2>3, ListStep
<1>17. \A i \in Nat : i \in S => i + 1 \in S
  BY <1>16
<1> HIDE DEF S
<1>18. Nat \subseteq S
  BY <1>15, <1>17, Induction
<1>19. ListFits(list[n], asked, n)
  BY <1>18 DEF S
<1> QED
  BY <1>1, <1>2, <1>14, <1>19

-----------------------------------------------------------------------------
(* The list of the EAL and all_cores, for settings of any size.            *)

\* The cores of the ports, one port after the other.
LEMMA PortCoresAre ==
  ASSUME NEW c \in Configs
  PROVE  /\ PortCores(c) \in Seq(Nat)
         /\ \A i \in DOMAIN c.ports : ToSet(c.ports[i]) \subseteq ToSet(PortCores(c))
<1>1. PICK seqs \in Seq(Seq(Nat)) : seqs = c.ports
  BY ConfigsAssumption
<1>2. PortCores(c) = FlattenSeq(seqs)
  BY <1>1 DEF PortCores
<1>3. FlattenSeq(seqs) \in Seq(Nat) /\ HoldsFirst(FlattenSeq(seqs), seqs, Len(seqs))
  BY FlattenIs
<1>4. ASSUME NEW i \in DOMAIN seqs, NEW x \in ToSet(seqs[i])
      PROVE  x \in ToSet(FlattenSeq(seqs))
  <2>1. i \in 1 .. Len(seqs)
    BY <1>1
  <2>2. PICK j \in DOMAIN seqs[i] : x = seqs[i][j]
    BY DEF ToSet
  <2> QED
    BY <1>3, <2>1, <2>2 DEF HoldsFirst
<1> QED
  BY <1>1, <1>2, <1>3, <1>4

\* The number of the elements of a list without repetitions.
LEMMA NoneTwice ==
  ASSUME NEW s \in Seq(Nat), \A i, j \in DOMAIN s : s[i] = s[j] => i = j
  PROVE  Cardinality(ToSet(s)) = Len(s)
<1>1. PICK n \in Nat : n = Len(s) /\ DOMAIN s = 1 .. n
  OBVIOUS
<1>2. IsFiniteSet(1 .. n) /\ Cardinality(1 .. n) = n
  BY FS_Interval
<1>3. s \in [1 .. n -> ToSet(s)] /\ \A x \in ToSet(s) : \E i \in 1 .. n : s[i] = x
  BY <1>1 DEF ToSet
<1>4. s \in Surjection(1 .. n, ToSet(s))
  BY <1>3 DEF Surjection
<1>5. s \in Injection(1 .. n, ToSet(s))
  BY <1>1, <1>3 DEF Injection, IsInjective
<1>6. Cardinality(ToSet(s)) = Cardinality(1 .. n)
  BY <1>2, <1>4, <1>5, FS_Surjection
<1> QED
  BY <1>1, <1>2, <1>6

\* The list holds cores of ports only, each once, and what it leaves out is
\* part of a larger core that it holds.
LEMMA ListIs ==
  ASSUME NEW c \in Configs, NEW list, list = EalCores(c)
  PROVE  /\ ToSet(list) \subseteq ToSet(PortCores(c))
         /\ Cardinality(ToSet(list)) = Len(list)
         /\ \A x \in ToSet(PortCores(c)) : TextContains(list, x)
         /\ \A x \in ToSet(PortCores(c)) :
              x \notin ToSet(list) => \E d \in ToSet(list) : d > x /\ DigitsIn(x, d)
<1>1. PICK asked \in Seq(Nat) : asked = PortCores(c)
  BY PortCoresAre
<1>2. ListFits(list, asked, Len(asked))
  BY <1>1, EalCoresAre
<1>3. /\ list \in Seq(Nat) /\ ToSet(list) \subseteq ToSet(asked)
      /\ \A i, j \in DOMAIN list : list[i] = list[j] => i = j
      /\ \A i \in 1 .. Len(asked) : TextContains(list, asked[i])
  BY <1>2 DEF ListFits
<1>4. Cardinality(ToSet(list)) = Len(list)
  BY <1>3, NoneTwice
<1>5. ASSUME NEW x \in ToSet(asked)
      PROVE  x \in Nat /\ TextContains(list, x)
  <2>1. PICK i \in 1 .. Len(asked) : x = asked[i]
    BY DEF ToSet
  <2> QED
    BY <1>3, <2>1
<1>6. ASSUME NEW x \in ToSet(asked), x \notin ToSet(list)
      PROVE  \E d \in ToSet(list) : d > x /\ DigitsIn(x, d)
  <2>1. PICK i \in DOMAIN list : DigitsIn(x, list[i])
    BY <1>5, <1>6 DEF TextContains
  <2>2. PICK d \in Nat : d = list[i]
    BY <1>3
  <2>3. d \in ToSet(list)
    BY <2>1, <2>2 DEF ToSet
  <2>4. x \in Nat /\ DigitsIn(x, d)
    BY <1>5, <1>6, <2>1, <2>2
  <2>5. x <= d
    BY <2>4, DigitsInSmaller
  <2>6. x # d
    BY <1>6, <2>3
  <2>7. d > x
    BY <2>4, <2>5, <2>6
  <2> QED
    BY <2>3, <2>4, <2>7
<1> QED
  BY <1>1, <1>3, <1>4, <1>5, <1>6

\* all_cores, for any settings.
LEMMA AllCoresAre ==
  ASSUME NEW c \in Configs, NEW all, all = all_cores(c)
  PROVE  /\ ToSet(all) = ToSet(PortCores(c)) \cup ToSet(c.cores) \cup {c.master_core}
         /\ \A i \in 1 .. Len(all) - 1 : all[i] < all[i + 1]
<1>1. PICK m \in Nat : m = c.master_core
  BY ConfigsAssumption
<1>2. PICK k \in Seq(Nat) : k = c.cores
  BY ConfigsAssumption
<1>3. PICK p \in Seq(Nat) : p = PortCores(c)
  BY PortCoresAre
<1>4. <<m>> \in Seq(Nat) /\ ToSet(<<m>>) = {m}
  BY DEF ToSet
<1>5. PICK s : s = <<m>> \o k
  OBVIOUS
<1>6. s \in Seq(Nat) /\ ToSet(s) = {m} \cup ToSet(k)
  BY <1>4, <1>5, ConcatHolds
<1>7. PICK t : t = s \o p
  OBVIOUS
<1>8. t \in Seq(Nat) /\ ToSet(t) = {m} \cup ToSet(k) \cup ToSet(p)
  BY <1>6, <1>7, ConcatHolds
<1>9. t # <<>>
  <2>1. ToSet(<<>>) = {}
    BY DEF ToSet
  <2>2. m \in ToSet(t)
    BY <1>8
  <2> QED
    BY <2>1, <2>2
<1>10. all = dedup(sort(t))
  BY <1>1, <1>2, <1>3, <1>5, <1>7 DEF all_cores
<1>11. all \in Seq(Nat) /\ Rising(all) /\ ToSet(all) = ToSet(t)
  BY <1>8, <1>9, <1>10, CoresOnceInOrder
<1>12. \A i \in 1 .. Len(all) - 1 : all[i] < all[i + 1]
  <2>1. PICK n \in Nat : n = Len(all) /\ DOMAIN all = 1 .. n
    BY <1>11
  <2>2. \A i, j \in 1 .. n : i < j => all[i] < all[j]
    BY <1>11, <2>1 DEF Rising
  <2>3. \A i \in 1 .. n - 1 : i \in 1 .. n /\ i + 1 \in 1 .. n /\ i < i + 1
    OBVIOUS
  <2> QED
    BY <2>1, <2>2, <2>3
<1> QED
  BY <1>1, <1>2, <1>3, <1>8, <1>11, <1>12

-----------------------------------------------------------------------------
(* The cores of the Ports are cores of the settings.                       *)

\* Cores that a builder can have got: its default or those of a port.
CoresOf(c, S) == S = {0} \/ S \subseteq ToSet(PortCores(c))

\* The second inductive invariant: the list of a started EAL is the one of
\* the settings, and neither the builder nor a Port has any other core than
\* those of a port of the settings, save the default core 0.
EalInv ==
  /\ eal # "down" => lcores = EalCores(config)
  /\ eal = "up" => MasterListed(config, lcores)
  /\ eal # "up" => ports = <<>>
  /\ CoresOf(config, ToSet(builder.cores))
  /\ \A p \in DOMAIN ports : CoresOf(config, DOMAIN ports[p].queues)

\* The list holds cores of ports only, each once, and leaves out exactly the
\* cores whose digits are found in another core that is listed, such as core
\* 1 after core 12.  The master core is in it only if a port uses it, and the
\* EAL runs only then.  (to_eal_args)
ListExact ==
  LET used == ToSet(PortCores(config))
  IN /\ eal # "down" =>
          /\ ToSet(lcores) \subseteq used
          /\ Cardinality(ToSet(lcores)) = Len(lcores)
          /\ \A c \in used :
               c \notin ToSet(lcores) =>
                 \E d \in ToSet(lcores) : d > c /\ DigitsIn(c, d)
     /\ eal = "up" => config.master_core \in used \cap ToSet(lcores)

LEMMA EalInvImplies == IInv /\ EalInv => ListExact /\ CoresKnown
<1> SUFFICES ASSUME IInv, EalInv
             PROVE  ListExact /\ CoresKnown
  OBVIOUS
<1>1. PICK c \in Configs : c = config
  BY DEF IInv, RestFits
<1>2. PICK all : all = all_cores(c)
  OBVIOUS
<1>3. /\ ToSet(all) = ToSet(PortCores(c)) \cup ToSet(c.cores) \cup {c.master_core}
      /\ \A i \in 1 .. Len(all) - 1 : all[i] < all[i + 1]
  BY <1>2, AllCoresAre
<1>4. ASSUME eal # "down"
      PROVE  /\ ToSet(lcores) \subseteq ToSet(PortCores(c))
             /\ Cardinality(ToSet(lcores)) = Len(lcores)
             /\ \A x \in ToSet(PortCores(c)) : TextContains(lcores, x)
             /\ \A x \in ToSet(PortCores(c)) :
                  x \notin ToSet(lcores) => \E d \in ToSet(lcores) : d > x /\ DigitsIn(x, d)
  <2>1. lcores = EalCores(c)
    BY <1>1, <1>4 DEF EalInv
  <2> QED
    BY <2>1, ListIs
<1>5. eal = "up" => c.master_core \in ToSet(PortCores(c)) \cap ToSet(lcores)
  BY <1>1, <1>4 DEF EalInv, MasterListed
<1>6. ListExact
  BY <1>1, <1>4, <1>5 DEF ListExact
<1>7. ASSUME NEW p \in DOMAIN ports
      PROVE  DOMAIN ports[p].queues = {0} \/ DOMAIN ports[p].queues \subseteq ToSet(all)
  BY <1>1, <1>3 DEF EalInv, CoresOf
<1>8. CoresKnown
  BY <1>1, <1>2, <1>3, <1>7 DEF CoresKnown
<1> QED
  BY <1>6, <1>8

\* What a call of the builder does to the cores and the Ports.
LEMMA BuilderCallCores ==
  ASSUME IInv, EalInv, BuilderCall, UNCHANGED configVars
  PROVE  /\ CoresOf(config, ToSet(builder'.cores))
         /\ \/ ports' = ports
            \/ ports' = Append(ports, [queues |-> Queues, live |-> TRUE])
<1>1. IsBuilder(builder) /\ config \in Configs /\ CoresOf(config, ToSet(builder.cores))
  BY DEF IInv, RestFits, EalInv
<1>2. ASSUME builder'.cores = builder.cores
      PROVE  CoresOf(config, ToSet(builder'.cores))
  BY <1>1, <1>2
<1>3. CASE Err
  BY <1>2, <1>3 DEF Err
<1>4. CASE new
  <2>1. ToSet(<<0>>) = {0}
    BY DEF ToSet
  <2>2. CASE builder' = NewBuilder /\ ports' = ports
    BY <2>1, <2>2 DEF NewBuilder, CoresOf
  <2> QED
    BY <1>3, <1>4, <2>2 DEF new
<1>5. ASSUME NEW i \in DOMAIN config.ports, cores(config.ports[i])
      PROVE  CoresOf(config, ToSet(builder'.cores)) /\ ports' = ports
  <2>1. PICK asked \in Seq(Nat) : asked = config.ports[i]
    BY <1>1, ConfigsAssumption
  <2>2. CASE Err
    BY <1>2, <2>2 DEF Err
  <2>3. CASE /\ asked # <<>> /\ builder' = [builder EXCEPT !.cores = dedup(sort(asked))]
             /\ ports' = ports
    <3>1. builder'.cores = dedup(sort(asked))
      BY <1>1, <2>3 DEF IsBuilder
    <3>2. ToSet(builder'.cores) = ToSet(asked)
      BY <2>3, <3>1, CoresOnceInOrder
    <3>3. ToSet(asked) \subseteq ToSet(PortCores(config))
      BY <1>1, <2>1, PortCoresAre
    <3> QED
      BY <2>3, <3>2, <3>3 DEF CoresOf
  <2> QED
    BY <1>5, <2>1, <2>2, <2>3 DEF cores
<1>6. ASSUME NEW r \in Capacities, NEW t \in Capacities, rx_tx_queue_capacity(r, t)
      PROVE  CoresOf(config, ToSet(builder'.cores)) /\ ports' = ports
  <2>1. CASE Err
    BY <1>2, <2>1 DEF Err
  <2>2. CASE /\ builder' = [builder EXCEPT !.rxd = Adjust(r % U16), !.txd = Adjust(t % U16)]
             /\ ports' = ports
    <3>1. builder'.cores = builder.cores
      BY <1>1, <2>2 DEF IsBuilder
    <3> QED
      BY <1>2, <2>2, <3>1
  <2> QED
    BY <1>6, <2>1, <2>2 DEF rx_tx_queue_capacity
<1>7. ASSUME NEW pools \in SetToAllKPermutations(Pools), mempools(pools)
      PROVE  CoresOf(config, ToSet(builder'.cores)) /\ ports' = ports
  <2>1. builder'.cores = builder.cores /\ ports' = ports
    BY <1>1, <1>7 DEF mempools, IsBuilder
  <2> QED
    BY <1>2, <2>1
<1>8. CASE finish
  <2>1. builder' = builder
    BY <1>8 DEF finish, Err
  <2>2. ports' = ports \/ ports' = Append(ports, [queues |-> Queues, live |-> TRUE])
    BY <1>8 DEF finish, Err, SetUpQueues, FailWith
  <2> QED
    BY <1>2, <2>1, <2>2
<1> QED
  BY <1>4, <1>5, <1>6, <1>7, <1>8 DEF BuilderCall

LEMMA EalInvStep ==
  ASSUME IInv, EalInv, [Next]_vars
  PROVE  EalInv'
<1>1. CASE UNCHANGED vars
  BY <1>1 DEF vars, configVars, portVars, EalInv
<1>2. CASE eal_init /\ UNCHANGED portVars
  <2>1. /\ eal = "down" /\ lcores' = EalCores(config) /\ config' = config
        /\ builder' = builder /\ ports' = ports /\ eal' \in {"up", "failed"}
        /\ eal' = "up" => MasterListed(config, lcores')
    BY <1>2 DEF eal_init, portVars
  <2>2. ports = <<>>
    BY <2>1 DEF EalInv
  <2> QED
    BY <2>1, <2>2 DEF EalInv
<1>3. CASE eal = "up" /\ BuilderCall /\ UNCHANGED configVars
  <2>1. config' = config /\ lcores' = lcores /\ eal' = eal /\ eal = "up"
    BY <1>3 DEF configVars
  <2>2. /\ CoresOf(config, ToSet(builder'.cores))
        /\ \/ ports' = ports
           \/ ports' = Append(ports, [queues |-> Queues, live |-> TRUE])
    BY <1>3, BuilderCallCores
  <2>3. \A p \in DOMAIN ports' : CoresOf(config, DOMAIN ports'[p].queues)
    <3>1. CASE ports' = ports
      BY <3>1 DEF EalInv
    <3>2. CASE ports' = Append(ports, [queues |-> Queues, live |-> TRUE])
      <4>1. PICK n \in Nat : n = Len(ports) /\ DOMAIN ports = 1 .. n
        BY DEF IInv
      <4>2. PICK q : q = Queues
        OBVIOUS
      <4>3. CoresOf(config, DOMAIN q)
        BY <4>2 DEF Queues, EalInv
      <4>4. /\ DOMAIN ports' = 1 .. n + 1 /\ ports'[n + 1] = [queues |-> q, live |-> TRUE]
            /\ \A p \in 1 .. n : ports'[p] = ports[p]
        BY <3>2, <4>1, <4>2 DEF IInv
      <4>5. ASSUME NEW p \in 1 .. n + 1
            PROVE  CoresOf(config, DOMAIN ports'[p].queues)
        <5>1. CASE p \in 1 .. n
          BY <4>1, <4>4, <5>1 DEF EalInv
        <5>2. CASE p = n + 1
          BY <4>3, <4>4, <5>2
        <5> QED
          BY <5>1, <5>2
      <4> QED
        BY <4>4, <4>5
    <3> QED
      BY <2>2, <3>1, <3>2
  <2> QED
    BY <2>1, <2>2, <2>3 DEF EalInv
<1>4. ASSUME NEW p \in DOMAIN ports, start(p) \/ stop(p) \/ drop(p), UNCHANGED configVars
      PROVE  EalInv'
  <2>1. config' = config /\ lcores' = lcores /\ eal' = eal /\ builder' = builder
    BY <1>4 DEF configVars, start, stop, drop, Err
  <2>2. eal = "up"
    BY DEF EalInv
  <2>3. ports' = ports \/ ports' = [ports EXCEPT ![p].live = FALSE]
    BY <1>4 DEF start, stop, drop, Err
  <2>4. \A o \in DOMAIN ports' : o \in DOMAIN ports /\ DOMAIN ports'[o].queues = DOMAIN ports[o].queues
    <3>1. CASE ports' = ports
      BY <3>1
    <3>2. CASE ports' = [ports EXCEPT ![p].live = FALSE]
      <4>1. DOMAIN ports' = DOMAIN ports
        BY <3>2
      <4>2. ASSUME NEW o \in DOMAIN ports
            PROVE  ports'[o].queues = ports[o].queues
        <5>1. ports[o] \in PortRecords
          BY DEF IInv
        <5> QED
          BY <3>2, <5>1 DEF PortRecords
      <4> QED
        BY <4>1, <4>2
    <3> QED
      BY <2>3, <3>1, <3>2
  <2>5. \A o \in DOMAIN ports' : CoresOf(config, DOMAIN ports'[o].queues)
    BY <2>4 DEF EalInv
  <2> QED
    BY <2>1, <2>2, <2>5 DEF EalInv
<1> QED
  BY <1>1, <1>2, <1>3, <1>4 DEF Next

\* The second invariant holds throughout.
LEMMA EalInvariant == Spec => []EalInv
<1>1. Init => EalInv
  <2> SUFFICES ASSUME Init
               PROVE  EalInv
    OBVIOUS
  <2>1. eal = "down" /\ ports = <<>> /\ builder.cores = <<0>>
    BY DEF Init, ConfigInit, NewBuilder
  <2>2. ToSet(<<0>>) = {0}
    BY DEF ToSet
  <2> QED
    BY <2>1, <2>2 DEF EalInv, CoresOf
<1>2. IInv /\ EalInv /\ [Next]_vars => EalInv'
  BY EalInvStep
<1> QED
  BY <1>1, <1>2, Invariant, PTL DEF Spec

\* For settings with any number of ports and cores, and for every order of
\* calls: the list written by to_eal_args holds cores of ports only, each
\* once, and leaves out exactly the cores whose digits are found in a larger
\* core that is listed; the EAL runs only with its master core among them.
THEOREM AlwaysListExact == Spec => []ListExact
BY EalInvariant, Invariant, EalInvImplies, PTL

\* For settings with any number of ports and cores, and for every order of
\* calls: all_cores holds each core of the settings once, in rising order, and
\* the cores of a Port are among them or are the default core 0.
THEOREM AlwaysCoresKnown == Spec => []CoresKnown
BY EalInvariant, Invariant, EalInvImplies, PTL
=============================================================================
