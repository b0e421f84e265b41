----------------------------- MODULE CidrProofs -----------------------------
(***************************************************************************)
(* Texts, blocks and the iterator for addresses of every width, 32 and 128 *)
(* bits too.  Which texts are accepted, which mask they get and what is    *)
(* printed for it is shown bit by bit; what the words mean as numbers      *)
(* follows from two facts about them, that the upper bits of a word are    *)
(* the quotient by a power of two and its lower bits the remainder.        *)
(*                                                                         *)
(* Pow2 and Value are recursive functions.  RecursionExists shows that     *)
(* they are defined, Induction what they compute.                          *)
(***************************************************************************)
EXTENDS Cidr, FiniteSetTheorems, SequenceTheorems, WellFoundedInduction, TLAPS

\* The masks of the prefixes: ones above k zeros.
Prefix(f, w, k) == k \in 0 .. Bits[f] /\ w = OnesAbove(f, k)

\* What is known of the block and of the text it was made from.
Shape ==
  /\ family \in Families
  /\ text = NoText \/ text \in Text(family)
  /\ cidr \in [address : Word(family), mask : Word(family)]
  /\ pc = "start" => text = NoText
  /\ pc = "error" => text # NoText

\* The text that was parsed, and the mask its block has.
Parsed ==
  /\ text = NoText \/ pc = "error" => cidr = default
  /\ text # NoText /\ pc # "error" => \E k \in 0 .. Bits[family] - 1 : Prefix(family, cidr.mask, k)

\* A length is accepted up to the width of the address, where 0 stands for the
\* full length, and a netmask exactly if it is ones above zeros and not zero;
\* nothing else is.  The mask is the one that was asked for.
AcceptsExactly ==
  /\ text # NoText /\ pc = "error" =>
       \/ text.form = "malformed"
       \/ text.form = "length" /\ text.length > Bits[family]
       \/ text.form = "netmask" /\ \A k \in 0 .. Bits[family] - 1 : ~Prefix(family, text.netmask, k)
  /\ text # NoText /\ pc # "error" =>
       \/ /\ text.form = "length" /\ text.length \in 0 .. Bits[family]
          /\ Prefix(family, cidr.mask, IF text.length = 0 THEN 0 ELSE Bits[family] - text.length)
          /\ cidr.address = text.address
       \/ /\ text.form = "netmask"
          /\ \E k \in 0 .. Bits[family] - 1 : Prefix(family, text.netmask, k)
          /\ cidr = [address |-> text.address, mask |-> text.netmask]

IInv == Shape /\ Parsed /\ AcceptsExactly

-----------------------------------------------------------------------------
(* Numbers: the least and the largest of a set, induction and recursion.   *)

LEMMA NatMin ==
  ASSUME NEW T \in SUBSET Nat, T # {}
  PROVE  \E x \in T : \A y \in T : x <= y
<1> DEFINE R == {r \in Nat \X Nat : r[1] < r[2]}
<1>1. IsWellFoundedOn(R, Nat)
  BY NatLessThanWellFounded DEF OpToRel
<1>2. PICK x \in T : \A y \in T : ~(<<y, x>> \in R)
  BY <1>1, WFMin
<1>3. ASSUME NEW y \in T
      PROVE  x <= y
  <2>1. ~(<<y, x>> \in R)
    BY <1>2
  <2>2. ~(y < x)
    BY <2>1
  <2> QED
    BY <2>2
<1> QED
  BY <1>3

\* Induction over the numbers of a set, which stands for the property.
LEMMA Induction ==
  ASSUME NEW S, 0 \in S, \A n \in Nat : n \in S => n + 1 \in S
  PROVE  Nat \subseteq S
<1> SUFFICES ASSUME ~(Nat \subseteq S)
             PROVE  FALSE
  OBVIOUS
<1>1. PICK m \in Nat \ S : \A k \in Nat \ S : m <= k
  BY NatMin
<1>2. m # 0 /\ m - 1 \in Nat /\ (m - 1) + 1 = m
  BY <1>1
<1> QED
  BY <1>1, <1>2

\* g has the values up to n of a function that goes back from n to h[n].
Computes(g, n, D, B, base, h, G) ==
  /\ g \in [0 .. n -> D]
  /\ \A k \in 0 .. n : g[k] = IF k \in B THEN base[k] ELSE G[k][g[h[k]]]

\* f is such a function.
Recursive(f, D, B, base, h, G) ==
  /\ f \in [Nat -> D]
  /\ \A n \in Nat : f[n] = IF n \in B THEN base[n] ELSE G[n][f[h[n]]]

\* There is a function that is given on B and, at any other number n, by G
\* from its value at the smaller number h[n].
LEMMA RecursionExists ==
  ASSUME NEW D, NEW B \in SUBSET Nat, NEW base \in [B -> D],
         NEW h \in [Nat -> Nat], \A n \in Nat \ B : h[n] < n,
         NEW G \in [Nat -> [D -> D]]
  PROVE  \E f : Recursive(f, D, B, base, h, G)
<1> DEFINE C(g, n) == Computes(g, n, D, B, base, h, G)
<1>1. 0 \in B
  OBVIOUS
<1>2. ASSUME NEW n \in Nat, NEW m \in Nat, n <= m, NEW g, NEW e, C(g, n), C(e, m)
      PROVE  \A k \in 0 .. n : g[k] = e[k]
  <2> DEFINE T == {k \in 0 .. n : g[k] # e[k]}
  <2> SUFFICES ASSUME T # {}
               PROVE  FALSE
    OBVIOUS
  <2>1. PICK k \in T : \A j \in T : k <= j
    <3>1. T \in SUBSET Nat
      OBVIOUS
    <3> HIDE DEF T
    <3> QED
      BY <3>1, NatMin
  <2>2. /\ k \in 0 .. n /\ k \in 0 .. m
        /\ g[k] = IF k \in B THEN base[k] ELSE G[k][g[h[k]]]
        /\ e[k] = IF k \in B THEN base[k] ELSE G[k][e[h[k]]]
    <3>1. k \in 0 .. n /\ k \in 0 .. m
      BY <1>2
    <3> QED
      BY <1>2, <3>1 DEF Computes
  <2>3. k \notin B
    BY <2>1, <2>2
  <2>4. h[k] \in Nat /\ h[k] < k
    BY <2>2, <2>3
  <2>5. g[h[k]] = e[h[k]]
    BY <2>1, <2>2, <2>4
  <2> QED
    BY <2>1, <2>2, <2>5
<1>3. \A n \in Nat : \E g : C(g, n)
  <2> DEFINE S == {n \in Nat : \E g : C(g, n)}
  <2>1. 0 \in S
    <3>1. C([k \in 0 .. 0 |-> base[k]], 0)
      <4>1. 0 .. 0 = {0}
        OBVIOUS
      <4> QED
        BY <1>1, <4>1 DEF Computes
    <3> QED
      BY <3>1
  <2>2. ASSUME NEW n \in Nat, n \in S
        PROVE  n + 1 \in S
    <3>1. PICK g : C(g, n)
      BY <2>2
    <3> DEFINE v == IF n + 1 \in B THEN base[n + 1] ELSE G[n + 1][g[h[n + 1]]]
               e == [k \in 0 .. n + 1 |-> IF k = n + 1 THEN v ELSE g[k]]
    <3>2. g \in [0 .. n -> D]
      BY <3>1 DEF Computes
    <3>3. n + 1 \notin B => h[n + 1] \in 0 .. n
      OBVIOUS
    <3>4. v \in D
      <4>1. CASE n + 1 \in B
        BY <4>1
      <4>2. CASE n + 1 \notin B
        BY <3>2, <3>3, <4>2
      <4> QED
        BY <4>1, <4>2
    <3> HIDE DEF v
    <3>5. e \in [0 .. n + 1 -> D]
      BY <3>2, <3>4
    <3>6. \A k \in 0 .. n : e[k] = g[k]
      OBVIOUS
    <3>7. e[n + 1] = v
      OBVIOUS
    <3> HIDE DEF e
    <3>8. ASSUME NEW k \in 0 .. n + 1
          PROVE  e[k] = IF k \in B THEN base[k] ELSE G[k][e[h[k]]]
      <4>1. CASE k = n + 1
        <5>1. n + 1 \notin B => e[h[n + 1]] = g[h[n + 1]]
          BY <3>3, <3>6
        <5> QED
          BY <3>7, <4>1, <5>1 DEF v
      <4>2. CASE k \in 0 .. n
        <5>1. g[k] = IF k \in B THEN base[k] ELSE G[k][g[h[k]]]
          BY <3>1, <4>2 DEF Computes
        <5>2. k \notin B => h[k] \in 0 .. n
          BY <4>2
        <5> QED
          BY <3>6, <4>2, <5>1, <5>2
      <4> QED
        BY <4>1, <4>2
    <3>9. C(e, n + 1)
      BY <3>5, <3>8 DEF Computes
    <3> QED
      BY <3>9
  <2> HIDE DEF S
  <2>3. Nat \subseteq S
    BY <2>1, <2>2, Induction
  <2> QED
    BY <2>3 DEF S
<1> DEFINE F(n) == CHOOSE g : C(g, n)
           f == [n \in Nat |-> F(n)[n]]
<1>4. \A n \in Nat : C(F(n), n)
  BY <1>3, Zenon
<1> HIDE DEF F
<1>5. \A n \in Nat : \A k \in 0 .. n : F(n)[k] = f[k]
  <2> SUFFICES ASSUME NEW n \in Nat, NEW k \in 0 .. n
               PROVE  F(n)[k] = f[k]
    OBVIOUS
  <2>1. F(k)[k] = F(n)[k]
    BY <1>2, <1>4
  <2> QED
    BY <2>1
<1>6. \A n \in Nat : f[n] \in D
  <2> TAKE n \in Nat
  <2>1. F(n) \in [0 .. n -> D]
    BY <1>4 DEF Computes
  <2> QED
    BY <2>1
<1>7. f \in [Nat -> D]
  BY <1>6
<1>8. ASSUME NEW n \in Nat
      PROVE  f[n] = IF n \in B THEN base[n] ELSE G[n][f[h[n]]]
  <2>1. F(n)[n] = IF n \in B THEN base[n] ELSE G[n][F(n)[h[n]]]
    BY <1>4 DEF Computes
  <2>2. n \notin B => F(n)[h[n]] = f[h[n]]
    BY <1>5
  <2> QED
    BY <2>1, <2>2
<1> HIDE DEF f
<1> QED
  BY <1>7, <1>8 DEF Recursive

LEMMA MinIs ==
  ASSUME NEW T \in SUBSET Nat, T # {}
  PROVE  Min(T) \in T /\ \A y \in T : Min(T) <= y
BY NatMin DEF Min

LEMMA MaxOfInterval ==
  ASSUME NEW n \in Nat
  PROVE  Max(0 .. n) = n
<1>1. n \in 0 .. n /\ \A y \in 0 .. n : n >= y
  OBVIOUS
<1>2. \A x \in 0 .. n : (\A y \in 0 .. n : x >= y) => x = n
  BY <1>1
<1> QED
  BY <1>1, <1>2 DEF Max

-----------------------------------------------------------------------------
(* The words.                                                              *)

\* An address has at least one bit.
LEMMA Width == \A f \in Families : Bits[f] \in Nat \ {0}
BY CidrAssumption

\* The mask of a prefix is an interval of positions.
LEMMA OnesAre ==
  ASSUME NEW f \in Families, NEW k \in 0 .. Bits[f]
  PROVE  OnesAbove(f, k) = k .. Bits[f] - 1
<1>1. Bits[f] \in Nat /\ k \in Nat
  BY Width
<1>2. \A i : i \in OnesAbove(f, k) <=> i \in 0 .. Bits[f] - 1 /\ i >= k
  BY DEF OnesAbove, Positions
<1>3. \A i : i \in k .. Bits[f] - 1 <=> i \in 0 .. Bits[f] - 1 /\ i >= k
  BY <1>1
<1> QED
  BY <1>2, <1>3

\* The length of a prefix, from the zeros of its mask.
LEMMA PrefixLength ==
  ASSUME NEW f \in Families, NEW w, NEW k, Prefix(f, w, k)
  PROVE  leading_zeros(f, Not(f, w)) = Bits[f] - k
<1>1. Bits[f] \in Nat \ {0} /\ k \in 0 .. Bits[f] /\ w = OnesAbove(f, k)
  BY Width DEF Prefix
<1>2. Not(f, w) = 0 .. k - 1
  BY <1>1 DEF Not, OnesAbove, Positions
<1>3. CASE k = 0
  <2>1. Not(f, w) = {}
    BY <1>2, <1>3
  <2> QED
    BY <1>1, <1>3, <2>1 DEF leading_zeros
<1>4. CASE k # 0
  <2>1. k - 1 \in Nat
    BY <1>1, <1>4
  <2>2. Not(f, w) # {} /\ Max(Not(f, w)) = k - 1
    BY <1>2, <2>1, MaxOfInterval
  <2> QED
    BY <1>1, <2>2 DEF leading_zeros
<1> QED
  BY <1>3, <1>4

\* A prefix has as many zeros as its lowest one is high, ...
LEMMA PrefixBits ==
  ASSUME NEW f \in Families, NEW w, NEW k \in 0 .. Bits[f] - 1, Prefix(f, w, k)
  PROVE  leading_zeros(f, w) = 0 /\ trailing_zeros(f, w) = k /\ count_zeros(f, w) = k
<1>1. Bits[f] \in Nat \ {0} /\ k \in Nat /\ k < Bits[f]
  BY Width
<1>2. w = k .. Bits[f] - 1 /\ w # {} /\ w \in SUBSET Nat
  <2>1. w = k .. Bits[f] - 1
    BY OnesAre DEF Prefix
  <2> QED
    BY <1>1, <2>1
<1>3. Cardinality(w) = Bits[f] - k
  <2>1. Cardinality(k .. Bits[f] - 1) = (Bits[f] - 1) - k + 1
    BY <1>1, FS_Interval
  <2> QED
    BY <1>1, <1>2, <2>1
<1>4. Min(w) = k
  <2>1. Min(w) \in w /\ \A y \in w : Min(w) <= y
    BY <1>2, MinIs
  <2> QED
    BY <1>1, <1>2, <2>1
<1>5. Max(w) = Bits[f] - 1
  <2>1. Bits[f] - 1 \in w /\ \A y \in w : Bits[f] - 1 >= y
    BY <1>1, <1>2
  <2>2. \A x \in w : (\A y \in w : x >= y) => x = Bits[f] - 1
    BY <1>1, <1>2, <2>1
  <2> QED
    BY <2>1, <2>2 DEF Max
<1> QED
  BY <1>1, <1>2, <1>3, <1>4, <1>5 DEF leading_zeros, trailing_zeros, count_zeros

\* ... and no other word has.
LEMMA BitsOfPrefix ==
  ASSUME NEW f \in Families, NEW w \in Word(f), w # {}, trailing_zeros(f, w) = count_zeros(f, w)
  PROVE  \E k \in 0 .. Bits[f] - 1 : Prefix(f, w, k)
<1>1. Bits[f] \in Nat \ {0}
  BY Width
<1>2. w \subseteq 0 .. Bits[f] - 1 /\ w \in SUBSET Nat
  BY <1>1 DEF Word, Positions
<1>3. Min(w) \in w /\ \A y \in w : Min(w) <= y
  BY <1>2, MinIs
<1>4. PICK k \in 0 .. Bits[f] - 1 : k = Min(w)
  BY <1>2, <1>3
<1>5. w \subseteq k .. Bits[f] - 1
  BY <1>1, <1>2, <1>3, <1>4
<1>6. /\ IsFiniteSet(k .. Bits[f] - 1)
      /\ Cardinality(k .. Bits[f] - 1) = (Bits[f] - 1) - k + 1
  <2>1. k \in Int /\ Bits[f] - 1 \in Int /\ ~(k > Bits[f] - 1)
    BY <1>1, <1>4
  <2> QED
    BY <2>1, FS_Interval
<1>7. k = Bits[f] - Cardinality(w)
  BY <1>4 DEF trailing_zeros, count_zeros
<1>8. Cardinality(w) \in Nat
  BY <1>5, <1>6, FS_Subset, FS_CardinalityType
<1>9. Cardinality(w) = Cardinality(k .. Bits[f] - 1)
  BY <1>1, <1>6, <1>7, <1>8
<1>10. w = k .. Bits[f] - 1
  BY <1>5, <1>6, <1>9, FS_Subset
<1>11. Prefix(f, w, k)
  <2>1. k \in 0 .. Bits[f]
    BY <1>1
  <2> QED
    BY <1>10, <2>1, OnesAre DEF Prefix
<1> QED
  BY <1>11

\* A netmask is accepted exactly if it is a prefix and not zero.
LEMMA NetmaskLength ==
  ASSUME NEW f \in Families, NEW w \in Word(f)
  PROVE  \/ /\ netmask_length(f, w) = {}
            /\ \A k \in 0 .. Bits[f] - 1 : ~Prefix(f, w, k)
         \/ \E k \in 0 .. Bits[f] - 1 : Prefix(f, w, k) /\ netmask_length(f, w) = {Bits[f] - k}
<1>1. ASSUME NEW k \in 0 .. Bits[f] - 1, Prefix(f, w, k)
      PROVE  netmask_length(f, w) = {Bits[f] - k}
  <2>1. leading_zeros(f, w) = 0 /\ trailing_zeros(f, w) = count_zeros(f, w)
    BY <1>1, PrefixBits
  <2>2. leading_zeros(f, Not(f, w)) = Bits[f] - k
    BY <1>1, PrefixLength
  <2> QED
    BY <2>1, <2>2 DEF netmask_length
<1>2. CASE leading_zeros(f, w) = 0 /\ trailing_zeros(f, w) = count_zeros(f, w)
  <2>1. w # {}
    BY <1>2, Width DEF leading_zeros
  <2>2. PICK k \in 0 .. Bits[f] - 1 : Prefix(f, w, k)
    BY <1>2, <2>1, BitsOfPrefix
  <2> QED
    BY <1>1, <2>2
<1>3. CASE ~(leading_zeros(f, w) = 0 /\ trailing_zeros(f, w) = count_zeros(f, w))
  <2>1. netmask_length(f, w) = {}
    BY <1>3 DEF netmask_length
  <2>2. \A k \in 0 .. Bits[f] - 1 : ~Prefix(f, w, k)
    BY <1>3, PrefixBits
  <2> QED
    BY <2>1, <2>2
<1> QED
  BY <1>2, <1>3

\* What new makes of a length: a prefix, or nothing.
LEMMA NewIs ==
  ASSUME NEW f \in Families, NEW a, NEW l \in Nat
  PROVE  /\ l > Bits[f] => new(f, a, l) = {}
         /\ l <= Bits[f] =>
              LET k == IF l = 0 THEN 0 ELSE Bits[f] - l
              IN /\ k \in 0 .. Bits[f] - 1 /\ Prefix(f, OnesAbove(f, k), k)
                 /\ new(f, a, l) = {[address |-> a, mask |-> OnesAbove(f, k)]}
<1>1. Bits[f] \in Nat \ {0}
  BY Width
<1>2. CASE l = 0
  <2>1. Positions(f) = OnesAbove(f, 0)
    BY <1>1 DEF Positions, OnesAbove
  <2> QED
    BY <1>1, <1>2, <2>1 DEF new, Prefix
<1>3. CASE l # 0
  BY <1>1, <1>3 DEF new, Prefix
<1> QED
  BY <1>2, <1>3

\* What with_netmask makes of a netmask: a block with that mask, or nothing.
LEMMA WithNetmaskIs ==
  ASSUME NEW f \in Families, NEW a, NEW w \in Word(f)
  PROVE  \/ /\ with_netmask(f, a, w) = {}
            /\ \A k \in 0 .. Bits[f] - 1 : ~Prefix(f, w, k)
         \/ /\ \E k \in 0 .. Bits[f] - 1 : Prefix(f, w, k)
            /\ with_netmask(f, a, w) = {[address |-> a, mask |-> w]}
<1>1. CASE netmask_length(f, w) = {} /\ \A k \in 0 .. Bits[f] - 1 : ~Prefix(f, w, k)
  BY <1>1 DEF with_netmask
<1>2. ASSUME NEW k \in 0 .. Bits[f] - 1, Prefix(f, w, k), netmask_length(f, w) = {Bits[f] - k}
      PROVE  with_netmask(f, a, w) = {[address |-> a, mask |-> w]}
  <2>1. PICK l : l = Bits[f] - k
    OBVIOUS
  <2>2. l \in Nat /\ l # 0 /\ l <= Bits[f] /\ Bits[f] - l = k
    BY <2>1, Width
  <2>3. new(f, a, l) = {[address |-> a, mask |-> OnesAbove(f, k)]}
    BY <2>2, NewIs
  <2>4. OnesAbove(f, k) = w
    BY <1>2 DEF Prefix
  <2>5. with_netmask(f, a, w) = UNION {new(f, a, x) : x \in {l}}
    BY <1>2, <2>1 DEF with_netmask
  <2>6. UNION {new(f, a, x) : x \in {l}} = new(f, a, l)
    OBVIOUS
  <2> QED
    BY <2>3, <2>4, <2>5, <2>6
<1> QED
  BY <1>1, <1>2, NetmaskLength

\* What parsing makes of a text, and when it makes nothing.
LEMMA ParseIs ==
  ASSUME NEW f \in Families, NEW t \in Text(f)
  PROVE  \/ /\ t.form = "malformed" /\ ParseText(f, t) = {}
         \/ /\ t.form = "length" /\ t.length > Bits[f] /\ ParseText(f, t) = {}
         \/ /\ t.form = "length" /\ t.length \in 0 .. Bits[f]
            /\ LET k == IF t.length = 0 THEN 0 ELSE Bits[f] - t.length
               IN /\ k \in 0 .. Bits[f] - 1 /\ Prefix(f, OnesAbove(f, k), k)
                  /\ ParseText(f, t) = {[address |-> t.address, mask |-> OnesAbove(f, k)]}
            /\ t.address \in Word(f)
         \/ /\ t.form = "netmask" /\ ParseText(f, t) = {}
            /\ \A k \in 0 .. Bits[f] - 1 : ~Prefix(f, t.netmask, k)
         \/ /\ t.form = "netmask" /\ t.address \in Word(f) /\ t.netmask \in Word(f)
            /\ \E k \in 0 .. Bits[f] - 1 : Prefix(f, t.netmask, k)
            /\ ParseText(f, t) = {[address |-> t.address, mask |-> t.netmask]}
<1>1. CASE t.form = "malformed"
  BY <1>1 DEF ParseText
<1>2. CASE t \in [form : {"length"}, address : Word(f), length : 0 .. Bits[f] + 1]
  <2>1. t.form = "length" /\ t.address \in Word(f) /\ t.length \in 0 .. Bits[f] + 1
    BY <1>2
  <2>2. ParseText(f, t) = new(f, t.address, t.length)
    BY <2>1 DEF ParseText
  <2>3. PICK l : l = t.length
    OBVIOUS
  <2>4. l \in Nat /\ Bits[f] \in Nat /\ (l > Bits[f] \/ l \in 0 .. Bits[f])
    BY <2>1, <2>3, Width
  <2>5. CASE l > Bits[f]
    <3>1. new(f, t.address, l) = {}
      BY <2>4, <2>5, NewIs
    <3> QED
      BY <2>1, <2>2, <2>3, <2>5, <3>1
  <2>6. CASE l \in 0 .. Bits[f]
    <3>1. LET k == IF l = 0 THEN 0 ELSE Bits[f] - l
          IN /\ k \in 0 .. Bits[f] - 1 /\ Prefix(f, OnesAbove(f, k), k)
             /\ new(f, t.address, l) = {[address |-> t.address, mask |-> OnesAbove(f, k)]}
      BY <2>4, <2>6, NewIs
    <3> QED
      BY <2>1, <2>2, <2>3, <2>6, <3>1
  <2> QED
    BY <2>4, <2>5, <2>6
<1>3. CASE t \in [form : {"netmask"}, address : Word(f), netmask : Word(f)]
  <2>1. t.form = "netmask" /\ t.address \in Word(f) /\ t.netmask \in Word(f)
    BY <1>3
  <2>2. ParseText(f, t) = with_netmask(f, t.address, t.netmask)
    BY <2>1 DEF ParseText
  <2> QED
    BY <2>1, <2>2, WithNetmaskIs
<1> QED
  BY <1>1, <1>2, <1>3 DEF Text

LEMMA WordsTyped ==
  ASSUME NEW f
  PROVE  /\ default \in [address : Word(f), mask : Word(f)]
         /\ \A k : OnesAbove(f, k) \in Word(f)
         /\ NoText \notin Text(f)
<1>1. /\ default \in [address : Word(f), mask : Word(f)]
      /\ \A k : OnesAbove(f, k) \in Word(f)
  BY DEF default, Word, OnesAbove
<1>2. \A t \in Text(f) : t.form # "none"
  BY DEF Text
<1> QED
  BY <1>1, <1>2 DEF NoText

-----------------------------------------------------------------------------
(* Words as numbers.                                                       *)

\* The number that the lower n bits of a word make; Value is the one of all.
Low(w, n) ==
  LET sum[i \in Nat] ==
        IF i = 0 THEN 0 ELSE sum[i - 1] + (IF i - 1 \in w THEN Pow2[i - 1] ELSE 0)
  IN sum[n]

\* The powers of two are defined.
LEMMA Pow2Is ==
  /\ Pow2 \in [Nat -> Nat]
  /\ Pow2[0] = 1
  /\ \A n \in Nat : Pow2[n + 1] = 2 * Pow2[n]
<1> DEFINE base == [n \in {0} |-> 1]
           h    == [n \in Nat |-> IF n = 0 THEN 0 ELSE n - 1]
           G    == [n \in Nat |-> [x \in Nat |-> 2 * x]]
<1>1. /\ base \in [{0} -> Nat] /\ h \in [Nat -> Nat] /\ G \in [Nat -> [Nat -> Nat]]
      /\ \A n \in Nat \ {0} : h[n] < n /\ h[n] = n - 1
      /\ base[0] = 1 /\ \A n \in Nat : \A x \in Nat : G[n][x] = 2 * x
  OBVIOUS
<1> HIDE DEF base, h, G
<1>2. PICK f : Recursive(f, Nat, {0}, base, h, G)
  <2>1. {0} \in SUBSET Nat
    OBVIOUS
  <2> QED
    BY <1>1, <2>1, RecursionExists
<1>3. f \in [Nat -> Nat] /\ \A n \in Nat : f[n] = IF n = 0 THEN 1 ELSE 2 * f[n - 1]
  <2>1. f \in [Nat -> Nat]
    BY <1>2 DEF Recursive
  <2>2. ASSUME NEW n \in Nat
        PROVE  f[n] = IF n = 0 THEN 1 ELSE 2 * f[n - 1]
    <3>1. f[n] = IF n \in {0} THEN base[n] ELSE G[n][f[h[n]]]
      BY <1>2 DEF Recursive
    <3>2. CASE n = 0
      BY <1>1, <3>1, <3>2
    <3>3. CASE n # 0
      <4>1. h[n] = n - 1 /\ f[n - 1] \in Nat
        BY <1>1, <2>1, <3>3
      <4>2. G[n][f[n - 1]] = 2 * f[n - 1]
        BY <1>1, <4>1
      <4> QED
        BY <3>1, <3>3, <4>1, <4>2
    <3> QED
      BY <3>2, <3>3
  <2> QED
    BY <2>1, <2>2
<1>4. f = [n \in Nat |-> IF n = 0 THEN 1 ELSE 2 * f[n - 1]]
  BY <1>3
<1>5. Pow2 = [n \in Nat |-> IF n = 0 THEN 1 ELSE 2 * Pow2[n - 1]]
  BY <1>4 DEF Pow2
<1>6. \A n \in Nat : Pow2[n] = IF n = 0 THEN 1 ELSE 2 * Pow2[n - 1]
  BY <1>5
<1>7. Pow2[0] = 1 /\ \A n \in Nat : Pow2[n + 1] = 2 * Pow2[n]
  BY <1>6
<1>8. \A n \in Nat : Pow2[n] \in Nat
  <2> DEFINE S == {n \in Nat : Pow2[n] \in Nat}
  <2>1. 0 \in S
    BY <1>7
  <2>2. \A n \in Nat : n \in S => n + 1 \in S
    BY <1>7
  <2> HIDE DEF S
  <2>3. Nat \subseteq S
    BY <2>1, <2>2, Induction
  <2> QED
    BY <2>3 DEF S
<1> QED
  BY <1>5, <1>7, <1>8

\* The sum of the lower bits of a word is defined.
LEMMA LowIs ==
  ASSUME NEW w
  PROVE  /\ \A n \in Nat : Low(w, n) \in Nat
         /\ Low(w, 0) = 0
         /\ \A n \in Nat : Low(w, n + 1) = Low(w, n) + (IF n \in w THEN Pow2[n] ELSE 0)
<1> DEFINE bit(i) == IF i - 1 \in w THEN Pow2[i - 1] ELSE 0
           base   == [n \in {0} |-> 0]
           h      == [n \in Nat |-> IF n = 0 THEN 0 ELSE n - 1]
           G      == [n \in Nat |-> IF n = 0 THEN [x \in Nat |-> x] ELSE [x \in Nat |-> x + bit(n)]]
<1>1. \A n \in Nat \ {0} : bit(n) \in Nat
  BY Pow2Is
<1>2. /\ base \in [{0} -> Nat] /\ base[0] = 0 /\ h \in [Nat -> Nat]
      /\ \A n \in Nat \ {0} : h[n] < n /\ h[n] = n - 1
  OBVIOUS
<1> HIDE DEF bit, base, h
<1>3. G \in [Nat -> [Nat -> Nat]] /\ \A n \in Nat \ {0} : \A x \in Nat : G[n][x] = x + bit(n)
  BY <1>1
<1> HIDE DEF G
<1>4. PICK f : Recursive(f, Nat, {0}, base, h, G)
  <2>1. {0} \in SUBSET Nat
    OBVIOUS
  <2> QED
    BY <1>2, <1>3, <2>1, RecursionExists
<1>5. f \in [Nat -> Nat]
  BY <1>4 DEF Recursive
<1>6. ASSUME NEW n \in Nat
      PROVE  f[n] = IF n = 0 THEN 0 ELSE f[n - 1] + bit(n)
  <2>1. f[n] = IF n \in {0} THEN base[n] ELSE G[n][f[h[n]]]
    BY <1>4 DEF Recursive
  <2>2. CASE n = 0
    BY <1>2, <2>1, <2>2
  <2>3. CASE n # 0
    BY <1>2, <1>3, <1>5, <2>1, <2>3
  <2> QED
    BY <2>2, <2>3
<1>7. f = [i \in Nat |-> IF i = 0 THEN 0 ELSE f[i - 1] + bit(i)]
  BY <1>5, <1>6
<1> DEFINE sum[i \in Nat] ==
             IF i = 0 THEN 0 ELSE sum[i - 1] + (IF i - 1 \in w THEN Pow2[i - 1] ELSE 0)
<1>8. sum = [i \in Nat |-> IF i = 0 THEN 0 ELSE sum[i - 1] + (IF i - 1 \in w THEN Pow2[i - 1] ELSE 0)]
  BY <1>7, Zenon DEF bit
<1>9. \A n : Low(w, n) = sum[n]
  BY Zenon DEF Low
<1> HIDE DEF sum
<1>10. /\ Low(w, 0) = 0
       /\ \A n \in Nat : Low(w, n + 1) = Low(w, n) + (IF n \in w THEN Pow2[n] ELSE 0)
  <2>1. \A i \in Nat : sum[i] = IF i = 0 THEN 0 ELSE sum[i - 1] + (IF i - 1 \in w THEN Pow2[i - 1] ELSE 0)
    BY <1>8
  <2>2. \A n \in Nat : sum[n + 1] = sum[n] + (IF n \in w THEN Pow2[n] ELSE 0)
    BY <2>1
  <2> QED
    BY <1>9, <2>1, <2>2
<1>11. \A n \in Nat : Low(w, n) \in Nat
  <2> DEFINE S == {n \in Nat : Low(w, n) \in Nat}
  <2>1. 0 \in S
    BY <1>10
  <2>2. \A n \in Nat : n \in S => n + 1 \in S
    BY <1>10, Pow2Is
  <2> HIDE DEF S
  <2>3. Nat \subseteq S
    BY <2>1, <2>2, Induction
  <2> QED
    BY <2>3 DEF S
<1> QED
  BY <1>10, <1>11

\* The number of a word is the sum of all its bits.
LEMMA ValueIs == ASSUME NEW f, NEW w PROVE Value(f, w) = Low(w, Bits[f])
BY Zenon DEF Value, Low

LEMMA Pow2Positive ==
  ASSUME NEW n \in Nat
  PROVE  Pow2[n] \in Nat \ {0}
<1> DEFINE S == {k \in Nat : Pow2[k] \in Nat \ {0}}
<1>1. 0 \in S
  BY Pow2Is
<1>2. \A k \in Nat : k \in S => k + 1 \in S
  BY Pow2Is
<1> HIDE DEF S
<1>3. Nat \subseteq S
  BY <1>1, <1>2, Induction
<1> QED
  BY <1>3 DEF S

LEMMA Pow2Sum ==
  ASSUME NEW k \in Nat, NEW j \in Nat
  PROVE  Pow2[k + j] = Pow2[k] * Pow2[j]
<1> DEFINE S == {i \in Nat : Pow2[k + i] = Pow2[k] * Pow2[i]}
<1>1. 0 \in S
  <2>1. Pow2[k + 0] = Pow2[k] /\ Pow2[k] \in Nat
    BY Pow2Is
  <2> QED
    BY <2>1, Pow2Is
<1>2. ASSUME NEW i \in Nat, i \in S
      PROVE  i + 1 \in S
  <2>1. Pow2[(k + i) + 1] = 2 * Pow2[k + i] /\ Pow2[i + 1] = 2 * Pow2[i]
    BY Pow2Is
  <2>2. Pow2[k] \in Nat /\ Pow2[i] \in Nat
    BY Pow2Is
  <2>3. 2 * (Pow2[k] * Pow2[i]) = Pow2[k] * (2 * Pow2[i])
    BY <2>2
  <2>4. k + (i + 1) = (k + i) + 1
    OBVIOUS
  <2> QED
    BY <1>2, <2>1, <2>3, <2>4
<1> HIDE DEF S
<1>3. Nat \subseteq S
  BY <1>1, <1>2, Induction
<1> QED
  BY <1>3 DEF S

LEMMA Pow2Grows ==
  ASSUME NEW k \in Nat, NEW n \in Nat
  PROVE  /\ k <= n => Pow2[k] <= Pow2[n]
         /\ k < n => Pow2[k] < Pow2[n]
<1>1. Pow2[k] \in Nat \ {0}
  BY Pow2Positive
<1>2. ASSUME k < n
      PROVE  Pow2[k] < Pow2[n]
  <2>1. PICK j \in Nat : n = k + (j + 1)
    <3>1. n - k - 1 \in Nat /\ n = k + ((n - k - 1) + 1)
      BY <1>2
    <3> QED
      BY <3>1
  <2>2. PICK q \in Nat \ {0} : Pow2[j] = q /\ Pow2[j + 1] = 2 * q
    BY Pow2Positive, Pow2Is
  <2>3. Pow2[n] = Pow2[k] * (2 * q)
    BY <2>1, <2>2, Pow2Sum
  <2>4. \A p \in Nat \ {0} : p < p * (2 * q)
    OBVIOUS
  <2> QED
    BY <1>1, <2>3, <2>4
<1>3. Pow2[n] \in Nat
  BY Pow2Is
<1>4. k <= n => k < n \/ k = n
  OBVIOUS
<1> QED
  BY <1>1, <1>2, <1>3, <1>4

\* n bits make a number below 2^n.
LEMMA LowBound ==
  ASSUME NEW w, NEW n \in Nat
  PROVE  Low(w, n) \in 0 .. Pow2[n] - 1
<1> DEFINE S == {k \in Nat : Low(w, k) \in 0 .. Pow2[k] - 1}
<1>1. 0 \in S
  BY LowIs, Pow2Is
<1>2. ASSUME NEW k \in Nat, k \in S
      PROVE  k + 1 \in S
  <2>1. Pow2[k] \in Nat /\ Pow2[k + 1] = 2 * Pow2[k]
    BY Pow2Is
  <2>2. Low(w, k) \in Nat /\ Low(w, k + 1) = Low(w, k) + (IF k \in w THEN Pow2[k] ELSE 0)
    BY LowIs
  <2> QED
    BY <1>2, <2>1, <2>2
<1> HIDE DEF S
<1>3. Nat \subseteq S
  BY <1>1, <1>2, Induction
<1> QED
  BY <1>3 DEF S

\* Two words have the same lower n bits.
SameBelow(w, v, n) == \A i \in 0 .. n - 1 : i \in w <=> i \in v

\* Numbers are the same exactly if their bits are.
LEMMA LowSame ==
  ASSUME NEW w, NEW v, NEW n \in Nat
  PROVE  Low(w, n) = Low(v, n) <=> SameBelow(w, v, n)
<1> DEFINE S == {k \in Nat : Low(w, k) = Low(v, k) <=> SameBelow(w, v, k)}
<1>1. 0 \in S
  BY LowIs DEF SameBelow
<1>2. ASSUME NEW k \in Nat, k \in S
      PROVE  k + 1 \in S
  <2>1. /\ Low(w, k + 1) = Low(w, k) + (IF k \in w THEN Pow2[k] ELSE 0)
        /\ Low(v, k + 1) = Low(v, k) + (IF k \in v THEN Pow2[k] ELSE 0)
    BY LowIs
  <2>2. Low(w, k) \in 0 .. Pow2[k] - 1 /\ Low(v, k) \in 0 .. Pow2[k] - 1 /\ Pow2[k] \in Nat
    BY LowBound, Pow2Is
  <2>3. Low(w, k + 1) = Low(v, k + 1) <=> Low(w, k) = Low(v, k) /\ (k \in w <=> k \in v)
    BY <2>1, <2>2
  <2>4. SameBelow(w, v, k + 1) <=> SameBelow(w, v, k) /\ (k \in w <=> k \in v)
    BY DEF SameBelow
  <2> QED
    BY <1>2, <2>3, <2>4
<1> HIDE DEF S
<1>3. Nat \subseteq S
  BY <1>1, <1>2, Induction
<1> QED
  BY <1>3 DEF S

\* Zeros only and ones only.
LEMMA LowConstant ==
  ASSUME NEW w, NEW n \in Nat
  PROVE  /\ (\A i \in 0 .. n - 1 : i \notin w) => Low(w, n) = 0
         /\ (\A i \in 0 .. n - 1 : i \in w) => Low(w, n) = Pow2[n] - 1
<1> DEFINE S == {k \in Nat : /\ (\A i \in 0 .. k - 1 : i \notin w) => Low(w, k) = 0
                             /\ (\A i \in 0 .. k - 1 : i \in w) => Low(w, k) = Pow2[k] - 1}
<1>1. 0 \in S
  BY LowIs, Pow2Is
<1>2. ASSUME NEW k \in Nat, k \in S
      PROVE  k + 1 \in S
  <2>1. Pow2[k] \in Nat /\ Pow2[k + 1] = 2 * Pow2[k]
    BY Pow2Is
  <2>2. Low(w, k) \in Nat /\ Low(w, k + 1) = Low(w, k) + (IF k \in w THEN Pow2[k] ELSE 0)
    BY LowIs
  <2>3. ASSUME \A i \in 0 .. (k + 1) - 1 : i \notin w
        PROVE  Low(w, k + 1) = 0
    BY <1>2, <2>2, <2>3
  <2>4. ASSUME \A i \in 0 .. (k + 1) - 1 : i \in w
        PROVE  Low(w, k + 1) = Pow2[k + 1] - 1
    BY <1>2, <2>1, <2>2, <2>4
  <2> QED
    BY <2>3, <2>4
<1> HIDE DEF S
<1>3. Nat \subseteq S
  BY <1>1, <1>2, Induction
<1> QED
  BY <1>3 DEF S

\* w >> k
Shift(w, k) == {i \in Nat : i + k \in w}

\* A word is its upper bits times 2^k and its lower k bits.
LEMMA Split ==
  ASSUME NEW w, NEW k \in Nat, NEW j \in Nat
  PROVE  Low(w, k + j) = Low(Shift(w, k), j) * Pow2[k] + Low(w, k)
<1> DEFINE u == Shift(w, k)
           S == {i \in Nat : Low(w, k + i) = Low(u, i) * Pow2[k] + Low(w, k)}
<1>0. \A i \in Nat : i \in u <=> k + i \in w
  BY DEF Shift
<1> HIDE DEF u
<1>1. 0 \in S
  <2>1. k + 0 = k /\ Low(u, 0) = 0 /\ Low(w, k) \in Nat /\ Pow2[k] \in Nat
    <3>1. k + 0 = k
      OBVIOUS
    <3>2. Low(u, 0) = 0 /\ Low(w, k) \in Nat
      BY LowIs
    <3>3. Pow2[k] \in Nat
      BY Pow2Is
    <3> QED
      BY <3>1, <3>2, <3>3
  <2> QED
    BY <2>1
<1>2. ASSUME NEW i \in Nat, i \in S
      PROVE  i + 1 \in S
  <2>1. Low(w, (k + i) + 1) = Low(w, k + i) + (IF k + i \in w THEN Pow2[k + i] ELSE 0)
    <3>1. k + i \in Nat
      OBVIOUS
    <3> QED
      BY <3>1, LowIs
  <2>2. Low(u, i + 1) = Low(u, i) + (IF i \in u THEN Pow2[i] ELSE 0)
    BY LowIs
  <2>3. Low(u, i) \in Nat /\ Low(w, k) \in Nat /\ Pow2[i] \in Nat /\ Pow2[k] \in Nat
    BY LowIs, Pow2Is
  <2>4. Pow2[k + i] = Pow2[k] * Pow2[i]
    BY Pow2Sum
  <2>5. (Low(u, i) + Pow2[i]) * Pow2[k] = Low(u, i) * Pow2[k] + Pow2[k] * Pow2[i]
    BY <2>3
  <2>6. \A a, b, c \in Nat : (a + c) + b = (a + b) + c
    OBVIOUS
  <2>7. Low(u, i) * Pow2[k] \in Nat /\ Pow2[k] * Pow2[i] \in Nat
    BY <2>3
  <2>8. Low(w, k + i) = Low(u, i) * Pow2[k] + Low(w, k)
    BY <1>2
  <2>9. Low(w, (k + i) + 1) = Low(u, i + 1) * Pow2[k] + Low(w, k)
    <3>1. CASE i \in u
      BY <1>0, <2>1, <2>2, <2>3, <2>4, <2>5, <2>6, <2>7, <2>8, <3>1
    <3>2. CASE i \notin u
      <4>1. Low(w, (k + i) + 1) = Low(w, k + i) + 0 /\ Low(u, i + 1) = Low(u, i) + 0
        BY <1>0, <2>1, <2>2, <3>2
      <4> QED
        BY <2>3, <2>7, <2>8, <4>1
    <3> QED
      BY <3>1, <3>2
  <2>10. k + (i + 1) = (k + i) + 1
    OBVIOUS
  <2> QED
    BY <2>9, <2>10
<1> HIDE DEF S
<1>3. Nat \subseteq S
  BY <1>1, <1>2, Induction
<1> QED
  BY <1>3 DEF S, u

\* Quotient and remainder determine a number.
LEMMA Division ==
  ASSUME NEW d \in Nat \ {0}, NEW q \in Nat, NEW r \in 0 .. d - 1
  PROVE  (q * d + r) \div d = q
OBVIOUS

\* The numbers with the same quotient are an interval.
LEMMA Quotients ==
  ASSUME NEW d \in Nat \ {0}, NEW q \in Nat, NEW x \in Nat
  PROVE  x \div d = q <=> x \in (q * d) .. (q * d + (d - 1))
OBVIOUS

\* The bits of a word from k on, as a number.
Upper(f, w, k) == Low(Shift(w, k), Bits[f] - k)

\* One multiple less.
LEMMA LessOne ==
  ASSUME NEW p \in Nat, NEW r \in Nat
  PROVE  (r - 1) * p + 0 = p * r - p
OBVIOUS

\* The upper bits of a word are the quotient of its number.
LEMMA ValueSplit ==
  ASSUME NEW f \in Families, NEW k \in 0 .. Bits[f], NEW w
  PROVE  /\ Upper(f, w, k) \in Nat
         /\ Low(w, k) \in 0 .. Pow2[k] - 1
         /\ Value(f, w) = Upper(f, w, k) * Pow2[k] + Low(w, k)
         /\ Value(f, w) \div Pow2[k] = Upper(f, w, k)
         /\ Value(f, w) \in 0 .. Pow2[Bits[f]] - 1
<1>1. Bits[f] \in Nat /\ k \in Nat
  BY Width
<1>2. PICK j \in Nat : j = Bits[f] - k /\ Bits[f] = k + j
  BY <1>1
<1>3. Upper(f, w, k) \in Nat
  BY <1>2, LowIs DEF Upper
<1>4. Low(w, k) \in 0 .. Pow2[k] - 1
  BY <1>1, LowBound
<1>5. Value(f, w) = Upper(f, w, k) * Pow2[k] + Low(w, k)
  <2>1. Low(w, k + j) = Low(Shift(w, k), j) * Pow2[k] + Low(w, k)
    BY <1>1, Split
  <2>2. Value(f, w) = Low(w, k + j)
    BY <1>2, ValueIs, Zenon
  <2>3. Upper(f, w, k) = Low(Shift(w, k), j)
    BY <1>2 DEF Upper
  <2> QED
    BY <2>1, <2>2, <2>3, Zenon
<1>6. Value(f, w) \div Pow2[k] = Upper(f, w, k)
  BY <1>1, <1>3, <1>4, <1>5, Division, Pow2Positive
<1>7. Value(f, w) \in 0 .. Pow2[Bits[f]] - 1
  BY <1>1, LowBound, ValueIs
<1> QED
  BY <1>3, <1>4, <1>5, <1>6, <1>7

\* Different words have different numbers.
LEMMA ValueSame ==
  ASSUME NEW f \in Families, NEW v \in Word(f), NEW w \in Word(f)
  PROVE  Value(f, v) = Value(f, w) <=> v = w
<1>1. Bits[f] \in Nat
  BY Width
<1>2. Value(f, v) = Value(f, w) <=> SameBelow(v, w, Bits[f])
  BY <1>1, LowSame, ValueIs
<1>3. SameBelow(v, w, Bits[f]) <=> v = w
  BY DEF SameBelow, Word, Positions
<1> QED
  BY <1>2, <1>3

\* The quotient depends on the upper bits only.
LEMMA UpperSame ==
  ASSUME NEW f \in Families, NEW k \in 0 .. Bits[f], NEW v, NEW w,
         \A i \in k .. Bits[f] - 1 : i \in v <=> i \in w
  PROVE  Upper(f, v, k) = Upper(f, w, k)
<1>1. PICK j \in Nat : j = Bits[f] - k /\ Bits[f] = k + j /\ k \in Nat
  BY Width
<1>2. ASSUME NEW i \in 0 .. j - 1
      PROVE  i \in Shift(v, k) <=> i \in Shift(w, k)
  <2>1. i \in Nat /\ i + k \in k .. Bits[f] - 1
    BY <1>1
  <2> QED
    BY <2>1 DEF Shift
<1> QED
  BY <1>1, <1>2, LowSame DEF SameBelow, Upper

\* The numbers of network, broadcast, hostmask and of the mask itself.
LEMMA MaskedBits ==
  ASSUME NEW f \in Families, NEW k \in 0 .. Bits[f], NEW a \in Word(f), NEW m, Prefix(f, m, k)
  PROVE  /\ Value(f, m \cap a) = (Value(f, a) \div Pow2[k]) * Pow2[k]
         /\ Value(f, (m \cap a) \cup Not(f, m)) = (Value(f, a) \div Pow2[k]) * Pow2[k] + (Pow2[k] - 1)
         /\ Value(f, Not(f, m)) = Pow2[k] - 1
         /\ Value(f, m) = Pow2[Bits[f]] - Pow2[k]
<1>1. PICK j \in Nat : j = Bits[f] - k /\ Bits[f] = k + j /\ k \in Nat
  BY Width
<1>2. m = k .. Bits[f] - 1 /\ Not(f, m) = 0 .. k - 1 /\ k - 1 < Bits[f]
  <2>1. m = k .. Bits[f] - 1
    BY OnesAre DEF Prefix
  <2> QED
    BY <1>1, <2>1, SMTT(30) DEF Not, Positions
<1>3. PICK p \in Nat \ {0} : p = Pow2[k]
  BY <1>1, Pow2Positive
<1>4. /\ Value(f, a) \div p = Upper(f, a, k) /\ Upper(f, a, k) \in Nat
  BY <1>3, ValueSplit
<1>5. /\ Upper(f, m \cap a, k) = Upper(f, a, k)
      /\ Low(m \cap a, k) = 0
  <2>1. \A i \in k .. Bits[f] - 1 : i \in m \cap a <=> i \in a
    BY <1>2
  <2>2. \A i \in 0 .. k - 1 : i \notin m \cap a
    BY <1>1, <1>2
  <2> QED
    BY <1>1, <2>1, <2>2, UpperSame, LowConstant
<1>6. PICK b : b = (m \cap a) \cup Not(f, m)
  OBVIOUS
<1>7. /\ Upper(f, b, k) = Upper(f, a, k)
      /\ Low(b, k) = p - 1
  <2>1. \A i \in k .. Bits[f] - 1 : i \in b <=> i \in a
    BY <1>1, <1>2, <1>6
  <2>2. \A i \in 0 .. k - 1 : i \in b
    BY <1>2, <1>6
  <2> QED
    BY <1>1, <1>3, <2>1, <2>2, UpperSame, LowConstant
<1>8. /\ Upper(f, Not(f, m), k) = 0
      /\ Low(Not(f, m), k) = p - 1
  <2>1. \A i \in 0 .. j - 1 : i \notin Shift(Not(f, m), k)
    BY <1>1, <1>2 DEF Shift
  <2>2. \A i \in 0 .. k - 1 : i \in Not(f, m)
    BY <1>2
  <2> QED
    BY <1>1, <1>3, <2>1, <2>2, LowConstant DEF Upper
<1>9. /\ Upper(f, m, k) = Pow2[j] - 1
      /\ Low(m, k) = 0
  <2>1. \A i \in 0 .. j - 1 : i \in Shift(m, k)
    BY <1>1, <1>2 DEF Shift
  <2>2. \A i \in 0 .. k - 1 : i \notin m
    BY <1>1, <1>2
  <2> QED
    BY <1>1, <2>1, <2>2, LowConstant DEF Upper
<1>10. Value(f, m \cap a) = Upper(f, a, k) * p
  <2>1. Value(f, m \cap a) = Upper(f, a, k) * p + 0
    BY <1>3, <1>5, ValueSplit
  <2> QED
    BY <1>3, <1>4, <2>1
<1>11. Value(f, b) = Upper(f, a, k) * p + (p - 1)
  BY <1>3, <1>7, ValueSplit
<1>12. Value(f, Not(f, m)) = p - 1
  <2>1. Value(f, Not(f, m)) = 0 * p + (p - 1)
    BY <1>3, <1>8, ValueSplit
  <2> QED
    BY <1>3, <2>1
<1>13. Value(f, m) = Pow2[Bits[f]] - p
  <2>1. Value(f, m) = (Pow2[j] - 1) * p + 0
    BY <1>3, <1>9, ValueSplit
  <2>2. PICK r \in Nat : r = Pow2[j]
    BY Pow2Is
  <2>3. Pow2[Bits[f]] = p * r
    BY <1>1, <1>3, <2>2, Pow2Sum
  <2>4. (r - 1) * p + 0 = p * r - p
    BY LessOne
  <2> QED
    BY <2>1, <2>2, <2>3, <2>4
<1> QED
  BY <1>3, <1>4, <1>6, <1>10, <1>11, <1>12, <1>13

\* The netmask of a length, by arithmetic.
LEMMA NetmaskNumber ==
  ASSUME NEW f \in Families, NEW w \in Word(f), NEW k \in 0 .. Bits[f]
  PROVE  Value(f, w) = Pow2[Bits[f]] - Pow2[k] <=> Prefix(f, w, k)
<1>1. OnesAbove(f, k) \in Word(f)
  BY WordsTyped
<1>2. Prefix(f, OnesAbove(f, k), k)
  BY DEF Prefix
<1>3. Value(f, OnesAbove(f, k)) = Pow2[Bits[f]] - Pow2[k]
  BY <1>1, <1>2, MaskedBits
<1>4. Value(f, w) = Value(f, OnesAbove(f, k)) <=> w = OnesAbove(f, k)
  BY <1>1, ValueSame
<1> QED
  BY <1>3, <1>4 DEF Prefix

\* The numbers of a block: first to last.
LEMMA BlockNumbers ==
  ASSUME NEW f \in Families, NEW k \in 0 .. Bits[f], NEW a \in Word(f)
  PROVE  LET p     == Pow2[k]
             first == (Value(f, a) \div p) * p
         IN /\ {x \in 0 .. Pow2[Bits[f]] - 1 : x \div p = Value(f, a) \div p} = first .. first + (p - 1)
            /\ first \in Nat /\ p \in Nat \ {0}
            /\ first + (p - 1) < Pow2[Bits[f]]
<1>1. PICK p \in Nat \ {0} : p = Pow2[k]
  BY Pow2Positive, Width
<1>2. PICK q \in Nat : q = Value(f, a) \div p
  BY <1>1, ValueSplit
<1>3. PICK M \in Nat : M = Pow2[Bits[f]]
  BY Pow2Positive, Width
<1>4. q * p + (p - 1) < M
  <2>1. PICK m : m = OnesAbove(f, k) /\ Prefix(f, m, k)
    BY DEF Prefix
  <2>2. Value(f, (m \cap a) \cup Not(f, m)) = q * p + (p - 1)
    BY <1>1, <1>2, <2>1, MaskedBits
  <2>3. Value(f, (m \cap a) \cup Not(f, m)) \in 0 .. M - 1
    BY <1>3, ValueSplit
  <2> QED
    BY <1>3, <2>2, <2>3
<1>5. q * p \in Nat
  OBVIOUS
<1>6. \A x : x \in 0 .. M - 1 /\ x \div p = q <=> x \in (q * p) .. (q * p + (p - 1))
  <2>1. \A x \in Nat : x \div p = q <=> x \in (q * p) .. (q * p + (p - 1))
    BY Quotients
  <2>2. \A x \in (q * p) .. (q * p + (p - 1)) : x \in 0 .. M - 1
    BY <1>4, <1>5
  <2>3. \A x \in (q * p) .. (q * p + (p - 1)) : x \in Nat /\ x \div p = q
    BY <1>5, <2>1, <2>2
  <2>4. \A x \in 0 .. M - 1 : x \in Nat
    OBVIOUS
  <2> QED
    BY <2>1, <2>2, <2>3, <2>4, Zenon
<1>7. {x \in 0 .. M - 1 : x \div p = q} = (q * p) .. (q * p + (p - 1))
  BY <1>6
<1> QED
  BY <1>1, <1>2, <1>3, <1>4, <1>5, <1>7

\* The first address of a block.
LEMMA NetworkNumber ==
  ASSUME NEW f \in Families, NEW k \in 0 .. Bits[f],
         NEW c \in [address : Word(f), mask : Word(f)], Prefix(f, c.mask, k)
  PROVE  Value(f, network(c)) = (Value(f, c.address) \div Pow2[k]) * Pow2[k]
<1>1. c.address \in Word(f)
  OBVIOUS
<1> QED
  BY <1>1, MaskedBits DEF network

\* A block contains the addresses with its upper bits.
LEMMA ContainsNumber ==
  ASSUME NEW f \in Families, NEW k \in 0 .. Bits[f],
         NEW c \in [address : Word(f), mask : Word(f)], Prefix(f, c.mask, k), NEW a \in Word(f)
  PROVE  contains(c, a) <=> Value(f, a) \div Pow2[k] = Value(f, c.address) \div Pow2[k]
<1>1. c.mask \cap c.address \in Word(f) /\ c.mask \cap a \in Word(f) /\ c.address \in Word(f)
  BY DEF Word
<1>2. contains(c, a) <=> Value(f, c.mask \cap c.address) = Value(f, c.mask \cap a)
  BY <1>1, ValueSame DEF contains
<1>3. PICK p \in Nat \ {0} : p = Pow2[k]
  BY Pow2Positive, Width
<1>4. PICK q \in Nat, r \in Nat : q = Value(f, c.address) \div p /\ r = Value(f, a) \div p
  BY <1>3, ValueSplit
<1>5. Value(f, c.mask \cap c.address) = q * p /\ Value(f, c.mask \cap a) = r * p
  <2>1. Value(f, c.mask \cap c.address) = (Value(f, c.address) \div Pow2[k]) * Pow2[k]
    BY NetworkNumber DEF network
  <2>2. Value(f, c.mask \cap a) = (Value(f, a) \div Pow2[k]) * Pow2[k]
    BY MaskedBits, ZenonT(30)
  <2> QED
    BY <1>3, <1>4, <2>1, <2>2
<1>6. q * p = r * p <=> q = r
  <2>1. (q * p) \div p = q /\ (r * p) \div p = r
    BY Division
  <2> QED
    BY <2>1
<1> QED
  BY <1>2, <1>3, <1>4, <1>5, <1>6

-----------------------------------------------------------------------------
(* The invariant of the text and the block.                                *)

\* from_str keeps the invariant.
LEMMA FromStrStep ==
  ASSUME IInv, from_str
  PROVE  IInv'
<1>1. /\ family \in Families /\ family' = family /\ text' \in Text(family) /\ text' # NoText
      /\ cidr \in [address : Word(family), mask : Word(family)]
  BY WordsTyped DEF IInv, Shape, from_str
<1>2. \/ ParseText(family, text') = {} /\ pc' = "error" /\ cidr' = cidr
      \/ cidr' \in ParseText(family, text') /\ pc' = "block"
  BY DEF from_str
<1>3. CASE ParseText(family, text') = {}
  <2>1. pc' = "error" /\ cidr' = cidr
    BY <1>2, <1>3
  <2>2. \/ text'.form = "malformed"
        \/ text'.form = "length" /\ text'.length > Bits[family]
        \/ text'.form = "netmask" /\ \A k \in 0 .. Bits[family] - 1 : ~Prefix(family, text'.netmask, k)
    BY <1>1, <1>3, ParseIs
  <2>3. cidr = default
    BY DEF from_str, IInv, Shape, Parsed
  <2> QED
    BY <1>1, <2>1, <2>2, <2>3 DEF IInv, Shape, Parsed, AcceptsExactly, Prefix
<1>4. CASE cidr' \in ParseText(family, text') /\ pc' = "block"
  <2>1. CASE text'.form = "length"
    <3>1. PICK k : k = IF text'.length = 0 THEN 0 ELSE Bits[family] - text'.length
      OBVIOUS
    <3>2. /\ text'.length \in 0 .. Bits[family] /\ text'.address \in Word(family)
          /\ k \in 0 .. Bits[family] - 1 /\ Prefix(family, OnesAbove(family, k), k)
          /\ ParseText(family, text') = {[address |-> text'.address, mask |-> OnesAbove(family, k)]}
      BY <1>1, <1>4, <2>1, <3>1, ParseIs
    <3>3. /\ cidr'.mask = OnesAbove(family, k) /\ cidr'.address = text'.address
          /\ cidr' \in [address : Word(family), mask : Word(family)]
      BY <1>4, <3>2, WordsTyped
    <3>4. Shape'
      BY <1>1, <1>4, <3>3 DEF Shape
    <3>5. Parsed'
      BY <1>1, <1>4, <3>2, <3>3 DEF Parsed, Prefix
    <3>6. AcceptsExactly'
      BY <1>1, <1>4, <2>1, <3>1, <3>2, <3>3 DEF AcceptsExactly, Prefix
    <3> QED
      BY <3>4, <3>5, <3>6 DEF IInv
  <2>2. CASE text'.form = "netmask"
    <3>1. /\ text'.address \in Word(family) /\ text'.netmask \in Word(family)
          /\ \E k \in 0 .. Bits[family] - 1 : Prefix(family, text'.netmask, k)
          /\ cidr' = [address |-> text'.address, mask |-> text'.netmask]
      BY <1>1, <1>4, <2>2, ParseIs
    <3>2. cidr'.mask = text'.netmask /\ cidr' \in [address : Word(family), mask : Word(family)]
      BY <3>1
    <3> QED
      BY <1>1, <1>4, <2>2, <3>1, <3>2 DEF IInv, Shape, Parsed, AcceptsExactly, Prefix
  <2> QED
    BY <1>1, <1>4, <2>1, <2>2, ParseIs
<1> QED
  BY <1>2, <1>3, <1>4

\* The invariant of all reachable states.
LEMMA Invariant == Spec => []IInv
<1>1. Init => IInv
  BY WordsTyped DEF Init, IInv, Shape, Parsed, AcceptsExactly
<1>2. IInv /\ [Next]_vars => IInv'
  <2> SUFFICES ASSUME IInv, [Next]_vars
               PROVE  IInv'
    OBVIOUS
  <2>1. CASE from_str
    BY <2>1, FromStrStep
  <2>2. CASE Default
    <3>1. /\ text = NoText /\ text' = NoText /\ cidr' = default /\ family' = family /\ pc' = "block"
      BY <2>2 DEF Default, IInv, Shape
    <3> QED
      BY <3>1, WordsTyped DEF IInv, Shape, Parsed, AcceptsExactly
  <2>3. CASE iter
    <3>1. /\ UNCHANGED <<family, text, cidr>> /\ pc = "block" /\ pc' \in {"panicked", "iterating"}
      BY <2>3 DEF iter
    <3> QED
      BY <3>1 DEF IInv, Shape, Parsed, AcceptsExactly, Prefix
  <2>4. CASE next
    <3>1. UNCHANGED <<family, text, cidr, pc>>
      BY <2>4 DEF next
    <3> QED
      BY <3>1 DEF IInv, Shape, Parsed, AcceptsExactly, Prefix
  <2>5. CASE UNCHANGED vars
    BY <2>5 DEF vars, IInv, Shape, Parsed, AcceptsExactly, Prefix
  <2> QED
    BY <2>1, <2>2, <2>3, <2>4, <2>5 DEF Next
<1> QED
  BY <1>1, <1>2, PTL DEF Spec

\* For addresses of every width, from_str accepts exactly the lengths up to the
\* width and the netmasks that are ones above zeros and not zero (new,
\* with_netmask), and the block has the mask that was asked for.
THEOREM AlwaysAcceptsExactly == Spec => []AcceptsExactly
BY Invariant, PTL DEF IInv

\* For addresses of every width, a printed block is parsed back to itself, but
\* for the default block, which comes back as one address.
THEOREM AlwaysTextRoundTrip == Spec => []TextRoundTrip
<1>1. ASSUME IInv, pc = "block"
      PROVE  ParseText(family, fmt(family, cidr)) =
               IF text = NoText THEN {[cidr EXCEPT !.mask = Positions(family)]} ELSE {cidr}
  <2>1. /\ family \in Families /\ Bits[family] \in Nat \ {0}
        /\ cidr \in [address : Word(family), mask : Word(family)]
    BY <1>1, Width DEF IInv, Shape
  <2>2. PICK l : l = length(family, cidr)
    OBVIOUS
  <2>3. ParseText(family, fmt(family, cidr)) = new(family, cidr.address, l)
    BY <2>2 DEF ParseText, fmt
  <2>4. CASE text = NoText
    <3>1. cidr = default /\ Prefix(family, {}, Bits[family])
      <4>1. OnesAbove(family, Bits[family]) = {}
        BY <2>1 DEF OnesAbove, Positions
      <4> QED
        BY <1>1, <2>1, <2>4, <4>1 DEF IInv, Parsed, Prefix
    <3>2. l = Bits[family] - Bits[family]
      BY <2>1, <2>2, <3>1, PrefixLength DEF length, default
    <3>3. l = 0
      BY <2>1, <3>2
    <3>4. new(family, cidr.address, l) = {[address |-> cidr.address, mask |-> Positions(family)]}
      BY <3>3 DEF new
    <3>5. [cidr EXCEPT !.mask = Positions(family)]
            = [address |-> cidr.address, mask |-> Positions(family)]
      BY <3>1 DEF default
    <3> QED
      BY <2>3, <2>4, <3>4, <3>5
  <2>5. CASE text # NoText
    <3>1. PICK k \in 0 .. Bits[family] - 1 : Prefix(family, cidr.mask, k)
      BY <1>1, <2>5 DEF IInv, Parsed
    <3>2. l = Bits[family] - k
      BY <2>1, <2>2, <3>1, PrefixLength DEF length
    <3>3. l \in Nat /\ l # 0 /\ l <= Bits[family] /\ Bits[family] - l = k
      BY <2>1, <3>2
    <3>4. new(family, cidr.address, l) = {[address |-> cidr.address, mask |-> OnesAbove(family, k)]}
      BY <2>1, <3>3, NewIs
    <3>5. cidr = [address |-> cidr.address, mask |-> OnesAbove(family, k)]
      BY <2>1, <3>1 DEF Prefix
    <3> QED
      BY <2>3, <2>5, <3>4, <3>5
  <2> QED
    BY <2>4, <2>5
<1>2. IInv => TextRoundTrip
  BY <1>1 DEF TextRoundTrip
<1> QED
  BY <1>2, Invariant, PTL

-----------------------------------------------------------------------------
(* The block as a set of numbers.                                          *)

\* A mask that is not zero has one length.
LEMMA PrefixUnique ==
  ASSUME NEW f \in Families, NEW w, NEW j \in 0 .. Bits[f] - 1, NEW k \in 0 .. Bits[f] - 1,
         Prefix(f, w, j), Prefix(f, w, k)
  PROVE  j = k
<1>1. Bits[f] \in Nat
  BY Width
<1>2. j \in 0 .. Bits[f] /\ k \in 0 .. Bits[f]
  BY <1>1
<1>3. w = j .. Bits[f] - 1 /\ w = k .. Bits[f] - 1
  BY <1>2, OnesAre DEF Prefix
<1>4. j \in w /\ k \in w
  BY <1>1, <1>3
<1> QED
  BY <1>1, <1>3, <1>4

\* A text that was refused asks for no length.
LEMMA AskedNone ==
  ASSUME IInv, pc = "error"
  PROVE  AskedLengths = {}
<1>1. family \in Families /\ text \in Text(family) /\ Bits[family] \in Nat \ {0}
  BY Width DEF IInv, Shape
<1>2. \/ text.form = "malformed"
      \/ text.form = "length" /\ text.length > Bits[family]
      \/ text.form = "netmask" /\ \A k \in 0 .. Bits[family] - 1 : ~Prefix(family, text.netmask, k)
  BY DEF IInv, Shape, AcceptsExactly
<1>3. CASE text.form = "malformed"
  BY <1>3 DEF AskedLengths
<1>4. CASE text.form = "length" /\ text.length > Bits[family]
  <2>1. AskedLengths = {text.length} \cap (0 .. Bits[family])
    BY <1>4 DEF AskedLengths
  <2>2. text.length \notin 0 .. Bits[family]
    BY <1>1, <1>4
  <2> QED
    BY <2>1, <2>2
<1>5. CASE text.form = "netmask" /\ \A k \in 0 .. Bits[family] - 1 : ~Prefix(family, text.netmask, k)
  <2>1. AskedLengths = {l \in 1 .. Bits[family] :
            Value(family, text.netmask) = Pow2[Bits[family]] - Pow2[Bits[family] - l]}
    BY <1>5 DEF AskedLengths
  <2>2. text.netmask \in Word(family)
    BY <1>1, <1>5 DEF Text
  <2>3. ASSUME NEW l \in 1 .. Bits[family]
        PROVE  Value(family, text.netmask) # Pow2[Bits[family]] - Pow2[Bits[family] - l]
    <3>1. PICK k \in 0 .. Bits[family] - 1 : k = Bits[family] - l /\ k \in 0 .. Bits[family]
      BY <1>1
    <3> QED
      BY <1>1, <1>5, <2>2, <3>1, NetmaskNumber
  <2> QED
    BY <2>1, <2>3
<1> QED
  BY <1>2, <1>3, <1>4, <1>5

\* A text that was accepted asks for one length, which the mask has.
LEMMA AskedOne ==
  ASSUME IInv, pc # "error", text # NoText
  PROVE  \E l \in 0 .. Bits[family] :
           /\ AskedLengths = {l}
           /\ Prefix(family, cidr.mask, IF l = 0 THEN 0 ELSE Bits[family] - l)
<1>1. family \in Families /\ text \in Text(family) /\ Bits[family] \in Nat \ {0}
  BY Width DEF IInv, Shape
<1>2. CASE /\ text.form = "length" /\ text.length \in 0 .. Bits[family]
           /\ Prefix(family, cidr.mask, IF text.length = 0 THEN 0 ELSE Bits[family] - text.length)
  <2>1. AskedLengths = {text.length} \cap (0 .. Bits[family])
    BY <1>2 DEF AskedLengths
  <2>2. AskedLengths = {text.length}
    BY <1>2, <2>1
  <2> QED
    BY <1>2, <2>2
<1>3. ASSUME text.form = "netmask", NEW k \in 0 .. Bits[family] - 1,
             Prefix(family, text.netmask, k), cidr.mask = text.netmask
      PROVE  \E l \in 0 .. Bits[family] :
               /\ AskedLengths = {l}
               /\ Prefix(family, cidr.mask, IF l = 0 THEN 0 ELSE Bits[family] - l)
  <2>1. AskedLengths = {l \in 1 .. Bits[family] :
            Value(family, text.netmask) = Pow2[Bits[family]] - Pow2[Bits[family] - l]}
    BY <1>3 DEF AskedLengths
  <2>2. text.netmask \in Word(family)
    BY <1>1, <1>3 DEF Text
  <2>3. PICK x \in 1 .. Bits[family] : x = Bits[family] - k /\ k = Bits[family] - x
    BY <1>1
  <2>4. ASSUME NEW l \in 1 .. Bits[family]
        PROVE  Value(family, text.netmask) = Pow2[Bits[family]] - Pow2[Bits[family] - l] <=> l = x
    <3>1. PICK j \in 0 .. Bits[family] - 1 : j = Bits[family] - l /\ j \in 0 .. Bits[family]
      BY <1>1
    <3>2. Value(family, text.netmask) = Pow2[Bits[family]] - Pow2[j] <=> Prefix(family, text.netmask, j)
      BY <1>1, <2>2, <3>1, NetmaskNumber
    <3>3. Prefix(family, text.netmask, j) <=> j = k
      BY <1>1, <1>3, PrefixUnique
    <3>4. j = k <=> l = x
      BY <1>1, <2>3, <3>1
    <3> QED
      BY <3>1, <3>2, <3>3, <3>4
  <2>5. AskedLengths = {x}
    BY <2>1, <2>4
  <2>6. x \in 0 .. Bits[family] /\ x # 0
    BY <1>1
  <2> QED
    BY <1>3, <2>3, <2>5, <2>6
<1>4. \/ /\ text.form = "length" /\ text.length \in 0 .. Bits[family]
         /\ Prefix(family, cidr.mask, IF text.length = 0 THEN 0 ELSE Bits[family] - text.length)
      \/ /\ text.form = "netmask" /\ cidr.mask = text.netmask
         /\ \E k \in 0 .. Bits[family] - 1 : Prefix(family, text.netmask, k)
  BY DEF IInv, AcceptsExactly
<1> QED
  BY <1>2, <1>3, <1>4

\* The mask leaves the host bits that were asked for.
LEMMA HostIs ==
  ASSUME IInv, pc # "error"
  PROVE  /\ family \in Families /\ Bits[family] \in Nat \ {0}
         /\ cidr \in [address : Word(family), mask : Word(family)]
         /\ HostBits \in 0 .. Bits[family]
         /\ Prefix(family, cidr.mask, HostBits)
         /\ text # NoText => \E l : AskedLengths = {l}
<1>1. /\ family \in Families /\ Bits[family] \in Nat \ {0}
      /\ cidr \in [address : Word(family), mask : Word(family)]
  BY Width DEF IInv, Shape
<1>2. CASE text = NoText
  <2>1. HostBits = Bits[family]
    BY <1>2 DEF HostBits
  <2>2. OnesAbove(family, Bits[family]) = {}
    BY <1>1 DEF OnesAbove, Positions
  <2>3. cidr.mask = {}
    BY <1>2 DEF IInv, Parsed, default
  <2> QED
    BY <1>1, <1>2, <2>1, <2>2, <2>3 DEF Prefix
<1>3. CASE text # NoText
  <2>1. PICK l \in 0 .. Bits[family] :
           /\ AskedLengths = {l}
           /\ Prefix(family, cidr.mask, IF l = 0 THEN 0 ELSE Bits[family] - l)
    BY <1>3, AskedOne
  <2> DEFINE chosen == CHOOSE x \in AskedLengths : TRUE
  <2>2. chosen = l
    BY <2>1
  <2>3. HostBits = IF l = 0 THEN 0 ELSE Bits[family] - l
    <3>1. HostBits = IF chosen = 0 THEN 0 ELSE Bits[family] - chosen
      BY <1>3, Zenon DEF HostBits
    <3> HIDE DEF chosen
    <3> QED
      BY <2>2, <3>1
  <2>4. HostBits \in 0 .. Bits[family]
    BY <1>1, <2>3
  <2> QED
    BY <1>1, <2>1, <2>3, <2>4
<1> QED
  BY <1>2, <1>3

\* The ends of an interval.
LEMMA IntervalEnds ==
  ASSUME NEW m \in Nat, NEW n \in Nat, m <= n
  PROVE  Min(m .. n) = m /\ Max(m .. n) = n
<1>1. m \in m .. n /\ n \in m .. n /\ \A y \in m .. n : m <= y /\ n >= y
  OBVIOUS
<1>2. /\ \A x \in m .. n : (\A y \in m .. n : x <= y) => x = m
      /\ \A x \in m .. n : (\A y \in m .. n : x >= y) => x = n
  BY <1>1
<1>3. Min(m .. n) = m
  BY <1>1, <1>2 DEF Min
<1>4. Max(m .. n) = n
  BY <1>1, <1>2 DEF Max
<1> QED
  BY <1>3, <1>4

\* For addresses of every width, a text is refused exactly if it asks for no
\* length, and contains, network, broadcast, hostmask, length and size of what
\* it is made into all speak of the one block of numbers that agree with the
\* address in the upper bits.
THEOREM AlwaysBlockIsPrefix == Spec => []BlockIsPrefix
<1>1. ASSUME IInv, pc = "block"
      PROVE  LET block == Block
             IN /\ text # NoText => Cardinality(AskedLengths) = 1
                /\ \A a \in Word(family) : contains(cidr, a) <=> Value(family, a) \in block
                /\ Value(family, network(cidr)) = Min(block)
                /\ Value(family, broadcast(family, cidr)) = Max(block)
                /\ Value(family, hostmask(family, cidr)) = Max(block) - Min(block)
                /\ length(family, cidr) = Bits[family] - HostBits
                /\ HostBits < UsizeBits => size(family, cidr) = {Cardinality(block)}
  <2>1. PICK k : k = HostBits
    OBVIOUS
  <2>2. /\ family \in Families /\ Bits[family] \in Nat \ {0}
        /\ cidr \in [address : Word(family), mask : Word(family)] /\ cidr.address \in Word(family)
        /\ k \in 0 .. Bits[family] /\ Prefix(family, cidr.mask, k)
        /\ text # NoText => \E l : AskedLengths = {l}
    BY <1>1, <2>1, HostIs
  <2>3. PICK p : p = Pow2[k]
    OBVIOUS
  <2>4. PICK first : first = (Value(family, cidr.address) \div p) * p
    OBVIOUS
  <2>5. /\ Block = first .. first + (p - 1)
        /\ first \in Nat /\ p \in Nat \ {0}
    BY <2>1, <2>2, <2>3, <2>4, BlockNumbers DEF Block
  <2>6. Min(Block) = first /\ Max(Block) = first + (p - 1)
    <3>1. first + (p - 1) \in Nat /\ first <= first + (p - 1)
      BY <2>5
    <3> QED
      BY <2>5, <3>1, IntervalEnds
  <2>7. text # NoText => Cardinality(AskedLengths) = 1
    BY <2>2, FS_Singleton
  <2>8. ASSUME NEW a \in Word(family)
        PROVE  contains(cidr, a) <=> Value(family, a) \in Block
    <3>1. contains(cidr, a) <=> Value(family, a) \div p = Value(family, cidr.address) \div p
      BY <2>2, <2>3, ContainsNumber
    <3>2. Value(family, a) \in 0 .. Pow2[Bits[family]] - 1
      BY <2>2, ValueSplit
    <3>3. Value(family, a) \in Block <=> Value(family, a) \div p = Value(family, cidr.address) \div p
      BY <2>1, <2>3, <3>2 DEF Block
    <3> QED
      BY <3>1, <3>3
  <2>9. /\ Value(family, network(cidr)) = first
        /\ Value(family, broadcast(family, cidr)) = first + (p - 1)
        /\ Value(family, hostmask(family, cidr)) = p - 1
    <3>1. /\ Value(family, network(cidr)) = (Value(family, cidr.address) \div Pow2[k]) * Pow2[k]
          /\ Value(family, broadcast(family, cidr))
               = (Value(family, cidr.address) \div Pow2[k]) * Pow2[k] + (Pow2[k] - 1)
          /\ Value(family, hostmask(family, cidr)) = Pow2[k] - 1
      BY <2>2, MaskedBits, ZenonT(30) DEF network, broadcast, hostmask
    <3> QED
      BY <2>3, <2>4, <3>1
  <2>10. (first + (p - 1)) - first = p - 1
    BY <2>5
  <2>11. length(family, cidr) = Bits[family] - k
    BY <2>2, PrefixLength DEF length
  <2>12. Cardinality(Block) = p
    <3>1. Cardinality(first .. first + (p - 1)) = (first + (p - 1)) - first + 1
      <4>1. first \in Int /\ first + (p - 1) \in Int /\ ~(first > first + (p - 1))
        BY <2>5
      <4> QED
        BY <4>1, FS_Interval
    <3> QED
      BY <2>5, <3>1
  <2>13. ASSUME k < UsizeBits
         PROVE  size(family, cidr) = {p}
    <3>1. Bits[family] - length(family, cidr) = k
      BY <2>2, <2>11
    <3> QED
      BY <2>3, <2>13, <3>1 DEF size
  <2> QED
    BY <2>1, <2>6, <2>7, <2>8, <2>9, <2>10, <2>11, <2>12, <2>13
<1>2. IInv => BlockIsPrefix
  BY <1>1, AskedNone DEF BlockIsPrefix
<1> QED
  BY <1>2, Invariant, PTL

-----------------------------------------------------------------------------
(* The iterator.                                                           *)

\* The number of addresses the iterator goes through and the first of them.
Count == IF HostBits < UsizeBits THEN Pow2[HostBits] ELSE Pow2[Bits[family]]

First == (Value(family, cidr.address) \div Pow2[HostBits]) * Pow2[HostBits]

\* iter panics.
Overflows == checked /\ (HostBits >= UsizeBits \/ HostBits = Bits[family])

\* The iterator has returned the first addresses of the block and holds the one
\* that follows them.
Running ==
  /\ ~Overflows
  /\ yielded \in Seq(0 .. Pow2[Bits[family]] - 1)
  /\ Len(yielded) <= Count
  /\ \A i \in 1 .. Len(yielded) : yielded[i] = (First + i - 1) % Pow2[Bits[family]]
  /\ iterator.next = IF Len(yielded) = Count THEN {}
                     ELSE {(First + Len(yielded)) % Pow2[Bits[family]]}
  /\ iterator.end = (First + Count - 1) % Pow2[Bits[family]]

Iteration ==
  /\ checked \in BOOLEAN
  /\ pc \in {"start", "error", "block", "iterating", "panicked"}
  /\ iterator \in [next : SUBSET Nat, end : Nat]
  /\ pc # "iterating" => iterator = NoIterator /\ yielded = <<>>
  /\ pc = "panicked" => Overflows
  /\ pc = "iterating" => Running

\* Facts about remainders.
LEMMA Residue ==
  ASSUME NEW M \in Nat \ {0}, NEW a \in Nat
  PROVE  /\ (a % M) \in 0 .. M - 1
         /\ a < M => (a % M) = a
         /\ (M % M) = 0 /\ (0 % M) = 0
OBVIOUS

LEMMA NextResidue ==
  ASSUME NEW M \in Nat \ {0}, NEW a \in Nat
  PROVE  ((a % M) + 1) % M = (a + 1) % M
<1>1. PICK q \in Nat, r \in 0 .. M - 1 : q = a \div M /\ r = (a % M) /\ a = q * M + r
  <2>1. a = (a \div M) * M + (a % M) /\ (a % M) \in 0 .. M - 1 /\ a \div M \in Nat
    OBVIOUS
  <2> QED
    BY <2>1
<1>2. CASE r + 1 < M
  <2>1. (q * M + (r + 1)) % M = r + 1
    BY <1>2
  <2>2. (r + 1) % M = r + 1
    BY <1>2
  <2>3. a + 1 = q * M + (r + 1)
    BY <1>1
  <2> QED
    BY <1>1, <2>1, <2>2, <2>3
<1>3. CASE r + 1 = M
  <2>1. ((q + 1) * M + 0) % M = 0
    OBVIOUS
  <2>2. (r + 1) % M = 0
    BY <1>3
  <2>3. a + 1 = (q + 1) * M + 0
    BY <1>1, <1>3
  <2> QED
    BY <1>1, <2>1, <2>2, <2>3
<1> QED
  BY <1>1, <1>2, <1>3

\* Remainders are different within one period.
LEMMA ResiduesDiffer ==
  ASSUME NEW M \in Nat \ {0}, NEW a \in Nat, NEW c \in Nat, a <= c, c < a + M, (a % M) = (c % M)
  PROVE  a = c
<1>1. PICK q \in Nat, r \in 0 .. M - 1 : r = (a % M) /\ a = q * M + r
  <2>1. a = (a \div M) * M + (a % M) /\ (a % M) \in 0 .. M - 1 /\ a \div M \in Nat
    OBVIOUS
  <2> QED
    BY <2>1
<1>2. PICK p \in Nat : c = p * M + r
  <2>1. c = (c \div M) * M + (c % M) /\ c \div M \in Nat
    OBVIOUS
  <2> QED
    BY <1>1, <2>1
<1>3. q * M <= p * M /\ p * M < q * M + M
  <2>1. PICK x \in Nat, y \in Nat : x = q * M /\ y = p * M
    OBVIOUS
  <2>2. a = x + r /\ c = y + r
    BY <1>1, <1>2, <2>1, Zenon
  <2>3. x <= y /\ y < x + M
    BY <2>2
  <2> QED
    BY <2>1, <2>3
<1>4. (q * M + M) = (q + 1) * M
  OBVIOUS
<1>5. p < q + 1
  <2>1. \A x, y \in Nat : x >= y => x * M >= y * M
    OBVIOUS
  <2> QED
    BY <1>3, <1>4, <2>1
<1>6. p >= q
  <2>1. \A x, y \in Nat : x + 1 <= y => (x + 1) * M <= y * M
    OBVIOUS
  <2>2. (p + 1) * M = p * M + M
    OBVIOUS
  <2>3. p * M \in Nat /\ q * M \in Nat
    OBVIOUS
  <2> QED
    BY <1>3, <2>1, <2>2, <2>3
<1> QED
  BY <1>1, <1>2, <1>5, <1>6

\* Add is addition modulo 2^Bits where it does not panic.
LEMMA AddIs ==
  ASSUME NEW f \in Families, NEW a \in Nat, NEW b \in Nat, ~checked \/ a + b < Pow2[Bits[f]]
  PROVE  Add(f, a, b) = {(a + b) % Pow2[Bits[f]]}
<1>1. PICK M \in Nat \ {0} : M = Pow2[Bits[f]]
  BY Pow2Positive, Width
<1>2. CASE a + b < M
  <2>1. ((a + b) % M) = a + b
    <3>1. a + b \in Nat
      OBVIOUS
    <3> QED
      BY <1>2, <3>1, Residue
  <2> QED
    BY <1>1, <1>2, <2>1 DEF Add
<1>3. CASE ~(a + b < M)
  BY <1>1, <1>3 DEF Add
<1> QED
  BY <1>2, <1>3

\* The numbers of the iterator: they stay within the width of an address.
LEMMA Measures ==
  ASSUME IInv, pc # "error"
  PROVE  /\ family \in Families
         /\ Pow2[Bits[family]] \in Nat \ {0}
         /\ First \in Nat /\ First < Pow2[Bits[family]]
         /\ Count \in Nat \ {0} /\ Count <= Pow2[Bits[family]]
         /\ HostBits \in 0 .. Bits[family] /\ Bits[family] \in Nat \ {0} /\ UsizeBits \in Nat
         /\ Value(family, network(cidr)) = First
         /\ HostBits < UsizeBits => First + Count <= Pow2[Bits[family]]
         /\ checked /\ ~Overflows => First + Count <= Pow2[Bits[family]]
         /\ HostBits = Bits[family] => Pow2[HostBits] = Pow2[Bits[family]]
         /\ HostBits < Bits[family] => Pow2[HostBits] < Pow2[Bits[family]]
         /\ size(family, cidr) = IF HostBits < UsizeBits THEN {Pow2[HostBits]}
                                 ELSE IF checked THEN {} ELSE {0}
<1>1. PICK k : k = HostBits
  OBVIOUS
<1>2. /\ family \in Families /\ Bits[family] \in Nat \ {0}
      /\ cidr \in [address : Word(family), mask : Word(family)] /\ cidr.address \in Word(family)
      /\ k \in 0 .. Bits[family] /\ Prefix(family, cidr.mask, k) /\ UsizeBits \in Nat
  BY <1>1, HostIs, CidrAssumption
<1>3. PICK M \in Nat \ {0} : M = Pow2[Bits[family]]
  BY <1>2, Pow2Positive
<1>4. PICK p \in Nat \ {0} : p = Pow2[k]
  BY <1>2, Pow2Positive
<1>5. First \in Nat /\ First + (p - 1) < M
  BY <1>1, <1>2, <1>3, <1>4, BlockNumbers DEF First
<1>6. p <= M /\ (k < Bits[family] => p < M)
  BY <1>2, <1>3, <1>4, Pow2Grows
<1>7. Count = IF k < UsizeBits THEN p ELSE M
  BY <1>1, <1>3, <1>4 DEF Count
<1>8. Value(family, network(cidr)) = First
  <2>1. Value(family, network(cidr)) = (Value(family, cidr.address) \div Pow2[k]) * Pow2[k]
    BY <1>2, NetworkNumber
  <2> QED
    BY <1>1, <2>1 DEF First
<1>9. size(family, cidr) = IF k < UsizeBits THEN {p} ELSE IF checked THEN {} ELSE {0}
  <2>1. length(family, cidr) = Bits[family] - k
    BY <1>2, PrefixLength DEF length
  <2>2. Bits[family] - length(family, cidr) = k
    BY <1>2, <2>1
  <2> QED
    BY <1>4, <2>2 DEF size
<1>10. First < M /\ (k < UsizeBits => First + Count <= M)
  BY <1>3, <1>4, <1>5, <1>7
<1>11. checked /\ ~Overflows => k < UsizeBits
  BY <1>1, <1>2 DEF Overflows
<1>12. Count \in Nat \ {0} /\ Count <= M
  BY <1>3, <1>4, <1>6, <1>7
<1> QED
  BY <1>1, <1>2, <1>3, <1>4, <1>5, <1>6, <1>8, <1>9, <1>10, <1>11, <1>12

\* Where iter lets the iterator end.
LEMMA EndsAre ==
  ASSUME IInv, pc # "error"
  PROVE  UNION {LastAddress(family, First, n) : n \in size(family, cidr)}
           = IF Overflows THEN {} ELSE {(First + Count - 1) % Pow2[Bits[family]]}
<1> DEFINE ends == UNION {LastAddress(family, First, n) : n \in size(family, cidr)}
<1>1. PICK M \in Nat \ {0} : M = Pow2[Bits[family]]
  BY Measures
<1>2. PICK p : p = Pow2[HostBits]
  OBVIOUS
<1>3. /\ family \in Families /\ First \in Nat /\ First < M /\ Count \in Nat \ {0} /\ Count <= M
      /\ HostBits < UsizeBits => First + Count <= M
      /\ HostBits = Bits[family] => p = M
      /\ HostBits < Bits[family] => p < M
      /\ HostBits \in 0 .. Bits[family] /\ Bits[family] \in Nat /\ UsizeBits \in Nat
  BY <1>1, <1>2, Measures
<1>4. size(family, cidr) = IF HostBits < UsizeBits THEN {p} ELSE IF checked THEN {} ELSE {0}
  BY <1>2, Measures
<1>5. Count = IF HostBits < UsizeBits THEN p ELSE M
  BY <1>1, <1>2 DEF Count
<1>6. ASSUME NEW n, size(family, cidr) = {n}
      PROVE  ends = LastAddress(family, First, n)
  BY <1>6
<1>7. ASSUME NEW n \in Nat, (n % M) = 0, Count = M
      PROVE  LastAddress(family, First, n) = IF checked THEN {} ELSE {(First + Count - 1) % M}
  <2>1. LastAddress(family, First, n) = UNION {Add(family, First, d) : d \in Decrement(family, 0)}
    BY <1>1, <1>7 DEF LastAddress
  <2>2. Decrement(family, 0) = IF checked THEN {} ELSE {M - 1}
    BY <1>1 DEF Decrement
  <2>3. CASE checked
    BY <2>1, <2>2, <2>3
  <2>4. CASE ~checked
    <3>1. LastAddress(family, First, n) = Add(family, First, M - 1)
      BY <2>1, <2>2, <2>4
    <3>2. Add(family, First, M - 1) = {(First + (M - 1)) % M}
      BY <1>1, <1>3, <2>4, AddIs
    <3>3. First + (M - 1) = First + Count - 1
      BY <1>3, <1>7
    <3> QED
      BY <2>4, <3>1, <3>2, <3>3
  <2> QED
    BY <2>3, <2>4
<1>8. CASE HostBits >= UsizeBits
  <2>1. ~(HostBits < UsizeBits) /\ Count = M
    BY <1>3, <1>5, <1>8
  <2>2. CASE checked
    <3>1. size(family, cidr) = {} /\ Overflows
      BY <1>4, <1>8, <2>1, <2>2 DEF Overflows
    <3> QED
      BY <3>1
  <2>3. CASE ~checked
    <3>1. size(family, cidr) = {0} /\ ~Overflows
      BY <1>4, <2>1, <2>3 DEF Overflows
    <3>2. LastAddress(family, First, 0) = {(First + Count - 1) % M}
      BY <1>7, <2>1, <2>3, Residue
    <3> QED
      BY <1>1, <1>6, <3>1, <3>2
  <2> QED
    BY <2>2, <2>3
<1>9. CASE HostBits < UsizeBits /\ HostBits = Bits[family]
  <2>1. size(family, cidr) = {M} /\ Count = M
    BY <1>3, <1>4, <1>5, <1>9
  <2>2. Overflows <=> checked
    BY <1>9 DEF Overflows
  <2>3. LastAddress(family, First, M) = IF checked THEN {} ELSE {(First + Count - 1) % M}
    BY <1>7, <2>1, Residue
  <2> QED
    BY <1>1, <1>6, <2>1, <2>2, <2>3
<1>10. CASE HostBits < UsizeBits /\ HostBits < Bits[family]
  <2>1. size(family, cidr) = {p} /\ Count = p /\ p \in Nat \ {0} /\ p < M
    BY <1>3, <1>4, <1>5, <1>10
  <2>2. ~Overflows
    BY <1>3, <1>10 DEF Overflows
  <2>3. (p % M) = p
    BY <2>1, Residue
  <2>4. Decrement(family, p) = {p - 1}
    BY <2>1 DEF Decrement
  <2>5. LastAddress(family, First, p) = Add(family, First, p - 1)
    BY <1>1, <2>3, <2>4 DEF LastAddress
  <2>6. p - 1 \in Nat /\ First + (p - 1) < M /\ First + (p - 1) = First + Count - 1
    BY <1>3, <1>10, <2>1
  <2>7. Add(family, First, p - 1) = {(First + Count - 1) % M}
    BY <1>1, <1>3, <2>6, AddIs
  <2> QED
    BY <1>1, <1>6, <2>1, <2>2, <2>5, <2>7
<1>11. HostBits >= UsizeBits \/ HostBits < UsizeBits
  BY <1>3
<1>12. HostBits = Bits[family] \/ HostBits < Bits[family]
  BY <1>3
<1> QED
  BY <1>8, <1>9, <1>10, <1>11, <1>12

\* What the invariants speak of besides the iterator is left alone by it.
LEMMA SameBlock ==
  ASSUME UNCHANGED <<family, checked, text, cidr>>
  PROVE  HostBits' = HostBits /\ Count' = Count /\ First' = First /\ Overflows' = Overflows
<1>1. HostBits' = HostBits
  BY DEF HostBits, AskedLengths
<1> QED
  BY <1>1 DEF Count, First, Overflows

\* iter starts at the first address of the block, or panics.
LEMMA IterStep ==
  ASSUME IInv, Iteration, iter
  PROVE  Iteration'
<1>1. /\ pc = "block" /\ UNCHANGED <<family, checked, text, cidr, yielded>>
      /\ yielded = <<>> /\ iterator = NoIterator /\ checked \in BOOLEAN
  BY DEF iter, Iteration
<1>2. PICK M \in Nat \ {0} : M = Pow2[Bits[family]] /\ M = Pow2[Bits[family']]
  BY <1>1, Measures
<1>3. /\ First \in Nat /\ First < M /\ Count \in Nat \ {0}
      /\ Value(family, network(cidr)) = First
  BY <1>1, <1>2, Measures
<1>4. HostBits' = HostBits /\ Count' = Count /\ First' = First /\ Overflows' = Overflows
  BY <1>1, SameBlock
<1>5. PICK ends : ends = UNION {LastAddress(family, First, n) : n \in size(family, cidr)}
  OBVIOUS
<1>6. ends = IF Overflows THEN {} ELSE {(First + Count - 1) % M}
  BY <1>1, <1>2, <1>5, EndsAre
<1>7. \/ ends = {} /\ pc' = "panicked" /\ UNCHANGED iterator
      \/ /\ \E e \in ends : iterator' = [next |-> {First}, end |-> e]
         /\ pc' = "iterating"
  BY <1>3, <1>5 DEF iter
<1>8. CASE Overflows
  <2>1. pc' = "panicked" /\ iterator' = NoIterator
    BY <1>1, <1>6, <1>7, <1>8
  <2> QED
    BY <1>1, <1>4, <1>8, <2>1 DEF Iteration, NoIterator
<1>9. CASE ~Overflows
  <2>1. PICK e : e = (First + Count - 1) % M
    OBVIOUS
  <2>2. pc' = "iterating" /\ iterator' = [next |-> {First}, end |-> e]
    BY <1>6, <1>7, <1>9, <2>1
  <2>3. e \in Nat
    <3>1. First + Count - 1 \in Nat
      BY <1>3
    <3> QED
      BY <2>1, <3>1, Residue
  <2>4. iterator'.next = {First} /\ iterator'.end = e /\ iterator' \in [next : SUBSET Nat, end : Nat]
    BY <1>3, <2>2, <2>3
  <2>5. Len(yielded') = 0 /\ yielded' = <<>>
    BY <1>1
  <2>6. (First + 0) % M = First
    <3>1. First + 0 = First
      BY <1>3
    <3> QED
      BY <1>3, <3>1, Residue
  <2>7. Running'
    <3>1. yielded' \in Seq(0 .. Pow2[Bits[family']] - 1)
      BY <2>5
    <3>2. Len(yielded') <= Count' /\ Len(yielded') # Count'
      BY <1>3, <1>4, <2>5
    <3>3. \A i \in 1 .. Len(yielded') : FALSE
      BY <2>5
    <3>4. iterator'.next = {(First' + Len(yielded')) % M}
      BY <1>4, <2>4, <2>5, <2>6
    <3>5. iterator'.end = (First' + Count' - 1) % M
      BY <1>4, <2>1, <2>4
    <3> QED
      BY <1>2, <1>4, <1>9, <3>1, <3>2, <3>3, <3>4, <3>5 DEF Running
  <2> QED
    BY <1>1, <2>2, <2>4, <2>7 DEF Iteration
<1> QED
  BY <1>8, <1>9

\* next returns the address that follows; it never panics.
LEMMA NextStep ==
  ASSUME IInv, Iteration, next
  PROVE  Iteration'
<1>1. /\ pc = "iterating" /\ UNCHANGED <<family, checked, text, cidr, pc>>
      /\ Running /\ iterator \in [next : SUBSET Nat, end : Nat] /\ checked \in BOOLEAN
  BY DEF next, Iteration
<1>2. PICK M \in Nat \ {0} : M = Pow2[Bits[family]] /\ M = Pow2[Bits[family']]
  BY <1>1, Measures
<1>3. /\ family \in Families /\ First \in Nat /\ First < M /\ Count \in Nat \ {0} /\ Count <= M
      /\ checked => First + Count <= M
  BY <1>1, <1>2, Measures DEF Running
<1>4. HostBits' = HostBits /\ Count' = Count /\ First' = First /\ Overflows' = Overflows
  BY <1>1, SameBlock
<1>5. PICK n \in Nat : n = Len(yielded) /\ n <= Count
  BY <1>1, LenProperties DEF Running
<1>6. PICK v \in iterator.next :
        /\ iterator' = [iterator EXCEPT !.next = IF v = iterator.end THEN {} ELSE Add(family, v, 1)]
        /\ yielded' = Append(yielded, v)
  BY DEF next
<1>0. n # Count
  BY <1>1, <1>5, <1>6 DEF Running
<1>7. v = (First + n) % M
  BY <1>1, <1>2, <1>5, <1>6 DEF Running
<1>8. PICK e : e = (First + Count - 1) % M /\ iterator.end = e
  BY <1>1, <1>2 DEF Running
<1>9. v \in 0 .. M - 1
  <2>1. First + n \in Nat
    BY <1>3
  <2> QED
    BY <1>7, <2>1, Residue
<1>10. v = e <=> n + 1 = Count
  <2>1. First + n \in Nat /\ First + Count - 1 \in Nat
    BY <1>3
  <2>2. First + n <= First + Count - 1 /\ First + Count - 1 < (First + n) + M
    BY <1>0, <1>3, <1>5
  <2>3. v = e => First + n = First + Count - 1
    BY <1>7, <1>8, <2>1, <2>2, ResiduesDiffer
  <2>4. n + 1 = Count => First + n = First + Count - 1
    BY <1>3
  <2> QED
    BY <1>3, <1>7, <1>8, <2>3, <2>4
<1>11. n + 1 # Count => Add(family, v, 1) = {(First + (n + 1)) % M}
  <2> SUFFICES ASSUME n + 1 # Count
               PROVE  Add(family, v, 1) = {(First + (n + 1)) % M}
    OBVIOUS
  <2>1. ~checked \/ v + 1 < M
    <3> SUFFICES ASSUME checked
                 PROVE  v + 1 < M
      BY <1>1
    <3>1. First + n < M /\ (First + n) + 1 < M
      BY <1>0, <1>3, <1>5
    <3>2. v = First + n
      <4>1. First + n \in Nat
        BY <1>3
      <4> QED
        BY <1>7, <3>1, <4>1, Residue
    <3> QED
      BY <3>1, <3>2
  <2>2. Add(family, v, 1) = {(v + 1) % M}
    <3>1. v \in Nat /\ 1 \in Nat
      BY <1>9
    <3>2. ~checked \/ v + 1 < Pow2[Bits[family]]
      BY <1>2, <2>1
    <3>3. Add(family, v, 1) = {(v + 1) % Pow2[Bits[family]]}
      BY <1>3, <3>1, <3>2, AddIs, Zenon
    <3> QED
      BY <1>2, <3>3
  <2>3. (((First + n) % M) + 1) % M = ((First + n) + 1) % M
    <3>1. First + n \in Nat
      BY <1>3
    <3> QED
      BY <3>1, NextResidue
  <2>4. (First + n) + 1 = First + (n + 1)
    BY <1>3
  <2> QED
    BY <1>7, <2>2, <2>3, <2>4
<1>12. PICK z : z = IF n + 1 = Count THEN {} ELSE {(First + (n + 1)) % M}
  OBVIOUS
<1>13. iterator'.next = z /\ iterator'.end = e /\ iterator' \in [next : SUBSET Nat, end : Nat]
  <2>1. z \in SUBSET Nat
    <3>1. First + (n + 1) \in Nat
      BY <1>3
    <3>2. (First + (n + 1)) % M \in Nat
      BY <3>1, Residue
    <3> QED
      BY <1>12, <3>2
  <2>2. iterator' = [iterator EXCEPT !.next = z]
    BY <1>6, <1>8, <1>10, <1>11, <1>12
  <2> QED
    BY <1>1, <1>8, <2>1, <2>2
<1>14. /\ yielded \in Seq(0 .. M - 1) /\ yielded' \in Seq(0 .. M - 1)
       /\ Len(yielded') = n + 1 /\ yielded'[n + 1] = v
       /\ \A i \in 1 .. n : yielded'[i] = yielded[i]
  <2>1. yielded \in Seq(0 .. M - 1)
    BY <1>1, <1>2 DEF Running
  <2> QED
    BY <1>5, <1>6, <1>9, <2>1, AppendProperties
<1>15. ASSUME NEW i \in 1 .. n + 1
       PROVE  yielded'[i] = (First + i - 1) % M
  <2>1. CASE i = n + 1
    <3>1. First + i - 1 = First + n
      BY <1>3, <2>1
    <3> QED
      BY <1>7, <1>14, <2>1, <3>1
  <2>2. CASE i \in 1 .. n
    <3>1. yielded[i] = (First + i - 1) % M
      BY <1>1, <1>2, <1>5, <2>2 DEF Running
    <3> QED
      BY <1>14, <2>2, <3>1
  <2> QED
    BY <2>1, <2>2
<1>16. n + 1 <= Count
  BY <1>0, <1>3, <1>5
<1>17. Running'
  <2>1. ~Overflows'
    BY <1>1, <1>4 DEF Running
  <2>2. yielded' \in Seq(0 .. Pow2[Bits[family']] - 1) /\ Len(yielded') <= Count'
    BY <1>2, <1>4, <1>14, <1>16
  <2>3. \A i \in 1 .. Len(yielded') : yielded'[i] = (First' + i - 1) % Pow2[Bits[family']]
    BY <1>2, <1>4, <1>14, <1>15
  <2>4. iterator'.next = IF Len(yielded') = Count' THEN {} ELSE {(First' + Len(yielded')) % Pow2[Bits[family']]}
    BY <1>2, <1>4, <1>12, <1>13, <1>14
  <2>5. iterator'.end = (First' + Count' - 1) % Pow2[Bits[family']]
    BY <1>2, <1>4, <1>8, <1>13
  <2> QED
    BY <2>1, <2>2, <2>3, <2>4, <2>5 DEF Running
<1> QED
  BY <1>1, <1>13, <1>17 DEF Iteration

\* The invariant of the iterator.
LEMMA IterationInvariant == Spec => [](IInv /\ Iteration)
<1>1. Init => Iteration
  BY DEF Init, Iteration, NoIterator
<1>2. IInv /\ Iteration /\ [Next]_vars => Iteration'
  <2> SUFFICES ASSUME IInv, Iteration, [Next]_vars
               PROVE  Iteration'
    OBVIOUS
  <2>1. CASE from_str
    <3>1. pc = "start" /\ pc' \in {"error", "block"} /\ UNCHANGED <<checked, iterator, yielded>>
      BY <2>1 DEF from_str
    <3> QED
      BY <3>1 DEF Iteration
  <2>2. CASE Default
    <3>1. pc = "start" /\ pc' = "block" /\ UNCHANGED <<checked, iterator, yielded>>
      BY <2>2 DEF Default
    <3> QED
      BY <3>1 DEF Iteration
  <2>3. CASE iter
    BY <2>3, IterStep
  <2>4. CASE next
    BY <2>4, NextStep
  <2>5. CASE UNCHANGED vars
    <3>1. HostBits' = HostBits /\ Count' = Count /\ First' = First /\ Overflows' = Overflows
      BY <2>5, SameBlock DEF vars
    <3> QED
      BY <2>5, <3>1 DEF vars, Iteration, Running
  <2> QED
    BY <2>1, <2>2, <2>3, <2>4, <2>5 DEF Next
<1> QED
  BY <1>1, <1>2, Invariant, PTL DEF Spec

\* For addresses of every width, the iterator returns the addresses of the block
\* in order, each once, and ends; it panics before the first one exactly in a
\* build with overflow checks, for the block of all addresses and for those
\* whose size no usize holds; a build without goes through all addresses.
THEOREM AlwaysIterExact == Spec => []IterExact
<1>1. ASSUME IInv, Iteration, pc \in {"iterating", "panicked"}
      PROVE  /\ pc = "panicked" <=> checked /\ (HostBits >= UsizeBits \/ HostBits = Bits[family])
             /\ yielded = [i \in 1 .. Len(yielded) |-> (First + i - 1) % Pow2[Bits[family]]]
             /\ pc = "panicked" => yielded = <<>>
             /\ Len(yielded) <= Count
             /\ pc = "iterating" => (iterator.next = {} <=> Len(yielded) = Count)
  <2>1. CASE pc = "panicked"
    <3>1. Overflows /\ yielded = <<>>
      BY <1>1, <2>1 DEF Iteration
    <3>2. Count \in Nat
      BY <1>1, <2>1, Measures
    <3>3. Len(yielded) = 0 /\ Len(yielded) <= Count
      BY <3>1, <3>2
    <3>4. yielded = [i \in 1 .. Len(yielded) |-> (First + i - 1) % Pow2[Bits[family]]]
      BY <3>1, <3>3
    <3> QED
      BY <2>1, <3>1, <3>3, <3>4 DEF Overflows
  <2>2. CASE pc = "iterating"
    <3>1. Running
      BY <1>1, <2>2 DEF Iteration
    <3>2. yielded = [i \in 1 .. Len(yielded) |-> yielded[i]]
      BY <3>1 DEF Running
    <3>3. yielded = [i \in 1 .. Len(yielded) |-> (First + i - 1) % Pow2[Bits[family]]]
      BY <3>1, <3>2 DEF Running
    <3>4. /\ Len(yielded) <= Count /\ ~Overflows
          /\ iterator.next = {} <=> Len(yielded) = Count
      BY <3>1 DEF Running
    <3> QED
      BY <2>2, <3>3, <3>4 DEF Overflows
  <2> QED
    BY <1>1, <2>1, <2>2
<1>2. IInv /\ Iteration => IterExact
  BY <1>1, Zenon DEF IterExact, Count, First
<1> QED
  BY <1>2, IterationInvariant, PTL

\* The variables keep their types and the mask is ones above zeros, for
\* addresses of every width.
THEOREM TypeCorrect == Spec => []TypeOK
<1>1. ASSUME IInv, Iteration
      PROVE  TypeOK
  <2>1. /\ family \in Families /\ Bits[family] \in Nat \ {0} /\ (text = NoText \/ text \in Text(family))
        /\ cidr \in [address : Word(family), mask : Word(family)]
        /\ checked \in BOOLEAN /\ pc \in {"start", "error", "block", "iterating", "panicked"}
    BY <1>1, Width DEF IInv, Shape, Iteration
  <2>2. cidr.mask \in {OnesAbove(family, k) : k \in 0 .. Bits[family]}
    <3>1. CASE pc = "error"
      <4>1. cidr.mask = {}
        BY <1>1, <3>1 DEF IInv, Parsed, default
      <4>2. OnesAbove(family, Bits[family]) = {}
        BY <2>1 DEF OnesAbove, Positions
      <4> QED
        BY <2>1, <4>1, <4>2
    <3>2. CASE pc # "error"
      BY <1>1, <3>2, HostIs DEF Prefix
    <3> QED
      BY <3>1, <3>2
  <2>3. PICK M \in Nat \ {0} : M = Pow2[Bits[family]]
    BY <2>1, Pow2Positive
  <2>4. /\ iterator.next \in SUBSET (0 .. M - 1) /\ iterator.end \in 0 .. M - 1
        /\ yielded \in Seq(0 .. M - 1)
        /\ iterator.next = {} \/ \E v : iterator.next = {v}
    <3>1. CASE pc = "iterating"
      <4>1. Running
        BY <1>1, <3>1 DEF Iteration
      <4>2. First \in Nat /\ Count \in Nat \ {0}
        BY <1>1, <3>1, Measures
      <4>3. Len(yielded) \in Nat /\ yielded \in Seq(0 .. M - 1)
        BY <2>3, <4>1 DEF Running
      <4>4. First + Len(yielded) \in Nat /\ First + Count - 1 \in Nat
        BY <4>2, <4>3
      <4>5. (First + Len(yielded)) % M \in 0 .. M - 1
        BY <4>4, Residue
      <4>6. (First + Count - 1) % M \in 0 .. M - 1
        BY <4>4, Residue
      <4>7. iterator.next = {} \/ iterator.next = {(First + Len(yielded)) % M}
        BY <2>3, <4>1 DEF Running
      <4>8. iterator.end = (First + Count - 1) % M
        BY <2>3, <4>1 DEF Running
      <4> QED
        BY <4>3, <4>5, <4>6, <4>7, <4>8
    <3>2. CASE pc # "iterating"
      <4>1. iterator = NoIterator /\ yielded = <<>>
        BY <1>1, <3>2 DEF Iteration
      <4> QED
        BY <2>3, <4>1 DEF NoIterator
    <3> QED
      BY <3>1, <3>2
  <2>5. Cardinality(iterator.next) <= 1
    <3>1. CASE iterator.next = {}
      <4>1. Cardinality(iterator.next) = 0
        BY <3>1, FS_EmptySet
      <4> QED
        BY <4>1
    <3>2. ASSUME NEW v, iterator.next = {v}
          PROVE  Cardinality(iterator.next) <= 1
      <4>1. Cardinality(iterator.next) = 1
        BY <3>2, FS_Singleton
      <4> QED
        BY <4>1
    <3> QED
      BY <2>4, <3>1, <3>2
  <2> QED
    BY <2>1, <2>2, <2>3, <2>4, <2>5 DEF TypeOK
<1> QED
  BY <1>1, IterationInvariant, PTL
=============================================================================
