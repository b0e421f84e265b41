------------------------ MODULE PacketBuffersProofs ------------------------
(***************************************************************************)
(* Who owns a buffer, for any number of threads, buffers, pools and rings  *)
(* and rings and batches of any size.                                      *)
(*                                                                         *)
(* Every step hands a set of buffers from the one who has them to one new  *)
(* owner each, or to nobody (Moved and Loses below); that no buffer has two *)
(* owners, and where buffers are lost, follow from that.                   *)
(***************************************************************************)
EXTENDS PacketBuffers, SequenceTheorems, FiniteSetTheorems, TLAPS

\* Buffer m is in place x of kind k.
Holds(k, x, m) ==
  \/ k = "pool" /\ x \in Pools /\ m \in free[x]
  \/ k = "thread" /\ x \in Threads /\ m \in held[x]
  \/ k = "sending" /\ x \in Threads /\ m \in Range(sending[x])
  \/ k = "ring" /\ x \in DOMAIN rings /\ m \in Range(rings[x])
  \/ k = "rx" /\ x = "card" /\ m \in rxq
  \/ k = "tx" /\ x = "card" /\ m \in txq

\* A buffer is in one place, ...
OnePlace == \A k, x, l, y, m : Holds(k, x, m) /\ Holds(l, y, m) => k = l /\ x = y

\* ... and there only once.
NoRepeats ==
  /\ \A t \in Threads : IsInjective(sending[t])
  /\ \A r \in DOMAIN rings : IsInjective(rings[r])

IInv == TypeOK /\ OnePlace /\ NoRepeats

\* A step that moves the buffers S, each to place to[m] of kind k, ...
Moved(S, kind, to) ==
  /\ \A m \in S : \E k, x : Holds(k, x, m)
  /\ \A k, x, m : Holds(k, x, m)' <=> \/ m \notin S /\ Holds(k, x, m)
                                      \/ m \in S /\ k = kind /\ x = to[m]

\* ... one that moves the buffers S to the card and forgets the others of L, ...
MovedLosing(S, L) ==
  /\ S \subseteq L
  /\ \A m \in L : \E k, x : Holds(k, x, m)
  /\ \A k, x, m : Holds(k, x, m)' <=> \/ m \notin L /\ Holds(k, x, m)
                                      \/ m \in S /\ k = "tx" /\ x = "card"

\* ... and one after which nobody has the buffers S.
Loses(S) == \A k, x, m : Holds(k, x, m)' <=> m \notin S /\ Holds(k, x, m)

-----------------------------------------------------------------------------
(* Sequences without repetitions.                                          *)

LEMMA BatchIsSeq ==
  ASSUME NEW S, NEW ptrs \in Batches(S)
  PROVE  /\ ptrs \in Seq(S) /\ IsInjective(ptrs) /\ Range(ptrs) \subseteq S
         /\ DOMAIN ptrs = 1..Len(ptrs) /\ Len(ptrs) \in Nat
<1>1. PICK n \in 0..MaxBatch : ptrs \in [1..n -> S] /\ IsInjective(ptrs)
  BY SMTT(30) DEF Batches
<1>2. n \in Nat
  BY BuffersAssumption
<1>3. ptrs \in Seq(S) /\ Len(ptrs) = n
  BY <1>1, <1>2
<1> QED
  BY <1>1, <1>2, <1>3 DEF Range

LEMMA AppendRange ==
  ASSUME NEW S, NEW s \in Seq(S), NEW e \in S
  PROVE  /\ Range(Append(s, e)) = Range(s) \cup {e}
         /\ IsInjective(s) /\ e \notin Range(s) => IsInjective(Append(s, e))
<1>1. /\ DOMAIN Append(s, e) = 1..(Len(s) + 1) /\ DOMAIN s = 1..Len(s) /\ Len(s) \in Nat
      /\ \A i \in 1..Len(s) : Append(s, e)[i] = s[i]
      /\ Append(s, e)[Len(s) + 1] = e
  OBVIOUS
<1>2. \A i \in 1..(Len(s) + 1) : i \in 1..Len(s) \/ i = Len(s) + 1
  BY <1>1
<1>3. Range(Append(s, e)) = Range(s) \cup {e}
  BY <1>1, <1>2 DEF Range
<1>4. ASSUME IsInjective(s), e \notin Range(s)
      PROVE  IsInjective(Append(s, e))
  BY <1>1, <1>2, <1>4 DEF IsInjective, Range
<1> QED
  BY <1>3, <1>4

LEMMA TailRange ==
  ASSUME NEW S, NEW s \in Seq(S), s # <<>>, IsInjective(s)
  PROVE  /\ Tail(s) \in Seq(S) /\ IsInjective(Tail(s))
         /\ Head(s) \in Range(s) /\ Range(Tail(s)) = Range(s) \ {Head(s)}
<1>1. /\ Tail(s) \in Seq(S) /\ Len(Tail(s)) = Len(s) - 1 /\ Len(s) \in Nat \ {0}
      /\ DOMAIN Tail(s) = 1..(Len(s) - 1) /\ DOMAIN s = 1..Len(s) /\ Head(s) = s[1]
      /\ \A i \in 1..(Len(s) - 1) : Tail(s)[i] = s[i + 1]
  OBVIOUS
<1>2. IsInjective(Tail(s))
  BY <1>1 DEF IsInjective
<1>3. Head(s) \in Range(s)
  BY <1>1 DEF Range
<1>4. ASSUME NEW x \in Range(Tail(s))
      PROVE  x \in Range(s) \ {Head(s)}
  <2>1. PICK i \in 1..(Len(s) - 1) : x = s[i + 1]
    BY <1>1 DEF Range
  <2> QED
    BY <1>1, <2>1 DEF Range, IsInjective
<1>5. ASSUME NEW x \in Range(s), x # Head(s)
      PROVE  x \in Range(Tail(s))
  <2>1. PICK i \in 1..Len(s) : x = s[i]
    BY <1>1 DEF Range
  <2>2. i - 1 \in 1..(Len(s) - 1) /\ Tail(s)[i - 1] = x
    <3>1. i - 1 \in 1..(Len(s) - 1)
      BY <1>1, <1>5, <2>1
    <3>2. Tail(s)[i - 1] = s[(i - 1) + 1]
      BY <1>1, <3>1
    <3> QED
      BY <2>1, <3>1, <3>2
  <2> QED
    BY <1>1, <2>2 DEF Range
<1> QED
  BY <1>1, <1>2, <1>3, <1>4, <1>5

LEMMA SplitRange ==
  ASSUME NEW S, NEW s \in Seq(S), IsInjective(s), NEW n \in 0..Len(s)
  PROVE  /\ SubSeq(s, n + 1, Len(s)) \in Seq(S) /\ IsInjective(SubSeq(s, n + 1, Len(s)))
         /\ Range(SubSeq(s, 1, n)) \subseteq Range(s)
         /\ Range(SubSeq(s, n + 1, Len(s))) = Range(s) \ Range(SubSeq(s, 1, n))
<1> DEFINE a == SubSeq(s, 1, n)
           r == SubSeq(s, n + 1, Len(s))
<1>0. n \in Nat /\ Len(s) \in Nat /\ n <= Len(s) /\ DOMAIN s = 1..Len(s) /\ \A i \in 1..Len(s) : s[i] \in S
  OBVIOUS
<1>1. a \in Seq(S) /\ Len(a) = n /\ DOMAIN a = 1..n /\ \A k \in 1..n : a[k] = s[k]
  <2>1. \A i \in 1..n : s[i] \in S
    BY <1>0
  <2> QED
    BY <2>1, <1>0, SubSeqProperties, Z3
<1>2. /\ r \in Seq(S) /\ DOMAIN r = 1..(Len(s) - n)
      /\ \A i \in 1..(Len(s) - n) : r[i] = s[n + i]
  <2>1. \A i \in (n + 1)..Len(s) : s[i] \in S
    BY <1>0
  <2>2. /\ r \in Seq(S)
        /\ Len(r) = IF n + 1 <= Len(s) THEN Len(s) - (n + 1) + 1 ELSE 0
        /\ \A i \in 1..(Len(s) - (n + 1) + 1) : r[i] = s[(n + 1) + i - 1]
    BY <1>0, <2>1, SubSeqProperties
  <2>3. \A i \in 1..(Len(s) - n) : r[i] = s[n + i]
    <3> TAKE i \in 1..(Len(s) - n)
    <3>1. i \in 1..(Len(s) - (n + 1) + 1) /\ (n + 1) + i - 1 = n + i
      BY <1>0
    <3> QED
      BY <2>2, <3>1
  <2>4. Len(r) = Len(s) - n
    <3> HIDE DEF r
    <3>1. CASE n + 1 <= Len(s)
      BY <1>0, <2>2, <3>1
    <3>2. CASE n = Len(s)
      BY <1>0, <2>2, <3>2
    <3>3. \A i, j \in Nat : i <= j => i + 1 <= j \/ i = j
      BY SMTT(30)
    <3>4. n + 1 <= Len(s) \/ n = Len(s)
      BY <1>0, <3>3
    <3> QED
      BY <3>1, <3>2, <3>4
  <2>5. DOMAIN r = 1..Len(r)
    <3> HIDE DEF r
    <3> QED
      BY <2>2
  <2> QED
    BY <2>2, <2>3, <2>4, <2>5
<1> HIDE DEF a, r
<1>3. IsInjective(r)
  <2> SUFFICES ASSUME NEW i \in 1..(Len(s) - n), NEW j \in 1..(Len(s) - n), r[i] = r[j]
               PROVE  i = j
    BY <1>2 DEF IsInjective
  <2>1. n + i \in DOMAIN s /\ n + j \in DOMAIN s
    BY <1>0
  <2>2. s[n + i] = s[n + j]
    BY <1>2
  <2>3. n + i = n + j
    BY <2>1, <2>2 DEF IsInjective
  <2> QED
    BY <1>0, <2>3
<1>4. Range(a) \subseteq Range(s)
  BY <1>0, <1>1 DEF Range
<1>5. ASSUME NEW x \in Range(r)
      PROVE  x \in Range(s) \ Range(a)
  <2>1. PICK i \in 1..(Len(s) - n) : x = s[n + i] /\ n + i \in 1..Len(s)
    <3>1. PICK i \in 1..(Len(s) - n) : x = r[i]
      BY <1>2 DEF Range
    <3>2. n + i \in 1..Len(s)
      BY <1>0
    <3> QED
      BY <1>2, <3>1, <3>2
  <2>2. \A k \in 1..n : s[k] # s[n + i]
    BY <1>0, <2>1 DEF IsInjective
  <2> QED
    BY <1>0, <1>1, <2>1, <2>2 DEF Range
<1>6. ASSUME NEW x \in Range(s), x \notin Range(a)
      PROVE  x \in Range(r)
  <2>1. PICK i \in 1..Len(s) : x = s[i]
    BY <1>0 DEF Range
  <2>2. i \notin 1..n
    BY <1>1, <1>6, <2>1 DEF Range
  <2>3. i - n \in 1..(Len(s) - n) /\ n + (i - n) = i
    BY <1>0, <2>1, <2>2
  <2>4. r[i - n] = x
    BY <1>2, <2>1, <2>3
  <2> QED
    BY <1>2, <2>3, <2>4 DEF Range
<1> QED
  BY <1>2, <1>3, <1>4, <1>5, <1>6 DEF a, r

-----------------------------------------------------------------------------
(* What each step does to the owners.                                      *)

\* Moving and losing buffers leaves each in one place.
LEMMA MovedOnePlace == ASSUME OnePlace, NEW S, NEW kind, NEW to, Moved(S, kind, to)
                       PROVE  OnePlace'
BY DEF OnePlace, Moved

LEMMA MovedLosingOnePlace == ASSUME OnePlace, NEW S, NEW L, MovedLosing(S, L)
                             PROVE  OnePlace'
BY DEF OnePlace, MovedLosing

LEMMA LosesOnePlace == ASSUME OnePlace, NEW S, Loses(S)
                       PROVE  OnePlace'
BY DEF OnePlace, Loses

\* The kinds of places, and what each of them says, before and after a step.
Kinds == {"pool", "thread", "sending", "ring", "rx", "tx"}

LEMMA HoldsIs ==
  /\ \A k, x, m : Holds(k, x, m) => k \in Kinds
  /\ \A x, m : Holds("pool", x, m) <=> x \in Pools /\ m \in free[x]
  /\ \A x, m : Holds("thread", x, m) <=> x \in Threads /\ m \in held[x]
  /\ \A x, m : Holds("sending", x, m) <=> x \in Threads /\ m \in Range(sending[x])
  /\ \A x, m : Holds("ring", x, m) <=> x \in DOMAIN rings /\ m \in Range(rings[x])
  /\ \A x, m : Holds("rx", x, m) <=> x = "card" /\ m \in rxq
  /\ \A x, m : Holds("tx", x, m) <=> x = "card" /\ m \in txq
BY DEF Holds, Kinds

LEMMA HoldsIsNext ==
  /\ \A k, x, m : Holds(k, x, m)' => k \in Kinds
  /\ \A x, m : Holds("pool", x, m)' <=> x \in Pools /\ m \in free'[x]
  /\ \A x, m : Holds("thread", x, m)' <=> x \in Threads /\ m \in held'[x]
  /\ \A x, m : Holds("sending", x, m)' <=> x \in Threads /\ m \in Range(sending'[x])
  /\ \A x, m : Holds("ring", x, m)' <=> x \in DOMAIN rings' /\ m \in Range(rings'[x])
  /\ \A x, m : Holds("rx", x, m)' <=> x = "card" /\ m \in rxq'
  /\ \A x, m : Holds("tx", x, m)' <=> x = "card" /\ m \in txq'
BY SMTT(30) DEF Holds, Kinds

LEMMA PoolsTyped ==
  (\A m \in Mbufs : Home[m] \in Pools) /\ (\A t \in Threads : Local[t] \in Pools)
BY BuffersAssumption

LEMMA CardReceiveMoves ==
  ASSUME IInv, NEW q \in Pools, NEW b \in Mbufs, CardReceive(q, b)
  PROVE  Moved({b}, "rx", [m \in {b} |-> "card"])
<1>1. /\ b \in free[q] /\ rxq' = rxq \cup {b} /\ UNCHANGED <<held, sending, rings, txq>>
      /\ \A z \in Pools : free'[z] = IF z = q THEN free[z] \ {b} ELSE free[z]
  BY DEF CardReceive, IInv, TypeOK
<1>2. Holds("pool", q, b)
  BY <1>1, HoldsIs
<1>3. \A l, y : Holds(l, y, b) => l = "pool" /\ y = q
  BY <1>2 DEF IInv, OnePlace
<1> SUFFICES ASSUME NEW k \in Kinds, NEW x, NEW m
             PROVE  Holds(k, x, m)' <=> \/ m \notin {b} /\ Holds(k, x, m)
                                        \/ m \in {b} /\ k = "rx" /\ x = "card"
  BY <1>2, HoldsIs, HoldsIsNext DEF Moved, Kinds
<1>4. CASE k = "pool"
  <2>1. \A z \in Pools : m \in free'[z] <=> m \in free[z] /\ (z = q => m \notin {b})
    BY <1>1
  <2> QED
    BY <1>1, <1>3, <1>4, <2>1, HoldsIs, HoldsIsNext
<1>5. CASE k = "rx"
  <2>1. m \in rxq' <=> m \in rxq \/ m \in {b}
    BY <1>1
  <2> QED
    BY <1>1, <1>3, <1>5, <2>1, HoldsIs, HoldsIsNext
<1>6. CASE k \in Kinds \ {"pool", "rx"}
  BY <1>1, <1>3, <1>6, HoldsIs, HoldsIsNext DEF Kinds
<1> QED
  BY <1>4, <1>5, <1>6 DEF Kinds

LEMMA CardSentMoves ==
  ASSUME IInv, NEW b \in Mbufs, CardSent(b)
  PROVE  Moved({b}, "pool", Home)
<1>1. /\ b \in txq /\ txq' = txq \ {b} /\ UNCHANGED <<held, sending, rings, rxq>>
      /\ Home[b] \in Pools
      /\ \A z \in Pools : free'[z] = IF z = Home[b] THEN free[z] \cup {b} ELSE free[z]
  BY PoolsTyped DEF CardSent, IInv, TypeOK
<1>2. Holds("tx", "card", b)
  BY <1>1, HoldsIs
<1>3. \A l, y : Holds(l, y, b) => l = "tx" /\ y = "card"
  BY <1>2 DEF IInv, OnePlace
<1> SUFFICES ASSUME NEW k \in Kinds, NEW x, NEW m
             PROVE  Holds(k, x, m)' <=> \/ m \notin {b} /\ Holds(k, x, m)
                                        \/ m \in {b} /\ k = "pool" /\ x = Home[m]
  BY <1>2, HoldsIs, HoldsIsNext DEF Moved, Kinds
<1>4. CASE k = "tx"
  <2>1. m \in txq' <=> m \in txq /\ m \notin {b}
    BY <1>1
  <2> QED
    BY <1>1, <1>3, <1>4, <2>1, HoldsIs, HoldsIsNext
<1>5. CASE k = "pool"
  <2>1. \A z \in Pools :
          m \in free'[z] <=> m \in free[z] \/ (m \in {b} /\ z = Home[m])
    BY <1>1
  <2> QED
    BY <1>1, <1>3, <1>5, <2>1, HoldsIs, HoldsIsNext
<1>6. CASE k \in Kinds \ {"tx", "pool"}
  BY <1>1, <1>3, <1>6, HoldsIs, HoldsIsNext DEF Kinds
<1> QED
  BY <1>4, <1>5, <1>6 DEF Kinds

LEMMA AllocMoves ==
  ASSUME IInv, NEW t \in Threads, NEW S \in SUBSET Mbufs, alloc_bulk(t, S)
  PROVE  Moved(S, "thread", [m \in S |-> t])
<1>1. /\ S \subseteq free[Local[t]] /\ Local[t] \in Pools /\ UNCHANGED <<sending, rings, rxq, txq>>
      /\ \A z \in Pools : free'[z] = IF z = Local[t] THEN free[z] \ S ELSE free[z]
      /\ \A z \in Threads : held'[z] = IF z = t THEN held[z] \cup S ELSE held[z]
  BY PoolsTyped DEF alloc_bulk, IInv, TypeOK
<1>2. \A m \in S : Holds("pool", Local[t], m)
  BY <1>1, HoldsIs
<1>3. \A m \in S : \A l, y : Holds(l, y, m) => l = "pool" /\ y = Local[t]
  BY <1>2 DEF IInv, OnePlace
<1> SUFFICES ASSUME NEW k \in Kinds, NEW x, NEW m
             PROVE  Holds(k, x, m)' <=> \/ m \notin S /\ Holds(k, x, m)
                                        \/ m \in S /\ k = "thread" /\ x = t
  BY <1>2, HoldsIs, HoldsIsNext DEF Moved, Kinds
<1>4. CASE k = "pool"
  <2>1. \A z \in Pools :
          m \in free'[z] <=> m \in free[z] /\ (z = Local[t] => m \notin S)
    BY <1>1
  <2> QED
    BY <1>1, <1>3, <1>4, <2>1, HoldsIs, HoldsIsNext
<1>5. CASE k = "thread"
  <2>1. \A z \in Threads : m \in held'[z] <=> m \in held[z] \/ (m \in S /\ z = t)
    BY <1>1
  <2> QED
    BY <1>1, <1>3, <1>5, <2>1, HoldsIs, HoldsIsNext
<1>6. CASE k \in Kinds \ {"pool", "thread"}
  BY <1>1, <1>3, <1>6, HoldsIs, HoldsIsNext DEF Kinds
<1> QED
  BY <1>4, <1>5, <1>6 DEF Kinds

LEMMA ReceiveMoves ==
  ASSUME IInv, NEW t \in Threads, NEW S \in SUBSET Mbufs, receive(t, S)
  PROVE  Moved(S, "thread", [m \in S |-> t])
<1>1. /\ S \subseteq rxq /\ rxq' = rxq \ S /\ UNCHANGED <<free, sending, rings, txq>>
      /\ \A z \in Threads : held'[z] = IF z = t THEN held[z] \cup S ELSE held[z]
  BY DEF receive, IInv, TypeOK
<1>2. \A m \in S : Holds("rx", "card", m)
  BY <1>1, HoldsIs
<1>3. \A m \in S : \A l, y : Holds(l, y, m) => l = "rx" /\ y = "card"
  BY <1>2 DEF IInv, OnePlace
<1> SUFFICES ASSUME NEW k \in Kinds, NEW x, NEW m
             PROVE  Holds(k, x, m)' <=> \/ m \notin S /\ Holds(k, x, m)
                                        \/ m \in S /\ k = "thread" /\ x = t
  BY <1>2, HoldsIs, HoldsIsNext DEF Moved, Kinds
<1>4. CASE k = "rx"
  <2>1. m \in rxq' <=> m \in rxq /\ m \notin S
    BY <1>1
  <2> QED
    BY <1>1, <1>3, <1>4, <2>1, HoldsIs, HoldsIsNext
<1>5. CASE k = "thread"
  <2>1. \A z \in Threads : m \in held'[z] <=> m \in held[z] \/ (m \in S /\ z = t)
    BY <1>1
  <2> QED
    BY <1>1, <1>3, <1>5, <2>1, HoldsIs, HoldsIsNext
<1>6. CASE k \in Kinds \ {"rx", "thread"}
  BY <1>1, <1>3, <1>6, HoldsIs, HoldsIsNext DEF Kinds
<1> QED
  BY <1>4, <1>5, <1>6 DEF Kinds

LEMMA DropMoves ==
  ASSUME IInv, NEW t \in Threads, NEW b \in Mbufs, drop(t, b)
  PROVE  Moved({b}, "pool", Home)
<1>1. /\ b \in held[t] /\ Home[b] \in Pools /\ UNCHANGED <<sending, rings, rxq, txq>>
      /\ \A z \in Threads : held'[z] = IF z = t THEN held[z] \ {b} ELSE held[z]
      /\ \A z \in Pools : free'[z] = IF z = Home[b] THEN free[z] \cup {b} ELSE free[z]
  BY PoolsTyped DEF drop, IInv, TypeOK
<1>2. Holds("thread", t, b)
  BY <1>1, HoldsIs
<1>3. \A l, y : Holds(l, y, b) => l = "thread" /\ y = t
  BY <1>2 DEF IInv, OnePlace
<1> SUFFICES ASSUME NEW k \in Kinds, NEW x, NEW m
             PROVE  Holds(k, x, m)' <=> \/ m \notin {b} /\ Holds(k, x, m)
                                        \/ m \in {b} /\ k = "pool" /\ x = Home[m]
  BY <1>2, HoldsIs, HoldsIsNext DEF Moved, Kinds
<1>4. CASE k = "thread"
  <2>1. \A z \in Threads : m \in held'[z] <=> m \in held[z] /\ (z = t => m \notin {b})
    BY <1>1
  <2> QED
    BY <1>1, <1>3, <1>4, <2>1, HoldsIs, HoldsIsNext
<1>5. CASE k = "pool"
  <2>1. \A z \in Pools :
          m \in free'[z] <=> m \in free[z] \/ (m \in {b} /\ z = Home[m])
    BY <1>1, ZenonT(30)
  <2> QED
    BY <1>1, <1>3, <1>5, <2>1, HoldsIs, HoldsIsNext
<1>6. CASE k \in Kinds \ {"thread", "pool"}
  BY <1>1, <1>3, <1>6, HoldsIs, HoldsIsNext DEF Kinds
<1> QED
  BY <1>4, <1>5, <1>6 DEF Kinds

\* A thread that panics gives its Mbufs back, each to the pool it was made for.
LEMMA PanicMoves ==
  ASSUME IInv, NEW t \in Threads, Panic(t), UNCHANGED <<sending, rings, rxq, txq>>
  PROVE  Moved(held[t], "pool", Home)
<1>1. /\ \A z \in Threads : held'[z] = IF z = t THEN {} ELSE held[z]
      /\ \A z \in Pools : free'[z] = free[z] \cup {m \in held[t] : Home[m] = z}
      /\ \A m \in held[t] : Home[m] \in Pools
  BY PoolsTyped DEF Panic, IInv, TypeOK
<1>2. \A m \in held[t] : Holds("thread", t, m)
  BY <1>1, HoldsIs
<1>3. \A m \in held[t] : \A l, y : Holds(l, y, m) => l = "thread" /\ y = t
  BY <1>2 DEF IInv, OnePlace
<1> SUFFICES ASSUME NEW k \in Kinds, NEW x, NEW m
             PROVE  Holds(k, x, m)' <=> \/ m \notin held[t] /\ Holds(k, x, m)
                                        \/ m \in held[t] /\ k = "pool" /\ x = Home[m]
  BY <1>2, HoldsIs, HoldsIsNext DEF Moved, Kinds
<1>4. CASE k = "thread"
  <2>1. \A z \in Threads :
          m \in held'[z] <=> m \in held[z] /\ (z = t => m \notin held[t])
    BY <1>1
  <2> QED
    BY <1>1, <1>3, <1>4, <2>1, HoldsIs, HoldsIsNext
<1>5. CASE k = "pool"
  <2>1. \A z \in Pools :
          m \in free'[z] <=> m \in free[z] \/ (m \in held[t] /\ z = Home[m])
    BY <1>1
  <2> QED
    BY <1>1, <1>3, <1>5, <2>1, HoldsIs, HoldsIsNext
<1>6. CASE k \in Kinds \ {"thread", "pool"}
  BY <1>1, <1>3, <1>6, HoldsIs, HoldsIsNext DEF Kinds
<1> QED
  BY <1>4, <1>5, <1>6 DEF Kinds

\* mbuf_free_bulk puts a whole batch into one pool.
LEMMA FreeBulkMoves ==
  ASSUME IInv, NEW t \in Threads, NEW ptrs \in Batches(held[t]), ptrs # <<>>,
         free_bulk(t, ptrs)
  PROVE  Moved(Range(ptrs), "pool", [m \in Range(ptrs) |-> Home[ptrs[1]]])
<1>1. /\ Range(ptrs) \subseteq held[t] /\ Home[ptrs[1]] \in Pools
      /\ UNCHANGED <<sending, rings, rxq, txq>>
      /\ \A z \in Threads : held'[z] = IF z = t THEN held[z] \ Range(ptrs) ELSE held[z]
      /\ \A z \in Pools :
           free'[z] = IF z = Home[ptrs[1]] THEN free[z] \cup Range(ptrs) ELSE free[z]
  <2>1. ptrs \in Seq(held[t]) /\ Range(ptrs) \subseteq held[t]
    BY BatchIsSeq
  <2>2. ptrs[1] \in held[t]
    BY <2>1
  <2>3. Home[ptrs[1]] \in Pools
    BY <2>2, PoolsTyped DEF IInv, TypeOK
  <2> QED
    BY <2>1, <2>3 DEF free_bulk, mbuf_free_bulk, IInv, TypeOK
<1>2. \A m \in Range(ptrs) : Holds("thread", t, m)
  BY <1>1, HoldsIs
<1>3. \A m \in Range(ptrs) : \A l, y : Holds(l, y, m) => l = "thread" /\ y = t
  BY <1>2 DEF IInv, OnePlace
<1> SUFFICES ASSUME NEW k \in Kinds, NEW x, NEW m
             PROVE  Holds(k, x, m)' <=> \/ m \notin Range(ptrs) /\ Holds(k, x, m)
                                        \/ m \in Range(ptrs) /\ k = "pool" /\ x = Home[ptrs[1]]
  BY <1>2, HoldsIs, HoldsIsNext DEF Moved, Kinds
<1>4. CASE k = "thread"
  <2>1. \A z \in Threads :
          m \in held'[z] <=> m \in held[z] /\ (z = t => m \notin Range(ptrs))
    BY <1>1
  <2> QED
    BY <1>1, <1>3, <1>4, <2>1, HoldsIs, HoldsIsNext
<1>5. CASE k = "pool"
  <2>1. \A z \in Pools :
          m \in free'[z] <=> m \in free[z] \/ (m \in Range(ptrs) /\ z = Home[ptrs[1]])
    BY <1>1
  <2> QED
    BY <1>1, <1>3, <1>5, <2>1, HoldsIs, HoldsIsNext
<1>6. CASE k \in Kinds \ {"thread", "pool"}
  BY <1>1, <1>3, <1>6, HoldsIs, HoldsIsNext DEF Kinds
<1> QED
  BY <1>4, <1>5, <1>6 DEF Kinds

LEMMA TransmitMoves ==
  ASSUME IInv, NEW t \in Threads, NEW ptrs \in Batches(held[t]), ptrs # <<>>,
         transmit(t, ptrs)
  PROVE  Moved(Range(ptrs), "sending", [m \in Range(ptrs) |-> t])
<1>1. /\ Range(ptrs) \subseteq held[t] /\ Range(sending[t]) = {}
      /\ UNCHANGED <<free, rings, rxq, txq>>
      /\ \A z \in Threads : held'[z] = IF z = t THEN held[z] \ Range(ptrs) ELSE held[z]
      /\ \A z \in Threads : sending'[z] = IF z = t THEN ptrs ELSE sending[z]
  <2>1. Range(ptrs) \subseteq held[t]
    BY BatchIsSeq
  <2>2. Range(sending[t]) = {}
    BY DEF transmit, Running, Range
  <2> QED
    BY <2>1, <2>2 DEF transmit, IInv, TypeOK
<1>2. \A m \in Range(ptrs) : Holds("thread", t, m)
  BY <1>1, HoldsIs
<1>3. \A m \in Range(ptrs) : \A l, y : Holds(l, y, m) => l = "thread" /\ y = t
  BY <1>2 DEF IInv, OnePlace
<1> SUFFICES ASSUME NEW k \in Kinds, NEW x, NEW m
             PROVE  Holds(k, x, m)' <=> \/ m \notin Range(ptrs) /\ Holds(k, x, m)
                                        \/ m \in Range(ptrs) /\ k = "sending" /\ x = t
  BY <1>2, HoldsIs, HoldsIsNext DEF Moved, Kinds
<1>4. CASE k = "thread"
  <2>1. \A z \in Threads :
          m \in held'[z] <=> m \in held[z] /\ (z = t => m \notin Range(ptrs))
    BY <1>1
  <2> QED
    BY <1>1, <1>3, <1>4, <2>1, HoldsIs, HoldsIsNext
<1>5. CASE k = "sending"
  <2>1. \A z \in Threads :
          m \in Range(sending'[z]) <=> m \in Range(sending[z]) \/ (m \in Range(ptrs) /\ z = t)
    BY <1>1
  <2> QED
    BY <1>1, <1>3, <1>5, <2>1, HoldsIs, HoldsIsNext
<1>6. CASE k \in Kinds \ {"thread", "sending"}
  BY <1>1, <1>3, <1>6, HoldsIs, HoldsIsNext DEF Kinds
<1> QED
  BY <1>4, <1>5, <1>6 DEF Kinds

\* The card takes no more packets than the batch has, and all of them only if
\* the length fits into a u16.
LEMMA SentBound ==
  ASSUME IInv, NEW t \in Threads, NEW sent, tx_burst(t, sent)
  PROVE  /\ sending[t] \in Seq(Mbufs) /\ IsInjective(sending[t])
         /\ Len(sending[t]) \in Nat /\ Len(sending[t]) % U16 \in Nat
         /\ sent \in 0..(Len(sending[t]) % U16) /\ sent \in 0..Len(sending[t])
         /\ Len(sending[t]) < U16 => Len(sending[t]) % U16 = Len(sending[t])
<1>1. sending[t] \in Seq(Mbufs) /\ IsInjective(sending[t])
  BY DEF IInv, TypeOK, NoRepeats
<1>2. PICK n \in Nat : n = Len(sending[t])
  BY <1>1
<1>3. U16 \in Nat /\ U16 > 0
  BY BuffersAssumption
<1>4. n % U16 \in Nat /\ n % U16 <= n /\ (n < U16 => n % U16 = n)
  BY <1>3
<1>5. sent \in 0..(n % U16)
  BY <1>2 DEF tx_burst, Accepted
<1>6. sent \in 0..n
  BY <1>4, <1>5
<1> QED
  BY <1>1, <1>2, <1>4, <1>5, <1>6

\* The card takes the first packets of a batch, and the rest is tried again.
LEMMA SentMoves ==
  ASSUME IInv, NEW t \in Threads, NEW sent, 0 < sent, sent < Len(sending[t]) % U16,
         tx_burst(t, sent)
  PROVE  Moved(Range(SubSeq(sending[t], 1, sent)), "tx", [m \in Range(SubSeq(sending[t], 1, sent)) |-> "card"])
<1>1. /\ Range(SubSeq(sending[t], 1, sent)) \subseteq Range(sending[t])
      /\ txq' = txq \cup Range(SubSeq(sending[t], 1, sent)) /\ UNCHANGED <<free, held, rings, rxq>>
      /\ \A z \in Threads :
           sending'[z] = IF z = t THEN SubSeq(sending[t], sent + 1, Len(sending[t]))
                                  ELSE sending[z]
      /\ Range(SubSeq(sending[t], sent + 1, Len(sending[t])))
           = Range(sending[t]) \ Range(SubSeq(sending[t], 1, sent))
  <2>1. sending[t] \in Seq(Mbufs) /\ IsInjective(sending[t]) /\ sent \in 0..Len(sending[t])
    BY SentBound
  <2>2. /\ Range(SubSeq(sending[t], 1, sent)) \subseteq Range(sending[t])
        /\ Range(SubSeq(sending[t], sent + 1, Len(sending[t])))
             = Range(sending[t]) \ Range(SubSeq(sending[t], 1, sent))
    BY <2>1, SplitRange
  <2>3. /\ txq' = txq \cup Range(SubSeq(sending[t], 1, sent)) /\ UNCHANGED <<free, held, rings, rxq>>
        /\ sending' = [sending EXCEPT ![t] = SubSeq(sending[t], sent + 1, Len(sending[t]))]
    <3>1. sent # 0 /\ sent # Len(sending[t]) % U16
      BY SentBound
    <3> QED
      BY <3>1 DEF tx_burst
  <2>4. \A z \in Threads :
           sending'[z] = IF z = t THEN SubSeq(sending[t], sent + 1, Len(sending[t]))
                                  ELSE sending[z]
    BY <2>3 DEF IInv, TypeOK
  <2> QED
    BY <2>2, <2>3, <2>4
<1>2. \A m \in Range(SubSeq(sending[t], 1, sent)) : Holds("sending", t, m)
  BY <1>1, HoldsIs
<1>3. \A m \in Range(SubSeq(sending[t], 1, sent)) : \A l, y : Holds(l, y, m) => l = "sending" /\ y = t
  BY <1>2 DEF IInv, OnePlace
<1> SUFFICES ASSUME NEW k \in Kinds, NEW x, NEW m
             PROVE  Holds(k, x, m)' <=> \/ m \notin Range(SubSeq(sending[t], 1, sent)) /\ Holds(k, x, m)
                                        \/ m \in Range(SubSeq(sending[t], 1, sent)) /\ k = "tx" /\ x = "card"
  BY <1>2, HoldsIs, HoldsIsNext DEF Moved, Kinds
<1>4. CASE k = "sending"
  <2>1. \A z \in Threads :
          m \in Range(sending'[z]) <=> m \in Range(sending[z]) /\ (z = t => m \notin Range(SubSeq(sending[t], 1, sent)))
    BY <1>1
  <2> QED
    BY <1>1, <1>3, <1>4, <2>1, HoldsIs, HoldsIsNext
<1>5. CASE k = "tx"
  <2>1. m \in txq' <=> m \in txq \/ m \in Range(SubSeq(sending[t], 1, sent))
    BY <1>1
  <2> QED
    BY <1>1, <1>3, <1>5, <2>1, HoldsIs, HoldsIsNext
<1>6. CASE k \in Kinds \ {"sending", "tx"}
  BY <1>1, <1>3, <1>6, HoldsIs, HoldsIsNext DEF Kinds
<1> QED
  BY <1>4, <1>5, <1>6 DEF Kinds

\* The card takes all it was offered: the call returns, and what is behind the
\* cut of the length has no owner.
LEMMA LastMoves ==
  ASSUME IInv, NEW t \in Threads, NEW sent, 0 < sent, sent = Len(sending[t]) % U16,
         tx_burst(t, sent)
  PROVE  MovedLosing(Range(SubSeq(sending[t], 1, sent)), Range(sending[t]))
<1> DEFINE S == Range(SubSeq(sending[t], 1, sent))
<1>1. /\ S \subseteq Range(sending[t]) /\ txq' = txq \cup S
      /\ UNCHANGED <<free, held, rings, rxq>>
      /\ \A z \in Threads : Range(sending'[z]) = IF z = t THEN {} ELSE Range(sending[z])
  <2>1. S \subseteq Range(sending[t])
    BY SentBound, SplitRange
  <2>2. /\ txq' = txq \cup S /\ UNCHANGED <<free, held, rings, rxq>>
        /\ sending' = [sending EXCEPT ![t] = <<>>]
    <3>1. sent # 0 /\ ~(sent < Len(sending[t]) % U16)
      BY SentBound
    <3> QED
      BY <3>1 DEF tx_burst
  <2>3. \A z \in Threads : sending'[z] = IF z = t THEN <<>> ELSE sending[z]
    BY <2>2 DEF IInv, TypeOK
  <2>4. \A z \in Threads : Range(sending'[z]) = IF z = t THEN {} ELSE Range(sending[z])
    BY <2>3 DEF Range
  <2> QED
    BY <2>1, <2>2, <2>4
<1> HIDE DEF S
<1>2. \A m \in Range(sending[t]) : Holds("sending", t, m)
  BY HoldsIs
<1>3. \A m \in Range(sending[t]) : \A l, y : Holds(l, y, m) => l = "sending" /\ y = t
  BY <1>2 DEF IInv, OnePlace
<1> SUFFICES ASSUME NEW k \in Kinds, NEW x, NEW m
             PROVE  Holds(k, x, m)' <=> \/ m \notin Range(sending[t]) /\ Holds(k, x, m)
                                        \/ m \in S /\ k = "tx" /\ x = "card"
  BY <1>1, <1>2, HoldsIs, HoldsIsNext DEF MovedLosing, Kinds, S
<1>4. CASE k = "sending"
  <2>1. \A z \in Threads :
          m \in Range(sending'[z]) <=> m \in Range(sending[z]) /\ (z = t => m \notin Range(sending[t]))
    BY <1>1
  <2> QED
    BY <1>1, <1>3, <1>4, <2>1, HoldsIs, HoldsIsNext
<1>5. CASE k = "tx"
  <2>1. m \in txq' <=> m \in txq \/ m \in S
    BY <1>1
  <2> QED
    BY <1>1, <1>3, <1>5, <2>1, HoldsIs, HoldsIsNext
<1>6. CASE k \in Kinds \ {"sending", "tx"}
  BY <1>1, <1>3, <1>6, HoldsIs, HoldsIsNext DEF Kinds
<1> QED
  BY <1>4, <1>5, <1>6 DEF Kinds

\* The card takes none: the rest of the batch is freed.
LEMMA UnsentMoves ==
  ASSUME IInv, NEW t \in Threads, tx_burst(t, 0)
  PROVE  Moved(Range(sending[t]), "pool", [m \in Range(sending[t]) |-> Home[sending[t][1]]])
<1>1. /\ Home[sending[t][1]] \in Pools /\ UNCHANGED <<held, rings, rxq, txq>>
      /\ \A z \in Threads : Range(sending'[z]) = IF z = t THEN {} ELSE Range(sending[z])
      /\ \A z \in Pools :
           free'[z] = IF z = Home[sending[t][1]] THEN free[z] \cup Range(sending[t]) ELSE free[z]
  <2>1. sending[t] \in Seq(Mbufs) /\ sending[t] # <<>>
    BY DEF tx_burst, IInv, TypeOK
  <2>2. sending[t][1] \in Mbufs
    BY <2>1
  <2>3. Home[sending[t][1]] \in Pools
    BY <2>2, PoolsTyped
  <2>4. Range(SubSeq(sending[t], 1, 0)) = {}
    BY SubSeqEmpty DEF Range
  <2>5. /\ txq' = txq \cup Range(SubSeq(sending[t], 1, 0)) /\ UNCHANGED <<held, rings, rxq>>
        /\ sending' = [sending EXCEPT ![t] = <<>>]
        /\ free' = [free EXCEPT ![Home[sending[t][1]]] = @ \cup Range(sending[t])]
    <3>1. ~(0 < 0)
      OBVIOUS
    <3> QED
      BY <3>1 DEF tx_burst, mbuf_free_bulk
  <2>6. \A z \in Threads : sending'[z] = IF z = t THEN <<>> ELSE sending[z]
    BY <2>5 DEF IInv, TypeOK
  <2>7. \A z \in Threads : Range(sending'[z]) = IF z = t THEN {} ELSE Range(sending[z])
    BY <2>6 DEF Range
  <2>8. \A z \in Pools :
           free'[z] = IF z = Home[sending[t][1]] THEN free[z] \cup Range(sending[t]) ELSE free[z]
    BY <2>3, <2>5 DEF IInv, TypeOK
  <2> QED
    BY <2>3, <2>4, <2>5, <2>7, <2>8
<1>2. \A m \in Range(sending[t]) : Holds("sending", t, m)
  BY <1>1, HoldsIs
<1>3. \A m \in Range(sending[t]) : \A l, y : Holds(l, y, m) => l = "sending" /\ y = t
  BY <1>2 DEF IInv, OnePlace
<1> SUFFICES ASSUME NEW k \in Kinds, NEW x, NEW m
             PROVE  Holds(k, x, m)' <=> \/ m \notin Range(sending[t]) /\ Holds(k, x, m)
                                        \/ m \in Range(sending[t]) /\ k = "pool" /\ x = Home[sending[t][1]]
  BY <1>2, HoldsIs, HoldsIsNext DEF Moved, Kinds
<1>4. CASE k = "sending"
  <2>1. \A z \in Threads :
          m \in Range(sending'[z]) <=> m \in Range(sending[z]) /\ (z = t => m \notin Range(sending[t]))
    BY <1>1
  <2> QED
    BY <1>1, <1>3, <1>4, <2>1, HoldsIs, HoldsIsNext
<1>5. CASE k = "pool"
  <2>1. \A z \in Pools :
          m \in free'[z] <=> m \in free[z] \/ (m \in Range(sending[t]) /\ z = Home[sending[t][1]])
    BY <1>1
  <2> QED
    BY <1>1, <1>3, <1>5, <2>1, HoldsIs, HoldsIsNext
<1>6. CASE k \in Kinds \ {"sending", "pool"}
  BY <1>1, <1>3, <1>6, HoldsIs, HoldsIsNext DEF Kinds
<1> QED
  BY <1>4, <1>5, <1>6 DEF Kinds

LEMMA EnqueueMoves ==
  ASSUME IInv, NEW t \in Threads, NEW r \in Rings, NEW b \in Mbufs, enqueue(t, r, b), HasRoom(r)
  PROVE  Moved({b}, "ring", [m \in {b} |-> r])
<1>1. /\ b \in held[t] /\ r \in DOMAIN rings /\ UNCHANGED <<free, sending, rxq, txq>>
      /\ \A z \in Threads : held'[z] = IF z = t THEN held[z] \ {b} ELSE held[z]
      /\ DOMAIN rings' = DOMAIN rings
      /\ \A z \in DOMAIN rings : Range(rings'[z]) = IF z = r THEN Range(rings[z]) \cup {b} ELSE Range(rings[z])
  <2>1. /\ b \in held[t] /\ r \in DOMAIN rings /\ UNCHANGED <<free, sending, rxq, txq>>
        /\ held' = [held EXCEPT ![t] = @ \ {b}]
        /\ rings' = [rings EXCEPT ![r] = Append(@, b)]
    BY DEF enqueue
  <2>2. Range(Append(rings[r], b)) = Range(rings[r]) \cup {b}
    BY <2>1, AppendRange DEF IInv, TypeOK
  <2>3. /\ DOMAIN rings' = DOMAIN rings
        /\ \A z \in DOMAIN rings : rings'[z] = IF z = r THEN Append(rings[r], b) ELSE rings[z]
    BY <2>1
  <2>4. \A z \in DOMAIN rings :
           Range(rings'[z]) = IF z = r THEN Range(rings[z]) \cup {b} ELSE Range(rings[z])
    BY <2>2, <2>3
  <2>5. \A z \in Threads : held'[z] = IF z = t THEN held[z] \ {b} ELSE held[z]
    BY <2>1 DEF IInv, TypeOK
  <2> QED
    BY <2>1, <2>3, <2>4, <2>5
<1>2. Holds("thread", t, b)
  BY <1>1, HoldsIs
<1>3. \A l, y : Holds(l, y, b) => l = "thread" /\ y = t
  BY <1>2 DEF IInv, OnePlace
<1> SUFFICES ASSUME NEW k \in Kinds, NEW x, NEW m
             PROVE  Holds(k, x, m)' <=> \/ m \notin {b} /\ Holds(k, x, m)
                                        \/ m \in {b} /\ k = "ring" /\ x = r
  BY <1>2, HoldsIs, HoldsIsNext DEF Moved, Kinds
<1>4. CASE k = "thread"
  <2>1. \A z \in Threads : m \in held'[z] <=> m \in held[z] /\ (z = t => m \notin {b})
    BY <1>1
  <2> QED
    BY <1>1, <1>3, <1>4, <2>1, HoldsIs, HoldsIsNext
<1>5. CASE k = "ring"
  <2>1. \A z \in DOMAIN rings :
          m \in Range(rings'[z]) <=> m \in Range(rings[z]) \/ (m \in {b} /\ z = r)
    BY <1>1
  <2> QED
    BY <1>1, <1>3, <1>5, <2>1, HoldsIs, HoldsIsNext
<1>6. CASE k \in Kinds \ {"thread", "ring"}
  BY <1>1, <1>3, <1>6, HoldsIs, HoldsIsNext DEF Kinds
<1> QED
  BY <1>4, <1>5, <1>6 DEF Kinds

LEMMA EnqueueLoses ==
  ASSUME IInv, NEW t \in Threads, NEW r \in Rings, NEW b \in Mbufs, enqueue(t, r, b), ~HasRoom(r)
  PROVE  Loses({b})
<1>1. /\ b \in held[t] /\ UNCHANGED <<free, sending, rings, rxq, txq>>
      /\ \A z \in Threads : held'[z] = IF z = t THEN held[z] \ {b} ELSE held[z]
  BY DEF enqueue, IInv, TypeOK
<1>2. Holds("thread", t, b)
  BY <1>1, HoldsIs
<1>3. \A l, y : Holds(l, y, b) => l = "thread" /\ y = t
  BY <1>2 DEF IInv, OnePlace
<1> SUFFICES ASSUME NEW k \in Kinds, NEW x, NEW m
             PROVE  Holds(k, x, m)' <=> m \notin {b} /\ Holds(k, x, m)
  BY HoldsIs, HoldsIsNext DEF Loses
<1>4. CASE k = "thread"
  <2>1. \A z \in Threads : m \in held'[z] <=> m \in held[z] /\ (z = t => m \notin {b})
    BY <1>1
  <2> QED
    BY <1>1, <1>3, <1>4, <2>1, HoldsIs, HoldsIsNext
<1>5. CASE k \in Kinds \ {"thread"}
  BY <1>1, <1>3, <1>5, HoldsIs, HoldsIsNext DEF Kinds
<1> QED
  BY <1>4, <1>5 DEF Kinds

LEMMA DequeueLoses ==
  ASSUME IInv, NEW t \in Threads, NEW r \in Rings, dequeue(t, r)
  PROVE  Loses({Head(rings[r])})
<1>1. /\ r \in DOMAIN rings /\ Head(rings[r]) \in Range(rings[r])
      /\ UNCHANGED <<free, held, sending, rxq, txq>> /\ DOMAIN rings' = DOMAIN rings
      /\ \A z \in DOMAIN rings :
           Range(rings'[z]) = IF z = r THEN Range(rings[z]) \ {Head(rings[r])} ELSE Range(rings[z])
  <2>1. /\ r \in DOMAIN rings /\ rings[r] # <<>> /\ rings' = [rings EXCEPT ![r] = Tail(@)]
        /\ UNCHANGED <<free, held, sending, rxq, txq>>
    BY DEF dequeue
  <2>2. Head(rings[r]) \in Range(rings[r]) /\ Range(Tail(rings[r])) = Range(rings[r]) \ {Head(rings[r])}
    BY <2>1, TailRange DEF IInv, TypeOK, NoRepeats
  <2>3. /\ DOMAIN rings' = DOMAIN rings
        /\ \A z \in DOMAIN rings : rings'[z] = IF z = r THEN Tail(rings[r]) ELSE rings[z]
    BY <2>1
  <2> QED
    BY <2>1, <2>2, <2>3
<1>2. Holds("ring", r, Head(rings[r]))
  BY <1>1, HoldsIs
<1>3. \A l, y : Holds(l, y, Head(rings[r])) => l = "ring" /\ y = r
  BY <1>2 DEF IInv, OnePlace
<1> SUFFICES ASSUME NEW k \in Kinds, NEW x, NEW m
             PROVE  Holds(k, x, m)' <=> m \notin {Head(rings[r])} /\ Holds(k, x, m)
  BY HoldsIs, HoldsIsNext DEF Loses
<1>4. CASE k = "ring"
  <2>1. \A z \in DOMAIN rings :
          m \in Range(rings'[z]) <=> m \in Range(rings[z]) /\ (z = r => m \notin {Head(rings[r])})
    BY <1>1
  <2> QED
    BY <1>1, <1>3, <1>4, <2>1, HoldsIs, HoldsIsNext
<1>5. CASE k \in Kinds \ {"ring"}
  BY <1>1, <1>3, <1>5, HoldsIs, HoldsIsNext, SMTT(30) DEF Kinds
<1> QED
  BY <1>4, <1>5 DEF Kinds

LEMMA DropRingLoses ==
  ASSUME IInv, NEW r \in Rings, dropRing(r)
  PROVE  Loses(Range(rings[r]))
<1>1. /\ r \in DOMAIN rings /\ UNCHANGED <<free, held, sending, rxq, txq>>
      /\ DOMAIN rings' = DOMAIN rings \ {r}
      /\ \A z \in DOMAIN rings' : rings'[z] = rings[z]
  BY DEF dropRing, Restrict
<1>2. \A m \in Range(rings[r]) : Holds("ring", r, m)
  BY <1>1, HoldsIs
<1>3. \A m \in Range(rings[r]) : \A l, y : Holds(l, y, m) => l = "ring" /\ y = r
  BY <1>2 DEF IInv, OnePlace
<1> SUFFICES ASSUME NEW k \in Kinds, NEW x, NEW m
             PROVE  Holds(k, x, m)' <=> m \notin Range(rings[r]) /\ Holds(k, x, m)
  BY HoldsIs, HoldsIsNext DEF Loses
<1>4. CASE k = "ring"
  <2>1. x \in DOMAIN rings' /\ m \in Range(rings'[x])
          <=> m \notin Range(rings[r]) /\ x \in DOMAIN rings /\ m \in Range(rings[x])
    BY <1>1, <1>3, HoldsIs
  <2> QED
    BY <1>1, <1>3, <1>4, <2>1, HoldsIs, HoldsIsNext
<1>5. CASE k \in Kinds \ {"ring"}
  BY <1>1, <1>3, <1>5, HoldsIs, HoldsIsNext DEF Kinds
<1> QED
  BY <1>4, <1>5 DEF Kinds

-----------------------------------------------------------------------------
(* The inductive invariant.                                                *)

LEMMA TypeStep == IInv /\ [Next]_vars => TypeOK'
<1> SUFFICES ASSUME IInv, [Next]_vars
             PROVE  TypeOK'
  OBVIOUS
<1>0. TypeOK /\ \A t \in Threads : held[t] \subseteq Mbufs
  BY DEF IInv, TypeOK
<1>1. ASSUME NEW q \in Pools, NEW b \in Mbufs, CardReceive(q, b)
      PROVE  TypeOK'
  BY <1>0, <1>1 DEF CardReceive, TypeOK
<1>2. ASSUME NEW b \in Mbufs, CardSent(b)
      PROVE  TypeOK'
  BY <1>0, <1>2, PoolsTyped DEF CardSent, TypeOK
<1>3. ASSUME NEW t \in Threads, NEW S \in SUBSET Mbufs, alloc_bulk(t, S)
      PROVE  TypeOK'
  BY <1>0, <1>3, PoolsTyped DEF alloc_bulk, TypeOK
<1>4. ASSUME NEW t \in Threads, NEW S \in SUBSET Mbufs, receive(t, S)
      PROVE  TypeOK'
  BY <1>0, <1>4 DEF receive, TypeOK
<1>5. ASSUME NEW t \in Threads, NEW b \in Mbufs, drop(t, b)
      PROVE  TypeOK'
  BY <1>0, <1>5, PoolsTyped DEF drop, TypeOK
<1>6. ASSUME NEW t \in Threads, Panic(t), UNCHANGED <<sending, rings, rxq, txq>>
      PROVE  TypeOK'
  <2>1. free' \in [Pools -> SUBSET Mbufs] /\ held' \in [Threads -> SUBSET Mbufs]
    BY <1>0, <1>6 DEF Panic, TypeOK
  <2> QED
    BY <1>0, <1>6, <2>1 DEF Panic, TypeOK
<1>7. ASSUME NEW t \in Threads, NEW ptrs \in Batches(held[t]), ptrs # <<>>, free_bulk(t, ptrs)
      PROVE  TypeOK'
  <2>1. Range(ptrs) \subseteq Mbufs
    BY <1>0, BatchIsSeq
  <2>2. free' \in [Pools -> SUBSET Mbufs] /\ held' \in [Threads -> SUBSET Mbufs]
    BY <1>0, <1>7, <2>1, ZenonT(30) DEF free_bulk, mbuf_free_bulk, TypeOK
  <2> QED
    BY <1>0, <1>7, <2>2 DEF free_bulk, TypeOK
<1>8. ASSUME NEW t \in Threads, NEW ptrs \in Batches(held[t]), ptrs # <<>>, transmit(t, ptrs)
      PROVE  TypeOK'
  <2>1. ptrs \in Seq(Mbufs)
    <3>1. ptrs \in Seq(held[t]) /\ held[t] \subseteq Mbufs
      BY <1>0, BatchIsSeq
    <3> QED
      BY <3>1
  <2>2. sending' \in [Threads -> Seq(Mbufs)] /\ held' \in [Threads -> SUBSET Mbufs]
    BY <1>0, <1>8, <2>1 DEF transmit, TypeOK
  <2> QED
    BY <1>0, <1>8, <2>2 DEF transmit, TypeOK
<1>9. ASSUME NEW t \in Threads, NEW sent, tx_burst(t, sent)
      PROVE  TypeOK'
  <2>1. /\ sending[t] \in Seq(Mbufs) /\ IsInjective(sending[t]) /\ sent \in 0..Len(sending[t])
        /\ Range(sending[t]) \subseteq Mbufs
    <3>1. sending[t] \in Seq(Mbufs) /\ IsInjective(sending[t]) /\ sent \in 0..Len(sending[t])
      BY <1>9, SentBound
    <3>2. Range(sending[t]) \subseteq Mbufs
      BY <3>1 DEF Range
    <3> QED
      BY <3>1, <3>2
  <2>2. /\ SubSeq(sending[t], sent + 1, Len(sending[t])) \in Seq(Mbufs)
        /\ Range(SubSeq(sending[t], 1, sent)) \subseteq Mbufs
    BY <2>1, SplitRange
  <2>3. sending' \in [Threads -> Seq(Mbufs)]
    <3>1. <<>> \in Seq(Mbufs) /\ sending \in [Threads -> Seq(Mbufs)]
      BY <1>0 DEF TypeOK
    <3>2. CASE sending' = [sending EXCEPT ![t] = SubSeq(sending[t], sent + 1, Len(sending[t]))]
      BY <2>2, <3>1, <3>2
    <3>3. CASE sending' = [sending EXCEPT ![t] = <<>>]
      BY <3>1, <3>3
    <3> QED
      BY <1>9, <3>2, <3>3 DEF tx_burst
  <2>4. free' \in [Pools -> SUBSET Mbufs]
    BY <1>0, <1>9, <2>1 DEF tx_burst, mbuf_free_bulk, TypeOK
  <2> QED
    BY <1>0, <1>9, <2>2, <2>3, <2>4 DEF tx_burst, TypeOK
<1>10. ASSUME NEW t \in Threads, NEW r \in Rings, NEW b \in Mbufs, enqueue(t, r, b)
       PROVE  TypeOK'
  <2>1. held' \in [Threads -> SUBSET Mbufs] /\ r \in DOMAIN rings
    BY <1>0, <1>10, SMTT(30) DEF enqueue, TypeOK
  <2>2. rings[r] \in Seq(Mbufs) /\ Slots \in Nat
    <3>1. Slots \in Nat
      BY BuffersAssumption
    <3> QED
      BY <1>0, <2>1, <3>1, SMTT(30) DEF TypeOK
  <2>3. CASE HasRoom(r)
    <3>1. rings' = [rings EXCEPT ![r] = Append(rings[r], b)]
      BY <1>10, <2>3 DEF enqueue
    <3>2. Append(rings[r], b) \in Seq(Mbufs) /\ Len(Append(rings[r], b)) < Slots
      BY <2>2, <2>3 DEF HasRoom
    <3>3. /\ DOMAIN rings' \subseteq Rings
          /\ \A z \in DOMAIN rings' : rings'[z] \in Seq(Mbufs) /\ Len(rings'[z]) < Slots
      BY <1>0, <3>1, <3>2 DEF TypeOK
    <3> QED
      BY <1>0, <1>10, <2>1, <3>3 DEF enqueue, TypeOK
  <2>4. CASE ~HasRoom(r)
    BY <1>0, <1>10, <2>1, <2>4 DEF enqueue, TypeOK
  <2> QED
    BY <2>3, <2>4
<1>11. ASSUME NEW t \in Threads, NEW r \in Rings, dequeue(t, r)
       PROVE  TypeOK'
  <2>1. /\ r \in DOMAIN rings /\ rings[r] # <<>> /\ rings' = [rings EXCEPT ![r] = Tail(rings[r])]
        /\ UNCHANGED <<free, held, sending, rxq, txq, panicked>>
    BY <1>11 DEF dequeue
  <2>2. rings[r] \in Seq(Mbufs) /\ Len(rings[r]) < Slots /\ Slots \in Nat
    <3>1. Slots \in Nat
      BY BuffersAssumption
    <3>2. \A z \in DOMAIN rings : rings[z] \in Seq(Mbufs) /\ Len(rings[z]) < Slots
      BY <1>0 DEF TypeOK
    <3> QED
      BY <2>1, <3>1, <3>2, SMTT(30)
  <2>3. Tail(rings[r]) \in Seq(Mbufs) /\ Len(Tail(rings[r])) < Slots
    BY <2>1, <2>2
  <2>4. /\ DOMAIN rings' \subseteq Rings
        /\ \A z \in DOMAIN rings' : rings'[z] \in Seq(Mbufs) /\ Len(rings'[z]) < Slots
    BY <1>0, <2>1, <2>3 DEF TypeOK
  <2> QED
    BY <1>0, <2>1, <2>4 DEF TypeOK
<1>12. ASSUME NEW r \in Rings, dropRing(r)
       PROVE  TypeOK'
  BY <1>0, <1>12 DEF dropRing, Restrict, TypeOK
<1>13. CASE UNCHANGED vars
  BY <1>0, <1>13 DEF vars, TypeOK
<1>14. ASSUME NEW t \in Threads, NEW ptrs \in Batches(held[t]),
              free_bulk(t, ptrs) \/ transmit(t, ptrs), ptrs = <<>>
       PROVE  Panic(t) /\ UNCHANGED <<sending, rings, rxq, txq>>
  BY <1>14 DEF free_bulk, transmit
<1> QED
  BY <1>1, <1>2, <1>3, <1>4, <1>5, <1>6, <1>7, <1>8, <1>9, <1>10, <1>11, <1>12, <1>13, <1>14
     DEF Next, ThreadStep, TransmitStep

LEMMA NoRepeatsStep == IInv /\ [Next]_vars => NoRepeats'
<1> SUFFICES ASSUME IInv, [Next]_vars
             PROVE  NoRepeats'
  OBVIOUS
<1>0. NoRepeats /\ TypeOK
  BY DEF IInv
<1>1. ASSUME UNCHANGED <<sending, rings>>
      PROVE  NoRepeats'
  BY <1>0, <1>1 DEF NoRepeats
<1>2. ASSUME NEW t \in Threads, NEW s, IsInjective(s), sending' = [sending EXCEPT ![t] = s],
             rings' = rings
      PROVE  NoRepeats'
  <2>1. \A z \in Threads : sending'[z] = IF z = t THEN s ELSE sending[z]
    BY <1>0, <1>2 DEF TypeOK
  <2>2. \A z \in Threads : IsInjective(sending'[z])
    BY <1>0, <1>2, <2>1 DEF NoRepeats
  <2> QED
    BY <1>0, <1>2, <2>2 DEF NoRepeats
<1>3. ASSUME NEW r \in DOMAIN rings, NEW s, IsInjective(s), rings' = [rings EXCEPT ![r] = s],
             sending' = sending
      PROVE  NoRepeats'
  <2>1. /\ DOMAIN rings' = DOMAIN rings
        /\ \A z \in DOMAIN rings : rings'[z] = IF z = r THEN s ELSE rings[z]
    BY <1>3
  <2>2. \A z \in DOMAIN rings' : IsInjective(rings'[z])
    BY <1>0, <1>3, <2>1 DEF NoRepeats
  <2> QED
    BY <1>0, <1>3, <2>2 DEF NoRepeats
<1>4. IsInjective(<<>>)
  BY DEF IsInjective
<1>5. ASSUME NEW t \in Threads, NEW ptrs \in Batches(held[t]), transmit(t, ptrs)
      PROVE  NoRepeats'
  <2>1. IsInjective(ptrs)
    BY BatchIsSeq
  <2> QED
    BY <1>1, <1>2, <1>5, <2>1 DEF transmit
<1>6. ASSUME NEW t \in Threads, NEW sent, tx_burst(t, sent)
      PROVE  NoRepeats'
  <2>1. sending[t] \in Seq(Mbufs) /\ IsInjective(sending[t]) /\ sent \in 0..Len(sending[t])
    BY <1>6, SentBound
  <2>2. IsInjective(SubSeq(sending[t], sent + 1, Len(sending[t])))
    BY <2>1, SplitRange
  <2>3. \/ sending' = [sending EXCEPT ![t] = SubSeq(sending[t], sent + 1, Len(sending[t]))]
        \/ sending' = [sending EXCEPT ![t] = <<>>]
    BY <1>6 DEF tx_burst
  <2>4. rings' = rings
    BY <1>6 DEF tx_burst
  <2> QED
    BY <1>2, <1>4, <2>2, <2>3, <2>4
<1>7. ASSUME NEW t \in Threads, NEW r \in Rings, NEW b \in Mbufs, enqueue(t, r, b)
      PROVE  NoRepeats'
  <2>1. r \in DOMAIN rings /\ b \in held[t] /\ sending' = sending
    BY <1>7 DEF enqueue
  <2>2. b \notin Range(rings[r])
    <3>1. Holds("thread", t, b)
      BY <2>1, HoldsIs
    <3>2. ~Holds("ring", r, b)
      BY <3>1 DEF IInv, OnePlace
    <3> QED
      BY <2>1, <3>2, HoldsIs
  <2>3. IsInjective(Append(rings[r], b))
    <3>1. rings[r] \in Seq(Mbufs) /\ IsInjective(rings[r])
      BY <1>0, <2>1 DEF TypeOK, NoRepeats
    <3> QED
      BY <2>2, <3>1, AppendRange
  <2>4. rings' = rings \/ rings' = [rings EXCEPT ![r] = Append(rings[r], b)]
    BY <1>7 DEF enqueue
  <2> QED
    BY <1>1, <1>3, <2>1, <2>3, <2>4
<1>8. ASSUME NEW t \in Threads, NEW r \in Rings, dequeue(t, r)
      PROVE  NoRepeats'
  <2>1. /\ r \in DOMAIN rings /\ rings[r] # <<>> /\ rings' = [rings EXCEPT ![r] = Tail(rings[r])]
        /\ sending' = sending
    BY <1>8 DEF dequeue
  <2>2. rings[r] \in Seq(Mbufs) /\ IsInjective(rings[r])
    BY <1>0, <2>1 DEF TypeOK, NoRepeats
  <2>3. IsInjective(Tail(rings[r]))
    BY <2>1, <2>2, TailRange
  <2> QED
    BY <1>3, <2>1, <2>3
<1>9. ASSUME NEW r \in Rings, dropRing(r)
      PROVE  NoRepeats'
  BY <1>0, <1>9 DEF dropRing, Restrict, NoRepeats
<1>10. ASSUME NEW t \in Threads, NEW S \in SUBSET Mbufs, alloc_bulk(t, S) \/ receive(t, S)
       PROVE  NoRepeats'
  BY <1>1, <1>10 DEF alloc_bulk, receive
<1>11. ASSUME NEW t \in Threads, NEW b \in Mbufs, drop(t, b)
       PROVE  NoRepeats'
  BY <1>1, <1>11 DEF drop
<1>12. ASSUME NEW t \in Threads, NEW ptrs \in Batches(held[t]), free_bulk(t, ptrs)
       PROVE  NoRepeats'
  BY <1>1, <1>12 DEF free_bulk
<1>13. ASSUME NEW b \in Mbufs, CardSent(b) \/ \E q \in Pools : CardReceive(q, b)
       PROVE  NoRepeats'
  BY <1>1, <1>13 DEF CardSent, CardReceive
<1>14. CASE UNCHANGED vars
  BY <1>1, <1>14 DEF vars
<1> QED
  BY <1>5, <1>6, <1>7, <1>8, <1>9, <1>10, <1>11, <1>12, <1>13, <1>14
     DEF Next, ThreadStep, TransmitStep

\* A step moves buffers and loses none, or it is one of the four that lose some.
LEMMA StepMoves ==
  ASSUME IInv, [Next]_vars
  PROVE  \/ \E S, kind, to : Moved(S, kind, to)
         \/ \E t \in Threads :
              /\ sending'[t] = <<>> /\ Len(sending[t]) >= U16
              /\ \E S : S \subseteq txq' /\ MovedLosing(S, Range(sending[t]))
         \/ \E t \in Threads, r \in Rings, b \in Mbufs :
              enqueue(t, r, b) /\ ~HasRoom(r) /\ Loses({b})
         \/ \E t \in Threads, r \in Rings : dequeue(t, r) /\ Loses({Head(rings[r])})
         \/ \E r \in Rings : dropRing(r) /\ Loses(Range(rings[r]))
<1>1. ASSUME NEW q \in Pools, NEW b \in Mbufs, CardReceive(q, b)
      PROVE  \E S, kind, to : Moved(S, kind, to)
  BY <1>1, CardReceiveMoves
<1>2. ASSUME NEW b \in Mbufs, CardSent(b)
      PROVE  \E S, kind, to : Moved(S, kind, to)
  BY <1>2, CardSentMoves
<1>3. ASSUME NEW t \in Threads, NEW S \in SUBSET Mbufs, alloc_bulk(t, S)
      PROVE  \E Q, kind, to : Moved(Q, kind, to)
  BY <1>3, AllocMoves
<1>4. ASSUME NEW t \in Threads, NEW S \in SUBSET Mbufs, receive(t, S)
      PROVE  \E Q, kind, to : Moved(Q, kind, to)
  BY <1>4, ReceiveMoves
<1>5. ASSUME NEW t \in Threads, NEW b \in Mbufs, drop(t, b)
      PROVE  \E S, kind, to : Moved(S, kind, to)
  BY <1>5, DropMoves
<1>6. ASSUME NEW t \in Threads, NEW ptrs \in Batches(held[t]), free_bulk(t, ptrs)
      PROVE  \E S, kind, to : Moved(S, kind, to)
  <2>1. CASE ptrs = <<>>
    <3>1. Panic(t) /\ UNCHANGED <<sending, rings, rxq, txq>>
      BY <1>6, <2>1 DEF free_bulk
    <3> QED
      BY <3>1, PanicMoves
  <2>2. CASE ptrs # <<>>
    BY <1>6, <2>2, FreeBulkMoves
  <2> QED
    BY <2>1, <2>2
<1>7. ASSUME NEW t \in Threads, NEW ptrs \in Batches(held[t]), transmit(t, ptrs)
      PROVE  \E S, kind, to : Moved(S, kind, to)
  <2>1. CASE ptrs = <<>>
    <3>1. Panic(t) /\ UNCHANGED <<sending, rings, rxq, txq>>
      BY <1>7, <2>1 DEF transmit
    <3> QED
      BY <3>1, PanicMoves
  <2>2. CASE ptrs # <<>>
    BY <1>7, <2>2, TransmitMoves
  <2> QED
    BY <2>1, <2>2
<1>8. ASSUME NEW t \in Threads, NEW sent, tx_burst(t, sent)
      PROVE  \/ \E S, kind, to : Moved(S, kind, to)
             \/ /\ sending'[t] = <<>> /\ Len(sending[t]) >= U16
                /\ \E S : S \subseteq txq' /\ MovedLosing(S, Range(sending[t]))
  <2>0. /\ sending[t] \in Seq(Mbufs) /\ IsInjective(sending[t]) /\ Len(sending[t]) \in Nat
        /\ sent \in 0..(Len(sending[t]) % U16) /\ Len(sending[t]) % U16 \in Nat
        /\ Len(sending[t]) < U16 => Len(sending[t]) % U16 = Len(sending[t])
    BY <1>8, SentBound, Zenon
  <2>1. CASE 0 < sent /\ sent < Len(sending[t]) % U16
    BY <1>8, <2>1, SentMoves
  <2>2. CASE sent = 0
    BY <1>8, <2>2, UnsentMoves
  <2>3. CASE 0 < sent /\ sent = Len(sending[t]) % U16
    <3> DEFINE S == Range(SubSeq(sending[t], 1, sent))
    <3>1. MovedLosing(S, Range(sending[t])) /\ S \subseteq txq' /\ sending'[t] = <<>>
      <4>1. MovedLosing(S, Range(sending[t]))
        BY <1>8, <2>3, LastMoves
      <4>2. txq' = txq \cup S /\ sending' = [sending EXCEPT ![t] = <<>>]
        <5>1. sent # 0 /\ ~(sent < Len(sending[t]) % U16)
          BY <2>0, <2>3
        <5> QED
          BY <1>8, <5>1 DEF tx_burst
      <4> QED
        BY <4>1, <4>2 DEF IInv, TypeOK
    <3>2. CASE Len(sending[t]) < U16
      <4>1. S = Range(sending[t])
        <5>1. sent = Len(sending[t])
          BY <2>0, <2>3, <3>2
        <5>2. SubSeq(sending[t], 1, sent) = sending[t]
          BY <2>0, <5>1
        <5> QED
          BY <5>2
      <4>2. MovedLosing(S, S)
        BY <3>1, <4>1
      <4> HIDE DEF S
      <4>3. Moved(S, "tx", [m \in S |-> "card"])
        BY <4>2 DEF MovedLosing, Moved
      <4> QED
        BY <4>3
    <3>3. CASE ~(Len(sending[t]) < U16)
      <4>1. Len(sending[t]) >= U16
        BY <2>0, <3>3, BuffersAssumption
      <4> QED
        BY <3>1, <4>1
    <3> QED
      BY <3>2, <3>3
  <2> QED
    BY <2>0, <2>1, <2>2, <2>3
<1>9. ASSUME NEW t \in Threads, NEW r \in Rings, NEW b \in Mbufs, enqueue(t, r, b), HasRoom(r)
      PROVE  \E S, kind, to : Moved(S, kind, to)
  BY <1>9, EnqueueMoves
<1>10. CASE UNCHANGED vars
  <2>1. Moved({}, "pool", Home)
    BY <1>10 DEF vars, Moved, Holds
  <2> QED
    BY <2>1
<1> QED
  BY <1>1, <1>2, <1>3, <1>4, <1>5, <1>6, <1>7, <1>8, <1>9, <1>10, EnqueueLoses, DequeueLoses,
     DropRingLoses DEF Next, ThreadStep, TransmitStep

\* The inductive invariant holds throughout.
LEMMA Invariant == Spec => []IInv
<1>1. Init => IInv
  <2> SUFFICES ASSUME Init
               PROVE  IInv
    OBVIOUS
  <2>1. TypeOK
    <3>1. Slots \in Nat /\ 0 < Slots
      BY BuffersAssumption
    <3>2. /\ DOMAIN rings \subseteq Rings
          /\ \A r \in DOMAIN rings : rings[r] \in Seq(Mbufs) /\ Len(rings[r]) < Slots
      BY <3>1 DEF Init
    <3>3. free \in [Pools -> SUBSET Mbufs]
      BY DEF Init
    <3> QED
      BY <3>2, <3>3, SMTT(30) DEF Init, TypeOK
  <2>2. NoRepeats
    BY DEF Init, NoRepeats, IsInjective
  <2>3. \A k, x, m : Holds(k, x, m) => k = "pool" /\ x \in Pools /\ m \in Mbufs /\ x = Home[m]
    <3>1. \A t \in Threads : Range(sending[t]) = {}
      BY DEF Init, Range
    <3>2. \A r \in DOMAIN rings : Range(rings[r]) = {}
      BY DEF Init, Range
    <3> QED
      BY <3>1, <3>2 DEF Init, Holds
  <2>4. OnePlace
    BY <2>3 DEF OnePlace
  <2> QED
    BY <2>1, <2>2, <2>4 DEF IInv
<1>2. IInv /\ [Next]_vars => IInv'
  <2> SUFFICES ASSUME IInv, [Next]_vars
               PROVE  IInv'
    OBVIOUS
  <2>1. OnePlace'
    <3>1. OnePlace
      BY DEF IInv
    <3>2. ASSUME NEW S, NEW kind, NEW to, Moved(S, kind, to)
          PROVE  OnePlace'
      BY <3>1, <3>2, MovedOnePlace
    <3>3. ASSUME NEW S, Loses(S)
          PROVE  OnePlace'
      BY <3>1, <3>3, LosesOnePlace
    <3>4. ASSUME NEW S, NEW L, MovedLosing(S, L)
          PROVE  OnePlace'
      BY <3>1, <3>4, MovedLosingOnePlace
    <3> QED
      BY <3>2, <3>3, <3>4, StepMoves
  <2> QED
    BY <2>1, TypeStep, NoRepeatsStep DEF IInv
<1> QED
  BY <1>1, <1>2, PTL DEF Spec

\* Every variable keeps its shape, and no ring uses the slot that stays empty.
THEOREM TypeCorrect == Spec => []TypeOK
BY Invariant, PTL DEF IInv

-----------------------------------------------------------------------------
(* The owners.                                                             *)

LEMMA OwnersAre ==
  ASSUME NEW m
  PROVE  \A o : o \in Owners(m) <=>
           \/ \E q \in Pools : o = <<"pool", q>> /\ m \in free[q]
           \/ \E t \in Threads : o = <<"thread", t>> /\ m \in held[t]
           \/ \E t \in Threads : \E i \in DOMAIN sending[t] :
                 o = <<"sending", t, i>> /\ sending[t][i] = m
           \/ \E r \in DOMAIN rings : \E i \in DOMAIN rings[r] :
                 o = <<"ring", r, i>> /\ rings[r][i] = m
           \/ o = <<"card", "rx">> /\ m \in rxq
           \/ o = <<"card", "tx">> /\ m \in txq
<1> DEFINE P == {<<"pool", q>> : q \in {q \in Pools : m \in free[q]}}
           T == {<<"thread", t>> : t \in {t \in Threads : m \in held[t]}}
           S == UNION {{<<"sending", t, i>> : i \in {i \in DOMAIN sending[t] : sending[t][i] = m}}
                         : t \in Threads}
           R == UNION {{<<"ring", r, i>> : i \in {i \in DOMAIN rings[r] : rings[r][i] = m}}
                         : r \in DOMAIN rings}
           C == (IF m \in rxq THEN {<<"card", "rx">>} ELSE {})
           D == (IF m \in txq THEN {<<"card", "tx">>} ELSE {})
<1>1. \A o : o \in P <=> \E q \in Pools : o = <<"pool", q>> /\ m \in free[q]
  OBVIOUS
<1>2. \A o : o \in T <=> \E t \in Threads : o = <<"thread", t>> /\ m \in held[t]
  OBVIOUS
<1>3. \A o : o \in S <=> \E t \in Threads : \E i \in DOMAIN sending[t] :
                            o = <<"sending", t, i>> /\ sending[t][i] = m
  OBVIOUS
<1>4. \A o : o \in R <=> \E r \in DOMAIN rings : \E i \in DOMAIN rings[r] :
                            o = <<"ring", r, i>> /\ rings[r][i] = m
  OBVIOUS
<1>5. \A o : o \in C <=> o = <<"card", "rx">> /\ m \in rxq
  OBVIOUS
<1>6. \A o : o \in D <=> o = <<"card", "tx">> /\ m \in txq
  OBVIOUS
<1>7. Owners(m) = P \cup T \cup S \cup R \cup C \cup D
  BY DEF Owners
<1> HIDE DEF P, T, S, R, C, D
<1> QED
  BY <1>1, <1>2, <1>3, <1>4, <1>5, <1>6, <1>7

\* Two owners of a buffer are the same.
LEMMA OneOwner ==
  ASSUME IInv, NEW m, NEW o \in Owners(m), NEW p \in Owners(m)
  PROVE  o = p
<1> DEFINE Owner(u, k, x) ==
             /\ Holds(k, x, m)
             /\ \/ k \in {"pool", "thread"} /\ u = <<k, x>>
                \/ k = "sending" /\ \E i \in DOMAIN sending[x] : u = <<k, x, i>> /\ sending[x][i] = m
                \/ k = "ring" /\ \E i \in DOMAIN rings[x] : u = <<k, x, i>> /\ rings[x][i] = m
                \/ k \in {"rx", "tx"} /\ u = <<"card", k>>
<1>1. ASSUME NEW u \in Owners(m)
      PROVE  \E k, x : Owner(u, k, x)
  <2>1. CASE \E q \in Pools : u = <<"pool", q>> /\ m \in free[q]
    BY <2>1, HoldsIs
  <2>2. CASE \E t \in Threads : u = <<"thread", t>> /\ m \in held[t]
    BY <2>2, HoldsIs
  <2>3. CASE \E t \in Threads : \E i \in DOMAIN sending[t] :
               u = <<"sending", t, i>> /\ sending[t][i] = m
    <3>1. PICK t \in Threads : \E i \in DOMAIN sending[t] :
                 u = <<"sending", t, i>> /\ sending[t][i] = m
      BY <2>3
    <3>2. m \in Range(sending[t])
      BY <3>1 DEF Range
    <3>3. Owner(u, "sending", t)
      BY <3>1, <3>2, HoldsIs
    <3> QED
      BY <3>3
  <2>4. CASE \E r \in DOMAIN rings : \E i \in DOMAIN rings[r] :
               u = <<"ring", r, i>> /\ rings[r][i] = m
    <3>1. PICK r \in DOMAIN rings : \E i \in DOMAIN rings[r] :
                 u = <<"ring", r, i>> /\ rings[r][i] = m
      BY <2>4
    <3>2. m \in Range(rings[r])
      BY <3>1 DEF Range
    <3>3. Owner(u, "ring", r)
      BY <3>1, <3>2, HoldsIs
    <3> QED
      BY <3>3
  <2>5. CASE u = <<"card", "rx">> /\ m \in rxq
    BY <2>5, HoldsIs
  <2>6. CASE u = <<"card", "tx">> /\ m \in txq
    BY <2>6, HoldsIs
  <2> QED
    BY <1>1, <2>1, <2>2, <2>3, <2>4, <2>5, <2>6, OwnersAre
<1>2. PICK k, x, l, y : Owner(o, k, x) /\ Owner(p, l, y)
  BY <1>1
<1>3. Owner(o, k, x) /\ Owner(p, k, x)
  BY <1>2 DEF IInv, OnePlace
<1>4. /\ k = "sending" => x \in Threads /\ IsInjective(sending[x])
      /\ k = "ring" => x \in DOMAIN rings /\ IsInjective(rings[x])
  BY <1>3, HoldsIs DEF IInv, NoRepeats
<1> QED
  BY <1>3, <1>4 DEF IsInjective

\* No buffer ever has two owners, for any number of threads and rings: none is
\* freed twice, and none is handed out while the card or a ring still has it.
THEOREM AlwaysUniqueOwner == Spec => []UniqueOwner
<1>1. ASSUME IInv, NEW m
      PROVE  Cardinality(Owners(m)) <= 1
  <2>1. CASE Owners(m) = {}
    <3>1. Cardinality({}) = 0
      BY FS_EmptySet
    <3> QED
      BY <2>1, <3>1
  <2>2. CASE Owners(m) # {}
    <3>1. PICK o \in Owners(m) : Owners(m) = {o}
      BY <1>1, <2>2, OneOwner
    <3>2. Cardinality({o}) = 1
      BY FS_Singleton
    <3> QED
      BY <3>1, <3>2
  <2> QED
    BY <2>1, <2>2
<1>2. IInv => UniqueOwner
  BY <1>1 DEF UniqueOwner
<1> QED
  BY <1>2, Invariant, PTL

-----------------------------------------------------------------------------
(* The lost buffers.                                                       *)

\* The lost buffers are those that are nowhere.
LEMMA LostIs == Lost = {m \in Mbufs : \A k, x : ~Holds(k, x, m)}
<1> SUFFICES ASSUME NEW m
             PROVE  Owners(m) = {} <=> \A k, x : ~Holds(k, x, m)
  BY DEF Lost
<1>1. ASSUME NEW o \in Owners(m)
      PROVE  \E k, x : Holds(k, x, m)
  <2>1. CASE \E q \in Pools : m \in free[q]
    BY <2>1, HoldsIs
  <2>2. CASE \E t \in Threads : m \in held[t]
    BY <2>2, HoldsIs
  <2>3. CASE \E t \in Threads : \E i \in DOMAIN sending[t] : sending[t][i] = m
    <3>1. PICK t \in Threads : m \in Range(sending[t])
      BY <2>3 DEF Range
    <3> QED
      BY <3>1, HoldsIs
  <2>4. CASE \E r \in DOMAIN rings : \E i \in DOMAIN rings[r] : rings[r][i] = m
    <3>1. PICK r \in DOMAIN rings : m \in Range(rings[r])
      BY <2>4 DEF Range
    <3> QED
      BY <3>1, HoldsIs
  <2>5. CASE m \in rxq \/ m \in txq
    BY <2>5, HoldsIs
  <2> QED
    BY <1>1, <2>1, <2>2, <2>3, <2>4, <2>5, OwnersAre
<1>2. ASSUME NEW k, NEW x, Holds(k, x, m)
      PROVE  \E o : o \in Owners(m)
  <2>1. CASE \E q \in Pools : m \in free[q]
    BY <2>1, OwnersAre
  <2>2. CASE \E t \in Threads : m \in held[t]
    BY <2>2, OwnersAre
  <2>3. CASE \E t \in Threads : m \in Range(sending[t])
    <3>1. PICK t \in Threads : \E i \in DOMAIN sending[t] : sending[t][i] = m
      BY <2>3 DEF Range
    <3> QED
      BY <3>1, OwnersAre
  <2>4. CASE \E r \in DOMAIN rings : m \in Range(rings[r])
    <3>1. PICK r \in DOMAIN rings : \E i \in DOMAIN rings[r] : rings[r][i] = m
      BY <2>4 DEF Range
    <3> QED
      BY <3>1, OwnersAre
  <2>5. CASE m \in rxq \/ m \in txq
    BY <2>5, OwnersAre
  <2> QED
    BY <1>2, <2>1, <2>2, <2>3, <2>4, <2>5 DEF Holds
<1> QED
  BY <1>1, <1>2

LEMMA LostIsNext == Lost' = {m \in Mbufs : \A k, x : ~Holds(k, x, m)'}
<1>1. (Lost = {m \in Mbufs : \A k, x : ~Holds(k, x, m)})'
  BY LostIs, PTL
<1> QED
  BY <1>1

LEMMA MovedKeepsLost ==
  ASSUME NEW S, NEW kind, NEW to, Moved(S, kind, to)
  PROVE  Lost' = Lost
BY LostIs, LostIsNext DEF Moved

LEMMA LosesIsLost ==
  ASSUME NEW S \in SUBSET Mbufs, Loses(S)
  PROVE  Lost' = Lost \cup S
BY LostIs, LostIsNext DEF Loses

LEMMA MovedLosingIsLost ==
  ASSUME NEW S, NEW L \in SUBSET Mbufs, MovedLosing(S, L)
  PROVE  Lost' = Lost \cup (L \ S)
BY LostIs, LostIsNext DEF MovedLosing

\* Buffers are lost only where a full ring refuses one, where one is taken off
\* a ring, where a ring is freed and where transmit is given more packets than
\* a u16 counts; receive, transmit of any shorter batch and the pools lose none,
\* and a lost buffer is never found again.
THEOREM AlwaysLossesKnown == Spec => LossesKnown
<1>1. ASSUME IInv, [Next]_vars
      PROVE  \/ Lost' = Lost
             \/ \E r \in DOMAIN rings, m \in Mbufs :
                  /\ Lost' = Lost \cup {m}
                  /\ \/ rings' = rings /\ ~HasRoom(r) /\ \E t \in Threads : m \in held[t]
                     \/ r \in DOMAIN rings' /\ rings[r] = <<m>> \o rings'[r]
             \/ \E r \in DOMAIN rings \ DOMAIN rings' : Lost' = Lost \cup Range(rings[r])
             \/ \E t \in Threads : /\ Len(sending[t]) >= U16
                                   /\ sending'[t] = <<>>
                                   /\ Lost' = Lost \cup (Range(sending[t]) \ txq')
  <2>1. ASSUME NEW S, NEW kind, NEW to, Moved(S, kind, to)
        PROVE  Lost' = Lost
    BY <2>1, MovedKeepsLost
  <2>2. ASSUME NEW t \in Threads, NEW r \in Rings, NEW b \in Mbufs,
               enqueue(t, r, b), ~HasRoom(r), Loses({b})
        PROVE  /\ r \in DOMAIN rings /\ Lost' = Lost \cup {b}
               /\ rings' = rings /\ ~HasRoom(r) /\ b \in held[t]
    <3>1. r \in DOMAIN rings /\ rings' = rings /\ b \in held[t]
      BY <2>2 DEF enqueue
    <3>2. Lost' = Lost \cup {b}
      BY <2>2, LosesIsLost
    <3> QED
      BY <2>2, <3>1, <3>2
  <2>3. ASSUME NEW t \in Threads, NEW r \in Rings, dequeue(t, r), Loses({Head(rings[r])})
        PROVE  \E m \in Mbufs : /\ r \in DOMAIN rings /\ Lost' = Lost \cup {m}
                                /\ r \in DOMAIN rings' /\ rings[r] = <<m>> \o rings'[r]
    <3>1. /\ r \in DOMAIN rings /\ rings[r] \in Seq(Mbufs) /\ rings[r] # <<>>
          /\ rings' = [rings EXCEPT ![r] = Tail(@)]
      BY <1>1, <2>3 DEF dequeue, IInv, TypeOK
    <3>2. Head(rings[r]) \in Mbufs /\ rings[r] = <<Head(rings[r])>> \o Tail(rings[r])
      BY <3>1, HeadTailProperties
    <3>3. Lost' = Lost \cup {Head(rings[r])}
      BY <2>3, <3>2, LosesIsLost
    <3>4. r \in DOMAIN rings' /\ rings'[r] = Tail(rings[r])
      BY <3>1
    <3> QED
      BY <3>1, <3>2, <3>3, <3>4
  <2>4. ASSUME NEW r \in Rings, dropRing(r), Loses(Range(rings[r]))
        PROVE  r \in DOMAIN rings \ DOMAIN rings' /\ Lost' = Lost \cup Range(rings[r])
    <3>1. r \in DOMAIN rings /\ r \notin DOMAIN rings'
      BY <2>4 DEF dropRing, Restrict
    <3>2. Range(rings[r]) \subseteq Mbufs
      BY <1>1, <3>1 DEF IInv, TypeOK, Range
    <3> QED
      BY <2>4, <3>1, <3>2, LosesIsLost
  <2>5. ASSUME NEW t \in Threads, NEW S, S \subseteq txq', MovedLosing(S, Range(sending[t]))
        PROVE  Lost' = Lost \cup (Range(sending[t]) \ txq')
    <3>1. Range(sending[t]) \subseteq Mbufs
      BY <1>1 DEF IInv, TypeOK, Range
    <3>2. Lost' = Lost \cup (Range(sending[t]) \ S)
      BY <2>5, <3>1, MovedLosingIsLost
    <3>3. ASSUME NEW m \in Range(sending[t]), m \in txq', m \notin S
          PROVE  FALSE
      <4>1. Holds("tx", "card", m)'
        BY <3>3, HoldsIsNext
      <4> QED
        BY <2>5, <3>3, <4>1 DEF MovedLosing
    <3> QED
      BY <2>5, <3>2, <3>3
  <2> QED
    BY <1>1, <2>1, <2>2, <2>3, <2>4, <2>5, StepMoves
<1> QED
  BY <1>1, Invariant, PTL DEF Spec, LossesKnown
=============================================================================
