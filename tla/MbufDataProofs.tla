--------------------------- MODULE MbufDataProofs ---------------------------
(***************************************************************************)
(* The memory safety of the data operations of an Mbuf, and that they are  *)
(* the operations of ByteBuffer on the packet's bytes, for buffers,        *)
(* headrooms and arguments of every size.                                  *)
(***************************************************************************)
EXTENDS MbufData, SequenceTheorems, TLAPS

\* The packet lies inside the buffer and its two lengths agree.
InBuffer == DataOff + data_len <= BufLen /\ pkt_len = data_len

\* The bounds are numbers, and the headroom is inside the buffer.
LEMMA Bounds == /\ BufLen \in Nat /\ DataOff \in Nat /\ DataOff <= BufLen
                /\ MaxArg \in Nat
BY DataAssumption

\* A copy whose source lies inside the buffer yields a memory, wherever it goes.
LEMMA CopiedTyped ==
  ASSUME mem \in [Addresses -> Bytes],
         NEW src \in Nat, NEW dst \in Int, NEW n \in Int, src + n <= BufLen
  PROVE  Copied(src, dst, n) \in [Addresses -> Bytes]
<1> SUFFICES ASSUME NEW i \in Addresses
             PROVE  (IF i \in dst..(dst + n - 1) THEN mem[src + (i - dst)] ELSE mem[i])
                      \in Bytes
  BY DEF Copied
<1>1. CASE i \in dst..(dst + n - 1)
  <2>1. src + (i - dst) \in Addresses
    BY <1>1, Bounds DEF Addresses
  <2> QED
    BY <1>1, <2>1
<1>2. CASE i \notin dst..(dst + n - 1)
  BY <1>2
<1> QED
  BY <1>1, <1>2

\* A copy changes only the bytes of its destination.
LEMMA CopiedElsewhere ==
  ASSUME NEW src, NEW dst, NEW n, NEW i \in Addresses, i \notin dst..(dst + n - 1)
  PROVE  Copied(src, dst, n)[i] = mem[i]
BY DEF Copied

\* Bytes written inside the buffer yield a memory.
LEMMA WrittenTyped ==
  ASSUME mem \in [Addresses -> Bytes],
         NEW dst \in Nat, NEW count \in Nat, NEW slice \in [1..count -> Bytes]
  PROVE  [i \in Addresses |->
            IF i \in dst..(dst + count - 1) THEN slice[i - dst + 1] ELSE mem[i]]
           \in [Addresses -> Bytes]
<1> SUFFICES ASSUME NEW i \in Addresses
             PROVE  (IF i \in dst..(dst + count - 1) THEN slice[i - dst + 1] ELSE mem[i])
                      \in Bytes
  OBVIOUS
<1>1. CASE i \in dst..(dst + count - 1)
  <2>1. i - dst + 1 \in 1..count
    BY <1>1
  <2> QED
    BY <1>1, <2>1
<1>2. CASE i \notin dst..(dst + count - 1)
  BY <1>2
<1> QED
  BY <1>1, <1>2

\* Every call keeps the packet inside the buffer.
LEMMA DataStep == TypeOK /\ InBuffer /\ [Next]_vars => TypeOK' /\ InBuffer'
<1> SUFFICES ASSUME TypeOK, InBuffer, [Next]_vars
             PROVE  TypeOK' /\ InBuffer'
  OBVIOUS
<1>a. /\ BufLen \in Nat /\ DataOff \in Nat /\ data_len \in Nat
      /\ DataOff + data_len <= BufLen /\ pkt_len = data_len
  BY Bounds DEF TypeOK, InBuffer
<1>b. mem \in [Addresses -> Bytes]
  BY DEF TypeOK
<1>1. CASE new
  BY <1>1, <1>a, <1>b DEF new, TypeOK, InBuffer
<1>2. ASSUME NEW offset \in Args, NEW len \in Args, extend(offset, len)
      PROVE  TypeOK' /\ InBuffer'
  <2>1. offset \in Nat /\ len \in Nat
    BY DEF Args
  <2>2. /\ len > 0 /\ offset <= data_len /\ len < BufLen - DataOff - data_len
        /\ data_len' = data_len + len /\ pkt_len' = pkt_len + len
    BY <1>2 DEF extend, tailroom
  <2>3. /\ data_address(offset) \in Nat /\ data_address(offset + len) \in Int
        /\ data_len - offset \in Int
        /\ data_address(offset) + (data_len - offset) <= BufLen
    BY <1>a, <2>1, <2>2 DEF data_address
  <2>4. mem' \in [Addresses -> Bytes]
    <3>1. Copied(data_address(offset), data_address(offset + len), data_len - offset)
            \in [Addresses -> Bytes]
      BY <1>b, <2>3, CopiedTyped
    <3> QED
      BY <1>2, <3>1 DEF extend
  <2>5. data_len' \in 0..BufLen /\ pkt_len' = data_len' /\ DataOff + data_len' <= BufLen
    BY <1>a, <2>1, <2>2
  <2> QED
    BY <2>4, <2>5 DEF TypeOK, InBuffer
<1>3. ASSUME NEW offset \in Args, NEW len \in Args, shrink(offset, len)
      PROVE  TypeOK' /\ InBuffer'
  <2>1. offset \in Nat /\ len \in Nat
    BY DEF Args
  <2>2. /\ len > 0 /\ offset + len <= data_len
        /\ data_len' = data_len - len /\ pkt_len' = pkt_len - len
    BY <1>3 DEF shrink
  <2>3. /\ data_address(offset + len) \in Nat /\ data_address(offset) \in Int
        /\ data_len - offset - len \in Int
        /\ data_address(offset + len) + (data_len - offset - len) <= BufLen
    BY <1>a, <2>1, <2>2 DEF data_address
  <2>4. mem' \in [Addresses -> Bytes]
    <3>1. Copied(data_address(offset + len), data_address(offset), data_len - offset - len)
            \in [Addresses -> Bytes]
      BY <1>b, <2>3, CopiedTyped
    <3> QED
      BY <1>3, <3>1 DEF shrink
  <2>5. data_len' \in 0..BufLen /\ pkt_len' = data_len' /\ DataOff + data_len' <= BufLen
    BY <1>a, <2>1, <2>2
  <2> QED
    BY <2>4, <2>5 DEF TypeOK, InBuffer
<1>4. ASSUME NEW to_len \in Args, truncate(to_len)
      PROVE  TypeOK' /\ InBuffer'
  BY <1>a, <1>b, <1>4 DEF truncate, Args, TypeOK, InBuffer
<1>5. ASSUME NEW offset \in Args, NEW count \in Args, NEW slice \in [1..count -> Bytes],
             write_data_slice(offset, count, slice)
      PROVE  TypeOK' /\ InBuffer'
  <2>1. data_address(offset) \in Nat /\ count \in Nat
    BY <1>a DEF Args, data_address
  <2>2. [i \in Addresses |->
           IF i \in data_address(offset)..(data_address(offset) + count - 1)
           THEN slice[i - data_address(offset) + 1]
           ELSE mem[i]] \in [Addresses -> Bytes]
    BY <1>b, <2>1, WrittenTyped
  <2>3. mem' \in [Addresses -> Bytes] /\ UNCHANGED <<data_len, pkt_len>>
    BY <1>5, <2>2 DEF write_data_slice
  <2> QED
    BY <2>3 DEF TypeOK, InBuffer
<1>6. CASE UNCHANGED vars
  BY <1>6 DEF vars, TypeOK, InBuffer
<1> QED
  BY <1>1, <1>2, <1>3, <1>4, <1>5, <1>6 DEF Next

\* The invariant of all reachable states.
THEOREM DataInvariance == Spec => [](TypeOK /\ InBuffer)
<1>1. Init => TypeOK /\ InBuffer
  BY Bounds DEF Init, TypeOK, InBuffer
<1> QED
  BY <1>1, DataStep, PTL DEF Spec

\* The lengths stay within the buffer, and the memory keeps its shape: no copy
\* reads behind its end.
THEOREM TypeCorrect == Spec => []TypeOK
BY DataInvariance, PTL

\* Whatever is called, the packet and every pointer handed out stay inside the
\* buffer.
THEOREM FitsBufferTheorem == Spec => []FitsBuffer
<1>1. TypeOK /\ InBuffer => FitsBuffer
  BY Bounds DEF TypeOK, InBuffer, FitsBuffer, CanRead, data_address, Args
<1> QED
  BY <1>1, DataInvariance, PTL

\* No call writes outside the old and the new packet.
THEOREM OutsideIntactTheorem == Spec => OutsideIntact
<1>1. TypeOK /\ InBuffer /\ [Next]_vars
        => [\A i \in Addresses \ (DataArea(data_len) \cup DataArea(data_len')) :
              mem'[i] = mem[i]]_vars
  <2> SUFFICES ASSUME TypeOK, InBuffer, Next,
                      NEW i \in Addresses,
                      i \notin DataArea(data_len), i \notin DataArea(data_len')
               PROVE  mem'[i] = mem[i]
    OBVIOUS
  <2>0. /\ i \in Int /\ data_len \in Int /\ DataOff \in Int
        /\ i < DataOff \/ i >= DataOff + data_len
    BY Bounds DEF Addresses, TypeOK, DataArea
  <2>1. CASE new
    BY <2>1 DEF new
  <2>2. ASSUME NEW offset \in Args, NEW len \in Args, extend(offset, len)
        PROVE  mem'[i] = mem[i]
    <3>1. offset \in Nat /\ len \in Nat /\ data_len' = data_len + len
      BY <2>2 DEF Args, extend
    <3>2. i < DataOff \/ i >= DataOff + data_len + len
      BY <2>0, <3>1 DEF DataArea
    <3>3. i \notin data_address(offset + len)..(data_address(offset + len)
                                                  + (data_len - offset) - 1)
      BY <2>0, <3>1, <3>2 DEF data_address
    <3> QED
      BY <2>2, <3>3, CopiedElsewhere DEF extend
  <2>3. ASSUME NEW offset \in Args, NEW len \in Args, shrink(offset, len)
        PROVE  mem'[i] = mem[i]
    <3>1. offset \in Nat /\ len \in Nat
      BY DEF Args
    <3>2. i \notin data_address(offset)..(data_address(offset)
                                            + (data_len - offset - len) - 1)
      BY <2>0, <3>1 DEF data_address
    <3> QED
      BY <2>3, <3>2, CopiedElsewhere DEF shrink
  <2>4. ASSUME NEW to_len \in Args, truncate(to_len)
        PROVE  mem'[i] = mem[i]
    BY <2>4 DEF truncate
  <2>5. ASSUME NEW offset \in Args, NEW count \in Args, NEW slice \in [1..count -> Bytes],
               write_data_slice(offset, count, slice)
        PROVE  mem'[i] = mem[i]
    <3>1. offset \in Nat /\ count \in Nat /\ offset + count <= data_len
      BY <2>5 DEF Args, write_data_slice
    <3>2. i \notin data_address(offset)..(data_address(offset) + count - 1)
      BY <2>0, <3>1 DEF data_address
    <3> QED
      BY <2>5, <3>2 DEF write_data_slice
  <2> QED
    BY <2>1, <2>2, <2>3, <2>4, <2>5 DEF Next
<1> QED
  BY <1>1, DataInvariance, PTL DEF Spec, OutsideIntact

-----------------------------------------------------------------------------
(* Sequences put together from parts of others.                            *)

\* The first n elements of s, and the others.
LEMMA PartsOf ==
  ASSUME NEW S, NEW s \in Seq(S), NEW n \in 0..Len(s)
  PROVE  /\ SubSeq(s, 1, n) \in Seq(S) /\ Len(SubSeq(s, 1, n)) = n
         /\ \A i \in 1..n : SubSeq(s, 1, n)[i] = s[i]
         /\ SubSeq(s, n + 1, Len(s)) \in Seq(S) /\ Len(SubSeq(s, n + 1, Len(s))) = Len(s) - n
         /\ \A i \in 1..(Len(s) - n) : SubSeq(s, n + 1, Len(s))[i] = s[n + i]
<1> DEFINE r == SubSeq(s, n + 1, Len(s))
<1>0. n \in Nat /\ Len(s) \in Nat /\ n <= Len(s) /\ \A i \in 1..Len(s) : s[i] \in S
  OBVIOUS
<1>1. /\ SubSeq(s, 1, n) \in Seq(S) /\ Len(SubSeq(s, 1, n)) = n
      /\ \A i \in 1..n : SubSeq(s, 1, n)[i] = s[i]
  <2>1. \A i \in 1..n : s[i] \in S
    BY <1>0
  <2> QED
    BY <2>1, <1>0, SubSeqProperties, Z3
<1>2. /\ r \in Seq(S)
      /\ Len(r) = IF n + 1 <= Len(s) THEN Len(s) - (n + 1) + 1 ELSE 0
      /\ \A i \in 1..(Len(s) - (n + 1) + 1) : r[i] = s[(n + 1) + i - 1]
  <2>1. \A i \in (n + 1)..Len(s) : s[i] \in S
    BY <1>0
  <2> QED
    BY <1>0, <2>1, SubSeqProperties
<1>3. \A i \in 1..(Len(s) - n) : r[i] = s[n + i]
  <2> TAKE i \in 1..(Len(s) - n)
  <2>1. i \in 1..(Len(s) - (n + 1) + 1) /\ (n + 1) + i - 1 = n + i
    BY <1>0
  <2> QED
    BY <1>2, <2>1
<1>4. Len(r) = Len(s) - n
  <2> HIDE DEF r
  <2>1. CASE n + 1 <= Len(s)
    BY <1>0, <1>2, <2>1
  <2>2. CASE n = Len(s)
    BY <1>0, <1>2, <2>2
  <2> QED
    BY <1>0, <2>1, <2>2
<1> QED
  BY <1>1, <1>2, <1>3, <1>4

\* d is a followed by b.
LEMMA JoinIs ==
  ASSUME NEW S, NEW d \in Seq(S), NEW a \in Seq(S), NEW b \in Seq(S),
         Len(d) = Len(a) + Len(b),
         \A i \in 1..Len(a) : d[i] = a[i],
         \A i \in 1..Len(b) : d[Len(a) + i] = b[i]
  PROVE  d = a \o b
<1> DEFINE c == a \o b
<1>1. /\ c \in Seq(S) /\ Len(c) = Len(a) + Len(b) /\ Len(a) \in Nat /\ Len(b) \in Nat
      /\ \A i \in 1..(Len(a) + Len(b)) : c[i] = IF i <= Len(a) THEN a[i] ELSE b[i - Len(a)]
  OBVIOUS
<1> HIDE DEF c
<1>2. ASSUME NEW i \in 1..Len(d)
      PROVE  d[i] = c[i]
  <2>1. CASE i <= Len(a)
    BY <1>1, <2>1
  <2>2. CASE ~(i <= Len(a))
    <3>1. i - Len(a) \in 1..Len(b) /\ Len(a) + (i - Len(a)) = i
      BY <1>1, <2>2
    <3>2. d[Len(a) + (i - Len(a))] = b[i - Len(a)]
      BY <3>1
    <3> QED
      BY <1>1, <2>2, <3>1, <3>2
  <2> QED
    BY <2>1, <2>2
<1>3. d = c
  BY <1>1, <1>2, SeqEqual
<1> QED
  BY <1>3 DEF c

\* t is s without its elements from n + 1 to k.
LEMMA CutIs ==
  ASSUME NEW S, NEW s \in Seq(S), NEW t \in Seq(S),
         NEW n \in 0..Len(s), NEW k \in 0..Len(s), Len(t) = n + (Len(s) - k),
         \A i \in 1..n : t[i] = s[i],
         \A i \in 1..(Len(s) - k) : t[n + i] = s[k + i]
  PROVE  t = SubSeq(s, 1, n) \o SubSeq(s, k + 1, Len(s))
<1> DEFINE a == SubSeq(s, 1, n)
           r == SubSeq(s, k + 1, Len(s))
<1>1. a \in Seq(S) /\ Len(a) = n /\ \A i \in 1..n : a[i] = s[i]
  BY PartsOf
<1>2. r \in Seq(S) /\ Len(r) = Len(s) - k /\ \A i \in 1..(Len(s) - k) : r[i] = s[k + i]
  BY PartsOf
<1> HIDE DEF a, r
<1>3. t = a \o r
  <2>1. Len(t) = Len(a) + Len(r)
    BY <1>1, <1>2
  <2>2. \A i \in 1..Len(a) : t[i] = a[i]
    BY <1>1
  <2>3. \A i \in 1..Len(r) : t[Len(a) + i] = r[i]
    BY <1>1, <1>2
  <2> QED
    BY <1>1, <1>2, <2>1, <2>2, <2>3, JoinIs
<1> QED
  BY <1>3 DEF a, r

\* t is s with g in place of its elements from n + 1 to k, element by element.
Spliced(s, t, g, n, k) ==
  /\ Len(t) = n + Len(g) + (Len(s) - k)
  /\ \A i \in 1..n : t[i] = s[i]
  /\ \A i \in 1..Len(g) : t[n + i] = g[i]
  /\ \A i \in 1..(Len(s) - k) : t[n + Len(g) + i] = s[k + i]

LEMMA SpliceIs ==
  ASSUME NEW S, NEW s \in Seq(S), NEW t \in Seq(S), NEW g \in Seq(S),
         NEW n \in 0..Len(s), NEW k \in 0..Len(s), Spliced(s, t, g, n, k)
  PROVE  t = SubSeq(s, 1, n) \o g \o SubSeq(s, k + 1, Len(s))
<1> DEFINE a == SubSeq(s, 1, n)
           r == SubSeq(s, k + 1, Len(s))
           b == SubSeq(t, 1, n + Len(g))
<1>1. a \in Seq(S) /\ Len(a) = n /\ \A i \in 1..n : a[i] = s[i]
  BY PartsOf
<1>2. r \in Seq(S) /\ Len(r) = Len(s) - k /\ \A i \in 1..(Len(s) - k) : r[i] = s[k + i]
  BY PartsOf
<1>0. /\ Len(t) = n + Len(g) + (Len(s) - k)
      /\ \A i \in 1..n : t[i] = s[i]
      /\ \A i \in 1..Len(g) : t[n + i] = g[i]
      /\ \A i \in 1..(Len(s) - k) : t[n + Len(g) + i] = s[k + i]
  BY DEF Spliced
<1>3. n \in Nat /\ Len(g) \in Nat /\ n + Len(g) \in 0..Len(t)
  BY <1>0
<1>4. b \in Seq(S) /\ Len(b) = n + Len(g) /\ \A i \in 1..(n + Len(g)) : b[i] = t[i]
  BY <1>3, PartsOf
<1> HIDE DEF a, r, b
<1>5. b = a \o g
  <2>1. \A i \in 1..Len(a) : b[i] = a[i]
    BY <1>0, <1>1, <1>3, <1>4
  <2>2. \A i \in 1..Len(g) : b[Len(a) + i] = g[i]
    <3> TAKE i \in 1..Len(g)
    <3>1. n + i \in 1..(n + Len(g))
      BY <1>3
    <3>2. b[n + i] = t[n + i] /\ t[n + i] = g[i]
      BY <1>0, <1>4, <3>1
    <3> QED
      BY <1>1, <3>2
  <2>3. Len(b) = Len(a) + Len(g)
    BY <1>1, <1>4
  <2> QED
    BY <1>1, <1>4, <2>1, <2>2, <2>3, JoinIs
<1>6. t = b \o r
  <2>1. Len(t) = Len(b) + Len(r)
    BY <1>0, <1>2, <1>4
  <2>2. \A i \in 1..Len(b) : t[i] = b[i]
    BY <1>4
  <2>3. \A i \in 1..Len(r) : t[Len(b) + i] = r[i]
    BY <1>0, <1>2, <1>4
  <2> QED
    BY <1>2, <1>4, <2>1, <2>2, <2>3, JoinIs
<1> QED
  BY <1>5, <1>6 DEF a, r

-----------------------------------------------------------------------------
(* The operations are those of ByteBuffer.                                 *)

\* The packet, before and after a step.
LEMMA DataIs ==
  TypeOK /\ InBuffer =>
    /\ Data \in Seq(Bytes) /\ Len(Data) = data_len
    /\ data_len \in 0..(BufLen - DataOff)
    /\ \A i \in 1..data_len : Data[i] = mem[DataOff + i - 1]
<1> SUFFICES ASSUME TypeOK, InBuffer
             PROVE  /\ Data \in Seq(Bytes) /\ Len(Data) = data_len
                    /\ data_len \in 0..(BufLen - DataOff)
                    /\ \A i \in 1..data_len : Data[i] = mem[DataOff + i - 1]
  OBVIOUS
<1>1. /\ data_len \in Nat /\ DataOff \in Nat /\ BufLen \in Nat /\ DataOff + data_len <= BufLen
      /\ mem \in [Addresses -> Bytes]
  BY Bounds DEF TypeOK, InBuffer
<1>2. \A i \in 1..data_len : mem[DataOff + i - 1] \in Bytes
  <2> TAKE i \in 1..data_len
  <2>1. DataOff + i - 1 \in Addresses
    BY <1>1 DEF Addresses
  <2> QED
    BY <1>1, <2>1
<1>3. Data \in [1..data_len -> Bytes]
  BY <1>2 DEF Data
<1>4. Data \in Seq(Bytes) /\ Len(Data) = data_len
  BY <1>1, <1>3
<1> QED
  BY <1>1, <1>4 DEF Data

LEMMA Sizes ==
  TypeOK /\ InBuffer => /\ data_len \in Nat /\ data_len <= BufLen - DataOff
                        /\ DataOff \in Nat /\ BufLen \in Nat /\ BufLen - DataOff \in Nat
BY Bounds DEF TypeOK, InBuffer

LEMMA DataIsNext ==
  TypeOK' /\ InBuffer' =>
    /\ Data' \in Seq(Bytes) /\ Len(Data') = data_len'
    /\ data_len' \in 0..(BufLen - DataOff)
    /\ \A i \in 1..data_len' : Data'[i] = mem'[DataOff + i - 1]
<1>1. (TypeOK /\ InBuffer =>
        /\ Data \in Seq(Bytes) /\ Len(Data) = data_len
        /\ data_len \in 0..(BufLen - DataOff)
        /\ \A i \in 1..data_len : Data[i] = mem[DataOff + i - 1])'
  BY DataIs, PTL
<1> QED
  BY <1>1

\* extend inserts, whatever the bytes of the gap were.
LEMMA ExtendInserts ==
  ASSUME TypeOK, InBuffer, TypeOK', InBuffer',
         NEW offset \in Args, NEW len \in Args, extend(offset, len)
  PROVE  Abstract!Next
<1> DEFINE gap == [i \in 1..len |-> mem'[DataOff + offset + i - 1]]
<1>1. /\ offset \in Nat /\ len \in Nat /\ len > 0 /\ offset <= data_len
      /\ data_len' = data_len + len /\ data_len \in Nat /\ data_len + len <= BufLen - DataOff
      /\ DataOff \in Nat /\ BufLen \in Nat
  <2>1. offset \in Nat /\ len \in Nat /\ DataOff \in Nat /\ BufLen \in Nat
    BY Bounds DEF Args
  <2>2. len > 0 /\ offset <= data_len /\ data_len' = data_len + len
    BY DEF extend
  <2>3. data_len \in Nat /\ data_len' <= BufLen - DataOff
    BY <2>1, DataIs, DataIsNext
  <2> QED
    BY <2>1, <2>2, <2>3
<1>2. /\ mem' \in [Addresses -> Bytes]
      /\ \A i \in Addresses :
           mem'[i] = IF i \in (DataOff + offset + len)..(DataOff + data_len + len - 1)
                     THEN mem[i - len] ELSE mem[i]
  <2>1. mem' = Copied(data_address(offset), data_address(offset + len), data_len - offset)
    BY DEF extend
  <2>2. \A i \in Addresses :
          /\ i \in data_address(offset + len)..(data_address(offset + len) + (data_len - offset) - 1)
               <=> i \in (DataOff + offset + len)..(DataOff + data_len + len - 1)
          /\ data_address(offset) + (i - data_address(offset + len)) = i - len
    BY <1>1 DEF data_address, Addresses
  <2> QED
    BY <2>1, <2>2 DEF Copied, TypeOK
<1>3. \A i \in 1..(data_len + len) : DataOff + i - 1 \in Addresses
  BY <1>1 DEF Addresses
<1>4. gap \in [1..len -> Bytes] /\ gap \in Seq(Bytes) /\ Len(gap) = len
  <2>1. \A i \in 1..len : mem'[DataOff + offset + i - 1] \in Bytes
    <3> TAKE i \in 1..len
    <3>1. offset + i \in 1..(data_len + len) /\ DataOff + (offset + i) - 1 = DataOff + offset + i - 1
      BY <1>1
    <3>2. DataOff + (offset + i) - 1 \in Addresses
      BY <1>3, <3>1
    <3> QED
      BY <1>2, <3>1, <3>2
  <2> QED
    BY <1>1, <2>1
<1>5. \A i \in 1..offset : Data'[i] = Data[i]
  BY <1>1, <1>2, <1>3, DataIs, DataIsNext
<1>6. \A i \in 1..len : Data'[offset + i] = gap[i]
  BY <1>1, DataIsNext
<1>7. \A i \in 1..(data_len - offset) : Data'[offset + len + i] = Data[offset + i]
  <2> TAKE i \in 1..(data_len - offset)
  <2>1. /\ DataOff + (offset + len + i) - 1 \in (DataOff + offset + len)..(DataOff + data_len + len - 1)
        /\ offset + len + i \in 1..(data_len + len) /\ offset + i \in 1..data_len
        /\ DataOff + (offset + len + i) - 1 - len = DataOff + (offset + i) - 1
    BY <1>1
  <2>2. Data'[offset + len + i] = mem'[DataOff + (offset + len + i) - 1]
    BY <1>1, <2>1, DataIsNext
  <2>3. mem'[DataOff + (offset + len + i) - 1] = mem[DataOff + (offset + i) - 1]
    <3>1. DataOff + (offset + len + i) - 1 \in Addresses
      BY <1>3, <2>1
    <3>2. PICK a : a = DataOff + (offset + len + i) - 1
      OBVIOUS
    <3>3. /\ a \in Addresses /\ a - len = DataOff + (offset + i) - 1
          /\ a \in (DataOff + offset + len)..(DataOff + data_len + len - 1)
      BY <1>1, <2>1, <3>1, <3>2
    <3>4. mem'[a] = mem[a - len]
      BY <1>2, <3>3
    <3> QED
      BY <3>2, <3>3, <3>4
  <2>4. Data[offset + i] = mem[DataOff + (offset + i) - 1]
    BY <2>1, DataIs
  <2> QED
    BY <2>2, <2>3, <2>4
<1> HIDE DEF gap
<1>8. Data' = SubSeq(Data, 1, offset) \o gap \o SubSeq(Data, offset + 1, Len(Data))
  <2>1. /\ Data \in Seq(Bytes) /\ Len(Data) = data_len
        /\ Data' \in Seq(Bytes) /\ Len(Data') = data_len'
    BY DataIs, DataIsNext
  <2>2. offset \in 0..Len(Data) /\ Len(Data') = offset + Len(gap) + (Len(Data) - offset)
    BY <1>1, <1>4, <2>1
  <2>3. /\ \A i \in 1..Len(gap) : Data'[offset + i] = gap[i]
        /\ \A i \in 1..(Len(Data) - offset) : Data'[offset + Len(gap) + i] = Data[offset + i]
    BY <1>4, <1>6, <1>7, <2>1
  <2> QED
    <3>1. Spliced(Data, Data', gap, offset, offset)
      BY <1>5, <2>2, <2>3 DEF Spliced
    <3> QED
      BY <1>4, <2>1, <2>2, <3>1, SpliceIs
<1>9. Abstract!Insert(offset, gap)
  BY <1>1, <1>8, DataIs, DataIsNext DEF Abstract!Insert, Abstract!Front, Abstract!Rest
<1>10. offset \in 0..(BufLen - DataOff) /\ len \in 1..(BufLen - DataOff)
  BY <1>1
<1> QED
  BY <1>4, <1>9, <1>10 DEF Abstract!Next

\* shrink removes.
LEMMA ShrinkRemoves ==
  ASSUME TypeOK, InBuffer, TypeOK', InBuffer',
         NEW offset \in Args, NEW len \in Args, shrink(offset, len)
  PROVE  Abstract!Next
<1>1. /\ offset \in Nat /\ len \in Nat /\ len > 0 /\ offset + len <= data_len
      /\ data_len' = data_len - len /\ data_len \in Nat /\ data_len <= BufLen - DataOff
      /\ DataOff \in Nat /\ BufLen \in Nat
  <2>1. /\ len > 0 /\ offset + len <= data_len /\ data_len' = data_len - len
    BY DEF shrink
  <2>2. offset \in Nat /\ len \in Nat
    BY Bounds DEF Args
  <2> QED
    BY <2>1, <2>2, Sizes
<1>2. \A i \in Addresses :
        mem'[i] = IF i \in (DataOff + offset)..(DataOff + data_len - len - 1)
                  THEN mem[i + len] ELSE mem[i]
  <2>1. mem' = Copied(data_address(offset + len), data_address(offset), data_len - offset - len)
    BY DEF shrink
  <2>2. \A i \in Addresses :
          /\ i \in data_address(offset)..(data_address(offset) + (data_len - offset - len) - 1)
               <=> i \in (DataOff + offset)..(DataOff + data_len - len - 1)
          /\ data_address(offset + len) + (i - data_address(offset)) = i + len
    BY <1>1 DEF data_address, Addresses
  <2> QED
    BY <2>1, <2>2 DEF Copied
<1>3. \A i \in 1..data_len : DataOff + i - 1 \in Addresses
  BY <1>1 DEF Addresses
<1>4. \A i \in 1..offset : Data'[i] = Data[i]
  <2> TAKE i \in 1..offset
  <2>1. /\ i \in 1..data_len /\ i \in 1..(data_len - len)
        /\ DataOff + i - 1 \notin (DataOff + offset)..(DataOff + data_len - len - 1)
    BY <1>1
  <2>2. mem'[DataOff + i - 1] = mem[DataOff + i - 1]
    BY <1>2, <1>3, <2>1
  <2> QED
    BY <1>1, <2>1, <2>2, DataIs, DataIsNext
<1>5. \A i \in 1..(data_len - (offset + len)) : Data'[offset + i] = Data[offset + len + i]
  <2> TAKE i \in 1..(data_len - (offset + len))
  <2>1. /\ DataOff + (offset + i) - 1 \in (DataOff + offset)..(DataOff + data_len - len - 1)
        /\ offset + i \in 1..(data_len - len) /\ offset + i \in 1..data_len
        /\ offset + len + i \in 1..data_len
        /\ DataOff + (offset + i) - 1 + len = DataOff + (offset + len + i) - 1
    BY <1>1
  <2>2. Data'[offset + i] = mem'[DataOff + (offset + i) - 1]
    BY <1>1, <2>1, DataIsNext
  <2>3. mem'[DataOff + (offset + i) - 1] = mem[DataOff + (offset + len + i) - 1]
    BY <1>2, <1>3, <2>1
  <2>4. Data[offset + len + i] = mem[DataOff + (offset + len + i) - 1]
    BY <2>1, DataIs
  <2> QED
    BY <2>2, <2>3, <2>4
<1>6. Data' = SubSeq(Data, 1, offset) \o SubSeq(Data, offset + len + 1, Len(Data))
  <2>1. /\ Data \in Seq(Bytes) /\ Len(Data) = data_len /\ Data' \in Seq(Bytes)
        /\ Len(Data') = offset + (Len(Data) - (offset + len))
    BY <1>1, DataIs, DataIsNext
  <2>2. offset \in 0..Len(Data) /\ offset + len \in 0..Len(Data)
    BY <1>1, <2>1
  <2> QED
    BY <1>4, <1>5, <2>1, <2>2, CutIs
<1>7. Abstract!Remove(offset, len)
  BY <1>1, <1>6, DataIs DEF Abstract!Remove, Abstract!Front, Abstract!Rest
<1>8. offset \in 0..(BufLen - DataOff) /\ len \in 1..(BufLen - DataOff)
  BY <1>1
<1> QED
  BY <1>7, <1>8 DEF Abstract!Next

\* truncate removes the end.
LEMMA TruncateRemoves ==
  ASSUME TypeOK, InBuffer, TypeOK', InBuffer', NEW to_len \in Args, truncate(to_len)
  PROVE  Abstract!Next
<1>1. /\ to_len \in Nat /\ to_len < data_len /\ data_len' = to_len /\ mem' = mem
      /\ data_len \in Nat /\ data_len <= BufLen - DataOff /\ BufLen - DataOff \in Nat
  <2>1. to_len < data_len /\ data_len' = to_len /\ mem' = mem
    BY DEF truncate
  <2>2. to_len \in Nat
    BY Bounds DEF Args
  <2> QED
    BY <2>1, <2>2, Sizes
<1>2. /\ Data \in Seq(Bytes) /\ Len(Data) = data_len
      /\ Data' \in Seq(Bytes) /\ Len(Data') = data_len'
  BY DataIs, DataIsNext
<1>3. \A i \in 1..to_len : Data'[i] = Data[i]
  BY <1>1, DataIs, DataIsNext
<1>4. Data' = SubSeq(Data, 1, to_len) \o SubSeq(Data, data_len + 1, Len(Data))
  <2>1. /\ to_len \in 0..Len(Data) /\ data_len \in 0..Len(Data)
        /\ Len(Data') = to_len + (Len(Data) - data_len)
        /\ 1..(Len(Data) - data_len) = {}
    BY <1>1, <1>2
  <2> QED
    BY <1>2, <1>3, <2>1, CutIs
<1>5. to_len + (data_len - to_len) = data_len
  BY <1>1
<1>6. Abstract!Remove(to_len, data_len - to_len)
  BY <1>2, <1>4, <1>5, <1>1 DEF Abstract!Remove, Abstract!Front, Abstract!Rest
<1>7. to_len \in 0..(BufLen - DataOff) /\ data_len - to_len \in 1..(BufLen - DataOff)
  BY <1>1
<1> QED
  BY <1>6, <1>7 DEF Abstract!Next

\* write_data_slice overwrites; an empty slice changes nothing.
LEMMA WriteOverwrites ==
  ASSUME TypeOK, InBuffer, TypeOK', InBuffer',
         NEW offset \in Args, NEW count \in Args, NEW slice \in [1..count -> Bytes],
         write_data_slice(offset, count, slice)
  PROVE  Abstract!Next \/ Data' = Data
<1>1. /\ offset \in Nat /\ count \in Nat /\ offset + count <= data_len /\ data_len' = data_len
      /\ data_len \in Nat /\ data_len <= BufLen - DataOff /\ DataOff \in Nat /\ BufLen \in Nat
  <2>1. offset \in Nat /\ count \in Nat /\ DataOff \in Nat /\ BufLen \in Nat
    BY Bounds DEF Args
  <2>2. offset + count <= data_len /\ data_len' = data_len
    BY DEF write_data_slice
  <2>3. data_len \in Nat /\ data_len <= BufLen - DataOff
    BY <2>1, DataIs
  <2> QED
    BY <2>1, <2>2, <2>3
<1>2. \A i \in Addresses :
        mem'[i] = IF i \in (DataOff + offset)..(DataOff + offset + count - 1)
                  THEN slice[i - (DataOff + offset) + 1] ELSE mem[i]
  BY DEF write_data_slice, data_address
<1>3. \A i \in 1..data_len : DataOff + i - 1 \in Addresses
  BY <1>1 DEF Addresses
<1>4. /\ Data \in Seq(Bytes) /\ Len(Data) = data_len
      /\ Data' \in Seq(Bytes) /\ Len(Data') = data_len
      /\ slice \in Seq(Bytes) /\ Len(slice) = count
  BY <1>1, DataIs, DataIsNext
<1>5. ASSUME NEW i \in 1..data_len, i <= offset \/ i > offset + count
      PROVE  Data'[i] = Data[i]
  <2>1. DataOff + i - 1 \notin (DataOff + offset)..(DataOff + offset + count - 1)
    BY <1>1, <1>5
  <2>2. mem'[DataOff + i - 1] = mem[DataOff + i - 1]
    BY <1>2, <1>3, <2>1
  <2> QED
    BY <1>1, <2>2, DataIs, DataIsNext
<1>6. CASE count = 0
  <2>1. \A i \in 1..data_len : Data'[i] = Data[i]
    BY <1>1, <1>5, <1>6
  <2>2. Data' = Data
    BY <1>4, <2>1, SeqEqual
  <2> QED
    BY <2>2
<1>7. CASE count > 0
  <2>1. \A i \in 1..offset : Data'[i] = Data[i]
    BY <1>1, <1>5
  <2>2. \A i \in 1..Len(slice) : Data'[offset + i] = slice[i]
    <3> TAKE i \in 1..Len(slice)
    <3>1. /\ offset + i \in 1..data_len
          /\ DataOff + (offset + i) - 1 \in (DataOff + offset)..(DataOff + offset + count - 1)
          /\ DataOff + (offset + i) - 1 - (DataOff + offset) + 1 = i
      BY <1>1, <1>4
    <3>2. DataOff + (offset + i) - 1 \in Addresses
      BY <1>3, <3>1
    <3>3. mem'[DataOff + (offset + i) - 1] = slice[i]
      <4>1. PICK a : a = DataOff + (offset + i) - 1
        OBVIOUS
      <4>2. /\ a \in Addresses /\ a - (DataOff + offset) + 1 = i
            /\ a \in (DataOff + offset)..(DataOff + offset + count - 1)
        BY <1>1, <1>4, <3>1, <3>2, <4>1
      <4>3. mem'[a] = slice[a - (DataOff + offset) + 1]
        BY <1>2, <4>2
      <4> QED
        BY <4>1, <4>2, <4>3
    <3> QED
      BY <1>1, <3>1, <3>3, DataIsNext
  <2>3. \A i \in 1..(Len(Data) - (offset + count)) :
          Data'[offset + Len(slice) + i] = Data[offset + count + i]
    <3> TAKE i \in 1..(Len(Data) - (offset + count))
    <3>1. offset + count + i \in 1..data_len /\ offset + count + i > offset + count
      BY <1>1, <1>4
    <3> QED
      BY <1>4, <1>5, <3>1
  <2>4. /\ offset \in 0..Len(Data) /\ offset + count \in 0..Len(Data)
        /\ Len(Data') = offset + Len(slice) + (Len(Data) - (offset + count))
    BY <1>1, <1>4
  <2>5. Data' = SubSeq(Data, 1, offset) \o slice \o SubSeq(Data, offset + count + 1, Len(Data))
    <3>1. Spliced(Data, Data', slice, offset, offset + count)
      BY <2>1, <2>2, <2>3, <2>4 DEF Spliced
    <3> QED
      BY <1>4, <2>4, <3>1, SpliceIs
  <2>6. Abstract!Overwrite(offset, slice)
    BY <1>1, <1>4, <2>5 DEF Abstract!Overwrite, Abstract!Front, Abstract!Rest
  <2>7. offset \in 0..(BufLen - DataOff) /\ count \in 1..(BufLen - DataOff)
    BY <1>1, <1>7
  <2> QED
    BY <2>6, <2>7 DEF Abstract!Next
<1> QED
  BY <1>1, <1>6, <1>7

\* The copies through raw pointers, overlapping or not, are the operations on a
\* string of bytes: none is lost, repeated or reordered.
THEOREM ImplementsByteBuffer == Spec => IsByteBuffer
<1>1. TypeOK /\ InBuffer => (Init => Abstract!Init)
  <2> SUFFICES ASSUME TypeOK, InBuffer
               PROVE  Abstract!Init
    OBVIOUS
  <2>1. /\ Data \in Seq(Bytes) /\ Len(Data) = data_len /\ data_len \in 0..(BufLen - DataOff)
    BY DataIs
  <2>2. Data \in [1..data_len -> Bytes]
    BY <2>1
  <2> QED
    BY <2>1, <2>2 DEF Abstract!Init
<1>2. TypeOK /\ InBuffer /\ TypeOK' /\ InBuffer' /\ [Next]_vars => [Abstract!Next]_Data
  <2> SUFFICES ASSUME TypeOK, InBuffer, TypeOK', InBuffer', [Next]_vars
               PROVE  Abstract!Next \/ Data' = Data
    OBVIOUS
  <2>1. CASE new
    <3>1. Data' \in Seq(Bytes) /\ Len(Data') = 0
      BY <2>1, DataIsNext DEF new
    <3>2. Data' = <<>>
      BY <3>1
    <3> QED
      BY <3>2 DEF Abstract!Next, Abstract!Reset
  <2>2. CASE UNCHANGED vars
    BY <2>2 DEF vars, Data
  <2> QED
    BY <2>1, <2>2, ExtendInserts, ShrinkRemoves, TruncateRemoves, WriteOverwrites DEF Next
<1> QED
  BY <1>1, <1>2, DataInvariance, PTL DEF Spec, IsByteBuffer, Abstract!Spec
=============================================================================
