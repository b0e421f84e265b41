-------------------------- MODULE WorkHorseProofs --------------------------
(***************************************************************************)
(* What WorkHorse promises for any number of ports and packets, any queue  *)
(* and any burst.                                                          *)
(***************************************************************************)
EXTENDS WorkHorse, SequenceTheorems, FiniteSetTheorems, TLAPS

\* rx_main receives, or has received, only because the sender is gone, and then
\* it is the task that runs.
Stuck ==
  /\ pc \in {"fill", "for"} => exec = "rx" /\ sender = "dropped"
  /\ queue # <<>> => exec = "rx" /\ sender = "dropped"

\* Batches are refused in one round over the ports only, the one that found the
\* queue full half way, and the port at which it was full was not the first.
Loss ==
  /\ dropped # <<>> => Len(queue) = Capacity /\ Len(dropped) + 1 <= NPorts
  /\ pc = "for" /\ Len(queue) = Capacity => Len(dropped) + 2 <= port

\* The batches that rx_main has made, by where they are.
Spots == ({"queue"} \X DOMAIN queue) \cup ({"dropped"} \X DOMAIN dropped)
BatchAt == [s \in Spots |-> IF s[1] = "queue" THEN queue[s[2]] ELSE dropped[s[2]]]

\* How many packets of each port rx_main has received.
Taken == [p \in Ports |-> arrived[p] - Len(nic[p])]

\* A port has the last packets that arrived, in order.
Waiting ==
  \A p \in Ports : /\ Len(nic[p]) <= arrived[p]
                   /\ \A i \in 1..Len(nic[p]) : nic[p][i] = Taken[p] + i

\* The batches of a port have the packets before those, ...
Received ==
  \A s \in Spots : \A k \in DOMAIN BatchAt[s].buf :
    BatchAt[s].buf[k] \in 1..Taken[BatchAt[s].portid]

\* ... every one of them, ...
Covered ==
  \A p \in Ports : \A n \in 1..Taken[p] :
    \E s \in Spots : /\ BatchAt[s].portid = p
                     /\ \E k \in DOMAIN BatchAt[s].buf : BatchAt[s].buf[k] = n

\* ... and each of them once.
Distinct ==
  \A s, u \in Spots :
    BatchAt[s].portid = BatchAt[u].portid =>
      \A k \in DOMAIN BatchAt[s].buf, j \in DOMAIN BatchAt[u].buf :
        BatchAt[s].buf[k] = BatchAt[u].buf[j] => s = u /\ k = j

\* The batches of a port are in order.
QueueOrder ==
  \A i \in DOMAIN queue :
    /\ Increasing(queue[i].buf)
    /\ \A j \in DOMAIN queue :
         i < j /\ queue[i].portid = queue[j].portid => AllBefore(queue[i].buf, queue[j].buf)

IInv ==
  /\ TypeOK
  /\ Stuck
  /\ Loss
  /\ Waiting
  /\ Received
  /\ Covered
  /\ Distinct
  /\ QueueOrder

-----------------------------------------------------------------------------
(* The batch that a round of the for loop makes.                           *)

\* The batch of port `port` with its first n packets.
Burst(n) == [portid |-> port, buf |-> SubSeq(nic[port], 1, n)]

\* What receive takes from a port, and what it leaves.
LEMMA BurstTaken ==
  ASSUME TypeOK, Waiting, NEW n \in Nat, port <= NPorts, n <= Len(nic[port])
  PROVE  /\ Burst(n) \in Batch
         /\ Len(Burst(n).buf) = n /\ DOMAIN Burst(n).buf = 1..n
         /\ \A k \in 1..n : Burst(n).buf[k] = Taken[port] + k
         /\ SubSeq(nic[port], n + 1, Len(nic[port])) \in Seq(Packets)
         /\ Len(SubSeq(nic[port], n + 1, Len(nic[port]))) = Len(nic[port]) - n
         /\ \A i \in 1..(Len(nic[port]) - n) :
              SubSeq(nic[port], n + 1, Len(nic[port]))[i] = Taken[port] + n + i
<1>1. port \in Ports /\ nic[port] \in Seq(Packets) /\ Len(nic[port]) \in Nat
  BY WorkHorseAssumption DEF TypeOK, Ports
<1>2. \A i \in 1..Len(nic[port]) : nic[port][i] \in Packets /\ nic[port][i] = Taken[port] + i
  BY <1>1 DEF Waiting
<1> DEFINE a == SubSeq(nic[port], 1, n)
           r == SubSeq(nic[port], n + 1, Len(nic[port]))
<1>3. a \in Seq(Packets) /\ Len(a) = n /\ \A k \in 1..n : a[k] = nic[port][k]
  <2>1. \A i \in 1..n : nic[port][i] \in Packets
    BY <1>1, <1>2
  <2> QED
    BY <2>1, SubSeqProperties, Z3
<1>4. /\ r \in Seq(Packets) /\ Len(r) = Len(nic[port]) - n
      /\ \A i \in 1..(Len(nic[port]) - n) : r[i] = nic[port][n + i]
  <2>1. \A i \in (n + 1)..Len(nic[port]) : nic[port][i] \in Packets
    BY <1>1, <1>2
  <2> HIDE <1>2
  <2>2. /\ r \in Seq(Packets)
        /\ Len(r) = IF n + 1 <= Len(nic[port]) THEN Len(nic[port]) - (n + 1) + 1 ELSE 0
        /\ \A i \in 1..(Len(nic[port]) - (n + 1) + 1) : r[i] = nic[port][(n + 1) + i - 1]
    BY <1>1, <2>1, SubSeqProperties
  <2>3. \A i \in 1..(Len(nic[port]) - n) : r[i] = nic[port][n + i]
    <3> TAKE i \in 1..(Len(nic[port]) - n)
    <3>1. i \in 1..(Len(nic[port]) - (n + 1) + 1) /\ (n + 1) + i - 1 = n + i
      BY <1>1
    <3> QED
      BY <2>2, <3>1
  <2> QED
    BY <1>1, <2>2, <2>3, SMTT(30)
<1>5. Taken[port] \in Int
  BY <1>1 DEF TypeOK, Taken
<1>6. \A k \in 1..n : a[k] = Taken[port] + k
  BY <1>1, <1>2, <1>3
<1>7. \A i \in 1..(Len(nic[port]) - n) : r[i] = Taken[port] + n + i
  BY <1>1, <1>2, <1>4, <1>5
<1>8. DOMAIN a = 1..n
  BY <1>3
<1> HIDE DEF a, r
<1>9. [portid |-> port, buf |-> a] \in Batch
  BY <1>1, <1>3 DEF Batch
<1> QED
  BY <1>3, <1>4, <1>6, <1>7, <1>8, <1>9 DEF Burst, a, r

\* The batches are batches.
LEMMA SpotsTyped ==
  TypeOK => BatchAt \in [Spots -> Batch] /\ \A s \in Spots : BatchAt[s].portid \in Ports
<1> SUFFICES ASSUME TypeOK
             PROVE  BatchAt \in [Spots -> Batch] /\ \A s \in Spots : BatchAt[s].portid \in Ports
  OBVIOUS
<1>1. queue \in Seq(Batch) /\ dropped \in Seq(Batch)
  BY DEF TypeOK
<1>2. ASSUME NEW s \in Spots
      PROVE  BatchAt[s] \in Batch
  <2>1. CASE \E i \in DOMAIN queue : s = <<"queue", i>>
    BY <1>1, <2>1 DEF BatchAt
  <2>2. CASE \E i \in DOMAIN dropped : s = <<"dropped", i>>
    BY <1>1, <2>2 DEF BatchAt
  <2> QED
    BY <2>1, <2>2 DEF Spots
<1>3. BatchAt \in [Spots -> Batch]
  BY <1>2 DEF BatchAt
<1>4. \A b \in Batch : b.portid \in Ports
  BY DEF Batch
<1> QED
  BY <1>2, <1>3, <1>4

\* A push makes one new batch, in one of the two sequences, and keeps the others.
LEMMA PushSpot ==
  ASSUME TypeOK, NEW b \in Batch, push(b)
  PROVE  \E new : /\ new \notin Spots
                  /\ Spots' = Spots \cup {new}
                  /\ BatchAt'[new] = b
                  /\ \A s \in Spots : BatchAt'[s] = BatchAt[s]
<1>1. /\ queue \in Seq(Batch) /\ DOMAIN queue = 1..Len(queue) /\ Len(queue) \in Nat
      /\ dropped \in Seq(Batch) /\ DOMAIN dropped = 1..Len(dropped) /\ Len(dropped) \in Nat
  BY DEF TypeOK
<1>2. CASE Len(queue) < Capacity
  <2>1. queue' = Append(queue, b) /\ dropped' = dropped
    BY <1>2 DEF push
  <2>2. /\ DOMAIN queue' = 1..Len(queue) \cup {Len(queue) + 1} /\ queue'[Len(queue) + 1] = b
        /\ \A i \in 1..Len(queue) : queue'[i] = queue[i]
    BY <1>1, <2>1
  <2>0. PICK k \in Nat : k = Len(queue) + 1
    BY <1>1
  <2> DEFINE new == <<"queue", k>>
  <2>3. new \notin Spots
    BY <1>1, <2>0 DEF Spots
  <2>4. Spots' = Spots \cup {new}
    BY <1>1, <2>0, <2>1, <2>2 DEF Spots
  <2>5. BatchAt'[new] = b
    BY <2>0, <2>2, <2>4 DEF BatchAt
  <2>6. \A s \in Spots : BatchAt'[s] = BatchAt[s]
    BY <1>1, <2>1, <2>2, <2>4 DEF Spots, BatchAt
  <2> QED
    BY <2>3, <2>4, <2>5, <2>6
<1>3. CASE ~(Len(queue) < Capacity)
  <2>1. dropped' = Append(dropped, b) /\ queue' = queue
    BY <1>3 DEF push
  <2>2. /\ DOMAIN dropped' = 1..Len(dropped) \cup {Len(dropped) + 1}
        /\ dropped'[Len(dropped) + 1] = b
        /\ \A i \in 1..Len(dropped) : dropped'[i] = dropped[i]
    BY <1>1, <2>1
  <2>0. PICK k \in Nat : k = Len(dropped) + 1
    BY <1>1
  <2> DEFINE new == <<"dropped", k>>
  <2>3. new \notin Spots
    BY <1>1, <2>0 DEF Spots
  <2>4. Spots' = Spots \cup {new}
    BY <1>1, <2>0, <2>1, <2>2 DEF Spots
  <2>5. BatchAt'[new] = b
    BY <2>0, <2>2, <2>4 DEF BatchAt
  <2>6. \A s \in Spots : BatchAt'[s] = BatchAt[s]
    BY <1>1, <2>1, <2>2, <2>4 DEF Spots, BatchAt
  <2> QED
    BY <2>3, <2>4, <2>5, <2>6
<1> QED
  BY <1>2, <1>3

-----------------------------------------------------------------------------
(* Each part of the invariant is kept.                                     *)

LEMMA TypeStep == TypeOK /\ Stuck /\ Waiting /\ [Next]_vars => TypeOK'
<1> SUFFICES ASSUME TypeOK, Stuck, Waiting, [Next]_vars
             PROVE  TypeOK'
  OBVIOUS
<1> USE WorkHorseAssumption
<1>1. CASE try_recv
  BY <1>1 DEF try_recv, TypeOK
<1>2. CASE WhileFill
  BY <1>2 DEF WhileFill, TypeOK
<1>3. ASSUME NEW n \in 0..BurstMax, ForPort(n)
      PROVE  TypeOK'
  <2>1. port \in Ports /\ n \in Nat /\ n <= Len(nic[port]) /\ port <= NPorts
    BY <1>3 DEF ForPort, TypeOK, Ports
  <2>2. /\ Burst(n) \in Batch
        /\ SubSeq(nic[port], n + 1, Len(nic[port])) \in Seq(Packets)
    BY <2>1, BurstTaken
  <2>3. nic' \in [Ports -> Seq(Packets)]
    BY <1>3, <2>1, <2>2 DEF ForPort, TypeOK
  <2>4. push(Burst(n))
    BY <1>3 DEF ForPort, Burst
  <2>5. queue' \in Seq(Batch) /\ Len(queue') <= Capacity /\ dropped' \in Seq(Batch)
    <3>1. CASE Len(queue) < Capacity
      <4>1. queue' = Append(queue, Burst(n)) /\ dropped' = dropped
        BY <2>4, <3>1 DEF push
      <4>2. queue \in Seq(Batch) /\ dropped \in Seq(Batch)
        BY DEF TypeOK
      <4> QED
        BY <2>2, <3>1, <4>1, <4>2
    <3>2. CASE ~(Len(queue) < Capacity)
      <4>1. queue' = queue /\ dropped' = Append(dropped, Burst(n))
        BY <2>4, <3>2 DEF push
      <4>2. queue \in Seq(Batch) /\ Len(queue) <= Capacity /\ dropped \in Seq(Batch)
        BY DEF TypeOK
      <4> QED
        BY <2>2, <4>1, <4>2
    <3> QED
      BY <3>1, <3>2
  <2>6. port' \in 1..(NPorts + 1)
    BY <1>3, <2>1 DEF ForPort, TypeOK
  <2> QED
    BY <1>3, <2>3, <2>5, <2>6 DEF ForPort, TypeOK
<1>4. CASE EndFor
  BY <1>4 DEF EndFor, TypeOK
<1>5. CASE process_packets
  BY <1>5 DEF process_packets, Stuck, TypeOK
<1>6. CASE check_n_set_client_status \/ run_until \/ work_horse \/ NewChannel \/ Signal
  BY <1>6 DEF check_n_set_client_status, run_until, work_horse, NewChannel, Signal, TypeOK
<1>7. ASSUME NEW p \in Ports, Arrive(p)
      PROVE  TypeOK'
  <2>1. arrived' \in [Ports -> 0..MaxArrivals] /\ arrived'[p] \in Packets
    BY <1>7 DEF Arrive, TypeOK, Packets
  <2>2. nic' \in [Ports -> Seq(Packets)]
    BY <1>7, <2>1 DEF Arrive, TypeOK
  <2> QED
    BY <1>7, <2>1, <2>2 DEF Arrive, TypeOK
<1>8. CASE UNCHANGED vars
  BY <1>8 DEF vars, TypeOK
<1> QED
  BY <1>1, <1>2, <1>3, <1>4, <1>5, <1>6, <1>7, <1>8 DEF Next, Pool, rx_main

LEMMA StuckStep == TypeOK /\ Stuck /\ [Next]_vars => Stuck'
<1> SUFFICES ASSUME TypeOK, Stuck, [Next]_vars
             PROVE  Stuck'
  OBVIOUS
<1> USE DEF Stuck, TypeOK
<1>1. CASE try_recv
  BY <1>1 DEF try_recv, Stops
<1>2. CASE WhileFill
  BY <1>2 DEF WhileFill
<1>3. ASSUME NEW n \in 0..BurstMax, ForPort(n)
      PROVE  Stuck'
  BY <1>3 DEF ForPort
<1>4. CASE EndFor
  BY <1>4 DEF EndFor
<1>5. CASE process_packets
  BY <1>5 DEF process_packets
<1>6. CASE check_n_set_client_status \/ run_until \/ work_horse \/ NewChannel \/ Signal
  BY <1>6 DEF check_n_set_client_status, run_until, work_horse, NewChannel, Signal
<1>7. ASSUME NEW p \in Ports, Arrive(p)
      PROVE  Stuck'
  BY <1>7 DEF Arrive
<1>8. CASE UNCHANGED vars
  BY <1>8 DEF vars
<1> QED
  BY <1>1, <1>2, <1>3, <1>4, <1>5, <1>6, <1>7, <1>8 DEF Next, Pool, rx_main

LEMMA LossStep == TypeOK /\ Stuck /\ Loss /\ [Next]_vars => Loss'
<1> SUFFICES ASSUME TypeOK, Stuck, Loss, [Next]_vars
             PROVE  Loss'
  OBVIOUS
<1> USE WorkHorseAssumption
<1>1. CASE try_recv
  BY <1>1 DEF try_recv, Loss
<1>2. CASE WhileFill
  BY <1>2 DEF WhileFill, is_full, Loss
<1>3. ASSUME NEW n \in 0..BurstMax, ForPort(n)
      PROVE  Loss'
  <2>1. /\ pc = "for" /\ pc' = "for" /\ port' = port + 1 /\ port \in 1..NPorts
        /\ push(Burst(n))
    BY <1>3 DEF ForPort, TypeOK, Burst
  <2>2. queue \in Seq(Batch) /\ Len(queue) <= Capacity /\ dropped \in Seq(Batch)
    BY DEF TypeOK
  <2>3. CASE Len(queue) < Capacity
    <3>1. dropped = <<>> /\ dropped' = dropped
      BY <2>1, <2>2, <2>3 DEF Loss, push
    <3> QED
      BY <2>1, <3>1 DEF Loss
  <2>4. CASE ~(Len(queue) < Capacity)
    <3>1. Len(queue) = Capacity /\ queue' = queue /\ dropped' = Append(dropped, Burst(n))
      BY <2>1, <2>2, <2>4 DEF push
    <3>2. Len(dropped') = Len(dropped) + 1 /\ Len(dropped) \in Nat
      BY <2>2, <3>1
    <3>3. Len(dropped) + 2 <= port
      BY <2>1, <3>1 DEF Loss
    <3> QED
      BY <2>1, <3>1, <3>2, <3>3 DEF Loss
  <2> QED
    BY <2>3, <2>4
<1>4. CASE EndFor
  BY <1>4 DEF EndFor, Loss
<1>5. CASE process_packets
  BY <1>5 DEF process_packets, Loss, Stuck
<1>6. CASE check_n_set_client_status \/ run_until \/ work_horse \/ NewChannel \/ Signal
  BY <1>6 DEF check_n_set_client_status, run_until, work_horse, NewChannel, Signal, Loss
<1>7. ASSUME NEW p \in Ports, Arrive(p)
      PROVE  Loss'
  BY <1>7 DEF Arrive, Loss
<1>8. CASE UNCHANGED vars
  BY <1>8 DEF vars, Loss
<1> QED
  BY <1>1, <1>2, <1>3, <1>4, <1>5, <1>6, <1>7, <1>8 DEF Next, Pool, rx_main

\* Only arrivals and rounds of the for loop move packets: a batch is in the
\* queue only while rx_main has the thread, so process_packets takes none out.
LEMMA PacketSteps ==
  ASSUME Stuck, [Next]_vars
  PROVE  \/ UNCHANGED <<nic, arrived, queue, dropped>>
         \/ \E n \in 0..BurstMax : ForPort(n)
         \/ \E p \in Ports : Arrive(p)
<1>1. process_packets => UNCHANGED <<nic, arrived, queue, dropped>>
  BY DEF Stuck, process_packets
<1> QED
  BY <1>1 DEF Next, vars, Pool, rx_main, try_recv, WhileFill, EndFor, check_n_set_client_status,
              run_until, work_horse, NewChannel, Signal

\* What Numbering says of a port and its batches.
Numbering == Waiting /\ Received /\ Covered /\ Distinct

LEMMA ArriveStep ==
  ASSUME TypeOK, Numbering, NEW p \in Ports, Arrive(p)
  PROVE  Numbering'
<1>1. /\ arrived[p] \in Nat /\ arrived'[p] = arrived[p] + 1
      /\ nic[p] \in Seq(Packets) /\ nic'[p] = Append(nic[p], arrived[p] + 1)
      /\ \A q \in Ports \ {p} : arrived'[q] = arrived[q] /\ nic'[q] = nic[q]
      /\ queue' = queue /\ dropped' = dropped
  BY DEF Arrive, TypeOK
<1>2. Len(nic'[p]) = Len(nic[p]) + 1 /\ Len(nic[p]) \in Nat
  BY <1>1
<1>3. \A q \in Ports : Taken'[q] = Taken[q]
  <2>1. /\ \A q \in Ports : Taken'[q] = arrived'[q] - Len(nic'[q])
        /\ \A q \in Ports : Taken[q] = arrived[q] - Len(nic[q])
    BY DEF Taken
  <2>2. Taken'[p] = Taken[p]
    BY <1>1, <1>2, <2>1
  <2> QED
    BY <1>1, <2>1, <2>2
<1>4. Waiting'
  <2>1. Len(nic'[p]) <= arrived'[p]
    BY <1>1, <1>2 DEF Numbering, Waiting
  <2>2. ASSUME NEW i \in 1..Len(nic'[p])
        PROVE  nic'[p][i] = Taken'[p] + i
    <3>1. CASE i \in 1..Len(nic[p])
      BY <1>1, <1>3, <3>1 DEF Numbering, Waiting
    <3>2. CASE i = Len(nic[p]) + 1
      <4>1. nic'[p][i] = arrived[p] + 1
        BY <1>1, <1>2, <3>2
      <4> QED
        BY <1>1, <1>2, <1>3, <3>2, <4>1 DEF Taken
    <3> QED
      BY <1>2, <3>1, <3>2
  <2>3. ASSUME NEW q \in Ports \ {p}
        PROVE  Len(nic'[q]) <= arrived'[q] /\ \A i \in 1..Len(nic'[q]) : nic'[q][i] = Taken'[q] + i
    BY <1>1, <1>3 DEF Numbering, Waiting
  <2> QED
    BY <2>1, <2>2, <2>3 DEF Waiting
<1>5. Spots' = Spots /\ \A s \in Spots : BatchAt'[s] = BatchAt[s] /\ BatchAt[s].portid \in Ports
  <2>1. Spots' = Spots /\ BatchAt' = BatchAt
    BY <1>1 DEF Spots, BatchAt
  <2> QED
    BY <2>1, SpotsTyped
<1>6. Received'
  BY <1>3, <1>5 DEF Numbering, Received
<1>7. Covered'
  BY <1>3, <1>5 DEF Numbering, Covered
<1>8. Distinct'
  BY <1>5 DEF Numbering, Distinct
<1> QED
  BY <1>4, <1>6, <1>7, <1>8 DEF Numbering

LEMMA ForPortStep ==
  ASSUME TypeOK, Numbering, NEW n \in 0..BurstMax, ForPort(n)
  PROVE  Numbering'
<1>0. PICK T, b : T = Taken[port] /\ b = Burst(n)
  OBVIOUS
<1>1. /\ n \in Nat /\ port \in Ports /\ port <= NPorts /\ n <= Len(nic[port]) /\ push(b)
      /\ nic' = [nic EXCEPT ![port] = SubSeq(nic[port], n + 1, Len(nic[port]))]
      /\ arrived' = arrived
  BY <1>0, WorkHorseAssumption DEF ForPort, TypeOK, Burst, Ports
<1>2. /\ b \in Batch /\ b.portid = port
      /\ DOMAIN b.buf = 1..n
      /\ \A k \in 1..n : b.buf[k] = T + k
      /\ Len(nic'[port]) = Len(nic[port]) - n
      /\ \A i \in 1..(Len(nic[port]) - n) : nic'[port][i] = T + n + i
  BY <1>0, <1>1, BurstTaken DEF Numbering, Burst, TypeOK
<1>3. /\ Len(nic[port]) \in Nat /\ arrived[port] \in Nat /\ T \in Nat
      /\ \A p \in Ports : Taken[p] \in Nat
  BY <1>0, <1>1 DEF TypeOK, Taken, Numbering, Waiting
<1>4. \A p \in Ports \ {port} : nic'[p] = nic[p]
  BY <1>1 DEF TypeOK
<1>5. \A p \in Ports : Taken'[p] = IF p = port THEN T + n ELSE Taken[p]
  <2>1. /\ \A p \in Ports : Taken'[p] = arrived'[p] - Len(nic'[p])
        /\ \A p \in Ports : Taken[p] = arrived[p] - Len(nic[p])
    BY DEF Taken
  <2>2. Taken'[port] = T + n
    BY <1>0, <1>1, <1>2, <1>3, <2>1, SMTT(30)
  <2> QED
    BY <1>1, <1>4, <2>1, <2>2
<1>6. PICK new : /\ new \notin Spots
                 /\ Spots' = Spots \cup {new}
                 /\ BatchAt'[new] = b
                 /\ \A s \in Spots : BatchAt'[s] = BatchAt[s]
  BY <1>1, <1>2, PushSpot
<1>7. \A s \in Spots : BatchAt[s].portid \in Ports
  BY SpotsTyped
<1>8. Waiting'
  <2>1. Len(nic'[port]) <= arrived'[port]
    BY <1>1, <1>2, <1>3 DEF Numbering, Waiting
  <2>2. ASSUME NEW i \in 1..Len(nic'[port])
        PROVE  nic'[port][i] = T + n + i
    BY <1>2, <2>2
  <2>3. ASSUME NEW p \in Ports
        PROVE  Len(nic'[p]) <= arrived'[p] /\ \A i \in 1..Len(nic'[p]) : nic'[p][i] = Taken'[p] + i
    <3>1. CASE p = port
      BY <1>5, <2>1, <2>2, <3>1
    <3>2. CASE p # port
      BY <1>1, <1>4, <1>5, <3>2 DEF Numbering, Waiting
    <3> QED
      BY <3>1, <3>2
  <2> QED
    BY <2>3 DEF Waiting
<1>9. Received'
  <2>1. \A k \in DOMAIN b.buf : b.buf[k] \in 1..Taken'[b.portid]
    BY <1>1, <1>2, <1>3, <1>5, SMTT(30)
  <2>2. ASSUME NEW s \in Spots, NEW k \in DOMAIN BatchAt[s].buf
        PROVE  BatchAt[s].buf[k] \in 1..Taken'[BatchAt[s].portid]
    BY <1>0, <1>1, <1>3, <1>5, <1>7, <2>2, SMTT(30) DEF Numbering, Received
  <2> QED
    BY <1>6, <2>1, <2>2 DEF Received
<1>10. Covered'
  <2>1. ASSUME NEW p \in Ports, NEW m \in 1..Taken'[p]
        PROVE  \E s \in Spots' : /\ BatchAt'[s].portid = p
                                  /\ \E k \in DOMAIN BatchAt'[s].buf : BatchAt'[s].buf[k] = m
    <3>1. CASE m \in 1..Taken[p]
      <4>1. PICK s \in Spots : /\ BatchAt[s].portid = p
                               /\ \E k \in DOMAIN BatchAt[s].buf : BatchAt[s].buf[k] = m
        BY <3>1 DEF Numbering, Covered
      <4> QED
        BY <1>6, <4>1
    <3>2. CASE m \notin 1..Taken[p]
      <4>1. p = port /\ m - T \in 1..n /\ m \in Int
        BY <1>0, <1>1, <1>3, <1>5, <3>2
      <4>2. m - T \in DOMAIN b.buf /\ b.buf[m - T] = m
        BY <1>2, <1>3, <4>1
      <4> QED
        BY <1>2, <1>6, <4>1, <4>2
    <3> QED
      BY <3>1, <3>2
  <2> QED
    BY <2>1 DEF Covered
<1>11. Distinct'
  <2>1. ASSUME NEW s \in Spots, BatchAt[s].portid = port,
               NEW k \in DOMAIN BatchAt[s].buf, NEW j \in DOMAIN b.buf
        PROVE  BatchAt[s].buf[k] # b.buf[j]
    <3>1. BatchAt[s].buf[k] \in 1..T
      BY <1>0, <2>1 DEF Numbering, Received
    <3> QED
      BY <1>2, <1>3, <3>1
  <2>2. \A k, j \in DOMAIN b.buf : b.buf[k] = b.buf[j] => k = j
    BY <1>2, <1>3, SMTT(30)
  <2>3. ASSUME NEW s \in Spots', NEW u \in Spots', BatchAt'[s].portid = BatchAt'[u].portid,
               NEW k \in DOMAIN BatchAt'[s].buf, NEW j \in DOMAIN BatchAt'[u].buf,
               BatchAt'[s].buf[k] = BatchAt'[u].buf[j]
        PROVE  s = u /\ k = j
    <3>1. CASE s \in Spots /\ u \in Spots
      BY <1>6, <2>3, <3>1 DEF Numbering, Distinct
    <3>2. CASE s = new /\ u \in Spots
      BY <1>2, <1>6, <2>1, <2>3, <3>2, SMTT(30)
    <3>3. CASE s \in Spots /\ u = new
      BY <1>2, <1>6, <2>1, <2>3, <3>3, SMTT(30)
    <3>4. CASE s = new /\ u = new
      BY <1>6, <2>2, <2>3, <3>4
    <3> QED
      BY <1>6, <3>1, <3>2, <3>3, <3>4
  <2> QED
    BY <2>3 DEF Distinct
<1> QED
  BY <1>8, <1>9, <1>10, <1>11 DEF Numbering

\* What Numbering says depends on the packets alone.
LEMMA NumberingStep == TypeOK /\ Stuck /\ Numbering /\ [Next]_vars => Numbering'
<1> SUFFICES ASSUME TypeOK, Stuck, Numbering, [Next]_vars
             PROVE  Numbering'
  OBVIOUS
<1>1. CASE UNCHANGED <<nic, arrived, queue, dropped>>
  <2>1. nic' = nic /\ arrived' = arrived /\ Taken' = Taken /\ Spots' = Spots /\ BatchAt' = BatchAt
    BY <1>1 DEF Taken, Spots, BatchAt
  <2>2. Waiting' /\ Received' /\ Covered'
    BY <2>1 DEF Numbering, Waiting, Received, Covered
  <2>3. Distinct'
    BY <2>1 DEF Numbering, Distinct
  <2> QED
    BY <2>2, <2>3 DEF Numbering
<1> QED
  BY <1>1, PacketSteps, ForPortStep, ArriveStep

LEMMA QueueOrderStep ==
  TypeOK /\ Stuck /\ Numbering /\ QueueOrder /\ [Next]_vars => QueueOrder'
<1> SUFFICES ASSUME TypeOK, Stuck, Numbering, QueueOrder, [Next]_vars
             PROVE  QueueOrder'
  OBVIOUS
<1>1. CASE queue' = queue
  BY <1>1 DEF QueueOrder, Increasing, AllBefore
<1>2. ASSUME NEW n \in 0..BurstMax, ForPort(n), Len(queue) < Capacity
      PROVE  QueueOrder'
  <2>0. PICK T, b : T = Taken[port] /\ b = Burst(n)
    OBVIOUS
  <2>1. /\ n \in Nat /\ port \in Ports /\ port <= NPorts /\ n <= Len(nic[port])
        /\ queue' = Append(queue, b)
    BY <1>2, <2>0, WorkHorseAssumption DEF ForPort, TypeOK, Burst, Ports, push
  <2>2. /\ b \in Batch /\ b.portid = port
        /\ DOMAIN b.buf = 1..n
        /\ \A k \in 1..n : b.buf[k] = T + k
    BY <2>0, <2>1, BurstTaken DEF Numbering, Burst
  <2>3. queue \in Seq(Batch) /\ Len(queue) \in Nat /\ DOMAIN queue = 1..Len(queue)
    BY DEF TypeOK
  <2>4. /\ DOMAIN queue' = 1..(Len(queue) + 1) /\ queue'[Len(queue) + 1] = b
        /\ \A i \in 1..Len(queue) : queue'[i] = queue[i]
    BY <2>1, <2>2, <2>3
  <2>5. T \in Int
    BY <2>0, <2>1 DEF Taken, TypeOK
  <2>6. Increasing(b.buf)
    BY <2>2, <2>5 DEF Increasing
  <2>7. ASSUME NEW i \in 1..Len(queue), queue[i].portid = port
        PROVE  AllBefore(queue[i].buf, b.buf)
    <3>1. <<"queue", i>> \in Spots /\ BatchAt[<<"queue", i>>] = queue[i]
      BY <2>3 DEF Spots, BatchAt
    <3>2. \A k \in DOMAIN queue[i].buf : queue[i].buf[k] \in 1..T
      BY <2>0, <2>7, <3>1 DEF Numbering, Received
    <3> QED
      BY <2>2, <2>5, <3>2 DEF AllBefore
  <2>8. ASSUME NEW i \in 1..(Len(queue) + 1)
        PROVE  /\ Increasing(queue'[i].buf)
               /\ \A j \in 1..(Len(queue) + 1) :
                    i < j /\ queue'[i].portid = queue'[j].portid
                      => AllBefore(queue'[i].buf, queue'[j].buf)
    <3>1. CASE i = Len(queue) + 1
      BY <2>3, <2>4, <2>6, <3>1
    <3>2. CASE i \in 1..Len(queue)
      <4>1. Increasing(queue'[i].buf)
        BY <2>3, <2>4, <3>2 DEF QueueOrder
      <4>2. ASSUME NEW j \in 1..(Len(queue) + 1), i < j, queue'[i].portid = queue'[j].portid
            PROVE  AllBefore(queue'[i].buf, queue'[j].buf)
        <5>1. CASE j = Len(queue) + 1
          BY <2>2, <2>4, <2>7, <3>2, <4>2, <5>1
        <5>2. CASE j \in 1..Len(queue)
          BY <2>3, <2>4, <3>2, <4>2, <5>2 DEF QueueOrder
        <5> QED
          BY <2>3, <5>1, <5>2
      <4> QED
        BY <4>1, <4>2
    <3> QED
      BY <2>3, <3>1, <3>2
  <2> QED
    BY <2>4, <2>8 DEF QueueOrder, Increasing, AllBefore
<1>3. ASSUME NEW n \in 0..BurstMax, ForPort(n), ~(Len(queue) < Capacity)
      PROVE  queue' = queue
  BY <1>3 DEF ForPort, push
<1>4. ASSUME NEW p \in Ports, Arrive(p)
      PROVE  queue' = queue
  BY <1>4 DEF Arrive
<1> QED
  BY <1>1, <1>2, <1>3, <1>4, PacketSteps

-----------------------------------------------------------------------------

\* What waits at a port.
LEMMA AtPort ==
  ASSUME TypeOK, Waiting, NEW p \in Ports
  PROVE  /\ DOMAIN nic[p] = 1..Len(nic[p]) /\ Len(nic[p]) \in Nat
         /\ arrived[p] \in Nat /\ Taken[p] = arrived[p] - Len(nic[p]) /\ Taken[p] \in Nat
         /\ \A i \in DOMAIN nic[p] : nic[p][i] = Taken[p] + i
<1>1. nic[p] \in Seq(Packets) /\ arrived[p] \in Nat
  BY DEF TypeOK
<1>2. DOMAIN nic[p] = 1..Len(nic[p]) /\ Len(nic[p]) \in Nat
  BY <1>1
<1>3. Taken[p] = arrived[p] - Len(nic[p])
  BY DEF Taken
<1>4. Len(nic[p]) <= arrived[p] /\ \A i \in DOMAIN nic[p] : nic[p][i] = Taken[p] + i
  BY <1>2 DEF Waiting
<1> QED
  BY <1>1, <1>2, <1>3, <1>4

\* The inductive invariant holds throughout.
LEMMA Invariant == Spec => []IInv
<1>1. Init => IInv
  <2> SUFFICES ASSUME Init
               PROVE  IInv
    OBVIOUS
  <2>1. TypeOK
    BY WorkHorseAssumption DEF Init, TypeOK
  <2>2. Stuck /\ Loss /\ QueueOrder
    BY WorkHorseAssumption DEF Init, Stuck, Loss, QueueOrder
  <2>3. Spots = {}
    BY DEF Init, Spots
  <2>4. \A p \in Ports : Len(nic[p]) = 0 /\ arrived[p] = 0 /\ Taken[p] = 0
    BY DEF Init, Taken
  <2>5. Waiting /\ Received /\ Covered /\ Distinct
    BY <2>3, <2>4 DEF Waiting, Received, Covered, Distinct
  <2> QED
    BY <2>1, <2>2, <2>5 DEF IInv
<1>2. IInv /\ [Next]_vars => IInv'
  <2>1. IInv => TypeOK /\ Stuck /\ Loss /\ Waiting /\ Numbering /\ QueueOrder
    BY DEF IInv, Numbering
  <2>2. Numbering' => Waiting' /\ Received' /\ Covered' /\ Distinct'
    BY DEF Numbering
  <2> QED
    BY <2>1, <2>2, TypeStep, StuckStep, LossStep, NumberingStep, QueueOrderStep DEF IInv
<1> QED
  BY <1>1, <1>2, PTL DEF Spec

\* Every variable keeps the shape engine.rs gives it, and the ArrayQueue never
\* has more batches than its capacity.
THEOREM TypeCorrect == Spec => []TypeOK
BY Invariant, PTL DEF IInv

\* Once a batch is in the queue rx_main has the thread for good: the queue that
\* it fills is emptied by nobody, whatever the caller does with the channel.
THEOREM AlwaysRxKeepsThread == Spec => []RxKeepsThread
<1>1. IInv => RxKeepsThread
  BY DEF IInv, Stuck, RxKeepsThread
<1> QED
  BY <1>1, Invariant, PTL

\* For any number of ports and any capacity, rx_main frees unseen at most one
\* batch of each port but the first, over a whole run.
THEOREM AlwaysBoundedLoss == Spec => []BoundedLoss
<1>1. IInv => BoundedLoss
  <2> SUFFICES ASSUME IInv, dropped # <<>>
               PROVE  Len(dropped) <= NPorts - 1
    BY DEF BoundedLoss
  <2>1. Len(dropped) + 1 <= NPorts /\ Len(dropped) \in Nat
    BY DEF IInv, Loss, TypeOK
  <2> QED
    BY <2>1, WorkHorseAssumption
<1> QED
  BY <1>1, Invariant, PTL

\* The packets of each port stay in the order in which they arrived, in the
\* queue and from the queue to the port.
THEOREM AlwaysPortOrder == Spec => []PortOrder
<1>1. IInv => PortOrder
  <2> SUFFICES ASSUME IInv
               PROVE  PortOrder
    OBVIOUS
  <2>1. \A p \in Ports : /\ DOMAIN nic[p] = 1..Len(nic[p]) /\ Len(nic[p]) \in Nat
                         /\ Taken[p] \in Nat
                         /\ \A i \in DOMAIN nic[p] : nic[p][i] = Taken[p] + i
    BY AtPort DEF IInv
  <2>2. \A p \in Ports : Increasing(nic[p])
    BY <2>1 DEF Increasing
  <2>3. ASSUME NEW i \in DOMAIN queue
        PROVE  AllBefore(queue[i].buf, nic[queue[i].portid])
    <3>1. /\ <<"queue", i>> \in Spots /\ BatchAt[<<"queue", i>>] = queue[i]
      BY DEF Spots, BatchAt
    <3>2. queue[i].portid \in Ports
      BY <3>1, SpotsTyped DEF IInv
    <3>3. \A k \in DOMAIN queue[i].buf : queue[i].buf[k] \in 1..Taken[queue[i].portid]
      BY <3>1 DEF IInv, Received
    <3> QED
      BY <2>1, <3>2, <3>3 DEF AllBefore
  <2> QED
    BY <2>2, <2>3 DEF IInv, QueueOrder, PortOrder
<1> QED
  BY <1>1, Invariant, PTL

\* Every packet that has arrived is in exactly one place, at its port, in the
\* queue or in a batch that was refused, and no other packet is anywhere.
THEOREM AlwaysEveryPacketOnce == Spec => []EveryPacketOnce
<1>1. ASSUME IInv, NEW p \in Ports, NEW n \in Packets
      PROVE  Cardinality(Places(p, n)) = (IF n <= arrived[p] THEN 1 ELSE 0)
  <2>1. /\ DOMAIN nic[p] = 1..Len(nic[p]) /\ Len(nic[p]) \in Nat
        /\ arrived[p] \in Nat /\ Taken[p] = arrived[p] - Len(nic[p]) /\ Taken[p] \in Nat
        /\ \A i \in DOMAIN nic[p] : nic[p][i] = Taken[p] + i
    BY <1>1, AtPort DEF IInv
  <2>2. n \in Nat \ {0}
    BY DEF Packets
  <2>3. \A x : x \in Places(p, n) <=>
           \/ \E i \in DOMAIN nic[p] : nic[p][i] = n /\ x = <<"port", <<p, i>>>>
           \/ \E s \in Spots : /\ BatchAt[s].portid = p
                                /\ \E k \in DOMAIN BatchAt[s].buf :
                                     BatchAt[s].buf[k] = n /\ x = <<s[1], <<s[2], k>>>>
    <3>1. \A x : x \in {"queue"} \X PositionsIn(queue, p, n) <=>
             \E i \in DOMAIN queue : /\ queue[i].portid = p
                                     /\ \E k \in DOMAIN queue[i].buf :
                                          queue[i].buf[k] = n /\ x = <<"queue", <<i, k>>>>
      BY DEF PositionsIn
    <3>2. \A x : x \in {"dropped"} \X PositionsIn(dropped, p, n) <=>
             \E i \in DOMAIN dropped : /\ dropped[i].portid = p
                                       /\ \E k \in DOMAIN dropped[i].buf :
                                            dropped[i].buf[k] = n /\ x = <<"dropped", <<i, k>>>>
      BY DEF PositionsIn
    <3>3. \A i \in DOMAIN queue : <<"queue", i>> \in Spots /\ BatchAt[<<"queue", i>>] = queue[i]
      BY DEF Spots, BatchAt
    <3>4. \A i \in DOMAIN dropped : /\ <<"dropped", i>> \in Spots
                                    /\ BatchAt[<<"dropped", i>>] = dropped[i]
      BY DEF Spots, BatchAt
    <3>5. \A s \in Spots : \/ \E i \in DOMAIN queue : s = <<"queue", i>>
                           \/ \E i \in DOMAIN dropped : s = <<"dropped", i>>
      BY DEF Spots
    <3>6. \A x : x \in {"port"} \X {<<p, i>> : i \in {i \in DOMAIN nic[p] : nic[p][i] = n}} <=>
             \E i \in DOMAIN nic[p] : nic[p][i] = n /\ x = <<"port", <<p, i>>>>
      OBVIOUS
    <3>7. ASSUME NEW x
          PROVE  (\E s \in Spots : /\ BatchAt[s].portid = p
                                   /\ \E k \in DOMAIN BatchAt[s].buf :
                                        BatchAt[s].buf[k] = n /\ x = <<s[1], <<s[2], k>>>>)
                   <=> \/ x \in {"queue"} \X PositionsIn(queue, p, n)
                       \/ x \in {"dropped"} \X PositionsIn(dropped, p, n)
      <4>1. ASSUME NEW s \in Spots, BatchAt[s].portid = p,
                   NEW k \in DOMAIN BatchAt[s].buf, BatchAt[s].buf[k] = n,
                   x = <<s[1], <<s[2], k>>>>
            PROVE  \/ x \in {"queue"} \X PositionsIn(queue, p, n)
                   \/ x \in {"dropped"} \X PositionsIn(dropped, p, n)
        <5>1. CASE \E i \in DOMAIN queue : s = <<"queue", i>>
          BY <3>1, <3>3, <4>1, <5>1
        <5>2. CASE \E i \in DOMAIN dropped : s = <<"dropped", i>>
          BY <3>2, <3>4, <4>1, <5>2
        <5> QED
          BY <3>5, <5>1, <5>2
      <4>2. ASSUME x \in {"queue"} \X PositionsIn(queue, p, n)
            PROVE  \E s \in Spots : /\ BatchAt[s].portid = p
                                    /\ \E k \in DOMAIN BatchAt[s].buf :
                                         BatchAt[s].buf[k] = n /\ x = <<s[1], <<s[2], k>>>>
        <5>1. PICK i \in DOMAIN queue : /\ queue[i].portid = p
                                        /\ \E k \in DOMAIN queue[i].buf :
                                             queue[i].buf[k] = n /\ x = <<"queue", <<i, k>>>>
          BY <3>1, <4>2
        <5> QED
          BY <3>3, <5>1, ZenonT(30)
      <4>3. ASSUME x \in {"dropped"} \X PositionsIn(dropped, p, n)
            PROVE  \E s \in Spots : /\ BatchAt[s].portid = p
                                    /\ \E k \in DOMAIN BatchAt[s].buf :
                                         BatchAt[s].buf[k] = n /\ x = <<s[1], <<s[2], k>>>>
        <5>1. PICK i \in DOMAIN dropped : /\ dropped[i].portid = p
                                          /\ \E k \in DOMAIN dropped[i].buf :
                                               dropped[i].buf[k] = n /\ x = <<"dropped", <<i, k>>>>
          BY <3>2, <4>3
        <5> QED
          BY <3>4, <5>1, ZenonT(30)
      <4> QED
        BY <4>1, <4>2, <4>3
    <3> QED
      BY <3>6, <3>7 DEF Places
  <2>4. \A s \in Spots : \A k \in DOMAIN BatchAt[s].buf :
           BatchAt[s].portid = p /\ BatchAt[s].buf[k] = n => n <= Taken[p]
    BY <1>1, <2>1 DEF IInv, Received
  <2>5. CASE n <= Taken[p]
    <3>1. PICK s \in Spots : /\ BatchAt[s].portid = p
                             /\ \E k \in DOMAIN BatchAt[s].buf : BatchAt[s].buf[k] = n
      BY <1>1, <2>1, <2>2, <2>5 DEF IInv, Covered
    <3>2. PICK k \in DOMAIN BatchAt[s].buf : BatchAt[s].buf[k] = n
      BY <3>1
    <3>3. \A i \in DOMAIN nic[p] : nic[p][i] # n
      BY <2>1, <2>2, <2>5
    <3>4. \A u \in Spots : \A j \in DOMAIN BatchAt[u].buf :
             BatchAt[u].portid = p /\ BatchAt[u].buf[j] = n => u = s /\ j = k
      BY <1>1, <3>1, <3>2 DEF IInv, Distinct
    <3>5. Places(p, n) = {<<s[1], <<s[2], k>>>>}
      BY <2>3, <3>1, <3>2, <3>3, <3>4
    <3>6. Cardinality(Places(p, n)) = 1
      BY <3>5, FS_Singleton
    <3> QED
      BY <2>1, <2>2, <2>5, <3>6
  <2>6. CASE n > Taken[p] /\ n <= arrived[p]
    <3>1. n - Taken[p] \in DOMAIN nic[p] /\ nic[p][n - Taken[p]] = n
      <4>1. n - Taken[p] \in DOMAIN nic[p]
        BY <2>1, <2>2, <2>6
      <4>2. nic[p][n - Taken[p]] = Taken[p] + (n - Taken[p])
        BY <2>1, <4>1
      <4> QED
        BY <2>1, <2>2, <4>1, <4>2
    <3>2. \A i \in DOMAIN nic[p] : nic[p][i] = n => i = n - Taken[p]
      BY <2>1, <2>2
    <3>3. \A s \in Spots : \A k \in DOMAIN BatchAt[s].buf :
             ~(BatchAt[s].portid = p /\ BatchAt[s].buf[k] = n)
      BY <2>1, <2>2, <2>4, <2>6
    <3>4. Places(p, n) = {<<"port", <<p, n - Taken[p]>>>>}
      BY <2>3, <3>1, <3>2, <3>3
    <3> QED
      BY <2>6, <3>4, FS_Singleton
  <2>7. CASE n > arrived[p]
    <3>1. \A i \in DOMAIN nic[p] : nic[p][i] # n
      BY <2>1, <2>2, <2>7
    <3>2. \A s \in Spots : \A k \in DOMAIN BatchAt[s].buf :
             ~(BatchAt[s].portid = p /\ BatchAt[s].buf[k] = n)
      BY <2>1, <2>2, <2>4, <2>7
    <3>3. Places(p, n) = {}
      BY <2>3, <3>1, <3>2
    <3> QED
      BY <2>1, <2>2, <2>7, <3>3, FS_EmptySet
  <2> QED
    BY <2>1, <2>2, <2>5, <2>6, <2>7
<1>2. IInv => EveryPacketOnce
  BY <1>1 DEF EveryPacketOnce
<1> QED
  BY <1>2, Invariant, PTL

\* No step takes a batch out of the queue again, so a queue that is full stays
\* full: process_packets would take them out, and never has the thread while
\* there is one.  This is why QueueEmptied is violated, for any ports and any
\* capacity.
THEOREM QueueNeverShrinks == Spec => [][Len(queue') >= Len(queue)]_vars
<1>1. IInv /\ [Next]_vars => [Len(queue') >= Len(queue)]_vars
  <2> SUFFICES ASSUME IInv, [Next]_vars
               PROVE  Len(queue') >= Len(queue)
    OBVIOUS
  <2>1. queue \in Seq(Batch) /\ Len(queue) \in Nat /\ Stuck
    BY DEF IInv, TypeOK
  <2>2. ASSUME NEW n \in 0..BurstMax, ForPort(n)
        PROVE  queue' = queue \/ queue' = Append(queue, Burst(n))
    BY <2>2 DEF ForPort, push, Burst
  <2>3. ASSUME NEW p \in Ports, Arrive(p)
        PROVE  queue' = queue
    BY <2>3 DEF Arrive
  <2>4. ASSUME NEW n \in 0..BurstMax, queue' = Append(queue, Burst(n))
        PROVE  Len(queue') = Len(queue) + 1
    BY <2>1, <2>4
  <2> QED
    BY <2>1, <2>2, <2>3, <2>4, PacketSteps
<1> QED
  BY <1>1, Invariant, PTL DEF Spec
=============================================================================
