--------------------------- MODULE PacketBuffers ---------------------------
(***************************************************************************)
(* Who owns a DPDK message buffer.  Buffers live in memory that several    *)
(* threads of several processes share, and each one moves between memory   *)
(* pools, Mbuf values (dpdk/mbuf.rs), rings (dpdk/memring.rs) and the      *)
(* queues of the network card (dpdk/port.rs).  Rust checks ownership of    *)
(* Mbuf values only: what happens to a buffer once into_ptr has made a raw *)
(* pointer of it is up to the code modelled here.                          *)
(*                                                                         *)
(* A buffer is lost when nobody owns it: it can never be allocated again.  *)
(***************************************************************************)
EXTENDS Integers, Sequences, FiniteSets, Functions

CONSTANTS
  Threads,    \* the threads that use buffers, engine and clients
  Mbufs,      \* the buffers of all pools
  Pools,      \* the memory pools
  Home,       \* rte_mbuf::pool, the pool each buffer was made for
  Local,      \* MEMPOOL, the pool each thread allocates from
  Rings,      \* the rte_rings
  Slots,      \* `capacity` of Ring::new; one slot of a ring stays empty
  BurstMax,   \* RX_BURST_MAX, the most packets one receive returns
  MaxBatch,   \* bound: buffers in a call of transmit or free_bulk
  U16,        \* how many values a u16 has
  TxDescs     \* descriptors of the card's transmit queue

ASSUME BuffersAssumption ==
  /\ Home \in [Mbufs -> Pools]
  /\ Local \in [Threads -> Pools]
  /\ Slots \in Nat \ {0, 1}
  /\ {BurstMax, MaxBatch} \subseteq Nat
  /\ U16 \in Nat \ {0}
  /\ TxDescs \in Nat

VARIABLES
  free,       \* the buffers in each pool
  held,       \* the buffers of the Mbuf values each thread owns
  sending,    \* the raw pointers of a transmit call that has not returned
  rings,      \* contents of the live rings; no entry after Ring is dropped
  rxq,        \* buffers with packets the card has received
  txq,        \* buffers the card has taken to send
  panicked    \* the threads that an assertion has ended

vars == <<free, held, sending, rings, rxq, txq, panicked>>

-----------------------------------------------------------------------------

Batches(S) == {s \in UNION {[1..n -> S] : n \in 0..MaxBatch} : IsInjective(s)}

TypeOK ==
  /\ free \in [Pools -> SUBSET Mbufs]
  /\ held \in [Threads -> SUBSET Mbufs]
  /\ sending \in [Threads -> Seq(Mbufs)]
  /\ DOMAIN rings \subseteq Rings
  /\ \A r \in DOMAIN rings : rings[r] \in Seq(Mbufs) /\ Len(rings[r]) < Slots
  /\ rxq \subseteq Mbufs
  /\ txq \subseteq Mbufs
  /\ panicked \subseteq Threads

Init ==
  /\ free = [q \in Pools |-> {m \in Mbufs : Home[m] = q}]
  /\ held = [t \in Threads |-> {}]
  /\ sending = [t \in Threads |-> <<>>]
  /\ rings = [r \in Rings |-> <<>>]
  /\ rxq = {}
  /\ txq = {}
  /\ panicked = {}

\* Thread t is running code of its own, not the loop of transmit.
Running(t) == t \notin panicked /\ sending[t] = <<>>

-----------------------------------------------------------------------------
(* The card (external): it takes empty buffers for its receive queue and   *)
(* gives sent ones back to the pool they were made for.                    *)

CardReceive(q, m) ==
  /\ m \in free[q]
  /\ free' = [free EXCEPT ![q] = @ \ {m}]
  /\ rxq' = rxq \cup {m}
  /\ UNCHANGED <<held, sending, rings, txq, panicked>>

CardSent(m) ==
  /\ m \in txq
  /\ txq' = txq \ {m}
  /\ free' = [free EXCEPT ![Home[m]] = @ \cup {m}]
  /\ UNCHANGED <<held, sending, rings, rxq, panicked>>

-----------------------------------------------------------------------------
(* Mbuf.                                                                   *)

\* Mbuf::new and Mbuf::alloc_bulk: all the buffers, or an error and none.
alloc_bulk(t, S) ==
  /\ Running(t)
  /\ S # {} /\ S \subseteq free[Local[t]]
  /\ free' = [free EXCEPT ![Local[t]] = @ \ S]
  /\ held' = [held EXCEPT ![t] = @ \cup S]
  /\ UNCHANGED <<sending, rings, rxq, txq, panicked>>

\* Drop for Mbuf.
drop(t, m) ==
  /\ Running(t)
  /\ m \in held[t]
  /\ held' = [held EXCEPT ![t] = @ \ {m}]
  /\ free' = [free EXCEPT ![Home[m]] = @ \cup {m}]
  /\ UNCHANGED <<sending, rings, rxq, txq, panicked>>

\* mbuf_free_bulk.  `pool` is the pool of the first buffer and is never
\* assigned again, so every group of buffers is put there.
mbuf_free_bulk(ptrs) ==
  free' = [free EXCEPT ![Home[ptrs[1]]] = @ \cup Range(ptrs)]

\* assert!(!mbufs.is_empty()) fails: the thread unwinds and drops its Mbufs.
Panic(t) ==
  /\ panicked' = panicked \cup {t}
  /\ free' = [q \in Pools |-> free[q] \cup {m \in held[t] : Home[m] = q}]
  /\ held' = [held EXCEPT ![t] = {}]

free_bulk(t, ptrs) ==
  /\ Running(t)
  /\ ptrs \in Batches(held[t])
  /\ \/ /\ ptrs # <<>>
        /\ mbuf_free_bulk(ptrs)
        /\ held' = [held EXCEPT ![t] = @ \ Range(ptrs)]
        /\ UNCHANGED panicked
     \/ /\ ptrs = <<>>
        /\ Panic(t)
  /\ UNCHANGED <<sending, rings, rxq, txq>>

-----------------------------------------------------------------------------
(* Ring.                                                                   *)

\* Mutant: the reserved slot is used too.
HasRoomFull(r) == Len(rings[r]) <= Slots - 1

HasRoom(r) == Len(rings[r]) < Slots - 1

\* Ring::enqueue: into_ptr forgets the Mbuf before the ring is asked; when the
\* ring is full nobody owns the buffer any more.
enqueue(t, r, m) ==
  /\ Running(t)
  /\ r \in DOMAIN rings
  /\ m \in held[t]
  /\ held' = [held EXCEPT ![t] = @ \ {m}]
  /\ rings' = IF HasRoom(r) THEN [rings EXCEPT ![r] = Append(@, m)] ELSE rings
  /\ UNCHANGED <<free, sending, rxq, txq, panicked>>

\* Ring::dequeue: takes an Mbuf to store into.  The pointer that comes off the
\* ring is written to a temporary copy of that Mbuf's pointer, so the Mbuf
\* stays what it was.  An empty ring is an error and changes nothing.
dequeue(t, r) ==
  /\ Running(t)
  /\ r \in DOMAIN rings
  /\ held[t] # {}
  /\ rings[r] # <<>>
  /\ rings' = [rings EXCEPT ![r] = Tail(@)]
  /\ UNCHANGED <<free, held, sending, rxq, txq, panicked>>

\* Drop for Ring: rte_ring_free does not look at what the ring holds.
dropRing(r) ==
  /\ r \in DOMAIN rings
  /\ rings' = Restrict(rings, DOMAIN rings \ {r})
  /\ UNCHANGED <<free, held, sending, rxq, txq, panicked>>

-----------------------------------------------------------------------------
(* PortQueue.                                                              *)

\* PortQueue::receive.
receive(t, S) ==
  /\ Running(t)
  /\ S # {} /\ S \subseteq rxq /\ Cardinality(S) <= BurstMax
  /\ rxq' = rxq \ S
  /\ held' = [held EXCEPT ![t] = @ \cup S]
  /\ UNCHANGED <<free, sending, rings, txq, panicked>>

\* PortQueue::transmit turns the packets into pointers and enters its loop.  The
\* loop sends 0 of 0 packets of an empty batch, and mbuf_free_bulk refuses it.
transmit(t, ptrs) ==
  /\ Running(t)
  /\ ptrs \in Batches(held[t])
  /\ \/ /\ ptrs # <<>>
        /\ sending' = [sending EXCEPT ![t] = ptrs]
        /\ held' = [held EXCEPT ![t] = @ \ Range(ptrs)]
        /\ UNCHANGED <<free, panicked>>
     \/ /\ ptrs = <<>>
        /\ Panic(t)
        /\ UNCHANGED sending
  /\ UNCHANGED <<rings, rxq, txq>>

\* rte_eth_tx_burst: how many of the packets the card may take, none if it is
\* full.
Accepted(to_send) == {n \in 0..to_send : n <= TxDescs - Cardinality(txq)}

\* Mutant: the packets already sent are not drained from the batch.
tx_burstUndrained(t, sent) ==
  LET ptrs == sending[t]
      to_send == Len(ptrs) % U16
  IN
  /\ ptrs # <<>>
  /\ sent \in Accepted(to_send)
  /\ txq' = txq \cup Range(SubSeq(ptrs, 1, sent))
  /\ IF sent > 0
     THEN /\ sending' = [sending EXCEPT ![t] = IF sent < to_send THEN ptrs ELSE <<>>]
          /\ UNCHANGED free
     ELSE /\ sending' = [sending EXCEPT ![t] = <<>>]
          /\ mbuf_free_bulk(ptrs)
  /\ UNCHANGED <<held, rings, rxq, panicked>>

\* Mutant: the packets that cannot be sent are not freed.
tx_burstForgetting(t, sent) ==
  LET ptrs == sending[t]
      to_send == Len(ptrs) % U16
  IN
  /\ ptrs # <<>>
  /\ sent \in Accepted(to_send)
  /\ txq' = txq \cup Range(SubSeq(ptrs, 1, sent))
  /\ sending' = [sending EXCEPT ![t] =
                   IF 0 < sent /\ sent < to_send THEN SubSeq(ptrs, sent + 1, Len(ptrs)) ELSE <<>>]
  /\ UNCHANGED <<free, held, rings, rxq, panicked>>

\* Mutant: a full transmit queue is tried again.
tx_burstRetrying(t, sent) ==
  LET ptrs == sending[t]
      to_send == Len(ptrs) % U16
  IN
  /\ ptrs # <<>>
  /\ sent \in Accepted(to_send)
  /\ txq' = txq \cup Range(SubSeq(ptrs, 1, sent))
  /\ sending' = [sending EXCEPT ![t] =
                   IF sent < to_send THEN SubSeq(ptrs, sent + 1, Len(ptrs)) ELSE <<>>]
  /\ UNCHANGED <<free, held, rings, rxq, panicked>>

\* One round of transmit's loop: the card is offered the length of the batch
\* cut to 16 bits and takes the first `sent` packets.  If it takes none, all are
\* freed; if it takes less than it was offered, the rest is tried again; if it
\* takes all it was offered, the call returns, and the pointers behind the cut
\* are forgotten.
tx_burst(t, sent) ==
  LET ptrs == sending[t]
      to_send == Len(ptrs) % U16
  IN
  /\ ptrs # <<>>
  /\ sent \in Accepted(to_send)
  /\ txq' = txq \cup Range(SubSeq(ptrs, 1, sent))
  /\ \/ /\ 0 < sent /\ sent < to_send
        /\ sending' = [sending EXCEPT ![t] = SubSeq(ptrs, sent + 1, Len(ptrs))]
        /\ UNCHANGED free
     \/ /\ 0 < sent /\ sent = to_send
        /\ sending' = [sending EXCEPT ![t] = <<>>]
        /\ UNCHANGED free
     \/ /\ sent = 0
        /\ sending' = [sending EXCEPT ![t] = <<>>]
        /\ mbuf_free_bulk(ptrs)
  /\ UNCHANGED <<held, rings, rxq, panicked>>

-----------------------------------------------------------------------------

ThreadStep(t) ==
  \/ \E S \in SUBSET Mbufs : alloc_bulk(t, S) \/ receive(t, S)
  \/ \E m \in Mbufs : drop(t, m)
  \/ \E ptrs \in Batches(held[t]) : free_bulk(t, ptrs) \/ transmit(t, ptrs)
  \/ \E r \in Rings : (\E m \in Mbufs : enqueue(t, r, m)) \/ dequeue(t, r)

TransmitStep(t) == \E sent \in 0..MaxBatch : tx_burst(t, sent)

Next ==
  \/ \E t \in Threads : ThreadStep(t) \/ TransmitStep(t)
  \/ \E r \in Rings : dropRing(r)
  \/ \E q \in Pools, m \in Mbufs : CardReceive(q, m)
  \/ \E m \in Mbufs : CardSent(m)

\* The loop of transmit waits for nothing.
Spec ==
  /\ Init
  /\ [][Next]_vars
  /\ \A t \in Threads : WF_vars(TransmitStep(t))

-----------------------------------------------------------------------------
(* Properties.                                                             *)

\* The places that own buffer m: whoever is among them may hand it on or free
\* it.
Owners(m) ==
  {<<"pool", q>> : q \in {q \in Pools : m \in free[q]}}
    \cup {<<"thread", t>> : t \in {t \in Threads : m \in held[t]}}
    \cup (UNION {{<<"sending", t, i>> : i \in {i \in DOMAIN sending[t] : sending[t][i] = m}}
                   : t \in Threads})
    \cup (UNION {{<<"ring", r, i>> : i \in {i \in DOMAIN rings[r] : rings[r][i] = m}}
                   : r \in DOMAIN rings})
    \cup (IF m \in rxq THEN {<<"card", "rx">>} ELSE {})
    \cup (IF m \in txq THEN {<<"card", "tx">>} ELSE {})

\* No buffer has two owners, so none is freed twice or written while it is
\* being sent, whatever the threads, the rings and the card do in between.
UniqueOwner == \A m \in Mbufs : Cardinality(Owners(m)) <= 1

Lost == {m \in Mbufs : Owners(m) = {}}

\* Buffers get lost in four places only: the one handed to a full ring, the one
\* taken off a ring, those in a ring that is freed, and those of a batch of
\* more than u16::MAX packets that are behind the cut of its length.  receive,
\* transmit of any shorter batch (its error path too), drop, free_bulk and a
\* panic lose none, and what is lost never comes back.
LossesKnown ==
  [][\/ Lost' = Lost
     \/ \E r \in DOMAIN rings, m \in Mbufs :
          /\ Lost' = Lost \cup {m}
          /\ \/ rings' = rings /\ ~HasRoom(r) /\ \E t \in Threads : m \in held[t]
             \/ r \in DOMAIN rings' /\ rings[r] = <<m>> \o rings'[r]
     \/ \E r \in DOMAIN rings \ DOMAIN rings' : Lost' = Lost \cup Range(rings[r])
     \/ \E t \in Threads : /\ Len(sending[t]) >= U16
                           /\ sending'[t] = <<>>
                           /\ Lost' = Lost \cup (Range(sending[t]) \ txq')]_vars

\* transmit returns: "start dropping packets to avoid potentially stuck in an
\* endless loop" (port.rs:174).
TransmitReturns == \A t \in Threads : sending[t] # <<>> ~> sending[t] = <<>>

\* "Dequeue a single packet from the ring" (memring.rs:123): the packet that
\* leaves the ring is in the hands of a thread.
DequeueDelivers ==
  [][\A r \in DOMAIN rings \cap DOMAIN rings' :
       Len(rings'[r]) < Len(rings[r]) =>
         \E t \in Threads : Head(rings[r]) \in held'[t]]_vars

\* "`Mempool` on the same socket as the current core [...] New `Mbuf` is
\* allocated on this `Mempool`" (mempool.rs:108-111): a pool gives out the
\* buffers that were made for it.
PoolsKeepTheirOwn == \A q \in Pools : \A m \in free[q] : Home[m] = q
=============================================================================
