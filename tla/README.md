# l2switch: a TLA+ model of the switch engine

The repository is a virtual L2 switch for containers: an engine process moves
packets between network cards and pods over DPDK rings, and pods register with
the engine over ZeroMQ.  These modules model the engine's own logic, translated
from `sw-engine/engine/src`.  TLC checks them on small instances, TLAPS proves
the main results for all values of the constants.

## The system

| part | source | state | operations | interacts with |
|---|---|---|---|---|
| control plane | `runtime/engine.rs` | `statusmap`, `ringmap`, REP socket, `new_msg` | `get_msg`, `check_n_set_client_status`, `set_client_status` | pods over ZeroMQ, rings in shared memory |
| data plane | `runtime/engine.rs` | ArrayQueue of batches, oneshot receiver, LocalPool | `work_horse`, `rx_main`, `process_packets` | port queues, forwarding table, caller |
| message buffers | `dpdk/mbuf.rs`, `dpdk/mod.rs` | owner of each buffer, its bytes | `new`, `alloc_bulk`, `free_bulk`, `drop`, `extend`, `shrink`, `truncate`, reads, writes | pools, rings, cards |
| rings and Channels | `dpdk/memring.rs` | contents, owners, the memory they are in | `enqueue`, `dequeue`, `drop`, `Channel`, `EngineRingMap` | engine and pods |
| ports | `dpdk/port.rs`, `dpdk/mempool.rs` | builder, device, queue and pool of each core | `PortBuilder`, `finish`, `start`, `stop`, `drop`, `receive`, `transmit` | card, pools, cores of the configuration |
| forwarding table | `net/routing_table.rs` | two maps, two locks | `add`, `contains_mac`, `contains_ip`, `get_mac`, `get_ip` | any thread |
| container client | `dockerlib/client_comm.rs` | id counter, REQ socket, Channel | `new`, `register`, `notify`, `terminate`, `setup_channel`, `drop` | engine, rings |
| CIDR blocks | `net/cidr` | a block, an iterator | parsing, printing, the trait, iteration | |
| runtime configuration | `config.rs`, `dpdk/mod.rs` | cores, EAL | `all_cores`, `to_eal_args`, `eal_init` | ports |
| packet headers, addresses | `net/*.rs` | none | field access, conversion to text | |

What is hard about it: pods and engine wait for one another over a strict
request/answer socket, pods crash and repeat themselves; buffers live in memory
that several processes and the card share and are passed as raw pointers; both
ends of a Channel own the same two rings, and each frees them; the
tasks of the data plane share one thread and give it up only where they await;
the forwarding table takes two locks one after the other, and locks can be
poisoned.  The `hazards` of `PROJECT.json` list the places.

What makes each part correct: registrations leave rings and maps exact on every
path, and every pod that asks is served; every buffer has one owner at any time
and none is lost; packets keep their order, losses are bounded, every task
gets its turn; the tables change together and every call comes back; the bytes
of a packet are moved without loss and nothing outside it is touched; a client
hears of what the engine did for it, and what is sent on a Channel arrives; a
block of addresses is one block whichever way it is looked at; each core of a
port has its own queue with a pool of its socket, and the EAL knows the core.

## Modules

* **EngineControl** is the control plane.  `pipes` and `req` are the requests and
  the REQ sockets of the peers, `rep` and `asker` the engine's REP socket,
  `new_msg`, `statusmap` and `ringmap` the fields of `Engine`, `rings` the names
  of the live `rte_ring`s, `pc` the place inside `set_client_status`.  The arm
  for `PodStarting` is split at the calls other processes can observe (two ring
  creations, the answer, the inserts); the other arms are one step each.  The
  peers are arbitrary: they may send malformed text, die and come back, and free
  a ring they share with the engine (`FreeRing`; `freed` is history).  After that
  the engine's own pointers may be stale, and dropping a Channel may free any ring
  (`DropRings`).
  `get_msg` has no caller in the repository, and is allowed whenever the engine
  thread is not inside `set_client_status`.
* **EngineControlProofs** proves its safety properties.
* **PacketBuffers** is the ownership of buffers.  `free`, `held`, `sending`,
  `rings`, `rxq`, `txq` say where each buffer is; a buffer that is nowhere is
  lost.  They are sets and sequences, not a function from buffers to places, so
  that a buffer could be at two places or at none.  The loop of
  `PortQueue::transmit` is split into rounds (`tx_burst`), every other operation
  is one step; the steps of the threads and of the card interleave.  The length of
  a batch is cut to a `u16`, as `transmit` does; batches may be longer.
  **PacketBuffersProofs** proves who owns the buffers.
* **WorkHorse** is the data plane: `exec` is the task that has the thread, `pc`
  and `port` the place in `rx_main`, which is split at every look at shared
  state (the channel, the queue, a port).  The pool polls the handle of
  `rx_main`, then the tasks in the order they were spawned.  Packets are
  numbered by port as they arrive.  **WorkHorseProofs** proves its safety
  properties.
* **RoutingTable** is the forwarding table with its locks, one step per lock
  operation.  The constant `SelfRead` says what a thread gets that reads a lock
  it holds for writing (a panic with the pthread lock, an endless wait with the
  futex lock).  The condition of `add` and its two inserts are in the model, but
  no thread gets to them: it asks for a lock it holds itself.  So nothing is ever
  learned, although `add` should "add a mac and ip to the routing table"
  (`routing_table.rs:21`).  **RoutingTableProofs** proves its invariants.
* **MbufData** is the memory of one buffer under the data operations, and
  **ByteBuffer** the abstract specification it implements: a string of bytes.
  **MbufDataProofs** proves its memory safety and the refinement.
* **PodLink** is the link between a pod and the engine seen from both ends: the
  id counter, the client with its REQ socket and its Channel, the engine's
  answers, and the memory the rings are in (`mem`, by address).  What
  `to_json` writes is not JSON (single quotes, a comma after the last name), so
  the engine never reads it; but `get_socket` is public, and the program of a
  pod may write requests of its own (`write`), without which nothing would ever be
  registered.  A Channel comes from `setup_channel` only: the module `dpdk` is
  private to the crate.  `send` keeps its three
  outcomes, the one after a retry included that returns Ok and has sent nothing.
  Addresses are used again: freeing an address frees whichever ring is there
  now.  The engine reads and serves a request in one step (its steps are
  EngineControl's), because nothing else touches the maps.  `own` and `ready` in
  a client and `freed` are history.
* **PodLinkProofs** proves its four properties, and that a client that has sent
  PodReady never gets its socket back.
* **Cidr** is one module for both families, which differ in the width of an
  address only.  A machine word is the set of the positions of its ones, so the
  bit operations are set operations; a `Result` is a set of one or no element.
  `checked` says whether the build checks for overflow, because `2usize.pow` and
  the sum of the iterator then end differently.  What a block should be is
  defined by division, not by masks; `Pow2` and `Value`, the number of a word, are
  recursive functions over the positions.  **CidrProofs** proves its invariants.
* **RuntimeConfig** is the cores of the settings and the start of the EAL,
  **PortSetup** (which extends it) one Ethernet device, its `PortBuilder` and the
  Ports made with it.  The device and the `rte_eth_` calls are external and may
  fail wherever the code looks at their result; `finish` may therefore stop
  half way and leave the device reconfigured.  The builder can be used several
  times, so there may be several Ports of one device: `owner` (history) is the
  one whose `finish` came last.  A Port holds raw pointers and is not `Send`: one
  thread uses builder and Ports, and a call is one step.  `sort` and `dedup` are
  defined by the place of each element in the result, not by the algorithm of
  the standard library; the list for the EAL is a recursive function over the
  cores, as the loop of `to_eal_args` writes it.  **PortSetupProofs** proves its
  invariants.
* The **MC** modules only give the constants values.

Definitions named after a plausible bug (their comment begins with "Mutant")
are never part of a specification: each is a variant of the definition that
follows it, for which some property must fail.  They show that the properties
are not empty.

## Runs

| run | shows | bounds |
|---|---|---|
| `control` | until a pod frees a ring, the live rings are on every error path those of the registered clients and of the registration in progress, a registered client is never registered again, and an answer is sent only when both rings exist; both maps have the same keys; no message is overwritten before it is handled; a request that ends without an answer silences the engine for good, so at most one pod is ever ready; a call of `set_client_status` returns | two peers, ids 0, 1 and 65536 (which aliases 0), one queued request per peer, all faults, rings freed by pods among them |
| `control_join` | violation: "New clients send a message [...] allowing the engine to add them" (`README.md:22`).  A pod's request stays unread after any request that got no answer; and a pod that was not answered cannot "notify the engine that the container is terminating" (`client_comm.rs:152`) | two peers, two ids, no fault at all |
| `buffers` | no buffer has two owners; buffers are lost only by `enqueue` on a full ring, by `dequeue`, by freeing a ring that is not empty, and in `transmit` behind the 16-bit length of a batch that is too long; `transmit` returns | two threads on two sockets, four buffers of two pools, a ring of three places, bursts of two, batches up to four with a `u16` of three values, one transmit descriptor |
| `buffers_dequeue` | violation: "Dequeue a single packet from the ring" (`memring.rs:123`) | the same, a ring of one place |
| `buffers_pools` | violation: "New `Mbuf` is allocated on this `Mempool`" (`mempool.rs:111`), after a batch of two pools was freed | the same |
| `work_horse` | packets of a port stay in order; each is at its port, in the queue, or in a refused batch, once; at most `NPorts - 1` batches are refused; once anything is queued no other task gets the thread | three ports, four places, bursts of two, three packets per port |
| `work_horse_queue` | violation: "packets are removed from the other end of the queue" (`README.md:20`), by a `process_packets` that "consumes the packets placed in the deque by rx_main" (`engine.rs:177`): `rx_main` keeps the thread | the same |
| `routing` | locks are given back by every path, a panic included; both locks are poisoned or none; at most one `add` panics; readers of the second table come back, and those of the first do if the second is not read for ever | three threads, two MACs, one IP |
| `mbuf_data` | the packet stays inside its buffer, nothing outside is written, MbufData implements ByteBuffer | all contents of six bytes of two values, headroom two, arguments up to seven |
| `pods` | `register` and `setup_channel` never return Ok for what they have sent themselves; while the engine owes no answer, a client waits exactly as long as its own request is unread, whoever dies or repeats himself; the engine's Channels have their rings until a pod frees one | two pods that may die at any time, four addresses (two pairs of rings), ids 0 and 1 (so the counter overflows and pods share ids), two ids given out over a run, rings of one packet |
| `cidr` | which texts are refused; `contains`, `network`, `broadcast`, `hostmask`, `length` and `size` speak of one block; printing and parsing agree but for the default block; the iterator returns the block in order, and what it does when the size does not fit a `usize` | every text for addresses of 3 and of 6 bits with a `usize` of 4: the order of 32, 64 and 128 |
| `ports` | unless a later `finish` failed half way or a Port was dropped, the Port made last has the device to itself: its cores have the queues in order, all set up, with one pool on the socket of the device or, for a virtual device, of its lowest core; `all_cores` is exact, and the cores with queues are among them or are the default core 0 | eight settings, two of them with six and seven cores (cut to 0 and 1), a device on socket 1 and a virtual one, three pools on two sockets, two queues, a `u16` of six values, capacities 4 and 13 (which is cut to 1), two Ports |

The bounds are chosen so that each limit is reached: ids alias, the ring and
the queue are full (the queue in the middle of a round, because four is not a
multiple of three), the transmit queue refuses a part and all of a batch, a
second thread waits for a lock when the first panics, packets touch both ends
of the buffer.  Two byte values are enough because a byte that is lost, repeated
or moved shows in some memory of zeros and ones, and all are initial states.
Four addresses are enough for a ring to be freed at one end, made again for
another id and used by the end that still points there; pods and addresses
are interchangeable, which `pods` uses as a symmetry.  The core lists have a
core whose digits are part of another's, before and after it, a core of two
ports, and more cores than queues.

`control`, `buffers`, `mbuf_data`, `pods`, `cidr` and `ports` do not check for
deadlock: pods that all wait for an engine that never answers, threads that have
all panicked, a buffer nobody works on, an iterator that has ended and an EAL
that did not start are ends the system can reach.

Some of what holds is not what one would want, and is stated as it is:

* In `work_horse` nothing is received at all while the caller keeps its sender:
  `try_recv` gives `Ok(None)`, on which `rx_main` stops, although its comment says
  "if we receive anything over the channel" (`engine.rs:156`).  When the sender is
  gone it never stops.  `RxKeepsThread` is the reason why `QueueEmptied` fails.
* `BlockIsPrefix` has the full length where a text gives the length 0, as `new`
  has it (`v4.rs:134`); one would expect the block of all addresses.
* `IterExact` says what the iterator does when the size of the block does not fit
  a `usize`; "Iterate through CIDR range addresses" (`v6.rs:36`) promises the
  block, which it then does not give.
* Engine and client both send on the ring TX and receive from RX, so neither would
  receive what the other sends.  No run says so: nothing in the crate uses the
  client's Channel yet.
* The comment at `config.rs:246` ("limits the EAL to only the master core") and
  the test `config_to_eal_args` expect `-l 0`.  The code lists the cores of the
  ports, and leaves out one whose digits occur in the text so far: this is the
  theorem `AlwaysListExact`.  No run checks it.

## Fairness

* `control`: weak fairness of a `set_client_status` that has begun; it waits for
  nothing.  Nothing is assumed of polling, which the code does not do.
  `control_join` assumes more than the code gives (polling and handling go on
  for ever, strongly fair to each peer), and the property still fails.
* `buffers`: weak fairness of the loop in `transmit`, which waits for nothing.
  The card need not ever make progress.
* `work_horse`, `work_horse_queue`: weak fairness of the pool's thread; none of
  the caller or the network.  The pool is fair to its tasks wherever they give the
  thread up, and `QueueEmptied` still fails.
* `pods`, `cidr` and `ports` state no fairness and no liveness: nothing in the code
  makes a pod go on.
* `routing`: weak fairness of each thread.  No fairness of the locks: the pthread
  lock prefers readers.  An `add` that holds the first lock may therefore wait for
  the second one for ever while others read that table without a pause, and the
  readers of the first wait behind it.  `MacLookupsEnd` has this as its condition.

## Proofs

**EngineControlProofs**, for any set of peers and ids, any queue bound and any
faults.  Assumed of the constants: ids are natural numbers, `NoPeer` is no peer,
`NoMsg` no message.  The properties are not inductive by themselves.  `IInv` adds:

* `Handling`: while `set_client_status` runs its message is in `new_msg` (without
  it the maps would not even be typed);
* `HeldIsOwed`: a message is held only while the socket owes the answer or has
  just sent it.  So `get_msg`, which needs a socket that owes nothing, finds the
  cell empty: this is what keeps messages from being overwritten;
* `ReadyIsDeaf`: a ready client means the engine owes an answer it will never
  send.  So no message can be held when a client is ready, and no second one
  becomes ready.

What is said of the rings is conditional on `~freed`.  `NoReplacement` then
follows from `RingsExact`: a name that is taken keeps a registration from getting
past its first ring.

`IInvStep` shows one step per action that `IInv` is preserved; the theorems for
`RingsExact`, `MapsAgree`, `NoReplacement` and `OneReady` follow, and the action
properties `NoLostMessage`, `AnswerAfterRings` and `DeafForever` are shown of
every step from `IInv`.

**PacketBuffersProofs**, for any threads, rings, pools, buffers and bursts.
Assumed: a ring has two slots at least, every buffer and every thread has a pool.
A batch may be longer than a `u16` counts.  `UniqueOwner` counts owners; what is inductive is that
a buffer is at one place (`OnePlace`: two places that both hold it are the same)
and there once (`NoRepeats`: rings and batches have no element twice, which is
what makes the transmitted part of a batch and its rest disjoint).  Each action is
shown to move a set of buffers to one place each (`Moved`) or to lose some
(`Loses`), or both, as the last round of a batch that is too long
(`MovedLosing`); once for all, such a step keeps `OnePlace`, and a move keeps
`Lost`.  `UniqueOwner` and the action property `LossesKnown` follow.

**WorkHorseProofs**, for any number of ports and packets, any capacity and burst.
`IInv` adds to the types:

* `Stuck`: `rx_main` receives, and the queue has a batch, only when the sender is
  gone and `rx_main` has the thread.  This is `RxKeepsThread`, and also why no
  step ever takes a batch out of the queue (`QueueNeverShrinks`);
* `Loss`: batches are refused only in the one round that found the queue full half
  way, at ports after the one that filled it.  Without the number of the port the
  bound `NPorts - 1` is not preserved;
* `Waiting`, `Received`, `Covered`, `Distinct`: a port has the last packets that
  arrived; the batches have all those before, each once;
* `QueueOrder`: batches of one port are in order.

`PortOrder` and `EveryPacketOnce`, which compare queue, ports and refused batches,
follow from the numbering.

**RoutingTableProofs**, for any threads and addresses, and either behaviour of a
lock read by its writer.  `IInv` says of each lock which threads have it, from
the places they are at, that a writer is alone (`Exclusive`), and that only the
second lock is poisoned exactly while a thread is between the two drops of its
panic (`Poison`).  `OwnReadPanics` says that the thread at the condition of `add`
holds both locks and never gets to the inserts; so the tables stay empty
(`LearnsNothing`).  `OnePanic` follows because a
thread that panics holds the first lock until the second is poisoned, and every
thread that comes after it finds the poison.

**MbufDataProofs**, for buffers up to 65535 bytes, any headroom in them and any
arguments.  The inductive invariant is that headroom and packet fit the buffer
and both lengths agree; the lemmas `CopiedTyped`, `CopiedElsewhere` and
`WrittenTyped` say what a copy and a write do.  `FitsBuffer` and
`OutsideIntact` follow.  `ImplementsByteBuffer` is the refinement: the packet as a
sequence (`DataIs`) is compared with the abstract operations place by place, for
which `JoinIs`, `CutIs` and `SpliceIs` say what the sequence operators of
ByteBuffer give; then each call is the abstract one of the same name, or a stutter
where the code refuses (`ExtendInserts`, `ShrinkRemoves`, `TruncateRemoves`,
`WriteOverwrites`).

**CidrProofs**, for addresses of every width.  A machine word is a set of
positions, so a mask is a set of the form `k .. Bits - 1`.  The invariant says that
the block comes from the text that was parsed (`Parsed`) and that parsing accepts
exactly the lengths up to the width and the netmasks that are ones above zeros
(`AcceptsExactly`, a result of its own); printing such a block and parsing the
text is then computed case by case (`TextRoundTrip`).

`BlockIsPrefix` and `IterExact` speak of numbers.  A word splits at any position k
(`ValueSplit`): its number is that of the upper bits, a multiple of `Pow2[k]`, plus
that of the lower bits, which is less.  So masking a word is division
(`MaskedBits`), a netmask of length l is the number `2^Bits - 2^(Bits - l)` and no
other (`NetmaskNumber`, by which the length a text asks for is unique), and
`network`, `broadcast` and `hostmask` are the ends and the width of the block
(`BlockNumbers`, `Measures`).  `IterExact` needs the invariant `Iteration`: what was
returned is a run of consecutive numbers modulo `2^Bits` that starts at the
network, and the iterator, unless it has ended, holds the next one; it ends when
the last number is returned, which is the broadcast, or the number before the
network where the size wrapped to zero (`EndsAre`, `IterStep`).

**PortSetupProofs**, for any settings, pools, limits and device.  Assumed: the
settings have sequences of core numbers, there are finitely many pools and each is
on a physical socket, the descriptor limits and the numbers of queues fit a `u16`.  `QueuesExact` is preserved
only because of what the builder guarantees: its cores rise strictly
(`IsBuilder`; `CoresOnceInOrder`, a result of its own: `dedup` after `sort` leaves
each core of a vector once, in rising order, and no other),
so that giving a core its index is a bijection in order (`QueuesIs`); its pools are
filed under their own sockets (`MempoolMapIs`); and no queue beyond those
configured is set up (`IsDevice`), so that `2 * queues` set-ups are all of them
(`AfterSetupsIs`).  A builder may have more cores than a `u16` counts, but then the
set-up of a queue the device does not have fails; the cores of a Port are all
counted (`NotCut`).  `TypeOK` follows.

`ListExact` and `CoresKnown` need a second invariant, `EalInv`: the list of a started EAL is the one
computed from the settings, no Port exists before the EAL runs, and the cores of
the builder and of every Port are those of one port of the settings or the
default core 0.  What the list holds is the invariant of the loop that writes it
(`ListFits`, `ListStep`, `EalCoresAre`): cores of ports only, none twice, and every
core visited so far is found in the text.  That what is left out is part of a
*larger* core follows from `DigitsInSmaller`, for which the digits of a number are
taken apart from the right: a sequence of digits found in those of d ends with the
last digit of d or is found in those of `d \div 10`.

**Induction over data** in these two modules.  The induction theorems of the library
have an operator as a parameter, which the installed provers cannot instantiate.
Both modules therefore start from the least-element principle, which the library
states for a well-founded relation and a set (`WFMin`): `NatMin` and from it
`Induction`, where a set of numbers stands for the property.  A recursive function
is first shown to exist (`RecursionExists`: functions on `0 .. n` that obey the
equation, for every n, agree where both are defined and together give one on all
numbers), which makes its defining equation a fact; `Induction` then shows what it
computes.  `Pow2`, `Value`, `Digits`, the list for the EAL and `FlattenSeq` are treated
this way.  That the ranks of `sort` fill all places (`AllPlaces`) comes from
cardinalities.

**PodLinkProofs**, for any pods, addresses, ids and ring sizes.  Assumed: the
bounds are natural numbers, and the three values that stand for nothing are not
clients, Channels or requests.  `GenuineOk` and `ReadyNeverStops` rest on
`Conversations`, which adds the unread request to them: only a waiting client
has one, and one that will be answered is the program's own and does not come
after PodReady.  (So the socket of a ready client waits for an answer to a
request that gets none.)  `WaitersOwed` has one step per action (`WaitersStep`):
a send makes the socket wait and the request unread at once, and the engine, which
reads only while it owes nothing, either answers in the same step or is deaf from
then on.  `EngineChannelsLive` is inductive once types are known: names tell the
rings of different ids apart, and a name that is taken keeps the engine from
replacing a Channel.

Only model-checked:

* the liveness properties `CallReturns`, `TransmitReturns`, `IpLookupsEnd` and
  `MacLookupsEnd`, which are out of the prover's reach;
* what the violation runs refute.

## Abstractions

* Text is reduced to what `get_msg` tells apart: a JSON object with two numbers,
  or one of its early returns.
* Where the REP socket is connected is not modelled: both ends `connect` and
  neither binds, and the model assumes that something joins them.
* PacketBuffers frees a ring from one process; that both processes hold a `Ring`
  for the same memory is in PodLink, which counts packets and does not tell them
  apart.  A pool takes any number of buffers.
* In PodLink a use of freed memory acts on the ring that is there now, or ends
  the process, which may end anyway.  `rte_ring_lookup` is called with a name
  that has no NUL at its end, so it may miss a ring that is there.  The Channel of
  `setup_channel` is private and has no user yet; the model lets the pod send and
  receive on it, which is more than the crate does today.
* In EngineControl a pod may free any ring that is there, whether it has looked
  it up or not: whose Ring it is, is in PodLink.
* PortSetup leaves out that a device rounds the number of descriptors to a
  multiple of its alignment.
* Cidr takes an address as parsed by the standard library.
* Locks are whole: the shards of a `ShardedLock` are taken and given back
  together.
* MbufData has the arguments for which the checked build does not panic; the
  wrap-around of a release build is a hazard without a property: no caller in the
  crate passes such an offset.
* WorkHorse lets the first sleep of `check_n_set_client_status` end at any time;
  what it would do then is EngineControl's.

## Plan

Done: all modules are model-checked, and every invariant and every action property
that a run checks is proved.  Left:

* MbufData with the width of `usize` in a build that wraps.

## Not modelled

* The DPDK bindings and the C shim: `bindings_rustdoc.rs` is generated (26 211 of
  the 30 860 lines under `src`), the shim consists of one-line wrappers.  Their
  effect is stated where the other modules call them.
* Packet headers and addresses (`net/ether.rs`, `net/ipv4.rs`, `net/mac.rs`): access
  to fields through a pointer, with no state of their own.
* `coremap_old.rs`, `metrics.rs` and `memzone.rs`: no `mod` declaration includes
  them, so they are not part of the program.
* Creating and freeing a memory pool: nothing in the crate calls `Mempool::new`.
* Reading the settings: deserialisation and default values have no state.
