------------------------------ MODULE PortSetup ------------------------------
(***************************************************************************)
(* Setting up one Ethernet device: PortBuilder and Port of dpdk/port.rs,   *)
(* MempoolMap of dpdk/mempool.rs, and the cores of the runtime settings.   *)
(* The device and the calls rte_eth_... are external.  The builder can be  *)
(* used any number of times, so there may be several Ports for the device. *)
(* A Port holds raw pointers and is not Send: the builder and the Ports    *)
(* are used by one thread, and a call of finish is one step.               *)
(***************************************************************************)
EXTENDS RuntimeConfig, Functions, FiniteSetsExt

CONSTANTS
  Pools,            \* the memory pools
  PoolSocket,       \* the socket of each
  CoreSocket(_),    \* numa_node_of_cpu
  PhysicalSockets,  \* SocketId::all
  DeviceSockets,    \* rte_eth_dev_socket_id, not physical for a virtual port
  MaxRxQueues,      \* dev_info.max_rx_queues
  MaxTxQueues,      \* dev_info.max_tx_queues
  U16,              \* the number of values of a u16
  DescLimits,       \* the descriptor limits of the device
  Capacities,       \* the capacities asked for, also beyond a u16
  MaxPorts          \* bound: Ports made by finish

ASSUME PortAssumption ==
  /\ IsFiniteSet(Pools) /\ PoolSocket \in [Pools -> PhysicalSockets]
  /\ MaxRxQueues \in Nat /\ MaxTxQueues \in Nat /\ MaxPorts \in Nat
  /\ U16 \in Nat \ {0} /\ MaxRxQueues < U16 /\ MaxTxQueues < U16 /\ Capacities \subseteq Nat
  /\ DescLimits.max \in 0 .. U16 - 1 /\ DescLimits.min \in 0 .. DescLimits.max

VARIABLES
  builder,    \* the PortBuilder: cores, rxd, txd and the MempoolMap
  device,     \* socket, state, number of queues, pool by RX queue set up,
              \* TX queues set up
  ports,      \* the Ports made: queue by core, and whether it still lives
  result,     \* what the last call returned
  owner       \* history: the Port whose finish configured the device last,
              \* 0 if that finish failed

portVars == <<builder, device, ports, result, owner>>
vars == <<configVars, portVars>>

NoPools == [s \in {} |-> s]

NewBuilder == [cores |-> <<0>>, rxd |-> 0, txd |-> 0, pools |-> NoPools]

Init ==
  /\ ConfigInit
  /\ builder = NewBuilder
  /\ device \in [socket : DeviceSockets, state : {"idle"}, queues : {0},
                 rx : {<<>>}, tx : {{}}]
  /\ ports = <<>>
  /\ result = "ok"
  /\ owner = 0

\* An early return: nothing but the result changes.
Err == result' = "err" /\ UNCHANGED <<builder, device, ports, owner>>

(***************************************************************************)
(* The builder.                                                            *)
(***************************************************************************)
\* PortBuilder::new; a device that was closed is not found by its name.
new ==
  \/ /\ device.state # "closed"
     /\ builder' = NewBuilder
     /\ result' = "ok"
     /\ UNCHANGED <<device, ports, owner>>
  \/ device.state = "closed" /\ Err

\* `as u16`: the number of cores that is compared and asked for.
CoreCount(list) == Len(list) % U16

cores(asked) ==
  LET kept == dedup(sort(asked))
      fits == /\ asked # <<>>
              /\ CoreCount(kept) <= MaxRxQueues
              /\ CoreCount(kept) <= MaxTxQueues
  IN \/ /\ fits
        /\ builder' = [builder EXCEPT !.cores = kept]
        /\ result' = "ok"
        /\ UNCHANGED <<device, ports, owner>>
     \/ ~fits /\ Err

\* Mutant: the capacity is used as it is.
AdjustNothing(n) == n

\* rte_eth_dev_adjust_nb_rx_tx_desc, for a device without alignment.
Adjust(n) == Max({DescLimits.min, Min({DescLimits.max, n})})

\* `as u16` cuts off the upper bits before the limits are applied.
rx_tx_queue_capacity(rxd, txd) ==
  \/ /\ device.state # "closed"
     /\ builder' = [builder EXCEPT !.rxd = Adjust(rxd % U16),
                                   !.txd = Adjust(txd % U16)]
     /\ result' = "ok"
     /\ UNCHANGED <<device, ports, owner>>
  \/ Err

\* MempoolMap::new: of the pools of one socket the last one stays.
MempoolMap(pools) ==
  [s \in {PoolSocket[p] : p \in ToSet(pools)} |->
     pools[Max({i \in DOMAIN pools : PoolSocket[pools[i]] = s})]]

mempools(pools) ==
  /\ builder' = [builder EXCEPT !.pools = MempoolMap(pools)]
  /\ result' = "ok"
  /\ UNCHANGED <<device, ports, owner>>

\* Mutant: the socket of the device is ignored.
socket_idOfCore == CoreSocket(Head(builder.cores))

\* The port's socket or, if it is virtual, that of the first core.
socket_id ==
  IF device.socket \in PhysicalSockets THEN device.socket
  ELSE CoreSocket(Head(builder.cores))

\* rte_eth_dev_configure: queues that remain keep their setup.
Configured(n) ==
  [device EXCEPT !.queues = n,
                 !.rx = Restrict(@, DOMAIN @ \cap (0 .. n - 1)),
                 !.tx = @ \cap (0 .. n - 1)]

\* The device after k calls of the loop over the cores, an RX and a TX setup
\* by turns.
AfterSetups(d, pool, k) ==
  LET ready == {i \in 0 .. d.queues - 1 : 2 * i < k}
  IN [d EXCEPT !.rx = [q \in DOMAIN @ \cup ready |-> IF q \in ready THEN pool ELSE @[q]],
               !.tx = @ \cup {i \in 0 .. d.queues - 1 : 2 * i + 1 < k}]

\* The index of a core in the vector, as u16, is the number of both its queues.
Queues == [c \in ToSet(builder.cores) |->
             ((CHOOSE i \in DOMAIN builder.cores : builder.cores[i] = c) - 1) % U16]

FailWith(d) ==
  /\ device' = d
  /\ owner' = 0
  /\ result' = "err"
  /\ UNCHANGED ports

\* The calls after the device was configured.  The setup of a queue the device
\* does not have is refused, so the loop ends well only when there is one for
\* each core.
SetUpQueues(d) ==
  \/ socket_id \notin DOMAIN builder.pools /\ FailWith(d)
  \/ /\ socket_id \in DOMAIN builder.pools
     /\ \E k \in 0 .. 2 * d.queues :
          /\ k < 2 * Len(builder.cores)
          /\ FailWith(AfterSetups(d, builder.pools[socket_id], k))
  \/ /\ socket_id \in DOMAIN builder.pools
     /\ Len(builder.cores) <= d.queues
     /\ Len(ports) < MaxPorts
     /\ device' = AfterSetups(d, builder.pools[socket_id], 2 * d.queues)
     /\ ports' = Append(ports, [queues |-> Queues, live |-> TRUE])
     /\ owner' = Len(ports')
     /\ result' = "ok"

\* rte_eth_dev_configure refuses a closed or started device and too many
\* queues, and takes 0 queues as 1; a failure of the driver gives all queues
\* back.
finish ==
  LET n == IF CoreCount(builder.cores) = 0 THEN 1 ELSE CoreCount(builder.cores)
  IN \/ /\ device.state = "idle"
        /\ n <= MaxRxQueues /\ n <= MaxTxQueues
        /\ SetUpQueues(Configured(n)) \/ FailWith(Configured(0))
        /\ UNCHANGED builder
     \/ Err

(***************************************************************************)
(* The Ports.                                                              *)
(***************************************************************************)
\* When the call for promiscuous mode fails the device stays started.
start(p) ==
  \/ /\ device.state # "closed" /\ device.queues > 0
     /\ device' = [device EXCEPT !.state = "started"]
     /\ result' \in {"ok", "err"}
     /\ UNCHANGED <<builder, ports, owner>>
  \/ Err

stop(p) ==
  /\ device' = [device EXCEPT !.state = IF @ = "started" THEN "idle" ELSE @]
  /\ result' = "ok"
  /\ UNCHANGED <<builder, ports, owner>>

\* Dropping any of the Ports closes the device for all of them.
drop(p) ==
  /\ ports' = [ports EXCEPT ![p].live = FALSE]
  /\ device' = [device EXCEPT !.state = "closed", !.queues = 0, !.rx = <<>>, !.tx = {}]
  /\ result' = "ok"
  /\ UNCHANGED <<builder, owner>>

BuilderCall ==
  \/ new
  \/ \E i \in DOMAIN config.ports : cores(config.ports[i])
  \/ \E r, t \in Capacities : rx_tx_queue_capacity(r, t)
  \/ \E pools \in SetToAllKPermutations(Pools) : mempools(pools)
  \/ finish

Next ==
  \/ eal_init /\ UNCHANGED portVars
  \/ eal = "up" /\ BuilderCall /\ UNCHANGED configVars
  \/ /\ \E p \in DOMAIN ports : ports[p].live /\ (start(p) \/ stop(p) \/ drop(p))
     /\ UNCHANGED configVars

Spec == Init /\ [][Next]_vars

(***************************************************************************)
(* Properties.                                                             *)
(***************************************************************************)
\* The variables have their types; a builder's cores rise and fit the device,
\* as far as their number shows in a u16, unless they are the default, which
\* nothing checks, and its capacities are within the limits of the device, also
\* when the upper bits were cut off.
TypeOK ==
  /\ config \in Configs
  /\ eal \in {"down", "up", "failed"}
  /\ \/ builder.cores = <<0>>
     \/ /\ CoreCount(builder.cores) <= MaxRxQueues
        /\ CoreCount(builder.cores) <= MaxTxQueues
        /\ builder.cores # <<>>
        /\ \A i \in 1 .. Len(builder.cores) - 1 : builder.cores[i] < builder.cores[i + 1]
  /\ {builder.rxd, builder.txd} \subseteq {0} \cup (DescLimits.min .. DescLimits.max)
  /\ \A s \in DOMAIN builder.pools : PoolSocket[builder.pools[s]] = s
  /\ device.socket \in DeviceSockets
  /\ device.state \in {"idle", "started", "closed"}
  /\ DOMAIN device.rx \cup device.tx \subseteq 0 .. device.queues - 1
  /\ Range(device.rx) \subseteq Pools
  /\ Len(ports) <= MaxPorts
  /\ result \in {"ok", "err"}
  /\ owner \in 0 .. Len(ports)

\* Unless a later finish has failed half way or a Port was dropped, the Port
\* that was made last has the device to itself: its cores, in rising order and
\* however many the settings gave the builder (a u16 counts them),
\* have the queues 0, 1, ... of the device, every one of them is set up for
\* receiving and sending, all receive into one pool, and the pool is on the
\* socket of the device or, for a virtual device, of the lowest core.  So a
\* queue that is not set up is started only after a finish that failed.
\* (finish, start, drop)
QueuesExact ==
  owner # 0 /\ device.state # "closed" =>
    LET queues == ports[owner].queues
        used   == DOMAIN queues
        all    == 0 .. device.queues - 1
    IN /\ queues \in Bijection(used, all)
       /\ \A c, d \in used : c < d => queues[c] < queues[d]
       /\ DOMAIN device.rx = all /\ device.tx = all
       /\ \E pool \in Pools :
            /\ Range(device.rx) = {pool}
            /\ PoolSocket[pool] = IF device.socket \in PhysicalSockets
                                  THEN device.socket ELSE CoreSocket(Min(used))

\* all_cores holds each core of the settings once, in rising order, and the
\* cores that have queues of one Port are among them, however the builder was
\* used before, or are the core 0 of a builder that was never given cores,
\* which need not be a core of the settings.  (all_cores and PortBuilder)
CoresKnown ==
  LET all == all_cores(config)
  IN /\ ToSet(all) = ToSet(PortCores(config)) \cup ToSet(config.cores) \cup {config.master_core}
     /\ \A i \in 1 .. Len(all) - 1 : all[i] < all[i + 1]
     /\ \A p \in DOMAIN ports :
          LET used == DOMAIN ports[p].queues
          IN used = {0} \/ used \subseteq ToSet(all)
=============================================================================
