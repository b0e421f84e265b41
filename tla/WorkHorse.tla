----------------------------- MODULE WorkHorse -----------------------------
(***************************************************************************)
(* The data plane of the engine (runtime/engine.rs): work_horse runs three *)
(* futures on a LocalPool of one thread: rx_main moves packets from the    *)
(* ports to a bounded queue, process_packets takes them out again, and     *)
(* check_n_set_client_status looks for clients.  The caller keeps the      *)
(* other end of a oneshot channel to stop rx_main.                         *)
(*                                                                         *)
(* The pool (futures 0.3) polls the handle of rx_main, then each spawned   *)
(* task once, in the order they were spawned; a task keeps the thread      *)
(* until it returns or awaits.                                             *)
(***************************************************************************)
EXTENDS Integers, Sequences, FiniteSets

CONSTANTS
  NPorts,      \* PORTS, in the order of the Vec: 1..NPorts
  Capacity,    \* capacity of the ArrayQueue
  BurstMax,    \* RX_BURST_MAX of PortQueue::receive
  MaxArrivals  \* bound: packets that arrive at one port

ASSUME WorkHorseAssumption ==
  /\ NPorts \in Nat
  /\ Capacity \in Nat \ {0}
  /\ BurstMax \in Nat \ {0}
  /\ MaxArrivals \in Nat

Ports == 1..NPorts

VARIABLES
  sender,      \* the caller's end of the channel: "alive", "sent", "dropped"
  nic,         \* packets waiting at each port, numbered as they arrive
  arrived,     \* how many packets have arrived at each port
  queue,       \* the ArrayQueue<PortIdMbuf>
  dropped,     \* batches freed because the queue refused them
  exec,        \* what the pool's thread is doing
  pc,          \* where rx_main is
  port         \* the port rx_main's for loop is at

vars == <<sender, nic, arrived, queue, dropped, exec, pc, port>>

-----------------------------------------------------------------------------

Packets == 1..MaxArrivals

Batch == [portid : Ports, buf : Seq(Packets)]

TypeOK ==
  /\ sender \in {"alive", "sent", "dropped"}
  /\ nic \in [Ports -> Seq(Packets)]
  /\ arrived \in [Ports -> 0..MaxArrivals]
  /\ queue \in Seq(Batch) /\ Len(queue) <= Capacity
  /\ dropped \in Seq(Batch)
  /\ exec \in {"caller", "rx", "process", "register", "handle", "panicked"}
  /\ pc \in {"poll", "fill", "for"}
  /\ port \in 1..(NPorts + 1)

Init ==
  /\ sender \in {"alive", "dropped"}
  /\ nic = [p \in Ports |-> <<>>]
  /\ arrived = [p \in Ports |-> 0]
  /\ queue = <<>>
  /\ dropped = <<>>
  /\ exec = "caller"
  /\ pc = "poll"
  /\ port = 1

-----------------------------------------------------------------------------
(* The world outside: ports receive, the caller holds the sender.          *)

Arrive(p) ==
  /\ arrived[p] < MaxArrivals
  /\ arrived' = [arrived EXCEPT ![p] = @ + 1]
  /\ nic' = [nic EXCEPT ![p] = Append(@, arrived'[p])]
  /\ UNCHANGED <<sender, queue, dropped, exec, pc, port>>

\* Another thread signals the engine to stop, or loses the sender.
Signal ==
  /\ sender = "alive"
  /\ sender' \in {"sent", "dropped"}
  /\ UNCHANGED <<nic, arrived, queue, dropped, exec, pc, port>>

\* work_horse is called, with a new channel each time.  The first poll of the
\* handle finds nothing, and the first task in line is rx_main.
work_horse ==
  /\ exec = "caller"
  /\ exec' = "rx"
  /\ pc' = "poll"
  /\ UNCHANGED <<sender, nic, arrived, queue, dropped, port>>

NewChannel ==
  /\ exec = "caller"
  /\ sender' = "alive"
  /\ UNCHANGED <<nic, arrived, queue, dropped, exec, pc, port>>

-----------------------------------------------------------------------------
(* rx_main.  It has no await, so the steps below follow one another.       *)

\* Mutant: only a value that was sent counts.
StopsOnValue == sender = "sent"

\* receiver.try_recv() is Ok(Some(())) after a send, Ok(None) while the sender
\* is alive and has sent nothing, Err(Canceled) once it is gone.  Ok(_) stops.
Stops == sender \in {"alive", "sent"}

\* The top of the loop.  When rx_main returns the pool goes on to the next task.
try_recv ==
  /\ exec = "rx"
  /\ pc = "poll"
  /\ IF Stops
     THEN exec' = "process" /\ UNCHANGED pc
     ELSE pc' = "fill" /\ UNCHANGED exec
  /\ UNCHANGED <<sender, nic, arrived, queue, dropped, port>>

\* Mutant: off by one, the queue never counts as full.
is_fullLate == Len(queue) > Capacity

is_full == Len(queue) = Capacity

\* while !mbufs.is_full()
WhileFill ==
  /\ exec = "rx"
  /\ pc = "fill"
  /\ IF is_full
     THEN pc' = "poll" /\ UNCHANGED port
     ELSE pc' = "for" /\ port' = 1
  /\ UNCHANGED <<sender, nic, arrived, queue, dropped, exec>>

\* Mutant: new batches go to the end they are popped from.
pushFront(batch) ==
  IF Len(queue) < Capacity
  THEN queue' = <<batch>> \o queue /\ UNCHANGED dropped
  ELSE dropped' = Append(dropped, batch) /\ UNCHANGED queue

\* Mutant: a full queue pushes its oldest batch out (force_push).
pushForce(batch) ==
  /\ queue' = Append(IF Len(queue) < Capacity THEN queue ELSE Tail(queue), batch)
  /\ UNCHANGED dropped

\* Mutant: the queue is not bounded.
pushUnbounded(batch) == queue' = Append(queue, batch) /\ UNCHANGED dropped

\* ArrayQueue::push: a full queue gives the batch back, and it is dropped.
push(batch) ==
  IF Len(queue) < Capacity
  THEN queue' = Append(queue, batch) /\ UNCHANGED dropped
  ELSE dropped' = Append(dropped, batch) /\ UNCHANGED queue

\* One round of the for loop: receive up to BurstMax packets, perhaps none, and
\* push the batch whether it has packets or not.
ForPort(n) ==
  /\ exec = "rx"
  /\ pc = "for"
  /\ port <= NPorts
  /\ n <= BurstMax /\ n <= Len(nic[port])
  /\ nic' = [nic EXCEPT ![port] = SubSeq(@, n + 1, Len(@))]
  /\ push([portid |-> port, buf |-> SubSeq(nic[port], 1, n)])
  /\ port' = port + 1
  /\ UNCHANGED <<sender, arrived, exec, pc>>

EndFor ==
  /\ exec = "rx"
  /\ pc = "for"
  /\ port = NPorts + 1
  /\ pc' = "fill"
  /\ UNCHANGED <<sender, nic, arrived, queue, dropped, exec, port>>

rx_main == try_recv \/ WhileFill \/ (\E n \in 0..BurstMax : ForPort(n)) \/ EndFor

-----------------------------------------------------------------------------
(* The other tasks.                                                        *)

\* process_packets: takes the batches out, and has no await either.  A batch
\* with a packet ends the thread: the forwarding table's add panics or waits
\* for ever (RoutingTable), and once its locks are poisoned tx_to_clients,
\* which is unimplemented!(), panics.
process_packets ==
  /\ exec = "process"
  /\ IF queue = <<>>
     THEN exec' = "register" /\ UNCHANGED queue
     ELSE /\ queue' = Tail(queue)
          /\ exec' = IF Head(queue).buf = <<>> THEN "process" ELSE "panicked"
  /\ UNCHANGED <<sender, nic, arrived, dropped, pc, port>>

\* check_n_set_client_status: its first poll starts the sleep, and whether the
\* sleep is over by then or not the pool has run out of tasks to poll.
check_n_set_client_status ==
  /\ exec = "register"
  /\ exec' = "handle"
  /\ UNCHANGED <<sender, nic, arrived, queue, dropped, pc, port>>

\* The handle of rx_main is ready: run_until returns, the other tasks are
\* dropped with the pool, and work_horse returns.
run_until ==
  /\ exec = "handle"
  /\ exec' = "caller"
  /\ UNCHANGED <<sender, nic, arrived, queue, dropped, pc, port>>

Pool == rx_main \/ process_packets \/ check_n_set_client_status \/ run_until

Next ==
  \/ Pool
  \/ work_horse
  \/ NewChannel
  \/ Signal
  \/ \E p \in Ports : Arrive(p)

\* The pool's thread runs.  Nothing is assumed of the caller and the network.
Spec == Init /\ [][Next]_vars /\ WF_vars(Pool)

-----------------------------------------------------------------------------
(* Properties.                                                             *)

Increasing(s) == \A i, j \in DOMAIN s : i < j => s[i] < s[j]

AllBefore(s, t) == \A i \in DOMAIN s, j \in DOMAIN t : s[i] < t[j]

\* Packets of one port leave the queue in the order they arrived: those of a
\* batch, those of the later batches of its port and those that still wait at
\* the port are in order.
PortOrder ==
  /\ \A p \in Ports : Increasing(nic[p])
  /\ \A i \in DOMAIN queue :
       /\ Increasing(queue[i].buf)
       /\ AllBefore(queue[i].buf, nic[queue[i].portid])
       /\ \A j \in DOMAIN queue :
            i < j /\ queue[i].portid = queue[j].portid => AllBefore(queue[i].buf, queue[j].buf)

\* The positions at which a sequence of batches has packet n of port p.
PositionsIn(batches, p, n) ==
  UNION {{<<i, k>> : k \in {k \in DOMAIN batches[i].buf : batches[i].buf[k] = n}}
           : i \in {i \in DOMAIN batches : batches[i].portid = p}}

\* Where packet n of port p is.
Places(p, n) ==
  ({"port"} \X {<<p, i>> : i \in {i \in DOMAIN nic[p] : nic[p][i] = n}})
    \cup ({"queue"} \X PositionsIn(queue, p, n))
    \cup ({"dropped"} \X PositionsIn(dropped, p, n))

\* Every packet that arrived is at its port, in the queue, or in a batch that
\* was refused: none disappears otherwise, and none is there twice.
EveryPacketOnce ==
  \A p \in Ports, n \in Packets :
    Cardinality(Places(p, n)) = (IF n <= arrived[p] THEN 1 ELSE 0)

\* is_full is looked at once for all the ports, so a round may find the queue
\* full half way.  It costs at most one batch of each port but the first.
BoundedLoss == dropped # <<>> => Len(dropped) <= NPorts - 1

\* Once rx_main has put anything into the queue no other task runs again: it
\* got there because the sender is gone, and then nothing makes it return.  That
\* the batches are therefore never taken out is QueueEmptied's violation.
\* (work_horse, rx_main)
RxKeepsThread == queue # <<>> => exec = "rx"

\* "packets are removed from the other end of the queue till the queue is not
\* empty" (README.md:20), by process_packets, which "consumes the packets placed
\* in the deque by rx_main" (engine.rs:177): what is put into the queue is taken
\* out at some time.
QueueEmptied == queue # <<>> ~> queue = <<>>
=============================================================================
