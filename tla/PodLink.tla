------------------------------- MODULE PodLink -------------------------------
(***************************************************************************)
(* Both ends of the link between a pod and the engine: ContainerClient     *)
(* (dockerlib/client_comm.rs) with its id, its REQ socket and its Channel, *)
(* the engine's answer to it (set_client_status in runtime/engine.rs), and *)
(* the rings the two Channels share (dpdk/memring.rs).                     *)
(*                                                                         *)
(* A pod is a process.  It calls the methods of its client in any order,   *)
(* and as get_socket is public it may also write requests of its own: a    *)
(* Channel is only ever opened for one that does.  It may die at any time; *)
(* it then frees nothing.                                                  *)
(*                                                                         *)
(* Rings live at addresses that are used again.  Freeing an address frees  *)
(* the ring that is there now, whoever it belongs to; what else a use of   *)
(* freed memory may do is to end the process, which it may anyway.         *)
(*                                                                         *)
(* The steps of the engine within one request are in EngineControl; here a *)
(* request is read and served in one step, as nothing else touches the     *)
(* maps in between.                                                        *)
(***************************************************************************)
EXTENDS Naturals, FiniteSets, Functions

CONSTANTS
  Pods,        \* processes
  Addresses,   \* where rings can be
  IdMax,       \* u16::MAX
  Capacity,    \* packets a ring holds
  MaxClients,  \* bound: ids given out, over all pods
  NoClient, NoChannel, NoRequest

ASSUME PodAssumption == {IdMax, Capacity, MaxClients} \subseteq Nat

Ids == 0 .. IdMax

Channels == [tx : Addresses, rx : Addresses]

\* own and ready are history: the program has written a registration itself;
\* PodReady was sent.
Clients == [id : Ids, req : {"send", "recv", "answered"},
            call : {"none", "register", "setup"},
            channel : Channels \cup {NoChannel}, own : BOOLEAN, ready : BOOLEAN]

Requests == [json : BOOLEAN, id : Ids,
             kind : {"PodStarting", "PodReady", "PodStopping", "any"}]

Rings == [name : {<<>>} \cup ({"RX", "TX"} \X Ids), packets : 0 .. Capacity]

ASSUME NoneAssumption ==
  NoClient \notin Clients /\ NoChannel \notin Channels /\ NoRequest \notin Requests

VARIABLES
  counter,   \* CLIENT_ID of each pod: next id, and whether it is poisoned
  client,    \* the ContainerClient of each pod
  request,   \* its request that the engine has not read
  orphans,   \* unread requests of clients that are gone
  deaf,      \* the engine's REP socket owes an answer nobody will send
  ringmap,   \* Engine::ringmap: id to the addresses of the two rings
  mem,       \* the ring at each address
  clients,   \* number of ids given out
  freed      \* history: a pod has freed a ring

engineVars == <<deaf, ringmap>>
podVars == <<counter, client, request, orphans>>
vars == <<clients, podVars, engineVars, mem, freed>>

NoRing == [name |-> <<>>, packets |-> 0]

Init ==
  /\ counter = [p \in Pods |-> [next |-> 0, poisoned |-> FALSE]]
  /\ client = [p \in Pods |-> NoClient]
  /\ request = [p \in Pods |-> NoRequest]
  /\ orphans = {}
  /\ deaf = FALSE
  /\ ringmap = [id \in {} |-> id]
  /\ mem = [a \in Addresses |-> NoRing]
  /\ clients = 0
  /\ freed = FALSE

(***************************************************************************)
(* Rings and Channels.                                                     *)
(***************************************************************************)
\* rte_ring_free of what is at the addresses.
Free(m, as) == [a \in Addresses |-> IF a \in as THEN NoRing ELSE m[a]]

At(m, name) == {a \in Addresses : m[a].name = name}

AddressesOf(channel) ==
  IF channel = NoChannel THEN {} ELSE {channel.tx, channel.rx}

\* Channel::send uses tx_q at either end.
SendsOn(channel) == channel.tx

\* Channel::receive uses rx_q at either end.
ReceivesFrom(channel) == channel.rx

\* Mutant: room is not checked.
enqueueFull(a) ==
  /\ mem[a] # NoRing
  /\ mem' = [mem EXCEPT ![a].packets = @ + 1]

\* _rte_ring_enqueue refuses when the ring is full.
enqueue(a) ==
  /\ mem[a] # NoRing
  /\ mem[a].packets < Capacity
  /\ mem' = [mem EXCEPT ![a].packets = @ + 1]

dequeue(a) ==
  /\ mem[a].packets > 0
  /\ mem' = [mem EXCEPT ![a].packets = @ - 1]

(***************************************************************************)
(* The client.                                                             *)
(***************************************************************************)
\* get_dockerclient_id: the outcomes, each with the ids it returns, one or
\* none, and the counter it leaves.  At u16::MAX a build with overflow checks
\* panics and poisons the lock, after which every id is 0, and one without
\* starts again at 0.
get_dockerclient_id(c) ==
  IF c.poisoned THEN {[ids |-> {0}, counter |-> c]}
  ELSE IF c.next < IdMax THEN {[ids |-> {c.next}, counter |-> [c EXCEPT !.next = @ + 1]]}
  ELSE {[ids |-> {}, counter |-> [c EXCEPT !.poisoned = TRUE]],
        [ids |-> {c.next}, counter |-> [c EXCEPT !.next = 0]]}

NewClient(id) ==
  [id |-> id, req |-> "send", call |-> "none", channel |-> NoChannel,
   own |-> FALSE, ready |-> FALSE]

\* ContainerClient::new; the socket may fail after the id is taken.
new(p) ==
  /\ client[p] = NoClient
  /\ clients < MaxClients
  /\ \E got \in get_dockerclient_id(counter[p]) :
       /\ counter' = [counter EXCEPT ![p] = got.counter]
       /\ clients' = clients + Cardinality(got.ids)
       /\ \/ \E id \in got.ids : client' = [client EXCEPT ![p] = NewClient(id)]
          \/ UNCHANGED client
  /\ UNCHANGED <<request, orphans, engineVars, mem, freed>>

Idle(p) == client[p] # NoClient /\ client[p].call = "none"

\* ContainerMsg::to_json writes names in single quotes and a comma after the
\* last one, which is not JSON.
to_json(kind, id) == [json |-> FALSE, kind |-> "any", id |-> 0]

\* A request in JSON, as the engine reads it.
Json(kind, id) == [json |-> TRUE, kind |-> kind, id |-> id]

\* Mutant: the text goes to another socket than the one that waits.
SentElsewhere(p, text, c) ==
  /\ client' = [client EXCEPT ![p] = [c EXCEPT !.req = "recv"]]
  /\ UNCHANGED request

Sent(p, text, c) ==
  /\ request' = [request EXCEPT ![p] = text]
  /\ client' = [client EXCEPT ![p] = [c EXCEPT !.req = "recv"]]

NotSent(p, c) == UNCHANGED request /\ client' = [client EXCEPT ![p] = c]

\* send: the outcomes are an error (three failures to connect or to send,
\* the latter certain while the REQ socket waits for an answer), and Ok with
\* or without the message sent: after a retry to connect nothing is sent.
send(p, text, failed, ok, sent) ==
  \/ NotSent(p, failed)
  \/ NotSent(p, ok)
  \/ client[p].req = "send" /\ Sent(p, text, sent)

\* register, alone or as the first step of setup_channel; recv follows.
register(p, call) ==
  /\ Idle(p)
  /\ LET c == client[p]
         waits == [c EXCEPT !.call = call]
     IN send(p, to_json("PodStarting", c.id), c, waits, waits)
  /\ UNCHANGED <<clients, counter, orphans, engineVars, mem, freed>>

notify(p) ==
  /\ Idle(p)
  /\ LET c == client[p]
     IN send(p, to_json("PodReady", c.id), c, c, [c EXCEPT !.ready = TRUE])
  /\ UNCHANGED <<clients, counter, orphans, engineVars, mem, freed>>

terminate(p) ==
  /\ Idle(p)
  /\ LET c == client[p]
     IN send(p, to_json("PodStopping", c.id), c, c, c)
  /\ UNCHANGED <<clients, counter, orphans, engineVars, mem, freed>>

\* The program writes a request itself, on get_socket.
write(p, kind) ==
  /\ Idle(p)
  /\ client[p].req = "send"
  /\ LET c == client[p]
     IN Sent(p, Json(kind, c.id), [c EXCEPT !.own = @ \/ kind = "PodStarting",
                                            !.ready = @ \/ kind = "PodReady"])
  /\ UNCHANGED <<clients, counter, orphans, engineVars, mem, freed>>

\* recv on a REQ socket: Ok with the answer, an error at once when no request
\* is outstanding, and otherwise it blocks.
RecvOk(c) == c.req = "answered"

RecvErr(c) == c.req = "send"

recvd(c) == [c EXCEPT !.req = "send", !.call = "none"]

\* The end of register, and the program's own recv.
receive_answer(p) ==
  /\ client[p] # NoClient
  /\ client[p].call # "setup"
  /\ \/ RecvOk(client[p]) /\ client' = [client EXCEPT ![p] = recvd(@)]
     \/ /\ client[p].call = "register" /\ RecvErr(client[p])
        /\ client' = [client EXCEPT ![p].call = "none"]
  /\ UNCHANGED <<clients, counter, request, orphans, engineVars, mem, freed>>

\* rte_ring_lookup with a name that has no terminator: found or not.
Lookup(name) == {{}} \cup {{a} : a \in At(mem, name)}

\* A new Channel replaces and drops the old one; a first ring without the
\* second is dropped.  Dropping frees.
OpenChannel(p, c) ==
  \E t \in Lookup(<<"TX", c.id>>) :
    \/ t = {} /\ client' = [client EXCEPT ![p] = c] /\ UNCHANGED <<mem, freed>>
    \/ \E tx \in t : \E r \in Lookup(<<"RX", c.id>>) :
         \/ /\ r = {}
            /\ client' = [client EXCEPT ![p] = c]
            /\ mem' = Free(mem, {tx})
            /\ freed' = TRUE
         \/ \E rx \in r :
              /\ client' = [client EXCEPT ![p] =
                              [c EXCEPT !.channel = [tx |-> tx, rx |-> rx]]]
              /\ mem' = Free(mem, AddressesOf(c.channel))
              /\ freed' = (freed \/ c.channel # NoChannel)

\* The rest of setup_channel.
setup_channel(p) ==
  /\ client[p] # NoClient
  /\ client[p].call = "setup"
  /\ \/ RecvOk(client[p]) /\ OpenChannel(p, recvd(client[p]))
     \/ /\ RecvErr(client[p])
        /\ client' = [client EXCEPT ![p].call = "none"]
        /\ UNCHANGED <<mem, freed>>
  /\ UNCHANGED <<clients, counter, request, orphans, engineVars>>

\* The Channels at both ends are private and their methods have no caller yet;
\* the model calls them at any time.
HasChannel(p) == Idle(p) /\ client[p].channel # NoChannel

pod_send(p) ==
  /\ HasChannel(p)
  /\ enqueue(SendsOn(client[p].channel))
  /\ UNCHANGED <<clients, podVars, engineVars, freed>>

pod_receive(p) ==
  /\ HasChannel(p)
  /\ dequeue(ReceivesFrom(client[p].channel))
  /\ UNCHANGED <<clients, podVars, engineVars, freed>>

\* An unread request outlives its socket or is lost with it; an engine that
\* reads no more makes no difference between the two.
Abandon(p) ==
  /\ client' = [client EXCEPT ![p] = NoClient]
  /\ request' = [request EXCEPT ![p] = NoRequest]
  /\ \/ UNCHANGED orphans
     \/ request[p] # NoRequest /\ ~deaf /\ orphans' = orphans \cup {request[p]}

\* The client is dropped, and with it its Channel and both Rings.
drop(p) ==
  /\ Idle(p)
  /\ Abandon(p)
  /\ mem' = Free(mem, AddressesOf(client[p].channel))
  /\ freed' = (freed \/ client[p].channel # NoChannel)
  /\ UNCHANGED <<clients, counter, engineVars>>

\* The pod dies and is started again: its ids begin at 0 again.
crash(p) ==
  /\ Abandon(p)
  /\ counter' = [counter EXCEPT ![p] = [next |-> 0, poisoned |-> FALSE]]
  /\ UNCHANGED <<clients, engineVars, mem, freed>>

(***************************************************************************)
(* The engine.  It reads a request only while its REP socket owes no       *)
(* answer.                                                                 *)
(***************************************************************************)
\* Mutant: quotes and commas do not matter.
ParsesLoosely(r, kind) == r.kind \in {kind, "any"}

\* get_msg finds the object it looks for.
Parses(r, kind) == r.json /\ r.kind = kind

\* rte_ring_create refuses a name that is taken.
NamesFree(id) == At(mem, <<"RX", id>>) \cup At(mem, <<"TX", id>>) = {}

Channel(id) == IF id \in DOMAIN ringmap THEN ringmap[id] ELSE NoChannel

\* PodStarting: makes RX, then TX, answers, and inserts the Channel into
\* ringmap, which drops the Channel that had the id before.
Serve(r, asker) ==
  /\ Parses(r, "PodStarting")
  /\ NamesFree(r.id)
  /\ \E rx, tx \in {a \in Addresses : mem[a] = NoRing} :
       /\ rx # tx
       /\ LET made == [mem EXCEPT ![rx].name = <<"RX", r.id>>,
                                  ![tx].name = <<"TX", r.id>>]
          IN mem' = Free(made, AddressesOf(Channel(r.id)))
       /\ ringmap' = [id \in DOMAIN ringmap \cup {r.id} |->
                        IF id = r.id THEN [tx |-> tx, rx |-> rx] ELSE ringmap[id]]
  /\ client' = [p \in Pods |-> IF p \in asker
                               THEN [client[p] EXCEPT !.req = "answered"] ELSE client[p]]
  /\ UNCHANGED <<deaf, freed>>

\* Mutant: the rings are freed and the Channel stays in the map.
StopKeeping(r) ==
  /\ Parses(r, "PodStopping")
  /\ mem' = Free(mem, AddressesOf(Channel(r.id)))
  /\ deaf' = TRUE
  /\ UNCHANGED <<client, ringmap, freed>>

\* PodStopping removes the Channel and so frees its rings; no answer is sent.
Stop(r) ==
  /\ Parses(r, "PodStopping")
  /\ mem' = Free(mem, AddressesOf(Channel(r.id)))
  /\ ringmap' = Restrict(ringmap, DOMAIN ringmap \ {r.id})
  /\ deaf' = TRUE
  /\ UNCHANGED <<client, freed>>

\* Everything else leaves the maps and the rings as they were and sends no
\* answer: PodReady, text that is not the JSON object, and PodStarting when a
\* name is taken, memory is short or the answer cannot be sent, for then the
\* rings just made are dropped.
Swallow(r) ==
  /\ ~Parses(r, "PodStopping")
  /\ deaf' = TRUE
  /\ UNCHANGED <<client, ringmap, mem, freed>>

Handle(r, asker) == ~deaf /\ (Serve(r, asker) \/ Stop(r) \/ Swallow(r))

handle_request(p) ==
  /\ request[p] # NoRequest
  /\ Handle(request[p], {p})
  /\ request' = [request EXCEPT ![p] = NoRequest]
  /\ UNCHANGED <<clients, counter, orphans>>

handle_orphan ==
  /\ \E r \in orphans : Handle(r, {}) /\ orphans' = orphans \ {r}
  /\ UNCHANGED <<clients, counter, request>>

engine_send(id) ==
  /\ enqueue(SendsOn(ringmap[id]))
  /\ UNCHANGED <<clients, podVars, engineVars, freed>>

engine_receive(id) ==
  /\ dequeue(ReceivesFrom(ringmap[id]))
  /\ UNCHANGED <<clients, podVars, engineVars, freed>>

Next ==
  \/ \E p \in Pods :
       \/ new(p) \/ \E call \in {"register", "setup"} : register(p, call)
       \/ notify(p) \/ terminate(p) \/ receive_answer(p) \/ setup_channel(p)
       \/ \E kind \in {"PodStarting", "PodReady", "PodStopping"} : write(p, kind)
       \/ pod_send(p) \/ pod_receive(p) \/ drop(p) \/ crash(p)
       \/ handle_request(p)
  \/ handle_orphan
  \/ \E id \in DOMAIN ringmap : engine_send(id) \/ engine_receive(id)

Spec == Init /\ [][Next]_vars

(***************************************************************************)
(* Properties.                                                             *)
(***************************************************************************)
\* The variables have their types.
TypeOK ==
  /\ counter \in [Pods -> [next : Ids, poisoned : BOOLEAN]]
  /\ client \in [Pods -> Clients \cup {NoClient}]
  /\ request \in [Pods -> Requests \cup {NoRequest}]
  /\ orphans \subseteq Requests
  /\ DOMAIN ringmap \subseteq Ids
  /\ ringmap \in [DOMAIN ringmap -> Channels]
  /\ mem \in [Addresses -> Rings]
  /\ {deaf, freed} \subseteq BOOLEAN

\* register, and with it setup_channel, never returns Ok on the strength of
\* its own message: that is no JSON, so the engine does not answer it.  It does
\* so, and a Channel is ever opened, only if the program has itself written a
\* registration to the socket.  (register, setup_channel, to_json, get_msg;
\* also after a connect that was retried, where nothing was sent)
GenuineOk ==
  \A p \in Pods :
    client[p] # NoClient /\ (RecvOk(client[p]) \/ client[p].channel # NoChannel)
      => client[p].own

\* The two sockets keep step: while the engine owes no answer, a client is
\* refused its next send exactly as long as its own last request is unread, so
\* that terminate can tell the engine that the pod stops (client_comm.rs:152).
\* Pods that die, requests that outlive them and connects that were retried do
\* not get in between.  (send, register, get_msg, set_client_status)
WaitersOwed ==
  ~deaf => \A p \in Pods : client[p] # NoClient =>
                             (client[p].req = "recv" <=> request[p] # NoRequest)

\* Until some pod frees a ring, all that is in ringmap is there: each Channel
\* has the two live rings of its id.  (Ring::drop at both ends)
EngineChannelsLive ==
  ~freed => \A id \in DOMAIN ringmap : /\ mem[ringmap[id].tx].name = <<"TX", id>>
                                       /\ mem[ringmap[id].rx].name = <<"RX", id>>
=============================================================================
