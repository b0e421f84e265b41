--------------------------- MODULE PodLinkProofs ---------------------------
(***************************************************************************)
(* What PodLink promises for any pods, any ids, rings of any size and any  *)
(* number of places for them.                                              *)
(***************************************************************************)
EXTENDS PodLink, TLAPS

-----------------------------------------------------------------------------
(* Types.                                                                  *)

\* An id comes from the counter, which stays within u16.
LEMMA IdTyped ==
  ASSUME NEW c \in [next : Ids, poisoned : BOOLEAN], NEW got \in get_dockerclient_id(c)
  PROVE  /\ got.counter \in [next : Ids, poisoned : BOOLEAN]
         /\ got.ids \subseteq Ids
<1>1. IdMax \in Nat /\ c.next \in Nat /\ 0 \in Ids
  BY PodAssumption DEF Ids
<1>2. CASE c.poisoned
  BY <1>1, <1>2 DEF get_dockerclient_id
<1>3. CASE ~c.poisoned /\ c.next < IdMax
  BY <1>1, <1>3 DEF get_dockerclient_id, Ids
<1>4. CASE ~c.poisoned /\ ~(c.next < IdMax)
  <2>1. \/ got = [ids |-> {}, counter |-> [c EXCEPT !.poisoned = TRUE]]
        \/ got = [ids |-> {c.next}, counter |-> [c EXCEPT !.next = 0]]
    BY <1>4 DEF get_dockerclient_id
  <2>2. [c EXCEPT !.poisoned = TRUE] \in [next : Ids, poisoned : BOOLEAN]
    OBVIOUS
  <2>3. [c EXCEPT !.next = 0] \in [next : Ids, poisoned : BOOLEAN]
    BY <1>1
  <2>4. CASE got = [ids |-> {}, counter |-> [c EXCEPT !.poisoned = TRUE]]
    BY <2>4, <2>2
  <2>5. CASE got = [ids |-> {c.next}, counter |-> [c EXCEPT !.next = 0]]
    BY <2>5, <2>3
  <2> QED
    BY <2>1, <2>4, <2>5
<1> QED
  BY <1>2, <1>3, <1>4

\* Freeing keeps rings rings.
LEMMA FreeTyped ==
  ASSUME NEW m \in [Addresses -> Rings], NEW as
  PROVE  Free(m, as) \in [Addresses -> Rings]
<1>1. NoRing \in Rings
  BY PodAssumption DEF NoRing, Rings
<1> QED
  BY <1>1 DEF Free

\* A packet more or less, within the limits of the ring.
LEMMA PacketTyped ==
  ASSUME mem \in [Addresses -> Rings], NEW a \in Addresses, enqueue(a) \/ dequeue(a)
  PROVE  /\ mem' \in [Addresses -> Rings]
         /\ \A b \in Addresses : mem'[b].name = mem[b].name
         /\ \A b \in Addresses : b # a => mem'[b] = mem[b]
         /\ mem[a] # NoRing
<1>1. mem[a].packets \in 0 .. Capacity /\ Capacity \in Nat
  BY PodAssumption DEF Rings
<1>2. CASE enqueue(a)
  <2>1. mem[a].packets + 1 \in 0 .. Capacity
    BY <1>1, <1>2 DEF enqueue
  <2> QED
    BY <1>2, <2>1 DEF enqueue, Rings
<1>3. CASE dequeue(a)
  <2>1. mem[a].packets - 1 \in 0 .. Capacity /\ mem[a].packets # 0
    BY <1>1, <1>3 DEF dequeue
  <2> QED
    BY <1>3, <2>1 DEF dequeue, Rings, NoRing
<1> QED
  BY <1>2, <1>3

\* A Channel of the program points to addresses.
LEMMA OpenTyped ==
  ASSUME TypeOK, NEW p \in Pods, NEW c \in Clients, OpenChannel(p, c)
  PROVE  /\ client' \in [Pods -> Clients \cup {NoClient}]
         /\ mem' \in [Addresses -> Rings]
         /\ freed' \in BOOLEAN
<1>1. \A name : \A t \in Lookup(name) : t \subseteq Addresses
  BY DEF Lookup, At
<1>2. \A tx, rx \in Addresses : [c EXCEPT !.channel = [tx |-> tx, rx |-> rx]] \in Clients
  BY DEF Clients, Channels
<1>3. client' \in [Pods -> Clients \cup {NoClient}]
  <2>1. \E d \in Clients : client' = [client EXCEPT ![p] = d]
    BY <1>1, <1>2 DEF OpenChannel
  <2> QED
    BY <2>1 DEF TypeOK
<1>4. mem' \in [Addresses -> Rings]
  <2>1. UNCHANGED mem \/ \E as : mem' = Free(mem, as)
    BY DEF OpenChannel
  <2> QED
    BY <2>1, FreeTyped DEF TypeOK
<1>5. freed' \in BOOLEAN
  BY DEF OpenChannel, TypeOK
<1> QED
  BY <1>3, <1>4, <1>5

\* What send does to a client and its request, whichever way it ends.
LEMMA SendTyped ==
  ASSUME TypeOK, NEW p \in Pods, NEW text \in Requests,
         NEW failed \in Clients, NEW ok \in Clients, NEW sent \in Clients,
         send(p, text, failed, ok, sent)
  PROVE  /\ client' \in [Pods -> Clients \cup {NoClient}]
         /\ request' \in [Pods -> Requests \cup {NoRequest}]
<1>1. [sent EXCEPT !.req = "recv"] \in Clients
  BY DEF Clients
<1>2. \E d \in Clients : client' = [client EXCEPT ![p] = d]
  BY <1>1 DEF send, Sent, NotSent
<1>3. request' = request \/ request' = [request EXCEPT ![p] = text]
  BY DEF send, Sent, NotSent
<1> QED
  BY <1>2, <1>3 DEF TypeOK

\* Both kinds of text a pod sends are requests.
LEMMA TextTyped ==
  ASSUME NEW id \in Ids, NEW kind \in {"PodStarting", "PodReady", "PodStopping"}
  PROVE  to_json(kind, id) \in Requests /\ Json(kind, id) \in Requests
<1>1. 0 \in Ids
  BY PodAssumption DEF Ids
<1> QED
  BY <1>1 DEF to_json, Json, Requests

\* A client that has answered is a client.
LEMMA AnsweredTyped ==
  ASSUME NEW c \in Clients
  PROVE  [c EXCEPT !.req = "answered"] \in Clients
BY DEF Clients

\* The memory m with the two rings of an id.
Made(m, rx, tx, id) == [m EXCEPT ![rx].name = <<"RX", id>>, ![tx].name = <<"TX", id>>]

\* Naming two rings changes these two only.
LEMMA MadeExact ==
  ASSUME NEW m \in [Addresses -> Rings], NEW id \in Ids,
         NEW rx \in Addresses, NEW tx \in Addresses, rx # tx
  PROVE  /\ Made(m, rx, tx, id) \in [Addresses -> Rings]
         /\ Made(m, rx, tx, id)[rx] = [name |-> <<"RX", id>>, packets |-> m[rx].packets]
         /\ Made(m, rx, tx, id)[tx] = [name |-> <<"TX", id>>, packets |-> m[tx].packets]
         /\ \A a \in Addresses \ {rx, tx} : Made(m, rx, tx, id)[a] = m[a]
<1> DEFINE made == Made(m, rx, tx, id)
<1>1. /\ made = [a \in Addresses |-> made[a]]
      /\ made[rx] = [m[rx] EXCEPT !.name = <<"RX", id>>]
      /\ made[tx] = [m[tx] EXCEPT !.name = <<"TX", id>>]
      /\ \A a \in Addresses \ {rx, tx} : made[a] = m[a]
  BY DEF Made
<1>2. \A a \in Addresses : \A n : [m[a] EXCEPT !.name = n] = [name |-> n, packets |-> m[a].packets]
  BY DEF Rings
<1>3. \A k \in {"RX", "TX"}, a \in Addresses :
        [name |-> <<k, id>>, packets |-> m[a].packets] \in Rings
  BY DEF Rings
<1> HIDE DEF made
<1>4. /\ made[rx] = [name |-> <<"RX", id>>, packets |-> m[rx].packets]
      /\ made[tx] = [name |-> <<"TX", id>>, packets |-> m[tx].packets]
  BY <1>1, <1>2, Zenon
<1>5. \A a \in Addresses : made[a] \in Rings
  <2>1. made[rx] \in Rings /\ made[tx] \in Rings
    BY <1>3, <1>4, Zenon
  <2> QED
    BY <1>1, <2>1
<1>6. made \in [Addresses -> Rings]
  BY <1>1, <1>5
<1> QED
  BY <1>1, <1>4, <1>6 DEF made

\* What a request makes the engine do.
LEMMA HandleTyped ==
  ASSUME TypeOK, NEW r \in Requests, NEW asker \in SUBSET Pods,
         \A p \in asker : client[p] # NoClient, Handle(r, asker)
  PROVE  /\ client' \in [Pods -> Clients \cup {NoClient}]
         /\ DOMAIN ringmap' \subseteq Ids
         /\ ringmap' \in [DOMAIN ringmap' -> Channels]
         /\ mem' \in [Addresses -> Rings]
         /\ {deaf', freed'} \subseteq BOOLEAN
<1>1. r.id \in Ids
  BY DEF Requests
<1>2. CASE Serve(r, asker)
  <2>1. client' \in [Pods -> Clients \cup {NoClient}]
    <3>1. \A p \in Pods : client'[p] = IF p \in asker THEN [client[p] EXCEPT !.req = "answered"]
                                                     ELSE client[p]
      BY <1>2 DEF Serve
    <3>2. \A p \in Pods : client'[p] \in Clients \cup {NoClient}
      BY <3>1, AnsweredTyped DEF TypeOK
    <3>3. client' = [p \in Pods |-> client'[p]]
      BY <1>2 DEF Serve
    <3> QED
      BY <3>2, <3>3
  <2>2. PICK rx \in Addresses, tx \in Addresses :
          /\ rx # tx
          /\ mem' = Free(Made(mem, rx, tx, r.id), AddressesOf(Channel(r.id)))
          /\ ringmap' = [id \in DOMAIN ringmap \cup {r.id} |->
                           IF id = r.id THEN [tx |-> tx, rx |-> rx] ELSE ringmap[id]]
    BY <1>2 DEF Serve, Made
  <2>3. Made(mem, rx, tx, r.id) \in [Addresses -> Rings]
    BY <1>1, <2>2, MadeExact DEF TypeOK
  <2>4. mem' \in [Addresses -> Rings]
    BY <2>2, <2>3, FreeTyped
  <2>5. DOMAIN ringmap' \subseteq Ids /\ ringmap' \in [DOMAIN ringmap' -> Channels]
    <3>1. [tx |-> tx, rx |-> rx] \in Channels
      BY DEF Channels
    <3>2. DOMAIN ringmap' = DOMAIN ringmap \cup {r.id}
      BY <2>2
    <3>3. \A id \in DOMAIN ringmap' :
            ringmap'[id] = IF id = r.id THEN [tx |-> tx, rx |-> rx] ELSE ringmap[id]
      BY <2>2, <3>2
    <3>4. ringmap' = [id \in DOMAIN ringmap' |-> ringmap'[id]]
      BY <2>2
    <3> QED
      BY <1>1, <3>1, <3>2, <3>3, <3>4 DEF TypeOK
  <2>6. {deaf', freed'} \subseteq BOOLEAN
    BY <1>2, <2>2 DEF Serve, TypeOK
  <2> QED
    BY <2>1, <2>4, <2>5, <2>6
<1>3. CASE Stop(r)
  <2>1. DOMAIN ringmap' \subseteq Ids /\ ringmap' \in [DOMAIN ringmap' -> Channels]
    BY <1>3 DEF Stop, TypeOK, Restrict
  <2>2. mem' \in [Addresses -> Rings]
    BY <1>3, FreeTyped DEF Stop, TypeOK
  <2> QED
    BY <1>3, <2>1, <2>2 DEF Stop, TypeOK
<1>4. CASE Swallow(r)
  BY <1>4 DEF Swallow, TypeOK
<1> QED
  BY <1>2, <1>3, <1>4 DEF Handle

-----------------------------------------------------------------------------
(* The conversation of a client with the engine.                           *)

\* A client c with the unread request r: only a client that waits has one; an
\* answer, a Channel, and a registration that will get an answer, mean that the
\* program has written it, and no answer comes after PodReady.
Conversation(c, r) ==
  IF c = NoClient THEN r = NoRequest
  ELSE /\ c.req = "answered" \/ c.channel # NoChannel => c.own
       /\ c.ready => c.req = "recv"
       /\ r # NoRequest => c.req = "recv"
       /\ r # NoRequest /\ Parses(r, "PodStarting") => c.own /\ ~c.ready

Conversations == \A p \in Pods : Conversation(client[p], request[p])

\* Every step keeps the types.
LEMMA TypeStep == TypeOK /\ Conversations /\ [Next]_vars => TypeOK'
<1> SUFFICES ASSUME TypeOK, Conversations, [Next]_vars
             PROVE  TypeOK'
  OBVIOUS
<1>1. ASSUME NEW p \in Pods, new(p)
      PROVE  TypeOK'
  <2>1. PICK got \in get_dockerclient_id(counter[p]) :
          /\ counter' = [counter EXCEPT ![p] = got.counter]
          /\ \/ \E id \in got.ids : client' = [client EXCEPT ![p] = NewClient(id)]
             \/ UNCHANGED client
    BY <1>1 DEF new
  <2>2. got.counter \in [next : Ids, poisoned : BOOLEAN] /\ got.ids \subseteq Ids
    BY IdTyped DEF TypeOK
  <2>3. counter' \in [Pods -> [next : Ids, poisoned : BOOLEAN]]
    BY <2>1, <2>2 DEF TypeOK
  <2>4. \A id \in Ids : NewClient(id) \in Clients
    BY DEF NewClient, Clients
  <2>5. client' \in [Pods -> Clients \cup {NoClient}]
    BY <2>1, <2>2, <2>4 DEF TypeOK
  <2> QED
    BY <1>1, <2>3, <2>5 DEF new, TypeOK, engineVars
<1>2. ASSUME NEW p \in Pods, NEW call \in {"register", "setup"}, register(p, call)
      PROVE  TypeOK'
  <2>1. client[p] \in Clients /\ client[p].id \in Ids
    BY <1>2 DEF register, Idle, TypeOK, Clients
  <2>2. [client[p] EXCEPT !.call = call] \in Clients
    BY <2>1 DEF Clients
  <2>3. send(p, to_json("PodStarting", client[p].id), client[p],
             [client[p] EXCEPT !.call = call], [client[p] EXCEPT !.call = call])
    BY <1>2 DEF register
  <2>4. /\ client' \in [Pods -> Clients \cup {NoClient}]
        /\ request' \in [Pods -> Requests \cup {NoRequest}]
    BY <2>1, <2>2, <2>3, SendTyped, TextTyped
  <2> QED
    BY <1>2, <2>4 DEF register, TypeOK, engineVars
<1>3. ASSUME NEW p \in Pods, notify(p)
      PROVE  TypeOK'
  <2>1. client[p] \in Clients /\ client[p].id \in Ids
    BY <1>3 DEF notify, Idle, TypeOK, Clients
  <2>2. [client[p] EXCEPT !.ready = TRUE] \in Clients
    BY <2>1 DEF Clients
  <2>3. send(p, to_json("PodReady", client[p].id), client[p], client[p],
             [client[p] EXCEPT !.ready = TRUE])
    BY <1>3 DEF notify
  <2>4. /\ client' \in [Pods -> Clients \cup {NoClient}]
        /\ request' \in [Pods -> Requests \cup {NoRequest}]
    BY <2>1, <2>2, <2>3, SendTyped, TextTyped
  <2> QED
    BY <1>3, <2>4 DEF notify, TypeOK, engineVars
<1>4. ASSUME NEW p \in Pods, terminate(p)
      PROVE  TypeOK'
  <2>1. client[p] \in Clients /\ client[p].id \in Ids
    BY <1>4 DEF terminate, Idle, TypeOK, Clients
  <2>2. send(p, to_json("PodStopping", client[p].id), client[p], client[p], client[p])
    BY <1>4 DEF terminate
  <2>3. /\ client' \in [Pods -> Clients \cup {NoClient}]
        /\ request' \in [Pods -> Requests \cup {NoRequest}]
    BY <2>1, <2>2, SendTyped, TextTyped
  <2> QED
    BY <1>4, <2>3 DEF terminate, TypeOK, engineVars
<1>5. ASSUME NEW p \in Pods, NEW kind \in {"PodStarting", "PodReady", "PodStopping"},
             write(p, kind)
      PROVE  TypeOK'
  <2>1. client[p] \in Clients /\ client[p].id \in Ids
    BY <1>5 DEF write, Idle, TypeOK, Clients
  <2>2. Json(kind, client[p].id) \in Requests
    BY <2>1, TextTyped
  <2>3. \A own, ready \in BOOLEAN :
          [[client[p] EXCEPT !.own = own, !.ready = ready] EXCEPT !.req = "recv"] \in Clients
    BY <2>1 DEF Clients
  <2>4. /\ client' = [client EXCEPT ![p] =
                        [[client[p] EXCEPT !.own = @ \/ kind = "PodStarting",
                                           !.ready = @ \/ kind = "PodReady"]
                           EXCEPT !.req = "recv"]]
        /\ request' = [request EXCEPT ![p] = Json(kind, client[p].id)]
    BY <1>5 DEF write, Sent
  <2>5. client' \in [Pods -> Clients \cup {NoClient}]
    BY <2>3, <2>4 DEF TypeOK
  <2> QED
    BY <1>5, <2>2, <2>4, <2>5 DEF write, TypeOK, engineVars
<1>6. ASSUME NEW p \in Pods, receive_answer(p)
      PROVE  TypeOK'
  <2>1. client[p] \in Clients
    BY <1>6 DEF receive_answer, TypeOK
  <2>2. recvd(client[p]) \in Clients /\ [client[p] EXCEPT !.call = "none"] \in Clients
    BY <2>1 DEF recvd, Clients
  <2>3. client' \in [Pods -> Clients \cup {NoClient}]
    BY <1>6, <2>2 DEF receive_answer, TypeOK
  <2> QED
    BY <1>6, <2>3 DEF receive_answer, TypeOK, engineVars
<1>7. ASSUME NEW p \in Pods, setup_channel(p)
      PROVE  TypeOK'
  <2>1. client[p] \in Clients
    BY <1>7 DEF setup_channel, TypeOK
  <2>2. recvd(client[p]) \in Clients /\ [client[p] EXCEPT !.call = "none"] \in Clients
    BY <2>1 DEF recvd, Clients
  <2>3. CASE OpenChannel(p, recvd(client[p]))
    BY <1>7, <2>2, <2>3, OpenTyped DEF setup_channel, TypeOK, engineVars
  <2>4. CASE client' = [client EXCEPT ![p].call = "none"] /\ UNCHANGED <<mem, freed>>
    <3>1. client' \in [Pods -> Clients \cup {NoClient}]
      BY <2>2, <2>4 DEF TypeOK
    <3> QED
      BY <1>7, <2>4, <3>1 DEF setup_channel, TypeOK, engineVars
  <2> QED
    BY <1>7, <2>3, <2>4 DEF setup_channel
<1>9. ASSUME NEW p \in Pods, pod_send(p) \/ pod_receive(p)
      PROVE  TypeOK'
  <2>1. client[p].channel \in Channels
    BY <1>9 DEF pod_send, pod_receive, HasChannel, Idle, TypeOK, Clients
  <2>2. client[p].channel.tx \in Addresses /\ client[p].channel.rx \in Addresses
    BY <2>1 DEF Channels
  <2>3. mem' \in [Addresses -> Rings]
    BY <1>9, <2>2, PacketTyped DEF pod_send, pod_receive, SendsOn, ReceivesFrom, TypeOK
  <2> QED
    BY <1>9, <2>3 DEF pod_send, pod_receive, podVars, engineVars, TypeOK
<1>10. ASSUME NEW p \in Pods, drop(p) \/ crash(p)
       PROVE  TypeOK'
  <2>1. /\ client' \in [Pods -> Clients \cup {NoClient}]
        /\ request' \in [Pods -> Requests \cup {NoRequest}]
        /\ orphans' \subseteq Requests
    BY <1>10 DEF drop, crash, Abandon, TypeOK
  <2>2. mem' \in [Addresses -> Rings] /\ freed' \in BOOLEAN
    BY <1>10, FreeTyped DEF drop, crash, TypeOK
  <2>3. counter' \in [Pods -> [next : Ids, poisoned : BOOLEAN]]
    <3>1. [next |-> 0, poisoned |-> FALSE] \in [next : Ids, poisoned : BOOLEAN]
      BY PodAssumption DEF Ids
    <3> QED
      BY <1>10, <3>1 DEF drop, crash, TypeOK
  <2> QED
    BY <1>10, <2>1, <2>2, <2>3 DEF drop, crash, engineVars, TypeOK
<1>11. ASSUME NEW p \in Pods, handle_request(p)
       PROVE  TypeOK'
  <2>1. request[p] \in Requests /\ client[p] # NoClient
    BY <1>11 DEF handle_request, TypeOK, Conversations, Conversation
  <2>2. Handle(request[p], {p})
    BY <1>11 DEF handle_request
  <2>3. request' \in [Pods -> Requests \cup {NoRequest}] /\ UNCHANGED <<counter, orphans>>
    BY <1>11 DEF handle_request, TypeOK
  <2> QED
    BY <2>1, <2>2, <2>3, HandleTyped DEF TypeOK
<1>12. CASE handle_orphan
  <2>1. PICK r \in orphans : Handle(r, {}) /\ orphans' = orphans \ {r}
    BY <1>12 DEF handle_orphan
  <2>2. r \in Requests /\ orphans' \subseteq Requests
    BY <2>1 DEF TypeOK
  <2> QED
    BY <1>12, <2>1, <2>2, HandleTyped DEF handle_orphan, TypeOK
<1>13. ASSUME NEW id \in DOMAIN ringmap, engine_send(id) \/ engine_receive(id)
       PROVE  TypeOK'
  <2>1. ringmap[id].tx \in Addresses /\ ringmap[id].rx \in Addresses
    BY DEF TypeOK, Channels
  <2>2. mem' \in [Addresses -> Rings]
    BY <1>13, <2>1, PacketTyped DEF engine_send, engine_receive, SendsOn, ReceivesFrom, TypeOK
  <2> QED
    BY <1>13, <2>2 DEF engine_send, engine_receive, podVars, engineVars, TypeOK
<1>14. CASE UNCHANGED vars
  BY <1>14 DEF vars, podVars, engineVars, TypeOK
<1> QED
  BY <1>1, <1>2, <1>3, <1>4, <1>5, <1>6, <1>7, <1>9, <1>10, <1>11, <1>12,
     <1>13, <1>14 DEF Next

\* send with a text get_msg cannot read keeps a conversation: the socket is
\* only used when it was free, and then waits.
LEMMA SendTalks ==
  ASSUME TypeOK, Conversations, NEW p \in Pods, client[p] # NoClient,
         NEW text \in Requests, ~Parses(text, "PodStarting"),
         NEW ok \in Clients, NEW sent \in Clients,
         ok.req = client[p].req, ok.own = client[p].own, ok.ready = client[p].ready,
         ok.channel = client[p].channel,
         sent.own = client[p].own, sent.channel = client[p].channel,
         send(p, text, client[p], ok, sent)
  PROVE  Conversation(client'[p], request'[p])
<1>1. Conversation(client[p], request[p])
  BY DEF Conversations
<1>2. client \in [Pods -> Clients \cup {NoClient}] /\ request \in [Pods -> Requests \cup {NoRequest}]
  BY DEF TypeOK
<1>3. CASE NotSent(p, client[p])
  BY <1>1, <1>2, <1>3 DEF NotSent
<1>4. CASE NotSent(p, ok)
  BY <1>1, <1>2, <1>4, NoneAssumption DEF NotSent, Conversation
<1>5. CASE Sent(p, text, sent)
  <2>1. client'[p] = [sent EXCEPT !.req = "recv"] /\ request'[p] = text
    BY <1>2, <1>5 DEF Sent
  <2>2. /\ client'[p].req = "recv" /\ client'[p] \in Clients
        /\ client'[p].own = sent.own /\ client'[p].channel = sent.channel
    BY <2>1 DEF Clients
  <2>3. client[p].channel # NoChannel => client[p].own
    BY <1>1 DEF Conversation
  <2> QED
    BY <2>1, <2>2, <2>3, NoneAssumption DEF Conversation
<1> QED
  BY <1>3, <1>4, <1>5 DEF send

\* Every step keeps the conversations.
LEMMA ConversationStep == TypeOK /\ Conversations /\ [Next]_vars => Conversations'
<1> SUFFICES ASSUME TypeOK, Conversations, [Next]_vars
             PROVE  Conversations'
  OBVIOUS
<1>0. /\ client \in [Pods -> Clients \cup {NoClient}]
      /\ request \in [Pods -> Requests \cup {NoRequest}]
      /\ \A p \in Pods : Conversation(client[p], request[p])
  BY DEF TypeOK, Conversations
\* A step of one pod p leaves the others alone.
<1>a. ASSUME NEW p \in Pods, Conversation(client'[p], request'[p]),
             NEW c, client' = [client EXCEPT ![p] = c],
             NEW r, request' = [request EXCEPT ![p] = r]
      PROVE  Conversations'
  BY <1>0, <1>a DEF Conversations
<1>b. \A p \in Pods : request = [request EXCEPT ![p] = request[p]]
  BY <1>0
<1>1. ASSUME NEW p \in Pods, new(p)
      PROVE  Conversations'
  <2>1. client[p] = NoClient /\ UNCHANGED request
    BY <1>1 DEF new
  <2>2. request[p] = NoRequest
    BY <1>0, <2>1 DEF Conversation
  <2>3. CASE UNCHANGED client
    BY <1>0, <2>1, <2>3 DEF Conversations
  <2>4. ASSUME NEW id, client' = [client EXCEPT ![p] = NewClient(id)]
        PROVE  Conversations'
    <3>1. client'[p] = NewClient(id) /\ request'[p] = NoRequest
      BY <1>0, <2>1, <2>2, <2>4
    <3>2. Conversation(client'[p], request'[p])
      BY <3>1 DEF Conversation, NewClient
    <3> QED
      BY <1>a, <1>b, <2>1, <2>4, <3>2
  <2> QED
    BY <1>1, <2>3, <2>4 DEF new
<1>2. ASSUME NEW p \in Pods, NEW text, NEW ok, NEW sent, send(p, text, client[p], ok, sent),
             Conversation(client'[p], request'[p])
      PROVE  Conversations'
  <2>1. \E c, r : client' = [client EXCEPT ![p] = c] /\ request' = [request EXCEPT ![p] = r]
    BY <1>2, <1>b DEF send, Sent, NotSent
  <2> QED
    BY <1>2, <1>a, <2>1
<1>3. ASSUME NEW p \in Pods, NEW call \in {"register", "setup"}, register(p, call)
      PROVE  Conversations'
  <2>1. client[p] \in Clients /\ client[p] # NoClient /\ client[p].id \in Ids
    BY <1>0, <1>3 DEF register, Idle, Clients
  <2>2. [client[p] EXCEPT !.call = call] \in Clients
    BY <2>1 DEF Clients
  <2> DEFINE text == to_json("PodStarting", client[p].id)
             waits == [client[p] EXCEPT !.call = call]
  <2>3. text \in Requests /\ ~Parses(text, "PodStarting")
    BY <2>1, TextTyped DEF to_json, Parses
  <2>4. send(p, text, client[p], waits, waits)
    BY <1>3 DEF register
  <2>5. waits.req = client[p].req /\ waits.own = client[p].own /\ waits.ready = client[p].ready
        /\ waits.channel = client[p].channel
    BY <2>1 DEF Clients
  <2> HIDE DEF text, waits
  <2> QED
    BY <1>2, <2>1, <2>2, <2>3, <2>4, <2>5, SendTalks DEF waits
<1>4. ASSUME NEW p \in Pods, notify(p)
      PROVE  Conversations'
  <2>1. client[p] \in Clients /\ client[p] # NoClient /\ client[p].id \in Ids
    BY <1>0, <1>4 DEF notify, Idle, Clients
  <2>2. [client[p] EXCEPT !.ready = TRUE] \in Clients
    BY <2>1 DEF Clients
  <2> DEFINE text == to_json("PodReady", client[p].id)
             sent == [client[p] EXCEPT !.ready = TRUE]
  <2>3. text \in Requests /\ ~Parses(text, "PodStarting")
    BY <2>1, TextTyped DEF to_json, Parses
  <2>4. send(p, text, client[p], client[p], sent)
    BY <1>4 DEF notify
  <2>5. sent.own = client[p].own /\ sent.channel = client[p].channel
    BY <2>1 DEF Clients
  <2> HIDE DEF text, sent
  <2> QED
    BY <1>2, <2>1, <2>2, <2>3, <2>4, <2>5, SendTalks DEF sent
<1>5. ASSUME NEW p \in Pods, terminate(p)
      PROVE  Conversations'
  <2>1. client[p] \in Clients /\ client[p] # NoClient /\ client[p].id \in Ids
    BY <1>0, <1>5 DEF terminate, Idle, Clients
  <2> DEFINE text == to_json("PodStopping", client[p].id)
  <2>2. text \in Requests /\ ~Parses(text, "PodStarting")
    BY <2>1, TextTyped DEF to_json, Parses
  <2>3. send(p, text, client[p], client[p], client[p])
    BY <1>5 DEF terminate
  <2> HIDE DEF text
  <2> QED
    BY <1>2, <2>1, <2>2, <2>3, SendTalks
<1>6. ASSUME NEW p \in Pods, NEW kind \in {"PodStarting", "PodReady", "PodStopping"},
             write(p, kind)
      PROVE  Conversations'
  <2>1. client[p] \in Clients /\ client[p] # NoClient /\ client[p].req = "send"
    BY <1>0, <1>6 DEF write, Idle
  <2> DEFINE r == Json(kind, client[p].id)
             c == [[client[p] EXCEPT !.own = @ \/ kind = "PodStarting",
                                     !.ready = @ \/ kind = "PodReady"] EXCEPT !.req = "recv"]
  <2>2. client' = [client EXCEPT ![p] = c] /\ request' = [request EXCEPT ![p] = r]
    BY <1>6 DEF write, Sent
  <2>3. ~client[p].ready
    BY <1>0, <2>1 DEF Conversation
  <2>4. /\ c.req = "recv"
        /\ kind = "PodStarting" => c.own /\ ~c.ready
        /\ Parses(r, "PodStarting") => kind = "PodStarting"
        /\ c.channel = client[p].channel /\ (client[p].own => c.own)
    BY <2>1, <2>3 DEF Clients, Json, Parses
  <2> HIDE DEF c, r
  <2>5. client'[p] = c /\ request'[p] = r
    BY <1>0, <2>2
  <2>6. Conversation(client'[p], request'[p])
    <3>1. c # NoClient
      <4>1. \A own, ready \in BOOLEAN :
              [[client[p] EXCEPT !.own = own, !.ready = ready] EXCEPT !.req = "recv"] \in Clients
        BY <2>1 DEF Clients
      <4> QED
        BY <4>1, NoneAssumption DEF c
    <3>2. client[p].channel # NoChannel => client[p].own
      BY <1>0, <2>1 DEF Conversation
    <3> QED
      BY <2>4, <2>5, <3>1, <3>2 DEF Conversation
  <2> QED
    BY <1>a, <2>2, <2>6
\* What ends a call or opens a Channel is no request and no answer.
<1>c. ASSUME NEW p \in Pods, client[p] # NoClient, NEW c \in Clients,
             client' = [client EXCEPT ![p] = c], UNCHANGED request,
             c.own = client[p].own, c.ready = client[p].ready,
             client[p].req # "answered" => c.req = client[p].req,
             client[p].req = "answered" => c.req \in {"answered", "send"},
             c.channel = client[p].channel \/ client[p].req = "answered"
      PROVE  Conversations'
  <2>1. client'[p] = c /\ request'[p] = request[p] /\ c # NoClient
    BY <1>0, <1>c, NoneAssumption
  <2>2. Conversation(client'[p], request'[p])
    BY <1>0, <1>c, <2>1 DEF Conversation
  <2> QED
    BY <1>a, <1>b, <1>c, <2>2
<1>d. ASSUME NEW c \in Clients
      PROVE  /\ recvd(c) \in Clients /\ recvd(c).own = c.own /\ recvd(c).ready = c.ready
             /\ recvd(c).req = "send" /\ recvd(c).channel = c.channel
             /\ [c EXCEPT !.call = "none"] \in Clients
             /\ [c EXCEPT !.call = "none"].own = c.own
             /\ [c EXCEPT !.call = "none"].ready = c.ready
             /\ [c EXCEPT !.call = "none"].req = c.req
             /\ [c EXCEPT !.call = "none"].channel = c.channel
  BY DEF recvd, Clients
<1>e. ASSUME NEW p \in Pods, NEW c \in Clients, OpenChannel(p, c)
      PROVE  \E d \in Clients : /\ client' = [client EXCEPT ![p] = d]
                                /\ d.own = c.own /\ d.ready = c.ready /\ d.req = c.req
  <2>1. \A tx, rx \in Addresses :
          LET d == [c EXCEPT !.channel = [tx |-> tx, rx |-> rx]]
          IN d \in Clients /\ d.own = c.own /\ d.ready = c.ready /\ d.req = c.req
    BY DEF Clients, Channels
  <2>2. \A name : \A t \in Lookup(name) : t \subseteq Addresses
    BY DEF Lookup, At
  <2>3. \/ client' = [client EXCEPT ![p] = c]
        \/ \E tx, rx \in Addresses :
             client' = [client EXCEPT ![p] = [c EXCEPT !.channel = [tx |-> tx, rx |-> rx]]]
    BY <1>e, <2>2 DEF OpenChannel
  <2> QED
    BY <2>1, <2>3
<1>7. ASSUME NEW p \in Pods, receive_answer(p)
      PROVE  Conversations'
  <2>1. client[p] \in Clients /\ client[p] # NoClient /\ UNCHANGED request
    BY <1>0, <1>7 DEF receive_answer
  <2>2. CASE RecvOk(client[p]) /\ client' = [client EXCEPT ![p] = recvd(@)]
    BY <1>c, <1>d, <2>1, <2>2 DEF RecvOk
  <2>3. CASE client' = [client EXCEPT ![p].call = "none"]
    <3> DEFINE d == [client[p] EXCEPT !.call = "none"]
    <3>1. client' = [client EXCEPT ![p] = d]
      BY <2>3
    <3>2. d \in Clients /\ d.own = client[p].own /\ d.ready = client[p].ready
          /\ d.req = client[p].req /\ d.channel = client[p].channel
      BY <1>d, <2>1
    <3> HIDE DEF d
    <3> QED
      BY <1>c, <2>1, <3>1, <3>2
  <2> QED
    BY <1>7, <2>2, <2>3 DEF receive_answer
<1>8. ASSUME NEW p \in Pods, setup_channel(p)
      PROVE  Conversations'
  <2>1. client[p] \in Clients /\ client[p] # NoClient /\ UNCHANGED request
    BY <1>0, <1>8 DEF setup_channel
  <2>2. CASE RecvOk(client[p]) /\ OpenChannel(p, recvd(client[p]))
    <3>1. PICK d \in Clients : /\ client' = [client EXCEPT ![p] = d]
                               /\ d.own = client[p].own /\ d.ready = client[p].ready
                               /\ d.req = "send"
      <4> DEFINE c == recvd(client[p])
      <4>1. c \in Clients /\ c.own = client[p].own /\ c.ready = client[p].ready
            /\ c.req = "send" /\ OpenChannel(p, c)
        BY <1>d, <2>1, <2>2
      <4> HIDE DEF c
      <4> QED
        BY <1>e, <4>1
    <3> QED
      BY <1>c, <2>1, <2>2, <3>1 DEF RecvOk
  <2>3. CASE client' = [client EXCEPT ![p].call = "none"]
    <3> DEFINE d == [client[p] EXCEPT !.call = "none"]
    <3>1. client' = [client EXCEPT ![p] = d]
      BY <2>3
    <3>2. d \in Clients /\ d.own = client[p].own /\ d.ready = client[p].ready
          /\ d.req = client[p].req /\ d.channel = client[p].channel
      BY <1>d, <2>1
    <3> HIDE DEF d
    <3> QED
      BY <1>c, <2>1, <3>1, <3>2
  <2> QED
    BY <1>8, <2>2, <2>3 DEF setup_channel
<1>10. ASSUME NEW p \in Pods, drop(p) \/ crash(p)
       PROVE  Conversations'
  <2>1. /\ client' = [client EXCEPT ![p] = NoClient]
        /\ request' = [request EXCEPT ![p] = NoRequest]
    BY <1>10 DEF drop, crash, Abandon
  <2>2. client'[p] = NoClient /\ request'[p] = NoRequest
    BY <1>0, <2>1
  <2>3. Conversation(client'[p], request'[p])
    BY <2>2 DEF Conversation
  <2> QED
    BY <1>a, <2>1, <2>3
<1>11. ASSUME NEW p \in Pods, handle_request(p)
       PROVE  Conversations'
  <2>1. request[p] # NoRequest /\ request' = [request EXCEPT ![p] = NoRequest]
    BY <1>11 DEF handle_request
  <2>2. client[p] \in Clients /\ client[p] # NoClient /\ request'[p] = NoRequest
    BY <1>0, <2>1 DEF Conversation
  <2>3. CASE UNCHANGED client
    <3>1. Conversation(client[p], NoRequest)
      BY <1>0, <2>1, <2>2 DEF Conversation
    <3> QED
      BY <1>0, <2>1, <2>3, <3>1 DEF Conversations
  <2>4. CASE Serve(request[p], {p})
    <3>1. client[p].own /\ ~client[p].ready
      BY <1>0, <2>1, <2>2, <2>4 DEF Serve, Conversation
    <3>2. \A q \in Pods : client'[q] = IF q = p THEN [client[q] EXCEPT !.req = "answered"]
                                                ELSE client[q]
      BY <2>4 DEF Serve
    <3>3. LET c == [client[p] EXCEPT !.req = "answered"]
          IN c.req = "answered" /\ c.own = client[p].own /\ c.ready = client[p].ready
      BY <2>2 DEF Clients
    <3>4. Conversation([client[p] EXCEPT !.req = "answered"], NoRequest)
      <4>1. [client[p] EXCEPT !.req = "answered"] # NoClient
        BY <2>2, AnsweredTyped, NoneAssumption
      <4> QED
        BY <3>1, <3>3, <4>1 DEF Conversation
    <3> QED
      BY <1>0, <2>1, <3>2, <3>4 DEF Conversations
  <2> QED
    BY <1>11, <2>3, <2>4 DEF handle_request, Handle, Stop, Swallow
<1>12. CASE handle_orphan
  <2>1. UNCHANGED request
    BY <1>12 DEF handle_orphan
  <2>2. client' = client \/ \E r : Serve(r, {})
    BY <1>12 DEF handle_orphan, Handle, Stop, Swallow
  <2>3. \A q \in Pods : client'[q] = client[q]
    BY <2>2 DEF Serve
  <2> QED
    BY <1>0, <2>1, <2>3 DEF Conversations
<1>13. CASE UNCHANGED <<client, request>>
  BY <1>0, <1>13 DEF Conversations
<1> QED
  BY <1>1, <1>3, <1>4, <1>5, <1>6, <1>7, <1>8, <1>10, <1>11, <1>12, <1>13
  DEF Next, pod_send, pod_receive, engine_send, engine_receive, podVars, vars

\* The types and the conversations hold in every state.
LEMMA TypesAndConversations == Spec => [](TypeOK /\ Conversations)
<1>1. Init => TypeOK /\ Conversations
  <2>1. NoRing \in Rings /\ 0 \in Ids
    BY PodAssumption DEF NoRing, Rings, Ids
  <2>2. Init => TypeOK
    <3> SUFFICES ASSUME Init PROVE TypeOK
      OBVIOUS
    <3>1. counter \in [Pods -> [next : Ids, poisoned : BOOLEAN]]
      BY <2>1 DEF Init
    <3>2. /\ client \in [Pods -> Clients \cup {NoClient}]
          /\ request \in [Pods -> Requests \cup {NoRequest}]
          /\ mem \in [Addresses -> Rings]
      BY <2>1 DEF Init
    <3>3. DOMAIN ringmap \subseteq Ids /\ ringmap \in [DOMAIN ringmap -> Channels]
      BY DEF Init
    <3>4. orphans \subseteq Requests /\ {deaf, freed} \subseteq BOOLEAN
      BY DEF Init
    <3> QED
      BY <3>1, <3>2, <3>3, <3>4 DEF TypeOK
  <2>3. Init => Conversations
    BY DEF Init, Conversations, Conversation
  <2> QED
    BY <2>2, <2>3
<1> QED
  BY <1>1, TypeStep, ConversationStep, PTL DEF Spec

\* Every reachable state has the types of the code's fields: no id leaves
\* u16, no ring exceeds its size.  (get_dockerclient_id, enqueue, dequeue)
THEOREM TypeCorrect == Spec => []TypeOK
BY TypesAndConversations, PTL

\* register and setup_channel return Ok, and open a Channel, only if the program
\* has written a registration of its own.  (register, to_json, get_msg)
THEOREM GenuineOkHolds == Spec => []GenuineOk
<1>1. Conversations => GenuineOk
  BY DEF Conversations, Conversation, GenuineOk, RecvOk
<1> QED
  BY <1>1, TypesAndConversations, PTL

\* A client that has sent PodReady waits for an answer.
ReadyNeverStops ==
  \A p \in Pods : client[p] # NoClient /\ client[p].ready => client[p].req = "recv"

\* No client that has sent PodReady ever gets its socket back, so terminate does
\* not tell the engine that it stops.  (notify, terminate, set_client_status)
THEOREM ReadyNeverStopsHolds == Spec => []ReadyNeverStops
<1>1. Conversations => ReadyNeverStops
  BY DEF Conversations, Conversation, ReadyNeverStops
<1> QED
  BY <1>1, TypesAndConversations, PTL

\* A client that waits has its request in the queue.
Queued(c, r) == c # NoClient /\ c.req = "recv" => r # NoRequest

\* Every step of an engine that owes no answer leaves the sockets in step.
LEMMA WaitersStep ==
  ASSUME TypeOK, Conversations, [Next]_vars,
         ~deaf => \A p \in Pods : Queued(client[p], request[p])
  PROVE  ~deaf' => \A p \in Pods : Queued(client'[p], request'[p])
<1>0. /\ client \in [Pods -> Clients \cup {NoClient}]
      /\ request \in [Pods -> Requests \cup {NoRequest}]
  BY DEF TypeOK
\* A step of one pod p leaves the others and the engine alone.
<1>a. ASSUME NEW p \in Pods, NEW c, client' = [client EXCEPT ![p] = c],
             NEW r, request' = [request EXCEPT ![p] = r], deaf' = deaf,
             ~deaf => Queued(c, r)
      PROVE  ~deaf' => \A q \in Pods : Queued(client'[q], request'[q])
  BY <1>0, <1>a
<1>b. \A p \in Pods : request = [request EXCEPT ![p] = request[p]]
  BY <1>0
\* A client that keeps its place in the conversation.
<1>c. ASSUME NEW p \in Pods, NEW c, client' = [client EXCEPT ![p] = c],
             UNCHANGED <<request, deaf>>, client[p] # NoClient,
             c.req = client[p].req \/ c.req # "recv"
      PROVE  ~deaf' => \A q \in Pods : Queued(client'[q], request'[q])
  <2>1. ~deaf => Queued(c, request[p])
    BY <1>c DEF Queued
  <2> QED
    BY <1>a, <1>b, <1>c, <2>1
<1>1. ASSUME NEW p \in Pods, new(p)
      PROVE  ~deaf' => \A q \in Pods : Queued(client'[q], request'[q])
  <2>1. UNCHANGED <<request, deaf>>
    BY <1>1 DEF new, engineVars
  <2>2. CASE UNCHANGED client
    BY <2>1, <2>2
  <2>3. ASSUME NEW id, client' = [client EXCEPT ![p] = NewClient(id)]
        PROVE  ~deaf' => \A q \in Pods : Queued(client'[q], request'[q])
    <3>1. Queued(NewClient(id), request[p])
      BY DEF Queued, NewClient
    <3> QED
      BY <1>a, <1>b, <2>1, <2>3, <3>1
  <2> QED
    BY <1>1, <2>2, <2>3 DEF new
<1>2. ASSUME NEW p \in Pods, NEW text \in Requests, NEW c, Sent(p, text, c), deaf' = deaf
      PROVE  ~deaf' => \A q \in Pods : Queued(client'[q], request'[q])
  <2>1. Queued([c EXCEPT !.req = "recv"], text)
    BY NoneAssumption DEF Queued
  <2> QED
    BY <1>2, <1>a, <2>1 DEF Sent
<1>3. ASSUME NEW p \in Pods, NEW text \in Requests, NEW ok, NEW sent,
             send(p, text, client[p], ok, sent), client[p] # NoClient,
             ok.req = client[p].req, deaf' = deaf
      PROVE  ~deaf' => \A q \in Pods : Queued(client'[q], request'[q])
  BY <1>2, <1>3, <1>c DEF send, NotSent
<1>4. ASSUME NEW p \in Pods, NEW call, register(p, call)
      PROVE  ~deaf' => \A q \in Pods : Queued(client'[q], request'[q])
  <2>1. client[p] \in Clients /\ client[p] # NoClient /\ client[p].id \in Ids /\ deaf' = deaf
    BY <1>0, <1>4 DEF register, Idle, Clients, engineVars
  <2>2. to_json("PodStarting", client[p].id) \in Requests
    BY <2>1, TextTyped
  <2>3. [client[p] EXCEPT !.call = call].req = client[p].req
    BY <2>1 DEF Clients
  <2>4. send(p, to_json("PodStarting", client[p].id), client[p],
             [client[p] EXCEPT !.call = call], [client[p] EXCEPT !.call = call])
    BY <1>4 DEF register
  <2> QED
    BY <1>3, <2>1, <2>2, <2>3, <2>4
<1>5. ASSUME NEW p \in Pods, notify(p)
      PROVE  ~deaf' => \A q \in Pods : Queued(client'[q], request'[q])
  <2>1. client[p] \in Clients /\ client[p] # NoClient /\ client[p].id \in Ids /\ deaf' = deaf
    BY <1>0, <1>5 DEF notify, Idle, Clients, engineVars
  <2>2. to_json("PodReady", client[p].id) \in Requests
    BY <2>1, TextTyped
  <2>3. send(p, to_json("PodReady", client[p].id), client[p], client[p],
             [client[p] EXCEPT !.ready = TRUE])
    BY <1>5 DEF notify
  <2> QED
    BY <1>3, <2>1, <2>2, <2>3
<1>6. ASSUME NEW p \in Pods, terminate(p)
      PROVE  ~deaf' => \A q \in Pods : Queued(client'[q], request'[q])
  <2>1. client[p] \in Clients /\ client[p] # NoClient /\ client[p].id \in Ids /\ deaf' = deaf
    BY <1>0, <1>6 DEF terminate, Idle, Clients, engineVars
  <2>2. to_json("PodStopping", client[p].id) \in Requests
    BY <2>1, TextTyped
  <2>3. send(p, to_json("PodStopping", client[p].id), client[p], client[p], client[p])
    BY <1>6 DEF terminate
  <2> QED
    BY <1>3, <2>1, <2>2, <2>3
<1>7. ASSUME NEW p \in Pods, NEW kind \in {"PodStarting", "PodReady", "PodStopping"},
             write(p, kind)
      PROVE  ~deaf' => \A q \in Pods : Queued(client'[q], request'[q])
  <2>1. client[p] \in Clients /\ client[p].id \in Ids /\ deaf' = deaf
    BY <1>0, <1>7 DEF write, Idle, Clients, engineVars
  <2>2. Json(kind, client[p].id) \in Requests
    BY <2>1, TextTyped
  <2>3. PICK c : Sent(p, Json(kind, client[p].id), c)
    BY <1>7 DEF write
  <2> QED
    BY <1>2, <2>1, <2>2, <2>3
<1>8. ASSUME NEW c \in Clients
      PROVE  recvd(c).req = "send" /\ [c EXCEPT !.call = "none"].req = c.req
  BY DEF recvd, Clients
<1>9. ASSUME NEW p \in Pods, receive_answer(p) \/ setup_channel(p)
      PROVE  ~deaf' => \A q \in Pods : Queued(client'[q], request'[q])
  <2>1. client[p] \in Clients /\ client[p] # NoClient /\ UNCHANGED <<request, deaf>>
    BY <1>0, <1>9 DEF receive_answer, setup_channel, engineVars
  <2>2. recvd(client[p]) \in Clients
    BY <2>1 DEF recvd, Clients
  <2>3. CASE client' = [client EXCEPT ![p] = recvd(@)]
    <3>1. client' = [client EXCEPT ![p] = recvd(client[p])]
      BY <2>3
    <3> QED
      BY <1>8, <1>c, <2>1, <3>1
  <2>4. CASE client' = [client EXCEPT ![p].call = "none"]
    <3>1. client' = [client EXCEPT ![p] = [client[p] EXCEPT !.call = "none"]]
      BY <2>4
    <3> QED
      BY <1>8, <1>c, <2>1, <3>1
  <2>5. CASE OpenChannel(p, recvd(client[p]))
    <3>1. PICK c \in Clients : c = recvd(client[p]) /\ c.req = "send"
      BY <1>8, <2>1, <2>2
    <3>2. \A ch : [c EXCEPT !.channel = ch].req = "send"
      BY <3>1 DEF Clients
    <3>3. PICK d : client' = [client EXCEPT ![p] = d] /\ d.req = "send"
      BY <2>5, <3>1, <3>2 DEF OpenChannel
    <3> QED
      BY <1>c, <2>1, <3>3
  <2> QED
    BY <1>9, <2>3, <2>4, <2>5 DEF receive_answer, setup_channel
<1>10. ASSUME NEW p \in Pods, drop(p) \/ crash(p)
       PROVE  ~deaf' => \A q \in Pods : Queued(client'[q], request'[q])
  <2>1. /\ client' = [client EXCEPT ![p] = NoClient] /\ deaf' = deaf
        /\ request' = [request EXCEPT ![p] = NoRequest]
    BY <1>10 DEF drop, crash, Abandon, engineVars
  <2>2. Queued(NoClient, NoRequest)
    BY DEF Queued
  <2> QED
    BY <1>a, <2>1, <2>2
<1>11. ASSUME NEW p \in Pods, handle_request(p)
       PROVE  ~deaf' => \A q \in Pods : Queued(client'[q], request'[q])
  <2>1. /\ request[p] # NoRequest /\ request' = [request EXCEPT ![p] = NoRequest]
        /\ ~deaf /\ Handle(request[p], {p})
    BY <1>11 DEF handle_request, Handle
  <2>2. client[p] \in Clients
    BY <1>0, <2>1 DEF Conversations, Conversation
  <2>3. CASE deaf'
    BY <2>3
  <2>4. CASE Serve(request[p], {p})
    <3>1. \A q \in Pods : client'[q] = IF q = p THEN [client[q] EXCEPT !.req = "answered"]
                                                ELSE client[q]
      BY <2>4 DEF Serve
    <3>2. client'[p].req = "answered"
      BY <2>2, <3>1 DEF Clients
    <3>3. \A q \in Pods : q # p => request'[q] = request[q]
      BY <1>0, <2>1
    <3> QED
      BY <2>1, <3>1, <3>2, <3>3 DEF Queued
  <2> QED
    BY <2>1, <2>3, <2>4 DEF Handle, Stop, Swallow
<1>12. CASE handle_orphan
  <2>1. UNCHANGED request /\ ~deaf
    BY <1>12 DEF handle_orphan, Handle
  <2>2. deaf' \/ \E r : Serve(r, {})
    BY <1>12 DEF handle_orphan, Handle, Stop, Swallow
  <2>3. CASE \E r : Serve(r, {})
    BY <2>1, <2>3 DEF Serve
  <2> QED
    BY <2>2, <2>3
<1>13. CASE UNCHANGED <<client, request, deaf>>
  BY <1>13
<1> QED
  BY <1>1, <1>4, <1>5, <1>6, <1>7, <1>9, <1>10, <1>11, <1>12, <1>13
  DEF Next, pod_send, pod_receive, engine_send, engine_receive, podVars, engineVars, vars

\* However many pods come, go and die, the sockets of the engine and of every
\* client keep step while the engine owes no answer.  (send, get_msg)
THEOREM WaitersOwedHolds == Spec => []WaitersOwed
<1> DEFINE InStep == ~deaf => \A p \in Pods : Queued(client[p], request[p])
<1>1. Init => InStep
  BY DEF Init, Queued
<1>2. TypeOK /\ Conversations /\ InStep /\ [Next]_vars => InStep'
  BY WaitersStep
<1>3. Conversations /\ InStep => WaitersOwed
  BY DEF Conversations, Conversation, WaitersOwed, Queued
<1> HIDE DEF InStep
<1> QED
  BY <1>1, <1>2, <1>3, TypesAndConversations, PTL DEF Spec

-----------------------------------------------------------------------------
(* The rings in shared memory.                                             *)

\* Where nothing is freed, memory stays as it is.
LEMMA FreeNothing ==
  ASSUME NEW m \in [Addresses -> Rings]
  PROVE  Free(m, {}) = m
BY DEF Free

\* The name of a ring that is there.
LEMMA NamedIsThere ==
  ASSUME NEW ring, NEW kind, NEW id, ring.name = <<kind, id>>
  PROVE  ring # NoRing
<1>1. <<kind, id>> # <<>>
  OBVIOUS
<1> QED
  BY <1>1 DEF NoRing

\* The engine's Channels stay sound: as long as no pod frees a ring, rings go
\* only with the Channel that is removed from the map.
LEMMA LiveStep ==
  TypeOK /\ TypeOK' /\ EngineChannelsLive /\ [Next]_vars => EngineChannelsLive'
<1> SUFFICES ASSUME TypeOK, TypeOK', EngineChannelsLive, [Next]_vars, ~freed'
             PROVE  \A id \in DOMAIN ringmap' : /\ mem'[ringmap'[id].tx].name = <<"TX", id>>
                                                /\ mem'[ringmap'[id].rx].name = <<"RX", id>>
  BY DEF EngineChannelsLive
<1>0. /\ mem \in [Addresses -> Rings] /\ ringmap \in [DOMAIN ringmap -> Channels]
      /\ \A id \in DOMAIN ringmap : ringmap[id].tx \in Addresses /\ ringmap[id].rx \in Addresses
  BY DEF TypeOK, Channels
<1>1. ASSUME ~freed, UNCHANGED <<mem, ringmap>>
      PROVE  \A id \in DOMAIN ringmap' : /\ mem'[ringmap'[id].tx].name = <<"TX", id>>
                                         /\ mem'[ringmap'[id].rx].name = <<"RX", id>>
  BY <1>1 DEF EngineChannelsLive
<1>2. ASSUME NEW p \in Pods, NEW c, OpenChannel(p, c)
      PROVE  ~freed /\ UNCHANGED mem
  <2>1. \/ UNCHANGED <<mem, freed>>
        \/ mem' = Free(mem, AddressesOf(c.channel)) /\ freed' = (freed \/ c.channel # NoChannel)
    BY <1>2 DEF OpenChannel
  <2>2. ~freed /\ (UNCHANGED mem \/ c.channel = NoChannel)
    <3>1. CASE UNCHANGED <<mem, freed>>
      BY <3>1
    <3>2. CASE freed' = (freed \/ c.channel # NoChannel)
      BY <3>2
    <3> QED
      BY <2>1, <3>1, <3>2
  <2>3. c.channel = NoChannel => Free(mem, AddressesOf(c.channel)) = mem
    BY <1>0, FreeNothing DEF AddressesOf
  <2> QED
    BY <2>1, <2>2, <2>3, Zenon
<1>3. ASSUME NEW p \in Pods, setup_channel(p) \/ drop(p)
      PROVE  ~freed /\ UNCHANGED <<mem, ringmap>>
  <2>1. CASE setup_channel(p)
    BY <1>2, <2>1 DEF setup_channel, engineVars
  <2>3. CASE drop(p)
    BY <1>0, <2>3, FreeNothing DEF drop, engineVars, AddressesOf
  <2> QED
    BY <1>3, <2>1, <2>3
<1>4. ASSUME NEW a \in Addresses, enqueue(a) \/ dequeue(a), UNCHANGED <<ringmap, freed>>
      PROVE  \A id \in DOMAIN ringmap' : /\ mem'[ringmap'[id].tx].name = <<"TX", id>>
                                         /\ mem'[ringmap'[id].rx].name = <<"RX", id>>
  BY <1>0, <1>4, PacketTyped DEF EngineChannelsLive
<1>5. ASSUME NEW p \in Pods, pod_send(p) \/ pod_receive(p)
      PROVE  \E a \in Addresses : (enqueue(a) \/ dequeue(a)) /\ UNCHANGED <<ringmap, freed>>
  <2>1. client[p].channel \in Channels
    BY <1>5 DEF pod_send, pod_receive, HasChannel, Idle, TypeOK, Clients
  <2>2. client[p].channel.tx \in Addresses /\ client[p].channel.rx \in Addresses
    BY <2>1 DEF Channels
  <2> QED
    BY <1>5, <2>2 DEF pod_send, pod_receive, SendsOn, ReceivesFrom, engineVars
<1>6. ASSUME NEW id \in DOMAIN ringmap, engine_send(id) \/ engine_receive(id)
      PROVE  \E a \in Addresses : (enqueue(a) \/ dequeue(a)) /\ UNCHANGED <<ringmap, freed>>
  BY <1>0, <1>6 DEF engine_send, engine_receive, SendsOn, ReceivesFrom, engineVars
<1>7. ASSUME NEW r \in Requests, NEW asker, Serve(r, asker)
      PROVE  \A id \in DOMAIN ringmap' : /\ mem'[ringmap'[id].tx].name = <<"TX", id>>
                                         /\ mem'[ringmap'[id].rx].name = <<"RX", id>>
  <2>1. r.id \in Ids /\ ~freed
    BY <1>7 DEF Requests, Serve
  <2>2. r.id \notin DOMAIN ringmap
    BY <1>0, <1>7, <2>1 DEF Serve, NamesFree, At, EngineChannelsLive
  <2>3. AddressesOf(Channel(r.id)) = {}
    BY <2>2 DEF Channel, AddressesOf
  <2>4. PICK rx \in Addresses, tx \in Addresses :
          /\ mem[rx] = NoRing /\ mem[tx] = NoRing /\ rx # tx
          /\ mem' = Free(Made(mem, rx, tx, r.id), AddressesOf(Channel(r.id)))
          /\ ringmap' = [id \in DOMAIN ringmap \cup {r.id} |->
                           IF id = r.id THEN [tx |-> tx, rx |-> rx] ELSE ringmap[id]]
    BY <1>7 DEF Serve, Made
  <2>5. /\ Made(mem, rx, tx, r.id) \in [Addresses -> Rings]
        /\ Made(mem, rx, tx, r.id)[rx].name = <<"RX", r.id>>
        /\ Made(mem, rx, tx, r.id)[tx].name = <<"TX", r.id>>
        /\ \A a \in Addresses \ {rx, tx} : Made(mem, rx, tx, r.id)[a] = mem[a]
    <3> DEFINE made == Made(mem, rx, tx, r.id)
    <3>0. mem \in [Addresses -> Rings] /\ rx # tx
      BY <1>0, <2>4
    <3>1. /\ made \in [Addresses -> Rings]
          /\ made[rx] = [name |-> <<"RX", r.id>>, packets |-> mem[rx].packets]
          /\ made[tx] = [name |-> <<"TX", r.id>>, packets |-> mem[tx].packets]
          /\ \A a \in Addresses \ {rx, tx} : made[a] = mem[a]
      BY <2>1, <3>0, MadeExact
    <3> HIDE DEF made
    <3>2. made[rx].name = <<"RX", r.id>> /\ made[tx].name = <<"TX", r.id>>
      BY <3>1
    <3> QED
      BY <3>1, <3>2 DEF made
  <2>6. mem' = Made(mem, rx, tx, r.id)
    BY <2>3, <2>4, <2>5, FreeNothing
  <2>7. ASSUME NEW id \in DOMAIN ringmap
        PROVE  {ringmap[id].tx, ringmap[id].rx} \cap {rx, tx} = {}
    BY <1>0, <2>1, <2>4, NamedIsThere DEF EngineChannelsLive
  <2>8. ringmap'[r.id].tx = tx /\ ringmap'[r.id].rx = rx
    BY <2>4
  <2>9. \A id \in DOMAIN ringmap : ringmap'[id] = ringmap[id]
    BY <2>2, <2>4
  <2>10. DOMAIN ringmap' = DOMAIN ringmap \cup {r.id}
    BY <2>4
  <2>11. ASSUME NEW id \in DOMAIN ringmap
         PROVE  /\ mem'[ringmap'[id].tx].name = <<"TX", id>>
                /\ mem'[ringmap'[id].rx].name = <<"RX", id>>
    <3>1. /\ mem'[ringmap[id].tx] = mem[ringmap[id].tx]
          /\ mem'[ringmap[id].rx] = mem[ringmap[id].rx]
      BY <1>0, <2>5, <2>6, <2>7
    <3> QED
      BY <2>1, <2>9, <3>1 DEF EngineChannelsLive
  <2> QED
    BY <2>5, <2>6, <2>8, <2>10, <2>11
<1>8. ASSUME NEW r, Stop(r)
      PROVE  \A id \in DOMAIN ringmap' : /\ mem'[ringmap'[id].tx].name = <<"TX", id>>
                                         /\ mem'[ringmap'[id].rx].name = <<"RX", id>>
  <2>1. /\ DOMAIN ringmap' = DOMAIN ringmap \ {r.id}
        /\ \A id \in DOMAIN ringmap' : ringmap'[id] = ringmap[id]
        /\ ~freed
    BY <1>8 DEF Stop, Restrict
  <2>2. AddressesOf(Channel(r.id)) \subseteq
          {a \in Addresses : mem[a].name \in {<<"TX", r.id>>, <<"RX", r.id>>}}
    BY <1>0, <2>1 DEF Channel, AddressesOf, EngineChannelsLive
  <2>3. \A id \in DOMAIN ringmap' :
          {ringmap[id].tx, ringmap[id].rx} \cap AddressesOf(Channel(r.id)) = {}
    BY <1>0, <2>1, <2>2 DEF EngineChannelsLive
  <2>4. \A a \in Addresses : a \notin AddressesOf(Channel(r.id)) => mem'[a] = mem[a]
    BY <1>8 DEF Stop, Free
  <2> QED
    BY <1>0, <2>1, <2>3, <2>4 DEF EngineChannelsLive
<1>9. ASSUME NEW r \in Requests, NEW asker, Handle(r, asker)
      PROVE  \A id \in DOMAIN ringmap' : /\ mem'[ringmap'[id].tx].name = <<"TX", id>>
                                         /\ mem'[ringmap'[id].rx].name = <<"RX", id>>
  <2>1. CASE Serve(r, asker)
    BY <1>7, <2>1
  <2>2. CASE Stop(r)
    BY <1>8, <2>2
  <2>3. CASE Swallow(r)
    BY <1>1, <2>3 DEF Swallow
  <2> QED
    BY <1>9, <2>1, <2>2, <2>3 DEF Handle
<1>10. ASSUME NEW p \in Pods, handle_request(p)
       PROVE  request[p] \in Requests /\ Handle(request[p], {p})
  BY <1>10 DEF handle_request, TypeOK
<1>11. ASSUME handle_orphan
       PROVE  \E r \in Requests : Handle(r, {})
  BY <1>11 DEF handle_orphan, TypeOK
<1>12. ASSUME NEW p \in Pods,
              \/ new(p) \/ \E call \in {"register", "setup"} : register(p, call)
              \/ notify(p) \/ terminate(p) \/ receive_answer(p)
              \/ \E kind \in {"PodStarting", "PodReady", "PodStopping"} : write(p, kind)
              \/ crash(p)
       PROVE  ~freed /\ UNCHANGED <<mem, ringmap>>
  BY <1>12 DEF new, register, notify, terminate, receive_answer, write, crash, engineVars
<1>13. CASE UNCHANGED vars
  BY <1>1, <1>13 DEF vars, engineVars
<1> QED
  BY <1>1, <1>3, <1>4, <1>5, <1>6, <1>9, <1>10, <1>11, <1>12, <1>13 DEF Next

\* The engine's Channels have their two live rings until a pod frees one.
\* (Ring::drop at both ends, set_client_status)
THEOREM EngineChannelsLiveHolds == Spec => []EngineChannelsLive
<1>1. Init => EngineChannelsLive
  BY DEF Init, EngineChannelsLive
<1> QED
  BY <1>1, TypesAndConversations, LiveStep, PTL DEF Spec
=============================================================================
