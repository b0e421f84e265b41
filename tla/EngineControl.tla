--------------------------- MODULE EngineControl ---------------------------
(***************************************************************************)
(* The control plane of the engine (runtime/engine.rs): pods register,     *)
(* become ready and stop by sending a request over a ZeroMQ REQ/REP pair.  *)
(* One engine thread polls the REP socket (get_msg), leaves the decoded    *)
(* request in the cell new_msg, and later applies it                       *)
(* (check_n_set_client_status, set_client_status): it creates the two DPDK *)
(* rings of the pod, answers, and records the pod in ringmap and           *)
(* statusmap.                                                              *)
(*                                                                         *)
(* The peers on the other end of the socket are arbitrary processes: they  *)
(* follow the REQ discipline of libzmq (one request, then one answer) and  *)
(* may die and come back, and what they write need not be JSON.  A peer    *)
(* that has looked up a ring frees it when it drops its Channel, although  *)
(* the engine's own Channel still points to it.                            *)
(*                                                                         *)
(* get_msg has no caller in the repository.  The model lets the engine     *)
(* thread call it whenever it is not inside set_client_status, which is    *)
(* every place the code could call it from.                                *)
(***************************************************************************)
EXTENDS Integers, Sequences, FiniteSets

CONSTANTS
  Peers,      \* processes with a REQ socket connected to the engine
  WireIds,    \* the ids peers write in their requests (u64)
  MaxQueued,  \* bound: requests of one peer waiting in the REP socket
  Faults,     \* the faults that may happen: "alloc", "send", "crash", "free"
  NoMsg,      \* new_msg is None
  NoPeer      \* no request has been read that a live peer waits on

ASSUME ControlAssumption ==
  /\ WireIds \subseteq Nat
  /\ MaxQueued \in Nat \ {0}
  /\ NoPeer \notin Peers

VARIABLES
  pipes,      \* requests delivered to the REP socket and not yet read
  req,        \* state of each peer's REQ socket: may "send", must "recv"
  rep,        \* state of the engine's REP socket: may "recv", must "send"
  asker,      \* the peer the REP socket will answer
  new_msg,    \* Engine::new_msg
  statusmap,  \* Engine::statusmap, "none" where there is no entry
  ringmap,    \* the keys of Engine::ringmap
  rings,      \* names of the live rte_rings, shared by all DPDK processes
  pc,         \* where the engine thread is inside set_client_status
  freed       \* history: a peer has freed a ring

vars == <<pipes, req, rep, asker, new_msg, statusmap, ringmap, rings, pc, freed>>

-----------------------------------------------------------------------------

\* `id as u16`: the id of a request is cut to 16 bits.
ClientId(wire) == wire % 65536

ClientIds == {ClientId(w) : w \in WireIds}

\* ContMsgType as a number, and a number that is none of them.
PodStarting == 0
PodReady    == 1
PodStopping == 2
MsgCodes    == 0..3

\* What get_msg can tell apart in a message: the text is the JSON object it
\* looks for, or one of its four early returns applies (no UTF-8, no JSON, no
\* numeric "id", no numeric "msg").
Frames == [form : {"json"}, id : WireIds, msg : MsgCodes]
            \cup [form : {"malformed"}, id : {0}, msg : {0}]

Messages == [id : ClientIds, msg : MsgCodes]

ASSUME NoMsgAssumption == NoMsg \notin Messages

RingNames == {"RX", "TX"} \X ClientIds

\* The two rings of a client, "RX-<id>" and "TX-<id>".
RingsOf(id) == {<<"RX", id>>, <<"TX", id>>}

TypeOK ==
  /\ pipes \in [Peers -> Seq(Frames)]
  /\ req \in [Peers -> {"send", "recv"}]
  /\ rep \in {"recv", "send"}
  /\ asker \in Peers \cup {NoPeer}
  /\ new_msg \in Messages \cup {NoMsg}
  /\ statusmap \in [ClientIds -> {"none", "STARTING", "READY"}]
  /\ ringmap \subseteq ClientIds
  /\ rings \subseteq RingNames
  /\ pc \in {"idle", "rx", "tx", "sent"}
  /\ freed \in BOOLEAN

\* Engine::new.
Init ==
  /\ pipes = [p \in Peers |-> <<>>]
  /\ req = [p \in Peers |-> "send"]
  /\ rep = "recv"
  /\ asker = NoPeer
  /\ new_msg = NoMsg
  /\ statusmap = [id \in ClientIds |-> "none"]
  /\ ringmap = {}
  /\ rings = {}
  /\ pc = "idle"
  /\ freed = FALSE

-----------------------------------------------------------------------------
(* The peers.                                                              *)

\* A peer sends a request.  A REQ socket refuses a second one (EFSM) until the
\* answer to the first has been received.
Request(p, frame) ==
  /\ req[p] = "send"
  /\ Len(pipes[p]) < MaxQueued
  /\ pipes' = [pipes EXCEPT ![p] = Append(@, frame)]
  /\ req' = [req EXCEPT ![p] = "recv"]
  /\ UNCHANGED <<rep, asker, new_msg, statusmap, ringmap, rings, pc, freed>>

\* A peer dies waiting and comes back with a new REQ socket.  The engine may
\* still find its old requests, or lose them with the connection; an answer
\* to the old socket goes nowhere.
Restart(p) ==
  /\ "crash" \in Faults
  /\ req[p] = "recv"
  /\ req' = [req EXCEPT ![p] = "send"]
  /\ \/ UNCHANGED pipes
     \/ pipes' = [pipes EXCEPT ![p] = <<>>]
  /\ asker' = IF asker = p THEN NoPeer ELSE asker
  /\ UNCHANGED <<rep, new_msg, statusmap, ringmap, rings, pc, freed>>

\* Dropping a Ring calls rte_ring_free on its address (memring.rs).  A peer
\* that drops its Channel frees rings the engine holds.
FreeRing(ring) ==
  /\ "free" \in Faults
  /\ ring \in rings
  /\ rings' = rings \ {ring}
  /\ freed' = TRUE
  /\ UNCHANGED <<pipes, req, rep, asker, new_msg, statusmap, ringmap, pc>>

\* The engine drops its Rings of these names.  Once a peer has freed a ring,
\* an address may be stale: nothing is there any more, or another ring is.
DropRings(names) ==
  \E gone \in SUBSET rings :
    /\ IF freed THEN Cardinality(gone) <= Cardinality(names)
                ELSE gone = rings \cap names
    /\ rings' = rings \ gone

-----------------------------------------------------------------------------
(* Engine::get_msg.                                                        *)

\* Mutant: the poll overlooks that the socket owes an answer.
ReadableOwing(p) == pipes[p] # <<>>

\* Mutant: get_msg answers every request at once.
get_msgAnswering(p) ==
  /\ pc = "idle"
  /\ rep = "recv"
  /\ pipes[p] # <<>>
  /\ LET frame == Head(pipes[p]) IN
       new_msg' = IF frame.form = "json"
                  THEN [id |-> ClientId(frame.id), msg |-> frame.msg]
                  ELSE new_msg
  /\ pipes' = [pipes EXCEPT ![p] = Tail(@)]
  /\ req' = [req EXCEPT ![p] = "send"]
  /\ UNCHANGED <<rep, asker, statusmap, ringmap, rings, pc, freed>>

\* Mutant: get_msg keeps the 64-bit id.
get_msgWide(p) ==
  /\ pc = "idle"
  /\ rep = "recv"
  /\ pipes[p] # <<>>
  /\ LET frame == Head(pipes[p]) IN
       new_msg' = IF frame.form = "json"
                  THEN [id |-> frame.id, msg |-> frame.msg]
                  ELSE new_msg
  /\ pipes' = [pipes EXCEPT ![p] = Tail(@)]
  /\ rep' = "send"
  /\ asker' = p
  /\ UNCHANGED <<req, statusmap, ringmap, rings, pc, freed>>

\* zmq_poll(POLLIN): a REP socket that owes an answer is never readable.
Readable(p) == rep = "recv" /\ pipes[p] # <<>>

\* Poll, receive, decode.  The read request is gone and the socket owes an
\* answer whatever the decoding says; new_msg is set only if it succeeds.
\* When nothing is readable, get_msg returns and changes nothing.
get_msg(p) ==
  /\ pc = "idle"
  /\ Readable(p)
  /\ LET frame == Head(pipes[p]) IN
       new_msg' = IF frame.form = "json"
                  THEN [id |-> ClientId(frame.id), msg |-> frame.msg]
                  ELSE new_msg
  /\ pipes' = [pipes EXCEPT ![p] = Tail(@)]
  /\ rep' = "send"
  /\ asker' = p
  /\ UNCHANGED <<req, statusmap, ringmap, rings, pc, freed>>

-----------------------------------------------------------------------------
(* Engine::set_client_status, run by check_n_set_client_status after its   *)
(* sleep when new_msg is set.  Every outcome, error or not, ends by        *)
(* clearing new_msg: the result is discarded with ok().                    *)
(* The rings are created in memory other processes see, so the arm for     *)
(* PodStarting is split where they could look.                             *)

\* set_client_status returns; check_n_set_client_status clears the cell.
Return == pc' = "idle" /\ new_msg' = NoMsg

\* Mutant: a ring of that name is looked up and used again.
CanCreateAny(name) == TRUE

\* rte_ring_create: fails if the name is taken, and may fail for memory.
CanCreate(name) == name \notin rings
MayFail(name) == name \in rings \/ "alloc" \in Faults

\* let rx_q = Ring::new(...)?
CreateRx ==
  /\ pc = "idle"
  /\ new_msg # NoMsg
  /\ new_msg.msg = PodStarting
  /\ LET rx == <<"RX", new_msg.id>> IN
       \/ /\ CanCreate(rx)
          /\ rings' = rings \cup {rx}
          /\ pc' = "rx"
          /\ UNCHANGED new_msg
       \/ /\ MayFail(rx)
          /\ Return
          /\ UNCHANGED rings
  /\ UNCHANGED <<pipes, req, rep, asker, statusmap, ringmap, freed>>

\* Mutant: the error path forgets the ring that already exists.
CreateTxLeaking ==
  /\ pc = "rx"
  /\ LET tx == <<"TX", new_msg.id>> IN
       \/ /\ CanCreate(tx)
          /\ rings' = rings \cup {tx}
          /\ pc' = "tx"
          /\ UNCHANGED new_msg
       \/ /\ MayFail(tx)
          /\ Return
          /\ UNCHANGED rings
  /\ UNCHANGED <<pipes, req, rep, asker, statusmap, ringmap, freed>>

\* let tx_q = Ring::new(...)?  An error drops rx_q, and Drop frees the ring.
CreateTx ==
  /\ pc = "rx"
  /\ LET tx == <<"TX", new_msg.id>> IN
       \/ /\ CanCreate(tx)
          /\ rings' = rings \cup {tx}
          /\ pc' = "tx"
          /\ UNCHANGED new_msg
       \/ /\ MayFail(tx)
          /\ DropRings({<<"RX", new_msg.id>>})
          /\ Return
  /\ UNCHANGED <<pipes, req, rep, asker, statusmap, ringmap, freed>>

\* Mutant: the answer may leave before the second ring exists.
SendReplyEarly ==
  /\ pc \in {"rx", "tx"}
  /\ rep' = "recv"
  /\ req' = [p \in Peers |-> IF p = asker THEN "send" ELSE req[p]]
  /\ asker' = NoPeer
  /\ pc' = "sent"
  /\ UNCHANGED <<new_msg, rings, pipes, statusmap, ringmap, freed>>

\* Mutant: the send waits for a peer that has gone away.
SendReplyBlocking ==
  /\ pc = "tx"
  /\ asker # NoPeer
  /\ rep' = "recv"
  /\ req' = [req EXCEPT ![asker] = "send"]
  /\ asker' = NoPeer
  /\ pc' = "sent"
  /\ UNCHANGED <<new_msg, rings, pipes, statusmap, ringmap, freed>>

\* self.socket.send("1", 0)?  An error drops both rings and leaves the socket
\* owing its answer.
SendReply ==
  /\ pc = "tx"
  /\ \/ /\ rep' = "recv"
        /\ req' = [p \in Peers |-> IF p = asker THEN "send" ELSE req[p]]
        /\ asker' = NoPeer
        /\ pc' = "sent"
        /\ UNCHANGED <<new_msg, rings>>
     \/ /\ "send" \in Faults
        /\ DropRings(RingsOf(new_msg.id))
        /\ Return
        /\ UNCHANGED <<rep, req, asker>>
  /\ UNCHANGED <<pipes, statusmap, ringmap, freed>>

\* ring_map.insert and statusmap.insert: the engine owns the channel from here.
\* A Channel that was in the map under this id is dropped, and its rings with
\* it.
InsertClient ==
  /\ pc = "sent"
  /\ ringmap' = ringmap \cup {new_msg.id}
  /\ statusmap' = [statusmap EXCEPT ![new_msg.id] = "STARTING"]
  /\ IF new_msg.id \in ringmap THEN DropRings(RingsOf(new_msg.id)) ELSE UNCHANGED rings
  /\ Return
  /\ UNCHANGED <<pipes, req, rep, asker, freed>>

\* The arm for PodReady: no answer is sent.
SetReady ==
  /\ pc = "idle"
  /\ new_msg # NoMsg
  /\ new_msg.msg = PodReady
  /\ statusmap' = IF statusmap[new_msg.id] # "none"
                  THEN [statusmap EXCEPT ![new_msg.id] = "READY"]
                  ELSE statusmap
  /\ Return
  /\ UNCHANGED <<pipes, req, rep, asker, ringmap, rings, freed>>

\* Mutant: the channel of a stopped client stays in ringmap.
RemoveClientHalf ==
  /\ pc = "idle"
  /\ new_msg # NoMsg
  /\ new_msg.msg = PodStopping
  /\ statusmap' = [statusmap EXCEPT ![new_msg.id] = "none"]
  /\ Return
  /\ UNCHANGED <<pipes, req, rep, asker, ringmap, rings, freed>>

\* The arm for PodStopping: both entries go, dropping the channel frees its
\* rings, and no answer is sent.  A client without a status entry is an early
\* return that leaves ringmap alone.
RemoveClient ==
  /\ pc = "idle"
  /\ new_msg # NoMsg
  /\ new_msg.msg = PodStopping
  /\ LET id == new_msg.id IN
       IF statusmap[id] # "none"
       THEN /\ statusmap' = [statusmap EXCEPT ![id] = "none"]
            /\ ringmap' = ringmap \ {id}
            /\ IF id \in ringmap THEN DropRings(RingsOf(id)) ELSE UNCHANGED rings
       ELSE UNCHANGED <<statusmap, ringmap, rings>>
  /\ Return
  /\ UNCHANGED <<pipes, req, rep, asker, freed>>

\* Any other number: Err("Unknown client status").
UnknownStatus ==
  /\ pc = "idle"
  /\ new_msg # NoMsg
  /\ new_msg.msg \notin {PodStarting, PodReady, PodStopping}
  /\ Return
  /\ UNCHANGED <<pipes, req, rep, asker, statusmap, ringmap, rings, freed>>

check_n_set_client_status ==
  \/ CreateRx \/ SetReady \/ RemoveClient \/ UnknownStatus

\* The rest of a call of set_client_status once it has begun.
Registering == CreateTx \/ SendReply \/ InsertClient

Next ==
  \/ \E p \in Peers : (\E frame \in Frames : Request(p, frame)) \/ Restart(p)
  \/ \E ring \in RingNames : FreeRing(ring)
  \/ \E p \in Peers : get_msg(p)
  \/ check_n_set_client_status
  \/ Registering

Spec == Init /\ [][Next]_vars

\* set_client_status does not wait for anything: a call that has begun goes on.
FairSpec == Spec /\ WF_vars(Registering)

\* More than the code gives: the engine also polls and handles messages forever.
PollingSpec ==
  /\ FairSpec
  /\ WF_vars(check_n_set_client_status)
  /\ \A p \in Peers : SF_vars(get_msg(p))

-----------------------------------------------------------------------------
(* Properties.                                                             *)

\* The rings of a registration that has begun and not ended.
Pending ==
  CASE pc = "idle" -> {}
    [] pc = "rx" -> {<<"RX", new_msg.id>>}
    [] pc \in {"tx", "sent"} -> RingsOf(new_msg.id)

\* Until a peer frees a ring, the live rings are those of the registered
\* clients and of the registration in progress: no path through
\* set_client_status, error or not, leaks a ring, and none frees a ring of a
\* client that is still registered.
RingsExact == ~freed => rings = ({"RX", "TX"} \X ringmap) \cup Pending

\* statusmap and ringmap, two maps updated one after the other, have the same
\* keys: no error path leaves a status without a channel or a channel without
\* a status.
MapsAgree == ringmap = {id \in ClientIds : statusmap[id] # "none"}

\* However often a pod repeats its request, a registration in progress is for a
\* client that is registered already only if a peer has freed a ring: nothing
\* the engine does itself lets insert replace, and so drop, a channel that is
\* in use.
NoReplacement == pc # "idle" /\ new_msg.id \in ringmap => freed

\* The cell new_msg holds one message: get_msg never overwrites one that has
\* not been handled, whatever the peers send and however seldom the engine
\* looks.  Only the REP socket, which reads nothing before it has answered,
\* keeps it so.
NoLostMessage == [][new_msg # NoMsg => new_msg' \in {new_msg, NoMsg}]_vars

\* A peer that gets the answer "1" finds both of its rings, unless a peer has
\* freed a ring.
AnswerAfterRings ==
  [][rep = "send" /\ rep' = "recv" => freed \/ RingsOf(new_msg.id) \subseteq rings]_vars

\* The engine owes an answer and has no message left that would lead to one.
Deaf == rep = "send" /\ new_msg = NoMsg

\* Any request that ends without an answer (a malformed one, a failed
\* registration, PodReady, PodStopping) is the last one the engine handles:
\* nothing sends the answer the socket waits for, so nothing of the engine
\* changes any more, and no ring is made (peers may still free some).
DeafForever ==
  [][Deaf => /\ UNCHANGED <<rep, new_msg, statusmap, ringmap, pc>>
             /\ rings' \subseteq rings]_vars

\* For that reason at most one pod is ever ready, whatever number registers.
OneReady ==
  \A a, b \in ClientIds :
    statusmap[a] = "READY" /\ statusmap[b] = "READY" => a = b

\* A call of set_client_status returns, also when the pod that asked is gone.
CallReturns == pc # "idle" ~> pc = "idle"

\* "New clients send a message over a message queue [...] to the engine when
\* starting allowing the engine to add them to the list of known clients"
\* (README.md:22): a pod that has asked to be registered is registered at
\* some time.
NewClientsAdded ==
  \A p \in Peers, w \in WireIds :
    (\E i \in DOMAIN pipes[p] :
        pipes[p][i] = [form |-> "json", id |-> w, msg |-> PodStarting])
      ~> statusmap[ClientId(w)] # "none"
=============================================================================
