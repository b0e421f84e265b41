------------------------ MODULE EngineControlProofs ------------------------
(***************************************************************************)
(* What EngineControl promises for every set of peers, every set of ids    *)
(* and every queue bound.                                                  *)
(***************************************************************************)
EXTENDS EngineControl, TLAPS

\* While set_client_status runs, the message it was called for is in new_msg.
Handling == pc # "idle" => new_msg \in Messages

\* The message get_msg stores is one of Messages.
LEMMA DecodedIsMessage ==
  ASSUME NEW frame \in Frames, frame.form = "json"
  PROVE  [id |-> ClientId(frame.id), msg |-> frame.msg] \in Messages
BY DEF Frames, Messages, ClientIds

\* What dropping rings leaves: no new ring, and exactly the others as long as
\* no address can be stale.
LEMMA Dropped ==
  ASSUME NEW names, DropRings(names)
  PROVE  rings' \subseteq rings /\ (~freed => rings' = rings \ names)
BY DEF DropRings

\* Both facts are preserved together: the maps are typed because the message
\* is, and the message is there because nothing clears it before the call ends.
LEMMA TypeStep == TypeOK /\ Handling /\ [Next]_vars => TypeOK' /\ Handling'
<1> SUFFICES ASSUME TypeOK, Handling, [Next]_vars
             PROVE  TypeOK' /\ Handling'
  OBVIOUS
<1> USE DEF TypeOK, Handling
<1>1. ASSUME NEW p \in Peers, NEW frame \in Frames, Request(p, frame)
      PROVE  TypeOK' /\ Handling'
  BY <1>1 DEF Request
<1>2. ASSUME NEW p \in Peers, Restart(p)
      PROVE  TypeOK' /\ Handling'
  <2>1. pipes' \in [Peers -> Seq(Frames)]
    <3>1. CASE UNCHANGED pipes
      BY <3>1
    <3>2. CASE pipes' = [pipes EXCEPT ![p] = <<>>]
      <4>1. <<>> \in Seq(Frames)
        OBVIOUS
      <4> QED
        BY <3>2, <4>1, Zenon
    <3> QED
      BY <1>2, <3>1, <3>2 DEF Restart
  <2>2. req' \in [Peers -> {"send", "recv"}] /\ asker' \in Peers \cup {NoPeer}
    BY <1>2 DEF Restart
  <2> QED
    BY <1>2, <2>1, <2>2 DEF Restart
<1>3. ASSUME NEW p \in Peers, get_msg(p)
      PROVE  TypeOK' /\ Handling'
  <2>1. Head(pipes[p]) \in Frames /\ Tail(pipes[p]) \in Seq(Frames)
    BY <1>3 DEF get_msg, Readable
  <2>2. new_msg' \in Messages \cup {NoMsg}
    BY <1>3, <2>1, DecodedIsMessage DEF get_msg
  <2> QED
    BY <1>3, <2>1, <2>2 DEF get_msg
<1>4. CASE CreateRx
  <2>1. new_msg \in Messages /\ new_msg.id \in ClientIds
    BY <1>4 DEF CreateRx, Messages
  <2> QED
    BY <1>4, <2>1 DEF CreateRx, Return, RingNames
<1>5. CASE CreateTx
  <2>1. new_msg \in Messages /\ new_msg.id \in ClientIds
    BY <1>5 DEF CreateTx, Messages
  <2>2. rings' \subseteq rings \cup {<<"TX", new_msg.id>>}
    BY <1>5, Dropped DEF CreateTx
  <2> QED
    BY <1>5, <2>1, <2>2 DEF CreateTx, Return, RingNames
<1>6. CASE SendReply
  <2>1. rings' \subseteq rings
    BY <1>6, Dropped DEF SendReply
  <2> QED
    BY <1>6, <2>1 DEF SendReply, Return
<1>7. CASE InsertClient
  <2>1. new_msg.id \in ClientIds
    BY <1>7 DEF InsertClient, Messages
  <2>2. rings' \subseteq rings
    BY <1>7, Dropped DEF InsertClient
  <2> QED
    BY <1>7, <2>1, <2>2 DEF InsertClient, Return
<1>8. CASE SetReady
  BY <1>8 DEF SetReady, Return
<1>9. CASE RemoveClient
  <2>1. rings' \subseteq rings
    BY <1>9, Dropped DEF RemoveClient
  <2> QED
    BY <1>9, <2>1 DEF RemoveClient, Return
<1>10. CASE UnknownStatus
  BY <1>10 DEF UnknownStatus, Return
<1>11. CASE UNCHANGED vars
  BY <1>11 DEF vars
<1>12. ASSUME NEW ring \in RingNames, FreeRing(ring)
       PROVE  TypeOK' /\ Handling'
  BY <1>12 DEF FreeRing
<1> QED
  BY <1>1, <1>2, <1>3, <1>4, <1>5, <1>6, <1>7, <1>8, <1>9, <1>10, <1>11, <1>12
  DEF Next, check_n_set_client_status, Registering

\* Engine::new leaves the fields with their types.
LEMMA TypeInit == Init => TypeOK /\ Handling
<1>1. Init => freed \in BOOLEAN
  BY Zenon DEF Init
<1>2. Init => (freed \in BOOLEAN => TypeOK) /\ Handling
  BY DEF Init, TypeOK, Handling
<1> QED
  BY <1>1, <1>2

\* Every reachable state of the engine has the types of its fields.
THEOREM TypeCorrect == Spec => [](TypeOK /\ Handling)
BY TypeInit, TypeStep, PTL DEF Spec

-----------------------------------------------------------------------------
(* The safety invariants, through an inductive invariant.                  *)

\* A message is held only while the socket owes its answer, or has just paid.
HeldIsOwed == new_msg # NoMsg => rep = "send" \/ pc = "sent"

\* A ready client means that the engine is deaf.
ReadyIsDeaf == \A id \in ClientIds : statusmap[id] = "READY" => Deaf

IInv ==
  /\ TypeOK
  /\ Handling
  /\ HeldIsOwed
  /\ RingsExact
  /\ MapsAgree
  /\ NoReplacement
  /\ ReadyIsDeaf
  /\ OneReady

\* Peers touch only their requests and the identity of the asker.
LEMMA PeerStep ==
  ASSUME IInv, TypeOK', Handling', rep' = rep, new_msg' = new_msg,
         statusmap' = statusmap, ringmap' = ringmap, pc' = pc,
         freed' \/ (freed' = freed /\ rings' = rings)
  PROVE  IInv'
BY DEF IInv, HeldIsOwed, RingsExact, Pending, MapsAgree, NoReplacement,
       ReadyIsDeaf, OneReady, Deaf

\* Every step of the engine preserves IInv.
LEMMA IInvStep == IInv /\ [Next]_vars => IInv'
<1> SUFFICES ASSUME IInv, [Next]_vars
             PROVE  IInv'
  OBVIOUS
<1>0. TypeOK' /\ Handling'
  BY TypeStep DEF IInv
<1>1. ASSUME NEW p \in Peers, NEW frame \in Frames, Request(p, frame)
      PROVE  IInv'
  BY <1>0, <1>1, PeerStep DEF Request
<1>2. ASSUME NEW p \in Peers, Restart(p)
      PROVE  IInv'
  BY <1>0, <1>2, PeerStep DEF Restart
<1>3. ASSUME NEW p \in Peers, get_msg(p)
      PROVE  IInv'
  <2>1. rep = "recv" /\ new_msg = NoMsg
    BY <1>3 DEF get_msg, Readable, IInv, HeldIsOwed
  <2>2. \A id \in ClientIds : statusmap[id] # "READY"
    BY <2>1 DEF IInv, ReadyIsDeaf, Deaf
  <2>3. pc = "idle" /\ UNCHANGED <<statusmap, ringmap, rings, pc, freed>> /\ rep' = "send"
    BY <1>3 DEF get_msg
  <2> QED
    BY <1>0, <2>2, <2>3
    DEF IInv, HeldIsOwed, RingsExact, Pending, MapsAgree, NoReplacement,
        ReadyIsDeaf, OneReady
<1>4. CASE CreateRx
  <2>1. new_msg \in Messages /\ new_msg.id \in ClientIds /\ rep = "send" /\ pc = "idle"
    BY <1>4 DEF CreateRx, IInv, TypeOK, HeldIsOwed, Messages
  <2>2. \A id \in ClientIds : statusmap[id] # "READY"
    BY <2>1, NoMsgAssumption DEF IInv, ReadyIsDeaf, Deaf
  <2>3. UNCHANGED <<rep, statusmap, ringmap, freed>>
    BY <1>4 DEF CreateRx
  <2>4. HeldIsOwed' /\ MapsAgree' /\ ReadyIsDeaf' /\ OneReady'
    BY <2>1, <2>2, <2>3 DEF IInv, HeldIsOwed, MapsAgree, ReadyIsDeaf, OneReady
  <2>5. CASE /\ CanCreate(<<"RX", new_msg.id>>)
             /\ rings' = rings \cup {<<"RX", new_msg.id>>}
             /\ pc' = "rx"
             /\ UNCHANGED new_msg
    <3>1. RingsExact'
      BY <2>1, <2>3, <2>5 DEF IInv, RingsExact, Pending
    <3>2. NoReplacement'
      BY <2>1, <2>3, <2>5 DEF IInv, RingsExact, Pending, NoReplacement, CanCreate
    <3> QED
      BY <1>0, <2>4, <3>1, <3>2 DEF IInv
  <2>6. CASE Return /\ UNCHANGED rings
    BY <1>0, <2>1, <2>3, <2>4, <2>6
    DEF IInv, RingsExact, Pending, NoReplacement, Return
  <2> QED
    BY <1>4, <2>5, <2>6 DEF CreateRx
<1>5. CASE CreateTx
  <2>1. new_msg \in Messages /\ new_msg.id \in ClientIds /\ pc = "rx" /\ rep = "send"
    BY <1>5, NoMsgAssumption DEF CreateTx, IInv, Handling, HeldIsOwed, Messages
  <2>2. \A id \in ClientIds : statusmap[id] # "READY"
    BY <2>1, NoMsgAssumption DEF IInv, ReadyIsDeaf, Deaf
  <2>3. UNCHANGED <<rep, statusmap, ringmap, freed>>
    BY <1>5 DEF CreateTx
  <2>4. HeldIsOwed' /\ MapsAgree' /\ ReadyIsDeaf' /\ OneReady'
    BY <2>1, <2>2, <2>3 DEF IInv, HeldIsOwed, MapsAgree, ReadyIsDeaf, OneReady
  <2>5. ~freed => new_msg.id \notin ringmap
    BY <2>1 DEF IInv, NoReplacement
  <2>6. ~freed => rings = ({"RX", "TX"} \X ringmap) \cup {<<"RX", new_msg.id>>}
    BY <2>1 DEF IInv, RingsExact, Pending
  <2>7. CASE /\ rings' = rings \cup {<<"TX", new_msg.id>>}
             /\ pc' = "tx"
             /\ UNCHANGED new_msg
    BY <1>0, <2>3, <2>4, <2>5, <2>6, <2>7
    DEF IInv, RingsExact, Pending, RingsOf, NoReplacement
  <2>8. CASE DropRings({<<"RX", new_msg.id>>}) /\ Return
    <3>1. ~freed => <<"RX", new_msg.id>> \notin {"RX", "TX"} \X ringmap
      BY <2>5
    <3>2. ~freed => rings' = {"RX", "TX"} \X ringmap
      BY <2>6, <2>8, <3>1, Dropped
    <3> QED
      BY <1>0, <2>3, <2>4, <2>8, <3>2
      DEF IInv, RingsExact, Pending, NoReplacement, Return
  <2> QED
    BY <1>5, <2>7, <2>8 DEF CreateTx
<1>6. CASE SendReply
  <2>1. new_msg \in Messages /\ pc = "tx" /\ rep = "send"
    BY <1>6, NoMsgAssumption DEF SendReply, IInv, Handling, HeldIsOwed
  <2>2. \A id \in ClientIds : statusmap[id] # "READY"
    BY <2>1, NoMsgAssumption DEF IInv, ReadyIsDeaf, Deaf
  <2>3. UNCHANGED <<statusmap, ringmap, freed>>
    BY <1>6 DEF SendReply
  <2>4. MapsAgree' /\ ReadyIsDeaf' /\ OneReady'
    BY <2>2, <2>3 DEF IInv, MapsAgree, ReadyIsDeaf, OneReady
  <2>5. ~freed => new_msg.id \notin ringmap
    BY <2>1 DEF IInv, NoReplacement
  <2>6. ~freed => rings = ({"RX", "TX"} \X ringmap) \cup RingsOf(new_msg.id)
    BY <2>1 DEF IInv, RingsExact, Pending
  <2>7. CASE pc' = "sent" /\ UNCHANGED <<new_msg, rings>>
    BY <1>0, <2>3, <2>4, <2>5, <2>6, <2>7
    DEF IInv, HeldIsOwed, RingsExact, Pending, NoReplacement
  <2>8. CASE DropRings(RingsOf(new_msg.id)) /\ Return
    <3>1. ~freed => RingsOf(new_msg.id) \cap ({"RX", "TX"} \X ringmap) = {}
      BY <2>5 DEF RingsOf
    <3>2. ~freed => rings' = {"RX", "TX"} \X ringmap
      BY <2>6, <2>8, <3>1, Dropped
    <3> QED
      BY <1>0, <2>3, <2>4, <2>8, <3>2
      DEF IInv, HeldIsOwed, RingsExact, Pending, NoReplacement, Return
  <2> QED
    BY <1>6, <2>7, <2>8 DEF SendReply
<1>7. CASE InsertClient
  <2>1. new_msg \in Messages /\ new_msg.id \in ClientIds /\ pc = "sent"
    BY <1>7 DEF InsertClient, IInv, Handling, Messages
  <2>2. \A id \in ClientIds : statusmap[id] # "READY"
    BY <2>1, NoMsgAssumption DEF IInv, ReadyIsDeaf, Deaf
  <2>3. \A id \in ClientIds : statusmap'[id] # "READY"
    BY <1>7, <2>1, <2>2 DEF InsertClient, IInv, TypeOK
  <2>4. MapsAgree'
    BY <1>7, <2>1 DEF InsertClient, IInv, TypeOK, MapsAgree
  <2>5. ~freed => /\ rings = ({"RX", "TX"} \X ringmap) \cup RingsOf(new_msg.id)
                  /\ new_msg.id \notin ringmap
    BY <2>1 DEF IInv, RingsExact, Pending, NoReplacement
  <2>6. ~freed => rings' = {"RX", "TX"} \X ringmap'
    BY <1>7, <2>5 DEF InsertClient, RingsOf
  <2> QED
    BY <1>0, <1>7, <2>3, <2>4, <2>6
    DEF InsertClient, Return, IInv, HeldIsOwed, RingsExact, Pending,
        NoReplacement, ReadyIsDeaf, OneReady
<1>8. CASE SetReady
  <2>1. new_msg \in Messages /\ new_msg.id \in ClientIds /\ rep = "send" /\ pc = "idle"
    BY <1>8 DEF SetReady, IInv, TypeOK, HeldIsOwed, Messages
  <2>2. \A id \in ClientIds : statusmap[id] # "READY"
    BY <2>1, NoMsgAssumption DEF IInv, ReadyIsDeaf, Deaf
  <2>3. MapsAgree'
    BY <1>8, <2>1 DEF SetReady, IInv, TypeOK, MapsAgree
  <2>4. \A id \in ClientIds : statusmap'[id] = "READY" => id = new_msg.id
    BY <1>8, <2>1, <2>2 DEF SetReady, IInv, TypeOK
  <2>5. UNCHANGED <<rep, ringmap, rings, freed>> /\ Return
    BY <1>8 DEF SetReady
  <2>6. RingsExact' /\ HeldIsOwed' /\ NoReplacement'
    BY <2>1, <2>5 DEF IInv, RingsExact, Pending, HeldIsOwed, NoReplacement, Return
  <2>7. ReadyIsDeaf' /\ OneReady'
    BY <2>1, <2>4, <2>5 DEF ReadyIsDeaf, OneReady, Deaf, Return
  <2> QED
    BY <1>0, <2>3, <2>6, <2>7 DEF IInv
<1>9. CASE RemoveClient
  <2>1. new_msg \in Messages /\ new_msg.id \in ClientIds /\ pc = "idle"
    BY <1>9 DEF RemoveClient, IInv, TypeOK, Messages
  <2>2. \A id \in ClientIds : statusmap[id] # "READY"
    BY <2>1, <1>9 DEF RemoveClient, IInv, ReadyIsDeaf, Deaf
  <2>3. \A id \in ClientIds : statusmap'[id] # "READY"
    BY <1>9, <2>1, <2>2 DEF RemoveClient, IInv, TypeOK
  <2>4. MapsAgree'
    BY <1>9, <2>1 DEF RemoveClient, IInv, TypeOK, MapsAgree
  <2>5. ~freed => rings = {"RX", "TX"} \X ringmap
    BY <2>1 DEF IInv, RingsExact, Pending
  <2>6. ~freed => rings' = {"RX", "TX"} \X ringmap'
    <3>1. CASE statusmap[new_msg.id] # "none" /\ new_msg.id \in ringmap
      <4>1. ~freed => rings' = rings \ RingsOf(new_msg.id)
        BY <1>9, <3>1, Dropped DEF RemoveClient
      <4>2. ringmap' = ringmap \ {new_msg.id}
        BY <1>9, <3>1 DEF RemoveClient
      <4> QED
        BY <2>5, <4>1, <4>2 DEF RingsOf
    <3>2. CASE ~(statusmap[new_msg.id] # "none" /\ new_msg.id \in ringmap)
      <4>1. rings' = rings /\ ringmap' = ringmap
        BY <1>9, <3>2 DEF RemoveClient
      <4> QED
        BY <2>5, <4>1
    <3> QED
      BY <3>1, <3>2
  <2> QED
    BY <1>0, <1>9, <2>3, <2>4, <2>6
    DEF RemoveClient, Return, IInv, HeldIsOwed, RingsExact, Pending,
        NoReplacement, ReadyIsDeaf, OneReady
<1>10. CASE UnknownStatus
  <2>1. \A id \in ClientIds : statusmap[id] # "READY"
    BY <1>10 DEF UnknownStatus, IInv, ReadyIsDeaf, Deaf
  <2> QED
    BY <1>0, <1>10, <2>1
    DEF UnknownStatus, Return, IInv, HeldIsOwed, RingsExact, Pending, MapsAgree,
        NoReplacement, ReadyIsDeaf, OneReady
<1>11. CASE UNCHANGED vars
  BY <1>0, <1>11, PeerStep DEF vars
<1>12. ASSUME NEW ring \in RingNames, FreeRing(ring)
       PROVE  IInv'
  BY <1>0, <1>12, PeerStep DEF FreeRing
<1> QED
  BY <1>1, <1>2, <1>3, <1>4, <1>5, <1>6, <1>7, <1>8, <1>9, <1>10, <1>11, <1>12
  DEF Next, check_n_set_client_status, Registering

\* IInv holds in every reachable state.
THEOREM Invariance == Spec => []IInv
<1>1. Init => IInv
  <2>1. Init => RingsExact /\ NoReplacement
    BY DEF Init, RingsExact, Pending, NoReplacement
  <2>2. Init => HeldIsOwed /\ MapsAgree /\ ReadyIsDeaf /\ OneReady
    BY DEF Init, HeldIsOwed, MapsAgree, ReadyIsDeaf, OneReady
  <2> QED
    BY TypeInit, <2>1, <2>2 DEF IInv
<1> QED
  BY <1>1, IInvStep, PTL DEF Spec

-----------------------------------------------------------------------------
(* The safety properties of the runs.                                      *)

\* Until a peer frees a ring none is leaked or freed too early, for any peers
\* and ids, on any path through set_client_status.
THEOREM RingsExactTheorem == Spec => []RingsExact
BY Invariance, PTL DEF IInv

\* The two maps have the same keys.
THEOREM MapsAgreeTheorem == Spec => []MapsAgree
BY Invariance, PTL DEF IInv

\* A registered client is registered again only after a peer has freed a ring.
THEOREM NoReplacementTheorem == Spec => []NoReplacement
BY Invariance, PTL DEF IInv

\* At most one client is ready, for any number of clients.
THEOREM OneReadyTheorem == Spec => []OneReady
BY Invariance, PTL DEF IInv

\* get_msg never overwrites a message that waits to be handled.
THEOREM NoLostMessageTheorem == Spec => NoLostMessage
<1>1. IInv /\ [Next]_vars => [new_msg # NoMsg => new_msg' \in {new_msg, NoMsg}]_vars
  <2> SUFFICES ASSUME IInv, Next, new_msg # NoMsg
               PROVE  new_msg' \in {new_msg, NoMsg}
    OBVIOUS
  <2>1. ASSUME NEW p \in Peers, get_msg(p)
        PROVE  FALSE
    BY <2>1 DEF get_msg, Readable, IInv, HeldIsOwed
  <2> QED
    BY <2>1
    DEF Next, Request, Restart, FreeRing, check_n_set_client_status, Registering, CreateRx,
        CreateTx, SendReply, InsertClient, SetReady, RemoveClient, UnknownStatus, Return
<1> QED
  BY <1>1, Invariance, PTL DEF Spec, NoLostMessage

\* The answer "1" is sent only when both rings exist, until a peer frees one.
THEOREM AnswerAfterRingsTheorem == Spec => AnswerAfterRings
<1>1. IInv /\ [Next]_vars
        => [rep = "send" /\ rep' = "recv" => freed \/ RingsOf(new_msg.id) \subseteq rings]_vars
  <2> SUFFICES ASSUME IInv, Next, rep = "send", rep' = "recv", ~freed
               PROVE  RingsOf(new_msg.id) \subseteq rings
    OBVIOUS
  <2>1. SendReply
    BY DEF Next, Request, Restart, FreeRing, get_msg, check_n_set_client_status, Registering,
           CreateRx, CreateTx, InsertClient, SetReady, RemoveClient, UnknownStatus
  <2> QED
    BY <2>1 DEF SendReply, IInv, RingsExact, Pending
<1> QED
  BY <1>1, Invariance, PTL DEF Spec, AnswerAfterRings

\* A deaf engine stays deaf and keeps its clients as they are.
THEOREM DeafForeverTheorem == Spec => DeafForever
<1>1. IInv /\ [Next]_vars
        => [Deaf => /\ UNCHANGED <<rep, new_msg, statusmap, ringmap, pc>>
                    /\ rings' \subseteq rings]_vars
  <2> SUFFICES ASSUME IInv, Next, Deaf
               PROVE  /\ UNCHANGED <<rep, new_msg, statusmap, ringmap, pc>>
                      /\ rings' \subseteq rings
    OBVIOUS
  <2>1. pc = "idle"
    BY NoMsgAssumption DEF IInv, Handling, Deaf
  <2> QED
    BY <2>1
    DEF Deaf, Next, Request, Restart, FreeRing, get_msg, Readable, check_n_set_client_status,
        Registering, CreateRx, CreateTx, SendReply, InsertClient, SetReady,
        RemoveClient, UnknownStatus
<1> QED
  BY <1>1, Invariance, PTL DEF Spec, DeafForever
=============================================================================
