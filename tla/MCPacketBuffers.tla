-------------------------- MODULE MCPacketBuffers --------------------------
(***************************************************************************)
(* Instances of PacketBuffers for TLC: two threads on two sockets.         *)
(***************************************************************************)
EXTENDS PacketBuffers, TLC

CONSTANTS t1, t2, m1, m2, m3, m4, poolA, poolB, ring

TwoThreads == {t1, t2}
FourMbufs == {m1, m2, m3, m4}
TwoPools == {poolA, poolB}
OneRing == {ring}
HomeOf == m1 :> poolA @@ m2 :> poolA @@ m3 :> poolB @@ m4 :> poolB
LocalOf == t1 :> poolA @@ t2 :> poolB
=============================================================================
