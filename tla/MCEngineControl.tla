-------------------------- MODULE MCEngineControl --------------------------
(***************************************************************************)
(* Instances of EngineControl for TLC.                                     *)
(***************************************************************************)
EXTENDS EngineControl

CONSTANTS p1, p2

TwoPeers == {p1, p2}

\* Two clients, and an id that `as u16` turns into the first of them.
AliasingIds == {0, 1, 65536}
TwoIds == {0, 1}

AllFaults == {"alloc", "send", "crash", "free"}
=============================================================================
