----------------------------- MODULE ByteBuffer -----------------------------
(***************************************************************************)
(* What the data operations of an Mbuf promise: the packet is a string of  *)
(* bytes in which bytes are inserted, removed, cut off or overwritten, and *)
(* every other byte keeps its value and its place among the others.        *)
(***************************************************************************)
EXTENDS Integers, Sequences

CONSTANTS Bytes, Room

VARIABLE data

\* The first n bytes, and those after the first n.
Front(n) == SubSeq(data, 1, n)
Rest(n) == SubSeq(data, n + 1, Len(data))

Init == data \in UNION {[1..n -> Bytes] : n \in 0..Room}

\* A buffer is taken from its pool again.
Reset == data' = <<>>

\* `gap` stands for what the new bytes are before they are written.
Insert(offset, gap) ==
  /\ offset <= Len(data)
  /\ data' = Front(offset) \o gap \o Rest(offset)
  /\ Len(data') <= Room

Remove(offset, len) ==
  /\ offset + len <= Len(data)
  /\ data' = Front(offset) \o Rest(offset + len)

Overwrite(offset, bytes) ==
  /\ offset + Len(bytes) <= Len(data)
  /\ data' = Front(offset) \o bytes \o Rest(offset + Len(bytes))

Next ==
  \/ Reset
  \/ \E offset \in 0..Room, len \in 1..Room :
       \/ \E bytes \in [1..len -> Bytes] : Insert(offset, bytes) \/ Overwrite(offset, bytes)
       \/ Remove(offset, len)

Spec == Init /\ [][Next]_data
=============================================================================
