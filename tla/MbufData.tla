------------------------------ MODULE MbufData ------------------------------
(***************************************************************************)
(* The memory of one message buffer and the operations of dpdk/mbuf.rs     *)
(* that move the packet's bytes about in it: headroom, then data_len bytes *)
(* of packet, then tailroom.  The operations copy memory through raw       *)
(* pointers, so only their own checks keep them inside the buffer.         *)
(*                                                                         *)
(* Sums do not wrap: the arguments are those for which the checked build   *)
(* does not panic.  A call that fails changes nothing.                     *)
(***************************************************************************)
EXTENDS Integers, Sequences

CONSTANTS
  BufLen,     \* rte_mbuf::buf_len
  DataOff,    \* rte_mbuf::data_off, the headroom
  Bytes,      \* the values of a byte
  MaxArg      \* bound: offsets and lengths callers ask for

ASSUME DataAssumption ==
  /\ BufLen \in 1..65535
  /\ DataOff \in 0..BufLen
  /\ MaxArg \in Nat

VARIABLES mem, data_len, pkt_len

vars == <<mem, data_len, pkt_len>>

-----------------------------------------------------------------------------

Addresses == 0..(BufLen - 1)
Args == 0..MaxArg

TypeOK ==
  /\ mem \in [Addresses -> Bytes]
  /\ data_len \in 0..BufLen
  /\ pkt_len \in 0..BufLen

\* The driver fills a buffer with a packet of one segment.
Init ==
  /\ mem \in [Addresses -> Bytes]
  /\ data_len \in 0..(BufLen - DataOff)
  /\ pkt_len = data_len

\* data_address(offset), as an index of the buffer.
data_address(offset) == DataOff + offset

\* Mutant: the headroom is counted as free.
tailroomWhole == BufLen - data_len

tailroom == BufLen - DataOff - data_len

\* The memory after ptr::copy(src, dst, n): like memmove, the source is read
\* as it was.
Copied(src, dst, n) ==
  [i \in Addresses |-> IF i \in dst..(dst + n - 1) THEN mem[src + (i - dst)] ELSE mem[i]]

-----------------------------------------------------------------------------

\* Mbuf::new: rte_pktmbuf_alloc resets the lengths and leaves the bytes.
new ==
  /\ data_len' = 0
  /\ pkt_len' = 0
  /\ UNCHANGED mem

\* Mutant: everything after the offset's start is moved, not only the rest.
extendWhole(offset, len) ==
  /\ len > 0
  /\ offset <= data_len
  /\ len < tailroom
  /\ mem' = Copied(data_address(offset), data_address(offset + len), data_len)
  /\ data_len' = data_len + len
  /\ pkt_len' = pkt_len + len

extend(offset, len) ==
  /\ len > 0
  /\ offset <= data_len
  /\ len < tailroom
  /\ mem' = Copied(data_address(offset), data_address(offset + len), data_len - offset)
  /\ data_len' = data_len + len
  /\ pkt_len' = pkt_len + len

\* Mutant: one byte too few is moved up.
shrinkShort(offset, len) ==
  /\ len > 0
  /\ offset + len <= data_len
  /\ mem' = Copied(data_address(offset + len), data_address(offset),
                   data_len - offset - len - 1)
  /\ data_len' = data_len - len
  /\ pkt_len' = pkt_len - len

shrink(offset, len) ==
  /\ len > 0
  /\ offset + len <= data_len
  /\ mem' = Copied(data_address(offset + len), data_address(offset),
                   data_len - offset - len)
  /\ data_len' = data_len - len
  /\ pkt_len' = pkt_len - len

\* Mutant: any length is accepted.
truncateAny(to_len) ==
  /\ data_len' = to_len
  /\ pkt_len' = to_len
  /\ UNCHANGED mem

truncate(to_len) ==
  /\ to_len < data_len
  /\ data_len' = to_len
  /\ pkt_len' = to_len
  /\ UNCHANGED mem

\* write_data and write_data_slice, of `count` bytes.
write_data_slice(offset, count, slice) ==
  /\ offset + count <= data_len
  /\ mem' = [i \in Addresses |->
               IF i \in data_address(offset)..(data_address(offset) + count - 1)
               THEN slice[i - data_address(offset) + 1]
               ELSE mem[i]]
  /\ UNCHANGED <<data_len, pkt_len>>

\* The range that read_data and read_data_slice hand out a pointer to.
CanRead(offset, size) == offset < data_len /\ offset + size <= data_len

\* resize(offset, len) is extend or shrink by the sign of len.
Next ==
  \/ new
  \/ \E offset \in Args, len \in Args : extend(offset, len) \/ shrink(offset, len)
  \/ \E to_len \in Args : truncate(to_len)
  \/ \E offset \in Args, count \in Args : \E slice \in [1..count -> Bytes] :
       write_data_slice(offset, count, slice)

Spec == Init /\ [][Next]_vars

-----------------------------------------------------------------------------
(* Properties.                                                             *)

\* After any sequence of calls the packet lies inside the buffer and the two
\* lengths of the only segment agree, so every pointer that read_data hands
\* out points into the buffer.
FitsBuffer ==
  /\ DataOff + data_len <= BufLen
  /\ pkt_len = data_len
  /\ \A offset, size \in Args : CanRead(offset, size) => data_address(offset) + size <= BufLen

\* The addresses of n bytes of packet.
DataArea(n) == DataOff..(DataOff + n - 1)

\* No call writes into the headroom or behind the packet, whether it grows or
\* shrinks: the copies stay between the old and the new end of the data.
OutsideIntact ==
  [][\A i \in Addresses \ (DataArea(data_len) \cup DataArea(data_len')) :
       mem'[i] = mem[i]]_vars

\* The packet as a string of bytes.
Data == [i \in 1..data_len |-> mem[DataOff + i - 1]]

Abstract == INSTANCE ByteBuffer WITH data <- Data, Room <- BufLen - DataOff

\* The copies of extend and shrink, whose source and destination overlap, lose,
\* repeat and reorder no byte of the packet: the operations are those of
\* ByteBuffer.
IsByteBuffer == Abstract!Spec
=============================================================================
