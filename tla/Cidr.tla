-------------------------------- MODULE Cidr --------------------------------
(***************************************************************************)
(* Blocks of addresses: net/cidr/mod.rs and its two implementations        *)
(* v4.rs and v6.rs, which differ in the width of an address and are one    *)
(* module here.  A machine word is the set of the positions of its 1 bits, *)
(* position 0 the lowest, so that & is \cap, | is \cup and ! a complement. *)
(* A Result is a set: {x} for Ok(x), {} for Err; and an operation that may *)
(* panic returns {} for the panic.                                         *)
(*                                                                         *)
(* A behaviour takes one text (or Default::default()) to a block and, if   *)
(* it has one, runs the iterator over the block.                           *)
(***************************************************************************)
EXTENDS Naturals, Sequences, FiniteSets, FiniteSetsExt

CONSTANTS
  Families,    \* the implementations
  Bits,        \* IPV4ADDR_BITS and IPV6ADDR_BITS, by family
  UsizeBits    \* the width of usize: 64, between the two

ASSUME CidrAssumption == /\ Bits \in [Families -> Nat \ {0}]
                         /\ UsizeBits \in Nat \ {0}

VARIABLES
  family,      \* the implementation in use
  checked,     \* whether the build checks for overflow
  text,        \* what is parsed
  cidr,        \* the Ipv4Cidr or Ipv6Cidr
  iterator,    \* the CidrIterator: next (a set, {} for None) and end
  yielded,     \* the addresses the iterator has returned, as numbers
  pc

vars == <<family, checked, text, cidr, iterator, yielded, pc>>

Positions(f) == 0 .. Bits[f] - 1

Word(f) == SUBSET Positions(f)

Pow2[n \in Nat] == IF n = 0 THEN 1 ELSE 2 * Pow2[n - 1]

\* A word as a number, u32::from and u128::from.
Value(f, w) ==
  LET sum[i \in Nat] ==
        IF i = 0 THEN 0 ELSE sum[i - 1] + (IF i - 1 \in w THEN Pow2[i - 1] ELSE 0)
  IN sum[Bits[f]]

Not(f, w) == Positions(f) \ w

\* uN::max_value() << k
OnesAbove(f, k) == {i \in Positions(f) : i >= k}

leading_zeros(f, w) == IF w = {} THEN Bits[f] ELSE Bits[f] - 1 - Max(w)

trailing_zeros(f, w) == IF w = {} THEN Bits[f] ELSE Min(w)

count_zeros(f, w) == Bits[f] - Cardinality(w)

(***************************************************************************)
(* The block.                                                              *)
(***************************************************************************)
\* Length 0 gets the mask of the full length.
new(f, address, length) ==
  IF length = 0 THEN {[address |-> address, mask |-> Positions(f)]}
  ELSE IF length \in 1 .. Bits[f]
  THEN {[address |-> address, mask |-> OnesAbove(f, Bits[f] - length)]} ELSE {}

\* Mutant: holes in the mask are not noticed.
netmask_lengthHoles(f, netmask) ==
  IF leading_zeros(f, netmask) = 0
  THEN {leading_zeros(f, Not(f, netmask))} ELSE {}

netmask_length(f, netmask) ==
  IF /\ leading_zeros(f, netmask) = 0
     /\ trailing_zeros(f, netmask) = count_zeros(f, netmask)
  THEN {leading_zeros(f, Not(f, netmask))} ELSE {}

with_netmask(f, address, netmask) ==
  UNION {new(f, address, length) : length \in netmask_length(f, netmask)}

default == [address |-> {}, mask |-> {}]

\* Mutant: counts the zeros of the mask itself.
lengthUninverted(f, c) == leading_zeros(f, c.mask)

length(f, c) == leading_zeros(f, Not(f, c.mask))

network(c) == c.mask \cap c.address

broadcast(f, c) == (c.mask \cap c.address) \cup Not(f, c.mask)

hostmask(f, c) == Not(f, c.mask)

contains(c, address) == (c.mask \cap c.address) = (c.mask \cap address)

\* 2usize.pow(n): past the width of usize it panics or wraps to 0.
size(f, c) ==
  LET n == Bits[f] - length(f, c)
  IN IF n < UsizeBits THEN {Pow2[n]} ELSE IF checked THEN {} ELSE {0}

(***************************************************************************)
(* Texts: an address, a slash and either a length or a netmask; all the    *)
(* texts that have no such form behave alike.                              *)
(***************************************************************************)
Text(f) ==
  [form : {"length"}, address : Word(f), length : 0 .. Bits[f] + 1]
    \cup [form : {"netmask"}, address : Word(f), netmask : Word(f)]
    \cup [form : {"malformed"}]

ParseText(f, t) ==
  CASE t.form = "length"    -> new(f, t.address, t.length)
    [] t.form = "netmask"   -> with_netmask(f, t.address, t.netmask)
    [] t.form = "malformed" -> {}

\* Display
fmt(f, c) == [form |-> "length", address |-> c.address, length |-> length(f, c)]

(***************************************************************************)
(* The iterator, on numbers of the width of an address.                    *)
(***************************************************************************)
\* Mutant: numbers wider than an address.
AddWide(f, a, b) == {a + b}

Add(f, a, b) ==
  IF a + b < Pow2[Bits[f]] THEN {a + b}
  ELSE IF checked THEN {} ELSE {(a + b) % Pow2[Bits[f]]}

Decrement(f, a) ==
  IF a > 0 THEN {a - 1} ELSE IF checked THEN {} ELSE {Pow2[Bits[f]] - 1}

\* Mutant: the end is one past the last address.
LastAddressPast(f, start, n) == Add(f, start, n % Pow2[Bits[f]])

\* start + (end as uN - 1), where end is the size of the block
LastAddress(f, start, n) ==
  UNION {Add(f, start, d) : d \in Decrement(f, n % Pow2[Bits[f]])}

(***************************************************************************)
(* Actions.                                                                *)
(***************************************************************************)
NoText == [form |-> "none"]

NoIterator == [next |-> {}, end |-> 0]

Init ==
  /\ family \in Families
  /\ checked \in BOOLEAN
  /\ text = NoText
  /\ cidr = default
  /\ iterator = NoIterator
  /\ yielded = <<>>
  /\ pc = "start"

from_str ==
  /\ pc = "start"
  /\ text' \in Text(family)
  /\ LET result == ParseText(family, text')
     IN \/ result = {} /\ pc' = "error" /\ UNCHANGED cidr
        \/ cidr' \in result /\ pc' = "block"
  /\ UNCHANGED <<family, checked, iterator, yielded>>

Default ==
  /\ pc = "start"
  /\ cidr' = default
  /\ pc' = "block"
  /\ UNCHANGED <<family, checked, text, iterator, yielded>>

iter ==
  /\ pc = "block"
  /\ LET start == Value(family, network(cidr))
         ends  == UNION {LastAddress(family, start, n) : n \in size(family, cidr)}
     IN \/ ends = {} /\ pc' = "panicked" /\ UNCHANGED iterator
        \/ /\ \E e \in ends : iterator' = [next |-> {start}, end |-> e]
           /\ pc' = "iterating"
  /\ UNCHANGED <<family, checked, text, cidr, yielded>>

\* Before the last address next + 1 never panics: see IterExact.
next ==
  /\ pc = "iterating"
  /\ \E n \in iterator.next :
       /\ iterator' = [iterator EXCEPT !.next =
                         IF n = iterator.end THEN {} ELSE Add(family, n, 1)]
       /\ yielded' = Append(yielded, n)
  /\ UNCHANGED <<family, checked, text, cidr, pc>>

Next == from_str \/ Default \/ iter \/ next

Spec == Init /\ [][Next]_vars

(***************************************************************************)
(* Properties.                                                             *)
(***************************************************************************)
\* The variables have their types; the mask is never anything but ones
\* above zeros.
TypeOK ==
  /\ family \in Families
  /\ checked \in BOOLEAN
  /\ text = NoText \/ text \in Text(family)
  /\ cidr.address \in Word(family)
  /\ cidr.mask \in {OnesAbove(family, k) : k \in 0 .. Bits[family]}
  /\ iterator.next \in SUBSET (0 .. Pow2[Bits[family]] - 1)
  /\ Cardinality(iterator.next) <= 1
  /\ iterator.end \in 0 .. Pow2[Bits[family]] - 1
  /\ yielded \in Seq(0 .. Pow2[Bits[family]] - 1)
  /\ pc \in {"start", "error", "block", "iterating", "panicked"}

\* The prefix length a text asks for, by arithmetic: a netmask is that of
\* length l if its number is 2^Bits - 2^(Bits - l).
AskedLengths ==
  CASE text.form = "length"    -> {text.length} \cap (0 .. Bits[family])
    [] text.form = "netmask"   ->
         {l \in 1 .. Bits[family] :
            Value(family, text.netmask) = Pow2[Bits[family]] - Pow2[Bits[family] - l]}
    [] text.form = "malformed" -> {}

\* The number of host bits of the block that was made: all of them for
\* Default, none for length 0, which is read as the full length.
HostBits ==
  IF text = NoText THEN Bits[family]
  ELSE LET l == CHOOSE l \in AskedLengths : TRUE
       IN IF l = 0 THEN 0 ELSE Bits[family] - l

\* The block by division: the numbers with the same upper bits.
Block ==
  LET side  == Pow2[HostBits]
      upper == Value(family, cidr.address) \div side
  IN {x \in 0 .. Pow2[Bits[family]] - 1 : x \div side = upper}

\* A text is refused exactly if it asks for no length; what it is otherwise
\* made into is the block of the numbers that agree with the address in the
\* upper bits: contains, network, broadcast, hostmask, length and, if it fits
\* a usize, size all speak of that one block.  (new, with_netmask and the
\* trait of both families.)
BlockIsPrefix ==
  /\ pc = "error" => AskedLengths = {}
  /\ pc = "block" =>
       LET block == Block
       IN /\ text # NoText => Cardinality(AskedLengths) = 1
          /\ \A a \in Word(family) : contains(cidr, a) <=> Value(family, a) \in block
          /\ Value(family, network(cidr)) = Min(block)
          /\ Value(family, broadcast(family, cidr)) = Max(block)
          /\ Value(family, hostmask(family, cidr)) = Max(block) - Min(block)
          /\ length(family, cidr) = Bits[family] - HostBits
          /\ HostBits < UsizeBits => size(family, cidr) = {Cardinality(block)}

\* What Display prints is parsed back to the same block, with one exception:
\* Default holds every address and prints as length 0, which is parsed to a
\* block of one address.
TextRoundTrip ==
  pc = "block" =>
    ParseText(family, fmt(family, cidr)) =
      IF text = NoText THEN {[cidr EXCEPT !.mask = Positions(family)]} ELSE {cidr}

\* The iterator returns the addresses of the block in order, each once, and
\* ends, while the size of the block fits a usize.  Beyond that a build with
\* overflow checks panics before the first address and one without goes
\* through every address there is, around the end of the address space.  A
\* build with checks panics for the block of all addresses too.
IterExact ==
  pc \in {"iterating", "panicked"} =>
    LET bits  == Bits[family]
        host  == HostBits
        count == IF host < UsizeBits THEN Pow2[host] ELSE Pow2[bits]
        first == (Value(family, cidr.address) \div Pow2[host]) * Pow2[host]
    IN /\ pc = "panicked" <=> checked /\ (host >= UsizeBits \/ host = bits)
       /\ yielded = [i \in 1 .. Len(yielded) |-> (first + i - 1) % Pow2[bits]]
       /\ pc = "panicked" => yielded = <<>>
       /\ Len(yielded) <= count
       /\ pc = "iterating" => (iterator.next = {} <=> Len(yielded) = count)
=============================================================================
