------------------------------- MODULE MCCidr -------------------------------
EXTENDS Cidr

\* Narrow addresses in the order of the real widths: 32 < 64 < 128.
MCFamilies == {"v4", "v6"}

MCBits == [v4 |-> 3, v6 |-> 6]
=============================================================================
