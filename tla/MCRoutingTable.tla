--------------------------- MODULE MCRoutingTable ---------------------------
(***************************************************************************)
(* Instances of RoutingTable for TLC.                                      *)
(***************************************************************************)
EXTENDS RoutingTable

CONSTANTS t1, t2, t3, mac1, mac2, ip1

ThreeThreads == {t1, t2, t3}
TwoMacs == {mac1, mac2}
OneIp == {ip1}
=============================================================================
