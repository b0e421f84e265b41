---------------------------- MODULE MCPortSetup ----------------------------
EXTENDS PortSetup

\* The master core shared with a port or not; a core whose digits are part
\* of another, before and after it; one core for two ports; too many cores,
\* and as many as a u16 has values, or one more.
MCConfigs ==
  {[master_core |-> m, cores |-> <<1>>, ports |-> ps] :
     m \in {0, 2},
     ps \in {<< <<2, 12>>, <<2, 0>> >>, << <<12, 2, 12>>, <<0>> >>,
             << <<1, 2, 10>>, <<>> >>,
             << <<5, 4, 3, 2, 1, 0>>, <<0, 1, 2, 3, 4, 5, 6>> >>}}

MCPoolSocket == [p \in Pools |-> IF p \in {"a", "b"} THEN 0 ELSE 1]

MCCoreSocket(c) == IF c < 10 THEN 0 ELSE 1

\* 7 is the socket of no core: a virtual device.
MCDeviceSockets == {1, 7}

MCDescLimits == [min |-> 2, max |-> 5]
=============================================================================
