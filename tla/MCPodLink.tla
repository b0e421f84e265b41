----------------------------- MODULE MCPodLink -----------------------------
EXTENDS PodLink, TLC

\* Addresses are interchangeable, and so are the pods.
MCSymmetry == Permutations(Pods) \cup Permutations(Addresses)
=============================================================================
