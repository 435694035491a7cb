--------------------------- MODULE MCGlobalDevices --------------------------
(* Two nodes and two devices of one account.                               *)
EXTENDS GlobalDevices, TLC
CONSTANTS n1, n2, a, b
MCWatched == {<<n1, a>>}
\* Sound where no pair is watched.
Symmetry == Permutations(Nodes) \cup Permutations(Devices)
=============================================================================
