------------------------------ MODULE MCSockets ------------------------------
(* Instances of Sockets for TLC.                                           *)
EXTENDS Sockets

\* Two peers that differ by the byte order of their ports.
MCNames ==
  {[addr |-> <<127, 0, 0, 1>>, port |-> p] : p \in {<<1, 2>>, <<2, 1>>}}

MCBindOptions == {{}, {"reuse_addr"}}

Symmetry == Permutations(Objects) \cup Permutations(FDs)
==============================================================================
