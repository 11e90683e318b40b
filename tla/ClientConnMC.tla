---------------------------- MODULE ClientConnMC ----------------------------
(***************************************************************************)
(* Instances of ClientConn for TLC.                                        *)
(***************************************************************************)
EXTENDS ClientConn, TLC

\* Frames are interchangeable, and so are connections.
Symmetry == Permutations(Frames) \cup Permutations(Clients)
=============================================================================
