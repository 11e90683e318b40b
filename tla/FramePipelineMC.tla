-------------------------- MODULE FramePipelineMC --------------------------
(***************************************************************************)
(* Instances of FramePipeline for TLC.                                     *)
(***************************************************************************)
EXTENDS FramePipeline, TLC

\* Frames are interchangeable, and so are clients: the specification takes any
\* of those a walk may reach next.
Symmetry == Permutations(Frames) \cup Permutations(Clients)
=============================================================================
