----------------------------- MODULE MCPipeline -----------------------------
(***************************************************************************)
(* Instances of Pipeline for TLC: channels of one message, so that every   *)
(* send can block.                                                         *)
(***************************************************************************)
EXTENDS Pipeline
MCCapacity == [s \in 1..Last + 1 |-> 1]
=============================================================================
