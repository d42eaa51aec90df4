-------------------------- MODULE MCSendPipeline --------------------------
(* Instances of SendPipeline for TLC. *)
EXTENDS SendPipeline, TLC

CONSTANTS s1, s2
===========================================================================
