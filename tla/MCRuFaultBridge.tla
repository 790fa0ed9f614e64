-------------------------- MODULE MCRuFaultBridge --------------------------
(* Sources are interchangeable. *)
EXTENDS RuFaultBridge, TLC
Symmetry == Permutations(Source)
=============================================================================
