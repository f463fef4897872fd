-------------------------- MODULE MCRuntimeService --------------------------
(* RuntimeService for TLC: requests and configurations are interchangeable. *)
EXTENDS RuntimeService, TLC

Interchangeable == Permutations(Requests) \cup Permutations(Configs)
=============================================================================
