------------------------------ MODULE MCCommands -----------------------------
(* Commands, and with it all of RuntimeService, for TLC: requests and        *)
(* configurations are interchangeable.                                       *)
EXTENDS Commands, TLC

Interchangeable == Permutations(Requests) \cup Permutations(Configs)
=============================================================================
