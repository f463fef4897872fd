-------------------------- MODULE MCInterfaceRates --------------------------
(* InterfaceRates for TLC: a firewall that is stable under overlapping reads, *)
(* one that is not, a session that is replaced while its reads are under way, *)
(* and the simulator.                                                         *)
EXTENDS InterfaceRates

Circumstances(simulated, failing, unstable, atATime, sessions) ==
    [simulated |-> simulated, failing |-> failing, unstable |-> unstable,
     reads |-> atATime, sessions |-> sessions]

AllSettings ==
    { Circumstances(FALSE, FALSE, FALSE, 3, 1),
      Circumstances(FALSE, TRUE, TRUE, 2, 1),
      Circumstances(FALSE, TRUE, FALSE, 2, 2),
      Circumstances(TRUE, FALSE, FALSE, 0, 2) }
=============================================================================
