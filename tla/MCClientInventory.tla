-------------------------- MODULE MCClientInventory --------------------------
(* ClientInventory for TLC: a host of any kind beside one that is the same     *)
(* client under the same name wherever it is observed, a name that the other   *)
(* may have, too.  A lease that has a hostname needs no description.           *)
EXTENDS ClientInventory, TLC

CONSTANTS h1, h2, t1

AnyKind == {k \in Kinds : k.hostname = None \/ k.descr = None}
Steady == [leaseMac |-> TRUE, arpMac |-> TRUE, hostname |-> t1, descr |-> None, arpName |-> t1]

Pairs == {(h1 :> k) @@ (h2 :> Steady) : k \in AnyKind}
=============================================================================
