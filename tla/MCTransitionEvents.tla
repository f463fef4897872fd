------------------------- MODULE MCTransitionEvents -------------------------
(* TransitionEvents for TLC: two items and one reader or two of a firewall   *)
(* whose endpoint always answers or may fail.                                *)
EXTENDS TransitionEvents, TLC

TwoItems == {1, 2}
Apart == [i \in TwoItems |-> i]
ComeAndGo == {"up", "down", "absent"}

Circumstances(clients, failing, readers, statuses, name) ==
    [clients |-> clients, failing |-> failing, readers |-> readers, refreshes |-> {},
     replaced |-> FALSE, statuses |-> statuses, name |-> name]

One == {CHOOSE r \in Readers : TRUE}

\* The session is replaced, with the poller alone or with a refresh beside it.
Replacements ==
    { [Circumstances(FALSE, FALSE, One, {"up", "down"}, Apart) EXCEPT !.replaced = TRUE],
      [Circumstances(TRUE, FALSE, Readers, {"up", "down"}, Apart) EXCEPT
          !.replaced = TRUE, !.refreshes = Readers \ One] }

SoundSettings ==
    { Circumstances(FALSE, FALSE, Readers, {"up", "down"}, Apart),
      Circumstances(FALSE, TRUE, One, ComeAndGo, Apart),
      Circumstances(TRUE, FALSE, One, ComeAndGo, Apart),
      Circumstances(TRUE, TRUE, Readers, {"up", "absent"}, Apart) }
    \cup Replacements

FailingEndpoint == {Circumstances(FALSE, TRUE, One, {"up", "down"}, Apart)}
=============================================================================
