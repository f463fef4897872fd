----------------------------- MODULE MCLogEvents ----------------------------
(* LogEvents for TLC: a memory that is soon reset, by one reader whose       *)
(* endpoints always answer, and by two whose endpoints may fail; such readers *)
(* with a memory that suffices; and the least that a failing endpoint needs  *)
(* to spoil the baseline.                                                    *)
EXTENDS LogEvents, TLC

Circumstances(failing, readers, window, cap) ==
    [failing |-> failing, readers |-> readers, window |-> window, cap |-> cap]

One == {CHOOSE r \in Readers : TRUE}

SoundSettings ==
    { Circumstances(FALSE, One, 2, 4),
      Circumstances(TRUE, Readers, 2, 3),
      Circumstances(TRUE, Readers, MaxEntries, 2 * MaxEntries) }

FailingEndpoint == {Circumstances(TRUE, One, 2, 6)}

Interchangeable == Permutations(Streams)
=============================================================================
