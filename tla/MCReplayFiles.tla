--------------------------- MODULE MCReplayFiles ---------------------------
(***************************************************************************)
(* Bounds for TLC.  Limit is 100, so that a padded time has two digits.    *)
(***************************************************************************)
EXTENDS ReplayFiles

N(head, time, tail) == [head |-> head, time |-> time, tail |-> tail]

\* Two pro runs, two equal nub runs, a run that is not submitted and a run
\* whose first character a plugin chose.
TidyNames == {N(48, 7, 1), N(48, 35, 1), N(49, 6, 1), N(49, 6, 2), N(120, 5, 1),
              N(99, 5, 1)}

\* A run of three digits among runs of two.
LongNames == {N(48, 15, 1), N(48, 20, 1), N(48, 150, 1), N(49, 10, 1)}

\* A run for which a plugin chose the character '2'.
DigitNames == {N(48, 7, 1), N(49, 6, 1), N(50, 5, 1)}
=============================================================================
