--------------------------- MODULE MCNavKeyDisplay ---------------------------
(***************************************************************************)
(* Small instances of NavKeyDisplay: the four displays of the sketch, the  *)
(* first two levels of its brightness table, one or two colors.            *)
(***************************************************************************)
EXTENDS NavKeyDisplay

\* Word Drop and Wipe Around.
MCBlending == {0, 2}

MCLevel2 == [b \in 0 .. 1 |-> <<2, 3>>[b + 1]]

=============================================================================
