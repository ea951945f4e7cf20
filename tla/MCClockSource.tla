---------------------------- MODULE MCClockSource ----------------------------
(***************************************************************************)
(* Small instances of ClockSource: a day of five ticks, of which the one   *)
(* from 3 to 4 is that of the weekly lookup.                               *)
(***************************************************************************)
EXTENDS ClockSource

\* A zone west of UTC and one that is a day and two ticks east of it.
MCOffsets == {-1, 7}

MCSteps == {-4, 4}

MCOneOffset == {-1}

MCNoSteps == {}

=============================================================================
