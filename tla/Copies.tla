------------------------------- MODULE Copies -------------------------------
(***************************************************************************)
(* What both stores of the tracker are made of: copies of the settings in  *)
(* a medium that a loss of power leaves half written.  A copy stands for   *)
(* its contents when its magic number and its checksum agree, and is Torn  *)
(* otherwise; a copy that is missing reads like a torn one.                *)
(***************************************************************************)
EXTENDS Naturals, FiniteSets, Sequences

CONSTANTS
    Modes,      \* the working modes a user may choose, with their parameters
    Factory,    \* the mode of a device that was never configured
    Torn

ASSUME CopiesAssumption == Factory \in Modes /\ Torn \notin Modes

Good(copy) == copy # Torn

\* What a stop leaves of a copy: all of it, unless it was just being written.
Left(copy, written) == IF written THEN {copy, Torn} ELSE {copy}
=============================================================================
