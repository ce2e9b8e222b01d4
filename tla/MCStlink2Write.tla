--------------------------- MODULE MCStlink2Write ---------------------------
(***************************************************************************)
(* Instances of Stlink2Write for TLC: a few units of one or two bytes that *)
(* are empty or not.                                                       *)
(***************************************************************************)
EXTENDS Stlink2Write

MCByte == {0, 1}

\* A part that programs at once, in time, or at the last look of the driver.
PromptTimes == {1, 2, 5}
\* A part that also ends when the driver has given up: while it goes on or relocks.
SlowTimes == {1, 5, 7}
=============================================================================
