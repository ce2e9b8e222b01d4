--------------------------- MODULE MCStlink1Write ---------------------------
(***************************************************************************)
(* An instance of Stlink1Write for TLC: two units of two bytes that are    *)
(* empty or not, on addresses that are enough for them or wrap around.     *)
(***************************************************************************)
EXTENDS Stlink1Write

MCByte == {0, 1}

\* A part that programs before the first look at the status, or after it.
MCProgTime == {1, 3}

\* An area that is full, and one whose first unit is empty.
MCOlds == {[b \in Blocks |-> [o \in Offsets |-> 1]], [b \in Blocks |-> [o \in Offsets |-> b]]}
=============================================================================
