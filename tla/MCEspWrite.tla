----------------------------- MODULE MCEspWrite -----------------------------
(***************************************************************************)
(* Instances of EspWrite for TLC: units of one byte that are empty or not, *)
(* a part that programs at once or at the last look of the driver.         *)
(***************************************************************************)
EXTENDS EspWrite

MCByte == {0, 1}
PromptTimes == {1, 5}
=============================================================================
