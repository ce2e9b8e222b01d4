--------------------------- MODULE MCCommandLine ---------------------------
(***************************************************************************)
(* An instance of CommandLine for TLC: four small areas with a hole        *)
(* between them, addresses at their first, last and next byte, and files   *)
(* shorter and longer than an area, with and without a gap. There are more *)
(* option bytes than bytes in EEPROM, as on parts without EEPROM.          *)
(***************************************************************************)
EXTENDS CommandLine, TLC

MCStart == [a \in Areas |-> CASE a = "RAM" -> 0 [] a = "EEPROM" -> 3 [] a = "OPT" -> 6 [] a = "FLASH" -> 10]
MCSize  == [a \in Areas |-> IF a \in {"FLASH", "OPT"} THEN 3 ELSE 2]

Raw(data) == [raw |-> TRUE, data |-> data]
Hex(data) == [raw |-> FALSE, data |-> data]
MCFiles == { Raw(<<>>), Raw(0 :> 1), Raw([k \in 0 .. 3 |-> 1]),
             Hex(<<>>), Hex([a \in 10 .. 11 |-> 1]), Hex(10 :> 1 @@ 12 :> 1) }

MCAddresses == {0, 2, 4, 7, 9, 10, 13}
MCCounts    == {-1, 0, 1, 2, 5}
=============================================================================
