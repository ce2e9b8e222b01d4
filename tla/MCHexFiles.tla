----------------------------- MODULE MCHexFiles -----------------------------
(***************************************************************************)
(* Instances of HexFiles for TLC: pages of six addresses, records of up to *)
(* four bytes, so that images cross two page boundaries off the rhythm of  *)
(* the records.                                                            *)
(***************************************************************************)
EXTENDS HexFiles

MCByte == {0, 255}
=============================================================================
