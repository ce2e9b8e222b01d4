--------------------------- MODULE MCSwimSession ----------------------------
(***************************************************************************)
(* An instance of SwimSession for TLC: serial numbers of the same length   *)
(* that differ in one character, and one that is shorter.                  *)
(***************************************************************************)
EXTENDS SwimSession

MCSerials  == {<<"A", "A">>, <<"A", "B">>}
MCUnequals == {<<"A">>, <<"A", "B">>, <<"B", "B">>}
=============================================================================
