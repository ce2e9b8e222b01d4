----------------------------- MODULE BlockWriter -----------------------------
(***************************************************************************)
(* What writing a memory area of a part promises, without probe, buffers,  *)
(* locks or status registers. Each request fixes the contents wanted; the  *)
(* area is then rewritten unit by unit, one at a time and in order; the    *)
(* answer "ok" is given only for an area that holds them. A request may    *)
(* die at any time. It leaves a prefix of the area rewritten, and at most  *)
(* one unit in the air, which ends as wanted unless the next request       *)
(* resets the part under it.                                               *)
(***************************************************************************)
EXTENDS Integers

CONSTANTS NUnits, Values

Cells == 0 .. NUnits - 1
Nobody == NUnits   \* no unit is in the air

VARIABLES
  area,    \* the contents of the units
  wanted,  \* what the request in progress, or the last one, asks for
  next,    \* units before this one are done
  flying,  \* the unit under programming, or Nobody
  phase    \* "asked": not opened yet; "writing"; "ok" and "failed" end a request

bwVars == <<area, wanted, next, flying, phase>>

Init ==
  /\ area \in [Cells -> Values] /\ wanted = area
  /\ next = 0 /\ flying = Nobody /\ phase = "ok"

Ask ==
  /\ phase \in {"ok", "failed"}
  /\ phase' = "asked" /\ UNCHANGED <<area, wanted, next, flying>>

\* The part is reset: only a unit in the air suffers.
Begin ==
  /\ phase = "asked"
  /\ IF flying = Nobody THEN UNCHANGED area
                        ELSE \E v \in Values : area' = [area EXCEPT ![flying] = v]
  /\ wanted' \in [Cells -> Values]
  /\ next' = 0 /\ flying' = Nobody /\ phase' = "writing"

\* A unit needs no writing.
Skip ==
  /\ phase = "writing" /\ flying = Nobody
  /\ next < NUnits /\ area[next] = wanted[next]
  /\ next' = next + 1 /\ UNCHANGED <<area, wanted, flying, phase>>

Start ==
  /\ phase = "writing" /\ flying = Nobody /\ next < NUnits
  /\ flying' = next /\ UNCHANGED <<area, wanted, next, phase>>

\* The unit in the air lands, also when the request that started it has died.
Land ==
  /\ flying # Nobody /\ phase \in {"writing", "failed"}
  /\ area' = [area EXCEPT ![flying] = wanted[flying]]
  /\ flying' = Nobody /\ UNCHANGED <<wanted, next, phase>>

\* Memory that takes a unit at once.
Store ==
  /\ phase = "writing" /\ flying = Nobody /\ next < NUnits
  /\ area' = [area EXCEPT ![next] = wanted[next]]
  /\ next' = next + 1 /\ UNCHANGED <<wanted, flying, phase>>

Answer ==
  /\ phase = "writing" /\ flying = Nobody /\ area = wanted
  /\ phase' = "ok" /\ UNCHANGED <<area, wanted, next, flying>>

Die ==
  /\ phase \in {"asked", "writing"}
  /\ phase' = "failed" /\ UNCHANGED <<area, wanted, next, flying>>

Next == Ask \/ Begin \/ Skip \/ Start \/ Land \/ Store \/ Answer \/ Die

Spec == Init /\ [][Next]_bwVars
=============================================================================
