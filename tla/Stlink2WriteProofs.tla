------------------------- MODULE Stlink2WriteProofs -------------------------
(***************************************************************************)
(* Theorems about Stlink2Write, for every value of its constants. The      *)
(* inductive invariant is TInv /\ (gaveUp \/ SInv): TInv are the types and *)
(* the range of the loop index, SInv says what the driver knows at each of *)
(* its control points of the part, until a wait runs out. Timely says that *)
(* none does on a part that programs within the five looks (PromptPart):   *)
(* only Implements assumes such a part. Opened and Untouched hold however  *)
(* long the part takes.                                                    *)
(***************************************************************************)
EXTENDS Stlink2Write, Stm8TargetProofs

\* The rounded size of the image is a number of whole units of the area.
LEMMA UnitsType ==
  ASSUME len \in 0 .. Capacity
  PROVE  Units \in 0 .. NBlocks
<1>1. CASE len = 0
  BY <1>1, TargetAssumption DEF Units
<1>2. CASE len > 0
  <2> DEFINE q == (len - 1) \div BlockSize
  <2>0. NBlocks \in Nat /\ BlockSize \in Nat /\ BlockSize > 0 /\ NBlocks * BlockSize \in Nat
    BY TargetAssumption
  <2>1. q \in Nat /\ q * BlockSize <= len - 1
    BY <1>2, <2>0 DEF Capacity
  <2>2. q < NBlocks
    <3> SUFFICES ASSUME q >= NBlocks PROVE FALSE
      BY <2>0, <2>1
    <3>1. q * BlockSize >= NBlocks * BlockSize
      BY <2>0, <2>1
    <3> QED BY <2>0, <2>1, <3>1 DEF Capacity
  <2> QED BY <1>2, <2>0, <2>1, <2>2 DEF Units, Capacity
<1> QED BY <1>1, <1>2

\* A byte of the image lies in one of the units the driver writes.
LEMMA ImageUnits ==
  ASSUME len \in 0 .. Capacity, NEW b \in Blocks, NEW o \in Offsets, InFile(b, o)
  PROVE  b < Units
<1> DEFINE q == (len - 1) \div BlockSize
<1>0. /\ NBlocks \in Nat /\ BlockSize \in Nat /\ BlockSize > 0
      /\ b \in Nat /\ o \in Nat /\ len \in Nat /\ len > 0
  BY TargetAssumption DEF Blocks, Offsets, InFile, Capacity
<1>1. q \in Nat /\ len - 1 < (q + 1) * BlockSize
  BY <1>0
<1>2. b * BlockSize < (q + 1) * BlockSize
  BY <1>0, <1>1 DEF InFile
<1>3. b < q + 1
  BY <1>0, <1>1, <1>2
<1> QED BY <1>0, <1>3 DEF Units

\* Where units are bytes, the units the driver writes are those of the image.
LEMMA ByteUnits ==
  ASSUME BlockSize = 1, len \in 0 .. Capacity, NEW b \in Blocks, b < Units,
         NEW o \in Offsets
  PROVE  InFile(b, o)
BY TargetAssumption DEF Units, InFile, Blocks, Offsets, Capacity

\* The size does not change while the image does not.
LEMMA UnitsStable ==
  ASSUME UNCHANGED len
  PROVE  Units' = Units
BY DEF Units

\* What is wanted of a unit behind the image is what it holds, and a unit of one byte
\* inside the image is wanted as the image has it.
LEMMA OverlayUnits ==
  ASSUME len \in 0 .. Capacity, Units \in Nat, NEW area \in [Blocks -> Contents],
         NEW b \in Blocks, ~(b < Units)
  PROVE  Overlay(area)[b] = area[b]
<1>1. \A o \in Offsets : ~InFile(b, o)
  BY ImageUnits
<1>2. Overlay(area)[b] = [o \in Offsets |-> area[b][o]]
  BY <1>1 DEF Overlay
<1>3. area[b] \in [Offsets -> Byte]
  BY DEF Contents
<1> QED BY <1>2, <1>3

\* Where units are bytes, what is wanted of a unit is its byte of the image.
LEMMA ByteOverlay ==
  ASSUME len \in 0 .. Capacity, BlockSize = 1, buf \in [Blocks -> Contents],
         NEW area \in [Blocks -> Contents], NEW b \in Blocks, b < Units
  PROVE  Overlay(area)[b] = buf[b]
<1>1. \A o \in Offsets : InFile(b, o)
  BY ByteUnits
<1>2. Overlay(area)[b] = [o \in Offsets |-> buf[b][o]]
  BY <1>1 DEF Overlay
<1>3. buf[b] \in [Offsets -> Byte]
  BY DEF Contents
<1> QED BY <1>2, <1>3

-----------------------------------------------------------------------------
\* What keeps the loop variables in range: a unit is handled only while there is one, and
\* an attempt is made only while one is left.
InLoop ==
  /\ pc \in {"send", "settle", "wait", "poll"} => i < Units
  /\ pc = "settle" => retries = Retries
  /\ pc = "poll" => retries > 0

TInv == TypeOK /\ InLoop

\* Types and the range of the loop index, together, are inductive.
LEMMA TypeInvariant == Spec => []TInv
<1>1. Init => TInv
  <2> SUFFICES ASSUME Init PROVE TInv
    OBVIOUS
  <2>1. NoCell \in [blk : Blocks, data : Contents] /\ Blank \in [Blocks -> Contents]
    BY TargetAssumption DEF NoCell, Blank, Blocks, Contents
  <2>2. TargetTypeOK
    BY <2>1 DEF Init, TargetInit, TargetTypeOK, Modes
  <2>3. NBlocks \in Nat /\ NBlocks * BlockSize \in Nat /\ MaxRuns \in Nat
    BY TargetAssumption, RunsAssumption
  <2>4. /\ mem \in [Blocks -> Contents] /\ 0 \in 0 .. Capacity
        /\ 0 \in 0 .. NBlocks /\ 0 \in 0 .. MaxRuns
    BY <2>3 DEF Init, TargetInit, Capacity
  <2>5. gaveUp \in BOOLEAN
    BY DEF Init
  <2> QED BY <2>1, <2>2, <2>4, <2>5 DEF Init, TInv, InLoop, TypeOK, Retries, Ended
<1>2. TInv /\ [Next]_vars => TInv'
  <2> SUFFICES ASSUME TInv, [Next]_vars PROVE TInv'
    OBVIOUS
  <2>0. /\ NBlocks \in Nat /\ MaxRuns \in Nat /\ Units \in 0 .. NBlocks
        /\ Blank \in [Blocks -> Contents]
    BY UnitsType, TargetAssumption, RunsAssumption DEF TInv, TypeOK, Blank, Blocks, Contents
  <2>1. CASE Run
    BY <2>0, <2>1, UnitsStable DEF TInv, InLoop, TypeOK, Run, TargetTypeOK, targetVars, Active, Ended
  <2>2. CASE Open
    <3>1. TargetTypeOK'
      BY <2>2, ResetType, UnitsStable DEF TInv, InLoop, TypeOK, Open
    <3>2. goal' \in [Blocks -> Contents] /\ old' \in [Blocks -> Contents]
      BY <2>2, <3>1 DEF TInv, InLoop, TypeOK, Open, Overlay, TargetTypeOK, Contents
    <3>3. gaveUp' \in BOOLEAN
      BY <2>2 DEF Open
    <3> QED BY <2>0, <2>2, <3>1, <3>2, <3>3 DEF TInv, InLoop, TypeOK, Open, Active, Retries
  <2>3. CASE Unlock
    BY <2>3, UnitsStable DEF TInv, InLoop, TypeOK, Unlock, TargetTypeOK, targetVars, WriteKeys, OpenedBy, LockBits, Active
  <2>4. CASE OptMode
    BY <2>4, UnitsStable DEF TInv, InLoop, TypeOK, OptMode, TargetTypeOK, SelectedMode, Modes, Active
  <2>5. CASE ReadBack
    <3>1. current' \in [Blocks -> Contents]
      BY <2>5, UnitsStable DEF TInv, InLoop, TypeOK, ReadBack, TargetTypeOK
    <3>2. buf' \in [Blocks -> Contents]
      BY <2>5, <3>1, UnitsStable DEF TInv, InLoop, TypeOK, ReadBack, MergedTail, Contents
    <3> QED BY <2>5, <3>1, <3>2, UnitsStable DEF TInv, InLoop, TypeOK, ReadBack, TargetTypeOK, targetVars, Active
  <2>6. CASE SkipBlock
    BY <2>0, <2>6, UnitsStable DEF TInv, InLoop, TypeOK, SkipBlock, TargetTypeOK, targetVars
  <2>7. CASE BlockMode
    BY <2>7, UnitsStable DEF TInv, InLoop, TypeOK, BlockMode, TargetTypeOK, SelectedMode, PrgMode, Modes, Active
  <2>8. CASE SendBlock \/ SendOptByte
    <3>1. i \in Blocks /\ buf[i] \in Contents
      BY <2>0, <2>8, UnitsStable DEF TInv, InLoop, TypeOK, SendBlock, SendOptByte, Blocks
    <3>2. TargetTypeOK'
      BY <2>8, <3>1, WriteMemType, UnitsStable DEF TInv, InLoop, TypeOK, SendBlock, SendOptByte
    <3> QED BY <2>0, <2>8, <3>1, <3>2, UnitsStable DEF TInv, InLoop, TypeOK, SendBlock, SendOptByte, Retries, Active, Blocks
  <2>9. CASE Settle
    <3>1. TargetTypeOK'
      BY <2>9, SleepType, UnitsStable DEF TInv, InLoop, TypeOK, Settle
    <3> QED BY <2>9, <3>1, UnitsStable DEF TInv, InLoop, TypeOK, Settle, Active, Retries
  <2>10. CASE PollDone
    BY <2>0, <2>10, UnitsStable DEF TInv, InLoop, TypeOK, PollDone, TargetTypeOK, ReadIapsr, Active
  <2>11. CASE PollDies \/ PollAgain
    BY <2>11, UnitsStable DEF TInv, InLoop, TypeOK, PollDies, PollAgain, TargetTypeOK, ReadIapsr, Active, Ended, Retries
  <2>12. CASE Wait
    <3>1. TargetTypeOK'
      BY <2>12, SleepType, UnitsStable DEF TInv, InLoop, TypeOK, Wait
    <3>2. gaveUp' \in BOOLEAN
      BY <2>12 DEF Wait, TInv, TypeOK
    <3> QED BY <2>0, <2>12, <3>1, <3>2, UnitsStable DEF TInv, InLoop, TypeOK, Wait, Active
  <2>13. CASE LoopEnds \/ Close \/ SwimError
    BY <2>13, UnitsStable DEF TInv, InLoop, TypeOK, LoopEnds, Close, SwimError, TargetTypeOK, targetVars, Active, Ended
  <2>14. CASE Relock
    BY <2>14, UnitsStable DEF TInv, InLoop, TypeOK, Relock, TargetTypeOK, AfterIapsrWrite, Active
  <2>15. CASE ResetPart
    <3>1. TargetTypeOK'
      BY <2>15, ResetType, UnitsStable DEF TInv, InLoop, TypeOK, ResetPart
    <3> QED BY <2>15, <3>1, UnitsStable DEF TInv, InLoop, TypeOK, ResetPart, Active
  <2>16. CASE TargetAlone
    <3>1. TargetTypeOK'
      BY <2>16, SleepType, UnitsStable DEF TInv, InLoop, TypeOK, TargetAlone
    <3> QED BY <2>16, <3>1, UnitsStable DEF TInv, InLoop, TypeOK, TargetAlone, driverVars
  <2>17. CASE UNCHANGED vars
    BY <2>17, UnitsStable DEF TInv, InLoop, TypeOK, TargetTypeOK, vars, driverVars, targetVars
  <2> QED BY <2>1, <2>2, <2>3, <2>4, <2>5, <2>6, <2>7, <2>8, <2>9, <2>10, <2>11, <2>12,
             <2>13, <2>14, <2>15, <2>16, <2>17 DEF Next, Step
<1> QED BY <1>1, <1>2, PTL DEF Spec

\* Type correctness: every variable stays within its type, the loop index and the number
\* of attempts included.
THEOREM TypeCorrect == Spec => []TypeOK
<1>1. TInv => TypeOK
  BY DEF TInv
<1> QED BY <1>1, TypeInvariant, PTL
-----------------------------------------------------------------------------
(***************************************************************************)
(* The inductive invariant behind the safety properties, one conjunct per  *)
(* idea. It relates where the driver is to what is in the air.             *)
(***************************************************************************)
EmptyBlock(c) == \A o \in Offsets : c[o] = Empty

\* The units before the current one are done, those behind it untouched.
Prefix ==
  /\ \A b \in Blocks : b < i => mem[b] = goal[b]
  /\ \A b \in Blocks : b > i => mem[b] = old[b]

\* What is in the air is unit i with the contents wanted there, also after the invocation
\* that sent it has died; it is in fast mode only over empty cells.
Flying ==
  busy > 0 => /\ i \in Blocks
              /\ cell = [blk |-> i, data |-> goal[i]]
              /\ mode = "fast" => EmptyBlock(mem[i])

\* Between opening the part and the first unit nothing has happened to the area.
Fresh ==
  pc \in {"unlock", "optmode", "readback"} =>
    /\ mem = old /\ goal = Overlay(old) /\ i = 0
    /\ busy = 0 /\ "EOP" \notin iapsr

\* Which areas get to which part of the driver.
Paths ==
  /\ pc \in {"optmode", "optbyte"} => memtype = "OPT"
  /\ pc \in {"readback", "block", "send"} => memtype # "OPT"
  /\ pc \in {"settle", "wait", "poll"} => memtype # "RAM"
  /\ pc \in {"optbyte", "settle", "wait", "poll"} /\ memtype = "OPT" => mode # "fast"

\* In the loop the buffer holds what is wanted of the units it covers, and nothing is
\* wanted of the others; the read-back copy is the area as it was.
Loop ==
  pc \in {"block", "send", "optbyte", "settle", "wait", "poll"} =>
    /\ i <= Units
    /\ \A b \in Blocks : IF b < Units THEN buf[b] = goal[b] ELSE goal[b] = old[b]
    /\ memtype # "OPT" => \A b \in Blocks : b < Units => current[b] = old[b]

\* Before a unit is sent nothing is in the air, no EOP is left over, and the unit is as it was.
AtUnit ==
  pc \in {"block", "send", "optbyte"} =>
    /\ busy = 0 /\ "EOP" \notin iapsr
    /\ i \in Blocks => mem[i] = old[i]

\* A block about to be sent differs from what is there; for flash and EEPROM the CPU is
\* stalled and the block mode fits.
Ready ==
  pc = "send" =>
    /\ current[i] # buf[i]
    /\ memtype # "RAM" =>
         stall /\ mode \in {"std", "fast"} /\ (mode = "fast" => EmptyBlock(mem[i]))

\* A unit that was sent is in the air, or it has landed and its EOP is up, or it was
\* refused.
Waiting ==
  pc \in {"settle", "wait", "poll"} =>
    /\ \/ busy > 0 /\ "EOP" \notin iapsr
       \/ /\ busy = 0 /\ "EOP" \in iapsr /\ mem[i] = goal[i]
          /\ pc = "wait" => memtype = "OPT"
       \/ /\ busy = 0 /\ "EOP" \notin iapsr
          /\ memtype # "OPT" => "WR_PG_DIS" \in iapsr /\ pc # "wait"
    /\ pc = "wait" /\ memtype = "OPT" => retries > 0

Finished ==
  pc \in {"idle", "relock", "reset", "close", "done"} => mem = goal /\ busy = 0

SInv == /\ Prefix /\ Flying /\ Fresh /\ Paths /\ Loop /\ AtUnit
        /\ Ready /\ Waiting /\ Finished

\* One sleeping period with a unit in the air: it lands as it is wanted, or nothing
\* but time passes.
LEMMA Landing ==
  ASSUME TInv, Flying, Sleep
  PROVE  \/ /\ busy = 1 /\ busy' = 0 /\ mem' = [mem EXCEPT ![i] = goal[i]]
            /\ "EOP" \in iapsr' /\ mode' \in {"opt", "none"}
         \/ busy > 1 /\ busy' = busy - 1 /\ UNCHANGED <<mem, iapsr, mode, cell>>
         \/ busy = 0 /\ busy' = 0 /\ UNCHANGED <<mem, iapsr, mode, cell>>
<1>0. busy \in Nat /\ mem \in [Blocks -> Contents] /\ goal \in [Blocks -> Contents]
  BY DEF TInv, TypeOK, TargetTypeOK
<1>1. CASE busy = 1
  <2>1. i \in Blocks /\ cell.blk = i /\ cell.data = goal[i]
    BY <1>1 DEF Flying
  <2>2. PICK d \in Programmed(mem[i], goal[i], mode) : mem' = [mem EXCEPT ![i] = d]
    BY <1>1, <2>1 DEF Sleep
  <2>3. \A o \in Offsets : d[o] = goal[i][o]
    BY <1>1, <2>2 DEF Flying, EmptyBlock, Programmed
  <2>4. d = goal[i]
    BY <1>0, <2>1, <2>2, <2>3 DEF Programmed, Contents
  <2> QED BY <1>1, <2>2, <2>4 DEF Sleep
<1>2. CASE busy # 1
  BY <1>0, <1>2 DEF Sleep
<1> QED BY <1>1, <1>2

\* The invariant holds before the first run.
LEMMA SafetyInit == Init => SInv
<1> SUFFICES ASSUME Init PROVE SInv
  OBVIOUS
<1> QED BY DEF Init, TargetInit, SInv, Prefix, Flying, Fresh, Paths, Loop, AtUnit, Ready, Waiting,
           Finished

\* Every step keeps the invariant unless a wait runs out in it.
LEMMA SafetyStep ==
  ASSUME TInv, TInv', SInv, [Next]_vars, ~gaveUp'
  PROVE  SInv'
<1>0. /\ NBlocks \in Nat /\ Units \in 0 .. NBlocks /\ Blocks = 0 .. NBlocks - 1
      /\ i \in 0 .. NBlocks /\ busy \in Nat /\ retries \in 0 .. 5
      /\ mem \in [Blocks -> Contents] /\ goal \in [Blocks -> Contents]
      /\ buf \in [Blocks -> Contents] /\ current \in [Blocks -> Contents]
  BY UnitsType, TargetAssumption DEF TInv, TypeOK, TargetTypeOK, Blocks, Retries
<1>a. \A t \in ProgTime : t \in Nat /\ t > 0
  BY TargetAssumption
<1>1. CASE Run
  BY <1>1, <1>0 DEF Run, targetVars, Ended, SInv, Prefix, Flying, Fresh, Paths, Loop, AtUnit, Ready, Waiting, Finished
<1>2. CASE Open
  BY <1>2, <1>0 DEF Open, Reset, Overlay, InFile, SInv, Prefix, Flying, Fresh, Paths, Loop, AtUnit, Ready, Waiting, Finished
<1>3. CASE Unlock
  <2>1. /\ UNCHANGED <<memtype, mem, mode, stall, busy, cell, len, buf, i, old, goal>>
        /\ pc = "unlock" /\ pc' = IF memtype = "OPT" THEN "optmode" ELSE "readback"
        /\ "EOP" \in iapsr' => "EOP" \in iapsr
    BY <1>3 DEF Unlock, targetVars, WriteKeys, OpenedBy
  <2>2. Overlay(old)' = Overlay(old)
    BY <2>1 DEF Overlay, InFile
  <2>3. Fresh'
    BY <2>1, <2>2 DEF SInv, Fresh
  <2>4. Prefix' /\ Flying' /\ Paths'
    BY <2>1 DEF SInv, Prefix, Flying, Paths
  <2>5. Loop' /\ AtUnit' /\ Ready' /\ Waiting' /\ Finished'
    BY <2>1 DEF Loop, AtUnit, Ready, Waiting, Finished
  <2> QED BY <2>3, <2>4, <2>5 DEF SInv
<1>4. CASE OptMode
  <2>1. /\ UNCHANGED <<memtype, mem, iapsr, stall, busy, cell, len, buf, i, old, goal>>
        /\ pc = "optmode" /\ pc' = "optbyte" /\ mode' = "opt"
    BY <1>4 DEF OptMode, SelectedMode
  <2>2. /\ memtype = "OPT" /\ BlockSize = 1 /\ i = 0 /\ mem = old /\ goal = Overlay(old)
        /\ busy = 0 /\ "EOP" \notin iapsr
    BY <2>1, TargetAssumption DEF SInv, Paths, Fresh, TInv, TypeOK, TargetTypeOK
  <2>3. \A b \in Blocks : IF b < Units THEN buf[b] = goal[b] ELSE goal[b] = old[b]
    <3>1. len \in 0 .. Capacity /\ old \in [Blocks -> Contents] /\ Units \in Nat
      BY <1>0 DEF TInv, TypeOK
    <3>2. \A b \in Blocks : b < Units => Overlay(old)[b] = buf[b]
      BY <1>0, <2>2, <3>1, ByteOverlay
    <3>3. \A b \in Blocks : ~(b < Units) => Overlay(old)[b] = old[b]
      BY <3>1, OverlayUnits
    <3> QED BY <2>2, <3>2, <3>3
  <2>4. Loop'
    BY <1>0, <2>1, <2>2, <2>3, UnitsStable DEF Loop
  <2>5. Prefix' /\ Flying' /\ Paths' /\ AtUnit'
    BY <2>1, <2>2 DEF SInv, Prefix, Flying, Paths, AtUnit
  <2>6. Fresh' /\ Ready' /\ Waiting' /\ Finished'
    BY <2>1 DEF Fresh, Ready, Waiting, Finished
  <2> QED BY <2>4, <2>5, <2>6 DEF SInv
<1>5. CASE ReadBack
  <2>1. /\ UNCHANGED <<memtype, mem, iapsr, mode, stall, busy, cell, len, i, old, goal>>
        /\ pc = "readback" /\ pc' = "block"
        /\ current' = [b \in Blocks |-> IF b < Units THEN mem[b] ELSE current[b]]
        /\ buf' = MergedTail(current')
    BY <1>5 DEF ReadBack, targetVars
  <2>2. /\ memtype # "OPT" /\ i = 0 /\ mem = old /\ goal = Overlay(old)
        /\ busy = 0 /\ "EOP" \notin iapsr
    BY <2>1 DEF SInv, Paths, Fresh
  <2>3. \A b \in Blocks : b < Units => current'[b] = old[b]
    BY <2>1, <2>2
  <2>4. \A b \in Blocks : IF b < Units THEN buf'[b] = goal[b] ELSE goal[b] = old[b]
    <3>1. \A b \in Blocks : b < Units => buf'[b] = goal[b]
      BY <2>1, <2>2, <2>3 DEF MergedTail, Overlay
    <3>2. len \in 0 .. Capacity /\ old \in [Blocks -> Contents] /\ Units \in Nat
      BY <1>0 DEF TInv, TypeOK
    <3>3. \A b \in Blocks : ~(b < Units) => Overlay(old)[b] = old[b]
      BY <3>2, OverlayUnits
    <3> QED BY <2>2, <3>1, <3>3
  <2>5. Loop'
    BY <1>0, <2>1, <2>2, <2>3, <2>4, UnitsStable, SMTT(30) DEF Loop
  <2>6. Prefix' /\ Flying' /\ Paths' /\ AtUnit'
    BY <2>1, <2>2 DEF SInv, Prefix, Flying, Paths, AtUnit
  <2>7. Fresh' /\ Ready' /\ Waiting' /\ Finished'
    BY <2>1 DEF Fresh, Ready, Waiting, Finished
  <2> QED BY <2>5, <2>6, <2>7 DEF SInv
<1>6. CASE SkipBlock
  BY <1>6, <1>0, UnitsStable DEF SkipBlock, targetVars, SInv, Prefix, Flying, Fresh, Paths, Loop, AtUnit, Ready, Waiting, Finished
<1>7. CASE BlockMode
  <2>1. /\ UNCHANGED <<memtype, mem, iapsr, busy, cell, len, buf, current, i, old, goal>>
        /\ pc = "block" /\ pc' = "send" /\ i < Units
        /\ current[i] # buf[i] /\ (memtype # "RAM" => stall' /\ mode' = PrgMode(current[i]))
    BY <1>7 DEF BlockMode, SelectedMode
  <2>2. i \in Blocks /\ current[i] = old[i] /\ mem[i] = old[i] /\ memtype # "OPT" /\ busy = 0
    BY <1>0, <2>1 DEF SInv, Loop, AtUnit, Paths
  <2>3. Ready'
    BY <2>1, <2>2 DEF Ready, PrgMode, EmptyBlock
  <2>4. Loop'
    BY <1>0, <2>1, UnitsStable DEF SInv, Loop
  <2>5. Prefix' /\ Flying' /\ Paths' /\ AtUnit'
    BY <2>1, <2>2 DEF SInv, Prefix, Flying, Paths, AtUnit
  <2>6. Fresh' /\ Waiting' /\ Finished'
    BY <2>1 DEF Fresh, Waiting, Finished
  <2> QED BY <2>3, <2>4, <2>5, <2>6 DEF SInv
<1>8. CASE SendBlock
  <2>1. /\ UNCHANGED <<memtype, len, buf, current, old, goal>> /\ pc = "send" /\ i < Units
        /\ i \in Blocks /\ busy = 0 /\ "EOP" \notin iapsr /\ memtype # "OPT"
        /\ buf[i] = goal[i] /\ mem[i] = old[i]
    BY <1>0, <1>8 DEF SendBlock, SInv, AtUnit, Loop, Paths, TInv, InLoop
  <2>2. CASE memtype = "RAM"
    <3>1. /\ mem' = [mem EXCEPT ![i] = goal[i]] /\ pc' = "block" /\ i' = i + 1
          /\ UNCHANGED <<iapsr, mode, stall, busy, cell>>
      BY <1>8, <2>1, <2>2 DEF SendBlock, WriteMem
    <3>2. Prefix'
      BY <1>0, <2>1, <3>1 DEF SInv, Prefix
    <3>3. Loop'
      BY <1>0, <2>1, <3>1, UnitsStable DEF SInv, Loop
    <3>4. AtUnit' /\ Flying' /\ Paths'
      BY <1>0, <2>1, <3>1 DEF SInv, Prefix, AtUnit, Flying, Paths
    <3>5. Fresh' /\ Ready' /\ Waiting' /\ Finished'
      BY <3>1 DEF Fresh, Ready, Waiting, Finished
    <3> QED BY <3>2, <3>3, <3>4, <3>5 DEF SInv
  <2>3. CASE memtype # "RAM"
    <3>1. /\ pc' = "settle" /\ i' = i /\ retries' = Retries /\ UNCHANGED mem
          /\ \/ /\ busy' \in ProgTime /\ cell' = [blk |-> i, data |-> goal[i]]
                /\ UNCHANGED <<iapsr, mode>>
             \/ /\ busy' = 0 /\ iapsr' = iapsr \union {"WR_PG_DIS"} /\ UNCHANGED <<mode, cell>>
      <4>1. stall /\ mode # "none"
        BY <2>1, <2>3 DEF SInv, Ready
      <4>2. pc' = "settle" /\ i' = i /\ retries' = Retries /\ WriteMem(i, goal[i])
        BY <1>8, <2>1, <2>3 DEF SendBlock
      <4>3. CASE Protected(i)
        <5>1. /\ iapsr' = iapsr \union {"WR_PG_DIS"} /\ UNCHANGED <<mem, mode, busy, cell>>
          BY <2>1, <2>3, <4>2, <4>3 DEF WriteMem
        <5> QED BY <2>1, <4>2, <5>1
      <4>4. CASE ~Protected(i)
        <5>1. ~(busy > 0)
          BY <2>1
        <5>2. /\ busy' \in ProgTime /\ cell' = [blk |-> i, data |-> goal[i]]
              /\ UNCHANGED <<mem, iapsr, mode, stall>>
          BY <2>3, <4>1, <4>2, <4>4, <5>1, Zenon DEF WriteMem
        <5> QED BY <2>1, <4>2, <5>2
      <4> QED BY <4>3, <4>4
    <3>2. Flying'
      BY <2>1, <2>3, <3>1 DEF SInv, Flying, Ready, EmptyBlock
    <3>3. Waiting'
      BY <1>a, <2>1, <2>3, <3>1 DEF Waiting
    <3>4. Loop'
      BY <1>0, <2>1, <3>1, UnitsStable DEF SInv, Loop
    <3>5. Prefix' /\ Paths'
      BY <2>1, <2>3, <3>1 DEF SInv, Prefix, Paths
    <3>6. Fresh' /\ AtUnit' /\ Ready' /\ Finished'
      BY <3>1 DEF Fresh, AtUnit, Ready, Finished
    <3> QED BY <3>2, <3>3, <3>4, <3>5, <3>6 DEF SInv
  <2> QED BY <2>2, <2>3
<1>9. CASE SendOptByte
  <2>1. /\ UNCHANGED <<memtype, len, buf, current, i, old, goal>>
        /\ pc = "optbyte" /\ pc' = "settle" /\ i < Units /\ retries' = Retries
        /\ i \in Blocks /\ busy = 0 /\ "EOP" \notin iapsr /\ memtype = "OPT"
        /\ buf[i] = goal[i] /\ mode # "fast"
    BY <1>0, <1>9 DEF SendOptByte, SInv, AtUnit, Loop, Paths
  <2>2. /\ UNCHANGED <<mem, mode>>
        /\ \/ /\ busy' \in ProgTime /\ cell' = [blk |-> i, data |-> goal[i]]
              /\ UNCHANGED iapsr
           \/ busy' = 0 /\ UNCHANGED cell /\ ("EOP" \in iapsr' => "EOP" \in iapsr)
    BY <1>9, <2>1 DEF SendOptByte, WriteMem
  <2>3. Flying' /\ Waiting'
    BY <1>a, <2>1, <2>2 DEF Flying, Waiting, Retries
  <2>4. Loop'
    BY <1>0, <2>1, UnitsStable DEF SInv, Loop
  <2>5. Prefix' /\ Paths'
    BY <2>1, <2>2 DEF SInv, Prefix, Paths
  <2>6. Fresh' /\ AtUnit' /\ Ready' /\ Finished'
    BY <2>1 DEF Fresh, AtUnit, Ready, Finished
  <2> QED BY <2>3, <2>4, <2>5, <2>6 DEF SInv
<1>10. CASE Settle \/ Wait
  <2>1. /\ UNCHANGED <<memtype, len, buf, current, old, goal>> /\ pc \in {"settle", "wait"}
        /\ Sleep /\ i < Units /\ i \in Blocks
        /\ pc' \in {"wait", "poll"} /\ i' = i /\ UNCHANGED retries
        /\ pc' = "wait" => memtype = "OPT"
        /\ retries > 0
        /\ pc = "settle" => retries = 5
        /\ pc = "wait" => pc' = "poll"
    <3>1. CASE Settle
      BY <1>0, <1>10, <3>1 DEF Settle, TInv, InLoop, Retries
    <3>2. CASE Wait
      BY <1>0, <3>2 DEF Wait, TInv, InLoop
    <3> QED BY <1>10, <3>1, <3>2
  <2>2. Waiting'
    BY <1>0, <2>1, Landing DEF SInv, Waiting, Retries
  <2>3. Flying' /\ Prefix'
    BY <1>0, <2>1, Landing DEF SInv, Flying, Prefix
  <2>4. Paths'
    BY <2>1, Landing DEF SInv, Paths
  <2>5. Loop'
    BY <1>0, <2>1, UnitsStable DEF SInv, Loop
  <2>6. Fresh' /\ AtUnit' /\ Ready' /\ Finished'
    BY <2>1 DEF Fresh, AtUnit, Ready, Finished
  <2> QED BY <2>2, <2>3, <2>4, <2>5, <2>6 DEF SInv
<1>11. CASE PollDone
  <2>1. /\ UNCHANGED <<memtype, mem, mode, busy, cell, len, buf, current, old, goal>>
        /\ pc = "poll" /\ i < Units /\ i' = i + 1 /\ "EOP" \notin iapsr'
        /\ pc' = IF memtype = "OPT" THEN "optbyte" ELSE "block"
        /\ busy = 0 /\ mem[i] = goal[i]
    BY <1>0, <1>11 DEF PollDone, ReadIapsr, EventBits, SInv, Waiting, TInv, InLoop
  <2>2. Prefix' /\ Flying' /\ Paths'
    BY <1>0, <2>1 DEF SInv, Prefix, Flying, Paths
  <2>3. AtUnit'
    BY <1>0, <2>1 DEF SInv, Prefix, AtUnit
  <2>4. Loop'
    BY <1>0, <2>1, UnitsStable DEF SInv, Loop
  <2>5. Fresh' /\ Ready' /\ Waiting' /\ Finished'
    BY <2>1 DEF Fresh, Ready, Waiting, Finished
  <2> QED BY <2>2, <2>3, <2>4, <2>5 DEF SInv
<1>12. CASE PollDies
  BY <1>12, <1>0 DEF PollDies, ReadIapsr, SInv, Prefix, Flying, Fresh, Paths, Loop, AtUnit, Ready, Waiting, Finished
<1>13. CASE PollAgain
  <2>1. /\ UNCHANGED <<memtype, mem, mode, busy, cell, len, buf, current, i, old, goal>>
        /\ pc = "poll" /\ pc' = "wait" /\ retries' = retries - 1 /\ retries > 0
        /\ memtype = "OPT" => retries > 1
        /\ "EOP" \notin iapsr /\ "EOP" \notin iapsr'
        /\ memtype # "OPT" => "WR_PG_DIS" \notin iapsr
    BY <1>13 DEF PollAgain, ReadIapsr, TInv, InLoop
  <2>2. Waiting'
    BY <1>0, <2>1 DEF SInv, Waiting
  <2>3. Prefix' /\ Flying' /\ Paths'
    BY <2>1 DEF SInv, Prefix, Flying, Paths
  <2>4. Loop'
    BY <1>0, <2>1, UnitsStable DEF SInv, Loop
  <2>5. Fresh' /\ AtUnit' /\ Ready' /\ Finished'
    BY <2>1 DEF Fresh, AtUnit, Ready, Finished
  <2> QED BY <2>2, <2>3, <2>4, <2>5 DEF SInv
<1>14. CASE LoopEnds
  BY <1>14, <1>0 DEF LoopEnds, targetVars, SInv, Prefix, Flying, Fresh, Paths, Loop, AtUnit, Ready, Waiting, Finished
<1>15. CASE Relock
  BY <1>15, <1>0 DEF Relock, SInv, Prefix, Flying, Fresh, Paths, Loop, AtUnit, Ready, Waiting, Finished
<1>16. CASE ResetPart
  BY <1>16, <1>0 DEF ResetPart, Reset, SInv, Prefix, Flying, Fresh, Paths, Loop, AtUnit, Ready, Waiting, Finished
<1>17. CASE Close
  BY <1>17, <1>0 DEF Close, targetVars, SInv, Prefix, Flying, Fresh, Paths, Loop, AtUnit, Ready, Waiting, Finished
<1>18. CASE SwimError
  BY <1>18, <1>0 DEF SwimError, targetVars, SInv, Prefix, Flying, Fresh, Paths, Loop, AtUnit, Ready, Waiting, Finished
<1>19. CASE TargetAlone
  BY <1>19, <1>0, Landing DEF TargetAlone, driverVars, Ended, SInv, Prefix, Flying, Fresh, Paths, Loop, AtUnit, Ready, Waiting, Finished
<1>20. CASE UNCHANGED vars
  <2>1. UNCHANGED <<memtype, mem, iapsr, mode, stall, busy, cell, pc, len, buf, current, i,
                    retries, old, goal>>
    BY <1>20 DEF vars, targetVars, driverVars
  <2>2. Fresh'
    BY <2>1 DEF SInv, Fresh, Overlay, InFile
  <2>3. Waiting'
    BY <2>1 DEF SInv, Waiting
  <2> QED BY <2>1, <2>2, <2>3, UnitsStable DEF SInv, Prefix, Flying, Fresh, Paths, Loop, AtUnit, Ready, Waiting, Finished
<1> QED BY <1>1, <1>2, <1>3, <1>4, <1>5, <1>6, <1>7, <1>8, <1>9, <1>10, <1>11, <1>12, <1>13,
           <1>14, <1>15, <1>16, <1>17, <1>18, <1>19, <1>20 DEF Next, Step
-----------------------------------------------------------------------------
\* Only opening the part takes gaveUp back, and what it leaves satisfies the invariant.
LEMMA SafetyOrGaveUp ==
  ASSUME TInv, TInv', gaveUp \/ SInv, [Next]_vars
  PROVE  gaveUp' \/ SInv'
<1>1. CASE SInv
  BY <1>1, SafetyStep
<1>2. CASE gaveUp /\ Open
  <2>1. /\ mem' = old' /\ i' = 0 /\ busy' = 0 /\ "EOP" \notin iapsr' /\ pc' = "unlock"
        /\ goal' = Overlay(mem')
    BY <1>2 DEF Open, Reset
  <2>2. \A b \in Blocks : ~(b < 0)
    BY TargetAssumption DEF Blocks
  <2>3. Overlay(mem') = Overlay(old)'
    BY <1>2, <2>1 DEF Open, Overlay, InFile
  <2> QED BY <2>1, <2>2, <2>3 DEF SInv, Prefix, Flying, Fresh, Paths, Loop, AtUnit, Ready, Waiting, Finished
<1>3. CASE gaveUp /\ ~Open
  <2>1. Run \/ Unlock \/ OptMode \/ ReadBack \/ SkipBlock \/ BlockMode => gaveUp'
    BY <1>3 DEF Run, Unlock, OptMode, ReadBack, SkipBlock, BlockMode
  <2>2. SendBlock \/ SendOptByte \/ Settle \/ PollDone \/ PollDies \/ PollAgain => gaveUp'
    BY <1>3 DEF SendBlock, SendOptByte, Settle, PollDone, PollDies, PollAgain
  <2>3. Wait \/ LoopEnds \/ Relock \/ ResetPart \/ Close \/ SwimError => gaveUp'
    BY <1>3 DEF Wait, LoopEnds, Relock, ResetPart, Close, SwimError
  <2>4. TargetAlone \/ UNCHANGED vars => gaveUp'
    BY <1>3 DEF TargetAlone, driverVars, vars
  <2> QED BY <1>3, <2>1, <2>2, <2>3, <2>4, Zenon DEF Next, Step
<1> QED BY <1>1, <1>2, <1>3

\* In every behaviour the invariant holds until a wait runs out.
LEMMA SafetyInvariant == Spec => [](TInv /\ (gaveUp \/ SInv))
<1>1. TInv /\ TInv' /\ (gaveUp \/ SInv) /\ [Next]_vars => (gaveUp \/ SInv)'
  BY SafetyOrGaveUp
<1> QED BY <1>1, SafetyInit, TypeInvariant, PTL DEF Spec

\* What is in the air lands within the looks that are left, so that no wait runs out.
InTime == busy <= CASE pc = "settle" -> Retries [] pc = "wait" -> retries [] OTHER -> retries - 1

Timely == /\ ~gaveUp
          /\ pc \in {"settle", "wait", "poll"} /\ busy > 0 => InTime

\* Every step on a prompt part leaves enough looks for what is in the air.
LEMMA TimelyStep ==
  ASSUME PromptPart, TInv, TInv', SInv, Timely, [Next]_vars
  PROVE  Timely'
<1>0. busy \in Nat /\ retries \in 0 .. 5 /\ Retries = 5
  BY DEF TInv, TypeOK, TargetTypeOK, Retries
<1>1. CASE Run \/ Open \/ Unlock \/ OptMode \/ ReadBack \/ SkipBlock \/ BlockMode
  <2>1. pc' \in {"open", "unlock", "optmode", "optbyte", "readback", "block", "send"}
    BY <1>1 DEF Run, Open, Unlock, OptMode, ReadBack, SkipBlock, BlockMode
  <2>2. ~gaveUp'
    BY <1>1 DEF Timely, Run, Open, Unlock, OptMode, ReadBack, SkipBlock, BlockMode
  <2> QED BY <2>1, <2>2 DEF Timely
<1>2. CASE SendBlock \/ SendOptByte
  <2>1. busy = 0 /\ ~gaveUp'
    BY <1>2 DEF SendBlock, SendOptByte, SInv, AtUnit, Timely
  <2>2. busy' \in ProgTime \/ busy' = 0
    BY <1>2, <2>1 DEF SendBlock, SendOptByte, WriteMem
  <2>3. pc' = "block" \/ (pc' = "settle" /\ retries' = Retries)
    BY <1>2 DEF SendBlock, SendOptByte
  <2> QED BY <1>0, <2>1, <2>2, <2>3 DEF Timely, InTime, PromptPart
<1>3. CASE Settle
  <2>1. /\ pc = "settle" /\ pc' \in {"wait", "poll"} /\ retries = 5 /\ retries' = retries
        /\ ~gaveUp' /\ Sleep
    BY <1>3 DEF Settle, TInv, InLoop, Timely, Retries
  <2> QED BY <1>0, <2>1 DEF Timely, InTime, Sleep
<1>4. CASE Wait
  <2>1. pc = "wait" /\ retries > 0
    BY <1>0, <1>4 DEF Wait, SInv, Waiting, Timely, InTime
  <2>2. pc' = "poll" /\ retries' = retries /\ ~gaveUp' /\ Sleep
    BY <1>0, <1>4, <2>1 DEF Wait, Timely
  <2> QED BY <1>0, <2>1, <2>2 DEF Timely, InTime, Sleep
<1>5. CASE PollAgain
  BY <1>0, <1>5 DEF PollAgain, ReadIapsr, Timely, InTime
<1>6. CASE PollDone \/ PollDies \/ LoopEnds \/ Relock \/ ResetPart \/ Close \/ SwimError
  BY <1>6 DEF PollDone, PollDies, LoopEnds, Relock, ResetPart, Close, SwimError, Timely
<1>7. CASE TargetAlone
  BY <1>7 DEF TargetAlone, driverVars, Ended, Timely
<1>8. CASE UNCHANGED vars
  BY <1>8 DEF vars, targetVars, driverVars, Timely, InTime
<1> QED BY <1>1, <1>2, <1>3, <1>4, <1>5, <1>6, <1>7, <1>8 DEF Next, Step

\* With a prompt part the invariant holds always.
LEMMA PromptInvariant ==
  ASSUME PromptPart
  PROVE  Spec => [](TInv /\ SInv /\ Timely)
<1>1. Init => Timely
  BY DEF Init, Timely
<1>2. TInv /\ TInv' /\ (gaveUp \/ SInv) /\ Timely /\ [Next]_vars => Timely'
  BY TimelyStep DEF Timely
<1>3. (gaveUp \/ SInv) /\ Timely => SInv
  BY DEF Timely
<1> QED BY <1>1, <1>2, <1>3, SafetyInvariant, PTL DEF Spec

\* An invocation that reports OK has left the area as the image asks.
THEOREM Written == Spec => []WrittenOK
<1>1. gaveUp \/ SInv => WrittenOK
  BY DEF SInv, Finished, WrittenOK
<1> QED BY <1>1, SafetyInvariant, PTL

\* Wherever an invocation dies, all units but the one it is at are as wanted or as before.
THEOREM CrashLeavesPrefix == Spec => []PrefixDone
<1>1. gaveUp \/ SInv => PrefixDone
  BY DEF SInv, Prefix, PrefixDone
<1> QED BY <1>1, SafetyInvariant, PTL

\* Fast block programming is never under way over cells that are not empty.
THEOREM FastIsSafe == Spec => []FastOnlyOnEmpty
<1>1. gaveUp \/ SInv => FastOnlyOnEmpty
  BY DEF SInv, Flying, FastOnlyOnEmpty, EmptyBlock
<1> QED BY <1>1, SafetyInvariant, PTL

\* Nothing is sent to a controller that is still programming.
THEOREM NeverSentTooEarly == Spec => []ReadyToSend
<1>1. gaveUp \/ SInv => ReadyToSend
  BY DEF SInv, AtUnit, ReadyToSend
<1> QED BY <1>1, SafetyInvariant, PTL

\* The EOP that ends the wait for a unit is that unit's.
THEOREM EopIsOwn == Spec => OwnEop
<1>1. TInv /\ (gaveUp \/ SInv) /\ [Next]_vars => [PollDone /\ ~gaveUp => mem[i] = buf[i]]_vars
  <2> SUFFICES ASSUME TInv, SInv, PollDone PROVE mem[i] = buf[i]
    OBVIOUS
  <2>1. i \in Blocks /\ i < Units
    BY UnitsType, TargetAssumption DEF PollDone, TInv, TypeOK, InLoop, Blocks
  <2>2. buf[i] = goal[i]
    BY <2>1 DEF PollDone, SInv, Loop
  <2> QED BY <2>2 DEF PollDone, SInv, Waiting
<1> QED BY <1>1, SafetyInvariant, PTL DEF Spec, OwnEop

\* What the preparation leaves: the lock that it opened, the mode, and a path of their own for
\* the option bytes, which no wait that runs out leads away from.
Opened ==
  /\ memtype # "RAM" /\ pc \in {"readback", "optmode", "block", "send", "optbyte", "settle", "wait", "poll"} =>
       AreaLock \in iapsr
  /\ memtype = "OPT" => /\ pc \notin {"readback", "block", "send"}
                        /\ pc \in {"optbyte", "settle", "wait", "poll"} => mode = "opt"
                        /\ pc = "wait" => retries > 0
  /\ memtype # "OPT" => pc \notin {"optmode", "optbyte"}
  /\ memtype # "RAM" /\ pc = "send" /\ memtype # "OPT" => mode \in {"std", "fast"} /\ stall

\* The preparation lasts, waits that ran out or not.
LEMMA OpenedStep ==
  ASSUME TInv, Opened, [Next]_vars
  PROVE  Opened'
<1>0. iapsr \subseteq LockBits \union EventBits /\ AreaLock \notin EventBits /\ retries \in 0 .. Retries
  BY DEF TInv, TypeOK, TargetTypeOK, AreaLock, EventBits
<1>1. AreaLock' = AreaLock /\ memtype' = memtype
  BY DEF Next, Step, Run, Open, Unlock, OptMode, ReadBack, SkipBlock, BlockMode, SendBlock, SendOptByte, Settle,
         PollDone, PollDies, PollAgain, Wait, LoopEnds, Relock, ResetPart, Close, SwimError, TargetAlone, vars,
         driverVars, AreaLock
<1>2. CASE Run \/ Open \/ PollDies \/ Relock \/ ResetPart \/ Close \/ SwimError
  <2>1. pc' \in {"open", "unlock", "failed", "reset", "close", "done"}
    BY <1>2 DEF Run, Open, PollDies, Relock, ResetPart, Close, SwimError
  <2> QED BY <2>1 DEF Opened
<1>3. CASE Unlock
  <2>1. memtype # "RAM" => AreaLock \in iapsr'
    BY <1>3 DEF Unlock, WriteKeys, AreaKeys, KeyOrder, OpenedBy, AreaLock
  <2>2. pc' = IF memtype = "OPT" THEN "optmode" ELSE "readback"
    BY <1>3 DEF Unlock
  <2> QED BY <1>1, <2>1, <2>2 DEF Opened
<1>4. CASE OptMode
  BY <1>1, <1>4 DEF OptMode, SelectedMode, Opened
<1>5. CASE ReadBack \/ SkipBlock \/ LoopEnds \/ UNCHANGED vars
  <2>1. UNCHANGED <<iapsr, mode, stall, retries>>
    BY <1>5 DEF ReadBack, SkipBlock, LoopEnds, vars, driverVars, targetVars
  <2>2. \/ pc = "readback" /\ pc' = "block"
        \/ pc' = pc
        \/ pc' = "relock"
    BY <1>5 DEF ReadBack, SkipBlock, LoopEnds, vars, driverVars
  <2> QED BY <1>1, <2>1, <2>2 DEF Opened
<1>6. CASE BlockMode
  <2>1. pc = "block" /\ pc' = "send" /\ UNCHANGED iapsr
        /\ (memtype # "RAM" => stall' = TRUE /\ mode' \in {"std", "fast"})
    BY <1>6 DEF BlockMode, SelectedMode, PrgMode
  <2> QED BY <1>1, <2>1 DEF Opened
<1>7. CASE SendBlock \/ SendOptByte
  <2>1. iapsr \subseteq iapsr' /\ UNCHANGED mode /\ (pc = "send" \/ pc = "optbyte")
        /\ (pc' = "settle" \/ (memtype = "RAM" /\ pc = "send" /\ pc' = "block"))
    BY <1>7 DEF SendBlock, SendOptByte, WriteMem
  <2> QED BY <1>1, <2>1 DEF Opened
<1>8. CASE Settle \/ Wait
  <2>1. iapsr \subseteq iapsr' /\ (mode = "opt" => mode' = "opt")
    BY <1>8 DEF Settle, Wait, Sleep
  <2>2. CASE Settle
    BY <1>1, <2>1, <2>2 DEF Settle, TInv, InLoop, Retries, Opened
  <2>3. CASE Wait
    BY <1>0, <1>1, <2>1, <2>3 DEF Wait, Opened
  <2> QED BY <1>8, <2>2, <2>3
<1>9. CASE PollDone \/ PollAgain
  <2>1. pc = "poll" /\ iapsr' = iapsr \ EventBits /\ UNCHANGED mode
    BY <1>9 DEF PollDone, PollAgain, ReadIapsr
  <2>2. \/ pc' = IF memtype = "OPT" THEN "optbyte" ELSE "block"
        \/ pc' = "wait" /\ (memtype = "OPT" => retries' > 0)
    BY <1>0, <1>9 DEF PollDone, PollAgain
  <2> QED BY <1>0, <1>1, <2>1, <2>2 DEF Opened
<1>10. CASE TargetAlone
  BY <1>1, <1>10 DEF TargetAlone, driverVars, Ended, Opened
<1> QED BY <1>2, <1>3, <1>4, <1>5, <1>6, <1>7, <1>8, <1>9, <1>10 DEF Next, Step

\* Whatever the part does and however often a wait runs out: where data are about to be sent the
\* lock is open, the mode selected and the CPU stalled (stlinkv2.c:461-477, 528-535).
THEOREM PreparedForData == Spec => []Prepared
<1>1. Init => Opened
  BY DEF Init, Opened
<1>2. Opened => Prepared
  BY DEF Opened, Prepared
<1> QED BY <1>1, <1>2, OpenedStep, TypeInvariant, PTL DEF Spec

\* What was read is what the units hold that the loop has not come to; a unit under programming
\* is one it has come to, this one at most.
Untouched ==
  /\ pc \in {"unlock", "optmode", "readback"} => busy = 0
  /\ pc \in {"block", "send", "settle", "wait", "poll"} /\ memtype # "OPT" =>
       /\ \A b \in Blocks : b < Units /\ (b > i \/ (b = i /\ pc \in {"block", "send"})) => mem[b] = current[b]
       /\ busy > 0 => cell.blk < i \/ (cell.blk = i /\ pc \in {"settle", "wait", "poll"})
  /\ pc = "send" => current[i] # buf[i]

\* A sleeping period changes the unit under programming at most.
LEMMA SleepTouches ==
  ASSUME Sleep, TInv
  PROVE  /\ busy' \in Nat /\ (busy' > 0 => busy > 0) /\ cell' = cell
         /\ \A b \in Blocks : busy = 0 \/ b # cell.blk => mem'[b] = mem[b]
BY DEF Sleep, TInv, TypeOK, TargetTypeOK

\* What is behind the loop stays untouched, waits that ran out or not.
LEMMA UntouchedStep ==
  ASSUME TInv, Opened, Untouched, [Next]_vars
  PROVE  Untouched'
<1>0. /\ NBlocks \in Nat /\ Units \in 0 .. NBlocks /\ Blocks = 0 .. NBlocks - 1
      /\ i \in 0 .. NBlocks /\ busy \in Nat /\ mem \in [Blocks -> Contents]
      /\ cell \in [blk : Blocks, data : Contents]
  BY UnitsType, TargetAssumption DEF TInv, TypeOK, TargetTypeOK, Blocks
<1>1. CASE Run \/ PollDies \/ Relock \/ ResetPart \/ Close \/ SwimError \/ LoopEnds
  <2>1. pc' \in {"open", "failed", "reset", "close", "done", "relock"}
    BY <1>1 DEF Run, PollDies, Relock, ResetPart, Close, SwimError, LoopEnds
  <2> QED BY <2>1 DEF Untouched
<1>2. CASE Open
  <2>1. pc' = "unlock" /\ busy' = 0
    BY <1>2 DEF Open, Reset
  <2> QED BY <2>1 DEF Untouched
<1>3. CASE Unlock \/ OptMode
  <2>1. pc \in {"unlock", "optmode"} /\ UNCHANGED busy /\ pc' \in {"optmode", "readback", "optbyte"}
    BY <1>3 DEF Unlock, OptMode, WriteKeys, targetVars
  <2> QED BY <2>1 DEF Untouched
<1>4. CASE ReadBack
  <2>1. /\ pc = "readback" /\ pc' = "block" /\ UNCHANGED <<mem, busy, i>> /\ Units' = Units
        /\ current' = [b \in Blocks |-> IF b < Units THEN mem[b] ELSE current[b]]
    BY <1>4, UnitsStable DEF ReadBack, targetVars
  <2> QED BY <2>1 DEF Untouched
<1>5. CASE SkipBlock
  <2>1. /\ pc = "block" /\ pc' = "block" /\ UNCHANGED <<mem, busy, cell, current, memtype>> /\ Units' = Units
        /\ i' = i + 1
    BY <1>5, UnitsStable DEF SkipBlock, targetVars
  <2> QED BY <1>0, <2>1 DEF Untouched
<1>6. CASE BlockMode
  <2>1. /\ pc = "block" /\ pc' = "send" /\ UNCHANGED <<mem, busy, cell, current, buf, memtype, i>> /\ Units' = Units
        /\ current[i] # buf[i]
    BY <1>6, UnitsStable DEF BlockMode
  <2> QED BY <1>0, <2>1 DEF Untouched
<1>7. CASE SendBlock
  <2>1. /\ pc = "send" /\ UNCHANGED <<current, memtype>> /\ Units' = Units
        /\ \/ memtype = "RAM" /\ pc' = "block" /\ i' = i + 1
           \/ memtype # "RAM" /\ pc' = "settle" /\ i' = i
    BY <1>7, UnitsStable DEF SendBlock
  <2>2. \/ memtype = "RAM" /\ mem' = [mem EXCEPT ![i] = buf[i]] /\ UNCHANGED <<busy, cell>>
        \/ memtype # "RAM" /\ UNCHANGED <<mem, busy, cell>>
        \/ memtype # "RAM" /\ UNCHANGED mem /\ cell'.blk = i
    BY <1>7 DEF SendBlock, WriteMem
  <2>3. memtype # "OPT"
    BY <2>1 DEF Opened
  <2>4. \A b \in Blocks : b # i \/ memtype # "RAM" => mem'[b] = mem[b]
    BY <1>0, <2>2
  <2>5. busy' > 0 => cell'.blk < i \/ (cell'.blk = i /\ memtype # "RAM")
    BY <2>1, <2>2, <2>3 DEF Untouched
  <2>6. \A b \in Blocks : b \in Int /\ (b < Units /\ b > i => mem'[b] = current[b])
    BY <1>0, <2>1, <2>3, <2>4 DEF Untouched
  <2>7. CASE memtype = "RAM"
    <3>1. busy' > 0 => cell'.blk < i + 1
      BY <1>0, <2>1, <2>2, <2>3, <2>5, <2>7 DEF Untouched
    <3> QED BY <1>0, <2>1, <2>6, <2>7, <3>1 DEF Untouched
  <2>8. CASE memtype # "RAM"
    BY <1>0, <2>1, <2>5, <2>6, <2>8 DEF Untouched
  <2> QED BY <2>7, <2>8
<1>8. CASE SendOptByte
  <2>1. memtype = "OPT" /\ pc' = "settle" /\ UNCHANGED memtype
    BY <1>8 DEF SendOptByte, Opened
  <2> QED BY <2>1 DEF Untouched
<1>9. CASE Settle \/ Wait
  <2>1. /\ pc \in {"settle", "wait"} /\ UNCHANGED <<current, memtype>> /\ Units' = Units /\ Sleep
        /\ \/ pc' \in {"wait", "poll"} /\ i' = i
           \/ pc' = "block" /\ i' = i + 1
    BY <1>9, UnitsStable DEF Settle, Wait
  <2>2. /\ busy' \in Nat /\ (busy' > 0 => busy > 0) /\ cell' = cell
        /\ \A b \in Blocks : busy = 0 \/ b # cell.blk => mem'[b] = mem[b]
    BY <2>1, SleepTouches
  <2>3. cell.blk \in Int /\ \A b \in Blocks : b \in Int
    BY <1>0
  <2>4. CASE memtype = "OPT"
    <3>1. pc' # "send" /\ pc' \notin {"unlock", "optmode", "readback"}
      BY <2>1
    <3> QED BY <2>1, <2>4, <3>1 DEF Untouched
  <2>5. CASE memtype # "OPT"
    <3>1. \A b \in Blocks : b < Units /\ b > i => mem'[b] = current[b]
      BY <1>0, <2>1, <2>2, <2>3, <2>5 DEF Untouched
    <3>2. busy' > 0 => cell.blk <= i
      BY <1>0, <2>1, <2>2, <2>3, <2>5 DEF Untouched
    <3> QED BY <1>0, <2>1, <2>2, <2>3, <2>5, <3>1, <3>2 DEF Untouched
  <2> QED BY <2>4, <2>5
<1>10. CASE PollDone \/ PollAgain
  <2>1. /\ pc = "poll" /\ UNCHANGED <<current, memtype, mem, busy, cell>> /\ Units' = Units
        /\ \/ pc' \in {"block", "optbyte"} /\ i' = i + 1
           \/ pc' = "wait" /\ i' = i
    BY <1>10, UnitsStable DEF PollDone, PollAgain, ReadIapsr
  <2>2. cell.blk \in Int
    BY <1>0
  <2> QED BY <1>0, <2>1, <2>2 DEF Untouched
<1>11. CASE TargetAlone
  <2>1. pc' = pc /\ pc \in Ended
    BY <1>11 DEF TargetAlone, driverVars
  <2> QED BY <2>1 DEF Untouched, Ended
<1>12. CASE UNCHANGED vars
  <2>1. UNCHANGED <<pc, busy, memtype, mem, current, buf, i, cell, len>>
    BY <1>12 DEF vars, targetVars, driverVars
  <2>2. Units' = Units
    BY <2>1, UnitsStable
  <2> QED BY <2>1, <2>2 DEF Untouched
<1> QED BY <1>1, <1>2, <1>3, <1>4, <1>5, <1>6, <1>7, <1>8, <1>9, <1>10, <1>11, <1>12 DEF Next, Step

\* Flash and EEPROM are programmed only where they differ from what is wanted, also when waits
\* ran out (stlinkv2.c:25-29, 501).
THEOREM OnlyDifferences == Spec => OnlyDiffs
<1>1. TInv /\ Opened /\ Untouched /\ [Next]_vars =>
        [memtype # "OPT" /\ busy = 0 /\ busy' > 0 => cell'.data # mem[cell'.blk]]_vars
  <2> SUFFICES ASSUME TInv, Opened, Untouched, [Next]_vars, memtype # "OPT", busy = 0, busy' > 0
               PROVE  cell'.data # mem[cell'.blk]
    OBVIOUS
  <2>1. SendBlock
    <3>1. ~Open /\ ~Unlock /\ ~ResetPart /\ ~Settle /\ ~Wait /\ ~TargetAlone
      BY DEF Open, Unlock, ResetPart, Settle, Wait, TargetAlone, Reset, Sleep, WriteKeys, targetVars
    <3>2. ~SendOptByte
      BY DEF SendOptByte, Opened
    <3>3. ~PollDone /\ ~PollDies /\ ~PollAgain
      BY DEF PollDone, PollDies, PollAgain, ReadIapsr
    <3>4. ~Run /\ ~ReadBack /\ ~SkipBlock /\ ~LoopEnds
      BY DEF Run, ReadBack, SkipBlock, LoopEnds, targetVars
    <3>5. (OptMode => UNCHANGED busy) /\ (BlockMode => UNCHANGED busy) /\ (Relock => UNCHANGED busy)
      BY Zenon DEF OptMode, BlockMode, Relock
    <3>6. ~Close /\ ~SwimError /\ ~(UNCHANGED vars)
      BY DEF Close, SwimError, vars, targetVars
    <3> QED BY <3>1, <3>2, <3>3, <3>4, <3>5, <3>6 DEF Next, Step
  <2>2. cell' = [blk |-> i, data |-> buf[i]]
    BY <2>1 DEF SendBlock, WriteMem
  <2>3. i \in Blocks /\ i < Units
    BY <2>1, UnitsType, TargetAssumption DEF SendBlock, TInv, TypeOK, InLoop, Blocks
  <2>4. buf[i] # current[i] /\ current[i] = mem[i]
    BY <2>1, <2>3 DEF SendBlock, Untouched
  <2> QED BY <2>2, <2>4
<1>2. Init => Opened /\ Untouched
  BY DEF Init, TargetInit, Opened, Untouched
<1> QED BY <1>1, <1>2, OpenedStep, UntouchedStep, TypeInvariant, PTL DEF Spec, OnlyDiffs
-----------------------------------------------------------------------------
(***************************************************************************)
(* The driver and the part implement BlockWriter: each of their steps is a *)
(* step of Promise or changes nothing Promise can see.                     *)
(***************************************************************************)
USE DEF Promise!Cells, Promise!Nobody

\* The initial states map to initial states of BlockWriter.
LEMMA PromiseInit == Init => Promise!Init
BY DEF Init, TargetInit, Promise!Init, Phase, Blocks

\* Every step maps to a step of BlockWriter or changes none of its variables.
LEMMA PromiseStep ==
  ASSUME TInv, TInv', SInv, SInv', ~gaveUp', [Next]_vars
  PROVE  [Promise!Next]_(Promise!bwVars)
<1> DEFINE flying == IF busy = 0 THEN NBlocks ELSE cell.blk
<1>0. /\ NBlocks \in Nat /\ Units \in 0 .. NBlocks /\ Blocks = 0 .. NBlocks - 1
      /\ i \in 0 .. NBlocks /\ busy \in Nat /\ busy' \in Nat
      /\ mem \in [Blocks -> Contents] /\ goal \in [Blocks -> Contents]
      /\ goal' \in [Blocks -> Contents]
      /\ pc \in {"send", "settle", "wait", "poll"} => i < Units
  BY UnitsType, TargetAssumption DEF TInv, InLoop, TypeOK, TargetTypeOK, Blocks
<1>1. CASE Run
  <2>1. Promise!Ask
    BY <1>1 DEF Run, targetVars, Ended, Promise!Ask, Phase
  <2> QED BY <2>1 DEF Promise!Next
<1>2. CASE Open
  <2>1. Phase = "asked" /\ Phase' = "writing" /\ i' = 0 /\ busy' = 0
    BY <1>2 DEF Open, Reset, Phase
  <2>2. IF flying = NBlocks THEN UNCHANGED mem
        ELSE \E v \in Contents : mem' = [mem EXCEPT ![flying] = v]
    BY <1>0, <1>2 DEF Open, Reset, SInv, Flying
  <2>3. Promise!Begin
    BY <1>0, <2>1, <2>2 DEF Promise!Begin
  <2> QED BY <2>3 DEF Promise!Next
<1>3. CASE Unlock \/ OptMode \/ ReadBack \/ BlockMode \/ PollAgain \/ LoopEnds \/ Relock
  <2>1. UNCHANGED <<mem, goal, i, busy, cell>>
    BY <1>3, Zenon DEF Unlock, OptMode, ReadBack, BlockMode, PollAgain, LoopEnds, Relock, ReadIapsr,
                       WriteKeys, targetVars
  <2>2. Phase = "writing" /\ Phase' = "writing"
    BY <1>3 DEF Unlock, OptMode, ReadBack, BlockMode, PollAgain, LoopEnds, Relock, Phase
  <2> QED BY <2>1, <2>2 DEF Promise!bwVars
<1>4. CASE SkipBlock
  <2>1. /\ busy = 0 /\ i < Units /\ mem[i] = goal[i] /\ i' = i + 1
        /\ UNCHANGED <<mem, goal, busy, cell>>
    BY <1>0, <1>4 DEF SkipBlock, targetVars, SInv, AtUnit, Loop, Paths
  <2>2. Phase = "writing" /\ Phase' = "writing"
    BY <1>4 DEF SkipBlock, Phase
  <2>3. Promise!Skip
    BY <1>0, <2>1, <2>2 DEF Promise!Skip
  <2> QED BY <2>3 DEF Promise!Next
<1>5. CASE SendBlock \/ SendOptByte
  <2>1. /\ busy = 0 /\ i < Units /\ i \in Blocks /\ buf[i] = goal[i] /\ UNCHANGED goal
        /\ WriteMem(i, goal[i])
        /\ i' = IF memtype = "RAM" THEN i + 1 ELSE i
    BY <1>0, <1>5 DEF SendBlock, SendOptByte, SInv, AtUnit, Loop, Paths
  <2>2. Phase = "writing" /\ Phase' = "writing"
    BY <1>5 DEF SendBlock, SendOptByte, Phase
  <2>3. CASE memtype = "RAM"
    <3>1. mem' = [mem EXCEPT ![i] = goal[i]] /\ busy' = 0
      BY <2>1, <2>3 DEF WriteMem
    <3>2. Promise!Store
      BY <1>0, <2>1, <2>2, <2>3, <3>1 DEF Promise!Store
    <3> QED BY <3>2 DEF Promise!Next
  <2>4. CASE memtype # "RAM" /\ busy' # 0
    <3>1. cell' = [blk |-> i, data |-> goal[i]] /\ UNCHANGED mem
      BY <2>1, <2>4 DEF WriteMem
    <3>2. Promise!Start
      BY <1>0, <2>1, <2>2, <2>4, <3>1 DEF Promise!Start
    <3> QED BY <3>2 DEF Promise!Next
  <2>5. CASE memtype # "RAM" /\ busy' = 0
    <3>1. UNCHANGED mem
      BY <2>5, <2>1 DEF WriteMem
    <3> QED BY <2>1, <2>2, <2>5, <3>1 DEF Promise!bwVars
  <2> QED BY <2>3, <2>4, <2>5
<1>6. CASE Settle \/ Wait \/ TargetAlone
  <2>1. Sleep /\ UNCHANGED <<goal, i>>
    <3>1. CASE Wait
      BY <3>1 DEF Wait
    <3>2. CASE Settle \/ TargetAlone
      BY <3>2 DEF Settle, TargetAlone, driverVars
    <3> QED BY <1>6, <3>1, <3>2
  <2>2. Phase' = Phase
    BY <1>6 DEF Settle, Wait, TargetAlone, driverVars, Phase
  <2>3. CASE busy = 1
    <3>1. mem' = [mem EXCEPT ![i] = goal[i]] /\ busy' = 0 /\ cell.blk = i /\ i \in Blocks
      BY <2>1, <2>3, Landing DEF SInv, Flying
    <3>2. Phase \in {"writing", "failed"}
      BY <1>6, <2>3 DEF Settle, Wait, TargetAlone, Ended, Phase, SInv, Finished
    <3>3. Promise!Land
      BY <1>0, <2>1, <2>2, <2>3, <3>1, <3>2 DEF Promise!Land
    <3> QED BY <3>3 DEF Promise!Next
  <2>4. CASE busy # 1
    <3>1. UNCHANGED <<mem, cell>> /\ (busy = 0 <=> busy' = 0)
      BY <1>0, <2>1, <2>4 DEF Sleep
    <3> QED BY <2>1, <2>2, <3>1 DEF Promise!bwVars
  <2> QED BY <2>3, <2>4
<1>7. CASE PollDone
  <2>1. /\ busy = 0 /\ i < Units /\ mem[i] = goal[i] /\ i' = i + 1
        /\ UNCHANGED <<mem, goal, busy, cell>>
    BY <1>0, <1>7 DEF PollDone, ReadIapsr, SInv, Waiting
  <2>2. Phase = "writing" /\ Phase' = "writing"
    BY <1>7 DEF PollDone, Phase
  <2>3. Promise!Skip
    BY <1>0, <2>1, <2>2 DEF Promise!Skip
  <2> QED BY <2>3 DEF Promise!Next
<1>8. CASE ResetPart
  <2>1. UNCHANGED <<mem, goal, i>> /\ busy = 0 /\ busy' = 0
    BY <1>8 DEF ResetPart, Reset, SInv, Finished
  <2>2. Phase = "writing" /\ Phase' = "writing"
    BY <1>8 DEF ResetPart, Phase
  <2> QED BY <2>1, <2>2 DEF Promise!bwVars
<1>9. CASE Close
  <2>1. mem = goal /\ busy = 0 /\ UNCHANGED <<mem, goal, i, busy, cell>>
    BY <1>9 DEF Close, targetVars, SInv, Finished
  <2>2. Phase = "writing" /\ Phase' = "ok"
    BY <1>9 DEF Close, Phase
  <2>3. Promise!Answer
    BY <2>1, <2>2 DEF Promise!Answer
  <2> QED BY <2>3 DEF Promise!Next
<1>10. CASE PollDies \/ SwimError
  <2>1. UNCHANGED <<mem, goal, i, busy, cell>>
    BY <1>10 DEF PollDies, SwimError, ReadIapsr, targetVars
  <2>2. Phase \in {"asked", "writing"} /\ Phase' = "failed"
    BY <1>10 DEF PollDies, SwimError, Active, Phase
  <2>3. Promise!Die
    BY <2>1, <2>2 DEF Promise!Die
  <2> QED BY <2>3 DEF Promise!Next
<1>11. CASE UNCHANGED vars
  BY <1>11 DEF vars, targetVars, driverVars, Promise!bwVars, Phase
<1> QED BY <1>1, <1>2, <1>3, <1>4, <1>5, <1>6, <1>7, <1>8, <1>9, <1>10, <1>11 DEF Next, Step

\* The WRITE command through an ST-Link/V2 implements BlockWriter.
THEOREM Implements ==
  ASSUME PromptPart
  PROVE  Spec => KeepsPromise
<1>1. Init => Promise!Init
  BY PromiseInit
<1>2. /\ TInv /\ TInv' /\ SInv /\ SInv' /\ Timely' /\ [Next]_vars
      => [Promise!Next]_(Promise!bwVars)
  BY PromiseStep DEF Timely
<1> QED BY <1>1, <1>2, PromptInvariant, PTL DEF Spec, KeepsPromise, Promise!Spec
=============================================================================
