---------------------------- MODULE Stlink2Write ----------------------------
(***************************************************************************)
(* One memory area of a part written through an ST-Link/V2: the WRITE      *)
(* branch of main (main.c) around stlink2_swim_write_range (stlinkv2.c),   *)
(* against the target of Stm8Target. A behaviour is a sequence of          *)
(* invocations of the tool on one part: each opens the probe, writes an    *)
(* image, resets the part and ends, or dies in exit(-1) between any two    *)
(* SWIM commands and leaves the part as it is.                             *)
(*                                                                         *)
(* Addresses are pairs of a programming unit and an offset: the image      *)
(* starts on a block boundary, the only start the driver supports          *)
(* (stlinkv2.c:541). Register writes that follow each other with nothing   *)
(* in between that could see them are one step; dying between them leaves  *)
(* a part that refuses to program, as dying before them does.              *)
(*                                                                         *)
(* Bounds: MaxRuns invocations. Retries is the code's own constant.        *)
(***************************************************************************)
EXTENDS Stm8Target

CONSTANT MaxRuns

ASSUME RunsAssumption == MaxRuns \in Nat

VARIABLES
  pc,       \* where the invocation is; "done" and "failed" end it
  len,      \* bytes_to_write
  buf,      \* the aligned buffer of main, zero-filled behind the image
  current,  \* what the driver read back from the blocks it will write
  i,        \* the unit the loop is at
  retries,  \* polls of FLASH_IAPSR left
  gaveUp,   \* history: one of its waits for EOP ended without EOP and without an error
  old,      \* history: the area when the last invocation had opened the probe
  goal,     \* history: what the area must hold when that invocation reports OK
  runs      \* history: invocations started, bounded by MaxRuns

driverVars == <<pc, len, buf, current, i, retries, gaveUp, old, goal, runs>>
vars == <<memtype, targetVars, driverVars>>

\* Fault: one attempt less.
FourTries == 4

Retries == 5

Ended  == {"idle", "done", "failed"}
Active == {"open", "unlock", "optmode", "readback", "block", "send", "optbyte",
           "settle", "wait", "poll", "relock", "reset", "close"}

\* Bytes of the area.
Capacity == NBlocks * BlockSize

\* Bytes of the image, and the units they reach: the rounding of the driver, which in
\* its unsigned arithmetic gives no block at all for an empty image.
InFile(b, o) == b * BlockSize + o < len
Units == IF len = 0 THEN 0 ELSE (len - 1) \div BlockSize + 1

\* Fault: the bytes behind the image are not taken over.
TailDropped(read) == buf

\* memcpy(buffer + length, current + length, rounded_size - length).
MergedTail(read) ==
  [b \in Blocks |-> [o \in Offsets |->
     IF ~InFile(b, o) /\ b < Units THEN read[b][o] ELSE buf[b][o]]]
Overlay(area) ==
  [b \in Blocks |-> [o \in Offsets |-> IF InFile(b, o) THEN buf[b][o] ELSE area[b][o]]]

\* Fault: only the first byte of the block is looked at.
FirstByteEmpty(c) == IF c[0] = Empty THEN "fast" ELSE "std"

\* Fast programming only where the block was read back as empty.
PrgMode(c) == IF \A o \in Offsets : c[o] = Empty THEN "fast" ELSE "std"

\* Fault: the keys of the data areas come in the order of the flash.
OneOrder == IF memtype = "FLASH" THEN <<"PUKR", <<"56", "AE">>>> ELSE <<"DUKR", <<"56", "AE">>>>

\* The key register and the order of the keys for the area.
AreaKeys == IF memtype = "FLASH" THEN <<"PUKR", <<"56", "AE">>>> ELSE <<"DUKR", <<"AE", "56">>>>

TypeOK ==
  /\ TargetTypeOK
  /\ pc \in Ended \union Active
  /\ len \in 0 .. Capacity
  /\ buf \in [Blocks -> Contents]
  /\ current \in [Blocks -> Contents]
  /\ i \in 0 .. NBlocks
  /\ retries \in 0 .. Retries
  /\ gaveUp \in BOOLEAN
  /\ old \in [Blocks -> Contents]
  /\ goal \in [Blocks -> Contents]
  /\ runs \in 0 .. MaxRuns

Blank == [b \in Blocks |-> [o \in Offsets |-> Empty]]

Init ==
  /\ TargetInit
  /\ pc = "idle" /\ len = 0 /\ i = 0 /\ retries = 0 /\ gaveUp = FALSE /\ runs = 0
  /\ buf = Blank /\ current = Blank /\ old = mem /\ goal = mem
-----------------------------------------------------------------------------
\* A new invocation of the tool with an image of n bytes.
Run ==
  /\ pc \in Ended /\ runs < MaxRuns
  /\ \E n \in 0 .. Capacity : \E f \in [Blocks -> Contents] :
       /\ \A b \in Blocks, o \in Offsets : b * BlockSize + o >= n => f[b][o] = Empty
       /\ len' = n /\ buf' = f
  /\ pc' = "open" /\ runs' = runs + 1 /\ current' = Blank
  /\ UNCHANGED <<memtype, targetVars, i, retries, gaveUp, old, goal>>

\* stlink2_open: the part is held in reset, SWIM is entered, the reset is released.
Open ==
  /\ pc = "open"
  /\ Reset
  /\ pc' = "unlock" /\ i' = 0 /\ retries' = 0
  /\ old' = mem' /\ goal' = Overlay(mem') /\ gaveUp' = FALSE
  /\ UNCHANGED <<memtype, len, buf, current, runs>>

\* The MASS keys of the area; RAM needs none. The clock divider (stlinkv2.c:459), which is set
\* before them, is left out: no clock is modelled.
Unlock ==
  /\ pc = "unlock"
  /\ IF memtype = "RAM" THEN UNCHANGED targetVars ELSE WriteKeys(AreaKeys[1], AreaKeys[2])
  /\ pc' = IF memtype = "OPT" THEN "optmode" ELSE "readback"
  /\ UNCHANGED <<memtype, len, buf, current, i, retries, gaveUp, old, goal, runs>>

\* Option programming mode.
OptMode ==
  /\ pc = "optmode"
  /\ mode' = SelectedMode("opt", TRUE)
  /\ pc' = "optbyte"
  /\ UNCHANGED <<memtype, mem, iapsr, stall, busy, cell, len, buf, current, i, retries, gaveUp, old, goal, runs>>

\* The blocks that will be written are read, and their bytes behind the image kept.
ReadBack ==
  /\ pc = "readback"
  /\ current' = [b \in Blocks |-> IF b < Units THEN mem[b] ELSE current[b]]
  /\ buf' = MergedTail(current')
  /\ pc' = "block"
  /\ UNCHANGED <<memtype, targetVars, len, i, retries, gaveUp, old, goal, runs>>

\* Fault: the loop is continued without its increment.
SkipWithoutStep ==
  /\ pc = "block" /\ i < Units /\ current[i] = buf[i]
  /\ UNCHANGED vars

\* A block that already holds what is wanted is skipped.
SkipBlock ==
  /\ pc = "block" /\ i < Units /\ current[i] = buf[i]
  /\ i' = i + 1
  /\ UNCHANGED <<memtype, targetVars, pc, len, buf, current, retries, gaveUp, old, goal, runs>>

\* Fault: blocks are programmed whether they differ or not.
WriteAll ==
  /\ pc = "block" /\ i < Units
  /\ IF memtype = "RAM"
       THEN UNCHANGED <<stall, mode>>
       ELSE stall' = TRUE /\ mode' = SelectedMode(PrgMode(current[i]), TRUE)
  /\ pc' = "send"
  /\ UNCHANGED <<memtype, mem, iapsr, busy, cell, len, buf, current, i, retries, gaveUp, old, goal, runs>>

\* The CPU is stalled and the block mode selected.
BlockMode ==
  /\ pc = "block" /\ i < Units /\ current[i] # buf[i]
  /\ IF memtype = "RAM"
       THEN UNCHANGED <<stall, mode>>
       ELSE stall' = TRUE /\ mode' = SelectedMode(PrgMode(current[i]), TRUE)
  /\ pc' = "send"
  /\ UNCHANGED <<memtype, mem, iapsr, busy, cell, len, buf, current, i, retries, gaveUp, old, goal, runs>>

\* Fault: only flash is waited for.
WaitsForFlashOnly ==
  /\ pc = "send"
  /\ WriteMem(i, buf[i])
  /\ IF memtype # "FLASH"
       THEN pc' = "block" /\ i' = i + 1 /\ retries' = retries
       ELSE pc' = "settle" /\ i' = i /\ retries' = Retries
  /\ UNCHANGED <<memtype, len, buf, current, gaveUp, old, goal, runs>>

\* Fault: nothing is waited for.
NoWait ==
  /\ pc = "send"
  /\ WriteMem(i, buf[i])
  /\ pc' = "block" /\ i' = i + 1
  /\ UNCHANGED <<memtype, len, buf, current, retries, gaveUp, old, goal, runs>>

\* The block is transferred; only RAM needs no waiting.
SendBlock ==
  /\ pc = "send"
  /\ WriteMem(i, buf[i])
  /\ IF memtype = "RAM"
       THEN pc' = "block" /\ i' = i + 1 /\ retries' = retries
       ELSE pc' = "settle" /\ i' = i /\ retries' = Retries
  /\ UNCHANGED <<memtype, len, buf, current, gaveUp, old, goal, runs>>

\* An option byte is written without a look at its old value.
SendOptByte ==
  /\ pc = "optbyte" /\ i < Units
  /\ WriteMem(i, buf[i])
  /\ pc' = "settle" /\ retries' = Retries
  /\ UNCHANGED <<memtype, len, buf, current, i, gaveUp, old, goal, runs>>

\* usleep(6000) or usleep(3000) after the transfer. TRY sleeps again before it looks.
Settle ==
  /\ pc = "settle"
  /\ Sleep
  /\ pc' = IF memtype = "OPT" THEN "wait" ELSE "poll"
  /\ UNCHANGED <<memtype, len, buf, current, i, retries, gaveUp, old, goal, runs>>

\* Fault: a lock bit is taken for EOP.
AnyBit ==
  /\ pc = "poll" /\ iapsr # {}
  /\ ReadIapsr
  /\ pc' = IF memtype = "OPT" THEN "optbyte" ELSE "block"
  /\ i' = i + 1
  /\ UNCHANGED <<memtype, len, buf, current, retries, gaveUp, old, goal, runs>>

\* FLASH_IAPSR shows EOP: on to the next unit.
PollDone ==
  /\ pc = "poll" /\ "EOP" \in iapsr
  /\ ReadIapsr
  /\ pc' = IF memtype = "OPT" THEN "optbyte" ELSE "block"
  /\ i' = i + 1
  /\ UNCHANGED <<memtype, len, buf, current, retries, gaveUp, old, goal, runs>>

\* No EOP: the block loop dies on WR_PG_DIS, TRY dies after its last attempt.
PollDies ==
  /\ pc = "poll" /\ "EOP" \notin iapsr
  /\ IF memtype = "OPT" THEN retries = 1 ELSE "WR_PG_DIS" \in iapsr
  /\ ReadIapsr
  /\ pc' = "failed"
  /\ UNCHANGED <<memtype, len, buf, current, i, retries, gaveUp, old, goal, runs>>

\* Fault: attempts are not counted.
EndlessTries ==
  /\ pc = "poll" /\ "EOP" \notin iapsr
  /\ IF memtype = "OPT" THEN retries > 1 ELSE "WR_PG_DIS" \notin iapsr
  /\ ReadIapsr
  /\ pc' = "wait"
  /\ UNCHANGED <<memtype, len, buf, current, i, retries, gaveUp, old, goal, runs>>

\* No EOP yet, and attempts are left.
PollAgain ==
  /\ pc = "poll" /\ "EOP" \notin iapsr
  /\ IF memtype = "OPT" THEN retries > 1 ELSE "WR_PG_DIS" \notin iapsr
  /\ ReadIapsr
  /\ pc' = "wait" /\ retries' = retries - 1
  /\ UNCHANGED <<memtype, len, buf, current, i, gaveUp, old, goal, runs>>

\* Fault: while (retries >= 0).
OneTryTooMany ==
  /\ pc = "wait"
  /\ Sleep
  /\ IF retries < 0
       THEN pc' = "block" /\ i' = i + 1 /\ gaveUp' = TRUE
       ELSE pc' = "poll" /\ i' = i /\ gaveUp' = gaveUp
  /\ UNCHANGED <<memtype, len, buf, current, retries, old, goal, runs>>

\* usleep(10000). When the block loop has no attempt left it falls out of the wait and
\* goes on with the next block.
Wait ==
  /\ pc = "wait"
  /\ Sleep
  /\ IF retries = 0
       THEN pc' = "block" /\ i' = i + 1 /\ gaveUp' = TRUE
       ELSE pc' = "poll" /\ i' = i /\ gaveUp' = gaveUp
  /\ UNCHANGED <<memtype, len, buf, current, retries, old, goal, runs>>

LoopEnds ==
  /\ pc \in {"block", "optbyte"} /\ i >= Units
  /\ pc' = "relock"
  /\ UNCHANGED <<memtype, targetVars, len, buf, current, i, retries, gaveUp, old, goal, runs>>

\* DUL and PUL are reset: FLASH_IAPSR is read and written back without them.
Relock ==
  /\ pc = "relock"
  /\ IF memtype = "RAM" THEN UNCHANGED iapsr
                     ELSE iapsr' = AfterIapsrWrite(iapsr \ EventBits, iapsr \ LockBits)
  /\ pc' = "reset"
  /\ UNCHANGED <<memtype, mem, mode, stall, busy, cell, len, buf, current, i, retries, gaveUp, old, goal, runs>>

\* pgm->reset, then "OK" and the number of bytes are printed.
ResetPart ==
  /\ pc = "reset"
  /\ Reset
  /\ pc' = "close"
  /\ UNCHANGED <<memtype, len, buf, current, i, retries, gaveUp, old, goal, runs>>

Close ==
  /\ pc = "close"
  /\ pc' = "done"
  /\ UNCHANGED <<memtype, targetVars, len, buf, current, i, retries, gaveUp, old, goal, runs>>

\* A USB transfer falls short or a SWIM command never gets ready: exit(-1), nothing is
\* undone. The command before may or may not have had its effect.
SwimError ==
  /\ pc \in Active
  /\ pc' = "failed"
  /\ UNCHANGED <<memtype, targetVars, len, buf, current, i, retries, gaveUp, old, goal, runs>>

\* Without a host, a programming that was started runs on.
TargetAlone ==
  /\ pc \in Ended /\ busy > 0
  /\ Sleep
  /\ UNCHANGED <<memtype, driverVars>>

\* The tool goes on: what it does when the link works.
Step == \/ Open \/ Unlock \/ OptMode \/ ReadBack \/ SkipBlock \/ BlockMode \/ SendBlock
        \/ SendOptByte \/ Settle \/ PollDone \/ PollDies \/ PollAgain \/ Wait
        \/ LoopEnds \/ Relock \/ ResetPart \/ Close

Next == Run \/ Step \/ SwimError \/ TargetAlone

Spec == Init /\ [][Next]_vars
FairSpec == Spec /\ WF_vars(Step)
-----------------------------------------------------------------------------
(***************************************************************************)
(* Properties. Once a wait for EOP has run out (gaveUp) the driver goes on *)
(* without knowing what the part does, and until the next invocation opens *)
(* the part nothing below is promised but its types and its end. A part    *)
(* that programs within the five looks (PromptPart) never gets there.      *)
(***************************************************************************)
PromptPart == ProgTime \subseteq 1 .. Retries

\* An invocation that printed OK has left the area as the image asks: the bytes of the
\* image are in place, and every other byte of the area is what it was before, the bytes
\* of the last block behind the image included.
WrittenOK == pc \in {"close", "done"} /\ ~gaveUp => mem = goal

\* Wherever an invocation is or has died, the units before the one it is at hold what was
\* wanted and the units behind it what they held before: a crash can leave one unit, at
\* most, in a state that is neither.
PrefixDone ==
  ~gaveUp => /\ \A b \in Blocks : b < i => mem[b] = goal[b]
             /\ \A b \in Blocks : b > i => mem[b] = old[b]

\* Fast block programming, which does not erase, is under way only for a block whose cells
\* are all empty (the comment at stlinkv2.c:505-509), also after a run that died and left
\* the controller in a block mode.
FastOnlyOnEmpty ==
  busy > 0 /\ mode = "fast" /\ ~gaveUp => \A o \in Offsets : mem[cell.blk][o] = Empty

\* The driver never transfers data to a controller that is still programming, which would
\* drop it.
ReadyToSend == pc \in {"send", "optbyte"} /\ ~gaveUp => busy = 0

\* Whenever a unit of flash, EEPROM or option bytes is about to be sent the lock of its area is
\* open, a mode is selected and, for a block, the CPU stalled: the keys and the mode of the
\* beginning survive all polls of FLASH_IAPSR, the ends of all units and waits that ran out.
Prepared ==
  pc \in {"send", "optbyte"} /\ memtype # "RAM" =>
    /\ AreaLock \in iapsr /\ mode \in (IF memtype = "OPT" THEN {"opt"} ELSE {"std", "fast"})
    /\ memtype # "OPT" => stall

\* Only blocks of flash and EEPROM that differ are programmed, these memories wear
\* (stlinkv2.c:25-29), waits that ran out or not. Option bytes are written without a look.
OnlyDiffs ==
  [][memtype # "OPT" /\ busy = 0 /\ busy' > 0 => cell'.data # mem[cell'.blk]]_vars

\* The EOP a poll takes for the end of a unit is that unit's: the unit holds its data.
OwnEop == [][PollDone /\ ~gaveUp => mem[i] = buf[i]]_vars

\* A wait for EOP that never saw it is not passed over in silence: stlinkv2.c:551 promises
\* "a better error message than 'tries exceeded'" for the block loop, and TRY has one.
TimeoutIsReported == pc = "done" => ~gaveUp

\* An invocation that got as far as opening the part ends: no wait of the driver is unbounded.
Termination == pc = "open" ~> pc \in {"done", "failed"}

\* What the WRITE command promises, in BlockWriter's words.
Phase == CASE pc = "idle" -> "ok"
           [] pc = "open" -> "asked"
           [] pc = "done" -> "ok"
           [] pc = "failed" -> "failed"
           [] OTHER -> "writing"

Promise == INSTANCE BlockWriter WITH
  NUnits <- NBlocks, Values <- Contents, area <- mem, wanted <- goal, next <- i,
  flying <- IF busy = 0 THEN NBlocks ELSE cell.blk, phase <- Phase

\* The driver and the part together keep that promise.
KeepsPromise == Promise!Spec
=============================================================================
