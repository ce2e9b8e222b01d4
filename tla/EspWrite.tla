------------------------------ MODULE EspWrite ------------------------------
(***************************************************************************)
(* One WRITE through an esp-stlink: espstlink_swim_write_range with its    *)
(* open and reset (espstlink.c), the command and answer protocol over the  *)
(* serial line (libespstlink.c), and the target of Stm8Target behind it.   *)
(*                                                                         *)
(* The serial line is a stream of bytes with no framing but the command    *)
(* byte that every answer repeats. A read of the host gives up after 0.1   *)
(* seconds, the device knows nothing of that, and its answer arrives when  *)
(* the host may be waiting for another one. What a command does to the     *)
(* part happens when the device gets to it.                                *)
(*                                                                         *)
(* Bytes of commands, states and registers have their values where the     *)
(* host compares them; the length and address that an answer repeats, and  *)
(* that no one looks at, are one byte Header. Units are of one byte.       *)
(* Register writes of a group that fail or succeed together (two keys, CR2 *)
(* with NCR2) are one command. Bound: MaxFaults answers that are late or   *)
(* tell an error.                                                          *)
(***************************************************************************)
EXTENDS Stm8Target, Sequences

CONSTANT MaxFaults

ASSUME EspAssumption ==
  /\ BlockSize = 1 /\ Byte \subseteq 0 .. 255
  /\ MaxFaults \in Nat

VARIABLES
  pc,          \* the call site of the driver
  asked,       \* the command whose answer is awaited, or NoCommand
  toDevice,    \* commands the device has not got to
  fromDevice,  \* bytes that arrived and were not read
  version,     \* of the device, while it is opened
  len, buf, current, i, retries,
  faults,      \* answers so far that came late or told an error
  late,        \* history: the host gave up on an answer
  blind,       \* history: a unit was taken as done on a failed read
  unread,      \* history: the existing contents could not be read
  old, goal    \* history: the area at the start, and what is wanted of it

lineVars   == <<asked, toDevice, fromDevice, faults, late>>
driverVars == <<version, len, buf, current, i, retries, blind, unread, old, goal>>
vars == <<memtype, targetVars, pc, lineVars, driverVars>>

\* Fault: fewer attempts than the part may need.
ThreeTries == 3

Tries == 5

\* Command bytes, states of an answer, and the byte that stands for length and address.
Srst == 0
Read == 1
Write == 2
HardReset == 253
SwimEntry == 254
GetVersion == 255
Success == 0
Failure == 255
Header == 64

\* Values of FLASH_CR2 and the modes they select.
Std  == 1
Fast == 16
Opt  == 128
ModeOf(v) == IF v = Std THEN "std" ELSE IF v = Fast THEN "fast" ELSE "opt"

Command(op, reg, arg, n) == [op |-> op, reg |-> reg, arg |-> arg, n |-> n]
NoCommand == Command(Srst, "none", 0, 0)

EmptyUnit == [o \in Offsets |-> Empty]
\* History: what the image asks of the area.
Overlay(area) == [b \in Blocks |-> IF b < len THEN buf[b] ELSE area[b]]

\* Fault: length and address of an access to memory are forgotten.
DataOnly(c) ==
  CASE c.op \in {Srst, HardReset} -> 0
    [] c.op \in {Read, Write} -> c.n
    [] OTHER -> 1 + c.n

\* The bytes of an answer behind its state.
Payload(c) == IF c.op \in {Srst, HardReset} THEN 0 ELSE 1 + c.n

\* FLASH_IAPSR as a byte.
IapsrByte == (IF "DUL" \in iapsr THEN 8 ELSE 0) + (IF "EOP" \in iapsr THEN 4 ELSE 0)
             + (IF "PUL" \in iapsr THEN 2 ELSE 0) + (IF "WR_PG_DIS" \in iapsr THEN 1 ELSE 0)
Bit(v, mask) == (v \div mask) % 2 = 1

AreaKeys == IF memtype = "FLASH" THEN <<"PUKR", <<"56", "AE">>>> ELSE <<"DUKR", <<"AE", "56">>>>

Init ==
  /\ TargetInit
  /\ pc = "open" /\ asked = NoCommand /\ toDevice = <<>> /\ fromDevice = <<>>
  /\ faults = 0 /\ late = FALSE /\ blind = FALSE /\ unread = FALSE
  /\ len \in 0 .. NBlocks
  /\ buf \in {f \in [Blocks -> Contents] : \A b \in Blocks : b >= len => f[b] = EmptyUnit}
  /\ current = [b \in Blocks |-> EmptyUnit] /\ version = 0 /\ i = 0 /\ retries = 0
  /\ old = mem /\ goal = Overlay(mem)
-----------------------------------------------------------------------------
(***************************************************************************)
(* The device: it does what the commands say, in order.                    *)
(***************************************************************************)
AnswerTo(c, data) == <<c.op, Success>> \o (IF c.op \in {Srst, HardReset} THEN <<>> ELSE <<Header>>) \o data

\* Versions of the firmware: without a reset pin, with one, and one the tool does not know.
Versions == 0 .. 2

RegisterWrite(c) ==
  \/ c.reg = "KEYS" /\ WriteKeys(AreaKeys[1], AreaKeys[2])
  \/ c.reg = "DM_CSR2" /\ stall' = (c.arg = 8) /\ UNCHANGED <<mem, iapsr, mode, busy, cell>>
  \/ c.reg = "CR2" /\ mode' = SelectedMode(ModeOf(c.arg), TRUE) /\ UNCHANGED <<mem, iapsr, stall, busy, cell>>
  \/ c.reg = "IAPSR" /\ iapsr' = AfterIapsrWrite(iapsr, {}) /\ UNCHANGED <<mem, mode, stall, busy, cell>>
  \/ c.reg = "SWIM_CSR" /\ UNCHANGED targetVars
  \/ c.reg = "MEM" /\ WriteMem(c.arg, buf[c.arg])

DeviceRuns ==
  /\ toDevice # <<>>
  /\ LET c == Head(toDevice) IN
       \/ /\ c.op \in {GetVersion, SwimEntry} /\ UNCHANGED targetVars
          /\ \E v \in Versions : fromDevice' = fromDevice \o AnswerTo(c, <<v>>)
       \/ /\ c.op = HardReset /\ fromDevice' = fromDevice \o AnswerTo(c, <<>>)
          /\ IF c.arg = 1 THEN Reset ELSE UNCHANGED targetVars
       \/ c.op = Srst /\ Reset /\ fromDevice' = fromDevice \o AnswerTo(c, <<>>)
       \/ c.op = Write /\ RegisterWrite(c) /\ fromDevice' = fromDevice \o AnswerTo(c, <<>>)
       \/ /\ c.op = Read /\ c.reg = "IAPSR" /\ ReadIapsr
          /\ fromDevice' = fromDevice \o AnswerTo(c, <<IapsrByte>>)
       \/ /\ c.op = Read /\ c.reg = "DM_CSR2" /\ UNCHANGED targetVars
          /\ fromDevice' = fromDevice \o AnswerTo(c, <<IF stall THEN 8 ELSE 0>>)
       \/ /\ c.op = Read /\ c.reg = "MEM" /\ UNCHANGED targetVars
          /\ fromDevice' = fromDevice \o AnswerTo(c, [k \in 1 .. c.n |-> mem[k - 1][0]])
  /\ toDevice' = Tail(toDevice)
  /\ UNCHANGED <<memtype, pc, asked, faults, late, driverVars>>

\* SWIM failed: the part saw nothing of the command.
DeviceFails ==
  /\ toDevice # <<>> /\ faults < MaxFaults
  /\ fromDevice' = fromDevice \o <<Head(toDevice).op, Failure, 255, 252>>
  /\ toDevice' = Tail(toDevice) /\ faults' = faults + 1
  /\ UNCHANGED <<memtype, targetVars, pc, asked, late, driverVars>>
-----------------------------------------------------------------------------
(***************************************************************************)
(* error_check: what the host makes of the bytes that are there. An answer *)
(* that is not complete is waited for until the read gives up, and what    *)
(* there was of it is gone.                                                *)
(***************************************************************************)
Complete(c, s) ==
  /\ Len(s) >= 1
  /\ s[1] = c.op => /\ Len(s) >= 2
                    /\ s[2] = Success => Len(s) >= 2 + Payload(c)
                    /\ s[2] = Failure => Len(s) >= 4

\* Every read of the payload asks for all of it again: when the first one fell short, the
\* next one may take bytes that come after the answer.
Overread(c, s) ==
  {x \in 0 .. Payload(c) : x = 0 \/ (x < Payload(c) /\ 2 + Payload(c) + x <= Len(s))}

Verdict(ok, data, rest, isLate) == [ok |-> ok, data |-> data, rest |-> rest, late |-> isLate]

Verdicts(c, s) ==
  IF ~Complete(c, s) THEN {Verdict(FALSE, <<>>, <<>>, TRUE)}
  ELSE IF s[1] = c.op /\ s[2] = Success
    THEN {Verdict(TRUE, SubSeq(s, 4, 2 + Payload(c)), SubSeq(s, 3 + Payload(c) + x, Len(s)), FALSE)
            : x \in Overread(c, s)}
  ELSE IF s[1] = c.op /\ s[2] = Failure THEN {Verdict(FALSE, <<>>, SubSeq(s, 5, Len(s)), FALSE)}
  ELSE {Verdict(FALSE, <<>>, <<>>, FALSE)}

\* The driver asks the device for c.
Ask(c) ==
  /\ asked = NoCommand
  /\ asked' = c /\ toDevice' = Append(toDevice, c)
  /\ UNCHANGED <<memtype, targetVars, pc, fromDevice, faults, late, driverVars>>

\* The verdict v on what it asked for. The host gives up where it must, or by a fault.
Hear(v) ==
  /\ asked # NoCommand /\ v \in Verdicts(asked, fromDevice)
  /\ v.late => toDevice = <<>> \/ faults < MaxFaults
  /\ asked' = NoCommand /\ fromDevice' = v.rest
  /\ late' = (late \/ v.late)
  /\ faults' = IF v.late /\ toDevice # <<>> THEN faults + 1 ELSE faults
  /\ UNCHANGED <<memtype, targetVars, toDevice>>

Heard == {v \in Verdicts(asked, fromDevice) : asked # NoCommand}
-----------------------------------------------------------------------------
(***************************************************************************)
(* The driver: what it asks at each of its call sites, and how it goes on. *)
(***************************************************************************)
\* Fault: every block is taken for an empty one.
AlwaysFast(c) == Fast

PrgMode(c) == IF c = EmptyUnit THEN Fast ELSE Std

\* Two keys are one command here, and so are FLASH_CR2 and its complement: the lock opens and
\* the mode is selected by the second of the two only, so that one that fails fails both, and the
\* second key is not sent behind a first that failed (espstlink.c:79-84).
Request ==
  CASE pc = "version"  -> Command(GetVersion, "none", 0, 1)
    [] pc = "hold"     -> Command(HardReset, "none", 1, 0)
    [] pc = "entry"    -> Command(SwimEntry, "none", 0, 1)
    [] pc = "swimcsr"  -> Command(Write, "SWIM_CSR", 0, 0)
    [] pc \in {"release", "giveup"} -> Command(HardReset, "none", 0, 0)
    [] pc \in {"csr", "unstallR"} -> Command(Read, "DM_CSR2", 0, 1)
    [] pc = "stall"    -> Command(Write, "DM_CSR2", 8, 0)
    [] pc = "keys"     -> Command(Write, "KEYS", 0, 0)
    [] pc = "optmode"  -> Command(Write, "CR2", Opt, 0)
    [] pc = "readback" -> Command(Read, "MEM", 0, len)
    [] pc = "mode"     -> Command(Write, "CR2", PrgMode(current[i]), 0)
    [] pc \in {"send", "optbyte"} -> Command(Write, "MEM", i, 0)
    [] pc \in {"poll", "relockR"} -> Command(Read, "IAPSR", 0, 1)
    [] pc = "relockW"  -> Command(Write, "IAPSR", 0, 0)
    [] pc \in {"swimrst", "srst"} -> Command(Srst, "RST", 0, 0)
    [] pc = "unstallW" -> Command(Write, "DM_CSR2", 0, 0)

OpenSites == {"version", "hold", "entry", "swimrst", "swimcsr", "release", "giveup"}
CallSites == OpenSites \union {"csr", "stall", "keys", "optmode", "readback", "mode", "send", "optbyte", "poll",
              "relockR", "relockW", "srst", "unstallR", "unstallW"}

Calls == pc \in CallSites /\ (pc = "optbyte" => i < len) /\ Ask(Request)

\* The serial device is opened, and what came before is flushed from it.
Open ==
  /\ pc = "open"
  /\ pc' \in {"version", "failed"}
  /\ UNCHANGED <<memtype, targetVars, lineVars, driverVars>>

\* espstlink_fetch_version.
FetchVersion ==
  /\ pc = "version"
  /\ \E v \in Heard :
       /\ Hear(v)
       /\ version' = IF v.ok THEN v.data[1] ELSE version
       /\ pc' = IF ~v.ok \/ version' > 1 THEN "failed" ELSE IF version' = 1 THEN "hold" ELSE "entry"
  /\ UNCHANGED <<len, buf, current, i, retries, blind, unread, old, goal>>

\* espstlink_swim_reconnect: a call that fails ends the program, at once or, for the byte
\* written to SWIM_CSR, when the reset pin is back. The version is not used behind it.
Reconnect ==
  /\ pc \in OpenSites \ {"version"}
  /\ \E v \in Heard :
       /\ Hear(v)
       /\ pc' = CASE pc = "swimcsr" /\ version > 0 -> IF v.ok THEN "release" ELSE "giveup"
                  [] ~v.ok \/ pc = "giveup" -> "failed"
                  [] v.ok /\ pc = "hold"    -> "entry"
                  [] v.ok /\ pc = "entry"   -> "swimrst"
                  [] v.ok /\ pc = "swimrst" -> "swimcsr"
                  [] OTHER -> "csr"
  /\ version' = IF pc' = "csr" THEN 0 ELSE version
  /\ UNCHANGED <<len, buf, current, i, retries, blind, unread, old, goal>>

\* espstlink_prepare_for_flash goes no further than the first call that fails, and its
\* caller goes on in any case.
Prepared == IF memtype = "OPT" THEN "optmode" ELSE IF len = 0 THEN "block" ELSE "readback"

Prepare ==
  /\ pc \in {"csr", "stall", "keys"}
  /\ \E v \in Heard :
       /\ Hear(v)
       /\ pc' = IF ~v.ok THEN Prepared
                ELSE CASE pc = "csr" -> "stall"
                       [] pc = "stall" -> IF memtype = "RAM" THEN Prepared ELSE "keys"
                       [] pc = "keys" -> Prepared
  /\ UNCHANGED driverVars

OptMode ==
  /\ pc = "optmode"
  /\ \E v \in Heard : Hear(v)
  /\ pc' = "optbyte" /\ UNCHANGED driverVars

\* The existing contents. If reading them fails, current is what the stack holds.
ReadBack ==
  /\ pc = "readback"
  /\ \E v \in Heard :
       /\ Hear(v)
       /\ current' \in IF v.ok
                         THEN {[b \in Blocks |-> IF b < len THEN [o \in Offsets |-> v.data[b + 1]]
                                                            ELSE current[b]]}
                         ELSE [Blocks -> Contents]
       /\ unread' = ~v.ok
  /\ pc' = "block" /\ UNCHANGED <<version, len, buf, i, retries, blind, old, goal>>

SkipBlock ==
  /\ pc = "block" /\ i < len /\ current[i] = buf[i]
  /\ i' = i + 1
  /\ UNCHANGED <<memtype, targetVars, pc, lineVars, version, len, buf, current, retries, blind, unread, old, goal>>

NextBlock ==
  /\ pc = "block" /\ i < len /\ current[i] # buf[i]
  /\ pc' = IF memtype = "RAM" THEN "send" ELSE "mode"
  /\ UNCHANGED <<memtype, targetVars, lineVars, driverVars>>

BlockMode ==
  /\ pc = "mode"
  /\ \E v \in Heard : Hear(v)
  /\ pc' = "send" /\ UNCHANGED driverVars

\* A block that cannot be sent ends the whole write.
SendBlock ==
  /\ pc = "send"
  /\ \E v \in Heard :
       /\ Hear(v)
       /\ pc' = IF ~v.ok THEN "srst" ELSE IF memtype = "RAM" THEN "block" ELSE "settle"
       /\ i' = IF v.ok /\ memtype = "RAM" THEN i + 1 ELSE i
  /\ retries' = Tries
  /\ UNCHANGED <<version, len, buf, current, blind, unread, old, goal>>

SendOptByte ==
  /\ pc = "optbyte"
  /\ \E v \in Heard : Hear(v)
  /\ pc' = "settle" /\ retries' = Tries
  /\ UNCHANGED <<version, len, buf, current, i, blind, unread, old, goal>>

Settle ==
  /\ pc = "settle" /\ Sleep
  /\ pc' = IF memtype = "OPT" THEN "wait" ELSE "poll"
  /\ UNCHANGED <<memtype, lineVars, driverVars>>

\* Fault: every answer ends the wait.
AnyAnswer(v) == TRUE

\* A failed read is -1, in which every bit is set.
SeesEop(v) == v.ok => Bit(v.data[1], 4)

\* The unit is taken as done.
PollDone ==
  /\ pc = "poll"
  /\ \E v \in Heard :
       /\ Hear(v) /\ SeesEop(v)
       /\ blind' = (blind \/ ~v.ok)
  /\ pc' = IF memtype = "OPT" THEN "optbyte" ELSE "block"
  /\ i' = i + 1
  /\ UNCHANGED <<version, len, buf, current, retries, unread, old, goal>>

PollDies ==
  /\ pc = "poll"
  /\ \E v \in Heard :
       /\ Hear(v) /\ ~SeesEop(v)
       /\ IF memtype = "OPT" THEN retries = 1 ELSE Bit(v.data[1], 1)
  /\ pc' = "failed" /\ UNCHANGED driverVars

\* Fault: attempts are not counted.
EndlessTries ==
  /\ pc = "poll"
  /\ \E v \in Heard :
       /\ Hear(v) /\ ~SeesEop(v)
       /\ IF memtype = "OPT" THEN retries > 1 ELSE ~Bit(v.data[1], 1)
  /\ pc' = "wait"
  /\ UNCHANGED driverVars

PollAgain ==
  /\ pc = "poll"
  /\ \E v \in Heard :
       /\ Hear(v) /\ ~SeesEop(v)
       /\ IF memtype = "OPT" THEN retries > 1 ELSE ~Bit(v.data[1], 1)
  /\ pc' = "wait" /\ retries' = retries - 1
  /\ UNCHANGED <<version, len, buf, current, i, blind, unread, old, goal>>

\* Fault: while (retries >= 0).
OneTryTooMany ==
  /\ pc = "wait" /\ Sleep
  /\ IF retries < 0 THEN pc' = "block" /\ i' = i + 1 ELSE pc' = "poll" /\ i' = i
  /\ UNCHANGED <<memtype, lineVars, version, len, buf, current, retries, blind, unread, old, goal>>

\* Out of attempts, the block loop goes on with the next block.
Wait ==
  /\ pc = "wait" /\ Sleep
  /\ IF retries = 0 THEN pc' = "block" /\ i' = i + 1 ELSE pc' = "poll" /\ i' = i
  /\ UNCHANGED <<memtype, lineVars, version, len, buf, current, retries, blind, unread, old, goal>>

LoopEnds ==
  /\ pc \in {"block", "optbyte"} /\ asked = NoCommand /\ i >= len
  /\ pc' = IF memtype = "RAM" THEN "srst" ELSE "relockR"
  /\ UNCHANGED <<memtype, targetVars, lineVars, driverVars>>

Relock ==
  /\ pc \in {"relockR", "relockW"}
  /\ \E v \in Heard : Hear(v) /\ pc' = IF pc = "relockR" /\ v.ok THEN "relockW" ELSE "srst"
  /\ UNCHANGED driverVars

\* espstlink_srst, whatever its calls return; the command prints OK and the bytes written.
ResetPart ==
  /\ pc \in {"srst", "unstallR", "unstallW"}
  /\ \E v \in Heard :
       /\ Hear(v)
       /\ pc' = CASE pc = "srst" -> "unstallR"
                  [] pc = "unstallR" -> IF v.ok THEN "unstallW" ELSE "done"
                  [] pc = "unstallW" -> "done"
  /\ UNCHANGED driverVars

Driver == \/ Calls \/ Open \/ FetchVersion \/ Reconnect \/ Prepare \/ OptMode \/ ReadBack \/ SkipBlock \/ NextBlock \/ BlockMode
          \/ SendBlock \/ SendOptByte \/ Settle \/ PollDone \/ PollDies \/ PollAgain \/ Wait
          \/ LoopEnds \/ Relock \/ ResetPart
Device == DeviceRuns \/ DeviceFails

Next == Driver \/ Device

Spec == Init /\ [][Next]_vars
FairSpec == Spec /\ WF_vars(Driver) /\ WF_vars(Device)
-----------------------------------------------------------------------------
(***************************************************************************)
(* Properties. ProgTime is at most Tries where they speak of a unit whose  *)
(* EOP was seen.                                                           *)
(***************************************************************************)
Answered == asked = NoCommand

TypeOK ==
  /\ TargetTypeOK
  /\ pc \in CallSites \union {"open", "block", "settle", "wait", "done", "failed"}
  /\ asked.op \in {Srst, Read, Write, HardReset, SwimEntry, GetVersion} /\ asked.n \in 0 .. NBlocks
  /\ \A k \in 1 .. Len(toDevice) : toDevice[k].n \in 0 .. NBlocks
  /\ fromDevice \in Seq(0 .. 255) /\ version \in Versions
  /\ len \in 0 .. NBlocks /\ i \in 0 .. len /\ retries \in 0 .. Tries
  /\ buf \in [Blocks -> Contents] /\ current \in [Blocks -> [Offsets -> 0 .. 255]]
  /\ faults \in 0 .. MaxFaults
  /\ {late, blind, unread} \subseteq BOOLEAN

\* A WRITE through a link that worked all the time has left the area as the image asks when
\* it prints OK, and has gone through the whole image.
CleanWritten == pc = "done" /\ faults = 0 => mem = goal /\ i = len

\* The stream stays in step: as long as the host gave up on no answer, what the device told
\* about one command, an error included, is read to the last byte before the next command
\* goes out, so that no answer is taken for another command's.
InStep == Answered /\ ~late => toDevice = <<>> /\ fromDevice = <<>>

\* The same for the part: commands may fail, but as long as every answer was heard in time
\* and no failed poll was taken for an EOP, nothing is sent to a part that still programs.
ReadyToSend == Answered /\ ~late /\ ~blind /\ pc \in {"mode", "send", "optbyte"} => busy = 0

\* Whatever fails or comes late, the command ends: no wait of the driver is unbounded.
Termination == pc = "open" ~> pc \in {"done", "failed"}

\* "Wait for EOP to be set in FLASH_IAPSR" (espstlink.c:92 and 141): a unit is not taken as
\* done because FLASH_IAPSR could not be read.
FailedReadIsNoEop == ~blind

\* "Use fast block programming only if we have read the flash block and verified that it is
\* empty" (espstlink.c:163-167): this is so whenever the block could be read. The result of
\* reading is ignored (espstlink.c:150), so that nothing of the kind holds when it fails.
FastOnlyIfVerified ==
  pc = "mode" /\ asked.arg = Fast /\ ~late /\ ~unread => mem[i] = EmptyUnit
=============================================================================
