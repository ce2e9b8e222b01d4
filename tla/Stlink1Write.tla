---------------------------- MODULE Stlink1Write ----------------------------
(***************************************************************************)
(* One command through an ST-Link V1 (stlink.c): a write or a read of one  *)
(* area, against the target of Stm8Target. The probe is a mass storage     *)
(* device with commands of its own; each one that touches the part leaves  *)
(* the probe busy for a while, and a status word tells what became of it.  *)
(*                                                                         *)
(* Registers are written byte by byte (stlink_swim_write_byte), each write *)
(* followed by a sleep, a look at the status and perhaps a retry; nobody   *)
(* looks at what the retries came to. Blocks are padded with zeros and     *)
(* written whether they differ or not; the driver waits for the probe and  *)
(* never reads FLASH_IAPSR.                                                *)
(*                                                                         *)
(* A session starts with a reset of the part, so that one command from any *)
(* contents is as general as several. Addresses are counted in units, the  *)
(* image starts on one. Left out: option bytes, for which the part has no  *)
(* block mode, and what a wrapped address hits outside the area.           *)
(***************************************************************************)
EXTENDS Stm8Target, Sequences

CONSTANTS
  Olds,       \* contents the area may have before
  Spaces,     \* numbers of units in the 64K that 16-bit addresses tell apart
  ReadChunk   \* units in STLK_READ_BUFFER_SIZE

ASSUME Stlink1Assumption ==
  /\ "OPT" \notin Areas
  /\ Olds \subseteq [Blocks -> Contents]
  /\ Spaces \subseteq Nat \ {0}
  /\ ReadChunk \in Nat \ {0}

VARIABLES
  base, space, \* address of the first unit, and how many addresses there are
  op,          \* "write" or "read"
  pc,          \* where the command is; "done" and "failed" end it
  len, buf,    \* length and image in bytes; for a read, length and what was read
  i,           \* the unit the loop is at
  script,      \* register writes the driver is at
  after,       \* where it goes on behind them
  tries,       \* attempts at the first of them
  flags,       \* the status of the last attempt
  probeBusy,   \* the status word has bit 0
  keyed,       \* bytes the key register got
  cr2,         \* FLASH_CR2 got its byte and FLASH_NCR2 has not yet
  clean,       \* history: no status was flagged, no data fell short, each block went to a
               \* stalled CPU and no wait ended before the part was done
  old          \* history: the area when the session started

probeVars  == <<probeBusy, flags, keyed, cr2>>
driverVars == <<base, space, op, len, buf, i, script, after, tries, old>>
vars == <<memtype, targetVars, pc, clean, probeVars, driverVars>>

MaxTries == 5

\* Fault: a block more when the image ends with one.
OneBlockMore == len \div BlockSize + 1

\* Units the loop goes over, and the address of one, packed into 16 bits.
Units   == (len + BlockSize - 1) \div BlockSize
Addr(u) == (base + u) % space

\* The unit of the area that unit u of the image is sent to, or none.
Hits(u, b) == Addr(u) = base + b

\* Fault: the rest of a block keeps what was there.
Unpadded(u) == [o \in Offsets |-> IF u * BlockSize + o < len THEN buf[u][o] ELSE mem[u][o]]

\* The block of the image, behind its end filled with zeros.
Padded(u) == [o \in Offsets |-> IF u * BlockSize + o < len THEN buf[u][o] ELSE Empty]

\* Register writes: the session, the unlocking, the block mode, the end.
SessionScript == <<"CSR", "CSR", "CSR", "CKDIVR">>

\* Fault: the lock is not written again.
KeysOnly ==
  CASE memtype = "FLASH"  -> <<"IAPSR=00", "56", "AE">>
    [] memtype = "EEPROM" -> <<"IAPSR=00", "AE", "56">>
    [] memtype = "RAM"    -> <<>>

UnlockScript ==
  CASE memtype = "FLASH"  -> <<"IAPSR=00", "56", "AE", "IAPSR=56">>
    [] memtype = "EEPROM" -> <<"IAPSR=00", "AE", "56", "IAPSR=56">>
    [] memtype = "RAM"    -> <<>>
ModeScript   == IF HasNCR2 THEN <<"CR2=01", "NCR2=FE">> ELSE <<"CR2=01">>
FinishScript == (IF memtype = "RAM" THEN <<>> ELSE <<"IAPSR=56">>) \o <<"CSR">>

KeyReg == IF memtype = "FLASH" THEN "PUKR" ELSE "DUKR"
Flags  == {"ERR", "FULL"}

Statuses == SUBSET Flags

Images == {f \in [Blocks -> Contents] :
             \A b \in Blocks, o \in Offsets : b * BlockSize + o >= len => f[b][o] = Empty}

Init ==
  /\ TargetInit /\ mem \in Olds
  /\ space \in Spaces /\ base \in 0 .. space - 1
  /\ memtype # "FLASH" => base + NBlocks <= space
  /\ op \in {"write", "read"} /\ pc = "open"
  /\ len \in 0 .. NBlocks * BlockSize
  /\ op = "read" => len = NBlocks * BlockSize
  /\ buf \in Images
  /\ op = "read" => buf = [b \in Blocks |-> [o \in Offsets |-> Empty]]
  /\ i = 0 /\ script = <<>> /\ after = "none" /\ tries = 0 /\ flags = {}
  /\ probeBusy = FALSE /\ keyed = <<>> /\ cr2 = FALSE /\ clean = TRUE /\ old = mem
-----------------------------------------------------------------------------
\* stlink_open: a probe that says busy, or something else, ends the program.
Open ==
  /\ pc = "open"
  /\ pc' \in {"session", "failed"}
  /\ UNCHANGED <<memtype, targetVars, clean, probeVars, driverVars>>

\* stlink_init_session: the part is reset and SWIM entered.
Session ==
  /\ pc = "session"
  /\ Reset
  /\ probeBusy' \in BOOLEAN /\ old' = mem' /\ pc' = "enter"
  /\ UNCHANGED <<memtype, clean, flags, keyed, cr2, base, space, op, len, buf, i, script, after, tries>>

\* The wait for the probe, and the register writes behind it. The driver never stalls the
\* CPU: whether it stands still is up to how SWIM was entered.
Enter ==
  /\ pc = "enter" /\ ~probeBusy
  /\ stall' \in BOOLEAN
  /\ script' = SessionScript \o (IF op = "write" THEN UnlockScript ELSE <<>>)
  /\ after' = (IF op = "write" THEN "block" ELSE "read")
  /\ pc' = "poke"
  /\ UNCHANGED <<memtype, mem, iapsr, mode, busy, cell, clean, probeVars, base, space, op, len, buf, i, tries, old>>
-----------------------------------------------------------------------------
(***************************************************************************)
(* stlink_swim_write_byte.                                                 *)
(***************************************************************************)
\* What the part makes of a byte that arrives.
Key(k) ==
  /\ keyed' = Append(keyed, k)
  /\ IF Len(keyed) = 1 THEN WriteKeys(KeyReg, keyed') ELSE UNCHANGED targetVars
  /\ UNCHANGED cr2

Lock(bits) ==
  /\ iapsr' = AfterIapsrWrite(iapsr, bits)
  /\ UNCHANGED <<mem, mode, stall, busy, cell, keyed, cr2>>

Select(m, first) ==
  /\ mode' = m /\ cr2' = first
  /\ UNCHANGED <<mem, iapsr, stall, busy, cell, keyed>>

Delivered(w) ==
  \/ w \in {"56", "AE"} /\ Key(w)
  \/ w = "IAPSR=00" /\ Lock({})
  \/ w = "IAPSR=56" /\ Lock({"PUL"})
  \/ w = "CR2=01" /\ Select(SelectedMode("std", FALSE), TRUE)
  \/ w = "NCR2=FE" /\ Select(IF cr2 THEN SelectedMode("std", TRUE) ELSE mode, FALSE)
  \/ w \in {"CSR", "CKDIVR"} /\ UNCHANGED <<targetVars, keyed, cr2>>

\* Fault: attempts are not counted.
PokeUncounted ==
  /\ pc = "poke"
  /\ flags' \in Statuses
  /\ \/ "FULL" \notin flags' /\ Delivered(Head(script))
     \/ flags' # {} /\ UNCHANGED <<targetVars, keyed, cr2>>
  /\ clean' = (clean /\ flags' = {})
  /\ pc' = "look"
  /\ UNCHANGED <<memtype, probeBusy, base, space, op, len, buf, i, script, after, tries, old>>

\* One attempt and what the probe will say of it. A full buffer has not taken the byte;
\* an error alone may tell of a byte that got through or of one that did not.
Poke ==
  /\ pc = "poke"
  /\ flags' \in Statuses
  /\ \/ "FULL" \notin flags' /\ Delivered(Head(script))
     \/ flags' # {} /\ UNCHANGED <<targetVars, keyed, cr2>>
  /\ tries' = tries + 1
  /\ clean' = (clean /\ flags' = {})
  /\ pc' = "look"
  /\ UNCHANGED <<memtype, probeBusy, base, space, op, len, buf, i, script, after, old>>

\* Fault: an error is retried, as the condition of the loop alone would have it.
RetryOnError == "ERR" \in flags

\* "continue" leads to the condition of the loop, and an error alone leaves it before.
Retried == flags = Flags

\* Fault: an attempt too many.
GoOnLate ==
  IF Retried /\ tries <= MaxTries
    THEN pc' = "poke" /\ UNCHANGED <<script, tries, flags>>
    ELSE /\ script' = Tail(script) /\ tries' = 0 /\ flags' = {}
         /\ pc' = IF script' = <<>> THEN after ELSE "poke"

\* On with the next register, or behind them.
GoOn ==
  IF Retried /\ tries < MaxTries
    THEN pc' = "poke" /\ UNCHANGED <<script, tries, flags>>
    ELSE /\ script' = Tail(script) /\ tries' = 0 /\ flags' = {}
         /\ pc' = IF script' = <<>> THEN after ELSE "poke"

\* usleep(2000), then the status.
Look ==
  /\ pc = "look" /\ Sleep
  /\ IF "FULL" \in flags THEN pc' = "chill" /\ UNCHANGED <<script, tries, flags>> ELSE GoOn
  /\ UNCHANGED <<memtype, clean, probeBusy, keyed, cr2, base, space, op, len, buf, i, after, old>>

\* usleep(4000) for a full buffer.
Chill ==
  /\ pc = "chill" /\ Sleep
  /\ GoOn
  /\ UNCHANGED <<memtype, clean, probeBusy, keyed, cr2, base, space, op, len, buf, i, after, old>>
-----------------------------------------------------------------------------
(***************************************************************************)
(* stlink_swim_write_range and stlink_swim_write_block.                    *)
(***************************************************************************)
NextBlock ==
  /\ pc = "block" /\ i < Units
  /\ IF memtype = "RAM"
       THEN pc' = "cbw" /\ UNCHANGED <<script, after>>
       ELSE pc' = "poke" /\ script' = ModeScript /\ after' = "cbw"
  /\ UNCHANGED <<memtype, targetVars, clean, probeVars, base, space, op, len, buf, i, tries, old>>

\* The command with the first bytes of the block, then usleep(3000).
SendHead ==
  /\ pc = "cbw" /\ Sleep
  /\ pc' = "tail"
  /\ UNCHANGED <<memtype, clean, probeVars, driverVars>>

\* The rest of the block. The probe has it all and writes it to the part.
SendTail ==
  /\ pc = "tail"
  /\ \/ \E b \in Blocks : Hits(i, b) /\ WriteMem(b, Padded(i))
     \/ (\A b \in Blocks : ~Hits(i, b)) /\ UNCHANGED targetVars
  /\ probeBusy' = TRUE /\ cr2' = FALSE
  /\ clean' = (clean /\ stall)
  /\ pc' = "await"
  /\ UNCHANGED <<memtype, flags, keyed, driverVars>>

\* stlink_swim_wait: usleep(3000) and a look, for as long as the probe is busy. The error
\* flag, which the caller asks for, is the very bit whose end was waited for.
Await ==
  /\ pc = "await" /\ Sleep
  /\ IF probeBusy THEN pc' = "await" /\ i' = i ELSE pc' = "block" /\ i' = i + 1
  /\ clean' = (clean /\ (probeBusy \/ busy' = 0))
  /\ UNCHANGED <<memtype, probeVars, base, space, op, len, buf, script, after, tries, old>>

LoopEnds ==
  /\ pc = "block" /\ i >= Units
  /\ script' = FinishScript /\ after' = "finish" /\ pc' = "poke"
  /\ UNCHANGED <<memtype, targetVars, clean, probeVars, base, space, op, len, buf, i, tries, old>>
-----------------------------------------------------------------------------
(***************************************************************************)
(* stlink_swim_read_range: a chunk is asked for, waited for and fetched.   *)
(***************************************************************************)
ReadAsk ==
  /\ pc = "read" /\ i < Units
  /\ probeBusy' = TRUE /\ pc' = "fill"
  /\ UNCHANGED <<memtype, targetVars, clean, flags, keyed, cr2, driverVars>>

ReadWait ==
  /\ pc = "fill" /\ Sleep
  /\ pc' = IF probeBusy THEN "fill" ELSE "fetch"
  /\ UNCHANGED <<memtype, clean, probeVars, driverVars>>

\* Fault: each chunk is read from the start of the area.
SameChunk(u) == u - i

\* The unit of the area a unit of the buffer comes from.
ReadFrom(u) == u

\* The chunk goes to its place in the buffer; a transfer that falls short is not noticed.
Fetch ==
  /\ pc = "fetch"
  /\ \E short \in BOOLEAN : \E f \in [Blocks -> Contents] :
       /\ \A u \in Blocks : u \notin i .. i + ReadChunk - 1 => f[u] = buf[u]
       /\ ~short => \A u \in Blocks \intersect (i .. i + ReadChunk - 1) :
                      \A b \in Blocks : Hits(ReadFrom(u), b) => f[u] = mem[b]
       /\ buf' = f /\ clean' = (clean /\ ~short)
  /\ i' = i + ReadChunk /\ pc' = "read"
  /\ UNCHANGED <<memtype, targetVars, probeVars, base, space, op, len, script, after, tries, old>>

ReadEnds ==
  /\ pc = "read" /\ i >= Units
  /\ script' = <<"CSR">> /\ after' = "finish" /\ pc' = "poke"
  /\ UNCHANGED <<memtype, targetVars, clean, probeVars, base, space, op, len, buf, i, tries, old>>
-----------------------------------------------------------------------------
\* stlink_finish_session resets the part and keeps it there; behind a write main calls
\* stlink_swim_srst, which lets it run.
Finish ==
  /\ pc = "finish" /\ Reset
  /\ pc' = IF op = "write" THEN "srst" ELSE "done"
  /\ UNCHANGED <<memtype, clean, probeVars, driverVars>>

Srst ==
  /\ pc = "srst"
  /\ pc' = "done"
  /\ UNCHANGED <<memtype, targetVars, clean, probeVars, driverVars>>

\* A USB transfer fails: an assertion ends the program, wherever it is.
UsbError ==
  /\ pc \notin {"done", "failed"}
  /\ pc' = "failed" /\ script' = <<>> /\ after' = "none" /\ tries' = 0 /\ flags' = {}
  /\ UNCHANGED <<memtype, targetVars, clean, probeBusy, keyed, cr2, base, space, op, len, buf, i, old>>

\* The probe is done with what it was given.
ProbeReady ==
  /\ probeBusy
  /\ probeBusy' = FALSE
  /\ UNCHANGED <<memtype, targetVars, pc, clean, flags, keyed, cr2, driverVars>>

Driver == \/ Open \/ Session \/ Enter \/ Poke \/ Look \/ Chill \/ NextBlock \/ SendHead
          \/ SendTail \/ Await \/ LoopEnds \/ ReadAsk \/ ReadWait \/ Fetch \/ ReadEnds
          \/ Finish \/ Srst

Next == Driver \/ UsbError \/ ProbeReady

Spec == Init /\ [][Next]_vars
FairSpec == Spec /\ WF_vars(Driver) /\ WF_vars(ProbeReady)
-----------------------------------------------------------------------------
TypeOK ==
  /\ TargetTypeOK
  /\ pc \in {"open", "session", "enter", "poke", "look", "chill", "block", "cbw", "tail", "await",
             "read", "fill", "fetch", "finish", "srst", "done", "failed"}
  /\ pc \in {"poke", "look", "chill"} => script # <<>> /\ after \in {"block", "cbw", "read", "finish"}
  /\ len \in 0 .. NBlocks * BlockSize /\ i \in 0 .. NBlocks + ReadChunk
  /\ buf \in [Blocks -> Contents] /\ old \in [Blocks -> Contents]
  /\ tries \in 0 .. MaxTries
  /\ flags \subseteq Flags
  /\ {probeBusy, cr2, clean} \subseteq BOOLEAN

\* The units of the image that have a byte of it and whose address is that of unit b.
Reaching(b) == {u \in {p \div BlockSize : p \in 0 .. len - 1} : Hits(u, b)}

\* What a write leaves in unit b: the last block sent to its address, which for an image
\* that ends beyond 0xffff is not the first one. The image is Empty behind its end.
Left(b) ==
  IF Reaching(b) = {} \/ (memtype = "FLASH" /\ b \in Guarded) THEN old[b]
  ELSE buf[CHOOSE u \in Reaching(b) : \A v \in Reaching(b) : v <= u]

Written == pc = "done" /\ op = "write" /\ clean

\* A write of flash or RAM in which nothing went wrong that the driver does not look at has
\* left the image, filled up with zeros, and nothing else: each block at its address, where
\* addresses are what 16 bits tell apart (stlink.c:455).
CleanWritten == Written /\ memtype # "EEPROM" => \A b \in Blocks : mem[b] = Left(b)

\* EEPROM is never written, as the support table of README.md has it (FAIL): FLASH_IAPSR = 56
\* clears DUL again behind the keys. The command says OK.
EepromRefused == memtype = "EEPROM" /\ clean /\ pc # "open" => mem = old

\* Whatever the probe answers and wherever the command dies, units the image does not reach
\* keep their contents.
OthersUntouched ==
  pc # "open" => \A b \in Blocks : Reaching(b) = {} \/ op = "read" => mem[b] = old[b]

\* However often register writes are repeated, a key that arrived is never sent again and
\* the keys never change places: a wrong one locks the part until its next reset.
KeysInOrder ==
  \/ Len(keyed) <= 1
  \/ keyed = KeyOrder(KeyReg)

\* A read whose transfers were complete returns what the area holds, chunk by chunk.
ReadBack ==
  pc = "done" /\ op = "read" /\ clean =>
    \A b \in Blocks : \A u \in Blocks : Hits(u, b) => buf[u] = mem[b]

\* A command that was started ends, if the probe is never busy for ever: the driver has no
\* bound of its own on its waits (stlink.c:248, 421, 439), its retries have one.
Termination == pc = "open" ~> pc \in {"done", "failed"}
=============================================================================
