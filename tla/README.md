# stm8flash in TLA+

stm8flash programs STM8 microcontrollers over SWIM through an ST-Link (V1, V2, V2.1, V3) or an
esp-stlink. This directory holds TLA+ modules of the program, TLC configurations that check them on
small instances, and proofs that TLAPS checks for all instances. Paths below are those of the
repository (`main.c` and so on under `src/`).

A flash programmer has little state of its own. What makes it hard is that every step acts on a chip
which goes on by itself: programming takes time, status bits are cleared by reading them, a lock or a
mode left over from a run that died is still there for the next one. Most of that is out of reach of a
unit test, and there are none in the repository.

## 1. The system

| Part | State it keeps | Operations | Module |
|---|---|---|---|
| ST-Link/V2 driver (`stlinkv2.c`, `try.h`) | none between calls but `read_buf_size`; in `write_range` the image `buffer`, the read-back copy `current`, the index `i`, `retries` | open, read_range, write_range, srst, close | `Stlink2Write` |
| its transport (`swim_cmd_internal`, `msg_send`, `msg_recv`) | two status slots, a stall counter; in the probe its mode and speed | switch the probe to SWIM and to high speed, send a SWIM command and poll READSTATUS until it is done | `SwimSession`; in `Stlink2Write` as `SwimError` |
| ST-Link V1 driver (`stlink.c`) | global `cbw`, `csw` | open, sessions, write_byte, read_range, write_range, srst | `Stlink1Write` |
| esp-stlink driver (`espstlink.c`) | as the V2 driver | open, read_range, write_range, srst | `EspWrite` |
| libespstlink (`libespstlink.c`) | the file descriptor, the last error | one write and several reads of a serial line per command | `EspWrite` |
| file formats (`ihex.c`, `srec.c`) | chunk position; address offset, greatest address, record counts | read and write an image as text | `HexFiles` |
| command line (`main.c`) | options, area, address, byte count | option loop, choice of area, READ, WRITE, VERIFY, UNLOCK, RESET | `CommandLine`; WRITE in detail: `Stlink2Write`, `EspWrite` |
| USB discovery (`usb_init` in `main.c`) | device list, text of a serial number | choose a programmer | `UsbInit` |
| part table (`stm8.c`) | constants | look a part up | constants of `Stm8Target` |
| the STM8 itself | memory, `FLASH_IAPSR`, mode, CPU stall, the unit under programming | what its registers do | `Stm8Target`, external |

How they interact. `main` parses the options, picks a row of `pgms[]` and calls its five function
pointers: `open`, then one of `read_range` and `write_range`, `reset`, `close`. Drivers talk to the
probe in strict request and answer order; there are no threads, no callbacks and no shared state. What
runs concurrently is the chip: it programs while the host sleeps, and the host finds out by reading
`FLASH_IAPSR`. With an esp-stlink the device is a second process: it executes a command when it gets
to it, and the host may have given up on the answer by then. Errors end the process with `exit(-1)`
wherever they occur (`error.h`, `spawn_error`), and nothing is undone: that is a crash in the middle
of a write, and the next invocation of the tool is the restart.

What must hold, per part:

* a driver: what it reports as written is written, and nothing else; an invocation that dies leaves a
  prefix; fast programming (which does not erase) happens on empty blocks only; nothing is sent to a
  busy controller; the EOP that ends a wait belongs to the unit that was sent; every wait ends;
* libespstlink: answers and commands stay in step;
* the V1 driver, which never looks at EOP: a run without incident leaves the image and nothing else;
  retries of register writes never break a key sequence;
* the transport of V2: the link to the part works whatever mode and speed was left behind; a command
  is given up only when its status stands still; a read is complete;
* USB discovery: the programmer that is opened is the one that was asked for;
* the file formats: what READ writes, WRITE reads; what is damaged is refused;
* the command line: the operation touches the area that was named.

## 2. Modules

`Stm8Target` is the chip: one area (`memtype`) of `NBlocks` units of `BlockSize` bytes. It has no
specification of its own; its operators (`WriteKeys`, `WriteMem`, `ReadIapsr`, `Sleep`, `Reset`, ...)
are conjuncts of the drivers' actions and say what becomes of every variable of the target. It is not
part of the repository and is modelled from what the drivers rely on: reading `FLASH_IAPSR` clears EOP
(no driver ever clears it); a busy controller drops data; a locked or protected unit is refused with
`WR_PG_DIS`; fast programming over cells that are not empty leaves anything; a running CPU may reset
the chip under a write (comment `stlinkv2.c:525-527`); a reset under programming leaves the unit
unpredictable. Time passes only in `Sleep`, one period for each `usleep` of a driver, and a unit takes
a number of periods from `ProgTime`.

`BlockWriter` is the abstract specification of WRITE: ask, begin, rewrite the area unit by unit in
order, with at most one unit in the air, answer "ok" only when the area holds what is wanted; die at
any time. It knows no locks, status registers, buffers or polling.

`Stlink2Write` is `stlink2_swim_write_range` and its surroundings. `pc` is the point of the code
(`unlock`, `readback`, `block`, `send`, `settle`, `poll`, `wait`, `relock`, ...); `len`, `buf`,
`current`, `i`, `retries` are the variables of the code.

| Action | Code |
|---|---|
| `Run` | the WRITE branch of `main`: the file into a zeroed buffer, a number of bytes |
| `Open`, `ResetPart`, `Close` | `stlink2_open` (which resets the part), `stlink2_srst`, `stlink2_close` |
| `Unlock`, `OptMode` | the keys, `stlinkv2.c:461-477` |
| `ReadBack` | `stlink2_swim_read_range` into `current`; the tail of the last block is merged into the buffer (`MergedTail`, line 494) |
| `SkipBlock`, `BlockMode`, `SendBlock`, `SendOptByte` | one round of a loop up to the transfer: compare, stall, choose the mode (`PrgMode`), send |
| `Settle`, `PollDone`, `PollAgain`, `PollDies`, `Wait` | the sleeps and looks at `FLASH_IAPSR`, for blocks the open-coded loop, for option bytes `TRY(5, ...)` |
| `LoopEnds`, `Relock` | lines 564-574 |
| `SwimError` | `exit(-1)` from any command |
| `TargetAlone` | time passes for the chip while no run is active |

`gaveUp`, `old` and `goal` are history variables: a wait ran out; the area as the run found it; what
is wanted of it (`Overlay`). `Unlock` leaves out the write of `CLK_CKDIVR` (`stlinkv2.c:459`): the clock of the
part is no state of the model. Sequences of register writes with nothing between them are one step; a
crash inside such a sequence leaves a locked area or a mode that is not selected, which the states
before and after it cover (the reset of the next `Open` clears both).

`EspWrite` is the same command through an esp-stlink, with the serial line between driver and chip:
`toDevice` are commands the device has not got to, `fromDevice` bytes not read yet. `Calls` sends the
command of a call site (`Request`), `DeviceRuns` executes it and answers, `DeviceFails` answers with an
error, and the driver's actions take a `Verdict`, which is what `error_check` makes of the bytes that
are there. A verdict with `late` is a read that gave up after 0.1 s; the answer comes all the same.
Registers and answers are bytes where the host compares them, since `-1 & 0x04` is part of the
behaviour. The driver ignores some results (`espstlink.c:130, 134, 140, 150, 177`); so does the model.
`late` and `blind` are history: the host gave up on an answer; a unit was taken as done on a read that
failed. Where the code would look at an uninitialised buffer (`current` after a failed read-back) the
model takes any contents, and `unread` remembers it. `Request` is one command for a call site that sends
two, of which the second is not sent when the first fails: the two keys of a lock, `FLASH_CR2` and
`FLASH_NCR2`. Half of a pair opens no lock and selects no mode, so that a pair that fails half way leaves
the part as one that fails at once. Units are of one byte, so merging the tail is not in this module, and
`Overlay` is there for the history variable `goal` only. `Open`, `FetchVersion` and `Reconnect` are `espstlink_pgm_open`: the line is flushed, and a
command that fails there ends the program, so that whoever gets past it is in step.

`Stlink1Write` is `stlink.c`. A register write is `Poke` (one attempt, after which the byte has arrived
or not and the probe says what it likes of it), `Look` and `Chill` (the two sleeps and the loop
condition, where `continue` leads); `script` is the list of register writes the driver is at, `after`
the point behind them. `Session`, `Enter` and `Finish` are the two ends of a session, `NextBlock`,
`SendHead`, `SendTail`, `Await` and `LoopEnds` the loop of `write_range`, `ReadAsk`, `ReadWait`, `Fetch` and
`ReadEnds` that of `read_range`. `UsbError` is any of the assertions on a transfer. The probe is busy for
any time that ends (`ProbeReady`). `clean` is history: nothing went wrong of the kind the driver does not
look at (a flag in a status, a short read, a wait that ended before the part was done). Addresses are
counted in units and are taken modulo `space`, which stands for the 2^16 of `pack_int16`.

`UsbInit` is `usb_init`: `Count`, then `PassOver` or `LookAt` for each device, `ListEnds`, `Claim`. Serial
numbers are sequences of characters; `text` is the buffer `serialno_hex` up to its first zero, over which
`ToHex` writes.

`SwimSession` extends `UsbInit` with what follows: `GetMode`, `LeaveMode`, `EnterSwim` and `GetBufSize` of
`stlink2_open`; then one `pc` per SWIM command (`Behind` says which comes next), each of which is `Send` and
a number of `PollAgain`, until `PollDone` has its effect (`Done`) or it is given up (`Die`). `ProbeWorks` is
the probe changing its status, `HsiTrimmed` the part setting HSIT. `UsbError` ends the program at any
transfer, with or without the effect of the command under way. Modes and speeds of probes and parts
survive the invocation; variables of a call that has returned and of a process that has ended are reset,
which only keeps the number of states down. `same` and `last` are history: how often the last status was
received in a row.

`HexFiles` writes an image with `ihex_write` or `srec_write` one record at a time, lets the file be
kept, put the way other tools put it (`Foreign`: segment addresses; another order and a comment), changed
in one byte, given a line that is no record, or relieved of one data record, and reads it back with `ihex_read` or
`srec_read` one line at a time, for the same range of addresses or one shifted by one at either end.
Records are type, address, data and, for S-records, checksum; hexadecimal digits are left out. `Page`
stands for 2^16, `BigPage` for 2^24, `Segment` for 16 and `Chunk` for the 32 bytes of a record. `buf` is
the memory around the buffer that `main` allocates, which itself has the positions 0 to `hi - lo - 1`: a
store beside it is seen as such. What the C code does from such a store on is undefined; in the model the
reader goes on, or ends there (`Overruns`). `IhexFails` is `ihex_write` that cannot write a record; the
program exits with what is in the file, and the behaviour ends there. What `srec_write` and the `fwrite` of
raw files do on a full disk is checked nowhere in the code and is not modelled.

`CommandLine` is `main`: each option an action, in any order and number; `Decide` chooses area, start and
number of bytes and refuses incomplete command lines; then one action per operation (`ReadPart`,
`WritePart`, `VerifyPart`, `UnlockPart`, `ResetPart`) on the memory of the part and one file, or
`Broken`, a driver that gives up on the way or a file that cannot be opened, or `Truncated`, a READ whose
`ihex_write` fails when the old file is gone. Drivers are taken to do what they are asked here; whether
the part takes a write with the keys of that area is `Stlink2Write`. `named`, `byAddress` and `origin` are
history: what the user named last, and what the file and the part have to do with each other. A
negative number of bytes outside of all areas is undefined behaviour in `fread` and `fwrite` and not
modelled. An address that is followed by an area name keeps the address with the keys of that area: no
text of the repository says which of the two counts, so that it is a condition of `KeysFit` and not a
finding.

`MC...` modules give the constants values for TLC. Theorems about a module are in `...Proofs`:
`Stlink2WriteProofs`, `Stlink1WriteProofs`, `EspWriteProofs`, `SwimSessionProofs` (which holds those about
`UsbInit` too), `HexFilesProofs` and `CommandLineProofs`. `Stm8TargetProofs` are lemmas on the operators of
the target and on sizes rounded up to units, `NatLemmas` least and greatest numbers of a set.

Definitions that begin with a comment `Fault:` are wrong variants of the definition that follows; no
specification uses them. Each stands for a plausible bug and is there to show that a property notices
it.

## 3. What the runs check

| Run | Instance | Properties |
|---|---|---|
| `write_blocks` | flash and RAM, 2 blocks of 2 bytes, images of 0-4 bytes, 2 invocations | `WrittenOK`, `FastOnlyOnEmpty`, `ReadyToSend`, `KeepsPromise` (refines `BlockWriter`), `OwnEop` |
| `write_areas` | EEPROM, flash, option bytes, 3 units of 1 byte, the last one protected, parts that take 1, 5 or 7 periods, 2 invocations | `TypeOK`, `WrittenOK`, `PrefixDone`, `Prepared`, `OnlyDiffs`, `Termination` |
| `write_timeout` | flash, 2 units, a part that takes up to 7 periods | `TimeoutIsReported` is violated |
| `esp_line` | all areas, 2 units, up to 2 failed commands or late answers | `TypeOK`, `CleanWritten`, `InStep`, `ReadyToSend`, `FastOnlyIfVerified`, `Termination` |
| `esp_blind` | flash, 1 failed command | `FailedReadIsNoEop` is violated |
| `files` | both formats, images of up to 7 bytes in 12 addresses, pages of 6 | `TypeOK`, `RoundTrip`, `WithinWindow`, `ResultIsExtent`, `DamageDetected`, `WithinPage` |
| `files_wide` | S-records | `SrecRoundTrip` is violated |
| `cli` | four areas of 2-3 bytes, 3 option bytes, 3 options, 2 invocations, 6 files | `TypeOK`, `KeysFit`, `RoundTripVerified`, `NamedAreaOnly` |
| `cli_gaps` | the same | `WrittenVerifies` is violated |
| `stlink1` | flash, EEPROM and RAM, 2 units of 2 bytes, images of 0-4 bytes, 1 or 2 addresses before they wrap, reads in chunks of 1 unit | `TypeOK`, `CleanWritten`, `EepromRefused`, `OthersUntouched`, `KeysInOrder`, `ReadBack`, `Termination` |
| `session` | 2 devices, each V2 or V2.1, serial numbers `AA` and `AB`, buffers of 0 and 2 bytes, a read of 3, 2 invocations | `TypeOK`, `RightAmongEquals`, `LinkUp`, `GivenUpForGood`, `ReadComplete`, `Termination` |
| `session_serials` | the same with serial numbers `A`, `AB` and `BB` | `RightProgrammer` is violated |

Bounds and why they are enough.

* `MaxRuns = 2`: all that survives an invocation is the memory and the registers of the part, and
  opening resets the registers. A second run after one that died anywhere meets every leftover.
* Units: the hazards are between one unit and the next (a stale EOP, a busy controller) and between
  the image and the bytes behind it in a partly filled block; two blocks of two bytes, with images of
  every length, have both. Three units leave one on either side of the current one.
* `ProgTime = {1, 2, 5}`: done during the first sleep, between two looks, and just before the last
  look. The slow instances end after the last sleep, while the driver goes on. In the code five
  attempts, `Retries`, `Tries` and `MaxTries`, and four stalls are constants and are kept.
* Contents: a cell is empty or not; the code compares cells with 0 and with each other only.
* `MaxFaults = 2` in `EspWrite`: one late answer puts the stream out of step, the second can put it
  further out, or meet the part in a wrong state. Giving up when the device has nothing more to say
  (`toDevice` empty) is not counted.
* `Page = 6`, `Chunk = 4`, images of up to 7 bytes anywhere: records that end before, at and behind a
  page boundary, two boundaries in one image, and a start in the middle of a page.
* `MaxOptions = 3`: an operation, an area or address, and a number of bytes, or one of them given twice;
  two runs are a WRITE or READ and the VERIFY that follows. Addresses are the first of each area, the
  next one behind it and one in a hole; numbers of bytes are negative, zero, inside and too large. One
  area is shorter than the option bytes, as the EEPROM of some entries of the part table is.
* `Stlink1Write` has one command: its session begins with a reset of the part, so that a command on any
  contents is as general as several. Two units have a wrap of addresses when there is one address
  (`Spaces`), and `ProgTime = {1, 3}` is a part that is done before the status is looked at, or after.
* `SwimSession`: a V2.1 that an invocation left in SWIM and at high speed, dead or ended, meets the next
  one. `HsitTries` is 1 for 10: the flag is there at once, at the second look, or never. Probes are
  plugged in in debug mode; the other modes are told to leave in the same way, and idle (`mass`) and
  SWIM are what earlier invocations leave. A buffer of 2 cuts a read of 3 into a whole chunk and a rest.
* TLC stops where the system stops (`CHECK_DEADLOCK FALSE`): the last run has ended, or the file has
  been read.

Fairness. `Termination` in `Stlink2Write` assumes weak fairness of `Step`, the tool going on while the
link works; the process is single-threaded and nothing it waits for is without a count. It does not
assume that the part ever sets EOP. In `EspWrite` it assumes weak fairness of the driver and of the
device, and every read has a timeout; late answers are not assumed away. In `Stlink1Write` it assumes
weak fairness of the driver and that the probe does not stay busy for ever (`WF_vars(ProbeReady)`): the
waits of the V1 driver have no bound of their own. In `SwimSession` it assumes weak fairness of the tool
and is stated of behaviours in which the buffer is not of 0 bytes and the status of the probe does not
change for ever: the loop counts equal statuses only (`stlinkv2.c:265`), and nothing but the firmware
keeps it from polling for ever. USB transfers have no timeout in the code; one that never ends is
outside of the models.

What the violations show.

* `write_timeout`: on a part slower than the polling (or with a locked-out EOP), the block loop falls out
  of its wait without EOP and without a message, and the command ends with OK; the comment above it
  (`stlinkv2.c:551`) promises a better message than that of `TRY`, which at least ends the program.
* `esp_blind`: `espstlink_read_byte` returns -1 for a failed read, and -1 has the EOP bit.
  That of a read-back is ignored as well (`espstlink.c:150`): when it fails, blocks are compared with, and
  judged empty by, what is on the stack. `FastOnlyIfVerified` holds where the block was read.
* `files_wide`: S2 and S3 data are stored one and two bytes too high (`srec.c:144`). The program writes
  S2 itself, as soon as an image ends at 0x10000, like the flash of a 32K part.
  The check of a record's addresses (`srec.c:137`) does not know of the shift, so that the last one or two
  bytes of a record that ends with the range are stored behind the allocated buffer: that is what the
  trace of this run ends with. `WithinWindow` is about the records of which this is not so.
* `cli_gaps`: VERIFY compares the gaps of a file with a buffer that nobody cleared (`main.c:617`), so that
  a part that holds the file may fail; WRITE clears its buffer. The help (`main.c:129`) promises to
  compare the data with the file.
* `session_serials`: with `-S AB` the program opens the programmer `A` if it looked at `BB` before
  (`main.c:240`), and does not find `A` itself. `RightAmongEquals` is what holds: among programmers whose
  numbers have the length of the one asked for, the right one is opened.

Two texts of the repository say more than the code does, and the passing properties are worded
accordingly. `ihex.h:27` calls the result of `ihex_read` the number of bytes read; it is the distance from
`start` to the end of the last byte (`ihex.c:122`), gaps included, which is what `main` takes it for, and that is
`ResultIsExtent`. And `-u` chooses the address of the option bytes like an `-s` does, and an `-s` behind it
chooses another (`main.c:432-455`): with `-u -s flash` the unlocking bytes go to the start of flash, and the
message (`main.c:720`) and the help (`main.c:133`) speak of option bytes that were reset. On the parts of the
table without EEPROM and with 9 option bytes (`stm8l001j3`, `stm8l101f1`, `stm8l101?2`, `stm8l101?3`) the bytes
of `-u -s eeprom` go to no EEPROM at all, so `NamedAreaOnly` bounds an UNLOCK by `option_bytes_size` and not by
the area.

Three things the passing runs show that are worth knowing. The V1 driver cannot write EEPROM
(`EepromRefused`, as the table in the repository's `README.md` has it): its last register write before the
blocks locks the data area again. Its message "Write error" cannot come up, since the flag it looks at
is the one whose end it has waited for (`Await`). And a full buffer without the error flag is never
retried, so that the byte is lost without a message: that is why `CleanWritten` needs `clean`.

## 4. What is proved

Every invariant and every action property that a passing run checks is a theorem of the specification,
for all values of the constants that satisfy the module's own assumption; three of the theorems assume
something more of the constants (how long the part programs), which is said with them. The properties keep the conditions they are
stated with (a wait that ran out, an incident the driver does not look at), since the code does not
promise more.

### ST-Link/V2: `Stlink2WriteProofs`

For every number and size of units, contents, protection, number of runs, with
and without `FLASH_NCR2`, from `TargetAssumption` and `RunsAssumption` only:

* `TypeCorrect`: `Spec => []TypeOK`. The range of the loop index depends on where the driver is
  (`i < Units` between sending a unit and leaving it), so `InLoop` is carried along.
* `Written`, `CrashLeavesPrefix`, `FastIsSafe`, `NeverSentTooEarly`: `WrittenOK`, `PrefixDone`,
  `FastOnlyOnEmpty` and `ReadyToSend` are invariants; `EopIsOwn`: the action property `OwnEop`. All of
  them speak of an invocation until one of its waits has run out (`gaveUp`), on a part that may be as
  slow as it likes;
* `PreparedForData`: `Prepared`, whatever ran out, from `Opened`: which locks are open and which mode is
  selected at each point of the driver;
* `OnlyDifferences`: the action property `OnlyDiffs`, whatever ran out, from `Untouched`: the part holds, from
  the unit at hand on, what was read back, since a sleep lands units before it only (`SleepTouches`);

and, of a part that programs within five periods (`ASSUME PromptPart`), on which no wait runs out:

* `Implements`: `Spec => KeepsPromise`, driver and part implement `BlockWriter`.

The assumption is needed: `write_timeout` shows what happens without it.

The argument. None of these is inductive: that an area is written when OK is printed depends on what
each poll knew. The invariant is `TInv /\ (gaveUp \/ SInv)`, and `SInv` says for each point of the driver what is
true of the chip: `Fresh` (nothing happened before the first unit), `Loop` (the buffer holds what is
wanted of the units it covers, and nothing is wanted of the others, which is where the merged tail
comes in), `AtUnit` (before a unit is sent nothing is in the air and no EOP is left), `Ready` (a block
about to be sent is one that differs, and its mode fits), `Waiting` (a unit that was sent is in the
air with no EOP up, or has landed and its EOP is up, or was refused), `Flying`
(what is in the air is unit `i` with what is wanted there, also after its run died), `Finished`.
The heart is `Waiting`: as long as no wait ran out, EOP is always consumed by the unit it belongs to, so
`AtUnit` holds for the next one. `Timely` says in addition that `busy` never exceeds the attempts that
are left (`InTime`), which is why no wait runs out on a part that is prompt (`TimelyStep`).
`SafetyStep` has one step per action and one below it per conjunct that the action can disturb;
`Landing` says once what a sleep does. The refinement maps `mem`, `goal`, `i` and the unit in the air;
every action is a step of `BlockWriter` or a stutter (`PromiseStep`).

### ST-Link V1: `Stlink1WriteProofs`

For any image, any addresses, any number of them before they wrap, any programming times and any
answers of the probe, from `TargetAssumption` and `Stlink1Assumption` only:

* `TypeCorrect`: `TypeOK`.
* `KeysStayInOrder`: `KeysInOrder`. Register writes may be repeated, and a key that is sent twice would
  lock the part. `KInv` says why it is not: a key that may still be sent has not arrived.
* `OthersStay`: `OthersUntouched`, from `OInv`: whatever is in the air is a unit that the image reaches, also
  by an address that wrapped around.
* `EepromIsRefused`: `EepromRefused`, from `EInv`: once the register write behind the keys has arrived, the
  data area is locked.
* `ReadReturnsArea`: `ReadBack`, from `RInv`: the chunks before the current one hold what the area holds.
* `CleanWriteIsRight`: `CleanWritten`, from `WInv`: at each block the part is unlocked (`FlashKeys`), in the mode
  of the transfer (`FlashMode`), and the units up to the loop index hold what is wanted, or will when the
  one in the air has landed (`Upto`, `Lying`, `Sent`).

`TInv` is the base of all of them: besides the types it says, word by word, which script of register
writes the driver is at and what is left of it, and that the loop is at a unit of the image.

### Transport and discovery: `SwimSessionProofs`

For any devices, kinds, serial numbers, buffer sizes, lengths and number of invocations, each of which
may die anywhere, from `UsbAssumption` and `SessionAssumption`:

* `TypeCorrect`: `TypeOK`;
* `LinkIsUp`: `LinkUp`, from `Linked`, which follows the mode of the probe and the two speeds from call to
  call, from any that an earlier invocation left;
* `GivenUpRightly`: `GivenUpForGood`, from `Polled`: the stall counter is the number of equal statuses;
* `ReadIsComplete`: `ReadComplete`, from `InPlace`: the bytes before `got` are the ones of their places, with
  the chunk that is under way (`ChunkInPlace`), of the size it was asked for;
* `RightOneAmongEquals`: `RightAmongEquals`, from `Found`: the text buffer holds the last number that was
  looked at and, behind it, the end of a longer one. `Overwritten` is the lemma on the unterminated copy.

The four parts of the invariant rest on the types and not on each other.

### esp-stlink: `EspWriteProofs`

For any number of units, any number of failed and late answers and any times the part takes, from
`TargetAssumption` and `EspAssumption`:

* `TypeCorrect`: `TypeOK`, and `StreamInStep`: `InStep`. `Line` is part of `TInv`: while nothing came late, there is
  one command on its way, or the answer to it, or nothing, and the command is the one the call site
  asks for.
* `FastOnEmpty`: `FastOnlyIfVerified`. `Paths` says which call sites belong to which area; `Behind`, `Fetched` and
  `Known` that nothing changes ahead of the driver, so that what it read back is still true when it looks
  at it.

And on a part that programs no longer than the driver looks (`ASSUME \A t \in ProgTime : t <= Tries`; on a
slower one the block loop falls out of its wait without EOP, as in `write_timeout`, and the next block
meets a busy part):

* `SendsWhenReady`: `ReadyToSend`, from `Ready`: the attempts that are left outlast the programming;
* `CleanWriteIsRight`: `CleanWritten`, from `Cleanly`, which has no faults on the line to reckon with: the part is
  unlocked (`Armed`), in the right mode (`Fitted`), a unit lands where it was sent (`Landed`), and the units
  before the index are as wanted and those behind it as they were (`Whole`, `Halves`).

### File formats: `HexFilesProofs`

For any image, any `Page`, `BigPage`, `Segment` and `Chunk` that fit together, any window of addresses and any
damage the model has, from `FilesAssumption`:

* `TypeCorrect`: `TypeOK`, and `RecordsWithinPage`: `WithinPage`;
* `StaysWithinWindow`: `WithinWindow`, and `ReturnsExtent`: `ResultIsExtent`, from `Window`: what is stored lies
  between `lo` and the greatest end of a record, and that end within the window;
* `DamageIsDetected`: `DamageDetected`, from `Damage` and `Counted`. The checksum is a sum over a set of
  positions; one byte that changes, by less than 256, changes it modulo 256 (`SumChanged`, `SumDetects`), and
  `Damage` keeps the damaged record in the part of the file that has not been read. `Counted`: data records read
  and data records to come are one less than S5 says, and a number and its predecessor differ modulo
  `Page`, since `Page > 1`;
* `ReadsBack`: `RoundTrip`, from `Laid`: the upper parts of the addresses of the records form a sequence of
  bases, each data record is a part of the image, and the parts that were stored and those to come make
  up the image. That holds of the file as it is written, of both foreign forms of it, and after each
  line that is read.

What a sum or a sequence of bases is for every length needs induction, and the induction theorems of the
library take an operator as a parameter, which the provers cannot instantiate. `NatLemmas` has the least
element of a set of natural numbers instead, and the inductions of this module (`SumsExist`) are
arguments on the least counterexample.

### Command line: `CommandLineProofs`

For any areas, addresses, files, options in any order and number, and any number of runs, each of which
may break anywhere, from `CommandLineAssumption` (areas and what can be named lie within the memory):

* `TypeCorrect`: `TypeOK`;
* `KeysOfTheArea`: `KeysFit`, from `Settled`: area, address and number of bytes follow what was named last;
* `ReadOrWrittenVerifies`: `RoundTripVerified`, from `Agreed`: what READ or WRITE last did with the file still
  holds, across runs that do something else;
* `NamedArea`: the action property `NamedAreaOnly`, from `Settled` as well.

### Only model-checked

* The four `Termination`: liveness under fairness, which rests on `ENABLED`, is out of the prover's reach.
* The properties that are expected to be violated; they are false.

In order to be reasoned about, three modules say a little more than the runs needed. Serial numbers
are sequences and not empty (`UsbAssumption`), and the device that `libusb_open_device_with_vid_pid` opens
is the least of the candidates instead of a choice. `CommandLineAssumption` says that areas and what can be
named lie within `MaxAddr`, and that files are files. `FilesAssumption` has `Page > 1`: with pages of one
byte a count is 0 modulo `Page` whatever was lost.

## 5. Not modelled

* The layout of commands in `cmd_buf` and in SCSI wrappers, USB endpoints, transfers that never end.
* Option bytes through an ST-Link V1, and what a wrapped address hits outside the area.
* The error record of libespstlink.
* The listings `-l` and `-L`, which print and end, and the lookup of a part by name. (A table entry
  matches any name it is a prefix of, so that `stm8af6223a` always gives the entry of `stm8af6223`; the two
  are equal.)
* A start address that is not on a block boundary (the code says that it does not work,
  `stlinkv2.c:541`), and a read-back that is longer than the area.
* Records that are cut off within, hexadecimal text, error messages.
* The part table as data, and the build.

## 6. Plan

Every module of the first plan is there, and every safety property that a run checks is proved. What is
left are proofs of what `Termination` shows on small instances, in the form that is in reach: for each
driver an action property that some measure (units left, attempts left, answers awaited) becomes less
with every step of the driver. Liveness then needs fairness only.
