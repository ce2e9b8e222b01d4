----------------------------- MODULE CommandLine -----------------------------
(***************************************************************************)
(* main.c: the option loop, the choice of area and number of bytes, and    *)
(* what READ, WRITE, VERIFY, UNLOCK and RESET then do with the memory of   *)
(* the part and one file, run after run. A driver does what it is asked to *)
(* or the run ends with a part of it done; how a driver works, and whether *)
(* the part takes a write with the keys of that area, is the subject of    *)
(* Stlink2Write.                                                           *)
(*                                                                         *)
(* A file is raw, its bytes counted from 0, or Intel HEX, its bytes at     *)
(* their addresses and possibly with gaps. Options that only select a      *)
(* programmer or a part are left out: they succeed or the run fails.       *)
(* Bounds: MaxOptions options in a run, MaxRuns runs, addresses 0 to       *)
(* MaxAddr, which is behind the last byte that a run may name.             *)
(***************************************************************************)
EXTENDS Integers, FiniteSetsExt

CONSTANTS
  Start, Size,   \* start and size of "RAM", "EEPROM", "FLASH" and "OPT"
  OptWindow,     \* addresses from 0x4800 that are taken for option bytes, 0x80
  OptionBytes,   \* option_bytes_size
  Rops,          \* the read_out_protection_mode of the parts that a run may name
  Files,         \* the files that a run may find
  Old,           \* what the memory holds at first
  Addresses, Counts,   \* arguments of -s and -b
  MaxAddr, MaxOptions, MaxRuns

Areas == {"RAM", "EEPROM", "FLASH", "OPT"}

\* A raw file has no gaps.
IsFile(f) ==
  /\ f.raw \in BOOLEAN /\ f = [raw |-> f.raw, data |-> f.data]
  /\ DOMAIN f.data \subseteq 0 .. MaxAddr
  /\ f.raw => \E n \in 0 .. MaxAddr + 1 : DOMAIN f.data = 0 .. n - 1

ASSUME CommandLineAssumption ==
  /\ MaxAddr \in Nat /\ Start \in [Areas -> 0 .. MaxAddr] /\ Size \in [Areas -> Nat]
  /\ OptWindow \in Nat /\ Size["OPT"] <= OptWindow /\ OptionBytes \in Nat
  /\ Rops \subseteq {"ROP_UNKNOWN", "ROP_STM8S", "ROP_STM8L"}
  /\ Addresses \subseteq 0 .. MaxAddr /\ Counts \subseteq Int
  /\ \A a \in Addresses \union {Start[x] : x \in Areas}, n \in Counts \union {Size[x] : x \in Areas} :
       a + n <= MaxAddr + 1
  /\ \A f \in Files : IsFile(f)
  /\ MaxOptions \in Nat /\ MaxRuns \in Nat

VARIABLES
  pc,        \* "options", "ready", "opened", "ok", "differs", "failed"
  action, memtype, start, bytes,
  startSpec, bytesSpec,  \* start_addr_specified, bytes_count_specified
  hasFile, needFile,
  given, runs,           \* options of this run, runs so far
  mem, file,
  named,                 \* history: the area that was named last, or "address"
  byAddress,             \* history: an address was given in this run
  origin                 \* history: what READ or WRITE last did with the file, or Nothing

optionVars == <<action, memtype, start, bytes, startSpec, bytesSpec, hasFile, needFile>>
vars == <<pc, optionVars, given, runs, mem, file, named, byAddress, origin>>

Nothing == [op |-> "NONE", start |-> 0, n |-> 0]
Span(from, n) == from .. from + n - 1

Init ==
  /\ pc = "options" /\ given = 0 /\ runs = 1
  /\ action = "NONE" /\ memtype = "FLASH" /\ start = 0 /\ bytes = 0
  /\ startSpec = FALSE /\ bytesSpec = FALSE /\ hasFile = FALSE /\ needFile = TRUE
  /\ mem = [a \in 0 .. MaxAddr |-> Old] /\ file \in Files
  /\ named = "FLASH" /\ byAddress = FALSE /\ origin = Nothing
-----------------------------------------------------------------------------
(***************************************************************************)
(* The option loop: one action per option, in the order given.             *)
(***************************************************************************)
Option ==
  /\ pc = "options" /\ given < MaxOptions /\ given' = given + 1
  /\ UNCHANGED <<pc, runs, mem, file, origin>>

OnFile ==   \* -r, -w, -v
  /\ Option
  /\ action' \in {"READ", "WRITE", "VERIFY"} /\ hasFile' = TRUE
  /\ UNCHANGED <<memtype, start, bytes, startSpec, bytesSpec, needFile, named, byAddress>>

OnUnlock ==   \* -u
  /\ Option
  /\ action' = "UNLOCK" /\ start' = Start["OPT"] /\ memtype' = "OPT" /\ hasFile' = TRUE
  /\ named' = "OPT"
  /\ UNCHANGED <<bytes, startSpec, bytesSpec, needFile, byAddress>>

OnArea ==   \* -s flash, eeprom, ram or opt
  /\ Option
  /\ memtype' \in Areas /\ named' = memtype'
  /\ UNCHANGED <<action, start, bytes, startSpec, bytesSpec, hasFile, needFile, byAddress>>

OnAddress ==   \* -s with an address
  /\ Option
  /\ memtype' = "UNKNOWN" /\ start' \in Addresses /\ startSpec' = TRUE
  /\ named' = "address" /\ byAddress' = TRUE
  /\ UNCHANGED <<action, bytes, bytesSpec, hasFile, needFile>>

OnBytes ==   \* -b
  /\ Option
  /\ bytes' \in Counts /\ bytesSpec' = TRUE
  /\ UNCHANGED <<action, memtype, start, startSpec, hasFile, needFile, named, byAddress>>

OnReset ==   \* -R
  /\ Option
  /\ action' = "RESET" /\ needFile' = FALSE
  /\ UNCHANGED <<memtype, start, bytes, startSpec, bytesSpec, hasFile, named, byAddress>>
-----------------------------------------------------------------------------
(***************************************************************************)
(* Area and number of bytes.                                               *)
(***************************************************************************)
\* Fault: one address too many.
InsideOrNext(area, a) == a \in Span(Start[area], Size[area] + 1)

Inside(area, a) == a \in Span(Start[area], Size[area])

AreaAt(a) ==
  CASE Inside("RAM", a) -> "RAM"
    [] ~Inside("RAM", a) /\ Inside("FLASH", a) -> "FLASH"
    [] ~Inside("RAM", a) /\ ~Inside("FLASH", a) /\ Inside("EEPROM", a) -> "EEPROM"
    [] OTHER -> IF a \in Span(Start["OPT"], OptWindow) THEN "OPT" ELSE "UNKNOWN"

Area == IF memtype = "UNKNOWN" THEN AreaAt(start) ELSE memtype

\* Fault: the number of bytes is taken as given.
AsGiven(area) == IF bytesSpec /\ bytes >= 0 THEN bytes ELSE Size[area]

\* Fault: the comparison is signed.
SignedClamp(area) == IF ~bytesSpec \/ bytes > Size[area] THEN Size[area] ELSE bytes

\* The comparison is unsigned: a negative number is more than every size.
Clamped(area) == IF ~bytesSpec \/ bytes < 0 \/ bytes > Size[area] THEN Size[area] ELSE bytes

Refused == action = "NONE" \/ (needFile /\ ~hasFile)

\* A negative number of bytes outside of all areas is undefined in fwrite and fread and
\* left out.
Decide ==
  /\ pc = "options" /\ given > 0 /\ (Area = "UNKNOWN" => bytes >= 0)
  /\ memtype' = Area
  /\ bytes' = IF Area = "UNKNOWN" THEN bytes ELSE Clamped(Area)
  /\ start' = IF startSpec THEN start ELSE Start[Area]
  /\ startSpec' = TRUE
  /\ pc' = IF Refused THEN "failed" ELSE "ready"
  /\ UNCHANGED <<action, bytesSpec, hasFile, needFile, given, runs, mem, file, named, byAddress, origin>>

\* usb_init and pgm->open.
Open ==
  /\ pc = "ready" /\ pc' \in {"opened", "failed"}
  /\ UNCHANGED <<optionVars, given, runs, mem, file, named, byAddress, origin>>
-----------------------------------------------------------------------------
(***************************************************************************)
(* The operations.                                                         *)
(***************************************************************************)
\* The bytes of the file as the image from start on, by offset.
Image ==
  IF file.raw THEN [k \in DOMAIN file.data \intersect Span(0, bytes) |-> file.data[k]]
  ELSE [k \in {a - start : a \in DOMAIN file.data} |-> file.data[start + k]]

Smaller(a, b) == IF a < b THEN a ELSE b

\* The number of bytes that come of it: for Intel HEX greatest_addr - start.
Length ==
  IF file.raw THEN IF bytesSpec THEN bytes ELSE Smaller(bytes, Cardinality(DOMAIN file.data))
  ELSE IF DOMAIN file.data = {} THEN -start ELSE Max(DOMAIN Image) + 1

Readable == file.raw \/ (DOMAIN file.data \subseteq Span(start, bytes) /\ Length >= 0)

Done == [op |-> action, start |-> start, n |-> bytes]

ReadPart ==
  /\ pc = "opened" /\ action = "READ"
  /\ file' = [file EXCEPT !.data = IF file.raw THEN [k \in Span(0, bytes) |-> mem[start + k]]
                                   ELSE [a \in Span(start, bytes) |-> mem[a]]]
  /\ pc' = "ok" /\ origin' = Done
  /\ UNCHANGED <<optionVars, given, runs, mem, named, byAddress>>

\* The memory with n bytes of the image in it; bytes that no record sets are 0 in the
\* cleared buffer.
Stored(n) ==
  [a \in DOMAIN mem |->
     IF a \notin Span(start, n) THEN mem[a]
     ELSE IF a - start \in DOMAIN Image THEN Image[a - start] ELSE 0]

\* Fault: the last byte is left out.
AllButLast ==
  /\ pc = "opened" /\ action = "WRITE" /\ Readable
  /\ mem' = Stored(Length - 1) /\ origin' = Done
  /\ pc' = "ok"
  /\ UNCHANGED <<optionVars, given, runs, file, named, byAddress>>

WritePart ==
  /\ pc = "opened" /\ action = "WRITE" /\ Readable
  /\ mem' = Stored(Length) /\ origin' = Done
  /\ pc' = "ok"
  /\ UNCHANGED <<optionVars, given, runs, file, named, byAddress>>

SetBytesEqual == \A k \in DOMAIN Image : mem[start + k] = Image[k]

\* Bytes that no record sets are compared too: the buffer is not cleared, so that they
\* are equal or not.
VerifyPart ==
  /\ pc = "opened" /\ action = "VERIFY" /\ Readable
  /\ \/ SetBytesEqual /\ pc' = "ok"
     \/ ~SetBytesEqual /\ pc' = "differs"
     \/ Span(0, Length) \ DOMAIN Image # {} /\ pc' = "differs"
  /\ UNCHANGED <<optionVars, given, runs, mem, file, named, byAddress, origin>>

Unreadable ==
  /\ pc = "opened" /\ action \in {"WRITE", "VERIFY"} /\ ~Readable
  /\ pc' = "failed"
  /\ UNCHANGED <<optionVars, given, runs, mem, file, named, byAddress, origin>>

UnlockByte(k) == IF k > 0 /\ k % 2 = 0 THEN 255 ELSE 0

UnlockData(rop) ==
  CASE rop = "ROP_STM8S"   -> [k \in Span(0, OptionBytes) |-> UnlockByte(k)]
    [] rop = "ROP_STM8L"   -> [k \in {0} |-> 170]
    [] rop = "ROP_UNKNOWN" -> <<>>

\* The memory with the first n of the unlocking bytes in it.
Unlocked(data, n) ==
  [a \in DOMAIN mem |-> IF a - start \in DOMAIN data /\ a < start + n THEN data[a - start] ELSE mem[a]]

UnlockPart ==
  /\ pc = "opened" /\ action = "UNLOCK" /\ origin' = Nothing
  /\ \E rop \in Rops : /\ mem' = Unlocked(UnlockData(rop), OptionBytes)
                       /\ pc' = IF rop = "ROP_UNKNOWN" THEN "failed" ELSE "ok"
  /\ UNCHANGED <<optionVars, given, runs, file, named, byAddress>>

\* A driver gives up, or the file cannot be opened: a READ or VERIFY has done nothing yet, of a
\* WRITE or an UNLOCK some bytes are done.
Broken ==
  /\ pc = "opened" /\ pc' = "failed" /\ UNCHANGED <<optionVars, given, runs, file, named, byAddress>>
  /\ \/ action \in {"READ", "VERIFY"} /\ UNCHANGED <<mem, origin>>
     \/ /\ action = "WRITE" /\ Readable /\ origin' = Nothing
        /\ \E n \in 0 .. Length - 1 : mem' = Stored(n)
     \/ /\ action = "UNLOCK" /\ origin' = Nothing
        /\ \E rop \in Rops, n \in 0 .. OptionBytes - 1 : mem' = Unlocked(UnlockData(rop), n)

\* ihex_write fails: the file was emptied when it was opened, and holds the records before the
\* failure. Writing a raw file is not checked and does not fail here.
Truncated ==
  /\ pc = "opened" /\ action = "READ" /\ ~file.raw /\ pc' = "failed" /\ origin' = Nothing
  /\ \E n \in 0 .. bytes : file' = [file EXCEPT !.data = [a \in Span(start, n) |-> mem[a]]]
  /\ UNCHANGED <<optionVars, given, runs, mem, named, byAddress>>

ResetPart ==
  /\ pc = "opened" /\ action = "RESET" /\ pc' = "ok"
  /\ UNCHANGED <<optionVars, given, runs, mem, file, named, byAddress, origin>>

\* The next invocation, with options of its own.
Again ==
  /\ pc \in {"ok", "differs", "failed"} /\ runs < MaxRuns
  /\ pc' = "options" /\ runs' = runs + 1 /\ given' = 0
  /\ action' = "NONE" /\ memtype' = "FLASH" /\ start' = 0 /\ bytes' = 0
  /\ startSpec' = FALSE /\ bytesSpec' = FALSE /\ hasFile' = FALSE /\ needFile' = TRUE
  /\ named' = "FLASH" /\ byAddress' = FALSE
  /\ UNCHANGED <<mem, file, origin>>

Next == \/ OnFile \/ OnUnlock \/ OnArea \/ OnAddress \/ OnBytes \/ OnReset
        \/ Decide \/ Open \/ ReadPart \/ WritePart \/ VerifyPart \/ Unreadable
        \/ Broken \/ Truncated \/ UnlockPart \/ ResetPart \/ Again

Spec == Init /\ [][Next]_vars
-----------------------------------------------------------------------------
(***************************************************************************)
(* Properties.                                                             *)
(***************************************************************************)
TypeOK ==
  /\ pc \in {"options", "ready", "opened", "ok", "differs", "failed"}
  /\ action \in {"NONE", "READ", "WRITE", "VERIFY", "RESET", "UNLOCK"}
  /\ memtype \in Areas \union {"UNKNOWN"} /\ start \in 0 .. MaxAddr
  /\ startSpec \in BOOLEAN /\ bytesSpec \in BOOLEAN
  /\ hasFile \in BOOLEAN /\ needFile \in BOOLEAN
  /\ bytes \in IF pc \in {"opened", "ok", "differs"} THEN Nat ELSE Int
  /\ DOMAIN mem = 0 .. MaxAddr
  /\ named \in Areas \union {"address"} /\ byAddress \in BOOLEAN

\* Whatever the options, their order and their repetitions: as long as no address was given,
\* a WRITE changes nothing outside of the area that was named last, flash if none was. The
\* number of bytes may be too large or negative, and the file too long. An UNLOCK changes at
\* most option_bytes_size bytes from the start of that area on, which may be more than it has
\* (main.c:697: nothing is clamped there; some parts have 9 option bytes and no EEPROM). With another
\* area named behind -u those are no option bytes, though the message (main.c:720) and the help
\* (main.c:133) say that the option bytes were reset.
NamedAreaOnly ==
  [][~byAddress => \A a \in 0 .. MaxAddr : mem'[a] # mem[a] =>
       IF action = "UNLOCK" THEN a \in Span(Start[named], OptionBytes) ELSE Inside(named, a)]_vars

\* The area whose keys the driver will use is the one the address lies in, or starts at for
\* areas of no bytes; an address outside of all areas gets none. This is so when the address is
\* what was named last: with an area name behind it, the keys are those of the area that was
\* named and the address stays (main.c:438-455).
KeysFit ==
  pc \in {"ready", "opened"} /\ (byAddress => named = "address") =>
    IF memtype = "UNKNOWN" THEN \A a \in Areas : start \notin Span(Start[a], Size[a])
    ELSE \/ start \in Span(Start[memtype], IF memtype = "OPT" THEN OptWindow ELSE Size[memtype])
         \/ ~byAddress /\ start = Start[memtype]

SameBytes == start = origin.start /\ bytes = origin.n
NoGaps == Span(0, Length) \subseteq DOMAIN Image

\* What one run read into the file or wrote from it, another run with the same area and
\* number of bytes verifies, with nothing in between that changed the part and no gaps.
RoundTripVerified == pc = "differs" /\ origin # Nothing /\ SameBytes => ~NoGaps

\* "-v <filename> Verify data in device against file" (main.c:129): with the file it was
\* just written from, the device agrees.
WrittenVerifies == pc = "differs" /\ origin.op = "WRITE" /\ bytesSpec = FALSE => ~SameBytes
=============================================================================
