------------------------------ MODULE HexFiles ------------------------------
(***************************************************************************)
(* The two text formats of memory images: Intel HEX (ihex.c) and Motorola  *)
(* S-records (srec.c). A READ writes the memory from start to end to a     *)
(* file, record by record; later a WRITE or VERIFY reads the file back,    *)
(* for the addresses from lo to hi, after the file was kept, or rewritten  *)
(* the way other tools write files, or had a byte changed, or got a line   *)
(* that is no record, or lost a data record (which also makes it a file    *)
(* with a gap, the way a linker writes one).                               *)
(*                                                                         *)
(* A record is its type, address, data bytes and, where it is compared,    *)
(* checksum; hexadecimal text is left out.                                 *)
(* Bounds: an Intel HEX address and the address of an S1 record count up   *)
(* to Page (2^16 in the code), that of an S2 record up to BigPage (2^24);  *)
(* Segment stands for the 16 that an extended segment address counts for,  *)
(* Chunk stands for the 32 data bytes of a record, MaxEnd bounds the       *)
(* addresses and MaxLen the length of the image.                           *)
(*                                                                         *)
(* The buffer that is read into has the bytes from 0 to hi - lo - 1; buf   *)
(* has the memory before and behind it too, so that a store beside the     *)
(* buffer can be seen.                                                     *)
(***************************************************************************)
EXTENDS Integers, Sequences, FiniteSetsExt

CONSTANTS Formats, Byte, Page, BigPage, Segment, Chunk, MaxEnd, MaxLen

ASSUME FilesAssumption ==
  /\ Formats \subseteq {"ihex", "srec"} /\ Formats # {}
  /\ Byte \subseteq 0 .. 255 /\ Byte # {}
  /\ Page \in Nat /\ Page > 1 /\ BigPage \in Nat /\ BigPage >= Page
  /\ Segment \in 1 .. Page /\ Page % Segment = 0
  /\ Chunk \in 1 .. Page /\ MaxEnd \in Nat /\ MaxLen \in Nat

VARIABLES
  format, start, end,
  image,     \* the memory that was read, from start to end
  phase,     \* "writing", "failed", "file", "reading", "ok", "error"
  next,      \* chunk_start
  curEla,    \* cur_ela, Intel HEX only
  file,      \* the records written, and later those not read yet
  fate,      \* what happened to the file: "kept", "foreign", "byte", "noise" or "lost"
  lo, hi,    \* the addresses that are read back
  buf,       \* the memory at and around the buffer, Hole where nothing was stored
  offset,    \* the upper part of Intel HEX addresses
  found,     \* number_of_records, of S-records
  expected,  \* expected_data_records, or Unknown
  greatest   \* greatest_addr

writerVars == <<format, start, end, image, next, curEla>>
readerVars == <<lo, hi, buf, offset, found, expected, greatest>>
vars == <<writerVars, phase, file, fate, readerVars>>

Hole    == 256
Unknown == -1
Memory  == -MaxEnd .. MaxEnd + 2
Result  == greatest - lo

\* Records; an address counts with its digits to base Page.
ByteSum(data)  == MapThenSumSet(LAMBDA k : data[k], DOMAIN data)
AddrSum(addr)  == (addr % Page) + ((addr \div Page) % Page) + (addr \div (Page * Page))
SrecSum(len, addr, data)  == 255 - ((len + AddrSum(addr) + ByteSum(data)) % 256)

Ihex(type, addr, data) == [type |-> type, len |-> Len(data), addr |-> addr, data |-> data]
Srec(type, width, addr, data) ==
  LET len == Len(data) + width + 1
  IN [type |-> type, len |-> len, addr |-> addr, data |-> data, sum |-> SrecSum(len, addr, data)]

Init ==
  /\ format \in Formats
  /\ start \in 0 .. MaxEnd /\ end \in start .. MaxEnd /\ end - start <= MaxLen
  /\ image \in [start .. end - 1 -> Byte]
  /\ phase = "writing" /\ next = start /\ file = <<>> /\ fate = "kept"
  /\ curEla = IF end > Page - 1 THEN -1 ELSE 0
  /\ lo = start /\ hi = end
  /\ buf = [k \in Memory |-> Hole]
  /\ offset = 0 /\ found = 0 /\ expected = Unknown /\ greatest = 0
-----------------------------------------------------------------------------
(***************************************************************************)
(* ihex_write, srec_write: one record of data at a time.                   *)
(***************************************************************************)
Bytes(n) == [k \in 1 .. n |-> image[next + k - 1]]
MinOf(a, b) == IF a < b THEN a ELSE b

\* Fault: pages are not looked at.
AnyLen == MinOf(end - next, Chunk)

IhexLen ==
  LET n == MinOf(end - next, Chunk)
  IN IF (next % Page) + n > Page - 1 THEN Page - (next % Page) ELSE n

NewPage == IF curEla = next \div Page THEN <<>> ELSE <<Ihex(4, 0, <<next \div Page>>)>>

IhexChunk ==
  /\ phase = "writing" /\ format = "ihex" /\ next < end
  /\ file' = file \o NewPage \o <<Ihex(0, next % Page, Bytes(IhexLen))>>
  /\ curEla' = next \div Page
  /\ next' = next + IhexLen
  /\ UNCHANGED <<format, start, end, image, phase, fate, readerVars>>

IhexEnd ==
  /\ phase = "writing" /\ format = "ihex" /\ next >= end
  /\ file' = Append(file, Ihex(1, 0, <<>>)) /\ phase' = "file"
  /\ UNCHANGED <<writerVars, fate, readerVars>>

\* The disk is full, say: the record that could not be written is missing, the address before
\* it may be there, and the program exits.
IhexFails ==
  /\ phase = "writing" /\ format = "ihex" /\ phase' = "failed"
  /\ file' = file \/ (next < end /\ file' = file \o NewPage)
  /\ UNCHANGED <<writerVars, fate, readerVars>>

\* Type of the data records, one less than the bytes of their addresses.
DataType == IF end < Page THEN 1 ELSE IF end < BigPage THEN 2 ELSE 3

SrecChunk ==
  /\ phase = "writing" /\ format = "srec" /\ next < end
  /\ LET n == MinOf(end - next, Chunk)
     IN /\ file' = Append(file, Srec(DataType, DataType + 1, next, Bytes(n)))
        /\ next' = next + n
  /\ UNCHANGED <<format, start, end, image, curEla, phase, fate, readerVars>>

\* The header is put in front here; the records are counted in S5.
SrecEnd ==
  /\ phase = "writing" /\ format = "srec" /\ next >= end
  /\ file' = <<Srec(0, 2, 0, <<>>)>> \o file
               \o <<Srec(5, 2, Len(file) % Page, <<>>), Srec(10 - DataType, DataType + 1, 0, <<>>)>>
  /\ phase' = "file"
  /\ UNCHANGED <<writerVars, fate, readerVars>>
-----------------------------------------------------------------------------
(***************************************************************************)
(* The file, until it is read.                                             *)
(***************************************************************************)
IsData(r) == IF format = "ihex" THEN r.type = 0 ELSE r.type \in 1 .. 3
DataRecords == {k \in DOMAIN file : IsData(file[k])}
Windows == {w \in (start - 1 .. start + 1) \X (end - 1 .. end + 1) :
              w[1] >= 0 /\ w[2] <= MaxEnd /\ w[1] <= w[2]}

OpenFile(f, what) ==
  /\ phase = "file" /\ phase' = "reading"
  /\ file' = f /\ fate' = what
  /\ \E w \in Windows : lo' = w[1] /\ hi' = w[2]
  /\ UNCHANGED <<writerVars, buf, offset, found, expected, greatest>>

Kept == OpenFile(file, "kept")

\* Linear addresses given as segments, or data records in another order behind a comment.
NoRecord == [type |-> -1, len |-> 0, addr |-> 0, data |-> <<>>]
AsSegment(r) == IF r.type = 4 THEN Ihex(2, 0, <<r.data[1] * (Page \div Segment)>>) ELSE r

Foreign ==
  \/ /\ format = "ihex" /\ \E k \in DOMAIN file : file[k].type = 4
     /\ OpenFile([k \in DOMAIN file |-> AsSegment(file[k])], "foreign")
  \/ /\ format = "srec"
     /\ OpenFile(<<NoRecord>> \o [k \in DOMAIN file |-> IF k \in DataRecords THEN file[Len(file) - k] ELSE file[k]],
                 "foreign")

\* A line that is no record, in a file in which every line has to be one.
OneLineAdded ==
  \E k \in 1 .. Len(file) + 1 :
    format = "ihex" /\ OpenFile([j \in 1 .. Len(file) + 1 |->
      IF j = k THEN NoRecord ELSE file[IF j < k THEN j ELSE j - 1]], "noise")

OneByteChanged ==
  \E k \in DataRecords : \E j \in DOMAIN file[k].data : \E b \in Byte \ {file[k].data[j]} :
    OpenFile([file EXCEPT ![k].data[j] = b], "byte")

OneRecordLost ==
  \E k \in DataRecords :
    OpenFile([j \in 1 .. Len(file) - 1 |-> file[IF j < k THEN j ELSE j + 1]], "lost")
-----------------------------------------------------------------------------
(***************************************************************************)
(* ihex_read, srec_read: one line at a time.                               *)
(***************************************************************************)
Line == Head(file)
OneLine == phase = "reading" /\ file # <<>> /\ file' = Tail(file)

Stored(at, data) == [k \in DOMAIN buf |-> IF k \in at .. at + Len(data) - 1 THEN data[k - at + 1] ELSE buf[k]]
\* Fault: the record that comes last ends the memory.
LastRead(a) == a

Later(a) == IF a > greatest THEN a ELSE greatest

\* Fault: the end is not looked at.
StartsInside(a, n) == n = 0 \/ a >= lo

Fits(a, n) == n = 0 \/ (a >= lo /\ a + n <= hi)

\* Fault: linear addresses are taken for segments.
SegmentBase == Segment

\* What an extended linear address and an extended segment address count for.
ElaBase == Page
EsaBase == Segment

\* The checksum of an Intel HEX record is not looked at; its end record ends nothing.
IhexLine ==
  /\ format = "ihex" /\ OneLine
  /\ LET r == Line
         at == r.addr + offset
     IN CASE r.type = 2 -> /\ offset' = r.data[1] * EsaBase
                           /\ UNCHANGED <<phase, buf, greatest>>
          [] r.type = 4 -> /\ offset' = r.data[1] * ElaBase
                           /\ UNCHANGED <<phase, buf, greatest>>
          [] r.type = 0 /\ Fits(at, r.len) -> /\ buf' = Stored(at - lo, r.data)
                                              /\ greatest' = IF r.len = 0 THEN greatest ELSE Later(at + r.len)
                                              /\ UNCHANGED <<phase, offset>>
          [] r.type = 0 /\ ~Fits(at, r.len) -> phase' = "error" /\ UNCHANGED <<buf, offset, greatest>>
          [] r.type = -1 -> phase' = "error" /\ UNCHANGED <<buf, offset, greatest>>
          [] OTHER -> UNCHANGED <<phase, buf, offset, greatest>>
  /\ UNCHANGED <<writerVars, fate, lo, hi, found, expected>>

\* Fault: the sum is computed and not compared.
AnySum(r) == TRUE

SumIsRight(r) == r.sum = SrecSum(r.len, r.addr, r.data)

\* The address of an S1 record has two bytes; the column of the data is taken from there
\* whatever the type.
DataShift(type) == type - 1

\* Data that end behind the buffer: the store is undefined, and the program may die of it.
Overruns(at, n) == at + n > hi - lo

SrecData ==
  /\ format = "srec" /\ OneLine /\ Line.type \in 1 .. 3
  /\ IF Fits(Line.addr, Len(Line.data))
       THEN /\ buf' = Stored(Line.addr - lo + DataShift(Line.type), Line.data)
            /\ greatest' = Later(Line.addr + Len(Line.data))
            /\ found' = found + 1
            /\ \/ phase' = IF SumIsRight(Line) THEN phase ELSE "error"
               \/ Overruns(Line.addr - lo + DataShift(Line.type), Len(Line.data)) /\ phase' = "error"
       ELSE phase' = "error" /\ UNCHANGED <<buf, found, greatest>>
  /\ UNCHANGED <<writerVars, fate, lo, hi, offset, expected>>

SrecCount ==
  /\ format = "srec" /\ OneLine /\ Line.type = 5
  /\ expected' = Line.addr
  /\ phase' = IF Line.len = 3 /\ SumIsRight(Line) THEN phase ELSE "error"
  /\ UNCHANGED <<writerVars, fate, lo, hi, buf, offset, found, greatest>>

SrecOther ==
  /\ format = "srec" /\ OneLine /\ Line.type \notin {1, 2, 3, 5}
  /\ UNCHANGED <<writerVars, phase, fate, readerVars>>

CountIsRight == expected = Unknown \/ found = expected

FileEnds ==
  /\ phase = "reading" /\ file = <<>>
  /\ phase' = IF CountIsRight THEN "ok" ELSE "error"
  /\ UNCHANGED <<writerVars, file, fate, readerVars>>

Next == \/ IhexChunk \/ IhexEnd \/ IhexFails \/ SrecChunk \/ SrecEnd
        \/ Kept \/ Foreign \/ OneLineAdded \/ OneByteChanged \/ OneRecordLost
        \/ IhexLine \/ SrecData \/ SrecCount \/ SrecOther \/ FileEnds

Spec == Init /\ [][Next]_vars
-----------------------------------------------------------------------------
(***************************************************************************)
(* Properties.                                                             *)
(***************************************************************************)
TypeOK ==
  /\ phase \in {"writing", "failed", "file", "reading", "ok", "error"}
  /\ fate \in {"kept", "foreign", "byte", "noise", "lost"}
  /\ next \in start .. end /\ curEla \in -1 .. MaxEnd
  /\ \A k \in DOMAIN file : file[k].type \in -1 .. 9 /\ file[k].addr \in 0 .. MaxEnd
  /\ lo \in 0 .. MaxEnd /\ hi \in lo .. MaxEnd
  /\ buf \in [Memory -> Byte \union {Hole}]
  /\ offset \in 0 .. MaxEnd /\ greatest \in 0 .. MaxEnd
  /\ found \in Nat /\ expected \in Nat \union {Unknown}

ReadBack ==
  \A k \in DOMAIN buf : buf[k] = IF k + lo \in start .. end - 1 THEN image[k + lo] ELSE Hole

\* A file that was written by READ and kept is read back as it was: every byte at its
\* address, nothing anywhere else, across the 64K pages of Intel HEX; and it is refused
\* only when it does not lie within the addresses that are read. So is one that says the same
\* as other tools do: with segment addresses, in another order, with a comment. S-records as
\* long as two address bytes are enough.
RoundTrip ==
  fate \in {"kept", "foreign"} /\ (format = "ihex" \/ DataType = 1) =>
    /\ phase = "ok" => ReadBack
    /\ phase = "error" => ~(lo <= start /\ end <= hi)

\* The program's own S-records are read back as they were written, whatever their type:
\* srec_write takes S2 records for addresses beyond 16 bits (srec.c:187), in the format that
\* srec.c:47 gives, and srec_read takes all three. That is said of the memory around the buffer
\* too, where the bytes of a record that ends with the window would go.
SrecRoundTrip == format = "srec" /\ fate = "kept" /\ phase = "ok" => ReadBack

Filled == {k \in DOMAIN buf : buf[k] # Hole}

\* Nothing is ever stored beside the buffer that main allocates for the addresses that are read
\* (main.c:617, 655), whichever records survived and whether or not the file is accepted: of
\* Intel HEX, and of S-records as long as two address bytes are enough; the data of S2 and S3
\* records do get past its end (SrecRoundTrip).
WithinWindow == format = "ihex" \/ DataType = 1 => Filled \subseteq 0 .. hi - lo - 1

\* What is returned is where the bytes that were read end: all of them are programmed by WRITE
\* and compared by VERIFY, and no byte behind them, in whatever order the records come and
\* whichever is missing. It is not the number of bytes that were read, which ihex.h:27 calls it:
\* the gaps before and between records count.
ResultIsExtent ==
  (format = "ihex" \/ DataType = 1) /\ phase = "ok" /\ Filled # {} => Result = Max(Filled) + 1

\* In S-records a data byte that was changed never gets past the checksums, and a data record that
\* is missing never past the count of S5; nor does a line that is no record past the reader of
\* Intel HEX.
DamageDetected ==
  phase = "ok" => fate # "noise" /\ (format = "srec" => fate \notin {"byte", "lost"})

\* No Intel HEX record crosses a 64K page (the comment at ihex.c:143), where readers that wrap
\* the 16-bit address would go astray.
WithinPage ==
  format = "ihex" => \A k \in DOMAIN file : file[k].addr + file[k].len <= Page
=============================================================================
