------------------------------ MODULE UsbInit -------------------------------
(***************************************************************************)
(* How the tool finds its programmer: usb_init of main.c, for the          *)
(* programmers that hang on USB. The devices of the bus are looked at in   *)
(* the order of the list; those of another vendor or product are passed    *)
(* over. With -S each one that can be opened is asked for its serial       *)
(* number, which is turned into hexadecimal text and compared.             *)
(*                                                                         *)
(* A serial number is a sequence of characters, each of them two digits of *)
(* the text; the text is what a zero-terminated buffer holds, so that its  *)
(* length is that of the longest number written to it so far. A number     *)
(* that cannot be read writes nothing, as an empty one would.              *)
(***************************************************************************)
EXTENDS Integers, Sequences, SequencesExt

CONSTANTS
  NDevices,  \* devices on the bus
  Kinds,     \* what vendor and product identify
  Serials    \* serial numbers of devices, and what may be asked for

Bus == 1 .. NDevices
NoSerial == <<"none">>

ASSUME UsbAssumption ==
  /\ NDevices \in Nat
  /\ NoSerial \notin Serials /\ <<>> \notin Serials
  /\ \A s \in Serials : s \in Seq(Range(s))

VARIABLES
  kind, serial,  \* of each device
  pc,            \* where the tool is; "ended" and "failed" end it
  pgm,           \* the kind of programmer asked for with -c
  asked,         \* the serial number asked for with -S, or NoSerial
  k,             \* the device the loop is at
  text,          \* serialno_hex
  handle         \* the device that was opened, 0 for none

busVars == <<kind, serial>>
usbVars == <<busVars, pc, pgm, asked, k, text, handle>>

Matching(d)  == kind[d] = pgm
Candidates   == {d \in Bus : Matching(d)}

UsbInitial ==
  /\ kind \in [Bus -> Kinds] /\ serial \in [Bus -> Serials]
  /\ pc = "idle" /\ pgm \in Kinds /\ asked = NoSerial /\ k = 1 /\ text = <<>> /\ handle = 0

\* Fault: the comparison ends with the first character.
FirstCharacter(s) == asked # NoSerial /\ s # <<>> /\ Head(s) = Head(asked)

\* 0 == strcmp(serialno_hex, pgm_serialno).
IsAsked(s) == s = asked

\* serialno_to_hex: the characters of the number over those that were there.
ToHex(number, before) == number \o SubSeq(before, Len(number) + 1, Len(before))

\* libusb_open_device_with_vid_pid: the first device that matches, if it can be opened.
OpenFirst ==
  \/ handle' = 0
  \/ \E d \in Candidates : (\A e \in Candidates : d <= e) /\ handle' = d

\* A tool is started, with or without -S.
Invoke ==
  /\ pgm' \in Kinds /\ asked' \in Serials \union {NoSerial}
  /\ pc' = "count" /\ k' = 1 /\ text' = <<>> /\ handle' = 0
  /\ UNCHANGED busVars

\* The programmers are counted. A single one, with no number asked for, is just opened;
\* of several, the first is opened and then all are listed.
Count ==
  /\ pc = "count"
  /\ IF asked = NoSerial THEN OpenFirst ELSE handle' = handle
  /\ pc' = IF Cardinality(Candidates) > 1 \/ asked # NoSerial THEN "list" ELSE "claim"
  /\ UNCHANGED <<busVars, pgm, asked, k, text>>

\* A device that is no candidate, or cannot be opened, is passed over.
PassOver ==
  /\ pc = "list" /\ k \in Bus
  /\ k' = k + 1
  /\ UNCHANGED <<busVars, pc, pgm, asked, text, handle>>

\* The number is read, if the device tells it, and printed or compared; the one asked for
\* ends the loop.
LookAt ==
  /\ pc = "list" /\ k \in Bus /\ Matching(k)
  /\ \E number \in {serial[k], <<>>} : text' = ToHex(number, text)
  /\ IF asked # NoSerial /\ IsAsked(text')
       THEN handle' = k /\ pc' = "claim" /\ k' = k
       ELSE k' = k + 1 /\ UNCHANGED <<handle, pc>>
  /\ UNCHANGED <<busVars, pgm, asked>>

\* "No programmer with serial number ... found", or the end of the listing.
ListEnds ==
  /\ pc = "list" /\ k \notin Bus
  /\ pc' = IF asked # NoSerial THEN "failed" ELSE "claim"
  /\ UNCHANGED <<busVars, pgm, asked, k, text, handle>>

\* Without a handle the tool ends, as it does when the interface cannot be claimed.
Claim ==
  /\ pc = "claim"
  /\ pc' \in IF handle = 0 THEN {"failed"} ELSE {"failed", "version"}
  /\ UNCHANGED <<busVars, pgm, asked, k, text, handle>>

UsbStep == Count \/ PassOver \/ LookAt \/ ListEnds \/ Claim
-----------------------------------------------------------------------------
Opened == pc = "version" /\ asked # NoSerial

\* "otherwise check if it's the correct one" (main.c:248): with -S the programmer that is
\* opened has the serial number asked for.
RightProgrammer == Opened => serial[handle] = asked

\* That is so at least where all programmers of the kind have numbers of the same length,
\* that of the one asked for: nothing of an earlier number is left in the text then.
RightAmongEquals ==
  Opened /\ (\A d \in Candidates : Len(serial[d]) = Len(asked)) => serial[handle] = asked
=============================================================================
