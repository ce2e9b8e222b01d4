---------------------------- MODULE SwimSession -----------------------------
(***************************************************************************)
(* A session with an ST-Link/V2, V2.1 or V3: stlink2_open, the commands of *)
(* a read or a write, stlink2_srst and the end (stlinkv2.c), behind the    *)
(* search for the programmer of UsbInit. A behaviour is a sequence of      *)
(* invocations; each may die between any two transfers and leaves probe    *)
(* and part as they are. A V2 is told to leave SWIM at the end, the others *)
(* stay in it (pgms[] in main.c has stlink_close for them, which is empty).*)
(*                                                                         *)
(* A SWIM command is sent, and its status is read until it says OK         *)
(* (swim_cmd_internal); then it has had its effect. What the probe reports *)
(* meanwhile changes as it likes. What a write does in detail is in        *)
(* Stlink2Write; here it is one command.                                   *)
(*                                                                         *)
(* Lengths are in units of the read buffer. Bounds: MaxRuns invocations,   *)
(* HsitTries for the 10 retries of stlink2_high_speed, Length for the      *)
(* bytes of a read.                                                        *)
(***************************************************************************)
EXTENDS UsbInit

CONSTANTS
  V2,         \* the kinds that are closed with SWIM_EXIT
  FirstModes, \* modes a probe may be in when it is plugged in
  BufSizes,   \* sizes of the read buffer a probe may report
  Length,     \* of a read
  HsitTries,  \* stlinkv2.c:300
  MaxRuns

ASSUME SessionAssumption ==
  /\ V2 \subseteq Kinds
  /\ FirstModes \subseteq {"dfu", "mass", "debug", "bootloader", "swim"}
  /\ BufSizes \subseteq Nat /\ Length \in Nat
  /\ HsitTries \in Nat /\ MaxRuns \in Nat

VARIABLES
  probe,    \* of each device: its mode, and whether it talks high-speed SWIM
  part,     \* behind each: whether HSIT is set, and whether it listens to high speed
  op,       \* "read" or "write"
  found,    \* the mode the probe reported
  readBuf,  \* read_buf_size
  csr,      \* HSIT as it was read
  retries,  \* of the wait for HSIT
  got,      \* read so far
  data,     \* the buffer that is read into: the place in the part each byte came from
  sent,     \* a SWIM command waits for its status
  word,     \* the status the probe would report now
  status, set, stalls,
  same,     \* history: how often the last status was received in a row, up to 4
  last,     \* history: the last status received
  runs      \* invocations so far

pollVars == <<sent, word, status, set, stalls, same, last>>
toolVars == <<op, found, readBuf, csr, retries, got, data>>
vars == <<usbVars, probe, part, toolVars, pollVars, runs>>

Words == {"ok", "busy", "error"}
MaxStalls == 4

\* The buffer before anything was received; no byte comes from behind the read.
Stale == Length
NoData == [j \in 0 .. Length - 1 |-> Stale]

Init ==
  /\ UsbInitial
  /\ \E m \in FirstModes : probe = [d \in Bus |-> [mode |-> m, fast |-> FALSE]]
  /\ part = [d \in Bus |-> [hsit |-> FALSE, fast |-> FALSE]]
  /\ op = "read" /\ found = "dfu" /\ readBuf = 1 /\ csr = FALSE /\ retries = 0 /\ got = 0
  /\ data = NoData
  /\ sent = FALSE /\ word = "ok" /\ status = [s \in 0 .. 1 |-> "busy"] /\ set = 0 /\ stalls = 0
  /\ same = 0 /\ last = "ok" /\ runs = 0

Ended == {"idle", "ended", "failed"}

\* Where the tool sends SWIM commands, and those that access the memory of the part.
MemCmds  == {"csr", "readcsr", "hsbit", "read", "write", "rstread", "rstbit"}
SwimCmds == MemCmds \union {"assert", "enterseq", "deassert", "swimreset", "speed", "genrst"}

Run ==
  /\ pc \in Ended /\ runs < MaxRuns
  /\ Invoke
  /\ op' \in {"read", "write"} /\ runs' = runs + 1
  /\ found' = "dfu" /\ readBuf' = 1 /\ csr' = FALSE /\ retries' = 0 /\ got' = 0
  /\ data' = NoData /\ UNCHANGED <<probe, part, pollVars>>

Find == UsbStep /\ UNCHANGED <<probe, part, toolVars, pollVars, runs>>
-----------------------------------------------------------------------------
(***************************************************************************)
(* stlink2_open, up to its first SWIM command.                             *)
(***************************************************************************)
SetMode(m) == probe' = [probe EXCEPT ![handle].mode = m]

\* The mode is asked for. What the search for the programmer kept is not used from here on.
GetMode ==
  /\ pc = "version"
  /\ found' = probe[handle].mode
  /\ pc' = IF found' = "swim" THEN "bufsize" ELSE "leave"
  /\ asked' = NoSerial /\ k' = 1 /\ text' = <<>>
  /\ UNCHANGED <<busVars, pgm, handle, probe, part, op, readBuf, csr, retries, got, data, pollVars,
                 runs>>

\* DEBUG_EXIT or DFU_EXIT: the probe falls back to what it is when nothing was asked of it.
LeaveMode ==
  /\ pc = "leave"
  /\ SetMode("mass") /\ pc' = "enter"
  /\ UNCHANGED <<busVars, pgm, asked, k, text, handle, part, toolVars, pollVars, runs>>

\* Fault: only a probe in DFU mode is told to enter SWIM.
EnterFromDfu ==
  /\ pc = "enter"
  /\ IF found = "dfu" THEN SetMode("swim") ELSE UNCHANGED probe
  /\ pc' = "bufsize"
  /\ UNCHANGED <<busVars, pgm, asked, k, text, handle, part, toolVars, pollVars, runs>>

EnterSwim ==
  /\ pc = "enter"
  /\ SetMode("swim") /\ pc' = "bufsize"
  /\ UNCHANGED <<busVars, pgm, asked, k, text, handle, part, toolVars, pollVars, runs>>

\* SWIM_READBUFSIZE; the buffer of the reported mode is used for other replies from here on.
GetBufSize ==
  /\ pc = "bufsize"
  /\ readBuf' \in BufSizes /\ found' = "dfu" /\ pc' = "assert"
  /\ UNCHANGED <<busVars, pgm, asked, k, text, handle, probe, part, op, csr, retries, got, data,
                 pollVars, runs>>
-----------------------------------------------------------------------------
(***************************************************************************)
(* swim_cmd_internal.                                                      *)
(***************************************************************************)
\* The variables of a call that is over.
Quiet ==
  /\ sent' = FALSE /\ word' = "ok" /\ status' = [s \in 0 .. 1 |-> "busy"] /\ set' = 0
  /\ stalls' = 0 /\ same' = 0 /\ last' = "ok"

\* The command goes out. The pair of statuses is what the stack holds, which the first one
\* received may equal or not.
Send ==
  /\ pc \in SwimCmds /\ ~sent
  /\ pc = "read" => got < Length
  /\ sent' = TRUE /\ word' \in Words
  /\ UNCHANGED <<usbVars, probe, part, toolVars, status, set, stalls, same, last, runs>>

Heard ==
  /\ sent
  /\ status' = [status EXCEPT ![set] = word]
  /\ last' = word
  /\ same' = IF word # last THEN 1 ELSE IF same < MaxStalls THEN same + 1 ELSE same

\* Fault: every status starts the count anew.
NoCount == 0

\* Fault: a status that changed does not start the count anew.
CountAll == IF status'[0] # status'[1] THEN stalls ELSE stalls + 1

\* How often two statuses in a row were the same.
StallsNow == IF status'[0] # status'[1] THEN 0 ELSE stalls + 1

\* Not done yet: the command is given up after four stalls.
PollAgain ==
  /\ Heard /\ word # "ok"
  /\ stalls' = StallsNow /\ set' = 1 - set
  /\ IF stalls' < MaxStalls THEN UNCHANGED <<pc, sent>> ELSE pc' = "swimerror" /\ sent' = FALSE
  /\ UNCHANGED <<busVars, pgm, asked, k, text, handle, probe, part, toolVars, word, runs>>

\* The command behind one that was done.
Behind ==
  CASE pc = "assert"    -> "enterseq"
    [] pc = "enterseq"  -> "csr"
    [] pc = "csr"       -> "deassert"
    [] pc = "deassert"  -> "readcsr"
    [] pc = "readcsr"   -> IF part[handle].hsit \/ retries = 0 THEN "swimreset" ELSE "readcsr"
    [] pc = "swimreset" -> IF csr THEN "hsbit" ELSE op
    [] pc = "hsbit"     -> "speed"
    [] pc = "speed"     -> op
    [] pc = "read"      -> "read"
    [] pc = "write"     -> "rstread"
    [] pc = "rstread"   -> "rstbit"
    [] pc = "rstbit"    -> "genrst"
    [] pc = "genrst"    -> "close"

\* What it did to the probe and to the part: a reset ends high speed in the part and takes
\* HSIT back, the entry sequence is sent at low speed, and the high-speed bit is obeyed only
\* with HSIT.
Done ==
  /\ probe' = CASE pc = "enterseq" -> [probe EXCEPT ![handle].fast = FALSE]
                [] pc = "speed" -> [probe EXCEPT ![handle].fast = TRUE]
                [] OTHER -> probe
  /\ part' = CASE pc \in {"assert", "genrst"} ->
                    [part EXCEPT ![handle] = [hsit |-> FALSE, fast |-> FALSE]]
               [] pc = "hsbit" -> [part EXCEPT ![handle].fast = part[handle].hsit]
               [] OTHER -> part

\* Fault: a chunk is always a whole buffer.
WholeBuffer == readBuf

\* Fault: the rest is asked for in one chunk.
WholeRest == Length - got

\* The bytes of the next chunk of a read.
Chunk == IF Length - got > readBuf THEN readBuf ELSE Length - got

\* Where the next chunk is read from: start moves with the buffer.
ReadAddr == got

\* SWIM_READMEM takes what its buffer holds and SWIM_READBUF returns it; what is asked for beyond
\* the buffer is no byte of the part.
Received(i) == IF i < readBuf THEN ReadAddr + i ELSE Stale

\* The status is OK; behind a chunk of a read the bytes are fetched.
PollDone ==
  /\ sent /\ word = "ok"
  /\ Quiet /\ pc' = Behind /\ Done
  /\ csr' = CASE pc = "readcsr" -> part[handle].hsit
              [] pc = "swimreset" -> FALSE
              [] OTHER -> csr
  /\ retries' = CASE pc = "deassert" -> HsitTries
                  [] pc = "readcsr" -> IF csr' \/ retries = 0 THEN 0 ELSE retries - 1
                  [] OTHER -> retries
  /\ got' = IF pc = "read" THEN got + Chunk ELSE got
  /\ data' = [j \in DOMAIN data |->
                IF pc = "read" /\ j \in got .. got + Chunk - 1 THEN Received(j - got) ELSE data[j]]
  /\ UNCHANGED <<busVars, pgm, asked, k, text, handle, op, found, readBuf, runs>>
-----------------------------------------------------------------------------
ReadEnds ==
  /\ pc = "read" /\ ~sent /\ got >= Length
  /\ pc' = "close"
  /\ UNCHANGED <<busVars, pgm, asked, k, text, handle, probe, part, toolVars, pollVars, runs>>

\* SWIM_EXIT for a V2, nothing for the others.
Close ==
  /\ pc = "close"
  /\ IF pgm \in V2 THEN SetMode("mass") ELSE UNCHANGED probe
  /\ pc' = "ended"
  /\ UNCHANGED <<busVars, pgm, asked, k, text, handle, part, toolVars, pollVars, runs>>

\* What a process knew ends with it.
Exit ==
  /\ pc' = "failed" /\ Quiet
  /\ readBuf' = 1 /\ found' = "dfu" /\ csr' = FALSE /\ retries' = 0 /\ got' = 0
  /\ data' = NoData /\ UNCHANGED <<busVars, pgm, asked, k, text, handle, op, runs>>

\* exit(-1) behind the message.
Die == pc = "swimerror" /\ Exit /\ UNCHANGED <<probe, part>>

\* A USB transfer falls short: the program ends, whatever the command under way did.
UsbError ==
  /\ pc \in SwimCmds \union {"version", "leave", "enter", "bufsize", "close"}
  /\ Exit
  /\ \/ UNCHANGED <<probe, part>>
     \/ pc \in SwimCmds /\ sent /\ Done

\* The probe comes to another status.
ProbeWorks ==
  /\ sent
  /\ word' \in Words \ {word}
  /\ UNCHANGED <<usbVars, probe, part, toolVars, sent, status, set, stalls, same, last, runs>>

\* The clock of a part out of reset is trimmed.
HsiTrimmed ==
  /\ pc \in {"readcsr", "swimreset"} /\ ~part[handle].hsit
  /\ part' = [part EXCEPT ![handle].hsit = TRUE]
  /\ UNCHANGED <<usbVars, probe, toolVars, pollVars, runs>>

Tool == \/ Find \/ GetMode \/ LeaveMode \/ EnterSwim \/ GetBufSize \/ Send \/ PollAgain
        \/ PollDone \/ ReadEnds \/ Close \/ Die

Next == Run \/ Tool \/ UsbError \/ ProbeWorks \/ HsiTrimmed

Spec == Init /\ [][Next]_vars
FairSpec == Spec /\ WF_vars(Tool)
-----------------------------------------------------------------------------
TypeOK ==
  /\ handle \in 0 .. NDevices /\ k \in 1 .. NDevices + 1
  /\ pc \in Ended \union SwimCmds \union {"count", "list", "claim", "version", "leave", "enter",
                                          "bufsize", "close", "swimerror"}
  /\ pc \in SwimCmds \union {"version", "close"} => handle \in Candidates
  /\ probe \in [Bus -> [mode : FirstModes \union {"swim", "mass"}, fast : BOOLEAN]]
  /\ part \in [Bus -> [hsit : BOOLEAN, fast : BOOLEAN]]
  /\ status \in [0 .. 1 -> Words] /\ set \in 0 .. 1 /\ stalls \in 0 .. MaxStalls
  /\ got \in 0 .. Length /\ retries \in 0 .. HsitTries

\* Every command that accesses the part goes through a probe in SWIM mode, at the speed the
\* part listens to, whatever mode and speed earlier invocations left behind when they died
\* or ended.
LinkUp ==
  pc \in MemCmds /\ sent => probe[handle].mode = "swim" /\ probe[handle].fast = part[handle].fast

\* A SWIM command is given up only when the last four statuses were one and the same, and
\* it is that one the message shows, though the loop has turned to the other of the pair.
GivenUpForGood == pc = "swimerror" => same = MaxStalls /\ status[set] = last

\* Whatever buffer the probe reports: a read that ends holds each byte of the part in its place,
\* and none from behind the buffer of the probe or left over in that of the caller.
ReadComplete == pc \in {"close", "ended"} /\ op = "read" => \A j \in 0 .. Length - 1 : data[j] = j

\* An invocation ends if the probe has a buffer to read from and its status stops changing
\* some day; the tool has no other bound on its polling (stlinkv2.c:265).
Termination ==
  []<>(readBuf = 0) \/ []<><<ProbeWorks>>_word \/ (pc = "version" ~> pc \in Ended)
=============================================================================
