--------------------------- MODULE EspWriteProofs ---------------------------
(***************************************************************************)
(* Theorems about EspWrite, for every size of the area, every number of    *)
(* faults and every time a unit may take to program.                       *)
(*                                                                         *)
(* They build on each other. TInv: what the commands, the answers and the  *)
(* driver's variables are, and that the stream is in step as long as       *)
(* nothing came late (Line). Paths: each area has its own way through the  *)
(* driver. Behind, Fetched, Known: nothing changes ahead of the driver, so *)
(* that what it read back is still true. Ready: the attempts outlast the   *)
(* programming. Cleanly: what a line without faults adds.                  *)
(***************************************************************************)
EXTENDS EspWrite, Stm8TargetProofs, SequenceTheorems

Ops  == {Srst, Read, Write, HardReset, SwimEntry, GetVersion}
Regs == {"none", "RST", "SWIM_CSR", "DM_CSR2", "KEYS", "CR2", "IAPSR", "MEM"}

\* The commands the driver can have sent.
Commands ==
  {c \in [op : Ops, reg : Regs, arg : Nat, n : 0 .. NBlocks] :
     /\ c.op \in {GetVersion, SwimEntry} => c.n = 1
     /\ c.op = Write => c.n = 0 /\ (c.reg = "MEM" => c.arg \in Blocks)
     /\ c.op = Read /\ c.reg # "MEM" => c.n = 1}

Bytes == 0 .. 255

\* s is what the device says of command c, and nothing else.
Exact(c, s) ==
  /\ Len(s) >= 2 /\ s[1] = c.op
  /\ \/ s[2] = Success /\ Len(s) = 2 + Payload(c)
     \/ s[2] = Failure /\ Len(s) = 4

Sites == CallSites \union {"open", "block", "settle", "wait", "done", "failed"}

LineType == fromDevice \in Seq(Bytes) /\ faults \in 0 .. MaxFaults /\ late \in BOOLEAN

DriverType ==
  /\ version \in Versions /\ len \in 0 .. NBlocks /\ i \in 0 .. len /\ retries \in 0 .. Tries
  /\ buf \in [Blocks -> Contents] /\ current \in [Blocks -> [Offsets -> Bytes]]
  /\ blind \in BOOLEAN /\ unread \in BOOLEAN

Types == TargetTypeOK /\ pc \in Sites /\ LineType /\ DriverType

\* What is on the line was asked for, and what is awaited is what the call site asks for.
Sent ==
  /\ toDevice \in Seq(Commands) /\ asked \in Commands
  /\ asked # NoCommand => pc \in CallSites /\ asked = Request /\ (pc = "optbyte" => i < len)

\* A block is under way only inside the image, and its attempts are not used up.
Underway ==
  /\ pc \in {"mode", "send", "settle", "poll", "wait"} => i < len
  /\ pc \in {"settle", "poll"} => retries > 0

\* In the beginning nothing has come late, so that a version is one the device knows of.
Opening ==
  /\ pc \in {"open", "version"} => ~late
  /\ pc = "version" /\ Len(fromDevice) >= 4 /\ fromDevice[2] = Success => fromDevice[4] \in Versions

\* As long as nothing came late, the line holds the command that is awaited, or its
\* answer, or nothing.
Line ==
  ~late =>
    \/ asked = NoCommand /\ toDevice = <<>> /\ fromDevice = <<>>
    \/ asked # NoCommand /\ toDevice = <<asked>> /\ fromDevice = <<>>
    \/ asked # NoCommand /\ toDevice = <<>> /\ Exact(asked, fromDevice)

TInv == Types /\ Sent /\ Underway /\ Opening /\ Line
-----------------------------------------------------------------------------
(***************************************************************************)
(* Commands and answers.                                                   *)
(***************************************************************************)
LEMMA NoCommandType == NoCommand \in Commands
BY TargetAssumption DEF NoCommand, Command, Commands, Ops, Regs, Srst, Read, Write, GetVersion, SwimEntry

\* A command that keeps to the rules is one of the protocol.
LEMMA CommandType ==
  ASSUME NEW op \in Ops, NEW reg \in Regs, NEW arg \in Nat, NEW n \in 0 .. NBlocks,
         op \in {GetVersion, SwimEntry} => n = 1,
         op = Write => n = 0 /\ (reg = "MEM" => arg \in Blocks),
         op = Read /\ reg # "MEM" => n = 1,
         reg # "none" \/ op # Srst
  PROVE  Command(op, reg, arg, n) \in Commands /\ Command(op, reg, arg, n) # NoCommand
BY DEF Command, Commands, NoCommand

\* Every call site asks for a command of the protocol, and never for none.
LEMMA RequestType ==
  ASSUME DriverType, pc \in CallSites, pc \in {"mode", "send", "optbyte"} => i < len
  PROVE  Request \in Commands /\ Request # NoCommand
<1>0. /\ 1 \in 0 .. NBlocks /\ 0 \in 0 .. NBlocks /\ len \in 0 .. NBlocks /\ i \in Nat
      /\ PrgMode(current[i]) \in Nat /\ Opt \in Nat
      /\ pc \in {"send", "optbyte"} => i \in Blocks
  BY TargetAssumption DEF DriverType, PrgMode, Fast, Std, Opt, Blocks
<1>1. CASE pc = "version"
  <2>1. Request = Command(GetVersion, "none", 0, 1)
    BY <1>1 DEF Request
  <2> QED BY <1>0, <1>1, <2>1, CommandType DEF Ops, Regs, Srst, Read, Write, HardReset, GetVersion, SwimEntry
<1>2. CASE pc = "hold"
  <2>1. Request = Command(HardReset, "none", 1, 0)
    BY <1>2 DEF Request
  <2> QED BY <1>0, <1>2, <2>1, CommandType DEF Ops, Regs, Srst, Read, Write, HardReset, GetVersion, SwimEntry
<1>3. CASE pc = "entry"
  <2>1. Request = Command(SwimEntry, "none", 0, 1)
    BY <1>3 DEF Request
  <2> QED BY <1>0, <1>3, <2>1, CommandType DEF Ops, Regs, Srst, Read, Write, HardReset, GetVersion, SwimEntry
<1>4. CASE pc = "swimcsr"
  <2>1. Request = Command(Write, "SWIM_CSR", 0, 0)
    BY <1>4 DEF Request
  <2> QED BY <1>0, <1>4, <2>1, CommandType DEF Ops, Regs, Srst, Read, Write, HardReset, GetVersion, SwimEntry
<1>5. CASE pc \in {"release", "giveup"}
  <2>1. Request = Command(HardReset, "none", 0, 0)
    BY <1>5 DEF Request
  <2> QED BY <1>0, <1>5, <2>1, CommandType DEF Ops, Regs, Srst, Read, Write, HardReset, GetVersion, SwimEntry
<1>6. CASE pc \in {"csr", "unstallR"}
  <2>1. Request = Command(Read, "DM_CSR2", 0, 1)
    BY <1>6 DEF Request
  <2> QED BY <1>0, <1>6, <2>1, CommandType DEF Ops, Regs, Srst, Read, Write, HardReset, GetVersion, SwimEntry
<1>7. CASE pc = "stall"
  <2>1. Request = Command(Write, "DM_CSR2", 8, 0)
    BY <1>7 DEF Request
  <2> QED BY <1>0, <1>7, <2>1, CommandType DEF Ops, Regs, Srst, Read, Write, HardReset, GetVersion, SwimEntry
<1>8. CASE pc = "unstallW"
  <2>1. Request = Command(Write, "DM_CSR2", 0, 0)
    BY <1>8 DEF Request
  <2> QED BY <1>0, <1>8, <2>1, CommandType DEF Ops, Regs, Srst, Read, Write, HardReset, GetVersion, SwimEntry
<1>9. CASE pc = "keys"
  <2>1. Request = Command(Write, "KEYS", 0, 0)
    BY <1>9 DEF Request
  <2> QED BY <1>0, <1>9, <2>1, CommandType DEF Ops, Regs, Srst, Read, Write, HardReset, GetVersion, SwimEntry
<1>10. CASE pc = "relockW"
  <2>1. Request = Command(Write, "IAPSR", 0, 0)
    BY <1>10 DEF Request
  <2> QED BY <1>0, <1>10, <2>1, CommandType DEF Ops, Regs, Srst, Read, Write, HardReset, GetVersion, SwimEntry
<1>11. CASE pc = "optmode"
  <2>1. Request = Command(Write, "CR2", Opt, 0)
    BY <1>11 DEF Request
  <2> QED BY <1>0, <1>11, <2>1, CommandType DEF Ops, Regs, Srst, Read, Write, HardReset, GetVersion, SwimEntry
<1>12. CASE pc = "readback"
  <2>1. Request = Command(Read, "MEM", 0, len)
    BY <1>12 DEF Request
  <2> QED BY <1>0, <1>12, <2>1, CommandType DEF Ops, Regs, Srst, Read, Write, HardReset, GetVersion, SwimEntry
<1>13. CASE pc = "mode"
  <2>1. Request = Command(Write, "CR2", PrgMode(current[i]), 0)
    BY <1>13 DEF Request
  <2> QED BY <1>0, <1>13, <2>1, CommandType DEF Ops, Regs, Srst, Read, Write, HardReset, GetVersion, SwimEntry
<1>14. CASE pc \in {"send", "optbyte"}
  <2>1. Request = Command(Write, "MEM", i, 0)
    BY <1>14 DEF Request
  <2> QED BY <1>0, <1>14, <2>1, CommandType DEF Ops, Regs, Srst, Read, Write, HardReset, GetVersion, SwimEntry
<1>15. CASE pc \in {"poll", "relockR"}
  <2>1. Request = Command(Read, "IAPSR", 0, 1)
    BY <1>15 DEF Request
  <2> QED BY <1>0, <1>15, <2>1, CommandType DEF Ops, Regs, Srst, Read, Write, HardReset, GetVersion, SwimEntry
<1>16. CASE pc \in {"swimrst", "srst"}
  <2>1. Request = Command(Srst, "RST", 0, 0)
    BY <1>16 DEF Request
  <2> QED BY <1>0, <1>16, <2>1, CommandType DEF Ops, Regs, Srst, Read, Write, HardReset, GetVersion, SwimEntry
<1> QED BY <1>1, <1>2, <1>3, <1>4, <1>5, <1>6, <1>7, <1>8, <1>9, <1>10, <1>11, <1>12, <1>13, <1>14, <1>15, <1>16
        DEF CallSites, OpenSites

\* Two sequences of bytes, one behind the other.
LEMMA Joined ==
  ASSUME NEW a \in Seq(Bytes), NEW b \in Seq(Bytes)
  PROVE  /\ a \o b \in Seq(Bytes) /\ Len(a \o b) = Len(a) + Len(b)
         /\ \A k \in 1 .. Len(a) : (a \o b)[k] = a[k]
         /\ \A k \in 1 .. Len(b) : (a \o b)[Len(a) + k] = b[k]
<1>1. Len(a) \in Nat /\ Len(b) \in Nat
  OBVIOUS
<1>2. /\ a \o b \in Seq(Bytes) /\ Len(a \o b) = Len(a) + Len(b)
      /\ \A k \in 1 .. Len(a) + Len(b) : (a \o b)[k] = IF k <= Len(a) THEN a[k] ELSE b[k - Len(a)]
  BY ConcatProperties
<1>3. ASSUME NEW k \in 1 .. Len(a) PROVE (a \o b)[k] = a[k]
  BY <1>1, <1>2
<1>4. ASSUME NEW k \in 1 .. Len(b) PROVE (a \o b)[Len(a) + k] = b[k]
  <2>1. Len(a) + k \in 1 .. Len(a) + Len(b) /\ ~(Len(a) + k <= Len(a)) /\ Len(a) + k - Len(a) = k
    BY <1>1
  <2> QED BY <1>2, <2>1
<1> QED BY <1>2, <1>3, <1>4

\* The length of the data in the answer to a command.
DataOf(c) == IF c.op \in {Srst, HardReset, Write} THEN 0 ELSE c.n

\* An answer is one, with the data behind the byte that repeats length and address.
LEMMA AnswerShape ==
  ASSUME NEW c \in Commands, NEW data \in Seq(Bytes), Len(data) = DataOf(c)
  PROVE  /\ AnswerTo(c, data) \in Seq(Bytes)
         /\ Exact(c, AnswerTo(c, data)) /\ AnswerTo(c, data)[2] = Success
         /\ \A k \in 1 .. Len(data) : AnswerTo(c, data)[3 + k] = data[k]
<1> DEFINE h == <<c.op, Success>>
           m == IF c.op \in {Srst, HardReset} THEN <<>> ELSE <<Header>>
           t == h \o m
<1>1. c.op \in Bytes /\ c.n \in Nat /\ (c.op = Write => c.n = 0)
  BY DEF Commands, Ops, Bytes, Srst, Read, Write, HardReset, GetVersion, SwimEntry
<1>2. h \in Seq(Bytes) /\ Len(h) = 2 /\ h[1] = c.op /\ h[2] = Success
  BY <1>1 DEF Bytes, Success
<1>3. m \in Seq(Bytes) /\ Len(m) = IF c.op \in {Srst, HardReset} THEN 0 ELSE 1
  <2>1. Header \in Bytes
    BY DEF Bytes, Header
  <2> HIDE DEF Bytes
  <2>2. <<>> \in Seq(Bytes) /\ Len(<<>>) = 0 /\ <<Header>> \in Seq(Bytes) /\ Len(<<Header>>) = 1
    BY <2>1
  <2> QED BY <2>2
<1> HIDE DEF h, m
<1>4. t \in Seq(Bytes) /\ Len(t) = 2 + Len(m) /\ t[1] = c.op /\ t[2] = Success
  <2>1. 1 \in 1 .. Len(h) /\ 2 \in 1 .. Len(h)
    BY <1>2
  <2>2. /\ h \o m \in Seq(Bytes) /\ Len(h \o m) = Len(h) + Len(m)
        /\ \A k \in 1 .. Len(h) : (h \o m)[k] = h[k]
    BY <1>2, <1>3, Joined
  <2> QED BY <1>2, <2>1, <2>2
<1> HIDE DEF t
<1>5. /\ t \o data \in Seq(Bytes) /\ Len(t \o data) = Len(t) + Len(data)
      /\ \A k \in 1 .. Len(t) : (t \o data)[k] = t[k]
      /\ \A k \in 1 .. Len(data) : (t \o data)[Len(t) + k] = data[k]
  BY <1>4, Joined
<1>6. AnswerTo(c, data) = t \o data
  BY DEF AnswerTo, h, m, t
<1>7. Len(t \o data) = 2 + Payload(c)
  <2>1. CASE c.op \in {Srst, HardReset}
    BY <1>3, <1>4, <1>5, <2>1 DEF DataOf, Payload
  <2>2. CASE c.op \notin {Srst, HardReset}
    BY <1>1, <1>3, <1>4, <1>5, <2>2 DEF DataOf, Payload, Write, Srst, HardReset
  <2> QED BY <2>1, <2>2
<1>8. \A k \in 1 .. Len(data) : (t \o data)[3 + k] = data[k]
  <2>1. CASE Len(data) = 0
    BY <2>1
  <2>2. CASE Len(data) # 0
    BY <1>3, <1>4, <1>5, <2>2, SMTT(30) DEF DataOf
  <2> QED BY <2>1, <2>2
<1>9. Len(t \o data) >= 2 /\ (t \o data)[1] = c.op /\ (t \o data)[2] = Success
  BY <1>3, <1>4, <1>5
<1> QED BY <1>5, <1>6, <1>7, <1>8, <1>9 DEF Exact

\* What the device says when SWIM failed is an answer, too.
LEMMA FailureShape ==
  ASSUME NEW c \in Commands
  PROVE  /\ <<c.op, Failure, 255, 252>> \in Seq(Bytes)
         /\ Exact(c, <<c.op, Failure, 255, 252>>)
<1>1. c.op \in Bytes
  BY DEF Commands, Ops, Bytes, Srst, Read, Write, HardReset, GetVersion, SwimEntry
<1> QED BY <1>1 DEF Bytes, Exact, Failure
-----------------------------------------------------------------------------
(***************************************************************************)
(* What the host makes of an answer.                                       *)
(***************************************************************************)
\* A verdict is a Boolean one, over bytes; a good one has the data that was asked for.
LEMMA VerdictType ==
  ASSUME NEW c \in Commands, NEW s \in Seq(Bytes), NEW v \in Verdicts(c, s)
  PROVE  /\ v.ok \in BOOLEAN /\ v.late \in BOOLEAN /\ v.rest \in Seq(Bytes)
         /\ v.ok => /\ v.data \in Seq(Bytes) /\ Len(v.data) = IF c.op \in {Srst, HardReset} THEN 0 ELSE c.n
                    /\ \A k \in 1 .. Len(v.data) : v.data[k] = s[3 + k]
<1>1. Len(s) \in Nat /\ Payload(c) \in Nat /\ c.n \in Nat
  BY DEF Payload, Commands
<1>2. \A m, n \in Int : m >= 1 /\ n <= Len(s) => SubSeq(s, m, n) \in Seq(Bytes)
  <2> TAKE m, n \in Int
  <2> HAVE m >= 1 /\ n <= Len(s)
  <2>1. \A k \in m .. n : s[k] \in Bytes
    BY <1>1
  <2> QED BY <2>1, SubSeqProperties
<1>3. <<>> \in Seq(Bytes)
  OBVIOUS
<1>4. CASE ~Complete(c, s)
  <2>1. v = Verdict(FALSE, <<>>, <<>>, TRUE)
    BY <1>4 DEF Verdicts
  <2> QED BY <1>3, <2>1 DEF Verdict
<1>5. CASE Complete(c, s) /\ s[1] = c.op /\ s[2] = Success
  <2> DEFINE d == SubSeq(s, 4, 2 + Payload(c))
  <2>1. PICK x \in Overread(c, s) : v = Verdict(TRUE, d, SubSeq(s, 3 + Payload(c) + x, Len(s)), FALSE)
    BY <1>5 DEF Verdicts
  <2>2. Len(s) >= 2 + Payload(c)
    BY <1>5 DEF Complete
  <2>3. x \in Nat
    BY <1>1 DEF Overread
  <2>4. SubSeq(s, 3 + Payload(c) + x, Len(s)) \in Seq(Bytes)
    BY <1>1, <1>2, <2>3
  <2>5. d \in Seq(Bytes)
    BY <1>1, <1>2, <2>2
  <2>6. /\ Len(d) = IF 4 <= 2 + Payload(c) THEN Payload(c) - 1 ELSE 0
        /\ \A k \in 1 .. Payload(c) - 1 : d[k] = s[3 + k]
    <3>1. \A k \in 4 .. 2 + Payload(c) : s[k] \in Bytes
      BY <1>1, <2>2
    <3>2. /\ Len(d) = IF 4 <= 2 + Payload(c) THEN (2 + Payload(c)) - 4 + 1 ELSE 0
          /\ \A k \in 1 .. (2 + Payload(c)) - 4 + 1 : d[k] = s[4 + k - 1]
      BY <1>1, <3>1, SubSeqProperties
    <3> HIDE DEF d
    <3>3. (2 + Payload(c)) - 4 + 1 = Payload(c) - 1 /\ \A k \in Int : 4 + k - 1 = 3 + k
      BY <1>1
    <3> QED BY <3>2, <3>3
  <2>7. Len(d) = IF c.op \in {Srst, HardReset} THEN 0 ELSE c.n
    BY <1>1, <2>6 DEF Payload
  <2>8. \A k \in 1 .. Len(d) : d[k] = s[3 + k]
    BY <1>1, <2>6
  <2> HIDE DEF d
  <2> QED BY <2>1, <2>4, <2>5, <2>7, <2>8 DEF Verdict
<1>6. CASE Complete(c, s) /\ s[1] = c.op /\ s[2] = Failure
  <2>1. v = Verdict(FALSE, <<>>, SubSeq(s, 5, Len(s)), FALSE)
    BY <1>6 DEF Verdicts, Success, Failure
  <2> QED BY <1>1, <1>2, <2>1 DEF Verdict
<1>7. CASE Complete(c, s) /\ (s[1] # c.op \/ (s[2] # Success /\ s[2] # Failure))
  <2>1. v = Verdict(FALSE, <<>>, <<>>, FALSE)
    BY <1>7 DEF Verdicts
  <2> QED BY <1>3, <2>1 DEF Verdict
<1> QED BY <1>4, <1>5, <1>6, <1>7

\* An answer that is nothing but one is heard in time and to its last byte.
LEMMA ExactHeard ==
  ASSUME NEW c \in Commands, NEW s \in Seq(Bytes), Exact(c, s), NEW v \in Verdicts(c, s)
  PROVE  ~v.late /\ v.rest = <<>> /\ (v.ok <=> s[2] = Success)
<1>1. Len(s) \in Nat /\ Payload(c) \in Nat
  BY DEF Payload, Commands
<1>2. Complete(c, s)
  <2>1. CASE s[2] = Success /\ Len(s) = 2 + Payload(c)
    BY <1>1, <2>1 DEF Exact, Complete, Success, Failure
  <2>2. CASE s[2] = Failure /\ Len(s) = 4
    BY <1>1, <2>2 DEF Exact, Complete, Success, Failure
  <2> QED BY <2>1, <2>2 DEF Exact
<1>3. \A m, n \in Int : n < m => SubSeq(s, m, n) = <<>>
  BY SubSeqEmpty
<1>4. CASE s[2] = Success
  <2>1. PICK x \in Overread(c, s) :
          v = Verdict(TRUE, SubSeq(s, 4, 2 + Payload(c)), SubSeq(s, 3 + Payload(c) + x, Len(s)), FALSE)
    BY <1>2, <1>4 DEF Verdicts, Exact
  <2>2. x \in Nat /\ Len(s) = 2 + Payload(c)
    BY <1>1, <1>4 DEF Overread, Exact, Success, Failure
  <2>3. SubSeq(s, 3 + Payload(c) + x, Len(s)) = <<>>
    BY <1>1, <1>3, <2>2
  <2> QED BY <1>4, <2>1, <2>3 DEF Verdict
<1>5. CASE s[2] = Failure
  <2>1. v = Verdict(FALSE, <<>>, SubSeq(s, 5, Len(s)), FALSE) /\ Len(s) = 4 /\ s[2] # Success
    BY <1>2, <1>5 DEF Verdicts, Exact, Success, Failure
  <2> QED BY <1>3, <2>1 DEF Verdict
<1> QED BY <1>4, <1>5 DEF Exact

\* Nothing was told yet: the host gives up.
LEMMA NothingHeard ==
  ASSUME NEW c, NEW v \in Verdicts(c, <<>>)
  PROVE  v.late
BY DEF Verdicts, Complete, Verdict
-----------------------------------------------------------------------------
(***************************************************************************)
(* Types, and the stream in step.                                          *)
(***************************************************************************)
\* With what is on the line known, the parts make up the type invariant of the module.
LEMMA TypesOK ==
  ASSUME Types, Sent
  PROVE  TypeOK
<1>1. \A k \in 1 .. Len(toDevice) : toDevice[k].n \in 0 .. NBlocks
  BY DEF Sent, Commands
<1>2. asked.op \in Ops /\ asked.n \in 0 .. NBlocks
  BY DEF Sent, Commands
<1> QED BY <1>1, <1>2 DEF Types, LineType, DriverType, TypeOK, Sites, Ops, Bytes

\* The program starts with such values: an empty line, and nothing asked for.
LEMMA InitialTypes ==
  ASSUME Init
  PROVE  TInv
<1>1. TargetTypeOK
  BY TargetInitType DEF Init
<1>2. EmptyUnit \in Contents /\ EmptyUnit \in [Offsets -> Bytes]
  BY TargetAssumption, EspAssumption DEF EmptyUnit, Contents, Bytes
<1>3. len \in 0 .. NBlocks => 0 \in 0 .. len
  BY TargetAssumption
<1>4. Types
  <2>1. LineType
    <3>1. <<>> \in Seq(Bytes) /\ FALSE \in BOOLEAN
      OBVIOUS
    <3>2. 0 \in 0 .. MaxFaults
      BY EspAssumption
    <3> QED BY <3>1, <3>2 DEF Init, LineType
  <2>2. current \in [Blocks -> [Offsets -> Bytes]] /\ buf \in [Blocks -> Contents]
    BY <1>2 DEF Init
  <2>3. blind \in BOOLEAN /\ unread \in BOOLEAN
    BY DEF Init
  <2>4. version \in Versions /\ len \in 0 .. NBlocks /\ i \in 0 .. len /\ retries \in 0 .. Tries
    BY <1>3 DEF Init, Versions, Tries
  <2> QED BY <1>1, <2>1, <2>2, <2>3, <2>4 DEF Init, Types, DriverType, Sites
<1>5. Sent
  BY NoCommandType DEF Init, Sent
<1> QED BY <1>4, <1>5 DEF Init, TInv, Underway, Opening, Line

\* A command goes out.
LEMMA CallsTypes ==
  ASSUME TInv, Calls
  PROVE  TInv'
<1>1. asked = NoCommand /\ asked' = Request /\ toDevice' = Append(toDevice, Request)
      /\ UNCHANGED <<memtype, targetVars, pc, fromDevice, faults, late, driverVars>>
  BY DEF Calls, Ask
<1>2. pc \in CallSites /\ (pc = "optbyte" => i < len)
  BY DEF Calls
<1>3. Request \in Commands /\ Request # NoCommand
  BY <1>2, RequestType DEF TInv, Types, Underway
<1>4. Request' = Request
  BY <1>1 DEF Request, driverVars, PrgMode, EmptyUnit
<1>5. Types'
  BY <1>1 DEF TInv, Types, TargetTypeOK, LineType, DriverType, driverVars, targetVars
<1>6. Sent'
  <2>1. toDevice' \in Seq(Commands)
    BY <1>1, <1>3 DEF TInv, Sent
  <2> QED BY <1>1, <1>2, <1>3, <1>4, <2>1 DEF Sent, driverVars
<1>7. Underway' /\ Opening'
  BY <1>1 DEF TInv, Underway, Opening, driverVars
<1>8. Line'
  <2>1. CASE ~late
    <3>1. toDevice' = <<asked'>>
      BY <1>1, <2>1 DEF TInv, Line
    <3> QED BY <1>1, <1>3, <2>1, <3>1 DEF TInv, Line
  <2> QED BY <1>1, <2>1 DEF Line
<1> QED BY <1>5, <1>6, <1>7, <1>8 DEF TInv

\* A verdict is heard: nothing is awaited any more, and as long as nothing comes late, it
\* was the answer to what was asked, and all of it.
LEMMA Heeds ==
  ASSUME TInv, NEW v, Hear(v)
  PROVE  /\ asked # NoCommand /\ asked = Request /\ pc \in CallSites /\ (pc = "optbyte" => i < len)
         /\ v.ok \in BOOLEAN /\ v \in Verdicts(asked, fromDevice)
         /\ v.ok => /\ v.data \in Seq(Bytes)
                    /\ Len(v.data) = IF asked.op \in {Srst, HardReset} THEN 0 ELSE asked.n
                    /\ \A k \in 1 .. Len(v.data) : v.data[k] = fromDevice[3 + k]
         /\ ~late' => /\ ~late /\ ~v.late /\ toDevice = <<>> /\ Exact(asked, fromDevice)
                      /\ (v.ok <=> fromDevice[2] = Success)
         /\ asked' = NoCommand /\ LineType' /\ Sent' /\ Line'
         /\ UNCHANGED <<memtype, targetVars, toDevice>>
<1>1. /\ asked # NoCommand /\ v \in Verdicts(asked, fromDevice)
      /\ v.late => toDevice = <<>> \/ faults < MaxFaults
      /\ asked' = NoCommand /\ fromDevice' = v.rest
      /\ late' = (late \/ v.late)
      /\ faults' = IF v.late /\ toDevice # <<>> THEN faults + 1 ELSE faults
      /\ UNCHANGED <<memtype, targetVars, toDevice>>
  BY DEF Hear
<1>2. asked \in Commands /\ toDevice \in Seq(Commands) /\ asked = Request
      /\ pc \in CallSites /\ (pc = "optbyte" => i < len)
  BY <1>1 DEF TInv, Sent
<1>3. fromDevice \in Seq(Bytes) /\ faults \in 0 .. MaxFaults /\ late \in BOOLEAN
  BY DEF TInv, Types, LineType
<1>4. /\ v.ok \in BOOLEAN /\ v.late \in BOOLEAN /\ v.rest \in Seq(Bytes)
      /\ v.ok => /\ v.data \in Seq(Bytes)
                 /\ Len(v.data) = IF asked.op \in {Srst, HardReset} THEN 0 ELSE asked.n
                 /\ \A k \in 1 .. Len(v.data) : v.data[k] = fromDevice[3 + k]
  BY <1>1, <1>2, <1>3, VerdictType
<1>5. LineType'
  <2>1. faults' \in 0 .. MaxFaults
    BY <1>1, <1>3, EspAssumption
  <2>2. late' \in BOOLEAN
    BY <1>1
  <2> QED BY <1>1, <1>4, <2>1, <2>2 DEF LineType
<1>6. Sent'
  BY <1>1, <1>2, NoCommandType DEF Sent
<1>7. ASSUME ~late'
      PROVE  /\ ~late /\ ~v.late /\ toDevice = <<>> /\ Exact(asked, fromDevice) /\ fromDevice' = <<>>
             /\ (v.ok <=> fromDevice[2] = Success)
  <2>1. ~late /\ ~v.late
    BY <1>1, <1>7
  <2>2. fromDevice # <<>>
    BY <1>1, <2>1, NothingHeard
  <2>3. toDevice = <<>> /\ Exact(asked, fromDevice)
    BY <1>1, <2>1, <2>2 DEF TInv, Line
  <2> QED BY <1>1, <1>2, <1>3, <2>1, <2>3, ExactHeard
<1>8. Line'
  BY <1>1, <1>7 DEF Line
<1> QED BY <1>1, <1>2, <1>4, <1>5, <1>6, <1>7, <1>8

\* A step of the driver that asks for nothing leaves the line alone.
LEMMA Silent ==
  ASSUME TInv, asked = NoCommand, UNCHANGED lineVars
  PROVE  LineType' /\ Sent' /\ Line'
<1>1. UNCHANGED <<asked, toDevice, fromDevice, faults, late>>
  BY DEF lineVars
<1> QED BY <1>1, NoCommandType DEF TInv, Types, LineType, Sent, Line, Exact

\* What a register write does keeps the types of the target.
LEMMA RegisterTypes ==
  ASSUME TInv, NEW c \in Commands, c.op = Write, RegisterWrite(c), UNCHANGED memtype
  PROVE  TargetTypeOK'
<1>0. TargetTypeOK
  BY DEF TInv, Types
<1>1. CASE c.reg = "KEYS" /\ WriteKeys(AreaKeys[1], AreaKeys[2])
  BY <1>0, <1>1, WriteKeysType
<1>2. CASE stall' = (c.arg = 8) /\ UNCHANGED <<mem, iapsr, mode, busy, cell>>
  BY <1>0, <1>2 DEF TargetTypeOK
<1>3. CASE mode' = SelectedMode(ModeOf(c.arg), TRUE) /\ UNCHANGED <<mem, iapsr, stall, busy, cell>>
  BY <1>0, <1>3 DEF TargetTypeOK, SelectedMode, ModeOf, Modes
<1>4. CASE iapsr' = AfterIapsrWrite(iapsr, {}) /\ UNCHANGED <<mem, mode, stall, busy, cell>>
  BY <1>0, <1>4 DEF TargetTypeOK, AfterIapsrWrite
<1>5. CASE UNCHANGED targetVars
  BY <1>0, <1>5 DEF TargetTypeOK, targetVars
<1>6. CASE c.reg = "MEM" /\ WriteMem(c.arg, buf[c.arg])
  <2>1. c.arg \in Blocks
    BY <1>6 DEF Commands
  <2>2. buf[c.arg] \in Contents
    BY <2>1 DEF TInv, Types, DriverType
  <2> QED BY <1>0, <1>6, <2>1, <2>2, WriteMemType
<1> QED BY <1>1, <1>2, <1>3, <1>4, <1>5, <1>6 DEF RegisterWrite

\* What a command does to the target, and the data of its answer, have their types.
LEMMA DeviceTypes ==
  ASSUME TInv, DeviceRuns
  PROVE  /\ TargetTypeOK'
         /\ \E data \in Seq(Bytes) :
              /\ Len(data) = DataOf(Head(toDevice)) /\ fromDevice' = fromDevice \o AnswerTo(Head(toDevice), data)
              /\ Head(toDevice).op = GetVersion => data[1] \in Versions
<1> DEFINE c == Head(toDevice)
<1>1. c \in Commands /\ toDevice # <<>> /\ UNCHANGED memtype
  BY DEF DeviceRuns, TInv, Sent
<1> HIDE DEF c
<1>2. TargetTypeOK
  BY DEF TInv, Types
<1>3. <<>> \in Seq(Bytes) /\ Len(<<>>) = 0
  OBVIOUS
<1>4. \A x \in Bytes : <<x>> \in Seq(Bytes) /\ Len(<<x>>) = 1 /\ <<x>>[1] = x
  <2> HIDE DEF Bytes
  <2> QED OBVIOUS
<1>5. CASE c.op \in {GetVersion, SwimEntry} /\ UNCHANGED targetVars /\ \E x \in Versions : fromDevice' = fromDevice \o AnswerTo(c, <<x>>)
  <2>1. PICK x \in Versions : fromDevice' = fromDevice \o AnswerTo(c, <<x>>)
    BY <1>5
  <2>2. TargetTypeOK'
    BY <1>1, <1>2, <1>5 DEF TargetTypeOK, targetVars
  <2>3. x \in Bytes
    BY DEF Bytes, Versions
  <2>4. DataOf(c) = 1
    BY <1>1, <1>5 DEF DataOf, Commands, GetVersion, SwimEntry, Srst, HardReset, Write
  <2> QED BY <1>4, <2>1, <2>2, <2>3, <2>4 DEF c
<1>6. CASE c.op \in {HardReset, Srst} /\ (Reset \/ UNCHANGED targetVars) /\ fromDevice' = fromDevice \o AnswerTo(c, <<>>)
  <2>1. TargetTypeOK'
    <3>1. CASE Reset
      BY <1>1, <1>2, <3>1, ResetType
    <3>2. CASE UNCHANGED targetVars
      BY <1>1, <1>2, <3>2 DEF TargetTypeOK, targetVars
    <3> QED BY <1>6, <3>1, <3>2
  <2>2. DataOf(c) = 0 /\ c.op # GetVersion
    BY <1>6 DEF DataOf, HardReset, Srst, GetVersion
  <2> QED BY <1>3, <1>6, <2>1, <2>2 DEF c
<1>7. CASE c.op = Write /\ RegisterWrite(c) /\ fromDevice' = fromDevice \o AnswerTo(c, <<>>)
  <2>1. TargetTypeOK'
    BY <1>1, <1>7, RegisterTypes
  <2>2. DataOf(c) = 0 /\ c.op # GetVersion
    BY <1>7 DEF DataOf, Write, GetVersion
  <2> QED BY <1>3, <1>7, <2>1, <2>2 DEF c
<1>8. CASE c.op = Read /\ c.reg = "IAPSR" /\ ReadIapsr /\ fromDevice' = fromDevice \o AnswerTo(c, <<IapsrByte>>)
  <2>1. TargetTypeOK'
    BY <1>1, <1>2, <1>8 DEF ReadIapsr, TargetTypeOK
  <2>2. DataOf(c) = 1 /\ c.op # GetVersion
    BY <1>1, <1>8 DEF DataOf, Commands, Srst, HardReset, Write, Read, GetVersion
  <2>3. IapsrByte \in Bytes
    BY DEF IapsrByte, Bytes
  <2> QED BY <1>4, <1>8, <2>1, <2>2, <2>3 DEF c
<1>9. CASE c.op = Read /\ c.reg = "DM_CSR2" /\ UNCHANGED targetVars /\ fromDevice' = fromDevice \o AnswerTo(c, <<IF stall THEN 8 ELSE 0>>)
  <2>1. TargetTypeOK'
    BY <1>1, <1>2, <1>9 DEF TargetTypeOK, targetVars
  <2>2. DataOf(c) = 1 /\ c.op # GetVersion
    BY <1>1, <1>9 DEF DataOf, Commands, Srst, HardReset, Write, Read, GetVersion
  <2>3. (IF stall THEN 8 ELSE 0) \in Bytes
    BY DEF Bytes
  <2> QED BY <1>4, <1>9, <2>1, <2>2, <2>3 DEF c
<1>10. CASE /\ c.op = Read /\ c.reg = "MEM" /\ UNCHANGED targetVars
            /\ fromDevice' = fromDevice \o AnswerTo(c, [k \in 1 .. c.n |-> mem[k - 1][0]])
  <2> DEFINE data == [k \in 1 .. c.n |-> mem[k - 1][0]]
  <2>1. TargetTypeOK'
    BY <1>1, <1>2, <1>10 DEF TargetTypeOK, targetVars
  <2>2. DataOf(c) = c.n /\ c.op # GetVersion /\ c.n \in 0 .. NBlocks
    BY <1>1, <1>10 DEF DataOf, Commands, Srst, HardReset, Write, Read, GetVersion
  <2>3. \A k \in 1 .. c.n : mem[k - 1][0] \in Bytes
    <3> TAKE k \in 1 .. c.n
    <3>1. k - 1 \in Blocks /\ 0 \in Offsets
      BY <2>2, TargetAssumption DEF Blocks, Offsets
    <3>2. mem[k - 1] \in Contents
      BY <1>2, <3>1 DEF TargetTypeOK
    <3>3. mem[k - 1][0] \in Byte
      BY <3>1, <3>2 DEF Contents
    <3> QED BY <3>3, EspAssumption DEF Bytes
  <2>4. data \in [1 .. c.n -> Bytes]
    BY <2>3
  <2>5. data \in Seq(Bytes) /\ Len(data) = c.n
    <3>1. c.n \in Nat
      BY <2>2
    <3> HIDE DEF data
    <3> QED BY <2>4, <3>1
  <2> QED BY <1>10, <2>1, <2>2, <2>5 DEF c
<1> QED BY <1>5, <1>6, <1>7, <1>8, <1>9, <1>10 DEF DeviceRuns, c

\* The device answers one command, with what it does or with an error.
LEMMA Answering ==
  ASSUME TInv, NEW answer \in Seq(Bytes), toDevice # <<>>, Exact(Head(toDevice), answer),
         fromDevice' = fromDevice \o answer, toDevice' = Tail(toDevice),
         UNCHANGED <<memtype, pc, asked, late, driverVars>>,
         pc = "version" /\ Len(answer) >= 4 /\ answer[2] = Success => answer[4] \in Versions,
         TargetTypeOK', faults' \in 0 .. MaxFaults
  PROVE  TInv' /\ (~late' => fromDevice' = answer /\ toDevice = <<asked>> /\ asked # NoCommand /\ toDevice' = <<>>)
<1>1. /\ toDevice \in Seq(Commands) /\ asked \in Commands /\ fromDevice \in Seq(Bytes)
      /\ asked # NoCommand => pc \in CallSites /\ asked = Request /\ (pc = "optbyte" => i < len)
  BY DEF TInv, Sent, Types, LineType
<1>2. toDevice' \in Seq(Commands) /\ fromDevice' \in Seq(Bytes)
  BY <1>1
<1>3. Request' = Request
  BY DEF Request, driverVars, PrgMode, EmptyUnit
<1>4. Sent'
  BY <1>1, <1>2, <1>3 DEF Sent, driverVars
<1>5. Types'
  BY <1>2 DEF TInv, Types, LineType, DriverType, driverVars
<1>6. ASSUME ~late
      PROVE  fromDevice' = answer /\ toDevice = <<asked>> /\ asked # NoCommand /\ toDevice' = <<>>
  <2>1. asked # NoCommand /\ toDevice = <<asked>> /\ fromDevice = <<>>
    BY <1>6 DEF TInv, Line
  <2>2. fromDevice' = answer
    BY <2>1, ConcatEmptySeq
  <2>3. toDevice' = <<>>
    BY <2>1
  <2> QED BY <2>1, <2>2, <2>3
<1>7. Line'
  <2>1. CASE ~late
    <3>1. Head(toDevice) = asked
      BY <1>6, <2>1
    <3> QED BY <1>6, <2>1, <3>1 DEF Line, Exact
  <2> QED BY <2>1 DEF Line
<1>8. Underway'
  BY DEF TInv, Underway, driverVars
<1>9. Opening'
  <2>1. pc = "version" => ~late
    BY DEF TInv, Opening
  <2> QED BY <1>6, <2>1 DEF TInv, Opening
<1> QED BY <1>4, <1>5, <1>6, <1>7, <1>8, <1>9 DEF TInv

\* In the beginning it is the version that is asked for.
LEMMA VersionFirst ==
  ASSUME TInv, pc = "version", toDevice # <<>>
  PROVE  Head(toDevice).op = GetVersion
<1>1. ~late
  BY DEF TInv, Opening
<1>2. toDevice = <<asked>> /\ asked = Request
  BY <1>1 DEF TInv, Line, Sent
<1>3. Request = Command(GetVersion, "none", 0, 1)
  BY DEF Request
<1> QED BY <1>2, <1>3 DEF Command

\* A command that the device obeys is answered with what that command is to be answered with.
LEMMA RunsTypes ==
  ASSUME TInv, DeviceRuns
  PROVE  /\ TInv' /\ UNCHANGED <<memtype, pc, asked, faults, late, driverVars>>
         /\ ~late' => /\ toDevice = <<asked>> /\ asked # NoCommand /\ toDevice' = <<>>
                      /\ fromDevice' \in Seq(Bytes) /\ Exact(asked, fromDevice') /\ fromDevice'[2] = Success
                      /\ \E data \in Seq(Bytes) : /\ Len(data) = DataOf(asked) /\ fromDevice' = AnswerTo(asked, data)
                                                /\ \A k \in 1 .. Len(data) : fromDevice'[3 + k] = data[k]
<1> DEFINE c == Head(toDevice)
<1>1. /\ toDevice # <<>> /\ toDevice' = Tail(toDevice)
      /\ UNCHANGED <<memtype, pc, asked, faults, late, driverVars>>
  BY DEF DeviceRuns
<1>2. c \in Commands
  BY <1>1 DEF TInv, Sent
<1>3. TargetTypeOK'
  BY DeviceTypes
<1>4. PICK data \in Seq(Bytes) : /\ Len(data) = DataOf(c) /\ fromDevice' = fromDevice \o AnswerTo(c, data)
                                 /\ c.op = GetVersion => data[1] \in Versions
  BY DeviceTypes
<1> DEFINE answer == AnswerTo(c, data)
<1>5. /\ answer \in Seq(Bytes) /\ Exact(c, answer) /\ answer[2] = Success
      /\ \A k \in 1 .. Len(data) : answer[3 + k] = data[k]
  BY <1>2, <1>4, AnswerShape
<1>6. pc = "version" /\ Len(answer) >= 4 /\ answer[2] = Success => answer[4] \in Versions
  <2>1. ASSUME pc = "version" PROVE answer[4] \in Versions
    <3>1. c.op = GetVersion
      BY <1>1, <2>1, VersionFirst
    <3>2. Len(data) = 1
      BY <1>2, <1>4, <3>1 DEF DataOf, Commands, GetVersion, SwimEntry, Srst, HardReset, Write
    <3>3. answer[3 + 1] = data[1]
      BY <1>5, <3>2
    <3> QED BY <1>4, <3>1, <3>3
  <2> QED BY <2>1
<1>7. faults' \in 0 .. MaxFaults
  BY <1>1 DEF TInv, Types, LineType
<1> HIDE DEF answer
<1>8. TInv' /\ (~late' => fromDevice' = answer /\ toDevice = <<asked>> /\ asked # NoCommand /\ toDevice' = <<>>)
  <2>1. fromDevice' = fromDevice \o answer
    BY <1>4 DEF answer
  <2> QED BY <1>1, <1>3, <1>5, <1>6, <1>7, <2>1, Answering
<1>9. ASSUME ~late'
      PROVE  /\ toDevice = <<asked>> /\ asked # NoCommand /\ toDevice' = <<>>
             /\ fromDevice' \in Seq(Bytes) /\ Exact(asked, fromDevice') /\ fromDevice'[2] = Success
             /\ \E x \in Seq(Bytes) : /\ Len(x) = DataOf(asked) /\ fromDevice' = AnswerTo(asked, x)
                                    /\ \A k \in 1 .. Len(x) : fromDevice'[3 + k] = x[k]
  <2>1. fromDevice' = answer /\ toDevice = <<asked>> /\ asked # NoCommand /\ toDevice' = <<>>
    BY <1>8, <1>9
  <2>2. c = asked
    BY <2>1
  <2>3. answer = AnswerTo(asked, data)
    BY <2>2 DEF answer
  <2> HIDE DEF c
  <2> QED BY <1>4, <1>5, <2>1, <2>2, <2>3
<1> QED BY <1>1, <1>8, <1>9

\* A command that the device refuses is answered with a failure of the same command.
LEMMA FailsTypes ==
  ASSUME TInv, DeviceFails
  PROVE  /\ TInv' /\ faults' = faults + 1
         /\ UNCHANGED <<memtype, targetVars, pc, asked, late, driverVars>>
         /\ ~late' => /\ toDevice = <<asked>> /\ asked # NoCommand /\ toDevice' = <<>>
                      /\ fromDevice'[2] = Failure
<1> DEFINE c == Head(toDevice)
           answer == <<c.op, Failure, 255, 252>>
<1>1. /\ toDevice # <<>> /\ toDevice' = Tail(toDevice) /\ faults < MaxFaults
      /\ fromDevice' = fromDevice \o answer /\ faults' = faults + 1
      /\ UNCHANGED <<memtype, targetVars, pc, asked, late, driverVars>>
  BY DEF DeviceFails
<1>2. c \in Commands
  BY <1>1 DEF TInv, Sent
<1>3. TargetTypeOK'
  BY <1>1 DEF TInv, Types, TargetTypeOK, targetVars
<1>4. answer \in Seq(Bytes) /\ Exact(c, answer)
  BY <1>2, FailureShape
<1>5. answer[2] = Failure /\ answer[2] # Success
  BY DEF Failure, Success
<1>6. faults' \in 0 .. MaxFaults
  BY <1>1, EspAssumption DEF TInv, Types, LineType
<1> HIDE DEF answer
<1>7. TInv' /\ (~late' => fromDevice' = answer /\ toDevice = <<asked>> /\ asked # NoCommand /\ toDevice' = <<>>)
  BY <1>1, <1>3, <1>4, <1>5, <1>6, Answering
<1> QED BY <1>1, <1>5, <1>7

\* The driver's steps that hear an answer, one after another: what they leave of the types.
HearingSteps == \/ FetchVersion \/ Reconnect \/ Prepare \/ OptMode \/ ReadBack \/ BlockMode \/ SendBlock \/ SendOptByte
                \/ PollDone \/ PollDies \/ PollAgain \/ Relock \/ ResetPart

\* The steps that hear nothing and ask for nothing.
SilentSteps == Open \/ SkipBlock \/ NextBlock \/ Settle \/ Wait \/ LoopEnds

\* Each of these steps takes an answer to the command of its call site off the line.
LEMMA HearingStepsHear ==
  ASSUME HearingSteps
  PROVE  \E v : Hear(v)
BY DEF HearingSteps, FetchVersion, Reconnect, Prepare, OptMode, ReadBack, BlockMode, SendBlock, SendOptByte,
       PollDone, PollDies, PollAgain, Relock, ResetPart

\* What has been seen of the target stays, and the line is quiet behind an answer.
LEMMA HearingLine ==
  ASSUME TInv, HearingSteps
  PROVE  TargetTypeOK' /\ LineType' /\ Sent' /\ Line'
<1>1. PICK v : Hear(v)
  BY HearingStepsHear
<1>2. LineType' /\ Sent' /\ Line' /\ UNCHANGED <<memtype, targetVars>>
  BY <1>1, Heeds
<1> QED BY <1>2 DEF TInv, Types, TargetTypeOK, targetVars

\* They keep the types of the driver's variables, and the bounds of its loop.
LEMMA HearingTypes ==
  ASSUME TInv, HearingSteps
  PROVE  DriverType' /\ pc' \in Sites /\ Underway' /\ Opening'
<1> USE DEF Sites, CallSites, OpenSites
<1>0. DriverType /\ pc \in Sites /\ memtype \in Areas /\ Underway
  BY DEF TInv, Types, TargetTypeOK
<1>1. CASE FetchVersion
  <2>1. PICK v : /\ Hear(v)
                 /\ version' = IF v.ok THEN v.data[1] ELSE version
                 /\ pc' = IF ~v.ok \/ version' > 1 THEN "failed" ELSE IF version' = 1 THEN "hold" ELSE "entry"
    BY <1>1 DEF FetchVersion
  <2>2. pc = "version" /\ UNCHANGED <<len, buf, current, i, retries, blind, unread, old, goal>>
    BY <1>1 DEF FetchVersion
  <2>3. asked = Command(GetVersion, "none", 0, 1)
    <3>1. Request = Command(GetVersion, "none", 0, 1)
      BY <2>2 DEF Request
    <3> QED BY <2>1, <3>1, Heeds
  <2>4. ASSUME v.ok PROVE version' \in Versions
    <3>1. /\ v \in Verdicts(asked, fromDevice) /\ asked # NoCommand
          /\ Len(v.data) = 1 /\ v.data[1] = fromDevice[3 + 1]
      <4>1. asked.op \notin {Srst, HardReset} /\ asked.n = 1
        BY <2>3 DEF Command, GetVersion, Srst, HardReset
      <4>2. /\ v \in Verdicts(asked, fromDevice) /\ asked # NoCommand
            /\ Len(v.data) = 1 /\ \A k \in 1 .. Len(v.data) : v.data[k] = fromDevice[3 + k]
        BY <2>1, <2>4, <4>1, Heeds
      <4> QED BY <4>2
    <3>2. ~late /\ fromDevice \in Seq(Bytes) /\ asked \in Commands
      BY <2>2 DEF TInv, Opening, Types, LineType, Sent
    <3>3. fromDevice # <<>>
      <4>1. SUFFICES ASSUME fromDevice = <<>> PROVE FALSE
        OBVIOUS
      <4>2. v = Verdict(FALSE, <<>>, <<>>, TRUE)
        BY <3>1, <4>1 DEF Verdicts, Complete
      <4> QED BY <2>4, <4>2 DEF Verdict
    <3>4. Exact(asked, fromDevice)
      BY <3>1, <3>2, <3>3 DEF TInv, Line
    <3>5. fromDevice[2] = Success
      BY <2>4, <3>1, <3>2, <3>4, ExactHeard
    <3>6. Len(fromDevice) >= 4
      BY <2>3, <3>4, <3>5, SMTT(30) DEF Exact, Payload, Command, GetVersion, Srst, HardReset, Success, Failure
    <3> QED BY <2>1, <2>2, <2>4, <3>1, <3>5, <3>6 DEF TInv, Opening
  <2>5. version' \in Versions
    BY <1>0, <2>1, <2>4 DEF DriverType
  <2>6. pc' \in {"failed", "hold", "entry"}
    BY <2>1
  <2> QED BY <1>0, <2>2, <2>5, <2>6 DEF DriverType, Underway, Opening
<1>2. CASE Reconnect
  <2>1. /\ pc' \in {"release", "giveup", "failed", "entry", "swimrst", "swimcsr", "csr"}
        /\ version' = (IF pc' = "csr" THEN 0 ELSE version)
        /\ UNCHANGED <<len, buf, current, i, retries, blind, unread, old, goal>>
    BY <1>2 DEF Reconnect
  <2> QED BY <1>0, <2>1 DEF DriverType, Underway, Opening, Versions
<1>3. CASE Prepare
  <2>1. pc' \in {"optmode", "block", "readback", "stall", "keys"} /\ UNCHANGED driverVars
    BY <1>3 DEF Prepare, Prepared
  <2> QED BY <1>0, <2>1 DEF DriverType, Underway, Opening, driverVars
<1>4. CASE OptMode
  BY <1>0, <1>4 DEF OptMode, DriverType, Underway, Opening, driverVars
<1>5. CASE ReadBack
  <2>1. PICK v : /\ Hear(v)
                 /\ current' \in IF v.ok
                                   THEN {[b \in Blocks |-> IF b < len THEN [o \in Offsets |-> v.data[b + 1]]
                                                                      ELSE current[b]]}
                                   ELSE [Blocks -> Contents]
                 /\ unread' = ~v.ok
    BY <1>5 DEF ReadBack
  <2>2. pc = "readback" /\ pc' = "block" /\ UNCHANGED <<version, len, buf, i, retries, blind, old, goal>>
    BY <1>5 DEF ReadBack
  <2>3. unread' \in BOOLEAN
    BY <2>1
  <2>4. current' \in [Blocks -> [Offsets -> Bytes]]
    <3>1. CASE v.ok
      <4>1. Request = Command(Read, "MEM", 0, len)
        BY <2>2 DEF Request
      <4>2. asked = Request
        BY <2>1, Heeds
      <4>3. asked.n = len /\ asked.op \notin {Srst, HardReset}
        BY <4>1, <4>2 DEF Command, Read, Srst, HardReset
      <4>4. v.data \in Seq(Bytes) /\ Len(v.data) = len
        BY <2>1, <3>1, <4>3, Heeds
      <4>5. \A b \in Blocks : b < len => v.data[b + 1] \in Bytes
        <5> TAKE b \in Blocks
        <5> HAVE b < len
        <5>1. b + 1 \in 1 .. Len(v.data)
          BY <1>0, <4>4 DEF DriverType, Blocks
        <5> QED BY <4>4, <5>1
      <4>6. current' = [b \in Blocks |-> IF b < len THEN [o \in Offsets |-> v.data[b + 1]] ELSE current[b]]
        BY <2>1, <3>1
      <4>7. \A b \in Blocks : (IF b < len THEN [o \in Offsets |-> v.data[b + 1]] ELSE current[b]) \in [Offsets -> Bytes]
        BY <1>0, <4>5 DEF DriverType
      <4> QED BY <4>6, <4>7
    <3>2. CASE ~v.ok
      <4>1. current' \in [Blocks -> Contents]
        BY <2>1, <3>2
      <4>2. Contents \subseteq [Offsets -> Bytes]
        BY EspAssumption DEF Contents, Bytes
      <4> QED BY <4>1, <4>2
    <3> QED BY <3>1, <3>2
  <2> QED BY <1>0, <2>2, <2>3, <2>4 DEF DriverType, Underway, Opening
<1>6. CASE BlockMode
  BY <1>0, <1>6 DEF BlockMode, DriverType, Underway, Opening, driverVars
<1>7. CASE SendBlock
  <2>1. /\ pc' \in {"srst", "block", "settle"} /\ (i' = i \/ i' = i + 1) /\ (pc' = "settle" => i' = i)
        /\ retries' = Tries /\ pc = "send" /\ UNCHANGED <<version, len, buf, current, blind, unread, old, goal>>
    BY <1>7 DEF SendBlock
  <2>2. i < len
    BY <1>0, <2>1 DEF Underway
  <2>3. i' \in 0 .. len
    BY <1>0, <2>1, <2>2 DEF DriverType
  <2> QED BY <1>0, <2>1, <2>2, <2>3 DEF DriverType, Underway, Opening, Tries
<1>8. CASE SendOptByte
  <2>1. PICK v : Hear(v)
    BY <1>8 DEF SendOptByte
  <2>2. i < len
    BY <1>8, <2>1, Heeds DEF SendOptByte
  <2> QED BY <1>0, <1>8, <2>2 DEF SendOptByte, DriverType, Underway, Opening, Tries
<1>9. CASE PollDone
  <2>1. PICK v : Hear(v) /\ blind' = (blind \/ ~v.ok)
    BY <1>9 DEF PollDone
  <2>2. blind' \in BOOLEAN
    BY <2>1
  <2>3. /\ pc = "poll" /\ pc' \in {"optbyte", "block"} /\ i' = i + 1
        /\ UNCHANGED <<version, len, buf, current, retries, unread, old, goal>>
    BY <1>9 DEF PollDone
  <2>4. i' \in 0 .. len
    BY <1>0, <2>3 DEF DriverType, Underway
  <2> QED BY <1>0, <2>2, <2>3, <2>4 DEF DriverType, Underway, Opening
<1>10. CASE PollDies
  BY <1>0, <1>10 DEF PollDies, DriverType, Underway, Opening, driverVars
<1>11. CASE PollAgain
  <2>1. /\ pc = "poll" /\ pc' = "wait" /\ retries' = retries - 1
        /\ UNCHANGED <<version, len, buf, current, i, blind, unread, old, goal>>
    BY <1>11 DEF PollAgain
  <2>2. retries' \in 0 .. Tries
    BY <1>0, <2>1 DEF DriverType, Underway, Tries
  <2> QED BY <1>0, <2>1, <2>2 DEF DriverType, Underway, Opening
<1>12. CASE Relock
  <2>1. pc' \in {"relockW", "srst"} /\ UNCHANGED driverVars
    BY <1>12 DEF Relock
  <2> QED BY <1>0, <2>1 DEF DriverType, Underway, Opening, driverVars
<1>13. CASE ResetPart
  <2>1. pc' \in {"unstallR", "unstallW", "done"} /\ UNCHANGED driverVars
    BY <1>13 DEF ResetPart
  <2> QED BY <1>0, <2>1 DEF DriverType, Underway, Opening, driverVars
<1> QED BY <1>1, <1>2, <1>3, <1>4, <1>5, <1>6, <1>7, <1>8, <1>9, <1>10, <1>11, <1>12, <1>13 DEF HearingSteps

\* Where the driver neither asks nor hears, nothing is awaited.
LEMMA SilentLine ==
  ASSUME TInv, SilentSteps
  PROVE  asked = NoCommand /\ UNCHANGED lineVars /\ LineType' /\ Sent' /\ Line'
<1>1. UNCHANGED lineVars
  BY DEF SilentSteps, Open, SkipBlock, NextBlock, Settle, Wait, LoopEnds
<1>2. asked = NoCommand
  <2>1. CASE LoopEnds
    BY <2>1 DEF LoopEnds
  <2>2. CASE ~LoopEnds
    <3>1. pc \notin CallSites
      BY <2>2 DEF SilentSteps, Open, SkipBlock, NextBlock, Settle, Wait, CallSites, OpenSites
    <3> QED BY <3>1 DEF TInv, Sent
  <2> QED BY <2>1, <2>2
<1> QED BY <1>1, <1>2, Silent

\* The steps between the commands keep all of TInv.
LEMMA SilentTypes ==
  ASSUME TInv, SilentSteps
  PROVE  TInv'
<1> USE DEF Sites, CallSites, OpenSites
<1>0. DriverType /\ pc \in Sites /\ TargetTypeOK /\ Underway /\ Opening
  BY DEF TInv, Types
<1>1. LineType' /\ Sent' /\ Line'
  BY SilentLine
<1>2. TargetTypeOK' /\ DriverType' /\ pc' \in Sites /\ Underway' /\ Opening'
  <2>1. CASE Open
    <3>1. UNCHANGED <<fromDevice, late>>
      BY <2>1 DEF Open, lineVars
    <3>2. pc' = "version" => pc = "open" /\ fromDevice = <<>>
      <4>1. pc = "open" /\ ~late /\ asked = NoCommand
        BY <1>0, <2>1, SilentLine DEF Open, Opening, SilentSteps
      <4> QED BY <4>1 DEF TInv, Line
    <3>3. Opening'
      BY <1>0, <2>1, <3>1, <3>2 DEF Open, Opening
    <3> QED BY <1>0, <2>1, <3>3 DEF Open, TargetTypeOK, DriverType, Underway, driverVars, targetVars
  <2>2. CASE SkipBlock
    <3>1. i' \in 0 .. len'
      BY <1>0, <2>2 DEF SkipBlock, DriverType
    <3> QED BY <1>0, <2>2, <3>1 DEF SkipBlock, TargetTypeOK, DriverType, Underway, Opening, targetVars
  <2>3. CASE NextBlock
    BY <1>0, <2>3 DEF NextBlock, TargetTypeOK, DriverType, Underway, Opening, driverVars, targetVars
  <2>4. CASE Settle
    <3>1. TargetTypeOK'
      BY <1>0, <2>4, SleepType DEF Settle
    <3>2. pc' \in {"wait", "poll"} /\ pc = "settle" /\ UNCHANGED driverVars
      BY <2>4 DEF Settle
    <3> QED BY <1>0, <3>1, <3>2 DEF DriverType, Underway, Opening, driverVars
  <2>5. CASE Wait
    <3>1. TargetTypeOK'
      BY <1>0, <2>5, SleepType DEF Wait
    <3>2. /\ pc = "wait" /\ UNCHANGED <<version, len, buf, current, retries, blind, unread, old, goal>>
          /\ \/ retries = 0 /\ pc' = "block" /\ i' = i + 1
             \/ retries # 0 /\ pc' = "poll" /\ i' = i
      BY <2>5 DEF Wait
    <3>3. i' \in 0 .. len
      BY <1>0, <3>2 DEF DriverType, Underway
    <3> QED BY <1>0, <3>1, <3>2, <3>3 DEF DriverType, Underway, Opening
  <2>6. CASE LoopEnds
    BY <1>0, <2>6 DEF LoopEnds, TargetTypeOK, DriverType, Underway, Opening, driverVars, targetVars
  <2> QED BY <2>1, <2>2, <2>3, <2>4, <2>5, <2>6 DEF SilentSteps
<1> QED BY <1>1, <1>2 DEF TInv, Types

\* The steps of driver and device by kind, as the proofs below go through them.
LEMMA Steps ==
  ASSUME Next
  PROVE  Calls \/ HearingSteps \/ SilentSteps \/ DeviceRuns \/ DeviceFails
BY DEF Next, Driver, Device, HearingSteps, SilentSteps

\* The types and the line, wherever driver and device are and whatever came late.
LEMMA TypeInvariant == Spec => []TInv
<1>1. Init => TInv
  BY InitialTypes
<1>2. TInv /\ [Next]_vars => TInv'
  <2> SUFFICES ASSUME TInv, [Next]_vars PROVE TInv'
    OBVIOUS
  <2>1. CASE Calls
    BY <2>1, CallsTypes
  <2>2. CASE HearingSteps
    BY <2>2, HearingLine, HearingTypes DEF TInv, Types
  <2>3. CASE SilentSteps
    BY <2>3, SilentTypes
  <2>4. CASE DeviceRuns
    BY <2>4, RunsTypes
  <2>5. CASE DeviceFails
    BY <2>5, FailsTypes
  <2>6. CASE UNCHANGED vars
    <3>1. UNCHANGED <<memtype, mem, iapsr, mode, stall, busy, cell, pc>>
          /\ UNCHANGED <<asked, toDevice, fromDevice, faults, late, driverVars>>
      BY <2>6 DEF vars, lineVars, targetVars
    <3>2. Request' = Request
      BY <3>1 DEF Request, driverVars, PrgMode, EmptyUnit
    <3>3. Types'
      BY <3>1 DEF TInv, Types, TargetTypeOK, LineType, DriverType, driverVars
    <3>4. Sent'
      BY <3>1, <3>2 DEF TInv, Sent, driverVars
    <3> QED BY <3>1, <3>3, <3>4 DEF TInv, Underway, Opening, Line, Exact, driverVars
  <2> QED BY <2>1, <2>2, <2>3, <2>4, <2>5, <2>6, Steps
<1> QED BY <1>1, <1>2, PTL DEF Spec

\* TypeOK, for every size of the area, every number of faults and every programming time:
\* what is read from the line, in step or not, is never used as anything but bytes, no
\* index leaves the image and no counter of attempts leaves its range.
THEOREM TypeCorrect == Spec => []TypeOK
<1>1. TInv => TypeOK
  BY TypesOK DEF TInv
<1> QED BY <1>1, TypeInvariant, PTL

\* InStep: as long as the host gave up on no answer, every answer is read to the last byte
\* before the next command goes out, so that error_check never takes one for another's.
THEOREM StreamInStep == Spec => []InStep
<1>1. TInv => InStep
  BY DEF TInv, Line, InStep, Answered
<1> QED BY <1>1, TypeInvariant, PTL
-----------------------------------------------------------------------------
(***************************************************************************)
(* The part between two writes.                                            *)
(***************************************************************************)
\* The device has got to the command that is awaited, and told what became of it.
Told    == asked # NoCommand /\ toDevice = <<>>
Done    == Told /\ fromDevice[2] = Success

\* Each area has its own way through the driver.
Paths ==
  /\ memtype = "OPT" => /\ pc \notin {"readback", "block", "mode", "send"}
                        /\ pc = "wait" => retries > 0
  /\ memtype # "OPT" => pc \notin {"optmode", "optbyte"}
  /\ memtype = "RAM" => pc \notin {"keys", "mode", "settle", "poll", "wait", "relockR", "relockW"}

Loop == {"block", "mode", "send", "optbyte", "settle", "poll", "wait"}
Ending == {"relockR", "relockW", "srst", "unstallR", "unstallW", "done"}

\* As long as nothing came late and no failed poll was taken for an EOP: the attempts that
\* are left outlast the programming, and EOP is set only when it has ended.
Ready ==
  ~late /\ ~blind =>
    /\ pc \notin {"send", "optbyte", "settle", "poll", "wait", "failed"} => busy = 0 /\ "EOP" \notin iapsr
    /\ pc \in {"send", "optbyte", "settle"} => busy <= Tries /\ "EOP" \notin iapsr
    /\ pc = "settle" => retries = Tries
    /\ pc \in {"send", "optbyte"} /\ ~Done => busy = 0
    /\ pc = "send" /\ memtype = "RAM" => busy = 0
    /\ pc = "poll" => busy < retries /\ (busy > 0 => "EOP" \notin iapsr)
    /\ pc = "poll" /\ Done => "EOP" \notin iapsr /\ (Bit(fromDevice[4], 4) => busy = 0)
    /\ pc = "wait" => busy <= retries /\ (busy > 0 \/ retries = 0 => "EOP" \notin iapsr)

\* As long as nothing came late, nothing is programmed before the loop and nothing behind
\* the block it is at; the existing contents, if they were read, are still what the part
\* holds there.
Behind ==
  ~late =>
    /\ pc \notin Loop \union Ending \union {"failed"} => busy = 0
    /\ pc \in Loop /\ busy > 0 => cell.blk <= i /\ (pc \in {"block", "mode"} => cell.blk < i)

Fetched == ~late /\ pc = "readback" /\ Done => \A b \in Blocks : b < len => fromDevice[4 + b] = mem[b][0]

Known ==
  ~late /\ ~unread /\ pc \in Loop /\ memtype # "OPT" =>
    \A b \in Blocks : (i < b /\ b < len) \/ (b = i /\ i < len /\ pc \in {"block", "mode"}) => current[b] = mem[b]

(***************************************************************************)
(* What a line without faults adds.                                        *)
(***************************************************************************)
\* The write of the unit the driver is at has reached the part.
Arrived == pc \in {"settle", "poll", "wait"} \/ (pc \in {"send", "optbyte"} /\ Done)

\* The write of the unit the driver is at was refused, and the driver will see that: as a
\* protection, or, with the option bytes, in the end as a missing EOP.
Refused ==
  /\ busy = 0 /\ "EOP" \notin iapsr
  /\ pc = "poll" /\ Done => ~Bit(fromDevice[4], 4)
  /\ memtype # "OPT" => /\ pc # "wait"
                        /\ IF pc = "poll" /\ Done THEN Bit(fromDevice[4], 1) ELSE "WR_PG_DIS" \in iapsr

\* Every command is answered, in time and well.
Faultless == faults = 0 => ~late /\ ~blind /\ ~unread /\ (Told => fromDevice[2] = Success)

\* The part is open for programming all through the loop.
Armed ==
  faults = 0 =>
    /\ pc \in Loop \union {"keys", "optmode", "readback"} \/ (pc = "stall" /\ Done) => stall
    /\ memtype # "RAM" /\ (pc \in Loop \union {"optmode", "readback"} \/ (pc = "keys" /\ Done)) => AreaLock \in iapsr
    /\ memtype = "OPT" /\ (pc \in Loop \/ (pc = "optmode" /\ Done)) => mode = "opt"

\* The mode that is selected when a block is sent fits what the part holds.
Fitted ==
  faults = 0 /\ ((pc = "mode" /\ Done) \/ (pc = "send" /\ memtype # "RAM" /\ ~Done)) =>
    mode \in {"std", "fast"} /\ (mode = "fast" => mem[i] = EmptyUnit)

\* A unit that has reached the part is there, or will be when its programming has ended, or
\* was refused.
Landed ==
  faults = 0 /\ Arrived =>
    /\ memtype = "RAM" => mem[i] = buf[i]
    /\ memtype # "RAM" =>
         \/ Refused
         \/ busy = 0 /\ mem[i] = buf[i]
         \/ busy > 0 /\ cell = [blk |-> i, data |-> buf[i]] /\ (mode = "fast" => mem[i] = EmptyUnit)

\* The driver goes through the whole image, from its beginning.
Whole ==
  faults = 0 => /\ pc \notin Loop \union Ending \union {"failed"} => i = 0
                /\ pc \in Ending => i = len

\* Behind the driver is the image, before it the area as it was.
Halves ==
  /\ old \in [Blocks -> Contents] /\ goal = Overlay(old)
  /\ faults = 0 =>
       \A b \in Blocks : /\ b < i => mem[b] = buf[b]
                         /\ b > i \/ (b = i /\ ~Arrived /\ pc # "failed") => mem[b] = old[b]

\* What the target does while the driver awaits the command of its call site, as long as
\* nothing came late, and what it tells.
Effects ==
  /\ pc \in CallSites
  /\ pc \in {"version", "entry", "swimcsr", "release", "giveup", "csr", "unstallR", "readback"} => UNCHANGED targetVars
  /\ pc \in {"hold", "swimrst", "srst"} => Reset
  /\ pc \in {"stall", "unstallW"} => stall' = (pc = "stall") /\ UNCHANGED <<mem, iapsr, mode, busy, cell>>
  /\ pc = "keys" => WriteKeys(AreaKeys[1], AreaKeys[2])
  /\ pc = "optmode" => mode' = "opt" /\ UNCHANGED <<mem, iapsr, stall, busy, cell>>
  /\ pc = "mode" => /\ mode' = (IF current[i] = EmptyUnit THEN "fast" ELSE "std")
                    /\ UNCHANGED <<mem, iapsr, stall, busy, cell>>
  /\ pc \in {"send", "optbyte"} => WriteMem(i, buf[i])
  /\ pc \in {"poll", "relockR"} => ReadIapsr /\ fromDevice'[4] = IapsrByte
  /\ pc = "relockW" => iapsr' = AfterIapsrWrite(iapsr, {}) /\ UNCHANGED <<mem, mode, stall, busy, cell>>
  /\ pc = "readback" => \A b \in Blocks : b < len => fromDevice'[4 + b] = mem[b][0]

\* What a write command does to the part, register by register.
LEMMA WriteEffects ==
  ASSUME NEW c, c.op = Write, RegisterWrite(c)
  PROVE  /\ c.reg = "DM_CSR2" => stall' = (c.arg = 8) /\ UNCHANGED <<mem, iapsr, mode, busy, cell>>
         /\ c.reg = "KEYS" => WriteKeys(AreaKeys[1], AreaKeys[2])
         /\ c.reg = "CR2" => mode' = ModeOf(c.arg) /\ UNCHANGED <<mem, iapsr, stall, busy, cell>>
         /\ c.reg = "IAPSR" => iapsr' = AfterIapsrWrite(iapsr, {}) /\ UNCHANGED <<mem, mode, stall, busy, cell>>
         /\ c.reg = "SWIM_CSR" => UNCHANGED targetVars
         /\ c.reg = "MEM" => WriteMem(c.arg, buf[c.arg])
BY DEF RegisterWrite, SelectedMode

\* What the part does, and tells, when it obeys the command of a call site.
LEMMA RunsEffects ==
  ASSUME TInv, DeviceRuns, ~late'
  PROVE  Effects /\ Told' /\ Done' /\ asked # NoCommand /\ toDevice # <<>> /\ ~Told /\ ~late
<1>1. /\ UNCHANGED <<memtype, pc, asked, faults, late, driverVars>>
      /\ toDevice = <<asked>> /\ asked # NoCommand /\ toDevice' = <<>> /\ fromDevice'[2] = Success
  BY RunsTypes
<1>2. asked = Request /\ pc \in CallSites /\ asked \in Commands /\ fromDevice = <<>>
  BY <1>1 DEF TInv, Sent, Line
<1>3. Head(toDevice) = asked /\ toDevice # <<>>
  BY <1>1
<1> DEFINE c == asked
<1>4. /\ \/ c.op \in {GetVersion, SwimEntry} /\ UNCHANGED targetVars
         \/ c.op = HardReset /\ (IF c.arg = 1 THEN Reset ELSE UNCHANGED targetVars)
         \/ c.op = Srst /\ Reset
         \/ c.op = Write /\ RegisterWrite(c)
         \/ c.op = Read /\ c.reg = "IAPSR" /\ ReadIapsr /\ fromDevice' = fromDevice \o AnswerTo(c, <<IapsrByte>>)
         \/ c.op = Read /\ c.reg = "DM_CSR2" /\ UNCHANGED targetVars
         \/ /\ c.op = Read /\ c.reg = "MEM" /\ UNCHANGED targetVars
            /\ fromDevice' = fromDevice \o AnswerTo(c, [k \in 1 .. c.n |-> mem[k - 1][0]])
  BY <1>3 DEF DeviceRuns
<1>5. \A s : fromDevice' = fromDevice \o AnswerTo(c, s) /\ s \in Seq(Bytes) /\ Len(s) = DataOf(c) =>
        \A k \in 1 .. Len(s) : fromDevice'[3 + k] = s[k]
  <2> SUFFICES ASSUME NEW s \in Seq(Bytes), fromDevice' = fromDevice \o AnswerTo(c, s), Len(s) = DataOf(c)
               PROVE  \A k \in 1 .. Len(s) : fromDevice'[3 + k] = s[k]
    OBVIOUS
  <2>1. AnswerTo(c, s) \in Seq(Bytes) /\ \A k \in 1 .. Len(s) : AnswerTo(c, s)[3 + k] = s[k]
    BY <1>2, AnswerShape
  <2>2. fromDevice' = AnswerTo(c, s)
    BY <1>2, <2>1, ConcatEmptySeq
  <2> QED BY <2>1, <2>2
<1> USE DEF Command, Srst, Read, Write, HardReset, SwimEntry, GetVersion
<1> HIDE DEF c
<1>6. c = Request
  BY <1>2 DEF c
<1>7. ASSUME pc \in {"version", "entry", "swimcsr"} PROVE Effects
  <2>1. UNCHANGED targetVars
    <3>1. CASE pc = "version"
      BY <1>4, <1>6, <3>1 DEF Request
    <3>2. CASE pc = "entry"
      BY <1>4, <1>6, <3>2 DEF Request
    <3>3. CASE pc = "swimcsr"
      <4>1. c.op = Write /\ c.reg = "SWIM_CSR"
        BY <1>6, <3>3 DEF Request
      <4> QED BY <1>4, <4>1, WriteEffects
    <3> QED BY <1>7, <3>1, <3>2, <3>3
  <2> QED BY <1>2, <1>7, <2>1 DEF Effects
<1>8. ASSUME pc \in {"release", "giveup", "csr", "unstallR"} PROVE Effects
  <2>1. UNCHANGED targetVars
    <3>1. CASE pc \in {"release", "giveup"}
      <4>1. c.op = HardReset /\ c.arg = 0
        BY <1>6, <3>1 DEF Request
      <4> QED BY <1>4, <4>1
    <3>2. CASE pc \in {"csr", "unstallR"}
      <4>1. c.op = Read /\ c.reg = "DM_CSR2"
        BY <1>6, <3>2 DEF Request
      <4> QED BY <1>4, <4>1
    <3> QED BY <1>8, <3>1, <3>2
  <2> QED BY <1>2, <1>8, <2>1 DEF Effects
<1>9. ASSUME pc \in {"hold", "swimrst", "srst"} PROVE Effects
  <2>1. Reset
    <3>1. CASE pc = "hold"
      <4>1. c.op = HardReset /\ c.arg = 1
        BY <1>6, <3>1 DEF Request
      <4> QED BY <1>4, <4>1
    <3>2. CASE pc \in {"swimrst", "srst"}
      <4>1. c.op = Srst
        BY <1>6, <3>2 DEF Request
      <4> QED BY <1>4, <4>1
    <3> QED BY <1>9, <3>1, <3>2
  <2> QED BY <1>2, <1>9, <2>1 DEF Effects
<1>10. ASSUME pc \in {"stall", "unstallW"} PROVE Effects
  <2>1. c.op = Write /\ c.reg = "DM_CSR2" /\ c.arg = IF pc = "stall" THEN 8 ELSE 0
    <3>1. CASE pc = "stall"
      BY <1>6, <3>1 DEF Request
    <3>2. CASE pc = "unstallW"
      BY <1>6, <3>2 DEF Request
    <3> QED BY <1>10, <3>1, <3>2
  <2>2. stall' = (c.arg = 8) /\ UNCHANGED <<mem, iapsr, mode, busy, cell>>
    BY <1>4, <2>1, WriteEffects
  <2>3. (c.arg = 8) <=> (pc = "stall")
    BY <2>1
  <2>4. stall' = (pc = "stall")
    BY <2>2, <2>3, Zenon
  <2> QED BY <1>2, <1>10, <2>2, <2>4 DEF Effects
<1>11. ASSUME pc = "keys" PROVE Effects
  <2>1. c.op = Write /\ c.reg = "KEYS"
    BY <1>6, <1>11 DEF Request
  <2>2. WriteKeys(AreaKeys[1], AreaKeys[2])
    BY <1>4, <2>1, WriteEffects
  <2> QED BY <1>2, <1>11, <2>2 DEF Effects
<1>12. ASSUME pc = "optmode" PROVE Effects
  <2>1. c.op = Write /\ c.reg = "CR2" /\ c.arg = Opt
    BY <1>6, <1>12 DEF Request
  <2>2. mode' = ModeOf(Opt) /\ UNCHANGED <<mem, iapsr, stall, busy, cell>>
    BY <1>4, <2>1, WriteEffects
  <2> QED BY <1>2, <1>12, <2>2 DEF Effects, ModeOf, Opt, Std, Fast
<1>13. ASSUME pc = "mode" PROVE Effects
  <2>1. c.op = Write /\ c.reg = "CR2" /\ c.arg = PrgMode(current[i])
    BY <1>6, <1>13 DEF Request
  <2>2. mode' = ModeOf(PrgMode(current[i])) /\ UNCHANGED <<mem, iapsr, stall, busy, cell>>
    BY <1>4, <2>1, WriteEffects
  <2>3. mode' = (IF current[i] = EmptyUnit THEN "fast" ELSE "std")
    BY <2>2 DEF ModeOf, PrgMode, Opt, Std, Fast
  <2> QED BY <1>2, <1>13, <2>2, <2>3 DEF Effects
<1>14. ASSUME pc \in {"send", "optbyte"} PROVE Effects
  <2>1. c.op = Write /\ c.reg = "MEM" /\ c.arg = i
    BY <1>6, <1>14 DEF Request
  <2>2. WriteMem(i, buf[i])
    BY <1>4, <2>1, WriteEffects
  <2> QED BY <1>2, <1>14, <2>2 DEF Effects
<1>15. ASSUME pc \in {"poll", "relockR"} PROVE Effects
  <2>1. c.op = Read /\ c.reg = "IAPSR" /\ c.n = 1
    BY <1>6, <1>15 DEF Request
  <2>2. ReadIapsr /\ fromDevice' = fromDevice \o AnswerTo(c, <<IapsrByte>>)
    BY <1>4, <2>1
  <2>3. IapsrByte \in Bytes
    BY DEF IapsrByte, Bytes
  <2>4. <<IapsrByte>> \in Seq(Bytes) /\ Len(<<IapsrByte>>) = 1 /\ <<IapsrByte>>[1] = IapsrByte
    <3> HIDE DEF IapsrByte, Bytes
    <3> QED BY <2>3
  <2>5. DataOf(c) = 1
    BY <2>1 DEF DataOf
  <2>6. fromDevice'[3 + 1] = IapsrByte
    <3> DEFINE s == <<IapsrByte>>
    <3>1. s \in Seq(Bytes) /\ Len(s) = 1 /\ s[1] = IapsrByte /\ fromDevice' = fromDevice \o AnswerTo(c, s)
      BY <2>2, <2>4
    <3> HIDE DEF s
    <3>2. \A k \in 1 .. Len(s) : fromDevice'[3 + k] = s[k]
      BY <1>5, <2>5, <3>1
    <3>3. 1 \in 1 .. Len(s)
      BY <3>1
    <3> QED BY <3>1, <3>2, <3>3
  <2> QED BY <1>2, <1>15, <2>2, <2>6 DEF Effects
<1>16. ASSUME pc = "readback" PROVE Effects
  <2>1. c.op = Read /\ c.reg = "MEM" /\ c.n = len /\ len \in 0 .. NBlocks
    BY <1>6, <1>16 DEF Request, TInv, Types, DriverType
  <2> DEFINE s == [k \in 1 .. c.n |-> mem[k - 1][0]]
  <2>2. UNCHANGED targetVars /\ fromDevice' = fromDevice \o AnswerTo(c, s)
    BY <1>4, <2>1
  <2>3. \A k \in 1 .. c.n : mem[k - 1][0] \in Bytes
    <3> TAKE k \in 1 .. c.n
    <3>1. k - 1 \in Blocks /\ 0 \in Offsets
      BY <2>1, TargetAssumption DEF Blocks, Offsets
    <3>2. mem[k - 1] \in Contents
      BY <3>1 DEF TInv, Types, TargetTypeOK
    <3>3. mem[k - 1][0] \in Byte
      BY <3>1, <3>2 DEF Contents
    <3> QED BY <3>3, EspAssumption DEF Bytes
  <2>4. s \in Seq(Bytes) /\ Len(s) = len
    <3>0. c.n \in Nat
      BY <2>1, TargetAssumption
    <3>1. s \in [1 .. c.n -> Bytes] /\ c.n \in Nat
      BY <2>3, <3>0
    <3> HIDE DEF s
    <3> QED BY <2>1, <3>1
  <2>5. DataOf(c) = len
    BY <2>1 DEF DataOf
  <2>6. \A k \in 1 .. len : fromDevice'[3 + k] = s[k]
    <3> HIDE DEF s
    <3> QED BY <1>5, <2>2, <2>4, <2>5
  <2>7. \A b \in Blocks : b < len => fromDevice'[4 + b] = mem[b][0]
    <3> TAKE b \in Blocks
    <3> HAVE b < len
    <3>1. b + 1 \in 1 .. len /\ 3 + (b + 1) = 4 + b /\ (b + 1) - 1 = b
      BY <2>1, TargetAssumption DEF Blocks
    <3>2. s[b + 1] = mem[(b + 1) - 1][0]
      BY <2>1, <3>1
    <3> HIDE DEF s
    <3> QED BY <2>6, <3>1, <3>2
  <2> QED BY <1>2, <1>16, <2>2, <2>7 DEF Effects
<1>17. ASSUME pc = "relockW" PROVE Effects
  <2>1. c.op = Write /\ c.reg = "IAPSR"
    BY <1>6, <1>17 DEF Request
  <2>2. iapsr' = AfterIapsrWrite(iapsr, {}) /\ UNCHANGED <<mem, mode, stall, busy, cell>>
    BY <1>4, <2>1, WriteEffects
  <2> QED BY <1>2, <1>17, <2>2 DEF Effects
<1>18. Effects
  BY <1>2, <1>7, <1>8, <1>9, <1>10, <1>11, <1>12, <1>13, <1>14, <1>15, <1>16, <1>17 DEF CallSites, OpenSites
<1> QED BY <1>1, <1>3, <1>18 DEF Told, Done

\* The driver stays on the way of its area.
LEMMA PathsInvariant == Spec => [](TInv /\ Paths)
<1>1. Init => Paths
  BY DEF Init, Paths
<1>2. TInv /\ Paths /\ [Next]_vars => Paths'
  <2> SUFFICES ASSUME TInv, Paths, [Next]_vars PROVE Paths'
    OBVIOUS
  <2>0. Underway /\ retries \in Nat
    BY DEF TInv, Types, DriverType
  <2>1. CASE Calls
    BY <2>1 DEF Calls, Ask, Paths, driverVars
  <2>2. CASE DeviceRuns \/ DeviceFails
    BY <2>2 DEF DeviceRuns, DeviceFails, Paths, driverVars
  <2>3. CASE UNCHANGED vars
    BY <2>3 DEF vars, Paths, driverVars
  <2>4. CASE HearingSteps
    <3>0. UNCHANGED memtype
      BY <2>4, HearingStepsHear DEF Hear
    <3>1. CASE FetchVersion
      <4>1. pc' \in {"failed", "hold", "entry"}
        BY <3>1 DEF FetchVersion
      <4> QED BY <3>0, <4>1 DEF Paths
    <3>2. CASE Reconnect
      <4>1. pc' \in {"release", "giveup", "failed", "entry", "swimrst", "swimcsr", "csr"}
        BY <3>2 DEF Reconnect
      <4> QED BY <3>0, <4>1 DEF Paths
    <3>3. CASE Prepare
      <4>1. pc' \in {"stall", Prepared} \/ (memtype # "RAM" /\ pc' = "keys")
        BY <3>3 DEF Prepare
      <4>2. Prepared \in IF memtype = "OPT" THEN {"optmode"} ELSE {"block", "readback"}
        BY DEF Prepared
      <4> QED BY <3>0, <4>1, <4>2 DEF Paths
    <3>4. CASE OptMode
      BY <3>0, <3>4 DEF Paths, OptMode
    <3>5. CASE ReadBack
      BY <3>0, <3>5 DEF Paths, ReadBack
    <3>6. CASE BlockMode
      BY <3>0, <3>6 DEF Paths, BlockMode
    <3>7. CASE SendBlock
      BY <3>0, <3>7 DEF Paths, SendBlock
    <3>8. CASE SendOptByte
      BY <3>0, <3>8 DEF Paths, SendOptByte
    <3>9. CASE PollDone
      BY <3>0, <3>9 DEF Paths, PollDone
    <3>10. CASE PollDies
      BY <3>0, <3>10 DEF Paths, PollDies
    <3>11. CASE PollAgain
      <4>1. /\ pc = "poll" /\ pc' = "wait" /\ retries' = retries - 1 /\ (memtype = "OPT" => retries > 1)
        BY <3>11 DEF PollAgain
      <4>2. memtype = "OPT" => retries' > 0
        BY <2>0, <4>1
      <4> QED BY <3>0, <4>1, <4>2 DEF Paths
    <3>12. CASE Relock
      <4>1. pc \in {"relockR", "relockW"} /\ pc' \in {"relockW", "srst"}
        BY <3>12 DEF Relock
      <4> QED BY <3>0, <4>1 DEF Paths
    <3>13. CASE ResetPart
      <4>1. pc' \in {"unstallR", "unstallW", "done"}
        BY <3>13 DEF ResetPart
      <4> QED BY <3>0, <4>1 DEF Paths
    <3> QED BY <2>4, <3>1, <3>2, <3>3, <3>4, <3>5, <3>6, <3>7, <3>8, <3>9, <3>10, <3>11, <3>12, <3>13 DEF HearingSteps
  <2>5. CASE SilentSteps
    <3>1. CASE Open
      BY <3>1 DEF Paths, Open
    <3>2. CASE SkipBlock
      BY <3>2 DEF Paths, SkipBlock
    <3>3. CASE NextBlock
      BY <3>3 DEF Paths, NextBlock
    <3>4. CASE Settle
      BY <2>0, <3>4 DEF Paths, Settle, Underway, driverVars
    <3>5. CASE Wait
      <4>1. /\ pc = "wait" /\ UNCHANGED <<memtype, retries>>
            /\ (retries = 0 /\ pc' = "block") \/ (retries # 0 /\ pc' = "poll")
        BY <3>5 DEF Wait
      <4> QED BY <4>1 DEF Paths
    <3>6. CASE LoopEnds
      BY <3>6 DEF Paths, LoopEnds
    <3> QED BY <2>5, <3>1, <3>2, <3>3, <3>4, <3>5, <3>6 DEF SilentSteps
  <2> QED BY <2>1, <2>2, <2>3, <2>4, <2>5, Steps
<1> QED BY <1>1, <1>2, TypeInvariant, PTL DEF Spec

\* Steps in which nothing is told leave nothing told.
LEMMA NothingTold ==
  ASSUME TInv, Calls \/ HearingSteps \/ SilentSteps
  PROVE  ~Told'
<1>1. CASE Calls
  <2>1. toDevice' = Append(toDevice, Request) /\ toDevice \in Seq(Commands)
    BY <1>1 DEF Calls, Ask, TInv, Sent
  <2>2. toDevice' # <<>>
    BY <2>1
  <2> QED BY <2>2 DEF Told
<1>2. CASE HearingSteps
  BY <1>2, HearingStepsHear, Heeds DEF Told
<1>3. CASE SilentSteps
  BY <1>3, SilentLine DEF Told, lineVars
<1> QED BY <1>1, <1>2, <1>3

\* What a command that reaches the part does to the unit that is programmed, and to the cells.
LEMMA RunsProgram ==
  ASSUME TInv, Behind, DeviceRuns, ~late'
  PROVE  /\ pc \notin {"send", "optbyte"} /\ (pc \in Loop \/ busy = 0) =>
              UNCHANGED mem /\ ((busy' = busy /\ cell' = cell) \/ busy' = 0)
         /\ pc \in {"send", "optbyte"} =>
              /\ \A b \in Blocks : b # i => mem'[b] = mem[b]
              /\ memtype # "RAM" => UNCHANGED mem
              /\ (busy' = busy /\ cell' = cell) \/ cell' = [blk |-> i, data |-> buf[i]]
<1>1. Effects /\ TargetTypeOK /\ i \in 0 .. len /\ len \in 0 .. NBlocks
  BY RunsEffects DEF TInv, Types, DriverType
<1>2. CASE pc \in {"send", "optbyte"}
  <2>1. WriteMem(i, buf[i])
    BY <1>1, <1>2 DEF Effects
  <2>2. \A b \in Blocks : b # i => mem'[b] = mem[b]
    BY <1>1, <2>1 DEF WriteMem, TargetTypeOK
  <2> QED BY <1>2, <2>1, <2>2 DEF WriteMem
<1>3. CASE pc \notin {"send", "optbyte"} /\ (pc \in Loop \/ busy = 0)
  <2>1. CASE pc \in {"hold", "swimrst", "srst"}
    <3>1. Reset /\ busy = 0
      BY <1>1, <1>3, <2>1 DEF Effects, Loop
    <3> QED BY <1>1, <1>3, <3>1, ResetChanges
  <2>2. CASE pc \notin {"hold", "swimrst", "srst"}
    BY <1>1, <1>3, <2>2 DEF Effects, targetVars, WriteKeys, ReadIapsr, CallSites, OpenSites
  <2> QED BY <2>1, <2>2
<1> QED BY <1>2, <1>3

\* Nothing is programmed ahead of the driver (the loop of espstlink_swim_write_range goes upwards).
LEMMA BehindStep ==
  ASSUME TInv, Paths, Behind, [Next]_vars
  PROVE  Behind'
<1> SUFFICES ASSUME ~late' PROVE Behind'
  BY DEF Behind
<1> USE DEF Loop, Ending
<1>0. /\ i \in 0 .. len /\ len \in 0 .. NBlocks /\ NBlocks \in Nat /\ busy \in Nat /\ cell.blk \in Int
      /\ TargetTypeOK /\ pc \in Sites
  BY TargetAssumption DEF TInv, Types, DriverType, TargetTypeOK, Blocks
<1>1. CASE Calls
  BY <1>1 DEF Calls, Ask, Behind, driverVars, targetVars
<1>2. CASE DeviceRuns
  <2>1. UNCHANGED <<pc, late, driverVars>>
    BY <1>2 DEF DeviceRuns
  <2>2. UNCHANGED <<pc, i>> /\ ~late /\ pc \in CallSites
    BY <1>2, <2>1, RunsEffects DEF driverVars, Effects
  <2>3. CASE pc \in {"send", "optbyte"}
    <3>1. (busy' = busy /\ cell' = cell) \/ cell' = [blk |-> i, data |-> buf[i]]
      BY <1>2, <2>3, RunsProgram
    <3> QED BY <1>0, <2>2, <2>3, <3>1 DEF Behind
  <2>4. CASE pc \notin {"send", "optbyte"} /\ pc \notin Ending
    <3>1. pc \in Loop \/ busy = 0
      BY <2>2, <2>4 DEF Behind, CallSites, OpenSites
    <3>2. (busy' = busy /\ cell' = cell) \/ busy' = 0
      BY <1>2, <2>4, <3>1, RunsProgram
    <3> QED BY <1>0, <2>2, <2>4, <3>1, <3>2 DEF Behind
  <2>5. CASE pc \in Ending
    BY <2>2, <2>5 DEF Behind
  <2> QED BY <2>3, <2>4, <2>5
<1>3. CASE DeviceFails
  BY <1>3 DEF DeviceFails, Behind, driverVars, targetVars
<1>4. CASE UNCHANGED vars
  BY <1>4 DEF vars, Behind, driverVars, lineVars, targetVars
<1>5. CASE HearingSteps
  <2>1. ~late /\ UNCHANGED <<memtype, targetVars>>
    BY <1>5, HearingStepsHear, Heeds
  <2>2. busy' = busy /\ cell' = cell
    BY <2>1 DEF targetVars
  <2>3. CASE FetchVersion \/ Reconnect
    <3>1. pc \in OpenSites
      BY <2>3 DEF FetchVersion, Reconnect, OpenSites
    <3>2. pc' \notin Loop
      BY <2>3 DEF FetchVersion, Reconnect
    <3> QED BY <2>1, <2>2, <3>1, <3>2 DEF Behind, OpenSites
  <2>4. CASE Prepare \/ OptMode \/ ReadBack
    <3>1. pc \in {"csr", "stall", "keys", "optmode", "readback"}
      BY <2>4 DEF Prepare, OptMode, ReadBack
    <3> QED BY <2>1, <2>2, <3>1 DEF Behind
  <2>5. CASE BlockMode
    BY <2>1, <2>2, <2>5 DEF BlockMode, Behind, driverVars
  <2>6. CASE SendBlock
    <3>1. pc = "send" /\ pc' \in {"srst", "settle", "block"} /\ i' \in {i, i + 1} /\ (pc' = "block" => i' = i + 1)
      BY <2>6 DEF SendBlock
    <3> QED BY <1>0, <2>1, <2>2, <3>1 DEF Behind
  <2>7. CASE SendOptByte
    BY <1>0, <2>1, <2>2, <2>7 DEF SendOptByte, Behind
  <2>8. CASE PollDone
    <3>1. pc = "poll" /\ i' = i + 1 /\ pc' \in {"optbyte", "block"}
      BY <2>8 DEF PollDone
    <3> QED BY <1>0, <2>1, <2>2, <3>1 DEF Behind
  <2>9. CASE PollDies
    BY <2>9 DEF PollDies, Behind
  <2>10. CASE PollAgain
    BY <1>0, <2>1, <2>2, <2>10 DEF PollAgain, Behind
  <2>11. CASE Relock \/ ResetPart
    <3>1. pc' \in Ending
      BY <2>11 DEF Relock, ResetPart
    <3> QED BY <3>1 DEF Behind
  <2> QED BY <1>5, <2>3, <2>4, <2>5, <2>6, <2>7, <2>8, <2>9, <2>10, <2>11 DEF HearingSteps
<1>6. CASE SilentSteps
  <2>1. ~late
    BY <1>6, SilentLine DEF lineVars
  <2>2. CASE Open
    BY <2>1, <2>2 DEF Open, Behind, targetVars
  <2>3. CASE SkipBlock
    BY <1>0, <2>1, <2>3 DEF SkipBlock, Behind, targetVars
  <2>4. CASE NextBlock
    <3>1. pc = "block" /\ pc' \in {"send", "mode"} /\ UNCHANGED <<i, busy, cell>>
      BY <2>4 DEF NextBlock, targetVars, driverVars
    <3> QED BY <1>0, <2>1, <3>1 DEF Behind
  <2>5. CASE Settle
    <3>1. pc = "settle" /\ pc' \in {"wait", "poll"} /\ i' = i /\ Sleep
      BY <2>5 DEF Settle, driverVars
    <3>2. busy' = 0 \/ (busy > 0 /\ cell' = cell)
      BY <1>0, <3>1, SleepChanges
    <3> QED BY <1>0, <2>1, <3>1, <3>2 DEF Behind
  <2>6. CASE Wait
    <3>1. pc = "wait" /\ ((pc' = "block" /\ i' = i + 1) \/ (pc' = "poll" /\ i' = i)) /\ Sleep
      BY <2>6 DEF Wait
    <3>2. busy' = 0 \/ (busy > 0 /\ cell' = cell)
      BY <1>0, <3>1, SleepChanges
    <3> QED BY <1>0, <2>1, <3>1, <3>2 DEF Behind
  <2>7. CASE LoopEnds
    <3>1. pc' \in Ending
      BY <2>7 DEF LoopEnds
    <3> QED BY <3>1 DEF Behind
  <2> QED BY <1>6, <2>2, <2>3, <2>4, <2>5, <2>6, <2>7 DEF SilentSteps
<1> QED BY <1>1, <1>2, <1>3, <1>4, <1>5, <1>6, Steps

\* The answer to the read-back is what the part holds.
LEMMA FetchedStep ==
  ASSUME TInv, Fetched, [Next]_vars
  PROVE  Fetched'
<1>1. CASE Calls \/ HearingSteps \/ SilentSteps
  BY <1>1, NothingTold DEF Fetched, Done
<1>2. CASE DeviceRuns
  <2> SUFFICES ASSUME ~late', pc' = "readback" PROVE \A b \in Blocks : b < len' => fromDevice'[4 + b] = mem'[b][0]
    BY DEF Fetched
  <2>1. Effects /\ pc = "readback" /\ len' = len
    BY <1>2, RunsEffects, RunsTypes DEF driverVars
  <2>2. mem' = mem
    BY <2>1 DEF Effects, targetVars
  <2> QED BY <2>1, <2>2 DEF Effects
<1>3. CASE DeviceFails
  <2>1. ~late' => fromDevice'[2] # Success
    BY <1>3, FailsTypes DEF Failure, Success
  <2> QED BY <2>1 DEF Fetched, Done
<1>4. CASE UNCHANGED vars
  BY <1>4 DEF vars, Fetched, Done, Told, driverVars, lineVars, targetVars
<1> QED BY <1>1, <1>2, <1>3, <1>4, Steps

\* A unit is one byte: it is what its byte says.
LEMMA OneByte ==
  ASSUME NEW u \in Contents
  PROVE  u = [o \in Offsets |-> u[0]]
<1>1. Offsets = {0}
  BY EspAssumption DEF Offsets
<1> QED BY <1>1 DEF Contents

\* What was read back stays what the part holds, in front of the driver.
LEMMA KnownStep ==
  ASSUME TInv, Paths, Behind, Fetched, Known, [Next]_vars
  PROVE  Known'
<1> SUFFICES ASSUME ~late', ~unread', pc' \in Loop, memtype' # "OPT",
                    NEW b \in Blocks, (i' < b /\ b < len') \/ (b = i' /\ i' < len' /\ pc' \in {"block", "mode"})
             PROVE  current'[b] = mem'[b]
  BY DEF Known
<1> USE DEF Loop
<1>0. /\ i \in Nat /\ len \in Nat /\ b \in Nat
      /\ TargetTypeOK /\ pc \in Sites
  BY TargetAssumption DEF TInv, Types, DriverType, Blocks
<1>1. CASE Calls \/ DeviceFails \/ UNCHANGED vars
  BY <1>1 DEF Calls, Ask, DeviceFails, vars, lineVars, Known, driverVars, targetVars
<1>2. CASE DeviceRuns
  <2>1. UNCHANGED <<memtype, pc, late, i, len, current, unread>>
    BY <1>2 DEF DeviceRuns, driverVars
  <2>2. current[b] = mem[b]
    BY <2>1 DEF Known
  <2>3. mem'[b] = mem[b]
    <3>1. CASE pc \in {"send", "optbyte"}
      <4>1. b # i
        BY <1>0, <2>1, <3>1
      <4> QED BY <1>2, <3>1, <4>1, RunsProgram
    <3>2. CASE pc \notin {"send", "optbyte"}
      BY <1>2, <2>1, <3>2, RunsProgram
    <3> QED BY <3>1, <3>2
  <2> QED BY <2>1, <2>2, <2>3
<1>3. CASE HearingSteps
  <2>1. ~late /\ UNCHANGED <<memtype, mem>>
    BY <1>3, HearingStepsHear, Heeds DEF targetVars
  <2>2. CASE ReadBack
    <3>1. PICK v : /\ Hear(v)
                   /\ current' \in IF v.ok
                                     THEN {[x \in Blocks |-> IF x < len THEN [o \in Offsets |-> v.data[x + 1]]
                                                                        ELSE current[x]]}
                                     ELSE [Blocks -> Contents]
                   /\ unread' = ~v.ok
      BY <2>2 DEF ReadBack
    <3>2. v.ok /\ pc = "readback" /\ UNCHANGED <<i, len>>
      BY <2>2, <3>1 DEF ReadBack
    <3>3. b < len /\ b + 1 \in 1 .. len /\ 3 + (b + 1) = 4 + b
      BY <1>0, <3>2
    <3>4. Request = Command(Read, "MEM", 0, len)
      BY <3>2 DEF Request
    <3>5. asked = Request
      BY <3>1, Heeds
    <3>6. asked.n = len /\ asked.op \notin {Srst, HardReset}
      BY <3>4, <3>5 DEF Command, Read, Srst, HardReset
    <3>7. Len(v.data) = len /\ \A k \in 1 .. Len(v.data) : v.data[k] = fromDevice[3 + k]
      BY <3>1, <3>2, <3>6, Heeds
    <3>8. v.data[b + 1] = fromDevice[4 + b]
      BY <3>3, <3>7
    <3>9. Done
      BY <3>1, <3>2, Heeds DEF Done, Told
    <3>10. fromDevice[4 + b] = mem[b][0]
      BY <2>1, <3>2, <3>3, <3>9 DEF Fetched
    <3>11. current'[b] = [o \in Offsets |-> v.data[b + 1]]
      BY <3>1, <3>2, <3>3
    <3>12. mem[b] = [o \in Offsets |-> mem[b][0]]
      BY <1>0, OneByte DEF TargetTypeOK
    <3> QED BY <2>1, <3>8, <3>10, <3>11, <3>12
  <2>3. CASE FetchVersion \/ Reconnect \/ Relock \/ ResetPart \/ PollDies
    BY <2>3 DEF FetchVersion, Reconnect, Relock, ResetPart, PollDies
  <2>4. CASE Prepare
    <3>1. pc' = "block" => len = 0
      BY <2>4 DEF Prepare, Prepared
    <3>2. pc' \in {"stall", "keys", "optmode", "readback", "block"} /\ UNCHANGED driverVars
      BY <2>4 DEF Prepare, Prepared
    <3> QED BY <1>0, <3>1, <3>2 DEF driverVars
  <2>5. CASE OptMode \/ SendOptByte
    BY <2>1, <2>5 DEF OptMode, SendOptByte, Paths
  <2>6. CASE BlockMode
    <3>1. pc = "mode" /\ UNCHANGED driverVars
      BY <2>6 DEF BlockMode
    <3> QED BY <1>0, <2>1, <2>6, <3>1 DEF BlockMode, Known, driverVars
  <2>7. CASE SendBlock
    <3>1. pc = "send" /\ i' \in {i, i + 1} /\ (pc' = "block" => i' = i + 1) /\ pc' \in {"srst", "settle", "block"}
          /\ UNCHANGED <<len, current, unread>>
      BY <2>7 DEF SendBlock
    <3>2. i < b /\ b < len
      BY <1>0, <3>1
    <3> QED BY <2>1, <3>1, <3>2 DEF Known
  <2>8. CASE PollDone
    <3>1. pc = "poll" /\ i' = i + 1 /\ UNCHANGED <<len, current, unread>>
      BY <2>8 DEF PollDone
    <3>2. i < b /\ b < len
      BY <1>0, <3>1
    <3> QED BY <2>1, <3>1, <3>2 DEF Known
  <2>9. CASE PollAgain
    BY <2>1, <2>9 DEF PollAgain, Known
  <2> QED BY <1>3, <2>2, <2>3, <2>4, <2>5, <2>6, <2>7, <2>8, <2>9 DEF HearingSteps
<1>4. CASE SilentSteps
  <2>1. ~late
    BY <1>4, SilentLine DEF lineVars
  <2>2. CASE Open \/ LoopEnds
    BY <2>2 DEF Open, LoopEnds
  <2>3. CASE SkipBlock
    BY <1>0, <2>1, <2>3 DEF SkipBlock, Known, targetVars
  <2>4. CASE NextBlock
    <3>1. pc = "block" /\ UNCHANGED <<memtype, mem, i, len, current, unread>>
      BY <2>4 DEF NextBlock, targetVars, driverVars
    <3> QED BY <1>0, <2>1, <3>1 DEF Known
  <2>5. CASE Settle \/ Wait
    <3>1. /\ pc \in {"settle", "wait"} /\ i' \in {i, i + 1} /\ Sleep /\ (pc' = "block" => i' = i + 1)
          /\ pc' # "mode" /\ UNCHANGED <<memtype, len, current, unread>>
      BY <2>5 DEF Settle, Wait, driverVars
    <3>2. i < b /\ b < len
      BY <1>0, <3>1
    <3>3. current[b] = mem[b]
      BY <2>1, <3>1, <3>2 DEF Known
    <3>4. mem'[b] = mem[b] \/ (busy = 1 /\ b = cell.blk)
      BY <1>0, <3>1, SleepChanges
    <3>5. busy = 1 => cell.blk <= i
      BY <2>1, <3>1 DEF Behind
    <3>6. mem'[b] = mem[b]
      BY <1>0, <3>2, <3>4, <3>5
    <3> QED BY <3>1, <3>3, <3>6
  <2> QED BY <1>4, <2>2, <2>3, <2>4, <2>5 DEF SilentSteps
<1> QED BY <1>1, <1>2, <1>3, <1>4, Steps

\* These three all through a run.
LEMMA AheadInvariant == Spec => [](TInv /\ Paths /\ Behind /\ Fetched /\ Known)
<1>1. Init => Behind /\ Fetched /\ Known
  <2>1. Init => busy = 0 /\ pc = "open"
    BY DEF Init, TargetInit
  <2> QED BY <2>1 DEF Behind, Fetched, Known, Loop
<1>2. TInv /\ Paths /\ Behind /\ Fetched /\ Known /\ [Next]_vars => Behind' /\ Fetched' /\ Known'
  BY BehindStep, FetchedStep, KnownStep
<1> QED BY <1>1, <1>2, PathsInvariant, PTL DEF Spec

\* FastOnlyIfVerified: espstlink_swim_write_range asks for fast programming, which does not
\* erase, only where the part holds an empty block at that very moment, whatever was
\* programmed in between, as long as the block could be read and nothing came late.
THEOREM FastOnEmpty == Spec => []FastOnlyIfVerified
<1>1. TInv /\ Paths /\ Known => FastOnlyIfVerified
  <2> SUFFICES ASSUME TInv, Paths, Known, pc = "mode", asked.arg = Fast, ~late, ~unread
               PROVE  mem[i] = EmptyUnit
    BY DEF FastOnlyIfVerified
  <2>1. asked # NoCommand
    BY DEF NoCommand, Command, Fast
  <2>2. asked = Request
    BY <2>1 DEF TInv, Sent
  <2>3. Request = Command(Write, "CR2", PrgMode(current[i]), 0)
    BY DEF Request
  <2>4. PrgMode(current[i]) = Fast
    BY <2>2, <2>3 DEF Command
  <2>5. current[i] = EmptyUnit
    BY <2>4 DEF PrgMode, Fast, Std
  <2>6. i \in Blocks /\ i < len
    BY TargetAssumption DEF TInv, Types, DriverType, Underway, Blocks
  <2>7. memtype # "OPT"
    BY DEF Paths
  <2>8. current[i] = mem[i]
    BY <2>6, <2>7 DEF Known, Loop
  <2> QED BY <2>5, <2>8
<1> QED BY <1>1, AheadInvariant, PTL

\* A unit takes no longer to program than the driver has attempts to look.
Enough == \A t \in ProgTime : t <= Tries

\* The bits of FLASH_IAPSR as the driver sees them.
LEMMA SeenBits ==
  ASSUME iapsr \subseteq LockBits \union EventBits
  PROVE  (Bit(IapsrByte, 4) <=> "EOP" \in iapsr) /\ (Bit(IapsrByte, 1) <=> "WR_PG_DIS" \in iapsr)
<1> DEFINE d == IF "DUL" \in iapsr THEN 1 ELSE 0
           e == IF "EOP" \in iapsr THEN 1 ELSE 0
           p == IF "PUL" \in iapsr THEN 1 ELSE 0
           w == IF "WR_PG_DIS" \in iapsr THEN 1 ELSE 0
<1>1. IapsrByte = 8 * d + 4 * e + 2 * p + w
  BY DEF IapsrByte
<1>2. d \in {0, 1} /\ e \in {0, 1} /\ p \in {0, 1} /\ w \in {0, 1} /\ (e = 1 <=> "EOP" \in iapsr)
      /\ (w = 1 <=> "WR_PG_DIS" \in iapsr)
  OBVIOUS
<1> HIDE DEF d, e, p, w
<1>3. (8 * d + 4 * e + 2 * p + w) \div 4 = 2 * d + e /\ (8 * d + 4 * e + 2 * p + w) \div 1 = 8 * d + 4 * e + 2 * p + w
  BY <1>2
<1>4. (2 * d + e) % 2 = e /\ (8 * d + 4 * e + 2 * p + w) % 2 = w
  BY <1>2
<1> QED BY <1>1, <1>2, <1>3, <1>4 DEF Bit

\* Each sleeping period counts.
LEMMA SleepTime ==
  ASSUME TargetTypeOK, Sleep
  PROVE  /\ busy = 0 => UNCHANGED <<mem, iapsr, mode, stall, busy, cell>>
         /\ busy > 0 => busy' = busy - 1
         /\ busy > 1 => UNCHANGED <<mem, iapsr, mode, stall, cell>>
BY DEF Sleep, TargetTypeOK

\* The attempts that are left outlast the programming in every step.
LEMMA ReadyStep ==
  ASSUME TInv, Paths, Ready, Enough, [Next]_vars
  PROVE  Ready'
<1> SUFFICES ASSUME ~late', ~blind' PROVE Ready'
  BY DEF Ready
<1>0. /\ TargetTypeOK /\ pc \in Sites /\ Underway /\ busy \in Nat /\ retries \in Nat /\ i \in Nat
  BY DEF TInv, Types, DriverType, TargetTypeOK
<1>1. CASE Calls
  <2>1. ~Done' /\ ~Done /\ UNCHANGED <<memtype, pc, late, blind, retries, iapsr, busy>>
    BY <1>1, NothingTold DEF Calls, Ask, Done, Told, driverVars, targetVars
  <2> QED BY <2>1 DEF Ready
<1>2. CASE DeviceRuns
  <2>1. UNCHANGED <<memtype, pc, late, blind, retries>>
    BY <1>2 DEF DeviceRuns, driverVars
  <2>2. Effects /\ ~Told /\ Done' /\ pc \in CallSites
    BY <1>2, RunsEffects DEF Effects
  <2>3. CASE pc \in {"send", "optbyte"}
    <3>1. WriteMem(i, buf[i]) /\ busy = 0 /\ "EOP" \notin iapsr
      BY <2>1, <2>2, <2>3 DEF Effects, Ready, Done
    <3>2. "EOP" \notin iapsr' /\ (busy' = 0 \/ busy' \in ProgTime) /\ (memtype = "RAM" => busy' = 0)
      BY <3>1 DEF WriteMem
    <3>3. busy' <= Tries
      BY <3>2 DEF Enough, Tries
    <3> QED BY <2>1, <2>2, <2>3, <3>2, <3>3 DEF Ready
  <2>4. CASE pc = "poll"
    <3>1. "EOP" \notin iapsr' /\ busy' = busy /\ fromDevice'[4] = IapsrByte
      BY <2>2, <2>4 DEF Effects, ReadIapsr, EventBits
    <3>2. busy < retries /\ (busy > 0 => "EOP" \notin iapsr)
      BY <2>1, <2>4 DEF Ready
    <3>3. Bit(IapsrByte, 4) => busy = 0
      BY <1>0, <3>2, SeenBits DEF TargetTypeOK
    <3> QED BY <2>1, <2>4, <3>1, <3>2, <3>3 DEF Ready
  <2>5. CASE pc \notin {"send", "optbyte", "poll"}
    <3>1. busy = 0 /\ "EOP" \notin iapsr /\ pc \notin {"settle", "wait", "failed"}
      BY <2>1, <2>2, <2>5 DEF Ready, CallSites, OpenSites
    <3>2. busy' = 0 /\ "EOP" \notin iapsr'
      <4>1. CASE pc \in {"hold", "swimrst", "srst"}
        BY <2>2, <4>1 DEF Effects, Reset
      <4>2. CASE pc \notin {"hold", "swimrst", "srst"}
        BY <2>2, <2>5, <3>1, <4>2 DEF Effects, targetVars, WriteKeys, OpenedBy, ReadIapsr, AfterIapsrWrite, CallSites, OpenSites
      <4> QED BY <4>1, <4>2
    <3> QED BY <2>1, <2>5, <3>1, <3>2 DEF Ready
  <2> QED BY <2>3, <2>4, <2>5
<1>3. CASE DeviceFails
  <2>1. fromDevice'[2] # Success /\ toDevice # <<>> /\ UNCHANGED <<memtype, targetVars, pc, late, driverVars>>
    BY <1>3, FailsTypes DEF DeviceFails, Failure, Success
  <2>2. ~Done' /\ ~Done /\ UNCHANGED <<memtype, pc, late, blind, retries, iapsr, busy>>
    BY <2>1 DEF Done, Told, driverVars, targetVars
  <2> QED BY <2>2 DEF Ready
<1>4. CASE UNCHANGED vars
  <2>1. UNCHANGED <<memtype, pc, late, blind, retries, iapsr, busy, asked, toDevice, fromDevice>>
    BY <1>4 DEF vars, lineVars, driverVars, targetVars
  <2> QED BY <2>1 DEF Ready, Done, Told
<1>5. CASE HearingSteps
  <2>1. PICK v : Hear(v)
    BY <1>5, HearingStepsHear
  <2>2. ~late /\ UNCHANGED <<memtype, iapsr, busy>> /\ ~Done' /\ Told
    BY <1>5, <2>1, NothingTold, Heeds DEF Done, Told, targetVars
  <2>3. CASE FetchVersion \/ Reconnect \/ Prepare \/ OptMode \/ ReadBack \/ BlockMode \/ Relock \/ ResetPart
    <3>1. pc \notin {"send", "optbyte", "settle", "poll", "wait", "failed"}
      BY <2>3 DEF FetchVersion, Reconnect, Prepare, OptMode, ReadBack, BlockMode, Relock, ResetPart, OpenSites
    <3>2. pc' \notin {"settle", "poll", "wait"}
      BY <2>3 DEF FetchVersion, Reconnect, Prepare, Prepared, OptMode, ReadBack, BlockMode, Relock, ResetPart
    <3>3. blind' = blind
      BY <2>3 DEF FetchVersion, Reconnect, Prepare, OptMode, ReadBack, BlockMode, Relock, ResetPart, driverVars
    <3>4. busy = 0 /\ "EOP" \notin iapsr
      BY <2>2, <3>1, <3>3 DEF Ready
    <3>5. busy' = 0 /\ "EOP" \notin iapsr'
      BY <2>2, <3>4
    <3> QED BY <2>2, <3>2, <3>5 DEF Ready, Tries
  <2>4. CASE SendBlock
    <3>1. PICK u : /\ Hear(u)
                   /\ pc' = IF ~u.ok THEN "srst" ELSE IF memtype = "RAM" THEN "block" ELSE "settle"
      BY <2>4 DEF SendBlock
    <3>2. pc = "send" /\ retries' = Tries /\ blind' = blind
      BY <2>4 DEF SendBlock
    <3>3. busy <= Tries /\ "EOP" \notin iapsr /\ (~Done => busy = 0) /\ (memtype = "RAM" => busy = 0)
      BY <2>2, <3>2 DEF Ready
    <3>4. ~u.ok => ~Done
      BY <3>1, Heeds DEF Done
    <3>5. \/ pc' \in {"srst", "block"} /\ busy' = 0 /\ "EOP" \notin iapsr'
          \/ pc' = "settle" /\ busy' <= Tries /\ "EOP" \notin iapsr'
      BY <2>2, <3>1, <3>3, <3>4
    <3> QED BY <3>2, <3>5 DEF Ready
  <2>5. CASE SendOptByte
    <3>1. pc = "optbyte" /\ pc' = "settle" /\ retries' = Tries /\ blind' = blind
      BY <2>5 DEF SendOptByte
    <3> QED BY <2>2, <3>1 DEF Ready
  <2>6. CASE PollDone \/ PollDies \/ PollAgain
    <3>1. pc = "poll"
      BY <2>6 DEF PollDone, PollDies, PollAgain
    <3>2. blind' = blind \/ PollDone
      BY <2>6 DEF PollDies, PollAgain, driverVars
    <3>3. ~blind
      BY <3>2 DEF PollDone
    <3>4. \A u : Hear(u) /\ u.ok => Done /\ u.data[1] = fromDevice[4]
      <4> SUFFICES ASSUME NEW u, Hear(u), u.ok PROVE Done /\ u.data[1] = fromDevice[4]
        OBVIOUS
      <4>1. Request = Command(Read, "IAPSR", 0, 1)
        BY <3>1 DEF Request
      <4>2. asked = Request
        BY Heeds
      <4>3. asked.n = 1 /\ asked.op \notin {Srst, HardReset}
        BY <4>1, <4>2 DEF Command, Read, Srst, HardReset
      <4>4. Len(u.data) = 1 /\ \A k \in 1 .. Len(u.data) : u.data[k] = fromDevice[3 + k]
        BY <4>3, Heeds
      <4>5. Done
        BY Heeds DEF Done, Told
      <4> QED BY <4>4, <4>5
    <3>5. busy < retries /\ (Done => "EOP" \notin iapsr /\ (Bit(fromDevice[4], 4) => busy = 0))
      BY <2>2, <3>1, <3>3 DEF Ready
    <3>6. CASE PollDone
      <4>1. PICK u : Hear(u) /\ SeesEop(u) /\ blind' = (blind \/ ~u.ok)
        BY <3>6 DEF PollDone
      <4>2. u.ok
        BY <4>1
      <4>3. Done /\ u.data[1] = fromDevice[4] /\ Bit(u.data[1], 4)
        BY <3>4, <4>1, <4>2 DEF SeesEop
      <4>4. busy = 0 /\ "EOP" \notin iapsr
        BY <3>5, <4>3
      <4>5. pc' \in {"optbyte", "block"} /\ busy' = 0 /\ "EOP" \notin iapsr'
        BY <2>2, <3>6, <4>4 DEF PollDone
      <4>6. pc' = "block" \/ memtype = "OPT"
        BY <3>6 DEF PollDone
      <4> QED BY <2>2, <4>5 DEF Ready, Tries
    <3>7. CASE PollDies
      BY <3>7 DEF PollDies, Ready
    <3>8. CASE PollAgain
      <4>1. PICK u : Hear(u) /\ ~SeesEop(u)
        BY <3>8 DEF PollAgain
      <4>2. Done
        BY <3>4, <4>1 DEF SeesEop
      <4>3. pc' = "wait" /\ retries' = retries - 1
        BY <3>8 DEF PollAgain
      <4>4. busy' <= retries' /\ "EOP" \notin iapsr'
        BY <1>0, <2>2, <3>5, <4>2, <4>3
      <4> QED BY <4>3, <4>4 DEF Ready
    <3> QED BY <2>6, <3>6, <3>7, <3>8
  <2> QED BY <1>5, <2>3, <2>4, <2>5, <2>6 DEF HearingSteps
<1>6. CASE SilentSteps
  <2>1. ~late /\ ~Done'
    BY <1>6, SilentLine, NothingTold DEF lineVars, Done
  <2>2. CASE Open \/ SkipBlock \/ NextBlock
    <3>1. pc \in {"open", "block"} /\ pc' \in {"version", "failed", "block", "send", "mode"}
          /\ UNCHANGED <<memtype, iapsr, busy, blind>>
      BY <2>2 DEF Open, SkipBlock, NextBlock, driverVars, targetVars
    <3>2. busy = 0 /\ "EOP" \notin iapsr
      BY <2>1, <3>1 DEF Ready
    <3> QED BY <3>1, <3>2 DEF Ready, Tries
  <2>3. CASE LoopEnds
    <3>1. pc \in {"block", "optbyte"} /\ pc' \in {"srst", "relockR"} /\ asked = NoCommand
          /\ UNCHANGED <<memtype, iapsr, busy, blind>>
      BY <2>3 DEF LoopEnds, driverVars, targetVars
    <3>2. busy = 0 /\ "EOP" \notin iapsr
      BY <2>1, <3>1 DEF Ready, Done, Told
    <3> QED BY <3>1, <3>2 DEF Ready
  <2>4. CASE Settle
    <3>1. pc = "settle" /\ pc' \in {"wait", "poll"} /\ Sleep /\ UNCHANGED <<memtype, blind, retries>>
      BY <2>4 DEF Settle, driverVars
    <3>2. busy <= Tries /\ "EOP" \notin iapsr /\ retries = Tries
      BY <2>1, <3>1 DEF Ready
    <3>3. busy' < retries' /\ (busy' > 0 => "EOP" \notin iapsr') /\ retries' # 0 /\ busy' <= retries'
      BY <1>0, <3>1, <3>2, SleepTime DEF Tries
    <3> QED BY <2>1, <3>1, <3>3 DEF Ready
  <2>5. CASE Wait
    <3>1. pc = "wait" /\ Sleep /\ UNCHANGED <<memtype, blind, retries>>
          /\ ((retries = 0 /\ pc' = "block") \/ (retries # 0 /\ pc' = "poll"))
      BY <2>5 DEF Wait
    <3>2. busy <= retries /\ (busy > 0 \/ retries = 0 => "EOP" \notin iapsr)
      BY <2>1, <3>1 DEF Ready
    <3>3. CASE retries = 0
      <4>1. busy' = 0 /\ "EOP" \notin iapsr'
        BY <1>0, <3>1, <3>2, <3>3, SleepTime
      <4> QED BY <3>1, <3>3, <4>1 DEF Ready
    <3>4. CASE retries # 0
      <4>1. busy' < retries' /\ (busy' > 0 => "EOP" \notin iapsr')
        BY <1>0, <3>1, <3>2, <3>4, SleepTime
      <4> QED BY <2>1, <3>1, <3>4, <4>1 DEF Ready
    <3> QED BY <3>3, <3>4
  <2> QED BY <1>6, <2>2, <2>3, <2>4, <2>5 DEF SilentSteps
<1> QED BY <1>1, <1>2, <1>3, <1>4, <1>5, <1>6, Steps

\* Ready all through a run, for units that take no longer than the driver looks.
LEMMA ReadyInvariant ==
  ASSUME Enough
  PROVE  Spec => [](TInv /\ Paths /\ Behind /\ Fetched /\ Known /\ Ready)
<1>1. Init => Ready
  BY DEF Init, TargetInit, Ready
<1>2. TInv /\ Paths /\ Ready /\ [Next]_vars => Ready'
  BY ReadyStep
<1> QED BY <1>1, <1>2, AheadInvariant, PTL DEF Spec

\* ReadyToSend: where a unit takes no longer than the driver has attempts, nothing is sent to
\* a part that still programs, whichever commands fail, as long as every answer was heard in
\* time and no failed read of FLASH_IAPSR passed for an EOP.
THEOREM SendsWhenReady ==
  ASSUME \A t \in ProgTime : t <= Tries
  PROVE  Spec => []ReadyToSend
<1>1. Enough
  BY DEF Enough
<1>2. Ready => ReadyToSend
  BY DEF Ready, ReadyToSend, Answered, Done, Told
<1> QED BY <1>1, <1>2, ReadyInvariant, PTL
-----------------------------------------------------------------------------
(***************************************************************************)
(* A line without faults: the area ends as the image asks.                 *)
(***************************************************************************)
\* Faults are not forgotten, and a command that fails is one.
LEMMA StillNone ==
  ASSUME TInv, [Next]_vars, faults' = 0
  PROVE  faults = 0 /\ ~DeviceFails
<1>0. faults \in Nat
  BY EspAssumption DEF TInv, Types, LineType
<1>1. ~DeviceFails
  BY <1>0, FailsTypes
<1>2. CASE HearingSteps
  BY <1>0, <1>1, <1>2, HearingStepsHear DEF Hear
<1>3. CASE SilentSteps
  BY <1>1, <1>3, SilentLine DEF lineVars
<1>4. CASE Calls \/ DeviceRuns \/ UNCHANGED vars
  BY <1>1, <1>4 DEF Calls, Ask, DeviceRuns, vars, lineVars
<1> QED BY <1>1, <1>2, <1>3, <1>4, Steps

\* A line without faults gives no late answer, no failed read and no failure.
LEMMA FaultlessStep ==
  ASSUME TInv, Faultless, [Next]_vars
  PROVE  Faultless'
<1> SUFFICES ASSUME faults' = 0 PROVE ~late' /\ ~blind' /\ ~unread' /\ (Told' => fromDevice'[2] = Success)
  BY DEF Faultless
<1>0. faults = 0 /\ ~DeviceFails /\ ~late /\ ~blind /\ ~unread /\ (Told => fromDevice[2] = Success)
  BY StillNone DEF Faultless
<1>1. CASE Calls
  BY <1>0, <1>1, NothingTold DEF Calls, Ask, driverVars
<1>2. CASE DeviceRuns
  <2>1. ~late' /\ ~blind' /\ ~unread'
    BY <1>0, <1>2, RunsTypes DEF driverVars
  <2> QED BY <1>2, <2>1, RunsEffects DEF Done
<1>3. CASE HearingSteps
  <2>1. \A v : Hear(v) => ~late' /\ v.ok
    <3> SUFFICES ASSUME NEW v, Hear(v) PROVE ~late' /\ v.ok
      OBVIOUS
    <3>1. /\ asked # NoCommand /\ v \in Verdicts(asked, fromDevice)
          /\ late' = (late \/ v.late)
          /\ faults' = IF v.late /\ toDevice # <<>> THEN faults + 1 ELSE faults
      BY DEF Hear
    <3>2. v.late => toDevice = <<>>
      BY <1>0, <3>1
    <3>3. v.late => Exact(asked, fromDevice)
      BY <1>0, <3>1, <3>2 DEF TInv, Line
    <3>4. asked \in Commands /\ fromDevice \in Seq(Bytes)
      BY DEF TInv, Sent, Types, LineType
    <3>5. ~v.late
      BY <3>1, <3>3, <3>4, ExactHeard
    <3>6. ~late'
      BY <1>0, <3>1, <3>5
    <3>7. toDevice = <<>> /\ (v.ok <=> fromDevice[2] = Success)
      BY <3>6, Heeds
    <3> QED BY <1>0, <3>1, <3>6, <3>7 DEF Told
  <2>2. ~late'
    BY <1>3, <2>1, HearingStepsHear
  <2>3. ~unread'
    <3>1. CASE ReadBack
      BY <2>1, <3>1 DEF ReadBack
    <3>2. CASE ~ReadBack
      BY <1>0, <1>3, <3>2 DEF HearingSteps, FetchVersion, Reconnect, Prepare, OptMode, BlockMode, SendBlock, SendOptByte,
            PollDone, PollDies, PollAgain, Relock, ResetPart, driverVars
    <3> QED BY <3>1, <3>2
  <2>4. ~blind'
    <3>1. CASE PollDone
      BY <1>0, <2>1, <3>1 DEF PollDone
    <3>2. CASE ~PollDone
      BY <1>0, <1>3, <3>2 DEF HearingSteps, FetchVersion, Reconnect, Prepare, OptMode, BlockMode, SendBlock, SendOptByte,
            ReadBack, PollDies, PollAgain, Relock, ResetPart, driverVars
    <3> QED BY <3>1, <3>2
  <2> QED BY <1>3, <2>2, <2>3, <2>4, NothingTold
<1>4. CASE SilentSteps
  <2>1. ~late' /\ ~Told'
    BY <1>0, <1>4, SilentLine, NothingTold DEF lineVars
  <2>2. ~blind' /\ ~unread'
    BY <1>0, <1>4 DEF SilentSteps, Open, SkipBlock, NextBlock, Settle, Wait, LoopEnds, driverVars
  <2> QED BY <2>1, <2>2
<1>5. CASE UNCHANGED vars
  BY <1>0, <1>5 DEF vars, lineVars, driverVars, Told
<1> QED BY <1>0, <1>1, <1>2, <1>3, <1>4, <1>5, Steps

\* Without faults every verdict is a good one on what the device has told.
LEMMA HeardWell ==
  ASSUME TInv, Faultless, faults' = 0, Faultless', NEW v, Hear(v), [Next]_vars
  PROVE  v.ok /\ Done /\ ~late' /\ faults = 0
<1>1. faults = 0 /\ ~late' /\ asked # NoCommand
  BY StillNone DEF Faultless, Hear
<1>2. toDevice = <<>> /\ (v.ok <=> fromDevice[2] = Success)
  BY <1>1, Heeds
<1>3. Told
  BY <1>1, <1>2 DEF Told
<1> QED BY <1>1, <1>2, <1>3 DEF Faultless, Done

\* Without faults the part stays unlocked and its CPU stalled until the loop is over.
LEMMA ArmedStep ==
  ASSUME TInv, Paths, Behind, Ready, Faultless, Armed, [Next]_vars, Faultless'
  PROVE  Armed'
<1> SUFFICES ASSUME faults' = 0 PROVE Armed'
  BY DEF Armed
<1> USE DEF Loop
<1>0. faults = 0 /\ ~DeviceFails /\ ~late /\ ~late' /\ ~blind
  BY StillNone DEF Faultless
<1>1. CASE Calls \/ UNCHANGED vars
  <2>1. UNCHANGED <<memtype, pc, stall, iapsr, mode>>
    BY <1>1 DEF Calls, Ask, vars, targetVars
  <2>2. Done' => Done
    BY <1>1, NothingTold DEF Done, Told, vars, lineVars
  <2>3. AreaLock' = AreaLock
    BY <2>1 DEF AreaLock
  <2> QED BY <1>0, <2>1, <2>2, <2>3 DEF Armed
<1>2. CASE DeviceRuns
  <2>1. UNCHANGED <<memtype, pc>> /\ Effects /\ pc \in CallSites /\ AreaLock' = AreaLock
    BY <1>0, <1>2, RunsEffects DEF DeviceRuns, Effects, AreaLock
  <2>2. CASE pc = "stall"
    BY <2>1, <2>2 DEF Effects, Armed
  <2>3. CASE pc = "keys"
    <3>1. AreaLock \in iapsr' /\ stall' = stall
      BY <2>1, <2>3 DEF Effects, WriteKeys, AreaKeys, KeyOrder, OpenedBy, AreaLock, Paths
    <3> QED BY <1>0, <2>1, <2>3, <3>1 DEF Armed
  <2>4. CASE pc = "optmode"
    BY <1>0, <2>1, <2>4 DEF Effects, Armed
  <2>5. CASE pc \in {"readback", "mode", "send", "optbyte", "poll"}
    <3>1. CASE pc = "readback"
      BY <1>0, <2>1, <3>1 DEF Effects, Armed, targetVars
    <3>2. CASE pc = "mode"
      BY <1>0, <2>1, <3>2 DEF Effects, Armed, Paths
    <3>3. CASE pc \in {"send", "optbyte"}
      <4>1. WriteMem(i, buf[i])
        BY <2>1, <3>3 DEF Effects
      <4>2. iapsr \subseteq iapsr' /\ UNCHANGED <<stall, mode>>
        BY <4>1 DEF WriteMem
      <4> QED BY <1>0, <2>1, <3>3, <4>2 DEF Armed
    <3>4. CASE pc = "poll"
      <4>1. UNCHANGED <<stall, mode>> /\ (AreaLock \in iapsr => AreaLock \in iapsr')
        BY <2>1, <3>4 DEF Effects, ReadIapsr, EventBits, AreaLock
      <4> QED BY <1>0, <2>1, <3>4, <4>1 DEF Armed
    <3> QED BY <2>5, <3>1, <3>2, <3>3, <3>4
  <2>6. CASE pc \notin {"stall", "keys", "optmode", "readback", "mode", "send", "optbyte", "poll"}
    BY <2>1, <2>6 DEF Armed, CallSites, OpenSites
  <2> QED BY <2>2, <2>3, <2>4, <2>5, <2>6
<1>3. CASE HearingSteps
  <2>1. PICK v : Hear(v)
    BY <1>3, HearingStepsHear
  <2>2. v.ok /\ Done /\ ~Done' /\ UNCHANGED <<memtype, stall, iapsr, mode>>
    BY <1>3, <2>1, HeardWell, NothingTold, Heeds DEF Done, targetVars
  <2>3. AreaLock' = AreaLock
    BY <2>2 DEF AreaLock
  <2>4. CASE Prepare
    <3>1. PICK u : Hear(u) /\ pc' = IF ~u.ok THEN Prepared
                ELSE CASE pc = "csr" -> "stall"
                       [] pc = "stall" -> IF memtype = "RAM" THEN Prepared ELSE "keys"
                       [] pc = "keys" -> Prepared
      BY <2>4 DEF Prepare
    <3>2. u.ok /\ pc \in {"csr", "stall", "keys"}
      BY <2>4, <3>1, HeardWell DEF Prepare
    <3>3. Prepared \in IF memtype = "OPT" THEN {"optmode"} ELSE {"block", "readback"}
      BY DEF Prepared
    <3>4. CASE pc = "csr"
      BY <2>2, <3>1, <3>2, <3>4 DEF Armed
    <3>5. CASE pc = "stall"
      BY <1>0, <2>2, <2>3, <3>1, <3>2, <3>3, <3>5 DEF Armed
    <3>6. CASE pc = "keys"
      BY <1>0, <2>2, <2>3, <3>1, <3>2, <3>3, <3>6 DEF Armed
    <3> QED BY <3>2, <3>4, <3>5, <3>6
  <2>5. CASE OptMode
    BY <1>0, <2>2, <2>3, <2>5 DEF OptMode, Armed
  <2>6. CASE ReadBack
    BY <1>0, <2>2, <2>3, <2>6 DEF ReadBack, Armed, Paths
  <2>7. CASE BlockMode \/ SendBlock \/ SendOptByte \/ PollDone \/ PollAgain
    <3>1. pc \in Loop /\ pc' \in Loop \union {"srst"}
      BY <2>7 DEF BlockMode, SendBlock, SendOptByte, PollDone, PollAgain
    <3> QED BY <1>0, <2>2, <2>3, <3>1 DEF Armed
  <2>8. CASE FetchVersion \/ Reconnect \/ PollDies \/ Relock \/ ResetPart
    <3>1. pc' \notin Loop \union {"keys", "optmode", "readback"}
      BY <2>8 DEF FetchVersion, Reconnect, PollDies, Relock, ResetPart
    <3> QED BY <2>2, <3>1 DEF Armed
  <2> QED BY <1>3, <2>4, <2>5, <2>6, <2>7, <2>8 DEF HearingSteps
<1>4. CASE SilentSteps
  <2>0. ~Done'
    BY <1>4, NothingTold DEF Done
  <2>1. CASE Open \/ LoopEnds
    <3>1. pc' \in {"version", "failed", "srst", "relockR"}
      BY <2>1 DEF Open, LoopEnds
    <3> QED BY <2>0, <3>1 DEF Armed
  <2>2. CASE SkipBlock \/ NextBlock
    <3>1. pc \in Loop /\ pc' \in Loop /\ UNCHANGED <<memtype, stall, iapsr, mode>>
      BY <2>2 DEF SkipBlock, NextBlock, targetVars
    <3>2. AreaLock' = AreaLock
      BY <3>1 DEF AreaLock
    <3> QED BY <1>0, <2>0, <3>1, <3>2 DEF Armed
  <2>3. CASE Settle \/ Wait
    <3>1. pc \in Loop /\ pc' \in Loop /\ Sleep /\ memtype' = memtype
      BY <2>3 DEF Settle, Wait
    <3>2. stall' = stall /\ iapsr \subseteq iapsr' /\ (mode = "opt" => mode' = "opt")
      BY <3>1 DEF Sleep
    <3>3. AreaLock' = AreaLock
      BY <3>1 DEF AreaLock
    <3> QED BY <1>0, <2>0, <3>1, <3>2, <3>3 DEF Armed
  <2> QED BY <1>4, <2>1, <2>2, <2>3 DEF SilentSteps
<1> QED BY <1>0, <1>1, <1>2, <1>3, <1>4, Steps

\* Without faults fast programming is selected only where the block is empty.
LEMMA FittedStep ==
  ASSUME TInv, Paths, Known, Faultless, Fitted, [Next]_vars, Faultless'
  PROVE  Fitted'
<1> SUFFICES ASSUME faults' = 0, (pc' = "mode" /\ Done') \/ (pc' = "send" /\ memtype' # "RAM" /\ ~Done')
             PROVE  mode' \in {"std", "fast"} /\ (mode' = "fast" => mem'[i'] = EmptyUnit)
  BY DEF Fitted, EmptyUnit
<1>0. faults = 0 /\ ~DeviceFails /\ ~late /\ ~late' /\ ~blind /\ ~unread
  BY StillNone DEF Faultless
<1>1. CASE Calls \/ UNCHANGED vars
  <2>1. UNCHANGED <<memtype, pc, mode, mem, i>>
    BY <1>1 DEF Calls, Ask, vars, targetVars, driverVars
  <2>2. (Done' => Done) /\ (~Done' => ~Done)
    BY <1>1, NothingTold DEF Done, Told, vars, lineVars, Calls, Ask
  <2> QED BY <1>0, <2>1, <2>2 DEF Fitted
<1>2. CASE DeviceRuns
  <2>1. UNCHANGED <<memtype, pc, i>> /\ Effects /\ Done'
    BY <1>0, <1>2, RunsEffects DEF DeviceRuns, driverVars
  <2>2. pc = "mode"
    BY <2>1
  <2>3. mode' = (IF current[i] = EmptyUnit THEN "fast" ELSE "std") /\ mem' = mem
    BY <2>1, <2>2 DEF Effects
  <2>4. i \in Blocks /\ i < len
    BY <2>2, TargetAssumption DEF TInv, Types, DriverType, Underway, Blocks
  <2>5. current[i] = mem[i]
    BY <1>0, <2>2, <2>4 DEF Known, Loop, Paths
  <2> QED BY <2>1, <2>3, <2>5
<1>3. CASE HearingSteps
  <2>1. PICK v : Hear(v)
    BY <1>3, HearingStepsHear
  <2>2. Done /\ ~Done' /\ UNCHANGED <<memtype, mode, mem>>
    BY <1>3, <2>1, HeardWell, NothingTold, Heeds DEF Done, targetVars
  <2>3. pc' = "send"
    BY <2>2
  <2>4. BlockMode
    BY <1>3, <2>3 DEF HearingSteps, FetchVersion, Reconnect, Prepare, Prepared, OptMode, ReadBack, SendBlock, SendOptByte,
          PollDone, PollDies, PollAgain, Relock, ResetPart
  <2>5. pc = "mode" /\ i' = i
    BY <2>4 DEF BlockMode, driverVars
  <2> QED BY <1>0, <2>2, <2>5 DEF Fitted
<1>4. CASE SilentSteps
  <2>1. ~Done'
    BY <1>4, NothingTold DEF Done
  <2>2. pc' = "send" /\ memtype' # "RAM"
    BY <2>1
  <2> QED BY <1>4, <2>2 DEF SilentSteps, Open, SkipBlock, NextBlock, Settle, Wait, LoopEnds
<1> QED BY <1>0, <1>1, <1>2, <1>3, <1>4, Steps

\* The write of a unit that arrives lands, one way or another.
LEMMA ArrivesLands ==
  ASSUME TInv, Paths, Ready, Faultless, Armed, Fitted, Enough,
         pc \in {"send", "optbyte"}, ~Told, faults = 0, WriteMem(i, buf[i]), i \in Blocks,
         UNCHANGED <<memtype, pc, i, buf>>
  PROVE  /\ memtype = "RAM" => mem'[i] = buf[i]
         /\ memtype # "RAM" =>
              \/ busy' = 0 /\ "EOP" \notin iapsr' /\ "WR_PG_DIS" \in iapsr'
              \/ busy' > 0 /\ cell' = [blk |-> i, data |-> buf[i]] /\ (mode' = "fast" => mem'[i] = EmptyUnit)
<1>1. /\ ~late /\ ~blind /\ ~Done /\ stall /\ TargetTypeOK
      /\ memtype # "RAM" => AreaLock \in iapsr
      /\ memtype = "OPT" => mode = "opt"
  BY DEF Faultless, Armed, Loop, Done, TInv, Types
<1>2. busy = 0 /\ "EOP" \notin iapsr
  BY <1>1 DEF Ready
<1>3. CASE memtype = "RAM"
  BY <1>1, <1>3 DEF WriteMem, TargetTypeOK
<1>4. CASE memtype # "RAM" /\ busy' \in ProgTime /\ cell' = [blk |-> i, data |-> buf[i]] /\ UNCHANGED <<mem, mode>>
  <2>1. busy' > 0
    BY <1>4, TargetAssumption
  <2>2. mode = "fast" => mem[i] = EmptyUnit
    <3>1. CASE memtype = "OPT"
      BY <1>1, <3>1
    <3>2. CASE memtype # "OPT"
      <4>1. pc = "send"
        BY <3>2 DEF Paths
      <4> QED BY <1>1, <1>4, <4>1 DEF Fitted
    <3> QED BY <3>1, <3>2
  <2> QED BY <1>4, <2>1, <2>2
<1>5. CASE /\ memtype # "RAM" /\ (busy > 0 \/ Protected(i) \/ mode = "none" \/ ~stall)
           /\ iapsr' = IF busy = 0 /\ Protected(i) THEN iapsr \union {"WR_PG_DIS"} ELSE iapsr
           /\ UNCHANGED <<mem, mode, stall, busy, cell>>
  <2>1. mode # "none"
    <3>1. CASE memtype = "OPT"
      BY <1>1, <3>1
    <3>2. CASE memtype # "OPT"
      <4>1. pc = "send"
        BY <3>2 DEF Paths
      <4> QED BY <1>1, <1>5, <4>1 DEF Fitted
    <3> QED BY <3>1, <3>2
  <2>2. Protected(i)
    BY <1>1, <1>2, <1>5, <2>1
  <2> QED BY <1>2, <1>5, <2>2
<1> QED BY <1>3, <1>4, <1>5 DEF WriteMem

\* A sleeping period leaves a unit that lands landed.
LEMMA SleepLands ==
  ASSUME TInv, Sleep, i \in Blocks, busy > 0, cell = [blk |-> i, data |-> buf[i]], mode = "fast" => mem[i] = EmptyUnit
  PROVE  \/ busy' = 0 /\ mem'[i] = buf[i]
         \/ busy' > 0 /\ cell' = cell /\ mode' = mode /\ mem' = mem
<1>0. TargetTypeOK /\ buf[i] \in Contents
  BY DEF TInv, Types, DriverType
<1>1. CASE busy = 1
  <2>1. PICK d \in Programmed(mem[i], buf[i], mode) : mem' = [mem EXCEPT ![i] = d]
    BY <1>1 DEF Sleep
  <2>2. busy' = 0
    BY <1>1 DEF Sleep
  <2>3. d = buf[i]
    <3>1. d \in Contents /\ \A o \in Offsets : d[o] = buf[i][o]
      BY <2>1 DEF Programmed, EmptyUnit
    <3> QED BY <1>0, <3>1 DEF Contents
  <2> QED BY <1>0, <2>1, <2>2, <2>3 DEF TargetTypeOK
<1>2. CASE busy # 1
  BY <1>0, <1>2, SleepTime DEF TargetTypeOK
<1> QED BY <1>1, <1>2

\* Without faults a unit that was sent gets into the part, or is refused.
LEMMA LandedStep ==
  ASSUME TInv, Paths, Ready, Faultless, Armed, Fitted, Landed, Enough, [Next]_vars, Faultless'
  PROVE  Landed'
<1> SUFFICES ASSUME faults' = 0, Arrived'
             PROVE  /\ memtype' = "RAM" => mem'[i'] = buf'[i']
                    /\ memtype' # "RAM" =>
                         \/ Refused'
                         \/ busy' = 0 /\ mem'[i'] = buf'[i']
                         \/ /\ busy' > 0 /\ cell' = [blk |-> i', data |-> buf'[i']]
                            /\ mode' = "fast" => mem'[i'] = EmptyUnit
  BY DEF Landed, EmptyUnit
<1>0. /\ faults = 0 /\ ~DeviceFails /\ ~late /\ ~late' /\ ~blind /\ ~unread /\ TargetTypeOK
      /\ pc \in Sites
  BY StillNone DEF Faultless, TInv, Types
<1>1. CASE Calls \/ UNCHANGED vars
  <2>1. UNCHANGED <<memtype, mem, iapsr, mode, busy, cell, pc, i, buf>>
    BY <1>1 DEF Calls, Ask, vars, targetVars, driverVars
  <2>2. (Done' <=> Done) /\ fromDevice' = fromDevice
    BY <1>1, NothingTold DEF Done, Told, vars, lineVars, Calls, Ask
  <2>3. Arrived
    BY <2>1, <2>2 DEF Arrived
  <2>4. Refused => Refused'
    BY <2>1, <2>2 DEF Refused
  <2> QED BY <1>0, <2>1, <2>3, <2>4 DEF Landed
<1>2. CASE DeviceRuns
  <2>1. UNCHANGED <<memtype, pc, i, buf>> /\ Effects /\ Done' /\ ~Told /\ pc \in CallSites
    BY <1>0, <1>2, RunsEffects DEF DeviceRuns, driverVars, Effects
  <2>2. pc \in {"send", "optbyte", "poll"}
    BY <2>1 DEF Arrived, CallSites, OpenSites
  <2>3. CASE pc \in {"send", "optbyte"}
    <3>1. i \in Blocks
      <4>1. asked # NoCommand
        BY <1>0, <1>2, RunsEffects
      <4>2. i < len
        BY <2>3, <4>1 DEF TInv, Sent, Underway
      <4> QED BY <4>2, TargetAssumption DEF TInv, Types, DriverType, Blocks
    <3>2. WriteMem(i, buf[i])
      BY <2>1, <2>3 DEF Effects
    <3>3. /\ memtype = "RAM" => mem'[i] = buf[i]
          /\ memtype # "RAM" =>
               \/ busy' = 0 /\ "EOP" \notin iapsr' /\ "WR_PG_DIS" \in iapsr'
               \/ busy' > 0 /\ cell' = [blk |-> i, data |-> buf[i]] /\ (mode' = "fast" => mem'[i] = EmptyUnit)
      BY <1>0, <2>1, <2>3, <3>1, <3>2, ArrivesLands
    <3>4. busy' = 0 /\ "EOP" \notin iapsr' /\ "WR_PG_DIS" \in iapsr' => Refused'
      BY <2>1, <2>3 DEF Refused
    <3> QED BY <2>1, <3>3, <3>4
  <2>4. CASE pc = "poll"
    <3>1. /\ iapsr' = iapsr \ EventBits /\ UNCHANGED <<mem, mode, busy, cell>> /\ fromDevice'[4] = IapsrByte
      BY <2>1, <2>4 DEF Effects, ReadIapsr
    <3>2. Arrived /\ ~Done
      BY <2>1, <2>4 DEF Arrived, Done
    <3>3. Refused => Refused'
      <4> SUFFICES ASSUME Refused PROVE Refused'
        OBVIOUS
      <4>1. busy = 0 /\ "EOP" \notin iapsr /\ (memtype # "OPT" => "WR_PG_DIS" \in iapsr)
        BY <2>4, <3>2 DEF Refused
      <4>2. ~Bit(IapsrByte, 4) /\ (memtype # "OPT" => Bit(IapsrByte, 1))
        BY <1>0, <4>1, SeenBits DEF TargetTypeOK
      <4> QED BY <2>1, <2>4, <3>1, <4>1, <4>2 DEF Refused
    <3> QED BY <1>0, <2>1, <3>1, <3>2, <3>3 DEF Landed
  <2> QED BY <2>2, <2>3, <2>4
<1>3. CASE HearingSteps
  <2>1. PICK v : Hear(v)
    BY <1>3, HearingStepsHear
  <2>2. Done /\ ~Done' /\ UNCHANGED <<memtype, targetVars>>
    BY <1>3, <2>1, HeardWell, NothingTold, Heeds DEF Done
  <2>3. UNCHANGED <<memtype, mem, iapsr, mode, busy, cell>>
    BY <2>2 DEF targetVars
  <2>4. pc' \in {"settle", "poll", "wait"}
    BY <2>2 DEF Arrived
  <2>5. CASE SendBlock \/ SendOptByte
    <3>1. pc \in {"send", "optbyte"} /\ pc' = "settle" /\ buf' = buf /\ i' = i
      BY <2>4, <2>5 DEF SendBlock, SendOptByte
    <3>2. Arrived
      BY <2>2, <3>1 DEF Arrived
    <3>3. Refused => Refused'
      BY <2>2, <2>3, <3>1 DEF Refused
    <3> QED BY <1>0, <2>3, <3>1, <3>2, <3>3 DEF Landed
  <2>6. CASE PollAgain
    <3>1. PICK u : Hear(u) /\ ~SeesEop(u) /\ IF memtype = "OPT" THEN retries > 1 ELSE ~Bit(u.data[1], 1)
      BY <2>6 DEF PollAgain
    <3>2. pc = "poll" /\ pc' = "wait" /\ buf' = buf /\ i' = i
      BY <2>6 DEF PollAgain
    <3>3. Arrived
      BY <3>2 DEF Arrived
    <3>4. u.data[1] = fromDevice[4]
      <4>1. Request = Command(Read, "IAPSR", 0, 1)
        BY <3>2 DEF Request
      <4>2. asked = Request /\ u.ok
        BY <3>1, Heeds, HeardWell
      <4>3. asked.n = 1 /\ asked.op \notin {Srst, HardReset}
        BY <4>1, <4>2 DEF Command, Read, Srst, HardReset
      <4>4. Len(u.data) = 1 /\ \A k \in 1 .. Len(u.data) : u.data[k] = fromDevice[3 + k]
        BY <3>1, <4>2, <4>3, Heeds
      <4> QED BY <4>4
    <3>5. Refused => Refused'
      BY <2>2, <2>3, <3>1, <3>2, <3>4 DEF Refused
    <3> QED BY <1>0, <2>3, <3>2, <3>3, <3>5 DEF Landed
  <2> QED BY <1>3, <2>4, <2>5, <2>6 DEF HearingSteps, FetchVersion, Reconnect, Prepare, Prepared, OptMode, ReadBack, BlockMode,
          PollDone, PollDies, Relock, ResetPart
<1>4. CASE SilentSteps
  <2>1. ~Done'
    BY <1>4, NothingTold DEF Done
  <2>2. pc' \in {"settle", "poll", "wait"}
    BY <2>1 DEF Arrived
  <2>3. Settle \/ Wait
    BY <1>4, <2>2 DEF SilentSteps, Open, SkipBlock, NextBlock, LoopEnds
  <2>4. /\ pc \in {"settle", "wait"} /\ Sleep /\ UNCHANGED <<memtype, buf, i>>
        /\ pc' \in {"poll", "wait"} /\ (pc' = "wait" => memtype = "OPT")
    BY <2>2, <2>3 DEF Settle, Wait, driverVars
  <2>5. Arrived /\ i \in Blocks
    BY <2>4, TargetAssumption DEF Arrived, TInv, Types, DriverType, Underway, Blocks
  <2>6. memtype # "RAM"
    BY <2>4 DEF Paths
  <2>7. CASE Refused \/ (busy = 0 /\ mem[i] = buf[i])
    <3>1. UNCHANGED <<mem, iapsr, mode, busy, cell>> /\ busy = 0
      BY <1>0, <2>4, <2>7, SleepTime DEF Refused
    <3>2. Refused => Refused'
      BY <2>1, <2>4, <3>1 DEF Refused
    <3> QED BY <2>4, <2>6, <2>7, <3>1, <3>2
  <2>8. CASE busy > 0 /\ cell = [blk |-> i, data |-> buf[i]] /\ (mode = "fast" => mem[i] = EmptyUnit)
    BY <2>4, <2>5, <2>6, <2>8, SleepLands
  <2> QED BY <1>0, <2>5, <2>6, <2>7, <2>8 DEF Landed
<1> QED BY <1>0, <1>1, <1>2, <1>3, <1>4, Steps

\* Without faults the driver leaves the loop at the end of the image only.
LEMMA WholeStep ==
  ASSUME TInv, Faultless, Whole, [Next]_vars, Faultless'
  PROVE  Whole'
<1> SUFFICES ASSUME faults' = 0 PROVE Whole'
  BY DEF Whole
<1> USE DEF Loop, Ending
<1>0. faults = 0 /\ ~DeviceFails /\ i \in 0 .. len /\ len \in Nat
  BY StillNone, TargetAssumption DEF TInv, Types, DriverType
<1>1. CASE Calls \/ DeviceRuns \/ UNCHANGED vars
  BY <1>0, <1>1 DEF Calls, Ask, DeviceRuns, vars, driverVars, Whole
<1>2. CASE HearingSteps
  <2>1. CASE FetchVersion \/ Reconnect \/ Prepare \/ OptMode \/ ReadBack
    <3>1. pc \in OpenSites \union {"csr", "stall", "keys", "optmode", "readback"} /\ i' = i
      BY <2>1 DEF FetchVersion, Reconnect, Prepare, OptMode, ReadBack, driverVars, OpenSites
    <3>2. pc' \notin Ending
      BY <2>1 DEF FetchVersion, Reconnect, Prepare, Prepared, OptMode, ReadBack
    <3> QED BY <1>0, <3>1, <3>2 DEF Whole, OpenSites
  <2>2. CASE SendBlock
    <3>1. PICK u : Hear(u) /\ pc' = IF ~u.ok THEN "srst" ELSE IF memtype = "RAM" THEN "block" ELSE "settle"
      BY <2>2 DEF SendBlock
    <3>2. u.ok
      BY <3>1, HeardWell
    <3> QED BY <3>1, <3>2 DEF Whole
  <2>3. CASE BlockMode \/ SendOptByte \/ PollDone \/ PollDies \/ PollAgain
    <3>1. pc' \in Loop \union {"failed"}
      BY <2>3 DEF BlockMode, SendOptByte, PollDone, PollDies, PollAgain
    <3> QED BY <3>1 DEF Whole
  <2>4. CASE Relock \/ ResetPart
    <3>1. pc \in Ending /\ pc' \in Ending /\ UNCHANGED <<i, len>>
      BY <2>4 DEF Relock, ResetPart, driverVars
    <3> QED BY <1>0, <3>1 DEF Whole
  <2> QED BY <1>2, <2>1, <2>2, <2>3, <2>4 DEF HearingSteps
<1>3. CASE SilentSteps
  <2>1. CASE Open
    BY <1>0, <2>1 DEF Open, driverVars, Whole
  <2>2. CASE SkipBlock \/ NextBlock \/ Settle \/ Wait
    <3>1. pc' \in Loop
      BY <2>2 DEF SkipBlock, NextBlock, Settle, Wait
    <3> QED BY <3>1 DEF Whole
  <2>3. CASE LoopEnds
    <3>1. i' = len' /\ pc' \in Ending
      BY <1>0, <2>3 DEF LoopEnds, driverVars
    <3> QED BY <3>1 DEF Whole
  <2> QED BY <1>3, <2>1, <2>2, <2>3 DEF SilentSteps
<1> QED BY <1>0, <1>1, <1>2, <1>3, Steps

\* Where the driver leaves a unit behind, the unit is as the image asks.
LEMMA LeavesRight ==
  ASSUME TInv, Paths, Ready, Known, Faultless, Landed, Halves, [Next]_vars, Faultless', faults' = 0, i' # i
  PROVE  mem'[i] = buf[i] /\ i' = i + 1 /\ \A b \in Blocks : b # i => mem'[b] = mem[b]
<1>0. faults = 0 /\ ~DeviceFails /\ ~late /\ ~blind /\ ~unread /\ busy \in Nat /\ TargetTypeOK
  BY StillNone DEF Faultless, TInv, Types, TargetTypeOK
<1>1. CASE Calls \/ DeviceRuns \/ UNCHANGED vars
  BY <1>1 DEF Calls, Ask, DeviceRuns, vars, driverVars
<1>2. CASE HearingSteps
  <2>1. PICK v : Hear(v)
    BY <1>2, HearingStepsHear
  <2>2. v.ok /\ Done /\ mem' = mem
    BY <2>1, HeardWell, Heeds DEF targetVars
  <2>3. SendBlock \/ PollDone
    BY <1>2 DEF HearingSteps, FetchVersion, Reconnect, Prepare, OptMode, ReadBack, BlockMode, SendOptByte, PollDies, PollAgain,
          Relock, ResetPart, driverVars
  <2>4. CASE SendBlock
    <3>1. pc = "send" /\ memtype = "RAM" /\ i' = i + 1
      BY <2>4 DEF SendBlock
    <3> QED BY <1>0, <2>2, <3>1 DEF Landed, Arrived
  <2>5. CASE PollDone
    <3>1. PICK u : Hear(u) /\ SeesEop(u)
      BY <2>5 DEF PollDone
    <3>2. pc = "poll" /\ i' = i + 1
      BY <2>5 DEF PollDone
    <3>3. Bit(fromDevice[4], 4)
      <4>1. Request = Command(Read, "IAPSR", 0, 1)
        BY <3>2 DEF Request
      <4>2. asked = Request /\ u.ok
        BY <3>1, Heeds, HeardWell
      <4>3. asked.n = 1 /\ asked.op \notin {Srst, HardReset}
        BY <4>1, <4>2 DEF Command, Read, Srst, HardReset
      <4>4. Len(u.data) = 1 /\ \A k \in 1 .. Len(u.data) : u.data[k] = fromDevice[3 + k]
        BY <3>1, <4>2, <4>3, Heeds
      <4> QED BY <3>1, <4>2, <4>4 DEF SeesEop
    <3>4. busy = 0
      BY <1>0, <2>2, <3>2, <3>3 DEF Ready
    <3>5. ~Refused /\ Arrived /\ memtype # "RAM"
      BY <2>2, <3>2, <3>3 DEF Refused, Arrived, Paths
    <3> QED BY <1>0, <2>2, <3>2, <3>4, <3>5 DEF Landed
  <2> QED BY <2>3, <2>4, <2>5
<1>3. CASE SilentSteps
  <2>1. SkipBlock \/ Wait
    BY <1>3 DEF SilentSteps, Open, NextBlock, Settle, LoopEnds, driverVars
  <2>2. CASE SkipBlock
    <3>1. pc = "block" /\ i < len /\ current[i] = buf[i] /\ i' = i + 1 /\ mem' = mem
      BY <2>2 DEF SkipBlock, targetVars
    <3>2. i \in Blocks
      BY <3>1, TargetAssumption DEF TInv, Types, DriverType, Blocks
    <3>3. memtype # "OPT"
      BY <3>1 DEF Paths
    <3>4. current[i] = mem[i]
      BY <1>0, <3>1, <3>2, <3>3 DEF Known, Loop
    <3> QED BY <3>1, <3>4
  <2>3. CASE Wait
    <3>1. pc = "wait" /\ retries = 0 /\ i' = i + 1 /\ Sleep
      BY <2>3 DEF Wait
    <3>2. busy = 0 /\ memtype \notin {"RAM", "OPT"}
      BY <1>0, <3>1 DEF Ready, Paths
    <3>3. mem' = mem
      BY <1>0, <3>1, <3>2, SleepTime
    <3>4. ~Refused /\ Arrived
      BY <3>1, <3>2 DEF Refused, Arrived
    <3> QED BY <1>0, <3>1, <3>2, <3>3, <3>4 DEF Landed
  <2> QED BY <2>1, <2>2, <2>3
<1> QED BY <1>0, <1>1, <1>2, <1>3, Steps

\* As long as the driver stays with a unit, only that unit may change, and not before its
\* write has arrived.
LEMMA StaysRight ==
  ASSUME TInv, Paths, Behind, Ready, Faultless, Landed, [Next]_vars, Faultless', faults' = 0, i' = i
  PROVE  /\ \A b \in Blocks : b # i => mem'[b] = mem[b]
         /\ ~Arrived' /\ pc' # "failed" => mem' = mem /\ ~Arrived
<1>0. faults = 0 /\ ~DeviceFails /\ ~late /\ ~late' /\ ~blind /\ TargetTypeOK /\ busy \in Nat
  BY StillNone DEF Faultless, TInv, Types, TargetTypeOK
<1>1. CASE Calls \/ UNCHANGED vars
  <2>1. UNCHANGED <<mem, pc>>
    BY <1>1 DEF Calls, Ask, vars, targetVars
  <2>2. Done' <=> Done
    BY <1>1, NothingTold DEF Done, Told, vars, lineVars, Calls, Ask
  <2> QED BY <2>1, <2>2 DEF Arrived
<1>2. CASE DeviceRuns
  <2>1. pc' = pc /\ ~Told /\ Done' /\ pc \in CallSites
    BY <1>0, <1>2, RunsEffects DEF DeviceRuns, Effects
  <2>2. CASE pc \in {"send", "optbyte"}
    BY <1>0, <1>2, <2>1, <2>2, RunsProgram DEF Arrived
  <2>3. CASE pc \notin {"send", "optbyte"}
    <3>1. pc \in Loop \/ busy = 0
      BY <1>0, <2>1, <2>3 DEF Ready, Loop, CallSites, OpenSites
    <3>2. mem' = mem
      BY <1>0, <1>2, <2>3, <3>1, RunsProgram
    <3> QED BY <2>1, <2>3, <3>2 DEF Arrived
  <2> QED BY <2>2, <2>3
<1>3. CASE HearingSteps
  <2>1. PICK v : Hear(v)
    BY <1>3, HearingStepsHear
  <2>2. mem' = mem /\ ~Done' /\ Done
    BY <1>3, <2>1, HeardWell, NothingTold, Heeds DEF targetVars, Done
  <2>3. ASSUME ~Arrived', pc' # "failed" PROVE ~Arrived
    <3>1. pc' \notin {"settle", "poll", "wait"}
      BY <2>3 DEF Arrived
    <3>2. ~SendOptByte /\ ~PollDone /\ ~PollAgain /\ ~PollDies
      BY <2>3, <3>1, TargetAssumption DEF SendOptByte, PollDone, PollAgain, PollDies, TInv, Types, DriverType
    <3>3. ~SendBlock
      <4> SUFFICES ASSUME SendBlock PROVE FALSE
        OBVIOUS
      <4>1. PICK u : /\ Hear(u)
                     /\ pc' = IF ~u.ok THEN "srst" ELSE IF memtype = "RAM" THEN "block" ELSE "settle"
                     /\ i' = IF u.ok /\ memtype = "RAM" THEN i + 1 ELSE i
        BY DEF SendBlock
      <4>2. u.ok
        BY <4>1, HeardWell
      <4>3. i + 1 # i
        BY TargetAssumption DEF TInv, Types, DriverType
      <4> QED BY <3>1, <4>1, <4>2, <4>3
    <3>4. pc \notin {"send", "optbyte", "settle", "poll", "wait"}
      BY <1>3, <3>2, <3>3 DEF HearingSteps, FetchVersion, Reconnect, Prepare, OptMode, ReadBack, BlockMode, Relock, ResetPart, OpenSites
    <3> QED BY <3>4 DEF Arrived
  <2> QED BY <2>2, <2>3
<1>4. CASE SilentSteps
  <2>1. ~Done' /\ asked = NoCommand
    BY <1>4, NothingTold, SilentLine DEF Done
  <2>2. CASE Open \/ SkipBlock \/ NextBlock \/ LoopEnds
    <3>1. mem' = mem /\ pc \notin {"settle", "poll", "wait"}
      BY <2>2 DEF Open, SkipBlock, NextBlock, LoopEnds, targetVars
    <3>2. ~Arrived
      BY <2>1, <3>1 DEF Arrived, Done, Told
    <3> QED BY <3>1, <3>2
  <2>3. CASE Settle \/ Wait
    <3>1. pc \in {"settle", "wait"} /\ Sleep
      BY <2>3 DEF Settle, Wait
    <3>2. pc' \in {"poll", "wait"}
      <4>1. i + 1 # i
        BY TargetAssumption DEF TInv, Types, DriverType
      <4> QED BY <2>3, <4>1 DEF Settle, Wait
    <3>3. Arrived /\ memtype # "RAM"
      BY <3>1 DEF Arrived, Paths
    <3>4. busy > 0 => cell.blk = i
      BY <1>0, <3>3 DEF Landed, Refused
    <3>5. \A b \in Blocks : b # i => mem'[b] = mem[b]
      BY <1>0, <3>1, <3>4, SleepChanges
    <3>6. Arrived'
      BY <3>2 DEF Arrived
    <3> QED BY <3>5, <3>6
  <2> QED BY <1>4, <2>2, <2>3 DEF SilentSteps
<1> QED BY <1>0, <1>1, <1>2, <1>3, <1>4, Steps

\* What is wanted stays, and a command that failed stays failed.
LEMMA Settled ==
  ASSUME [Next]_vars
  PROVE  UNCHANGED <<len, buf, old, goal>> /\ (pc = "failed" => pc' = "failed")
<1>1. CASE Calls \/ DeviceRuns \/ DeviceFails \/ UNCHANGED vars
  BY <1>1 DEF Calls, Ask, DeviceRuns, DeviceFails, vars, driverVars
<1>2. CASE HearingSteps
  BY <1>2 DEF HearingSteps, FetchVersion, Reconnect, Prepare, OptMode, ReadBack, BlockMode, SendBlock, SendOptByte,
     PollDone, PollDies, PollAgain, Relock, ResetPart, OpenSites, driverVars
<1>3. CASE SilentSteps
  BY <1>3 DEF SilentSteps, Open, SkipBlock, NextBlock, Settle, Wait, LoopEnds, driverVars
<1> QED BY <1>1, <1>2, <1>3, Steps

\* Without faults the image grows behind the driver, and nothing else changes.
LEMMA HalvesStep ==
  ASSUME TInv, Paths, Behind, Ready, Known, Faultless, Landed, Halves, [Next]_vars, Faultless'
  PROVE  Halves'
<1>0. UNCHANGED <<len, buf, old, goal>> /\ (pc = "failed" => pc' = "failed")
  BY Settled
<1>1. old' \in [Blocks -> Contents] /\ goal' = Overlay(old)'
  BY <1>0 DEF Halves, Overlay
<1>2. ASSUME faults' = 0, NEW b \in Blocks
      PROVE  /\ b < i' => mem'[b] = buf'[b]
             /\ b > i' \/ (b = i' /\ ~Arrived' /\ pc' # "failed") => mem'[b] = old'[b]
  <2>0. faults = 0 /\ i \in Nat /\ b \in Nat
    BY <1>2, StillNone, TargetAssumption DEF TInv, Types, DriverType, Blocks
  <2>1. /\ b < i => mem[b] = buf[b]
        /\ b > i \/ (b = i /\ ~Arrived /\ pc # "failed") => mem[b] = old[b]
    BY <2>0 DEF Halves
  <2>2. CASE i' # i
    <3>1. mem'[i] = buf[i] /\ i' = i + 1 /\ (b # i => mem'[b] = mem[b])
      BY <1>2, <2>2, LeavesRight
    <3> QED BY <1>0, <2>0, <2>1, <3>1
  <2>3. CASE i' = i
    <3>1. /\ b # i => mem'[b] = mem[b]
          /\ ~Arrived' /\ pc' # "failed" => mem' = mem /\ ~Arrived
      BY <1>2, <2>3, StaysRight
    <3> QED BY <1>0, <2>0, <2>1, <2>3, <3>1
  <2> QED BY <2>2, <2>3
<1> QED BY <1>1, <1>2 DEF Halves

\* The part that a line without faults adds to the invariant.
Cleanly == Faultless /\ Armed /\ Fitted /\ Landed /\ Whole /\ Halves

\* All that a line without faults adds, all through a run.
LEMMA CleanInvariant ==
  ASSUME Enough
  PROVE  Spec => [](TInv /\ Cleanly)
<1>1. Init => Cleanly
  <2> SUFFICES ASSUME Init PROVE Cleanly
    OBVIOUS
  <2>1. /\ pc = "open" /\ ~late /\ ~blind /\ ~unread /\ ~Told /\ i = 0 /\ old = mem /\ goal = Overlay(old)
        /\ mem \in [Blocks -> Contents]
    BY DEF Init, TargetInit, Told
  <2>2. \A b \in Blocks : ~(b < 0)
    BY TargetAssumption DEF Blocks
  <2>3. Halves
    BY <2>1, <2>2 DEF Halves
  <2> QED BY <2>1, <2>3 DEF Cleanly, Faultless, Armed, Fitted, Landed, Whole, Arrived, Done, Loop, Ending
<1>2. TInv /\ Paths /\ Behind /\ Fetched /\ Known /\ Ready /\ Cleanly /\ [Next]_vars => Cleanly'
  <2> SUFFICES ASSUME TInv, Paths, Behind, Known, Ready, Cleanly, [Next]_vars PROVE Cleanly'
    OBVIOUS
  <2>0. Faultless /\ Armed /\ Fitted /\ Landed /\ Whole /\ Halves
    BY DEF Cleanly
  <2>1. Faultless'
    BY <2>0, FaultlessStep
  <2>2. Armed'
    BY <2>0, <2>1, ArmedStep
  <2>3. Fitted'
    BY <2>0, <2>1, FittedStep
  <2>4. Landed'
    BY <2>0, <2>1, LandedStep
  <2>5. Whole'
    BY <2>0, <2>1, WholeStep
  <2>6. Halves'
    BY <2>0, <2>1, HalvesStep
  <2> QED BY <2>1, <2>2, <2>3, <2>4, <2>5, <2>6 DEF Cleanly
<1> QED BY <1>1, <1>2, ReadyInvariant, PTL DEF Spec

\* CleanWritten: where a unit takes no longer than the driver has attempts, a WRITE through a
\* link on which every command was answered in time and well, and which ends, has gone
\* through the whole image and left the area as the image asks, protected units or not:
\* each of the image's units is programmed, and no cell beside it is.
THEOREM CleanWriteIsRight ==
  ASSUME \A t \in ProgTime : t <= Tries
  PROVE  Spec => []CleanWritten
<1>1. Enough
  BY DEF Enough
<1>2. TInv /\ Cleanly => CleanWritten
  <2> SUFFICES ASSUME TInv, Cleanly, pc = "done", faults = 0 PROVE mem = goal /\ i = len
    BY DEF CleanWritten
  <2>1. i = len
    BY DEF Cleanly, Whole, Ending
  <2>2. ~Arrived
    BY DEF Arrived
  <2>3. mem \in [Blocks -> Contents] /\ len \in Nat /\ \A b \in Blocks : b \in Nat
    BY TargetAssumption DEF TInv, Types, TargetTypeOK, DriverType, Blocks
  <2>4. goal = [b \in Blocks |-> IF b < len THEN buf[b] ELSE old[b]]
    BY DEF Cleanly, Halves, Overlay
  <2>5. ASSUME NEW b \in Blocks PROVE mem[b] = IF b < len THEN buf[b] ELSE old[b]
    BY <2>1, <2>2, <2>3 DEF Cleanly, Halves
  <2> QED BY <2>1, <2>3, <2>4, <2>5
<1> QED BY <1>1, <1>2, CleanInvariant, PTL
=============================================================================
