------------------------- MODULE SwimSessionProofs -------------------------
(***************************************************************************)
(* Theorems about SwimSession and the search for the programmer before it  *)
(* (UsbInit): any devices with any serial numbers, any sizes of the read   *)
(* buffer, any length and any number of invocations, each of which may die *)
(* anywhere.                                                               *)
(*                                                                         *)
(* The parts of the inductive invariant are independent but for the types: *)
(* Found (the search), Linked (mode and speed), Polled (the statuses of a  *)
(* command), Fetched (how much was read) and InPlace (where it is).        *)
(***************************************************************************)
EXTENDS SwimSession, SequenceTheorems, TLAPS

Modes   == FirstModes \union {"swim", "mass"}
Opening == {"version", "leave", "enter", "bufsize"}

\* The device that was opened is one of the kind asked for.
Chosen ==
  /\ kind \in [Bus -> Kinds] /\ serial \in [Bus -> Serials]
  /\ handle \in Candidates \union {0} /\ k \in 1 .. NDevices + 1
  /\ pc \in SwimCmds \union Opening \union {"close"} => handle # 0

\* Where the tool is, and the state of probes and parts.
Placed ==
  /\ pc \in Ended \union SwimCmds \union Opening \union {"count", "list", "claim", "close", "swimerror"}
  /\ probe \in [Bus -> [mode : Modes, fast : BOOLEAN]]
  /\ part \in [Bus -> [hsit : BOOLEAN, fast : BOOLEAN]]
  /\ sent \in BOOLEAN /\ sent => pc \in SwimCmds

\* The statuses of a command.
Statuses ==
  /\ word \in Words /\ status \in [0 .. 1 -> Words] /\ set \in 0 .. 1 /\ stalls \in 0 .. MaxStalls
  /\ pc # "swimerror" => stalls < MaxStalls

\* The numbers of a session.
Numbers ==
  /\ readBuf \in Nat /\ got \in 0 .. Length /\ retries \in 0 .. HsitTries
  /\ op \in {"read", "write"} /\ csr \in BOOLEAN

TInv == Chosen /\ Placed /\ Statuses /\ Numbers

\* A step of the search: the opened device, if there is one, is of the kind asked for.
LEMMA SearchStep ==
  ASSUME UsbStep, Chosen, Placed
  PROVE  /\ handle' \in Candidates \union {0} /\ k' \in 1 .. NDevices + 1 /\ UNCHANGED <<busVars, pgm>>
         /\ pc' \in {"list", "claim", "failed", "version"} /\ pc \in {"count", "list", "claim"}
         /\ pc' = "version" => handle' # 0
<1>0. NDevices \in Nat
  BY UsbAssumption
<1>1. CASE Count
  BY <1>0, <1>1 DEF Count, OpenFirst, Chosen
<1>2. CASE PassOver
  BY <1>0, <1>2 DEF PassOver, Chosen, Bus
<1>3. CASE LookAt
  BY <1>0, <1>3 DEF LookAt, Chosen, Bus, Candidates
<1>4. CASE ListEnds
  BY <1>0, <1>4 DEF ListEnds, Chosen
<1>5. CASE Claim
  BY <1>0, <1>5 DEF Claim, Chosen
<1> QED BY <1>1, <1>2, <1>3, <1>4, <1>5 DEF UsbStep

\* Where a command leads.
LEMMA BehindType ==
  ASSUME Numbers, pc \in SwimCmds
  PROVE  Behind \in SwimCmds \union {"close"}
BY DEF Behind, SwimCmds, MemCmds, Numbers

\* What a command does to probe and part keeps their types.
LEMMA DoneType ==
  ASSUME Chosen, Placed, Done
  PROVE  /\ probe' \in [Bus -> [mode : Modes, fast : BOOLEAN]]
         /\ part' \in [Bus -> [hsit : BOOLEAN, fast : BOOLEAN]]
<1>1. probe' \in [Bus -> [mode : Modes, fast : BOOLEAN]]
  BY DEF Done, Chosen, Placed
<1>2. part' \in [Bus -> [hsit : BOOLEAN, fast : BOOLEAN]]
  BY DEF Done, Chosen, Placed
<1> QED BY <1>1, <1>2

\* Types are inductive.
LEMMA TypeInvariant == Spec => []TInv
<1>1. Init => TInv
  <2> SUFFICES ASSUME Init PROVE TInv
    OBVIOUS
  <2>1. Chosen
    BY UsbAssumption DEF Init, UsbInitial, Chosen, SwimCmds, MemCmds, Opening
  <2>2. Placed
    BY SessionAssumption DEF Init, UsbInitial, Placed, Ended, SwimCmds, MemCmds, Opening, Modes
  <2>3. Statuses
    BY DEF Init, Statuses, Words, MaxStalls
  <2>4. Numbers
    <3>1. csr \in BOOLEAN
      BY Zenon DEF Init
    <3> QED BY <3>1, SessionAssumption DEF Init, Numbers
  <2> QED BY <2>1, <2>2, <2>3, <2>4 DEF TInv
<1>2. TInv /\ [Next]_vars => TInv'
  <2> SUFFICES ASSUME TInv, [Next]_vars PROVE TInv'
    OBVIOUS
  <2>0. /\ NDevices \in Nat /\ Length \in Nat /\ HsitTries \in Nat /\ BufSizes \subseteq Nat
        /\ Chosen /\ Placed /\ Statuses /\ Numbers
    BY UsbAssumption, SessionAssumption DEF TInv
  <2>c. UNCHANGED <<kind, pgm>> => Candidates' = Candidates
    BY DEF Candidates, Matching
  <2>1. CASE Run
    <3>1. Chosen'
      BY <2>0, <2>1 DEF Run, Invoke, busVars, Chosen, SwimCmds, MemCmds, Opening
    <3>2. Placed'
      BY <2>0, <2>1 DEF Run, Invoke, pollVars, Placed, SwimCmds, MemCmds, Opening, Ended
    <3>3. Statuses'
      BY <2>0, <2>1 DEF Run, Ended, pollVars, Statuses
    <3>4. Numbers'
      <4>1. csr' \in BOOLEAN
        BY <2>1, Zenon DEF Run
      <4> QED BY <2>0, <2>1, <4>1 DEF Run, Numbers
    <3> QED BY <3>1, <3>2, <3>3, <3>4 DEF TInv
  <2>2. CASE Find
    <3>0. /\ handle' \in Candidates \union {0} /\ k' \in 1 .. NDevices + 1 /\ UNCHANGED <<busVars, pgm>>
          /\ pc' \in {"list", "claim", "failed", "version"} /\ pc \in {"count", "list", "claim"}
          /\ pc' = "version" => handle' # 0
      BY <2>0, <2>2, SearchStep DEF Find
    <3>1. Chosen'
      BY <2>0, <2>c, <3>0 DEF busVars, Chosen, SwimCmds, MemCmds, Opening
    <3>2. Placed'
      BY <2>0, <2>2, <3>0 DEF Find, pollVars, Placed, SwimCmds, MemCmds, Opening, Ended
    <3>3. Statuses' /\ Numbers'
      BY <2>0, <2>2, <3>0 DEF Find, pollVars, toolVars, Statuses, Numbers
    <3> QED BY <3>1, <3>2, <3>3 DEF TInv
  <2>3. CASE GetMode \/ LeaveMode \/ EnterSwim \/ GetBufSize \/ Close
    <3>0. /\ UNCHANGED <<kind, serial, pgm, handle, op, sent, word, status, set, stalls, csr, retries, got, part>>
          /\ pc' \in Opening \union {"assert", "ended"} /\ pc \in Opening \union {"close"}
          /\ k' = 1 \/ UNCHANGED k
      BY <2>3 DEF GetMode, LeaveMode, EnterSwim, GetBufSize, Close, busVars, pollVars, toolVars, Opening
    <3>1. Chosen'
      BY <2>0, <2>c, <3>0 DEF Chosen, Opening, SwimCmds
    <3>2. probe' \in [Bus -> [mode : Modes, fast : BOOLEAN]]
      BY <2>0, <2>3 DEF GetMode, LeaveMode, EnterSwim, GetBufSize, Close, SetMode, Placed, Modes
    <3>3. Placed'
      BY <2>0, <3>0, <3>2 DEF Placed, SwimCmds, MemCmds, Opening, Ended
    <3>4. readBuf' \in Nat
      BY <2>0, <2>3 DEF GetMode, LeaveMode, EnterSwim, GetBufSize, Close, toolVars, Numbers
    <3>5. Statuses' /\ Numbers'
      BY <2>0, <3>0, <3>4 DEF Statuses, Numbers, Opening
    <3> QED BY <3>1, <3>3, <3>5 DEF TInv
  <2>4. CASE Send \/ ProbeWorks
    <3>1. Chosen'
      BY <2>0, <2>4, <2>c DEF Send, ProbeWorks, usbVars, busVars, Chosen
    <3>2. Placed'
      BY <2>0, <2>4 DEF Send, ProbeWorks, usbVars, Placed
    <3>3. Statuses'
      BY <2>0, <2>4 DEF Send, ProbeWorks, Statuses, usbVars, SwimCmds, MemCmds
    <3>4. Numbers'
      BY <2>0, <2>4 DEF Send, ProbeWorks, toolVars, Numbers
    <3> QED BY <3>1, <3>2, <3>3, <3>4 DEF TInv
  <2>5. CASE PollAgain
    <3>1. Chosen'
      BY <2>0, <2>5, <2>c DEF PollAgain, busVars, Chosen, SwimCmds, MemCmds, Opening
    <3>2. Placed'
      BY <2>0, <2>5 DEF PollAgain, Placed
    <3>3. Statuses'
      <4>1. pc # "swimerror"
        BY <2>0, <2>5 DEF PollAgain, Heard, Placed, SwimCmds, MemCmds
      <4>2. status' \in [0 .. 1 -> Words]
        BY <2>0, <2>5 DEF PollAgain, Heard, Statuses
      <4>3. stalls' \in 0 .. MaxStalls
        BY <2>0, <2>5, <4>1 DEF PollAgain, StallsNow, Statuses, MaxStalls
      <4>4. pc' # "swimerror" => stalls' < MaxStalls
        BY <2>0, <2>5 DEF PollAgain
      <4> QED BY <2>0, <2>5, <4>2, <4>3, <4>4 DEF PollAgain, Statuses
    <3>4. Numbers'
      BY <2>0, <2>5 DEF PollAgain, toolVars, Numbers
    <3> QED BY <3>1, <3>2, <3>3, <3>4 DEF TInv
  <2>6. CASE PollDone
    <3>0. pc \in SwimCmds /\ pc' \in SwimCmds \union {"close"} /\ Done
      BY <2>0, <2>6, BehindType DEF PollDone, Placed
    <3>1. Chosen'
      BY <2>0, <2>6, <2>c, <3>0 DEF PollDone, busVars, Chosen
    <3>2. Placed'
      BY <2>0, <2>6, <3>0, DoneType DEF PollDone, Quiet, Placed
    <3>3. Numbers'
      <4>1. csr' \in BOOLEAN
        <5>1. part[handle].hsit \in BOOLEAN
          BY <2>0, <3>0 DEF Chosen, Placed, Candidates
        <5> QED BY <2>0, <2>6, <5>1 DEF PollDone, Numbers
      <4>2. retries' \in 0 .. HsitTries
        BY <2>0, <2>6 DEF PollDone, Numbers
      <4>3. got' \in 0 .. Length
        BY <2>0, <2>6 DEF PollDone, Numbers, Chunk
      <4> QED BY <2>0, <2>6, <4>1, <4>2, <4>3 DEF PollDone, Numbers
    <3>4. Statuses'
      BY <2>6 DEF PollDone, Quiet, Statuses, Words, MaxStalls
    <3> QED BY <3>1, <3>2, <3>3, <3>4 DEF TInv
  <2>7. CASE ReadEnds
    BY <2>0, <2>7, <2>c DEF ReadEnds, busVars, toolVars, pollVars, TInv, Chosen, Placed, Statuses, Numbers, SwimCmds,
                            MemCmds, Opening
  <2>8. CASE Die \/ UsbError
    <3>0. /\ Exit
          /\ probe' \in [Bus -> [mode : Modes, fast : BOOLEAN]]
          /\ part' \in [Bus -> [hsit : BOOLEAN, fast : BOOLEAN]]
      BY <2>0, <2>8, DoneType DEF Die, UsbError, Placed
    <3>1. Chosen'
      BY <2>0, <2>c, <3>0 DEF Exit, busVars, Chosen, SwimCmds, MemCmds, Opening
    <3>2. Placed'
      BY <2>0, <3>0 DEF Exit, Quiet, Placed, Ended
    <3>3. Statuses'
      BY <3>0 DEF Exit, Quiet, Statuses, Words, MaxStalls
    <3>4. Numbers'
      <4>1. csr' \in BOOLEAN
        BY <3>0, Zenon DEF Exit
      <4> QED BY <2>0, <3>0, <4>1 DEF Exit, Numbers
    <3> QED BY <3>1, <3>2, <3>3, <3>4 DEF TInv
  <2>9. CASE HsiTrimmed
    <3>1. Chosen' /\ Statuses' /\ Numbers'
      BY <2>0, <2>9, <2>c DEF HsiTrimmed, usbVars, busVars, toolVars, pollVars, Chosen, Statuses, Numbers
    <3>2. Placed'
      BY <2>0, <2>9 DEF HsiTrimmed, usbVars, toolVars, pollVars, Placed
    <3> QED BY <3>1, <3>2 DEF TInv
  <2>10. CASE UNCHANGED vars
    BY <2>0, <2>10, <2>c DEF vars, usbVars, busVars, toolVars, pollVars, TInv, Chosen, Placed, Statuses, Numbers
  <2> QED BY <2>1, <2>2, <2>3, <2>4, <2>5, <2>6, <2>7, <2>8, <2>9, <2>10 DEF Next, Tool
<1> QED BY <1>1, <1>2, PTL DEF Spec

\* Type correctness: a SWIM command is sent only to a device of the kind asked for that was
\* opened, and a read never gets more bytes than it wants.
THEOREM TypeCorrect == Spec => []TypeOK
<1>1. TInv => TypeOK
  <2> SUFFICES ASSUME TInv PROVE TypeOK
    OBVIOUS
  <2>1. handle \in 0 .. NDevices
    BY UsbAssumption DEF TInv, Chosen, Candidates, Bus
  <2>2. /\ pc \in Ended \union SwimCmds \union {"count", "list", "claim", "version", "leave", "enter",
                                               "bufsize", "close", "swimerror"}
        /\ pc \in SwimCmds \union {"version", "close"} => handle \in Candidates
    BY DEF TInv, Chosen, Placed, Opening
  <2> QED BY <2>1, <2>2 DEF TInv, Chosen, Placed, Statuses, Numbers, TypeOK, Modes
<1> QED BY <1>1, TypeInvariant, PTL
-----------------------------------------------------------------------------
\* What has been brought about by the time a command is sent: SWIM mode, then low speed on
\* both sides, then high speed on both or on none.
Linked ==
  /\ pc \in SwimCmds \union {"bufsize"} => probe[handle].mode = "swim"
  /\ pc = "enterseq" => ~part[handle].fast
  /\ pc \in {"csr", "deassert", "readcsr", "swimreset", "hsbit"} =>
       ~part[handle].fast /\ ~probe[handle].fast
  /\ pc = "swimreset" /\ csr => part[handle].hsit
  /\ pc = "hsbit" => part[handle].hsit
  /\ pc = "speed" => part[handle].fast
  /\ pc \in {"read", "write", "rstread", "rstbit"} => part[handle].fast = probe[handle].fast

\* Mode and speed are inductive.
LEMMA LinkInvariant == Spec => [](TInv /\ Linked)
<1>1. Init => Linked
  BY DEF Init, UsbInitial, Linked, SwimCmds, MemCmds
<1>2. TInv /\ Linked /\ [Next]_vars => Linked'
  <2> SUFFICES ASSUME TInv, Linked, [Next]_vars PROVE Linked'
    OBVIOUS
  <2>0. /\ probe \in [Bus -> [mode : Modes, fast : BOOLEAN]]
        /\ part \in [Bus -> [hsit : BOOLEAN, fast : BOOLEAN]]
        /\ pc \in SwimCmds \union Opening \union {"close"} => handle \in Bus
    BY DEF TInv, Chosen, Placed, Candidates
  <2>1. CASE Run \/ Find \/ Close \/ ReadEnds \/ Die \/ UsbError
    <3>1. pc' \notin SwimCmds \union {"bufsize"}
      <4>1. CASE Find
        <5>1. pc' \in {"list", "claim", "failed", "version"}
          BY <4>1, SearchStep DEF Find, TInv
        <5> QED BY <5>1 DEF SwimCmds, MemCmds
      <4> QED BY <2>1, <4>1 DEF Run, Invoke, Close, ReadEnds, Die, UsbError, Exit, SwimCmds, MemCmds
    <3> QED BY <3>1 DEF Linked, SwimCmds, MemCmds
  <2>2. CASE GetMode \/ LeaveMode \/ EnterSwim
    <3>1. pc' = "bufsize" => probe'[handle'].mode = "swim"
      BY <2>0, <2>2 DEF GetMode, LeaveMode, EnterSwim, SetMode, Opening
    <3>2. pc' \in {"bufsize", "leave", "enter"}
      BY <2>2 DEF GetMode, LeaveMode, EnterSwim
    <3> QED BY <3>1, <3>2 DEF Linked, SwimCmds, MemCmds
  <2>3. CASE GetBufSize
    BY <2>3 DEF GetBufSize, Linked, SwimCmds, MemCmds
  <2>4. CASE Send \/ ProbeWorks \/ UNCHANGED vars
    <3>1. UNCHANGED <<pc, handle, probe, part, csr>>
      BY <2>4 DEF Send, ProbeWorks, usbVars, toolVars, vars
    <3> QED BY <3>1 DEF Linked
  <2>5. CASE PollAgain
    BY <2>5 DEF PollAgain, toolVars, Linked, SwimCmds, MemCmds
  <2>6. CASE HsiTrimmed
    <3>1. /\ UNCHANGED <<pc, handle, probe, csr>> /\ pc \in SwimCmds
          /\ part' = [part EXCEPT ![handle].hsit = TRUE]
      BY <2>6 DEF HsiTrimmed, usbVars, toolVars, SwimCmds, MemCmds
    <3>2. part'[handle].hsit /\ part'[handle].fast = part[handle].fast
      BY <2>0, <3>1
    <3> QED BY <3>1, <3>2 DEF Linked
  <2>7. CASE PollDone
    <3>0. pc \in SwimCmds /\ handle \in Bus /\ UNCHANGED handle /\ pc' = Behind /\ Done
          /\ probe[handle].mode = "swim" /\ op \in {"read", "write"}
      BY <2>0, <2>7 DEF PollDone, TInv, Placed, Linked, Numbers
    <3>1. probe'[handle].mode = "swim"
      BY <2>0, <3>0 DEF Done
    <3>2. CASE pc = "assert"
      <4>1. pc' = "enterseq" /\ ~part'[handle].fast
        BY <2>0, <3>0, <3>2 DEF Behind, Done
      <4> QED BY <3>0, <3>1, <4>1 DEF Linked
    <3>3. CASE pc = "enterseq"
      <4>1. pc' = "csr" /\ ~part'[handle].fast /\ ~probe'[handle].fast
        BY <2>0, <3>0, <3>3 DEF Behind, Done, Linked
      <4> QED BY <3>0, <3>1, <4>1 DEF Linked
    <3>4. CASE pc \in {"csr", "deassert"}
      <4>1. pc' \in {"deassert", "readcsr"} /\ UNCHANGED <<probe, part>>
        BY <3>0, <3>4 DEF Behind, Done
      <4> QED BY <3>0, <3>1, <3>4, <4>1 DEF Linked
    <3>5. CASE pc = "readcsr"
      <4>1. pc' \in {"swimreset", "readcsr"} /\ UNCHANGED <<probe, part>> /\ csr' = part[handle].hsit
        BY <2>7, <3>0, <3>5 DEF Behind, Done, PollDone
      <4> QED BY <3>0, <3>1, <3>5, <4>1 DEF Linked
    <3>6. CASE pc = "swimreset"
      <4>1. pc' \in {"hsbit", "read", "write"} /\ UNCHANGED <<probe, part>> /\ (pc' = "hsbit" => csr)
        BY <3>0, <3>6 DEF Behind, Done
      <4>2. ~part[handle].fast /\ ~probe[handle].fast /\ (csr => part[handle].hsit)
        BY <3>6 DEF Linked
      <4>3. part[handle].fast = probe[handle].fast
        <5>1. part[handle].fast \in BOOLEAN /\ probe[handle].fast \in BOOLEAN
          BY <2>0, <3>0
        <5> QED BY <4>2, <5>1
      <4>4. part'[handle].fast = probe'[handle].fast /\ ~part'[handle].fast /\ ~probe'[handle].fast
        BY <4>1, <4>2, <4>3, Zenon
      <4> QED BY <3>0, <3>1, <4>1, <4>2, <4>4 DEF Linked
    <3>7. CASE pc = "hsbit"
      <4>1. part[handle].hsit /\ pc' = "speed"
        BY <3>0, <3>7 DEF Linked, Behind
      <4>2. part'[handle].fast
        BY <2>0, <3>0, <3>7, <4>1 DEF Done
      <4> QED BY <3>0, <3>1, <4>1, <4>2 DEF Linked
    <3>8. CASE pc = "speed"
      <4>1. pc' \in {"read", "write"} /\ part[handle].fast /\ UNCHANGED part
        BY <3>0, <3>8 DEF Linked, Behind, Done
      <4>2. probe'[handle].fast
        BY <2>0, <3>0, <3>8 DEF Done
      <4>3. part'[handle].fast = probe'[handle].fast
        <5>1. part[handle].fast \in BOOLEAN /\ probe'[handle].fast \in BOOLEAN
          BY <2>0, <3>0, <3>8 DEF Done
        <5> QED BY <4>1, <4>2, <5>1
      <4> QED BY <3>0, <3>1, <4>1, <4>2, <4>3 DEF Linked
    <3>9. CASE pc \in {"read", "write", "rstread"}
      <4>1. pc' \in {"read", "rstread", "rstbit"} /\ UNCHANGED <<probe, part>>
        BY <3>0, <3>9 DEF Behind, Done
      <4>2. part[handle].fast = probe[handle].fast
        BY <3>9 DEF Linked
      <4>3. part'[handle].fast = probe'[handle].fast
        BY <4>1, <4>2, Zenon
      <4> QED BY <3>0, <3>1, <4>1, <4>3 DEF Linked
    <3>10. CASE pc \in {"rstbit", "genrst"}
      <4>1. pc' \in {"genrst", "close"}
        BY <3>0, <3>10 DEF Behind
      <4> QED BY <3>0, <3>1, <4>1 DEF Linked, SwimCmds, MemCmds
    <3> QED BY <3>0, <3>2, <3>3, <3>4, <3>5, <3>6, <3>7, <3>8, <3>9, <3>10 DEF SwimCmds, MemCmds
  <2> QED BY <2>1, <2>2, <2>3, <2>4, <2>5, <2>6, <2>7 DEF Next, Tool
<1> QED BY <1>1, <1>2, TypeInvariant, PTL DEF Spec

\* However earlier invocations ended or died, and in whatever mode and at whatever speed they
\* left probe and part: a command that accesses the part finds the probe in SWIM mode and both
\* sides at one speed.
THEOREM LinkIsUp == Spec => []LinkUp
<1>1. TInv /\ Linked => LinkUp
  <2> SUFFICES ASSUME TInv, Linked, pc \in MemCmds
               PROVE  probe[handle].mode = "swim" /\ probe[handle].fast = part[handle].fast
    BY DEF LinkUp
  <2>1. probe[handle].mode = "swim"
    BY DEF Linked, SwimCmds
  <2>2. CASE pc \in {"csr", "readcsr", "hsbit"}
    <3>1. handle \in Bus
      BY DEF TInv, Chosen, SwimCmds, Candidates
    <3>2. probe[handle].fast \in BOOLEAN /\ part[handle].fast \in BOOLEAN
      BY <3>1 DEF TInv, Placed
    <3>3. ~probe[handle].fast /\ ~part[handle].fast
      BY <2>2 DEF Linked
    <3> QED BY <2>1, <3>2, <3>3
  <2>3. CASE pc \in {"read", "write", "rstread", "rstbit"}
    BY <2>1, <2>3 DEF Linked
  <2> QED BY <2>2, <2>3 DEF MemCmds
<1> QED BY <1>1, LinkInvariant, PTL
-----------------------------------------------------------------------------
\* The statuses of a command: the one of the pair that is not next was received last, and
\* statuses stall no longer than they are the same.
Polled ==
  /\ pc # "swimerror" => \/ same = 0 /\ stalls = 0 /\ last = "ok"
                         \/ same \in 1 .. MaxStalls /\ stalls <= same /\ status[1 - set] = last
  /\ pc = "swimerror" => same = MaxStalls /\ status[set] = last

\* The pair of statuses is inductive.
LEMMA PollInvariant == Spec => [](TInv /\ Polled)
<1>1. Init => Polled
  BY DEF Init, UsbInitial, Polled
<1>2. TInv /\ Polled /\ [Next]_vars => Polled'
  <2> SUFFICES ASSUME TInv, Polled, [Next]_vars PROVE Polled'
    OBVIOUS
  <2>0. /\ status \in [0 .. 1 -> Words] /\ set \in 0 .. 1 /\ stalls \in 0 .. MaxStalls
        /\ sent => pc \in SwimCmds
        /\ pc # "swimerror" => stalls < MaxStalls
    BY DEF TInv, Statuses, Placed
  <2>1. CASE PollAgain
    <3>0. pc # "swimerror" /\ stalls < MaxStalls /\ stalls \in Nat
      <4>1. pc # "swimerror"
        BY <2>0, <2>1 DEF PollAgain, Heard, SwimCmds, MemCmds
      <4> QED BY <2>0, <4>1
    <3>1. /\ status' = [status EXCEPT ![set] = word] /\ last' = word /\ word # "ok" /\ set' = 1 - set
          /\ same' = IF word # last THEN 1 ELSE IF same < MaxStalls THEN same + 1 ELSE same
          /\ stalls' = IF status'[0] # status'[1] THEN 0 ELSE stalls + 1
          /\ IF stalls' < MaxStalls THEN UNCHANGED pc ELSE pc' = "swimerror"
      BY <2>1 DEF PollAgain, Heard, StallsNow
    <3>2. /\ status'[1 - set'] = word /\ status'[set'] = status[1 - set]
          /\ status'[0] = status'[1] <=> word = status[1 - set]
      BY <2>0, <3>1
    <3>3. CASE same = 0 /\ stalls = 0 /\ last = "ok"
      <4>1. same' = 1 /\ stalls' \in {0, 1} /\ UNCHANGED pc
        BY <3>1, <3>3 DEF MaxStalls
      <4> QED BY <3>0, <3>1, <3>2, <4>1 DEF Polled, MaxStalls
    <3>4. CASE same \in 1 .. MaxStalls /\ stalls <= same /\ status[1 - set] = last
      <4>1. CASE word # last
        <5>1. same' = 1 /\ stalls' = 0 /\ UNCHANGED pc
          BY <3>1, <3>2, <3>4, <4>1 DEF MaxStalls
        <5> QED BY <3>0, <3>1, <3>2, <5>1 DEF Polled, MaxStalls
      <4>2. CASE word = last
        <5>1. stalls' = stalls + 1 /\ same' = IF same < MaxStalls THEN same + 1 ELSE same
          BY <3>1, <3>2, <3>4, <4>2
        <5>2. same' \in 1 .. MaxStalls /\ stalls' <= same' /\ (~(stalls' < MaxStalls) => same' = MaxStalls)
          BY <3>0, <3>4, <5>1 DEF MaxStalls
        <5>3. status'[set'] = last' /\ status'[1 - set'] = last'
          BY <3>1, <3>2, <3>4, <4>2
        <5> QED BY <3>0, <3>1, <5>2, <5>3 DEF Polled
      <4> QED BY <4>1, <4>2
    <3> QED BY <3>0, <3>3, <3>4 DEF Polled
  <2>2. CASE PollDone \/ Die \/ UsbError
    <3>1. Quiet
      BY <2>2 DEF PollDone, Die, UsbError, Exit
    <3>2. pc' # "swimerror"
      <4>1. CASE PollDone
        <5>1. pc' \in SwimCmds \union {"close"}
          BY <2>0, <4>1, BehindType DEF PollDone, TInv
        <5> QED BY <5>1 DEF SwimCmds, MemCmds
      <4> QED BY <2>2, <4>1 DEF Die, UsbError, Exit
    <3> QED BY <3>1, <3>2 DEF Quiet, Polled
  <2>3. CASE Run \/ Find \/ GetMode \/ LeaveMode \/ EnterSwim \/ GetBufSize \/ ReadEnds \/ Close
    <3>1. UNCHANGED pollVars
      BY <2>3 DEF Run, Find, GetMode, LeaveMode, EnterSwim, GetBufSize, ReadEnds, Close
    <3>2. pc # "swimerror" /\ pc' # "swimerror"
      <4>1. CASE Find
        <5>1. pc' \in {"list", "claim", "failed", "version"} /\ pc \in {"count", "list", "claim"}
          BY <4>1, SearchStep DEF Find, TInv
        <5> QED BY <5>1
      <4> QED BY <2>3, <4>1 DEF Run, Invoke, Ended, GetMode, LeaveMode, EnterSwim, GetBufSize, ReadEnds, Close
    <3> QED BY <3>1, <3>2 DEF Polled, pollVars
  <2>4. CASE Send \/ ProbeWorks \/ HsiTrimmed \/ UNCHANGED vars
    <3>1. UNCHANGED <<pc, status, set, stalls, same, last>>
      BY <2>4 DEF Send, ProbeWorks, HsiTrimmed, vars, usbVars, pollVars
    <3> QED BY <3>1 DEF Polled
  <2> QED BY <2>1, <2>2, <2>3, <2>4 DEF Next, Tool
<1> QED BY <1>1, <1>2, TypeInvariant, PTL DEF Spec

\* However the status changes while it is polled: a command is given up only behind a row of
\* equal ones, as many as the stalls the code counts, and the other one of the pair, which the
\* message shows, is that status.
THEOREM GivenUpRightly == Spec => []GivenUpForGood
<1>1. Polled => GivenUpForGood
  BY DEF Polled, GivenUpForGood
<1> QED BY <1>1, PollInvariant, PTL
-----------------------------------------------------------------------------
\* Where a write alone gets, and how much a read has when it ends.
Fetched ==
  /\ pc \in {"write", "rstread", "rstbit", "genrst"} => op = "write"
  /\ pc \in {"close", "ended"} /\ op = "read" => got = Length

\* The end of a read is inductive.
LEMMA FetchInvariant == Spec => [](TInv /\ Fetched)
<1>1. Init => Fetched
  BY DEF Init, UsbInitial, Fetched
<1>2. TInv /\ Fetched /\ [Next]_vars => Fetched'
  <2> SUFFICES ASSUME TInv, Fetched, [Next]_vars PROVE Fetched'
    OBVIOUS
  <2>1. CASE PollDone
    <3>1. pc \in SwimCmds /\ pc' = Behind /\ UNCHANGED op /\ op \in {"read", "write"}
      BY <2>1 DEF PollDone, TInv, Placed, Numbers
    <3>2. CASE pc \in {"write", "rstread", "rstbit", "genrst"}
      BY <3>1, <3>2 DEF Fetched
    <3>3. CASE pc \notin {"write", "rstread", "rstbit", "genrst"}
      <4>1. pc' \notin {"rstread", "rstbit", "genrst", "close", "ended"} /\ (pc' = "write" => op = "write")
        BY <3>1, <3>3 DEF Behind, SwimCmds, MemCmds
      <4> QED BY <3>1, <4>1 DEF Fetched
    <3> QED BY <3>2, <3>3
  <2>2. CASE ReadEnds
    <3>1. got = Length /\ UNCHANGED got /\ pc' = "close"
      BY <2>2, SessionAssumption DEF ReadEnds, TInv, Numbers, toolVars
    <3> QED BY <3>1 DEF Fetched
  <2>3. CASE Close
    BY <2>3 DEF Close, Fetched, toolVars
  <2>4. CASE Find
    <3>1. pc' \in {"list", "claim", "failed", "version"}
      BY <2>4, SearchStep DEF Find, TInv
    <3> QED BY <3>1 DEF Fetched
  <2>5. CASE Run \/ GetMode \/ LeaveMode \/ EnterSwim \/ GetBufSize \/ Die \/ UsbError
    <3>1. pc' \in {"count", "bufsize", "leave", "enter", "assert", "failed"}
      BY <2>5 DEF Run, Invoke, GetMode, LeaveMode, EnterSwim, GetBufSize, Die, UsbError, Exit
    <3> QED BY <3>1 DEF Fetched
  <2>6. CASE Send \/ PollAgain \/ ProbeWorks \/ HsiTrimmed \/ UNCHANGED vars
    <3>1. UNCHANGED <<op, got>> /\ (UNCHANGED pc \/ pc' = "swimerror")
      BY <2>6 DEF Send, PollAgain, ProbeWorks, HsiTrimmed, vars, usbVars, toolVars
    <3> QED BY <3>1 DEF Fetched
  <2> QED BY <2>1, <2>2, <2>3, <2>4, <2>5, <2>6 DEF Next, Tool
<1> QED BY <1>1, <1>2, TypeInvariant, PTL DEF Spec

\* What was read so far is in its place.
InPlace ==
  /\ DOMAIN data = 0 .. Length - 1
  /\ \A j \in 0 .. got - 1 : data[j] = j

\* A chunk goes behind what was read, and is no longer than the buffer of the probe.
LEMMA ChunkInPlace ==
  ASSUME TInv, InPlace, PollDone
  PROVE  InPlace'
<1>0. readBuf \in Nat /\ got \in Nat /\ Length \in Nat /\ got <= Length
  BY SessionAssumption DEF TInv, Numbers
<1>1. /\ got' = IF pc = "read" THEN got + Chunk ELSE got
      /\ data' = [j \in DOMAIN data |->
                    IF pc = "read" /\ j \in got .. got + Chunk - 1 THEN Received(j - got) ELSE data[j]]
  BY DEF PollDone
<1>2. Chunk \in Nat /\ Chunk <= readBuf /\ got + Chunk <= Length
  BY <1>0 DEF Chunk
<1>3. DOMAIN data' = 0 .. Length - 1
  BY <1>1 DEF InPlace
<1>4. ASSUME NEW j \in 0 .. got' - 1
      PROVE  data'[j] = j
  <2> HIDE DEF Chunk
  <2>1. j \in DOMAIN data /\ j \in Nat
    BY <1>0, <1>1, <1>2 DEF InPlace
  <2>2. CASE pc = "read" /\ j \in got .. got + Chunk - 1
    <3>1. data'[j] = Received(j - got)
      BY <1>1, <2>1, <2>2
    <3>2. j - got < readBuf /\ got + (j - got) = j
      BY <1>0, <1>2, <2>1, <2>2
    <3> QED BY <3>1, <3>2 DEF Received, ReadAddr
  <2>3. CASE ~(pc = "read" /\ j \in got .. got + Chunk - 1)
    <3>1. data'[j] = data[j]
      BY <1>1, <2>1, <2>3
    <3>2. j \in 0 .. got - 1
      BY <1>0, <1>1, <1>2, <2>1, <2>3
    <3> QED BY <3>1, <3>2 DEF InPlace
  <2> QED BY <2>2, <2>3
<1> QED BY <1>3, <1>4 DEF InPlace

\* The place of what was read is inductive.
LEMMA PlaceInvariant == Spec => []InPlace
<1>1. Init => InPlace
  BY SessionAssumption DEF Init, InPlace, NoData
<1>2. TInv /\ InPlace /\ [Next]_vars => InPlace'
  <2> SUFFICES ASSUME TInv, InPlace, [Next]_vars PROVE InPlace'
    OBVIOUS
  <2>1. CASE got' = 0 /\ data' = NoData
    BY <2>1 DEF InPlace, NoData
  <2>2. CASE UNCHANGED <<got, data>>
    BY <2>2 DEF InPlace
  <2>3. CASE Run \/ Die \/ UsbError
    BY <2>1, <2>3 DEF Run, Die, UsbError, Exit
  <2>4. CASE PollDone
    BY <2>4, ChunkInPlace
  <2>5. CASE Find \/ GetMode \/ LeaveMode \/ EnterSwim \/ GetBufSize \/ Send \/ PollAgain \/ ReadEnds \/ Close
             \/ ProbeWorks \/ HsiTrimmed \/ UNCHANGED vars
    BY <2>2, <2>5 DEF Find, GetMode, LeaveMode, EnterSwim, GetBufSize, Send, PollAgain, ReadEnds, Close,
                      ProbeWorks, HsiTrimmed, vars, toolVars
  <2> QED BY <2>3, <2>4, <2>5 DEF Next, Tool
<1> QED BY <1>1, <1>2, TypeInvariant, PTL DEF Spec

\* Whatever buffer the probe reports: a read that ends has each byte of the part in its place,
\* none of them from behind the buffer of the probe (stlinkv2.c:429-452).
THEOREM ReadIsComplete == Spec => []ReadComplete
<1>1. Fetched /\ InPlace => ReadComplete
  BY DEF Fetched, InPlace, ReadComplete
<1> QED BY <1>1, FetchInvariant, PlaceInvariant, PTL
-----------------------------------------------------------------------------
\* Characters of serial numbers.
Chars == UNION {Range(s) : s \in Serials}

\* All programmers of the kind have numbers as long as the one asked for.
Equals == \A d \in Candidates : Len(serial[d]) = Len(asked)

\* The text is then that of one of these programmers, and no more than the one asked for is
\* ever opened.
Found ==
  /\ asked \in Serials \union {NoSerial}
  /\ asked # NoSerial /\ Equals =>
       /\ pc \in {"count", "list"} => text # asked /\ text \in {<<>>} \union {serial[d] : d \in Candidates}
       /\ pc = "count" => handle = 0
       /\ pc \in {"claim", "version"} => handle # 0 /\ serial[handle] = asked

\* A number that is as long as what was there replaces it, and no number leaves it.
LEMMA Overwritten ==
  ASSUME NEW s \in Serials, NEW t \in Serials \union {<<>>}, t = <<>> \/ Len(t) = Len(s)
  PROVE  ToHex(s, t) = s /\ ToHex(<<>>, t) = t
<1>1. \A r \in Serials : r \in Seq(Chars)
  <2> SUFFICES ASSUME NEW r \in Serials PROVE r \in Seq(Chars)
    OBVIOUS
  <2>1. r \in Seq(Range(r)) /\ Range(r) \subseteq Chars
    BY UsbAssumption DEF Chars
  <2> QED BY <2>1
<1>2. s \in Seq(Chars) /\ t \in Seq(Chars)
  <2>1. <<>> \in Seq(Chars)
    OBVIOUS
  <2>2. CASE t = <<>>
    BY <1>1, <2>1, <2>2
  <2>3. CASE t \in Serials
    BY <1>1, <2>3
  <2> QED BY <2>2, <2>3
<1>3. Len(t) <= Len(s) /\ Len(s) \in Nat /\ Len(t) \in Nat
  <2> DEFINE m == Len(t)  n == Len(s)
  <2>1. (m = 0 \/ m = n) /\ n \in Nat
    BY <1>2, EmptySeq
  <2> HIDE DEF m, n
  <2>2. m <= n /\ n \in Nat /\ m \in Nat
    BY <2>1
  <2> QED BY <2>2 DEF m, n
<1>4. SubSeq(t, Len(s) + 1, Len(t)) = <<>>
  BY <1>3, SubSeqEmpty
<1>5. Len(<<>>) = 0
  OBVIOUS
<1>6. SubSeq(t, 1, Len(t)) = t
  BY <1>2, SubSeqFull
<1>7. ToHex(s, t) = s
  BY <1>2, <1>4, ConcatEmptySeq DEF ToHex
<1>8. ToHex(<<>>, t) = t
  BY <1>2, <1>5, <1>6, ConcatEmptySeq DEF ToHex
<1> QED BY <1>7, <1>8

\* The search is inductive.
LEMMA FoundInvariant == Spec => [](TInv /\ Found)
<1>1. Init => Found
  BY DEF Init, UsbInitial, Found
<1>2. TInv /\ Found /\ [Next]_vars => Found'
  <2> SUFFICES ASSUME TInv, Found, [Next]_vars PROVE Found'
    OBVIOUS
  <2>c. UNCHANGED <<busVars, pgm>> => Candidates' = Candidates
    BY DEF Candidates, Matching, busVars
  <2>e. UNCHANGED <<busVars, pgm, asked>> => Equals' = Equals
    BY <2>c DEF Equals, busVars
  <2>1. CASE Find
    <3>0. UNCHANGED <<busVars, pgm, asked>> /\ serial \in [Bus -> Serials] /\ Chosen /\ Placed
      BY <2>1 DEF Find, UsbStep, Count, PassOver, LookAt, ListEnds, Claim, TInv, Chosen
    <3> SUFFICES ASSUME asked # NoSerial, Equals, UNCHANGED serial, Candidates' = Candidates,
                        asked' = asked, asked \in Serials
        PROVE  /\ pc' \in {"count", "list"} =>
                    text' # asked /\ text' \in {<<>>} \union {serial[d] : d \in Candidates}
               /\ pc' = "count" => handle' = 0
               /\ pc' \in {"claim", "version"} => handle' # 0 /\ serial[handle'] = asked
      BY <2>c, <2>e, <3>0 DEF Found, busVars
    <3>1. CASE Count
      BY <3>1 DEF Count, Found
    <3>2. CASE PassOver
      BY <3>2 DEF PassOver, Found
    <3>3. CASE LookAt
      <4>1. /\ pc = "list" /\ k \in Candidates /\ k # 0
            /\ text # asked /\ text \in {<<>>} \union {serial[d] : d \in Candidates}
        BY <3>3, UsbAssumption DEF LookAt, Found, Candidates, Bus
      <4>2. text \in Serials \union {<<>>}
        BY <3>0, <4>1 DEF Candidates
      <4>3. serial[k] \in Serials /\ Len(serial[k]) = Len(asked)
        BY <3>0, <4>1 DEF Candidates, Equals
      <4>4. text = <<>> \/ Len(text) = Len(serial[k])
        <5>1. CASE text = <<>>
          BY <5>1
        <5>2. CASE text \in {serial[d] : d \in Candidates}
          <6>1. PICK d \in Candidates : text = serial[d]
            BY <5>2
          <6>2. Len(serial[d]) = Len(asked)
            BY <6>1 DEF Equals
          <6> QED BY <4>3, <6>1, <6>2
        <5> QED BY <4>1, <5>1, <5>2
      <4>5. ToHex(serial[k], text) = serial[k] /\ ToHex(<<>>, text) = text
        BY <4>2, <4>3, <4>4, Overwritten
      <4>6. text' \in {serial[k], text}
        BY <3>3, <4>5 DEF LookAt
      <4>7. CASE text' = asked
        <5>1. handle' = k /\ pc' = "claim" /\ serial[k] = asked
          BY <3>3, <4>1, <4>6, <4>7 DEF LookAt, IsAsked
        <5> QED BY <4>1, <5>1
      <4>8. CASE text' # asked
        <5>1. pc' = "list"
          BY <3>3, <4>1, <4>8 DEF LookAt, IsAsked
        <5> QED BY <4>1, <4>6, <4>8, <5>1
      <4> QED BY <4>7, <4>8
    <3>4. CASE ListEnds
      BY <3>4 DEF ListEnds
    <3>5. CASE Claim
      BY <3>5 DEF Claim, Found
    <3> QED BY <2>1, <3>1, <3>2, <3>3, <3>4, <3>5 DEF Find, UsbStep
  <2>2. CASE Run
    <3>1. pc' = "count" /\ text' = <<>> /\ handle' = 0 /\ asked' \in Serials \union {NoSerial}
      BY <2>2 DEF Run, Invoke
    <3>2. asked' # NoSerial => asked' # <<>>
      BY <3>1, UsbAssumption
    <3> QED BY <3>1, <3>2 DEF Found
  <2>3. CASE GetMode
    BY <2>3 DEF GetMode, Found
  <2>4. CASE LeaveMode \/ EnterSwim \/ GetBufSize \/ PollDone \/ PollAgain \/ ReadEnds \/ Close \/ Die \/ UsbError
    <3>1. pc' \notin {"count", "list", "claim", "version"} /\ UNCHANGED asked
      <4>1. CASE PollDone
        <5>1. pc' \in SwimCmds \union {"close"}
          BY <4>1, BehindType DEF PollDone, TInv, Placed
        <5> QED BY <4>1, <5>1 DEF PollDone, SwimCmds, MemCmds
      <4>2. CASE PollAgain
        BY <4>2 DEF PollAgain, Heard, TInv, Placed, SwimCmds, MemCmds
      <4> QED BY <2>4, <4>1, <4>2 DEF LeaveMode, EnterSwim, GetBufSize, ReadEnds, Close, Die, UsbError, Exit
    <3> QED BY <3>1 DEF Found
  <2>5. CASE Send \/ ProbeWorks \/ HsiTrimmed \/ UNCHANGED vars
    <3>1. UNCHANGED <<busVars, pgm, asked, pc, text, handle>>
      BY <2>5 DEF Send, ProbeWorks, HsiTrimmed, vars, usbVars
    <3> QED BY <2>c, <2>e, <3>1 DEF Found, busVars
  <2> QED BY <2>1, <2>2, <2>3, <2>4, <2>5 DEF Next, Tool
<1> QED BY <1>1, <1>2, TypeInvariant, PTL DEF Spec

\* With -S, on any bus: where the numbers of all programmers of the kind are as long as the one
\* asked for, the one that is opened has that number, whichever devices tell theirs and in
\* whatever order they are listed.
THEOREM RightOneAmongEquals == Spec => []RightAmongEquals
<1>1. Found => RightAmongEquals
  BY DEF Found, Equals, RightAmongEquals, Opened
<1> QED BY <1>1, FoundInvariant, PTL
=============================================================================
