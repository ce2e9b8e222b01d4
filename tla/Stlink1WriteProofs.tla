------------------------- MODULE Stlink1WriteProofs -------------------------
(***************************************************************************)
(* Theorems about Stlink1Write, for every value of its constants: any      *)
(* image, any number of addresses, any answers of the probe.               *)
(*                                                                         *)
(* The inductive invariant comes in layers, each of which uses those       *)
(* before it: TInv (types, and which part of the program works with which  *)
(* variables), KInv (the keys), OInv (what can be in the air), then, of a  *)
(* command without incident, EInv (EEPROM), RInv (a read) and WInv (a      *)
(* write).                                                                 *)
(***************************************************************************)
EXTENDS Stlink1Write, Stm8TargetProofs, SequenceTheorems

Words  == {"CSR", "CKDIVR", "IAPSR=00", "IAPSR=56", "56", "AE", "CR2=01", "NCR2=FE"}
Poking == pc \in {"poke", "look", "chill"}
Keys   == KeyOrder(KeyReg)

\* The register writes of each script, word by word.
Opening ==
  IF op = "read" \/ memtype = "RAM" THEN <<"CSR", "CSR", "CSR", "CKDIVR">>
  ELSE <<"CSR", "CSR", "CSR", "CKDIVR", "IAPSR=00", Keys[1], Keys[2], "IAPSR=56">>
Ending  == IF op = "read" \/ memtype = "RAM" THEN <<"CSR">> ELSE <<"IAPSR=56", "CSR">>
Listed(a) == IF a = "cbw" THEN ModeScript ELSE IF a = "finish" THEN Ending ELSE Opening

\* s is what is left of w.
Rest(s, w) ==
  /\ s \in Seq(Words) /\ Len(s) \in 1 .. Len(w)
  /\ \A j \in 1 .. Len(s) : s[j] = w[Len(w) - Len(s) + j]
-----------------------------------------------------------------------------
\* Which part of the program a command is in, and what its variables are there.
Control ==
  /\ op \in {"write", "read"} /\ base \in Nat /\ space \in Nat \ {0}
  /\ Poking => /\ Rest(script, Listed(after))
               /\ after = "read" => op = "read"
               /\ after \in {"block", "cbw"} => op = "write"
               /\ after = "cbw" => memtype # "RAM"
  /\ pc \in {"block", "cbw", "tail", "await", "srst"} => op = "write"
  /\ pc \in {"read", "fill", "fetch"} => op = "read"
  /\ op = "write" => buf \in Images
  /\ op = "read" => len = NBlocks * BlockSize

\* The unit the loop is at is one of the image while something is done with it.
Index ==
  /\ pc \in {"open", "session", "enter"} => i = 0
  /\ pc \in {"cbw", "tail", "await", "fill", "fetch"} => i < Units
  /\ Poking /\ after \in {"block", "read"} => i = 0
  /\ Poking /\ after = "cbw" => i < Units
  /\ op = "write" => i <= Units
  /\ pc \in {"finish", "srst", "done"} \/ (Poking /\ after = "finish") => i >= Units

\* Attempts are counted from zero for each register write.
Counted ==
  /\ pc = "poke" => tries < MaxTries
  /\ ~Poking => tries = 0
  /\ pc = "chill" => "FULL" \in flags

TInv == TypeOK /\ Control /\ Index /\ Counted

\* A script goes on with its next word, if there is one.
LEMMA ScriptTail ==
  ASSUME NEW s, NEW w \in Seq(Words), Rest(s, w)
  PROVE  /\ s # <<>> /\ Head(s) = w[Len(w) - Len(s) + 1] /\ Head(s) \in Words
         /\ Len(s) = 1 <=> Tail(s) = <<>>
         /\ Len(s) > 1 => Rest(Tail(s), w) /\ Len(Tail(s)) = Len(s) - 1
<1>1. s \in Seq(Words) /\ Len(s) >= 1 /\ Len(s) <= Len(w) /\ Len(w) \in Nat /\ Len(s) \in Nat
  BY DEF Rest
<1>2. s # <<>> /\ Head(s) = s[1] /\ s[1] \in Words /\ s[1] = w[Len(w) - Len(s) + 1]
  BY <1>1 DEF Rest
<1>3. Tail(s) \in Seq(Words) /\ Len(Tail(s)) = Len(s) - 1
  BY <1>1, <1>2
<1>4. Len(s) = 1 <=> Tail(s) = <<>>
  <2> DEFINE t == Tail(s)
  <2>1. Len(t) = 0 <=> t = <<>>
    BY <1>3, EmptySeq
  <2>2. Len(t) = Len(s) - 1
    BY <1>3
  <2> HIDE DEF t
  <2>3. Len(s) = 1 <=> t = <<>>
    BY <1>1, <2>1, <2>2
  <2> QED BY <2>3 DEF t
<1>5. ASSUME Len(s) > 1 PROVE Rest(Tail(s), w)
  <2>1. ASSUME NEW j \in 1 .. Len(Tail(s)) PROVE Tail(s)[j] = w[Len(w) - Len(Tail(s)) + j]
    <3>1. j + 1 \in 1 .. Len(s) /\ Tail(s)[j] = s[j + 1]
      BY <1>1, <1>2, <1>3
    <3>2. s[j + 1] = w[Len(w) - Len(s) + (j + 1)]
      BY <3>1 DEF Rest
    <3> QED BY <1>1, <1>3, <3>1, <3>2
  <2> QED BY <1>1, <1>3, <1>5, <2>1 DEF Rest
<1> QED BY <1>2, <1>3, <1>4, <1>5

\* At its start a script is its own rest.
LEMMA WholeScript ==
  ASSUME NEW w \in Seq(Words), w # <<>>
  PROVE  Rest(w, w)
BY DEF Rest

\* One sequence behind another is the one that has the elements of both.
LEMMA Joined ==
  ASSUME NEW s \in Seq(Words), NEW t \in Seq(Words), NEW r \in Seq(Words),
         Len(r) = Len(s) + Len(t), \A k \in 1 .. Len(s) : r[k] = s[k],
         \A k \in 1 .. Len(t) : r[Len(s) + k] = t[k]
  PROVE  s \o t = r
<1>1. /\ s \o t \in Seq(Words) /\ Len(s \o t) = Len(r)
      /\ \A k \in 1 .. Len(r) : (s \o t)[k] = IF k <= Len(s) THEN s[k] ELSE t[k - Len(s)]
  BY ConcatProperties
<1>2. ASSUME NEW k \in 1 .. Len(r) PROVE (s \o t)[k] = r[k]
  <2>1. CASE k <= Len(s)
    BY <1>1, <2>1
  <2>2. CASE k > Len(s)
    <3>1. k - Len(s) \in 1 .. Len(t) /\ Len(s) + (k - Len(s)) = k
      BY <2>2
    <3> QED BY <1>1, <2>2, <3>1
  <2> QED BY <2>1, <2>2
<1> QED BY <1>1, <1>2, SeqEqual

\* The scripts word by word, and what they consist of.
LEMMA Scripts ==
  ASSUME memtype \in {"FLASH", "EEPROM", "RAM"}, op \in {"write", "read"}
  PROVE  /\ SessionScript \o (IF op = "write" THEN UnlockScript ELSE <<>>) = Opening
         /\ op = "write" => FinishScript = Ending
         /\ op = "read" => <<"CSR">> = Ending
         /\ \A a : Listed(a) \in Seq(Words) /\ Listed(a) # <<>>
<1>1. UnlockScript = IF memtype = "RAM" THEN <<>> ELSE <<"IAPSR=00", Keys[1], Keys[2], "IAPSR=56">>
  <2>1. CASE memtype = "RAM"
    BY <2>1 DEF UnlockScript
  <2>2. CASE memtype = "FLASH"
    BY <2>2 DEF UnlockScript, Keys, KeyOrder, KeyReg
  <2>3. CASE memtype = "EEPROM"
    BY <2>3 DEF UnlockScript, Keys, KeyOrder, KeyReg
  <2> QED BY <2>1, <2>2, <2>3
<1>2. /\ Keys[1] \in Words /\ Keys[2] \in Words /\ "CSR" \in Words /\ "CKDIVR" \in Words
      /\ "IAPSR=00" \in Words /\ "IAPSR=56" \in Words /\ "CR2=01" \in Words /\ "NCR2=FE" \in Words
  BY DEF Keys, KeyOrder, KeyReg, Words
<1>3. /\ SessionScript \in Seq(Words) /\ UnlockScript \in Seq(Words) /\ <<>> \in Seq(Words)
      /\ Opening \in Seq(Words) /\ Ending \in Seq(Words) /\ ModeScript \in Seq(Words)
      /\ <<"CSR">> \in Seq(Words) /\ <<"IAPSR=56">> \in Seq(Words)
  <2>1. <<>> \in Seq(Words) /\ <<"CSR">> \in Seq(Words) /\ <<"IAPSR=56">> \in Seq(Words)
    BY <1>2
  <2>2. <<"CSR", "CSR", "CSR", "CKDIVR">> \in Seq(Words) /\ <<"IAPSR=56", "CSR">> \in Seq(Words)
    BY <1>2
  <2>3. <<"CR2=01", "NCR2=FE">> \in Seq(Words) /\ <<"CR2=01">> \in Seq(Words)
    BY <1>2
  <2>4. <<"IAPSR=00", Keys[1], Keys[2], "IAPSR=56">> \in Seq(Words)
    BY <1>2
  <2>5. <<"CSR", "CSR", "CSR", "CKDIVR", "IAPSR=00", Keys[1], Keys[2], "IAPSR=56">> \in Seq(Words)
    BY <1>2
  <2> QED BY <1>1, <2>1, <2>2, <2>3, <2>4, <2>5 DEF SessionScript, Opening, Ending, ModeScript
<1>4. SessionScript \o (IF op = "write" THEN UnlockScript ELSE <<>>) = Opening
  <2>1. CASE op = "read" \/ memtype = "RAM"
    <3>1. (IF op = "write" THEN UnlockScript ELSE <<>>) = <<>> /\ Opening = SessionScript
      BY <1>1, <2>1 DEF Opening, SessionScript
    <3> QED BY <1>3, <3>1, ConcatEmptySeq
  <2>2. CASE op = "write" /\ memtype # "RAM"
    <3> DEFINE s == SessionScript  t == UnlockScript  r == Opening
    <3>1. /\ Len(s) = 4 /\ Len(t) = 4 /\ Len(r) = 8
          /\ r[1] = s[1] /\ r[2] = s[2] /\ r[3] = s[3] /\ r[4] = s[4]
          /\ r[5] = t[1] /\ r[6] = t[2] /\ r[7] = t[3] /\ r[8] = t[4]
      BY <1>1, <2>2 DEF SessionScript, Opening
    <3>2. s \in Seq(Words) /\ t \in Seq(Words) /\ r \in Seq(Words)
      BY <1>3
    <3> HIDE DEF s, t, r
    <3>3. \A k \in 1 .. Len(s) : r[k] = s[k]
      BY <3>1
    <3>4. \A k \in 1 .. Len(t) : r[Len(s) + k] = t[k]
      BY <3>1
    <3>5. Len(r) = Len(s) + Len(t)
      BY <3>1
    <3>6. s \o t = r
      BY <3>2, <3>3, <3>4, <3>5, Joined
    <3> QED BY <2>2, <3>6 DEF s, t, r
  <2> QED BY <2>1, <2>2
<1>5. ASSUME op = "write" PROVE FinishScript = Ending
  <2>1. CASE memtype = "RAM"
    BY <1>3, <1>5, <2>1, ConcatEmptySeq DEF FinishScript, Ending
  <2>2. CASE memtype # "RAM"
    <3> DEFINE s == <<"IAPSR=56">>  t == <<"CSR">>  r == Ending
    <3>1. Len(s) = 1 /\ Len(t) = 1 /\ Len(r) = 2 /\ r[1] = s[1] /\ r[2] = t[1]
      BY <1>5, <2>2 DEF Ending
    <3>2. s \in Seq(Words) /\ t \in Seq(Words) /\ r \in Seq(Words)
      BY <1>3
    <3> HIDE DEF s, t, r
    <3>3. Len(r) = Len(s) + Len(t)
      BY <3>1
    <3>4. \A k \in 1 .. Len(s) : r[k] = s[k]
      BY <3>1
    <3>5. \A k \in 1 .. Len(t) : r[Len(s) + k] = t[k]
      BY <3>1
    <3>6. s \o t = r
      BY <3>2, <3>3, <3>4, <3>5, Joined
    <3> QED BY <2>2, <3>6 DEF s, t, r, FinishScript
  <2> QED BY <2>1, <2>2
<1>6. Opening # <<>> /\ Ending # <<>> /\ ModeScript # <<>>
  BY DEF Opening, Ending, ModeScript
<1> QED BY <1>3, <1>4, <1>5, <1>6 DEF Listed, Ending

\* Scripts stay what they are while area, operation and destination do.
LEMMA ScriptStable ==
  ASSUME UNCHANGED <<memtype, op, after>>
  PROVE  Listed(after)' = Listed(after)
BY DEF Listed, Opening, Ending, Keys, KeyReg

\* The units of an image are those of the area at most, and a whole area has all of them.
LEMMA UnitsIn ==
  ASSUME len \in 0 .. NBlocks * BlockSize
  PROVE  Units \in 0 .. NBlocks /\ (len = NBlocks * BlockSize => Units = NBlocks)
<1>1. /\ NBlocks \in Nat /\ NBlocks > 0 /\ BlockSize \in Nat /\ BlockSize > 0 /\ len \in Nat
      /\ NBlocks * BlockSize \in Nat
  BY TargetAssumption
<1>2. Units \in Nat /\ ~(NBlocks < Units)
  BY <1>1, RoundedUp DEF Units
<1>3. ASSUME len = NBlocks * BlockSize PROVE NBlocks - 1 < Units
  <2>1. (NBlocks - 1) * BlockSize < len /\ NBlocks - 1 \in Nat
    BY <1>1, <1>3
  <2> QED BY <1>1, <2>1, RoundedUp DEF Units
<1> QED BY <1>1, <1>2, <1>3

\* Behind an attempt: another one, the next register write, or the point behind the script.
LEMMA GoOnStep ==
  ASSUME TInv, Poking, GoOn, UNCHANGED <<memtype, op, after>>
  PROVE  \/ /\ pc' = "poke" /\ UNCHANGED <<script, tries, flags>>
            /\ flags = Flags /\ tries < MaxTries
         \/ /\ pc' = "poke" /\ tries' = 0 /\ Len(script) > 1 /\ Len(script') = Len(script) - 1
            /\ Rest(script', Listed(after))
         \/ pc' = after /\ tries' = 0 /\ Len(script) = 1
<1>1. Rest(script, Listed(after)) /\ Listed(after) \in Seq(Words)
  BY Scripts, Stlink1Assumption, TargetAssumption DEF TInv, Control, TypeOK, TargetTypeOK
<1>2. Len(script) \in Nat /\ Len(script) >= 1
  BY <1>1 DEF Rest
<1>3. /\ Len(script) = 1 <=> Tail(script) = <<>>
      /\ Len(script) > 1 => Rest(Tail(script), Listed(after)) /\ Len(Tail(script)) = Len(script) - 1
  BY <1>1, ScriptTail
<1>4. CASE Retried /\ tries < MaxTries
  BY <1>4 DEF GoOn, Retried
<1>5. CASE ~(Retried /\ tries < MaxTries)
  <2>1. script' = Tail(script) /\ tries' = 0 /\ pc' = IF script' = <<>> THEN after ELSE "poke"
    BY <1>5 DEF GoOn
  <2> QED BY <1>2, <1>3, <2>1
<1> QED BY <1>4, <1>5

\* Types, and the ranges that depend on where the command is, are inductive.
LEMMA TypeInvariant == Spec => []TInv
<1>1. Init => TInv
  <2> SUFFICES ASSUME Init PROVE TInv
    OBVIOUS
  <2>1. TargetTypeOK
    BY TargetInitType DEF Init
  <2>2. /\ NBlocks \in Nat /\ ReadChunk \in Nat /\ NBlocks * BlockSize \in Nat
        /\ Units \in 0 .. NBlocks /\ Spaces \subseteq Nat \ {0}
    BY UnitsIn, TargetAssumption, Stlink1Assumption DEF Init
  <2>3. TypeOK
    <3>1. buf \in [Blocks -> Contents] /\ old \in [Blocks -> Contents]
      BY <2>1 DEF Init, Images, TargetTypeOK
    <3>2. i \in 0 .. NBlocks + ReadChunk /\ tries \in 0 .. MaxTries
      BY <2>2 DEF Init, MaxTries
    <3> QED BY <2>1, <3>1, <3>2 DEF Init, TypeOK
  <2>4. Control
    BY <2>2 DEF Init, Control, Poking
  <2>5. Index /\ Counted
    BY <2>2 DEF Init, Index, Counted, Poking
  <2> QED BY <2>3, <2>4, <2>5 DEF TInv
<1>2. TInv /\ [Next]_vars => TInv'
  <2> SUFFICES ASSUME TInv, [Next]_vars PROVE TInv'
    OBVIOUS
  <2>0. /\ NBlocks \in Nat /\ NBlocks > 0 /\ ReadChunk \in Nat /\ ReadChunk > 0
        /\ Units \in 0 .. NBlocks
        /\ op = "read" => Units = NBlocks
        /\ memtype \in {"FLASH", "EEPROM", "RAM"} /\ op \in {"write", "read"}
        /\ len \in 0 .. NBlocks * BlockSize
    BY UnitsIn, TargetAssumption, Stlink1Assumption DEF TInv, TypeOK, TargetTypeOK, Control
  <2>u. UNCHANGED len => Units' = Units
    BY DEF Units
  <2>1. CASE Open
    <3>1. TargetTypeOK'
      BY <2>1 DEF Open, TInv, TypeOK, TargetTypeOK, targetVars
    <3> QED BY <2>1, <2>u, <3>1 DEF Open, TInv, TypeOK, Control, Index, Counted, Poking, driverVars,
                                    probeVars, Images
  <2>2. CASE Session
    <3>1. TargetTypeOK'
      BY <2>2, ResetType DEF Session, TInv, TypeOK
    <3>2. old' \in [Blocks -> Contents]
      BY <2>2, <3>1 DEF Session, TargetTypeOK
    <3> QED BY <2>2, <2>u, <3>1, <3>2 DEF Session, TInv, TypeOK, Control, Index, Counted, Poking, Images
  <2>3. CASE Enter
    <3>1. TargetTypeOK'
      BY <2>3 DEF Enter, TInv, TypeOK, TargetTypeOK
    <3>2. /\ script' = Opening /\ Listed(after)' = Opening /\ Rest(script', Listed(after)')
          /\ script' # <<>>
      <4>1. script' = Opening
        BY <2>0, <2>3, Scripts DEF Enter
      <4>2. Listed(after)' = Opening
        BY <2>0, <2>3 DEF Enter, Listed, Opening, Keys, KeyReg
      <4>3. Opening \in Seq(Words) /\ Opening # <<>>
        <5>1. Listed("block") \in Seq(Words) /\ Listed("block") # <<>>
          BY <2>0, Scripts
        <5> QED BY <5>1 DEF Listed
      <4> QED BY <4>1, <4>2, <4>3, WholeScript
    <3>3. TypeOK'
      BY <2>0, <2>3, <3>1, <3>2 DEF Enter, TInv, TypeOK, probeVars
    <3>4. Control'
      BY <2>0, <2>3, <3>2 DEF Enter, TInv, Control, Poking, Images
    <3>5. Index' /\ Counted'
      BY <2>0, <2>3, <2>u DEF Enter, TInv, Index, Counted, Poking, MaxTries
    <3> QED BY <3>3, <3>4, <3>5 DEF TInv
  <2>4. CASE Poke
    <3>1. TargetTypeOK'
      <4>1. CASE UNCHANGED targetVars
        BY <2>4, <4>1 DEF Poke, TInv, TypeOK, TargetTypeOK, targetVars
      <4>2. CASE Delivered(Head(script))
        BY <2>4, <4>2 DEF Poke, Delivered, Key, Lock, Select, WriteKeys, OpenedBy, SelectedMode, Modes,
                          AfterIapsrWrite, LockBits, TInv, TypeOK, TargetTypeOK, targetVars
      <4> QED BY <2>4, <4>1, <4>2 DEF Poke
    <3>2. cr2' \in BOOLEAN /\ clean' \in BOOLEAN
      BY <2>4 DEF Poke, Delivered, Key, Lock, Select, TInv, TypeOK
    <3>3. TypeOK'
      BY <2>4, <3>1, <3>2 DEF Poke, TInv, TypeOK, Counted, MaxTries, Statuses
    <3>4. Control'
      BY <2>4, ScriptStable DEF Poke, TInv, Control, Poking, Images
    <3>5. Index' /\ Counted'
      BY <2>4, <2>u DEF Poke, TInv, Index, Counted, Poking
    <3> QED BY <3>3, <3>4, <3>5 DEF TInv
  <2>5. CASE Look \/ Chill
    <3>1. /\ TargetTypeOK' /\ Poking
          /\ UNCHANGED <<memtype, clean, probeBusy, keyed, cr2, base, space, op, len, buf, i, after, old>>
      BY <2>5, SleepType DEF Look, Chill, TInv, TypeOK, Poking
    <3>2. Listed(after)' = Listed(after)
      BY <3>1, ScriptStable
    <3>3. CASE pc' = "chill" /\ UNCHANGED <<script, tries, flags>> /\ "FULL" \in flags
      BY <3>1, <3>2, <3>3, <2>u DEF TInv, TypeOK, Control, Index, Counted, Poking, Images
    <3>4. CASE GoOn
      <4>1. flags' \subseteq Flags
        BY <3>4 DEF GoOn, TInv, TypeOK
      <4>2. CASE pc' = "poke" /\ UNCHANGED <<script, tries, flags>> /\ tries < MaxTries
        BY <3>1, <3>2, <4>2, <2>u DEF TInv, TypeOK, Control, Index, Counted, Poking, Images
      <4>3. CASE pc' = "poke" /\ tries' = 0 /\ Rest(script', Listed(after))
        <5>1. script' # <<>>
          BY <4>3 DEF Rest
        <5> QED BY <3>1, <3>2, <4>1, <4>3, <5>1, <2>u DEF TInv, TypeOK, Control, Index, Counted,
                                                         Poking, Images, MaxTries
      <4>4. CASE pc' = after /\ tries' = 0
        <5>1. after \in {"block", "cbw", "read", "finish"}
          BY <3>1 DEF TInv, TypeOK, Poking
        <5> QED BY <2>0, <3>1, <4>1, <4>4, <5>1, <2>u DEF TInv, TypeOK, Control, Index, Counted, Poking,
                                                    Images, MaxTries
      <4> QED BY <3>1, <3>4, <4>2, <4>3, <4>4, GoOnStep
    <3> QED BY <2>5, <3>3, <3>4 DEF Look, Chill
  <2>6. CASE NextBlock
    <3>1. TargetTypeOK'
      BY <2>6 DEF NextBlock, TInv, TypeOK, TargetTypeOK, targetVars
    <3>2. pc' = "poke" => script' # <<>> /\ Rest(script', Listed(after)')
      <4> SUFFICES ASSUME pc' = "poke" PROVE script' # <<>> /\ Rest(script', Listed(after)')
        OBVIOUS
      <4>1. script' = ModeScript /\ Listed(after)' = ModeScript
        BY <2>6 DEF NextBlock, Listed
      <4>2. ModeScript \in Seq(Words) /\ ModeScript # <<>>
        <5>1. Listed("cbw") \in Seq(Words) /\ Listed("cbw") # <<>>
          BY <2>0, Scripts
        <5> QED BY <5>1 DEF Listed
      <4> QED BY <4>1, <4>2, WholeScript
    <3>3. TypeOK'
      BY <2>6, <3>1, <3>2 DEF NextBlock, TInv, TypeOK, probeVars
    <3>4. Control'
      BY <2>6, <3>2 DEF NextBlock, TInv, Control, Poking, Images
    <3>5. Index' /\ Counted'
      BY <2>6, <2>u DEF NextBlock, TInv, Index, Counted, Poking, MaxTries
    <3> QED BY <3>3, <3>4, <3>5 DEF TInv
  <2>7. CASE SendHead \/ ReadWait
    <3>1. TargetTypeOK'
      BY <2>7, SleepType DEF SendHead, ReadWait, TInv, TypeOK
    <3> QED BY <2>7, <2>u, <3>1 DEF SendHead, ReadWait, TInv, TypeOK, Control, Index, Counted, Poking, driverVars,
                                    probeVars, Images
  <2>8. CASE SendTail
    <3>1. TargetTypeOK'
      <4>1. CASE UNCHANGED targetVars
        BY <2>8, <4>1 DEF SendTail, TInv, TypeOK, TargetTypeOK, targetVars
      <4>2. CASE \E b \in Blocks : Hits(i, b) /\ WriteMem(b, Padded(i))
        <5>1. i \in Blocks /\ buf[i] \in [Offsets -> Byte] /\ Empty \in Byte
          BY <2>0, <2>8, TargetAssumption DEF SendTail, TInv, TypeOK, Index, Blocks, Contents
        <5>2. Padded(i) \in Contents
          BY <5>1 DEF Padded, Contents
        <5> QED BY <2>8, <4>2, <5>2, WriteMemType DEF SendTail, TInv, TypeOK
      <4> QED BY <2>8, <4>1, <4>2 DEF SendTail
    <3>2. clean' \in BOOLEAN
      BY <2>8 DEF SendTail, TInv, TypeOK, TargetTypeOK
    <3> QED BY <2>8, <2>u, <3>1, <3>2 DEF SendTail, TInv, TypeOK, Control, Index, Counted, Poking, driverVars,
                                    Images
  <2>9. CASE Await
    <3>1. TargetTypeOK'
      BY <2>9, SleepType DEF Await, TInv, TypeOK
    <3>2. clean' \in BOOLEAN
      BY <2>9 DEF Await, TInv, TypeOK
    <3> QED BY <2>0, <2>9, <2>u, <3>1, <3>2 DEF Await, TInv, TypeOK, Control, Index, Counted, Poking, probeVars,
                                          Images
  <2>10. CASE LoopEnds \/ ReadEnds
    <3>1. TargetTypeOK'
      BY <2>10 DEF LoopEnds, ReadEnds, TInv, TypeOK, TargetTypeOK, targetVars
    <3>2. script' # <<>> /\ Rest(script', Listed(after)')
      <4>1. script' = Ending
        BY <2>0, <2>10, Scripts DEF LoopEnds, ReadEnds, TInv, Control
      <4>2. Listed(after)' = Ending
        BY <2>10 DEF LoopEnds, ReadEnds, Listed, Ending
      <4>3. Ending \in Seq(Words) /\ Ending # <<>>
        <5>1. Listed("finish") \in Seq(Words) /\ Listed("finish") # <<>>
          BY <2>0, Scripts
        <5> QED BY <5>1 DEF Listed
      <4> QED BY <4>1, <4>2, <4>3, WholeScript
    <3>3. TypeOK'
      BY <2>10, <3>1, <3>2 DEF LoopEnds, ReadEnds, TInv, TypeOK, probeVars
    <3>4. Control'
      BY <2>10, <3>2 DEF LoopEnds, ReadEnds, TInv, Control, Poking, Images
    <3>5. Index' /\ Counted'
      BY <2>10, <2>u DEF LoopEnds, ReadEnds, TInv, Index, Counted, Poking, MaxTries
    <3> QED BY <3>3, <3>4, <3>5 DEF TInv
  <2>11. CASE ReadAsk
    <3>1. TargetTypeOK'
      BY <2>11 DEF ReadAsk, TInv, TypeOK, TargetTypeOK, targetVars
    <3> QED BY <2>11, <2>u, <3>1 DEF ReadAsk, TInv, TypeOK, Control, Index, Counted, Poking, driverVars, Images
  <2>12. CASE Fetch
    <3>1. TargetTypeOK'
      BY <2>12 DEF Fetch, TInv, TypeOK, TargetTypeOK, targetVars
    <3>2. buf' \in [Blocks -> Contents] /\ clean' \in BOOLEAN
      BY <2>12 DEF Fetch, TInv, TypeOK
    <3> QED BY <2>0, <2>12, <2>u, <3>1, <3>2 DEF Fetch, TInv, TypeOK, Control, Index, Counted, Poking, probeVars
  <2>13. CASE Finish
    <3>1. TargetTypeOK'
      BY <2>13, ResetType DEF Finish, TInv, TypeOK
    <3> QED BY <2>13, <2>u, <3>1 DEF Finish, TInv, TypeOK, Control, Index, Counted, Poking, driverVars,
                                     probeVars, Images
  <2>14. CASE Srst \/ UsbError \/ ProbeReady
    <3>1. TargetTypeOK'
      BY <2>14 DEF Srst, UsbError, ProbeReady, TInv, TypeOK, TargetTypeOK, targetVars
    <3>2. /\ UNCHANGED <<base, space, op, len, buf, i, old>> /\ cr2' \in BOOLEAN /\ clean' \in BOOLEAN
          /\ probeBusy' \in BOOLEAN
          /\ \/ pc' \in {"done", "failed"} /\ tries' = 0 /\ flags' \subseteq Flags
             \/ UNCHANGED <<pc, tries, flags, script, after>>
          /\ pc' = "done" => pc \in {"srst", "done"}
      BY <2>14 DEF Srst, UsbError, ProbeReady, TInv, TypeOK, Counted, Poking, probeVars, driverVars
    <3>3. UNCHANGED memtype /\ (UNCHANGED after => Listed(after)' = Listed(after))
      BY <2>14, <3>2, ScriptStable DEF Srst, UsbError, ProbeReady
    <3> QED BY <2>u, <3>1, <3>2, <3>3 DEF TInv, TypeOK, Control, Index, Counted, Poking, Images, MaxTries
  <2>15. CASE UNCHANGED vars
    <3>1. TargetTypeOK' /\ Listed(after)' = Listed(after)
      BY <2>15, ScriptStable DEF vars, targetVars, driverVars, TInv, TypeOK, TargetTypeOK
    <3> QED BY <2>15, <2>u, <3>1 DEF vars, driverVars, probeVars, TInv, TypeOK, Control, Index, Counted, Poking, Images
  <2> QED BY <2>1, <2>2, <2>3, <2>4, <2>5, <2>6, <2>7, <2>8, <2>9, <2>10, <2>11, <2>12,
             <2>13, <2>14, <2>15 DEF Next, Driver
<1> QED BY <1>1, <1>2, PTL DEF Spec

\* Type correctness: whatever the probe answers, every variable of driver, probe and part
\* stays within its type, the number of attempts and the index of the loop included.
THEOREM TypeCorrect == Spec => []TypeOK
<1>1. TInv => TypeOK
  BY DEF TInv
<1> QED BY <1>1, TypeInvariant, PTL
-----------------------------------------------------------------------------
\* What the key register got: while a key may still be sent, it has not arrived.
KInv ==
  /\ keyed \in {<<>>, <<Keys[1]>>, <<Keys[2]>>, Keys}
  /\ pc \in {"open", "session", "enter"} => keyed = <<>>
  /\ Poking /\ after = "block" /\ memtype # "RAM" =>
       /\ Len(script) >= 4 => keyed = <<>>
       /\ Len(script) = 3 => keyed = <<>> \/ (keyed = <<Keys[1]>> /\ pc # "poke" /\ "FULL" \notin flags)
       /\ Len(script) = 2 => \/ keyed \in {<<>>, <<Keys[1]>>}
                             \/ pc # "poke" /\ "FULL" \notin flags


\* The word a script is at, by the number of words that are left of it.
LEMMA HeadWord ==
  ASSUME TInv, Poking
  PROVE  /\ Len(script) \in Nat /\ Len(script) >= 1
         /\ after = "block" /\ memtype # "RAM" =>
              /\ Len(script) >= 4 => Head(script) \in {"CSR", "CKDIVR", "IAPSR=00"}
              /\ Len(script) = 3 => Head(script) = Keys[1]
              /\ Len(script) = 2 => Head(script) = Keys[2]
              /\ Len(script) = 1 => Head(script) = "IAPSR=56"
         /\ after = "cbw" =>
              /\ Len(script) = 2 => HasNCR2 /\ Head(script) = "CR2=01"
              /\ Len(script) = 1 => Head(script) = IF HasNCR2 THEN "NCR2=FE" ELSE "CR2=01"
              /\ Len(script) \in {1, 2}
         /\ ~(after = "block" /\ memtype # "RAM" /\ Len(script) \in {2, 3}) => Head(script) \notin {"56", "AE"}
<1> DEFINE w == Listed(after)  l == Len(script)  n == Len(w) - l + 1  h == Head(script)
<1>0. memtype \in {"FLASH", "EEPROM", "RAM"} /\ op \in {"write", "read"}
  BY Stlink1Assumption, TargetAssumption DEF TInv, TypeOK, TargetTypeOK, Control
<1>1. w \in Seq(Words) /\ Rest(script, w)
  BY <1>0, Scripts DEF TInv, Control
<1>2. h = w[n] /\ l \in Nat /\ l >= 1 /\ l <= Len(w) /\ Len(w) \in Nat /\ n = Len(w) - l + 1
  BY <1>1, ScriptTail DEF Rest
<1>3. after = "block" /\ memtype # "RAM" =>
        /\ Len(w) = 8 /\ w[1] = "CSR" /\ w[2] = "CSR" /\ w[3] = "CSR" /\ w[4] = "CKDIVR"
        /\ w[5] = "IAPSR=00" /\ w[6] = Keys[1] /\ w[7] = Keys[2] /\ w[8] = "IAPSR=56"
  BY DEF TInv, Control, Listed, Opening
<1>4. after = "cbw" =>
        /\ HasNCR2 => Len(w) = 2 /\ w[1] = "CR2=01" /\ w[2] = "NCR2=FE"
        /\ ~HasNCR2 => Len(w) = 1 /\ w[1] = "CR2=01"
  BY DEF Listed, ModeScript
<1>5. after = "finish" =>
        \/ Len(w) = 1 /\ w[1] = "CSR"
        \/ Len(w) = 2 /\ w[1] = "IAPSR=56" /\ w[2] = "CSR"
  BY DEF Listed, Ending
<1>6. after = "read" \/ (after = "block" /\ memtype = "RAM") =>
        Len(w) = 4 /\ w[1] = "CSR" /\ w[2] = "CSR" /\ w[3] = "CSR" /\ w[4] = "CKDIVR"
  BY DEF TInv, Control, Listed, Opening
<1>7. after \in {"block", "cbw", "read", "finish"}
  BY DEF TInv, TypeOK, Poking
<1> HIDE DEF w, l, n, h
<1>8. CASE after = "block" /\ memtype # "RAM"
  <2>1. Len(w) = 8
    BY <1>3, <1>8
  <2>2. l \in {1, 2, 3, 4, 5, 6, 7, 8} /\ n = 9 - l
    BY <1>2, <2>1
  <2>3. l >= 4 => n \in {1, 2, 3, 4, 5}
    BY <2>2
  <2>4. l >= 4 => h \in {"CSR", "CKDIVR", "IAPSR=00"}
    BY <1>2, <1>3, <1>8, <2>3
  <2>5. /\ l = 3 => h = Keys[1]
        /\ l = 2 => h = Keys[2]
        /\ l = 1 => h = "IAPSR=56"
    <3>1. (l = 3 => n = 6) /\ (l = 2 => n = 7) /\ (l = 1 => n = 8)
      BY <2>2
    <3> QED BY <1>2, <1>3, <1>8, <3>1
  <2>6. l \notin {2, 3} => h \notin {"56", "AE"}
    <3>1. l \notin {2, 3} => l >= 4 \/ l = 1
      BY <2>2
    <3> QED BY <2>4, <2>5, <3>1
  <2>7. l \in Nat /\ l >= 1
    BY <2>2
  <2> QED BY <1>8, <2>4, <2>5, <2>6, <2>7 DEF l, h
<1>9. CASE after = "cbw"
  <2>1. CASE HasNCR2
    <3>0. Len(w) = 2
      BY <1>4, <1>9, <2>1
    <3>1. l \in {1, 2} /\ n = 3 - l
      BY <1>2, <3>0
    <3>2. (l = 2 => n = 1) /\ (l = 1 => n = 2)
      BY <3>1
    <3>3. (l = 2 => h = "CR2=01") /\ (l = 1 => h = "NCR2=FE")
      BY <1>2, <1>4, <1>9, <2>1, <3>2
    <3>4. h \notin {"56", "AE"} /\ l \in Nat /\ l >= 1
      BY <3>1, <3>3
    <3> QED BY <1>9, <2>1, <3>1, <3>3, <3>4 DEF l, h
  <2>2. CASE ~HasNCR2
    <3>0. Len(w) = 1
      BY <1>4, <1>9, <2>2
    <3>1. l = 1 /\ n = 1
      BY <1>2, <3>0
    <3>2. h = "CR2=01"
      BY <1>2, <1>4, <1>9, <2>2, <3>1
    <3> QED BY <1>9, <2>2, <3>1, <3>2 DEF l, h
  <2> QED BY <2>1, <2>2
<1>10. CASE after \in {"finish", "read"} \/ (after = "block" /\ memtype = "RAM")
  <2>1. n \in {1, 2, 3, 4} /\ n <= Len(w)
    BY <1>2, <1>5, <1>6, <1>10, SMTT(30)
  <2>2. h \notin {"56", "AE"}
    BY <1>2, <1>5, <1>6, <1>10, <2>1
  <2> QED BY <1>2, <1>10, <2>2 DEF l, h
<1> QED BY <1>7, <1>8, <1>9, <1>10

\* The bytes a key register gets, one behind the other.
LEMMA KeysAppended ==
  ASSUME NEW a \in Words, NEW b \in Words
  PROVE  /\ Append(<<>>, a) = <<a>> /\ Append(<<a>>, b) = <<a, b>>
         /\ Len(<<>>) = 0 /\ Len(<<a>>) = 1 /\ Len(<<a, b>>) = 2
<1>1. <<>> \in Seq(Words) /\ <<a>> \in Seq(Words) /\ <<a, b>> \in Seq(Words)
  OBVIOUS
<1>2. Append(<<>>, a) = <<a>>
  <2> DEFINE t == Append(<<>>, a)  r == <<a>>
  <2>1. t \in Seq(Words) /\ Len(t) = 1 /\ t[1] = a
    BY <1>1, AppendProperties
  <2>2. r \in Seq(Words) /\ Len(r) = 1 /\ r[1] = a
    BY <1>1
  <2> HIDE DEF t, r
  <2>3. \A k \in 1 .. Len(t) : t[k] = r[k]
    BY <2>1, <2>2
  <2>4. t = r
    BY <2>1, <2>2, <2>3, SeqEqual
  <2> QED BY <2>4 DEF t, r
<1>3. Append(<<a>>, b) = <<a, b>>
  <2> DEFINE s == <<a>>  t == Append(s, b)  r == <<a, b>>
  <2>0. s \in Seq(Words) /\ Len(s) = 1 /\ s[1] = a
    BY <1>1
  <2> HIDE DEF s
  <2>1. t \in Seq(Words) /\ Len(t) = 2 /\ t[1] = a /\ t[2] = b
    <3>1. /\ t \in Seq(Words) /\ Len(t) = Len(s) + 1 /\ t[Len(s) + 1] = b
          /\ \A k \in 1 .. Len(s) : t[k] = s[k]
      BY <2>0, AppendProperties, ZenonT(30)
    <3> QED BY <2>0, <3>1
  <2>2. r \in Seq(Words) /\ Len(r) = 2 /\ r[1] = a /\ r[2] = b
    BY <1>1
  <2> HIDE DEF t, r
  <2>3. \A k \in 1 .. Len(t) : t[k] = r[k]
    BY <2>1, <2>2
  <2>4. t = r
    BY <2>1, <2>2, <2>3, SeqEqual
  <2> QED BY <2>4 DEF t, r, s
<1> QED BY <1>2, <1>3

\* A byte that arrives at the key register while nothing, or the first key, is in it.
LEMMA KeyArrives ==
  ASSUME NEW k \in {Keys[1], Keys[2]}, Key(k), keyed \in {<<>>, <<Keys[1]>>}
  PROVE  /\ keyed = <<>> => keyed' = <<k>> /\ UNCHANGED targetVars
         /\ keyed = <<Keys[1]>> =>
              /\ keyed' = <<Keys[1], k>> /\ UNCHANGED <<mem, mode, stall, busy, cell>>
              /\ k = Keys[2] => keyed' = Keys /\ iapsr' = iapsr \union {OpenedBy(KeyReg)}
<1>1. Keys[1] \in Words /\ Keys[2] \in Words /\ Keys = <<Keys[1], Keys[2]>>
  BY DEF Keys, KeyOrder, KeyReg, Words
<1>2. CASE keyed = <<>>
  <2>1. keyed' = <<k>> /\ Len(keyed) = 0
    BY <1>1, <1>2, KeysAppended DEF Key
  <2>2. <<>> # <<Keys[1]>>
    BY <1>1, KeysAppended
  <2> QED BY <1>2, <2>1, <2>2 DEF Key
<1>3. CASE keyed = <<Keys[1]>>
  <2>1. keyed' = <<Keys[1], k>> /\ Len(keyed) = 1
    BY <1>1, <1>3, KeysAppended DEF Key
  <2>2. <<>> # <<Keys[1]>>
    BY <1>1, KeysAppended
  <2>3. WriteKeys(KeyReg, keyed')
    BY <2>1 DEF Key
  <2>4. k = Keys[2] => keyed' = KeyOrder(KeyReg)
    BY <1>1, <2>1 DEF Keys
  <2> QED BY <1>3, <2>1, <2>2, <2>3, <2>4 DEF WriteKeys, Keys
<1> QED BY <1>2, <1>3

\* What an attempt does to the key register: nothing, or it gets the key the script is at.
LEMMA Attempt ==
  ASSUME TInv, KInv, Poke
  PROVE  \/ UNCHANGED keyed
         \/ /\ after = "block" /\ memtype # "RAM" /\ "FULL" \notin flags'
            /\ \/ Len(script) = 3 /\ Key(Keys[1]) /\ keyed = <<>>
               \/ Len(script) = 2 /\ Key(Keys[2]) /\ keyed \in {<<>>, <<Keys[1]>>}
<1> DEFINE h == Head(script)
<1>1. Poking /\ pc = "poke"
  BY DEF Poke, Poking
<1>2. CASE flags' # {} /\ UNCHANGED <<targetVars, keyed, cr2>>
  BY <1>2
<1>3. CASE "FULL" \notin flags' /\ Delivered(h)
  <2>1. CASE h \notin {"56", "AE"}
    <3> HIDE DEF h
    <3> QED BY <1>3, <2>1 DEF Delivered, Lock, Select
  <2>2. CASE h \in {"56", "AE"}
    <3>1. after = "block" /\ memtype # "RAM" /\ Len(script) \in {2, 3}
      BY <1>1, <2>2, HeadWord
    <3>2. /\ Len(script) = 3 => h = Keys[1] /\ keyed = <<>>
          /\ Len(script) = 2 => h = Keys[2] /\ keyed \in {<<>>, <<Keys[1]>>}
      BY <1>1, <3>1, HeadWord DEF KInv
    <3> HIDE DEF h
    <3>3. Key(h)
      BY <1>3, <2>2 DEF Delivered
    <3> QED BY <1>3, <3>1, <3>2, <3>3
  <2> QED BY <2>1, <2>2
<1> QED BY <1>2, <1>3 DEF Poke

\* The key register is inductive together with the types.
LEMMA KeysInvariant == Spec => [](TInv /\ KInv)
<1>1. Init => KInv
  BY DEF Init, KInv, Poking
<1>2. TInv /\ TInv' /\ KInv /\ [Next]_vars => KInv'
  <2> SUFFICES ASSUME TInv, TInv', KInv, [Next]_vars PROVE KInv'
    OBVIOUS
  <2>0. UNCHANGED memtype /\ Keys' = Keys
    <3>1. UNCHANGED memtype
      BY DEF Next, Driver, Open, Session, Enter, Poke, Look, Chill, NextBlock, SendHead, SendTail, Await,
             LoopEnds, ReadAsk, ReadWait, Fetch, ReadEnds, Finish, Srst, UsbError, ProbeReady, vars
    <3> QED BY <3>1 DEF Keys, KeyReg
  <2> DEFINE l == Len(script)
  <2>1. CASE Poke
    <3>1. pc = "poke" /\ pc' = "look" /\ Poking /\ UNCHANGED <<script, after>>
      BY <2>1 DEF Poke, Poking
    <3>2. CASE UNCHANGED keyed
      BY <2>0, <3>1, <3>2 DEF KInv, Poking
    <3>3. CASE /\ after = "block" /\ memtype # "RAM" /\ "FULL" \notin flags'
               /\ l = 3 /\ Key(Keys[1]) /\ keyed = <<>>
      <4>1. keyed' = <<Keys[1]>>
        BY <3>3, KeyArrives
      <4> QED BY <2>0, <3>1, <3>3, <4>1 DEF KInv
    <3>4. CASE /\ after = "block" /\ memtype # "RAM" /\ "FULL" \notin flags'
               /\ l = 2 /\ Key(Keys[2]) /\ keyed \in {<<>>, <<Keys[1]>>}
      <4>1. keyed' \in {<<Keys[2]>>, Keys}
        BY <3>4, KeyArrives
      <4> QED BY <2>0, <3>1, <3>4, <4>1 DEF KInv
    <3> QED BY <2>1, <3>2, <3>3, <3>4, Attempt
  <2>2. CASE Look \/ Chill
    <3>1. pc \in {"look", "chill"} /\ Poking /\ UNCHANGED <<memtype, op, after, keyed>>
      BY <2>2 DEF Look, Chill, Poking
    <3>2. l \in Nat /\ l >= 1
      BY <3>1, HeadWord
    <3>3. CASE pc' = "chill" /\ UNCHANGED <<script, tries, flags>>
      BY <2>0, <3>1, <3>3 DEF KInv, Poking
    <3>4. CASE GoOn
      <4>1. CASE pc' = "poke" /\ UNCHANGED <<script, tries, flags>> /\ flags = Flags
        BY <2>0, <3>1, <4>1 DEF KInv, Poking, Flags
      <4>2. CASE pc' = "poke" /\ l > 1 /\ Len(script') = l - 1
        <5> DEFINE m == Len(script')
        <5>1. m \in Nat /\ (m >= 4 => l >= 4) /\ (m = 3 => l = 4) /\ (m = 2 => l = 3)
          BY <3>2, <4>2
        <5>2. /\ m >= 4 => l >= 4
              /\ m = 3 => l >= 4
              /\ m = 2 => l = 3
          BY <5>1
        <5> QED BY <2>0, <3>1, <4>2, <5>2 DEF KInv, Poking
      <4>3. CASE pc' = after
        <5>1. after \in {"block", "cbw", "read", "finish"}
          BY <3>1 DEF TInv, TypeOK, Poking
        <5> QED BY <2>0, <3>1, <4>3, <5>1 DEF KInv, Poking
      <4> QED BY <3>1, <3>4, <4>1, <4>2, <4>3, GoOnStep
    <3> QED BY <2>2, <3>3, <3>4 DEF Look, Chill
  <2>3. CASE Enter
    BY <2>0, <2>3 DEF Enter, KInv, Poking, probeVars
  <2>4. CASE Open \/ Session \/ NextBlock \/ SendHead \/ SendTail \/ Await \/ LoopEnds \/ ReadAsk
              \/ ReadWait \/ Fetch \/ ReadEnds \/ Finish \/ Srst \/ UsbError
    <3>1. UNCHANGED keyed
      BY <2>4 DEF Open, Session, NextBlock, SendHead, SendTail, Await, LoopEnds, ReadAsk, ReadWait, Fetch,
                  ReadEnds, Finish, Srst, UsbError, probeVars
    <3>2. /\ pc' \in {"poke", "look", "chill"} => after' # "block"
          /\ pc' \in {"open", "session", "enter"} => pc \in {"open", "session", "enter"}
      BY <2>4 DEF Open, Session, NextBlock, SendHead, SendTail, Await, LoopEnds, ReadAsk, ReadWait, Fetch,
                  ReadEnds, Finish, Srst, UsbError
    <3> QED BY <2>0, <3>1, <3>2 DEF KInv, Poking
  <2>5. CASE ProbeReady \/ UNCHANGED vars
    <3>1. UNCHANGED <<keyed, pc, flags, script, after>>
      BY <2>5 DEF ProbeReady, vars, probeVars, driverVars
    <3> QED BY <2>0, <3>1 DEF KInv, Poking
  <2> QED BY <2>1, <2>2, <2>3, <2>4, <2>5 DEF Next, Driver
<1> QED BY <1>1, <1>2, TypeInvariant, PTL DEF Spec

\* However often register writes are repeated and whatever becomes of them, the key register
\* never gets a key again that arrived, nor the second key before the first: what it holds is
\* at most one byte or both keys in their order.
THEOREM KeysStayInOrder == Spec => []KeysInOrder
<1>1. KInv => KeysInOrder
  <2> SUFFICES ASSUME KInv PROVE KeysInOrder
    OBVIOUS
  <2>1. Keys[1] \in Words /\ Keys[2] \in Words
    BY DEF Keys, KeyOrder, KeyReg, Words
  <2>2. Len(<<>>) = 0 /\ Len(<<Keys[1]>>) = 1 /\ Len(<<Keys[2]>>) = 1
    BY <2>1, KeysAppended
  <2>3. CASE keyed = Keys
    BY <2>3 DEF KeysInOrder, Keys
  <2>4. CASE keyed \in {<<>>, <<Keys[1]>>, <<Keys[2]>>}
    <3> DEFINE n == Len(keyed)
    <3>1. n = 0 \/ n = 1
      BY <2>2, <2>4
    <3> HIDE DEF n
    <3>2. n <= 1
      BY <3>1
    <3> QED BY <3>2 DEF KeysInOrder, n
  <2> QED BY <2>3, <2>4 DEF KInv
<1> QED BY <1>1, KeysInvariant, PTL
-----------------------------------------------------------------------------
\* What is in the air is a unit the image reaches, and nothing is behind a read.
OInv ==
  /\ busy > 0 => op = "write" /\ Reaching(cell.blk) # {}
  /\ pc \in {"open", "session"} => mem = old /\ busy = 0
  /\ \A b \in Blocks : Reaching(b) = {} \/ op = "read" => mem[b] = old[b]

\* What no step changes: the command and its place in the address space.
LEMMA CommandStays ==
  ASSUME [Next]_vars
  PROVE  /\ UNCHANGED <<memtype, base, space, op, len>>
         /\ Session \/ UNCHANGED old
         /\ Fetch \/ UNCHANGED buf
         /\ Poking' /\ UNCHANGED after => Listed(after)' = Listed(after)
<1>1. UNCHANGED <<memtype, base, space, op, len>> /\ (Session \/ UNCHANGED old) /\ (Fetch \/ UNCHANGED buf)
  BY DEF Next, Driver, Open, Session, Enter, Poke, Look, Chill, NextBlock, SendHead, SendTail, Await,
         LoopEnds, ReadAsk, ReadWait, Fetch, ReadEnds, Finish, Srst, UsbError, ProbeReady, vars, driverVars
<1> QED BY <1>1, ScriptStable

\* The units that reach b are those of the loop whose address is that of b.
LEMMA ReachingUnits ==
  ASSUME TypeOK, NEW b \in Blocks
  PROVE  Reaching(b) = {u \in Blocks : u < Units /\ Hits(u, b)}
<1>0. /\ NBlocks \in Nat /\ BlockSize \in Nat /\ BlockSize > 0 /\ len \in Nat
      /\ Units \in 0 .. NBlocks
  BY UnitsIn, TargetAssumption DEF TypeOK
<1>1. ASSUME NEW p \in 0 .. len - 1
      PROVE  p \div BlockSize \in Blocks /\ p \div BlockSize < Units
  <2> DEFINE u == p \div BlockSize
  <2>1. u \in Nat /\ u * BlockSize <= p
    BY <1>0, Quotient
  <2>2. u * BlockSize < len
    <3>1. u * BlockSize \in Nat
      BY <1>0, <2>1
    <3> HIDE DEF u
    <3> QED BY <1>0, <2>1, <3>1
  <2>3. u < Units
    BY <1>0, <2>1, <2>2, RoundedUp DEF Units
  <2> HIDE DEF u
  <2>4. u \in Blocks
    BY <1>0, <2>1, <2>3 DEF Blocks
  <2> QED BY <2>3, <2>4 DEF u
<1>2. ASSUME NEW u \in Blocks, u < Units
      PROVE  u \in {p \div BlockSize : p \in 0 .. len - 1}
  <2> DEFINE p == u * BlockSize
             q == p \div BlockSize
  <2>1. u \in Nat /\ p \in Nat /\ p < len
    <3>1. u \in Nat
      BY <1>0 DEF Blocks
    <3> QED BY <1>0, <1>2, <3>1, RoundedUp DEF Units
  <2>2. q \in Nat
    BY <1>0, <2>1, Quotient
  <2>3. ~(p < u * BlockSize) /\ p < (u + 1) * BlockSize
    BY <1>0, <2>1
  <2>4. ~(q < u) /\ q < u + 1
    BY <1>0, <2>1, <2>3, QuotientBelow
  <2> HIDE DEF q
  <2>5. q = u
    BY <2>1, <2>2, <2>4
  <2>6. p \in 0 .. len - 1
    BY <1>0, <2>1
  <2> QED BY <2>5, <2>6 DEF q
<1> QED BY <1>1, <1>2 DEF Reaching

\* Whatever the part still does, it does to a unit the image reaches.
LEMMA AirInvariant == Spec => [](TInv /\ OInv)
<1>1. Init => OInv
  BY DEF Init, OInv, TargetInit
<1>2. TInv /\ TInv' /\ OInv /\ [Next]_vars => OInv'
  <2> SUFFICES ASSUME TInv, TInv', OInv, [Next]_vars PROVE OInv'
    OBVIOUS
  <2>0. /\ UNCHANGED <<memtype, base, space, op, len>> /\ (Session \/ UNCHANGED old)
        /\ TargetTypeOK /\ TypeOK /\ busy \in Nat /\ mem \in [Blocks -> Contents]
    BY CommandStays DEF TInv, TypeOK, TargetTypeOK
  <2>1. \A b : Reaching(b)' = Reaching(b)
    BY <2>0 DEF Reaching, Hits, Addr
  <2>2. CASE Session
    <3>1. Reset /\ old' = mem' /\ pc' = "enter"
      BY <2>2 DEF Session
    <3>2. busy' = 0
      BY <3>1 DEF Reset
    <3> QED BY <3>1, <3>2 DEF OInv
  <2>3. ASSUME UNCHANGED <<mem, busy, cell, old>>, pc' \in {"open", "session"} => pc = "open" \/ UNCHANGED pc
        PROVE  OInv'
    BY <2>0, <2>1, <2>3 DEF OInv
  <2>4. ASSUME UNCHANGED old, pc' \notin {"open", "session"}, busy' > 0 => busy > 0 /\ UNCHANGED cell,
               \A b \in Blocks : mem'[b] = mem[b] \/ (busy > 0 /\ b = cell.blk)
        PROVE  OInv'
    BY <2>0, <2>1, <2>4 DEF OInv
  <2>5. CASE Look \/ Chill \/ SendHead \/ Await \/ ReadWait
    <3>1. Sleep /\ UNCHANGED old /\ pc \notin {"open", "session"} /\ pc' \notin {"open", "session"}
      <4>1. CASE Look \/ Chill
        <5>1. Poking /\ UNCHANGED <<memtype, op, after>>
          BY <4>1 DEF Look, Chill, Poking
        <5>2. after \notin {"open", "session"}
          BY <5>1 DEF TInv, TypeOK, Poking
        <5> QED BY <4>1, <5>1, <5>2, GoOnStep DEF Look, Chill
      <4>2. CASE SendHead \/ Await \/ ReadWait
        BY <4>2 DEF SendHead, Await, ReadWait, driverVars
      <4> QED BY <2>5, <4>1, <4>2
    <3>2. /\ \A b \in Blocks : mem'[b] = mem[b] \/ (busy = 1 /\ b = cell.blk)
          /\ busy' = 0 \/ (busy' > 0 /\ busy > 0 /\ UNCHANGED cell)
      BY <2>0, <3>1, SleepChanges
    <3> QED BY <2>4, <3>1, <3>2
  <2>6. CASE Finish
    <3>1. Reset /\ UNCHANGED old /\ pc' \in {"srst", "done"}
      BY <2>6 DEF Finish, driverVars
    <3>2. /\ \A b \in Blocks : mem'[b] = mem[b] \/ (busy > 0 /\ b = cell.blk)
          /\ busy' = 0
      BY <2>0, <3>1, ResetChanges
    <3> QED BY <2>4, <3>1, <3>2
  <2>7. CASE SendTail
    <3>1. pc = "tail" /\ pc' = "await" /\ op = "write" /\ i \in Blocks /\ i < Units /\ UNCHANGED old
      <4>1. i < Units /\ Units \in 0 .. NBlocks /\ NBlocks \in Nat /\ i \in Nat
        BY <2>7, UnitsIn, TargetAssumption, Stlink1Assumption DEF SendTail, TInv, Index, TypeOK
      <4>2. i \in Blocks
        BY <4>1 DEF Blocks
      <4> QED BY <2>7, <4>1, <4>2 DEF SendTail, TInv, Control, driverVars
    <3>2. CASE UNCHANGED targetVars
      BY <2>3, <3>1, <3>2 DEF targetVars
    <3>3. ASSUME NEW b \in Blocks, Hits(i, b), WriteMem(b, Padded(i)) PROVE OInv'
      <4>1. Reaching(b) # {}
        <5>1. i \in Reaching(b)
          BY <2>0, <3>1, <3>3, ReachingUnits
        <5> QED BY <5>1
      <4>2. CASE UNCHANGED <<mem, busy, cell>>
        BY <2>3, <3>1, <4>2
      <4>3. CASE UNCHANGED mem /\ cell' = [blk |-> b, data |-> Padded(i)]
        <5>1. cell'.blk = b
          BY <4>3
        <5> QED BY <2>0, <2>1, <3>1, <4>1, <4>3, <5>1 DEF OInv
      <4>4. CASE mem' = [mem EXCEPT ![b] = Padded(i)] /\ UNCHANGED <<busy, cell>>
        <5>1. \A c \in Blocks : mem'[c] = mem[c] \/ c = b
          BY <2>0, <4>4
        <5>2. \A c \in Blocks : Reaching(c) = {} => mem'[c] = mem[c]
          BY <4>1, <5>1
        <5> QED BY <2>0, <2>1, <3>1, <4>4, <5>2 DEF OInv
      <4> QED BY <3>3, <4>2, <4>3, <4>4 DEF WriteMem
    <3> QED BY <2>7, <3>2, <3>3 DEF SendTail
  <2>8. CASE Open \/ Enter \/ NextBlock \/ LoopEnds \/ ReadAsk \/ Fetch \/ ReadEnds \/ Srst \/ UsbError
              \/ ProbeReady \/ UNCHANGED vars
    <3>1. UNCHANGED <<mem, busy, cell, old>>
      BY <2>8 DEF Open, Enter, NextBlock, LoopEnds, ReadAsk, Fetch, ReadEnds, Srst, UsbError, ProbeReady, vars,
                  driverVars, targetVars
    <3>2. pc' \in {"open", "session"} => pc = "open" \/ UNCHANGED pc
      BY <2>8 DEF Open, Enter, NextBlock, LoopEnds, ReadAsk, Fetch, ReadEnds, Srst, UsbError, ProbeReady, vars
    <3> QED BY <2>3, <3>1, <3>2
  <2>9. CASE Poke
    <3>1. UNCHANGED <<mem, busy, cell, old>> /\ pc' = "look"
      BY <2>9 DEF Poke, Delivered, Key, WriteKeys, Lock, Select, targetVars
    <3> QED BY <2>3, <3>1
  <2> QED BY <2>2, <2>5, <2>6, <2>7, <2>8, <2>9 DEF Next, Driver
<1> QED BY <1>1, <1>2, TypeInvariant, PTL DEF Spec

\* Whatever the probe answers and wherever the command ends, a write leaves the units its image
\* does not reach as they were when the session started, and a read leaves them all.
THEOREM OthersStay == Spec => []OthersUntouched
<1>1. OInv => OthersUntouched
  BY DEF OInv, OthersUntouched
<1> QED BY <1>1, AirInvariant, PTL
-----------------------------------------------------------------------------
\* The register writes of the session and of the unlocking are behind the command.
Unlocked == pc \in {"block", "cbw", "tail", "await"} \/ (Poking /\ after = "cbw")

\* Without an incident each register write arrives with its first attempt.
NoFlags == clean /\ pc \in {"look", "chill"} => flags = {}

\* The clean commands are those whose attempts all arrived.
LEMMA NoFlagsInvariant == Spec => [](TInv /\ NoFlags)
<1>1. Init => NoFlags
  BY DEF Init, NoFlags
<1>2. TInv /\ NoFlags /\ [Next]_vars => NoFlags'
  <2> SUFFICES ASSUME TInv, NoFlags, [Next]_vars PROVE NoFlags'
    OBVIOUS
  <2>1. CASE Poke
    BY <2>1 DEF Poke, NoFlags, TInv, TypeOK
  <2>2. CASE Look \/ Chill
    <3>1. UNCHANGED clean /\ pc \in {"look", "chill"} /\ Poking /\ UNCHANGED <<memtype, op, after>>
      BY <2>2 DEF Look, Chill, Poking
    <3>2. CASE UNCHANGED flags
      BY <3>1, <3>2 DEF NoFlags
    <3>3. CASE GoOn
      <4>1. pc' \in {"poke", "block", "cbw", "read", "finish"}
        BY <3>1, <3>3, GoOnStep DEF TInv, TypeOK, Poking
      <4> QED BY <4>1 DEF NoFlags
    <3> QED BY <2>2, <3>2, <3>3 DEF Look, Chill
  <2>3. CASE Open \/ Session \/ Enter \/ NextBlock \/ SendHead \/ SendTail \/ Await \/ LoopEnds \/ ReadAsk
              \/ ReadWait \/ Fetch \/ ReadEnds \/ Finish \/ Srst \/ UsbError
    <3>1. pc' \notin {"look", "chill"}
      BY <2>3 DEF Open, Session, Enter, NextBlock, SendHead, SendTail, Await, LoopEnds, ReadAsk, ReadWait, Fetch,
                  ReadEnds, Finish, Srst, UsbError
    <3> QED BY <3>1 DEF NoFlags
  <2>4. CASE ProbeReady \/ UNCHANGED vars
    BY <2>4 DEF ProbeReady, vars, probeVars, driverVars, NoFlags
  <2> QED BY <2>1, <2>2, <2>3, <2>4 DEF Next, Driver
<1> QED BY <1>1, <1>2, TypeInvariant, PTL DEF Spec

\* A look at a register write of a clean command: the next one, or the point behind the script.
LEMMA CleanLook ==
  ASSUME TInv, NoFlags, Look \/ Chill, clean
  PROVE  /\ pc = "look" /\ Poking /\ Sleep
         /\ \/ /\ pc' = "poke" /\ Len(script) > 1 /\ Len(script') = Len(script) - 1
               /\ Rest(script', Listed(after))
            \/ pc' = after /\ Len(script) = 1
<1>1. flags = {} /\ Poking /\ pc \in {"look", "chill"} /\ UNCHANGED <<memtype, op, after>> /\ Sleep
  BY DEF Look, Chill, NoFlags, Poking
<1>2. pc = "look" /\ GoOn
  BY <1>1 DEF Look, Chill, TInv, Counted
<1> QED BY <1>1, <1>2, GoOnStep DEF Flags
-----------------------------------------------------------------------------
\* EEPROM is locked again before the first block, so that nothing is ever in the air.
EInv ==
  memtype = "EEPROM" /\ clean =>
    /\ mem = old /\ busy = 0
    /\ Unlocked \/ (op = "write" /\ pc = "look" /\ after = "block" /\ Len(script) = 1) => "DUL" \notin iapsr

\* EEPROM stays as it is for as long as nothing goes wrong: the write of FLASH_IAPSR behind the
\* keys takes back what they have opened.
LEMMA EepromInvariant == Spec => [](TInv /\ NoFlags /\ EInv)
<1>1. Init => EInv
  BY DEF Init, EInv, TargetInit, Unlocked, Poking
<1>2. TInv /\ TInv' /\ NoFlags /\ EInv /\ [Next]_vars => EInv'
  <2> SUFFICES ASSUME TInv, TInv', NoFlags, EInv, [Next]_vars, memtype = "EEPROM", clean'
               PROVE  EInv'
    BY CommandStays DEF EInv
  <2>0. /\ UNCHANGED <<memtype, op>> /\ (Session \/ UNCHANGED old) /\ TargetTypeOK /\ clean
        /\ mem = old /\ busy = 0
    <3>1. clean
      BY DEF Next, Driver, Open, Session, Enter, Poke, Look, Chill, NextBlock, SendHead, SendTail, Await,
             LoopEnds, ReadAsk, ReadWait, Fetch, ReadEnds, Finish, Srst, UsbError, ProbeReady, vars
    <3> QED BY <3>1, CommandStays DEF EInv, TInv, TypeOK
  <2>1. CASE Session \/ Finish
    <3>1. Reset /\ mem' = old' /\ pc' \in {"enter", "srst", "done"}
      BY <2>0, <2>1, ResetChanges DEF Session, Finish, driverVars
    <3>2. busy' = 0
      BY <3>1 DEF Reset
    <3> QED BY <3>1, <3>2 DEF EInv, Unlocked, Poking
  <2>2. CASE Look \/ Chill
    <3>1. /\ pc = "look" /\ Poking /\ Sleep /\ UNCHANGED <<after, old>>
          /\ \/ pc' = "poke"
             \/ pc' = after /\ Len(script) = 1
      BY <2>0, <2>2, CleanLook DEF Look, Chill
    <3>2. UNCHANGED targetVars
      BY <2>0, <3>1, SleepChanges
    <3>3. after = "block" => op = "write"
      BY <3>1 DEF TInv, Control
    <3>4. after \in {"block", "cbw", "read", "finish"}
      BY <3>1 DEF TInv, TypeOK, Poking
    <3> QED BY <2>0, <3>1, <3>2, <3>3, <3>4 DEF EInv, Unlocked, Poking, targetVars
  <2>3. CASE Poke
    <3> DEFINE h == Head(script)
    <3>1. /\ pc' = "look" /\ pc = "poke" /\ Poking /\ Delivered(h) /\ UNCHANGED <<script, after, old>>
      BY <2>3 DEF Poke, Poking
    <3>2. UNCHANGED <<mem, busy, old>>
      <4> HIDE DEF h
      <4> QED BY <3>1 DEF Delivered, Key, WriteKeys, Lock, Select, targetVars
    <3>3. CASE after = "block" /\ Len(script) = 1
      <4>1. h = "IAPSR=56"
        BY <2>0, <3>1, <3>3, HeadWord
      <4> HIDE DEF h
      <4>2. "DUL" \notin iapsr'
        BY <3>1, <4>1 DEF Delivered, Lock, AfterIapsrWrite, LockBits
      <4> QED BY <2>0, <3>2, <4>2 DEF EInv
    <3>4. CASE after = "cbw"
      <4>1. h \notin {"56", "AE"}
        BY <2>0, <3>1, <3>4, HeadWord
      <4>2. "DUL" \notin iapsr
        BY <2>0, <3>1, <3>4 DEF EInv, Unlocked
      <4> HIDE DEF h
      <4>3. "DUL" \notin iapsr'
        BY <3>1, <4>1, <4>2 DEF Delivered, Lock, Select, AfterIapsrWrite, targetVars
      <4> QED BY <2>0, <3>2, <4>3 DEF EInv
    <3> HIDE DEF h
    <3> QED BY <2>0, <3>1, <3>2, <3>3, <3>4 DEF EInv, Unlocked, Poking
  <2>4. CASE SendTail
    <3>1. pc = "tail" /\ pc' = "await" /\ "DUL" \notin iapsr /\ UNCHANGED old
      BY <2>0, <2>4 DEF SendTail, EInv, Unlocked, driverVars
    <3>2. CASE UNCHANGED targetVars
      BY <2>0, <3>1, <3>2 DEF EInv, targetVars
    <3>3. ASSUME NEW b \in Blocks, WriteMem(b, Padded(i)) PROVE EInv'
      <4>1. Protected(b)
        BY <3>1 DEF Protected, AreaLock
      <4>2. UNCHANGED <<mem, busy>> /\ "DUL" \notin iapsr'
        BY <3>1, <3>3, <4>1 DEF WriteMem
      <4> QED BY <2>0, <3>1, <4>2 DEF EInv
    <3> QED BY <2>4, <3>2, <3>3 DEF SendTail
  <2>5. CASE SendHead \/ Await \/ ReadWait
    <3>1. UNCHANGED old /\ Sleep /\ (Unlocked' => Unlocked) /\ pc' # "look"
      BY <2>5 DEF SendHead, Await, ReadWait, driverVars, Unlocked, Poking
    <3>2. UNCHANGED targetVars
      BY <2>0, <3>1, SleepChanges
    <3> QED BY <2>0, <3>1, <3>2 DEF EInv, targetVars
  <2>6. CASE Open \/ Enter \/ NextBlock \/ LoopEnds \/ ReadAsk \/ Fetch \/ ReadEnds \/ Srst \/ UsbError
    <3>1. UNCHANGED <<mem, busy, old, iapsr>>
      BY <2>6 DEF Open, Enter, NextBlock, LoopEnds, ReadAsk, Fetch, ReadEnds, Srst, UsbError, driverVars, targetVars
    <3>2. (Unlocked' => Unlocked) /\ pc' # "look"
      BY <2>6 DEF Open, Enter, NextBlock, LoopEnds, ReadAsk, Fetch, ReadEnds, Srst, UsbError, Unlocked, Poking
    <3> QED BY <2>0, <3>1, <3>2 DEF EInv
  <2>7. CASE ProbeReady \/ UNCHANGED vars
    <3>1. UNCHANGED <<mem, busy, old, iapsr, pc, script, after>>
      BY <2>7 DEF ProbeReady, vars, driverVars, targetVars
    <3> QED BY <2>0, <3>1 DEF EInv, Unlocked, Poking
  <2> QED BY <2>1, <2>2, <2>3, <2>4, <2>5, <2>6, <2>7 DEF Next, Driver
<1> QED BY <1>1, <1>2, NoFlagsInvariant, PTL DEF Spec

\* What the support table of README.md calls FAIL, for every image and every order of the
\* probe's answers: a clean command leaves EEPROM as it was, so that a write of it only seems
\* to have worked.
THEOREM EepromIsRefused == Spec => []EepromRefused
<1>1. EInv => EepromRefused
  BY DEF EInv, EepromRefused
<1> QED BY <1>1, EepromInvariant, PTL
-----------------------------------------------------------------------------
\* The units read so far are those of the area.
RInv ==
  op = "read" /\ clean => \A u \in Blocks : \A b \in Blocks : u < i /\ Hits(u, b) => buf[u] = mem[b]

\* A read changes nothing, and what it has got so far is right.
LEMMA ReadInvariant == Spec => [](TInv /\ OInv /\ RInv)
<1>1. Init => RInv
  <2> SUFFICES ASSUME Init PROVE RInv
    OBVIOUS
  <2>1. \A u \in Blocks : ~(u < i)
    BY TargetAssumption DEF Init, Blocks
  <2> QED BY <2>1 DEF RInv
<1>2. TInv /\ OInv /\ RInv /\ [Next]_vars => RInv'
  <2> SUFFICES ASSUME TInv, OInv, RInv, [Next]_vars, op = "read", clean' PROVE RInv'
    BY CommandStays DEF RInv
  <2>0. /\ UNCHANGED <<op, base, space>> /\ (Fetch \/ UNCHANGED buf) /\ TargetTypeOK /\ clean /\ busy = 0
        /\ i \in Nat
    <3>1. clean
      BY DEF Next, Driver, Open, Session, Enter, Poke, Look, Chill, NextBlock, SendHead, SendTail, Await,
             LoopEnds, ReadAsk, ReadWait, Fetch, ReadEnds, Finish, Srst, UsbError, ProbeReady, vars
    <3>2. busy = 0
      BY DEF OInv, TInv, TypeOK, TargetTypeOK
    <3>3. i \in Nat
      BY TargetAssumption, Stlink1Assumption DEF TInv, TypeOK
    <3> QED BY <3>1, <3>2, <3>3, CommandStays DEF TInv, TypeOK
  <2>1. \A u, b : Hits(u, b)' = Hits(u, b)
    BY <2>0 DEF Hits, Addr
  <2>2. UNCHANGED mem
    <3>1. CASE Session \/ Finish
      BY <2>0, <3>1, ResetChanges DEF Session, Finish
    <3>2. CASE Look \/ Chill \/ SendHead \/ Await \/ ReadWait
      <4>1. Sleep
        BY <3>2 DEF Look, Chill, SendHead, Await, ReadWait
      <4> QED BY <2>0, <4>1, SleepChanges DEF targetVars
    <3>3. CASE Poke
      BY <3>3 DEF Poke, Delivered, Key, WriteKeys, Lock, Select, targetVars
    <3>4. ~SendTail
      BY DEF SendTail, TInv, Control
    <3>5. CASE Open \/ Enter \/ NextBlock \/ LoopEnds \/ ReadAsk \/ Fetch \/ ReadEnds \/ Srst \/ UsbError
                \/ ProbeReady \/ UNCHANGED vars
      BY <3>5 DEF Open, Enter, NextBlock, LoopEnds, ReadAsk, Fetch, ReadEnds, Srst, UsbError, ProbeReady, vars,
                  targetVars
    <3> QED BY <3>1, <3>2, <3>3, <3>4, <3>5 DEF Next, Driver
  <2>3. CASE Fetch
    <3>1. /\ i' = i + ReadChunk
          /\ \A u \in Blocks : u \notin i .. i + ReadChunk - 1 => buf'[u] = buf[u]
          /\ \A u \in Blocks \intersect (i .. i + ReadChunk - 1) :
               \A b \in Blocks : Hits(u, b) => buf'[u] = mem[b]
      BY <2>0, <2>3 DEF Fetch, ReadFrom
    <3>2. ASSUME NEW u \in Blocks, NEW b \in Blocks, u < i', Hits(u, b) PROVE buf'[u] = mem[b]
      <4>1. u \in Nat /\ ReadChunk \in Nat
        BY TargetAssumption, Stlink1Assumption DEF Blocks
      <4>2. CASE u < i
        <5>1. u \notin i .. i + ReadChunk - 1
          BY <2>0, <4>1, <4>2
        <5> QED BY <2>0, <3>1, <3>2, <4>2, <5>1 DEF RInv
      <4>3. CASE ~(u < i)
        <5>1. u \in i .. i + ReadChunk - 1
          BY <2>0, <3>1, <3>2, <4>1, <4>3
        <5> QED BY <3>1, <3>2, <5>1
      <4> QED BY <4>2, <4>3
    <3> QED BY <2>1, <2>2, <3>2 DEF RInv
  <2>4. CASE UNCHANGED buf /\ ~Fetch
    <3>1. UNCHANGED i
      <4>1. ~Await
        BY DEF Await, TInv, Control
      <4> QED BY <2>4, <4>1 DEF Next, Driver, Open, Session, Enter, Poke, Look, Chill, NextBlock, SendHead, SendTail,
                 LoopEnds, ReadAsk, ReadWait, ReadEnds, Finish, Srst, UsbError, ProbeReady, vars, driverVars
    <3> QED BY <2>0, <2>1, <2>2, <2>4, <3>1 DEF RInv
  <2> QED BY <2>0, <2>3, <2>4
<1> QED BY <1>1, <1>2, AirInvariant, PTL DEF Spec

\* A read whose transfers were all complete has every unit of the area, at the place in the
\* buffer that belongs to its address, whatever the size of the chunks.
THEOREM ReadReturnsArea == Spec => []ReadBack
<1>1. TInv /\ RInv => ReadBack
  <2> SUFFICES ASSUME TInv, RInv, pc = "done", op = "read", clean,
                      NEW b \in Blocks, NEW u \in Blocks, Hits(u, b)
               PROVE  buf[u] = mem[b]
    BY DEF ReadBack
  <2>1. Units = NBlocks /\ i >= Units
    BY UnitsIn DEF TInv, TypeOK, Control, Index
  <2>2. u < i
    BY <2>1, TargetAssumption, Stlink1Assumption DEF TInv, TypeOK, Blocks
  <2> QED BY <2>2 DEF RInv
<1> QED BY <1>1, ReadInvariant, PTL
-----------------------------------------------------------------------------
\* Of the first n units of the image each one lies where its address is in contents m, unless
\* a later one has the same address.
Kept(b)    == memtype = "FLASH" /\ b \in Guarded
Upto(n, m) ==
  \A b \in Blocks :
    IF Kept(b) THEN m[b] = old[b]
    ELSE \/ (\A u \in Blocks : u < n => ~Hits(u, b)) /\ m[b] = old[b]
         \/ \E u \in Blocks : /\ u < n /\ Hits(u, b) /\ m[b] = buf[u]
                              /\ \A v \in Blocks : u < v /\ v < n => ~Hits(v, b)

\* Flash is unlocked by the keys, which arrive in turn.
FlashKeys ==
  /\ Poking /\ after = "block" =>
       /\ Len(script) >= 4 \/ (Len(script) = 3 /\ pc = "poke") => keyed = <<>>
       /\ (Len(script) = 3 /\ pc # "poke") \/ (Len(script) = 2 /\ pc = "poke") => keyed = <<Keys[1]>>
       /\ (Len(script) = 2 /\ pc # "poke") \/ Len(script) = 1 => "PUL" \in iapsr
  /\ Unlocked => "PUL" \in iapsr

\* The mode of the block, as FLASH_CR2 and FLASH_NCR2 have it.
FlashMode ==
  /\ pc \in {"cbw", "tail"} => mode = "std"
  /\ Poking /\ after = "cbw" =>
       /\ Len(script) = 1 /\ pc # "poke" => mode = "std"
       /\ HasNCR2 /\ (Len(script) = 1 <=> pc = "poke") => cr2

\* A block that was sent is in the air where its address is, or has landed, or went nowhere.
Sent ==
  \/ busy = 0 /\ Upto(i + 1, mem)
  \/ /\ busy > 0 /\ memtype = "FLASH" /\ mode = "std" /\ Upto(i, mem)
     /\ cell.blk \in Blocks \ Guarded /\ Hits(i, cell.blk) /\ cell.data = buf[i]

\* What lies in the area, and what is on its way there.
Lying ==
  /\ pc \notin {"await", "failed"} => busy = 0 /\ Upto(i, mem)
  /\ pc = "await" => Sent

\* A clean write has done what it should as far as it is.
WInv ==
  op = "write" /\ memtype # "EEPROM" /\ clean =>
    /\ Lying
    /\ memtype = "FLASH" => FlashKeys /\ FlashMode

\* An address is that of one unit of the area at most.
LEMMA OneUnit ==
  ASSUME base \in Nat, NEW u, NEW b \in Blocks, NEW c \in Blocks, Hits(u, b), Hits(u, c)
  PROVE  b = c
BY TargetAssumption DEF Hits, Blocks

\* The block that is sent is that of the image.
LEMMA PaddedImage ==
  ASSUME TypeOK, buf \in Images, NEW u \in Blocks
  PROVE  Padded(u) = buf[u]
<1>1. buf[u] \in [Offsets -> Byte]
  BY DEF TypeOK, Contents
<1>2. \A o \in Offsets : ~(u * BlockSize + o < len) => buf[u][o] = Empty
  <2>1. \A o \in Offsets : u * BlockSize + o \in Nat /\ len \in Nat
    BY TargetAssumption DEF TypeOK, Blocks, Offsets
  <2> QED BY <2>1 DEF Images
<1> QED BY <1>1, <1>2 DEF Padded

\* One unit more: it lies where its address is, if that is in the area and not protected.
LEMMA UptoNext ==
  ASSUME TypeOK, base \in Nat, NEW n \in Blocks, NEW m, NEW k, Upto(n, m),
         \A c \in Blocks : IF Hits(n, c) /\ ~Kept(c) THEN k[c] = buf[n] ELSE k[c] = m[c]
  PROVE  Upto(n + 1, k)
<1>0. \A v \in Blocks : v < n + 1 <=> v < n \/ v = n
  BY TargetAssumption DEF Blocks
<1>1. SUFFICES ASSUME NEW b \in Blocks, ~Kept(b)
      PROVE  \/ (\A u \in Blocks : u < n + 1 => ~Hits(u, b)) /\ k[b] = old[b]
             \/ \E u \in Blocks : /\ u < n + 1 /\ Hits(u, b) /\ k[b] = buf[u]
                                  /\ \A v \in Blocks : u < v /\ v < n + 1 => ~Hits(v, b)
  BY DEF Upto
<1>2. CASE Hits(n, b)
  <2>1. \A v \in Blocks : n < v /\ v < n + 1 => FALSE
    BY TargetAssumption DEF Blocks
  <2> QED BY <1>0, <1>1, <1>2, <2>1
<1>3. CASE ~Hits(n, b)
  <2>1. k[b] = m[b]
    BY <1>3
  <2>2. \/ (\A u \in Blocks : u < n => ~Hits(u, b)) /\ m[b] = old[b]
        \/ \E u \in Blocks : /\ u < n /\ Hits(u, b) /\ m[b] = buf[u]
                             /\ \A v \in Blocks : u < v /\ v < n => ~Hits(v, b)
    BY <1>1 DEF Upto
  <2> QED BY <1>0, <1>3, <2>1, <2>2
<1> QED BY <1>2, <1>3

\* A clean command stays clean no longer than its attempts arrive.
LEMMA CleanBefore ==
  ASSUME [Next]_vars, clean'
  PROVE  clean
BY DEF Next, Driver, Open, Session, Enter, Poke, Look, Chill, NextBlock, SendHead, SendTail, Await,
       LoopEnds, ReadAsk, ReadWait, Fetch, ReadEnds, Finish, Srst, UsbError, ProbeReady, vars

\* In a clean write the keys open the flash and the mode registers select the block mode.
LEMMA FlashStep ==
  ASSUME TInv, TInv', KInv, NoFlags, WInv, [Next]_vars, op = "write", memtype = "FLASH", clean'
  PROVE  (FlashKeys /\ FlashMode)'
<1>0. /\ clean /\ FlashKeys /\ FlashMode /\ TargetTypeOK /\ (pc \notin {"await", "failed"} => busy = 0)
      /\ UNCHANGED memtype /\ Keys' = Keys
  <2>1. clean /\ UNCHANGED memtype
    BY CleanBefore, CommandStays
  <2> QED BY <2>1 DEF WInv, Lying, TInv, TypeOK, Keys, KeyReg
<1>1. CASE Look \/ Chill
  <2>1. /\ pc = "look" /\ Poking /\ Sleep /\ UNCHANGED <<after, keyed, cr2>>
        /\ \/ /\ pc' = "poke" /\ Len(script) > 1 /\ Len(script') = Len(script) - 1
           \/ pc' = after /\ Len(script) = 1
    BY <1>0, <1>1, CleanLook DEF Look, Chill
  <2>2. UNCHANGED <<iapsr, mode>>
    BY <1>0, <2>1, SleepChanges DEF targetVars
  <2>3. /\ Len(script) \in Nat /\ Len(script) >= 1 /\ (after = "cbw" => Len(script) \in {1, 2})
        /\ after \in {"block", "cbw", "read", "finish"}
    BY <2>1, HeadWord DEF TInv, TypeOK, Poking
  <2>4. CASE pc' = after /\ Len(script) = 1
    BY <1>0, <2>1, <2>2, <2>3, <2>4 DEF FlashKeys, FlashMode, Unlocked, Poking
  <2>5. CASE pc' = "poke" /\ Len(script) > 1 /\ Len(script') = Len(script) - 1
    <3> DEFINE l == Len(script)  m == Len(script')
    <3>1. /\ l \in Nat /\ m \in Nat /\ (m >= 4 => l >= 4) /\ (m = 3 => l >= 4) /\ (m = 2 => l = 3)
          /\ (m = 1 => l = 2) /\ (after = "cbw" => m = 1 /\ l = 2)
      BY <2>3, <2>5
    <3>2. FlashKeys'
      BY <1>0, <2>1, <2>2, <2>5, <3>1 DEF FlashKeys, Unlocked, Poking
    <3>3. FlashMode'
      BY <1>0, <2>1, <2>2, <2>5, <3>1 DEF FlashMode, Poking
    <3> QED BY <3>2, <3>3
  <2> QED BY <2>1, <2>4, <2>5
<1>2. CASE Poke
  <2> DEFINE h == Head(script)  l == Len(script)
  <2>1. /\ pc = "poke" /\ pc' = "look" /\ Poking /\ Delivered(h) /\ UNCHANGED <<script, after>> /\ Poking'
    BY <1>0, <1>2 DEF Poke, Poking
  <2>2. l \in Nat /\ l >= 1 /\ after \in {"block", "cbw", "read", "finish"}
    BY <2>1, HeadWord DEF TInv, TypeOK, Poking
  <2>3. CASE after = "block"
    <3>1. CASE l >= 4
      <4>1. h \in {"CSR", "CKDIVR", "IAPSR=00"} /\ keyed = <<>>
        BY <1>0, <2>1, <2>3, <3>1, HeadWord DEF FlashKeys
      <4>2. UNCHANGED keyed
        <5> HIDE DEF h
        <5> QED BY <2>1, <4>1 DEF Delivered, Lock
      <4>3. l # 3 /\ l # 2 /\ l # 1
        <5> HIDE DEF l
        <5> QED BY <2>2, <3>1
      <4>4. script' = script /\ keyed' = <<>> /\ pc' = "look" /\ after' = "block"
        BY <2>1, <2>3, <4>1, <4>2
      <4> HIDE DEF h
      <4> QED BY <4>3, <4>4 DEF FlashKeys, FlashMode, Unlocked, Poking
    <3>2. CASE l = 3
      <4>1. h = Keys[1] /\ h \in {"56", "AE"} /\ keyed = <<>>
        BY <1>0, <2>1, <2>3, <3>2, HeadWord DEF FlashKeys, Keys, KeyOrder, KeyReg
      <4>2. Key(h)
        <5> HIDE DEF h
        <5> QED BY <2>1, <4>1 DEF Delivered
      <4>3. Key(Keys[1])
        BY <4>1, <4>2
      <4>4. keyed' = <<Keys[1]>>
        BY <4>1, <4>3, KeyArrives
      <4> HIDE DEF h
      <4> QED BY <1>0, <2>1, <2>3, <3>2, <4>4 DEF FlashKeys, FlashMode, Unlocked, Poking
    <3>3. CASE l = 2
      <4>1. h = Keys[2] /\ h \in {"56", "AE"} /\ keyed = <<Keys[1]>>
        BY <1>0, <2>1, <2>3, <3>3, HeadWord DEF FlashKeys, Keys, KeyOrder, KeyReg
      <4>2. Key(h)
        <5> HIDE DEF h
        <5> QED BY <2>1, <4>1 DEF Delivered
      <4>3. Key(Keys[2])
        BY <4>1, <4>2
      <4>4. iapsr' = iapsr \union {OpenedBy(KeyReg)}
        BY <4>1, <4>3, KeyArrives
      <4>5. "PUL" \in iapsr'
        BY <4>4 DEF OpenedBy, KeyReg
      <4> HIDE DEF h
      <4> QED BY <1>0, <2>1, <2>3, <3>3, <4>5 DEF FlashKeys, FlashMode, Unlocked, Poking
    <3>4. CASE l = 1
      <4>1. h = "IAPSR=56" /\ "PUL" \in iapsr
        BY <1>0, <2>1, <2>3, <3>4, HeadWord DEF FlashKeys
      <4>2. "PUL" \in iapsr'
        <5> HIDE DEF h
        <5> QED BY <2>1, <4>1 DEF Delivered, Lock, AfterIapsrWrite, LockBits
      <4> HIDE DEF h
      <4> QED BY <1>0, <2>1, <2>3, <3>4, <4>2 DEF FlashKeys, FlashMode, Unlocked, Poking
    <3>5. l >= 4 \/ l = 3 \/ l = 2 \/ l = 1
      <4> HIDE DEF l
      <4> QED BY <2>2
    <3> QED BY <3>1, <3>2, <3>3, <3>4, <3>5
  <2>4. CASE after = "cbw"
    <3>1. /\ l = 2 => HasNCR2 /\ h = "CR2=01"
          /\ l = 1 => h = IF HasNCR2 THEN "NCR2=FE" ELSE "CR2=01"
          /\ l \in {1, 2} /\ "PUL" \in iapsr
      BY <1>0, <2>1, <2>4, HeadWord DEF FlashKeys, Unlocked
    <3>2. HasNCR2 /\ l = 1 => cr2
      BY <1>0, <2>1, <2>4 DEF FlashMode
    <3> HIDE DEF h
    <3>3. UNCHANGED iapsr
      BY <2>1, <3>1 DEF Delivered, Select
    <3>4. l = 1 => mode' = "std"
      BY <2>1, <3>1, <3>2 DEF Delivered, Select, SelectedMode
    <3>5. l = 2 => cr2'
      BY <2>1, <3>1 DEF Delivered, Select
    <3> QED BY <2>1, <2>4, <3>1, <3>3, <3>4, <3>5 DEF FlashKeys, FlashMode, Unlocked, Poking
  <2>5. CASE after \in {"read", "finish"}
    <3> HIDE DEF h
    <3> QED BY <2>1, <2>5 DEF FlashKeys, FlashMode, Unlocked, Poking
  <2> QED BY <2>2, <2>3, <2>4, <2>5
<1>3. CASE Enter
  <2>1. /\ pc' = "poke" /\ after' = "block" /\ script' = Opening /\ keyed' = <<>>
    <3>1. memtype \in {"FLASH", "EEPROM", "RAM"} /\ op \in {"write", "read"}
      OBVIOUS
    <3>2. keyed = <<>> /\ UNCHANGED keyed
      BY <1>3 DEF Enter, KInv, probeVars
    <3> QED BY <1>3, <3>1, <3>2, Scripts DEF Enter
  <2>2. Len(Opening) = 8
    BY DEF Opening
  <2>3. Len(script') = 8
    BY <2>1, <2>2
  <2> DEFINE m == Len(script')
  <2> HIDE DEF m
  <2>4. m = 8
    BY <2>3 DEF m
  <2> QED BY <2>1, <2>4 DEF m, FlashKeys, FlashMode, Unlocked, Poking
<1>4. CASE NextBlock
  <2>1. /\ pc' = "poke" /\ after' = "cbw" /\ script' = ModeScript /\ UNCHANGED iapsr /\ "PUL" \in iapsr
    BY <1>0, <1>4 DEF NextBlock, FlashKeys, Unlocked, targetVars
  <2>2. HasNCR2 => Len(ModeScript) = 2
    BY DEF ModeScript
  <2>3. HasNCR2 => Len(script') # 1
    BY <2>1, <2>2
  <2> QED BY <2>1, <2>3 DEF FlashKeys, FlashMode, Unlocked, Poking
<1>5. CASE SendHead
  <2>1. UNCHANGED <<iapsr, mode>> /\ pc = "cbw" /\ pc' = "tail"
    BY <1>0, <1>5, SleepChanges DEF SendHead, targetVars
  <2> QED BY <1>0, <2>1 DEF FlashKeys, FlashMode, Unlocked, Poking
<1>6. CASE SendTail \/ Await
  <2>1. pc \in {"tail", "await"} /\ pc' \in {"await", "block"} /\ "PUL" \in iapsr
    BY <1>0, <1>6 DEF SendTail, Await, FlashKeys, Unlocked
  <2>2. "PUL" \in iapsr'
    BY <1>6, <2>1 DEF SendTail, Await, Sleep, WriteMem, targetVars
  <2> QED BY <2>1, <2>2 DEF FlashKeys, FlashMode, Unlocked, Poking
<1>7. CASE Open \/ Session \/ Finish \/ Srst \/ UsbError \/ LoopEnds \/ ReadEnds
  <2>1. pc' \notin {"block", "cbw", "tail", "await"} /\ (Poking' => after' = "finish")
    BY <1>7 DEF Open, Session, Finish, Srst, UsbError, LoopEnds, ReadEnds, Poking
  <2> QED BY <2>1 DEF FlashKeys, FlashMode, Unlocked
<1>8. ~ReadAsk /\ ~ReadWait /\ ~Fetch
  BY DEF ReadAsk, ReadWait, Fetch, TInv, Control
<1>9. CASE ProbeReady \/ UNCHANGED vars
  <2>1. UNCHANGED <<pc, after, script, keyed, cr2, iapsr, mode>>
    BY <1>9 DEF ProbeReady, vars, targetVars, probeVars, driverVars
  <2> QED BY <1>0, <2>1 DEF FlashKeys, FlashMode, Unlocked, Poking
<1> QED BY <1>1, <1>2, <1>3, <1>4, <1>5, <1>6, <1>7, <1>8, <1>9 DEF Next, Driver

\* Each step of a clean write keeps what lies in the area, and adds the unit it is at.
LEMMA LyingStep ==
  ASSUME TInv, TInv', NoFlags, WInv, [Next]_vars, op = "write", memtype # "EEPROM", clean'
  PROVE  Lying'
<1>0. /\ clean /\ Lying /\ (memtype = "FLASH" => FlashKeys /\ FlashMode) /\ TypeOK /\ TargetTypeOK
      /\ UNCHANGED <<memtype, base, space>> /\ UNCHANGED buf /\ (Session \/ UNCHANGED old)
      /\ base \in Nat /\ buf \in Images /\ mem \in [Blocks -> Contents] /\ busy \in Nat
      /\ i \in Nat /\ (pc \in {"tail", "await"} => i \in Blocks)
  <2>1. clean /\ UNCHANGED <<memtype, base, space>> /\ (Session \/ UNCHANGED old) /\ (Fetch \/ UNCHANGED buf)
    BY CleanBefore, CommandStays
  <2>2. ~Fetch
    BY DEF Fetch, TInv, Control
  <2>3. i \in Nat /\ Units \in 0 .. NBlocks /\ NBlocks \in Nat
    BY UnitsIn, TargetAssumption, Stlink1Assumption DEF TInv, TypeOK
  <2>4. pc \in {"tail", "await"} => i \in Blocks
    <3>1. pc \in {"tail", "await"} => i < Units
      BY DEF TInv, Index
    <3> QED BY <2>3, <3>1 DEF Blocks
  <2> QED BY <2>1, <2>2, <2>3, <2>4 DEF WInv, TInv, Control, TypeOK, TargetTypeOK
<1>1. \A u, b : Hits(u, b)' = Hits(u, b)
  BY <1>0 DEF Hits, Addr
<1>2. ASSUME UNCHANGED <<mem, busy, i, old>>, pc \notin {"await", "failed"}, pc' # "await"
      PROVE  Lying'
  <2>1. busy' = 0 /\ Upto(i, mem)
    BY <1>0, <1>2 DEF Lying
  <2> QED BY <1>0, <1>1, <1>2, <2>1 DEF Lying, Upto, Kept
<1>3. CASE Session
  <2>1. busy' = 0 /\ old' = mem' /\ i' = 0 /\ pc' = "enter"
    BY <1>3 DEF Session, Reset, TInv, Index
  <2>2. \A u \in Blocks : ~(u < i')
    BY <2>1, TargetAssumption DEF Blocks
  <2> QED BY <2>1, <2>2 DEF Lying, Upto, Kept
<1>4. CASE Look \/ Chill \/ SendHead
  <2>1. Sleep /\ pc \in {"look", "cbw"} /\ pc' # "await" /\ UNCHANGED <<i, old>>
    <3>1. CASE Look \/ Chill
      <4>1. pc = "look" /\ Sleep /\ pc' \in {"poke", after} /\ UNCHANGED <<i, old>> /\ Poking
        BY <1>0, <3>1, CleanLook DEF Look, Chill
      <4>2. after \in {"block", "cbw", "read", "finish"}
        BY <4>1 DEF TypeOK, Poking, TInv
      <4> QED BY <4>1, <4>2
    <3>2. CASE SendHead
      BY <3>2 DEF SendHead, driverVars
    <3> QED BY <1>4, <3>1, <3>2
  <2>2. busy = 0
    BY <1>0, <2>1 DEF Lying
  <2>3. UNCHANGED targetVars
    BY <1>0, <2>1, <2>2, SleepChanges
  <2> QED BY <1>2, <2>1, <2>3 DEF targetVars
<1>5. CASE Poke
  <2>1. pc = "poke" /\ pc' = "look" /\ UNCHANGED <<mem, busy, i, old>>
    BY <1>5 DEF Poke, Delivered, Key, WriteKeys, Lock, Select, targetVars
  <2> QED BY <1>2, <2>1
<1>6. CASE Finish
  <2>1. Reset /\ pc = "finish" /\ pc' = "srst" /\ UNCHANGED <<i, old>>
    BY <1>6 DEF Finish, driverVars
  <2>2. busy = 0
    BY <1>0, <2>1 DEF Lying
  <2>3. UNCHANGED <<mem, busy>>
    BY <1>0, <2>1, <2>2, ResetChanges
  <2> QED BY <1>2, <2>1, <2>3
<1>7. CASE SendTail
  <2>1. pc = "tail" /\ pc' = "await" /\ busy = 0 /\ Upto(i, mem) /\ i \in Blocks /\ UNCHANGED <<i, old>>
        /\ stall
    BY <1>0, <1>7 DEF SendTail, Lying, driverVars
  <2>2. Padded(i) = buf[i]
    BY <1>0, <2>1, PaddedImage
  <2>3. ASSUME busy' = 0, \A c \in Blocks : IF Hits(i, c) /\ ~Kept(c) THEN mem'[c] = buf[i] ELSE mem'[c] = mem[c]
        PROVE  Lying'
    <3>1. Upto(i + 1, mem')
      BY <1>0, <2>1, <2>3, UptoNext
    <3>2. Sent'
      BY <1>0, <1>1, <2>1, <2>3, <3>1 DEF Sent, Upto, Kept
    <3> QED BY <2>1, <3>2 DEF Lying
  <2>4. CASE (\A b \in Blocks : ~Hits(i, b)) /\ UNCHANGED targetVars
    BY <2>1, <2>3, <2>4 DEF targetVars
  <2>5. ASSUME NEW b \in Blocks, Hits(i, b), WriteMem(b, Padded(i)) PROVE Lying'
    <3>1. \A c \in Blocks : Hits(i, c) <=> c = b
      BY <1>0, <2>5, OneUnit
    <3>2. CASE memtype = "RAM"
      <4>1. mem' = [mem EXCEPT ![b] = buf[i]] /\ busy' = 0
        BY <2>1, <2>2, <2>5, <3>2 DEF WriteMem
      <4>2. \A c \in Blocks : mem'[c] = IF c = b THEN buf[i] ELSE mem[c]
        BY <1>0, <4>1
      <4> QED BY <2>3, <3>1, <3>2, <4>1, <4>2 DEF Kept
    <3>3. CASE memtype = "FLASH"
      <4>1. "PUL" \in iapsr /\ mode = "std"
        BY <1>0, <2>1, <3>3 DEF FlashKeys, FlashMode, Unlocked
      <4>2. Protected(b) <=> b \in Guarded
        BY <3>3, <4>1 DEF Protected, AreaLock
      <4>3. CASE b \in Guarded
        <5>1. busy' = 0 /\ UNCHANGED mem
          BY <2>1, <2>5, <3>3, <4>2, <4>3 DEF WriteMem
        <5> QED BY <2>3, <3>1, <3>3, <4>3, <5>1 DEF Kept
      <4>4. CASE b \notin Guarded
        <5>1. busy' \in ProgTime /\ cell' = [blk |-> b, data |-> buf[i]] /\ UNCHANGED <<mem, mode>>
          <6>1. ~(busy > 0 \/ Protected(b) \/ mode = "none" \/ ~stall)
            <7>1. ~(busy > 0) /\ ~Protected(b) /\ mode # "none"
              BY <2>1, <4>1, <4>2, <4>4
            <7> QED BY <2>1, <7>1, Zenon
          <6>2. memtype # "RAM"
            BY <3>3
          <6> QED BY <2>2, <2>5, <6>1, <6>2, Zenon DEF WriteMem
        <5>2. busy' > 0 /\ cell'.blk = b /\ cell'.data = buf[i]
          BY <5>1, TargetAssumption
        <5>3. Upto(i, mem)'
          BY <1>0, <1>1, <2>1, <5>1 DEF Upto, Kept
        <5>4. Sent'
          BY <1>0, <2>1, <3>3, <4>1, <4>4, <5>1, <5>2, <5>3, <2>5 DEF Sent, Hits, Addr
        <5> QED BY <2>1, <5>4 DEF Lying
      <4> QED BY <4>3, <4>4
    <3>4. memtype \in {"RAM", "EEPROM", "FLASH"}
      BY <1>0, TargetAssumption, Stlink1Assumption DEF TargetTypeOK
    <3> QED BY <3>2, <3>3, <3>4
  <2> QED BY <1>7, <2>4, <2>5 DEF SendTail
<1>8. CASE Await
  <2>1. /\ Sleep /\ Sent /\ i \in Blocks /\ UNCHANGED old
        /\ \/ pc' = "await" /\ i' = i
           \/ pc' = "block" /\ i' = i + 1 /\ busy' = 0
    BY <1>0, <1>8 DEF Await, Lying
  <2>2. ASSUME busy' = 0, Upto(i + 1, mem') PROVE Lying'
    <3>1. CASE pc' = "await" /\ i' = i
      <4>1. Upto(i + 1, mem)'
        BY <1>0, <1>1, <2>1, <2>2, <3>1 DEF Upto, Kept
      <4> QED BY <2>2, <3>1, <4>1 DEF Lying, Sent
    <3>2. CASE pc' = "block" /\ i' = i + 1
      <4>1. Upto(i, mem)'
        BY <1>0, <1>1, <2>1, <2>2, <3>2 DEF Upto, Kept
      <4> QED BY <2>2, <3>2, <4>1 DEF Lying
    <3> QED BY <2>1, <3>1, <3>2
  <2>3. CASE busy = 0
    <3>1. UNCHANGED targetVars /\ Upto(i + 1, mem)
      BY <1>0, <2>1, <2>3, SleepChanges DEF Sent
    <3> QED BY <2>2, <2>3, <3>1 DEF targetVars
  <2>4. CASE busy = 1
    <3>1. /\ memtype = "FLASH" /\ mode = "std" /\ Upto(i, mem) /\ cell.blk \in Blocks \ Guarded
          /\ Hits(i, cell.blk) /\ cell.data = buf[i]
      BY <2>1, <2>4 DEF Sent
    <3> DEFINE b == cell.blk
    <3>2. PICK d \in Programmed(mem[b], cell.data, mode) : mem' = [mem EXCEPT ![b] = d] /\ busy' = 0
      BY <2>1, <2>4 DEF Sleep
    <3>3. d = buf[i]
      <4>1. d \in [Offsets -> Byte] /\ \A o \in Offsets : d[o] = buf[i][o]
        BY <3>1 DEF Programmed, Contents
      <4>2. buf[i] \in [Offsets -> Byte]
        BY <1>0, <2>1 DEF TypeOK, Contents
      <4> QED BY <4>1, <4>2
    <3>4. \A c \in Blocks : Hits(i, c) <=> c = b
      BY <1>0, <3>1, OneUnit
    <3>5. \A c \in Blocks : mem'[c] = IF c = b THEN buf[i] ELSE mem[c]
      BY <1>0, <3>1, <3>2, <3>3
    <3>6. \A c \in Blocks : IF Hits(i, c) /\ ~Kept(c) THEN mem'[c] = buf[i] ELSE mem'[c] = mem[c]
      BY <3>1, <3>4, <3>5 DEF Kept
    <3>7. Upto(i + 1, mem')
      BY <1>0, <2>1, <3>1, <3>6, UptoNext
    <3> QED BY <2>2, <3>2, <3>7
  <2>5. CASE busy > 1
    <3>1. busy' > 0 /\ UNCHANGED <<mem, mode, cell>>
      BY <1>0, <2>1, <2>5 DEF Sleep
    <3>2. pc' = "await" /\ i' = i
      BY <2>1, <3>1
    <3>3. /\ memtype = "FLASH" /\ mode = "std" /\ Upto(i, mem) /\ cell.blk \in Blocks \ Guarded
          /\ Hits(i, cell.blk) /\ cell.data = buf[i]
      BY <2>1, <2>5 DEF Sent
    <3>4. Upto(i, mem)'
      BY <1>0, <1>1, <2>1, <3>1, <3>2, <3>3 DEF Upto, Kept
    <3>5. Sent'
      BY <1>0, <3>1, <3>2, <3>3, <3>4 DEF Sent, Hits, Addr
    <3> QED BY <3>2, <3>5 DEF Lying
  <2>6. busy = 0 \/ busy = 1 \/ busy > 1
    BY <1>0
  <2> QED BY <2>3, <2>4, <2>5, <2>6
<1>9. CASE Open \/ Enter \/ NextBlock \/ LoopEnds \/ Srst
  <2>1. UNCHANGED <<mem, busy, i, old>> /\ pc \notin {"await", "failed"} /\ pc' # "await"
    BY <1>9 DEF Open, Enter, NextBlock, LoopEnds, Srst, targetVars, driverVars
  <2> QED BY <1>2, <2>1
<1>10. CASE UsbError
  BY <1>10 DEF UsbError, Lying
<1>11. ~ReadAsk /\ ~ReadWait /\ ~ReadEnds /\ ~Fetch
  BY DEF ReadAsk, ReadWait, ReadEnds, Fetch, TInv, Control
<1>12. CASE ProbeReady \/ UNCHANGED vars
  <2>1. UNCHANGED <<mem, mode, busy, cell, i, old, pc>>
    BY <1>12 DEF ProbeReady, vars, targetVars, driverVars
  <2>2. Upto(i, mem) => Upto(i, mem)'
    BY <1>0, <1>1, <2>1 DEF Upto, Kept
  <2>3. Upto(i + 1, mem) => Upto(i + 1, mem)'
    BY <1>0, <1>1, <2>1 DEF Upto, Kept
  <2>4. Sent => Sent'
    BY <1>0, <2>1, <2>2, <2>3 DEF Sent, Hits, Addr
  <2> QED BY <1>0, <2>1, <2>2, <2>4 DEF Lying
<1> QED BY <1>3, <1>4, <1>5, <1>6, <1>7, <1>8, <1>9, <1>10, <1>11, <1>12 DEF Next, Driver

\* What a clean write has done so far is inductive.
LEMMA WriteInvariant == Spec => [](TInv /\ WInv)
<1>1. Init => WInv
  <2> SUFFICES ASSUME Init PROVE WInv
    OBVIOUS
  <2>1. \A u \in Blocks : ~(u < i)
    BY TargetAssumption DEF Init, Blocks
  <2>2. Lying
    BY <2>1 DEF Init, TargetInit, Lying, Upto, Kept
  <2>3. FlashKeys /\ FlashMode
    BY DEF Init, FlashKeys, FlashMode, Unlocked, Poking
  <2> QED BY <2>2, <2>3 DEF WInv
<1>2. TInv /\ TInv' /\ KInv /\ NoFlags /\ WInv /\ [Next]_vars => WInv'
  <2> SUFFICES ASSUME TInv, TInv', KInv, NoFlags, WInv, [Next]_vars, op = "write", memtype # "EEPROM", clean'
               PROVE  Lying' /\ (memtype = "FLASH" => (FlashKeys /\ FlashMode)')
    BY CommandStays DEF WInv
  <2> QED BY LyingStep, FlashStep
<1> QED BY <1>1, <1>2, KeysInvariant, NoFlagsInvariant, PTL DEF Spec

\* A write of flash or RAM, of any image to any address, that met with nothing the driver does
\* not look at leaves exactly what the image has for each unit; where 16 bits do not tell two
\* addresses apart, the later block.
THEOREM CleanWriteIsRight == Spec => []CleanWritten
<1>1. TInv /\ WInv => CleanWritten
  <2> SUFFICES ASSUME TInv, WInv, Written, memtype # "EEPROM", NEW b \in Blocks
               PROVE  mem[b] = Left(b)
    BY DEF CleanWritten
  <2>1. Upto(Units, mem)
    <3>1. i >= Units /\ i <= Units /\ Upto(i, mem)
      BY DEF TInv, Index, WInv, Written, Lying
    <3>2. i \in Nat /\ Units \in Nat
      BY UnitsIn, TargetAssumption, Stlink1Assumption DEF TInv, TypeOK
    <3>3. i = Units
      BY <3>1, <3>2
    <3> QED BY <3>1, <3>3
  <2>2. Reaching(b) = {u \in Blocks : u < Units /\ Hits(u, b)}
    BY ReachingUnits DEF TInv
  <2>3. CASE Kept(b)
    BY <2>1, <2>3 DEF Upto, Left, Kept
  <2>4. CASE ~Kept(b) /\ Reaching(b) = {}
    <3>1. mem[b] = old[b]
      BY <2>1, <2>2, <2>4 DEF Upto
    <3> QED BY <2>4, <3>1 DEF Left
  <2>5. CASE ~Kept(b) /\ Reaching(b) # {}
    <3>1. PICK u \in Blocks : /\ u < Units /\ Hits(u, b) /\ mem[b] = buf[u]
                             /\ \A v \in Blocks : u < v /\ v < Units => ~Hits(v, b)
      BY <2>1, <2>2, <2>5 DEF Upto
    <3>2. u \in Reaching(b) /\ \A v \in Reaching(b) : v <= u
      BY <2>2, <3>1, TargetAssumption DEF Blocks
    <3> DEFINE w == CHOOSE x \in Reaching(b) : \A v \in Reaching(b) : v <= x
    <3>3. w \in Reaching(b) /\ \A v \in Reaching(b) : v <= w
      BY <3>2
    <3>4. w \in Blocks
      BY <2>2, <3>3
    <3> HIDE DEF w
    <3>5. w <= u /\ u <= w
      BY <3>2, <3>3
    <3>6. w = u
      BY <3>4, <3>5, TargetAssumption DEF Blocks
    <3>7. Left(b) = buf[w]
      BY <2>5 DEF Left, Kept, w
    <3> QED BY <3>1, <3>6, <3>7
  <2> QED BY <2>3, <2>4, <2>5
<1> QED BY <1>1, WriteInvariant, PTL
=============================================================================
