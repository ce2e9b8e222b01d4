-------------------------- MODULE CommandLineProofs --------------------------
(***************************************************************************)
(* Theorems about CommandLine: any areas, any options in any order and     *)
(* number, any files, any number of runs, of which each may break anywhere.*)
(*                                                                         *)
(* The inductive invariant is TInv (types, and the addresses a run may     *)
(* name), then two parts that rest on it: Settled (area, address and       *)
(* number of bytes follow what was named) and Agreed (what READ or WRITE   *)
(* last did with the file still holds).                                    *)
(***************************************************************************)
EXTENDS CommandLine, NatLemmas

Places == Addresses \union {Start[x] : x \in Areas}

\* The options.
Chosen ==
  /\ pc \in {"options", "ready", "opened", "ok", "differs", "failed"}
  /\ action \in {"NONE", "READ", "WRITE", "VERIFY", "RESET", "UNLOCK"}
  /\ memtype \in Areas \union {"UNKNOWN"}
  /\ startSpec \in BOOLEAN /\ bytesSpec \in BOOLEAN
  /\ hasFile \in BOOLEAN /\ needFile \in BOOLEAN
  /\ named \in Areas \union {"address"} /\ byAddress \in BOOLEAN

\* Address and number of bytes stay within the memory.
Bounded ==
  /\ memtype = "UNKNOWN" => startSpec
  /\ start \in Places \union {0}
  /\ startSpec => start \in Places
  /\ pc = "options" => bytes \in Counts \union {0}
  /\ pc # "options" => start \in Places /\ bytes \in Nat /\ start + bytes <= MaxAddr + 1

\* Memory and file.
Contents ==
  /\ DOMAIN mem = 0 .. MaxAddr
  /\ IsFile(file)

TInv == Chosen /\ Bounded /\ Contents

\* What the assumption says of the addresses.
LEMMA InMemory ==
  /\ MaxAddr \in Nat /\ Start \in [Areas -> 0 .. MaxAddr] /\ Size \in [Areas -> Nat]
  /\ Places \subseteq 0 .. MaxAddr /\ Counts \subseteq Int
  /\ \A a \in Places : a \in Nat /\ a <= MaxAddr
  /\ \A a \in Places : \A n \in Counts \union {0} : a + n <= MaxAddr + 1
  /\ \A a \in Places : \A x \in Areas : a + Size[x] <= MaxAddr + 1
<1>1. /\ MaxAddr \in Nat /\ Start \in [Areas -> 0 .. MaxAddr] /\ Size \in [Areas -> Nat]
      /\ Counts \subseteq Int /\ Addresses \subseteq 0 .. MaxAddr
  BY CommandLineAssumption
<1>2. Places \subseteq 0 .. MaxAddr
  BY <1>1 DEF Places
<1>3. \A a \in Places : \A n \in Counts \union {Size[x] : x \in Areas} : a + n <= MaxAddr + 1
  BY CommandLineAssumption DEF Places
<1>4. \A a \in Places : \A n \in Counts \union {0} : a + n <= MaxAddr + 1
  <2> SUFFICES ASSUME NEW a \in Places, NEW n \in Counts \union {0} PROVE a + n <= MaxAddr + 1
    OBVIOUS
  <2>1. CASE n = 0
    BY <1>1, <1>2, <2>1
  <2>2. CASE n # 0
    BY <1>3, <2>2
  <2> QED BY <2>1, <2>2
<1>5. \A a \in Places : \A x \in Areas : a + Size[x] <= MaxAddr + 1
  BY <1>3
<1> QED BY <1>1, <1>2, <1>4, <1>5

\* The area of an address.
LEMMA AreaType == \A a : AreaAt(a) \in Areas \union {"UNKNOWN"}
BY DEF AreaAt, Areas

\* The options keep the types of what they set.
LEMMA OptionTypes ==
  ASSUME TInv, Option, OnFile \/ OnUnlock \/ OnArea \/ OnAddress \/ OnBytes \/ OnReset
  PROVE  TInv'
<1>0. Chosen /\ Bounded /\ Contents /\ pc = "options" /\ pc' = "options"
  BY DEF TInv, Option
<1>1. Contents'
  BY <1>0 DEF Option, Contents
<1>2. Chosen' /\ Bounded'
  <2>1. CASE OnFile
    BY <1>0, <2>1 DEF OnFile, Chosen, Bounded
  <2>2. CASE OnUnlock
    BY <1>0, <2>2 DEF OnUnlock, Chosen, Bounded, Areas, Places
  <2>3. CASE OnArea
    BY <1>0, <2>3 DEF OnArea, Chosen, Bounded, Areas
  <2>4. CASE OnAddress
    BY <1>0, <2>4 DEF OnAddress, Chosen, Bounded, Places
  <2>5. CASE OnBytes
    BY <1>0, <2>5 DEF OnBytes, Chosen, Bounded
  <2>6. CASE OnReset
    BY <1>0, <2>6 DEF OnReset, Chosen, Bounded
  <2> QED BY <2>1, <2>2, <2>3, <2>4, <2>5, <2>6
<1> QED BY <1>1, <1>2 DEF TInv

\* The number of bytes after the comparison with the size of the area.
LEMMA ClampedBound ==
  ASSUME NEW a \in Areas, bytes \in Counts \union {0}
  PROVE  /\ Clamped(a) \in Nat /\ Clamped(a) <= Size[a]
         /\ \A s \in Places : s + Clamped(a) <= MaxAddr + 1
<1>1. bytes \in Int /\ Size[a] \in Nat
  BY InMemory
<1>2. Clamped(a) \in Nat /\ Clamped(a) <= Size[a]
  BY <1>1 DEF Clamped
<1>3. \A s \in Places : s \in Nat /\ s + Size[a] <= MaxAddr + 1
  BY InMemory
<1> QED BY <1>1, <1>2, <1>3, InMemory

\* Area, address and number of bytes that come of the options.
LEMMA DecideTypes ==
  ASSUME TInv, Decide
  PROVE  TInv'
<1>0. Chosen /\ Bounded /\ Contents /\ pc = "options" /\ pc' \in {"failed", "ready"}
  BY DEF TInv, Decide
<1>1. Contents'
  BY <1>0 DEF Decide, Contents
<1>2. Area \in Areas \union {"UNKNOWN"} /\ (Area = "UNKNOWN" => startSpec)
  BY <1>0, AreaType DEF Area, Chosen, Bounded
<1>3. Chosen'
  BY <1>0, <1>2 DEF Decide, Chosen
<1>4. start' \in Places
  BY <1>0, <1>2 DEF Decide, Bounded, Places, Chosen
<1>5. bytes' \in Nat /\ start' + bytes' <= MaxAddr + 1
  <2>1. CASE Area = "UNKNOWN"
    <3>0. bytes \in Counts \union {0}
      BY <1>0 DEF Bounded
    <3>1. bytes' = bytes /\ bytes \in Nat
      BY <2>1, <3>0, InMemory DEF Decide
    <3>3. start' + bytes <= MaxAddr + 1
      BY <1>4, <3>0, InMemory
    <3> QED BY <3>1, <3>3
  <2>2. CASE Area # "UNKNOWN"
    BY <1>0, <1>2, <1>4, <2>2, ClampedBound DEF Decide, Bounded
  <2> QED BY <2>1, <2>2
<1> QED BY <1>0, <1>1, <1>3, <1>4, <1>5 DEF TInv, Bounded, Decide

\* The operations keep the types of memory and file.
LEMMA OperationTypes ==
  ASSUME TInv, pc \in {"ready", "opened"},
         Open \/ ReadPart \/ WritePart \/ VerifyPart \/ Unreadable \/ Broken \/ Truncated \/ UnlockPart \/ ResetPart
  PROVE  TInv' /\ UNCHANGED <<optionVars, named, byAddress>> /\ pc' # "options"
<1>0. Chosen /\ Bounded /\ Contents
  BY DEF TInv
<1>1. UNCHANGED <<optionVars, named, byAddress>> /\ pc' \in {"opened", "ok", "differs", "failed"}
  BY DEF Open, ReadPart, WritePart, VerifyPart, Unreadable, Broken, Truncated, UnlockPart, ResetPart
<1>2. Chosen' /\ Bounded'
  BY <1>0, <1>1 DEF Chosen, Bounded, optionVars
<1>3. DOMAIN mem' = 0 .. MaxAddr
  BY <1>0 DEF Open, ReadPart, WritePart, VerifyPart, Unreadable, Broken, Truncated, UnlockPart, ResetPart,
               Contents, Stored, Unlocked
<1>4. IsFile(file')
  <2>1. CASE ReadPart
    <3>0. bytes \in 0 .. MaxAddr + 1 /\ start \in Nat /\ start + bytes <= MaxAddr + 1 /\ MaxAddr \in Nat
      BY <1>0, InMemory DEF Bounded
    <3>1. CASE file.raw
      <4>1. file' = [raw |-> file.raw, data |-> [k \in Span(0, bytes) |-> mem[start + k]]]
        BY <1>0, <2>1, <3>1 DEF ReadPart, Contents, IsFile
      <4>2. Span(0, bytes) = 0 .. bytes - 1
        BY <3>0 DEF Span
      <4> QED BY <1>0, <3>0, <3>1, <4>1, <4>2 DEF Contents, IsFile
    <3>2. CASE ~file.raw
      <4>1. file' = [raw |-> file.raw, data |-> [a \in Span(start, bytes) |-> mem[a]]]
        BY <1>0, <2>1, <3>2 DEF ReadPart, Contents, IsFile
      <4>2. Span(start, bytes) \subseteq 0 .. MaxAddr
        BY <3>0 DEF Span
      <4> QED BY <1>0, <3>2, <4>1, <4>2 DEF Contents, IsFile
    <3> QED BY <3>1, <3>2
  <2>2. CASE Truncated
    <3>0. bytes \in Nat /\ start \in Nat /\ start + bytes <= MaxAddr + 1 /\ MaxAddr \in Nat
      BY <1>0, InMemory DEF Bounded
    <3>1. PICK n \in 0 .. bytes : file' = [file EXCEPT !.data = [a \in Span(start, n) |-> mem[a]]]
      BY <2>2 DEF Truncated
    <3>2. ~file.raw /\ file = [raw |-> file.raw, data |-> file.data] /\ file.raw \in BOOLEAN
      BY <1>0, <2>2 DEF Truncated, Contents, IsFile
    <3>3. file' = [raw |-> file.raw, data |-> [a \in Span(start, n) |-> mem[a]]]
      BY <3>1, <3>2
    <3>4. Span(start, n) \subseteq 0 .. MaxAddr
      BY <3>0 DEF Span
    <3> QED BY <3>2, <3>3, <3>4 DEF IsFile
  <2>3. CASE ~ReadPart /\ ~Truncated
    <3>1. file' = file
      BY <2>3 DEF Open, WritePart, VerifyPart, Unreadable, Broken, UnlockPart, ResetPart
    <3> QED BY <1>0, <3>1 DEF Contents
  <2> QED BY <2>1, <2>2, <2>3
<1> QED BY <1>1, <1>2, <1>3, <1>4 DEF TInv, Contents

\* Types are inductive.
LEMMA TypeInvariant == Spec => []TInv
<1>1. Init => TInv
  <2> SUFFICES ASSUME Init PROVE TInv
    OBVIOUS
  <2>1. Chosen
    BY DEF Init, Chosen, Areas
  <2>2. Bounded
    BY DEF Init, Bounded
  <2>3. Contents
    <3>1. file \in Files /\ DOMAIN mem = 0 .. MaxAddr
      BY DEF Init
    <3>2. IsFile(file)
      BY <3>1, CommandLineAssumption
    <3> QED BY <3>1, <3>2 DEF Contents
  <2> QED BY <2>1, <2>2, <2>3 DEF TInv
<1>2. TInv /\ [Next]_vars => TInv'
  <2> SUFFICES ASSUME TInv, [Next]_vars PROVE TInv'
    OBVIOUS
  <2>1. CASE OnFile \/ OnUnlock \/ OnArea \/ OnAddress \/ OnBytes \/ OnReset
    BY <2>1, OptionTypes DEF OnFile, OnUnlock, OnArea, OnAddress, OnBytes, OnReset
  <2>2. CASE Decide
    BY <2>2, DecideTypes
  <2>3. CASE Open \/ ReadPart \/ WritePart \/ VerifyPart \/ Unreadable \/ Broken \/ Truncated \/ UnlockPart \/ ResetPart
    BY <2>3, OperationTypes
       DEF Open, ReadPart, WritePart, VerifyPart, Unreadable, Broken, Truncated, UnlockPart, ResetPart
  <2>4. CASE Again
    <3>1. Chosen' /\ Bounded' /\ Contents'
      BY <2>4 DEF TInv, Again, Chosen, Bounded, Contents, Areas
    <3> QED BY <3>1 DEF TInv
  <2>5. CASE UNCHANGED vars
    BY <2>5 DEF vars, optionVars, TInv, Chosen, Bounded, Contents
  <2> QED BY <2>1, <2>2, <2>3, <2>4, <2>5 DEF Next
<1> QED BY <1>1, <1>2, PTL DEF Spec

\* Every variable keeps its type: the address is always one of the memory, and a number of bytes
\* is never negative where an operation uses it (main.c:487-560).
THEOREM TypeCorrect == Spec => []TypeOK
<1>1. TInv => TypeOK
  <2> SUFFICES ASSUME TInv PROVE TypeOK
    OBVIOUS
  <2>1. start \in 0 .. MaxAddr
    BY InMemory DEF TInv, Bounded
  <2>2. bytes \in IF pc \in {"opened", "ok", "differs"} THEN Nat ELSE Int
    <3>1. \A n \in Counts : n \in Int
      BY InMemory
    <3>a. pc = "options" => bytes \in Counts \union {0}
      BY DEF TInv, Bounded
    <3>2. pc = "options" => bytes \in Int
      BY <3>1, <3>a
    <3>3. pc # "options" => bytes \in Nat
      BY DEF TInv, Bounded
    <3> QED BY <3>2, <3>3
  <2> QED BY <2>1, <2>2 DEF TInv, Chosen, Contents, TypeOK
<1> QED BY <1>1, TypeInvariant, PTL
-----------------------------------------------------------------------------
(***************************************************************************)
(* What is written lies in the area that was named.                        *)
(***************************************************************************)
\* As long as no address was given, address and number of bytes are those of the area; of an
\* address that was named last the area is the one it lies in.
Settled ==
  /\ named = "address" => byAddress
  /\ ~byAddress /\ pc = "options" => memtype = named /\ ~startSpec
  /\ ~byAddress /\ pc \in {"ready", "opened"} => memtype = named /\ start = Start[named] /\ bytes <= Size[named]
  /\ named = "address" /\ pc = "options" => memtype = "UNKNOWN"
  /\ named = "address" /\ pc \in {"ready", "opened"} =>
       IF memtype = "UNKNOWN" THEN \A a \in Areas : ~Inside(a, start)
       ELSE start \in Span(Start[memtype], IF memtype = "OPT" THEN OptWindow ELSE Size[memtype])

\* The area of an address: one it lies in, or none if it lies in none.
LEMMA AreaRight ==
  ASSUME NEW a \in Nat
  PROVE  IF AreaAt(a) = "UNKNOWN" THEN \A x \in Areas : ~Inside(x, a)
         ELSE a \in Span(Start[AreaAt(a)], IF AreaAt(a) = "OPT" THEN OptWindow ELSE Size[AreaAt(a)])
<1>0. /\ Start["OPT"] \in Nat /\ Size["OPT"] \in Nat /\ OptWindow \in Nat /\ Size["OPT"] <= OptWindow
      /\ Areas = {"RAM", "EEPROM", "FLASH", "OPT"}
  BY CommandLineAssumption, InMemory DEF Areas
<1>1. CASE Inside("RAM", a)
  BY <1>1 DEF AreaAt, Inside
<1>2. CASE ~Inside("RAM", a) /\ Inside("FLASH", a)
  BY <1>2 DEF AreaAt, Inside
<1>3. CASE ~Inside("RAM", a) /\ ~Inside("FLASH", a) /\ Inside("EEPROM", a)
  BY <1>3 DEF AreaAt, Inside
<1>4. CASE ~Inside("RAM", a) /\ ~Inside("FLASH", a) /\ ~Inside("EEPROM", a)
  <2>1. AreaAt(a) = IF a \in Span(Start["OPT"], OptWindow) THEN "OPT" ELSE "UNKNOWN"
    BY <1>4 DEF AreaAt
  <2>2. Inside("OPT", a) => a \in Span(Start["OPT"], OptWindow)
    BY <1>0 DEF Inside, Span
  <2> QED BY <1>0, <1>4, <2>1, <2>2
<1> QED BY <1>1, <1>2, <1>3, <1>4

\* Area and address follow what was named.
LEMMA SettledInvariant == Spec => []Settled
<1>1. Init => Settled
  BY DEF Init, Settled
<1>2. TInv /\ Settled /\ [Next]_vars => Settled'
  <2> SUFFICES ASSUME TInv, Settled, [Next]_vars PROVE Settled'
    OBVIOUS
  <2>0. Chosen /\ Bounded
    BY DEF TInv
  <2>1. CASE OnFile \/ OnUnlock \/ OnArea \/ OnAddress \/ OnBytes \/ OnReset
    BY <2>1 DEF OnFile, OnUnlock, OnArea, OnAddress, OnBytes, OnReset, Option, Settled, Areas
  <2>2. CASE Decide
    <3>0. pc = "options" /\ pc' \in {"failed", "ready"} /\ UNCHANGED <<named, byAddress>>
          /\ memtype' = Area /\ start' = (IF startSpec THEN start ELSE Start[Area])
          /\ bytes' = IF Area = "UNKNOWN" THEN bytes ELSE Clamped(Area)
      BY <2>2 DEF Decide
    <3>1. ASSUME ~byAddress
          PROVE  memtype' = named /\ start' = Start[named] /\ bytes' <= Size[named] /\ named # "address"
      <4>1. memtype = named /\ ~startSpec /\ named \in Areas /\ memtype # "UNKNOWN" /\ named # "address"
        BY <2>0, <3>0, <3>1 DEF Settled, Chosen, Areas
      <4>2. Clamped(named) <= Size[named]
        BY <2>0, <3>0, <4>1, ClampedBound DEF Bounded
      <4> QED BY <3>0, <4>1, <4>2 DEF Area
    <3>2. ASSUME named = "address"
          PROVE  IF memtype' = "UNKNOWN" THEN \A a \in Areas : ~Inside(a, start')
                 ELSE start' \in Span(Start[memtype'], IF memtype' = "OPT" THEN OptWindow ELSE Size[memtype'])
      <4>1. memtype' = AreaAt(start) /\ start' = start /\ start \in Nat
        BY <2>0, <3>0, <3>2, InMemory DEF Settled, Area, Bounded
      <4> QED BY <4>1, AreaRight
    <3> QED BY <2>0, <3>0, <3>1, <3>2 DEF Settled, Chosen, Inside
  <2>3. CASE Open \/ ReadPart \/ WritePart \/ VerifyPart \/ Unreadable \/ Broken \/ Truncated \/ UnlockPart \/ ResetPart
    <3>1. pc \in {"ready", "opened"}
      BY <2>3 DEF Open, ReadPart, WritePart, VerifyPart, Unreadable, Broken, Truncated, UnlockPart, ResetPart
    <3>2. UNCHANGED <<optionVars, named, byAddress>> /\ pc' # "options"
      BY <2>3, <3>1, OperationTypes
    <3> QED BY <3>1, <3>2 DEF optionVars, Settled, Inside
  <2>4. CASE Again
    BY <2>4 DEF Again, Settled
  <2>5. CASE UNCHANGED vars
    BY <2>5 DEF vars, optionVars, Settled, Inside
  <2> QED BY <2>1, <2>2, <2>3, <2>4, <2>5 DEF Next
<1> QED BY <1>1, <1>2, TypeInvariant, PTL DEF Spec

\* The keys a driver will use are those of the area the address lies in, whatever the options
\* and their order (main.c:503-516).
THEOREM KeysOfTheArea == Spec => []KeysFit
<1>1. TInv /\ Settled => KeysFit
  <2> SUFFICES ASSUME TInv, Settled, pc \in {"ready", "opened"}, byAddress => named = "address"
               PROVE  IF memtype = "UNKNOWN" THEN \A a \in Areas : start \notin Span(Start[a], Size[a])
                      ELSE \/ start \in Span(Start[memtype], IF memtype = "OPT" THEN OptWindow ELSE Size[memtype])
                           \/ ~byAddress /\ start = Start[memtype]
    BY DEF KeysFit
  <2>1. CASE byAddress
    BY <2>1 DEF Settled, Inside
  <2>2. CASE ~byAddress
    <3>1. memtype = named /\ named \in Areas
      BY <2>2 DEF Settled, TInv, Chosen
    <3> QED BY <2>2, <3>1 DEF Settled, Areas
  <2> QED BY <2>1, <2>2 DEF TInv, Chosen
<1> QED BY <1>1, TypeInvariant, SettledInvariant, PTL

\* What a WRITE or VERIFY takes from the file lies within the bytes asked for.
LEMMA ImageFits ==
  ASSUME TInv, pc = "opened", Readable
  PROVE  Length \in 0 .. bytes /\ DOMAIN Image \subseteq 0 .. Length - 1
<1>0. /\ bytes \in Nat /\ start \in Nat /\ start + bytes <= MaxAddr + 1 /\ MaxAddr \in Nat
      /\ bytesSpec \in BOOLEAN /\ IsFile(file)
  BY InMemory DEF TInv, Chosen, Bounded, Contents
<1>1. CASE file.raw
  <2>1. PICK n \in 0 .. MaxAddr + 1 : DOMAIN file.data = 0 .. n - 1
    BY <1>0, <1>1 DEF IsFile
  <2>2. Cardinality(DOMAIN file.data) = n /\ n \in Nat
    BY <1>0, <2>1, FS_Interval
  <2>3. Length = IF bytesSpec THEN bytes ELSE IF bytes < n THEN bytes ELSE n
    BY <1>1, <2>2 DEF Length, Smaller
  <2>4. DOMAIN Image = (0 .. n - 1) \intersect (0 .. bytes - 1)
    BY <1>0, <1>1, <2>1 DEF Image, Span
  <2> QED BY <1>0, <2>2, <2>3, <2>4
<1>2. CASE ~file.raw
  <2>0. DOMAIN file.data \subseteq start .. start + bytes - 1 /\ Length >= 0
    BY <1>2 DEF Readable, Span
  <2>1. DOMAIN Image = {a - start : a \in DOMAIN file.data}
    BY <1>2 DEF Image
  <2>2. DOMAIN Image \subseteq 0 .. bytes - 1
    BY <1>0, <2>0, <2>1
  <2>3. CASE DOMAIN file.data = {}
    <3>1. Length = -start /\ DOMAIN Image = {}
      BY <1>2, <2>1, <2>3 DEF Length
    <3> QED BY <1>0, <2>0, <3>1
  <2>4. CASE DOMAIN file.data # {}
    <3>1. Length = Max(DOMAIN Image) + 1 /\ DOMAIN Image # {}
      BY <1>2, <2>1, <2>4 DEF Length
    <3>2. DOMAIN Image \subseteq 0 .. bytes
      BY <1>0, <2>2
    <3>3. Max(DOMAIN Image) \in DOMAIN Image /\ \A y \in DOMAIN Image : Max(DOMAIN Image) >= y
      BY <1>0, <3>1, <3>2, Greatest
    <3> HIDE DEF Image
    <3> QED BY <1>0, <2>2, <3>1, <3>3
  <2> QED BY <2>3, <2>4
<1> QED BY <1>1, <1>2

\* A WRITE, complete or not, changes only bytes that were asked for.
LEMMA StoredWithin ==
  ASSUME TInv, pc = "opened", Readable, NEW n \in Int, n <= Length, mem' = Stored(n),
         NEW a \in 0 .. MaxAddr, mem'[a] # mem[a]
  PROVE  a \in Span(start, bytes)
<1>1. a \in Span(start, n)
  BY DEF Stored, TInv, Contents
<1>2. n <= bytes /\ bytes \in Nat /\ start \in Nat
  <2>1. Length \in 0 .. bytes /\ bytes \in Nat /\ start \in Nat
    BY ImageFits, InMemory DEF TInv, Bounded
  <2> HIDE DEF Length
  <2> QED BY <2>1
<1> QED BY <1>1, <1>2, InMemory DEF Span

\* An UNLOCK, complete or not, changes only option bytes, or what lies where they are sent.
LEMMA UnlockedWithin ==
  ASSUME TInv, NEW rop \in Rops, NEW n \in 0 .. OptionBytes, pc = "opened", mem' = Unlocked(UnlockData(rop), n),
         NEW a \in 0 .. MaxAddr, mem'[a] # mem[a]
  PROVE  a \in Span(start, OptionBytes)
<1>0. /\ start \in Nat /\ OptionBytes \in Nat /\ MaxAddr \in Nat
      /\ rop \in {"ROP_UNKNOWN", "ROP_STM8S", "ROP_STM8L"} /\ DOMAIN mem = 0 .. MaxAddr
  BY InMemory, CommandLineAssumption DEF TInv, Bounded, Contents
<1>1. a - start \in DOMAIN UnlockData(rop) /\ a < start + n
  BY <1>0 DEF Unlocked
<1>2. DOMAIN UnlockData(rop) \subseteq Nat
  <2>1. CASE rop = "ROP_STM8S"
    BY <1>0, <2>1 DEF UnlockData, Span
  <2>2. CASE rop = "ROP_STM8L"
    BY <2>2 DEF UnlockData
  <2>3. CASE rop = "ROP_UNKNOWN"
    BY <2>3 DEF UnlockData
  <2> QED BY <1>0, <2>1, <2>2, <2>3
<1> QED BY <1>0, <1>1, <1>2 DEF Span

\* Whatever the options, a run without an address changes nothing outside of the area that was
\* named last; only an UNLOCK may, by the option bytes that the area is too short for
\* (main.c:432-447, 510-554, 697-711).
THEOREM NamedArea == Spec => NamedAreaOnly
<1>1. TInv /\ Settled /\ [Next]_vars =>
        [~byAddress => \A a \in 0 .. MaxAddr : mem'[a] # mem[a] =>
           IF action = "UNLOCK" THEN a \in Span(Start[named], OptionBytes) ELSE Inside(named, a)]_vars
  <2> SUFFICES ASSUME TInv, Settled, Next, ~byAddress, NEW a \in 0 .. MaxAddr, mem'[a] # mem[a]
               PROVE  IF action = "UNLOCK" THEN a \in Span(Start[named], OptionBytes) ELSE Inside(named, a)
    OBVIOUS
  <2>1. /\ pc = "opened"
        /\ action = "UNLOCK" => a \in Span(start, OptionBytes)
        /\ action # "UNLOCK" => a \in Span(start, bytes)
    <3>1. pc = "opened"
      BY DEF Next, OnFile, OnUnlock, OnArea, OnAddress, OnBytes, OnReset, Option, Decide, Open, ReadPart,
             WritePart, VerifyPart, Unreadable, Broken, Truncated, UnlockPart, ResetPart, Again
    <3>2. CASE WritePart
      <4>1. action = "WRITE" /\ Readable /\ mem' = Stored(Length)
        BY <3>2 DEF WritePart
      <4>2. Length \in Int /\ Length <= Length
        BY <3>1, <4>1, ImageFits
      <4> HIDE DEF Length
      <4> QED BY <3>1, <4>1, <4>2, StoredWithin
    <3>3. CASE Broken
      <4>1. action \in {"WRITE", "UNLOCK"}
        BY <3>3 DEF Broken
      <4>2. CASE action = "WRITE"
        <5>1. Readable /\ \E n \in 0 .. Length - 1 : mem' = Stored(n)
          BY <3>3, <4>2 DEF Broken
        <5>2. Length \in Int
          BY <3>1, <5>1, ImageFits
        <5> HIDE DEF Length
        <5>3. PICK n \in 0 .. Length - 1 : mem' = Stored(n)
          BY <5>1
        <5>4. n \in Int /\ n <= Length
          BY <5>2
        <5> QED BY <3>1, <4>2, <5>1, <5>3, <5>4, StoredWithin
      <4>3. CASE action = "UNLOCK"
        <5>1. PICK rop \in Rops, n \in 0 .. OptionBytes - 1 : mem' = Unlocked(UnlockData(rop), n)
          BY <3>3, <4>3 DEF Broken
        <5>2. n \in 0 .. OptionBytes
          BY CommandLineAssumption
        <5> QED BY <3>1, <4>3, <5>1, <5>2, UnlockedWithin
      <4> QED BY <4>1, <4>2, <4>3
    <3>4. CASE UnlockPart
      <4>0. action = "UNLOCK"
        BY <3>4 DEF UnlockPart
      <4>1. PICK rop \in Rops : mem' = Unlocked(UnlockData(rop), OptionBytes)
        BY <3>4 DEF UnlockPart
      <4>2. OptionBytes \in 0 .. OptionBytes
        BY CommandLineAssumption
      <4> QED BY <3>1, <4>0, <4>1, <4>2, UnlockedWithin
    <3>5. WritePart \/ Broken \/ UnlockPart
      BY DEF Next, OnFile, OnUnlock, OnArea, OnAddress, OnBytes, OnReset, Option, Decide, Open, ReadPart,
             VerifyPart, Unreadable, Truncated, ResetPart, Again
    <3> QED BY <3>1, <3>2, <3>3, <3>4, <3>5
  <2>2. named \in Areas /\ start = Start[named] /\ bytes <= Size[named] /\ bytes \in Nat
    BY <2>1 DEF Settled, TInv, Chosen, Bounded
  <2>3. Size[named] \in Nat /\ Start[named] \in Nat
    BY <2>2, InMemory
  <2> QED BY <2>1, <2>2, <2>3 DEF Inside, Span
<1> QED BY <1>1, TypeInvariant, SettledInvariant, PTL DEF Spec, NamedAreaOnly
-----------------------------------------------------------------------------
(***************************************************************************)
(* What was read or written verifies.                                      *)
(***************************************************************************)
\* The bytes of the file that Image takes for n bytes from address s on are in the memory.
Agreement(s, n) ==
  IF file.raw THEN \A k \in DOMAIN file.data \intersect Span(0, n) : mem[s + k] = file.data[k]
  ELSE \A a \in DOMAIN file.data : mem[a] = file.data[a]

\* What READ or WRITE last did with the file holds; a verification that differs with the same
\* address and number met a gap.
Agreed ==
  /\ origin # Nothing => Agreement(origin.start, origin.n)
  /\ origin # Nothing /\ SameBytes /\ pc = "differs" => Span(0, Length) \ DOMAIN Image # {}

\* Agreement is what VERIFY compares.
LEMMA Compared ==
  ASSUME TInv
  PROVE  SetBytesEqual <=> Agreement(start, bytes)
<1>0. start \in Int /\ \A a \in DOMAIN file.data : a \in Int
  BY InMemory DEF TInv, Bounded, Contents, IsFile
<1>1. CASE file.raw
  BY <1>1 DEF SetBytesEqual, Agreement, Image
<1>2. CASE ~file.raw
  <2>1. \A a \in DOMAIN file.data : a - start \in DOMAIN Image /\ start + (a - start) = a
                                  /\ Image[a - start] = file.data[a]
    BY <1>0, <1>2 DEF Image
  <2>2. \A k \in DOMAIN Image : start + k \in DOMAIN file.data /\ Image[k] = file.data[start + k]
    BY <1>0, <1>2 DEF Image
  <2> HIDE DEF Image
  <2> QED BY <1>2, <2>1, <2>2 DEF SetBytesEqual, Agreement
<1> QED BY <1>1, <1>2

\* A READ makes file and memory agree.
LEMMA ReadAgrees ==
  ASSUME TInv, ReadPart
  PROVE  Agreement(start, bytes)'
<1>0. /\ file = [raw |-> file.raw, data |-> file.data] /\ mem' = mem /\ start' = start /\ bytes' = bytes
      /\ file' = [file EXCEPT !.data = IF file.raw THEN [k \in Span(0, bytes) |-> mem[start + k]]
                                       ELSE [a \in Span(start, bytes) |-> mem[a]]]
  BY DEF TInv, Contents, IsFile, ReadPart, optionVars
<1>1. file'.raw = file.raw
  BY <1>0
<1>2. file.raw => file'.data = [k \in Span(0, bytes) |-> mem[start + k]]
  BY <1>0
<1>3. ~file.raw => file'.data = [a \in Span(start, bytes) |-> mem[a]]
  BY <1>0
<1> QED BY <1>0, <1>1, <1>2, <1>3 DEF Agreement

\* A WRITE that ends makes file and memory agree.
LEMMA WriteAgrees ==
  ASSUME TInv, WritePart
  PROVE  Agreement(start, bytes)'
<1>0. /\ mem' = Stored(Length) /\ UNCHANGED <<file, start, bytes, bytesSpec>> /\ TInv'
      /\ Length \in 0 .. bytes /\ DOMAIN Image \subseteq 0 .. Length - 1
      /\ start \in Nat /\ bytes \in Nat /\ start + bytes <= MaxAddr + 1 /\ MaxAddr \in Nat
      /\ DOMAIN mem = 0 .. MaxAddr
  BY ImageFits, OperationTypes, InMemory DEF WritePart, optionVars, TInv, Bounded, Contents
<1>1. Image' = Image
  BY <1>0 DEF Image
<1>2. \A k \in DOMAIN Image : mem'[start + k] = Image[k]
  <2> SUFFICES ASSUME NEW k \in DOMAIN Image PROVE mem'[start + k] = Image[k]
    OBVIOUS
  <2>1. k \in Int /\ 0 <= k /\ k <= Length - 1 /\ Length \in Int /\ Length <= bytes
    BY <1>0
  <2> HIDE DEF Length, Image
  <2>2. start + k \in DOMAIN mem /\ start + k \in Span(start, Length) /\ (start + k) - start = k
    BY <1>0, <2>1 DEF Span
  <2> QED BY <1>0, <2>2 DEF Stored
<1>3. SetBytesEqual'
  BY <1>0, <1>1, <1>2 DEF SetBytesEqual
<1> QED BY <1>0, <1>3, Compared, PTL

\* Agreement is inductive.
LEMMA AgreedInvariant == Spec => []Agreed
<1>1. Init => Agreed
  BY DEF Init, Agreed
<1>2. TInv /\ Agreed /\ [Next]_vars => Agreed'
  <2> SUFFICES ASSUME TInv, Agreed, [Next]_vars PROVE Agreed'
    OBVIOUS
  <2>1. CASE UNCHANGED <<mem, file, origin>> /\ pc' # "differs"
    BY <2>1 DEF Agreed, Agreement
  <2>2. CASE VerifyPart
    <3>1. UNCHANGED <<optionVars, mem, file, origin>>
      BY <2>2 DEF VerifyPart
    <3>2. UNCHANGED <<SetBytesEqual, SameBytes, Length, Image>>
      BY <3>1 DEF optionVars, SetBytesEqual, SameBytes, Length, Image
    <3>3. ASSUME origin # Nothing, SameBytes, pc' = "differs"
          PROVE  Span(0, Length) \ DOMAIN Image # {}
      <4>1. SetBytesEqual
        BY <3>3, Compared DEF Agreed, SameBytes
      <4> QED BY <2>2, <3>3, <4>1 DEF VerifyPart
    <3>4. (origin # Nothing => Agreement(origin.start, origin.n))'
      BY <3>1 DEF Agreed, Agreement
    <3> HIDE DEF SameBytes, Length, Image
    <3> QED BY <3>1, <3>2, <3>3, <3>4 DEF Agreed
  <2>3. CASE ReadPart \/ WritePart
    <3>1. origin' = Done /\ pc' = "ok" /\ start' = start /\ bytes' = bytes
      BY <2>3 DEF ReadPart, WritePart, optionVars
    <3>2. origin'.start = start' /\ origin'.n = bytes'
      BY <3>1 DEF Done
    <3>3. Agreement(start, bytes)'
      BY <2>3, ReadAgrees, WriteAgrees
    <3> QED BY <3>1, <3>2, <3>3 DEF Agreed, Agreement
  <2>4. CASE UnlockPart \/ Broken \/ Truncated
    <3>1. pc' # "differs" /\ (origin' = Nothing \/ UNCHANGED <<mem, file, origin>>)
      BY <2>4 DEF UnlockPart, Broken, Truncated
    <3> QED BY <2>1, <3>1 DEF Agreed
  <2>5. CASE OnFile \/ OnUnlock \/ OnArea \/ OnAddress \/ OnBytes \/ OnReset
    BY <2>1, <2>5 DEF OnFile, OnUnlock, OnArea, OnAddress, OnBytes, OnReset, Option
  <2>6. CASE Decide \/ Open \/ Unreadable \/ ResetPart \/ Again
    BY <2>1, <2>6 DEF Decide, Open, Unreadable, ResetPart, Again
  <2>7. CASE UNCHANGED vars
    <3>1. UNCHANGED <<pc, mem, file, origin, start, bytes, bytesSpec>>
      BY <2>7 DEF vars, optionVars
    <3>2. UNCHANGED <<SameBytes, Length, Image>>
      BY <3>1 DEF SameBytes, Length, Image
    <3> HIDE DEF SameBytes, Length, Image
    <3> QED BY <3>1, <3>2 DEF Agreed, Agreement
  <2> QED BY <2>2, <2>3, <2>4, <2>5, <2>6, <2>7 DEF Next
<1> QED BY <1>1, <1>2, TypeInvariant, PTL DEF Spec

\* What one run read into the file or wrote from it, another verifies (main.c:594-688).
THEOREM ReadOrWrittenVerifies == Spec => []RoundTripVerified
<1>1. Agreed => RoundTripVerified
  BY DEF Agreed, RoundTripVerified, NoGaps
<1> QED BY <1>1, AgreedInvariant, PTL
=============================================================================
