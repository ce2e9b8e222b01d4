-------------------------- MODULE Stm8TargetProofs --------------------------
(***************************************************************************)
(* Lemmas about the operators of Stm8Target, for every value of its        *)
(* constants, and about sizes rounded up to units: what the proofs about   *)
(* the drivers have in common.                                             *)
(***************************************************************************)
EXTENDS Stm8Target, TLAPS

\* The initial states of the target have its types.
LEMMA TargetInitType ==
  ASSUME TargetInit
  PROVE  TargetTypeOK
<1>1. NoCell \in [blk : Blocks, data : Contents]
  BY TargetAssumption DEF NoCell, Blocks, Contents
<1> QED BY <1>1 DEF TargetInit, TargetTypeOK, Modes

\* Key bytes, whichever they are, keep the types.
LEMMA WriteKeysType ==
  ASSUME TargetTypeOK, NEW reg, NEW keys, WriteKeys(reg, keys), UNCHANGED memtype
  PROVE  TargetTypeOK'
BY DEF TargetTypeOK, WriteKeys, OpenedBy, LockBits

\* Data that arrive keep the types.
LEMMA WriteMemType ==
  ASSUME TargetTypeOK, NEW b \in Blocks, NEW data \in Contents, WriteMem(b, data),
         UNCHANGED memtype
  PROVE  TargetTypeOK'
<1>1. CASE memtype = "RAM"
  BY <1>1 DEF TargetTypeOK, WriteMem
<1>2. CASE memtype # "RAM" /\ busy' \in ProgTime
  BY <1>2, TargetAssumption DEF TargetTypeOK, WriteMem, EventBits
<1>3. CASE memtype # "RAM" /\ UNCHANGED <<mem, mode, stall, busy, cell>>
  BY <1>3 DEF TargetTypeOK, WriteMem, EventBits
<1> QED BY <1>1, <1>2, <1>3 DEF WriteMem

\* A sleeping period of the part keeps its types.
LEMMA SleepType ==
  ASSUME TargetTypeOK, Sleep, UNCHANGED memtype
  PROVE  TargetTypeOK'
<1>1. CASE busy = 1
  BY <1>1 DEF TargetTypeOK, Sleep, Programmed, EventBits, Modes
<1>2. CASE busy # 1
  BY <1>2 DEF TargetTypeOK, Sleep
<1> QED BY <1>1, <1>2

\* A reset keeps the types.
LEMMA ResetType ==
  ASSUME TargetTypeOK, Reset, UNCHANGED memtype
  PROVE  TargetTypeOK'
<1>1. NoCell \in [blk : Blocks, data : Contents]
  BY TargetAssumption DEF NoCell, Blocks, Contents
<1> QED BY <1>1 DEF TargetTypeOK, Reset, Modes

\* A sleeping period, and a reset, change one unit at most: the one that is being programmed.
LEMMA SleepChanges ==
  ASSUME TargetTypeOK, Sleep
  PROVE  /\ \A b \in Blocks : mem'[b] = mem[b] \/ (busy = 1 /\ b = cell.blk)
         /\ busy' = 0 \/ (busy' > 0 /\ busy > 0 /\ UNCHANGED cell)
         /\ busy = 0 => UNCHANGED targetVars
<1>1. CASE busy = 1
  BY <1>1 DEF TargetTypeOK, Sleep, Programmed
<1>2. CASE busy # 1
  BY <1>2 DEF TargetTypeOK, Sleep, targetVars
<1> QED BY <1>1, <1>2

\* So does a reset.
LEMMA ResetChanges ==
  ASSUME TargetTypeOK, Reset
  PROVE  /\ \A b \in Blocks : mem'[b] = mem[b] \/ (busy > 0 /\ b = cell.blk)
         /\ busy' = 0 /\ iapsr' = {} /\ mode' = "none"
         /\ busy = 0 => UNCHANGED mem
BY DEF TargetTypeOK, Reset
-----------------------------------------------------------------------------
\* A quotient: the block a byte lies in.
LEMMA Quotient ==
  ASSUME NEW n \in Nat, NEW d \in Nat, d > 0
  PROVE  n \div d \in Nat /\ (n \div d) * d <= n /\ n < (n \div d + 1) * d
OBVIOUS

\* Quotients keep the order, and a block lies below another one exactly when its bytes do.
LEMMA QuotientBelow ==
  ASSUME NEW n \in Nat, NEW d \in Nat, d > 0, NEW q \in Nat
  PROVE  n < q * d <=> n \div d < q
<1> DEFINE p == n \div d
<1>1. p \in Nat /\ p * d <= n /\ n < (p + 1) * d
  BY Quotient
<1>2. ASSUME p < q PROVE n < q * d
  <2>1. (p + 1) * d <= q * d
    BY <1>1, <1>2
  <2> QED BY <1>1, <2>1
<1>3. ASSUME n < q * d, p >= q PROVE FALSE
  <2>1. q * d <= p * d
    BY <1>1, <1>3
  <2> QED BY <1>1, <1>3, <2>1
<1> HIDE DEF p
<1>4. n < q * d <=> p < q
  BY <1>1, <1>2, <1>3
<1> QED BY <1>4 DEF p

\* A length rounded up to blocks covers exactly the blocks that hold a byte of it.
LEMMA RoundedUp ==
  ASSUME NEW n \in Nat, NEW d \in Nat, d > 0, NEW b \in Nat
  PROVE  /\ (n + d - 1) \div d \in Nat
         /\ b < (n + d - 1) \div d <=> b * d < n
<1> DEFINE m == n + d - 1
           r == m \div d
<1>0. m \in Nat /\ r \in Nat
  BY Quotient
<1>1. m < (b + 1) * d <=> r < b + 1
  BY <1>0, QuotientBelow
<1>2. (b + 1) * d = b * d + d /\ b * d \in Nat
  OBVIOUS
<1>3. m < (b + 1) * d <=> ~(b * d < n)
  BY <1>2
<1> HIDE DEF m, r
<1>4. r \in Nat /\ (b < r <=> b * d < n)
  BY <1>0, <1>1, <1>3
<1> QED BY <1>4 DEF m, r
=============================================================================
