----------------------------- MODULE Stm8Target -----------------------------
(***************************************************************************)
(* The STM8 under programming, as the drivers of stm8flash use it over     *)
(* SWIM: one memory area, divided in units that are programmed as a whole, *)
(* and the registers of the flash controller the drivers read and write.   *)
(* The chip is not part of the repository: every operator here is external *)
(* and is taken from the way the drivers (and their comments) rely on it.  *)
(* Its operators are conjuncts of the drivers' actions; each one says what *)
(* becomes of every variable of the target.                                *)
(*                                                                         *)
(* A unit is a flash block (flash_block_size bytes) for flash, EEPROM and  *)
(* RAM, and one byte for the option bytes, which are written one by one.   *)
(* Time passes only while the host sleeps: one usleep of a driver is one   *)
(* period, and a unit takes a number of periods in ProgTime to program.    *)
(***************************************************************************)
EXTENDS Integers

CONSTANTS
  Areas,      \* the memory areas that may be addressed
  NBlocks,    \* number of programming units of the area
  BlockSize,  \* bytes of a unit
  Byte,       \* byte values that are told apart
  Empty,      \* the value of an erased cell, 0x00
  Guarded,    \* units behind UBC or read-out protection
  ProgTime,   \* host sleeping periods that programming a unit may take
  HasNCR2     \* the part has the complementary register FLASH_NCR2

Blocks   == 0 .. NBlocks - 1
Offsets  == 0 .. BlockSize - 1
Contents == [Offsets -> Byte]

ASSUME TargetAssumption ==
  /\ Areas \subseteq {"RAM", "EEPROM", "FLASH", "OPT"} /\ Areas # {}
  /\ NBlocks \in Nat \ {0} /\ BlockSize \in Nat \ {0}
  /\ Empty \in Byte
  /\ Guarded \subseteq Blocks
  /\ ProgTime \subseteq Nat \ {0} /\ ProgTime # {}
  /\ HasNCR2 \in BOOLEAN
  /\ "OPT" \in Areas => BlockSize = 1

VARIABLES
  memtype, \* the area that is addressed, one and the same all the time
  mem,     \* the cells of the area
  iapsr,   \* FLASH_IAPSR: the bits that are set
  mode,    \* programming mode selected by FLASH_CR2 (and FLASH_NCR2)
  stall,   \* the CPU is stalled (DM_CSR2 bit 3)
  busy,    \* periods left until the current programming ends, 0 when idle
  cell     \* the unit being programmed and the contents sent for it

targetVars == <<mem, iapsr, mode, stall, busy, cell>>

Modes     == {"none", "std", "fast", "opt"}
LockBits  == {"PUL", "DUL"}               \* 0x02 and 0x08 of FLASH_IAPSR
EventBits == {"EOP", "WR_PG_DIS"}         \* 0x04 and 0x01 of FLASH_IAPSR

TargetTypeOK ==
  /\ memtype \in Areas
  /\ mem \in [Blocks -> Contents]
  /\ iapsr \subseteq LockBits \union EventBits
  /\ mode \in Modes
  /\ stall \in BOOLEAN
  /\ busy \in Nat
  /\ cell \in [blk : Blocks, data : Contents]

NoCell == [blk |-> 0, data |-> [o \in Offsets |-> Empty]]

TargetInit ==
  /\ memtype \in Areas
  /\ mem \in [Blocks -> Contents]
  /\ iapsr = {} /\ mode = "none" /\ stall = FALSE /\ busy = 0 /\ cell = NoCell

\* The lock that guards the area, and the key register that opens it.
AreaLock == IF memtype = "FLASH" THEN "PUL" ELSE "DUL"
KeyOrder(reg) == IF reg = "PUKR" THEN <<"56", "AE">> ELSE <<"AE", "56">>
OpenedBy(reg) == IF reg = "PUKR" THEN "PUL" ELSE "DUL"

\* Two key bytes written to a key register: they open its lock only in the right order.
WriteKeys(reg, keys) ==
  /\ iapsr' = IF keys = KeyOrder(reg) THEN iapsr \union {OpenedBy(reg)} ELSE iapsr
  /\ UNCHANGED <<mem, mode, stall, busy, cell>>

\* Reading FLASH_IAPSR clears the event bits: the drivers never clear EOP themselves.
ReadIapsr ==
  /\ iapsr' = iapsr \ EventBits
  /\ UNCHANGED <<mem, mode, stall, busy, cell>>

\* The lock bits written as 0 are cleared; none can be set this way.
AfterIapsrWrite(bits, v) == bits \ (LockBits \ v)

\* FLASH_CR2 selects mode m; a part with FLASH_NCR2 obeys only if that register gets
\* the complement too.
SelectedMode(m, complemented) == IF HasNCR2 /\ ~complemented THEN "none" ELSE m

\* What a finished programming leaves in a unit that held c: fast block programming does
\* not erase, so the bytes of a cell that was not empty are unpredictable.
Programmed(c, data, m) ==
  {d \in Contents : \A o \in Offsets : (m = "fast" /\ c[o] # Empty) \/ d[o] = data[o]}

\* Data written over SWIM. RAM takes it at once. A flash controller that is ready starts
\* programming; one that is busy drops the data; a protected or locked unit is refused
\* with WR_PG_DIS. A CPU that runs may reset the chip under the write, which is then lost.
Protected(b) == b \in Guarded \/ AreaLock \notin iapsr

WriteMem(b, data) ==
  \/ /\ memtype = "RAM"
     /\ mem' = [mem EXCEPT ![b] = data]
     /\ UNCHANGED <<iapsr, mode, stall, busy, cell>>
  \/ /\ memtype # "RAM" /\ busy = 0 /\ ~Protected(b) /\ mode # "none"
     /\ busy' \in ProgTime
     /\ cell' = [blk |-> b, data |-> data]
     /\ UNCHANGED <<mem, iapsr, mode, stall>>
  \/ /\ memtype # "RAM"
     /\ busy > 0 \/ Protected(b) \/ mode = "none" \/ ~stall
     /\ iapsr' = IF busy = 0 /\ Protected(b) THEN iapsr \union {"WR_PG_DIS"} ELSE iapsr
     /\ UNCHANGED <<mem, mode, stall, busy, cell>>

\* One sleeping period of the host. When the programming ends EOP is set, and a block
\* mode, unlike the option mode, is left.
Sleep ==
  \/ /\ busy = 1
     /\ busy' = 0
     /\ \E d \in Programmed(mem[cell.blk], cell.data, mode) :
          mem' = [mem EXCEPT ![cell.blk] = d]
     /\ iapsr' = iapsr \union {"EOP"}
     /\ mode' = IF mode = "opt" THEN "opt" ELSE "none"
     /\ UNCHANGED <<stall, cell>>
  \/ /\ busy # 1
     /\ busy' = IF busy = 0 THEN 0 ELSE busy - 1
     /\ UNCHANGED <<mem, iapsr, mode, stall, cell>>

\* A reset: the controller forgets its state, a unit under programming is left with
\* unpredictable contents.
Reset ==
  /\ \/ busy = 0 /\ UNCHANGED mem
     \/ busy > 0 /\ \E d \in Contents : mem' = [mem EXCEPT ![cell.blk] = d]
  /\ iapsr' = {} /\ mode' = "none" /\ stall' = FALSE /\ busy' = 0 /\ cell' = NoCell
=============================================================================
