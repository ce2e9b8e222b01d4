--------------------------- MODULE HexFilesProofs ---------------------------
(***************************************************************************)
(* Theorems about HexFiles: any image, any sizes of pages and records, any *)
(* addresses that are read back, any byte changed and any record lost.     *)
(*                                                                         *)
(* The first part is about the checksum, a sum over a set: a byte that     *)
(* changes changes it. The inductive invariant is TInv (types), then four  *)
(* parts that rest on it: Window (what was stored lies within the buffer   *)
(* and ends at greatest_addr), Damage (a damaged record that was not read  *)
(* yet is still there), Counted (the records read and those to come are    *)
(* as many as S5 says, or one less) and Laid (what was stored and what is  *)
(* still to come make up the image).                                       *)
(***************************************************************************)
EXTENDS HexFiles, NatLemmas, SequenceTheorems
-----------------------------------------------------------------------------
(***************************************************************************)
(* Checksums.                                                              *)
(***************************************************************************)
First(s) == CHOOSE x \in s : TRUE

\* What is to be added up over a set of positions, as ByteSum does it: SumFn(data) is a function
\* that adds up data over every set of positions.
SumStep(g, data, s) == IF s = {} THEN 0 ELSE data[First(s)] + g[s \ {First(s)}]
SumFn(data) == CHOOSE g : g = [s \in SUBSET DOMAIN data |-> SumStep(g, data, s)]

\* Sets of at most n positions.
UpTo(data, n) == {s \in SUBSET DOMAIN data : Cardinality(s) <= n}

\* The sum of all bytes is the value of that function.
LEMMA SumIsFn == \A data : ByteSum(data) = SumFn(data)[DOMAIN data]
BY DEF ByteSum, MapThenSumSet, MapThenFoldSet, SumFn, SumStep, First

\* One position less.
LEMMA OneLess ==
  ASSUME NEW s, IsFiniteSet(s), s # {}
  PROVE  /\ First(s) \in s /\ IsFiniteSet(s \ {First(s)})
         /\ Cardinality(s) \in Nat /\ Cardinality(s \ {First(s)}) = Cardinality(s) - 1 /\ Cardinality(s) > 0
<1>1. First(s) \in s
  BY DEF First
<1>2. Cardinality(s) \in Nat /\ Cardinality(s) # 0
  BY FS_CardinalityType, FS_EmptySet
<1> QED BY <1>1, <1>2, FS_RemoveElement

\* There is a sum for sets up to any number.
LEMMA SumsExist ==
  ASSUME NEW data, IsFiniteSet(DOMAIN data), NEW n \in Nat
  PROVE  \E g : g = [s \in UpTo(data, n) |-> SumStep(g, data, s)]
<1> DEFINE Sums(m) == \E g : g = [s \in UpTo(data, m) |-> SumStep(g, data, s)]
           Bad == {m \in Nat : ~Sums(m)}
<1>0. \A s \in SUBSET DOMAIN data : IsFiniteSet(s) /\ Cardinality(s) \in Nat
  BY FS_Subset, FS_CardinalityType
<1>1. SUFFICES ASSUME Bad # {} PROVE FALSE
  OBVIOUS
<1>2. PICK m \in Bad : \A k \in Bad : m <= k
  <2>1. Bad \in SUBSET Nat
    OBVIOUS
  <2> HIDE DEF Bad
  <2> QED BY <1>1, <2>1, Least
<1>3. CASE m = 0
  <2>1. \A s \in UpTo(data, 0) : s = {}
    BY <1>0, FS_EmptySet DEF UpTo
  <2> DEFINE g == [s \in UpTo(data, 0) |-> 0]
  <2>2. g = [s \in UpTo(data, 0) |-> SumStep(g, data, s)]
    BY <2>1 DEF SumStep
  <2>3. Sums(0)
    BY <2>2
  <2> QED BY <1>2, <1>3, <2>3
<1>4. CASE m # 0
  <2>1. m - 1 \in Nat /\ m - 1 \notin Bad
    BY <1>2, <1>4
  <2>2. Sums(m - 1)
    BY <2>1
  <2>3. PICK g : g = [s \in UpTo(data, m - 1) |-> SumStep(g, data, s)]
    BY <2>2
  <2> DEFINE h == [s \in UpTo(data, m) |-> SumStep(g, data, s)]
  <2>4. \A s \in UpTo(data, m) : s # {} => s \ {First(s)} \in UpTo(data, m - 1)
    BY <1>0, OneLess DEF UpTo
  <2>5. \A s \in UpTo(data, m - 1) : s \in UpTo(data, m) /\ g[s] = SumStep(g, data, s)
    BY <1>0, <2>3 DEF UpTo
  <2>6. \A s \in UpTo(data, m - 1) : h[s] = g[s]
    BY <2>5
  <2>7. \A s \in UpTo(data, m) : SumStep(h, data, s) = SumStep(g, data, s)
    <3> HIDE DEF h
    <3> QED BY <2>4, <2>6 DEF SumStep
  <2>8. h = [s \in UpTo(data, m) |-> SumStep(h, data, s)]
    BY <2>7
  <2>9. Sums(m)
    <3> HIDE DEF h
    <3> QED BY <2>8
  <2> QED BY <1>2, <2>9
<1> QED BY <1>3, <1>4

\* The function of the sums satisfies its equation.
LEMMA SumEquation ==
  ASSUME NEW data, IsFiniteSet(DOMAIN data), NEW s \in SUBSET DOMAIN data
  PROVE  SumFn(data)[s] = IF s = {} THEN 0 ELSE data[First(s)] + SumFn(data)[s \ {First(s)}]
<1>1. UpTo(data, Cardinality(DOMAIN data)) = SUBSET DOMAIN data
  BY FS_Subset, FS_CardinalityType DEF UpTo
<1>2. \E g : g = [t \in SUBSET DOMAIN data |-> SumStep(g, data, t)]
  <2>1. Cardinality(DOMAIN data) \in Nat
    BY FS_CardinalityType
  <2>2. \E g : g = [t \in UpTo(data, Cardinality(DOMAIN data)) |-> SumStep(g, data, t)]
    BY <2>1, SumsExist
  <2> QED BY <1>1, <2>2
<1>3. SumFn(data) = [t \in SUBSET DOMAIN data |-> SumStep(SumFn(data), data, t)]
  BY <1>2 DEF SumFn
<1> HIDE DEF SumFn
<1>4. SumFn(data)[s] = SumStep(SumFn(data), data, s)
  BY <1>3
<1> QED BY <1>4 DEF SumStep

\* Something is true of the sums over all sets of positions if it is true of a set when it is
\* true of the set without its first position: of a set for which it is not there is a least.
LEMMA SmallestSet ==
  ASSUME NEW D, IsFiniteSet(D), NEW B \in SUBSET SUBSET D, B # {}
  PROVE  \E s \in B : s # {} => s \ {First(s)} \notin B
<1> DEFINE N == {Cardinality(s) : s \in B}
<1>0. \A s \in B : IsFiniteSet(s) /\ Cardinality(s) \in Nat
  BY FS_Subset, FS_CardinalityType
<1>1. N \in SUBSET Nat /\ N # {}
  BY <1>0
<1>2. PICK n \in N : \A k \in N : n <= k
  <2> HIDE DEF N
  <2> QED BY <1>1, Least
<1>3. PICK s \in B : Cardinality(s) = n
  BY <1>2
<1>4. ASSUME s # {}, s \ {First(s)} \in B PROVE FALSE
  <2>1. Cardinality(s \ {First(s)}) \in N
    BY <1>4
  <2>2. Cardinality(s \ {First(s)}) = n - 1 /\ n \in Nat
    BY <1>0, <1>3, <1>4, OneLess
  <2> QED BY <1>2, <2>1, <2>2
<1> QED BY <1>4

\* A sum of bytes is a natural number.
LEMMA SumNat ==
  ASSUME NEW data, IsFiniteSet(DOMAIN data), \A k \in DOMAIN data : data[k] \in Nat
  PROVE  ByteSum(data) \in Nat
<1> DEFINE B == {s \in SUBSET DOMAIN data : SumFn(data)[s] \notin Nat}
<1>1. ASSUME B # {} PROVE FALSE
  <2>1. PICK s \in B : s # {} => s \ {First(s)} \notin B
    <3>1. B \in SUBSET SUBSET DOMAIN data
      OBVIOUS
    <3> HIDE DEF B
    <3> QED BY <1>1, <3>1, SmallestSet
  <2>2. SumFn(data)[s] = IF s = {} THEN 0 ELSE data[First(s)] + SumFn(data)[s \ {First(s)}]
    BY SumEquation
  <2>3. s # {} => First(s) \in DOMAIN data /\ SumFn(data)[s \ {First(s)}] \in Nat
    BY <2>1 DEF First
  <2> QED BY <2>2, <2>3
<1>2. SumFn(data)[DOMAIN data] \in Nat
  BY <1>1
<1> QED BY <1>2, SumIsFn

\* One byte changed changes the sum by as much.
LEMMA SumChanged ==
  ASSUME NEW data, IsFiniteSet(DOMAIN data), \A k \in DOMAIN data : data[k] \in Nat,
         NEW j \in DOMAIN data, NEW b \in Nat, NEW other, other = [data EXCEPT ![j] = b]
  PROVE  ByteSum(other) = ByteSum(data) + b - data[j]
<1>0. DOMAIN other = DOMAIN data /\ \A k \in DOMAIN data : other[k] = IF k = j THEN b ELSE data[k]
  OBVIOUS
<1> DEFINE Sum(s)   == SumFn(data)[s]
           Other(s) == SumFn(other)[s]
           More(s)  == IF j \in s THEN b - data[j] ELSE 0
           B == {s \in SUBSET DOMAIN data : ~(Sum(s) \in Nat /\ Other(s) = Sum(s) + More(s))}
<1>1. ASSUME B # {} PROVE FALSE
  <2>1. PICK s \in B : s # {} => s \ {First(s)} \notin B
    <3>1. B \in SUBSET SUBSET DOMAIN data
      OBVIOUS
    <3> HIDE DEF B
    <3> QED BY <1>1, <3>1, SmallestSet
  <2>2. Sum(s) = IF s = {} THEN 0 ELSE data[First(s)] + Sum(s \ {First(s)})
    BY SumEquation
  <2>3. Other(s) = IF s = {} THEN 0 ELSE other[First(s)] + Other(s \ {First(s)})
    BY <1>0, SumEquation
  <2>4. ~(Sum(s) \in Nat /\ Other(s) = Sum(s) + More(s)) /\ s \in SUBSET DOMAIN data
    BY <2>1
  <2>5. CASE s = {}
    <3>1. Sum(s) = 0 /\ Other(s) = 0 /\ More(s) = 0
      BY <2>2, <2>3, <2>5
    <3> HIDE DEF Sum, Other, More
    <3> QED BY <2>4, <3>1
  <2>6. CASE s # {}
    <3> DEFINE r == s \ {First(s)}
    <3>1. Sum(r) \in Nat /\ Other(r) = Sum(r) + More(r)
      BY <2>1, <2>4, <2>6
    <3>2. First(s) \in s /\ First(s) \in DOMAIN data
      BY <2>4, <2>6 DEF First
    <3>3. /\ Sum(s) = data[First(s)] + Sum(r) /\ Other(s) = other[First(s)] + Other(r)
          /\ data[First(s)] \in Nat /\ data[j] \in Nat
      BY <2>2, <2>3, <2>6, <3>2
    <3>4. CASE First(s) = j
      <4>1. More(s) = b - data[j] /\ More(r) = 0 /\ other[First(s)] = b /\ data[First(s)] = data[j]
        BY <1>0, <3>2, <3>4
      <4> HIDE DEF Sum, Other, More, r
      <4> QED BY <2>4, <3>1, <3>3, <4>1
    <3>5. CASE First(s) # j
      <4>1. More(s) = More(r) /\ other[First(s)] = data[First(s)] /\ More(s) \in Int
        BY <1>0, <3>2, <3>3, <3>5
      <4> HIDE DEF Sum, Other, More, r
      <4> QED BY <2>4, <3>1, <3>3, <4>1
    <3> QED BY <3>4, <3>5
  <2> QED BY <2>5, <2>6
<1>2. Sum(DOMAIN data) \in Nat /\ Other(DOMAIN data) = Sum(DOMAIN data) + b - data[j]
  BY <1>1
<1> QED BY <1>0, <1>2, SumIsFn
-----------------------------------------------------------------------------
(***************************************************************************)
(* The inductive invariant.                                                *)
(***************************************************************************)
Before == phase \in {"writing", "failed", "file"}

Numbers ==
  /\ format \in Formats /\ start \in 0 .. MaxEnd /\ end \in start .. MaxEnd
  /\ image \in [start .. end - 1 -> Byte]
  /\ phase \in {"writing", "failed", "file", "reading", "ok", "error"}
  /\ fate \in {"kept", "foreign", "byte", "noise", "lost"}
  /\ next \in start .. end /\ curEla \in -1 .. MaxEnd
  /\ phase \notin {"writing", "failed"} => next = end

\* The reader has not begun, or has come so far.
Reader ==
  /\ lo \in 0 .. MaxEnd /\ hi \in lo .. MaxEnd
  /\ buf \in [Memory -> Byte \union {Hole}]
  /\ offset \in 0 .. MaxEnd /\ greatest \in 0 .. MaxEnd
  /\ found \in Nat /\ expected \in Nat \union {Unknown}
  /\ Before => /\ fate = "kept" /\ offset = 0 /\ greatest = 0 /\ found = 0 /\ expected = Unknown
               /\ \A k \in DOMAIN buf : buf[k] = Hole

Records ==
  [type : -1 .. 9, len : Nat, addr : 0 .. MaxEnd, data : Seq(Nat)]
    \union [type : -1 .. 9, len : Nat, addr : 0 .. MaxEnd, data : Seq(Nat), sum : Int]

RecordOK(r) ==
  /\ IsData(r) => r.data \in Seq(Byte) /\ Len(r.data) > 0
  /\ format = "srec" /\ IsData(r) => r.type = DataType
  /\ format = "ihex" =>
       /\ r.type \in {-1, 0, 1, 2, 4} /\ r.addr + r.len <= Page
       /\ r.type = 0 => r.len = Len(r.data)
       /\ r.type = 4 => r.data[1] \in Nat /\ r.data[1] * Page \in 0 .. MaxEnd
       /\ r.type = 2 => r.data[1] \in Nat /\ r.data[1] * Segment \in 0 .. MaxEnd

FileType == file \in Seq(Records) /\ \A k \in DOMAIN file : RecordOK(file[k])

\* S-records hold a byte at least, and the last one of a file has no data.
Short ==
  /\ phase = "writing" /\ format = "srec" => Len(file) <= next - start
  /\ phase = "file" /\ format = "srec" => \A k \in DataRecords : k < Len(file)

TInv == Numbers /\ Reader /\ FileType /\ Short

\* What was stored lies within the buffer, and its last byte is the one before greatest.
Narrow == format = "ihex" \/ DataType = 1

Window ==
  Narrow => /\ \A k \in Filled : k \in 0 .. hi - lo - 1 /\ k + lo < greatest
            /\ IF Filled = {} THEN greatest = 0 ELSE greatest - lo - 1 \in Filled

Damage ==
  /\ fate = "noise" => format = "ihex" /\ phase # "ok"
  /\ fate = "noise" /\ phase = "reading" => \E k \in DOMAIN file : file[k].type = -1
  /\ format = "srec" /\ fate # "byte" => \A k \in DOMAIN file : file[k].type # -1 => SumIsRight(file[k])
  /\ format = "srec" /\ fate = "byte" => phase # "ok"
  /\ format = "srec" /\ fate = "byte" /\ phase = "reading" =>
       \E k \in DOMAIN file : file[k].type \in 1 .. 3 /\ ~SumIsRight(file[k])

\* A file of S-records: p records that say nothing, d records of data, their number and an end.
Shape(p, d, m) ==
  /\ Len(file) = p + d + 2
  /\ \A k \in 1 .. p : file[k].type \in {-1, 0}
  /\ \A k \in p + 1 .. p + d : file[k].type \in 1 .. 3
  /\ file[p + d + 1].type = 5 /\ file[p + d + 1].addr = m % Page /\ file[p + d + 1].len = 3
  /\ file[p + d + 2].type \in 7 .. 9

\* Of m records of data written d are not read yet.
ToCome(m) ==
  \/ /\ expected = Unknown
     /\ \E p \in 0 .. 2, d \in 0 .. m : Shape(p, d, m) /\ found + d = IF fate = "lost" THEN m - 1 ELSE m
  \/ /\ expected = m % Page /\ found = IF fate = "lost" THEN m - 1 ELSE m
     /\ \A k \in DOMAIN file : file[k].type \in 7 .. 9

Counted ==
  format = "srec" =>
    /\ phase = "writing" => \A k \in DOMAIN file : file[k].type = DataType
    /\ phase = "file" => \E m \in 0 .. end - start : Shape(1, m, m)
    /\ phase = "reading" => \E m \in 0 .. end - start : ToCome(m)
    /\ phase = "ok" => fate # "lost"

\* What a record makes of the upper part of the addresses.
NextBase(r, b) ==
  IF format = "ihex" /\ r.type = 4 THEN r.data[1] * Page
  ELSE IF format = "ihex" /\ r.type = 2 THEN r.data[1] * Segment ELSE b

\* The upper parts at all records of the file.
Layout(base) ==
  /\ base \in [1 .. Len(file) + 1 -> Nat] /\ base[1] = offset
  /\ \A k \in DOMAIN file : base[k + 1] = NextBase(file[k], base[k])
  /\ format = "srec" => \A k \in DOMAIN base : base[k] = 0
  /\ format = "ihex" /\ phase = "writing" =>
       IF curEla = -1 THEN file = <<>> ELSE base[Len(file) + 1] = curEla * Page

\* The data of the file at the addresses that they are meant for.
Parts(base) == {[addr |-> base[k] + file[k].addr, data |-> file[k].data] : k \in DataRecords}
Behind(q)   == q.addr + Len(q.data)

\* Every part is one of the image; every byte of the image was stored or is in a part.
Faithful(P) ==
  \A q \in P : /\ q.addr >= start /\ Behind(q) <= next
               /\ \A i \in DOMAIN q.data : q.data[i] = image[q.addr + i - 1]
Covered(P) ==
  \A a \in start .. next - 1 :
    \/ a >= lo /\ a - lo \in DOMAIN buf /\ buf[a - lo] = image[a]
    \/ \E q \in P : a \in q.addr .. Behind(q) - 1
Complete(P) == Faithful(P) /\ Covered(P)

\* Nothing but the image was stored.
OnlyImage ==
  \A k \in DOMAIN buf : buf[k] # Hole => k + lo \in start .. end - 1 /\ buf[k] = image[k + lo]

Whole == fate \in {"kept", "foreign"} /\ (format = "ihex" \/ DataType = 1)

Pending == OnlyImage /\ \E base : Layout(base) /\ Complete(Parts(base))
Laid ==
  Whole => /\ format = "ihex" => expected = Unknown /\ \A k \in DOMAIN file : file[k].type # -1
           /\ phase \notin {"failed", "error"} => Pending
           /\ phase = "ok" => file = <<>>
           /\ phase = "error" => ~(lo <= start /\ end <= hi)
-----------------------------------------------------------------------------
(***************************************************************************)
(* Addresses, records and sequences of records.                            *)
(***************************************************************************)
\* The numbers of the assumption.
LEMMA Given ==
  /\ Page \in Nat /\ Page > 1 /\ BigPage \in Nat /\ BigPage >= Page /\ Segment \in 1 .. Page
  /\ Page % Segment = 0 /\ Chunk \in 1 .. Page /\ MaxEnd \in Nat
  /\ Byte \subseteq 0 .. 255 /\ Formats \subseteq {"ihex", "srec"}
BY FilesAssumption

\* An address is its page and the place in it.
LEMMA Paged ==
  ASSUME NEW a \in Nat
  PROVE  /\ a % Page \in 0 .. Page - 1 /\ a \div Page \in Nat /\ (a \div Page) * Page \in Nat
         /\ a = (a \div Page) * Page + (a % Page) /\ a % Page <= a /\ (a \div Page) * Page <= a
         /\ a \div Page <= a
<1>1. Page \in Nat /\ Page > 1
  BY Given
<1>2. a % Page \in 0 .. Page - 1 /\ a = (a \div Page) * Page + (a % Page)
  BY <1>1
<1>3. a \div Page \in Nat
  BY <1>1
<1>4. (a \div Page) * Page \in Nat /\ (a \div Page) * Page >= a \div Page
  BY <1>1, <1>3
<1> QED BY <1>1, <1>2, <1>3, <1>4

\* A page counted in segments.
LEMMA Segmented ==
  ASSUME NEW d \in Nat
  PROVE  (d * (Page \div Segment)) * Segment = d * Page /\ Page \div Segment \in Nat
<1>1. /\ Page \in Nat /\ Segment \in Nat /\ Segment > 0 /\ Page % Segment = 0
  BY Given
<1>2. Page \div Segment \in Nat /\ Page = (Page \div Segment) * Segment
  BY <1>1
<1> QED BY <1>1, <1>2

\* A file and its records.
LEMMA FileFacts ==
  ASSUME NEW f \in Seq(Records)
  PROVE  /\ Len(f) \in Nat /\ DOMAIN f = 1 .. Len(f) /\ \A k \in DOMAIN f : f[k] \in Records
         /\ f = <<>> <=> Len(f) = 0
BY EmptySeq

\* One record more.
LEMMA Appended ==
  ASSUME NEW f \in Seq(Records), NEW r \in Records
  PROVE  /\ Append(f, r) \in Seq(Records) /\ Len(Append(f, r)) = Len(f) + 1 /\ f \o <<r>> = Append(f, r)
         /\ Append(f, r)[Len(f) + 1] = r /\ \A k \in 1 .. Len(f) : Append(f, r)[k] = f[k]
<1>1. Append(f, r) = f \o <<r>>
  BY AppendIsConcat
<1> QED BY <1>1, FileFacts

\* The first record less.
LEMMA Shorter ==
  ASSUME NEW f \in Seq(Records), f # <<>>
  PROVE  /\ Tail(f) \in Seq(Records) /\ Len(Tail(f)) = Len(f) - 1 /\ Len(f) > 0
         /\ Head(f) = f[1] /\ \A k \in 1 .. Len(f) - 1 : Tail(f)[k] = f[k + 1]
<1>1. Len(f) \in Nat \ {0}
  BY EmptySeq
<1> QED BY <1>1, HeadTailProperties

\* Two files, one behind the other.
LEMMA Joined ==
  ASSUME NEW a \in Seq(Records), NEW b \in Seq(Records)
  PROVE  /\ a \o b \in Seq(Records) /\ Len(a \o b) = Len(a) + Len(b)
         /\ \A k \in 1 .. Len(a) : (a \o b)[k] = a[k]
         /\ \A k \in 1 .. Len(b) : (a \o b)[Len(a) + k] = b[k]
<1>1. Len(a) \in Nat /\ Len(b) \in Nat
  BY FileFacts
<1>2. /\ a \o b \in Seq(Records) /\ Len(a \o b) = Len(a) + Len(b)
      /\ \A k \in 1 .. Len(a) + Len(b) : (a \o b)[k] = IF k <= Len(a) THEN a[k] ELSE b[k - Len(a)]
  BY ConcatProperties
<1>3. ASSUME NEW k \in 1 .. Len(a) PROVE (a \o b)[k] = a[k]
  BY <1>1, <1>2
<1>4. ASSUME NEW k \in 1 .. Len(b) PROVE (a \o b)[Len(a) + k] = b[k]
  <2>1. Len(a) + k \in 1 .. Len(a) + Len(b) /\ ~(Len(a) + k <= Len(a)) /\ Len(a) + k - Len(a) = k
    BY <1>1
  <2> QED BY <1>2, <2>1
<1> QED BY <1>2, <1>3, <1>4

\* A function on 1 .. n with records as values is a file.
LEMMA Listed ==
  ASSUME NEW n \in Nat, NEW f \in [1 .. n -> Records]
  PROVE  f \in Seq(Records) /\ Len(f) = n
<1>1. f \in Seq(Records)
  BY SeqDef
<1> QED BY <1>1, FileFacts

\* Bytes are numbers.
LEMMA ByteSeq ==
  ASSUME NEW data \in Seq(Byte)
  PROVE  /\ data \in Seq(Nat) /\ Len(data) \in Nat /\ DOMAIN data = 1 .. Len(data)
         /\ IsFiniteSet(DOMAIN data) /\ \A k \in DOMAIN data : data[k] \in Byte /\ data[k] \in 0 .. 255
<1>1. Byte \subseteq Nat /\ Byte \subseteq 0 .. 255
  BY Given
<1>2. data \in Seq(Nat)
  BY <1>1, SeqMonotonic
<1>3. Len(data) \in Nat /\ DOMAIN data = 1 .. Len(data) /\ \A k \in DOMAIN data : data[k] \in Byte
  OBVIOUS
<1>4. IsFiniteSet(DOMAIN data)
  BY <1>3, FS_Interval
<1> QED BY <1>1, <1>2, <1>3, <1>4

\* A checksum is a number.
LEMMA SumType ==
  ASSUME NEW data \in Seq(Nat), NEW len \in Nat, NEW addr \in Nat
  PROVE  SrecSum(len, addr, data) \in Int
<1>0. Len(data) \in Nat /\ DOMAIN data = 1 .. Len(data) /\ \A k \in DOMAIN data : data[k] \in Nat
  OBVIOUS
<1>1. IsFiniteSet(DOMAIN data) /\ \A k \in DOMAIN data : data[k] \in Nat
  BY <1>0, FS_Interval
<1>2. ByteSum(data) \in Nat
  BY <1>1, SumNat
<1>3. AddrSum(addr) \in Int
  BY Given DEF AddrSum
<1> QED BY <1>2, <1>3 DEF SrecSum

\* Numbers that differ by less than 256 differ in their last byte.
LEMMA ModDiffers ==
  ASSUME NEW x \in Int, NEW c \in 0 .. 255, NEW d \in 0 .. 255, c # d
  PROVE  255 - (x % 256) # 255 - ((x + c - d) % 256)
<1>1. x = 256 * (x \div 256) + (x % 256) /\ x \div 256 \in Int /\ x % 256 \in Int
  OBVIOUS
<1>2. /\ x + c - d = 256 * ((x + c - d) \div 256) + ((x + c - d) % 256)
      /\ (x + c - d) \div 256 \in Int /\ (x + c - d) % 256 \in Int
  OBVIOUS
<1> QED BY <1>1, <1>2

\* A byte that changed gives another checksum.
LEMMA SumDetects ==
  ASSUME NEW data \in Seq(Byte), NEW len \in Nat, NEW addr \in Nat,
         NEW j \in DOMAIN data, NEW b \in Byte, b # data[j], NEW other, other = [data EXCEPT ![j] = b]
  PROVE  SrecSum(len, addr, other) # SrecSum(len, addr, data)
<1>1. IsFiniteSet(DOMAIN data) /\ \A k \in DOMAIN data : data[k] \in Nat
  BY ByteSeq
<1>2. data[j] \in 0 .. 255 /\ b \in 0 .. 255
  BY ByteSeq, Given
<1>3. data[j] \in Nat /\ b \in Nat
  <2>1. 0 .. 255 \subseteq Nat
    OBVIOUS
  <2> QED BY <1>2, <2>1, Zenon
<1>4. ByteSum(data) \in Nat
  BY <1>1, SumNat
<1>5. ByteSum(other) = ByteSum(data) + b - data[j]
  BY <1>1, <1>3, SumChanged
<1>6. AddrSum(addr) \in Int
  BY Given DEF AddrSum
<1> DEFINE x == len + AddrSum(addr) + ByteSum(data)
<1>7. x \in Int /\ len + AddrSum(addr) + ByteSum(other) = x + b - data[j]
  BY <1>3, <1>4, <1>5, <1>6
<1>8. SrecSum(len, addr, data) = 255 - (x % 256)
  BY DEF SrecSum
<1> HIDE DEF x
<1>9. SrecSum(len, addr, other) = 255 - ((x + b - data[j]) % 256)
  BY <1>7 DEF SrecSum
<1>10. 255 - (x % 256) # 255 - ((x + b - data[j]) % 256)
  <2>1. \A y \in Int : \A c \in 0 .. 255 : \A d \in 0 .. 255 :
          c # d => 255 - (y % 256) # 255 - ((y + c - d) % 256)
    BY ModDiffers
  <2>2. x \in Int
    BY <1>7
  <2>3. \A c \in 0 .. 255 : \A d \in 0 .. 255 : c # d => 255 - (x % 256) # 255 - ((x + c - d) % 256)
    BY <2>1, <2>2, ZenonT(30)
  <2>4. \A d \in 0 .. 255 : b # d => 255 - (x % 256) # 255 - ((x + b - d) % 256)
    BY <1>2, <2>3, ZenonT(30)
  <2> QED BY <1>2, <2>4, Zenon
<1> QED BY <1>8, <1>9, <1>10
-----------------------------------------------------------------------------
(***************************************************************************)
(* Types.                                                                  *)
(***************************************************************************)
\* Records stay what they are while the format and the end do.
LEMMA KeepsFile ==
  ASSUME format' = format, end' = end, file' \in Seq(Records), \A k \in DOMAIN file' : RecordOK(file'[k])
  PROVE  FileType'
<1>1. \A k \in DOMAIN file' : RecordOK(file[k])'
  BY DEF RecordOK, IsData, DataType
<1> QED BY <1>1 DEF FileType

\* A record has a byte at least, and does not cross a page.
LEMMA ChunkLen ==
  ASSUME Numbers, next < end
  PROVE  /\ IhexLen \in 1 .. end - next /\ (next % Page) + IhexLen <= Page
         /\ MinOf(end - next, Chunk) \in 1 .. end - next
<1>1. next \in Nat /\ end \in Nat /\ end - next \in Nat /\ end - next >= 1
  BY Given DEF Numbers
<1>2. MinOf(end - next, Chunk) \in 1 .. end - next
  BY <1>1, Given DEF MinOf
<1>3. next % Page \in 0 .. Page - 1 /\ Page \in Nat
  BY <1>1, Paged, Given
<1>4. IhexLen = IF (next % Page) + MinOf(end - next, Chunk) > Page - 1 THEN Page - (next % Page)
                ELSE MinOf(end - next, Chunk)
  BY DEF IhexLen
<1> DEFINE m == MinOf(end - next, Chunk)
<1>5. m \in 1 .. end - next /\ IhexLen = IF (next % Page) + m > Page - 1 THEN Page - (next % Page) ELSE m
  BY <1>2, <1>4
<1> HIDE DEF m
<1>6. IhexLen \in 1 .. end - next /\ (next % Page) + IhexLen <= Page
  BY <1>1, <1>3, <1>5
<1> QED BY <1>2, <1>6

\* The bytes of a record are those of the image.
LEMMA BytesOf ==
  ASSUME Numbers, NEW n \in 1 .. end - next
  PROVE  /\ Bytes(n) \in Seq(Byte) /\ Len(Bytes(n)) = n /\ DOMAIN Bytes(n) = 1 .. n
         /\ \A i \in 1 .. n : Bytes(n)[i] = image[next + i - 1]
<1>1. \A i \in 1 .. n : next + i - 1 \in start .. end - 1
  BY Given DEF Numbers
<1>2. Bytes(n) \in [1 .. n -> Byte]
  BY <1>1 DEF Numbers, Bytes
<1>3. n \in Nat
  BY Given DEF Numbers
<1>4. Bytes(n) \in Seq(Byte)
  BY <1>2, <1>3, SeqDef
<1>5. Len(Bytes(n)) = n
  BY <1>2, <1>3, <1>4
<1> QED BY <1>2, <1>4, <1>5 DEF Bytes

\* What ihex_write writes.
DataRec == Ihex(0, next % Page, Bytes(IhexLen))
ElaRec  == Ihex(4, 0, <<next \div Page>>)

\* The data, and in front of it the page when that is another one: both are records.
LEMMA IhexRecords ==
  ASSUME Numbers, next < end, format = "ihex"
  PROVE  /\ DataRec \in Records /\ RecordOK(DataRec) /\ ElaRec \in Records /\ RecordOK(ElaRec)
         /\ DataRec.type = 0 /\ DataRec.addr = next % Page /\ DataRec.data = Bytes(IhexLen)
         /\ ElaRec.type = 4 /\ ElaRec.data[1] = next \div Page
<1>1. next \in Nat /\ next <= MaxEnd /\ MaxEnd \in Nat /\ Page \in Nat /\ Page > 1
  BY Given DEF Numbers
<1>2. /\ next % Page \in 0 .. MaxEnd /\ next \div Page \in Nat /\ (next \div Page) * Page \in 0 .. MaxEnd
  BY <1>1, Paged
<1>3. /\ IhexLen \in 1 .. end - next /\ (next % Page) + IhexLen <= Page
  BY ChunkLen
<1>4. /\ Bytes(IhexLen) \in Seq(Byte) /\ Bytes(IhexLen) \in Seq(Nat) /\ Len(Bytes(IhexLen)) = IhexLen
  BY <1>3, BytesOf, ByteSeq
<1>5. IhexLen \in Nat /\ IhexLen > 0
  BY <1>1, <1>3 DEF Numbers
<1> HIDE DEF Bytes, IhexLen
<1>6. DataRec = [type |-> 0, len |-> IhexLen, addr |-> next % Page, data |-> Bytes(IhexLen)]
  BY <1>4 DEF DataRec, Ihex
<1>7. ElaRec = [type |-> 4, len |-> 1, addr |-> 0, data |-> <<next \div Page>>]
  BY DEF ElaRec, Ihex
<1>8. DataRec \in Records
  BY <1>1, <1>2, <1>4, <1>5, <1>6 DEF Records
<1>9. RecordOK(DataRec)
  BY <1>1, <1>3, <1>4, <1>5, <1>6 DEF RecordOK, IsData
<1>10. <<next \div Page>> \in Seq(Nat) /\ <<next \div Page>>[1] = next \div Page
  BY <1>2
<1>11. ElaRec \in Records
  BY <1>1, <1>7, <1>10 DEF Records
<1>12. RecordOK(ElaRec)
  BY <1>1, <1>2, <1>7, <1>10 DEF RecordOK, IsData
<1> QED BY <1>6, <1>7, <1>8, <1>9, <1>10, <1>11, <1>12

\* What srec_write writes.
LEMMA SrecRecord ==
  ASSUME NEW type \in 0 .. 9, NEW width \in 2 .. 4, NEW addr \in 0 .. MaxEnd, NEW data \in Seq(Nat), Len(data) \in Nat
  PROVE  /\ Srec(type, width, addr, data) \in Records /\ SumIsRight(Srec(type, width, addr, data))
         /\ Srec(type, width, addr, data).type = type /\ Srec(type, width, addr, data).addr = addr
         /\ Srec(type, width, addr, data).data = data /\ Srec(type, width, addr, data).len = Len(data) + width + 1
<1> DEFINE len == Len(data) + width + 1
           r == Srec(type, width, addr, data)
<1>1. len \in Nat /\ addr \in Nat /\ MaxEnd \in Nat
  BY Given
<1>2. r = [type |-> type, len |-> len, addr |-> addr, data |-> data, sum |-> SrecSum(len, addr, data)]
  BY DEF Srec
<1>3. SrecSum(len, addr, data) \in Int
  BY <1>1, SumType
<1> HIDE DEF len, r
<1>4. r \in Records
  BY <1>1, <1>2, <1>3 DEF Records
<1>5. SumIsRight(r)
  BY <1>2 DEF SumIsRight
<1> QED BY <1>2, <1>4, <1>5 DEF r, len

\* Records without data.
LEMMA EmptyRecords ==
  /\ \A type \in 0 .. 9, width \in 2 .. 4, addr \in 0 .. MaxEnd :
       /\ Srec(type, width, addr, <<>>) \in Records /\ SumIsRight(Srec(type, width, addr, <<>>))
       /\ Srec(type, width, addr, <<>>).type = type /\ Srec(type, width, addr, <<>>).addr = addr
       /\ Srec(type, width, addr, <<>>).len = width + 1
  /\ Ihex(1, 0, <<>>) \in Records /\ Ihex(1, 0, <<>>).type = 1 /\ Ihex(1, 0, <<>>).len = 0
  /\ Ihex(1, 0, <<>>).addr = 0
<1>1. PICK d \in Seq(Nat) : d = <<>> /\ Len(d) = 0
  <2>1. <<>> \in Seq(Nat) /\ Len(<<>>) = 0
    BY EmptySeq
  <2> QED BY <2>1, Zenon
<1>2. ASSUME NEW type \in 0 .. 9, NEW width \in 2 .. 4, NEW addr \in 0 .. MaxEnd
      PROVE  /\ Srec(type, width, addr, d) \in Records /\ SumIsRight(Srec(type, width, addr, d))
             /\ Srec(type, width, addr, d).type = type /\ Srec(type, width, addr, d).addr = addr
             /\ Srec(type, width, addr, d).len = width + 1
  <2> DEFINE r == Srec(type, width, addr, d)
  <2>0. d \in Seq(Nat) /\ Len(d) \in Nat
    BY <1>1
  <2>1. r \in Records /\ SumIsRight(r) /\ r.type = type /\ r.addr = addr /\ r.len = Len(d) + width + 1
    <3>1. r \in Records /\ SumIsRight(r)
      BY <2>0, SrecRecord, SMTT(30)
    <3>2. r.type = type
      BY <2>0, SrecRecord, SMTT(30)
    <3>3. r.addr = addr
      BY <2>0, SrecRecord, SMTT(30)
    <3>4. r.len = Len(d) + width + 1
      BY DEF Srec
    <3> QED BY <3>1, <3>2, <3>3, <3>4
  <2>2. Len(d) + width + 1 = width + 1
    BY <1>1
  <2> QED BY <2>1, <2>2
<1> DEFINE r == Ihex(1, 0, d)
<1>3. r = [type |-> 1, len |-> 0, addr |-> 0, data |-> d] /\ 0 \in 0 .. MaxEnd
  BY <1>1, Given DEF Ihex
<1>4. r \in Records /\ r.type = 1 /\ r.len = 0 /\ r.addr = 0
  <2> HIDE DEF r
  <2> QED BY <1>3 DEF Records
<1>5. \A type \in 0 .. 9, width \in 2 .. 4, addr \in 0 .. MaxEnd :
        /\ Srec(type, width, addr, d) \in Records /\ SumIsRight(Srec(type, width, addr, d))
        /\ Srec(type, width, addr, d).type = type /\ Srec(type, width, addr, d).addr = addr
        /\ Srec(type, width, addr, d).len = width + 1
  BY <1>2, Zenon
<1> HIDE DEF Srec, Ihex
<1>6. d = <<>>
  BY <1>1
<1>7. \A type \in 0 .. 9, width \in 2 .. 4, addr \in 0 .. MaxEnd :
        /\ Srec(type, width, addr, <<>>) \in Records /\ SumIsRight(Srec(type, width, addr, <<>>))
        /\ Srec(type, width, addr, <<>>).type = type /\ Srec(type, width, addr, <<>>).addr = addr
        /\ Srec(type, width, addr, <<>>).len = width + 1
  BY <1>5, <1>6, Zenon
<1>8. /\ Ihex(1, 0, <<>>) \in Records /\ Ihex(1, 0, <<>>).type = 1 /\ Ihex(1, 0, <<>>).len = 0
      /\ Ihex(1, 0, <<>>).addr = 0
  BY <1>4, <1>6, Zenon
<1> QED BY <1>7, <1>8

\* The file after a step of ihex_write.
LEMMA IhexFile ==
  ASSUME TInv, IhexChunk
  PROVE  IF curEla = next \div Page THEN file' = Append(file, DataRec)
         ELSE file' = Append(Append(file, ElaRec), DataRec)
<1>0. Numbers /\ next < end /\ format = "ihex" /\ file \in Seq(Records)
  BY DEF TInv, FileType, IhexChunk
<1>1. DataRec \in Records /\ ElaRec \in Records
  BY <1>0, IhexRecords
<1>2. file' = (file \o (IF curEla = next \div Page THEN <<>> ELSE <<ElaRec>>)) \o <<DataRec>>
  BY DEF IhexChunk, NewPage, ElaRec, DataRec
<1> HIDE DEF ElaRec, DataRec
<1>3. CASE curEla = next \div Page
  <2>1. file \o <<>> = file
    BY <1>0, ConcatEmptySeq
  <2>2. file' = file \o <<DataRec>>
    BY <1>2, <1>3, <2>1
  <2> QED BY <1>0, <1>1, <1>3, <2>2, Appended
<1>4. CASE curEla # next \div Page
  <2>1. file \o <<ElaRec>> = Append(file, ElaRec) /\ Append(file, ElaRec) \in Seq(Records)
    BY <1>0, <1>1, Appended
  <2>2. file' = Append(file, ElaRec) \o <<DataRec>>
    BY <1>2, <1>4, <2>1
  <2> QED BY <1>1, <1>4, <2>1, <2>2, Appended
<1> QED BY <1>3, <1>4

\* The header in front of a file and two records behind it.
LEMMA Wrapped ==
  ASSUME NEW f \in Seq(Records), NEW h \in Records, NEW c \in Records, NEW e \in Records,
         NEW g, g = <<h>> \o f \o <<c, e>>
  PROVE  /\ g \in Seq(Records) /\ Len(g) = Len(f) + 3 /\ g[1] = h
         /\ \A k \in 1 .. Len(f) : g[k + 1] = f[k]
         /\ g[Len(f) + 2] = c /\ g[Len(f) + 3] = e
<1>1. /\ <<h>> \in Seq(Records) /\ Len(<<h>>) = 1 /\ <<h>>[1] = h
      /\ <<c, e>> \in Seq(Records) /\ Len(<<c, e>>) = 2 /\ <<c, e>>[1] = c /\ <<c, e>>[2] = e
  OBVIOUS
<1> DEFINE a == <<h>> \o f
<1>2. a \in Seq(Records) /\ Len(a) = Len(f) + 1 /\ a[1] = h /\ \A k \in 1 .. Len(f) : a[k + 1] = f[k]
  <2>1. /\ a \in Seq(Records) /\ Len(a) = 1 + Len(f) /\ \A k \in 1 .. 1 : a[k] = <<h>>[k]
        /\ \A k \in 1 .. Len(f) : a[1 + k] = f[k]
    BY <1>1, Joined
  <2> HIDE DEF a
  <2>2. \A k \in 1 .. Len(f) : a[k + 1] = f[k]
    <3> SUFFICES ASSUME NEW k \in 1 .. Len(f) PROVE a[k + 1] = f[k]
      OBVIOUS
    <3>1. 1 + k = k + 1
      BY FileFacts
    <3> QED BY <2>1, <3>1
  <2> QED BY <1>1, <2>1, <2>2, FileFacts
<1>3. g = a \o <<c, e>>
  OBVIOUS
<1> HIDE DEF a
<1>4. /\ g \in Seq(Records) /\ Len(g) = Len(a) + 2 /\ \A k \in 1 .. Len(a) : g[k] = a[k]
      /\ \A k \in 1 .. 2 : g[Len(a) + k] = <<c, e>>[k]
  BY <1>1, <1>2, <1>3, Joined
<1>5. Len(f) \in Nat
  BY FileFacts
<1>6. Len(g) = Len(f) + 3 /\ g[1] = h
  BY <1>2, <1>4, <1>5
<1>7. \A k \in 1 .. Len(f) : g[k + 1] = f[k]
  BY <1>2, <1>4, <1>5
<1>8. g[Len(a) + 1] = c /\ g[Len(a) + 2] = e
  BY <1>1, <1>4
<1>9. Len(a) + 1 = Len(f) + 2 /\ Len(a) + 2 = Len(f) + 3
  BY <1>2, <1>5
<1>10. g[Len(f) + 2] = c /\ g[Len(f) + 3] = e
  BY <1>8, <1>9
<1> QED BY <1>4, <1>6, <1>7, <1>10

\* What srec_write writes for a chunk.
SrecLen == MinOf(end - next, Chunk)
SrecRec == Srec(DataType, DataType + 1, next, Bytes(SrecLen))

\* The file after a step of srec_write.
LEMMA SrecFile ==
  ASSUME TInv, SrecChunk
  PROVE  /\ file' = Append(file, SrecRec) /\ next' = next + SrecLen /\ SrecLen \in 1 .. end - next
         /\ SrecRec \in Records /\ RecordOK(SrecRec) /\ SumIsRight(SrecRec)
         /\ SrecRec.type = DataType /\ SrecRec.addr = next /\ SrecRec.data = Bytes(SrecLen)
<1> USE DEF SrecLen
<1>0. Numbers /\ next < end /\ format = "srec" /\ file' = Append(file, SrecRec) /\ next' = next + SrecLen
  BY DEF TInv, SrecChunk, SrecRec
<1>1. SrecLen \in 1 .. end - next
  BY <1>0, ChunkLen
<1>2. /\ Bytes(SrecLen) \in Seq(Byte) /\ Bytes(SrecLen) \in Seq(Nat)
      /\ Len(Bytes(SrecLen)) \in Nat /\ Len(Bytes(SrecLen)) > 0
  <2>1. SrecLen \in Nat /\ SrecLen > 0
    BY <1>0, <1>1, Given DEF Numbers
  <2> HIDE DEF SrecLen
  <2> QED BY <1>0, <1>1, <2>1, BytesOf, ByteSeq
<1>3. DataType \in 1 .. 3 /\ DataType \in 0 .. 9 /\ DataType + 1 \in 2 .. 4 /\ next \in 0 .. MaxEnd
  BY <1>0, Given DEF Numbers, DataType
<1> HIDE DEF SrecLen
<1>4. /\ SrecRec \in Records /\ SumIsRight(SrecRec)
      /\ SrecRec.type = DataType /\ SrecRec.addr = next /\ SrecRec.data = Bytes(SrecLen)
  BY <1>2, <1>3, SrecRecord, SMTT(30) DEF SrecRec
<1> HIDE DEF SrecRec
<1>5. RecordOK(SrecRec)
  BY <1>0, <1>2, <1>4 DEF RecordOK
<1> QED BY <1>0, <1>1, <1>4, <1>5

\* The file after the last step of srec_write.
LEMMA SrecFinished ==
  ASSUME TInv, SrecEnd
  PROVE  /\ file' \in Seq(Records) /\ Len(file') = Len(file) + 3
         /\ file'[1].type = 0 /\ SumIsRight(file'[1])
         /\ \A k \in 1 .. Len(file) : file'[k + 1] = file[k]
         /\ file'[Len(file) + 2].type = 5 /\ file'[Len(file) + 2].addr = Len(file) % Page
         /\ file'[Len(file) + 2].len = 3 /\ SumIsRight(file'[Len(file) + 2])
         /\ file'[Len(file) + 3].type \in 7 .. 9 /\ SumIsRight(file'[Len(file) + 3])
<1> DEFINE h == Srec(0, 2, 0, <<>>)
           c == Srec(5, 2, Len(file) % Page, <<>>)
           e == Srec(10 - DataType, DataType + 1, 0, <<>>)
<1>0. /\ Numbers /\ next >= end /\ format = "srec" /\ file' = <<h>> \o file \o <<c, e>>
      /\ file \in Seq(Records) /\ Len(file) \in Nat /\ Len(file) <= next - start
      /\ next \in Nat /\ start \in Nat /\ next <= MaxEnd /\ MaxEnd \in Nat
  BY Given, FileFacts DEF TInv, FileType, Short, Numbers, SrecEnd
<1>1. DataType \in 1 .. 3 /\ 10 - DataType \in 7 .. 9 /\ 10 - DataType \in 0 .. 9 /\ DataType + 1 \in 2 .. 4
  BY DEF DataType
<1>2. Len(file) % Page \in 0 .. MaxEnd
  <2>1. Len(file) \in Nat /\ Len(file) <= MaxEnd /\ MaxEnd \in Nat
    BY <1>0
  <2> QED BY <2>1, Paged
<1>3. 0 \in 0 .. MaxEnd /\ 0 \in 0 .. 9 /\ 5 \in 0 .. 9 /\ 2 \in 2 .. 4 /\ 2 + 1 = 3
  BY <1>0
<1>4. h \in Records /\ h.type = 0 /\ SumIsRight(h)
  BY <1>3, EmptyRecords, Zenon
<1>5. c \in Records /\ c.type = 5 /\ c.addr = Len(file) % Page /\ c.len = 3 /\ SumIsRight(c)
  <2>1. \A addr \in 0 .. MaxEnd :
          /\ Srec(5, 2, addr, <<>>) \in Records /\ SumIsRight(Srec(5, 2, addr, <<>>))
          /\ Srec(5, 2, addr, <<>>).type = 5 /\ Srec(5, 2, addr, <<>>).addr = addr
          /\ Srec(5, 2, addr, <<>>).len = 2 + 1
    BY <1>3, EmptyRecords, Zenon
  <2>2. /\ c \in Records /\ SumIsRight(c) /\ c.type = 5 /\ c.addr = Len(file) % Page /\ c.len = 2 + 1
    BY <1>2, <2>1, Zenon
  <2> QED BY <1>3, <2>2
<1>6. e \in Records /\ e.type \in 7 .. 9 /\ SumIsRight(e)
  <2>1. e \in Records /\ e.type = 10 - DataType /\ SumIsRight(e)
    BY <1>1, <1>3, EmptyRecords, Zenon
  <2> HIDE DEF e
  <2> QED BY <1>1, <2>1
<1> HIDE DEF h, c, e
<1>7. /\ file' \in Seq(Records) /\ Len(file') = Len(file) + 3 /\ file'[1] = h
      /\ \A k \in 1 .. Len(file) : file'[k + 1] = file[k]
      /\ file'[Len(file) + 2] = c /\ file'[Len(file) + 3] = e
  BY <1>0, <1>4, <1>5, <1>6, Wrapped
<1> QED BY <1>4, <1>5, <1>6, <1>7

\* The file when ihex_write fails.
LEMMA IhexFailed ==
  ASSUME TInv, IhexFails
  PROVE  file' = file \/ (next < end /\ ElaRec \in Records /\ RecordOK(ElaRec) /\ ElaRec.type = 4
                           /\ file' = Append(file, ElaRec))
<1>0. Numbers /\ format = "ihex" /\ file \in Seq(Records)
  BY DEF TInv, FileType, IhexFails
<1>1. file' = file \/ (next < end /\ file' = file \o (IF curEla = next \div Page THEN <<>> ELSE <<ElaRec>>))
  BY DEF IhexFails, NewPage, ElaRec
<1>2. next < end => ElaRec \in Records /\ RecordOK(ElaRec) /\ ElaRec.type = 4
  BY <1>0, IhexRecords
<1> HIDE DEF ElaRec
<1>3. file \o <<>> = file
  BY <1>0, ConcatEmptySeq
<1>4. next < end => file \o <<ElaRec>> = Append(file, ElaRec)
  BY <1>0, <1>2, Appended
<1> QED BY <1>1, <1>2, <1>3, <1>4

\* ihex_write and srec_write keep types.
LEMMA WritingTypes ==
  ASSUME TInv, IhexChunk \/ IhexEnd \/ IhexFails \/ SrecChunk \/ SrecEnd
  PROVE  TInv'
<1>0. /\ Numbers /\ Reader /\ FileType /\ Short /\ phase = "writing" /\ phase' \in {"writing", "failed", "file"}
      /\ UNCHANGED <<format, start, end, image, fate, readerVars>>
  BY DEF TInv, IhexChunk, IhexEnd, IhexFails, SrecChunk, SrecEnd, writerVars
<1>1. Reader'
  BY <1>0 DEF Reader, readerVars, Before
<1>2. /\ next \in Nat /\ start \in Nat /\ end \in Nat /\ next <= end /\ end <= MaxEnd /\ MaxEnd \in Nat
      /\ file \in Seq(Records) /\ Len(file) \in Nat /\ start <= next
  BY <1>0, Given, FileFacts DEF Numbers, FileType
<1>3. CASE IhexChunk
  <2>0. next < end /\ format = "ihex" /\ next' = next + IhexLen /\ curEla' = next \div Page /\ phase' = phase
    BY <1>3 DEF IhexChunk
  <2>1. IhexLen \in 1 .. end - next
    BY <1>0, <2>0, ChunkLen
  <2>2. curEla' \in 0 .. MaxEnd
    BY <1>2, <2>0, Paged
  <2>3. Numbers'
    <3> HIDE DEF IhexLen
    <3> QED BY <1>0, <1>2, <2>0, <2>1, <2>2 DEF Numbers
  <2>4. /\ DataRec \in Records /\ RecordOK(DataRec) /\ ElaRec \in Records /\ RecordOK(ElaRec)
    BY <1>0, <2>0, IhexRecords
  <2> HIDE DEF DataRec, ElaRec
  <2>5. file' \in Seq(Records) /\ \A k \in DOMAIN file' : RecordOK(file'[k])
    <3>1. /\ Append(file, ElaRec) \in Seq(Records)
          /\ \A k \in 1 .. Len(file) + 1 : RecordOK(Append(file, ElaRec)[k])
          /\ Len(Append(file, ElaRec)) = Len(file) + 1
      BY <1>0, <1>2, <2>4, Appended, FileFacts DEF FileType
    <3>2. CASE curEla = next \div Page
      <4>1. file' = Append(file, DataRec)
        BY <1>3, <3>2, IhexFile
      <4> QED BY <1>0, <1>2, <2>4, <4>1, Appended, FileFacts DEF FileType
    <3>3. CASE curEla # next \div Page
      <4>1. file' = Append(Append(file, ElaRec), DataRec)
        BY <1>3, <3>3, IhexFile
      <4> QED BY <1>2, <2>4, <3>1, <4>1, Appended, FileFacts
    <3> QED BY <3>2, <3>3
  <2>6. FileType'
    BY <1>0, <2>5, KeepsFile
  <2> QED BY <1>0, <1>1, <2>0, <2>3, <2>6 DEF TInv, Short
<1>4. CASE IhexEnd
  <2>0. next >= end /\ format = "ihex" /\ file' = Append(file, Ihex(1, 0, <<>>)) /\ phase' = "file"
        /\ UNCHANGED writerVars
    BY <1>4 DEF IhexEnd
  <2> DEFINE r == Ihex(1, 0, <<>>)
  <2>1. r \in Records /\ r.type = 1 /\ r.len = 0 /\ r.addr = 0
    BY EmptyRecords, Zenon
  <2> HIDE DEF r
  <2>2. RecordOK(r)
    BY <2>0, <2>1, Given DEF RecordOK, IsData
  <2>3. file' \in Seq(Records) /\ \A k \in DOMAIN file' : RecordOK(file'[k])
    <3>1. file' = Append(file, r)
      BY <2>0 DEF r
    <3> QED BY <1>0, <1>2, <2>1, <2>2, <3>1, Appended, FileFacts DEF FileType
  <2>4. FileType'
    BY <1>0, <2>3, KeepsFile
  <2>5. Numbers'
    BY <1>0, <1>2, <2>0 DEF Numbers, writerVars
  <2> QED BY <1>0, <1>1, <2>0, <2>4, <2>5 DEF TInv, Short
<1>5. CASE SrecChunk
  <2>0. next < end /\ format = "srec" /\ phase' = phase /\ curEla' = curEla
    BY <1>5 DEF SrecChunk
  <2>1. /\ file' = Append(file, SrecRec) /\ next' = next + SrecLen /\ SrecLen \in 1 .. end - next
        /\ SrecRec \in Records /\ RecordOK(SrecRec)
    BY <1>5, SrecFile
  <2>2. file' \in Seq(Records) /\ (\A k \in DOMAIN file' : RecordOK(file'[k])) /\ Len(file') = Len(file) + 1
    BY <1>0, <1>2, <2>1, Appended, FileFacts DEF FileType
  <2>3. FileType'
    BY <1>0, <2>2, KeepsFile
  <2>4. Numbers'
    BY <1>0, <1>2, <2>0, <2>1 DEF Numbers
  <2>5. Short'
    BY <1>0, <1>2, <2>0, <2>1, <2>2 DEF Short
  <2> QED BY <1>1, <2>3, <2>4, <2>5 DEF TInv
<1>6. CASE SrecEnd
  <2>0. next >= end /\ format = "srec" /\ phase' = "file" /\ UNCHANGED writerVars
    BY <1>6 DEF SrecEnd
  <2>1. /\ file' \in Seq(Records) /\ Len(file') = Len(file) + 3 /\ file'[1].type = 0
        /\ \A k \in 1 .. Len(file) : file'[k + 1] = file[k]
        /\ file'[Len(file) + 2].type = 5 /\ file'[Len(file) + 3].type \in 7 .. 9
    BY <1>6, SrecFinished
  <2>2. ASSUME NEW k \in DOMAIN file' PROVE RecordOK(file'[k]) /\ (file'[k].type \in 1 .. 3 => k < Len(file'))
    <3>1. k \in 1 .. Len(file) + 3
      BY <2>1, FileFacts
    <3>2. CASE k = 1 \/ k = Len(file) + 2 \/ k = Len(file) + 3
      <4>1. file'[k].type \notin 1 .. 3
        BY <2>1, <3>2
      <4> QED BY <2>0, <4>1 DEF RecordOK, IsData
    <3>3. CASE k \in 2 .. Len(file) + 1
      <4>1. k - 1 \in 1 .. Len(file) /\ (k - 1) + 1 = k
        BY <1>2, <3>3
      <4>2. file'[k] = file[k - 1]
        BY <2>1, <4>1
      <4> QED BY <1>0, <1>2, <2>1, <3>3, <4>1, <4>2, FileFacts DEF FileType
    <3> QED BY <1>2, <3>1, <3>2, <3>3
  <2>3. FileType'
    BY <1>0, <2>1, <2>2, KeepsFile
  <2>4. Numbers'
    BY <1>0, <1>2, <2>0 DEF Numbers, writerVars
  <2>5. \A k \in DataRecords' : k < Len(file')
    BY <1>0, <2>0, <2>2 DEF DataRecords, IsData
  <2> QED BY <1>1, <2>0, <2>3, <2>4, <2>5 DEF TInv, Short
<1>7. CASE IhexFails
  <2>0. format = "ihex" /\ phase' = "failed" /\ UNCHANGED writerVars
    BY <1>7 DEF IhexFails
  <2>1. file' = file \/ (ElaRec \in Records /\ RecordOK(ElaRec) /\ file' = Append(file, ElaRec))
    BY <1>7, IhexFailed
  <2> HIDE DEF ElaRec
  <2>2. file' \in Seq(Records) /\ \A k \in DOMAIN file' : RecordOK(file'[k])
    BY <1>0, <1>2, <2>1, Appended, FileFacts DEF FileType
  <2>3. FileType'
    BY <1>0, <2>2, KeepsFile
  <2>4. Numbers'
    BY <1>0, <2>0 DEF Numbers, writerVars
  <2> QED BY <1>0, <1>1, <2>0, <2>3, <2>4 DEF TInv, Short
<1> QED BY <1>3, <1>4, <1>5, <1>6, <1>7

\* The numbers of the state.
LEMMA Sizes ==
  ASSUME TInv
  PROVE  /\ start \in Nat /\ end \in Nat /\ next \in Nat /\ start <= next /\ next <= end /\ end <= MaxEnd
         /\ MaxEnd \in Nat /\ lo \in Nat /\ hi \in Nat /\ hi <= MaxEnd /\ offset \in Nat /\ greatest \in Nat
         /\ image \in [start .. end - 1 -> Byte] /\ DOMAIN buf = Memory
         /\ \A a \in start .. end - 1 : image[a] \in Byte /\ image[a] # Hole
<1>1. \A b \in Byte : b # Hole
  <2>1. Byte \subseteq 0 .. 255 /\ Hole \notin 0 .. 255
    BY Given DEF Hole
  <2> QED BY <2>1, Zenon
<1>2. image \in [start .. end - 1 -> Byte]
  BY DEF TInv, Numbers
<1>3. \A a \in start .. end - 1 : image[a] \in Byte /\ image[a] # Hole
  BY <1>1, <1>2
<1> QED BY <1>2, <1>3, Given DEF TInv, Numbers, Reader

\* The memory around the buffer.
LEMMA Cells ==
  /\ \A k \in Memory : k \in Int
  /\ 0 .. MaxEnd \subseteq Memory
BY Given DEF Memory

\* What happens to a file is open to it before it is read.
Opening == Kept \/ Foreign \/ OneLineAdded \/ OneByteChanged \/ OneRecordLost

\* The rest of the state when a file is opened.
LEMMA Opened ==
  ASSUME Opening
  PROVE  /\ phase = "file" /\ phase' = "reading" /\ fate' \in {"kept", "foreign", "byte", "noise", "lost"}
         /\ UNCHANGED <<writerVars, buf, offset, found, expected, greatest>>
         /\ UNCHANGED <<format, start, end, image, next, curEla>>
         /\ \E w \in Windows : lo' = w[1] /\ hi' = w[2]
BY DEF Opening, Kept, Foreign, OneLineAdded, OneByteChanged, OneRecordLost, OpenFile, writerVars

\* A segment address in place of a linear one.
LEMMA SegmentRecord ==
  ASSUME NEW r \in Records, RecordOK(r), format = "ihex"
  PROVE  /\ AsSegment(r) \in Records /\ RecordOK(AsSegment(r))
         /\ IF r.type = 4 THEN /\ AsSegment(r).type = 2 /\ AsSegment(r).data[1] * Segment = r.data[1] * Page
                           ELSE AsSegment(r) = r
<1>1. CASE r.type = 4
  <2>0. r.data \in Seq(Nat) /\ r.data[1] * Page \in 0 .. MaxEnd
    BY <1>1 DEF Records, RecordOK
  <2>1. r.data[1] \in Nat
    BY <1>1 DEF RecordOK
  <2> DEFINE d == r.data[1] * (Page \div Segment)
             q == AsSegment(r)
  <2>2. d \in Nat /\ d * Segment = r.data[1] * Page
    BY <2>1, Segmented
  <2> HIDE DEF d
  <2>3. q = [type |-> 2, len |-> 1, addr |-> 0, data |-> <<d>>]
    BY <1>1 DEF AsSegment, Ihex, d
  <2>4. <<d>> \in Seq(Nat) /\ <<d>>[1] = d
    BY <2>2
  <2> HIDE DEF q
  <2>5. q \in Records
    BY <2>3, <2>4, Given DEF Records
  <2>6. RecordOK(q)
    BY <2>0, <2>2, <2>3, <2>4, Given DEF RecordOK, IsData
  <2> QED BY <1>1, <2>2, <2>3, <2>4, <2>5, <2>6 DEF q
<1>2. CASE r.type # 4
  BY <1>2 DEF AsSegment
<1> QED BY <1>1, <1>2

\* The line that is no record.
LEMMA NoRecordType == NoRecord \in Records /\ RecordOK(NoRecord) /\ NoRecord.type = -1
<1>1. NoRecord.type = -1 /\ NoRecord.len = 0 /\ NoRecord.addr = 0
  BY DEF NoRecord
<1>2. NoRecord \in Records
  <2>1. PICK d \in Seq(Nat) : d = <<>>
    BY EmptySeq
  <2>2. NoRecord = [type |-> -1, len |-> 0, addr |-> 0, data |-> d]
    BY <2>1 DEF NoRecord
  <2>3. [type |-> -1, len |-> 0, addr |-> 0, data |-> d] \in Records
    BY Given DEF Records
  <2> QED BY <2>2, <2>3
<1>3. RecordOK(NoRecord)
  BY <1>1, Given DEF RecordOK, IsData
<1> QED BY <1>1, <1>2, <1>3

\* The records of the file that was written.
LEMMA FileWritten ==
  ASSUME TInv
  PROVE  /\ file \in Seq(Records) /\ Len(file) \in Nat /\ DOMAIN file = 1 .. Len(file)
         /\ \A k \in DOMAIN file : file[k] \in Records /\ RecordOK(file[k])
         /\ \A k \in DataRecords : k \in DOMAIN file /\ IsData(file[k])
         /\ phase = "file" /\ format = "srec" => \A k \in DataRecords : Len(file) - k \in DOMAIN file
<1>1. /\ file \in Seq(Records) /\ Len(file) \in Nat /\ DOMAIN file = 1 .. Len(file)
      /\ \A k \in DOMAIN file : file[k] \in Records /\ RecordOK(file[k])
  BY FileFacts DEF TInv, FileType
<1>2. phase = "file" /\ format = "srec" => \A k \in DataRecords : k < Len(file)
  BY DEF TInv, Short
<1> QED BY <1>1, <1>2 DEF DataRecords

\* A file of segments in place of pages.
LEMMA ForeignIhex ==
  ASSUME TInv, Foreign, format = "ihex"
  PROVE  /\ file' \in Seq(Records) /\ Len(file') = Len(file) /\ fate' = "foreign"
         /\ \A k \in DOMAIN file : file'[k] = AsSegment(file[k])
         /\ \A k \in DOMAIN file' : RecordOK(file'[k])
<1> DEFINE f == [k \in 1 .. Len(file) |-> AsSegment(file[k])]
<1>1. OpenFile(f, "foreign") /\ DOMAIN file = 1 .. Len(file)
  BY FileWritten DEF Foreign
<1>2. \A k \in 1 .. Len(file) : AsSegment(file[k]) \in Records /\ RecordOK(AsSegment(file[k]))
  BY FileWritten, SegmentRecord
<1>3. f \in [1 .. Len(file) -> Records] /\ \A k \in 1 .. Len(file) : f[k] = AsSegment(file[k]) /\ RecordOK(f[k])
  BY <1>2
<1> HIDE DEF f
<1>4. f \in Seq(Records) /\ Len(f) = Len(file)
  BY <1>3, FileWritten, Listed
<1>5. file' = f /\ fate' = "foreign"
  BY <1>1 DEF OpenFile
<1> QED BY <1>1, <1>3, <1>4, <1>5, FileFacts

\* A file of S-records in the opposite order, behind a comment.
LEMMA ForeignSrec ==
  ASSUME TInv, Foreign, format = "srec"
  PROVE  /\ file' \in Seq(Records) /\ Len(file') = Len(file) + 1 /\ fate' = "foreign" /\ file'[1] = NoRecord
         /\ \A k \in DOMAIN file : file'[k + 1] = IF k \in DataRecords THEN file[Len(file) - k] ELSE file[k]
         /\ \A k \in DOMAIN file' : RecordOK(file'[k])
<1> DEFINE g == [k \in 1 .. Len(file) |-> IF k \in DataRecords THEN file[Len(file) - k] ELSE file[k]]
           f == <<NoRecord>> \o g
<1>0. phase = "file" /\ OpenFile(f, "foreign") /\ DOMAIN file = 1 .. Len(file) /\ Len(file) \in Nat
  BY Opened, FileWritten DEF Opening, Foreign
<1>1. \A k \in 1 .. Len(file) : (IF k \in DataRecords THEN Len(file) - k ELSE k) \in DOMAIN file
  BY <1>0, FileWritten
<1>2. /\ g \in [1 .. Len(file) -> Records] /\ \A k \in 1 .. Len(file) : RecordOK(g[k])
      /\ \A k \in 1 .. Len(file) : g[k] = IF k \in DataRecords THEN file[Len(file) - k] ELSE file[k]
  BY <1>1, FileWritten
<1> HIDE DEF g
<1>3. g \in Seq(Records) /\ Len(g) = Len(file)
  BY <1>0, <1>2, Listed
<1>4. <<NoRecord>> \in Seq(Records) /\ Len(<<NoRecord>>) = 1 /\ <<NoRecord>>[1] = NoRecord
  BY NoRecordType
<1>5. /\ f \in Seq(Records) /\ Len(f) = 1 + Len(g) /\ \A k \in 1 .. 1 : f[k] = <<NoRecord>>[k]
      /\ \A k \in 1 .. Len(g) : f[1 + k] = g[k]
  BY <1>3, <1>4, Joined
<1>6. file' = f /\ fate' = "foreign"
  BY <1>0 DEF OpenFile
<1> HIDE DEF f
<1>7. \A k \in 1 .. Len(file) : f[k + 1] = g[k]
  <2> SUFFICES ASSUME NEW k \in 1 .. Len(file) PROVE f[k + 1] = g[k]
    OBVIOUS
  <2>1. 1 + k = k + 1
    BY <1>0
  <2> QED BY <1>3, <1>5, <2>1
<1>8. ASSUME NEW k \in DOMAIN f PROVE RecordOK(f[k])
  <2>1. k \in 1 .. Len(file) + 1
    BY <1>0, <1>3, <1>5, FileFacts
  <2>2. CASE k = 1
    BY <1>4, <1>5, <2>2, NoRecordType
  <2>3. CASE k # 1
    <3>1. k - 1 \in 1 .. Len(file) /\ (k - 1) + 1 = k
      BY <1>0, <2>1, <2>3
    <3>2. f[k] = g[k - 1]
      BY <1>7, <3>1
    <3> QED BY <1>2, <3>1, <3>2
  <2> QED BY <2>2, <2>3
<1>9. Len(f) = Len(file) + 1 /\ f[1] = NoRecord
  BY <1>0, <1>3, <1>4, <1>5
<1> QED BY <1>0, <1>2, <1>5, <1>6, <1>7, <1>8, <1>9

\* A file with another line.
LEMMA LineAdded ==
  ASSUME TInv, OneLineAdded
  PROVE  /\ format = "ihex" /\ file' \in Seq(Records) /\ Len(file') = Len(file) + 1 /\ fate' = "noise"
         /\ \E k \in DOMAIN file' : file'[k].type = -1
         /\ \A k \in DOMAIN file' : RecordOK(file'[k])
<1>1. PICK k \in 1 .. Len(file) + 1 : format = "ihex" /\
        OpenFile([j \in 1 .. Len(file) + 1 |->
          IF j = k THEN NoRecord ELSE file[IF j < k THEN j ELSE j - 1]], "noise")
  BY DEF OneLineAdded
<1> DEFINE f == [j \in 1 .. Len(file) + 1 |-> IF j = k THEN NoRecord ELSE file[IF j < k THEN j ELSE j - 1]]
<1>2. Len(file) \in Nat /\ \A j \in 1 .. Len(file) + 1 : j # k => (IF j < k THEN j ELSE j - 1) \in DOMAIN file
  BY FileWritten
<1>3. f \in [1 .. Len(file) + 1 -> Records] /\ (\A j \in 1 .. Len(file) + 1 : RecordOK(f[j])) /\ f[k].type = -1
  BY <1>2, FileWritten, NoRecordType
<1>4. file' = f /\ fate' = "noise"
  BY <1>1 DEF OpenFile
<1> HIDE DEF f
<1>5. f \in Seq(Records) /\ Len(f) = Len(file) + 1
  BY <1>2, <1>3, Listed
<1> QED BY <1>1, <1>3, <1>4, <1>5, FileFacts

\* A file with another byte of data.
LEMMA ByteChanged ==
  ASSUME TInv, OneByteChanged
  PROVE  /\ file' \in Seq(Records) /\ Len(file') = Len(file) /\ fate' = "byte"
         /\ \A k \in DOMAIN file' : RecordOK(file'[k])
         /\ \E k \in DataRecords, j \in Nat, b \in Byte :
              /\ j \in DOMAIN file[k].data /\ b # file[k].data[j]
              /\ file'[k] = [file[k] EXCEPT !.data = [file[k].data EXCEPT ![j] = b]]
              /\ file'[k] \in Records /\ file'[k].type = file[k].type /\ file'[k].len = file[k].len
              /\ \A i \in DOMAIN file : i # k => file'[i] = file[i]
<1>1. PICK k \in DataRecords : \E j \in DOMAIN file[k].data : \E b \in Byte \ {file[k].data[j]} :
        OpenFile([file EXCEPT ![k].data[j] = b], "byte")
  BY DEF OneByteChanged
<1>2. PICK j \in DOMAIN file[k].data, b \in Byte :
        b # file[k].data[j] /\ OpenFile([file EXCEPT ![k].data[j] = b], "byte")
  BY <1>1
<1> DEFINE q == file[k]
           d == [q.data EXCEPT ![j] = b]
           r == [q EXCEPT !.data = d]
           f == [file EXCEPT ![k] = r]
<1>3. file' = f /\ fate' = "byte"
  BY <1>2 DEF OpenFile
<1>4. k \in 1 .. Len(file) /\ q \in Records /\ RecordOK(q) /\ IsData(q)
  BY FileWritten
<1>5. r \in Records /\ RecordOK(r) /\ r.type = q.type /\ r.len = q.len /\ j \in Nat
  <2>1. q.data \in Seq(Byte) /\ Len(q.data) > 0 /\ DOMAIN q.data = 1 .. Len(q.data)
    BY <1>4 DEF RecordOK
  <2>2. d \in Seq(Byte) /\ Len(d) = Len(q.data) /\ j \in Nat
    <3> HIDE DEF q
    <3> QED BY <1>2, <2>1, ExceptSeq DEF q
  <2>3. d \in Seq(Nat)
    <3> HIDE DEF d
    <3> QED BY <2>2, ByteSeq
  <2> HIDE DEF q, d, r
  <2>4. r \in Records /\ r.type = q.type /\ r.len = q.len /\ r.addr = q.addr /\ r.data = d
    BY <1>4, <2>3 DEF Records, r
  <2>5. (q.type # 4 /\ q.type # 2) \/ format # "ihex"
    BY <1>4 DEF IsData
  <2>6. RecordOK(r)
    BY <1>4, <2>1, <2>2, <2>4, <2>5 DEF RecordOK, IsData
  <2> QED BY <2>2, <2>4, <2>6
<1>6. r = [file[k] EXCEPT !.data = [file[k].data EXCEPT ![j] = b]]
  OBVIOUS
<1>7. r.type = file[k].type /\ r.len = file[k].len
  BY <1>5
<1> HIDE DEF r
<1>8. f \in Seq(Records) /\ Len(f) = Len(file) /\ \A i \in 1 .. Len(file) : f[i] = IF i = k THEN r ELSE file[i]
  BY <1>4, <1>5, FileWritten, ExceptSeq
<1> HIDE DEF f
<1>9. \A i \in DOMAIN f : RecordOK(f[i])
  BY <1>5, <1>8, FileWritten, FileFacts
<1>10. f[k] = r /\ \A i \in DOMAIN file : i # k => f[i] = file[i]
  BY <1>4, <1>8, FileWritten
<1> QED BY <1>2, <1>3, <1>5, <1>6, <1>7, <1>8, <1>9, <1>10, ZenonT(30)

\* A file with a record of data less.
LEMMA RecordLost ==
  ASSUME TInv, OneRecordLost
  PROVE  /\ file' \in Seq(Records) /\ Len(file') = Len(file) - 1 /\ fate' = "lost"
         /\ \E k \in DataRecords : \A j \in DOMAIN file' :
              /\ (IF j < k THEN j ELSE j + 1) \in DOMAIN file
              /\ file'[j] = file[IF j < k THEN j ELSE j + 1]
         /\ \A k \in DOMAIN file' : RecordOK(file'[k])
<1>1. PICK k \in DataRecords : OpenFile([j \in 1 .. Len(file) - 1 |-> file[IF j < k THEN j ELSE j + 1]], "lost")
  BY DEF OneRecordLost
<1> DEFINE f == [j \in 1 .. Len(file) - 1 |-> file[IF j < k THEN j ELSE j + 1]]
<1>2. Len(file) - 1 \in Nat /\ \A j \in 1 .. Len(file) - 1 : (IF j < k THEN j ELSE j + 1) \in DOMAIN file
  BY <1>1, FileWritten
<1>3. /\ f \in [1 .. Len(file) - 1 -> Records]
      /\ \A j \in 1 .. Len(file) - 1 : f[j] = file[IF j < k THEN j ELSE j + 1] /\ RecordOK(f[j])
  BY <1>2, FileWritten
<1>4. file' = f /\ fate' = "lost"
  BY <1>1 DEF OpenFile
<1> HIDE DEF f
<1>5. f \in Seq(Records) /\ Len(f) = Len(file) - 1 /\ DOMAIN f = 1 .. Len(file) - 1
  BY <1>2, <1>3, Listed
<1> QED BY <1>2, <1>3, <1>4, <1>5

\* What happens to a file keeps types.
LEMMA FateTypes ==
  ASSUME TInv, Opening
  PROVE  TInv'
<1>0. /\ Numbers /\ Reader /\ phase = "file" /\ phase' = "reading"
      /\ fate' \in {"kept", "foreign", "byte", "noise", "lost"}
      /\ UNCHANGED <<writerVars, buf, offset, found, expected, greatest>>
      /\ \E w \in Windows : lo' = w[1] /\ hi' = w[2]
  BY Opened DEF TInv
<1>1. file' \in Seq(Records) /\ \A k \in DOMAIN file' : RecordOK(file'[k])
  <2>1. CASE Kept
    BY <2>1, FileWritten DEF Kept, OpenFile
  <2>2. CASE Foreign
    <3>1. format = "ihex" \/ format = "srec"
      BY <2>2 DEF Foreign
    <3> QED BY <2>2, <3>1, ForeignIhex, ForeignSrec
  <2> QED BY <2>1, <2>2, LineAdded, ByteChanged, RecordLost DEF Opening
<1>2. FileType'
  BY <1>0, <1>1, KeepsFile DEF writerVars
<1>3. Numbers'
  BY <1>0 DEF Numbers, writerVars
<1>4. lo' \in 0 .. MaxEnd /\ hi' \in lo' .. MaxEnd
  <2>1. PICK w \in Windows : lo' = w[1] /\ hi' = w[2]
    BY <1>0
  <2>2. w[1] \in Int /\ w[2] \in Int /\ w[1] >= 0 /\ w[2] <= MaxEnd /\ w[1] <= w[2]
    BY <1>0, Given DEF Windows, Numbers
  <2> QED BY <2>1, <2>2, Given
<1>5. Reader'
  BY <1>0, <1>4 DEF Reader, Before
<1> QED BY <1>0, <1>2, <1>3, <1>5 DEF TInv, Short

\* What is stored are bytes.
LEMMA StoredType ==
  ASSUME Reader, NEW at \in Int, NEW data \in Seq(Byte)
  PROVE  Stored(at, data) \in [Memory -> Byte \union {Hole}]
<1>1. DOMAIN buf = Memory /\ \A k \in DOMAIN buf : buf[k] \in Byte \union {Hole}
  BY DEF Reader
<1>2. \A k \in Memory : k \in at .. at + Len(data) - 1 => data[k - at + 1] \in Byte
  <2> SUFFICES ASSUME NEW k \in Memory, k \in at .. at + Len(data) - 1 PROVE data[k - at + 1] \in Byte
    OBVIOUS
  <2>1. Len(data) \in Nat /\ DOMAIN data = 1 .. Len(data) /\ \A i \in DOMAIN data : data[i] \in Byte
    BY ByteSeq
  <2>2. k - at + 1 \in 1 .. Len(data)
    BY <2>1, Cells
  <2> QED BY <2>1, <2>2
<1> QED BY <1>1, <1>2 DEF Stored

\* What is left of a file when a line was read.
LEMMA LineRead ==
  ASSUME TInv, OneLine
  PROVE  /\ file' \in Seq(Records) /\ Len(file') = Len(file) - 1 /\ Len(file) > 0
         /\ Line \in Records /\ RecordOK(Line) /\ Line = file[1] /\ 1 \in DOMAIN file
         /\ \A k \in DOMAIN file' : k + 1 \in DOMAIN file /\ file'[k] = file[k + 1] /\ RecordOK(file'[k])
<1>1. file \in Seq(Records) /\ file # <<>> /\ file' = Tail(file) /\ \A k \in DOMAIN file : RecordOK(file[k])
  BY DEF TInv, FileType, OneLine
<1>2. /\ file' \in Seq(Records) /\ Len(file') = Len(file) - 1 /\ Len(file) > 0
      /\ Line = file[1] /\ \A k \in 1 .. Len(file) - 1 : file'[k] = file[k + 1]
  BY <1>1, Shorter DEF Line
<1>3. Len(file) \in Nat /\ DOMAIN file = 1 .. Len(file) /\ DOMAIN file' = 1 .. Len(file')
  BY <1>1, <1>2, FileFacts
<1>4. 1 \in DOMAIN file
  BY <1>2, <1>3
<1>5. \A k \in DOMAIN file' : k + 1 \in DOMAIN file /\ file'[k] = file[k + 1]
  BY <1>2, <1>3
<1> QED BY <1>1, <1>2, <1>4, <1>5, FileFacts

\* Reading the lines of a file keeps types.
LEMMA ReadingTypes ==
  ASSUME TInv, IhexLine \/ SrecData \/ SrecCount \/ SrecOther \/ FileEnds
  PROVE  TInv'
<1>0. /\ Numbers /\ Reader /\ FileType /\ phase = "reading" /\ phase' \in {"reading", "ok", "error"}
      /\ UNCHANGED <<writerVars, fate, lo, hi>>
  <2>1. CASE IhexLine
    BY <2>1 DEF TInv, IhexLine, OneLine
  <2>2. CASE SrecData \/ SrecCount \/ SrecOther \/ FileEnds
    BY <2>2 DEF TInv, SrecData, SrecCount, SrecOther, FileEnds, OneLine, readerVars
  <2> QED BY <2>1, <2>2
<1>1. Numbers'
  BY <1>0 DEF Numbers, writerVars
<1>2. FileType'
  <2>1. CASE FileEnds
    <3>1. file' = file /\ format' = format /\ end' = end
      BY <1>0, <2>1 DEF FileEnds, writerVars
    <3> QED BY <1>0, <3>1, KeepsFile DEF FileType
  <2>2. CASE OneLine
    <3>1. file' \in Seq(Records) /\ \A k \in DOMAIN file' : RecordOK(file'[k])
      BY <2>2, LineRead
    <3> QED BY <1>0, <3>1, KeepsFile DEF writerVars
  <2> QED BY <2>1, <2>2 DEF IhexLine, SrecData, SrecCount, SrecOther
<1>3. ASSUME /\ buf' \in [Memory -> Byte \union {Hole}]
             /\ offset' \in 0 .. MaxEnd /\ greatest' \in 0 .. MaxEnd
             /\ found' \in Nat /\ expected' \in Nat \union {Unknown}
      PROVE  TInv'
  <2>1. Reader'
    BY <1>0, <1>3 DEF Reader, Before
  <2> QED BY <1>0, <1>1, <1>2, <2>1 DEF TInv, Short
<1>4. /\ buf \in [Memory -> Byte \union {Hole}]
      /\ offset \in 0 .. MaxEnd /\ greatest \in 0 .. MaxEnd
      /\ found \in Nat /\ expected \in Nat \union {Unknown}
      /\ lo \in 0 .. MaxEnd /\ hi \in 0 .. MaxEnd /\ MaxEnd \in Nat
  BY <1>0, Given DEF Reader
<1>5. CASE IhexLine
  <2> DEFINE r == Line
             at == r.addr + offset
  <2>0. OneLine /\ format = "ihex" /\ UNCHANGED <<found, expected>>
    BY <1>5 DEF IhexLine
  <2>1. Line \in Records /\ RecordOK(Line)
    BY <2>0, LineRead
  <2>2. Line.addr \in 0 .. MaxEnd /\ Line.len \in Nat
    BY <2>1 DEF Records
  <2>3. CASE r.type = 2
    <3>1. offset' = Line.data[1] * Segment /\ UNCHANGED <<phase, buf, greatest>>
      BY <1>5, <2>3 DEF IhexLine, EsaBase
    <3>2. Line.data[1] * Segment \in 0 .. MaxEnd
      BY <2>0, <2>1, <2>3 DEF RecordOK
    <3> QED BY <1>3, <1>4, <2>0, <3>1, <3>2
  <2>4. CASE r.type = 4
    <3>1. offset' = Line.data[1] * Page /\ UNCHANGED <<phase, buf, greatest>>
      BY <1>5, <2>4 DEF IhexLine, ElaBase
    <3>2. Line.data[1] * Page \in 0 .. MaxEnd
      BY <2>0, <2>1, <2>4 DEF RecordOK
    <3> QED BY <1>3, <1>4, <2>0, <3>1, <3>2
  <2>5. CASE r.type = 0 /\ Fits(at, r.len)
    <3>1. /\ buf' = Stored(at - lo, Line.data) /\ UNCHANGED <<phase, offset>>
          /\ greatest' = (IF r.len = 0 THEN greatest ELSE Later(at + r.len))
      BY <1>5, <2>5 DEF IhexLine
    <3>2. Line.data \in Seq(Byte)
      BY <2>0, <2>1, <2>5 DEF RecordOK, IsData
    <3>3. at - lo \in Int
      BY <1>4, <2>2
    <3>4. buf' \in [Memory -> Byte \union {Hole}]
      BY <1>0, <3>1, <3>2, <3>3, StoredType
    <3>5. greatest' \in 0 .. MaxEnd
      BY <1>4, <2>2, <2>5, <3>1 DEF Fits, Later
    <3> QED BY <1>3, <1>4, <2>0, <3>1, <3>4, <3>5
  <2>6. CASE r.type \notin {2, 4} /\ ~(r.type = 0 /\ Fits(at, r.len))
    <3>1. UNCHANGED <<buf, offset, greatest>>
      BY <1>5, <2>6 DEF IhexLine
    <3> QED BY <1>3, <1>4, <2>0, <3>1
  <2> QED BY <2>3, <2>4, <2>5, <2>6
<1>6. CASE SrecData
  <2>0. OneLine /\ format = "srec" /\ Line.type \in 1 .. 3 /\ UNCHANGED <<offset, expected>>
    BY <1>6 DEF SrecData
  <2>1. Line \in Records /\ RecordOK(Line)
    BY <2>0, LineRead
  <2>2. Line.addr \in 0 .. MaxEnd /\ Line.data \in Seq(Byte)
    BY <2>0, <2>1 DEF Records, RecordOK, IsData
  <2>3. Len(Line.data) \in Nat
    BY <2>2, ByteSeq
  <2>4. CASE Fits(Line.addr, Len(Line.data))
    <3>1. /\ buf' = Stored(Line.addr - lo + DataShift(Line.type), Line.data)
          /\ greatest' = Later(Line.addr + Len(Line.data)) /\ found' = found + 1
      BY <1>6, <2>4 DEF SrecData
    <3>2. Line.addr - lo + DataShift(Line.type) \in Int
      BY <1>4, <2>0, <2>2 DEF DataShift
    <3>3. buf' \in [Memory -> Byte \union {Hole}]
      BY <1>0, <2>2, <3>1, <3>2, StoredType
    <3>4. greatest' \in 0 .. MaxEnd
      BY <1>4, <2>2, <2>3, <2>4, <3>1 DEF Fits, Later
    <3>5. found' \in Nat
      BY <1>4, <3>1
    <3> QED BY <1>3, <1>4, <2>0, <3>3, <3>4, <3>5
  <2>5. CASE ~Fits(Line.addr, Len(Line.data))
    <3>1. UNCHANGED <<buf, found, greatest>>
      BY <1>6, <2>5 DEF SrecData
    <3> QED BY <1>3, <1>4, <2>0, <3>1
  <2> QED BY <2>4, <2>5
<1>7. CASE SrecCount
  <2>0. OneLine /\ expected' = Line.addr /\ UNCHANGED <<buf, offset, found, greatest>>
    BY <1>7 DEF SrecCount
  <2>1. Line.addr \in Nat
    BY <1>4, <2>0, LineRead DEF Records
  <2> QED BY <1>3, <1>4, <2>0, <2>1
<1>8. CASE SrecOther \/ FileEnds
  <2>1. UNCHANGED <<buf, offset, found, expected, greatest>>
    BY <1>8 DEF SrecOther, FileEnds, readerVars
  <2> QED BY <1>3, <1>4, <2>1
<1> QED BY <1>5, <1>6, <1>7, <1>8

\* The program starts with such values.
LEMMA InitialTypes ==
  ASSUME Init PROVE TInv
<1>1. MaxEnd \in Nat
  BY Given
<1>2. Numbers
  BY <1>1 DEF Init, Numbers
<1>3. Reader
  BY <1>1 DEF Init, Reader, Before
<1>4. FileType
  <2>1. file = <<>>
    BY DEF Init
  <2>2. file \in Seq(Records) /\ Len(file) = 0
    BY <2>1, EmptySeq
  <2> QED BY <2>2, FileFacts DEF FileType
<1>5. Short
  BY <1>1 DEF Init, Short
<1> QED BY <1>2, <1>3, <1>4, <1>5 DEF TInv

\* What does not change keeps its type.
LEMMA StutterTypes ==
  ASSUME TInv, UNCHANGED vars PROVE TInv'
<1>0. UNCHANGED <<format, start, end, image, phase, next, curEla, file, fate, lo, hi, buf, offset, found, expected, greatest>>
  BY DEF vars, writerVars, readerVars
<1>1. FileType'
  BY <1>0, KeepsFile DEF TInv, FileType
<1> QED BY <1>0, <1>1 DEF TInv, Numbers, Reader, Before, Short, DataRecords, IsData

\* Every step keeps types.
LEMMA StepTypes ==
  ASSUME TInv, [Next]_vars PROVE TInv'
BY WritingTypes, FateTypes, ReadingTypes, StutterTypes DEF Next, Opening

\* The values of every variable, whatever the files hold.
LEMMA TypeInvariant == Spec => []TInv
<1>1. Init => TInv
  BY InitialTypes
<1>2. TInv /\ [Next]_vars => TInv'
  BY StepTypes
<1> QED BY <1>1, <1>2, PTL DEF Spec

\* Every variable keeps its type; TypeOK says so of the values of ihex.c and srec.c.
THEOREM TypeCorrect == Spec => []TypeOK
<1>1. TInv => TypeOK
  <2> SUFFICES ASSUME TInv PROVE TypeOK
    OBVIOUS
  <2>1. \A k \in DOMAIN file : file[k].type \in -1 .. 9 /\ file[k].addr \in 0 .. MaxEnd
    BY FileFacts DEF TInv, FileType, Records
  <2> QED BY <2>1 DEF TInv, Numbers, Reader, TypeOK
<1> QED BY <1>1, TypeInvariant, PTL

\* No record of Intel HEX crosses a page, neither one that was written nor one that was changed
\* since (ihex.c:143).
THEOREM RecordsWithinPage == Spec => []WithinPage
<1>1. TInv => WithinPage
  BY DEF TInv, FileType, RecordOK, WithinPage
<1> QED BY <1>1, TypeInvariant, PTL
-----------------------------------------------------------------------------
(***************************************************************************)
(* The addresses that are read.                                            *)
(***************************************************************************)
\* What ihex_read does with a line.
LEMMA IhexCases ==
  ASSUME TInv, IhexLine
  PROVE  /\ format = "ihex" /\ OneLine /\ UNCHANGED <<writerVars, fate, lo, hi, found, expected>>
         /\ \/ /\ Line.type \in {2, 4} /\ offset' = NextBase(Line, offset)
               /\ UNCHANGED <<phase, buf, greatest>>
            \/ /\ Line.type = 0 /\ Fits(Line.addr + offset, Line.len) /\ UNCHANGED <<phase, offset>>
               /\ buf' = Stored((Line.addr + offset) - lo, Line.data)
               /\ greatest' = Later(Line.addr + offset + Line.len)
               /\ Line.len = Len(Line.data) /\ Line.len \in Nat /\ Line.len > 0 /\ Line.data \in Seq(Byte)
               /\ Line.addr \in 0 .. MaxEnd
            \/ /\ Line.type = -1 \/ (Line.type = 0 /\ ~Fits(Line.addr + offset, Line.len))
               /\ Line.type = 0 => /\ Line.len = Len(Line.data) /\ Line.len \in Nat /\ Line.len > 0
                                   /\ Line.addr \in 0 .. MaxEnd
               /\ phase' = "error" /\ UNCHANGED <<buf, offset, greatest>>
            \/ /\ Line.type = 1 /\ UNCHANGED <<phase, buf, offset, greatest>>
<1>0. /\ format = "ihex" /\ OneLine /\ UNCHANGED <<writerVars, fate, lo, hi, found, expected>>
  BY DEF IhexLine
<1>1. Line \in Records /\ RecordOK(Line) /\ Line.type \in {-1, 0, 1, 2, 4}
  BY <1>0, LineRead DEF RecordOK
<1>2. CASE Line.type = 2
  <2>1. offset' = Line.data[1] * Segment /\ UNCHANGED <<phase, buf, greatest>>
    BY <1>2 DEF IhexLine, EsaBase
  <2> QED BY <1>0, <1>2, <2>1 DEF NextBase
<1>3. CASE Line.type = 4
  <2>1. offset' = Line.data[1] * Page /\ UNCHANGED <<phase, buf, greatest>>
    BY <1>3 DEF IhexLine, ElaBase
  <2> QED BY <1>0, <1>3, <2>1 DEF NextBase
<1>4. CASE Line.type = 0
  <2>1. /\ Line.data \in Seq(Byte) /\ Line.len = Len(Line.data) /\ Line.len \in Nat /\ Line.len > 0
        /\ Line.addr \in 0 .. MaxEnd
    <3>1. Line.data \in Seq(Byte) /\ Line.len = Len(Line.data) /\ Len(Line.data) > 0
      BY <1>0, <1>1, <1>4 DEF RecordOK, IsData
    <3>2. Line.len \in Nat /\ Line.addr \in 0 .. MaxEnd
      BY <1>1 DEF Records
    <3> QED BY <3>1, <3>2
  <2>2. CASE Fits(Line.addr + offset, Line.len)
    <3> DEFINE r == Line
               at == r.addr + offset
    <3>1. /\ buf' = Stored(at - lo, Line.data) /\ UNCHANGED <<phase, offset>>
          /\ greatest' = (IF r.len = 0 THEN greatest ELSE Later(at + r.len))
      BY <1>4, <2>2 DEF IhexLine
    <3>2. greatest' = Later(at + r.len)
      BY <2>1, <3>1
    <3>3. /\ Line.type = 0 /\ Fits(Line.addr + offset, Line.len) /\ UNCHANGED <<phase, offset>>
          /\ buf' = Stored((Line.addr + offset) - lo, Line.data)
          /\ greatest' = Later(Line.addr + offset + Line.len)
          /\ Line.len = Len(Line.data) /\ Line.len \in Nat /\ Line.len > 0 /\ Line.data \in Seq(Byte)
          /\ Line.addr \in 0 .. MaxEnd
      BY <1>4, <2>1, <2>2, <3>1, <3>2, Zenon
    <3> HIDE DEF r, at
    <3> QED BY <1>0, <3>3, Zenon
  <2>3. CASE ~Fits(Line.addr + offset, Line.len)
    <3>1. phase' = "error" /\ UNCHANGED <<buf, offset, greatest>>
      BY <1>4, <2>3 DEF IhexLine
    <3> QED BY <1>0, <1>4, <2>1, <2>3, <3>1
  <2> QED BY <2>2, <2>3
<1>5. CASE Line.type = -1
  <2>1. phase' = "error" /\ UNCHANGED <<buf, offset, greatest>>
    BY <1>5 DEF IhexLine
  <2> QED BY <1>0, <1>5, <2>1
<1>6. CASE Line.type = 1
  <2>1. UNCHANGED <<phase, buf, offset, greatest>>
    BY <1>6 DEF IhexLine
  <2> QED BY <1>0, <1>6, <2>1
<1> QED BY <1>1, <1>2, <1>3, <1>4, <1>5, <1>6

\* What srec_read does with a record of data.
LEMMA SrecCases ==
  ASSUME TInv, SrecData
  PROVE  /\ format = "srec" /\ OneLine /\ Line.type \in 1 .. 3
         /\ UNCHANGED <<writerVars, fate, lo, hi, offset, expected>>
         /\ Line.data \in Seq(Byte) /\ Len(Line.data) \in Nat /\ Len(Line.data) > 0 /\ Line.addr \in 0 .. MaxEnd
         /\ \/ /\ Fits(Line.addr, Len(Line.data)) /\ found' = found + 1
               /\ buf' = Stored(Line.addr - lo + DataShift(Line.type), Line.data)
               /\ greatest' = Later(Line.addr + Len(Line.data))
               /\ \/ phase' = (IF SumIsRight(Line) THEN phase ELSE "error")
                  \/ phase' = "error" /\ Overruns(Line.addr - lo + DataShift(Line.type), Len(Line.data))
            \/ /\ ~Fits(Line.addr, Len(Line.data)) /\ phase' = "error" /\ UNCHANGED <<buf, found, greatest>>
<1>0. /\ format = "srec" /\ OneLine /\ Line.type \in 1 .. 3
      /\ UNCHANGED <<writerVars, fate, lo, hi, offset, expected>>
  BY DEF SrecData
<1>1. Line \in Records /\ RecordOK(Line)
  BY <1>0, LineRead
<1>2. Line.data \in Seq(Byte) /\ Len(Line.data) > 0 /\ Line.addr \in 0 .. MaxEnd
  BY <1>0, <1>1 DEF Records, RecordOK, IsData
<1>3. Len(Line.data) \in Nat
  BY <1>2, ByteSeq
<1> QED BY <1>0, <1>2, <1>3 DEF SrecData

\* What stays as it is.
LEMMA WindowSame ==
  ASSUME Window, UNCHANGED <<format, end, lo, hi, buf, greatest>>
  PROVE  Window'
BY DEF Window, Narrow, DataType, Filled

\* Data that fit are stored within the buffer, and extend what was stored if they end behind it.
LEMMA WindowStores ==
  ASSUME TInv, Window, UNCHANGED <<format, end, lo, hi>>,
         NEW a \in Nat, NEW data \in Seq(Byte), Len(data) > 0, Fits(a, Len(data)),
         buf' = Stored(a - lo, data), greatest' = Later(a + Len(data))
  PROVE  Window'
<1> SUFFICES ASSUME Narrow'
             PROVE  /\ \A k \in Filled' : k \in 0 .. hi - lo - 1 /\ k + lo < greatest'
                    /\ greatest' - lo - 1 \in Filled'
  <2>1. greatest' - lo - 1 \in Filled' => Filled' # {}
    OBVIOUS
  <2> QED BY <2>1 DEF Window
<1>0. Narrow
  BY DEF Narrow, DataType
<1>1. PICK n \in Nat : n = Len(data)
  BY ByteSeq
<1>2. lo \in Nat /\ hi \in Nat /\ hi <= MaxEnd /\ greatest \in Nat /\ MaxEnd \in Nat /\ DOMAIN buf = Memory
  BY Sizes
<1>3. n > 0 /\ a >= lo /\ a + n <= hi
  BY <1>1 DEF Fits
<1>4. /\ Filled = {k \in Memory : buf[k] # Hole} /\ Filled' = {k \in Memory : buf'[k] # Hole}
      /\ \A k \in Memory : buf'[k] = IF k \in a - lo .. (a - lo) + n - 1 THEN data[k - (a - lo) + 1] ELSE buf[k]
  BY <1>1, <1>2 DEF Filled, Stored
<1>5. \A k \in Memory : k \in a - lo .. (a - lo) + n - 1 => buf'[k] # Hole
  <2> SUFFICES ASSUME NEW k \in Memory, k \in a - lo .. (a - lo) + n - 1 PROVE data[k - (a - lo) + 1] # Hole
    BY <1>4
  <2>1. k - (a - lo) + 1 \in 1 .. n
    BY <1>2, Cells
  <2>2. data[k - (a - lo) + 1] \in Byte
    BY <1>1, <2>1, ByteSeq
  <2>3. Byte \subseteq 0 .. 255 /\ Hole \notin 0 .. 255
    BY Given DEF Hole
  <2> QED BY <2>2, <2>3, Zenon
<1>6. \A k \in Memory : k \in Filled' <=> (k \in a - lo .. (a - lo) + n - 1 \/ k \in Filled)
  BY <1>4, <1>5
<1>7. /\ \A k \in Filled : k \in 0 .. hi - lo - 1 /\ k + lo < greatest
      /\ IF Filled = {} THEN greatest = 0 ELSE greatest - lo - 1 \in Filled
  BY <1>0 DEF Window
<1>8. greatest' \in Nat /\ greatest' >= greatest /\ greatest' >= a + n /\ greatest' \in {greatest, a + n}
  BY <1>1, <1>2 DEF Later
<1>9. ASSUME NEW k \in Filled' PROVE k \in 0 .. hi - lo - 1 /\ k + lo < greatest'
  <2>1. k \in Memory /\ k \in Int
    BY <1>4, Cells
  <2>2. CASE k \in a - lo .. (a - lo) + n - 1
    BY <1>2, <1>3, <1>8, <2>1, <2>2
  <2>3. CASE k \in Filled
    BY <1>2, <1>7, <1>8, <2>1, <2>3
  <2> QED BY <1>6, <2>1, <2>2, <2>3
<1>10. greatest' - lo - 1 \in Filled'
  <2>1. a + n - lo - 1 \in Memory /\ a + n - lo - 1 \in a - lo .. (a - lo) + n - 1
    BY <1>2, <1>3, Cells
  <2>2. CASE greatest' = a + n
    <3>1. greatest' - lo - 1 = a + n - lo - 1
      BY <1>2, <1>8, <2>2
    <3>2. a + n - lo - 1 \in Filled'
      BY <1>6, <2>1
    <3> QED BY <3>1, <3>2
  <2>3. CASE greatest' = greatest /\ greatest # a + n
    <3>1. Filled # {}
      BY <1>1, <1>2, <1>3, <1>7, <1>8, <2>3
    <3> QED BY <1>4, <1>6, <1>7, <2>3, <3>1
  <2> QED BY <1>8, <2>2, <2>3
<1> QED BY <1>9, <1>10

\* The same for every step.
LEMMA WindowStep ==
  ASSUME TInv, Window, [Next]_vars
  PROVE  Window'
<1>0. /\ lo \in Nat /\ hi \in Nat /\ offset \in Nat /\ MaxEnd \in Nat
      /\ Before => greatest = 0 /\ \A k \in DOMAIN buf : buf[k] = Hole
  BY Sizes DEF TInv, Reader
<1>1. CASE IhexChunk \/ IhexEnd \/ IhexFails \/ SrecChunk \/ SrecEnd \/ UNCHANGED vars
  <2>1. UNCHANGED <<format, end, lo, hi, buf, greatest>>
    BY <1>1 DEF IhexChunk, IhexEnd, IhexFails, SrecChunk, SrecEnd, vars, writerVars, readerVars
  <2> QED BY <2>1, WindowSame
<1>2. CASE Opening
  <2>1. greatest' = 0 /\ \A k \in DOMAIN buf' : buf'[k] = Hole
    <3>1. greatest' = greatest /\ buf' = buf /\ phase = "file"
      BY <1>2, Opened
    <3> QED BY <1>0, <3>1 DEF Before
  <2>2. Filled' = {}
    BY <2>1 DEF Filled
  <2> QED BY <2>1, <2>2 DEF Window
<1>3. CASE IhexLine
  <2>1. /\ UNCHANGED <<format, end, lo, hi>>
        /\ \/ UNCHANGED <<buf, greatest>>
           \/ /\ Line.len = Len(Line.data) /\ Line.len > 0 /\ Line.data \in Seq(Byte)
              /\ Line.addr \in 0 .. MaxEnd /\ Fits(Line.addr + offset, Line.len)
              /\ buf' = Stored((Line.addr + offset) - lo, Line.data)
              /\ greatest' = Later(Line.addr + offset + Line.len)
    BY <1>3, IhexCases DEF writerVars
  <2>2. Line.addr \in 0 .. MaxEnd => Line.addr + offset \in Nat
    BY <1>0
  <2> QED BY <2>1, <2>2, WindowSame, WindowStores
<1>4. CASE SrecData
  <2>1. /\ UNCHANGED <<format, end, lo, hi, offset>> /\ format = "srec" /\ Line.type \in 1 .. 3
        /\ Line.data \in Seq(Byte) /\ Len(Line.data) > 0 /\ Line.addr \in 0 .. MaxEnd
        /\ \/ UNCHANGED <<buf, greatest>>
           \/ /\ Fits(Line.addr, Len(Line.data))
              /\ buf' = Stored(Line.addr - lo + DataShift(Line.type), Line.data)
              /\ greatest' = Later(Line.addr + Len(Line.data))
    BY <1>4, SrecCases DEF writerVars
  <2>2. CASE ~Narrow
    BY <2>1, <2>2 DEF Window, Narrow, DataType
  <2>3. CASE Narrow
    <3>1. Line.type = 1
      <4>1. OneLine /\ DataType = 1
        BY <1>4, <2>1, <2>3 DEF SrecData, Narrow
      <4>2. RecordOK(Line)
        BY <4>1, LineRead
      <4> QED BY <2>1, <4>1, <4>2 DEF RecordOK, IsData
    <3>2. Line.addr \in Nat /\ Line.addr - lo + DataShift(Line.type) = Line.addr - lo
      BY <1>0, <2>1, <3>1 DEF DataShift
    <3> QED BY <2>1, <3>2, WindowSame, WindowStores
  <2> QED BY <2>2, <2>3
<1>5. CASE SrecCount \/ SrecOther \/ FileEnds
  <2>1. UNCHANGED <<format, end, lo, hi, buf, greatest>>
    BY <1>5 DEF SrecCount, SrecOther, FileEnds, writerVars, readerVars
  <2> QED BY <2>1, WindowSame
<1> QED BY <1>1, <1>2, <1>3, <1>4, <1>5 DEF Next, Opening

\* What was stored so far, of any file.
LEMMA WindowAlways == Spec => [](TInv /\ Window)
<1>1. Init => TInv /\ Window
  <2> SUFFICES ASSUME Init PROVE Window
    BY InitialTypes
  <2>1. Filled = {} /\ greatest = 0
    BY DEF Init, Filled
  <2> QED BY <2>1 DEF Window
<1>2. TInv /\ Window /\ [Next]_vars => (TInv /\ Window)'
  BY StepTypes, WindowStep
<1> QED BY <1>1, <1>2, PTL DEF Spec

\* Whatever records survived, in whatever order, no byte is ever stored beside the buffer: by
\* ihex_read, and by srec_read as long as two address bytes are enough.
THEOREM StaysWithinWindow == Spec => []WithinWindow
<1>1. TInv /\ Window => WithinWindow
  BY DEF Window, Narrow, WithinWindow
<1> QED BY <1>1, WindowAlways, PTL

\* What is returned is one more than the place of the last byte that was stored.
THEOREM ReturnsExtent == Spec => []ResultIsExtent
<1>1. TInv /\ Window => ResultIsExtent
  <2> SUFFICES ASSUME TInv, Window, Narrow, Filled # {} PROVE Result = Max(Filled) + 1
    BY DEF ResultIsExtent, Narrow
  <2>1. lo \in Nat /\ greatest \in Nat /\ hi \in Nat
    BY Sizes
  <2>2. /\ \A k \in Filled : k \in Int /\ greatest - lo - 1 >= k
        /\ greatest - lo - 1 \in Filled
    BY <2>1 DEF Window
  <2>3. \A m \in Filled : (\A k \in Filled : m >= k) => m = greatest - lo - 1
    BY <2>1, <2>2
  <2>4. Max(Filled) = greatest - lo - 1
    BY <2>2, <2>3 DEF Max
  <2> QED BY <2>1, <2>4 DEF Result
<1> QED BY <1>1, WindowAlways, PTL
-----------------------------------------------------------------------------
(***************************************************************************)
(* Damage.                                                                 *)
(***************************************************************************)
\* The checksums of the records that are written are right.
LEMMA WrittenSums ==
  ASSUME TInv, SrecChunk \/ SrecEnd, \A k \in DOMAIN file : file[k].type # -1 => SumIsRight(file[k])
  PROVE  \A k \in DOMAIN file' : file'[k].type # -1 => SumIsRight(file'[k])
<1>0. file \in Seq(Records) /\ DOMAIN file = 1 .. Len(file) /\ Len(file) \in Nat
  BY FileWritten
<1>1. CASE SrecChunk
  <2>1. file' = Append(file, SrecRec) /\ SrecRec \in Records /\ SumIsRight(SrecRec)
    BY <1>1, SrecFile
  <2> QED BY <1>0, <2>1, Appended, FileFacts
<1>2. CASE SrecEnd
  <2>1. /\ file' \in Seq(Records) /\ Len(file') = Len(file) + 3 /\ SumIsRight(file'[1])
        /\ \A k \in 1 .. Len(file) : file'[k + 1] = file[k]
        /\ SumIsRight(file'[Len(file) + 2]) /\ SumIsRight(file'[Len(file) + 3])
    BY <1>2, SrecFinished
  <2> SUFFICES ASSUME NEW k \in DOMAIN file', file'[k].type # -1 PROVE SumIsRight(file'[k])
    OBVIOUS
  <2>2. k \in 1 .. Len(file) + 3
    BY <2>1, FileFacts
  <2>3. CASE k = 1 \/ k = Len(file) + 2 \/ k = Len(file) + 3
    BY <2>1, <2>3
  <2>4. CASE k \in 2 .. Len(file) + 1
    <3>1. k - 1 \in 1 .. Len(file) /\ (k - 1) + 1 = k
      BY <1>0, <2>4
    <3>2. file'[k] = file[k - 1]
      BY <2>1, <3>1
    <3> QED BY <1>0, <3>1, <3>2
  <2> QED BY <1>0, <2>2, <2>3, <2>4
<1> QED BY <1>1, <1>2

\* The checksum of a record with another byte is wrong.
LEMMA ChangedSum ==
  ASSUME NEW q \in Records, q.type \in 1 .. 3, RecordOK(q), format = "srec", SumIsRight(q),
         NEW j \in DOMAIN q.data, NEW b \in Byte, b # q.data[j],
         NEW r, r = [q EXCEPT !.data = [q.data EXCEPT ![j] = b]]
  PROVE  ~SumIsRight(r)
<1> DEFINE d == [q.data EXCEPT ![j] = b]
<1>1. q.data \in Seq(Byte) /\ q.len \in Nat /\ q.addr \in Nat
  BY Given DEF Records, RecordOK, IsData
<1>2. SrecSum(q.len, q.addr, d) # SrecSum(q.len, q.addr, q.data)
  BY <1>1, SumDetects
<1> HIDE DEF d
<1>3. r.data = d /\ r.len = q.len /\ r.addr = q.addr /\ r.sum = q.sum
  BY DEF Records, d
<1> QED BY <1>2, <1>3 DEF SumIsRight

\* A damaged record stays in the file until it is read, and then the file is refused.
LEMMA DamageStep ==
  ASSUME TInv, Damage, [Next]_vars
  PROVE  Damage'
<1>0. /\ format \in {"ihex", "srec"} /\ fate \in {"kept", "foreign", "byte", "noise", "lost"}
      /\ Before => fate = "kept"
  BY Given DEF TInv, Numbers, Reader
<1>1. CASE IhexChunk \/ IhexEnd \/ IhexFails \/ UNCHANGED vars
  <2>1. CASE UNCHANGED vars
    BY <2>1 DEF Damage, vars, writerVars
  <2>2. CASE IhexChunk \/ IhexEnd \/ IhexFails
    <3>1. fate' = "kept" /\ format' = "ihex"
      BY <1>0, <2>2 DEF IhexChunk, IhexEnd, IhexFails, Before, writerVars
    <3> QED BY <3>1 DEF Damage
  <2> QED BY <1>1, <2>1, <2>2
<1>2. CASE SrecChunk \/ SrecEnd
  <2>1. fate' = "kept" /\ fate = "kept" /\ format = "srec"
    BY <1>0, <1>2 DEF SrecChunk, SrecEnd, Before
  <2>2. \A k \in DOMAIN file : file[k].type # -1 => SumIsRight(file[k])
    BY <2>1 DEF Damage
  <2>3. \A k \in DOMAIN file' : file'[k].type # -1 => SumIsRight(file'[k])
    BY <1>2, <2>2, WrittenSums
  <2> QED BY <2>1, <2>3 DEF Damage
<1>3. CASE Opening
  <2>0. fate = "kept" /\ phase' = "reading" /\ format' = format
    BY <1>0, <1>3, Opened DEF Before
  <2>1. /\ DOMAIN file = 1 .. Len(file) /\ Len(file) \in Nat
        /\ \A k \in DataRecords : k \in DOMAIN file /\ IsData(file[k])
        /\ \A k \in DOMAIN file : file[k] \in Records /\ RecordOK(file[k])
    BY FileWritten
  <2>2. format = "srec" => \A k \in DOMAIN file : file[k].type # -1 => SumIsRight(file[k])
    BY <2>0 DEF Damage
  <2>3. CASE Kept
    <3>1. file' = file /\ fate' = "kept"
      BY <2>3 DEF Kept, OpenFile
    <3> QED BY <2>0, <2>2, <3>1 DEF Damage
  <2>4. CASE Foreign
    <3>1. fate' = "foreign"
      BY <1>0, <2>4, ForeignIhex, ForeignSrec
    <3>2. ASSUME format = "srec", NEW k \in DOMAIN file', file'[k].type # -1
          PROVE  SumIsRight(file'[k])
      <4>1. /\ file' \in Seq(Records) /\ Len(file') = Len(file) + 1 /\ file'[1] = NoRecord
            /\ \A i \in DOMAIN file : file'[i + 1] = IF i \in DataRecords THEN file[Len(file) - i] ELSE file[i]
        BY <2>4, <3>2, ForeignSrec
      <4>2. k \in 1 .. Len(file) + 1 /\ k # 1
        BY <3>2, <4>1, NoRecordType, FileFacts
      <4>3. k - 1 \in DOMAIN file /\ (k - 1) + 1 = k
        BY <2>1, <4>2
      <4>4. file'[k] = file[k - 1] \/ (k - 1 \in DataRecords /\ file'[k] = file[Len(file) - (k - 1)])
        BY <4>1, <4>3
      <4>5. phase = "file"
        BY <1>3, Opened
      <4>6. k - 1 \in DataRecords => Len(file) - (k - 1) \in DOMAIN file
        BY <3>2, <4>5, FileWritten
      <4> QED BY <2>2, <3>2, <4>3, <4>4, <4>6
    <3> QED BY <2>0, <3>1, <3>2 DEF Damage
  <2>5. CASE OneLineAdded
    BY <2>0, <2>5, LineAdded DEF Damage
  <2>6. CASE OneByteChanged
    <3>1. fate' = "byte" /\ file' \in Seq(Records) /\ Len(file') = Len(file)
      BY <2>6, ByteChanged
    <3>2. PICK k \in DataRecords, j \in Nat, b \in Byte :
              /\ j \in DOMAIN file[k].data /\ b # file[k].data[j]
              /\ file'[k] = [file[k] EXCEPT !.data = [file[k].data EXCEPT ![j] = b]]
              /\ file'[k] \in Records /\ file'[k].type = file[k].type
      BY <2>6, ByteChanged
    <3>3. ASSUME format = "srec" PROVE file'[k].type \in 1 .. 3 /\ ~SumIsRight(file'[k]) /\ k \in DOMAIN file'
      <4>1. /\ file[k].type \in 1 .. 3 /\ file[k] \in Records /\ RecordOK(file[k]) /\ SumIsRight(file[k])
            /\ k \in DOMAIN file
        BY <2>1, <2>2, <3>3 DEF IsData
      <4>2. ~SumIsRight(file'[k])
        BY <3>2, <3>3, <4>1, ChangedSum
      <4> QED BY <2>1, <3>1, <3>2, <4>1, <4>2, FileFacts
    <3> QED BY <1>0, <2>0, <3>1, <3>3 DEF Damage
  <2>7. CASE OneRecordLost
    <3>1. fate' = "lost"
      BY <2>7, RecordLost
    <3>2. \A j \in DOMAIN file' : \E i \in DOMAIN file : file'[j] = file[i]
      BY <2>7, RecordLost
    <3> QED BY <2>0, <2>2, <3>1, <3>2 DEF Damage
  <2> QED BY <1>3, <2>3, <2>4, <2>5, <2>6, <2>7 DEF Opening
<1>4. ASSUME OneLine, UNCHANGED <<format, fate>>, phase' \in {"reading", "error"},
             Line.type = -1 /\ format = "ihex" => phase' = "error",
             Line.type \in 1 .. 3 /\ format = "srec" /\ ~SumIsRight(Line) => phase' = "error"
      PROVE  Damage'
  <2>1. /\ file \in Seq(Records) /\ file' \in Seq(Records) /\ Len(file') = Len(file) - 1
        /\ Len(file) \in Nat /\ DOMAIN file = 1 .. Len(file) /\ DOMAIN file' = 1 .. Len(file) - 1
        /\ Line = file[1] /\ phase = "reading"
        /\ \A k \in DOMAIN file' : k + 1 \in DOMAIN file /\ file'[k] = file[k + 1]
    BY <1>4, LineRead, FileWritten, FileFacts DEF OneLine
  <2>2. \A k \in DOMAIN file : k # 1 => k - 1 \in DOMAIN file' /\ file'[k - 1] = file[k]
    <3> SUFFICES ASSUME NEW k \in DOMAIN file, k # 1 PROVE k - 1 \in DOMAIN file' /\ file'[k - 1] = file[k]
      OBVIOUS
    <3>1. k - 1 \in DOMAIN file' /\ (k - 1) + 1 = k
      BY <2>1
    <3> QED BY <2>1, <3>1
  <2>3. ASSUME fate = "noise", phase' = "reading" PROVE \E k \in DOMAIN file' : file'[k].type = -1
    <3>1. format = "ihex" /\ \E k \in DOMAIN file : file[k].type = -1
      BY <2>1, <2>3 DEF Damage
    <3>2. PICK k \in DOMAIN file : file[k].type = -1
      BY <3>1
    <3>3. k # 1
      BY <1>4, <2>1, <2>3, <3>1, <3>2
    <3> QED BY <2>2, <3>2, <3>3
  <2>4. ASSUME fate = "byte", format = "srec", phase' = "reading"
        PROVE  \E k \in DOMAIN file' : file'[k].type \in 1 .. 3 /\ ~SumIsRight(file'[k])
    <3>1. PICK k \in DOMAIN file : file[k].type \in 1 .. 3 /\ ~SumIsRight(file[k])
      BY <2>1, <2>4 DEF Damage
    <3>2. k # 1
      BY <1>4, <2>1, <2>4, <3>1
    <3> QED BY <2>2, <3>1, <3>2
  <2>5. ASSUME format = "srec", fate # "byte"
        PROVE \A k \in DOMAIN file' : file'[k].type # -1 => SumIsRight(file'[k])
    <3>1. \A k \in DOMAIN file : file[k].type # -1 => SumIsRight(file[k])
      BY <2>5 DEF Damage
    <3> QED BY <2>1, <3>1
  <2> QED BY <1>4, <2>3, <2>4, <2>5 DEF Damage
<1>5. CASE IhexLine
  <2>1. OneLine /\ format = "ihex" /\ phase = "reading" /\ UNCHANGED <<format, fate>>
    BY <1>5, IhexCases DEF OneLine, writerVars
  <2>2. (phase' = phase /\ Line.type # -1) \/ phase' = "error"
    BY <1>5, IhexCases
  <2> QED BY <1>4, <2>1, <2>2
<1>6. CASE SrecData
  <2>1. OneLine /\ format = "srec" /\ phase = "reading" /\ UNCHANGED <<format, fate>> /\ Line.type \in 1 .. 3
    BY <1>6, SrecCases DEF OneLine, writerVars
  <2>2. phase' = "error" \/ (phase' = phase /\ SumIsRight(Line))
    BY <1>6, SrecCases
  <2> QED BY <1>4, <2>1, <2>2
<1>7. CASE SrecCount \/ SrecOther
  <2>1. OneLine /\ format = "srec" /\ phase = "reading" /\ UNCHANGED <<format, fate>> /\ Line.type \notin 1 .. 3
    BY <1>7 DEF SrecCount, SrecOther, OneLine, writerVars
  <2>2. phase' \in {"error", phase}
    BY <1>7 DEF SrecCount, SrecOther
  <2> QED BY <1>4, <2>1, <2>2
<1>8. CASE FileEnds
  <2>1. phase = "reading" /\ DOMAIN file = {} /\ UNCHANGED <<format, fate, file>> /\ phase' # "reading"
    <3>1. file = <<>> /\ phase = "reading" /\ UNCHANGED <<format, fate, file>> /\ phase' # "reading"
      BY <1>8 DEF FileEnds, writerVars
    <3>2. Len(file) = 0 /\ DOMAIN file = 1 .. Len(file)
      BY <3>1, FileWritten, EmptySeq
    <3> QED BY <3>1, <3>2
  <2>2. fate # "noise" /\ ~(format = "srec" /\ fate = "byte")
    BY <2>1 DEF Damage
  <2> QED BY <2>1, <2>2 DEF Damage
<1> QED BY <1>1, <1>2, <1>3, <1>5, <1>6, <1>7, <1>8 DEF Next, Opening

\* No byte of data that was changed gets past the checksums of S-records, and no line that is no
\* record past the reader of Intel HEX.
LEMMA ChangeInvariant == Spec => []Damage
<1>1. Init => TInv /\ Damage
  <2> SUFFICES ASSUME Init PROVE Damage
    BY InitialTypes
  <2>1. fate = "kept" /\ file = <<>> /\ DOMAIN file = {}
    BY EmptySeq DEF Init
  <2> QED BY <2>1 DEF Damage
<1>2. TInv /\ Damage /\ [Next]_vars => (TInv /\ Damage)'
  BY StepTypes, DamageStep
<1> QED BY <1>1, <1>2, PTL DEF Spec
-----------------------------------------------------------------------------
(***************************************************************************)
(* The number of S-records.                                                *)
(***************************************************************************)
\* What is written is a header, the data, their number and an end.
LEMMA ShapeWritten ==
  ASSUME TInv, Counted, SrecEnd
  PROVE  Counted'
<1>0. /\ phase = "writing" /\ format = "srec" /\ phase' = "file" /\ format' = format /\ end' = end /\ start' = start
      /\ next \in Nat /\ start \in Nat /\ end \in Nat /\ next <= end
  BY Given DEF SrecEnd, TInv, Numbers, writerVars
<1>1. /\ file \in Seq(Records) /\ Len(file) \in Nat /\ Len(file) <= end - start /\ DOMAIN file = 1 .. Len(file)
      /\ \A k \in 1 .. Len(file) : file[k].type \in 1 .. 3
  BY <1>0, FileFacts DEF TInv, FileType, Short, Counted, DataType
<1>m. PICK m \in Nat : m = Len(file)
  BY <1>1
<1>2. /\ file' \in Seq(Records) /\ Len(file') = m + 3 /\ file'[1].type = 0
      /\ \A k \in 1 .. m : file'[k + 1] = file[k]
      /\ file'[m + 2].type = 5 /\ file'[m + 2].addr = m % Page /\ file'[m + 2].len = 3
      /\ file'[m + 3].type \in 7 .. 9
  BY <1>m, SrecFinished
<1>3. m \in 0 .. end - start /\ 1 + m + 1 = m + 2 /\ 1 + m + 2 = m + 3
  BY <1>m, <1>0, <1>1
<1>4. \A k \in 1 .. m : file[k].type \in 1 .. 3
  BY <1>m, <1>1
<1>5. \A k \in 1 + 1 .. 1 + m : file'[k].type \in 1 .. 3
  <2> SUFFICES ASSUME NEW k \in 1 + 1 .. 1 + m PROVE file'[k].type \in 1 .. 3
    OBVIOUS
  <2>1. k - 1 \in 1 .. m /\ (k - 1) + 1 = k
    BY <1>3
  <2>2. file'[k] = file[k - 1]
    BY <1>2, <2>1
  <2> QED BY <1>4, <2>1, <2>2
<1>6. \A k \in 1 .. 1 : file'[k].type \in {-1, 0}
  BY <1>2
<1>7. Shape(1, m, m)'
  BY <1>m, <1>2, <1>3, <1>5, <1>6 DEF Shape
<1>8. (\E n \in 0 .. end - start : Shape(1, n, n))'
  BY <1>0, <1>3, <1>7
<1> QED BY <1>0, <1>8 DEF Counted

\* The file of S-records that was written.
LEMMA FileShape ==
  ASSUME TInv, Counted, phase = "file", format = "srec"
  PROVE  \E m \in 0 .. end - start :
           /\ m \in Nat /\ Shape(1, m, m) /\ DataRecords = 2 .. m + 1
           /\ file \in Seq(Records) /\ Len(file) = m + 3 /\ DOMAIN file = 1 .. m + 3
           /\ file[1].type \in {-1, 0} /\ \A k \in 2 .. m + 1 : file[k].type \in 1 .. 3
           /\ file[m + 2].type = 5 /\ file[m + 2].addr = m % Page /\ file[m + 2].len = 3
           /\ file[m + 3].type \in 7 .. 9
<1>1. PICK m \in 0 .. end - start : Shape(1, m, m)
  BY DEF Counted
<1>2. /\ m \in Nat /\ file \in Seq(Records) /\ Len(file) = m + 3 /\ DOMAIN file = 1 .. m + 3
      /\ file[1].type \in {-1, 0} /\ \A k \in 2 .. m + 1 : file[k].type \in 1 .. 3
      /\ file[m + 2].type = 5 /\ file[m + 2].addr = m % Page /\ file[m + 2].len = 3
      /\ file[m + 3].type \in 7 .. 9
  <2>1. m \in Nat
    BY Sizes
  <2>2. 1 + m + 1 = m + 2 /\ 1 + m + 2 = m + 3 /\ 1 + m = m + 1 /\ 1 + 1 = 2
    BY <2>1
  <2>3. file \in Seq(Records) /\ DOMAIN file = 1 .. Len(file)
    BY FileWritten
  <2> QED BY <1>1, <2>1, <2>2, <2>3 DEF Shape
<1>3. DataRecords = 2 .. m + 1
  <2>1. \A k \in 1 .. m + 3 : k \in 2 .. m + 1 \/ k = 1 \/ k = m + 2 \/ k = m + 3
    BY <1>2
  <2>2. \A k \in 1 .. m + 3 : file[k].type \in 1 .. 3 <=> k \in 2 .. m + 1
    BY <1>2, <2>1
  <2>3. 2 .. m + 1 \subseteq 1 .. m + 3
    BY <1>2
  <2> QED BY <1>2, <2>2, <2>3 DEF DataRecords, IsData
<1> QED BY <1>1, <1>2, <1>3

\* What is opened has as many, or one less.
LEMMA ShapeOpened ==
  ASSUME TInv, Counted, Opening, format = "srec"
  PROVE  (\E m \in 0 .. end - start : ToCome(m))'
<1>0. /\ phase = "file" /\ UNCHANGED <<start, end, found, expected>> /\ found = 0 /\ expected = Unknown
      /\ fate' \in {"kept", "foreign", "byte", "noise", "lost"}
      /\ start \in Nat /\ end \in Nat
  BY Opened, Given DEF TInv, Numbers, Reader, Before
<1>1. PICK m \in 0 .. end - start :
        /\ m \in Nat /\ Shape(1, m, m) /\ DataRecords = 2 .. m + 1
        /\ file \in Seq(Records) /\ Len(file) = m + 3 /\ DOMAIN file = 1 .. m + 3
        /\ file[1].type \in {-1, 0} /\ \A k \in 2 .. m + 1 : file[k].type \in 1 .. 3
        /\ file[m + 2].type = 5 /\ file[m + 2].addr = m % Page /\ file[m + 2].len = 3
        /\ file[m + 3].type \in 7 .. 9
  BY <1>0, FileShape
<1>2. /\ m \in Nat /\ file \in Seq(Records) /\ Len(file) = m + 3 /\ DOMAIN file = 1 .. m + 3
      /\ file[1].type \in {-1, 0} /\ \A k \in 2 .. m + 1 : file[k].type \in 1 .. 3
      /\ file[m + 2].type = 5 /\ file[m + 2].addr = m % Page /\ file[m + 2].len = 3
      /\ file[m + 3].type \in 7 .. 9
  BY <1>1
<1>3. DataRecords = 2 .. m + 1
  BY <1>1
<1>4. ASSUME NEW p \in 0 .. 2, NEW d \in 0 .. m, Shape(p, d, m)', d = IF fate' = "lost" THEN m - 1 ELSE m
      PROVE  (\E n \in 0 .. end - start : ToCome(n))'
  <2>1. found' + d = IF fate' = "lost" THEN m - 1 ELSE m
    BY <1>0, <1>2, <1>4
  <2>2. ToCome(m)'
    BY <1>0, <1>4, <2>1 DEF ToCome
  <2> QED BY <1>0, <2>2
<1>5. CASE Kept
  <2>1. file' = file /\ fate' = "kept"
    BY <1>5 DEF Kept, OpenFile
  <2>2. Shape(1, m, m)'
    BY <1>1, <2>1 DEF Shape
  <2> QED BY <1>2, <1>4, <2>1, <2>2
<1>6. CASE Foreign
  <2>1. /\ file' \in Seq(Records) /\ Len(file') = m + 4 /\ fate' = "foreign" /\ file'[1].type = -1
        /\ \A k \in 1 .. m + 3 : file'[k + 1] = IF k \in 2 .. m + 1 THEN file[m + 3 - k] ELSE file[k]
    <3>1. /\ file' \in Seq(Records) /\ Len(file') = Len(file) + 1 /\ fate' = "foreign" /\ file'[1] = NoRecord
          /\ \A k \in DOMAIN file : file'[k + 1] = IF k \in DataRecords THEN file[Len(file) - k] ELSE file[k]
      BY <1>6, ForeignSrec
    <3>2. Len(file') = m + 4
      BY <1>2, <3>1
    <3>3. \A k \in 1 .. m + 3 : file'[k + 1] = IF k \in 2 .. m + 1 THEN file[m + 3 - k] ELSE file[k]
      <4> SUFFICES ASSUME NEW k \in 1 .. m + 3
                   PROVE  file'[k + 1] = IF k \in 2 .. m + 1 THEN file[m + 3 - k] ELSE file[k]
        OBVIOUS
      <4>1. Len(file) = m + 3 /\ k \in DOMAIN file
        BY <1>2
      <4>2. file'[k + 1] = IF k \in DataRecords THEN file[Len(file) - k] ELSE file[k]
        BY <3>1, <4>1, Zenon
      <4>3. file[Len(file) - k] = file[m + 3 - k]
        BY <4>1
      <4>4. k \in DataRecords <=> k \in 2 .. m + 1
        BY <1>3
      <4> QED BY <4>2, <4>3, <4>4
    <3> QED BY <3>1, <3>2, <3>3, NoRecordType
  <2>2. \A k \in 2 .. m + 1 : m + 3 - k \in 2 .. m + 1
    BY <1>2
  <2>3. file'[2].type \in {-1, 0}
    <3>1. 1 \in 1 .. m + 3 /\ 1 \notin 2 .. m + 1 /\ 1 + 1 = 2
      BY <1>2
    <3>2. file'[1 + 1] = file[1]
      BY <2>1, <3>1
    <3> QED BY <1>2, <3>1, <3>2
  <2>4. \A k \in 3 .. m + 2 : file'[k].type \in 1 .. 3
    <3> SUFFICES ASSUME NEW k \in 3 .. m + 2 PROVE file'[k].type \in 1 .. 3
      OBVIOUS
    <3>1. k - 1 \in 2 .. m + 1 /\ k - 1 \in 1 .. m + 3 /\ (k - 1) + 1 = k
      BY <1>2
    <3>2. file'[k] = file[m + 3 - (k - 1)]
      BY <2>1, <3>1
    <3> QED BY <1>2, <2>2, <3>1, <3>2
  <2>5. file'[m + 3] = file[m + 2] /\ file'[m + 4] = file[m + 3]
    <3>1. /\ m + 2 \in 1 .. m + 3 /\ m + 2 \notin 2 .. m + 1 /\ (m + 2) + 1 = m + 3
          /\ m + 3 \in 1 .. m + 3 /\ m + 3 \notin 2 .. m + 1 /\ (m + 3) + 1 = m + 4
      BY <1>2
    <3> QED BY <2>1, <3>1
  <2>6. /\ 2 + m + 1 = m + 3 /\ 2 + m + 2 = m + 4 /\ 2 + 1 = 3 /\ 2 + m = m + 2
        /\ \A k \in 1 .. 2 : k = 1 \/ k = 2
    BY <1>2
  <2>7. Shape(2, m, m)'
    BY <1>2, <2>1, <2>3, <2>4, <2>5, <2>6 DEF Shape
  <2> QED BY <1>2, <1>4, <2>1, <2>7
<1>7. CASE OneByteChanged
  <2>1. fate' = "byte" /\ file' \in Seq(Records) /\ Len(file') = Len(file)
    BY <1>7, ByteChanged
  <2>2. PICK k \in 2 .. m + 1 : /\ file'[k].type = file[k].type
                                /\ \A i \in DOMAIN file : i # k => file'[i] = file[i]
    BY <1>3, <1>7, ByteChanged
  <2>3. /\ file'[1] = file[1] /\ file'[m + 2] = file[m + 2] /\ file'[m + 3] = file[m + 3]
        /\ \A i \in 2 .. m + 1 : file'[i].type \in 1 .. 3
    <3>1. /\ 1 \in 1 .. m + 3 /\ m + 2 \in 1 .. m + 3 /\ m + 3 \in 1 .. m + 3 /\ k # 1 /\ k # m + 2 /\ k # m + 3
          /\ \A i \in 2 .. m + 1 : i \in 1 .. m + 3
      BY <1>2
    <3> QED BY <1>2, <2>2, <3>1
  <2>4. 1 + m + 1 = m + 2 /\ 1 + m + 2 = m + 3 /\ 1 + 1 = 2 /\ 1 + m = m + 1 /\ \A i \in 1 .. 1 : i = 1
    BY <1>2
  <2>5. Shape(1, m, m)'
    BY <1>2, <2>1, <2>3, <2>4 DEF Shape
  <2> QED BY <1>2, <1>4, <2>1, <2>5
<1>8. CASE OneRecordLost
  <2>1. fate' = "lost" /\ file' \in Seq(Records) /\ Len(file') = m + 2 /\ DOMAIN file' = 1 .. m + 2
    BY <1>2, <1>8, RecordLost, FileFacts
  <2>2. PICK k \in 2 .. m + 1 : \A j \in 1 .. m + 2 : file'[j] = file[IF j < k THEN j ELSE j + 1]
    BY <1>3, <1>8, <2>1, RecordLost
  <2>3. file'[1] = file[1]
    <3>1. 1 \in 1 .. m + 2 /\ 1 < k
      BY <1>2
    <3> QED BY <2>2, <3>1
  <2>4. \A j \in 2 .. m : file'[j].type \in 1 .. 3
    <3> SUFFICES ASSUME NEW j \in 2 .. m PROVE file'[j].type \in 1 .. 3
      OBVIOUS
    <3>1. j \in 1 .. m + 2 /\ (IF j < k THEN j ELSE j + 1) \in 2 .. m + 1
      BY <1>2
    <3> QED BY <1>2, <2>2, <3>1
  <2>5. file'[m + 1] = file[m + 2] /\ file'[m + 2] = file[m + 3]
    <3>1. /\ m + 1 \in 1 .. m + 2 /\ ~(m + 1 < k) /\ (m + 1) + 1 = m + 2
          /\ m + 2 \in 1 .. m + 2 /\ ~(m + 2 < k) /\ (m + 2) + 1 = m + 3
      BY <1>2
    <3> QED BY <2>2, <3>1
  <2>6. /\ m - 1 \in 0 .. m /\ 1 + (m - 1) = m /\ 1 + (m - 1) + 1 = m + 1 /\ 1 + (m - 1) + 2 = m + 2
        /\ 1 + 1 = 2 /\ \A i \in 1 .. 1 : i = 1
    BY <1>2
  <2>7. Shape(1, m - 1, m)'
    BY <1>2, <2>1, <2>3, <2>4, <2>5, <2>6 DEF Shape
  <2> QED BY <1>4, <2>1, <2>6, <2>7
<1>9. CASE OneLineAdded
  BY <1>9, LineAdded
<1> QED BY <1>5, <1>6, <1>7, <1>8, <1>9 DEF Opening

\* A file without a line more than those that say nothing.
LEMMA ShapeShorter ==
  ASSUME TInv, OneLine, NEW p \in Nat, NEW d \in Nat, NEW m \in Nat, Shape(p, d, m)
  PROVE  /\ p > 0 => Line.type \in {-1, 0} /\ Shape(p - 1, d, m)'
         /\ p = 0 /\ d > 0 => Line.type \in 1 .. 3 /\ Shape(0, d - 1, m)'
         /\ p = 0 /\ d = 0 => /\ Line.type = 5 /\ Line.addr = m % Page /\ Line.len = 3
                              /\ \A k \in DOMAIN file' : file'[k].type \in 7 .. 9
<1>1. /\ file' \in Seq(Records) /\ Len(file') = p + d + 1 /\ Line = file[1] /\ DOMAIN file' = 1 .. p + d + 1
      /\ \A k \in 1 .. p + d + 1 : file'[k] = file[k + 1]
  <2>1. Len(file) = p + d + 2
    BY DEF Shape
  <2>2. /\ file' \in Seq(Records) /\ Len(file') = p + d + 1 /\ Line = file[1]
        /\ \A k \in DOMAIN file' : file'[k] = file[k + 1]
    BY <2>1, LineRead
  <2> QED BY <2>2, FileFacts
<1>2. /\ \A k \in 1 .. p : file[k].type \in {-1, 0}
      /\ \A k \in p + 1 .. p + d : file[k].type \in 1 .. 3
      /\ file[p + d + 1].type = 5 /\ file[p + d + 1].addr = m % Page /\ file[p + d + 1].len = 3
      /\ file[p + d + 2].type \in 7 .. 9
  BY DEF Shape
<1>3. CASE p > 0
  <2>1. Line.type \in {-1, 0}
    BY <1>1, <1>2, <1>3
  <2>2. \A k \in 1 .. p - 1 : file'[k].type \in {-1, 0}
    BY <1>1, <1>2, <1>3
  <2>3. \A k \in (p - 1) + 1 .. (p - 1) + d : file'[k].type \in 1 .. 3
    <3> SUFFICES ASSUME NEW k \in (p - 1) + 1 .. (p - 1) + d PROVE file'[k].type \in 1 .. 3
      OBVIOUS
    <3>1. k \in 1 .. p + d + 1 /\ k + 1 \in p + 1 .. p + d
      BY <1>3
    <3> QED BY <1>1, <1>2, <3>1
  <2>4. /\ (p - 1) + d + 1 = p + d /\ (p - 1) + d + 2 = p + d + 1
        /\ file'[p + d] = file[p + d + 1] /\ file'[p + d + 1] = file[p + d + 2]
    BY <1>1, <1>3
  <2>5. Shape(p - 1, d, m)'
    BY <1>1, <1>2, <2>2, <2>3, <2>4 DEF Shape
  <2> QED BY <1>3, <2>1, <2>5
<1>4. CASE p = 0 /\ d > 0
  <2>1. Line.type \in 1 .. 3
    BY <1>1, <1>2, <1>4
  <2>2. \A k \in 1 .. 0 : file'[k].type \in {-1, 0}
    OBVIOUS
  <2>3. \A k \in 0 + 1 .. 0 + (d - 1) : file'[k].type \in 1 .. 3
    <3> SUFFICES ASSUME NEW k \in 0 + 1 .. 0 + (d - 1) PROVE file'[k].type \in 1 .. 3
      OBVIOUS
    <3>1. k \in 1 .. p + d + 1 /\ k + 1 \in p + 1 .. p + d
      BY <1>4
    <3> QED BY <1>1, <1>2, <3>1
  <2>4. /\ 0 + (d - 1) + 1 = d /\ 0 + (d - 1) + 2 = d + 1 /\ p + d + 1 = d + 1 /\ p + d + 2 = d + 2
        /\ file'[d] = file[d + 1] /\ file'[d + 1] = file[d + 2]
    BY <1>1, <1>4
  <2>5. Shape(0, d - 1, m)'
    BY <1>1, <1>2, <2>2, <2>3, <2>4 DEF Shape
  <2> QED BY <1>4, <2>1, <2>5
<1>5. CASE p = 0 /\ d = 0
  BY <1>1, <1>2, <1>5
<1> QED BY <1>3, <1>4, <1>5

\* What is read is counted, and what was not read yet is still to come.
LEMMA ShapeReading ==
  ASSUME TInv, Counted, SrecData \/ SrecCount \/ SrecOther, phase' = "reading"
  PROVE  (\E m \in 0 .. end - start : ToCome(m))'
<1>0. /\ OneLine /\ format = "srec" /\ phase = "reading" /\ UNCHANGED <<start, end, fate>>
      /\ start \in Nat /\ end \in Nat /\ found \in Nat
  BY Given DEF SrecData, SrecCount, SrecOther, OneLine, writerVars, TInv, Numbers, Reader
<1>1. PICK m \in 0 .. end - start : ToCome(m)
  BY <1>0 DEF Counted
<1>2. m \in Nat /\ m % Page \in Nat
  BY <1>0, Paged
<1>3. ASSUME ToCome(m)' PROVE (\E n \in 0 .. end - start : ToCome(n))'
  BY <1>0, <1>3
<1>4. CASE expected = Unknown /\ \E p \in 0 .. 2, d \in 0 .. m :
             Shape(p, d, m) /\ found + d = IF fate = "lost" THEN m - 1 ELSE m
  <2>1. PICK p \in 0 .. 2, d \in 0 .. m : Shape(p, d, m) /\ found + d = IF fate = "lost" THEN m - 1 ELSE m
    BY <1>4
  <2>2. p \in Nat /\ d \in Nat
    BY <1>2
  <2>3. CASE p > 0
    <3>1. Line.type \in {-1, 0} /\ Shape(p - 1, d, m)'
      BY <1>0, <1>2, <2>1, <2>2, <2>3, ShapeShorter
    <3>2. UNCHANGED <<found, expected>>
      BY <3>1 DEF SrecData, SrecCount, SrecOther, readerVars
    <3>3. p - 1 \in 0 .. 2
      BY <2>2, <2>3
    <3>4. ToCome(m)'
      BY <1>0, <1>4, <2>1, <3>1, <3>2, <3>3 DEF ToCome
    <3> QED BY <1>3, <3>4
  <2>4. CASE p = 0 /\ d > 0
    <3>1. Line.type \in 1 .. 3 /\ Shape(0, d - 1, m)'
      BY <1>0, <1>2, <2>1, <2>2, <2>4, ShapeShorter
    <3>2. SrecData
      BY <3>1 DEF SrecCount, SrecOther
    <3>3. found' = found + 1 /\ expected' = expected
      BY <1>0, <3>2, SrecCases
    <3>4. d - 1 \in 0 .. m /\ 0 \in 0 .. 2 /\ found' + (d - 1) = found + d
      BY <1>0, <1>2, <2>2, <2>4, <3>3
    <3>5. ToCome(m)'
      BY <1>0, <1>4, <2>1, <3>1, <3>3, <3>4 DEF ToCome
    <3> QED BY <1>3, <3>5
  <2>5. CASE p = 0 /\ d = 0
    <3>1. Line.type = 5 /\ Line.addr = m % Page /\ \A k \in DOMAIN file' : file'[k].type \in 7 .. 9
      BY <1>0, <1>2, <2>1, <2>2, <2>5, ShapeShorter
    <3>2. SrecCount
      BY <3>1 DEF SrecData, SrecOther
    <3>3. expected' = m % Page /\ found' = found
      BY <3>1, <3>2 DEF SrecCount
    <3>4. found' = IF fate' = "lost" THEN m - 1 ELSE m
      BY <1>0, <1>2, <2>1, <2>5, <3>3
    <3>5. ToCome(m)'
      BY <3>1, <3>3, <3>4 DEF ToCome
    <3> QED BY <1>3, <3>5
  <2> QED BY <2>2, <2>3, <2>4, <2>5
<1>5. CASE /\ expected = m % Page /\ found = IF fate = "lost" THEN m - 1 ELSE m
           /\ \A k \in DOMAIN file : file[k].type \in 7 .. 9
  <2>1. Line.type \in 7 .. 9 /\ \A k \in DOMAIN file' : file'[k].type \in 7 .. 9
    BY <1>0, <1>5, LineRead
  <2>2. UNCHANGED <<found, expected>>
    BY <2>1 DEF SrecData, SrecCount, SrecOther, readerVars
  <2>3. ToCome(m)'
    BY <1>0, <1>5, <2>1, <2>2 DEF ToCome
  <2> QED BY <1>3, <2>3
<1> QED BY <1>1, <1>4, <1>5 DEF ToCome

\* One less is not the same to base Page.
LEMMA OneLessDiffers == ASSUME NEW m \in Nat, m > 0 PROVE m - 1 # m % Page
<1>1. /\ m % Page \in 0 .. Page - 1 /\ m \div Page \in Nat /\ m = (m \div Page) * Page + (m % Page)
      /\ Page \in Nat /\ Page > 1
  BY Paged, Given
<1>2. (m \div Page) * Page # 1
  BY <1>1
<1> QED BY <1>1, <1>2

\* A file that was read to its end has all records, or a number of them that is not that of S5.
LEMMA CountedEnd ==
  ASSUME TInv, Counted, FileEnds, format = "srec"
  PROVE  phase' = "ok" => fate # "lost"
<1>0. /\ phase = "reading" /\ file = <<>> /\ phase' = (IF CountIsRight THEN "ok" ELSE "error")
      /\ start \in Nat /\ end \in Nat /\ found \in Nat
  BY Given DEF FileEnds, TInv, Numbers, Reader
<1>1. PICK m \in 0 .. end - start : ToCome(m)
  BY <1>0 DEF Counted
<1>2. m \in Nat /\ m % Page \in Nat
  BY <1>0, Paged
<1>3. \A p \in 0 .. 2, d \in 0 .. m : ~Shape(p, d, m)
  <2> SUFFICES ASSUME NEW p \in 0 .. 2, NEW d \in 0 .. m, Shape(p, d, m) PROVE FALSE
    OBVIOUS
  <2>1. Len(file) = 0 /\ Len(file) = p + d + 2
    BY <1>0, EmptySeq DEF Shape
  <2> QED BY <1>2, <2>1
<1>4. expected = m % Page /\ found = IF fate = "lost" THEN m - 1 ELSE m
  BY <1>1, <1>3 DEF ToCome
<1>5. fate = "lost" => m > 0 /\ found = m - 1
  BY <1>0, <1>2, <1>4
<1>6. fate = "lost" => ~CountIsRight
  BY <1>2, <1>4, <1>5, OneLessDiffers DEF CountIsRight, Unknown
<1> QED BY <1>0, <1>6

\* The count of S-records is kept by every step.
LEMMA CountedStep ==
  ASSUME TInv, Counted, [Next]_vars
  PROVE  Counted'
<1>0. format \in {"ihex", "srec"} /\ format' = format
  <2>1. format \in {"ihex", "srec"}
    BY Given DEF TInv, Numbers
  <2>2. format' = format
    BY Opened DEF Next, Opening, IhexChunk, IhexEnd, IhexFails, SrecChunk, SrecEnd, IhexLine, SrecData, SrecCount,
                  SrecOther, FileEnds, vars, writerVars
  <2> QED BY <2>1, <2>2
<1>1. CASE format = "ihex"
  BY <1>0, <1>1 DEF Counted
<1>2. CASE format = "srec"
  <2>1. CASE UNCHANGED vars
    BY <2>1 DEF vars, writerVars, readerVars, Counted, ToCome, Shape, DataType
  <2>2. CASE SrecChunk
    <3>1. phase = "writing" /\ phase' = "writing" /\ end' = end
      BY <2>2 DEF SrecChunk
    <3>2. file' = Append(file, SrecRec) /\ SrecRec \in Records /\ SrecRec.type = DataType
      BY <2>2, SrecFile
    <3>3. \A k \in DOMAIN file : file[k].type = DataType
      BY <1>2, <3>1 DEF Counted
    <3>4. file \in Seq(Records) /\ DOMAIN file = 1 .. Len(file) /\ Len(file) \in Nat
      BY FileWritten
    <3>5. \A k \in DOMAIN file' : file'[k].type = DataType
      BY <3>2, <3>3, <3>4, Appended, FileFacts
    <3> QED BY <3>1, <3>5 DEF Counted, DataType
  <2>3. CASE SrecEnd
    BY <2>3, ShapeWritten
  <2>4. CASE Opening
    <3>1. phase' = "reading"
      BY <2>4, Opened
    <3>2. (\E m \in 0 .. end - start : ToCome(m))'
      BY <1>2, <2>4, ShapeOpened
    <3> QED BY <3>1, <3>2 DEF Counted
  <2>5. CASE SrecData \/ SrecCount \/ SrecOther
    <3>1. phase = "reading" /\ phase' \in {"reading", "error"}
      BY <2>5 DEF SrecData, SrecCount, SrecOther, OneLine
    <3>2. phase' = "reading" => (\E m \in 0 .. end - start : ToCome(m))'
      BY <2>5, ShapeReading
    <3> QED BY <3>1, <3>2 DEF Counted
  <2>6. CASE FileEnds
    <3>1. phase' \in {"ok", "error"} /\ fate' = fate
      BY <2>6 DEF FileEnds
    <3>2. phase' = "ok" => fate # "lost"
      BY <1>2, <2>6, CountedEnd
    <3> QED BY <3>1, <3>2 DEF Counted
  <2>7. CASE IhexChunk \/ IhexEnd \/ IhexFails \/ IhexLine
    BY <1>2, <2>7 DEF IhexChunk, IhexEnd, IhexFails, IhexLine
  <2> QED BY <2>1, <2>2, <2>3, <2>4, <2>5, <2>6, <2>7 DEF Next, Opening
<1> QED BY <1>0, <1>1, <1>2

\* A record of data that is missing never gets past the count of S5.
LEMMA CountInvariant == Spec => []Counted
<1>1. Init => TInv /\ Counted
  <2> SUFFICES ASSUME Init PROVE Counted
    BY InitialTypes
  <2>1. phase = "writing" /\ file = <<>> /\ DOMAIN file = {}
    BY EmptySeq DEF Init
  <2> QED BY <2>1 DEF Counted
<1>2. TInv /\ Counted /\ [Next]_vars => (TInv /\ Counted)'
  BY StepTypes, CountedStep
<1> QED BY <1>1, <1>2, PTL DEF Spec

\* What was changed in a byte, lost a record or was given a line that is none is refused by the
\* reader whose format can tell (srec.c:150-165, ihex.c:55-69).
THEOREM DamageIsDetected == Spec => []DamageDetected
<1>1. Damage /\ Counted => DamageDetected
  BY DEF Damage, Counted, DamageDetected
<1> QED BY <1>1, ChangeInvariant, CountInvariant, PTL
-----------------------------------------------------------------------------
(***************************************************************************)
(* Reading back.                                                           *)
(***************************************************************************)
\* Parts have bytes.
LEMMA PartType ==
  ASSUME TInv, NEW base, Layout(base), NEW q \in Parts(base)
  PROVE  /\ q.addr \in Nat /\ q.data \in Seq(Byte) /\ Len(q.data) \in Nat /\ Len(q.data) > 0 /\ Behind(q) \in Nat
         /\ DOMAIN q.data = 1 .. Len(q.data) /\ \A i \in DOMAIN q.data : q.data[i] \in Byte
<1>1. PICK k \in DataRecords : q = [addr |-> base[k] + file[k].addr, data |-> file[k].data]
  BY DEF Parts
<1>2. /\ k \in DOMAIN file /\ k \in 1 .. Len(file) + 1 /\ file[k] \in Records /\ RecordOK(file[k]) /\ IsData(file[k])
  BY FileWritten
<1>3. base[k] \in Nat
  BY <1>2 DEF Layout
<1>4. file[k].addr \in Nat /\ file[k].data \in Seq(Byte) /\ Len(file[k].data) > 0
  BY <1>2, Given DEF Records, RecordOK
<1>5. /\ Len(file[k].data) \in Nat /\ DOMAIN file[k].data = 1 .. Len(file[k].data)
      /\ \A i \in DOMAIN file[k].data : file[k].data[i] \in Byte
  BY <1>4, ByteSeq
<1>6. q.addr = base[k] + file[k].addr /\ q.data = file[k].data
  BY <1>1
<1>7. q.addr \in Nat /\ q.data \in Seq(Byte) /\ Len(q.data) \in Nat /\ Len(q.data) > 0
  BY <1>3, <1>4, <1>5, <1>6
<1> QED BY <1>5, <1>6, <1>7 DEF Behind

\* The same parts are as complete as they were, as long as nothing is read.
LEMMA SameParts ==
  ASSUME TInv, NEW P, Complete(P), UNCHANGED <<start, end, image, next, buf>>,
         lo' = lo \/ \A k \in DOMAIN buf : buf[k] = Hole
  PROVE  Complete(P)'
<1>1. Faithful(P)'
  BY DEF Complete, Faithful, Behind
<1>2. Covered(P)'
  <2>1. CASE lo' = lo
    BY <2>1 DEF Complete, Covered, Behind
  <2>2. CASE \A k \in DOMAIN buf : buf[k] = Hole
    <3> SUFFICES ASSUME NEW a \in start .. next - 1 PROVE \E q \in P : a \in q.addr .. Behind(q) - 1
      BY DEF Covered, Behind
    <3>1. a \in start .. end - 1
      BY Sizes
    <3>2. image[a] # Hole
      BY <3>1, Sizes
    <3> QED BY <2>2, <3>2 DEF Complete, Covered
  <2> QED BY <2>1, <2>2
<1> QED BY <1>1, <1>2 DEF Complete

\* A part more.
LEMMA MoreParts ==
  ASSUME TInv, NEW P, Complete(P), \A r \in P : Behind(r) \in Nat,
         UNCHANGED <<start, end, image, buf, lo>>,
         NEW n \in 1 .. end - next, next' = next + n,
         NEW q, q = [addr |-> next, data |-> Bytes(n)]
  PROVE  Complete(P \union {q})'
<1>0. /\ next \in Nat /\ start \in Nat /\ n \in Nat /\ n >= 1 /\ start <= next
      /\ end \in Nat /\ next + n <= end
  BY Sizes
<1>1. /\ Len(q.data) = n /\ DOMAIN q.data = 1 .. n /\ q.addr = next
      /\ \A i \in 1 .. n : q.data[i] = image[next + i - 1]
  BY BytesOf DEF TInv
<1>2. Behind(q) = next'
  BY <1>0, <1>1 DEF Behind
<1>3. Faithful(P \union {q})'
  <2> SUFFICES ASSUME NEW r \in P \union {q}
               PROVE  /\ r.addr >= start /\ Behind(r) <= next'
                      /\ \A i \in DOMAIN r.data : r.data[i] = image[r.addr + i - 1]
    BY DEF Faithful, Behind
  <2>1. CASE r \in P
    <3>1. /\ r.addr >= start /\ Behind(r) <= next /\ Behind(r) \in Nat
          /\ \A i \in DOMAIN r.data : r.data[i] = image[r.addr + i - 1]
      BY <2>1 DEF Complete, Faithful
    <3>2. Behind(r) <= next'
      BY <1>0, <3>1
    <3> QED BY <3>1, <3>2
  <2>2. CASE r = q
    BY <1>0, <1>1, <1>2, <2>2
  <2> QED BY <2>1, <2>2
<1>4. Covered(P \union {q})'
  <2> SUFFICES ASSUME NEW a \in start .. next' - 1
               PROVE  \/ a >= lo /\ a - lo \in DOMAIN buf /\ buf[a - lo] = image[a]
                      \/ \E r \in P \union {q} : a \in r.addr .. Behind(r) - 1
    BY DEF Covered, Behind
  <2>1. CASE a \in start .. next - 1
    BY <2>1 DEF Complete, Covered
  <2>2. CASE a \in next .. next' - 1
    <3>1. a \in q.addr .. Behind(q) - 1
      BY <1>1, <1>2, <2>2
    <3> QED BY <3>1
  <2> QED BY <1>0, <2>1, <2>2
<1> QED BY <1>3, <1>4 DEF Complete

\* A part that is read.
LEMMA PartRead ==
  ASSUME TInv, OnlyImage, NEW P, Complete(P), NEW q, NEW R, P = R \union {q},
         q.addr \in Nat, Len(q.data) \in Nat, Len(q.data) > 0, DOMAIN q.data = 1 .. Len(q.data),
         Fits(q.addr, Len(q.data)), next = end, UNCHANGED <<start, end, image, next, lo>>,
         buf' = Stored(q.addr - lo, q.data)
  PROVE  OnlyImage' /\ Complete(R)'
<1>0. /\ next \in Nat /\ start \in Nat /\ end \in Nat /\ lo \in Nat /\ hi \in Nat /\ hi <= MaxEnd /\ MaxEnd \in Nat
      /\ DOMAIN buf = Memory
  BY Sizes
<1>1. /\ q \in P /\ q.addr >= start /\ Behind(q) <= next /\ Behind(q) = q.addr + Len(q.data) /\ Behind(q) \in Nat
      /\ \A i \in 1 .. Len(q.data) : q.data[i] = image[q.addr + i - 1]
  BY DEF Complete, Faithful, Behind
<1>2. q.addr >= lo /\ Behind(q) <= hi
  BY <1>1 DEF Fits
<1>3. \A k \in Memory :
        buf'[k] = IF k + lo \in q.addr .. Behind(q) - 1 THEN image[k + lo] ELSE buf[k]
  <2> SUFFICES ASSUME NEW k \in Memory
               PROVE  buf'[k] = IF k + lo \in q.addr .. Behind(q) - 1 THEN image[k + lo] ELSE buf[k]
    OBVIOUS
  <2> DEFINE at == q.addr - lo
  <2>1. buf'[k] = IF k \in at .. at + Len(q.data) - 1 THEN q.data[k - at + 1] ELSE buf[k]
    BY <1>0 DEF Stored
  <2>0. PICK a \in Nat, l \in Nat : a = q.addr /\ l = Len(q.data) /\ Behind(q) = a + l /\ a >= lo
    BY <1>1, <1>2
  <2>n. /\ k \in a - lo .. (a - lo) + l - 1 <=> k + lo \in a .. a + l - 1
        /\ k + lo \in a .. a + l - 1 =>
             k - (a - lo) + 1 \in 1 .. l /\ a + (k - (a - lo) + 1) - 1 = k + lo
    <3>1. k \in Int /\ lo \in Nat
      BY <1>0, Cells
    <3>2. a >= lo
      BY <2>0
    <3> QED BY <3>1, <3>2
  <2>2. k \in at .. at + Len(q.data) - 1 <=> k + lo \in q.addr .. Behind(q) - 1
    BY <2>0, <2>n
  <2>3. ASSUME k + lo \in q.addr .. Behind(q) - 1 PROVE q.data[k - at + 1] = image[k + lo]
    <3>1. k - at + 1 \in 1 .. Len(q.data) /\ q.addr + (k - at + 1) - 1 = k + lo
      BY <2>0, <2>n, <2>3
    <3> HIDE DEF at
    <3> QED BY <1>1, <3>1
  <2> HIDE DEF at
  <2> QED BY <2>1, <2>2, <2>3
<1>4. DOMAIN buf' = Memory
  BY <1>0 DEF Stored
<1>5. OnlyImage'
  <2>1. \A k \in DOMAIN buf' : buf'[k] # Hole => k + lo \in start .. end - 1 /\ buf'[k] = image[k + lo]
    <3> SUFFICES ASSUME NEW k \in Memory, buf'[k] # Hole
                 PROVE  k + lo \in start .. end - 1 /\ buf'[k] = image[k + lo]
      BY <1>4
    <3>1. CASE k + lo \in q.addr .. Behind(q) - 1
      <4>1. k + lo \in start .. end - 1
        BY <1>0, <1>1, <3>1
      <4> QED BY <1>3, <3>1, <4>1
    <3>2. CASE k + lo \notin q.addr .. Behind(q) - 1
      BY <1>0, <1>3, <3>2 DEF OnlyImage
    <3> QED BY <3>1, <3>2
  <2> QED BY <2>1 DEF OnlyImage
<1>6. Faithful(R)'
  BY DEF Complete, Faithful, Behind
<1>7. Covered(R)'
  <2> SUFFICES ASSUME NEW a \in start .. next - 1
               PROVE  \/ a >= lo /\ a - lo \in DOMAIN buf' /\ buf'[a - lo] = image[a]
                      \/ \E r \in R : a \in r.addr .. Behind(r) - 1
    BY DEF Covered, Behind
  <2>1. CASE a \in q.addr .. Behind(q) - 1
    <3>1. a >= lo /\ a - lo \in Memory /\ (a - lo) + lo = a
      BY <1>0, <1>1, <1>2, <2>1, Cells
    <3> QED BY <1>3, <1>4, <2>1, <3>1
  <2>2. CASE a >= lo /\ a - lo \in DOMAIN buf /\ buf[a - lo] = image[a]
    <3>1. (a - lo) + lo = a /\ a - lo \in Memory
      BY <1>0, <2>2
    <3> QED BY <1>3, <1>4, <2>2, <3>1
  <2> QED BY <2>1, <2>2 DEF Complete, Covered
<1> QED BY <1>5, <1>6, <1>7 DEF Complete

\* The parts of a file with one record of data more.
LEMMA PartsGrow ==
  ASSUME TInv, format' = format, file' \in Seq(Records), NEW base, NEW b,
         NEW n \in Nat, Len(file') = n, Len(file) < n,
         \A k \in 1 .. Len(file) : file'[k] = file[k] /\ b[k] = base[k],
         \A k \in Len(file) + 1 .. n - 1 : ~IsData(file'[k]), IsData(file'[n])
  PROVE  Parts(b)' = Parts(base) \union {[addr |-> b[n] + file'[n].addr, data |-> file'[n].data]}
<1>1. DOMAIN file = 1 .. Len(file) /\ DOMAIN file' = 1 .. n /\ Len(file) \in Nat
  BY FileWritten, FileFacts
<1>2. \A k \in DOMAIN file' : IsData(file[k])' <=> IsData(file'[k])
  BY DEF IsData
<1>3. DataRecords' = DataRecords \union {n}
  <2>1. \A k \in 1 .. n : k \in 1 .. Len(file) \/ k \in Len(file) + 1 .. n - 1 \/ k = n
    BY <1>1
  <2>2. \A k \in 1 .. Len(file) : k \in 1 .. n
    BY <1>1
  <2> QED BY <1>1, <1>2, <2>1, <2>2 DEF DataRecords
<1> DEFINE Part(k)  == [addr |-> base[k] + file[k].addr, data |-> file[k].data]
           Later2(k) == [addr |-> b[k] + file'[k].addr, data |-> file'[k].data]
<1>4. \A k \in DataRecords : Later2(k) = Part(k)
  BY <1>1 DEF DataRecords
<1>5. Parts(base) = {Part(k) : k \in DataRecords} /\ Parts(b)' = {Later2(k) : k \in DataRecords'}
  BY DEF Parts
<1> HIDE DEF Part
<1>6. {Later2(k) : k \in DataRecords'} = {Part(k) : k \in DataRecords} \union {Later2(n)}
  <2> HIDE DEF Later2
  <2> QED BY <1>3, <1>4
<1> QED BY <1>5, <1>6

\* The parts of a file with the same records of data.
LEMMA PartsSame ==
  ASSUME NEW base, NEW b,
         \A k \in DataRecords' : \E j \in DataRecords :
           base[j] + file[j].addr = b[k] + file'[k].addr /\ file[j].data = file'[k].data,
         \A j \in DataRecords : \E k \in DataRecords' :
           base[j] + file[j].addr = b[k] + file'[k].addr /\ file[j].data = file'[k].data
  PROVE  Parts(b)' = Parts(base)
<1>1. Parts(b)' \subseteq Parts(base)
  BY DEF Parts
<1>2. Parts(base) \subseteq Parts(b)'
  BY DEF Parts
<1> QED BY <1>1, <1>2

\* A chunk of Intel HEX.
LEMMA IhexGrows ==
  ASSUME TInv, IhexChunk, NEW base, Layout(base)
  PROVE  \E b : Layout(b)' /\ Parts(b)' = Parts(base) \union {[addr |-> next, data |-> Bytes(IhexLen)]}
<1>0. /\ format = "ihex" /\ phase = "writing" /\ format' = "ihex" /\ phase' = "writing" /\ offset' = offset
      /\ next < end /\ curEla' = next \div Page
      /\ file \in Seq(Records) /\ Len(file) \in Nat /\ DOMAIN file = 1 .. Len(file) /\ Numbers
  BY FileWritten DEF TInv, IhexChunk, readerVars
<1>1. /\ DataRec \in Records /\ ElaRec \in Records
      /\ DataRec.type = 0 /\ DataRec.addr = next % Page /\ DataRec.data = Bytes(IhexLen)
      /\ ElaRec.type = 4 /\ ElaRec.data[1] = next \div Page
  BY <1>0, IhexRecords
<1> HIDE DEF DataRec, ElaRec
<1>2. /\ next \div Page \in Nat /\ (next \div Page) * Page \in Nat /\ next % Page \in Nat
      /\ next = (next \div Page) * Page + (next % Page)
  <2>1. next \in Nat
    BY Sizes
  <2>2. next % Page \in 0 .. Page - 1
    BY <2>1, Paged
  <2>3. next % Page \in Nat
    BY <2>2, Given
  <2> QED BY <2>1, <2>3, Paged
<1>3. /\ base \in [1 .. Len(file) + 1 -> Nat] /\ base[1] = offset
      /\ \A k \in DOMAIN file : base[k + 1] = NextBase(file[k], base[k])
      /\ IF curEla = -1 THEN file = <<>> ELSE base[Len(file) + 1] = curEla * Page
  BY <1>0 DEF Layout
<1>4. PICK u \in Nat : u = (next \div Page) * Page
  BY <1>2
<1>5. PICK l \in Nat : l = Len(file)
  BY <1>0
<1>6. CASE curEla = next \div Page
  <2>1. /\ file' \in Seq(Records) /\ Len(file') = l + 1 /\ file'[l + 1] = DataRec
        /\ \A k \in 1 .. l : file'[k] = file[k]
    BY <1>0, <1>1, <1>5, <1>6, IhexFile, Appended
  <2> DEFINE b == [k \in 1 .. l + 2 |-> IF k <= l + 1 THEN base[k] ELSE u]
  <2>2. base[l + 1] = u
    BY <1>2, <1>3, <1>4, <1>5, <1>6
  <2>3. b \in [1 .. l + 2 -> Nat] /\ b[1] = offset /\ b[l + 1] = u /\ b[l + 2] = u
        /\ \A k \in 1 .. l + 1 : b[k] = base[k]
    BY <1>3, <1>5, <2>2
  <2> HIDE DEF b
  <2>4. \A k \in 1 .. l + 1 : b[k + 1] = NextBase(file'[k], b[k])
    <3> SUFFICES ASSUME NEW k \in 1 .. l + 1 PROVE b[k + 1] = NextBase(file'[k], b[k])
      OBVIOUS
    <3>1. CASE k \in 1 .. l
      <4>1. k + 1 \in 1 .. l + 1 /\ k \in 1 .. l + 1 /\ k \in DOMAIN file
        BY <1>0, <1>5, <3>1
      <4> QED BY <1>3, <2>1, <2>3, <3>1, <4>1
    <3>2. CASE k = l + 1
      <4>1. (l + 1) + 1 = l + 2
        OBVIOUS
      <4>2. NextBase(file'[k], b[k]) = b[k]
        BY <1>1, <2>1, <3>2 DEF NextBase
      <4> QED BY <2>3, <3>2, <4>1, <4>2
    <3> QED BY <3>1, <3>2
  <2>5. DOMAIN file' = 1 .. l + 1 /\ Len(file') + 1 = l + 2
    BY <2>1, FileFacts
  <2>6. curEla' # -1 /\ b[l + 2] = curEla' * Page
    BY <1>0, <1>2, <1>4, <2>3
  <2>7. Layout(b)'
    <3>1. \A k \in DOMAIN file' : b[k + 1] = NextBase(file[k], b[k])'
      BY <1>0, <2>4, <2>5 DEF NextBase
    <3> QED BY <1>0, <2>3, <2>5, <2>6, <3>1 DEF Layout
  <2>8. Parts(b)' = Parts(base) \union {[addr |-> b[l + 1] + file'[l + 1].addr, data |-> file'[l + 1].data]}
    <3>1. \A k \in Len(file) + 1 .. (l + 1) - 1 : ~IsData(file'[k])
      BY <1>5
    <3>2. IsData(file'[l + 1]) /\ l + 1 \in Nat /\ Len(file) < l + 1
      BY <1>0, <1>1, <1>5, <2>1 DEF IsData
    <3>3. \A k \in 1 .. Len(file) : file'[k] = file[k] /\ b[k] = base[k]
      BY <1>5, <2>1, <2>3
    <3> QED BY <1>0, <2>1, <3>1, <3>2, <3>3, PartsGrow
  <2>9. b[l + 1] + file'[l + 1].addr = next /\ file'[l + 1].data = Bytes(IhexLen)
    BY <1>1, <1>2, <1>4, <2>1, <2>3
  <2> QED BY <2>7, <2>8, <2>9
<1>7. CASE curEla # next \div Page
  <2>1. /\ file' \in Seq(Records) /\ Len(file') = l + 2 /\ file'[l + 1] = ElaRec /\ file'[l + 2] = DataRec
        /\ \A k \in 1 .. l : file'[k] = file[k]
    <3>1. file' = Append(Append(file, ElaRec), DataRec)
      BY <1>7, IhexFile
    <3>2. /\ Append(file, ElaRec) \in Seq(Records) /\ Len(Append(file, ElaRec)) = l + 1
          /\ Append(file, ElaRec)[l + 1] = ElaRec /\ \A k \in 1 .. l : Append(file, ElaRec)[k] = file[k]
      BY <1>0, <1>1, <1>5, Appended
    <3>3. PICK f \in Seq(Records) : f = Append(file, ElaRec)
      BY <3>2
    <3>4. /\ file' \in Seq(Records) /\ Len(file') = Len(f) + 1 /\ file'[Len(f) + 1] = DataRec
          /\ \A k \in 1 .. Len(f) : file'[k] = f[k]
      BY <1>1, <3>1, <3>3, Appended
    <3>5. Len(f) = l + 1 /\ (l + 1) + 1 = l + 2 /\ f[l + 1] = ElaRec /\ \A k \in 1 .. l : f[k] = file[k]
      BY <3>2, <3>3
    <3>6. l + 1 \in 1 .. l + 1 /\ \A k \in 1 .. l : k \in 1 .. l + 1
      OBVIOUS
    <3> QED BY <3>4, <3>5, <3>6
  <2> DEFINE b == [k \in 1 .. l + 3 |-> IF k <= l + 1 THEN base[k] ELSE u]
  <2>3. b \in [1 .. l + 3 -> Nat] /\ b[1] = offset /\ b[l + 2] = u /\ b[l + 3] = u
        /\ \A k \in 1 .. l + 1 : b[k] = base[k]
    BY <1>3, <1>5
  <2> HIDE DEF b
  <2>4. \A k \in 1 .. l + 2 : b[k + 1] = NextBase(file'[k], b[k])
    <3> SUFFICES ASSUME NEW k \in 1 .. l + 2 PROVE b[k + 1] = NextBase(file'[k], b[k])
      OBVIOUS
    <3>1. CASE k \in 1 .. l
      <4>1. k + 1 \in 1 .. l + 1 /\ k \in 1 .. l + 1 /\ k \in DOMAIN file
        BY <1>0, <1>5, <3>1
      <4> QED BY <1>3, <2>1, <2>3, <3>1, <4>1
    <3>2. CASE k = l + 1
      <4>1. (l + 1) + 1 = l + 2
        OBVIOUS
      <4>2. NextBase(file'[k], b[k]) = u
        BY <1>0, <1>1, <1>4, <2>1, <3>2 DEF NextBase
      <4> QED BY <2>3, <3>2, <4>1, <4>2
    <3>3. CASE k = l + 2
      <4>1. (l + 2) + 1 = l + 3
        OBVIOUS
      <4>2. NextBase(file'[k], b[k]) = b[k]
        BY <1>1, <2>1, <3>3 DEF NextBase
      <4> QED BY <2>3, <3>3, <4>1, <4>2
    <3> QED BY <3>1, <3>2, <3>3
  <2>5. DOMAIN file' = 1 .. l + 2 /\ Len(file') + 1 = l + 3
    BY <2>1, FileFacts
  <2>6. curEla' # -1 /\ b[l + 3] = curEla' * Page
    BY <1>0, <1>2, <1>4, <2>3
  <2>7. Layout(b)'
    <3>1. \A k \in DOMAIN file' : b[k + 1] = NextBase(file[k], b[k])'
      BY <1>0, <2>4, <2>5 DEF NextBase
    <3> QED BY <1>0, <2>3, <2>5, <2>6, <3>1 DEF Layout
  <2>8. Parts(b)' = Parts(base) \union {[addr |-> b[l + 2] + file'[l + 2].addr, data |-> file'[l + 2].data]}
    <3>1. \A k \in Len(file) + 1 .. (l + 2) - 1 : ~IsData(file'[k])
      <4>1. \A k \in Len(file) + 1 .. (l + 2) - 1 : k = l + 1
        BY <1>5
      <4> QED BY <1>0, <1>1, <2>1, <4>1 DEF IsData
    <3>2. IsData(file'[l + 2]) /\ l + 2 \in Nat /\ Len(file) < l + 2
      BY <1>0, <1>1, <1>5, <2>1 DEF IsData
    <3>3. \A k \in 1 .. Len(file) : file'[k] = file[k] /\ b[k] = base[k]
      BY <1>5, <2>1, <2>3
    <3>4. format' = format /\ file' \in Seq(Records) /\ Len(file') = l + 2
      BY <1>0, <2>1
    <3> QED BY <3>1, <3>2, <3>3, <3>4, PartsGrow
  <2>9. b[l + 2] + file'[l + 2].addr = next /\ file'[l + 2].data = Bytes(IhexLen)
    BY <1>1, <1>2, <1>4, <2>1, <2>3
  <2> QED BY <2>7, <2>8, <2>9
<1> QED BY <1>6, <1>7

\* No upper parts of addresses in S-records.
LEMMA SrecLayout ==
  ASSUME TInv, format = "srec", format' = format, offset = 0, offset' = 0, file' \in Seq(Records),
         NEW b, b = [k \in 1 .. Len(file') + 1 |-> 0]
  PROVE  Layout(b)'
<1>1. Len(file') \in Nat /\ DOMAIN file' = 1 .. Len(file')
  BY FileFacts
<1>2. \A k \in DOMAIN file' : NextBase(file[k], b[k])' = b[k]
  BY DEF NextBase
<1>3. \A k \in DOMAIN file' : k \in 1 .. Len(file') + 1 /\ k + 1 \in 1 .. Len(file') + 1
  BY <1>1
<1>4. \A k \in DOMAIN file' : b[k + 1] = NextBase(file[k], b[k])'
  BY <1>2, <1>3
<1>5. b \in [1 .. Len(file') + 1 -> Nat] /\ b[1] = 0 /\ \A k \in DOMAIN b : b[k] = 0
  BY <1>1
<1> QED BY <1>1, <1>4, <1>5 DEF Layout

\* A chunk of S-records.
LEMMA SrecGrows ==
  ASSUME TInv, SrecChunk, NEW base, Layout(base)
  PROVE  \E b : Layout(b)' /\ Parts(b)' = Parts(base) \union {[addr |-> next, data |-> Bytes(SrecLen)]}
<1>0. /\ format = "srec" /\ phase = "writing" /\ format' = format /\ offset' = offset /\ offset = 0
      /\ file \in Seq(Records) /\ Len(file) \in Nat /\ DOMAIN file = 1 .. Len(file)
  BY FileWritten DEF TInv, SrecChunk, readerVars, Reader, Before
<1>1. /\ file' = Append(file, SrecRec) /\ SrecRec \in Records /\ next \in Nat
      /\ SrecRec.type \in 1 .. 3 /\ SrecRec.addr = next /\ SrecRec.data = Bytes(SrecLen)
  BY SrecFile, Sizes DEF DataType
<1> HIDE DEF SrecRec
<1>2. PICK l \in Nat : l = Len(file)
  BY <1>0
<1>3. /\ file' \in Seq(Records) /\ Len(file') = l + 1 /\ file'[l + 1] = SrecRec
      /\ \A k \in 1 .. l : file'[k] = file[k]
  BY <1>0, <1>1, <1>2, Appended
<1>4. PICK b : b = [k \in 1 .. Len(file') + 1 |-> 0]
  OBVIOUS
<1>5. Layout(b)'
  BY <1>0, <1>3, <1>4, SrecLayout
<1>6. \A k \in 1 .. l + 1 : b[k] = 0 /\ base[k] = 0
  BY <1>0, <1>2, <1>3, <1>4 DEF Layout
<1>7. Parts(b)' = Parts(base) \union {[addr |-> b[l + 1] + file'[l + 1].addr, data |-> file'[l + 1].data]}
  <2>1. \A k \in Len(file) + 1 .. (l + 1) - 1 : ~IsData(file'[k])
    BY <1>2
  <2>2. IsData(file'[l + 1]) /\ l + 1 \in Nat /\ Len(file) < l + 1
    BY <1>0, <1>1, <1>2, <1>3 DEF IsData
  <2>3. \A k \in 1 .. Len(file) : file'[k] = file[k] /\ b[k] = base[k]
    BY <1>2, <1>3, <1>6
  <2>4. format' = format /\ file' \in Seq(Records) /\ Len(file') = l + 1
    BY <1>0, <1>3
  <2> QED BY <2>1, <2>2, <2>3, <2>4, PartsGrow
<1>8. b[l + 1] + file'[l + 1].addr = next /\ file'[l + 1].data = Bytes(SrecLen)
  BY <1>1, <1>3, <1>6
<1> QED BY <1>5, <1>7, <1>8

\* The end of a file of Intel HEX.
LEMMA IhexCloses ==
  ASSUME TInv, IhexEnd, NEW base, Layout(base)
  PROVE  \E b : Layout(b)' /\ Parts(b)' = Parts(base)
<1>0. /\ format = "ihex" /\ format' = "ihex" /\ phase' = "file" /\ offset' = offset
      /\ file \in Seq(Records) /\ Len(file) \in Nat /\ DOMAIN file = 1 .. Len(file)
  BY FileWritten DEF IhexEnd, writerVars, readerVars
<1> DEFINE r == Ihex(1, 0, <<>>)
<1>1. file' = Append(file, r) /\ r \in Records /\ r.type = 1
  <2>1. r \in Records /\ r.type = 1
    BY EmptyRecords, Zenon
  <2> QED BY <2>1 DEF IhexEnd
<1> HIDE DEF r
<1>2. PICK l \in Nat : l = Len(file)
  BY <1>0
<1>3. /\ file' \in Seq(Records) /\ Len(file') = l + 1 /\ file'[l + 1].type = 1
      /\ \A k \in 1 .. l : file'[k] = file[k]
  BY <1>0, <1>1, <1>2, Appended
<1>4. DOMAIN file' = 1 .. l + 1 /\ Len(file') + 1 = l + 2
  BY <1>3, FileFacts
<1>5. /\ base \in [1 .. l + 1 -> Nat] /\ base[1] = offset
      /\ \A k \in 1 .. l : base[k + 1] = NextBase(file[k], base[k])
  BY <1>0, <1>2 DEF Layout
<1> DEFINE b == [k \in 1 .. l + 2 |-> IF k <= l + 1 THEN base[k] ELSE base[l + 1]]
<1>6. b \in [1 .. l + 2 -> Nat] /\ b[1] = offset /\ b[l + 2] = b[l + 1] /\ \A k \in 1 .. l + 1 : b[k] = base[k]
  BY <1>5
<1> HIDE DEF b
<1>7. \A k \in 1 .. l + 1 : b[k + 1] = NextBase(file'[k], b[k])
  <2> SUFFICES ASSUME NEW k \in 1 .. l + 1 PROVE b[k + 1] = NextBase(file'[k], b[k])
    OBVIOUS
  <2>1. CASE k \in 1 .. l
    <3>1. k + 1 \in 1 .. l + 1 /\ k \in 1 .. l + 1
      BY <2>1
    <3> QED BY <1>3, <1>5, <1>6, <2>1, <3>1
  <2>2. CASE k = l + 1
    <3>1. (l + 1) + 1 = l + 2
      OBVIOUS
    <3>2. NextBase(file'[k], b[k]) = b[k]
      BY <1>3, <2>2 DEF NextBase
    <3> QED BY <1>6, <2>2, <3>1, <3>2
  <2> QED BY <2>1, <2>2
<1>8. Layout(b)'
  <2>1. \A k \in DOMAIN file' : b[k + 1] = NextBase(file[k], b[k])'
    BY <1>0, <1>4, <1>7 DEF NextBase
  <2> QED BY <1>0, <1>4, <1>6, <2>1 DEF Layout
<1>9. DataRecords' = DataRecords
  <2>1. \A k \in 1 .. l + 1 : k \in 1 .. l \/ k = l + 1
    OBVIOUS
  <2>2. \A k \in 1 .. l : k \in 1 .. l + 1
    OBVIOUS
  <2>3. \A k \in 1 .. l : IsData(file[k])' <=> IsData(file[k])
    BY <1>0, <1>3 DEF IsData
  <2>4. ~IsData(file[l + 1])'
    BY <1>0, <1>3 DEF IsData
  <2> QED BY <1>0, <1>2, <1>4, <2>1, <2>2, <2>3, <2>4 DEF DataRecords
<1>10. \A k \in DataRecords : base[k] + file[k].addr = b[k] + file'[k].addr /\ file[k].data = file'[k].data
  BY <1>0, <1>2, <1>3, <1>6 DEF DataRecords
<1>11. Parts(b)' = Parts(base)
  BY <1>9, <1>10, PartsSame
<1> QED BY <1>8, <1>11

\* The end of a file of S-records.
LEMMA SrecCloses ==
  ASSUME TInv, SrecEnd, NEW base, Layout(base)
  PROVE  \E b : Layout(b)' /\ Parts(b)' = Parts(base)
<1>0. /\ format = "srec" /\ format' = format /\ offset' = offset /\ offset = 0
      /\ file \in Seq(Records) /\ Len(file) \in Nat /\ DOMAIN file = 1 .. Len(file)
  BY FileWritten DEF TInv, SrecEnd, writerVars, readerVars, Reader, Before
<1>1. PICK l \in Nat : l = Len(file)
  BY <1>0
<1>2. /\ file' \in Seq(Records) /\ Len(file') = l + 3 /\ file'[1].type = 0
      /\ \A k \in 1 .. l : file'[k + 1] = file[k]
      /\ file'[l + 2].type = 5 /\ file'[l + 3].type \in 7 .. 9
  BY <1>1, SrecFinished
<1>3. PICK b : b = [k \in 1 .. Len(file') + 1 |-> 0]
  OBVIOUS
<1>4. Layout(b)'
  BY <1>0, <1>2, <1>3, SrecLayout
<1>5. (\A k \in 1 .. l + 4 : b[k] = 0) /\ \A k \in 1 .. l : base[k] = 0
  BY <1>0, <1>1, <1>2, <1>3 DEF Layout
<1>6. DOMAIN file' = 1 .. l + 3
  BY <1>2, FileFacts
<1>7. \A k \in DataRecords' : k - 1 \in DataRecords /\ (k - 1) + 1 = k
  <2> SUFFICES ASSUME NEW k \in DOMAIN file', IsData(file[k])' PROVE k - 1 \in DataRecords /\ (k - 1) + 1 = k
    BY DEF DataRecords
  <2>1. file'[k].type \in 1 .. 3
    BY <1>0 DEF IsData
  <2>2. k # 1 /\ k # l + 2 /\ k # l + 3
    BY <1>2, <2>1
  <2>3. k - 1 \in 1 .. l /\ (k - 1) + 1 = k
    BY <1>6, <2>2
  <2>4. file'[k] = file[k - 1]
    BY <1>2, <2>3
  <2> QED BY <1>0, <1>1, <2>1, <2>3, <2>4 DEF DataRecords, IsData
<1>8. \A k \in DataRecords : k + 1 \in DataRecords' /\ k \in 1 .. l
  <2> SUFFICES ASSUME NEW k \in DataRecords PROVE k + 1 \in DataRecords' /\ k \in 1 .. l
    OBVIOUS
  <2>1. k \in 1 .. l /\ IsData(file[k])
    BY <1>0, <1>1 DEF DataRecords
  <2>2. k + 1 \in DOMAIN file' /\ file'[k + 1] = file[k]
    BY <1>2, <1>6, <2>1
  <2> QED BY <1>0, <2>1, <2>2 DEF DataRecords, IsData
<1>9. \A k \in DataRecords :
        base[k] + file[k].addr = b[k + 1] + file'[k + 1].addr /\ file[k].data = file'[k + 1].data
  <2> SUFFICES ASSUME NEW k \in DataRecords
               PROVE base[k] + file[k].addr = b[k + 1] + file'[k + 1].addr /\ file[k].data = file'[k + 1].data
    OBVIOUS
  <2>1. k \in 1 .. l /\ k + 1 \in 1 .. l + 4
    BY <1>8
  <2> QED BY <1>2, <1>5, <2>1
<1>10. Parts(b)' = Parts(base)
  <2>1. \A k \in DataRecords' : \E j \in DataRecords :
          base[j] + file[j].addr = b[k] + file'[k].addr /\ file[j].data = file'[k].data
    BY <1>7, <1>9
  <2>2. \A j \in DataRecords : \E k \in DataRecords' :
          base[j] + file[j].addr = b[k] + file'[k].addr /\ file[j].data = file'[k].data
    BY <1>8, <1>9
  <2> QED BY <2>1, <2>2, PartsSame
<1> QED BY <1>4, <1>10

\* A file of Intel HEX that is kept, or rewritten with segments.
LEMMA IhexOpens ==
  ASSUME TInv, Kept \/ Foreign, format = "ihex", NEW base, Layout(base)
  PROVE  Layout(base)' /\ Parts(base)' = Parts(base) /\ \A k \in DOMAIN file' : file[k].type # -1 => file'[k].type # -1
<1>0. /\ phase' = "reading" /\ format' = "ihex" /\ offset' = offset
      /\ file \in Seq(Records) /\ DOMAIN file = 1 .. Len(file)
      /\ \A k \in DOMAIN file : file[k] \in Records /\ RecordOK(file[k])
  BY Opened, FileWritten DEF Opening
<1>1. /\ file' \in Seq(Records) /\ Len(file') = Len(file)
      /\ \/ file' = file
         \/ \A k \in DOMAIN file : file'[k] = AsSegment(file[k])
  <2>1. CASE Kept
    BY <1>0, <2>1 DEF Kept, OpenFile
  <2>2. CASE Foreign
    BY <2>2, ForeignIhex
  <2> QED BY <2>1, <2>2
<1>2. DOMAIN file' = DOMAIN file
  BY <1>0, <1>1, FileFacts
<1>3. \A k \in DOMAIN file :
        /\ NextBase(file'[k], base[k]) = NextBase(file[k], base[k])
        /\ file'[k].type = 0 <=> file[k].type = 0
        /\ file'[k].type = 0 => file'[k] = file[k]
        /\ file[k].type # -1 => file'[k].type # -1
  <2> SUFFICES ASSUME NEW k \in DOMAIN file
               PROVE  /\ NextBase(file'[k], base[k]) = NextBase(file[k], base[k])
                      /\ file'[k].type = 0 <=> file[k].type = 0
                      /\ file'[k].type = 0 => file'[k] = file[k]
                      /\ file[k].type # -1 => file'[k].type # -1
    OBVIOUS
  <2>1. CASE file'[k] = file[k]
    BY <2>1
  <2>2. CASE file'[k] = AsSegment(file[k]) /\ file[k].type = 4
    <3>1. file'[k].type = 2 /\ file'[k].data[1] * Segment = file[k].data[1] * Page
      BY <1>0, <2>2, SegmentRecord
    <3> QED BY <2>2, <3>1 DEF NextBase
  <2>3. CASE file'[k] = AsSegment(file[k]) /\ file[k].type # 4
    <3>1. file'[k] = file[k]
      BY <2>3 DEF AsSegment
    <3> QED BY <3>1
  <2> QED BY <1>1, <2>1, <2>2, <2>3
<1>4. Layout(base)'
  <2>1. \A k \in DOMAIN file' : NextBase(file[k], base[k])' = NextBase(file[k], base[k])
    BY <1>0, <1>2, <1>3 DEF NextBase
  <2>2. /\ base \in [1 .. Len(file) + 1 -> Nat] /\ base[1] = offset
        /\ \A k \in DOMAIN file : base[k + 1] = NextBase(file[k], base[k])
    BY DEF Layout
  <2>3. \A k \in DOMAIN file' : base[k + 1] = NextBase(file[k], base[k])'
    BY <1>2, <2>1, <2>2
  <2> QED BY <1>0, <1>1, <2>2, <2>3 DEF Layout
<1>5. DataRecords' = DataRecords
  BY <1>0, <1>2, <1>3 DEF DataRecords, IsData
<1>6. \A k \in DataRecords : file'[k] = file[k]
  BY <1>0, <1>3 DEF DataRecords, IsData
<1>7. Parts(base)' = Parts(base)
  BY <1>5, <1>6, PartsSame
<1> QED BY <1>2, <1>3, <1>4, <1>7

\* A file of S-records that is kept, or read in the opposite order.
LEMMA SrecOpens ==
  ASSUME TInv, Counted, Kept \/ Foreign, format = "srec", NEW base, Layout(base)
  PROVE  \E b : Layout(b)' /\ Parts(b)' = Parts(base)
<1>0. /\ phase = "file" /\ format' = format /\ offset' = offset /\ offset = 0
  BY Opened DEF Opening, TInv, Reader, Before
<1>1. CASE Kept
  <2>1. file' = file /\ phase' = "reading"
    BY <1>1 DEF Kept, OpenFile
  <2>2. Layout(base)'
    BY <1>0, <2>1 DEF Layout, NextBase
  <2>3. Parts(base)' = Parts(base)
    BY <1>0, <2>1 DEF Parts, DataRecords, IsData
  <2> QED BY <2>2, <2>3
<1>2. CASE Foreign
  <2>1. PICK m \in Nat : DataRecords = 2 .. m + 1 /\ Len(file) = m + 3 /\ DOMAIN file = 1 .. m + 3
    BY <1>0, FileShape
  <2>2. /\ file' \in Seq(Records) /\ Len(file') = m + 4 /\ file'[1].type = -1
        /\ \A k \in 1 .. m + 3 : file'[k + 1] = IF k \in 2 .. m + 1 THEN file[m + 3 - k] ELSE file[k]
    <3>1. /\ file' \in Seq(Records) /\ Len(file') = Len(file) + 1 /\ file'[1] = NoRecord
          /\ \A k \in DOMAIN file : file'[k + 1] = IF k \in DataRecords THEN file[Len(file) - k] ELSE file[k]
      BY <1>2, ForeignSrec
    <3>2. Len(file') = m + 4
      BY <2>1, <3>1
    <3>3. \A k \in 1 .. m + 3 : file'[k + 1] = IF k \in 2 .. m + 1 THEN file[m + 3 - k] ELSE file[k]
      <4> SUFFICES ASSUME NEW k \in 1 .. m + 3
                   PROVE  file'[k + 1] = IF k \in 2 .. m + 1 THEN file[m + 3 - k] ELSE file[k]
        OBVIOUS
      <4>1. k \in DOMAIN file /\ (k \in DataRecords <=> k \in 2 .. m + 1) /\ Len(file) - k = m + 3 - k
        BY <2>1
      <4>2. file'[k + 1] = IF k \in DataRecords THEN file[Len(file) - k] ELSE file[k]
        BY <3>1, <4>1
      <4> QED BY <4>1, <4>2
    <3> QED BY <3>1, <3>2, <3>3, NoRecordType
  <2>3. PICK b : b = [k \in 1 .. Len(file') + 1 |-> 0]
    OBVIOUS
  <2>4. Layout(b)'
    BY <1>0, <2>2, <2>3, SrecLayout
  <2>5. (\A k \in 1 .. m + 5 : b[k] = 0) /\ \A k \in 1 .. m + 3 : base[k] = 0
    BY <2>1, <2>2, <2>3 DEF Layout
  <2>6. \A k \in 2 .. m + 1 : /\ m + 3 - k \in 2 .. m + 1 /\ k + 1 \in 1 .. m + 4 /\ k \in 1 .. m + 3
                              /\ m + 3 - (m + 3 - k) = k /\ file'[k + 1] = file[m + 3 - k]
    <3> SUFFICES ASSUME NEW k \in 2 .. m + 1
                 PROVE  /\ m + 3 - k \in 2 .. m + 1 /\ k + 1 \in 1 .. m + 4 /\ k \in 1 .. m + 3
                        /\ m + 3 - (m + 3 - k) = k /\ file'[k + 1] = file[m + 3 - k]
      OBVIOUS
    <3>1. m + 3 - k \in 2 .. m + 1 /\ k + 1 \in 1 .. m + 4 /\ k \in 1 .. m + 3 /\ m + 3 - (m + 3 - k) = k
      OBVIOUS
    <3>2. file'[k + 1] = file[m + 3 - k]
      BY <2>2, <3>1
    <3> QED BY <3>1, <3>2
  <2>7. \A k \in 2 .. m + 1 : file[k].type \in 1 .. 3
    BY <1>0, <2>1 DEF DataRecords, IsData
  <2>8. DOMAIN file' = 1 .. m + 4
    BY <2>2, FileFacts
  <2>9. DataRecords' = {k + 1 : k \in 2 .. m + 1}
    <3>1. ASSUME NEW k \in DOMAIN file', IsData(file[k])' PROVE k - 1 \in 2 .. m + 1 /\ (k - 1) + 1 = k
      <4>1. file'[k].type \in 1 .. 3
        BY <1>0, <3>1 DEF IsData
      <4>2. k - 1 \in 1 .. m + 3 /\ (k - 1) + 1 = k
        BY <2>2, <2>8, <4>1
      <4>3. CASE k - 1 \notin 2 .. m + 1
        <5>1. file'[k] = file[k - 1]
          BY <2>2, <4>2, <4>3
        <5>2. k - 1 \in DataRecords
          BY <1>0, <2>1, <4>1, <4>2, <5>1 DEF DataRecords, IsData
        <5> QED BY <2>1, <4>3, <5>2
      <4> QED BY <4>2, <4>3
    <3>2. ASSUME NEW k \in 2 .. m + 1 PROVE k + 1 \in DOMAIN file' /\ IsData(file[k + 1])'
      <4>1. file'[k + 1].type \in 1 .. 3
        BY <2>6, <2>7
      <4> QED BY <1>0, <2>6, <2>8, <4>1 DEF IsData
    <3> QED BY <3>1, <3>2 DEF DataRecords
  <2>10. ASSUME NEW k \in 2 .. m + 1
         PROVE  /\ base[m + 3 - k] + file[m + 3 - k].addr = b[k + 1] + file'[k + 1].addr
                /\ file[m + 3 - k].data = file'[k + 1].data
    <3>1. m + 3 - k \in 1 .. m + 3 /\ k + 1 \in 1 .. m + 5
      OBVIOUS
    <3>2. base[m + 3 - k] = 0 /\ b[k + 1] = 0 /\ file'[k + 1] = file[m + 3 - k]
      BY <2>5, <2>6, <3>1
    <3> QED BY <3>2
  <2>11. \A k \in DataRecords' : \E j \in DataRecords :
           base[j] + file[j].addr = b[k] + file'[k].addr /\ file[j].data = file'[k].data
    BY <2>1, <2>6, <2>9, <2>10
  <2>12. \A j \in DataRecords : \E k \in DataRecords' :
           base[j] + file[j].addr = b[k] + file'[k].addr /\ file[j].data = file'[k].data
    <3> SUFFICES ASSUME NEW j \in 2 .. m + 1
                 PROVE  \E k \in DataRecords' :
                          base[j] + file[j].addr = b[k] + file'[k].addr /\ file[j].data = file'[k].data
      BY <2>1
    <3>1. PICK k \in 2 .. m + 1 : m + 3 - k = j
      BY <2>6
    <3>2. base[j] + file[j].addr = b[k + 1] + file'[k + 1].addr /\ file[j].data = file'[k + 1].data
      BY <2>10, <3>1
    <3> QED BY <2>9, <3>2
  <2>13. Parts(b)' = Parts(base)
    BY <2>11, <2>12, PartsSame
  <2> QED BY <2>4, <2>13
<1> QED BY <1>1, <1>2

\* A line that is read: its part goes, the others stay.
LEMMA LineGoes ==
  ASSUME TInv, OneLine, format' = format, phase' # "writing",
         NEW base, Layout(base), offset' = NextBase(Line, offset)
  PROVE  \E b : /\ Layout(b)'
                /\ Parts(base) = Parts(b)' \union
                     (IF IsData(Line) THEN {[addr |-> Line.addr + offset, data |-> Line.data]} ELSE {})
<1>0. /\ phase = "reading" /\ file' \in Seq(Records) /\ Len(file') = Len(file) - 1 /\ Len(file) > 0
      /\ Line = file[1] /\ file \in Seq(Records) /\ Len(file) \in Nat /\ DOMAIN file = 1 .. Len(file)
      /\ \A k \in DOMAIN file' : k + 1 \in DOMAIN file /\ file'[k] = file[k + 1]
  BY LineRead, FileWritten DEF OneLine
<1>1. PICK l \in Nat : Len(file) = l + 1
  <2>1. Len(file) - 1 \in Nat /\ Len(file) = (Len(file) - 1) + 1
    BY <1>0
  <2> QED BY <2>1
<1>2. Len(file') = l /\ DOMAIN file' = 1 .. l /\ DOMAIN file = 1 .. l + 1
  BY <1>0, <1>1, FileFacts
<1>3. /\ base \in [1 .. l + 2 -> Nat] /\ base[1] = offset
      /\ \A k \in 1 .. l + 1 : base[k + 1] = NextBase(file[k], base[k])
      /\ format = "srec" => \A k \in 1 .. l + 2 : base[k] = 0
  <2>1. Len(file) + 1 = l + 2
    BY <1>1
  <2> QED BY <1>2, <2>1 DEF Layout
<1> DEFINE b == [k \in 1 .. l + 1 |-> base[k + 1]]
<1>4. b \in [1 .. l + 1 -> Nat] /\ \A k \in 1 .. l + 1 : b[k] = base[k + 1] /\ k + 1 \in 1 .. l + 2
  BY <1>3
<1> HIDE DEF b
<1>5. Layout(b)'
  <2>1. \A k \in DOMAIN file' : b[k + 1] = NextBase(file[k], b[k])'
    <3> SUFFICES ASSUME NEW k \in 1 .. l PROVE b[k + 1] = NextBase(file'[k], b[k])
      BY <1>2 DEF NextBase
    <3>1. k \in 1 .. l + 1 /\ k + 1 \in 1 .. l + 1 /\ k \in DOMAIN file' /\ (k + 1) + 1 \in 1 .. l + 2
      BY <1>2
    <3>2. b[k + 1] = base[(k + 1) + 1] /\ b[k] = base[k + 1] /\ file'[k] = file[k + 1]
      BY <1>0, <1>4, <3>1
    <3> QED BY <1>3, <3>1, <3>2
  <2>2. b[1] = offset'
    <3>1. 1 \in 1 .. l + 1 /\ 1 + 1 = 2
      OBVIOUS
    <3> QED BY <1>0, <1>3, <1>4, <3>1
  <2>3. format = "srec" => \A k \in DOMAIN b : b[k] = 0
    BY <1>3, <1>4
  <2>4. Len(file') + 1 = l + 1
    BY <1>2
  <2> QED BY <1>4, <2>1, <2>2, <2>3, <2>4 DEF Layout
<1> DEFINE Part(k) == [addr |-> base[k] + file[k].addr, data |-> file[k].data]
           Rest(k) == [addr |-> b[k] + file'[k].addr, data |-> file'[k].data]
<1>6. Part(1) = [addr |-> Line.addr + offset, data |-> Line.data]
  <2>1. base[1] \in Nat /\ Line.addr \in Nat
    BY <1>0, <1>3, LineRead, Given DEF Records
  <2>2. base[1] + file[1].addr = Line.addr + offset
    BY <1>0, <1>3, <2>1
  <2> QED BY <1>0, <2>2
<1>7. \A k \in 1 .. l : Rest(k) = Part(k + 1)
  <2> SUFFICES ASSUME NEW k \in 1 .. l PROVE Rest(k) = Part(k + 1)
    OBVIOUS
  <2>1. file'[k] = file[k + 1]
    BY <1>0, <1>2
  <2>2. b[k] = base[k + 1]
    BY <1>4
  <2> QED BY <2>1, <2>2
<1>8. Parts(base) = {Part(k) : k \in DataRecords} /\ Parts(b)' = {Rest(k) : k \in DataRecords'}
  BY DEF Parts
<1>9. \A k \in 1 .. l : k \in DataRecords' <=> k + 1 \in DataRecords
  <2> SUFFICES ASSUME NEW k \in 1 .. l PROVE k \in DataRecords' <=> k + 1 \in DataRecords
    OBVIOUS
  <2>1. k \in DOMAIN file' /\ k + 1 \in DOMAIN file /\ file'[k] = file[k + 1]
    BY <1>0, <1>2
  <2> QED BY <2>1 DEF DataRecords, IsData
<1>10. 1 \in DataRecords <=> IsData(Line)
  BY <1>0, <1>2 DEF DataRecords
<1>11. DataRecords \subseteq 1 .. l + 1 /\ DataRecords' \subseteq 1 .. l
  BY <1>2 DEF DataRecords
<1> HIDE DEF Part, Rest
<1>12. \A k \in DataRecords : k = 1 \/ (k - 1 \in DataRecords' /\ Part(k) = Rest(k - 1))
  <2> SUFFICES ASSUME NEW k \in DataRecords, k # 1 PROVE k - 1 \in DataRecords' /\ Part(k) = Rest(k - 1)
    OBVIOUS
  <2>1. k - 1 \in 1 .. l /\ (k - 1) + 1 = k
    BY <1>11
  <2> QED BY <1>7, <1>9, <2>1
<1>13. \A k \in DataRecords' : k + 1 \in DataRecords /\ Part(k + 1) = Rest(k)
  BY <1>7, <1>9, <1>11
<1>14. {Part(k) : k \in DataRecords} =
         {Rest(k) : k \in DataRecords'} \union (IF IsData(Line) THEN {Part(1)} ELSE {})
  BY <1>10, <1>12, <1>13
<1> QED BY <1>5, <1>6, <1>8, <1>14

\* The state after a step.
LEMMA PendingFrom ==
  ASSUME NEW b, Layout(b)', NEW P, P = Parts(b)', Complete(P)', OnlyImage'
  PROVE  Pending'
<1>1. Complete(Parts(b))'
  BY DEF Complete, Faithful, Covered, Behind
<1> QED BY <1>1 DEF Pending

\* Nothing was stored while a file is written.
LEMMA EmptyBefore ==
  ASSUME TInv, Before
  PROVE  offset = 0 /\ \A k \in DOMAIN buf : buf[k] = Hole
BY DEF TInv, Reader

\* A chunk that is written is still to come.
LEMMA PendingGrows ==
  ASSUME TInv, Pending, IhexChunk \/ SrecChunk
  PROVE  Pending'
<1>0. /\ phase = "writing" /\ Before /\ next < end /\ Numbers
      /\ UNCHANGED <<start, end, image, buf, lo>>
  BY DEF TInv, Before, IhexChunk, SrecChunk, readerVars
<1>1. PICK base : Layout(base) /\ Complete(Parts(base))
  BY DEF Pending
<1>2. PICK P : P = Parts(base)
  OBVIOUS
<1>3. \A r \in P : Behind(r) \in Nat
  BY <1>1, <1>2, PartType
<1>4. PICK n \in 1 .. end - next :
        /\ next' = next + n
        /\ \E b : Layout(b)' /\ Parts(b)' = P \union {[addr |-> next, data |-> Bytes(n)]}
  <2>1. CASE IhexChunk
    <3>1. IhexLen \in 1 .. end - next /\ next' = next + IhexLen
      BY <1>0, <2>1, ChunkLen DEF IhexChunk
    <3>2. \E b : Layout(b)' /\ Parts(b)' = P \union {[addr |-> next, data |-> Bytes(IhexLen)]}
      BY <1>1, <1>2, <2>1, IhexGrows
    <3> HIDE DEF IhexLen
    <3> QED BY <3>1, <3>2
  <2>2. CASE SrecChunk
    <3>1. SrecLen \in 1 .. end - next /\ next' = next + SrecLen
      BY <2>2, SrecFile
    <3>2. \E b : Layout(b)' /\ Parts(b)' = P \union {[addr |-> next, data |-> Bytes(SrecLen)]}
      BY <1>1, <1>2, <2>2, SrecGrows
    <3> HIDE DEF SrecLen
    <3> QED BY <3>1, <3>2
  <2> QED BY <2>1, <2>2
<1>5. PICK q : q = [addr |-> next, data |-> Bytes(n)]
  OBVIOUS
<1>6. PICK b : Layout(b)' /\ Parts(b)' = P \union {q}
  BY <1>4, <1>5
<1>7. Complete(P \union {q})'
  BY <1>0, <1>1, <1>2, <1>3, <1>4, <1>5, EmptyBefore, MoreParts
<1>8. OnlyImage'
  <2>1. \A k \in DOMAIN buf' : buf'[k] = Hole
    BY <1>0, EmptyBefore
  <2>2. next' \in Nat
    BY <1>4, Sizes
  <2> QED BY <2>1, <2>2 DEF OnlyImage
<1> QED BY <1>6, <1>7, <1>8, PendingFrom

\* The parts are those of the image when the file is complete.
LEMMA PendingCloses ==
  ASSUME TInv, Pending, IhexEnd \/ SrecEnd
  PROVE  Pending'
<1>0. UNCHANGED <<start, end, image, next, buf, lo>>
  BY DEF IhexEnd, SrecEnd, writerVars, readerVars
<1>1. PICK base : Layout(base) /\ Complete(Parts(base))
  BY DEF Pending
<1>2. PICK b : Layout(b)' /\ Parts(b)' = Parts(base)
  BY <1>1, IhexCloses, SrecCloses
<1>3. PICK P : P = Parts(base)
  OBVIOUS
<1>4. Complete(P)'
  BY <1>0, <1>1, <1>3, SameParts
<1>5. OnlyImage'
  BY <1>0 DEF Pending, OnlyImage
<1> QED BY <1>2, <1>3, <1>4, <1>5, PendingFrom

\* And when it is kept, or rewritten as other tools do.
LEMMA PendingOpens ==
  ASSUME TInv, Counted, Pending, Kept \/ Foreign
  PROVE  Pending'
<1>0. UNCHANGED <<start, end, image, next, buf>> /\ phase = "file"
  BY Opened DEF Opening
<1>1. PICK base : Layout(base) /\ Complete(Parts(base))
  BY DEF Pending
<1>2. PICK b : Layout(b)' /\ Parts(b)' = Parts(base)
  <2>1. format = "ihex" \/ format = "srec"
    BY Given DEF TInv, Numbers
  <2> QED BY <1>1, <2>1, IhexOpens, SrecOpens
<1>3. PICK P : P = Parts(base)
  OBVIOUS
<1>4. \A k \in DOMAIN buf : buf[k] = Hole
  BY <1>0, EmptyBefore DEF Before
<1>5. Complete(P)'
  BY <1>0, <1>1, <1>3, <1>4, SameParts
<1>6. OnlyImage'
  BY <1>0, <1>4 DEF Pending, OnlyImage
<1> QED BY <1>2, <1>3, <1>5, <1>6, PendingFrom

\* A line without data changes nothing of it.
LEMMA PendingSkips ==
  ASSUME TInv, Pending, OneLine, ~IsData(Line), phase' # "writing", offset' = NextBase(Line, offset),
         UNCHANGED <<format, start, end, image, next, lo, buf>>
  PROVE  Pending'
<1>1. PICK base : Layout(base) /\ Complete(Parts(base))
  BY DEF Pending
<1>2. PICK b : Layout(b)' /\ Parts(base) = Parts(b)' \union {}
  BY <1>1, LineGoes
<1>3. PICK P : P = Parts(base)
  OBVIOUS
<1>4. Complete(P)'
  BY <1>1, <1>3, SameParts
<1>5. OnlyImage'
  BY DEF Pending, OnlyImage
<1>6. P = Parts(b)'
  BY <1>2, <1>3
<1> QED BY <1>2, <1>4, <1>5, <1>6, PendingFrom

\* The part of a line with data.
LEMMA LinePart ==
  ASSUME TInv, OneLine, IsData(Line), NEW base, Layout(base)
  PROVE  LET q == [addr |-> Line.addr + offset, data |-> Line.data]
         IN  q \in Parts(base)
<1>1. Line = file[1] /\ 1 \in DOMAIN file /\ base[1] = offset /\ 1 \in DataRecords
  BY LineRead DEF Layout, DataRecords
<1>2. offset \in Nat /\ Line.addr \in Nat
  BY LineRead, Sizes, Given DEF Records
<1>3. base[1] + file[1].addr = Line.addr + offset
  BY <1>1, <1>2
<1> QED BY <1>1, <1>3 DEF Parts

\* A line with data that fits is stored.
LEMMA PendingStores ==
  ASSUME TInv, Pending, OneLine, IsData(Line), phase' # "writing", offset' = NextBase(Line, offset),
         UNCHANGED <<format, start, end, image, next, lo>>,
         Fits(Line.addr + offset, Len(Line.data)),
         buf' = Stored((Line.addr + offset) - lo, Line.data)
  PROVE  Pending'
<1>1. PICK base : Layout(base) /\ Complete(Parts(base))
  BY DEF Pending
<1>2. PICK q : q = [addr |-> Line.addr + offset, data |-> Line.data]
  OBVIOUS
<1>3. PICK b : Layout(b)' /\ Parts(base) = Parts(b)' \union {q}
  BY <1>1, <1>2, LineGoes
<1>4. q \in Parts(base)
  BY <1>1, <1>2, LinePart
<1>5. /\ q.addr \in Nat /\ Len(q.data) \in Nat /\ Len(q.data) > 0 /\ DOMAIN q.data = 1 .. Len(q.data)
  BY <1>1, <1>4, PartType
<1>6. PICK P, R : P = Parts(base) /\ R = Parts(b)'
  OBVIOUS
<1>7. q.addr = Line.addr + offset /\ q.data = Line.data
  BY <1>2
<1>8. /\ Fits(q.addr, Len(q.data)) /\ buf' = Stored(q.addr - lo, q.data)
  BY <1>7 DEF Behind
<1>9. next = end
  BY DEF TInv, Numbers, OneLine
<1>10. P = R \union {q} /\ Complete(P) /\ OnlyImage
  BY <1>1, <1>3, <1>6 DEF Pending
<1>11. OnlyImage' /\ Complete(R)'
  BY <1>5, <1>8, <1>9, <1>10, PartRead
<1> QED BY <1>3, <1>6, <1>11, PendingFrom

\* A line with data that does not fit lies outside of what is read.
LEMMA PendingRefuses ==
  ASSUME TInv, Pending, OneLine, IsData(Line), ~Fits(Line.addr + offset, Len(Line.data))
  PROVE  ~(lo <= start /\ end <= hi)
<1>1. PICK base : Layout(base) /\ Complete(Parts(base))
  BY DEF Pending
<1>2. PICK q : q = [addr |-> Line.addr + offset, data |-> Line.data]
  OBVIOUS
<1>3. q \in Parts(base)
  BY <1>1, <1>2, LinePart
<1>4. q.addr >= start /\ Behind(q) <= next /\ next = end /\ Behind(q) = q.addr + Len(q.data)
  BY <1>1, <1>3 DEF Complete, Faithful, TInv, Numbers, OneLine, Behind
<1>5. q.addr \in Nat /\ Len(q.data) \in Nat
  BY <1>1, <1>3, PartType
<1>6. ~Fits(q.addr, Len(q.data))
  BY <1>2
<1> QED BY <1>4, <1>5, <1>6, Sizes DEF Fits

\* When all lines were read the image is back.
LEMMA PendingEnds ==
  ASSUME TInv, Pending, file = <<>>, phase \notin {"writing", "failed"}
  PROVE  ReadBack
<1>0. next = end
  BY DEF TInv, Numbers
<1>1. PICK base : Layout(base) /\ Complete(Parts(base))
  BY DEF Pending
<1>2. Parts(base) = {}
  <2>1. Len(file) = 0 /\ DOMAIN file = 1 .. Len(file)
    BY FileWritten, EmptySeq
  <2>2. DataRecords = {}
    BY <2>1 DEF DataRecords
  <2> QED BY <2>2 DEF Parts
<1>3. \A a \in start .. end - 1 : a >= lo /\ a - lo \in DOMAIN buf /\ buf[a - lo] = image[a]
  BY <1>0, <1>1, <1>2 DEF Complete, Covered
<1>4. \A k \in DOMAIN buf : buf[k] = IF k + lo \in start .. end - 1 THEN image[k + lo] ELSE Hole
  <2> SUFFICES ASSUME NEW k \in Memory
               PROVE  buf[k] = IF k + lo \in start .. end - 1 THEN image[k + lo] ELSE Hole
    BY Sizes
  <2>1. CASE k + lo \in start .. end - 1
    <3>1. (k + lo) - lo = k
      BY Sizes, Cells
    <3> QED BY <1>3, <2>1, <3>1
  <2>2. CASE k + lo \notin start .. end - 1
    BY <2>2, Sizes DEF Pending, OnlyImage
  <2> QED BY <2>1, <2>2
<1> QED BY <1>4 DEF ReadBack

\* What is whole after a step was whole before it.
LEMMA WholeBefore ==
  ASSUME TInv, [Next]_vars, Whole'
  PROVE  /\ Whole /\ UNCHANGED <<format, start, end, image>>
         /\ ~OneLineAdded /\ ~OneByteChanged /\ ~OneRecordLost
<1>1. UNCHANGED <<format, start, end, image>>
  BY Opened DEF Next, Opening, IhexChunk, IhexEnd, IhexFails, SrecChunk, SrecEnd, IhexLine, SrecData, SrecCount,
                SrecOther, FileEnds, vars, writerVars
<1>2. fate' \in {"kept", "foreign"}
  BY DEF Whole
<1>3. ~OneLineAdded /\ ~OneByteChanged /\ ~OneRecordLost
  BY <1>2, LineAdded, ByteChanged, RecordLost
<1>4. fate \in {"kept", "foreign"}
  <2>1. CASE Kept \/ Foreign
    <3>1. Before
      BY <2>1, Opened DEF Opening, Before
    <3> QED BY <3>1 DEF TInv, Reader
  <2>2. CASE ~(Kept \/ Foreign)
    <3>1. fate' = fate
      BY <1>3, <2>2 DEF Next, IhexChunk, IhexEnd, IhexFails, SrecChunk, SrecEnd, IhexLine, SrecData, SrecCount,
                        SrecOther, FileEnds, vars
    <3> QED BY <1>2, <3>1
  <2> QED BY <2>1, <2>2
<1>5. Whole
  BY <1>1, <1>4 DEF Whole, DataType
<1> QED BY <1>1, <1>3, <1>5

\* A step of the writer of Intel HEX adds no line that is none.
LEMMA IhexLinesOnly ==
  ASSUME TInv, IhexChunk \/ IhexEnd, \A k \in DOMAIN file : file[k].type # -1
  PROVE  \A k \in DOMAIN file' : file'[k].type # -1
<1>0. /\ file \in Seq(Records) /\ Len(file) \in Nat /\ DOMAIN file = 1 .. Len(file) /\ Numbers
  BY FileWritten DEF TInv
<1>1. CASE IhexChunk
  <2>1. DataRec \in Records /\ ElaRec \in Records /\ DataRec.type = 0 /\ ElaRec.type = 4
    BY <1>0, <1>1, IhexRecords DEF IhexChunk
  <2>2. file' = Append(file, DataRec) \/ file' = Append(Append(file, ElaRec), DataRec)
    BY <1>1, IhexFile
  <2> HIDE DEF DataRec, ElaRec
  <2>3. ASSUME NEW f \in Seq(Records), NEW r \in Records, r.type # -1, \A k \in DOMAIN f : f[k].type # -1
        PROVE  Append(f, r) \in Seq(Records) /\ \A k \in DOMAIN Append(f, r) : Append(f, r)[k].type # -1
    <3> DEFINE g == Append(f, r)
    <3>1. g \in Seq(Records) /\ Len(g) = Len(f) + 1 /\ g[Len(f) + 1] = r /\ \A k \in 1 .. Len(f) : g[k] = f[k]
      BY Appended
    <3> HIDE DEF g
    <3>2. Len(f) \in Nat /\ DOMAIN f = 1 .. Len(f) /\ DOMAIN g = 1 .. Len(f) + 1
      BY <3>1, FileFacts
    <3>3. \A k \in DOMAIN g : k = Len(f) + 1 \/ k \in DOMAIN f
      BY <3>2
    <3>4. \A k \in DOMAIN g : g[k].type # -1
      BY <2>3, <3>1, <3>2, <3>3
    <3> QED BY <3>1, <3>4 DEF g
  <2>4. /\ Append(file, ElaRec) \in Seq(Records)
        /\ \A k \in DOMAIN Append(file, ElaRec) : Append(file, ElaRec)[k].type # -1
    BY <1>0, <2>1, <2>3
  <2>5. \A k \in DOMAIN Append(file, DataRec) : Append(file, DataRec)[k].type # -1
    BY <1>0, <2>1, <2>3
  <2>6. ASSUME file' = Append(Append(file, ElaRec), DataRec)
        PROVE \A k \in DOMAIN file' : file'[k].type # -1
    <3>1. PICK f \in Seq(Records) : f = Append(file, ElaRec) /\ \A k \in DOMAIN f : f[k].type # -1
      BY <2>4
    <3>2. \A k \in DOMAIN Append(f, DataRec) : Append(f, DataRec)[k].type # -1
      BY <2>1, <2>3, <3>1
    <3> QED BY <2>6, <3>1, <3>2
  <2> QED BY <2>2, <2>5, <2>6
<1>2. CASE IhexEnd
  <2> DEFINE r == Ihex(1, 0, <<>>)
  <2>1. r \in Records /\ r.type = 1
    BY EmptyRecords, Zenon
  <2>2. file' = Append(file, r)
    BY <1>2 DEF IhexEnd
  <2> HIDE DEF r
  <2>3. file' \in Seq(Records) /\ Len(file') = Len(file) + 1 /\ file'[Len(file) + 1] = r /\ \A k \in 1 .. Len(file) : file'[k] = file[k]
    BY <1>0, <2>1, <2>2, Appended
  <2>4. \A k \in DOMAIN file' : k = Len(file) + 1 \/ k \in DOMAIN file
    BY <1>0, <2>3, FileFacts
  <2> QED BY <1>0, <2>1, <2>3, <2>4
<1> QED BY <1>1, <1>2

\* The count of S-records that say S1 for all of them.
LEMMA CountMatches ==
  ASSUME TInv, Counted, FileEnds, Whole, format = "srec"
  PROVE  CountIsRight
<1>0. /\ phase = "reading" /\ file = <<>> /\ fate # "lost" /\ DataType = 1
  BY DEF FileEnds, Whole
<1>1. PICK m \in 0 .. end - start : ToCome(m)
  BY <1>0 DEF Counted
<1>2. m \in Nat /\ m < Page
  <2>1. end < Page
    BY <1>0 DEF DataType
  <2> QED BY <2>1, Sizes, Given
<1>3. \A p \in 0 .. 2, d \in 0 .. m : ~Shape(p, d, m)
  <2> SUFFICES ASSUME NEW p \in 0 .. 2, NEW d \in 0 .. m, Shape(p, d, m) PROVE FALSE
    OBVIOUS
  <2>1. Len(file) = 0 /\ Len(file) = p + d + 2
    BY <1>0, EmptySeq DEF Shape
  <2> QED BY <1>2, <2>1
<1>4. expected = m % Page /\ found = m
  BY <1>0, <1>1, <1>3 DEF ToCome
<1>5. m % Page = m
  BY <1>2, Given
<1> QED BY <1>4, <1>5 DEF CountIsRight

\* The count itself is well formed.
LEMMA CountRecord ==
  ASSUME TInv, Damage, Counted, SrecCount, Whole
  PROVE  phase' = "reading"
<1>0. /\ OneLine /\ phase = "reading" /\ format = "srec" /\ fate # "byte" /\ Line.type = 5
  BY DEF SrecCount, OneLine, Whole
<1>1. Line = file[1] /\ 1 \in DOMAIN file
  BY <1>0, LineRead
<1>2. SumIsRight(Line)
  BY <1>0, <1>1 DEF Damage
<1>3. PICK m \in 0 .. end - start : ToCome(m)
  BY <1>0 DEF Counted
<1>4. m \in Nat
  BY Sizes
<1>5. Line.len = 3
  <2>1. ~\A k \in DOMAIN file : file[k].type \in 7 .. 9
    BY <1>0, <1>1
  <2>2. PICK p \in 0 .. 2, d \in 0 .. m : Shape(p, d, m)
    BY <1>3, <2>1 DEF ToCome
  <2>3. p \in Nat /\ d \in Nat
    BY <1>4
  <2>4. p = 0 /\ d = 0
    BY <1>0, <1>4, <2>2, <2>3, ShapeShorter
  <2> QED BY <1>0, <1>4, <2>2, <2>3, <2>4, ShapeShorter
<1> QED BY <1>0, <1>2, <1>5 DEF SrecCount

\* What is stored and what is to come make up the image, step by step: writing the file.
LEMMA LaidWritten ==
  ASSUME TInv, Laid, Whole, IhexChunk \/ IhexEnd \/ SrecChunk \/ SrecEnd
  PROVE  Laid'
<1>0. /\ phase = "writing" /\ phase' \in {"writing", "file"} /\ UNCHANGED <<format, expected>>
  BY DEF IhexChunk, IhexEnd, SrecChunk, SrecEnd, writerVars, readerVars
<1>1. Pending /\ (format = "ihex" => expected = Unknown /\ \A k \in DOMAIN file : file[k].type # -1)
  BY <1>0 DEF Laid
<1>2. Pending'
  BY <1>1, PendingGrows, PendingCloses
<1>3. format = "ihex" => \A k \in DOMAIN file' : file'[k].type # -1
  <2>1. format = "ihex" => IhexChunk \/ IhexEnd
    BY DEF SrecChunk, SrecEnd
  <2> QED BY <1>1, <2>1, IhexLinesOnly
<1>4. format' = "ihex" => expected' = Unknown /\ \A k \in DOMAIN file' : file'[k].type # -1
  BY <1>0, <1>1, <1>3
<1> QED BY <1>0, <1>2, <1>4 DEF Laid

\* Failing at it.
LEMMA LaidFailed ==
  ASSUME TInv, Laid, Whole, IhexFails
  PROVE  Laid'
<1>0. phase' = "failed" /\ format = "ihex" /\ UNCHANGED <<format, expected>>
  BY DEF IhexFails, writerVars, readerVars
<1>1. expected = Unknown /\ \A k \in DOMAIN file : file[k].type # -1
  BY <1>0 DEF Laid
<1>2. file' = file \/ (ElaRec \in Records /\ ElaRec.type = 4 /\ file' = Append(file, ElaRec))
  BY IhexFailed
<1> HIDE DEF ElaRec
<1>3. file \in Seq(Records) /\ DOMAIN file = 1 .. Len(file) /\ Len(file) \in Nat
  BY FileWritten
<1>4. \A k \in DOMAIN file' : file'[k].type # -1
  BY <1>1, <1>2, <1>3, Appended, FileFacts
<1> QED BY <1>0, <1>1, <1>4 DEF Laid

\* Opening it.
LEMMA LaidOpened ==
  ASSUME TInv, Counted, Laid, Whole, Kept \/ Foreign
  PROVE  Laid'
<1>0. phase = "file" /\ phase' = "reading" /\ UNCHANGED <<format, expected>>
  BY Opened DEF Opening
<1>1. Pending /\ (format = "ihex" => expected = Unknown /\ \A k \in DOMAIN file : file[k].type # -1)
  BY <1>0 DEF Laid
<1>2. Pending'
  BY <1>1, PendingOpens
<1>3. ASSUME format = "ihex" PROVE \A k \in DOMAIN file' : file'[k].type # -1
  <2>1. PICK base : Layout(base)
    BY <1>1 DEF Pending
  <2>2. \A k \in DOMAIN file' : file[k].type # -1 => file'[k].type # -1
    BY <1>3, <2>1, IhexOpens
  <2>3. DOMAIN file' = DOMAIN file
    <3>1. CASE Kept
      BY <3>1 DEF Kept, OpenFile
    <3>2. CASE Foreign
      <4>1. file' \in Seq(Records) /\ Len(file') = Len(file)
        BY <1>3, <3>2, ForeignIhex
      <4> QED BY <4>1, FileWritten, FileFacts
    <3> QED BY <3>1, <3>2
  <2> QED BY <1>1, <1>3, <2>2, <2>3
<1> QED BY <1>0, <1>1, <1>2, <1>3 DEF Laid

\* A line that is left out of account, one that is stored and one that is refused.
LEMMA LaidLine ==
  ASSUME TInv, Laid, Whole, OneLine, UNCHANGED <<format, start, end, image, next, lo, hi>>,
         format = "ihex" => expected' = expected,
         phase' \in {"reading", "error"},
         IF phase' = "error" THEN IsData(Line) /\ ~Fits(Line.addr + offset, Len(Line.data))
         ELSE /\ offset' = NextBase(Line, offset)
              /\ IF IsData(Line)
                 THEN /\ Fits(Line.addr + offset, Len(Line.data))
                      /\ buf' = Stored((Line.addr + offset) - lo, Line.data)
                 ELSE UNCHANGED buf
  PROVE  Laid'
<1>0. phase = "reading"
  BY DEF OneLine
<1>1. Pending /\ (format = "ihex" => expected = Unknown /\ \A k \in DOMAIN file : file[k].type # -1)
  BY <1>0 DEF Laid
<1>2. format' = "ihex" => expected' = Unknown /\ \A k \in DOMAIN file' : file'[k].type # -1
  <2>1. \A k \in DOMAIN file' : k + 1 \in DOMAIN file /\ file'[k] = file[k + 1]
    BY LineRead
  <2> QED BY <1>1, <2>1
<1>3. CASE phase' = "error"
  <2>1. IsData(Line) /\ ~Fits(Line.addr + offset, Len(Line.data))
    BY <1>3
  <2>2. ~(lo <= start /\ end <= hi)
    BY <1>1, <2>1, PendingRefuses
  <2>3. (~(lo <= start /\ end <= hi))'
    BY <2>2
  <2> QED BY <1>2, <1>3, <2>3 DEF Laid
<1>4. CASE phase' # "error"
  <2>1. phase' = "reading" /\ phase' # "writing" /\ offset' = NextBase(Line, offset)
    BY <1>4
  <2>2. CASE IsData(Line)
    <3>1. /\ Fits(Line.addr + offset, Len(Line.data))
          /\ buf' = Stored((Line.addr + offset) - lo, Line.data)
      BY <1>4, <2>2
    <3>2. Pending'
      BY <1>1, <2>1, <2>2, <3>1, PendingStores
    <3> QED BY <1>2, <2>1, <3>2 DEF Laid
  <2>3. CASE ~IsData(Line)
    <3>1. UNCHANGED buf
      BY <1>4, <2>3
    <3>2. Pending'
      BY <1>1, <2>1, <2>3, <3>1, PendingSkips
    <3> QED BY <1>2, <2>1, <3>2 DEF Laid
  <2> QED BY <2>2, <2>3
<1> QED BY <1>3, <1>4

\* Reading Intel HEX.
LEMMA LaidIhex ==
  ASSUME TInv, Laid, Whole, IhexLine
  PROVE  Laid'
<1>0. /\ format = "ihex" /\ OneLine /\ UNCHANGED <<writerVars, fate, lo, hi, found, expected>> /\ phase = "reading"
  BY IhexCases DEF OneLine
<1>1. UNCHANGED <<format, start, end, image, next, lo, hi>> /\ expected' = expected
  BY <1>0 DEF writerVars
<1>2. Line.type # -1 /\ (IsData(Line) <=> Line.type = 0)
  <2>1. Line = file[1] /\ 1 \in DOMAIN file
    BY <1>0, LineRead
  <2> QED BY <1>0, <2>1 DEF Laid, IsData
<1>3. CASE Line.type \in {2, 4} /\ offset' = NextBase(Line, offset) /\ UNCHANGED <<phase, buf>>
  <2>1. ~IsData(Line) /\ phase' = "reading"
    BY <1>0, <1>2, <1>3
  <2> QED BY <1>0, <1>1, <1>3, <2>1, LaidLine
<1>4. CASE /\ Line.type = 0 /\ Fits(Line.addr + offset, Line.len) /\ UNCHANGED <<phase, offset>>
           /\ buf' = Stored((Line.addr + offset) - lo, Line.data)
           /\ Line.len = Len(Line.data)
  <2>1. IsData(Line) /\ phase' = "reading" /\ offset' = NextBase(Line, offset)
    BY <1>0, <1>2, <1>4 DEF NextBase
  <2>2. Fits(Line.addr + offset, Len(Line.data))
    BY <1>4
  <2> QED BY <1>0, <1>1, <1>4, <2>1, <2>2, LaidLine
<1>5. CASE Line.type = 0 /\ ~Fits(Line.addr + offset, Line.len) /\ Line.len = Len(Line.data) /\ phase' = "error"
  <2>1. IsData(Line) /\ ~Fits(Line.addr + offset, Len(Line.data))
    BY <1>2, <1>5
  <2> QED BY <1>0, <1>1, <1>5, <2>1, LaidLine
<1>6. CASE Line.type = 1 /\ UNCHANGED <<phase, buf, offset>>
  <2>1. ~IsData(Line) /\ phase' = "reading" /\ offset' = NextBase(Line, offset)
    BY <1>0, <1>2, <1>6 DEF NextBase
  <2> QED BY <1>0, <1>1, <1>6, <2>1, LaidLine
<1> QED BY <1>2, <1>3, <1>4, <1>5, <1>6, IhexCases

\* Reading S-records.
LEMMA LaidSrec ==
  ASSUME TInv, Damage, Counted, Laid, Whole, SrecData \/ SrecCount \/ SrecOther
  PROVE  Laid'
<1>0. /\ format = "srec" /\ OneLine /\ phase = "reading"
      /\ UNCHANGED <<format, start, end, image, next, lo, hi, offset>>
  BY DEF SrecData, SrecCount, SrecOther, OneLine, writerVars, readerVars
<1>1. offset = 0 /\ NextBase(Line, offset) = offset
  <2>1. PICK base : Layout(base)
    BY <1>0 DEF Laid, Pending
  <2>2. base[1] = offset /\ 1 \in DOMAIN base
    BY <2>1, FileWritten DEF Layout
  <2>3. offset = 0
    BY <1>0, <2>1, <2>2 DEF Layout
  <2> QED BY <1>0, <2>3 DEF NextBase
<1>2. Line \in Records /\ RecordOK(Line) /\ Line = file[1] /\ 1 \in DOMAIN file
  BY <1>0, LineRead
<1>3. IsData(Line) <=> Line.type \in 1 .. 3
  BY <1>0 DEF IsData
<1>4. CASE SrecData
  <2>1. /\ Line.type \in 1 .. 3 /\ Len(Line.data) \in Nat /\ Line.addr \in 0 .. MaxEnd
    BY <1>4, SrecCases
  <2>2. Line.type = 1 /\ DataShift(Line.type) = 0
    <3>1. DataType = 1
      BY <1>0 DEF Whole
    <3> QED BY <1>0, <1>2, <1>3, <2>1, <3>1 DEF RecordOK, DataShift
  <2>3. SumIsRight(Line)
    BY <1>0, <1>2, <2>2 DEF Damage, Whole
  <2>4. Line.addr + offset = Line.addr /\ lo \in Nat /\ Line.addr \in Nat
    BY <1>1, <2>1, Sizes
  <2>5. CASE /\ Fits(Line.addr, Len(Line.data))
             /\ buf' = Stored(Line.addr - lo + DataShift(Line.type), Line.data)
             /\ phase' = (IF SumIsRight(Line) THEN phase ELSE "error")
    <3>1. Line.addr - lo + DataShift(Line.type) = (Line.addr + offset) - lo
      BY <2>2, <2>4
    <3>2. /\ Fits(Line.addr + offset, Len(Line.data))
          /\ buf' = Stored((Line.addr + offset) - lo, Line.data)
      BY <2>4, <2>5, <3>1
    <3>3. phase' = "reading" /\ offset' = NextBase(Line, offset)
      BY <1>0, <1>1, <2>3, <2>5
    <3>4. IsData(Line) /\ format # "ihex"
      BY <1>0, <1>3, <2>1
    <3> QED BY <1>0, <3>2, <3>3, <3>4, LaidLine
  <2>6. CASE ~Fits(Line.addr, Len(Line.data)) /\ phase' = "error"
    <3>1. IsData(Line) /\ ~Fits(Line.addr + offset, Len(Line.data)) /\ format # "ihex"
      BY <1>0, <1>3, <2>1, <2>4, <2>6
    <3> QED BY <1>0, <2>6, <3>1, LaidLine
  <2>7. Fits(Line.addr, Len(Line.data)) => ~Overruns(Line.addr - lo + DataShift(Line.type), Len(Line.data))
    <3>1. lo \in Nat /\ hi \in Nat /\ Len(Line.data) > 0
      BY <1>4, Sizes, SrecCases
    <3> QED BY <2>1, <2>2, <2>4, <3>1 DEF Fits, Overruns
  <2> QED BY <1>4, <2>5, <2>6, <2>7, SrecCases
<1>5. CASE SrecCount \/ SrecOther
  <2>1. phase' = "reading"
    BY <1>0, <1>5, CountRecord DEF SrecOther
  <2>2. ~IsData(Line) /\ UNCHANGED buf /\ format # "ihex"
    BY <1>0, <1>3, <1>5 DEF SrecCount, SrecOther, readerVars
  <2>3. offset' = NextBase(Line, offset)
    BY <1>0, <1>1
  <2> QED BY <1>0, <2>1, <2>2, <2>3, LaidLine
<1> QED BY <1>4, <1>5

\* The end of the file.
LEMMA LaidEnds ==
  ASSUME TInv, Counted, Laid, Whole, FileEnds
  PROVE  Laid'
<1>0. /\ phase = "reading" /\ file = <<>> /\ phase' = (IF CountIsRight THEN "ok" ELSE "error")
      /\ UNCHANGED <<format, start, end, image, next, curEla, lo, hi, buf, offset, greatest, expected, file>>
  BY DEF FileEnds, writerVars, readerVars
<1>1. Pending /\ (format = "ihex" => expected = Unknown /\ \A k \in DOMAIN file : file[k].type # -1)
  BY <1>0 DEF Laid
<1>2. CountIsRight
  <2>1. format = "ihex" \/ format = "srec"
    BY Given DEF TInv, Numbers
  <2> QED BY <1>1, <2>1, CountMatches DEF CountIsRight
<1>3. phase' = "ok" /\ file' = <<>>
  BY <1>0, <1>2
<1>4. PICK base : Layout(base) /\ Complete(Parts(base))
  BY <1>1 DEF Pending
<1>5. Layout(base)'
  BY <1>0, <1>3, <1>4 DEF Layout, NextBase
<1>6. Complete(Parts(base))'
  <2>1. Parts(base)' = Parts(base)
    BY <1>0 DEF Parts, DataRecords, IsData
  <2>2. PICK P : P = Parts(base)
    OBVIOUS
  <2>3. Complete(P)'
    BY <1>0, <1>4, <2>2 DEF Complete, Faithful, Covered, Behind
  <2> QED BY <2>1, <2>2, <2>3 DEF Complete, Faithful, Covered, Behind
<1>7. OnlyImage'
  BY <1>0, <1>1 DEF Pending, OnlyImage
<1>8. Pending'
  BY <1>5, <1>6, <1>7 DEF Pending
<1>9. format' = "ihex" => expected' = Unknown /\ \A k \in DOMAIN file' : file'[k].type # -1
  BY <1>0, <1>1
<1> QED BY <1>3, <1>8, <1>9 DEF Laid

\* No step loses a byte of the image, or stores one elsewhere.
LEMMA LaidStep ==
  ASSUME TInv, Damage, Counted, Laid, [Next]_vars
  PROVE  Laid'
<1>1. CASE UNCHANGED vars
  BY <1>1 DEF vars, writerVars, readerVars, Laid, Whole, DataType, Pending, OnlyImage, Layout, NextBase,
              Complete, Faithful, Covered, Behind, Parts, DataRecords, IsData
<1>2. CASE Next
  <2> SUFFICES ASSUME Whole' PROVE Laid'
    BY DEF Laid
  <2>1. /\ Whole /\ UNCHANGED <<format, start, end, image>>
        /\ ~OneLineAdded /\ ~OneByteChanged /\ ~OneRecordLost
    BY WholeBefore
  <2> QED BY <1>2, <2>1, LaidWritten, LaidFailed, LaidOpened, LaidIhex, LaidSrec, LaidEnds DEF Next
<1> QED BY <1>1, <1>2

\* A file that READ wrote is read back as it was, or refused because it does not lie within the
\* addresses that are read: as it is, with segments in place of pages, and with its S-records in
\* another order behind a comment.
THEOREM ReadsBack == Spec => []RoundTrip
<1>1. Init => TInv /\ Damage /\ Counted /\ Laid
  <2> SUFFICES ASSUME Init PROVE TInv /\ Damage /\ Counted /\ Laid
    OBVIOUS
  <2>0. TInv
    BY InitialTypes
  <2>1. /\ phase = "writing" /\ fate = "kept" /\ file = <<>> /\ DOMAIN file = {} /\ Len(file) = 0
        /\ next = start /\ offset = 0 /\ expected = Unknown /\ greatest = 0
        /\ \A k \in DOMAIN buf : buf[k] = Hole
    BY EmptySeq DEF Init
  <2>2. Damage /\ Counted
    BY <2>1 DEF Damage, Counted
  <2>3. PICK base : base = [k \in 1 .. 1 |-> 0]
    OBVIOUS
  <2>4. Layout(base)
    <3>1. curEla = -1 \/ curEla = 0
      BY DEF Init
    <3>2. Len(file) + 1 = 1 /\ base \in [1 .. 1 -> Nat] /\ base[1] = 0 /\ \A k \in DOMAIN base : base[k] = 0
      BY <2>1, <2>3
    <3>3. 0 * Page = 0
      BY Given
    <3> QED BY <2>1, <3>1, <3>2, <3>3 DEF Layout
  <2>5. Parts(base) = {}
    BY <2>1 DEF Parts, DataRecords
  <2>6. Complete(Parts(base))
    BY <2>0, <2>1, <2>5, Sizes DEF Complete, Faithful, Covered
  <2>7. OnlyImage
    BY <2>0, <2>1, Sizes DEF OnlyImage
  <2>8. Pending
    BY <2>4, <2>6, <2>7 DEF Pending
  <2> QED BY <2>0, <2>1, <2>2, <2>8 DEF Laid
<1>2. TInv /\ Damage /\ Counted /\ Laid /\ [Next]_vars => (TInv /\ Damage /\ Counted /\ Laid)'
  BY StepTypes, DamageStep, CountedStep, LaidStep
<1>3. TInv /\ Laid => RoundTrip
  <2> SUFFICES ASSUME TInv, Laid, Whole
               PROVE /\ phase = "ok" => ReadBack
                     /\ phase = "error" => ~(lo <= start /\ end <= hi)
    BY DEF RoundTrip, Whole
  <2>1. ASSUME phase = "ok" PROVE ReadBack
    BY <2>1, PendingEnds DEF Laid
  <2>2. phase = "error" => ~(lo <= start /\ end <= hi)
    BY DEF Laid
  <2> QED BY <2>1, <2>2
<1> QED BY <1>1, <1>2, <1>3, PTL DEF Spec
=============================================================================
