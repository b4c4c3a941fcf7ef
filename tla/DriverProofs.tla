---------------------------- MODULE DriverProofs ----------------------------
(***************************************************************************)
(* Between a device and the value of a tag: registers and byte orders      *)
(* (Registers), the requests of a Modbus device (Modbus), scaling          *)
(* (ScalingLaws) and the OPC UA client bridges (OpcUaBridge), for every    *)
(* size of each.                                                           *)
(***************************************************************************)
EXTENDS Registers, ScalingLaws, OpcUaBridge, Modbus, NaturalsInduction, WellFoundedInduction,
        FiniteSetTheorems, SequenceTheorems, TLAPS

-----------------------------------------------------------------------------
(* Induction over data.  The least element of a set that has one stands in *)
(* for the predicate an induction is about: a set of numbers that holds 0  *)
(* and the successor of each of its members holds them all.                *)

\* The order that natural numbers are well-founded in, as a set of pairs.
Below == {p \in Nat \X Nat : p[1] < p[2]}

LEMMA BelowIsWellFounded == IsWellFoundedOn(Below, Nat)
BY NatLessThanWellFounded, Zenon DEF OpToRel, Below

\* Of some natural numbers there is a least one.
LEMMA LeastNumber ==
    ASSUME NEW S \in SUBSET Nat, S # {}
    PROVE  \E n \in S : \A m \in S : n <= m
<1>1. PICK n \in S : \A m \in S : ~ (<<m, n>> \in Below)
  BY BelowIsWellFounded, WFMin
<1>2. \A m \in S : m \in Nat /\ n \in Nat /\ ~ (m < n)
  BY <1>1 DEF Below
<1> QED
  BY <1>2

\* Induction over the natural numbers, of a set instead of a predicate.
LEMMA SetInduction ==
    ASSUME NEW S, 0 \in S, \A n \in Nat : n \in S => n + 1 \in S
    PROVE  Nat \subseteq S
<1> DEFINE R == Nat \ S
<1>1. SUFFICES ASSUME R # {} PROVE FALSE
  OBVIOUS
<1>2. PICK n \in R : \A m \in R : n <= m
  BY <1>1, LeastNumber
<1>3. n \in Nat /\ n # 0 /\ n - 1 \in Nat /\ ~ (n <= n - 1)
  OBVIOUS
<1>4. n - 1 \in S /\ n - 1 + 1 = n
  BY <1>2, <1>3
<1> QED
  BY <1>3, <1>4

\* Induction over an interval.
LEMMA IntervalInduction ==
    ASSUME NEW S, NEW n \in Nat, 0 \in S, \A i \in 1 .. n : i - 1 \in S => i \in S
    PROVE  0 .. n \subseteq S
<1> DEFINE R == {i \in Nat : i <= n => i \in S}
<1>1. 0 \in R
  OBVIOUS
<1>2. ASSUME NEW i \in Nat, i \in R PROVE i + 1 \in R
  <2>1. i + 1 <= n => i + 1 \in 1 .. n /\ i + 1 - 1 \in S
    BY <1>2
  <2> QED
    BY <2>1
<1>3. Nat \subseteq R
  <2> HIDE DEF R
  <2> QED
    BY <1>1, <1>2, SetInduction
<1> QED
  BY <1>3

\* The n steps F from c, and all that they pass.
Steps(n, T) == [1 .. n -> [T -> T]]
Paths(F, c, n, T) == {f \in [0 .. n -> T] : f[0] = c /\ \A i \in 1 .. n : f[i] = F[i][f[i - 1]]}

\* A function on 0 .. n may be defined by recursion.
LEMMA Recursion ==
    ASSUME NEW T, NEW c \in T, NEW n \in Nat, NEW F \in Steps(n, T)
    PROVE  Paths(F, c, n, T) # {}
<1> DEFINE Follows(f, m) == f[0] = c /\ \A i \in 1 .. m : f[i] = F[i][f[i - 1]]
           S == {m \in Nat : m <= n => \E f \in [0 .. m -> T] : Follows(f, m)}
<1>1. 0 \in S
  <2>1. [i \in 0 .. 0 |-> c] \in [0 .. 0 -> T] /\ Follows([i \in 0 .. 0 |-> c], 0)
    OBVIOUS
  <2> QED
    BY <2>1
<1>2. ASSUME NEW m \in Nat, m \in S PROVE m + 1 \in S
  <2>1. SUFFICES ASSUME m + 1 <= n PROVE \E f \in [0 .. m + 1 -> T] : Follows(f, m + 1)
    OBVIOUS
  <2>2. PICK f \in [0 .. m -> T] : Follows(f, m)
    BY <1>2, <2>1
  <2> DEFINE h == [i \in 0 .. m + 1 |-> IF i = m + 1 THEN F[m + 1][f[m]] ELSE f[i]]
  <2>3. f[m] \in T /\ m + 1 \in 1 .. n
    BY <2>1
  <2>4. F[m + 1][f[m]] \in T
    BY <2>3 DEF Steps
  <2>5. h \in [0 .. m + 1 -> T]
    BY <2>4
  <2>6. h[0] = c
    BY <2>2
  <2>7. ASSUME NEW i \in 1 .. m + 1 PROVE h[i] = F[i][h[i - 1]]
    <3>1. CASE i = m + 1
      BY <3>1
    <3>2. CASE i # m + 1
      <4>1. i \in 1 .. m /\ i - 1 \in 0 .. m /\ i - 1 # m + 1
        BY <3>2
      <4> QED
        BY <4>1, <2>2, <3>2
    <3> QED
      BY <3>1, <3>2
  <2> QED
    BY <2>5, <2>6, <2>7
<1>3. n \in S
  <2> HIDE DEF S
  <2> QED
    BY <1>1, <1>2, SetInduction
<1> QED
  BY <1>3 DEF Paths

\* Of some places in a list there is a last one.
LEMMA LastPlace ==
    ASSUME NEW n \in Nat, NEW P \in SUBSET (1 .. n), P # {}
    PROVE  Max(P) \in P
<1> DEFINE D == {n - j : j \in P}
<1>1. D \in SUBSET Nat /\ D # {}
  <2>1. \A j \in P : n - j \in Nat
    OBVIOUS
  <2> QED
    BY <2>1
<1>2. PICK d \in D : \A e \in D : ~ (<<e, d>> \in Below)
  BY <1>1, BelowIsWellFounded, WFMin
<1>3. PICK i \in P : d = n - i
  OBVIOUS
<1>4. ASSUME NEW j \in P PROVE i >= j
  <2>1. n - j \in D
    OBVIOUS
  <2>2. n - j \in Nat /\ d \in Nat /\ i \in Nat /\ j \in Nat
    BY <1>1, <1>3, <2>1
  <2>3. ~ (n - j < d)
    BY <1>2, <2>1, <2>2 DEF Below
  <2> QED
    BY <1>3, <2>2, <2>3
<1> QED
  BY <1>4 DEF Max

-----------------------------------------------------------------------------
(* Registers: what a write puts on the wire is what the matching read      *)
(* decodes, for every byte order, every width and every value of the type. *)

\* Byte sequences that fill whole registers.
Even(b) == \E m \in Nat : Len(b) = 2 * m

\* A reordering exchanges positions in pairs.
LEMMA PartnerInvolution ==
    ASSUME NEW order \in Orders, NEW m \in Nat, NEW i \in 1 .. 2 * m
    PROVE  /\ Partner(order, 2 * m, i) \in 1 .. 2 * m
           /\ Partner(order, 2 * m, Partner(order, 2 * m, i)) = i
<1>1. PICK k \in Int : i = 2 * k \/ i = 2 * k + 1
  <2>1. i = 2 * (i \div 2) + (i % 2) /\ i % 2 \in {0, 1} /\ i \div 2 \in Int
    OBVIOUS
  <2> QED BY <2>1
<1>2. CASE i = 2 * k
  <2>1. i % 2 = 0 /\ (2 * m - i + 2) % 2 = 0 /\ (i - 1) % 2 = 1
    BY <1>2
  <2> QED BY <1>2, <2>1 DEF Partner, Orders
<1>3. CASE i = 2 * k + 1
  <2>1. i % 2 = 1 /\ (2 * m - i) % 2 = 1 /\ (i + 1) % 2 = 0
    BY <1>3
  <2> QED BY <1>3, <2>1 DEF Partner, Orders
<1> QED BY <1>1, <1>2, <1>3

LEMMA ReorderedBytes ==
    ASSUME NEW order \in Orders, NEW b \in Seq(Byte), Even(b)
    PROVE  /\ ReorderBytes(b, order) \in Seq(Byte)
           /\ Len(ReorderBytes(b, order)) = Len(b)
<1>1. PICK m \in Nat : Len(b) = 2 * m
  BY DEF Even
<1>2. \A i \in 1 .. Len(b) : b[Partner(order, Len(b), i)] \in Byte
  BY <1>1, PartnerInvolution
<1> QED BY <1>2 DEF ReorderBytes

\* "Every ordering is an involution, so the same function maps wire to
\* logical and logical to wire" (byte-order.js:17-19).
THEOREM ReorderInvolution ==
    ASSUME NEW order \in Orders, NEW b \in Seq(Byte), Even(b)
    PROVE  ReorderBytes(ReorderBytes(b, order), order) = b
<1> DEFINE r == ReorderBytes(b, order)
<1>1. PICK m \in Nat : Len(b) = 2 * m
  BY DEF Even
<1>2. r \in Seq(Byte) /\ Len(r) = Len(b)
  BY ReorderedBytes
<1>3. \A i \in 1 .. Len(b) : r[Partner(order, Len(b), i)] = b[i]
  BY <1>1, PartnerInvolution DEF ReorderBytes
<1>4. ReorderBytes(r, order) = [i \in 1 .. Len(b) |-> b[i]]
  BY <1>2, <1>3 DEF ReorderBytes
<1> QED BY <1>4

\* The two bytes of a register.
LEMMA ByteHalves ==
    ASSUME NEW high \in Byte, NEW low \in Byte
    PROVE  /\ (high * 256 + low) \div 256 = high
           /\ high * 256 + low \in Int
  BY DEF Byte

LEMMA LowByte ==
    ASSUME NEW high \in Byte, NEW low \in Byte
    PROVE  (high * 256 + low) % 256 = low
  BY DEF Byte

LEMMA PairOfBytes ==
    ASSUME NEW b \in Seq(Byte), NEW m \in Nat, Len(b) = 2 * m, NEW k \in 1 .. m
    PROVE  b[2 * k - 1] \in Byte /\ b[2 * k] \in Byte
<1>1. 2 * k - 1 \in 1 .. Len(b) /\ 2 * k \in 1 .. Len(b)
  OBVIOUS
<1> QED BY <1>1

\* Registers keep the bytes put into them.
LEMMA BytesOfRegisters ==
    ASSUME NEW b \in Seq(Byte), Even(b)
    PROVE  BytesOf(RegistersOf(b)) = b
<1>1. PICK m \in Nat : Len(b) = 2 * m
  BY DEF Even
<1>2. Len(b) \div 2 = m
  BY <1>1
<1>3. RegistersOf(b) = [k \in 1 .. m |-> b[2 * k - 1] * 256 + b[2 * k]]
  BY <1>2 DEF RegistersOf
<1>4. Len(RegistersOf(b)) = m
  <2>1. RegistersOf(b) \in Seq(Int)
    <3>1. \A k \in 1 .. m : b[2 * k - 1] * 256 + b[2 * k] \in Int
      BY <1>1, PairOfBytes, ByteHalves
    <3> QED BY <1>3, <3>1
  <2> QED BY <1>3, <2>1
<1>5. ASSUME NEW i \in 1 .. 2 * m
      PROVE  (IF i % 2 = 1 THEN RegistersOf(b)[(i + 1) \div 2] \div 256
                           ELSE RegistersOf(b)[i \div 2] % 256) = b[i]
  <2>1. CASE i % 2 = 1
    <3>1. PICK k \in 1 .. m : i = 2 * k - 1
      <4>1. i = 2 * ((i + 1) \div 2) - 1 /\ (i + 1) \div 2 \in 1 .. m
        BY <2>1
      <4> QED BY <4>1
    <3>2. (i + 1) \div 2 = k
      BY <3>1
    <3>3. b[2 * k - 1] \in Byte /\ b[2 * k] \in Byte
      BY <1>1, PairOfBytes
    <3>4. (b[2 * k - 1] * 256 + b[2 * k]) \div 256 = b[2 * k - 1]
      BY <3>3, ByteHalves
    <3> QED BY <1>3, <2>1, <3>1, <3>2, <3>4
  <2>2. CASE i % 2 # 1
    <3>1. PICK k \in 1 .. m : i = 2 * k
      <4>1. i = 2 * (i \div 2) /\ i \div 2 \in 1 .. m
        BY <2>2
      <4> QED BY <4>1
    <3>2. i \div 2 = k
      BY <3>1
    <3>3. b[2 * k - 1] \in Byte /\ b[2 * k] \in Byte
      BY <1>1, PairOfBytes
    <3>4. (b[2 * k - 1] * 256 + b[2 * k]) % 256 = b[2 * k]
      BY <3>3, LowByte
    <3> QED BY <1>3, <2>2, <3>1, <3>2, <3>4
  <2> QED BY <2>1, <2>2
<1>6. BytesOf(RegistersOf(b)) = [i \in 1 .. Len(b) |-> b[i]]
  BY <1>1, <1>4, <1>5 DEF BytesOf
<1> QED BY <1>6

\* Encoded bytes come back in logical order, whatever the byte order is and
\* however many registers they fill (byte-order.js:36-43, 158-161).
THEOREM WireRoundTrip ==
    ASSUME NEW order \in Orders, NEW b \in Seq(Byte), Even(b)
    PROVE  OrderBytes(RegistersOf(ReorderBytes(b, order)), order) = b
<1> DEFINE r == ReorderBytes(b, order)
<1>1. r \in Seq(Byte) /\ Even(r)
  BY ReorderedBytes DEF Even
<1>2. BytesOf(RegistersOf(r)) = r
  BY <1>1, BytesOfRegisters
<1> QED BY <1>2, ReorderInvolution DEF OrderBytes

LEMMA NarrowValues ==
    ASSUME NEW type \in NarrowTypes, NEW n \in Lowest(type) .. Highest(type)
    PROVE  /\ n \in Int
           /\ type = "int8" => -128 <= n /\ n <= 127
           /\ type = "uint8" => 0 <= n /\ n <= 255
           /\ type = "int16" => -32768 <= n /\ n <= 32767
           /\ type = "uint16" => 0 <= n /\ n <= 65535
  BY DEF Lowest, Highest

\* Two's complement of eight and of sixteen bits.
LEMMA SignedByte ==
    ASSUME NEW n \in Int, -128 <= n, n <= 127
    PROVE  Signed(n % 256, 256) = n
  BY DEF Signed

LEMMA SignedWord ==
    ASSUME NEW n \in Int, -32768 <= n, n <= 32767
    PROVE  Signed(n % 65536, 65536) = n
  BY DEF Signed

LEMMA UnsignedByte ==
    ASSUME NEW n \in Int, 0 <= n, n <= 255
    PROVE  n % 256 = n
  OBVIOUS

LEMMA UnsignedWord ==
    ASSUME NEW n \in Int, 0 <= n, n <= 65535
    PROVE  n % 65536 = n
  OBVIOUS

\* The logical bytes of a value fill whole registers.
LEMMA EncodedValue ==
    ASSUME NEW type \in BinaryTypes, NEW value \in ValuesOf(type)
    PROVE  EncodedBytes(value, type) \in Seq(Byte) /\ Even(EncodedBytes(value, type))
<1>1. CASE type \in NarrowTypes
  <2>1. PICK n \in Int : value = <<n>>
    <3>1. PICK n \in Lowest(type) .. Highest(type) : value = <<n>>
      BY <1>1 DEF ValuesOf
    <3> QED BY <1>1, <3>1, NarrowValues
  <2>2. value[1] = n
    BY <2>1
  <2>3. PICK high \in Byte, low \in Byte : EncodedBytes(value, type) = <<high, low>>
    <3>1. n % 256 \in Byte /\ (n % 65536) \div 256 \in Byte /\ 0 \in Byte
      BY DEF Byte
    <3> QED BY <1>1, <2>2, <3>1 DEF EncodedBytes, NarrowTypes, Bytes4Types, Bytes8Types
  <2>4. <<high, low>> \in Seq(Byte) /\ Len(<<high, low>>) = 2 * 1
    OBVIOUS
  <2> QED BY <2>3, <2>4 DEF Even
<1>2. CASE type \notin NarrowTypes
  <2>1. type \in Bytes4Types \cup Bytes8Types
    BY <1>2 DEF BinaryTypes
  <2>2. value \in Seq(Byte) /\ Len(value) = 2 * RegistersFor(type)
    BY <1>2 DEF ValuesOf
  <2>3. EncodedBytes(value, type) = value
    BY <2>1 DEF EncodedBytes, Bytes4Types, Bytes8Types
  <2>4. RegistersFor(type) \in Nat
    BY DEF RegistersFor
  <2> QED BY <2>2, <2>3, <2>4 DEF Even
<1> QED BY <1>1, <1>2

\* Sixteen bits in two bytes.
LEMMA TwoBytes ==
    ASSUME NEW n \in Int
    PROVE  ((n % 65536) \div 256) * 256 + (n % 256) = n % 65536
  OBVIOUS

LEMMA DecodedValue ==
    ASSUME NEW type \in BinaryTypes, NEW value \in ValuesOf(type)
    PROVE  DecodeBytes(EncodedBytes(value, type), type) = value
<1> DEFINE b == EncodedBytes(value, type)
<1>1. CASE type \in {"int8", "uint8"}
  <2>1. PICK n \in Lowest(type) .. Highest(type) : value = <<n>>
    BY <1>1 DEF ValuesOf, NarrowTypes
  <2>2. n \in Int /\ value[1] = n
    BY <1>1, <2>1, NarrowValues DEF NarrowTypes
  <2>3. b = <<0, n % 256>>
    BY <1>1, <2>2 DEF EncodedBytes
  <2>4. b[Len(b)] = n % 256
    BY <2>3
  <2>5. IF type = "int8" THEN Signed(n % 256, 256) = n ELSE n % 256 = n
    BY <1>1, NarrowValues, SignedByte, UnsignedByte DEF NarrowTypes
  <2> QED BY <1>1, <2>1, <2>4, <2>5 DEF DecodeBytes
<1>2. CASE type \in {"int16", "uint16"}
  <2>1. PICK n \in Lowest(type) .. Highest(type) : value = <<n>>
    BY <1>2 DEF ValuesOf, NarrowTypes
  <2>2. n \in Int /\ value[1] = n
    BY <1>2, <2>1, NarrowValues DEF NarrowTypes
  <2>3. b = <<(n % 65536) \div 256, n % 256>>
    BY <1>2, <2>2 DEF EncodedBytes, Bytes4Types, Bytes8Types
  <2>4. b[1] * 256 + b[2] = n % 65536
    BY <2>2, <2>3, TwoBytes
  <2>5. IF type = "int16" THEN Signed(n % 65536, 65536) = n ELSE n % 65536 = n
    BY <1>2, NarrowValues, SignedWord, UnsignedWord DEF NarrowTypes
  <2> QED BY <1>2, <2>1, <2>4, <2>5 DEF DecodeBytes
<1>3. CASE type \in Bytes4Types \cup Bytes8Types
  <2>1. value \in Seq(Byte) /\ Len(value) = 2 * RegistersFor(type) /\ b = value
    BY <1>3 DEF ValuesOf, EncodedBytes, NarrowTypes, Bytes4Types, Bytes8Types
  <2>2. SubSeq(value, 1, Len(value)) = value
    BY <2>1
  <2>3. DecodeBytes(value, type) = SubSeq(value, 1, 2 * RegistersFor(type))
    <3>1. CASE type \in Bytes4Types
      <4>1. DecodeBytes(value, type) = SubSeq(value, 1, 4) /\ RegistersFor(type) = 2
        BY <3>1 DEF DecodeBytes, RegistersFor, Bytes4Types
      <4> QED BY <4>1
    <3>2. CASE type \in Bytes8Types
      <4>1. DecodeBytes(value, type) = SubSeq(value, 1, 8) /\ RegistersFor(type) = 4
        BY <3>2 DEF DecodeBytes, RegistersFor, Bytes4Types, Bytes8Types
      <4> QED BY <4>1
    <3> QED BY <1>3, <3>1, <3>2
  <2> QED BY <2>1, <2>2, <2>3
<1> QED BY <1>1, <1>2, <1>3 DEF BinaryTypes, NarrowTypes

\* "multi-register writes land on the wire exactly as the matching reads
\* decode them" (odi-tag-out.js:6-8; byte-order.js:66-89, 93-162): decoding
\* what was encoded gives the value back, for every value of every type.
THEOREM ReadsDecodeWrites ==
    ASSUME NEW order \in Orders, NEW type \in BinaryTypes, NEW value \in ValuesOf(type)
    PROVE  CombineRegisters(SplitRegisters(value, type, order), type, order) = value
<1>1. OrderBytes(SplitRegisters(value, type, order), order) = EncodedBytes(value, type)
  BY EncodedValue, WireRoundTrip DEF SplitRegisters
<1>2. type \notin {"bool", "string"}
  BY DEF BinaryTypes, NarrowTypes, Bytes4Types, Bytes8Types
<1> QED BY <1>1, <1>2, DecodedValue DEF CombineRegisters

-----------------------------------------------------------------------------
(* Modbus: the plan. *)

\* What the configuration is, as far as the plan uses it.
Configured == layout \in Seq(TagConfigs) /\ device \in DeviceSettings

Rates == {Rate(t) : t \in ValidTags}
BlockRecords == [table : Tables, rate : Rates, start : Nat, end : Nat, members : Seq(ValidTags)]

LEMMA ValidTag ==
    ASSUME Configured, NEW t \in ValidTags
    PROVE  /\ t \in Nat /\ t \in TagIds /\ layout[t] \in TagConfigs
           /\ Parsed(t).table \in Tables /\ Parsed(t).offset \in Nat
           /\ Parsed(t).count \in {1, 2, 4}
<1>1. t \in TagIds /\ t \in Nat /\ layout[t] \in TagConfigs
  BY DEF Configured, ValidTags, TagIds
<1>2. Parsed(t).table # NONE /\ Parsed(t).offset \in Word
  BY DEF ValidTags, Parsed, Parse
<1>3. Parsed(t).table \in Tables \cup {NONE}
  BY DEF Parsed, Parse, TableOf, Tables
<1>4. RegistersFor(layout[t].dataType) \in {1, 2, 4}
  BY DEF RegistersFor
<1>5. Parsed(t).count \in {1, 2, 4}
  BY <1>4 DEF Parsed, Parse
<1>6. \A n \in Word : n \in Nat
  BY DEF Word
<1> QED
  BY <1>1, <1>2, <1>3, <1>5, <1>6

LEMMA Limits ==
    ASSUME Configured, NEW table \in Tables
    PROVE  MaxGap \in Nat /\ Limit(table) \in Nat \ {0}
<1>1. /\ device.maxBlockSize \in Int \cup {NONE} /\ device.maxGap \in Int \cup {NONE}
  BY DEF Configured, DeviceSettings
<1>2. Setting(device.maxGap, 8) \in Int /\ Setting(device.maxBlockSize, 120) \in Int
  BY <1>1 DEF Setting
<1> QED
  BY <1>2 DEF MaxGap, Limit, Largest

\* A set without one of its elements.
LEMMA OneLess ==
    ASSUME NEW S, NEW x \in S, NEW n \in Nat, IsFiniteSet(S), Cardinality(S) = n + 1
    PROVE  IsFiniteSet(S \ {x}) /\ Cardinality(S \ {x}) = n
BY FS_RemoveElement

\* Finitely many tags can be sorted.
LEMMA Sortable ==
    ASSUME Configured, NEW those \in SUBSET ValidTags
    PROVE  /\ Cardinality(those) \in Nat
           /\ Sorted(those) \in Seq(those)
           /\ ToSet(Sorted(those)) = those
           /\ \A i, j \in 1 .. Len(Sorted(those)) : i < j => Before(Sorted(those)[i], Sorted(those)[j])
<1> DEFINE Sorts(s, M) == ToSet(s) = M /\ \A i, j \in DOMAIN s : i < j => Before(s[i], s[j])
           S == {n \in Nat : \A M \in SUBSET those : IsFiniteSet(M) /\ Cardinality(M) = n =>
                                \E s \in [1 .. n -> M] : Sorts(s, M)}
<1>1. 0 \in S
  <2>1. SUFFICES ASSUME NEW M \in SUBSET those, IsFiniteSet(M), Cardinality(M) = 0
                 PROVE  \E s \in [1 .. 0 -> M] : Sorts(s, M)
    OBVIOUS
  <2>2. M = {}
    BY <2>1, FS_EmptySet
  <2>3. [i \in 1 .. 0 |-> i] \in [1 .. 0 -> M] /\ DOMAIN [i \in 1 .. 0 |-> i] = {}
    OBVIOUS
  <2> QED
    BY <2>2, <2>3 DEF ToSet
<1>2. ASSUME NEW n \in Nat, n \in S PROVE n + 1 \in S
  <2>1. SUFFICES ASSUME NEW M \in SUBSET those, IsFiniteSet(M), Cardinality(M) = n + 1
                 PROVE  \E s \in [1 .. n + 1 -> M] : Sorts(s, M)
    OBVIOUS
  <2>2. M # {}
    BY <2>1, FS_EmptySet
  <2>100. \A t \in M : t \in Nat /\ Parsed(t).offset \in Nat
    BY ValidTag
  <2> DEFINE offsets == {Parsed(t).offset : t \in M}
  <2>3. PICK o \in offsets : \A p \in offsets : o <= p
    <3>1. offsets \in SUBSET Nat /\ offsets # {}
      BY <2>2, <2>100
    <3> QED
      BY <3>1, LeastNumber
  <2> DEFINE first == {u \in M : Parsed(u).offset = o}
  <2>4. PICK t \in first : \A u \in first : t <= u
    <3>1. first \in SUBSET Nat /\ first # {}
      BY <2>100
    <3> QED
      BY <3>1, LeastNumber
  <2>5. ASSUME NEW u \in M \ {t} PROVE Before(t, u)
    <3>1. o <= Parsed(u).offset /\ Parsed(t).offset = o /\ u \in Nat /\ t \in Nat
      BY <2>100, <2>3
    <3>2. Parsed(u).offset = o => t <= u
      BY <2>4
    <3> QED
      BY <3>1, <3>2, <2>100 DEF Before
  <2>6. IsFiniteSet(M \ {t}) /\ Cardinality(M \ {t}) = n
    <3> HIDE DEF S, offsets
    <3>1. t \in M
      OBVIOUS
    <3> HIDE DEF first
    <3> QED
      BY <2>1, <3>1, OneLess
  <2>7. PICK r \in [1 .. n -> M \ {t}] : Sorts(r, M \ {t})
    BY <1>2, <2>6
  <2> DEFINE s == [i \in 1 .. n + 1 |-> IF i = 1 THEN t ELSE r[i - 1]]
  <2>8. \A i \in 1 .. n + 1 : i # 1 => i - 1 \in 1 .. n /\ s[i] = r[i - 1] /\ s[i] \in M \ {t}
    BY <2>7
  <2>9. s \in [1 .. n + 1 -> M] /\ s[1] = t
    BY <2>4, <2>8
  <2>10. ToSet(s) = M
    <3>1. ToSet(s) \subseteq M
      BY <2>9 DEF ToSet
    <3>2. ASSUME NEW u \in M PROVE u \in ToSet(s)
      <4>1. CASE u = t
        <5>1. 1 \in 1 .. n + 1
          OBVIOUS
        <5> QED
          BY <4>1, <5>1, <2>9 DEF ToSet
      <4>2. CASE u # t
        <5>1. PICK i \in 1 .. n : r[i] = u
          BY <4>2, <2>7 DEF ToSet
        <5>2. i + 1 \in 1 .. n + 1 /\ i + 1 # 1 /\ i + 1 - 1 = i
          OBVIOUS
        <5> QED
          BY <5>1, <5>2, <2>8 DEF ToSet
      <4> QED
        BY <4>1, <4>2
    <3> QED
      BY <3>1, <3>2
  <2>11. ASSUME NEW i \in 1 .. n + 1, NEW j \in 1 .. n + 1, i < j PROVE Before(s[i], s[j])
    <3>1. j # 1 /\ j - 1 \in 1 .. n
      BY <2>11
    <3>2. CASE i = 1
      BY <3>1, <3>2, <2>5, <2>8, <2>9
    <3>3. CASE i # 1
      <4>1. i - 1 \in 1 .. n /\ i - 1 < j - 1
        BY <3>3, <2>11
      <4> QED
        BY <3>1, <3>3, <4>1, <2>7, <2>8
    <3> QED
      BY <3>2, <3>3
  <2> HIDE DEF s
  <2>12. DOMAIN s = 1 .. n + 1
    BY <2>9
  <2> QED
    BY <2>9, <2>10, <2>11, <2>12
<1>3. IsFiniteSet(those)
  <2>1. those \in SUBSET (1 .. Len(layout)) /\ Len(layout) \in Nat
    BY DEF Configured, ValidTags, TagIds
  <2> QED
    <3>1. IsFiniteSet(1 .. Len(layout))
      BY <2>1, FS_Interval
    <3> QED
      BY <2>1, <3>1, FS_Subset
<1>4. Cardinality(those) \in Nat
  BY <1>3, FS_CardinalityType
<1>5. Cardinality(those) \in S
  <2> HIDE DEF S
  <2> QED
    BY <1>1, <1>2, <1>4, SetInduction
<1>6. \E s \in [1 .. Cardinality(those) -> those] : Sorts(s, those)
  BY <1>3, <1>5
<1>7. Sorted(those) \in [1 .. Cardinality(those) -> those] /\ Sorts(Sorted(those), those)
  BY <1>6 DEF Sorted
<1> QED
  BY <1>4, <1>7

LEMMA PlacedType ==
    ASSUME Configured, NEW blocks \in Seq(BlockRecords), NEW t \in ValidTags
    PROVE  Place(blocks, t) \in Seq(BlockRecords)
<1> DEFINE p == Parsed(t)
           last == blocks[Len(blocks)]
           new == [table |-> p.table, rate |-> Rate(t), start |-> p.offset,
                   end |-> p.offset + p.count, members |-> <<t>>]
           grown == [last EXCEPT !.end = Largest(last.end, p.offset + p.count),
                                 !.members = Append(@, t)]
<1>1. p.table \in Tables /\ p.offset \in Nat /\ p.offset + p.count \in Nat
  BY ValidTag
<1>2. new \in BlockRecords
  <2>1. Rate(t) \in Rates /\ <<t>> \in Seq(ValidTags)
    BY DEF Rates
  <2> HIDE DEF p
  <2> QED
    BY <1>1, <2>1 DEF BlockRecords
<1>3. ASSUME blocks # <<>> PROVE grown \in BlockRecords /\ Len(blocks) \in 1 .. Len(blocks)
  <2>1. Len(blocks) \in 1 .. Len(blocks) /\ last \in BlockRecords
    BY <1>3
  <2>2. last.end \in Nat /\ Append(last.members, t) \in Seq(ValidTags)
    BY <2>1 DEF BlockRecords
  <2>3. Largest(last.end, p.offset + p.count) \in Nat
    BY <1>1, <2>2 DEF Largest
  <2> HIDE DEF p, last
  <2> QED
    BY <2>1, <2>2, <2>3 DEF BlockRecords
<1>4. CASE blocks # <<>> /\ Fits(last, t)
  <2>1. Place(blocks, t) = [blocks EXCEPT ![Len(blocks)] = grown]
    BY <1>4 DEF Place
  <2> HIDE DEF grown
  <2> QED
    BY <1>3, <1>4, <2>1
<1>5. CASE ~ (blocks # <<>> /\ Fits(last, t))
  <2>1. Place(blocks, t) = Append(blocks, new)
    BY <1>5 DEF Place
  <2> HIDE DEF new
  <2> QED
    BY <1>2, <2>1
<1> QED
  BY <1>4, <1>5

\* The grouping of tags is defined for every group, one tag at a time.
LEMMA GroupingSteps ==
    ASSUME Configured, NEW group \in Seq(ValidTags)
    PROVE  /\ Grouping(group) \in [0 .. Len(group) -> Seq(BlockRecords)]
           /\ Grouping(group)[0] = <<>>
           /\ \A i \in 1 .. Len(group) :
                Grouping(group)[i] = Place(Grouping(group)[i - 1], group[i])
<1> DEFINE T == Seq(BlockRecords)
           F == [i \in 1 .. Len(group) |-> [blocks \in T |-> Place(blocks, group[i])]]
           G == Grouping(group)
<1>1. F \in Steps(Len(group), T)
  <2>1. \A i \in 1 .. Len(group) : group[i] \in ValidTags
    OBVIOUS
  <2>2. \A i \in 1 .. Len(group), blocks \in T : Place(blocks, group[i]) \in T
    BY <2>1, PlacedType
  <2> HIDE DEF T
  <2> QED
    BY <2>2 DEF Steps
<1>2. PICK f \in Paths(F, <<>>, Len(group), T) : TRUE
  <2>1. <<>> \in T /\ Len(group) \in Nat
    OBVIOUS
  <2> HIDE DEF T, F
  <2>2. Paths(F, <<>>, Len(group), T) # {}
    BY <1>1, <2>1, Recursion
  <2> QED
    BY <2>2
<1>3. \A i \in 1 .. Len(group) : F[i][f[i - 1]] = Place(f[i - 1], group[i])
  BY <1>2 DEF Paths
<1>4. f = [i \in 0 .. Len(group) |-> IF i = 0 THEN <<>> ELSE Place(f[i - 1], group[i])]
  <2>1. f[0] = <<>> /\ \A i \in 1 .. Len(group) : f[i] = Place(f[i - 1], group[i])
    BY <1>2, <1>3 DEF Paths
  <2>2. f = [i \in 0 .. Len(group) |-> f[i]]
    BY <1>2 DEF Paths
  <2>3. \A i \in 0 .. Len(group) : f[i] = IF i = 0 THEN <<>> ELSE Place(f[i - 1], group[i])
    BY <2>1
  <2> QED
    BY <2>2, <2>3
<1>5. G = [i \in 0 .. Len(group) |-> IF i = 0 THEN <<>> ELSE Place(G[i - 1], group[i])]
  BY <1>4 DEF Grouping
<1>55. G[0] = <<>> /\ \A i \in 1 .. Len(group) : G[i] = Place(G[i - 1], group[i])
  <2> HIDE DEF G
  <2>1. Len(group) \in Nat
    OBVIOUS
  <2>2. 0 \in 0 .. Len(group) /\ \A i \in 1 .. Len(group) : i \in 0 .. Len(group) /\ i # 0
    BY <2>1
  <2> QED
    BY <1>5, <2>2
<1>6. G \in [0 .. Len(group) -> T]
  <2> DEFINE S == {i \in 0 .. Len(group) : G[i] \in T}
  <2>1. Len(group) \in Nat /\ 0 \in S
    <3>1. <<>> \in T /\ Len(group) \in Nat
      OBVIOUS
    <3> HIDE DEF T, G
    <3> QED
      BY <1>55, <3>1
  <2>2. ASSUME NEW i \in 1 .. Len(group), i - 1 \in S PROVE i \in S
    <3>1. G[i] = Place(G[i - 1], group[i]) /\ G[i - 1] \in T /\ group[i] \in ValidTags
      BY <1>55, <2>2
    <3> HIDE DEF T, G
    <3>2. Place(G[i - 1], group[i]) \in T
      BY <3>1, PlacedType DEF T
    <3> QED
      BY <3>1, <3>2
  <2>3. 0 .. Len(group) \subseteq S
    <3> HIDE DEF S
    <3> QED
      BY <2>1, <2>2, IntervalInduction
  <2> QED
    BY <1>5, <2>3
<1> QED
  BY <1>55, <1>6

\* What holds of a block on its own: its members are of one table and rate and
\* inside its span, no gap of it is longer than allowed, a block of one tag is
\* that tag, any other keeps to the limit.
Sound(b, table, rate) ==
    /\ b.table = table /\ b.rate = rate
    /\ b.members # <<>>
    /\ \A u \in ToSet(b.members) :
         /\ Parsed(u).table = table /\ Rate(u) = rate
         /\ b.start <= Parsed(u).offset
         /\ Parsed(u).offset + Parsed(u).count <= b.end
    /\ \A o \in b.start .. b.end - 1 : \E u \in ToSet(b.members) :
         \E d \in 0 .. MaxGap : <<table, o + d>> \in CellsOf(u)
    /\ Len(b.members) = 1 => /\ b.start = Parsed(b.members[1]).offset
                             /\ b.end = b.start + Parsed(b.members[1]).count
    /\ Len(b.members) > 1 => b.end - b.start <= Limit(table)

LEMMA Cells ==
    ASSUME Configured, NEW t \in ValidTags, NEW o \in Int,
           Parsed(t).offset <= o, o < Parsed(t).offset + Parsed(t).count
    PROVE  <<Parsed(t).table, o>> \in CellsOf(t)
<1>1. Parsed(t).offset \in Nat /\ Parsed(t).count \in Nat
  BY ValidTag
<1>2. o - Parsed(t).offset \in 0 .. Parsed(t).count - 1 /\ Parsed(t).offset + (o - Parsed(t).offset) = o
  BY <1>1
<1> QED
  BY <1>2 DEF CellsOf

LEMMA OpenedSound ==
    ASSUME Configured, NEW t \in ValidTags, NEW b \in BlockRecords,
           b = [table |-> Parsed(t).table, rate |-> Rate(t), start |-> Parsed(t).offset,
                end |-> Parsed(t).offset + Parsed(t).count, members |-> <<t>>]
    PROVE  Sound(b, Parsed(t).table, Rate(t)) /\ ToSet(b.members) = {t}
<1>1. Parsed(t).offset \in Nat /\ Parsed(t).count \in Nat /\ Parsed(t).table \in Tables
  BY ValidTag
<1>2. /\ b.table = Parsed(t).table /\ b.rate = Rate(t) /\ b.members = <<t>>
      /\ b.start = Parsed(t).offset /\ b.end = Parsed(t).offset + Parsed(t).count
  OBVIOUS
<1>3. b.members # <<>> /\ Len(b.members) = 1 /\ b.members[1] = t
  BY <1>2
<1>4. ToSet(b.members) = {t}
  BY <1>2 DEF ToSet
<1>5. ASSUME NEW o \in b.start .. b.end - 1
      PROVE  \E u \in ToSet(b.members) : \E d \in 0 .. MaxGap :
               <<Parsed(t).table, o + d>> \in CellsOf(u)
  <2>1. 0 \in 0 .. MaxGap /\ o \in Int /\ Parsed(t).offset <= o
        /\ o < Parsed(t).offset + Parsed(t).count /\ o + 0 = o
    BY <1>1, <1>2, Limits
  <2>2. <<Parsed(t).table, o + 0>> \in CellsOf(t)
    BY <2>1, Cells
  <2> QED
    BY <1>4, <2>1, <2>2
<1>6. \A u \in ToSet(b.members) :
         /\ Parsed(u).table = Parsed(t).table /\ Rate(u) = Rate(t)
         /\ b.start <= Parsed(u).offset
         /\ Parsed(u).offset + Parsed(u).count <= b.end
  BY <1>1, <1>2, <1>4
<1>7. Sound(b, Parsed(t).table, Rate(t))
  <2>1. ~ (Len(b.members) > 1)
    BY <1>3
  <2>2. Len(b.members) = 1 => /\ b.start = Parsed(b.members[1]).offset
                              /\ b.end = b.start + Parsed(b.members[1]).count
    BY <1>2, <1>3
  <2> QED
    BY <1>2, <1>3, <1>5, <1>6, <2>1, <2>2 DEF Sound
<1> QED
  BY <1>4, <1>7

LEMMA GrownSound ==
    ASSUME Configured, NEW t \in ValidTags, NEW last \in BlockRecords, NEW b \in BlockRecords,
           Sound(last, Parsed(t).table, Rate(t)), Fits(last, t),
           \A u \in ToSet(last.members) : Parsed(u).offset <= Parsed(t).offset,
           b = [last EXCEPT !.end = Largest(last.end, Parsed(t).offset + Parsed(t).count),
                            !.members = Append(@, t)]
    PROVE  Sound(b, Parsed(t).table, Rate(t)) /\ ToSet(b.members) = ToSet(last.members) \cup {t}
<1> DEFINE p == Parsed(t)
<1>1. /\ p.offset \in Nat /\ p.count \in Nat /\ p.count > 0 /\ p.table \in Tables
      /\ MaxGap \in Nat /\ Limit(p.table) \in Nat
  BY ValidTag, Limits
<1>2. /\ last.table = p.table /\ last.rate = Rate(t) /\ last.members \in Seq(ValidTags)
      /\ last.start \in Nat /\ last.end \in Nat
  BY DEF Sound, BlockRecords
<1>3. /\ b.table = last.table /\ b.rate = last.rate /\ b.start = last.start
      /\ b.members = Append(last.members, t)
      /\ b.end = Largest(last.end, p.offset + p.count)
  BY DEF BlockRecords
<1>4. /\ b.end \in Nat /\ last.end <= b.end /\ p.offset + p.count <= b.end
      /\ b.end = last.end \/ b.end = p.offset + p.count
  BY <1>1, <1>2, <1>3 DEF Largest
<1>5. /\ p.offset - last.end <= MaxGap
      /\ b.end - b.start <= Limit(p.table)
  BY <1>1, <1>2, <1>3 DEF Fits, Largest
<1>6. Len(b.members) = Len(last.members) + 1 /\ Len(last.members) >= 1 /\ b.members # <<>>
  <2>1. last.members # <<>>
    BY DEF Sound
  <2> QED
    BY <1>2, <1>3, <2>1
<1>7. ToSet(b.members) = ToSet(last.members) \cup {t}
  <2>1. /\ \A i \in 1 .. Len(last.members) : b.members[i] = last.members[i]
        /\ b.members[Len(last.members) + 1] = t
        /\ DOMAIN b.members = 1 .. Len(last.members) + 1
        /\ DOMAIN last.members = 1 .. Len(last.members) /\ Len(last.members) \in Nat
    BY <1>2, <1>3
  <2> HIDE DEF p
  <2>2. \A i \in 1 .. Len(last.members) + 1 : i \in 1 .. Len(last.members) \/ i = Len(last.members) + 1
    BY <2>1
  <2>3. Len(last.members) + 1 \in 1 .. Len(last.members) + 1
        /\ \A i \in 1 .. Len(last.members) : i \in 1 .. Len(last.members) + 1
    BY <2>1
  <2> QED
    BY <2>1, <2>2, <2>3 DEF ToSet
<1>8. PICK v \in ToSet(last.members) : v \in ValidTags
  <2>1. 1 \in DOMAIN last.members /\ last.members[1] \in ValidTags
    BY <1>2, <1>6
  <2> QED
    BY <2>1 DEF ToSet
<1>9. b.start <= p.offset
  <2>1. last.start <= Parsed(v).offset /\ Parsed(v).offset <= p.offset /\ Parsed(v).offset \in Nat
    BY <1>8, ValidTag DEF Sound
  <2> QED
    BY <1>1, <1>2, <1>3, <2>1
<1>10. ASSUME NEW u \in ToSet(b.members)
       PROVE  /\ Parsed(u).table = p.table /\ Rate(u) = Rate(t)
              /\ b.start <= Parsed(u).offset
              /\ Parsed(u).offset + Parsed(u).count <= b.end
  <2>1. CASE u = t
    BY <1>1, <1>4, <1>9, <2>1
  <2>2. CASE u # t
    <3>1. u \in ToSet(last.members) /\ u \in ValidTags
      <4>1. u \in ToSet(last.members)
        BY <1>7, <2>2
      <4> QED
        BY <1>2, <4>1 DEF ToSet
    <3>2. /\ Parsed(u).table = p.table /\ Rate(u) = Rate(t)
          /\ last.start <= Parsed(u).offset
          /\ Parsed(u).offset + Parsed(u).count <= last.end
      BY <3>1 DEF Sound
    <3>3. Parsed(u).offset \in Nat /\ Parsed(u).count \in Nat
      BY <3>1, ValidTag
    <3> QED
      BY <1>2, <1>3, <1>4, <3>2, <3>3
  <2> QED
    BY <2>1, <2>2
<1>11. ASSUME NEW o \in b.start .. b.end - 1
       PROVE  \E u \in ToSet(b.members) : \E d \in 0 .. MaxGap : <<p.table, o + d>> \in CellsOf(u)
  <2>1. CASE o < last.end
    <3>1. o \in last.start .. last.end - 1
      BY <1>2, <1>3, <2>1
    <3> QED
      BY <1>7, <3>1 DEF Sound
  <2>2. CASE o >= last.end
    <3>1. o \in Int /\ o < p.offset + p.count
      BY <1>1, <1>2, <1>3, <1>4, <2>2
    <3>2. CASE o >= p.offset
      <4>1. <<p.table, o + 0>> \in CellsOf(t) /\ 0 \in 0 .. MaxGap
        BY <1>1, <3>1, <3>2, Cells
      <4> QED
        BY <1>7, <4>1
    <3>3. CASE o < p.offset
      <4>1. /\ p.offset - o \in 0 .. MaxGap /\ o + (p.offset - o) = p.offset
            /\ p.offset < p.offset + p.count /\ p.offset \in Int
        BY <1>1, <1>2, <1>5, <2>2, <3>1, <3>3
      <4>2. <<p.table, p.offset>> \in CellsOf(t)
        BY <1>1, <4>1, Cells
      <4> QED
        BY <1>7, <4>1, <4>2
    <3> QED
      BY <1>1, <3>1, <3>2, <3>3
  <2>3. o < last.end \/ o >= last.end
    BY <1>2, <1>3
  <2> QED
    BY <2>1, <2>2, <2>3
<1>12. Sound(b, p.table, Rate(t))
  <2>1. ~ (Len(b.members) = 1)
    BY <1>2, <1>6
  <2> HIDE DEF p
  <2> QED
    BY <1>2, <1>3, <1>5, <1>6, <1>10, <1>11, <2>1 DEF Sound
<1> QED
  BY <1>7, <1>12

\* The blocks made of some tags: each is sound, and each tag is in one of them.
Planned(blocks, table, rate, those) ==
    /\ \A k \in 1 .. Len(blocks) :
         Sound(blocks[k], table, rate) /\ ToSet(blocks[k].members) \subseteq those
    /\ \A u \in those : \E k \in 1 .. Len(blocks) : \A l \in 1 .. Len(blocks) :
         u \in ToSet(blocks[l].members) <=> l = k

\* Placing one tag more, at or after those placed.
LEMMA PlaceKeeps ==
    ASSUME Configured, NEW blocks \in Seq(BlockRecords), NEW those \in SUBSET ValidTags,
           NEW t \in ValidTags \ those, Planned(blocks, Parsed(t).table, Rate(t), those),
           \A u \in those : Parsed(u).offset <= Parsed(t).offset
    PROVE  Planned(Place(blocks, t), Parsed(t).table, Rate(t), those \cup {t})
<1> DEFINE p == Parsed(t)
           n == Len(blocks)
           last == blocks[n]
           new == [table |-> p.table, rate |-> Rate(t), start |-> p.offset,
                   end |-> p.offset + p.count, members |-> <<t>>]
           grown == [last EXCEPT !.end = Largest(last.end, p.offset + p.count),
                                 !.members = Append(@, t)]
           placed == Place(blocks, t)
<1>1. placed \in Seq(BlockRecords) /\ n \in Nat
  BY PlacedType
<1>2. CASE blocks # <<>> /\ Fits(last, t)
  <2>1. placed = [blocks EXCEPT ![n] = grown]
    BY <1>2 DEF Place
  <2>2. n \in 1 .. n /\ last \in BlockRecords /\ Len(placed) = n
    BY <1>2, <2>1
  <2>3. placed[n] = grown /\ placed[n] \in BlockRecords
        /\ \A k \in 1 .. n : k # n => placed[k] = blocks[k]
    BY <1>1, <2>1, <2>2
  <2>4. Sound(last, p.table, Rate(t)) /\ ToSet(last.members) \subseteq those
    BY <2>2 DEF Planned
  <2>5. Sound(placed[n], p.table, Rate(t)) /\ ToSet(placed[n].members) = ToSet(last.members) \cup {t}
    <3>1. \A u \in ToSet(last.members) : Parsed(u).offset <= p.offset
      BY <2>4
    <3> HIDE DEF last, placed, n
    <3> QED
      BY <1>2, <2>2, <2>3, <2>4, <3>1, GrownSound
  <2>6. ASSUME NEW k \in 1 .. n
        PROVE  Sound(placed[k], p.table, Rate(t)) /\ ToSet(placed[k].members) \subseteq those \cup {t}
    <3>1. CASE k = n
      BY <2>4, <2>5, <3>1
    <3>2. CASE k # n
      <4>1. Sound(blocks[k], p.table, Rate(t)) /\ ToSet(blocks[k].members) \subseteq those
        BY DEF Planned
      <4> QED
        BY <2>3, <3>2, <4>1
    <3> QED
      BY <3>1, <3>2
  <2>7. ASSUME NEW u \in those \cup {t}
        PROVE  \E k \in 1 .. n : \A l \in 1 .. n : u \in ToSet(placed[l].members) <=> l = k
    <3>1. \A l \in 1 .. n : ToSet(blocks[l].members) \subseteq those
      BY DEF Planned
    <3>2. CASE u = t
      <4>1. \A l \in 1 .. n : t \in ToSet(placed[l].members) <=> l = n
        BY <2>3, <2>5, <3>1
      <4> QED
        BY <2>2, <3>2, <4>1
    <3>3. CASE u # t
      <4>1. PICK k \in 1 .. n : \A l \in 1 .. n : u \in ToSet(blocks[l].members) <=> l = k
        BY <3>3 DEF Planned
      <4>2. \A l \in 1 .. n : u \in ToSet(placed[l].members) <=> u \in ToSet(blocks[l].members)
        BY <2>3, <2>5, <3>3
      <4> QED
        BY <4>1, <4>2
    <3> QED
      BY <3>2, <3>3
  <2> HIDE DEF placed, n, p
  <2> QED
    BY <2>2, <2>6, <2>7 DEF Planned, p, n, placed
<1>3. CASE ~ (blocks # <<>> /\ Fits(last, t))
  <2>1. placed = Append(blocks, new)
    BY <1>3 DEF Place
  <2>2. Len(placed) = n + 1 /\ placed[n + 1] = new /\ placed[n + 1] \in BlockRecords
        /\ \A k \in 1 .. n : placed[k] = blocks[k]
    <3>1. Len(placed) = n + 1 /\ placed[n + 1] = new /\ \A k \in 1 .. n : placed[k] = blocks[k]
      BY <2>1
    <3> HIDE DEF new, placed
    <3> QED
      BY <1>1, <3>1
  <2>3. Sound(placed[n + 1], p.table, Rate(t)) /\ ToSet(placed[n + 1].members) = {t}
    <3> HIDE DEF placed, n
    <3> QED
      BY <2>2, OpenedSound
  <2>4. \A k \in 1 .. n + 1 : k = n + 1 \/ k \in 1 .. n
    BY <1>1
  <2>5. n + 1 \in 1 .. n + 1 /\ \A k \in 1 .. n : k \in 1 .. n + 1 /\ k # n + 1
    BY <1>1
  <2>6. \A l \in 1 .. n : Sound(blocks[l], p.table, Rate(t)) /\ ToSet(blocks[l].members) \subseteq those
    BY DEF Planned
  <2>7. ASSUME NEW u \in those \cup {t}
        PROVE  \E k \in 1 .. n + 1 : \A l \in 1 .. n + 1 : u \in ToSet(placed[l].members) <=> l = k
    <3>1. CASE u = t
      <4>1. \A l \in 1 .. n + 1 : t \in ToSet(placed[l].members) <=> l = n + 1
        BY <2>2, <2>3, <2>4, <2>5, <2>6
      <4> QED
        BY <2>5, <3>1, <4>1
    <3>2. CASE u # t
      <4>1. PICK k \in 1 .. n : \A l \in 1 .. n : u \in ToSet(blocks[l].members) <=> l = k
        BY <3>2 DEF Planned
      <4>2. \A l \in 1 .. n + 1 : u \in ToSet(placed[l].members) <=> l = k
        BY <2>2, <2>3, <2>4, <2>5, <3>2, <4>1
      <4> QED
        BY <2>5, <4>2
    <3> QED
      BY <3>1, <3>2
  <2>8. \A k \in 1 .. n + 1 : Sound(placed[k], p.table, Rate(t))
                              /\ ToSet(placed[k].members) \subseteq those \cup {t}
    BY <2>2, <2>3, <2>4, <2>6
  <2> HIDE DEF placed, n, p
  <2> QED
    BY <2>2, <2>7, <2>8 DEF Planned, p, placed
<1> QED
  BY <1>2, <1>3

\* The blocks of a table and rate.
LEMMA GroupPlanned ==
    ASSUME Configured, NEW table, NEW rate
    PROVE  LET group == Sorted(GroupTags(table, rate))
               blocks == Grouping(group)[Len(group)]
           IN  blocks \in Seq(BlockRecords) /\ Planned(blocks, table, rate, GroupTags(table, rate))
<1> DEFINE those == GroupTags(table, rate)
           group == Sorted(those)
           G == Grouping(group)
           n == Len(group)
           First(i) == {group[j] : j \in 1 .. i}
           S == {i \in 0 .. n : Planned(G[i], table, rate, First(i))}
<1>1. those \in SUBSET ValidTags
  BY DEF GroupTags
<1>2. /\ group \in Seq(those) /\ ToSet(group) = those /\ group \in Seq(ValidTags)
      /\ \A i, j \in 1 .. n : i < j => Before(group[i], group[j])
  <2> HIDE DEF those
  <2> QED
    BY <1>1, Sortable
<1>3. n \in Nat /\ First(n) = those /\ \A i \in 1 .. n : group[i] \in those
  <2> HIDE DEF those
  <2>1. DOMAIN group = 1 .. n /\ n \in Nat /\ \A i \in 1 .. n : group[i] \in those
    BY <1>2
  <2> HIDE DEF group
  <2> QED
    BY <1>2, <2>1 DEF ToSet
<1>4. /\ G \in [0 .. n -> Seq(BlockRecords)] /\ G[0] = <<>>
      /\ \A i \in 1 .. n : G[i] = Place(G[i - 1], group[i])
  <2> HIDE DEF group
  <2> QED
    BY <1>2, GroupingSteps
<1>5. 0 \in S
  <2>1. Len(G[0]) = 0 /\ First(0) = {} /\ 0 \in 0 .. n
    BY <1>3, <1>4
  <2> HIDE DEF G, n
  <2> QED
    BY <2>1 DEF Planned
<1>6. ASSUME NEW i \in 1 .. n, i - 1 \in S PROVE i \in S
  <2> DEFINE t == group[i]
  <2>1. /\ t \in ValidTags /\ Parsed(t).table = table /\ Rate(t) = rate
        /\ G[i - 1] \in Seq(BlockRecords) /\ i - 1 \in 0 .. n /\ i \in 0 .. n
        /\ Planned(G[i - 1], table, rate, First(i - 1)) /\ G[i] = Place(G[i - 1], t)
    <3>1. t \in those
      BY <1>3
    <3>2. i - 1 \in 0 .. n /\ i \in 0 .. n
      BY <1>3
    <3> HIDE DEF G, n, group
    <3> QED
      BY <1>4, <1>6, <3>1, <3>2 DEF GroupTags
  <2>2. \A u \in First(i - 1) : u \in ValidTags /\ Before(u, t)
    <3>1. \A j \in 1 .. i - 1 : j \in 1 .. n /\ j < i
      BY <1>3
    <3> HIDE DEF group, n
    <3> QED
      BY <1>1, <1>2, <1>3, <3>1
  <2>3. \A u \in First(i - 1) : Parsed(u).offset <= Parsed(t).offset /\ u # t
    <3>1. \A u \in ValidTags : u \in Nat /\ Parsed(u).offset \in Nat
      BY ValidTag
    <3> HIDE DEF group, t
    <3> QED
      BY <2>1, <2>2, <3>1 DEF Before
  <2>4. First(i) = First(i - 1) \cup {t}
    <3>1. \A j : j \in 1 .. i <=> j \in 1 .. i - 1 \/ j = i
      BY <1>3
    <3> HIDE DEF group
    <3> QED
      BY <3>1
  <2>5. Planned(G[i], table, rate, First(i - 1) \cup {t})
    <3> DEFINE done == First(i - 1)
               blocks == G[i - 1]
    <3>1. done \in SUBSET ValidTags /\ t \in ValidTags \ done
      BY <2>1, <2>2, <2>3
    <3> HIDE DEF done, t, G, First, blocks
    <3>2. Planned(Place(blocks, t), Parsed(t).table, Rate(t), done \cup {t})
      BY <2>1, <2>3, <3>1, PlaceKeeps DEF done, blocks
    <3> QED
      BY <2>1, <3>2 DEF done, blocks
  <2> HIDE DEF t, G, First
  <2> QED
    BY <2>1, <2>4, <2>5
<1>7. 0 .. n \subseteq S
  <2> HIDE DEF S, n
  <2> QED
    BY <1>3, <1>5, <1>6, IntervalInduction
<1>8. Planned(G[n], table, rate, those) /\ G[n] \in Seq(BlockRecords)
  <2>1. n \in S /\ n \in 0 .. n
    <3> HIDE DEF S, n
    <3> QED
      BY <1>3, <1>7
  <2> HIDE DEF G, n, First, those
  <2> QED
    BY <1>3, <1>4, <2>1
<1> QED
  BY <1>8

LEMMA BlockIsSound ==
    ASSUME Configured, NEW b \in Blocks
    PROVE  b \in BlockRecords /\ b \in BlocksOf(b.table, b.rate) /\ Sound(b, b.table, b.rate)
<1>1. PICK table \in Tables, rate \in Rates : b \in BlocksOf(table, rate)
  BY DEF Blocks, Rates
<1> DEFINE group == Sorted(GroupTags(table, rate))
           blocks == Grouping(group)[Len(group)]
<1>2. blocks \in Seq(BlockRecords) /\ Planned(blocks, table, rate, GroupTags(table, rate))
  BY GroupPlanned
<1>3. b \in ToSet(blocks)
  BY <1>1 DEF BlocksOf
<1>4. PICK k \in 1 .. Len(blocks) : b = blocks[k]
  <2> HIDE DEF blocks
  <2> QED
    BY <1>2, <1>3 DEF ToSet
<1>5. b \in BlockRecords /\ Sound(b, table, rate)
  <2> HIDE DEF blocks
  <2> QED
    BY <1>2, <1>4 DEF Planned
<1>6. b.table = table /\ b.rate = rate
  BY <1>5 DEF Sound
<1> QED
  BY <1>1, <1>5, <1>6

LEMMA MemberOfBlock ==
    ASSUME Configured, NEW b \in Blocks, NEW t \in ToSet(b.members)
    PROVE  /\ t \in ValidTags /\ b.table = Parsed(t).table /\ b.rate = Rate(t)
           /\ b.start <= Parsed(t).offset /\ Parsed(t).offset + Parsed(t).count <= b.end
<1>1. b \in BlockRecords /\ Sound(b, b.table, b.rate)
  BY BlockIsSound
<1>2. b.members \in Seq(ValidTags)
  BY <1>1 DEF BlockRecords
<1>3. t \in ValidTags
  BY <1>2 DEF ToSet
<1> QED
  BY <1>1, <1>3 DEF Sound

LEMMA OneBlock ==
    ASSUME Configured, NEW t \in ValidTags
    PROVE  \E b \in Blocks : \A other \in Blocks : t \in ToSet(other.members) <=> other = b
<1> DEFINE table == Parsed(t).table
           rate == Rate(t)
           group == Sorted(GroupTags(table, rate))
           blocks == Grouping(group)[Len(group)]
<1>1. blocks \in Seq(BlockRecords) /\ Planned(blocks, table, rate, GroupTags(table, rate))
  BY GroupPlanned
<1>2. t \in GroupTags(table, rate)
  BY DEF GroupTags
<1>3. table \in Tables /\ rate \in Rates /\ BlocksOf(table, rate) = ToSet(blocks)
  BY ValidTag DEF Rates, BlocksOf
<1>4. BlocksOf(table, rate) \subseteq Blocks
  <2> HIDE DEF table, rate
  <2> QED
    BY <1>3 DEF Blocks, Rates
<1>5. PICK k \in 1 .. Len(blocks) :
        \A l \in 1 .. Len(blocks) : t \in ToSet(blocks[l].members) <=> l = k
  <2> HIDE DEF blocks
  <2> QED
    BY <1>1, <1>2 DEF Planned
<1>6. \A b : b \in ToSet(blocks) <=> \E l \in 1 .. Len(blocks) : b = blocks[l]
  <2> HIDE DEF blocks
  <2> QED
    BY <1>1 DEF ToSet
<1>7. blocks[k] \in Blocks
  <2> HIDE DEF blocks
  <2> QED
    BY <1>3, <1>4, <1>5, <1>6
<1>8. ASSUME NEW other \in Blocks, t \in ToSet(other.members) PROVE other = blocks[k]
  <2>1. other.table = table /\ other.rate = rate /\ other \in BlocksOf(other.table, other.rate)
    BY <1>8, MemberOfBlock, BlockIsSound
  <2> HIDE DEF blocks, table, rate
  <2>2. other \in ToSet(blocks)
    BY <1>3, <2>1
  <2> QED
    BY <1>5, <1>6, <1>8, <2>2
<1> QED
  <2> HIDE DEF blocks
  <2> QED
    BY <1>5, <1>7, <1>8

LEMMA PlanIsSound == Configured => PlanCoversTags
<1> SUFFICES ASSUME Configured PROVE PlanCoversTags
  OBVIOUS
<1>1. ASSUME NEW b \in Blocks, NEW t PROVE Contains(b.members, t) <=> t \in ToSet(b.members)
  <2>1. b.members \in Seq(ValidTags)
    BY BlockIsSound DEF BlockRecords
  <2> QED
    BY <2>1 DEF Contains, ToSet
<1>2. ASSUME NEW t \in ValidTags
      PROVE  \E block \in Blocks :
         /\ Contains(block.members, t)
         /\ \A other \in Blocks : Contains(other.members, t) => other = block
         /\ block.table = Parsed(t).table /\ block.rate = Rate(t)
         /\ block.start <= Parsed(t).offset
         /\ Parsed(t).offset + Parsed(t).count <= block.end
  <2>1. PICK b \in Blocks : \A other \in Blocks : t \in ToSet(other.members) <=> other = b
    BY OneBlock
  <2>2. t \in ToSet(b.members)
    BY <2>1
  <2>3. /\ b.table = Parsed(t).table /\ b.rate = Rate(t)
        /\ b.start <= Parsed(t).offset /\ Parsed(t).offset + Parsed(t).count <= b.end
    BY <2>2, MemberOfBlock
  <2> QED
    BY <1>1, <2>1, <2>2, <2>3
<1>3. ASSUME NEW block \in Blocks, Len(block.members) > 1
      PROVE  /\ block.end - block.start <= Limit(block.table)
             /\ \A o \in block.start .. block.end - 1 : \E t \in ToSet(block.members) :
                  \E d \in 0 .. MaxGap : <<block.table, o + d>> \in CellsOf(t)
  BY <1>3, BlockIsSound DEF Sound
<1> QED
  BY <1>2, <1>3 DEF PlanCoversTags

-----------------------------------------------------------------------------
(* Modbus: the state. *)

LEMMA ConfiguredInit == ModbusInit => Configured
BY LayoutAssumption DEF ModbusInit, Configured

LEMMA ConfiguredStep == Configured /\ [ModbusNext]_modbusVars => Configured' /\ UNCHANGED <<layout, device>>
<1> SUFFICES ASSUME Configured, [ModbusNext]_modbusVars PROVE UNCHANGED <<layout, device>>
  BY DEF Configured
<1> QED
  BY DEF ModbusNext, ReadBlock, ReadFails, LinkLost, WriteTag, DeviceSets, modbusVars

\* Whatever the tags of a device and its settings, and whatever their scan rates, the plan
\* has each tag in one block and no block is longer than allowed (flow-gen.ts:206-256,
\* 688-736).  What it does not say is that each block gets its requests:
\* two of two rates that start at one register share a node id, and one is not read.
THEOREM PlanCorrect == ModbusSpec => []PlanCoversTags
<1>1. ModbusSpec => []Configured
  <2>1. Configured /\ [ModbusNext]_modbusVars => Configured'
    BY ConfiguredStep
  <2> QED
    BY <2>1, ConfiguredInit, PTL DEF ModbusSpec
<1> QED
  BY <1>1, PlanIsSound, PTL

\* What is held of a tag has a quality.
Qualified == \A t \in TagIds : "quality" \in DOMAIN held[t]

\* A bad reading of what is held.
LEMMA BadReading ==
    ASSUME NEW h, "quality" \in DOMAIN h
    PROVE  [h EXCEPT !.quality = "bad"].quality = "bad"
           /\ "quality" \in DOMAIN [h EXCEPT !.quality = "bad"]
OBVIOUS

\* What a step may do to what is held of a tag: nothing, spoil it, or read it.
Reads(t, block, length) ==
    /\ t \in ToSet(block.members) /\ block.end <= MaxOffset + 1
    /\ length \in 0 .. block.end - block.start
    /\ held'[t] = BridgeIn(t, Slice([i \in 1 .. length |-> memory[block.table][block.start + i - 1]],
                                    block, t))

LEMMA HeldStep ==
    ASSUME Configured, ModbusNext, NEW t \in TagIds
    PROVE  \/ held'[t] = held[t]
           \/ held'[t] = [held[t] EXCEPT !.quality = "bad"]
           \/ \E block \in Blocks : \E length \in 0 .. block.end - block.start : Reads(t, block, length)
<1>1. ASSUME NEW block \in Blocks PROVE Contains(block.members, t) <=> t \in ToSet(block.members)
  <2>1. block.members \in Seq(ValidTags)
    BY BlockIsSound DEF BlockRecords
  <2> QED
    BY <2>1 DEF Contains, ToSet
<1>2. ASSUME NEW block \in Blocks, NEW n \in 0 .. block.end - block.start, ReadBlock(block, n)
      PROVE  held'[t] = held[t] \/ Reads(t, block, n)
  BY <1>1, <1>2 DEF ReadBlock, Reads
<1>3. ASSUME NEW block \in Blocks, ReadFails(block)
      PROVE  held'[t] = held[t] \/ held'[t] = [held[t] EXCEPT !.quality = "bad"]
  BY <1>3 DEF ReadFails
<1>4. LinkLost => held'[t] = [held[t] EXCEPT !.quality = "bad"]
  BY DEF LinkLost
<1>5. (\E u \in TagIds : \E value \in Writes[layout[u].dataType] : WriteTag(u, value))
      => held' = held
  BY DEF WriteTag
<1>6. (\E cell \in UNION {CellsOf(u) : u \in ValidTags}, value \in CellValues :
         DeviceSets(cell[1], cell[2], value)) => held' = held
  BY DEF DeviceSets
<1> QED
  BY <1>2, <1>3, <1>4, <1>5, <1>6 DEF ModbusNext

LEMMA FunctionIsSequence ==
    ASSUME NEW n \in Nat, NEW f, f = [i \in 1 .. n |-> f[i]]
    PROVE  f \in Seq({f[i] : i \in 1 .. n}) /\ Len(f) = n
<1>1. f \in [1 .. n -> {f[i] : i \in 1 .. n}]
  OBVIOUS
<1> QED
  BY <1>1

\* A part of a sequence, from past its place `from`.
LEMMA PartOf ==
    ASSUME NEW S, NEW s \in Seq(S), NEW from \in Nat, NEW last \in Nat, last <= Len(s),
           NEW n \in Nat, n = IF last > from THEN last - from ELSE 0
    PROVE  SubSeq(s, from + 1, last) = [i \in 1 .. n |-> s[from + i]]
<1> DEFINE part == SubSeq(s, from + 1, last)
<1>1. \A i \in from + 1 .. last : s[i] \in S
  OBVIOUS
<1>2. /\ part \in Seq(S) /\ Len(part) = IF from + 1 <= last THEN last - (from + 1) + 1 ELSE 0
      /\ \A i \in 1 .. last - (from + 1) + 1 : part[i] = s[from + 1 + i - 1]
  BY <1>1, SubSeqProperties
<1>3. Len(part) = n /\ \A i \in 1 .. n : part[i] = s[from + i]
  <2> HIDE DEF part
  <2>1. Len(part) = n
    BY <1>2
  <2>2. \A i \in 1 .. n : i \in 1 .. last - (from + 1) + 1 /\ from + 1 + i - 1 = from + i
    OBVIOUS
  <2> QED
    BY <1>2, <2>1, <2>2
<1> HIDE DEF part
<1>4. part = [i \in 1 .. n |-> part[i]]
  BY <1>2, <1>3
<1>5. part = [i \in 1 .. n |-> s[from + i]]
  BY <1>3, <1>4
<1> QED
  BY <1>5 DEF part

LEMMA PartBounds ==
    ASSUME NEW from \in Nat, NEW count \in Nat, NEW length \in Nat, NEW last, NEW n,
           last = IF from + count < length THEN from + count ELSE length,
           n = IF last > from THEN last - from ELSE 0
    PROVE  /\ n \in 0 .. count /\ last \in Nat /\ last <= length
           /\ \A i \in 1 .. n : i \in 1 .. count /\ from + i \in 1 .. length
OBVIOUS

\* The registers a tag gets of an answer are the first of its own.
LEMMA SliceIsOwn ==
    ASSUME Configured, NEW block \in Blocks, NEW t \in ToSet(block.members),
           NEW length \in 0 .. block.end - block.start
    PROVE  LET answer == [i \in 1 .. length |-> memory[block.table][block.start + i - 1]]
               own == Slice(answer, block, t)
           IN  \E n \in 0 .. Parsed(t).count : own = [i \in 1 .. n |-> OwnRegisters(t)[i]]
<1> DEFINE answer == [i \in 1 .. length |-> memory[block.table][block.start + i - 1]]
           own == Slice(answer, block, t)
           from == Parsed(t).offset - block.start
           count == Parsed(t).count
<1>1. /\ t \in ValidTags /\ block.table = Parsed(t).table /\ block.start <= Parsed(t).offset
      /\ Parsed(t).offset + count <= block.end
  BY MemberOfBlock
<1>2. block \in BlockRecords /\ Sound(block, block.table, block.rate)
  BY BlockIsSound
<1>3. /\ block.members \in Seq(ValidTags) /\ block.members # <<>>
      /\ block.start \in Nat /\ block.end \in Nat
      /\ Parsed(t).offset \in Nat /\ count \in Nat /\ from \in Nat /\ length \in Nat
  <2>1. /\ block.members \in Seq(ValidTags) /\ block.members # <<>>
        /\ block.start \in Nat /\ block.end \in Nat
    BY <1>2 DEF BlockRecords, Sound
  <2>2. Parsed(t).offset \in Nat /\ count \in Nat
    BY <1>1, ValidTag
  <2> QED
    BY <1>1, <2>1, <2>2
<1>4. \A i \in 1 .. count : OwnRegisters(t)[i] = memory[block.table][Parsed(t).offset + i - 1]
  BY <1>1 DEF OwnRegisters
<1>5. CASE Len(block.members) = 1
  <2>1. block.members[1] = t
    BY <1>3, <1>5 DEF ToSet
  <2>2. block.start = Parsed(t).offset /\ block.end = block.start + count
    BY <1>2, <1>5, <2>1 DEF Sound
  <2>3. own = answer /\ length \in 0 .. count
    BY <1>3, <1>5, <2>2 DEF Slice
  <2>4. \A i \in 1 .. length : i \in 1 .. count /\ answer[i] = OwnRegisters(t)[i]
    BY <1>3, <1>4, <2>2, <2>3
  <2>5. answer = [i \in 1 .. length |-> OwnRegisters(t)[i]]
    BY <2>4
  <2> QED
    BY <2>3, <2>5
<1>6. CASE Len(block.members) # 1
  <2> DEFINE last == IF from + count < length THEN from + count ELSE length
             n == IF last > from THEN last - from ELSE 0
  <2>1. Len(answer) = length /\ answer \in Seq({answer[i] : i \in 1 .. length})
    <3>1. answer = [i \in 1 .. length |-> answer[i]]
      OBVIOUS
    <3> HIDE DEF answer
    <3> QED
      BY <1>3, <3>1, FunctionIsSequence
  <2>2. own = SubSeq(answer, from + 1, last)
    BY <1>6, <2>1 DEF Slice
  <2>3. /\ n \in 0 .. count /\ last \in Nat /\ last <= length
        /\ \A i \in 1 .. n : i \in 1 .. count /\ from + i \in 1 .. length
    <3> HIDE DEF from, count
    <3> QED
      BY <1>3, PartBounds
  <2>4. own = [i \in 1 .. n |-> answer[from + i]]
    <3>1. n = IF last > from THEN last - from ELSE 0
      OBVIOUS
    <3> HIDE DEF n, last, from, answer, own, count
    <3>2. n \in Nat /\ from \in Nat /\ last \in Nat /\ last <= Len(answer)
      BY <1>3, <2>1, <2>3
    <3>3. SubSeq(answer, from + 1, last) = [i \in 1 .. n |-> answer[from + i]]
      BY <2>1, <3>1, <3>2, PartOf
    <3> QED
      BY <2>2, <3>3
  <2>5. \A i \in 1 .. n : answer[from + i] = OwnRegisters(t)[i]
    <3>1. ASSUME NEW i \in 1 .. n PROVE answer[from + i] = OwnRegisters(t)[i]
      <4>1. from + i \in 1 .. length /\ i \in 1 .. count
        BY <2>3
      <4>2. block.start + (from + i) - 1 = Parsed(t).offset + i - 1
        <5>1. i \in Int /\ block.start \in Int /\ Parsed(t).offset \in Int
          BY <1>3
        <5> QED
          BY <5>1
      <4> QED
        BY <1>4, <4>1, <4>2
    <3> QED
      BY <3>1
  <2> HIDE DEF n, answer, own
  <2> QED
    BY <2>3, <2>4, <2>5 DEF answer, own
<1> QED
  BY <1>5, <1>6

\* A value read is what the registers of the tag give.
LEMMA ReadIsDirect ==
    ASSUME Configured, Qualified, NEW t \in TagIds, NEW block \in Blocks,
           NEW length \in 0 .. block.end - block.start, Reads(t, block, length),
           held'[t] # held[t], held'[t].quality = "good"
    PROVE  /\ t \in ValidTags /\ Parsed(t).offset + Parsed(t).count <= MaxOffset + 1
           /\ layout[t].dataType \in DecodedTypes => Readable(OwnRegisters(t), layout[t].dataType)
           /\ held'[t].value = Extract(OwnRegisters(t), layout[t].dataType, layout[t].byteOrder)
<1> DEFINE answer == [i \in 1 .. length |-> memory[block.table][block.start + i - 1]]
           own == Slice(answer, block, t)
           type == layout[t].dataType
           order == layout[t].byteOrder
<1>1. held'[t] = BridgeIn(t, own) /\ t \in ToSet(block.members)
  BY DEF Reads
<1>2. t \in ValidTags /\ Parsed(t).count \in Nat /\ Parsed(t).offset \in Nat
      /\ Parsed(t).offset + Parsed(t).count <= block.end /\ block.end \in Nat
  <2>1. t \in ValidTags /\ Parsed(t).offset + Parsed(t).count <= block.end
    BY <1>1, MemberOfBlock
  <2>2. block.end \in Nat
    BY BlockIsSound DEF BlockRecords
  <2> QED
    BY <2>1, <2>2, ValidTag
<1>3. PICK n \in 0 .. Parsed(t).count : own = [i \in 1 .. n |-> OwnRegisters(t)[i]]
  BY <1>1, SliceIsOwn
<1>4. own # <<>>
  <2>1. CASE own = <<>>
    <3>1. held'[t] = [held[t] EXCEPT !.quality = "bad"]
      BY <1>1, <2>1 DEF BridgeIn
    <3> QED
      BY <3>1, BadReading DEF Qualified
  <2> QED
    BY <2>1
<1>5. (type \in DecodedTypes => Readable(own, type))
      /\ held'[t] = [value |-> Extract(own, type, order), quality |-> "good"]
  <2> HIDE DEF own
  <2> QED
    BY <1>1, <1>4 DEF BridgeIn
<1>6. Len(own) = n /\ n >= 1
  <2>1. Len(own) = n
    BY <1>3
  <2>2. n # 0
    <3>1. CASE n = 0
      <4>1. own = <<>>
        BY <1>3, <3>1
      <4> QED
        BY <1>4, <4>1
    <3> QED
      BY <3>1
  <2> QED
    BY <2>1, <2>2
<1>7. ASSUME type \in DecodedTypes PROVE own = OwnRegisters(t)
  <2>1. Parsed(t).count <= RegistersFor(type)
    BY DEF Parsed, Parse, RegistersFor
  <2>2. n >= RegistersFor(type) /\ RegistersFor(type) \in Nat
    BY <1>5, <1>6, <1>7 DEF Readable, RegistersFor
  <2>3. n = Parsed(t).count
    BY <1>2, <2>1, <2>2
  <2>4. OwnRegisters(t) = [i \in 1 .. Parsed(t).count |-> OwnRegisters(t)[i]]
    BY DEF OwnRegisters
  <2> QED
    BY <1>3, <2>3, <2>4
<1>8. own[1] = OwnRegisters(t)[1]
  BY <1>3, <1>6
<1>9. Extract(own, type, order) = Extract(OwnRegisters(t), type, order)
  <2> HIDE DEF own
  <2> QED
    BY <1>7, <1>8 DEF Extract
<1>10. type \in DecodedTypes => Readable(OwnRegisters(t), type)
  <2> HIDE DEF own
  <2> QED
    BY <1>5, <1>7
<1>11. Parsed(t).offset + Parsed(t).count <= MaxOffset + 1
  <2>1. block.end <= MaxOffset + 1
    BY DEF Reads
  <2> QED
    BY <1>2, <2>1, LayoutAssumption
<1>12. held'[t].value = Extract(OwnRegisters(t), type, order)
  <2> HIDE DEF own
  <2> QED
    BY <1>5, <1>9
<1> QED
  BY <1>2, <1>10, <1>11, <1>12

LEMMA QualifiedInit == ModbusInit => Qualified
BY DEF ModbusInit, Qualified

LEMMA QualifiedStep ==
    ASSUME Configured, Qualified, [ModbusNext]_modbusVars
    PROVE  Qualified'
<1>1. layout' = layout /\ TagIds' = TagIds
  BY ConfiguredStep DEF TagIds
<1>2. CASE ModbusNext
  <2>1. ASSUME NEW t \in TagIds PROVE "quality" \in DOMAIN held'[t]
    <3>1. "quality" \in DOMAIN held[t] /\ "quality" \in DOMAIN [held[t] EXCEPT !.quality = "bad"]
      BY BadReading DEF Qualified
    <3>2. ASSUME NEW registers PROVE "quality" \in DOMAIN BridgeIn(t, registers)
      BY <3>1 DEF BridgeIn
    <3> QED
      BY <1>2, <3>1, <3>2, HeldStep DEF Reads
  <2> QED
    BY <1>1, <2>1 DEF Qualified
<1>3. CASE UNCHANGED modbusVars
  BY <1>3 DEF modbusVars, Qualified, TagIds
<1> QED
  BY <1>2, <1>3

LEMMA ModbusInvariant == ModbusSpec => [](Configured /\ Qualified)
<1>1. Configured /\ Qualified /\ [ModbusNext]_modbusVars => (Configured /\ Qualified)'
  BY ConfiguredStep, QualifiedStep
<1> QED
  BY <1>1, ConfiguredInit, QualifiedInit, PTL DEF ModbusSpec

\* What a step that changes what is held of a tag to a good value shows.
LEMMA ReadStep ==
    ASSUME Configured, Qualified, ModbusNext, NEW t \in TagIds,
           held'[t] # held[t], held'[t].quality = "good"
    PROVE  held'[t].value = Extract(OwnRegisters(t), layout[t].dataType, layout[t].byteOrder)
<1>1. "quality" \in DOMAIN held[t]
  BY DEF Qualified
<1> DEFINE spoiled == [held[t] EXCEPT !.quality = "bad"]
<1>2. spoiled.quality = "bad"
  BY <1>1, BadReading
<1>3. \/ held'[t] = held[t]
      \/ held'[t] = spoiled
      \/ \E block \in Blocks : \E length \in 0 .. block.end - block.start : Reads(t, block, length)
  BY HeldStep
<1> HIDE DEF spoiled
<1>4. held'[t] # spoiled
  BY <1>2
<1>5. PICK block \in Blocks : \E length \in 0 .. block.end - block.start : Reads(t, block, length)
  BY <1>3, <1>4
<1>6. PICK length \in 0 .. block.end - block.start : Reads(t, block, length)
  BY <1>5
<1> QED
  BY <1>6, ReadIsDirect

\* A poll of a block gives each of its tags what that tag's own registers, read
\* alone, decode to: its place in the answer and its byte order are its own
\* (flow-gen.ts:147-162, odi-tag-in.js:76-95).
THEOREM DirectReads == ModbusSpec => ReadsAreDirect
<1> DEFINE Direct == \A t \in TagIds : held'[t] # held[t] /\ held'[t].quality = "good" =>
         held'[t].value = Extract(OwnRegisters(t), layout[t].dataType, layout[t].byteOrder)
<1>1. Configured /\ Qualified /\ [ModbusNext]_modbusVars => [Direct]_modbusVars
  BY ReadStep
<1> QED
  BY <1>1, ModbusInvariant, PTL DEF ReadsAreDirect, ModbusSpec

-----------------------------------------------------------------------------
(* Modbus: writes. *)

\* What writes keep, for the tags they may reach.
Given == layout \in Layouts /\ device \in TriedSettings
Shaped == DOMAIN memory = Tables /\ \A table \in Tables : DOMAIN memory[table] = 0 .. MaxOffset

\* The ghost remembers what the registers of a tag hold.
Remembered(t) ==
    /\ t \in WritableTags /\ Parsed(t).offset + Parsed(t).count <= MaxOffset + 1
    /\ Storable(layout[t].dataType, written[t])
    /\ OwnRegisters(t) = Encode(t, written[t])
WrittenInMemory == \A t \in TagIds : written[t] # NONE => Remembered(t)

LEMMA GivenIsConfigured == Given => Configured
BY LayoutAssumption DEF Given, Configured

\* Encoded values fill the registers of their type.
LEMMA EncodedLength ==
    ASSUME NEW type \in DecodedTypes, NEW value \in ValuesOf(type)
    PROVE  Len(EncodedBytes(value, type)) = 2 * RegistersFor(type)
<1>1. CASE type \in {"int16", "uint16"}
  <2>1. RegistersFor(type) = 1
    BY <1>1 DEF RegistersFor, Bytes4Types, Bytes8Types
  <2>2. EncodedBytes(value, type) = <<(value[1] % 65536) \div 256, value[1] % 256>>
    BY <1>1 DEF EncodedBytes, Bytes4Types, Bytes8Types
  <2> QED
    BY <2>1, <2>2
<1>2. CASE type \notin {"int16", "uint16"}
  <2>1. type \in Bytes4Types \cup Bytes8Types /\ type \notin NarrowTypes
    BY <1>2 DEF DecodedTypes, Bytes4Types, Bytes8Types, NarrowTypes
  <2>2. EncodedBytes(value, type) = value
    BY <2>1 DEF EncodedBytes, NarrowTypes
  <2>3. Len(value) = 2 * RegistersFor(type)
    BY <2>1 DEF ValuesOf
  <2> QED
    BY <2>2, <2>3
<1> QED
  BY <1>1, <1>2

LEMMA EncodedFits ==
    ASSUME Given, CombinedTypes, NEW t \in WritableTags, NEW value,
           Storable(layout[t].dataType, value)
    PROVE  /\ Encode(t, value) = [i \in 1 .. Parsed(t).count |-> Encode(t, value)[i]]
           /\ Len(Encode(t, value)) = Parsed(t).count
           /\ Extract(Encode(t, value), layout[t].dataType, layout[t].byteOrder) = value
<1> DEFINE type == layout[t].dataType
           order == layout[t].byteOrder
           e == Encode(t, value)
<1>1. t \in TagIds /\ layout[t] \in TagConfigs /\ order \in Orders
  <2>1. t \in ValidTags
    BY DEF WritableTags
  <2>2. t \in TagIds /\ layout[t] \in TagConfigs
    BY <2>1, GivenIsConfigured, ValidTag
  <2> QED
    BY <2>2 DEF TagConfigs
<1>2. type \in DecodedTypes \cup {"bool"} /\ (TableOf(layout[t]) = "coil" => type = "bool")
  BY <1>1 DEF CombinedTypes, Given, TagIds
<1>3. Parsed(t).count = RegistersFor(type)
  <2>1. TableOf(layout[t]) \in {"coil", "holding"}
    BY DEF WritableTags, Parsed, Parse
  <2>2. RegistersFor("bool") = 1
    BY DEF RegistersFor, Bytes4Types, Bytes8Types
  <2> QED
    BY <1>2, <2>1, <2>2 DEF Parsed, Parse
<1>4. CASE type = "bool"
  <2>1. Parsed(t).count = 1
    BY <1>3, <1>4 DEF RegistersFor, Bytes4Types, Bytes8Types
  <2>2. value \in {<<0>>, <<1>>} /\ e = <<IF value[1] = 0 THEN 0 ELSE 1>>
    BY <1>4 DEF Storable, Encode
  <2>3. e = value /\ Len(e) = 1 /\ e = [i \in 1 .. 1 |-> e[i]]
    BY <2>2
  <2>4. Extract(e, type, order) = <<e[1]>>
    BY <1>4 DEF Extract, DecodedTypes
  <2> QED
    BY <2>1, <2>2, <2>3, <2>4
<1>5. CASE type \in DecodedTypes
  <2>1. type # "bool" /\ value \in ValuesOf(type) /\ type \in BinaryTypes
    BY <1>5 DEF Storable, DecodedTypes, BinaryTypes, NarrowTypes, Bytes4Types, Bytes8Types
  <2>2. e = SplitRegisters(value, type, order)
    BY <2>1 DEF Encode, EncodedTypes
  <2> DEFINE bytes == ReorderBytes(EncodedBytes(value, type), order)
  <2>3. Len(bytes) = 2 * RegistersFor(type) /\ bytes \in Seq(Byte)
    <3>1. EncodedBytes(value, type) \in Seq(Byte) /\ Even(EncodedBytes(value, type))
      BY <2>1, EncodedValue
    <3> QED
      BY <1>1, <1>5, <2>1, <3>1, EncodedLength, ReorderedBytes
  <2>4. RegistersFor(type) \in Nat
    BY DEF RegistersFor
  <2> HIDE DEF bytes
  <2>5. Len(bytes) \div 2 = RegistersFor(type)
    BY <2>3, <2>4
  <2>6. e = [k \in 1 .. RegistersFor(type) |-> bytes[2 * k - 1] * 256 + bytes[2 * k]]
    BY <2>2, <2>5 DEF bytes, SplitRegisters, RegistersOf
  <2>7. e = [k \in 1 .. RegistersFor(type) |-> e[k]]
    <3> HIDE DEF e, type
    <3> QED
      BY <2>6
  <2>8. Len(e) = RegistersFor(type)
    <3> HIDE DEF e, type
    <3> QED
      BY <2>4, <2>7, FunctionIsSequence
  <2>9. Extract(e, type, order) = CombineRegisters(e, type, order)
    BY <1>5 DEF Extract
  <2>10. CombineRegisters(e, type, order) = value
    BY <1>1, <2>1, <2>2, ReadsDecodeWrites
  <2> QED
    BY <1>3, <2>7, <2>8, <2>9, <2>10
<1> QED
  BY <1>2, <1>4, <1>5

\* A tag none of whose registers change keeps them.
LEMMA OwnKept ==
    ASSUME Given, layout' = layout, NEW t \in ValidTags,
           \A i \in 1 .. Parsed(t).count :
             memory'[Parsed(t).table][Parsed(t).offset + i - 1]
               = memory[Parsed(t).table][Parsed(t).offset + i - 1]
    PROVE  OwnRegisters(t)' = OwnRegisters(t)
<1>1. Parsed(t)' = Parsed(t)
  BY DEF Parsed
<1> QED
  BY <1>1 DEF OwnRegisters

LEMMA RememberedKept ==
    ASSUME Given, layout' = layout, NEW t \in TagIds, Remembered(t),
           written'[t] = written[t], OwnRegisters(t)' = OwnRegisters(t)
    PROVE  Remembered(t)'
<1>1. Parsed(t)' = Parsed(t) /\ (t \in WritableTags)' = (t \in WritableTags)
  BY DEF Parsed, WritableTags, ValidTags, TagIds
<1>2. Encode(t, written[t])' = Encode(t, written[t])
  BY DEF Encode
<1> QED
  BY <1>1, <1>2 DEF Remembered

LEMMA ShapedInit == ModbusInit => Shaped
BY DEF ModbusInit, Shaped

LEMMA WriteMemory ==
    ASSUME Shaped, NEW t \in WritableTags, NEW value, WriteTag(t, value),
           Parsed(t).table \in Tables
    PROVE  /\ Shaped'
           /\ \A o \in 0 .. MaxOffset :
                memory'[Parsed(t).table][o]
                  = IF o - Parsed(t).offset + 1 \in 1 .. Len(Encode(t, value))
                      THEN Encode(t, value)[o - Parsed(t).offset + 1]
                      ELSE memory[Parsed(t).table][o]
           /\ \A table \in Tables : table # Parsed(t).table => memory'[table] = memory[table]
<1> DEFINE p == Parsed(t)
           registers == Encode(t, value)
           new == [o \in 0 .. MaxOffset |->
                     IF o - p.offset + 1 \in 1 .. Len(registers)
                       THEN registers[o - p.offset + 1] ELSE memory[p.table][o]]
<1>1. memory' = [memory EXCEPT ![p.table] = new]
  BY DEF WriteTag
<1>2. DOMAIN new = 0 .. MaxOffset /\ \A o \in 0 .. MaxOffset :
        new[o] = IF o - p.offset + 1 \in 1 .. Len(registers)
                   THEN registers[o - p.offset + 1] ELSE memory[p.table][o]
  OBVIOUS
<1> HIDE DEF new, p, registers
<1>3. memory'[p.table] = new /\ \A table \in Tables : table # p.table => memory'[table] = memory[table]
  BY <1>1 DEF Shaped, p
<1>4. DOMAIN memory' = Tables
  BY <1>1 DEF Shaped
<1>5. \A table \in Tables : DOMAIN memory'[table] = 0 .. MaxOffset
  BY <1>2, <1>3 DEF Shaped
<1> QED
  BY <1>2, <1>3, <1>4, <1>5 DEF Shaped, p, registers

LEMMA DeviceMemory ==
    ASSUME Shaped, NEW table, NEW offset, NEW value, DeviceSets(table, offset, value)
    PROVE  /\ Shaped'
           /\ \A tab \in Tables, o \in 0 .. MaxOffset :
                <<tab, o>> # <<table, offset>> => memory'[tab][o] = memory[tab][o]
<1>1. memory' = [memory EXCEPT ![table][offset] = value]
  BY DEF DeviceSets
<1>2. DOMAIN memory' = Tables
  BY <1>1 DEF Shaped
<1>3. \A tab \in Tables : memory'[tab] = IF tab = table THEN [memory[tab] EXCEPT ![offset] = value]
                                         ELSE memory[tab]
  BY <1>1 DEF Shaped
<1>4. ASSUME NEW tab \in Tables
      PROVE  /\ DOMAIN memory'[tab] = 0 .. MaxOffset
             /\ \A o \in 0 .. MaxOffset : <<tab, o>> # <<table, offset>> => memory'[tab][o] = memory[tab][o]
  <2>1. DOMAIN memory[tab] = 0 .. MaxOffset
    BY DEF Shaped
  <2>2. CASE tab = table
    <3>1. memory'[tab] = [memory[tab] EXCEPT ![offset] = value]
      BY <1>3, <2>2
    <3>2. DOMAIN memory'[tab] = 0 .. MaxOffset
      BY <2>1, <3>1
    <3>3. \A o \in 0 .. MaxOffset : o # offset => memory'[tab][o] = memory[tab][o]
      BY <2>1, <3>1
    <3> QED
      BY <2>2, <3>2, <3>3
  <2>3. CASE tab # table
    BY <1>3, <2>1, <2>3
  <2> QED
    BY <2>2, <2>3
<1> QED
  BY <1>2, <1>4 DEF Shaped

\* The registers of a tag in range are places of the memory.
LEMMA OwnPlaces ==
    ASSUME Given, NEW t \in ValidTags, Parsed(t).offset + Parsed(t).count <= MaxOffset + 1,
           NEW i \in 1 .. Parsed(t).count
    PROVE  /\ Parsed(t).offset + i - 1 \in 0 .. MaxOffset /\ Parsed(t).table \in Tables
           /\ <<Parsed(t).table, Parsed(t).offset + i - 1>> \in CellsOf(t)
<1>1. /\ Parsed(t).offset \in Nat /\ Parsed(t).count \in Nat /\ Parsed(t).table \in Tables
      /\ MaxOffset \in Nat
  BY GivenIsConfigured, ValidTag, LayoutAssumption
<1> DEFINE o == Parsed(t).offset + i - 1
<1>2. o \in Int /\ Parsed(t).offset <= o /\ o < Parsed(t).offset + Parsed(t).count /\ o \in 0 .. MaxOffset
  BY <1>1
<1> HIDE DEF o
<1>3. <<Parsed(t).table, o>> \in CellsOf(t)
  BY <1>2, GivenIsConfigured, Cells
<1> QED
  BY <1>1, <1>2, <1>3 DEF o

LEMMA ForgottenTags ==
    ASSUME NEW cells, NEW t \in TagIds
    PROVE  /\ CellsOf(t) \cap cells # {} => Forgotten(cells)[t] = NONE
           /\ CellsOf(t) \cap cells = {} => Forgotten(cells)[t] = written[t]
BY DEF Forgotten

LEMMA DeviceKeepsMemory ==
    ASSUME Given, Shaped, WrittenInMemory, NEW table, NEW offset, NEW value,
           DeviceSets(table, offset, value)
    PROVE  Shaped' /\ WrittenInMemory'
<1>1. Shaped' /\ \A tab \in Tables, o \in 0 .. MaxOffset :
                <<tab, o>> # <<table, offset>> => memory'[tab][o] = memory[tab][o]
  BY DeviceMemory
<1>2. layout' = layout /\ TagIds' = TagIds /\ written' = Forgotten({<<table, offset>>})
  BY DEF DeviceSets, TagIds
<1>3. ASSUME NEW t \in TagIds, written'[t] # NONE PROVE Remembered(t)'
  <2>1. CellsOf(t) \cap {<<table, offset>>} = {} /\ written'[t] = written[t]
    BY <1>2, <1>3, ForgottenTags
  <2>2. Remembered(t) /\ t \in ValidTags
    BY <1>3, <2>1 DEF WrittenInMemory, Remembered, WritableTags
  <2>3. ASSUME NEW i \in 1 .. Parsed(t).count
        PROVE  memory'[Parsed(t).table][Parsed(t).offset + i - 1]
                 = memory[Parsed(t).table][Parsed(t).offset + i - 1]
    <3> DEFINE o == Parsed(t).offset + i - 1
               tab == Parsed(t).table
    <3>1. o \in 0 .. MaxOffset /\ tab \in Tables /\ <<tab, o>> \in CellsOf(t)
      BY <2>2, OwnPlaces DEF Remembered
    <3> HIDE DEF o, tab
    <3>2. <<tab, o>> # <<table, offset>>
      BY <2>1, <3>1
    <3>3. memory'[tab][o] = memory[tab][o]
      BY <1>1, <3>1, <3>2
    <3> QED
      BY <3>3 DEF o, tab
  <2>4. OwnRegisters(t)' = OwnRegisters(t)
    BY <1>2, <2>2, <2>3, OwnKept
  <2> QED
    BY <1>2, <2>1, <2>2, <2>4, RememberedKept
<1> QED
  BY <1>1, <1>2, <1>3 DEF WrittenInMemory

LEMMA WriteKeepsMemory ==
    ASSUME Given, CombinedTypes, Shaped, WrittenInMemory,
           NEW t \in TagIds, NEW value \in Writes[layout[t].dataType], WriteTag(t, value)
    PROVE  Shaped' /\ WrittenInMemory'
<1> DEFINE p == Parsed(t)
           e == Encode(t, value)
<1>1. /\ t \in WritableTags /\ t \in ValidTags /\ p.offset + p.count <= MaxOffset + 1
      /\ p.table \in Tables /\ p.offset \in Nat /\ p.count \in Nat
      /\ Writable(value, layout[t].dataType)
      /\ layout' = layout /\ device' = device /\ TagIds' = TagIds
  <2>1. t \in WritableTags /\ t \in ValidTags /\ p.offset + p.count <= MaxOffset + 1
        /\ Writable(value, layout[t].dataType)
        /\ layout' = layout /\ device' = device
    BY DEF WriteTag, WritableTags
  <2> QED
    BY <2>1, GivenIsConfigured, ValidTag DEF TagIds
<1>2. written' = [Forgotten(CellsOf(t)) EXCEPT ![t] = value]
  BY DEF WriteTag
<1>3. Storable(layout[t].dataType, value)
  BY <1>1 DEF CombinedTypes, Given, TagIds
<1>4. e = [i \in 1 .. p.count |-> e[i]] /\ Len(e) = p.count
  BY <1>1, <1>3, EncodedFits
<1>5. /\ Shaped'
      /\ \A o \in 0 .. MaxOffset :
           memory'[p.table][o] = IF o - p.offset + 1 \in 1 .. Len(e) THEN e[o - p.offset + 1]
                                 ELSE memory[p.table][o]
      /\ \A table \in Tables : table # p.table => memory'[table] = memory[table]
  BY <1>1, WriteMemory
<1>6. written'[t] = value /\ \A u \in TagIds : u # t =>
        /\ CellsOf(u) \cap CellsOf(t) # {} => written'[u] = NONE
        /\ CellsOf(u) \cap CellsOf(t) = {} => written'[u] = written[u]
  <2>1. DOMAIN Forgotten(CellsOf(t)) = TagIds
    BY DEF Forgotten
  <2>2. written'[t] = value /\ \A u \in TagIds : u # t => written'[u] = Forgotten(CellsOf(t))[u]
    BY <1>2, <2>1
  <2> QED
    BY <2>2, ForgottenTags
<1>7. Remembered(t)'
  <2>1. Parsed(t)' = Parsed(t) /\ (t \in WritableTags)' /\ Encode(t, written[t])' = e
    BY <1>1, <1>6 DEF Parsed, WritableTags, ValidTags, TagIds, Encode
  <2>2. ASSUME NEW i \in 1 .. p.count PROVE memory'[p.table][p.offset + i - 1] = e[i]
    <3> DEFINE o == p.offset + i - 1
    <3>1. o \in 0 .. MaxOffset
      BY <1>1, OwnPlaces
    <3>5. o - p.offset + 1 = i
      <4>1. p.offset \in Int /\ i \in Int
        BY <1>1
      <4> QED
        BY <4>1
    <3> HIDE DEF o, p, e
    <3>2. memory'[p.table][o] = e[i]
      BY <1>4, <1>5, <3>1, <3>5
    <3> QED
      BY <3>2 DEF o
  <2>3. OwnRegisters(t)' = e
    <3>1. OwnRegisters(t)' = [i \in 1 .. p.count |-> memory'[p.table][p.offset + i - 1]]
      BY <2>1 DEF OwnRegisters
    <3>2. OwnRegisters(t)' = [i \in 1 .. p.count |-> e[i]]
      BY <2>2, <3>1
    <3> QED
      BY <1>4, <3>2
  <2>4. Storable(layout[t].dataType, written[t])'
    BY <1>1, <1>3, <1>6
  <2>5. (Parsed(t).offset + Parsed(t).count <= MaxOffset + 1)'
    BY <1>1, <2>1
  <2> HIDE DEF e
  <2> QED
    BY <2>1, <2>3, <2>4, <2>5 DEF Remembered
<1>8. ASSUME NEW u \in TagIds, u # t, written'[u] # NONE PROVE Remembered(u)'
  <2>1. CellsOf(u) \cap CellsOf(t) = {} /\ written'[u] = written[u]
    BY <1>6, <1>8
  <2>2. Remembered(u) /\ u \in ValidTags
    BY <1>8, <2>1 DEF WrittenInMemory, Remembered, WritableTags
  <2>3. ASSUME NEW i \in 1 .. Parsed(u).count
        PROVE  memory'[Parsed(u).table][Parsed(u).offset + i - 1]
                 = memory[Parsed(u).table][Parsed(u).offset + i - 1]
    <3> DEFINE o == Parsed(u).offset + i - 1
               tab == Parsed(u).table
    <3>1. o \in 0 .. MaxOffset /\ tab \in Tables /\ <<tab, o>> \in CellsOf(u)
      BY <2>2, OwnPlaces DEF Remembered
    <3> HIDE DEF o, tab, e
    <3>2. ASSUME tab # p.table PROVE memory'[tab][o] = memory[tab][o]
      BY <1>5, <3>1, <3>2
    <3>3. ASSUME tab = p.table PROVE memory'[tab][o] = memory[tab][o]
      <4>1. ~ (o - p.offset + 1 \in 1 .. p.count)
        <5>1. SUFFICES ASSUME o - p.offset + 1 \in 1 .. p.count PROVE FALSE
          OBVIOUS
        <5>2. o \in Int /\ p.offset <= o /\ o < p.offset + p.count
          BY <1>1, <3>1, <5>1
        <5>3. <<p.table, o>> \in CellsOf(t)
          BY <1>1, <5>2, GivenIsConfigured, Cells
        <5> QED
          BY <2>1, <3>1, <3>3, <5>3
      <4> HIDE DEF p
      <4> QED
        BY <1>4, <1>5, <3>1, <3>3, <4>1
    <3>4. memory'[tab][o] = memory[tab][o]
      BY <3>2, <3>3
    <3> QED
      BY <3>4 DEF o, tab
  <2>4. OwnRegisters(u)' = OwnRegisters(u)
    BY <1>1, <2>2, <2>3, OwnKept
  <2> QED
    BY <1>1, <2>1, <2>2, <2>4, RememberedKept
<1> QED
  BY <1>1, <1>5, <1>7, <1>8 DEF WrittenInMemory

\* A step that leaves memory and ghost alone.
LEMMA RestKeepsMemory ==
    ASSUME Given, Shaped, WrittenInMemory, UNCHANGED <<layout, device, memory, written>>
    PROVE  Shaped' /\ WrittenInMemory'
<1>1. TagIds' = TagIds /\ Shaped'
  BY DEF TagIds, Shaped
<1>2. ASSUME NEW t \in TagIds, written'[t] # NONE PROVE Remembered(t)'
  <2>1. Remembered(t) /\ t \in ValidTags
    BY <1>2 DEF WrittenInMemory, Remembered, WritableTags
  <2>2. OwnRegisters(t)' = OwnRegisters(t)
    BY <2>1, OwnKept
  <2> QED
    BY <2>1, <2>2, RememberedKept
<1> QED
  BY <1>1, <1>2 DEF WrittenInMemory

LEMMA MemoryStep ==
    ASSUME Given, CombinedTypes, Shaped, WrittenInMemory, [ModbusNext]_modbusVars
    PROVE  Shaped' /\ WrittenInMemory'
<1>1. CASE \/ \E block \in Blocks : \/ \E n \in 0 .. block.end - block.start : ReadBlock(block, n)
                                   \/ ReadFails(block)
           \/ LinkLost
           \/ UNCHANGED modbusVars
  <2>1. UNCHANGED <<layout, device, memory, written>>
    BY <1>1 DEF ReadBlock, ReadFails, LinkLost, modbusVars
  <2> QED
    BY <2>1, RestKeepsMemory
<1>2. CASE \E t \in TagIds : \E value \in Writes[layout[t].dataType] : WriteTag(t, value)
  BY <1>2, WriteKeepsMemory
<1>3. CASE \E cell \in UNION {CellsOf(t) : t \in ValidTags}, value \in CellValues :
             DeviceSets(cell[1], cell[2], value)
  BY <1>3, DeviceKeepsMemory
<1> QED
  BY <1>1, <1>2, <1>3 DEF ModbusNext

\* A tag that is read after a write shows what was written, as long as nothing else
\* changed its registers (odi-tag-out.js:6-8, flow-gen.ts:147-162).  The hypothesis
\* leaves out the types the read bridge does not combine, for which the property
\* does not hold, and values that are not of their tag's type.
THEOREM ReadsShowWrites ==
    ASSUME CombinedTypes PROVE ModbusSpec => ReadsMatchWrites
<1> DEFINE Inv == Given /\ Qualified /\ Shaped /\ WrittenInMemory
           Matching == \A t \in TagIds :
             held'[t] # held[t] /\ held'[t].quality = "good" /\ written[t] # NONE
             => held'[t].value = written[t]
<1>1. ModbusInit => Inv
  BY QualifiedInit, ShapedInit DEF ModbusInit, Given, WrittenInMemory
<1>2. Inv /\ [ModbusNext]_modbusVars => Inv'
  <2> SUFFICES ASSUME Inv, [ModbusNext]_modbusVars PROVE Inv'
    OBVIOUS
  <2>1. Configured /\ UNCHANGED <<layout, device>>
    BY GivenIsConfigured, ConfiguredStep
  <2>2. Given'
    BY <2>1 DEF Given
  <2> QED
    BY <2>1, <2>2, QualifiedStep, MemoryStep
<1>3. Inv /\ [ModbusNext]_modbusVars => [Matching]_modbusVars
  <2> SUFFICES ASSUME Inv, ModbusNext, NEW t \in TagIds,
                      held'[t] # held[t], held'[t].quality = "good", written[t] # NONE
               PROVE  held'[t].value = written[t]
    OBVIOUS
  <2>1. held'[t].value = Extract(OwnRegisters(t), layout[t].dataType, layout[t].byteOrder)
    BY GivenIsConfigured, ReadStep
  <2>2. Remembered(t) /\ t \in WritableTags
    BY DEF WrittenInMemory, Remembered
  <2>3. Extract(Encode(t, written[t]), layout[t].dataType, layout[t].byteOrder) = written[t]
    BY <2>2, EncodedFits DEF Remembered
  <2> QED
    BY <2>1, <2>2, <2>3 DEF Remembered
<1> QED
  BY <1>1, <1>2, <1>3, PTL DEF ReadsMatchWrites, ModbusSpec

-----------------------------------------------------------------------------
(* ScalingLaws. *)

\* Interpolation gives a whole number of steps.
LEMMA SquareRootType ==
    ASSUME NEW x \in Int
    PROVE  SquareRoot(x) \in Nat
<1> DEFINE roots == {n \in 1 .. x : n * n <= x}
<1>1. IsFiniteSet(1 .. x)
  BY FS_Interval
<1>2. IsFiniteSet(roots)
  BY <1>1, FS_Subset
<1>3. Cardinality(roots) \in Nat
  BY <1>2, FS_CardinalityType
<1> QED
  BY <1>3 DEF SquareRoot

LEMMA InterpolateType ==
    ASSUME NEW s \in Scalings, NEW num \in Int, NEW den \in Nat \ {0}
    PROVE  Interpolate(s, num, den) \in Int
<1>1. s.engMax \in Int /\ s.engMin \in Int
  BY DEF Scalings
<1> DEFINE engSpan == s.engMax - s.engMin
           root == SquareRoot((AtLeast(0, num) * engSpan * engSpan) \div den)
<1>2. engSpan \in Int
  BY <1>1
<1> HIDE DEF engSpan
<1>3. (AtLeast(0, num) * engSpan * engSpan) \in Int /\ num * engSpan \in Int
  BY <1>2 DEF AtLeast
<1>4. root \in Nat
  <2>1. (AtLeast(0, num) * engSpan * engSpan) \div den \in Int
    BY <1>3
  <2> QED
    BY <2>1, SquareRootType
<1>5. (num * engSpan) \div den \in Int
  BY <1>3
<1> HIDE DEF root
<1>6. Interpolate(s, num, den) =
        IF s.type = "square-root" THEN IF engSpan < 0 THEN - root ELSE root
        ELSE (num * engSpan) \div den
  BY DEF Interpolate, engSpan, root
<1> QED
  BY <1>4, <1>5, <1>6, <1>2

\* What leaves no rest is a whole number of steps.
LEMMA WholeSteps ==
    ASSUME NEW step \in Nat \ {0}, NEW x \in Int, x % step = 0
    PROVE  \E k \in Int : x = step * k
<1>1. step \in Int /\ step > 0
  OBVIOUS
<1> DEFINE k == x \div step
           r == x % step
<1>2. k \in Int /\ x = step * k + r
  BY <1>1
<1>3. r = 0
  OBVIOUS
<1>4. step * k \in Int
  BY <1>1, <1>2
<1> HIDE DEF k, r
<1>5. x = step * k
  BY <1>1, <1>2, <1>3, <1>4
<1> QED
  BY <1>2, <1>5

\* Rounding to whole steps stays between whole steps.
LEMMA RoundingStays ==
    ASSUME NEW step \in Nat \ {0}, NEW v \in Int, NEW a \in Int, NEW b \in Int,
           step * a <= v, v <= step * b
    PROVE  step * a <= RoundTo(v, step) /\ RoundTo(v, step) <= step * b /\ RoundTo(v, step) \in Int
<1>1. step \in Nat /\ step > 0
  OBVIOUS
<1> DEFINE n == 2 * v + step
           d == 2 * step
           q == n \div d
<1>4. n \in Int /\ d \in Nat /\ d > 0
  BY <1>1
<1>5. q \in Int /\ d * q <= n /\ n < d * (q + 1)
  <2> HIDE DEF n, d
  <2>1. n = d * (n \div d) + (n % d) /\ n \div d \in Int /\ n % d \in 0 .. d - 1
    BY <1>4
  <2>2. d * (q + 1) = d * q + d
    BY <2>1, <1>4
  <2> QED
    BY <1>4, <2>1, <2>2
<1>6. a <= q
  <2>2. d * a <= n
    BY <1>1
  <2>3. d * a < d * (q + 1)
    BY <1>4, <1>5, <2>2
  <2> HIDE DEF q, n, d
  <2>4. a < q + 1
    <3>1. SUFFICES ASSUME q + 1 <= a PROVE FALSE
      BY <1>5
    <3>2. d * (q + 1) <= d * a
      BY <1>4, <1>5, <3>1
    <3> QED
      BY <1>4, <1>5, <2>3, <3>2
  <2> QED
    BY <1>5, <2>4
<1>7. q <= b
  <2>2. n < d * (b + 1)
    BY <1>1
  <2>3. d * q < d * (b + 1)
    BY <1>4, <1>5, <2>2
  <2> HIDE DEF q, n, d
  <2>4. q < b + 1
    <3>1. SUFFICES ASSUME b + 1 <= q PROVE FALSE
      BY <1>5
    <3>2. d * (b + 1) <= d * q
      BY <1>4, <1>5, <3>1
    <3> QED
      BY <1>4, <1>5, <2>3, <3>2
  <2> QED
    BY <1>5, <2>4
<1>8. step * a <= step * q /\ step * q <= step * b /\ step * q \in Int
  <2> HIDE DEF q, n, d
  <2> QED
    BY <1>1, <1>5, <1>6, <1>7
<1>9. RoundTo(v, step) = q * step
  BY DEF RoundTo
<1>10. q * step = step * q
  <2> HIDE DEF q, n, d
  <2> QED
    BY <1>1, <1>5
<1> QED
  BY <1>8, <1>9, <1>10

\* Values of every type have a resolution, and numbers keep to it.
LEMMA Resolved ==
    ASSUME NEW type \in DataTypes
    PROVE  /\ Resolution(type) \in Nat \ {0}
           /\ \A v \in Int : CoerceToType(v, type) = RoundTo(v, Resolution(type))
BY UnitAssumption, ValueAssumption DEF Resolution, CoerceToType

\* A clamped value is in its range before it is negated and rounded.
LEMMA ClampStays ==
    ASSUME NEW s \in Scalings, NEW v \in Int, s.clampLow, s.clampHigh, s.engMin <= s.engMax
    PROVE  Clamp(s, v) \in Int /\ s.engMin <= Clamp(s, v) /\ Clamp(s, v) <= s.engMax
BY DEF Clamp, AtLeast, AtMost, Scalings

THEOREM ClampsHold == SweepSpec => []ClampedInRange
<1> DEFINE Types0 == raw \in Int /\ scaling \in Scalings /\ dataType \in DataTypes
<1>1. SweepInit => Types0
  BY SampleAssumption DEF SweepInit
<1>2. Types0 /\ [Sweep]_sweepVars => Types0'
  BY DEF Sweep, sweepVars
<1>3. Types0 => ClampedInRange
  <2> SUFFICES ASSUME Types0, Interpolated, scaling.clampLow, scaling.clampHigh,
                      scaling.engMin <= scaling.engMax,
                      scaling.engMin % Resolution(dataType) = 0, scaling.engMax % Resolution(dataType) = 0
               PROVE  LET v == IF scaling.negate THEN -Scaled(raw) ELSE Scaled(raw)
                      IN  scaling.engMin <= v /\ v <= scaling.engMax
    BY DEF ClampedInRange
  <2> DEFINE s == scaling
             span == s.rawMax - s.rawMin
             num == IF span < 0 THEN s.rawMin - raw ELSE raw - s.rawMin
             den == IF span < 0 THEN -span ELSE span
             i == Interpolate(s, num, den)
             v == Clamp(s, s.engMin + i)
  <2>1. s.rawMin \in Int /\ s.rawMax \in Int /\ s.engMin \in Int /\ s.engMax \in Int /\ s.negate \in BOOLEAN
    BY DEF Scalings
  <2>2. span \in Int /\ span # 0
    BY <2>1 DEF Interpolated
  <2>3. num \in Int /\ den \in Nat \ {0}
    BY <2>1, <2>2
  <2>4. i \in Int
    <3> HIDE DEF num, den
    <3> QED
      BY <2>3, InterpolateType
  <2>5. raw # NaN /\ raw \in Numbers
    BY ValueAssumption DEF Numbers
  <2>6. ApplyScaling(raw, s) = IF s.negate THEN -v ELSE v
    BY <2>2, <2>5 DEF ApplyScaling, Interpolated
  <2> HIDE DEF i
  <2>7. v \in Int /\ s.engMin <= v /\ v <= s.engMax
    BY <2>1, <2>4, ClampStays
  <2> HIDE DEF v
  <2>8. Scaled(raw) = CoerceToType(IF s.negate THEN -v ELSE v, dataType)
    BY <2>5, <2>6 DEF Scaled, ProcessValue
  <2> DEFINE step == Resolution(dataType)
             rounded(x) == CoerceToType(x, dataType)
  <2>9. step \in Nat \ {0} /\ \A x \in Int : rounded(x) = RoundTo(x, step)
    BY Resolved
  <2>10. s.engMin % step = 0 /\ s.engMax % step = 0
    OBVIOUS
  <2>11. Scaled(raw) = rounded(IF s.negate THEN -v ELSE v)
    BY <2>8
  <2> HIDE DEF step, rounded
  <2>12. PICK a \in Int : s.engMin = step * a
    BY <2>1, <2>9, <2>10, WholeSteps
  <2>13. PICK b \in Int : s.engMax = step * b
    BY <2>1, <2>9, <2>10, WholeSteps
  <2>14. CASE ~ s.negate
    <3>1. step * a <= RoundTo(v, step) /\ RoundTo(v, step) <= step * b
      BY <2>7, <2>9, <2>12, <2>13, RoundingStays
    <3> QED
      BY <2>7, <2>9, <2>11, <2>12, <2>13, <2>14, <3>1
  <2>15. CASE s.negate
    <3>1. step * (-b) = -s.engMax /\ step * (-a) = -s.engMin /\ -a \in Int /\ -b \in Int /\ -v \in Int
      BY <2>7, <2>9, <2>12, <2>13
    <3>2. step * (-b) <= -v /\ -v <= step * (-a)
      BY <2>1, <2>7, <3>1
    <3> DEFINE r == RoundTo(-v, step)
    <3>3. step * (-b) <= r /\ r <= step * (-a) /\ r \in Int
      BY <2>9, <3>1, <3>2, RoundingStays
    <3>4. Scaled(raw) = r
      BY <2>9, <2>11, <2>15, <3>1
    <3> HIDE DEF r
    <3> QED
      BY <2>1, <2>15, <3>1, <3>3, <3>4
  <2> QED
    BY <2>14, <2>15
<1> QED
  BY <1>1, <1>2, <1>3, PTL DEF SweepSpec

-----------------------------------------------------------------------------
(* OpcUaBridge. *)

\* Types, as far as the caches need them, and the parents of tags.
BridgeShape ==
    /\ devices \in [Devices -> DeviceRows] /\ tags \in [Tags -> TagRows]
    /\ \A t \in Tags : tags[t] # Absent => devices[DeviceOf[t]] # Absent
    /\ DOMAIN shown = Tags /\ \A t \in Tags : DOMAIN shown[t] = {"value", "quality"}
    /\ DOMAIN byAddress = Groups /\ DOMAIN deviceIds = Groups /\ DOMAIN byTagId = Channels

\* The inductive invariant.
BridgeInv == BridgeShape /\ CachesAreFresh

LEMMA BridgeInitInv == Init => BridgeInv
BY InitialAssumption DEF Init, BridgeInv, BridgeShape, CachesAreFresh

\* The nodes and the rows decide what a cache may hold.
LEMMA CachesOver ==
    ASSUME CachesAreFresh, UNCHANGED <<configVars, subs>>,
           \A g \in Groups : /\ byAddress'[g] \in {byAddress[g], AddressIndex(g)}
                             /\ deviceIds'[g] \in {deviceIds[g], DevicesIn(GroupOf(g))},
           \A c \in Channels : byTagId'[c] \in {byTagId[c], TagIndex(c)}
    PROVE  CachesAreFresh'
<1>1. devices' = devices /\ tags' = tags /\ subs' = subs
  BY DEF configVars
<1>2. ASSUME NEW g PROVE AddressIndex(g)' = AddressIndex(g)
  <2>1. ASSUME NEW a PROVE Places(g, a)' = Places(g, a)
    BY <1>1, Zenon DEF Places, TagsIn, GroupOf
  <2>2. {tags[t].address : t \in TagsIn(GroupOf(g))}' = {tags[t].address : t \in TagsIn(GroupOf(g))}
    BY <1>1, Zenon DEF TagsIn, GroupOf
  <2> QED
    BY <2>1, <2>2 DEF AddressIndex
<1>3. ASSUME NEW g PROVE DevicesIn(GroupOf(g))' = DevicesIn(GroupOf(g))
  BY <1>1, Zenon DEF DevicesIn, GroupOf
<1>4. ASSUME NEW c PROVE TagIndex(c)' = TagIndex(c)
  BY <1>1, Zenon DEF TagIndex, TagsIn
<1> QED
  BY <1>2, <1>3, <1>4 DEF CachesAreFresh

LEMMA SameCaches ==
    ASSUME UNCHANGED <<configVars, subs, cacheVars>>, CachesAreFresh
    PROVE  CachesAreFresh'
BY CachesOver DEF cacheVars

\* A step of the client or of a timer.
LEMMA QuietInv ==
    ASSUME BridgeInv, UNCHANGED <<configVars, subs, cacheVars, shown>>
    PROVE  BridgeInv'
BY SameCaches DEF BridgeInv, BridgeShape, configVars, cacheVars

\* Nothing is cached.
NothingCached ==
    /\ byAddress = [g \in Groups |-> Unbuilt]
    /\ deviceIds = [g \in Groups |-> Unbuilt]
    /\ byTagId = [c \in Channels |-> Unbuilt]

LEMMA RedeployInv == ASSUME BridgeInv, Redeploy PROVE BridgeInv'
BY DEF Redeploy, BridgeInv, BridgeShape, CachesAreFresh, configVars

\* An edit that keeps the parents of tags.
LEMMA EditInv ==
    ASSUME BridgeInv, NEW ds \in [Devices -> DeviceRows], NEW ts \in [Tags -> TagRows], Edit(ds, ts),
           \A t \in Tags : ts[t] # Absent => ds[DeviceOf[t]] # Absent
    PROVE  BridgeInv'
<1>1. /\ devices' = ds /\ tags' = ts
      /\ NothingCached'
      /\ shown' = [t \in Tags |-> IF tags[t] = Absent \/ ts[t] = Absent
                                  THEN [value |-> Absent, quality |-> "bad"] ELSE shown[t]]
  BY DEF Edit, Forget, NothingCached
<1>2. CachesAreFresh'
  BY <1>1 DEF CachesAreFresh, NothingCached
<1> QED
  BY <1>1, <1>2 DEF BridgeInv, BridgeShape, NothingCached

LEMMA SaveTagInv == ASSUME BridgeInv, NEW t \in Tags, NEW row \in TagRows, SaveTag(t, row) PROVE BridgeInv'
<1>1. [tags EXCEPT ![t] = row] \in [Tags -> TagRows] /\ devices \in [Devices -> DeviceRows]
  BY DEF BridgeInv, BridgeShape
<1>2. \A x \in Tags : [tags EXCEPT ![t] = row][x] # Absent => devices[DeviceOf[x]] # Absent
  BY DEF BridgeInv, BridgeShape, SaveTag
<1> QED
  BY <1>1, <1>2, EditInv DEF SaveTag

LEMMA DeleteTagInv == ASSUME BridgeInv, NEW t \in Tags, DeleteTag(t) PROVE BridgeInv'
<1>1. [tags EXCEPT ![t] = Absent] \in [Tags -> TagRows] /\ devices \in [Devices -> DeviceRows]
  BY DEF BridgeInv, BridgeShape, TagRows
<1>2. \A x \in Tags : [tags EXCEPT ![t] = Absent][x] # Absent => devices[DeviceOf[x]] # Absent
  BY DEF BridgeInv, BridgeShape
<1> QED
  BY <1>1, <1>2, EditInv DEF DeleteTag

LEMMA SaveDeviceInv ==
    ASSUME BridgeInv, NEW d \in Devices, NEW row \in DeviceRows, SaveDevice(d, row)
    PROVE  BridgeInv'
<1>1. [devices EXCEPT ![d] = row] \in [Devices -> DeviceRows] /\ tags \in [Tags -> TagRows]
  BY DEF BridgeInv, BridgeShape
<1>2. \A x \in Tags : tags[x] # Absent => [devices EXCEPT ![d] = row][DeviceOf[x]] # Absent
  BY StructureAssumption DEF BridgeInv, BridgeShape, SaveDevice
<1> QED
  BY <1>1, <1>2, EditInv DEF SaveDevice

LEMMA DeleteDeviceInv == ASSUME BridgeInv, NEW d \in Devices, DeleteDevice(d) PROVE BridgeInv'
<1> DEFINE ds == [devices EXCEPT ![d] = Absent]
           ts == [t \in Tags |-> IF DeviceOf[t] = d THEN Absent ELSE tags[t]]
<1>1. ds \in [Devices -> DeviceRows] /\ ts \in [Tags -> TagRows]
  BY DEF BridgeInv, BridgeShape, TagRows, DeviceRows
<1>2. \A x \in Tags : ts[x] # Absent => ds[DeviceOf[x]] # Absent
  BY StructureAssumption DEF BridgeInv, BridgeShape
<1>3. Edit(ds, ts)
  BY DEF DeleteDevice
<1> HIDE DEF ds, ts
<1> QED
  BY <1>1, <1>2, <1>3, EditInv

\* A cache that is made, and one that is there, is that of the configuration.
LEMMA CacheUsed ==
    ASSUME BridgeInv
    PROVE  /\ \A g \in Groups : (IF byAddress[g] = Unbuilt THEN AddressIndex(g) ELSE byAddress[g]) = AddressIndex(g)
           /\ \A g \in Groups : (IF deviceIds[g] = Unbuilt THEN DevicesIn(GroupOf(g)) ELSE deviceIds[g]) = DevicesIn(GroupOf(g))
           /\ \A c \in Channels : (IF byTagId[c] = Unbuilt THEN TagIndex(c) ELSE byTagId[c]) = TagIndex(c)
BY DEF BridgeInv, CachesAreFresh

\* The index sends an address to a tag that has it.
LEMMA IndexOwns ==
    ASSUME NEW g, NEW a \in DOMAIN AddressIndex(g)
    PROVE  AddressIndex(g)[a] \in TagsIn(GroupOf(g)) /\ tags[AddressIndex(g)[a]].address = a
<1>1. PICK t \in TagsIn(GroupOf(g)) : tags[t].address = a
  BY DEF AddressIndex
<1>2. TagOrder \in Seq(Tags) /\ t \in ToSet(TagOrder)
  BY StructureAssumption DEF TagsIn
<1>3. PICK k \in DOMAIN TagOrder : TagOrder[k] = t
  BY <1>2 DEF ToSet
<1>4. PICK n \in Nat : DOMAIN TagOrder = 1 .. n
  BY <1>2
<1>5. Places(g, a) \in SUBSET (1 .. n) /\ Places(g, a) # {}
  BY <1>1, <1>3, <1>4 DEF Places
<1>6. Max(Places(g, a)) \in Places(g, a)
  BY <1>5, LastPlace
<1>7. AddressIndex(g)[a] = TagOrder[Max(Places(g, a))]
  BY DEF AddressIndex
<1> QED
  BY <1>6, <1>7 DEF Places

\* A tag's quality, or value and quality, are changed.
LEMMA ShownShape ==
    ASSUME BridgeShape, NEW t \in Tags, NEW v, NEW q
    PROVE  /\ DOMAIN [shown[t] EXCEPT !.quality = q] = {"value", "quality"}
           /\ [shown[t] EXCEPT !.quality = q].quality = q
           /\ DOMAIN [value |-> v, quality |-> q] = {"value", "quality"}
BY DEF BridgeShape

\* What a message makes of a tag has the shape of one.
LEMMA UpdatedShape ==
    ASSUME BridgeShape, NEW t \in Tags, NEW msg
    PROVE  DOMAIN Updated(shown[t], msg) = {"value", "quality"}
BY ShownShape DEF Updated, BridgeShape

\* A message loses the whole group, or is for one tag.
LEMMA InputEffect ==
    ASSUME BridgeInv, NEW g \in Groups, Input(g)
    PROVE  /\ UNCHANGED <<configVars, subs>>
           /\ IF Head(inbox[g]).kind = "lost"
              THEN /\ deviceIds' = [deviceIds EXCEPT ![g] = DevicesIn(GroupOf(g))]
                   /\ shown' = [t \in Tags |-> IF tags[t] # Absent /\ DeviceOf[t] \in DevicesIn(GroupOf(g))
                                               THEN [shown[t] EXCEPT !.quality = "bad"] ELSE shown[t]]
                   /\ UNCHANGED <<byAddress, byTagId>>
              ELSE /\ byAddress' = [byAddress EXCEPT ![g] = AddressIndex(g)]
                   /\ \/ UNCHANGED shown
                      \/ \E t \in Tags : \E new :
                           /\ tags[t].address = Head(inbox[g]).address
                           /\ DOMAIN new = {"value", "quality"}
                           /\ shown' = [shown EXCEPT ![t] = new]
                   /\ UNCHANGED <<deviceIds, byTagId>>
<1>1. UNCHANGED <<configVars, subs>>
  BY DEF Input, nodeVars
<1>2. CASE Head(inbox[g]).kind = "lost"
  <2>1. MarkGroupBad(g)
    BY <1>2 DEF Input
  <2> QED
    BY <1>1, <1>2, <2>1, CacheUsed DEF MarkGroupBad
<1>3. CASE Head(inbox[g]).kind # "lost"
  <2> DEFINE msg == Head(inbox[g])
             idx == AddressIndex(g)
             t == idx[msg.address]
             new == Updated(shown[t], msg)
  <2>1. Route(g, msg)
    BY <1>3 DEF Input
  <2>2. /\ byAddress' = [byAddress EXCEPT ![g] = idx]
        /\ IF msg.address \in DOMAIN idx /\ tags[t] # Absent
           THEN shown' = [shown EXCEPT ![t] = Updated(@, msg)]
           ELSE UNCHANGED shown
        /\ UNCHANGED <<deviceIds, byTagId>>
    BY <2>1, CacheUsed DEF Route
  <2>3. CASE msg.address \in DOMAIN idx
    <3>1. t \in Tags /\ tags[t].address = msg.address
      BY <2>3, IndexOwns DEF TagsIn
    <3>2. DOMAIN new = {"value", "quality"}
      BY <3>1, UpdatedShape DEF BridgeInv
    <3>3. shown' = shown \/ shown' = [shown EXCEPT ![t] = new]
      BY <2>2, <2>3, <3>1 DEF BridgeInv, BridgeShape
    <3> HIDE DEF t, new
    <3> QED
      BY <1>1, <1>3, <2>2, <3>1, <3>2, <3>3
  <2>4. CASE msg.address \notin DOMAIN idx
    BY <1>1, <1>3, <2>2, <2>4
  <2> QED
    BY <2>3, <2>4
<1> QED
  BY <1>2, <1>3

LEMMA InputInv == ASSUME BridgeInv, NEW g \in Groups, Input(g) PROVE BridgeInv'
<1>1. CASE Head(inbox[g]).kind = "lost"
  <2>1. /\ deviceIds' = [deviceIds EXCEPT ![g] = DevicesIn(GroupOf(g))]
        /\ shown' = [t \in Tags |-> IF tags[t] # Absent /\ DeviceOf[t] \in DevicesIn(GroupOf(g))
                                    THEN [shown[t] EXCEPT !.quality = "bad"] ELSE shown[t]]
        /\ UNCHANGED <<byAddress, byTagId, configVars, subs>>
    BY <1>1, InputEffect
  <2>2. CachesAreFresh'
    BY <2>1, CachesOver DEF BridgeInv, BridgeShape
  <2>3. BridgeShape'
    BY <2>1, ShownShape DEF BridgeInv, BridgeShape, configVars
  <2> QED
    BY <2>2, <2>3 DEF BridgeInv
<1>2. CASE Head(inbox[g]).kind # "lost"
  <2>1. /\ byAddress' = [byAddress EXCEPT ![g] = AddressIndex(g)]
        /\ \/ UNCHANGED shown
           \/ \E t \in Tags : \E new : DOMAIN new = {"value", "quality"} /\ shown' = [shown EXCEPT ![t] = new]
        /\ UNCHANGED <<deviceIds, byTagId, configVars, subs>>
    BY <1>2, InputEffect
  <2>2. CachesAreFresh'
    BY <2>1, CachesOver DEF BridgeInv, BridgeShape
  <2>3. BridgeShape'
    BY <2>1 DEF BridgeInv, BridgeShape, configVars
  <2> QED
    BY <2>2, <2>3 DEF BridgeInv
<1> QED
  BY <1>1, <1>2

LEMMA WriteInv == ASSUME BridgeInv, NEW t \in Tags, Write(t) PROVE BridgeInv'
<1> DEFINE c == ChannelOfTag(t)
<1>1. c \in Channels
  BY StructureAssumption DEF ChannelOfTag
<1> HIDE DEF c
<1>2. /\ byTagId' = [byTagId EXCEPT ![c] = TagIndex(c)]
      /\ UNCHANGED <<configVars, shown, subs, byAddress, deviceIds>>
  BY <1>1, CacheUsed DEF Write, nodeVars, c
<1>3. CachesAreFresh'
  BY <1>2, CachesOver DEF BridgeInv, BridgeShape
<1> QED
  BY <1>2, <1>3 DEF BridgeInv, BridgeShape, configVars

\* Every step, and none.
LEMMA BridgeNextInv == BridgeInv /\ [Next]_vars => BridgeInv'
<1> SUFFICES ASSUME BridgeInv, [Next]_vars PROVE BridgeInv'
  OBVIOUS
<1>1. ASSUME NEW c \in Channels, Subscribe(c) \/ PollTimer(c) \/ \E a \in Valid : Notify(c, a)
      PROVE  BridgeInv'
  BY <1>1, QuietInv DEF Subscribe, PollTimer, Notify, nodeVars
<1>2. ASSUME NEW g \in Groups, LoseLink(g) \/ \E full \in BOOLEAN : Reconnect(g, full)
      PROVE  BridgeInv'
  BY <1>2, QuietInv DEF LoseLink, Reconnect, nodeVars
<1>3. ASSUME NEW a \in Valid, NEW v \in Values, FieldChanges(a, v)
      PROVE  BridgeInv'
  BY <1>3, QuietInv DEF FieldChanges, nodeVars
<1>4. CASE UNCHANGED vars
  BY <1>4, QuietInv DEF vars, nodeVars
<1>5. CASE Deliver
  BY <1>1, <1>2, <1>5, RedeployInv, InputInv DEF Deliver
<1> QED
  BY <1>2, <1>3, <1>4, <1>5, WriteInv, SaveTagInv, DeleteTagInv, SaveDeviceInv, DeleteDeviceInv DEF Next

LEMMA BridgeInvariant == Spec => []BridgeInv
BY BridgeInitInv, BridgeNextInv, PTL DEF Spec

\* A notification changes a tag that has its address in the saved configuration, or none:
\* the index of the in-bridge is thrown away with every change event and made anew from the
\* store, so that a message sent before an edit is routed by what holds after it
\* (odi-opcua-in.js, addressIndex).
THEOREM ValuesReachOwner == Spec => RoutedToOwner
<1> DEFINE Routed ==
      \A g \in Groups : Input(g) /\ Head(inbox[g]).kind = "value" =>
          \A t \in Tags : shown'[t] # shown[t] => tags[t].address = Head(inbox[g]).address
<1>1. BridgeInv /\ [Next]_vars => [Routed]_vars
  <2> SUFFICES ASSUME BridgeInv, NEW g \in Groups, Input(g), Head(inbox[g]).kind = "value",
                      NEW t \in Tags, shown'[t] # shown[t]
               PROVE  tags[t].address = Head(inbox[g]).address
    OBVIOUS
  <2>1. PICK x \in Tags : /\ tags[x].address = Head(inbox[g]).address
                          /\ \E new : shown' = [shown EXCEPT ![x] = new]
    <3>1. \/ UNCHANGED shown
          \/ \E x \in Tags : \E new :
                /\ tags[x].address = Head(inbox[g]).address
                /\ DOMAIN new = {"value", "quality"}
                /\ shown' = [shown EXCEPT ![x] = new]
      BY InputEffect
    <3>2. PICK x \in Tags : \E new :
                /\ tags[x].address = Head(inbox[g]).address
                /\ DOMAIN new = {"value", "quality"}
                /\ shown' = [shown EXCEPT ![x] = new]
      BY <3>1
    <3> QED
      BY <3>2
  <2>2. t = x
    BY <2>1 DEF BridgeInv, BridgeShape
  <2> QED
    BY <2>1, <2>2
<1> QED
  BY <1>1, BridgeInvariant, PTL DEF Spec, RoutedToOwner

\* A lost connection marks every tag of the group and no other, whatever devices and tags
\* were created, deleted, disabled or moved since the bridge was deployed or handled an
\* earlier loss (odi-opcua-in.js, markGroupBad).
THEOREM LossReachesEveryTag == Spec => LossReachesAll
<1> DEFINE Reaches ==
      \A g \in Groups : Input(g) /\ Head(inbox[g]).kind = "lost" =>
          \A t \in Tags : IF t \in TagsIn(GroupOf(g)) THEN shown'[t].quality = "bad"
                                                     ELSE shown'[t] = shown[t]
<1>1. BridgeInv /\ [Next]_vars => [Reaches]_vars
  <2> SUFFICES ASSUME BridgeInv, NEW g \in Groups, Input(g), Head(inbox[g]).kind = "lost",
                      NEW t \in Tags
               PROVE  IF t \in TagsIn(GroupOf(g)) THEN shown'[t].quality = "bad"
                                                 ELSE shown'[t] = shown[t]
    OBVIOUS
  <2>1. DeviceOf[t] \in Devices /\ (tags[t] # Absent => devices[DeviceOf[t]] # Absent)
    BY StructureAssumption DEF BridgeInv, BridgeShape
  <2>2. t \in TagsIn(GroupOf(g)) <=> tags[t] # Absent /\ DeviceOf[t] \in DevicesIn(GroupOf(g))
    BY <2>1 DEF DevicesIn, TagsIn, ChannelOfTag
  <2>3. shown'[t] = IF tags[t] # Absent /\ DeviceOf[t] \in DevicesIn(GroupOf(g))
                    THEN [shown[t] EXCEPT !.quality = "bad"] ELSE shown[t]
    BY InputEffect
  <2>4. [shown[t] EXCEPT !.quality = "bad"].quality = "bad"
    BY ShownShape DEF BridgeInv
  <2> QED
    BY <2>2, <2>3, <2>4
<1> QED
  BY <1>1, BridgeInvariant, PTL DEF Spec, LossReachesAll

\* What is sent on a write is addressed as the saved configuration says, and nothing is sent
\* for a tag that is read-only there, although the nodes may be of an older configuration
\* (odi-opcua-out.js, tagIndex).
THEOREM WritesAreFollowed == Spec => WritesFollowConfig
<1> DEFINE Follows ==
      \A t \in Tags : Write(t) /\ sent' # Absent =>
          tags[t].access = "rw" /\ sent'.address = tags[t].address
<1>1. BridgeInv /\ [Next]_vars => [Follows]_vars
  <2> SUFFICES ASSUME BridgeInv, NEW t \in Tags, Write(t), sent' # Absent
               PROVE  tags[t].access = "rw" /\ sent'.address = tags[t].address
    OBVIOUS
  <2> DEFINE c == ChannelOfTag(t)
  <2>1. c \in Channels
    BY StructureAssumption DEF ChannelOfTag
  <2> HIDE DEF c
  <2>2. sent' = IF t \in DOMAIN TagIndex(c) /\ t \notin Wide
                THEN [tag |-> t, address |-> TagIndex(c)[t]] ELSE Absent
    BY <2>1, CacheUsed DEF Write, c
  <2>3. t \in DOMAIN TagIndex(c) /\ sent'.address = TagIndex(c)[t]
    BY <2>2
  <2> QED
    BY <2>3 DEF TagIndex
<1> QED
  BY <1>1, BridgeInvariant, PTL DEF Spec, WritesFollowConfig
=============================================================================
