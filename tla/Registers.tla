----------------------------- MODULE Registers -----------------------------
(***************************************************************************)
(* Multi-register Modbus values (packages/drivers/nodered/byte-order.js):  *)
(* bytes reordered for a tag's byteOrder, values decoded from registers    *)
(* and encoded to them.                                                    *)
(*                                                                         *)
(* A value is a sequence of integers: <<n>> is the number n, and a value   *)
(* of a type of 32 or 64 bits is its bytes, most significant first (which  *)
(* number they stand for is the Buffer's affair, one to one).              *)
(***************************************************************************)
EXTENDS Integers, Sequences

Byte == 0 .. 255
Word == 0 .. 65535

Orders == {"big-endian", "word-swap", "byte-swap", "little-endian"}

Bytes4Types == {"int32", "uint32", "float32", "date"}
Bytes8Types == {"int64", "uint64", "float64"}
BcdTypes == {"bcd", "lbcd"}

\* registersForDataType: 16-bit registers a value occupies.
RegistersFor(type) ==
    IF type \in Bytes4Types \cup {"lbcd"} THEN 2
    ELSE IF type \in Bytes8Types THEN 4
    ELSE 1

-----------------------------------------------------------------------------

\* Where byte i of n reordered bytes comes from.
Partner(order, n, i) ==
    IF order = "word-swap" THEN (IF i % 2 = 1 THEN n - i ELSE n - i + 2)
    ELSE IF order = "byte-swap" THEN (IF i % 2 = 1 THEN i + 1 ELSE i - 1)
    ELSE IF order = "little-endian" THEN n + 1 - i
    ELSE i

ReorderBytes(bytes, order) ==
    [i \in 1 .. Len(bytes) |-> bytes[Partner(order, Len(bytes), i)]]

\* The bytes of registers in wire order, and the registers of such bytes.
BytesOf(registers) ==
    [i \in 1 .. 2 * Len(registers) |->
       IF i % 2 = 1 THEN registers[(i + 1) \div 2] \div 256
                    ELSE registers[i \div 2] % 256]

RegistersOf(bytes) ==
    [k \in 1 .. Len(bytes) \div 2 |-> bytes[2 * k - 1] * 256 + bytes[2 * k]]

OrderBytes(registers, order) == ReorderBytes(BytesOf(registers), order)

-----------------------------------------------------------------------------

\* Two's complement of a width with `size` patterns.
Signed(n, size) == IF 2 * n >= size THEN n - size ELSE n

Nibbles(bytes) ==
    [i \in 1 .. 2 * Len(bytes) |->
       IF i % 2 = 1 THEN bytes[(i + 1) \div 2] \div 16 ELSE bytes[i \div 2] % 16]

\* The number a sequence of four or eight decimal digits shows.
Decimal(d) ==
    IF Len(d) = 4 THEN d[1] * 1000 + d[2] * 100 + d[3] * 10 + d[4]
    ELSE (d[1] * 1000 + d[2] * 100 + d[3] * 10 + d[4]) * 10000
         + d[5] * 1000 + d[6] * 100 + d[7] * 10 + d[8]

NotBCD == <<>>      \* NaN, for a nibble above 9

\* Buffer.read...: out of range when there are fewer bytes than the type has.
Readable(registers, type) == Len(registers) >= RegistersFor(type)

\* The value of bytes in logical order.
DecodeBytes(b, type) ==
    IF type = "int8" THEN <<Signed(b[Len(b)], 256)>>
    ELSE IF type = "uint8" THEN <<b[Len(b)]>>
    ELSE IF type = "int16" THEN <<Signed(b[1] * 256 + b[2], 65536)>>
    ELSE IF type = "uint16" THEN <<b[1] * 256 + b[2]>>
    ELSE IF type \in Bytes4Types THEN SubSeq(b, 1, 4)
    ELSE IF type \in Bytes8Types THEN SubSeq(b, 1, 8)
    ELSE IF \E i \in DOMAIN Nibbles(b) : Nibbles(b)[i] > 9 THEN NotBCD
    ELSE <<Decimal(Nibbles(b))>>

\* combineRegisters, for registers that are Readable.
CombineRegisters(registers, type, order) ==
    IF type \in {"bool", "string"} THEN <<registers[1]>>
    ELSE DecodeBytes(OrderBytes(registers, order), type)

\* Digit i, from the left, of the last `digits` decimal digits of n.
Digit(n, digits, i) == (n \div 10 ^ (digits - i)) % 10

DigitBytes(n, digits) ==
    [i \in 1 .. digits \div 2 |->
       Digit(n, digits, 2 * i - 1) * 16 + Digit(n, digits, 2 * i)]

\* Buffer.write...Int16...: out of range values throw, the other narrow types
\* are cut to their width.
Writable(value, type) ==
    CASE type = "int16" -> value[1] \in -32768 .. 32767
      [] type = "uint16" -> value[1] \in Word
      [] OTHER -> TRUE

\* The logical bytes of a value that is Writable.  (A negative BCD value has
\* no meaningful encoding and is left out.)
EncodedBytes(value, type) ==
    IF type \in {"int8", "uint8"} THEN <<0, value[1] % 256>>
    ELSE IF type \in Bytes4Types \cup Bytes8Types THEN value
    ELSE IF type = "bcd" THEN DigitBytes(value[1], 4)
    ELSE IF type = "lbcd" THEN DigitBytes(value[1], 8)
    ELSE <<(value[1] % 65536) \div 256, value[1] % 256>>

\* The types whose bytes are a two's complement, or opaque, and their values.
NarrowTypes == {"int8", "uint8", "int16", "uint16"}
BinaryTypes == NarrowTypes \cup Bytes4Types \cup Bytes8Types

Lowest(type) == IF type = "int8" THEN -128 ELSE IF type = "int16" THEN -32768 ELSE 0
Highest(type) == IF type = "int8" THEN 127 ELSE IF type = "uint8" THEN 255
                 ELSE IF type = "int16" THEN 32767 ELSE 65535

ValuesOf(type) ==
    IF type \in NarrowTypes THEN {<<n>> : n \in Lowest(type) .. Highest(type)}
    ELSE {b \in Seq(Byte) : Len(b) = 2 * RegistersFor(type)}

SplitRegisters(value, type, order) ==
    RegistersOf(ReorderBytes(EncodedBytes(value, type), order))
=============================================================================
