----------------------------- MODULE MCModbus -----------------------------
(* Lists of up to four tags: neighbours, gaps, overlaps, coils, invalid     *)
(* addresses, two scan rates; settings that block, split and override.      *)
EXTENDS Modbus

Tag(digits, address, dataType, byteOrder, access, rate) ==
    [digits |-> digits, address |-> address, dataType |-> dataType,
     byteOrder |-> byteOrder, access |-> access, scanRateMs |-> rate]

MCDistinctLayouts ==
    { \* a gap of one register between the second and the third tag
      << Tag(5, 40004, "uint16", "big-endian", "ro", 1000),
         Tag(5, 40001, "uint32", "word-swap", "rw", 1000) >>,
      << Tag(5, 40001, "int16", "byte-swap", "rw", 500),
         Tag(5, 40002, "int16", "big-endian", "rw", 1000),
         Tag(5, 40003, "uint16", "little-endian", "ro", 1000) >>,
      \* a value and a tag on its second register; no such address
      << Tag(6, 400001, "float32", "little-endian", "rw", 1000),
         Tag(6, 400002, "uint16", "big-endian", "rw", 500),
         Tag(5, 40000, "uint16", "big-endian", "rw", 1000) >>,
      << Tag(5, 1, "bool", "big-endian", "rw", 1000),
         Tag(5, 2, "bool", "big-endian", "ro", 1000),
         Tag(5, 10001, "bool", "big-endian", "rw", 1000) >> }

\* Two blocks of two tags that start at one register, at two scan rates
MCSharedStart ==
    { << Tag(5, 40001, "uint16", "big-endian", "ro", 500),
         Tag(5, 40001, "int16", "byte-swap", "ro", 1000),
         Tag(5, 40002, "uint16", "big-endian", "ro", 500),
         Tag(5, 40002, "int16", "big-endian", "ro", 1000) >> }

MCLayouts == MCDistinctLayouts \cup MCSharedStart

\* Types whose registers the read bridge does not combine
MCOtherLayouts ==
    { << Tag(5, 40001, type, "big-endian", "rw", 1000) >> : type \in {"int64", "bcd"} }

Device(blockReads, maxBlockSize, maxGap, scanMode, rate) ==
    [blockReads |-> blockReads, maxBlockSize |-> maxBlockSize, maxGap |-> maxGap,
     scanMode |-> scanMode, scanModeRateMs |-> rate]

MCTried == { Device(TRUE, NONE, NONE, "respect-tag", NONE),
             Device(TRUE, 2, 0, "respect-device", 20),
             Device(TRUE, 3, 1, "respect-device", 50),
             Device(FALSE, NONE, NONE, "respect-tag", NONE) }

MCCellValues == {1, 65280}

MCWrites == [ bool |-> {<<0>>, <<1>>}, int16 |-> {<<-2>>, <<40000>>},
               uint16 |-> {<<258>>}, uint32 |-> {<<1, 2, 3, 4>>},
               float32 |-> {<<63, 128, 0, 1>>},
               int64 |-> {<<0, 0, 0, 0, 0, 0, 1, 2>>}, bcd |-> {<<1234>>} ]
=============================================================================
