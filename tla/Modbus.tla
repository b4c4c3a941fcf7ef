------------------------------- MODULE Modbus -------------------------------
(***************************************************************************)
(* One Modbus device: the reads and writes the flow generator plans for    *)
(* its tags (packages/drivers/src/flow-gen.ts, modbus-address.ts), the     *)
(* bridges between them and the engine (drivers/nodered/odi-tag-in.js,     *)
(* odi-tag-out.js), and the device's memory.                               *)
(*                                                                         *)
(* A tag is its place in the list the store returns.  `held` is value and  *)
(* quality the engine has of a tag whose scaling is disabled; what the     *)
(* engine does beyond that is TagEngine.                                   *)
(***************************************************************************)
EXTENDS Registers, SequencesExt, FiniteSetsExt

CONSTANTS
    Layouts,    \* the tag lists to try: sequences of tag configurations
    TriedSettings, \* the device settings to try
    MaxOffset,  \* bound: the device has the registers 0 .. MaxOffset of each table
    CellValues, \* what the device may put in a register by itself
    Writes,     \* the values clients write, by data type
    NONE        \* no value, no setting

Tables == {"coil", "discrete", "input", "holding"}

TagConfigs == [digits : {5, 6}, address : Nat, dataType : STRING, byteOrder : Orders,
               access : {"ro", "rw"}, scanRateMs : Nat]

DeviceSettings == [blockReads : BOOLEAN, maxBlockSize : Int \cup {NONE},
                   maxGap : Int \cup {NONE}, scanMode : {"respect-tag", "respect-device"},
                   scanModeRateMs : Int \cup {NONE}]

ASSUME LayoutAssumption ==
    /\ Layouts \subseteq Seq(TagConfigs)
    /\ TriedSettings \subseteq DeviceSettings
    /\ MaxOffset \in Nat /\ CellValues \subseteq Word

VARIABLES
    layout,     \* the tags of the device
    device,     \* its settings
    memory,     \* table -> offset -> register (0 or 1 for coils)
    held,       \* tag -> value and quality in the engine
    written     \* ghost: tag -> the value last written, until something else changes it

modbusVars == <<layout, device, memory, held, written>>

TagIds == DOMAIN layout

-----------------------------------------------------------------------------
(* Addresses. *)

\* parseModbusAddress: the first digit names the table, the rest is one-based.
Base(tag) == IF tag.digits = 6 THEN 100000 ELSE 10000
OffsetOf(tag) == (tag.address % Base(tag)) - 1
TableOf(tag) ==
    LET prefix == tag.address \div Base(tag)
    IN  CASE prefix = 0 -> "coil" [] prefix = 1 -> "discrete"
          [] prefix = 3 -> "input" [] prefix = 4 -> "holding" [] OTHER -> NONE
Parse(tag) ==
    LET table == TableOf(tag)
        offset == OffsetOf(tag)
    IN  [valid |-> table # NONE /\ offset \in Word, table |-> table, offset |-> offset,
         count |-> IF table \in {"coil", "discrete"} THEN 1 ELSE RegistersFor(tag.dataType)]

Parsed(t) == Parse(layout[t])
ValidTags == {t \in TagIds : Parsed(t).valid}

\* The registers of a tag.
CellsOf(t) == {<<Parsed(t).table, Parsed(t).offset + i>> : i \in 0 .. Parsed(t).count - 1}

-----------------------------------------------------------------------------
(* The plan: which requests read which tags. *)

Largest(a, b) == IF a > b THEN a ELSE b
Setting(value, default) == IF value = NONE THEN default ELSE value

\* effectiveScanRateMs
Rate(t) ==
    IF device.scanMode = "respect-device"
      THEN IF device.scanModeRateMs # NONE /\ device.scanModeRateMs >= 50
             THEN device.scanModeRateMs ELSE 1000
      ELSE layout[t].scanRateMs

\* blockReadOptions and PROTOCOL_MAX_QUANTITY
MaxGap == Largest(0, Setting(device.maxGap, 8))
Limit(table) ==
    LET own == Largest(1, Setting(device.maxBlockSize, 120))
        protocol == IF table \in {"coil", "discrete"} THEN 2000 ELSE 125
    IN  IF own < protocol THEN own ELSE protocol

\* Fault: the size limit is applied to the part before the new member.
FitsBeforeGrowing(block, t) ==
    LET p == Parsed(t)
    IN  /\ device.blockReads
        /\ Largest(0, p.offset - block.end) <= MaxGap
        /\ block.end - block.start <= Limit(block.table)

Fits(block, t) ==
    LET p == Parsed(t)
    IN  /\ device.blockReads
        /\ Largest(0, p.offset - block.end) <= MaxGap
        /\ Largest(block.end, p.offset + p.count) - block.start <= Limit(block.table)

\* One step of groupTagsIntoBlocks: the tag extends the last block or opens one.
Place(blocks, t) ==
    LET p == Parsed(t)
        last == blocks[Len(blocks)]
    IN  IF blocks # <<>> /\ Fits(last, t)
          THEN [blocks EXCEPT ![Len(blocks)] =
                  [last EXCEPT !.end = Largest(last.end, p.offset + p.count),
                               !.members = Append(@, t)]]
          ELSE Append(blocks, [table |-> p.table, rate |-> Rate(t), start |-> p.offset,
                               end |-> p.offset + p.count, members |-> <<t>>])

\* sort() is stable: tags of one offset stay in the order of the list.
Before(a, b) ==
    LET p == Parsed(a)
        q == Parsed(b)
    IN  \/ p.offset < q.offset
        \/ p.offset = q.offset /\ a < b

\* The tags of one table and scan rate, sorted.
GroupTags(table, rate) == {t \in ValidTags : Parsed(t).table = table /\ Rate(t) = rate}
Sorted(tags) ==
    CHOOSE s \in [1 .. Cardinality(tags) -> tags] :
        ToSet(s) = tags /\ \A i, j \in DOMAIN s : i < j => Before(s[i], s[j])

\* groupTagsIntoBlocks: the blocks after each tag of a group.
Grouping(group) ==
    LET blocks[i \in 0 .. Len(group)] ==
            IF i = 0 THEN <<>> ELSE Place(blocks[i - 1], group[i])
    IN  blocks

\* The blocks read from the device.  Blocks of two scan rates that start at one register
\* have one node id (flow-gen.ts:19-21, 275), of which Node-RED keeps one: which, is left
\* open, as any block is read at any time.
BlocksOf(table, rate) ==
    LET group == Sorted(GroupTags(table, rate))
    IN  ToSet(Grouping(group)[Len(group)])
Blocks == UNION {BlocksOf(table, rate) : table \in Tables, rate \in {Rate(t) : t \in ValidTags}}

-----------------------------------------------------------------------------
(* Reads. *)

DecodedTypes == {"int16", "uint16", "int32", "uint32", "float32", "float64"}

\* Fault: a member slices its registers at its own offset, not the block's.
SliceAtOffset(answer, block, t) ==
    LET from == Parsed(t).offset
    IN  IF Len(block.members) = 1 THEN answer
        ELSE SubSeq(answer, from + 1,
                    IF from + Parsed(t).count < Len(answer)
                      THEN from + Parsed(t).count ELSE Len(answer))

\* payload.slice(blockOffset, blockOffset + blockCount); the bridge of a single
\* tag takes the whole answer.
Slice(answer, block, t) ==
    LET from == Parsed(t).offset - block.start
    IN  IF Len(block.members) = 1 THEN answer
        ELSE SubSeq(answer, from + 1,
                    IF from + Parsed(t).count < Len(answer)
                      THEN from + Parsed(t).count ELSE Len(answer))

\* extractValue
Extract(registers, type, order) ==
    IF type \in DecodedTypes THEN CombineRegisters(registers, type, order)
    ELSE <<registers[1]>>

\* What odi-tag-in makes of its registers: none is a bad read, and too few for
\* the type throw in the Buffer and leave the tag alone.
BridgeIn(t, registers) ==
    IF registers = <<>> THEN [held[t] EXCEPT !.quality = "bad"]
    ELSE IF layout[t].dataType \in DecodedTypes /\ ~ Readable(registers, layout[t].dataType)
      THEN held[t]
    ELSE [value |-> Extract(registers, layout[t].dataType, layout[t].byteOrder),
          quality |-> "good"]

\* The device answers a request for registers it has, in full or with fewer.
ReadBlock(block, length) ==
    /\ block.end <= MaxOffset + 1
    /\ length <= block.end - block.start
    /\ LET answer == [i \in 1 .. length |-> memory[block.table][block.start + i - 1]]
       IN  held' = [t \in TagIds |->
                       IF Contains(block.members, t)
                         THEN BridgeIn(t, Slice(answer, block, t)) ELSE held[t]]
    /\ UNCHANGED <<layout, device, memory, written>>

\* An exception answers: it reaches the bridges as msg.error, and once more
\* through the catch node of the block.
ReadFails(block) ==
    /\ held' = [t \in TagIds |->
                   IF Contains(block.members, t)
                     THEN [held[t] EXCEPT !.quality = "bad"] ELSE held[t]]
    /\ UNCHANGED <<layout, device, memory, written>>

\* The status node of the client reports a lost connection.
LinkLost ==
    /\ ValidTags # {}
    /\ held' = [t \in TagIds |-> [held[t] EXCEPT !.quality = "bad"]]
    /\ UNCHANGED <<layout, device, memory, written>>

-----------------------------------------------------------------------------
(* Writes. *)

EncodedTypes == BinaryTypes \cup BcdTypes

\* Fault: registers are written in the order of the value's bytes.
EncodeInOrder(t, value) ==
    IF layout[t].dataType = "bool" THEN <<IF value[1] = 0 THEN 0 ELSE 1>>
    ELSE IF layout[t].dataType \in EncodedTypes
      THEN SplitRegisters(value, layout[t].dataType, "big-endian")
    ELSE value

\* encodeValue: a string is passed on as it is.
Encode(t, value) ==
    IF layout[t].dataType = "bool" THEN <<IF value[1] = 0 THEN 0 ELSE 1>>
    ELSE IF layout[t].dataType \in EncodedTypes
      THEN SplitRegisters(value, layout[t].dataType, layout[t].byteOrder)
    ELSE value

\* The ghost of the tags that hold any of the cells is forgotten.
Forgotten(cells) ==
    [t \in TagIds |-> IF CellsOf(t) \cap cells = {} THEN written[t] ELSE NONE]

\* The tags that get a write node.
WritableTags == {t \in ValidTags : /\ layout[t].access = "rw"
                                   /\ Parsed(t).table \in {"coil", "holding"}}

\* A client writes.  A value the Buffer rejects is not sent, one for registers the
\* device does not have is refused by it; modbus-write is assumed to write what
\* it is given, in one request.
WriteTag(t, value) ==
    /\ t \in WritableTags /\ Parsed(t).offset + Parsed(t).count <= MaxOffset + 1
    /\ Writable(value, layout[t].dataType)
    /\ LET p == Parsed(t)
           registers == Encode(t, value)
       IN  memory' = [memory EXCEPT ![p.table] =
                        [o \in 0 .. MaxOffset |->
                           IF o - p.offset + 1 \in 1 .. Len(registers)
                             THEN registers[o - p.offset + 1] ELSE @[o]]]
    /\ written' = [Forgotten(CellsOf(t)) EXCEPT ![t] = value]
    /\ UNCHANGED <<layout, device, held>>

\* The device changes a register by itself.
DeviceSets(table, offset, value) ==
    /\ table \in {"coil", "discrete"} => value \in {0, 1}
    /\ memory' = [memory EXCEPT ![table][offset] = value]
    /\ written' = Forgotten({<<table, offset>>})
    /\ UNCHANGED <<layout, device, held>>

-----------------------------------------------------------------------------

ModbusInit ==
    /\ layout \in Layouts
    /\ device \in TriedSettings
    /\ memory = [table \in Tables |-> [o \in 0 .. MaxOffset |-> 0]]
    /\ held = [t \in TagIds |-> [value |-> NONE, quality |-> "bad"]]
    /\ written = [t \in TagIds |-> NONE]

ModbusNext ==
    \/ \E block \in Blocks : \/ \E n \in 0 .. block.end - block.start : ReadBlock(block, n)
                             \/ ReadFails(block)
    \/ LinkLost
    \/ \E t \in TagIds : \E value \in Writes[layout[t].dataType] : WriteTag(t, value)
    \/ \E cell \in UNION {CellsOf(t) : t \in ValidTags}, value \in CellValues :
         DeviceSets(cell[1], cell[2], value)

ModbusSpec == ModbusInit /\ [][ModbusNext]_modbusVars

-----------------------------------------------------------------------------
(* Properties. *)

\* Registers hold 16 bits and coils one; a tag that was never read is bad.
ModbusTypeOK ==
    /\ \A table \in Tables, o \in 0 .. MaxOffset :
         memory[table][o] \in IF table \in {"coil", "discrete"} THEN {0, 1} ELSE Word
    /\ \A t \in TagIds : /\ held[t].quality \in {"good", "bad"}
                         /\ held[t].value = NONE => held[t].quality = "bad"

\* In the plan, every tag with a valid address is in exactly one block, inside its
\* span and at its own rate; a block of several tags keeps to the limits and
\* "multi-register values are never split" (flow-gen.ts:147-162).  That a
\* block gets its requests it does not say: of two that share a node id one does not.
PlanCoversTags ==
    LET blocks == Blocks
    IN  /\ \A t \in ValidTags : \E block \in blocks :
             /\ Contains(block.members, t)
             /\ \A other \in blocks : Contains(other.members, t) => other = block
             /\ block.table = Parsed(t).table /\ block.rate = Rate(t)
             /\ block.start <= Parsed(t).offset
             /\ Parsed(t).offset + Parsed(t).count <= block.end
        /\ \A block \in blocks : Len(block.members) > 1 =>
             /\ block.end - block.start <= Limit(block.table)
             /\ \A o \in block.start .. block.end - 1 : \E t \in ToSet(block.members) :
                  \E d \in 0 .. MaxGap : <<block.table, o + d>> \in CellsOf(t)

\* The registers of a tag in the device.
OwnRegisters(t) ==
    LET p == Parsed(t) IN [i \in 1 .. p.count |-> memory[p.table][p.offset + i - 1]]

\* A tag that gets a value gets what a read of its own registers alone would give,
\* whatever block it was read in and however short the answer was
\* (odi-tag-in.js:76-95).
ReadsAreDirect ==
    [][\A t \in TagIds : held'[t] # held[t] /\ held'[t].quality = "good" =>
         held'[t].value = Extract(OwnRegisters(t), layout[t].dataType, layout[t].byteOrder)
      ]_modbusVars

\* The tag lists whose values the read bridge combines, bit by bit or whole, and
\* writes that are values of their types once the Buffer takes them.
Storable(type, value) ==
    IF type = "bool" THEN value \in {<<0>>, <<1>>} ELSE value \in ValuesOf(type)
CombinedTypes ==
    \A l \in Layouts : \A i \in DOMAIN l :
      LET type == l[i].dataType
      IN  /\ type \in DecodedTypes \cup {"bool"}
          /\ TableOf(l[i]) = "coil" => type = "bool"
          /\ \A value \in Writes[type] : Writable(value, type) => Storable(type, value)

\* "Multi-register writes land on the wire exactly as the matching reads decode
\* them" (odi-tag-out.js:6-8): a tag that is read after a write shows what was
\* written, as long as nothing else changed its registers.
ReadsMatchWrites ==
    [][\A t \in TagIds :
         held'[t] # held[t] /\ held'[t].quality = "good" /\ written[t] # NONE
         => held'[t].value = written[t]]_modbusVars
=============================================================================
