---------------------------- MODULE MCServerCore ----------------------------
(* One device, two tags, two addresses and a configuration no read is       *)
(* generated for: edits move a tag between the addresses and out of reach.  *)
EXTENDS ServerCore, TLC

CONSTANTS t1, t2, d1, atA, atB, timeout, none, noError

Unscaled == [enabled |-> FALSE, type |-> "linear", rawMin |-> 0, rawMax |-> 100,
             engMin |-> 0, engMax |-> 100,
             clampLow |-> FALSE, clampHigh |-> FALSE, negate |-> FALSE]
Row(deadband) == [device |-> d1, ro |-> FALSE, deadband |-> deadband,
                  scaling |-> Unscaled, dataType |-> "string"]

\* The three rows only have to differ: they do in their deadband, which plays
\* no part for words.
MCConfigs == {Row(0), Row(1), Row(2)}
MCReads == Row(0) :> atA @@ Row(1) :> atB @@ Row(2) :> none

MCTags == {t1, t2}
MCDevices == {d1}
MCErrors == {timeout}
MCWords == {atA, atB}
=============================================================================
