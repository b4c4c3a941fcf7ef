--------------------------------- MODULE Csv ---------------------------------
(***************************************************************************)
(* The CSV syntax of tag files (core/src/transfer.ts): how fields are       *)
(* quoted and how a text is parsed, one turn of the loop at a time.  A text *)
(* is a sequence of characters, each standing for those treated alike.      *)
(***************************************************************************)
EXTENDS Naturals, Sequences, SequencesExt

CONSTANT Tables  \* the tables written: sequences of rows of fields of characters

Chars == {"a", " ", "=", ",", "quote", "cr", "lf"}

\* A row has a field for every column.
ASSUME TablesAssumption == Tables \subseteq Seq(Seq(Seq(Chars)) \ {<<>>})

\* csvEscape: formulas get an apostrophe, special fields are quoted.
Neutralized(f) == IF f # <<>> /\ Head(f) \in {"=", "cr"} THEN <<"'">> \o f ELSE f

\* Fault: a carriage return needs no quotes.
FaultMustQuote(f) == \E i \in DOMAIN f : f[i] \in {"quote", ",", "lf"}

MustQuote(f) == \E i \in DOMAIN f : f[i] \in {"quote", ",", "cr", "lf"}
Escaped(f) ==
    LET n == Neutralized(f)
    IN  IF MustQuote(n)
        THEN <<"quote">> \o FlattenSeq([i \in DOMAIN n |->
                               IF n[i] = "quote" THEN <<"quote", "quote">> ELSE <<n[i]>>]) \o <<"quote">>
        ELSE n

\* tagsToCsv: fields joined by commas, every row ended by CR LF.  Spreadsheets save
\* such a file with their own line ends.
LineEnds == {<<"cr", "lf">>, <<"lf">>, <<"cr">>}
Joined(r) == FlattenSeq([i \in DOMAIN r |-> (IF i = 1 THEN <<>> ELSE <<",">>) \o Escaped(r[i])])
Written(tab, end) == FlattenSeq([i \in DOMAIN tab |-> Joined(tab[i]) \o end])

VARIABLES
    table,     \* the table the text was written from
    text, pos, \* the text and the next position
    inQuotes, field, line, lines,
    done       \* parseCsvRows has returned

csvVars == <<table, text, pos, inQuotes, field, line, lines, done>>

Blank(r) == \A i \in DOMAIN r : \A j \in DOMAIN r[i] : r[i][j] \in {" ", "cr", "lf"}
WithoutBlank(rows) == SelectSeq(rows, LAMBDA r : ~Blank(r))

CsvInit ==
    /\ table \in Tables
    /\ \E end \in LineEnds : text = Written(table, end)
    /\ pos = 1
    /\ inQuotes = FALSE
    /\ field = <<>> /\ line = <<>> /\ lines = <<>>
    /\ done = FALSE

At(i) == IF i <= Len(text) THEN text[i] ELSE "end"

\* Inside quotes: a doubled quote is one, a single one ends the quoting.
Quoted ==
    /\ inQuotes
    /\ IF At(pos) # "quote"
       THEN field' = Append(field, At(pos)) /\ pos' = pos + 1 /\ UNCHANGED inQuotes
       ELSE IF At(pos + 1) = "quote"
       THEN field' = Append(field, "quote") /\ pos' = pos + 2 /\ UNCHANGED inQuotes
       ELSE inQuotes' = FALSE /\ pos' = pos + 1 /\ UNCHANGED field
    /\ UNCHANGED <<line, lines>>

LineEnd == IF At(pos) = "cr" /\ At(pos + 1) = "lf" THEN 2 ELSE 1

Plain ==
    /\ ~inQuotes
    /\ \/ /\ At(pos) = "quote"
          /\ inQuotes' = TRUE /\ pos' = pos + 1
          /\ UNCHANGED <<field, line, lines>>
       \/ /\ At(pos) = ","
          /\ line' = Append(line, field) /\ field' = <<>> /\ pos' = pos + 1
          /\ UNCHANGED <<inQuotes, lines>>
       \/ /\ At(pos) \in {"cr", "lf"}
          /\ lines' = Append(lines, Append(line, field))
          /\ line' = <<>> /\ field' = <<>> /\ pos' = pos + LineEnd
          /\ UNCHANGED inQuotes
       \/ /\ At(pos) \notin {"quote", ",", "cr", "lf"}
          /\ field' = Append(field, At(pos)) /\ pos' = pos + 1
          /\ UNCHANGED <<inQuotes, line, lines>>

Scan == pos <= Len(text) /\ ~done /\ (Quoted \/ Plain) /\ UNCHANGED <<table, text, done>>

\* The rest is a last row; blank rows are dropped.
Finish ==
    /\ pos > Len(text) /\ ~done
    /\ LET all == IF field # <<>> \/ line # <<>> THEN Append(lines, Append(line, field)) ELSE lines
       IN  lines' = WithoutBlank(all)
    /\ done' = TRUE
    /\ UNCHANGED <<table, text, pos, inQuotes, field, line>>

CsvNext == Scan \/ Finish
CsvSpec == CsvInit /\ [][CsvNext]_csvVars

-----------------------------------------------------------------------------
\* The parser's own state; nothing is read past the end of the text.
CsvTypeOK ==
    /\ pos \in 1..(Len(text) + 1)
    /\ {inQuotes, done} \subseteq BOOLEAN
    /\ field \in Seq(Chars \union {"'"})
    /\ line \in Seq(Seq(Chars \union {"'"}))

\* Reading back what was written gives the table, formulas neutralized, without its
\* blank rows.
ParseInvertsWrite ==
    done =>
        lines = WithoutBlank([i \in DOMAIN table |-> [j \in DOMAIN table[i] |-> Neutralized(table[i][j])]])
=============================================================================
