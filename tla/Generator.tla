------------------------------ MODULE Generator ------------------------------
(* The generator (generator/src/main.rs) makes three things of a CSV file:   *)
(* the blocks of a table for the disk, the statistics of its columns, and a  *)
(* table of SQLite that says what queries should return.  Each has a pass of *)
(* its own over the lines, and the database is right only if all three are   *)
(* about the same rows.                                                      *)
EXTENDS ColumnStats, RowBlocks

CONSTANTS Fields,           \* what a line may have between its delimiters: what it
                            \* parses to in its column, or a string if it does not
          Tables,           \* lists of lines; a line is the sequence of its fields
          Columns,          \* the schema: a sequence of types
          rows_per_batch,   \* rows of an INSERT statement
          Quote,            \* the byte of a double quote
          Reread            \* by Float32: the Float64 that SQLite reads in its text

ASSUME GeneratorAssumption ==
    /\ rows_per_batch \in Nat \ {0}
    /\ Columns \in Seq(DataTypes) \ {<<>>}
    /\ \A x \in Fields : \E type \in DataTypes : x \in Data(type)
    /\ Tables \subseteq Seq(Seq(Fields))
    /\ \A table \in Tables : \A n \in DOMAIN table : \A c \in DOMAIN table[n] \cap DOMAIN Columns :
           table[n][c].type \in {Columns[c], "String"}

\* A float that is a number and not a NaN or an infinity.
Finite(x) == x.type \in Floating => x.mag < Infinity(x.type)

Distance(x, y) == LET d == Exact(x) - Exact(y) IN IF d < 0 THEN 0 - d ELSE d

\* No number of the type of x is nearer to y than x is.
RoundsTo(y, x) == \A z \in Data(x.type) : Finite(z) => Distance(y, x) <= Distance(y, z)

\* The shortest decimal that is read as a Float32 again is seldom its exact value.
ASSUME SqlAssumption ==
    /\ Quote \in 1 .. ByteBase - 1
    /\ \A x \in Data("Float32") :
           Finite(x) /\ x.mag # 0 =>
               Reread[x] \in Data("Float64") /\ Finite(Reread[x]) /\ RoundsTo(Reread[x], x)

VARIABLES lines,
          pass,             \* "Disk", "Stats", "Sqlite", "Done", "Bailed" or "Panicked"
          line_no,          \* lines this pass has taken
          file, buf,        \* the blocks written, and the one that is filled
          stats,            \* the StatsGenerator of each column
          column_specs,     \* the statistics that were built
          batch,            \* rows of the statement
          sqlite            \* the values of the rows that SQLite has

disk_vars == <<file, buf>>
stats_vars == <<stats, column_specs>>
sqlite_vars == <<batch, sqlite>>
vars == <<lines, pass, line_no, disk_vars, stats_vars, sqlite_vars>>

Init == /\ lines \in Tables
        /\ pass = "Disk" /\ line_no = 0
        /\ file = <<>> /\ buf = EmptyBlock
        /\ stats = [c \in DOMAIN Columns |-> StatsGenerator] /\ column_specs = <<>>
        /\ batch = <<>> /\ sqlite = <<>>
-----------------------------------------------------------------------------
(* RowStreamGenerator::next.  Every field of a line is followed by a "|".    *)
EmptyText == [type |-> "String", bytes |-> <<>>]

\* trim_end_matches('|') takes the fields at the end that are empty with it.
Texts(line) ==
    LET filled == {i \in DOMAIN line : line[i].type = "String" => line[i].bytes # <<>>}
    IN  IF filled = {} THEN <<EmptyText>> ELSE SubSeq(line, 1, Max(filled))

\* zip stops with the shorter of the texts and the columns.
Elements(line) == SubSeq(Texts(line), 1, Min({Len(Texts(line)), Len(Columns)}))

\* A line that is blank or too short ends the stream, as the end of the file does.
IsRow(line) == line # <<>> /\ Len(Elements(line)) = Len(Columns)

\* parse().unwrap(): text in a column of numbers.
Unparsable(line) ==
    line # <<>> /\ \E c \in DOMAIN Elements(line) : Elements(line)[c].type # Columns[c]

HasLine == line_no < Len(lines)
Line == lines[line_no + 1]
NextIsRow == HasLine /\ ~Unparsable(Line) /\ IsRow(Line)
NextIsNone == HasLine => ~Unparsable(Line) /\ ~IsRow(Line)

find_row_size(elements) ==
    FoldLeft(LAMBDA size, x : size + (IF x.type = "String" THEN Len(x.bytes) + 1
                                      ELSE NumberBytes[x.type]), 0, elements)

Row(n) == [id |-> n, cols |-> Elements(lines[n]), len |-> find_row_size(Elements(lines[n]))]
TheRow == Row(line_no + 1)

\* A pass panics on a line it cannot parse, or when it sorts what has no order.
Panic == /\ \/ pass \in {"Disk", "Stats", "Sqlite"} /\ HasLine /\ Unparsable(Line)
            \/ /\ pass = "Stats" /\ NextIsNone
               /\ \E c \in DOMAIN Columns : SortMayPanic(stats[c].reservoir)
         /\ pass' = "Panicked"
         /\ UNCHANGED <<lines, line_no, disk_vars, stats_vars, sqlite_vars>>

\* The next pass begins with the first line.
Begin(next) == pass' = next /\ line_no' = 0
-----------------------------------------------------------------------------
(* create_bin_file and create_disk_config.                                   *)

\* write_row copies into the buffer, and may run into the counter at its end.
WithinBuffer(block, row) == offset(block) + row.len <= BlockSize

\* save_row_stream_to_file: a row that does not fit goes to the next block,
\* whether it fits that or not.
SaveRow ==
    /\ pass = "Disk" /\ NextIsRow
    /\ LET full == offset(buf) + TheRow.len > usable
           current == IF full THEN EmptyBlock ELSE buf
       IN  /\ file' = IF full THEN Append(file, buf) ELSE file
           /\ IF WithinBuffer(current, TheRow)
              THEN buf' = AddRow(current, TheRow) /\ line_no' = line_no + 1 /\ UNCHANGED pass
              ELSE pass' = "Panicked" /\ UNCHANGED <<buf, line_no>>
    /\ UNCHANGED <<lines, stats_vars, sqlite_vars>>

\* A variant of WithLastBlock that writes full blocks only.
FullBlocksOnly == file

WithLastBlock == IF buf.row_count > 0 THEN Append(file, buf) ELSE file

\* validate_disk_simulation_config refuses a file that is empty.
IsValid(blocks) == blocks # <<>>

CloseFile ==
    /\ pass = "Disk" /\ NextIsNone
    /\ file' = WithLastBlock
    /\ IF IsValid(file') THEN Begin("Stats") ELSE pass' = "Bailed" /\ UNCHANGED line_no
    /\ UNCHANGED <<lines, buf, stats_vars, sqlite_vars>>
-----------------------------------------------------------------------------
(* generate_db_config.                                                       *)

\* Random numbers that replace nothing are all the same.
Draws(c) == 0 .. Min({stats[c].total_count, reservoir_capacity})

UpdateStats ==
    /\ pass = "Stats" /\ NextIsRow
    /\ \E draws \in [DOMAIN Columns -> 0 .. reservoir_capacity] :
        /\ \A c \in DOMAIN Columns :
               IF Len(stats[c].reservoir) < reservoir_capacity THEN draws[c] = 0
               ELSE draws[c] \in Draws(c)
        /\ stats' = [c \in DOMAIN Columns |-> update(stats[c], TheRow.cols[c], draws[c])]
    /\ line_no' = line_no + 1
    /\ UNCHANGED <<lines, pass, disk_vars, column_specs, sqlite_vars>>

BuildStats ==
    /\ pass = "Stats" /\ NextIsNone
    /\ \E sorted \in [DOMAIN Columns ->
                         UNION {Sortings(stats[c].reservoir) : c \in DOMAIN Columns}],
         count \in [DOMAIN Columns -> UNION {UniqueCounts(stats[c]) : c \in DOMAIN Columns}] :
        /\ \A c \in DOMAIN Columns : /\ sorted[c] \in Sortings(stats[c].reservoir)
                                     /\ count[c] \in UniqueCounts(stats[c])
        /\ column_specs' = [c \in DOMAIN Columns |-> build(stats[c], sorted[c], count[c])]
    /\ Begin("Sqlite")
    /\ UNCHANGED <<lines, disk_vars, stats, sqlite_vars>>
-----------------------------------------------------------------------------
(* generate_sqlite: a row becomes the text of an INSERT, and SQLite reads it. *)

\* What SQLite stores for the text of a value.  Either zero becomes a zero without
\* a sign: "-0" is an integer.  A decimal is read as the nearest Float64.
SqlValue(x) ==
    CASE x.type \in Floating /\ x.mag = 0 -> [type |-> "Float64", neg |-> FALSE, mag |-> 0]
      [] x.type = "Float32" /\ x.mag # 0   -> Reread[x]
      [] OTHER                             -> x

SqlRow(row) == [c \in DOMAIN row.cols |-> SqlValue(row.cols[c])]

\* "NaN" and "inf" are no numbers of SQL, and a NUL ends the text inside a string.
IsSql(row) == \A c \in DOMAIN row.cols : Finite(row.cols[c]) /\ ~HasNul(row.cols[c])

\* Strings are put between double quotes; those in them are left as they are.
HasQuote(row) ==
    \E c \in DOMAIN row.cols : row.cols[c].type = "String" /\ Quote \in ToSet(row.cols[c].bytes)

\* Stands for the rows, of whatever number and values, that a statement inserts
\* when a quote in it ends a string too early.
Misread == <<>>

\* An INSERT of these rows, or the error that ends the generator.
Execute(rows, next) ==
    \/ /\ \A i \in DOMAIN rows : IsSql(rows[i]) /\ ~HasQuote(rows[i])
       /\ sqlite' = sqlite \o [i \in DOMAIN rows |-> SqlRow(rows[i])] /\ pass' = next
    \/ /\ \E i \in DOMAIN rows : HasQuote(rows[i])
       /\ sqlite' = Append(sqlite, Misread) /\ pass' = next
    \/ /\ \E i \in DOMAIN rows : ~IsSql(rows[i]) \/ HasQuote(rows[i])
       /\ pass' = "Bailed" /\ UNCHANGED sqlite

InsertRow ==
    /\ pass = "Sqlite" /\ NextIsRow
    /\ IF Len(batch) + 1 >= rows_per_batch
       THEN Execute(Append(batch, TheRow), pass) /\ batch' = <<>>
       ELSE batch' = Append(batch, TheRow) /\ UNCHANGED <<sqlite, pass>>
    /\ line_no' = line_no + 1
    /\ UNCHANGED <<lines, disk_vars, stats_vars>>

CloseSqlite ==
    /\ pass = "Sqlite" /\ NextIsNone
    /\ Execute(batch, "Done")
    /\ UNCHANGED <<lines, line_no, batch, disk_vars, stats_vars>>

Stopped == pass \in {"Done", "Bailed", "Panicked"} /\ UNCHANGED vars

Next == \/ Panic \/ SaveRow \/ CloseFile \/ UpdateStats \/ BuildStats
        \/ InsertRow \/ CloseSqlite \/ Stopped

Spec == Init /\ [][Next]_vars
-----------------------------------------------------------------------------
\* The rows of a table: its lines up to the first that is none.
RowsOfTable ==
    LET ends == {n \in DOMAIN lines : ~IsRow(lines[n])} \cup {Len(lines) + 1}
    IN  [n \in 1 .. Min(ends) - 1 |-> Row(n)]

Unquoted == \A n \in DOMAIN RowsOfTable : ~HasQuote(RowsOfTable[n])

\* A value of SQLite from which the value on the disk is recovered, but for the
\* sign of zero: the same string, or a number that rounds to it in its type.
StandsFor(y, x) ==
    /\ Finite(x) /\ ~HasNul(x)
    /\ IF x.type = "String" THEN y = x
       ELSE Numeric(y) /\ Finite(y) /\ RoundsTo(y, x)

\* When the generator is done, the statistics count the rows of the table; and if
\* none of its strings has a quote, SQLite has these rows, in this order and each
\* value up to its conversion, and the database reads exactly them from its disk,
\* if each fits a block.  A quote in a string makes another statement of an INSERT:
\* nothing is said of such a table, for SQLite may then have any rows.
OutputsAgree ==
    pass = "Done" =>
        /\ \A c \in DOMAIN Columns : stats[c].total_count = Len(RowsOfTable)
        /\ Unquoted =>
               /\ Len(sqlite) = Len(RowsOfTable)
               /\ \A n \in DOMAIN RowsOfTable : \A c \in DOMAIN Columns :
                      StandsFor(sqlite[n][c], RowsOfTable[n].cols[c])
               /\ Packable(RowsOfTable) => DecodeBlocks(file) = RowsOfTable

Column(c, n) == [i \in 1 .. n |-> Elements(lines[i])[c]]

\* While the statistics are gathered, they describe the values seen so far of
\* every column that has no NaN; and a table with which the generator is done
\* has none, because SQLite has refused it, so that they describe every column,
\* unless a quote in a string hides the NaN from SQLite.
StatsDescribeColumn ==
    /\ pass = "Stats" =>
           \A c \in DOMAIN Columns :
               Comparable(Column(c, line_no)) => Describes(stats[c], Column(c, line_no))
    /\ pass = "Done" /\ Unquoted =>
           \A c \in DOMAIN Columns : Describes(stats[c], Column(c, Len(RowsOfTable)))

\* The histogram of such a column summarises the sample that was taken, and that
\* is the whole column when it is not larger than the reservoir.
HistogramCoversSample ==
    \A c \in DOMAIN column_specs : \A k \in DOMAIN column_specs[c] :
        column_specs[c][k].kind = "Histogram" /\ Comparable(stats[c].reservoir) =>
            Summarises(column_specs[c][k].frequency_points, stats[c].reservoir,
                       stats[c].total_count)
=============================================================================
