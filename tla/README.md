# A formal model of the out-of-core query executor

The repository (`src/A3`) is a small database in Rust: an executor that answers
queries over tables larger than its memory limit, a process that simulates a
disk, a monitor that runs both and checks the answers, and a generator that
makes the tables and what is known about them. This directory holds TLA+
modules that model these parts, TLC configurations that check them on small
instances, and TLAPS proofs of what holds for all instances. All paths
below are relative to the repository; `executor/` is
`src/A3/database/src/executor/`.

    tlc -config MCSortOperator.cfg MCSortOperator.tla      # one run
    tlapm OperatorTreeProofs.tla                           # one proof module

`PROJECT.json` lists the runs, the source lines behind every definition
(`map`), the hazards the properties are for, one plausible bug for every
property that makes it fail (`mutants`), and the theorems.

## 1. The system

Three processes, connected by pipes. The **monitor** starts, for each query of
its suite, a **disk simulator** and a **database**, sends the database the
query, and compares the rows it prints with the expected ones. The database
reads tables from the simulator and writes what does not fit in memory to the
simulator's anonymous region.

| component | state | operations |
|---|---|---|
| monitor (`monitor/src/main.rs`) | query under way, its descriptors, rows read so far, the verdict | start processes, send query and memory limit, validate sorted or as printed, kill or wait, report |
| descriptor remapping (`monitor/src/fd_mapper.rs`) | the descriptor table of a child between fork and exec | `remap_fds`: move every end away, then to its number |
| database process (`database/src/main.rs`) | the step of its dialogue | read query, ask the limit, build the operator tree, print rows until `next()` returns `None`, print `!` |
| planner (`executor/mod.rs`) | none: a function of query and statistics | flatten filtered products, push predicates down, order and build joins, drop superfluous sorts |
| sort, cross, hash join (`executor/`) | buffers, ranges of spilled blocks, cursors | `new`, `next`: pull children, spill, read back, return a row |
| scan, filter, project | position in the file; none; none | `next`, `evaluate_predicate` |
| row layout (`database/src/row.rs`) | none | pack rows into blocks, unpack them |
| disk manager (`database/src/disk.rs`) | the allocator's cursor | allocate, read, write anonymous blocks; query the layout |
| disk simulator (`disk/src/disk_simulation`) | file layout, anonymous blocks, metrics | `get` and `put` commands on a pipe, until it ends |
| generator (`generator/src`) | lines read in this pass; the block that is filled; what is known of each column; the rows of a statement | write the blocks of a table, its statistics, its SQLite twin |
| tests_gen, demo printer | none | write queries and the rows expected of them |

How they interact: operators call each other (`Operator::next`, a pull model in
one thread) and share one `DiskManager`; database and simulator exchange
command lines, answer lines and raw blocks over two pipes; writes are not
acknowledged. Database and monitor exchange lines. A process learns of the end
of another only from its pipe, or by waiting for it; and what its pipe says
depends on which other process still has a copy of the other end. The generator
runs before all of them, once; the three things it makes of a CSV file meet
again only when the monitor compares rows.

What is hard here, and what would make each part correct:

- **Spilling.** A `Cross` remembers only the start and the number of its spilled
  blocks, while every other operator allocates from the same bump allocator:
  its batches must be adjacent whatever tree it is part of. `CONTEXT.md:107`
  doubts it ("Safe only if right child is `Filter(Scan)`"). No row may be lost
  on the way through buffers, runs, partitions and batch readers.
- **Two orders in one sort.** Runs are sorted by `compare_by_specs`, but merged
  by byte keys; the heap keeps a copy of a key beside the reader it came from.
- **Modes that change half-way.** A hash join starts in memory and may turn into
  a grace join, re-partitioning what it had.
- **Processes.** Either end may be blocked on a full pipe, the database may be
  killed or die at any point, a program may not start, and the others must still
  end, with the right verdict and with all I/O accounted for.
- **Descriptors.** The child of the monitor moves four pipe ends to the numbers
  3 to 6, which may be the very numbers they have, or those of each other; an
  end that is left open in the wrong process keeps a third one waiting.
- **Values.** Predicates, the runs of a sort, its merge and the keys of a join
  each compare values in a way of their own, over five types, zeros of both
  signs, NaNs, and integers that a float does not hold.
- **Three passes.** The disk, the statistics and the expected rows come from
  three readings of one file and must be about the same rows, whatever its
  lines are.
- **Planning.** Each predicate must be enforced at exactly the right place in a
  tree whose tables have been reordered; a sort may be dropped only if its
  input is in order.

## 2. The modules

| module | models | properties |
|---|---|---|
| `ResultStream` | what `Operator::next` promises: every row once, in order, then `None` | abstract specification |
| `RowBlocks`, `AnonDisk` | blocks of rows; allocator and block storage as one client sees them | operators used by the three below |
| `Values` | values, `data_cmp`, `data_eq`, `evaluate_predicate`, `DataKey` and `make_join_key`, with rounding to `f64` | operators used by the next four |
| `SortKeys`, `ValuePairs` | `compare_by_specs` and `encode_sort_key`, byte by byte; two rows that meet in a sort, a merge, a filter or a join | the comparisons agree, and with what the values are |
| `SortOperator` | `sort.rs` | conservation, heap, order, budgets, refinement of `ResultStream` |
| `CrossOperator` | `cross.rs` | spill and buffers, refinement |
| `HashJoin` | `hashjoin.rs` | partitions, table, budgets, refinement |
| `OperatorTree` | calls and allocations in a whole tree, construction included | adjacency of spills, no allocation after the first row |
| `JoinOrders` | `build_join_tree`: the order of the joins, their keys, the predicates left to filters | operators used by the next two |
| `Plans`, `Planner` | queries, plans, and what they return; `mod.rs` | plans return the rows of their query |
| `DiskSimulator`, `DiskSession` | the disk process; both ends of the protocol | layout, accounting, no induced failures, both processes end |
| `AtomicDisk` | a disk with atomic reads and writes | abstract specification of `DiskSession` |
| `RemapFds` | descriptor tables and `remap_fds`, call by call | every end gets to its place |
| `Session` | the monitor, its descriptors and pipes, the child up to exec, the database's dialogue, the disk's end | verdicts, the suite, processes, descriptors, termination |
| `ColumnStats` | `stats_generator.rs`: bounds, order, sample, distinct values, histogram | operators used by `Generator` |
| `Generator` | the three passes of `generator/src/main.rs` over the lines of a table | they agree, the statistics are right |
| `*Proofs` | theorems of `OperatorTree`, `JoinOrders` and `ResultStream`; of `DiskSimulator` and `DiskSession`; of `RemapFds` and `Session`; of `RowBlocks`, `CrossOperator`, `SortOperator`, `HashJoin`; in `ValueProofs`, of `Values`, `SortKeys`, `ValuePairs`, `ColumnStats` and `Generator` | |
| `MC*` | instances | |

How they fit together: `SortOperator`, `CrossOperator` and `HashJoin` each run
against an `AnonDisk`, one atomic disk. `DiskSession` justifies that: with two
processes and two pipes the disk is an `AtomicDisk` all the same (checked by
`disk_session`, proved as `SessionIsAtomicDisk`). Each of the
three lets a child allocate blocks only within the child's first call.
`OperatorTree` justifies that: `SettledCallsSettled`. Each refines
`ResultStream`, on which the children of the next operator rely: an operator's
inputs are any streams that end. `Session` extends `RemapFds`: the table of the
child is the one `remap_fds` works on, and its descriptors decide who can read
and write what. `Generator` writes blocks as `RowBlocks` reads them, and knows
columns by the comparisons of `Values`.

State and actions keep the names of the code. One action is one iteration of a
loop, or one exit of it: `SortOperator!Pull` is one turn of the loop in
`initialize`, with `flush_run` inside it when the buffer is full;
`CrossOperator!NextBlock` is one `load_right_block`; the `Construct` of
`OperatorTree` is one node built by `build_operator`; `Session!Remap` is one
iteration of a loop of `remap_fds`, `Session!ReadCommand` one line the monitor
reads. Where the code panics (a row too long for a block, text in a column of
numbers) the models have a state for it.

An invariant that only says which values the variables take is stated where a
proof starts from it: `TypeOK` in `OperatorTreeProofs`, `DataTypeOK` in
`SessionProofs`.

What is abstracted:

- A row is a record with an identity, a key, its encoded length `len` and its
  estimated size in memory `mem`; a block is the sequence of rows copied into it
  and the value of its u16 counter. Rows that overlap the counter decode to
  garbage, so that overfull blocks show. The bytes of values are kept only in
  `Values` and `SortKeys`, with bytes of a smaller base and shorter numbers;
  their floats have an exponent, subnormals, infinities and NaNs as those of the
  code have, and a mantissa of one or two bits. The base and the widths are
  constants, and the theorems hold for those of the code as well; so that they can
  be proved about, powers are a recursive function (`Power`), not the `^` of the
  library.
- The heap of the merge orders by key alone and is not stable: any entry with
  the least key may be popped. The order in which a `HashMap` is drained in the
  re-partitioning is any order.
- `HashJoin` takes rows that fit in a block (the assertion of `rows_to_blocks`,
  which `SortOperator` models); its hash is a constant operator.
- `OperatorTree` leaves out the rows: how many a call pulls, which buffers are
  flushed and when an input ends is open, so that it has more behaviours than
  the code.
- In `DiskSession` an item of a pipe is a line or a block, and buffering of
  standard output is kept because forgetting a flush would block both ends.
  `simulate_io_time` counts transfers, cylinders and rotations but not the
  nanoseconds they are turned into. Fixed layout queries before the first scan
  are made once. One scan is open at a time: operators call `DiskManager`
  one at a time, each call runs to its end, and every scan has its own position.
- In `Session` the disk serves until nobody can write to it, which is what
  `DiskSession` shows of it. A descriptor is a number, the end of a pipe it
  refers to and its close-on-exec flag; `pipe` hands out the lowest free
  numbers; `fork` copies the table and `exec` closes what is flagged. Either
  program may fail to start, and a database fails by any cause (panic, memory
  limit) at any step. Killing takes effect at once. The monitor itself is not
  killed. Three consequences of the code are in the model as they are: `dup2`
  to a temporary number may close the pipe on which the child reports a failing
  exec, so that the parent takes it for started and its verdict is an `Err`
  later; a disk whose database does not start is not waited for and ends
  because its input does; a database that is killed is not waited for either.
- `Generator` makes one table of two columns. Every field of a line is followed
  by a `|`; blanks at the end of a line and texts that look like numbers without
  being written as one are left out. A random draw is any number; a sort by an
  order that NaNs break leaves any order or panics. The registers of the HyperLogLog are
  abstracted to the set of what was hashed, its estimate to the size of that set
  give or take one. Frequencies are rounded down, as `as u64` does, from an exact
  quotient.
- The third pass prints rows as the text of an `INSERT`, and SQLite reads it
  again. `SqlValue` is what comes of a value: a minus zero is printed `-0` and
  becomes a zero without a sign, while the disk keeps the sign; the text of a
  Float32 is the shortest decimal that reads as that Float32, and SQLite reads it
  as some other Float64 that rounds back to it (the constant `Reread`, about
  which `SqlAssumption` says just this). NaN and infinities are printed as words
  that are no numbers of SQL, a NUL ends the text inside a string: the
  statement is refused and the generator ends (`Bailed`). Strings are put between
  double quotes and a quote in one is not escaped, so that the statement is
  another one, which SQLite refuses or which inserts some other rows, of any
  number: `Misread` stands for them. That SQLite reads a decimal as the nearest
  Float64, and these reactions to NaN, infinities, NUL and quotes, are assumed of
  SQLite, which is not part of the repository.

## 3. The runs

| run | instance | what it shows |
|---|---|---|
| `values` | rows of two columns of all five types over limits, zeros of both signs, infinities, NaNs, integers that `f64` rounds, strings with common prefixes; both directions of two-column sorts | the byte keys order rows as `compare_by_specs` does, unless a NaN or a minus zero is among them (both equal other values and have keys of their own), or a string with a NUL, at which its key ends; predicates decide by exact values, except that long integers are rounded for `EQ`, `NE` and across types, and even then no strict order is claimed in error; join keys agree with the filter within a type, for keys that are no NaN, minus zero or rounded integer |
| `values_join_keys` | an Int32 and an Int64 column of small integers | **finding**: see below |
| `sort` | every stream of up to 4 rows of 2 keys and 3 sizes, one too long for a block; no run, one or two, of 1 to 3 rows in 1 to 3 blocks (a run that is flushed by the budget has 2 or 3 rows); batches of 1 or 2 blocks; a child that spilled or not | no row lost, heap mirrors readers, budgets hold, blocks are written once, the output is the sorted stream and then ends |
| `cross` | up to 2 left and 5 right rows of 3 lengths; spills of 1 to 5 blocks in batches of 2, with a cache of up to 3 blocks or none | the spilled range holds the right rows, cursors and buffers agree with the disk, the output is the product in order |
| `cross_wide_rows` | rows up to two bytes too long | **finding**: see below |
| `hash_join` | up to 2 left and 3 right rows, 3 keys, 2 partitions, partition buffers flushed at the second row or later | joins in memory and grace joins return the matching pairs once each, within their budgets |
| `operator_tree` | every tree of up to 6 operators, up to 5 batches | spills are adjacent; nothing is allocated after the first row of the root; a join fills its table or its partitions while nothing above it or beside it has started |
| `planner` | 3 tables; every choice of up to 3 of 9 predicates; nested filters, products with repeated names; sorts over scans, filters, projections and joins; 8 combinations of statistics | plans keep rows and order, never make a product when equalities connect the tables, and never build in memory on the table they estimate to be the largest |
| `planner_renamed` | the same tables | **finding** |
| `disk_session` | files of 3, or of 0, 2 and 1 blocks; 2 writes of 1 or 2 blocks and a read back; pipes of one item; the client closes, or is killed anywhere | one atomic disk; nobody fails unless the database was killed; metrics complete; both sides end |
| `session` | 2 queries, the second disabled or not, both validations; results equal, permuted, too long, too short; pipes of 2 lines; a monitor started with 3, 4 or 6 open descriptors; either program may not start, the database may fail anywhere | every verdict is right, the suite is followed, no process and no descriptor is left, the database has its four ends and no others, the monitor and the disk end |
| `generator` | a column of Float32 and one of strings; every table of up to 4 lines over 3 ordinary ones (one of them with a number whose text SQLite reads as another) and at most one of 10 that are not (a NaN, a minus zero, a NUL or a quote in a string, a spare field, an empty last or first field, a blank line, a row as long as a block, a longer one); 2 rows per block, samples of 3 in 2 buckets, exact sets of 2, 2 rows per statement | the disk and the statistics have the same rows, and so has SQLite if no string has a quote, in the same order and each value up to what its SQL text keeps of it: strings are equal, a number rounds to the one on the disk, a minus zero loses its sign; bounds, order and numbers of distinct values are those of the column (numbers of distinct values without a minus zero, which the exact set takes for zero and the sketch does not); the histogram covers the sample |

Why the bounds are enough. In the three operators every branch depends on one
of a few comparisons: a buffer against its budget, a row against the rest of a
block, a cursor against the end of a batch, a run or a partition. The instances
have rows on both sides of each comparison and exactly at it, and enough rows
for every buffer to be flushed more than once and left partly filled. Trees of
six operators contain every operator above every other, on either side, with an
operator between them; the theorem below has no such bound. Three tables are the
least in which the greedy order can go wrong, and three predicates allow a key,
a key that closes a cycle, and a residual. Pipes of one item block most often, and
of two lines hold at least one line that a killed process has left behind. The
descriptors a monitor starts with are chosen so that sources and targets of the
remapping are apart, overlap, and leave or hit the pipe of a failing exec. Four
lines fill a block, a sample, an exact set and a statement, and go one over.

Fairness. The three operators assume `WF_vars(Next)`: they are loops of one
thread, and `db_main` calls `next()` until it returns `None`. `DiskSession` and
`Session` assume weak fairness of each process (in `Session`: `MonitorNext`,
`DbNext`, `DiskExits`), which the operating system schedules independently, and
none for failing, for a program that does not start, or for being killed.
`OperatorTree`, `Planner`, `ValuePairs` and `Generator` state safety only.

### Findings

1. `cross_wide_rows`: the blocks of `CrossOperator` are packed with a check that
   closes a full block but none that a row fits into an empty one, unlike
   `rows_to_blocks`; a row one or two bytes longer than the usable part of a
   block runs into the counter, against the layout that the comment of `row.rs`
   describes.
2. `values_join_keys`: the key of a hash join (`DataKey`) distinguishes an Int32
   from an Int64 of the same value, the filter it replaces does not, so that a
   join of such columns finds nothing. Within one type the two differ on minus
   zero, on NaNs, which equal themselves as keys only, and on long integers,
   which only the filter rounds; `JoinKeysMatchWithinType` has these exceptions.
3. `planner_renamed`: `sort_already_satisfied` ignores what projections rename;
   a sort on a column that was given the name of an ordered one is dropped.

The warning of `CONTEXT.md:107` is *not* borne out: spills are adjacent in every
tree (theorem `SpillsAreContiguous`), because an operator spills only in the
first call it receives, while the `Cross` above it has allocated nothing yet.
The constants in `src/README.md` (2 MB, 4 MB, 16 blocks) differ from those of
the code; the models take them as parameters.

## 4. What is proved

All proofs are for every value of the constants, under the assumptions the
modules name.

**`OperatorTreeProofs`** (any set of plans satisfying `PlansAssumption`, any
bound on allocations): `JoinsAlwaysBuildAlone`, `SpillsAreContiguous`, `SettledCalls`,
`QuietAfterFirstRow`. None of the properties is inductive, and all are proved
from one invariant. `SpillContiguous`
speaks of the past of a `Cross`; to preserve it one has to know that no one else
can allocate while a `Cross` is half-way through its spill, and that needs to
say who may be on the call stack then. The invariant `IInv` adds:

- `Descending`: calls go to nodes constructed earlier, so no node is on the
  stack twice;
- `CallsMatchModes`: which child a node waits for follows from its mode;
- `AnswerSettled`, `SettledModes`, `LeftSettled`: a node that has returned is
  past its initialisation, and so is the child it holds a row of;
- `SettledCallsSettled`: hence it never calls a node that has still to
  initialise itself, that is, to spill;
- `SpillInProgress`: the batches of a `Cross` in mid-spill end the list of
  allocations, and its right child has returned before, so that everything it
  calls is settled and allocates no more;
- `TypeOK`, the types of the variables;
- `BuiltJoins`, `BottomCall`, `RootBuilt`: constructors run before the first
  call of the root;
- `WithinBuilt`: what has returned a row is constructed, and what has allocated
  blocks is at least being constructed; with `BottomCall` that is why a join that
  is being built has the executor to itself (`JoinsBuildAlone`).

The step lemmas say what one step may do to the stack (`StepShapes`), the modes
(`ModeSteps`), the left rows and the allocations; each part of the invariant is
then preserved by a lemma of its own, and `Inductive` puts them together.

What the caller of a root may rely on comes next: `StreamInOrder`,
`StreamNoDuplicates` and `StreamComplete` hold of `ResultStream` for any order, so
of whatever refines it. Order needs `OwedComesLater`: no row still owed precedes
one returned.

The module ends with how a tree of joins is built, for any number of tables, any
schemas, estimates and predicates (`JoinOrders`):

- `JoinOrderIsComplete`: the order has every table once, and none is larger than
  the first. The recursive function behind `JoinOrder` exists (`OrdersExist`),
  every order it goes through is greedy (`JoinOrderIsGreedy`), and an order that
  is too short leaves a table (`OrderLeaves`, with the pigeonhole principle).
- `ConnectedTablesAreJoined`: when equalities connect the tables, every join has
  a key. Some table that is left has an equality with one already joined, so it
  counts a key, and the table chosen counts at least as many (`NextFacts`).
- `JoinsKeepRows`: of tables without common columns, pushed filters, keys and
  residual predicates let exactly those combinations of rows through that pass
  every predicate of the query, in whatever order the tables are joined. One join
  enforces what is satisfiable above it (`JoinEnforces`): a key compares the same
  two columns as the predicate that it replaces, because columns are looked up in
  the left side first (`PositionInConcat`). And a name finds the same value in
  the rows joined in any order (`JoinedRow`).

They are the arguments behind `LargestIsNotBuilt`, `NoAvoidableCross` and
`PlanKeepsRows`. That a tree of operators is those joins is the definition of
`build_join_tree` and `Rows`, which are about trees and stay with TLC.

**`DiskSessionProofs`**: first `LayoutIsDisjoint`, for any list of file sizes and
any gap. The invariant `LayoutInv` adds that files are placed before
`current_position` and keeps the gap behind each of them; `FinishLayout` needs
that a finite set of ends has a maximum. Then `DiskNeverFails`, `ScansAreRight` and
`SessionIsAtomicDisk`, for any files, batches, writes and gaps and pipes of any
capacity. The last one says that every step of the two processes and their pipes
is a step of `AtomicDisk`, or none. The inductive invariant is `SessionIInv`
together with `LayoutInv`:

- `SessionTypeOK` and `Phases`: types, and what each end knows of the other
  (nobody is told of the anonymous region before it is computed);
- `Puts`: what the simulator has still to take is a sequence of commands in
  which every put has its blocks behind it (`Loaded`), and every block of
  `written` is stored or among them (`Pending`). Writes are not acknowledged, so
  several can be in the pipe; a read sees them all the same since it is behind
  them: `LastCommand`;
- `Calls`: between calls the disk owes nothing (`Quiet`); a command that is to
  be answered is the last thing in the pipe (`Asked`), and later the answer so
  far, wherever its parts are, is the beginning of the right one (`Answering`,
  `Due`);
- `ScanCalls` and `Scanned`: what the scan knows of its file, and what it has
  returned.

A kill ends what can be said of the calls: then only `Scanned` is left, and the
simulator may fail. The lemmas on sequences (`LoadedTakeBlock`, `LoadedTakePut`,
`LoadedAppend`, `MoveFirst`) say what taking from a pipe, adding to it and moving
through it do; one lemma per action or group of actions uses them, and
`SessionInvariance` puts these together.

The last theorem, `ClosedSessionsAccounted`, is about the end: all that was
spilled is stored, and the metrics are those of the calls that were made. It needs
an invariant of the whole session, `Accounted`, which holds as long as nobody is
killed:

- `Transferred`: the transfers of the database are, in this order, those the
  metrics have counted (`Counted`), the one in service (`InService`), and those
  whose commands are still in the pipe or to be sent (`Moves`: a strictly
  increasing assignment of positions, which leaves out no command that moves
  blocks). A call appends to the last part (`CallsAppend`), the simulator takes
  the head of it (`StartTransferCounts`) and counts it (`FinishCounts`);
- `Stored`: no block is stored that was not written, which with `Puts` makes the
  two equal once the pipe is empty;
- `Drained`: the simulator ends only with an empty pipe.

**`SessionProofs`**, the descriptors first: `RemapPutsInPlace`, for any number of
mappings and any overlap of sources and targets, as long as sources are open, sources and targets
are distinct among themselves, and there is room above them (`Remappable`: what
`setup_db_process` sees to). Half-way through, some ends are at their temporary
numbers and some at their targets; `IInv` says for every number which
(`TemporariesHold`, `TargetsHold`, `OthersHold`), and the proof of a step needs
that temporary numbers are above everything named, for which the maximum of a
finite set has to exist.

Then `VerdictsRight`, `SuiteFollowed`, `SessionsEnd` and
`DescriptorsRight`, the four invariants of the run `session`, for any suite, any
rows and results, pipes of any capacity and any inherited descriptors that leave
room (`SessionAssumption`: six free numbers below the four that `remap_fds`
takes, eight in all). The inductive invariant `SessionIInv` consists of

- `DataTypeOK`;
- `Dialogue`: in each state of the monitor, what both pipes hold, how far the
  database is, and that what was seen and what is still in the pipe are together
  what was printed. Without it a verdict could be about lines of another
  moment. A database that died stops at any of these places, and the
  pipe keeps what it said;
- `VerdictsAreRight`: the verdict that is recorded is the one `Dialogue` says
  it must be;
- `SuiteSoFar`: the runs are the enabled queries below `q`, and of `q` itself
  after an abort; this is why the order and the gaps of `RunsFollowSuite` are
  right;
- `Processes` and `OwnFds`: who has ended, and which ends the monitor holds, in
  each of its states;
- `MonitorTable` and `ChildTable`: the table of the monitor is what it inherited
  and its own ends, two of them in places with room above when it forks; the
  child starts with four open sources at different numbers, so that
  `Remappable` holds, then has the `IInv` of the remapping, and at exec
  `RemapInPlace` puts the ends where the database looks for them.

The last part counts: `pipe` takes the lowest free numbers, so the k-th end has
the number up to which k are free; it exists (`LowestFree`), is the only one
(`OnlyLowestFree`), and is below the four numbers `remap_fds` needs.

**`RowBlocksProofs`**: lemmas on blocks of rows that the operators rely on: a
packed block decodes to the rows that were put in it (`DecodePacked`),
`rows_to_blocks` packs any rows that fit and leaves no block empty
(`RowsPacked`), reading adjoining runs of blocks gives their rows one after the
other (`ReadAdjacent`), and a spill leaves what was written before as it was
(`SpillExtends`, `ReadAfterSpill`); what putting runs behind each other does
to their rows (`FlattenAppend`, `FlattenRows`, `FlattenShorter`); and that the
memory of some rows is their sum in any order (`MemorySum`). Packing,
decoding and flattening are folds; what they compute is proved by induction in a
first-order form, the least number at which a statement fails (`LeastNumber`),
so that no theorem with an operator for a parameter is needed. The folds of the
community modules are defined by a choice of an iteration over sets; it has to be
shown that there is one (`IterationExists`) and that on a sequence it takes one
element after the other (`FoldEmpty`, `FoldAppend`).

**`CrossProofs`**: `CrossSpillHoldsRightRows`, `CrossBuffersMirrorDisk` and
`CrossImplementsStream`, that is, every step of the cross product is a step of
`ResultStream` or none. They hold for any left and right input, any memory for
the cache and for the spill, and any blocks the children allocate in between,
under `RowsFit`: an encoded right row has at least one byte (every value of it
takes one) and fits in the `usable` bytes of a block, and a block has too few bytes for
its 16-bit counter to wrap. A right row that does not fit is the finding
`cross_wide`; for 4 KB blocks, which the configuration has, the last part holds.
The inductive invariant `IInv`:

- `TypeOK`, with `SoundDisk`: nothing is stored at or above the next free
  block, so that a write of new blocks touches no old one;
- `Spilling`: the batches written so far are next to each other, whatever the
  right child spilled before them, and the cursors are at their beginning;
- `Spilled`: all right rows are on the disk; the cache is all of them or there
  is none;
- `OutputOK`: what was returned are the pairs before the cursors. Where the
  rows come from blocks, the cursor is the number of rows in the blocks that
  were loaded (`PairedRows`), which is why the proof has to know how the blocks
  decode;
- `SpillHoldsRightRows` and `BuffersMirrorDisk`.

`CacheHoldsAll` shows of the loop in `try_cache`, a recursive function over the
blocks that are left, that it loads every row or gives up.

**`SortProofs`**: every property the run `sort` checks but liveness, for any
input, any budgets, any largest batch and any blocks the child spills:
`SortRowsConserved`, `SortHeapMirrorsReaders`, `SortBlocksWrittenOnce`,
`SortBufferWithinBudget`, `SortReaderBuffersBounded`, `SortMergeStaysOrdered`
and `SortImplementsStream`. All assume `RowsSized`: an encoded row has at least
one byte and a block too few for its 16-bit counter to wrap. A row that does not
fit in a block is not excluded; the operator then panics, as the code does. The
last two theorems assume of the order

- `RowOrder`: two rows are not each before the other, and a row between two
  others is after the first or before the second. `compare_by_specs` is such an
  order for rows without NaN: `SortPremisesHold` of `ValueProofs`;
- `KeysAgree`: of two rows the smaller has the smaller key. This is what
  `encode_sort_key` must give for the heap to rank rows as `sort_by` did. The
  same theorem proves it of rows without NaN, minus zero and NUL; with these it
  fails, which is a listed hazard.

Neither is needed for the others: with NaN or a zero of either sign rows may
come out of order, but none is lost.

The inductive invariant has three layers. `Base` consists of

- `TypeOK`, with `SoundDisk`, and `RunsStored`: every block of a run is on the
  disk and holds a row. A batch therefore never comes back empty, and a reader
  with an empty buffer has reached its end (`LoadNextBatch`, `ReaderOn`);
- `Waiting`, `InMemory`, `Merging`: what belongs to each variant of
  `SortOutput`; in a merge there is one reader on each run, within it;
- `HeapMirrorsReaders` and `BufferWithinBudget`.

`Conserved` says that buffer and runs, later output and readers, hold exactly
what was pulled. What a reader still has is its buffer and the decoded rest of
its run (`Rest`): opening it gives the run (`OpenReader`), advancing it
takes the head off (`AdvanceReader`). `Ordered` says that runs, and what readers
still have, are in order, and that no row still held belongs before one returned.
`NextExternal` is shown to take the head of one stream, which no other head
comes before (`Takes`), and both layers follow from that. That no row is owed
after it was returned needs counting: as many rows as the input, and the same
ones, so none twice (`NoRowTwice`, from the library's theorem on surjections
between sets of the same size). `Batched`, beside `Base`, says that a buffer is
at most one batch of its run, for `SortReaderBuffersBounded`.

**`HashJoinProofs`**: every property the run `hash_join` checks but liveness:
`HashJoinRowsConserved`, `HashJoinTableMatchesProbe`,
`HashJoinMemoryWithinBudget` and `HashJoinImplementsStream`, for any children,
any hash function, any number of partitions, and any budget, threshold and batch
size, whatever the children spill; under `RowsSized`, as in `SortProofs`. The
streams are numbered: the number of a row is what tells it from another with the
same values, as its place does in the code. The inductive invariant `IInv`:

- `TypeOK`, with `BoundedStores`: the partition buffers and the disk they are
  flushed to are one value, of which `push` and `finish` are functions. Every
  segment is on the disk, and no buffer has reached the threshold;
- `Placed`: where the rows are in every phase. A table holds a set of rows
  (`TableHolds`: under each key the rows with that key, once), a store and a
  finished side hold one if every partition does (`StoreHolds`, `SideHolds`: its
  segments, decoded, and then its buffer). `InsertHolds`, `DrainHolds`,
  `PushHolds` and `FinishHolds` say what one step does to them. The contents of a
  partition do not change when it is flushed, nor when somebody else writes
  (`SideLater`);
- `Pace`: how far each child has been read, and that `next()` waits for the
  constructor;
- `Reading`: an open reader will return rows of the left side of a partition
  (`Rest`), each once, and the table has the right side of the same partition;
- `Probed`: the left row being probed is of that partition, and the reader has
  passed it;
- `Returned`: of the pairs with equal keys, those have been returned whose left
  row had its turn (it is not in `Todo`) and whose right row is not among the
  matches still to come (`Coming`). This is what makes every returned pair new
  and, when both sets are empty, none missing; it needs that rows with equal
  keys are in the same partition, and that a partition that has been closed does
  not come again.

A reader asks for a segment in batches; `SegmentRead` shows by induction on the
batches that together they are the segment, and `load_next_batch` that it passes
over no rows (`LoadFacts`). The folds `finish`, `PartitionTable` and the draining
of an entry are treated as those of `RowBlocksProofs`. `TableMemory` is a sum
over the keys in an order the definition does not fix: any order gives the
same (`SumsAgree`), so a row adds what it takes (`InsertAddsMemory`), and
`Counted` keeps the total equal to `right_bytes` while the table is in memory.

**`ValueProofs`**: the invariants of the runs `values` and `generator`, for any
base of the bytes, widths of the numbers and bits of a mantissa that
`ValuesAssumption` allows, any schema, and any rows.

- *Values.* `Power` and the remainders of the library have few facts of their
  own; the first lemmas give them (`PowerNext`, `DivisionIs`). What a float stands
  for grows with its bits (`MagnitudeGrows`), which makes `Less` the order of exact
  values (`LessTotal`).
- *Keys.* `KeyOrderAlwaysAgrees`: the key of a number is its place in that order
  (`IntegerBits`, `FloatBits`), and numbers of one width are in the order of their
  bytes, the highest first (`BigEndian`, by the first digit in which they differ). A
  string ends with a zero byte, which no byte before it is, so that of two
  different strings neither key is a prefix of the other: hence `Below`, a
  difference within both keys, which stays when another key is put behind
  (`BelowConcat`) and is turned round by complementing (`ColumnKeyOrder`). The columns
  of an ORDER BY are a fold over them; `KeysFollow` says after each column that the
  keys so far follow the first column that differs. `SortPremisesHold` adds that
  the comparison is an order of rows, minus zeros and NULs included, which
  `SortProofs` assumes together with the agreement of the keys.
- *Predicates.* `PredicatesAlwaysExact` needs that rounding to `f64` is monotone
  (`RoundMonotone`): then an order within a type survives it, and a strict order is
  never claimed in error, although two long integers may come out equal.
- *Join keys.* `JoinKeysAlwaysMatch`: within one type, bits and values tell the same
  apart but for the exceptions the property names.
- *Passes.* `GeneratorOutputsAgree`: `PassInv` says that the lines a pass has taken are
  rows, and that blocks and buffer, counters, or statement and table hold exactly
  those; each pass ends at the first line that is none. Of the third pass it says
  that SQLite has taken the rows of the finished statements (`HasTaken`): unless
  one of them has a quote, all are rows SQL can express, and what is stored are
  their `SqlRows`. `SqlStands` shows of each such value that it stands for the one
  on the disk. It assumes `RowsArePacked`, that the `usable` bytes of a
  block are below the limit of its counter, as for 4 KB blocks. Of a table with
  a quote in a string it claims only that the statistics count the rows of
  the table.
- *Statistics.* `StatsAlwaysDescribe`, without that assumption. `Knows` says
  of a column so far that the bounds are its least and greatest values, and that
  the exact set is ascending and has the keys of the column, or the sketch has
  them. It is preserved because the comparison is transitive and total on values
  without NaN (`CmpOrder`, `CmpTransitive`), so that `insert` finds the place of
  a value or the value itself (`InsertFacts`); the number of elements of an
  ascending set is that of its keys (`KeysAreCounted`). At the end no column of a
  table without quotes has a NaN, because SQLite has taken all its rows
  (`DoneRows`, `DoneIsComparable`): that is what makes the second half of the
  property true.
- *Histograms.* `HistogramAlwaysCovers`: the sample is never larger than the column
  and not empty unless the column is (`Sampled`). Rounding the size of a chunk up
  makes at most as many chunks as buckets, none of them empty, and the last one
  ends with the sample (`RoundedUp`, `Chunks`); the frequencies are a fold, and after
  k buckets their sum is at most the share of the first k chunks, and that share
  itself when the sample is the column (`HistogramSummarises`). The quotients of
  the model are exact; what floating point does to them is not claimed.

Exceptions that the proofs need are in the properties, and among the
hazards: the statistics of a column with zeros of both signs count them once in
the exact set and twice in the sketch; a NUL in a string ends its key; and SQL
text keeps neither the sign of a zero nor the exact value of a Float32, and
nothing of a string with a quote can be relied on. A minus zero that SQLite has
as `0.0` and the database prints as `-0.0` would fail a query whose expected rows
come from SQLite, though both read the same file.

Only model-checked: liveness under fairness, and with it the temporal half of
`ImplementsResultStream` for the cross product and the join (fairness and ENABLED
are out of the prover's reach); and the four invariants of `Planner` as they
stand, since the operators of `Planner` and `Plans` are recursive over queries and
plans, and what a recursive definition computes for every tree cannot be proved
here; what three of them say of one tree of joins is proved (see above), and what
`SortedResultIsSorted` says is not.

## 5. What is not modelled

- `fd_wrapper`, `io_setup.rs`, command lines, JSON, log and text output: I/O
  without a state of their own. What a row is printed as is an element of a set.
- Of the generator: the monitor configuration and the directories it writes
  (each file once, from constants), the registers of the HyperLogLog and the
  error of its estimate.
- Of the disk metrics: the nanoseconds that counts are turned into, and the
  sleep that simulates them.
- The memory of a whole tree against `RLIMIT_AS`: budgets are checked per
  operator, and how many operators share the limit depends on the query; in
  `Session` exceeding it is one of the causes a database fails by.
- A bucket of a grace join that is larger than the budget: the code does not
  split it again, and `MemoryWithinBudget` is stated for the build side only.
- `tests_gen` and the demo printer: data and drivers.

## 6. Plan

Done, in this order: the spilling operators, the tree they form, its proofs, the
disk protocol, the planner, the monitor; then values of all types, descriptors
and their remapping, the generator, and the proofs of the monitor, of the disk
session, of the cross product, of the sort, of the hash join, of the values and
their keys, of the generator, and of the joins of a query.

Left:

1. The planner on statistics as `ColumnStats` makes them; today it takes any.
2. The tree of operators with the memory each of them holds, for bounds that
   depend on the plan.
