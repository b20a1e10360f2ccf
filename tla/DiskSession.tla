----------------------------- MODULE DiskSession -----------------------------
(* The database process at the other end of the pipes of DiskSimulator: its  *)
(* DiskManager (database/src/disk.rs) sends one command at a time and waits  *)
(* for the answer of those that have one, on behalf of one ScanOperator      *)
(* (executor/scan.rs) and of an operator that spills and reads back.  The    *)
(* process ends by closing its pipes, or is killed by the monitor.           *)
EXTENDS DiskSimulator, SequencesExt

CONSTANTS BLOCKS_PER_READ,
          SpillSizes,       \* blocks per write
          MaxSpills,        \* bound: writes per session
          MaxReadBacks      \* bound: reads of spilled blocks per session

ASSUME SessionAssumption ==
    /\ BLOCKS_PER_READ \in Nat \ {0} /\ SpillSizes \subseteq Nat \ {0}
    /\ MaxSpills \in Nat /\ MaxReadBacks \in Nat

VARIABLES
    client,         \* "New", "Running", "Closed", "Killed" or "Panicked"
    call,           \* the call of DiskManager under way: its name, or "None"
    to_send,        \* what it still has to write
    expected,       \* items it waits for
    received,       \* items it has got
    anon_start, next_anon_block,
    scan,           \* the scan: [file, start, blocks, blocks_read]; file 0 before it opens
    scanned,        \* the blocks the scan has returned
    written,        \* history: what write_blocks was called with, by block
    transfers,      \* history: the ranges of the block commands, in order
    read_range,     \* the range of the read of spilled blocks under way, or <<>>
    read_answer,    \* what the last of these reads returned
    read_backs      \* how many there were

callVars == <<call, to_send, expected, received>>
scanVars == <<scan, scanned>>
readVars == <<read_range, read_answer, read_backs>>
clientVars == <<client, callVars, anon_start, next_anon_block, scanVars, written,
                transfers, readVars>>
vars == <<diskVars, clientVars>>

NoScan == [file |-> 0, start |-> 0, blocks |-> 0, blocks_read |-> 0]

Init == /\ DiskInit
        /\ client = "New" /\ call = "None"
        /\ to_send = <<>> /\ expected = 0 /\ received = <<>>
        /\ anon_start = 0 /\ next_anon_block = 0
        /\ scan = NoScan /\ scanned = <<>>
        /\ written = <<>> /\ transfers = <<>>
        /\ read_range = <<>> /\ read_answer = <<>> /\ read_backs = 0
-----------------------------------------------------------------------------
(* One call: write the command (and the data), then wait for the answer.     *)
Begin(name, items, answers) ==
    /\ call = "None" /\ call' = name
    /\ to_send' = items /\ expected' = answers /\ received' = <<>>

Return == /\ call' = "None"
          /\ UNCHANGED <<to_send, expected, received>>

Answered(name) == call = name /\ to_send = <<>> /\ Len(received) = expected

Alive == client \in {"New", "Running"}

\* write_all: part of what there is to send goes into the pipe; without a
\* reader that fails, and the process panics.
Send ==
    /\ Alive /\ to_send # <<>>
    /\ IF ServerOpen
       THEN /\ HasRoom(to_disk)
            /\ to_disk' = Append(to_disk, Head(to_send))
            /\ to_send' = Tail(to_send)
            /\ UNCHANGED <<client, client_open>>
       ELSE /\ client' = "Panicked" /\ client_open' = FALSE
            /\ UNCHANGED <<to_disk, to_send>>
    /\ UNCHANGED <<layoutVars, anon_pages, metrics, phase, requestVars, out_buf, from_disk,
                   call, expected, received, anon_start, next_anon_block, scanVars,
                   written, transfers, readVars>>

\* recv_line and read_exact: the end of the pipe instead of an answer panics.
Receive ==
    /\ Alive /\ to_send = <<>> /\ Len(received) < expected
    /\ IF from_disk # <<>>
       THEN /\ received' = Append(received, Head(from_disk))
            /\ from_disk' = Tail(from_disk)
            /\ UNCHANGED <<client, client_open>>
       ELSE /\ ~ServerOpen
            /\ client' = "Panicked" /\ client_open' = FALSE
            /\ UNCHANGED <<from_disk, received>>
    /\ UNCHANGED <<layoutVars, anon_pages, metrics, phase, requestVars, out_buf, to_disk,
                   call, to_send, expected, anon_start, next_anon_block, scanVars,
                   written, transfers, readVars>>
-----------------------------------------------------------------------------
(* DiskManager::new asks for the block size and for the anonymous region.    *)
AskBlockSize ==
    /\ client = "New" /\ expected = 0
    /\ Begin("block-size", <<Command("block-size", 0, 0)>>, 1)
    /\ UNCHANGED <<diskVars, client, anon_start, next_anon_block, scanVars, written,
                   transfers, readVars>>

AskAnonStart ==
    /\ client = "New" /\ Answered("block-size")
    /\ call' = "anon-start-block" /\ to_send' = <<Command("anon-start-block", 0, 0)>>
    /\ expected' = 1 /\ received' = <<>>
    /\ UNCHANGED <<diskVars, client, anon_start, next_anon_block, scanVars, written,
                   transfers, readVars>>

Connected ==
    /\ client = "New" /\ Answered("anon-start-block")
    /\ anon_start' = received[1].value
    /\ next_anon_block' = received[1].value
    /\ client' = "Running"
    /\ Return
    /\ UNCHANGED <<diskVars, scanVars, written, transfers, readVars>>
-----------------------------------------------------------------------------
(* The calls of the operators.                                               *)
Idle == client = "Running" /\ call = "None"

\* A read or write of a range of blocks.
Transfer(name, start, num, data, answers) ==
    /\ Begin(name, <<Command(name, start, num)>> \o data, answers)
    /\ transfers' = Append(transfers, [name |-> name, start |-> start, num |-> num])

\* ScanOperator::new asks where its file starts and how long it is.
OpenScan ==
    /\ Idle /\ scan.file = 0
    /\ \E f \in DOMAIN config :
           /\ Begin("file start-block", <<Command("file start-block", f, 0)>>, 1)
           /\ scan' = [scan EXCEPT !.file = f]
    /\ UNCHANGED <<diskVars, client, anon_start, next_anon_block, scanned, written,
                   transfers, readVars>>

AskNumBlocks ==
    /\ Alive /\ Answered("file start-block")
    /\ scan' = [scan EXCEPT !.start = received[1].value]
    /\ call' = "file num-blocks" /\ expected' = 1 /\ received' = <<>>
    /\ to_send' = <<Command("file num-blocks", scan.file, 0)>>
    /\ UNCHANGED <<diskVars, client, anon_start, next_anon_block, scanned, written,
                   transfers, readVars>>

ScanOpened ==
    /\ Alive /\ Answered("file num-blocks")
    /\ scan' = [scan EXCEPT !.blocks = received[1].value]
    /\ Return
    /\ UNCHANGED <<diskVars, client, anon_start, next_anon_block, scanned, written,
                   transfers, readVars>>

\* A variant that always reads a full batch, past the end of the file.
FullBatch == BLOCKS_PER_READ

BatchSize == Min({BLOCKS_PER_READ, scan.blocks - scan.blocks_read})

\* fill_buffer
FillBuffer ==
    /\ Idle /\ scan.blocks_read < scan.blocks
    /\ Transfer("Get", scan.start + scan.blocks_read, BatchSize, <<>>, BatchSize)
    /\ UNCHANGED <<diskVars, client, anon_start, next_anon_block, scanVars, written, readVars>>

Filled == expected

BufferFilled ==
    /\ Alive /\ Answered("Get") /\ read_range = <<>>
    /\ scanned' = scanned \o received
    /\ scan' = [scan EXCEPT !.blocks_read = @ + Filled]
    /\ Return
    /\ UNCHANGED <<diskVars, client, anon_start, next_anon_block, written, transfers, readVars>>

\* The data of the k-th write, whichever operator makes it.
Contents(k, num) == [i \in 1 .. num |-> Data([write |-> k, block |-> i])]

Writes == {i \in DOMAIN transfers : transfers[i].name = "Put"}

\* An operator spills: alloc_anon_blocks, then write_blocks, which waits for
\* nothing.
SpillBlocks ==
    /\ Idle /\ Cardinality(Writes) < MaxSpills
    /\ \E num \in SpillSizes :
           LET data == Contents(Cardinality(Writes) + 1, num)
               blocks == next_anon_block .. next_anon_block + num - 1
           IN  /\ Transfer("Put", next_anon_block, num, data, 0)
               /\ next_anon_block' = next_anon_block + num
               /\ written' = [b \in DOMAIN written \cup blocks |->
                      IF b \in blocks THEN data[b - next_anon_block + 1] ELSE written[b]]
    /\ UNCHANGED <<diskVars, client, anon_start, scanVars, readVars>>

BlocksSpilled ==
    /\ Alive /\ Answered("Put")
    /\ Return
    /\ UNCHANGED <<diskVars, client, anon_start, next_anon_block, scanVars, written,
                   transfers, readVars>>

\* It reads a range of what has been spilled.
ReadBack ==
    /\ Idle /\ read_backs < MaxReadBacks
    /\ \E start \in DOMAIN written, num \in 1 .. Cardinality(DOMAIN written) :
           /\ start + num - 1 \in DOMAIN written
           /\ Transfer("Get", start, num, <<>>, num)
           /\ read_range' = <<start, num>>
    /\ read_backs' = read_backs + 1
    /\ UNCHANGED <<diskVars, client, anon_start, next_anon_block, scanVars, written, read_answer>>

BackRead ==
    /\ Alive /\ Answered("Get") /\ read_range # <<>>
    /\ read_answer' = received
    /\ read_range' = <<>>
    /\ Return
    /\ UNCHANGED <<diskVars, client, anon_start, next_anon_block, scanVars, written,
                   transfers, read_backs>>
-----------------------------------------------------------------------------
\* db_main returns when the query has no more rows: the scan is at its end.
Close ==
    /\ Idle /\ scan.file # 0 /\ scan.blocks_read = scan.blocks
    /\ client' = "Closed" /\ client_open' = FALSE
    /\ UNCHANGED <<layoutVars, anon_pages, metrics, phase, requestVars, out_buf, to_disk,
                   from_disk, callVars, anon_start, next_anon_block, scanVars, written,
                   transfers, readVars>>

\* The monitor kills the process, or it runs out of its memory limit.
Kill ==
    /\ Alive
    /\ client' = "Killed" /\ client_open' = FALSE
    /\ UNCHANGED <<layoutVars, anon_pages, metrics, phase, requestVars, out_buf, to_disk,
                   from_disk, callVars, anon_start, next_anon_block, scanVars, written,
                   transfers, readVars>>

ServerStep == DiskNext /\ UNCHANGED clientVars

ClientStep == \/ Send \/ Receive \/ AskBlockSize \/ AskAnonStart \/ Connected
              \/ OpenScan \/ AskNumBlocks \/ ScanOpened \/ FillBuffer \/ BufferFilled
              \/ SpillBlocks \/ BlocksSpilled \/ ReadBack \/ BackRead \/ Close

\* Both processes have ended.
Stopped == ~Alive /\ ~ServerOpen /\ UNCHANGED vars

Next == ServerStep \/ ClientStep \/ Kill \/ Stopped

\* Each process runs whenever it can; nobody has to kill the database.
Fairness == WF_vars(ServerStep) /\ WF_vars(ClientStep)

Spec == Init /\ [][Next]_vars /\ Fairness
-----------------------------------------------------------------------------
\* Neither process brings the other down: the simulator fails only when the
\* database was killed, and the database never finds its disk gone.  (A read of
\* a block nobody wrote, a write to a file, an answer nobody reads, or data
\* taken for a command would be such a failure.)
OnlyKillsFail == /\ client # "Panicked"
                 /\ phase = "Failed" => client = "Killed"

\* The scan returns the blocks of its file and no others, in the order of the
\* file; when the session is closed it has returned all of them.
ScanReadsFile ==
    /\ Len(scanned) = scan.blocks_read /\ scan.blocks_read <= scan.blocks
    /\ \A i \in DOMAIN scanned : scanned[i] = FileBlock(scan.file, i - 1)
    /\ client = "Closed" => Len(scanned) = config[scan.file]

\* How many blocks a list of transfers moves, each counted with its transfer.
BlocksOf(list) == Cardinality(UNION {{i} \X (1 .. list[i].num) : i \in DOMAIN list})

\* Closing the session loses nothing that is still in the pipe: when the
\* simulator prints its metrics, every block has been stored and every
\* transfer counted, the last one last.
ClosedSessionIsAccounted ==
    client = "Closed" /\ phase = "Exited" =>
        /\ anon_pages = written
        /\ metrics.writes = Cardinality(Writes)
        /\ metrics.reads = Len(transfers) - Cardinality(Writes)
        /\ metrics.blocks = BlocksOf(transfers)
        /\ transfers # <<>> =>
               metrics.last_end_block = Last(transfers).start + Last(transfers).num - 1

\* To the operators the two processes and the pipes are one disk: reads return
\* what was written last, although writes are never acknowledged.
Atomic == INSTANCE AtomicDisk WITH
              pages <- written, asked <- read_range, answer <- read_answer, open <- Alive
ImplementsAtomicDisk == Atomic!Spec

\* The database gets every answer it waits for, unless it is killed, and when
\* it has ended the simulator ends too, so that the monitor's wait returns.
CallsReturn == call # "None" ~> call = "None" \/ ~Alive
SimulatorEnds == ~Alive ~> ~ServerOpen
SessionEnds == CallsReturn /\ SimulatorEnds
=============================================================================
