---------------------------- MODULE DiskSimulator ----------------------------
(* The disk process (disk/src/disk_simulation): it lays the table files out  *)
(* on one block address space, with a writable anonymous region behind them, *)
(* and then answers commands from a pipe until the pipe ends.  One item of a *)
(* pipe is a command line, an answer line or a block.                        *)
EXTENDS Integers, Sequences, FiniteSetsExt

CONSTANTS Configs,          \* the sequences of file sizes, in blocks, of a configuration
          Gap,              \* blocks in 10 GB, the gap behind every file
          BlocksPerCylinder,
          BlockSize,
          PipeCapacity      \* items a pipe holds

ASSUME DiskAssumption ==
    /\ Configs \subseteq Seq(Nat)
    /\ Gap \in Nat \ {0}
    /\ BlocksPerCylinder \in Nat \ {0}
    /\ BlockSize \in Nat
    /\ PipeCapacity \in Nat \ {0}

VARIABLES config,           \* the sizes of the configured files
          files,            \* where the files placed so far lie: [start, num]
          current_position, \* where the next file goes
          anon_start_index,
          anon_pages,       \* the blocks written so far
          metrics,          \* what DiskIOMetricsSimulator counts
          phase,            \* "Placing", "Reading", "Get", "Put", "Flushing", "Exited", "Failed"
          request,          \* [start, num] of the block command being served
          block_offset,     \* blocks of it done
          out_buf,          \* standard output: buffered, not yet in the pipe
          to_disk, from_disk,   \* the two pipes
          client_open           \* the database process holds its ends of them

layoutVars == <<config, files, current_position, anon_start_index>>
requestVars == <<request, block_offset>>
diskVars == <<layoutVars, anon_pages, metrics, phase, requestVars, out_buf,
              to_disk, from_disk, client_open>>

NoRequest == [start |-> 0, num |-> 0]
NewMetrics == [reads |-> 0, writes |-> 0, blocks |-> 0, cylinders |-> 0,
               rotations |-> 0, current_cylinder |-> 0, last_end_block |-> 0]

\* A command, an answer line with a number, and a block of data.
Command(name, start, num) == [kind |-> name, start |-> start, num |-> num]
Line(n) == [kind |-> "line", value |-> n]
Data(block) == [kind |-> "data", value |-> block]

\* What block i of file f contains.
FileBlock(f, i) == Data([file |-> f, block |-> i])

HasRoom(pipe) == Len(pipe) < PipeCapacity
ServerOpen == phase \notin {"Exited", "Failed"}

DiskInit ==
    /\ config \in Configs
    /\ files = <<>> /\ current_position = 0 /\ anon_start_index = 0
    /\ anon_pages = <<>> /\ metrics = NewMetrics
    /\ phase = "Placing" /\ request = NoRequest /\ block_offset = 0
    /\ out_buf = <<>> /\ to_disk = <<>> /\ from_disk = <<>>
    /\ client_open = TRUE
-----------------------------------------------------------------------------
(* The layout (disk.rs, Disk::new).                                          *)

\* A variant without the gap of 10 GB at the least.
ReservedInProportion(num) == num + 4 * num

\* Blocks from the start of a file of num blocks to the start of the next one.
Reserved(num) == num + (IF 4 * num > Gap THEN 4 * num ELSE Gap)

PlaceFile ==
    /\ phase = "Placing" /\ Len(files) < Len(config)
    /\ LET num == config[Len(files) + 1]
       IN  /\ files' = Append(files, [start |-> current_position, num |-> num])
           /\ current_position' = current_position + Reserved(num)
    /\ UNCHANGED <<config, anon_start_index, anon_pages, metrics, phase, requestVars,
                   out_buf, to_disk, from_disk, client_open>>

EndOfFile(f) == files[f].start + files[f].num

\* compute_anon_start_index
FinishLayout ==
    /\ phase = "Placing" /\ Len(files) = Len(config)
    /\ anon_start_index' = Max({EndOfFile(f) : f \in DOMAIN files} \cup {0}) + Gap
    /\ phase' = "Reading"
    /\ UNCHANGED <<config, files, current_position, anon_pages, metrics, requestVars,
                   out_buf, to_disk, from_disk, client_open>>
-----------------------------------------------------------------------------
(* Blocks.                                                                   *)
Exists(block) == IF block >= anon_start_index THEN block \in DOMAIN anon_pages
                 ELSE \E f \in DOMAIN files : block \in files[f].start .. EndOfFile(f) - 1

\* A variant that reads the file at the position of the block on the disk.
ReadBlockAbsolute(block) ==
    IF block >= anon_start_index THEN anon_pages[block]
    ELSE FileBlock(CHOOSE g \in DOMAIN files :
                       block \in files[g].start .. EndOfFile(g) - 1, block)

\* read_block, of a block that exists; get_file_id finds the file it is in.
read_block(block) ==
    IF block >= anon_start_index THEN anon_pages[block]
    ELSE LET f == CHOOSE g \in DOMAIN files :
                      block \in files[g].start .. EndOfFile(g) - 1
         IN  FileBlock(f, block - files[f].start)

Distance(a, b) == IF a > b THEN a - b ELSE b - a

\* A variant that remembers the block behind the last one transferred.
SimulateAtEnd(m, req) ==
    [m EXCEPT !.blocks = @ + req.num, !.last_end_block = req.start + req.num]

\* simulate_io_time: the times are sums of these counts, weighted by constants.
simulate_io_time(m, req) ==
    IF req.num = 0 THEN m
    ELSE LET end_block == req.start + req.num - 1
             start_cylinder == req.start \div BlocksPerCylinder
             end_cylinder == end_block \div BlocksPerCylinder
             is_sequential == req.start = m.last_end_block + 1
         IN  [m EXCEPT
                !.blocks = @ + req.num,
                !.cylinders = @ + Distance(m.current_cylinder, start_cylinder)
                                + Distance(end_cylinder, start_cylinder),
                !.rotations = @ + (IF is_sequential THEN 0 ELSE 1),
                !.current_cylinder = end_cylinder,
                !.last_end_block = end_block]

update_read_on(m, req) == simulate_io_time([m EXCEPT !.reads = @ + 1], req)

update_write_on(m, req) == simulate_io_time([m EXCEPT !.writes = @ + 1], req)
-----------------------------------------------------------------------------
(* Commands (disk_simulator.rs).                                             *)

\* A variant that goes on to the next command without flushing the output.
AfterCommandUnflushed == "Reading"

\* simulate() flushes the output after every command.
AfterCommand == "Flushing"

Queries == {"block-size", "anon-start-block", "file start-block", "file num-blocks"}

\* The answer to a command that asks for a number; start names the file.
AnswerTo(command) ==
    CASE command.kind = "block-size"       -> BlockSize
      [] command.kind = "anon-start-block" -> anon_start_index
      [] command.kind = "file start-block" -> files[command.start].start
      [] command.kind = "file num-blocks"  -> files[command.start].num

AnswerQuery ==
    /\ phase = "Reading" /\ to_disk # <<>> /\ Head(to_disk).kind \in Queries
    /\ out_buf' = Append(out_buf, Line(AnswerTo(Head(to_disk))))
    /\ to_disk' = Tail(to_disk)
    /\ phase' = AfterCommand
    /\ UNCHANGED <<layoutVars, anon_pages, metrics, requestVars, from_disk, client_open>>

\* get block and put block: parse the range, then go through it.  Anything that
\* is no command ends the process (so does "exit", without an error; no client
\* sends it).
StartTransfer ==
    /\ phase = "Reading" /\ to_disk # <<>> /\ Head(to_disk).kind \notin Queries
    /\ IF Head(to_disk).kind \in {"Get", "Put"}
       THEN /\ phase' = Head(to_disk).kind
            /\ request' = [start |-> Head(to_disk).start, num |-> Head(to_disk).num]
            /\ block_offset' = 0
       ELSE phase' = "Failed" /\ UNCHANGED requestVars
    /\ to_disk' = Tail(to_disk)
    /\ UNCHANGED <<layoutVars, anon_pages, metrics, out_buf, from_disk, client_open>>

\* One block of a get: the buffer holds what the write of a block left in it.
GetBlock ==
    /\ phase = "Get" /\ block_offset < request.num /\ out_buf = <<>>
    /\ IF Exists(request.start + block_offset)
       THEN /\ out_buf' = <<read_block(request.start + block_offset)>>
            /\ block_offset' = block_offset + 1
            /\ UNCHANGED phase
       ELSE phase' = "Failed" /\ UNCHANGED <<out_buf, block_offset>>
    /\ UNCHANGED <<layoutVars, anon_pages, metrics, request, to_disk, from_disk, client_open>>

FinishGet ==
    /\ phase = "Get" /\ block_offset = request.num
    /\ metrics' = update_read_on(metrics, request)
    /\ phase' = AfterCommand
    /\ UNCHANGED <<layoutVars, anon_pages, requestVars, out_buf, to_disk, from_disk, client_open>>

\* A variant that puts every block of the range at its start.
PutAddressFixed == request.start

PutAddress == request.start + block_offset

\* One block of a put: read_exact, then write_block, which protects the files.
PutBlock ==
    /\ phase = "Put" /\ block_offset < request.num /\ to_disk # <<>>
    /\ to_disk' = Tail(to_disk)
    /\ IF PutAddress >= anon_start_index
       THEN /\ anon_pages' = [b \in DOMAIN anon_pages \cup {PutAddress} |->
                IF b = PutAddress THEN Head(to_disk) ELSE anon_pages[b]]
            /\ block_offset' = block_offset + 1
            /\ UNCHANGED phase
       ELSE phase' = "Failed" /\ UNCHANGED <<anon_pages, block_offset>>
    /\ UNCHANGED <<layoutVars, metrics, request, out_buf, from_disk, client_open>>

FinishPut ==
    /\ phase = "Put" /\ block_offset = request.num
    /\ metrics' = update_write_on(metrics, request)
    /\ phase' = AfterCommand
    /\ UNCHANGED <<layoutVars, anon_pages, requestVars, out_buf, to_disk, from_disk, client_open>>

\* Buffered output goes to the pipe during the command, at the latest when the
\* loop of simulate() flushes; without a reader the write fails.
WriteOut ==
    /\ phase \in {"Get", "Flushing"} /\ out_buf # <<>>
    /\ IF client_open
       THEN /\ HasRoom(from_disk)
            /\ from_disk' = Append(from_disk, Head(out_buf))
            /\ out_buf' = Tail(out_buf)
            /\ UNCHANGED phase
       ELSE phase' = "Failed" /\ UNCHANGED <<from_disk, out_buf>>
    /\ UNCHANGED <<layoutVars, anon_pages, metrics, requestVars, to_disk, client_open>>

Flushed ==
    /\ phase = "Flushing" /\ out_buf = <<>>
    /\ phase' = "Reading"
    /\ UNCHANGED <<layoutVars, anon_pages, metrics, requestVars, out_buf, to_disk,
                   from_disk, client_open>>

\* The pipe has ended: between commands that is how a session ends, in the
\* middle of a put it is an error.
EndOfInput ==
    /\ to_disk = <<>> /\ ~client_open
    /\ \/ phase = "Reading" /\ phase' = "Exited"
       \/ phase = "Put" /\ block_offset < request.num /\ phase' = "Failed"
    /\ UNCHANGED <<layoutVars, anon_pages, metrics, requestVars, out_buf, to_disk,
                   from_disk, client_open>>

DiskNext == \/ PlaceFile \/ FinishLayout
            \/ AnswerQuery \/ StartTransfer
            \/ GetBlock \/ FinishGet \/ PutBlock \/ FinishPut
            \/ WriteOut \/ Flushed \/ EndOfInput
-----------------------------------------------------------------------------
\* Wherever the layout has got to, the files do not touch: behind each of them
\* there are at least 10 GB, and four times its size, before the next file, and
\* the anonymous region starts 10 GB behind the last one.
LayoutSeparatesFiles ==
    /\ \A f, g \in DOMAIN files : f < g =>
           files[g].start >= EndOfFile(f) + Gap /\ files[g].start >= EndOfFile(f) + 4 * files[f].num
    /\ phase # "Placing" =>
           \A f \in DOMAIN files : EndOfFile(f) + Gap <= anon_start_index
=============================================================================
