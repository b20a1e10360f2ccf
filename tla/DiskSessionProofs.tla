-------------------------- MODULE DiskSessionProofs ---------------------------
(* The session of the database with its disk, for any configuration of files *)
(* and any sizes of batches, writes, gaps and pipes: the table files are put *)
(* where they cannot meet each other or the anonymous region, neither process*)
(* makes the other fail, the scan returns its file, and what the operators   *)
(* see is an AtomicDisk.  LayoutInv and SessionIInv, below, are the inductive*)
(* invariants; the second says what the two pipes can hold between the calls *)
(* of DiskManager (database/src/disk.rs) and the loop of simulate()          *)
(* (disk_simulator.rs).                                                      *)
EXTENDS DiskSession, SequenceTheorems, FiniteSetTheorems, TLAPS

(* The layout.                                                               *)
\* The layout can be continued: what has been placed is out of the way of the
\* position the next file will get.
Placed ==
    /\ config \in Seq(Nat)
    /\ files \in Seq([start : Nat, num : Nat])
    /\ current_position \in Nat
    /\ \A f \in DOMAIN files : /\ current_position >= EndOfFile(f) + Gap
                               /\ current_position >= EndOfFile(f) + 4 * files[f].num

LayoutInv == Placed /\ LayoutSeparatesFiles
-----------------------------------------------------------------------------
\* A file reserves its own blocks, the minimal gap and four times its size.
LEMMA ReservedIsEnough ==
    ASSUME NEW num \in Nat
    PROVE  /\ Reserved(num) \in Nat
           /\ Reserved(num) >= num + Gap /\ Reserved(num) >= num + 4 * num
  BY DiskAssumption DEF Reserved

\* The elements of a sequence.
LEMMA ElementsOfSeq ==
    ASSUME NEW S, NEW s \in Seq(S), NEW i \in DOMAIN s
    PROVE  s[i] \in S
  OBVIOUS

\* The numbers of a placed file are natural.
LEMMA FileNumbers ==
    ASSUME Placed, NEW f \in DOMAIN files
    PROVE  files[f].start \in Nat /\ files[f].num \in Nat /\ EndOfFile(f) \in Nat
<1>1. files[f] \in [start : Nat, num : Nat]
  <2>1. files \in Seq([start : Nat, num : Nat])
    BY DEF Placed
  <2> QED
    BY <2>1, ElementsOfSeq
<1>2. files[f].start \in Nat /\ files[f].num \in Nat
  BY <1>1
<1> QED
  BY <1>2 DEF EndOfFile

\* Except for the two steps of the layout, nothing moves a file, and the layout
\* is not left without the step that places the anonymous region.
LEMMA OtherSteps ==
    ASSUME Next, ~PlaceFile, ~FinishLayout
    PROVE  /\ UNCHANGED layoutVars
           /\ phase = "Placing" => phase' = "Placing"
<1>1. CASE DiskNext
  <2>1. CASE AnswerQuery \/ StartTransfer
    BY <2>1 DEF AnswerQuery, StartTransfer
  <2>2. CASE GetBlock \/ FinishGet \/ PutBlock \/ FinishPut
    BY <2>2 DEF GetBlock, FinishGet, PutBlock, FinishPut
  <2>3. CASE WriteOut \/ Flushed \/ EndOfInput
    BY <2>3 DEF WriteOut, Flushed, EndOfInput
  <2> QED
    BY <1>1, <2>1, <2>2, <2>3 DEF DiskNext
<1>2. CASE Send \/ Receive
  BY <1>2 DEF Send, Receive
<1>3. CASE AskBlockSize \/ AskAnonStart \/ Connected
  BY <1>3 DEF AskBlockSize, AskAnonStart, Connected, diskVars, layoutVars
<1>4. CASE OpenScan \/ AskNumBlocks \/ ScanOpened
  BY <1>4 DEF OpenScan, AskNumBlocks, ScanOpened, diskVars, layoutVars
<1>5. CASE FillBuffer \/ BufferFilled
  BY <1>5 DEF FillBuffer, BufferFilled, diskVars, layoutVars
<1>6. CASE SpillBlocks \/ BlocksSpilled \/ ReadBack \/ BackRead
  BY <1>6 DEF SpillBlocks, BlocksSpilled, ReadBack, BackRead, diskVars, layoutVars
<1>7. CASE Close \/ Kill
  BY <1>7 DEF Close, Kill
<1>8. CASE Stopped
  BY <1>8 DEF Stopped, vars, diskVars, layoutVars
<1> QED
  BY <1>1, <1>2, <1>3, <1>4, <1>5, <1>6, <1>7, <1>8 DEF Next, ServerStep, ClientStep
-----------------------------------------------------------------------------
\* The next file goes behind all files placed before it.
LEMMA PlaceFileKeeps == LayoutInv /\ PlaceFile => LayoutInv'
<1> SUFFICES ASSUME LayoutInv, PlaceFile PROVE LayoutInv'
  OBVIOUS
<1> DEFINE num == config[Len(files) + 1]
           file == [start |-> current_position, num |-> num]
<1>1. /\ num \in Nat /\ file \in [start : Nat, num : Nat]
      /\ files' = Append(files, file)
      /\ current_position' = current_position + Reserved(num)
      /\ config' = config /\ phase' = phase /\ phase = "Placing"
      /\ files \in Seq([start : Nat, num : Nat])
      /\ current_position \in Nat
  BY DEF LayoutInv, Placed, PlaceFile
<1>2. /\ files' \in Seq([start : Nat, num : Nat])
      /\ DOMAIN files' = DOMAIN files \cup {Len(files) + 1}
      /\ files'[Len(files) + 1] = file
      /\ \A f \in DOMAIN files : files'[f] = files[f]
  BY <1>1
<1>3. /\ Reserved(num) \in Nat /\ Reserved(num) >= num + Gap
      /\ Reserved(num) >= num + 4 * num
  BY <1>1, ReservedIsEnough
<1>4. \A f \in DOMAIN files : files[f].start \in Nat /\ files[f].num \in Nat
  BY FileNumbers DEF LayoutInv
<1>5. Gap \in Nat
  BY DiskAssumption
<1>6. Placed'
  <2>1. ASSUME NEW f \in DOMAIN files'
        PROVE  /\ current_position' >= EndOfFile(f)' + Gap
               /\ current_position' >= EndOfFile(f)' + 4 * files'[f].num
    <3>1. CASE f = Len(files) + 1
      BY <1>1, <1>2, <1>3, <1>5, <3>1 DEF EndOfFile
    <3>2. CASE f \in DOMAIN files
      <4>1. /\ current_position >= EndOfFile(f) + Gap
            /\ current_position >= EndOfFile(f) + 4 * files[f].num
        BY <3>2 DEF LayoutInv, Placed
      <4>2. /\ EndOfFile(f)' = EndOfFile(f) /\ files'[f].num = files[f].num
            /\ EndOfFile(f) \in Nat /\ files[f].num \in Nat
        BY <1>2, <3>2, FileNumbers DEF EndOfFile, LayoutInv
      <4>3. /\ current_position \in Nat /\ Reserved(num) \in Nat
            /\ current_position' = current_position + Reserved(num)
        BY <1>1, <1>3
      <4> QED
        BY <1>5, <4>1, <4>2, <4>3
    <3> QED
      BY <1>2, <2>1, <3>1, <3>2
  <2>2. current_position' \in Nat /\ config' \in Seq(Nat)
    BY <1>1, <1>3 DEF LayoutInv, Placed
  <2>3. files' \in Seq([start : Nat, num : Nat])
    BY <1>2
  <2> QED
    BY <2>1, <2>2, <2>3 DEF Placed
<1>7. LayoutSeparatesFiles'
  <2>1. ASSUME NEW f \in DOMAIN files', NEW g \in DOMAIN files', f < g
        PROVE  /\ files'[g].start >= EndOfFile(f)' + Gap
               /\ files'[g].start >= EndOfFile(f)' + 4 * files'[f].num
    <3>1. f \in DOMAIN files
      BY <1>1, <1>2, <2>1
    <3>2. CASE g = Len(files) + 1
      BY <1>1, <1>2, <3>1, <3>2 DEF EndOfFile, LayoutInv, Placed
    <3>3. CASE g \in DOMAIN files
      BY <1>2, <2>1, <3>1, <3>3 DEF EndOfFile, LayoutInv, LayoutSeparatesFiles
    <3> QED
      BY <1>2, <2>1, <3>2, <3>3
  <2> QED
    BY <1>1, <2>1 DEF LayoutSeparatesFiles
<1> QED
  BY <1>6, <1>7 DEF LayoutInv

\* The last file ends behind all others, so that the maximum exists.
LEMMA EndsHaveMaximum ==
    ASSUME LayoutInv
    PROVE  LET Ends == {EndOfFile(f) : f \in DOMAIN files} \cup {0}
           IN  Max(Ends) \in Nat /\ \A x \in Ends : Max(Ends) >= x
<1> DEFINE Ends == {EndOfFile(f) : f \in DOMAIN files} \cup {0}
<1>1. files \in Seq([start : Nat, num : Nat]) /\ Gap \in Nat
  BY DiskAssumption DEF LayoutInv, Placed
<1>2. \A f \in DOMAIN files : EndOfFile(f) \in Nat
  BY FileNumbers DEF LayoutInv
<1>3. \E x \in Ends : \A y \in Ends : x >= y
  <2>1. CASE files = <<>>
    BY <2>1
  <2>2. CASE files # <<>>
    <3>1. Len(files) \in DOMAIN files
      BY <1>1, <2>2
    <3>2. \A f \in DOMAIN files : EndOfFile(Len(files)) >= EndOfFile(f)
      <4> SUFFICES ASSUME NEW f \in DOMAIN files
                   PROVE  EndOfFile(Len(files)) >= EndOfFile(f)
        OBVIOUS
      <4>1. CASE f = Len(files)
        BY <1>2, <4>1
      <4>2. CASE f < Len(files)
        <5>1. files[Len(files)].start >= EndOfFile(f) + Gap
          BY <3>1, <4>2 DEF LayoutInv, LayoutSeparatesFiles
        <5>2. files[Len(files)].start \in Nat /\ files[Len(files)].num \in Nat
          BY <3>1, FileNumbers DEF LayoutInv
        <5> QED
          BY <1>1, <1>2, <5>1, <5>2 DEF EndOfFile
      <4> QED
        BY <1>1, <4>1, <4>2
    <3> QED
      BY <1>2, <3>1, <3>2
  <2> QED
    BY <2>1, <2>2
<1>4. Ends \subseteq Nat
  BY <1>2
<1>5. Max(Ends) \in Ends /\ \A y \in Ends : Max(Ends) >= y
  BY <1>3 DEF Max
<1> QED
  BY <1>4, <1>5

\* The anonymous region goes behind all files.
LEMMA FinishLayoutKeeps == LayoutInv /\ FinishLayout => LayoutInv'
<1> SUFFICES ASSUME LayoutInv, FinishLayout PROVE LayoutInv'
  OBVIOUS
<1> DEFINE Ends == {EndOfFile(f) : f \in DOMAIN files} \cup {0}
<1>1. /\ anon_start_index' = Max(Ends) + Gap
      /\ files' = files /\ config' = config /\ current_position' = current_position
  BY DEF FinishLayout
<1>2. \A f \in DOMAIN files : EndOfFile(f) \in Nat
  BY FileNumbers DEF LayoutInv
<1>3. Max(Ends) \in Nat /\ \A x \in Ends : Max(Ends) >= x
  BY EndsHaveMaximum
<1>4. ASSUME NEW f \in DOMAIN files
      PROVE  EndOfFile(f) + Gap <= anon_start_index'
  <2>1. Max(Ends) >= EndOfFile(f)
    BY <1>3
  <2>2. Gap \in Nat
    BY DiskAssumption
  <2> HIDE DEF Ends
  <2> QED
    BY <1>1, <1>2, <1>3, <2>1, <2>2
<1> QED
  BY <1>1, <1>4 DEF LayoutInv, Placed, LayoutSeparatesFiles, EndOfFile
-----------------------------------------------------------------------------
\* The layout invariant holds in every reachable state of a session.
LEMMA LayoutInvariance == Spec => []LayoutInv
<1>1. Init => LayoutInv
  BY DiskAssumption DEF Init, DiskInit, LayoutInv, Placed, LayoutSeparatesFiles
<1>2. LayoutInv /\ [Next]_vars => LayoutInv'
  <2> SUFFICES ASSUME LayoutInv, [Next]_vars PROVE LayoutInv'
    OBVIOUS
  <2>1. CASE PlaceFile
    BY <2>1, PlaceFileKeeps
  <2>2. CASE FinishLayout
    BY <2>2, FinishLayoutKeeps
  <2>3. CASE Next /\ ~PlaceFile /\ ~FinishLayout
    <3>1. UNCHANGED layoutVars /\ (phase = "Placing" => phase' = "Placing")
      BY <2>3, OtherSteps
    <3> QED
      BY <3>1 DEF layoutVars, LayoutInv, Placed, LayoutSeparatesFiles, EndOfFile
  <2>4. CASE UNCHANGED vars
    BY <2>4 DEF vars, diskVars, layoutVars, LayoutInv, Placed, LayoutSeparatesFiles, EndOfFile
  <2> QED
    BY <2>1, <2>2, <2>3, <2>4
<1> QED
  BY <1>1, <1>2, PTL DEF Spec

\* In every configuration the files and the anonymous region are apart by the
\* gaps that disk.rs computes, from the first file that is placed on.
THEOREM LayoutIsDisjoint == Spec => []LayoutSeparatesFiles
<1>1. LayoutInv => LayoutSeparatesFiles
  BY DEF LayoutInv
<1> QED
  BY <1>1, LayoutInvariance, PTL
-----------------------------------------------------------------------------
(* The session.                                                              *)
Commands == [kind : Queries \cup {"Get", "Put"}, start : Nat, num : Nat]
Blocks == [kind : {"data"}, value : [write : Nat, block : Nat] \cup [file : Nat, block : Nat]]
Requests == Commands \cup Blocks
Answers == [kind : {"line"}, value : Nat] \cup Blocks
-----------------------------------------------------------------------------
\* What a sequence of commands and blocks holds: first the last d blocks of a
\* put, for the addresses from a on, then commands, each put followed by its
\* blocks; and these blocks are the ones that w assigns to their addresses.
Loaded(s, d, a, w) ==
    /\ d <= Len(s)
    /\ \A m \in 1 .. d : a + m - 1 \in DOMAIN w /\ s[m] = w[a + m - 1]
    /\ \A c \in 1 .. Len(s) : s[c].kind = "Put" =>
           /\ c + s[c].num <= Len(s)
           /\ \A m \in 1 .. s[c].num : /\ s[c].start + m - 1 \in DOMAIN w
                                       /\ s[c + m] = w[s[c].start + m - 1]
    /\ \A j \in 1 .. Len(s) : s[j].kind = "data" =>
           j <= d \/ \E c \in 1 .. j - 1 : s[c].kind = "Put" /\ j <= c + s[c].num

\* Block b is still among them.
Pending(s, d, a, b) ==
    \/ \E m \in 1 .. d : b = a + m - 1
    \/ \E c \in 1 .. Len(s) : s[c].kind = "Put" /\ \E m \in 1 .. s[c].num : b = s[c].start + m - 1

\* The first n elements are puts with their blocks.
OnlyPuts(s, n) == \A j \in 1 .. n : s[j].kind \in {"Put", "data"}
-----------------------------------------------------------------------------
\* What the simulator has still to take, and what the database has got or will
\* still get of the answer.
Incoming == to_disk \o to_send
Reply == (received \o from_disk) \o out_buf

\* The blocks the simulator still expects of the put it serves.
Left == IF phase = "Put" THEN request.num - block_offset ELSE 0

\* It has still blocks to read for the get it serves.
Serving == phase = "Get" /\ block_offset < request.num

Asking == call \notin {"None", "Put"}

SessionTypeOK ==
    /\ client \in {"New", "Running", "Closed"}
    /\ phase \in {"Placing", "Reading", "Get", "Put", "Flushing", "Exited"}
    /\ call \in {"None", "Get", "Put"} \cup Queries
    /\ to_send \in Seq(Requests) /\ to_disk \in Seq(Requests)
    /\ received \in Seq(Answers) /\ from_disk \in Seq(Answers) /\ out_buf \in Seq(Answers)
    /\ expected \in Nat
    /\ request \in [start : Nat, num : Nat] /\ block_offset \in 0 .. request.num
    /\ anon_start_index \in Nat /\ anon_start \in Nat /\ next_anon_block \in Nat
    /\ anon_start <= next_anon_block
    /\ written \in [anon_start .. next_anon_block - 1 -> Blocks]
    /\ scan \in [file : Nat, start : Nat, blocks : Nat, blocks_read : Nat]
    /\ read_range # <<>> => read_range \in Nat \X Nat

\* The files that are placed are those of the configuration; the database is
\* told of the anonymous region when they all are.
Phases ==
    /\ Len(files) <= Len(config) /\ \A f \in DOMAIN files : files[f].num = config[f]
    /\ phase # "Placing" => Len(files) = Len(config)
    /\ client # "New" => phase # "Placing" /\ anon_start = anon_start_index
    /\ client # "Closed" => client_open /\ phase # "Exited"
    /\ client = "New" => /\ call \in {"None", "block-size", "anon-start-block"}
                         /\ next_anon_block = anon_start
    /\ client # "New" => call \notin {"block-size", "anon-start-block"}
    /\ client = "Closed" => call = "None"

\* Every block that was written is stored or on its way, behind no read.
Puts ==
    /\ Loaded(Incoming, Left, request.start + block_offset, written)
    /\ \A b \in DOMAIN written :
           \/ Pending(Incoming, Left, request.start + block_offset, b)
           \/ b \in DOMAIN anon_pages /\ anon_pages[b] = written[b]
-----------------------------------------------------------------------------
\* The scan, and the read of spilled blocks.
Opening == call \in {"file start-block", "file num-blocks"}

ScanCalls ==
    /\ client = "New" => scan = NoScan
    /\ scan.file = 0 \/ Opening => scan.blocks = 0 /\ scan.blocks_read = 0
    /\ Opening => scan.file # 0
    /\ scan.file # 0 => scan.file \in DOMAIN config
    /\ scan.file # 0 /\ call # "file start-block" => scan.start = files[scan.file].start
    /\ scan.file # 0 /\ ~Opening => scan.blocks = config[scan.file]
    /\ call = "Get" /\ read_range = <<>> =>
           scan.file # 0 /\ scan.blocks_read + expected <= scan.blocks
    /\ read_range # <<>> =>
           /\ call = "Get" /\ read_range[2] = expected
           /\ read_range[1] .. read_range[1] + expected - 1 \subseteq DOMAIN written
-----------------------------------------------------------------------------
\* The block a get starts at, the command of the call under way, and item i of
\* the right answer to it.
GetStart == IF read_range # <<>> THEN read_range[1] ELSE scan.start + scan.blocks_read

TheCommand ==
    CASE call \in {"block-size", "anon-start-block"} -> Command(call, 0, 0)
      [] Opening                                     -> Command(call, scan.file, 0)
      [] call = "Get"                                -> Command("Get", GetStart, expected)

Due(i) ==
    IF call = "Get"
    THEN IF read_range # <<>> THEN written[read_range[1] + i - 1]
         ELSE FileBlock(scan.file, scan.blocks_read + i - 1)
    ELSE Line(CASE call = "block-size"       -> BlockSize
                [] call = "anon-start-block" -> anon_start_index
                [] call = "file start-block" -> files[scan.file].start
                [] call = "file num-blocks"  -> files[scan.file].num)

\* Nothing is under way towards the database.
NoAnswer == from_disk = <<>> /\ out_buf = <<>>

Quiet == /\ NoAnswer /\ ~Serving /\ Len(received) = expected
         /\ OnlyPuts(Incoming, Len(Incoming))

Asked == /\ NoAnswer /\ ~Serving /\ received = <<>>
         /\ Incoming # <<>> /\ Incoming[Len(Incoming)] = TheCommand
         /\ OnlyPuts(Incoming, Len(Incoming) - 1)

Answering ==
    /\ Incoming = <<>> /\ phase # "Placing"
    /\ \A i \in 1 .. Len(Reply) : Reply[i] = Due(i)
    /\ IF Serving THEN /\ call = "Get" /\ request = [start |-> GetStart, num |-> expected]
                       /\ block_offset = Len(Reply)
       ELSE Len(Reply) = expected

Calls ==
    /\ call = "None" => to_send = <<>>
    /\ Asking => expected >= 1 /\ (call # "Get" => expected = 1)
    /\ IF Asking THEN Asked \/ Answering ELSE Quiet
-----------------------------------------------------------------------------
\* The transfers are a finite list of ranges, and each moves a block at least.
Ranges == [name : {"Get", "Put"}, start : Nat, num : Nat \ {0}]

TransfersOK == transfers \in Seq(Ranges)

\* The blocks of the scan; it stays true when the process is killed.
Scanned ==
    /\ Len(scanned) = scan.blocks_read /\ scan.blocks_read <= scan.blocks
    /\ scanned \in Seq(Blocks)
    /\ \A i \in DOMAIN scanned : scanned[i] = FileBlock(scan.file, i - 1)
    /\ client = "Closed" => scan.blocks_read = scan.blocks /\ scan.file # 0

Works == SessionTypeOK /\ Phases /\ Puts /\ ScanCalls /\ Calls

SessionIInv == Scanned /\ TransfersOK /\ (client # "Killed" => Works)
-----------------------------------------------------------------------------
\* Only a command has another kind than "data".
LEMMA KindsOfRequests ==
    ASSUME NEW x \in Requests
    PROVE  /\ x.kind # "data" => x \in Commands /\ x.start \in Nat /\ x.num \in Nat
           /\ x.kind = "data" => x \in Blocks
           /\ x.kind \in Queries \cup {"Get", "Put", "data"}
<1>1. CASE x \in Commands
  BY <1>1 DEF Commands, Queries
<1>2. CASE x \in Blocks
  BY <1>2 DEF Blocks
<1> QED
  BY <1>1, <1>2 DEF Requests

\* The first element of what is in a pipe and to be written to it, when the
\* pipe is not empty, is the first of the pipe.
LEMMA TakeFirst ==
    ASSUME NEW X, NEW u \in Seq(X), NEW v \in Seq(X), u # <<>>
    PROVE  Head(u \o v) = Head(u) /\ Tail(u \o v) = Tail(u) \o v
<1>1. /\ u \o v \in Seq(X) /\ Len(u \o v) = Len(u) + Len(v)
      /\ \A i \in 1 .. Len(u) + Len(v) :
             (u \o v)[i] = IF i <= Len(u) THEN u[i] ELSE v[i - Len(u)]
  BY ConcatProperties
<1>2. /\ Tail(u) \in Seq(X) /\ Len(Tail(u)) = Len(u) - 1
      /\ \A i \in 1 .. Len(Tail(u)) : Tail(u)[i] = u[i + 1]
  BY HeadTailProperties
<1>3. u \o v # <<>> /\ Len(u) \in Nat /\ Len(v) \in Nat /\ Len(u) >= 1
  BY <1>1
<1>4. /\ Tail(u \o v) \in Seq(X) /\ Len(Tail(u \o v)) = Len(u) + Len(v) - 1
      /\ \A i \in 1 .. Len(Tail(u \o v)) : Tail(u \o v)[i] = (u \o v)[i + 1]
  BY <1>1, <1>3, HeadTailProperties
<1>5. /\ Tail(u) \o v \in Seq(X) /\ Len(Tail(u) \o v) = Len(u) - 1 + Len(v)
      /\ \A i \in 1 .. Len(u) - 1 + Len(v) :
             (Tail(u) \o v)[i] = IF i <= Len(u) - 1 THEN Tail(u)[i] ELSE v[i - (Len(u) - 1)]
  BY <1>2, ConcatProperties
<1>6. ASSUME NEW i \in 1 .. Len(Tail(u \o v)) PROVE Tail(u \o v)[i] = (Tail(u) \o v)[i]
  <2>1. i \in Nat /\ i >= 1 /\ i <= Len(u) + Len(v) - 1 /\ i + 1 \in 1 .. Len(u) + Len(v)
    BY <1>3, <1>4
  <2>2. Tail(u \o v)[i] = IF i + 1 <= Len(u) THEN u[i + 1] ELSE v[i + 1 - Len(u)]
    BY <1>1, <1>4, <2>1
  <2>3. (Tail(u) \o v)[i] = IF i <= Len(u) - 1 THEN Tail(u)[i] ELSE v[i - (Len(u) - 1)]
    BY <1>3, <1>5, <2>1
  <2>4. i <= Len(u) - 1 => Tail(u)[i] = u[i + 1]
    BY <1>2, <1>3, <2>1
  <2>5. i + 1 - Len(u) = i - (Len(u) - 1)
    BY <1>3, <2>1
  <2> QED
    BY <1>3, <2>1, <2>2, <2>3, <2>4, <2>5
<1>7. Tail(u \o v) = Tail(u) \o v
  BY <1>3, <1>4, <1>5, <1>6, SeqEqual
<1>8. Head(u \o v) = Head(u)
  BY <1>1, <1>3
<1> QED
  BY <1>7, <1>8

\* Writing the first element to the pipe leaves both together as they are.
LEMMA MoveFirst ==
    ASSUME NEW X, NEW u \in Seq(X), NEW v \in Seq(X), v # <<>>
    PROVE  Append(u, Head(v)) \o Tail(v) = u \o v
<1>1. /\ Head(v) \in X /\ Tail(v) \in Seq(X) /\ Len(Tail(v)) = Len(v) - 1
      /\ \A i \in 1 .. Len(Tail(v)) : Tail(v)[i] = v[i + 1]
  BY HeadTailProperties
<1>2. /\ Append(u, Head(v)) \in Seq(X) /\ Len(Append(u, Head(v))) = Len(u) + 1
      /\ \A i \in 1 .. Len(u) : Append(u, Head(v))[i] = u[i]
      /\ Append(u, Head(v))[Len(u) + 1] = v[1]
  BY <1>1
<1>3. /\ u \o v \in Seq(X) /\ Len(u \o v) = Len(u) + Len(v)
      /\ \A i \in 1 .. Len(u) + Len(v) :
             (u \o v)[i] = IF i <= Len(u) THEN u[i] ELSE v[i - Len(u)]
  BY ConcatProperties
<1> DEFINE w == Append(u, Head(v)) \o Tail(v)
<1>4. /\ w \in Seq(X) /\ Len(w) = Len(u) + 1 + (Len(v) - 1)
      /\ \A i \in 1 .. Len(u) + 1 + (Len(v) - 1) :
             w[i] = IF i <= Len(u) + 1 THEN Append(u, Head(v))[i]
                    ELSE Tail(v)[i - (Len(u) + 1)]
  BY <1>1, <1>2, ConcatProperties
<1>5. Len(u) \in Nat /\ Len(v) \in Nat /\ Len(v) >= 1
  OBVIOUS
<1> HIDE DEF w
<1>6. ASSUME NEW i \in 1 .. Len(w) PROVE w[i] = (u \o v)[i]
  <2>1. i \in Nat /\ i >= 1 /\ i <= Len(u) + Len(v)
    BY <1>4, <1>5
  <2>2. CASE i <= Len(u)
    BY <1>2, <1>3, <1>4, <1>5, <2>1, <2>2
  <2>3. CASE i = Len(u) + 1
    <3>1. w[i] = v[1]
      BY <1>2, <1>4, <1>5, <2>1, <2>3
    <3>2. (u \o v)[i] = v[1]
      BY <1>3, <1>5, <2>1, <2>3
    <3> QED
      BY <3>1, <3>2
  <2>4. CASE i > Len(u) + 1
    <3>1. w[i] = Tail(v)[i - (Len(u) + 1)]
      BY <1>4, <1>5, <2>1, <2>4
    <3>2. i - (Len(u) + 1) \in 1 .. Len(Tail(v)) /\ i - (Len(u) + 1) + 1 = i - Len(u)
      BY <1>1, <1>5, <2>1, <2>4
    <3>3. (u \o v)[i] = v[i - Len(u)]
      BY <1>3, <1>5, <2>1, <2>4
    <3> QED
      BY <1>1, <3>1, <3>2, <3>3
  <2> QED
    BY <1>5, <2>1, <2>2, <2>3, <2>4
<1>7. Len(w) = Len(u \o v)
  BY <1>3, <1>4, <1>5
<1> QED
  BY <1>3, <1>4, <1>6, <1>7, SeqEqual DEF w

\* Two sequences together are empty only when both are.
LEMMA BothEmpty ==
    ASSUME NEW X, NEW u \in Seq(X), NEW v \in Seq(X)
    PROVE  /\ u \o v = <<>> <=> u = <<>> /\ v = <<>>
           /\ v = <<>> => u \o v = u
           /\ u = <<>> => u \o v = v
<1>1. Len(u \o v) = Len(u) + Len(v) /\ u \o v \in Seq(X) /\ Len(u) \in Nat /\ Len(v) \in Nat
  BY ConcatProperties
<1>2. v = <<>> => u \o v = u
  BY ConcatEmptySeq
<1>3. u = <<>> => u \o v = v
  BY ConcatEmptySeq
<1> QED
  BY <1>1, <1>2, <1>3

\* Appending to what follows is appending to both together.
LEMMA AppendToConcat ==
    ASSUME NEW X, NEW u \in Seq(X), NEW v \in Seq(X), NEW x \in X
    PROVE  u \o Append(v, x) = Append(u \o v, x)
<1>1. /\ u \o v \in Seq(X) /\ Len(u \o v) = Len(u) + Len(v)
      /\ \A i \in 1 .. Len(u) + Len(v) :
             (u \o v)[i] = IF i <= Len(u) THEN u[i] ELSE v[i - Len(u)]
  BY ConcatProperties
<1> DEFINE w == Append(v, x)
           p == u \o w
           q == Append(u \o v, x)
<1>2. /\ w \in Seq(X) /\ Len(w) = Len(v) + 1 /\ w[Len(v) + 1] = x
      /\ \A i \in 1 .. Len(v) : w[i] = v[i]
  OBVIOUS
<1>3. /\ q \in Seq(X) /\ Len(q) = Len(u) + Len(v) + 1 /\ q[Len(u) + Len(v) + 1] = x
      /\ \A i \in 1 .. Len(u) + Len(v) : q[i] = (u \o v)[i]
  BY <1>1
<1> HIDE DEF w, q
<1>4. /\ p \in Seq(X) /\ Len(p) = Len(u) + Len(w)
      /\ \A i \in 1 .. Len(u) + Len(w) : p[i] = IF i <= Len(u) THEN u[i] ELSE w[i - Len(u)]
  BY <1>2, ConcatProperties
<1> HIDE DEF p
<1>5. Len(u) \in Nat /\ Len(v) \in Nat
  OBVIOUS
<1>6. ASSUME NEW i \in 1 .. Len(p) PROVE p[i] = q[i]
  <2>1. i \in Nat /\ i >= 1 /\ i <= Len(u) + Len(v) + 1
    BY <1>2, <1>4, <1>5
  <2>2. CASE i <= Len(u)
    BY <1>1, <1>2, <1>3, <1>4, <1>5, <2>1, <2>2
  <2>3. CASE i > Len(u) /\ i <= Len(u) + Len(v)
    <3>1. p[i] = w[i - Len(u)] /\ q[i] = v[i - Len(u)]
      BY <1>1, <1>2, <1>3, <1>4, <1>5, <2>1, <2>3
    <3>2. i - Len(u) \in 1 .. Len(v)
      BY <1>5, <2>1, <2>3
    <3> QED
      BY <1>2, <3>1, <3>2
  <2>4. CASE i = Len(u) + Len(v) + 1
    <3>1. p[i] = w[i - Len(u)] /\ i - Len(u) = Len(v) + 1
      BY <1>2, <1>4, <1>5, <2>1, <2>4
    <3> QED
      BY <1>2, <1>3, <2>4, <3>1
  <2> QED
    BY <1>5, <2>1, <2>2, <2>3, <2>4
<1>7. Len(p) = Len(q)
  BY <1>2, <1>3, <1>4, <1>5
<1> QED
  BY <1>3, <1>4, <1>6, <1>7, SeqEqual DEF p, q, w
-----------------------------------------------------------------------------
\* What is written is blocks.
OfBlocks(w) == \A b \in DOMAIN w : w[b] \in Blocks

\* Without blocks of a put at its head it does not matter where they would go.
LEMMA LoadedAnywhere ==
    ASSUME NEW s, NEW a, NEW a2, NEW w, Loaded(s, 0, a, w)
    PROVE  /\ Loaded(s, 0, a2, w)
           /\ \A b : Pending(s, 0, a, b) <=> Pending(s, 0, a2, b)
<1>1. 1 .. 0 = {}
  OBVIOUS
<1>2. Loaded(s, 0, a2, w)
  BY <1>1 DEF Loaded
<1>3. \A b : Pending(s, 0, a, b) <=> Pending(s, 0, a2, b)
  BY <1>1, Zenon DEF Pending
<1> QED
  BY <1>2, <1>3

\* Nothing is pending in nothing.
LEMMA NothingPending ==
    ASSUME NEW a, NEW w
    PROVE  Loaded(<<>>, 0, a, w) /\ \A b : ~Pending(<<>>, 0, a, b)
<1>1. Len(<<>>) = 0 /\ 1 .. 0 = {}
  OBVIOUS
<1> QED
  BY <1>1 DEF Loaded, Pending

\* The simulator takes the next block of its put: it is the right one, and the
\* rest is what is left.
LEMMA LoadedTakeBlock ==
    ASSUME NEW s \in Seq(Requests), NEW d \in Nat, NEW a \in Nat, NEW w, OfBlocks(w),
           Loaded(s, d, a, w), d > 0
    PROVE  /\ s # <<>> /\ a \in DOMAIN w /\ Head(s) = w[a]
           /\ Loaded(Tail(s), d - 1, a + 1, w)
           /\ \A b : Pending(s, d, a, b) => b = a \/ Pending(Tail(s), d - 1, a + 1, b)
<1>1. Len(s) \in Nat /\ d <= Len(s) /\ s # <<>>
  BY DEF Loaded
<1>2. a \in DOMAIN w /\ s[1] = w[a] /\ s[1].kind = "data"
  <2>1. 1 \in 1 .. d /\ a + 1 - 1 = a
    OBVIOUS
  <2>2. a + 1 - 1 \in DOMAIN w /\ s[1] = w[a + 1 - 1]
    BY <2>1 DEF Loaded
  <2> QED
    BY <2>1, <2>2 DEF OfBlocks, Blocks
<1> DEFINE t == Tail(s)
<1>3. /\ t \in Seq(Requests) /\ Len(t) = Len(s) - 1
      /\ \A i \in 1 .. Len(t) : t[i] = s[i + 1] /\ i + 1 \in 1 .. Len(s)
  BY <1>1, HeadTailProperties
<1> HIDE DEF t
<1>4. \A c \in 1 .. Len(s) : s[c].kind = "Put" =>
          c - 1 \in 1 .. Len(t) /\ t[c - 1] = s[c] /\ s[c].num \in Nat /\ s[c].start \in Nat
  <2> SUFFICES ASSUME NEW c \in 1 .. Len(s), s[c].kind = "Put"
               PROVE  c - 1 \in 1 .. Len(t) /\ t[c - 1] = s[c]
                      /\ s[c].num \in Nat /\ s[c].start \in Nat
    OBVIOUS
  <2>1. c # 1
    BY <1>2
  <2>2. c - 1 \in 1 .. Len(t) /\ c - 1 + 1 = c
    BY <1>1, <1>3, <2>1
  <2>3. s[c] \in Requests
    OBVIOUS
  <2> QED
    BY <1>3, <2>2, <2>3, KindsOfRequests
<1>5. d - 1 <= Len(t) /\ d - 1 \in Nat
  BY <1>1, <1>3
<1>6. ASSUME NEW m \in 1 .. d - 1
      PROVE  a + 1 + m - 1 \in DOMAIN w /\ t[m] = w[a + 1 + m - 1]
  <2>1. m \in 1 .. Len(t) /\ m + 1 \in 1 .. d /\ a + 1 + m - 1 = a + (m + 1) - 1
    BY <1>5, <1>3, <1>1
  <2> QED
    BY <1>3, <2>1 DEF Loaded
<1>7. ASSUME NEW c \in 1 .. Len(t), t[c].kind = "Put"
      PROVE  /\ c + t[c].num <= Len(t)
             /\ \A m \in 1 .. t[c].num : /\ t[c].start + m - 1 \in DOMAIN w
                                         /\ t[c + m] = w[t[c].start + m - 1]
  <2>1. c + 1 \in 1 .. Len(s) /\ s[c + 1] = t[c]
    BY <1>3
  <2>2. /\ c + 1 + t[c].num <= Len(s) /\ t[c].num \in Nat
        /\ \A m \in 1 .. t[c].num : /\ t[c].start + m - 1 \in DOMAIN w
                                    /\ s[c + 1 + m] = w[t[c].start + m - 1]
    BY <1>4, <1>7, <2>1 DEF Loaded
  <2>3. ASSUME NEW m \in 1 .. t[c].num PROVE t[c + m] = s[c + 1 + m]
    <3>1. c + m \in 1 .. Len(t) /\ c + m + 1 = c + 1 + m
      BY <1>1, <1>3, <2>2
    <3> QED
      BY <1>3, <3>1
  <2>4. c + t[c].num <= Len(t)
    BY <1>1, <1>3, <2>2
  <2> QED
    BY <2>2, <2>3, <2>4
<1>8. ASSUME NEW j \in 1 .. Len(t), t[j].kind = "data"
      PROVE  j <= d - 1 \/ \E c \in 1 .. j - 1 : t[c].kind = "Put" /\ j <= c + t[c].num
  <2>1. j + 1 \in 1 .. Len(s) /\ s[j + 1] = t[j]
    BY <1>3
  <2>2. \/ j + 1 <= d
        \/ \E c \in 1 .. j : s[c].kind = "Put" /\ j + 1 <= c + s[c].num
    BY <1>8, <2>1 DEF Loaded
  <2>3. CASE j + 1 <= d
    BY <2>3
  <2>4. ASSUME NEW c \in 1 .. j, s[c].kind = "Put", j + 1 <= c + s[c].num
        PROVE  c - 1 \in 1 .. j - 1 /\ t[c - 1].kind = "Put" /\ j <= c - 1 + t[c - 1].num
    <3>1. c \in 1 .. Len(s)
      BY <1>1, <1>3
    <3>2. c - 1 \in 1 .. Len(t) /\ t[c - 1] = s[c] /\ s[c].num \in Nat
      BY <1>4, <2>4, <3>1
    <3> QED
      BY <2>4, <3>2
  <2> QED
    BY <2>2, <2>3, <2>4
<1>9. Loaded(t, d - 1, a + 1, w)
  BY <1>5, <1>6, <1>7, <1>8 DEF Loaded
<1>10. ASSUME NEW b, Pending(s, d, a, b)
       PROVE  b = a \/ Pending(t, d - 1, a + 1, b)
  <2>1. ASSUME NEW m \in 1 .. d, b = a + m - 1
        PROVE  b = a \/ (m - 1 \in 1 .. d - 1 /\ b = a + 1 + (m - 1) - 1)
    BY <2>1
  <2>2. ASSUME NEW c \in 1 .. Len(s), s[c].kind = "Put",
               NEW m \in 1 .. s[c].num, b = s[c].start + m - 1
        PROVE  Pending(t, d - 1, a + 1, b)
    BY <1>4, <2>2 DEF Pending
  <2> QED
    BY <1>10, <2>1, <2>2 DEF Pending
<1> QED
  BY <1>1, <1>2, <1>9, <1>10 DEF t

\* It takes the command of a put: the blocks of the put come next.
LEMMA LoadedTakePut ==
    ASSUME NEW s \in Seq(Requests), NEW a, NEW w,
           Loaded(s, 0, a, w), s # <<>>, Head(s).kind = "Put"
    PROVE  /\ Loaded(Tail(s), Head(s).num, Head(s).start, w)
           /\ \A b : Pending(s, 0, a, b) => Pending(Tail(s), Head(s).num, Head(s).start, b)
<1> DEFINE t == Tail(s)
           n == s[1].num
           f == s[1].start
<1>1. Len(s) \in Nat /\ Len(s) >= 1 /\ s[1].kind = "Put" /\ Head(s) = s[1]
  OBVIOUS
<1>2. /\ t \in Seq(Requests) /\ Len(t) = Len(s) - 1
      /\ \A i \in 1 .. Len(t) : t[i] = s[i + 1] /\ i + 1 \in 1 .. Len(s)
  BY HeadTailProperties
<1> HIDE DEF t
<1>3. \A c \in 1 .. Len(s) : s[c].kind = "Put" => s[c].num \in Nat /\ s[c].start \in Nat
  BY KindsOfRequests
<1>4. n \in Nat /\ f \in Nat
  BY <1>1, <1>3
<1>5. /\ 1 + n <= Len(s)
      /\ \A m \in 1 .. n : f + m - 1 \in DOMAIN w /\ s[1 + m] = w[f + m - 1]
  BY <1>1 DEF Loaded
<1> HIDE DEF n, f
<1>6. /\ n <= Len(t)
      /\ \A m \in 1 .. n : f + m - 1 \in DOMAIN w /\ t[m] = w[f + m - 1]
  <2>1. n <= Len(t)
    BY <1>1, <1>2, <1>4, <1>5
  <2>2. \A m \in 1 .. n : m \in 1 .. Len(t) /\ m + 1 = 1 + m
    BY <1>2, <1>4, <2>1
  <2> QED
    BY <1>2, <1>5, <2>1, <2>2
<1>7. ASSUME NEW c \in 1 .. Len(t), t[c].kind = "Put"
      PROVE  /\ c + t[c].num <= Len(t)
             /\ \A m \in 1 .. t[c].num : /\ t[c].start + m - 1 \in DOMAIN w
                                         /\ t[c + m] = w[t[c].start + m - 1]
  <2>1. c + 1 \in 1 .. Len(s) /\ s[c + 1] = t[c]
    BY <1>2
  <2>2. /\ c + 1 + t[c].num <= Len(s) /\ t[c].num \in Nat
        /\ \A m \in 1 .. t[c].num : /\ t[c].start + m - 1 \in DOMAIN w
                                    /\ s[c + 1 + m] = w[t[c].start + m - 1]
    BY <1>3, <1>7, <2>1 DEF Loaded
  <2>3. ASSUME NEW m \in 1 .. t[c].num PROVE t[c + m] = s[c + 1 + m]
    <3>1. c + m \in 1 .. Len(t) /\ c + m + 1 = c + 1 + m
      BY <1>1, <1>2, <2>2
    <3> QED
      BY <1>2, <3>1
  <2>4. c + t[c].num <= Len(t)
    BY <1>1, <1>2, <2>2
  <2> QED
    BY <2>2, <2>3, <2>4
<1>8. ASSUME NEW j \in 1 .. Len(t), t[j].kind = "data"
      PROVE  j <= n \/ \E c \in 1 .. j - 1 : t[c].kind = "Put" /\ j <= c + t[c].num
  <2>1. j + 1 \in 1 .. Len(s) /\ s[j + 1] = t[j]
    BY <1>2
  <2>2. PICK c \in 1 .. j : s[c].kind = "Put" /\ j + 1 <= c + s[c].num
    <3>1. j + 1 <= 0 \/ \E c \in 1 .. (j + 1) - 1 : s[c].kind = "Put" /\ j + 1 <= c + s[c].num
      BY <1>8, <2>1 DEF Loaded
    <3>2. (j + 1) - 1 = j /\ ~(j + 1 <= 0)
      OBVIOUS
    <3> QED
      BY <3>1, <3>2
  <2>3. CASE c = 1
    BY <1>4, <2>2, <2>3 DEF n
  <2>4. CASE c # 1
    <3>1. c - 1 \in 1 .. Len(t) /\ c - 1 \in 1 .. j - 1 /\ c - 1 + 1 = c /\ c \in 1 .. Len(s)
      BY <1>1, <1>2, <2>4
    <3>2. t[c - 1] = s[c] /\ s[c].num \in Nat
      BY <1>2, <1>3, <2>2, <3>1
    <3>3. j <= c - 1 + t[c - 1].num
      BY <2>2, <3>2
    <3> QED
      BY <2>2, <3>1, <3>2, <3>3
  <2> QED
    BY <2>3, <2>4
<1>9. Loaded(t, n, f, w)
  BY <1>6, <1>7, <1>8 DEF Loaded
<1>10. ASSUME NEW b, Pending(s, 0, a, b) PROVE Pending(t, n, f, b)
  <2>1. PICK c \in 1 .. Len(s) :
            s[c].kind = "Put" /\ \E m \in 1 .. s[c].num : b = s[c].start + m - 1
    BY <1>10 DEF Pending
  <2>2. CASE c = 1
    BY <2>1, <2>2 DEF Pending, n, f
  <2>3. CASE c # 1
    <3>1. c - 1 \in 1 .. Len(t) /\ c - 1 + 1 = c
      BY <1>1, <1>2, <2>3
    <3>2. t[c - 1] = s[c]
      BY <1>2, <3>1
    <3> QED
      BY <2>1, <3>1, <3>2 DEF Pending
  <2> QED
    BY <2>2, <2>3
<1> QED
  BY <1>1, <1>9, <1>10 DEF t, n, f
\* A single command that is no put loads nothing.
LEMMA LastCommand ==
    ASSUME NEW s, NEW a, NEW w, Loaded(s, 0, a, w), Len(s) = 1, s[1].kind \notin {"Put", "data"}
    PROVE  \A b : ~Pending(s, 0, a, b)
<1>1. \A c \in 1 .. Len(s) : c = 1
  OBVIOUS
<1> QED
  BY <1>1 DEF Pending

\* What follows may be any sequence in which every put has its blocks; more
\* blocks may have been written.
LEMMA LoadedAppend ==
    ASSUME NEW s \in Seq(Requests), NEW d \in Nat, NEW a \in Nat, NEW w, NEW w2,
           NEW t \in Seq(Requests), Loaded(s, d, a, w), Loaded(t, 0, 0, w2),
           \A b \in DOMAIN w : b \in DOMAIN w2 /\ w2[b] = w[b]
    PROVE  /\ Loaded(s \o t, d, a, w2)
           /\ \A b : Pending(s, d, a, b) \/ Pending(t, 0, 0, b) => Pending(s \o t, d, a, b)
<1> DEFINE u == s \o t
           n == Len(s)
<1>1. /\ n \in Nat /\ Len(t) \in Nat /\ u \in Seq(Requests) /\ Len(u) = n + Len(t)
      /\ \A i \in 1 .. n + Len(t) : u[i] = IF i <= n THEN s[i] ELSE t[i - n]
  BY ConcatProperties
<1>2. d <= n /\ n \in Nat /\ Len(t) \in Nat
  BY DEF Loaded
<1> HIDE DEF u
<1>3. /\ \A i \in 1 .. n : i \in 1 .. Len(u) /\ u[i] = s[i]
      /\ \A i \in 1 .. Len(t) : n + i \in 1 .. Len(u) /\ u[n + i] = t[i]
  <2>1. \A i \in 1 .. n : i \in 1 .. Len(u) /\ u[i] = s[i]
    BY <1>1
  <2>2. \A i \in 1 .. Len(t) : n + i \in 1 .. n + Len(t) /\ ~(n + i <= n) /\ n + i - n = i
    BY <1>1
  <2> QED
    BY <1>1, <2>1, <2>2
<1>4. \A i \in 1 .. Len(u) : i \in 1 .. n \/ (i - n \in 1 .. Len(t) /\ n + (i - n) = i)
  BY <1>1
<1>5. \A x \in Requests : x.kind = "Put" => x.num \in Nat
  BY KindsOfRequests
<1>6. \A m \in 1 .. d : a + m - 1 \in DOMAIN w2 /\ u[m] = w2[a + m - 1]
  <2> SUFFICES ASSUME NEW m \in 1 .. d PROVE a + m - 1 \in DOMAIN w2 /\ u[m] = w2[a + m - 1]
    OBVIOUS
  <2>1. m \in 1 .. n
    BY <1>1, <1>2
  <2>2. a + m - 1 \in DOMAIN w /\ s[m] = w[a + m - 1]
    BY DEF Loaded
  <2> QED
    BY <1>3, <2>1, <2>2
<1>7. ASSUME NEW c \in 1 .. Len(u), u[c].kind = "Put"
      PROVE  /\ c + u[c].num <= Len(u)
             /\ \A m \in 1 .. u[c].num : /\ u[c].start + m - 1 \in DOMAIN w2
                                         /\ u[c + m] = w2[u[c].start + m - 1]
  <2>1. CASE c \in 1 .. n
    <3>1. u[c] = s[c] /\ s[c].num \in Nat
      BY <1>3, <1>5, <1>7, <2>1
    <3>2. /\ c + s[c].num <= n
          /\ \A m \in 1 .. s[c].num : /\ s[c].start + m - 1 \in DOMAIN w
                                      /\ s[c + m] = w[s[c].start + m - 1]
      BY <1>7, <2>1, <3>1 DEF Loaded
    <3>3. ASSUME NEW m \in 1 .. s[c].num PROVE u[c + m] = s[c + m]
      <4>1. c + m \in 1 .. n
        BY <1>1, <3>1, <3>2, <2>1
      <4> QED
        BY <1>3, <4>1
    <3>4. c + s[c].num <= Len(u)
      BY <1>1, <2>1, <3>1, <3>2
    <3> QED
      BY <3>1, <3>2, <3>3, <3>4
  <2>2. ASSUME NEW e \in 1 .. Len(t), c = n + e
        PROVE  /\ c + u[c].num <= Len(u)
               /\ \A m \in 1 .. u[c].num : /\ u[c].start + m - 1 \in DOMAIN w2
                                           /\ u[c + m] = w2[u[c].start + m - 1]
    <3>1. u[c] = t[e] /\ t[e].num \in Nat
      BY <1>3, <1>5, <1>7, <2>2
    <3>2. /\ e + t[e].num <= Len(t)
          /\ \A m \in 1 .. t[e].num : /\ t[e].start + m - 1 \in DOMAIN w2
                                      /\ t[e + m] = w2[t[e].start + m - 1]
      BY <1>7, <3>1 DEF Loaded
    <3>3. ASSUME NEW m \in 1 .. t[e].num PROVE u[c + m] = t[e + m]
      <4>1. e + t[e].num <= Len(t) /\ m \in 1 .. t[e].num /\ t[e].num \in Nat
        BY <3>1, <3>2
      <4>2. e + m \in 1 .. Len(t) /\ c + m = n + (e + m)
        BY <1>2, <2>2, <4>1
      <4> QED
        BY <1>3, <4>2
    <3>4. c + t[e].num <= Len(u)
      BY <1>1, <2>2, <3>1, <3>2
    <3> QED
      BY <3>1, <3>2, <3>3, <3>4
  <2>3. c \in 1 .. n \/ (c - n \in 1 .. Len(t) /\ c = n + (c - n))
    BY <1>4
  <2> QED
    BY <2>1, <2>2, <2>3
<1>8. ASSUME NEW j \in 1 .. Len(u), u[j].kind = "data"
      PROVE  j <= d \/ \E c \in 1 .. j - 1 : u[c].kind = "Put" /\ j <= c + u[c].num
  <2>1. CASE j \in 1 .. n
    <3>1. j <= d \/ \E c \in 1 .. j - 1 : s[c].kind = "Put" /\ j <= c + s[c].num
      BY <1>3, <1>8, <2>1 DEF Loaded
    <3>2. \A c \in 1 .. j - 1 : u[c] = s[c]
      BY <1>1, <1>3, <2>1
    <3> QED
      BY <3>1, <3>2
  <2>2. ASSUME NEW e \in 1 .. Len(t), j = n + e
        PROVE  \E c \in 1 .. j - 1 : u[c].kind = "Put" /\ j <= c + u[c].num
    <3>1. t[e].kind = "data" /\ ~(e <= 0)
      <4>1. u[n + e] = t[e] /\ u[n + e].kind = "data"
        BY <1>3, <1>8, <2>2
      <4> QED
        BY <4>1
    <3>2. PICK c \in 1 .. e - 1 : t[c].kind = "Put" /\ e <= c + t[c].num
      <4>1. \A i \in 1 .. Len(t) : t[i].kind = "data" =>
                i <= 0 \/ \E c \in 1 .. i - 1 : t[c].kind = "Put" /\ i <= c + t[c].num
        BY DEF Loaded
      <4> QED
        BY <3>1, <4>1
    <3>3. c \in 1 .. Len(t) /\ n + c \in 1 .. j - 1
      BY <1>1, <2>2
    <3>4. u[n + c] = t[c] /\ t[c].num \in Nat
      BY <1>3, <1>5, <3>2, <3>3
    <3>5. j <= n + c + u[n + c].num
      BY <1>1, <2>2, <3>2, <3>4
    <3> QED
      BY <3>2, <3>3, <3>4, <3>5
  <2>3. j \in 1 .. n \/ (j - n \in 1 .. Len(t) /\ j = n + (j - n))
    BY <1>4
  <2> QED
    BY <2>1, <2>2, <2>3
<1>9. d <= Len(u)
  BY <1>1, <1>2
<1>10. Loaded(u, d, a, w2)
  BY <1>6, <1>7, <1>8, <1>9 DEF Loaded
<1>11. ASSUME NEW b, Pending(s, d, a, b) PROVE Pending(u, d, a, b)
  BY <1>3, <1>11 DEF Pending
<1>12. ASSUME NEW b, Pending(t, 0, 0, b) PROVE Pending(u, d, a, b)
  <2>1. PICK c \in 1 .. Len(t) :
            t[c].kind = "Put" /\ \E m \in 1 .. t[c].num : b = t[c].start + m - 1
    BY <1>12 DEF Pending
  <2>2. n + c \in 1 .. Len(u) /\ u[n + c] = t[c]
    BY <1>3
  <2> QED
    BY <2>1, <2>2 DEF Pending
<1> QED
  BY <1>10, <1>11, <1>12 DEF u

\* What a call writes: one command, or a put with its blocks.
LEMMA LoadedCommand ==
    ASSUME NEW c \in Commands, NEW w, c.kind # "Put"
    PROVE  Loaded(<<c>>, 0, 0, w)
<1>1. c.kind # "data"
  BY DEF Commands, Queries
<1>2. Len(<<c>>) = 1 /\ <<c>>[1] = c
  OBVIOUS
<1>3. \A i \in 1 .. Len(<<c>>) : <<c>>[i] = c
  BY <1>2
<1>4. 0 <= Len(<<c>>) /\ \A m \in 1 .. 0 : FALSE
  BY <1>2
<1> QED
  BY <1>1, <1>3, <1>4 DEF Loaded

\* A put with its blocks is such a sequence, and its blocks are pending.
LEMMA LoadedPut ==
    ASSUME NEW c \in Commands, NEW data \in Seq(Blocks), NEW w, c.kind = "Put",
           c.num = Len(data),
           \A m \in 1 .. c.num : c.start + m - 1 \in DOMAIN w /\ data[m] = w[c.start + m - 1]
    PROVE  /\ <<c>> \o data \in Seq(Requests)
           /\ Loaded(<<c>> \o data, 0, 0, w)
           /\ \A m \in 1 .. c.num : Pending(<<c>> \o data, 0, 0, c.start + m - 1)
           /\ OnlyPuts(<<c>> \o data, Len(<<c>> \o data))
<1> DEFINE t == <<c>> \o data
<1>1. <<c>> \in Seq(Requests) /\ data \in Seq(Requests) /\ Len(data) \in Nat /\ c.start \in Nat
  BY DEF Requests, Commands
<1>2. /\ t \in Seq(Requests) /\ Len(t) = 1 + Len(data) /\ t[1] = c
      /\ \A i \in 1 .. Len(data) : t[1 + i] = data[i] /\ data[i].kind = "data"
  <2>1. /\ t \in Seq(Requests) /\ Len(t) = 1 + Len(data)
        /\ \A i \in 1 .. 1 + Len(data) : t[i] = IF i <= 1 THEN c ELSE data[i - 1]
    BY <1>1, ConcatProperties
  <2>2. \A i \in 1 .. Len(data) : data[i] \in Blocks
    OBVIOUS
  <2>3. \A i \in 1 .. Len(data) : data[i].kind = "data"
    BY <2>2 DEF Blocks
  <2>4. \A i \in 1 .. Len(data) : 1 + i \in 1 .. 1 + Len(data) /\ ~(1 + i <= 1) /\ 1 + i - 1 = i
    BY <1>1
  <2> QED
    BY <1>1, <2>1, <2>3, <2>4
<1> HIDE DEF t
<1>3. \A i \in 1 .. Len(t) : i = 1 \/ (i - 1 \in 1 .. Len(data) /\ i = 1 + (i - 1))
  BY <1>1, <1>2
<1>4. ASSUME NEW i \in 1 .. Len(t)
      PROVE  t[i].kind \in {"Put", "data"} /\ (t[i].kind = "Put" => i = 1)
  <2>1. CASE i = 1
    BY <1>2, <2>1
  <2>2. CASE i # 1
    <3>1. t[i] = data[i - 1] /\ data[i - 1].kind = "data"
      BY <1>2, <1>3, <2>2
    <3> QED
      BY <3>1
  <2> QED
    BY <2>1, <2>2
<1>5. \A i \in 1 .. Len(t) : t[i].kind = "Put" => i = 1
  BY <1>4
<1>6. Loaded(t, 0, 0, w)
  <2>1. \A i \in 1 .. Len(t) : t[i].kind = "Put" =>
            /\ i + t[i].num <= Len(t)
            /\ \A m \in 1 .. t[i].num : /\ t[i].start + m - 1 \in DOMAIN w
                                        /\ t[i + m] = w[t[i].start + m - 1]
    BY <1>2, <1>5
  <2>2. ASSUME NEW j \in 1 .. Len(t), t[j].kind = "data"
        PROVE  \E i \in 1 .. j - 1 : t[i].kind = "Put" /\ j <= i + t[i].num
    <3>1. j # 1
      BY <1>2, <2>2
    <3>2. 1 \in 1 .. j - 1 /\ j <= 1 + c.num
      BY <1>1, <1>2, <3>1
    <3> QED
      BY <1>2, <3>2
  <2>3. 0 <= Len(t) /\ \A m \in 1 .. 0 : FALSE
    BY <1>1, <1>2
  <2> QED
    BY <2>1, <2>2, <2>3 DEF Loaded
<1>7. \A m \in 1 .. c.num : Pending(t, 0, 0, c.start + m - 1)
  <2>1. 1 \in 1 .. Len(t)
    BY <1>1, <1>2
  <2> QED
    BY <1>2, <2>1 DEF Pending
<1> QED
  BY <1>2, <1>4, <1>6, <1>7 DEF t, OnlyPuts
-----------------------------------------------------------------------------
(* Steps that change none of what a part of the invariant is about.          *)

\* A step that leaves what is on its way and what is stored.
LEMMA PutsKept ==
    ASSUME Puts, Incoming' = Incoming, Left' = Left,
           Left = 0 \/ UNCHANGED <<request, block_offset>>,
           UNCHANGED <<anon_pages, written>>
    PROVE  Puts'
<1>1. CASE UNCHANGED <<request, block_offset>>
  BY <1>1 DEF Puts
<1>2. CASE Left = 0
  <2> DEFINE a == request.start + block_offset
             a2 == (request.start + block_offset)'
  <2>1. Loaded(Incoming, 0, a, written)
    BY <1>2 DEF Puts
  <2>2. /\ Loaded(Incoming, 0, a2, written)
        /\ \A b : Pending(Incoming, 0, a, b) <=> Pending(Incoming, 0, a2, b)
    BY <2>1, LoadedAnywhere
  <2> QED
    BY <1>2, <2>2 DEF Puts
<1> QED
  BY <1>1, <1>2

\* A step that leaves what the simulator has still to take, and the answer: a part
\* of it may have moved on towards the database.
LEMMA CallsKept ==
    ASSUME Calls, Incoming' = Incoming, Reply' = Reply,
           NoAnswer => NoAnswer' /\ received' = received,
           Serving' <=> Serving, Serving => block_offset' = block_offset,
           UNCHANGED <<call, expected, read_range, scan, request, written>>,
           to_send = <<>> => to_send' = <<>>,
           phase # "Placing" => /\ phase' # "Placing"
                                /\ UNCHANGED <<anon_start_index, files>>
    PROVE  Calls'
<1>1. Quiet => Quiet'
  BY DEF Quiet
<1>2. TheCommand' = TheCommand
  BY DEF TheCommand, Opening, GetStart
<1>3. Asked => Asked'
  BY <1>2 DEF Asked
<1>4. Answering => Answering'
  <2> SUFFICES ASSUME Answering PROVE Answering'
    OBVIOUS
  <2>1. phase # "Placing" /\ phase' # "Placing" /\ UNCHANGED <<anon_start_index, files>>
    BY DEF Answering
  <2>2. \A i : Due(i)' = Due(i)
    BY <2>1 DEF Due
  <2>3. GetStart' = GetStart
    BY DEF GetStart
  <2> QED
    BY <2>1, <2>2, <2>3 DEF Answering
<1> QED
  BY <1>1, <1>3, <1>4 DEF Calls, Asking

\* A block of a put, or the command of one, is taken.
LEMMA CallsTail ==
    ASSUME Calls, Incoming \in Seq(Requests), Incoming # <<>>,
           Head(Incoming).kind \in {"Put", "data"}, Incoming' = Tail(Incoming),
           UNCHANGED <<to_send, from_disk, out_buf, received>>, ~Serving',
           UNCHANGED <<call, expected, read_range, scan>>, SessionTypeOK
    PROVE  Calls'
<1>1. /\ Incoming' \in Seq(Requests) /\ Len(Incoming') = Len(Incoming) - 1
      /\ Len(Incoming) \in Nat /\ Len(Incoming) >= 1
      /\ \A i \in 1 .. Len(Incoming') : Incoming'[i] = Incoming[i + 1]
  BY HeadTailProperties
<1> HIDE DEF Incoming
<1>2. Quiet => Quiet'
  <2> SUFFICES ASSUME Quiet PROVE OnlyPuts(Incoming', Len(Incoming'))
    BY DEF Quiet, NoAnswer
  <2>1. \A i \in 1 .. Len(Incoming') : i + 1 \in 1 .. Len(Incoming)
    BY <1>1
  <2> QED
    BY <1>1, <2>1 DEF Quiet, OnlyPuts
<1>3. Asking /\ Asked => Asked'
  <2> SUFFICES ASSUME Asking, Asked
               PROVE  /\ Incoming' # <<>> /\ Incoming'[Len(Incoming')] = TheCommand'
                      /\ OnlyPuts(Incoming', Len(Incoming') - 1)
    BY DEF Asked, NoAnswer
  <2>1. TheCommand' = TheCommand /\ TheCommand.kind \notin {"Put", "data"}
    BY DEF TheCommand, Opening, GetStart, Command, Asking, SessionTypeOK, Queries
  <2>2. Len(Incoming) # 1
    BY <2>1 DEF Asked
  <2>3. /\ Len(Incoming') >= 1 /\ Len(Incoming') \in 1 .. Len(Incoming')
        /\ Len(Incoming') + 1 = Len(Incoming)
    BY <1>1, <2>2
  <2>4. Incoming' # <<>> /\ Incoming'[Len(Incoming')] = Incoming[Len(Incoming)]
    <3>1. \A s \in Seq(Requests) : Len(s) >= 1 => s # <<>>
      OBVIOUS
    <3>2. Incoming'[Len(Incoming')] = Incoming[Len(Incoming') + 1]
      BY <1>1, <2>3
    <3> QED
      BY <1>1, <2>3, <3>1, <3>2
  <2>5. \A i \in 1 .. Len(Incoming') - 1 : i \in 1 .. Len(Incoming')
                                           /\ i + 1 \in 1 .. Len(Incoming) - 1
    BY <1>1, <2>3
  <2> QED
    BY <1>1, <2>1, <2>4, <2>5 DEF Asked, OnlyPuts
<1>4. ~Answering
  BY DEF Answering
<1> QED
  BY <1>2, <1>3, <1>4 DEF Calls, Asking

\* A step that leaves the database as it is, and the files once they are placed.
LEMMA ScanCallsKept ==
    ASSUME ScanCalls, Phases, SessionTypeOK,
           UNCHANGED <<client, scan, call, config, read_range, expected, written>>,
           phase # "Placing" => files' = files
    PROVE  ScanCalls'
<1>1. CASE files' = files
  BY <1>1 DEF ScanCalls, Opening
<1>2. CASE phase = "Placing"
  <2>1. client = "New" /\ call \in {"None", "block-size", "anon-start-block"}
    BY <1>2 DEF Phases
  <2>2. ~Opening /\ scan = NoScan
    BY <2>1 DEF ScanCalls, Opening
  <2>3. scan.file = 0
    BY <2>2 DEF NoScan
  <2> QED
    BY <2>1, <2>2, <2>3 DEF ScanCalls, Opening
<1> QED
  BY <1>1, <1>2
-----------------------------------------------------------------------------
(* The steps of the simulator.                                               *)

\* The types and the lengths of what is in the pipes.
LEMMA PipeTypes ==
    ASSUME SessionTypeOK
    PROVE  /\ Incoming \in Seq(Requests) /\ received \o from_disk \in Seq(Answers)
           /\ Reply \in Seq(Answers)
           /\ Len(Incoming) = Len(to_disk) + Len(to_send)
           /\ Len(Reply) = Len(received) + Len(from_disk) + Len(out_buf)
           /\ Len(Incoming) \in Nat /\ Len(Reply) \in Nat
<1>1. Incoming \in Seq(Requests) /\ Len(Incoming) = Len(to_disk) + Len(to_send)
  BY ConcatProperties DEF SessionTypeOK, Incoming
<1>2. /\ received \o from_disk \in Seq(Answers)
      /\ Len(received \o from_disk) = Len(received) + Len(from_disk)
  BY ConcatProperties DEF SessionTypeOK
<1>3. out_buf \in Seq(Answers)
  BY DEF SessionTypeOK
<1>4. Reply \in Seq(Answers) /\ Len(Reply) = Len(received \o from_disk) + Len(out_buf)
  BY <1>2, <1>3, ConcatProperties DEF Reply
<1> QED
  BY <1>1, <1>2, <1>4

\* Steps that take nothing and answer nothing.
LEMMA StillStep ==
    ASSUME Works, SessionTypeOK', Phases', UNCHANGED clientVars,
           UNCHANGED <<to_disk, from_disk, out_buf, anon_pages, request, block_offset, config>>,
           Left' = Left, Serving' <=> Serving,
           phase # "Placing" => phase' # "Placing" /\ UNCHANGED <<anon_start_index, files>>
    PROVE  Works'
<1>1. UNCHANGED <<call, to_send, expected, received, client, scan, read_range, written>>
  BY DEF clientVars, callVars, scanVars, readVars
<1>2. Incoming' = Incoming /\ Reply' = Reply /\ (NoAnswer => NoAnswer')
  BY <1>1 DEF Incoming, Reply, NoAnswer
<1>3. Puts'
  BY <1>1, <1>2, PutsKept DEF Works
<1>4. Calls'
  BY <1>1, <1>2, CallsKept DEF Works
<1>5. ScanCalls'
  BY <1>1, ScanCallsKept DEF Works
<1> QED
  BY <1>3, <1>4, <1>5 DEF Works

\* The simulator places a file.
LEMMA PlaceFileWorks ==
    ASSUME Works, LayoutInv, PlaceFile, UNCHANGED clientVars
    PROVE  Works'
<1> DEFINE file == [start |-> current_position, num |-> config[Len(files) + 1]]
<1>0. UNCHANGED <<client, call, to_send, expected, received, anon_start, next_anon_block, scan,
                  written, read_range>>
  BY DEF clientVars, callVars, scanVars, readVars
<1>1. /\ phase = "Placing" /\ phase' = phase /\ files' = Append(files, file)
      /\ Len(files) < Len(config)
      /\ UNCHANGED <<config, anon_start_index, anon_pages, request, block_offset, out_buf,
                     to_disk, from_disk, client_open>>
  BY DEF PlaceFile, requestVars
<1>2. SessionTypeOK'
  BY <1>0, <1>1 DEF Works, SessionTypeOK
<1>3. Phases'
  <2>1. /\ Len(files') = Len(files) + 1 /\ Len(files) \in Nat /\ Len(config) \in Nat
        /\ \A f \in DOMAIN files' : \/ f = Len(files) + 1 /\ files'[f] = file
                                    \/ f \in DOMAIN files /\ files'[f] = files[f]
    BY <1>1 DEF LayoutInv, Placed
  <2>2. Len(files') <= Len(config') /\ \A f \in DOMAIN files' : files'[f].num = config'[f]
    BY <1>1, <2>1 DEF Works, Phases
  <2> QED
    BY <1>0, <1>1, <2>2 DEF Works, Phases
<1>4. Left' = Left /\ (Serving' <=> Serving)
  BY <1>1 DEF Left, Serving
<1> QED
  BY <1>1, <1>2, <1>3, <1>4, StillStep

\* It has placed them all: nobody has been told of the anonymous region.
LEMMA FinishLayoutWorks ==
    ASSUME Works, LayoutInv, FinishLayout, UNCHANGED clientVars
    PROVE  Works'
<1>0. UNCHANGED <<client, call, to_send, expected, received, anon_start, next_anon_block, scan,
                  written, read_range>>
  BY DEF clientVars, callVars, scanVars, readVars
<1>1. /\ phase = "Placing" /\ phase' = "Reading" /\ Len(files) = Len(config)
      /\ UNCHANGED <<config, files, anon_pages, request, block_offset, out_buf,
                     to_disk, from_disk, client_open>>
  BY DEF FinishLayout, requestVars
<1>2. anon_start_index' \in Nat
  <2>1. anon_start_index' = Max({EndOfFile(f) : f \in DOMAIN files} \cup {0}) + Gap
    BY DEF FinishLayout
  <2>2. Max({EndOfFile(f) : f \in DOMAIN files} \cup {0}) \in Nat /\ Gap \in Nat
    BY EndsHaveMaximum, DiskAssumption
  <2> QED
    BY <2>1, <2>2
<1>3. SessionTypeOK'
  BY <1>0, <1>1, <1>2 DEF Works, SessionTypeOK
<1>4. Phases'
  BY <1>0, <1>1 DEF Works, Phases
<1>5. Left' = Left /\ (Serving' <=> Serving)
  BY <1>1 DEF Left, Serving
<1> QED
  BY <1>1, <1>3, <1>4, <1>5, StillStep

\* A command is complete and its output flushed.
LEMMA FinishWorks ==
    ASSUME Works, FinishGet \/ FinishPut \/ Flushed, UNCHANGED clientVars
    PROVE  Works'
<1>0. UNCHANGED <<client, call, to_send, expected, received, anon_start, next_anon_block, scan,
                  written, read_range>>
  BY DEF clientVars, callVars, scanVars, readVars
<1>1. /\ phase \in {"Get", "Put", "Flushing"} /\ phase' \in {"Reading", "Flushing"}
      /\ phase # "Flushing" => block_offset = request.num
      /\ UNCHANGED <<config, files, anon_start_index, anon_pages, request, block_offset,
                     out_buf, to_disk, from_disk, client_open>>
  BY DEF FinishGet, FinishPut, Flushed, AfterCommand, requestVars, layoutVars
<1>2. SessionTypeOK'
  BY <1>0, <1>1 DEF Works, SessionTypeOK
<1>3. Phases'
  BY <1>0, <1>1 DEF Works, Phases
<1>4. Left' = Left /\ (Serving' <=> Serving)
  <2>1. request.num \in Nat /\ block_offset \in Nat
    BY DEF Works, SessionTypeOK
  <2> QED
    BY <1>1, <2>1 DEF Left, Serving
<1> QED
  BY <1>1, <1>2, <1>3, <1>4, StillStep

\* The input ends only when the database has closed its pipes, and not before
\* every block of every put has been taken.
LEMMA EndOfInputWorks ==
    ASSUME Works, EndOfInput, UNCHANGED clientVars
    PROVE  Works'
<1>0. UNCHANGED <<client, call, to_send, expected, received, anon_start, next_anon_block, scan,
                  written, read_range>>
  BY DEF clientVars, callVars, scanVars, readVars
<1>1. /\ to_disk = <<>> /\ ~client_open
      /\ UNCHANGED <<config, files, anon_start_index, anon_pages, request, block_offset,
                     out_buf, to_disk, from_disk, client_open>>
  BY DEF EndOfInput, requestVars, layoutVars
<1>2. client = "Closed" /\ call = "None" /\ to_send = <<>>
  BY <1>1 DEF Works, Phases, Calls
<1>3. Left = 0
  <2>1. Len(Incoming) = 0
    BY <1>1, <1>2, PipeTypes DEF Works
  <2>2. Left <= Len(Incoming) /\ Left \in Nat
    BY DEF Works, Puts, Loaded, Left, SessionTypeOK
  <2> QED
    BY <2>1, <2>2
<1>4. phase = "Reading" /\ phase' = "Exited"
  <2>1. request.num \in Nat /\ block_offset \in Nat
    BY DEF Works, SessionTypeOK
  <2>2. ~(phase = "Put" /\ block_offset < request.num)
    BY <1>3, <2>1 DEF Left
  <2> QED
    BY <2>2 DEF EndOfInput
<1>5. SessionTypeOK'
  BY <1>0, <1>1, <1>4 DEF Works, SessionTypeOK
<1>6. Phases'
  BY <1>0, <1>1, <1>2, <1>4 DEF Works, Phases
<1>7. Left' = Left /\ (Serving' <=> Serving)
  BY <1>4 DEF Left, Serving
<1> QED
  BY <1>1, <1>4, <1>5, <1>6, <1>7, StillStep

\* A command other than a put is the command of the call under way, and there
\* is nothing else.
LEMMA HeadIsCommand ==
    ASSUME Works, to_disk # <<>>, Head(to_disk).kind \notin {"Put", "data"}
    PROVE  /\ Asking /\ Asked /\ Len(Incoming) = 1 /\ Incoming[1] = Head(to_disk)
           /\ Head(to_disk) = TheCommand
           /\ Tail(to_disk) = <<>> /\ to_send = <<>>
<1>1. /\ Incoming \in Seq(Requests) /\ Len(Incoming) = Len(to_disk) + Len(to_send)
      /\ Len(Incoming) \in Nat /\ Len(Incoming) >= 1
      /\ to_disk \in Seq(Requests) /\ to_send \in Seq(Requests)
  <2>1. SessionTypeOK
    BY DEF Works
  <2>2. to_disk \in Seq(Requests) /\ to_send \in Seq(Requests)
    BY <2>1 DEF SessionTypeOK
  <2>3. Len(to_disk) >= 1 /\ Len(to_disk) \in Nat /\ Len(to_send) \in Nat
    BY <2>2
  <2> QED
    BY <2>1, <2>2, <2>3, PipeTypes
<1>2. Incoming[1] = Head(to_disk)
  <2>1. Incoming # <<>> /\ Head(Incoming) = Head(to_disk)
    BY <1>1, TakeFirst, BothEmpty DEF Incoming
  <2> QED
    BY <1>1, <2>1
<1>3. ~OnlyPuts(Incoming, Len(Incoming))
  BY <1>1, <1>2 DEF OnlyPuts
<1>4. Asking /\ (Asked \/ Answering)
  BY <1>3 DEF Works, Calls, Quiet
<1>5. ~Answering
  BY <1>1, BothEmpty DEF Answering, Incoming
<1>6. Asked /\ Incoming[Len(Incoming)] = TheCommand /\ OnlyPuts(Incoming, Len(Incoming) - 1)
  BY <1>4, <1>5 DEF Asked
<1>7. Len(Incoming) = 1
  BY <1>1, <1>2, <1>6 DEF OnlyPuts
<1>8. Len(to_disk) = 1 /\ Len(to_send) = 0
  BY <1>1, <1>7
<1>9. Head(to_disk) = TheCommand
  BY <1>2, <1>6, <1>7
<1>10. to_send = <<>>
  BY <1>1, <1>8
<1>11. Tail(to_disk) = <<>>
  <2>1. Tail(to_disk) \in Seq(Requests) /\ Len(Tail(to_disk)) = 0
    BY <1>1, <1>8, HeadTailProperties
  <2>2. \A s \in Seq(Requests) : Len(s) = 0 => s = <<>>
    OBVIOUS
  <2> QED
    BY <2>1, <2>2
<1> QED
  BY <1>2, <1>4, <1>6, <1>7, <1>9, <1>10, <1>11

\* The files are where the simulator says, once they are placed.
LEMMA FilesArePlaced ==
    ASSUME Works, LayoutInv, phase # "Placing"
    PROVE  /\ DOMAIN files = DOMAIN config
           /\ \A f \in DOMAIN files : /\ files[f].start \in Nat /\ files[f].num \in Nat
                                      /\ files[f].num = config[f]
                                      /\ EndOfFile(f) + Gap <= anon_start_index
<1>1. files \in Seq([start : Nat, num : Nat]) /\ config \in Seq(Nat)
  BY DEF LayoutInv, Placed
<1>2. Len(files) = Len(config) /\ \A f \in DOMAIN files : files[f].num = config[f]
  BY DEF Works, Phases
<1>3. \A f \in DOMAIN files : EndOfFile(f) + Gap <= anon_start_index
  BY DEF LayoutInv, LayoutSeparatesFiles
<1>4. \A f \in DOMAIN files : files[f].start \in Nat /\ files[f].num \in Nat
  BY FileNumbers DEF LayoutInv
<1> QED
  BY <1>1, <1>2, <1>3, <1>4

\* What answers the four queries.
LEMMA AnswersToQueries ==
    ASSUME NEW c
    PROVE  /\ c.kind = "block-size" => AnswerTo(c) = BlockSize
           /\ c.kind = "anon-start-block" => AnswerTo(c) = anon_start_index
           /\ c.kind = "file start-block" => AnswerTo(c) = files[c.start].start
           /\ c.kind = "file num-blocks" => AnswerTo(c) = files[c.start].num
<1>1. ASSUME c.kind = "block-size" PROVE AnswerTo(c) = BlockSize
  BY <1>1 DEF AnswerTo
<1>2. ASSUME c.kind = "anon-start-block" PROVE AnswerTo(c) = anon_start_index
  BY <1>2 DEF AnswerTo
<1>3. ASSUME c.kind = "file start-block" PROVE AnswerTo(c) = files[c.start].start
  BY <1>3 DEF AnswerTo
<1>4. ASSUME c.kind = "file num-blocks" PROVE AnswerTo(c) = files[c.start].num
  BY <1>4 DEF AnswerTo
<1> QED
  BY <1>1, <1>2, <1>3, <1>4

\* The answer to the query of the call is the right one.
LEMMA QueryAnswer ==
    ASSUME Works, LayoutInv, phase # "Placing", Asking, TheCommand.kind \in Queries
    PROVE  /\ call # "Get" /\ Line(AnswerTo(TheCommand)) = Due(1)
           /\ Line(AnswerTo(TheCommand)) \in Answers
<1>1. call \in Queries
  <2>1. call = "Get" => TheCommand.kind = "Get"
    BY DEF TheCommand, Opening, Command
  <2>2. call # "Get"
    BY <2>1 DEF Queries
  <2> QED
    BY <2>2 DEF Works, SessionTypeOK, Asking
<1>2. Opening => scan.file \in DOMAIN files
  BY FilesArePlaced DEF Works, ScanCalls
<1>3. \A f \in DOMAIN files : files[f].start \in Nat /\ files[f].num \in Nat
  BY FileNumbers DEF LayoutInv
<1>4. TheCommand.kind = call /\ (Opening => TheCommand.start = scan.file)
  BY <1>1 DEF TheCommand, Opening, Command, Queries
<1>5. CASE call = "block-size"
  <2>1. AnswerTo(TheCommand) = BlockSize
    BY <1>4, <1>5, AnswersToQueries
  <2>2. BlockSize \in Nat
    BY DiskAssumption
  <2> QED
    BY <1>5, <2>1, <2>2 DEF Due, Line, Answers
<1>6. CASE call = "anon-start-block"
  <2>1. AnswerTo(TheCommand) = anon_start_index
    BY <1>4, <1>6, AnswersToQueries
  <2>2. anon_start_index \in Nat
    BY DEF Works, SessionTypeOK
  <2> QED
    BY <1>6, <2>1, <2>2 DEF Due, Line, Answers
<1>7. CASE call = "file start-block"
  <2>1. AnswerTo(TheCommand) = files[scan.file].start /\ files[scan.file].start \in Nat
    BY <1>2, <1>3, <1>4, <1>7, AnswersToQueries DEF Opening
  <2> QED
    BY <1>7, <2>1 DEF Due, Line, Answers
<1>8. CASE call = "file num-blocks"
  <2>1. AnswerTo(TheCommand) = files[scan.file].num /\ files[scan.file].num \in Nat
    BY <1>2, <1>3, <1>4, <1>8, AnswersToQueries DEF Opening
  <2> QED
    BY <1>8, <2>1 DEF Due, Line, Answers
<1> QED
  BY <1>1, <1>5, <1>6, <1>7, <1>8 DEF Queries

\* The simulator takes the last command: nothing is on its way any more.
LEMMA LastTaken ==
    ASSUME Works, to_disk # <<>>, Head(to_disk).kind \notin {"Put", "data"}, Left = 0,
           to_disk' = Tail(to_disk), to_send' = to_send, Left' = 0,
           UNCHANGED <<written, anon_pages>>
    PROVE  Puts' /\ Incoming' = <<>>
<1>1. Len(Incoming) = 1 /\ Incoming[1] = Head(to_disk) /\ to_disk' = <<>> /\ to_send' = <<>>
  BY HeadIsCommand
<1>2. Incoming' = <<>>
  BY <1>1, BothEmpty DEF Incoming
<1> DEFINE a == request.start + block_offset
           a2 == (request.start + block_offset)'
<1>3. Loaded(Incoming, 0, a, written)
  BY DEF Works, Puts
<1>4. \A b : ~Pending(Incoming, 0, a, b)
  BY <1>1, <1>3, LastCommand
<1>5. \A b \in DOMAIN written : b \in DOMAIN anon_pages /\ anon_pages[b] = written[b]
  BY <1>4 DEF Works, Puts
<1>6. Loaded(<<>>, 0, a2, written)
  BY NothingPending
<1> QED
  BY <1>2, <1>5, <1>6 DEF Puts

\* A number is asked for and answered.
LEMMA AnswerQueryWorks ==
    ASSUME Works, LayoutInv, AnswerQuery, UNCHANGED clientVars
    PROVE  Works'
<1>0. UNCHANGED <<client, call, to_send, expected, received, anon_start, next_anon_block, scan,
                  written, read_range>>
  BY DEF clientVars, callVars, scanVars, readVars
<1>1. /\ phase = "Reading" /\ phase' = "Flushing" /\ to_disk # <<>>
      /\ Head(to_disk).kind \in Queries /\ Head(to_disk).kind \notin {"Put", "data"}
      /\ out_buf' = Append(out_buf, Line(AnswerTo(Head(to_disk))))
      /\ to_disk' = Tail(to_disk)
      /\ UNCHANGED <<config, files, anon_start_index, anon_pages, request, block_offset,
                     from_disk, client_open>>
  BY DEF AnswerQuery, AfterCommand, requestVars, layoutVars, Queries
<1> DEFINE x == Line(AnswerTo(TheCommand))
<1>2. Asking /\ Asked /\ Head(to_disk) = TheCommand /\ Tail(to_disk) = <<>> /\ to_send = <<>>
  BY <1>1, HeadIsCommand
<1>3. call # "Get" /\ x = Due(1) /\ x \in Answers
  BY <1>1, <1>2, QueryAnswer
<1> HIDE DEF x
<1>4. received = <<>> /\ from_disk = <<>> /\ out_buf = <<>> /\ out_buf' = <<x>>
  <2>1. received = <<>> /\ from_disk = <<>> /\ out_buf = <<>>
    BY <1>2 DEF Asked, NoAnswer
  <2>2. out_buf' = Append(<<>>, x)
    BY <1>1, <1>2, <2>1 DEF x
  <2> QED
    BY <2>1, <2>2
<1>5. SessionTypeOK'
  <2>1. out_buf' \in Seq(Answers)
    BY <1>3, <1>4
  <2>2. to_disk' \in Seq(Requests)
    <3>1. <<>> \in Seq(Requests)
      OBVIOUS
    <3> QED
      BY <1>1, <1>2, <3>1
  <2> QED
    BY <1>0, <1>1, <2>1, <2>2 DEF Works, SessionTypeOK
<1>6. Phases'
  BY <1>0, <1>1 DEF Works, Phases
<1>7. ScanCalls'
  BY <1>0, <1>1, ScanCallsKept DEF Works
<1>8. Left = 0 /\ Left' = 0
  BY <1>1 DEF Left
<1>9. Puts' /\ Incoming' = <<>>
  BY <1>0, <1>1, <1>8, LastTaken
<1>10. Calls'
  <2>1. Reply' = <<x>>
    <3>1. Reply' = (<<>> \o <<>>) \o <<x>>
      BY <1>0, <1>1, <1>4 DEF Reply
    <3>2. <<>> \o <<>> = <<>> /\ <<>> \o <<x>> = <<x>>
      BY <1>3, ConcatEmptySeq
    <3> QED
      BY <3>1, <3>2
  <2>2. Len(Reply') = 1 /\ \A i \in 1 .. Len(Reply') : Reply'[i] = x /\ i = 1
    <3>1. Len(<<x>>) = 1 /\ <<x>>[1] = x /\ \A i \in 1 .. 1 : i = 1
      OBVIOUS
    <3> QED
      BY <2>1, <3>1
  <2>3. Due(1)' = Due(1)
    BY <1>0, <1>1 DEF Due
  <2>4. ~Serving' /\ expected = 1
    BY <1>1, <1>2, <1>3 DEF Serving, Works, Calls
  <2>5. Answering'
    BY <1>0, <1>1, <1>3, <1>9, <2>2, <2>3, <2>4 DEF Answering
  <2> QED
    BY <1>0, <1>2, <2>4, <2>5 DEF Calls, Asking, Works
<1> QED
  BY <1>5, <1>6, <1>7, <1>9, <1>10 DEF Works

\* Between two puts the next element is no block of data: the simulator always
\* finds a command where it looks for one.
LEMMA NoDataForCommand ==
    ASSUME Works, Left = 0, to_disk # <<>>
    PROVE  Head(to_disk).kind # "data"
<1>1. /\ Incoming \in Seq(Requests) /\ Len(Incoming) >= 1 /\ Incoming[1] = Head(to_disk)
  <2>1. to_disk \in Seq(Requests) /\ to_send \in Seq(Requests) /\ Incoming \in Seq(Requests)
    BY PipeTypes DEF Works, SessionTypeOK
  <2>2. Incoming # <<>> /\ Head(Incoming) = Head(to_disk)
    BY <2>1, TakeFirst, BothEmpty DEF Incoming
  <2> QED
    BY <2>1, <2>2
<1>2. Loaded(Incoming, 0, request.start + block_offset, written)
  BY DEF Works, Puts
<1>3. \A c \in 1 .. 1 - 1 : FALSE
  OBVIOUS
<1>4. 1 \in 1 .. Len(Incoming) /\ ~(1 <= 0)
  BY <1>1
<1> QED
  BY <1>1, <1>2, <1>3, <1>4 DEF Loaded

\* A get is the one the database waits for; a put has its blocks behind it.
LEMMA StartTransferWorks ==
    ASSUME Works, LayoutInv, StartTransfer, UNCHANGED clientVars
    PROVE  Works'
<1> DEFINE c == Head(to_disk)
<1>0. UNCHANGED <<client, call, to_send, expected, received, anon_start, next_anon_block, scan,
                  written, read_range>>
  BY DEF clientVars, callVars, scanVars, readVars
<1>1. /\ phase = "Reading" /\ to_disk # <<>> /\ c.kind \notin Queries
      /\ to_disk' = Tail(to_disk)
      /\ UNCHANGED <<config, files, anon_start_index, anon_pages, out_buf,
                     from_disk, client_open>>
  BY DEF StartTransfer, layoutVars
<1>2. Left = 0 /\ ~Serving
  BY <1>1 DEF Left, Serving
<1>3. c \in Requests /\ Tail(to_disk) \in Seq(Requests)
      /\ to_disk \in Seq(Requests) /\ to_send \in Seq(Requests)
  BY <1>1, HeadTailProperties DEF Works, SessionTypeOK
<1>4. c.kind # "data"
  BY <1>1, <1>2, NoDataForCommand
<1>5. c.kind \in {"Get", "Put"} /\ c.start \in Nat /\ c.num \in Nat
  BY <1>1, <1>3, <1>4, KindsOfRequests
<1>6. phase' = c.kind /\ request' = [start |-> c.start, num |-> c.num] /\ block_offset' = 0
  BY <1>5 DEF StartTransfer
<1> HIDE DEF c
<1>7. SessionTypeOK'
  <2>1. phase' \in {"Get", "Put"} /\ request' \in [start : Nat, num : Nat]
        /\ block_offset' \in 0 .. request'.num
    BY <1>5, <1>6
  <2> QED
    BY <1>0, <1>1, <1>3, <2>1 DEF Works, SessionTypeOK
<1>8. Phases'
  BY <1>0, <1>1, <1>5, <1>6 DEF Works, Phases
<1>9. ScanCalls'
  BY <1>0, <1>1, ScanCallsKept DEF Works
<1>10. CASE c.kind = "Get"
  <2>1. Asking /\ Asked /\ c = TheCommand
    BY <1>1, <1>10, HeadIsCommand DEF c
  <2>2. call = "Get" /\ c = Command("Get", GetStart, expected)
    <3>1. call \in Queries => TheCommand.kind = call
      BY DEF TheCommand, Opening, Command, Queries
    <3>2. call \in Queries \cup {"Get"}
      BY <2>1 DEF Works, SessionTypeOK, Asking
    <3>3. call = "Get"
      BY <1>1, <2>1, <3>1, <3>2
    <3> QED
      BY <2>1, <3>3 DEF TheCommand, Opening
  <2>3. Left' = 0
    BY <1>6, <1>10 DEF Left
  <2>4. Puts' /\ Incoming' = <<>>
    BY <1>0, <1>1, <1>2, <1>10, <2>3, LastTaken DEF c
  <2>5. expected >= 1 /\ expected \in Nat
    BY <2>1 DEF Works, Calls, SessionTypeOK
  <2>6. request' = [start |-> GetStart, num |-> expected]
    BY <1>6, <2>2 DEF Command
  <2>7. Serving'
    BY <1>6, <1>10, <2>5, <2>6 DEF Serving
  <2>8. Reply' = <<>> /\ Len(Reply') = 0
    <3>1. Reply' = (<<>> \o <<>>) \o <<>>
      BY <1>0, <1>1, <2>1 DEF Asked, NoAnswer, Reply
    <3>2. <<>> \o <<>> = <<>> /\ Len(<<>>) = 0
      OBVIOUS
    <3> QED
      BY <3>1, <3>2
  <2>9. Answering'
    <3>1. GetStart' = GetStart
      BY <1>0 DEF GetStart
    <3>2. \A i \in 1 .. Len(Reply') : FALSE
      BY <2>8
    <3> QED
      BY <1>0, <1>6, <1>10, <2>2, <2>4, <2>6, <2>7, <2>8, <3>1, <3>2 DEF Answering
  <2>10. Calls'
    BY <1>0, <2>1, <2>9 DEF Calls, Asking, Works
  <2> QED
    BY <1>7, <1>8, <1>9, <2>4, <2>10 DEF Works
<1>11. CASE c.kind = "Put"
  <2>1. /\ Incoming \in Seq(Requests) /\ Incoming # <<>> /\ Head(Incoming) = c
        /\ Incoming' = Tail(Incoming)
    <3>1. Incoming \in Seq(Requests) /\ Incoming # <<>>
      BY <1>1, <1>3, PipeTypes, BothEmpty DEF Incoming, Works
    <3>2. Head(Incoming) = c /\ Tail(Incoming) = Tail(to_disk) \o to_send
      BY <1>1, <1>3, TakeFirst DEF Incoming, c
    <3> QED
      BY <1>0, <1>1, <3>1, <3>2 DEF Incoming
  <2> DEFINE a == request.start + block_offset
  <2>2. /\ Left' = c.num /\ (request.start + block_offset)' = c.start
    BY <1>5, <1>6, <1>11 DEF Left
  <2>3. Loaded(Incoming, 0, a, written)
    BY <1>2 DEF Works, Puts
  <2>4. /\ Loaded(Tail(Incoming), c.num, c.start, written)
        /\ \A b : Pending(Incoming, 0, a, b) => Pending(Tail(Incoming), c.num, c.start, b)
    BY <1>11, <2>1, <2>3, LoadedTakePut
  <2>5. Puts'
    <3>1. \A b \in DOMAIN written :
              \/ Pending(Incoming, 0, a, b)
              \/ b \in DOMAIN anon_pages /\ anon_pages[b] = written[b]
      BY <1>2 DEF Works, Puts
    <3> QED
      BY <1>0, <1>1, <2>1, <2>2, <2>4, <3>1 DEF Puts
  <2>6. ~Serving'
    BY <1>6, <1>11 DEF Serving
  <2>7. Calls'
    BY <1>0, <1>1, <1>11, <2>1, <2>6, CallsTail DEF Works
  <2> QED
    BY <1>7, <1>8, <1>9, <2>5, <2>7 DEF Works
<1> QED
  BY <1>5, <1>10, <1>11

\* The database writes to the anonymous region only.
LEMMA WrittenIsAnonymous ==
    ASSUME Works, NEW b \in DOMAIN written
    PROVE  b \in Nat /\ b >= anon_start_index
<1>1. b \in anon_start .. next_anon_block - 1 /\ anon_start \in Nat /\ next_anon_block \in Nat
  BY DEF Works, SessionTypeOK
<1>2. client # "New"
  BY <1>1 DEF Works, Phases
<1> QED
  BY <1>1, <1>2 DEF Works, Phases

\* The simulator takes a block of a put: the block is there, it is the one that
\* was written to this address, and the address is in the anonymous region.
LEMMA PutBlockWorks ==
    ASSUME Works, LayoutInv, PutBlock, UNCHANGED clientVars
    PROVE  Works'
<1> DEFINE a == request.start + block_offset
<1>0. UNCHANGED <<client, call, to_send, expected, received, anon_start, next_anon_block, scan,
                  written, read_range>>
  BY DEF clientVars, callVars, scanVars, readVars
<1>1. /\ phase = "Put" /\ block_offset < request.num /\ to_disk # <<>>
      /\ to_disk' = Tail(to_disk)
      /\ UNCHANGED <<config, files, anon_start_index, request, out_buf,
                     from_disk, client_open>>
  BY DEF PutBlock, layoutVars
<1>2. /\ request \in [start : Nat, num : Nat] /\ block_offset \in Nat /\ a \in Nat
      /\ Left = request.num - block_offset /\ Left \in Nat /\ Left > 0 /\ ~Serving
  <2>1. request \in [start : Nat, num : Nat] /\ block_offset \in Nat
    BY DEF Works, SessionTypeOK
  <2>2. request.start \in Nat /\ request.num \in Nat
    BY <2>1
  <2> QED
    BY <1>1, <2>1, <2>2 DEF Left, Serving
<1>3. Tail(to_disk) \in Seq(Requests) /\ to_disk \in Seq(Requests) /\ to_send \in Seq(Requests)
  BY <1>1, HeadTailProperties DEF Works, SessionTypeOK
<1>4. /\ Incoming \in Seq(Requests) /\ Incoming # <<>> /\ Head(Incoming) = Head(to_disk)
      /\ Incoming' = Tail(Incoming)
  <2>1. Incoming \in Seq(Requests) /\ Incoming # <<>>
    BY <1>1, <1>3, PipeTypes, BothEmpty DEF Incoming, Works
  <2>2. Head(Incoming) = Head(to_disk) /\ Tail(Incoming) = Tail(to_disk) \o to_send
    BY <1>1, <1>3, TakeFirst DEF Incoming
  <2> QED
    BY <1>0, <1>1, <2>1, <2>2 DEF Incoming
<1>5. OfBlocks(written)
  BY DEF OfBlocks, Works, SessionTypeOK
<1>6. Loaded(Incoming, Left, a, written)
  BY DEF Works, Puts
<1> HIDE DEF a
<1>7. /\ a \in DOMAIN written /\ Head(to_disk) = written[a]
      /\ Loaded(Tail(Incoming), Left - 1, a + 1, written)
      /\ \A b : Pending(Incoming, Left, a, b) =>
                    b = a \/ Pending(Tail(Incoming), Left - 1, a + 1, b)
  BY <1>2, <1>4, <1>5, <1>6, LoadedTakeBlock
<1>8. a >= anon_start_index
  BY <1>7, WrittenIsAnonymous
<1>9. /\ phase' = phase /\ block_offset' = block_offset + 1
      /\ anon_pages' = [b \in DOMAIN anon_pages \cup {a} |->
                            IF b = a THEN Head(to_disk) ELSE anon_pages[b]]
  BY <1>8 DEF PutBlock, PutAddress, a
<1>10. SessionTypeOK'
  <2>1. block_offset' \in 0 .. request'.num
    BY <1>1, <1>2, <1>9
  <2> QED
    BY <1>0, <1>1, <1>3, <1>9, <2>1 DEF Works, SessionTypeOK
<1>11. Phases'
  BY <1>0, <1>1, <1>9 DEF Works, Phases
<1>12. ScanCalls'
  BY <1>0, <1>1, ScanCallsKept DEF Works
<1>13. Puts'
  <2>1. Left' = Left - 1 /\ (request.start + block_offset)' = a + 1
    BY <1>1, <1>2, <1>9 DEF Left, a
  <2>2. ASSUME NEW b \in DOMAIN written
        PROVE  \/ Pending(Incoming', Left', a + 1, b)
               \/ b \in DOMAIN anon_pages' /\ anon_pages'[b] = written[b]
    <3>1. Pending(Incoming, Left, a, b) \/ (b \in DOMAIN anon_pages /\ anon_pages[b] = written[b])
      BY DEF Works, Puts, a
    <3>2. CASE b = a
      BY <1>7, <1>9, <3>2
    <3>3. CASE b # a
      BY <1>4, <1>7, <1>9, <2>1, <3>1, <3>3
    <3> QED
      BY <3>2, <3>3
  <2> QED
    BY <1>0, <1>4, <1>7, <2>1, <2>2 DEF Puts
<1>14. Calls'
  <2>1. ~Serving'
    BY <1>1, <1>9 DEF Serving
  <2>2. Head(Incoming).kind \in {"Put", "data"}
    BY <1>4, <1>5, <1>7 DEF OfBlocks, Blocks
  <2> QED
    BY <1>0, <1>1, <1>4, <2>1, <2>2, CallsTail DEF Works
<1> QED
  BY <1>10, <1>11, <1>12, <1>13, <1>14 DEF Works

\* What the database asked the simulator to read is there, and is right.
LEMMA BlockToRead ==
    ASSUME Works, LayoutInv, Serving
    PROVE  /\ call = "Get" /\ Answering /\ block_offset = Len(Reply)
           /\ Exists(request.start + block_offset)
           /\ read_block(request.start + block_offset) = Due(block_offset + 1)
           /\ Due(block_offset + 1) \in Blocks
<1> DEFINE b == request.start + block_offset
<1>1. /\ call = "Get" /\ Answering /\ request = [start |-> GetStart, num |-> expected]
      /\ block_offset = Len(Reply) /\ Incoming = <<>> /\ phase = "Get"
  BY DEF Works, Calls, Quiet, Asked, Answering, Serving, Asking
<1>2. /\ request \in [start : Nat, num : Nat] /\ block_offset \in Nat /\ expected \in Nat
      /\ block_offset < expected /\ b = GetStart + block_offset /\ b \in Nat
  BY <1>1 DEF Works, SessionTypeOK, Serving
<1>3. \A p \in DOMAIN written : p \in DOMAIN anon_pages /\ anon_pages[p] = written[p]
  <2>1. Left = 0
    BY <1>1 DEF Left
  <2> QED
    BY <1>1, <2>1, NothingPending DEF Works, Puts
<1>4. anon_start_index \in Nat /\ Gap \in Nat
  BY DiskAssumption DEF Works, SessionTypeOK
<1> HIDE DEF b
<1>5. CASE read_range # <<>>
  <2>1. /\ read_range \in Nat \X Nat
        /\ read_range[1] .. read_range[1] + expected - 1 \subseteq DOMAIN written
    BY <1>5 DEF Works, ScanCalls, SessionTypeOK
  <2>2. read_range[1] \in Nat /\ b = read_range[1] + block_offset
    BY <1>2, <1>5, <2>1 DEF GetStart
  <2>3. b \in read_range[1] .. read_range[1] + expected - 1
    BY <1>2, <2>2
  <2>4. b \in DOMAIN written
    BY <2>1, <2>3
  <2>5. b >= anon_start_index
    BY <2>4, WrittenIsAnonymous
  <2>6. Exists(b) /\ read_block(b) = written[b]
    BY <1>3, <2>4, <2>5 DEF Exists, read_block
  <2>7. Due(block_offset + 1) = written[b]
    <3>1. read_range[1] + (block_offset + 1) - 1 = b
      BY <1>2, <2>2
    <3> QED
      BY <1>1, <1>5, <3>1 DEF Due
  <2>8. written[b] \in Blocks
    BY <2>4 DEF Works, SessionTypeOK
  <2> QED
    BY <1>1, <2>6, <2>7, <2>8 DEF b
<1>6. CASE read_range = <<>>
  <2> DEFINE f == scan.file
             n == scan.blocks_read + block_offset
  <2>1. /\ f # 0 /\ f \in DOMAIN config /\ scan.start = files[f].start
        /\ scan.blocks = config[f] /\ scan.blocks_read + expected <= scan.blocks
    BY <1>1, <1>6 DEF Works, ScanCalls, Opening
  <2>2. /\ f \in DOMAIN files /\ files[f].start \in Nat /\ files[f].num \in Nat
        /\ files[f].num = config[f] /\ EndOfFile(f) + Gap <= anon_start_index
    BY <1>1, <2>1, FilesArePlaced
  <2>3. f \in Nat /\ scan.blocks_read \in Nat
    BY DEF Works, SessionTypeOK
  <2>4. b = files[f].start + n /\ n \in Nat /\ n < files[f].num
    <3>1. GetStart = scan.start + scan.blocks_read
      BY <1>6 DEF GetStart
    <3>2. b = files[f].start + scan.blocks_read + block_offset
      BY <1>2, <2>1, <3>1
    <3> QED
      BY <1>2, <2>1, <2>2, <2>3, <3>2
  <2> HIDE DEF n, f
  <2>5. b \in files[f].start .. EndOfFile(f) - 1 /\ b < anon_start_index
    BY <1>4, <2>2, <2>4 DEF EndOfFile
  <2>6. \A g \in DOMAIN files : b \in files[g].start .. EndOfFile(g) - 1 => g = f
    <3> SUFFICES ASSUME NEW g \in DOMAIN files, b \in files[g].start .. EndOfFile(g) - 1, g # f
                 PROVE  FALSE
      OBVIOUS
    <3>1. /\ files[g].start \in Nat /\ EndOfFile(g) \in Nat
          /\ files[f].start \in Nat /\ EndOfFile(f) \in Nat /\ Gap \in Nat
      BY <1>4, <2>2, FileNumbers DEF LayoutInv
    <3>2. files[g].start >= EndOfFile(f) + Gap \/ files[f].start >= EndOfFile(g) + Gap
      <4>1. f < g \/ g < f
        BY <2>2 DEF LayoutInv, Placed
      <4> QED
        BY <2>2, <4>1 DEF LayoutInv, LayoutSeparatesFiles
    <3> QED
      BY <2>5, <3>1, <3>2
  <2>7. (CHOOSE g \in DOMAIN files : b \in files[g].start .. EndOfFile(g) - 1) = f
    BY <2>2, <2>5, <2>6
  <2>8. Exists(b) /\ read_block(b) = FileBlock(f, b - files[f].start)
    <3>1. ~(b >= anon_start_index)
      BY <1>2, <1>4, <2>5
    <3>2. Exists(b)
      BY <2>2, <2>5, <3>1 DEF Exists
    <3>3. read_block(b) = FileBlock(f, b - files[f].start)
      BY <2>7, <3>1 DEF read_block
    <3> QED
      BY <3>2, <3>3
  <2>9. b - files[f].start = n
    BY <2>2, <2>4
  <2>10. Due(block_offset + 1) = FileBlock(f, n)
    <3>1. scan.blocks_read + (block_offset + 1) - 1 = n
      BY <1>2, <2>3 DEF n
    <3> QED
      BY <1>1, <1>6, <3>1 DEF Due, f
  <2>11. FileBlock(f, n) \in Blocks
    BY <2>3, <2>4 DEF FileBlock, Data, Blocks, f
  <2> QED
    BY <1>1, <2>8, <2>9, <2>10, <2>11 DEF b
<1> QED
  BY <1>5, <1>6

\* The simulator reads a block of a get: it is the next one of the answer.
LEMMA GetBlockWorks ==
    ASSUME Works, LayoutInv, GetBlock, UNCHANGED clientVars
    PROVE  Works'
<1> DEFINE x == read_block(request.start + block_offset)
<1>0. UNCHANGED <<client, call, to_send, expected, received, anon_start, next_anon_block, scan,
                  written, read_range>>
  BY DEF clientVars, callVars, scanVars, readVars
<1>1. /\ phase = "Get" /\ block_offset < request.num /\ out_buf = <<>> /\ Serving
      /\ UNCHANGED <<config, files, anon_start_index, anon_pages, request, to_disk,
                     from_disk, client_open>>
  BY DEF GetBlock, layoutVars, Serving
<1>2. /\ call = "Get" /\ Answering /\ block_offset = Len(Reply)
      /\ Exists(request.start + block_offset)
      /\ x = Due(block_offset + 1) /\ x \in Answers
  BY <1>1, BlockToRead DEF Answers
<1>3. phase' = phase /\ block_offset' = block_offset + 1 /\ out_buf' = <<x>>
  BY <1>2 DEF GetBlock
<1> HIDE DEF x
<1>4. block_offset \in Nat /\ request.num \in Nat
  BY DEF Works, SessionTypeOK
<1>5. SessionTypeOK'
  <2>1. out_buf' \in Seq(Answers)
    BY <1>2, <1>3
  <2>2. block_offset' \in 0 .. request'.num
    BY <1>1, <1>3, <1>4
  <2> QED
    BY <1>0, <1>1, <1>3, <2>1, <2>2 DEF Works, SessionTypeOK
<1>6. Phases'
  BY <1>0, <1>1, <1>3 DEF Works, Phases
<1>7. ScanCalls'
  BY <1>0, <1>1, ScanCallsKept DEF Works
<1>8. Incoming' = Incoming /\ Left = 0 /\ Left' = 0
  BY <1>0, <1>1, <1>3 DEF Incoming, Left
<1>9. Puts'
  BY <1>0, <1>1, <1>8, PutsKept DEF Works
<1>10. Calls'
  <2> DEFINE r == received \o from_disk
  <2>1. r \in Seq(Answers)
    BY PipeTypes DEF Works
  <2>2. Reply = r /\ Reply' = r \o <<x>>
    <3>1. Reply = r \o <<>>
      BY <1>1 DEF Reply
    <3>2. Reply' = r \o <<x>>
      BY <1>0, <1>1, <1>3 DEF Reply
    <3> QED
      BY <2>1, <3>1, <3>2, ConcatEmptySeq
  <2> HIDE DEF r
  <2>3. <<x>> \in Seq(Answers) /\ Len(<<x>>) = 1 /\ <<x>>[1] = x
    BY <1>2
  <2>4. /\ Len(Reply') = Len(Reply) + 1 /\ Len(Reply) \in Nat
        /\ \A i \in 1 .. Len(Reply) : Reply'[i] = Reply[i]
        /\ Reply'[Len(Reply) + 1] = x
    <3>1. /\ Len(Reply') = Len(r) + 1 /\ Len(r) \in Nat
          /\ \A i \in 1 .. Len(r) + 1 : Reply'[i] = IF i <= Len(r) THEN r[i] ELSE <<x>>[i - Len(r)]
      BY <2>1, <2>2, <2>3, ConcatProperties
    <3>2. Len(r) + 1 \in 1 .. Len(r) + 1 /\ ~(Len(r) + 1 <= Len(r)) /\ Len(r) + 1 - Len(r) = 1
          /\ \A i \in 1 .. Len(r) : i \in 1 .. Len(r) + 1 /\ i <= Len(r)
      BY <3>1
    <3> QED
      BY <2>2, <2>3, <3>1, <3>2
  <2>5. GetStart' = GetStart /\ \A i : Due(i)' = Due(i)
    BY <1>0, <1>1 DEF GetStart, Due
  <2>6. \A i \in 1 .. Len(Reply') : Reply'[i] = Due(i)
    <3> SUFFICES ASSUME NEW i \in 1 .. Len(Reply') PROVE Reply'[i] = Due(i)
      OBVIOUS
    <3>1. i \in 1 .. Len(Reply) \/ i = Len(Reply) + 1
      BY <2>4
    <3> QED
      BY <1>2, <2>4, <3>1 DEF Answering
  <2>7. /\ request = [start |-> GetStart, num |-> expected] /\ Incoming = <<>>
        /\ phase # "Placing" /\ request.num = expected
    BY <1>1, <1>2 DEF Answering
  <2>8. IF Serving'
        THEN block_offset' = Len(Reply')
        ELSE Len(Reply') = expected
    <3>1. block_offset' = Len(Reply')
      BY <1>2, <1>3, <2>4
    <3>2. ~Serving' => block_offset' = expected
      BY <1>1, <1>3, <1>4, <2>7 DEF Serving
    <3> QED
      BY <3>1, <3>2
  <2>9. Answering'
    BY <1>0, <1>1, <1>2, <1>3, <1>8, <2>5, <2>6, <2>7, <2>8 DEF Answering
  <2> QED
    BY <1>0, <1>2, <2>9 DEF Calls, Asking, Works
<1> QED
  BY <1>5, <1>6, <1>7, <1>9, <1>10 DEF Works

\* What is buffered goes into the pipe.
LEMMA WriteOutWorks ==
    ASSUME Works, WriteOut, UNCHANGED clientVars
    PROVE  Works'
<1>0. UNCHANGED <<client, call, to_send, expected, received, anon_start, next_anon_block, scan,
                  written, read_range>>
  BY DEF clientVars, callVars, scanVars, readVars
<1>1. /\ out_buf # <<>>
      /\ UNCHANGED <<config, files, anon_start_index, anon_pages, request, block_offset,
                     to_disk, client_open>>
  BY DEF WriteOut, layoutVars, requestVars
<1>2. client_open
  <2>1. ~NoAnswer
    BY <1>1 DEF NoAnswer
  <2>2. client # "Closed"
    BY <2>1 DEF Works, Phases, Calls, Quiet, Asking
  <2> QED
    BY <2>2 DEF Works, Phases
<1>3. /\ phase' = phase /\ from_disk' = Append(from_disk, Head(out_buf))
      /\ out_buf' = Tail(out_buf)
  BY <1>2 DEF WriteOut
<1>4. /\ out_buf \in Seq(Answers) /\ from_disk \in Seq(Answers) /\ received \in Seq(Answers)
      /\ Head(out_buf) \in Answers /\ Tail(out_buf) \in Seq(Answers)
  BY <1>1, HeadTailProperties DEF Works, SessionTypeOK
<1>5. SessionTypeOK'
  <2>1. from_disk' \in Seq(Answers) /\ out_buf' \in Seq(Answers)
    BY <1>3, <1>4
  <2> QED
    BY <1>0, <1>1, <1>3, <2>1 DEF Works, SessionTypeOK
<1>6. Phases'
  BY <1>0, <1>1, <1>3 DEF Works, Phases
<1>7. ScanCalls'
  BY <1>0, <1>1, ScanCallsKept DEF Works
<1>8. Incoming' = Incoming /\ Left' = Left /\ (Serving' <=> Serving)
  BY <1>0, <1>1, <1>3 DEF Incoming, Left, Serving
<1>9. Puts'
  BY <1>0, <1>1, <1>8, PutsKept DEF Works
<1>10. Reply' = Reply
  <2>1. received \o Append(from_disk, Head(out_buf)) = Append(received \o from_disk, Head(out_buf))
    BY <1>4, AppendToConcat
  <2>2. received \o from_disk \in Seq(Answers)
    BY PipeTypes DEF Works
  <2>3. Append(received \o from_disk, Head(out_buf)) \o Tail(out_buf)
            = (received \o from_disk) \o out_buf
    BY <1>1, <1>4, <2>2, MoveFirst
  <2> QED
    BY <1>0, <1>3, <2>1, <2>3 DEF Reply
<1>11. ~NoAnswer
  BY <1>1 DEF NoAnswer
<1>12. Calls'
  BY <1>0, <1>1, <1>3, <1>8, <1>10, <1>11, CallsKept DEF Works
<1> QED
  BY <1>5, <1>6, <1>7, <1>9, <1>12 DEF Works
-----------------------------------------------------------------------------
(* The steps of the database: writing and reading its pipes.                 *)

\* The simulator is there to be written to, and what is written is what was to
\* be sent.
LEMMA SendWorks ==
    ASSUME Works, Send
    PROVE  Works'
<1>1. /\ Alive /\ to_send # <<>>
      /\ UNCHANGED <<config, files, anon_start_index, anon_pages, phase, request, block_offset,
                     out_buf, from_disk, call, expected, received, anon_start, next_anon_block,
                     scan, written, read_range>>
  BY DEF Send, layoutVars, requestVars, scanVars, readVars
<1>2. ServerOpen
  BY <1>1 DEF ServerOpen, Alive, Works, SessionTypeOK, Phases
<1>3. /\ to_disk' = Append(to_disk, Head(to_send)) /\ to_send' = Tail(to_send)
      /\ UNCHANGED <<client, client_open>>
  BY <1>2 DEF Send
<1>4. /\ to_disk \in Seq(Requests) /\ to_send \in Seq(Requests)
      /\ Head(to_send) \in Requests /\ Tail(to_send) \in Seq(Requests)
  BY <1>1, HeadTailProperties DEF Works, SessionTypeOK
<1>5. SessionTypeOK'
  <2>1. to_disk' \in Seq(Requests) /\ to_send' \in Seq(Requests)
    BY <1>3, <1>4
  <2> QED
    BY <1>1, <1>3, <2>1 DEF Works, SessionTypeOK
<1>6. Phases'
  BY <1>1, <1>3 DEF Works, Phases
<1>7. Incoming' = Incoming
  BY <1>1, <1>3, <1>4, MoveFirst DEF Incoming
<1>8. /\ config' = config /\ Left' = Left /\ (Serving' <=> Serving) /\ Reply' = Reply
      /\ (NoAnswer => NoAnswer')
  BY <1>1 DEF Left, Serving, Reply, NoAnswer
<1>9. Puts'
  BY <1>1, <1>7, <1>8, PutsKept DEF Works
<1>10. ScanCalls'
  BY <1>1, <1>3, ScanCallsKept DEF Works
<1>11. Calls'
  BY <1>1, <1>7, <1>8, CallsKept DEF Works
<1> QED
  BY <1>5, <1>6, <1>9, <1>10, <1>11 DEF Works

\* The database never finds the end of the pipe, and receives the answer in order.
LEMMA ReceiveWorks ==
    ASSUME Works, Receive
    PROVE  Works'
<1>1. /\ Alive /\ to_send = <<>>
      /\ UNCHANGED <<config, files, anon_start_index, anon_pages, phase, request, block_offset,
                     out_buf, to_disk, call, to_send, expected, anon_start, next_anon_block,
                     scan, written, read_range>>
  BY DEF Receive, layoutVars, requestVars, scanVars, readVars
<1>2. ServerOpen
  BY <1>1 DEF ServerOpen, Alive, Works, SessionTypeOK, Phases
<1>3. /\ from_disk # <<>> /\ received' = Append(received, Head(from_disk))
      /\ from_disk' = Tail(from_disk) /\ UNCHANGED <<client, client_open>>
  BY <1>2 DEF Receive
<1>4. /\ from_disk \in Seq(Answers) /\ received \in Seq(Answers)
      /\ Head(from_disk) \in Answers /\ Tail(from_disk) \in Seq(Answers)
  BY <1>3, HeadTailProperties DEF Works, SessionTypeOK
<1>5. SessionTypeOK'
  <2>1. received' \in Seq(Answers) /\ from_disk' \in Seq(Answers)
    BY <1>3, <1>4
  <2> QED
    BY <1>1, <1>3, <2>1 DEF Works, SessionTypeOK
<1>6. Phases'
  BY <1>1, <1>3 DEF Works, Phases
<1>7. Reply' = Reply
  <2>1. Append(received, Head(from_disk)) \o Tail(from_disk) = received \o from_disk
    BY <1>3, <1>4, MoveFirst
  <2> QED
    BY <1>1, <1>3, <2>1 DEF Reply
<1>8. /\ Incoming' = Incoming /\ Left' = Left /\ (Serving' <=> Serving) /\ ~NoAnswer
  BY <1>1, <1>3 DEF Incoming, Left, Serving, NoAnswer
<1>9. Puts'
  BY <1>1, <1>8, PutsKept DEF Works
<1>10. ScanCalls'
  BY <1>1, <1>3, ScanCallsKept DEF Works
<1>11. Calls'
  BY <1>1, <1>7, <1>8, CallsKept DEF Works
<1> QED
  BY <1>5, <1>6, <1>9, <1>10, <1>11 DEF Works
-----------------------------------------------------------------------------
(* The calls of DiskManager.                                                 *)

\* Everything has been answered, and only puts can be on their way.
Ready == /\ NoAnswer /\ ~Serving /\ to_send = <<>>
         /\ OnlyPuts(Incoming, Len(Incoming))

\* Between two calls the disk owes nothing to the database.
LEMMA ReadyBetweenCalls ==
    ASSUME Works, call = "None"
    PROVE  Ready /\ Len(received) = expected /\ read_range = <<>>
  BY DEF Works, Calls, Asking, Quiet, Ready, ScanCalls

\* When all the items a call waits for have come they are the right ones, and
\* there are no more.
LEMMA ReadyWhenAnswered ==
    ASSUME Works, to_send = <<>>, Len(received) = expected
    PROVE  /\ Ready
           /\ Asking => phase # "Placing" /\ \A i \in 1 .. expected : received[i] = Due(i)
<1>1. CASE ~Asking
  BY <1>1 DEF Works, Calls, Quiet, Ready
<1>2. CASE Asking
  <2>1. expected >= 1 /\ expected \in Nat
    BY <1>2 DEF Works, Calls, SessionTypeOK
  <2>2. Answering
    <3>1. Len(<<>>) = 0
      OBVIOUS
    <3> QED
      BY <1>2, <2>1, <3>1 DEF Works, Calls, Asked
  <2>3. /\ Len(Reply) = Len(received) + Len(from_disk) + Len(out_buf) /\ Len(Reply) \in Nat
        /\ from_disk \in Seq(Answers) /\ out_buf \in Seq(Answers) /\ received \in Seq(Answers)
        /\ received \o from_disk \in Seq(Answers)
    BY PipeTypes DEF Works, SessionTypeOK
  <2>4. ~Serving
    <3>1. Serving => Len(Reply) < expected
      BY <2>2 DEF Answering, Serving
    <3>2. Len(Reply) >= expected
      BY <2>1, <2>3
    <3> QED
      BY <2>1, <2>3, <3>1, <3>2
  <2>5. Len(Reply) = expected
    BY <2>2, <2>4 DEF Answering
  <2>6. from_disk = <<>> /\ out_buf = <<>>
    BY <2>1, <2>3, <2>5
  <2>7. Reply = received
    BY <2>3, <2>6, ConcatEmptySeq DEF Reply
  <2>8. phase # "Placing" /\ \A i \in 1 .. expected : received[i] = Due(i)
    BY <2>2, <2>5, <2>7 DEF Answering
  <2>9. OnlyPuts(Incoming, Len(Incoming))
    <3>1. Incoming = <<>> /\ \A i \in 1 .. Len(<<>>) : FALSE
      BY <2>2 DEF Answering
    <3> QED
      BY <3>1 DEF OnlyPuts
  <2> QED
    BY <2>4, <2>6, <2>8, <2>9 DEF Ready, NoAnswer
<1> QED
  BY <1>1, <1>2

\* What a step of the database alone leaves as it is.
DiskKept == UNCHANGED <<config, files, anon_start_index, anon_pages, phase, request,
                        block_offset, out_buf, to_disk, from_disk>>

\* The database writes a command that is no put, and waits.
LEMMA AskWorks ==
    ASSUME Works, Ready, DiskKept, written' = written, received' = <<>>,
           NEW c \in Commands, c.kind # "Put", c = TheCommand', to_send' = <<c>>,
           Asking', expected' >= 1, call' # "Get" => expected' = 1
    PROVE  Puts' /\ Calls'
<1>1. /\ to_disk \in Seq(Requests) /\ to_send = <<>> /\ <<c>> \in Seq(Requests)
      /\ c \in Requests
  BY DEF Works, SessionTypeOK, Ready, Requests
<1>2. Incoming = to_disk /\ Incoming' = to_disk \o <<c>>
  <2>1. to_disk \o <<>> = to_disk
    BY <1>1, ConcatEmptySeq
  <2> QED
    BY <1>1, <2>1 DEF Incoming, DiskKept
<1>3. /\ Len(to_disk) \in Nat /\ Len(Incoming') = Len(to_disk) + 1
      /\ Incoming'[Len(to_disk) + 1] = c /\ \A i \in 1 .. Len(to_disk) : Incoming'[i] = to_disk[i]
      /\ Incoming' # <<>>
  <2>1. /\ Incoming' \in Seq(Requests) /\ Len(Incoming') = Len(to_disk) + Len(<<c>>)
        /\ \A i \in 1 .. Len(to_disk) + Len(<<c>>) :
               Incoming'[i] = IF i <= Len(to_disk) THEN to_disk[i] ELSE <<c>>[i - Len(to_disk)]
    BY <1>1, <1>2, ConcatProperties
  <2>2. Len(<<c>>) = 1 /\ <<c>>[1] = c /\ Len(to_disk) \in Nat
    BY <1>1
  <2>3. \A s \in Seq(Requests) : Len(s) >= 1 => s # <<>>
    OBVIOUS
  <2>4. /\ Len(to_disk) + 1 \in 1 .. Len(to_disk) + 1 /\ ~(Len(to_disk) + 1 <= Len(to_disk))
        /\ Len(to_disk) + 1 - Len(to_disk) = 1 /\ Len(to_disk) + 1 >= 1
        /\ \A i \in 1 .. Len(to_disk) : i \in 1 .. Len(to_disk) + 1 /\ i <= Len(to_disk)
    BY <2>2
  <2> QED
    BY <2>1, <2>2, <2>3, <2>4
<1>4. Puts'
  <2> DEFINE a == request.start + block_offset
  <2>1. Left' = Left /\ (request.start + block_offset)' = a /\ Left \in Nat /\ a \in Nat
    BY DEF DiskKept, Left, Works, SessionTypeOK
  <2>2. Loaded(to_disk, Left, a, written)
    BY <1>2 DEF Works, Puts
  <2>3. \A b \in DOMAIN written : b \in DOMAIN written /\ written[b] = written[b]
    OBVIOUS
  <2>4. Loaded(<<c>>, 0, 0, written)
    BY LoadedCommand
  <2>5. /\ Loaded(to_disk \o <<c>>, Left, a, written)
        /\ \A b : Pending(to_disk, Left, a, b) => Pending(to_disk \o <<c>>, Left, a, b)
    <3> HIDE DEF a
    <3> QED
      BY <1>1, <2>1, <2>2, <2>3, <2>4, LoadedAppend
  <2>6. \A b \in DOMAIN written :
            \/ Pending(to_disk, Left, a, b)
            \/ b \in DOMAIN anon_pages /\ anon_pages[b] = written[b]
    BY <1>2 DEF Works, Puts
  <2> QED
    BY <1>2, <2>1, <2>5, <2>6 DEF Puts, DiskKept
<1>5. Asked'
  <2>1. NoAnswer' /\ ~Serving'
    BY DEF Ready, NoAnswer, Serving, DiskKept
  <2>2. OnlyPuts(Incoming', Len(to_disk))
    BY <1>2, <1>3 DEF Ready, OnlyPuts
  <2>3. Len(Incoming') - 1 = Len(to_disk)
    BY <1>3
  <2> QED
    BY <1>3, <2>1, <2>2, <2>3 DEF Asked
<1>6. call' # "None"
  BY DEF Asking
<1> QED
  BY <1>4, <1>5, <1>6 DEF Calls

\* A call returns.
LEMMA ReturnWorks ==
    ASSUME Works, Ready, Len(received) = expected, DiskKept, written' = written,
           call' = "None", UNCHANGED <<to_send, expected, received>>
    PROVE  Puts' /\ Calls'
<1>1. Incoming' = Incoming /\ Left' = Left
  BY DEF Incoming, Left, DiskKept
<1>2. UNCHANGED <<request, block_offset, anon_pages, written>>
  BY DEF DiskKept
<1>3. Puts'
  BY <1>1, <1>2, PutsKept DEF Works
<1>4. Quiet'
  BY <1>1 DEF Ready, Quiet, NoAnswer, Serving, DiskKept
<1>5. Calls'
  BY <1>4 DEF Calls, Asking, Ready
<1> QED
  BY <1>3, <1>5

\* DiskManager::new.
LEMMA ConnectWorks ==
    ASSUME Works, AskBlockSize \/ AskAnonStart \/ Connected
    PROVE  Works'
<1>0. /\ client = "New" /\ DiskKept /\ UNCHANGED <<client_open, scan, written, read_range>>
  BY DEF AskBlockSize, AskAnonStart, Connected, diskVars, layoutVars, requestVars, DiskKept,
         scanVars, readVars
<1>1. scan = NoScan /\ scan.file = 0 /\ read_range = <<>> /\ next_anon_block = anon_start
  <2>1. scan = NoScan /\ next_anon_block = anon_start
    BY <1>0 DEF Works, ScanCalls, Phases
  <2>2. call # "Get"
    BY <1>0 DEF Works, Phases
  <2>3. read_range = <<>>
    BY <2>2 DEF Works, ScanCalls
  <2> QED
    BY <2>1, <2>3 DEF NoScan
<1>2. ASSUME NEW name \in {"block-size", "anon-start-block"}, Ready,
             call' = name, to_send' = <<Command(name, 0, 0)>>, expected' = 1, received' = <<>>,
             UNCHANGED <<client, anon_start, next_anon_block>>
      PROVE  Works'
  <2> DEFINE c == Command(name, 0, 0)
  <2>1. c \in Commands /\ c.kind # "Put" /\ c \in Requests
    BY DEF Command, Commands, Queries, Requests
  <2>2. TheCommand' = c /\ Asking'
    <3>1. TheCommand' = Command(call', 0, 0)
      BY <1>2 DEF TheCommand, Opening
    <3> QED
      BY <1>2, <3>1 DEF Asking
  <2> HIDE DEF c
  <2>3. Puts' /\ Calls'
    <3>1. expected' >= 1 /\ written' = written /\ to_send' = <<c>>
      BY <1>0, <1>2 DEF c
    <3> QED
      BY <1>0, <1>2, <2>1, <2>2, <3>1, AskWorks
  <2>4. SessionTypeOK'
    <3>1. to_send' = <<c>>
      BY <1>2 DEF c
    <3>2. to_send' \in Seq(Requests)
      BY <2>1, <3>1
    <3>3. received' \in Seq(Answers) /\ expected' \in Nat
      BY <1>2
    <3>4. call' \in Queries
      BY <1>2 DEF Queries
    <3> QED
      BY <1>0, <1>2, <3>2, <3>3, <3>4 DEF Works, SessionTypeOK, DiskKept
  <2>5. Phases'
    BY <1>0, <1>2 DEF Works, Phases, DiskKept
  <2>6. ScanCalls'
    <3>1. ~Opening' /\ call' # "Get"
      BY <1>2 DEF Opening
    <3> QED
      BY <1>0, <1>1, <1>2, <3>1 DEF Works, ScanCalls, NoScan
  <2> QED
    BY <2>3, <2>4, <2>5, <2>6 DEF Works
<1>3. CASE AskBlockSize
  <2>1. Ready
    BY <1>3, ReadyBetweenCalls DEF AskBlockSize, Begin
  <2> QED
    BY <1>2, <1>3, <2>1 DEF AskBlockSize, Begin
<1>4. CASE AskAnonStart
  <2>1. Ready
    BY <1>4, ReadyWhenAnswered DEF AskAnonStart, Answered
  <2> QED
    BY <1>2, <1>4, <2>1 DEF AskAnonStart
<1>5. CASE Connected
  <2>1. /\ call = "anon-start-block" /\ to_send = <<>> /\ Len(received) = expected /\ Asking
        /\ call' = "None" /\ UNCHANGED <<to_send, expected, received>>
        /\ client' = "Running" /\ anon_start' = received[1].value
        /\ next_anon_block' = received[1].value
    BY <1>5 DEF Connected, Answered, Return, Asking
  <2>2. Ready /\ phase # "Placing" /\ \A i \in 1 .. expected : received[i] = Due(i)
    BY <2>1, ReadyWhenAnswered
  <2>3. received[1].value = anon_start_index /\ anon_start_index \in Nat
    <3>0. 1 \in 1 .. 1
      OBVIOUS
    <3>1. expected = 1
      BY <2>1 DEF Works, Calls
    <3>2. received[1] = Line(anon_start_index)
      BY <2>1, <2>2, <3>1, <3>0 DEF Due
    <3> QED
      BY <3>2 DEF Line, Works, SessionTypeOK
  <2>4. Puts' /\ Calls'
    BY <1>0, <2>1, <2>2, ReturnWorks
  <2>5. SessionTypeOK'
    <3>1. anon_start \in Nat /\ anon_start_index \in Nat
          /\ written \in [anon_start .. next_anon_block - 1 -> Blocks]
      BY DEF Works, SessionTypeOK
    <3>2. anon_start .. next_anon_block - 1 = {} /\ anon_start' .. next_anon_block' - 1 = {}
      BY <1>1, <2>1, <2>3, <3>1
    <3>3. written' \in [anon_start' .. next_anon_block' - 1 -> Blocks]
      BY <1>0, <3>1, <3>2
    <3>4. anon_start' \in Nat /\ next_anon_block' \in Nat /\ anon_start' <= next_anon_block'
      BY <2>1, <2>3
    <3> QED
      BY <1>0, <2>1, <3>3, <3>4 DEF Works, SessionTypeOK, DiskKept
  <2>6. Phases'
    BY <1>0, <2>1, <2>2, <2>3 DEF Works, Phases, DiskKept
  <2>7. ScanCalls'
    <3>1. ~Opening' /\ call' # "Get"
      BY <2>1 DEF Opening
    <3> QED
      BY <1>0, <1>1, <2>1, <3>1 DEF Works, ScanCalls, NoScan
  <2> QED
    BY <2>4, <2>5, <2>6, <2>7 DEF Works
<1> QED
  BY <1>3, <1>4, <1>5

FileQueries == {"file start-block", "file num-blocks"}

\* The scan is the one of file f, and knows its start when it asks for its size.
ScanOf(name, f) ==
    /\ scan.file = f /\ scan.blocks = 0 /\ scan.blocks_read = 0
    /\ scan \in [file : Nat, start : Nat, blocks : Nat, blocks_read : Nat]
    /\ name = "file num-blocks" => scan.start = files[f].start

\* The scan asks for one of the two numbers of its file.
LEMMA AskAboutFile ==
    ASSUME Works, LayoutInv, DiskKept, Ready, client = "Running", phase # "Placing",
           read_range = <<>>, NEW name \in FileQueries,
           NEW f \in Nat \ {0}, f \in DOMAIN config, call' = name,
           to_send' = <<Command(name, f, 0)>>, expected' = 1, received' = <<>>,
           ScanOf(name, f)',
           UNCHANGED <<client_open, client, written, read_range, anon_start, next_anon_block>>
    PROVE  Works'
<1> DEFINE c == Command(name, f, 0)
<1>1. c \in Commands /\ c.kind # "Put" /\ c \in Requests
  <2>1. name \in Queries /\ name # "Put"
    BY DEF Queries, FileQueries
  <2> QED
    BY <2>1 DEF Command, Commands, Requests
<1>2. TheCommand' = c /\ Asking' /\ Opening'
  <2>1. Asking' /\ Opening'
    BY DEF Asking, Opening, FileQueries
  <2>2. call' # "Get" /\ ~(call' \in {"block-size", "anon-start-block"})
    BY DEF FileQueries
  <2>3. scan'.file = f
    BY DEF ScanOf
  <2>4. TheCommand' = Command(call', scan'.file, 0)
    BY <2>1, <2>2 DEF TheCommand
  <2> QED
    BY <2>1, <2>3, <2>4
<1>3. to_send' = <<c>>
  OBVIOUS
<1> HIDE DEF c
<1>4. Puts' /\ Calls'
  <2>1. expected' >= 1
    OBVIOUS
  <2> QED
    BY <1>1, <1>2, <1>3, <2>1, AskWorks
<1>5. SessionTypeOK'
  <2>1. to_send' \in Seq(Requests)
    BY <1>1, <1>3
  <2>2. received' \in Seq(Answers) /\ expected' \in Nat
    OBVIOUS
  <2>3. call' \in Queries
    BY DEF Queries, FileQueries
  <2>4. scan' \in [file : Nat, start : Nat, blocks : Nat, blocks_read : Nat]
    BY DEF ScanOf
  <2> QED
    BY <2>1, <2>2, <2>3, <2>4 DEF Works, SessionTypeOK, DiskKept
<1>6. Phases'
  <2>1. call' \notin {"None", "block-size", "anon-start-block"}
    BY DEF FileQueries
  <2> QED
    BY <2>1 DEF Works, Phases, DiskKept
<1>7. ScanCalls'
  <2>1. call' # "Get" /\ (call' # "file start-block" => call' = "file num-blocks")
    BY DEF FileQueries
  <2> QED
    BY <1>2, <2>1 DEF ScanCalls, DiskKept, ScanOf
<1> QED
  BY <1>4, <1>5, <1>6, <1>7 DEF Works

\* ScanOperator::new.
LEMMA OpenWorks ==
    ASSUME Works, LayoutInv, OpenScan \/ AskNumBlocks \/ ScanOpened
    PROVE  Works'
<1>0. /\ DiskKept
      /\ UNCHANGED <<client_open, client, written, read_range, anon_start, next_anon_block>>
  BY DEF OpenScan, AskNumBlocks, ScanOpened, diskVars, layoutVars, requestVars, DiskKept,
         readVars
<1>1. client = "Running" /\ phase # "Placing" /\ call # "Get" /\ read_range = <<>>
  <2>1. client \in {"New", "Running"} /\ call \in {"None", "file start-block", "file num-blocks"}
        /\ (call = "None" => client = "Running")
    BY DEF OpenScan, AskNumBlocks, ScanOpened, Idle, Alive, Answered, Begin
  <2>2. client = "Running"
    BY <2>1 DEF Works, Phases
  <2>3. call # "Get"
    BY <2>1
  <2> QED
    BY <2>2, <2>3 DEF Works, Phases, ScanCalls
<1>2. /\ DOMAIN files = DOMAIN config /\ DOMAIN config \subseteq Nat \ {0}
      /\ \A f \in DOMAIN files : /\ files[f].start \in Nat /\ files[f].num \in Nat
                                 /\ files[f].num = config[f]
  <2>1. DOMAIN config \subseteq Nat \ {0}
    BY DEF LayoutInv, Placed
  <2> QED
    BY <1>1, <2>1, FilesArePlaced
<1>3. scan \in [file : Nat, start : Nat, blocks : Nat, blocks_read : Nat]
  BY DEF Works, SessionTypeOK
<1>5. CASE OpenScan
  <2>1. PICK f \in DOMAIN config :
            /\ Begin("file start-block", <<Command("file start-block", f, 0)>>, 1)
            /\ scan' = [scan EXCEPT !.file = f]
    BY <1>5 DEF OpenScan
  <2>2. Ready
    BY <2>1, ReadyBetweenCalls DEF Begin
  <2>3. scan.blocks = 0 /\ scan.blocks_read = 0
    BY <1>5 DEF OpenScan, Works, ScanCalls
  <2>4. /\ scan'.file = f /\ scan'.blocks = 0 /\ scan'.blocks_read = 0
        /\ scan' \in [file : Nat, start : Nat, blocks : Nat, blocks_read : Nat]
    BY <1>2, <1>3, <2>1, <2>3
  <2>5. ScanOf("file start-block", f)'
    BY <2>4 DEF ScanOf
  <2>6. PICK name \in FileQueries : name = "file start-block"
    BY DEF FileQueries
  <2>7. call' = name /\ to_send' = <<Command(name, f, 0)>> /\ ScanOf(name, f)'
    BY <2>1, <2>5, <2>6 DEF Begin
  <2>8. expected' = 1 /\ received' = <<>>
    BY <2>1 DEF Begin
  <2>9. f \in Nat \ {0} /\ f \in DOMAIN config
    BY <1>2
  <2> QED
    BY <1>0, <1>1, <2>2, <2>7, <2>8, <2>9, AskAboutFile
<1>6. CASE AskNumBlocks
  <2>1. /\ call = "file start-block" /\ to_send = <<>> /\ Len(received) = expected /\ Asking
        /\ call' = "file num-blocks" /\ expected' = 1 /\ received' = <<>>
        /\ to_send' = <<Command("file num-blocks", scan.file, 0)>>
        /\ scan' = [scan EXCEPT !.start = received[1].value]
    BY <1>6 DEF AskNumBlocks, Answered, Asking
  <2>2. Ready /\ \A i \in 1 .. expected : received[i] = Due(i)
    BY <2>1, ReadyWhenAnswered
  <2>3. scan.file \in DOMAIN config /\ scan.blocks = 0 /\ scan.blocks_read = 0
    BY <2>1 DEF Works, ScanCalls, Opening
  <2>4. received[1].value = files[scan.file].start
    <3>0. 1 \in 1 .. 1
      OBVIOUS
    <3>1. expected = 1
      BY <2>1 DEF Works, Calls
    <3>2. received[1] = Line(files[scan.file].start)
      BY <2>1, <2>2, <3>1, <3>0 DEF Due
    <3> QED
      BY <3>2 DEF Line
  <2>5. /\ scan'.file = scan.file /\ scan'.blocks = 0 /\ scan'.blocks_read = 0
        /\ scan'.start = files[scan.file].start
        /\ scan' \in [file : Nat, start : Nat, blocks : Nat, blocks_read : Nat]
    BY <1>2, <1>3, <2>1, <2>3, <2>4
  <2>6. PICK name \in FileQueries, f \in DOMAIN config :
            name = "file num-blocks" /\ f = scan.file
    BY <2>3 DEF FileQueries
  <2>7. call' = name /\ to_send' = <<Command(name, f, 0)>>
    BY <2>1, <2>6
  <2>8. expected' = 1 /\ received' = <<>>
    BY <2>1
  <2>9. files' = files
    BY <1>0 DEF DiskKept
  <2>10. ScanOf(name, f)'
    BY <2>5, <2>6, <2>9 DEF ScanOf
  <2>11. f \in Nat \ {0} /\ f \in DOMAIN config
    BY <1>2
  <2> QED
    BY <1>0, <1>1, <2>2, <2>7, <2>8, <2>10, <2>11, AskAboutFile
<1>7. CASE ScanOpened
  <2>1. /\ call = "file num-blocks" /\ to_send = <<>> /\ Len(received) = expected /\ Asking
        /\ call' = "None" /\ UNCHANGED <<to_send, expected, received>>
        /\ scan' = [scan EXCEPT !.blocks = received[1].value]
    BY <1>7 DEF ScanOpened, Answered, Return, Asking
  <2>2. Ready /\ \A i \in 1 .. expected : received[i] = Due(i)
    BY <2>1, ReadyWhenAnswered
  <2>3. /\ scan.file \in DOMAIN config /\ scan.file # 0 /\ scan.blocks_read = 0
        /\ scan.start = files[scan.file].start
    BY <2>1 DEF Works, ScanCalls, Opening
  <2>4. received[1].value = files[scan.file].num
    <3>0. 1 \in 1 .. 1
      OBVIOUS
    <3>1. expected = 1
      BY <2>1 DEF Works, Calls
    <3>2. received[1] = Line(files[scan.file].num)
      BY <2>1, <2>2, <3>1, <3>0 DEF Due
    <3> QED
      BY <3>2 DEF Line
  <2>5. /\ scan'.file = scan.file /\ scan'.blocks = config[scan.file]
        /\ scan'.start = files[scan.file].start
        /\ scan' \in [file : Nat, start : Nat, blocks : Nat, blocks_read : Nat]
    BY <1>2, <1>3, <2>1, <2>3, <2>4
  <2>6. Puts' /\ Calls'
    BY <1>0, <2>1, <2>2, ReturnWorks
  <2>7. SessionTypeOK'
    BY <1>0, <2>1, <2>5 DEF Works, SessionTypeOK, DiskKept
  <2>8. Phases'
    BY <1>0, <1>1, <2>1 DEF Works, Phases, DiskKept
  <2>9. ScanCalls'
    <3>1. ~Opening'
      BY <2>1 DEF Opening
    <3> QED
      BY <1>0, <1>1, <2>1, <2>3, <2>5, <3>1 DEF ScanCalls, DiskKept
  <2> QED
    BY <2>6, <2>7, <2>8, <2>9 DEF Works
<1> QED
  BY <1>5, <1>6, <1>7

\* The calls of a connected database on the scan and the spilled blocks leave
\* what is known of the scan's file.
LEMMA ScanCallsMove ==
    ASSUME ScanCalls, ~Opening, ~Opening', client # "New", client' # "New",
           UNCHANGED <<config, files>>, scan'.file = scan.file, scan'.start = scan.start,
           scan'.blocks = scan.blocks, scan.file = 0 => scan'.blocks_read = scan.blocks_read,
           call' = "Get" /\ read_range' = <<>> =>
               scan'.file # 0 /\ scan'.blocks_read + expected' <= scan'.blocks,
           read_range' # <<>> =>
               /\ call' = "Get" /\ read_range'[2] = expected'
               /\ read_range'[1] .. read_range'[1] + expected' - 1 \subseteq DOMAIN written'
    PROVE  ScanCalls'
<1>1. call # "file start-block"
  BY DEF Opening
<1> QED
  BY <1>1 DEF ScanCalls

\* A get of a range.
LEMMA GetWorks ==
    ASSUME Works, call = "None", client = "Running", DiskKept, NEW start \in Nat, NEW num \in Nat,
           num >= 1, Begin("Get", <<Command("Get", start, num)>> \o <<>>, num),
           UNCHANGED <<client_open, client, written, anon_start, next_anon_block, scan>>,
           start = GetStart', read_range' # <<>> => read_range' \in Nat \X Nat
    PROVE  SessionTypeOK' /\ Phases' /\ Puts' /\ Calls'
<1> DEFINE c == Command("Get", start, num)
<1>1. c \in Commands /\ c.kind # "Put" /\ c \in Requests
  BY DEF Command, Commands, Queries, Requests
<1>2. <<c>> \o <<>> = <<c>>
  <2> HIDE DEF c
  <2>1. <<c>> \in Seq(Requests)
    BY <1>1
  <2> QED
    BY <2>1, ConcatEmptySeq
<1>3. call' = "Get" /\ to_send' = <<c>> /\ expected' = num /\ received' = <<>>
  BY <1>2 DEF Begin
<1>4. TheCommand' = c /\ Asking' /\ call' # "None"
  <2>1. ~Opening' /\ Asking'
    BY <1>3 DEF Opening, Asking
  <2> QED
    BY <1>3, <2>1 DEF TheCommand
<1> HIDE DEF c
<1>5. Ready
  BY ReadyBetweenCalls
<1>6. Puts' /\ Calls'
  <2>1. expected' >= 1 /\ written' = written
    BY <1>3
  <2> QED
    BY <1>1, <1>3, <1>4, <1>5, <2>1, AskWorks
<1>7. SessionTypeOK'
  <2>1. to_send' \in Seq(Requests)
    BY <1>1, <1>3
  <2>2. received' \in Seq(Answers) /\ expected' \in Nat
    BY <1>3
  <2> QED
    BY <1>3, <2>1, <2>2 DEF Works, SessionTypeOK, DiskKept
<1>8. Phases'
  BY <1>3 DEF Works, Phases, DiskKept
<1> QED
  BY <1>6, <1>7, <1>8

\* What is left of the file bounds a batch.
LEMMA BatchSizes ==
    ASSUME SessionTypeOK, scan.blocks_read < scan.blocks
    PROVE  BatchSize \in Nat /\ BatchSize >= 1 /\ scan.blocks_read + BatchSize <= scan.blocks
<1> DEFINE rest == scan.blocks - scan.blocks_read
<1>1. /\ scan.blocks_read \in Nat /\ scan.blocks \in Nat /\ rest \in Nat /\ rest >= 1
      /\ BLOCKS_PER_READ \in Nat /\ BLOCKS_PER_READ >= 1
      /\ scan.blocks_read + rest = scan.blocks
  BY SessionAssumption DEF SessionTypeOK
<1> HIDE DEF rest
<1>2. \E x \in {BLOCKS_PER_READ, rest} : \A y \in {BLOCKS_PER_READ, rest} : x <= y
  BY <1>1
<1>3. /\ Min({BLOCKS_PER_READ, rest}) \in {BLOCKS_PER_READ, rest}
      /\ Min({BLOCKS_PER_READ, rest}) <= rest
  BY <1>2 DEF Min
<1> QED
  BY <1>1, <1>3 DEF BatchSize, rest

\* The scan asks for its next batch.
LEMMA FillBufferWorks ==
    ASSUME Works, FillBuffer
    PROVE  Works'
<1>1. /\ client = "Running" /\ call = "None" /\ DiskKept
      /\ scan.blocks_read < scan.blocks
      /\ Begin("Get", <<Command("Get", scan.start + scan.blocks_read, BatchSize)>> \o <<>>,
               BatchSize)
      /\ UNCHANGED <<client_open, client, written, anon_start, next_anon_block, scan, read_range>>
  BY DEF FillBuffer, Transfer, Idle, DiskKept, diskVars, layoutVars, requestVars, scanVars,
         readVars
<1>2. BatchSize \in Nat /\ BatchSize >= 1 /\ scan.blocks_read + BatchSize <= scan.blocks
  BY <1>1, BatchSizes DEF Works
<1>3. read_range = <<>>
  BY <1>1, ReadyBetweenCalls
<1>4. scan.start + scan.blocks_read \in Nat /\ scan.start + scan.blocks_read = GetStart'
  BY <1>1, <1>3 DEF Works, SessionTypeOK, GetStart
<1>5. SessionTypeOK' /\ Phases' /\ Puts' /\ Calls'
  BY <1>1, <1>2, <1>3, <1>4, GetWorks
<1>6. ScanCalls'
  <2>1. ~Opening /\ ~Opening' /\ client # "New" /\ client' # "New"
    BY <1>1 DEF Opening, Begin
  <2>2. scan.file # 0
    <3>1. scan.file = 0 => scan.blocks = 0 /\ scan.blocks_read = 0
      BY DEF Works, ScanCalls
    <3> QED
      BY <1>1, <3>1
  <2>3. scan'.file # 0 /\ scan'.blocks_read + expected' <= scan'.blocks
    BY <1>1, <1>2, <2>2 DEF Begin
  <2>4. read_range' = <<>> /\ UNCHANGED <<config, files>>
    BY <1>1, <1>3 DEF DiskKept
  <2> QED
    BY <1>1, <2>1, <2>3, <2>4, ScanCallsMove DEF Works
<1> QED
  BY <1>5, <1>6 DEF Works

\* An operator asks for blocks that have been written.
LEMMA ReadBackWorks ==
    ASSUME Works, ReadBack
    PROVE  Works'
<1>1. PICK start \in DOMAIN written, num \in 1 .. Cardinality(DOMAIN written) :
          /\ start + num - 1 \in DOMAIN written
          /\ Begin("Get", <<Command("Get", start, num)>> \o <<>>, num)
          /\ read_range' = <<start, num>>
  BY DEF ReadBack, Transfer
<1>2. /\ client = "Running" /\ call = "None" /\ DiskKept
      /\ UNCHANGED <<client_open, client, written, anon_start, next_anon_block, scan>>
  BY DEF ReadBack, Idle, DiskKept, diskVars, layoutVars, requestVars, scanVars
<1>3. /\ DOMAIN written = anon_start .. next_anon_block - 1
      /\ anon_start \in Nat /\ next_anon_block \in Nat
  BY DEF Works, SessionTypeOK
<1>4. start \in Nat /\ num \in Nat /\ num >= 1
  <2>1. Cardinality(DOMAIN written) \in Nat
    BY <1>3, FS_Interval, FS_CardinalityType
  <2> QED
    BY <1>3, <2>1
<1>5. start .. start + num - 1 \subseteq DOMAIN written
  BY <1>1, <1>3, <1>4
<1>6. /\ read_range' # <<>> /\ read_range' \in Nat \X Nat /\ read_range'[1] = start
      /\ read_range'[2] = num
  BY <1>1, <1>4
<1>7. start = GetStart'
  BY <1>6 DEF GetStart
<1>8. SessionTypeOK' /\ Phases' /\ Puts' /\ Calls'
  BY <1>1, <1>2, <1>4, <1>6, <1>7, GetWorks
<1>9. ScanCalls'
  <2>1. ~Opening /\ ~Opening' /\ client # "New" /\ client' # "New"
    BY <1>1, <1>2 DEF Opening, Begin
  <2>2. call' = "Get" /\ expected' = num /\ UNCHANGED <<config, files>>
    BY <1>1, <1>2 DEF Begin, DiskKept
  <2>3. read_range'[1] .. read_range'[1] + expected' - 1 \subseteq DOMAIN written'
    BY <1>2, <1>5, <1>6, <2>2
  <2> QED
    BY <1>2, <1>6, <2>1, <2>2, <2>3, ScanCallsMove DEF Works
<1> QED
  BY <1>8, <1>9 DEF Works

\* A get or a put returns.
LEMMA TransferReturns ==
    ASSUME Works, BufferFilled \/ BlocksSpilled \/ BackRead
    PROVE  Works'
<1>1. /\ call \in {"Get", "Put"} /\ client \in {"New", "Running"}
      /\ to_send = <<>> /\ Len(received) = expected
      /\ call' = "None" /\ UNCHANGED <<to_send, expected, received>> /\ DiskKept
      /\ UNCHANGED <<client_open, client, written, anon_start, next_anon_block>>
      /\ read_range' = <<>> \/ (call = "Put" /\ read_range' = read_range)
  BY DEF BufferFilled, BlocksSpilled, BackRead, Answered, Alive, Return, DiskKept, diskVars,
         layoutVars, requestVars, readVars
<1>2. client = "Running"
  BY <1>1 DEF Works, Phases
<1>3. Ready
  BY <1>1, ReadyWhenAnswered
<1>4. Puts' /\ Calls'
  BY <1>1, <1>3, ReturnWorks
<1>5. read_range' = <<>>
  <2>1. call = "Put" => read_range = <<>>
    BY DEF Works, ScanCalls
  <2> QED
    BY <1>1, <2>1
<1>6. /\ scan' \in [file : Nat, start : Nat, blocks : Nat, blocks_read : Nat]
      /\ scan'.file = scan.file /\ scan'.start = scan.start /\ scan'.blocks = scan.blocks
      /\ scan.file = 0 => scan'.blocks_read = scan.blocks_read
  <2>1. /\ scan \in [file : Nat, start : Nat, blocks : Nat, blocks_read : Nat]
        /\ expected \in Nat
    BY DEF Works, SessionTypeOK
  <2>2. CASE BufferFilled
    <3>1. scan' = [scan EXCEPT !.blocks_read = @ + expected]
      BY <2>2 DEF BufferFilled, Filled
    <3>2. scan.file # 0
      BY <2>2 DEF BufferFilled, Answered, Works, ScanCalls
    <3> QED
      BY <2>1, <3>1, <3>2
  <2>3. CASE BlocksSpilled \/ BackRead
    BY <2>1, <2>3 DEF BlocksSpilled, BackRead, scanVars
  <2> QED
    BY <2>2, <2>3
<1>7. SessionTypeOK'
  BY <1>1, <1>5, <1>6 DEF Works, SessionTypeOK, DiskKept
<1>8. Phases'
  BY <1>1, <1>2 DEF Works, Phases, DiskKept
<1>9. ScanCalls'
  <2>1. ~Opening /\ ~Opening' /\ client # "New" /\ client' # "New" /\ call' # "Get"
    BY <1>1, <1>2 DEF Opening
  <2>2. UNCHANGED <<config, files>>
    BY <1>1 DEF DiskKept
  <2> QED
    BY <1>5, <1>6, <2>1, <2>2, ScanCallsMove DEF Works
<1> QED
  BY <1>4, <1>7, <1>8, <1>9 DEF Works

\* The database ends, with its last writes still on their way.
LEMMA CloseWorks ==
    ASSUME Works, Close
    PROVE  Works'
<1>1. /\ client = "Running" /\ call = "None" /\ client' = "Closed" /\ DiskKept
      /\ UNCHANGED <<call, to_send, expected, received, written, anon_start, next_anon_block,
                     scan, read_range>>
  BY DEF Close, Idle, DiskKept, layoutVars, requestVars, callVars, scanVars, readVars
<1>2. Ready /\ Len(received) = expected /\ read_range = <<>>
  BY <1>1, ReadyBetweenCalls
<1>3. Puts' /\ Calls'
  BY <1>1, <1>2, ReturnWorks
<1>4. SessionTypeOK'
  BY <1>1 DEF Works, SessionTypeOK, DiskKept
<1>5. Phases'
  BY <1>1 DEF Works, Phases, DiskKept
<1>6. ScanCalls'
  <2>1. ~Opening /\ ~Opening' /\ client # "New" /\ client' # "New" /\ call' # "Get"
    BY <1>1 DEF Opening
  <2>2. UNCHANGED <<config, files>> /\ read_range' = <<>>
    BY <1>1, <1>2 DEF DiskKept
  <2> QED
    BY <1>1, <2>1, <2>2, ScanCallsMove DEF Works
<1> QED
  BY <1>3, <1>4, <1>5, <1>6 DEF Works

\* There are finitely many writes.
LEMMA WritesAreFinite ==
    ASSUME TransfersOK
    PROVE  Cardinality(Writes) \in Nat
<1>1. DOMAIN transfers = 1 .. Len(transfers) /\ Len(transfers) \in Nat
  BY DEF TransfersOK
<1>2. IsFiniteSet(1 .. Len(transfers))
  BY <1>1, FS_Interval
<1>3. Writes \in SUBSET (1 .. Len(transfers))
  BY <1>1 DEF Writes
<1>4. IsFiniteSet(Writes)
  BY <1>2, <1>3, FS_Subset
<1> QED
  BY <1>4, FS_CardinalityType

\* The blocks of a write.
LEMMA ContentsAreBlocks ==
    ASSUME NEW k \in Nat, NEW num \in Nat
    PROVE  Contents(k, num) \in Seq(Blocks) /\ Len(Contents(k, num)) = num
<1>1. \A i \in 1 .. num : Data([write |-> k, block |-> i]) \in Blocks
  BY DEF Data, Blocks
<1>2. Contents(k, num) = [i \in 1 .. num |-> Data([write |-> k, block |-> i])]
  BY DEF Contents
<1>3. Contents(k, num) \in [1 .. num -> Blocks]
  BY <1>1, <1>2
<1> QED
  BY <1>3

\* What SpillBlocks does to the blocks that are written: new ones follow.
LEMMA WrittenGrows ==
    ASSUME Works, NEW num \in Nat, NEW data \in Seq(Blocks), Len(data) = num,
           written' = [b \in DOMAIN written \cup (next_anon_block .. next_anon_block + num - 1) |->
                           IF b \in next_anon_block .. next_anon_block + num - 1
                           THEN data[b - next_anon_block + 1] ELSE written[b]]
    PROVE  /\ written' \in [anon_start .. next_anon_block + num - 1 -> Blocks]
           /\ \A b \in DOMAIN written : b \in DOMAIN written' /\ written'[b] = written[b]
           /\ \A m \in 1 .. num : /\ next_anon_block + m - 1 \in DOMAIN written'
                                  /\ data[m] = written'[next_anon_block + m - 1]
           /\ \A b \in DOMAIN written' :
                  b \in DOMAIN written \/ \E m \in 1 .. num : b = next_anon_block + m - 1
<1> DEFINE new == next_anon_block .. next_anon_block + num - 1
<1>1. /\ anon_start \in Nat /\ next_anon_block \in Nat /\ anon_start <= next_anon_block
      /\ written \in [anon_start .. next_anon_block - 1 -> Blocks]
  BY DEF Works, SessionTypeOK
<1>2. DOMAIN written' = DOMAIN written \cup new
  OBVIOUS
<1>3. DOMAIN written = anon_start .. next_anon_block - 1
  BY <1>1
<1>4. DOMAIN written' = anon_start .. next_anon_block + num - 1
  BY <1>1, <1>2, <1>3
<1>5. \A b \in new : /\ b - next_anon_block + 1 \in 1 .. num
                    /\ written'[b] = data[b - next_anon_block + 1]
  BY <1>1, <1>2
<1>6. \A b \in DOMAIN written : b \notin new /\ b \in DOMAIN written' /\ written'[b] = written[b]
  BY <1>1, <1>2, <1>3
<1>7. \A b \in DOMAIN written' : written'[b] \in Blocks
  <2> SUFFICES ASSUME NEW b \in DOMAIN written' PROVE written'[b] \in Blocks
    OBVIOUS
  <2>1. CASE b \in new
    <3>1. \A i \in 1 .. num : data[i] \in Blocks
      OBVIOUS
    <3> QED
      BY <1>5, <2>1, <3>1
  <2>2. CASE b \notin new
    BY <1>1, <1>2, <1>6, <2>2
  <2> QED
    BY <2>1, <2>2
<1>8. written' \in [anon_start .. next_anon_block + num - 1 -> Blocks]
  BY <1>4, <1>7
<1>9. ASSUME NEW m \in 1 .. num
      PROVE  /\ next_anon_block + m - 1 \in DOMAIN written'
             /\ data[m] = written'[next_anon_block + m - 1]
  <2> DEFINE b == next_anon_block + m - 1
             i == b - next_anon_block + 1
  <2>1. b \in new /\ i = m
    BY <1>1
  <2> HIDE DEF new
  <2>2. b \in DOMAIN written'
    BY <1>2, <2>1
  <2>3. written'[b] = data[i]
    BY <1>5, <2>1
  <2> HIDE DEF i
  <2>4. written'[b] = data[m]
    BY <2>1, <2>3
  <2> QED
    BY <2>2, <2>4
<1>10. \A b \in new : b - next_anon_block + 1 \in 1 .. num
                      /\ b = next_anon_block + (b - next_anon_block + 1) - 1
  BY <1>1
<1> QED
  BY <1>2, <1>6, <1>8, <1>9, <1>10

\* An operator spills: its blocks are on their way to the addresses that `written`
\* has for them.
LEMMA SpillBlocksWorks ==
    ASSUME Works, TransfersOK, SpillBlocks
    PROVE  Works'
<1> DEFINE k == Cardinality(Writes) + 1
           at == next_anon_block
<1>0. k \in Nat /\ at \in Nat
  BY WritesAreFinite DEF Works, SessionTypeOK
<1>1. PICK num \in SpillSizes :
          /\ Begin("Put", <<Command("Put", at, num)>> \o Contents(k, num), 0)
          /\ next_anon_block' = next_anon_block + num
          /\ written' = [b \in DOMAIN written \cup (at .. at + num - 1) |->
                             IF b \in at .. at + num - 1 THEN Contents(k, num)[b - at + 1]
                             ELSE written[b]]
  BY DEF SpillBlocks, Transfer
<1>2. num \in Nat
  BY SessionAssumption
<1> DEFINE data == Contents(k, num)
           c == Command("Put", at, num)
<1>3. data \in Seq(Blocks) /\ Len(data) = num
  BY <1>0, <1>2, ContentsAreBlocks
<1>4. /\ client = "Running" /\ call = "None" /\ DiskKept
      /\ UNCHANGED <<client_open, client, anon_start, scan, read_range>>
  BY DEF SpillBlocks, Idle, DiskKept, diskVars, layoutVars, requestVars, scanVars, readVars
<1>5. /\ call' = "Put" /\ expected' = 0 /\ received' = <<>> /\ to_send' = <<c>> \o data
  BY <1>1 DEF Begin
<1>6. /\ c \in Commands /\ c.kind = "Put" /\ c.num = num /\ c.start = at
  BY <1>0, <1>2 DEF Command, Commands
<1> HIDE DEF k, at, data, c
<1>7. /\ written' \in [anon_start .. next_anon_block + num - 1 -> Blocks]
      /\ \A b \in DOMAIN written : b \in DOMAIN written' /\ written'[b] = written[b]
      /\ \A m \in 1 .. num : /\ at + m - 1 \in DOMAIN written'
                             /\ data[m] = written'[at + m - 1]
      /\ \A b \in DOMAIN written' :
             b \in DOMAIN written \/ \E m \in 1 .. num : b = at + m - 1
  BY <1>1, <1>2, <1>3, WrittenGrows DEF at, data
<1> DEFINE t == <<c>> \o data
<1>8. /\ t \in Seq(Requests) /\ Loaded(t, 0, 0, written')
      /\ \A m \in 1 .. num : Pending(t, 0, 0, at + m - 1)
      /\ OnlyPuts(t, Len(t))
  <2>1. \A m \in 1 .. c.num :
            c.start + m - 1 \in DOMAIN written' /\ data[m] = written'[c.start + m - 1]
    BY <1>6, <1>7
  <2>2. /\ <<c>> \o data \in Seq(Requests)
        /\ Loaded(<<c>> \o data, 0, 0, written')
        /\ \A m \in 1 .. c.num : Pending(<<c>> \o data, 0, 0, c.start + m - 1)
        /\ OnlyPuts(<<c>> \o data, Len(<<c>> \o data))
    BY <1>3, <1>6, <2>1, LoadedPut
  <2> HIDE DEF t
  <2>3. t = <<c>> \o data
    BY DEF t
  <2>4. \A m \in 1 .. num : Pending(t, 0, 0, c.start + m - 1)
    BY <1>6, <2>2, <2>3
  <2> QED
    BY <1>6, <2>2, <2>3, <2>4
<1> HIDE DEF t
<1>9. Ready /\ read_range = <<>> /\ to_send = <<>> /\ to_disk \in Seq(Requests)
  BY <1>4, ReadyBetweenCalls DEF Ready, Works, SessionTypeOK
<1>10. Incoming = to_disk /\ Incoming' = to_disk \o t
  <2>1. to_disk \o <<>> = to_disk
    BY <1>9, ConcatEmptySeq
  <2> QED
    BY <1>4, <1>5, <1>9, <2>1 DEF Incoming, DiskKept, t
<1>11. Puts'
  <2> DEFINE a == request.start + block_offset
  <2>1. Left' = Left /\ (request.start + block_offset)' = a /\ Left \in Nat /\ a \in Nat
    <3>1. request \in [start : Nat, num : Nat] /\ block_offset \in 0 .. request.num
      BY DEF Works, SessionTypeOK
    <3>2. UNCHANGED <<phase, request, block_offset>>
      BY <1>4 DEF DiskKept
    <3>3. Left' = Left /\ (request.start + block_offset)' = a
      BY <3>2 DEF Left
    <3>4. request.start \in Nat /\ request.num \in Nat /\ block_offset <= request.num
      BY <3>1
    <3>5. Left \in Nat /\ a \in Nat
      BY <3>1, <3>4 DEF Left
    <3> QED
      BY <3>3, <3>5
  <2>2. Loaded(to_disk, Left, a, written)
    BY <1>10 DEF Works, Puts
  <2>3. \A b \in DOMAIN written :
            \/ Pending(to_disk, Left, a, b)
            \/ b \in DOMAIN anon_pages /\ anon_pages[b] = written[b]
    BY <1>10 DEF Works, Puts
  <2> HIDE DEF a
  <2>4. /\ Loaded(to_disk \o t, Left, a, written')
        /\ \A b : Pending(to_disk, Left, a, b) \/ Pending(t, 0, 0, b) =>
                      Pending(to_disk \o t, Left, a, b)
    <3>1. \A b \in DOMAIN written : b \in DOMAIN written' /\ written'[b] = written[b]
      BY <1>7
    <3>2. t \in Seq(Requests) /\ Loaded(t, 0, 0, written') /\ to_disk \in Seq(Requests)
      BY <1>8, <1>9
    <3>3. Left \in Nat /\ a \in Nat
      BY <2>1
    <3> QED
      BY <2>2, <3>1, <3>2, <3>3, LoadedAppend
  <2>5. anon_pages' = anon_pages
    BY <1>4 DEF DiskKept
  <2>6. \A b \in DOMAIN written' :
            \/ Pending(to_disk \o t, Left, a, b)
            \/ b \in DOMAIN anon_pages /\ anon_pages[b] = written'[b]
    BY <1>7, <1>8, <2>3, <2>4
  <2> QED
    BY <1>10, <2>1, <2>4, <2>5, <2>6 DEF Puts
<1>12. Calls'
  <2>1. OnlyPuts(Incoming', Len(Incoming'))
    <3>1. /\ Len(to_disk \o t) = Len(to_disk) + Len(t) /\ Len(to_disk) \in Nat /\ Len(t) \in Nat
          /\ \A i \in 1 .. Len(to_disk) + Len(t) :
                 (to_disk \o t)[i] = IF i <= Len(to_disk) THEN to_disk[i] ELSE t[i - Len(to_disk)]
      BY <1>8, <1>9, ConcatProperties
    <3>2. \A i \in 1 .. Len(to_disk) + Len(t) :
              i \in 1 .. Len(to_disk) \/ (~(i <= Len(to_disk)) /\ i - Len(to_disk) \in 1 .. Len(t))
      BY <3>1
    <3>3. \A i \in 1 .. Len(to_disk) : i <= Len(to_disk) /\ to_disk[i].kind \in {"Put", "data"}
      BY <1>9, <1>10 DEF Ready, OnlyPuts
    <3> QED
      BY <1>8, <1>10, <3>1, <3>2, <3>3 DEF OnlyPuts
  <2>2. Quiet'
    <3>1. NoAnswer' /\ ~Serving'
      BY <1>4, <1>9 DEF Ready, NoAnswer, Serving, DiskKept
    <3>2. Len(received') = expected'
      BY <1>5
    <3> QED
      BY <2>1, <3>1, <3>2 DEF Quiet
  <2> QED
    BY <1>5, <2>2 DEF Calls, Asking
<1>13. SessionTypeOK'
  <2>1. to_send' \in Seq(Requests) /\ received' \in Seq(Answers) /\ expected' \in Nat
    BY <1>5, <1>8 DEF t
  <2>2. /\ next_anon_block' \in Nat /\ anon_start <= next_anon_block'
        /\ written' \in [anon_start .. next_anon_block' - 1 -> Blocks]
    <3>1. /\ next_anon_block' = next_anon_block + num /\ next_anon_block \in Nat
          /\ anon_start <= next_anon_block /\ anon_start \in Nat
      BY <1>1 DEF Works, SessionTypeOK
    <3>2. next_anon_block' \in Nat /\ anon_start <= next_anon_block'
      BY <1>2, <3>1
    <3>3. next_anon_block' - 1 = next_anon_block + num - 1
      BY <1>2, <3>1
    <3> QED
      BY <1>7, <3>2, <3>3
  <2> QED
    BY <1>4, <1>5, <2>1, <2>2 DEF Works, SessionTypeOK, DiskKept
<1>14. Phases'
  BY <1>4, <1>5 DEF Works, Phases, DiskKept
<1>15. ScanCalls'
  <2>1. ~Opening /\ ~Opening' /\ client # "New" /\ client' # "New" /\ call' # "Get"
    BY <1>4, <1>5 DEF Opening
  <2>2. UNCHANGED <<config, files>> /\ read_range' = <<>>
    BY <1>4, <1>9 DEF DiskKept
  <2> QED
    BY <1>4, <2>1, <2>2, ScanCallsMove DEF Works
<1> QED
  BY <1>11, <1>12, <1>13, <1>14, <1>15 DEF Works
-----------------------------------------------------------------------------
\* Every step of a session that is not killed keeps what the calls rely on.
LEMMA WorksKept ==
    ASSUME Works, LayoutInv, TransfersOK, [Next]_vars, client' # "Killed"
    PROVE  Works'
<1>1. CASE ServerStep
  <2>1. UNCHANGED clientVars /\ DiskNext
    BY <1>1 DEF ServerStep
  <2>2. CASE PlaceFile \/ FinishLayout
    BY <2>1, <2>2, PlaceFileWorks, FinishLayoutWorks
  <2>3. CASE AnswerQuery \/ StartTransfer
    BY <2>1, <2>3, AnswerQueryWorks, StartTransferWorks
  <2>4. CASE GetBlock \/ PutBlock
    BY <2>1, <2>4, GetBlockWorks, PutBlockWorks
  <2>5. CASE FinishGet \/ FinishPut \/ Flushed
    BY <2>1, <2>5, FinishWorks
  <2>6. CASE WriteOut \/ EndOfInput
    BY <2>1, <2>6, WriteOutWorks, EndOfInputWorks
  <2> QED
    BY <2>1, <2>2, <2>3, <2>4, <2>5, <2>6 DEF DiskNext
<1>2. CASE ClientStep
  <2>1. CASE Send \/ Receive
    BY <2>1, SendWorks, ReceiveWorks
  <2>2. CASE AskBlockSize \/ AskAnonStart \/ Connected
    BY <2>2, ConnectWorks
  <2>3. CASE OpenScan \/ AskNumBlocks \/ ScanOpened
    BY <2>3, OpenWorks
  <2>4. CASE FillBuffer \/ SpillBlocks \/ ReadBack
    BY <2>4, FillBufferWorks, SpillBlocksWorks, ReadBackWorks
  <2>5. CASE BufferFilled \/ BlocksSpilled \/ BackRead
    BY <2>5, TransferReturns
  <2>6. CASE Close
    BY <2>6, CloseWorks
  <2> QED
    BY <1>2, <2>1, <2>2, <2>3, <2>4, <2>5, <2>6 DEF ClientStep
<1>3. CASE Kill
  BY <1>3 DEF Kill
<1>4. CASE UNCHANGED vars
  <2>1. /\ UNCHANGED clientVars
        /\ UNCHANGED <<config, files, anon_start_index, anon_pages, phase, request, block_offset,
                       out_buf, to_disk, from_disk, client_open>>
    BY <1>4 DEF vars, diskVars, layoutVars, requestVars
  <2>2. UNCHANGED <<client, call, to_send, expected, received, anon_start, next_anon_block,
                    scan, written, read_range>>
    BY <2>1 DEF clientVars, callVars, scanVars, readVars
  <2>3. SessionTypeOK' /\ Phases'
    BY <2>1, <2>2 DEF Works, SessionTypeOK, Phases
  <2>4. Left' = Left /\ (Serving' <=> Serving)
    BY <2>1 DEF Left, Serving
  <2> QED
    BY <2>1, <2>3, <2>4, StillStep
<1> QED
  BY <1>1, <1>2, <1>3, <1>4 DEF Next, Stopped

\* A process that was killed does nothing any more.
LEMMA KilledStays ==
    ASSUME client = "Killed", [Next]_vars
    PROVE  UNCHANGED clientVars
<1>1. ~Alive /\ ~Idle /\ client # "New"
  BY DEF Alive, Idle
<1>2. ~ClientStep
  <2>1. ~(Send \/ Receive \/ AskBlockSize \/ AskAnonStart \/ Connected)
    BY <1>1 DEF Send, Receive, AskBlockSize, AskAnonStart, Connected
  <2>2. ~(OpenScan \/ AskNumBlocks \/ ScanOpened)
    BY <1>1 DEF OpenScan, AskNumBlocks, ScanOpened
  <2>3. ~(FillBuffer \/ BufferFilled \/ SpillBlocks \/ BlocksSpilled)
    BY <1>1 DEF FillBuffer, BufferFilled, SpillBlocks, BlocksSpilled
  <2>4. ~(ReadBack \/ BackRead \/ Close)
    BY <1>1 DEF ReadBack, BackRead, Close
  <2> QED
    BY <2>1, <2>2, <2>3, <2>4 DEF ClientStep
<1>3. ~Kill
  BY <1>1 DEF Kill
<1> QED
  BY <1>2, <1>3 DEF Next, ServerStep, Stopped, vars

\* A call that moves blocks adds its range to the transfers, and writes the
\* command for it, followed by the blocks of a put.
Transfers(r, data) ==
    /\ transfers' = Append(transfers, r)
    /\ to_send = <<>> /\ to_send' = <<Command(r.name, r.start, r.num)>> \o data
    /\ UNCHANGED <<to_disk, phase, request, anon_pages, metrics>>

LEMMA TransferCalls ==
    ASSUME Works, TransfersOK, FillBuffer \/ SpillBlocks \/ ReadBack
    PROVE  \E r \in Ranges, data \in Seq(Blocks) : Transfers(r, data)
<1>1. to_send = <<>> /\ UNCHANGED <<to_disk, phase, request, anon_pages, metrics>>
  <2>1. call = "None"
    BY DEF FillBuffer, SpillBlocks, ReadBack, Idle
  <2>2. UNCHANGED diskVars
    BY DEF FillBuffer, SpillBlocks, ReadBack
  <2> QED
    BY <2>1, <2>2 DEF Works, Calls, diskVars, requestVars
<1>2. CASE FillBuffer
  <2> DEFINE at == scan.start + scan.blocks_read
             r == [name |-> "Get", start |-> at, num |-> BatchSize]
  <2>1. scan.blocks_read < scan.blocks /\ scan.start \in Nat /\ scan.blocks_read \in Nat
    BY <1>2 DEF FillBuffer, Works, SessionTypeOK
  <2>2. BatchSize \in Nat /\ BatchSize >= 1
    BY <2>1, BatchSizes DEF Works
  <2>3. /\ transfers' = Append(transfers, r)
        /\ to_send' = <<Command("Get", at, BatchSize)>> \o <<>>
    BY <1>2 DEF FillBuffer, Transfer, Begin
  <2> HIDE DEF BatchSize
  <2>4. at \in Nat /\ BatchSize \in Nat \ {0}
    BY <2>1, <2>2
  <2>5. r \in Ranges /\ r.name = "Get" /\ r.start = at /\ r.num = BatchSize
    BY <2>4 DEF Ranges
  <2>6. Transfers(r, <<>>)
    BY <1>1, <2>3, <2>5 DEF Transfers
  <2>7. <<>> \in Seq(Blocks)
    OBVIOUS
  <2> QED
    BY <2>5, <2>6, <2>7
<1>3. CASE SpillBlocks
  <2> DEFINE k == Cardinality(Writes) + 1
  <2>1. PICK num \in SpillSizes :
            /\ transfers' =
                   Append(transfers, [name |-> "Put", start |-> next_anon_block, num |-> num])
            /\ to_send' = <<Command("Put", next_anon_block, num)>> \o Contents(k, num)
    BY <1>3 DEF SpillBlocks, Transfer, Begin
  <2>2. num \in Nat \ {0} /\ next_anon_block \in Nat /\ k \in Nat
    BY SessionAssumption, WritesAreFinite DEF Works, SessionTypeOK
  <2> HIDE DEF k
  <2> DEFINE r == [name |-> "Put", start |-> next_anon_block, num |-> num]
  <2>3. r \in Ranges /\ r.name = "Put" /\ r.start = next_anon_block /\ r.num = num
    BY <2>2 DEF Ranges
  <2>4. Contents(k, num) \in Seq(Blocks)
    BY <2>2, ContentsAreBlocks
  <2>5. Transfers(r, Contents(k, num))
    BY <1>1, <2>1, <2>3 DEF Transfers
  <2> QED
    BY <2>3, <2>4, <2>5
<1>4. CASE ReadBack
  <2>1. PICK start \in DOMAIN written, num \in 1 .. Cardinality(DOMAIN written) :
            /\ transfers' = Append(transfers, [name |-> "Get", start |-> start, num |-> num])
            /\ to_send' = <<Command("Get", start, num)>> \o <<>>
    BY <1>4 DEF ReadBack, Transfer, Begin
  <2>2. /\ DOMAIN written = anon_start .. next_anon_block - 1
        /\ anon_start \in Nat /\ next_anon_block \in Nat
    BY DEF Works, SessionTypeOK
  <2>3. start \in Nat /\ num \in Nat \ {0}
    <3>1. Cardinality(DOMAIN written) \in Nat
      BY <2>2, FS_Interval, FS_CardinalityType
    <3> QED
      BY <2>1, <2>2, <3>1
  <2> DEFINE r == [name |-> "Get", start |-> start, num |-> num]
  <2>4. r \in Ranges /\ r.name = "Get" /\ r.start = start /\ r.num = num
    BY <2>3 DEF Ranges
  <2>5. Transfers(r, <<>>)
    BY <1>1, <2>1, <2>4 DEF Transfers
  <2>6. <<>> \in Seq(Blocks)
    OBVIOUS
  <2> QED
    BY <2>4, <2>5, <2>6
<1> QED
  BY <1>2, <1>3, <1>4

\* The other steps move none.
LEMMA NoTransfer ==
    ASSUME [Next]_vars, ~(FillBuffer \/ SpillBlocks \/ ReadBack)
    PROVE  transfers' = transfers
<1>1. CASE ServerStep \/ Kill \/ UNCHANGED vars
  BY <1>1 DEF ServerStep, Kill, vars, clientVars
<1>2. CASE Send \/ Receive \/ AskBlockSize \/ AskAnonStart \/ Connected
  BY <1>2 DEF Send, Receive, AskBlockSize, AskAnonStart, Connected
<1>3. CASE OpenScan \/ AskNumBlocks \/ ScanOpened
  BY <1>3 DEF OpenScan, AskNumBlocks, ScanOpened
<1>4. CASE BufferFilled \/ BlocksSpilled \/ BackRead \/ Close
  BY <1>4 DEF BufferFilled, BlocksSpilled, BackRead, Close
<1> QED
  BY <1>1, <1>2, <1>3, <1>4 DEF Next, ClientStep, Stopped

\* The transfers stay a list of ranges.
LEMMA TransfersKept ==
    ASSUME TransfersOK, client # "Killed" => Works, [Next]_vars
    PROVE  TransfersOK'
<1>1. CASE FillBuffer \/ SpillBlocks \/ ReadBack
  <2>1. client = "Running"
    BY <1>1 DEF FillBuffer, SpillBlocks, ReadBack, Idle
  <2>2. PICK r \in Ranges, data \in Seq(Blocks) : Transfers(r, data)
    BY <1>1, <2>1, TransferCalls
  <2> QED
    BY <2>2 DEF Transfers, TransfersOK
<1>2. CASE ~(FillBuffer \/ SpillBlocks \/ ReadBack)
  BY <1>2, NoTransfer DEF TransfersOK
<1> QED
  BY <1>1, <1>2
-----------------------------------------------------------------------------
\* A batch that has arrived is the next part of the file.
LEMMA BatchIsRight ==
    ASSUME Works, BufferFilled
    PROVE  /\ received \in Seq(Blocks) /\ Len(received) = expected
           /\ \A i \in 1 .. expected : received[i] = FileBlock(scan.file, scan.blocks_read + i - 1)
<1>1. /\ call = "Get" /\ to_send = <<>> /\ Len(received) = expected /\ read_range = <<>>
  BY DEF BufferFilled, Answered
<1>2. /\ scan.file \in Nat /\ scan.blocks_read \in Nat /\ expected \in Nat
      /\ received \in Seq(Answers)
  BY DEF Works, SessionTypeOK
<1>3. Asking
  BY <1>1 DEF Asking
<1>4. \A i \in 1 .. expected : received[i] = Due(i)
  BY <1>1, <1>3, ReadyWhenAnswered
<1>5. \A i : Due(i) = FileBlock(scan.file, scan.blocks_read + i - 1)
  BY <1>1 DEF Due
<1>6. ASSUME NEW i \in 1 .. expected
      PROVE  /\ received[i] = FileBlock(scan.file, scan.blocks_read + i - 1)
             /\ received[i] \in Blocks
  <2>1. received[i] = FileBlock(scan.file, scan.blocks_read + i - 1)
    BY <1>4, <1>5
  <2>2. scan.blocks_read + i - 1 \in Nat
    BY <1>2
  <2>3. FileBlock(scan.file, scan.blocks_read + i - 1) \in Blocks
    BY <1>2, <2>2 DEF FileBlock, Data, Blocks
  <2> QED
    BY <2>1, <2>3
<1>7. received \in Seq(Blocks)
  BY <1>1, <1>2, <1>6
<1> QED
  BY <1>1, <1>6, <1>7

\* So the scan has the blocks of its file up to the end of the batch.
LEMMA BufferFilledScans ==
    ASSUME Works, Scanned, BufferFilled
    PROVE  Scanned'
<1>1. /\ call = "Get" /\ read_range = <<>> /\ UNCHANGED client
      /\ scanned' = scanned \o received
      /\ scan' = [scan EXCEPT !.blocks_read = @ + expected]
  BY DEF BufferFilled, Answered, Filled
<1>2. /\ scan.blocks_read + expected <= scan.blocks
      /\ client # "Closed"
  BY <1>1 DEF Works, ScanCalls, Phases
<1>3. /\ scan \in [file : Nat, start : Nat, blocks : Nat, blocks_read : Nat]
      /\ expected \in Nat
  BY DEF Works, SessionTypeOK
<1>4. /\ received \in Seq(Blocks) /\ Len(received) = expected
      /\ \A i \in 1 .. expected : received[i] = FileBlock(scan.file, scan.blocks_read + i - 1)
  BY BatchIsRight
<1>5. /\ scanned \in Seq(Blocks) /\ Len(scanned) = scan.blocks_read
      /\ \A i \in 1 .. scan.blocks_read : scanned[i] = FileBlock(scan.file, i - 1)
  BY DEF Scanned
<1> DEFINE n == scan.blocks_read
           f == scan.file
<1>6. /\ scan'.file = f /\ scan'.blocks = scan.blocks /\ scan'.blocks_read = n + expected
      /\ n \in Nat
  BY <1>1, <1>3
<1>7. /\ scanned' \in Seq(Blocks) /\ Len(scanned') = n + expected
      /\ \A i \in 1 .. n + expected :
             scanned'[i] = IF i <= n THEN scanned[i] ELSE received[i - n]
  <2>1. /\ scanned \o received \in Seq(Blocks)
        /\ Len(scanned \o received) = Len(scanned) + Len(received)
        /\ \A i \in 1 .. Len(scanned) + Len(received) : (scanned \o received)[i] =
               IF i <= Len(scanned) THEN scanned[i] ELSE received[i - Len(scanned)]
    BY <1>4, <1>5, ConcatProperties
  <2> QED
    BY <1>1, <1>4, <1>5, <2>1
<1> HIDE DEF n, f
<1>8. ASSUME NEW i \in 1 .. n + expected
      PROVE  scanned'[i] = FileBlock(f, i - 1)
  <2>1. CASE i <= n
    <3>1. i \in 1 .. n
      BY <1>3, <1>6, <2>1
    <3> QED
      BY <1>5, <1>7, <2>1, <3>1 DEF n, f
  <2>2. CASE ~(i <= n)
    <3> DEFINE j == i - n
    <3>1. j \in 1 .. expected /\ n + j - 1 = i - 1
      BY <1>3, <1>6, <2>2
    <3>2. scanned'[i] = received[j]
      BY <1>7, <2>2
    <3> HIDE DEF j
    <3>3. received[j] = FileBlock(f, n + j - 1)
      BY <1>4, <3>1 DEF n, f
    <3> QED
      BY <3>1, <3>2, <3>3
  <2> QED
    BY <2>1, <2>2
<1>9. DOMAIN scanned' = 1 .. n + expected
  BY <1>7
<1> QED
  BY <1>1, <1>2, <1>6, <1>7, <1>8, <1>9 DEF Scanned, n

\* A call that opens the scan finds it at its beginning.
LEMMA OpeningScans ==
    ASSUME Works, Works', Scanned, OpenScan \/ AskNumBlocks \/ ScanOpened
    PROVE  Scanned'
<1>1. scan.file = 0 \/ Opening
  BY DEF OpenScan, AskNumBlocks, ScanOpened, Opening, Answered
<1>2. scan.blocks = 0 /\ scan.blocks_read = 0 /\ client # "Closed"
  <2>1. Opening => call # "None"
    BY DEF Opening
  <2>2. OpenScan => client = "Running"
    BY DEF OpenScan, Idle
  <2>3. AskNumBlocks \/ ScanOpened => Alive
    BY DEF AskNumBlocks, ScanOpened
  <2>4. client # "Closed"
    BY <2>2, <2>3 DEF Alive
  <2> QED
    BY <1>1, <2>4 DEF Works, ScanCalls
<1>3. UNCHANGED <<client, scanned>>
  BY DEF OpenScan, AskNumBlocks, ScanOpened
<1>4. scan'.blocks_read = scan.blocks_read
  <2>1. \/ \E f : scan' = [scan EXCEPT !.file = f]
        \/ \E b : scan' = [scan EXCEPT !.start = b]
        \/ \E b : scan' = [scan EXCEPT !.blocks = b]
    BY DEF OpenScan, AskNumBlocks, ScanOpened
  <2>2. scan \in [file : Nat, start : Nat, blocks : Nat, blocks_read : Nat]
    BY DEF Works, SessionTypeOK
  <2> QED
    BY <2>1, <2>2
<1>5. scan'.blocks \in Nat
  BY DEF Works, SessionTypeOK
<1>6. scanned \in Seq(Blocks) /\ Len(scanned) = 0
  BY <1>2 DEF Scanned
<1>7. DOMAIN scanned = {}
  BY <1>6
<1> QED
  BY <1>2, <1>3, <1>4, <1>5, <1>6, <1>7 DEF Scanned

\* The database returns when its scan is at the end.
LEMMA ScannedKept ==
    ASSUME Scanned, client # "Killed" => Works, client' # "Killed" => Works', [Next]_vars
    PROVE  Scanned'
<1>1. CASE BufferFilled
  <2>1. client # "Killed"
    BY <1>1 DEF BufferFilled, Alive
  <2> QED
    BY <1>1, <2>1, BufferFilledScans
<1>2. CASE OpenScan \/ AskNumBlocks \/ ScanOpened
  <2>1. UNCHANGED client
    BY <1>2 DEF OpenScan, AskNumBlocks, ScanOpened
  <2>2. client # "Killed"
    BY <1>2 DEF OpenScan, AskNumBlocks, ScanOpened, Idle, Alive
  <2> QED
    BY <1>2, <2>1, <2>2, OpeningScans
<1>3. CASE Close
  <2>1. /\ UNCHANGED <<scan, scanned>> /\ scan.file # 0 /\ scan.blocks_read = scan.blocks
    BY <1>3 DEF Close, scanVars
  <2> QED
    BY <2>1 DEF Scanned
<1>4. CASE ~(BufferFilled \/ OpenScan \/ AskNumBlocks \/ ScanOpened \/ Close)
  <2>1. UNCHANGED <<scan, scanned>> /\ (client' = "Closed" => client = "Closed")
    <3>1. CASE ServerStep \/ Kill \/ UNCHANGED vars
      BY <3>1 DEF ServerStep, Kill, vars, clientVars, scanVars
    <3>2. CASE Send \/ Receive
      BY <3>2 DEF Send, Receive, scanVars
    <3>3. CASE AskBlockSize \/ AskAnonStart \/ Connected
      BY <3>3 DEF AskBlockSize, AskAnonStart, Connected, scanVars
    <3>4. CASE FillBuffer \/ SpillBlocks \/ ReadBack
      BY <3>4 DEF FillBuffer, SpillBlocks, ReadBack, scanVars
    <3>5. CASE BlocksSpilled \/ BackRead
      BY <3>5 DEF BlocksSpilled, BackRead, scanVars
    <3> QED
      BY <1>4, <3>1, <3>2, <3>3, <3>4, <3>5 DEF Next, ClientStep, Stopped
  <2> QED
    BY <2>1 DEF Scanned
<1> QED
  BY <1>1, <1>2, <1>3, <1>4
-----------------------------------------------------------------------------
\* The invariant holds before the first step.
LEMMA InitSession == Init => SessionIInv
<1> SUFFICES ASSUME Init PROVE SessionIInv
  OBVIOUS
<1>1. /\ client = "New" /\ call = "None" /\ to_send = <<>> /\ expected = 0 /\ received = <<>>
      /\ anon_start = 0 /\ next_anon_block = 0 /\ scan = NoScan /\ scanned = <<>>
      /\ written = <<>> /\ transfers = <<>> /\ read_range = <<>>
      /\ files = <<>> /\ anon_start_index = 0 /\ anon_pages = <<>> /\ phase = "Placing"
      /\ request = NoRequest /\ block_offset = 0 /\ out_buf = <<>> /\ to_disk = <<>>
      /\ from_disk = <<>> /\ client_open = TRUE /\ config \in Configs
  BY DEF Init, DiskInit
<1>2. config \in Seq(Nat)
  BY <1>1, DiskAssumption
<1>3. Incoming = <<>> /\ ~Serving /\ Left = 0
  BY <1>1 DEF Incoming, Serving, Left
<1>4. scan \in [file : Nat, start : Nat, blocks : Nat, blocks_read : Nat]
  BY <1>1 DEF NoScan
<1>5. written \in [anon_start .. next_anon_block - 1 -> Blocks]
  BY <1>1
<1>6. request \in [start : Nat, num : Nat] /\ block_offset \in 0 .. request.num
  BY <1>1 DEF NoRequest
<1>7. SessionTypeOK
  BY <1>1, <1>4, <1>5, <1>6 DEF SessionTypeOK
<1>8. Phases
  BY <1>1, <1>2 DEF Phases
<1>9. Puts
  <2>1. Loaded(Incoming, Left, request.start + block_offset, written)
    BY <1>3, NothingPending
  <2>2. DOMAIN written = {}
    BY <1>1
  <2> QED
    BY <2>1, <2>2 DEF Puts
<1>10. ScanCalls
  <2>1. ~Opening /\ scan.file = 0 /\ scan.blocks = 0 /\ scan.blocks_read = 0 /\ call # "Get"
    BY <1>1 DEF Opening, NoScan
  <2> QED
    BY <1>1, <2>1 DEF ScanCalls
<1>11. Calls
  <2>1. OnlyPuts(Incoming, Len(Incoming))
    <3>1. \A i \in 1 .. Len(<<>>) : FALSE
      OBVIOUS
    <3> QED
      BY <1>3, <3>1 DEF OnlyPuts
  <2>2. Len(received) = expected
    BY <1>1
  <2> QED
    BY <1>1, <1>3, <2>1, <2>2 DEF Calls, Asking, Quiet, NoAnswer
<1>12. Scanned /\ TransfersOK
  <2>1. scan.blocks = 0 /\ scan.blocks_read = 0 /\ Len(scanned) = 0 /\ DOMAIN scanned = {}
    BY <1>1 DEF NoScan
  <2> QED
    BY <1>1, <2>1 DEF Scanned, TransfersOK
<1> QED
  BY <1>7, <1>8, <1>9, <1>10, <1>11, <1>12 DEF SessionIInv, Works

\* The invariant holds in every reachable state of a session.
LEMMA SessionInvariance == Spec => [](SessionIInv /\ LayoutInv)
<1>1. SessionIInv /\ LayoutInv /\ [Next]_vars => SessionIInv'
  <2> SUFFICES ASSUME SessionIInv, LayoutInv, [Next]_vars PROVE SessionIInv'
    OBVIOUS
  <2>1. Scanned /\ TransfersOK /\ (client # "Killed" => Works)
    BY DEF SessionIInv
  <2>2. client' # "Killed" => client # "Killed"
    BY KilledStays DEF clientVars
  <2>3. client' # "Killed" => Works'
    BY <2>1, <2>2, WorksKept
  <2>4. Scanned' /\ TransfersOK'
    BY <2>1, <2>3, ScannedKept, TransfersKept
  <2> QED
    BY <2>3, <2>4 DEF SessionIInv
<1> QED
  BY <1>1, InitSession, LayoutInvariance, PTL DEF Spec

\* Whatever is scanned, spilled and read back, and however the two processes
\* interleave, the simulator does not fail unless the database is killed, and
\* the database never finds its disk gone.
THEOREM DiskNeverFails == Spec => []OnlyKillsFail
<1>1. SessionIInv => OnlyKillsFail
  BY DEF SessionIInv, Works, SessionTypeOK, OnlyKillsFail
<1> QED
  BY <1>1, SessionInvariance, PTL

\* For every batch size and every layout the scan returns exactly the blocks of
\* its file, in order, and a session that is closed has returned all of them.
THEOREM ScansAreRight == Spec => []ScanReadsFile
<1>1. SessionIInv => ScanReadsFile
  <2> SUFFICES ASSUME SessionIInv PROVE ScanReadsFile
    OBVIOUS
  <2>1. Scanned /\ (client # "Killed" => Works)
    BY DEF SessionIInv
  <2>2. client = "Closed" => scan.blocks = config[scan.file]
    <3> SUFFICES ASSUME client = "Closed" PROVE scan.blocks = config[scan.file]
      OBVIOUS
    <3>1. Works /\ scan.file # 0
      BY <2>1 DEF Scanned
    <3>2. ~Opening
      BY <3>1 DEF Works, Phases, Opening
    <3> QED
      BY <3>1, <3>2 DEF Works, ScanCalls
  <2> QED
    BY <2>1, <2>2 DEF Scanned, ScanReadsFile
<1> QED
  BY <1>1, SessionInvariance, PTL
-----------------------------------------------------------------------------
\* What a step shows of the disk to the operators.
LEMMA StepsAreAtomic ==
    ASSUME SessionIInv, SessionIInv', [Next]_vars
    PROVE  [Atomic!Next]_(Atomic!vars)
<1>0. client # "Killed" => Works
  BY DEF SessionIInv
<1>1. CASE SpillBlocks
  <2>1. /\ client = "Running" /\ call = "None" /\ UNCHANGED <<client, read_range, read_answer>>
    BY <1>1 DEF SpillBlocks, Idle, readVars
  <2>2. Works /\ TransfersOK
    BY <1>0, <2>1 DEF SessionIInv
  <2>3. read_range = <<>>
    BY <2>1, <2>2, ReadyBetweenCalls
  <2>4. PICK num \in SpillSizes : LET blocks == next_anon_block .. next_anon_block + num - 1
                                      data == Contents(Cardinality(Writes) + 1, num)
                                  IN  written' = [b \in DOMAIN written \cup blocks |->
            IF b \in blocks THEN data[b - next_anon_block + 1] ELSE written[b]]
    BY <1>1 DEF SpillBlocks
  <2>5. num \in Nat /\ Cardinality(Writes) + 1 \in Nat
    BY <2>2, SessionAssumption, WritesAreFinite
  <2>6. /\ Contents(Cardinality(Writes) + 1, num) \in Seq(Blocks)
        /\ Len(Contents(Cardinality(Writes) + 1, num)) = num
    BY <2>5, ContentsAreBlocks
  <2>7. \A b \in DOMAIN written : b \in DOMAIN written' /\ written'[b] = written[b]
    BY <2>2, <2>4, <2>5, <2>6, WrittenGrows
  <2>8. Alive /\ Alive' /\ (Alive' = Alive)
    BY <2>1 DEF Alive
  <2>9. Atomic!Write
    BY <2>1, <2>3, <2>7, <2>8 DEF Atomic!Write
  <2> QED
    BY <2>9 DEF Atomic!Next
<1>2. CASE ReadBack
  <2>1. /\ client = "Running" /\ call = "None" /\ UNCHANGED <<client, written, read_answer>>
    BY <1>2 DEF ReadBack, Idle
  <2>2. Works /\ read_range = <<>>
    BY <1>0, <2>1, ReadyBetweenCalls
  <2>3. PICK start \in DOMAIN written, num \in 1 .. Cardinality(DOMAIN written) :
            start + num - 1 \in DOMAIN written /\ read_range' = <<start, num>>
    BY <1>2 DEF ReadBack
  <2>4. /\ DOMAIN written = anon_start .. next_anon_block - 1
        /\ anon_start \in Nat /\ next_anon_block \in Nat
    BY <2>2 DEF Works, SessionTypeOK
  <2>5. num \in Nat
    BY <2>4, FS_Interval, FS_CardinalityType
  <2> DEFINE last == start + num - 1
  <2>6. /\ start <= last /\ start .. last \subseteq DOMAIN written /\ last \in DOMAIN written
        /\ last - start + 1 = num
    BY <2>3, <2>4, <2>5
  <2> HIDE DEF last
  <2>7. Alive /\ (Alive' = Alive)
    BY <2>1 DEF Alive
  <2>8. read_range' = <<start, last - start + 1>>
    BY <2>3, <2>6
  <2>9. Atomic!Ask
    BY <2>1, <2>2, <2>6, <2>7, <2>8 DEF Atomic!Ask
  <2> QED
    BY <2>9 DEF Atomic!Next
<1>3. CASE BackRead
  <2>1. /\ Alive /\ call = "Get" /\ to_send = <<>> /\ Len(received) = expected
        /\ read_range # <<>> /\ read_range' = <<>> /\ read_answer' = received
        /\ UNCHANGED <<client, written>>
    BY <1>3 DEF BackRead, Answered
  <2>2. Works
    BY <1>0, <2>1 DEF Alive
  <2>3. /\ read_range[2] = expected /\ read_range \in Nat \X Nat
        /\ received \in Seq(Answers) /\ expected \in Nat
    BY <2>1, <2>2 DEF Works, ScanCalls, SessionTypeOK
  <2>4. Asking
    BY <2>1 DEF Asking
  <2>5. \A i \in 1 .. expected : received[i] = Due(i)
    BY <2>1, <2>2, <2>4, ReadyWhenAnswered
  <2>6. \A i : Due(i) = written[read_range[1] + i - 1]
    BY <2>1 DEF Due
  <2>7. \A i \in 1 .. expected : received[i] = written[read_range[1] + i - 1]
    BY <2>5, <2>6
  <2>8. received = [i \in 1 .. Len(received) |-> received[i]]
    BY <2>3
  <2>9. received = [i \in 1 .. read_range[2] |-> written[read_range[1] + i - 1]]
    BY <2>1, <2>3, <2>7, <2>8
  <2>10. Alive' = Alive
    BY <2>1 DEF Alive
  <2>11. Atomic!Answer
    BY <2>1, <2>9, <2>10 DEF Atomic!Answer
  <2> QED
    BY <2>11 DEF Atomic!Next
<1>4. CASE Close \/ Kill
  <2>1. /\ Alive /\ ~Alive' /\ UNCHANGED <<written, read_range, read_answer>>
    BY <1>4 DEF Close, Kill, Idle, Alive, readVars
  <2>2. Alive' = FALSE
    BY <2>1
  <2>3. Atomic!End
    BY <2>1, <2>2 DEF Atomic!End
  <2> QED
    BY <2>3 DEF Atomic!Next
<1>5. CASE ~(SpillBlocks \/ ReadBack \/ BackRead \/ Close \/ Kill)
  <2>1. UNCHANGED <<written, read_range, read_answer>> /\ Alive' = Alive
    <3>1. CASE ServerStep \/ UNCHANGED vars
      BY <3>1 DEF ServerStep, vars, clientVars, readVars, Alive
    <3>2. CASE Send \/ Receive
      <4>1. UNCHANGED <<written, read_range, read_answer>> /\ Alive
        BY <3>2 DEF Send, Receive, readVars
      <4>2. client' = client \/ client' = "Panicked"
        BY <3>2 DEF Send, Receive
      <4>3. client' # "Panicked"
        BY DEF SessionIInv, Works, SessionTypeOK
      <4> QED
        BY <4>1, <4>2, <4>3 DEF Alive
    <3>3. CASE AskBlockSize \/ AskAnonStart \/ Connected
      BY <3>3 DEF AskBlockSize, AskAnonStart, Connected, readVars, Alive
    <3>4. CASE OpenScan \/ AskNumBlocks \/ ScanOpened
      BY <3>4 DEF OpenScan, AskNumBlocks, ScanOpened, readVars, Alive
    <3>5. CASE FillBuffer \/ BufferFilled \/ BlocksSpilled
      BY <3>5 DEF FillBuffer, BufferFilled, BlocksSpilled, readVars, Alive
    <3> QED
      BY <1>5, <3>1, <3>2, <3>3, <3>4, <3>5 DEF Next, ClientStep, Stopped
  <2> QED
    BY <2>1 DEF Atomic!vars
<1> QED
  BY <1>1, <1>2, <1>3, <1>4, <1>5

\* To the operators of a query the two processes, the pipes between them and
\* the writes that nobody acknowledges are one disk: a write takes effect at
\* once, and a read returns what was written last.
THEOREM SessionIsAtomicDisk == Spec => ImplementsAtomicDisk
<1>1. Init => Atomic!Init
  BY DEF Init, Atomic!Init, Alive
<1>2. SessionIInv /\ SessionIInv' /\ [Next]_vars => [Atomic!Next]_(Atomic!vars)
  BY StepsAreAtomic
<1> QED
  BY <1>1, <1>2, SessionInvariance, PTL DEF Spec, ImplementsAtomicDisk, Atomic!Spec
-----------------------------------------------------------------------------
(* The accounting.                                                           *)

\* The commands of s that move blocks are those of the ranges of l, in order: p
\* says where each of them is.
MovesAt(p, s, l) ==
    /\ p \in [1 .. Len(l) -> 1 .. Len(s)]
    /\ \A i, j \in 1 .. Len(l) : i < j => p[i] < p[j]
    /\ \A i \in 1 .. Len(l) : s[p[i]] = Command(l[i].name, l[i].start, l[i].num)
    /\ \A c \in 1 .. Len(s) : s[c].kind \in {"Get", "Put"} => \E i \in 1 .. Len(l) : p[i] = c

Moves(s, l) == \E p : MovesAt(p, s, l)

\* A put among transfers.
PutsOf(l) == {i \in DOMAIN l : l[i].name = "Put"}

Counters == {"reads", "writes", "blocks", "cylinders", "rotations", "current_cylinder",
             "last_end_block"}

\* What the metrics say when the transfers of l have been served.
Counted(m, l) ==
    /\ m = [f \in Counters |-> m[f]]
    /\ m.writes = Cardinality(PutsOf(l))
    /\ m.reads = Len(l) - Cardinality(PutsOf(l))
    /\ m.blocks = BlocksOf(l)
    /\ l # <<>> => m.last_end_block = l[Len(l)].start + l[Len(l)].num - 1

\* The transfer the simulator is at.
InService ==
    IF phase \in {"Get", "Put"}
    THEN <<[name |-> phase, start |-> request.start, num |-> request.num]>> ELSE <<>>

\* Every transfer has been counted, is being served, or is on its way, in this
\* order.
Transferred ==
    /\ InService \in Seq(Ranges)
    /\ \E done, coming \in Seq(Ranges) :
           /\ transfers = (done \o InService) \o coming
           /\ Counted(metrics, done)
           /\ Moves(Incoming, coming)

\* No block is stored but those that were written.
Stored == /\ anon_pages = [b \in DOMAIN anon_pages |-> anon_pages[b]]
          /\ DOMAIN anon_pages \subseteq DOMAIN written

\* The simulator ends with an empty pipe.
Drained == phase = "Exited" => to_disk = <<>>

Accounted == Transferred /\ Stored /\ Drained
-----------------------------------------------------------------------------
\* The blocks of one transfer more.
LEMMA BlocksOfMore ==
    ASSUME NEW l \in Seq(Ranges), NEW r \in Ranges
    PROVE  BlocksOf(<<>>) = 0 /\ BlocksOf(l) \in Nat /\ BlocksOf(Append(l, r)) = BlocksOf(l) + r.num
<1> DEFINE Pairs(k, i) == {i} \X (1 .. k[i].num)
           All(k) == UNION {Pairs(k, i) : i \in DOMAIN k}
           n == Len(l)
           k2 == Append(l, r)
<1>1. n \in Nat /\ DOMAIN l = 1 .. n /\ DOMAIN k2 = 1 .. n + 1
  OBVIOUS
<1>2. (\A i \in 1 .. n : k2[i] = l[i]) /\ k2[n + 1] = r
  OBVIOUS
<1>3. \A i \in 1 .. n : l[i] \in Ranges
  OBVIOUS
<1>4. r.num \in Nat /\ \A i \in 1 .. n : l[i].num \in Nat
  BY <1>3 DEF Ranges
<1> HIDE DEF k2
<1> DEFINE new == {n + 1} \X (1 .. r.num)
<1>5. All(k2) = All(l) \cup new
  <2>1. \A i \in 1 .. n : Pairs(k2, i) = Pairs(l, i)
    BY <1>2
  <2>2. Pairs(k2, n + 1) = new
    BY <1>2
  <2>3. All(k2) = UNION {Pairs(k2, i) : i \in 1 .. n + 1}
    BY <1>1
  <2>4. 1 .. n + 1 = (1 .. n) \cup {n + 1}
    BY <1>1
  <2> HIDE DEF Pairs, new
  <2> QED
    BY <1>1, <2>1, <2>2, <2>3, <2>4
<1>6. All(l) \cap new = {}
  BY <1>1
<1>7. IsFiniteSet(All(l))
  <2>1. \A i \in 1 .. n : IsFiniteSet(Pairs(l, i))
    <3> SUFFICES ASSUME NEW i \in 1 .. n PROVE IsFiniteSet(Pairs(l, i))
      OBVIOUS
    <3>1. IsFiniteSet({i})
      BY FS_Singleton
    <3>2. 1 \in Int /\ l[i].num \in Int
      BY <1>4
    <3>3. IsFiniteSet(1 .. l[i].num)
      BY <3>2, FS_Interval
    <3> QED
      BY <3>1, <3>3, FS_Product
  <2> HIDE DEF Pairs
  <2> DEFINE S == {Pairs(l, i) : i \in 1 .. n}
             g == [i \in 1 .. n |-> Pairs(l, i)]
  <2>2. IsFiniteSet(S)
    <3>1. IsFiniteSet(1 .. n)
      BY <1>1, FS_Interval
    <3>2. S = {g[i] : i \in 1 .. n}
      OBVIOUS
    <3>3. g \in Surjection(1 .. n, S)
      BY <3>2 DEF Surjection
    <3> HIDE DEF g, S
    <3> QED
      BY <3>1, <3>3, FS_Surjection
  <2>3. \A x \in S : IsFiniteSet(x)
    BY <2>1
  <2>4. All(l) = UNION S
    BY <1>1
  <2> HIDE DEF S
  <2> QED
    BY <2>2, <2>3, <2>4, FS_UNION
<1>8. IsFiniteSet(new) /\ Cardinality(new) = r.num
  <2>1. IsFiniteSet({n + 1}) /\ Cardinality({n + 1}) = 1
    BY FS_Singleton
  <2>2. IsFiniteSet(1 .. r.num) /\ Cardinality(1 .. r.num) = r.num
    <3>1. 1 \in Int /\ r.num \in Int
      BY <1>4
    <3>2. /\ IsFiniteSet(1 .. r.num)
          /\ Cardinality(1 .. r.num) = IF 1 > r.num THEN 0 ELSE r.num - 1 + 1
      BY <3>1, FS_Interval
    <3> QED
      BY <1>4, <3>2
  <2>3. IsFiniteSet(new) /\ Cardinality(new) = Cardinality({n + 1}) * Cardinality(1 .. r.num)
    BY <2>1, <2>2, FS_Product
  <2> QED
    BY <1>4, <2>1, <2>2, <2>3
<1>9. BlocksOf(l) = Cardinality(All(l)) /\ BlocksOf(k2) = Cardinality(All(k2))
  BY DEF BlocksOf
<1> HIDE DEF All, new
<1>10. Cardinality(All(l)) \in Nat
  BY <1>7, FS_CardinalityType
<1>11. Cardinality(All(l) \cup new) = Cardinality(All(l)) + Cardinality(new) - Cardinality({})
  BY <1>6, <1>7, <1>8, FS_Union
<1>12. BlocksOf(<<>>) = 0
  <2>1. UNION {{i} \X (1 .. <<>>[i].num) : i \in DOMAIN <<>>} = {}
    OBVIOUS
  <2> QED
    BY <2>1, FS_EmptySet DEF BlocksOf
<1>13. Cardinality({}) = 0
  BY FS_EmptySet
<1> QED
  BY <1>4, <1>5, <1>8, <1>9, <1>10, <1>11, <1>12, <1>13 DEF k2

\* The puts among one transfer more.
LEMMA PutsOfMore ==
    ASSUME NEW l \in Seq(Ranges), NEW r \in Ranges
    PROVE  /\ Cardinality(PutsOf(<<>>)) = 0 /\ Cardinality(PutsOf(l)) \in Nat
           /\ Cardinality(PutsOf(Append(l, r))) =
                  Cardinality(PutsOf(l)) + (IF r.name = "Put" THEN 1 ELSE 0)
<1> DEFINE n == Len(l)
           P == PutsOf(l)
           Q == PutsOf(Append(l, r))
<1>1. n \in Nat /\ DOMAIN l = 1 .. n /\ DOMAIN Append(l, r) = 1 .. n + 1
  OBVIOUS
<1>2. \A i \in 1 .. n : Append(l, r)[i] = l[i]
  OBVIOUS
<1>3. Append(l, r)[n + 1] = r
  OBVIOUS
<1>4. Q = P \cup (IF r.name = "Put" THEN {n + 1} ELSE {})
  BY <1>1, <1>2, <1>3 DEF PutsOf
<1>5. IsFiniteSet(P) /\ n + 1 \notin P
  <2>1. P \in SUBSET (1 .. n)
    BY <1>1 DEF PutsOf
  <2>2. IsFiniteSet(1 .. n)
    BY <1>1, FS_Interval
  <2> QED
    BY <1>1, <2>1, <2>2, FS_Subset
<1> HIDE DEF P, Q
<1>6. Cardinality(P) \in Nat
  BY <1>5, FS_CardinalityType
<1>7. Cardinality(P \cup {n + 1}) = Cardinality(P) + 1
  BY <1>5, FS_AddElement
<1>8. Cardinality(Q) = Cardinality(P) + (IF r.name = "Put" THEN 1 ELSE 0)
  <2>1. CASE r.name = "Put"
    <3>1. Q = P \cup {n + 1}
      BY <1>4, <2>1
    <3> QED
      BY <1>7, <2>1, <3>1
  <2>2. CASE r.name # "Put"
    <3>1. Q = P
      BY <1>4, <2>2
    <3> QED
      BY <1>6, <2>2, <3>1
  <2> QED
    BY <2>1, <2>2
<1>9. Cardinality(PutsOf(<<>>)) = 0
  <2>1. PutsOf(<<>>) = {}
    BY DEF PutsOf
  <2> QED
    BY <2>1, FS_EmptySet
<1> QED
  BY <1>6, <1>8, <1>9 DEF P, Q

\* The metrics are updated for the transfer that has been served.
LEMMA CountOne ==
    ASSUME NEW l \in Seq(Ranges), NEW r \in Ranges, NEW m, Counted(m, l)
    PROVE  LET req == [start |-> r.start, num |-> r.num]
               m2 == IF r.name = "Put" THEN update_write_on(m, req) ELSE update_read_on(m, req)
           IN  Counted(m2, Append(l, r))
<1> DEFINE req == [start |-> r.start, num |-> r.num]
           m1 == IF r.name = "Put" THEN [m EXCEPT !.writes = @ + 1]
                 ELSE [m EXCEPT !.reads = @ + 1]
           m2 == simulate_io_time(m1, req)
           k == Append(l, r)
           end == r.start + r.num - 1
           c == Cardinality(PutsOf(l))
<1>1. /\ r.start \in Nat /\ r.num \in Nat /\ r.num # 0 /\ req.start = r.start /\ req.num = r.num
      /\ r.name \in {"Get", "Put"}
  BY DEF Ranges
<1>2. /\ Len(l) \in Nat /\ Len(k) = Len(l) + 1 /\ k[Len(k)] = r
  OBVIOUS
<1>3. /\ BlocksOf(l) \in Nat /\ BlocksOf(k) = BlocksOf(l) + r.num
  BY BlocksOfMore
<1>4. /\ c \in Nat
      /\ Cardinality(PutsOf(k)) = c + (IF r.name = "Put" THEN 1 ELSE 0)
  BY PutsOfMore
<1> HIDE DEF k, c, req
<1>5. /\ m1 = [f \in Counters |-> m1[f]]
      /\ m1.writes = c + (IF r.name = "Put" THEN 1 ELSE 0)
      /\ m1.reads = Len(l) - c + (IF r.name = "Put" THEN 0 ELSE 1)
      /\ m1.blocks = BlocksOf(l)
  BY <1>2, <1>4 DEF Counted, Counters, c
<1> HIDE DEF m1
<1>6. PICK x, y, z :
          m2 = [m1 EXCEPT !.blocks = @ + req.num, !.cylinders = x, !.rotations = y,
                          !.current_cylinder = z, !.last_end_block = req.start + req.num - 1]
  BY <1>1, Zenon DEF simulate_io_time
<1> HIDE DEF m2
<1>7. /\ m2 = [f \in Counters |-> m2[f]]
      /\ m2.writes = m1.writes /\ m2.reads = m1.reads /\ m2.blocks = m1.blocks + r.num
      /\ m2.last_end_block = end
  BY <1>1, <1>5, <1>6 DEF Counters
<1>8. Len(l) - c + (IF r.name = "Put" THEN 0 ELSE 1)
          = Len(l) + 1 - (c + (IF r.name = "Put" THEN 1 ELSE 0))
  BY <1>2, <1>4
<1>9. Counted(m2, k)
  BY <1>2, <1>3, <1>4, <1>5, <1>7, <1>8 DEF Counted
<1>10. m2 = IF r.name = "Put" THEN update_write_on(m, req) ELSE update_read_on(m, req)
  BY DEF m1, m2, update_write_on, update_read_on
<1> QED
  BY <1>9, <1>10 DEF k, req
-----------------------------------------------------------------------------
\* Nothing moves in nothing.
LEMMA NothingMoves ==
    ASSUME NEW l \in Seq(Ranges)
    PROVE  Moves(<<>>, l) <=> l = <<>>
<1>1. Len(<<>>) = 0 /\ 1 .. 0 = {} /\ Len(l) \in Nat /\ (Len(l) = 0 => l = <<>>)
  OBVIOUS
<1>2. ASSUME Moves(<<>>, l) PROVE l = <<>>
  <2>1. PICK p : p \in [1 .. Len(l) -> 1 .. 0]
    BY <1>1, <1>2 DEF Moves, MovesAt
  <2>2. Len(l) >= 1 => p[1] \in 1 .. 0
    BY <1>1, <2>1
  <2> QED
    BY <1>1, <2>2
<1>3. Moves(<<>>, <<>>)
  <2>1. [i \in 1 .. 0 |-> i] \in [1 .. 0 -> 1 .. 0]
    OBVIOUS
  <2>2. MovesAt([i \in 1 .. 0 |-> i], <<>>, <<>>)
    BY <1>1, <2>1 DEF MovesAt
  <2> QED
    BY <2>2 DEF Moves
<1> QED
  BY <1>2, <1>3

\* A query moves nothing.
LEMMA QueryMoves ==
    ASSUME NEW c \in Requests, c.kind \in Queries
    PROVE  Moves(<<c>>, <<>>)
<1>1. /\ Len(<<c>>) = 1 /\ \A i \in 1 .. Len(<<c>>) : <<c>>[i] = c
      /\ Len(<<>>) = 0 /\ 1 .. 0 = {} /\ c.kind \notin {"Get", "Put"}
  <2>1. Len(<<c>>) = 1 /\ \A i \in 1 .. Len(<<c>>) : <<c>>[i] = c
    OBVIOUS
  <2>2. Len(<<>>) = 0 /\ 1 .. 0 = {}
    OBVIOUS
  <2>3. c.kind \notin {"Get", "Put"}
    BY DEF Queries
  <2> QED
    BY <2>1, <2>2, <2>3
<1>2. [i \in 1 .. 0 |-> i] \in [1 .. 0 -> 1 .. Len(<<c>>)]
  OBVIOUS
<1>3. MovesAt([i \in 1 .. 0 |-> i], <<c>>, <<>>)
  BY <1>1, <1>2 DEF MovesAt
<1> QED
  BY <1>3 DEF Moves

\* A command with the blocks behind it moves its range.
LEMMA CommandMoves ==
    ASSUME NEW r \in Ranges, NEW data \in Seq(Blocks)
    PROVE  /\ <<Command(r.name, r.start, r.num)>> \o data \in Seq(Requests)
           /\ Moves(<<Command(r.name, r.start, r.num)>> \o data, <<r>>)
<1> DEFINE c == Command(r.name, r.start, r.num)
           t == <<c>> \o data
<1>1. c \in Requests
  BY DEF Command, Ranges, Requests, Commands
<1>2. data \in Seq(Requests) /\ Len(data) \in Nat
  BY DEF Requests
<1>3. \A i \in 1 .. Len(data) : data[i].kind = "data"
  <2>1. \A i \in 1 .. Len(data) : data[i] \in Blocks
    OBVIOUS
  <2> QED
    BY <2>1 DEF Blocks
<1> HIDE DEF c
<1>4. /\ t \in Seq(Requests) /\ Len(t) = 1 + Len(data)
      /\ \A i \in 1 .. 1 + Len(data) : t[i] = IF i <= 1 THEN c ELSE data[i - 1]
  BY <1>1, <1>2, ConcatProperties
<1> HIDE DEF t
<1> DEFINE p == [i \in 1 .. 1 |-> 1]
<1>5. t[1] = c /\ \A i \in 1 .. Len(t) : i # 1 => t[i].kind = "data"
  <2>1. t[1] = c
    BY <1>2, <1>4
  <2>2. ASSUME NEW i \in 1 .. Len(t), i # 1 PROVE t[i].kind = "data"
    <3>1. t[i] = data[i - 1] /\ i - 1 \in 1 .. Len(data)
      BY <1>2, <1>4, <2>2
    <3> QED
      BY <1>3, <3>1
  <2> QED
    BY <2>1, <2>2
<1>6. Len(<<r>>) = 1 /\ <<r>>[1] = r /\ \A i \in 1 .. 1 : i = 1
  OBVIOUS
<1>7. p \in [1 .. 1 -> 1 .. Len(t)] /\ p[1] = 1
  BY <1>2, <1>4
<1> HIDE DEF p
<1>8. MovesAt(p, t, <<r>>)
  <2>1. \A i, j \in 1 .. 1 : ~(i < j)
    BY <1>6
  <2>2. \A i \in 1 .. 1 : t[p[i]] = Command(<<r>>[i].name, <<r>>[i].start, <<r>>[i].num)
    BY <1>5, <1>6, <1>7 DEF c
  <2>3. \A j \in 1 .. Len(t) : t[j].kind \in {"Get", "Put"} => \E i \in 1 .. 1 : p[i] = j
    BY <1>5, <1>6, <1>7
  <2> QED
    BY <1>6, <1>7, <2>1, <2>2, <2>3 DEF MovesAt
<1> QED
  BY <1>4, <1>8 DEF Moves, t, c

\* What follows moves its ranges after the others.
LEMMA MovesAppend ==
    ASSUME NEW s \in Seq(Requests), NEW t \in Seq(Requests),
           NEW l \in Seq(Ranges), NEW k \in Seq(Ranges), Moves(s, l), Moves(t, k)
    PROVE  Moves(s \o t, l \o k)
<1>1. PICK p : MovesAt(p, s, l)
  BY DEF Moves
<1>2. PICK q : MovesAt(q, t, k)
  BY DEF Moves
<1> DEFINE u == s \o t
           h == l \o k
           m == Len(s)
           n == Len(l)
<1>3. /\ m \in Nat /\ Len(t) \in Nat /\ Len(u) = m + Len(t)
      /\ \A i \in 1 .. m + Len(t) : u[i] = IF i <= m THEN s[i] ELSE t[i - m]
  BY ConcatProperties
<1>4. /\ n \in Nat /\ Len(k) \in Nat /\ Len(h) = n + Len(k)
      /\ \A i \in 1 .. n + Len(k) : h[i] = IF i <= n THEN l[i] ELSE k[i - n]
  BY ConcatProperties
<1>5. /\ p \in [1 .. n -> 1 .. m]
      /\ \A i, j \in 1 .. n : i < j => p[i] < p[j]
      /\ \A i \in 1 .. n : s[p[i]] = Command(l[i].name, l[i].start, l[i].num)
      /\ \A c \in 1 .. m : s[c].kind \in {"Get", "Put"} => \E i \in 1 .. n : p[i] = c
  BY <1>1 DEF MovesAt
<1>6. /\ q \in [1 .. Len(k) -> 1 .. Len(t)]
      /\ \A i, j \in 1 .. Len(k) : i < j => q[i] < q[j]
      /\ \A i \in 1 .. Len(k) : t[q[i]] = Command(k[i].name, k[i].start, k[i].num)
      /\ \A c \in 1 .. Len(t) : t[c].kind \in {"Get", "Put"} => \E i \in 1 .. Len(k) : q[i] = c
  BY <1>2 DEF MovesAt
<1> HIDE DEF u, h, m, n
<1> DEFINE r == [i \in 1 .. Len(h) |-> IF i <= n THEN p[i] ELSE m + q[i - n]]
<1>7. \A i \in 1 .. Len(h) :
          /\ i <= n => i \in 1 .. n /\ r[i] = p[i] /\ r[i] \in 1 .. m
          /\ ~(i <= n) => /\ i - n \in 1 .. Len(k) /\ r[i] = m + q[i - n]
                          /\ r[i] \in m + 1 .. m + Len(t)
  <2> SUFFICES ASSUME NEW i \in 1 .. Len(h)
               PROVE  /\ i <= n => i \in 1 .. n /\ r[i] = p[i] /\ r[i] \in 1 .. m
                      /\ ~(i <= n) => /\ i - n \in 1 .. Len(k) /\ r[i] = m + q[i - n]
                                      /\ r[i] \in m + 1 .. m + Len(t)
    OBVIOUS
  <2>1. i <= n => i \in 1 .. n /\ r[i] = p[i] /\ p[i] \in 1 .. m
    BY <1>4, <1>5
  <2>2. ASSUME ~(i <= n)
        PROVE  i - n \in 1 .. Len(k) /\ r[i] = m + q[i - n] /\ r[i] \in m + 1 .. m + Len(t)
    <3>1. i - n \in 1 .. Len(k) /\ r[i] = m + q[i - n]
      BY <1>4, <2>2
    <3>2. q[i - n] \in 1 .. Len(t)
      BY <1>6, <3>1
    <3> QED
      BY <1>3, <3>1, <3>2
  <2> QED
    BY <2>1, <2>2
<1>8. r \in [1 .. Len(h) -> 1 .. Len(u)]
  <2>1. \A i \in 1 .. Len(h) : r[i] \in 1 .. Len(u)
    BY <1>3, <1>7
  <2> QED
    BY <2>1
<1> HIDE DEF r
<1>9. ASSUME NEW i \in 1 .. Len(h), NEW j \in 1 .. Len(h), i < j PROVE r[i] < r[j]
  <2>1. CASE j <= n
    <3>1. i <= n
      BY <1>4, <1>9, <2>1
    <3>2. i \in 1 .. n /\ j \in 1 .. n /\ r[i] = p[i] /\ r[j] = p[j]
      BY <1>7, <2>1, <3>1
    <3> QED
      BY <1>5, <1>9, <3>2
  <2>2. CASE i <= n /\ ~(j <= n)
    <3>1. r[i] \in 1 .. m /\ r[j] \in m + 1 .. m + Len(t)
      BY <1>7, <2>2
    <3> QED
      BY <1>3, <3>1
  <2>3. CASE ~(i <= n)
    <3>1. ~(j <= n) /\ i - n < j - n
      BY <1>4, <1>9, <2>3
    <3>2. i - n \in 1 .. Len(k) /\ j - n \in 1 .. Len(k)
      BY <1>7, <2>3, <3>1
    <3>3. PICK x \in 1 .. Len(k), y \in 1 .. Len(k) : x = i - n /\ y = j - n
      BY <3>2
    <3>4. q[x] < q[y] /\ q[x] \in Nat /\ q[y] \in Nat
      BY <1>3, <1>6, <3>1, <3>3
    <3>5. r[i] = m + q[x] /\ r[j] = m + q[y]
      BY <1>7, <2>3, <3>1, <3>3
    <3> QED
      BY <1>3, <3>4, <3>5
  <2> QED
    BY <2>1, <2>2, <2>3
<1>10. ASSUME NEW i \in 1 .. Len(h)
       PROVE  u[r[i]] = Command(h[i].name, h[i].start, h[i].num)
  <2>1. CASE i <= n
    <3>1. u[r[i]] = s[p[i]] /\ h[i] = l[i]
      BY <1>3, <1>4, <1>7, <2>1
    <3> QED
      BY <1>5, <1>7, <2>1, <3>1
  <2>2. CASE ~(i <= n)
    <3>1. h[i] = k[i - n] /\ i - n \in 1 .. Len(k)
      BY <1>4, <1>7, <2>2
    <3>2. PICK x \in 1 .. Len(t) : x = q[i - n]
      BY <1>6, <3>1
    <3>3. r[i] = m + x
      BY <1>7, <2>2, <3>2
    <3>4. m + x \in 1 .. m + Len(t) /\ ~(m + x <= m) /\ (m + x) - m = x
      BY <1>3
    <3>5. u[r[i]] = t[x]
      BY <1>3, <3>3, <3>4
    <3> QED
      BY <1>6, <3>1, <3>2, <3>5
  <2> QED
    BY <2>1, <2>2
<1>11. ASSUME NEW c \in 1 .. Len(u), u[c].kind \in {"Get", "Put"}
       PROVE  \E i \in 1 .. Len(h) : r[i] = c
  <2>1. CASE c <= m
    <3>1. c \in 1 .. m /\ u[c] = s[c]
      BY <1>3, <2>1
    <3>2. PICK i \in 1 .. n : p[i] = c
      BY <1>5, <1>11, <3>1
    <3>3. i \in 1 .. Len(h) /\ i <= n
      BY <1>4
    <3> QED
      BY <1>7, <3>2, <3>3
  <2>2. CASE ~(c <= m)
    <3>1. PICK x \in 1 .. Len(t) : x = c - m
      BY <1>3, <2>2
    <3>2. u[c] = t[x] /\ c = m + x
      BY <1>3, <2>2, <3>1
    <3>3. PICK y \in 1 .. Len(k) : q[y] = x
      BY <1>6, <1>11, <3>2
    <3>4. PICK i \in 1 .. Len(h) : i = n + y
      BY <1>4
    <3>5. ~(i <= n) /\ i - n = y
      BY <1>4, <3>4
    <3>6. r[i] = m + q[y]
      BY <1>7, <3>5
    <3> QED
      BY <3>2, <3>3, <3>6
  <2> QED
    BY <2>1, <2>2
<1>12. MovesAt(r, u, h)
  BY <1>8, <1>9, <1>10, <1>11 DEF MovesAt
<1> QED
  BY <1>12 DEF Moves, u, h

\* A position that is not the first follows another.
LEMMA NotFirst ==
    ASSUME NEW n \in Nat, NEW k \in 1 .. n + 1, k # 1
    PROVE  \E x \in 1 .. n : k = x + 1
<1>1. k - 1 \in 1 .. n /\ k = (k - 1) + 1
  OBVIOUS
<1> QED
  BY <1>1

\* What is no transfer can be taken away.
LEMMA MovesTail ==
    ASSUME NEW s \in Seq(Requests), NEW l \in Seq(Ranges), Moves(s, l), s # <<>>
    PROVE  /\ Head(s).kind \notin {"Get", "Put"} => Moves(Tail(s), l)
           /\ Head(s).kind \in {"Get", "Put"} =>
                  /\ l # <<>> /\ Head(s) = Command(Head(l).name, Head(l).start, Head(l).num)
                  /\ Moves(Tail(s), Tail(l))
<1>1. PICK p : MovesAt(p, s, l)
  BY DEF Moves
<1> DEFINE t == Tail(s)
           n == Len(l)
<1>2. /\ t \in Seq(Requests) /\ Len(s) = Len(t) + 1 /\ Len(t) \in Nat
      /\ \A i \in 1 .. Len(t) : t[i] = s[i + 1]
      /\ Head(s) = s[1]
  BY HeadTailProperties
<1>3. /\ p \in [1 .. n -> 1 .. Len(s)] /\ n \in Nat
      /\ \A i, j \in 1 .. n : i < j => p[i] < p[j]
      /\ \A i \in 1 .. n : s[p[i]] = Command(l[i].name, l[i].start, l[i].num)
      /\ \A c \in 1 .. Len(s) : s[c].kind \in {"Get", "Put"} => \E i \in 1 .. n : p[i] = c
  BY <1>1 DEF MovesAt
<1> HIDE DEF t, n
<1>4. ASSUME Head(s).kind \notin {"Get", "Put"} PROVE Moves(t, l)
  <2>1. ASSUME NEW i \in 1 .. n PROVE p[i] - 1 \in 1 .. Len(t) /\ t[p[i] - 1] = s[p[i]]
    <3>1. l[i] \in Ranges
      BY DEF n
    <3>2. s[p[i]].kind \in {"Get", "Put"} /\ p[i] \in 1 .. Len(s)
      <4>1. s[p[i]] = Command(l[i].name, l[i].start, l[i].num) /\ p[i] \in 1 .. Len(s)
        BY <1>3
      <4>2. s[p[i]].kind = l[i].name
        BY <4>1 DEF Command
      <4> QED
        BY <3>1, <4>1, <4>2 DEF Ranges
    <3>3. p[i] # 1
      BY <1>2, <1>4, <3>2
    <3>4. PICK x \in 1 .. Len(t) : p[i] = x + 1
      BY <1>2, <3>2, <3>3, NotFirst
    <3>5. p[i] - 1 = x
      BY <3>4
    <3> QED
      BY <1>2, <3>4, <3>5
  <2> DEFINE q == [i \in 1 .. n |-> p[i] - 1]
  <2>2. q \in [1 .. n -> 1 .. Len(t)] /\ \A i \in 1 .. n : q[i] = p[i] - 1
    BY <2>1
  <2> HIDE DEF q
  <2>3. \A i \in 1 .. n : p[i] \in Nat
    BY <1>2, <1>3
  <2>4. \A i, j \in 1 .. n : i < j => q[i] < q[j]
    BY <1>3, <2>2, <2>3
  <2>5. \A i \in 1 .. n : t[q[i]] = Command(l[i].name, l[i].start, l[i].num)
    BY <1>3, <2>1, <2>2
  <2>6. ASSUME NEW c \in 1 .. Len(t), t[c].kind \in {"Get", "Put"}
        PROVE  \E i \in 1 .. n : q[i] = c
    <3>1. c + 1 \in 1 .. Len(s) /\ s[c + 1] = t[c]
      BY <1>2
    <3>2. PICK i \in 1 .. n : p[i] = c + 1
      BY <1>3, <2>6, <3>1
    <3>3. q[i] = c
      BY <2>2, <3>2
    <3> QED
      BY <3>3
  <2>7. MovesAt(q, t, l)
    BY <2>2, <2>4, <2>5, <2>6 DEF MovesAt, n
  <2> QED
    BY <2>7 DEF Moves
<1>5. ASSUME Head(s).kind \in {"Get", "Put"}
      PROVE  /\ l # <<>> /\ Head(s) = Command(Head(l).name, Head(l).start, Head(l).num)
             /\ Moves(t, Tail(l))
  <2>1. 1 \in 1 .. Len(s) /\ s[1].kind \in {"Get", "Put"}
    BY <1>2, <1>5
  <2>2. PICK k \in 1 .. n : p[k] = 1
    BY <1>3, <2>1
  <2>3. 1 \in 1 .. n /\ p[1] \in Nat /\ p[1] >= 1
    BY <1>2, <1>3, <2>2
  <2>4. p[1] = 1
    BY <1>3, <2>2, <2>3
  <2>5. l # <<>> /\ Head(l) = l[1] /\ n >= 1
    BY <2>3 DEF n
  <2>6. Head(s) = Command(Head(l).name, Head(l).start, Head(l).num)
    BY <1>2, <1>3, <2>3, <2>4, <2>5
  <2> DEFINE k2 == Tail(l)
             m == n - 1
  <2>7. /\ k2 \in Seq(Ranges) /\ Len(k2) = m /\ m \in Nat
        /\ \A i \in 1 .. m :
               \E j \in 1 .. n : j = i + 1 /\ k2[i] = l[j]
    <3>1. /\ k2 \in Seq(Ranges) /\ Len(k2) = n - 1
          /\ \A i \in 1 .. Len(k2) : k2[i] = l[i + 1]
      BY <2>5, HeadTailProperties DEF n
    <3> QED
      BY <1>3, <2>5, <3>1
  <2> HIDE DEF k2, m
  <2>8. ASSUME NEW i \in 1 .. m
        PROVE  \E x \in 1 .. Len(t) : p[i + 1] = x + 1 /\ t[x] = s[p[i + 1]]
    <3>1. PICK j \in 1 .. n : j = i + 1
      BY <2>7
    <3>2. 1 < j
      BY <2>7, <3>1
    <3>3. p[1] < p[j] /\ p[j] \in 1 .. Len(s)
      BY <1>3, <2>3, <3>2
    <3>4. PICK x \in 1 .. Len(t) : p[j] = x + 1
      <4>1. p[j] \in 1 .. Len(t) + 1 /\ p[j] # 1 /\ Len(t) \in Nat
        BY <1>2, <2>4, <3>3
      <4> QED
        BY <4>1, NotFirst
    <3> QED
      BY <1>2, <3>1, <3>4
  <2> DEFINE q == [i \in 1 .. m |-> p[i + 1] - 1]
  <2>9. /\ q \in [1 .. m -> 1 .. Len(t)]
        /\ \A i \in 1 .. m : p[i + 1] = q[i] + 1 /\ t[q[i]] = s[p[i + 1]] /\ q[i] \in Nat
    <3>1. ASSUME NEW i \in 1 .. m
          PROVE  /\ q[i] \in 1 .. Len(t) /\ p[i + 1] = q[i] + 1 /\ t[q[i]] = s[p[i + 1]]
                 /\ q[i] \in Nat
      <4>1. PICK x \in 1 .. Len(t) : p[i + 1] = x + 1 /\ t[x] = s[p[i + 1]]
        BY <2>8
      <4>2. q[i] = x
        BY <4>1
      <4> QED
        BY <4>1, <4>2
    <3> QED
      BY <3>1
  <2> HIDE DEF q
  <2>10. ASSUME NEW i \in 1 .. m, NEW j \in 1 .. m, i < j PROVE q[i] < q[j]
    <3>1. PICK x \in 1 .. n, y \in 1 .. n : x = i + 1 /\ y = j + 1
      BY <2>7
    <3>2. p[x] < p[y]
      BY <1>3, <2>7, <2>10, <3>1
    <3>3. p[x] = q[i] + 1 /\ p[y] = q[j] + 1 /\ q[i] \in Nat /\ q[j] \in Nat
      BY <2>9, <3>1
    <3> QED
      BY <3>2, <3>3
  <2>11. ASSUME NEW i \in 1 .. m
         PROVE  t[q[i]] = Command(k2[i].name, k2[i].start, k2[i].num)
    <3>1. PICK j \in 1 .. n : j = i + 1 /\ k2[i] = l[j]
      BY <2>7
    <3>2. t[q[i]] = s[p[j]]
      BY <2>9, <3>1
    <3> QED
      BY <1>3, <3>1, <3>2
  <2>12. ASSUME NEW c \in 1 .. Len(t), t[c].kind \in {"Get", "Put"}
         PROVE  \E i \in 1 .. m : q[i] = c
    <3>1. c + 1 \in 1 .. Len(s) /\ s[c + 1] = t[c]
      BY <1>2
    <3>2. PICK j \in 1 .. n : p[j] = c + 1
      BY <1>3, <2>12, <3>1
    <3>3. j # 1
      BY <2>4, <3>2
    <3>4. PICK i \in 1 .. m : j = i + 1
      <4>1. n = m + 1
        BY <1>3 DEF m
      <4> QED
        BY <2>7, <3>3, <4>1, NotFirst
    <3>5. q[i] = c
      BY <2>9, <3>2, <3>4
    <3> QED
      BY <3>5
  <2>13. MovesAt(q, t, k2)
    BY <2>7, <2>9, <2>10, <2>11, <2>12 DEF MovesAt
  <2> QED
    BY <2>5, <2>6, <2>13 DEF Moves, k2
<1> QED
  BY <1>4, <1>5 DEF t
-----------------------------------------------------------------------------
(* The steps that account for a transfer.                                    *)

\* The next transfer is the one to be served.
LEMMA NextInService ==
    ASSUME NEW X, NEW l \in Seq(X), NEW k \in Seq(X), k # <<>>
    PROVE  (l \o <<>>) \o k = (l \o <<Head(k)>>) \o Tail(k)
<1>1. Head(k) \in X
  OBVIOUS
<1>2. l \o <<>> = l /\ l \o <<Head(k)>> = Append(l, Head(k))
  BY <1>1, ConcatEmptySeq, AppendIsConcat
<1> QED
  BY <1>2, MoveFirst

\* It joins the others when it has been served.
LEMMA ServiceDone ==
    ASSUME NEW X, NEW l \in Seq(X), NEW x \in X
    PROVE  Append(l, x) \o <<>> = l \o <<x>> /\ Append(l, x) \in Seq(X)
<1>1. Append(l, x) \in Seq(X) /\ Append(l, x) = l \o <<x>>
  BY AppendIsConcat
<1> QED
  BY <1>1, ConcatEmptySeq

\* What does not touch a transfer.
LEMMA TransferredStill ==
    ASSUME Transferred, Incoming' = Incoming, InService' = InService,
           UNCHANGED <<metrics, transfers>>
    PROVE  Transferred'
  BY DEF Transferred

\* The simulator takes an element that is no transfer.
LEMMA TakesNoTransfer ==
    ASSUME Works, Transferred, to_disk # <<>>, Head(to_disk).kind \notin {"Get", "Put"},
           to_disk' = Tail(to_disk), InService' = InService,
           UNCHANGED <<metrics, transfers, to_send>>
    PROVE  Transferred'
<1>1. to_disk \in Seq(Requests) /\ to_send \in Seq(Requests) /\ Incoming \in Seq(Requests)
  BY PipeTypes DEF Works, SessionTypeOK
<1>2. Incoming # <<>> /\ Head(Incoming) = Head(to_disk) /\ Incoming' = Tail(Incoming)
  BY <1>1, TakeFirst, BothEmpty DEF Incoming
<1>3. PICK done \in Seq(Ranges), coming \in Seq(Ranges) :
          /\ transfers = (done \o InService) \o coming
          /\ Counted(metrics, done) /\ Moves(Incoming, coming)
  BY DEF Transferred
<1>4. Moves(Incoming', coming)
  BY <1>1, <1>2, <1>3, MovesTail
<1> QED
  BY <1>3, <1>4 DEF Transferred

\* The simulator takes the command of the next transfer.
LEMMA StartTransferCounts ==
    ASSUME Works, Works', Transferred, StartTransfer, UNCHANGED clientVars
    PROVE  Transferred'
<1>0. UNCHANGED <<metrics, transfers, to_send>>
  BY DEF StartTransfer, clientVars, callVars
<1>1. to_disk \in Seq(Requests) /\ to_send \in Seq(Requests) /\ Incoming \in Seq(Requests)
  BY PipeTypes DEF Works, SessionTypeOK
<1>2. /\ to_disk # <<>> /\ to_disk' = Tail(to_disk) /\ InService = <<>>
      /\ Head(to_disk).kind \in {"Get", "Put"} /\ phase' = Head(to_disk).kind
      /\ request' = [start |-> Head(to_disk).start, num |-> Head(to_disk).num]
  BY DEF StartTransfer, InService, Works, SessionTypeOK
<1>3. Incoming # <<>> /\ Head(Incoming) = Head(to_disk) /\ Incoming' = Tail(Incoming)
  BY <1>0, <1>1, <1>2, TakeFirst, BothEmpty DEF Incoming
<1>4. PICK done \in Seq(Ranges), coming \in Seq(Ranges) :
          /\ transfers = (done \o InService) \o coming
          /\ Counted(metrics, done) /\ Moves(Incoming, coming)
  BY DEF Transferred
<1>5. /\ coming # <<>>
      /\ Head(to_disk) = Command(Head(coming).name, Head(coming).start, Head(coming).num)
      /\ Moves(Incoming', Tail(coming))
  BY <1>1, <1>2, <1>3, <1>4, MovesTail
<1>6. Head(coming) \in Ranges /\ Tail(coming) \in Seq(Ranges)
  BY <1>5, HeadTailProperties
<1>7. InService' = <<Head(coming)>>
  <2> DEFINE r == Head(coming)
  <2>1. r = [name |-> r.name, start |-> r.start, num |-> r.num]
    BY <1>6 DEF Ranges
  <2>2. phase' = r.name /\ request'.start = r.start /\ request'.num = r.num
    BY <1>2, <1>5 DEF Command
  <2> HIDE DEF r
  <2>3. InService' = <<[name |-> phase', start |-> request'.start, num |-> request'.num]>>
    BY <1>2 DEF InService
  <2> QED
    BY <2>1, <2>2, <2>3 DEF r
<1>8. InService' \in Seq(Ranges)
  BY <1>6, <1>7
<1>9. transfers = (done \o InService') \o Tail(coming)
  BY <1>2, <1>4, <1>5, <1>7, NextInService
<1> QED
  BY <1>0, <1>4, <1>5, <1>6, <1>8, <1>9 DEF Transferred

\* A transfer that has been served is counted.
LEMMA FinishCounts ==
    ASSUME Transferred, FinishGet \/ FinishPut, UNCHANGED clientVars
    PROVE  Transferred'
<1>1. /\ phase \in {"Get", "Put"} /\ phase' = "Flushing"
      /\ UNCHANGED <<to_disk, to_send, request, transfers>>
      /\ metrics' = IF phase = "Put" THEN update_write_on(metrics, request)
                    ELSE update_read_on(metrics, request)
  BY DEF FinishGet, FinishPut, AfterCommand, requestVars, clientVars, callVars
<1> DEFINE r == [name |-> phase, start |-> request.start, num |-> request.num]
<1>2. InService = <<r>> /\ InService' = <<>> /\ r.name = phase
      /\ r.start = request.start /\ r.num = request.num
  BY <1>1 DEF InService
<1> HIDE DEF r
<1>3. r \in Ranges
  BY <1>2 DEF Transferred
<1>4. PICK done \in Seq(Ranges), coming \in Seq(Ranges) :
          /\ transfers = (done \o InService) \o coming
          /\ Counted(metrics, done) /\ Moves(Incoming, coming)
  BY DEF Transferred
<1>5. Counted(metrics', Append(done, r))
  <2> DEFINE req == [start |-> r.start, num |-> r.num]
  <2>1. Counted(IF r.name = "Put" THEN update_write_on(metrics, req)
                ELSE update_read_on(metrics, req), Append(done, r))
    BY <1>3, <1>4, CountOne
  <2>2. \A m : /\ update_write_on(m, req) = update_write_on(m, request)
               /\ update_read_on(m, req) = update_read_on(m, request)
    BY <1>2 DEF update_write_on, update_read_on, simulate_io_time
  <2> QED
    BY <1>1, <1>2, <2>1, <2>2
<1>6. transfers = (Append(done, r) \o InService') \o coming /\ Append(done, r) \in Seq(Ranges)
  BY <1>2, <1>3, <1>4, ServiceDone
<1>7. Incoming' = Incoming /\ InService' \in Seq(Ranges)
  BY <1>1, <1>2 DEF Incoming
<1> QED
  BY <1>1, <1>4, <1>5, <1>6, <1>7 DEF Transferred

\* It does not matter which of three lists are joined first.
LEMMA ThreeLists == \A a, b, c \in Seq(Ranges) : (a \o b) \o c = a \o (b \o c)
  BY ConcatAssociative

\* A call puts its command, and what follows it, behind what is on its way.
LEMMA CallsAppend ==
    ASSUME Works, Transferred, NEW t \in Seq(Requests), NEW k \in Seq(Ranges), Moves(t, k),
           to_send = <<>>, to_send' = t, transfers' = transfers \o k,
           UNCHANGED <<to_disk, phase, request, metrics>>
    PROVE  Transferred'
<1>1. to_disk \in Seq(Requests) /\ Incoming \in Seq(Requests) /\ Incoming = to_disk
  <2>1. to_disk \in Seq(Requests) /\ Incoming \in Seq(Requests)
    BY PipeTypes DEF Works, SessionTypeOK
  <2> QED
    BY <2>1, ConcatEmptySeq DEF Incoming
<1>2. PICK done \in Seq(Ranges), coming \in Seq(Ranges) :
          /\ transfers = (done \o InService) \o coming
          /\ Counted(metrics, done) /\ Moves(Incoming, coming)
  BY DEF Transferred
<1>3. Incoming' = Incoming \o t
  BY <1>1 DEF Incoming
<1>4. Moves(Incoming', coming \o k)
  BY <1>1, <1>2, <1>3, MovesAppend
<1>5. InService' = InService /\ InService \in Seq(Ranges)
  BY DEF InService, Transferred
<1>6. coming \o k \in Seq(Ranges) /\ done \o InService \in Seq(Ranges)
  BY <1>5, ConcatProperties
<1>7. transfers' = (done \o InService) \o (coming \o k)
  <2> DEFINE u == done \o InService
  <2>1. u \in Seq(Ranges) /\ transfers' = (u \o coming) \o k
    BY <1>2, <1>6
  <2> HIDE DEF u
  <2>2. (u \o coming) \o k = u \o (coming \o k)
    BY <2>1, ThreeLists, Zenon
  <2> QED
    BY <2>1, <2>2 DEF u
<1> QED
  BY <1>2, <1>4, <1>5, <1>6, <1>7 DEF Transferred

\* The calls that ask for a number.
LEMMA QueryCalls ==
    ASSUME Works, LayoutInv, AskBlockSize \/ AskAnonStart \/ OpenScan \/ AskNumBlocks
    PROVE  /\ \E c \in Requests : c.kind \in Queries /\ to_send' = <<c>>
           /\ to_send = <<>> /\ UNCHANGED <<to_disk, phase, request, metrics, transfers>>
<1>1. UNCHANGED <<to_disk, phase, request, metrics, transfers>>
  BY DEF AskBlockSize, AskAnonStart, OpenScan, AskNumBlocks, diskVars, requestVars
<1>2. to_send = <<>>
  BY DEF AskBlockSize, AskAnonStart, OpenScan, AskNumBlocks, Begin, Answered, Works, Calls
<1>3. \A q \in Queries, f \in Nat :
          Command(q, f, 0) \in Requests /\ Command(q, f, 0).kind = q
  BY DEF Command, Requests, Commands
<1>4. CASE AskBlockSize
  BY <1>1, <1>2, <1>3, <1>4 DEF AskBlockSize, Begin, Queries
<1>5. CASE AskAnonStart
  BY <1>1, <1>2, <1>3, <1>5 DEF AskAnonStart, Queries
<1>6. CASE OpenScan
  <2>1. PICK f \in DOMAIN config : to_send' = <<Command("file start-block", f, 0)>>
    BY <1>6 DEF OpenScan, Begin
  <2>2. f \in Nat
    BY DEF LayoutInv, Placed
  <2> QED
    BY <1>1, <1>2, <1>3, <2>1, <2>2 DEF Queries
<1>7. CASE AskNumBlocks
  <2>1. scan.file \in Nat
    BY DEF Works, SessionTypeOK
  <2> QED
    BY <1>1, <1>2, <1>3, <1>7, <2>1 DEF AskNumBlocks, Queries
<1> QED
  BY <1>4, <1>5, <1>6, <1>7

\* The block of a put that is taken has been written at its address.
LEMMA PutTakesBlock ==
    ASSUME Works, PutBlock
    PROVE  Head(to_disk) \in Blocks /\ PutAddress \in DOMAIN written
<1> DEFINE a == request.start + block_offset
<1>1. phase = "Put" /\ block_offset < request.num /\ to_disk # <<>>
  BY DEF PutBlock
<1>2. a \in Nat /\ Left \in Nat /\ Left > 0
  <2>1. request \in [start : Nat, num : Nat] /\ block_offset \in Nat
    BY DEF Works, SessionTypeOK
  <2>2. request.start \in Nat /\ request.num \in Nat
    BY <2>1
  <2> QED
    BY <1>1, <2>1, <2>2 DEF Left
<1>3. to_disk \in Seq(Requests) /\ to_send \in Seq(Requests) /\ Incoming \in Seq(Requests)
  BY PipeTypes DEF Works, SessionTypeOK
<1>4. Head(Incoming) = Head(to_disk)
  BY <1>1, <1>3, TakeFirst DEF Incoming
<1>5. OfBlocks(written)
  BY DEF OfBlocks, Works, SessionTypeOK
<1>6. Loaded(Incoming, Left, a, written)
  BY DEF Works, Puts
<1>7. a = PutAddress
  BY DEF PutAddress
<1> HIDE DEF a
<1>8. a \in DOMAIN written /\ Head(Incoming) = written[a]
  BY <1>2, <1>3, <1>5, <1>6, LoadedTakeBlock
<1> QED
  BY <1>4, <1>5, <1>7, <1>8 DEF OfBlocks

\* Writing to the pipe leaves both together as they are.
LEMMA SendMoves ==
    ASSUME Works, Send
    PROVE  Incoming' = Incoming /\ UNCHANGED <<phase, request, metrics, transfers>>
<1>1. UNCHANGED <<phase, request, metrics, transfers>> /\ Alive /\ to_send # <<>>
  BY DEF Send, requestVars
<1>2. ServerOpen
  BY <1>1 DEF ServerOpen, Alive, Works, SessionTypeOK, Phases
<1>3. to_disk' = Append(to_disk, Head(to_send)) /\ to_send' = Tail(to_send)
  BY <1>2 DEF Send
<1>4. to_disk \in Seq(Requests) /\ to_send \in Seq(Requests)
  BY DEF Works, SessionTypeOK
<1> QED
  BY <1>1, <1>3, <1>4, MoveFirst DEF Incoming

\* Only sending and taking change the pipe to the simulator.
LEMMA PipeKept ==
    ASSUME [Next]_vars, ~Send, ~(AnswerQuery \/ StartTransfer \/ PutBlock)
    PROVE  UNCHANGED to_disk
<1>1. CASE ServerStep
  BY <1>1 DEF ServerStep, DiskNext, PlaceFile, FinishLayout, GetBlock, FinishGet, FinishPut,
              WriteOut, Flushed, EndOfInput
<1>2. CASE ClientStep
  <2>1. CASE Receive \/ AskBlockSize \/ AskAnonStart \/ Connected \/ OpenScan \/ AskNumBlocks
    BY <2>1 DEF Receive, AskBlockSize, AskAnonStart, Connected, OpenScan, AskNumBlocks, diskVars
  <2>2. CASE ScanOpened \/ FillBuffer \/ BufferFilled \/ SpillBlocks \/ BlocksSpilled
    BY <2>2 DEF ScanOpened, FillBuffer, BufferFilled, SpillBlocks, BlocksSpilled, diskVars
  <2>3. CASE ReadBack \/ BackRead \/ Close
    BY <2>3 DEF ReadBack, BackRead, Close, diskVars
  <2> QED
    BY <1>2, <2>1, <2>2, <2>3 DEF ClientStep
<1>3. CASE Kill \/ UNCHANGED vars
  BY <1>3 DEF Kill, vars, diskVars
<1> QED
  BY <1>1, <1>2, <1>3 DEF Next, Stopped

\* The simulator exits only where its input ends.
LEMMA ExitsAtEnd ==
    ASSUME [Next]_vars, phase # "Exited", phase' = "Exited", Works
    PROVE  EndOfInput
<1>1. CASE ServerStep
  <2>1. ~(PlaceFile \/ FinishLayout \/ AnswerQuery \/ GetBlock \/ FinishGet)
    BY DEF PlaceFile, FinishLayout, AnswerQuery, GetBlock, FinishGet, AfterCommand
  <2>2. ~(PutBlock \/ FinishPut \/ WriteOut \/ Flushed)
    BY DEF PutBlock, FinishPut, WriteOut, Flushed, AfterCommand
  <2>3. ~StartTransfer
    BY DEF StartTransfer
  <2> QED
    BY <1>1, <2>1, <2>2, <2>3 DEF ServerStep, DiskNext
<1>2. CASE ClientStep
  <2>1. CASE Send \/ Receive \/ AskBlockSize \/ AskAnonStart \/ Connected \/ OpenScan
    BY <2>1 DEF Send, Receive, AskBlockSize, AskAnonStart, Connected, OpenScan, diskVars
  <2>2. CASE AskNumBlocks \/ ScanOpened \/ FillBuffer \/ BufferFilled \/ SpillBlocks
    BY <2>2 DEF AskNumBlocks, ScanOpened, FillBuffer, BufferFilled, SpillBlocks, diskVars
  <2>3. CASE BlocksSpilled \/ ReadBack \/ BackRead \/ Close
    BY <2>3 DEF BlocksSpilled, ReadBack, BackRead, Close, diskVars
  <2> QED
    BY <1>2, <2>1, <2>2, <2>3 DEF ClientStep
<1>3. CASE Kill \/ UNCHANGED vars
  BY <1>3 DEF Kill, vars, diskVars
<1> QED
  BY <1>1, <1>2, <1>3 DEF Next, Stopped

\* What the steps of the simulator account for.
LEMMA ServerAccounts ==
    ASSUME Works, Works', Transferred, DiskNext, UNCHANGED clientVars
    PROVE  Transferred'
<1>0. UNCHANGED <<to_send, transfers>>
  BY DEF clientVars, callVars
<1>1. CASE PlaceFile \/ FinishLayout \/ Flushed
  <2>1. /\ UNCHANGED <<to_disk, request, metrics>>
        /\ phase \notin {"Get", "Put"} /\ phase' \notin {"Get", "Put"}
    BY <1>1 DEF PlaceFile, FinishLayout, Flushed, requestVars
  <2> QED
    BY <1>0, <2>1, TransferredStill DEF Incoming, InService
<1>2. CASE GetBlock \/ WriteOut
  <2>1. UNCHANGED <<to_disk, request, metrics, phase>>
    BY <1>2 DEF GetBlock, WriteOut, requestVars, Works, SessionTypeOK
  <2> QED
    BY <1>0, <2>1, TransferredStill DEF Incoming, InService
<1>3. CASE EndOfInput
  <2>1. /\ UNCHANGED <<to_disk, request, metrics>>
        /\ phase \notin {"Get", "Put"} /\ phase' \notin {"Get", "Put"}
    BY <1>3 DEF EndOfInput, requestVars, Works, SessionTypeOK
  <2> QED
    BY <1>0, <2>1, TransferredStill DEF Incoming, InService
<1>4. CASE AnswerQuery
  <2>1. /\ to_disk # <<>> /\ Head(to_disk).kind \notin {"Get", "Put"}
        /\ to_disk' = Tail(to_disk) /\ UNCHANGED metrics
        /\ phase \notin {"Get", "Put"} /\ phase' \notin {"Get", "Put"}
    BY <1>4 DEF AnswerQuery, AfterCommand, Queries
  <2> QED
    BY <1>0, <2>1, TakesNoTransfer DEF InService
<1>5. CASE StartTransfer
  BY <1>5, StartTransferCounts
<1>6. CASE PutBlock
  <2>1. /\ to_disk # <<>> /\ to_disk' = Tail(to_disk) /\ UNCHANGED <<metrics, request, phase>>
    BY <1>6 DEF PutBlock, Works, SessionTypeOK
  <2>2. Head(to_disk) \in Blocks
    BY <1>6, PutTakesBlock
  <2>3. Head(to_disk).kind \notin {"Get", "Put"}
    BY <2>2 DEF Blocks
  <2> QED
    BY <1>0, <2>1, <2>3, TakesNoTransfer DEF InService
<1>7. CASE FinishGet \/ FinishPut
  BY <1>7, FinishCounts
<1> QED
  BY <1>1, <1>2, <1>3, <1>4, <1>5, <1>6, <1>7 DEF DiskNext

\* What the steps of the database account for.
LEMMA ClientAccounts ==
    ASSUME Works, Works', LayoutInv, TransfersOK, Transferred, ClientStep
    PROVE  Transferred'
<1>1. CASE Send
  <2>1. Incoming' = Incoming /\ UNCHANGED <<phase, request, metrics, transfers>>
    BY <1>1, SendMoves
  <2> QED
    BY <2>1, TransferredStill DEF InService
<1>2. CASE Receive \/ Connected \/ ScanOpened \/ BufferFilled \/ BlocksSpilled \/ BackRead \/ Close
  <2>1. UNCHANGED <<to_disk, to_send, phase, request, metrics, transfers>>
    <3>1. CASE Receive \/ Connected \/ ScanOpened
      BY <3>1 DEF Receive, Connected, ScanOpened, Return, diskVars, requestVars
    <3>2. CASE BufferFilled \/ BlocksSpilled \/ BackRead \/ Close
      BY <3>2 DEF BufferFilled, BlocksSpilled, BackRead, Close, Return, diskVars, requestVars,
                  callVars
    <3> QED
      BY <1>2, <3>1, <3>2
  <2> QED
    BY <2>1, TransferredStill DEF Incoming, InService
<1>3. CASE AskBlockSize \/ AskAnonStart \/ OpenScan \/ AskNumBlocks
  <2>1. /\ to_send = <<>> /\ UNCHANGED <<to_disk, phase, request, metrics, transfers>>
        /\ \E c \in Requests : c.kind \in Queries /\ to_send' = <<c>>
    BY <1>3, QueryCalls
  <2>2. PICK c \in Requests : c.kind \in Queries /\ to_send' = <<c>>
    BY <2>1
  <2>3. <<c>> \in Seq(Requests) /\ <<>> \in Seq(Ranges) /\ Moves(<<c>>, <<>>)
    BY <2>2, QueryMoves
  <2>4. transfers' = transfers \o <<>>
    BY <2>1, ConcatEmptySeq DEF TransfersOK
  <2> QED
    BY <2>1, <2>2, <2>3, <2>4, CallsAppend
<1>4. CASE FillBuffer \/ SpillBlocks \/ ReadBack
  <2>1. PICK r \in Ranges, data \in Seq(Blocks) : Transfers(r, data)
    BY <1>4, TransferCalls
  <2> DEFINE t == <<Command(r.name, r.start, r.num)>> \o data
  <2>2. t \in Seq(Requests) /\ Moves(t, <<r>>)
    BY CommandMoves
  <2>3. /\ transfers' = transfers \o <<r>> /\ <<r>> \in Seq(Ranges)
    <3>1. transfers' = Append(transfers, r)
      BY <2>1 DEF Transfers
    <3>2. Append(transfers, r) = transfers \o <<r>>
      BY AppendIsConcat DEF TransfersOK
    <3> QED
      BY <3>1, <3>2
  <2>4. /\ to_send = <<>> /\ to_send' = t /\ UNCHANGED <<to_disk, phase, request, metrics>>
    BY <2>1 DEF Transfers
  <2> HIDE DEF t
  <2> QED
    BY <2>2, <2>3, <2>4, CallsAppend
<1> QED
  BY <1>1, <1>2, <1>3, <1>4 DEF ClientStep

\* Every block that is stored has been written.
LEMMA StoredKept ==
    ASSUME Works, TransfersOK, Stored, [Next]_vars
    PROVE  Stored'
<1>1. CASE PutBlock /\ UNCHANGED clientVars
  <2>1. written' = written
    BY <1>1 DEF clientVars
  <2>2. CASE PutAddress >= anon_start_index
    <3>1. anon_pages' = [b \in DOMAIN anon_pages \cup {PutAddress} |->
                             IF b = PutAddress THEN Head(to_disk) ELSE anon_pages[b]]
      BY <1>1, <2>2 DEF PutBlock
    <3>2. PutAddress \in DOMAIN written
      BY <1>1, PutTakesBlock
    <3> HIDE DEF PutAddress
    <3> QED
      BY <2>1, <3>1, <3>2 DEF Stored
  <2>3. CASE ~(PutAddress >= anon_start_index)
    BY <1>1, <2>1, <2>3 DEF PutBlock, Stored
  <2> QED
    BY <2>2, <2>3
<1>2. CASE ServerStep /\ ~PutBlock
  <2>1. UNCHANGED anon_pages
    BY <1>2 DEF ServerStep, DiskNext, PlaceFile, FinishLayout, AnswerQuery, StartTransfer, GetBlock,
                FinishGet, FinishPut, WriteOut, Flushed, EndOfInput
  <2>2. UNCHANGED written
    BY <1>2 DEF ServerStep, clientVars
  <2> QED
    BY <2>1, <2>2 DEF Stored
<1>3. CASE SpillBlocks
  BY <1>3 DEF SpillBlocks, Stored, diskVars
<1>4. CASE (ClientStep /\ ~SpillBlocks) \/ Kill \/ UNCHANGED vars
  <2>1. UNCHANGED <<anon_pages, written>>
    <3>1. CASE Send \/ Receive \/ AskBlockSize \/ AskAnonStart \/ Connected \/ OpenScan
      BY <3>1 DEF Send, Receive, AskBlockSize, AskAnonStart, Connected, OpenScan, diskVars
    <3>2. CASE AskNumBlocks \/ ScanOpened \/ FillBuffer \/ BufferFilled \/ BlocksSpilled
      BY <3>2 DEF AskNumBlocks, ScanOpened, FillBuffer, BufferFilled, BlocksSpilled, diskVars
    <3>3. CASE ReadBack \/ BackRead \/ Close \/ Kill
      BY <3>3 DEF ReadBack, BackRead, Close, Kill, diskVars
    <3>4. CASE UNCHANGED vars
      BY <3>4 DEF vars, diskVars, clientVars
    <3> QED
      BY <1>4, <3>1, <3>2, <3>3, <3>4 DEF ClientStep
  <2> QED
    BY <2>1 DEF Stored
<1> QED
  BY <1>1, <1>2, <1>3, <1>4 DEF Next, ServerStep, Stopped

\* Nothing is sent to a simulator that has ended.
LEMMA DrainedKept ==
    ASSUME Works, Works', Drained, [Next]_vars, client' # "Killed"
    PROVE  Drained'
<1> SUFFICES ASSUME phase' = "Exited" PROVE to_disk' = <<>>
  BY DEF Drained
<1>1. CASE phase = "Exited"
  <2>1. client = "Closed" /\ to_disk = <<>>
    BY <1>1 DEF Works, Phases, Drained
  <2>2. ~Send /\ ~(AnswerQuery \/ StartTransfer \/ PutBlock)
    BY <1>1, <2>1 DEF Send, Alive, AnswerQuery, StartTransfer, PutBlock
  <2>3. UNCHANGED to_disk
    BY <2>2, PipeKept
  <2> QED
    BY <2>1, <2>3
<1>2. CASE phase # "Exited"
  <2>1. EndOfInput
    BY <1>2, ExitsAtEnd
  <2> QED
    BY <2>1 DEF EndOfInput
<1> QED
  BY <1>1, <1>2

\* Before the first step there is nothing to account for.
LEMMA InitAccounted == Init => Accounted
<1> SUFFICES ASSUME Init PROVE Accounted
  OBVIOUS
<1>1. /\ phase = "Placing" /\ to_disk = <<>> /\ to_send = <<>> /\ transfers = <<>>
      /\ anon_pages = <<>> /\ metrics = NewMetrics
  BY DEF Init, DiskInit
<1>2. Stored /\ Drained
  BY <1>1 DEF Stored, Drained
<1>3. InService = <<>> /\ Incoming = <<>> /\ <<>> \in Seq(Ranges)
  BY <1>1 DEF InService, Incoming
<1>4. Moves(Incoming, <<>>)
  BY <1>3, NothingMoves
<1>5. Counted(metrics, <<>>)
  <2>1. Cardinality(PutsOf(<<>>)) = 0 /\ BlocksOf(<<>>) = 0
    <3>1. [name |-> "Get", start |-> 0, num |-> 1] \in Ranges
      BY DEF Ranges
    <3> QED
      BY <1>3, <3>1, PutsOfMore, BlocksOfMore
  <2>2. /\ metrics = [f \in Counters |-> metrics[f]]
        /\ metrics.writes = 0 /\ metrics.reads = 0 /\ metrics.blocks = 0
    BY <1>1 DEF NewMetrics, Counters
  <2> QED
    BY <2>1, <2>2 DEF Counted
<1>6. transfers = (<<>> \o InService) \o <<>>
  BY <1>1, <1>3
<1> QED
  BY <1>2, <1>3, <1>4, <1>5, <1>6 DEF Accounted, Transferred

\* As long as the database is not killed, every step keeps the account.
LEMMA AccountedInvariance == Spec => [](client # "Killed" => Accounted)
<1>1. ASSUME SessionIInv, SessionIInv', LayoutInv, client # "Killed" => Accounted, [Next]_vars
      PROVE  (client # "Killed" => Accounted)'
  <2> SUFFICES ASSUME client' # "Killed" PROVE Accounted'
    OBVIOUS
  <2>1. client # "Killed"
    BY <1>1, KilledStays DEF clientVars
  <2>2. Works /\ Works' /\ TransfersOK /\ Transferred /\ Stored /\ Drained
    BY <1>1, <2>1 DEF SessionIInv, Accounted
  <2>3. Stored' /\ Drained'
    BY <1>1, <2>2, StoredKept, DrainedKept
  <2>4. Transferred'
    <3>1. CASE ServerStep
      BY <2>2, <3>1, ServerAccounts DEF ServerStep
    <3>2. CASE ClientStep
      BY <1>1, <2>2, <3>2, ClientAccounts
    <3>3. CASE UNCHANGED vars
      <4>1. UNCHANGED <<to_disk, to_send, phase, request, metrics, transfers>>
        BY <3>3 DEF vars, diskVars, clientVars, callVars, requestVars
      <4> QED
        BY <2>2, <4>1, TransferredStill DEF Incoming, InService
    <3>4. ~Kill
      BY DEF Kill
    <3> QED
      BY <1>1, <3>1, <3>2, <3>3, <3>4 DEF Next, Stopped
  <2> QED
    BY <2>3, <2>4 DEF Accounted
<1>2. Init => (client # "Killed" => Accounted)
  BY InitAccounted
<1> QED
  BY <1>1, <1>2, SessionInvariance, PTL DEF Spec

\* Whatever was scanned, spilled and read back, and with pipes and layouts of any
\* size: when a session was closed and the simulator has come to the end of its
\* input, every block that was spilled is stored as it was written last, and the
\* metrics say what was transferred, the last range last.
THEOREM ClosedSessionsAccounted == Spec => []ClosedSessionIsAccounted
<1>1. SessionIInv /\ (client # "Killed" => Accounted) => ClosedSessionIsAccounted
  <2> SUFFICES ASSUME SessionIInv, Accounted, client = "Closed", phase = "Exited"
               PROVE  /\ anon_pages = written
                      /\ metrics.writes = Cardinality(Writes)
                      /\ metrics.reads = Len(transfers) - Cardinality(Writes)
                      /\ metrics.blocks = BlocksOf(transfers)
                      /\ transfers # <<>> =>
                             metrics.last_end_block
                                 = Last(transfers).start + Last(transfers).num - 1
    BY DEF ClosedSessionIsAccounted
  <2>1. Works /\ TransfersOK /\ Transferred /\ Stored /\ Drained
    BY DEF SessionIInv, Accounted
  <2>2. to_disk = <<>> /\ to_send = <<>> /\ InService = <<>> /\ Left = 0
    BY <2>1 DEF Works, Phases, Calls, Drained, InService, Left
  <2>3. Incoming = <<>>
    BY <2>2 DEF Incoming
  <2>4. PICK done \in Seq(Ranges), coming \in Seq(Ranges) :
            /\ transfers = (done \o InService) \o coming
            /\ Counted(metrics, done) /\ Moves(Incoming, coming)
    BY <2>1 DEF Transferred
  <2>5. coming = <<>>
    BY <2>3, <2>4, NothingMoves
  <2>6. transfers = done
    <3>1. done \o <<>> = done
      BY ConcatEmptySeq
    <3> QED
      BY <2>2, <2>4, <2>5, <3>1
  <2>7. Counted(metrics, transfers)
    BY <2>4, <2>6
  <2>8. Writes = PutsOf(transfers)
    BY DEF Writes, PutsOf
  <2>9. transfers # <<>> => Last(transfers) = transfers[Len(transfers)]
    BY DEF Last
  <2>10. anon_pages = written
    <3>1. \A b \in DOMAIN written : b \in DOMAIN anon_pages /\ anon_pages[b] = written[b]
      BY <2>1, <2>2, <2>3, NothingPending DEF Works, Puts
    <3>2. anon_pages = [b \in DOMAIN anon_pages |-> anon_pages[b]]
          /\ DOMAIN anon_pages = DOMAIN written
      BY <2>1, <3>1 DEF Stored
    <3>3. written = [b \in DOMAIN written |-> written[b]]
      BY <2>1 DEF Works, SessionTypeOK
    <3>4. anon_pages = [b \in DOMAIN written |-> written[b]]
      BY <3>1, <3>2
    <3> QED
      BY <3>3, <3>4
  <2> QED
    BY <2>7, <2>8, <2>9, <2>10 DEF Counted
<1> QED
  BY <1>1, SessionInvariance, AccountedInvariance, PTL
=============================================================================
