------------------------------- MODULE Session -------------------------------
(* The monitor (monitor/src/main.rs) runs the queries of its configuration   *)
(* one after the other.  For each it starts a disk and a database process,   *)
(* joins them by pipes, hands the database the query, and compares the rows  *)
(* it prints with the expected ones.  The processes may fail to start, the   *)
(* database (database/src/main.rs) may die at any time, and who notices      *)
(* depends on which process still holds which end of which pipe.             *)
EXTENDS RemapFds, SequencesExt

CONSTANTS Rows,             \* the lines a row can be
          Suites,           \* lists of queries: [disabled, sort_before_check, expected]
          Results,          \* what a database may compute: sequences of rows
          PipeCapacity,     \* lines a pipe holds
          Inherited         \* sets of descriptors the monitor may be started with

End == "!"              \* the line behind the last row

Pipes == {"disk_inbound", "disk_outbound", "monitor_to_db", "db_to_monitor", "exec", "inherited"}
Rd(pipe) == <<pipe, "read">>
Wr(pipe) == <<pipe, "write">>

\* There is room for the pipes of a session, and for moving four ends of them.
ASSUME SessionAssumption ==
    /\ PipeCapacity \in Nat \ {0} /\ End \notin Rows
    /\ Suites \subseteq Seq([disabled : BOOLEAN, sort_before_check : BOOLEAN,
                             expected : Seq(Rows)])
    /\ Results \subseteq Seq(Rows)
    /\ {Rd(pipe) : pipe \in Pipes} \cup {Wr(pipe) : pipe \in Pipes} \subseteq Files
    /\ MaxFd >= 10
    /\ \A open \in Inherited : /\ open \subseteq Fds
                               /\ Cardinality((0 .. MaxFd - 4) \ open) >= 6
                               /\ Cardinality(Fds \ open) >= 8

VARIABLES suite,
          q,            \* the query under way
          monitor,      \* what the monitor does
          db,           \* what the database does; its descriptors are "table"
          disk,         \* "None", "Serving" or "Exited"
          monitor_fds, disk_fds,
          to_db, to_monitor,
          result,       \* the rows this database is going to print
          printed,      \* lines of it that have been printed
          seen,         \* the rows the monitor has read
          db_result,    \* handle_db: "Running", "Ok" or "Err"
          runs          \* history: the runs so far, [query, complete, result, verdict]

data_vars == <<to_db, to_monitor, result, printed, seen>>
fd_vars == <<monitor_fds, disk_fds, table>>
call_vars == <<mappings, original, remapped>>   \* of the call of remap_fds
vars == <<suite, q, monitor, db, disk, db_result, runs, fd_vars, call_vars, data_vars>>

DbEnded == db \in {"Exited", "Failed", "Killed", "NotExecuted"}
Query == suite[q]
-----------------------------------------------------------------------------
(* Processes, pipes and descriptors.                                         *)
HasRoom(lines) == Len(lines) < PipeCapacity

NoFds == [fd \in Fds |-> Closed]

\* pipe(): each end gets the lowest descriptor that is free then.
OpenPipes(fds, files) ==
    [fd \in Fds |->
        LET n == Cardinality({d \in 0 .. fd : fds[d] = Closed})
        IN  IF fds[fd] = Closed /\ n <= Len(files)
            THEN [file |-> files[n], cloexec |-> TRUE] ELSE fds[fd]]
Drop(fds, files) == [fd \in Fds |-> IF fds[fd].file \in files THEN Closed ELSE fds[fd]]
Exec(fds) == [fd \in Fds |-> IF fds[fd].cloexec THEN Closed ELSE fds[fd]]
FdOf(fds, file) == CHOOSE fd \in Fds : fds[fd].file = file
Holds(fds, file) == \E fd \in Fds : fds[fd].file = file
Held(file) == \E fds \in {monitor_fds, disk_fds, table} : Holds(fds, file)

InheritedFds(open) ==
    [fd \in Fds |-> IF fd \in open THEN [file |-> Rd("inherited"), cloexec |-> FALSE]
                    ELSE Closed]

Init == /\ suite \in Suites
        /\ q = 1 /\ monitor = "Start"
        /\ db = "None" /\ disk = "None"
        /\ monitor_fds \in {InheritedFds(open) : open \in Inherited}
        /\ disk_fds = NoFds /\ table = NoFds
        /\ mappings = <<>> /\ original = NoFds /\ remapped = 0
        /\ to_db = <<>> /\ to_monitor = <<>>
        /\ result = <<>> /\ printed = 0 /\ seen = <<>>
        /\ db_result = "Running" /\ runs = <<>>
-----------------------------------------------------------------------------
(* The monitor.                                                              *)

\* The next query, if there is one that is not disabled.
Skip == /\ monitor = "Start" /\ q <= Len(suite) /\ Query.disabled
        /\ q' = q + 1
        /\ UNCHANGED <<suite, monitor, db, disk, db_result, runs, fd_vars, call_vars,
                       data_vars>>

\* setup_disk_process: the disk reads commands from its standard input and
\* answers on its standard output; the monitor keeps the two other ends.
DiskTable(fds) ==
    Exec(dup2(dup2(fds, FdOf(fds, Rd("disk_inbound")), 0), FdOf(fds, Wr("disk_outbound")), 1))

StartDisk ==
    /\ monitor = "Start" /\ q <= Len(suite) /\ ~Query.disabled
    /\ LET fds == OpenPipes(monitor_fds, <<Rd("disk_outbound"), Wr("disk_outbound"),
                                          Rd("disk_inbound"), Wr("disk_inbound")>>)
       IN  /\ disk_fds' = DiskTable(fds)
           /\ monitor_fds' = Drop(fds, {Rd("disk_inbound"), Wr("disk_outbound")})
    /\ disk' = "Serving" /\ monitor' = "StartDb"
    /\ UNCHANGED <<suite, q, db, db_result, runs, table, call_vars, data_vars>>

\* The ends that the database is to have, and where.
DbFiles == <<Rd("disk_outbound"), Wr("disk_inbound"), Rd("monitor_to_db"), Wr("db_to_monitor")>>
DbFds == <<3, 4, 5, 6>>

\* setup_db_process up to the fork.  A pipe of the library, "exec", tells the
\* parent that the child has executed its program, or why it could not.
Fork ==
    /\ monitor = "StartDb"
    /\ LET fds == OpenPipes(monitor_fds, <<Rd("monitor_to_db"), Wr("monitor_to_db"),
                                          Rd("db_to_monitor"), Wr("db_to_monitor"),
                                          Rd("exec"), Wr("exec")>>)
       IN  /\ monitor_fds' = Drop(fds, {Wr("exec")})
           /\ table' = Drop(fds, {Rd("exec")})
           /\ mappings' = [i \in 1 .. 4 |-> [source |-> FdOf(fds, DbFiles[i]),
                                             target |-> DbFds[i], close_on_exec |-> FALSE]]
    /\ original' = table' /\ remapped' = 0
    /\ db' = "Remap" /\ monitor' = "AwaitExec"
    /\ to_db' = <<>> /\ to_monitor' = <<>>
    /\ result' \in Results /\ printed' = 0 /\ seen' = <<>>
    /\ UNCHANGED <<suite, q, disk, db_result, runs, disk_fds>>

\* A program cannot be started: monitor_main returns, and the descriptors of
\* the monitor are closed; a disk that has been started is left to itself.
SpawnFails ==
    /\ \/ monitor = "Start" /\ q <= Len(suite) /\ ~Query.disabled
       \/ monitor = "StartDb"
    /\ monitor' = "Aborted" /\ monitor_fds' = NoFds
    /\ UNCHANGED <<suite, q, db, disk, db_result, runs, disk_fds, table, call_vars, data_vars>>

\* What is closed in the parent with the command, at the end of setup_db_process.
OfTheChild == {Rd("exec")} \cup ToSet(DbFiles)

\* The library returns from spawn: nobody holds the other end of its pipe any
\* more, or the child has written an error to it.
Spawned ==
    /\ monitor = "AwaitExec"
    /\ IF db = "NotExecuted"
       THEN monitor' = "Aborted" /\ monitor_fds' = NoFds
       ELSE /\ ~Held(Wr("exec"))
            /\ monitor' = "SendQuery" /\ monitor_fds' = Drop(monitor_fds, OfTheChild)
    /\ db_result' = "Running"
    /\ UNCHANGED <<suite, q, db, disk, runs, disk_fds, table, call_vars, data_vars>>

\* Every query has been run.
Finish == /\ monitor = "Start" /\ q > Len(suite)
          /\ monitor' = "Finished"
          /\ monitor_fds' = NoFds
          /\ UNCHANGED <<suite, q, db, disk, db_result, runs, disk_fds, table, call_vars,
                         data_vars>>

\* What does not change while the monitor and the database talk.
session == <<suite, q, runs, disk, disk_fds, monitor_fds, call_vars>>

\* A variant of Judge that kills nothing and waits for the disk at once.
JudgeKeepsDb(outcome) ==
    monitor' = "WaitDisk" /\ db_result' = outcome /\ UNCHANGED <<db, table>>

\* handle_db returns: a database that failed is killed, the other waited for.
Judge(outcome) ==
    /\ db_result' = outcome
    /\ IF outcome = "Err"
       THEN /\ monitor' = "WaitDisk" /\ table' = NoFds
            /\ db' = IF DbEnded THEN db ELSE "Killed"
       ELSE monitor' = "WaitDb" /\ UNCHANGED <<db, table>>

\* The monitor goes on to read something else.
GoOn(next) == monitor' = next /\ UNCHANGED <<db, table, db_result>>

\* write_all fails when nobody holds the other end.
Write(line, next) ==
    IF ~Held(Rd("monitor_to_db")) THEN Judge("Err") /\ UNCHANGED to_db
    ELSE HasRoom(to_db) /\ to_db' = Append(to_db, line) /\ GoOn(next)

SendQuery ==
    /\ monitor = "SendQuery"
    /\ Write("query", "ReadCommand")
    /\ UNCHANGED <<session, to_monitor, result, printed, seen>>

\* read_line returns nothing: the pipe is empty and will stay so.
AtEnd == to_monitor = <<>> /\ ~Held(Wr("db_to_monitor"))

\* One command of the database, or the end of its output.
ReadCommand ==
    /\ monitor = "ReadCommand"
    /\ \/ /\ AtEnd
          /\ Judge("Err")
          /\ UNCHANGED to_monitor
       \/ /\ to_monitor # <<>> /\ to_monitor' = Tail(to_monitor)
          /\ IF Head(to_monitor) = "get_memory_limit" THEN GoOn("SendLimit")
             ELSE IF Head(to_monitor) = "validate"
             THEN GoOn(IF Query.sort_before_check THEN "BySorting" ELSE "Presorted")
             ELSE Judge("Err")
    /\ UNCHANGED <<session, to_db, result, printed, seen>>

SendLimit ==
    /\ monitor = "SendLimit"
    /\ Write("limit", "ReadCommand")
    /\ UNCHANGED <<session, to_monitor, result, printed, seen>>

\* A variant of VerdictAtEnd: the end of the output is as good as the "!".
EndIsEnough == IF Len(seen) = Len(Query.expected) THEN "Ok" ELSE "Err"

\* The output ended where a row or the "!" should be: an empty line is neither.
VerdictAtEnd == "Err"

\* The rows are the same once both sides are sorted.
SameRows(rows, expected) ==
    \E p \in Permutations(DOMAIN expected) :
        rows = [i \in DOMAIN expected |-> expected[p[i]]]

\* validate_bysorting: collect rows until the end, and no more than expected.
ValidateBySorting ==
    /\ monitor = "BySorting"
    /\ \/ /\ AtEnd
          /\ Judge(VerdictAtEnd)
          /\ UNCHANGED <<to_monitor, seen>>
       \/ /\ to_monitor # <<>> /\ to_monitor' = Tail(to_monitor)
          /\ \/ /\ Head(to_monitor) = End
                /\ Judge(IF Len(seen) = Len(Query.expected)
                              /\ SameRows(seen, Query.expected) THEN "Ok" ELSE "Err")
                /\ UNCHANGED seen
             \/ /\ Head(to_monitor) # End /\ Len(seen) = Len(Query.expected)
                /\ Judge("Err")
                /\ UNCHANGED seen
             \/ /\ Head(to_monitor) # End /\ Len(seen) < Len(Query.expected)
                /\ seen' = Append(seen, Head(to_monitor))
                /\ GoOn(monitor)
    /\ UNCHANGED <<session, to_db, result, printed>>

\* validate_presorted: compare line by line; behind the last row comes the end.
ValidatePresorted ==
    /\ monitor = "Presorted"
    /\ \/ /\ AtEnd
          /\ Judge(VerdictAtEnd)
          /\ UNCHANGED <<to_monitor, seen>>
       \/ /\ to_monitor # <<>> /\ to_monitor' = Tail(to_monitor)
          /\ IF Len(seen) = Len(Query.expected)
             THEN /\ Judge(IF Head(to_monitor) = End THEN "Ok" ELSE "Err")
                  /\ UNCHANGED seen
             ELSE IF Head(to_monitor) = Query.expected[Len(seen) + 1]
             THEN seen' = Append(seen, Head(to_monitor)) /\ GoOn(monitor)
             ELSE Judge("Err") /\ UNCHANGED seen
    /\ UNCHANGED <<session, to_db, result, printed>>

WaitDb == /\ monitor = "WaitDb" /\ DbEnded
          /\ GoOn("WaitDisk")
          /\ UNCHANGED <<session, data_vars>>

\* A variant of DiskGone: the monitor does not wait for the disk.
DiskGoneAssumed == TRUE

DiskGone == disk = "Exited"

\* A variant of AfterVerdict that runs the remaining queries as well.
AfterAnyVerdict == monitor' = "Start" /\ q' = q + 1

AfterVerdict == IF db_result = "Ok" THEN monitor' = "Start" /\ q' = q + 1
                ELSE monitor' = "Aborted" /\ UNCHANGED q

\* disk_process.wait(), then the verdict: the first failure ends the monitor.
\* The pipes to this database are closed with the iteration, or the process.
Report ==
    /\ monitor = "WaitDisk" /\ DiskGone
    /\ runs' = Append(runs, [query |-> q, complete |-> printed = Len(result) + 1,
                             result |-> result, verdict |-> db_result])
    /\ AfterVerdict
    /\ monitor_fds' = Drop(monitor_fds, {Rd("db_to_monitor"), Wr("monitor_to_db")})
    /\ UNCHANGED <<suite, db, disk, db_result, disk_fds, table, call_vars, data_vars>>

MonitorNext == \/ Skip \/ StartDisk \/ Fork \/ SpawnFails \/ Spawned \/ Finish
               \/ SendQuery \/ ReadCommand \/ SendLimit
               \/ ValidateBySorting \/ ValidatePresorted \/ WaitDb \/ Report
-----------------------------------------------------------------------------
(* The database: the child until it executes its program, then db_main.      *)
others == <<suite, q, runs, monitor, db_result, disk, disk_fds, monitor_fds>>

\* One iteration of remap_fds, between fork and exec.
Remap ==
    /\ db = "Remap"
    /\ RemapStep
    /\ UNCHANGED <<others, db, data_vars>>

\* exec closes what is marked so.
ExecDb ==
    /\ db = "Remap" /\ remapped = 2 * Count
    /\ db' = "ReadQuery" /\ table' = Exec(table)
    /\ UNCHANGED <<others, call_vars, data_vars>>

\* exec fails.  The child reports it through the pipe of the library, if the
\* descriptor is still that: remap_fds may have taken its number.
ExecFails ==
    /\ db = "Remap" /\ remapped = 2 * Count
    /\ db' = IF Holds(table, Wr("exec")) THEN "NotExecuted" ELSE "Failed"
    /\ table' = NoFds
    /\ UNCHANGED <<others, call_vars, data_vars>>

\* Descriptors 5 and 6 are read and written as what they are supposed to be.
Hears == table[5].file = Rd("monitor_to_db") /\ to_db # <<>> /\ to_db' = Tail(to_db)
Say(line) == /\ table[6].file = Wr("db_to_monitor")
             /\ HasRoom(to_monitor) /\ to_monitor' = Append(to_monitor, line)

ReadQuery == db = "ReadQuery" /\ Hears /\ db' = "AskLimit" /\ UNCHANGED to_monitor
AskLimit == db = "AskLimit" /\ Say("get_memory_limit") /\ db' = "ReadLimit" /\ UNCHANGED to_db
ReadLimit == db = "ReadLimit" /\ Hears /\ db' = "Validate" /\ UNCHANGED to_monitor
Validate == db = "Validate" /\ Say("validate") /\ db' = "Rows" /\ UNCHANGED to_db

DbTalks ==
    /\ \/ ReadQuery \/ AskLimit \/ ReadLimit \/ Validate
    /\ UNCHANGED <<others, table, call_vars, result, printed, seen>>

\* The rows of the root operator, and the end.
PrintRow ==
    /\ db = "Rows" /\ printed <= Len(result)
    /\ Say(IF printed < Len(result) THEN result[printed + 1] ELSE End)
    /\ printed' = printed + 1
    /\ UNCHANGED <<others, db, table, call_vars, to_db, result, seen>>

DbExit ==
    /\ db = "Rows" /\ printed > Len(result)
    /\ db' = "Exited" /\ table' = NoFds
    /\ UNCHANGED <<others, call_vars, data_vars>>

DbNext == Remap \/ ExecDb \/ DbTalks \/ PrintRow \/ DbExit

\* It panics, or exceeds its memory limit, before exec or after.
DbFails ==
    /\ db # "None" /\ ~DbEnded
    /\ db' = "Failed" /\ table' = NoFds
    /\ UNCHANGED <<others, call_vars, data_vars>>

\* The disk finds the end of its input and exits: nobody can write to it.
DiskExits ==
    /\ disk = "Serving" /\ ~Held(Wr("disk_inbound"))
    /\ disk' = "Exited" /\ disk_fds' = NoFds
    /\ UNCHANGED <<suite, q, runs, monitor, db, db_result, monitor_fds, table, call_vars,
                   data_vars>>

Stopped == monitor \in {"Finished", "Aborted"} /\ disk # "Serving" /\ UNCHANGED vars

Next == MonitorNext \/ DbNext \/ ExecFails \/ DbFails \/ DiskExits \/ Stopped

\* The three processes run independently; no program need fail to start, and
\* a database need not die.
Fairness == WF_vars(MonitorNext) /\ WF_vars(DbNext) /\ WF_vars(DiskExits)

Spec == Init /\ [][Next]_vars /\ Fairness
-----------------------------------------------------------------------------
\* The verdicts are right both ways: success is reported for a database that
\* printed the expected rows to the end, and failure only for one that did not
\* (wherever it died, and whatever was in the pipes then).
VerdictsAreRight ==
    \A i \in DOMAIN runs :
        LET expected == suite[runs[i].query].expected
            right == /\ runs[i].complete
                     /\ IF suite[runs[i].query].sort_before_check
                        THEN SameRows(runs[i].result, expected)
                        ELSE runs[i].result = expected
        IN  runs[i].verdict = IF right THEN "Ok" ELSE "Err"

\* The runs are the enabled queries in their order, none of them left out, up to
\* the first failure, which ends the monitor; it finishes only when all have run.
RunsFollowSuite ==
    /\ \A i \in DOMAIN runs : ~suite[runs[i].query].disabled
    /\ \A i, j \in DOMAIN runs : i < j => runs[i].query < runs[j].query
    /\ \A n \in DOMAIN suite :
           ~suite[n].disabled /\ (monitor = "Finished" \/ \E i \in DOMAIN runs : n < runs[i].query)
               => \E i \in DOMAIN runs : runs[i].query = n
    /\ \A i \in DOMAIN runs : runs[i].verdict = "Err" => i = Len(runs) /\ monitor = "Aborted"

\* No process of a session outlives it: none is left, and no descriptor of
\* theirs is open in the monitor, when it goes on to the next query, finishes,
\* or aborts with a verdict.
NoProcessLeft ==
    monitor \in {"Start", "Finished"} \/ (monitor = "Aborted" /\ db_result = "Err") =>
        /\ db = "None" \/ DbEnded
        /\ disk # "Serving"
        /\ \A fd \in Fds : monitor_fds[fd] # Closed => ~monitor_fds[fd].cloexec

\* A database that runs has the four ends it expects where it expects them, and
\* none of the other pipes of the monitor; the child got there by moving each
\* end to its place.
DescriptorsInPlace ==
    /\ db = "Remap" => RemapInPlace
    /\ db \in {"ReadQuery", "AskLimit", "ReadLimit", "Validate", "Rows"} =>
           /\ \A i \in 1 .. 4 : table[DbFds[i]].file = DbFiles[i]
           /\ \A fd \in Fds \ ToSet(DbFds) : table[fd].file \in {Nothing, Rd("inherited")}

\* The monitor ends, whatever the programs do, and the disk with it.
MonitorEnds == <>(monitor \in {"Finished", "Aborted"} /\ disk # "Serving")
=============================================================================
