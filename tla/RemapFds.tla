------------------------------- MODULE RemapFds -------------------------------
(* Descriptor tables, and how the child of the monitor moves its pipe ends   *)
(* to the numbers the database expects (monitor/src/fd_mapper.rs).  The      *)
(* numbers to move from and to overlap, so every end is first moved out of   *)
(* the way, to remap_base and above.                                         *)
EXTENDS Integers, Sequences, FiniteSetsExt

CONSTANTS MaxFd,            \* the largest descriptor a process may have
          Files             \* what a descriptor can refer to: ends of pipes, ...

Nothing == <<"nothing", "">>    \* the file of a descriptor that is not open

ASSUME FdAssumption == MaxFd \in Nat /\ Nothing \notin Files

Fds == 0 .. MaxFd
Closed == [file |-> Nothing, cloexec |-> FALSE]
OpenEntry == [file : Files, cloexec : BOOLEAN]
Tables == [Fds -> OpenEntry \cup {Closed}]
FdMapping == [source : Fds, target : Fds, close_on_exec : BOOLEAN]

VARIABLES mappings,     \* of remap_fds: a sequence of FdMapping
          original,     \* history: the table remap_fds has found
          table,        \* the table of the child
          remapped      \* iterations of the two loops that are done

remap_vars == <<mappings, original, table, remapped>>
-----------------------------------------------------------------------------
(* The calls.  All of them leave the table alone when they fail, and their   *)
(* callers do not look.                                                      *)
Lookup(fds, fd) == IF fd \in Fds THEN fds[fd] ELSE Closed
With(fds, fd, entry) == IF fd \in Fds THEN [fds EXCEPT ![fd] = entry] ELSE fds

Flagged(entry, flag) == [entry EXCEPT !.cloexec = flag]

close(fds, fd) == With(fds, fd, Closed)

dup2(fds, from, to) ==
    IF Lookup(fds, from) = Closed \/ from = to THEN fds
    ELSE With(fds, to, Flagged(Lookup(fds, from), FALSE))

\* fcntl(fd, F_SETFD, ..) with FD_CLOEXEC set or cleared.
SetCloexec(fds, fd, flag) ==
    IF Lookup(fds, fd) = Closed THEN fds
    ELSE With(fds, fd, Flagged(Lookup(fds, fd), flag))
-----------------------------------------------------------------------------
Count == Len(mappings)
Named == {mappings[i].source : i \in DOMAIN mappings} \cup
         {mappings[i].target : i \in DOMAIN mappings}

\* A variant of remap_base that is one too small.
HighestNamed == Max({0} \cup Named)

\* Everything from here on is above the sources and the targets.
remap_base == Max({0} \cup Named) + 1

\* First loop: the source of mapping i goes to remap_base + i - 1.
MoveAway ==
    /\ remapped < Count
    /\ LET source == mappings[remapped + 1].source
       IN  table' = close(dup2(table, source, remap_base + remapped), source)

\* Second loop: from there to its target.
MoveBack ==
    /\ remapped >= Count /\ remapped < 2 * Count
    /\ LET mapping == mappings[remapped - Count + 1]
           temporary == remap_base + (remapped - Count)
       IN  table' = SetCloexec(close(dup2(table, temporary, mapping.target), temporary),
                               mapping.target, mapping.close_on_exec)

RemapStep == /\ MoveAway \/ MoveBack
             /\ remapped' = remapped + 1
             /\ UNCHANGED <<mappings, original>>

\* What the caller sees to: sources are open, no descriptor is the source of
\* two mappings or their target, and there is room for the temporary ones.
Remappable ==
    /\ \A i \in DOMAIN mappings : original[mappings[i].source] # Closed
    /\ \A i, j \in DOMAIN mappings :
           i # j => /\ mappings[i].source # mappings[j].source
                    /\ mappings[i].target # mappings[j].target
    /\ remap_base + Count <= MaxFd + 1

RemapInit == /\ mappings \in Seq(FdMapping)
             /\ original \in Tables
             /\ table = original
             /\ remapped = 0
             /\ Remappable

RemapSpec == RemapInit /\ [][RemapStep]_remap_vars
-----------------------------------------------------------------------------
\* When remap_fds is done, every target is what its source was, with the flag
\* that was asked for, whatever the order and the overlap of the mappings; the
\* sources and the temporary descriptors are closed, and no other has changed.
RemapInPlace ==
    remapped = 2 * Count =>
        /\ \A i \in DOMAIN mappings :
               table[mappings[i].target] =
                   Flagged(original[mappings[i].source], mappings[i].close_on_exec)
        /\ \A fd \in Fds \ {mappings[i].target : i \in DOMAIN mappings} :
               table[fd] = IF fd \in Named \/ fd \in remap_base .. remap_base + Count - 1
                           THEN Closed ELSE original[fd]
=============================================================================
