------------------------------ MODULE MCSession ------------------------------
(* Instances of Session for TLC.                                             *)
EXTENDS Session

QueryConfig(disabled, sorting, expected) ==
    [disabled |-> disabled, sort_before_check |-> sorting, expected |-> expected]

MCResults == {<<>>, <<"x">>, <<"x", "y">>, <<"y", "x">>, <<"x", "x", "y">>}

MCSuites ==
    {<<QueryConfig(FALSE, sorting, expected), QueryConfig(disabled, ~sorting, <<"x", "y">>)>> :
        sorting, disabled \in BOOLEAN, expected \in {<<>>, <<"x", "y">>, <<"x", "y", "y">>}}

\* Only the standard streams; one more where the first pipe would be; and so
\* many that remap_fds does not reach the pipe of the library.
MCInherited == {0 .. 2, 0 .. 3, (0 .. 2) \cup (9 .. 11)}

MCFiles == {Rd(pipe) : pipe \in Pipes} \cup {Wr(pipe) : pipe \in Pipes}
=============================================================================
