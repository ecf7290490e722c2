---------------------------- MODULE MCProcLife ----------------------------
(* Instances of ProcLife for TLC.                                          *)
EXTENDS ProcLife

\* Init alone.
Alone == [s \in 2 .. 3 |-> 0]

\* Two children of init, each with a child that it traces.
TwoTracers == [s \in 2 .. 5 |-> IF s = 2 \/ s = 4 THEN 1 ELSE s - 1]

\* Processes in groups come and go; so do processes that are traced; and two
\* tracers compete.
Mixes == {
    [nproc |-> 3, maxpid |-> 8, calls |-> {"fork", "exit", "lead"}, old |-> {3},
     family |-> Alone],
    [nproc |-> 3, maxpid |-> 8, calls |-> {"fork", "exit", "trace"}, old |-> {},
     family |-> Alone],
    [nproc |-> 5, maxpid |-> 12, calls |-> {"trace"}, old |-> {},
     family |-> TwoTracers]}

=============================================================================
