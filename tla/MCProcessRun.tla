---------------------------- MODULE MCProcessRun ----------------------------
(* Small instances of ProcessRun for TLC. *)
EXTENDS ProcessRun

CONSTANTS sh, gc   \* the child and its one descendant
OneKin == {gc}

\* Bytes to stdout and stderr: one more than MaxOut raises the flag, two more
\* than it need the drain.
Prints == [s \in Streams |-> IF s = "stdout" THEN 2 ELSE 0]
Talks  == [s \in Streams |-> IF s = "stdout" THEN 2 ELSE 1]
Floods == [s \in Streams |-> IF s = "stdout" THEN 0 ELSE 2]

NoFaults == {}
SomeFaults == {"spawn", "wait", "stdout"}
=============================================================================
