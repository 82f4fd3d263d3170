----------------------------- MODULE ProcessHang -----------------------------
(***************************************************************************)
(* What a hung capture thread has read.  The threads of ProcessRun, with a *)
(* history variable: what each of them had read when the two seconds of    *)
(* collect_pair ended, if it was then blocked in read() because of a       *)
(* descendant that had left the child's group and held the pipe.           *)
(***************************************************************************)
EXTENDS MCProcessRun

VARIABLE blocked   \* bytes in local_buf of a thread that hung, 0 of any other

\* The pipe is empty, the limit is not reached, and somebody out of reach of
\* kill_process_group may write: read_to_end cannot go on.
Hangs(s) ==
  /\ reader[s] = "capture" /\ pipe[s] = 0 /\ local[s] < ReadLimit
  /\ \E k \in Kin \ group : Running(k) /\ s \in holds[k]

HangInit == Init /\ blocked = [s \in Streams |-> 0]

HangNext ==
  /\ Next
  /\ blocked' = IF spent' # spent
                THEN [s \in Streams |-> IF Hangs(s) THEN local[s] ELSE 0]
                ELSE blocked

HangSpec == HangInit /\ [][HangNext]_<<vars, blocked>>

\* capture.rs:132-133 "If a thread hangs (setsid descendant), the already-captured
\* bytes are extracted from the shared buffer. Only the drain phase is lost, not
\* the data": all that such a thread had read reaches the caller.
CapturedSurvivesHang ==
  \A s \in Streams :
    pc = "done" /\ ~got[s].joined => got[s].data >= blocked[s]
=============================================================================
