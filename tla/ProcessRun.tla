------------------------------ MODULE ProcessRun ------------------------------
(***************************************************************************)
(* o8v_process::run: one subprocess run under a timeout, with its output   *)
(* captured by two threads (o8v-process/src/run.rs, capture.rs, kill.rs).  *)
(*                                                                         *)
(* The actors are the calling thread (pc), one capture thread per stream   *)
(* (reader), the subprocess and whatever it forks (proc), and time: late   *)
(* says that the deadline of config.timeout has passed, spent that the     *)
(* two-second budget of collect_pair has.  A byte is only counted: what a  *)
(* stream carries never matters here, how much of it reaches the caller    *)
(* does.  CaptureLimit says what happens to the bytes themselves.          *)
(***************************************************************************)
EXTENDS Naturals

CONSTANTS
  Child,      \* the process that Command::spawn starts
  Kin,        \* the descendants it may have
  PipeCap,    \* what a pipe of the operating system holds
  MaxOut,     \* config.max_stdout and config.max_stderr
  MaxWrite,   \* bound: what the program may write to each stream
  ReapPolls,  \* the try_wait calls of the reap loop (20 in the code)
  Faults      \* what may fail: the calls "spawn" and "wait", reading a stream

ASSUME ProcessRunAssumption ==
  /\ Child \notin Kin
  /\ PipeCap \in Nat \ {0}
  /\ MaxOut \in Nat
  /\ MaxWrite \in [{"stdout", "stderr"} -> Nat]
  /\ ReapPolls \in Nat
  /\ Faults \subseteq {"spawn", "wait", "stdout", "stderr"}

VARIABLES
  pc,       \* where run() is
  cur,      \* the stream whose result collect_pair is waiting for
  polls,    \* try_wait calls made by the reap loop
  poll,     \* PollResult, "none" before the poll loop ends
  outcome,  \* the ExitOutcome of the ProcessResult
  flag,     \* config.interrupted, set by the caller's signal handler
  late,     \* Instant::now() >= deadline
  spent,    \* the drain budget is used up
  proc,     \* the state of each process
  status,   \* how the child ended, "Killed" when it was run() that killed it
  reaped,   \* the child's status was collected with try_wait or wait
  group,    \* the processes in the child's process group
  holds,    \* the streams whose write end a process has open
  pipe,     \* bytes in the pipe
  written,  \* bytes ever written to the stream
  reader,   \* where the stream's capture thread is
  local,    \* bytes in the thread's local_buf
  failed,   \* a read of the thread failed
  buf,      \* CaptureHandle.buf
  trunc,    \* CaptureHandle.truncated
  got       \* CapturedStream as extracted, and whether the thread was joined

callerVars == <<pc, cur, polls, poll, outcome>>
timeVars == <<flag, late, spent>>
procVars == <<proc, status, reaped, group, holds>>
threadVars == <<reader, local, failed, buf, trunc>>
pipeVars == <<pipe, written>>
vars == <<callerVars, timeVars, procVars, threadVars, pipeVars, got>>

Streams == {"stdout", "stderr"}
Procs == {Child} \cup Kin
\* Mutation for CompleteWhenJoined: the byte that tells "full" from "cut" is not read.
ReadLimitWithoutSpare == MaxOut
ReadLimit == MaxOut + 1
PollSteps == {"pollWait", "pollFlag", "pollTime"}
CollectSteps == {"join", "data", "flag"}
Steps == {"spawn", "killGroup", "killChild", "reap", "wait", "classify", "done"}
           \cup PollSteps \cup CollectSteps
\* The caller is past kill_process_group.
Killed == {"reap", "wait", "classify", "done"} \cup CollectSteps
ExitStatus == {"Success", "Failed", "Signal"}
Outcomes == ExitStatus \cup {"Timeout", "Interrupted", "WaitError", "SpawnError"}

Running(p) == proc[p] = "running"
Writers(s) == {p \in Procs : proc[p] \in {"running", "doomed"} /\ s \in holds[p]}

CallerOK ==
  /\ pc \in Steps
  /\ cur \in Streams
  /\ polls \in 0..ReapPolls
  /\ poll \in ExitStatus \cup {"none", "TimedOut", "Interrupted", "WaitError"}
  /\ outcome \in Outcomes \cup {"none"}

TimeOK == flag \in BOOLEAN /\ late \in BOOLEAN /\ spent \in BOOLEAN

ProcOK ==
  /\ proc \in [Procs -> {"none", "running", "doomed", "dead"}]
  /\ status \in ExitStatus \cup {"none", "Killed"}
  /\ reaped \in BOOLEAN
  /\ group \in SUBSET Procs
  /\ holds \in [Procs -> SUBSET Streams]

PipeOK ==
  /\ pipe \in [Streams -> 0..PipeCap]
  /\ written \in [Streams -> Nat]
  /\ \A s \in Streams : written[s] <= MaxWrite[s]

ThreadOK ==
  /\ reader \in [Streams -> {"none", "capture", "buf", "flag", "drain", "done"}]
  /\ local \in [Streams -> 0..ReadLimit]
  /\ failed \in [Streams -> BOOLEAN]
  /\ buf \in [Streams -> 0..MaxOut]
  /\ trunc \in [Streams -> BOOLEAN]

ResultOK == got \in [Streams -> [data : 0..MaxOut, trunc : BOOLEAN, joined : BOOLEAN]]

TypeOK == CallerOK /\ TimeOK /\ ProcOK /\ PipeOK /\ ThreadOK /\ ResultOK

Init ==
  /\ pc = "spawn" /\ cur = "stdout" /\ polls = 0
  /\ poll = "none" /\ outcome = "none"
  /\ flag \in BOOLEAN        \* "If the flag is already true when run() is called"
  /\ late = FALSE /\ spent = FALSE
  /\ proc = [p \in Procs |-> "none"] /\ status = "none" /\ reaped = FALSE
  /\ group = {} /\ holds = [p \in Procs |-> {}]
  /\ pipe = [s \in Streams |-> 0] /\ written = [s \in Streams |-> 0]
  /\ reader = [s \in Streams |-> "none"] /\ local = [s \in Streams |-> 0]
  /\ failed = [s \in Streams |-> FALSE]
  /\ buf = [s \in Streams |-> 0] /\ trunc = [s \in Streams |-> FALSE]
  /\ got = [s \in Streams |-> [data |-> 0, trunc |-> FALSE, joined |-> FALSE]]

-----------------------------------------------------------------------------
(* The calling thread: run() *)

Goto(step) == pc' = step

\* The child starts as the leader of a process group of its own, with both
\* pipes as its output, and the two capture threads start reading.
Spawn ==
  /\ pc = "spawn"
  /\ proc' = [proc EXCEPT ![Child] = "running"]
  /\ group' = {Child}
  /\ holds' = [holds EXCEPT ![Child] = Streams]
  /\ reader' = [s \in Streams |-> "capture"]
  /\ Goto("pollWait")
  /\ UNCHANGED <<cur, polls, poll, outcome, timeVars, status, reaped, local,
                 failed, buf, trunc, pipeVars, got>>

SpawnFails ==
  /\ pc = "spawn" /\ "spawn" \in Faults
  /\ outcome' = "SpawnError"
  /\ Goto("done")
  /\ UNCHANGED <<cur, polls, poll, timeVars, procVars, threadVars, pipeVars, got>>

\* The poll loop ends with this result, and the kill of the group follows.
Break(result) ==
  /\ poll' = result
  /\ Goto("killGroup")

ExitCodeOf(st) == IF st = "Killed" THEN "Signal" ELSE st

PollWait ==
  /\ pc = "pollWait"
  /\ \/ /\ proc[Child] = "dead"
        /\ reaped' = TRUE
        /\ Break(ExitCodeOf(status))
     \/ /\ proc[Child] # "dead"
        /\ Goto("pollFlag")
        /\ UNCHANGED <<poll, reaped>>
     \/ /\ "wait" \in Faults
        /\ Break("WaitError")
        /\ UNCHANGED reaped
  /\ UNCHANGED <<cur, polls, outcome, timeVars, proc, status, group, holds,
                 threadVars, pipeVars, got>>

PollFlag ==
  /\ pc = "pollFlag"
  /\ \/ flag /\ Break("Interrupted")
     \/ ~flag /\ Goto("pollTime") /\ UNCHANGED poll
  /\ UNCHANGED <<cur, polls, outcome, timeVars, procVars, threadVars, pipeVars, got>>

PollTime ==
  /\ pc = "pollTime"
  /\ \/ late /\ Break("TimedOut")
     \/ ~late /\ Goto("pollWait") /\ UNCHANGED poll
  /\ UNCHANGED <<cur, polls, outcome, timeVars, procVars, threadVars, pipeVars, got>>

\* SIGKILL to a set of processes: they run no more code, and die in time.
Doom(P) ==
  proc' = [p \in Procs |-> IF p \in P /\ Running(p) THEN "doomed" ELSE proc[p]]

\* Mutation for GroupContained: the kill is for timeouts only.
KillGroupUnlessExited ==
  /\ pc = "killGroup"
  /\ IF poll \in ExitStatus THEN UNCHANGED proc ELSE Doom(group)
  /\ Goto("killChild")
  /\ UNCHANGED <<cur, polls, poll, outcome, timeVars, status, reaped, group,
                 holds, threadVars, pipeVars, got>>

\* kill(-pid, SIGKILL), made on every way out of the poll loop.
KillGroup ==
  /\ pc = "killGroup"
  /\ Doom(group)
  /\ Goto("killChild")
  /\ UNCHANGED <<cur, polls, poll, outcome, timeVars, status, reaped, group,
                 holds, threadVars, pipeVars, got>>

\* child.kill(), for a child that is no longer in its own group.
KillChild ==
  /\ pc = "killChild"
  /\ Doom({Child})
  /\ Goto("reap")
  /\ UNCHANGED <<cur, polls, poll, outcome, timeVars, status, reaped, group,
                 holds, threadVars, pipeVars, got>>

\* Mutation for ChildReaped: no fallback when the polls are used up.
ReapWithoutFallback ==
  /\ pc = "reap"
  /\ reaped' = (proc[Child] = "dead")
  /\ polls' = IF proc[Child] = "dead" THEN polls ELSE polls + 1
  /\ Goto(IF proc[Child] = "dead" \/ polls + 1 >= ReapPolls THEN "join" ELSE "reap")
  /\ UNCHANGED <<cur, poll, outcome, timeVars, proc, status, group, holds,
                 threadVars, pipeVars, got>>

Reap ==
  /\ pc = "reap"
  /\ \/ /\ polls < ReapPolls /\ proc[Child] = "dead"
        /\ reaped' = TRUE
        /\ Goto("join")
        /\ UNCHANGED polls
     \/ /\ polls < ReapPolls /\ proc[Child] # "dead"
        /\ polls' = polls + 1
        /\ UNCHANGED <<pc, reaped>>
     \/ /\ polls = ReapPolls \/ "wait" \in Faults
        /\ Goto("wait")
        /\ UNCHANGED <<polls, reaped>>
  /\ UNCHANGED <<cur, poll, outcome, timeVars, proc, status, group, holds,
                 threadVars, pipeVars, got>>

\* The blocking wait() of the fallback.
Wait ==
  /\ pc = "wait"
  /\ \/ proc[Child] = "dead" /\ reaped' = TRUE
     \/ "wait" \in Faults /\ UNCHANGED reaped
  /\ Goto("join")
  /\ UNCHANGED <<cur, polls, poll, outcome, timeVars, proc, status, group, holds,
                 threadVars, pipeVars, got>>

\* Mutation for Returns: JoinHandle::join instead of a channel with a timeout.
JoinForEver ==
  /\ pc = "join" /\ reader[cur] = "done"
  /\ got' = [got EXCEPT ![cur].joined = TRUE]
  /\ Goto("data")
  /\ UNCHANGED <<cur, polls, poll, outcome, timeVars, procVars, threadVars, pipeVars>>

\* recv_timeout: the thread has been joined, or the shared budget is spent.  A
\* message that is there when the budget ends may still be received, or not.
Join ==
  /\ pc = "join"
  /\ \/ /\ reader[cur] = "done"
        /\ got' = [got EXCEPT ![cur].joined = TRUE]
     \/ /\ spent
        /\ UNCHANGED got
  /\ Goto("data")
  /\ UNCHANGED <<cur, polls, poll, outcome, timeVars, procVars, threadVars, pipeVars>>

\* extract() takes the two mutexes one after the other.
ExtractData ==
  /\ pc = "data"
  /\ got' = [got EXCEPT ![cur].data = buf[cur]]
  /\ Goto("flag")
  /\ UNCHANGED <<cur, polls, poll, outcome, timeVars, procVars, threadVars, pipeVars>>

ExtractFlag ==
  /\ pc = "flag"
  /\ got' = [got EXCEPT ![cur].trunc = trunc[cur]]
  /\ cur' = "stderr"
  /\ Goto(IF cur = "stdout" THEN "join" ELSE "classify")
  /\ UNCHANGED <<polls, poll, outcome, timeVars, procVars, threadVars, pipeVars>>

\* Mutation for OutcomeHonest: the status that the reap collected is reported.
ClassifyReaped ==
  /\ pc = "classify"
  /\ outcome' = IF reaped THEN ExitCodeOf(status) ELSE "Timeout"
  /\ Goto("done")
  /\ UNCHANGED <<cur, polls, poll, timeVars, procVars, threadVars, pipeVars, got>>

\* The outcome is the poll loop's, whatever the child did after it.
Classify ==
  /\ pc = "classify"
  /\ outcome' = IF poll = "TimedOut" THEN "Timeout" ELSE poll
  /\ Goto("done")
  /\ UNCHANGED <<cur, polls, poll, timeVars, procVars, threadVars, pipeVars, got>>

\* run() has returned.  The threads and the processes it left go on.
Returned ==
  /\ pc = "done"
  /\ UNCHANGED vars

Caller ==
  \/ Spawn \/ SpawnFails \/ PollWait \/ PollFlag \/ PollTime
  \/ KillGroup \/ KillChild \/ Reap \/ Wait
  \/ Join \/ ExtractData \/ ExtractFlag \/ Classify

-----------------------------------------------------------------------------
(* The capture threads: spawn_capture *)

\* Mutation for PipesDrained: one thread reads both streams, stdout first.
ReadInTurn(s) ==
  /\ reader[s] = "capture" /\ (s = "stderr" => reader["stdout"] = "done")
  /\ \E n \in 1..pipe[s] :
       /\ local[s] + n <= ReadLimit
       /\ local' = [local EXCEPT ![s] = @ + n]
       /\ pipe' = [pipe EXCEPT ![s] = @ - n]
  /\ UNCHANGED <<reader, failed, buf, trunc, written>>

\* Phase 1, take(max_bytes + 1).read_to_end(&mut local_buf).
ReadSome(s) ==
  /\ reader[s] = "capture"
  /\ \E n \in 1..pipe[s] :
       /\ local[s] + n <= ReadLimit
       /\ local' = [local EXCEPT ![s] = @ + n]
       /\ pipe' = [pipe EXCEPT ![s] = @ - n]
  /\ UNCHANGED <<reader, failed, buf, trunc, written>>

\* read_to_end returns at the limit, at end of file, and on an error.
StopReading(s) ==
  /\ reader[s] = "capture"
  /\ \/ /\ local[s] = ReadLimit \/ (pipe[s] = 0 /\ Writers(s) = {})
        /\ UNCHANGED failed
     \/ /\ s \in Faults
        /\ failed' = [failed EXCEPT ![s] = TRUE]
  /\ reader' = [reader EXCEPT ![s] = "buf"]
  /\ UNCHANGED <<local, buf, trunc, pipeVars>>

\* Mutation for TypeOK: the byte past the limit is published with the rest.
PublishBufUncut(s) ==
  /\ reader[s] = "buf"
  /\ buf' = [buf EXCEPT ![s] = local[s]]
  /\ reader' = [reader EXCEPT ![s] = "flag"]
  /\ UNCHANGED <<local, failed, trunc, pipeVars>>

\* floor_char_boundary may go back as far as it finds continuation bytes.
PublishBuf(s) ==
  /\ reader[s] = "buf"
  /\ \E n \in (IF local[s] > MaxOut THEN 0..MaxOut ELSE {local[s]}) :
       buf' = [buf EXCEPT ![s] = n]
  /\ reader' = [reader EXCEPT ![s] = "flag"]
  /\ UNCHANGED <<local, failed, trunc, pipeVars>>

\* Mutation for NoBrokenPipe: no drain phase.
PublishFlagAndClose(s) ==
  /\ reader[s] = "flag"
  /\ trunc' = [trunc EXCEPT ![s] = local[s] > MaxOut]
  /\ reader' = [reader EXCEPT ![s] = "done"]
  /\ UNCHANGED <<local, failed, buf, pipeVars>>

PublishFlag(s) ==
  /\ reader[s] = "flag"
  /\ trunc' = [trunc EXCEPT ![s] = local[s] > MaxOut]
  /\ reader' = [reader EXCEPT ![s] = "drain"]
  /\ UNCHANGED <<local, failed, buf, pipeVars>>

\* Phase 2, until end of file or an error; then the read end is closed.
Drain(s) ==
  /\ reader[s] = "drain"
  /\ \/ /\ pipe[s] > 0
        /\ pipe' = [pipe EXCEPT ![s] = 0]
        /\ UNCHANGED <<reader, failed>>
     \/ /\ pipe[s] = 0 /\ Writers(s) = {}
        /\ reader' = [reader EXCEPT ![s] = "done"]
        /\ UNCHANGED <<pipe, failed>>
     \/ /\ s \in Faults
        /\ reader' = [reader EXCEPT ![s] = "done"]
        /\ failed' = [failed EXCEPT ![s] = TRUE]
        /\ UNCHANGED pipe
  /\ UNCHANGED <<local, buf, trunc, written>>

Reader(s) ==
  /\ ReadSome(s) \/ StopReading(s) \/ PublishBuf(s) \/ PublishFlag(s) \/ Drain(s)
  /\ UNCHANGED <<callerVars, timeVars, procVars, got>>

-----------------------------------------------------------------------------
(* The subprocess and its descendants *)

Die(p, how) ==
  /\ proc' = [proc EXCEPT ![p] = "dead"]
  /\ holds' = [holds EXCEPT ![p] = {}]
  /\ status' = IF p = Child THEN how ELSE status
  /\ UNCHANGED <<reaped, group>>

\* A write blocks while the pipe is full.
Write(p, s) ==
  /\ Running(p) /\ s \in holds[p] /\ reader[s] # "done"
  /\ pipe[s] < PipeCap /\ written[s] < MaxWrite[s]
  /\ pipe' = [pipe EXCEPT ![s] = @ + 1]
  /\ written' = [written EXCEPT ![s] = @ + 1]
  /\ UNCHANGED procVars

\* A write to a pipe nobody reads: SIGPIPE.
WriteBroken(p, s) ==
  /\ Running(p) /\ s \in holds[p] /\ reader[s] = "done"
  /\ Die(p, "Signal")
  /\ UNCHANGED pipeVars

Fork(p, q) ==
  /\ Running(p) /\ proc[q] = "none" /\ q \in Kin
  /\ proc' = [proc EXCEPT ![q] = "running"]
  /\ group' = IF p \in group THEN group \cup {q} ELSE group
  /\ holds' = [holds EXCEPT ![q] = holds[p]]
  /\ UNCHANGED <<status, reaped, pipeVars>>

\* setsid or setpgid: the process is out of killpg's reach.
LeaveGroup(p) ==
  /\ Running(p) /\ p \in group
  /\ group' = group \ {p}
  /\ UNCHANGED <<proc, status, reaped, holds, pipeVars>>

CloseStream(p, s) ==
  /\ Running(p) /\ s \in holds[p]
  /\ holds' = [holds EXCEPT ![p] = @ \ {s}]
  /\ UNCHANGED <<proc, status, reaped, group, pipeVars>>

Exit(p) ==
  /\ Running(p)
  /\ \E how \in ExitStatus : Die(p, how)
  /\ UNCHANGED pipeVars

\* A process that was sent SIGKILL is gone.
DieKilled(p) ==
  /\ proc[p] = "doomed"
  /\ Die(p, "Killed")
  /\ UNCHANGED <<callerVars, timeVars, threadVars, pipeVars, got>>

Program(p) ==
  /\ \/ \E s \in Streams : Write(p, s) \/ WriteBroken(p, s) \/ CloseStream(p, s)
     \/ \E q \in Kin : Fork(p, q)
     \/ LeaveGroup(p)
     \/ Exit(p)
  /\ UNCHANGED <<callerVars, timeVars, threadVars, got>>

-----------------------------------------------------------------------------
(* Time, and the caller's signal handler *)

Interrupt ==
  /\ ~flag /\ pc # "done" /\ flag' = TRUE
  /\ UNCHANGED <<callerVars, late, spent, procVars, threadVars, pipeVars, got>>

DeadlinePasses ==
  /\ ~late /\ pc \in PollSteps /\ late' = TRUE
  /\ UNCHANGED <<callerVars, flag, spent, procVars, threadVars, pipeVars, got>>

BudgetPasses ==
  /\ ~spent /\ pc \in CollectSteps /\ spent' = TRUE
  /\ UNCHANGED <<callerVars, flag, late, procVars, threadVars, pipeVars, got>>

Next ==
  \/ Caller
  \/ \E s \in Streams : Reader(s)
  \/ \E p \in Procs : Program(p) \/ DieKilled(p)
  \/ Interrupt \/ DeadlinePasses \/ BudgetPasses
  \/ Returned

Spec == Init /\ [][Next]_vars

\* The threads are scheduled, a killed process dies, the clock goes on.  What
\* the program does, and whether anybody interrupts it, is nobody's promise.
Scheduling ==
  /\ WF_vars(Caller)
  /\ \A s \in Streams : WF_vars(Reader(s))
  /\ \A p \in Procs : WF_vars(DieKilled(p))
  /\ WF_vars(BudgetPasses)

FairSpec == Spec /\ Scheduling

-----------------------------------------------------------------------------
(* Properties *)

\* run.rs kills "ALWAYS, even on normal exit": once the caller is past
\* kill_process_group, no process of the child's group runs any code, whatever
\* was forked meanwhile and however the poll loop ended, and neither does the
\* child if it has left the group.
GroupContained ==
  pc \in Killed => \A p \in Procs : Running(p) => p \notin group /\ p # Child

\* Success, Failed and Signal are reported only for a child that ended that way
\* by itself: the SIGKILL of run() is never taken for the program's own end.
OutcomeHonest ==
  outcome \in ExitStatus => status = outcome

\* run() leaves no zombie: when it returns the child was waited for, unless
\* the wait calls themselves failed.
ChildReaped ==
  pc = "done" /\ outcome # "SpawnError" /\ "wait" \notin Faults => reaped

\* What a joined capture thread hands over is the whole stream, or its first
\* bytes with the truncation flag raised; the flag is raised for nothing else.
CompleteWhenJoined ==
  \A s \in Streams :
    pc = "done" /\ got[s].joined /\ ~failed[s] =>
      IF written[s] <= MaxOut
      THEN got[s].data = written[s] /\ ~got[s].trunc
      ELSE got[s].trunc

\* The drain phase keeps the read end open for as long as anybody can write:
\* no process of the run is killed by SIGPIPE for having written too much.
NoBrokenPipe ==
  \A s \in Streams : reader[s] = "done" /\ ~failed[s] => Writers(s) = {}

\* Whatever the program does (hang, flood, fork, escape with the pipes open),
\* run() returns once the deadline has passed, once it is interrupted, and once
\* the child is gone; which of them comes first, or whether the other threads
\* ever end, makes no difference.
Due == late \/ flag \/ proc[Child] = "dead"
Returns == Due ~> (pc = "done")

\* Pipe deadlock: a full pipe is emptied, also the one of the stream whose
\* result is waited for last, and also when run() has returned.
PipesDrained == \A s \in Streams : (pipe[s] = PipeCap) ~> (pipe[s] < PipeCap \/ failed[s])
=============================================================================
