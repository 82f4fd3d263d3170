--------------------------- MODULE ProcessRunProofs ---------------------------
(* Theorems about ProcessRun for any descendants, pipe size, limits and faults. *)
EXTENDS ProcessRun, TLAPS

\* Every step is one of the named actions; the proofs below go through them.
LEMMA StepCases ==
  ASSUME [Next]_vars
  PROVE  \/ Spawn \/ SpawnFails \/ PollWait \/ PollFlag \/ PollTime
         \/ KillGroup \/ KillChild \/ Reap \/ Wait
         \/ Join \/ ExtractData \/ ExtractFlag \/ Classify
         \/ \E s \in Streams : Reader(s)
         \/ \E p \in Procs : Program(p)
         \/ \E p \in Procs : DieKilled(p)
         \/ Interrupt \/ DeadlinePasses \/ BudgetPasses
         \/ UNCHANGED vars
  BY DEF Next, Caller, Returned

\* The type invariant of the model, for every value of its constants.
THEOREM TypeCorrect == Spec => []TypeOK
<1> USE ProcessRunAssumption
<1>1. Init => TypeOK
  <2> SUFFICES ASSUME Init PROVE TypeOK
    OBVIOUS
  <2> USE DEF Init, Streams
  <2>1. CallerOK
    BY DEF CallerOK, Steps, PollSteps, CollectSteps
  <2>6. TimeOK
    BY DEF TimeOK
  <2>2. ProcOK
    <3>1. holds \in [Procs -> SUBSET Streams]
      OBVIOUS
    <3>2. proc \in [Procs -> {"none", "running", "doomed", "dead"}]
      OBVIOUS
    <3> QED
      BY <3>1, <3>2 DEF ProcOK
  <2>3. PipeOK
    BY DEF PipeOK
  <2>4. ThreadOK
    BY DEF ThreadOK, ReadLimit
  <2>5. ResultOK
    BY DEF ResultOK
  <2> QED
    BY <2>1, <2>2, <2>3, <2>4, <2>5, <2>6 DEF TypeOK
<1>2. TypeOK /\ [Next]_vars => TypeOK'
  <2> SUFFICES ASSUME TypeOK, [Next]_vars PROVE TypeOK'
    OBVIOUS
  <2>1. CallerOK'
    <3> USE DEF TypeOK, CallerOK, Streams, Steps, PollSteps, CollectSteps, ExitStatus,
                Outcomes, callerVars, Goto, Break
    <3>1. CASE Spawn \/ SpawnFails \/ KillGroup \/ KillChild
      BY <3>1 DEF Spawn, SpawnFails, KillGroup, KillChild
    <3>2. CASE PollWait
      BY <3>2 DEF PollWait, ExitCodeOf, ProcOK
    <3>3. CASE PollFlag \/ PollTime
      BY <3>3 DEF PollFlag, PollTime
    <3>4. CASE Reap
      BY <3>4 DEF Reap
    <3>5. CASE Wait
      BY <3>5 DEF Wait
    <3>6. CASE Join \/ ExtractData \/ ExtractFlag \/ Classify
      BY <3>6 DEF Join, ExtractData, ExtractFlag, Classify
    <3>7. CASE UNCHANGED callerVars
      BY <3>7
    <3> QED
      BY StepCases, <3>1, <3>2, <3>3, <3>4, <3>5, <3>6, <3>7
         DEF Reader, Program, DieKilled, Interrupt, DeadlinePasses, BudgetPasses, vars
  <2>2. TimeOK'
    BY StepCases
       DEF TypeOK, TimeOK, timeVars, vars, Spawn, SpawnFails, PollWait, PollFlag, PollTime,
           KillGroup, KillChild, Reap, Wait, Join, ExtractData, ExtractFlag,
           Classify, Reader, Program, DieKilled, Interrupt, DeadlinePasses, BudgetPasses
  <2>3. ProcOK'
    <3> USE DEF TypeOK, ProcOK, procVars, Procs
    <3>1. CASE Spawn
      BY <3>1 DEF Spawn
    <3>2. CASE PollWait \/ Reap \/ Wait
      BY <3>2 DEF PollWait, Reap, Wait
    <3>3. CASE KillGroup \/ KillChild
      BY <3>3 DEF KillGroup, KillChild, Doom, Running
    <3>4. ASSUME NEW p \in Procs, Program(p) PROVE ProcOK'
      <4>1. ASSUME NEW s \in Streams, Write(p, s) PROVE ProcOK'
        BY <4>1 DEF Write
      <4>2. ASSUME NEW s \in Streams, WriteBroken(p, s) PROVE ProcOK'
        BY <4>2 DEF WriteBroken, Die, ExitStatus
      <4>3. ASSUME NEW s \in Streams, CloseStream(p, s) PROVE ProcOK'
        BY <4>3 DEF CloseStream
      <4>4. ASSUME NEW q \in Kin, Fork(p, q) PROVE ProcOK'
        BY <4>4 DEF Fork
      <4>5. CASE LeaveGroup(p)
        BY <4>5 DEF LeaveGroup
      <4>6. CASE Exit(p)
        BY <4>6 DEF Exit, Die
      <4> QED
        BY <3>4, <4>1, <4>2, <4>3, <4>4, <4>5, <4>6 DEF Program
    <3>5. ASSUME NEW p \in Procs, DieKilled(p) PROVE ProcOK'
      BY <3>5 DEF DieKilled, Die
    <3>6. CASE UNCHANGED procVars
      BY <3>6
    <3> QED
      BY StepCases, <3>1, <3>2, <3>3, <3>4, <3>5, <3>6
         DEF SpawnFails, PollFlag, PollTime, Join, ExtractData, ExtractFlag,
             Classify, Reader, Interrupt, DeadlinePasses, BudgetPasses, vars
  <2>4. PipeOK'
    <3> USE DEF TypeOK, PipeOK, pipeVars
    <3>1. ASSUME NEW s \in Streams, Reader(s) PROVE PipeOK'
      BY <3>1 DEF Reader, ReadSome, StopReading, PublishBuf, PublishFlag, Drain
    <3>2. ASSUME NEW p \in Procs, Program(p) PROVE PipeOK'
      <4>1. ASSUME NEW s \in Streams, Write(p, s) PROVE PipeOK'
        BY <4>1 DEF Write, Streams
      <4>2. CASE UNCHANGED pipeVars
        BY <4>2
      <4> QED
        BY <3>2, <4>1, <4>2
           DEF Program, WriteBroken, CloseStream, Fork, LeaveGroup, Exit
    <3>3. CASE UNCHANGED pipeVars
      BY <3>3
    <3> QED
      BY StepCases, <3>1, <3>2, <3>3
         DEF Spawn, SpawnFails, PollWait, PollFlag, PollTime, KillGroup, KillChild,
             Reap, Wait, Join, ExtractData, ExtractFlag, Classify, DieKilled,
             Interrupt, DeadlinePasses, BudgetPasses, vars
  <2>5. ThreadOK'
    <3> USE DEF TypeOK, ThreadOK, threadVars, ReadLimit
    <3>1. CASE Spawn
      BY <3>1 DEF Spawn
    <3>2. ASSUME NEW s \in Streams, Reader(s) PROVE ThreadOK'
      <4>1. CASE ReadSome(s)
        BY <4>1 DEF ReadSome, PipeOK
      <4>2. CASE StopReading(s)
        BY <4>2 DEF StopReading
      <4>3. CASE PublishBuf(s)
        BY <4>3 DEF PublishBuf
      <4>4. CASE PublishFlag(s)
        BY <4>4 DEF PublishFlag
      <4>5. CASE Drain(s)
        BY <4>5 DEF Drain
      <4> QED
        BY <3>2, <4>1, <4>2, <4>3, <4>4, <4>5 DEF Reader
    <3>3. CASE UNCHANGED threadVars
      BY <3>3
    <3> QED
      BY StepCases, <3>1, <3>2, <3>3
         DEF SpawnFails, PollWait, PollFlag, PollTime, KillGroup, KillChild, Reap,
             Wait, Join, ExtractData, ExtractFlag, Classify, Program, DieKilled,
             Interrupt, DeadlinePasses, BudgetPasses, vars
  <2>6. ResultOK'
    <3> USE DEF TypeOK, ResultOK
    <3>1. CASE Join
      BY <3>1 DEF Join
    <3>3. CASE ExtractData
      BY <3>3 DEF ExtractData, CallerOK, ThreadOK
    <3>4. CASE ExtractFlag
      BY <3>4 DEF ExtractFlag, CallerOK, ThreadOK
    <3>2. CASE UNCHANGED got
      BY <3>2
    <3> QED
      BY StepCases, <3>1, <3>2, <3>3, <3>4
         DEF Spawn, SpawnFails, PollWait, PollFlag, PollTime, KillGroup, KillChild,
             Reap, Wait, Classify, Reader, Program, DieKilled,
             Interrupt, DeadlinePasses, BudgetPasses, vars
  <2> QED
    BY <2>1, <2>2, <2>3, <2>4, <2>5, <2>6 DEF TypeOK
<1> QED
  BY <1>1, <1>2, PTL DEF Spec
-----------------------------------------------------------------------------
(* The kill of the process group *)

\* GroupContained is kept by the steps of the descendants because only a running
\* process can enter a group, and only the one it was forked in.
KillInv ==
  /\ pc = "spawn" => \A p \in Procs : proc[p] = "none"
  /\ \A p \in group : proc[p] # "none"
  /\ pc \in {"killChild"} \cup Killed => \A p \in group : ~Running(p)
  /\ pc \in Killed => ~Running(Child)

LEMMA KillInvCorrect == Spec => []KillInv
<1> USE ProcessRunAssumption DEF KillInv, Procs, Running, Killed, CollectSteps
<1>1. Init => KillInv
  BY DEF Init
<1>2. TypeOK /\ KillInv /\ [Next]_vars => KillInv'
  <2> SUFFICES ASSUME TypeOK, KillInv, [Next]_vars PROVE KillInv'
    OBVIOUS
  <2> USE DEF TypeOK, ProcOK, callerVars, procVars, Goto, Break
  <2>1. CASE Spawn \/ SpawnFails
    BY <2>1 DEF Spawn, SpawnFails
  <2>2. CASE PollWait \/ PollFlag \/ PollTime
    BY <2>2 DEF PollWait, PollFlag, PollTime
  <2>3. CASE KillGroup
    BY <2>3 DEF KillGroup, Doom
  <2>4. CASE KillChild
    BY <2>4 DEF KillChild, Doom
  <2>5. CASE Reap \/ Wait
    BY <2>5 DEF Reap, Wait
  <2>6. CASE Join \/ ExtractData \/ ExtractFlag \/ Classify
    BY <2>6 DEF Join, ExtractData, ExtractFlag, Classify
  <2>7. ASSUME NEW p \in Procs, Program(p) PROVE KillInv'
    <3>1. ASSUME NEW s \in Streams, WriteBroken(p, s) PROVE KillInv'
      BY <2>7, <3>1 DEF Program, WriteBroken, Die
    <3>2. ASSUME NEW q \in Kin, Fork(p, q) PROVE KillInv'
      BY <2>7, <3>2 DEF Program, Fork
    <3>3. CASE LeaveGroup(p)
      BY <2>7, <3>3 DEF Program, LeaveGroup
    <3>4. CASE Exit(p)
      BY <2>7, <3>4 DEF Program, Exit, Die
    <3>5. CASE UNCHANGED <<pc, proc, group>>
      BY <3>5
    <3> QED
      BY <2>7, <3>1, <3>2, <3>3, <3>4, <3>5 DEF Program, Write, CloseStream
  <2>8. ASSUME NEW p \in Procs, DieKilled(p) PROVE KillInv'
    BY <2>8 DEF DieKilled, Die
  <2>9. CASE UNCHANGED <<pc, proc, group>>
    BY <2>9
  <2> QED
    BY StepCases, <2>1, <2>2, <2>3, <2>4, <2>5, <2>6, <2>7, <2>8, <2>9
       DEF Reader, Interrupt, DeadlinePasses, BudgetPasses, vars
<1> QED
  BY <1>1, <1>2, TypeCorrect, PTL DEF Spec

\* Nothing of the child's process group runs once run() is past the kill, for
\* any number of descendants that fork and leave the group as they like.
THEOREM GroupContainedCorrect == Spec => []GroupContained
<1>1. TypeOK /\ KillInv => GroupContained
  BY DEF KillInv, GroupContained, TypeOK, ProcOK, Procs
<1> QED
  BY <1>1, TypeCorrect, KillInvCorrect, PTL

-----------------------------------------------------------------------------
(* The outcome *)

\* While the poll loop runs nobody was killed by the caller, and an exit status,
\* once there, does not change: so the one that ended the loop is the child's own.
OutcomeInv ==
  /\ pc \in {"spawn"} \cup PollSteps =>
       poll = "none" /\ status # "Killed" /\ \A p \in Procs : proc[p] # "doomed"
  /\ proc[Child] = "dead" <=> status # "none"
  /\ pc = "spawn" => proc[Child] = "none"
  /\ poll \in ExitStatus => status = poll
  /\ outcome \in ExitStatus => outcome = poll

LEMMA OutcomeInvCorrect == Spec => []OutcomeInv
<1> USE ProcessRunAssumption DEF OutcomeInv, Procs, PollSteps, ExitStatus
<1>1. Init => OutcomeInv
  BY DEF Init
<1>2. TypeOK /\ OutcomeInv /\ [Next]_vars => OutcomeInv'
  <2> SUFFICES ASSUME TypeOK, OutcomeInv, [Next]_vars PROVE OutcomeInv'
    OBVIOUS
  <2> USE DEF TypeOK, ProcOK, callerVars, procVars, Goto, Break
  <2>1. CASE Spawn \/ SpawnFails
    BY <2>1 DEF Spawn, SpawnFails
  <2>2. CASE PollWait
    BY <2>2 DEF PollWait, ExitCodeOf
  <2>3. CASE PollFlag \/ PollTime
    BY <2>3 DEF PollFlag, PollTime
  <2>4. CASE KillGroup \/ KillChild
    BY <2>4 DEF KillGroup, KillChild, Doom, Running
  <2>5. CASE Reap \/ Wait
    BY <2>5 DEF Reap, Wait
  <2>6. CASE Join \/ ExtractData \/ ExtractFlag \/ Classify
    BY <2>6 DEF Join, ExtractData, ExtractFlag, Classify
  <2>7. ASSUME NEW p \in Procs, Program(p) PROVE OutcomeInv'
    <3> USE DEF Running
    <3>1. ASSUME NEW s \in Streams, WriteBroken(p, s) PROVE OutcomeInv'
      BY <2>7, <3>1 DEF Program, WriteBroken, Die
    <3>2. ASSUME NEW q \in Kin, Fork(p, q) PROVE OutcomeInv'
      BY <2>7, <3>2 DEF Program, Fork
    <3>3. CASE Exit(p)
      BY <2>7, <3>3 DEF Program, Exit, Die
    <3>4. CASE UNCHANGED <<callerVars, proc, status>>
      BY <3>4
    <3> QED
      BY <2>7, <3>1, <3>2, <3>3, <3>4 DEF Program, Write, CloseStream, LeaveGroup
  <2>8. ASSUME NEW p \in Procs, DieKilled(p) PROVE OutcomeInv'
    BY <2>8 DEF DieKilled, Die
  <2>9. CASE UNCHANGED <<callerVars, proc, status>>
    BY <2>9
  <2> QED
    BY StepCases, <2>1, <2>2, <2>3, <2>4, <2>5, <2>6, <2>7, <2>8, <2>9
       DEF Reader, Interrupt, DeadlinePasses, BudgetPasses, vars
<1> QED
  BY <1>1, <1>2, TypeCorrect, PTL DEF Spec

\* Success, Failed and Signal are only ever the program's own end.
THEOREM OutcomeHonestCorrect == Spec => []OutcomeHonest
<1>1. OutcomeInv => OutcomeHonest
  BY DEF OutcomeInv, OutcomeHonest
<1> QED
  BY <1>1, OutcomeInvCorrect, PTL
-----------------------------------------------------------------------------
(* The captured output *)

\* Where the bytes of a stream are: until the drain each one is in the pipe or in
\* local_buf, and a thread that stopped below the limit, or has drained the pipe,
\* saw the end of the file, after which nobody can write: a write end is only ever
\* copied from a process that has it open.
StreamInv(s) ==
  /\ pc = "spawn" => reader[s] = "none"
  /\ reader[s] = "none" => \A p \in Procs : proc[p] = "none"
  /\ written[s] >= local[s] + pipe[s]
  /\ reader[s] \in {"none", "capture", "buf", "flag"} => written[s] = local[s] + pipe[s]
  /\ reader[s] \in {"buf", "flag", "drain", "done"} /\ ~failed[s] /\ local[s] <= MaxOut
       => written[s] = local[s] /\ Writers(s) = {}
  /\ reader[s] \in {"flag", "drain", "done"} /\ local[s] <= MaxOut => buf[s] = local[s]
  /\ reader[s] \in {"drain", "done"} => trunc[s] = (local[s] > MaxOut)
  /\ reader[s] = "done" /\ ~failed[s] => Writers(s) = {}

\* What the caller took from a joined thread is what the thread published.
ResultInv(s) ==
  LET collected == pc \in {"classify", "done"} \/ (cur = "stderr" /\ s = "stdout")
  IN  /\ pc \in {"spawn"} \cup PollSteps => ~got[s].joined
      /\ got[s].joined => reader[s] = "done"
      /\ got[s].joined /\ (collected \/ (pc = "flag" /\ cur = s)) => got[s].data = buf[s]
      /\ got[s].joined /\ collected => got[s].trunc = trunc[s]

LEMMA StreamInvCorrect == Spec => [](\A s \in Streams : StreamInv(s))
<1> USE ProcessRunAssumption DEF StreamInv, Procs
<1>1. Init => \A s \in Streams : StreamInv(s)
  BY DEF Init, Writers
<1>2. TypeOK /\ (\A s \in Streams : StreamInv(s)) /\ [Next]_vars
        => (\A s \in Streams : StreamInv(s))'
  <2> SUFFICES ASSUME TypeOK, \A s \in Streams : StreamInv(s), [Next]_vars,
                      NEW s \in Streams
               PROVE  StreamInv(s)'
    OBVIOUS
  <2> USE DEF TypeOK, ProcOK, ThreadOK, PipeOK, procVars, threadVars, pipeVars,
              callerVars, Goto, Break
  <2>1. CASE Spawn
    BY <2>1 DEF Spawn, Writers
  <2>2. CASE PollWait \/ Reap \/ Wait
    BY <2>2 DEF PollWait, Reap, Wait, Writers
  <2>3. CASE KillGroup \/ KillChild
    BY <2>3 DEF KillGroup, KillChild, Doom, Running, Writers
  <2>4. ASSUME NEW t \in Streams, Reader(t) PROVE StreamInv(s)'
    <3>1. CASE ReadSome(t)
      BY <2>4, <3>1 DEF Reader, ReadSome, Writers
    <3>2. CASE StopReading(t)
      BY <2>4, <3>2 DEF Reader, StopReading, Writers, ReadLimit
    <3>3. CASE PublishBuf(t)
      BY <2>4, <3>3 DEF Reader, PublishBuf, Writers
    <3>4. CASE PublishFlag(t)
      BY <2>4, <3>4 DEF Reader, PublishFlag, Writers
    <3>5. CASE Drain(t)
      BY <2>4, <3>5 DEF Reader, Drain, Writers
    <3> QED
      BY <2>4, <3>1, <3>2, <3>3, <3>4, <3>5 DEF Reader
  <2>5. ASSUME NEW p \in Procs, Program(p) PROVE StreamInv(s)'
    <3> USE DEF Running, Writers
    <3>1. ASSUME NEW t \in Streams, Write(p, t) PROVE StreamInv(s)'
      BY <2>5, <3>1 DEF Program, Write
    <3>2. ASSUME NEW t \in Streams, WriteBroken(p, t) PROVE StreamInv(s)'
      BY <2>5, <3>2 DEF Program, WriteBroken, Die
    <3>3. ASSUME NEW t \in Streams, CloseStream(p, t) PROVE StreamInv(s)'
      BY <2>5, <3>3 DEF Program, CloseStream
    <3>4. ASSUME NEW q \in Kin, Fork(p, q) PROVE StreamInv(s)'
      BY <2>5, <3>4 DEF Program, Fork
    <3>5. CASE LeaveGroup(p)
      BY <2>5, <3>5 DEF Program, LeaveGroup
    <3>6. CASE Exit(p)
      BY <2>5, <3>6 DEF Program, Exit, Die
    <3> QED
      BY <2>5, <3>1, <3>2, <3>3, <3>4, <3>5, <3>6 DEF Program
  <2>6. ASSUME NEW p \in Procs, DieKilled(p) PROVE StreamInv(s)'
    BY <2>6 DEF DieKilled, Die, Writers
  <2>7. CASE SpawnFails \/ PollFlag \/ PollTime
    BY <2>7 DEF SpawnFails, PollFlag, PollTime, Writers
  <2>8. CASE Join \/ ExtractData \/ ExtractFlag \/ Classify
    BY <2>8 DEF Join, ExtractData, ExtractFlag, Classify, Writers
  <2>9. CASE UNCHANGED <<pc, procVars, threadVars, pipeVars>>
    BY <2>9 DEF Writers
  <2> QED
    BY StepCases, <2>1, <2>2, <2>3, <2>4, <2>5, <2>6, <2>7, <2>8, <2>9
       DEF Interrupt, DeadlinePasses, BudgetPasses, vars
<1> QED
  BY <1>1, <1>2, TypeCorrect, PTL DEF Spec

LEMMA ResultInvCorrect == Spec => [](\A s \in Streams : ResultInv(s))
<1> USE DEF ResultInv, Streams, PollSteps
<1>1. Init => \A s \in Streams : ResultInv(s)
  BY DEF Init
<1>2. TypeOK /\ (\A s \in Streams : ResultInv(s)) /\ [Next]_vars
        => (\A s \in Streams : ResultInv(s))'
  <2> SUFFICES ASSUME TypeOK, \A s \in Streams : ResultInv(s), [Next]_vars,
                      NEW s \in Streams
               PROVE  ResultInv(s)'
    OBVIOUS
  <2> USE DEF TypeOK, CallerOK, ThreadOK, ResultOK, callerVars, threadVars, Goto, Break
  <2>1. CASE Spawn \/ SpawnFails
    BY <2>1 DEF Spawn, SpawnFails
  <2>9. CASE PollWait \/ PollFlag \/ PollTime
    BY <2>9 DEF PollWait, PollFlag, PollTime
  <2>2. CASE KillGroup \/ KillChild \/ Reap \/ Wait
    BY <2>2 DEF KillGroup, KillChild, Reap, Wait
  <2>3. CASE Join
    BY <2>3 DEF Join
  <2>4. CASE ExtractData
    BY <2>4 DEF ExtractData
  <2>5. CASE ExtractFlag
    BY <2>5 DEF ExtractFlag
  <2>6. CASE Classify
    BY <2>6 DEF Classify
  <2>7. ASSUME NEW t \in Streams, Reader(t) PROVE ResultInv(s)'
    BY <2>7 DEF Reader, ReadSome, StopReading, PublishBuf, PublishFlag, Drain
  <2>8. CASE UNCHANGED <<callerVars, threadVars, got>>
    BY <2>8
  <2> QED
    BY StepCases, <2>1, <2>2, <2>3, <2>4, <2>5, <2>6, <2>7, <2>8, <2>9
       DEF Program, DieKilled, Interrupt, DeadlinePasses, BudgetPasses, vars
<1> QED
  BY <1>1, <1>2, TypeCorrect, PTL DEF Spec

\* A stream whose thread was joined is complete, or cut and marked as cut, for
\* every capture limit, pipe size and amount written.
THEOREM CompleteWhenJoinedCorrect == Spec => []CompleteWhenJoined
<1>1. TypeOK /\ (\A s \in Streams : StreamInv(s)) /\ (\A s \in Streams : ResultInv(s))
        => CompleteWhenJoined
  BY ProcessRunAssumption
     DEF TypeOK, ThreadOK, PipeOK, StreamInv, ResultInv, CompleteWhenJoined, ReadLimit
<1> QED
  BY <1>1, TypeCorrect, StreamInvCorrect, ResultInvCorrect, PTL

\* Whoever writes finds the read end open, for any number of descendants that
\* copy, close and leave behind the write ends: the thread closes it last.
THEOREM NoBrokenPipeCorrect == Spec => []NoBrokenPipe
<1>1. (\A s \in Streams : StreamInv(s)) => NoBrokenPipe
  BY DEF StreamInv, NoBrokenPipe
<1> QED
  BY <1>1, StreamInvCorrect, PTL

-----------------------------------------------------------------------------
(* The zombie *)

\* Only the reap loop and its fallback lead to collect_pair, and neither is left
\* before the child was waited for, unless a wait call fails.
ReapInv ==
  /\ pc # "done" => outcome = "none"
  /\ pc \in CollectSteps \cup {"classify"} \/ (pc = "done" /\ outcome # "SpawnError")
       => reaped \/ "wait" \in Faults

LEMMA ReapInvCorrect == Spec => []ReapInv
<1> USE DEF ReapInv, CollectSteps
<1>1. Init => ReapInv
  BY DEF Init
<1>2. TypeOK /\ ReapInv /\ [Next]_vars => ReapInv'
  <2> SUFFICES ASSUME TypeOK, ReapInv, [Next]_vars PROVE ReapInv'
    OBVIOUS
  <2> USE DEF callerVars, procVars, Goto, Break
  <2>1. CASE Spawn \/ SpawnFails
    BY <2>1 DEF Spawn, SpawnFails
  <2>2. CASE PollWait \/ PollFlag \/ PollTime
    BY <2>2 DEF PollWait, PollFlag, PollTime
  <2>3. CASE KillGroup \/ KillChild
    BY <2>3 DEF KillGroup, KillChild
  <2>4. CASE Reap
    BY <2>4 DEF Reap
  <2>5. CASE Wait
    BY <2>5 DEF Wait
  <2>6. CASE Join \/ ExtractData \/ Classify
    BY <2>6 DEF Join, ExtractData, Classify
  <2>7. CASE ExtractFlag
    BY <2>7 DEF ExtractFlag, TypeOK, CallerOK
  <2>8. CASE UNCHANGED <<callerVars, reaped>>
    BY <2>8
  <2> QED
    BY StepCases, <2>1, <2>2, <2>3, <2>4, <2>5, <2>6, <2>7, <2>8
       DEF Reader, Program, Write, WriteBroken, Fork, LeaveGroup, CloseStream, Exit,
           DieKilled, Die, Interrupt, DeadlinePasses, BudgetPasses, vars
<1> QED
  BY <1>1, <1>2, TypeCorrect, PTL DEF Spec

\* run() leaves no zombie, for any number of polls (none included), however the
\* poll loop ended and whatever the kill found.
THEOREM ChildReapedCorrect == Spec => []ChildReaped
<1>1. ReapInv => ChildReaped
  BY DEF ReapInv, ChildReaped
<1> QED
  BY <1>1, ReapInvCorrect, PTL
=============================================================================
