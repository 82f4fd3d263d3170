------------------------------- MODULE EventLog -------------------------------
(***************************************************************************)
(* The event store ~/.8v/events.ndjson and the processes that write it:    *)
(* commands (o8v/src/dispatch.rs, through EventBus and StorageSubscriber)  *)
(* and the two hooks of a tool use (o8v/src/hook/dispatch.rs), which are   *)
(* two processes tied together by a temp file (o8v/src/hook/run_id.rs).    *)
(*                                                                         *)
(* Every process emits a CommandStarted or a CommandCompleted by looking   *)
(* whether the file is there, then appending to it or, when it was not     *)
(* there, writing it from scratch (o8v-fs/src/write_guard.rs); nothing is  *)
(* locked.  A run id is a fresh ULID: the process that mints it stands for *)
(* it.  Of an event only its kind and its run id are kept.                 *)
(***************************************************************************)
EXTENDS Naturals, Sequences

CONSTANTS
  Commands,  \* the commands dispatched, one run each
  Tools,     \* the tool uses of an agent, each with a pre and a post hook
  Faults     \* what may go wrong: "crash" of a process, "io" error of a write

ASSUME EventLogAssumption == Faults \subseteq {"crash", "io"}

VARIABLES
  existed,  \* events.ndjson was there before any of these processes (a constant)
  exists,   \* it is there
  log,      \* its lines
  pc,       \* where each process is
  event,    \* the kind of event a process is emitting
  run,      \* the run id a process emits it for
  record,   \* the temp file of each tool use
  dropped   \* the processes that lost an event to an error (history)

fileVars == <<existed, exists, log>>
vars == <<existed, exists, log, pc, event, run, record, dropped>>

CommandProcs == Commands \X {"command"}
Pre(t) == <<t, "pre">>
Post(t) == <<t, "post">>
Actors == CommandProcs \cup (Tools \X {"pre", "post"})

Line(kind, r) == [kind |-> kind, run |-> r]
\* What is left of a line that was overwritten in part.
Torn == Line("Torn", <<"none", "none">>)
Lines == [kind : {"Started", "Completed"}, run : Actors] \cup {Torn}
Logged(kind, r) == \E i \in DOMAIN log : log[i] = Line(kind, r)

EmitSteps == {"look", "append", "truncate", "fill"}
Ended == {"done", "failed", "crashed"}

FileOK ==
  /\ existed \in BOOLEAN /\ exists \in BOOLEAN
  /\ log \in Seq(Lines)

ActorsOK ==
  /\ pc \in [Actors -> {"idle", "work", "record", "fillRecord", "delete"}
                         \cup EmitSteps \cup Ended]
  /\ event \in [Actors -> {"Started", "Completed"}]
  /\ run \in [Actors -> Actors]
  /\ record \in [Tools -> {"absent", "torn", "full"}]
  /\ dropped \in SUBSET Actors

TypeOK == FileOK /\ ActorsOK

Init ==
  /\ existed \in BOOLEAN /\ exists = existed
  /\ log = <<>>            \* the lines of earlier runs make no difference
  /\ pc = [a \in Actors |-> "idle"]
  /\ event = [a \in Actors |-> "Started"]
  /\ run = [a \in Actors |-> a]
  /\ record = [t \in Tools |-> "absent"]
  /\ dropped = {}

Goto(a, step) == pc' = [pc EXCEPT ![a] = step]
Emit(a, kind) ==
  /\ event' = [event EXCEPT ![a] = kind]
  /\ Goto(a, "look")

-----------------------------------------------------------------------------
(* StorageSubscriber::on_event and the hooks' emit *)

\* Mutation for AtMostOnce: complete() does not disarm the guard.
AfterEmitAgain(a) ==
  /\ Goto(a, IF a[2] = "pre" THEN "done" ELSE IF a[2] = "post" THEN "look"
             ELSE IF event[a] = "Completed" THEN "look" ELSE "work")
  /\ event' = IF a[2] = "post" THEN [event EXCEPT ![a] = "Completed"] ELSE event

\* After an event: the command runs, the post hook goes on to Completed.
AfterEmit(a) ==
  /\ Goto(a, IF event[a] = "Completed" \/ a[2] = "pre" THEN "done"
             ELSE IF a[2] = "post" THEN "look" ELSE "work")
  /\ event' = IF a[2] = "post" THEN [event EXCEPT ![a] = "Completed"] ELSE event

\* Mutation for AppendOnly and ImplementsLifecycle: safe_write in any case.
LookAway(a) ==
  /\ pc[a] = "look"
  /\ Goto(a, "truncate")
  /\ UNCHANGED <<fileVars, event, run, record, dropped>>

\* safe_append finds the file, or fails with NotFound and safe_write follows.
Look(a) ==
  /\ pc[a] = "look"
  /\ Goto(a, IF exists THEN "append" ELSE "truncate")
  /\ UNCHANGED <<fileVars, event, run, record, dropped>>

\* One write to a file opened with O_APPEND.
AppendLine(a) ==
  /\ pc[a] = "append"
  /\ log' = Append(log, Line(event[a], run[a]))
  /\ AfterEmit(a)
  /\ UNCHANGED <<existed, exists, run, record, dropped>>

\* std::fs::write opens with O_CREAT and O_TRUNC, whatever is there by now ...
Truncate(a) ==
  /\ pc[a] = "truncate"
  /\ exists' = TRUE
  /\ log' = <<>>
  /\ Goto(a, "fill")
  /\ UNCHANGED <<existed, event, run, record, dropped>>

\* ... and writes at offset 0, over the first lines appended meanwhile, the
\* last of which may be longer than what covers it.
Uncovered == {SubSeq(log, k + 1, Len(log)) : k \in 1..Len(log)}
Overwritten(line) ==
  IF log = <<>>
  THEN {<<line>>}
  ELSE {<<line>> \o rest : rest \in Uncovered} \cup {<<line, Torn>> \o rest : rest \in Uncovered}

Fill(a) ==
  /\ pc[a] = "fill"
  /\ log' \in Overwritten(Line(event[a], run[a]))
  /\ AfterEmit(a)
  /\ UNCHANGED <<existed, exists, run, record, dropped>>

\* A command drops the event and goes on; a hook gives up.
EmitFails(a) ==
  /\ "io" \in Faults /\ pc[a] \in EmitSteps
  /\ dropped' = dropped \cup {a}
  /\ IF a \in CommandProcs
     THEN AfterEmit(a)
     ELSE Goto(a, "failed") /\ UNCHANGED event
  /\ UNCHANGED <<fileVars, run, record>>

EmitStep(a) == Look(a) \/ AppendLine(a) \/ Truncate(a) \/ Fill(a) \/ EmitFails(a)

-----------------------------------------------------------------------------
(* dispatch() *)

Begin(c) ==
  /\ pc[c] = "idle"
  /\ Emit(c, "Started")
  /\ UNCHANGED <<fileVars, run, record, dropped>>

\* Mutation for MatchingPair: an error is propagated past guard.complete().
FinishOrReturn(c) ==
  /\ pc[c] = "work"
  /\ \/ Emit(c, "Completed")
     \/ Goto(c, "done") /\ UNCHANGED event
  /\ UNCHANGED <<fileVars, run, record, dropped>>

\* execute() returned Ok or Err, or panicked and the guard was dropped.
Finish(c) ==
  /\ pc[c] = "work"
  /\ Emit(c, "Completed")
  /\ UNCHANGED <<fileVars, run, record, dropped>>

-----------------------------------------------------------------------------
(* handle_pre and handle_post.  The agent runs the pre hook before the tool *)
(* and the post hook after it, and only if the tool succeeded.              *)

BeginPre(t) ==
  /\ pc[Pre(t)] = "idle" /\ pc[Post(t)] = "idle"
  /\ Goto(Pre(t), "record")
  /\ UNCHANGED <<fileVars, event, run, record, dropped>>

\* write_run_record: fs::write creates the file empty, then fills it.
CreateRecord(t) ==
  /\ pc[Pre(t)] = "record"
  /\ record' = [record EXCEPT ![t] = "torn"]
  /\ Goto(Pre(t), "fillRecord")
  /\ UNCHANGED <<fileVars, event, run, dropped>>

FillRecord(t) ==
  /\ pc[Pre(t)] = "fillRecord"
  /\ record' = [record EXCEPT ![t] = "full"]
  /\ Emit(Pre(t), "Started")
  /\ UNCHANGED <<fileVars, run, dropped>>

\* Mutation for StartedFirst: a post hook that does not wait for its pre hook.
BeginPostEarly(t) ==
  /\ pc[Post(t)] = "idle" /\ record[t] = "full"
  /\ run' = [run EXCEPT ![Post(t)] = Pre(t)]
  /\ Goto(Post(t), "delete")
  /\ UNCHANGED <<event, fileVars, record, dropped>>

\* Mutation for StatsTellTheTruth: the post hook never looks for the temp file.
BeginPostAnew(t) ==
  /\ pc[Post(t)] = "idle" /\ pc[Pre(t)] \in Ended \cup {"idle"}
  /\ Emit(Post(t), "Started")
  /\ UNCHANGED <<run, fileVars, record, dropped>>

\* Mutation for TypeOK: the first line of the temp file is not split off.
BeginPostUnsplit(t) ==
  /\ pc[Post(t)] = "idle" /\ record[t] = "full"
  /\ run' = [run EXCEPT ![Post(t)] = <<Pre(t), "pre_ms">>]
  /\ Goto(Post(t), "delete")
  /\ UNCHANGED <<event, fileVars, record, dropped>>

\* read_run_record: NotFound makes up a run, InvalidData ends the hook.
BeginPost(t) ==
  /\ pc[Post(t)] = "idle" /\ pc[Pre(t)] \in Ended \cup {"idle"}
  /\ \/ /\ record[t] = "absent"
        /\ Emit(Post(t), "Started")
        /\ UNCHANGED run
     \/ /\ record[t] = "torn"
        /\ Goto(Post(t), "failed")
        /\ UNCHANGED <<event, run>>
     \/ /\ record[t] = "full"
        /\ run' = [run EXCEPT ![Post(t)] = Pre(t)]
        /\ Goto(Post(t), "delete")
        /\ UNCHANGED event
  /\ UNCHANGED <<fileVars, record, dropped>>

\* Mutation for OpenRunsAreOpen: the hook returns once the temp file is gone.
DeleteRecordOnly(t) ==
  /\ pc[Post(t)] = "delete"
  /\ record' = [record EXCEPT ![t] = "absent"]
  /\ Goto(Post(t), "done")
  /\ UNCHANGED <<event, fileVars, run, dropped>>

DeleteRecord(t) ==
  /\ pc[Post(t)] = "delete"
  /\ record' = [record EXCEPT ![t] = "absent"]
  /\ Emit(Post(t), "Completed")
  /\ UNCHANGED <<fileVars, run, dropped>>

RecordFails(t) ==
  /\ "io" \in Faults
  /\ \E a \in {Pre(t), Post(t)} :
       /\ pc[a] \in {"record", "fillRecord", "delete"}
       /\ Goto(a, "failed")
       /\ dropped' = dropped \cup {a}
  /\ UNCHANGED <<fileVars, event, run, record>>

-----------------------------------------------------------------------------
\* A kill, a hook timeout, or process::exit from the signal handler: no guard runs.
Crash(a) ==
  /\ "crash" \in Faults /\ pc[a] \notin Ended \cup {"idle"}
  /\ Goto(a, "crashed")
  /\ UNCHANGED <<fileVars, event, run, record, dropped>>

Hooks(t) ==
  \/ BeginPre(t) \/ CreateRecord(t) \/ FillRecord(t)
  \/ BeginPost(t) \/ DeleteRecord(t) \/ RecordFails(t)

Next ==
  \/ \E a \in Actors : EmitStep(a) \/ Crash(a)
  \/ \E c \in CommandProcs : Begin(c) \/ Finish(c)
  \/ \E t \in Tools : Hooks(t)

Spec == Init /\ [][Next]_vars

-----------------------------------------------------------------------------
(* Properties *)

\* The process that ends a run, the command or the post hook, has ended well.
Closed(a) == a[2] # "pre" /\ pc[a] = "done" /\ a \notin dropped

\* A pre hook that died after writing its temp file has announced no run.
NeverStarted(r) == r[2] = "pre" /\ pc[r] \in {"crashed", "failed"}

\* Every append keeps what is there: as long as the file was there to begin
\* with, no process takes a line away or changes one.
AppendOnly ==
  [][existed => log' = log \/ \E line \in Lines : log' = Append(log, line)]_vars

\* "So the event log has a matching pair" (dispatch.rs:77): a process that ends
\* without a crash or an error leaves both events of its run, however the run
\* ended and whoever else was writing.  The run of a tool use has two processes:
\* its pair is complete once the second has ended.
MatchingPair ==
  \A a \in Actors :
    existed /\ Closed(a) =>
      /\ Logged("Completed", run[a])
      /\ Logged("Started", run[a]) \/ NeverStarted(run[a])

\* Started comes first, although the two may come from two processes, and also
\* when several processes create the file at once and lines are lost.
StartedFirst ==
  \A i, j \in DOMAIN log : \A r \in Actors :
    log[i] = Line("Completed", r) /\ log[j] = Line("Started", r) => j < i

\* No event is written twice.
AtMostOnce ==
  \A i, j \in DOMAIN log : log[i] = log[j] /\ log[i] # Torn => i = j

\* Also when the file is created several times, and lines are lost: a
\* run that the log shows as started and not completed is one that is going on,
\* that crashed or that lost an event to an error, never one that ended well.
OpenRunsAreOpen ==
  \A a \in Actors :
    Closed(a) /\ Logged("Started", run[a]) => Logged("Completed", run[a])

\* Where the log shows each run to be.  For a log that had to be created
\* nothing is promised: see AlwaysMatchingPair.
Shown ==
  [r \in Actors |->
     IF ~existed THEN "unseen"
     ELSE IF Logged("Started", r)
          THEN IF Logged("Completed", r) THEN "closed" ELSE "open"
          ELSE IF Logged("Completed", r) THEN "headless" ELSE "unseen"]

Abstract == INSTANCE Lifecycle WITH RunIds <- Actors, state <- Shown

\* The event store implements Lifecycle: a run goes through its states one by
\* one, and never back.
ImplementsLifecycle == Abstract!Spec

\* dispatch.rs:202 "so the event log always has a matching pair".
AlwaysMatchingPair ==
  \A a \in CommandProcs :
    Closed(a) => Logged("Started", run[a]) /\ Logged("Completed", run[a])
=============================================================================
