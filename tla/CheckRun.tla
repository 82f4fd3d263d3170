------------------------------- MODULE CheckRun -------------------------------
(***************************************************************************)
(* 8v check (o8v/src/commands/check.rs, o8v-check/src/lib.rs) and the      *)
(* pre-commit hook that runs the same check (o8v/src/hooks/git.rs), as     *)
(* several processes of 8v that share ~/.8v/last-check.json.               *)
(*                                                                         *)
(* A process is two threads: the check loop (pc) and the handler of        *)
(* o8v/src/signal.rs, which sets the interrupted flag and then ends the    *)
(* process, wherever the loop is.  What one check makes of its tool is in  *)
(* CheckOutcome, how a tool is run in ProcessRun.                          *)
(***************************************************************************)
EXTENDS CheckOutcome, Sequences

CONSTANTS
  Runs,      \* the processes
  HookRuns,  \* those that are 8v hooks git on-commit
  Earlier,   \* what runs before them wrote to last-check.json, two at the same time perhaps
  Trees,     \* for each, what detect_all may find: the checks of each project
  Faults     \* {"io"} if writing last-check.json, or the report, may fail

ASSUME CheckRunAssumption ==
  /\ HookRuns \subseteq Runs
  /\ Earlier \subseteq SUBSET Ids
  /\ Trees \in [Runs -> SUBSET Seq(Seq(Checks))]
  /\ Faults \subseteq {"io"}

VARIABLES
  pc,        \* where the check loop is
  signal,    \* where the handler is: "none" or, between its swap and its exit, "caught"
  flag,      \* the interrupted flag
  code,      \* the exit code the command has chosen
  exit,      \* the exit code of the process, "none" while it runs
  projects,  \* what detect_all found
  errors,    \* it reported detection errors
  results,   \* CheckReport.results: for each project the entries of its checks
  entries,   \* the entries of the project in hand
  started,   \* CheckStart events
  finished,  \* CheckDone events
  previous,  \* the identities read from last-check.json
  snapshot,  \* last-check.json: the identities in it, and whether bytes follow the set
  history    \* every set of identities that was written to it

runVars == <<projects, errors, results, entries>>
eventVars == <<started, finished>>
fileVars == <<snapshot, history>>
vars == <<pc, signal, flag, code, exit, runVars, eventVars, previous, fileVars>>

Steps == {"start", "read", "early", "detect", "project", "check", "emit", "run",
          "truncate", "fill", "code", "leave", "done"}
Codes == {"none", "ok", "fail", "interrupted"}
Entry == [verdict : {"Passed", "Failed", "Error"}, ids : SUBSET Ids, earned : BOOLEAN]
Snapshot == [ids : SUBSET Ids, more : BOOLEAN]
NoFile == [ids |-> {}, more |-> FALSE]   \* also a file that is empty

TypeOK ==
  /\ pc \in [Runs -> Steps]
  /\ signal \in [Runs -> {"none", "caught"}]
  /\ flag \in [Runs -> BOOLEAN]
  /\ code \in [Runs -> Codes]
  /\ exit \in [Runs -> Codes]
  /\ projects \in [Runs -> Seq(Seq(Checks))]
  /\ errors \in [Runs -> BOOLEAN]
  /\ results \in [Runs -> Seq(Seq(Entry))]
  /\ entries \in [Runs -> Seq(Entry)]
  /\ started \in [Runs -> Nat]
  /\ finished \in [Runs -> Nat]
  /\ previous \in [Runs -> SUBSET Ids]
  /\ snapshot \in Snapshot
  /\ history \subseteq SUBSET Ids

Init ==
  /\ pc = [p \in Runs |-> "start"]
  /\ signal = [p \in Runs |-> "none"]
  /\ flag = [p \in Runs |-> FALSE]
  /\ code = [p \in Runs |-> "none"]
  /\ exit = [p \in Runs |-> "none"]
  /\ projects = [p \in Runs |-> <<>>]
  /\ errors = [p \in Runs |-> FALSE]
  /\ results = [p \in Runs |-> <<>>]
  /\ entries = [p \in Runs |-> <<>>]
  /\ started = [p \in Runs |-> 0]
  /\ finished = [p \in Runs |-> 0]
  /\ previous = [p \in Runs |-> {}]
  /\ \/ Earlier = {} /\ snapshot = NoFile
     \/ \E written \in Earlier : snapshot = [ids |-> written, more |-> FALSE]
     \/ snapshot = [ids |-> UNION Earlier, more |-> TRUE]
  /\ history = Earlier

Goto(p, step) == pc' = [pc EXCEPT ![p] = step]
At(p, step) == pc[p] = step /\ exit[p] = "none"

-----------------------------------------------------------------------------
(* The check command.                                                      *)

\* dispatch_command clears the flag of the process before anything else.
Start(p) ==
  /\ At(p, "start")
  /\ flag' = [flag EXCEPT ![p] = FALSE]
  /\ Goto(p, "read")
  /\ UNCHANGED <<signal, code, exit, runVars, eventVars, previous, fileVars>>

\* Mutation for PreviousWasWritten: what parses of a torn file is taken.
ParsedLeniently(file) == file.ids
\* serde_json rejects a file in which more bytes follow: nothing is known then.
Parsed(file) == IF file.more THEN {} ELSE file.ids

ReadLastCheck(p) ==
  /\ At(p, "read")
  /\ previous' = [previous EXCEPT ![p] = Parsed(snapshot)]
  /\ Goto(p, "early")
  /\ UNCHANGED <<signal, flag, code, exit, runVars, eventVars, fileVars>>

EarlyOut(p) ==
  /\ At(p, "early")
  /\ Goto(p, IF flag[p] THEN "truncate" ELSE "detect")
  /\ UNCHANGED <<signal, flag, code, exit, runVars, eventVars, previous, fileVars>>

\* Detection may fail for a part of the tree.
Detect(p) ==
  /\ At(p, "detect")
  /\ \E found \in Trees[p], failed \in BOOLEAN :
       /\ projects' = [projects EXCEPT ![p] = found]
       /\ errors' = [errors EXCEPT ![p] = failed]
  /\ Goto(p, "project")
  /\ UNCHANGED <<signal, flag, code, exit, results, entries, eventVars, previous, fileVars>>

\* The head of the loop over the projects.
NextProject(p) ==
  /\ At(p, "project")
  /\ Goto(p, IF flag[p] \/ Len(results[p]) = Len(projects[p]) THEN "truncate" ELSE "check")
  /\ entries' = [entries EXCEPT ![p] = <<>>]
  /\ UNCHANGED <<signal, flag, code, exit, projects, errors, results>>
  /\ UNCHANGED <<eventVars, previous, fileVars>>

Project(p) == projects[p][Len(results[p]) + 1]
Check(p) == Project(p)[Len(entries[p]) + 1]

\* The head of the loop over the checks of a project.  A project that is left
\* early is pushed with the entries it has.
NextCheck(p) ==
  /\ At(p, "check")
  /\ IF flag[p] \/ Len(entries[p]) = Len(Project(p))
     THEN /\ results' = [results EXCEPT ![p] = Append(@, entries[p])]
          /\ Goto(p, "project")
     ELSE Goto(p, "emit") /\ UNCHANGED results
  /\ UNCHANGED <<signal, flag, code, exit, projects, errors, entries>>
  /\ UNCHANGED <<eventVars, previous, fileVars>>

\* Mutation for Paired: the flag is looked at after CheckStart.
EmitThenTest(p) ==
  /\ At(p, "emit")
  /\ started' = [started EXCEPT ![p] = @ + 1]
  /\ IF flag[p]
     THEN /\ results' = [results EXCEPT ![p] = Append(@, entries[p])]
          /\ Goto(p, "project")
     ELSE Goto(p, "run") /\ UNCHANGED results
  /\ UNCHANGED <<signal, flag, code, exit, projects, errors, entries, finished, previous, fileVars>>

\* The second test of the flag, right before the CheckStart event.
EmitStart(p) ==
  /\ At(p, "emit")
  /\ IF flag[p]
     THEN /\ results' = [results EXCEPT ![p] = Append(@, entries[p])]
          /\ Goto(p, "project")
          /\ UNCHANGED started
     ELSE /\ started' = [started EXCEPT ![p] = @ + 1]
          /\ Goto(p, "run")
          /\ UNCHANGED results
  /\ UNCHANGED <<signal, flag, code, exit, projects, errors, entries, finished, previous, fileVars>>

Record(p, outcome, earned) ==
  entries' = [entries EXCEPT ![p] =
    Append(@, [verdict |-> outcome.verdict, ids |-> outcome.ids, earned |-> earned])]

\* Check::run and the CheckDone event; a check that panics, or whose project
\* directory is gone, is an error.  Only a set flag makes a tool interrupted.
FinishCheck(p) ==
  /\ At(p, "run")
  /\ \/ Record(p, Error, FALSE)
     \/ \E r \in ToolResult(Check(p)), q \in ParseResult(Check(p)) :
          /\ r.exit = "Interrupted" => flag[p]
          /\ Record(p, RunCheck(Check(p), r, q), Earned(Check(p), r, q))
  /\ finished' = [finished EXCEPT ![p] = @ + 1]
  /\ Goto(p, "check")
  /\ UNCHANGED <<signal, flag, code, exit, projects, errors, results, started, previous, fileVars>>

\* diagnostic_ids: those of every entry in the report.
DiagnosticIds(p) ==
  UNION {UNION {results[p][i][j].ids : j \in 1..Len(results[p][i])} : i \in 1..Len(results[p])}

\* write_last_check is fs::write: the file is truncated, then written in one go.
Truncate(p) ==
  /\ At(p, "truncate")
  /\ \/ snapshot' = NoFile /\ Goto(p, "fill")
     \/ "io" \in Faults /\ Goto(p, "code") /\ UNCHANGED snapshot
  /\ UNCHANGED <<signal, flag, code, exit, runVars, eventVars, previous, history>>

\* Another process may have filled the file since: what it wrote beyond the
\* length of these bytes stays.
Fill(p) ==
  /\ At(p, "fill")
  /\ \/ /\ history' = history \cup {DiagnosticIds(p)}
        /\ \/ snapshot' = [ids |-> DiagnosticIds(p), more |-> FALSE]
           \/ /\ snapshot.more \/ ~(snapshot.ids \subseteq DiagnosticIds(p))
              /\ \E rest \in SUBSET snapshot.ids :
                   snapshot' = [ids |-> DiagnosticIds(p) \cup rest, more |-> TRUE]
     \/ "io" \in Faults /\ UNCHANGED fileVars
  /\ Goto(p, "code")
  /\ UNCHANGED <<signal, flag, code, exit, runVars, eventVars, previous>>

-----------------------------------------------------------------------------
(* The exit code.                                                          *)

IsOk(p) ==
  /\ ~errors[p]
  /\ results[p] # <<>>
  /\ \A i \in 1..Len(results[p]) :
       /\ results[p][i] # <<>>
       /\ \A j \in 1..Len(results[p][i]) : results[p][i][j].verdict = "Passed"

NothingFound(p) == results[p] = <<>> /\ ~errors[p]

CheckCode(p) == IF IsOk(p) THEN "ok" ELSE "fail"

\* The hook tests the flag again: a check cut short is not a check that passed.
HookCode(p) ==
  CASE flag[p]                     -> "interrupted"
    [] ~flag[p] /\ NothingFound(p) -> "ok"
    [] OTHER                       -> CheckCode(p)

ChooseCode(p) ==
  /\ At(p, "code")
  /\ code' = [code EXCEPT ![p] = IF p \in HookRuns THEN HookCode(p) ELSE CheckCode(p)]
  /\ Goto(p, "leave")
  /\ UNCHANGED <<signal, flag, exit, runVars, eventVars, previous, fileVars>>

\* The main thread returns from main; a report it cannot print is a failure.
Leave(p) ==
  /\ At(p, "leave")
  /\ \/ exit' = [exit EXCEPT ![p] = code[p]]
     \/ "io" \in Faults /\ exit' = [exit EXCEPT ![p] = "fail"]
  /\ Goto(p, "done")
  /\ UNCHANGED <<signal, flag, code, runVars, eventVars, previous, fileVars>>

-----------------------------------------------------------------------------
(* The handler of SIGINT and SIGTERM, a thread of its own.                 *)

Interrupt(p) ==
  /\ exit[p] = "none" /\ signal[p] = "none"
  /\ signal' = [signal EXCEPT ![p] = "caught"]
  /\ flag' = [flag EXCEPT ![p] = TRUE]
  /\ UNCHANGED <<pc, code, exit, runVars, eventVars, previous, fileVars>>

\* Whether the swap returned true or false, process::exit(130) follows.
HandlerExit(p) ==
  /\ exit[p] = "none" /\ signal[p] = "caught"
  /\ exit' = [exit EXCEPT ![p] = "interrupted"]
  /\ UNCHANGED <<pc, signal, flag, code, runVars, eventVars, previous, fileVars>>

-----------------------------------------------------------------------------
CheckStep(p) == Start(p) \/ ReadLastCheck(p) \/ EarlyOut(p) \/ Detect(p) \/ NextProject(p)
                  \/ NextCheck(p) \/ EmitStart(p) \/ FinishCheck(p)
WriteStep(p) == Truncate(p) \/ Fill(p) \/ ChooseCode(p) \/ Leave(p)

Next == \E p \in Runs : CheckStep(p) \/ WriteStep(p) \/ Interrupt(p) \/ HandlerExit(p)

Spec == Init /\ [][Next]_vars

-----------------------------------------------------------------------------
(* Properties.                                                             *)

\* There are projects, and every check of every one of them ran and earned its pass.
AllEarned(p) ==
  /\ projects[p] # <<>> /\ ~errors[p]
  /\ Len(results[p]) = Len(projects[p])
  /\ \A i \in 1..Len(projects[p]) :
       /\ Len(results[p][i]) = Len(projects[p][i])
       /\ \A j \in 1..Len(projects[p][i]) : results[p][i][j].earned

\* A process that no signal reached and that exits 0 has checked everything, and
\* every tool said so; the hook, which tests the flag once more, also when a signal
\* came while it ran.  Only the hook accepts that there is nothing to check.
SuccessIsEarned ==
  \A p \in Runs :
    exit[p] = "ok" /\ (signal[p] = "none" \/ p \in HookRuns) =>
      \/ AllEarned(p)
      \/ p \in HookRuns /\ projects[p] = <<>> /\ ~errors[p]

\* Every CheckStart has its CheckDone once the loop moves on, whatever the flag did
\* in between (o8v-check/src/lib.rs:126-128).
Paired ==
  \A p \in Runs : started[p] = finished[p] + (IF pc[p] = "run" THEN 1 ELSE 0)

\* The delta is taken against what one run found, never against a mixture of what
\* several wrote, a torn file, or a file another run is writing.
PreviousWasWritten ==
  \A p \in Runs : previous[p] = {} \/ previous[p] \in history

\* "The check loop sees the flag and stops after the current check finishes"
\* (o8v/src/signal.rs:12): the handler leaves a running check alone.
InterruptLetsCheckFinish ==
  [][\A p \in Runs : HandlerExit(p) => pc[p] # "run"]_vars
=============================================================================
