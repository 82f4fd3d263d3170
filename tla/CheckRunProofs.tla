---------------------------- MODULE CheckRunProofs ----------------------------
(***************************************************************************)
(* Proofs about CheckRun, for any number of processes, hooks and projects. *)
(***************************************************************************)
EXTENDS CheckRun, SequenceTheorems, TLAPS

-----------------------------------------------------------------------------
(* What one check reports.                                                 *)

\* run_tool, enrich and the three kinds of check never report a pass that the result
\* of the tool does not bear out.
LEMMA CheckIsEarned ==
  ASSUME NEW c \in Checks, NEW r \in ToolResult(c), NEW q \in ParseResult(c)
  PROVE  /\ RunCheck(c, r, q) \in Outcome
         /\ RunCheck(c, r, q).verdict = "Passed" => Earned(c, r, q)
<1> DEFINE o == ToOutcome(r)
<1>1. /\ r.exit \in Exits /\ r.blank \in BOOLEAN /\ r.cut \in BOOLEAN
      /\ q.found \subseteq Ids /\ q.parsed \in BOOLEAN /\ q.items \in BOOLEAN
  BY DEF Checks, ToolResult, ParseResult
<1>2. /\ o \in Outcome
      /\ o.verdict = "Passed" => r.exit = "Success"
  BY <1>1 DEF ToOutcome, Outcome, Passed, Failed, Error
<1>3. /\ Enrich(o, r, q) \in Outcome
      /\ Enrich(o, r, q).verdict = "Passed" =>
           r.exit = "Success" /\ q.found = {} /\ (q.parsed \/ r.blank \/ r.cut)
  <2>1. CASE o.verdict = "Passed"
    BY <1>1, <1>2, <2>1 DEF Enrich, Outcome, Passed, Failed, Error
  <2>2. CASE o.verdict = "Failed"
    BY <1>1, <1>2, <2>2 DEF Enrich, Outcome, Passed, Failed, Error
  <2>3. CASE o.verdict = "Error"
    BY <1>1, <1>2, <2>3 DEF Enrich, Outcome, Passed, Failed, Error
  <2> QED BY <1>2, <2>1, <2>2, <2>3 DEF Outcome
<1>4. Passed(TRUE) \in Outcome
  BY DEF Passed, Outcome
<1>5. Skipped(c, r) => Earned(c, r, q)
  BY DEF Skipped, Earned
<1> QED BY <1>3, <1>4, <1>5 DEF RunCheck, Earned

-----------------------------------------------------------------------------
(* Where the loops are.                                                    *)

\* The loops stay inside what detection found: no check is taken that is not there.
InBounds(p) ==
  /\ pc[p] \in {"start", "read", "early", "detect"} => results[p] = <<>>
  /\ pc[p] \in {"start", "read", "early"} => projects[p] = <<>> /\ ~errors[p]
  /\ Len(results[p]) <= Len(projects[p])
  /\ pc[p] \in {"check", "emit", "run"} =>
       /\ Len(results[p]) < Len(projects[p])
       /\ Len(entries[p]) <= Len(Project(p))
  /\ pc[p] \in {"emit", "run"} => Len(entries[p]) < Len(Project(p))

PosInv == TypeOK /\ \A p \in Runs : InBounds(p)

LEMMA CheckInBounds ==
  ASSUME PosInv, NEW p \in Runs, pc[p] = "run"
  PROVE  Check(p) \in Checks
<1>1. /\ projects[p] \in Seq(Seq(Checks))
      /\ results[p] \in Seq(Seq(Entry)) /\ entries[p] \in Seq(Entry)
  BY DEF PosInv, TypeOK
<1>2. Len(results[p]) + 1 \in 1..Len(projects[p])
  BY <1>1 DEF PosInv, InBounds
<1>3. Project(p) \in Seq(Checks)
  BY <1>1, <1>2, ElementOfSeq DEF Project
<1>4. Len(entries[p]) + 1 \in 1..Len(Project(p))
  BY <1>1, <1>3 DEF PosInv, InBounds
<1> QED BY <1>3, <1>4, ElementOfSeq DEF Check

LEMMA PosInit == Init => PosInv
<1> SUFFICES ASSUME Init PROVE PosInv
  OBVIOUS
<1>1. /\ snapshot \in Snapshot
      /\ history \subseteq SUBSET Ids
  <2>1. UNION Earlier \in SUBSET Ids /\ Earlier \subseteq SUBSET Ids
    BY CheckRunAssumption
  <2>2. ASSUME NEW ids \in SUBSET Ids, NEW more \in BOOLEAN
        PROVE  [ids |-> ids, more |-> more] \in Snapshot
    BY DEF Snapshot
  <2>3. \/ snapshot = NoFile
        \/ snapshot = [ids |-> UNION Earlier, more |-> TRUE]
        \/ \E written \in Earlier : snapshot = [ids |-> written, more |-> FALSE]
    BY DEF Init
  <2>4. snapshot \in Snapshot
    BY <2>1, <2>2, <2>3, Zenon DEF NoFile
  <2> QED BY <2>1, <2>4 DEF Init
<1>2. /\ projects \in [Runs -> Seq(Seq(Checks))]
      /\ results \in [Runs -> Seq(Seq(Entry))]
      /\ entries \in [Runs -> Seq(Entry)]
  BY EmptySeq DEF Init
<1>3. TypeOK
  BY <1>1, <1>2 DEF Init, TypeOK, Steps, Codes
<1>4. ASSUME NEW p \in Runs PROVE InBounds(p)
  BY DEF Init, InBounds
<1> QED BY <1>3, <1>4 DEF PosInv

\* What a check leaves in the report is an entry, and a pass there is an earned one.
LEMMA FinishedEntry ==
  ASSUME PosInv, NEW p \in Runs, FinishCheck(p)
  PROVE  \E e \in Entry : /\ entries' = [entries EXCEPT ![p] = Append(entries[p], e)]
                          /\ e.verdict = "Passed" => e.earned
<1> DEFINE c == Check(p)
<1>1. c \in Checks
  BY CheckInBounds DEF FinishCheck, At
<1>2. CASE Record(p, Error, FALSE)
  <2>1. [verdict |-> Error.verdict, ids |-> Error.ids, earned |-> FALSE] \in Entry
    BY DEF Error, Entry
  <2>2. Error.verdict # "Passed"
    BY DEF Error
  <2> QED BY <1>2, <2>1, <2>2 DEF Record
<1>3. ASSUME NEW r \in ToolResult(c), NEW q \in ParseResult(c),
             Record(p, RunCheck(c, r, q), Earned(c, r, q))
      PROVE  \E e \in Entry : /\ entries' = [entries EXCEPT ![p] = Append(entries[p], e)]
                              /\ e.verdict = "Passed" => e.earned
  <2> DEFINE o == RunCheck(c, r, q)
             e == [verdict |-> o.verdict, ids |-> o.ids, earned |-> Earned(c, r, q)]
  <2>1. o \in Outcome /\ (o.verdict = "Passed" => Earned(c, r, q))
    BY <1>1, CheckIsEarned
  <2>2. Earned(c, r, q) \in BOOLEAN
    BY DEF Earned
  <2> HIDE DEF o
  <2>3. e \in Entry /\ (e.verdict = "Passed" => e.earned)
    BY <2>1, <2>2 DEF Outcome, Entry
  <2>4. entries' = [entries EXCEPT ![p] = Append(entries[p], e)]
    BY <1>3 DEF Record, o
  <2> QED BY <2>3, <2>4
<1> QED BY <1>2, <1>3 DEF FinishCheck

LEMMA IdsAreIds ==
  ASSUME PosInv, NEW p \in Runs
  PROVE  DiagnosticIds(p) \subseteq Ids
<1>1. results[p] \in Seq(Seq(Entry))
  BY DEF PosInv, TypeOK
<1>2. ASSUME NEW i \in 1..Len(results[p]), NEW j \in 1..Len(results[p][i])
      PROVE  results[p][i][j].ids \subseteq Ids
  <2>1. results[p][i] \in Seq(Entry) BY <1>1, ElementOfSeq
  <2>2. results[p][i][j] \in Entry BY <2>1, ElementOfSeq
  <2> QED BY <2>2 DEF Entry
<1> QED BY <1>2 DEF DiagnosticIds

\* A step of one process leaves the others where they are.
LEMMA OthersStay ==
  ASSUME NEW q \in Runs, InBounds(q), pc'[q] = pc[q], projects'[q] = projects[q],
         errors'[q] = errors[q], results'[q] = results[q], entries'[q] = entries[q]
  PROVE  InBounds(q)'
BY DEF InBounds, Project

LEMMA PosNext ==
  ASSUME PosInv, [Next]_vars
  PROVE  PosInv'
<1> USE DEF PosInv, At, Goto
<1>1. ASSUME NEW p \in Runs, Start(p) PROVE PosInv'
  <2>1. TypeOK' BY <1>1 DEF Start, TypeOK, Steps, runVars, eventVars, fileVars
  <2>2. ASSUME NEW q \in Runs PROVE InBounds(q)'
    BY <1>1 DEF Start, InBounds, Project, TypeOK, Steps, runVars
  <2> QED BY <2>1, <2>2
<1>2. ASSUME NEW p \in Runs, ReadLastCheck(p) PROVE PosInv'
  <2>1. TypeOK'
    BY <1>2 DEF ReadLastCheck, Parsed, Snapshot, TypeOK, Steps, runVars, eventVars, fileVars
  <2>2. ASSUME NEW q \in Runs PROVE InBounds(q)'
    BY <1>2 DEF ReadLastCheck, InBounds, Project, TypeOK, Steps, runVars
  <2> QED BY <2>1, <2>2
<1>3. ASSUME NEW p \in Runs, EarlyOut(p) PROVE PosInv'
  <2>1. TypeOK' BY <1>3 DEF EarlyOut, TypeOK, Steps, runVars, eventVars, fileVars
  <2>2. ASSUME NEW q \in Runs PROVE InBounds(q)'
    BY <1>3 DEF EarlyOut, InBounds, Project, TypeOK, Steps, runVars
  <2> QED BY <2>1, <2>2
<1>4. ASSUME NEW p \in Runs, Detect(p) PROVE PosInv'
  <2>1. PICK found \in Trees[p], failed \in BOOLEAN :
          /\ projects' = [projects EXCEPT ![p] = found]
          /\ errors' = [errors EXCEPT ![p] = failed]
    BY <1>4 DEF Detect
  <2>2. found \in Seq(Seq(Checks)) BY CheckRunAssumption
  <2>3. TypeOK'
    BY <1>4, <2>1, <2>2 DEF Detect, TypeOK, Steps, eventVars, fileVars
  <2>4. InBounds(p)'
    <3>1. results'[p] = <<>> /\ pc'[p] = "project" /\ projects'[p] = found
      BY <1>4, <2>1 DEF Detect, InBounds, TypeOK
    <3> QED BY <2>2, <3>1 DEF InBounds
  <2>5. ASSUME NEW q \in Runs, q # p PROVE InBounds(q)'
    BY <1>4, <2>1, <2>5, OthersStay DEF Detect, TypeOK
  <2> QED BY <2>3, <2>4, <2>5
<1>5. ASSUME NEW p \in Runs, NextProject(p) PROVE PosInv'
  <2>1. TypeOK' BY <1>5 DEF NextProject, TypeOK, Steps, eventVars, fileVars
  <2>2. InBounds(p)'
    BY <1>5, <2>1 DEF NextProject, InBounds, Project, TypeOK
  <2>3. ASSUME NEW q \in Runs, q # p PROVE InBounds(q)'
    BY <1>5, <2>3, OthersStay DEF NextProject, TypeOK
  <2> QED BY <2>1, <2>2, <2>3
<1>6. ASSUME NEW p \in Runs, NextCheck(p) PROVE PosInv'
  <2>1. CASE flag[p] \/ Len(entries[p]) = Len(Project(p))
    <3>1. /\ results' = [results EXCEPT ![p] = Append(results[p], entries[p])]
          /\ pc' = [pc EXCEPT ![p] = "project"]
      BY <1>6, <2>1 DEF NextCheck
    <3>2. /\ Append(results[p], entries[p]) \in Seq(Seq(Entry))
          /\ Len(Append(results[p], entries[p])) = Len(results[p]) + 1
      BY AppendProperties DEF TypeOK
    <3>3. TypeOK' BY <1>6, <3>1, <3>2 DEF NextCheck, TypeOK, Steps, eventVars, fileVars
    <3>4. InBounds(p)'
      BY <1>6, <3>1, <3>2 DEF NextCheck, InBounds, TypeOK
    <3>5. ASSUME NEW q \in Runs, q # p PROVE InBounds(q)'
      BY <1>6, <3>1, <3>5, OthersStay DEF NextCheck, TypeOK
    <3> QED BY <3>3, <3>4, <3>5
  <2>2. CASE ~flag[p] /\ Len(entries[p]) # Len(Project(p))
    <3>1. TypeOK' BY <1>6, <2>2 DEF NextCheck, TypeOK, Steps, eventVars, fileVars
    <3>2. InBounds(p)'
      <4>1. Project(p) \in Seq(Checks)
        BY <1>6, ElementOfSeq DEF NextCheck, InBounds, Project, TypeOK
      <4>2. Len(Project(p)) \in Nat /\ Len(entries[p]) \in Nat
        BY <4>1, LenProperties DEF TypeOK
      <4> QED BY <1>6, <2>2, <4>2 DEF NextCheck, InBounds, Project, TypeOK
    <3>3. ASSUME NEW q \in Runs, q # p PROVE InBounds(q)'
      BY <1>6, <2>2, <3>3, OthersStay DEF NextCheck, TypeOK
    <3> QED BY <3>1, <3>2, <3>3
  <2> QED BY <2>1, <2>2
<1>7. ASSUME NEW p \in Runs, EmitStart(p) PROVE PosInv'
  <2>1. CASE flag[p]
    <3>1. /\ results' = [results EXCEPT ![p] = Append(results[p], entries[p])]
          /\ pc' = [pc EXCEPT ![p] = "project"]
      BY <1>7, <2>1 DEF EmitStart
    <3>2. /\ Append(results[p], entries[p]) \in Seq(Seq(Entry))
          /\ Len(Append(results[p], entries[p])) = Len(results[p]) + 1
      BY AppendProperties DEF TypeOK
    <3>3. TypeOK' BY <1>7, <2>1, <3>1, <3>2 DEF EmitStart, TypeOK, Steps, fileVars
    <3>4. InBounds(p)'
      BY <1>7, <3>1, <3>2 DEF EmitStart, InBounds, TypeOK
    <3>5. ASSUME NEW q \in Runs, q # p PROVE InBounds(q)'
      BY <1>7, <3>1, <3>5, OthersStay DEF EmitStart, TypeOK
    <3> QED BY <3>3, <3>4, <3>5
  <2>2. CASE ~flag[p]
    <3>1. /\ started' = [started EXCEPT ![p] = @ + 1]
          /\ pc' = [pc EXCEPT ![p] = "run"]
          /\ UNCHANGED results
      BY <1>7, <2>2 DEF EmitStart
    <3>2. started' \in [Runs -> Nat] /\ pc' \in [Runs -> Steps]
      BY <3>1 DEF TypeOK, Steps
    <3>3. TypeOK' BY <1>7, <3>1, <3>2 DEF EmitStart, TypeOK, fileVars
    <3>4. ASSUME NEW q \in Runs PROVE InBounds(q)'
      BY <1>7, <2>2 DEF EmitStart, InBounds, Project, TypeOK
    <3> QED BY <3>3, <3>4
  <2> QED BY <2>1, <2>2
<1>8. ASSUME NEW p \in Runs, FinishCheck(p) PROVE PosInv'
  <2>1. PICK e \in Entry : entries' = [entries EXCEPT ![p] = Append(entries[p], e)]
    BY <1>8, FinishedEntry, Zenon DEF PosInv
  <2>2. /\ Append(entries[p], e) \in Seq(Entry)
        /\ Len(Append(entries[p], e)) = Len(entries[p]) + 1
    BY AppendProperties DEF TypeOK
  <2>3. TypeOK' BY <1>8, <2>1, <2>2 DEF FinishCheck, TypeOK, Steps, fileVars
  <2>4. InBounds(p)'
    <3>1. Project(p) \in Seq(Checks)
      BY <1>8, ElementOfSeq DEF FinishCheck, InBounds, Project, TypeOK
    <3>2. Len(Project(p)) \in Nat /\ Len(entries[p]) \in Nat
      BY <3>1, LenProperties DEF TypeOK
    <3> QED BY <1>8, <2>1, <2>2, <3>2 DEF FinishCheck, InBounds, Project, TypeOK
  <2>5. ASSUME NEW q \in Runs, q # p PROVE InBounds(q)'
    BY <1>8, <2>1, <2>5, OthersStay DEF FinishCheck, TypeOK
  <2> QED BY <2>3, <2>4, <2>5
<1>9. ASSUME NEW p \in Runs, WriteStep(p) PROVE PosInv'
  <2> USE DEF InBounds, Project, TypeOK, Steps
  <2>1. ASSUME NEW q \in Runs PROVE InBounds(q)'
    BY <1>9 DEF WriteStep, Truncate, Fill, ChooseCode, Leave, runVars
  <2>2. CASE Truncate(p)
    <3>1. NoFile \in Snapshot BY DEF NoFile, Snapshot
    <3>2. TypeOK' BY <2>2, <3>1 DEF Truncate, runVars, eventVars
    <3> QED BY <2>1, <3>2
  <2>3. CASE Fill(p)
    <3>1. DiagnosticIds(p) \subseteq Ids BY IdsAreIds DEF PosInv
    <3>2. ASSUME NEW rest \in SUBSET snapshot.ids, NEW more \in BOOLEAN
          PROVE  [ids |-> DiagnosticIds(p) \cup rest, more |-> more] \in Snapshot
      BY <3>1 DEF Snapshot
    <3>3. [ids |-> DiagnosticIds(p), more |-> FALSE] \in Snapshot
      BY <3>1 DEF Snapshot
    <3>4. snapshot' \in Snapshot /\ history' \subseteq SUBSET Ids
      <4>0. history' \subseteq SUBSET Ids
        <5>1. history' = history \/ history' = history \cup {DiagnosticIds(p)}
          BY <2>3 DEF Fill, fileVars
        <5>2. history \subseteq SUBSET Ids
          OBVIOUS
        <5> QED BY ONLY <3>1, <5>1, <5>2
      <4>1. CASE UNCHANGED fileVars
        BY <4>1 DEF fileVars
      <4>2. CASE snapshot' = [ids |-> DiagnosticIds(p), more |-> FALSE]
        BY <3>3, <4>0, <4>2
      <4>3. ASSUME NEW rest \in SUBSET snapshot.ids,
                   snapshot' = [ids |-> DiagnosticIds(p) \cup rest, more |-> TRUE]
            PROVE  snapshot' \in Snapshot
        BY <3>2, <4>3, Zenon
      <4> QED BY <2>3, <4>0, <4>1, <4>2, <4>3 DEF Fill
    <3>5. TypeOK' BY <2>3, <3>4 DEF Fill, runVars, eventVars
    <3> QED BY <2>1, <3>5
  <2>4. CASE ChooseCode(p)
    <3>1. TypeOK'
      BY <2>4 DEF ChooseCode, CheckCode, HookCode, Codes, runVars, eventVars, fileVars
    <3> QED BY <2>1, <3>1
  <2>5. CASE Leave(p)
    <3>1. TypeOK' BY <2>5 DEF Leave, Codes, runVars, eventVars, fileVars
    <3> QED BY <2>1, <3>1
  <2> QED BY <1>9, <2>2, <2>3, <2>4, <2>5 DEF WriteStep
<1>10. ASSUME NEW p \in Runs, Interrupt(p) \/ HandlerExit(p) PROVE PosInv'
  <2>1. TypeOK'
    BY <1>10 DEF Interrupt, HandlerExit, TypeOK, Codes, runVars, eventVars, fileVars
  <2>2. ASSUME NEW q \in Runs PROVE InBounds(q)'
    BY <1>10 DEF Interrupt, HandlerExit, InBounds, Project, runVars
  <2> QED BY <2>1, <2>2
<1>11. CASE UNCHANGED vars
  <2>1. TypeOK' BY <1>11 DEF vars, TypeOK, runVars, eventVars, fileVars
  <2>2. ASSUME NEW q \in Runs PROVE InBounds(q)'
    BY <1>11 DEF vars, InBounds, Project, runVars
  <2> QED BY <2>1, <2>2
<1> QED
  BY <1>1, <1>2, <1>3, <1>4, <1>5, <1>6, <1>7, <1>8, <1>9, <1>10, <1>11 DEF Next, CheckStep

\* The fields of the report have their types, and the loops of the check never leave
\* the projects that detection found (o8v-check/src/lib.rs:94-203).
THEOREM TypeCorrect == Spec => []TypeOK
<1>1. PosInv => TypeOK BY DEF PosInv
<1> QED BY PosInit, PosNext, <1>1, PTL DEF Spec

-----------------------------------------------------------------------------
(* Events.                                                                 *)

LEMMA PairedNext ==
  ASSUME PosInv, Paired, [Next]_vars
  PROVE  Paired'
<1> SUFFICES ASSUME NEW q \in Runs
             PROVE  started'[q] = finished'[q] + (IF pc'[q] = "run" THEN 1 ELSE 0)
  BY DEF Paired
<1> USE DEF Paired, PosInv, TypeOK, At, Goto
<1>1. ASSUME NEW p \in Runs, EmitStart(p)
      PROVE  started'[q] = finished'[q] + (IF pc'[q] = "run" THEN 1 ELSE 0)
  BY <1>1 DEF EmitStart
<1>2. ASSUME NEW p \in Runs, FinishCheck(p)
      PROVE  started'[q] = finished'[q] + (IF pc'[q] = "run" THEN 1 ELSE 0)
  BY <1>2 DEF FinishCheck
<1>3. ASSUME NEW p \in Runs, WriteStep(p) \/ Interrupt(p) \/ HandlerExit(p)
      PROVE  started'[q] = finished'[q] + (IF pc'[q] = "run" THEN 1 ELSE 0)
  BY <1>3 DEF WriteStep, Truncate, Fill, ChooseCode, Leave, Interrupt, HandlerExit, eventVars
<1>4. ASSUME NEW p \in Runs, Start(p) \/ ReadLastCheck(p) \/ EarlyOut(p) \/ Detect(p)
                               \/ NextProject(p) \/ NextCheck(p)
      PROVE  started'[q] = finished'[q] + (IF pc'[q] = "run" THEN 1 ELSE 0)
  BY <1>4 DEF Start, ReadLastCheck, EarlyOut, Detect, NextProject, NextCheck, eventVars
<1>5. CASE UNCHANGED vars
  BY <1>5 DEF vars, eventVars
<1> QED BY <1>1, <1>2, <1>3, <1>4, <1>5 DEF Next, CheckStep

\* No interrupt, failure or panic leaves a CheckStart without its CheckDone: at most
\* the check that is running is open.
THEOREM PairedCorrect == Spec => []Paired
<1>1. Init => Paired BY DEF Init, Paired
<1> QED BY PosInit, PosNext, <1>1, PairedNext, PTL DEF Spec

-----------------------------------------------------------------------------
(* The exit code.                                                          *)

\* Every pass in the report is earned.
PassesEarned(p) ==
  /\ \A j \in 1..Len(entries[p]) :
       entries[p][j].verdict = "Passed" => entries[p][j].earned
  /\ \A i \in 1..Len(results[p]) : \A j \in 1..Len(results[p][i]) :
       results[p][i][j].verdict = "Passed" => results[p][i][j].earned

\* As long as the flag is down nothing was left out.
WholeProjects(p) == \A i \in 1..Len(results[p]) : Len(results[p][i]) = Len(projects[p][i])
AllProjects(p) == Len(results[p]) = Len(projects[p])
NothingSkipped(p) ==
  ~flag[p] =>
    /\ WholeProjects(p)
    /\ pc[p] \in {"truncate", "fill", "code", "leave", "done"} => AllProjects(p)

\* Only the handler raises the flag.
FlagIsSignal(p) == flag[p] => signal[p] # "none"

\* The report that an exit with 0 answers for.  The hook chose it with the flag down.
OkIsOk(p) ==
  /\ code[p] = "ok" =>
       /\ pc[p] \in {"leave", "done"}
       /\ IsOk(p) \/ (p \in HookRuns /\ NothingFound(p))
       /\ p \in HookRuns => WholeProjects(p) /\ AllProjects(p)
  /\ exit[p] = "ok" => pc[p] = "done" /\ code[p] = "ok"

Answerable(p) == PassesEarned(p) /\ NothingSkipped(p) /\ FlagIsSignal(p) /\ OkIsOk(p)

LEMMA AnswerableEnough ==
  ASSUME PosInv, \A p \in Runs : Answerable(p)
  PROVE  SuccessIsEarned
<1> SUFFICES ASSUME NEW p \in Runs, exit[p] = "ok", signal[p] = "none" \/ p \in HookRuns
             PROVE  AllEarned(p) \/ (p \in HookRuns /\ projects[p] = <<>> /\ ~errors[p])
  BY DEF SuccessIsEarned
<1>1. pc[p] = "done" /\ code[p] = "ok"
  BY DEF Answerable, OkIsOk
<1>2. /\ Len(results[p]) = Len(projects[p])
      /\ \A i \in 1..Len(results[p]) : Len(results[p][i]) = Len(projects[p][i])
  <2>1. CASE p \in HookRuns
    BY <1>1, <2>1 DEF Answerable, OkIsOk, WholeProjects, AllProjects
  <2>2. CASE signal[p] = "none"
    BY <1>1, <2>2 DEF Answerable, FlagIsSignal, NothingSkipped, WholeProjects, AllProjects
  <2> QED BY <2>1, <2>2
<1>3. projects[p] \in Seq(Seq(Checks)) /\ results[p] \in Seq(Seq(Entry))
  BY DEF PosInv, TypeOK
<1>4. results[p] = <<>> <=> projects[p] = <<>>
  BY <1>2, <1>3, EmptySeq
<1>5. CASE IsOk(p)
  <2>1. projects[p] # <<>> /\ ~errors[p]
    BY <1>4, <1>5 DEF IsOk
  <2>2. ASSUME NEW i \in 1..Len(projects[p]), NEW j \in 1..Len(projects[p][i])
        PROVE  results[p][i][j].earned
    BY <1>2, <1>5 DEF IsOk, Answerable, PassesEarned
  <2> QED BY <1>2, <2>1, <2>2 DEF AllEarned
<1>6. CASE p \in HookRuns /\ NothingFound(p)
  BY <1>4, <1>6 DEF NothingFound
<1> QED BY <1>1, <1>5, <1>6 DEF Answerable, OkIsOk

\* What the four parts say of a process is about its own fields only.
LEMMA OthersAnswerable ==
  ASSUME NEW q \in Runs, Answerable(q), pc'[q] = pc[q], flag'[q] = flag[q],
         signal'[q] = signal[q], code'[q] = code[q], exit'[q] = exit[q], projects'[q] = projects[q],
         errors'[q] = errors[q], results'[q] = results[q], entries'[q] = entries[q]
  PROVE  Answerable(q)'
BY DEF Answerable, PassesEarned, NothingSkipped, WholeProjects, AllProjects, FlagIsSignal,
       OkIsOk, IsOk, NothingFound

\* The project in hand goes to the report, whole unless the flag is up.
LEMMA PushAnswerable ==
  ASSUME PosInv, NEW p \in Runs, Answerable(p), pc[p] \in {"check", "emit"}, exit[p] = "none",
         flag[p] \/ Len(entries[p]) = Len(Project(p)),
         results' = [results EXCEPT ![p] = Append(results[p], entries[p])],
         pc' = [pc EXCEPT ![p] = "project"],
         UNCHANGED <<signal, flag, code, exit, projects, errors, entries>>
  PROVE  Answerable(p)'
<1> DEFINE new == Append(results[p], entries[p])
<1>1. results[p] \in Seq(Seq(Entry)) /\ entries[p] \in Seq(Entry) /\ results'[p] = new
  BY DEF PosInv, TypeOK
<1>2. /\ Len(new) = Len(results[p]) + 1
      /\ Len(results[p]) \in Nat
      /\ \A i \in 1..Len(results[p]) : new[i] = results[p][i]
      /\ new[Len(results[p]) + 1] = entries[p]
  BY <1>1, AppendProperties, LenProperties
<1> HIDE DEF new
<1>3. PassesEarned(p)'
  <2>1. ASSUME NEW i \in 1..Len(new), NEW j \in 1..Len(new[i]), new[i][j].verdict = "Passed"
        PROVE  new[i][j].earned
    <3>1. CASE i \in 1..Len(results[p])
      BY <1>2, <2>1, <3>1 DEF Answerable, PassesEarned
    <3>2. CASE i = Len(results[p]) + 1
      BY <1>2, <2>1, <3>2 DEF Answerable, PassesEarned
    <3> QED BY <1>2, <3>1, <3>2
  <2> QED BY <1>1, <2>1 DEF Answerable, PassesEarned
<1>4. NothingSkipped(p)'
  <2>1. pc'[p] = "project" BY DEF PosInv, TypeOK
  <2>2. ASSUME ~flag[p], NEW i \in 1..Len(new)
        PROVE  Len(new[i]) = Len(projects[p][i])
    <3>1. CASE i \in 1..Len(results[p])
      BY <1>2, <2>2, <3>1 DEF Answerable, NothingSkipped, WholeProjects
    <3>2. CASE i = Len(results[p]) + 1
      BY <1>2, <2>2, <3>2 DEF Project
    <3> QED BY <1>2, <3>1, <3>2
  <2> QED BY <1>1, <2>1, <2>2 DEF NothingSkipped, WholeProjects, AllProjects
<1>5. FlagIsSignal(p)' /\ OkIsOk(p)'
  BY DEF Answerable, FlagIsSignal, OkIsOk, WholeProjects, AllProjects
<1> QED BY <1>3, <1>4, <1>5 DEF Answerable

\* What is said of the report does not change while the report does not.
LEMMA SameReport ==
  ASSUME NEW p \in Runs, results'[p] = results[p], entries'[p] = entries[p],
         projects'[p] = projects[p], errors'[p] = errors[p]
  PROVE  /\ PassesEarned(p)' <=> PassesEarned(p)
         /\ WholeProjects(p)' <=> WholeProjects(p)
         /\ AllProjects(p)' <=> AllProjects(p)
         /\ IsOk(p)' <=> IsOk(p)
         /\ NothingFound(p)' <=> NothingFound(p)
BY DEF PassesEarned, WholeProjects, AllProjects, IsOk, NothingFound

\* One step of the check loop, of the process it belongs to.
LEMMA CheckAnswerable ==
  ASSUME PosInv, NEW q \in Runs, Answerable(q), CheckStep(q)
  PROVE  Answerable(q)'
<1> USE DEF At, Goto, Answerable, NothingSkipped, FlagIsSignal, OkIsOk
<1>0. /\ pc \in [Runs -> Steps] /\ flag \in [Runs -> BOOLEAN]
      /\ projects \in [Runs -> Seq(Seq(Checks))] /\ errors \in [Runs -> BOOLEAN]
      /\ results \in [Runs -> Seq(Seq(Entry))] /\ entries \in [Runs -> Seq(Entry)]
  BY DEF PosInv, TypeOK
<1> USE <1>0
<1>1. CASE Start(q)
  <2>1. WholeProjects(q)
    BY <1>1 DEF Start, PosInv, InBounds, WholeProjects
  <2> QED BY <1>1, <2>1, SameReport DEF Start, runVars
<1>2. CASE ReadLastCheck(q)
  BY <1>2, SameReport DEF ReadLastCheck, runVars
<1>3. CASE EarlyOut(q)
  BY <1>3, SameReport DEF EarlyOut, runVars
<1>4. CASE Detect(q)
  <2>1. results[q] = <<>> /\ results' = results /\ entries' = entries
    BY <1>4 DEF Detect, PosInv, InBounds
  <2>2. PassesEarned(q)' /\ WholeProjects(q)'
    BY <2>1 DEF PassesEarned, WholeProjects
  <2>3. pc[q] = "detect" /\ pc'[q] = "project" /\ UNCHANGED <<flag, signal, code, exit>>
    BY <1>4 DEF Detect
  <2> QED BY <1>4, <2>2, <2>3
<1>5. CASE NextProject(q)
  <2>1. entries'[q] = <<>> /\ results'[q] = results[q]
    BY <1>5 DEF NextProject
  <2>2. PassesEarned(q)'
    <3>1. \A j \in 1..Len(entries'[q]) : FALSE
      BY <2>1
    <3>2. \A i \in 1..Len(results'[q]) : \A j \in 1..Len(results'[q][i]) :
            results'[q][i][j].verdict = "Passed" => results'[q][i][j].earned
      BY <2>1 DEF PassesEarned
    <3> QED BY <3>1, <3>2 DEF PassesEarned
  <2>3. (WholeProjects(q)' <=> WholeProjects(q)) /\ (AllProjects(q)' <=> AllProjects(q))
    BY <1>5 DEF NextProject, WholeProjects, AllProjects
  <2>4. /\ pc'[q] = "truncate" => flag[q] \/ AllProjects(q)
        /\ pc[q] = "project" /\ pc'[q] \in {"truncate", "check"}
        /\ UNCHANGED <<flag, signal, code, exit>>
    BY <1>5 DEF NextProject, AllProjects
  <2> QED BY <1>5, <2>2, <2>3, <2>4
<1>6. CASE NextCheck(q)
  <2>1. CASE flag[q] \/ Len(entries[q]) = Len(Project(q))
    BY <1>6, <2>1, PushAnswerable DEF NextCheck
  <2>2. CASE ~(flag[q] \/ Len(entries[q]) = Len(Project(q)))
    BY <1>6, <2>2, SameReport DEF NextCheck
  <2> QED BY <2>1, <2>2
<1>7. CASE EmitStart(q)
  <2>1. CASE flag[q]
    BY <1>7, <2>1, PushAnswerable DEF EmitStart
  <2>2. CASE ~flag[q]
    BY <1>7, <2>2, SameReport DEF EmitStart
  <2> QED BY <2>1, <2>2
<1>8. CASE FinishCheck(q)
  <2>1. PICK e \in Entry : /\ entries' = [entries EXCEPT ![q] = Append(entries[q], e)]
                           /\ e.verdict = "Passed" => e.earned
    BY <1>8, FinishedEntry, Zenon
  <2> DEFINE new == Append(entries[q], e)
  <2>2. /\ Len(entries[q]) \in Nat
        /\ Len(new) = Len(entries[q]) + 1
        /\ \A j \in 1..Len(entries[q]) : new[j] = entries[q][j]
        /\ new[Len(entries[q]) + 1] = e
    BY AppendProperties, LenProperties
  <2>3. entries'[q] = new /\ results' = results
    BY <1>8, <2>1 DEF FinishCheck
  <2> HIDE DEF new
  <2>4. ASSUME NEW j \in 1..Len(new), new[j].verdict = "Passed"
        PROVE  new[j].earned
    <3>1. CASE j \in 1..Len(entries[q])
      BY <2>2, <2>4, <3>1 DEF PassesEarned
    <3>2. CASE j = Len(entries[q]) + 1
      BY <2>1, <2>2, <2>4, <3>2
    <3>3. j \in 1..Len(entries[q]) \/ j = Len(entries[q]) + 1
      BY ONLY <2>2, j \in 1..Len(new)
    <3> QED BY <3>1, <3>2, <3>3
  <2>5. PassesEarned(q)'
    BY <2>2, <2>3, <2>4 DEF PassesEarned
  <2>6. WholeProjects(q)' <=> WholeProjects(q)
    BY <1>8, <2>3 DEF FinishCheck, WholeProjects
  <2>7. pc'[q] = "check" /\ UNCHANGED <<flag, signal, code, exit>>
    BY <1>8 DEF FinishCheck
  <2> QED BY <1>8, <2>5, <2>6, <2>7 DEF FinishCheck
<1> QED BY <1>1, <1>2, <1>3, <1>4, <1>5, <1>6, <1>7, <1>8 DEF CheckStep

\* The steps after the loop, and those of the handler.
LEMMA EndAnswerable ==
  ASSUME PosInv, NEW q \in Runs, Answerable(q), WriteStep(q) \/ Interrupt(q) \/ HandlerExit(q)
  PROVE  Answerable(q)'
<1> USE DEF At, Goto, Answerable, NothingSkipped, FlagIsSignal, OkIsOk
<1>0. /\ pc \in [Runs -> Steps] /\ signal \in [Runs -> {"none", "caught"}]
      /\ flag \in [Runs -> BOOLEAN] /\ code \in [Runs -> Codes] /\ exit \in [Runs -> Codes]
  BY DEF PosInv, TypeOK
<1>1. /\ PassesEarned(q)' <=> PassesEarned(q)
      /\ WholeProjects(q)' <=> WholeProjects(q)
      /\ AllProjects(q)' <=> AllProjects(q)
      /\ IsOk(q)' <=> IsOk(q)
      /\ NothingFound(q)' <=> NothingFound(q)
  BY SameReport
     DEF WriteStep, Truncate, Fill, ChooseCode, Leave, Interrupt, HandlerExit, runVars
<1> USE <1>0, <1>1
<1>2. CASE Truncate(q)    BY <1>2 DEF Truncate
<1>3. CASE Fill(q)        BY <1>3 DEF Fill
<1>4. CASE ChooseCode(q)  BY <1>4 DEF ChooseCode, CheckCode, HookCode
<1>5. CASE Leave(q)       BY <1>5 DEF Leave
<1>6. CASE Interrupt(q)   BY <1>6 DEF Interrupt
<1>7. CASE HandlerExit(q) BY <1>7 DEF HandlerExit
<1> QED BY <1>2, <1>3, <1>4, <1>5, <1>6, <1>7 DEF WriteStep

LEMMA AnswerableNext ==
  ASSUME PosInv, \A p \in Runs : Answerable(p), [Next]_vars
  PROVE  \A p \in Runs : Answerable(p)'
<1> SUFFICES ASSUME NEW q \in Runs PROVE Answerable(q)'
  OBVIOUS
<1>0. /\ pc \in [Runs -> Steps] /\ signal \in [Runs -> {"none", "caught"}]
      /\ flag \in [Runs -> BOOLEAN] /\ code \in [Runs -> Codes] /\ exit \in [Runs -> Codes]
      /\ projects \in [Runs -> Seq(Seq(Checks))] /\ errors \in [Runs -> BOOLEAN]
      /\ results \in [Runs -> Seq(Seq(Entry))] /\ entries \in [Runs -> Seq(Entry)]
  BY DEF PosInv, TypeOK
<1>1. ASSUME NEW p \in Runs, CheckStep(p), p # q PROVE Answerable(q)'
  BY <1>0, <1>1, OthersAnswerable
     DEF CheckStep, Start, ReadLastCheck, EarlyOut, Detect, NextProject, NextCheck, EmitStart,
         FinishCheck, Record, Goto, runVars
<1>2. ASSUME NEW p \in Runs, WriteStep(p) \/ Interrupt(p) \/ HandlerExit(p), p # q
      PROVE  Answerable(q)'
  BY <1>0, <1>2, OthersAnswerable
     DEF WriteStep, Truncate, Fill, ChooseCode, Leave, Interrupt, HandlerExit, Goto, runVars
<1>3. CASE UNCHANGED vars
  BY <1>3, OthersAnswerable DEF vars, runVars
<1> QED BY <1>1, <1>2, <1>3, CheckAnswerable, EndAnswerable DEF Next

\* Exit code 0, of a check no signal reached and of a hook always, answers for every
\* check of every project found: none failed, none was skipped, none could not run.
THEOREM SuccessIsEarnedCorrect == Spec => []SuccessIsEarned
<1>1. Init => \A p \in Runs : Answerable(p)
  BY DEF Init, Answerable, PassesEarned, NothingSkipped, WholeProjects, AllProjects,
         FlagIsSignal, OkIsOk
<1>2. PosInv /\ (\A p \in Runs : Answerable(p)) /\ [Next]_vars => (\A p \in Runs : Answerable(p))'
  BY AnswerableNext
<1>3. PosInv /\ (\A p \in Runs : Answerable(p)) => SuccessIsEarned
  BY AnswerableEnough
<1> QED BY PosInit, PosNext, <1>1, <1>2, <1>3, PTL DEF Spec

-----------------------------------------------------------------------------
(* The snapshot.                                                           *)

\* A file that parses holds what one run wrote.
ParsesAsWritten == ~snapshot.more => snapshot.ids = {} \/ snapshot.ids \in history

LEMMA SnapshotNext ==
  ASSUME TypeOK, ParsesAsWritten, PreviousWasWritten, [Next]_vars
  PROVE  ParsesAsWritten' /\ PreviousWasWritten'
<1> USE DEF ParsesAsWritten, PreviousWasWritten
<1>1. ASSUME NEW p \in Runs, ReadLastCheck(p)
      PROVE  ParsesAsWritten' /\ PreviousWasWritten'
  <2>1. previous' = [previous EXCEPT ![p] = Parsed(snapshot)] /\ UNCHANGED <<snapshot, history>>
    BY <1>1 DEF ReadLastCheck, fileVars
  <2>2. Parsed(snapshot) = {} \/ Parsed(snapshot) \in history
    BY DEF Parsed
  <2> QED BY <2>1, <2>2 DEF TypeOK
<1>2. ASSUME NEW p \in Runs, Truncate(p)
      PROVE  ParsesAsWritten' /\ PreviousWasWritten'
  <2>1. /\ snapshot' = snapshot \/ snapshot' = [ids |-> {}, more |-> FALSE]
        /\ UNCHANGED <<history, previous>>
    BY <1>2 DEF Truncate, NoFile
  <2> QED BY <2>1
<1>3. ASSUME NEW p \in Runs, Fill(p)
      PROVE  ParsesAsWritten' /\ PreviousWasWritten'
  <2>1. previous' = previous /\ history \subseteq history'
    BY <1>3 DEF Fill, fileVars
  <2>2. \/ UNCHANGED <<snapshot, history>>
        \/ snapshot'.more = TRUE
        \/ snapshot'.ids = DiagnosticIds(p) /\ DiagnosticIds(p) \in history'
    BY <1>3 DEF Fill, fileVars
  <2> QED BY <2>1, <2>2
<1>4. ASSUME NEW p \in Runs, Start(p) \/ EarlyOut(p) \/ Detect(p) \/ NextProject(p) \/ NextCheck(p)
                               \/ EmitStart(p) \/ FinishCheck(p) \/ ChooseCode(p) \/ Leave(p)
                               \/ Interrupt(p) \/ HandlerExit(p)
      PROVE  ParsesAsWritten' /\ PreviousWasWritten'
  <2>1. UNCHANGED <<previous, snapshot, history>>
    BY <1>4
       DEF Start, EarlyOut, Detect, NextProject, NextCheck, EmitStart, FinishCheck, ChooseCode,
           Leave, Interrupt, HandlerExit, fileVars
  <2> QED BY <2>1
<1>5. CASE UNCHANGED vars
  BY <1>5 DEF vars, fileVars
<1> QED BY <1>1, <1>2, <1>3, <1>4, <1>5 DEF Next, CheckStep, WriteStep

\* Whatever overlaps, dies or fails, a check compares itself with the result of one run.
THEOREM PreviousWasWrittenCorrect == Spec => []PreviousWasWritten
<1>1. Init => ParsesAsWritten /\ PreviousWasWritten
  BY DEF Init, NoFile, ParsesAsWritten, PreviousWasWritten
<1> QED BY TypeCorrect, <1>1, SnapshotNext, PTL DEF Spec
=============================================================================
