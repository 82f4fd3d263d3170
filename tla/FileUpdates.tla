----------------------------- MODULE FileUpdates -----------------------------
(***************************************************************************)
(* Several `8v write` at work on one file (o8v/src/commands/write.rs,      *)
(* o8v-fs/src/write_guard.rs).                                             *)
(*                                                                         *)
(* An edit reads the file, computes the new text and writes it back by     *)
(* fs::write, which truncates first; nothing is locked.  An append holds   *)
(* an exclusive lock from its reading of the file to its last write.       *)
(***************************************************************************)
EXTENDS WriteText

CONSTANTS
  Procs,   \* the processes, one `8v write` each
  Menu,    \* Menu[p]: the arguments p may be called with
  Texts,   \* what the file may hold at first
  Faults   \* "crash": a process may be killed at any point

Chars == {"LF", "CR", "BS", "n", "a", "b"}

ASSUME FileUpdatesAssumption ==
  /\ Texts \subseteq Seq(Chars)
  /\ \A p \in Procs :
       Menu[p] \subseteq [suffix : {s \in Seq(Nat \cup {NaN}) : Len(s) <= 2},
                          flags : SUBSET {"insert", "delete", "append", "force", "all"},
                          content : Seq(Seq(Chars)), find : Seq(Seq(Chars)), replace : Seq(Seq(Chars))]

VARIABLES
  exists,  \* the file is there
  text,    \* what it holds
  lock,    \* who holds its lock: a set of at most one process
  pc,      \* where each process is
  op,      \* what it was asked for
  seen,    \* the text it read
  new,     \* the text it will write
  serial   \* what the appends that are through would have made of the text at the
           \* start, one after the other (history)

vars == <<exists, text, lock, pc, op, seen, new, serial>>
fileVars == <<exists, text>>

Steps == {"idle", "look", "read", "truncate", "fill", "open", "lock", "tail",
          "separate", "content", "terminate", "unlock"}
Ended == {"done", "failed", "crashed"}

TypeOK ==
  /\ exists \in BOOLEAN /\ lock \in SUBSET Procs
  /\ pc \in [Procs -> Steps \cup Ended]
  /\ \A t \in {text, serial} \cup {seen[p] : p \in Procs} \cup {new[p] : p \in Procs} :
       ToSet(t) \subseteq Chars

Init ==
  /\ text \in Texts /\ serial = text
  /\ exists \in IF text = <<>> THEN BOOLEAN ELSE {TRUE}
  /\ lock = {}
  /\ pc = [p \in Procs |-> "idle"]
  /\ op = [p \in Procs |-> Refused]
  /\ seen = [p \in Procs |-> <<>>] /\ new = [p \in Procs |-> <<>>]

Goto(p, step) == pc' = [pc EXCEPT ![p] = step]

-----------------------------------------------------------------------------
(* Arguments *)

FirstStep(o) ==
  CASE o.kind = "refused" -> "failed"
    [] o.kind = "create" -> IF o.content = <<>> THEN "failed"
                            ELSE IF o.force THEN "truncate" ELSE "look"
    [] o.kind = "append" -> "open"
    [] OTHER -> "read"

Begin(p) ==
  /\ pc[p] = "idle"
  /\ \E a \in Menu[p] :
       LET o == ValidateArgs(a)
       IN  /\ op' = [op EXCEPT ![p] = o]
           /\ Goto(p, FirstStep(o))
           /\ new' = IF o.kind = "create" THEN [new EXCEPT ![p] = o.content] ELSE new
  /\ UNCHANGED <<fileVars, lock, seen, serial>>

-----------------------------------------------------------------------------
(* Edits *)

\* A new file: no overwriting without --force.
Look(p) ==
  /\ pc[p] = "look"
  /\ Goto(p, IF exists THEN "failed" ELSE "truncate")
  /\ UNCHANGED <<fileVars, lock, op, seen, new, serial>>

\* safe_read, and what is done with the text before it is written.
Read(p) ==
  /\ pc[p] = "read"
  /\ LET e == IF exists THEN Edit(op[p], text) ELSE Failed
     IN  /\ Goto(p, IF e.ok THEN "truncate" ELSE "failed")
         /\ new' = IF e.ok THEN [new EXCEPT ![p] = e.text] ELSE new
  /\ seen' = [seen EXCEPT ![p] = text]
  /\ UNCHANGED <<fileVars, lock, op, serial>>

Truncate(p) ==
  /\ pc[p] = "truncate"
  /\ exists' = TRUE /\ text' = <<>>
  /\ Goto(p, "fill")
  /\ UNCHANGED <<lock, op, seen, new, serial>>

\* The write begins at the start of the file: what others put there meanwhile
\* and is longer sticks out.
Fill(p) ==
  /\ pc[p] = "fill"
  /\ text' = new[p] \o SubSeq(text, Len(new[p]) + 1, Len(text))
  /\ Goto(p, "done")
  /\ UNCHANGED <<exists, lock, op, seen, new, serial>>

-----------------------------------------------------------------------------
(* Appends *)

Open(p) ==
  /\ pc[p] = "open"
  /\ Goto(p, IF exists /\ ~HasCR(op[p].content) THEN "lock" ELSE "failed")
  /\ UNCHANGED <<fileVars, lock, op, seen, new, serial>>

\* Mutation for AppendsAreSerial: the lock is shared.
LockShared(p) ==
  /\ pc[p] = "lock"
  /\ lock' = lock \cup {p} /\ Goto(p, "tail")
  /\ UNCHANGED <<fileVars, op, seen, new, serial>>

Lock(p) ==
  /\ pc[p] = "lock" /\ lock = {}
  /\ lock' = {p} /\ Goto(p, "tail")
  /\ UNCHANGED <<fileVars, op, seen, new, serial>>

ReadTail(p) ==
  /\ pc[p] = "tail"
  /\ seen' = [seen EXCEPT ![p] = text]
  /\ IF ValidEndings(text) THEN Goto(p, "separate") /\ UNCHANGED lock
     ELSE Goto(p, "failed") /\ lock' = lock \ {p}
  /\ UNCHANGED <<fileVars, op, new, serial>>

\* One write of an append goes to the end of the file, wherever that is by then.
Write(p, step, what, next) ==
  /\ pc[p] = step
  /\ text' = text \o what /\ Goto(p, next)
  /\ UNCHANGED <<exists, lock, op, seen, new, serial>>

WriteSeparator(p)  == Write(p, "separate", Separator(seen[p]), "content")
WriteContent(p)    == Write(p, "content", Normalised(op[p].content, seen[p]), "terminate")
WriteTerminator(p) ==
  Write(p, "terminate", Terminator(op[p].content, seen[p]), "unlock")

Unlock(p) ==
  /\ pc[p] = "unlock"
  /\ lock' = lock \ {p} /\ Goto(p, "done")
  /\ serial' = AppendText(op[p].content, serial)
  /\ UNCHANGED <<fileVars, op, seen, new>>

-----------------------------------------------------------------------------

\* The file is closed, and its lock gone with it.
Crash(p) ==
  /\ "crash" \in Faults /\ pc[p] \in Steps \ {"idle"}
  /\ Goto(p, "crashed") /\ lock' = lock \ {p}
  /\ UNCHANGED <<fileVars, op, seen, new, serial>>

Step(p) ==
  \/ Begin(p) \/ Look(p) \/ Read(p) \/ Truncate(p) \/ Fill(p)
  \/ Open(p) \/ Lock(p) \/ ReadTail(p) \/ WriteSeparator(p) \/ WriteContent(p)
  \/ WriteTerminator(p) \/ Unlock(p) \/ Crash(p)

Next == \E p \in Procs : Step(p)
Spec == Init /\ [][Next]_vars

-----------------------------------------------------------------------------
(* Properties *)

\* As long as the file is only appended to, it holds what the appends that are
\* through would have made of it one after the other, each on lines of its own,
\* however many of them began while the last line had no end.
AppendsAreSerial ==
  /\ lock = {}
  /\ \A p \in Procs : pc[p] # "crashed" /\ op[p].kind \in {"append", "refused"}
  => text = serial

\* A file that can be edited can be edited again, and its line endings stay what
\* they were: neither an edit nor an append mixes them.
EditsKeepEndings ==
  \A p \in Procs :
    LET after == IF pc[p] = "separate" THEN AppendText(op[p].content, seen[p]) ELSE new[p]
    IN  pc[p] = "separate" \/ (pc[p] = "truncate" /\ op[p].kind # "create") =>
          /\ ValidEndings(after)
          /\ Contains(after, "LF") /\ Contains(seen[p], "LF") =>
               (HasCRLF(after) <=> HasCRLF(seen[p]))

\* Who reads the file after an edit of lines finds the lines before the range, the
\* lines that were given, and the lines after it.  One case is left out: in a file
\* whose last line has no end an empty last line cannot be told from none.
LineEditIsExact ==
  \A p \in Procs :
    LET o == op[p]
        last == IF o.kind = "insert" THEN o.range[1] - 1 ELSE o.range[2]
        lines == SplitLines(seen[p])
        after == SplitLines(new[p])
        given == SubSeq(after, o.range[1], Len(after) - (Len(lines) - last))
    IN  /\ pc[p] = "truncate" /\ o.kind \in {"replace", "insert", "delete"}
        /\ Terminated(seen[p]) \/ (new[p] # <<>> /\ ~Terminated(new[p]))
        => /\ after = SubSeq(lines, 1, o.range[1] - 1)
                        \o given \o SubSeq(lines, last + 1, Len(lines))
           /\ JoinLines(given, <<"LF">>, TRUE)
                = IF o.kind = "delete" THEN <<>>
                  ELSE IF Terminated(o.content) THEN o.content ELSE Append(o.content, "LF")
=============================================================================
