---------------------------- MODULE EventLogProofs ----------------------------
(* Theorems about EventLog, and about what EventStats reads in its log, for any *)
(* number of commands and tool uses. *)
EXTENDS EventStats, Integers, SequenceTheorems, WellFoundedInduction, TLAPS

\* Induction over the natural numbers, as a set that holds them all.
LEMMA SetInduction ==
  ASSUME NEW S, 0 \in S, \A n \in Nat : n \in S => n + 1 \in S
  PROVE  Nat \subseteq S
<1> SUFFICES ASSUME Nat \ S # {} PROVE FALSE
  OBVIOUS
<1>1. PICK m \in Nat \ S : \A n \in Nat \ S : ~(<<n, m>> \in OpToRel(<, Nat))
  <2> HIDE DEF OpToRel
  <2> QED
    BY WFMin, NatLessThanWellFounded
<1>2. \A n \in Nat \ S : ~(n < m)
  BY <1>1 DEF OpToRel
<1>3. m # 0 /\ m - 1 \in Nat /\ m - 1 < m /\ (m - 1) + 1 = m
  OBVIOUS
<1> QED
  BY <1>2, <1>3

\* Who the actors are, and what tells them apart.
LEMMA ActorCases ==
  /\ \A a \in Actors : a \in CommandProcs \/ \E t \in Tools : a = Pre(t) \/ a = Post(t)
  /\ \A c \in CommandProcs : c \in Actors /\ c[2] = "command"
  /\ \A t \in Tools : /\ Pre(t) \in Actors /\ Pre(t)[2] = "pre" /\ Pre(t) \notin CommandProcs
                      /\ Post(t) \in Actors /\ Post(t)[2] = "post" /\ Post(t) \notin CommandProcs
  /\ \A t, u \in Tools : /\ Pre(t) = Pre(u) => t = u
                         /\ Post(t) = Post(u) => t = u
                         /\ Pre(t) # Post(u)
  BY DEF Actors, CommandProcs, Pre, Post

\* Every step is one of the named actions; the proofs below go through them.
LEMMA StepCases ==
  ASSUME [Next]_vars
  PROVE  \/ \E a \in Actors : \/ Look(a) \/ AppendLine(a) \/ Truncate(a) \/ Fill(a)
                              \/ EmitFails(a) \/ Crash(a)
         \/ \E c \in CommandProcs : Begin(c) \/ Finish(c)
         \/ \E t \in Tools : \/ BeginPre(t) \/ CreateRecord(t) \/ FillRecord(t)
                             \/ BeginPost(t) \/ DeleteRecord(t) \/ RecordFails(t)
         \/ UNCHANGED vars
  BY DEF Next, EmitStep, Hooks

\* What is left of a sequence whose first k elements have been replaced.
LEMMA Spliced ==
  ASSUME NEW S, NEW s \in Seq(S), NEW head \in Seq(S), NEW k \in 1..Len(s),
         NEW new, new = head \o SubSeq(s, k + 1, Len(s))
  PROVE  /\ new \in Seq(S) /\ Len(new) = Len(head) + (Len(s) - k)
         /\ \A i \in 1..Len(head) : new[i] = head[i]
         /\ \A i \in 1..Len(new) : i > Len(head) => new[i] = s[k + (i - Len(head))]
<1> DEFINE tail == SubSeq(s, k + 1, Len(s))
<1>1. Len(s) \in Nat /\ Len(head) \in Nat /\ k \in Nat
  OBVIOUS
<1>2. tail \in Seq(S) /\ Len(tail) = Len(s) - k
  <2>1. \A i \in k + 1..Len(s) : s[i] \in S
    OBVIOUS
  <2> QED
  BY <1>1, <2>1, SubSeqProperties
<1>3. \A j \in 1..Len(s) - k : tail[j] = s[k + j]
  BY <1>1, SubSeqProperties
<1> HIDE DEF tail
<1>4. new = head \o tail
  BY DEF tail
<1>5. /\ new \in Seq(S) /\ Len(new) = Len(head) + Len(tail)
      /\ \A i \in 1..Len(head) + Len(tail) :
           new[i] = IF i <= Len(head) THEN head[i] ELSE tail[i - Len(head)]
  <2>1. /\ head \o tail \in Seq(S)
        /\ Len(head \o tail) = Len(head) + Len(tail)
        /\ \A i \in 1 .. Len(head) + Len(tail) : (head \o tail)[i] =
                    IF i <= Len(head) THEN head[i] ELSE tail[i - Len(head)]
    BY <1>2, ConcatProperties, Zenon
  <2> QED
    BY <1>4, <2>1, Zenon
<1>6. ASSUME NEW i \in 1..Len(new), i > Len(head) PROVE new[i] = s[k + (i - Len(head))]
  <2>1. i - Len(head) \in 1..Len(s) - k /\ i \in Nat
    BY <1>1, <1>2, <1>5, <1>6
  <2>2. new[i] = tail[i - Len(head)]
    <3>1. i \in 1..Len(head) + Len(tail) /\ ~(i <= Len(head))
      BY <1>1, <1>2, <1>5, <1>6
    <3>2. new[i] = IF i <= Len(head) THEN head[i] ELSE tail[i - Len(head)]
      BY <1>5, <3>1, Zenon
    <3> QED
      BY <3>1, <3>2, Zenon
  <2> QED
    BY <1>3, <2>1, <2>2, Zenon
<1>7. ASSUME NEW i \in 1..Len(head) PROVE new[i] = head[i]
  <2>1. i \in 1..Len(head) + Len(tail) /\ i <= Len(head)
    BY <1>1, <1>2
  <2> QED
    BY <1>5, <2>1
<1> QED
  BY <1>2, <1>5, <1>6, <1>7

\* What Fill leaves in the file: the new line, a torn one perhaps, and the lines
\* after the ones it covered, in their order.
LEMMA FillShape ==
  ASSUME log \in Seq(Lines), NEW line \in Lines, NEW new \in Overwritten(line)
  PROVE  /\ new \in Seq(Lines) /\ Len(new) >= 1 /\ new[1] = line
         /\ \E k \in 0..Len(log) : \E d \in {k - 2, k - 1} :
              /\ \A i \in DOMAIN new :
                   i > 1 => \/ new[i] = Torn
                            \/ i + d \in DOMAIN log /\ i + d > k /\ new[i] = log[i + d]
              /\ \A j \in DOMAIN log :
                   j > k => j - d \in DOMAIN new /\ j - d > 1 /\ new[j - d] = log[j]
<1>1. CASE log = <<>>
  <2>1. new = <<line>>
    BY <1>1 DEF Overwritten
  <2> QED
    BY <1>1, <2>1
<1>2. CASE log # <<>>
  <2>1. PICK k \in 1..Len(log), head \in {<<line>>, <<line, Torn>>} :
          new = head \o SubSeq(log, k + 1, Len(log))
    <3>1. PICK head \in {<<line>>, <<line, Torn>>}, rest \in Uncovered : new = head \o rest
      BY <1>2, Zenon DEF Overwritten
    <3>2. PICK k \in 1..Len(log) : rest = SubSeq(log, k + 1, Len(log))
      BY Zenon DEF Uncovered
    <3> QED
      BY <3>1, <3>2, Zenon
  <2>2. Torn \in Lines
    BY DEF Lines
  <2>3. /\ head \in Seq(Lines) /\ Len(head) \in {1, 2} /\ head[1] = line
        /\ Len(head) = 2 => head[2] = Torn
    <3>1. CASE head = <<line>>
      BY <3>1
    <3>2. CASE head = <<line, Torn>>
      BY <2>2, <3>2
    <3> QED
      BY <3>1, <3>2
  <2>4. head \in Seq(Lines)
    BY <2>3
  <2>5. new = head \o SubSeq(log, k + 1, Len(log))
    BY <2>1
  <2>6. /\ new \in Seq(Lines) /\ Len(new) = Len(head) + (Len(log) - k)
        /\ \A i \in 1..Len(head) : new[i] = head[i]
        /\ \A i \in 1..Len(new) : i > Len(head) => new[i] = log[k + (i - Len(head))]
    BY <2>4, <2>5, Spliced
  <2>7. Len(log) \in Nat /\ k \in 1..Len(log) /\ DOMAIN log = 1..Len(log)
        /\ DOMAIN new = 1..Len(new) /\ Len(new) \in Nat
    BY <2>6
  <2> DEFINE d == k - Len(head)
  <2>8. ASSUME NEW i \in DOMAIN new, i > 1
        PROVE  \/ new[i] = Torn
               \/ i + d \in DOMAIN log /\ i + d > k /\ new[i] = log[i + d]
    <3>1. CASE i <= Len(head)
      <4>1. i = 2 /\ Len(head) = 2 /\ i \in 1..Len(head)
        <5>1. i \in Nat /\ i > 1 /\ i <= Len(head)
          BY <3>1, <2>7, <2>8
        <5>2. CASE Len(head) = 1
          BY <5>1, <5>2
        <5>3. CASE Len(head) = 2
          BY <5>1, <5>3
        <5> QED
          BY <2>3, <5>2, <5>3
      <4>2. new[i] = head[i]
        BY <4>1, <2>6, Zenon
      <4> QED
        BY <4>1, <4>2, <2>3
    <3>2. CASE i > Len(head)
      <4>1. new[i] = log[k + (i - Len(head))]
        BY <3>2, <2>6, <2>7
      <4>2. k + (i - Len(head)) = i + d /\ i + d > k /\ i + d \in 1..Len(log)
        BY <3>2, <2>3, <2>6, <2>7
      <4> QED
        BY <4>1, <4>2, <2>7
    <3> QED
      BY <3>1, <3>2, <2>3, <2>7
  <2>9. ASSUME NEW j \in DOMAIN log, j > k
        PROVE  j - d \in DOMAIN new /\ j - d > 1 /\ new[j - d] = log[j]
    <3>1. j - d \in 1..Len(new) /\ j - d > Len(head) /\ j - d > 1
      BY <2>9, <2>3, <2>6, <2>7
    <3>2. new[j - d] = log[k + ((j - d) - Len(head))]
      BY <3>1, <2>6
    <3>3. k + ((j - d) - Len(head)) = j
      BY <2>3, <2>7
    <3> QED
      BY <3>1, <3>2, <3>3, <2>7
  <2>10. new[1] = line /\ Len(new) >= 1 /\ k \in 0..Len(log) /\ d \in {k - 2, k - 1}
    <3>1. 1 \in 1..Len(head)
      BY <2>3
    <3>2. new[1] = line
      BY <3>1, <2>3, <2>6, Zenon
    <3>3. Len(head) = 1 \/ Len(head) = 2
      BY <2>3
    <3>4. Len(new) = Len(head) + (Len(log) - k)
      BY <2>6
    <3>5. Len(new) >= 1 /\ k \in 0..Len(log)
      <4> HIDE <2>7
      <4>1. Len(log) \in Nat /\ k \in Nat /\ k <= Len(log)
        BY <2>7
      <4>2. CASE Len(head) = 1
        BY <4>1, <4>2, <3>4
      <4>3. CASE Len(head) = 2
        BY <4>1, <4>3, <3>4
      <4> QED
        BY <3>3, <4>2, <4>3
    <3>6. d \in {k - 2, k - 1}
      BY <3>3
    <3> QED
      BY <3>2, <3>5, <3>6
  <2> HIDE DEF d
  <2> QED
    BY <2>6, <2>8, <2>9, <2>10
<1> QED
  BY <1>1, <1>2

\* The line a process is about to write is a line.
LEMMA LineIsLine ==
  ASSUME TypeOK, NEW a \in Actors
  PROVE  Line(event[a], run[a]) \in Lines
  BY DEF TypeOK, ActorsOK, Line, Lines

\* The type invariant of the model, for every value of its constants.
THEOREM TypeCorrect == Spec => []TypeOK
<1>1. Init => TypeOK
  BY DEF Init, TypeOK, FileOK, ActorsOK
<1>2. TypeOK /\ [Next]_vars => TypeOK'
  <2> SUFFICES ASSUME TypeOK, [Next]_vars PROVE TypeOK'
    OBVIOUS
  <2>1. FileOK'
    <3> USE DEF TypeOK, FileOK, fileVars
    <3>1. ASSUME NEW a \in Actors, AppendLine(a) PROVE FileOK'
      BY <3>1, LineIsLine DEF AppendLine
    <3>2. ASSUME NEW a \in Actors, Truncate(a) PROVE FileOK'
      BY <3>2 DEF Truncate
    <3>3. ASSUME NEW a \in Actors, Fill(a) PROVE FileOK'
      BY <3>3, LineIsLine, FillShape DEF Fill
    <3>4. CASE UNCHANGED fileVars
      BY <3>4
    <3> QED
      BY StepCases, <3>1, <3>2, <3>3, <3>4
         DEF Look, EmitFails, Crash, Begin, Finish, BeginPre, CreateRecord, FillRecord,
             BeginPost, DeleteRecord, RecordFails, vars
  <2>2. ActorsOK'
    <3> USE ActorCases DEF TypeOK, ActorsOK, Goto, Emit, AfterEmit, EmitSteps, Ended
    <3>1. ASSUME NEW a \in Actors,
                 Look(a) \/ AppendLine(a) \/ Truncate(a) \/ Fill(a) \/ EmitFails(a) \/ Crash(a)
          PROVE  ActorsOK'
      BY <3>1 DEF Look, AppendLine, Truncate, Fill, EmitFails, Crash
    <3>2. ASSUME NEW c \in CommandProcs, Begin(c) \/ Finish(c) PROVE ActorsOK'
      BY <3>2 DEF Begin, Finish
    <3>3. ASSUME NEW t \in Tools, BeginPre(t) \/ CreateRecord(t) \/ FillRecord(t)
          PROVE  ActorsOK'
      <4>1. CASE BeginPre(t)
        BY <4>1 DEF BeginPre
      <4>2. CASE CreateRecord(t)
        BY <4>2 DEF CreateRecord
      <4>3. CASE FillRecord(t)
        BY <4>3 DEF FillRecord
      <4> QED
        BY <3>3, <4>1, <4>2, <4>3
    <3>4. ASSUME NEW t \in Tools, BeginPost(t) \/ DeleteRecord(t) \/ RecordFails(t)
          PROVE  ActorsOK'
      BY <3>4 DEF BeginPost, DeleteRecord, RecordFails
    <3>5. CASE UNCHANGED vars
      BY <3>5 DEF vars
    <3> QED
      BY StepCases, <3>1, <3>2, <3>3, <3>4, <3>5
  <2> QED
    BY <2>1, <2>2 DEF TypeOK
<1> QED
  BY <1>1, <1>2, PTL DEF Spec

-----------------------------------------------------------------------------
\* A file that was there at the start is still there, so that safe_append never
\* reports NotFound and no process is about to write the file from scratch.
Settled == existed => exists /\ \A a \in Actors : pc[a] \notin {"truncate", "fill"}

LEMMA SettledCorrect == Spec => []Settled
<1>1. Init => Settled
  BY DEF Init, Settled
<1>2. TypeOK /\ Settled /\ [Next]_vars => Settled'
  <2> SUFFICES ASSUME TypeOK, Settled, [Next]_vars PROVE Settled'
    OBVIOUS
  <2> USE ActorCases
          DEF Settled, TypeOK, ActorsOK, FileOK, fileVars, Goto, Emit, AfterEmit, EmitSteps, Ended
  <2>1. ASSUME NEW a \in Actors,
               Look(a) \/ AppendLine(a) \/ Truncate(a) \/ Fill(a) \/ EmitFails(a) \/ Crash(a)
        PROVE  Settled'
    <3>1. CASE Look(a)
      BY <3>1 DEF Look
    <3>2. CASE AppendLine(a)
      BY <3>2 DEF AppendLine
    <3>3. CASE Truncate(a) \/ Fill(a)
      BY <3>3 DEF Truncate, Fill
    <3>4. CASE EmitFails(a)
      BY <3>4 DEF EmitFails
    <3>5. CASE Crash(a)
      BY <3>5 DEF Crash
    <3> QED
      BY <2>1, <3>1, <3>2, <3>3, <3>4, <3>5, Zenon
  <2>2. ASSUME NEW c \in CommandProcs, Begin(c) \/ Finish(c) PROVE Settled'
    BY <2>2 DEF Begin, Finish
  <2>3. ASSUME NEW t \in Tools, BeginPre(t) \/ CreateRecord(t) \/ FillRecord(t)
        PROVE  Settled'
    <3>1. CASE BeginPre(t)
      BY <3>1 DEF BeginPre
    <3>2. CASE CreateRecord(t)
      BY <3>2 DEF CreateRecord
    <3>3. CASE FillRecord(t)
      BY <3>3 DEF FillRecord
    <3> QED
      BY <2>3, <3>1, <3>2, <3>3
  <2>4. ASSUME NEW t \in Tools, BeginPost(t) \/ DeleteRecord(t) \/ RecordFails(t)
        PROVE  Settled'
    <3>1. CASE BeginPost(t)
      BY <3>1 DEF BeginPost
    <3>2. CASE DeleteRecord(t)
      BY <3>2 DEF DeleteRecord
    <3>3. CASE RecordFails(t)
      BY <3>3 DEF RecordFails
    <3> QED
      BY <2>4, <3>1, <3>2, <3>3, Zenon
  <2>5. CASE UNCHANGED vars
    BY <2>5 DEF vars
  <2> QED
    BY StepCases, <2>1, <2>2, <2>3, <2>4, <2>5
<1> QED
  BY <1>1, <1>2, TypeCorrect, PTL DEF Spec

\* Any number of commands and hooks may append at once: once the file is there,
\* none of them takes a line of another away.
THEOREM AppendOnlyCorrect == Spec => AppendOnly
<1>1. TypeOK /\ Settled /\ [Next]_vars =>
        [existed => log' = log \/ \E line \in Lines : log' = Append(log, line)]_vars
  <2> SUFFICES ASSUME TypeOK, Settled, [Next]_vars, existed
               PROVE  log' = log \/ \E line \in Lines : log' = Append(log, line)
    OBVIOUS
  <2> USE DEF fileVars
  <2>1. ASSUME NEW a \in Actors, AppendLine(a)
        PROVE  \E line \in Lines : log' = Append(log, line)
    BY <2>1, LineIsLine DEF AppendLine
  <2>2. ASSUME NEW a \in Actors, Truncate(a) \/ Fill(a) PROVE FALSE
    BY <2>2 DEF Truncate, Fill, Settled
  <2>3. CASE UNCHANGED fileVars
    BY <2>3
  <2> QED
    BY StepCases, <2>1, <2>2, <2>3
       DEF Look, EmitFails, Crash, Begin, Finish, BeginPre, CreateRecord, FillRecord,
           BeginPost, DeleteRecord, RecordFails, vars
<1> QED
  BY <1>1, TypeCorrect, SettledCorrect, PTL DEF Spec, AppendOnly

-----------------------------------------------------------------------------
(* Who writes what, and what of it the log shows *)

\* Whose run a process works on.  A post hook that found a temp file closes the
\* run of its pre hook, which has ended by then; nobody else shares a run.
Places ==
  /\ \A c \in CommandProcs :
       /\ run[c] = c /\ pc[c] \notin {"record", "fillRecord", "delete"}
       /\ pc[c] \in {"idle", "work"} => event[c] = "Started"
  /\ \A t \in Tools :
       /\ run[Pre(t)] = Pre(t) /\ event[Pre(t)] = "Started"
       /\ pc[Pre(t)] \notin {"work", "delete"}
       /\ pc[Pre(t)] = "idle" => record[t] = "absent"
       /\ pc[Post(t)] \notin {"work", "record", "fillRecord"}
       /\ pc[Post(t)] # "idle" => pc[Pre(t)] \in Ended \cup {"idle"}
       /\ pc[Post(t)] \in {"idle", "delete"} => event[Post(t)] = "Started"
       /\ run[Post(t)] \in {Pre(t), Post(t)}
       /\ pc[Post(t)] = "idle" => run[Post(t)] = Post(t)
       /\ pc[Post(t)] = "delete" => run[Post(t)] = Pre(t)
       /\ run[Post(t)] = Pre(t) =>
            /\ pc[Pre(t)] \in Ended
            /\ pc[Post(t)] \in EmitSteps => event[Post(t)] = "Completed"

\* What a process has still to write is not in the log, and a process that writes
\* the file from scratch has not written to it before.
Ahead(a) ==
  pc[a] \notin Ended =>
    /\ ~Logged("Completed", run[a])
    /\ event[a] = "Started" /\ pc[a] \notin {"work", "delete"} => ~Logged("Started", run[a])
    /\ pc[a] \in {"truncate", "fill"} => ~Logged("Started", run[a])

AheadInv ==
  /\ ~exists => log = <<>> /\ \A a \in Actors : pc[a] \notin {"append", "fill"}
  /\ \A t \in Tools : pc[Post(t)] = "idle" => ~Logged("Completed", Pre(t))
  /\ \A a \in Actors : Ahead(a)

\* What a process has written is in the log, if the file was there.
Behind(a) ==
  /\ a[2] = "pre" /\ pc[a] = "done" => Logged("Started", a)
  /\ a[2] # "pre" /\ a \notin dropped =>
       /\ pc[a] = "done" => Logged("Completed", run[a])
       /\ run[a] = a /\ pc[a] \in {"work", "done"} => Logged("Started", a)
       /\ run[a] = a /\ pc[a] \in EmitSteps /\ event[a] = "Completed" => Logged("Started", a)

BehindInv == existed => \A a \in Actors : Behind(a)

\* A whole line is its kind and its run, and is not what is left of one.
LEMMA LinesApart ==
  ASSUME NEW kind \in {"Started", "Completed"}, NEW k, NEW r, NEW q
  PROVE  /\ Line(kind, r) # Torn
         /\ Line(kind, r) = Line(k, q) <=> kind = k /\ r = q
<1>1. Line(kind, r).kind = kind /\ Torn.kind = "Torn"
  BY DEF Line, Torn
<1>2. Line(kind, r).run = r /\ Line(k, q).kind = k /\ Line(k, q).run = q
  BY DEF Line
<1> QED
  BY <1>1, <1>2, kind # "Torn"

\* An append adds its line to what the log shows, and takes nothing away.
LEMMA AppendShows ==
  ASSUME TypeOK, NEW a \in Actors, AppendLine(a),
         NEW kind \in {"Started", "Completed"}, NEW r \in Actors
  PROVE  Logged(kind, r)' <=> Logged(kind, r) \/ (kind = event[a] /\ r = run[a])
<1> DEFINE line == Line(event[a], run[a])
<1>1. log \in Seq(Lines) /\ line \in Lines /\ log' = Append(log, line)
  BY LineIsLine DEF TypeOK, FileOK, AppendLine
<1>2. line = Line(kind, r) <=> kind = event[a] /\ r = run[a]
  BY LinesApart
<1> HIDE DEF line
<1>3. /\ Len(log) \in Nat /\ DOMAIN log = 1..Len(log) /\ DOMAIN log' = 1..Len(log) + 1
      /\ log'[Len(log) + 1] = line /\ \A i \in 1..Len(log) : log'[i] = log[i]
  BY <1>1
<1>4. Logged(kind, r)' <=> \E i \in 1..Len(log) + 1 : log'[i] = Line(kind, r)
  BY <1>3 DEF Logged
<1>5. Logged(kind, r) <=> \E i \in 1..Len(log) : log[i] = Line(kind, r)
  BY <1>3 DEF Logged
<1>6. \A i \in 1..Len(log) + 1 : i = Len(log) + 1 \/ i \in 1..Len(log)
  BY <1>3
<1>7. Len(log) + 1 \in 1..Len(log) + 1 /\ \A i \in 1..Len(log) : i \in 1..Len(log) + 1
  BY <1>3
<1>8. (\E i \in 1..Len(log) + 1 : log'[i] = Line(kind, r))
        <=> line = Line(kind, r) \/ \E i \in 1..Len(log) : log[i] = Line(kind, r)
  BY <1>3, <1>6, <1>7, Zenon
<1> QED
  BY <1>2, <1>4, <1>5, <1>8, Zenon

\* A write at offset 0 shows its line, and nothing that was not there.
LEMMA FillShows ==
  ASSUME TypeOK, NEW a \in Actors, Fill(a)
  PROVE  \A kind \in {"Started", "Completed"}, r \in Actors :
           /\ kind = event[a] /\ r = run[a] => Logged(kind, r)'
           /\ Logged(kind, r)' => Logged(kind, r) \/ (kind = event[a] /\ r = run[a])
<1> DEFINE line == Line(event[a], run[a])
<1>1. log \in Seq(Lines) /\ line \in Lines /\ log' \in Overwritten(line)
  BY LineIsLine DEF TypeOK, FileOK, Fill
<1>2. \A kind \in {"Started", "Completed"}, r \in Actors :
        Line(kind, r) # Torn /\ (line = Line(kind, r) => kind = event[a] /\ r = run[a])
  BY LinesApart
<1> HIDE DEF line
<1>3. log' \in Seq(Lines) /\ Len(log') >= 1 /\ log'[1] = line
  BY <1>1, FillShape
<1>4. \A i \in DOMAIN log' :
        i > 1 => log'[i] = Torn \/ \E j \in DOMAIN log : log'[i] = log[j]
  <2>1. \E k \in 0..Len(log) : \E d \in {k - 2, k - 1} :
          /\ \A i \in DOMAIN log' :
               i > 1 => \/ log'[i] = Torn
                        \/ i + d \in DOMAIN log /\ i + d > k /\ log'[i] = log[i + d]
          /\ \A j \in DOMAIN log :
               j > k => j - d \in DOMAIN log' /\ j - d > 1 /\ log'[j - d] = log[j]
    BY <1>1, FillShape
  <2> QED
    BY <2>1, Zenon
<1>5. 1 \in DOMAIN log' /\ \A i \in DOMAIN log' : i = 1 \/ i > 1
  BY <1>3
<1>6. ASSUME NEW kind, NEW r, kind = event[a], r = run[a] PROVE Logged(kind, r)'
  BY <1>3, <1>5, <1>6 DEF Logged, line
<1>7. ASSUME NEW kind \in {"Started", "Completed"}, NEW r \in Actors, Logged(kind, r)'
      PROVE  Logged(kind, r) \/ (kind = event[a] /\ r = run[a])
  <2>1. PICK i \in DOMAIN log' : log'[i] = Line(kind, r)
    BY <1>7, Zenon DEF Logged
  <2>2. CASE i = 1
    BY <2>1, <2>2, <1>2, <1>3
  <2>3. CASE i > 1
    BY <2>1, <2>3, <1>2, <1>4 DEF Logged
  <2> QED
    BY <1>5, <2>2, <2>3
<1> QED
  BY <1>6, <1>7

LEMMA TruncateShows ==
  ASSUME NEW a \in Actors, Truncate(a), NEW kind, NEW r
  PROVE  ~Logged(kind, r)'
  BY DEF Truncate, Logged

\* Two processes share a run only if one is the pre hook that has ended and the
\* other its post hook.
LEMMA Sharing ==
  ASSUME TypeOK, Places, NEW a \in Actors, NEW b \in Actors, a # b, run[a] = run[b]
  PROVE  \E t \in Tools : /\ {a, b} = {Pre(t), Post(t)}
                          /\ run[a] = Pre(t) /\ pc[Pre(t)] \in Ended
<1>1. \A c \in CommandProcs : run[c] = c
  BY DEF Places
<1>2. \A t \in Tools : /\ run[Pre(t)] = Pre(t) /\ run[Post(t)] \in {Pre(t), Post(t)}
                       /\ run[Post(t)] = Pre(t) => pc[Pre(t)] \in Ended
  BY DEF Places
<1> QED
  BY <1>1, <1>2, ActorCases

LEMMA PlacesCorrect == Spec => []Places
<1>1. Init => Places
  BY ActorCases DEF Init, Places, Ended, EmitSteps
<1>2. TypeOK /\ Places /\ [Next]_vars => Places'
  <2> SUFFICES ASSUME TypeOK, Places, [Next]_vars PROVE Places'
    OBVIOUS
  <2> USE ActorCases DEF Places, TypeOK, ActorsOK, Goto, Emit, AfterEmit, EmitSteps, Ended
  <2>1. ASSUME NEW a \in Actors, Look(a) \/ AppendLine(a) \/ Truncate(a) PROVE Places'
    BY <2>1 DEF Look, AppendLine, Truncate
  <2>2. ASSUME NEW a \in Actors, Fill(a) \/ EmitFails(a) \/ Crash(a) PROVE Places'
    BY <2>2 DEF Fill, EmitFails, Crash
  <2>3. ASSUME NEW c \in CommandProcs, Begin(c) \/ Finish(c) PROVE Places'
    BY <2>3 DEF Begin, Finish
  <2>4. ASSUME NEW t \in Tools, BeginPre(t) \/ CreateRecord(t) \/ FillRecord(t)
        PROVE  Places'
    BY <2>4 DEF BeginPre, CreateRecord, FillRecord
  <2>5. ASSUME NEW t \in Tools, BeginPost(t) PROVE Places'
    BY <2>5 DEF BeginPost
  <2>6. ASSUME NEW t \in Tools, DeleteRecord(t) \/ RecordFails(t) PROVE Places'
    BY <2>6 DEF DeleteRecord, RecordFails
  <2>7. CASE UNCHANGED vars
    BY <2>7 DEF vars
  <2> QED
    BY StepCases, <2>1, <2>2, <2>3, <2>4, <2>5, <2>6, <2>7
<1> QED
  BY <1>1, <1>2, TypeCorrect, PTL DEF Spec

LEMMA AheadInvCorrect == Spec => []AheadInv
<1>1. Init => AheadInv
  BY DEF Init, AheadInv, Ahead, Logged
<1>2. TypeOK /\ Places /\ Places' /\ AheadInv /\ [Next]_vars => AheadInv'
  <2> SUFFICES ASSUME TypeOK, Places, Places', AheadInv, [Next]_vars PROVE AheadInv'
    OBVIOUS
  <2> USE DEF Goto, Emit, AfterEmit, fileVars
  <2>1. (~exists => log = <<>> /\ \A a \in Actors : pc[a] \notin {"append", "fill"})'
    <3> USE DEF AheadInv, TypeOK, ActorsOK, EmitSteps
    <3>1. ASSUME NEW a \in Actors,
                 Look(a) \/ AppendLine(a) \/ Truncate(a) \/ Fill(a) \/ EmitFails(a) \/ Crash(a)
          PROVE  ~exists' => /\ log' = <<>>
                             /\ \A b \in Actors : pc'[b] \notin {"append", "fill"}
      BY <3>1 DEF Look, AppendLine, Truncate, Fill, EmitFails, Crash
    <3>2. ASSUME NEW c \in CommandProcs, Begin(c) \/ Finish(c)
          PROVE  ~exists' => /\ log' = <<>>
                             /\ \A b \in Actors : pc'[b] \notin {"append", "fill"}
      BY <3>2 DEF Begin, Finish
    <3>3. ASSUME NEW t \in Tools, BeginPre(t) \/ CreateRecord(t) \/ FillRecord(t)
          PROVE  ~exists' => /\ log' = <<>>
                             /\ \A b \in Actors : pc'[b] \notin {"append", "fill"}
      BY <3>3 DEF BeginPre, CreateRecord, FillRecord
    <3>4. ASSUME NEW t \in Tools, BeginPost(t) \/ DeleteRecord(t) \/ RecordFails(t)
          PROVE  ~exists' => /\ log' = <<>>
                             /\ \A b \in Actors : pc'[b] \notin {"append", "fill"}
      BY <3>4 DEF BeginPost, DeleteRecord, RecordFails
    <3>5. CASE UNCHANGED vars
      BY <3>5 DEF vars
    <3> QED
      BY StepCases, <3>1, <3>2, <3>3, <3>4, <3>5
  <2>2. ASSUME NEW a \in Actors, AppendLine(a) \/ Fill(a)
        PROVE  /\ \A t \in Tools : pc'[Post(t)] = "idle" => ~Logged("Completed", Pre(t))'
               /\ \A b \in Actors : Ahead(b)'
    <3>1. \A kind \in {"Started", "Completed"}, r \in Actors :
            Logged(kind, r)' => Logged(kind, r) \/ (kind = event[a] /\ r = run[a])
      BY <2>2, AppendShows, FillShows
    <3>2. /\ pc[a] \in {"append", "fill"} /\ UNCHANGED run
          /\ \A b \in Actors : b # a => pc'[b] = pc[b] /\ event'[b] = event[b]
          /\ pc'[a] \in {"done", "look", "work"}
          /\ event[a] = "Completed" => pc'[a] = "done"
          /\ pc'[a] = "look" => event'[a] = "Completed"
      BY <2>2 DEF AppendLine, Fill, TypeOK, ActorsOK
    <3>3. \A b \in Actors : run[b] \in Actors /\ event[b] \in {"Started", "Completed"}
      BY DEF TypeOK, ActorsOK
    <3>4. ASSUME NEW t \in Tools, pc'[Post(t)] = "idle", Logged("Completed", Pre(t))'
          PROVE  FALSE
      <4>1. pc[Post(t)] = "idle" /\ run[Post(t)] = Post(t) /\ event[Pre(t)] = "Started"
            /\ run[Pre(t)] = Pre(t) /\ a # Post(t)
        BY <3>2, <3>4, ActorCases DEF Places
      <4>2. ~Logged("Completed", Pre(t))
        BY <4>1 DEF AheadInv
      <4>3. event[a] = "Completed" /\ run[a] = Pre(t) /\ a # Pre(t)
        BY <3>1, <3>4, <4>1, <4>2, ActorCases
      <4>4. \E u \in Tools : {a, Pre(t)} = {Pre(u), Post(u)}
        BY <4>1, <4>3, Sharing, ActorCases
      <4> QED
        BY <4>1, <4>3, <4>4, ActorCases
    <3>5. ASSUME NEW b \in Actors PROVE Ahead(b)'
      <4>1. CASE b = a
        BY <3>1, <3>2, <3>3, <4>1 DEF AheadInv, Ahead, Ended
      <4>2. CASE b # a
        <5> SUFFICES ASSUME pc[b] \notin Ended PROVE Ahead(b)'
          BY <3>2, <4>2 DEF Ahead
        <5>0. pc[a] \notin Ended
          BY <3>2 DEF Ended
        <5>1. run[b] # run[a]
          BY <4>2, <5>0, Sharing
        <5> QED
          BY <3>1, <3>2, <3>3, <4>2, <5>1 DEF AheadInv, Ahead
      <4> QED
        BY <4>1, <4>2
    <3> QED
      BY <3>4, <3>5
  <2>3. ASSUME NEW a \in Actors, Truncate(a)
        PROVE  /\ \A t \in Tools : pc'[Post(t)] = "idle" => ~Logged("Completed", Pre(t))'
               /\ \A b \in Actors : Ahead(b)'
    BY <2>3, TruncateShows DEF Ahead
  <2>4. ASSUME UNCHANGED log PROVE \A kind, r : Logged(kind, r)' <=> Logged(kind, r)
    BY <2>4 DEF Logged
  <2>5. ~exists => \A kind, r : ~Logged(kind, r)
    BY DEF AheadInv, Logged
  <2> USE DEF TypeOK, ActorsOK
  <2>6. ASSUME NEW a \in Actors, Look(a) \/ EmitFails(a) \/ Crash(a) PROVE AheadInv'
    <3>1. CASE Look(a)
      BY <2>1, <2>4, <2>5, <3>1 DEF Look, AheadInv, Ahead, Ended
    <3>2. CASE EmitFails(a)
      BY <2>1, <2>4, <3>2, ActorCases DEF EmitFails, AheadInv, Ahead, Ended, EmitSteps
    <3>3. CASE Crash(a)
      BY <2>1, <2>4, <3>3 DEF Crash, AheadInv, Ahead, Ended
    <3> QED
      BY <2>6, <3>1, <3>2, <3>3
  <2>7. ASSUME NEW c \in CommandProcs, Begin(c) \/ Finish(c) PROVE AheadInv'
    BY <2>1, <2>4, <2>7, ActorCases DEF Begin, Finish, AheadInv, Ahead, Ended, Places
  <2>8. ASSUME NEW t \in Tools, BeginPre(t) \/ CreateRecord(t) \/ FillRecord(t)
        PROVE  AheadInv'
    <3> USE ActorCases DEF AheadInv, Ahead, Ended
    <3>1. CASE BeginPre(t)
      BY <2>1, <2>4, <3>1 DEF BeginPre
    <3>2. CASE CreateRecord(t)
      BY <2>1, <2>4, <3>2 DEF CreateRecord
    <3>3. CASE FillRecord(t)
      <4>1. pc' = [pc EXCEPT ![Pre(t)] = "look"] /\ event' = [event EXCEPT ![Pre(t)] = "Started"]
            /\ UNCHANGED <<log, run>> /\ pc[Pre(t)] = "fillRecord" /\ event[Pre(t)] = "Started"
        BY <3>3 DEF FillRecord, Places
      <4> QED
        BY <2>1, <2>4, <4>1
    <3> QED
      BY <2>8, <3>1, <3>2, <3>3
  <2>9. ASSUME NEW t \in Tools, BeginPost(t) PROVE AheadInv'
    <3>1. /\ UNCHANGED log /\ Post(t) \in Actors /\ pc[Post(t)] = "idle"
          /\ \A b \in Actors : b # Post(t) =>
               pc'[b] = pc[b] /\ event'[b] = event[b] /\ run'[b] = run[b]
          /\ pc'[Post(t)] \in {"look", "delete", "failed"}
      BY <2>9, ActorCases DEF BeginPost
    <3>2. /\ pc'[Post(t)] = "look" => run' = run
          /\ pc'[Post(t)] = "delete" => run'[Post(t)] = Pre(t)
      BY <2>9, ActorCases DEF BeginPost
    <3>3. \A b \in Actors : b # Post(t) => Ahead(b)'
      BY <2>4, <3>1 DEF AheadInv, Ahead
    <3>4. Ahead(Post(t)) /\ ~Logged("Completed", Pre(t))
      BY <3>1 DEF AheadInv
    <3>5. Ahead(Post(t))'
      <4>1. CASE pc'[Post(t)] = "delete"
        BY <2>4, <3>1, <3>2, <3>4, <4>1 DEF Ahead
      <4>2. CASE pc'[Post(t)] = "look"
        BY <2>4, <3>1, <3>2, <3>4, <4>2 DEF Ahead, Ended, Places
      <4>3. CASE pc'[Post(t)] = "failed"
        BY <4>3 DEF Ahead, Ended
      <4> QED
        BY <3>1, <4>1, <4>2, <4>3
    <3>6. \A u \in Tools : pc'[Post(u)] = "idle" => ~Logged("Completed", Pre(u))'
      BY <2>4, <3>1, ActorCases DEF AheadInv
    <3> QED
      BY <2>1, <3>3, <3>5, <3>6 DEF AheadInv
  <2>10. ASSUME NEW t \in Tools, DeleteRecord(t) \/ RecordFails(t) PROVE AheadInv'
    BY <2>1, <2>4, <2>10, ActorCases
       DEF DeleteRecord, RecordFails, AheadInv, Ahead, Ended
  <2>11. CASE UNCHANGED vars
    BY <2>1, <2>4, <2>11 DEF AheadInv, Ahead, vars
  <2>12. ASSUME NEW a \in Actors, AppendLine(a) \/ Truncate(a) \/ Fill(a) PROVE AheadInv'
    BY <2>1, <2>2, <2>3, <2>12 DEF AheadInv
  <2> QED
    BY StepCases, <2>6, <2>7, <2>8, <2>9, <2>10, <2>11, <2>12
<1> QED
  BY <1>1, <1>2, TypeCorrect, PlacesCorrect, PTL DEF Spec

LEMMA BehindInvCorrect == Spec => []BehindInv
<1>1. Init => BehindInv
  BY ActorCases DEF Init, BehindInv, Behind, EmitSteps
<1>2. TypeOK /\ Settled /\ Places /\ BehindInv /\ [Next]_vars => BehindInv'
  <2> SUFFICES ASSUME TypeOK, Settled, Places, BehindInv, [Next]_vars, existed'
               PROVE  \A b \in Actors : Behind(b)'
    BY DEF BehindInv
  <2>1. existed /\ \A b \in Actors : Behind(b)
    BY StepCases
       DEF BehindInv, fileVars, vars, Look, AppendLine, Truncate, Fill, EmitFails, Crash,
           Begin, Finish, BeginPre, CreateRecord, FillRecord, BeginPost, DeleteRecord,
           RecordFails
  <2>2. ASSUME UNCHANGED log PROVE \A kind, r : Logged(kind, r)' <=> Logged(kind, r)
    BY <2>2 DEF Logged
  <2>3. \A b \in Actors : b[2] # "pre" => b \in CommandProcs \/ b[2] = "post"
    BY ActorCases
  <2> USE DEF TypeOK, ActorsOK, Goto, Emit, AfterEmit, fileVars
  <2>4. ASSUME NEW a \in Actors, AppendLine(a), NEW b \in Actors PROVE Behind(b)'
    <3>1. \A kind \in {"Started", "Completed"}, r \in Actors :
            Logged(kind, r)' <=> Logged(kind, r) \/ (kind = event[a] /\ r = run[a])
      BY <2>4, AppendShows
    <3>2. UNCHANGED <<run, dropped>> /\ pc[a] = "append" /\ run[b] \in Actors
          /\ event[a] \in {"Started", "Completed"}
      BY <2>4 DEF AppendLine
    <3>3. CASE b # a
      <4>1. pc'[b] = pc[b] /\ event'[b] = event[b]
        BY <2>4, <3>3 DEF AppendLine
      <4> QED
        BY <2>1, <3>1, <3>2, <4>1 DEF Behind
    <3>4. CASE b = a /\ a[2] = "pre"
      <4>1. run[a] = a /\ event[a] = "Started"
        BY <3>4, ActorCases DEF Places
      <4> QED
        BY <3>1, <3>2, <3>4, <4>1 DEF Behind
    <3>5. CASE b = a /\ a[2] # "pre"
      <4>1. /\ event[a] = "Completed" => pc'[a] = "done"
            /\ event[a] = "Started" => pc'[a] \in {"work", "look"}
        BY <2>4, <3>5 DEF AppendLine
      <4> QED
        BY <2>1, <3>1, <3>2, <3>5, <4>1 DEF Behind, EmitSteps
    <3> QED
      BY <3>3, <3>4, <3>5
  <2>5. ASSUME NEW a \in Actors, Truncate(a) \/ Fill(a) PROVE FALSE
    BY <2>1, <2>5 DEF Truncate, Fill, Settled
  <2>6. ASSUME NEW a \in Actors, Look(a) \/ Crash(a), NEW b \in Actors PROVE Behind(b)'
    BY <2>1, <2>2, <2>6 DEF Look, Crash, Behind, EmitSteps, Ended
  <2>7. ASSUME NEW a \in Actors, EmitFails(a), NEW b \in Actors PROVE Behind(b)'
    BY <2>1, <2>2, <2>7, ActorCases DEF EmitFails, Behind, EmitSteps
  <2>8. ASSUME NEW c \in CommandProcs, Begin(c) \/ Finish(c), NEW b \in Actors
        PROVE  Behind(b)'
    BY <2>1, <2>2, <2>8, ActorCases DEF Begin, Finish, Behind, EmitSteps
  <2>9. ASSUME NEW t \in Tools, BeginPre(t) \/ CreateRecord(t), NEW b \in Actors
        PROVE  Behind(b)'
    BY <2>1, <2>2, <2>9, ActorCases DEF BeginPre, CreateRecord, Behind, EmitSteps
  <2>10. ASSUME NEW t \in Tools, FillRecord(t), NEW b \in Actors PROVE Behind(b)'
    BY <2>1, <2>2, <2>10, ActorCases DEF FillRecord, Behind, EmitSteps
  <2>11. ASSUME NEW t \in Tools, BeginPost(t), NEW b \in Actors PROVE Behind(b)'
    BY <2>1, <2>2, <2>11, ActorCases DEF BeginPost, Behind, EmitSteps, Places
  <2>12. ASSUME NEW t \in Tools, DeleteRecord(t) \/ RecordFails(t), NEW b \in Actors
         PROVE  Behind(b)'
    BY <2>1, <2>2, <2>12, ActorCases
       DEF DeleteRecord, RecordFails, Behind, EmitSteps, Places
  <2>13. CASE UNCHANGED vars
    BY <2>1, <2>2, <2>13 DEF vars, Behind
  <2> QED
    BY StepCases, <2>4, <2>5, <2>6, <2>7, <2>8, <2>9, <2>10, <2>11, <2>12, <2>13
<1> QED
  BY <1>1, <1>2, TypeCorrect, SettledCorrect, PlacesCorrect, PTL DEF Spec

\* Both events of a run are there once its last process has ended well, for any
\* number of processes that crash, fail and write in between.
THEOREM MatchingPairCorrect == Spec => []MatchingPair
<1>1. Places /\ BehindInv => MatchingPair
  <2> SUFFICES ASSUME Places, BehindInv, NEW a \in Actors, existed, Closed(a)
               PROVE  /\ Logged("Completed", run[a])
                      /\ Logged("Started", run[a]) \/ NeverStarted(run[a])
    BY DEF MatchingPair
  <2>1. Behind(a) /\ a[2] # "pre" /\ pc[a] = "done" /\ a \notin dropped
    BY DEF BehindInv, Closed
  <2>2. CASE run[a] = a
    BY <2>1, <2>2 DEF Behind
  <2>3. CASE run[a] # a
    <3>1. PICK t \in Tools : a = Post(t) /\ run[a] = Pre(t) /\ pc[Pre(t)] \in Ended
      BY <2>1, <2>3, ActorCases DEF Places
    <3>2. Behind(Pre(t)) /\ Pre(t)[2] = "pre"
      BY ActorCases DEF BehindInv
    <3> QED
      BY <2>1, <3>1, <3>2 DEF Behind, Ended, NeverStarted
  <2> QED
    BY <2>2, <2>3
<1> QED
  BY <1>1, PlacesCorrect, BehindInvCorrect, PTL

-----------------------------------------------------------------------------
(* The order of the lines, also when the file is created several times *)

\* What the lines before and after one another may be.
Ordered(lines) ==
  /\ \A i, j \in DOMAIN lines : \A r \in Actors :
       lines[i] = Line("Completed", r) /\ lines[j] = Line("Started", r) => j < i
  /\ \A i, j \in DOMAIN lines : lines[i] = lines[j] /\ lines[i] # Torn => i = j

\* Appending a line that is new, and no start of a run that is closed, keeps order.
LEMMA AppendKeepsOrder ==
  ASSUME TypeOK, Ordered(log), NEW a \in Actors, AppendLine(a), Ahead(a)
  PROVE  Ordered(log')
<1> DEFINE line == Line(event[a], run[a])
<1>1. log \in Seq(Lines) /\ line \in Lines /\ log' = Append(log, line)
  BY LineIsLine DEF TypeOK, FileOK, AppendLine
<1>2. /\ Len(log) \in Nat /\ DOMAIN log = 1..Len(log) /\ DOMAIN log' = 1..Len(log) + 1
      /\ log'[Len(log) + 1] = line /\ \A i \in 1..Len(log) : log'[i] = log[i]
  <2> HIDE DEF line
  <2> QED
    BY <1>1
<1>3. /\ event[a] \in {"Started", "Completed"} /\ run[a] \in Actors
      /\ pc[a] = "append"
  BY DEF AppendLine, TypeOK, ActorsOK
<1>4. ~Logged("Completed", run[a]) /\ (event[a] = "Started" => ~Logged("Started", run[a]))
  BY <1>3 DEF Ahead, Ended
<1>5. \A i \in DOMAIN log : log[i] # line
  BY <1>3, <1>4 DEF Logged
<1>6. /\ \A r \in Actors : line = Line("Started", r) => r = run[a] /\ event[a] = "Started"
      /\ \A r \in Actors : line = Line("Completed", r) => r = run[a] /\ event[a] = "Completed"
  BY <1>3, LinesApart
<1> HIDE DEF line
<1>7. ASSUME NEW i \in DOMAIN log', NEW j \in DOMAIN log', NEW r \in Actors,
             log'[i] = Line("Completed", r), log'[j] = Line("Started", r)
      PROVE  j < i
  <2>1. CASE i \in 1..Len(log) /\ j \in 1..Len(log)
    BY <1>2, <1>7, <2>1 DEF Ordered
  <2>2. CASE i \in 1..Len(log) /\ j = Len(log) + 1
    <3>1. r = run[a] /\ log[i] = Line("Completed", r)
      BY <1>2, <1>6, <1>7, <2>2
    <3> QED
      BY <1>2, <1>4, <2>2, <3>1 DEF Logged
  <2>3. CASE i = Len(log) + 1 /\ j \in 1..Len(log)
    BY <1>2, <2>3
  <2>4. CASE i = Len(log) + 1 /\ j = Len(log) + 1
    BY <1>2, <1>6, <1>7, <2>4
  <2> QED
    BY <1>2, <2>1, <2>2, <2>3, <2>4
<1>8. ASSUME NEW i \in DOMAIN log', NEW j \in DOMAIN log',
             log'[i] = log'[j], log'[i] # Torn
      PROVE  i = j
  <2>1. CASE i \in 1..Len(log) /\ j \in 1..Len(log)
    BY <1>2, <1>8, <2>1 DEF Ordered
  <2>2. CASE i = Len(log) + 1 \/ j = Len(log) + 1
    BY <1>2, <1>5, <1>8, <2>2
  <2> QED
    BY <1>2, <2>1, <2>2
<1> QED
  BY <1>7, <1>8 DEF Ordered

\* So does writing it over the first lines, when it is the first of its run.
LEMMA FillKeepsOrder ==
  ASSUME TypeOK, Ordered(log), NEW a \in Actors, Fill(a), Ahead(a)
  PROVE  Ordered(log')
<1> DEFINE line == Line(event[a], run[a])
<1>1. log \in Seq(Lines) /\ line \in Lines /\ log' \in Overwritten(line)
  BY LineIsLine DEF TypeOK, FileOK, Fill
<1>2. /\ event[a] \in {"Started", "Completed"} /\ run[a] \in Actors
      /\ pc[a] = "fill"
  BY DEF Fill, TypeOK, ActorsOK
<1>3. ~Logged("Completed", run[a]) /\ ~Logged("Started", run[a])
  BY <1>2 DEF Ahead, Ended
<1>4. \A i \in DOMAIN log : log[i] # line
  BY <1>2, <1>3 DEF Logged
<1>5. /\ \A r \in Actors : line = Line("Started", r) => r = run[a] /\ event[a] = "Started"
      /\ \A r \in Actors : line = Line("Completed", r) => r = run[a] /\ event[a] = "Completed"
      /\ \A r \in Actors : Line("Completed", r) # Torn /\ Line("Started", r) # Torn
      /\ line # Torn
  BY <1>2, LinesApart
<1> HIDE DEF line
<1>6. /\ log' \in Seq(Lines) /\ Len(log') >= 1 /\ log'[1] = line
      /\ \E k \in 0..Len(log) : \E d \in {k - 2, k - 1} :
           /\ \A i \in DOMAIN log' :
                i > 1 => \/ log'[i] = Torn
                         \/ i + d \in DOMAIN log /\ i + d > k /\ log'[i] = log[i + d]
           /\ \A j \in DOMAIN log :
                j > k => j - d \in DOMAIN log' /\ j - d > 1 /\ log'[j - d] = log[j]
  BY <1>1, FillShape
<1>7. PICK d \in Int :
        \A i \in DOMAIN log' :
          i > 1 => log'[i] = Torn \/ (i + d \in DOMAIN log /\ log'[i] = log[i + d])
  <2>1. PICK k \in 0..Len(log) : \E d \in {k - 2, k - 1} :
          \A i \in DOMAIN log' :
            i > 1 => log'[i] = Torn \/ (i + d \in DOMAIN log /\ log'[i] = log[i + d])
    BY <1>6, Zenon
  <2>2. \A d \in {k - 2, k - 1} : d \in Int
    BY <1>1
  <2> QED
    BY <2>1, <2>2, Zenon
<1>8. /\ DOMAIN log = 1..Len(log) /\ Len(log) \in Nat
      /\ DOMAIN log' = 1..Len(log') /\ Len(log') \in Nat
  BY <1>1, <1>6
<1>9. ASSUME NEW i \in DOMAIN log', NEW j \in DOMAIN log', NEW r \in Actors,
             log'[i] = Line("Completed", r), log'[j] = Line("Started", r)
      PROVE  j < i
  <2>1. CASE i > 1 /\ j > 1
    <3>1. /\ i + d \in DOMAIN log /\ log[i + d] = Line("Completed", r)
          /\ j + d \in DOMAIN log /\ log[j + d] = Line("Started", r)
      BY <1>5, <1>7, <1>9, <2>1
    <3>2. j + d < i + d
      BY <3>1 DEF Ordered
    <3> QED
      BY <1>8, <3>2
  <2>2. CASE i = 1 /\ j > 1
    <3>1. j + d \in DOMAIN log /\ log[j + d] = Line("Started", run[a])
      BY <1>5, <1>6, <1>7, <1>9, <2>2
    <3> QED
      BY <1>3, <3>1 DEF Logged
  <2>3. CASE i = 1 /\ j = 1
    BY <1>5, <1>6, <1>9, <2>3
  <2>4. CASE i > 1 /\ j = 1
    BY <2>4
  <2> QED
    BY <1>8, <2>1, <2>2, <2>3, <2>4
<1>10. ASSUME NEW i \in DOMAIN log', NEW j \in DOMAIN log',
              log'[i] = log'[j], log'[i] # Torn
       PROVE  i = j
  <2>1. CASE i > 1 /\ j > 1
    <3>1. i + d \in DOMAIN log /\ j + d \in DOMAIN log /\ log[i + d] = log[j + d]
          /\ log[i + d] # Torn
      BY <1>7, <1>10, <2>1
    <3>2. i + d = j + d
      BY <3>1 DEF Ordered
    <3> QED
      BY <1>8, <3>2
  <2>2. CASE i = 1 /\ j > 1
    BY <1>4, <1>5, <1>6, <1>7, <1>10, <2>2
  <2>3. CASE i > 1 /\ j = 1
    BY <1>4, <1>5, <1>6, <1>7, <1>10, <2>3
  <2> QED
    BY <1>8, <2>1, <2>2, <2>3
<1> QED
  BY <1>9, <1>10 DEF Ordered

LEMMA OrderCorrect == Spec => []Ordered(log)
<1>1. Init => Ordered(log)
  BY DEF Init, Ordered
<1>2. TypeOK /\ AheadInv /\ Ordered(log) /\ [Next]_vars => Ordered(log)'
  <2> SUFFICES ASSUME TypeOK, AheadInv, Ordered(log), [Next]_vars PROVE Ordered(log')
    BY DEF Ordered
  <2>1. ASSUME NEW a \in Actors, AppendLine(a) \/ Fill(a) PROVE Ordered(log')
    BY <2>1, AppendKeepsOrder, FillKeepsOrder DEF AheadInv
  <2>2. ASSUME NEW a \in Actors, Truncate(a) PROVE Ordered(log')
    BY <2>2 DEF Truncate, Ordered
  <2>3. CASE UNCHANGED log
    BY <2>3
  <2> QED
    BY StepCases, <2>1, <2>2, <2>3
       DEF fileVars, vars, Look, EmitFails, Crash, Begin, Finish, BeginPre, CreateRecord,
           FillRecord, BeginPost, DeleteRecord, RecordFails
<1> QED
  BY <1>1, <1>2, TypeCorrect, AheadInvCorrect, PTL DEF Spec

\* A run's start is before its end, for any number of processes that create and
\* overwrite the file at once.
THEOREM StartedFirstCorrect == Spec => []StartedFirst
<1>1. Ordered(log) => StartedFirst
  BY DEF Ordered, StartedFirst
<1> QED
  BY <1>1, OrderCorrect, PTL

\* No event is there twice, under the same conditions.
THEOREM AtMostOnceCorrect == Spec => []AtMostOnce
<1>1. Ordered(log) => AtMostOnce
  BY DEF Ordered, AtMostOnce
<1> QED
  BY <1>1, OrderCorrect, PTL

\* What Fill overwrites is the oldest part: a start is never left without its end.
LEMMA FillKeepsEnds ==
  ASSUME TypeOK, Ordered(log), NEW a \in Actors, Fill(a), NEW r \in Actors,
         Logged("Completed", r), Logged("Started", r)', ~(event[a] = "Started" /\ r = run[a])
  PROVE  Logged("Completed", r)'
<1> DEFINE line == Line(event[a], run[a])
<1>1. log \in Seq(Lines) /\ line \in Lines /\ log' \in Overwritten(line)
  BY LineIsLine DEF TypeOK, FileOK, Fill
<1>2. line # Line("Started", r) /\ Line("Started", r) # Torn
  BY LinesApart
<1> HIDE DEF line
<1>3. /\ log' \in Seq(Lines) /\ Len(log') >= 1 /\ log'[1] = line
      /\ \E k \in 0..Len(log) : \E d \in {k - 2, k - 1} :
           /\ \A i \in DOMAIN log' :
                i > 1 => \/ log'[i] = Torn
                         \/ i + d \in DOMAIN log /\ i + d > k /\ log'[i] = log[i + d]
           /\ \A j \in DOMAIN log :
                j > k => j - d \in DOMAIN log' /\ j - d > 1 /\ log'[j - d] = log[j]
  BY <1>1, FillShape
<1>4. PICK i \in DOMAIN log' : log'[i] = Line("Started", r)
  BY DEF Logged
<1>5. PICK j \in DOMAIN log : log[j] = Line("Completed", r)
  BY DEF Logged
<1>6. i > 1 /\ DOMAIN log = 1..Len(log) /\ Len(log) \in Nat
  BY <1>1, <1>2, <1>3, <1>4
<1>7. PICK k \in 0..Len(log) : \E d \in {k - 2, k - 1} :
        /\ i + d \in DOMAIN log /\ i + d > k /\ log'[i] = log[i + d]
        /\ j > k => j - d \in DOMAIN log' /\ log'[j - d] = log[j]
  BY <1>2, <1>3, <1>4, <1>6, Zenon
<1>8. PICK d \in {k - 2, k - 1} :
        /\ i + d \in DOMAIN log /\ i + d > k /\ log'[i] = log[i + d]
        /\ j > k => j - d \in DOMAIN log' /\ log'[j - d] = log[j]
  BY <1>7
<1>9. i + d < j
  BY <1>4, <1>5, <1>8 DEF Ordered
<1>10. j > k
  BY <1>6, <1>8, <1>9
<1> QED
  BY <1>5, <1>8, <1>10 DEF Logged

\* A run that the log shows as started is shown as completed once its last process
\* has ended well, whatever lines were lost before.
THEOREM OpenRunsAreOpenCorrect == Spec => []OpenRunsAreOpen
<1>1. Init => OpenRunsAreOpen
  BY DEF Init, OpenRunsAreOpen, Logged
<1>2. TypeOK /\ Places /\ Ordered(log) /\ OpenRunsAreOpen /\ [Next]_vars
        => OpenRunsAreOpen'
  <2> SUFFICES ASSUME TypeOK, Places, Ordered(log), OpenRunsAreOpen, [Next]_vars,
                      NEW a \in Actors, Closed(a)', Logged("Started", run[a])'
               PROVE  Logged("Completed", run[a])'
    BY DEF OpenRunsAreOpen
  <2>1. a[2] # "pre" /\ pc'[a] = "done" /\ a \notin dropped' /\ run[a] \in Actors
    BY DEF Closed, TypeOK, ActorsOK
  <2> USE DEF Goto, Emit, AfterEmit, fileVars, TypeOK, ActorsOK
  <2>2. ASSUME NEW b \in Actors, AppendLine(b) \/ Fill(b)
        PROVE  Logged("Completed", run[a])'
    <3>1. /\ UNCHANGED <<run, dropped>> /\ pc[b] \in {"append", "fill"}
          /\ event[b] \in {"Started", "Completed"}
          /\ \A c \in Actors : c # b => pc'[c] = pc[c]
      BY <2>2 DEF AppendLine, Fill
    <3>2. /\ event[b] = "Completed" /\ run[b] = run[a] => Logged("Completed", run[a])'
          /\ Logged("Started", run[a]) \/ (event[b] = "Started" /\ run[b] = run[a])
      <4>1. \A kind \in {"Started", "Completed"}, r \in Actors :
              /\ kind = event[b] /\ r = run[b] => Logged(kind, r)'
              /\ Logged(kind, r)' => Logged(kind, r) \/ (kind = event[b] /\ r = run[b])
        BY <2>2, AppendShows, FillShows
      <4> QED
        BY <2>1, <3>1, <4>1
    <3>3. CASE a = b
      <4>1. event[a] = "Completed"
        BY <2>1, <2>2, <3>3 DEF AppendLine, Fill
      <4> QED
        BY <3>2, <3>3, <4>1
    <3>4. CASE a # b
      <4>1. Closed(a)
        BY <2>1, <3>1, <3>4 DEF Closed
      <4>2. ~(event[b] = "Started" /\ run[a] = run[b])
        <5> SUFFICES ASSUME run[a] = run[b] PROVE FALSE
          OBVIOUS
        <5>1. PICK t \in Tools : {a, b} = {Pre(t), Post(t)} /\ pc[Pre(t)] \in Ended
          BY <3>4, Sharing
        <5>2. b = Pre(t)
          BY <2>1, <5>1, ActorCases
        <5> QED
          BY <3>1, <5>1, <5>2 DEF Ended
      <4>3. Logged("Completed", run[a])
        BY <3>2, <4>1, <4>2 DEF OpenRunsAreOpen
      <4>4. CASE AppendLine(b)
        BY <2>1, <3>1, <4>3, <4>4, AppendShows
      <4>5. CASE Fill(b)
        <5>1. Logged("Started", run[a])' /\ run' = run
          BY <3>1
        <5> QED
          BY <2>1, <4>2, <4>3, <4>5, <5>1, FillKeepsEnds
      <4> QED
        BY <2>2, <4>4, <4>5
    <3> QED
      BY <3>3, <3>4
  <2>3. ASSUME NEW b \in Actors, Truncate(b) PROVE FALSE
    BY <2>3, TruncateShows
  <2>4. CASE UNCHANGED log /\ run'[a] = run[a] /\ Closed(a)
    BY <2>4 DEF OpenRunsAreOpen, Logged
  <2>5. ASSUME NEW b \in Actors, Look(b) \/ EmitFails(b) \/ Crash(b)
        PROVE  Logged("Completed", run[a])'
    BY <2>1, <2>4, <2>5 DEF Look, EmitFails, Crash, Closed
  <2>6. ASSUME NEW c \in CommandProcs, Begin(c) \/ Finish(c)
        PROVE  Logged("Completed", run[a])'
    BY <2>1, <2>4, <2>6 DEF Begin, Finish, Closed
  <2>7. ASSUME NEW t \in Tools, BeginPre(t) \/ CreateRecord(t) \/ FillRecord(t)
        PROVE  Logged("Completed", run[a])'
    BY <2>1, <2>4, <2>7, ActorCases DEF BeginPre, CreateRecord, FillRecord, Closed
  <2>8. ASSUME NEW t \in Tools, BeginPost(t) \/ DeleteRecord(t) \/ RecordFails(t)
        PROVE  Logged("Completed", run[a])'
    BY <2>1, <2>4, <2>8, ActorCases DEF BeginPost, DeleteRecord, RecordFails, Closed
  <2>9. CASE UNCHANGED vars
    BY <2>1, <2>4, <2>9 DEF vars, Closed
  <2> QED
    BY StepCases, <2>2, <2>3, <2>5, <2>6, <2>7, <2>8, <2>9
<1> QED
  BY <1>1, <1>2, TypeCorrect, PlacesCorrect, OrderCorrect, PTL DEF Spec

-----------------------------------------------------------------------------
(* The event store implements Lifecycle *)

\* A store that did not have to be created shows each run to move through the
\* states of Lifecycle: only an append moves one, and every other step stutters.
THEOREM ImplementsLifecycleCorrect == Spec => ImplementsLifecycle
<1>1. Init => Abstract!Init
  BY DEF Init, Abstract!Init, Shown, Logged
<1>2. TypeOK /\ Settled /\ AheadInv /\ [Next]_vars => [Abstract!Next]_Shown
  <2> SUFFICES ASSUME TypeOK, Settled, AheadInv, [Next]_vars
               PROVE  Abstract!Next \/ UNCHANGED Shown
    OBVIOUS
  <2>1. ASSUME NEW a \in Actors, AppendLine(a), existed
        PROVE  Abstract!Next
    <3> DEFINE r == run[a]
    <3>1. /\ r \in Actors /\ event[a] \in {"Started", "Completed"} /\ pc[a] = "append"
          /\ existed'
      BY <2>1 DEF AppendLine, TypeOK, ActorsOK
    <3>2. /\ ~Logged("Completed", r)
          /\ event[a] = "Started" => ~Logged("Started", r)
      BY <3>1 DEF AheadInv, Ahead, Ended
    <3> HIDE DEF r
    <3>3. \A kind \in {"Started", "Completed"}, q \in Actors :
            Logged(kind, q)' <=> Logged(kind, q) \/ (kind = event[a] /\ q = r)
      BY <2>1, AppendShows DEF r
    <3>4. \A q \in Actors \ {r} : Shown'[q] = Shown[q]
      BY <2>1, <3>1, <3>3 DEF Shown
    <3>5. \/ Shown[r] = "unseen" /\ Shown'[r] = "open"
          \/ Shown[r] = "open" /\ Shown'[r] = "closed"
          \/ Shown[r] = "unseen" /\ Shown'[r] = "headless"
      BY <2>1, <3>1, <3>2, <3>3 DEF Shown
    <3>6. DOMAIN Shown = Actors /\ DOMAIN Shown' = Actors
          /\ Shown = [q \in Actors |-> Shown[q]] /\ Shown' = [q \in Actors |-> Shown'[q]]
      BY DEF Shown
    <3>7. Shown' = [Shown EXCEPT ![r] = Shown'[r]]
      BY <3>1, <3>4, <3>6
    <3> QED
      BY <3>1, <3>5, <3>7 DEF Abstract!Next, Abstract!Move
  <2>2. ASSUME NEW a \in Actors, Truncate(a) \/ Fill(a), existed PROVE FALSE
    BY <2>2 DEF Truncate, Fill, Settled
  <2>3. ASSUME ~existed, UNCHANGED existed PROVE UNCHANGED Shown
    BY <2>3 DEF Shown
  <2>4. ASSUME UNCHANGED <<existed, log>> PROVE UNCHANGED Shown
    BY <2>4 DEF Shown, Logged
  <2> QED
    BY StepCases, <2>1, <2>2, <2>3, <2>4
       DEF fileVars, vars, Look, AppendLine, Truncate, Fill, EmitFails, Crash, Begin,
           Finish, BeginPre, CreateRecord, FillRecord, BeginPost, DeleteRecord, RecordFails
<1> QED
  BY <1>1, <1>2, TypeCorrect, SettledCorrect, AheadInvCorrect, PTL
     DEF Spec, ImplementsLifecycle, Abstract!Spec
-----------------------------------------------------------------------------
(* The pass of the reader over a log *)

\* A log of whole lines in order: each event once, a start before its end.
WellFormed(lines) ==
  /\ Len(lines) \in Nat /\ DOMAIN lines = 1..Len(lines)
  /\ \A i \in 1..Len(lines) : lines[i].kind \in {"Started", "Completed"} /\ lines[i] # Torn
  /\ \A i, j \in 1..Len(lines) :
       lines[i].run = lines[j].run =>
         /\ lines[i].kind = lines[j].kind => i = j
         /\ lines[i].kind = "Completed" /\ lines[j].kind = "Started" => j < i

LEMMA LogIsWellFormed ==
  ASSUME TypeOK, Ordered(log), \A i \in DOMAIN log : log[i] # Torn
  PROVE  WellFormed(log)
<1>1. log \in Seq(Lines) /\ Len(log) \in Nat /\ DOMAIN log = 1..Len(log)
  BY DEF TypeOK, FileOK
<1>2. \A i \in 1..Len(log) :
        /\ log[i].kind \in {"Started", "Completed"} /\ log[i].run \in Actors
        /\ log[i] = Line(log[i].kind, log[i].run)
  <2>1. \A i \in 1..Len(log) : log[i] \in Lines /\ log[i] # Torn
    BY <1>1
  <2> QED
    BY <2>1 DEF Lines, Line
<1>3. ASSUME NEW i \in 1..Len(log), NEW j \in 1..Len(log), log[i].run = log[j].run
      PROVE  /\ log[i].kind = log[j].kind => i = j
             /\ log[i].kind = "Completed" /\ log[j].kind = "Started" => j < i
  <2>1. i \in DOMAIN log /\ j \in DOMAIN log /\ log[i] # Torn
    BY <1>1
  <2>2. log[i] = Line(log[i].kind, log[i].run) /\ log[j] = Line(log[j].kind, log[i].run)
    BY <1>2, <1>3
  <2>3. log[i].kind = log[j].kind => i = j
    BY <2>1, <2>2, Zenon DEF Ordered
  <2>4. log[i].kind = "Completed" /\ log[j].kind = "Started" => j < i
    BY <1>2, <2>1, <2>2, Zenon DEF Ordered
  <2> QED
    BY <2>3, <2>4
<1> QED
  BY <1>1, <1>2, <1>3 DEF WellFormed

Builder(b) ==
  b \in [pending : SUBSET Nat, records : Seq([start : Nat, done : Nat]),
         warnings : SUBSET [kind : {"OrphanCompleted"}, at : Nat], phase : {"read"}]

Ends(lines, j, i) == lines[j].kind = "Completed" /\ lines[j].run = lines[i].run

\* What the builders hold after n lines of it.
PendingOf(lines, pending, n) ==
  \A i : i \in pending <=> /\ i \in 1..n /\ lines[i].kind = "Started"
                           /\ ~\E j \in 1..n : Ends(lines, j, i)
RecordsAre(lines, records, n) ==
  /\ \A k \in DOMAIN records :
       /\ records[k].start \in 1..n /\ lines[records[k].start].kind = "Started"
       /\ records[k].done \in 1..n /\ Ends(lines, records[k].done, records[k].start)
  /\ \A j, k \in DOMAIN records : records[j].start = records[k].start => j = k
  /\ \A i, j \in 1..n :
       lines[i].kind = "Started" /\ Ends(lines, j, i) =>
         \E k \in DOMAIN records : records[k].start = i /\ records[k].done = j
WarningsAre(lines, warnings, n) ==
  \A w \in warnings :
    /\ w.kind = "OrphanCompleted" /\ w.at \in 1..n /\ lines[w.at].kind = "Completed"
    /\ ~\E i \in 1..Len(lines) : lines[i].kind = "Started" /\ Ends(lines, w.at, i)
Joined(lines, b, n) ==
  /\ Builder(b)
  /\ PendingOf(lines, b.pending, n)
  /\ RecordsAre(lines, b.records, n)
  /\ WarningsAre(lines, b.warnings, n)

\* A Started is the first event of its run.
LEMMA StartedIsRead ==
  ASSUME NEW lines, WellFormed(lines), NEW n \in 1..Len(lines), NEW b,
         Joined(lines, b, n - 1), lines[n].kind = "Started"
  PROVE  Joined(lines, ReadLine(lines, b, n), n)
<1> DEFINE evs == EventsOf(lines)
<1>1. /\ Len(lines) \in Nat /\ DOMAIN lines = 1..Len(lines) /\ n \in Nat /\ n \in ParseLenient(lines)
      /\ \A i \in 1..Len(lines) : evs[i].kind = lines[i].kind /\ evs[i].run = lines[i].run
      /\ \A i \in 1..(n - 1) : i \in 1..Len(lines) /\ i # n
      /\ \A i : i \in 1..n <=> i \in 1..(n - 1) \/ i = n
  BY DEF WellFormed, ParseLenient, EventsOf, EventOf
<1> HIDE DEF evs
<1>2. \A i \in 1..(n - 1) : lines[i].run # lines[n].run
  BY <1>1 DEF WellFormed
<1>3. \A i \in b.pending : i \in 1..(n - 1)
  BY DEF Joined, PendingOf
<1>4. Join!OpenStarts(evs, b, n) = {}
  BY <1>1, <1>2, <1>3 DEF Join!OpenStarts
<1>5. Join!Consume(evs, b, n) = {[b EXCEPT !.pending = @ \cup {n}]}
  BY <1>1, <1>4 DEF Join!Consume, Join!OnStarted
<1>6. ReadLine(lines, b, n) = [b EXCEPT !.pending = @ \cup {n}]
  BY <1>1, <1>5 DEF ReadLine, evs
<1>7. PICK c : c = [b EXCEPT !.pending = @ \cup {n}]
  OBVIOUS
<1>8. /\ Builder(c) /\ c.pending = b.pending \cup {n}
      /\ c.records = b.records /\ c.warnings = b.warnings
  BY <1>1, <1>7 DEF Builder, Joined
<1>9. lines[n].kind # "Completed"
  OBVIOUS
<1>10. \A i \in 1..(n - 1) : ~Ends(lines, n, i) /\ ~Ends(lines, i, n)
  BY <1>2, <1>9 DEF Ends
<1>11. ~Ends(lines, n, n)
  BY <1>9 DEF Ends
<1>12. PendingOf(lines, c.pending, n)
  <2>1. PendingOf(lines, b.pending, n - 1)
    BY DEF Joined
  <2> QED
    BY <1>1, <1>8, <1>10, <1>11, <2>1, Zenon DEF PendingOf
<1>13. RecordsAre(lines, c.records, n)
  <2>1. RecordsAre(lines, b.records, n - 1)
    BY DEF Joined
  <2> QED
    BY <1>1, <1>8, <1>10, <1>11, <2>1 DEF RecordsAre
<1>14. WarningsAre(lines, c.warnings, n)
  <2>1. WarningsAre(lines, b.warnings, n - 1)
    BY DEF Joined
  <2> QED
    BY <1>1, <1>8, <2>1, Zenon DEF WarningsAre
<1> QED
  BY <1>6, <1>7, <1>8, <1>12, <1>13, <1>14 DEF Joined

LEMMA Appended ==
  ASSUME NEW S, NEW s \in Seq(S), NEW e \in S, NEW t, t = Append(s, e)
  PROVE  \E m \in Nat : /\ m = Len(s) /\ DOMAIN s = 1..m /\ DOMAIN t = 1..(m + 1)
                        /\ \A k \in 1..m : t[k] = s[k]
                        /\ t[m + 1] = e
  OBVIOUS

\* A Completed closes the run that is open, or is an orphan.
LEMMA CompletedIsRead ==
  ASSUME NEW lines, WellFormed(lines), NEW n \in 1..Len(lines), NEW b,
         Joined(lines, b, n - 1), lines[n].kind = "Completed"
  PROVE  Joined(lines, ReadLine(lines, b, n), n)
<1> DEFINE evs == EventsOf(lines)
<1>1. /\ Len(lines) \in Nat /\ DOMAIN lines = 1..Len(lines) /\ n \in Nat /\ n \in ParseLenient(lines)
      /\ \A i \in 1..Len(lines) : evs[i].kind = lines[i].kind /\ evs[i].run = lines[i].run
      /\ \A i \in 1..(n - 1) : i \in 1..Len(lines) /\ i # n
      /\ \A i : i \in 1..n <=> i \in 1..(n - 1) \/ i = n
  BY DEF WellFormed, ParseLenient, EventsOf, EventOf
<1> HIDE DEF evs
<1>2. /\ PendingOf(lines, b.pending, n - 1) /\ RecordsAre(lines, b.records, n - 1)
      /\ WarningsAre(lines, b.warnings, n - 1) /\ Builder(b)
  BY DEF Joined
<1>3. \A i \in 1..(n - 1) : /\ lines[i].kind = "Started" => ~Ends(lines, i, n)
                            /\ ~(lines[i].kind = "Completed" /\ lines[i].run = lines[n].run)
                            /\ ~(Ends(lines, i, n) /\ lines[i].kind # "Started")
  BY <1>1 DEF WellFormed, Ends
<1>4. lines[n].kind # "Started" /\ \A i : Ends(lines, n, i) <=> lines[n].run = lines[i].run
  BY DEF Ends
<1>5. \A i : i \in Join!OpenStarts(evs, b, n) <=>
            i \in 1..(n - 1) /\ lines[i].kind = "Started" /\ lines[i].run = lines[n].run
  <2>1. \A i \in 1..(n - 1) : lines[i].run = lines[n].run => ~\E j \in 1..(n - 1) : Ends(lines, j, i)
    BY <1>3 DEF Ends
  <2>2. \A i : i \in Join!OpenStarts(evs, b, n) <=> i \in b.pending /\ evs[i].run = evs[n].run
    BY DEF Join!OpenStarts
  <2> QED
    BY <1>1, <1>2, <2>1, <2>2, Zenon DEF PendingOf
<1>6. Join!Consume(evs, b, n) = Join!OnCompleted(evs, b, n)
  BY <1>1, <1>4 DEF Join!Consume
<1>7. ASSUME NEW i \in Join!OpenStarts(evs, b, n)
      PROVE  Joined(lines, ReadLine(lines, b, n), n)
  <2>1. i \in 1..(n - 1) /\ lines[i].kind = "Started" /\ lines[i].run = lines[n].run /\ i \in Nat
    BY <1>5, <1>1
  <2>2. Join!OpenStarts(evs, b, n) = {i}
    BY <1>1, <1>5, <2>1 DEF WellFormed
  <2>3. Join!OnCompleted(evs, b, n) = {Join!Record(b, i, n)}
    BY <2>2 DEF Join!OnCompleted
  <2>4. ReadLine(lines, b, n) = Join!Record(b, i, n)
    BY <1>1, <1>6, <2>3 DEF ReadLine, evs
  <2>5. PICK c : c = Join!Record(b, i, n)
    OBVIOUS
  <2>6. PICK rec : rec = [start |-> i, done |-> n]
    OBVIOUS
  <2>7. /\ Builder(c) /\ c.pending = b.pending \ {i} /\ c.warnings = b.warnings
        /\ c.records = Append(b.records, rec)
    <3>1. c = [b EXCEPT !.pending = @ \ {i}, !.records = Append(@, rec)]
      BY <2>5, <2>6 DEF Join!Record
    <3>2. rec \in [start : Nat, done : Nat] /\ b.records \in Seq([start : Nat, done : Nat])
      BY <1>1, <1>2, <2>1, <2>6 DEF Builder
    <3>3. Append(b.records, rec) \in Seq([start : Nat, done : Nat])
      BY <3>2
    <3> QED
      BY <1>2, <3>1, <3>3 DEF Builder
  <2>8. PICK m \in Nat : /\ m = Len(b.records) /\ DOMAIN b.records = 1..m /\ DOMAIN c.records = 1..(m + 1)
                         /\ \A k \in 1..m : c.records[k] = b.records[k]
                         /\ c.records[m + 1] = rec
    <3>1. PICK S : S = [start : Nat, done : Nat]
      OBVIOUS
    <3>2. rec \in S /\ b.records \in Seq(S)
      BY <1>1, <1>2, <2>1, <2>6, <3>1 DEF Builder
    <3> QED
      BY <2>7, <3>2, Appended
  <2>9. rec.start = i /\ rec.done = n
    BY <2>6
  <2>10. \A k \in 1..(m + 1) : k \in 1..m \/ k = m + 1
    BY <2>8
  <2>11. PendingOf(lines, c.pending, n)
    <3>1. \A k \in 1..(n - 1) : lines[k].kind = "Started" => (Ends(lines, n, k) <=> k = i)
      BY <1>1, <1>4, <2>1 DEF WellFormed
    <3> QED
      BY <1>1, <1>2, <1>4, <2>1, <2>7, <3>1 DEF PendingOf
  <2>12. RecordsAre(lines, c.records, n)
    <3>1. \A k \in 1..m : b.records[k].start # i
      <4> SUFFICES ASSUME NEW k \in 1..m, b.records[k].start = i PROVE FALSE
        OBVIOUS
      <4>1. b.records[k].done \in 1..(n - 1) /\ Ends(lines, b.records[k].done, i)
        BY <1>2, <2>8 DEF RecordsAre
      <4> QED
        BY <1>3, <2>1, <4>1 DEF Ends
    <3>2. \A k \in 1..(m + 1) :
            /\ c.records[k].start \in 1..n /\ lines[c.records[k].start].kind = "Started"
            /\ c.records[k].done \in 1..n /\ Ends(lines, c.records[k].done, c.records[k].start)
      <4>1. \A k \in 1..m :
              /\ b.records[k].start \in 1..(n - 1) /\ lines[b.records[k].start].kind = "Started"
              /\ b.records[k].done \in 1..(n - 1) /\ Ends(lines, b.records[k].done, b.records[k].start)
        BY <1>2, <2>8, Zenon DEF RecordsAre
      <4>2. i \in 1..n /\ n \in 1..n /\ Ends(lines, n, i)
        BY <1>1, <1>4, <2>1
      <4>3. \A j \in 1..(n - 1) : j \in 1..n
        BY <1>1
      <4>4. ASSUME NEW k \in 1..m
            PROVE  /\ c.records[k].start \in 1..n /\ lines[c.records[k].start].kind = "Started"
                   /\ c.records[k].done \in 1..n /\ Ends(lines, c.records[k].done, c.records[k].start)
        <5>1. c.records[k] = b.records[k]
          BY <2>8
        <5> QED
          BY <4>1, <4>3, <5>1
      <4>5. /\ c.records[m + 1].start \in 1..n /\ lines[c.records[m + 1].start].kind = "Started"
            /\ c.records[m + 1].done \in 1..n
            /\ Ends(lines, c.records[m + 1].done, c.records[m + 1].start)
        BY <2>1, <2>8, <2>9, <4>2
      <4> QED
        BY <2>10, <4>4, <4>5, Zenon
    <3>3. \A j, k \in 1..(m + 1) : c.records[j].start = c.records[k].start => j = k
      <4>1. \A j, k \in 1..m : b.records[j].start = b.records[k].start => j = k
        BY <1>2, <2>8 DEF RecordsAre
      <4> QED
        BY <2>8, <2>9, <2>10, <3>1, <4>1, Zenon
    <3>4. ASSUME NEW p \in 1..n, NEW q \in 1..n, lines[p].kind = "Started", Ends(lines, q, p)
          PROVE  \E k \in 1..(m + 1) : c.records[k].start = p /\ c.records[k].done = q
      <4>1. p \in 1..(n - 1)
        BY <1>1, <1>4, <3>4
      <4>2. CASE q = n
        <5>1. p = i
          BY <1>1, <1>4, <2>1, <3>4, <4>1, <4>2 DEF WellFormed
        <5>2. m + 1 \in 1..(m + 1)
          BY <2>8
        <5> QED
          BY <2>8, <2>9, <4>2, <5>1, <5>2, Zenon
      <4>3. CASE q \in 1..(n - 1)
        <5>1. \A u, v \in 1..(n - 1) : lines[u].kind = "Started" /\ Ends(lines, v, u) =>
                 \E k \in DOMAIN b.records : b.records[k].start = u /\ b.records[k].done = v
          BY <1>2, Zenon DEF RecordsAre
        <5>2. PICK k \in DOMAIN b.records : b.records[k].start = p /\ b.records[k].done = q
          BY <3>4, <4>1, <4>3, <5>1
        <5>3. DOMAIN b.records = 1..m /\ \A j \in 1..m : j \in 1..(m + 1)
          BY <2>8
        <5>4. k \in 1..m /\ k \in 1..(m + 1)
          BY <5>3
        <5> QED
          BY <2>8, <5>2, <5>4, Zenon
      <4> QED
        BY <1>1, <4>2, <4>3
    <3>5. DOMAIN c.records = 1..(m + 1)
      BY <2>8
    <3>6. PICK recs : recs = c.records
      OBVIOUS
    <3>7. DOMAIN recs = 1..(m + 1)
      BY <3>5, <3>6
    <3>8. RecordsAre(lines, recs, n)
      <4>1. \A k \in DOMAIN recs :
              /\ recs[k].start \in 1..n /\ lines[recs[k].start].kind = "Started"
              /\ recs[k].done \in 1..n /\ Ends(lines, recs[k].done, recs[k].start)
        BY <3>2, <3>6, <3>7, Zenon
      <4>2. \A j, k \in DOMAIN recs : recs[j].start = recs[k].start => j = k
        BY <3>3, <3>6, <3>7, Zenon
      <4>3. \A p, q \in 1..n :
              lines[p].kind = "Started" /\ Ends(lines, q, p) =>
                \E k \in DOMAIN recs : recs[k].start = p /\ recs[k].done = q
        BY <3>4, <3>6, <3>7, Zenon
      <4> QED
        BY <4>1, <4>2, <4>3, Zenon DEF RecordsAre
    <3> QED
      BY <3>6, <3>8
  <2>13. WarningsAre(lines, c.warnings, n)
    BY <1>1, <1>2, <2>7, Zenon DEF WarningsAre
  <2> QED
    BY <2>4, <2>5, <2>7, <2>11, <2>12, <2>13 DEF Joined
<1>8. CASE Join!OpenStarts(evs, b, n) = {}
  <2>1. \A i \in 1..Len(lines) : ~(lines[i].kind = "Started" /\ Ends(lines, n, i))
    BY <1>1, <1>4, <1>5, <1>8 DEF WellFormed
  <2>2. ~Join!AlreadyCompleted(evs, b, n)
    BY <1>1, <1>2, <1>4, <2>1 DEF Join!AlreadyCompleted, RecordsAre
  <2>3. Join!OnCompleted(evs, b, n) = {Join!Warn(b, "OrphanCompleted", n)}
    BY <1>8, <2>2 DEF Join!OnCompleted
  <2>4. ReadLine(lines, b, n) = Join!Warn(b, "OrphanCompleted", n)
    BY <1>1, <1>6, <2>3 DEF ReadLine, evs
  <2>5. PICK c : c = Join!Warn(b, "OrphanCompleted", n)
    OBVIOUS
  <2>6. PICK w : w = [kind |-> "OrphanCompleted", at |-> n]
    OBVIOUS
  <2>7. /\ Builder(c) /\ c.pending = b.pending /\ c.records = b.records
        /\ c.warnings = b.warnings \cup {w}
    <3>1. c = [b EXCEPT !.warnings = @ \cup {w}]
      BY <2>5, <2>6 DEF Join!Warn
    <3>2. w \in [kind : {"OrphanCompleted"}, at : Nat]
      BY <1>1, <2>6
    <3> QED
      BY <1>2, <3>1, <3>2 DEF Builder
  <2>8. w.kind = "OrphanCompleted" /\ w.at = n
    BY <2>6
  <2>9. \A i \in 1..(n - 1) : lines[i].kind = "Started" => ~Ends(lines, n, i) /\ ~Ends(lines, i, n)
    BY <1>1, <1>3, <2>1
  <2>10. PendingOf(lines, c.pending, n)
    BY <1>1, <1>2, <1>4, <2>7, <2>9, Zenon DEF PendingOf
  <2>11. RecordsAre(lines, c.records, n)
    BY <1>1, <1>2, <1>4, <2>7, <2>9 DEF RecordsAre
  <2>12. WarningsAre(lines, c.warnings, n)
    BY <1>1, <1>2, <2>1, <2>7, <2>8, Zenon DEF WarningsAre
  <2> QED
    BY <2>4, <2>5, <2>7, <2>10, <2>11, <2>12 DEF Joined
<1> QED
  BY <1>7, <1>8

\* The pass goes through the lines one by one.
PassOver(lines, f) ==
  /\ f[0] = Join!Fresh
  /\ \A n \in 1..Len(lines) : f[n] = ReadLine(lines, f[n - 1], n)

LEMMA BuildersAfter ==
  ASSUME NEW lines, Len(lines) \in Nat
  PROVE  \E f : PassOver(lines, f) /\ Builders(lines) = f[Len(lines)]
<1> DEFINE Passes(f, n) == f = [k \in 0..n |-> IF k = 0 THEN Join!Fresh ELSE ReadLine(lines, f[k - 1], k)]
           Good == {n \in Nat : \E f : Passes(f, n)}
<1>1. 0 \in Good
  <2>1. Passes([k \in 0..0 |-> Join!Fresh], 0)
    OBVIOUS
  <2> QED
    BY <2>1
<1>2. ASSUME NEW n \in Nat, n \in Good PROVE n + 1 \in Good
  <2>1. PICK f : Passes(f, n)
    BY <1>2
  <2> DEFINE g == [k \in 0..(n + 1) |-> IF k = n + 1 THEN ReadLine(lines, f[n], n + 1) ELSE f[k]]
  <2>2. \A k \in 0..(n + 1) : g[k] = IF k = 0 THEN Join!Fresh ELSE ReadLine(lines, g[k - 1], k)
    <3>1. \A k \in 0..n : k \in 0..(n + 1) /\ k # n + 1 /\ g[k] = f[k]
      OBVIOUS
    <3>2. \A k \in 0..n : f[k] = IF k = 0 THEN Join!Fresh ELSE ReadLine(lines, f[k - 1], k)
      BY <2>1
    <3>3. \A k \in 0..(n + 1) : k = n + 1 \/ k \in 0..n
      OBVIOUS
    <3>4. \A k \in 0..n : k # 0 => k - 1 \in 0..n
      OBVIOUS
    <3>5. n + 1 \in 0..(n + 1) /\ n + 1 # 0 /\ (n + 1) - 1 = n /\ n \in 0..n
      OBVIOUS
    <3>6. g[n + 1] = ReadLine(lines, g[n], n + 1)
      BY <3>1, <3>5
    <3> HIDE DEF g
    <3> QED
      BY <3>1, <3>2, <3>3, <3>4, <3>5, <3>6, Zenon
  <2>3. Passes(g, n + 1)
    <3>1. g = [k \in 0..(n + 1) |-> g[k]]
      OBVIOUS
    <3> HIDE DEF g
    <3> QED
      BY <2>2, <3>1
  <2> HIDE DEF g, Passes
  <2> QED
    BY <2>3
<1> HIDE DEF Good, Passes
<1>3. Nat \subseteq Good
  BY <1>1, <1>2, SetInduction
<1>4. \E f : Passes(f, Len(lines))
  BY <1>3 DEF Good
<1>5. PICK f : f = (CHOOSE g : Passes(g, Len(lines)))
  OBVIOUS
<1>6. Passes(f, Len(lines))
  BY <1>4, <1>5
<1>7. Builders(lines) = f[Len(lines)]
  BY <1>5 DEF Builders, Passes
<1>8. \A n \in 0..Len(lines) : f[n] = IF n = 0 THEN Join!Fresh ELSE ReadLine(lines, f[n - 1], n)
  BY <1>6 DEF Passes
<1>9. PassOver(lines, f)
  BY <1>8 DEF PassOver
<1> QED
  BY <1>7, <1>9

\* Of a log in order the reader joins every pair, and misjudges nothing.
LEMMA LogIsJoined ==
  ASSUME NEW lines, WellFormed(lines)
  PROVE  Joined(lines, Builders(lines), Len(lines))
<1>1. Len(lines) \in Nat
  BY DEF WellFormed
<1>2. PICK f : PassOver(lines, f) /\ Builders(lines) = f[Len(lines)]
  BY <1>1, BuildersAfter
<1> DEFINE Good == {n \in Nat : n <= Len(lines) => Joined(lines, f[n], n)}
<1>3. 0 \in Good
  <2>1. Joined(lines, Join!Fresh, 0)
    <3>1. \A i : ~(i \in 1..0)
      OBVIOUS
    <3>2. /\ Builder(Join!Fresh) /\ Join!Fresh.pending = {} /\ Join!Fresh.warnings = {}
          /\ DOMAIN Join!Fresh.records = {}
      BY DEF Builder, Join!Fresh
    <3> QED
      BY <3>1, <3>2, Zenon DEF Joined, PendingOf, RecordsAre, WarningsAre
  <2> QED
    BY <1>2, <2>1 DEF PassOver
<1>4. ASSUME NEW n \in Nat, n \in Good PROVE n + 1 \in Good
  <2> SUFFICES ASSUME n + 1 <= Len(lines) PROVE Joined(lines, f[n + 1], n + 1)
    OBVIOUS
  <2>1. n + 1 \in 1..Len(lines) /\ (n + 1) - 1 = n /\ n <= Len(lines)
    BY <1>1
  <2>2. Joined(lines, f[n], n) /\ f[n + 1] = ReadLine(lines, f[n], n + 1)
    BY <1>2, <1>4, <2>1 DEF PassOver
  <2>3. PICK b : b = f[n]
    OBVIOUS
  <2>4. Joined(lines, b, (n + 1) - 1)
    BY <2>1, <2>2, <2>3
  <2>5. lines[n + 1].kind \in {"Started", "Completed"}
    BY <2>1 DEF WellFormed
  <2>6. Joined(lines, ReadLine(lines, b, n + 1), n + 1)
    BY <2>1, <2>4, <2>5, StartedIsRead, CompletedIsRead
  <2> QED
    BY <2>2, <2>3, <2>6
<1> HIDE DEF Good
<1>5. Nat \subseteq Good
  BY <1>3, <1>4, SetInduction
<1>6. Len(lines) \in Good
  BY <1>1, <1>5
<1> QED
  BY <1>1, <1>2, <1>6 DEF Good

-----------------------------------------------------------------------------
(* What the statistics say of each run *)

\* Nothing overwrites a line of a file that was there.
WholeInv == existed => \A i \in DOMAIN log : log[i] # Torn

LEMMA WholeInvCorrect == Spec => []WholeInv
<1>1. Init => WholeInv
  BY DEF Init, WholeInv
<1>2. TypeOK /\ Settled /\ WholeInv /\ [Next]_vars => WholeInv'
  <2> SUFFICES ASSUME TypeOK, Settled, WholeInv, [Next]_vars PROVE WholeInv'
    OBVIOUS
  <2> USE DEF fileVars
  <2>1. ASSUME NEW a \in Actors, AppendLine(a) PROVE WholeInv'
    <3>1. event[a] \in {"Started", "Completed"} /\ log \in Seq(Lines)
      BY DEF TypeOK, ActorsOK, FileOK
    <3>2. Line(event[a], run[a]) # Torn
      BY <3>1, LinesApart
    <3>3. PICK line \in Lines : line = Line(event[a], run[a])
      BY LineIsLine
    <3>4. log' = Append(log, line) /\ existed' = existed /\ line # Torn
      BY <2>1, <3>2, <3>3 DEF AppendLine
    <3> QED
      BY <3>1, <3>4 DEF WholeInv
  <2>2. ASSUME NEW a \in Actors, Truncate(a) \/ Fill(a) PROVE WholeInv'
    BY <2>2 DEF Truncate, Fill, Settled, WholeInv
  <2>3. CASE UNCHANGED <<existed, log>>
    BY <2>3 DEF WholeInv
  <2> QED
    BY StepCases, <2>1, <2>2, <2>3
       DEF Look, EmitFails, Crash, Begin, Finish, BeginPre, CreateRecord, FillRecord,
           BeginPost, DeleteRecord, RecordFails, vars
<1> QED
  BY <1>1, <1>2, TypeCorrect, SettledCorrect, PTL DEF Spec

\* Who shows a start in the log: of the two runs that a tool use might have, only
\* the one that its post hook ends.
ToolRun(t) ==
  /\ pc[Pre(t)] \in {"record", "fillRecord"} => record[t] # "full"
  /\ run[Post(t)] = Pre(t) => ~Logged("Started", Post(t))
  /\ pc[Post(t)] = "idle" /\ record[t] # "full" => pc[Pre(t)] \notin EmitSteps
  /\ \/ pc[Post(t)] = "idle" /\ record[t] # "full"
     \/ pc[Post(t)] # "idle" /\ run[Post(t)] = Post(t)
     => ~Logged("Started", Pre(t))
ToolRunInv == \A t \in Tools : ToolRun(t)

\* A process that is writing a start writes its own.
LEMMA StartsOwn ==
  ASSUME TypeOK, Places, NEW a \in Actors, pc[a] \in EmitSteps, event[a] = "Started"
  PROVE  run[a] = a
<1>1. CASE a \in CommandProcs
  BY <1>1 DEF Places
<1>2. ASSUME NEW t \in Tools, a = Pre(t) \/ a = Post(t) PROVE run[a] = a
  BY <1>2 DEF Places
<1> QED
  BY <1>1, <1>2, ActorCases

LEMMA ToolRunInvCorrect == Spec => []ToolRunInv
<1>1. Init => ToolRunInv
  BY ActorCases DEF Init, ToolRunInv, ToolRun, Logged, EmitSteps
<1>2. TypeOK /\ Places /\ AheadInv /\ ToolRunInv /\ [Next]_vars => ToolRunInv'
  <2> SUFFICES ASSUME TypeOK, Places, AheadInv, ToolRunInv, [Next]_vars, NEW t \in Tools
               PROVE  ToolRun(t)'
    BY DEF ToolRunInv
  <2>1. /\ ToolRun(t) /\ Pre(t) \in Actors /\ Post(t) \in Actors /\ Pre(t) # Post(t)
        /\ Pre(t) \notin CommandProcs /\ Post(t) \notin CommandProcs
        /\ Pre(t)[2] = "pre" /\ Post(t)[2] = "post"
        /\ \A u \in Tools : u # t => /\ Pre(u) # Pre(t) /\ Post(u) # Post(t)
                                     /\ Pre(u) # Post(t) /\ Post(u) # Pre(t)
    BY ActorCases DEF ToolRunInv
  <2>2. /\ run[Pre(t)] = Pre(t) /\ run[Post(t)] \in {Pre(t), Post(t)}
        /\ pc[Post(t)] # "idle" => pc[Pre(t)] \in Ended \cup {"idle"}
        /\ pc[Post(t)] = "idle" => run[Post(t)] = Post(t) /\ event[Post(t)] = "Started"
        /\ pc[Post(t)] \notin {"record", "fillRecord", "work"}
        /\ run[Post(t)] = Pre(t) => pc[Pre(t)] \in Ended
        /\ pc[Pre(t)] = "idle" => record[t] = "absent"
    BY <2>1 DEF Places
  <2>3. /\ DOMAIN pc = Actors /\ DOMAIN run = Actors /\ DOMAIN record = Tools
        /\ pc = [b \in Actors |-> pc[b]] /\ run = [b \in Actors |-> run[b]]
        /\ record = [u \in Tools |-> record[u]]
    BY DEF TypeOK, ActorsOK
  <2>4. ASSUME UNCHANGED log PROVE \A kind, r : Logged(kind, r)' <=> Logged(kind, r)
    BY <2>4 DEF Logged
  <2> USE DEF Goto, Emit, AfterEmit, fileVars, EmitSteps, Ended
  <2>5. ASSUME NEW a \in Actors, AppendLine(a) \/ Fill(a) PROVE ToolRun(t)'
    <3>1. /\ UNCHANGED <<run, record>> /\ pc[a] \in {"append", "fill"}
          /\ \A b \in Actors : b # a => pc'[b] = pc[b]
          /\ pc'[a] \notin {"append", "fill", "idle"} /\ pc'[a] \in {"done", "look", "work"}
      BY <2>3, <2>5 DEF AppendLine, Fill
    <3>2. \A r \in Actors : Logged("Started", r)' =>
                              Logged("Started", r) \/ (event[a] = "Started" /\ r = run[a])
      BY <2>5, AppendShows, FillShows
    <3>3. \A r \in Actors : Logged("Started", r)' => Logged("Started", r) \/ r = a
      BY <3>1, <3>2, StartsOwn
    <3>4. run[Post(t)] = Pre(t) => ~Logged("Started", Post(t))'
      <4>1. a = Post(t) /\ run[Post(t)] = Pre(t) => event[a] # "Started"
        BY <2>1, <3>1, StartsOwn
      <4> QED
        BY <2>1, <3>2, <3>3, <4>1 DEF ToolRun
    <3>5. a = Pre(t) => pc[Post(t)] = "idle" /\ record[t] = "full"
      BY <2>1, <2>2, <3>1 DEF ToolRun
    <3>6. pc[Post(t)] = "idle" => a # Post(t)
      BY <3>1
    <3>7. a = Pre(t) => pc'[Pre(t)] = "done"
      BY <2>1, <2>3, <2>5 DEF AppendLine, Fill
    <3> QED
      BY <2>1, <3>1, <3>3, <3>4, <3>5, <3>6, <3>7 DEF ToolRun
  <2>6. ASSUME NEW a \in Actors, Truncate(a) PROVE ToolRun(t)'
    <3>1. \A r : ~Logged("Started", r)'
      BY <2>6, TruncateShows
    <3>2. pc[a] = "truncate" /\ pc' = [pc EXCEPT ![a] = "fill"] /\ UNCHANGED <<run, record>>
      BY <2>6 DEF Truncate
    <3> QED
      BY <2>1, <2>3, <3>1, <3>2 DEF ToolRun
  <2>7. ASSUME NEW a \in Actors, Look(a) \/ EmitFails(a) \/ Crash(a) PROVE ToolRun(t)'
    <3>1. /\ UNCHANGED <<log, run, record>> /\ pc[a] # "idle" /\ pc[a] \notin {"done", "failed", "crashed"}
          /\ \A b \in Actors : b # a => pc'[b] = pc[b]
          /\ pc'[a] # "idle"
          /\ pc'[a] \in EmitSteps => pc[a] \in EmitSteps
          /\ pc'[a] \notin {"record", "fillRecord"}
      BY <2>3, <2>7 DEF Look, EmitFails, Crash
    <3> QED
      BY <2>1, <2>4, <3>1 DEF ToolRun
  <2>8. ASSUME NEW c \in CommandProcs, Begin(c) \/ Finish(c) PROVE ToolRun(t)'
    <3>1. /\ UNCHANGED <<log, run, record>> /\ \A b \in Actors : b # c => pc'[b] = pc[b]
      BY <2>3, <2>8, ActorCases DEF Begin, Finish
    <3> QED
      BY <2>1, <2>4, <2>8, <3>1 DEF ToolRun
  <2>9. ASSUME NEW u \in Tools, BeginPre(u) \/ CreateRecord(u) \/ FillRecord(u)
        PROVE  ToolRun(t)'
    <3>1. UNCHANGED <<log, run>> /\ \A b \in Actors : b # Pre(u) => pc'[b] = pc[b]
      BY <2>3, <2>9 DEF BeginPre, CreateRecord, FillRecord
    <3>2. CASE u # t
      <4>1. record'[t] = record[t]
        BY <2>3, <2>9, <3>2 DEF BeginPre, CreateRecord, FillRecord
      <4> QED
        BY <2>1, <2>4, <3>1, <3>2, <4>1 DEF ToolRun
    <3>3. CASE u = t
      <4>1. pc[Post(t)] = "idle"
        BY <2>2, <2>9, <3>3 DEF BeginPre, CreateRecord, FillRecord
      <4>2. pc'[Post(t)] = "idle" /\ ~Logged("Started", Post(t))'
        BY <2>1, <2>2, <2>4, <3>1, <3>3, <4>1 DEF AheadInv, Ahead
      <4>3. /\ record'[t] # "full" => record[t] # "full" /\ pc'[Pre(t)] \notin EmitSteps
            /\ pc'[Pre(t)] \in {"record", "fillRecord"} => record'[t] # "full"
        <5>1. CASE BeginPre(t)
          BY <2>1, <2>2, <2>3, <5>1 DEF BeginPre
        <5>2. CASE CreateRecord(t)
          BY <2>1, <2>2, <2>3, <5>2 DEF CreateRecord, ToolRun
        <5>3. CASE FillRecord(t)
          BY <2>1, <2>3, <5>3 DEF FillRecord
        <5> QED
          BY <2>9, <3>3, <5>1, <5>2, <5>3
      <4>4. record[t] # "full" => ~Logged("Started", Pre(t))'
        BY <2>1, <2>4, <3>1, <4>1 DEF ToolRun
      <4> HIDE DEF EmitSteps
      <4> QED
        BY <4>2, <4>3, <4>4 DEF ToolRun
    <3> QED
      BY <3>2, <3>3
  <2>10. ASSUME NEW u \in Tools, BeginPost(u) \/ DeleteRecord(u) \/ RecordFails(u), u # t
         PROVE  ToolRun(t)'
    <3>1. UNCHANGED log /\ run'[Post(t)] = run[Post(t)] /\ record'[t] = record[t]
          /\ pc'[Post(t)] = pc[Post(t)] /\ pc'[Pre(t)] = pc[Pre(t)]
      BY <2>1, <2>3, <2>10 DEF BeginPost, DeleteRecord, RecordFails
    <3> QED
      BY <2>1, <2>4, <3>1 DEF ToolRun
  <2>11. CASE BeginPost(t)
    <3>1. /\ UNCHANGED <<log, record>> /\ pc[Post(t)] = "idle" /\ pc'[Post(t)] # "idle"
          /\ pc'[Pre(t)] = pc[Pre(t)]
          /\ run'[Post(t)] = Post(t) => record[t] # "full"
      BY <2>1, <2>2, <2>3, <2>11 DEF BeginPost
    <3>2. ~Logged("Started", Post(t))
      BY <2>1, <2>2, <3>1 DEF AheadInv, Ahead
    <3> QED
      BY <2>1, <2>4, <3>1, <3>2 DEF ToolRun
  <2>12. CASE DeleteRecord(t)
    <3>1. /\ UNCHANGED <<log, run>> /\ pc[Post(t)] = "delete" /\ pc'[Post(t)] = "look"
          /\ pc'[Pre(t)] = pc[Pre(t)] /\ record'[t] = "absent"
      BY <2>1, <2>3, <2>12 DEF DeleteRecord
    <3> QED
      BY <2>1, <2>4, <3>1 DEF ToolRun
  <2>13. CASE RecordFails(t)
    <3>1. /\ UNCHANGED <<log, run, record>>
          /\ pc'[Post(t)] = "idle" <=> pc[Post(t)] = "idle"
          /\ pc'[Pre(t)] \in EmitSteps => pc[Pre(t)] \in EmitSteps
          /\ pc'[Pre(t)] \in {"record", "fillRecord"} => pc'[Pre(t)] = pc[Pre(t)]
      BY <2>1, <2>3, <2>13 DEF RecordFails
    <3> QED
      BY <2>1, <2>4, <3>1 DEF ToolRun
  <2>14. CASE UNCHANGED vars
    BY <2>1, <2>4, <2>14 DEF vars, ToolRun
  <2> QED
    BY StepCases, <2>5, <2>6, <2>7, <2>8, <2>9, <2>10, <2>11, <2>12, <2>13, <2>14
<1> QED
  BY <1>1, <1>2, TypeCorrect, PlacesCorrect, AheadInvCorrect, PTL DEF Spec

\* An end without its start in a file that was there is one whose start was lost, or
\* never announced.
EndsExplained ==
  existed => \A r \in Actors :
    Logged("Completed", r) => Logged("Started", r) \/ r \in dropped \/ NeverStarted(r)

LEMMA EndsExplainedCorrect == Spec => []EndsExplained
<1>1. Init => EndsExplained
  BY DEF Init, EndsExplained, Logged
<1>2. TypeOK /\ Settled /\ Places /\ BehindInv /\ EndsExplained /\ [Next]_vars => EndsExplained'
  <2> SUFFICES ASSUME TypeOK, Settled, Places, BehindInv, EndsExplained, [Next]_vars, existed',
                      NEW r \in Actors, Logged("Completed", r)'
               PROVE  Logged("Started", r)' \/ r \in dropped' \/ NeverStarted(r)'
    BY DEF EndsExplained
  <2>1. /\ existed
        /\ dropped \subseteq dropped'
        /\ NeverStarted(r) => NeverStarted(r)'
    <3>1. ASSUME NEW a \in Actors,
                 Look(a) \/ AppendLine(a) \/ Truncate(a) \/ Fill(a) \/ EmitFails(a) \/ Crash(a)
          PROVE  /\ existed /\ dropped \subseteq dropped'
                 /\ NeverStarted(r) => NeverStarted(r)'
      BY <3>1 DEF Look, AppendLine, Truncate, Fill, EmitFails, Crash, fileVars, Goto, AfterEmit,
                  EmitSteps, Ended, NeverStarted, TypeOK, ActorsOK
    <3>2. ASSUME NEW c \in CommandProcs, Begin(c) \/ Finish(c)
          PROVE  /\ existed /\ dropped \subseteq dropped'
                 /\ NeverStarted(r) => NeverStarted(r)'
      BY <3>2 DEF Begin, Finish, fileVars, Goto, Emit, NeverStarted, TypeOK, ActorsOK
    <3>3. ASSUME NEW t \in Tools, BeginPre(t) \/ CreateRecord(t) \/ FillRecord(t)
          PROVE  /\ existed /\ dropped \subseteq dropped'
                 /\ NeverStarted(r) => NeverStarted(r)'
      BY <3>3 DEF BeginPre, CreateRecord, FillRecord, fileVars, Goto, Emit, NeverStarted,
                  TypeOK, ActorsOK
    <3>4. ASSUME NEW t \in Tools, BeginPost(t) \/ DeleteRecord(t) \/ RecordFails(t)
          PROVE  /\ existed /\ dropped \subseteq dropped'
                 /\ NeverStarted(r) => NeverStarted(r)'
      BY <3>4 DEF BeginPost, DeleteRecord, RecordFails, fileVars, Goto, Emit, NeverStarted,
                  TypeOK, ActorsOK
    <3>5. CASE UNCHANGED vars
      BY <3>5 DEF vars, NeverStarted
    <3> QED
      BY StepCases, <3>1, <3>2, <3>3, <3>4, <3>5, Zenon
  <2>2. CASE UNCHANGED log
    <3>1. Logged("Completed", r) /\ (Logged("Started", r) => Logged("Started", r)')
      BY <2>2 DEF Logged
    <3> QED
      BY <2>1, <3>1 DEF EndsExplained
  <2>3. ASSUME NEW a \in Actors, AppendLine(a)
        PROVE  Logged("Started", r)' \/ r \in dropped' \/ NeverStarted(r)'
    <3>1. \A kind \in {"Started", "Completed"} :
            Logged(kind, r)' <=> Logged(kind, r) \/ (kind = event[a] /\ r = run[a])
      BY <2>3, AppendShows
    <3>2. CASE Logged("Completed", r)
      BY <2>1, <3>1, <3>2 DEF EndsExplained
    <3>3. CASE event[a] = "Completed" /\ r = run[a]
      <4>1. pc[a] = "append" /\ Behind(a)
        BY <2>1, <2>3 DEF AppendLine, BehindInv
      <4>2. CASE run[a] = a
        <5>1. a[2] # "pre"
          BY <3>3, ActorCases DEF Places
        <5>2. a \in dropped \/ Logged("Started", a)
          BY <3>3, <4>1, <4>2, <5>1 DEF Behind, EmitSteps
        <5> QED
          BY <2>1, <3>1, <3>3, <4>2, <5>2
      <4>3. CASE run[a] # a
        <5>1. PICK t \in Tools : a = Post(t) /\ r = Pre(t) /\ pc[Pre(t)] \in Ended
          BY <3>3, <4>3, ActorCases DEF Places
        <5>2. Behind(Pre(t)) /\ Pre(t)[2] = "pre"
          BY <2>1, ActorCases DEF BehindInv
        <5>3. Logged("Started", r) \/ NeverStarted(r)
          BY <5>1, <5>2 DEF Behind, Ended, NeverStarted
        <5> QED
          BY <2>1, <3>1, <5>3
      <4> QED
        BY <4>2, <4>3
    <3> QED
      BY <3>1, <3>2, <3>3
  <2>4. ASSUME NEW a \in Actors, Truncate(a) \/ Fill(a) PROVE FALSE
    BY <2>1, <2>4 DEF Truncate, Fill, Settled
  <2> QED
    BY StepCases, <2>2, <2>3, <2>4
       DEF Look, EmitFails, Crash, Begin, Finish, BeginPre, CreateRecord, FillRecord,
           BeginPost, DeleteRecord, RecordFails, fileVars, vars
<1> QED
  BY <1>1, <1>2, TypeCorrect, SettledCorrect, PlacesCorrect, BehindInvCorrect, PTL DEF Spec

\* The statistics read at any time tell the truth, for any number of commands and
\* tool uses.
THEOREM StatsTellTheTruthCorrect == Spec => []StatsTellTheTruth
<1>1. ASSUME TypeOK, Places, Ordered(log), WholeInv, ToolRunInv, EndsExplained, MatchingPair
      PROVE  StatsTellTheTruth
  <2> SUFFICES ASSUME existed PROVE StatsTellTheTruth
    BY DEF StatsTellTheTruth
  <2> DEFINE b == Builders(log)
             End(r) == IF r[2] = "pre" THEN Post(r[1]) ELSE r
  <2>1. WellFormed(log)
    BY <1>1, LogIsWellFormed DEF WholeInv
  <2>2. /\ PendingOf(log, b.pending, Len(log)) /\ RecordsAre(log, b.records, Len(log))
        /\ WarningsAre(log, b.warnings, Len(log))
    BY <2>1, LogIsJoined DEF Joined
  <2>3. DOMAIN log = 1..Len(log)
    BY <2>1 DEF WellFormed
  <2>4. \A i \in 1..Len(log) : log[i].run \in Actors /\ log[i] = Line(log[i].kind, log[i].run)
    <3>1. \A i \in 1..Len(log) : log[i] \in Lines /\ log[i] # Torn
      BY <1>1, <2>1, <2>3 DEF TypeOK, FileOK, WellFormed
    <3> QED
      BY <3>1 DEF Lines, Line
  <2>5. \A kind, r : Line(kind, r).kind = kind /\ Line(kind, r).run = r
    BY DEF Line
  <2> HIDE DEF b
  <2>6. ASSUME NEW a \in Actors, Closed(a), ~NeverStarted(run[a])
        PROVE  \E k \in DOMAIN b.records :
                 /\ log[b.records[k].start] = Line("Started", run[a])
                 /\ log[b.records[k].done] = Line("Completed", run[a])
                 /\ \A j \in DOMAIN b.records : log[b.records[j].start].run = run[a] => j = k
    <3>1. Logged("Started", run[a]) /\ Logged("Completed", run[a])
      BY <1>1, <2>6 DEF MatchingPair
    <3>2. PICK p \in 1..Len(log) : log[p] = Line("Started", run[a])
      BY <2>3, <3>1 DEF Logged
    <3>3. PICK q \in 1..Len(log) : log[q] = Line("Completed", run[a])
      BY <2>3, <3>1 DEF Logged
    <3>4. log[p].kind = "Started" /\ log[p].run = run[a] /\ Ends(log, q, p)
      BY <2>5, <3>2, <3>3 DEF Ends
    <3>5. PICK k \in DOMAIN b.records : b.records[k].start = p /\ b.records[k].done = q
      BY <2>2, <3>4 DEF RecordsAre
    <3>6. ASSUME NEW j \in DOMAIN b.records, log[b.records[j].start].run = run[a] PROVE j = k
      <4>1. b.records[j].start \in 1..Len(log) /\ log[b.records[j].start].kind = "Started"
        BY <2>2 DEF RecordsAre
      <4>2. b.records[j].start = p
        BY <2>1, <3>4, <3>6, <4>1 DEF WellFormed
      <4> QED
        BY <2>2, <3>5, <4>2 DEF RecordsAre
    <3> QED
      BY <3>2, <3>3, <3>5, <3>6
  <2>7. ASSUME NEW i \in b.pending, Closed(End(log[i].run)) PROVE FALSE
    <3>1. i \in 1..Len(log) /\ log[i].kind = "Started" /\ ~\E j \in 1..Len(log) : Ends(log, j, i)
      BY <2>2 DEF PendingOf
    <3>2. PICK r \in Actors : r = log[i].run
      BY <2>4, <3>1
    <3>3. Logged("Started", r)
      BY <2>3, <2>4, <3>1, <3>2 DEF Logged
    <3>4. ~Logged("Completed", r)
      BY <2>3, <2>5, <3>1, <3>2 DEF Logged, Ends
    <3>5. \A a \in Actors : Closed(a) => run[a] # r
      BY <1>1, <3>4 DEF MatchingPair
    <3>6. CASE r \in CommandProcs
      BY <1>1, <2>7, <3>2, <3>5, <3>6, ActorCases DEF Places
    <3>7. ASSUME NEW t \in Tools, r = Post(t) PROVE FALSE
      <4>1. run[r] \in {Pre(t), Post(t)} /\ run[r] # Pre(t)
        BY <1>1, <3>3, <3>7 DEF Places, ToolRunInv, ToolRun
      <4> QED
        BY <2>7, <3>2, <3>5, <3>7, <4>1, ActorCases
    <3>8. ASSUME NEW t \in Tools, r = Pre(t) PROVE FALSE
      <4>1. End(r) = Post(t) /\ Post(t) \in Actors
        BY <3>8, ActorCases DEF Pre
      <4>2. Closed(Post(t))
        BY <2>7, <3>2, <4>1
      <4>3. pc[Post(t)] = "done" /\ run[Post(t)] \in {Pre(t), Post(t)}
        BY <1>1, <4>2 DEF Closed, Places
      <4>4. run[Post(t)] = Pre(t)
        BY <1>1, <3>3, <3>8, <4>3 DEF ToolRunInv, ToolRun
      <4> QED
        BY <3>5, <3>8, <4>1, <4>2, <4>4
    <3> QED
      BY <3>6, <3>7, <3>8, ActorCases
  <2>8. ASSUME NEW w \in b.warnings
        PROVE  /\ w.kind = "OrphanCompleted"
               /\ log[w.at].run \in dropped \/ NeverStarted(log[w.at].run)
    <3>1. /\ w.kind = "OrphanCompleted" /\ w.at \in 1..Len(log) /\ log[w.at].kind = "Completed"
          /\ ~\E i \in 1..Len(log) : log[i].kind = "Started" /\ Ends(log, w.at, i)
      BY <2>2 DEF WarningsAre
    <3>2. PICK r \in Actors : r = log[w.at].run
      BY <2>4, <3>1
    <3>3. Logged("Completed", r)
      BY <2>3, <2>4, <3>1, <3>2 DEF Logged
    <3>4. ~Logged("Started", r)
      BY <2>3, <2>5, <3>1, <3>2 DEF Logged, Ends
    <3> QED
      BY <1>1, <3>1, <3>2, <3>3, <3>4 DEF EndsExplained
  <2> QED
    BY <2>6, <2>7, <2>8, Zenon DEF StatsTellTheTruth, b
<1> QED
  BY <1>1, TypeCorrect, PlacesCorrect, OrderCorrect, WholeInvCorrect, ToolRunInvCorrect,
     EndsExplainedCorrect, MatchingPairCorrect, PTL
=============================================================================
