--------------------------- MODULE FileUpdatesProofs ---------------------------
(* Theorems about FileUpdates for any number of processes, texts and arguments. *)
EXTENDS FileUpdates, SequenceTheorems, WellFoundedInduction, TLAPS

\* The steps of an append that are made under the lock.
LockedSteps == {"tail", "separate", "content", "terminate", "unlock"}

\* The file is only appended to, and nobody was killed.
OnlyAppends == \A p \in Procs : pc[p] # "crashed" /\ op[p].kind \in {"append", "refused"}

\* Only the holder of the lock is between the reading of the file and its last
\* write, and only an append gets there.
LockInv ==
  /\ pc \in [Procs -> Steps \cup Ended]
  /\ DOMAIN op = Procs /\ DOMAIN seen = Procs
  /\ \A p \in Procs : pc[p] \in LockedSteps <=> p \in lock
  /\ \A p, q \in lock : p = q
  /\ lock \subseteq Procs
  /\ \A p \in Procs :
       /\ pc[p] = "idle" => op[p] = Refused
       /\ pc[p] \in LockedSteps \cup {"open", "lock"} => op[p].kind = "append"
       /\ pc[p] \in {"look", "read", "truncate", "fill"} => op[p].kind \notin {"append", "refused"}

\* What the holder has written so far of its append, which is computed from the
\* text it read and goes to the end of the file: nobody writes in between.
Partial(p) ==
  LET t == serial
      c == op[p].content
  IN  CASE pc[p] \in {"tail", "separate"} -> t
        [] pc[p] = "content" -> t \o Separator(t)
        [] pc[p] = "terminate" -> t \o Separator(t) \o Normalised(c, t)
        [] pc[p] = "unlock" -> AppendText(c, t)

SerialInv ==
  OnlyAppends =>
    /\ lock = {} => text = serial
    /\ \A p \in lock :
         /\ text = Partial(p)
         /\ pc[p] # "tail" => seen[p] = serial

LEMMA StepCases ==
  ASSUME [Next]_vars
  PROVE  \/ \E p \in Procs :
              \/ Begin(p) \/ Look(p) \/ Read(p) \/ Truncate(p) \/ Fill(p)
              \/ Open(p) \/ Lock(p) \/ ReadTail(p) \/ WriteSeparator(p) \/ WriteContent(p)
              \/ WriteTerminator(p) \/ Unlock(p) \/ Crash(p)
         \/ UNCHANGED vars
  BY DEF Next, Step

LEMMA LockInvCorrect == Spec => []LockInv
<1> USE DEF LockInv, LockedSteps, Steps, Ended
<1>1. Init => LockInv
  BY DEF Init
<1>2. LockInv /\ [Next]_vars => LockInv'
  <2> SUFFICES ASSUME LockInv, [Next]_vars PROVE LockInv'
    OBVIOUS
  <2> USE DEF Goto, fileVars
  <2>1. ASSUME NEW p \in Procs, Begin(p) PROVE LockInv'
    <3>1. PICK o :
            /\ op' = [op EXCEPT ![p] = o] /\ pc' = [pc EXCEPT ![p] = FirstStep(o)]
            /\ pc[p] = "idle" /\ UNCHANGED <<lock, seen>>
      BY <2>1 DEF Begin
    <3>2. /\ FirstStep(o) \in {"failed", "look", "truncate", "open", "read"}
          /\ FirstStep(o) = "open" => o.kind = "append"
          /\ FirstStep(o) \in {"look", "truncate", "read"} => o.kind \notin {"append", "refused"}
      BY DEF FirstStep
    <3> QED
      BY <3>1, <3>2
  <2>2. ASSUME NEW p \in Procs, Look(p) \/ Truncate(p) \/ Fill(p) \/ Open(p) PROVE LockInv'
    <3>1. PICK at :
            /\ pc' = [pc EXCEPT ![p] = at] /\ UNCHANGED <<op, lock, seen>>
            /\ \/ pc[p] = "look" /\ at \in {"failed", "truncate"}
               \/ pc[p] = "truncate" /\ at = "fill"
               \/ pc[p] = "fill" /\ at = "done"
               \/ pc[p] = "open" /\ at \in {"lock", "failed"}
      BY <2>2 DEF Look, Truncate, Fill, Open
    <3> QED
      BY <3>1
  <2>3. ASSUME NEW p \in Procs, Read(p) PROVE LockInv'
    BY <2>3 DEF Read
  <2>4. ASSUME NEW p \in Procs, Lock(p) \/ ReadTail(p) PROVE LockInv'
    BY <2>4 DEF Lock, ReadTail
  <2>5. ASSUME NEW p \in Procs, WriteSeparator(p) \/ WriteContent(p) \/ WriteTerminator(p)
        PROVE  LockInv'
    BY <2>5 DEF WriteSeparator, WriteContent, WriteTerminator, Write
  <2>6. ASSUME NEW p \in Procs, Unlock(p) \/ Crash(p) PROVE LockInv'
    BY <2>6 DEF Unlock, Crash
  <2>7. CASE UNCHANGED vars
    BY <2>7 DEF vars
  <2> QED
    BY StepCases, <2>1, <2>2, <2>3, <2>4, <2>5, <2>6, <2>7
<1> QED
  BY <1>1, <1>2, PTL DEF Spec

LEMMA SerialInvCorrect == Spec => []SerialInv
<1>1. Init => SerialInv
  BY DEF Init, SerialInv
<1>2. LockInv /\ LockInv' /\ SerialInv /\ [Next]_vars => SerialInv'
  <2> SUFFICES ASSUME LockInv, LockInv', SerialInv, [Next]_vars, OnlyAppends'
               PROVE  /\ lock' = {} => text' = serial'
                      /\ \A p \in lock' : /\ text' = Partial(p)'
                                          /\ pc'[p] # "tail" => seen'[p] = serial'
    BY DEF SerialInv
  <2>1. OnlyAppends
    <3>1. ASSUME NEW p \in Procs, Begin(p) PROVE OnlyAppends
      <4>1. pc[p] = "idle" /\ op[p] = Refused
        BY <3>1 DEF Begin, LockInv
      <4>2. PICK o : op' = [op EXCEPT ![p] = o]
        BY <3>1 DEF Begin
      <4>3. \A q \in Procs \ {p} : op'[q] = op[q] /\ pc'[q] = pc[q]
        BY <3>1, <4>2 DEF Begin, Goto, LockInv
      <4> QED
        BY <4>1, <4>3 DEF OnlyAppends, Refused
    <3>2. ASSUME NEW p \in Procs, UNCHANGED op, pc[p] # "crashed",
                 \A q \in Procs \ {p} : pc'[q] = pc[q]
          PROVE  OnlyAppends
      BY <3>2 DEF OnlyAppends
    <3>3. CASE UNCHANGED vars
      BY <3>3 DEF OnlyAppends, vars
    <3>4. ASSUME NEW p \in Procs,
                 \/ Look(p) \/ Read(p) \/ Truncate(p) \/ Fill(p)
                 \/ Open(p) \/ Lock(p) \/ ReadTail(p)
          PROVE  OnlyAppends
      BY <3>2, <3>4 DEF Look, Read, Truncate, Fill, Open, Lock, ReadTail, Goto, LockInv
    <3>5. ASSUME NEW p \in Procs,
                 \/ WriteSeparator(p) \/ WriteContent(p) \/ WriteTerminator(p) \/ Unlock(p)
          PROVE  OnlyAppends
      BY <3>2, <3>5 DEF WriteSeparator, WriteContent, WriteTerminator, Write, Unlock, Goto,
                        LockInv
    <3>6. ASSUME NEW p \in Procs, Crash(p) PROVE OnlyAppends
      BY <3>2, <3>6 DEF Crash, Goto, LockInv, Steps
    <3> QED
      BY StepCases, <3>1, <3>3, <3>4, <3>5, <3>6
  <2>2. /\ lock = {} => text = serial
        /\ \A p \in lock : text = Partial(p) /\ (pc[p] # "tail" => seen[p] = serial)
    BY <2>1 DEF SerialInv
  <2>3. \A p \in Procs : pc[p] \in LockedSteps <=> p \in lock
    BY DEF LockInv
  <2> USE DEF Goto, fileVars
  <2>4. ASSUME NEW p \in Procs, UNCHANGED <<text, lock, serial, seen>>, pc[p] \notin LockedSteps,
               \A q \in Procs \ {p} : pc'[q] = pc[q] /\ op'[q] = op[q]
        PROVE  /\ lock' = {} => text' = serial'
               /\ \A q \in lock' : /\ text' = Partial(q)'
                                   /\ pc'[q] # "tail" => seen'[q] = serial'
    <3>1. \A q \in lock : q \in Procs \ {p}
      BY <2>3, <2>4 DEF LockInv
    <3> QED
      BY <2>2, <2>4, <3>1 DEF Partial
  <2>5. ASSUME NEW p \in Procs, Look(p) \/ Read(p) \/ Truncate(p) \/ Fill(p) PROVE FALSE
    BY <2>1, <2>5 DEF Look, Read, Truncate, Fill, OnlyAppends, LockInv
  <2>6. ASSUME NEW p \in Procs, Crash(p) PROVE FALSE
    BY <2>6 DEF Crash, OnlyAppends, LockInv
  <2>7. ASSUME NEW p \in Procs, Begin(p) \/ Open(p)
        PROVE  /\ lock' = {} => text' = serial'
               /\ \A q \in lock' : /\ text' = Partial(q)'
                                   /\ pc'[q] # "tail" => seen'[q] = serial'
    BY <2>4, <2>7 DEF Begin, Open, LockedSteps, LockInv
  <2> DEFINE Mine(p) == /\ p \in lock /\ lock = {p} /\ text = Partial(p)
                        /\ pc[p] # "tail" => seen[p] = serial
  <2>8. \A p \in Procs : pc[p] \in LockedSteps => Mine(p)
    BY <2>2, <2>3 DEF LockInv
  <2>9. ASSUME NEW p \in Procs, Lock(p)
        PROVE  /\ lock' = {p} /\ text' = serial' /\ pc'[p] = "tail"
    BY <2>2, <2>9 DEF Lock, LockInv
  <2>10. ASSUME NEW p \in Procs, ReadTail(p)
         PROVE  /\ text' = serial'
                /\ lock' = {} \/ (lock' = {p} /\ pc'[p] = "separate" /\ seen'[p] = serial')
    BY <2>8, <2>10 DEF ReadTail, LockInv, LockedSteps, Partial
  <2>11. ASSUME NEW p \in Procs, WriteSeparator(p)
         PROVE  /\ lock' = {p} /\ text' = Partial(p)' /\ seen'[p] = serial'
    BY <2>8, <2>11 DEF WriteSeparator, Write, LockInv, LockedSteps, Partial
  <2>12. ASSUME NEW p \in Procs, WriteContent(p)
         PROVE  /\ lock' = {p} /\ text' = Partial(p)' /\ seen'[p] = serial'
    BY <2>8, <2>12 DEF WriteContent, Write, LockInv, LockedSteps, Partial
  <2>13. ASSUME NEW p \in Procs, WriteTerminator(p)
         PROVE  /\ lock' = {p} /\ text' = Partial(p)' /\ seen'[p] = serial'
    BY <2>8, <2>13 DEF WriteTerminator, Write, LockInv, LockedSteps, Partial, AppendText
  <2>14. ASSUME NEW p \in Procs, Unlock(p) PROVE lock' = {} /\ text' = serial'
    BY <2>8, <2>14 DEF Unlock, LockedSteps, Partial
  <2>15. CASE UNCHANGED vars
    BY <2>2, <2>15 DEF vars, Partial
  <2> QED
    BY StepCases, <2>5, <2>6, <2>7, <2>9, <2>10, <2>11, <2>12, <2>13, <2>14, <2>15
       DEF Partial
<1> QED
  BY <1>1, <1>2, LockInvCorrect, PTL DEF Spec

\* Any number of appends at once leave what they would have left one by one.
THEOREM AppendsAreSerialCorrect == Spec => []AppendsAreSerial
<1>1. SerialInv => AppendsAreSerial
  BY DEF SerialInv, AppendsAreSerial, OnlyAppends
<1> QED
  BY <1>1, SerialInvCorrect, PTL

-----------------------------------------------------------------------------
(* Numbers, sequences, and what is computed element by element *)

\* Induction over the natural numbers, for a set instead of a predicate.
LEMMA SetInduction ==
  ASSUME NEW S, 0 \in S, \A n \in Nat : n \in S => n + 1 \in S
  PROVE  Nat \subseteq S
<1> SUFFICES ASSUME Nat \ S # {} PROVE FALSE
  OBVIOUS
<1>1. PICK m \in Nat \ S : \A n \in Nat \ S : ~(<<n, m>> \in OpToRel(<, Nat))
  <2> HIDE DEF OpToRel
  <2> QED
    BY WFMin, NatLessThanWellFounded
<1>2. \A n \in Nat \ S : ~(n < m)
  BY <1>1 DEF OpToRel
<1>3. m # 0 /\ m - 1 \in Nat /\ m - 1 < m /\ (m - 1) + 1 = m
  OBVIOUS
<1> QED
  BY <1>2, <1>3

\* The same up to a number.
LEMMA Upwards ==
  ASSUME NEW n \in Nat, NEW S, 0 \in S, \A k \in 1..n : k - 1 \in S => k \in S
  PROVE  \A k \in 0..n : k \in S
<1> DEFINE Good == {m \in Nat : m <= n => m \in S}
<1>1. 0 \in Good
  OBVIOUS
<1>2. ASSUME NEW m \in Nat, m \in Good
      PROVE  m + 1 \in Good
  <2>1. CASE m + 1 <= n
    <3>1. m + 1 \in 1..n /\ (m + 1) - 1 = m /\ m \in S
      BY <1>2, <2>1
    <3>2. m + 1 \in S
      BY <3>1
    <3> QED
      BY <3>2
  <2> QED
    BY <2>1
<1> HIDE DEF Good
<1>3. Nat \subseteq Good
  BY <1>1, <1>2, SetInduction
<1> QED
  BY <1>3 DEF Good

\* What is made of a value step by step exists.
StepsIn(step, n, V) == step \in [1..n -> [V -> V]]
Iterates(f, base, step, n, V) ==
  f \in [0..n -> V] /\ f[0] = base /\ \A k \in 1..n : f[k] = step[k][f[k - 1]]

LEMMA Iteration ==
  ASSUME NEW V, NEW base \in V, NEW n \in Nat, NEW step, StepsIn(step, n, V)
  PROVE  \E f : Iterates(f, base, step, n, V)
<1>0. step \in [1..n -> [V -> V]]
  BY DEF StepsIn
<1> DEFINE Good == {m \in Nat : m <= n =>
                      \E f \in [0..m -> V] : f[0] = base /\ \A k \in 1..m : f[k] = step[k][f[k - 1]]}
<1>1. 0 \in Good
  <2>1. [k \in 0..0 |-> base] \in [0..0 -> V] /\ [k \in 0..0 |-> base][0] = base
    OBVIOUS
  <2>2. \A k \in 1..0 : FALSE
    OBVIOUS
  <2> QED
    BY <2>1, <2>2
<1>2. ASSUME NEW m \in Nat, m \in Good
      PROVE  m + 1 \in Good
  <2> SUFFICES ASSUME m + 1 <= n
               PROVE  \E f \in [0..(m + 1) -> V] :
                        f[0] = base /\ \A k \in 1..(m + 1) : f[k] = step[k][f[k - 1]]
    OBVIOUS
  <2>1. PICK f \in [0..m -> V] : f[0] = base /\ \A k \in 1..m : f[k] = step[k][f[k - 1]]
    BY <1>2
  <2>2. PICK last : last = step[m + 1][f[m]]
    OBVIOUS
  <2>3. last \in V
    <3>1. m + 1 \in 1..n /\ f[m] \in V
      BY <2>1
    <3>2. step[m + 1] \in [V -> V]
      BY <1>0, <3>1
    <3> QED
      BY <2>2, <3>1, <3>2
  <2> DEFINE g == [k \in 0..(m + 1) |-> IF k = m + 1 THEN last ELSE f[k]]
  <2>4. g \in [0..(m + 1) -> V] /\ g[m + 1] = last /\ \A k \in 0..m : g[k] = f[k]
    BY <2>1, <2>3
  <2> HIDE DEF g
  <2>5. ASSUME NEW k \in 1..(m + 1)
        PROVE  g[k] = step[k][g[k - 1]]
    <3>1. CASE k = m + 1
      <4>1. g[k - 1] = f[m]
        BY <2>4, <3>1
      <4> QED
        BY <2>2, <2>4, <3>1, <4>1
    <3>2. CASE k \in 1..m
      <4>1. k \in 0..m /\ k - 1 \in 0..m
        BY <3>2
      <4>2. g[k] = f[k] /\ g[k - 1] = f[k - 1]
        BY <2>4, <4>1
      <4> QED
        BY <2>1, <3>2, <4>2
    <3> QED
      BY <3>1, <3>2
  <2>6. g[0] = base
    BY <2>1, <2>4
  <2> QED
    BY <2>4, <2>5, <2>6
<1> HIDE DEF Good
<1>3. Nat \subseteq Good
  BY <1>1, <1>2, SetInduction
<1> QED
  BY <1>3 DEF Good, Iterates

\* A function on 1..n is a sequence.
LEMMA FunSeq ==
  ASSUME NEW S, NEW n \in Nat, NEW f \in [1..n -> S]
  PROVE  f \in Seq(S) /\ Len(f) = n
BY SeqDef

\* A part of a sequence.
LEMMA Part ==
  ASSUME NEW S, NEW s \in Seq(S), NEW m \in Nat \ {0}, NEW n \in 0..Len(s)
  PROVE  /\ SubSeq(s, m, n) \in Seq(S)
         /\ Len(SubSeq(s, m, n)) = IF m <= n THEN n - m + 1 ELSE 0
         /\ \A i \in 1..(n - m + 1) : SubSeq(s, m, n)[i] = s[m + i - 1]
<1>1. PICK len \in Nat : len = Len(s)
  OBVIOUS
<1>2. n \in Nat /\ n <= len
  BY <1>1
<1>3. \A i \in m..n : s[i] \in S
  BY <1>1, <1>2
<1> QED
  BY <1>2, <1>3, SubSeqProperties

\* A prefix, element by element.
LEMMA PrefixIs ==
  ASSUME NEW S, NEW s \in Seq(S), NEW t \in Seq(S)
  PROVE  IsPrefix(s, t) <=> Len(s) <= Len(t) /\ \A i \in 1..Len(s) : s[i] = t[i]
<1>1. PICK n \in Nat : n = Len(s)
  OBVIOUS
<1>2. CASE n <= Len(t)
  <2>1. PICK a : a = SubSeq(s, 1, n)
    OBVIOUS
  <2>2. PICK b : b = SubSeq(t, 1, n)
    OBVIOUS
  <2>3. n \in 0..Len(s) /\ n \in 0..Len(t) /\ n - 1 + 1 = n /\ \A i \in 1..n : 1 + i - 1 = i
    BY <1>1, <1>2
  <2>4. a \in Seq(S) /\ Len(a) = n /\ \A i \in 1..n : a[i] = s[i]
    BY <2>1, <2>3, Part
  <2>5. b \in Seq(S) /\ Len(b) = n /\ \A i \in 1..n : b[i] = t[i]
    BY <2>2, <2>3, Part
  <2>6. a = b <=> \A i \in 1..n : s[i] = t[i]
    <3>1. (\A i \in 1..n : s[i] = t[i]) => a = b
      BY <2>4, <2>5, SeqEqual
    <3> QED
      BY <2>4, <2>5, <3>1
  <2> QED
    BY <1>1, <1>2, <2>1, <2>2, <2>6 DEF IsPrefix
<1>3. CASE ~(n <= Len(t))
  BY <1>1, <1>3 DEF IsPrefix
<1> QED
  BY <1>2, <1>3

\* Sequences put together, one after the other.
Flats(flat, seqs, S, n) ==
  /\ flat \in [0..n -> Seq(S)] /\ flat[0] = <<>> /\ FlattenSeq(seqs) = flat[n]
  /\ \A k \in 1..n : flat[k] = flat[k - 1] \o seqs[k]

LEMMA Flattened ==
  ASSUME NEW S, NEW seqs \in Seq(Seq(S)), NEW n, n = Len(seqs)
  PROVE  \E flat : Flats(flat, seqs, S, n)
<1> n \in Nat
  OBVIOUS
<1> PICK T : T = Seq(S)
  OBVIOUS
<1>0. \A k \in 1..n : seqs[k] \in T
  OBVIOUS
<1> DEFINE step == [k \in 1..n |-> [x \in T |-> x \o seqs[k]]]
<1>1. StepsIn(step, n, T)
  BY <1>0, ConcatProperties DEF StepsIn
<1>2. \A k \in 1..n : \A x \in T : step[k][x] = x \o seqs[k]
  OBVIOUS
<1> HIDE DEF step
<1>6. <<>> \in T
  BY EmptySeq
<1>7. \A x \in T : <<>> \o x = x
  BY ConcatEmptySeq
<1>8. PICK flat : Iterates(flat, <<>>, step, n, T)
  BY <1>1, <1>6, Iteration
<1>3. flat \in [0..n -> T] /\ flat[0] = <<>> /\ \A k \in 1..n : flat[k] = step[k][flat[k - 1]]
  BY <1>8 DEF Iterates
<1>4. ASSUME NEW k \in 1..n
      PROVE  flat[k] = flat[k - 1] \o seqs[k]
  <2>1. k - 1 \in 0..n
    OBVIOUS
  <2> QED
    BY <1>2, <1>3, <2>1
<1>5. FlattenSeq(seqs) = flat[n]
  <2>1. CASE n = 0
    <3>1. seqs = <<>>
      BY <2>1, EmptySeq
    <3> QED
      BY <1>3, <2>1, <3>1 DEF FlattenSeq
  <2>2. CASE n # 0
    <3> DEFINE IsFlat(f) == f = [i \in 1..n |-> IF i = 1 THEN seqs[i] ELSE f[i - 1] \o seqs[i]]
               choice == CHOOSE f : IsFlat(f)
    <3>1. FlattenSeq(seqs) = choice[n]
      BY <2>2 DEF FlattenSeq
    <3>2. \E f : IsFlat(f)
      <4> DEFINE g == [i \in 1..n |-> flat[i]]
      <4>1. \A i \in 1..n : g[i] = IF i = 1 THEN seqs[i] ELSE g[i - 1] \o seqs[i]
        <5> SUFFICES ASSUME NEW i \in 1..n
                     PROVE  g[i] = IF i = 1 THEN seqs[i] ELSE g[i - 1] \o seqs[i]
          OBVIOUS
        <5>1. g[i] = flat[i - 1] \o seqs[i]
          BY <1>4
        <5>2. CASE i = 1
          <6>1. flat[i - 1] = <<>> /\ seqs[i] \in T
            BY <1>0, <1>3, <5>2
          <6> QED
            BY <1>7, <5>1, <5>2, <6>1
        <5>3. CASE i # 1
          <6>1. i - 1 \in 1..n
            BY <5>3
          <6>2. g[i - 1] = flat[i - 1]
            BY <6>1
          <6> QED
            BY <5>1, <5>3, <6>2
        <5> QED
          BY <5>2, <5>3
      <4>2. g = [i \in 1..n |-> g[i]]
        OBVIOUS
      <4> HIDE DEF g
      <4>3. IsFlat(g)
        BY <4>1, <4>2
      <4> QED
        BY <4>3
    <3>3. IsFlat(choice)
      BY <3>2
    <3> HIDE DEF choice
    <3>4. \A i \in 1..n : choice[i] = IF i = 1 THEN seqs[i] ELSE choice[i - 1] \o seqs[i]
      BY <3>3
    <3> DEFINE Same == {k \in 0..n : k = 0 \/ choice[k] = flat[k]}
    <3>5. ASSUME NEW k \in 1..n, k - 1 \in Same
          PROVE  k \in Same
      <4>1. CASE k = 1
        <5>1. flat[k - 1] = <<>> /\ seqs[k] \in T
          BY <1>0, <1>3, <4>1
        <5>2. flat[k] = seqs[k]
          BY <1>4, <1>7, <5>1
        <5>3. choice[k] = seqs[k]
          BY <3>4, <4>1
        <5> QED
          BY <5>2, <5>3
      <4>2. CASE k # 1
        <5>1. choice[k - 1] = flat[k - 1]
          BY <3>5, <4>2
        <5>2. flat[k] = flat[k - 1] \o seqs[k]
          BY <1>4
        <5>3. choice[k] = choice[k - 1] \o seqs[k]
          BY <3>4, <4>2
        <5>4. choice[k] = flat[k]
          BY <5>1, <5>2, <5>3, Zenon
        <5> QED
          BY <5>4
      <4> QED
        BY <4>1, <4>2
    <3>6. 0 \in Same
      OBVIOUS
    <3> HIDE DEF Same
    <3>7. n \in 0..n
      OBVIOUS
    <3>8. n \in Same
      BY <3>5, <3>6, <3>7, Upwards, Zenon
    <3> QED
      BY <2>2, <3>1, <3>8 DEF Same
  <2> QED
    BY <2>1, <2>2
<1>9. Flats(flat, seqs, S, n)
  BY <1>3, <1>4, <1>5 DEF Flats
<1> QED
  BY <1>9

\* What is put together of parts of a kind that stays when two are, is of that kind.
LEMMA FlatIn ==
  ASSUME NEW S, NEW T \in SUBSET Seq(S), <<>> \in T, \A x, y \in T : x \o y \in T,
         NEW seqs \in Seq(T)
  PROVE  FlattenSeq(seqs) \in T
<1> PICK n \in Nat : n = Len(seqs)
  OBVIOUS
<1>1. seqs \in Seq(Seq(S)) /\ \A k \in 1..n : seqs[k] \in T
  <2>1. \A k \in 1..n : seqs[k] \in T
    OBVIOUS
  <2>2. seqs = [k \in 1..n |-> seqs[k]]
    OBVIOUS
  <2> QED
    BY <2>1, <2>2, SeqDef
<1> PICK flat : Flats(flat, seqs, S, n)
  BY <1>1, Flattened
<1>2. /\ flat[0] = <<>> /\ FlattenSeq(seqs) = flat[n]
      /\ \A k \in 1..n : flat[k] = flat[k - 1] \o seqs[k]
  BY DEF Flats
<1> DEFINE Good == {k \in 0..n : flat[k] \in T}
<1>3. 0 \in Good
  BY <1>2
<1>4. ASSUME NEW k \in 1..n, k - 1 \in Good
      PROVE  k \in Good
  <2>1. flat[k - 1] \in T /\ seqs[k] \in T
    BY <1>1, <1>4
  <2>2. flat[k] = flat[k - 1] \o seqs[k]
    BY <1>2
  <2>3. flat[k] \in T
    BY <2>1, <2>2, Zenon
  <2> QED
    BY <2>3
<1> HIDE DEF Good
<1>5. n \in 0..n
  OBVIOUS
<1>6. n \in Good
  BY <1>3, <1>4, <1>5, Upwards, Zenon
<1> QED
  BY <1>2, <1>6 DEF Good

-----------------------------------------------------------------------------
(* Texts with one kind of line ending *)

Plain == Chars \ {"LF", "CR"}
LfTexts == {t \in Seq(Chars) : \A i \in 1..Len(t) : t[i] # "CR"}
CrlfTexts ==
  {t \in Seq(Chars) : \A i \in 1..Len(t) : /\ t[i] = "CR" => i < Len(t) /\ t[i + 1] = "LF"
                                           /\ t[i] = "LF" => i > 1 /\ t[i - 1] = "CR"}

\* The texts that have t's line endings, or none.
TextsLike(t) == IF HasCRLF(t) THEN CrlfTexts ELSE LfTexts

\* A text that passes validate_line_endings_bytes has one kind of ending.
LEMMA LikeItself ==
  ASSUME NEW t \in Seq(Chars), ValidEndings(t)
  PROVE  t \in TextsLike(t)
<1> PICK n \in Nat : n = Len(t)
  OBVIOUS
<1>1. \A i \in 1..n : t[i] = "CR" => i < n /\ t[i + 1] = "LF"
  BY DEF ValidEndings, LoneCR
<1>2. CASE HasCRLF(t)
  <2>1. \A i \in 1..n : t[i] = "LF" => i > 1 /\ t[i - 1] = "CR"
    BY <1>2 DEF ValidEndings, BareLF
  <2> QED
    BY <1>1, <1>2, <2>1 DEF TextsLike, CrlfTexts
<1>3. CASE ~HasCRLF(t)
  <2>1. ASSUME NEW i \in 1..n, t[i] = "CR"
        PROVE  FALSE
    <3>1. i \in 1..(n - 1) /\ t[i + 1] = "LF"
      BY <1>1, <2>1
    <3> QED
      BY <1>3, <2>1, <3>1 DEF HasCRLF
  <2> QED
    BY <1>3, <2>1 DEF TextsLike, LfTexts
<1> QED
  BY <1>2, <1>3

\* And one that has t's ending, or none, passes it.
LEMMA LikeKeeps ==
  ASSUME NEW t, NEW u \in TextsLike(t)
  PROVE  u \in Seq(Chars) /\ ValidEndings(u) /\ (Contains(u, "LF") => (HasCRLF(u) <=> HasCRLF(t)))
<1>1. CASE HasCRLF(t)
  <2>1. /\ u \in Seq(Chars)
        /\ \A i \in 1..Len(u) : /\ u[i] = "CR" => i < Len(u) /\ u[i + 1] = "LF"
                                /\ u[i] = "LF" => i > 1 /\ u[i - 1] = "CR"
    BY <1>1 DEF TextsLike, CrlfTexts
  <2> PICK n \in Nat : n = Len(u)
    BY <2>1
  <2>2. ~LoneCR(u) /\ ~BareLF(u)
    BY <2>1 DEF LoneCR, BareLF
  <2>3. ASSUME NEW i \in 1..n, u[i] = "LF"
        PROVE  HasCRLF(u)
    <3>1. i - 1 \in 1..(n - 1) /\ (i - 1) + 1 = i /\ u[i - 1] = "CR"
      BY <2>1, <2>3
    <3> QED
      BY <2>3, <3>1 DEF HasCRLF
  <2>4. Contains(u, "LF") => HasCRLF(u)
    BY <2>3 DEF Contains
  <2> QED
    BY <1>1, <2>1, <2>2, <2>4 DEF ValidEndings
<1>2. CASE ~HasCRLF(t)
  <2>1. u \in Seq(Chars) /\ \A i \in 1..Len(u) : u[i] # "CR"
    BY <1>2 DEF TextsLike, LfTexts
  <2> PICK n \in Nat : n = Len(u)
    BY <2>1
  <2>2. ~LoneCR(u)
    BY <2>1 DEF LoneCR
  <2>3. ~HasCRLF(u)
    <3>1. \A i \in 1..(n - 1) : i \in 1..n
      OBVIOUS
    <3> QED
      BY <2>1, <3>1 DEF HasCRLF
  <2> QED
    BY <1>2, <2>1, <2>2, <2>3 DEF ValidEndings
<1> QED
  BY <1>1, <1>2

\* Texts of one kind put together are of that kind, and so are those without endings.
LEMMA LikeJoins ==
  ASSUME NEW t, NEW T, T = TextsLike(t)
  PROVE  /\ T \in SUBSET Seq(Chars) /\ <<>> \in T /\ Ending(t) \in T
         /\ \A x, y \in T : x \o y \in T
         /\ \A x \in Seq(Plain) : x \in T
         /\ \A c \in Plain : <<c>> \in T
<1>1. T \in SUBSET Seq(Chars)
  BY DEF TextsLike, CrlfTexts, LfTexts
<1>2. \A x \in Seq(Plain) : x \in T
  <2> SUFFICES ASSUME NEW x \in Seq(Plain)
               PROVE  x \in T
    OBVIOUS
  <2>1. x \in Seq(Chars) /\ \A i \in 1..Len(x) : x[i] \notin {"LF", "CR"}
    <3>1. PICK n \in Nat : n = Len(x)
      OBVIOUS
    <3>2. \A i \in 1..n : x[i] \in Chars /\ x[i] \notin {"LF", "CR"}
      BY <3>1 DEF Plain
    <3>3. x \in [1..n -> Chars]
      BY <3>1, <3>2
    <3>4. x \in Seq(Chars)
      BY <3>1, <3>3, SeqDef
    <3> QED
      BY <3>1, <3>2, <3>4
  <2> QED
    BY <2>1 DEF TextsLike, CrlfTexts, LfTexts
<1>3. <<>> \in T /\ \A c \in Plain : <<c>> \in T
  <2>1. <<>> \in Seq(Plain) /\ \A c \in Plain : <<c>> \in Seq(Plain)
    BY EmptySeq
  <2> QED
    BY <1>2, <2>1
<1>4. Ending(t) \in T
  <2>1. CASE HasCRLF(t)
    <3>1. PICK e : e = <<"CR", "LF">>
      OBVIOUS
    <3>2. e \in Seq(Chars) /\ Len(e) = 2 /\ e[1] = "CR" /\ e[2] = "LF"
      BY <3>1 DEF Chars
    <3>3. ASSUME NEW i \in 1..2
          PROVE  /\ e[i] = "CR" => i < 2 /\ e[i + 1] = "LF"
                 /\ e[i] = "LF" => i > 1 /\ e[i - 1] = "CR"
      <4>1. i = 1 \/ i = 2
        OBVIOUS
      <4> QED
        BY <3>2, <4>1
    <3> QED
      BY <2>1, <3>1, <3>2, <3>3 DEF TextsLike, CrlfTexts, Ending
  <2>2. CASE ~HasCRLF(t)
    <3>1. <<"LF">> \in Seq(Chars) /\ \A i \in 1..Len(<<"LF">>) : <<"LF">>[i] # "CR"
      BY DEF Chars
    <3> QED
      BY <2>2, <3>1 DEF TextsLike, LfTexts, Ending
  <2> QED
    BY <2>1, <2>2
<1>5. ASSUME NEW x \in T, NEW y \in T
      PROVE  x \o y \in T
  <2> PICK u : u = x \o y
    OBVIOUS
  <2> PICK m \in Nat : m = Len(x)
    BY <1>1
  <2> PICK n \in Nat : n = Len(y)
    BY <1>1
  <2>1. /\ u \in Seq(Chars) /\ Len(u) = m + n
        /\ \A i \in 1..(m + n) : u[i] = IF i <= m THEN x[i] ELSE y[i - m]
    BY <1>1, ConcatProperties
  <2>2. CASE HasCRLF(t)
    <3>1. /\ \A i \in 1..m : /\ x[i] = "CR" => i < m /\ x[i + 1] = "LF"
                             /\ x[i] = "LF" => i > 1 /\ x[i - 1] = "CR"
          /\ \A i \in 1..n : /\ y[i] = "CR" => i < n /\ y[i + 1] = "LF"
                             /\ y[i] = "LF" => i > 1 /\ y[i - 1] = "CR"
      BY <2>2 DEF TextsLike, CrlfTexts
    <3>2. ASSUME NEW i \in 1..(m + n)
          PROVE  /\ u[i] = "CR" => i < m + n /\ u[i + 1] = "LF"
                 /\ u[i] = "LF" => i > 1 /\ u[i - 1] = "CR"
      <4>1. CASE i <= m
        <5>1. u[i] = x[i] /\ i \in 1..m
          BY <2>1, <4>1
        <5>2. i < m => u[i + 1] = x[i + 1]
          BY <2>1, <4>1
        <5>3. i > 1 => u[i - 1] = x[i - 1]
          BY <2>1, <4>1
        <5> QED
          BY <3>1, <5>1, <5>2, <5>3
      <4>2. CASE i > m
        <5> PICK j \in 1..n : j = i - m
          BY <4>2
        <5>1. u[i] = y[j]
          BY <2>1, <4>2
        <5>2. j < n => i < m + n /\ u[i + 1] = y[j + 1]
          <6>1. (i + 1) - m = j + 1 /\ ~(i + 1 <= m)
            BY <4>2
          <6> QED
            BY <2>1, <6>1
        <5>3. j > 1 => i > 1 /\ u[i - 1] = y[j - 1]
          <6>1. (i - 1) - m = j - 1 /\ (j > 1 => i - 1 > m)
            OBVIOUS
          <6> QED
            BY <2>1, <6>1
        <5> QED
          BY <3>1, <5>1, <5>2, <5>3
      <4> QED
        BY <4>1, <4>2
    <3> QED
      BY <2>1, <2>2, <3>2 DEF TextsLike, CrlfTexts
  <2>3. CASE ~HasCRLF(t)
    <3>1. (\A i \in 1..m : x[i] # "CR") /\ (\A i \in 1..n : y[i] # "CR")
      BY <2>3 DEF TextsLike, LfTexts
    <3>2. ASSUME NEW i \in 1..(m + n)
          PROVE  u[i] # "CR"
      <4>1. i <= m \/ i - m \in 1..n
        OBVIOUS
      <4> QED
        BY <2>1, <3>1, <4>1
    <3> QED
      BY <2>1, <2>3, <3>2 DEF TextsLike, LfTexts
  <2> QED
    BY <2>2, <2>3
<1> QED
  BY <1>1, <1>2, <1>3, <1>4, <1>5

\* Arguments and appended content take the file's ending.
LEMMA Adapted ==
  ASSUME NEW t, NEW s \in Seq(Chars), ~HasCR(s)
  PROVE  InEnding(s, t) \in TextsLike(t) /\ Normalised(s, t) \in TextsLike(t)
<1> PICK T : T = TextsLike(t)
  OBVIOUS
<1> PICK n \in Nat : n = Len(s)
  OBVIOUS
<1>1. \A i \in 1..n : s[i] \in Chars /\ s[i] # "CR" /\ (s[i] = "LF" \/ s[i] \in Plain)
  BY DEF HasCR, Contains, Plain
<1>2. CASE HasCRLF(t)
  <2>1. Ending(t) = <<"CR", "LF">> /\ Ending(t) \in T /\ \A c \in Plain : <<c>> \in T
    BY <1>2, LikeJoins DEF Ending
  <2>2. PICK a : a = [i \in 1..n |-> IF s[i] = "LF" THEN Ending(t) ELSE <<s[i]>>]
    OBVIOUS
  <2>3. PICK b : b = [i \in 1..n |-> IF s[i] = "LF" /\ (i = 1 \/ s[i - 1] # "CR")
                                     THEN <<"CR", "LF">> ELSE <<s[i]>>]
    OBVIOUS
  <2>4. a \in Seq(T)
    <3>1. \A i \in 1..n : a[i] \in T
      BY <1>1, <2>1, <2>2
    <3> QED
      BY <2>2, <3>1, SeqDef
  <2>5. b \in Seq(T)
    <3>1. ASSUME NEW i \in 1..n
          PROVE  b[i] \in T
      <4>1. i = 1 \/ s[i - 1] # "CR"
        BY <1>1
      <4> QED
        BY <1>1, <2>1, <2>3, <4>1
    <3> QED
      BY <2>3, <3>1, SeqDef
  <2>6. FlattenSeq(a) \in T /\ FlattenSeq(b) \in T
    BY <2>4, <2>5, LikeJoins, FlatIn
  <2>7. InEnding(s, t) = FlattenSeq(a) /\ Normalised(s, t) = FlattenSeq(b)
    <3>1. DOMAIN s = 1..n
      OBVIOUS
    <3>2. InEnding(s, t) = FlattenSeq(a)
      BY <1>2, <2>2, <3>1, Zenon DEF InEnding
    <3>3. Normalised(s, t) = FlattenSeq(b)
      BY <1>2, <2>3, <3>1, Zenon DEF Normalised
    <3> QED
      BY <3>2, <3>3
  <2> QED
    BY <2>6, <2>7
<1>3. CASE ~HasCRLF(t)
  BY <1>1, <1>3 DEF TextsLike, LfTexts, InEnding, Normalised
<1> QED
  BY <1>2, <1>3

\* An append keeps the endings.
LEMMA AppendKeeps ==
  ASSUME NEW t \in Seq(Chars), ValidEndings(t), NEW c \in Seq(Chars), ~HasCR(c)
  PROVE  AppendText(c, t) \in TextsLike(t)
<1>1. t \in TextsLike(t) /\ Separator(t) \in TextsLike(t) /\ Terminator(c, t) \in TextsLike(t)
  BY LikeItself, LikeJoins DEF Separator, Terminator
<1>2. Normalised(c, t) \in TextsLike(t)
  BY Adapted
<1>3. \A x, y \in TextsLike(t) : x \o y \in TextsLike(t)
  BY LikeJoins
<1> QED
  BY <1>1, <1>2, <1>3 DEF AppendText

-----------------------------------------------------------------------------
(* The lines of a text *)

\* What split has after some of the characters.
PiecesOf(S) == {q \in Seq(Seq(S)) : Len(q) >= 1}

IsNext(more, q, c, len) ==
  /\ c = "LF" => Len(more) = len + 1 /\ more[len + 1] = <<>> /\ \A j \in 1..len : more[j] = q[j]
  /\ c # "LF" => /\ Len(more) = len /\ more[len] = Append(q[len], c)
                 /\ \A j \in 1..(len - 1) : more[j] = q[j]

LEMMA NextPiece ==
  ASSUME NEW S, NEW q \in PiecesOf(S), NEW c \in S, NEW more, more = WithNext(q, c), NEW len, len = Len(q)
  PROVE  more \in PiecesOf(S) /\ len \in Nat \ {0} /\ IsNext(more, q, c, len)
<1> PICK T : T = Seq(S)
  OBVIOUS
<1>1. q \in Seq(T) /\ len \in Nat \ {0} /\ len \in 1..Len(q) /\ len >= 1
  BY DEF PiecesOf
<1>2. CASE c = "LF"
  <2>1. more = Append(q, <<>>) /\ <<>> \in T
    BY <1>2, EmptySeq DEF WithNext
  <2>2. more \in Seq(T) /\ Len(more) = len + 1 /\ more[len + 1] = <<>> /\ \A j \in 1..len : more[j] = q[j]
    BY <1>1, <2>1, AppendProperties
  <2>3. more \in PiecesOf(S)
    BY <1>1, <2>2 DEF PiecesOf
  <2> QED
    BY <1>1, <1>2, <2>2, <2>3 DEF IsNext
<1>3. CASE c # "LF"
  <2>1. PICK x : x = Append(q[len], c)
    OBVIOUS
  <2>2. x \in T
    <3>1. q[len] \in T
      BY <1>1
    <3> QED
      BY <2>1, <3>1, AppendProperties
  <2>3. more = [q EXCEPT ![len] = x]
    BY <1>3, <2>1 DEF WithNext
  <2>4. more \in Seq(T) /\ Len(more) = len /\ \A j \in 1..len : more[j] = IF j = len THEN x ELSE q[j]
    BY <1>1, <2>2, <2>3, ExceptSeq
  <2>5. more[len] = x /\ \A j \in 1..(len - 1) : more[j] = q[j]
    <3>1. len \in 1..len /\ \A j \in 1..(len - 1) : j \in 1..len /\ j # len
      BY <1>1
    <3> QED
      BY <2>4, <3>1, Zenon
  <2>6. more \in PiecesOf(S)
    BY <1>1, <2>4 DEF PiecesOf
  <2> QED
    BY <1>1, <1>3, <2>1, <2>4, <2>5, <2>6 DEF IsNext
<1> QED
  BY <1>2, <1>3

IsSplit(pieces, t, n) ==
  pieces = [k \in 0..n |-> IF k = 0 THEN << <<>> >> ELSE WithNext(pieces[k - 1], t[k])]

SplitsBy(pieces, S, t, n) ==
  /\ pieces[0] = << <<>> >> /\ SplitAtLF(t) = pieces[n]
  /\ \A k \in 0..n : pieces[k] \in PiecesOf(S)
  /\ \A k \in 1..n : pieces[k] = WithNext(pieces[k - 1], t[k])

\* str::split, character by character.
LEMMA SplitSteps ==
  ASSUME NEW S, NEW t \in Seq(S), NEW n, n = Len(t)
  PROVE  \E pieces : SplitsBy(pieces, S, t, n)
<1> n \in Nat
  OBVIOUS
<1> PICK V : V = PiecesOf(S)
  OBVIOUS
<1>0. \A k \in 1..n : t[k] \in S
  OBVIOUS
<1>1. << <<>> >> \in V
  <2>1. <<>> \in Seq(S)
    BY EmptySeq
  <2>2. << <<>> >> \in Seq(Seq(S)) /\ Len(<< <<>> >>) = 1
    BY <2>1
  <2> QED
    BY <2>2 DEF PiecesOf
<1>2. \A k \in 1..n : \A q \in V : WithNext(q, t[k]) \in V
  BY <1>0, NextPiece
<1> DEFINE step == [k \in 1..n |-> [q \in V |-> WithNext(q, t[k])]]
<1>3. StepsIn(step, n, V)
  BY <1>2 DEF StepsIn
<1>4. \A k \in 1..n : \A q \in V : step[k][q] = WithNext(q, t[k])
  OBVIOUS
<1> HIDE DEF step
<1>5. PICK some : Iterates(some, << <<>> >>, step, n, V)
  BY <1>1, <1>3, Iteration
<1>6. \E pieces : IsSplit(pieces, t, n)
  <2>1. /\ some \in [0..n -> V] /\ some[0] = << <<>> >>
        /\ \A k \in 1..n : some[k] = step[k][some[k - 1]]
    BY <1>5 DEF Iterates
  <2>2. ASSUME NEW k \in 0..n
        PROVE  some[k] = IF k = 0 THEN << <<>> >> ELSE WithNext(some[k - 1], t[k])
    <3>1. CASE k = 0
      BY <2>1, <3>1
    <3>2. CASE k # 0
      <4>1. k \in 1..n /\ some[k - 1] \in V
        BY <2>1, <3>2
      <4> QED
        BY <1>4, <2>1, <3>2, <4>1
    <3> QED
      BY <3>1, <3>2
  <2>3. some = [k \in 0..n |-> some[k]]
    BY <2>1
  <2>4. IsSplit(some, t, n)
    BY <2>2, <2>3 DEF IsSplit
  <2> QED
    BY <2>4
<1> DEFINE choice == CHOOSE pieces : IsSplit(pieces, t, n)
<1>7. IsSplit(choice, t, n)
  BY <1>6
<1>8. SplitAtLF(t) = choice[n]
  BY DEF SplitAtLF, IsSplit
<1> HIDE DEF choice
<1>9. choice[0] = << <<>> >> /\ \A k \in 1..n : choice[k] = WithNext(choice[k - 1], t[k])
  BY <1>7 DEF IsSplit
<1> DEFINE Good == {k \in 0..n : choice[k] \in V}
<1>10. 0 \in Good
  BY <1>1, <1>9
<1>11. ASSUME NEW k \in 1..n, k - 1 \in Good
       PROVE  k \in Good
  <2>1. choice[k] \in V
    BY <1>2, <1>9, <1>11
  <2> QED
    BY <2>1
<1>12. \A k \in 0..n : choice[k] \in V
  <2>1. \A k \in 0..n : k \in Good
    <3> HIDE DEF Good
    <3> QED
      BY <1>10, <1>11, Upwards
  <2> QED
    BY <2>1
<1>13. SplitsBy(choice, S, t, n)
  BY <1>8, <1>9, <1>12, Zenon DEF SplitsBy
<1> QED
  BY <1>13

\* A piece between two LFs: it has none, and a CR only at its end.
LineLike(x) == \A i \in 1..Len(x) : x[i] # "LF" /\ (x[i] = "CR" => i = Len(x))

LEMMA PiecesAreLines ==
  ASSUME NEW S, NEW t \in Seq(S), ~LoneCR(t), NEW all, all = SplitAtLF(t)
  PROVE  all \in PiecesOf(S) /\ \A j \in 1..Len(all) : LineLike(all[j])
<1> PICK n \in Nat : n = Len(t)
  OBVIOUS
<1>1. \A k \in 1..n : t[k] = "CR" => k < n /\ t[k + 1] = "LF"
  BY DEF LoneCR
<1> PICK pieces : SplitsBy(pieces, S, t, n)
  BY SplitSteps
<1>2. /\ pieces[0] = << <<>> >> /\ SplitAtLF(t) = pieces[n]
      /\ \A k \in 0..n : pieces[k] \in PiecesOf(S)
      /\ \A k \in 1..n : pieces[k] = WithNext(pieces[k - 1], t[k])
  BY DEF SplitsBy
<1> DEFINE Fine(q, k) ==
      /\ \A j \in 1..Len(q) : LineLike(q[j])
      /\ \A i \in 1..Len(q[Len(q)]) : q[Len(q)][i] = "CR" => k > 0 /\ t[k] = "CR"
    Good == {k \in 0..n : Fine(pieces[k], k)}
<1>3. 0 \in Good
  <2>1. Len(<< <<>> >>) = 1 /\ << <<>> >>[1] = <<>> /\ Len(<<>>) = 0
    OBVIOUS
  <2>2. \A i \in 1..0 : FALSE
    OBVIOUS
  <2>3. LineLike(<<>>)
    BY <2>1, <2>2 DEF LineLike
  <2>4. Fine(<< <<>> >>, 0)
    BY <2>1, <2>2, <2>3
  <2>5. pieces[0] = << <<>> >> /\ 0 \in 0..n
    BY <1>2
  <2> HIDE DEF Fine
  <2>6. Fine(pieces[0], 0)
    BY <2>4, <2>5, Zenon
  <2> QED
    BY <2>5, <2>6
<1>4. ASSUME NEW k \in 1..n, k - 1 \in Good
      PROVE  k \in Good
  <2>1. PICK q, more, len, c : q = pieces[k - 1] /\ more = pieces[k] /\ len = Len(q) /\ c = t[k]
    OBVIOUS
  <2>2. q \in PiecesOf(S) /\ c \in S /\ more = WithNext(q, c) /\ k - 1 \in 0..n
    BY <1>2, <2>1
  <2>3. /\ more \in PiecesOf(S) /\ len \in Nat \ {0}
        /\ c = "LF" => /\ Len(more) = len + 1 /\ more[len + 1] = <<>>
                       /\ \A j \in 1..len : more[j] = q[j]
        /\ c # "LF" => /\ Len(more) = len /\ more[len] = Append(q[len], c)
                       /\ \A j \in 1..(len - 1) : more[j] = q[j]
    <3>1. more \in PiecesOf(S) /\ len \in Nat \ {0} /\ IsNext(more, q, c, len)
      BY <2>1, <2>2, NextPiece
    <3> QED
      BY <3>1 DEF IsNext
  <2>4. /\ \A j \in 1..len : LineLike(q[j])
        /\ \A i \in 1..Len(q[len]) : q[len][i] = "CR" => k - 1 > 0 /\ t[k - 1] = "CR"
    BY <1>4, <2>1
  <2>5. CASE c = "LF"
    <3>1. LineLike(<<>>)
      BY DEF LineLike
    <3>2. \A j \in 1..(len + 1) : LineLike(more[j])
      BY <2>3, <2>4, <2>5, <3>1
    <3>3. Len(more[len + 1]) = 0
      BY <2>3, <2>5
    <3>4. Fine(more, k)
      BY <2>3, <2>5, <3>2, <3>3
    <3> QED
      BY <2>1, <3>4
  <2>6. CASE c # "LF"
    <3>1. PICK x, y, m : x = q[len] /\ y = Append(x, c) /\ m = Len(x)
      OBVIOUS
    <3>2. x \in Seq(S) /\ m \in Nat
      BY <2>1, <2>2, <2>3, <3>1 DEF PiecesOf
    <3>3. Len(y) = m + 1 /\ y[m + 1] = c /\ \A i \in 1..m : y[i] = x[i]
      BY <2>2, <3>1, <3>2, AppendProperties
    <3>4. \A i \in 1..m : x[i] # "CR" /\ x[i] # "LF"
      <4>1. k - 1 > 0 /\ t[k - 1] = "CR" => t[k] = "LF"
        <5>1. k - 1 > 0 => k - 1 \in 1..n /\ (k - 1) + 1 = k
          OBVIOUS
        <5> QED
          BY <1>1, <5>1
      <4>2. \A i \in 1..m : x[i] # "CR"
        BY <2>1, <2>4, <2>6, <3>1, <4>1
      <4>3. LineLike(x)
        BY <2>3, <2>4, <3>1
      <4> QED
        BY <3>1, <4>2, <4>3 DEF LineLike
    <3>5. LineLike(y)
      BY <2>6, <3>2, <3>3, <3>4 DEF LineLike
    <3>6. \A i \in 1..(m + 1) : y[i] = "CR" => k > 0 /\ t[k] = "CR"
      BY <2>1, <3>2, <3>3, <3>4
    <3>7. \A j \in 1..len : LineLike(more[j])
      <4>1. \A j \in 1..len : j = len \/ j \in 1..(len - 1)
        BY <2>3
      <4>2. more[len] = y
        BY <2>3, <2>6, <3>1
      <4> QED
        BY <2>3, <2>4, <2>6, <3>5, <4>1, <4>2
    <3>8. Fine(more, k)
      <4>1. Len(more) = len /\ more[len] = y
        BY <2>3, <2>6, <3>1
      <4> QED
        BY <3>3, <3>6, <3>7, <4>1
    <3> QED
      BY <2>1, <3>8
  <2> QED
    BY <2>5, <2>6
<1> HIDE DEF Good
<1>5. n \in 0..n /\ n \in Good
  <2>1. n \in 0..n
    OBVIOUS
  <2> QED
    BY <1>3, <1>4, <2>1, Upwards, Zenon
<1>6. Fine(pieces[n], n)
  BY <1>5 DEF Good
<1> QED
  BY <1>2, <1>5, <1>6

\* Such a piece without its CR is a line.
LEMMA LineFrom ==
  ASSUME NEW x \in Seq(Chars), LineLike(x)
  PROVE  WithoutCR(x) \in Seq(Plain)
<1> PICK n \in Nat : n = Len(x)
  OBVIOUS
<1>1. \A i \in 1..n : x[i] \in Chars /\ x[i] # "LF" /\ (x[i] = "CR" => i = n)
  BY DEF LineLike
<1>2. CASE x # <<>> /\ Last(x) = "CR"
  <2>1. PICK m : m = n - 1
    OBVIOUS
  <2>2. m \in 0..n /\ m + 1 = n /\ 1 \in Int /\ m \in Int
    BY <1>2, <2>1, EmptySeq
  <2>3. \A i \in 1..m : x[i] \in Plain
    BY <1>1, <2>2 DEF Plain
  <2>4. SubSeq(x, 1, m) \in Seq(Plain)
    BY <2>2, <2>3, SubSeqProperties
  <2> QED
    BY <1>2, <2>1, <2>4 DEF WithoutCR, Front
<1>3. CASE ~(x # <<>> /\ Last(x) = "CR")
  <2>1. \A i \in 1..n : x[i] \in Plain
    <3>1. n # 0 => x # <<>> /\ x[n] # "CR"
      BY <1>3 DEF Last
    <3> QED
      BY <1>1, <3>1 DEF Plain
  <2>2. x \in [1..n -> Plain]
    BY <2>1
  <2>3. x \in Seq(Plain)
    BY <2>2, SeqDef
  <2> QED
    BY <1>3, <2>3 DEF WithoutCR
<1> QED
  BY <1>2, <1>3

\* split_lines and content_to_lines give lines without endings.
LEMMA LinesOf ==
  ASSUME NEW t \in Seq(Chars)
  PROVE  /\ ValidEndings(t) => SplitLines(t) \in Seq(Seq(Plain))
         /\ ~HasCR(t) => ContentToLines(t) \in Seq(Seq(Plain))
<1>1. ASSUME ValidEndings(t)
      PROVE  SplitLines(t) \in Seq(Seq(Plain))
  <2>1. PICK all, n : all = SplitAtLF(t) /\ n = Len(all)
    OBVIOUS
  <2>2. all \in Seq(Seq(Chars)) /\ n \in Nat \ {0} /\ \A j \in 1..n : LineLike(all[j])
    <3>1. ~LoneCR(t)
      BY <1>1 DEF ValidEndings
    <3>2. all \in PiecesOf(Chars) /\ \A j \in 1..Len(all) : LineLike(all[j])
      BY <2>1, <3>1, PiecesAreLines, Zenon
    <3>3. all \in Seq(Seq(Chars)) /\ Len(all) >= 1
      BY <3>2 DEF PiecesOf
    <3>4. n \in Nat \ {0}
      BY <2>1, <3>3
    <3> QED
      BY <2>1, <3>2, <3>3, <3>4
  <2>3. PICK pieces : pieces = [i \in 1..n |-> WithoutCR(all[i])]
    OBVIOUS
  <2>4. pieces \in Seq(Seq(Plain)) /\ Len(pieces) = n
    <3>1. \A i \in 1..n : WithoutCR(all[i]) \in Seq(Plain)
      BY <2>1, <2>2, LineFrom
    <3>2. pieces \in [1..n -> Seq(Plain)]
      BY <2>3, <3>1
    <3> QED
      BY <2>2, <3>2, SeqDef
  <2>5. DOMAIN SplitAtLF(t) = 1..n
    BY <2>1, <2>2
  <2>6. SplitLines(t) = IF t = <<>> \/ Terminated(t) THEN Front(pieces) ELSE pieces
    BY <2>1, <2>3, <2>5, Zenon DEF SplitLines
  <2>7. Front(pieces) \in Seq(Seq(Plain))
    <3>1. PICK m : m = n - 1
      OBVIOUS
    <3>2. m \in 0..Len(pieces)
      BY <2>2, <2>4, <3>1
    <3>3. SubSeq(pieces, 1, m) \in Seq(Seq(Plain))
      BY <2>4, <3>2, Part
    <3> QED
      BY <2>4, <3>1, <3>3 DEF Front
  <2> QED
    BY <2>4, <2>6, <2>7
<1>2. ASSUME ~HasCR(t)
      PROVE  ContentToLines(t) \in Seq(Seq(Plain))
  <2>1. PICK n, S : n = Len(t) /\ S = Chars \ {"CR"}
    OBVIOUS
  <2>2. n \in Nat /\ \A i \in 1..n : t[i] \in S
    BY <1>2, <2>1 DEF HasCR, Contains
  <2>3. PICK c : c = IF Terminated(t) THEN Front(t) ELSE t
    OBVIOUS
  <2>4. c \in Seq(S)
    <3>1. CASE Terminated(t)
      <4>1. PICK m : m = n - 1
        OBVIOUS
      <4>2. m \in Int /\ 1 \in Int /\ \A i \in 1..m : t[i] \in S
        BY <2>2, <4>1
      <4>3. SubSeq(t, 1, m) \in Seq(S)
        BY <4>2, SubSeqProperties
      <4> QED
        BY <2>1, <2>3, <3>1, <4>1, <4>3 DEF Front
    <3>2. CASE ~Terminated(t)
      <4>1. t \in [1..n -> S]
        BY <2>1, <2>2
      <4> QED
        BY <2>2, <2>3, <3>2, <4>1, SeqDef
    <3> QED
      BY <3>1, <3>2
  <2>5. ~LoneCR(c)
    BY <2>1, <2>4 DEF LoneCR
  <2>6. PICK all, len : all = SplitAtLF(c) /\ len = Len(all)
    OBVIOUS
  <2>7. all \in Seq(Seq(S)) /\ len \in Nat /\ \A j \in 1..len : LineLike(all[j])
    BY <2>4, <2>5, <2>6, PiecesAreLines DEF PiecesOf
  <2>8. ASSUME NEW j \in 1..len
        PROVE  all[j] \in Seq(Plain)
    <3>1. PICK x, m : x = all[j] /\ m = Len(x)
      OBVIOUS
    <3>2. x \in Seq(S) /\ m \in Nat /\ \A i \in 1..m : x[i] # "LF"
      BY <2>6, <2>7, <3>1 DEF LineLike
    <3>3. \A i \in 1..m : x[i] \in Plain
      BY <2>1, <3>1, <3>2 DEF Plain
    <3>4. x \in [1..m -> Plain]
      BY <3>1, <3>2, <3>3
    <3> QED
      BY <3>1, <3>2, <3>4, SeqDef
  <2>9. all \in [1..len -> Seq(Plain)]
    BY <2>6, <2>7, <2>8
  <2>10. all \in Seq(Seq(Plain))
    BY <2>7, <2>9, SeqDef
  <2> QED
    BY <2>3, <2>6, <2>10 DEF ContentToLines
<1> QED
  BY <1>1, <1>2

\* join_lines_with_ending
LEMMA JoinedLike ==
  ASSUME NEW t, NEW lines \in Seq(Seq(Plain)), NEW trailing
  PROVE  JoinLines(lines, Ending(t), trailing) \in TextsLike(t)
<1> PICK T, n : T = TextsLike(t) /\ n = Len(lines)
  OBVIOUS
<1>1. n \in Nat /\ DOMAIN lines = 1..n /\ \A i \in 1..n : lines[i] \in Seq(Plain)
  OBVIOUS
<1>2. PICK joined : joined = [i \in 1..n |-> IF i < Len(lines) \/ trailing THEN lines[i] \o Ending(t) ELSE lines[i]]
  OBVIOUS
<1>3. JoinLines(lines, Ending(t), trailing) = FlattenSeq(joined)
  BY <1>1, <1>2, Zenon DEF JoinLines
<1>4. \A i \in 1..n : lines[i] \in T /\ lines[i] \o Ending(t) \in T
  BY <1>1, LikeJoins
<1>5. joined \in [1..n -> T]
  BY <1>2, <1>4
<1>6. joined \in Seq(T)
  BY <1>1, <1>5, FunSeq, Zenon
<1>7. FlattenSeq(joined) \in T
  BY <1>6, LikeJoins, FlatIn
<1> QED
  BY <1>3, <1>7

-----------------------------------------------------------------------------
(* Edits keep the endings *)

\* What an edit gives, if it gives a text, has the endings of the text it was given.
Keeps(e, t) == e.ok => ValidEndings(t) /\ e.text \in TextsLike(t)

LEMMA FailedKeeps ==
  ASSUME NEW t
  PROVE  Keeps(Failed, t)
BY DEF Keeps, Failed

\* An edit of lines.
LEMMA LinesKeep ==
  ASSUME NEW t \in Seq(Chars), NEW given \in Seq(Chars), NEW kind,
         NEW first \in Nat \ {0}, NEW last \in Nat, first <= last + 1
  PROVE  Keeps(EditLines(kind, t, first, last, given), t)
<1> PICK lines, n, L : lines = SplitLines(t) /\ n = Len(lines) /\ L = Seq(Plain)
  OBVIOUS
<1>1. CASE ~ValidEndings(t) \/ last > n \/ HasCR(given)
  <2>1. EditLines(kind, t, first, last, given) = Failed
    BY <1>1, Zenon DEF EditLines
  <2> QED
    BY <2>1, FailedKeeps
<1>2. CASE ~(~ValidEndings(t) \/ last > n \/ HasCR(given))
  <2>1. lines \in Seq(L) /\ ContentToLines(given) \in Seq(L)
    BY <1>2, LinesOf
  <2>2. PICK a, b, c : /\ a = SubSeq(lines, 1, first - 1)
                       /\ b = (IF kind = "delete" THEN <<>> ELSE ContentToLines(given))
                       /\ c = SubSeq(lines, last + 1, n)
    OBVIOUS
  <2>3. n \in Nat /\ last <= n
    BY <1>2, <2>1
  <2>4. a \in Seq(L)
    <3>1. PICK m : m = first - 1
      OBVIOUS
    <3>2. m \in 0..Len(lines) /\ 1 \in Nat \ {0}
      BY <2>3, <3>1
    <3> QED
      BY <2>1, <2>2, <3>1, <3>2, Part
  <2>5. c \in Seq(L)
    <3>1. PICK m : m = last + 1
      OBVIOUS
    <3>2. m \in Nat \ {0} /\ n \in 0..Len(lines)
      BY <2>3, <3>1
    <3> QED
      BY <2>1, <2>2, <3>1, <3>2, Part
  <2>6. b \in Seq(L)
    BY <2>1, <2>2, EmptySeq
  <2>7. a \o b \o c \in Seq(L)
    BY <2>4, <2>5, <2>6, ConcatProperties
  <2>8. PICK after : after = JoinLines(a \o b \o c, Ending(t), Terminated(t))
    OBVIOUS
  <2>9. after \in TextsLike(t)
    BY <2>7, <2>8, JoinedLike
  <2>10. EditLines(kind, t, first, last, given) = Text(after)
    BY <1>2, <2>2, <2>8, Zenon DEF EditLines
  <2> QED
    BY <1>2, <2>9, <2>10 DEF Keeps, Text
<1> QED
  BY <1>1, <1>2

\* Where a text occurs in another.
Occurrences(t, f) == {i \in 1..Len(t) : IsPrefix(f, SubSeq(t, i, Len(t)))}

IsFound(found, t, f, n) ==
  found = [k \in 0..n |-> IF k = 0 THEN <<>> ELSE WithMatch(found[k - 1], t, f, k)]

LEMMA MatchesOccur ==
  ASSUME NEW S, NEW t \in Seq(S), NEW f
  PROVE  Matches(t, f) \in Seq(Occurrences(t, f))
<1> PICK n \in Nat : n = Len(t)
  OBVIOUS
<1> PICK M, V : M = Occurrences(t, f) /\ V = Seq(M)
  OBVIOUS
<1>1. <<>> \in V
  BY EmptySeq
<1>2. ASSUME NEW k \in 1..n, NEW q \in V
      PROVE  WithMatch(q, t, f, k) \in V
  <2>1. CASE IsPrefix(f, SubSeq(t, k, Len(t)))
    <3>1. k \in M
      BY <2>1 DEF Occurrences
    <3>2. Append(q, k) \in V
      BY <3>1, AppendProperties
    <3> QED
      BY <3>2 DEF WithMatch
  <2>2. CASE ~IsPrefix(f, SubSeq(t, k, Len(t)))
    BY <2>2 DEF WithMatch
  <2> QED
    BY <2>1, <2>2
<1> DEFINE step == [k \in 1..n |-> [q \in V |-> WithMatch(q, t, f, k)]]
<1>3. StepsIn(step, n, V)
  BY <1>2 DEF StepsIn
<1>4. \A k \in 1..n : \A q \in V : step[k][q] = WithMatch(q, t, f, k)
  OBVIOUS
<1> HIDE DEF step
<1>5. PICK some : Iterates(some, <<>>, step, n, V)
  BY <1>1, <1>3, Iteration
<1>6. \E found : IsFound(found, t, f, n)
  <2>1. /\ some \in [0..n -> V] /\ some[0] = <<>>
        /\ \A k \in 1..n : some[k] = step[k][some[k - 1]]
    BY <1>5 DEF Iterates
  <2>2. ASSUME NEW k \in 0..n
        PROVE  some[k] = IF k = 0 THEN <<>> ELSE WithMatch(some[k - 1], t, f, k)
    <3>1. CASE k = 0
      BY <2>1, <3>1
    <3>2. CASE k # 0
      <4>1. k \in 1..n /\ some[k - 1] \in V
        BY <2>1, <3>2
      <4> QED
        BY <1>4, <2>1, <3>2, <4>1
    <3> QED
      BY <3>1, <3>2
  <2>3. some = [k \in 0..n |-> some[k]]
    BY <2>1
  <2>4. IsFound(some, t, f, n)
    BY <2>2, <2>3 DEF IsFound
  <2> QED
    BY <2>4
<1> DEFINE choice == CHOOSE found : IsFound(found, t, f, n)
<1>7. IsFound(choice, t, f, n)
  BY <1>6
<1>8. Matches(t, f) = choice[n]
  BY DEF Matches, IsFound
<1> HIDE DEF choice
<1>9. choice[0] = <<>> /\ \A k \in 1..n : choice[k] = WithMatch(choice[k - 1], t, f, k)
  BY <1>7 DEF IsFound
<1> DEFINE Good == {k \in 0..n : choice[k] \in V}
<1>10. 0 \in Good
  <2>1. 0 \in 0..n
    OBVIOUS
  <2>2. choice[0] \in V
    BY <1>1, <1>9, Zenon
  <2> QED
    BY <2>1, <2>2, Zenon
<1>11. ASSUME NEW k \in 1..n, k - 1 \in Good
       PROVE  k \in Good
  <2>1. choice[k] \in V
    BY <1>2, <1>9, <1>11
  <2> QED
    BY <2>1
<1>12. n \in 0..n
  OBVIOUS
<1> HIDE DEF Good
<1>13. n \in Good
  BY <1>10, <1>11, <1>12, Upwards, Zenon
<1> QED
  BY <1>8, <1>13 DEF Good

\* The file's ending takes nothing away.
LEMMA InEndingNonempty ==
  ASSUME NEW t, NEW s \in Seq(Chars), s # <<>>, ~HasCR(s)
  PROVE  InEnding(s, t) # <<>>
<1> PICK n \in Nat : n = Len(s)
  OBVIOUS
<1>1. CASE ~HasCRLF(t)
  BY <1>1 DEF InEnding
<1>2. CASE HasCRLF(t)
  <2>1. PICK a : a = [i \in 1..n |-> IF s[i] = "LF" THEN Ending(t) ELSE <<s[i]>>]
    OBVIOUS
  <2>2. DOMAIN s = 1..n /\ n \in 1..n
    BY EmptySeq
  <2>3. InEnding(s, t) = FlattenSeq(a)
    BY <1>2, <2>1, <2>2, Zenon DEF InEnding
  <2>4. Ending(t) \in Seq(Chars) /\ Len(Ending(t)) = 2
    BY <1>2 DEF Ending, Chars
  <2>5. \A i \in 1..n : a[i] \in Seq(Chars) /\ Len(a[i]) >= 1
    <3>1. \A i \in 1..n : <<s[i]>> \in Seq(Chars) /\ Len(<<s[i]>>) >= 1
      OBVIOUS
    <3>2. Len(Ending(t)) >= 1
      BY <2>4
    <3>3. PICK e : e = Ending(t)
      OBVIOUS
    <3>4. \A i \in 1..n : a[i] = e \/ a[i] = <<s[i]>>
      BY <2>1, <3>3
    <3> QED
      BY <2>4, <3>1, <3>2, <3>3, <3>4, Zenon
  <2>6. a \in Seq(Seq(Chars)) /\ Len(a) = n
    <3>1. a \in [1..n -> Seq(Chars)]
      BY <2>1, <2>5
    <3> QED
      BY <3>1, SeqDef
  <2>7. PICK flat : Flats(flat, a, Chars, n)
    BY <2>6, Flattened
  <2>8. /\ FlattenSeq(a) = flat[n]
        /\ flat[n - 1] \in Seq(Chars) /\ flat[n] = flat[n - 1] \o a[n]
    <3>1. n - 1 \in 0..n
      BY <2>2
    <3> QED
      BY <2>2, <2>7, <3>1 DEF Flats
  <2>9. Len(flat[n]) >= 1
    <3>1. PICK x, y : x = flat[n - 1] /\ y = a[n]
      OBVIOUS
    <3>2. x \in Seq(Chars) /\ y \in Seq(Chars) /\ Len(y) >= 1
      BY <2>2, <2>5, <2>8, <3>1
    <3>3. Len(x \o y) = Len(x) + Len(y) /\ Len(x) \in Nat /\ Len(y) \in Nat
      BY <3>2
    <3>4. Len(x \o y) >= 1
      BY <3>2, <3>3
    <3> QED
      BY <2>8, <3>1, <3>4
  <2>10. flat[n] # <<>>
    <3>1. Len(<<>>) = 0
      OBVIOUS
    <3> QED
      BY <2>9, <3>1
  <2> QED
    BY <2>3, <2>8, <2>10
<1> QED
  BY <1>1, <1>2

\* Text is replaced by text of the same kind: no occurrence ends between a CR and its LF,
\* and none begins there.
Covered(i, M, len) == \E m \in M : m < i /\ i < m + len

HasAt(t, n, m, f, len) == m \in 1..n /\ m + len <= n + 1 /\ \A j \in 1..len : t[m + j - 1] = f[j]

LEMMA FoundText ==
  ASSUME NEW S, NEW t \in Seq(S), NEW f \in Seq(S), NEW m \in Occurrences(t, f), NEW n, n = Len(t),
         NEW len, len = Len(f)
  PROVE  HasAt(t, n, m, f, len)
<1>1. n \in Nat /\ len \in Nat /\ m \in 1..n
  BY DEF Occurrences
<1>2. PICK u : u = SubSeq(t, m, n)
  OBVIOUS
<1>3. n \in 0..Len(t) /\ m \in Nat \ {0} /\ m <= n
  BY <1>1
<1>4. u \in Seq(S) /\ Len(u) = n - m + 1 /\ \A i \in 1..(n - m + 1) : u[i] = t[m + i - 1]
  BY <1>2, <1>3, Part
<1>5. IsPrefix(f, u)
  BY <1>2 DEF Occurrences
<1>6. len <= n - m + 1 /\ \A j \in 1..len : f[j] = u[j]
  BY <1>4, <1>5, PrefixIs
<1>7. \A j \in 1..len : t[m + j - 1] = f[j]
  BY <1>1, <1>4, <1>6
<1> QED
  BY <1>1, <1>6, <1>7 DEF HasAt

LEMMA CrThenLf == <<"CR">> \o <<"LF">> = <<"CR", "LF">>
<1>1. PICK a, b, c : a = <<"CR">> /\ b = <<"LF">> /\ c = <<"CR", "LF">>
  OBVIOUS
<1>2. /\ a \in Seq(Chars) /\ Len(a) = 1 /\ a[1] = "CR"
      /\ b \in Seq(Chars) /\ Len(b) = 1 /\ b[1] = "LF"
      /\ c \in Seq(Chars) /\ Len(c) = 2 /\ c[1] = "CR" /\ c[2] = "LF"
  BY <1>1 DEF Chars
<1>3. PICK d : d = a \o b
  OBVIOUS
<1>4. d \in Seq(Chars) /\ Len(d) = 2 /\ d[1] = "CR" /\ d[2] = "LF"
  BY <1>2, <1>3, ConcatProperties
<1>5. \A i \in 1..2 : i = 1 \/ i = 2
  OBVIOUS
<1>6. d = c
  BY <1>2, <1>4, <1>5, SeqEqual
<1> QED
  BY <1>1, <1>3, <1>6

IsReplaced(seqs, t, given, M, len) ==
  seqs = [i \in 1..Len(t) |-> IF i \in M THEN given ELSE IF Covered(i, M, len) THEN <<>> ELSE <<t[i]>>]

LEMMA CrlfReplaced ==
  ASSUME NEW t \in CrlfTexts, NEW f \in CrlfTexts, f # <<>>, NEW given \in CrlfTexts,
         HasCRLF(t), NEW M \in SUBSET Occurrences(t, f), NEW n, n = Len(t), NEW len, len = Len(f),
         NEW seqs, IsReplaced(seqs, t, given, M, len)
  PROVE  FlattenSeq(seqs) \in CrlfTexts
<1> PICK T : T = CrlfTexts
  OBVIOUS
<1>0. seqs = [i \in 1..n |-> IF i \in M THEN given ELSE IF Covered(i, M, len) THEN <<>> ELSE <<t[i]>>]
  BY DEF IsReplaced
<1>1. /\ T \in SUBSET Seq(Chars) /\ <<>> \in T /\ <<"CR", "LF">> \in T
      /\ (\A x, y \in T : x \o y \in T) /\ (\A c \in Plain : <<c>> \in T)
  BY LikeJoins DEF TextsLike, Ending
<1>2. /\ n \in Nat /\ len \in Nat \ {0} /\ \A i \in 1..n : t[i] \in Chars
      /\ \A i \in 1..n : /\ t[i] = "CR" => i < n /\ t[i + 1] = "LF"
                         /\ t[i] = "LF" => i > 1 /\ t[i - 1] = "CR"
      /\ \A i \in 1..len : /\ f[i] = "CR" => i < len /\ f[i + 1] = "LF"
                           /\ f[i] = "LF" => i > 1 /\ f[i - 1] = "CR"
  BY EmptySeq DEF CrlfTexts
<1>3. \A m \in M : m \in 1..n /\ m + len <= n + 1 /\ \A j \in 1..len : t[m + j - 1] = f[j]
  <2>1. t \in Seq(Chars) /\ f \in Seq(Chars)
    BY DEF CrlfTexts
  <2>2. ASSUME NEW m \in M
        PROVE  m \in 1..n /\ m + len <= n + 1 /\ \A j \in 1..len : t[m + j - 1] = f[j]
    <3>1. m \in Occurrences(t, f)
      OBVIOUS
    <3>2. HasAt(t, n, m, f, len)
      BY <2>1, <3>1, FoundText, Zenon
    <3> QED
      BY <3>2 DEF HasAt
  <2> QED
    BY <2>2
<1> DEFINE Live(i) == i \notin M /\ ~Covered(i, M, len)
\* A CR and the LF after it are replaced together or not at all.
<1>4. ASSUME NEW i \in 1..n, t[i] = "CR", i + 1 \in 1..n
      PROVE  Live(i) <=> Live(i + 1)
  <2>1. ASSUME i + 1 \in M PROVE FALSE
    <3>1. t[i + 1] = f[1] /\ 1 \in 1..len
      <4>1. 1 \in 1..len /\ (i + 1) + 1 - 1 = i + 1
        BY <1>2
      <4> QED
        BY <1>3, <2>1, <4>1
    <3> QED
      BY <1>2, <1>4, <3>1
  <2>2. ASSUME NEW m \in M, m < i + 1, i + 1 < m + len
        PROVE  ~Live(i)
    <3>1. m \in 1..n
      BY <1>3
    <3>2. m = i \/ (m < i /\ i < m + len)
      BY <1>2, <2>2, <3>1
    <3> QED
      BY <3>2 DEF Covered
  <2>3. ASSUME NEW m \in M, m <= i, i < m + len
        PROVE  i + 1 < m + len
    <3>1. m \in 1..n
      BY <1>3
    <3>2. PICK j \in 1..len : j = i - m + 1
      BY <1>2, <2>3, <3>1
    <3>3. m + j - 1 = i
      BY <3>1, <3>2
    <3>4. f[j] = "CR"
      BY <1>3, <1>4, <3>3
    <3>5. j < len
      BY <1>2, <3>4
    <3> QED
      BY <1>2, <3>1, <3>3, <3>5
  <2>4. ASSUME ~Live(i)
        PROVE  Covered(i + 1, M, len)
    <3>1. PICK m \in M : m <= i /\ i < m + len
      BY <1>2, <1>3, <2>4 DEF Covered
    <3>2. m < i + 1 /\ i + 1 < m + len
      BY <1>3, <2>3, <3>1
    <3> QED
      BY <3>2 DEF Covered
  <2> QED
    BY <2>1, <2>2, <2>4 DEF Covered
<1> HIDE DEF Live
<1>5. \A i \in 1..n : seqs[i] = IF Live(i) THEN <<t[i]>> ELSE IF i \in M THEN given ELSE <<>>
  BY <1>0 DEF Live
<1>6. seqs \in Seq(Seq(Chars)) /\ Len(seqs) = n
  <2>1. \A i \in 1..n : <<t[i]>> \in Seq(Chars)
    BY <1>2
  <2>2. given \in Seq(Chars) /\ <<>> \in Seq(Chars)
    BY <1>1
  <2>3. \A i \in 1..n : seqs[i] \in Seq(Chars)
    BY <1>5, <2>1, <2>2
  <2>4. seqs \in [1..n -> Seq(Chars)]
    BY <1>0, <2>3
  <2> QED
    BY <1>2, <2>4, SeqDef
<1> PICK flat : Flats(flat, seqs, Chars, n)
  BY <1>6, Flattened
<1>7. /\ flat[0] = <<>> /\ FlattenSeq(seqs) = flat[n]
      /\ \A k \in 1..n : flat[k] = flat[k - 1] \o seqs[k]
  BY DEF Flats
\* So far the text is of its kind, but for a CR whose LF is to come.
<1> DEFINE Half(k) == k > 0 /\ Live(k) /\ t[k] = "CR"
           Good == {k \in 0..n : /\ ~Half(k) => flat[k] \in T
                                 /\ Half(k) => \E x \in T : flat[k] = x \o <<"CR">>}
<1>8. 0 \in Good
  BY <1>1, <1>7
<1>9. ASSUME NEW k \in 1..n, k - 1 \in Good
      PROVE  k \in Good
  <2>1. flat[k] = flat[k - 1] \o seqs[k]
    BY <1>7, Zenon
  <2>2. ASSUME Half(k - 1)
        PROVE  Live(k) /\ t[k] = "LF"
    <3>1. k - 1 \in 1..n /\ (k - 1) + 1 = k /\ Live(k - 1) /\ t[k - 1] = "CR"
      BY <2>2
    <3>2. t[k] = "LF"
      BY <1>2, <3>1
    <3>3. Live(k)
      BY <1>4, <3>1
    <3> QED
      BY <3>2, <3>3
  <2>3. CASE Half(k - 1)
    <3>1. Live(k) /\ t[k] = "LF"
      BY <2>2, <2>3
    <3>2. PICK x \in T : flat[k - 1] = x \o <<"CR">>
      BY <1>9, <2>3
    <3>3. seqs[k] = <<"LF">>
      BY <1>5, <3>1
    <3>4. flat[k] = x \o <<"CR", "LF">>
      <4>1. x \in Seq(Chars) /\ <<"CR">> \in Seq(Chars) /\ <<"LF">> \in Seq(Chars)
        BY <1>1 DEF Chars
      <4>2. (x \o <<"CR">>) \o <<"LF">> = x \o (<<"CR">> \o <<"LF">>)
        BY <4>1, ConcatAssociative
      <4>3. <<"CR">> \o <<"LF">> = <<"CR", "LF">>
        BY CrThenLf
      <4> QED
        BY <2>1, <3>2, <3>3, <4>2, <4>3
    <3>5. flat[k] \in T
      BY <1>1, <3>4
    <3>6. ~Half(k)
      BY <3>1
    <3> QED
      BY <3>5, <3>6
  <2>4. CASE ~Half(k - 1)
    <3>1. flat[k - 1] \in T
      BY <1>9, <2>4
    <3>2. CASE Half(k)
      <4>1. seqs[k] = <<"CR">>
        BY <1>5, <3>2
      <4>2. flat[k] = flat[k - 1] \o <<"CR">>
        BY <2>1, <4>1
      <4>3. \E x \in T : flat[k] = x \o <<"CR">>
        BY <3>1, <4>2, Zenon
      <4>4. k \in 0..n
        BY <1>2
      <4> QED
        BY <3>2, <4>3, <4>4, Zenon
    <3>3. CASE ~Half(k)
      <4>1. seqs[k] \in T
        <5>1. CASE Live(k)
          <6>1. t[k] # "CR"
            BY <3>3, <5>1
          <6>2. t[k] # "LF"
            <7>1. ASSUME t[k] = "LF" PROVE FALSE
              <8>1. k > 1 /\ t[k - 1] = "CR"
                BY <1>2, <7>1
              <8>2. k - 1 \in 1..n /\ (k - 1) + 1 = k
                BY <8>1
              <8>3. Live(k - 1)
                BY <1>4, <5>1, <8>1, <8>2
              <8> QED
                BY <2>4, <8>1, <8>2, <8>3
            <7> QED
              BY <7>1
          <6>3. t[k] \in Plain
            BY <1>2, <6>1, <6>2 DEF Plain
          <6> QED
            BY <1>1, <1>5, <5>1, <6>3
        <5>2. CASE ~Live(k)
          BY <1>1, <1>5, <5>2
        <5> QED
          BY <5>1, <5>2
      <4>2. flat[k] \in T
        BY <1>1, <2>1, <3>1, <4>1
      <4> QED
        BY <3>3, <4>2
    <3> QED
      BY <3>2, <3>3
  <2> QED
    BY <2>3, <2>4
<1>10. n \in 0..n
  BY <1>2
<1>11. n \in Good
  <2> HIDE DEF Good
  <2> QED
    BY <1>2, <1>8, <1>9, <1>10, Upwards, Zenon
<1>12. ~Half(n)
  BY <1>2
<1> QED
  BY <1>7, <1>11, <1>12

\* replace, in a text of either kind.
LEMMA ReplacedLike ==
  ASSUME NEW t \in Seq(Chars), t \in TextsLike(t), NEW f \in TextsLike(t), f # <<>>,
         NEW given \in TextsLike(t), NEW found \in Seq(Occurrences(t, f))
  PROVE  ReplaceMatches(t, Len(f), found, given) \in TextsLike(t)
<1> PICK n, len, M : n = Len(t) /\ len = Len(f) /\ M = ToSet(found)
  OBVIOUS
<1>1. M \in SUBSET Occurrences(t, f)
  <2>1. DOMAIN found = 1..Len(found) /\ \A i \in 1..Len(found) : found[i] \in Occurrences(t, f)
    OBVIOUS
  <2> QED
    BY <2>1 DEF ToSet
<1>2. PICK seqs : seqs = [i \in 1..n |-> IF i \in M THEN given ELSE IF Covered(i, M, len) THEN <<>> ELSE <<t[i]>>]
  OBVIOUS
<1>3. ReplaceMatches(t, Len(f), found, given) = FlattenSeq(seqs)
  <2>1. DOMAIN t = 1..n
    OBVIOUS
  <2> QED
    BY <1>2, <2>1, Zenon DEF ReplaceMatches, Covered
<1>4. CASE HasCRLF(t)
  <2>1. t \in CrlfTexts /\ f \in CrlfTexts /\ given \in CrlfTexts
    BY <1>4 DEF TextsLike
  <2>2. FlattenSeq(seqs) \in CrlfTexts
    <3>1. n = Len(t) /\ len = Len(f) /\ IsReplaced(seqs, t, given, M, len)
      BY <1>2 DEF IsReplaced
    <3> QED
      BY <1>1, <1>4, <2>1, <3>1, CrlfReplaced
  <2> QED
    BY <1>3, <1>4, <2>2 DEF TextsLike
<1>5. CASE ~HasCRLF(t)
  <2>1. PICK T : T = TextsLike(t)
    OBVIOUS
  <2>2. /\ T \in SUBSET Seq(Chars) /\ <<>> \in T /\ <<"LF">> \in T
        /\ (\A x, y \in T : x \o y \in T) /\ (\A c \in Plain : <<c>> \in T)
    BY <1>5, <2>1, LikeJoins DEF Ending
  <2>3. n \in Nat /\ \A i \in 1..n : t[i] \in Plain \/ t[i] = "LF"
    BY <1>5 DEF TextsLike, LfTexts, Plain
  <2>4. \A i \in 1..n : <<t[i]>> \in T
    BY <2>2, <2>3
  <2>5. \A i \in 1..n : seqs[i] \in T
    BY <1>2, <2>1, <2>2, <2>4
  <2>6. seqs \in [1..n -> T]
    BY <1>2, <2>5
  <2>7. seqs \in Seq(T)
    BY <2>3, <2>6, SeqDef
  <2>8. FlattenSeq(seqs) \in T
    BY <2>2, <2>7, FlatIn
  <2> QED
    BY <1>3, <2>1, <2>8
<1> QED
  BY <1>4, <1>5

\* --find and --replace
LEMMA FindKeeps ==
  ASSUME NEW t \in Seq(Chars), NEW o, o.find \in Seq(Chars), o.find # <<>>, o.with \in Seq(Chars)
  PROVE  Keeps(FindReplace(o, t), t)
<1> PICK f, found, T : f = InEnding(o.find, t) /\ found = Matches(t, f) /\ T = TextsLike(t)
  OBVIOUS
<1> PICK wrong : wrong = (\/ HasCR(o.find) \/ HasCR(o.with) \/ ~ValidEndings(t)
                          \/ found = <<>> \/ (~o.all /\ Len(found) > 1))
  OBVIOUS
<1> PICK after : after = ReplaceMatches(t, Len(f), found, InEnding(o.with, t))
  OBVIOUS
<1>1. FindReplace(o, t) = IF wrong THEN Failed ELSE Text(after)
  BY Zenon DEF FindReplace
<1>2. CASE wrong
  BY <1>1, <1>2, FailedKeeps
<1>3. CASE ~wrong
  <2>1. ~HasCR(o.find) /\ ~HasCR(o.with) /\ ValidEndings(t)
    BY <1>3
  <2>2. t \in T /\ f \in T /\ InEnding(o.with, t) \in T
    BY <2>1, LikeItself, Adapted
  <2>3. f # <<>>
    BY <2>1, InEndingNonempty
  <2>4. found \in Seq(Occurrences(t, f))
    BY MatchesOccur
  <2>5. after \in T
    BY <2>2, <2>3, <2>4, ReplacedLike
  <2> QED
    BY <1>1, <1>3, <2>1, <2>5 DEF Keeps, Text
<1> QED
  BY <1>2, <1>3

\* Arguments with their escapes taken out.
States == [out : Seq(Chars), escape : BOOLEAN]
IsUnescaping(state, s, n) ==
  state = [k \in 0..n |-> IF k = 0 THEN [out |-> <<>>, escape |-> FALSE]
                          ELSE Unescaped(state[k - 1], s[k])]

LEMMA UnescapedChar ==
  ASSUME NEW st \in States, NEW c \in Chars, NEW u, u = Unescaped(st, c)
  PROVE  u \in States /\ (u.escape \/ u.out # <<>>)
<1> PICK out, e : out = st.out /\ e = st.escape
  OBVIOUS
<1>1. out \in Seq(Chars) /\ e \in BOOLEAN /\ "BS" \in Chars /\ "LF" \in Chars
  BY DEF States, Chars
<1>2. \A x \in Seq(Chars) : \A d \in Chars : Append(x, d) \in Seq(Chars) /\ Append(x, d) # <<>>
  <2> SUFFICES ASSUME NEW x \in Seq(Chars), NEW d \in Chars
               PROVE  Append(x, d) \in Seq(Chars) /\ Append(x, d) # <<>>
    OBVIOUS
  <2>1. Append(x, d) \in Seq(Chars) /\ Len(Append(x, d)) = Len(x) + 1 /\ Len(x) \in Nat
    BY AppendProperties
  <2>2. Len(<<>>) = 0
    OBVIOUS
  <2> QED
    BY <2>1, <2>2
<1>3. PICK before : before = IF e THEN Append(out, "BS") ELSE out
  OBVIOUS
<1>4. before \in Seq(Chars)
  BY <1>1, <1>2, <1>3
<1>5. CASE e /\ c = "n"
  <2>1. u = [out |-> Append(out, "LF"), escape |-> FALSE]
    BY <1>5 DEF Unescaped
  <2> QED
    BY <1>1, <1>2, <2>1 DEF States
<1>6. CASE ~(e /\ c = "n") /\ e /\ c = "BS"
  <2>1. u = [out |-> Append(out, "BS"), escape |-> FALSE]
    BY <1>6 DEF Unescaped
  <2> QED
    BY <1>1, <1>2, <2>1 DEF States
<1>7. CASE ~(e /\ c = "n") /\ ~(e /\ c = "BS")
  <2>1. u = [out |-> IF c = "BS" THEN before ELSE Append(before, c), escape |-> c = "BS"]
    BY <1>3, <1>7 DEF Unescaped
  <2>2. Append(before, c) \in Seq(Chars) /\ Append(before, c) # <<>>
    BY <1>2, <1>4
  <2>3. CASE c = "BS"
    <3>1. u = [out |-> before, escape |-> TRUE]
      BY <2>1, <2>3
    <3> QED
      BY <1>4, <3>1 DEF States
  <2>4. CASE c # "BS"
    <3>1. u = [out |-> Append(before, c), escape |-> FALSE]
      BY <2>1, <2>4
    <3> QED
      BY <2>2, <3>1 DEF States
  <2> QED
    BY <2>3, <2>4
<1> QED
  BY <1>5, <1>6, <1>7

LEMMA UnescapeText ==
  ASSUME NEW s \in Seq(Chars)
  PROVE  Unescape(s) \in Seq(Chars) /\ (s # <<>> => Unescape(s) # <<>>)
<1> PICK n \in Nat : n = Len(s)
  OBVIOUS
<1> PICK V, base : V = States /\ base = [out |-> <<>>, escape |-> FALSE]
  OBVIOUS
<1>1. base \in V
  BY EmptySeq DEF States
<1>2. \A k \in 1..n : \A q \in V : Unescaped(q, s[k]) \in V
  BY UnescapedChar
<1> DEFINE step == [k \in 1..n |-> [q \in V |-> Unescaped(q, s[k])]]
<1>3. StepsIn(step, n, V)
  BY <1>2 DEF StepsIn
<1>4. \A k \in 1..n : \A q \in V : step[k][q] = Unescaped(q, s[k])
  OBVIOUS
<1> HIDE DEF step
<1>5. PICK some : Iterates(some, base, step, n, V)
  BY <1>1, <1>3, Iteration
<1>6. \E state : IsUnescaping(state, s, n)
  <2>1. /\ some \in [0..n -> V] /\ some[0] = base
        /\ \A k \in 1..n : some[k] = step[k][some[k - 1]]
    BY <1>5 DEF Iterates
  <2>2. ASSUME NEW k \in 0..n
        PROVE  some[k] = IF k = 0 THEN base ELSE Unescaped(some[k - 1], s[k])
    <3>1. CASE k = 0
      BY <2>1, <3>1
    <3>2. CASE k # 0
      <4>1. k \in 1..n /\ some[k - 1] \in V
        BY <2>1, <3>2
      <4> QED
        BY <1>4, <2>1, <3>2, <4>1
    <3> QED
      BY <3>1, <3>2
  <2>3. some = [k \in 0..n |-> some[k]]
    BY <2>1
  <2>4. IsUnescaping(some, s, n)
    BY <2>2, <2>3 DEF IsUnescaping
  <2> QED
    BY <2>4
<1> DEFINE choice == CHOOSE state : IsUnescaping(state, s, n)
<1>7. IsUnescaping(choice, s, n)
  BY <1>6
<1>8. Unescape(s) = IF choice[n].escape THEN Append(choice[n].out, "BS") ELSE choice[n].out
  BY DEF Unescape, IsUnescaping
<1> HIDE DEF choice
<1>9. choice[0] = base /\ \A k \in 1..n : choice[k] = Unescaped(choice[k - 1], s[k])
  <2>1. \A k \in 0..n : choice[k] = IF k = 0 THEN base ELSE Unescaped(choice[k - 1], s[k])
    BY <1>7, Zenon DEF IsUnescaping
  <2>2. 0 \in 0..n /\ \A k \in 1..n : k \in 0..n /\ k # 0
    OBVIOUS
  <2> QED
    BY <2>1, <2>2, Zenon
<1> DEFINE Good == {k \in 0..n : choice[k] \in V}
<1>10. 0 \in Good
  <2>1. 0 \in 0..n
    OBVIOUS
  <2>2. choice[0] \in V
    BY <1>1, <1>9, Zenon
  <2> QED
    BY <2>1, <2>2, Zenon
<1>11. ASSUME NEW k \in 1..n, k - 1 \in Good
       PROVE  k \in Good
  <2>1. choice[k] \in V
    BY <1>2, <1>9, <1>11
  <2> QED
    BY <2>1
<1>12. \A k \in 0..n : choice[k] \in V
  <2>1. \A k \in 0..n : k \in Good
    <3> HIDE DEF Good
    <3> QED
      BY <1>10, <1>11, Upwards
  <2> QED
    BY <2>1
<1>13. PICK out, e : out = choice[n].out /\ e = choice[n].escape
  OBVIOUS
<1>14. out \in Seq(Chars) /\ e \in BOOLEAN /\ "BS" \in Chars
  <2>1. n \in 0..n
    OBVIOUS
  <2> QED
    BY <1>12, <1>13, <2>1 DEF States, Chars
<1>15. s # <<>> => e \/ out # <<>>
  <2> SUFFICES ASSUME s # <<>>
               PROVE  e \/ out # <<>>
    OBVIOUS
  <2>1. n \in 1..n /\ n - 1 \in 0..n
    BY EmptySeq
  <2>2. PICK q, u, c : q = choice[n - 1] /\ u = choice[n] /\ c = s[n]
    OBVIOUS
  <2>3. q \in States /\ c \in Chars /\ u = Unescaped(q, c)
    BY <1>9, <1>12, <2>1, <2>2
  <2>4. u.escape \/ u.out # <<>>
    BY <2>3, UnescapedChar
  <2> QED
    BY <1>13, <2>2, <2>4
<1>16. Append(out, "BS") \in Seq(Chars) /\ Append(out, "BS") # <<>>
  <2>1. Append(out, "BS") \in Seq(Chars) /\ Len(Append(out, "BS")) = Len(out) + 1 /\ Len(out) \in Nat
    BY <1>14, AppendProperties
  <2>2. Len(<<>>) = 0
    OBVIOUS
  <2> QED
    BY <2>1, <2>2
<1> QED
  BY <1>8, <1>13, <1>14, <1>15, <1>16

-----------------------------------------------------------------------------
(* What the arguments become *)

LineKinds == {"replace", "insert", "delete"}
RangeOK(r) == r[1] \in Nat \ {0} /\ r[2] \in Nat /\ r[1] <= r[2]
OpOK(o) ==
  /\ o.kind \in LineKinds \cup {"refused", "find", "append", "create"}
  /\ o.kind \in LineKinds => RangeOK(o.range)
  /\ o.kind \in {"replace", "insert", "append", "create"} => o.content \in Seq(Chars)
  /\ o.kind = "find" => o.find \in Seq(Chars) /\ o.find # <<>> /\ o.with \in Seq(Chars)

AfterColon == {s \in Seq(Nat \cup {NaN}) : Len(s) <= 2}

LEMMA RefusedOK == OpOK(Refused)
BY DEF OpOK, Refused, LineKinds

LEMMA Fields ==
  ASSUME NEW ok \in BOOLEAN, NEW range
  PROVE  [ok |-> ok, range |-> range].ok = ok /\ [ok |-> ok, range |-> range].range = range
OBVIOUS

\* parse_path_line: a range that is taken begins at 1 or later and does not end before it begins.
LEMMA ParsedRange ==
  ASSUME NEW s \in AfterColon, NEW where, where = ParsePathLine(s), where.ok, where.range # NoRange
  PROVE  RangeOK(where.range)
<1> PICK n \in Nat : n = Len(s)
  BY DEF AfterColon
<1>1. n <= 2 /\ \A i \in 1..n : s[i] \in Nat \/ s[i] = NaN
  BY DEF AfterColon
<1>2. DOMAIN s = 1..n
  BY DEF AfterColon
<1>3. CASE s = <<>>
  <2>1. where = [ok |-> TRUE, range |-> NoRange]
    <3>1. Len(s) # 2 /\ s # <<NaN>>
      BY <1>3
    <3> QED
      BY <1>3, <3>1, Zenon DEF ParsePathLine
  <2> QED
    BY <2>1
<1>4. CASE n = 2
  <2>1. where = [ok |-> NaN \notin ToSet(s) /\ 0 \notin ToSet(s) /\ s[1] <= s[2], range |-> s]
    <3>0. Len(<<NaN>>) = 1 /\ Len(<<>>) = 0 /\ 2 # 1 /\ 2 # 0
      OBVIOUS
    <3>1. s # <<>> /\ s # <<NaN>> /\ Len(s) = 2
      BY <1>4, <3>0, Zenon
    <3> QED
      BY <3>1, Zenon DEF ParsePathLine
  <2>2. where.range = s /\ NaN \notin ToSet(s) /\ 0 \notin ToSet(s) /\ s[1] <= s[2]
    <3>1. (NaN \notin ToSet(s) /\ 0 \notin ToSet(s) /\ s[1] <= s[2]) \in BOOLEAN
      OBVIOUS
    <3> QED
      BY <2>1, <3>1, Fields, Zenon
  <2>3. 1 \in 1..n /\ 2 \in 1..n
    BY <1>4
  <2>4. \A i \in 1..n : s[i] \in ToSet(s)
    BY <1>2, Zenon DEF ToSet
  <2>5. s[1] \in Nat \ {0} /\ s[2] \in Nat \ {0}
    BY <1>1, <2>2, <2>3, <2>4
  <2> QED
    BY <2>2, <2>5 DEF RangeOK
<1>5. CASE n = 1
  <2>1. PICK x : x = s[1]
    OBVIOUS
  <2>2. s = <<x>>
    BY <1>2, <1>5, <2>1 DEF AfterColon
  <2>3. x \in Nat \/ x = NaN
    BY <1>1, <1>5, <2>1
  <2>4. CASE x = NaN
    <3>1. s # <<>> /\ Len(s) # 2 /\ s = <<NaN>>
      BY <1>5, <2>2, <2>4
    <3>2. where = [ok |-> TRUE, range |-> NoRange]
      BY <3>1, Zenon DEF ParsePathLine
    <3> QED
      BY <3>2
  <2>5. CASE x # NaN
    <3>1. s # <<>> /\ Len(s) # 2 /\ s # <<NaN>>
      BY <1>5, <2>2, <2>5
    <3>2. where = [ok |-> s # <<0>>, range |-> s \o s]
      BY <3>1, Zenon DEF ParsePathLine
    <3>3. x # 0
      <4>0. (s # <<0>>) \in BOOLEAN
        OBVIOUS
      <4>1. where.ok = (s # <<0>>)
        BY <3>2, <4>0, Fields, Zenon
      <4> QED
        BY <2>2, <4>1, Zenon
    <3>4. PICK u : u = s \o s
      OBVIOUS
    <3>5. u[1] = x /\ u[2] = x
      <4>1. s \in Seq(Nat \cup {NaN}) /\ Len(s) = 1 /\ s[1] = x
        BY <1>5, <2>1 DEF AfterColon
      <4>2. /\ Len(u) = Len(s) + Len(s)
            /\ \A i \in 1..(Len(s) + Len(s)) : u[i] = IF i <= Len(s) THEN s[i] ELSE s[i - Len(s)]
        BY <3>4, <4>1, ConcatProperties
      <4> QED
        BY <4>1, <4>2
    <3>6. where.range = u
      BY <3>2, <3>4
    <3>7. x \in Nat
      BY <2>3, <2>5
    <3> QED
      BY <3>3, <3>5, <3>6, <3>7 DEF RangeOK
  <2> QED
    BY <2>4, <2>5
<1>6. n = 0 => s = <<>>
  BY EmptySeq DEF AfterColon
<1> QED
  BY <1>1, <1>3, <1>4, <1>5, <1>6

AnyArguments == [suffix : AfterColon, flags : SUBSET {"insert", "delete", "append", "force", "all"},
                 content : Seq(Seq(Chars)), find : Seq(Seq(Chars)), replace : Seq(Seq(Chars))]

\* validate_args
LEMMA ArgsOK ==
  ASSUME NEW a \in AnyArguments
  PROVE  OpOK(ValidateArgs(a))
<1> PICK where : where = ParsePathLine(a.suffix)
  OBVIOUS
<1> PICK ranged : ranged = (where.range # NoRange)
  OBVIOUS
<1> PICK modes : modes = (a.flags \cap {"insert", "delete", "append", "force"})
                            \cup (IF a.find # <<>> THEN {"find"} ELSE {})
  OBVIOUS
<1> PICK text_ : text_ = Unescape(a.content[1])
  OBVIOUS
<1> PICK wrong : wrong = (~where.ok \/ \E m, n \in modes : m # n)
  OBVIOUS
<1> PICK v : v = ValidateArgs(a)
  OBVIOUS
<1>1. v = IF wrong THEN Refused
      ELSE IF a.find # <<>> \/ a.replace # <<>> THEN
        IF a.find = <<>> \/ a.replace = <<>> \/ ranged \/ a.find[1] = <<>> THEN Refused
        ELSE [kind |-> "find", find |-> Unescape(a.find[1]),
              with |-> Unescape(a.replace[1]), all |-> "all" \in a.flags]
      ELSE IF "delete" \in modes THEN
        IF ~ranged \/ a.content # <<>> THEN Refused
        ELSE [kind |-> "delete", range |-> where.range]
      ELSE IF a.content = <<>> THEN Refused
      ELSE IF "append" \in modes THEN
        IF ranged \/ text_ = <<>> THEN Refused ELSE [kind |-> "append", content |-> text_]
      ELSE IF "insert" \in modes THEN
        IF ~ranged \/ text_ = <<>> THEN Refused
        ELSE [kind |-> "insert", range |-> where.range, content |-> text_]
      ELSE IF ranged THEN
        IF text_ = <<>> THEN Refused
        ELSE [kind |-> "replace", range |-> where.range, content |-> text_]
      ELSE [kind |-> "create", content |-> a.content[1], force |-> "force" \in a.flags]
  BY Zenon DEF ValidateArgs
<1>2. ~wrong /\ ranged => RangeOK(where.range)
  <2>1. a.suffix \in AfterColon
    BY DEF AnyArguments
  <2> QED
    BY <2>1, ParsedRange
<1>3. \A s \in Seq(Seq(Chars)) : s # <<>> => s[1] \in Seq(Chars)
  BY EmptySeq
<1>4. a.content # <<>> => a.content[1] \in Seq(Chars) /\ text_ \in Seq(Chars)
  BY <1>3, UnescapeText DEF AnyArguments
<1>5. CASE v = Refused
  BY <1>5, RefusedOK
<1>6. CASE v # Refused /\ (a.find # <<>> \/ a.replace # <<>>)
  <2>1. /\ a.find # <<>> /\ a.replace # <<>> /\ a.find[1] # <<>>
        /\ v = [kind |-> "find", find |-> Unescape(a.find[1]),
                with |-> Unescape(a.replace[1]), all |-> "all" \in a.flags]
    BY <1>1, <1>6, Zenon
  <2>2. a.find[1] \in Seq(Chars) /\ a.replace[1] \in Seq(Chars)
    BY <1>3, <2>1 DEF AnyArguments
  <2>3. v.kind = "find" /\ v.find \in Seq(Chars) /\ v.find # <<>> /\ v.with \in Seq(Chars)
    BY <2>1, <2>2, UnescapeText
  <2> QED
    BY <2>3 DEF OpOK, LineKinds
<1>7. CASE v # Refused /\ ~(a.find # <<>> \/ a.replace # <<>>) /\ "delete" \in modes
  <2>1. ~wrong /\ ranged /\ v = [kind |-> "delete", range |-> where.range]
    BY <1>1, <1>7, Zenon
  <2>2. v.kind = "delete" /\ RangeOK(v.range)
    BY <1>2, <2>1
  <2> QED
    BY <2>2 DEF OpOK, LineKinds
<1>8. CASE v # Refused /\ ~(a.find # <<>> \/ a.replace # <<>>) /\ "delete" \notin modes
  <2>1. ~wrong /\ a.content # <<>>
    BY <1>1, <1>8, Zenon
  <2>2. a.content[1] \in Seq(Chars) /\ text_ \in Seq(Chars)
    BY <1>4, <2>1
  <2>3. CASE "append" \in modes
    <3>1. v = [kind |-> "append", content |-> text_]
      BY <1>1, <1>8, <2>3, Zenon
    <3>2. v.kind = "append" /\ v.content \in Seq(Chars)
      BY <2>2, <3>1
    <3> QED
      BY <3>2 DEF OpOK, LineKinds
  <2>4. CASE "append" \notin modes /\ "insert" \in modes
    <3>1. ranged /\ v = [kind |-> "insert", range |-> where.range, content |-> text_]
      BY <1>1, <1>8, <2>4, Zenon
    <3>2. v.kind = "insert" /\ v.content \in Seq(Chars) /\ RangeOK(v.range)
      BY <1>2, <2>1, <2>2, <3>1
    <3> QED
      BY <3>2 DEF OpOK, LineKinds
  <2>5. CASE "append" \notin modes /\ "insert" \notin modes /\ ranged
    <3>1. v = [kind |-> "replace", range |-> where.range, content |-> text_]
      BY <1>1, <1>8, <2>5, Zenon
    <3>2. v.kind = "replace" /\ v.content \in Seq(Chars) /\ RangeOK(v.range)
      BY <1>2, <2>1, <2>2, <2>5, <3>1
    <3> QED
      BY <3>2 DEF OpOK, LineKinds
  <2>6. CASE "append" \notin modes /\ "insert" \notin modes /\ ~ranged
    <3>1. v = [kind |-> "create", content |-> a.content[1], force |-> "force" \in a.flags]
      BY <1>1, <1>8, <2>1, <2>6, Zenon
    <3>2. v.kind = "create" /\ v.content \in Seq(Chars)
      BY <2>2, <3>1
    <3> QED
      BY <3>2 DEF OpOK, LineKinds
  <2> QED
    BY <2>3, <2>4, <2>5, <2>6, Zenon
<1> QED
  BY <1>5, <1>6, <1>7, <1>8, Zenon

\* Whatever the edit, what it writes has the endings of what it read.
LEMMA EditKeeps ==
  ASSUME NEW t \in Seq(Chars), NEW o, OpOK(o), o.kind \in LineKinds \cup {"find"}
  PROVE  Keeps(Edit(o, t), t)
<1>1. CASE o.kind = "replace"
  <2>1. o.range[1] \in Nat \ {0} /\ o.range[2] \in Nat /\ o.range[1] <= o.range[2] + 1 /\ o.content \in Seq(Chars)
    BY <1>1 DEF OpOK, LineKinds, RangeOK
  <2>2. Keeps(ReplaceRange(o, t), t)
    BY <2>1, LinesKeep DEF ReplaceRange
  <2> QED
    BY <1>1, <2>2, Zenon DEF Edit
<1>2. CASE o.kind = "insert"
  <2>1. PICK first, last : first = o.range[1] /\ last = o.range[1] - 1
    OBVIOUS
  <2>2. first \in Nat \ {0} /\ last \in Nat /\ first <= last + 1 /\ o.content \in Seq(Chars)
    BY <1>2, <2>1 DEF OpOK, LineKinds, RangeOK
  <2>3. Keeps(EditLines("insert", t, first, last, o.content), t)
    BY <2>2, LinesKeep
  <2>4. Keeps(InsertBefore(o, t), t)
    BY <2>1, <2>3, Zenon DEF InsertBefore
  <2>5. o.kind # "replace"
    BY <1>2
  <2> QED
    BY <1>2, <2>4, <2>5, Zenon DEF Edit
<1>3. CASE o.kind = "delete"
  <2>1. o.range[1] \in Nat \ {0} /\ o.range[2] \in Nat /\ o.range[1] <= o.range[2] + 1 /\ <<>> \in Seq(Chars)
    BY <1>3, EmptySeq DEF OpOK, LineKinds, RangeOK
  <2>2. Keeps(DeleteLines(o, t), t)
    BY <2>1, LinesKeep DEF DeleteLines
  <2>3. o.kind # "replace" /\ o.kind # "insert"
    BY <1>3
  <2> QED
    BY <1>3, <2>2, <2>3, Zenon DEF Edit
<1>4. CASE o.kind = "find"
  <2>1. Keeps(FindReplace(o, t), t)
    BY <1>4, FindKeeps DEF OpOK
  <2>2. o.kind # "replace" /\ o.kind # "insert" /\ o.kind # "delete"
    BY <1>4
  <2> QED
    BY <1>4, <2>1, <2>2, Zenon DEF Edit
<1> QED
  BY <1>1, <1>2, <1>3, <1>4 DEF LineKinds

-----------------------------------------------------------------------------
(* Every text that is written keeps the endings *)

IsEdit(o, read, written) == Edit(o, read).ok /\ written = Edit(o, read).text

\* What a process has read, was asked for and will write, where it is now.
OwnOK(o, at, read, written) ==
  /\ OpOK(o) /\ read \in Seq(Chars) /\ written \in Seq(Chars)
  /\ at = "look" => o.kind = "create"
  /\ at = "read" => o.kind \in LineKinds \cup {"find"}
  /\ at \in {"open", "lock"} \cup LockedSteps => o.kind = "append"
  /\ at \in {"lock"} \cup LockedSteps => ~HasCR(o.content)
  /\ at = "truncate" /\ o.kind # "create"
     => ValidEndings(read) /\ written \in TextsLike(read) /\ IsEdit(o, read, written)
  /\ at = "separate" => ValidEndings(read)

OfEach(f) == f = [p \in Procs |-> f[p]]
EndingsInv ==
  /\ OfEach(pc) /\ OfEach(op) /\ OfEach(seen) /\ OfEach(new)
  /\ text \in Seq(Chars)
  /\ \A p \in Procs : OwnOK(op[p], pc[p], seen[p], new[p])

\* A step changes what one process has, and maybe the text.
Moved(p, o, at, read, written) ==
  /\ OwnOK(o, at, read, written) /\ text' \in Seq(Chars)
  /\ op' = [op EXCEPT ![p] = o] /\ pc' = [pc EXCEPT ![p] = at]
  /\ seen' = [seen EXCEPT ![p] = read] /\ new' = [new EXCEPT ![p] = written]

LEMMA MovedKeeps ==
  ASSUME EndingsInv, NEW p \in Procs, NEW o, NEW at, NEW read, NEW written,
         Moved(p, o, at, read, written)
  PROVE  EndingsInv'
<1>1. /\ OfEach(pc') /\ OfEach(op') /\ OfEach(seen') /\ OfEach(new')
      /\ op'[p] = o /\ pc'[p] = at /\ seen'[p] = read /\ new'[p] = written
      /\ \A q \in Procs \ {p} : op'[q] = op[q] /\ pc'[q] = pc[q] /\ seen'[q] = seen[q] /\ new'[q] = new[q]
  BY DEF Moved, EndingsInv, OfEach
<1>2. ASSUME NEW q \in Procs
      PROVE  OwnOK(op'[q], pc'[q], seen'[q], new'[q])
  <2>1. CASE q = p
    BY <1>1, <2>1, Zenon DEF Moved
  <2>2. CASE q # p
    <3>1. OwnOK(op[q], pc[q], seen[q], new[q])
      BY DEF EndingsInv
    <3> QED
      BY <1>1, <2>2, <3>1
  <2> QED
    BY <2>1, <2>2
<1> QED
  BY <1>1, <1>2 DEF Moved, EndingsInv

\* The parts of an append are texts.
LEMMA PartsAreTexts ==
  ASSUME NEW t \in Seq(Chars), NEW c \in Seq(Chars), ~HasCR(c)
  PROVE  /\ Separator(t) \in Seq(Chars) /\ Normalised(c, t) \in Seq(Chars)
         /\ Terminator(c, t) \in Seq(Chars)
<1>1. TextsLike(t) \in SUBSET Seq(Chars) /\ <<>> \in Seq(Chars) /\ Ending(t) \in Seq(Chars)
  BY LikeJoins, EmptySeq
<1>2. Normalised(c, t) \in TextsLike(t)
  BY Adapted
<1> QED
  BY <1>1, <1>2 DEF Separator, Terminator

LEMMA EndingsInvCorrect == Spec => []EndingsInv
<1>1. Init => EndingsInv
  <2> SUFFICES ASSUME Init PROVE EndingsInv
    OBVIOUS
  <2>1. text \in Seq(Chars) /\ <<>> \in Seq(Chars)
    BY FileUpdatesAssumption, EmptySeq DEF Init
  <2>2. \A p \in Procs : /\ op[p] = Refused /\ pc[p] = "idle" /\ seen[p] = <<>> /\ new[p] = <<>>
    BY DEF Init
  <2>3. OwnOK(Refused, "idle", <<>>, <<>>)
    BY <2>1, RefusedOK DEF OwnOK, LockedSteps
  <2>4. OfEach(pc) /\ OfEach(op) /\ OfEach(seen) /\ OfEach(new)
    BY DEF Init, OfEach
  <2> QED
    BY <2>1, <2>2, <2>3, <2>4 DEF EndingsInv
<1>2. EndingsInv /\ [Next]_vars => EndingsInv'
  <2> SUFFICES ASSUME EndingsInv, [Next]_vars PROVE EndingsInv'
    OBVIOUS
  <2>1. ASSUME NEW p \in Procs
        PROVE  /\ OwnOK(op[p], pc[p], seen[p], new[p]) /\ text \in Seq(Chars)
               /\ op = [op EXCEPT ![p] = op[p]] /\ seen = [seen EXCEPT ![p] = seen[p]]
               /\ new = [new EXCEPT ![p] = new[p]]
    BY DEF EndingsInv, OfEach
  <2>2. ASSUME NEW p \in Procs, Begin(p) PROVE EndingsInv'
    <3>1. PICK a \in Menu[p] :
            LET o == ValidateArgs(a)
            IN  /\ op' = [op EXCEPT ![p] = o]
                /\ Goto(p, FirstStep(o))
                /\ new' = IF o.kind = "create" THEN [new EXCEPT ![p] = o.content] ELSE new
      BY <2>2 DEF Begin
    <3>2. PICK o, at : o = ValidateArgs(a) /\ at = FirstStep(o)
      OBVIOUS
    <3>3. /\ op' = [op EXCEPT ![p] = o] /\ pc' = [pc EXCEPT ![p] = at]
          /\ new' = (IF o.kind = "create" THEN [new EXCEPT ![p] = o.content] ELSE new)
          /\ text' = text /\ seen' = seen
      BY <2>2, <3>1, <3>2 DEF Begin, Goto, fileVars
    <3>4. OpOK(o)
      <4>1. a \in AnyArguments
        BY FileUpdatesAssumption DEF AnyArguments, AfterColon
      <4> QED
        BY <3>2, <4>1, ArgsOK
    <3>5. PICK written : written = IF o.kind = "create" THEN o.content ELSE new[p]
      OBVIOUS
    <3>6. new' = [new EXCEPT ![p] = written] /\ written \in Seq(Chars)
      BY <2>1, <3>3, <3>4, <3>5 DEF OpOK, OwnOK
    <3>7. /\ at \in {"failed", "look", "truncate", "open", "read"}
          /\ at \in {"look", "truncate"} => o.kind = "create"
          /\ at = "open" => o.kind = "append"
          /\ at = "read" => o.kind \notin {"refused", "create", "append"}
      <4>1. CASE o.kind = "refused"
        <5>1. at = "failed"
          BY <3>2, <4>1, Zenon DEF FirstStep
        <5> QED
          BY <5>1
      <4>2. CASE o.kind = "create"
        <5>1. o.kind # "refused"
          BY <4>2
        <5>2. at = IF o.content = <<>> THEN "failed" ELSE IF o.force THEN "truncate" ELSE "look"
          BY <3>2, <4>2, <5>1, Zenon DEF FirstStep
        <5> QED
          BY <4>2, <5>2
      <4>3. CASE o.kind = "append"
        <5>1. o.kind # "refused" /\ o.kind # "create"
          BY <4>3
        <5>2. at = "open"
          BY <3>2, <4>3, <5>1, Zenon DEF FirstStep
        <5> QED
          BY <4>3, <5>2
      <4>4. CASE o.kind \notin {"refused", "create", "append"}
        <5>1. o.kind # "refused" /\ o.kind # "create" /\ o.kind # "append"
          BY <4>4
        <5>2. at = "read"
          BY <3>2, <5>1, Zenon DEF FirstStep
        <5> QED
          BY <4>4, <5>2
      <4> QED
        BY <4>1, <4>2, <4>3, <4>4
    <3>8. seen[p] \in Seq(Chars)
      BY <2>1 DEF OwnOK
    <3>9. OwnOK(o, at, seen[p], written)
      <4>1. at = "read" => o.kind \in LineKinds \cup {"find"}
        BY <3>4, <3>7 DEF OpOK
      <4>2. at \notin {"lock", "separate"} \cup LockedSteps
        BY <3>7 DEF LockedSteps
      <4>3. at = "truncate" => o.kind = "create"
        BY <3>7
      <4> QED
        BY <3>4, <3>6, <3>7, <3>8, <4>1, <4>2, <4>3 DEF OwnOK
    <3>10. Moved(p, o, at, seen[p], written)
      BY <2>1, <3>3, <3>6, <3>9 DEF Moved
    <3> QED
      BY <3>10, MovedKeeps
  <2>3. ASSUME NEW p \in Procs, Look(p) PROVE EndingsInv'
    <3>1. PICK at : at = IF exists THEN "failed" ELSE "truncate"
      OBVIOUS
    <3>2. /\ pc' = [pc EXCEPT ![p] = at] /\ pc[p] = "look" /\ text' = text /\ op' = op
          /\ seen' = seen /\ new' = new
      BY <2>3, <3>1 DEF Look, Goto, fileVars
    <3>3. OwnOK(op[p], at, seen[p], new[p])
      BY <2>1, <3>1, <3>2 DEF OwnOK, LockedSteps
    <3>4. Moved(p, op[p], at, seen[p], new[p])
      BY <2>1, <3>2, <3>3 DEF Moved
    <3> QED
      BY <3>4, MovedKeeps
  <2>4. ASSUME NEW p \in Procs, Read(p) PROVE EndingsInv'
    <3>1. PICK e : e = IF exists THEN Edit(op[p], text) ELSE Failed
      OBVIOUS
    <3>2. /\ pc[p] = "read"
          /\ pc' = [pc EXCEPT ![p] = IF e.ok THEN "truncate" ELSE "failed"]
          /\ new' = (IF e.ok THEN [new EXCEPT ![p] = e.text] ELSE new)
          /\ seen' = [seen EXCEPT ![p] = text] /\ text' = text /\ op' = op
      BY <2>4, <3>1, Zenon DEF Read, Goto, fileVars
    <3>3. Keeps(e, text)
      <4>1. OpOK(op[p]) /\ op[p].kind \in LineKinds \cup {"find"}
        BY <2>1, <3>2 DEF OwnOK
      <4>2. Keeps(Edit(op[p], text), text)
        BY <2>1, <4>1, EditKeeps
      <4> QED
        BY <3>1, <4>2, FailedKeeps
    <3>4. CASE e.ok
      <4>1. ValidEndings(text) /\ e.text \in TextsLike(text) /\ e.text \in Seq(Chars)
        BY <2>1, <3>3, <3>4, LikeJoins DEF Keeps
      <4>0. IsEdit(op[p], text, e.text)
        <5>1. exists
          BY <3>1, <3>4 DEF Failed
        <5> QED
          BY <3>1, <3>4, <5>1, Zenon DEF IsEdit
      <4>2. OwnOK(op[p], "truncate", text, e.text)
        BY <2>1, <4>0, <4>1 DEF OwnOK, LockedSteps
      <4>3. Moved(p, op[p], "truncate", text, e.text)
        BY <2>1, <3>2, <3>4, <4>2 DEF Moved
      <4> QED
        BY <4>3, MovedKeeps
    <3>5. CASE ~e.ok
      <4>1. OwnOK(op[p], "failed", text, new[p])
        BY <2>1 DEF OwnOK, LockedSteps
      <4>2. Moved(p, op[p], "failed", text, new[p])
        BY <2>1, <3>2, <3>5, <4>1 DEF Moved
      <4> QED
        BY <4>2, MovedKeeps
    <3> QED
      BY <3>4, <3>5
  <2>5. ASSUME NEW p \in Procs, Truncate(p) \/ Fill(p) PROVE EndingsInv'
    <3>1. PICK at : at = IF pc[p] = "truncate" THEN "fill" ELSE "done"
      OBVIOUS
    <3>2. /\ pc' = [pc EXCEPT ![p] = at] /\ op' = op /\ seen' = seen /\ new' = new
          /\ text' = <<>> \/ text' = new[p] \o SubSeq(text, Len(new[p]) + 1, Len(text))
      BY <2>5, <3>1 DEF Truncate, Fill, Goto
    <3>3. text' \in Seq(Chars)
      <4>1. PICK t, n, m : t = new[p] /\ n = Len(text) /\ m = Len(new[p]) + 1
        OBVIOUS
      <4>2. t \in Seq(Chars)
        BY <2>1, <4>1 DEF OwnOK
      <4>3. m \in Nat \ {0} /\ n \in 0..Len(text)
        BY <2>1, <4>1, <4>2
      <4>4. SubSeq(text, m, n) \in Seq(Chars)
        BY <2>1, <4>3, Part
      <4>5. t \o SubSeq(text, m, n) \in Seq(Chars) /\ <<>> \in Seq(Chars)
        BY <4>2, <4>4, ConcatProperties, EmptySeq
      <4> QED
        BY <3>2, <4>1, <4>5, Zenon
    <3>4. OwnOK(op[p], at, seen[p], new[p])
      BY <2>1, <3>1 DEF OwnOK, LockedSteps
    <3>5. Moved(p, op[p], at, seen[p], new[p])
      BY <2>1, <3>2, <3>3, <3>4 DEF Moved
    <3> QED
      BY <3>5, MovedKeeps
  <2>6. ASSUME NEW p \in Procs, Open(p) \/ Lock(p) PROVE EndingsInv'
    <3>1. PICK at : /\ pc' = [pc EXCEPT ![p] = at] /\ at \in {"lock", "failed", "tail"}
                    /\ pc[p] \in {"open", "lock"}
                    /\ at \in {"lock", "tail"} => pc[p] = "lock" \/ ~HasCR(op[p].content)
      BY <2>6 DEF Open, Lock, Goto
    <3>2. text' = text /\ op' = op /\ seen' = seen /\ new' = new
      BY <2>6 DEF Open, Lock, fileVars
    <3>3. OwnOK(op[p], at, seen[p], new[p])
      BY <2>1, <3>1 DEF OwnOK, LockedSteps
    <3>4. Moved(p, op[p], at, seen[p], new[p])
      BY <2>1, <3>1, <3>2, <3>3 DEF Moved
    <3> QED
      BY <3>4, MovedKeeps
  <2>7. ASSUME NEW p \in Procs, ReadTail(p) PROVE EndingsInv'
    <3>1. PICK at : at = IF ValidEndings(text) THEN "separate" ELSE "failed"
      OBVIOUS
    <3>2. /\ pc' = [pc EXCEPT ![p] = at] /\ pc[p] = "tail" /\ seen' = [seen EXCEPT ![p] = text]
          /\ text' = text /\ op' = op /\ new' = new
      BY <2>7, <3>1 DEF ReadTail, Goto, fileVars
    <3>3. OwnOK(op[p], at, text, new[p])
      BY <2>1, <3>1, <3>2 DEF OwnOK, LockedSteps
    <3>4. Moved(p, op[p], at, text, new[p])
      BY <2>1, <3>2, <3>3 DEF Moved
    <3> QED
      BY <3>4, MovedKeeps
  <2>8. ASSUME NEW p \in Procs, WriteSeparator(p) \/ WriteContent(p) \/ WriteTerminator(p)
        PROVE  EndingsInv'
    <3>1. PICK at, what :
            /\ pc' = [pc EXCEPT ![p] = at] /\ at \in {"content", "terminate", "unlock"}
            /\ pc[p] \in {"separate", "content", "terminate"} /\ text' = text \o what
            /\ what \in {Separator(seen[p]), Normalised(op[p].content, seen[p]),
                         Terminator(op[p].content, seen[p])}
      BY <2>8 DEF WriteSeparator, WriteContent, WriteTerminator, Write, Goto
    <3>2. op' = op /\ seen' = seen /\ new' = new
      BY <2>8 DEF WriteSeparator, WriteContent, WriteTerminator, Write
    <3>3. /\ seen[p] \in Seq(Chars) /\ op[p].kind = "append" /\ ~HasCR(op[p].content)
          /\ op[p].content \in Seq(Chars)
      BY <2>1, <3>1 DEF OwnOK, LockedSteps, OpOK
    <3>4. what \in Seq(Chars)
      BY <3>1, <3>3, PartsAreTexts
    <3>5. text' \in Seq(Chars)
      BY <2>1, <3>1, <3>4, ConcatProperties
    <3>6. OwnOK(op[p], at, seen[p], new[p])
      BY <2>1, <3>1 DEF OwnOK, LockedSteps
    <3>7. Moved(p, op[p], at, seen[p], new[p])
      BY <2>1, <3>1, <3>2, <3>5, <3>6 DEF Moved
    <3> QED
      BY <3>7, MovedKeeps
  <2>9. ASSUME NEW p \in Procs, Unlock(p) \/ Crash(p) PROVE EndingsInv'
    <3>1. PICK at : at \in {"done", "crashed"} /\ pc' = [pc EXCEPT ![p] = at]
      BY <2>9 DEF Unlock, Crash, Goto
    <3>2. text' = text /\ op' = op /\ seen' = seen /\ new' = new
      BY <2>9 DEF Unlock, Crash, fileVars
    <3>3. OwnOK(op[p], at, seen[p], new[p])
      BY <2>1, <3>1 DEF OwnOK, LockedSteps
    <3>4. Moved(p, op[p], at, seen[p], new[p])
      BY <2>1, <3>1, <3>2, <3>3 DEF Moved
    <3> QED
      BY <3>4, MovedKeeps
  <2>10. CASE UNCHANGED vars
    BY <2>10 DEF vars, EndingsInv
  <2> QED
    BY StepCases, <2>2, <2>3, <2>4, <2>5, <2>6, <2>7, <2>8, <2>9, <2>10
<1> QED
  BY <1>1, <1>2, PTL DEF Spec

\* Neither an edit nor an append mixes the endings of a file or changes them, whatever
\* the file and the arguments are, and whatever others do meanwhile.
THEOREM EditsKeepEndingsCorrect == Spec => []EditsKeepEndings
<1>1. EndingsInv => EditsKeepEndings
  <2> SUFFICES ASSUME EndingsInv, NEW p \in Procs, NEW after,
                      after = IF pc[p] = "separate" THEN AppendText(op[p].content, seen[p]) ELSE new[p],
                      pc[p] = "separate" \/ (pc[p] = "truncate" /\ op[p].kind # "create")
               PROVE  /\ ValidEndings(after)
                      /\ Contains(after, "LF") /\ Contains(seen[p], "LF")
                           => (HasCRLF(after) <=> HasCRLF(seen[p]))
    BY DEF EditsKeepEndings
  <2>1. OwnOK(op[p], pc[p], seen[p], new[p])
    BY DEF EndingsInv
  <2>2. after \in TextsLike(seen[p])
    <3>1. CASE pc[p] = "separate"
      <4>1. /\ ValidEndings(seen[p]) /\ seen[p] \in Seq(Chars) /\ ~HasCR(op[p].content)
            /\ op[p].content \in Seq(Chars)
        BY <2>1, <3>1 DEF OwnOK, LockedSteps, OpOK
      <4> QED
        BY <3>1, <4>1, AppendKeeps
    <3>2. CASE pc[p] # "separate"
      BY <2>1, <3>2 DEF OwnOK
    <3> QED
      BY <3>1, <3>2
  <2> QED
    BY <2>2, LikeKeeps
<1> QED
  BY <1>1, EndingsInvCorrect, PTL

-----------------------------------------------------------------------------
(* Splitting and joining are inverse to each other *)

\* A sequence and its last element.
IsAppended(s, a, x, T) == a \in Seq(T) /\ x \in T /\ s = Append(a, x) /\ Len(s) = Len(a) + 1

LEMMA LastApart ==
  ASSUME NEW T, NEW s \in Seq(T), Len(s) # 0
  PROVE  \E a, x : IsAppended(s, a, x, T)
<1> PICK k : k = Len(s) - 1
  OBVIOUS
<1>0. k \in Nat /\ Len(s) = k + 1 /\ k \in 0..Len(s) /\ k + 1 \in 1..Len(s)
  OBVIOUS
<1> PICK a : a = SubSeq(s, 1, k)
  OBVIOUS
<1> PICK x : x = s[k + 1]
  OBVIOUS
<1>2. a \in Seq(T) /\ Len(a) = k /\ \A i \in 1..k : a[i] = s[i]
  <2>1. 1 \in Nat \ {0} /\ k - 1 + 1 = k /\ \A i \in 1..k : 1 + i - 1 = i
    BY <1>0
  <2>2. /\ a \in Seq(T) /\ Len(a) = IF 1 <= k THEN k - 1 + 1 ELSE 0
        /\ \A i \in 1..(k - 1 + 1) : a[i] = s[1 + i - 1]
    BY <1>0, <2>1, Part
  <2> QED
    BY <1>0, <2>1, <2>2
<1>3. x \in T
  BY <1>0
<1>4. PICK u : u = Append(a, x)
  OBVIOUS
<1>5. u \in Seq(T) /\ Len(u) = k + 1 /\ u[k + 1] = x /\ \A i \in 1..k : u[i] = a[i]
  BY <1>0, <1>2, <1>3, <1>4, AppendProperties
<1>6. \A i \in 1..(k + 1) : u[i] = s[i]
  <2>1. \A i \in 1..(k + 1) : i = k + 1 \/ i \in 1..k
    BY <1>0
  <2> QED
    BY <1>2, <1>5, <2>1
<1>7. u = s
  BY <1>0, <1>5, <1>6, SeqEqual
<1>8. IsAppended(s, a, x, T)
  BY <1>0, <1>2, <1>3, <1>4, <1>7 DEF IsAppended
<1> QED
  BY <1>8

\* Putting together, with one more at the end.
LEMMA FlattenAppend ==
  ASSUME NEW S, NEW seqs \in Seq(Seq(S)), NEW s \in Seq(S)
  PROVE  /\ FlattenSeq(seqs) \in Seq(S)
         /\ FlattenSeq(Append(seqs, s)) = FlattenSeq(seqs) \o s
<1> PICK n \in Nat : n = Len(seqs)
  OBVIOUS
<1> PICK T, m, more : T = Seq(S) /\ m = n + 1 /\ more = Append(seqs, s)
  OBVIOUS
<1>1. more \in Seq(Seq(S)) /\ Len(more) = m /\ more[m] = s /\ \A k \in 1..n : more[k] = seqs[k]
  BY AppendProperties
<1>2. PICK f : Flats(f, seqs, S, n)
  BY Flattened
<1>3. PICK g : Flats(g, more, S, m)
  BY <1>1, Flattened
<1>4. /\ f[0] = <<>> /\ FlattenSeq(seqs) = f[n] /\ f[n] \in T
      /\ \A k \in 1..n : f[k] = f[k - 1] \o seqs[k]
  <2>1. n \in 0..n
    OBVIOUS
  <2> QED
    BY <1>2, <2>1 DEF Flats
<1>5. /\ g[0] = <<>> /\ FlattenSeq(more) = g[m]
      /\ \A k \in 1..m : g[k] = g[k - 1] \o more[k]
  BY <1>3 DEF Flats
<1> DEFINE Good == {k \in 0..n : g[k] = f[k]}
<1>6. 0 \in Good
  BY <1>4, <1>5
<1>7. ASSUME NEW k \in 1..n, k - 1 \in Good
      PROVE  k \in Good
  <2>1. g[k - 1] = f[k - 1]
    BY <1>7
  <2>2. k \in 1..m
    OBVIOUS
  <2>3. f[k] = f[k - 1] \o seqs[k] /\ g[k] = g[k - 1] \o more[k] /\ more[k] = seqs[k]
    BY <1>1, <1>4, <1>5, <2>2, Zenon
  <2>4. g[k] = f[k]
    BY <2>1, <2>3, Zenon
  <2> QED
    BY <2>4
<1>8. n \in 0..n
  OBVIOUS
<1>9. g[n] = f[n]
  <2>1. n \in Good
    <3> HIDE DEF Good
    <3> QED
      BY <1>6, <1>7, <1>8, Upwards, Zenon
  <2> QED
    BY <2>1
<1>10. m \in 1..m /\ m - 1 = n
  OBVIOUS
<1>11. g[m] = f[n] \o s
  BY <1>1, <1>5, <1>9, <1>10, Zenon
<1> QED
  BY <1>4, <1>5, <1>11

JoinsOn(lines, x, e, S) ==
  /\ JoinLines(lines, e, TRUE) \in Seq(S)
  /\ JoinLines(Append(lines, x), e, TRUE) = JoinLines(lines, e, TRUE) \o (x \o e)
  /\ JoinLines(Append(lines, x), e, FALSE) = JoinLines(lines, e, TRUE) \o x

LEMMA JoinAppend ==
  ASSUME NEW S, NEW lines \in Seq(Seq(S)), NEW x \in Seq(S), NEW e \in Seq(S)
  PROVE  JoinsOn(lines, x, e, S)
<1> PICK n \in Nat : n = Len(lines)
  OBVIOUS
<1> PICK m, more : m = n + 1 /\ more = Append(lines, x)
  OBVIOUS
<1>1. more \in Seq(Seq(S)) /\ Len(more) = m /\ more[m] = x /\ \A i \in 1..n : more[i] = lines[i]
  BY AppendProperties
<1>2. DOMAIN lines = 1..n /\ DOMAIN more = 1..m
  BY <1>1
<1>3. PICK all : all = [i \in 1..n |-> lines[i] \o e]
  OBVIOUS
<1>4. x \o e \in Seq(S) /\ \A i \in 1..n : lines[i] \o e \in Seq(S)
  <2>1. \A i \in 1..n : lines[i] \in Seq(S)
    OBVIOUS
  <2> QED
    BY <2>1, ConcatProperties
<1>5. all \in Seq(Seq(S)) /\ Len(all) = n
  <2>1. all \in [1..n -> Seq(S)]
    BY <1>3, <1>4
  <2> QED
    BY <2>1, FunSeq, Zenon
<1>6. JoinLines(lines, e, TRUE) = FlattenSeq(all)
  <2>1. all = [i \in 1..n |-> IF i < Len(lines) \/ TRUE THEN lines[i] \o e ELSE lines[i]]
    BY <1>3
  <2> QED
    BY <1>2, <2>1, Zenon DEF JoinLines
<1>7. ASSUME NEW y \in Seq(S), NEW u, u = [i \in 1..m |-> IF i = m THEN y ELSE lines[i] \o e]
      PROVE  FlattenSeq(u) = JoinLines(lines, e, TRUE) \o y
  <2>1. PICK v : v = Append(all, y)
    OBVIOUS
  <2>2. v \in Seq(Seq(S)) /\ Len(v) = m /\ v[m] = y /\ \A i \in 1..n : v[i] = all[i]
    BY <1>5, <1>7, <2>1, AppendProperties
  <2>3. \A i \in 1..m : i = m \/ (i # m /\ i \in 1..n)
    OBVIOUS
  <2>4. \A i \in 1..m : u[i] = v[i]
    BY <1>3, <1>7, <2>2, <2>3
  <2>5. v \in [1..m -> Seq(S)] /\ u \in [1..m -> Seq(S)]
    <3>1. v \in [1..m -> Seq(S)]
      BY <2>2
    <3>2. \A i \in 1..m : u[i] \in Seq(S)
      BY <2>4, <3>1
    <3> QED
      BY <1>7, <3>1, <3>2
  <2>6. u = v
    BY <2>4, <2>5
  <2> QED
    BY <1>5, <1>6, <1>7, <2>1, <2>6, FlattenAppend
<1>8. JoinLines(more, e, TRUE) = JoinLines(lines, e, TRUE) \o (x \o e)
  <2>1. PICK u : u = [i \in 1..m |-> IF i < Len(more) \/ TRUE THEN more[i] \o e ELSE more[i]]
    OBVIOUS
  <2>2. \A i \in 1..m : i = m \/ i \in 1..n
    OBVIOUS
  <2>3. \A i \in 1..m : u[i] = IF i = m THEN x \o e ELSE lines[i] \o e
    BY <1>1, <2>1, <2>2
  <2>4. u = [i \in 1..m |-> IF i = m THEN x \o e ELSE lines[i] \o e]
    BY <2>1, <2>3
  <2>5. FlattenSeq(u) = JoinLines(lines, e, TRUE) \o (x \o e)
    BY <1>4, <1>7, <2>4
  <2> QED
    BY <1>2, <2>1, <2>5, Zenon DEF JoinLines
<1>9. JoinLines(more, e, FALSE) = JoinLines(lines, e, TRUE) \o x
  <2>1. PICK u : u = [i \in 1..m |-> IF i < Len(more) \/ FALSE THEN more[i] \o e ELSE more[i]]
    OBVIOUS
  <2>2. \A i \in 1..m : i = m \/ (i \in 1..n /\ i < m)
    OBVIOUS
  <2>3. \A i \in 1..m : u[i] = IF i = m THEN x ELSE lines[i] \o e
    BY <1>1, <2>1, <2>2
  <2>4. u = [i \in 1..m |-> IF i = m THEN x ELSE lines[i] \o e]
    BY <2>1, <2>3
  <2>5. FlattenSeq(u) = JoinLines(lines, e, TRUE) \o x
    BY <1>7, <2>4
  <2> QED
    BY <1>2, <2>1, <2>5, Zenon DEF JoinLines
<1>10. FlattenSeq(all) \in Seq(S)
  BY <1>5, FlattenAppend
<1> QED
  BY <1>6, <1>8, <1>9, <1>10 DEF JoinsOn

\* str::split reads one character after the other.
LEMMA SplitAppend ==
  ASSUME NEW S, NEW t \in Seq(S), NEW c \in S
  PROVE  /\ SplitAtLF(t) \in PiecesOf(S) /\ SplitAtLF(<<>>) = << <<>> >>
         /\ SplitAtLF(Append(t, c)) = WithNext(SplitAtLF(t), c)
<1> PICK n \in Nat : n = Len(t)
  OBVIOUS
<1> PICK m, u : m = n + 1 /\ u = Append(t, c)
  OBVIOUS
<1>1. u \in Seq(S) /\ Len(u) = m /\ u[m] = c /\ \A k \in 1..n : u[k] = t[k]
  BY AppendProperties
<1>2. PICK p : SplitsBy(p, S, t, n)
  BY SplitSteps
<1>3. PICK q : SplitsBy(q, S, u, m)
  BY <1>1, SplitSteps
<1>4. /\ p[0] = << <<>> >> /\ SplitAtLF(t) = p[n] /\ p[n] \in PiecesOf(S)
      /\ \A k \in 1..n : p[k] = WithNext(p[k - 1], t[k])
  <2>1. n \in 0..n
    OBVIOUS
  <2> QED
    BY <1>2, <2>1, Zenon DEF SplitsBy
<1>5. /\ q[0] = << <<>> >> /\ SplitAtLF(u) = q[m]
      /\ \A k \in 1..m : q[k] = WithNext(q[k - 1], u[k])
  BY <1>3 DEF SplitsBy
<1> DEFINE Good == {k \in 0..n : q[k] = p[k]}
<1>6. 0 \in Good
  BY <1>4, <1>5
<1>7. ASSUME NEW k \in 1..n, k - 1 \in Good
      PROVE  k \in Good
  <2>1. q[k - 1] = p[k - 1]
    BY <1>7
  <2>2. k \in 1..m
    OBVIOUS
  <2>3. p[k] = WithNext(p[k - 1], t[k]) /\ q[k] = WithNext(q[k - 1], u[k]) /\ u[k] = t[k]
    BY <1>1, <1>4, <1>5, <2>2, Zenon
  <2>4. q[k] = p[k]
    BY <2>1, <2>3, Zenon
  <2> QED
    BY <2>4
<1>8. n \in 0..n
  OBVIOUS
<1>9. q[n] = p[n]
  <2>1. n \in Good
    <3> HIDE DEF Good
    <3> QED
      BY <1>6, <1>7, <1>8, Upwards, Zenon
  <2> QED
    BY <2>1
<1>10. m \in 1..m /\ m - 1 = n
  OBVIOUS
<1>11. q[m] = WithNext(p[n], c)
  BY <1>1, <1>5, <1>9, <1>10, Zenon
<1>12. SplitAtLF(<<>>) = << <<>> >>
  <2>1. <<>> \in Seq(S) /\ 0 = Len(<<>>)
    BY EmptySeq
  <2>2. PICK r : SplitsBy(r, S, <<>>, 0)
    BY <2>1, SplitSteps
  <2> QED
    BY <2>2 DEF SplitsBy
<1> QED
  BY <1>4, <1>5, <1>11, <1>12

\* The last piece grows until there is an LF.
IsExcept(s, q, m, x, T) ==
  s \in Seq(T) /\ Len(s) = Len(q) /\ \A i \in 1..Len(q) : s[i] = IF i = m THEN x ELSE q[i]

LEMMA ExceptIs ==
  ASSUME NEW T, NEW q \in Seq(T), NEW m \in 1..Len(q), NEW x \in T
  PROVE  IsExcept([q EXCEPT ![m] = x], q, m, x, T)
BY ExceptSeq DEF IsExcept

LEMMA NextLF ==
  ASSUME NEW q
  PROVE  WithNext(q, "LF") = Append(q, <<>>)
BY DEF WithNext

LEMMA NextOther ==
  ASSUME NEW S, NEW ls \in Seq(Seq(S)), NEW y \in Seq(S), NEW c \in S, c # "LF"
  PROVE  WithNext(Append(ls, y), c) = Append(ls, Append(y, c))
<1> PICK T : T = Seq(S)
  OBVIOUS
<1> PICK q : q = Append(ls, y)
  OBVIOUS
<1> PICK m : m = Len(ls) + 1
  OBVIOUS
<1> PICK x : x = Append(y, c)
  OBVIOUS
<1>1. m \in Nat \ {0} /\ Len(ls) = m - 1
  OBVIOUS
<1>2. q \in Seq(T) /\ Len(q) = m /\ q[m] = y /\ \A i \in 1..(m - 1) : q[i] = ls[i]
  BY <1>1, AppendProperties
<1>3. x \in T
  BY AppendProperties
<1>4. PICK r : r = Append(ls, x)
  OBVIOUS
<1>5. r \in Seq(T) /\ Len(r) = m /\ r[m] = x /\ \A i \in 1..(m - 1) : r[i] = ls[i]
  BY <1>1, <1>3, <1>4, AppendProperties
<1>6. PICK s : s = [q EXCEPT ![m] = x]
  OBVIOUS
<1>7. s \in Seq(T) /\ Len(s) = m /\ \A i \in 1..m : s[i] = IF i = m THEN x ELSE q[i]
  <2>1. m \in 1..Len(q)
    BY <1>1, <1>2
  <2>2. q \in Seq(T)
    BY <1>2
  <2>3. IsExcept([q EXCEPT ![m] = x], q, m, x, T)
    BY <1>3, <2>1, <2>2, ExceptIs, Zenon
  <2> QED
    BY <1>2, <1>6, <2>3 DEF IsExcept
<1>8. \A i \in 1..m : s[i] = r[i]
  <2>1. \A i \in 1..m : i = m \/ (i # m /\ i \in 1..(m - 1))
    BY <1>1
  <2> QED
    BY <1>2, <1>5, <1>7, <2>1
<1>9. s = r
  BY <1>5, <1>7, <1>8, SeqEqual
<1>10. WithNext(q, c) = [q EXCEPT ![m] = x]
  BY <1>2 DEF WithNext
<1> QED
  BY <1>4, <1>6, <1>9, <1>10

LEMMA ConcatAppend ==
  ASSUME NEW S, NEW s \in Seq(S), NEW a \in Seq(S), NEW c \in S
  PROVE  s \o Append(a, c) = Append(s \o a, c)
<1>1. Append(a, c) = a \o <<c>> /\ Append(s \o a, c) = (s \o a) \o <<c>>
  <2>1. s \o a \in Seq(S)
    BY ConcatProperties
  <2> QED
    BY <2>1, AppendIsConcat
<1>2. <<c>> \in Seq(S)
  OBVIOUS
<1>3. (s \o a) \o <<c>> = s \o (a \o <<c>>)
  BY <1>2, ConcatAssociative
<1> QED
  BY <1>1, <1>3

\* Text without an LF goes to the last piece.
Splits(t, ls, y) == SplitAtLF(t) = Append(ls, y)

LEMMA SplitPlain ==
  ASSUME NEW S, NEW t \in Seq(S), NEW ls \in Seq(Seq(S)), NEW y \in Seq(S),
         Splits(t, ls, y), NEW N, N = S \ {"LF"}, NEW x \in Seq(N)
  PROVE  Splits(t \o x, ls, y \o x)
<1> USE DEF Splits
<1> PICK R : R = S \ {"LF"}
  OBVIOUS
<1>0. \A z \in Seq(R) : z \in Seq(S)
  <2> SUFFICES ASSUME NEW z \in Seq(R)
               PROVE  z \in Seq(S)
    OBVIOUS
  <2>1. Len(z) \in Nat /\ z \in [1..Len(z) -> S]
    OBVIOUS
  <2> QED
    BY <2>1, FunSeq, Zenon
<1> DEFINE Holds(z) == SplitAtLF(t \o z) = Append(ls, y \o z)
           Good == {k \in Nat : \A z \in Seq(R) : Len(z) = k => Holds(z)}
<1>1. 0 \in Good
  <2> SUFFICES ASSUME NEW z \in Seq(R), Len(z) = 0
               PROVE  Holds(z)
    OBVIOUS
  <2>1. z = <<>> /\ t \o <<>> = t /\ y \o <<>> = y
    BY EmptySeq, ConcatEmptySeq
  <2> QED
    BY <2>1
<1>2. ASSUME NEW k \in Nat, k \in Good
      PROVE  k + 1 \in Good
  <2> SUFFICES ASSUME NEW z \in Seq(R), Len(z) = k + 1
               PROVE  Holds(z)
    OBVIOUS
  <2>1. PICK a, c : IsAppended(z, a, c, R)
    <3>1. Len(z) # 0
      OBVIOUS
    <3> QED
      BY <3>1, LastApart
  <2>2. a \in Seq(R) /\ c \in R /\ z = Append(a, c) /\ Len(a) = k
    BY <2>1 DEF IsAppended
  <2>3. a \in Seq(S) /\ c \in S /\ c # "LF"
    BY <1>0, <2>2
  <2>4. SplitAtLF(t \o a) = Append(ls, y \o a)
    BY <1>2, <2>2
  <2>5. t \o a \in Seq(S) /\ y \o a \in Seq(S)
    BY <2>3, ConcatProperties
  <2>6. t \o z = Append(t \o a, c) /\ y \o z = Append(y \o a, c)
    <3>1. t \o Append(a, c) = Append(t \o a, c)
      BY <2>3, ConcatAppend
    <3>2. y \o Append(a, c) = Append(y \o a, c)
      BY <2>3, ConcatAppend
    <3> QED
      BY <2>2, <3>1, <3>2, Zenon
  <2>7. SplitAtLF(Append(t \o a, c)) = WithNext(Append(ls, y \o a), c)
    BY <2>3, <2>4, <2>5, SplitAppend
  <2>8. WithNext(Append(ls, y \o a), c) = Append(ls, Append(y \o a, c))
    <3>1. PICK v : v = y \o a
      OBVIOUS
    <3>2. v \in Seq(S)
      BY <2>5, <3>1
    <3>3. WithNext(Append(ls, v), c) = Append(ls, Append(v, c))
      BY <2>3, <3>2, NextOther
    <3> QED
      BY <2>3, <3>1, <3>3, Zenon
  <2> QED
    BY <2>6, <2>7, <2>8
<1> HIDE DEF Good
<1>3. Len(x) \in Good
  <2>1. Nat \subseteq Good
    BY <1>1, <1>2, SetInduction
  <2> QED
    BY <2>1
<1> QED
  BY <1>3 DEF Good

\* Lines with a CR at their end where the file has it.
Raw(lines, cr) == [i \in 1..Len(lines) |-> lines[i] \o cr]

NotLF == Chars \ {"LF"}
Endings == {<<>>, <<"CR">>}

LEMMA CrText ==
  ASSUME NEW cr \in Endings
  PROVE  cr \in Seq(NotLF) /\ cr \in Seq(Chars)
<1>1. "CR" \in NotLF /\ "CR" \in Chars
  BY DEF NotLF, Chars
<1>2. \A S : <<>> \in Seq(S) /\ ("CR" \in S => <<"CR">> \in Seq(S))
  BY EmptySeq
<1>3. cr = <<>> \/ cr = <<"CR">>
  BY DEF Endings
<1> QED
  BY <1>1, <1>2, <1>3, Zenon

LEMMA NotLFTexts ==
  ASSUME NEW x \in Seq(Plain), NEW cr \in Endings
  PROVE  x \in Seq(NotLF) /\ x \in Seq(Chars) /\ cr \in Seq(Chars) /\ x \o cr \in Seq(NotLF)
<1> PICK n \in Nat : n = Len(x)
  OBVIOUS
<1>1. x \in [1..n -> NotLF] /\ x \in [1..n -> Chars]
  BY DEF Plain, NotLF
<1>2. x \in Seq(NotLF) /\ x \in Seq(Chars)
  BY <1>1, FunSeq, Zenon
<1>3. cr \in Seq(NotLF) /\ cr \in Seq(Chars)
  BY CrText
<1>4. x \o cr \in Seq(NotLF)
  BY <1>2, <1>3, ConcatProperties
<1> QED
  BY <1>2, <1>3, <1>4

LEMMA RawAppend ==
  ASSUME NEW lines \in Seq(Seq(Plain)), NEW x \in Seq(Plain), NEW cr \in Endings
  PROVE  /\ Raw(lines, cr) \in Seq(Seq(Chars)) /\ Len(Raw(lines, cr)) = Len(lines)
         /\ Raw(Append(lines, x), cr) = Append(Raw(lines, cr), x \o cr)
<1> PICK n \in Nat : n = Len(lines)
  OBVIOUS
<1> PICK m \in Nat : m = n + 1
  OBVIOUS
<1> PICK T : T = Seq(Chars)
  OBVIOUS
<1> PICK more : more = Append(lines, x)
  OBVIOUS
<1>1. Len(more) = m /\ more[m] = x /\ \A i \in 1..n : more[i] = lines[i]
  BY AppendProperties
<1>2. \A y \in Seq(Plain) : y \o cr \in T
  <2> SUFFICES ASSUME NEW y \in Seq(Plain)
               PROVE  y \o cr \in T
    OBVIOUS
  <2>1. y \in Seq(Chars) /\ cr \in Seq(Chars)
    BY NotLFTexts
  <2> QED
    BY <2>1, ConcatProperties
<1>3. PICK r : r = Raw(lines, cr)
  OBVIOUS
<1>4. r = [i \in 1..n |-> lines[i] \o cr]
  BY <1>3 DEF Raw
<1>5. r \in Seq(T) /\ Len(r) = n
  <2>1. \A i \in 1..n : lines[i] \o cr \in T
    BY <1>2
  <2>2. r \in [1..n -> T]
    BY <1>4, <2>1
  <2> QED
    BY <2>2, FunSeq, Zenon
<1>6. PICK u : u = Append(r, x \o cr)
  OBVIOUS
<1>7. u \in Seq(T) /\ Len(u) = m /\ u[m] = x \o cr /\ \A i \in 1..n : u[i] = r[i]
  BY <1>2, <1>5, <1>6, AppendProperties
<1>8. PICK v : v = Raw(more, cr)
  OBVIOUS
<1>9. v = [i \in 1..m |-> more[i] \o cr]
  BY <1>1, <1>8, Zenon DEF Raw
<1>10. \A i \in 1..m : v[i] = u[i]
  <2>1. \A i \in 1..m : i = m \/ i \in 1..n
    OBVIOUS
  <2> QED
    BY <1>1, <1>4, <1>7, <1>9, <2>1
<1>11. v = u
  <2>1. u = [i \in 1..m |-> u[i]]
    BY <1>7
  <2> QED
    BY <1>9, <1>10, <2>1
<1> QED
  BY <1>3, <1>5, <1>6, <1>8, <1>11

LEMMA JoinNone ==
  ASSUME NEW e, NEW trailing
  PROVE  JoinLines(<<>>, e, trailing) = <<>>
<1>1. PICK u : u = [i \in 1..0 |-> IF i < Len(<<>>) \/ trailing THEN <<>>[i] \o e ELSE <<>>[i]]
  OBVIOUS
<1>2. u \in Seq(Seq(Chars)) /\ Len(u) = 0
  <2>1. u \in [1..0 -> Seq(Chars)]
    BY <1>1
  <2> QED
    BY <2>1, FunSeq
<1>3. PICK f : Flats(f, u, Chars, 0)
  BY <1>2, Flattened
<1>4. FlattenSeq(u) = <<>>
  BY <1>3 DEF Flats
<1>5. DOMAIN <<>> = 1..0
  OBVIOUS
<1> QED
  BY <1>1, <1>4, <1>5, Zenon DEF JoinLines

Regroups(s, t, u) == s \o (t \o u) = (s \o t) \o u

LEMMA Regrouped ==
  ASSUME NEW S, NEW s \in Seq(S), NEW t \in Seq(S), NEW u \in Seq(S)
  PROVE  Regroups(s, t, u)
BY ConcatAssociative DEF Regroups

\* A line that is added ends in an LF.
AddsLine(a, x, cr, e) ==
  LET t == JoinLines(a, e, TRUE)
  IN  /\ t \in Seq(Chars) /\ t \o (x \o cr) \in Seq(Chars)
      /\ JoinLines(Append(a, x), e, TRUE) = Append(t \o (x \o cr), "LF")
      /\ JoinLines(Append(a, x), e, FALSE) = t \o x

LEMMA JoinEnds ==
  ASSUME NEW cr \in Endings, NEW e, e = cr \o <<"LF">>, NEW a \in Seq(Seq(Plain)), NEW x \in Seq(Plain)
  PROVE  AddsLine(a, x, cr, e)
<1> PICK t : t = JoinLines(a, e, TRUE)
  OBVIOUS
<1>1. cr \in Seq(Chars) /\ x \in Seq(Chars) /\ <<"LF">> \in Seq(Chars) /\ "LF" \in Chars
  <2>1. "LF" \in Chars
    BY DEF Chars
  <2> QED
    BY <2>1, CrText, NotLFTexts
<1>2. e \in Seq(Chars)
  BY <1>1, ConcatProperties
<1>3. a \in Seq(Seq(Chars))
  <2>1. \A i \in 1..Len(a) : a[i] \in Seq(Chars)
    BY NotLFTexts
  <2>2. a \in [1..Len(a) -> Seq(Chars)] /\ Len(a) \in Nat
    BY <2>1
  <2> QED
    BY <2>2, FunSeq, Zenon
<1>4. JoinsOn(a, x, e, Chars)
  BY <1>1, <1>2, <1>3, JoinAppend
<1>5. /\ t \in Seq(Chars) /\ JoinLines(Append(a, x), e, TRUE) = t \o (x \o e)
      /\ JoinLines(Append(a, x), e, FALSE) = t \o x
  BY <1>4 DEF JoinsOn
<1>6. PICK w : w = x \o cr
  OBVIOUS
<1>7. w \in Seq(Chars)
  BY <1>1, <1>6, ConcatProperties
<1>8. t \o w \in Seq(Chars)
  BY <1>5, <1>7, ConcatProperties
<1>9. t \o (x \o e) = Append(t \o w, "LF")
  <2>1. x \o e = w \o <<"LF">>
    BY <1>1, <1>6, ConcatAssociative
  <2>2. t \o (w \o <<"LF">>) = (t \o w) \o <<"LF">>
    <3>1. PICK z : z = <<"LF">>
      OBVIOUS
    <3>2. t \in Seq(Chars) /\ z \in Seq(Chars)
      BY <1>1, <1>5, <3>1
    <3>3. Regroups(t, w, z)
      BY <1>7, <3>2, Regrouped
    <3> QED
      BY <3>1, <3>3, Zenon DEF Regroups
  <2>3. (t \o w) \o <<"LF">> = Append(t \o w, "LF")
    BY <1>1, <1>8, AppendIsConcat
  <2> QED
    BY <2>1, <2>2, <2>3
<1> QED
  BY <1>5, <1>6, <1>8, <1>9, Zenon DEF AddsLine

\* Lines that are joined end with an LF each, and splitting finds them again.
LEMMA SplitOfJoin ==
  ASSUME NEW cr \in Endings, NEW e, e = cr \o <<"LF">>, NEW lines \in Seq(Seq(Plain))
  PROVE  /\ JoinLines(lines, e, TRUE) \in Seq(Chars)
         /\ SplitAtLF(JoinLines(lines, e, TRUE)) = Append(Raw(lines, cr), <<>>)
<1> PICK L : L = Seq(Plain)
  OBVIOUS
<1>0. e \in Seq(Chars) /\ cr \in Seq(Chars) /\ <<"LF">> \in Seq(Chars) /\ "LF" \in Chars
  <2>1. "LF" \in Chars
    BY DEF Chars
  <2>2. cr \in Seq(Chars) /\ <<"LF">> \in Seq(Chars) /\ "LF" \in Chars
    BY <2>1, CrText
  <2> QED
    BY <2>2, ConcatProperties
<1> DEFINE Holds(ls) == /\ JoinLines(ls, e, TRUE) \in Seq(Chars)
                        /\ SplitAtLF(JoinLines(ls, e, TRUE)) = Append(Raw(ls, cr), <<>>)
           Good == {k \in Nat : \A ls \in Seq(L) : Len(ls) = k => Holds(ls)}
<1> HIDE DEF Holds
<1>1. ASSUME NEW ls \in Seq(L), Len(ls) = 0
      PROVE  Holds(ls)
  <2>1. ls = <<>>
    BY <1>1, EmptySeq
  <2>2. JoinLines(ls, e, TRUE) = <<>> /\ <<>> \in Seq(Chars)
    BY <2>1, JoinNone, EmptySeq
  <2>3. SplitAtLF(<<>>) = << <<>> >>
    BY <1>0, <2>2, SplitAppend
  <2>4. Raw(ls, cr) = <<>>
    <3>1. ls \in Seq(Seq(Plain)) /\ <<>> \in Seq(Plain)
      BY EmptySeq
    <3>2. Raw(ls, cr) \in Seq(Seq(Chars)) /\ Len(Raw(ls, cr)) = 0
      BY <1>1, <3>1, RawAppend
    <3> QED
      BY <3>2, EmptySeq
  <2>5. Append(<<>>, <<>>) = << <<>> >>
    OBVIOUS
  <2> QED
    BY <2>2, <2>3, <2>4, <2>5 DEF Holds
<1>2. ASSUME NEW k \in Nat, \A ls \in Seq(L) : Len(ls) = k => Holds(ls),
             NEW ls \in Seq(L), Len(ls) = k + 1
      PROVE  Holds(ls)
  <2>1. PICK a, x : IsAppended(ls, a, x, L)
    <3>1. Len(ls) # 0
      BY <1>2
    <3> QED
      BY <3>1, LastApart
  <2>2. a \in Seq(Seq(Plain)) /\ x \in Seq(Plain) /\ ls = Append(a, x) /\ Len(a) = k
    BY <1>2, <2>1 DEF IsAppended
  <2>3. PICK t, r, w : t = JoinLines(a, e, TRUE) /\ r = Raw(a, cr) /\ w = x \o cr
    OBVIOUS
  <2>4. t \in Seq(Chars) /\ SplitAtLF(t) = Append(r, <<>>)
    BY <1>2, <2>2, <2>3 DEF Holds
  <2>5. w \in Seq(NotLF) /\ w \in Seq(Chars) /\ x \in Seq(Chars) /\ <<>> \in Seq(Chars)
    <3>1. w \in Seq(NotLF) /\ x \in Seq(Chars)
      BY <2>2, <2>3, NotLFTexts
    <3>2. w \in Seq(Chars)
      BY <1>0, <2>3, <3>1, ConcatProperties
    <3> QED
      BY <3>1, <3>2, EmptySeq
  <2>6. r \in Seq(Seq(Chars)) /\ Raw(ls, cr) = Append(r, w)
    BY <2>2, <2>3, RawAppend
  <2>7. SplitAtLF(t \o w) = Append(r, w)
    <3>1. SplitAtLF(t \o w) = Append(r, <<>> \o w)
      <4>1. Splits(t, r, <<>>) /\ NotLF = Chars \ {"LF"}
        BY <2>4 DEF Splits, NotLF
      <4>2. Splits(t \o w, r, <<>> \o w)
        BY <2>4, <2>5, <2>6, <4>1, SplitPlain
      <4> QED
        BY <4>2 DEF Splits
    <3>2. <<>> \o w = w
      BY <2>5, ConcatEmptySeq
    <3> QED
      BY <3>1, <3>2
  <2>8. t \o w \in Seq(Chars)
    BY <2>4, <2>5, ConcatProperties
  <2>9. JoinLines(ls, e, TRUE) = Append(t \o w, "LF")
    <3>1. AddsLine(a, x, cr, e)
      BY <2>2, JoinEnds
    <3> QED
      BY <2>2, <2>3, <3>1, Zenon DEF AddsLine
  <2>10. SplitAtLF(Append(t \o w, "LF")) = Append(Append(r, w), <<>>)
    <3>1. SplitAtLF(Append(t \o w, "LF")) = WithNext(SplitAtLF(t \o w), "LF")
      BY <1>0, <2>8, SplitAppend
    <3> QED
      BY <2>7, <3>1, NextLF
  <2>11. Append(t \o w, "LF") \in Seq(Chars)
    BY <1>0, <2>8, AppendProperties
  <2> QED
    BY <2>6, <2>9, <2>10, <2>11 DEF Holds
<1>3. 0 \in Good
  BY <1>1
<1>4. ASSUME NEW k \in Nat, k \in Good
      PROVE  k + 1 \in Good
  BY <1>2, <1>4
<1> HIDE DEF Good
<1>5. Len(lines) \in Good
  <2>1. Nat \subseteq Good
    BY <1>3, <1>4, SetInduction
  <2> QED
    BY <2>1
<1>6. Holds(lines)
  BY <1>5 DEF Good
<1> QED
  BY <1>6 DEF Holds

LEMMA Ends ==
  ASSUME NEW T, NEW a \in Seq(T), NEW x \in T
  PROVE  Front(Append(a, x)) = a /\ Last(Append(a, x)) = x /\ Append(a, x) # <<>>
<1> PICK k : k = Len(a)
  OBVIOUS
<1> PICK s : s = Append(a, x)
  OBVIOUS
<1>0. k \in Nat /\ 1 \in Nat \ {0} /\ k - 1 + 1 = k /\ \A i \in 1..k : 1 + i - 1 = i
  OBVIOUS
<1>1. s \in Seq(T) /\ Len(s) = k + 1 /\ s[k + 1] = x /\ \A i \in 1..k : s[i] = a[i]
  BY AppendProperties
<1>2. PICK u : u = SubSeq(s, 1, k)
  OBVIOUS
<1>3. u \in Seq(T) /\ Len(u) = k /\ \A i \in 1..k : u[i] = s[i]
  <2>1. k \in 0..Len(s)
    BY <1>0, <1>1
  <2>2. /\ u \in Seq(T) /\ Len(u) = IF 1 <= k THEN k - 1 + 1 ELSE 0
        /\ \A i \in 1..(k - 1 + 1) : u[i] = s[1 + i - 1]
    BY <1>0, <1>1, <1>2, <2>1, Part
  <2> QED
    BY <1>0, <2>2
<1>4. u = a
  BY <1>1, <1>3, SeqEqual
<1>5. Front(s) = a
  <2>1. Len(s) - 1 = k
    BY <1>0, <1>1
  <2> QED
    BY <1>2, <1>4, <2>1, Zenon DEF Front
<1>6. Last(s) = x
  BY <1>1 DEF Last
<1>7. s # <<>>
  <2>1. Len(<<>>) = 0
    OBVIOUS
  <2> QED
    BY <1>0, <1>1, <2>1
<1> QED
  BY <1>5, <1>6, <1>7

\* A line without its CR.
LEMMA CrGone ==
  ASSUME NEW x \in Seq(Plain), NEW cr \in Endings
  PROVE  WithoutCR(x \o cr) = x
<1>1. ~(x # <<>> /\ Last(x) = "CR")
  <2> SUFFICES ASSUME x # <<>>
               PROVE  Last(x) # "CR"
    OBVIOUS
  <2>1. Len(x) \in 1..Len(x)
    BY EmptySeq
  <2>2. x[Len(x)] \in Plain
    BY <2>1
  <2> QED
    BY <2>2 DEF Last, Plain
<1>2. CASE cr = <<>>
  <2>1. x \o <<>> = x
    BY ConcatEmptySeq
  <2> QED
    BY <1>1, <1>2, <2>1, Zenon DEF WithoutCR
<1>3. CASE cr = <<"CR">>
  <2>1. x \in Seq(Chars) /\ "CR" \in Chars
    <3>1. "CR" \in Chars
      BY DEF Chars
    <3> QED
      BY <3>1, NotLFTexts
  <2>2. x \o cr = Append(x, "CR")
    BY <1>3, <2>1, AppendIsConcat
  <2>3. Front(Append(x, "CR")) = x /\ Last(Append(x, "CR")) = "CR" /\ Append(x, "CR") # <<>>
    BY <2>1, Ends
  <2> QED
    BY <2>2, <2>3, Zenon DEF WithoutCR
<1> QED
  BY <1>2, <1>3 DEF Endings

Strips(q, lines) == [i \in DOMAIN q |-> WithoutCR(q[i])] = lines

LEMMA Stripped ==
  ASSUME NEW a \in Seq(Seq(Plain)), NEW x \in Seq(Plain), NEW cr \in Endings,
         NEW q, q = Append(Raw(a, cr), x)
  PROVE  Strips(q, Append(a, x))
<1> PICK n \in Nat : n = Len(a)
  OBVIOUS
<1> PICK m \in Nat : m = n + 1
  OBVIOUS
<1> PICK r : r = Raw(a, cr)
  OBVIOUS
<1> PICK T : T = Seq(Chars)
  OBVIOUS
<1>1. r \in Seq(T) /\ Len(r) = n /\ x \in T
  BY RawAppend, NotLFTexts
<1>2. r = [i \in 1..n |-> a[i] \o cr]
  BY DEF Raw
<1>3. q \in Seq(T) /\ Len(q) = m /\ q[m] = x /\ \A i \in 1..n : q[i] = r[i]
  BY <1>1, AppendProperties
<1>4. DOMAIN q = 1..m
  BY <1>3
<1>5. PICK u : u = Append(a, x)
  OBVIOUS
<1>6. Len(u) = m /\ u[m] = x /\ (\A i \in 1..n : u[i] = a[i]) /\ u = [i \in 1..m |-> u[i]]
  <2>1. u \in Seq(Seq(Plain)) /\ Len(u) = m /\ u[m] = x /\ \A i \in 1..n : u[i] = a[i]
    BY <1>5, AppendProperties
  <2> QED
    BY <2>1
<1>7. \A i \in 1..n : a[i] \in Seq(Plain)
  OBVIOUS
<1>8. \A y \in Seq(Plain) : WithoutCR(y \o cr) = y
  BY CrGone
<1>9. WithoutCR(x) = x
  <2>1. WithoutCR(x \o <<>>) = x /\ x \o <<>> = x
    BY CrGone, ConcatEmptySeq DEF Endings
  <2> QED
    BY <2>1
<1>10. \A i \in 1..m : WithoutCR(q[i]) = u[i]
  <2>1. \A i \in 1..m : i = m \/ i \in 1..n
    OBVIOUS
  <2>2. ASSUME NEW i \in 1..n
        PROVE  WithoutCR(q[i]) = u[i]
    <3>1. q[i] = r[i] /\ u[i] = a[i] /\ a[i] \in Seq(Plain)
      BY <1>3, <1>6, <1>7, Zenon
    <3>3. r[i] = a[i] \o cr
      BY <1>2
    <3>2. WithoutCR(a[i] \o cr) = a[i]
      BY <1>8, <3>1
    <3> QED
      BY <3>1, <3>2, <3>3, Zenon
  <2>3. WithoutCR(q[m]) = u[m]
    BY <1>3, <1>6, <1>9
  <2> QED
    BY <2>1, <2>2, <2>3
<1>11. [i \in 1..m |-> WithoutCR(q[i])] = u
  BY <1>6, <1>10
<1> QED
  BY <1>4, <1>5, <1>11, Zenon DEF Strips

\* split_lines finds the lines that join_lines_with_ending put together.
LEMMA LinesOfJoin ==
  ASSUME NEW cr \in Endings, NEW e, e = cr \o <<"LF">>, NEW lines \in Seq(Seq(Plain)),
         NEW trailing \in BOOLEAN, NEW joined, joined = JoinLines(lines, e, trailing),
         trailing \/ (joined # <<>> /\ ~Terminated(joined))
  PROVE  SplitLines(joined) = lines
<1> PICK q : q = SplitAtLF(joined)
  OBVIOUS
<1> PICK pieces : pieces = [i \in DOMAIN q |-> WithoutCR(q[i])]
  OBVIOUS
<1>1. SplitLines(joined) = IF joined = <<>> \/ Terminated(joined) THEN Front(pieces) ELSE pieces
  BY Zenon DEF SplitLines
<1>2. <<>> \in Seq(Plain)
  BY EmptySeq
<1>3. CASE trailing
  <2>1. q = Append(Raw(lines, cr), <<>>)
    BY <1>3, SplitOfJoin
  <2>2. pieces = Append(lines, <<>>)
    <3>1. Strips(q, Append(lines, <<>>))
      BY <1>2, <2>1, Stripped
    <3> QED
      BY <3>1, Zenon DEF Strips
  <2>3. Front(pieces) = lines
    <3>1. lines \in Seq(Seq(Plain))
      OBVIOUS
    <3> QED
      BY <1>2, <2>2, <3>1, Ends, Zenon
  <2>4. joined = <<>> \/ Terminated(joined)
    <3>1. CASE Len(lines) = 0
      <4>1. lines = <<>>
        BY <3>1, EmptySeq
      <4> QED
        BY <4>1, JoinNone
    <3>2. CASE Len(lines) # 0
      <4>1. PICK a, x : IsAppended(lines, a, x, Seq(Plain))
        BY <3>2, LastApart
      <4>2. a \in Seq(Seq(Plain)) /\ x \in Seq(Plain) /\ lines = Append(a, x)
        BY <4>1 DEF IsAppended
      <4>3. PICK w : w = JoinLines(a, e, TRUE) \o (x \o cr)
        OBVIOUS
      <4>4. w \in Seq(Chars) /\ joined = Append(w, "LF")
        <5>1. AddsLine(a, x, cr, e)
          BY <4>2, JoinEnds
        <5> QED
          BY <1>3, <4>2, <4>3, <5>1, Zenon DEF AddsLine
      <4>5. "LF" \in Chars
        BY DEF Chars
      <4>6. Last(joined) = "LF" /\ joined # <<>>
        BY <4>4, <4>5, Ends
      <4> QED
        BY <4>6 DEF Terminated
    <3> QED
      BY <3>1, <3>2
  <2> QED
    BY <1>1, <2>3, <2>4
<1>4. CASE ~trailing
  <2>1. joined # <<>> /\ ~Terminated(joined)
    BY <1>4
  <2>2. Len(lines) # 0
    <3>1. Len(lines) = 0 => lines = <<>>
      BY EmptySeq
    <3> QED
      BY <2>1, <3>1, JoinNone
  <2>3. PICK a, x : IsAppended(lines, a, x, Seq(Plain))
    BY <2>2, LastApart
  <2>4. a \in Seq(Seq(Plain)) /\ x \in Seq(Plain) /\ lines = Append(a, x)
    BY <2>3 DEF IsAppended
  <2>5. PICK t, r : t = JoinLines(a, e, TRUE) /\ r = Raw(a, cr)
    OBVIOUS
  <2>6. joined = t \o x
    <3>1. joined = JoinLines(Append(a, x), e, FALSE)
      BY <1>4, <2>4
    <3> QED
      BY <2>4, <2>5, <3>1, JoinEnds DEF AddsLine
  <2>7. t \in Seq(Chars) /\ SplitAtLF(t) = Append(r, <<>>)
    BY <2>4, <2>5, SplitOfJoin
  <2>8. q = Append(r, x)
    <3>1. r \in Seq(Seq(Chars)) /\ x \in Seq(NotLF) /\ x \in Seq(Chars) /\ <<>> \in Seq(Chars)
      BY <2>4, <2>5, RawAppend, NotLFTexts, EmptySeq
    <3>2. SplitAtLF(t \o x) = Append(r, <<>> \o x)
      <4>1. Splits(t, r, <<>>) /\ NotLF = Chars \ {"LF"}
        BY <2>7 DEF Splits, NotLF
      <4>2. Splits(t \o x, r, <<>> \o x)
        BY <2>7, <3>1, <4>1, SplitPlain
      <4> QED
        BY <4>2 DEF Splits
    <3>3. <<>> \o x = x
      BY <3>1, ConcatEmptySeq
    <3> QED
      BY <2>6, <3>2, <3>3
  <2>9. pieces = lines
    <3>1. q = Append(Raw(a, cr), x)
      BY <2>5, <2>8
    <3>2. a \in Seq(Seq(Plain)) /\ x \in Seq(Plain)
      BY <2>4
    <3>3. Strips(q, Append(a, x))
      BY <3>1, <3>2, Stripped
    <3> QED
      BY <2>4, <3>3, Zenon DEF Strips
  <2> QED
    BY <1>1, <2>1, <2>9
<1> QED
  BY <1>3, <1>4

\* What split cuts at the LFs is put together again with them.
CutsInto(u, ls, y, e) ==
  /\ ls \in Seq(Seq(Chars)) /\ y \in Seq(Chars)
  /\ SplitAtLF(u) = Append(ls, y) /\ u = JoinLines(ls, e, TRUE) \o y

LEMMA Cut ==
  ASSUME NEW e, e = <<"LF">>, NEW t \in Seq(Chars)
  PROVE  \E ls, y : CutsInto(t, ls, y, e)
<1> DEFINE Good == {k \in Nat : \A u \in Seq(Chars) : Len(u) = k => \E ls, y : CutsInto(u, ls, y, e)}
<1>0. "LF" \in Chars /\ e \in Seq(Chars) /\ <<>> \in Seq(Chars) /\ <<>> \in Seq(Seq(Chars))
  <2>1. "LF" \in Chars
    BY DEF Chars
  <2> QED
    BY <2>1, EmptySeq
<1>1. ASSUME NEW u \in Seq(Chars), Len(u) = 0
      PROVE  \E ls, y : CutsInto(u, ls, y, e)
  <2>1. u = <<>>
    BY <1>1, EmptySeq
  <2>2. SplitAtLF(<<>>) = << <<>> >>
    BY <1>0, SplitAppend
  <2>3. Append(<<>>, <<>>) = << <<>> >> /\ <<>> \o <<>> = <<>>
    BY <1>0, ConcatEmptySeq
  <2>4. JoinLines(<<>>, e, TRUE) = <<>>
    BY JoinNone
  <2>5. CutsInto(u, <<>>, <<>>, e)
    BY <1>0, <2>1, <2>2, <2>3, <2>4, Zenon DEF CutsInto
  <2> QED
    BY <2>5
<1>2. ASSUME NEW u \in Seq(Chars), NEW a \in Seq(Chars), NEW c \in Chars, u = Append(a, c),
             NEW ls, NEW y, CutsInto(a, ls, y, e)
      PROVE  \E ls2, y2 : CutsInto(u, ls2, y2, e)
  <2>1. /\ ls \in Seq(Seq(Chars)) /\ y \in Seq(Chars)
        /\ SplitAtLF(a) = Append(ls, y) /\ a = JoinLines(ls, e, TRUE) \o y
    BY <1>2 DEF CutsInto
  <2>2. SplitAtLF(u) = WithNext(Append(ls, y), c)
    BY <1>2, <2>1, SplitAppend
  <2>3. PICK j : j = JoinLines(ls, e, TRUE)
    OBVIOUS
  <2>4. JoinsOn(ls, y, e, Chars)
    BY <1>0, <2>1, JoinAppend
  <2>5. j \in Seq(Chars) /\ JoinLines(Append(ls, y), e, TRUE) = j \o (y \o e) /\ a = j \o y
    BY <2>1, <2>3, <2>4 DEF JoinsOn
  <2>6. CASE c = "LF"
    <3>1. PICK ls2 : ls2 = Append(ls, y)
      OBVIOUS
    <3>2. ls2 \in Seq(Seq(Chars))
      BY <2>1, <3>1, AppendProperties
    <3>3. SplitAtLF(u) = Append(ls2, <<>>)
      BY <2>2, <2>6, <3>1, NextLF, Zenon
    <3>4. j \o (y \o e) = a \o e
      <4>1. Regroups(j, y, e)
        BY <1>0, <2>1, <2>5, Regrouped
      <4> QED
        BY <2>5, <4>1 DEF Regroups
    <3>5. a \o e = u
      <4>1. Append(a, c) = a \o <<c>>
        BY AppendIsConcat
      <4> QED
        BY <1>2, <2>6, <4>1
    <3>6. u \o <<>> = u
      BY <1>2, ConcatEmptySeq
    <3>7. u = JoinLines(ls2, e, TRUE) \o <<>>
      BY <2>5, <3>1, <3>4, <3>5, <3>6, Zenon
    <3>8. CutsInto(u, ls2, <<>>, e)
      BY <1>0, <3>2, <3>3, <3>7, Zenon DEF CutsInto
    <3> QED
      BY <3>8
  <2>7. CASE c # "LF"
    <3>1. PICK y2 : y2 = Append(y, c)
      OBVIOUS
    <3>2. y2 \in Seq(Chars)
      BY <1>2, <2>1, <3>1, AppendProperties
    <3>3. SplitAtLF(u) = Append(ls, y2)
      <4>1. ls \in Seq(Seq(Chars)) /\ y \in Seq(Chars)
        BY <2>1
      <4>2. WithNext(Append(ls, y), c) = Append(ls, Append(y, c))
        BY <1>2, <2>7, <4>1, NextOther
      <4> QED
        BY <2>2, <3>1, <4>2, Zenon
    <3>4. u = j \o y2
      <4>1. j \o Append(y, c) = Append(j \o y, c)
        BY <1>2, <2>1, <2>5, ConcatAppend
      <4> QED
        BY <1>2, <2>5, <3>1, <4>1, Zenon
    <3>5. CutsInto(u, ls, y2, e)
      BY <2>1, <2>3, <3>2, <3>3, <3>4, Zenon DEF CutsInto
    <3> QED
      BY <3>5
  <2> QED
    BY <2>6, <2>7
<1>3. 0 \in Good
  BY <1>1
<1>4. ASSUME NEW k \in Nat, k \in Good
      PROVE  k + 1 \in Good
  <2> SUFFICES ASSUME NEW u \in Seq(Chars), Len(u) = k + 1
               PROVE  \E ls, y : CutsInto(u, ls, y, e)
    OBVIOUS
  <2>1. PICK a, c : IsAppended(u, a, c, Chars)
    <3>1. Len(u) # 0
      OBVIOUS
    <3> QED
      BY <3>1, LastApart
  <2>2. a \in Seq(Chars) /\ c \in Chars /\ u = Append(a, c) /\ Len(a) = k
    BY <2>1 DEF IsAppended
  <2>3. PICK ls, y : CutsInto(a, ls, y, e)
    BY <1>4, <2>2
  <2> QED
    BY <1>2, <2>2, <2>3
<1> HIDE DEF Good
<1>5. Len(t) \in Good
  <2>1. Nat \subseteq Good
    BY <1>3, <1>4, SetInduction
  <2> QED
    BY <2>1
<1> QED
  BY <1>5 DEF Good

\* The lines of the content, each with an LF, are the content with an LF at its end.
LEMMA ContentJoins ==
  ASSUME NEW c \in Seq(Chars), NEW e, e = <<"LF">>
  PROVE  JoinLines(ContentToLines(c), e, TRUE) = IF Terminated(c) THEN c ELSE Append(c, "LF")
<1>0. "LF" \in Chars /\ e \in Seq(Chars)
  <2>1. "LF" \in Chars
    BY DEF Chars
  <2> QED
    BY <2>1
<1>1. ASSUME NEW u \in Seq(Chars)
      PROVE  JoinLines(SplitAtLF(u), e, TRUE) = Append(u, "LF")
  <2>1. PICK ls, y : CutsInto(u, ls, y, e)
    BY <1>1, Cut
  <2>2. /\ ls \in Seq(Seq(Chars)) /\ y \in Seq(Chars)
        /\ SplitAtLF(u) = Append(ls, y) /\ u = JoinLines(ls, e, TRUE) \o y
    BY <2>1 DEF CutsInto
  <2>3. PICK j : j = JoinLines(ls, e, TRUE)
    OBVIOUS
  <2>4. JoinsOn(ls, y, e, Chars)
    BY <1>0, <2>2, JoinAppend
  <2>5. j \in Seq(Chars) /\ JoinLines(Append(ls, y), e, TRUE) = j \o (y \o e) /\ u = j \o y
    BY <2>2, <2>3, <2>4 DEF JoinsOn
  <2>6. j \o (y \o e) = u \o e
    <3>1. Regroups(j, y, e)
      BY <1>0, <2>2, <2>5, Regrouped
    <3> QED
      BY <2>5, <3>1 DEF Regroups
  <2>7. u \o e = Append(u, "LF")
    BY <1>0, <1>1, AppendIsConcat
  <2> QED
    BY <2>2, <2>5, <2>6, <2>7, Zenon
<1>2. CASE Terminated(c)
  <2>1. c # <<>> /\ Last(c) = "LF"
    BY <1>2 DEF Terminated
  <2>2. PICK a, x : IsAppended(c, a, x, Chars)
    <3>1. Len(c) # 0
      BY <2>1, EmptySeq
    <3> QED
      BY <3>1, LastApart
  <2>3. a \in Seq(Chars) /\ x \in Chars /\ c = Append(a, x)
    BY <2>2 DEF IsAppended
  <2>4. Front(c) = a /\ x = "LF"
    BY <2>1, <2>3, Ends
  <2>5. ContentToLines(c) = SplitAtLF(a)
    BY <1>2, <2>4, Zenon DEF ContentToLines
  <2> QED
    BY <1>1, <1>2, <2>3, <2>4, <2>5, Zenon
<1>3. CASE ~Terminated(c)
  <2>1. ContentToLines(c) = SplitAtLF(c)
    BY <1>3, Zenon DEF ContentToLines
  <2> QED
    BY <1>1, <1>3, <2>1, Zenon
<1> QED
  BY <1>2, <1>3

\* The ending of a file, with the CR apart.
LEMMA EndingParts ==
  ASSUME NEW t
  PROVE  \E cr \in Endings : Ending(t) = cr \o <<"LF">>
<1>1. CASE HasCRLF(t)
  <2>1. Ending(t) = <<"CR">> \o <<"LF">>
    BY <1>1, CrThenLf, Zenon DEF Ending
  <2> QED
    BY <2>1 DEF Endings
<1>2. CASE ~HasCRLF(t)
  <2>1. <<"LF">> \in Seq(Chars)
    BY DEF Chars
  <2>2. Ending(t) = <<>> \o <<"LF">>
    BY <1>2, <2>1, ConcatEmptySeq, Zenon DEF Ending
  <2> QED
    BY <2>2 DEF Endings
<1> QED
  BY <1>1, <1>2

IsPart(u, s, m, n, S) ==
  /\ u \in Seq(S) /\ Len(u) = IF m <= n THEN n - m + 1 ELSE 0
  /\ \A i \in 1..(n - m + 1) : u[i] = s[m + i - 1]

LEMMA PartOf ==
  ASSUME NEW S, NEW s \in Seq(S), NEW m \in Nat \ {0}, NEW n \in 0..Len(s), NEW u, u = SubSeq(s, m, n)
  PROVE  IsPart(u, s, m, n, S)
BY Part DEF IsPart

\* The part in the middle.
InMiddle(all, a, b, c, T) ==
  /\ all \in Seq(T) /\ Len(all) = Len(a) + Len(b) + Len(c)
  /\ SubSeq(all, Len(a) + 1, Len(a) + Len(b)) = b

LEMMA Middle ==
  ASSUME NEW T, NEW a \in Seq(T), NEW b \in Seq(T), NEW c \in Seq(T),
         NEW all, all = a \o b \o c
  PROVE  InMiddle(all, a, b, c, T)
<1> PICK j \in Nat, k \in Nat, l \in Nat : j = Len(a) /\ k = Len(b) /\ l = Len(c)
  OBVIOUS
<1> PICK m, n, f : m = j + k /\ n = j + k + l /\ f = j + 1
  OBVIOUS
<1> PICK ab : ab = a \o b
  OBVIOUS
<1>1. /\ ab \in Seq(T) /\ Len(ab) = m
      /\ \A i \in 1..m : ab[i] = IF i <= j THEN a[i] ELSE b[i - j]
  BY ConcatProperties
<1>2. all \in Seq(T) /\ Len(all) = n /\ \A i \in 1..n : all[i] = IF i <= m THEN ab[i] ELSE c[i - m]
  BY <1>1, ConcatProperties
<1>3. PICK s : s = SubSeq(all, f, m)
  OBVIOUS
<1>4. s \in Seq(T) /\ Len(s) = k /\ \A i \in 1..k : s[i] = all[f + i - 1]
  <2>1. f \in Nat \ {0} /\ m \in 0..Len(all) /\ m - f + 1 = k /\ (f <= m \/ k = 0)
    BY <1>2
  <2>2. /\ s \in Seq(T) /\ Len(s) = IF f <= m THEN m - f + 1 ELSE 0
        /\ \A i \in 1..(m - f + 1) : s[i] = all[f + i - 1]
    <3>1. all \in Seq(T) /\ f \in Nat \ {0} /\ m \in 0..Len(all)
      BY <1>2, <2>1
    <3>2. IsPart(s, all, f, m, T)
      BY <1>3, <3>1, PartOf
    <3> QED
      BY <3>2, Zenon DEF IsPart
  <2> QED
    BY <2>1, <2>2
<1>5. ASSUME NEW i \in 1..k
      PROVE  s[i] = b[i]
  <2>1. PICK h : h = f + i - 1
    OBVIOUS
  <2>2. h \in 1..n /\ h \in 1..m /\ h <= m /\ ~(h <= j) /\ h - j = i
    BY <2>1
  <2>3. s[i] = all[h] /\ all[h] = ab[h] /\ ab[h] = b[h - j]
    BY <1>1, <1>2, <1>4, <2>1, <2>2
  <2> QED
    BY <2>2, <2>3
<1>6. s = b
  BY <1>4, <1>5, SeqEqual
<1> QED
  BY <1>2, <1>3, <1>6 DEF InMiddle

-----------------------------------------------------------------------------
(* An edit of lines changes no other line *)

\* Who reads what an edit wrote finds the lines before, those that were given, those after.
ExactLines(kind, t, first, last, content, written) ==
  LET lines == SplitLines(t)
      after == SplitLines(written)
      given == SubSeq(after, first, Len(after) - (Len(lines) - last))
  IN  /\ after = SubSeq(lines, 1, first - 1) \o given \o SubSeq(lines, last + 1, Len(lines))
      /\ JoinLines(given, <<"LF">>, TRUE)
           = IF kind = "delete" THEN <<>>
             ELSE IF Terminated(content) THEN content ELSE Append(content, "LF")

\* The end of the last line can be told.
EndTold(t, written) == Terminated(t) \/ (written # <<>> /\ ~Terminated(written))

LEMMA LinesAreExact ==
  ASSUME NEW t \in Seq(Chars), NEW content \in Seq(Chars), NEW kind,
         NEW first \in Nat \ {0}, NEW last \in Nat, first <= last + 1,
         NEW e, e = EditLines(kind, t, first, last, content), e.ok, EndTold(t, e.text)
  PROVE  ExactLines(kind, t, first, last, content, e.text)
<1> PICK lines, L : lines = SplitLines(t) /\ L = Seq(Plain)
  OBVIOUS
<1> PICK n : n = Len(lines)
  OBVIOUS
<1>1. ~(~ValidEndings(t) \/ last > n \/ HasCR(content))
  <2>1. ~ValidEndings(t) \/ last > n \/ HasCR(content) => e = Failed
    BY Zenon DEF EditLines
  <2> QED
    BY <2>1 DEF Failed
<1>2. lines \in Seq(L) /\ ContentToLines(content) \in Seq(L)
  BY <1>1, LinesOf
<1>3. n \in Nat /\ last <= n
  BY <1>1, <1>2
<1>4. PICK a, b, c : /\ a = SubSeq(lines, 1, first - 1)
                     /\ b = (IF kind = "delete" THEN <<>> ELSE ContentToLines(content))
                     /\ c = SubSeq(lines, last + 1, n)
  OBVIOUS
<1>5. a \in Seq(L) /\ Len(a) = first - 1
  <2>1. PICK m : m = first - 1
    OBVIOUS
  <2>2. m \in 0..Len(lines) /\ 1 \in Nat \ {0} /\ m - 1 + 1 = m /\ (1 <= m \/ m = 0)
    BY <1>3, <2>1
  <2>3. a \in Seq(L) /\ Len(a) = IF 1 <= m THEN m - 1 + 1 ELSE 0
    BY <1>2, <1>4, <2>1, <2>2, Part
  <2> QED
    BY <2>1, <2>2, <2>3
<1>6. c \in Seq(L) /\ Len(c) = n - last
  <2>1. PICK m : m = last + 1
    OBVIOUS
  <2>2. m \in Nat \ {0} /\ n \in 0..Len(lines) /\ n - m + 1 = n - last /\ (m <= n \/ n - last = 0)
    BY <1>3, <2>1
  <2>3. c \in Seq(L) /\ Len(c) = IF m <= n THEN n - m + 1 ELSE 0
    BY <1>2, <1>4, <2>1, <2>2, Part
  <2> QED
    BY <2>2, <2>3
<1>7. b \in Seq(L)
  BY <1>2, <1>4, EmptySeq
<1>8. PICK all : all = a \o b \o c
  OBVIOUS
<1>9. /\ all \in Seq(L) /\ Len(all) = Len(a) + Len(b) + Len(c)
      /\ SubSeq(all, Len(a) + 1, Len(a) + Len(b)) = b
  <2>1. a \in Seq(L) /\ b \in Seq(L) /\ c \in Seq(L)
    BY <1>5, <1>6, <1>7
  <2>2. InMiddle(all, a, b, c, L)
    BY <1>8, <2>1, Middle
  <2> QED
    BY <2>2 DEF InMiddle
<1>10. PICK written : written = JoinLines(all, Ending(t), Terminated(t))
  OBVIOUS
<1>11. e = Text(written)
  BY <1>1, <1>4, <1>8, <1>10, Zenon DEF EditLines
<1>12. e.text = written
  BY <1>11 DEF Text
<1>13. SplitLines(written) = all
  <2>1. PICK cr \in Endings : Ending(t) = cr \o <<"LF">>
    BY EndingParts
  <2>2. PICK ending, trailing : ending = Ending(t) /\ trailing = Terminated(t)
    OBVIOUS
  <2>3. trailing \in BOOLEAN
    BY <2>2 DEF Terminated
  <2>4. trailing \/ (written # <<>> /\ ~Terminated(written))
    BY <1>12, <2>2, Zenon DEF EndTold
  <2>5. all \in Seq(Seq(Plain))
    BY <1>9
  <2>6. written = JoinLines(all, ending, trailing)
    BY <1>10, <2>2
  <2> QED
    BY <2>1, <2>2, <2>3, <2>4, <2>5, <2>6, LinesOfJoin
<1>14. SubSeq(all, first, Len(all) - (n - last)) = b
  <2>1. first = Len(a) + 1 /\ Len(b) \in Nat
    BY <1>5, <1>7
  <2>2. Len(all) - (n - last) = Len(a) + Len(b)
    BY <1>3, <1>5, <1>6, <1>9, <2>1
  <2> QED
    BY <1>9, <2>1, <2>2
<1>15. JoinLines(b, <<"LF">>, TRUE)
         = IF kind = "delete" THEN <<>>
           ELSE IF Terminated(content) THEN content ELSE Append(content, "LF")
  <2>1. CASE kind = "delete"
    <3>1. JoinLines(<<>>, <<"LF">>, TRUE) = <<>>
      BY JoinNone
    <3> QED
      BY <1>4, <2>1, <3>1, Zenon
  <2>2. CASE kind # "delete"
    <3>1. JoinLines(ContentToLines(content), <<"LF">>, TRUE)
            = IF Terminated(content) THEN content ELSE Append(content, "LF")
      BY ContentJoins
    <3> QED
      BY <1>4, <2>2, <3>1, Zenon
  <2> QED
    BY <2>1, <2>2
<1> QED
  BY <1>4, <1>8, <1>12, <1>13, <1>14, <1>15, Zenon DEF ExactLines

\* Whatever the edit of lines, the lines it does not name stay and the given ones are there.
EditIsExact(o, t, written) ==
  LET last == IF o.kind = "insert" THEN o.range[1] - 1 ELSE o.range[2]
  IN  ExactLines(o.kind, t, o.range[1], last, o.content, written)

LEMMA EditsAreExact ==
  ASSUME NEW t \in Seq(Chars), NEW o, OpOK(o), o.kind \in LineKinds,
         NEW written, IsEdit(o, t, written), EndTold(t, written)
  PROVE  EditIsExact(o, t, written)
<1>1. Edit(o, t).ok /\ written = Edit(o, t).text
  BY DEF IsEdit
<1>2. ASSUME NEW kind, kind = o.kind, NEW first, NEW last, NEW content, NEW e,
             first \in Nat \ {0}, last \in Nat, first <= last + 1, content \in Seq(Chars),
             e = EditLines(kind, t, first, last, content), Edit(o, t) = e
      PROVE  ExactLines(kind, t, first, last, content, written)
  <2>1. e.ok /\ written = e.text /\ EndTold(t, e.text)
    BY <1>1, <1>2
  <2>2. ExactLines(kind, t, first, last, content, e.text)
    BY <1>2, <2>1, LinesAreExact
  <2> QED
    BY <2>1, <2>2
<1> PICK first, end : first = o.range[1] /\ end = o.range[2]
  OBVIOUS
<1>3. first \in Nat \ {0} /\ end \in Nat /\ first <= end + 1
  BY DEF OpOK, RangeOK
<1>4. CASE o.kind = "replace"
  <2>1. o.content \in Seq(Chars)
    BY <1>4 DEF OpOK
  <2>2. Edit(o, t) = EditLines("replace", t, first, end, o.content)
    BY <1>4, Zenon DEF Edit, ReplaceRange
  <2>3. ExactLines(o.kind, t, first, end, o.content, written)
    BY <1>2, <1>3, <1>4, <2>1, <2>2
  <2>4. o.kind # "insert"
    BY <1>4
  <2> QED
    BY <2>3, <2>4, Zenon DEF EditIsExact
<1>5. CASE o.kind = "insert"
  <2>1. o.content \in Seq(Chars)
    BY <1>5 DEF OpOK
  <2>2. PICK last : last = first - 1
    OBVIOUS
  <2>3. last \in Nat /\ first <= last + 1
    BY <1>3, <2>2
  <2>4. Edit(o, t) = EditLines("insert", t, first, last, o.content)
    <3>1. o.kind # "replace"
      BY <1>5
    <3> QED
      BY <1>5, <2>2, <3>1, Zenon DEF Edit, InsertBefore
  <2>5. ExactLines(o.kind, t, first, last, o.content, written)
    BY <1>2, <1>3, <1>5, <2>1, <2>3, <2>4
  <2> QED
    BY <1>5, <2>2, <2>5, Zenon DEF EditIsExact
<1>6. CASE o.kind = "delete"
  <2>1. <<>> \in Seq(Chars)
    BY EmptySeq
  <2>2. Edit(o, t) = EditLines("delete", t, first, end, <<>>)
    <3>1. o.kind # "replace" /\ o.kind # "insert"
      BY <1>6
    <3> QED
      BY <1>6, <3>1, Zenon DEF Edit, DeleteLines
  <2>3. ExactLines(o.kind, t, first, end, <<>>, written)
    BY <1>2, <1>3, <1>6, <2>1, <2>2
  <2>4. ExactLines(o.kind, t, first, end, o.content, written)
    BY <1>6, <2>3, Zenon DEF ExactLines
  <2>5. o.kind # "insert"
    BY <1>6
  <2> QED
    BY <2>4, <2>5, Zenon DEF EditIsExact
<1> QED
  BY <1>4, <1>5, <1>6 DEF LineKinds

\* After an edit of lines the file has the lines before the range, the lines that were
\* given and the lines after it, whatever the file, the range and the content are: but
\* for an empty last line without an end, which cannot be told from none.
THEOREM LineEditIsExactCorrect == Spec => []LineEditIsExact
<1>1. EndingsInv => LineEditIsExact
  <2> SUFFICES ASSUME EndingsInv, NEW p \in Procs, pc[p] = "truncate",
                      op[p].kind \in LineKinds, EndTold(seen[p], new[p])
               PROVE  EditIsExact(op[p], seen[p], new[p])
    BY Zenon DEF LineEditIsExact, EditIsExact, ExactLines, EndTold, LineKinds
  <2>1. OwnOK(op[p], pc[p], seen[p], new[p])
    BY DEF EndingsInv
  <2>2. seen[p] \in Seq(Chars) /\ OpOK(op[p]) /\ IsEdit(op[p], seen[p], new[p])
    BY <2>1 DEF OwnOK, LineKinds
  <2> QED
    BY <2>2, EditsAreExact
<1> QED
  BY <1>1, EndingsInvCorrect, PTL
=============================================================================
