---------------------------- MODULE InstallProofs ----------------------------
(***************************************************************************)
(* Theorems about `8v upgrade` for any number of processes and releases,   *)
(* and about `8v init` for any project, any answers and any number of      *)
(* runs, each of them cut short anywhere or not.                           *)
(***************************************************************************)
EXTENDS Install, SequenceTheorems, WellFoundedInduction, TLAPS

-----------------------------------------------------------------------------
(* Upgrade *)

FileRecord == [content : Nat, x : BOOLEAN, there : BOOLEAN]
ProcRecord ==
  [step : {"idle"} \cup U!Steps \cup U!Ends, own : Nat, target : Nat, got : Nat,
   left : SUBSET Upgraders, force : BOOLEAN, pre : BOOLEAN]

UpgradeTypes ==
  /\ exe \in FileRecord /\ latest \in Versions
  /\ temp \in [Upgraders -> FileRecord]
  /\ proc \in [Upgraders -> ProcRecord]

Replacing == {"create", "fill", "mode", "rename"}
Decided == {"download", "verify"} \cup Replacing

\* What process q knows and has made of its temp file t at each of its steps: past
\* the checksum it has the release it wanted, which is none older than itself,
\* and a temp file that is still there is as far as q has brought it.  Only q
\* writes this file; the others may take it away.
Along(q, t) ==
  /\ q.step \in {"decide"} \cup Decided => q.target \in Versions
  /\ q.step \in Decided => q.own <= q.target
  /\ q.step \in Replacing => q.got = q.target
  /\ q.step \in {"mode", "rename"} /\ t.there => t.content = q.target
  /\ q.step = "rename" /\ t.there => t.x

UpgradeInv ==
  /\ exe.there /\ exe.x /\ exe.content \in Versions
  /\ \A p \in Upgraders : Along(proc[p], temp[p])

\* Every step is one of the named actions, or none of `8v upgrade`.
LEMMA UpgradeCases ==
  ASSUME [InstallNext]_AllVars
  PROVE  \/ \E p \in Upgraders :
              \/ U!Start(p) \/ U!FetchLatestVersion(p) \/ U!Decide(p) \/ U!FetchBinary(p)
              \/ U!VerifyChecksum(p) \/ U!CreateTemp(p) \/ U!FillTemp(p)
              \/ U!CopyPermissions(p) \/ U!Rename(p) \/ U!Cleanup(p) \/ U!Fails(p)
              \/ U!Dies(p)
         \/ U!Publish
         \/ UNCHANGED <<exe, temp, latest, proc>>
  BY DEF InstallNext, AllVars, U!Next

\* The types of what one process has.
LEMMA TypesOfOne ==
  ASSUME UpgradeTypes, NEW p \in Upgraders
  PROVE  /\ proc[p] \in ProcRecord /\ temp[p] \in FileRecord
         /\ exe \in FileRecord /\ exe.content \in Nat /\ latest \in Versions /\ latest \in Nat
  BY UpgradeAssumption DEF UpgradeTypes, FileRecord

\* What a step does to the record of a process.
LEMMA OneProcess ==
  ASSUME UpgradeTypes, NEW p \in Upgraders, NEW r \in ProcRecord, proc' = [proc EXCEPT ![p] = r]
  PROVE  /\ proc' \in [Upgraders -> ProcRecord] /\ proc'[p] = r
         /\ \A q \in Upgraders \ {p} : proc'[q] = proc[q]
  BY DEF UpgradeTypes

LEMMA GotoShape ==
  ASSUME UpgradeTypes, NEW p \in Upgraders,
         NEW step \in {"idle"} \cup U!Steps \cup U!Ends, U!Goto(p, step)
  PROVE  /\ proc' \in [Upgraders -> ProcRecord]
         /\ \A q \in Upgraders \ {p} : proc'[q] = proc[q]
         /\ proc'[p].step = step /\ proc'[p].own = proc[p].own
         /\ proc'[p].target = proc[p].target /\ proc'[p].got = proc[p].got
<1> DEFINE r == [proc[p] EXCEPT !.step = step]
<1>1. proc[p] \in ProcRecord
  BY DEF UpgradeTypes
<1>2. /\ r \in ProcRecord /\ r.step = step /\ r.own = proc[p].own
      /\ r.target = proc[p].target /\ r.got = proc[p].got
  BY <1>1 DEF ProcRecord
<1>3. proc' = [proc EXCEPT ![p] = r]
  BY DEF U!Goto
<1> HIDE DEF r
<1> QED
  BY <1>2, <1>3, OneProcess

\* A step of p that leaves the binary and the other processes' files alone, but for
\* taking some away, keeps the invariant if it keeps it for p.
LEMMA StepKeeps ==
  ASSUME UpgradeTypes, UpgradeInv, NEW p \in Upgraders,
         proc' \in [Upgraders -> ProcRecord],
         \A q \in Upgraders \ {p} : proc'[q] = proc[q],
         temp' \in [Upgraders -> FileRecord],
         \A q \in Upgraders \ {p} : temp'[q] = temp[q] \/ ~temp'[q].there,
         UNCHANGED <<exe, latest>>, Along(proc'[p], temp'[p])
  PROVE  UpgradeTypes' /\ UpgradeInv'
<1>1. ASSUME NEW q \in Upgraders \ {p} PROVE Along(proc'[q], temp'[q])
  BY <1>1 DEF UpgradeInv, Along
<1> QED
  BY <1>1 DEF UpgradeTypes, UpgradeInv

LEMMA UpgradeInvCorrect == InstallSpec => [](UpgradeTypes /\ UpgradeInv)
<1> USE UpgradeAssumption DEF U!Steps, U!Ends, U!Damaged
<1>1. InstallInit => UpgradeTypes /\ UpgradeInv
  BY DEF InstallInit, U!Init, U!Idle, U!Removed, U!File, UpgradeTypes, UpgradeInv,
         FileRecord, ProcRecord, Along, Decided, Replacing
<1>2. UpgradeTypes /\ UpgradeInv /\ [InstallNext]_AllVars => (UpgradeTypes /\ UpgradeInv)'
  <2> SUFFICES ASSUME UpgradeTypes, UpgradeInv, [InstallNext]_AllVars
               PROVE  UpgradeTypes' /\ UpgradeInv'
    OBVIOUS
  <2>1. ASSUME NEW p \in Upgraders, U!Start(p) PROVE UpgradeTypes' /\ UpgradeInv'
    <3>1. PICK force \in BOOLEAN, pre \in BOOLEAN :
            proc' = [proc EXCEPT ![p] = [proc[p] EXCEPT !.step = "latest", !.own = exe.content,
                                                        !.force = force, !.pre = pre]]
      BY <2>1 DEF U!Start
    <3>0. proc[p] \in ProcRecord /\ exe.content \in Nat /\ latest \in Versions /\ latest \in Nat
      BY TypesOfOne
    <3> DEFINE r == [proc[p] EXCEPT !.step = "latest", !.own = exe.content,
                                    !.force = force, !.pre = pre]
    <3>2. r \in ProcRecord /\ r.step = "latest"
      BY <3>0 DEF ProcRecord, FileRecord
    <3> HIDE DEF r
    <3>3. /\ proc' \in [Upgraders -> ProcRecord] /\ proc'[p].step = "latest"
          /\ \A q \in Upgraders \ {p} : proc'[q] = proc[q]
      BY <3>1, <3>2, OneProcess DEF r
    <3>4. UNCHANGED <<exe, temp, latest>>
      BY <2>1 DEF U!Start
    <3>5. Along(proc'[p], temp[p])
      BY <3>3, <3>4 DEF UpgradeInv, Along, Decided, Replacing
    <3> QED
      BY <3>3, <3>4, <3>5, StepKeeps DEF UpgradeTypes
  <2>2. ASSUME NEW p \in Upgraders, U!FetchLatestVersion(p)
        PROVE  UpgradeTypes' /\ UpgradeInv'
    <3>0. proc[p] \in ProcRecord /\ exe.content \in Nat /\ latest \in Versions /\ latest \in Nat
      BY TypesOfOne
    <3> DEFINE r == [proc[p] EXCEPT !.step = "decide", !.target = latest]
    <3>1. /\ r \in ProcRecord /\ r.step = "decide" /\ r.target = latest
          /\ latest \in Versions
      BY <3>0 DEF ProcRecord, FileRecord
    <3>2. proc' = [proc EXCEPT ![p] = r] /\ UNCHANGED <<exe, temp, latest>>
      BY <2>2 DEF U!FetchLatestVersion
    <3> HIDE DEF r
    <3>3. /\ proc' \in [Upgraders -> ProcRecord] /\ proc'[p].step = "decide"
          /\ proc'[p].target = latest
          /\ \A q \in Upgraders \ {p} : proc'[q] = proc[q]
      BY <3>1, <3>2, OneProcess
    <3>5. Along(proc'[p], temp[p])
      BY <3>1, <3>3 DEF Along, Decided, Replacing
    <3> QED
      BY <3>2, <3>3, <3>5, StepKeeps DEF UpgradeTypes
  <2>3. ASSUME NEW p \in Upgraders, U!Decide(p) PROVE UpgradeTypes' /\ UpgradeInv'
    <3>1. PICK step \in {"current", "error", "download"} :
            /\ U!Goto(p, step)
            /\ step = "download" => ~(proc[p].target < proc[p].own)
      BY <2>3 DEF U!Decide
    <3>2. /\ proc[p].step = "decide" /\ UNCHANGED <<exe, temp, latest>>
          /\ proc[p].own \in Nat /\ proc[p].target \in Nat
      BY <2>3 DEF U!Decide, UpgradeTypes, ProcRecord
    <3>5. Along(proc'[p], temp[p])
      BY <3>1, <3>2, GotoShape DEF UpgradeInv, Along, Decided, Replacing
    <3> QED
      BY <3>1, <3>2, <3>5, GotoShape, StepKeeps DEF UpgradeTypes
  <2>4. ASSUME NEW p \in Upgraders, U!FetchBinary(p) PROVE UpgradeTypes' /\ UpgradeInv'
    <3>1. PICK content \in {proc[p].target, 0} :
            proc' = [proc EXCEPT ![p] = [proc[p] EXCEPT !.step = "verify", !.got = content]]
      BY <2>4 DEF U!FetchBinary
    <3>0. proc[p] \in ProcRecord /\ exe.content \in Nat /\ latest \in Versions /\ latest \in Nat
      BY TypesOfOne
    <3> DEFINE r == [proc[p] EXCEPT !.step = "verify", !.got = content]
    <3>6. content \in Nat
      BY <3>0 DEF ProcRecord
    <3>2. /\ r \in ProcRecord /\ r.step = "verify" /\ r.own = proc[p].own
          /\ r.target = proc[p].target
      BY <3>0, <3>6 DEF ProcRecord
    <3> HIDE DEF r
    <3>3. /\ proc' \in [Upgraders -> ProcRecord] /\ proc'[p].step = "verify"
          /\ proc'[p].own = proc[p].own /\ proc'[p].target = proc[p].target
          /\ \A q \in Upgraders \ {p} : proc'[q] = proc[q]
      BY <3>1, <3>2, OneProcess DEF r
    <3>4. proc[p].step = "download" /\ UNCHANGED <<exe, temp, latest>>
      BY <2>4 DEF U!FetchBinary
    <3>5. Along(proc'[p], temp[p])
      BY <3>3, <3>4 DEF UpgradeInv, Along, Decided, Replacing
    <3> QED
      BY <3>3, <3>4, <3>5, StepKeeps DEF UpgradeTypes
  <2>5. ASSUME NEW p \in Upgraders, U!VerifyChecksum(p) PROVE UpgradeTypes' /\ UpgradeInv'
    <3>1. PICK step \in {"create", "error"} :
            U!Goto(p, step) /\ (step = "create" => proc[p].got = proc[p].target)
      BY <2>5 DEF U!VerifyChecksum
    <3>2. proc[p].step = "verify" /\ UNCHANGED <<exe, temp, latest>>
      BY <2>5 DEF U!VerifyChecksum
    <3>5. Along(proc'[p], temp[p])
      BY <3>1, <3>2, GotoShape DEF UpgradeInv, Along, Decided, Replacing
    <3> QED
      BY <3>1, <3>2, <3>5, GotoShape, StepKeeps DEF UpgradeTypes
  <2>6. ASSUME NEW p \in Upgraders, U!CreateTemp(p) PROVE UpgradeTypes' /\ UpgradeInv'
    <3>1. /\ U!Goto(p, "fill") /\ proc[p].step = "create" /\ UNCHANGED <<exe, latest>>
          /\ temp' = [temp EXCEPT ![p] = U!File(0, FALSE)]
      BY <2>6 DEF U!CreateTemp
    <3>2. U!File(0, FALSE) \in FileRecord
      BY DEF U!File, FileRecord
    <3>3. /\ temp' \in [Upgraders -> FileRecord]
          /\ \A q \in Upgraders \ {p} : temp'[q] = temp[q]
      BY <3>1, <3>2 DEF UpgradeTypes
    <3>4. /\ proc'[p].step = "fill" /\ proc'[p].own = proc[p].own
          /\ proc'[p].target = proc[p].target /\ proc'[p].got = proc[p].got
      BY <3>1, GotoShape
    <3>5. Along(proc'[p], temp'[p])
      BY <3>1, <3>4 DEF UpgradeInv, Along, Decided, Replacing
    <3> QED
      BY <3>1, <3>3, <3>5, GotoShape, StepKeeps
  <2>7. ASSUME NEW p \in Upgraders, U!FillTemp(p) PROVE UpgradeTypes' /\ UpgradeInv'
    <3> DEFINE t == [temp[p] EXCEPT !.content = IF temp[p].there THEN proc[p].got ELSE 0]
    <3>0. proc[p] \in ProcRecord /\ temp[p] \in FileRecord
      BY TypesOfOne
    <3>1. /\ U!Goto(p, "mode") /\ proc[p].step = "fill" /\ UNCHANGED <<exe, latest>>
          /\ temp' = [temp EXCEPT ![p] = t]
      BY <2>7 DEF U!FillTemp
    <3>2. t \in FileRecord /\ (t.there => t.content = proc[p].got)
      BY <3>0 DEF FileRecord, ProcRecord
    <3> HIDE DEF t
    <3>3. /\ temp' \in [Upgraders -> FileRecord] /\ temp'[p] = t
          /\ \A q \in Upgraders \ {p} : temp'[q] = temp[q]
      BY <3>1, <3>2 DEF UpgradeTypes
    <3>4. Along(proc'[p], temp'[p])
      BY <3>1, <3>2, <3>3, GotoShape DEF UpgradeInv, Along, Decided, Replacing
    <3> QED
      BY <3>1, <3>3, <3>4, GotoShape, StepKeeps
  <2>8. ASSUME NEW p \in Upgraders, U!CopyPermissions(p) PROVE UpgradeTypes' /\ UpgradeInv'
    <3> DEFINE t == [temp[p] EXCEPT !.x = exe.x]
    <3>0. temp[p] \in FileRecord /\ exe \in FileRecord /\ exe.x
      BY TypesOfOne DEF UpgradeInv
    <3>1. CASE temp[p].there
      <4>1. /\ U!Goto(p, "rename") /\ proc[p].step = "mode" /\ UNCHANGED <<exe, latest>>
            /\ temp' = [temp EXCEPT ![p] = t]
        BY <2>8, <3>1 DEF U!CopyPermissions
      <4>2. t \in FileRecord /\ t.x /\ t.content = temp[p].content
        BY <3>0 DEF FileRecord
      <4> HIDE DEF t
      <4>3. /\ temp' \in [Upgraders -> FileRecord] /\ temp'[p] = t
            /\ \A q \in Upgraders \ {p} : temp'[q] = temp[q]
        BY <4>1, <4>2 DEF UpgradeTypes
      <4>4. Along(proc'[p], temp'[p])
        BY <3>1, <4>1, <4>2, <4>3, GotoShape DEF UpgradeInv, Along, Decided, Replacing
      <4> QED
        BY <4>1, <4>3, <4>4, GotoShape, StepKeeps
    <3>2. CASE ~temp[p].there
      <4>1. U!Goto(p, "error") /\ UNCHANGED <<exe, latest, temp>>
        BY <2>8, <3>2 DEF U!CopyPermissions
      <4>2. Along(proc'[p], temp[p])
        BY <4>1, GotoShape DEF Along, Decided, Replacing
      <4> QED
        BY <4>1, <4>2, GotoShape, StepKeeps DEF UpgradeTypes
    <3> QED
      BY <3>1, <3>2
  <2>9. ASSUME NEW p \in Upgraders, U!Rename(p) PROVE UpgradeTypes' /\ UpgradeInv'
    <3>1. CASE temp[p].there
      <4> DEFINE r == [proc[p] EXCEPT !.step = "cleanup",
                                      !.left = {q \in Upgraders : temp'[q].there}]
      <4>0. proc[p] \in ProcRecord /\ temp[p] \in FileRecord /\ latest \in Versions
        BY TypesOfOne
      <4>1. /\ proc[p].step = "rename" /\ exe' = temp[p] /\ UNCHANGED latest
            /\ temp' = [temp EXCEPT ![p] = U!Removed] /\ proc' = [proc EXCEPT ![p] = r]
        BY <2>9, <3>1 DEF U!Rename
      <4>2. r \in ProcRecord /\ r.step = "cleanup" /\ U!Removed \in FileRecord
        BY <4>0 DEF ProcRecord, FileRecord, U!Removed
      <4> HIDE DEF r
      <4>3. /\ proc' \in [Upgraders -> ProcRecord] /\ proc'[p].step = "cleanup"
            /\ \A q \in Upgraders \ {p} : proc'[q] = proc[q]
        BY <4>1, <4>2, OneProcess
      <4>4. /\ temp' \in [Upgraders -> FileRecord]
            /\ \A q \in Upgraders \ {p} : temp'[q] = temp[q]
        BY <4>1, <4>2 DEF UpgradeTypes
      <4>5. /\ exe' \in FileRecord /\ exe'.there /\ exe'.x /\ exe'.content \in Versions
        BY <3>1, <4>0, <4>1 DEF UpgradeInv, Along, Decided, Replacing
      <4>6. \A q \in Upgraders : Along(proc'[q], temp'[q])
        BY <4>3, <4>4 DEF UpgradeInv, Along, Decided, Replacing
      <4> QED
        BY <4>0, <4>1, <4>3, <4>4, <4>5, <4>6 DEF UpgradeTypes, UpgradeInv
    <3>2. CASE ~temp[p].there
      <4>1. U!Goto(p, "error") /\ UNCHANGED <<exe, latest, temp>>
        BY <2>9, <3>2 DEF U!Rename
      <4>2. Along(proc'[p], temp[p])
        BY <4>1, GotoShape DEF Along, Decided, Replacing
      <4> QED
        BY <4>1, <4>2, GotoShape, StepKeeps DEF UpgradeTypes
    <3> QED
      BY <3>1, <3>2
  <2>10. ASSUME NEW p \in Upgraders, U!Cleanup(p) PROVE UpgradeTypes' /\ UpgradeInv'
    <3>1. CASE proc[p].left = {}
      <4>1. U!Goto(p, "upgraded") /\ UNCHANGED <<exe, latest, temp>>
        BY <2>10, <3>1 DEF U!Cleanup
      <4>2. Along(proc'[p], temp[p])
        BY <4>1, GotoShape DEF Along, Decided, Replacing
      <4> QED
        BY <4>1, <4>2, GotoShape, StepKeeps DEF UpgradeTypes
    <3>2. CASE proc[p].left # {}
      <4>1. PICK q \in proc[p].left :
              /\ temp' = [temp EXCEPT ![q] = U!Removed]
              /\ proc' = [proc EXCEPT ![p] = [proc[p] EXCEPT !.left = proc[p].left \ {q}]]
        BY <2>10, <3>2 DEF U!Cleanup
      <4> DEFINE r == [proc[p] EXCEPT !.left = proc[p].left \ {q}]
      <4>2. proc[p] \in ProcRecord /\ proc[p].step = "cleanup" /\ UNCHANGED <<exe, latest>>
        BY <2>10, TypesOfOne DEF U!Cleanup
      <4>3. /\ r \in ProcRecord /\ r.step = "cleanup" /\ q \in Upgraders
            /\ U!Removed \in FileRecord /\ ~U!Removed.there
        BY <4>2 DEF ProcRecord, FileRecord, U!Removed
      <4>4. proc' = [proc EXCEPT ![p] = r]
        BY <4>1
      <4> HIDE DEF r
      <4>5. /\ proc' \in [Upgraders -> ProcRecord] /\ proc'[p].step = "cleanup"
            /\ \A u \in Upgraders \ {p} : proc'[u] = proc[u]
        BY <4>3, <4>4, OneProcess
      <4>6. /\ temp' \in [Upgraders -> FileRecord]
            /\ \A u \in Upgraders \ {p} : temp'[u] = temp[u] \/ ~temp'[u].there
        BY <4>1, <4>3 DEF UpgradeTypes
      <4>7. Along(proc'[p], temp'[p])
        BY <4>5 DEF Along, Decided, Replacing
      <4> QED
        BY <4>2, <4>5, <4>6, <4>7, StepKeeps
    <3> QED
      BY <3>1, <3>2
  <2>11. ASSUME NEW p \in Upgraders, U!Fails(p) PROVE UpgradeTypes' /\ UpgradeInv'
    <3>1. /\ U!Goto(p, "error") /\ UNCHANGED <<exe, latest>>
          /\ temp' = temp \/ temp' = [temp EXCEPT ![p] = U!Removed]
      BY <2>11 DEF U!Fails
    <3>2. U!Removed \in FileRecord
      BY DEF FileRecord, U!Removed
    <3>3. /\ temp' \in [Upgraders -> FileRecord]
          /\ \A q \in Upgraders \ {p} : temp'[q] = temp[q]
      BY <3>1, <3>2 DEF UpgradeTypes
    <3>4. Along(proc'[p], temp'[p])
      BY <3>1, GotoShape DEF Along, Decided, Replacing
    <3> QED
      BY <3>1, <3>3, <3>4, GotoShape, StepKeeps
  <2>12. ASSUME NEW p \in Upgraders, U!Dies(p) PROVE UpgradeTypes' /\ UpgradeInv'
    <3>1. U!Goto(p, "dead") /\ UNCHANGED <<exe, latest, temp>>
      BY <2>12 DEF U!Dies
    <3>2. Along(proc'[p], temp[p])
      BY <3>1, GotoShape DEF Along, Decided, Replacing
    <3> QED
      BY <3>1, <3>2, GotoShape, StepKeeps DEF UpgradeTypes
  <2>13. CASE U!Publish
    BY <2>13 DEF U!Publish, UpgradeTypes, UpgradeInv
  <2>14. CASE UNCHANGED <<exe, temp, latest, proc>>
    BY <2>14 DEF UpgradeTypes, UpgradeInv
  <2> QED
    BY UpgradeCases, <2>1, <2>2, <2>3, <2>4, <2>5, <2>6, <2>7, <2>8, <2>9, <2>10,
       <2>11, <2>12, <2>13, <2>14
<1> QED
  BY <1>1, <1>2, PTL DEF InstallSpec

\* The binary in place is a whole release that can be executed, for any number of
\* upgrades that fail, die, and take each other's temp files away.
THEOREM ExeRunsCorrect == InstallSpec => []ExeRuns
<1>1. UpgradeInv => ExeRuns
  BY UpgradeAssumption DEF UpgradeInv, ExeRuns, U!ExeRuns, U!Damaged
<1> QED
  BY <1>1, UpgradeInvCorrect, PTL

\* An upgrade that nobody overtook never puts an older release in place, whatever
\* is published, withdrawn or forced.
THEOREM NeverOlderCorrect == InstallSpec => NeverOlder
<1>1. UpgradeTypes /\ UpgradeInv /\ [InstallNext]_AllVars => [U!NotOlder]_AllVars
  <2> SUFFICES ASSUME UpgradeTypes, UpgradeInv, [InstallNext]_AllVars,
                      exe'.content < exe.content
               PROVE  \E p \in Upgraders : proc[p].step = "rename" /\ proc[p].own # exe.content
    BY DEF U!NotOlder
  <2>1. exe.content \in Nat
    BY DEF UpgradeTypes, FileRecord
  <2>2. exe' # exe
    BY <2>1
  <2>3. PICK p \in Upgraders : U!Rename(p)
    BY <2>2, UpgradeCases
       DEF U!Start, U!FetchLatestVersion, U!Decide, U!FetchBinary, U!VerifyChecksum,
           U!CreateTemp, U!FillTemp, U!CopyPermissions, U!Cleanup, U!Fails, U!Dies, U!Publish
  <2>4. proc[p].step = "rename" /\ exe' = temp[p] /\ temp[p].there
    BY <2>2, <2>3 DEF U!Rename
  <2>5. temp[p].content = proc[p].target /\ proc[p].own <= proc[p].target
    BY <2>4 DEF UpgradeInv, Along, Decided, Replacing
  <2>6. proc[p].own \in Nat /\ proc[p].target \in Nat
    BY DEF UpgradeTypes, ProcRecord
  <2> QED
    BY <2>1, <2>4, <2>5, <2>6
<1> QED
  BY <1>1, UpgradeInvCorrect, PTL DEF InstallSpec, NeverOlder

-----------------------------------------------------------------------------
(* Numbers and sequences *)

\* Induction over the natural numbers, for a set instead of a predicate.
LEMMA SetInduction ==
  ASSUME NEW S, 0 \in S, \A n \in Nat : n \in S => n + 1 \in S
  PROVE  Nat \subseteq S
<1> SUFFICES ASSUME Nat \ S # {} PROVE FALSE
  OBVIOUS
<1>1. PICK m \in Nat \ S : \A n \in Nat \ S : ~(<<n, m>> \in OpToRel(<, Nat))
  <2> HIDE DEF OpToRel
  <2> QED
    BY WFMin, NatLessThanWellFounded
<1>2. \A n \in Nat \ S : ~(n < m)
  BY <1>1 DEF OpToRel
<1>3. m # 0 /\ m - 1 \in Nat /\ m - 1 < m /\ (m - 1) + 1 = m
  OBVIOUS
<1> QED
  BY <1>2, <1>3

\* A set of numbers has a least one.
LEMMA Least ==
  ASSUME NEW S \in SUBSET Nat, S # {}
  PROVE  Min(S) \in S /\ \A n \in S : Min(S) <= n
<1>1. PICK m \in S : \A n \in S : ~(<<n, m>> \in OpToRel(<, Nat))
  <2> HIDE DEF OpToRel
  <2> QED
    BY WFMin, NatLessThanWellFounded
<1>2. \A n \in S : ~(n < m)
  BY <1>1 DEF OpToRel
<1>3. \A n \in S : m <= n
  BY <1>2
<1> QED
  BY <1>3 DEF Min

\* The first line of a kind, from a place on.
LEMMA FirstFound ==
  ASSUME NEW t \in Seq(TextLines), NEW i \in Nat \ {0}, NEW S, NEW k, k = FirstFrom(t, i, S)
  PROVE  \/ k = 0 /\ \A m \in i..Len(t) : t[m] \notin S
         \/ k \in i..Len(t) /\ t[k] \in S /\ \A m \in i..Len(t) : t[m] \in S => k <= m
<1> PICK at : at = {m \in i..Len(t) : t[m] \in S}
  OBVIOUS
<1>1. at \in SUBSET Nat
  OBVIOUS
<1>2. k = IF at = {} THEN 0 ELSE Min(at)
  BY DEF FirstFrom
<1>3. CASE at = {}
  BY <1>2, <1>3
<1>4. CASE at # {}
  <2>1. k \in at /\ \A n \in at : k <= n
    BY <1>1, <1>2, <1>4, Least
  <2> QED
    BY <2>1
<1> QED
  BY <1>3, <1>4

\* The beginning of a sequence.
LEMMA Beginning ==
  ASSUME NEW S, NEW s \in Seq(S), NEW n \in 0..Len(s)
  PROVE  /\ SubSeq(s, 1, n) \in Seq(S) /\ Len(SubSeq(s, 1, n)) = n
         /\ \A i \in 1..n : SubSeq(s, 1, n)[i] = s[i]
<1>1. PICK len \in Nat : len = Len(s)
  OBVIOUS
<1>2. n \in Nat /\ n <= len
  BY <1>1
<1>3. \A i \in 1..n : s[i] \in S
  BY <1>1, <1>2
<1>4. PICK front : front = SubSeq(s, 1, n)
  OBVIOUS
<1>5. front \in Seq(S) /\ Len(front) = (IF 1 <= n THEN n - 1 + 1 ELSE 0)
  BY <1>2, <1>3, <1>4, SubSeqProperties
<1>6. \A i \in 1..n - 1 + 1 : front[i] = s[1 + i - 1]
  BY <1>2, <1>3, <1>4, SubSeqProperties
<1>7. Len(front) = n /\ \A i \in 1..n : front[i] = s[i]
  BY <1>2, <1>5, <1>6
<1> QED
  BY <1>4, <1>5, <1>7

\* A prefix, element by element.
LEMMA PrefixIs ==
  ASSUME NEW S, NEW s \in Seq(S), NEW t \in Seq(S)
  PROVE  IsPrefix(s, t) <=> Len(s) <= Len(t) /\ \A i \in 1..Len(s) : s[i] = t[i]
<1>1. PICK n \in Nat : n = Len(s)
  OBVIOUS
<1>2. CASE n <= Len(t)
  <2>1. PICK a : a = SubSeq(s, 1, n)
    OBVIOUS
  <2>2. PICK b : b = SubSeq(t, 1, n)
    OBVIOUS
  <2>3. n \in 0..Len(s) /\ n \in 0..Len(t)
    BY <1>1, <1>2
  <2>4. a \in Seq(S) /\ Len(a) = n /\ \A i \in 1..n : a[i] = s[i]
    BY <2>1, <2>3, Beginning
  <2>5. b \in Seq(S) /\ Len(b) = n /\ \A i \in 1..n : b[i] = t[i]
    BY <2>2, <2>3, Beginning
  <2>6. a = b <=> \A i \in 1..n : s[i] = t[i]
    <3>1. (\A i \in 1..n : s[i] = t[i]) => a = b
      BY <2>4, <2>5, SeqEqual
    <3> QED
      BY <2>4, <2>5, <3>1
  <2> QED
    BY <1>1, <1>2, <2>1, <2>2, <2>6 DEF IsPrefix
<1>3. CASE ~(n <= Len(t))
  BY <1>1, <1>3 DEF IsPrefix
<1> QED
  BY <1>2, <1>3

\* A prefix stays one when more is added.
LEMMA PrefixGrows ==
  ASSUME NEW S, NEW s \in Seq(S), NEW t \in Seq(S)
  PROVE  /\ IsPrefix(s, s)
         /\ IsPrefix(s, t) => /\ \A x \in S : IsPrefix(s, Append(t, x))
                              /\ \A u \in Seq(S) : IsPrefix(t, u) => IsPrefix(s, u)
<1>1. IsPrefix(s, s)
  BY PrefixIs
<1>2. ASSUME IsPrefix(s, t), NEW x \in S
      PROVE  IsPrefix(s, Append(t, x))
  <2>1. PICK u : u = Append(t, x)
    OBVIOUS
  <2>2. u \in Seq(S) /\ Len(u) = Len(t) + 1 /\ \A i \in 1..Len(t) : u[i] = t[i]
    BY <2>1
  <2>3. Len(s) <= Len(t) /\ \A i \in 1..Len(s) : s[i] = t[i]
    BY <1>2, PrefixIs
  <2>4. Len(s) \in Nat /\ Len(t) \in Nat
    OBVIOUS
  <2>5. Len(s) <= Len(u) /\ \A i \in 1..Len(s) : s[i] = u[i]
    BY <2>2, <2>3, <2>4
  <2>6. IsPrefix(s, u)
    BY <2>2, <2>5, PrefixIs
  <2> QED
    BY <2>1, <2>6
<1>3. ASSUME IsPrefix(s, t), NEW u \in Seq(S), IsPrefix(t, u)
      PROVE  IsPrefix(s, u)
  <2>1. Len(s) <= Len(t) /\ \A i \in 1..Len(s) : s[i] = t[i]
    BY <1>3, PrefixIs
  <2>2. Len(t) <= Len(u) /\ \A i \in 1..Len(t) : t[i] = u[i]
    BY <1>3, PrefixIs
  <2>3. Len(s) \in Nat /\ Len(t) \in Nat /\ Len(u) \in Nat
    OBVIOUS
  <2>4. Len(s) <= Len(u) /\ \A i \in 1..Len(s) : s[i] = u[i]
    BY <2>1, <2>2, <2>3
  <2> QED
    BY <2>4, PrefixIs
<1> QED
  BY <1>1, <1>2, <1>3

-----------------------------------------------------------------------------
(* CLAUDE.md and AGENTS.md *)

\* A whole block of this version that no other one precedes is found.
LEMMA BlockFound ==
  ASSUME NEW t \in Seq(TextLines), NEW b \in 1..Len(t), b + 2 <= Len(t),
         t[b] = "cur", t[b + 1] = "section", t[b + 2] = "end",
         \A m \in 1..(b - 1) : t[m] \notin Begins
  PROVE  FileHasCurrentBlock(t) /\ FindSentinelBounds(t) = [found |-> "cur", first |-> b, last |-> b + 2]
<1> PICK k : k = FirstFrom(t, 1, Begins)
  OBVIOUS
<1> PICK e : e = FirstFrom(t, k + 1, {"end"})
  OBVIOUS
<1>1. k = b
  <2>1. t[b] \in Begins
    BY DEF Begins
  <2>2. \/ k = 0 /\ \A m \in 1..Len(t) : t[m] \notin Begins
        \/ k \in 1..Len(t) /\ t[k] \in Begins /\ \A m \in 1..Len(t) : t[m] \in Begins => k <= m
    BY FirstFound
  <2>3. k \in 1..Len(t) /\ t[k] \in Begins /\ k <= b
    BY <2>1, <2>2
  <2>4. ~(k \in 1..(b - 1))
    BY <2>3
  <2> QED
    BY <2>3, <2>4
<1>2. e = b + 2 /\ e # 0
  <2>1. k + 1 \in Nat \ {0} /\ b + 2 \in (k + 1)..Len(t) /\ t[b + 2] \in {"end"} /\ t[b + 1] \notin {"end"}
    BY <1>1
  <2>2. \/ e = 0 /\ \A m \in (k + 1)..Len(t) : t[m] \notin {"end"}
        \/ /\ e \in (k + 1)..Len(t) /\ t[e] \in {"end"}
           /\ \A m \in (k + 1)..Len(t) : t[m] \in {"end"} => e <= m
    BY <2>1, FirstFound
  <2>3. e \in (k + 1)..Len(t) /\ e # b + 1 /\ e <= b + 2
    BY <2>1, <2>2
  <2> QED
    BY <1>1, <2>3
<1>3. FindSentinelBounds(t) = [found |-> "cur", first |-> b, last |-> b + 2]
  BY <1>1, <1>2 DEF FindSentinelBounds
<1>4. t # NoFile
  BY SetupAssumption DEF ContentOf, Files, ReadFiles
<1> QED
  BY <1>3, <1>4 DEF FileHasCurrentBlock

\* The lines of a block.
LEMMA BlockLines ==
  Block \in Seq(TextLines) /\ Len(Block) = 3 /\ Block[1] = "cur" /\ Block[2] = "section" /\ Block[3] = "end"
<1>1. Len(Block) = 3 /\ Block[1] = "cur" /\ Block[2] = "section" /\ Block[3] = "end"
  BY DEF Block
<1>2. "cur" \in TextLines /\ "section" \in TextLines /\ "end" \in TextLines
  BY DEF TextLines, Begins
<1>3. Block \in Seq(TextLines)
  BY <1>2 DEF Block
<1> QED
  BY <1>1, <1>3

\* A text of three parts, the second one the block: the block is found, and the other two
\* are the user's.
LEMMA Spliced ==
  ASSUME NEW front \in Seq(TextLines), NEW rest \in Seq(TextLines),
         \A m \in 1..Len(front) : front[m] \notin Begins
  PROVE  /\ front \o Block \o rest \in Seq(TextLines) /\ FileHasCurrentBlock(front \o Block \o rest)
         /\ Foreign(front \o Block \o rest) = front \o rest
         /\ FindSentinelBounds(front \o Block \o rest) # NoBlock
<1>1. Block \in Seq(TextLines) /\ Len(Block) = 3 /\ Block[1] = "cur" /\ Block[2] = "section" /\ Block[3] = "end"
  BY BlockLines
<1>2. PICK a : a = front \o Block
  OBVIOUS
<1>3. PICK n : n = Len(front)
  OBVIOUS
<1>4. n \in Nat /\ Len(rest) \in Nat
  BY <1>3
<1>5. /\ a \in Seq(TextLines) /\ Len(a) = n + 3
      /\ \A i \in 1..(n + 3) : a[i] = IF i <= n THEN front[i] ELSE Block[i - n]
  <2>1. /\ a \in Seq(TextLines) /\ Len(a) = n + Len(Block)
        /\ \A i \in 1..(n + Len(Block)) : a[i] = IF i <= n THEN front[i] ELSE Block[i - n]
    BY <1>1, <1>2, <1>3, ConcatProperties
  <2> QED
    BY <1>1, <2>1
<1>6. PICK t : t = a \o rest
  OBVIOUS
<1>7. /\ t \in Seq(TextLines) /\ Len(t) = n + 3 + Len(rest)
      /\ \A i \in 1..(n + 3) : t[i] = a[i]
      /\ \A i \in 1..Len(rest) : t[n + 3 + i] = rest[i]
  <2>1. /\ t \in Seq(TextLines) /\ Len(t) = Len(a) + Len(rest)
        /\ \A i \in 1..(Len(a) + Len(rest)) : t[i] = IF i <= Len(a) THEN a[i] ELSE rest[i - Len(a)]
    BY <1>5, <1>6, ConcatProperties
  <2>2. ASSUME NEW i \in 1..Len(rest)
        PROVE  t[n + 3 + i] = rest[i]
    <3> PICK j : j = n + 3 + i
      OBVIOUS
    <3>1. j \in 1..(Len(a) + Len(rest)) /\ ~(j <= Len(a)) /\ j - Len(a) = i
      BY <1>4, <1>5
    <3>2. t[j] = rest[i]
      BY <2>1, <3>1
    <3> QED
      BY <3>2
  <2> QED
    BY <1>4, <1>5, <2>1, <2>2
<1>8. t[n + 1] = "cur" /\ t[n + 2] = "section" /\ t[n + 3] = "end"
  <2>1. n + 1 \in 1..(n + 3) /\ n + 2 \in 1..(n + 3) /\ n + 3 \in 1..(n + 3)
        /\ ~(n + 1 <= n) /\ ~(n + 2 <= n) /\ ~(n + 3 <= n)
        /\ (n + 1) - n = 1 /\ (n + 2) - n = 2 /\ (n + 3) - n = 3
    BY <1>4
  <2> HIDE DEF Block
  <2> QED
    BY <1>1, <1>5, <1>7, <2>1
<1>9. \A m \in 1..n : t[m] \notin Begins
  BY <1>3, <1>4, <1>5, <1>7
<1>10. FileHasCurrentBlock(t) /\ FindSentinelBounds(t) = [found |-> "cur", first |-> n + 1, last |-> n + 3]
  <2>1. PICK b : b = n + 1
    OBVIOUS
  <2>2. b \in 1..Len(t) /\ b + 2 <= Len(t) /\ b - 1 = n /\ b + 1 = n + 2 /\ b + 2 = n + 3
    BY <1>4, <1>7, <2>1
  <2> QED
    BY <1>7, <1>8, <1>9, <2>1, <2>2, BlockFound
<1>11. Foreign(t) = front \o rest /\ FindSentinelBounds(t) # NoBlock
  <2>1. PICK found : found = [found |-> "cur", first |-> n + 1, last |-> n + 3]
    OBVIOUS
  <2>2. found.found = "cur" /\ found.first - 1 = n /\ found.last + 1 = n + 4 /\ "cur" \in Begins
    BY <1>4, <2>1 DEF Begins
  <2>3. Foreign(t) = SubSeq(t, 1, n) \o SubSeq(t, n + 4, Len(t))
    BY <1>10, <2>1, <2>2 DEF Foreign
  <2>4. SubSeq(t, 1, n) = front
    <3>1. \A i \in 1..n : t[i] = front[i] /\ t[i] \in TextLines
      BY <1>3, <1>4, <1>5, <1>7
    <3>2. PICK s : s = SubSeq(t, 1, n)
      OBVIOUS
    <3>3. s \in Seq(TextLines) /\ Len(s) = IF 1 <= n THEN n - 1 + 1 ELSE 0
      BY <1>4, <3>1, <3>2, SubSeqProperties
    <3>4. \A i \in 1..n - 1 + 1 : s[i] = t[1 + i - 1]
      BY <1>4, <3>1, <3>2, SubSeqProperties
    <3>5. Len(s) = n /\ \A i \in 1..n : s[i] = front[i]
      BY <1>4, <3>1, <3>3, <3>4
    <3> QED
      BY <1>3, <3>2, <3>3, <3>5, SeqEqual
  <2>5. SubSeq(t, n + 4, Len(t)) = rest
    <3>1. PICK len \in Nat : len = Len(rest)
      BY <1>4
    <3> PICK p : p = n + 4
      OBVIOUS
    <3> PICK q : q = n + 3 + len
      OBVIOUS
    <3>2. p \in Nat /\ q \in Nat /\ p = n + 4 /\ q = n + 3 + len
      BY <1>4, <3>1
    <3>3. PICK s : s = SubSeq(t, p, q)
      OBVIOUS
    <3>4. \A i \in p..q : t[i] \in TextLines
      BY <1>4, <1>7, <3>1, <3>2
    <3>5. s \in Seq(TextLines) /\ Len(s) = IF p <= q THEN q - p + 1 ELSE 0
      BY <3>3, <3>4, SubSeqProperties
    <3>6. \A i \in 1..q - p + 1 : s[i] = t[p + i - 1]
      BY <3>3, <3>4, SubSeqProperties
    <3>7. Len(s) = len
      BY <1>4, <3>1, <3>2, <3>5
    <3>8. ASSUME NEW i \in 1..len
          PROVE  s[i] = rest[i]
      <4>1. i \in 1..q - p + 1 /\ p + i - 1 = n + 3 + i
        BY <1>4, <3>1, <3>2
      <4>2. s[i] = t[n + 3 + i]
        BY <3>6, <4>1
      <4> QED
        BY <1>7, <3>1, <4>2
    <3>9. s = rest
      BY <3>1, <3>5, <3>7, <3>8, SeqEqual
    <3> QED
      BY <1>7, <3>1, <3>2, <3>3, <3>9
  <2> QED
    <3>1. NoBlock.found # "cur"
      BY DEF NoBlock
    <3>2. FindSentinelBounds(t) # NoBlock
      BY <1>10, <2>1, <2>2, <3>1
    <3> QED
      BY <2>3, <2>4, <2>5, <3>2
<1> QED
  BY <1>2, <1>6, <1>7, <1>10, <1>11

\* No heading stands right below the heading of a section without marks: 8v's own text
\* begins there, and the code does not see a heading in that place.
Spaced(t) ==
  FindSentinelBounds(t) = NoBlock =>
    \A i \in 1..(Len(t) - 1) : t[i] = "8v" => t[i + 1] \notin Headings

\* upsert_versioned_block leaves a text that has the current block, or replaces one part
\* of it, which is 8v's.
LEMMA UpsertShape ==
  ASSUME NEW t \in Seq(TextLines), t # NoFile, ~IsMalformed(t)
  PROVE  \/ UpsertVersionedBlock(t) = t /\ FileHasCurrentBlock(t)
         \/ \E front, rest \in Seq(TextLines) :
              /\ \A m \in 1..Len(front) : front[m] \notin Begins
              /\ UpsertVersionedBlock(t) = front \o Block \o rest
              /\ Spaced(t) => Foreign(t) = front \o rest
<1> PICK new : new = UpsertVersionedBlock(t)
  OBVIOUS
<1> PICK k : k = FirstFrom(t, 1, Begins)
  OBVIOUS
<1> PICK e : e = FirstFrom(t, k + 1, {"end"})
  OBVIOUS
<1> PICK n : n = Len(t)
  OBVIOUS
<1>1. n \in Nat /\ \A m \in 1..n : t[m] \in TextLines
  OBVIOUS
<1>2. \/ k = 0 /\ \A m \in 1..n : t[m] \notin Begins
      \/ k \in 1..n /\ t[k] \in Begins /\ \A m \in 1..n : t[m] \in Begins => k <= m
  BY FirstFound
<1>3. ASSUME NEW first \in 1..n, NEW last \in first..n, \A m \in 1..(first - 1) : t[m] \notin Begins
      PROVE  \E front, rest \in Seq(TextLines) :
               /\ front = SubSeq(t, 1, first - 1) /\ rest = SubSeq(t, last + 1, n)
               /\ \A m \in 1..Len(front) : front[m] \notin Begins
  <2>1. PICK front : front = SubSeq(t, 1, first - 1)
    OBVIOUS
  <2>2. PICK rest : rest = SubSeq(t, last + 1, n)
    OBVIOUS
  <2>3. PICK f : f = first - 1
    OBVIOUS
  <2>4. f \in Nat /\ f <= n /\ last + 1 \in Int
    BY <1>1, <2>3
  <2>5. \A m \in 1..f : t[m] \in TextLines /\ t[m] \notin Begins
    BY <1>1, <1>3, <2>3, <2>4
  <2>6. \A m \in (last + 1)..n : t[m] \in TextLines
    BY <1>1
  <2>7. front \in Seq(TextLines) /\ rest \in Seq(TextLines)
    BY <1>1, <2>1, <2>2, <2>3, <2>4, <2>5, <2>6, SubSeqProperties
  <2>8. Len(front) = f /\ \A m \in 1..f : front[m] = t[m]
    <3>1. \A m \in 1..f - 1 + 1 : front[m] = t[1 + m - 1]
      BY <2>1, <2>3, <2>4, <2>5, SubSeqProperties
    <3>2. Len(front) = IF 1 <= f THEN f - 1 + 1 ELSE 0
      BY <2>1, <2>3, <2>4, <2>5, SubSeqProperties
    <3> QED
      BY <2>4, <3>1, <3>2
  <2>9. \A m \in 1..Len(front) : front[m] \notin Begins
    BY <2>5, <2>8
  <2> QED
    BY <2>1, <2>2, <2>7, <2>9
<1>4. CASE k = 0
  <2>1. FindSentinelBounds(t) = NoBlock /\ NoBlock.found = "none"
    BY <1>4 DEF FindSentinelBounds, NoBlock
  <2>2. CASE Contains(t, "8v")
    <3>1. PICK bounds : bounds = FindLegacyMarkerBounds(t)
      OBVIOUS
    <3>2. new = Splice(t, bounds)
      BY <2>1, <2>2, <3>1 DEF UpsertVersionedBlock, NoBlock
    <3>3. PICK b : b = FirstFrom(t, 1, {"8v"})
      OBVIOUS
    <3>4. b \in 1..n /\ t[b] = "8v"
      <4>1. PICK i \in 1..n : t[i] \in {"8v"}
        BY <2>2 DEF Contains
      <4> QED
        BY <3>3, <4>1, FirstFound
    <3>5. PICK h : h = FirstFrom(t, b + 2, Headings)
      OBVIOUS
    <3>6. \/ h = 0 /\ \A m \in (b + 2)..n : t[m] \notin Headings
          \/ h \in (b + 2)..n /\ t[h] \in Headings /\ \A m \in (b + 2)..n : t[m] \in Headings => h <= m
      <4>1. b + 2 \in Nat \ {0}
        BY <3>4
      <4> QED
        BY <3>5, <4>1, FirstFound
    <3>7. bounds.first = b /\ bounds.last = IF h = 0 THEN n ELSE h - 1
      BY <3>1, <3>3, <3>5 DEF FindLegacyMarkerBounds
    <3>8. bounds.last \in b..n
      BY <1>1, <3>4, <3>6, <3>7
    <3>9. \A m \in 1..(b - 1) : t[m] \notin Begins
      BY <1>1, <1>2, <1>4, <3>4
    <3>10. PICK front, rest \in Seq(TextLines) :
             /\ front = SubSeq(t, 1, b - 1) /\ rest = SubSeq(t, bounds.last + 1, n)
             /\ \A m \in 1..Len(front) : front[m] \notin Begins
      BY <1>3, <3>4, <3>8, <3>9
    <3>11. new = front \o Block \o rest
      BY <3>2, <3>7, <3>10 DEF Splice
    <3>12. ASSUME Spaced(t)
           PROVE  Foreign(t) = front \o rest
      <4>1. PICK g : g = FirstFrom(t, b + 1, Headings)
        OBVIOUS
      <4>2. \/ g = 0 /\ \A m \in (b + 1)..n : t[m] \notin Headings
            \/ g \in (b + 1)..n /\ t[g] \in Headings /\ \A m \in (b + 1)..n : t[m] \in Headings => g <= m
        <5>1. b + 1 \in Nat \ {0}
          BY <3>4
        <5> QED
          BY <4>1, <5>1, FirstFound
      <4>3. b + 1 <= n => t[b + 1] \notin Headings
        BY <1>1, <2>1, <3>4, <3>12 DEF Spaced
      <4>4. g = h
        BY <1>1, <3>4, <3>6, <4>2, <4>3
      <4>5. Foreign(t) = SubSeq(t, 1, b - 1) \o SubSeq(t, bounds.last + 1, n)
        <5>1. "none" \notin Begins
          BY DEF Begins
        <5> QED
          BY <2>1, <2>2, <3>3, <3>7, <4>1, <4>4, <5>1 DEF Foreign
      <4> QED
        BY <3>10, <4>5
    <3> QED
      BY <3>10, <3>11, <3>12
  <2>3. CASE ~Contains(t, "8v")
    <3>1. new = t \o Block
      BY <2>1, <2>3 DEF UpsertVersionedBlock, NoBlock
    <3>2. t \o Block \in Seq(TextLines) /\ <<>> \in Seq(TextLines)
      BY BlockLines, ConcatProperties, EmptySeq
    <3>3. new = t \o Block \o <<>> /\ t = t \o <<>>
      BY <3>1, <3>2, ConcatEmptySeq
    <3>4. \A m \in 1..Len(t) : t[m] \notin Begins
      BY <1>2, <1>4
    <3>5. Foreign(t) = t
      <4>1. "none" \notin Begins
        BY DEF Begins
      <4> QED
        BY <2>1, <2>3, <4>1 DEF Foreign
    <3> QED
      BY <3>2, <3>3, <3>4, <3>5
  <2> QED
    BY <2>2, <2>3
<1>5. CASE k \in 1..n
  <2>1. e # 0 /\ t[k] # "cut"
    <3>1. e = 0 \/ t[k] = "cut" => FindSentinelBounds(t) = Malformed
      BY <1>5 DEF FindSentinelBounds
    <3> QED
      BY <3>1 DEF IsMalformed
  <2>2. e \in (k + 1)..n
    <3>1. k + 1 \in Nat \ {0}
      BY <1>5
    <3> QED
      BY <2>1, <3>1, FirstFound
  <2>3. PICK bounds : bounds = [found |-> t[k], first |-> k, last |-> e]
    OBVIOUS
  <2>4. FindSentinelBounds(t) = bounds
    BY <1>5, <2>1, <2>3 DEF FindSentinelBounds
  <2>5. bounds.first = k /\ bounds.last = e /\ bounds.found = t[k] /\ t[k] \in {"old", "cur"}
    BY <1>2, <1>5, <2>1, <2>3 DEF Begins
  <2>6. bounds # NoBlock
    BY <2>5 DEF NoBlock
  <2>7. CASE t[k] = "cur"
    BY <2>4, <2>5, <2>6, <2>7 DEF UpsertVersionedBlock, FileHasCurrentBlock
  <2>8. CASE t[k] # "cur"
    <3>1. new = Splice(t, bounds)
      BY <2>4, <2>5, <2>6, <2>8 DEF UpsertVersionedBlock
    <3>2. e \in k..n
      BY <1>5, <2>2
    <3>3. \A m \in 1..(k - 1) : t[m] \notin Begins
      BY <1>1, <1>2, <1>5
    <3>4. PICK front, rest \in Seq(TextLines) :
            /\ front = SubSeq(t, 1, k - 1) /\ rest = SubSeq(t, e + 1, n)
            /\ \A m \in 1..Len(front) : front[m] \notin Begins
      BY <1>3, <1>5, <3>2, <3>3
    <3>5. new = front \o Block \o rest
      BY <2>5, <3>1, <3>4 DEF Splice
    <3>6. Foreign(t) = front \o rest
      <4>1. bounds.found \in Begins
        BY <2>5 DEF Begins
      <4> QED
        BY <2>4, <2>5, <3>4, <4>1 DEF Foreign
    <3> QED
      BY <3>4, <3>5, <3>6
  <2> QED
    BY <2>7, <2>8
<1> QED
  BY <1>2, <1>4, <1>5

\* The text has the current block, where its marks are not broken.
LEMMA Upserted ==
  ASSUME NEW t, t = NoFile \/ t \in Seq(TextLines), ~IsMalformed(t)
  PROVE  UpsertVersionedBlock(t) \in Seq(TextLines) /\ FileHasCurrentBlock(UpsertVersionedBlock(t))
<1>1. CASE t = NoFile
  <2>1. UpsertVersionedBlock(t) = Block
    BY <1>1 DEF UpsertVersionedBlock
  <2>2. /\ <<>> \in Seq(TextLines) /\ Block \in Seq(TextLines) /\ Len(<<>>) = 0
        /\ <<>> \o Block \o <<>> = Block
    BY BlockLines, ConcatEmptySeq, EmptySeq
  <2>3. \A m \in 1..Len(<<>>) : <<>>[m] \notin Begins
    BY <2>2
  <2>4. FileHasCurrentBlock(<<>> \o Block \o <<>>)
    BY <2>2, <2>3, Spliced
  <2> QED
    BY <2>1, <2>2, <2>4
<1>2. CASE t # NoFile
  <2>1. CASE UpsertVersionedBlock(t) = t /\ FileHasCurrentBlock(t)
    BY <1>2, <2>1
  <2>2. ASSUME NEW front \in Seq(TextLines), NEW rest \in Seq(TextLines),
               \A m \in 1..Len(front) : front[m] \notin Begins,
               UpsertVersionedBlock(t) = front \o Block \o rest
        PROVE  UpsertVersionedBlock(t) \in Seq(TextLines) /\ FileHasCurrentBlock(UpsertVersionedBlock(t))
    BY <2>2, Spliced
  <2> QED
    BY <1>2, <2>1, <2>2, UpsertShape
<1> QED
  BY <1>1, <1>2

\* A current block is left as it is.
LEMMA UpsertQuiet ==
  ASSUME NEW t, FileHasCurrentBlock(t)
  PROVE  UpsertVersionedBlock(t) = t /\ ~IsMalformed(t)
<1>1. t # NoFile /\ FindSentinelBounds(t).found = "cur"
  BY DEF FileHasCurrentBlock
<1>2. NoBlock.found = "none" /\ Malformed.found = "malformed"
  BY DEF NoBlock, Malformed
<1>3. FindSentinelBounds(t) # NoBlock /\ FindSentinelBounds(t) # Malformed
  BY <1>1, <1>2
<1> QED
  BY <1>1, <1>3 DEF UpsertVersionedBlock, IsMalformed

-----------------------------------------------------------------------------
(* JSON files *)

\* `added` is what has been added to a list after so many of the wanted ones.
IsAdding(added, seq, wanted, n) ==
  added = [k \in 0..n |-> IF k = 0 THEN seq
                          ELSE IF Contains(added[k - 1], wanted[k]) THEN added[k - 1]
                          ELSE Append(added[k - 1], wanted[k])]

\* The recursion in AddMissing has a solution.
LEMMA AddingExists ==
  ASSUME NEW seq, NEW wanted
  PROVE  \A n \in Nat : \E added : IsAdding(added, seq, wanted, n)
<1> DEFINE Good == {n \in Nat : \E added : IsAdding(added, seq, wanted, n)}
<1>1. 0 \in Good
  <2> DEFINE start == [k \in 0..0 |-> seq]
  <2>1. IsAdding(start, seq, wanted, 0)
    BY DEF IsAdding
  <2> QED
    BY <2>1
<1>2. ASSUME NEW n \in Nat, n \in Good
      PROVE  n + 1 \in Good
  <2>1. PICK added : IsAdding(added, seq, wanted, n)
    BY <1>2
  <2> DEFINE last == IF Contains(added[n], wanted[n + 1]) THEN added[n] ELSE Append(added[n], wanted[n + 1])
             next == [k \in 0..(n + 1) |-> IF k = n + 1 THEN last ELSE added[k]]
  <2>2. \A k \in 0..n : next[k] = added[k]
    OBVIOUS
  <2>3. \A k \in 0..n : added[k] = IF k = 0 THEN seq
                                 ELSE IF Contains(added[k - 1], wanted[k]) THEN added[k - 1]
                                 ELSE Append(added[k - 1], wanted[k])
    BY <2>1 DEF IsAdding
  <2>4. ASSUME NEW k \in 0..(n + 1)
        PROVE  next[k] = IF k = 0 THEN seq
                         ELSE IF Contains(next[k - 1], wanted[k]) THEN next[k - 1]
                         ELSE Append(next[k - 1], wanted[k])
    <3>1. CASE k = n + 1
      <4>1. next[k] = last /\ next[k - 1] = added[n] /\ k # 0
        BY <3>1, <2>2
      <4> HIDE DEF next
      <4> QED
        BY <3>1, <4>1
    <3>2. CASE k \in 0..n
      <4>1. k = 0 \/ next[k - 1] = added[k - 1]
        BY <3>2, <2>2
      <4> HIDE DEF next
      <4> QED
        BY <3>2, <2>2, <2>3, <4>1
    <3> QED
      BY <3>1, <3>2
  <2>5. IsAdding(next, seq, wanted, n + 1)
    <3>1. next = [k \in 0..(n + 1) |-> next[k]]
      OBVIOUS
    <3> HIDE DEF next
    <3> QED
      BY <2>4, <3>1 DEF IsAdding
  <2> QED
    BY <2>5
<1> HIDE DEF Good
<1>3. Nat \subseteq Good
  BY <1>1, <1>2, SetInduction
<1> QED
  BY <1>3 DEF Good

\* What AddMissing makes of a list: it is only added to, nothing wanted is missing, and a list
\* that has everything stays as it is.
LEMMA Added ==
  ASSUME NEW S, NEW seq \in Seq(S), NEW wanted \in Seq(S), NEW new, new = AddMissing(seq, wanted)
  PROVE  /\ new \in Seq(S) /\ IsPrefix(seq, new)
         /\ ToSet(seq) \subseteq ToSet(new) /\ ToSet(wanted) \subseteq ToSet(new)
         /\ ToSet(wanted) \subseteq ToSet(seq) => new = seq
<1>1. PICK n : n = Len(wanted) /\ n \in Nat
  OBVIOUS
<1>2. PICK added : IsAdding(added, seq, wanted, n) /\ new = added[n]
  <2> DEFINE choice == CHOOSE a : IsAdding(a, seq, wanted, n)
  <2>1. IsAdding(choice, seq, wanted, n)
    BY <1>1, AddingExists
  <2>2. new = choice[n]
    BY <1>1 DEF AddMissing, IsAdding
  <2> QED
    BY <2>1, <2>2
<1>3. \A k \in 0..n : added[k] = IF k = 0 THEN seq
                               ELSE IF Contains(added[k - 1], wanted[k]) THEN added[k - 1]
                               ELSE Append(added[k - 1], wanted[k])
  BY <1>2 DEF IsAdding
<1> DEFINE Fine(k) == /\ added[k] \in Seq(S) /\ IsPrefix(seq, added[k])
                      /\ ToSet(seq) \subseteq ToSet(added[k])
                      /\ \A j \in 1..k : wanted[j] \in ToSet(added[k])
                      /\ ToSet(wanted) \subseteq ToSet(seq) => added[k] = seq
           Good == {k \in Nat : k \in 0..n => Fine(k)}
<1>4. 0 \in Good
  BY <1>1, <1>3, PrefixGrows
<1>5. ASSUME NEW k \in Nat, k \in Good
      PROVE  k + 1 \in Good
  <2> SUFFICES ASSUME k + 1 \in 0..n
               PROVE  Fine(k + 1)
    OBVIOUS
  <2>1. Fine(k) /\ k + 1 \in 1..n
    BY <1>1, <1>5
  <2>2. PICK x : x = wanted[k + 1] /\ x \in S
    BY <1>1, <2>1
  <2>3. PICK s : s = added[k]
    OBVIOUS
  <2>4. s \in Seq(S) /\ (Contains(s, x) <=> x \in ToSet(s))
    BY <2>1, <2>3 DEF Contains, ToSet
  <2>5. added[k + 1] = IF Contains(s, x) THEN s ELSE Append(s, x)
    <3>1. k + 1 \in 0..n /\ k + 1 # 0 /\ (k + 1) - 1 = k
      BY <2>1
    <3> QED
      BY <1>3, <2>2, <2>3, <3>1
  <2>6. x \in ToSet(wanted)
    BY <1>1, <2>1, <2>2 DEF ToSet
  <2>7. \A j \in 1..(k + 1) : j \in 1..k \/ wanted[j] = x
    BY <2>2
  <2>8. CASE Contains(s, x)
    BY <2>1, <2>3, <2>4, <2>5, <2>7, <2>8
  <2>9. CASE ~Contains(s, x)
    <3>1. added[k + 1] = Append(s, x) /\ Append(s, x) \in Seq(S) /\ IsPrefix(seq, Append(s, x))
      BY <2>1, <2>2, <2>3, <2>4, <2>5, <2>9, PrefixGrows
    <3>2. ToSet(s) \subseteq ToSet(Append(s, x)) /\ x \in ToSet(Append(s, x))
      <4>1. PICK longer : longer = Append(s, x)
        OBVIOUS
      <4>2. /\ DOMAIN s = 1..Len(s) /\ DOMAIN longer = 1..(Len(s) + 1) /\ Len(s) \in Nat
            /\ \A i \in 1..Len(s) : longer[i] = s[i]
            /\ longer[Len(s) + 1] = x
        BY <2>2, <2>4, <4>1
      <4>3. ToSet(s) \subseteq ToSet(longer)
        BY <4>2 DEF ToSet
      <4>4. x \in ToSet(longer)
        BY <4>2 DEF ToSet
      <4> QED
        BY <4>1, <4>3, <4>4
    <3>3. ~(ToSet(wanted) \subseteq ToSet(seq))
      BY <2>1, <2>3, <2>4, <2>6, <2>9
    <3> QED
      BY <2>1, <2>3, <2>7, <3>1, <3>2, <3>3
  <2> QED
    BY <2>8, <2>9
<1> HIDE DEF Good
<1>6. Nat \subseteq Good
  BY <1>4, <1>5, SetInduction
<1>7. Fine(n)
  BY <1>1, <1>6 DEF Good
<1>8. ToSet(wanted) \subseteq ToSet(added[n])
  BY <1>1, <1>7 DEF ToSet
<1> QED
  BY <1>2, <1>7, <1>8

-----------------------------------------------------------------------------
(* What a run has put in place *)

Registered(paths) ==
  paths \in ContentOf("registry") /\ \E i \in DOMAIN paths : StandsIn(paths[i])

McpPlaced(doc, name) ==
  \/ doc = NotAnObject
  \/ doc \in ContentOf("mcp") /\ doc.servers # NotAnObject /\ name \in doc.servers

HookPlaced(h, hook, place) == h # NoFile /\ (place = "skip" \/ HasMarker(h.lines, hook))

ClaudeHooksPlaced(doc) ==
  /\ doc \in ContentOf("settings") /\ "hook" \notin doc.keys
  /\ ToSet(ClaudeHookEvents \o ObservabilityHooks) \subseteq ToSet(doc.hooks)

PermissionsPlaced(doc) ==
  /\ doc \in ContentOf("settings") /\ "permissions" \notin doc.keys
  /\ ToSet(McpToolPermission) \subseteq ToSet(doc.allow)
  /\ ToSet(DeniedNativeTools) \subseteq ToSet(doc.deny)

\* What the steps before the n-th one have put on the disk d for a user who answered a.
Placed(d, a, n) ==
  /\ n > 1 /\ ~a.home => d["config"] # NoFile
  /\ n > 2 /\ a.home => Registered(d["registry"])
  /\ n > 3 /\ "mcp" \in a.wants => McpPlaced(d["mcp"], a.name)
  /\ n > 4 /\ "claude" \in a.wants => FileHasCurrentBlock(d["claude"]) \/ FileHasCurrentBlock(d["agents"])
  /\ n > 5 /\ "agents" \in a.wants => FileHasCurrentBlock(d["agents"])
  /\ n > 6 /\ "aider" \in a.wants => d["aider"] \in {NoFile, "ours"}
  /\ n > 7 /\ "precommit" \in a.wants /\ d["git"] # NoFile => HookPlaced(d["precommit"], "precommit", a.place)
  /\ n > 9 /\ "commitmsg" \in a.wants /\ d["git"] # NoFile => HookPlaced(d["commitmsg"], "commitmsg", a.place)
  /\ n > 11 /\ ~a.yes /\ "hooks" \in a.wants => ClaudeHooksPlaced(d["settings"])
  /\ n > 12 => PermissionsPlaced(d["settings"])

ModeAt == [precommit |-> 8, commitmsg |-> 10]
RunRecord == [step : 1..12, answers : Answers, wrote : SUBSET ToSet(Steps)]
EndRecord == [ok : BOOLEAN, answers : Answers, wrote : SUBSET ToSet(Steps)]

SetupTypes ==
  /\ IsDisk(disk) /\ ended \in Seq(EndRecord)
  /\ run = Idle \/ run \in RunRecord
  /\ \A hook \in DOMAIN HookLine : hook \in run.wrote => disk[hook] # NoFile
  /\ \A hook \in DOMAIN HookLine : ModeOf[hook] \in run.wrote => run.step > ModeAt[hook]

\* A hook with 8v's line is executable, but for one that the run is about to make so.
ModeInv ==
  \A hook \in DOMAIN HookLine :
    ~LacksMode(hook) /\ disk[hook] # NoFile /\ HasMarker(disk[hook].lines, hook) =>
      disk[hook].x \/ (run # Idle /\ run.step = ModeAt[hook] /\ hook \in run.wrote)

\* A hook without 8v's line is somebody's, or what a cut run has left of one.
Strange(hook, h, cut) ==
  h # NoFile /\ ~HasMarker(h.lines, hook) => before[hook] # NoFile \/ hook \in cut

StrangeInv == \A hook \in DOMAIN HookLine : Strange(hook, disk[hook], torn)

\* After a run that ended well, and during the same run again, everything is in place.
QuietInv ==
  ended # <<>> /\ Last(ended).ok /\ (run = Idle \/ run.answers = Last(ended).answers) =>
    Placed(disk, Last(ended).answers, 13) /\ run.wrote = {}

SetupInv ==
  /\ run # Idle => Placed(disk, run.answers, run.step)
  /\ ModeInv /\ QuietInv

\* Types of what the steps read.
LEMMA Contents ==
  ASSUME IsDisk(disk)
  PROVE  /\ \A f \in {"claude", "agents"} : disk[f] = NoFile \/ disk[f] \in Seq(TextLines)
         /\ \A f \in {"precommit", "commitmsg"} : disk[f] = NoFile \/ disk[f] \in ContentOf(f)
         /\ disk["registry"] = NoFile \/ disk["registry"] \in ContentOf("registry")
         /\ disk["mcp"] \in NotJson \cup {NoFile} \/ disk["mcp"] \in ContentOf("mcp")
         /\ disk["settings"] \in NotJson \cup {NoFile} \/ disk["settings"] \in ContentOf("settings")
<1>1. \A f \in {"claude", "agents"} : ContentOf(f) = Seq(TextLines)
  BY DEF ContentOf
<1>2. \A f \in ReadFiles : \/ disk[f] = NoFile \/ disk[f] \in ContentOf(f)
                           \/ f \in JsonFiles /\ disk[f] \in NotJson
  BY DEF IsDisk
<1> QED
  BY <1>1, <1>2 DEF ReadFiles, Files, JsonFiles

\* What a file may hold, spelt out.
LEMMA ContentShapes ==
  /\ ContentOf("registry") = Seq(Seq({"v", "w", "x", "wx"}))
  /\ \A f \in {"claude", "agents"} : ContentOf(f) = Seq(TextLines)
  /\ \A f \in {"precommit", "commitmsg"} :
        ContentOf(f) = [lines : Seq({"#!", "own", "on-commit", "on-commit-msg"}), x : BOOLEAN]
  /\ ContentOf("mcp") = [servers : {NotAnObject} \cup SUBSET ServerNames]
  /\ ContentOf("settings") = [allow : Seq(ToolNames), deny : Seq(ToolNames), hooks : Seq(HookEntries),
                              keys : SUBSET {"top", "permissions", "hook"}]
  BY DEF ContentOf

\* No content is taken for another kind of file, or for none.
LEMMA Distinct ==
  /\ \A f \in ReadFiles : NoFile \notin ContentOf(f)
  /\ \A f \in JsonFiles : \A none \in NotJson : none \notin ContentOf(f)
  /\ NoFile \notin NotJson /\ Blank \notin {Broken, NotAnObject} /\ Broken # NotAnObject /\ NoFile # "default"
  BY SetupAssumption

\* What the user may answer.
LEMMA AnswerTypes ==
  ASSUME NEW a \in Answers
  PROVE  a \in [yes : BOOLEAN, terminal : BOOLEAN, home : BOOLEAN, wants : SUBSET (Files \cup {"hooks"}),
               name : ServerNames, place : {"skip", "before", "after"}]
  BY SetupAssumption

\* RegisterWorkspace
LEMMA RegisterPlaces ==
  ASSUME NEW paths, paths = NoFile \/ paths \in ContentOf("registry"), NEW new, new = RegisterWorkspace(paths)
  PROVE  /\ new \in ContentOf("registry") /\ \E i \in DOMAIN new : StandsIn(new[i])
         /\ paths # NoFile /\ (\E i \in DOMAIN paths : StandsIn(paths[i])) => new = paths
         /\ paths # NoFile => IsPrefix(paths, new)
<1> DEFINE Path == Seq({"v", "w", "x", "wx"})
<1>1. ContentOf("registry") = Seq(Path)
  BY ContentShapes
<1>2. Here \in Path /\ StandsIn(Here)
  BY DEF Here, StandsIn
<1> HIDE DEF Path
<1>3. CASE paths = NoFile
  <2>1. new = <<Here>>
    BY <1>3 DEF RegisterWorkspace
  <2>2. new \in Seq(Path) /\ 1 \in DOMAIN new /\ new[1] = Here
    BY <1>2, <2>1
  <2> QED
    BY <1>1, <1>2, <1>3, <2>2
<1>4. CASE paths # NoFile /\ \E i \in DOMAIN paths : StandsIn(paths[i])
  BY <1>1, <1>4, PrefixGrows DEF RegisterWorkspace
<1>5. CASE paths # NoFile /\ ~\E i \in DOMAIN paths : StandsIn(paths[i])
  <2>1. new = Append(paths, Here)
    BY <1>5 DEF RegisterWorkspace
  <2>2. paths \in Seq(Path)
    BY <1>1, <1>5
  <2>3. new \in Seq(Path) /\ Len(paths) + 1 \in DOMAIN new /\ new[Len(paths) + 1] = Here
    BY <1>2, <2>1, <2>2
  <2>4. IsPrefix(paths, new)
    BY <1>2, <2>1, <2>2, PrefixGrows
  <2> QED
    BY <1>1, <1>2, <1>5, <2>3, <2>4
<1> QED
  BY <1>3, <1>4, <1>5

\* setup_mcp_json
LEMMA McpPlaces ==
  ASSUME NEW doc, doc \in {NoFile, Blank, NotAnObject} \/ (doc \in ContentOf("mcp") /\ doc.servers # NotAnObject),
         NEW name \in ServerNames, NEW new, new = SetupMcpJson(doc, name)
  PROVE  /\ \/ new = NotAnObject
            \/ new \in ContentOf("mcp") /\ new.servers # NotAnObject /\ name \in new.servers
         /\ doc \in ContentOf("mcp") /\ name \in doc.servers => new = doc
         /\ doc = NotAnObject => new = doc
         /\ doc \in ContentOf("mcp") => new \in ContentOf("mcp") /\ doc.servers \subseteq new.servers
<1>1. /\ \A servers \in SUBSET ServerNames : [servers |-> servers] \in ContentOf("mcp")
      /\ \A d \in ContentOf("mcp") : /\ d = [servers |-> d.servers]
                                     /\ d.servers = NotAnObject \/ d.servers \in SUBSET ServerNames
  <2>1. PICK Servers : Servers = {NotAnObject} \cup SUBSET ServerNames
    OBVIOUS
  <2>2. ContentOf("mcp") = [servers : Servers]
    BY <2>1, ContentShapes
  <2>3. ASSUME NEW names \in Servers
        PROVE  [servers |-> names] \in [servers : Servers]
    OBVIOUS
  <2>4. ASSUME NEW d \in [servers : Servers]
        PROVE  d = [servers |-> d.servers] /\ d.servers \in Servers
    OBVIOUS
  <2> QED
    BY <2>1, <2>2, <2>3, <2>4
<1>2. \A servers \in SUBSET ServerNames : servers # NotAnObject
  BY SetupAssumption
<1>3. \A none \in NotJson \cup {NoFile} : none \notin ContentOf("mcp")
  BY Distinct DEF JsonFiles, ReadFiles, Files
<1>4. CASE doc \in {NoFile, Blank}
  <2>1. new = McpTemplate(name)
    BY <1>4, Distinct DEF SetupMcpJson, NotJson
  <2>2. PICK servers \in SUBSET ServerNames : servers = {name}
    OBVIOUS
  <2>3. new = [servers |-> servers]
    BY <2>1, <2>2 DEF McpTemplate
  <2>4. new \in ContentOf("mcp") /\ new.servers = servers
    BY <1>1, <2>3
  <2>5. doc \notin ContentOf("mcp") /\ doc # NotAnObject
    BY <1>3, <1>4, Distinct DEF NotJson
  <2> QED
    BY <1>2, <2>2, <2>4, <2>5
<1>5. CASE doc = NotAnObject
  <2>1. new = doc
    BY <1>5, Distinct DEF SetupMcpJson, NotJson
  <2> QED
    BY <1>3, <1>5, <2>1 DEF NotJson
<1>6. CASE doc \in ContentOf("mcp") /\ doc.servers # NotAnObject
  <2>1. doc \notin {NoFile, Blank} /\ doc # NotAnObject
    BY <1>3, <1>6 DEF NotJson
  <2>2. new = [doc EXCEPT !.servers = doc.servers \cup {name}]
    BY <2>1 DEF SetupMcpJson
  <2>3. doc.servers \in SUBSET ServerNames /\ doc = [servers |-> doc.servers]
    BY <1>1, <1>6
  <2>4. PICK servers \in SUBSET ServerNames : servers = doc.servers \cup {name}
    BY <2>3
  <2>5. new = [servers |-> servers]
    BY <2>2, <2>3, <2>4
  <2>6. new \in ContentOf("mcp") /\ new.servers = servers
    BY <1>1, <2>5
  <2>7. name \in doc.servers => new = doc
    <3>1. name \in doc.servers => servers = doc.servers
      BY <2>4
    <3> QED
      BY <2>3, <2>5, <3>1
  <2> QED
    BY <1>2, <2>1, <2>4, <2>6, <2>7
<1> QED
  BY <1>4, <1>5, <1>6

\* What is in one of two sequences is in both together.
LEMMA Concatenated ==
  ASSUME NEW S, NEW s \in Seq(S), NEW t \in Seq(S), NEW x \in S
  PROVE  /\ (Contains(s, x) \/ Contains(t, x)) => Contains(s \o t, x)
         /\ s \o t \in Seq(S)
<1>1. PICK u : u = s \o t
  OBVIOUS
<1>2. /\ u \in Seq(S) /\ Len(u) = Len(s) + Len(t) /\ Len(s) \in Nat /\ Len(t) \in Nat
      /\ \A i \in 1..(Len(s) + Len(t)) : u[i] = IF i <= Len(s) THEN s[i] ELSE t[i - Len(s)]
  BY <1>1, ConcatProperties
<1>3. ASSUME NEW i \in 1..Len(s), s[i] = x PROVE Contains(u, x)
  <2>1. i \in 1..Len(u) /\ u[i] = x
    BY <1>2, <1>3
  <2> QED
    BY <2>1 DEF Contains
<1>4. ASSUME NEW i \in 1..Len(t), t[i] = x PROVE Contains(u, x)
  <2>1. Len(s) + i \in 1..Len(u) /\ u[Len(s) + i] = x
    BY <1>2, <1>4
  <2> QED
    BY <2>1 DEF Contains
<1> QED
  BY <1>1, <1>2, <1>3, <1>4 DEF Contains

\* `own` is what OwnLines has seen of the lines after so many of them.
Marks == {HookLine[hook] : hook \in DOMAIN HookLine}
IsOwn(own, lines, n) ==
  own = [k \in 0..n |-> IF k = 0 THEN <<>>
                        ELSE IF lines[k] \in Marks THEN own[k - 1]
                        ELSE Append(own[k - 1], lines[k])]

\* The recursion in OwnLines has a solution.
LEMMA OwnExists ==
  ASSUME NEW lines
  PROVE  \A n \in Nat : \E own : IsOwn(own, lines, n)
<1> DEFINE Good == {n \in Nat : \E own : IsOwn(own, lines, n)}
<1>1. 0 \in Good
  <2> DEFINE start == [k \in 0..0 |-> <<>>]
  <2>1. IsOwn(start, lines, 0)
    BY DEF IsOwn
  <2> QED
    BY <2>1
<1>2. ASSUME NEW n \in Nat, n \in Good
      PROVE  n + 1 \in Good
  <2>1. PICK own : IsOwn(own, lines, n)
    BY <1>2
  <2> DEFINE last == IF lines[n + 1] \in Marks THEN own[n] ELSE Append(own[n], lines[n + 1])
             next == [k \in 0..(n + 1) |-> IF k = n + 1 THEN last ELSE own[k]]
  <2>2. \A k \in 0..n : next[k] = own[k]
    OBVIOUS
  <2>3. \A k \in 0..n : own[k] = IF k = 0 THEN <<>>
                               ELSE IF lines[k] \in Marks THEN own[k - 1]
                               ELSE Append(own[k - 1], lines[k])
    BY <2>1 DEF IsOwn
  <2>4. ASSUME NEW k \in 0..(n + 1)
        PROVE  next[k] = IF k = 0 THEN <<>>
                         ELSE IF lines[k] \in Marks THEN next[k - 1]
                         ELSE Append(next[k - 1], lines[k])
    <3>1. CASE k = n + 1
      <4>1. next[k] = last /\ next[k - 1] = own[n] /\ k # 0
        BY <3>1, <2>2
      <4> HIDE DEF next
      <4> QED
        BY <3>1, <4>1
    <3>2. CASE k \in 0..n
      <4>1. k = 0 \/ next[k - 1] = own[k - 1]
        BY <3>2, <2>2
      <4> HIDE DEF next
      <4> QED
        BY <3>2, <2>2, <2>3, <4>1
    <3> QED
      BY <3>1, <3>2
  <2>5. IsOwn(next, lines, n + 1)
    <3>1. next = [k \in 0..(n + 1) |-> next[k]]
      OBVIOUS
    <3> HIDE DEF next
    <3> QED
      BY <2>4, <3>1 DEF IsOwn
  <2> QED
    BY <2>5
<1> HIDE DEF Good
<1>3. Nat \subseteq Good
  BY <1>1, <1>2, SetInduction
<1> QED
  BY <1>3 DEF Good

\* OwnLines, line by line.
LEMMA OwnSteps ==
  ASSUME NEW S, NEW lines \in Seq(S)
  PROVE  \E own : /\ own[0] = <<>> /\ OwnLines(lines) = own[Len(lines)]
                  /\ \A k \in 1..Len(lines) :
                       own[k] = IF lines[k] \in Marks THEN own[k - 1] ELSE Append(own[k - 1], lines[k])
<1>1. PICK n : n = Len(lines) /\ n \in Nat
  OBVIOUS
<1> DEFINE choice == CHOOSE own : IsOwn(own, lines, n)
<1>2. IsOwn(choice, lines, n)
  BY <1>1, OwnExists
<1>3. OwnLines(lines) = choice[n]
  BY <1>1 DEF OwnLines, IsOwn, Marks
<1> HIDE DEF choice
<1>4. \A k \in 0..n : choice[k] = IF k = 0 THEN <<>>
                                ELSE IF lines[k] \in Marks THEN choice[k - 1]
                                ELSE Append(choice[k - 1], lines[k])
  BY <1>2 DEF IsOwn
<1>5. choice[0] = <<>>
  BY <1>1, <1>4
<1>6. ASSUME NEW k \in 1..n
      PROVE  choice[k] = IF lines[k] \in Marks THEN choice[k - 1] ELSE Append(choice[k - 1], lines[k])
  BY <1>1, <1>4
<1> QED
  BY <1>1, <1>3, <1>5, <1>6

\* A line of 8v's at either end is none of the user's.
LEMMA OwnKept ==
  ASSUME NEW S, NEW lines \in Seq(S), NEW mark \in S, mark \in Marks
  PROVE  OwnLines(lines \o <<mark>>) = OwnLines(lines) /\ OwnLines(<<mark>> \o lines) = OwnLines(lines)
<1> PICK n \in Nat : n = Len(lines)
  OBVIOUS
<1>1. <<mark>> \in Seq(S) /\ Len(<<mark>>) = 1 /\ <<mark>>[1] = mark
  OBVIOUS
<1>2. PICK own : /\ own[0] = <<>> /\ OwnLines(lines) = own[n]
                 /\ \A k \in 1..n : own[k] = IF lines[k] \in Marks THEN own[k - 1] ELSE Append(own[k - 1], lines[k])
  BY OwnSteps
<1>3. OwnLines(lines \o <<mark>>) = OwnLines(lines)
  <2> PICK new : new = lines \o <<mark>>
    OBVIOUS
  <2>1. /\ new \in Seq(S) /\ Len(new) = n + 1 /\ \A i \in 1..n : new[i] = lines[i]
        /\ new[n + 1] = mark
    <3>1. /\ new \in Seq(S) /\ Len(new) = n + 1
          /\ \A i \in 1..n + 1 : new[i] = IF i <= n THEN lines[i] ELSE <<mark>>[i - n]
      BY <1>1, ConcatProperties
    <3> QED
      BY <1>1, <3>1
  <2>2. PICK seen : /\ seen[0] = <<>> /\ OwnLines(new) = seen[n + 1]
                    /\ \A k \in 1..n + 1 : seen[k] = IF new[k] \in Marks THEN seen[k - 1] ELSE Append(seen[k - 1], new[k])
    <3>1. PICK m : m = Len(new)
      OBVIOUS
    <3>2. new \in Seq(S) /\ m = n + 1
      BY <2>1, <3>1
    <3>3. PICK seen : /\ seen[0] = <<>> /\ OwnLines(new) = seen[m]
                      /\ \A k \in 1..m : seen[k] = IF new[k] \in Marks THEN seen[k - 1] ELSE Append(seen[k - 1], new[k])
      BY <3>1, <3>2, OwnSteps
    <3> QED
      BY <3>2, <3>3
  <2> DEFINE Good == {k \in Nat : k <= n => seen[k] = own[k]}
  <2>3. 0 \in Good
    BY <1>2, <2>2
  <2>4. ASSUME NEW k \in Nat, k \in Good
        PROVE  k + 1 \in Good
    <3> SUFFICES ASSUME k + 1 <= n PROVE seen[k + 1] = own[k + 1]
      OBVIOUS
    <3>1. seen[k] = own[k] /\ k + 1 \in 1..n /\ k + 1 \in 1..n + 1 /\ (k + 1) - 1 = k
      BY <2>4
    <3>2. new[k + 1] = lines[k + 1]
      BY <2>1, <3>1
    <3>3. own[k + 1] = IF lines[k + 1] \in Marks THEN own[k] ELSE Append(own[k], lines[k + 1])
      BY <1>2, <3>1
    <3>4. seen[k + 1] = IF new[k + 1] \in Marks THEN seen[k] ELSE Append(seen[k], new[k + 1])
      BY <2>2, <3>1
    <3> QED
      BY <3>1, <3>2, <3>3, <3>4
  <2> HIDE DEF Good
  <2>5. n \in Good
    BY <2>3, <2>4, SetInduction
  <2>6. seen[n] = own[n]
    BY <2>5 DEF Good
  <2>7. seen[n + 1] = seen[n]
    <3>1. n + 1 \in 1..n + 1 /\ (n + 1) - 1 = n
      OBVIOUS
    <3> QED
      BY <2>1, <2>2, <3>1
  <2> QED
    BY <1>2, <2>2, <2>6, <2>7
<1>4. OwnLines(<<mark>> \o lines) = OwnLines(lines)
  <2> PICK new : new = <<mark>> \o lines
    OBVIOUS
  <2>1. /\ new \in Seq(S) /\ Len(new) = n + 1 /\ \A i \in 1..n : new[i + 1] = lines[i]
        /\ new[1] = mark
    <3>1. /\ new \in Seq(S) /\ Len(new) = 1 + n
          /\ \A i \in 1..1 + n : new[i] = IF i <= 1 THEN <<mark>>[i] ELSE lines[i - 1]
      BY <1>1, ConcatProperties
    <3>2. ASSUME NEW i \in 1..n
          PROVE  new[i + 1] = lines[i]
      <4>1. i + 1 \in 1..1 + n /\ ~(i + 1 <= 1) /\ (i + 1) - 1 = i
        OBVIOUS
      <4> QED
        BY <3>1, <4>1
    <3>3. new[1] = mark
      BY <1>1, <3>1
    <3> QED
      BY <3>1, <3>2, <3>3
  <2>2. PICK seen : /\ seen[0] = <<>> /\ OwnLines(new) = seen[n + 1]
                    /\ \A k \in 1..n + 1 : seen[k] = IF new[k] \in Marks THEN seen[k - 1] ELSE Append(seen[k - 1], new[k])
    <3>1. PICK m : m = Len(new)
      OBVIOUS
    <3>2. new \in Seq(S) /\ m = n + 1
      BY <2>1, <3>1
    <3>3. PICK seen : /\ seen[0] = <<>> /\ OwnLines(new) = seen[m]
                      /\ \A k \in 1..m : seen[k] = IF new[k] \in Marks THEN seen[k - 1] ELSE Append(seen[k - 1], new[k])
      BY <3>1, <3>2, OwnSteps
    <3> QED
      BY <3>2, <3>3
  <2> DEFINE Good == {k \in Nat : k <= n => seen[k + 1] = own[k]}
  <2>3. 0 \in Good
    <3>1. 1 \in 1..n + 1 /\ 1 - 1 = 0 /\ 0 + 1 = 1
      OBVIOUS
    <3>2. seen[1] = seen[0]
      BY <2>1, <2>2, <3>1
    <3> QED
      BY <1>2, <2>2, <3>1, <3>2
  <2>4. ASSUME NEW k \in Nat, k \in Good
        PROVE  k + 1 \in Good
    <3> SUFFICES ASSUME k + 1 <= n PROVE seen[(k + 1) + 1] = own[k + 1]
      OBVIOUS
    <3>1. seen[k + 1] = own[k] /\ k + 1 \in 1..n /\ (k + 1) + 1 \in 1..n + 1 /\ (k + 1) - 1 = k
          /\ ((k + 1) + 1) - 1 = k + 1
      BY <2>4
    <3>2. new[(k + 1) + 1] = lines[k + 1]
      BY <2>1, <3>1
    <3>3. own[k + 1] = IF lines[k + 1] \in Marks THEN own[k] ELSE Append(own[k], lines[k + 1])
      BY <1>2, <3>1
    <3>4. seen[(k + 1) + 1] = IF new[(k + 1) + 1] \in Marks THEN seen[k + 1] ELSE Append(seen[k + 1], new[(k + 1) + 1])
      BY <2>2, <3>1
    <3> QED
      BY <3>1, <3>2, <3>3, <3>4
  <2> HIDE DEF Good
  <2>5. n \in Good
    BY <2>3, <2>4, SetInduction
  <2>6. seen[n + 1] = own[n]
    BY <2>5 DEF Good
  <2> QED
    BY <1>2, <2>2, <2>6
<1> QED
  BY <1>3, <1>4

\* install_git_hook: the line is there, or the user keeps the hook apart; other lines stay.
LEMMA GitHookPlaces ==
  ASSUME NEW hook \in {"precommit", "commitmsg"}, NEW h, h = NoFile \/ h \in ContentOf(hook),
         NEW place \in {"skip", "before", "after"}, NEW new, new = InstallGitHook(h, hook, place)
  PROVE  /\ new \in ContentOf(hook) /\ new # NoFile /\ (place = "skip" \/ HasMarker(new.lines, hook))
         /\ HasMarker(new.lines, hook) \/ (h # NoFile /\ new = h)
         /\ h # NoFile /\ (place = "skip" \/ HasMarker(h.lines, hook)) => new = h
         /\ h # NoFile => OwnLines(new.lines) = OwnLines(h.lines)
<1> DEFINE Lines == {"#!", "own", "on-commit", "on-commit-msg"}
<1>1. ContentOf(hook) = [lines : Seq(Lines), x : BOOLEAN]
  BY ContentShapes
<1>2. PICK line : line = HookLine[hook] /\ line \in Lines /\ line \in Marks
  BY DEF HookLine, Marks
<1>3. NoFile \notin ContentOf(hook)
  BY Distinct DEF ReadFiles, Files
<1> HIDE DEF Lines
<1>4. \A lines : Contains(lines, line) => HasMarker(lines, hook)
  BY <1>2 DEF HasMarker
<1>5. <<line>> \in Seq(Lines) /\ Contains(<<line>>, line)
  BY <1>2 DEF Contains
<1>6. CASE h = NoFile
  <2>1. new = [lines |-> <<"#!", line>>, x |-> FALSE]
    BY <1>2, <1>6 DEF InstallGitHook
  <2>2. <<"#!", line>> \in Seq(Lines) /\ Contains(<<"#!", line>>, line)
    BY <1>2 DEF Contains, Lines
  <2>3. new \in ContentOf(hook) /\ new.lines = <<"#!", line>>
    BY <1>1, <2>1, <2>2
  <2> QED
    BY <1>3, <1>4, <1>6, <2>2, <2>3
<1>7. CASE h # NoFile /\ (place = "skip" \/ HasMarker(h.lines, hook))
  <2>1. new = h
    BY <1>7 DEF InstallGitHook
  <2> QED
    BY <1>3, <1>7, <2>1
<1>8. CASE h # NoFile /\ ~(place = "skip" \/ HasMarker(h.lines, hook))
  <2>1. PICK lines : /\ lines = IF place = "before" THEN <<line>> \o h.lines ELSE h.lines \o <<line>>
    OBVIOUS
  <2>2. new = [h EXCEPT !.lines = lines]
    BY <1>2, <1>8, <2>1 DEF InstallGitHook
  <2>3. h \in [lines : Seq(Lines), x : BOOLEAN] /\ h.lines \in Seq(Lines)
    BY <1>1, <1>8
  <2>4. lines \in Seq(Lines) /\ Contains(lines, line)
    BY <1>2, <1>5, <2>1, <2>3, Concatenated
  <2>5. new \in ContentOf(hook) /\ new.lines = lines
    BY <1>1, <2>2, <2>3, <2>4
  <2>6. OwnLines(lines) = OwnLines(h.lines)
    BY <1>2, <2>1, <2>3, OwnKept
  <2> QED
    BY <1>3, <1>4, <1>8, <2>4, <2>5, <2>6
<1> QED
  BY <1>6, <1>7, <1>8

\* What is added to the lists of settings.json.
LEMMA ListTypes ==
  /\ McpToolPermission \in Seq(ToolNames) /\ DeniedNativeTools \in Seq(ToolNames)
  /\ ClaudeHookEvents \o ObservabilityHooks \in Seq(HookEntries)
<1>1. McpToolPermission \in Seq(ToSet(McpToolPermission))
  BY DEF McpToolPermission, ToSet
<1>2. DeniedNativeTools \in Seq(ToSet(DeniedNativeTools))
  BY DEF DeniedNativeTools, ToSet
<1>3. ClaudeHookEvents \in Seq(ToSet(ClaudeHookEvents))
  <2>1. DOMAIN ClaudeHookEvents = 1..8 /\ Len(ClaudeHookEvents) = 8
    BY DEF ClaudeHookEvents
  <2>2. ClaudeHookEvents = [i \in 1..8 |-> ClaudeHookEvents[i]]
    BY DEF ClaudeHookEvents
  <2>3. \A i \in 1..8 : ClaudeHookEvents[i] \in ToSet(ClaudeHookEvents)
    BY <2>1 DEF ToSet
  <2> QED
    BY <2>2, <2>3, SeqDef
<1>4. ObservabilityHooks \in Seq(ToSet(ObservabilityHooks))
  <2>1. DOMAIN ObservabilityHooks = 1..2
    BY DEF ObservabilityHooks
  <2>2. ObservabilityHooks = [i \in 1..2 |-> ObservabilityHooks[i]]
    BY DEF ObservabilityHooks
  <2>3. \A i \in 1..2 : ObservabilityHooks[i] \in ToSet(ObservabilityHooks)
    BY <2>1 DEF ToSet
  <2> QED
    BY <2>2, <2>3, SeqDef
<1>5. McpToolPermission \in Seq(ToolNames) /\ DeniedNativeTools \in Seq(ToolNames)
  BY <1>1, <1>2, SeqMonotonic DEF ToolNames
<1>6. ClaudeHookEvents \in Seq(HookEntries) /\ ObservabilityHooks \in Seq(HookEntries)
  BY <1>3, <1>4, SeqMonotonic DEF HookEntries
<1> QED
  BY <1>5, <1>6, ConcatProperties

\* ReadSettings: a file without settings is read as empty ones.
LEMMA SettingsRead ==
  ASSUME NEW doc, doc \in {NoFile, Blank} \/ doc \in ContentOf("settings")
  PROVE  /\ ReadSettings(doc) \in ContentOf("settings")
         /\ doc \in ContentOf("settings") => ReadSettings(doc) = doc
<1>1. doc \in ContentOf("settings") => doc \notin {NoFile, Blank}
  BY Distinct DEF JsonFiles, ReadFiles, Files, NotJson
<1>2. NoSettings \in ContentOf("settings")
  <2>1. NoSettings = [allow |-> <<>>, deny |-> <<>>, hooks |-> <<>>, keys |-> {}]
    BY DEF NoSettings
  <2>2. <<>> \in Seq(ToolNames) /\ <<>> \in Seq(HookEntries)
    BY EmptySeq
  <2> QED
    BY <2>1, <2>2, ContentShapes
<1> QED
  BY <1>1, <1>2 DEF ReadSettings

\* The parts of settings.
LEMMA SettingsParts ==
  ASSUME NEW s \in ContentOf("settings")
  PROVE  /\ s \in [allow : Seq(ToolNames), deny : Seq(ToolNames), hooks : Seq(HookEntries),
                   keys : SUBSET {"top", "permissions", "hook"}]
         /\ s.allow \in Seq(ToolNames) /\ s.deny \in Seq(ToolNames) /\ s.hooks \in Seq(HookEntries)
         /\ s.keys \in SUBSET {"top", "permissions", "hook"}
<1> PICK Tools : Tools = Seq(ToolNames)
  OBVIOUS
<1> PICK Hooks : Hooks = Seq(HookEntries)
  OBVIOUS
<1> PICK Keys : Keys = SUBSET {"top", "permissions", "hook"}
  OBVIOUS
<1>1. s \in [allow : Tools, deny : Tools, hooks : Hooks, keys : Keys]
  BY ContentShapes
<1>2. s.allow \in Tools /\ s.deny \in Tools /\ s.hooks \in Hooks /\ s.keys \in Keys
  BY <1>1
<1> QED
  BY <1>1, <1>2

\* merge_permissions
LEMMA PermissionsMerged ==
  ASSUME NEW doc, doc \in {NoFile, Blank} \/ doc \in ContentOf("settings"),
         NEW new, new = MergePermissions(doc)
  PROVE  /\ new \in ContentOf("settings") /\ "permissions" \notin new.keys
         /\ ToSet(McpToolPermission) \subseteq ToSet(new.allow)
         /\ ToSet(DeniedNativeTools) \subseteq ToSet(new.deny)
         /\ doc \in ContentOf("settings") => /\ new.hooks = doc.hooks /\ new.keys \subseteq doc.keys
                                             /\ IsPrefix(doc.allow, new.allow) /\ IsPrefix(doc.deny, new.deny)
<1>1. PICK s : s = ReadSettings(doc)
  OBVIOUS
<1>2. s \in ContentOf("settings") /\ (doc \in ContentOf("settings") => s = doc)
  BY <1>1, SettingsRead
<1>3. PICK allow : allow = AddMissing(s.allow, McpToolPermission)
  OBVIOUS
<1>4. PICK deny : deny = AddMissing(s.deny, DeniedNativeTools)
  OBVIOUS
<1>5. PICK keys : keys = s.keys \ {"permissions"}
  OBVIOUS
<1>6. new = [s EXCEPT !.allow = allow, !.deny = deny, !.keys = keys]
  BY <1>1, <1>3, <1>4, <1>5 DEF MergePermissions
<1>7. allow \in Seq(ToolNames) /\ ToSet(McpToolPermission) \subseteq ToSet(allow) /\ IsPrefix(s.allow, allow)
  BY <1>2, <1>3, SettingsParts, ListTypes, Added
<1>8. deny \in Seq(ToolNames) /\ ToSet(DeniedNativeTools) \subseteq ToSet(deny) /\ IsPrefix(s.deny, deny)
  BY <1>2, <1>4, SettingsParts, ListTypes, Added
<1>9. /\ new.allow = allow /\ new.deny = deny /\ new.keys = keys /\ new.hooks = s.hooks
      /\ new \in [allow : Seq(ToolNames), deny : Seq(ToolNames), hooks : Seq(HookEntries),
                  keys : SUBSET {"top", "permissions", "hook"}]
  BY <1>2, <1>5, <1>6, <1>7, <1>8, SettingsParts
<1> QED
  BY <1>2, <1>5, <1>7, <1>8, <1>9, ContentShapes

\* install_claude_hooks
LEMMA ClaudeHooksInstalled ==
  ASSUME NEW doc, doc \in {NoFile, Blank} \/ doc \in ContentOf("settings"),
         NEW new, new = InstallClaudeHooks(doc)
  PROVE  /\ new \in ContentOf("settings") /\ "hook" \notin new.keys
         /\ ToSet(ClaudeHookEvents \o ObservabilityHooks) \subseteq ToSet(new.hooks)
         /\ doc \in ContentOf("settings") => /\ new.deny = doc.deny
                                             /\ IsPrefix(doc.allow, new.allow) /\ IsPrefix(doc.hooks, new.hooks)
<1>1. PICK s : s = ReadSettings(doc)
  OBVIOUS
<1>2. s \in ContentOf("settings") /\ (doc \in ContentOf("settings") => s = doc)
  BY <1>1, SettingsRead
<1>3. PICK allow : allow = AddMissing(s.allow, McpToolPermission)
  OBVIOUS
<1>4. PICK hooks : hooks = AddMissing(s.hooks, ClaudeHookEvents \o ObservabilityHooks)
  OBVIOUS
<1>5. PICK keys : keys = s.keys \ {"permissions", "hook"}
  OBVIOUS
<1>6. new = [s EXCEPT !.hooks = hooks, !.allow = allow, !.keys = keys]
  BY <1>1, <1>3, <1>4, <1>5 DEF InstallClaudeHooks
<1>7. allow \in Seq(ToolNames) /\ IsPrefix(s.allow, allow)
  BY <1>2, <1>3, SettingsParts, ListTypes, Added
<1>8. /\ hooks \in Seq(HookEntries) /\ ToSet(ClaudeHookEvents \o ObservabilityHooks) \subseteq ToSet(hooks)
      /\ IsPrefix(s.hooks, hooks)
  <2>1. PICK wanted : wanted = ClaudeHookEvents \o ObservabilityHooks
    OBVIOUS
  <2>2. PICK old \in Seq(HookEntries) : old = s.hooks
    BY <1>2, SettingsParts
  <2>3. wanted \in Seq(HookEntries) /\ hooks = AddMissing(old, wanted)
    BY <1>4, <2>1, <2>2, ListTypes
  <2>4. hooks \in Seq(HookEntries) /\ ToSet(wanted) \subseteq ToSet(hooks) /\ IsPrefix(old, hooks)
    BY <2>2, <2>3, Added
  <2> QED
    BY <2>1, <2>2, <2>4
<1>9. /\ new.hooks = hooks /\ new.keys = keys /\ new.allow = allow /\ new.deny = s.deny
      /\ new \in [allow : Seq(ToolNames), deny : Seq(ToolNames), hooks : Seq(HookEntries),
                  keys : SUBSET {"top", "permissions", "hook"}]
  BY <1>2, <1>5, <1>6, <1>7, <1>8, SettingsParts
<1> QED
  BY <1>2, <1>5, <1>7, <1>8, <1>9, ContentShapes

\* Both leave alone what has everything.
LEMMA SettingsQuiet ==
  ASSUME NEW doc, PermissionsPlaced(doc)
  PROVE  /\ MergePermissions(doc) = doc
         /\ ClaudeHooksPlaced(doc) => InstallClaudeHooks(doc) = doc
<1>1. doc \in ContentOf("settings") /\ "permissions" \notin doc.keys
      /\ ToSet(McpToolPermission) \subseteq ToSet(doc.allow)
      /\ ToSet(DeniedNativeTools) \subseteq ToSet(doc.deny)
  BY DEF PermissionsPlaced
<1>2. ReadSettings(doc) = doc
  BY <1>1, SettingsRead
<1>3. AddMissing(doc.allow, McpToolPermission) = doc.allow /\ AddMissing(doc.deny, DeniedNativeTools) = doc.deny
  BY <1>1, SettingsParts, ListTypes, Added
<1>4. MergePermissions(doc) = doc
  <2>1. doc.keys \ {"permissions"} = doc.keys
    BY <1>1
  <2>2. MergePermissions(doc) = [doc EXCEPT !.allow = doc.allow, !.deny = doc.deny, !.keys = doc.keys]
    BY <1>2, <1>3, <2>1 DEF MergePermissions
  <2> QED
    BY <1>1, <2>2, SettingsParts
<1>5. ASSUME ClaudeHooksPlaced(doc)
      PROVE  InstallClaudeHooks(doc) = doc
  <2>1. "hook" \notin doc.keys /\ ToSet(ClaudeHookEvents \o ObservabilityHooks) \subseteq ToSet(doc.hooks)
    BY <1>5 DEF ClaudeHooksPlaced
  <2>2. doc.keys \ {"permissions", "hook"} = doc.keys
    BY <1>1, <2>1
  <2>3. AddMissing(doc.hooks, ClaudeHookEvents \o ObservabilityHooks) = doc.hooks
    <3>1. PICK wanted : wanted = ClaudeHookEvents \o ObservabilityHooks
      OBVIOUS
    <3>2. PICK hooks \in Seq(HookEntries) : hooks = doc.hooks
      BY <1>1, SettingsParts
    <3>3. wanted \in Seq(HookEntries) /\ ToSet(wanted) \subseteq ToSet(hooks)
      BY <2>1, <3>1, <3>2, ListTypes
    <3>4. AddMissing(hooks, wanted) = hooks
      BY <3>2, <3>3, Added
    <3> QED
      BY <3>1, <3>2, <3>4
  <2>4. InstallClaudeHooks(doc) = [doc EXCEPT !.hooks = doc.hooks, !.allow = doc.allow, !.keys = doc.keys]
    BY <1>2, <1>3, <2>2, <2>3 DEF InstallClaudeHooks
  <2> QED
    BY <1>1, <2>4, SettingsParts
<1> QED
  BY <1>4, <1>5

-----------------------------------------------------------------------------
(* One step of a run *)

\* The steps in their order.
LEMMA StepNames ==
  /\ Len(Steps) = 12
  /\ Steps[1] = "config" /\ Steps[2] = "registry" /\ Steps[3] = "mcp" /\ Steps[4] = "claude"
  /\ Steps[5] = "agents" /\ Steps[6] = "aider" /\ Steps[7] = "precommit" /\ Steps[8] = "precommitMode"
  /\ Steps[9] = "commitmsg" /\ Steps[10] = "commitmsgMode" /\ Steps[11] = "hooks" /\ Steps[12] = "settings"
  BY DEF Steps

\* The file of each step.
LEMMA StepFiles ==
  /\ FileOf("config") = "config" /\ FileOf("registry") = "registry" /\ FileOf("mcp") = "mcp"
  /\ FileOf("claude") = "claude" /\ FileOf("agents") = "agents" /\ FileOf("aider") = "aider"
  /\ FileOf("precommit") = "precommit" /\ FileOf("precommitMode") = "precommit"
  /\ FileOf("commitmsg") = "commitmsg" /\ FileOf("commitmsgMode") = "commitmsg"
  /\ FileOf("hooks") = "settings" /\ FileOf("settings") = "settings"
  BY Zenon DEF FileOf

\* When each step is wanted.
LEMMA StepsWanted ==
  ASSUME NEW a
  PROVE  /\ (Wanted("config", a) <=> ~a.home)
         /\ (Wanted("registry", a) <=> a.home)
         /\ (Wanted("mcp", a) <=> ("mcp" \in a.wants))
         /\ (Wanted("claude", a) <=> ("claude" \in a.wants))
         /\ (Wanted("agents", a) <=> ("agents" \in a.wants))
         /\ (Wanted("aider", a) <=> ("aider" \in a.wants /\ disk["aider"] # NoFile))
         /\ (Wanted("precommit", a) <=> ("precommit" \in a.wants /\ disk["git"] # NoFile))
         /\ (Wanted("commitmsg", a) <=> ("commitmsg" \in a.wants /\ disk["git"] # NoFile))
         /\ (Wanted("precommitMode", a) <=> ("precommit" \in run.wrote))
         /\ (Wanted("commitmsgMode", a) <=> ("commitmsg" \in run.wrote))
         /\ (Wanted("hooks", a) <=> (~a.yes /\ "hooks" \in a.wants))
         /\ Wanted("settings", a)
<1>1. (Wanted("config", a) <=> ~a.home) /\ (Wanted("registry", a) <=> a.home)
  BY Zenon DEF Wanted
<1>2. (Wanted("mcp", a) <=> ("mcp" \in a.wants)) /\ (Wanted("claude", a) <=> ("claude" \in a.wants))
  BY Zenon DEF Wanted
<1>3. (Wanted("agents", a) <=> ("agents" \in a.wants))
  BY Zenon DEF Wanted
<1>4. (Wanted("aider", a) <=> ("aider" \in a.wants /\ disk["aider"] # NoFile))
  BY Zenon DEF Wanted
<1>5. (Wanted("precommit", a) <=> ("precommit" \in a.wants /\ disk["git"] # NoFile))
  BY Zenon DEF Wanted, Git
<1>6. (Wanted("commitmsg", a) <=> ("commitmsg" \in a.wants /\ disk["git"] # NoFile))
  BY Zenon DEF Wanted, Git
<1>7. (Wanted("precommitMode", a) <=> ("precommit" \in run.wrote))
  BY Zenon, StepFiles DEF Wanted
<1>8. (Wanted("commitmsgMode", a) <=> ("commitmsg" \in run.wrote))
  BY Zenon, StepFiles DEF Wanted
<1>9. (Wanted("hooks", a) <=> (~a.yes /\ "hooks" \in a.wants)) /\ Wanted("settings", a)
  BY Zenon DEF Wanted
<1> QED
  BY <1>1, <1>2, <1>3, <1>4, <1>5, <1>6, <1>7, <1>8, <1>9

\* What a step leaves that is wanted and does not fail.
LEMMA StepsWritten ==
  ASSUME NEW a
  PROVE  /\ disk["config"] # NoFile => Written("config", a) = disk["config"]
         /\ disk["config"] = NoFile => Written("config", a) = "default"
         /\ Written("registry", a) = RegisterWorkspace(disk["registry"])
         /\ Written("mcp", a) = SetupMcpJson(disk["mcp"], a.name)
         /\ ClaudeIsDone => Written("claude", a) = disk["claude"]
         /\ ~ClaudeIsDone => Written("claude", a) = UpsertVersionedBlock(disk["claude"])
         /\ Written("agents", a) = UpsertVersionedBlock(disk["agents"])
         /\ Written("aider", a) = "ours"
         /\ Written("precommit", a) = InstallGitHook(disk["precommit"], "precommit", a.place)
         /\ Written("commitmsg", a) = InstallGitHook(disk["commitmsg"], "commitmsg", a.place)
         /\ Written("precommitMode", a) = [disk["precommit"] EXCEPT !.x = TRUE]
         /\ Written("commitmsgMode", a) = [disk["commitmsg"] EXCEPT !.x = TRUE]
         /\ Written("hooks", a) = InstallClaudeHooks(disk["settings"])
         /\ Written("settings", a) = MergePermissions(disk["settings"])
<1>1. /\ disk["config"] # NoFile => Written("config", a) = disk["config"]
      /\ disk["config"] = NoFile => Written("config", a) = "default"
  BY Zenon, StepFiles DEF Written
<1>2. Written("registry", a) = RegisterWorkspace(disk["registry"])
  BY Zenon, StepFiles DEF Written
<1>3. Written("mcp", a) = SetupMcpJson(disk["mcp"], a.name)
  BY Zenon, StepFiles DEF Written
<1>4. /\ ClaudeIsDone => Written("claude", a) = disk["claude"]
      /\ ~ClaudeIsDone => Written("claude", a) = UpsertVersionedBlock(disk["claude"])
  BY Zenon, StepFiles DEF Written
<1>5. Written("agents", a) = UpsertVersionedBlock(disk["agents"]) /\ Written("aider", a) = "ours"
  BY Zenon, StepFiles DEF Written
<1>6. Written("precommit", a) = InstallGitHook(disk["precommit"], "precommit", a.place)
  BY Zenon, StepFiles DEF Written
<1>7. Written("commitmsg", a) = InstallGitHook(disk["commitmsg"], "commitmsg", a.place)
  BY Zenon, StepFiles DEF Written
<1>8. Written("precommitMode", a) = [disk["precommit"] EXCEPT !.x = TRUE]
  BY Zenon, StepFiles DEF Written
<1>9. Written("commitmsgMode", a) = [disk["commitmsg"] EXCEPT !.x = TRUE]
  BY Zenon, StepFiles DEF Written
<1>10. Written("hooks", a) = InstallClaudeHooks(disk["settings"])
  BY Zenon, StepFiles DEF Written
<1>11. Written("settings", a) = MergePermissions(disk["settings"])
  BY Zenon, StepFiles DEF Written
<1> QED
  BY <1>1, <1>2, <1>3, <1>4, <1>5, <1>6, <1>7, <1>8, <1>9, <1>10, <1>11

\* What a step relies on that does not fail.
LEMMA StepsFail ==
  ASSUME NEW a
  PROVE  /\ ~Fails("mcp", a) => \/ disk["mcp"] \in {NoFile, Blank, NotAnObject}
                                \/ disk["mcp"] \notin {Broken} /\ disk["mcp"].servers # NotAnObject
         /\ ~Fails("claude", a) => ClaudeIsDone \/ ~IsMalformed(disk["claude"])
         /\ ~Fails("agents", a) => ~IsMalformed(disk["agents"])
         /\ ~Fails("hooks", a) => disk["settings"] \notin {Broken, NotAnObject}
         /\ ~Fails("settings", a) => disk["settings"] \notin {Broken, NotAnObject}
<1>1. ~Fails("mcp", a) => \/ disk["mcp"] \in {NoFile, Blank, NotAnObject}
                          \/ disk["mcp"] \notin {Broken} /\ disk["mcp"].servers # NotAnObject
  BY Zenon, StepFiles DEF Fails
<1>2. ~Fails("claude", a) => ClaudeIsDone \/ ~IsMalformed(disk["claude"])
  BY Zenon, StepFiles DEF Fails, ClaudeIsDone
<1>3. ~Fails("agents", a) => ~IsMalformed(disk["agents"])
  BY Zenon, StepFiles DEF Fails
<1>4. /\ ~Fails("hooks", a) => disk["settings"] \notin {Broken, NotAnObject}
      /\ ~Fails("settings", a) => disk["settings"] \notin {Broken, NotAnObject}
  BY Zenon, StepFiles DEF Fails
<1> QED
  BY <1>1, <1>2, <1>3, <1>4

\* A step that is not wanted has nothing to put in place.
LEMMA SkipPlaces ==
  ASSUME NEW a \in Answers, NEW n \in 1..12, ~Wanted(Steps[n], a), Placed(disk, a, n)
  PROVE  Placed(disk, a, n + 1)
<1>1. CASE n = 1
  BY <1>1, StepNames, StepsWanted DEF Placed
<1>2. CASE n = 2
  BY <1>2, StepNames, StepsWanted DEF Placed
<1>3. CASE n = 3
  BY <1>3, StepNames, StepsWanted DEF Placed
<1>4. CASE n = 4
  BY <1>4, StepNames, StepsWanted DEF Placed
<1>5. CASE n = 5
  BY <1>5, StepNames, StepsWanted DEF Placed
<1>6. CASE n = 6
  BY <1>6, StepNames, StepsWanted DEF Placed
<1>7. CASE n = 7
  BY <1>7, StepNames, StepsWanted DEF Placed
<1>8. CASE n = 8 \/ n = 10
  BY <1>8 DEF Placed
<1>9. CASE n = 9
  BY <1>9, StepNames, StepsWanted DEF Placed
<1>10. CASE n = 11
  BY <1>10, StepNames, StepsWanted DEF Placed
<1>11. CASE n = 12
  BY <1>11, StepNames, StepsWanted DEF Placed
<1> QED
  BY <1>1, <1>2, <1>3, <1>4, <1>5, <1>6, <1>7, <1>8, <1>9, <1>10, <1>11

\* The disk d is the one of now with one file's content replaced.
Replaced(d, file, new) == d = [disk EXCEPT ![file] = new]

LEMMA DiskAfter ==
  ASSUME IsDisk(disk), NEW file \in Files, NEW new, NEW d, Replaced(d, file, new),
         file \in ReadFiles => new \in ContentOf(file) \/ (file \in JsonFiles /\ new \in NotJson)
  PROVE  /\ IsDisk(d) /\ d[file] = new /\ \A f \in Files \ {file} : d[f] = disk[f]
         /\ new = disk[file] => d = disk
<1>1. DOMAIN d = Files /\ d[file] = new /\ \A f \in Files \ {file} : d[f] = disk[f]
  BY DEF IsDisk, Replaced
<1>2. IsDisk(d)
  <2>1. d = [f \in Files |-> d[f]]
    BY DEF IsDisk, Replaced
  <2>2. ASSUME NEW f \in ReadFiles
        PROVE  \/ d[f] = NoFile \/ d[f] \in ContentOf(f)
               \/ f \in JsonFiles /\ d[f] \in NotJson
    BY <1>1 DEF IsDisk, ReadFiles
  <2> QED
    BY <2>1, <2>2 DEF IsDisk
<1>3. new = disk[file] => d = disk
  BY DEF IsDisk, Replaced
<1> QED
  BY <1>1, <1>2, <1>3


\* A step that is wanted and does not fail, on the disk d it leaves.
Done(step, a, d) ==
  Wanted(step, a) /\ ~Fails(step, a) /\ d = [disk EXCEPT ![FileOf(step)] = Written(step, a)]

\* What that disk is: one on which the first n steps are done, and the same as before if
\* all of them had been done already.
Right(n, a, d) ==
  /\ IsDisk(d) /\ Placed(d, a, n + 1)
  /\ Placed(disk, a, 13) /\ run.wrote = {} => d = disk

\* The steps one by one.
LEMMA ConfigStep ==
  ASSUME IsDisk(disk), NEW a \in Answers, Placed(disk, a, 1), NEW d, Done("config", a, d)
  PROVE  Right(1, a, d)
<1>1. PICK new : new = Written("config", a)
  OBVIOUS
<1>2. Replaced(d, "config", new)
  BY <1>1, StepFiles DEF Done, Replaced
<1>3. new # NoFile /\ (disk["config"] # NoFile => new = disk["config"])
  BY <1>1, StepsWritten, Distinct
<1>4. IsDisk(d) /\ d["config"] = new /\ (new = disk["config"] => d = disk)
  BY <1>2, DiskAfter DEF Files, ReadFiles
<1>5. ~a.home
  BY StepsWanted DEF Done
<1> QED
  BY <1>3, <1>4, <1>5 DEF Right, Placed

LEMMA RegistryStep ==
  ASSUME IsDisk(disk), NEW a \in Answers, Placed(disk, a, 2), NEW d, Done("registry", a, d)
  PROVE  Right(2, a, d)
<1>1. PICK new : new = Written("registry", a)
  OBVIOUS
<1>2. Replaced(d, "registry", new)
  BY <1>1, StepFiles DEF Done, Replaced
<1>3. Registered(new) /\ (Registered(disk["registry"]) => new = disk["registry"])
  <2>1. NoFile \notin ContentOf("registry")
    BY Distinct DEF ReadFiles, Files
  <2>2. disk["registry"] = NoFile \/ disk["registry"] \in ContentOf("registry")
    BY Contents
  <2>3. new = RegisterWorkspace(disk["registry"])
    BY <1>1, StepsWritten
  <2> QED
    BY <2>1, <2>2, <2>3, RegisterPlaces DEF Registered
<1>4. new \in ContentOf("registry")
  BY <1>3 DEF Registered
<1>5. /\ IsDisk(d) /\ d["registry"] = new /\ \A f \in Files \ {"registry"} : d[f] = disk[f]
      /\ new = disk["registry"] => d = disk
  BY <1>2, <1>4, DiskAfter DEF Files
<1>6. d["config"] = disk["config"]
  BY <1>5 DEF Files
<1>7. a.home
  BY StepsWanted DEF Done
<1> QED
  BY <1>3, <1>5, <1>6, <1>7 DEF Right, Placed

LEMMA McpStep ==
  ASSUME IsDisk(disk), NEW a \in Answers, Placed(disk, a, 3), NEW d, Done("mcp", a, d)
  PROVE  Right(3, a, d)
<1>1. PICK new : new = Written("mcp", a)
  OBVIOUS
<1>2. Replaced(d, "mcp", new)
  BY <1>1, StepFiles DEF Done, Replaced
<1>3. McpPlaced(new, a.name) /\ (McpPlaced(disk["mcp"], a.name) => new = disk["mcp"])
  <2>1. \/ disk["mcp"] \in {NoFile, Blank, NotAnObject}
        \/ disk["mcp"] \in ContentOf("mcp") /\ disk["mcp"].servers # NotAnObject
    BY Contents, StepsFail DEF Done, NotJson
  <2>2. a.name \in ServerNames
    BY AnswerTypes
  <2>3. new = SetupMcpJson(disk["mcp"], a.name)
    BY <1>1, StepsWritten
  <2> QED
    BY <2>1, <2>2, <2>3, McpPlaces DEF McpPlaced
<1>4. new \in ContentOf("mcp") \/ new \in NotJson
  BY <1>3 DEF McpPlaced, NotJson
<1>5. /\ IsDisk(d) /\ d["mcp"] = new /\ \A f \in Files \ {"mcp"} : d[f] = disk[f]
      /\ new = disk["mcp"] => d = disk
  BY <1>2, <1>4, DiskAfter DEF Files, JsonFiles
<1>6. d["config"] = disk["config"] /\ d["registry"] = disk["registry"]
  BY <1>5 DEF Files
<1>7. "mcp" \in a.wants
  BY StepsWanted DEF Done
<1> QED
  BY <1>3, <1>5, <1>6, <1>7 DEF Right, Placed

LEMMA ClaudeStep ==
  ASSUME IsDisk(disk), NEW a \in Answers, Placed(disk, a, 4), NEW d, Done("claude", a, d)
  PROVE  Right(4, a, d)
<1>1. PICK new : new = Written("claude", a)
  OBVIOUS
<1>2. Replaced(d, "claude", new)
  BY <1>1, StepFiles DEF Done, Replaced
<1>3. ContentOf("claude") = Seq(TextLines) /\ (disk["claude"] = NoFile \/ disk["claude"] \in Seq(TextLines))
  BY Contents, ContentShapes
<1>4. "claude" \in a.wants /\ (ClaudeIsDone \/ ~IsMalformed(disk["claude"]))
  BY StepsWanted, StepsFail DEF Done
<1>5. CASE ClaudeIsDone
  <2>1. new = disk["claude"]
    BY <1>1, <1>5, StepsWritten
  <2>2. d = disk
    BY <1>2, <2>1 DEF IsDisk, Replaced
  <2> QED
    BY <1>4, <1>5, <2>2 DEF Right, Placed, ClaudeIsDone
<1>6. CASE ~ClaudeIsDone
  <2>1. new = UpsertVersionedBlock(disk["claude"])
    BY <1>1, <1>6, StepsWritten
  <2>2. new \in Seq(TextLines) /\ FileHasCurrentBlock(new)
    BY <1>3, <1>4, <1>6, <2>1, Upserted
  <2>3. IsDisk(d) /\ d["claude"] = new /\ \A f \in Files \ {"claude"} : d[f] = disk[f]
    BY <1>2, <1>3, <2>2, DiskAfter DEF Files
  <2>4. d["config"] = disk["config"] /\ d["registry"] = disk["registry"] /\ d["mcp"] = disk["mcp"]
    BY <2>3 DEF Files
  <2>5. ~Placed(disk, a, 13)
    BY <1>4, <1>6 DEF Placed, ClaudeIsDone
  <2> QED
    BY <2>2, <2>3, <2>4, <2>5 DEF Right, Placed
<1> QED
  BY <1>5, <1>6

LEMMA AgentsStep ==
  ASSUME IsDisk(disk), NEW a \in Answers, Placed(disk, a, 5), NEW d, Done("agents", a, d)
  PROVE  Right(5, a, d)
<1>1. PICK new : new = Written("agents", a)
  OBVIOUS
<1>2. Replaced(d, "agents", new)
  BY <1>1, StepFiles DEF Done, Replaced
<1>3. new \in ContentOf("agents") /\ FileHasCurrentBlock(new)
      /\ (FileHasCurrentBlock(disk["agents"]) => new = disk["agents"])
  <2>1. disk["agents"] = NoFile \/ disk["agents"] \in Seq(TextLines)
    BY Contents
  <2>2. new = UpsertVersionedBlock(disk["agents"]) /\ ~IsMalformed(disk["agents"])
    BY <1>1, StepsWritten, StepsFail DEF Done
  <2> QED
    BY <2>1, <2>2, Upserted, UpsertQuiet, ContentShapes
<1>4. /\ IsDisk(d) /\ d["agents"] = new /\ \A f \in Files \ {"agents"} : d[f] = disk[f]
      /\ new = disk["agents"] => d = disk
  BY <1>2, <1>3, DiskAfter DEF Files
<1>5. d["config"] = disk["config"] /\ d["registry"] = disk["registry"] /\ d["mcp"] = disk["mcp"]
  BY <1>4 DEF Files
<1>6. "agents" \in a.wants
  BY StepsWanted DEF Done
<1> QED
  BY <1>3, <1>4, <1>5, <1>6 DEF Right, Placed

LEMMA AiderStep ==
  ASSUME IsDisk(disk), NEW a \in Answers, Placed(disk, a, 6), NEW d, Done("aider", a, d)
  PROVE  Right(6, a, d)
<1>1. Replaced(d, "aider", "ours")
  BY StepFiles, StepsWritten DEF Done, Replaced
<1>2. /\ IsDisk(d) /\ d["aider"] = "ours" /\ \A f \in Files \ {"aider"} : d[f] = disk[f]
      /\ "ours" = disk["aider"] => d = disk
  BY <1>1, DiskAfter DEF Files, ReadFiles
<1>3. /\ d["config"] = disk["config"] /\ d["registry"] = disk["registry"] /\ d["mcp"] = disk["mcp"]
      /\ d["claude"] = disk["claude"] /\ d["agents"] = disk["agents"]
  BY <1>2 DEF Files
<1>4. "aider" \in a.wants /\ disk["aider"] # NoFile
  BY StepsWanted DEF Done
<1> QED
  BY <1>2, <1>3, <1>4 DEF Right, Placed

LEMMA PrecommitStep ==
  ASSUME IsDisk(disk), NEW a \in Answers, Placed(disk, a, 7), NEW d, Done("precommit", a, d)
  PROVE  Right(7, a, d)
<1>1. PICK new : new = Written("precommit", a)
  OBVIOUS
<1>2. Replaced(d, "precommit", new)
  BY <1>1, StepFiles DEF Done, Replaced
<1>3. new \in ContentOf("precommit") /\ HookPlaced(new, "precommit", a.place)
      /\ (HookPlaced(disk["precommit"], "precommit", a.place) => new = disk["precommit"])
  <2>1. disk["precommit"] = NoFile \/ disk["precommit"] \in ContentOf("precommit")
    BY Contents
  <2>2. new = InstallGitHook(disk["precommit"], "precommit", a.place) /\ a.place \in {"skip", "before", "after"}
    BY <1>1, StepsWritten, AnswerTypes
  <2> QED
    BY <2>1, <2>2, GitHookPlaces DEF HookPlaced
<1>4. /\ IsDisk(d) /\ d["precommit"] = new /\ \A f \in Files \ {"precommit"} : d[f] = disk[f]
      /\ new = disk["precommit"] => d = disk
  BY <1>2, <1>3, DiskAfter DEF Files
<1>5. /\ d["config"] = disk["config"] /\ d["registry"] = disk["registry"] /\ d["mcp"] = disk["mcp"]
      /\ d["claude"] = disk["claude"] /\ d["agents"] = disk["agents"] /\ d["aider"] = disk["aider"]
      /\ d["git"] = disk["git"]
  BY <1>4 DEF Files
<1>6. "precommit" \in a.wants /\ disk["git"] # NoFile
  BY StepsWanted DEF Done
<1> QED
  BY <1>3, <1>4, <1>5, <1>6 DEF Right, Placed

LEMMA CommitmsgStep ==
  ASSUME IsDisk(disk), NEW a \in Answers, Placed(disk, a, 9), NEW d, Done("commitmsg", a, d)
  PROVE  Right(9, a, d)
<1>1. PICK new : new = Written("commitmsg", a)
  OBVIOUS
<1>2. Replaced(d, "commitmsg", new)
  BY <1>1, StepFiles DEF Done, Replaced
<1>3. new \in ContentOf("commitmsg") /\ HookPlaced(new, "commitmsg", a.place)
      /\ (HookPlaced(disk["commitmsg"], "commitmsg", a.place) => new = disk["commitmsg"])
  <2>1. disk["commitmsg"] = NoFile \/ disk["commitmsg"] \in ContentOf("commitmsg")
    BY Contents
  <2>2. new = InstallGitHook(disk["commitmsg"], "commitmsg", a.place) /\ a.place \in {"skip", "before", "after"}
    BY <1>1, StepsWritten, AnswerTypes
  <2> QED
    BY <2>1, <2>2, GitHookPlaces DEF HookPlaced
<1>4. /\ IsDisk(d) /\ d["commitmsg"] = new /\ \A f \in Files \ {"commitmsg"} : d[f] = disk[f]
      /\ new = disk["commitmsg"] => d = disk
  BY <1>2, <1>3, DiskAfter DEF Files
<1>5. /\ d["config"] = disk["config"] /\ d["registry"] = disk["registry"] /\ d["mcp"] = disk["mcp"]
      /\ d["claude"] = disk["claude"] /\ d["agents"] = disk["agents"] /\ d["aider"] = disk["aider"]
      /\ d["git"] = disk["git"] /\ d["precommit"] = disk["precommit"]
  BY <1>4 DEF Files
<1>6. "commitmsg" \in a.wants /\ disk["git"] # NoFile
  BY StepsWanted DEF Done
<1> QED
  BY <1>3, <1>4, <1>5, <1>6 DEF Right, Placed

\* The mode of a hook whose line this run has written.
MadeExecutable(h, new) == new = [h EXCEPT !.x = TRUE]

LEMMA Executable ==
  ASSUME NEW hook \in {"precommit", "commitmsg"}, NEW h \in ContentOf(hook), NEW new, new = [h EXCEPT !.x = TRUE]
  PROVE  new \in ContentOf(hook) /\ new # NoFile /\ new.lines = h.lines /\ new.x
<1> PICK Lines : Lines = Seq({"#!", "own", "on-commit", "on-commit-msg"})
  OBVIOUS
<1> PICK Truth : Truth = BOOLEAN
  OBVIOUS
<1>1. ContentOf(hook) = [lines : Lines, x : Truth]
  BY ContentShapes
<1>2. h = [lines |-> h.lines, x |-> h.x] /\ h.lines \in Lines
  BY <1>1
<1>3. new = [lines |-> h.lines, x |-> TRUE]
  BY <1>2
<1>4. TRUE \in Truth
  OBVIOUS
<1>5. new \in [lines : Lines, x : Truth]
  BY <1>2, <1>3, <1>4
<1> QED
  BY <1>1, <1>3, <1>5, Distinct DEF ReadFiles, Files

LEMMA PrecommitModeStep ==
  ASSUME SetupTypes, NEW a \in Answers, Placed(disk, a, 8), NEW d, Done("precommitMode", a, d)
  PROVE  Right(8, a, d)
<1>1. PICK new : new = Written("precommitMode", a)
  OBVIOUS
<1>2. Replaced(d, "precommit", new)
  BY <1>1, StepFiles DEF Done, Replaced
<1>3. "precommit" \in run.wrote /\ disk["precommit"] # NoFile
  BY StepsWanted DEF Done, SetupTypes, HookLine
<1>4. IsDisk(disk) /\ disk["precommit"] \in ContentOf("precommit")
  BY <1>3, Contents DEF SetupTypes
<1>5. new \in ContentOf("precommit") /\ new # NoFile /\ new.lines = disk["precommit"].lines
  BY <1>1, <1>4, StepsWritten, Executable
<1>6. IsDisk(d) /\ d["precommit"] = new /\ \A f \in Files \ {"precommit"} : d[f] = disk[f]
  BY <1>2, <1>4, <1>5, DiskAfter DEF Files
<1>7. /\ d["config"] = disk["config"] /\ d["registry"] = disk["registry"] /\ d["mcp"] = disk["mcp"]
      /\ d["claude"] = disk["claude"] /\ d["agents"] = disk["agents"] /\ d["aider"] = disk["aider"]
      /\ d["git"] = disk["git"]
  BY <1>6 DEF Files
<1>8. HookPlaced(disk["precommit"], "precommit", a.place) => HookPlaced(d["precommit"], "precommit", a.place)
  BY <1>5, <1>6 DEF HookPlaced
<1> QED
  BY <1>3, <1>6, <1>7, <1>8 DEF Right, Placed

LEMMA CommitmsgModeStep ==
  ASSUME SetupTypes, NEW a \in Answers, Placed(disk, a, 10), NEW d, Done("commitmsgMode", a, d)
  PROVE  Right(10, a, d)
<1>1. PICK new : new = Written("commitmsgMode", a)
  OBVIOUS
<1>2. Replaced(d, "commitmsg", new)
  BY <1>1, StepFiles DEF Done, Replaced
<1>3. "commitmsg" \in run.wrote /\ disk["commitmsg"] # NoFile
  BY StepsWanted DEF Done, SetupTypes, HookLine
<1>4. IsDisk(disk) /\ disk["commitmsg"] \in ContentOf("commitmsg")
  BY <1>3, Contents DEF SetupTypes
<1>5. new \in ContentOf("commitmsg") /\ new # NoFile /\ new.lines = disk["commitmsg"].lines
  BY <1>1, <1>4, StepsWritten, Executable
<1>6. IsDisk(d) /\ d["commitmsg"] = new /\ \A f \in Files \ {"commitmsg"} : d[f] = disk[f]
  BY <1>2, <1>4, <1>5, DiskAfter DEF Files
<1>7. /\ d["config"] = disk["config"] /\ d["registry"] = disk["registry"] /\ d["mcp"] = disk["mcp"]
      /\ d["claude"] = disk["claude"] /\ d["agents"] = disk["agents"] /\ d["aider"] = disk["aider"]
      /\ d["git"] = disk["git"] /\ d["precommit"] = disk["precommit"]
  BY <1>6 DEF Files
<1>8. HookPlaced(disk["commitmsg"], "commitmsg", a.place) => HookPlaced(d["commitmsg"], "commitmsg", a.place)
  BY <1>5, <1>6 DEF HookPlaced
<1> QED
  BY <1>3, <1>6, <1>7, <1>8 DEF Right, Placed

LEMMA HooksStep ==
  ASSUME IsDisk(disk), NEW a \in Answers, Placed(disk, a, 11), NEW d, Done("hooks", a, d)
  PROVE  Right(11, a, d)
<1>1. PICK new : new = Written("hooks", a)
  OBVIOUS
<1>2. Replaced(d, "settings", new)
  BY <1>1, StepFiles DEF Done, Replaced
<1>3. disk["settings"] \in {NoFile, Blank} \/ disk["settings"] \in ContentOf("settings")
  BY Contents, StepsFail DEF Done, NotJson
<1>4. new = InstallClaudeHooks(disk["settings"])
  BY <1>1, StepsWritten
<1>5. ClaudeHooksPlaced(new)
  BY <1>3, <1>4, ClaudeHooksInstalled DEF ClaudeHooksPlaced
<1>6. PermissionsPlaced(disk["settings"]) /\ ClaudeHooksPlaced(disk["settings"]) => new = disk["settings"]
  BY <1>4, SettingsQuiet
<1>7. /\ IsDisk(d) /\ d["settings"] = new /\ \A f \in Files \ {"settings"} : d[f] = disk[f]
      /\ new = disk["settings"] => d = disk
  BY <1>2, <1>5, DiskAfter DEF Files, ClaudeHooksPlaced
<1>8. /\ d["config"] = disk["config"] /\ d["registry"] = disk["registry"] /\ d["mcp"] = disk["mcp"]
      /\ d["claude"] = disk["claude"] /\ d["agents"] = disk["agents"] /\ d["aider"] = disk["aider"]
      /\ d["git"] = disk["git"] /\ d["precommit"] = disk["precommit"] /\ d["commitmsg"] = disk["commitmsg"]
  BY <1>7 DEF Files
<1>9. ~a.yes /\ "hooks" \in a.wants
  BY StepsWanted DEF Done
<1> QED
  BY <1>5, <1>6, <1>7, <1>8, <1>9 DEF Right, Placed

LEMMA SettingsStep ==
  ASSUME IsDisk(disk), NEW a \in Answers, Placed(disk, a, 12), NEW d, Done("settings", a, d)
  PROVE  Right(12, a, d)
<1>1. PICK new : new = Written("settings", a)
  OBVIOUS
<1>2. Replaced(d, "settings", new)
  BY <1>1, StepFiles DEF Done, Replaced
<1>3. disk["settings"] \in {NoFile, Blank} \/ disk["settings"] \in ContentOf("settings")
  BY Contents, StepsFail DEF Done, NotJson
<1>4. new = MergePermissions(disk["settings"])
  BY <1>1, StepsWritten
<1>5. PermissionsPlaced(new) /\ (ClaudeHooksPlaced(disk["settings"]) => ClaudeHooksPlaced(new))
  BY <1>3, <1>4, PermissionsMerged DEF PermissionsPlaced, ClaudeHooksPlaced
<1>6. PermissionsPlaced(disk["settings"]) => new = disk["settings"]
  BY <1>4, SettingsQuiet
<1>7. /\ IsDisk(d) /\ d["settings"] = new /\ \A f \in Files \ {"settings"} : d[f] = disk[f]
      /\ new = disk["settings"] => d = disk
  BY <1>2, <1>5, DiskAfter DEF Files, PermissionsPlaced
<1>8. /\ d["config"] = disk["config"] /\ d["registry"] = disk["registry"] /\ d["mcp"] = disk["mcp"]
      /\ d["claude"] = disk["claude"] /\ d["agents"] = disk["agents"] /\ d["aider"] = disk["aider"]
      /\ d["git"] = disk["git"] /\ d["precommit"] = disk["precommit"] /\ d["commitmsg"] = disk["commitmsg"]
  BY <1>7 DEF Files
<1> QED
  BY <1>5, <1>6, <1>7, <1>8 DEF Right, Placed

\* Every step does what it is for.
LEMMA StepPlaces ==
  ASSUME SetupTypes, NEW a \in Answers, NEW n \in 1..12, Placed(disk, a, n), NEW d, Done(Steps[n], a, d)
  PROVE  Right(n, a, d)
<1>1. IsDisk(disk)
  BY DEF SetupTypes
<1> QED
  BY <1>1, StepNames, ConfigStep, RegistryStep, McpStep, ClaudeStep, AgentsStep, AiderStep, PrecommitStep,
     PrecommitModeStep, CommitmsgStep, CommitmsgModeStep, HooksStep, SettingsStep

\* What a cut in the middle of a step leaves of its file.
LEMMA StepPieces ==
  ASSUME NEW new
  PROVE  /\ Pieces("config", new) = {Blank}
         /\ Pieces("registry", new) \subseteq {<<>>, new}
         /\ Pieces("mcp", new) = {Blank, Broken} /\ Pieces("aider", new) = {Blank, Broken}
         /\ Pieces("hooks", new) = {Blank, Broken} /\ Pieces("settings", new) = {Blank, Broken}
         /\ Pieces("precommitMode", new) = {new} /\ Pieces("commitmsgMode", new) = {new}
<1>1. Pieces("config", new) = {Blank} /\ Pieces("mcp", new) = {Blank, Broken}
  BY Zenon DEF Pieces
<1>2. Pieces("registry", new) \subseteq {<<>>, new}
  <2>1. Pieces("registry", new) = IF disk["registry"] = NoFile THEN {<<>>} ELSE {new}
    BY Zenon DEF Pieces
  <2> QED
    BY <2>1
<1>3. Pieces("aider", new) = {Blank, Broken} /\ Pieces("hooks", new) = {Blank, Broken}
  BY Zenon DEF Pieces
<1>4. Pieces("settings", new) = {Blank, Broken}
  BY Zenon DEF Pieces
<1>5. Pieces("precommitMode", new) = {new} /\ Pieces("commitmsgMode", new) = {new}
  BY Zenon DEF Pieces
<1> QED
  BY <1>1, <1>2, <1>3, <1>4, <1>5

\* CLAUDE.md or AGENTS.md cut short is still a text.
LEMMA TextPieces ==
  ASSUME NEW step \in {"claude", "agents"}, NEW new \in Seq(TextLines), NEW piece \in Pieces(step, new)
  PROVE  piece \in Seq(TextLines)
<1>1. \/ \E n \in 0 .. Len(new) - 1 : piece = SubSeq(new, 1, n)
      \/ \E n \in DOMAIN new : piece = SubSeq(new, 1, n - 1) \o <<"cut">>
  <2>1. piece \in {SubSeq(new, 1, n) : n \in 0 .. Len(new) - 1}
                    \cup {SubSeq(new, 1, n - 1) \o <<"cut">> : n \in {i \in DOMAIN new : new[i] = "cur"}}
    BY Zenon DEF Pieces
  <2> QED
    BY Zenon, <2>1
<1>2. PICK len \in Nat : len = Len(new) /\ DOMAIN new = 1..len
  OBVIOUS
<1>3. ASSUME NEW n \in 0 .. Len(new) - 1, piece = SubSeq(new, 1, n)
      PROVE  piece \in Seq(TextLines)
  <2>1. n \in 0..Len(new)
    BY <1>2
  <2> QED
    BY <1>3, <2>1, Beginning
<1>4. ASSUME NEW n \in DOMAIN new, piece = SubSeq(new, 1, n - 1) \o <<"cut">>
      PROVE  piece \in Seq(TextLines)
  <2>1. PICK front : front = SubSeq(new, 1, n - 1)
    OBVIOUS
  <2>2. n - 1 \in 0..Len(new)
    BY <1>2
  <2>3. front \in Seq(TextLines)
    BY <2>1, <2>2, Beginning
  <2>4. "cut" \in TextLines
    BY DEF TextLines, Begins
  <2> QED
    BY <1>4, <2>1, <2>3, <2>4, Concatenated
<1> QED
  BY <1>1, <1>3, <1>4

\* A git hook cut short is still one.
LEMMA HookPieces ==
  ASSUME NEW hook \in {"precommit", "commitmsg"}, NEW new \in ContentOf(hook), NEW piece \in Pieces(hook, new)
  PROVE  piece \in ContentOf(hook)
<1> PICK Line : Line = {"#!", "own", "on-commit", "on-commit-msg"}
  OBVIOUS
<1> PICK Truth : Truth = BOOLEAN
  OBVIOUS
<1>1. ContentOf(hook) = [lines : Seq(Line), x : Truth]
  BY ContentShapes
<1>2. new = [lines |-> new.lines, x |-> new.x] /\ new.lines \in Seq(Line) /\ new.x \in Truth
  BY <1>1
<1>3. PICK n \in 0 .. Len(new.lines) - 1 : piece = [new EXCEPT !.lines = SubSeq(new.lines, 1, n)]
  <2>1. piece \in {[new EXCEPT !.lines = SubSeq(new.lines, 1, n)] : n \in 0 .. Len(new.lines) - 1}
    BY Zenon DEF Pieces
  <2> QED
    BY Zenon, <2>1
<1>4. PICK front : front = SubSeq(new.lines, 1, n)
  OBVIOUS
<1>5. front \in Seq(Line)
  <2>1. PICK old \in Seq(Line) : old = new.lines
    BY <1>2
  <2>2. n \in 0..Len(old)
    <3>1. PICK len \in Nat : len = Len(old)
      OBVIOUS
    <3> QED
      BY <2>1, <3>1
  <2> QED
    BY <1>4, <2>1, <2>2, Beginning
<1>6. piece = [lines |-> front, x |-> new.x]
  BY <1>2, <1>3, <1>4
<1> QED
  BY <1>1, <1>2, <1>5, <1>6

\* Also what a cut leaves is something a file may hold.
LEMMA CutTypes ==
  ASSUME SetupTypes, NEW a \in Answers, NEW n \in 1..12, Placed(disk, a, n),
         Wanted(Steps[n], a), ~Fails(Steps[n], a),
         Steps[n] \in {"mcp", "aider", "hooks", "settings"} \/ Written(Steps[n], a) # disk[FileOf(Steps[n])],
         NEW piece \in Pieces(Steps[n], Written(Steps[n], a)),
         NEW d, d = [disk EXCEPT ![FileOf(Steps[n])] = piece]
  PROVE  IsDisk(d)
<1> PICK step : step = Steps[n]
  OBVIOUS
<1> PICK file : file = FileOf(step)
  OBVIOUS
<1> PICK new : new = Written(step, a)
  OBVIOUS
<1> PICK whole : whole = [disk EXCEPT ![file] = new]
  OBVIOUS
<1>0. IsDisk(disk) /\ Replaced(d, file, piece) /\ Replaced(whole, file, new) /\ piece \in Pieces(step, new)
  BY DEF SetupTypes, Replaced
<1>1. Right(n, a, whole)
  BY StepPlaces DEF Done
<1>2. /\ step \in {"config", "registry", "mcp", "claude", "agents", "aider", "precommit", "precommitMode",
                   "commitmsg", "commitmsgMode", "hooks", "settings"}
      /\ step \in {"mcp", "aider", "hooks", "settings"} \/ new # disk[file]
  BY StepNames
<1>3. file \in Files
  BY <1>2, StepFiles DEF Files
<1>4. IsDisk(whole) /\ whole[file] = new
  <2>1. DOMAIN disk = Files
    BY <1>0 DEF IsDisk
  <2> QED
    BY <1>0, <1>1, <1>3, <2>1 DEF Right, Replaced
<1>5. CASE step \in {"config", "aider"}
  <2>1. file \notin ReadFiles
    BY <1>5, StepFiles DEF ReadFiles
  <2> QED
    BY <1>0, <1>3, <2>1, DiskAfter
<1>6. CASE step \in {"mcp", "hooks", "settings"}
  <2>1. file \in JsonFiles /\ piece \in NotJson
    BY <1>0, <1>6, StepFiles, StepPieces DEF JsonFiles, NotJson
  <2> QED
    BY <1>0, <1>3, <2>1, DiskAfter
<1>7. CASE step = "registry"
  <2>1. file = "registry" /\ new = RegisterWorkspace(disk["registry"])
    <3>1. Written("registry", a) = RegisterWorkspace(disk["registry"])
      BY StepsWritten
    <3> QED
      BY <1>7, <3>1, StepFiles
  <2>2. new \in ContentOf("registry")
    BY <1>0, <2>1, Contents, RegisterPlaces
  <2>3. <<>> \in ContentOf("registry")
    BY ContentShapes, EmptySeq
  <2>4. piece \in {<<>>, new}
    BY <1>0, <1>7, StepPieces
  <2> QED
    BY <1>0, <1>3, <2>1, <2>2, <2>3, <2>4, DiskAfter
<1>8. CASE step = "claude"
  <2>1. file = "claude" /\ new # disk["claude"]
    BY <1>2, <1>8, StepFiles
  <2>2. ~ClaudeIsDone /\ new = UpsertVersionedBlock(disk["claude"])
    BY <1>8, <2>1, StepsWritten
  <2>3. ~IsMalformed(disk["claude"])
    BY <1>8, <2>2, StepsFail
  <2>4. new \in Seq(TextLines)
    BY <1>0, <2>2, <2>3, Contents, Upserted
  <2>5. piece \in ContentOf("claude")
    BY <1>0, <1>8, <2>4, TextPieces, ContentShapes
  <2> QED
    BY <1>0, <1>3, <2>1, <2>5, DiskAfter
<1>9. CASE step = "agents"
  <2>1. file = "agents" /\ new = UpsertVersionedBlock(disk["agents"])
    <3>1. Written("agents", a) = UpsertVersionedBlock(disk["agents"])
      BY StepsWritten
    <3> QED
      BY <1>9, <3>1, StepFiles
  <2>2. ~IsMalformed(disk["agents"])
    BY <1>9, StepsFail
  <2>3. new \in Seq(TextLines)
    BY <1>0, <2>1, <2>2, Contents, Upserted
  <2>4. piece \in ContentOf("agents")
    BY <1>0, <1>9, <2>3, TextPieces, ContentShapes
  <2> QED
    BY <1>0, <1>3, <2>1, <2>4, DiskAfter
<1>10. CASE step \in {"precommit", "commitmsg"}
  <2>1. file = step /\ new = InstallGitHook(disk[step], step, a.place) /\ a.place \in {"skip", "before", "after"}
    <3>1. \A hook \in {"precommit", "commitmsg"} :
            Written(hook, a) = InstallGitHook(disk[hook], hook, a.place) /\ FileOf(hook) = hook
      <4>1. Written("precommit", a) = InstallGitHook(disk["precommit"], "precommit", a.place)
        BY StepsWritten
      <4>2. Written("commitmsg", a) = InstallGitHook(disk["commitmsg"], "commitmsg", a.place)
        BY StepsWritten
      <4> QED
        BY <4>1, <4>2, StepFiles
    <3> QED
      BY <1>10, <3>1, AnswerTypes
  <2>2. disk[step] = NoFile \/ disk[step] \in ContentOf(step)
    BY <1>0, <1>10, Contents
  <2>3. new \in ContentOf(step)
    BY <1>10, <2>1, <2>2, GitHookPlaces
  <2>4. piece \in ContentOf(step)
    BY <1>0, <1>10, <2>3, HookPieces
  <2> QED
    BY <1>0, <1>3, <2>1, <2>4, DiskAfter
<1>11. CASE step \in {"precommitMode", "commitmsgMode"}
  <2>1. piece = new
    BY <1>0, <1>11, StepPieces
  <2> QED
    BY <1>0, <1>4, <2>1 DEF Replaced
<1> QED
  BY <1>2, <1>5, <1>6, <1>7, <1>8, <1>9, <1>10, <1>11

-----------------------------------------------------------------------------
(* Runs of init *)

\* The end of a run is remembered, and a bad one for ever.
LEMMA Ended ==
  ASSUME ended \in Seq(EndRecord), NEW e \in EndRecord, ended' = Append(ended, e), before' = before
  PROVE  /\ ended' \in Seq(EndRecord) /\ ended' # <<>> /\ Last(ended') = e
         /\ \A hook : /\ LacksMode(hook) => LacksMode(hook)'
                      /\ ~e.ok /\ e.wrote \cap {hook, ModeOf[hook]} = {hook} => LacksMode(hook)'
<1>1. PICK len \in Nat : len = Len(ended)
  OBVIOUS
<1>2. /\ ended' \in Seq(EndRecord) /\ Len(ended') = len + 1 /\ ended'[len + 1] = e
      /\ \A i \in 1..len : ended'[i] = ended[i]
  BY <1>1
<1>3. ended' # <<>> /\ Last(ended') = e
  BY <1>2 DEF Last
<1>4. ASSUME NEW hook, LacksMode(hook)
      PROVE  LacksMode(hook)'
  <2> DEFINE Left(e1) == ~e1.ok /\ e1.wrote \cap {hook, ModeOf[hook]} = {hook}
  <2> HIDE DEF Left
  <2>1. (\E i \in DOMAIN ended : Left(ended[i])) => \E i \in DOMAIN ended' : Left(ended'[i])
    BY <1>1, <1>2
  <2> QED
    BY <1>4, <2>1 DEF LacksMode, Left
<1>5. ASSUME NEW hook, ~e.ok, e.wrote \cap {hook, ModeOf[hook]} = {hook}
      PROVE  LacksMode(hook)'
  <2>1. len + 1 \in DOMAIN ended' /\ ended'[len + 1] = e
    BY <1>1, <1>2
  <2> QED
    BY <1>5, <2>1 DEF LacksMode
<1> QED
  BY <1>2, <1>3, <1>4, <1>5

\* As long as no run ends, no hook comes to lack its mode.
LEMMA SameEnds ==
  ASSUME ended' = ended, before' = before, NEW hook
  PROVE  LacksMode(hook)' <=> LacksMode(hook)
BY DEF LacksMode

\* A hook that 8v alone has written is executable, or about to be made so.
HookFine(hook, h, pending) ==
  ~LacksMode(hook) /\ h # NoFile /\ HasMarker(h.lines, hook) => h.x \/ pending

\* The record of a run that ended.
LEMMA WroteRecords ==
  ASSUME NEW ok \in BOOLEAN, NEW a \in Answers, NEW w \in SUBSET ToSet(Steps),
         NEW e, e = [ok |-> ok, answers |-> a, wrote |-> w]
  PROVE  e \in EndRecord
<1> PICK Subsets : Subsets = SUBSET ToSet(Steps)
  OBVIOUS
<1>1. e \in [ok : BOOLEAN, answers : Answers, wrote : Subsets]
  OBVIOUS
<1> QED
  BY <1>1 DEF EndRecord

\* A run that ended badly, or was never begun, promises nothing but that it has left each
\* hook fine or wrote its line and not its mode.
LEMMA EndsBadly ==
  ASSUME ended \in Seq(EndRecord), NEW a \in Answers, NEW w \in SUBSET ToSet(Steps),
         IsDisk(disk)', run' = Idle, before' = before,
         ended' = Append(ended, [ok |-> FALSE, answers |-> a, wrote |-> w]),
         \A hook \in DOMAIN HookLine :
            w \cap {hook, ModeOf[hook]} = {hook} \/ HookFine(hook, disk'[hook], FALSE)
  PROVE  SetupTypes' /\ SetupInv'
<1>1. PICK e : e = [ok |-> FALSE, answers |-> a, wrote |-> w]
  OBVIOUS
<1>2. e \in EndRecord /\ e.ok = FALSE /\ e.wrote = w
  <2>1. PICK ok \in BOOLEAN : ok = FALSE
    OBVIOUS
  <2>2. e \in EndRecord
    BY <1>1, <2>1, WroteRecords
  <2> QED
    BY <1>1, <2>2
<1>3. /\ ended' \in Seq(EndRecord) /\ Last(ended') = e
      /\ \A hook : /\ LacksMode(hook) => LacksMode(hook)'
                   /\ w \cap {hook, ModeOf[hook]} = {hook} => LacksMode(hook)'
  BY <1>1, <1>2, Ended
<1>4. run'.wrote = {}
  BY DEF Idle
<1>5. SetupTypes'
  BY <1>3, <1>4 DEF SetupTypes
<1>6. ModeInv'
  BY <1>3 DEF ModeInv, HookFine
<1>7. QuietInv'
  BY <1>2, <1>3 DEF QuietInv
<1> QED
  BY <1>5, <1>6, <1>7 DEF SetupInv

\* The types of what a run has.
LEMMA RunTypes ==
  ASSUME SetupTypes, run # Idle
  PROVE  run \in RunRecord /\ run.step \in 1..12 /\ run.answers \in Answers /\ run.wrote \in SUBSET ToSet(Steps)
<1> PICK Subsets : Subsets = SUBSET ToSet(Steps)
  OBVIOUS
<1>1. run \in [step : 1..12, answers : Answers, wrote : Subsets]
  BY DEF SetupTypes, RunRecord
<1> QED
  BY <1>1 DEF RunRecord

\* The steps that are about a hook.
LEMMA HookSteps ==
  ASSUME NEW hook \in DOMAIN HookLine, NEW n \in 1..12, NEW a
  PROVE  /\ hook \in {"precommit", "commitmsg"} /\ ModeAt[hook] \in {8, 10}
         /\ n + 1 = ModeAt[hook] => Steps[n] = hook
         /\ n = ModeAt[hook] => /\ FileOf(Steps[n]) = hook
                                /\ Wanted(Steps[n], a) => hook \in run.wrote
                                /\ MadeExecutable(disk[hook], Written(Steps[n], a))
         /\ FileOf(Steps[n]) = hook => n + 1 = ModeAt[hook] \/ n = ModeAt[hook]
         /\ ModeOf[hook] = Steps[n] <=> n = ModeAt[hook]
         /\ hook = Steps[n] => n + 1 = ModeAt[hook]
<1>1. hook \in {"precommit", "commitmsg"}
  BY DEF HookLine
<1>2. ModeAt["precommit"] = 8 /\ ModeAt["commitmsg"] = 10
  BY DEF ModeAt
<1>3. /\ Wanted(Steps[8], a) => "precommit" \in run.wrote
      /\ Wanted(Steps[10], a) => "commitmsg" \in run.wrote
  BY StepNames, StepsWanted
<1>4. MadeExecutable(disk["precommit"], Written(Steps[8], a))
  <2>1. Written("precommitMode", a) = [disk["precommit"] EXCEPT !.x = TRUE]
    BY StepsWritten
  <2> QED
    BY <2>1, StepNames DEF MadeExecutable
<1>5. MadeExecutable(disk["commitmsg"], Written(Steps[10], a))
  <2>1. Written("commitmsgMode", a) = [disk["commitmsg"] EXCEPT !.x = TRUE]
    BY StepsWritten
  <2> QED
    BY <2>1, StepNames DEF MadeExecutable
<1>6. Steps[7] = "precommit" /\ FileOf(Steps[8]) = "precommit"
      /\ (FileOf(Steps[n]) = "precommit" => n = 7 \/ n = 8)
  BY StepNames, StepFiles
<1>7. Steps[9] = "commitmsg" /\ FileOf(Steps[10]) = "commitmsg"
      /\ (FileOf(Steps[n]) = "commitmsg" => n = 9 \/ n = 10)
  BY StepNames, StepFiles
<1>10. /\ ModeOf["precommit"] = "precommitMode" /\ ModeOf["commitmsg"] = "commitmsgMode"
       /\ (Steps[n] = "precommitMode" <=> n = 8) /\ (Steps[n] = "commitmsgMode" <=> n = 10)
       /\ (Steps[n] = "precommit" <=> n = 7) /\ (Steps[n] = "commitmsg" <=> n = 9)
  BY StepNames DEF ModeOf
<1>8. CASE hook = "precommit"
  <2>1. ModeAt[hook] = 8 /\ (n + 1 = 8 => n = 7) /\ (n = 7 => n + 1 = 8)
    BY <1>2, <1>8
  <2> QED
    BY <1>3, <1>4, <1>6, <1>8, <1>10, <2>1
<1>9. CASE hook = "commitmsg"
  <2>1. ModeAt[hook] = 10 /\ (n + 1 = 10 => n = 9) /\ (n = 9 => n + 1 = 10)
    BY <1>2, <1>9
  <2> QED
    BY <1>3, <1>5, <1>7, <1>9, <1>10, <2>1
<1> QED
  BY <1>1, <1>8, <1>9

\* From one step of a run to the next one, or to its end.
LEMMA Advanced ==
  ASSUME SetupTypes, SetupInv, run # Idle, NEW w \in SUBSET ToSet(Steps), Advance(w), before' = before,
         IsDisk(disk)', Placed(disk', run.answers, run.step + 1),
         \A hook \in DOMAIN HookLine :
           /\ hook \in run.wrote \cup w => disk'[hook] # NoFile
           /\ ModeOf[hook] \in run.wrote \cup w => run.step + 1 > ModeAt[hook]
           /\ HookFine(hook, disk'[hook], run.step + 1 = ModeAt[hook] /\ hook \in w),
         Placed(disk, run.answers, 13) /\ run.wrote = {} => disk' = disk /\ w = {}
  PROVE  SetupTypes' /\ SetupInv'
<1> PICK a : a = run.answers
  OBVIOUS
<1> PICK n : n = run.step
  OBVIOUS
<1>1. run \in RunRecord /\ n \in 1..12 /\ a \in Answers /\ run.wrote \in SUBSET ToSet(Steps)
  BY RunTypes
<1>2. ended \in Seq(EndRecord)
  BY DEF SetupTypes
<1>3. CASE n = 12
  <2>1. PICK e : e = [ok |-> TRUE, answers |-> a, wrote |-> run.wrote \cup w]
    OBVIOUS
  <2>2. run' = Idle /\ ended' = Append(ended, e)
    BY <1>3, <2>1, StepNames DEF Advance, End
  <2>3. e \in EndRecord /\ e.answers = a
    <3>1. PICK more \in SUBSET ToSet(Steps) : more = run.wrote \cup w
      BY <1>1
    <3>2. PICK ok \in BOOLEAN : ok = TRUE
      OBVIOUS
    <3>3. e \in EndRecord
      BY <1>1, <2>1, <3>1, <3>2, WroteRecords
    <3> QED
      BY <2>1, <3>3
  <2>4. ended' \in Seq(EndRecord) /\ Last(ended') = e /\ \A hook : LacksMode(hook) => LacksMode(hook)'
    BY <1>2, <2>2, <2>3, Ended
  <2>5. run'.wrote = {}
    BY <2>2 DEF Idle
  <2>6. SetupTypes'
    BY <2>2, <2>4, <2>5 DEF SetupTypes
  <2>7. ModeInv'
    <3>1. \A hook \in DOMAIN HookLine : ~(n + 1 = ModeAt[hook])
      BY <1>3 DEF ModeAt, HookLine
    <3> QED
      BY <2>4, <3>1 DEF ModeInv, HookFine
  <2>8. QuietInv'
    <3>1. Placed(disk', a, 13)
      BY <1>3
    <3> QED
      BY <2>3, <2>4, <2>5, <3>1 DEF QuietInv
  <2> QED
    BY <2>2, <2>6, <2>7, <2>8 DEF SetupInv
<1>4. CASE n # 12
  <2>1. run' = [run EXCEPT !.step = n + 1, !.wrote = run.wrote \cup w] /\ ended' = ended
    BY <1>4, StepNames DEF Advance
  <2>2. PICK more \in SUBSET ToSet(Steps) : more = run.wrote \cup w
    BY <1>1
  <2>3. run' = [step |-> n + 1, answers |-> a, wrote |-> more]
    BY <1>1, <2>1, <2>2 DEF RunRecord
  <2>4. run' \in RunRecord /\ run'.step = n + 1 /\ run'.answers = a /\ run'.wrote = more
    <3>1. n + 1 \in 1..12
      BY <1>1, <1>4
    <3> PICK Subsets : Subsets = SUBSET ToSet(Steps)
      OBVIOUS
    <3> QED
      BY <1>1, <2>3, <3>1 DEF RunRecord
  <2>5. run' # Idle
    BY <1>1, <2>4 DEF Idle
  <2>6. SetupTypes'
    BY <1>2, <2>1, <2>2, <2>4 DEF SetupTypes
  <2>7. ModeInv'
    BY <2>1, <2>2, <2>4, <2>5, SameEnds DEF ModeInv, HookFine
  <2>8. QuietInv'
    <3>1. SUFFICES ASSUME ended # <<>>, Last(ended).ok, a = Last(ended).answers
                   PROVE  Placed(disk', a, 13) /\ more = {}
      BY <2>1, <2>4, <2>5 DEF QuietInv
    <3>2. Placed(disk, a, 13) /\ run.wrote = {}
      BY <3>1 DEF SetupInv, QuietInv
    <3> QED
      BY <2>2, <3>2
  <2> QED
    BY <2>4, <2>6, <2>7, <2>8 DEF SetupInv
<1> QED
  BY <1>3, <1>4

\* The actions one by one.
LEMMA StartKeeps ==
  ASSUME SetupTypes, SetupInv, Start
  PROVE  SetupTypes' /\ SetupInv'
<1>1. run = Idle /\ disk' = disk /\ before' = before /\ IsDisk(disk) /\ ended \in Seq(EndRecord)
  BY DEF Start, SetupTypes
<1>2. PICK a \in Answers : IF a.yes \/ a.terminal
                           THEN run' = [Idle EXCEPT !.step = 1, !.answers = a] /\ UNCHANGED ended
                           ELSE /\ ended' = Append(ended, [ok |-> FALSE, answers |-> a, wrote |-> {}])
                                /\ UNCHANGED run
  BY DEF Start
<1>3. CASE a.yes \/ a.terminal
  <2>1. run' = [step |-> 1, answers |-> a, wrote |-> {}] /\ ended' = ended
    BY <1>2, <1>3 DEF Idle
  <2>2. run' \in RunRecord /\ run'.step = 1 /\ run'.answers = a /\ run'.wrote = {} /\ run' # Idle
    <3>1. run'.step = 1 /\ run'.answers = a /\ run'.wrote = {}
      BY <2>1
    <3>2. run' # Idle
      BY <3>1 DEF Idle
    <3> PICK Subsets : Subsets = SUBSET ToSet(Steps) /\ {} \in Subsets
      OBVIOUS
    <3>3. run' \in [step : 1..12, answers : Answers, wrote : Subsets]
      BY <2>1
    <3> QED
      BY <3>1, <3>2, <3>3 DEF RunRecord
  <2>3. SetupTypes'
    BY <1>1, <2>1, <2>2 DEF SetupTypes
  <2>4. Placed(disk', a, 1)
    BY DEF Placed
  <2>5. ModeInv'
    BY <1>1, <2>1, SameEnds DEF SetupInv, ModeInv
  <2>6. QuietInv'
    BY <1>1, <2>1, <2>2 DEF SetupInv, QuietInv
  <2> QED
    BY <2>2, <2>3, <2>4, <2>5, <2>6 DEF SetupInv
<1>4. CASE ~(a.yes \/ a.terminal)
  <2>1. \A hook \in DOMAIN HookLine : HookFine(hook, disk'[hook], FALSE)
    BY <1>1 DEF SetupInv, ModeInv, HookFine
  <2>2. PICK w \in SUBSET ToSet(Steps) : w = {}
    OBVIOUS
  <2>3. ended' = Append(ended, [ok |-> FALSE, answers |-> a, wrote |-> w]) /\ run' = Idle /\ IsDisk(disk)'
    BY <1>1, <1>2, <1>4, <2>2
  <2> QED
    BY <1>1, <2>1, <2>3, EndsBadly
<1> QED
  BY <1>3, <1>4

LEMMA SkipKeeps ==
  ASSUME SetupTypes, SetupInv, Skip
  PROVE  SetupTypes' /\ SetupInv'
<1> PICK n : n = run.step
  OBVIOUS
<1>1. run # Idle /\ ~Wanted(Steps[n], run.answers) /\ Advance({}) /\ disk' = disk /\ before' = before
  BY DEF Skip, Now
<1>2. n \in 1..12 /\ run.answers \in Answers
  BY <1>1, RunTypes
<1>3. Placed(disk', run.answers, run.step + 1)
  BY <1>1, <1>2, SkipPlaces DEF SetupInv
<1>4. ASSUME NEW hook \in DOMAIN HookLine
      PROVE  /\ hook \in run.wrote \cup {} => disk'[hook] # NoFile
             /\ ModeOf[hook] \in run.wrote \cup {} => run.step + 1 > ModeAt[hook]
             /\ HookFine(hook, disk'[hook], run.step + 1 = ModeAt[hook] /\ hook \in {})
  <2>1. hook \in run.wrote => disk[hook] # NoFile
    BY DEF SetupTypes
  <2>2. PICK a \in Answers : a = run.answers
    BY <1>2
  <2>3. n = ModeAt[hook] /\ hook \in run.wrote => Wanted(Steps[n], a)
    <3>1. (hook = "precommit" /\ ModeAt[hook] = 8) \/ (hook = "commitmsg" /\ ModeAt[hook] = 10)
      BY DEF HookLine, ModeAt
    <3> QED
      BY <3>1, StepNames, StepsWanted
  <2>4. ~(n = ModeAt[hook] /\ hook \in run.wrote)
    BY <1>1, <2>2, <2>3
  <2>5. ModeOf[hook] \in run.wrote => run.step + 1 > ModeAt[hook]
    <3>1. ModeAt[hook] \in {8, 10}
      BY DEF ModeAt, HookLine
    <3> QED
      BY <1>2, <3>1 DEF SetupTypes
  <2> QED
    BY <1>1, <2>1, <2>4, <2>5 DEF SetupInv, ModeInv, HookFine
<1> QED
  BY <1>1, <1>2, <1>3, <1>4, Advanced DEF SetupTypes

LEMMA WriteKeeps ==
  ASSUME SetupTypes, SetupInv, Write
  PROVE  SetupTypes' /\ SetupInv' /\ (Placed(disk, run.answers, 13) /\ run.wrote = {} => disk' = disk)
<1> PICK n : n = run.step
  OBVIOUS
<1> PICK a : a = run.answers
  OBVIOUS
<1> PICK file : file = FileOf(Steps[n])
  OBVIOUS
<1> PICK new : new = Written(Steps[n], a)
  OBVIOUS
<1> PICK w : w = IF new # disk[file] THEN {Steps[n]} ELSE {}
  OBVIOUS
<1>1. /\ run # Idle /\ Wanted(Steps[n], a) /\ ~Fails(Steps[n], a)
      /\ disk' = [disk EXCEPT ![file] = new] /\ Advance(w) /\ before' = before
  BY DEF Write, Doing, Now
<1>2. n \in 1..12 /\ a \in Answers
  BY <1>1, RunTypes
<1>3. Placed(disk, a, n)
  BY <1>1 DEF SetupInv
<1>4. Right(n, a, disk')
  BY <1>1, <1>2, <1>3, StepPlaces DEF Done
<1>5. IsDisk(disk)' /\ Placed(disk', a, n + 1)
  BY <1>4 DEF Right
<1>6. file \in Files
  BY <1>2, StepNames, StepFiles DEF Files
<1>7. DOMAIN disk = Files /\ disk'[file] = new /\ \A f \in Files \ {file} : disk'[f] = disk[f]
  <2>1. DOMAIN disk = Files
    BY DEF SetupTypes, IsDisk
  <2> QED
    BY <1>1, <1>6, <2>1
<1>8. Placed(disk, a, 13) /\ run.wrote = {} => disk' = disk /\ w = {}
  BY <1>4, <1>7 DEF Right
<1>9. w \in SUBSET ToSet(Steps)
  <2>1. Steps[n] \in ToSet(Steps)
    BY <1>2 DEF ToSet, Steps
  <2> QED
    BY <2>1
<1>10. ASSUME NEW hook \in DOMAIN HookLine
       PROVE  /\ hook \in run.wrote \cup w => disk'[hook] # NoFile
              /\ ModeOf[hook] \in run.wrote \cup w => run.step + 1 > ModeAt[hook]
              /\ HookFine(hook, disk'[hook], run.step + 1 = ModeAt[hook] /\ hook \in w)
  <2>1. /\ hook \in {"precommit", "commitmsg"} /\ hook \in Files /\ ModeAt[hook] \in {8, 10}
        /\ n + 1 = ModeAt[hook] => Steps[n] = hook
        /\ n = ModeAt[hook] => /\ file = hook /\ hook \in run.wrote /\ MadeExecutable(disk[hook], new)
        /\ file = hook => n + 1 = ModeAt[hook] \/ n = ModeAt[hook]
        /\ ModeOf[hook] = Steps[n] => n = ModeAt[hook]
    <3>1. /\ hook \in {"precommit", "commitmsg"} /\ ModeAt[hook] \in {8, 10}
          /\ n + 1 = ModeAt[hook] => Steps[n] = hook
          /\ n = ModeAt[hook] => /\ FileOf(Steps[n]) = hook
                                 /\ Wanted(Steps[n], a) => hook \in run.wrote
                                 /\ MadeExecutable(disk[hook], Written(Steps[n], a))
          /\ FileOf(Steps[n]) = hook => n + 1 = ModeAt[hook] \/ n = ModeAt[hook]
          /\ ModeOf[hook] = Steps[n] => n = ModeAt[hook]
      BY <1>2, HookSteps
    <3>2. hook \in Files
      BY <3>1 DEF Files
    <3>3. n = ModeAt[hook] => MadeExecutable(disk[hook], new)
      BY <3>1
    <3> QED
      BY <1>1, <3>1, <3>2, <3>3
  <2>2. hook \in run.wrote => disk[hook] # NoFile
    BY DEF SetupTypes
  <2>3. HookFine(hook, disk[hook], n = ModeAt[hook] /\ hook \in run.wrote)
    BY <1>1 DEF SetupInv, ModeInv, HookFine
  <2>7. ModeOf[hook] \in run.wrote \cup w => run.step + 1 > ModeAt[hook]
    <3>1. ModeOf[hook] \in run.wrote => run.step > ModeAt[hook]
      BY DEF SetupTypes
    <3>2. ModeOf[hook] \in w => n = ModeAt[hook]
      BY <2>1
    <3> QED
      BY <1>2, <2>1, <3>1, <3>2
  <2>4. CASE file # hook
    <3>1. disk'[hook] = disk[hook] /\ n # ModeAt[hook]
      BY <1>7, <2>1, <2>4
    <3>2. hook \notin w
      <4>1. FileOf(hook) = hook
        BY <2>1, StepFiles
      <4> QED
        BY <2>4, <4>1
    <3> QED
      BY <2>2, <2>3, <2>7, <3>1, <3>2 DEF HookFine
  <2>5. CASE n = ModeAt[hook]
    <3>1. disk[hook] # NoFile /\ disk[hook] \in ContentOf(hook)
      BY <2>1, <2>2, <2>5, Contents DEF SetupTypes
    <3>2. new # NoFile /\ new.x
      BY <2>1, <2>5, <3>1, Executable DEF MadeExecutable
    <3> QED
      BY <1>7, <2>1, <2>5, <2>7, <3>2 DEF HookFine
  <2>6. CASE file = hook /\ n + 1 = ModeAt[hook]
    <3>1. new = InstallGitHook(disk[hook], hook, a.place) /\ a.place \in {"skip", "before", "after"}
      <4>1. Written("precommit", a) = InstallGitHook(disk["precommit"], "precommit", a.place)
        BY StepsWritten
      <4>2. Written("commitmsg", a) = InstallGitHook(disk["commitmsg"], "commitmsg", a.place)
        BY StepsWritten
      <4>3. a.place \in {"skip", "before", "after"}
        BY <1>2, AnswerTypes
      <4> QED
        BY <2>1, <2>6, <4>1, <4>2, <4>3
    <3>2. disk[hook] = NoFile \/ disk[hook] \in ContentOf(hook)
      BY <2>1, Contents DEF SetupTypes
    <3>3. new # NoFile
      BY <2>1, <3>1, <3>2, GitHookPlaces
    <3>4. new # disk[hook] => hook \in w
      BY <2>1, <2>6
    <3>5. n # ModeAt[hook]
      BY <1>2, <2>1, <2>6
    <3> QED
      BY <1>7, <2>3, <2>6, <2>7, <3>3, <3>4, <3>5 DEF HookFine
  <2>8. CASE file = hook /\ n # ModeAt[hook]
    BY <2>1, <2>6, <2>8
  <2> QED
    BY <2>4, <2>5, <2>8
<1> QED
  BY <1>1, <1>5, <1>8, <1>9, <1>10, Advanced

\* A run that ends early between two steps, before the mode of a hook or not.
LEMMA EndsBetween ==
  ASSUME SetupTypes, SetupInv, run # Idle, End(FALSE, {}), disk' = disk, before' = before
  PROVE  SetupTypes' /\ SetupInv'
<1>1. run.step \in 1..12 /\ run.answers \in Answers /\ run.wrote \in SUBSET ToSet(Steps)
  BY RunTypes
<1>2. run' = Idle /\ ended' = Append(ended, [ok |-> FALSE, answers |-> run.answers, wrote |-> run.wrote])
  <2>1. run.wrote \cup {} = run.wrote
    OBVIOUS
  <2> QED
    BY <2>1 DEF End
<1>3. ASSUME NEW hook \in DOMAIN HookLine
      PROVE  run.wrote \cap {hook, ModeOf[hook]} = {hook} \/ HookFine(hook, disk'[hook], FALSE)
  <2>1. HookFine(hook, disk[hook], run.step = ModeAt[hook] /\ hook \in run.wrote)
    BY DEF SetupInv, ModeInv, HookFine
  <2>2. CASE run.step = ModeAt[hook] /\ hook \in run.wrote
    <3>1. ModeOf[hook] \notin run.wrote
      BY <1>1, <2>2 DEF SetupTypes
    <3> QED
      BY <2>2, <3>1
  <2>3. CASE ~(run.step = ModeAt[hook] /\ hook \in run.wrote)
    BY <2>1, <2>3 DEF HookFine
  <2> QED
    BY <2>2, <2>3
<1>4. IsDisk(disk)' /\ ended \in Seq(EndRecord)
  BY DEF SetupTypes
<1> QED
  BY <1>1, <1>2, <1>3, <1>4, EndsBadly

LEMMA FailKeeps ==
  ASSUME SetupTypes, SetupInv, Fail
  PROVE  SetupTypes' /\ SetupInv'
<1>1. run # Idle /\ End(FALSE, {}) /\ disk' = disk /\ before' = before
  BY DEF Fail
<1> QED
  BY <1>1, EndsBetween

LEMMA CutShortKeeps ==
  ASSUME SetupTypes, SetupInv, CutShort
  PROVE  SetupTypes' /\ SetupInv'
<1> PICK n : n = run.step
  OBVIOUS
<1> PICK a : a = run.answers
  OBVIOUS
<1> PICK file : file = FileOf(Steps[n])
  OBVIOUS
<1> PICK new : new = Written(Steps[n], a)
  OBVIOUS
<1>1. run # Idle /\ before' = before
  BY DEF CutShort
<1>2. n \in 1..12 /\ a \in Answers /\ Placed(disk, a, n) /\ run.wrote \in SUBSET ToSet(Steps)
  BY <1>1, RunTypes DEF SetupInv
<1>3. CASE End(FALSE, {}) /\ disk' = disk
  BY <1>1, <1>3, EndsBetween
<1>4. CASE /\ Doing /\ Writes /\ End(FALSE, {Now})
           /\ \E piece \in Pieces(Now, Written(Now, run.answers)) :
                disk' = [disk EXCEPT ![FileOf(Now)] = piece]
  <2>1. /\ Wanted(Steps[n], a) /\ ~Fails(Steps[n], a)
        /\ Steps[n] \in {"mcp", "aider", "hooks", "settings"} \/ new # disk[file]
    BY <1>4 DEF Doing, Writes, Now
  <2>2. PICK piece \in Pieces(Steps[n], new) : disk' = [disk EXCEPT ![file] = piece]
    BY <1>4 DEF Now
  <2>3. IsDisk(disk)'
    BY <1>2, <2>1, <2>2, CutTypes
  <2>4. PICK w \in SUBSET ToSet(Steps) : w = run.wrote \cup {Steps[n]}
    <3>1. Steps[n] \in ToSet(Steps)
      BY <1>2 DEF ToSet, Steps
    <3> QED
      BY <1>2, <3>1
  <2>5. run' = Idle /\ ended' = Append(ended, [ok |-> FALSE, answers |-> a, wrote |-> w])
    BY <1>4, <2>4 DEF End, Now
  <2>6. ASSUME NEW hook \in DOMAIN HookLine
        PROVE  w \cap {hook, ModeOf[hook]} = {hook} \/ HookFine(hook, disk'[hook], FALSE)
    <3>1. /\ hook \in {"precommit", "commitmsg"} /\ ModeAt[hook] \in {8, 10}
          /\ n + 1 = ModeAt[hook] => Steps[n] = hook
          /\ n = ModeAt[hook] => file = hook /\ hook \in run.wrote /\ MadeExecutable(disk[hook], new)
          /\ file = hook => n + 1 = ModeAt[hook] \/ n = ModeAt[hook]
          /\ ModeOf[hook] = Steps[n] <=> n = ModeAt[hook]
      BY <1>2, <2>1, HookSteps
    <3>2. HookFine(hook, disk[hook], n = ModeAt[hook] /\ hook \in run.wrote)
      BY <1>1 DEF SetupInv, ModeInv, HookFine
    <3>3. hook \in Files /\ file \in Files /\ DOMAIN disk = Files
      BY <1>2, <3>1, StepNames, StepFiles DEF SetupTypes, IsDisk, Files
    <3>4. CASE file # hook
      <4>1. disk'[hook] = disk[hook] /\ n # ModeAt[hook]
        BY <2>2, <3>1, <3>3, <3>4
      <4> QED
        BY <3>2, <4>1 DEF HookFine
    <3>5. CASE n = ModeAt[hook]
      <4>1. Steps[n] = "precommitMode" \/ Steps[n] = "commitmsgMode"
        BY <3>1, <3>5, StepNames
      <4>2. piece = new
        BY <2>2, <4>1, StepPieces
      <4>3. disk[hook] # NoFile /\ disk[hook] \in ContentOf(hook)
        BY <3>1, <3>5, Contents DEF SetupTypes
      <4>4. disk'[hook].x
        <5>1. new.x
          BY <3>1, <3>5, <4>3, Executable DEF MadeExecutable
        <5> QED
          BY <2>2, <3>1, <3>3, <3>5, <4>2, <5>1
      <4> QED
        BY <4>4 DEF HookFine
    <3>6. CASE file = hook /\ n # ModeAt[hook]
      <4>1. n + 1 = ModeAt[hook] /\ Steps[n] = hook /\ ModeOf[hook] # Steps[n]
        BY <3>1, <3>6
      <4>2. ModeOf[hook] \notin run.wrote
        BY <1>2, <3>1, <4>1 DEF SetupTypes
      <4> QED
        BY <2>4, <4>1, <4>2
    <3> QED
      BY <3>4, <3>5, <3>6
  <2>7. ended \in Seq(EndRecord)
    BY DEF SetupTypes
  <2> QED
    BY <1>1, <1>2, <2>3, <2>5, <2>6, <2>7, EndsBadly
<1> QED
  BY <1>3, <1>4 DEF CutShort

\* No step makes a hook that is not 8v's where none was.
LEMMA StrangeStep ==
  ASSUME SetupTypes, SetupInv, StrangeInv, Next
  PROVE  StrangeInv'
<1>1. CASE disk' = disk
  <2>1. before' = before /\ torn \subseteq torn'
    BY Zenon DEF Next, Start, Skip, Fail, Write, CutShort
  <2> QED
    BY <1>1, <2>1 DEF StrangeInv, Strange
<1>2. CASE Write
  <2> SUFFICES ASSUME NEW hook \in DOMAIN HookLine
               PROVE  Strange(hook, disk'[hook], torn)
    BY <1>2 DEF StrangeInv, Strange, Write
  <2> PICK n : n = run.step
    OBVIOUS
  <2> PICK a : a = run.answers
    OBVIOUS
  <2> PICK file : file = FileOf(Steps[n])
    OBVIOUS
  <2> PICK new : new = Written(Steps[n], a)
    OBVIOUS
  <2>1. run # Idle /\ Wanted(Steps[n], a) /\ disk' = [disk EXCEPT ![file] = new]
    BY <1>2 DEF Write, Doing, Now
  <2>2. n \in 1..12 /\ a \in Answers
    BY <2>1, RunTypes
  <2>3. /\ hook \in {"precommit", "commitmsg"} /\ ModeAt[hook] \in {8, 10}
        /\ n + 1 = ModeAt[hook] => Steps[n] = hook
        /\ n = ModeAt[hook] => file = hook /\ hook \in run.wrote /\ MadeExecutable(disk[hook], new)
        /\ file = hook => n + 1 = ModeAt[hook] \/ n = ModeAt[hook]
    BY <2>1, <2>2, HookSteps
  <2>4. hook \in Files /\ file \in Files /\ DOMAIN disk = Files
    BY <2>2, <2>3, StepNames, StepFiles DEF SetupTypes, IsDisk, Files
  <2>5. Strange(hook, disk[hook], torn)
    BY DEF StrangeInv
  <2>6. disk[hook] = NoFile \/ disk[hook] \in ContentOf(hook)
    BY <2>3, Contents DEF SetupTypes
  <2>7. CASE file # hook
    BY <2>1, <2>4, <2>5, <2>7
  <2>8. CASE n = ModeAt[hook]
    <3>1. disk[hook] # NoFile
      BY <2>3, <2>8 DEF SetupTypes
    <3>2. new.lines = disk[hook].lines
      BY <2>3, <2>6, <2>8, <3>1, Executable DEF MadeExecutable
    <3> QED
      BY <2>1, <2>3, <2>4, <2>5, <2>8, <3>1, <3>2 DEF Strange
  <2>9. CASE file = hook /\ n # ModeAt[hook]
    <3>1. Steps[n] = hook
      BY <2>3, <2>9
    <3>2. new = InstallGitHook(disk[hook], hook, a.place) /\ a.place \in {"skip", "before", "after"}
      <4>1. Written("precommit", a) = InstallGitHook(disk["precommit"], "precommit", a.place)
        BY StepsWritten
      <4>2. Written("commitmsg", a) = InstallGitHook(disk["commitmsg"], "commitmsg", a.place)
        BY StepsWritten
      <4>3. a.place \in {"skip", "before", "after"}
        BY <2>2, AnswerTypes
      <4> QED
        BY <2>3, <3>1, <4>1, <4>2, <4>3
    <3>3. HasMarker(new.lines, hook) \/ new = disk[hook]
      BY <2>3, <2>6, <3>2, GitHookPlaces
    <3> QED
      BY <2>1, <2>4, <2>5, <2>9, <3>3 DEF Strange
  <2> QED
    BY <2>7, <2>8, <2>9
<1>3. CASE /\ CutShort /\ torn' = torn \cup {FileOf(Now)}
           /\ \E piece \in Pieces(Now, Written(Now, run.answers)) :
                disk' = [disk EXCEPT ![FileOf(Now)] = piece]
  <2> SUFFICES ASSUME NEW hook \in DOMAIN HookLine
               PROVE  Strange(hook, disk'[hook], torn')
    BY <1>3 DEF StrangeInv, Strange, CutShort
  <2>1. Strange(hook, disk[hook], torn)
    BY DEF StrangeInv
  <2>2. hook \in DOMAIN disk
    BY DEF SetupTypes, IsDisk, Files, HookLine
  <2>3. hook \in torn' \/ disk'[hook] = disk[hook]
    BY <1>3, <2>2
  <2> QED
    BY <1>3, <2>1, <2>3 DEF Strange
<1> QED
  BY <1>1, <1>2, <1>3 DEF Next, Start, Skip, Fail, CutShort

-----------------------------------------------------------------------------
(* With an upgrade as the other thing that may happen *)

RunsInv ==
  \/ command = "init" /\ SetupTypes /\ SetupInv /\ StrangeInv
  \/ command = "upgrade" /\ run = Idle /\ ended = <<>>

\* The invariant holds at first, is kept by every step, and so always holds.
LEMMA RunsInit == InstallInit => RunsInv
<1> SUFFICES ASSUME InstallInit
             PROVE  RunsInv
  OBVIOUS
<1>1. CASE command = "init"
  <2>1. disk \in Projects /\ before = disk /\ run = Idle /\ ended = <<>>
    BY <1>1 DEF InstallInit, Init
  <2>2. SetupTypes
    <3>1. run.wrote = {}
      BY <2>1 DEF Idle
    <3>2. ended \in Seq(EndRecord)
      BY <2>1, EmptySeq
    <3> QED
      BY <2>1, <3>1, <3>2, SetupAssumption DEF SetupTypes
  <2>3. SetupInv
    BY <2>1 DEF SetupInv, ModeInv, QuietInv, LacksMode
  <2>4. StrangeInv
    BY <2>1 DEF StrangeInv, Strange
  <2> QED
    BY <1>1, <2>2, <2>3, <2>4 DEF RunsInv
<1>2. CASE command = "upgrade"
  BY <1>2 DEF InstallInit, RunsInv
<1> QED
  BY <1>1, <1>2 DEF InstallInit

LEMMA RunsStep == RunsInv /\ [InstallNext]_AllVars => RunsInv'
<1> SUFFICES ASSUME RunsInv, [InstallNext]_AllVars
             PROVE  RunsInv'
  OBVIOUS
<1>1. CASE UNCHANGED <<vars, command>>
  BY <1>1 DEF RunsInv, vars, SetupTypes, SetupInv, ModeInv, QuietInv, LacksMode, StrangeInv, Strange
<1>2. CASE command = "init" /\ Next /\ command' = command
  <2>1. SetupTypes /\ SetupInv /\ StrangeInv
    BY <1>2 DEF RunsInv
  <2>2. SetupTypes' /\ SetupInv'
    BY <1>2, <2>1, StartKeeps, SkipKeeps, WriteKeeps, FailKeeps, CutShortKeeps DEF Next
  <2>3. StrangeInv'
    BY <1>2, <2>1, StrangeStep
  <2> QED
    BY <1>2, <2>2, <2>3 DEF RunsInv
<1> QED
  BY <1>1, <1>2 DEF InstallNext, AllVars

LEMMA RunsAlways == InstallSpec => []RunsInv
BY RunsInit, RunsStep, PTL DEF InstallSpec

\* A run of init that ends well leaves everything it was asked for in place, whatever the
\* project and however the runs before it ended: each git hook has its line and is
\* executable, but a hook that had the line before the first run, or whose line a run wrote
\* that was cut short before the mode, and that no run makes executable any more; and only
\* a hook without the line that was there before, or was torn, may be skipped.
THEOREM DoneIsDoneCorrect == InstallSpec => []DoneIsDone
<1>1. RunsInv => DoneIsDone
  <2> SUFFICES ASSUME RunsInv, run = Idle, ended # <<>>, Last(ended).ok,
                      NEW a, a = Last(ended).answers
               PROVE  /\ \A step \in a.wants : InPlace(step, a)
                      /\ ToSet(McpToolPermission) \subseteq ToSet(disk["settings"].allow)
                      /\ ToSet(DeniedNativeTools) \subseteq ToSet(disk["settings"].deny)
                      /\ a.home => \E i \in DOMAIN disk["registry"] : StandsIn(disk["registry"][i])
    BY DEF DoneIsDone
  <2>1. Placed(disk, a, 13) /\ ModeInv /\ StrangeInv
    BY DEF RunsInv, SetupInv, QuietInv
  <2>2. PermissionsPlaced(disk["settings"]) /\ (a.home => Registered(disk["registry"]))
    BY <2>1 DEF Placed
  <2>3. ASSUME NEW step \in a.wants
        PROVE  InPlace(step, a)
    <3>1. CASE step = "mcp"
      <4>1. McpPlaced(disk["mcp"], a.name)
        BY <2>1, <3>1 DEF Placed
      <4>2. disk["mcp"] = NotAnObject \/ a.name \in disk["mcp"].servers
        BY <4>1 DEF McpPlaced
      <4> QED
        BY Zenon, <3>1, <4>2 DEF InPlace
    <3>2. CASE step = "claude"
      <4>1. \E f \in {"claude", "agents"} : HasCurrent(disk[f])
        BY <2>1, <3>2 DEF Placed, HasCurrent, FileHasCurrentBlock
      <4> QED
        BY Zenon, <3>2, <4>1 DEF InPlace
    <3>3. CASE step = "agents"
      <4>1. HasCurrent(disk["agents"])
        BY <2>1, <3>3 DEF Placed, HasCurrent, FileHasCurrentBlock
      <4> QED
        BY Zenon, <3>3, <4>1 DEF InPlace
    <3>4. CASE step = "aider"
      <4>1. disk["aider"] \in {NoFile, "ours"}
        BY <2>1, <3>4 DEF Placed
      <4> QED
        BY Zenon, <3>4, <4>1 DEF InPlace
    <3>5. CASE step \in {"precommit", "commitmsg"}
      <4>1. Git => HookPlaced(disk[step], step, a.place)
        BY <2>1, <3>5 DEF Placed, Git
      <4>2. step \in DOMAIN HookLine
        BY <3>5 DEF HookLine
      <4>3. ASSUME Git, HasMarker(disk[step].lines, step)
            PROVE  disk[step].x \/ LacksMode(step)
        BY <2>1, <4>1, <4>2, <4>3 DEF ModeInv, HookPlaced
      <4>4. ASSUME Git, ~HasMarker(disk[step].lines, step)
            PROVE  a.place = "skip" /\ Foreigner(step)
        BY <2>1, <4>1, <4>2, <4>4 DEF StrangeInv, Strange, HookPlaced, Foreigner
      <4>5. HookInPlace(step, a)
        BY <4>1, <4>3, <4>4 DEF HookInPlace, HookPlaced
      <4> QED
        BY Zenon, <3>5, <4>5 DEF InPlace
    <3>6. CASE step = "hooks"
      <4>1. ~a.yes => ClaudeHooksPlaced(disk["settings"])
        BY <2>1, <3>6 DEF Placed
      <4>2. ToSet(ClaudeHookEvents) \subseteq ToSet(ClaudeHookEvents \o ObservabilityHooks)
        <5>1. ClaudeHookEvents \in Seq(HookEntries) /\ ObservabilityHooks \in Seq(HookEntries)
          BY ListTypes
        <5>2. ASSUME NEW x \in ToSet(ClaudeHookEvents)
              PROVE  x \in ToSet(ClaudeHookEvents \o ObservabilityHooks)
          <6>1. x \in HookEntries /\ Contains(ClaudeHookEvents, x)
            BY DEF HookEntries, ToSet, Contains
          <6>2. PICK all \in Seq(HookEntries) : all = ClaudeHookEvents \o ObservabilityHooks
            BY ListTypes
          <6>3. Contains(all, x)
            BY <5>1, <6>1, <6>2, Concatenated
          <6> QED
            BY <6>2, <6>3 DEF Contains, ToSet
        <5> QED
          BY <5>2
      <4>3. ~a.yes => ToSet(ClaudeHookEvents) \subseteq ToSet(disk["settings"].hooks)
        BY <4>1, <4>2 DEF ClaudeHooksPlaced
      <4>4. a.yes \/ ToSet(ClaudeHookEvents) \subseteq ToSet(disk["settings"].hooks)
        BY <4>3
      <4> QED
        BY Zenon, <3>6, <4>4 DEF InPlace
    <3>7. CASE step \notin {"mcp", "claude", "agents", "aider", "precommit", "commitmsg", "hooks"}
      BY Zenon, <3>7 DEF InPlace
    <3> QED
      BY <3>1, <3>2, <3>3, <3>4, <3>5, <3>6, <3>7
  <2> QED
    BY <2>2, <2>3 DEF PermissionsPlaced, Registered
<1> QED
  BY <1>1, RunsAlways, PTL

\* A run with the answers of the run before it, which ended well, writes nothing new.
THEOREM SecondRunIsQuietCorrect == InstallSpec => SecondRunIsQuiet
<1> DEFINE Quiet == /\ run # Idle /\ ended # <<>> /\ Last(ended).ok /\ Last(ended).answers = run.answers
                    /\ Write
                    => disk' = disk
<1>1. RunsInv => Quiet
  <2> SUFFICES ASSUME RunsInv, run # Idle, ended # <<>>, Last(ended).ok /\ Last(ended).answers = run.answers, Write
               PROVE  disk' = disk
    OBVIOUS
  <2>1. SetupTypes /\ SetupInv
    BY DEF RunsInv
  <2>2. Last(ended).ok /\ Last(ended).answers = run.answers
    OBVIOUS
  <2>3. QuietInv
    BY <2>1 DEF SetupInv
  <2>4. Placed(disk, run.answers, 13) /\ run.wrote = {}
    BY <2>2, <2>3 DEF QuietInv
  <2> QED
    BY <2>1, <2>4, WriteKeeps
<1> QED
  BY <1>1, RunsAlways, PTL DEF SecondRunIsQuiet

-----------------------------------------------------------------------------
(* What belongs to the user *)

\* What a file `new` that nothing was torn from has kept of what it held at first.
Stays(file, old, new) ==
  /\ file \in {"claude", "agents"} =>
       new \in Seq(TextLines) /\ Spaced(new) /\ Foreign(new) = Foreign(old)
  /\ file \in {"precommit", "commitmsg"} =>
       new \in ContentOf(file) /\ OwnLines(new.lines) = OwnLines(old.lines)
  /\ file = "registry" =>
       old \in ContentOf("registry") /\ new \in ContentOf("registry") /\ IsPrefix(old, new)
  /\ file \in JsonFiles /\ old \in {Broken, NotAnObject} => new = old
  /\ file = "mcp" /\ old \notin {Broken, NotAnObject} =>
       \/ old.servers = NotAnObject
       \/ new \in ContentOf("mcp") /\ old.servers \subseteq new.servers
  /\ file = "settings" /\ old \notin {Broken, NotAnObject} =>
       /\ old \in ContentOf("settings") /\ new \in ContentOf("settings")
       /\ IsPrefix(old.allow, new.allow) /\ IsPrefix(old.deny, new.deny) /\ IsPrefix(old.hooks, new.hooks)
  /\ file = "config" => new = old

KeptInv ==
  \A file \in Files \ torn : before[file] \notin {NoFile, Blank} => Stays(file, before[file], disk[file])

\* Of a file that stays as it is, everything stays.
LEMMA StaysItself ==
  ASSUME NEW d, IsDisk(d), NEW file \in Files, d[file] \notin {NoFile, Blank},
         file \in {"claude", "agents"} => Spaced(d[file])
  PROVE  Stays(file, d[file], d[file])
<1> PICK old : old = d[file]
  OBVIOUS
<1>1. file \in ReadFiles => old \in ContentOf(file) \/ (file \in JsonFiles /\ old \in {Broken, NotAnObject})
  BY DEF IsDisk, NotJson
<1>2. file \in {"claude", "agents"} => old \in Seq(TextLines)
  BY <1>1, ContentShapes DEF ReadFiles, Files, JsonFiles
<1>3. file \in {"precommit", "commitmsg"} => old \in ContentOf(file)
  BY <1>1 DEF ReadFiles, Files, JsonFiles
<1>4. file = "registry" => old \in ContentOf("registry") /\ IsPrefix(old, old)
  BY <1>1, ContentShapes, PrefixGrows DEF ReadFiles, Files, JsonFiles
<1>5. file = "mcp" /\ old \notin {Broken, NotAnObject} => old \in ContentOf("mcp")
  BY <1>1 DEF ReadFiles, Files
<1>6. file = "settings" /\ old \notin {Broken, NotAnObject} =>
        /\ old \in ContentOf("settings")
        /\ IsPrefix(old.allow, old.allow) /\ IsPrefix(old.deny, old.deny) /\ IsPrefix(old.hooks, old.hooks)
  BY <1>1, SettingsParts, PrefixGrows DEF ReadFiles, Files
<1> QED
  BY <1>2, <1>3, <1>4, <1>5, <1>6 DEF Stays

\* What a text keeps when the block is put into it.
LEMMA TextStays ==
  ASSUME NEW t \in Seq(TextLines), t # NoFile, ~IsMalformed(t), Spaced(t),
         NEW new, new = UpsertVersionedBlock(t)
  PROVE  new \in Seq(TextLines) /\ Spaced(new) /\ Foreign(new) = Foreign(t)
<1>1. CASE new = t
  BY <1>1
<1>2. ASSUME NEW front \in Seq(TextLines), NEW rest \in Seq(TextLines),
             \A m \in 1..Len(front) : front[m] \notin Begins,
             new = front \o Block \o rest, Foreign(t) = front \o rest
      PROVE  new \in Seq(TextLines) /\ Spaced(new) /\ Foreign(new) = Foreign(t)
  <2>1. new \in Seq(TextLines) /\ Foreign(new) = front \o rest /\ FindSentinelBounds(new) # NoBlock
    BY <1>2, Spliced
  <2> QED
    BY <1>2, <2>1 DEF Spaced
<1> QED
  BY <1>1, <1>2, UpsertShape

\* What a step writes into a file keeps what the file held at first.
LEMMA StepStays ==
  ASSUME IsDisk(disk), NEW a \in Answers, NEW n \in 1..12, Wanted(Steps[n], a), ~Fails(Steps[n], a),
         NEW file, file = FileOf(Steps[n]), NEW new, new = Written(Steps[n], a),
         NEW old, old \notin {NoFile, Blank}, Stays(file, old, disk[file])
  PROVE  Stays(file, old, new)
<1> PICK now : now = disk[file]
  OBVIOUS
<1> PICK step : step = Steps[n]
  OBVIOUS
<1>0. /\ step \in {"config", "registry", "mcp", "claude", "agents", "aider", "precommit", "precommitMode",
                   "commitmsg", "commitmsgMode", "hooks", "settings"}
      /\ file = FileOf(step) /\ new = Written(step, a) /\ ~Fails(step, a) /\ Stays(file, old, now)
  BY StepNames
<1>1. CASE step = "config"
  <2>1. file = "config" /\ now = old
    BY <1>0, <1>1, StepFiles DEF Stays
  <2>2. new = now
    BY <1>0, <1>1, <2>1, StepsWritten
  <2> QED
    BY <1>0, <2>2
<1>2. CASE step = "registry"
  <2>1. file = "registry" /\ now \in ContentOf("registry") /\ IsPrefix(old, now) /\ old \in ContentOf("registry")
    BY <1>0, <1>2, StepFiles DEF Stays
  <2>2. new = RegisterWorkspace(now)
    BY <1>0, <1>2, <2>1, StepsWritten
  <2>3. now # NoFile
    BY <2>1, Distinct DEF ReadFiles, Files
  <2>4. new \in ContentOf("registry") /\ IsPrefix(now, new)
    BY <2>1, <2>2, <2>3, RegisterPlaces
  <2>5. IsPrefix(old, new)
    BY <2>1, <2>4, ContentShapes, PrefixGrows
  <2> QED
    BY <2>1, <2>4, <2>5 DEF Stays, JsonFiles
<1>3. CASE step = "mcp"
  <2>1. file = "mcp"
    BY <1>0, <1>3, StepFiles
  <2>2. new = SetupMcpJson(now, a.name) /\ a.name \in ServerNames
    BY <1>0, <1>3, <2>1, StepsWritten, AnswerTypes
  <2>3. now \in {NoFile, Blank, NotAnObject} \/ (now \in ContentOf("mcp") /\ now.servers # NotAnObject)
    BY <1>0, <1>3, <2>1, Contents, StepsFail DEF NotJson
  <2>4. Broken \notin {NoFile, Blank, NotAnObject} /\ Broken \notin ContentOf("mcp")
    BY Distinct DEF JsonFiles, NotJson
  <2>5. old # Broken
    BY <1>0, <2>1, <2>3, <2>4 DEF Stays, JsonFiles
  <2>6. old = NotAnObject => new = old
    BY <1>0, <2>1, <2>2, <2>3, McpPlaces DEF Stays, JsonFiles
  <2>7. ASSUME old \notin {Broken, NotAnObject}, old.servers # NotAnObject
        PROVE  new \in ContentOf("mcp") /\ old.servers \subseteq new.servers
    <3>1. now \in ContentOf("mcp") /\ old.servers \subseteq now.servers
      BY <1>0, <2>1, <2>7 DEF Stays
    <3>2. new \in ContentOf("mcp") /\ now.servers \subseteq new.servers
      BY <2>2, <2>3, <3>1, McpPlaces
    <3> QED
      BY <3>1, <3>2
  <2> QED
    BY <2>1, <2>5, <2>6, <2>7 DEF Stays
<1>4. CASE step = "claude"
  <2>1. file = "claude" /\ now \in Seq(TextLines) /\ Spaced(now) /\ Foreign(now) = Foreign(old)
    BY <1>0, <1>4, StepFiles DEF Stays
  <2>2. CASE ClaudeIsDone
    <3>1. new = now
      BY <1>0, <1>4, <2>1, <2>2, StepsWritten
    <3> QED
      BY <1>0, <3>1
  <2>3. CASE ~ClaudeIsDone
    <3>1. new = UpsertVersionedBlock(now) /\ ~IsMalformed(now)
      BY <1>0, <1>4, <2>1, <2>3, StepsWritten, StepsFail
    <3>2. now # NoFile
      BY <2>1, ContentShapes, Distinct DEF ReadFiles, Files
    <3>3. new \in Seq(TextLines) /\ Spaced(new) /\ Foreign(new) = Foreign(now)
      BY <2>1, <3>1, <3>2, TextStays
    <3> QED
      BY <2>1, <3>3 DEF Stays, JsonFiles
  <2> QED
    BY <2>2, <2>3
<1>5. CASE step = "agents"
  <2>1. file = "agents" /\ now \in Seq(TextLines) /\ Spaced(now) /\ Foreign(now) = Foreign(old)
    BY <1>0, <1>5, StepFiles DEF Stays
  <2>2. new = UpsertVersionedBlock(now) /\ ~IsMalformed(now)
    BY <1>0, <1>5, <2>1, StepsWritten, StepsFail
  <2>3. now # NoFile
    BY <2>1, ContentShapes, Distinct DEF ReadFiles, Files
  <2>4. new \in Seq(TextLines) /\ Spaced(new) /\ Foreign(new) = Foreign(now)
    BY <2>1, <2>2, <2>3, TextStays
  <2> QED
    BY <2>1, <2>4 DEF Stays, JsonFiles
<1>6. CASE step = "aider"
  BY <1>0, <1>6, StepFiles DEF Stays, JsonFiles
<1>7. CASE step \in {"precommit", "commitmsg"}
  <2>1. file = step /\ now \in ContentOf(file) /\ OwnLines(now.lines) = OwnLines(old.lines)
    BY <1>0, <1>7, StepFiles DEF Stays
  <2>2. new = InstallGitHook(now, file, a.place) /\ a.place \in {"skip", "before", "after"}
    BY <1>0, <1>7, <2>1, StepsWritten, AnswerTypes
  <2>3. now # NoFile
    BY <1>7, <2>1, Distinct DEF ReadFiles, Files
  <2>4. new \in ContentOf(file) /\ OwnLines(new.lines) = OwnLines(now.lines)
    BY <1>7, <2>1, <2>2, <2>3, GitHookPlaces
  <2> QED
    BY <1>7, <2>1, <2>4 DEF Stays, JsonFiles
<1>8. CASE step \in {"precommitMode", "commitmsgMode"}
  <2>1. file \in {"precommit", "commitmsg"}
    BY <1>0, <1>8, StepFiles
  <2>2. now \in ContentOf(file) /\ OwnLines(now.lines) = OwnLines(old.lines)
    BY <1>0, <2>1 DEF Stays
  <2>3. new = [now EXCEPT !.x = TRUE]
    <3>1. CASE step = "precommitMode"
      <4>1. file = "precommit" /\ now = disk["precommit"]
        BY <1>0, <3>1, StepFiles
      <4>2. Written("precommitMode", a) = [disk["precommit"] EXCEPT !.x = TRUE]
        BY StepsWritten
      <4>3. new = Written("precommitMode", a)
        BY <1>0, <3>1
      <4> QED
        BY <4>1, <4>2, <4>3
    <3>2. CASE step = "commitmsgMode"
      <4>1. file = "commitmsg" /\ now = disk["commitmsg"]
        BY <1>0, <3>2, StepFiles
      <4>2. Written("commitmsgMode", a) = [disk["commitmsg"] EXCEPT !.x = TRUE]
        BY StepsWritten
      <4>3. new = Written("commitmsgMode", a)
        BY <1>0, <3>2
      <4> QED
        BY <4>1, <4>2, <4>3
    <3> QED
      BY <1>8, <3>1, <3>2
  <2>4. new \in ContentOf(file) /\ new.lines = now.lines
    BY <2>1, <2>2, <2>3, Executable
  <2> QED
    BY <2>1, <2>2, <2>4 DEF Stays, JsonFiles
<1>9. CASE step \in {"hooks", "settings"}
  <2>1. file = "settings" /\ now \notin {Broken, NotAnObject}
    BY <1>0, <1>9, StepFiles, StepsFail
  <2>2. /\ old \notin {Broken, NotAnObject} /\ old \in ContentOf("settings") /\ now \in ContentOf("settings")
        /\ IsPrefix(old.allow, now.allow) /\ IsPrefix(old.deny, now.deny) /\ IsPrefix(old.hooks, now.hooks)
    BY <1>0, <2>1 DEF Stays, JsonFiles
  <2>3. /\ new \in ContentOf("settings")
        /\ IsPrefix(now.allow, new.allow) /\ IsPrefix(now.deny, new.deny) /\ IsPrefix(now.hooks, new.hooks)
    <3>1. CASE step = "hooks"
      <4>1. new = InstallClaudeHooks(now)
        BY <1>0, <2>1, <3>1, StepsWritten
      <4>2. IsPrefix(now.deny, now.deny)
        BY <2>2, SettingsParts, PrefixGrows
      <4> QED
        BY <2>2, <4>1, <4>2, ClaudeHooksInstalled
    <3>2. CASE step = "settings"
      <4>1. new = MergePermissions(now)
        BY <1>0, <2>1, <3>2, StepsWritten
      <4>2. IsPrefix(now.hooks, now.hooks)
        BY <2>2, SettingsParts, PrefixGrows
      <4> QED
        BY <2>2, <4>1, <4>2, PermissionsMerged
    <3> QED
      BY <1>9, <3>1, <3>2
  <2>4. IsPrefix(old.allow, new.allow) /\ IsPrefix(old.deny, new.deny) /\ IsPrefix(old.hooks, new.hooks)
    BY <2>2, <2>3, SettingsParts, PrefixGrows
  <2> QED
    BY <2>1, <2>2, <2>3, <2>4 DEF Stays
<1> QED
  BY <1>0, <1>1, <1>2, <1>3, <1>4, <1>5, <1>6, <1>7, <1>8, <1>9

\* What a step of init does to the files: none changes, one is written, or one is torn.
LEMMA KeptSteps ==
  ASSUME SetupTypes, KeptInv, Next
  PROVE  KeptInv'
<1>1. IsDisk(disk) /\ DOMAIN disk = Files
  BY DEF SetupTypes, IsDisk
<1>2. before' = before
  BY DEF Next, Start, Skip, Fail, Write, CutShort
<1>3. CASE disk' = disk /\ torn' = torn
  BY <1>2, <1>3 DEF KeptInv
<1>4. CASE Write
  <2>1. PICK n, a : n = run.step /\ a = run.answers
    OBVIOUS
  <2>2. PICK file, new : file = FileOf(Steps[n]) /\ new = Written(Steps[n], a)
    OBVIOUS
  <2>3. /\ run # Idle /\ Wanted(Steps[n], a) /\ ~Fails(Steps[n], a) /\ torn' = torn
        /\ disk' = [disk EXCEPT ![file] = new]
    BY <1>4, <2>1, <2>2 DEF Write, Doing, Now
  <2>4. n \in 1..12 /\ a \in Answers
    BY <2>1, <2>3, RunTypes
  <2>5. SUFFICES ASSUME NEW f \in Files \ torn, before[f] \notin {NoFile, Blank}
                 PROVE  Stays(f, before[f], disk'[f])
    BY <1>2, <2>3 DEF KeptInv
  <2>6. Stays(f, before[f], disk[f])
    BY <2>5 DEF KeptInv
  <2>7. CASE f # file
    BY <1>1, <2>3, <2>6, <2>7
  <2>8. CASE f = file
    <3>1. Stays(file, before[f], new)
      BY <1>1, <2>2, <2>3, <2>4, <2>5, <2>6, <2>8, StepStays
    <3>2. disk'[f] = new
      BY <1>1, <2>3, <2>8
    <3> QED
      BY <2>8, <3>1, <3>2
  <2> QED
    BY <2>7, <2>8
<1>5. ASSUME NEW file, NEW piece, torn' = torn \cup {file}, disk' = [disk EXCEPT ![file] = piece]
      PROVE  KeptInv'
  <2>1. SUFFICES ASSUME NEW f \in Files \ torn', before[f] \notin {NoFile, Blank}
                 PROVE  Stays(f, before[f], disk'[f])
    BY <1>2 DEF KeptInv
  <2>2. f \in Files \ torn /\ f # file
    BY <1>5, <2>1
  <2>3. disk'[f] = disk[f]
    BY <1>1, <1>5, <2>2
  <2> QED
    BY <2>1, <2>2, <2>3 DEF KeptInv
<1> QED
  BY <1>3, <1>4, <1>5 DEF Next, Start, Skip, Fail, CutShort

\* That is what the property asks of the file.
LEMMA StaysKept ==
  ASSUME NEW file \in Files, NEW old, NEW new, Stays(file, old, new)
  PROVE  Kept(file, old, new)
<1>1. CASE file \in {"claude", "agents"}
  <2>1. Foreign(new) = Foreign(old)
    BY <1>1 DEF Stays
  <2> QED
    BY <1>1, <2>1, Zenon DEF Kept
<1>2. CASE file \in {"precommit", "commitmsg"}
  <2>1. OwnLines(new.lines) = OwnLines(old.lines)
    BY <1>2 DEF Stays
  <2> QED
    BY <1>2, <2>1, Zenon DEF Kept
<1>3. CASE file = "registry"
  <2>1. IsPrefix(old, new)
    BY <1>3 DEF Stays
  <2> QED
    BY <1>3, <2>1, Zenon DEF Kept
<1>4. CASE file = "mcp"
  <2>1. IF old \in {Broken, NotAnObject} THEN new = old
        ELSE old.servers = NotAnObject \/ old.servers \subseteq new.servers
    BY <1>4 DEF Stays, JsonFiles
  <2> QED
    BY <1>4, <2>1, Zenon DEF Kept
<1>5. CASE file = "settings"
  <2>1. IF old \in {Broken, NotAnObject} THEN new = old
        ELSE /\ IsPrefix(old.allow, new.allow)
             /\ IsPrefix(old.deny, new.deny)
             /\ IsPrefix(old.hooks, new.hooks)
    BY <1>5 DEF Stays, JsonFiles
  <2> QED
    BY <1>5, <2>1, Zenon DEF Kept
<1>6. CASE file = "config"
  <2>1. new = old
    BY <1>6 DEF Stays
  <2> QED
    BY <1>6, <2>1, Zenon DEF Kept
<1>7. CASE file \in {"git", "aider"}
  BY <1>7, Zenon DEF Kept
<1> QED
  BY <1>1, <1>2, <1>3, <1>4, <1>5, <1>6, <1>7 DEF Files

\* What the user wrote into the files of a project stays there, but in a file that was
\* being written when a run was cut short.  The code takes a heading in the line below that
\* of a section without marks for a part of the section: no project has one there at first.
THEOREM ForeignKeptCorrect ==
  ASSUME \A project \in Projects : \A file \in {"claude", "agents"} :
           project[file] # NoFile => Spaced(project[file])
  PROVE  InstallSpec => []ForeignKept
<1> DEFINE Safe == \/ command = "init" /\ SetupTypes /\ SetupInv /\ IsDisk(before) /\ KeptInv
                   \/ command = "upgrade" /\ disk = Plain /\ before = Plain
<1>1. InstallInit => Safe
  <2> SUFFICES ASSUME InstallInit
               PROVE  Safe
    OBVIOUS
  <2>1. CASE command = "init"
    <3>1. disk \in Projects /\ before = disk /\ IsDisk(disk)
      BY <2>1, SetupAssumption DEF InstallInit, Init
    <3>2. SetupTypes /\ SetupInv
      BY <2>1, RunsInit DEF RunsInv
    <3>3. ASSUME NEW file \in Files, disk[file] \notin {NoFile, Blank}
          PROVE  Stays(file, disk[file], disk[file])
      BY <3>1, <3>3, StaysItself
    <3> QED
      BY <2>1, <3>1, <3>2, <3>3 DEF KeptInv
  <2>2. CASE command = "upgrade"
    BY <2>2 DEF InstallInit
  <2> QED
    BY <2>1, <2>2 DEF InstallInit
<1>2. Safe /\ [InstallNext]_AllVars => Safe'
  <2> SUFFICES ASSUME Safe, [InstallNext]_AllVars
               PROVE  Safe'
    OBVIOUS
  <2>1. CASE UNCHANGED <<vars, command>>
    BY <2>1 DEF vars, SetupTypes, SetupInv, ModeInv, QuietInv, LacksMode, KeptInv
  <2>2. CASE command = "init" /\ Next /\ command' = command
    <3>1. SetupTypes /\ SetupInv /\ IsDisk(before) /\ KeptInv
      BY <2>2
    <3>2. SetupTypes' /\ SetupInv'
      BY <2>2, <3>1, StartKeeps, SkipKeeps, WriteKeeps, FailKeeps, CutShortKeeps DEF Next
    <3>3. KeptInv'
      BY <2>2, <3>1, KeptSteps
    <3>4. before' = before
      BY <2>2 DEF Next, Start, Skip, Fail, Write, CutShort
    <3> QED
      BY <2>2, <3>1, <3>2, <3>3, <3>4
  <2> QED
    BY <2>1, <2>2 DEF InstallNext, AllVars
<1>3. Safe => ForeignKept
  <2> SUFFICES ASSUME Safe, NEW file \in DOMAIN disk \ torn, before[file] \notin {NoFile, Blank}
               PROVE  Kept(file, before[file], disk[file])
    BY DEF ForeignKept
  <2>1. CASE command = "init"
    <3>1. file \in Files /\ Stays(file, before[file], disk[file])
      BY <2>1 DEF SetupTypes, IsDisk, KeptInv
    <3> QED
      BY <3>1, StaysKept
  <2>2. CASE command = "upgrade"
    <3>1. file = "git" /\ disk[file] = before[file]
      BY <2>2 DEF Plain
    <3> QED
      BY <3>1, Zenon DEF Kept
  <2> QED
    BY <2>1, <2>2
<1> HIDE DEF Safe
<1> QED
  BY <1>1, <1>2, <1>3, PTL DEF InstallSpec
=============================================================================
