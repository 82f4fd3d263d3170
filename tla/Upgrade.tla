------------------------------- MODULE Upgrade -------------------------------
(***************************************************************************)
(* `8v upgrade` (o8v/src/commands/upgrade.rs): the newest release is       *)
(* downloaded, compared with its checksum, written beside the binary and   *)
(* renamed onto it.  Several of them may run at once, and die anywhere.    *)
(***************************************************************************)
EXTENDS Naturals, FiniteSets

CONSTANTS
  Procs,      \* processes; each has a process id and so a temp file of its own
  Versions,   \* of releases, in their order: numbers from 1
  Prerelease  \* the versions that are pre-releases

VARIABLES
  exe,      \* the installed binary
  temp,     \* the temp file beside it, of each process
  latest,   \* where the server's /latest redirects to
  proc      \* the processes

vars == <<exe, temp, latest, proc>>

\* Contents of a file: the binary of a version, or none of them.
Damaged == 0
Removed == [content |-> Damaged, x |-> FALSE, there |-> FALSE]
File(content, x) == [content |-> content, x |-> x, there |-> TRUE]

Steps == {"latest", "decide", "download", "verify", "create", "fill", "mode",
          "rename", "cleanup"}
Idle == [step |-> "idle", own |-> 0, target |-> 0, got |-> Damaged, left |-> {},
         force |-> FALSE, pre |-> FALSE]
Ends == {"current", "error", "upgraded", "dead"}

TypeOK ==
  /\ exe.content \in Versions \cup {Damaged} /\ latest \in Versions
  /\ \A p \in Procs : /\ proc[p].step \in {"idle"} \cup Steps \cup Ends
                      /\ temp[p].content \in Versions \cup {Damaged}
                      /\ proc[p].left \subseteq Procs

-----------------------------------------------------------------------------
Init ==
  /\ \E v \in Versions : exe = File(v, TRUE)
  /\ latest \in Versions
  /\ temp = [p \in Procs |-> Removed]
  /\ proc = [p \in Procs |-> Idle]

Goto(p, step) == proc' = [proc EXCEPT ![p].step = step]

\* The process runs the binary that is there; CARGO_PKG_VERSION is compiled in.
Start(p) ==
  /\ proc[p].step = "idle"
  /\ \E force, pre \in BOOLEAN :
       proc' = [proc EXCEPT ![p] = [@ EXCEPT !.step = "latest", !.own = exe.content,
                                            !.force = force, !.pre = pre]]
  /\ UNCHANGED <<exe, temp, latest>>

FetchLatestVersion(p) ==
  /\ proc[p].step = "latest"
  /\ proc' = [proc EXCEPT ![p].step = "decide", ![p].target = latest]
  /\ UNCHANGED <<exe, temp, latest>>

\* Mutation for NeverOlder: an older release is not refused.
DecideAnyVersion(p) ==
  /\ proc[p].step = "decide"
  /\ Goto(p, IF proc[p].target = proc[p].own /\ ~proc[p].force THEN "current"
             ELSE IF proc[p].target \in Prerelease /\ ~proc[p].pre THEN "error"
             ELSE "download")
  /\ UNCHANGED <<exe, temp, latest>>

Decide(p) ==
  /\ proc[p].step = "decide"
  /\ LET target == proc[p].target
         own == proc[p].own
     IN  Goto(p, CASE target = own /\ ~proc[p].force -> "current"
                   [] target < own \/ (target \in Prerelease /\ ~proc[p].pre) -> "error"
                   [] OTHER -> "download")
  /\ UNCHANGED <<exe, temp, latest>>

\* What arrives may be anything; the reading loop stops at MAX_BINARY_SIZE.
FetchBinary(p) ==
  /\ proc[p].step = "download"
  /\ \E content \in {proc[p].target, Damaged} :
       proc' = [proc EXCEPT ![p].step = "verify", ![p].got = content]
  /\ UNCHANGED <<exe, temp, latest>>

\* fetch_text, find_checksum, verify_checksum: the line of this binary's name in
\* the list of that version.
VerifyChecksum(p) ==
  /\ proc[p].step = "verify"
  /\ Goto(p, IF proc[p].got = proc[p].target THEN "create" ELSE "error")
  /\ UNCHANGED <<exe, temp, latest>>

-----------------------------------------------------------------------------
(* replace_binary *)

CreateTemp(p) ==
  /\ proc[p].step = "create"
  /\ temp' = [temp EXCEPT ![p] = File(Damaged, FALSE)]
  /\ Goto(p, "fill")
  /\ UNCHANGED <<exe, latest>>

\* A file that has been removed meanwhile is filled where nobody sees it.
FillTemp(p) ==
  /\ proc[p].step = "fill"
  /\ temp' = [temp EXCEPT ![p].content = IF temp[p].there THEN proc[p].got ELSE Damaged]
  /\ Goto(p, "mode")
  /\ UNCHANGED <<exe, latest>>

\* Mutation for ExeRuns: the mode is left as it was created.
CopyNoPermissions(p) ==
  /\ proc[p].step = "mode"
  /\ Goto(p, IF temp[p].there THEN "rename" ELSE "error")
  /\ UNCHANGED <<exe, temp, latest>>

CopyPermissions(p) ==
  /\ proc[p].step = "mode"
  /\ IF temp[p].there
     THEN temp' = [temp EXCEPT ![p].x = exe.x] /\ Goto(p, "rename")
     ELSE Goto(p, "error") /\ UNCHANGED temp
  /\ UNCHANGED <<exe, latest>>

\* cleanup_temp_files lists the directory first.
Rename(p) ==
  /\ proc[p].step = "rename"
  /\ IF temp[p].there
     THEN /\ exe' = temp[p]
          /\ temp' = [temp EXCEPT ![p] = Removed]
          /\ proc' = [proc EXCEPT ![p].step = "cleanup",
                                  ![p].left = {q \in Procs : temp'[q].there}]
     ELSE Goto(p, "error") /\ UNCHANGED <<exe, temp>>
  /\ UNCHANGED latest

\* Every temp file of the binary goes, whoever's it is; errors are ignored.
Cleanup(p) ==
  /\ proc[p].step = "cleanup"
  /\ IF proc[p].left = {}
     THEN Goto(p, "upgraded") /\ UNCHANGED temp
     ELSE \E q \in proc[p].left :
            /\ temp' = [temp EXCEPT ![q] = Removed]
            /\ proc' = [proc EXCEPT ![p].left = @ \ {q}]
  /\ UNCHANGED <<exe, latest>>

\* A call fails.  A rename that fails takes the temp file with it.
Fails(p) ==
  /\ proc[p].step \in Steps \ {"decide", "cleanup"}
  /\ Goto(p, "error")
  /\ temp' = IF proc[p].step = "rename" THEN [temp EXCEPT ![p] = Removed] ELSE temp
  /\ UNCHANGED <<exe, latest>>

Dies(p) ==
  /\ proc[p].step \in Steps
  /\ Goto(p, "dead")
  /\ UNCHANGED <<exe, temp, latest>>

\* The project publishes a release, or withdraws one.
Publish ==
  /\ latest' \in Versions \ {latest}
  /\ UNCHANGED <<exe, temp, proc>>

Next ==
  \/ \E p \in Procs :
       \/ Start(p) \/ FetchLatestVersion(p) \/ Decide(p) \/ FetchBinary(p)
       \/ VerifyChecksum(p) \/ CreateTemp(p) \/ FillTemp(p) \/ CopyPermissions(p)
       \/ Rename(p) \/ Cleanup(p) \/ Fails(p) \/ Dies(p)
  \/ Publish

Spec == Init /\ [][Next]_vars

-----------------------------------------------------------------------------
(* Properties *)

\* upgrade.rs:212 "Atomically replace": whatever fails, dies or runs beside it, the
\* binary in place is always a whole release that can be executed.
ExeRuns == exe.there /\ exe.content # Damaged /\ exe.x

\* The binary never becomes older, unless it was replaced by another process
\* since the one that does it was started.
NotOlder ==
  exe'.content < exe.content =>
    \E p \in Procs : proc[p].step = "rename" /\ proc[p].own # exe.content
NeverOlder == [][NotOlder]_vars
=============================================================================
