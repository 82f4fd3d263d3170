----------------------------- MODULE CheckOutcome -----------------------------
(***************************************************************************)
(* From the result of a tool to the outcome of a check: run_tool (o8v-     *)
(* stacks/src/runner.rs), enrich (enrich.rs), and the kinds of check:      *)
(* EnrichedToolCheck (tool.rs), like which the one of dotnet behaves,      *)
(* NodeToolCheck (stacks/node.rs) and ShellCheckCheck (stacks/shell.rs).   *)
(* Of the output only what these look at is kept: whether there is any,    *)
(* whether it was cut, whether it says that the tool is not configured,    *)
(* and what a parser makes of it.                                          *)
(***************************************************************************)
EXTENDS Naturals

CONSTANT Ids   \* the identities of diagnostics, "file:rule:message"

\* The ExitOutcome of the process.  "NotFound" is the SpawnError of that kind and
\* "Absent" and "NoScripts" are no process at all: find_node_bin did not find the
\* program, find_shell_files no script, as in a directory that cannot be scanned.
Exits == {"Success", "Failed", "Signal", "Timeout", "Interrupted", "WaitError",
          "SpawnError", "NotFound", "Absent", "NoScripts"}
NotRun == {"SpawnError", "NotFound", "Absent", "NoScripts"}

\* node: a NodeToolCheck.  scripts: the ShellCheckCheck.  optional: its tool need not
\* be installed.  skips: it has a skip_stderr_pattern.  finds: what its tool can report.
Checks == {c \in [node : BOOLEAN, scripts : BOOLEAN, optional : BOOLEAN, skips : BOOLEAN,
                   finds : SUBSET Ids] :
             (c.skips => c.node) /\ (c.scripts => ~c.node /\ ~c.optional)}

\* blank: nothing but white space on both streams.  cut: one of them was cut.
\* notConfigured: stderr contains the skip pattern of the check.
ToolResult(c) ==
  {r \in [exit : Exits, blank : BOOLEAN, cut : BOOLEAN, notConfigured : BOOLEAN] :
     /\ r.notConfigured => c.skips /\ ~r.blank
     /\ r.exit \in NotRun => r.blank /\ ~r.cut
     /\ r.exit = "Absent" => c.node
     /\ r.exit = "NoScripts" => c.scripts}

\* items: parsed_items > 0.  A parser that panics is one that parsed nothing.
ParseResult(c) ==
  {q \in [found : SUBSET c.finds, parsed : BOOLEAN, items : BOOLEAN] :
     q.found # {} => q.items}

Outcome == [verdict : {"Passed", "Failed", "Error"}, ids : SUBSET Ids, parsed : BOOLEAN]
Passed(parsed) == [verdict |-> "Passed", ids |-> {}, parsed |-> parsed]
Failed(ids, parsed) == [verdict |-> "Failed", ids |-> ids, parsed |-> parsed]
Error == [verdict |-> "Error", ids |-> {}, parsed |-> FALSE]

\* process_result_to_outcome: a tool that did not end by itself is an error.
ToOutcome(r) ==
  CASE r.exit = "Success" -> Passed(FALSE)
    [] r.exit = "Failed"  -> Failed({}, FALSE)
    [] OTHER              -> Error

\* Mutation for SuccessIsEarned: exit 0 is trusted, whatever the output says.
EnrichTrusting(o, r, q) ==
  CASE o.verdict = "Passed" -> IF q.found # {} THEN Failed(q.found, q.parsed) ELSE Passed(q.parsed)
    [] o.verdict = "Failed" -> Failed(q.found, q.parsed)
    [] OTHER                -> o

\* Diagnostics make a pass a failure; output that cannot be parsed makes it an
\* error, unless it was cut.  A failure without diagnostics shows the output.
Enrich(o, r, q) ==
  CASE o.verdict = "Passed" ->
         IF q.found # {} THEN Failed(q.found, q.parsed)
         ELSE IF ~q.parsed /\ ~r.blank /\ ~r.cut THEN Error
         ELSE Passed(q.parsed)
    [] o.verdict = "Failed" ->
         Failed(q.found, q.parsed /\ (q.found # {} \/ r.blank \/ q.items))
    [] OTHER -> o

\* The check does not apply: its optional tool is missing, or not configured, or there
\* is nothing that it could check.
Skipped(c, r) ==
  \/ c.optional /\ r.exit = (IF c.node THEN "Absent" ELSE "NotFound")
  \/ c.skips /\ r.exit = "Failed" /\ r.notConfigured
  \/ c.scripts /\ r.exit = "NoScripts"

RunCheck(c, r, q) ==
  IF Skipped(c, r) THEN Passed(TRUE) ELSE Enrich(ToOutcome(r), r, q)

\* A pass that somebody reading the output of the tool would agree with.
Earned(c, r, q) ==
  \/ r.exit = "Success" /\ q.found = {} /\ (q.parsed \/ r.blank \/ r.cut)
  \/ c.optional /\ (r.exit = "Absent" \/ (r.exit = "NotFound" /\ ~c.node))
  \/ r.exit = "Failed" /\ c.skips /\ r.notConfigured
  \/ r.exit = "NoScripts" /\ c.scripts
=============================================================================
