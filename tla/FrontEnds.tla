------------------------------ MODULE FrontEnds ------------------------------
(***************************************************************************)
(* The ways into 8v and what they make of a command: the CLI (main.rs,     *)
(* commands/mod.rs, output_format.rs), the MCP server (mcp/*.rs), the git  *)
(* and agent hooks (hooks/*.rs), and the workspace all of them run in      *)
(* (workspace/*.rs, dispatch.rs). Paths and files are those of SafeFiles.  *)
(*                                                                         *)
(* A command is [name, paths, full, mode]; running it gives Ok(report) or  *)
(* Fail(code), `code` what classify_error_code makes of the message.       *)
(***************************************************************************)
EXTENDS SafeFiles

-----------------------------------------------------------------------------
(* Audience: --json, --human, --plain, or the default of the front end *)

AudienceWithDefault(flags, default) ==
  IF "json" \in flags THEN "Machine"
  ELSE IF "human" \in flags THEN "Human" ELSE IF "plain" \in flags THEN "Agent" ELSE default

\* A flag of a subcommand of `log` wins over one of `log` itself.
AudienceOf(name, flags, subFlags, default) ==
  IF name \in {"mcp", "hook"} THEN default
  ELSE IF name = "log" THEN AudienceWithDefault(subFlags, AudienceWithDefault(flags, default))
  ELSE AudienceWithDefault(flags, default)

CliDefaultAudience(agentVariable) == IF agentVariable # "" THEN "Agent" ELSE "Human"

-----------------------------------------------------------------------------
(* commands/mod.rs: what a report means for the exit code *)

\* A check that found nothing to check has failed; a format that did has not.
ExitOf(name, report) ==
  LET success ==
        CASE name \in {"build", "test", "init"} -> report.success
          [] name = "check" -> report.results \cup report.errors # {} /\ report.ok
          [] name = "fmt"   -> report.ok \/ (report.results = {} /\ report.errors = {})
          [] name = "read"  -> report.errors = {}
          [] name = "search" -> report.results # {} /\ report.errors = {}
          [] name = "log"   -> report.results # {} \/ ~report.sessionGiven
          [] name = "stats" -> ~report.filteredEmpty
          [] name \in {"write", "ls", "upgrade"} -> TRUE
  IN  IF name = "hooks" THEN report.exit ELSE IF success THEN 0 ELSE 1

\* Reports for people go to stderr in these, so that stdout stays the tool's.
UsesStderr(name, audience) == name \in {"check", "fmt", "hooks", "upgrade"} /\ audience = "Human"

\* Commands whose failure is JSON too when the audience is a machine.
Enveloped == {"build", "test", "check", "fmt", "upgrade", "read", "write", "search", "ls", "log"}

\* What the program prints and exits with.
DispatchCommand(name, audience, result) ==
  IF result.err = ""
  THEN [stream |-> IF UsesStderr(name, audience) THEN "stderr" ELSE "stdout",
        shows |-> "report", code |-> "", exit |-> ExitOf(name, result.value)]
  ELSE IF audience = "Machine" /\ name \in Enveloped
  THEN [stream |-> "stdout", shows |-> "envelope", exit |-> 1,
        code |-> IF name = "upgrade" THEN "network" ELSE result.err]
  ELSE [stream |-> "stderr", shows |-> "message", code |-> "", exit |-> 1]

\* The hidden `hook` command: only a pre hook that cannot read its input blocks.
HookExit(stdin, storage, kind, result) ==
  IF ~stdin \/ ~storage \/ result # "Json" \/ kind = "post" THEN 0 ELSE 1

\* main: an output nobody reads any more is no error.
MainExit(outcome, write) == IF write \in {"written", "BrokenPipe"} THEN outcome.exit ELSE 1

\* classify_error_code: the first of these that the message contains.
ErrorCodes == <<"not_found", "permission_denied", "outside_project", "invalid_range",
                "invalid_regex", "content_empty", "no_match", "network", "unsupported">>
ClassifyErrorCode(mentions) ==
  LET found == {i \in DOMAIN ErrorCodes : ErrorCodes[i] \in mentions}
  IN  IF found = {} THEN "runtime" ELSE ErrorCodes[CHOOSE i \in found : \A j \in found : i <= j]

-----------------------------------------------------------------------------
(* mcp/path.rs and mcp/parse.rs: a path is [absolute, names, suffix], its suffix *)
(* the range ":first-last" or "" when that is not two runs of digits              *)

ResolvePath(fs, root, path) ==
  LET absolute == IF path.absolute THEN path.names ELSE root \o Resolve(<<>>, path.names)
      known    == ContainsPath(fs, root, absolute)
      refusal  == CASE known.err \in {"symlink_escape", "containment_violation"} -> "outside_project"
                    [] known.err = "is_symlink" -> "is_symlink" [] OTHER -> "cannot validate"
  IN  IF known.err # "" THEN Fail(refusal)
      ELSE Ok([path EXCEPT !.absolute = TRUE, !.names = absolute])

\* The first path that is refused ends it.
ResolveNext(fs, root, done, path) ==
  Then(done, LAMBDA ps : Then(ResolvePath(fs, root, path), LAMBDA p : Ok(Append(ps, p))))
ResolvePaths(fs, root, paths) ==
  LET done[n \in 0..Len(paths)] == IF n = 0 THEN Ok(<<>>) ELSE ResolveNext(fs, root, done[n - 1], paths[n])
  IN  done[Len(paths)]

\* The commands whose arguments are paths; the others get none checked.
PathCommands == {"build", "check", "fmt", "test", "read", "write", "search", "ls"}
ResolveMcpPaths(fs, root, command) ==
  IF command.name \notin PathCommands THEN Ok(command)
  ELSE Then(ResolvePaths(fs, root, command.paths), LAMBDA ps : Ok([command EXCEPT !.paths = ps]))

MaxCommandLen == 65536

\* line is [nul, len, quotes, words, cli, command]: a leading "8v" is dropped, `cli`
\* is what clap makes of the rest.
ParseMcpCommand(fs, root, line) ==
  LET words == IF line.words # <<>> /\ line.words[1] = "8v" THEN Tail(line.words) ELSE line.words
  IN  IF line.nul THEN Fail("error: null bytes")
      ELSE IF line.len > MaxCommandLen THEN Fail("error: too long")
      ELSE IF line.quotes = "unmatched" THEN Fail("8v: unmatched quotes")
      ELSE IF words = <<>> THEN Fail("error: empty command")
      ELSE IF line.cli = "help" THEN Ok([name |-> "help", paths |-> <<>>])
      ELSE IF line.cli # "ok" THEN Fail("error parsing command")
      ELSE ResolveMcpPaths(fs, root, line.command)

-----------------------------------------------------------------------------
(* mcp/handler.rs *)

\* O8V_MCP_OUTPUT_CAP is unset or a positive number (0 for anything else), or nothing runs.
DefaultOutputCap == 50000
OutputCap(variable) ==
  IF ~variable.set THEN Ok(DefaultOutputCap)
  ELSE IF variable.number > 0 THEN Ok(variable.number) ELSE Fail("O8V_MCP_OUTPUT_CAP")

\* The first root of the client when it is a file URL, or the directory of the server.
RootDirectory(roots, cwd) ==
  IF roots # <<>> /\ roots[1].isFile THEN Ok(roots[1].path)
  ELSE IF cwd # "" THEN Ok(cwd) ELSE Fail("error: cannot determine working directory")

\* read --full is refused by the sizes of its files, six fifths of them, before it runs.
SizeOf(fs, path) ==
  LET real == Canonicalize(fs, path.names) IN IF real.err = "" THEN Len(fs[real.value].text) ELSE 0
TotalSize(fs, paths) ==
  LET total[n \in 0..Len(paths)] == IF n = 0 THEN 0 ELSE total[n - 1] + SizeOf(fs, paths[n])
  IN  total[Len(paths)]
FullReadFits(fs, command, cap) ==
  ~(command.name = "read" /\ command.full) \/ (TotalSize(fs, command.paths) * 6) \div 5 <= cap

\* png, jpeg, gif, bmp, webp: an image is shown as one when both sides are known and
\* large enough.
MinImageDimension == 8
IsVisionSafe(image) == image.known /\ image.width >= MinImageDimension /\ image.height >= MinImageDimension

\* A block for each report, bytes aside: text over the cap fails the whole call.
ReportToBlocks(report, cap) ==
  IF report.kind = "BinaryContent"
  THEN Ok(<<IF report.image /\ IsVisionSafe(report) THEN "image" ELSE "base64">>)
  ELSE IF report.len > cap THEN Fail("error: output too large") ELSE Ok(<<"text">>)

DispatchReadMcp(result, cap) ==
  Then(result, LAMBDA report :
    IF report.kind # "Multi" THEN ReportToBlocks(report, cap)
    ELSE FoldLeft(LAMBDA blocks, e : Then(blocks, LAMBDA bs :
                    IF e.err # "" THEN Ok(bs \o <<"label", "error">>)
                    ELSE Then(ReportToBlocks(e.value, cap), LAMBDA more : Ok(bs \o <<"label">> \o more))),
                  Ok(<<>>), report.entries))

\* Of what the command answers the exit code is dropped: a report is a success.
McpAnswer(name, result, cap) ==
  IF name = "read" THEN DispatchReadMcp(result, cap)
  ELSE IF result.err # "" THEN Fail(result.err)
  ELSE IF result.value.len > cap THEN Fail("error: output too large")
  ELSE IF UsesStderr(name, "Agent") THEN Fail("report") ELSE Ok(<<"text">>)

\* `answers` is what dispatch makes of a command; before it the cap, the root and the
\* paths are settled.
HandleCommand(fs, variable, roots, cwd, line, answers) ==
  Then(OutputCap(variable), LAMBDA cap :
  Then(RootDirectory(roots, cwd), LAMBDA directory :
  Then(ContainmentRoot(fs, directory), LAMBDA root :
  Then(ParseMcpCommand(fs, root, line), LAMBDA command :
    IF command.name = "help" THEN Ok(<<"text">>)
    ELSE IF ~FullReadFits(fs, command, cap) THEN Fail("error: output too large")
    ELSE McpAnswer(command.name, answers[command], cap)))))

-----------------------------------------------------------------------------
(* hooks/*.rs *)

\* A commit is kept from being made by findings, errors and Ctrl-C; nothing to check is fine.
OnCommit(report, interrupted) ==
  IF report.err # "" THEN 1
  ELSE IF interrupted THEN 130
  ELSE IF report.value.results \cup report.value.errors = {} \/ report.value.ok THEN 0 ELSE 1

\* A line of a message is [key, end]: what stands before a colon, "" when nothing does,
\* or "empty" for an empty line.
EmptyLine == [key |-> "empty", end |-> "LF"]
AiTrailerKeys == {"co-authored-by", "co-written-by", "generated-by", "generated-with",
                  "assisted-by", "ai-assistant", "ai-generated"}

\* Mutation for CommitMessageKept: every trailer is taken for one of an AI.
IsTrailerLine(line) == line.key \notin {"", "empty"}
IsAiTrailerLine(line) == line.key \in AiTrailerKeys

\* The lines that are left, in their order.
Unattributed(lines) ==
  LET left[n \in 0..Len(lines)] ==
        IF n = 0 THEN <<>> ELSE IF IsAiTrailerLine(lines[n]) THEN left[n - 1] ELSE Append(left[n - 1], lines[n])
  IN  left[Len(lines)]

\* Lines are joined by LF, and the last one ends as the last one of the message did; an
\* empty one that does not end is none.
StripAttribution(lines) ==
  LET kept   == Unattributed(lines)
      ended  == lines # <<>> /\ lines[Len(lines)].end # ""
      shown  == IF ~ended /\ kept # <<>> /\ kept[Len(kept)].key = "empty" THEN Len(kept) - 1 ELSE Len(kept)
      EndOf(i) == IF i < Len(kept) \/ ended THEN "LF" ELSE ""
  IN  IF kept = <<>> /\ ended THEN <<EmptyLine>>
      ELSE [i \in 1..shown |-> [key |-> kept[i].key, end |-> EndOf(i)]]

\* A file that is missing or cannot be parsed is the default, which strips.
LoadConfig(file) == (file.readable /\ file.parses) => file.stripAttribution

\* What becomes of the message file, and the exit code.
OnCommitMsg(config, message, writable) ==
  IF ~LoadConfig(config) THEN [exit |-> 0, message |-> message]
  ELSE IF message.err # "" THEN [exit |-> 1, message |-> message]
  ELSE LET stripped == Ok(StripAttribution(message.value))
       IN  IF stripped = message THEN [exit |-> 0, message |-> message]
           ELSE IF writable THEN [exit |-> 0, message |-> stripped]
           ELSE [exit |-> 1, message |-> message]

\* The tools an agent is to do without. An input that names no tool blocks as well.
BlockedTools == {"Read", "Edit", "Write", "Glob", "Grep"}
PreToolUse(input) ==
  IF input.err # "" \/ input.tool \in {"", "null"} \/ input.tool \in BlockedTools THEN 2 ELSE 0

\* run_code: the exit codes 0, 2 and 130 pass, any other is 1.
RunCode(code) == IF code \in {0, 2, 130} THEN code ELSE 1

-----------------------------------------------------------------------------
(* workspace/*.rs and build_context *)

\* _8V_HOME before HOME; the directory .8v in it is made when it is missing.
StorageHome(variables) ==
  IF variables.v8home # "" THEN Ok(variables.v8home)
  ELSE IF variables.home # "" THEN Ok(variables.home) ELSE Fail("HOME not set")

\* <root>/.8v: a directory, absent, or an error.
ConfigDir(fs, root) ==
  LET path == Append(root, ".8v")
      real == Canonicalize(fs, path)
  IN  IF real.err = "not_found" THEN Ok("none")
      ELSE Then(real, LAMBDA p : IF fs[p].kind = "dir" THEN Ok("config") ELSE Fail("io_error"))

\* Everything about the workspace, or nothing of it: a command runs without when one fails.
BuildContext(fs, cwd, variables) ==
  LET resolved == Then(ContainmentRoot(fs, cwd), LAMBDA root :
                  Then(StorageHome(variables), LAMBDA home :
                  Then(ConfigDir(fs, root), LAMBDA config :
                    Ok([root |-> root, storage |-> home, config |-> config]))))
  IN  IF resolved.err = "" THEN {resolved.value} ELSE {}
=============================================================================
