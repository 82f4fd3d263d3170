-------------------------------- MODULE Tools --------------------------------
(***************************************************************************)
(* Which programs 8v runs for a project, and what it makes of their end:   *)
(* the table of every stack (o8v-stacks/src/stacks/*.rs, stack_tools.rs),  *)
(* the resolution of a test runner and of a build tool (resolve_tool.rs,   *)
(* tool_resolution.rs), the formatter (fmt.rs), and the commands build,    *)
(* test and fmt (o8v/src/commands).                                        *)
(*                                                                         *)
(* A project is [files, bins, package, nightly]: the files and directories *)
(* in it, what node_modules/.bin holds, its package.json, and whether its  *)
(* rustc is a nightly one. A package.json is [err, test, build, deps]:     *)
(* why it cannot be used ("absent", "unreadable", "invalid" or ""), its    *)
(* scripts and what it depends on. The arguments of a program are left out *)
(* but for those that choose the form of its output, "json" for short. The *)
(* end of a process is [exit, code, stdout, stderr] with the exits of      *)
(* CheckOutcome.                                                           *)
(***************************************************************************)
EXTENDS Integers, Sequences, SequencesExt, FiniteSets

None == [program |-> "", args |-> <<>>]
Tool(program, args) == [program |-> program, args |-> args]
Resolved(tool) == [err |-> "", tool |-> tool]
DispatchError(err) == [err |-> err, tool |-> None]

-----------------------------------------------------------------------------
(* The table *)

\* node: found in node_modules. optional: passes when it is missing. skips: passes
\* when it says that it is not configured.
Check(name, program, parser) ==
  [name |-> name, program |-> program, parser |-> parser,
   node |-> FALSE, optional |-> FALSE, skips |-> FALSE]
NodeCheck(program) ==
  [Check(program, program, program) EXCEPT !.node = TRUE, !.skips = program = "eslint",
                                           !.optional = program \in {"prettier", "biome", "oxlint"}]

\* stdout: in check mode what it prints tells, not how it exits.
Formatter(program) ==
  [program |-> program, node |-> program = "prettier", stdout |-> program = "gofmt"]

Rebar(name, parser) == Check(name, "rebar3", parser)
Stack(checks, formatter, test, build, extractor) ==
  [checks |-> checks, formatter |-> formatter, test |-> test, build |-> build, extractor |-> extractor]

RustTools == Stack(<<Check("cargo check", "cargo", "cargo"), Check("clippy", "cargo", "cargo"),
                     Check("cargo fmt", "cargo", "rustfmt")>>,
                   "cargo", Tool("cargo", <<"test">>), Tool("cargo", <<"build">>), TRUE)
TypeScriptTools == Stack(<<NodeCheck("tsc"), NodeCheck("eslint"), NodeCheck("prettier"),
                           NodeCheck("biome"), NodeCheck("oxlint")>>,
                         "prettier", Tool("npm", <<"test">>), Tool("tsc", <<>>), TRUE)
JavaScriptTools == Stack(<<NodeCheck("eslint"), NodeCheck("prettier"), NodeCheck("biome"), NodeCheck("oxlint")>>,
                         "prettier", Tool("npm", <<"test">>), Tool("npm", <<"run", "build">>), FALSE)
PythonTools == Stack(<<Check("ruff", "ruff", "ruff"), Check("mypy", "mypy", "mypy")>>,
                     "ruff", Tool("python3", <<"pytest">>), None, TRUE)
GoTools == Stack(<<Check("go vet", "go", "govet"),
                   [Check("staticcheck", "staticcheck", "staticcheck") EXCEPT !.optional = TRUE]>>,
                 "gofmt", Tool("go", <<"test">>), Tool("go", <<"build">>), TRUE)
DenoTools == Stack(<<Check("deno check", "deno", "deno")>>,
                   "deno", Tool("deno", <<"test">>), Tool("deno", <<"compile">>), FALSE)
DotnetTools == Stack(<<Check("dotnet build", "dotnet", "dotnet")>>,
                     "dotnet", Tool("dotnet", <<"test">>), Tool("dotnet", <<"build">>), FALSE)
RubyTools == Stack(<<Check("rubocop", "rubocop", "rubocop")>>, "rubocop", Tool("rake", <<"test">>), None, FALSE)
JavaTools == Stack(<<Check("mvn compile", "mvn", "javac")>>,
                   "google-java-format", Tool("mvn", <<"test">>), Tool("mvn", <<"package">>), FALSE)
KotlinTools == Stack(<<Check("ktlint", "ktlint", "ktlint")>>,
                     "ktlint", Tool("gradle", <<"test">>), Tool("gradle", <<"build">>), FALSE)
SwiftTools == Stack(<<Check("swiftlint", "swiftlint", "swiftlint")>>,
                    "swiftformat", Tool("swift", <<"test">>), Tool("swift", <<"build">>), FALSE)
TerraformTools == Stack(<<Check("tflint", "tflint", "tflint")>>, "terraform", None, None, FALSE)
DockerfileTools == Stack(<<Check("hadolint", "hadolint", "hadolint")>>, "", None, None, FALSE)
HelmTools == Stack(<<Check("helm lint", "helm", "helm")>>, "", None, None, FALSE)
KustomizeTools == Stack(<<Check("kustomize build", "kustomize", "kustomize")>>, "", None, None, FALSE)
ErlangTools == Stack(<<Rebar("rebar3 compile", "rebar_compile"), Rebar("rebar3 dialyzer", "rebar_dialyzer"),
                       Rebar("rebar3 xref", "rebar_xref")>>,
                     "erlfmt", Tool("rebar3", <<"eunit">>), Tool("rebar3", <<"compile">>), FALSE)

StackTools ==
  [rust |-> RustTools, typescript |-> TypeScriptTools, javascript |-> JavaScriptTools,
   python |-> PythonTools, go |-> GoTools, deno |-> DenoTools, dotnet |-> DotnetTools,
   ruby |-> RubyTools, java |-> JavaTools, kotlin |-> KotlinTools, swift |-> SwiftTools,
   terraform |-> TerraformTools, dockerfile |-> DockerfileTools, helm |-> HelmTools,
   kustomize |-> KustomizeTools, erlang |-> ErlangTools]

\* tools_for: shell scripts are checked in a project of any stack.
ToolsFor(stack) ==
  [StackTools[stack] EXCEPT !.checks = Append(@, Check("shellcheck", "shellcheck", "shellcheck"))]

\* The scripts in the directory; without one the check passes and runs nothing.
FindShellFiles(scan) ==
  IF scan.err # "" THEN {} ELSE {f \in scan.files : f.ext = "sh"}

\* What dotnet is told to build: a solution before a project, the first of its kind.
FindDotnetTarget(scan) ==
  LET of(ext) == SelectSeq(scan.files, LAMBDA f : f.ext = ext)
      all == of("slnx") \o of("sln") \o of("csproj")
  IN  IF scan.err # "" \/ all = <<>> THEN "" ELSE all[1].name

-----------------------------------------------------------------------------
(* resolve_tool.rs *)

DetectPackageManager(project) ==
  CASE "pnpm-lock.yaml" \in project.files -> "pnpm"
    [] "yarn.lock" \in project.files      -> "yarn"
    [] {"bun.lockb", "bun.lock"} \cap project.files # {} -> "bun"
    [] OTHER -> "npm"

PmRunScript(manager, script) ==
  Tool(manager, IF script = "test" THEN <<"test">> ELSE <<"run", script>>)

Runners == <<"vitest", "jest", "mocha">>

\* The test script; else a runner that is declared or installed; else nothing is guessed.
ResolveNodeTest(project) ==
  LET p == project.package
      declared == IF p.err = "" THEN p.deps ELSE {}
      usable == SelectSeq(Runners, LAMBDA r : r \in declared \cup project.bins)
  IN  IF p.err \in {"unreadable", "invalid"} THEN DispatchError(p.err)
      ELSE IF p.err = "" /\ p.test # "" THEN Resolved(PmRunScript(DetectPackageManager(project), "test"))
      ELSE IF usable # <<>> THEN Resolved(Tool(usable[1], <<>>))
      ELSE DispatchError("no test runner")

\* The build script; else a type check, if this is a project of TypeScript.
ResolveNodeBuild(project, stack) ==
  LET p == project.package
  IN  IF p.err \in {"unreadable", "invalid"} THEN DispatchError(p.err)
      ELSE IF p.err = "" /\ p.build # "" THEN Resolved(PmRunScript(DetectPackageManager(project), "build"))
      ELSE IF stack = "typescript" /\ "tsconfig.json" \in project.files
      THEN Resolved(Tool(IF "tsc" \in project.bins THEN "node_modules/.bin/tsc" ELSE "tsc", <<"noEmit">>))
      ELSE DispatchError("no build")

\* The wrapper of a project before what is installed, Gradle before Maven.
ResolveJvm(project, goal, phase, default) ==
  CASE "gradlew" \in project.files -> Tool("./gradlew", <<goal>>)
    [] {"build.gradle", "build.gradle.kts"} \cap project.files # {} -> Tool("gradle", <<goal>>)
    [] "pom.xml" \in project.files -> Tool("mvn", <<phase>>)
    [] OTHER -> default

ResolveTestTool(stack, project, default) ==
  CASE stack \in {"javascript", "typescript"} -> ResolveNodeTest(project)
    [] stack \in {"kotlin", "java"} -> Resolved(ResolveJvm(project, "test", "test", default))
    [] stack = "ruby" /\ "spec" \in project.files ->
         Resolved(IF "Gemfile" \in project.files THEN Tool("bundle", <<"rspec">>) ELSE Tool("rspec", <<>>))
    [] stack = "rust" /\ project.nightly -> Resolved(Tool(default.program, Append(default.args, "json")))
    [] stack = "go" -> Resolved(Tool(default.program, Append(default.args, "json")))
    [] OTHER -> Resolved(default)

ResolveBuildTool(stack, project, default) ==
  CASE stack \in {"javascript", "typescript"} -> ResolveNodeBuild(project, stack)
    [] stack \in {"kotlin", "java"} -> Resolved(ResolveJvm(project, "build", "package", default))
    [] OTHER -> Resolved(default)

\* is_nightly: asked once for a directory; `known` maps directories to answers. A
\* compiler that does not answer is not a nightly one.
IsNightly(known, dir, version) ==
  IF dir \in DOMAIN known THEN known[dir] ELSE version = "nightly"

-----------------------------------------------------------------------------
(* The end of a process: process_report.rs and timeout.rs *)

MaxTimeoutSecs == 600
ValidateTimeout(seconds) == seconds <= MaxTimeoutSecs

\* parse_timeout: "2m30s", a number alone counts seconds; parts are [number, unit], the
\* number -1 when there is none. -1 is no timeout at all.
Overflow == 4096   \* stands for the first number a u64 does not hold
ParseTimeout(parts) ==
  LET seconds(p) == IF p.unit = "m" THEN 60 * p.number ELSE p.number
      total == FoldLeft(LAMBDA sum, p : sum + seconds(p), 0, parts)
  IN  IF parts = <<>> \/ \E i \in DOMAIN parts : parts[i].unit \notin {"m", "s", ""} \/ parts[i].number < 0
      THEN -1 ELSE IF total \in 1..(Overflow - 1) THEN total ELSE -1

ExitCodeNumber(end) ==
  CASE end.exit = "Success"     -> 0
    [] end.exit = "Failed"      -> end.code
    [] end.exit = "Timeout"     -> 124
    [] end.exit = "Interrupted" -> 130
    [] end.exit = "Signal"      -> 128 + end.code
    [] OTHER                    -> 1

-----------------------------------------------------------------------------
(* commands/build.rs and commands/test.rs *)

\* The parsers the extractors of the four stacks use, "" for none. The output of a
\* test script is that of tsc when the script says so.
RustExtract(kind) == IF kind = "build" THEN "cargo" ELSE "libtest_json"
GoExtract(kind) == IF kind = "build" THEN "go_build" ELSE "go_test_json"
PythonExtract(kind) == IF kind = "test" THEN "pytest_text" ELSE ""
TypeScriptExtract(kind, package) ==
  IF kind = "build" \/ (package.err = "" /\ package.test = "tsc") THEN "tsc" ELSE ""
Extractor(stack, kind, package) ==
  CASE stack = "rust"       -> RustExtract(kind)
    [] stack = "go"         -> GoExtract(kind)
    [] stack = "python"     -> PythonExtract(kind)
    [] stack = "typescript" -> TypeScriptExtract(kind, package)
    [] OTHER -> ""

Refused(err) == [err |-> err, tool |-> None, exit |-> 1, success |-> FALSE, parser |-> ""]

\* The command and what it reports; `end` is what the process comes to. Only the first
\* project is built or tested; errors are looked for only after a failure.
Execute(kind, args, workspace, detected, project, end) ==
  LET stack   == detected.projects[1].stack
      tools   == ToolsFor(stack)
      default == IF kind = "build" THEN tools.build ELSE tools.test
      found   == IF kind = "build" THEN ResolveBuildTool(stack, project, default)
                 ELSE ResolveTestTool(stack, project, default)
      asJson  == kind = "build" /\ args.errorsFirst /\ found.tool.program = "cargo"
      tool    == IF asJson THEN [found.tool EXCEPT !.args = Append(@, "json")] ELSE found.tool
  IN  IF ~ValidateTimeout(args.timeout) THEN Refused("timeout")
      ELSE IF ~workspace THEN Refused("no workspace")
      ELSE IF detected.err # "" THEN Refused("invalid path")
      ELSE IF detected.projects = <<>> THEN Refused("no project")
      ELSE IF default = None THEN Refused("no tool")
      ELSE IF found.err # "" THEN Refused(found.err)
      ELSE [err |-> "", tool |-> tool, exit |-> ExitCodeNumber(end), success |-> end.exit = "Success",
            parser |-> IF end.exit # "Success" /\ args.errorsFirst
                       THEN Extractor(stack, kind, project.package) ELSE ""]
BuildCommand(args, workspace, detected, project, end) ==
  Execute("build", args, workspace, detected, project, end)
TestCommand(args, workspace, detected, project, end) ==
  Execute("test", args, workspace, detected, project, end)

-----------------------------------------------------------------------------
(* fmt.rs *)

\* A formatter of Node is one of the project; of another only PATH decides.
FindNodeBin(project, program) == program \in project.bins
FormatterFound(project, formatter) == formatter.node => FindNodeBin(project, formatter.program)

\* In check mode gofmt is judged by what it prints, the others by how they exit.
RunFmt(project, formatter, check, end) ==
  CASE ~FormatterFound(project, formatter) -> "NotFound"
    [] end.exit \in {"SpawnError", "Timeout", "Interrupted", "Signal"} -> "Error"
    [] check /\ formatter.stdout -> IF end.stdout # "" THEN "Dirty" ELSE "Ok"
    [] end.exit = "WaitError" -> "panic"
    [] end.exit = "Success" -> "Ok"
    [] OTHER -> IF check THEN "Dirty" ELSE "Error"

\* One entry per stack and directory that has a formatter and can be opened; what
\* comes after an interrupt is left out. stop: the first project not looked at; ends: what
\* the formatter of each project comes to.
Fmt(detected, check, stop, projects, ends) ==
  LET ps == detected.projects
      first(i) == \A j \in 1..(i - 1) : <<ps[j].stack, ps[j].dir>> # <<ps[i].stack, ps[i].dir>>
      kept == SelectSeq([i \in DOMAIN ps |-> i], LAMBDA i :
                i < stop /\ first(i) /\ ToolsFor(ps[i].stack).formatter # "" /\ ps[i].opens)
      entry(i) == LET f == Formatter(ToolsFor(ps[i].stack).formatter)
                  IN  [stack |-> ps[i].stack, dir |-> ps[i].dir,
                       outcome |-> RunFmt(projects[i], f, check, ends[i])]
  IN  IF stop = 0 THEN [entries |-> <<>>, errors |-> 0]
      ELSE [entries |-> [k \in DOMAIN kept |-> entry(kept[k])], errors |-> detected.errors]

\* FmtReport::is_ok: an empty report is not.
IsOk(report) ==
  /\ report.entries # <<>> /\ report.errors = 0
  /\ \A i \in DOMAIN report.entries : report.entries[i].outcome = "Ok"

\* The command: the path is looked up under the workspace and must stay in it, but
\* what is formatted is the path as seen from the current directory.
ExecuteFmt(workspace, underWorkspace, underCwd, reports) ==
  CASE ~workspace                          -> DispatchError("no workspace")
    [] ~underWorkspace.exists              -> DispatchError("cannot resolve")
    [] ~underWorkspace.inside              -> DispatchError("path escapes")
    [] underCwd.isFile                     -> DispatchError("not a directory")
    [] ~underCwd.exists                    -> DispatchError("invalid path")
    [] OTHER                               -> reports[underCwd.dir]
=============================================================================
