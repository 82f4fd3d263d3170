-------------------------------- MODULE Calls --------------------------------
(***************************************************************************)
(* The algorithms of 8v at work: a process of 8v runs one command, and     *)
(* this module has the part of it that computes. Either it aggregates the  *)
(* log (Aggregate, step by step) for the tables of Statistics, or it makes *)
(* one call to a pure component, on an input of the sets below.            *)
(*                                                                         *)
(* `call` is that call: its name, what it was given and what it answered.  *)
(***************************************************************************)
EXTENDS Aggregate, FiniteSetsExt, SequencesExt

CONSTANTS
  MaxLen, Limits,  \* bounds: the length of captured output, the limits on it
  MaxFiles,        \* bound: the files of a search or a listing
  Depth,           \* bound: the names of a path
  MaxLines         \* bound: the lines of a commit message that end

ASSUME CallBounds == MaxLen \in Nat /\ Limits \subseteq Nat /\ MaxFiles \in Nat /\ Depth \in Nat /\ MaxLines \in Nat

VARIABLE call
callVars == <<vars, call>>

Capture == INSTANCE CaptureLimit
Files   == INSTANCE Commands
Detect  == INSTANCE Projects
Parse   == INSTANCE Parsers
Tables  == INSTANCE Statistics
Run     == INSTANCE Tools
Report  == INSTANCE Reports
Entry   == INSTANCE FrontEnds

SeqsUpTo(S, n) == UNION {[1..k -> S] : k \in 0..n}
Answer(name, input, output) == call' = [name |-> name, input |-> input, output |-> output]
NoCall == [name |-> "none", input |-> <<>>, output |-> <<>>]

-----------------------------------------------------------------------------
(* run(): the bytes of a stream *)

CollectOutput ==
  \E bytes \in SeqsUpTo(Capture!Kinds, MaxLen), limit \in Limits :
    Answer("collect", [bytes |-> bytes, limit |-> limit], Capture!Captured(bytes, limit))

-----------------------------------------------------------------------------
(* Files: the root <<"w">> with a file or a link "a" and a directory or a link *)
(* "d", and "o" beside it with a secret; the text of a file says where it is   *)

Root == <<"w">>
Node(kind, to, text) == [kind |-> kind, to |-> to, text |-> text, locked |-> FALSE]
Dir == Node("dir", <<>>, <<>>)
File(text) == Node("file", <<>>, text)
Link(to) == Node("link", to, <<>>)

Base == [p \in {<<>>, Root, <<"o">>, <<"o", "s">>, <<"w", "b">>} |->
           CASE p = <<"o", "s">> -> File(<<"secret">>) [] p = <<"w", "b">> -> File(<<"b">>) [] OTHER -> Dir]
Leaves == {File(<<"a">>), File(<<"bom", "a">>), Node("fifo", <<>>, <<>>), Dir,
           [File(<<"a">>) EXCEPT !.locked = TRUE], Link(<<"o", "s">>), Link(<<"w", "b">>),
           Link(<<"o">>), Link(<<"w", "none">>)}
Branches == {[p \in {<<"w", "d">>} |-> Link(<<"o">>)], [p \in {<<"w", "d">>} |-> Link(Root)]}
              \cup {[p \in {<<"w", "d">>, <<"w", "d", "f">>} |-> IF Len(p) = 2 THEN Dir ELSE leaf] :
                      leaf \in {File(<<"f">>), Link(<<"o", "s">>), Link(<<"w", "b">>)}}
Tree(leaf, branch) ==
  [p \in DOMAIN Base \cup {<<"w", "a">>} \cup DOMAIN branch |->
     IF p \in DOMAIN Base THEN Base[p] ELSE IF p \in DOMAIN branch THEN branch[p] ELSE leaf]
Trees == {Tree(leaf, branch) : leaf \in Leaves, branch \in Branches}
Names == {"a", "b", "d", "f", "s", "o", "w", ".."}
Paths == {path \in SeqsUpTo(Names, Depth) : path # <<>>}
           \cup {Root \o path : path \in {p \in SeqsUpTo(Names, Depth) : p # <<>>}}

ReadFile ==
  \E fs \in Trees, path \in Paths :
    Answer("read", [fs |-> fs, path |-> path], Files!GuardedRead(fs, Root, path, 2))

\* create_file and rename, from the file "b" to the path.
WriteFile ==
  \E fs \in Trees, path \in Paths, renames \in BOOLEAN :
    Answer("write", [fs |-> fs, path |-> path],
           IF renames THEN Files!GuardedRename(fs, Root, <<"w", "b">>, path)
           ELSE Files!GuardedCall(fs, Root, path, TRUE))

\* What `ls --loc` says of a path, and what is listed of a directory.
ListPath ==
  \E fs \in Trees, path \in Paths :
    Answer("look", [fs |-> fs, path |-> path],
           [label |-> IF path \in DOMAIN fs THEN Files!FileLabel(fs, Root, path, TRUE, FALSE, 2, 2) ELSE "not listed",
            dir |-> Files!GuardedReadDir(fs, Root, path)])

\* `read` of one path or two, from the command line.
ReadTold(report, several) ==
  LET failed == {i \in DOMAIN report.value.entries : report.value.entries[i].err # ""}
  IN  IF report.err # "" THEN [exit |-> Entry!DispatchCommand("read", "Agent", report).exit, shows |-> <<FALSE>>]
      ELSE IF ~several THEN [exit |-> Entry!ExitOf("read", [errors |-> {}]), shows |-> <<TRUE>>]
      ELSE [exit |-> Entry!ExitOf("read", [errors |-> failed]), shows |-> [i \in 1..2 |-> i \notin failed]]

ReadSeveral ==
  \E fs \in Trees, names \in [1..2 -> {<<"a">>, <<"d", "f">>, <<"d">>, <<"b">>}], full, several \in BOOLEAN :
    LET label(n) == [path |-> [absolute |-> FALSE, names |-> n], ext |-> "txt", range |-> [kind |-> "none"]]
        asked == IF several THEN names ELSE <<names[1]>>
    IN  Answer("read report", [fs |-> fs, paths |-> [i \in DOMAIN asked |-> Root \o asked[i]]],
               ReadTold(Files!ReadToReport(fs, Root, [i \in DOMAIN asked |-> label(asked[i])], full, 2), several))

\* The way detectors read: the root is scanned, then a file of the scan is taken by its
\* name or as the only one with an extension, here that of all the names.
ScanAndRead ==
  \E fs \in Trees, name \in {"a", "b", "d"}, names \in SUBSET {"a", "b"}, maxEntries \in 1..3 :
    LET listing == SetToSeq({p \in DOMAIN fs : Len(p) = 2 /\ p[1] = "w"})
        scan == Files!ScanDirectory(fs, listing, maxEntries)
    IN  Answer("scan", [fs |-> fs, path |-> Append(Root, name), name |-> name, names |-> names],
               [scan |-> scan, entry |-> Files!ValidateEntry(fs, Root, scan, name),
                byName |-> Files!ReadChecked(fs, Root, scan, name, 2),
                byExt |-> Files!ReadByExt(fs, Root, scan, names, 2)])

\* `read` of one path, as an agent sends it to the MCP server.
AskServer ==
  \E fs \in Trees, names \in Paths, absolute \in BOOLEAN :
    LET path == [absolute |-> absolute, names |-> names, suffix |-> ""]
        line == [nul |-> FALSE, len |-> 1, quotes |-> "", words |-> <<"8v", "read">>, cli |-> "ok",
                 command |-> [name |-> "read", full |-> TRUE, paths |-> <<path>>]]
        label(p) == [path |-> p, ext |-> "txt", range |-> [kind |-> "none"]]
        Read(command) ==
          Files!Then(Files!ReadOne(fs, Root, label(command.paths[1]), TRUE, 2), LAMBDA report :
            Files!Ok([kind |-> report.kind, len |-> Files!RenderedLines(report, 0)]))
        parsed == Entry!ParseMcpCommand(fs, Root, line)
    IN  Answer("server", [fs |-> fs, path |-> IF absolute THEN names ELSE Root \o names],
               Entry!HandleCommand(fs, [set |-> FALSE], <<[isFile |-> TRUE, path |-> Root]>>, "", line,
                                   [command \in IF parsed.err = "" THEN {parsed.value} ELSE {} |-> Read(command)]))

\* A commit message: lines of prose, of trailers of an AI and of people, empty ones.
MessageLines == [key : {"", "empty", "co-authored-by", "signed-off-by"}, end : {"LF", "CRLF"}]
OpenLines == [key : {"", "co-authored-by", "signed-off-by"}, end : {""}]
CommitMessages ==
  UNION {{m} \cup {Append(m, last) : last \in OpenLines} : m \in SeqsUpTo(MessageLines, MaxLines)}

RewriteMessage ==
  \E lines \in CommitMessages, strip, parses, writable \in BOOLEAN :
    LET config == [readable |-> TRUE, parses |-> parses, stripAttribution |-> strip]
        hook(m) == Entry!OnCommitMsg(config, m, writable)
        once == hook(Entry!Ok(lines))
    IN  Answer("message", [lines |-> lines, strips |-> parses => strip],
               [exit |-> once.exit, lines |-> once.message.value, again |-> hook(once.message).message.value])

-----------------------------------------------------------------------------
(* Search and listing: files "1", "2", ... below the root, in the order of the *)
(* walk. Of two bytes a file may be read, of three it is too large.            *)

MaxSize == 3
Texts == {<<>>, <<"hit">>, <<"hit", "nl", "hit">>, <<"x", "nl", "hit">>, <<"hit", "nul">>,
          <<"invalid", "hit">>, <<"hit", "nl", "nl", "hit">>}
Place(i) == <<"w", ToString(i)>>
Folder(texts, locked) ==
  [p \in {<<>>, Root} \cup {Place(i) : i \in DOMAIN texts} |->
     IF Len(p) < 2 THEN Dir
     ELSE LET i == CHOOSE i \in DOMAIN texts : p = Place(i)
          IN  [File(texts[i]) EXCEPT !.locked = i = locked]]

SearchTold(r) ==
  [result |-> r, exit |-> Files!SearchExit(r), summary |-> Files!SearchSummary(r),
   pages |-> [page \in 1..MaxFiles |-> Files!SearchPage(r, 1, page)]]
Search ==
  \E texts \in SeqsUpTo(Texts, MaxFiles), limit \in 1..3, maxPerFile \in 1..2, locked \in {0, 1} :
    LET fs == Folder(texts, locked)
        args == [limit |-> limit, maxPerFile |-> maxPerFile, context |-> 1]
    IN  Answer("search", [fs |-> fs, texts |-> texts, args |-> args],
               SearchTold(Files!DoSearch(fs, Files!SearchContainment(Root, Root), [i \in DOMAIN texts |-> Place(i)], MaxSize, args)))

\* Projects inside projects, and files at every depth.
Folders == {<<"p">>, <<"p", "q">>, <<"z">>}
Entries == {[path |-> Append(folder, name), kind |-> "file", ext |-> name, err |-> FALSE] :
              folder \in {<<>>} \cup Folders, name \in {"rs", "ts"}}
             \cup {[path |-> <<"p">>, kind |-> "dir", ext |-> "", err |-> FALSE],
                   [path |-> <<"z">>, kind |-> "dir", ext |-> "", err |-> TRUE]}
Walks == {walk \in SeqsUpTo(Entries, MaxFiles) : \A i, j \in DOMAIN walk : i # j => walk[i] # walk[j]}

\* The paths in the order of their characters.
Rank == LET order == <<<<"p", "q", "rs">>, <<"p", "q", "ts">>, <<"p", "rs">>, <<"p", "ts">>, <<"rs">>, <<"ts">>,
                       <<"z", "rs">>, <<"z", "ts">>>>
        IN  [path \in ToSet(order) |-> IndexFirstSubSeq(<<path>>, order)]

List ==
  \E walk \in Walks, at \in SUBSET Folders, ext \in {"", "rs"}, limit \in 1..2, depth \in {-1, 0, 1} :
    LET detected == [i \in 1..Cardinality(at) |-> [stack |-> "rust", path |-> SetToSeq(at)[i]]]
        args == [stack |-> "", ext |-> ext, pattern |-> <<>>, depth |-> depth, limit |-> limit]
    IN  Answer("list", [walk |-> walk, at |-> at, args |-> args],
               LET r == Files!DoLs(detected, walk, args, MaxFiles)
               IN  [report |-> r, trees |-> [i \in DOMAIN r.projects |-> Files!TreeLines(r.projects[i].files, Rank)]])

-----------------------------------------------------------------------------
(* Detection: a directory with a package.json, and perhaps a tsconfig.json *)

Manifest(name, parses, has, err) ==
  [err |-> err, parses |-> parses, has |-> has, name |-> name, version |-> "1",
   members |-> <<>>, lines |-> <<>>]
Packages == {Manifest(name, parses, has, err) :
               name \in {"", "n", " padded ", "control\n"}, parses \in BOOLEAN,
               has \in {{}, {"typescript"}}, err \in {"", "too_large"}}
Tsconfigs == {[f \in {} |-> 0]} \cup {[f \in {"tsconfig.json"} |-> Manifest("", TRUE, {}, err)] :
                                        err \in {"", "symlink_escape"}}

DetectNode ==
  \E package \in Packages, tsconfig \in Tsconfigs :
    LET dir == [name |-> "dir", err |-> "", scanErrs |-> <<>>, link |-> FALSE,
                files |-> ("package.json" :> package) @@ tsconfig]
    IN  Answer("node", dir, Detect!DetectIn(dir))

\* A directory with any three of the files that detectors look for, each in good order.
StackOf ==
  ("Cargo.toml" :> "rust") @@ ("package.json" :> "javascript") @@ ("pyproject.toml" :> "python")
  @@ ("go.mod" :> "go") @@ ("deno.json" :> "deno") @@ ("deno.jsonc" :> "deno") @@ ("slnx" :> "dotnet")
  @@ ("sln" :> "dotnet") @@ ("csproj" :> "dotnet") @@ ("Gemfile" :> "ruby") @@ ("pom.xml" :> "java")
  @@ ("build.gradle" :> "java") @@ ("build.gradle.kts" :> "kotlin") @@ ("Package.swift" :> "swift")
  @@ ("rebar.config" :> "erlang") @@ ("tf" :> "terraform") @@ ("Dockerfile" :> "dockerfile")
  @@ ("Chart.yaml" :> "helm") @@ ("kustomization.yaml" :> "kustomize") @@ ("kustomization.yml" :> "kustomize")
GoodManifest ==
  [Manifest("n", TRUE, {"package", "project", "name"}, "") EXCEPT
     !.members = <<"m">>, !.lines = <<[word |-> "module", value |-> "m"], [word |-> "Project(", value |-> "m"]>>]
Directory(files) ==
  [name |-> "dir", err |-> "", scanErrs |-> <<>>, link |-> FALSE, files |-> [f \in files |-> GoodManifest]]

DetectStacks ==
  \E files \in UNION {kSubset(k, DOMAIN StackOf) : k \in 1..3} :
    Answer("stacks", files, Detect!DetectIn(Directory(files)))

\* A tree of Go modules, in it links, directories to skip and some that cannot be scanned.
TreePlaces == {<<>>, <<"a">>, <<"a", "b">>, <<"a", "b", "c">>, <<"target">>, <<"target", "d">>}
DetectTree ==
  \E links, closed \in SUBSET {<<"a">>, <<"a", "b">>, <<"target", "d">>}, modules \in SUBSET TreePlaces :
    LET tree == [p \in TreePlaces |-> [Directory(IF p \in modules THEN {"go.mod"} ELSE {}) EXCEPT
                   !.link = p \in links, !.err = IF p \in closed THEN "permission_denied" ELSE ""]]
    IN  Answer("tree", [links |-> links, closed |-> closed, modules |-> modules], Detect!DetectAll(tree))

\* The text of a deno.jsonc, on its way to the parser of JSON.
StripJsonc ==
  \E tokens \in SeqsUpTo({"//", "/*", "*/", "nl", ",", "]", "x"}, 5) :
    Answer("jsonc", tokens,
           Detect!Then(Detect!StripJsoncComments(tokens), LAMBDA text : Detect!Ok(Detect!StripTrailingCommas(text))))

-----------------------------------------------------------------------------
(* Parsing: messages of cargo, with and without a place, in and out of the project *)

At(names, line) == <<[primary |-> TRUE, path |-> [form |-> "absolute", names |-> names],
                          line |-> line, column |-> 1]>>
Message(spans, code, level, text) ==
  [kind |-> "object", reason |-> "compiler-message", has |-> TRUE,
   message |-> [spans |-> spans, code |-> code, level |-> level, text |-> text]]
Spans == {<<>>, At(<<"w", "a">>, 1), At(<<"w", "a">>, 2), At(<<"o", "a">>, 1)}
Messages ==
  {Message(spans, code, level, "text") : spans \in Spans, code \in {"", "E1"}, level \in {"error", "warning"}}
    \cup {Message(spans, "E1", "error", "other") : spans \in Spans}
Noise == {[kind |-> "object", reason |-> "build-finished", has |-> FALSE], [kind |-> "blank"], [kind |-> "text"]}

ParseCargo ==
  \E lines \in SeqsUpTo(Messages \cup Noise, 3) :
    Answer("cargo", lines, Parse!Cargo(lines, Root))

\* The other tools: problem n is in file n, on line n, but 3, which is where 1 is and of
\* the same rule. As an item of a document:
SpotOf(n) == IF n = 3 THEN 1 ELSE n
Problem(n) ==
  [ok |-> TRUE, path |-> [form |-> "absolute", names |-> <<"w", ToString(SpotOf(n))>>],
   line |-> SpotOf(n), column |-> 1, ranged |-> TRUE, level |-> "error", rule |-> "R", inner |-> "", message |-> ToString(n)]
Broken == [Problem(0) EXCEPT !.ok = FALSE]
StrictTools == {"biome", "rubocop", "ktlint", "swiftlint", "tflint", "hadolint", "shellcheck"}
DocumentTools == StrictTools \cup {"eslint", "ruff", "oxlint"}

ParseDocument ==
  \E tool \in DocumentTools, items \in SeqsUpTo({Problem(1), Problem(2), Problem(3), Broken}, 3), json \in BOOLEAN :
    LET file(i) == [ok |-> i.ok, messages |-> <<i>>]
        nested  == tool \in {"eslint", "rubocop", "ktlint"}
        output  == [json |-> json, blank |-> FALSE, empty |-> FALSE,
                    items |-> IF nested THEN [k \in DOMAIN items |-> file(items[k])] ELSE items]
        parsed  == CASE tool = "eslint"    -> Parse!Eslint(output, Root)
                     [] tool = "ruff"      -> Parse!Ruff(output, Root)
                     [] tool = "oxlint"    -> Parse!Oxlint(output, Root)
                     [] tool = "biome"     -> Parse!Biome(output, Root)
                     [] tool = "rubocop"   -> Parse!Rubocop(output, Root)
                     [] tool = "ktlint"    -> Parse!Ktlint(output, Root)
                     [] tool = "swiftlint" -> Parse!Swiftlint(output, Root)
                     [] tool = "tflint"    -> Parse!Tflint(output, Root)
                     [] tool = "hadolint"  -> Parse!Hadolint(output, Root)
                     [] tool = "shellcheck" -> Parse!Shellcheck(output, Root)
    IN  Answer("document", [tool |-> tool, items |-> items, json |-> json], parsed)

\* As the lines a tool prints for it, of these kinds, each with all that any tool says.
Blocks ==
  [mypy |-> <<"object">>, staticcheck |-> <<"object">>, libtest |-> <<"object">>, govet |-> <<"object">>,
   go_test |-> <<"object", "object">>, go_build |-> <<"place">>, pytest |-> <<"FAILED">>,
   tsc |-> <<"text">>, dotnet |-> <<"text">>, prettier |-> <<"path">>, rustfmt |-> <<"Diff in", "text">>,
   javac |-> <<"javac">>, helm |-> <<"level">>, kustomize |-> <<"Error:">>,
   deno |-> <<"header", "text", "at">>, rebar_compile |-> <<"file", "row", "arrow">>,
   rebar_dialyzer |-> <<"file", "Line">>, rebar_xref |-> <<"xref">>]

PrintedLine(tool, n, k) ==
  LET at == [path |-> Problem(n).path, numbers |-> <<SpotOf(n), 1>>, colon |-> TRUE]
  IN  Problem(n) @@
      [kind |-> Blocks[tool][k], groups |-> <<at>>, code |-> "TS", pathlike |-> TRUE, qualified |-> TRUE,
       names |-> <<ToString(n)>>, findings |-> <<[posn |-> at, rule |-> "R", message |-> ToString(n)]>>,
       type |-> "test", event |-> "failed", name |-> ToString(n), output |-> ToString(n),
       action |-> IF k = 1 THEN "output" ELSE "fail", package |-> "p", test |-> ToString(n), text |-> ToString(n)]
\* 1 to 3 are problems, 4 is a line that says nothing, 5 an empty one.
Printed(tool, n) ==
  IF n > 3 THEN <<[kind |-> IF n = 4 THEN "text" ELSE "blank", groups |-> <<>>]>>
  ELSE [k \in DOMAIN Blocks[tool] |->
          IF tool = "helm" THEN [PrintedLine(tool, n, k) EXCEPT !.level = "ERROR"] ELSE PrintedLine(tool, n, k)]

\* A line of any text is one for prettier, which prints paths only.
ParseText ==
  \E tool \in DOMAIN Blocks, report \in SeqsUpTo(1..5, 3), toStderr \in BOOLEAN :
    LET lines  == FlattenSeq([i \in DOMAIN report |-> Printed(tool, report[i])])
        stdout == IF toStderr THEN <<>> ELSE lines
        stderr == IF toStderr THEN lines ELSE <<>>
        plain(found) == Parse!Result(found, TRUE, Len(found))
        parsed == CASE tool = "mypy"        -> Parse!Mypy(lines, Root)
                    [] tool = "staticcheck" -> Parse!Staticcheck(lines, Root)
                    [] tool = "libtest"     -> Parse!Libtest(lines)
                    [] tool = "govet"       -> Parse!Govet(stdout, stderr, Root)
                    [] tool = "go_test"     -> plain(Parse!GoTest(lines))
                    [] tool = "go_build"    -> plain(Parse!GoBuild(stdout, stderr))
                    [] tool = "pytest"      -> plain(Parse!PytestText(lines))
                    [] tool = "tsc"         -> Parse!Tsc(stdout, stderr, Root)
                    [] tool = "dotnet"      -> Parse!Dotnet(lines, Root)
                    [] tool = "prettier"    -> Parse!Prettier(lines, Root)
                    [] tool = "rustfmt"     -> Parse!Rustfmt(lines, Root)
                    [] tool = "javac"       -> Parse!Javac(stdout, stderr, Root)
                    [] tool = "helm"        -> Parse!Helm(stdout, stderr, Root)
                    [] tool = "kustomize"   -> Parse!Kustomize(lines, Root)
                    [] tool = "deno"        -> Parse!Deno(lines, Root)
                    [] tool = "rebar_compile"  -> Parse!RebarCompile(lines, Root)
                    [] tool = "rebar_dialyzer" -> Parse!RebarDialyzer(lines, Root)
                    [] tool = "rebar_xref"     -> Parse!RebarXref(lines, Root)
    IN  /\ tool = "prettier" => 4 \notin ToSet(report)
        /\ Answer("text", [tool |-> tool, report |-> report], parsed)

-----------------------------------------------------------------------------
(* Reports: what a command found, as its exit code and each form of output tell it *)

Ends == {[exit |-> exit, code |-> code, stdout |-> stdout] :
           exit \in {"Success", "Failed", "Timeout", "Interrupted", "Signal", "SpawnError"},
           code \in {1, 9}, stdout \in {"", "x"}}

Checks == {[verdict |-> verdict, found |-> <<>>, parsed |-> TRUE, stdout |-> 0, stderr |-> 0, cut |-> FALSE] :
             verdict \in {"Passed", "Failed", "Error"}}
ReportCheck ==
  \E results \in SeqsUpTo(SeqsUpTo(Checks, 2), 2), errors \in 0..1 :
    Answer("check report", [results |-> results, errors |-> errors],
          [exit  |-> Entry!ExitOf("check", [results |-> DOMAIN results, errors |-> 1..errors,
                                            ok |-> Report!CheckIsOk(results, errors)]),
           commit |-> Entry!RunCode(Entry!OnCommit(
             [err |-> "", value |-> [results |-> DOMAIN results, errors |-> 1..errors,
                                     ok |-> Report!CheckIsOk(results, errors)]], FALSE)),
           plain |-> Report!RenderCheckPlain(results, errors, 0, 1).summary,
           stream |-> Report!StreamSummary(Report!Summary(results, errors)),
           streamHuman |-> Report!StreamHumanSummary(Report!Summary(results, errors)),
           human |-> Report!RenderCheckHuman(results, errors, 0, 1, <<>>).summary,
           json  |-> Report!RenderCheckJson(results, errors).summary.success])

\* A tool that an agent is about to use, as the hook gets it.
UseTool ==
  \E tool \in {"", "null", "Read", "Grep", "Bash"}, err \in {"", "not JSON"} :
    Answer("tool", tool,
           Entry!MainExit([exit |-> Entry!RunCode(Entry!PreToolUse([err |-> err, tool |-> tool]))], "written"))

\* `8v fmt` of projects of these stacks, whose formatters end with the two ends.
Formats == [check : BOOLEAN, inside : BOOLEAN, exists : BOOLEAN, errors : 0..1, bins : {{}, {"prettier"}}]
FormatReport(asked, stacks, ends) ==
  LET detected == [projects |-> [i \in DOMAIN stacks |-> [stack |-> stacks[i], dir |-> i, opens |-> TRUE]],
                   errors |-> asked.errors]
      formatted == Run!Fmt(detected, asked.check, 3, [i \in DOMAIN stacks |-> [bins |-> asked.bins]], ends)
  IN  Run!ExecuteFmt(TRUE, [exists |-> TRUE, inside |-> asked.inside],
                     [isFile |-> FALSE, exists |-> asked.exists, dir |-> "d"], [dir \in {"d"} |-> formatted])
FormatTold(report) ==
  [exit  |-> Entry!ExitOf("fmt", [results |-> DOMAIN report.entries, errors |-> 1..report.errors,
                                  ok |-> Run!IsOk(report)]),
   human |-> Report!FmtHuman(report), json |-> ToSet(Report!FmtJson(report).stacks)]

FormatProjects ==
  \E asked \in Formats, stacks \in SeqsUpTo({"go", "typescript", "dockerfile"}, 2),
     ends \in [1..2 -> {end \in Ends : end.code = 1}] :
    LET report == FormatReport(asked, stacks, ends)
    IN  \/ asked.inside /\ asked.exists /\ Answer("fmt report", asked, FormatTold(report))
        \/ ~(asked.inside /\ asked.exists) /\ Answer("no report", asked, Entry!DispatchCommand("fmt", "Agent", report))

\* From the project to what stands on the screen, in the form that was asked for.
Homes == {[v8home |-> "", home |-> home] : home \in {"", "h"}}
RunTold(kind, flags, r, suites, out) ==
  LET report == r @@ [errors |-> <<>>, failedTests |-> <<>>, stderr |-> 1, suites |-> suites, stdout |-> out]
      answer == Entry!DispatchCommand(kind, Entry!AudienceOf(kind, flags, {}, Entry!CliDefaultAudience("agent")),
                  IF r.err = "" THEN Entry!Ok(r) ELSE Entry!Fail(Entry!ClassifyErrorCode({r.err})))
  IN  [exit |-> Entry!MainExit(answer, "written"), shows |-> answer.shows, stream |-> answer.stream,
       code |-> r.exit, parser |-> r.parser, suites |-> suites,
       plain |-> IF kind = "build" THEN Report!BuildPlain(report) ELSE Report!TestPlain(report),
       json |-> IF kind = "build" THEN Report!BuildJson(report).success ELSE Report!TestJson(report).success]

Runs == [kind : {"build", "test"}, stack : {"rust", "go", "java", "dockerfile"}, errorsFirst : BOOLEAN,
         flags : {{}, {"json"}, {"human"}}, home : Homes, minutes : {0, 10, 11}]
RunReport(asked, end) ==
  LET project == [files |-> {"pom.xml"}, bins |-> {}, package |-> [err |-> "absent"],
                  nightly |-> Run!IsNightly([d \in {} |-> FALSE], "w", "nightly")]
      workspace == Entry!BuildContext(Folder(<<>>, 0), Root, asked.home) # {}
      args     == [timeout |-> Run!ParseTimeout(<<[number |-> asked.minutes, unit |-> "m"]>>),
                   errorsFirst |-> asked.errorsFirst]
      detected == [err |-> "", projects |-> <<[stack |-> asked.stack]>>]
  IN  IF asked.kind = "build" THEN Run!BuildCommand(args, workspace, detected, project, end)
      ELSE Run!TestCommand(args, workspace, detected, project, end)

Suites == {[form |-> form, passed |-> 1, failed |-> 0, ignored |-> 0] : form \in {"json", "text"}}
RunProject ==
  \E asked \in Runs, end \in Ends, suites \in SeqsUpTo(Suites, 2) :
    /\ suites # <<>> => asked.kind = "test" /\ end.exit \in {"Success", "Failed"}
    /\ asked.minutes # 10 => asked.flags = {} /\ ~asked.errorsFirst
    /\ Answer("run report", [asked |-> asked, end |-> end, suites |-> suites],
              RunTold(asked.kind, asked.flags, RunReport(asked, end), Report!SuiteSummary(suites),
                      IF end.stdout = "" THEN 0 ELSE 1))

\* One page of raw output, of `total` lines and one more on stderr, as check, build and
\* test show it.
ShowPage ==
  \E total \in 1..5, limit \in 0..3, page \in 0..4, limited \in BOOLEAN :
    Answer("page", [total |-> total, limit |-> limit, page |-> page, limited |-> limited],
           [plain |-> Report!WritePaginated(total, limit, page), human |-> Report!WriteErrorBox(total, limit, page),
            stream |-> Report!StreamErrorBox(total, limit), errors |-> Report!FirstErrors([i \in 1..(3 * total) |-> i]),
            run |-> Report!ProcessOutput([stdout |-> total, stderr |-> 1, stdoutCut |-> FALSE, stderrCut |-> TRUE],
                                         limited, limit, page)])

\* The diagnostics of a failed check, each in a file, in the order of the parser.
ShowDiagnostics ==
  \E files \in SeqsUpTo({"f", "g"}, 3), limit \in 0..2, parsed \in BOOLEAN :
    LET found == [i \in DOMAIN files |-> [file |-> files[i], n |-> i]]
        entry == [verdict |-> "Failed", found |-> found, parsed |-> parsed, stdout |-> 2, stderr |-> 1, cut |-> FALSE]
    IN  Answer("diagnostics", [found |-> found, limit |-> limit],
               [plain  |-> Report!PlainEntry(entry, limit, 1), human |-> Report!HumanEntry(entry, limit, 1, <<"f", "g">>),
                stream |-> Report!StreamEntry(entry, limit), json |-> Report!JsonCheck(entry),
                people |-> Report!StreamDiagnostics(found, limit, <<"f", "g">>)])

\* Text of a tool on its way to the screen, and the arguments of a command as statistics
\* show them.
Characters == {"esc", "[", "]", "bel", "newline", "letter", "\\"}
ShowText ==
  \E text \in SeqsUpTo(Characters, 5), multiline \in BOOLEAN :
    LET d == Report!SanitizeDiagnostic([file |-> text, notes |-> <<text>>, snippet |-> text])
    IN  Answer("text shown", [text |-> text, multiline |-> multiline], IF multiline THEN d.snippet ELSE d.notes[1])

Tokens == {[kind |-> kind, text |-> kind, range |-> range] :
             kind \in {"quoted", "word", "content flag", "tmp", "inside", "outside", "relative"}, range \in {"", ":1-2"}}
ShapeArguments ==
  \E argv \in SeqsUpTo(Tokens, 3), project \in BOOLEAN :
    Answer("argv", [argv |-> argv, project |-> project], Tables!NormalizeArgv(argv, project))

\* One percentile of the durations of a command, as the table and as the log show it.
Sorted(ms) == SortSeq(ms, <)
ShowPercentile ==
  \E ms \in SeqsUpTo({0, 2, 10, 2000000}, 6), p \in {50, 95, 99} :
    Answer("percentile", [ms |-> ms, p |-> p],
           [table |-> Tables!HistogramPercentile(ms, p),
            log |-> Tables!PercentileFromSorted(Sorted(ms), p)])

-----------------------------------------------------------------------------
CallInit == Init /\ call = NoCall

Call ==
  \/ CollectOutput
  \/ ReadFile \/ WriteFile \/ ListPath \/ ReadSeveral \/ ScanAndRead \/ AskServer \/ RewriteMessage
  \/ Search \/ List
  \/ DetectNode \/ DetectStacks \/ DetectTree \/ StripJsonc
  \/ ParseCargo \/ ParseDocument \/ ParseText
  \/ ReportCheck \/ UseTool \/ FormatProjects \/ RunProject \/ ShowPage \/ ShowDiagnostics
  \/ ShowPercentile \/ ShowText \/ ShapeArguments

CallNext ==
  \/ call = NoCall /\ Next /\ UNCHANGED call
  \/ call = NoCall /\ events = <<>> /\ st = Fresh /\ Call /\ UNCHANGED vars

CallSpec == CallInit /\ [][CallNext]_callVars

-----------------------------------------------------------------------------
(* Properties of captured output *)

\* Of valid UTF-8 the caller gets the longest run of whole characters that fits the
\* limit, and no U+FFFD: a character is never split. The flag is raised for an output
\* that does not fit the limit and for no other; without it the result holds every
\* character, decoded as the whole would be.
CaptureIsExact ==
  call.name = "collect" =>
    LET bytes == call.input.bytes
        limit == call.input.limit
        out   == call.output
        whole == Capture!FromUtf8Lossy(bytes)
        fits  == {n \in 0..Min({limit, Len(bytes)}) : Capture!ValidUtf8(SubSeq(bytes, 1, n))}
    IN  /\ out.truncated <=> Len(bytes) > limit \/ Capture!StringLen(whole) > limit
        /\ ~out.truncated => out.string = whole
        /\ Capture!ValidUtf8(bytes) => /\ out.data = SubSeq(bytes, 1, Max(fits))
                                       /\ Capture!StringLen(out.string) = Len(out.data)

\* result.rs:52 "Captured stdout (up to `max_stdout`, UTF-8 lossy)" and format.rs:13
\* "The string itself stays within the byte contract: s.len() <= max_bytes".
WithinLimit ==
  call.name = "collect" => Capture!StringLen(call.output.string) <= call.input.limit

-----------------------------------------------------------------------------
(* Properties of files *)

Real(fs, path) == Files!Canonicalize(fs, path)

\* Whatever links and ".." a path goes through: what a read returns is what a file
\* below the root holds, what a write creates or overwrites is below the root and no
\* link; and nothing that is there, readable and below the root is refused, but for a
\* link by the MCP server, which otherwise answers whatever `8v read` does. A detector
\* gets of a scan what a read gets, and takes a file for absent only when the scan has no
\* entry of it.
ReadsStayInside ==
  LET fs   == call.input.fs
      out  == call.output
      good == out.err = ""
      readable(path) ==
        LET real == Real(fs, path)
        IN  /\ real.err = "" /\ IsPrefix(Root, real.value)
            /\ fs[real.value].kind = "file" /\ ~fs[real.value].locked
      text(path) == LET t == fs[Real(fs, path).value].text
                    IN  IF t # <<>> /\ t[1] = "bom" THEN Tail(t) ELSE t
  IN  /\ call.name = "read" =>
           /\ good <=> readable(call.input.path)
           /\ good => out.value = text(call.input.path)
      /\ call.name = "server" =>
           (good <=> /\ readable(call.input.path)
                     /\ Files!SymlinkMetadata(fs, call.input.path).value.kind # "link")
      /\ (call.name = "write" /\ good) =>
           LET parent == Real(fs, Files!Parent(call.input.path))
               target == Append(parent.value, call.input.path[Len(call.input.path)])
           IN  /\ parent.err = "" /\ IsPrefix(Root, parent.value)
               /\ target \in DOMAIN fs => fs[target].kind = "file"
      /\ call.name = "look" =>
           /\ out.label = "counted" => readable(call.input.path)
           /\ out.dir.err = "" =>
                /\ IsPrefix(Root, Real(fs, call.input.path).value)
                /\ \A p \in out.dir.value : IsPrefix(Root, p)
      /\ call.name = "scan" =>
           LET path == call.input.path
               seen == {e.name : e \in out.scan.entries}
           IN  /\ out.byName.err = "" =>
                    IF call.input.name \in seen THEN readable(path) /\ out.byName.value = text(path)
                    ELSE out.byName.value = "absent"
               /\ readable(path) /\ call.input.name \in seen => out.byName.err = ""
               /\ out.byExt.err = "" => \/ out.byExt.value = "absent"
                                        \/ \E n \in call.input.names :
                                             /\ readable(Append(Root, n))
                                             /\ out.byExt.value = text(Append(Root, n))
               /\ out.entry = Files!Ok("file") => IsPrefix(Root, Real(fs, path).value)

\* What stands before the colons of a message, as far as it is one of `keys`, in order.
KeysOf(m, keys) ==
  LET found[n \in 0..Len(m)] ==
        IF n = 0 THEN <<>> ELSE IF m[n].key \in keys THEN Append(found[n - 1], m[n].key) ELSE found[n - 1]
  IN  found[Len(m)]

\* The commit-msg hook takes the trailers of an AI from a message and leaves every other
\* line in its place, but for the ends of lines and for empty ones at the end; a message
\* without them is left as it is, and one that the hook has been over is left too.
CommitMessageKept ==
  call.name = "message" =>
    LET in   == call.input
        out  == call.output
        ai(m)   == KeysOf(m, {"co-authored-by"})
        said(m) == KeysOf(m, {"", "signed-off-by"})
        crlf(m) == \E i \in DOMAIN m : m[i].end = "CRLF"
    IN  /\ said(out.lines) = said(in.lines)
        /\ out.exit = 0 => (ai(out.lines) = IF in.strips THEN <<>> ELSE ai(in.lines))
        /\ out.exit # 0 \/ ~in.strips \/ (ai(in.lines) = <<>> /\ ~crlf(in.lines)) => out.lines = in.lines
        /\ out.again = out.lines

\* A search shows the first matches, in the order of the walk, each file capped and
\* all of them limited; it says that it is cut when it is; and of all matches of the
\* files it may read it counts each, those it does not show too. It exits with 0 when
\* it found something and there was no file that it could not read. (Past the limit it
\* counts in files that are too large as well, and passes over those it cannot read.)
\* Its pages are all of what it shows; so are the pages of raw output in each form, which
\* know how much is left; and of diagnostics each form shows as many, or else raw output.
LimitsShowTheFirst ==
  /\ call.name = "search" =>
       LET texts    == call.input.texts
           args     == call.input.args
           r        == call.output.result
           said     == call.output.summary
           ok(i)    == ~call.input.fs[Place(i)].locked /\ ToSet(texts[i]) \cap {"nul", "invalid"} = {}
           small(i) == ok(i) /\ Len(texts[i]) <= MaxSize
           unread   == {i \in DOMAIN texts : call.input.fs[Place(i)].locked \/ Len(texts[i]) > MaxSize}
           hits(i)  == SetToSortSeq(Files!Hits(Files!LinesOf(texts[i])), <)
           first(i) == IF ~small(i) THEN <<>> ELSE SubSeq(hits(i), 1, Min({args.maxPerFile, Len(hits(i))}))
           due      == FlattenSeq([i \in DOMAIN texts |-> [k \in DOMAIN first(i) |-> <<Place(i), first(i)[k]>>]])
           shown    == FlattenSeq([n \in DOMAIN r.files |->
                         [k \in DOMAIN r.files[n].matches |-> <<r.files[n].path, r.files[n].matches[k].line>>]])
           count(F(_)) == MapThenSumSet(LAMBDA i : Len(hits(i)), {i \in DOMAIN texts : F(i)})
       IN  /\ shown = SubSeq(due, 1, Min({args.limit, Len(due)})) /\ r.shown = Len(shown)
           /\ r.truncated <=> Len(due) > args.limit
           /\ count(small) <= said.of /\ said.of <= count(ok)
           /\ ~r.truncated => said.of = count(small) /\ (call.output.exit = "ok" <=> shown # <<>> /\ unread = {})
           /\ FlattenSeq([page \in 1..MaxFiles |-> call.output.pages[page].files]) = r.files
           /\ \A page \in 1..Len(r.files) : call.output.pages[page].more = Len(r.files) - page
  /\ call.name = "page" =>
       LET in      == call.input
           out     == call.output
           first   == Max({in.page, 1})
           onPage(limit, page) == {l \in 1..in.total : (l - 1) \div limit + 1 = page}
           rest(limit, page)   == {l \in 1..in.total : (l - 1) \div limit + 1 > page}
           exact(p, limit, page) ==
             /\ (p.start + 1)..(p.start + p.show) = onPage(limit, page)
             /\ p.more = Cardinality(rest(limit, page))
           all     == IF in.limit = 0 THEN in.total ELSE in.limit
       IN  /\ exact(out.human, all, IF in.limit = 0 THEN 1 ELSE first) /\ exact(out.stream, all, 1)
           /\ out.plain \in {out.human, Report!Panic}
           /\ in.limit > 0 \/ ~in.limited =>
                exact(out.run[1].page, IF in.limited THEN in.limit ELSE in.total, IF in.limited THEN first ELSE 1)
           /\ ~out.run[1].marked /\ out.run[2].marked
           /\ out.errors.shown + out.errors.more = 3 * in.total
  /\ call.name = "diagnostics" =>
       LET found == call.input.found
           out   == call.output
           n     == IF call.input.limit = 0 THEN Len(found) ELSE Min({call.input.limit, Len(found)})
           forms == <<out.plain, out.human, out.stream>>
       IN  /\ out.json.diagnostics = found /\ out.plain.diagnostics = SubSeq(found, 1, n)
           /\ out.human.diagnostics = out.people /\ Len(out.people) = n
           /\ \A file \in {"f", "g"} : LET of(s) == SelectSeq(s, LAMBDA d : d.file = file)
                                     IN  IsPrefix(of(out.people), of(found))
           /\ \A i, j \in 1..3 : (forms[i].pages = <<>>) <=> (forms[j].pages = <<>>)

\* A file is listed once, under the deepest project that contains it when one does,
\* each project in the order of the walk; no more than the limit, and fewer files than
\* the walk has only when they were filtered or the listing says that it is cut. The tree
\* of a project has each of its files too, below the line of its own directory.
ListedOnce ==
  call.name = "list" =>
    LET r == call.output.report
        args == call.input.args
        wanted == SelectSeq(call.input.walk, LAMBDA e :
                    /\ ~e.err /\ e.kind = "file" /\ args.ext \in {"", e.ext} /\ args.depth # 0
                    /\ args.depth # -1 => Len(e.path) - 1 <= args.depth)
        above(e) == {p \in call.input.at : IsPrefix(p, e.path)}
        listed == UNION {ToSet(r.projects[i].files) : i \in DOMAIN r.projects}
    IN  /\ r.shown = FoldSeq(LAMBDA p, n : n + Len(p.files), 0, r.projects)
        /\ Cardinality(listed) = r.shown /\ r.shown <= args.limit
        /\ listed \subseteq ToSet(wanted)
        /\ r.truncated \/ listed = ToSet(wanted)
        /\ \A i \in DOMAIN r.projects :
             /\ \A e \in ToSet(r.projects[i].files) : above(e) # {} =>
                  /\ r.projects[i].path \in above(e)
                  /\ \A p \in above(e) : Len(p) <= Len(r.projects[i].path)
             /\ r.projects[i].files = SelectSeq(wanted, LAMBDA e : e \in ToSet(r.projects[i].files))
             /\ LET tree  == call.output.trees[i]
                    named == {k \in DOMAIN tree : "name" \in DOMAIN tree[k]}
                    heading(k) == tree[Max({j \in 1..(k - 1) : j \notin named})]
                IN  /\ Cardinality(named) = Len(r.projects[i].files)
                    /\ {Append(tree[k].dir, tree[k].name) : k \in named} = {e.path : e \in ToSet(r.projects[i].files)}
                    /\ \A k \in named : tree[k].dir # <<>> => heading(k).dir = tree[k].dir

-----------------------------------------------------------------------------
(* Properties of detection, parsing and statistics *)

\* A directory is one project of every stack it has a manifest of: of the sixteen
\* detectors none hides another. Of the two that look at a package.json one reports it
\* or says what is wrong, and never both. In a tree every manifest is found, but for
\* directories that are links or to be skipped, and where an error says that it is not.
\* A deno.jsonc that is read loses no line, no token outside comments but commas before
\* a bracket, one of them each, and gets none.
ProjectsFound ==
  LET projects == call.output.projects
  IN  /\ call.name = "node" =>
           /\ Len(projects) <= 1
           /\ projects = <<>> <=> call.output.errors # <<>>
      /\ call.name = "jsonc" =>
           LET in     == call.input
               kept   == call.output.value
               of(T, s) == SelectSeq(s, LAMBDA t : t \in T)
               opens(i) == in[i] \in {"//", "/*"}
               lines  == of({"nl"}, in)
           IN  call.output.err = "" =>
                 /\ of({"nl"}, kept) = lines
                 /\ {i \in DOMAIN in : opens(i)} = {} => of({"*/", "]", "x"}, kept) = of({"*/", "]", "x"}, in)
                 /\ ToSet(kept) \cap {"//", "/*"} = {}
                 /\ \A i \in 1..(Len(kept) - 1) : kept[i] = "," /\ kept[i + 1] = "]" => Len(of({","}, in)) > 1
                 /\ Len(of({","}, in)) = Len(of({","}, kept)) \/ "]" \in ToSet(kept) \/ \E i \in DOMAIN in : opens(i)
      /\ call.name = "stacks" =>
           /\ {p.stack : p \in ToSet(projects)} = {StackOf[f] : f \in call.input}
           /\ IsInjective([i \in DOMAIN projects |-> projects[i].stack])
      /\ call.name = "tree" =>
           LET above(p) == {SubSeq(p, 1, n) : n \in 0..Len(p)}
               found    == {q.at : q \in projects}
               errors   == {e.at : e \in call.output.errors}
           IN  /\ found \subseteq call.input.modules
               /\ errors \subseteq call.input.closed
               /\ \A p \in call.input.modules : (p \notin found) <=>
                    \/ above(p) \cap (errors \cup call.input.links) # {}
                    \/ ToSet(p) \cap Detect!SkipDirs # {}


\* Whoever asks gets one verdict. Check: the exit code is 0 exactly when the plain
\* output says "pass", while it runs or in the end, and the JSON says success; a commit
\* is let through then and when there was nothing to check; people are told "all passed"
\* then, and not when anything failed. Fmt: 0 when no formatter failed, would change a
\* file or is missing. Build and test: 0 when the program ended well, which is also when
\* the report says so, in any form, and gives its code as 0; otherwise the report shows
\* why, and who asked for JSON has an answer in it on stdout whatever went wrong. Nothing
\* runs without a workspace or for longer than is allowed, and no test is counted in both
\* of the forms in which a run tells of it. Read: 0 when every path was read, each told in
\* its place. A path of fmt that leaves the workspace is refused. The hook of an agent
\* says 2, which blocks, or 0, never 1, which would not; and 0 to no tool that 8v replaces.
VerdictsAgree ==
  LET in  == call.input
      out == call.output
      ok  == out.exit = 0
  IN  /\ call.name = "check report" =>
           /\ (ok <=> out.plain = "pass") /\ (ok <=> out.json) /\ (ok <=> out.stream = "pass")
           /\ out.commit = 0 <=> ok \/ (in.results = <<>> /\ in.errors = 0)
           /\ ok => out.human = "all passed" /\ out.streamHuman = "all passed"
           /\ out.human = "all passed" =>
                in.errors = 0 /\ \A entries \in ToSet(in.results) :
                  \A e \in ToSet(entries) : e.verdict = "Passed"
      /\ call.name = "read report" =>
           LET read(n) == Real(in.fs, in.paths[n]).err = "" /\ Files!GuardedRead(in.fs, Root, in.paths[n], 2).err = ""
           IN  /\ out.shows = [n \in DOMAIN in.paths |-> read(n)]
               /\ ok <=> \A n \in DOMAIN in.paths : read(n)
      /\ call.name = "tool" => out \in {0, 2} /\ (out = 0 => in = "Bash")
      /\ call.name = "no report" => ~ok /\ out.shows = "message"
      /\ call.name = "fmt report" =>
           (ok <=> out.json \subseteq {"Ok"} /\ in.errors = 0) /\ (ok <=> out.human = "formatted")
      /\ call.name = "run report" =>
           LET ran == out.shows = "report"
           IN  /\ ok => ran
               /\ ran => (ok <=> out.json) /\ (ok <=> out.code = 0) /\ (ok <=> in.end.exit = "Success")
               /\ ran => /\ IF in.suites # <<>> THEN out.plain.verdict = "counts"
                              ELSE ok <=> out.plain.verdict \in {"success", "passed"}
                         /\ ok <=> out.plain.shows = "nothing"
               /\ in.asked.home.home = "" \/ in.asked.minutes > 10 => ~ran
               /\ in.suites # <<>> =>
                    out.suites[1].passed \in {Len(SelectSeq(in.suites, LAMBDA l : l.form = form)) : form \in {"json", "text"}}
               /\ out.parser # "" => ran /\ ~ok
               /\ "json" \in in.asked.flags => out.stream = "stdout" /\ out.shows \in {"report", "envelope"}


\* check_plain.rs:218 "If start is past the end, clamp to show nothing."
PageEndsQuietly ==
  call.name = "page" => ~call.output.plain.panics

\* The sessions of the log, as the tables get them: every run is of one command, in a
\* shape of its own run id, and fails when it ends at the end of the window.
SessionsRead ==
  LET ids == SetToSeq({s \in Sessions : result[s] # <<>>})
      rec(c) == [run |-> events[c.start].run, command |-> "check", shape |-> events[c.start].run,
                 path |-> "f", at |-> events[c.start].at, agent |-> events[c.start].session, hook |-> FALSE,
                 complete |-> c.done # 0, success |-> c.done # 0 /\ events[c.done].at # To,
                 bytes |-> 1, tokens |-> 0, ms |-> 1, end |-> IF c.done = 0 THEN -1 ELSE events[c.done].at]
  IN  [i \in DOMAIN ids |->
         [id |-> ids[i], commands |-> [k \in DOMAIN result[ids[i]] |-> rec(result[ids[i]][k])]]]

\* From the log to what is shown of it. The rows of `8v stats`, grouped by command, by
\* agent or by shape with the rare ones in one row, and the sessions of `8v log` account
\* for every start in the window that was not rejected, for every end that was joined to
\* one and for every failure, and for each retry cluster once; a session in detail says
\* what its row says. Of the session that is shown as the last not everything was over when
\* another began its last command, unless that one ends before it begins by the clock. The
\* percentiles of both are ones: so many of the runs took no longer, where the table counts
\* a run beyond its last bucket as one that ends there; and the table never shows more than
\* two milliseconds and twice what the log does.
CountsAddUp ==
  /\ st.phase = "done" =>
       LET starts == {n \in Kept : events[n].kind = "Started"} \ Rejected
           ends   == {n \in Kept : events[n].kind = "Completed"} \ Rejected
           failed == {n \in ends : events[n].at = To}
           sum(S, F(_)) == MapThenSumSet(F, S)
           whole(S) == /\ sum(S, LAMBDA r : r.n) = Cardinality(starts)
                       /\ sum(S, LAMBDA r : r.bytes) = Cardinality(ends)
           rows(S)  == /\ whole(S) /\ sum(S, LAMBDA r : r.complete) = Cardinality(ends)
                       /\ sum(S, LAMBDA r : r.ok) = Cardinality(ends \ failed)
           clusters == FoldSeq(LAMBDA s, n : n + Cardinality(Tables!RetryClusters(s, 0)), 0, SessionsRead)
           stats    == [compare |-> FALSE, shape |-> "", command |-> "", minN |-> 1, window |-> 0, session |-> "",
                        since |-> To - From, until |-> 0]
           rowsOf(args) == Tables!BuildReport(SessionsRead, args).rows
           shapes   == rowsOf([stats EXCEPT !.command = "check"])
           commands == rowsOf(stats)
           empty(r) == Tables!FilteredEmpty(events, stats, To, r, TRUE)
           table    == ToSet(Tables!SessionsTable(SessionsRead, 10, {}).rows)
       IN  /\ rows(shapes) /\ rows(commands) /\ rows(rowsOf([stats EXCEPT !.compare = TRUE])) /\ whole(table)
           /\ sum(table, LAMBDA r : r.failed) = Cardinality(failed)
           /\ \A r \in RunIds : empty(r) <=> {n \in Kept : events[n].run # r} = {}
           /\ sum(ToSet(Tables!BuildReport(SessionsRead, stats).hotspots), LAMBDA h : h.n) = Cardinality(failed)
           /\ sum(shapes, LAMBDA r : r.retries) = clusters
           /\ sum(commands, LAMBDA r : r.retries) = clusters
           /\ LET failures == {r \in UNION {ToSet(s.commands) : s \in ToSet(SessionsRead)} : Tables!Failed(r)}
                  search   == Tables!SearchResults(SessionsRead, failures, 1)
              IN  search.total = Cardinality(failed) /\ Len(search.rows) = Min({1, search.total})
           /\ SessionsRead # <<>> =>
                LET last == Tables!ResolveLastSession(SessionsRead).commands
                    over == Max(UNION {{last[k].at, last[k].end} : k \in DOMAIN last})
                IN  \A s \in ToSet(SessionsRead) :
                      LET final == s.commands[Len(s.commands)]
                      IN  final.at <= over \/ (final.complete /\ final.end < final.at)
           /\ \A s \in ToSet(SessionsRead) :
                LET drill == Tables!DrillReport(s, 0)
                IN  /\ Tables!ResolveSessionPrefix(SessionsRead, {s.id}).session = s
                    /\ drill.n = drill.ok + drill.failed + drill.incomplete
                    /\ \E r \in table : <<r.id, r.n, r.failed>> = <<s.id, drill.n, drill.failed>>
                    /\ \A f \in drill.failures : \E c \in drill.retries :
                         <<c.command, c.shape>> = <<f.command, f.shape>> /\ ToSet(f.records) \subseteq ToSet(c.records)
  /\ call.name = "percentile" =>
       LET ms    == call.input.ms
           shown == call.output
           covers(t, cap) == 100 * Len(SelectSeq(ms, LAMBDA d : Min({d, cap}) <= t)) >= call.input.p * Len(ms)
       IN  IF Len(ms) < Tables!MinSamples THEN {shown.table, shown.log} = {Tables!None}
           ELSE /\ covers(shown.table, 1000000) /\ covers(shown.log, Max(ToSet(ms)))
                /\ shown.table <= 2 * shown.log + 2
=============================================================================
