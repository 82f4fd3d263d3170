------------------------------- MODULE Reports -------------------------------
(***************************************************************************)
(* What 8v shows of what it found (o8v-core: diagnostic.rs, render/*.rs):  *)
(* what is left of untrusted text, which diagnostics and which lines of    *)
(* raw output a page shows, and the verdicts of check, fmt, test and build *)
(* in each form of the output.                                             *)
(*                                                                         *)
(* Text is a sequence of classes of characters, output one of lines, and a *)
(* page the numbers of the lines on it: wording, colour and layout are     *)
(* left out. An entry of a check is [verdict, found, parsed, stdout,       *)
(* stderr, cut], `found` a sequence of diagnostics [file, ...], stdout and *)
(* stderr numbers of lines. A limit of 0 is none.                          *)
(***************************************************************************)
EXTENDS Integers, Sequences, SequencesExt, FiniteSets, FiniteSetsExt

-----------------------------------------------------------------------------
(* diagnostic.rs: "esc", "bel", "newline", "tab" and "control" are control *)
(* characters, "letter", "[", "]", "\\", "=" and the rest are not          *)

Controls == {"esc", "bel", "newline", "control"}
Kept(c, multiline) == c \notin Controls \/ (multiline /\ c = "newline")

\* In which part of an escape sequence the next character stands: "text" is none, "esc"
\* right after ESC, "csi" and "osc" in one of these, "end" after the ESC that ends it.
SanitizeMode(mode, c) ==
  CASE mode = "csi" -> IF c \in {"letter", "@", "~"} THEN "text" ELSE "csi"
    [] mode = "osc" -> IF c = "bel" THEN "text" ELSE IF c = "esc" THEN "end" ELSE "osc"
    [] mode = "esc" /\ c = "[" -> "csi"
    [] mode = "esc" /\ c = "]" -> "osc"
    [] OTHER -> IF c = "esc" THEN "esc" ELSE "text"

\* What belongs to a sequence is dropped with it.
Swallowed(mode, c) ==
  \/ mode \in {"csi", "osc"}
  \/ mode = "esc" /\ c \in {"[", "]", "letter", "=", ">"}
  \/ mode = "end" /\ c = "\\"

SanitizeImpl(text, multiline) ==
  FoldLeft(LAMBDA s, c :
             [mode |-> SanitizeMode(s.mode, c),
              out  |-> IF Swallowed(s.mode, c) \/ ~Kept(c, multiline) THEN s.out ELSE Append(s.out, c)],
           [mode |-> "text", out |-> <<>>], text).out
Sanitize(text) == SanitizeImpl(text, FALSE)

\* Diagnostic::sanitize: every text of it, the source code with its lines.
SanitizeDiagnostic(d) ==
  [d EXCEPT !.file = Sanitize(@), !.notes = [i \in DOMAIN @ |-> Sanitize(@[i])],
            !.snippet = SanitizeImpl(@, TRUE)]

-----------------------------------------------------------------------------
(* Pages of raw output                                                     *)

MaxLineBytes == 4096
ShownLine(bytes) == [bytes |-> Min({bytes, MaxLineBytes}), marked |-> bytes > MaxLineBytes]

\* A page of `total` lines: the first line before it, how many it shows, and how many
\* more there are said to be. Panic is a slice out of range.
Lines(start, show, total) == [panics |-> FALSE, start |-> start, show |-> show, more |-> Max({0, total - (start + show)})]
Panic == [panics |-> TRUE, start |-> 0, show |-> 0, more |-> 0]

Bounds(total, limit, page) ==
  IF limit = 0 THEN [start |-> 0, show |-> total]
  ELSE LET start == (Max({page, 1}) - 1) * limit
       IN  [start |-> start, show |-> Max({0, Min({start + limit, total}) - start})]

\* write_paginated: &lines[start..start + show] is taken even when start is past the end.
WritePaginated(total, limit, page) ==
  LET b == Bounds(total, limit, page)
  IN  IF b.start + b.show > total THEN Panic ELSE Lines(b.start, b.show, total)

\* write_error_box skips and takes instead.
WriteErrorBox(total, limit, page) ==
  LET b == Bounds(total, limit, page) IN Lines(b.start, b.show, total)

\* What is rendered while the check runs has a first page only.
StreamPaginated(total, limit) ==
  Lines(0, IF limit = 0 THEN total ELSE Min({limit, total}), total)
StreamErrorBox(total, limit) == StreamPaginated(total, limit)

\* render_paginated_lines says so when there is no such page; here 0 is a limit.
RunPaginated(total, limited, limit, page) ==
  LET start == (Max({page, 1}) - 1) * limit
  IN  IF ~limited THEN Lines(0, total, total)
      ELSE IF start >= total THEN Lines(total, 0, total)
      ELSE Lines(start, Min({start + limit, total}) - start, total)

-----------------------------------------------------------------------------
(* The entries of a check                                                  *)

\* The first ones, in the order of the parser; the page is not looked at.
PlainDiagnostics(found, limit) ==
  IF limit = 0 THEN found ELSE SubSeq(found, 1, Min({limit, Len(found)}))

\* The same number, by file; `files` are all files in the order of their names.
HumanDiagnostics(found, limit, files) ==
  PlainDiagnostics(FlattenSeq(
    [i \in DOMAIN files |-> SelectSeq(found, LAMBDA d : d.file = files[i])]), limit)
StreamDiagnostics(found, limit, files) == HumanDiagnostics(found, limit, files)

\* Raw output is shown of an error, and of a failure that is not understood.
ShowsOutput(entry) ==
  \/ entry.verdict = "Error"
  \/ entry.verdict = "Failed" /\ entry.found = <<>> /\ ~entry.parsed

\* The pages of an entry: one of each stream that has lines for plain output, one of
\* both for people.
PlainEntry(entry, limit, page) ==
  LET streams == SelectSeq(<<entry.stdout, entry.stderr>>, LAMBDA n : n > 0)
  IN  [label |-> entry.verdict,
       diagnostics |-> IF entry.verdict = "Failed" THEN PlainDiagnostics(entry.found, limit) ELSE <<>>,
       pages |-> IF ShowsOutput(entry) THEN [i \in DOMAIN streams |-> WritePaginated(streams[i], limit, page)]
                 ELSE <<>>]
StreamEntry(entry, limit) ==
  LET streams == SelectSeq(<<entry.stdout, entry.stderr>>, LAMBDA n : n > 0)
  IN  [label |-> entry.verdict,
       diagnostics |-> IF entry.verdict = "Failed" THEN PlainDiagnostics(entry.found, limit) ELSE <<>>,
       pages |-> IF ShowsOutput(entry) THEN [i \in DOMAIN streams |-> StreamPaginated(streams[i], limit)]
                 ELSE <<>>]
HumanEntry(entry, limit, page, files) ==
  LET total == entry.stdout + entry.stderr
  IN  [label |-> entry.verdict,
       diagnostics |-> IF entry.verdict = "Failed" THEN HumanDiagnostics(entry.found, limit, files) ELSE <<>>,
       pages |-> IF ShowsOutput(entry) /\ total > 0 THEN <<WriteErrorBox(total, limit, page)>> ELSE <<>>]

\* The line of a check: a pass is marked when something is not known about it.
CheckLine(entry) ==
  [label |-> entry.verdict,
   notes |-> IF entry.verdict # "Passed" THEN {}
             ELSE (IF entry.cut THEN {"output truncated"} ELSE {}) \cup (IF entry.parsed THEN {} ELSE {"unparsed"})]

\* JSON has all of them, and the output but for a pass that needs none.
JsonCheck(entry) ==
  LET noteworthy == entry.verdict # "Passed" \/ entry.cut \/ ~entry.parsed
  IN  [label |-> entry.verdict, diagnostics |-> IF entry.verdict = "Error" THEN <<>> ELSE entry.found,
       stdout |-> IF noteworthy THEN entry.stdout ELSE 0, stderr |-> IF noteworthy THEN entry.stderr ELSE 0]

-----------------------------------------------------------------------------
(* The verdict on a check: results is, for each project, its entries       *)

CheckIsOk(results, errors) ==
  /\ results # <<>> /\ errors = 0
  /\ \A i \in DOMAIN results :
       results[i] # <<>> /\ \A j \in DOMAIN results[i] : results[i][j].verdict = "Passed"

\* Mutation for VerdictsAgree: the verdict is made of the counts, as for people.
SummaryByCounts(results, errors) ==
  LET count(verdict) == Len(SelectSeq(FlattenSeq(results), LAMBDA e : e.verdict = verdict))
  IN  [passed |-> count("Passed"), failed |-> count("Failed"), errors |-> count("Error"),
       detection |-> errors, success |-> count("Failed") + count("Error") + errors = 0]

Summary(results, errors) ==
  LET count(verdict) == Len(SelectSeq(FlattenSeq(results), LAMBDA e : e.verdict = verdict))
  IN  [passed |-> count("Passed"), failed |-> count("Failed"), errors |-> count("Error"),
       detection |-> errors, success |-> CheckIsOk(results, errors)]

Nothing(s) == s.passed + s.failed + s.errors = 0 /\ s.detection = 0
\* People are told by the counts, programs by the verdict.
HumanSummary(s) ==
  IF Nothing(s) THEN "no projects detected"
  ELSE IF s.failed = 0 /\ s.errors = 0 /\ s.detection = 0 THEN "all passed" ELSE "counts"
PlainSummary(s) == IF Nothing(s) THEN "no projects detected" ELSE IF s.success THEN "pass" ELSE "fail"
StreamSummary(s) == IF Nothing(s) THEN "nothing" ELSE IF s.success THEN "pass" ELSE "fail"
StreamHumanSummary(s) == HumanSummary(s)

\* The three forms of a report.
Flatten2(results, Render(_)) ==
  LET all == FlattenSeq(results) IN [i \in DOMAIN all |-> Render(all[i])]
RenderCheckHuman(results, errors, limit, page, files) ==
  [entries |-> Flatten2(results, LAMBDA e : HumanEntry(e, limit, page, files)),
   lines |-> Flatten2(results, CheckLine), summary |-> HumanSummary(Summary(results, errors))]
RenderCheckPlain(results, errors, limit, page) ==
  [entries |-> Flatten2(results, LAMBDA e : PlainEntry(e, limit, page)),
   lines |-> Flatten2(results, CheckLine), summary |-> PlainSummary(Summary(results, errors))]
RenderCheckJson(results, errors) ==
  [entries |-> Flatten2(results, JsonCheck), summary |-> Summary(results, errors)]

-----------------------------------------------------------------------------
(* The other reports                                                       *)

\* What the lines of test runs say, [form, passed, failed, ignored]: those in JSON, or
\* else those in words, added up. No line, no numbers.
SuiteSummary(lines) ==
  LET of(form) == SelectSeq(lines, LAMBDA l : l.form = form)
      add(s, l) == [passed |-> s.passed + l.passed, failed |-> s.failed + l.failed, ignored |-> s.ignored + l.ignored]
      used == IF of("json") # <<>> THEN of("json") ELSE of("text")
  IN  IF used = <<>> THEN <<>>
      ELSE <<FoldLeft(add, [passed |-> 0, failed |-> 0, ignored |-> 0], used)>>

MaxErrors == 10
FirstErrors(errors) == [shown |-> Min({MaxErrors, Len(errors)}), more |-> Max({0, Len(errors) - MaxErrors})]

\* After a failure: the errors, else the names of failed tests, else what went to stderr.
TestPlain(r) ==
  [verdict |-> IF r.suites # <<>> THEN "counts" ELSE IF r.success THEN "passed" ELSE "failed",
   shows |-> IF r.success THEN "nothing"
             ELSE IF r.errors # <<>> THEN "errors"
             ELSE IF r.failedTests # <<>> THEN "failed tests"
             ELSE IF r.stderr > 0 THEN "stderr" ELSE "nothing"]
BuildPlain(r) ==
  [verdict |-> IF r.success THEN "success" ELSE "failed",
   shows |-> IF r.success THEN "nothing"
             ELSE IF r.errors # <<>> THEN "errors" ELSE IF r.stderr > 0 THEN "stderr" ELSE "nothing"]
\* In JSON a build has its output, a test run only its numbers.
BuildJson(r) == [success |-> r.success, exit |-> r.exit, errors |-> r.errors, stdout |-> r.stdout, stderr |-> r.stderr]
TestJson(r) == [success |-> r.success, exit |-> r.exit, errors |-> r.errors, suites |-> r.suites]

\* Both streams, each with a mark when it was cut.
ProcessOutput(r, limited, limit, page) ==
  LET part(lines, cut) == [page |-> RunPaginated(lines, limited, limit, page), marked |-> cut]
  IN  (IF r.stdout > 0 THEN <<part(r.stdout, r.stdoutCut)>> ELSE <<>>)
        \o (IF r.stderr > 0 THEN <<part(r.stderr, r.stderrCut)>> ELSE <<>>)

\* fmt: people get a mark, programs the outcome of each formatter.
FmtHuman(report) ==
  LET bad == Len(SelectSeq(report.entries, LAMBDA e : e.outcome # "Ok"))
  IN  IF bad + report.errors = 0 THEN "formatted" ELSE "errors"
FmtPlain(report) == [i \in DOMAIN report.entries |-> report.entries[i].outcome]
FmtJson(report) == [stacks |-> FmtPlain(report), reason |-> IF report.entries = <<>> THEN "no_stacks" ELSE ""]

\* ls: a listing of projects names them, the others count what they show.
LsPlain(report) ==
  IF report.projects = 0 THEN "no projects found"
  ELSE IF report.mode = "Projects" THEN "projects"
  ELSE IF report.truncated THEN "shown of total" ELSE "shown"
=============================================================================
