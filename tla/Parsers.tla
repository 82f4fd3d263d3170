------------------------------- MODULE Parsers -------------------------------
(***************************************************************************)
(* What 8v makes of the output of the tools it runs (crate o8v-stacks,     *)
(* src/parse/*.rs): a parser turns what a tool has written into            *)
(* diagnostics, says whether it understood it, and counts what it read.    *)
(*                                                                         *)
(* Output is abstracted to what a parser tells apart. A line is a record   *)
(* whose `kind` is the pattern it matches, with the fields that are taken  *)
(* from it; a JSON document is [json, items], `json` that it has the form  *)
(* asked for, each item with `ok`, that it has the form of one item. A     *)
(* path is [form, names], its form "empty", "url", "windows", "relative"   *)
(* or "absolute". The text of messages, snippets and notes is left out     *)
(* where nothing depends on it.                                            *)
(***************************************************************************)
EXTENDS Integers, Sequences, SequencesExt, FiniteSets, FiniteSetsExt

Empty == [form |-> "empty", names |-> <<>>]

\* normalize_path: a file of the project has a path relative to it, all else is absolute.
NormalizePath(path, root) ==
  LET inside == path.form = "absolute" /\ IsPrefix(root, path.names)
      names  == IF inside THEN SubSeq(path.names, Len(root) + 1, Len(path.names)) ELSE path.names
  IN  IF (path.form = "relative" \/ inside) /\ ".." \notin ToSet(names)
      THEN [kind |-> "File", names |-> names] ELSE [kind |-> "Absolute", names |-> path.names]

\* Span::new: there is no line 0 and no column 0.
Span(line, column) == [line |-> Max({line, 1}), column |-> Max({column, 1})]
NoSpan == [line |-> 0, column |-> 0]

Diag(location, span, rule, severity, message) ==
  [location |-> location, span |-> span, rule |-> rule, severity |-> severity, message |-> message]

Result(found, parsed, items) == [found |-> found, parsed |-> parsed, items |-> items]
Unparsed == Result(<<>>, FALSE, 0)

Each(items, Convert(_)) == [i \in DOMAIN items |-> Convert(items[i])]
Good(items) == SelectSeq(items, LAMBDA i : i.ok)
Blank(lines) == \A i \in DOMAIN lines : lines[i].kind = "blank"
Nested(items, Inner(_)) == FlattenSeq(Each(items, Inner))

\* The last "(line,column)" with a colon right after it and a file before it; a
\* line has groups in parentheses, each [numbers, colon].
FindLocation(line) ==
  LET fits(i) == /\ Len(line.groups[i].numbers) = 2 /\ line.groups[i].colon
                 /\ i > 1 \/ line.path # Empty
      good == {i \in DOMAIN line.groups : fits(i)}
  IN  IF good = {} THEN <<>> ELSE line.groups[Max(good)].numbers

-----------------------------------------------------------------------------
(* One JSON document *)

\* Every item must be right, or the document is not understood.
Strict(output, Convert(_)) ==
  IF output.json /\ \A i \in DOMAIN output.items : output.items[i].ok
  THEN Result(Each(output.items, Convert), TRUE, Len(output.items)) ELSE Unparsed

\* An item that is not right is passed over.
Lenient(output, Convert(_)) ==
  IF output.json THEN Result(Each(Good(output.items), Convert), TRUE, Len(Good(output.items)))
  ELSE Unparsed

\* Where and what an item says, with the severity the tool's own means.
Item(i, root, severity) ==
  Diag(NormalizePath(i.path, root), Span(i.line, i.column), i.rule, severity, i.message)

\* Severities: what a tool calls `word` is, and what any other word is.
Severity(table, other, word) == IF word \in DOMAIN table THEN table[word] ELSE other
AsIs == [w \in {"error", "warning", "info"} |-> w]

\* Files with messages; a message of severity 0 is dropped.
Eslint(output, root) ==
  LET messages(file) == SelectSeq(file.messages, LAMBDA m : m.level # "0")
      convert(m) == Item(m, root, IF m.level = "1" THEN "warning" ELSE "error")
  IN  IF output.json
      THEN Result(Nested(Good(output.items), LAMBDA f : Each(messages(f), convert)),
                  TRUE, Len(Good(output.items)))
      ELSE Unparsed

Ruff(output, root) == Lenient(output, LAMBDA i : Item(i, root, "error"))

\* One without a path, or of another severity, is dropped; positions count from 0.
Biome(output, root) ==
  LET known == SelectSeq(output.items, LAMBDA i : i.path # Empty /\ i.level \in DOMAIN AsIs)
      span(i) == IF i.ranged THEN [line |-> i.line + 1, column |-> i.column + 1] ELSE NoSpan
      convert(i) == Diag(NormalizePath(i.path, root), span(i), i.rule, i.level, i.message)
  IN  IF output.json /\ \A i \in DOMAIN output.items : output.items[i].ok
      THEN Result(Each(known, convert), TRUE, Len(known)) ELSE Unparsed

\* The rule of "plugin(rule)" is what stands in parentheses.
Oxlint(output, root) ==
  Lenient(output, LAMBDA i :
    Diag(NormalizePath(i.path, root), IF i.ranged THEN Span(i.line, i.column) ELSE NoSpan,
         IF i.inner # "" THEN i.inner ELSE i.rule,
         Severity([w \in {"warning"} |-> w], "error", i.level), i.message))

Rubocop(output, root) ==
  LET severity(word) == Severity([w \in {"fatal", "error", "info"} |-> IF w = "info" THEN w ELSE "error"],
                                 "warning", word)
      convert(o) == Item(o, root, severity(o.level))
      found == Nested(output.items, LAMBDA f : Each(f.messages, convert))
  IN  IF output.json /\ \A i \in DOMAIN output.items : output.items[i].ok
      THEN Result(found, TRUE, Len(found)) ELSE Unparsed

\* What stands before the array is skipped; nothing at all is no finding.
Ktlint(output, root) ==
  LET found == Nested(output.items, LAMBDA f : Each(f.messages, LAMBDA m : Item(m, root, "error")))
  IN  IF output.blank THEN Result(<<>>, TRUE, 0)
      ELSE IF output.json /\ \A i \in DOMAIN output.items : output.items[i].ok
      THEN Result(found, TRUE, Len(found)) ELSE Unparsed

Swiftlint(output, root) ==
  IF output.empty THEN Result(<<>>, TRUE, 0)
  ELSE Strict(output, LAMBDA i : Item(i, root, IF i.level = "Warning" THEN "warning" ELSE "error"))

Tflint(output, root) ==
  LET table == [w \in {"error", "warning", "notice"} |-> IF w = "notice" THEN "info" ELSE w]
  IN  Strict(output, LAMBDA i : Item(i, root, Severity(table, "warning", i.level)))

LintLevels == [w \in {"error", "warning", "info", "style"} |-> IF w = "style" THEN "hint" ELSE w]
Hadolint(output, root) ==
  Strict(output, LAMBDA i : Item(i, root, Severity(LintLevels, "warning", i.level)))
Shellcheck(output, root) ==
  Strict(output, LAMBDA i : Item(i, root, Severity(LintLevels, "warning", i.level)))

-----------------------------------------------------------------------------
(* One JSON object per line: kind "object", "blank" or "text" *)

Objects(lines) == SelectSeq(lines, LAMBDA l : l.kind = "object")
\* Not one object, though there is text, is not understood.
Ndjson(lines, found) ==
  Result(found, Objects(lines) # <<>> \/ Blank(lines), Len(Objects(lines)))

\* The place of the primary span, or nowhere; `level` is what rustc calls it.
ConvertMessage(m, root) ==
  LET levels   == [w \in {"warning", "note", "help"} |->
                     CASE w = "note" -> "info" [] w = "help" -> "hint" [] OTHER -> w]
      primary  == SelectSeq(m.spans, LAMBDA s : s.primary)
      severity == Severity(levels, "error", m.level)
  IN  IF primary = <<>>
      THEN Diag([kind |-> "Absolute", names |-> <<>>], NoSpan, m.code, severity, m.text)
      ELSE Diag(NormalizePath(primary[1].path, root), Span(primary[1].line, primary[1].column),
                m.code, severity, m.text)

\* collect_notes and the suggestions: children without a place are notes, the
\* others suggest something; notes are taken from the children of children too.
CollectNotes(children) == SelectSeq(children, LAMBDA c : c.spans = <<>>)
Suggestions(children) == SelectSeq(children, LAMBDA c : c.depth = 1 /\ c.spans # <<>>)

Fingerprint(d) == <<d.message, d.severity, d.rule, d.location.names, d.span>>

\* A message of the library and the test build of one crate is reported once; one
\* that points out of the project is dropped, one that points nowhere is not.
Cargo(lines, root) ==
  LET messages == SelectSeq(Objects(lines), LAMBDA l : l.reason = "compiler-message" /\ l.has)
      all      == Each(messages, LAMBDA l : ConvertMessage(l.message, root))
      first(i) == \A j \in 1..(i - 1) : Fingerprint(all[j]) # Fingerprint(all[i])
      own(d)   == d.location.kind = "File" \/ d.location.names = <<>>
      kept     == SelectSeq([i \in DOMAIN all |-> i], LAMBDA i : first(i) /\ own(all[i]))
  IN  Ndjson(lines, [k \in DOMAIN kept |-> all[kept[k]]])

Mypy(lines, root) ==
  LET table == [w \in {"error", "warning"} |-> w]
  IN  Ndjson(lines, Each(Objects(lines), LAMBDA l :
        Diag(NormalizePath(l.path, root), Span(l.line, l.column + 1), l.rule,
             Severity(table, "info", l.level), l.message)))

Staticcheck(lines, root) ==
  Ndjson(lines, Each(Objects(lines), LAMBDA l :
    Item(l, root, IF l.level = "warning" THEN "warning" ELSE "error")))

\* Failed tests, named where others have a file.
Libtest(lines) ==
  LET failed == SelectSeq(Objects(lines), LAMBDA l : l.type = "test" /\ l.event = "failed")
  IN  Ndjson(lines, Each(failed, LAMBDA l :
        Diag([kind |-> "Absolute", names |-> <<l.name>>], NoSpan, "", "error", l.output)))

\* "file:line:column", "file:line", or nothing that says where.
ParsePosn(posn) ==
  CASE Len(posn.numbers) = 2 -> Span(posn.numbers[1], posn.numbers[2])
    [] Len(posn.numbers) = 1 -> Span(posn.numbers[1], 1)
    [] OTHER -> NoSpan

\* Packages from both streams, their findings by analyzer; comment lines are dropped.
Govet(stdout, stderr, root) ==
  LET lines == SelectSeq(stdout \o stderr, LAMBDA l : l.kind # "comment")
      convert(f) == Diag(NormalizePath(f.posn.path, root), ParsePosn(f.posn), f.rule, "error", f.message)
  IN  Ndjson(lines, Nested(Objects(lines), LAMBDA package : Each(package.findings, convert)))

-----------------------------------------------------------------------------
(* Failed tests of Go: events [kind, action, package, test, text], text one of *)
(* "marker" (=== RUN, --- FAIL, --- PASS), "blank" or another line             *)

\* What was put out under the name of a test since it last failed, whatever its package.
Buffered(events, i) ==
  LET name == events[i].test
      since == Max({0} \cup {j \in 1..(i - 1) : events[j].action = "fail" /\ events[j].test = name})
  IN  SelectSeq([j \in 1..(i - 1) |-> events[j]],
                LAMBDA e : e.action = "output" /\ e.test = name /\ e.at > since)

Headline(output) ==
  LET telling == SelectSeq(output, LAMBDA e : e.text \notin {"marker", "blank"})
  IN  IF telling = <<>> THEN "failed" ELSE telling[1].text

GoTest(lines) ==
  LET events == [i \in DOMAIN Objects(lines) |-> Objects(lines)[i] @@ [at |-> i]]
      fails  == SelectSeq(events, LAMBDA e : e.action = "fail" /\ e.test # "")
  IN  Each(fails, LAMBDA e :
        Diag([kind |-> "Absolute", names |-> <<e.package, e.test>>], NoSpan, "", "error",
             Headline(Buffered(events, e.at))))

-----------------------------------------------------------------------------
(* Text. `noted` lines are those a parser takes a diagnostic from. *)

Noted(lines, kinds) == SelectSeq(lines, LAMBDA l : l.kind \in kinds)
\* Always understood: what it did not match counts as nothing.
Text(found) == Result(found, TRUE, Len(found))

\* "file:line:column: message", where the file looks like one of Go or like a path.
ParseBuildLine(line) ==
  IF line.kind = "place" /\ line.pathlike /\ line.message # ""
  THEN <<Diag(NormalizePath(line.path, <<>>), Span(line.line, line.column), "",
              IF line.level \in {"warning", "note"} THEN "warning" ELSE "error", line.message)>>
  ELSE <<>>
GoBuild(stdout, stderr) == Nested(IF Blank(stdout) THEN stderr ELSE stdout, ParseBuildLine)

\* "FAILED file::test - message" and "ERROR collecting file".
PytestText(lines) ==
  Each(Noted(lines, {"FAILED", "ERROR collecting"}), LAMBDA l :
    Diag([kind |-> IF l.kind = "FAILED" /\ ~l.qualified THEN "Absolute" ELSE "File", names |-> l.names],
         NoSpan, IF l.kind = "FAILED" THEN "test" ELSE "collection-error", "error", l.message))

\* "file(line,column): error CODE: message"; a code that is not one of TypeScript's is
\* part of the message for tsc, and a code for dotnet.
ParseToolLine(line, root, tsc) ==
  LET at == FindLocation(line)
  IN  IF line.kind # "text" \/ at = <<>> \/ line.level \notin {"error", "warning"} THEN <<>>
      ELSE <<Diag(NormalizePath(line.path, root), Span(at[1], at[2]),
                  IF tsc /\ line.code # "TS" THEN "" ELSE line.code, line.level, line.message)>>

\* Standard error when standard output is blank.
Tsc(stdout, stderr, root) ==
  Text(Nested(IF Blank(stdout) /\ ~Blank(stderr) THEN stderr ELSE stdout,
              LAMBDA l : ParseToolLine(l, root, TRUE)))

\* The name of the project at the end of a line is no part of it; one message of
\* several projects is reported once.
Dotnet(lines, root) ==
  LET all == Nested(lines, LAMBDA l : ParseToolLine(l, root, FALSE))
      key(d) == <<d.location, d.span, d.rule>>
      kept == SelectSeq([i \in DOMAIN all |-> i], LAMBDA i : \A j \in 1..(i - 1) : key(all[j]) # key(all[i]))
  IN  Text([k \in DOMAIN kept |-> all[kept[k]]])

Prettier(lines, root) ==
  Text(Each(SelectSeq(lines, LAMBDA l : l.kind # "blank"), LAMBDA l :
         Diag(NormalizePath(l.path, root), NoSpan, "", "error", "formatting differs")))

\* "Diff in file:line:" and the lines up to the next one, if there are any.
Rustfmt(lines, root) ==
  LET headers == {i \in DOMAIN lines : lines[i].kind = "Diff in"}
      full    == {i \in headers : i < Len(lines) /\ i + 1 \notin headers}
  IN  Text(Each(SetToSortSeq(full, LAMBDA a, b : a < b), LAMBDA i :
         Diag(NormalizePath(lines[i].path, root), Span(lines[i].line, 1), "", "error", "formatting differs")))

\* "[ERROR] file:line: error: message" of javac, or "file:[line,column] message" of
\* Maven, up to its "Failed to execute"; standard error when there is any.
Javac(stdout, stderr, root) ==
  LET lines  == IF stderr = <<>> THEN stdout ELSE stderr
      footer == Min({Len(lines) + 1} \cup {i \in DOMAIN lines : lines[i].kind = "Failed to execute"})
      convert(l) ==
        IF l.kind = "javac" THEN Diag(NormalizePath(l.path, root), Span(l.line, 1), "", l.level, l.message)
        ELSE Diag(NormalizePath(l.path, root), Span(l.line, l.column), "", "error", l.message)
  IN  Text(Each(Noted(SubSeq(lines, 1, footer - 1), {"javac", "maven"}), convert))

\* "[LEVEL] file: message" of both streams. No item is counted.
Helm(stdout, stderr, root) ==
  LET table == [w \in {"ERROR", "WARNING", "INFO"} |->
                  CASE w = "ERROR" -> "error" [] w = "WARNING" -> "warning" [] OTHER -> "info"]
      known == SelectSeq(stdout \o stderr, LAMBDA l :
                 l.kind = "level" /\ l.level \in DOMAIN table /\ l.path # Empty /\ l.message # "")
  IN  Result(Each(known, LAMBDA l :
               Diag(NormalizePath(l.path, root), NoSpan, "", table[l.level], l.message)), TRUE, 0)

Kustomize(stderr, root) ==
  Text(Each(Noted(stderr, {"Error:"}), LAMBDA l :
         Diag([kind |-> "Absolute", names |-> root], NoSpan, "", "error", l.message)))

\* Blocks: "TS1234 [ERROR]: message", source lines, "at file:line:column". A header
\* without its place makes the output one that is not understood.
Deno(lines, root) ==
  LET headers == {i \in DOMAIN lines : lines[i].kind = "header"}
      \* where the block of header i ends: at a place, another header or a blank line
      end(i) == Min({Len(lines) + 1} \cup {j \in (i + 1)..Len(lines) : lines[j].kind \in {"at", "header", "blank"}})
      placed == {i \in headers : end(i) <= Len(lines) /\ lines[end(i)].kind = "at" /\ lines[end(i)].ok}
      found  == Each(SetToSortSeq(placed, LAMBDA a, b : a < b), LAMBDA i :
                  Diag(NormalizePath(lines[end(i)].path, root), Span(lines[end(i)].line, lines[end(i)].column),
                       lines[i].rule, lines[i].level, lines[i].message))
  IN  Result(found, placed = headers, Len(found))

\* The last line before i of one of the kinds, 0 when there is none.
LastOf(lines, i, kinds) == Max({0} \cup {j \in 1..(i - 1) : lines[j].kind \in kinds})

\* Frames: "file" opens one, "row" carries a line number, "arrow" the message. An
\* arrow before any file is dropped.
RebarCompile(lines, root) ==
  LET file(i) == LastOf(lines, i, {"file"})
      row(i)  == LastOf(lines, i, {"row"})
      arrows  == {i \in DOMAIN lines : lines[i].kind = "arrow" /\ file(i) > 0}
  IN  Text(Each(SetToSortSeq(arrows, LAMBDA a, b : a < b), LAMBDA i :
         Diag(NormalizePath(lines[file(i)].path, root),
              IF row(i) > file(i) THEN Span(lines[row(i)].line, 1) ELSE NoSpan, "",
              IF lines[i].level = "Warning" THEN "warning" ELSE "error", lines[i].message)))

\* A file name alone on a line, and "Line n Column m: message" under it.
RebarDialyzer(lines, root) ==
  LET file(i)  == LastOf(lines, i, {"file"})
      findings == {i \in DOMAIN lines : lines[i].kind = "Line" /\ file(i) > 0 /\ lines[i].ok}
      found    == Each(SetToSortSeq(findings, LAMBDA a, b : a < b), LAMBDA i :
                    Diag(NormalizePath(lines[file(i)].path, root), Span(lines[i].line, lines[i].column),
                         "dialyzer", "warning", lines[i].message))
  IN  Result(found, Blank(lines) \/ Noted(lines, {"===>", "Line"}) # <<>>, Len(found))

\* "file:line: severity: message". Any other line makes it not understood, unless
\* something was found.
RebarXref(lines, root) ==
  LET table == [w \in {"error", "warning", "info", "note"} |-> IF w = "note" THEN "info" ELSE w]
      found == Each(Noted(lines, {"xref"}), LAMBDA l :
                 Diag(NormalizePath(l.path, root), IF l.line > 0 THEN Span(l.line, 1) ELSE NoSpan,
                      "xref", Severity(table, "warning", l.level), l.message))
  IN  Result(found, found # <<>> \/ Noted(lines, {"text"}) = <<>>, Len(found))
=============================================================================
