------------------------------- MODULE Commands -------------------------------
(***************************************************************************)
(* `8v read`, `8v search` and `8v ls`: what each of them answers about the *)
(* files below the workspace, and how it is laid out (commands/read.rs,    *)
(* search.rs, ls.rs; render/read_report.rs, search_report.rs, ls_report.rs)*)
(*                                                                         *)
(* Files are those of SafeFiles. In a text, "hit" is a word the pattern of *)
(* a search matches, "decl" one that declares a symbol, "/*" and "*/" open *)
(* and close a comment, "nl" ends a line, "nul" is a null character. The   *)
(* names of a path stand for its characters where a glob is matched.       *)
(***************************************************************************)
EXTENDS SafeFiles, FiniteSetsExt

\* content.lines(): an unterminated last line is one, an empty one after the last end is not.
LinesOf(text) ==
  LET ends == {i \in DOMAIN text : text[i] = "nl"}
                \cup (IF text = <<>> \/ text[Len(text)] = "nl" THEN {} ELSE {Len(text) + 1})
      end(k) == CHOOSE i \in ends \cup {0} : Cardinality({j \in ends : j <= i}) = k
  IN  [k \in 1..Cardinality(ends) |-> SubSeq(text, end(k - 1) + 1, end(k) - 1)]

\* WorkspaceRoot::resolve
WorkspaceResolve(root, path) == IF path.absolute THEN path.names ELSE root \o path.names

\* matches_extension
MatchesExtension(ext, filter) == filter = "" \/ ext = filter

-----------------------------------------------------------------------------
(* read: a label is [path, ext, range], its range [kind, first, last] of kind *)
(* "none", "lines", or "malformed" when what follows the last colon has a dash *)

DetectKind(ext) ==
  CASE ext \in {"pdf", "png"} -> "ReadableBinary" [] ext = "zip" -> "OpaqueBinary" [] OTHER -> "Text"
IsDataOrMarkupExt(ext) == ext \in {"md", "json"}

ParsePathRange(label) ==
  IF label.range.kind = "malformed" THEN Fail("invalid_range") ELSE Ok(label)

\* The lines that declare something, outside comments.
ExtractSymbols(lines) ==
  LET begins(i, word) == lines[i] # <<>> /\ lines[i][1] = word
      closes(i) == "*/" \in ToSet(lines[i])
      step(s, i) ==
        IF s.inComment \/ begins(i, "/*") THEN [s EXCEPT !.inComment = ~closes(i)]
        ELSE IF begins(i, "decl") THEN [s EXCEPT !.found = Append(@, i)] ELSE s
  IN  FoldLeft(step, [inComment |-> FALSE, found |-> <<>>], [i \in DOMAIN lines |-> i]).found

ReadText(text, label, full) ==
  LET lines == LinesOf(text)
      range == label.range
      report(kind, first, last) ==
        Ok([kind |-> kind, first |-> first, last |-> last, total |-> Len(lines)])
  IN  IF range.kind = "lines"
      THEN IF range.first = 0 \/ range.first > range.last THEN Fail("invalid_range")
           ELSE IF range.first > Len(lines) THEN Fail("runtime")
           ELSE report("Range", range.first, Min({range.last, Len(lines)}))
      ELSE IF full \/ (ExtractSymbols(lines) = <<>> /\ IsDataOrMarkupExt(label.ext))
           THEN report("Full", 1, Len(lines))
      ELSE report("Symbols", 0, 0)

ReadOne(fs, root, label, full, maxSize) ==
  Then(ParsePathRange(label), LAMBDA parsed :
    LET path == WorkspaceResolve(root, label.path)
        kind == DetectKind(label.ext)
    IN  IF kind = "ReadableBinary"
        THEN Then(GuardedReadBytes(fs, root, path, maxSize), LAMBDA bytes :
               Ok([kind |-> "BinaryContent", first |-> 0, last |-> 0, total |-> Len(bytes)]))
        ELSE IF kind = "OpaqueBinary"
        THEN Then(GuardedMetadata(fs, root, path), LAMBDA meta : Fail("runtime"))
        ELSE Then(GuardedRead(fs, root, path, maxSize), LAMBDA text :
               IF "nul" \in ToSet(text) THEN Fail("runtime") ELSE ReadText(text, label, full)))

\* The errors of several labels are part of the report; they fail the command later.
ReadToReport(fs, root, labels, full, maxSize) ==
  LET one(i) == ReadOne(fs, root, labels[i], full, maxSize)
  IN  IF Len(labels) = 1 THEN one(1)
      ELSE Ok([kind |-> "Multi", entries |-> [i \in DOMAIN labels |-> one(i)]])

\* The lines of output a report takes, its header included.
RenderedLines(report, symbols) ==
  CASE report.kind = "Symbols" -> 2 + Max({1, symbols})
    [] report.kind \in {"Range", "Full"} -> 2 + report.last - report.first + 1
    [] report.kind = "BinaryContent" -> 2

-----------------------------------------------------------------------------
(* search: args is [limit, maxPerFile, context, ext], context -1 for "compact"; *)
(* a result is [files, shown, all, matching, searched, skipped, truncated]      *)

NothingFound == [files |-> <<>>, shown |-> 0, all |-> 0, matching |-> 0, searched |-> 0,
                 skipped |-> <<>>, truncated |-> FALSE]

MaxLineLen == 200
TruncateLine(line) ==
  IF Len(line) <= MaxLineLen THEN line ELSE Append(SubSeq(line, 1, MaxLineLen), "...")

Hits(lines) == {i \in DOMAIN lines : "hit" \in ToSet(lines[i])}

MatchAt(lines, i, context) ==
  [line |-> i, text |-> TruncateLine(lines[i]),
   before |-> [k \in 1..Min({Max({context, 0}), i - 1}) |->
                 TruncateLine(lines[i - 1 - Min({Max({context, 0}), i - 1}) + k])],
   after  |-> [k \in 1..Min({Max({context, 0}), Len(lines) - i}) |-> TruncateLine(lines[i + k])]]

\* Why a file could not be searched, "" when it was.
SkipReason(fs, containment, path, maxSize) ==
  LET read == GuardedRead(fs, containment, path, maxSize)
  IN  CASE read.err = "" -> IF "nul" \in ToSet(read.value) THEN "binary" ELSE ""
        [] read.err = "permission_denied" -> "permission_denied"
        [] read.err # "" /\ Open(fs, containment, path, maxSize).err = "" -> "binary"
        [] OTHER -> "io_error"

SearchFileContents(fs, containment, path, maxSize, args, r) ==
  LET reason  == SkipReason(fs, containment, path, maxSize)
      lines   == LinesOf(GuardedRead(fs, containment, path, maxSize).value)
      order   == SetToSortSeq(Hits(lines), LAMBDA a, b : a < b)
      kept    == SubSeq(order, 1, Min({Len(order), args.maxPerFile}))
      matches == [k \in DOMAIN kept |-> MatchAt(lines, kept[k], args.context)]
  IN  IF reason # "" THEN [r EXCEPT !.skipped = Append(@, reason)]
      ELSE IF order = <<>> THEN r
      ELSE [r EXCEPT !.all = @ + Len(order), !.shown = @ + Len(kept), !.matching = @ + 1,
                     !.files = Append(@, [path |-> path, matches |-> matches])]

\* Past the limit a file is only counted: read as it is, and passed over when it cannot be.
CountFileMatches(fs, path, r) ==
  LET real == Canonicalize(fs, path)
      node == fs[real.value]
      n    == Cardinality(Hits(LinesOf(node.text)))
  IN  IF real.err # "" \/ n = 0 THEN r
      ELSE IF node.locked \/ "invalid" \in ToSet(node.text) \/ "nul" \in ToSet(node.text) THEN r
      ELSE [r EXCEPT !.all = @ + n, !.matching = @ + 1]

\* Mutation for LimitsShowTheFirst: the file that crosses the limit is dropped whole.
TrimLastFile(r, limit) ==
  IF r.shown <= limit THEN r
  ELSE [r EXCEPT !.truncated = TRUE, !.files = SubSeq(@, 1, Len(@) - 1),
                 !.shown = @ - Len(r.files[Len(r.files)].matches)]

\* The last file gives back what it has over the limit.
TrimToLimit(r, limit) ==
  IF r.shown <= limit \/ r.files = <<>> THEN [r EXCEPT !.truncated = @ \/ r.shown > limit]
  ELSE LET last == r.files[Len(r.files)]
           trim == Min({r.shown - limit, Len(last.matches)})
           left == SubSeq(last.matches, 1, Len(last.matches) - trim)
           rest == SubSeq(r.files, 1, Len(r.files) - 1)
       IN  [r EXCEPT !.truncated = TRUE, !.shown = @ - trim,
                     !.files = IF left = <<>> THEN rest ELSE Append(rest, [last EXCEPT !.matches = left])]

\* The search may be of a place outside the workspace, and is then held to that place.
SearchContainment(workspace, root) == IF Under(workspace, root) THEN workspace ELSE root

\* `walk` is what the walker yields, in its order.
DoSearch(fs, workspace, walk, maxSize, args) ==
  LET one(r, path) ==
        LET s == [r EXCEPT !.searched = @ + 1]
        IN  IF r.truncated THEN CountFileMatches(fs, path, s)
            ELSE TrimToLimit(SearchFileContents(fs, workspace, path, maxSize, args, s), args.limit)
  IN  FoldLeft(one, NothingFound, walk)

HadReadErrors(r) == \E reason \in ToSet(r.skipped) : reason # "binary"
SearchExit(r) == IF r.shown = 0 \/ HadReadErrors(r) THEN "fail" ELSE "ok"

\* One page of the files, `limit` of them; "out of range" past the last one.
SearchPage(r, limit, page) ==
  LET first == (Max({page, 1}) - 1) * limit
  IN  IF r.files = <<>> THEN [note |-> "no matches found", files |-> <<>>, more |-> 0]
      ELSE IF first >= Len(r.files) THEN [note |-> "out of range", files |-> <<>>, more |-> 0]
      ELSE LET last == Min({first + limit, Len(r.files)})
           IN  [note |-> "", files |-> SubSeq(r.files, first + 1, last), more |-> Len(r.files) - last]

SearchSummary(r) ==
  [shown |-> r.shown, of |-> IF r.truncated \/ r.all > r.shown THEN r.all ELSE r.shown,
   files |-> r.matching, searched |-> r.searched, skipped |-> Len(r.skipped)]

-----------------------------------------------------------------------------
(* ls: the walker yields [path, kind, ext, err]; a project is [stack, path];   *)
(* args is [stack, ext, pattern, depth, limit], depth -1 for none              *)

\* The projects of the stack, or the root when there are none and none was asked for.
LsProjects(detected, stack) ==
  LET kept == SelectSeq(detected, LAMBDA p : stack = "" \/ p.stack = stack)
  IN  IF kept = <<>> /\ stack = "" THEN <<[stack |-> "", path |-> <<>>]>> ELSE kept

MatchesGlob(pattern, path) == pattern = <<>> \/ GlobMatch(pattern, path)

LsStart == [files |-> <<>>, total |-> 0, filtered |-> 0, errors |-> 0, scanned |-> 0,
            truncated |-> FALSE]

\* One entry of the walk. A file below the depth counts as one of the total.
LsStep(args, maxScanned, s, e) ==
  IF s.truncated THEN s
  ELSE IF e.err THEN [s EXCEPT !.errors = @ + 1]
  ELSE IF e.kind \notin {"file", "link"} THEN s
  ELSE IF s.scanned >= maxScanned THEN [s EXCEPT !.scanned = @ + 1, !.truncated = TRUE]
  ELSE LET t == [s EXCEPT !.scanned = @ + 1]
       IN  IF ~MatchesExtension(e.ext, args.ext) \/ ~MatchesGlob(args.pattern, e.path)
           THEN [t EXCEPT !.filtered = @ + 1]
           ELSE IF Len(s.files) >= args.limit THEN [t EXCEPT !.truncated = TRUE]
           ELSE IF args.depth # -1 /\ Len(e.path) - 1 > args.depth
           THEN [t EXCEPT !.total = @ + 1, !.filtered = @ + 1]
           ELSE [t EXCEPT !.total = @ + 1, !.files = Append(@, e)]

\* Mutation for ListedOnce: the first project above a file takes it.
FirstProject(projects, path) ==
  CHOOSE i \in {j \in DOMAIN projects : IsPrefix(projects[j].path, path)} \cup {1} :
    \A j \in DOMAIN projects : IsPrefix(projects[j].path, path) => i <= j

\* The deepest project above the file (of equals the last), or else the first one.
BestProject(projects, path) ==
  LET above == {i \in DOMAIN projects : IsPrefix(projects[i].path, path)}
      depth(i) == Len(projects[i].path)
  IN  IF above = {} THEN 1
      ELSE CHOOSE i \in above : \A j \in above : depth(j) < depth(i) \/ (depth(j) = depth(i) /\ j <= i)

DoLs(detected, walk, args, maxScanned) ==
  LET projects == LsProjects(detected, args.stack)
      s        == IF args.depth = 0 THEN LsStart
                  ELSE FoldLeft(LAMBDA t, e : LsStep(args, maxScanned, t, e), LsStart, walk)
  IN  [projects |-> [i \in DOMAIN projects |->
                       [stack |-> projects[i].stack, path |-> projects[i].path,
                        files |-> SelectSeq(s.files, LAMBDA e : BestProject(projects, e.path) = i)]],
       total |-> s.total, filtered |-> s.filtered, errors |-> s.errors,
       truncated |-> s.truncated, shown |-> Len(s.files)]

\* collect_file_metadata: what is said of a file, `counted` when --loc is given.
FileLabel(fs, root, path, counted, binaryExt, maxLoc, readLimit) ==
  LET loc == CountLines(fs, root, path, maxLoc, readLimit)
  IN  IF fs[path].kind = "link" THEN "link"
      ELSE IF ~Exists(fs, path) THEN "no access"
      ELSE IF ~counted THEN IF binaryExt THEN "binary" ELSE "plain"
      ELSE IF loc.is_large THEN "large" ELSE IF loc.is_binary THEN "binary"
      ELSE IF loc.loc >= 0 THEN "counted" ELSE "plain"

\* The tree of one project: files in the order of their paths, under a line for
\* each directory that differs from that of the file before. `rank` orders the paths.
TreeLines(files, rank) ==
  LET sorted == SortSeq(files, LAMBDA a, b : rank[a.path] < rank[b.path])
      dir(i) == IF i = 0 THEN <<>> ELSE Parent(sorted[i].path)
      heading(i) == IF dir(i) # dir(i - 1) /\ dir(i) # <<>> THEN <<[dir |-> dir(i)]>> ELSE <<>>
  IN  FoldLeft(LAMBDA out, i : out \o heading(i) \o <<[dir |-> dir(i), name |-> Last(sorted[i].path)]>>,
               <<>>, [i \in DOMAIN sorted |-> i])

\* --tree before --files; --match lists files.
LsMode(args) ==
  IF args.tree THEN "Tree" ELSE IF args.files \/ args.pattern # <<>> THEN "Files" ELSE "Projects"
=============================================================================
