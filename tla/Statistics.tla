----------------------------- MODULE Statistics -----------------------------
(***************************************************************************)
(* What `8v stats` and `8v log` make of the records of the sessions: retry *)
(* and failure clusters, hot spots, percentiles, rows, tables.             *)
(*                                                                         *)
(* A session is [id, commands], its commands a sequence of records         *)
(*   [run, command, shape, path, at, agent, hook,                          *)
(*    complete, success, bytes, tokens, ms, end]                           *)
(* in the order of their starts (aggregate_events). `path` is the first    *)
(* argument that looks like a path, "" when there is none.                 *)
(***************************************************************************)
EXTENDS Integers, Sequences, SequencesExt, FiniteSets, FiniteSetsExt, Functions

None == -1
Sum(S, f(_)) == MapThenSumSet(f, S)
Succeeded(rec) == rec.complete /\ rec.success
Failed(rec) == rec.complete /\ ~rec.success
\* All records of all sessions, each with the place it has.
Places(sessions) ==
  {p \in (DOMAIN sessions) \X (1..FoldSeq(LAMBDA s, n : n + Len(s.commands), 0, sessions)) :
     p[2] \in DOMAIN sessions[p[1]].commands}
At(sessions, p) == sessions[p[1]].commands[p[2]]

-----------------------------------------------------------------------------
(* sliding_window.rs, cluster_detection.rs, session_aggregate.rs *)

\* A run of records ends where the next one is more than the window after its
\* first, or before it; runs of one record are dropped.
SlidingWindows(records, window) ==
  LET fits(run, rec) == rec.at >= run[1].at /\ rec.at - run[1].at <= window
      add(runs, rec) ==
        IF runs # <<>> /\ fits(runs[Len(runs)], rec)
        THEN [runs EXCEPT ![Len(runs)] = Append(@, rec)]
        ELSE Append(runs, <<rec>>)
  IN  SelectSeq(FoldLeft(add, <<>>, records), LAMBDA run : Len(run) >= 2)

Groups(records) == {<<records[i].command, records[i].shape>> : i \in DOMAIN records}
InGroup(records, g) == SelectSeq(records, LAMBDA r : <<r.command, r.shape>> = g)

\* Records of one command and shape, closer together than the window.
DetectClusters(records, window) ==
  UNION {{[command |-> g[1], shape |-> g[2], records |-> run] :
            run \in ToSet(SlidingWindows(InGroup(records, g), window))} : g \in Groups(records)}

RetryClusters(session, window) == DetectClusters(session.commands, window)
FailureClusters(session, window) ==
  DetectClusters(SelectSeq(session.commands, Failed), window)

MinSamples == 5
Durations(records) ==
  SortSeq(LET done == SelectSeq(records, LAMBDA r : r.complete)
          IN  [i \in DOMAIN done |-> done[i].ms], LAMBDA a, b : a < b)

PercentileFromSorted(sorted, p) ==
  IF Len(sorted) < MinSamples THEN None
  ELSE sorted[Min({(Len(sorted) * p) \div 100, Len(sorted) - 1}) + 1]

CommandsOf(session) == {r.command : r \in ToSet(session.commands)}
DurationPercentile(session, p) == PercentileFromSorted(Durations(session.commands), p)
PerCommandP95(session) ==
  LET p95(c) == PercentileFromSorted(
                  Durations(SelectSeq(session.commands, LAMBDA r : r.command = c)), 95)
  IN  {[command |-> c, p95 |-> p95(c)] : c \in {d \in CommandsOf(session) : p95(d) # None}}

\* The entries with the highest counts; ties are settled by name, which is left out.
TakeTop(rows, limit) ==
  SubSeq(SetToSortSeq(rows, LAMBDA a, b : a.n > b.n), 1, Min({limit, Cardinality(rows)}))
TopCommands(session, limit) ==
  TakeTop({[command |-> c, n |-> Len(SelectSeq(session.commands, LAMBDA r : r.command = c))] :
             c \in CommandsOf(session)}, limit)

-----------------------------------------------------------------------------
(* failure_hotspot.rs *)

\* Failures of each command and shape, and the path that failed most often.
Hotspots(sessions) ==
  LET failures  == {p \in Places(sessions) : Failed(At(sessions, p))}
      key(p)    == <<At(sessions, p).command, At(sessions, p).shape>>
      of(k)     == {p \in failures : key(p) = k}
      on(k, path) == Cardinality({p \in of(k) : At(sessions, p).path = path})
      paths(k)  == {At(sessions, p).path : p \in of(k)} \ {""}
      hits(k)   == Max({on(k, path) : path \in paths(k)} \cup {0})
  IN  TakeTop({[command |-> k[1], shape |-> k[2], n |-> Cardinality(of(k)), hits |-> hits(k),
                paths |-> {path \in paths(k) : on(k, path) = hits(k)}] :
                 k \in {key(p) : p \in failures}}, 10)

-----------------------------------------------------------------------------
(* stats_histogram.rs and buckets.rs *)

\* The least duration of each bucket: 60 of them, evenly on a logarithmic scale from 1 ms
\* to 1000 s. Of those with the same least duration only the last is ever used.
BucketStart ==
  <<1, 2, 2, 2, 3, 4, 4, 6, 7, 8, 10, 13, 16, 20, 26, 32, 40, 51, 64, 80, 100, 126, 159, 200, 252, 317, 399,
    502, 631, 795, 1000, 1259, 1585, 1996, 2512, 3163, 3982, 5012, 6310, 7944, 10000, 12590, 15849, 19953,
    25119, 31623, 39811, 50119, 63096, 79433, 100000, 125893, 158490, 199527, 251189, 316228, 398108, 501188,
    630958, 794329>>
MaxMs == 1000000

\* What is less than the first bucket counts in it, what is beyond the last in that one.
\* (In floating point the bound 100000 comes out as 100001; all others are these.)
BucketIndex(ms) == Max({1} \cup {i \in DOMAIN BucketStart : BucketStart[i] <= ms})
BucketUpper(i) == Max({IF i = Len(BucketStart) THEN MaxMs ELSE BucketStart[i + 1], i + 1})

\* The upper bound of the first bucket at which p percent of the durations are reached.
HistogramPercentile(durations, p) ==
  LET target  == (p * Len(durations) + 99) \div 100
      buckets == [k \in DOMAIN durations |-> BucketIndex(durations[k])]
      upTo(b) == Len(SelectSeq(buckets, LAMBDA bucket : bucket <= b))
  IN  IF Len(durations) < MinSamples THEN None
      ELSE BucketUpper(Min({b \in ToSet(buckets) : upTo(b) >= target}))

\* A row of the records at the places S, with the retry clusters counted for it.
Row(sessions, label, S, clusters) ==
  LET done == {p \in S : At(sessions, p).complete}
      durations == [i \in 1..Cardinality(done) |-> At(sessions, SetToSeq(done)[i]).ms]
  IN  [label |-> label, n |-> Cardinality(S), complete |-> Cardinality(done),
       ok |-> Cardinality({p \in S : Succeeded(At(sessions, p))}),
       bytes |-> Sum(done, LAMBDA p : At(sessions, p).bytes),
       ms |-> Sum(done, LAMBDA p : At(sessions, p).ms),
       p50 |-> HistogramPercentile(durations, 50), p95 |-> HistogramPercentile(durations, 95),
       p99 |-> HistogramPercentile(durations, 99), retries |-> clusters]

\* The retry clusters of a command, in these shapes, of all sessions.
CountClusters(sessions, window, command, shapes) ==
  LET in(s) == {k \in RetryClusters(s, window) : k.command = command /\ k.shape \in shapes}
  IN  FoldSeq(LAMBDA s, n : n + Cardinality(in(s)), 0, sessions)

RowsByCommand(sessions, window) ==
  LET of(c) == {p \in Places(sessions) : At(sessions, p).command = c}
      shapes(c) == {At(sessions, p).shape : p \in of(c)}
  IN  {Row(sessions, c, of(c), CountClusters(sessions, window, c, shapes(c))) :
         c \in {At(sessions, p).command : p \in Places(sessions)}}

RowsByAgent(sessions) ==
  LET of(a) == {p \in Places(sessions) : At(sessions, p).agent = a}
  IN  {Row(sessions, a, of(a), 0) : a \in {At(sessions, p).agent : p \in Places(sessions)}}

\* Mutation for CountsAddUp: shapes that occur once are left out.
RowsByArgvShapeUnrolled(sessions, window, command) ==
  LET of(h)  == {p \in Places(sessions) : At(sessions, p).command = command
                                          /\ At(sessions, p).shape = h}
      shapes == {At(sessions, p).shape : p \in Places(sessions)}
  IN  {Row(sessions, h, of(h), 0) : h \in {g \in shapes : Cardinality(of(g)) > 1}}

\* Shapes that occur once share the row "other", which has no durations.
RowsByArgvShape(sessions, window, command) ==
  LET mine   == {p \in Places(sessions) : At(sessions, p).command = command}
      of(h)  == {p \in mine : At(sessions, p).shape = h}
      shapes == {At(sessions, p).shape : p \in mine}
      once   == {h \in shapes : Cardinality(of(h)) = 1}
      retried(H) == CountClusters(sessions, window, command, H)
  IN  {Row(sessions, h, of(h), retried({h})) : h \in shapes \ once}
      \cup IF once = {} THEN {}
           ELSE {[Row(sessions, "other", UNION {of(h) : h \in once}, retried(once))
                    EXCEPT !.ms = 0, !.p50 = None, !.p95 = None, !.p99 = None]}

-----------------------------------------------------------------------------
(* report.rs and stats/mod.rs: args is [compare, shape, command, since, until, *)
(* session, minN, window], with "" for what was not given                      *)

ReportMode(args) ==
  IF args.compare THEN "agent"
  ELSE IF args.shape # "" THEN args.shape ELSE IF args.command # "" THEN args.command ELSE "table"

BuildReport(sessions, args) ==
  LET rows == IF ReportMode(args) = "agent" THEN RowsByAgent(sessions)
              ELSE IF ReportMode(args) = "table" THEN RowsByCommand(sessions, args.window)
              ELSE RowsByArgvShape(sessions, args.window, ReportMode(args))
  IN  [rows |-> {r \in rows : r.n >= args.minN}, hotspots |-> Hotspots(sessions)]

\* parse_duration_ms: digits and a unit; the product saturates.
UnitMs == [u \in {"", "s", "ms", "m", "h", "d"} |->
             CASE u \in {"", "s"} -> 1000 [] u = "ms" -> 1 [] u = "m" -> 60000
               [] u = "h" -> 3600000 [] u = "d" -> 86400000]
ParseDuration(text, maxU64) ==   \* text is [digits |-> None or a number, unit]
  IF text.digits = None \/ text.unit \notin DOMAIN UnitMs THEN None
  ELSE IF text.digits > maxU64 \div UnitMs[text.unit] THEN maxU64
  ELSE text.digits * UnitMs[text.unit]

\* The events (sequence of [run, session, at]) that are aggregated: those of the
\* session, or of the window, never those of this very run.
Selected(events, args, now, currentRun) ==
  SelectSeq(events, LAMBDA e :
    /\ e.run # currentRun
    /\ IF args.session # "" THEN e.session = args.session
       ELSE /\ e.at >= Max({0, now - args.since})
            /\ e.at <= Max({0, now - args.until}))

FilteredEmpty(events, args, now, currentRun, explicit) ==
  LET emptyWindow == args.session = "" /\ args.since < args.until
                     /\ Max({0, now - args.since}) > Max({0, now - args.until})
      users == SelectSeq(events, LAMBDA e : e.run # currentRun)
  IN  \/ emptyWindow
      \/ /\ Selected(events, args, now, currentRun) = <<>>
         /\ explicit \/ users # <<>>

-----------------------------------------------------------------------------
(* log/*.rs *)

LastEnd(session) ==
  LET last == session.commands[Len(session.commands)] IN IF last.complete THEN last.end ELSE None

SessionRow(session) ==
  LET done == SelectSeq(session.commands, LAMBDA r : r.complete)
      started == session.commands[1].at
  IN  [id |-> session.id, started |-> started,
       duration |-> IF LastEnd(session) >= started THEN LastEnd(session) - started ELSE None,
       n |-> Len(session.commands), failed |-> Len(SelectSeq(done, Failed)),
       bytes |-> FoldSeq(LAMBDA r, b : b + r.bytes, 0, done),
       tokens |-> FoldSeq(LAMBDA r, b : b + r.tokens, 0, done)]

\* The newest sessions first; a warning about a session that is not shown is dropped.
SessionsTable(sessions, limit, warnings) ==
  LET shown == SubSeq(Reverse(sessions), 1, Min({limit, Len(sessions)}))
  IN  [rows |-> [i \in DOMAIN shown |-> SessionRow(shown[i])], total |-> Len(sessions),
       warnings |-> {w \in warnings : w.session \in {""} \cup {s.id : s \in ToSet(shown)}}]

DrillReport(session, window) ==
  LET count(P(_)) == Len(SelectSeq(session.commands, P))
  IN  [id |-> session.id, started |-> session.commands[1].at, ended |-> LastEnd(session),
       n |-> Len(session.commands), ok |-> count(Succeeded), failed |-> count(Failed),
       incomplete |-> count(LAMBDA r : ~r.complete),
       p50 |-> DurationPercentile(session, 50), p95 |-> DurationPercentile(session, 95),
       perCommand |-> PerCommandP95(session), top |-> TopCommands(session, 5),
       retries |-> RetryClusters(session, window), failures |-> FailureClusters(session, window)]

\* The commands that match, the first `limit` of them (0: all).
SearchResults(sessions, matching, limit) ==
  LET found(s) == SelectSeq(s.commands, LAMBDA r : r \in matching)
      rows == FoldLeft(LAMBDA acc, s : acc \o found(s), <<>>, sessions)
  IN  [rows |-> IF limit > 0 THEN SubSeq(rows, 1, Min({limit, Len(rows)})) ELSE rows,
       total |-> Len(rows), sessions |-> Cardinality({i \in DOMAIN sessions : found(sessions[i]) # <<>>})]

\* max_by_key: of several sessions with the last activity, the last one.
LastActivity(session) ==
  IF LastEnd(session) # None THEN LastEnd(session) ELSE session.commands[Len(session.commands)].at
ResolveLastSession(sessions) ==
  sessions[CHOOSE i \in DOMAIN sessions : \A j \in DOMAIN sessions :
             \/ LastActivity(sessions[j]) < LastActivity(sessions[i])
             \/ LastActivity(sessions[j]) = LastActivity(sessions[i]) /\ j <= i]

\* Of the ids that begin with what was typed one must be that of a session.
ResolveSessionPrefix(sessions, ids) ==
  LET found == {i \in DOMAIN sessions : sessions[i].id \in ids}
  IN  CASE found = {} -> [err |-> "no session", session |-> <<>>]
        [] Cardinality(found) = 1 -> [err |-> "", session |-> sessions[CHOOSE i \in found : TRUE]]
        [] OTHER -> [err |-> "ambiguous", session |-> <<>>]

-----------------------------------------------------------------------------
(* argv_normalizer.rs: a token is [kind, text, range], its kind one of "quoted", *)
(* "content flag", "word", "tmp", "inside" and "outside" (absolute paths in and  *)
(* out of the project), "relative"                                               *)

NormalizeToken(token, project) ==
  CASE token.kind = "quoted" -> <<"<str>">>
    [] token.kind \in {"word", "content flag"} -> <<token.text>>
    [] token.kind = "tmp" -> <<"<tmp>", token.range>>
    [] token.kind = "inside" /\ project -> <<token.text, token.range>>
    [] token.kind = "outside" \/ (token.kind = "inside" /\ ~project) -> <<"<abs>", token.range>>
    [] token.kind = "relative" -> <<IF project THEN token.text ELSE "basename", token.range>>


\* What follows --insert, --find, --replace and --append is content, never a path.
NormalizeArgv(argv, project) ==
  [i \in DOMAIN argv |->
     LET run  == CHOOSE k \in 0..(i - 1) :   \* content flags right before i
                   /\ \A j \in (i - k)..(i - 1) : argv[j].kind = "content flag"
                   /\ k < i - 1 => argv[i - k - 1].kind # "content flag"
     IN  IF run % 2 = 1 THEN <<"<str>">> ELSE NormalizeToken(argv[i], project)]
=============================================================================
