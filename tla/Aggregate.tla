------------------------------- MODULE Aggregate -------------------------------
(***************************************************************************)
(* aggregate_events: the events of the log joined into command records, in *)
(* one pass (o8v/src/aggregator/aggregate_events.rs), behind the time      *)
(* window of `8v stats` (o8v/src/commands/stats/mod.rs).                   *)
(*                                                                         *)
(* An event is known by its place in the log: a record pairs two places,   *)
(* done = 0 for an incomplete one, and a warning names the place it is     *)
(* about.  The log is made up as it is read.                               *)
(***************************************************************************)
EXTENDS Naturals, Sequences, FiniteSets

CONSTANTS
  RunIds, Sessions,  \* what events carry
  Times,             \* their timestamps
  From, To,          \* the window: window_start_ms and window_end_ms
  MaxEvents          \* bound: the length of the log

ASSUME AggregateAssumption ==
  Times \subseteq Nat /\ From \in Nat /\ To \in Nat /\ MaxEvents \in Nat

VARIABLES
  events,  \* the log read so far
  st,      \* the SessionBuilders and the WarningSink
  result   \* the commands of each session, or NoResult

vars == <<events, st, result>>

Event == [kind : {"Started", "Completed"}, run : RunIds, session : Sessions, at : Times]
NoResult == [s \in Sessions |-> <<>>]
Fresh == [pending |-> {}, records |-> <<>>, warnings |-> {}, phase |-> "read"]

TypeOK ==
  /\ events \in Seq(Event)
  /\ st.pending \subseteq DOMAIN events
  /\ st.records \in Seq([start : DOMAIN events, done : DOMAIN events \cup {0}])
  /\ \A w \in st.warnings : w.at \in DOMAIN events

Warn(b, kind, n) == [b EXCEPT !.warnings = @ \cup {[kind |-> kind, at |-> n]}]
Record(b, i, n) ==
  [b EXCEPT !.pending = @ \ {i}, !.records = Append(@, [start |-> i, done |-> n])]

-----------------------------------------------------------------------------
(* The pass, as a function of the events up to n and the builders b *)

\* Mutation for ClosedByFirst: the search stays in the session of the event.
OpenStartsInSession(evs, b, n) ==
  {i \in b.pending : evs[i].run = evs[n].run /\ evs[i].session = evs[n].session}
OpenStarts(evs, b, n) == {i \in b.pending : evs[i].run = evs[n].run}

\* Mutation for EachEventOnce: insert() into the map, last wins.
OnStartedLastWins(evs, b, n) ==
  [b EXCEPT !.pending =
     {i \in @ : evs[i].run # evs[n].run \/ evs[i].session # evs[n].session} \cup {n}]

\* The repeat is looked for among the open runs of the same session.
OnStarted(evs, b, n) ==
  IF \E i \in OpenStarts(evs, b, n) : evs[i].session = evs[n].session
  THEN Warn(b, "DuplicateStarted", n)
  ELSE [b EXCEPT !.pending = @ \cup {n}]

\* Mutation for OrphansAreOrphans: completed_run_ids of one session only.
AlreadyCompletedHere(evs, b, n) ==
  \E k \in DOMAIN b.records :
    /\ evs[b.records[k].start].run = evs[n].run
    /\ evs[b.records[k].start].session = evs[n].session
AlreadyCompleted(evs, b, n) ==
  \E k \in DOMAIN b.records : evs[b.records[k].start].run = evs[n].run

\* find_session_for_run_id takes the first session in the order of a HashMap.
OnCompleted(evs, b, n) ==
  IF OpenStarts(evs, b, n) # {}
  THEN {Record(b, i, n) : i \in OpenStarts(evs, b, n)}
  ELSE {Warn(b, IF AlreadyCompleted(evs, b, n) THEN "DuplicateCompleted"
                ELSE "OrphanCompleted", n)}

Consume(evs, b, n) ==
  IF evs[n].kind = "Started" THEN {OnStarted(evs, b, n)} ELSE OnCompleted(evs, b, n)

\* A Started left open becomes a record without an end.
FlushOne(b, i) == Warn(Record(b, i, 0), "OrphanStarted", i)

\* sort_by_key is stable: by timestamp, then in the order the records were made.
Before(evs, recs, j, k) ==
  LET at(i) == evs[recs[i].start].at
  IN  at(j) < at(k) \/ (at(j) = at(k) /\ j < k)

RecordsOf(evs, b, s) ==
  LET own   == {k \in DOMAIN b.records : evs[b.records[k].start].session = s}
      order == CHOOSE f \in [1..Cardinality(own) -> own] :
                 \A p, q \in DOMAIN f : p < q => Before(evs, b.records, f[p], f[q])
  IN  [p \in DOMAIN order |-> b.records[order[p]]]

-----------------------------------------------------------------------------
(* The program *)

Init == events = <<>> /\ st = Fresh /\ result = NoResult

InWindow(e) == From <= e.at /\ e.at <= To

ReadEvent ==
  /\ st.phase = "read" /\ Len(events) < MaxEvents
  /\ \E e \in Event :
       /\ events' = Append(events, e)
       /\ IF InWindow(e)
          THEN st' \in Consume(events', st, Len(events) + 1)
          ELSE UNCHANGED st
  /\ UNCHANGED result

EndOfLog ==
  /\ st.phase = "read"
  /\ st' = [st EXCEPT !.phase = "flush"]
  /\ UNCHANGED <<events, result>>

Flush ==
  /\ st.phase = "flush"
  /\ \E i \in st.pending : st' = FlushOne(st, i)
  /\ UNCHANGED <<events, result>>

Finish ==
  /\ st.phase = "flush" /\ st.pending = {}
  /\ result' = [s \in Sessions |-> RecordsOf(events, st, s)]
  /\ st' = [st EXCEPT !.phase = "done"]
  /\ UNCHANGED events

Next == ReadEvent \/ EndOfLog \/ Flush \/ Finish
Spec == Init /\ [][Next]_vars

-----------------------------------------------------------------------------
(* Properties *)

Kept == {n \in DOMAIN events : InWindow(events[n])}
Uses(n) ==   \* how many times event n was accounted for
  Cardinality({k \in DOMAIN st.records : n \in {st.records[k].start, st.records[k].done}})
Noted(kind) == {w.at : w \in {v \in st.warnings : v.kind = kind}}
Rejected == Noted("DuplicateStarted") \cup Noted("DuplicateCompleted") \cup Noted("OrphanCompleted")

\* No event is lost and none is counted twice: when the pass ends, every event
\* in the window is part of exactly one record or named by a warning, never
\* both, whatever the duplicates and the order the sessions were searched in. A
\* session has the records of its own starts, in their order.
EachEventOnce ==
  st.phase = "done" =>
    /\ \A n \in Kept : Uses(n) = (IF n \in Rejected THEN 0 ELSE 1)
    /\ \A s \in Sessions : \A j, k \in DOMAIN result[s] :
         /\ events[result[s][j].start].session = s
         /\ j < k => events[result[s][j].start].at <= events[result[s][k].start].at

\* A record joins a Started with a later Completed of the same run, and a run
\* that is open is closed by the first Completed that comes: none that follows
\* it is taken for a duplicate or an orphan.
ClosedByFirst ==
  \A k \in DOMAIN st.records :
    LET rec == st.records[k]
        end == IF rec.done = 0 THEN Len(events) + 1 ELSE rec.done
    IN  /\ rec.done # 0 => /\ rec.start < rec.done
                           /\ events[rec.start].run = events[rec.done].run
        /\ \A n \in rec.start..(end - 1) :
             /\ events[n].kind = "Completed" /\ events[n].run = events[rec.start].run
             => n \notin Noted("DuplicateCompleted") \cup Noted("OrphanCompleted")

\* OrphanCompleted is said only of a run that has no Started before it in the
\* window, DuplicateCompleted only of one that was closed before.
OrphansAreOrphans ==
  \A n \in DOMAIN events :
    LET earlier(kind) == {i \in Kept : i < n /\ events[i].kind = kind
                                             /\ events[i].run = events[n].run}
    IN  /\ n \in Noted("OrphanCompleted") => earlier("Started") = {}
        /\ n \in Noted("DuplicateCompleted") =>
             earlier("Started") # {} /\ earlier("Completed") # {}

\* session_aggregate.rs:17 "`completed` is `None` when the matching
\* `CommandCompleted` was never written".
IncompleteWasNeverCompleted ==
  \A k \in DOMAIN st.records :
    LET rec == st.records[k]
    IN  rec.done = 0 =>
          ~\E n \in DOMAIN events :
             /\ n > rec.start /\ events[n].kind = "Completed"
             /\ events[n].run = events[rec.start].run
=============================================================================
