------------------------------ MODULE EventStats ------------------------------
(***************************************************************************)
(* The event store together with what reads it: `8v stats` and `8v log`    *)
(* may read the log at any time (o8v/src/event_reader.rs) and join what    *)
(* they find there (Aggregate).                                            *)
(***************************************************************************)
EXTENDS EventLog

\* parse_events_lenient: a malformed line is skipped, with a warning.  The events
\* keep their places in the log.
ParseLenient(lines) == {n \in DOMAIN lines : lines[n] # Torn}

\* What the reader sees of a line; the rest of an event makes no difference here.
EventOf(line) == [kind |-> line.kind, run |-> line.run, session |-> "ses", at |-> 0]
EventsOf(lines) == [n \in DOMAIN lines |-> EventOf(lines[n])]

\* Only the pass itself is taken from Aggregate, which is a function of the events.
Join == INSTANCE Aggregate WITH
  RunIds <- Actors, Sessions <- {"ses"}, Times <- {0}, From <- 0, To <- 0,
  MaxEvents <- 0, events <- log, st <- {}, result <- {}

\* The builders after line n.  No run id is open twice, so there is no choice.
ReadLine(lines, b, n) ==
  IF n \in ParseLenient(lines)
  THEN CHOOSE c \in Join!Consume(EventsOf(lines), b, n) : TRUE
  ELSE b

\* The pass over all of them.
Builders(lines) ==
  LET after[n \in 0..Len(lines)] ==
        IF n = 0 THEN Join!Fresh ELSE ReadLine(lines, after[n - 1], n)
  IN  after[Len(lines)]

-----------------------------------------------------------------------------
(* Properties *)

\* Whenever it is read, the log of a store that was there gives the right
\* statistics: every run that ended well has one complete record; a run is
\* counted as incomplete, or its end reported as an orphan, only if it is going
\* on, crashed or lost an event; no run is reported as a duplicate.
StatsTellTheTruth ==
  existed =>
    LET b == Builders(log)
        End(r) == IF r[2] = "pre" THEN Post(r[1]) ELSE r
    IN  /\ \A a \in Actors :
             Closed(a) /\ ~NeverStarted(run[a]) =>
               \E k \in DOMAIN b.records :
                 /\ log[b.records[k].start] = Line("Started", run[a])
                 /\ log[b.records[k].done] = Line("Completed", run[a])
                 /\ \A j \in DOMAIN b.records : log[b.records[j].start].run = run[a] => j = k
        /\ \A i \in b.pending : ~Closed(End(log[i].run))
        /\ \A w \in b.warnings :
             /\ w.kind = "OrphanCompleted"
             /\ log[w.at].run \in dropped \/ NeverStarted(log[w.at].run)
=============================================================================
