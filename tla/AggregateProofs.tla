--------------------------- MODULE AggregateProofs ---------------------------
(* Theorems about Aggregate for logs of any length, runs, sessions and windows. *)
EXTENDS Aggregate, FiniteSetTheorems, FunctionTheorems, TLAPS

RunAt(n) == events[n].run
Is(kind, n) == n \in Kept /\ events[n].kind = kind

RecordSet == [start : Nat, done : Nat]
WarningKinds == {"DuplicateStarted", "DuplicateCompleted", "OrphanCompleted", "OrphanStarted"}
WarningSet == [kind : WarningKinds, at : Nat]

BuilderSet ==
  [pending : SUBSET Nat, records : Seq(RecordSet), warnings : SUBSET WarningSet,
   phase : {"read", "flush", "done"}]

AggregateTypes == events \in Seq(Event) /\ st \in BuilderSet

Joins(i, n) ==
  /\ Is("Started", i)
  /\ n # 0 => Is("Completed", n) /\ i < n /\ RunAt(i) = RunAt(n)

\* What stands at the places the builders know.
PlacesInv ==
  /\ \A i \in st.pending : Is("Started", i)
  /\ \A k \in DOMAIN st.records :
       /\ Joins(st.records[k].start, st.records[k].done)
       /\ st.records[k].done = 0 => st.phase # "read"

\* No start is forgotten: while the log is read, the run of each is open or closed.
Known(r) ==
  \/ \E j \in st.pending : RunAt(j) = r
  \/ \E k \in DOMAIN st.records : RunAt(st.records[k].start) = r
StartsInv == st.phase = "read" => \A i : Is("Started", i) => Known(RunAt(i))

WarningsInv == \A w \in st.warnings : w.at \in DOMAIN events

\* No end of the run that was started at i was turned away before place e: the run
\* is open up to there.
Refused(n) == n \in Noted("DuplicateCompleted") \cup Noted("OrphanCompleted")
Clean(i, e) ==
  \A m \in i..(e - 1) : events[m].kind = "Completed" /\ RunAt(m) = RunAt(i) => ~Refused(m)
OpenInv ==
  /\ \A i \in st.pending : Clean(i, Len(events) + 1)
  /\ \A k \in DOMAIN st.records :
       LET rec == st.records[k]
       IN  Clean(rec.start, IF rec.done = 0 THEN Len(events) + 1 ELSE rec.done)

-----------------------------------------------------------------------------
(* What a step does, field by field *)

\* The log gets one event more, number n.
Grows(n) ==
  /\ n = Len(events) + 1 /\ Len(events') = n
  /\ DOMAIN events = 1..(n - 1) /\ DOMAIN events' = 1..n /\ n \in Nat
  /\ \A i \in 1..(n - 1) : events'[i] = events[i]
  /\ events' \in Seq(Event)
  /\ st.phase = "read" /\ st'.phase = "read"

Keeps == st'.pending = st.pending /\ st'.records = st.records
Adds(kind, n) == st'.warnings = st.warnings \cup {[kind |-> kind, at |-> n]}

Skipped(n) == ~InWindow(events'[n]) /\ Keeps /\ st'.warnings = st.warnings

Repeated(n) ==
  /\ events'[n].kind = "Started" /\ \E i \in st.pending : events'[i].run = events'[n].run
  /\ Keeps /\ Adds("DuplicateStarted", n)

Opened(n) ==
  /\ events'[n].kind = "Started"
  /\ st'.pending = st.pending \cup {n} /\ st'.records = st.records
  /\ st'.warnings = st.warnings

Closes(i, n) ==
  /\ st'.pending = st.pending \ {i}
  /\ st'.records = Append(st.records, [start |-> i, done |-> n])

Ended(n) ==
  /\ events'[n].kind = "Completed"
  /\ \E i \in st.pending : events'[i].run = events'[n].run /\ Closes(i, n)
  /\ st'.warnings = st.warnings

TurnedAway(n) ==
  /\ events'[n].kind = "Completed" /\ Keeps
  /\ \A i \in st.pending : events'[i].run # events'[n].run
  /\ \/ AlreadyCompleted(events', st, n) /\ Adds("DuplicateCompleted", n)
     \/ ~AlreadyCompleted(events', st, n) /\ Adds("OrphanCompleted", n)

LEMMA ReadEventShape ==
  ASSUME AggregateTypes, ReadEvent
  PROVE  \E n : /\ Grows(n)
                /\ \/ Skipped(n)
                   \/ /\ InWindow(events'[n])
                      /\ Repeated(n) \/ Opened(n) \/ Ended(n) \/ TurnedAway(n)
<1> DEFINE n == Len(events) + 1
<1>1. PICK e \in Event :
        /\ events' = Append(events, e)
        /\ IF InWindow(e) THEN st' \in Consume(events', st, n) ELSE UNCHANGED st
  BY DEF ReadEvent
<1>2. events \in Seq(Event) /\ events' \in Seq(Event) /\ st.phase = "read" /\ events'[n] = e
  BY <1>1 DEF AggregateTypes, ReadEvent
<1>3. st \in [pending : SUBSET Nat, records : Seq(RecordSet), warnings : SUBSET WarningSet,
              phase : {"read", "flush", "done"}]
  BY DEF AggregateTypes, BuilderSet
<1>4. st'.phase = "read"
  <2>1. CASE e.kind = "Started" /\ InWindow(e)
    BY <1>1, <1>2, <1>3, <2>1 DEF Consume, OnStarted, Warn
  <2>2. CASE e.kind # "Started" /\ InWindow(e)
    BY <1>1, <1>2, <1>3, <2>2 DEF Consume, OnCompleted, Warn, Record
  <2> QED
    BY <1>1, <1>2, <2>1, <2>2
<1>5. Grows(n)
  BY <1>1, <1>2, <1>4 DEF Grows
<1>6. CASE ~InWindow(e)
  BY <1>1, <1>2, <1>5, <1>6 DEF Skipped, Keeps
<1>7. CASE InWindow(e) /\ e.kind = "Started"
  <2>1. st' = OnStarted(events', st, n)
    BY <1>1, <1>2, <1>7 DEF Consume
  <2>2. CASE \E i \in OpenStarts(events', st, n) : events'[i].session = events'[n].session
    <3>1. st' = Warn(st, "DuplicateStarted", n)
      BY <2>1, <2>2 DEF OnStarted
    <3>2. Keeps /\ Adds("DuplicateStarted", n)
      BY <1>3, <3>1 DEF Warn, Keeps, Adds
    <3> QED
      BY <1>2, <1>5, <1>7, <2>2, <3>2 DEF Repeated, OpenStarts
  <2>3. CASE ~\E i \in OpenStarts(events', st, n) : events'[i].session = events'[n].session
    <3>1. st' = [st EXCEPT !.pending = @ \cup {n}]
      BY <2>1, <2>3 DEF OnStarted
    <3> QED
      BY <1>2, <1>3, <1>5, <1>7, <3>1 DEF Opened
  <2> QED
    BY <2>2, <2>3
<1>8. CASE InWindow(e) /\ e.kind # "Started"
  <2>1. e.kind = "Completed" /\ st' \in OnCompleted(events', st, n)
    BY <1>1, <1>2, <1>8 DEF Consume, Event
  <2>2. CASE OpenStarts(events', st, n) # {}
    <3>1. PICK i \in OpenStarts(events', st, n) : st' = Record(st, i, n)
      BY <2>1, <2>2 DEF OnCompleted
    <3>2. Closes(i, n) /\ st'.warnings = st.warnings
      BY <1>3, <3>1 DEF Record, Closes
    <3> QED
      BY <1>2, <1>5, <1>8, <2>1, <3>1, <3>2 DEF Ended, OpenStarts
  <2>3. CASE OpenStarts(events', st, n) = {}
    <3>1. st' = Warn(st, IF AlreadyCompleted(events', st, n) THEN "DuplicateCompleted"
                         ELSE "OrphanCompleted", n)
      BY <2>1, <2>3 DEF OnCompleted
    <3>2. /\ Keeps
          /\ Adds(IF AlreadyCompleted(events', st, n) THEN "DuplicateCompleted"
                  ELSE "OrphanCompleted", n)
      BY <1>3, <3>1 DEF Warn, Keeps, Adds
    <3> QED
      BY <1>2, <1>5, <1>8, <2>1, <2>3, <3>2 DEF TurnedAway, OpenStarts
  <2> QED
    BY <2>2, <2>3
<1> QED
  BY <1>5, <1>6, <1>7, <1>8

LEMMA FlushShape ==
  ASSUME AggregateTypes, Flush
  PROVE  /\ UNCHANGED events /\ st.phase = "flush" /\ st'.phase = "flush"
         /\ \E i \in st.pending : Closes(i, 0) /\ Adds("OrphanStarted", i)
<1>1. PICK i \in st.pending : st' = FlushOne(st, i)
  BY DEF Flush
<1>2. st \in [pending : SUBSET Nat, records : Seq(RecordSet), warnings : SUBSET WarningSet,
              phase : {"read", "flush", "done"}]
  BY DEF AggregateTypes, BuilderSet
<1> QED
  BY <1>1, <1>2 DEF Flush, FlushOne, Warn, Record, Closes, Adds

LEMMA PhaseShape ==
  ASSUME AggregateTypes, EndOfLog \/ Finish \/ UNCHANGED vars
  PROVE  /\ UNCHANGED events /\ Keeps /\ st'.warnings = st.warnings
         /\ st'.phase = "read" => st.phase = "read"
         /\ st.phase # "read" => st'.phase # "read"
         /\ st'.phase \in {"read", "flush", "done"}
BY DEF AggregateTypes, BuilderSet, EndOfLog, Finish, vars, Keeps

-----------------------------------------------------------------------------

LEMMA WarnTyped ==
  ASSUME NEW b \in BuilderSet, NEW kind \in WarningKinds, NEW n \in Nat
  PROVE  Warn(b, kind, n) \in BuilderSet
<1>1. [kind |-> kind, at |-> n] \in WarningSet
  BY DEF WarningSet
<1> QED
  BY <1>1 DEF Warn, BuilderSet

LEMMA RecordTyped ==
  ASSUME NEW b \in BuilderSet, NEW i \in Nat, NEW n \in Nat
  PROVE  Record(b, i, n) \in BuilderSet
<1> DEFINE rec == [start |-> i, done |-> n]
<1>1. rec \in RecordSet
  BY DEF RecordSet
<1>2. Append(b.records, rec) \in Seq(RecordSet) /\ b.pending \ {i} \in SUBSET Nat
  BY <1>1 DEF BuilderSet
<1> HIDE DEF rec
<1>3. [b EXCEPT !.pending = @ \ {i}, !.records = Append(@, rec)] \in BuilderSet
  BY <1>2 DEF BuilderSet
<1> QED
  BY <1>3 DEF Record, rec

LEMMA ConsumeTyped ==
  ASSUME NEW b \in BuilderSet, NEW n \in Nat, NEW evs, NEW c \in Consume(evs, b, n)
  PROVE  c \in BuilderSet
<1>1. CASE c = OnStarted(evs, b, n)
  <2>1. [b EXCEPT !.pending = @ \cup {n}] \in BuilderSet
    BY DEF BuilderSet
  <2>2. Warn(b, "DuplicateStarted", n) \in BuilderSet
    BY WarnTyped DEF WarningKinds
  <2> QED
    BY <1>1, <2>1, <2>2 DEF OnStarted
<1>2. CASE c \in OnCompleted(evs, b, n)
  <2>1. \A i \in OpenStarts(evs, b, n) : i \in Nat
    BY DEF OpenStarts, BuilderSet
  <2>2. \A i \in OpenStarts(evs, b, n) : Record(b, i, n) \in BuilderSet
    BY <2>1, RecordTyped
  <2>3. /\ Warn(b, "DuplicateCompleted", n) \in BuilderSet
        /\ Warn(b, "OrphanCompleted", n) \in BuilderSet
    BY WarnTyped DEF WarningKinds
  <2> QED
    BY <1>2, <2>2, <2>3 DEF OnCompleted
<1> QED
  BY <1>1, <1>2 DEF Consume

\* The log and the builders have their types.
THEOREM AggregateTypesCorrect == Spec => []AggregateTypes
<1>1. Init => AggregateTypes
  BY DEF Init, AggregateTypes, BuilderSet, Fresh
<1>2. AggregateTypes /\ [Next]_vars => AggregateTypes'
  <2> SUFFICES ASSUME AggregateTypes, [Next]_vars PROVE AggregateTypes'
    OBVIOUS
  <2>1. CASE ReadEvent
    <3>1. events' \in Seq(Event)
      BY <2>1, ReadEventShape DEF Grows
    <3>2. st' \in Consume(events', st, Len(events) + 1) \/ st' = st
      BY <2>1 DEF ReadEvent
    <3> QED
      BY <3>1, <3>2, ConsumeTyped DEF AggregateTypes
  <2>2. CASE Flush
    <3>1. PICK i \in st.pending : st' = FlushOne(st, i)
      BY <2>2 DEF Flush
    <3>2. i \in Nat
      BY DEF AggregateTypes, BuilderSet
    <3>3. Record(st, i, 0) \in BuilderSet
      BY <3>2, RecordTyped DEF AggregateTypes
    <3>4. Warn(Record(st, i, 0), "OrphanStarted", i) \in BuilderSet
      BY <3>2, <3>3, WarnTyped DEF WarningKinds
    <3> QED
      BY <2>2, <3>1, <3>4 DEF AggregateTypes, FlushOne, Flush
  <2>3. CASE EndOfLog \/ Finish \/ UNCHANGED vars
    BY <2>3 DEF EndOfLog, Finish, vars, AggregateTypes, BuilderSet
  <2> QED
    BY <2>1, <2>2, <2>3 DEF Next
<1> QED
  BY <1>1, <1>2, PTL DEF Spec

-----------------------------------------------------------------------------
(* The builders and the log *)

\* What is true of an event stays true when the log grows.
LEMMA GrowsFacts ==
  ASSUME AggregateTypes, NEW n, Grows(n)
  PROVE  /\ \A i \in 1..(n - 1) :
              /\ i \in Nat /\ i < n /\ RunAt(i)' = RunAt(i)
              /\ events'[i].kind = events[i].kind
              /\ i \in Kept' <=> i \in Kept
         /\ n \in Kept' <=> InWindow(events'[n])
         /\ Kept \subseteq 1..(n - 1) /\ Kept' \subseteq 1..n
<1>1. \A i \in 1..(n - 1) : i \in Nat /\ i < n /\ i \in 1..n
  BY DEF Grows
<1>2. n \in 1..n
  BY DEF Grows
<1> QED
  BY <1>1, <1>2 DEF Grows, Kept, RunAt, InWindow

LEMMA ClosesFacts ==
  ASSUME AggregateTypes, NEW i, NEW n, Closes(i, n)
  PROVE  \E m : /\ DOMAIN st'.records = DOMAIN st.records \cup {m} /\ m \notin DOMAIN st.records
               /\ st'.records[m] = [start |-> i, done |-> n]
               /\ \A k \in DOMAIN st.records : st'.records[k] = st.records[k]
<1> DEFINE rec == [start |-> i, done |-> n]
<1>1. st.records \in Seq(RecordSet) /\ st'.records = Append(st.records, rec)
  BY DEF AggregateTypes, BuilderSet, Closes
<1> HIDE DEF rec
<1>2. /\ DOMAIN st'.records = 1..(Len(st.records) + 1) /\ DOMAIN st.records = 1..Len(st.records)
      /\ Len(st.records) \in Nat /\ st'.records[Len(st.records) + 1] = rec
      /\ \A k \in DOMAIN st.records : st'.records[k] = st.records[k]
  BY <1>1
<1> WITNESS Len(st.records) + 1
<1> QED
  BY <1>2 DEF rec

LEMMA AddsFacts ==
  ASSUME NEW kind, NEW n, Adds(kind, n)
  PROVE  \A k, m : m \in Noted(k)' <=> m \in Noted(k) \/ (k = kind /\ m = n)
<1> SUFFICES ASSUME NEW k, NEW m PROVE m \in Noted(k)' <=> m \in Noted(k) \/ (k = kind /\ m = n)
  OBVIOUS
<1>1. m \in Noted(k)' <=> \E w \in st'.warnings : w.kind = k /\ w.at = m
  BY DEF Noted
<1>2. m \in Noted(k) <=> \E w \in st.warnings : w.kind = k /\ w.at = m
  BY DEF Noted
<1> DEFINE new == [kind |-> kind, at |-> n]
<1>3. new.kind = kind /\ new.at = n
  OBVIOUS
<1> HIDE DEF new
<1>4. st'.warnings = st.warnings \cup {new}
  BY DEF Adds, new
<1> QED
  BY <1>1, <1>2, <1>3, <1>4

LEMMA PlacesInvCorrect == Spec => []PlacesInv
<1>1. Init => PlacesInv
  BY DEF Init, PlacesInv, Fresh
<1>2. AggregateTypes /\ PlacesInv /\ [Next]_vars => PlacesInv'
  <2> SUFFICES ASSUME AggregateTypes, PlacesInv, [Next]_vars PROVE PlacesInv'
    OBVIOUS
  <2>1. CASE ReadEvent
    <3>1. PICK n : /\ Grows(n)
                   /\ \/ Skipped(n)
                      \/ /\ InWindow(events'[n])
                         /\ Repeated(n) \/ Opened(n) \/ Ended(n) \/ TurnedAway(n)
      BY <2>1, ReadEventShape
    <3>2. n \in Nat /\ n # 0 /\ st.phase = "read"
      BY <3>1 DEF Grows
    <3>3. \A kind, i : Is(kind, i) => i \in 1..(n - 1) /\ Is(kind, i)'
      BY <3>1, GrowsFacts DEF Is
    <3>4. \A i, d : Joins(i, d) => Joins(i, d)'
      <4> SUFFICES ASSUME NEW i, NEW d, Joins(i, d) PROVE Joins(i, d)'
        OBVIOUS
      <4>1. Is("Started", i)' /\ i \in 1..(n - 1)
        BY <3>3 DEF Joins
      <4>2. CASE d # 0
        <5>1. Is("Completed", d)' /\ d \in 1..(n - 1) /\ i < d /\ RunAt(i) = RunAt(d)
          BY <3>3, <4>2 DEF Joins
        <5> QED
          BY <3>1, <4>1, <5>1, GrowsFacts DEF Joins
      <4> QED
        BY <4>1, <4>2 DEF Joins
    <3>5. CASE Keeps
      BY <3>2, <3>3, <3>4, <3>5 DEF Keeps, PlacesInv
    <3>6. CASE InWindow(events'[n]) /\ Opened(n)
      <4>1. Is("Started", n)'
        BY <3>1, <3>6, GrowsFacts DEF Opened, Is
      <4> QED
        BY <3>2, <3>3, <3>4, <3>6, <4>1 DEF Opened, PlacesInv
    <3>7. CASE InWindow(events'[n]) /\ Ended(n)
      <4>1. PICK i \in st.pending : events'[i].run = events'[n].run /\ Closes(i, n)
        BY <3>7 DEF Ended
      <4>2. Is("Started", i) /\ i \in 1..(n - 1) /\ Is("Started", i)'
        BY <3>3 DEF PlacesInv
      <4>3. Is("Completed", n)' /\ i < n
        BY <3>1, <3>7, <4>2, GrowsFacts DEF Ended, Is
      <4>4. Joins(i, n)'
        BY <4>1, <4>2, <4>3 DEF Joins, RunAt
      <4>5. PICK m : /\ DOMAIN st'.records = DOMAIN st.records \cup {m}
                     /\ st'.records[m] = [start |-> i, done |-> n]
                     /\ \A k \in DOMAIN st.records : st'.records[k] = st.records[k]
        BY <4>1, ClosesFacts
      <4>6. \A j \in st'.pending : Is("Started", j)'
        BY <3>3, <4>1 DEF Closes, PlacesInv
      <4> QED
        BY <3>2, <3>4, <4>4, <4>5, <4>6 DEF PlacesInv
    <3> QED
      BY <3>1, <3>5, <3>6, <3>7 DEF Skipped, Repeated, TurnedAway
  <2>2. CASE Flush
    <3>1. PICK i \in st.pending :
            Closes(i, 0) /\ UNCHANGED events /\ st'.phase = "flush" /\ st.phase = "flush"
      BY <2>2, FlushShape
    <3>2. PICK m : /\ DOMAIN st'.records = DOMAIN st.records \cup {m}
                   /\ st'.records[m] = [start |-> i, done |-> 0]
                   /\ \A k \in DOMAIN st.records : st'.records[k] = st.records[k]
      BY <3>1, ClosesFacts
    <3> QED
      BY <3>1, <3>2 DEF Closes, PlacesInv, Joins, Is, Kept, RunAt
  <2>3. CASE EndOfLog \/ Finish \/ UNCHANGED vars
    BY <2>3, PhaseShape DEF PlacesInv, Joins, Keeps, Is, Kept, RunAt
  <2> QED
    BY <2>1, <2>2, <2>3 DEF Next
<1> QED
  BY <1>1, <1>2, AggregateTypesCorrect, PTL DEF Spec

\* What the builders know is in the log read before.
LEMMA OldPlaces ==
  ASSUME AggregateTypes, PlacesInv, NEW n, Grows(n)
  PROVE  /\ n \in Nat /\ n # 0
         /\ \A i \in st.pending : i \in 1..(n - 1) /\ events'[i].run = events[i].run
         /\ \A k \in DOMAIN st.records :
              /\ st.records[k].start \in 1..(n - 1)
              /\ events'[st.records[k].start].run = events[st.records[k].start].run
              /\ st.records[k].done \in 1..(n - 1)
         /\ \A kind, i : Is(kind, i) => i \in 1..(n - 1) /\ Is(kind, i)'
         /\ \A kind, i : Is(kind, i)' /\ i # n => i \in 1..(n - 1) /\ Is(kind, i)
<1>1. n \in Nat /\ n # 0 /\ st.phase = "read"
  BY DEF Grows
<1>2. \A kind, i : Is(kind, i) => i \in 1..(n - 1) /\ Is(kind, i)'
  BY GrowsFacts DEF Is
<1>3. \A kind, i : Is(kind, i)' /\ i # n => i \in 1..(n - 1) /\ Is(kind, i)
  <2>1. \A i \in 1..n : i # n => i \in 1..(n - 1)
    BY <1>1
  <2> QED
    BY <2>1, GrowsFacts DEF Is
<1>4. \A i \in st.pending : i \in 1..(n - 1)
  BY <1>2 DEF PlacesInv
<1>5. \A k \in DOMAIN st.records :
        st.records[k].start \in 1..(n - 1) /\ st.records[k].done \in 1..(n - 1)
  BY <1>1, <1>2 DEF PlacesInv, Joins
<1> QED
  BY <1>1, <1>2, <1>3, <1>4, <1>5 DEF Grows

LEMMA StartsInvCorrect == Spec => []StartsInv
<1>1. Init => StartsInv
  BY DEF Init, StartsInv, Is, Kept
<1>2. AggregateTypes /\ PlacesInv /\ StartsInv /\ [Next]_vars => StartsInv'
  <2> SUFFICES ASSUME AggregateTypes, PlacesInv, StartsInv, [Next]_vars PROVE StartsInv'
    OBVIOUS
  <2>1. CASE ReadEvent
    <3>1. PICK n : /\ Grows(n)
                   /\ \/ Skipped(n)
                      \/ /\ InWindow(events'[n])
                         /\ Repeated(n) \/ Opened(n) \/ Ended(n) \/ TurnedAway(n)
      BY <2>1, ReadEventShape
    <3>2. \A r : Known(r) => Known(r)'
      <4> SUFFICES ASSUME NEW r, Known(r) PROVE Known(r)'
        OBVIOUS
      <4>1. CASE Keeps
        BY <3>1, <4>1, OldPlaces DEF Keeps, Known, RunAt
      <4>2. CASE Opened(n)
        BY <3>1, <4>2, OldPlaces DEF Opened, Known, RunAt
      <4>3. CASE Ended(n)
        <5>1. PICK i \in st.pending : events'[i].run = events'[n].run /\ Closes(i, n)
          BY <4>3 DEF Ended
        <5>2. PICK m : /\ DOMAIN st'.records = DOMAIN st.records \cup {m}
                       /\ st'.records[m] = [start |-> i, done |-> n]
                       /\ \A k \in DOMAIN st.records : st'.records[k] = st.records[k]
          BY <5>1, ClosesFacts
        <5>3. CASE \E j \in st.pending : RunAt(j) = r
          BY <3>1, <5>1, <5>2, <5>3, OldPlaces DEF Closes, Known, RunAt
        <5>4. CASE \E k \in DOMAIN st.records : RunAt(st.records[k].start) = r
          BY <3>1, <5>2, <5>4, OldPlaces DEF Known, RunAt
        <5> QED
          BY <5>3, <5>4 DEF Known
      <4> QED
        BY <3>1, <4>1, <4>2, <4>3 DEF Skipped, Repeated, TurnedAway
    <3>3. ASSUME NEW i, Is("Started", i)', NEW r, r = events'[i].run PROVE Known(r)'
      <4>1. CASE i # n
        <5>1. Is("Started", i) /\ RunAt(i) = r
          BY <3>1, <3>3, <4>1, OldPlaces, GrowsFacts DEF RunAt
        <5> QED
          BY <3>1, <3>2, <5>1 DEF StartsInv, Grows
      <4>2. CASE i = n /\ Repeated(n)
        BY <3>1, <3>3, <4>2, OldPlaces DEF Repeated, Keeps, Known, RunAt
      <4>3. CASE i = n /\ Opened(n)
        BY <3>3, <4>3 DEF Opened, Known, RunAt
      <4> QED
        BY <3>1, <3>3, <4>1, <4>2, <4>3, GrowsFacts DEF Skipped, Ended, TurnedAway, Is
    <3> QED
      BY <3>3 DEF StartsInv, RunAt
  <2>2. CASE Flush
    BY <2>2, FlushShape DEF StartsInv
  <2>3. CASE EndOfLog \/ Finish \/ UNCHANGED vars
    BY <2>3, PhaseShape DEF StartsInv, Known, Keeps, Is, Kept, RunAt
  <2> QED
    BY <2>1, <2>2, <2>3 DEF Next
<1> QED
  BY <1>1, <1>2, AggregateTypesCorrect, PlacesInvCorrect, PTL DEF Spec

LEMMA WarningsInvCorrect == Spec => []WarningsInv
<1>1. Init => WarningsInv
  BY DEF Init, WarningsInv, Fresh
<1>2. AggregateTypes /\ PlacesInv /\ WarningsInv /\ [Next]_vars => WarningsInv'
  <2> SUFFICES ASSUME AggregateTypes, PlacesInv, WarningsInv, [Next]_vars PROVE WarningsInv'
    OBVIOUS
  <2>1. CASE ReadEvent
    <3>1. PICK n : /\ Grows(n)
                   /\ \/ Skipped(n)
                      \/ /\ InWindow(events'[n])
                         /\ Repeated(n) \/ Opened(n) \/ Ended(n) \/ TurnedAway(n)
      BY <2>1, ReadEventShape
    <3>2. st'.warnings = st.warnings \/ \E kind : Adds(kind, n)
      BY <3>1 DEF Skipped, Repeated, Opened, Ended, TurnedAway
    <3>3. n \in DOMAIN events' /\ DOMAIN events \subseteq DOMAIN events'
      BY <3>1 DEF Grows
    <3> QED
      BY <3>2, <3>3 DEF WarningsInv, Adds
  <2>2. CASE Flush
    <3>1. PICK i \in st.pending : UNCHANGED events /\ Adds("OrphanStarted", i)
      BY <2>2, FlushShape
    <3>2. i \in DOMAIN events
      BY DEF PlacesInv, Is, Kept
    <3> QED
      BY <3>1, <3>2 DEF WarningsInv, Adds
  <2>3. CASE EndOfLog \/ Finish \/ UNCHANGED vars
    BY <2>3, PhaseShape DEF WarningsInv
  <2> QED
    BY <2>1, <2>2, <2>3 DEF Next
<1> QED
  BY <1>1, <1>2, AggregateTypesCorrect, PlacesInvCorrect, PTL DEF Spec

\* Only an end that finds its run closed or unknown is turned away.
LEMMA WhoIsRefused ==
  ASSUME WarningsInv, NEW n, Grows(n),
         \/ Skipped(n) \/ Repeated(n) \/ Opened(n) \/ Ended(n) \/ TurnedAway(n)
  PROVE  /\ \A k, m : m # n => (m \in Noted(k)' <=> m \in Noted(k))
         /\ \A m : Refused(m)' /\ m # n => Refused(m)
         /\ Refused(n)' => TurnedAway(n)
<1>1. \A k : n \notin Noted(k)
  BY DEF Grows, WarningsInv, Noted
<1>2. ASSUME st'.warnings = st.warnings
      PROVE  \A k, m : m \in Noted(k)' <=> m \in Noted(k)
  BY <1>2 DEF Noted
<1>3. \A k, m : m # n => (m \in Noted(k)' <=> m \in Noted(k))
  BY <1>2, AddsFacts DEF Skipped, Repeated, Opened, Ended, TurnedAway
<1>4. CASE Repeated(n)
  <2>1. n \notin Noted("DuplicateCompleted")' /\ n \notin Noted("OrphanCompleted")'
    BY <1>1, <1>4, AddsFacts DEF Repeated
  <2> QED
    BY <1>3, <2>1 DEF Refused
<1>5. CASE st'.warnings = st.warnings
  BY <1>1, <1>2, <1>5 DEF Refused
<1> QED
  BY <1>3, <1>4, <1>5 DEF Refused, Skipped, Opened, Ended

LEMMA OpenInvCorrect == Spec => []OpenInv
<1>1. Init => OpenInv
  BY DEF Init, OpenInv, Fresh
<1>2. AggregateTypes /\ PlacesInv /\ WarningsInv /\ OpenInv /\ [Next]_vars => OpenInv'
  <2> SUFFICES ASSUME AggregateTypes, PlacesInv, WarningsInv, OpenInv, [Next]_vars
               PROVE  OpenInv'
    OBVIOUS
  <2>1. CASE ReadEvent
    <3>1. PICK n : /\ Grows(n)
                   /\ \/ Skipped(n)
                      \/ /\ InWindow(events'[n])
                         /\ Repeated(n) \/ Opened(n) \/ Ended(n) \/ TurnedAway(n)
      BY <2>1, ReadEventShape
    <3>2. n \in Nat /\ Len(events) + 1 = n /\ Len(events') + 1 = n + 1
      BY <3>1 DEF Grows
    <3>3. ASSUME NEW i \in 1..(n - 1), NEW e \in 0..n, Clean(i, e) PROVE Clean(i, e)'
      <4>1. \A m \in i..(e - 1) : m \in 1..(n - 1) /\ m # n
        BY <3>2
      <4>2. \A m \in i..(e - 1) :
              /\ events'[m].kind = events[m].kind /\ RunAt(m)' = RunAt(m)
              /\ Refused(m)' => Refused(m)
        BY <3>1, <4>1, GrowsFacts, WhoIsRefused
      <4>3. RunAt(i)' = RunAt(i)
        BY <3>1, GrowsFacts
      <4> QED
        BY <3>3, <4>2, <4>3 DEF Clean
    <3>4. ASSUME NEW i \in st.pending, NEW e, e = n + 1 PROVE Clean(i, e)'
      <4>1. i \in 1..(n - 1) /\ Clean(i, n)'
        BY <3>1, <3>2, <3>3, OldPlaces DEF OpenInv
      <4>2. ~(events'[n].kind = "Completed" /\ events'[n].run = events'[i].run /\ Refused(n)')
        BY <3>1, WhoIsRefused DEF TurnedAway
      <4>3. ASSUME NEW m \in i..(e - 1), events'[m].kind = "Completed", RunAt(m)' = RunAt(i)'
            PROVE  ~Refused(m)'
        <5>1. CASE m = n
          BY <4>2, <4>3, <5>1 DEF RunAt
        <5>2. CASE m \in i..(n - 1)
          BY <4>1, <4>3, <5>2 DEF Clean
        <5> QED
          BY <3>2, <3>4, <4>1, <5>1, <5>2
      <4> QED
        BY <3>4, <4>3 DEF Clean
    <3>5. ASSUME NEW k \in DOMAIN st.records
          PROVE  /\ st.records[k].done # 0
                 /\ \A i, d : i = st.records[k].start /\ d = st.records[k].done => Clean(i, d)'
      BY <3>1, <3>2, <3>3, OldPlaces DEF OpenInv
    <3>6. CASE Keeps
      BY <3>2, <3>4, <3>5, <3>6 DEF Keeps, OpenInv
    <3>7. CASE Opened(n)
      <4>1. Clean(n, n + 1)'
        BY <3>2, <3>7 DEF Clean, Opened
      <4> QED
        BY <3>2, <3>4, <3>5, <3>7, <4>1 DEF Opened, OpenInv
    <3>8. CASE Ended(n)
      <4>1. PICK i \in st.pending : Closes(i, n)
        BY <3>8 DEF Ended
      <4>2. PICK m : /\ DOMAIN st'.records = DOMAIN st.records \cup {m}
                     /\ st'.records[m] = [start |-> i, done |-> n]
                     /\ \A k \in DOMAIN st.records : st'.records[k] = st.records[k]
        BY <4>1, ClosesFacts
      <4>3. n # 0 /\ Clean(i, n)'
        BY <3>1, <3>2, <3>3, OldPlaces DEF OpenInv
      <4>4. \A j \in st'.pending : Clean(j, n + 1)'
        BY <3>4, <4>1 DEF Closes
      <4> QED
        BY <3>2, <3>5, <4>2, <4>3, <4>4 DEF OpenInv
    <3> QED
      BY <3>1, <3>6, <3>7, <3>8 DEF Skipped, Repeated, TurnedAway
  <2>2. CASE Flush
    <3>1. PICK i \in st.pending : UNCHANGED events /\ Closes(i, 0) /\ Adds("OrphanStarted", i)
      BY <2>2, FlushShape
    <3>2. PICK m : /\ DOMAIN st'.records = DOMAIN st.records \cup {m}
                   /\ st'.records[m] = [start |-> i, done |-> 0]
                   /\ \A k \in DOMAIN st.records : st'.records[k] = st.records[k]
      BY <3>1, ClosesFacts
    <3>3. \A j : Refused(j)' <=> Refused(j)
      BY <3>1, AddsFacts DEF Refused
    <3>4. \A j, e : Clean(j, e) => Clean(j, e)'
      BY <3>1, <3>3 DEF Clean, RunAt
    <3> QED
      BY <3>1, <3>2, <3>4 DEF OpenInv, Closes
  <2>3. CASE EndOfLog \/ Finish \/ UNCHANGED vars
    BY <2>3, PhaseShape DEF OpenInv, Clean, Refused, Noted, RunAt, Keeps
  <2> QED
    BY <2>1, <2>2, <2>3 DEF Next
<1> QED
  BY <1>1, <1>2, AggregateTypesCorrect, PlacesInvCorrect, WarningsInvCorrect, PTL DEF Spec

\* The first Completed that follows the start of a run closes it, whatever the
\* sessions and the order in which they are searched.
THEOREM ClosedByFirstCorrect == Spec => []ClosedByFirst
<1>1. AggregateTypes /\ PlacesInv /\ OpenInv => ClosedByFirst
  <2> SUFFICES ASSUME PlacesInv, OpenInv PROVE ClosedByFirst
    OBVIOUS
  <2>1. ASSUME NEW k \in DOMAIN st.records
        PROVE  /\ Joins(st.records[k].start, st.records[k].done)
               /\ Clean(st.records[k].start, IF st.records[k].done = 0 THEN Len(events) + 1
                                             ELSE st.records[k].done)
    BY DEF PlacesInv, OpenInv
  <2> QED
    BY <2>1 DEF ClosedByFirst, Joins, Clean, Refused, RunAt
<1> QED
  BY <1>1, AggregateTypesCorrect, PlacesInvCorrect, OpenInvCorrect, PTL

\* What is called an orphan has no start before it; what is called a duplicate end
\* comes after a start and an end of its run.
THEOREM OrphansAreOrphansCorrect == Spec => []OrphansAreOrphans
<1>1. Init => OrphansAreOrphans
  BY DEF Init, OrphansAreOrphans
<1>2. /\ AggregateTypes /\ PlacesInv /\ WarningsInv /\ StartsInv /\ OrphansAreOrphans
      /\ [Next]_vars
      => OrphansAreOrphans'
  <2> SUFFICES ASSUME AggregateTypes, PlacesInv, WarningsInv, StartsInv, OrphansAreOrphans,
                      [Next]_vars
               PROVE  OrphansAreOrphans'
    OBVIOUS
  <2> DEFINE Earlier(kind, n) == {i \in Kept : i < n /\ events[i].kind = kind
                                                   /\ events[i].run = events[n].run}
             Rightly(n) == /\ n \in Noted("OrphanCompleted") => Earlier("Started", n) = {}
                           /\ n \in Noted("DuplicateCompleted") =>
                                Earlier("Started", n) # {} /\ Earlier("Completed", n) # {}
  <2>0. \A n \in DOMAIN events : Rightly(n)
    BY DEF OrphansAreOrphans
  <2>1. CASE ReadEvent
    <3>1. PICK n : /\ Grows(n)
                   /\ \/ Skipped(n)
                      \/ /\ InWindow(events'[n])
                         /\ Repeated(n) \/ Opened(n) \/ Ended(n) \/ TurnedAway(n)
      BY <2>1, ReadEventShape
    <3>2. ASSUME NEW m \in 1..(n - 1) PROVE Rightly(m)'
      <4>1. m # n /\ m \in DOMAIN events /\ n \in Nat
        BY <3>1, <3>2 DEF Grows
      <4>2. \A k : m \in Noted(k)' <=> m \in Noted(k)
        BY <3>1, <4>1, WhoIsRefused
      <4>3. \A k, i : i \in Earlier(k, m)' <=> i \in Earlier(k, m)
        <5>1. ASSUME NEW i, i \in Kept \/ (i \in Kept' /\ i < m) PROVE i \in 1..(n - 1)
          BY <3>1, <4>1, <5>1, GrowsFacts
        <5>2. \A i \in 1..(n - 1) :
                /\ events'[i].kind = events[i].kind /\ events'[i].run = events[i].run
                /\ i \in Kept' <=> i \in Kept
          BY <3>1, GrowsFacts DEF Grows
        <5> QED
          BY <5>1, <5>2
      <4> QED
        BY <2>0, <4>1, <4>2, <4>3
    <3>3. Rightly(n)'
      <4>1. CASE ~Refused(n)'
        BY <4>1 DEF Refused
      <4>2. CASE Refused(n)'
        <5>1. TurnedAway(n) /\ st.phase = "read"
          BY <3>1, <4>2, WhoIsRefused DEF Grows
        <5>2. \A k : n \notin Noted(k)
          BY <3>1 DEF Grows, WarningsInv, Noted
        <5>3. CASE AlreadyCompleted(events', st, n) /\ Adds("DuplicateCompleted", n)
          <6>1. n \notin Noted("OrphanCompleted")'
            BY <5>2, <5>3, AddsFacts
          <6>2. PICK k \in DOMAIN st.records : events'[st.records[k].start].run = events'[n].run
            BY <5>3 DEF AlreadyCompleted
          <6>3. PICK i, d : i = st.records[k].start /\ d = st.records[k].done
            OBVIOUS
          <6>4. /\ Is("Started", i) /\ Is("Completed", d) /\ RunAt(i) = RunAt(d)
                /\ i \in 1..(n - 1) /\ d \in 1..(n - 1)
            BY <3>1, <5>1, <6>3, OldPlaces DEF PlacesInv, Joins
          <6>5. /\ Is("Started", i)' /\ Is("Completed", d)' /\ i < n /\ d < n
                /\ events'[i].run = events'[d].run
            BY <3>1, <6>4, OldPlaces, GrowsFacts DEF RunAt
          <6> QED
            BY <6>1, <6>2, <6>3, <6>5 DEF Is
        <5>4. CASE ~AlreadyCompleted(events', st, n) /\ Adds("OrphanCompleted", n)
          <6>1. n \notin Noted("DuplicateCompleted")'
            BY <5>2, <5>4, AddsFacts
          <6>2. ASSUME NEW i \in Earlier("Started", n)' PROVE FALSE
            <7>1. Is("Started", i)' /\ i # n /\ events'[i].run = events'[n].run
              BY <3>1, <6>2 DEF Is, Grows
            <7>2. Is("Started", i) /\ i \in 1..(n - 1)
              BY <3>1, <7>1, OldPlaces
            <7>3. Known(RunAt(i)) /\ RunAt(i) = events'[n].run
              BY <3>1, <5>1, <7>1, <7>2 DEF StartsInv, RunAt, Grows
            <7> QED
              BY <3>1, <5>1, <5>4, <7>3, OldPlaces DEF Known, TurnedAway, AlreadyCompleted, RunAt
          <6> QED
            BY <6>1, <6>2
        <5> QED
          BY <5>1, <5>3, <5>4 DEF TurnedAway
      <4> QED
        BY <4>1, <4>2
    <3> QED
      BY <3>1, <3>2, <3>3 DEF Grows, OrphansAreOrphans
  <2>2. CASE Flush
    <3>1. PICK i \in st.pending : UNCHANGED events /\ Adds("OrphanStarted", i)
      BY <2>2, FlushShape
    <3>2. \A k, n : k # "OrphanStarted" => (n \in Noted(k)' <=> n \in Noted(k))
      BY <3>1, AddsFacts
    <3> QED
      BY <3>1, <3>2 DEF OrphansAreOrphans, Kept
  <2>3. CASE EndOfLog \/ Finish \/ UNCHANGED vars
    BY <2>3, PhaseShape DEF OrphansAreOrphans, Noted, Kept, Keeps
  <2> QED
    BY <2>1, <2>2, <2>3 DEF Next
<1> QED
  BY <1>1, <1>2, AggregateTypesCorrect, PlacesInvCorrect, WarningsInvCorrect,
     StartsInvCorrect, PTL DEF Spec

-----------------------------------------------------------------------------
(* Each event once *)

Has(k, n) == n \in {st.records[k].start, st.records[k].done}

\* Every event in the window is an open start, or was turned away, or is in one
\* record: in exactly one of the three ways.
OnceInv ==
  /\ \A n \in Kept :
       /\ n \in st.pending \cup Rejected => \A k \in DOMAIN st.records : ~Has(k, n)
       /\ n \in st.pending => n \notin Rejected
       /\ n \notin st.pending \cup Rejected => \E k \in DOMAIN st.records : Has(k, n)
       /\ \A j, k \in DOMAIN st.records : Has(j, n) /\ Has(k, n) => j = k
  /\ st.phase = "done" => st.pending = {}

LEMMA OnceInvCorrect == Spec => []OnceInv
<1>1. Init => OnceInv
  BY DEF Init, OnceInv, Fresh, Kept
<1>2. AggregateTypes /\ PlacesInv /\ WarningsInv /\ OnceInv /\ [Next]_vars => OnceInv'
  <2> SUFFICES ASSUME AggregateTypes, PlacesInv, WarningsInv, OnceInv, [Next]_vars
               PROVE  OnceInv'
    OBVIOUS
  <2>1. CASE ReadEvent
    <3>1. PICK n : /\ Grows(n)
                   /\ \/ Skipped(n)
                      \/ /\ InWindow(events'[n])
                         /\ Repeated(n) \/ Opened(n) \/ Ended(n) \/ TurnedAway(n)
      BY <2>1, ReadEventShape
    <3>2. /\ n \in Nat /\ n # 0 /\ st'.phase # "done"
          /\ \A i \in st.pending : i # n
          /\ \A k \in DOMAIN st.records : ~Has(k, n)
          /\ \A m \in Kept' : m # n => m \in Kept
      <4>1. \A i \in 1..(n - 1) : i # n
        BY <3>1 DEF Grows
      <4>2. \A m \in Kept' : m # n => m \in Kept
        <5>1. \A m \in 1..n : m # n => m \in 1..(n - 1)
          BY <3>1 DEF Grows
        <5> QED
          BY <3>1, <5>1, GrowsFacts
      <4> QED
        BY <3>1, <4>1, <4>2, OldPlaces DEF Has, Grows
    <3>3. \A m : m # n => (m \in Rejected' <=> m \in Rejected)
      BY <3>1, WhoIsRefused DEF Rejected
    <3>4. \A k : n \notin Noted(k)
      BY <3>1 DEF Grows, WarningsInv, Noted
    <3>5. CASE Keeps /\ n \in Kept' /\ n \in Rejected'
      BY <3>2, <3>3, <3>5 DEF OnceInv, Keeps, Has
    <3>6. CASE Skipped(n)
      <4>1. n \notin Kept'
        BY <3>1, <3>6, GrowsFacts DEF Skipped
      <4> QED
        BY <3>2, <3>3, <3>6, <4>1 DEF OnceInv, Skipped, Keeps, Has
    <3>7. CASE Repeated(n) \/ TurnedAway(n)
      <4>1. n \in Rejected'
        BY <3>7, AddsFacts DEF Repeated, TurnedAway, Rejected
      <4>2. Keeps
        BY <3>7 DEF Repeated, TurnedAway
      <4> QED
        BY <3>2, <3>3, <4>1, <4>2 DEF OnceInv, Keeps, Has
    <3>8. CASE Opened(n)
      <4>1. n \notin Rejected'
        BY <3>4, <3>8 DEF Opened, Rejected, Noted
      <4> QED
        BY <3>2, <3>3, <3>8, <4>1 DEF OnceInv, Opened, Has
    <3>9. CASE Ended(n)
      <4>1. n \notin Rejected'
        BY <3>4, <3>9 DEF Ended, Rejected, Noted
      <4>2. PICK i \in st.pending : Closes(i, n)
        BY <3>9 DEF Ended
      <4>3. PICK m : /\ DOMAIN st'.records = DOMAIN st.records \cup {m} /\ m \notin DOMAIN st.records
                     /\ st'.records[m] = [start |-> i, done |-> n]
                     /\ \A k \in DOMAIN st.records : st'.records[k] = st.records[k]
        BY <4>2, ClosesFacts
      <4>4. /\ \A x : Has(m, x)' <=> x \in {i, n}
            /\ \A k \in DOMAIN st.records : \A x : Has(k, x)' <=> Has(k, x)
        BY <4>3 DEF Has
      <4>5. i \in Kept /\ i \notin Rejected /\ i # n /\ \A k \in DOMAIN st.records : ~Has(k, i)
        BY <3>2 DEF PlacesInv, Is, OnceInv
      <4> QED
        BY <3>2, <3>3, <4>1, <4>2, <4>3, <4>4, <4>5 DEF OnceInv, Closes
    <3> QED
      BY <3>1, <3>6, <3>7, <3>8, <3>9
  <2>2. CASE Flush
    <3>1. PICK i \in st.pending : /\ UNCHANGED events /\ st'.phase = "flush"
                                  /\ Closes(i, 0) /\ Adds("OrphanStarted", i)
      BY <2>2, FlushShape
    <3>2. PICK m : /\ DOMAIN st'.records = DOMAIN st.records \cup {m} /\ m \notin DOMAIN st.records
                   /\ st'.records[m] = [start |-> i, done |-> 0]
                   /\ \A k \in DOMAIN st.records : st'.records[k] = st.records[k]
      BY <3>1, ClosesFacts
    <3>3. \A n : n \in Rejected' <=> n \in Rejected
      BY <3>1, AddsFacts DEF Rejected
    <3>4. /\ \A x \in Kept : x # 0 /\ (Has(m, x)' <=> x = i)
          /\ \A k \in DOMAIN st.records : \A x : Has(k, x)' <=> Has(k, x)
      BY <3>2 DEF Has, Kept, AggregateTypes
    <3>5. i \in Kept /\ i \notin Rejected /\ \A k \in DOMAIN st.records : ~Has(k, i)
      BY DEF PlacesInv, Is, OnceInv
    <3>6. Kept' = Kept
      BY <3>1 DEF Kept
    <3> QED
      BY <3>1, <3>2, <3>3, <3>4, <3>5, <3>6 DEF OnceInv, Closes
  <2>3. CASE Finish
    BY <2>3, PhaseShape DEF OnceInv, Keeps, Has, Rejected, Noted, Kept, Finish
  <2>4. CASE EndOfLog \/ UNCHANGED vars
    <3>1. st'.phase = "done" => st.phase = "done"
      BY <2>4 DEF EndOfLog, vars, AggregateTypes, BuilderSet
    <3> QED
      BY <2>4, <3>1, PhaseShape DEF OnceInv, Keeps, Has, Rejected, Noted, Kept
  <2> QED
    BY <2>1, <2>2, <2>3, <2>4 DEF Next
<1> QED
  BY <1>1, <1>2, AggregateTypesCorrect, PlacesInvCorrect, WarningsInvCorrect, PTL DEF Spec

LEMMA UsesCounts ==
  ASSUME AggregateTypes, OnceInv, st.phase = "done", NEW n \in Kept
  PROVE  Uses(n) = (IF n \in Rejected THEN 0 ELSE 1)
<1> DEFINE In == {k \in DOMAIN st.records : n \in {st.records[k].start, st.records[k].done}}
<1>1. \A k : k \in In <=> k \in DOMAIN st.records /\ Has(k, n)
  BY DEF Has
<1>2. CASE n \in Rejected
  <2>1. In = {}
    BY <1>1, <1>2 DEF OnceInv
  <2> QED
    BY <1>2, <2>1, FS_EmptySet DEF Uses
<1>3. CASE n \notin Rejected
  <2>1. PICK k : k \in In
    BY <1>1, <1>3 DEF OnceInv
  <2>2. In = {k}
    BY <1>1, <2>1 DEF OnceInv
  <2>3. Cardinality({k}) = 1
    BY FS_Singleton
  <2> QED
    BY <1>3, <2>2, <2>3 DEF Uses
<1> QED
  BY <1>2, <1>3

\* A finite set of numbers can be sorted by timestamp and number: the place of
\* each is how many are before it.
LEMMA SortExists ==
  ASSUME NEW evs, NEW recs, NEW own, own \subseteq Nat, IsFiniteSet(own),
         \A k \in own : evs[recs[k].start].at \in Nat
  PROVE  \E f \in [1..Cardinality(own) -> own] :
           \A p, q \in DOMAIN f : p < q => Before(evs, recs, f[p], f[q])
<1> DEFINE c == Cardinality(own)
           lower(k) == {j \in own : Before(evs, recs, j, k)}
           rank == [k \in own |-> Cardinality(lower(k)) + 1]
<1>1. c \in Nat
  BY FS_CardinalityType
<1>2. /\ \A k \in own : ~Before(evs, recs, k, k)
      /\ \A j, k \in own : j # k => Before(evs, recs, j, k) \/ Before(evs, recs, k, j)
      /\ \A i, j, k \in own :
           Before(evs, recs, i, j) /\ Before(evs, recs, j, k) => Before(evs, recs, i, k)
  <2> DEFINE at(k) == evs[recs[k].start].at
  <2>1. \A k \in own : k \in Nat /\ at(k) \in Nat
    OBVIOUS
  <2>2. \A j, k : Before(evs, recs, j, k) <=> at(j) < at(k) \/ (at(j) = at(k) /\ j < k)
    BY DEF Before
  <2> HIDE DEF at
  <2>3. \A k \in own : ~Before(evs, recs, k, k)
    BY <2>1, <2>2
  <2>4. \A j, k \in own : j # k => Before(evs, recs, j, k) \/ Before(evs, recs, k, j)
    BY <2>1, <2>2
  <2>5. ASSUME NEW i \in own, NEW j \in own, NEW k \in own,
               Before(evs, recs, i, j), Before(evs, recs, j, k)
        PROVE  Before(evs, recs, i, k)
    BY <2>1, <2>2, <2>5
  <2> QED
    BY <2>3, <2>4, <2>5
<1>3. \A k \in own : /\ lower(k) \subseteq own /\ k \notin lower(k) /\ IsFiniteSet(lower(k))
                     /\ Cardinality(lower(k)) \in Nat
  <2> TAKE k \in own
  <2>1. lower(k) \in SUBSET own /\ k \notin lower(k)
    BY <1>2
  <2>2. IsFiniteSet(lower(k))
    BY <2>1, FS_Subset
  <2> QED
    BY <2>1, <2>2, FS_CardinalityType
<1>4. ASSUME NEW S, NEW T, T \subseteq S, NEW x \in S \ T, IsFiniteSet(S)
      PROVE  Cardinality(T) < Cardinality(S)
  <2>1. T # S /\ T \in SUBSET S
    BY <1>4
  <2>2. Cardinality(T) <= Cardinality(S) /\ Cardinality(T) # Cardinality(S) /\ IsFiniteSet(T)
    BY <1>4, <2>1, FS_Subset
  <2>3. Cardinality(T) \in Nat /\ Cardinality(S) \in Nat
    BY <1>4, <2>2, FS_CardinalityType
  <2> QED
    BY <2>2, <2>3
<1>5. rank \in [own -> 1..c]
  <2>1. ASSUME NEW k \in own PROVE Cardinality(lower(k)) + 1 \in 1..c
    BY <1>1, <1>3, <1>4
  <2> QED
    BY <2>1
<1>6. \A j, k \in own : Before(evs, recs, j, k) => rank[j] < rank[k]
  <2> SUFFICES ASSUME NEW j \in own, NEW k \in own, Before(evs, recs, j, k)
               PROVE  rank[j] < rank[k]
    OBVIOUS
  <2>1. lower(j) \subseteq lower(k) /\ j \in lower(k) \ lower(j)
    BY <1>2
  <2>2. Cardinality(lower(j)) < Cardinality(lower(k))
    BY <1>3, <1>4, <2>1
  <2> QED
    BY <1>3, <2>2
<1> HIDE DEF rank, lower
<1>7. \A j, k \in own : rank[j] \in Nat /\ (rank[j] = rank[k] => j = k)
  <2>1. \A k \in own : rank[k] \in Nat
    BY <1>1, <1>5
  <2>2. ASSUME NEW j \in own, NEW k \in own, j # k PROVE rank[j] # rank[k]
    <3>1. rank[j] < rank[k] \/ rank[k] < rank[j]
      BY <1>2, <1>6, <2>2
    <3> QED
      BY <2>1, <3>1
  <2> QED
    BY <2>1, <2>2
<1>8. rank \in Surjection(own, 1..c)
  <2>1. rank \in Injection(own, 1..c)
    BY <1>5, <1>7 DEF Injection, IsInjective
  <2>2. IsFiniteSet(1..c) /\ Cardinality(1..c) = c
    BY <1>1, FS_Interval
  <2> QED
    BY <2>1, <2>2, FS_Injection
<1> DEFINE f == [p \in 1..c |-> CHOOSE k \in own : rank[k] = p]
<1>9. \A p \in 1..c : f[p] \in own /\ rank[f[p]] = p
  BY <1>8 DEF Surjection
<1>10. f \in [1..c -> own]
  BY <1>9
<1> HIDE DEF f
<1>11. ASSUME NEW p \in 1..c, NEW q \in 1..c, p < q PROVE Before(evs, recs, f[p], f[q])
  <2>1. f[p] \in own /\ f[q] \in own /\ rank[f[p]] < rank[f[q]]
    BY <1>9, <1>11
  <2>2. ~(rank[f[q]] < rank[f[p]]) /\ f[p] # f[q]
    <3>1. rank[f[p]] \in Nat /\ rank[f[q]] \in Nat
      BY <1>7, <2>1
    <3> QED
      BY <2>1, <3>1
  <2> QED
    BY <1>2, <1>6, <2>1, <2>2
<1>12. DOMAIN f = 1..c
  BY <1>10
<1> QED
  BY <1>10, <1>11, <1>12

\* The records of a session are those of its own starts, sorted by timestamp.
LEMMA RecordsSorted ==
  ASSUME AggregateTypes, AggregateAssumption, PlacesInv, NEW s,
         NEW j \in DOMAIN RecordsOf(events, st, s), NEW k \in DOMAIN RecordsOf(events, st, s)
  PROVE  LET recs == RecordsOf(events, st, s)
         IN  /\ events[recs[j].start].session = s
             /\ j < k => events[recs[j].start].at <= events[recs[k].start].at
<1> DEFINE own == {i \in DOMAIN st.records : events[st.records[i].start].session = s}
           Sorts(f) == \A p, q \in DOMAIN f : p < q => Before(events, st.records, f[p], f[q])
           order == CHOOSE f \in [1..Cardinality(own) -> own] : Sorts(f)
<1>1. /\ own \subseteq Nat /\ IsFiniteSet(own)
      /\ \A i \in own : events[st.records[i].start].at \in Nat
  <2>1. DOMAIN st.records = 1..Len(st.records) /\ Len(st.records) \in Nat
    BY DEF AggregateTypes, BuilderSet
  <2>2. IsFiniteSet(1..Len(st.records))
    BY <2>1, FS_Interval
  <2>3. own \in SUBSET (1..Len(st.records))
    BY <2>1
  <2>4. ASSUME NEW i \in DOMAIN st.records PROVE events[st.records[i].start].at \in Nat
    <3>1. Is("Started", st.records[i].start)
      BY DEF PlacesInv, Joins
    <3>2. events[st.records[i].start] \in Event
      BY <3>1 DEF Is, Kept, AggregateTypes
    <3> QED
      BY <3>2, AggregateAssumption DEF Event, AggregateAssumption
  <2> QED
    BY <2>1, <2>2, <2>3, <2>4, FS_Subset
<1>2. \E f \in [1..Cardinality(own) -> own] : Sorts(f)
  BY <1>1, SortExists
<1>3. order \in [1..Cardinality(own) -> own] /\ Sorts(order)
  BY <1>2
<1>4. RecordsOf(events, st, s) = [p \in DOMAIN order |-> st.records[order[p]]]
  BY DEF RecordsOf
<1> HIDE DEF order
<1>5. j \in DOMAIN order /\ k \in DOMAIN order
  BY <1>4
<1>6. order[j] \in own /\ order[k] \in own /\ (j < k => Before(events, st.records, order[j], order[k]))
  BY <1>3, <1>5
<1> QED
  BY <1>1, <1>4, <1>5, <1>6 DEF Before

InOrderInv ==
  st.phase = "done" =>
    \A s \in Sessions : \A j, k \in DOMAIN result[s] :
      /\ events[result[s][j].start].session = s
      /\ j < k => events[result[s][j].start].at <= events[result[s][k].start].at

LEMMA InOrderInvCorrect == Spec => []InOrderInv
<1>1. Init => InOrderInv
  BY DEF Init, InOrderInv, Fresh
<1>2. AggregateTypes /\ PlacesInv /\ InOrderInv /\ [Next]_vars => InOrderInv'
  <2> SUFFICES ASSUME AggregateTypes, PlacesInv, InOrderInv, [Next]_vars, st'.phase = "done"
               PROVE  InOrderInv'
    BY DEF InOrderInv
  <2>1. CASE ReadEvent
    BY <2>1, ReadEventShape DEF Grows
  <2>2. CASE Flush
    BY <2>2, FlushShape
  <2>3. CASE EndOfLog
    BY <2>3 DEF EndOfLog, AggregateTypes, BuilderSet
  <2>4. CASE Finish
    <3>1. events' = events /\ \A s \in Sessions : result'[s] = RecordsOf(events, st, s)
      BY <2>4 DEF Finish
    <3> QED
      BY <3>1, RecordsSorted, AggregateAssumption DEF InOrderInv
  <2>5. CASE UNCHANGED vars
    BY <2>5 DEF InOrderInv, vars
  <2> QED
    BY <2>1, <2>2, <2>3, <2>4, <2>5 DEF Next
<1> QED
  BY <1>1, <1>2, AggregateTypesCorrect, PlacesInvCorrect, PTL DEF Spec

\* Every event in the window is accounted for once, and each session has the
\* records of its own runs in their order.
THEOREM EachEventOnceCorrect == Spec => []EachEventOnce
<1>1. AggregateTypes /\ OnceInv /\ InOrderInv => EachEventOnce
  BY UsesCounts DEF EachEventOnce, InOrderInv
<1> QED
  BY <1>1, AggregateTypesCorrect, OnceInvCorrect, InOrderInvCorrect, PTL
=============================================================================
