----------------------------- MODULE CaptureLimit -----------------------------
(***************************************************************************)
(* What run() does to the bytes of one stream: spawn_capture keeps at most *)
(* max of them without splitting a character, from_utf8_lossy makes a      *)
(* string of them, truncate_with_marker cuts that string                   *)
(* (o8v-process/src/capture.rs, format.rs, and run.rs steps 8 and 9).      *)
(*                                                                         *)
(* A byte is one of four kinds, enough for one- and two-byte characters    *)
(* and for every way of not being UTF-8: an ASCII character, the lead of a *)
(* two-byte character, a continuation byte, and a byte that never occurs.  *)
(***************************************************************************)
EXTENDS Naturals, Sequences, FiniteSetsExt

Kinds == {"ascii", "lead", "cont", "bad"}
\* String::from_utf8_lossy puts U+FFFD, three bytes, for what it cannot decode.
ReplacementWidth == 3

-----------------------------------------------------------------------------
(* capture.rs *)

\* Mutation for CaptureIsExact: the cut ignores character boundaries.
CutAnywhere(bytes, max) == Min({Len(bytes), max})

\* The last place at or before max that is not in front of a continuation byte.
FloorCharBoundary(bytes, max) ==
  IF max >= Len(bytes)
  THEN Len(bytes)
  ELSE Max({i \in 0..max : i = 0 \/ bytes[i + 1] # "cont"})

\* take(max + 1), and back to a boundary when that was one byte too many.
Capture(bytes, max) ==
  LET kept == SubSeq(bytes, 1, Min({Len(bytes), max + 1}))
      cut  == Len(kept) > max
  IN  [data |-> IF cut THEN SubSeq(kept, 1, FloorCharBoundary(kept, max)) ELSE kept,
       truncated |-> cut]

-----------------------------------------------------------------------------
(* run.rs and format.rs *)

Pair(bytes, i) ==
  /\ i >= 1 /\ i + 1 <= Len(bytes)
  /\ bytes[i] = "lead" /\ bytes[i + 1] = "cont"

\* The width in the string of what starts at each byte, 0 inside a character.
Widths(bytes) ==
  [i \in DOMAIN bytes |->
     IF bytes[i] = "ascii" THEN 1
     ELSE IF Pair(bytes, i) THEN 2
     ELSE IF Pair(bytes, i - 1) THEN 0
     ELSE ReplacementWidth]

FromUtf8Lossy(bytes) ==
  LET width == Widths(bytes)
      chars[n \in 0..Len(bytes)] ==
        IF n = 0 THEN <<>> ELSE IF width[n] = 0 THEN chars[n - 1] ELSE Append(chars[n - 1], width[n])
  IN  chars[Len(bytes)]

StringLen(chars) ==
  LET len[n \in 0..Len(chars)] == IF n = 0 THEN 0 ELSE len[n - 1] + chars[n]
  IN  len[Len(chars)]

\* s.truncate(s.floor_char_boundary(max_bytes)): whole characters, up to max bytes.
TruncateWithMarker(chars, max) ==
  IF StringLen(chars) > max
  THEN SubSeq(chars, 1, Max({k \in 0..Len(chars) : StringLen(SubSeq(chars, 1, k)) <= max}))
  ELSE chars

\* stdout and stdout_truncated: "||" skips the second truncation after the first.
Captured(bytes, max) ==
  LET c == Capture(bytes, max)
      s == FromUtf8Lossy(c.data)
  IN  [data      |-> c.data,
       string    |-> IF c.truncated THEN s ELSE TruncateWithMarker(s, max),
       truncated |-> c.truncated \/ StringLen(s) > max]

-----------------------------------------------------------------------------
ValidUtf8(bytes) ==
  \A i \in DOMAIN bytes :
    /\ bytes[i] = "lead" => Pair(bytes, i)
    /\ bytes[i] = "cont" => Pair(bytes, i - 1)
    /\ bytes[i] # "bad"
=============================================================================
