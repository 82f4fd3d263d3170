------------------------------ MODULE WriteText ------------------------------
(***************************************************************************)
(* What `8v write` makes of its arguments and of the text of a file        *)
(* (o8v/src/commands/write.rs), and the line endings it relies on          *)
(* (o8v-fs/src/lib.rs, o8v-fs/src/write_guard.rs).                         *)
(*                                                                         *)
(* A text is a sequence of characters.  Only those the code looks at are   *)
(* told apart: "LF", "CR", the backslash "BS", the "n" of an escape; all   *)
(* others are letters.                                                     *)
(***************************************************************************)
EXTENDS Integers, Sequences, SequencesExt, FiniteSetsExt

-----------------------------------------------------------------------------
(* Line endings *)

HasCRLF(t) == \E i \in 1 .. Len(t) - 1 : t[i] = "CR" /\ t[i + 1] = "LF"
LoneCR(t) == \E i \in DOMAIN t : t[i] = "CR" /\ (i = Len(t) \/ t[i + 1] # "LF")
BareLF(t) == \E i \in DOMAIN t : t[i] = "LF" /\ (i = 1 \/ t[i - 1] # "CR")

\* validate_line_endings_bytes
ValidEndings(t) == ~LoneCR(t) /\ ~(HasCRLF(t) /\ BareLF(t))

Ending(t) == IF HasCRLF(t) THEN <<"CR", "LF">> ELSE <<"LF">>
HasCR(t) == Contains(t, "CR")
Terminated(t) == t # <<>> /\ Last(t) = "LF"

-----------------------------------------------------------------------------
(* Lines *)

WithNext(pieces, c) ==
  IF c = "LF" THEN Append(pieces, <<>>)
  ELSE [pieces EXCEPT ![Len(pieces)] = Append(@, c)]

\* str::split('\n'): there is always one piece more than there are LFs.
SplitAtLF(t) ==
  LET pieces[n \in 0..Len(t)] ==
        IF n = 0 THEN << <<>> >> ELSE WithNext(pieces[n - 1], t[n])
  IN  pieces[Len(t)]

WithoutCR(piece) ==
  IF piece # <<>> /\ Last(piece) = "CR" THEN Front(piece) ELSE piece

\* The last piece of a terminated text is not a line; both arms of split_lines
\* agree on a text with valid endings.
SplitLines(t) ==
  LET pieces == [i \in DOMAIN SplitAtLF(t) |-> WithoutCR(SplitAtLF(t)[i])]
  IN  IF t = <<>> \/ Terminated(t) THEN Front(pieces) ELSE pieces

JoinLines(lines, ending, trailing) ==
  LET Joined == [i \in DOMAIN lines |->
                   IF i < Len(lines) \/ trailing THEN lines[i] \o ending ELSE lines[i]]
  IN  FlattenSeq(Joined)

\* Mutation for LineEditIsExact: the trailing LF begins a line.
ContentPieces(c) == SplitAtLF(c)

\* A trailing LF ends the last line of the content, it does not begin another.
ContentToLines(c) == SplitAtLF(IF Terminated(c) THEN Front(c) ELSE c)

-----------------------------------------------------------------------------
(* Arguments *)

Unescaped(st, c) ==
  LET out == IF st.escape THEN Append(st.out, "BS") ELSE st.out
  IN  IF st.escape /\ c = "n" THEN [out |-> Append(st.out, "LF"), escape |-> FALSE]
      ELSE IF st.escape /\ c = "BS" THEN [out |-> Append(st.out, "BS"), escape |-> FALSE]
      ELSE [out |-> IF c = "BS" THEN out ELSE Append(out, c), escape |-> c = "BS"]

\* \n becomes a line ending, \\ a backslash; any other backslash stays.
Unescape(s) ==
  LET state[n \in 0..Len(s)] ==
        IF n = 0 THEN [out |-> <<>>, escape |-> FALSE] ELSE Unescaped(state[n - 1], s[n])
      end == state[Len(s)]
  IN  IF end.escape THEN Append(end.out, "BS") ELSE end.out

NaN == -1     \* what does not parse as a number
NoRange == <<>>
Refused == [kind |-> "refused"]

\* The part after the last colon: none, a number, or two around a dash.
\* A path may have a colon of its own, so one number that does not parse is
\* part of the path; with a dash it is an error.
ParsePathLine(suffix) ==
  CASE suffix = <<>> -> [ok |-> TRUE, range |-> NoRange]
    [] Len(suffix) = 2 ->
         [ok |-> NaN \notin ToSet(suffix) /\ 0 \notin ToSet(suffix) /\ suffix[1] <= suffix[2],
          range |-> suffix]
    [] suffix = <<NaN>> -> [ok |-> TRUE, range |-> NoRange]
    [] OTHER -> [ok |-> suffix # <<0>>, range |-> suffix \o suffix]

\* validate_args.  flags: which of insert, delete, append, force, all were given;
\* find, replace and content are sequences of at most one text.
ValidateArgs(a) ==
  LET where == ParsePathLine(a.suffix)
      ranged == where.range # NoRange
      modes == (a.flags \cap {"insert", "delete", "append", "force"})
                 \cup (IF a.find # <<>> THEN {"find"} ELSE {})
      text == Unescape(a.content[1])
  IN  IF ~where.ok \/ \E m, n \in modes : m # n THEN Refused
      ELSE IF a.find # <<>> \/ a.replace # <<>> THEN
        IF a.find = <<>> \/ a.replace = <<>> \/ ranged \/ a.find[1] = <<>> THEN Refused
        ELSE [kind |-> "find", find |-> Unescape(a.find[1]),
              with |-> Unescape(a.replace[1]), all |-> "all" \in a.flags]
      ELSE IF "delete" \in modes THEN
        IF ~ranged \/ a.content # <<>> THEN Refused
        ELSE [kind |-> "delete", range |-> where.range]
      ELSE IF a.content = <<>> THEN Refused
      ELSE IF "append" \in modes THEN
        IF ranged \/ text = <<>> THEN Refused ELSE [kind |-> "append", content |-> text]
      ELSE IF "insert" \in modes THEN
        IF ~ranged \/ text = <<>> THEN Refused
        ELSE [kind |-> "insert", range |-> where.range, content |-> text]
      ELSE IF ranged THEN
        IF text = <<>> THEN Refused
        ELSE [kind |-> "replace", range |-> where.range, content |-> text]
      ELSE [kind |-> "create", content |-> a.content[1], force |-> "force" \in a.flags]

-----------------------------------------------------------------------------
(* Edits: from the text that was read to the text that is written *)

Failed == [ok |-> FALSE]
Text(t) == [ok |-> TRUE, text |-> t]

\* The three edits of lines differ in the range they take and in what they allow.
EditLines(op, t, first, last, new) ==
  LET lines == SplitLines(t)
  IN  IF ~ValidEndings(t) \/ last > Len(lines) \/ HasCR(new)
      THEN Failed
      ELSE Text(JoinLines(SubSeq(lines, 1, first - 1)
                            \o (IF op = "delete" THEN <<>> ELSE ContentToLines(new))
                            \o SubSeq(lines, last + 1, Len(lines)),
                          Ending(t), Terminated(t)))

ReplaceRange(op, t) == EditLines("replace", t, op.range[1], op.range[2], op.content)
InsertBefore(op, t) == EditLines("insert", t, op.range[1], op.range[1] - 1, op.content)
DeleteLines(op, t)  == EditLines("delete", t, op.range[1], op.range[2], <<>>)

WithMatch(found, t, f, i) ==
  IF /\ IsPrefix(f, SubSeq(t, i, Len(t)))
     /\ found = <<>> \/ Last(found) + Len(f) <= i
  THEN Append(found, i) ELSE found

\* Where the occurrences of f begin: leftmost first, none overlaps the one before.
Matches(t, f) ==
  LET found[n \in 0..Len(t)] ==
        IF n = 0 THEN <<>> ELSE WithMatch(found[n - 1], t, f, n)
  IN  found[Len(t)]

\* str::replace: what is not part of an occurrence stays.
ReplaceMatches(t, len, found, new) ==
  FlattenSeq([i \in DOMAIN t |->
    IF i \in ToSet(found) THEN new
    ELSE IF \E m \in ToSet(found) : m < i /\ i < m + len THEN <<>>
    ELSE <<t[i]>>])

\* Mutation for EditsKeepEndings: the arguments are taken as they are.
AsGiven(s, t) == s

\* The file's ending stands for an LF of the arguments.
InEnding(s, t) ==
  IF HasCRLF(t) THEN FlattenSeq([i \in DOMAIN s |->
                        IF s[i] = "LF" THEN Ending(t) ELSE <<s[i]>>])
  ELSE s

FindReplace(op, t) ==
  LET f == InEnding(op.find, t)
      found == Matches(t, f)
  IN  IF \/ HasCR(op.find) \/ HasCR(op.with) \/ ~ValidEndings(t)
         \/ found = <<>> \/ (~op.all /\ Len(found) > 1)
      THEN Failed
      ELSE Text(ReplaceMatches(t, Len(f), found, InEnding(op.with, t)))

Edit(op, t) ==
  CASE op.kind = "replace" -> ReplaceRange(op, t)
    [] op.kind = "insert"  -> InsertBefore(op, t)
    [] op.kind = "delete"  -> DeleteLines(op, t)
    [] op.kind = "find"    -> FindReplace(op, t)

-----------------------------------------------------------------------------
(* guarded_append_with_separator: its three writes *)

Separator(t) == IF t = <<>> \/ Terminated(t) THEN <<>> ELSE Ending(t)

\* In a CRLF file each LF of the content that has no CR before it gets one.
Normalised(c, t) ==
  IF HasCRLF(t)
  THEN FlattenSeq([i \in DOMAIN c |->
         IF c[i] = "LF" /\ (i = 1 \/ c[i - 1] # "CR") THEN <<"CR", "LF">> ELSE <<c[i]>>])
  ELSE c

Terminator(c, t) == IF Terminated(c) THEN <<>> ELSE Ending(t)

AppendText(c, t) == t \o Separator(t) \o Normalised(c, t) \o Terminator(c, t)
=============================================================================
