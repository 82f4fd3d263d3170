----------------------------- MODULE CallsProofs -----------------------------
(***************************************************************************)
(* What two of the pure components answer, for every input that Calls      *)
(* makes of its constants, however large: what run() keeps of a stream     *)
(* (CaptureIsExact) and what the commit-msg hook leaves of a message       *)
(* (CommitMessageKept). FilesProofs goes on with the files.                *)
(*                                                                         *)
(* Texts are gone through element by element: inductions, carried out on   *)
(* the set of the lengths for which a fact holds (`SetInduction`), since a *)
(* predicate cannot be a parameter here.                                   *)
(***************************************************************************)
EXTENDS Calls, FiniteSetTheorems, WellFoundedInduction, SequenceTheorems, TLAPS

\* Induction over the natural numbers, for a set instead of a predicate.
LEMMA SetInduction ==
  ASSUME NEW S, 0 \in S, \A n \in Nat : n \in S => n + 1 \in S
  PROVE  Nat \subseteq S
<1> SUFFICES ASSUME Nat \ S # {} PROVE FALSE
  OBVIOUS
<1>1. PICK m \in Nat \ S : \A n \in Nat \ S : ~(<<n, m>> \in OpToRel(<, Nat))
  <2> HIDE DEF OpToRel
  <2> QED
    BY WFMin, NatLessThanWellFounded
<1>2. \A n \in Nat \ S : ~(n < m)
  BY <1>1 DEF OpToRel
<1>3. m # 0 /\ m - 1 \in Nat /\ m - 1 < m /\ (m - 1) + 1 = m
  OBVIOUS
<1> QED
  BY <1>2, <1>3

-----------------------------------------------------------------------------
(* The calls *)

\* The call that was made, by its name.
NamedAs(name) ==
  /\ name = "collect" => CollectOutput
  /\ name = "read" => ReadFile
  /\ name = "write" => WriteFile
  /\ name = "look" => ListPath
  /\ name = "scan" => ScanAndRead
  /\ name = "server" => AskServer
  /\ name = "message" => RewriteMessage

\* An action of Call makes the call that it is named for.
LEMMA CallNames ==
  ASSUME Call
  PROVE  NamedAs(call'.name)
<1>0. \A name, input, output : Answer(name, input, output) => call'.name = name
  BY DEF Answer
<1>1. ASSUME CollectOutput PROVE NamedAs(call'.name)
  <2>1. call'.name = "collect"
    BY <1>1, <1>0, Zenon DEF CollectOutput
  <2> QED
    BY <1>1, <2>1 DEF NamedAs
<1>2. ASSUME ReadFile PROVE NamedAs(call'.name)
  <2>1. call'.name = "read"
    BY <1>2, <1>0, Zenon DEF ReadFile
  <2> QED
    BY <1>2, <2>1 DEF NamedAs
<1>3. ASSUME WriteFile PROVE NamedAs(call'.name)
  <2>1. call'.name = "write"
    BY <1>3, <1>0, Zenon DEF WriteFile
  <2> QED
    BY <1>3, <2>1 DEF NamedAs
<1>4. ASSUME ListPath PROVE NamedAs(call'.name)
  <2>1. call'.name = "look"
    BY <1>4, <1>0, Zenon DEF ListPath
  <2> QED
    BY <1>4, <2>1 DEF NamedAs
<1>5. ASSUME ReadSeveral PROVE NamedAs(call'.name)
  <2>1. call'.name = "read report"
    BY <1>5, <1>0, Zenon DEF ReadSeveral
  <2> QED
    BY <1>5, <2>1 DEF NamedAs
<1>6. ASSUME ScanAndRead PROVE NamedAs(call'.name)
  <2>1. call'.name = "scan"
    BY <1>6, <1>0, Zenon DEF ScanAndRead
  <2> QED
    BY <1>6, <2>1 DEF NamedAs
<1>7. ASSUME AskServer PROVE NamedAs(call'.name)
  <2>1. call'.name = "server"
    BY <1>7, <1>0, Zenon DEF AskServer
  <2> QED
    BY <1>7, <2>1 DEF NamedAs
<1>8. ASSUME RewriteMessage PROVE NamedAs(call'.name)
  <2>1. call'.name = "message"
    BY <1>8, <1>0, Zenon DEF RewriteMessage
  <2> QED
    BY <1>8, <2>1 DEF NamedAs
<1>9. ASSUME Search PROVE NamedAs(call'.name)
  <2>1. call'.name = "search"
    BY <1>9, <1>0, Zenon DEF Search
  <2> QED
    BY <1>9, <2>1 DEF NamedAs
<1>10. ASSUME List PROVE NamedAs(call'.name)
  <2>1. call'.name = "list"
    BY <1>10, <1>0, Zenon DEF List
  <2> QED
    BY <1>10, <2>1 DEF NamedAs
<1>11. ASSUME DetectNode PROVE NamedAs(call'.name)
  <2>1. call'.name = "node"
    BY <1>11, <1>0, Zenon DEF DetectNode
  <2> QED
    BY <1>11, <2>1 DEF NamedAs
<1>12. ASSUME DetectStacks PROVE NamedAs(call'.name)
  <2>1. call'.name = "stacks"
    BY <1>12, <1>0, Zenon DEF DetectStacks
  <2> QED
    BY <1>12, <2>1 DEF NamedAs
<1>13. ASSUME DetectTree PROVE NamedAs(call'.name)
  <2>1. call'.name = "tree"
    BY <1>13, <1>0, Zenon DEF DetectTree
  <2> QED
    BY <1>13, <2>1 DEF NamedAs
<1>14. ASSUME StripJsonc PROVE NamedAs(call'.name)
  <2>1. call'.name = "jsonc"
    BY <1>14, <1>0, Zenon DEF StripJsonc
  <2> QED
    BY <1>14, <2>1 DEF NamedAs
<1>15. ASSUME ParseCargo PROVE NamedAs(call'.name)
  <2>1. call'.name = "cargo"
    BY <1>15, <1>0, Zenon DEF ParseCargo
  <2> QED
    BY <1>15, <2>1 DEF NamedAs
<1>16. ASSUME ParseDocument PROVE NamedAs(call'.name)
  <2>1. call'.name = "document"
    BY <1>16, <1>0 DEF ParseDocument
  <2> QED
    BY <1>16, <2>1 DEF NamedAs
<1>17. ASSUME ParseText PROVE NamedAs(call'.name)
  <2>1. call'.name = "text"
    BY <1>17, SMTT(30) DEF Answer, ParseText
  <2> QED
    BY <1>17, <2>1 DEF NamedAs
<1>18. ASSUME ReportCheck PROVE NamedAs(call'.name)
  <2>1. call'.name = "check report"
    BY <1>18, <1>0, Zenon DEF ReportCheck
  <2> QED
    BY <1>18, <2>1 DEF NamedAs
<1>19. ASSUME UseTool PROVE NamedAs(call'.name)
  <2>1. call'.name = "tool"
    BY <1>19, <1>0, Zenon DEF UseTool
  <2> QED
    BY <1>19, <2>1 DEF NamedAs
<1>20. ASSUME FormatProjects PROVE NamedAs(call'.name)
  <2>1. call'.name \in {"fmt report", "no report"}
    BY <1>20, <1>0, Zenon DEF FormatProjects
  <2> QED
    BY <1>20, <2>1 DEF NamedAs
<1>21. ASSUME RunProject PROVE NamedAs(call'.name)
  <2>1. call'.name = "run report"
    BY <1>21, <1>0, Zenon DEF RunProject
  <2> QED
    BY <1>21, <2>1 DEF NamedAs
<1>22. ASSUME ShowPage PROVE NamedAs(call'.name)
  <2>1. call'.name = "page"
    BY <1>22, <1>0, Zenon DEF ShowPage
  <2> QED
    BY <1>22, <2>1 DEF NamedAs
<1>23. ASSUME ShowDiagnostics PROVE NamedAs(call'.name)
  <2>1. call'.name = "diagnostics"
    BY <1>23, <1>0, Zenon DEF ShowDiagnostics
  <2> QED
    BY <1>23, <2>1 DEF NamedAs
<1>24. ASSUME ShowPercentile PROVE NamedAs(call'.name)
  <2>1. call'.name = "percentile"
    BY <1>24, SMTT(30) DEF Answer, ShowPercentile
  <2> QED
    BY <1>24, <2>1 DEF NamedAs
<1>25. ASSUME ShowText PROVE NamedAs(call'.name)
  <2>1. call'.name = "text shown"
    BY <1>25, <1>0, Zenon DEF ShowText
  <2> QED
    BY <1>25, <2>1 DEF NamedAs
<1>26. ASSUME ShapeArguments PROVE NamedAs(call'.name)
  <2>1. call'.name = "argv"
    BY <1>26, <1>0, Zenon DEF ShapeArguments
  <2> QED
    BY <1>26, <2>1 DEF NamedAs
<1> QED
  BY <1>1, <1>2, <1>3, <1>4, <1>5, <1>6, <1>7, <1>8, <1>9, <1>10, <1>11, <1>12, <1>13,
     <1>14, <1>15, <1>16, <1>17, <1>18, <1>19, <1>20, <1>21, <1>22, <1>23, <1>24, <1>25, <1>26,
     Zenon DEF Call

\* A step of the specification makes a call or leaves the last one.
LEMMA CallSteps == [CallNext]_callVars => Call \/ call' = call
  BY DEF CallNext, callVars

\* The bounded sequences are sequences.
LEMMA SeqsAreSeqs ==
  ASSUME NEW S, NEW n \in Nat, NEW s \in SeqsUpTo(S, n)
  PROVE  s \in Seq(S)
<1>1. PICK k \in 0..n : s \in [1..k -> S]
  BY DEF SeqsUpTo
<1> QED
  BY <1>1

-----------------------------------------------------------------------------
(* Captured output *)

\* `len` has the sums of the first n widths.
IsSum(len, chars, n) ==
  len = [k \in 0..n |-> IF k = 0 THEN 0 ELSE len[k - 1] + chars[k]]

\* There are such sums.
LEMMA SumExists ==
  ASSUME NEW chars
  PROVE  \A n \in Nat : \E len : IsSum(len, chars, n)
<1> DEFINE Good == {n \in Nat : \E len : IsSum(len, chars, n)}
<1>1. 0 \in Good
  <2> DEFINE start == [k \in 0..0 |-> 0]
  <2>1. IsSum(start, chars, 0)
    BY DEF IsSum
  <2> QED
    BY <2>1
<1>2. ASSUME NEW n \in Nat, n \in Good
      PROVE  n + 1 \in Good
  <2>1. PICK len : IsSum(len, chars, n)
    BY <1>2
  <2> DEFINE next == [k \in 0..(n + 1) |-> IF k = n + 1 THEN len[n] + chars[n + 1] ELSE len[k]]
  <2>2. \A k \in 0..n : next[k] = len[k]
    OBVIOUS
  <2>3. \A k \in 0..n : len[k] = IF k = 0 THEN 0 ELSE len[k - 1] + chars[k]
    BY <2>1 DEF IsSum
  <2>4. ASSUME NEW k \in 0..(n + 1)
        PROVE  next[k] = IF k = 0 THEN 0 ELSE next[k - 1] + chars[k]
    <3>1. CASE k = n + 1
      BY <3>1, <2>2
    <3>2. CASE k \in 0..n
      <4>1. k = 0 \/ next[k - 1] = len[k - 1]
        BY <3>2, <2>2
      <4> HIDE DEF next
      <4> QED
        BY <3>2, <2>2, <2>3, <4>1
    <3> QED
      BY <3>1, <3>2
  <2>5. IsSum(next, chars, n + 1)
    BY <2>4 DEF IsSum
  <2> QED
    BY <2>5
<1> HIDE DEF Good
<1>3. Nat \subseteq Good
  BY <1>1, <1>2, SetInduction
<1> QED
  BY <1>3 DEF Good

\* The length of a string is the sum of the widths of all its characters.
LEMMA StringLenIsSum ==
  ASSUME NEW chars, Len(chars) \in Nat
  PROVE  \E len : IsSum(len, chars, Len(chars)) /\ Capture!StringLen(chars) = len[Len(chars)]
<1> DEFINE sum == CHOOSE len : IsSum(len, chars, Len(chars))
<1>1. IsSum(sum, chars, Len(chars))
  BY SumExists
<1>2. Capture!StringLen(chars) = sum[Len(chars)]
  BY DEF Capture!StringLen, IsSum
<1> QED
  BY <1>1, <1>2

\* Nothing is of length 0, and one more character adds its width.
LEMMA StringLenGrows ==
  /\ Capture!StringLen(<<>>) = 0
  /\ \A s \in Seq(Nat) : Capture!StringLen(s) \in Nat
  /\ \A s \in Seq(Nat), w \in Nat : Capture!StringLen(Append(s, w)) = Capture!StringLen(s) + w
<1>1. Capture!StringLen(<<>>) = 0
  <2>1. PICK len : IsSum(len, <<>>, Len(<<>>)) /\ Capture!StringLen(<<>>) = len[Len(<<>>)]
    BY StringLenIsSum
  <2> QED
    BY <2>1 DEF IsSum
<1>2. ASSUME NEW s \in Seq(Nat), NEW f, IsSum(f, s, Len(s))
      PROVE  \A k \in Nat : k \in 0..Len(s) => f[k] \in Nat
  <2> DEFINE Good == {k \in Nat : k \in 0..Len(s) => f[k] \in Nat}
  <2>1. \A k \in 0..Len(s) : f[k] = IF k = 0 THEN 0 ELSE f[k - 1] + s[k]
    BY <1>2 DEF IsSum
  <2>2. 0 \in Good
    BY <2>1
  <2>3. ASSUME NEW k \in Nat, k \in Good
        PROVE  k + 1 \in Good
    <3>1. CASE k + 1 \in 0..Len(s)
      <4>1. k \in 0..Len(s) /\ k + 1 \in 1..Len(s) /\ k + 1 # 0 /\ (k + 1) - 1 = k
        BY <3>1
      <4>2. f[k + 1] = f[k] + s[k + 1] /\ s[k + 1] \in Nat /\ f[k] \in Nat
        BY <2>1, <2>3, <4>1
      <4> QED
        BY <4>2
    <3> QED
      BY <3>1
  <2> HIDE DEF Good
  <2>4. Nat \subseteq Good
    BY <2>2, <2>3, SetInduction
  <2> QED
    BY <2>4 DEF Good
<1>3. ASSUME NEW s \in Seq(Nat)
      PROVE  Capture!StringLen(s) \in Nat
  <2>1. PICK f : IsSum(f, s, Len(s)) /\ Capture!StringLen(s) = f[Len(s)]
    BY StringLenIsSum
  <2> QED
    BY <2>1, <1>2
<1>4. ASSUME NEW s \in Seq(Nat), NEW w \in Nat
      PROVE  Capture!StringLen(Append(s, w)) = Capture!StringLen(s) + w
  <2>1. PICK t : t = Append(s, w)
    OBVIOUS
  <2>2. t \in Seq(Nat) /\ Len(t) = Len(s) + 1 /\ t[Len(s) + 1] = w /\ \A k \in 1..Len(s) : t[k] = s[k]
    BY <2>1
  <2>3. PICK f : IsSum(f, s, Len(s)) /\ Capture!StringLen(s) = f[Len(s)]
    BY StringLenIsSum
  <2>4. PICK g : IsSum(g, t, Len(t)) /\ Capture!StringLen(t) = g[Len(t)]
    BY <2>2, StringLenIsSum
  <2>5. \A k \in 0..Len(s) : f[k] = IF k = 0 THEN 0 ELSE f[k - 1] + s[k]
    BY <2>3 DEF IsSum
  <2>6. \A k \in 0..(Len(s) + 1) : g[k] = IF k = 0 THEN 0 ELSE g[k - 1] + t[k]
    BY <2>2, <2>4 DEF IsSum
  <2> DEFINE Same == {k \in Nat : k \in 0..Len(s) => f[k] = g[k]}
  <2>7. 0 \in Same
    BY <2>5, <2>6
  <2>8. ASSUME NEW k \in Nat, k \in Same
        PROVE  k + 1 \in Same
    <3>1. CASE k + 1 \in 0..Len(s)
      <4>1. k \in 0..Len(s) /\ k + 1 \in 1..Len(s) /\ k + 1 \in 0..(Len(s) + 1) /\ k + 1 # 0 /\ (k + 1) - 1 = k
        BY <3>1
      <4>2. f[k + 1] = f[k] + s[k + 1] /\ g[k + 1] = g[k] + t[k + 1] /\ s[k + 1] = t[k + 1] /\ f[k] = g[k]
        BY <2>2, <2>5, <2>6, <2>8, <4>1
      <4> QED
        BY <4>2
    <3> QED
      BY <3>1
  <2> HIDE DEF Same
  <2>9. Nat \subseteq Same
    BY <2>7, <2>8, SetInduction
  <2>10. f[Len(s)] = g[Len(s)]
    BY <2>9 DEF Same
  <2>11. g[Len(s) + 1] = g[Len(s)] + w
    BY <2>2, <2>6
  <2> QED
    BY <2>1, <2>2, <2>3, <2>4, <2>10, <2>11
<1> QED
  BY <1>1, <1>3, <1>4

\* `chars` has the strings that the first n bytes decode to, by their widths.
IsDecoding(chars, width, n) ==
  chars = [k \in 0..n |-> IF k = 0 THEN <<>> ELSE IF width[k] = 0 THEN chars[k - 1] ELSE Append(chars[k - 1], width[k])]

\* There are such strings.
LEMMA DecodingExists ==
  ASSUME NEW width
  PROVE  \A n \in Nat : \E chars : IsDecoding(chars, width, n)
<1> DEFINE Good == {n \in Nat : \E chars : IsDecoding(chars, width, n)}
<1>1. 0 \in Good
  <2> DEFINE start == [k \in 0..0 |-> <<>>]
  <2>1. IsDecoding(start, width, 0)
    BY DEF IsDecoding
  <2> QED
    BY <2>1
<1>2. ASSUME NEW n \in Nat, n \in Good
      PROVE  n + 1 \in Good
  <2>1. PICK chars : IsDecoding(chars, width, n)
    BY <1>2
  <2>2. PICK last : last = IF width[n + 1] = 0 THEN chars[n] ELSE Append(chars[n], width[n + 1])
    OBVIOUS
  <2> DEFINE next == [k \in 0..(n + 1) |-> IF k = n + 1 THEN last ELSE chars[k]]
  <2>3. \A k \in 0..n : next[k] = chars[k]
    OBVIOUS
  <2>4. \A k \in 0..n : chars[k] = IF k = 0 THEN <<>>
                                   ELSE IF width[k] = 0 THEN chars[k - 1] ELSE Append(chars[k - 1], width[k])
    BY <2>1 DEF IsDecoding
  <2>5. ASSUME NEW k \in 0..(n + 1)
        PROVE  next[k] = IF k = 0 THEN <<>>
                         ELSE IF width[k] = 0 THEN next[k - 1] ELSE Append(next[k - 1], width[k])
    <3>1. CASE k = n + 1
      <4>1. next[k] = last /\ next[k - 1] = chars[n] /\ k # 0
        BY <3>1
      <4> HIDE DEF next
      <4> QED
        BY <2>2, <3>1, <4>1
    <3>2. CASE k \in 0..n
      <4>1. k = 0 \/ next[k - 1] = chars[k - 1]
        BY <3>2, <2>3
      <4> HIDE DEF next
      <4> QED
        BY <3>2, <2>3, <2>4, <4>1
    <3> QED
      BY <3>1, <3>2
  <2>6. IsDecoding(next, width, n + 1)
    BY <2>5 DEF IsDecoding
  <2> QED
    BY <2>6
<1> HIDE DEF Good
<1>3. Nat \subseteq Good
  BY <1>1, <1>2, SetInduction
<1> QED
  BY <1>3 DEF Good

\* from_utf8_lossy decodes all the bytes.
LEMMA LossyIsDecoding ==
  ASSUME NEW bytes, Len(bytes) \in Nat, NEW width, width = Capture!Widths(bytes)
  PROVE  \E chars : IsDecoding(chars, width, Len(bytes)) /\ Capture!FromUtf8Lossy(bytes) = chars[Len(bytes)]
<1> DEFINE decoded == CHOOSE chars : IsDecoding(chars, width, Len(bytes))
<1>1. IsDecoding(decoded, width, Len(bytes))
  BY DecodingExists
<1>2. Capture!FromUtf8Lossy(bytes) = decoded[Len(bytes)]
  BY DEF Capture!FromUtf8Lossy, IsDecoding
<1> QED
  BY <1>1, <1>2

\* In valid UTF-8 a lead is worth two bytes and its continuation none.
LEMMA ValidWidths ==
  ASSUME NEW bytes \in Seq(Capture!Kinds), Capture!ValidUtf8(bytes), NEW width, width = Capture!Widths(bytes)
  PROVE  \A i \in 1..Len(bytes) :
           /\ width[i] = IF bytes[i] = "lead" THEN 2 ELSE IF bytes[i] = "cont" THEN 0 ELSE 1
           /\ bytes[i] = "cont" <=> i > 1 /\ bytes[i - 1] = "lead"
<1> SUFFICES ASSUME NEW i \in 1..Len(bytes)
             PROVE  /\ width[i] = IF bytes[i] = "lead" THEN 2 ELSE IF bytes[i] = "cont" THEN 0 ELSE 1
                    /\ bytes[i] = "cont" <=> i > 1 /\ bytes[i - 1] = "lead"
  OBVIOUS
<1>1. /\ bytes[i] \in {"ascii", "lead", "cont", "bad"} /\ bytes[i] # "bad"
      /\ bytes[i] = "lead" => Capture!Pair(bytes, i)
      /\ bytes[i] = "cont" => Capture!Pair(bytes, i - 1)
  BY DEF Capture!ValidUtf8, Capture!Kinds
<1>2. width[i] = IF bytes[i] = "ascii" THEN 1 ELSE IF Capture!Pair(bytes, i) THEN 2
                 ELSE IF Capture!Pair(bytes, i - 1) THEN 0 ELSE Capture!ReplacementWidth
  BY DEF Capture!Widths
<1>3. bytes[i] = "cont" => i > 1 /\ bytes[i - 1] = "lead"
  BY <1>1 DEF Capture!Pair
<1>4. i > 1 /\ bytes[i - 1] = "lead" => bytes[i] = "cont"
  <2>1. i > 1 => i - 1 \in 1..Len(bytes)
    OBVIOUS
  <2>2. i > 1 /\ bytes[i - 1] = "lead" => Capture!Pair(bytes, i - 1)
    BY <2>1 DEF Capture!ValidUtf8
  <2> QED
    BY <2>2 DEF Capture!Pair
<1>5. Capture!Pair(bytes, i) => bytes[i] = "lead"
  BY DEF Capture!Pair
<1> QED
  BY <1>1, <1>2, <1>3, <1>4, <1>5

\* Valid UTF-8 is as long as what it decodes to.
LEMMA ValidLength ==
  ASSUME NEW bytes \in Seq(Capture!Kinds), Capture!ValidUtf8(bytes)
  PROVE  Capture!StringLen(Capture!FromUtf8Lossy(bytes)) = Len(bytes)
<1> PICK width : width = Capture!Widths(bytes)
  OBVIOUS
<1>1. \A i \in 1..Len(bytes) :
        /\ width[i] = IF bytes[i] = "lead" THEN 2 ELSE IF bytes[i] = "cont" THEN 0 ELSE 1
        /\ bytes[i] = "cont" <=> i > 1 /\ bytes[i - 1] = "lead"
  BY ValidWidths
<1>2. PICK chars : IsDecoding(chars, width, Len(bytes)) /\ Capture!FromUtf8Lossy(bytes) = chars[Len(bytes)]
  BY LossyIsDecoding
<1>3. \A k \in 0..Len(bytes) : chars[k] = IF k = 0 THEN <<>>
                                  ELSE IF width[k] = 0 THEN chars[k - 1] ELSE Append(chars[k - 1], width[k])
  BY <1>2 DEF IsDecoding
<1> DEFINE due(k) == IF k > 0 /\ bytes[k] = "lead" THEN k + 1 ELSE k
           Good == {k \in Nat : k \in 0..Len(bytes) =>
                      chars[k] \in Seq(Nat) /\ Capture!StringLen(chars[k]) = due(k)}
<1>4. 0 \in Good
  <2>1. chars[0] = <<>>
    BY <1>3
  <2>2. <<>> \in Seq(Nat) /\ due(0) = 0
    OBVIOUS
  <2>3. Capture!StringLen(chars[0]) = 0
    BY <2>1, StringLenGrows
  <2> QED
    BY <2>1, <2>2, <2>3
<1>5. ASSUME NEW k \in Nat, k \in Good
      PROVE  k + 1 \in Good
  <2> SUFFICES ASSUME k + 1 \in 0..Len(bytes)
               PROVE  chars[k + 1] \in Seq(Nat) /\ Capture!StringLen(chars[k + 1]) = due(k + 1)
    OBVIOUS
  <2>1. k \in 0..Len(bytes) /\ k + 1 \in 1..Len(bytes) /\ k + 1 # 0 /\ (k + 1) - 1 = k
    OBVIOUS
  <2>2. chars[k] \in Seq(Nat) /\ Capture!StringLen(chars[k]) = due(k)
    BY <1>5, <2>1
  <2>3. chars[k + 1] = IF width[k + 1] = 0 THEN chars[k] ELSE Append(chars[k], width[k + 1])
    BY <1>3, <2>1
  <2>4. width[k + 1] \in Nat /\ width[k + 1] + due(k) = due(k + 1)
    <3>1. /\ width[k + 1] = IF bytes[k + 1] = "lead" THEN 2 ELSE IF bytes[k + 1] = "cont" THEN 0 ELSE 1
          /\ bytes[k + 1] = "cont" <=> k > 0 /\ bytes[k] = "lead"
      BY <1>1, <2>1
    <3> QED
      BY <3>1
  <2> HIDE DEF due
  <2>5. CASE width[k + 1] = 0
    <3>1. chars[k + 1] = chars[k]
      BY <2>3, <2>5
    <3>2. due(k) \in Int => due(k + 1) = due(k)
      BY <2>4, <2>5
    <3>3. due(k) \in Int
      BY <2>2, StringLenGrows
    <3> QED
      BY <2>2, <3>1, <3>2, <3>3
  <2>6. CASE width[k + 1] # 0
    <3>1. chars[k + 1] = Append(chars[k], width[k + 1])
      BY <2>3, <2>6
    <3>2. chars[k + 1] \in Seq(Nat)
      BY <2>2, <2>4, <3>1
    <3>3. Capture!StringLen(chars[k + 1]) = Capture!StringLen(chars[k]) + width[k + 1]
      BY <2>2, <2>4, <3>1, StringLenGrows
    <3>4. due(k) \in Nat
      BY <2>2, StringLenGrows
    <3> QED
      BY <2>2, <2>4, <3>2, <3>3, <3>4
  <2> QED
    BY <2>5, <2>6
<1> HIDE DEF Good
<1>6. Nat \subseteq Good
  BY <1>4, <1>5, SetInduction
<1>7. Len(bytes) > 0 => bytes[Len(bytes)] # "lead"
  <2>1. Len(bytes) > 0 => Len(bytes) \in DOMAIN bytes
    OBVIOUS
  <2> QED
    BY <2>1 DEF Capture!ValidUtf8, Capture!Pair
<1> QED
  BY <1>2, <1>6, <1>7 DEF Good

\* Of valid UTF-8 a beginning is valid unless it ends in front of a continuation byte.
LEMMA ValidPrefix ==
  ASSUME NEW bytes \in Seq(Capture!Kinds), Capture!ValidUtf8(bytes), NEW n \in Nat, n < Len(bytes)
  PROVE  Capture!ValidUtf8(SubSeq(bytes, 1, n)) <=> n = 0 \/ bytes[n + 1] # "cont"
<1> PICK start : start = SubSeq(bytes, 1, n)
  OBVIOUS
<1>1. start \in Seq(Capture!Kinds) /\ Len(start) = n /\ \A i \in 1..n : start[i] = bytes[i]
  OBVIOUS
<1>2. \A i \in 1..Len(bytes) : /\ bytes[i] # "bad"
                               /\ bytes[i] = "lead" => i + 1 <= Len(bytes) /\ bytes[i + 1] = "cont"
                               /\ bytes[i] = "cont" => i - 1 >= 1 /\ bytes[i - 1] = "lead"
  BY DEF Capture!ValidUtf8, Capture!Pair
<1>3. ASSUME n = 0 \/ bytes[n + 1] # "cont"
      PROVE  Capture!ValidUtf8(start)
  <2> SUFFICES ASSUME NEW i \in 1..n
               PROVE  /\ start[i] = "lead" => Capture!Pair(start, i)
                      /\ start[i] = "cont" => Capture!Pair(start, i - 1)
                      /\ start[i] # "bad"
    BY <1>1 DEF Capture!ValidUtf8
  <2>1. /\ bytes[i] # "bad"
        /\ bytes[i] = "lead" => i + 1 <= Len(bytes) /\ bytes[i + 1] = "cont"
        /\ bytes[i] = "cont" => i - 1 >= 1 /\ bytes[i - 1] = "lead"
    BY <1>2
  <2>2. start[i] = bytes[i]
    BY <1>1
  <2>3. bytes[i] = "lead" => i + 1 \in 1..n
    BY <1>3, <2>1
  <2>4. bytes[i] = "cont" => i - 1 \in 1..n
    BY <2>1
  <2> QED
    BY <1>1, <2>1, <2>2, <2>3, <2>4 DEF Capture!Pair
<1>4. ASSUME n # 0, bytes[n + 1] = "cont"
      PROVE  ~Capture!ValidUtf8(start)
  <2>1. n + 1 \in 1..Len(bytes) /\ (n + 1) - 1 = n /\ n \in 1..n
    BY <1>4
  <2>2. bytes[n] = "lead"
    BY <1>2, <1>4, <2>1
  <2>3. start[n] = "lead" /\ ~Capture!Pair(start, n) /\ n \in DOMAIN start
    BY <1>1, <2>1, <2>2 DEF Capture!Pair
  <2> QED
    BY <2>3 DEF Capture!ValidUtf8
<1> QED
  BY <1>3, <1>4

\* The smaller of two numbers.
LEMMA MinOfTwo ==
  ASSUME NEW a \in Int, NEW b \in Int
  PROVE  /\ Min({a, b}) = IF a <= b THEN a ELSE b
         /\ Capture!Min({a, b}) = IF a <= b THEN a ELSE b
<1> PICK m \in Int : m = IF a <= b THEN a ELSE b
  OBVIOUS
<1>1. m \in {a, b} /\ \A x \in {a, b} : (\A y \in {a, b} : x =< y) <=> x = m
  OBVIOUS
<1>2. (CHOOSE x \in {a, b} : \A y \in {a, b} : x =< y) = m
  BY <1>1
<1> QED
  BY <1>2 DEF Min, Capture!Min

\* Some numbers that are bounded have a largest one.
LEMMA MaxIsThere ==
  ASSUME NEW n \in Nat, NEW S \in SUBSET (0..n), S # {}
  PROVE  Max(S) \in S /\ Capture!Max(S) = Max(S) /\ \A y \in S : y <= Max(S)
<1> DEFINE HasMax(k) == \A T \in SUBSET (0..k) : T # {} => \E m \in T : \A y \in T : m >= y
           Good == {k \in Nat : HasMax(k)}
<1>1. 0 \in Good
  <2> SUFFICES ASSUME NEW T \in SUBSET (0..0), T # {}
               PROVE  \E m \in T : \A y \in T : m >= y
    OBVIOUS
  <2>1. \A y \in T : y = 0
    OBVIOUS
  <2> PICK m \in T : TRUE
    OBVIOUS
  <2>2. m = 0
    BY <2>1
  <2>3. \A y \in T : m >= y
    BY <2>1, <2>2
  <2> QED
    BY <2>3
<1>2. ASSUME NEW k \in Nat, k \in Good
      PROVE  k + 1 \in Good
  <2> SUFFICES ASSUME NEW T \in SUBSET (0..(k + 1)), T # {}
               PROVE  \E m \in T : \A y \in T : m >= y
    OBVIOUS
  <2>1. CASE k + 1 \in T
    BY <2>1
  <2>2. CASE k + 1 \notin T
    <3>1. T \in SUBSET (0..k)
      BY <2>2
    <3> QED
      BY <1>2, <3>1
  <2> QED
    BY <2>1, <2>2
<1>3. HasMax(n)
  <2> HIDE DEF HasMax
  <2>1. Nat \subseteq Good
    <3> HIDE DEF Good
    <3> QED
      BY <1>1, <1>2, SetInduction
  <2> QED
    BY <2>1
<1>4. PICK m \in S : \A y \in S : m >= y
  BY <1>3
<1>5. Max(S) \in S /\ \A y \in S : Max(S) >= y
  BY <1>4 DEF Max
<1> QED
  BY <1>5 DEF Max, Capture!Max

\* What CaptureIsExact says of one stream.
Exact(bytes, limit, out) ==
  LET whole == Capture!FromUtf8Lossy(bytes)
      fits  == {n \in 0..Min({limit, Len(bytes)}) : Capture!ValidUtf8(SubSeq(bytes, 1, n))}
  IN  /\ out.truncated <=> Len(bytes) > limit \/ Capture!StringLen(whole) > limit
      /\ ~out.truncated => out.string = whole
      /\ Capture!ValidUtf8(bytes) => /\ out.data = SubSeq(bytes, 1, Max(fits))
                                     /\ Capture!StringLen(out.string) = Len(out.data)

\* run() on the bytes of a stream: all of them decoded when they and what they decode to
\* are within the limit, and of valid UTF-8 the longest run of whole characters otherwise.
LEMMA CapturedIsExact ==
  ASSUME NEW bytes \in Seq(Capture!Kinds), NEW limit \in Nat
  PROVE  Exact(bytes, limit, Capture!Captured(bytes, limit))
<1> PICK out : out = Capture!Captured(bytes, limit)
  OBVIOUS
<1> PICK whole : whole = Capture!FromUtf8Lossy(bytes)
  OBVIOUS
<1> PICK fits : fits = {n \in 0..Min({limit, Len(bytes)}) : Capture!ValidUtf8(SubSeq(bytes, 1, n))}
  OBVIOUS
<1> SUFFICES /\ out.truncated <=> Len(bytes) > limit \/ Capture!StringLen(whole) > limit
             /\ ~out.truncated => out.string = whole
             /\ Capture!ValidUtf8(bytes) => /\ out.data = SubSeq(bytes, 1, Max(fits))
                                            /\ Capture!StringLen(out.string) = Len(out.data)
  BY Zenon DEF Exact
<1>0. Len(bytes) \in Nat /\ Min({limit, Len(bytes)}) = IF limit <= Len(bytes) THEN limit ELSE Len(bytes)
  BY MinOfTwo
<1> PICK kept : kept = SubSeq(bytes, 1, IF Len(bytes) <= limit + 1 THEN Len(bytes) ELSE limit + 1)
  OBVIOUS
<1> PICK captured : captured = Capture!Capture(bytes, limit)
  OBVIOUS
<1>1. /\ captured.data = IF Len(kept) > limit
                         THEN SubSeq(kept, 1, Capture!FloorCharBoundary(kept, limit)) ELSE kept
      /\ captured.truncated <=> Len(kept) > limit
  <2>1. limit + 1 \in Int /\ Len(bytes) \in Int
    OBVIOUS
  <2>2. Capture!Min({Len(bytes), limit + 1}) = IF Len(bytes) <= limit + 1 THEN Len(bytes) ELSE limit + 1
    BY <2>1, MinOfTwo
  <2>3. kept = SubSeq(bytes, 1, Capture!Min({Len(bytes), limit + 1}))
    BY <2>2
  <2> QED
    BY <2>3 DEF Capture!Capture
<1> PICK s : s = Capture!FromUtf8Lossy(captured.data)
  OBVIOUS
<1>2. /\ out.data = captured.data
      /\ out.string = IF captured.truncated THEN s ELSE Capture!TruncateWithMarker(s, limit)
      /\ out.truncated <=> captured.truncated \/ Capture!StringLen(s) > limit
  BY DEF Capture!Captured
<1>3. CASE Len(bytes) <= limit
  <2>1. kept = bytes
    BY <1>3
  <2>2. ~captured.truncated /\ captured.data = bytes /\ s = whole
    <3>1. ~(Len(kept) > limit)
      BY <1>0, <1>3, <2>1
    <3> QED
      BY <1>1, <2>1, <3>1, Zenon
  <2>3. out.string = IF Capture!StringLen(whole) > limit THEN Capture!TruncateWithMarker(s, limit) ELSE whole
    BY <1>2, <2>2 DEF Capture!TruncateWithMarker
  <2>4. ASSUME Capture!ValidUtf8(bytes)
        PROVE  Max(fits) = Len(bytes) /\ Capture!StringLen(whole) = Len(bytes)
    <3>1. Len(bytes) \in fits /\ fits \in SUBSET (0..Len(bytes))
      <4>1. SubSeq(bytes, 1, Len(bytes)) = bytes
        OBVIOUS
      <4>2. Min({limit, Len(bytes)}) = Len(bytes)
        BY <1>0, <1>3
      <4>3. fits = {n \in 0..Len(bytes) : Capture!ValidUtf8(SubSeq(bytes, 1, n))} /\ Len(bytes) \in 0..Len(bytes)
        BY <1>0, <4>2
      <4> QED
        BY <2>4, <4>1, <4>3
    <3>2. Max(fits) \in fits /\ Len(bytes) <= Max(fits)
      BY <1>0, <3>1, MaxIsThere
    <3> QED
      BY <1>0, <2>4, <3>1, <3>2, ValidLength
  <2>5. SubSeq(bytes, 1, Len(bytes)) = bytes
    OBVIOUS
  <2> QED
    BY <1>0, <1>2, <1>3, <2>2, <2>3, <2>4, <2>5
<1>4. CASE Len(bytes) > limit
  <2>1. kept = SubSeq(bytes, 1, limit + 1) /\ limit + 1 <= Len(bytes)
    BY <1>4
  <2>2. kept \in Seq(Capture!Kinds) /\ Len(kept) = limit + 1 /\ \A i \in 1..(limit + 1) : kept[i] = bytes[i]
    BY <2>1
  <2>3. captured.truncated /\ captured.data = SubSeq(kept, 1, Capture!FloorCharBoundary(kept, limit))
    <3>1. Len(kept) > limit
      BY <2>2
    <3> QED
      BY <1>1, <3>1, Zenon
  <2> PICK ends : ends = {i \in 0..limit : i = 0 \/ kept[i + 1] # "cont"}
    OBVIOUS
  <2>4. Capture!FloorCharBoundary(kept, limit) = Max(ends) /\ Max(ends) \in ends
    <3>1. ends \in SUBSET (0..limit) /\ 0 \in ends
      OBVIOUS
    <3>2. ~(limit >= Len(kept))
      BY <2>2
    <3>3. Capture!FloorCharBoundary(kept, limit) = Capture!Max(ends)
      BY <3>2, Zenon DEF Capture!FloorCharBoundary
    <3> QED
      BY <3>1, <3>3, MaxIsThere
  <2>5. PICK m \in 0..limit : m = Max(ends) /\ m \in ends
    BY <2>4
  <2>6. captured.data = SubSeq(bytes, 1, m)
    <3>1. SubSeq(kept, 1, m) = SubSeq(bytes, 1, m)
      BY <2>2, <1>4
    <3> QED
      BY <2>3, <2>4, <2>5, <3>1
  <2>7. ASSUME Capture!ValidUtf8(bytes)
        PROVE  Max(fits) = m /\ Capture!StringLen(s) = Len(captured.data)
    <3>1. fits = ends
      <4>1. fits = {n \in 0..limit : Capture!ValidUtf8(SubSeq(bytes, 1, n))}
        BY <1>0, <1>4
      <4>2. \A n \in 0..limit : /\ Capture!ValidUtf8(SubSeq(bytes, 1, n)) <=> n = 0 \/ bytes[n + 1] # "cont"
                                /\ kept[n + 1] = bytes[n + 1]
        BY <1>4, <2>2, <2>7, ValidPrefix
      <4> QED
        BY <4>1, <4>2
    <3>2. Capture!ValidUtf8(captured.data)
      BY <2>5, <2>6, <3>1
    <3>3. captured.data \in Seq(Capture!Kinds)
      BY <1>4, <2>6
    <3> QED
      BY <2>5, <3>1, <3>2, <3>3, ValidLength
  <2> QED
    BY <1>2, <1>4, <2>3, <2>6, <2>7
<1>5. Len(bytes) <= limit \/ Len(bytes) > limit
  BY <1>0
<1> QED
  BY <1>3, <1>4, <1>5, Zenon

\* What CollectOutput gives to run() and what comes back.
LEMMA CollectAnswers ==
  ASSUME CollectOutput
  PROVE  \E bytes \in Seq(Capture!Kinds), limit \in Nat :
           call' = [name |-> "collect", input |-> [bytes |-> bytes, limit |-> limit],
                    output |-> Capture!Captured(bytes, limit)]
<1>1. PICK bytes \in SeqsUpTo(Capture!Kinds, MaxLen), limit \in Limits :
        call' = [name |-> "collect", input |-> [bytes |-> bytes, limit |-> limit],
                 output |-> Capture!Captured(bytes, limit)]
  BY DEF CollectOutput, Answer
<1>2. bytes \in Seq(Capture!Kinds) /\ limit \in Nat
  BY CallBounds, SeqsAreSeqs
<1> QED
  BY <1>1, <1>2

\* run() keeps of every stream, under every limit, all of it that is within the limit, never
\* half a character, and says that it cut it exactly when it did (read_with_limit and
\* from_utf8_lossy of the subprocess runner).
THEOREM CaptureIsExactCorrect == CallSpec => []CaptureIsExact
<1>1. CallInit => CaptureIsExact
  BY DEF CallInit, NoCall, CaptureIsExact
<1>2. CaptureIsExact /\ [CallNext]_callVars => CaptureIsExact'
  <2> SUFFICES ASSUME CaptureIsExact, [CallNext]_callVars
               PROVE  CaptureIsExact'
    OBVIOUS
  <2>1. CASE call' = call
    BY <2>1 DEF CaptureIsExact
  <2>2. CASE Call
    <3>1. CASE call'.name # "collect"
      BY <3>1 DEF CaptureIsExact
    <3>2. CASE call'.name = "collect"
      <4>1. CollectOutput
        BY <2>2, <3>2, CallNames DEF NamedAs
      <4>2. PICK bytes \in Seq(Capture!Kinds), limit \in Nat :
              call' = [name |-> "collect", input |-> [bytes |-> bytes, limit |-> limit],
                       output |-> Capture!Captured(bytes, limit)]
        BY <4>1, CollectAnswers
      <4>3. call'.input.bytes = bytes /\ call'.input.limit = limit /\ call'.output = Capture!Captured(bytes, limit)
        BY <4>2
      <4>4. Exact(call'.input.bytes, call'.input.limit, call'.output)
        BY <4>3, CapturedIsExact
      <4> QED
        BY <4>4, Zenon DEF CaptureIsExact, Exact
    <3> QED
      BY <3>1, <3>2
  <2> QED
    BY <2>1, <2>2, CallSteps
<1> QED
  BY <1>1, <1>2, PTL DEF CallSpec

-----------------------------------------------------------------------------
(* Commit messages *)

\* The lines of the messages, and of what a hook may make of them.
LineKeys == {"", "empty", "co-authored-by", "signed-off-by"}
Lines == [key : LineKeys, end : {"LF", "CRLF", ""}]

\* Only the last line may have no end, and then it is not empty.
Written(m) ==
  /\ m \in Seq(Lines)
  /\ \A i \in 1..Len(m) : m[i].end = "" => i = Len(m) /\ m[i].key # "empty"

\* `found` has what KeysOf finds in the first n lines.
IsKeys(found, m, keys, n) ==
  found = [k \in 0..n |-> IF k = 0 THEN <<>> ELSE IF m[k].key \in keys THEN Append(found[k - 1], m[k].key) ELSE found[k - 1]]

\* There is such a function.
LEMMA KeysExist ==
  ASSUME NEW m, NEW keys
  PROVE  \A n \in Nat : \E found : IsKeys(found, m, keys, n)
<1> DEFINE Good == {n \in Nat : \E found : IsKeys(found, m, keys, n)}
<1>1. 0 \in Good
  <2> PICK f : f = [k \in 0..0 |-> <<>>]
    OBVIOUS
  <2>1. IsKeys(f, m, keys, 0)
    BY DEF IsKeys
  <2> QED
    BY <2>1
<1>2. \A n \in Nat : n \in Good => n + 1 \in Good
  <2> SUFFICES ASSUME NEW n \in Nat, NEW f, IsKeys(f, m, keys, n)
               PROVE  \E g : IsKeys(g, m, keys, n + 1)
    OBVIOUS
  <2> PICK last : last = IF m[n + 1].key \in keys THEN Append(f[n], m[n + 1].key) ELSE f[n]
    OBVIOUS
  <2> PICK g : g = [k \in 0..(n + 1) |-> IF k = n + 1 THEN last ELSE f[k]]
    OBVIOUS
  <2>1. \A k \in 0..n : g[k] = f[k]
    OBVIOUS
  <2>2. g[n + 1] = last
    OBVIOUS
  <2> DEFINE step(h, k) == IF k = 0 THEN <<>> ELSE IF m[k].key \in keys THEN Append(h[k - 1], m[k].key) ELSE h[k - 1]
  <2>3. \A k \in 0..n : f[k] = step(f, k)
    BY Zenon DEF IsKeys
  <2>4. \A k \in 0..(n + 1) : g[k] = step(g, k)
    <3> SUFFICES ASSUME NEW k \in 0..(n + 1) PROVE g[k] = step(g, k)
      OBVIOUS
    <3>1. CASE k = 0
      BY <2>1, <2>3, <3>1
    <3>2. CASE k # 0 /\ k # n + 1
      <4>1. k - 1 \in 0..n /\ k \in 0..n
        BY <3>2
      <4>2. g[k - 1] = f[k - 1] /\ g[k] = f[k] /\ f[k] = step(f, k)
        BY <2>1, <2>3, <4>1
      <4> QED
        BY <4>2
    <3>3. CASE k = n + 1
      <4>1. k - 1 = n /\ g[n] = f[n] /\ k # 0
        BY <2>1, <3>3
      <4> QED
        BY <2>2, <3>3, <4>1
    <3> QED
      BY <3>1, <3>2, <3>3
  <2> HIDE DEF step
  <2>5. g = [k \in 0..(n + 1) |-> step(g, k)]
    BY <2>4
  <2> QED
    BY <2>5, Zenon DEF IsKeys, step
<1> HIDE DEF Good
<1>3. Nat \subseteq Good
  BY <1>1, <1>2, SetInduction
<1> QED
  BY <1>3 DEF Good

\* KeysOf goes through all the lines.
LEMMA KeysAreAll ==
  ASSUME NEW m, NEW keys, Len(m) \in Nat
  PROVE  \E found : IsKeys(found, m, keys, Len(m)) /\ KeysOf(m, keys) = found[Len(m)]
<1> DEFINE found == CHOOSE f : IsKeys(f, m, keys, Len(m))
<1>1. IsKeys(found, m, keys, Len(m))
  BY KeysExist
<1>2. KeysOf(m, keys) = found[Len(m)]
  BY DEF KeysOf, IsKeys
<1> QED
  BY <1>1, <1>2

\* One line after the other.
Grows(found, m, keys, n) ==
  /\ found[0] = <<>>
  /\ \A k \in 1..n : found[k] = IF m[k].key \in keys THEN Append(found[k - 1], m[k].key) ELSE found[k - 1]

\* IsKeys, without its first line.
LEMMA KeysGrow ==
  ASSUME NEW m, NEW keys, NEW n \in Nat, NEW found, IsKeys(found, m, keys, n)
  PROVE  Grows(found, m, keys, n)
<1> DEFINE step(k) == IF k = 0 THEN <<>> ELSE IF m[k].key \in keys THEN Append(found[k - 1], m[k].key) ELSE found[k - 1]
<1>1. \A k \in 0..n : found[k] = step(k)
  BY Zenon DEF IsKeys
<1> QED
  BY <1>1 DEF Grows

\* What is found depends on what stands before the colons alone.
Alike(m, other, n) == \A i \in 1..n : m[i].key = other[i].key

\* Two messages alike in their first lines have the same keys there.
LEMMA KeysAgree ==
  ASSUME NEW keys, NEW n \in Nat, NEW m, NEW f, IsKeys(f, m, keys, n),
         NEW top \in Nat, n <= top, NEW other, NEW g, IsKeys(g, other, keys, top), Alike(m, other, n)
  PROVE  f[n] = g[n]
<1> DEFINE Good == {k \in Nat : k <= n => f[k] = g[k]}
<1>0. Grows(f, m, keys, n) /\ Grows(g, other, keys, top)
  BY KeysGrow
<1>1. 0 \in Good
  BY <1>0 DEF Grows
<1>2. \A k \in Nat : k \in Good => k + 1 \in Good
  <2> SUFFICES ASSUME NEW k \in Nat, k + 1 <= n, f[k] = g[k] PROVE f[k + 1] = g[k + 1]
    OBVIOUS
  <2>1. k + 1 \in 1..n /\ k + 1 \in 1..top /\ (k + 1) - 1 = k
    OBVIOUS
  <2>2. f[k + 1] = IF m[k + 1].key \in keys THEN Append(f[k], m[k + 1].key) ELSE f[k]
    BY <1>0, <2>1 DEF Grows
  <2>3. g[k + 1] = IF other[k + 1].key \in keys THEN Append(g[k], other[k + 1].key) ELSE g[k]
    BY <1>0, <2>1 DEF Grows
  <2> QED
    BY <2>1, <2>2, <2>3 DEF Alike
<1> HIDE DEF Good
<1>3. Nat \subseteq Good
  BY <1>1, <1>2, SetInduction
<1> QED
  BY <1>3 DEF Good

\* Messages alike in all their lines have the same keys.
LEMMA SameKeys ==
  ASSUME NEW keys, NEW m, NEW other, Len(m) \in Nat, Len(other) = Len(m),
         \A i \in 1..Len(m) : m[i].key = other[i].key
  PROVE  KeysOf(m, keys) = KeysOf(other, keys)
<1>1. PICK f : IsKeys(f, m, keys, Len(m)) /\ KeysOf(m, keys) = f[Len(m)]
  BY KeysAreAll
<1>2. PICK g : IsKeys(g, other, keys, Len(m)) /\ KeysOf(other, keys) = g[Len(m)]
  BY KeysAreAll
<1>3. f[Len(m)] = g[Len(m)]
  <2>1. Alike(m, other, Len(m))
    BY DEF Alike
  <2> QED
    BY <1>1, <1>2, <2>1, KeysAgree
<1> QED
  BY <1>1, <1>2, <1>3

\* One more line.
OneMore(m, line, keys) ==
  KeysOf(Append(m, line), keys) = IF line.key \in keys THEN Append(KeysOf(m, keys), line.key) ELSE KeysOf(m, keys)

\* A line more is a key more, or none.
LEMMA KeysAppend ==
  ASSUME NEW keys, NEW S, NEW m \in Seq(S), NEW line \in S
  PROVE  OneMore(m, line, keys)
<1> PICK more : more = Append(m, line)
  OBVIOUS
<1> PICK n \in Nat : n = Len(m)
  OBVIOUS
<1>1. Len(more) = n + 1 /\ more[n + 1] = line /\ \A i \in 1..n : more[i] = m[i]
  BY AppendProperties
<1>2. PICK f : IsKeys(f, m, keys, n) /\ KeysOf(m, keys) = f[n]
  BY KeysAreAll
<1>3. PICK g : IsKeys(g, more, keys, Len(more)) /\ KeysOf(more, keys) = g[Len(more)]
  <2>1. Len(more) \in Nat
    BY <1>1
  <2> QED
    BY <2>1, KeysAreAll
<1>4. f[n] = g[n]
  <2> PICK top \in Nat : top = Len(more)
    BY <1>1
  <2>1. IsKeys(f, m, keys, n) /\ IsKeys(g, more, keys, top) /\ n <= top /\ Alike(m, more, n)
    BY <1>1, <1>2, <1>3 DEF Alike
  <2> QED
    BY <2>1, KeysAgree
<1>5. g[n + 1] = IF more[n + 1].key \in keys THEN Append(g[n], more[n + 1].key) ELSE g[n]
  <2> PICK top \in Nat : top = n + 1
    OBVIOUS
  <2>1. top \in 1..top /\ top - 1 = n
    OBVIOUS
  <2>2. IsKeys(g, more, keys, top)
    BY <1>1, <1>3
  <2>3. Grows(g, more, keys, top)
    BY <2>2, KeysGrow
  <2>4. g[top] = IF more[top].key \in keys THEN Append(g[top - 1], more[top].key) ELSE g[top - 1]
    BY <2>1, <2>3, Zenon DEF Grows
  <2> QED
    BY <2>1, <2>4
<1> QED
  BY <1>1, <1>2, <1>3, <1>4, <1>5 DEF OneMore

\* Nothing is found when no line has one of the keys, and only then.
LEMMA NoneFound ==
  ASSUME NEW keys, NEW m, Len(m) \in Nat
  PROVE  KeysOf(m, keys) = <<>> <=> \A i \in 1..Len(m) : m[i].key \notin keys
<1>1. PICK f : IsKeys(f, m, keys, Len(m)) /\ KeysOf(m, keys) = f[Len(m)]
  BY KeysAreAll
<1> PICK n \in Nat : n = Len(m)
  OBVIOUS
<1>0. Grows(f, m, keys, n)
  BY <1>1, KeysGrow
<1>2. f[0] = <<>> /\ \A k \in 1..n : f[k] = IF m[k].key \in keys THEN Append(f[k - 1], m[k].key) ELSE f[k - 1]
  BY <1>0, Zenon DEF Grows
<1> DEFINE U == {m[i].key : i \in 1..n}
           Good == {k \in Nat : k <= n => f[k] \in Seq(U) /\ (f[k] = <<>> <=> \A i \in 1..k : m[i].key \notin keys)}
<1>3. 0 \in Good
  <2>1. 1..0 = {}
    OBVIOUS
  <2>2. f[0] \in Seq(U) /\ f[0] = <<>>
    BY <1>2
  <2> QED
    BY <2>1, <2>2
<1>4. \A k \in Nat : k \in Good => k + 1 \in Good
  <2> SUFFICES ASSUME NEW k \in Nat, k + 1 <= n, f[k] \in Seq(U),
                      f[k] = <<>> <=> \A i \in 1..k : m[i].key \notin keys
               PROVE  /\ f[k + 1] \in Seq(U)
                      /\ f[k + 1] = <<>> <=> \A i \in 1..(k + 1) : m[i].key \notin keys
    OBVIOUS
  <2>1. k + 1 \in 1..n /\ (k + 1) - 1 = k
    OBVIOUS
  <2>2. f[k + 1] = IF m[k + 1].key \in keys THEN Append(f[k], m[k + 1].key) ELSE f[k]
    BY <1>2, <2>1
  <2>3. m[k + 1].key \in U
    BY <2>1
  <2> HIDE DEF U
  <2>4. CASE m[k + 1].key \in keys
    <3>1. f[k + 1] = Append(f[k], m[k + 1].key)
      BY <2>2, <2>4
    <3>2. Append(f[k], m[k + 1].key) \in Seq(U) /\ Len(Append(f[k], m[k + 1].key)) = Len(f[k]) + 1
      BY <2>3, AppendProperties
    <3>3. f[k + 1] # <<>>
      BY <3>1, <3>2
    <3>4. k + 1 \in 1..(k + 1)
      OBVIOUS
    <3> QED
      BY <2>4, <3>1, <3>2, <3>3, <3>4
  <2>5. CASE m[k + 1].key \notin keys
    <3>1. \A i \in 1..(k + 1) : i \in 1..k \/ i = k + 1
      OBVIOUS
    <3>2. \A i \in 1..k : i \in 1..(k + 1)
      OBVIOUS
    <3> QED
      BY <2>2, <2>5, <3>1, <3>2
  <2> QED
    BY <2>4, <2>5
<1> HIDE DEF Good
<1>5. Nat \subseteq Good
  BY <1>3, <1>4, SetInduction
<1>6. f[n] = <<>> <=> \A i \in 1..n : m[i].key \notin keys
  <2>1. n \in Good /\ n <= n
    BY <1>5
  <2> QED
    BY <2>1, Zenon DEF Good
<1> QED
  BY <1>1, <1>6

\* `left` has what is left of the first n lines.
WithLine(left, line) == IF Entry!IsAiTrailerLine(line) THEN left ELSE Append(left, line)
IsLeft(left, m, n) == left = [k \in 0..n |-> IF k = 0 THEN <<>> ELSE WithLine(left[k - 1], m[k])]

\* There is such a function.
LEMMA LeftExists ==
  ASSUME NEW m
  PROVE  \A n \in Nat : \E left : IsLeft(left, m, n)
<1> DEFINE Good == {n \in Nat : \E left : IsLeft(left, m, n)}
<1>1. 0 \in Good
  <2> PICK f : f = [k \in 0..0 |-> <<>>]
    OBVIOUS
  <2>1. IsLeft(f, m, 0)
    BY DEF IsLeft
  <2> QED
    BY <2>1
<1>2. \A n \in Nat : n \in Good => n + 1 \in Good
  <2> SUFFICES ASSUME NEW n \in Nat, NEW f, IsLeft(f, m, n)
               PROVE  \E g : IsLeft(g, m, n + 1)
    OBVIOUS
  <2> PICK last : last = WithLine(f[n], m[n + 1])
    OBVIOUS
  <2> PICK g : g = [k \in 0..(n + 1) |-> IF k = n + 1 THEN last ELSE f[k]]
    OBVIOUS
  <2>1. \A k \in 0..n : g[k] = f[k]
    OBVIOUS
  <2>2. g[n + 1] = last
    OBVIOUS
  <2> DEFINE step(h, k) == IF k = 0 THEN <<>> ELSE WithLine(h[k - 1], m[k])
  <2>3. \A k \in 0..n : f[k] = step(f, k)
    BY Zenon DEF IsLeft
  <2>4. \A k \in 0..(n + 1) : g[k] = step(g, k)
    <3> SUFFICES ASSUME NEW k \in 0..(n + 1) PROVE g[k] = step(g, k)
      OBVIOUS
    <3>1. CASE k = 0
      BY <2>1, <2>3, <3>1
    <3>2. CASE k # 0 /\ k # n + 1
      <4>1. k - 1 \in 0..n /\ k \in 0..n
        BY <3>2
      <4>2. g[k - 1] = f[k - 1] /\ g[k] = f[k] /\ f[k] = step(f, k)
        BY <2>1, <2>3, <4>1
      <4> QED
        BY <4>2
    <3>3. CASE k = n + 1
      <4>1. k - 1 = n /\ g[n] = f[n] /\ k # 0
        BY <2>1, <3>3
      <4> QED
        BY <2>2, <3>3, <4>1
    <3> QED
      BY <3>1, <3>2, <3>3
  <2> HIDE DEF step
  <2>5. g = [k \in 0..(n + 1) |-> step(g, k)]
    BY <2>4
  <2>6. IsLeft(g, m, n + 1)
    BY <2>5, Zenon DEF IsLeft, step
  <2> QED
    BY <2>6
<1> HIDE DEF Good
<1>3. Nat \subseteq Good
  BY <1>1, <1>2, SetInduction
<1> QED
  BY <1>3 DEF Good

\* strip_attribution goes through all the lines, one after the other.
Remains(left, m, n) ==
  /\ left[0] = <<>>
  /\ \A k \in 1..n : left[k] = WithLine(left[k - 1], m[k])

\* Unattributed is what is left of all the lines.
LEMMA LeftIsAll ==
  ASSUME NEW m, Len(m) \in Nat
  PROVE  \E left : Remains(left, m, Len(m)) /\ Entry!Unattributed(m) = left[Len(m)]
<1> DEFINE left == CHOOSE f : IsLeft(f, m, Len(m))
<1>1. IsLeft(left, m, Len(m))
  BY LeftExists
<1>2. Entry!Unattributed(m) = left[Len(m)]
  BY Zenon DEF Entry!Unattributed, IsLeft, WithLine
<1> HIDE DEF left
<1> DEFINE step(k) == IF k = 0 THEN <<>> ELSE WithLine(left[k - 1], m[k])
<1>3. \A k \in 0..Len(m) : left[k] = step(k)
  BY <1>1, Zenon DEF IsLeft
<1>4. Remains(left, m, Len(m))
  BY <1>3 DEF Remains
<1> QED
  BY <1>2, <1>4

\* The only trailer of an AI among the keys here.
LEMMA AiLines == \A line \in Lines : Entry!IsAiTrailerLine(line) <=> line.key = "co-authored-by"
BY DEF Lines, LineKeys, Entry!IsAiTrailerLine, Entry!AiTrailerKeys

\* What is left has no trailer of an AI and all the rest, and is all when there is none.
LeftRight(u, m, keys) ==
  /\ u \in Seq(Lines)
  /\ \A i \in 1..Len(u) : u[i].key # "co-authored-by"
  /\ KeysOf(u, keys) = KeysOf(m, keys)
  /\ (\A i \in 1..Len(m) : m[i].key # "co-authored-by") => u = m

\* That holds of every message, by induction over its lines.
LEMMA LeftGives ==
  ASSUME NEW m \in Seq(Lines), NEW keys, "co-authored-by" \notin keys
  PROVE  LeftRight(Entry!Unattributed(m), m, keys)
<1> PICK n \in Nat : n = Len(m)
  OBVIOUS
<1>1. PICK f : Remains(f, m, n) /\ Entry!Unattributed(m) = f[n]
  BY LeftIsAll
<1>2. PICK g : IsKeys(g, m, keys, n) /\ KeysOf(m, keys) = g[n]
  BY KeysAreAll
<1>3. Grows(g, m, keys, n)
  BY <1>2, KeysGrow
<1> DEFINE Fine(k) ==
             /\ f[k] \in Seq(Lines)
             /\ \A i \in 1..Len(f[k]) : f[k][i].key # "co-authored-by"
             /\ KeysOf(f[k], keys) = g[k]
             /\ (\A i \in 1..k : m[i].key # "co-authored-by") => Len(f[k]) = k /\ \A i \in 1..k : f[k][i] = m[i]
           Good == {k \in Nat : k <= n => Fine(k)}
<1> HIDE DEF Fine
<1>4. 0 \in Good
  <2>1. f[0] = <<>> /\ g[0] = <<>>
    BY <1>1, <1>3, Zenon DEF Remains, Grows
  <2>2. Len(<<>>) = 0 /\ <<>> \in Seq(Lines) /\ 1..0 = {}
    OBVIOUS
  <2>3. KeysOf(<<>>, keys) = <<>>
    BY <2>2, NoneFound
  <2>4. Fine(0)
    BY <2>1, <2>2, <2>3 DEF Fine
  <2> QED
    BY <2>4
<1>5. \A k \in Nat : k \in Good => k + 1 \in Good
  <2> SUFFICES ASSUME NEW k \in Nat, k + 1 <= n, Fine(k) PROVE Fine(k + 1)
    OBVIOUS
  <2> USE DEF Fine
  <2> PICK line : line = m[k + 1]
    OBVIOUS
  <2> PICK s : s = f[k]
    OBVIOUS
  <2>1. k + 1 \in 1..n /\ (k + 1) - 1 = k /\ line \in Lines
    OBVIOUS
  <2>2. f[k + 1] = IF Entry!IsAiTrailerLine(line) THEN s ELSE Append(s, line)
    BY <1>1, <2>1 DEF Remains, WithLine
  <2>3. g[k + 1] = IF line.key \in keys THEN Append(g[k], line.key) ELSE g[k]
    BY <1>3, <2>1 DEF Grows
  <2>4. Entry!IsAiTrailerLine(line) <=> line.key = "co-authored-by"
    BY <2>1, AiLines
  <2>5. s \in Seq(Lines) /\ Len(s) \in Nat
    OBVIOUS
  <2>6. CASE line.key = "co-authored-by"
    <3>1. f[k + 1] = s /\ g[k + 1] = g[k]
      BY <2>2, <2>3, <2>4, <2>6
    <3>2. ~(\A i \in 1..(k + 1) : m[i].key # "co-authored-by")
      BY <2>6
    <3> QED
      BY <3>1, <3>2
  <2>7. CASE line.key # "co-authored-by"
    <3>1. f[k + 1] = Append(s, line)
      BY <2>2, <2>4, <2>7
    <3> PICK t : t = Append(s, line)
      OBVIOUS
    <3>2. t \in Seq(Lines) /\ Len(t) = Len(s) + 1 /\ t[Len(s) + 1] = line /\ \A i \in 1..Len(s) : t[i] = s[i]
      BY <2>1, <2>5, AppendProperties
    <3>3. \A i \in 1..Len(t) : t[i].key # "co-authored-by"
      <4>1. \A i \in 1..Len(t) : i \in 1..Len(s) \/ i = Len(s) + 1
        BY <2>5, <3>2
      <4> QED
        BY <2>7, <3>2, <4>1
    <3>4. KeysOf(t, keys) = IF line.key \in keys THEN Append(KeysOf(s, keys), line.key) ELSE KeysOf(s, keys)
      <4>1. OneMore(s, line, keys)
        BY <2>1, <2>5, KeysAppend
      <4> QED
        BY <4>1 DEF OneMore
    <3>5. KeysOf(t, keys) = g[k + 1]
      BY <2>3, <3>4
    <3>6. ASSUME \A i \in 1..(k + 1) : m[i].key # "co-authored-by"
          PROVE  Len(t) = k + 1 /\ \A i \in 1..(k + 1) : t[i] = m[i]
      <4>1. \A i \in 1..k : i \in 1..(k + 1)
        OBVIOUS
      <4>2. Len(s) = k /\ \A i \in 1..k : s[i] = m[i]
        BY <3>6, <4>1
      <4>3. \A i \in 1..(k + 1) : i \in 1..k \/ i = k + 1
        OBVIOUS
      <4> QED
        BY <3>2, <4>2, <4>3
    <3> QED
      BY <3>1, <3>2, <3>3, <3>5, <3>6
  <2> QED
    BY <2>6, <2>7
<1> HIDE DEF Good
<1>6. Nat \subseteq Good
  BY <1>4, <1>5, SetInduction
<1>7. Fine(n)
  BY <1>6 DEF Good
<1> PICK u : u = f[n]
  OBVIOUS
<1>8. (\A i \in 1..n : m[i].key # "co-authored-by") => u = m
  <2> SUFFICES ASSUME \A i \in 1..n : m[i].key # "co-authored-by" PROVE u = m
    OBVIOUS
  <2>1. u \in Seq(Lines) /\ Len(u) = Len(m) /\ \A i \in 1..Len(m) : u[i] = m[i]
    BY <1>7 DEF Fine
  <2> QED
    BY <2>1, SeqEqual
<1> QED
  BY <1>1, <1>2, <1>7, <1>8 DEF LeftRight, Fine

\* What strip_attribution makes of a message.
StripRight(s, m) ==
  /\ Written(s)
  /\ \A i \in 1..Len(s) : s[i].end # "CRLF" /\ s[i].key # "co-authored-by"
  /\ KeysOf(s, {"", "signed-off-by"}) = KeysOf(m, {"", "signed-off-by"})

\* strip_attribution takes the trailers of an AI, and nothing else that is said.
LEMMA StripGives ==
  ASSUME NEW m, Written(m)
  PROVE  StripRight(Entry!StripAttribution(m), m)
<1>k. PICK keys : keys = {"", "signed-off-by"}
  OBVIOUS
<1>u. PICK u : u = Entry!Unattributed(m)
  OBVIOUS
<1> DEFINE ended == m # <<>> /\ m[Len(m)].end # ""
<1> HIDE DEF ended
<1> DEFINE cut == ~ended /\ u # <<>> /\ u[Len(u)].key = "empty"
<1> HIDE DEF cut
<1>n. PICK n : n = IF cut THEN Len(u) - 1 ELSE Len(u)
  OBVIOUS
<1> DEFINE Line(i) == [key |-> u[i].key, end |-> IF i < Len(u) \/ ended THEN "LF" ELSE ""]
<1> HIDE DEF Line
<1>s. PICK s : s = [i \in 1..n |-> Line(i)]
  OBVIOUS
<1>1. Entry!StripAttribution(m) = IF u = <<>> /\ ended THEN <<Entry!EmptyLine>> ELSE s
  BY <1>u, <1>n, <1>s, Zenon DEF Entry!StripAttribution, Line, ended, cut
<1>2. /\ u \in Seq(Lines)
      /\ \A i \in 1..Len(u) : u[i].key # "co-authored-by"
      /\ KeysOf(u, keys) = KeysOf(m, keys)
  <2>1. LeftRight(u, m, keys)
    BY <1>u, <1>k, LeftGives DEF Written
  <2> QED
    BY <2>1 DEF LeftRight
<1>3. CASE u = <<>> /\ ended
  <2>0. PICK e : e = <<Entry!EmptyLine>>
    OBVIOUS
  <2>1. Len(e) = 1 /\ e[1].key = "empty" /\ e[1].end = "LF" /\ e[1] \in Lines
    BY <2>0 DEF Entry!EmptyLine, Lines, LineKeys
  <2>2. \A i \in 1..Len(e) : i = 1
    BY <2>1
  <2>3. Written(e)
    <3>1. e \in Seq(Lines)
      BY <2>0, <2>1
    <3> QED
      BY <2>1, <2>2, <3>1 DEF Written
  <2>4. KeysOf(e, keys) = <<>>
    <3>0. "empty" \notin keys
      BY <1>k
    <3>1. Len(e) \in Nat /\ \A i \in 1..Len(e) : e[i].key \notin keys
      BY <2>1, <2>2, <3>0
    <3> QED
      BY <3>1, NoneFound
  <2>5. KeysOf(u, keys) = <<>>
    <3>1. Len(u) \in Nat /\ \A i \in 1..Len(u) : u[i].key \notin keys
      BY <1>3
    <3> QED
      BY <3>1, NoneFound
  <2>6. \A i \in 1..Len(e) : e[i].end # "CRLF" /\ e[i].key # "co-authored-by"
    BY <2>1, <2>2
  <2>7. StripRight(e, m)
    BY <1>2, <1>k, <2>3, <2>4, <2>5, <2>6 DEF StripRight
  <2> QED
    BY <1>1, <1>3, <2>0, <2>7
<1>4. CASE ~(u = <<>> /\ ended)
  <2>a. u \in Seq(Lines)
    BY <1>2
  <2>b. Len(u) \in Nat /\ (u # <<>> <=> Len(u) > 0)
    BY <2>a
  <2>0. Len(u) \in Nat /\ (cut => Len(u) > 0)
    BY <2>b DEF cut
  <2>1. n \in Nat /\ n <= Len(u) /\ (cut => n = Len(u) - 1) /\ (~cut => n = Len(u))
    BY <1>n, <2>0
  <2>c. n \in Nat
    BY <2>1
  <2>d. Len(s) = n /\ s = [i \in 1..n |-> s[i]] /\ \A i \in 1..n : s[i] = Line(i)
    BY <1>s, <2>c
  <2>e. \A i \in 1..n : i \in 1..Len(u)
    BY <2>0, <2>1
  <2>f. \A i \in 1..n : u[i] \in Lines
    BY <2>a, <2>e
  <2>2. \A i \in 1..n : s[i].key = u[i].key /\ s[i].end = IF i < Len(u) \/ ended THEN "LF" ELSE ""
    <3>1. ASSUME NEW i PROVE Line(i).key = u[i].key /\ Line(i).end = IF i < Len(u) \/ ended THEN "LF" ELSE ""
      BY Zenon DEF Line
    <3> QED
      BY <2>d, <3>1
  <2>3. s \in Seq(Lines)
    <3>1. \A i \in 1..n : s[i] \in Lines
      <4> SUFFICES ASSUME NEW i \in 1..n PROVE s[i] \in Lines
        OBVIOUS
      <4>1. u[i].key \in LineKeys
        BY <2>f DEF Lines
      <4>2. Line(i) \in Lines
        BY <4>1 DEF Line, Lines
      <4> QED
        BY <2>d, <4>2
    <3> QED
      BY <2>c, <2>d, <3>1
  <2>4. Written(s)
    <3>1. ASSUME NEW i \in 1..n, s[i].end = "" PROVE i = n /\ s[i].key # "empty"
      <4>1. ~(i < Len(u)) /\ ~ended
        BY <2>2, <3>1
      <4>2. i \in 1..Len(u)
        BY <2>e
      <4>3. i = Len(u)
        BY <2>b, <4>1, <4>2
      <4>4. u # <<>>
        BY <2>b, <4>2, <4>3
      <4>5. ~cut
        <5>1. i <= n
          BY <2>c
        <5> QED
          BY <2>0, <2>1, <4>3, <5>1
      <4>6. i = n
        BY <2>1, <4>3, <4>5
      <4>7. u[i].key # "empty"
        BY <4>1, <4>3, <4>4, <4>5 DEF cut
      <4> QED
        BY <2>2, <4>6, <4>7
    <3> QED
      BY <2>3, <2>d, <3>1 DEF Written
  <2>5. KeysOf(s, keys) = KeysOf(u, keys)
    <3>1. CASE ~cut
      <4>1. \A i \in 1..Len(u) : s[i].key = u[i].key
        BY <2>1, <2>2, <3>1
      <4>2. Len(s) = Len(u)
        BY <2>1, <2>d, <3>1
      <4>3. KeysOf(u, keys) = KeysOf(s, keys)
        BY <2>0, <4>1, <4>2, SameKeys
      <4> QED
        BY <4>3
    <3>2. CASE cut
      <4>a. PICK front : front = SubSeq(u, 1, n)
        OBVIOUS
      <4>b. PICK line : line = u[Len(u)]
        OBVIOUS
      <4>1. front \in Seq(Lines) /\ Len(front) = n /\ \A i \in 1..n : front[i] = u[i]
        BY <1>2, <2>0, <2>1, <4>a
      <4>2. line \in Lines /\ line.key = "empty"
        <5>1. Len(u) \in 1..Len(u)
          BY <2>0, <3>2
        <5> QED
          BY <2>a, <3>2, <4>b, <5>1 DEF cut
      <4>3. u = Append(front, line)
        <5> PICK t : t = Append(front, line)
          OBVIOUS
        <5>1. t \in Seq(Lines) /\ Len(t) = n + 1 /\ t[n + 1] = line /\ \A i \in 1..n : t[i] = front[i]
          BY <4>1, <4>2, AppendProperties
        <5>2. Len(u) = n + 1
          BY <2>0, <2>1, <3>2
        <5>3. \A i \in 1..Len(u) : u[i] = t[i]
          <6>1. \A i \in 1..Len(u) : i \in 1..n \/ i = n + 1
            BY <2>1, <5>2
          <6> QED
            BY <4>1, <4>b, <5>1, <5>2, <6>1
        <5> QED
          BY <1>2, <5>1, <5>2, <5>3, SeqEqual
      <4>4. OneMore(front, line, keys)
        BY <4>1, <4>2, KeysAppend
      <4>5. KeysOf(u, keys) = KeysOf(front, keys)
        <5>1. line.key \notin keys
          BY <1>k, <4>2
        <5> QED
          BY <4>3, <4>4, <5>1 DEF OneMore
      <4>6. \A i \in 1..Len(front) : front[i].key = s[i].key
        BY <2>2, <4>1
      <4>7. KeysOf(front, keys) = KeysOf(s, keys)
        <5>1. Len(s) = Len(front) /\ Len(front) \in Nat
          BY <2>c, <2>d, <4>1
        <5> QED
          BY <4>6, <5>1, SameKeys, Zenon
      <4> QED
        BY <4>5, <4>7
    <3> QED
      BY <3>1, <3>2
  <2>6. \A i \in 1..Len(s) : s[i].end # "CRLF" /\ s[i].key # "co-authored-by"
    <3> SUFFICES ASSUME NEW i \in 1..n PROVE s[i].end # "CRLF" /\ s[i].key # "co-authored-by"
      BY <2>d
    <3>1. u[i].key # "co-authored-by"
      BY <1>2, <2>e
    <3> QED
      BY <2>2, <3>1
  <2>7. StripRight(s, m)
    BY <1>2, <1>k, <2>4, <2>5, <2>6 DEF StripRight
  <2> QED
    BY <1>1, <1>4, <2>7
<1> QED
  BY <1>3, <1>4

\* A message without trailers of an AI and with LF alone is left as it is.
LEMMA StripLeaves ==
  ASSUME NEW m, Written(m),
         \A i \in 1..Len(m) : m[i].end # "CRLF" /\ m[i].key # "co-authored-by"
  PROVE  Entry!StripAttribution(m) = m
<1>u. PICK u : u = Entry!Unattributed(m)
  OBVIOUS
<1> DEFINE ended == m # <<>> /\ m[Len(m)].end # ""
<1> HIDE DEF ended
<1>n. PICK n : n = IF ~ended /\ u # <<>> /\ u[Len(u)].key = "empty" THEN Len(u) - 1 ELSE Len(u)
  OBVIOUS
<1> DEFINE Line(i) == [key |-> u[i].key, end |-> IF i < Len(u) \/ ended THEN "LF" ELSE ""]
<1> HIDE DEF Line
<1>s. PICK s : s = [i \in 1..n |-> Line(i)]
  OBVIOUS
<1>1. Entry!StripAttribution(m) = IF u = <<>> /\ ended THEN <<Entry!EmptyLine>> ELSE s
  BY <1>u, <1>n, <1>s, Zenon DEF Entry!StripAttribution, Line, ended
<1>2. u = m
  <2>1. m \in Seq(Lines)
    BY DEF Written
  <2>k. PICK keys : keys = {"", "signed-off-by"}
    OBVIOUS
  <2>2. LeftRight(u, m, keys)
    BY <1>u, <2>1, <2>k, LeftGives
  <2> QED
    BY <2>2 DEF LeftRight
<1>3. m \in Seq(Lines) /\ Len(m) \in Nat /\ (m # <<>> => Len(m) \in 1..Len(m))
  <2>1. m \in Seq(Lines)
    BY DEF Written
  <2> QED
    BY <2>1
<1>4. \A i \in 1..Len(m) : m[i].end = "" => i = Len(m) /\ m[i].key # "empty"
  BY DEF Written
<1>5. ~(u = <<>> /\ ended)
  BY <1>2 DEF ended
<1>6. n = Len(m)
  BY <1>2, <1>3, <1>4, <1>n DEF ended
<1>7. \A i \in 1..Len(m) : s[i] = m[i]
  <2> SUFFICES ASSUME NEW i \in 1..Len(m) PROVE s[i] = m[i]
    OBVIOUS
  <2>0. m[i] \in Lines
    BY <1>3
  <2>1. m[i] \in Lines /\ m[i].end \in {"LF", ""}
    BY <2>0 DEF Lines
  <2>2. m[i] = [key |-> m[i].key, end |-> m[i].end]
    BY <2>1 DEF Lines
  <2>3. s[i] = [key |-> m[i].key, end |-> IF i < Len(m) \/ ended THEN "LF" ELSE ""]
    BY <1>2, <1>6, <1>s DEF Line
  <2>4. m[i].end = IF i < Len(m) \/ ended THEN "LF" ELSE ""
    <3>0. i <= Len(m) /\ Len(m) \in Nat
      BY <1>3
    <3>1. CASE m[i].end = ""
      <4>1. i = Len(m) /\ ~ended
        BY <1>4, <3>1 DEF ended
      <4>2. ~(i < Len(m))
        BY <3>0, <4>1
      <4> QED
        BY <3>1, <4>1, <4>2
    <3>2. CASE m[i].end = "LF"
      <4>1. CASE i = Len(m)
        <5>1. m # <<>>
          BY <4>1
        <5> QED
          BY <3>2, <4>1, <5>1 DEF ended
      <4>2. CASE i < Len(m)
        BY <3>2, <4>2
      <4>3. i = Len(m) \/ i < Len(m)
        BY <3>0
      <4> QED
        BY <4>1, <4>2, <4>3
    <3> QED
      BY <2>1, <3>1, <3>2
  <2> QED
    BY <2>2, <2>3, <2>4
<1>8. s = m
  <2>0. s = [i \in 1..Len(m) |-> s[i]]
    BY <1>6, <1>s
  <2>1. m = [i \in 1..Len(m) |-> m[i]]
    <3>1. m \in Seq(Lines)
      BY <1>3
    <3> QED
      BY <3>1
  <2> QED
    BY <1>7, <2>0, <2>1, Zenon
<1> QED
  BY <1>1, <1>5, <1>8

\* Lines that all end, with one behind them that does not, are a message.
AllEnd(m) == \A i \in 1..Len(m) : m[i].end # ""

\* A last line without an end may follow.
LEMMA OpenEnd ==
  ASSUME NEW a \in Seq(Lines), AllEnd(a),
         NEW line \in Lines, line.key # "empty"
  PROVE  Written(Append(a, line))
<1>b. PICK t : t = Append(a, line)
  OBVIOUS
<1>a. Len(a) \in Nat
  OBVIOUS
<1>1. t \in Seq(Lines) /\ Len(t) = Len(a) + 1 /\ t[Len(a) + 1] = line /\ \A i \in 1..Len(a) : t[i] = a[i]
  BY <1>b, AppendProperties
<1>2. \A i \in 1..Len(t) : i \in 1..Len(a) \/ i = Len(t)
  BY <1>a, <1>1
<1>3. ASSUME NEW i \in 1..Len(t), t[i].end = "" PROVE i = Len(t) /\ t[i].key # "empty"
  <2>1. i \notin 1..Len(a)
    BY <1>1, <1>3 DEF AllEnd
  <2>2. i = Len(t)
    BY <1>2, <2>1
  <2> QED
    BY <1>1, <2>2
<1> QED
  BY <1>b, <1>1, <1>3 DEF Written

\* The messages of the calls are messages.
LEMMA MessagesWritten ==
  ASSUME NEW m \in CommitMessages
  PROVE  Written(m)
<1>0. PICK a \in SeqsUpTo(MessageLines, MaxLines) : m = a \/ \E line \in OpenLines : m = Append(a, line)
  BY DEF CommitMessages
<1>1. a \in Seq(MessageLines)
  BY CallBounds, SeqsAreSeqs
<1>2. MessageLines \subseteq Lines
  BY DEF MessageLines, Lines, LineKeys
<1>3. a \in Seq(Lines)
  BY <1>1, <1>2
<1>4. AllEnd(a)
  <2>1. \A i \in 1..Len(a) : a[i] \in MessageLines
    BY <1>1
  <2>2. \A line \in MessageLines : line.end # ""
    BY DEF MessageLines
  <2> QED
    BY <2>1, <2>2 DEF AllEnd
<1>5. CASE m = a
  BY <1>3, <1>4, <1>5 DEF Written, AllEnd
<1>6. ASSUME NEW line \in OpenLines, m = Append(a, line) PROVE Written(m)
  <2>1. line \in Lines /\ line.key # "empty"
    BY DEF OpenLines, Lines, LineKeys
  <2> QED
    BY <1>3, <1>4, <1>6, <2>1, OpenEnd
<1> QED
  BY <1>0, <1>5, <1>6

\* What the hook has made of a message m, and of that once more.
HookKeeps(m, strips, exit, lines, again) ==
  /\ KeysOf(lines, {"", "signed-off-by"}) = KeysOf(m, {"", "signed-off-by"})
  /\ exit = 0 => KeysOf(lines, {"co-authored-by"}) = IF strips THEN <<>> ELSE KeysOf(m, {"co-authored-by"})
  /\ exit # 0 \/ ~strips \/ (KeysOf(m, {"co-authored-by"}) = <<>> /\ ~\E i \in DOMAIN m : m[i].end = "CRLF") => lines = m
  /\ again = lines

\* The answer for a message that can be read.
HookLeaves(config, m, writable, s, after) ==
  after = IF ~Entry!LoadConfig(config) \/ s = m THEN [exit |-> 0, message |-> Entry!Ok(m)]
          ELSE IF writable THEN [exit |-> 0, message |-> Entry!Ok(s)]
          ELSE [exit |-> 1, message |-> Entry!Ok(m)]

\* on_commit_msg of a message that can be read.
LEMMA HookGives ==
  ASSUME NEW config, NEW m, NEW writable
  PROVE  HookLeaves(config, m, writable, Entry!StripAttribution(m), Entry!OnCommitMsg(config, Entry!Ok(m), writable))
<1> PICK s : s = Entry!StripAttribution(m)
  OBVIOUS
<1>1. Entry!Ok(m).err = "" /\ Entry!Ok(m).value = m
  BY DEF Entry!Ok
<1>2. Entry!Ok(s) = Entry!Ok(m) <=> s = m
  BY DEF Entry!Ok
<1> QED
  BY <1>1, <1>2 DEF HookLeaves, Entry!OnCommitMsg

\* on_commit_msg, and once more on what it has left.
LEMMA HookRight ==
  ASSUME NEW config, NEW m, Written(m), NEW writable \in BOOLEAN,
         NEW once, once = Entry!OnCommitMsg(config, Entry!Ok(m), writable),
         NEW twice, twice = Entry!OnCommitMsg(config, once.message, writable)
  PROVE  HookKeeps(m, Entry!LoadConfig(config), once.exit, once.message.value, twice.message.value)
<1> DEFINE strips == Entry!LoadConfig(config)
<1> HIDE DEF strips
<1>s. PICK s : s = Entry!StripAttribution(m)
  OBVIOUS
<1>1. StripRight(s, m)
  BY <1>s, StripGives
<1>2. Entry!StripAttribution(s) = s
  BY <1>1, StripLeaves DEF StripRight
<1>3. HookLeaves(config, m, writable, s, once)
  BY <1>s, HookGives
<1>4. \A t : Entry!Ok(t).value = t
  BY DEF Entry!Ok
<1>5. m \in Seq(Lines)
  BY DEF Written
<1>6. KeysOf(s, {"co-authored-by"}) = <<>>
  <2>1. s \in Seq(Lines) /\ \A i \in 1..Len(s) : s[i].key # "co-authored-by"
    BY <1>1 DEF StripRight, Written
  <2>2. Len(s) \in Nat
    BY <2>1
  <2>3. \A i \in 1..Len(s) : s[i].key \notin {"co-authored-by"}
    BY <2>1
  <2> QED
    BY <2>2, <2>3, NoneFound
<1>7. ASSUME KeysOf(m, {"co-authored-by"}) = <<>>, ~\E i \in DOMAIN m : m[i].end = "CRLF" PROVE s = m
  <2>1. Len(m) \in Nat /\ DOMAIN m = 1..Len(m)
    BY <1>5
  <2>2. \A i \in 1..Len(m) : m[i].key \notin {"co-authored-by"}
    BY <1>7, <2>1, NoneFound
  <2>3. \A i \in 1..Len(m) : m[i].end # "CRLF" /\ m[i].key # "co-authored-by"
    BY <1>7, <2>1, <2>2
  <2> QED
    BY <1>s, <2>3, StripLeaves
<1>8. CASE ~strips \/ s = m
  <2>1. once.exit = 0 /\ once.message = Entry!Ok(m)
    BY <1>3, <1>8 DEF HookLeaves, strips
  <2>2. HookLeaves(config, m, writable, s, twice)
    BY <1>s, <2>1, HookGives
  <2>3. twice.message = Entry!Ok(m)
    BY <1>8, <2>2 DEF HookLeaves, strips
  <2>4. once.message.value = m /\ twice.message.value = m
    BY <1>4, <2>1, <2>3
  <2>5. strips => KeysOf(m, {"co-authored-by"}) = <<>>
    BY <1>6, <1>8
  <2> QED
    BY <2>1, <2>4, <2>5 DEF HookKeeps, strips
<1>9. CASE strips /\ s # m /\ writable
  <2>1. once.exit = 0 /\ once.message = Entry!Ok(s)
    BY <1>3, <1>9 DEF HookLeaves, strips
  <2>2. HookLeaves(config, s, writable, s, twice)
    BY <1>2, <2>1, HookGives
  <2>3. twice.message = Entry!Ok(s)
    BY <2>2 DEF HookLeaves
  <2>4. once.message.value = s /\ twice.message.value = s
    BY <1>4, <2>1, <2>3
  <2>5. KeysOf(s, {"", "signed-off-by"}) = KeysOf(m, {"", "signed-off-by"})
    BY <1>1 DEF StripRight
  <2> QED
    BY <1>6, <1>7, <1>9, <2>1, <2>4, <2>5 DEF HookKeeps, strips
<1>10. CASE strips /\ s # m /\ ~writable
  <2>1. once.exit = 1 /\ once.message = Entry!Ok(m)
    BY <1>3, <1>10 DEF HookLeaves, strips
  <2>2. HookLeaves(config, m, writable, s, twice)
    BY <1>s, <2>1, HookGives
  <2>3. twice.message = Entry!Ok(m)
    BY <1>10, <2>2 DEF HookLeaves, strips
  <2>4. once.message.value = m /\ twice.message.value = m
    BY <1>4, <2>1, <2>3
  <2> QED
    BY <1>6, <1>7, <1>10, <2>1, <2>4 DEF HookKeeps, strips
<1> QED
  BY <1>8, <1>9, <1>10

\* What the action gives of a message.
LEMMA MessageAnswers ==
  ASSUME RewriteMessage
  PROVE  \E m, strips, exit, lines, again :
           /\ HookKeeps(m, strips, exit, lines, again)
           /\ call' = [name |-> "message", input |-> [lines |-> m, strips |-> strips],
                       output |-> [exit |-> exit, lines |-> lines, again |-> again]]
<1>1. PICK m \in CommitMessages, strip \in BOOLEAN, parses \in BOOLEAN, writable \in BOOLEAN :
        LET config == [readable |-> TRUE, parses |-> parses, stripAttribution |-> strip]
            hook(message) == Entry!OnCommitMsg(config, message, writable)
            once == hook(Entry!Ok(m))
        IN  Answer("message", [lines |-> m, strips |-> parses => strip],
                   [exit |-> once.exit, lines |-> once.message.value, again |-> hook(once.message).message.value])
  BY Zenon DEF RewriteMessage
<1>a. PICK config : config = [readable |-> TRUE, parses |-> parses, stripAttribution |-> strip]
  OBVIOUS
<1>b. PICK once : once = Entry!OnCommitMsg(config, Entry!Ok(m), writable)
  OBVIOUS
<1>c. PICK twice : twice = Entry!OnCommitMsg(config, once.message, writable)
  OBVIOUS
<1>2. Written(m)
  BY MessagesWritten
<1>3. HookKeeps(m, Entry!LoadConfig(config), once.exit, once.message.value, twice.message.value)
  BY <1>2, <1>b, <1>c, HookRight
<1>4. Entry!LoadConfig(config) = (parses => strip)
  BY <1>a DEF Entry!LoadConfig
<1>5. HookKeeps(m, parses => strip, once.exit, once.message.value, twice.message.value)
  BY <1>3, <1>4, Zenon
<1>6. call' = [name |-> "message", input |-> [lines |-> m, strips |-> parses => strip],
               output |-> [exit |-> once.exit, lines |-> once.message.value, again |-> twice.message.value]]
  BY <1>1, <1>a, <1>b, <1>c, Zenon DEF Answer
<1> QED
  BY <1>5, <1>6, Zenon

\* The commit-msg hook keeps the message, of any number of lines, but for what it is to take.
THEOREM CommitMessageKeptCorrect == CallSpec => []CommitMessageKept
<1>1. CallInit => CommitMessageKept
  BY DEF CallInit, NoCall, CommitMessageKept
<1>2. CommitMessageKept /\ [CallNext]_callVars => CommitMessageKept'
  <2> SUFFICES ASSUME CommitMessageKept, [CallNext]_callVars
               PROVE  CommitMessageKept'
    OBVIOUS
  <2>1. CASE call' = call
    BY <2>1 DEF CommitMessageKept
  <2>2. CASE Call
    <3>1. CASE call'.name # "message"
      BY <3>1 DEF CommitMessageKept
    <3>2. CASE call'.name = "message"
      <4>1. RewriteMessage
        BY <2>2, <3>2, CallNames DEF NamedAs
      <4>2. PICK m, strips, exit, lines, again :
              /\ HookKeeps(m, strips, exit, lines, again)
              /\ call' = [name |-> "message", input |-> [lines |-> m, strips |-> strips],
                          output |-> [exit |-> exit, lines |-> lines, again |-> again]]
        BY <4>1, MessageAnswers
      <4>3. /\ call'.input.lines = m /\ call'.input.strips = strips
            /\ call'.output.exit = exit /\ call'.output.lines = lines /\ call'.output.again = again
        BY <4>2
      <4>4. HookKeeps(call'.input.lines, call'.input.strips, call'.output.exit, call'.output.lines, call'.output.again)
        BY <4>2, <4>3
      <4> QED
        BY <4>4, Zenon DEF CommitMessageKept, HookKeeps
    <3> QED
      BY <3>1, <3>2
  <2> QED
    BY <2>1, <2>2, CallSteps
<1> QED
  BY <1>1, <1>2, PTL DEF CallSpec
=============================================================================
