---------------------------- MODULE MCFileUpdates ----------------------------
(* A small instance of FileUpdates for TLC. *)
EXTENDS FileUpdates

CONSTANTS w1, w2

TwoProcs == {w1, w2}
CrashOnly == {"crash"}

A == <<"a">>
Contents == {A, <<"LF">>, <<"a", "LF", "b">>, <<"a", "BS", "n">>, <<"a", "LF", "LF">>, <<"CR">>}
Ranges == {<<>>, <<NaN>>, <<0>>, <<1>>, <<2>>, <<3>>, <<1, 2>>, <<2, 1>>, <<1, NaN>>}

Args(ranges, flags, contents, finds, withs) ==
  [suffix : ranges, flags : flags, content : contents, find : finds, replace : withs]
Some(S) == {<<x>> : x \in S}
No == {<<>>}

AnyArgs ==
  Args(Ranges, {{}, {"insert"}}, Some(Contents) \cup No, No, No)
  \cup Args(Ranges, {{"delete"}}, No \cup {<<A>>}, No, No)
  \cup Args({<<>>, <<1>>}, {{"append"}, {"force"}, {"append", "delete"}}, Some(Contents), No, No)
  \cup Args({<<>>, <<1>>}, {{}, {"all"}}, No,
            Some({<<>>, A, <<"BS", "n">>, <<"a", "BS", "n">>}), No \cup Some({<<>>, <<"BS", "n">>, <<"b", "a">>}))

\* The other one appends twice as often as it edits.
OtherArgs ==
  Args({<<>>}, {{"append"}}, {<<<<"b">>>>, <<<<"b", "LF">>>>}, No, No)
  \cup Args({<<1>>}, {{"insert"}}, {<<<<"b">>>>}, No, No)

TheMenu == w1 :> AnyArgs @@ w2 :> OtherArgs
SomeTexts == SeqOf({"a", "LF"}, 3) \cup
  {<<"a", "CR", "LF">>, <<"CR", "LF", "a">>, <<"a", "CR", "LF", "a">>, <<"a", "CR">>,
   <<"CR", "LF", "CR", "LF">>, <<"a", "CR", "LF", "LF">>, <<"a", "LF", "b", "LF">>}
=============================================================================
