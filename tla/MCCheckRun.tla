------------------------------ MODULE MCCheckRun ------------------------------
(* Small instances of CheckRun for TLC. *)
EXTENDS CheckRun

CONSTANTS c, h,  \* 8v check, and the pre-commit hook
          d1, d2 \* diagnostics
CheckAndHook == {c, h}
OneHook == {h}
TwoIds == {d1, d2}

Tool == [node |-> FALSE, scripts |-> FALSE, optional |-> FALSE, skips |-> FALSE, finds |-> {d1}]
Optional == [node |-> FALSE, scripts |-> FALSE, optional |-> TRUE, skips |-> FALSE, finds |-> {}]
Node == [node |-> TRUE, scripts |-> FALSE, optional |-> TRUE, skips |-> TRUE, finds |-> {}]
Shell == [node |-> FALSE, scripts |-> TRUE, optional |-> FALSE, skips |-> FALSE, finds |-> {}]

\* Below the hook there may be nothing, a project with two checks, or two projects.
HookTrees == {<<>>, <<<<Optional, Node>>>>, <<<<Node>>, <<Shell>>>>}
SomeTrees == [p \in CheckAndHook |-> IF p = c THEN {<<<<Tool>>>>} ELSE HookTrees]

TwoEarlier == {{d1}, {d2}}

IoFaults == {"io"}
=============================================================================
