------------------------------- MODULE MCSetup -------------------------------
(* Projects and answers for Setup: a plain project with what matters of one *)
(* or two of its files varied, and what a user may answer.                  *)
EXTENDS Setup

Plain ==
  [config |-> NoFile, registry |-> NoFile, mcp |-> NoFile, claude |-> NoFile,
   agents |-> NoFile, aider |-> NoFile, git |-> "repository", precommit |-> NoFile,
   commitmsg |-> NoFile, settings |-> NoFile]

Texts ==
  {NoFile, <<>>, <<"own">>, <<"own", "old", "section", "end", "own">>,
   <<"own", "cur", "section", "end">>, <<"own", "8v", "own", "heading", "own">>,
   <<"own", "old", "section">>}
Mcps == {NoFile, Blank, Broken, NotAnObject, [servers |-> NotAnObject],
         [servers |-> {}], [servers |-> {"8v"}], [servers |-> {"other"}]}
OwnSettings ==
  [allow |-> <<"own">>, deny |-> <<"own", "Read">>,
   hooks |-> << <<"PreToolUse", "own">>, <<"PreToolUse", "hook pre">> >>,
   keys |-> {"top", "permissions", "hook"}]
AllSettings == {NoFile, Blank, Broken, NotAnObject, NoSettings, OwnSettings}
GitHooks ==
  {NoFile, [lines |-> <<"#!", "own">>, x |-> TRUE],
   [lines |-> <<"#!", "on-commit", "own">>, x |-> FALSE],
   [lines |-> <<"#!", "on-commit-msg">>, x |-> TRUE]}

SomeProjects ==
  {[Plain EXCEPT !.claude = c, !.agents = a] : c, a \in Texts}
    \cup {[Plain EXCEPT !.mcp = m, !.settings = s] : m \in Mcps, s \in AllSettings}
    \cup {[Plain EXCEPT !.precommit = p, !.commitmsg = c] : p, c \in GitHooks}
    \cup {[Plain EXCEPT !.git = NoFile, !.registry = r, !.aider = a, !.config = c] :
            r \in {NoFile, <<>>, << <<"v">> >>, << <<"v", "wx">> >>},
            a \in {NoFile, "own", "history"}, c \in {NoFile, "own"}}

Everything == {"mcp", "claude", "agents", "aider", "precommit", "commitmsg"}

\* --yes with and without a terminal, and two users.
SomeAnswers ==
  {[yes |-> TRUE, terminal |-> FALSE, home |-> FALSE, wants |-> Everything,
    name |-> "8v", place |-> "skip"]}
    \cup {[yes |-> TRUE, terminal |-> TRUE, home |-> FALSE, wants |-> Everything,
          name |-> "8v", place |-> p] : p \in {"before", "after"}}
    \cup {[yes |-> FALSE, terminal |-> TRUE, home |-> TRUE, wants |-> Everything \cup {"hooks"},
          name |-> "8v-debug", place |-> "skip"],
         [yes |-> FALSE, terminal |-> TRUE, home |-> FALSE, wants |-> {"claude", "hooks"},
          name |-> "8v", place |-> "skip"],
         [yes |-> FALSE, terminal |-> FALSE, home |-> FALSE, wants |-> {},
          name |-> "8v", place |-> "skip"]}
=============================================================================
