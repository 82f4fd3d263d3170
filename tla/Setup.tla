-------------------------------- MODULE Setup --------------------------------
(***************************************************************************)
(* `8v init`: the files of a project it creates or merges, one after       *)
(* another (o8v/src/init/, o8v/src/hooks/git_install.rs and                *)
(* claude_install.rs, o8v/src/workspace/mod.rs).                           *)
(*                                                                         *)
(* Runs follow each other.  Any of them may be cut short, by a crash, an   *)
(* error or ^C, between two steps or inside a write, which first empties   *)
(* the file and then fills it.                                             *)
(***************************************************************************)
EXTENDS Naturals, Sequences, SequencesExt, FiniteSetsExt

CONSTANTS
  NoFile,      \* of a path where nothing is
  Blank,       \* a file of white space
  Broken,      \* a text that is not JSON
  NotAnObject, \* JSON of another shape than a file of that name has
  Projects,    \* the files that may be there before the first run
  Answers,     \* what the user may ask for, see TypeOK
  MaxRuns      \* bound: runs of init

VARIABLES
  disk,     \* file -> content
  before,   \* the disk before the first run
  run,      \* the run in progress: its answers, its step, what it has written
  ended,    \* how the runs before it ended, with what they were asked and wrote
  torn      \* the files a run was writing when it was cut short

vars == <<disk, before, run, ended, torn>>

Steps == <<"config", "registry", "mcp", "claude", "agents", "aider",
           "precommit", "precommitMode", "commitmsg", "commitmsgMode",
           "hooks", "settings">>

-----------------------------------------------------------------------------
(* CLAUDE.md and AGENTS.md: a text is a sequence of lines.  "8v" is the    *)
(* heading of a block without marks, "old" and "cur" the begin marks of a  *)
(* block of that version, "cut" a begin mark without its end.              *)

Block == <<"cur", "section", "end">>
Begins == {"old", "cur", "cut"}
Headings == {"heading", "8v"}
TextLines == Begins \cup Headings \cup {"own", "section", "end"}
NoBlock == [found |-> "none"]
Malformed == [found |-> "malformed"]

FirstFrom(t, i, S) ==
  LET at == {k \in i .. Len(t) : t[k] \in S} IN IF at = {} THEN 0 ELSE Min(at)

FindSentinelBounds(t) ==
  LET b == FirstFrom(t, 1, Begins)
      e == FirstFrom(t, b + 1, {"end"})
  IN  IF b = 0 THEN NoBlock
      ELSE IF e = 0 \/ t[b] = "cut" THEN Malformed
      ELSE [found |-> t[b], first |-> b, last |-> e]

\* From the heading to the next one: a heading in the line below it is not seen,
\* because the search for "\n#" begins behind the line end.
FindLegacyMarkerBounds(t) ==
  LET b == FirstFrom(t, 1, {"8v"})
      e == FirstFrom(t, b + 2, Headings)
  IN  [first |-> b, last |-> IF e = 0 THEN Len(t) ELSE e - 1]

Splice(t, bounds) ==
  SubSeq(t, 1, bounds.first - 1) \o Block \o SubSeq(t, bounds.last + 1, Len(t))

UpsertVersionedBlock(t) ==
  LET found == FindSentinelBounds(t)
  IN  IF t = NoFile THEN Block
      ELSE IF found.found = "cur" THEN t
      ELSE IF found # NoBlock THEN Splice(t, found)
      ELSE IF Contains(t, "8v") THEN Splice(t, FindLegacyMarkerBounds(t))
      ELSE t \o Block

\* Mutation for DoneIsDone: a block of any version will do.
FileHasBlock(t) == t # NoFile /\ FindSentinelBounds(t).found \in Begins

FileHasCurrentBlock(t) == t # NoFile /\ FindSentinelBounds(t).found = "cur"
IsMalformed(t) == t # NoFile /\ FindSentinelBounds(t) = Malformed

-----------------------------------------------------------------------------
(* JSON files *)

AddMissing(seq, wanted) ==
  LET added[n \in 0..Len(wanted)] ==
        IF n = 0 THEN seq
        ELSE IF Contains(added[n - 1], wanted[n]) THEN added[n - 1]
        ELSE Append(added[n - 1], wanted[n])
  IN  added[Len(wanted)]

\* .mcp.json; a name that is there keeps its command.
McpTemplate(name) == [servers |-> {name}]
SetupMcpJson(doc, name) ==
  CASE doc \in {NoFile, Blank} -> McpTemplate(name)
    [] doc = NotAnObject -> doc
    [] OTHER -> [doc EXCEPT !.servers = @ \cup {name}]

\* .claude/settings.json; keys: what it has beside allow, deny and the commands
\* of the hooks, at the top, in "permissions", and in the entry of a hook.
McpToolPermission == <<"mcp__8v__8v">>
DeniedNativeTools == <<"Read", "Edit", "Write", "Glob", "Grep", "NotebookEdit">>
ClaudeHookEvents ==
  << <<"PreToolUse", "hooks claude pre-tool-use">>,
     <<"PostToolUse", "hooks claude post-tool-use">>,
     <<"PostToolUseFailure", "hooks claude post-tool-use-failure">>,
     <<"UserPromptSubmit", "hooks claude user-prompt-submit">>,
     <<"SessionStart", "hooks claude session-start">>,
     <<"Stop", "hooks claude stop">>,
     <<"SubagentStart", "hooks claude subagent-start">>,
     <<"SubagentStop", "hooks claude subagent-stop">> >>
ObservabilityHooks == << <<"PreToolUse", "hook pre">>, <<"PostToolUse", "hook post">> >>

NoSettings == [allow |-> <<>>, deny |-> <<>>, hooks |-> <<>>, keys |-> {}]
ReadSettings(doc) == IF doc \in {NoFile, Blank} THEN NoSettings ELSE doc

\* Permissions has two fields and nothing that catches the others; the entries
\* of hooks are only parsed, and stripped of other keys, by the hooks step.
MergePermissions(doc) ==
  LET s == ReadSettings(doc)
  IN  [s EXCEPT !.allow = AddMissing(@, McpToolPermission),
                !.deny  = AddMissing(@, DeniedNativeTools),
                !.keys  = @ \ {"permissions"}]

InstallClaudeHooks(doc) ==
  LET s == ReadSettings(doc)
  IN  [s EXCEPT !.hooks = AddMissing(@, ClaudeHookEvents \o ObservabilityHooks),
                !.allow = AddMissing(@, McpToolPermission),
                !.keys  = @ \ {"permissions", "hook"}]

-----------------------------------------------------------------------------
(* Git hooks: lines, and whether the file is executable *)

HookLine == [precommit |-> "on-commit", commitmsg |-> "on-commit-msg"]
ModeOf == [precommit |-> "precommitMode", commitmsg |-> "commitmsgMode"]

\* str::contains: the line of the commit-msg hook has the marker of the other.
HasMarker(lines, hook) ==
  \/ Contains(lines, HookLine[hook])
  \/ hook = "precommit" /\ Contains(lines, "on-commit-msg")

\* Mutation for SecondRunIsQuiet: the existing hook is not searched for the line.
InstallGitHookAgain(h, hook, place) ==
  IF h = NoFile THEN [lines |-> <<"#!", HookLine[hook]>>, x |-> FALSE]
  ELSE [h EXCEPT !.lines = @ \o <<HookLine[hook]>>]

\* Mutation for ForeignKept: without the prompt.
InstallGitHookOver(h, hook, place) ==
  IF h # NoFile /\ HasMarker(h.lines, hook) THEN h
  ELSE [lines |-> <<"#!", HookLine[hook]>>, x |-> FALSE]

\* "before" puts the line in front of the interpreter line.
InstallGitHook(h, hook, place) ==
  IF h = NoFile THEN [lines |-> <<"#!", HookLine[hook]>>, x |-> FALSE]
  ELSE IF HasMarker(h.lines, hook) \/ place = "skip" THEN h
  ELSE IF place = "before" THEN [h EXCEPT !.lines = <<HookLine[hook]>> \o @]
  ELSE [h EXCEPT !.lines = @ \o <<HookLine[hook]>>]

\* There is a prompt when a foreign hook is in the way, also with --yes.
Prompts(h, hook) == h # NoFile /\ ~HasMarker(h.lines, hook)

-----------------------------------------------------------------------------
(* workspaces.toml: the registered paths in order, sequences of names      *)

Here == <<"w">>

\* str::contains on the text of the file: Here is also found inside the path of
\* another project, above it ("/w/x"), below it ("/v/w") or beside it ("/wx").
StandsIn(path) == \E i \in DOMAIN path : path[i] \in {"w", "wx"}

RegisterWorkspace(paths) ==
  IF paths = NoFile THEN <<Here>>
  ELSE IF \E i \in DOMAIN paths : StandsIn(paths[i]) THEN paths
  ELSE Append(paths, Here)

-----------------------------------------------------------------------------
(* What a file may hold; of what belongs to the user one thing of a kind stands *)
(* for any. Nothing is asked of the files that are only looked for or replaced.  *)

Files == {"git", "config", "registry", "mcp", "claude", "agents", "aider",
          "precommit", "commitmsg", "settings"}
ReadFiles == Files \ {"git", "config", "aider"}
JsonFiles == {"mcp", "settings"}
NotJson == {Blank, Broken, NotAnObject}

ServerNames == {"8v", "8v-debug", "other"}
ToolNames == ToSet(McpToolPermission) \cup ToSet(DeniedNativeTools) \cup {"own"}
HookEntries == ToSet(ClaudeHookEvents) \cup ToSet(ObservabilityHooks) \cup {<<"PreToolUse", "own">>}

ContentOf(file) ==
  CASE file \in {"claude", "agents"} -> Seq(TextLines)
    [] file \in {"precommit", "commitmsg"} ->
         [lines : Seq({"#!", "own", "on-commit", "on-commit-msg"}), x : BOOLEAN]
    [] file = "registry" -> Seq(Seq({"v", "w", "x", "wx"}))
    [] file = "mcp" -> [servers : {NotAnObject} \cup SUBSET ServerNames]
    [] file = "settings" -> [allow : Seq(ToolNames), deny : Seq(ToolNames), hooks : Seq(HookEntries),
                             keys : SUBSET {"top", "permissions", "hook"}]

IsDisk(d) ==
  /\ d = [file \in Files |-> d[file]]
  /\ \A file \in ReadFiles : \/ d[file] = NoFile \/ d[file] \in ContentOf(file)
                             \/ file \in JsonFiles /\ d[file] \in NotJson

ASSUME SetupAssumption ==
  /\ MaxRuns \in Nat
  /\ \A project \in Projects : IsDisk(project)
  /\ Answers \subseteq [yes : BOOLEAN, terminal : BOOLEAN, home : BOOLEAN, wants : SUBSET (Files \cup {"hooks"}),
                       name : ServerNames, place : {"skip", "before", "after"}]
  /\ NoFile # "default" /\ NoFile \notin NotJson /\ Blank \notin {Broken, NotAnObject} /\ Broken # NotAnObject
  /\ \A servers \in SUBSET ServerNames : servers # NotAnObject
  /\ \A file \in ReadFiles : NoFile \notin ContentOf(file)
  /\ \A file \in JsonFiles : NotJson \cap ContentOf(file) = {}

-----------------------------------------------------------------------------
(* One step of a run: its file, whether it is asked for, when it fails *)

FileOf(step) ==
  CASE step \in {"hooks", "settings"} -> "settings"
    [] step = "precommitMode" -> "precommit"
    [] step = "commitmsgMode" -> "commitmsg"
    [] OTHER -> step

Git == disk["git"] # NoFile

Wanted(step, a) ==
  CASE step = "config" -> ~a.home
    [] step = "registry" -> a.home
    [] step = "claude" -> "claude" \in a.wants
    [] step = "aider" -> "aider" \in a.wants /\ disk["aider"] # NoFile
    [] step \in {"precommit", "commitmsg"} -> step \in a.wants /\ Git
    [] step \in {"precommitMode", "commitmsgMode"} -> FileOf(step) \in run.wrote
    [] step = "hooks" -> ~a.yes /\ "hooks" \in a.wants
    [] step = "settings" -> TRUE
    [] OTHER -> step \in a.wants

\* The current block in CLAUDE.md, or else in AGENTS.md, makes CLAUDE.md's step
\* end early; a malformed AGENTS.md is looked at only on the way there.
ClaudeIsDone == \/ FileHasCurrentBlock(disk["claude"])
                \/ FileHasCurrentBlock(disk["agents"])

Fails(step, a) ==
  LET doc == disk[FileOf(step)]
  IN  CASE step = "mcp" -> IF doc \in {NoFile, Blank, Broken, NotAnObject}
                            THEN doc = Broken ELSE doc.servers = NotAnObject
        [] step = "claude" ->
             /\ ~FileHasCurrentBlock(doc)
             /\ \/ IsMalformed(disk["agents"])
                \/ IsMalformed(doc) /\ ~ClaudeIsDone
        [] step = "agents" -> IsMalformed(doc)
        [] step \in {"precommit", "commitmsg"} -> Prompts(doc, step) /\ ~a.terminal
        [] step \in {"hooks", "settings"} -> doc \in {Broken, NotAnObject}
        [] OTHER -> FALSE

Written(step, a) ==
  LET doc == disk[FileOf(step)]
  IN  CASE step = "config" -> IF doc = NoFile THEN "default" ELSE doc
        [] step = "registry" -> RegisterWorkspace(doc)
        [] step = "mcp" -> SetupMcpJson(doc, a.name)
        [] step = "claude" -> IF ClaudeIsDone THEN doc ELSE UpsertVersionedBlock(doc)
        [] step = "agents" -> UpsertVersionedBlock(doc)
        [] step = "aider" -> "ours"
        [] step \in {"precommit", "commitmsg"} -> InstallGitHook(doc, step, a.place)
        [] step \in {"precommitMode", "commitmsgMode"} -> [doc EXCEPT !.x = TRUE]
        [] step = "hooks" -> InstallClaudeHooks(doc)
        [] step = "settings" -> MergePermissions(doc)

-----------------------------------------------------------------------------
Idle == [step |-> 0, answers |-> "none", wrote |-> {}]

Init ==
  /\ disk \in Projects /\ before = disk
  /\ run = Idle /\ ended = <<>> /\ torn = {}

\* Without --yes and without a terminal nothing is touched.
Start ==
  /\ run = Idle /\ Len(ended) < MaxRuns
  /\ \E a \in Answers :
       IF a.yes \/ a.terminal
       THEN run' = [Idle EXCEPT !.step = 1, !.answers = a] /\ UNCHANGED ended
       ELSE ended' = Append(ended, [ok |-> FALSE, answers |-> a, wrote |-> {}]) /\ UNCHANGED run
  /\ UNCHANGED <<disk, before, torn>>

End(ok, wrote) ==
  /\ ended' = Append(ended, [ok |-> ok, answers |-> run.answers, wrote |-> run.wrote \cup wrote])
  /\ run' = Idle

Now == Steps[run.step]
Doing == run # Idle /\ Wanted(Now, run.answers) /\ ~Fails(Now, run.answers)

Advance(wrote) ==
  IF run.step = Len(Steps) THEN End(TRUE, wrote)
  ELSE /\ run' = [run EXCEPT !.step = @ + 1, !.wrote = @ \cup wrote]
       /\ UNCHANGED ended

Skip ==
  /\ run # Idle /\ ~Wanted(Now, run.answers)
  /\ Advance({})
  /\ UNCHANGED <<disk, before, torn>>

Fail ==
  /\ run # Idle /\ Wanted(Now, run.answers) /\ Fails(Now, run.answers)
  /\ End(FALSE, {})
  /\ UNCHANGED <<disk, before, torn>>

Write ==
  /\ Doing
  /\ LET new == Written(Now, run.answers)
     IN  /\ disk' = [disk EXCEPT ![FileOf(Now)] = new]
         /\ Advance(IF new # disk[FileOf(Now)] THEN {Now} ELSE {})
  /\ UNCHANGED <<before, torn>>

\* What may be left of a file whose writing is cut short.
Pieces(step, new) ==
  CASE step \in {"claude", "agents"} ->
         {SubSeq(new, 1, n) : n \in 0 .. Len(new) - 1}
           \cup {SubSeq(new, 1, n - 1) \o <<"cut">> : n \in {i \in DOMAIN new : new[i] = "cur"}}
    [] step \in {"mcp", "aider", "hooks", "settings"} -> {Blank, Broken}
    [] step \in {"precommit", "commitmsg"} ->
         {[new EXCEPT !.lines = SubSeq(@, 1, n)] : n \in 0 .. Len(new.lines) - 1}
    [] step = "config" -> {Blank}
    [] step = "registry" -> IF disk["registry"] = NoFile THEN {<<>>} ELSE {new}
    [] OTHER -> {new}

\* The JSON files are written again even when nothing in them changes.
Writes == \/ Now \in {"mcp", "aider", "hooks", "settings"}
          \/ Written(Now, run.answers) # disk[FileOf(Now)]

CutShort ==
  /\ run # Idle
  /\ \/ End(FALSE, {}) /\ UNCHANGED <<disk, torn>>
     \/ /\ Doing /\ Writes
        /\ End(FALSE, {Now})
        /\ torn' = torn \cup {FileOf(Now)}
        /\ \E piece \in Pieces(Now, Written(Now, run.answers)) :
             disk' = [disk EXCEPT ![FileOf(Now)] = piece]
  /\ UNCHANGED before

Next == Start \/ Skip \/ Fail \/ Write \/ CutShort
Spec == Init /\ [][Next]_vars

-----------------------------------------------------------------------------
(* Properties *)

TypeOK ==
  /\ DOMAIN disk = {"git"} \cup {FileOf(Steps[i]) : i \in DOMAIN Steps}
  /\ run.step \in 0 .. Len(Steps)
  /\ run # Idle => /\ run.answers \in Answers
                   /\ run.wrote \subseteq {"precommit", "commitmsg"} \cup ToSet(Steps)
  /\ \A i \in DOMAIN ended : ended[i].ok \in BOOLEAN /\ ended[i].wrote \subseteq ToSet(Steps)
  /\ torn \subseteq DOMAIN disk

\* What belongs to the user in a text: all but the first block, or else the
\* section of the block without marks, down to the next heading.
Foreign(t) ==
  LET found == FindSentinelBounds(t)
      b == FirstFrom(t, 1, {"8v"})
      e == FirstFrom(t, b + 1, Headings)
      legacy == [first |-> b, last |-> IF e = 0 THEN Len(t) ELSE e - 1]
      Without(s) == SubSeq(t, 1, s.first - 1) \o SubSeq(t, s.last + 1, Len(t))
  IN  IF found.found \in Begins THEN Without(found)
      ELSE IF found = NoBlock /\ Contains(t, "8v") THEN Without(legacy)
      ELSE t

OwnLines(lines) ==
  LET own[n \in 0..Len(lines)] ==
        IF n = 0 THEN <<>>
        ELSE IF lines[n] \in {HookLine[hook] : hook \in DOMAIN HookLine} THEN own[n - 1]
        ELSE Append(own[n - 1], lines[n])
  IN  own[Len(lines)]

Kept(file, old, new) ==
  CASE file \in {"claude", "agents"} -> Foreign(new) = Foreign(old)
    [] file \in {"precommit", "commitmsg"} -> OwnLines(new.lines) = OwnLines(old.lines)
    [] file = "registry" -> IsPrefix(old, new)
    [] file = "mcp" -> IF old \in {Broken, NotAnObject} THEN new = old
                       ELSE old.servers = NotAnObject \/ old.servers \subseteq new.servers
    [] file = "settings" -> IF old \in {Broken, NotAnObject} THEN new = old
                            ELSE /\ IsPrefix(old.allow, new.allow)
                                 /\ IsPrefix(old.deny, new.deny)
                                 /\ IsPrefix(old.hooks, new.hooks)
    [] file = "config" -> new = old
    [] OTHER -> TRUE   \* .aider.conf.yml is replaced

\* "never overwrites user content" (claude_install.rs:148): whatever the order of
\* runs, answers, failures and crashes, the user's lines, entries and servers stay
\* as they were, but in a file that was being written when a run was cut short.
ForeignKept ==
  \A file \in DOMAIN disk \ torn :
    before[file] \notin {NoFile, Blank} => Kept(file, before[file], disk[file])

\* A second run with the same answers changes nothing: no step appends, merges
\* or asks again for what the run before it has completed.
SecondRunIsQuiet ==
  [][/\ run # Idle /\ ended # <<>> /\ Last(ended).ok /\ Last(ended).answers = run.answers
     /\ Write
     => disk' = disk]_vars

HasCurrent(t) == t # NoFile /\ FindSentinelBounds(t).found = "cur"

\* The mode of a hook is set by the run that writes its line and by no other. So the
\* hook may lack it for good: one that had the line before, and one whose line a run
\* wrote that was cut short before it came to the mode.
LacksMode(hook) ==
  \/ before[hook] # NoFile /\ HasMarker(before[hook].lines, hook)
  \/ \E i \in DOMAIN ended : ~ended[i].ok /\ ended[i].wrote \cap {hook, ModeOf[hook]} = {hook}

\* Somebody's hook without the line, or what is left of one torn by a run cut short.
Foreigner(hook) ==
  ~HasMarker(disk[hook].lines, hook) /\ (before[hook] # NoFile \/ hook \in torn)

HookInPlace(hook, a) ==
  \/ ~Git
  \/ /\ disk[hook] # NoFile
     /\ \/ HasMarker(disk[hook].lines, hook) /\ (disk[hook].x \/ LacksMode(hook))
        \/ a.place = "skip" /\ Foreigner(hook)

InPlace(step, a) ==
  CASE step = "mcp" -> disk["mcp"] = NotAnObject \/ a.name \in disk["mcp"].servers
    [] step = "claude" -> \E f \in {"claude", "agents"} : HasCurrent(disk[f])
    [] step = "agents" -> HasCurrent(disk["agents"])
    [] step = "aider" -> disk["aider"] \in {NoFile, "ours"}
    [] step \in {"precommit", "commitmsg"} -> HookInPlace(step, a)
    [] step = "hooks" -> a.yes \/ ToSet(ClaudeHookEvents) \subseteq ToSet(disk["settings"].hooks)
    [] OTHER -> TRUE

\* A run that ends well has put in place everything it was asked for, also when runs
\* before it were cut short anywhere: both git hooks have their line, and are executable
\* but where LacksMode says who left them without; only a hook that somebody else has
\* there, and that the user asked to skip, goes without the line.
DoneIsDone ==
  run = Idle /\ ended # <<>> /\ Last(ended).ok =>
    LET a == Last(ended).answers
    IN  /\ \A step \in a.wants : InPlace(step, a)
        /\ ToSet(McpToolPermission) \subseteq ToSet(disk["settings"].allow)
        /\ ToSet(DeniedNativeTools) \subseteq ToSet(disk["settings"].deny)
        /\ a.home => \E i \in DOMAIN disk["registry"] : StandsIn(disk["registry"][i])

\* claude_settings.rs:55 "`extra` captures all unknown keys so we don't destroy
\* fields we don't own".
SettingsKept ==
  "settings" \notin torn /\ before["settings"] \notin {NoFile, Blank, Broken, NotAnObject}
    => before["settings"].keys \subseteq disk["settings"].keys
=============================================================================
