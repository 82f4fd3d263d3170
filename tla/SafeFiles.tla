------------------------------ MODULE SafeFiles ------------------------------
(***************************************************************************)
(* Access to files below a root (crate o8v-fs): every read, write target,  *)
(* scan and existence test resolves the path it is given and refuses what  *)
(* lies outside the root.                                                  *)
(*                                                                         *)
(* A path is an absolute sequence of names, ".." among them. A file system *)
(* `fs` maps real paths (no link and no ".." on the way) to nodes:         *)
(*   [kind |-> "file" | "dir" | "link" | "fifo", to |-> real path,         *)
(*    text |-> sequence of characters, locked |-> BOOLEAN]                 *)
(* where `to` is where a link ends, present in `fs` or not (dangling), and *)
(* `locked` is what this user may not open. The tree does not change       *)
(* during a call: guard.rs:86 says what is not promised when it does.      *)
(***************************************************************************)
EXTENDS Integers, Sequences, SequencesExt, FiniteSets

Ok(value) == [err |-> "", value |-> value]
Fail(kind) == [err |-> kind, value |-> <<>>]
\* The `?` operator: go on with the value, or return the error.
Then(result, Continue(_)) ==
  IF result.err # "" THEN result ELSE Continue(result.value)

Parent(path) == SubSeq(path, 1, Len(path) - 1)
Under(root, path) == IsPrefix(root, path)

-----------------------------------------------------------------------------
(* The operating system *)

\* classify_io_error: what an operation on a missing or locked node reports.
Lookup(fs, path) ==
  IF path \notin DOMAIN fs THEN Fail("not_found") ELSE Ok(path)

Descend(fs, at, name) ==
  IF fs[at].kind # "dir" THEN Fail("io_error")
  ELSE IF fs[at].locked THEN Fail("permission_denied")
  ELSE IF name = ".." THEN Ok(IF at = <<>> THEN at ELSE Parent(at))
  ELSE Lookup(fs, Append(at, name))

Follow(fs, at) == IF fs[at].kind = "link" THEN Lookup(fs, fs[at].to) ELSE Ok(at)

\* One name of a path, and the link it leads to.
Enter(fs, at, name) ==
  Then(at, LAMBDA p : Then(Descend(fs, p, name), LAMBDA q : Follow(fs, q)))

\* realpath(3)
Canonicalize(fs, path) ==
  LET at[n \in 0..Len(path)] ==
        IF n = 0 THEN Ok(<<>>) ELSE Enter(fs, at[n - 1], path[n])
  IN  at[Len(path)]

\* lstat(2): the last name is not followed.
SymlinkMetadata(fs, path) ==
  IF path = <<>> THEN Ok(fs[path])
  ELSE Then(Canonicalize(fs, Parent(path)),
            LAMBDA p : Then(Descend(fs, p, path[Len(path)]), LAMBDA q : Ok(fs[q])))

Exists(fs, path) == Canonicalize(fs, path).err = ""

-----------------------------------------------------------------------------
(* root.rs *)

ContainmentRoot(fs, path) ==
  Then(Canonicalize(fs, path),
       LAMBDA p : IF fs[p].kind = "dir" THEN Ok(p) ELSE Fail("not_regular_file"))

\* What an agent passes: "." and "./x" are below the root, all else is as it stands.
Resolve(root, relative) ==
  IF relative = <<".">> THEN root
  ELSE IF relative # <<>> /\ relative[1] = "." THEN root \o Tail(relative)
  ELSE relative

-----------------------------------------------------------------------------
(* guard.rs *)

\* Mutation for ReadsStayInside: the path is compared as it was given.
OpenUnresolved(fs, root, path, maxSize) ==
  Then(Canonicalize(fs, path), LAMBDA canonical :
    IF ~Under(root, path) THEN Fail("containment_violation")
    ELSE IF fs[canonical].kind # "file" THEN Fail("not_regular_file")
    ELSE Ok(fs[canonical]))

\* The last name is a link of the root's own that leads out of it.
SymlinkCausedEscape(fs, root, path, canonical) ==
  LET parent == Canonicalize(fs, Parent(path))
  IN  parent.err = "" /\ Under(root, parent.value) /\ ~Under(root, canonical)

\* Everything before the content is read; the file is opened by its real path.
Open(fs, root, path, maxSize) ==
  Then(SymlinkMetadata(fs, path), LAMBDA pre :
  IF pre.kind \notin {"file", "link"} THEN Fail("not_regular_file") ELSE
  Then(Canonicalize(fs, path), LAMBDA canonical :
  IF ~Under(root, canonical)
  THEN Fail(IF SymlinkCausedEscape(fs, root, path, canonical)
            THEN "symlink_escape" ELSE "containment_violation")
  ELSE IF fs[canonical].kind # "file" THEN Fail("not_regular_file")
  ELSE IF fs[canonical].locked THEN Fail("permission_denied")
  ELSE IF Len(fs[canonical].text) > maxSize THEN Fail("too_large")
  ELSE Ok(fs[canonical])))

\* read_to_string refuses what is not UTF-8; a leading byte order mark is dropped.
GuardedRead(fs, root, path, maxSize) ==
  Then(Open(fs, root, path, maxSize), LAMBDA file :
    IF "invalid" \in ToSet(file.text) THEN Fail("io_error")
    ELSE IF file.text # <<>> /\ file.text[1] = "bom" THEN Ok(Tail(file.text))
    ELSE Ok(file.text))

GuardedReadBytes(fs, root, path, maxSize) ==
  Then(Open(fs, root, path, maxSize), LAMBDA file : Ok(file.text))

-----------------------------------------------------------------------------
(* write_guard.rs and lib.rs *)

\* The directory of the target is real and inside; the target is a file or nothing.
CheckWriteTarget(fs, root, path) ==
  Then(Canonicalize(fs, Parent(path)), LAMBDA parent :
    LET target == SymlinkMetadata(fs, path)
    IN  IF ~Under(root, parent) THEN Fail("symlink_escape")
        ELSE IF target.err = "not_found" THEN Ok("absent")
        ELSE Then(target, LAMBDA meta :
               IF meta.kind = "link" THEN Fail("is_symlink")
               ELSE IF meta.kind # "file" THEN Fail("not_regular_file")
               ELSE Ok("file")))

\* write, create_file, set_permissions, copy_permissions, remove_file: what they
\* demand of a target before the one system call that follows.
GuardedCall(fs, root, path, createsFile) ==
  Then(CheckWriteTarget(fs, root, path), LAMBDA target :
    IF target = "absent" /\ ~createsFile THEN Fail("not_found") ELSE Ok(path))

GuardedRename(fs, root, from, to) ==
  Then(CheckWriteTarget(fs, root, from), LAMBDA source :
  Then(CheckWriteTarget(fs, root, to), LAMBDA target :
    IF source = "absent" THEN Fail("not_found") ELSE Ok(to)))

GuardedMetadata(fs, root, path) ==
  Then(Canonicalize(fs, Parent(path)), LAMBDA parent :
  IF ~Under(root, parent) THEN Fail("symlink_escape") ELSE
  Then(SymlinkMetadata(fs, path), LAMBDA meta :
  IF meta.kind = "link" THEN Fail("is_symlink") ELSE Ok(meta.kind)))

GuardedReadDir(fs, root, path) ==
  Then(Canonicalize(fs, path), LAMBDA canonical :
    IF ~Under(root, canonical) THEN Fail("symlink_escape")
    ELSE IF fs[canonical].kind # "dir" THEN Fail("not_regular_file")
    ELSE IF fs[canonical].locked THEN Fail("permission_denied")
    ELSE Ok({p \in DOMAIN fs : p # <<>> /\ Parent(p) = canonical}))

\* safe_exists: the deepest directory on the way that exists must be inside.
SafeExists(fs, root, path) ==
  LET prefixes == {n \in 0..(Len(path) - 1) : Exists(fs, SubSeq(path, 1, n))}
      deepest  == CHOOSE n \in prefixes : \A m \in prefixes : m <= n
      target   == SymlinkMetadata(fs, path)
  IN  IF ~Under(root, Canonicalize(fs, SubSeq(path, 1, deepest)).value)
      THEN Fail("containment_violation")
      ELSE IF target.err = "not_found" THEN Ok(FALSE)
      ELSE Then(target, LAMBDA meta :
             IF meta.kind = "link" THEN Fail("is_symlink") ELSE Ok(TRUE))

\* ContainmentRoot::contains
ContainsPath(fs, root, path) == IF path = root THEN Ok(TRUE) ELSE SafeExists(fs, root, path)

-----------------------------------------------------------------------------
(* scan.rs and composite.rs *)

\* One directory entry: a link has the kind of what it leads to, or is an error.
ScanEntry(fs, path) ==
  Then(Follow(fs, path), LAMBDA p :
    Ok([name |-> path[Len(path)], kind |-> fs[p].kind, is_symlink |-> fs[path].kind = "link"]))

\* Of the first n names of a directory, those that give an entry.
ScanGood(fs, listing, n) == {i \in 1..n : ScanEntry(fs, listing[i]).err = ""}

\* How many names are looked at until there are maxEntries entries.
ScanSeen(fs, listing, maxEntries) ==
  LET stops == {n \in 0..Len(listing) : n = Len(listing) \/ Cardinality(ScanGood(fs, listing, n)) >= maxEntries}
  IN  CHOOSE n \in stops : \A m \in stops : n <= m

\* The errors of those names in their order, and one more when there are names left.
ScanErrors(fs, listing, seen) ==
  LET bad == (1..seen) \ ScanGood(fs, listing, seen)
      nth(k) == CHOOSE i \in bad : Cardinality({j \in bad : j <= i}) = k
  IN  [k \in 1..Cardinality(bad) |-> ScanEntry(fs, listing[nth(k)]).err]
        \o IF seen < Len(listing) THEN <<"too_many_entries">> ELSE <<>>

\* At most maxEntries of the directory, in the order `listing` in which read_dir
\* yields them.
ScanDirectory(fs, listing, maxEntries) ==
  LET seen == ScanSeen(fs, listing, maxEntries)
  IN  [entries |-> {ScanEntry(fs, listing[i]).value : i \in ScanGood(fs, listing, seen)},
       errors  |-> ScanErrors(fs, listing, seen)]

\* by_name, then the guarded read: an entry that is no file is an error, not absent.
ReadChecked(fs, root, scan, name, maxSize) ==
  LET found == {e \in scan.entries : e.name = name}
  IN  IF found = {} THEN Ok("absent")
      ELSE IF \E e \in found : e.kind # "file" THEN Fail("not_regular_file")
      ELSE GuardedRead(fs, root, Append(root, name), maxSize)

\* `names` are those that carry the extension: two files of it are ambiguous.
ReadByExt(fs, root, scan, names, maxSize) ==
  LET files == {e \in scan.entries : e.name \in names /\ e.kind = "file"}
  IN  IF files = {} THEN Ok("absent")
      ELSE IF Cardinality(files) > 1 THEN Fail("ambiguous")
      ELSE GuardedRead(fs, root, Append(root, (CHOOSE e \in files : TRUE).name), maxSize)

ValidateEntry(fs, root, scan, name) ==
  LET found == {e \in scan.entries : e.name = name}
      path  == Append(root, name)
  IN  IF found = {} THEN Ok("absent")
      ELSE IF \E e \in found : e.kind # "file" THEN Fail("not_regular_file")
      ELSE Then(SymlinkMetadata(fs, path), LAMBDA live :
             IF live.kind # "link" THEN Ok("file")
             ELSE Then(Canonicalize(fs, path), LAMBDA canonical :
                    IF Under(root, canonical) THEN Ok("file") ELSE Fail("symlink_escape")))

-----------------------------------------------------------------------------
(* content.rs *)

\* glob_match_chars: "*" is any run of characters, "?" is one.
GlobMatch(pattern, text) ==
  LET match[p \in 0..Len(pattern), t \in 0..Len(text)] ==   \* p and t are still to match
        LET c == pattern[Len(pattern) - p + 1]
            d == text[Len(text) - t + 1]
        IN  IF p = 0 THEN t = 0
            ELSE IF c = "*" THEN match[p - 1, t] \/ (t > 0 /\ match[p, t - 1])
            ELSE t > 0 /\ (c = "?" \/ c = d) /\ match[p - 1, t - 1]
  IN  match[Len(pattern), Len(text)]

\* Lines of a file, or why it has none: an unterminated last line counts.
CountLines(fs, root, path, maxSize, readLimit) ==
  LET real == Canonicalize(fs, path)
      read == GuardedRead(fs, root, path, readLimit)
      newlines == Len(SelectSeq(read.value, LAMBDA c : c = "nl"))
      nothing == [loc |-> -1, is_binary |-> FALSE, is_large |-> FALSE]
  IN  IF real.err # "" THEN nothing
      ELSE IF Len(fs[real.value].text) > maxSize THEN [nothing EXCEPT !.is_large = TRUE]
      ELSE IF read.err # "" THEN nothing
      ELSE IF "nul" \in ToSet(read.value) THEN [nothing EXCEPT !.is_binary = TRUE]
      ELSE [nothing EXCEPT !.loc =
              IF read.value # <<>> /\ read.value[Len(read.value)] # "nl"
              THEN newlines + 1 ELSE newlines]
=============================================================================
