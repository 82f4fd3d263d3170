----------------------------- MODULE FilesProofs -----------------------------
(***************************************************************************)
(* The guards of SafeFiles are right for every tree of files, every root   *)
(* and every path: a read gives exactly the files whose real path is below *)
(* the root, a write target is accepted exactly in the directories that    *)
(* are, and no operation touches or lists anything else. This rests on     *)
(* realpath(3) (`CanonicalIsReal`), which goes through the path name by    *)
(* name. From it, what reads, writes, listings, scans and the MCP server   *)
(* reach in the files, for paths of any length (ReadsStayInside).          *)
(***************************************************************************)
EXTENDS CallsProofs

\* The two sides of a result: the fields that Ok and Fail fill in.
LEMMA ResultParts ==
  /\ \A v : Files!Ok(v).err = "" /\ Files!Ok(v).value = v
  /\ \A kind : Files!Fail(kind).err = kind
  BY DEF Files!Ok, Files!Fail

-----------------------------------------------------------------------------
(* Paths *)

\* Path::parent and file_name split a path in two that make it up again.
LEMMA ParentOf ==
  ASSUME NEW S, NEW path \in Seq(S), path # <<>>
  PROVE  /\ Files!Parent(path) \in Seq(S) /\ Len(path) \in Nat \ {0} /\ Len(Files!Parent(path)) = Len(path) - 1
         /\ \A k \in 1..(Len(path) - 1) : Files!Parent(path)[k] = path[k]
         /\ path[Len(path)] \in S /\ path = Append(Files!Parent(path), path[Len(path)])
<1>1. Len(path) \in Nat /\ Len(path) # 0
  OBVIOUS
<1>2. Files!Parent(path) \in Seq(S) /\ Len(Files!Parent(path)) = Len(path) - 1
  <2>1. PICK n \in Nat : n = Len(path) - 1
    BY <1>1
  <2>2. \A i \in 1..n : path[i] \in S
    BY <1>1, <2>1
  <2>3. SubSeq(path, 1, n) \in Seq(S) /\ Len(SubSeq(path, 1, n)) = IF 1 <= n THEN n - 1 + 1 ELSE 0
    BY <2>2, SubSeqProperties
  <2>4. (IF 1 <= n THEN n - 1 + 1 ELSE 0) = n
    OBVIOUS
  <2> QED
    BY <2>1, <2>3, <2>4, Zenon DEF Files!Parent
<1>3. \A k \in 1..(Len(path) - 1) : Files!Parent(path)[k] = path[k]
  BY <1>1 DEF Files!Parent
<1>4. path[Len(path)] \in S
  BY <1>1
<1> DEFINE whole == Append(Files!Parent(path), path[Len(path)])
<1>5. whole \in Seq(S) /\ Len(whole) = Len(path)
  BY <1>1, <1>2, <1>4
<1>6. \A k \in 1..Len(path) : whole[k] = path[k]
  BY <1>1, <1>2, <1>3, <1>4
<1>7. path = whole
  <2> HIDE DEF whole
  <2> QED
    BY <1>5, <1>6
<1> QED
  BY <1>1, <1>2, <1>3, <1>4, <1>7

\* What is below something below the root is below the root.
LEMMA UnderAppend ==
  ASSUME NEW S, NEW root \in Seq(S), NEW path \in Seq(S), NEW name \in S, Files!Under(root, path)
  PROVE  Files!Under(root, Append(path, name))
<1>1. Len(root) \in Nat /\ Len(path) \in Nat /\ Len(root) <= Len(path)
      /\ Len(Append(path, name)) = Len(path) + 1 /\ Append(path, name) \in Seq(S)
  BY DEF Files!Under, Files!IsPrefix
<1>2. SubSeq(Append(path, name), 1, Len(root)) = SubSeq(path, 1, Len(root))
  <2>1. \A k \in 1..Len(root) : Append(path, name)[k] = path[k]
    BY <1>1
  <2> QED
    BY <1>1, <2>1
<1> QED
  BY <1>1, <1>2 DEF Files!Under, Files!IsPrefix

-----------------------------------------------------------------------------
(* realpath(3), name by name *)

\* `at` is where the first n names of a path lead, one after another.
IsWalk(at, fs, path, n) ==
  at = [k \in 0..n |-> IF k = 0 THEN Files!Ok(<<>>) ELSE Files!Enter(fs, at[k - 1], path[k])]

\* Every number of names can be walked, so the recursion in Canonicalize has a solution.
LEMMA WalkExists ==
  ASSUME NEW fs, NEW path
  PROVE  \A n \in Nat : \E at : IsWalk(at, fs, path, n)
<1> DEFINE Good == {n \in Nat : \E at : IsWalk(at, fs, path, n)}
<1>1. 0 \in Good
  <2> DEFINE start == [k \in 0..0 |-> Files!Ok(<<>>)]
  <2>1. IsWalk(start, fs, path, 0)
    BY DEF IsWalk
  <2> QED
    BY <2>1
<1>2. ASSUME NEW n \in Nat, n \in Good
      PROVE  n + 1 \in Good
  <2>1. PICK at : IsWalk(at, fs, path, n)
    BY <1>2
  <2> DEFINE next == [k \in 0..(n + 1) |-> IF k = n + 1 THEN Files!Enter(fs, at[n], path[n + 1]) ELSE at[k]]
  <2>2. \A k \in 0..n : next[k] = at[k]
    OBVIOUS
  <2>3. \A k \in 0..n : at[k] = IF k = 0 THEN Files!Ok(<<>>) ELSE Files!Enter(fs, at[k - 1], path[k])
    BY <2>1 DEF IsWalk
  <2>4. ASSUME NEW k \in 0..(n + 1)
        PROVE  next[k] = IF k = 0 THEN Files!Ok(<<>>) ELSE Files!Enter(fs, next[k - 1], path[k])
    <3>1. CASE k = n + 1
      BY <3>1, <2>2
    <3>2. CASE k \in 0..n
      <4>1. k = 0 \/ next[k - 1] = at[k - 1]
        BY <3>2, <2>2
      <4> HIDE DEF next
      <4> QED
        BY <3>2, <2>2, <2>3, <4>1
    <3> QED
      BY <3>1, <3>2
  <2>5. IsWalk(next, fs, path, n + 1)
    BY <2>4 DEF IsWalk
  <2> QED
    BY <2>5
<1> HIDE DEF Good
<1>3. Nat \subseteq Good
  BY <1>1, <1>2, SetInduction
<1> QED
  BY <1>3 DEF Good

\* Two walks over paths that begin alike agree that far.
LEMMA WalksAgree ==
  ASSUME NEW fs, NEW p, NEW q, NEW m \in Nat, NEW n \in Nat, NEW f, NEW g,
         IsWalk(f, fs, p, m), IsWalk(g, fs, q, n), m <= n,
         \A k \in 1..m : p[k] = q[k]
  PROVE  \A k \in 0..m : f[k] = g[k]
<1> DEFINE Same == {k \in Nat : k \in 0..m => f[k] = g[k]}
<1>1. \A k \in 0..m : f[k] = IF k = 0 THEN Files!Ok(<<>>) ELSE Files!Enter(fs, f[k - 1], p[k])
  BY DEF IsWalk
<1>2. \A k \in 0..n : g[k] = IF k = 0 THEN Files!Ok(<<>>) ELSE Files!Enter(fs, g[k - 1], q[k])
  BY DEF IsWalk
<1>3. 0 \in Same
  BY <1>1, <1>2
<1>4. ASSUME NEW k \in Nat, k \in Same
      PROVE  k + 1 \in Same
  <2>1. CASE k + 1 \in 0..m
    <3>1. k \in 0..m /\ k + 1 \in 1..m /\ k + 1 \in 0..n /\ k + 1 # 0 /\ (k + 1) - 1 = k
      BY <2>1
    <3>2. f[k] = g[k] /\ p[k + 1] = q[k + 1]
      BY <1>4, <3>1
    <3>3. f[k + 1] = Files!Enter(fs, f[k], p[k + 1]) /\ g[k + 1] = Files!Enter(fs, g[k], q[k + 1])
      BY <1>1, <1>2, <2>1, <3>1
    <3> QED
      BY <3>2, <3>3
  <2>2. CASE k + 1 \notin 0..m
    BY <2>2
  <2> QED
    BY <2>1, <2>2
<1> HIDE DEF Same
<1>5. Nat \subseteq Same
  BY <1>3, <1>4, SetInduction
<1> QED
  BY <1>5 DEF Same

\* Canonicalize is the end of a walk.
LEMMA CanonicalWalk ==
  ASSUME NEW fs, NEW path, Len(path) \in Nat
  PROVE  \E at : IsWalk(at, fs, path, Len(path)) /\ Files!Canonicalize(fs, path) = at[Len(path)]
<1> DEFINE walk == CHOOSE at : IsWalk(at, fs, path, Len(path))
<1>1. IsWalk(walk, fs, path, Len(path))
  BY WalkExists
<1>2. Files!Canonicalize(fs, path) = walk[Len(path)]
  BY DEF Files!Canonicalize, IsWalk
<1> QED
  BY <1>1, <1>2

\* The root is where it is, and one more name is entered from where the others lead.
LEMMA CanonicalSteps ==
  ASSUME NEW fs, NEW S, NEW path \in Seq(S)
  PROVE  IF path = <<>> THEN Files!Canonicalize(fs, path) = Files!Ok(<<>>)
         ELSE Files!Canonicalize(fs, path) = Files!Enter(fs, Files!Canonicalize(fs, Files!Parent(path)), path[Len(path)])
<1>1. PICK f : IsWalk(f, fs, path, Len(path)) /\ Files!Canonicalize(fs, path) = f[Len(path)]
  BY CanonicalWalk
<1>2. \A k \in 0..Len(path) : f[k] = IF k = 0 THEN Files!Ok(<<>>) ELSE Files!Enter(fs, f[k - 1], path[k])
  BY <1>1 DEF IsWalk
<1>3. CASE path = <<>>
  BY <1>1, <1>2, <1>3
<1>4. CASE path # <<>>
  <2>1. /\ Len(path) \in Nat /\ Len(path) > 0 /\ Len(Files!Parent(path)) = Len(path) - 1
        /\ \A k \in 1..(Len(path) - 1) : Files!Parent(path)[k] = path[k]
    BY <1>4, ParentOf
  <2>2. PICK g : IsWalk(g, fs, Files!Parent(path), Len(path) - 1)
                 /\ Files!Canonicalize(fs, Files!Parent(path)) = g[Len(path) - 1]
    BY <2>1, CanonicalWalk
  <2>3. f[Len(path) - 1] = g[Len(path) - 1]
    BY <1>1, <2>1, <2>2, WalksAgree
  <2> QED
    BY <1>1, <1>2, <1>4, <2>1, <2>2, <2>3
<1> QED
  BY <1>3, <1>4

-----------------------------------------------------------------------------
(* File systems *)

\* A tree of nodes: what is in it is in a directory of it, and a link leads to a real path.
IsTree(fs, NameSet) ==
  /\ ".." \notin NameSet
  /\ DOMAIN fs \subseteq Seq(NameSet)
  /\ <<>> \in DOMAIN fs /\ fs[<<>>].kind = "dir"
  /\ \A p \in DOMAIN fs :
       /\ fs[p].kind \in {"file", "dir", "link", "fifo"}
       /\ p # <<>> => Files!Parent(p) \in DOMAIN fs /\ fs[Files!Parent(p)].kind = "dir"
       /\ fs[p].kind = "link" /\ fs[p].to \in DOMAIN fs => fs[fs[p].to].kind # "link"
       /\ Len(fs[p].text) \in Nat

\* The results of realpath(3): a place in the tree that is no link, or a reason.
Resolved(fs, answer) ==
  \/ answer.err = "" /\ answer.value \in DOMAIN fs /\ fs[answer.value].kind # "link"
  \/ answer.err \in {"not_found", "io_error", "permission_denied"}

\* Where one name leads from a real place, before a link is followed.
LEMMA DescendShape ==
  ASSUME NEW fs, NEW NameSet, IsTree(fs, NameSet), NEW at \in DOMAIN fs, NEW name \in NameSet \cup {".."}
  PROVE  LET down == Files!Descend(fs, at, name)
         IN  \/ /\ down.err = "" /\ down.value \in DOMAIN fs
                /\ fs[at].kind = "dir" /\ ~fs[at].locked
                /\ IF name = ".." THEN fs[down.value].kind = "dir" ELSE down.value = Append(at, name)
             \/ /\ down.err = "not_found" /\ name # ".." /\ Append(at, name) \notin DOMAIN fs
                /\ fs[at].kind = "dir" /\ ~fs[at].locked
             \/ down.err \in {"io_error", "permission_denied"}
<1>1. CASE fs[at].kind # "dir" \/ fs[at].locked
  BY <1>1 DEF Files!Descend, Files!Fail
<1>2. CASE fs[at].kind = "dir" /\ ~fs[at].locked /\ name = ".."
  <2>1. Files!Descend(fs, at, name) = Files!Ok(IF at = <<>> THEN at ELSE Files!Parent(at))
    BY <1>2 DEF Files!Descend
  <2>2. fs[IF at = <<>> THEN at ELSE Files!Parent(at)].kind = "dir" /\ (IF at = <<>> THEN at ELSE Files!Parent(at)) \in DOMAIN fs
    BY DEF IsTree
  <2>3. Files!Descend(fs, at, name).err = "" /\ Files!Descend(fs, at, name).value = (IF at = <<>> THEN at ELSE Files!Parent(at))
    BY <2>1, ResultParts
  <2> QED
    BY <1>2, <2>2, <2>3
<1>3. CASE fs[at].kind = "dir" /\ ~fs[at].locked /\ name # ".."
  <2>1. Files!Descend(fs, at, name) = Files!Lookup(fs, Append(at, name))
    BY <1>3 DEF Files!Descend
  <2>2. CASE Append(at, name) \in DOMAIN fs
    BY <1>3, <2>1, <2>2, ResultParts DEF Files!Lookup
  <2>3. CASE Append(at, name) \notin DOMAIN fs
    BY <1>3, <2>1, <2>3, ResultParts DEF Files!Lookup
  <2> QED
    BY <2>2, <2>3
<1> QED
  BY <1>1, <1>2, <1>3

\* A link leads to a place that is no link, or nowhere; all else leads to itself.
LEMMA FollowShape ==
  ASSUME NEW fs, NEW NameSet, IsTree(fs, NameSet), NEW at \in DOMAIN fs
  PROVE  /\ Resolved(fs, Files!Follow(fs, at))
         /\ Files!Follow(fs, at).err \in {"", "not_found"}
         /\ fs[at].kind # "link" => Files!Follow(fs, at) = Files!Ok(at)
  BY DEF Files!Follow, Files!Lookup, Files!Ok, Files!Fail, Resolved, IsTree

\* An error on the way stays the result; a name that is not there is one too.
LEMMA EnterNothing ==
  ASSUME NEW fs, NEW at, NEW name, at.err # ""
  PROVE  Files!Enter(fs, at, name) = at
  BY DEF Files!Enter, Files!Then

\* A name that cannot be descended to is where realpath(3) stops.
LEMMA EnterFails ==
  ASSUME NEW fs, NEW at, NEW name, at.err = "", Files!Descend(fs, at.value, name).err # ""
  PROVE  Files!Enter(fs, at, name) = Files!Descend(fs, at.value, name)
  BY DEF Files!Enter, Files!Then

\* A name that is there is followed when it is a link.
LEMMA EnterFollows ==
  ASSUME NEW fs, NEW at, NEW name, at.err = "", Files!Descend(fs, at.value, name).err = ""
  PROVE  Files!Enter(fs, at, name) = Files!Follow(fs, Files!Descend(fs, at.value, name).value)
  BY DEF Files!Enter, Files!Then

\* realpath(3) keeps to real places from one name to the next.
LEMMA EnterResolved ==
  ASSUME NEW fs, NEW NameSet, IsTree(fs, NameSet), NEW at, Resolved(fs, at), NEW name \in NameSet \cup {".."}
  PROVE  Resolved(fs, Files!Enter(fs, at, name))
<1> PICK down : down = Files!Descend(fs, at.value, name)
  OBVIOUS
<1>1. CASE at.err # ""
  BY <1>1, EnterNothing
<1>2. CASE at.err = "" /\ down.err # ""
  <2>1. down.err \in {"not_found", "io_error", "permission_denied"}
    BY <1>2, DescendShape DEF Resolved
  <2> QED
    BY <1>2, <2>1, EnterFails DEF Resolved
<1>3. CASE at.err = "" /\ down.err = ""
  <2>1. down.value \in DOMAIN fs
    BY <1>3, DescendShape DEF Resolved
  <2>2. Files!Enter(fs, at, name) = Files!Follow(fs, down.value)
    BY <1>3, EnterFollows
  <2>3. Resolved(fs, Files!Follow(fs, down.value))
    BY <2>1, FollowShape
  <2> QED
    BY <2>2, <2>3
<1> QED
  BY <1>1, <1>2, <1>3

\* Whatever links and ".." a path goes through, it leads to a place in the tree that is
\* no link, or nowhere: no path is too long for the links on its way.
THEOREM CanonicalIsReal ==
  ASSUME NEW fs, NEW NameSet, IsTree(fs, NameSet), NEW path \in Seq(NameSet \cup {".."})
  PROVE  Resolved(fs, Files!Canonicalize(fs, path))
<1> DEFINE PathSet == Seq(NameSet \cup {".."})
           Good == {n \in Nat : \A p \in PathSet : Len(p) = n => Resolved(fs, Files!Canonicalize(fs, p))}
<1>1. 0 \in Good
  <2> SUFFICES ASSUME NEW p \in PathSet, Len(p) = 0
               PROVE  Resolved(fs, Files!Canonicalize(fs, p))
    OBVIOUS
  <2>1. p = <<>>
    OBVIOUS
  <2>2. Files!Canonicalize(fs, p) = Files!Ok(<<>>)
    BY <2>1, CanonicalSteps
  <2>3. Files!Canonicalize(fs, p).err = "" /\ Files!Canonicalize(fs, p).value = <<>>
    BY <2>2, ResultParts
  <2>4. <<>> \in DOMAIN fs /\ fs[<<>>].kind # "link"
    BY DEF IsTree
  <2> QED
    BY <2>3, <2>4 DEF Resolved
<1>2. ASSUME NEW n \in Nat, n \in Good
      PROVE  n + 1 \in Good
  <2> SUFFICES ASSUME NEW p \in PathSet, Len(p) = n + 1
               PROVE  Resolved(fs, Files!Canonicalize(fs, p))
    OBVIOUS
  <2>1. p # <<>>
    OBVIOUS
  <2>2. Files!Parent(p) \in PathSet /\ Len(Files!Parent(p)) = n /\ p[Len(p)] \in NameSet \cup {".."}
    BY <2>1, ParentOf
  <2>3. Resolved(fs, Files!Canonicalize(fs, Files!Parent(p)))
    BY <1>2, <2>2
  <2>4. Files!Canonicalize(fs, p) = Files!Enter(fs, Files!Canonicalize(fs, Files!Parent(p)), p[Len(p)])
    BY <2>1, CanonicalSteps
  <2> DEFINE name == p[Len(p)]
             at   == Files!Canonicalize(fs, Files!Parent(p))
  <2>5. Resolved(fs, Files!Enter(fs, at, name))
    <3> HIDE DEF name, at
    <3>1. Resolved(fs, at) /\ name \in NameSet \cup {".."}
      BY <2>2, <2>3 DEF name, at
    <3> QED
      BY <3>1, EnterResolved
  <2> QED
    BY <2>4, <2>5
<1> HIDE DEF Good
<1>3. Nat \subseteq Good
  BY <1>1, <1>2, SetInduction
<1> QED
  BY <1>3 DEF Good

\* lstat(2) and realpath(3) part only at the last name.
LEMMA NoParent ==
  ASSUME NEW fs, NEW NameSet, NEW path \in Seq(NameSet), path # <<>>,
         NEW parent, parent = Files!Canonicalize(fs, Files!Parent(path)), parent.err # ""
  PROVE  Files!SymlinkMetadata(fs, path) = parent /\ Files!Canonicalize(fs, path) = parent
<1>1. Files!Canonicalize(fs, path) = Files!Enter(fs, parent, path[Len(path)])
  BY CanonicalSteps
<1>2. Files!SymlinkMetadata(fs, path) = parent
  BY DEF Files!SymlinkMetadata, Files!Then
<1> QED
  BY <1>1, <1>2, EnterNothing

\* Without the last name, both report why it cannot be reached.
LEMMA LastNameMissing ==
  ASSUME NEW fs, NEW NameSet, NEW path \in Seq(NameSet), path # <<>>,
         NEW parent, parent = Files!Canonicalize(fs, Files!Parent(path)), parent.err = "",
         NEW down, down = Files!Descend(fs, parent.value, path[Len(path)]), down.err # ""
  PROVE  Files!SymlinkMetadata(fs, path) = down /\ Files!Canonicalize(fs, path) = down
<1>1. Files!Canonicalize(fs, path) = Files!Enter(fs, parent, path[Len(path)])
  BY CanonicalSteps
<1>2. Files!SymlinkMetadata(fs, path) = down
  BY DEF Files!SymlinkMetadata, Files!Then
<1>3. Files!Enter(fs, parent, path[Len(path)]) = down
  BY EnterFails
<1> QED
  BY <1>1, <1>2, <1>3

\* With it, lstat(2) reports the node and realpath(3) follows it.
LEMMA LastName ==
  ASSUME NEW fs, NEW NameSet, NEW path \in Seq(NameSet), path # <<>>,
         NEW parent, parent = Files!Canonicalize(fs, Files!Parent(path)), parent.err = "",
         NEW down, down = Files!Descend(fs, parent.value, path[Len(path)]), down.err = ""
  PROVE  Files!SymlinkMetadata(fs, path) = Files!Ok(fs[down.value]) /\ Files!Canonicalize(fs, path) = Files!Follow(fs, down.value)
<1>1. Files!Canonicalize(fs, path) = Files!Enter(fs, parent, path[Len(path)])
  BY CanonicalSteps
<1>2. Files!SymlinkMetadata(fs, path) = Files!Ok(fs[down.value])
  BY DEF Files!SymlinkMetadata, Files!Then
<1>3. Files!Enter(fs, parent, path[Len(path)]) = Files!Follow(fs, down.value)
  BY EnterFollows
<1> QED
  BY <1>1, <1>2, <1>3

\* The directory of a path, where it is found, is in the tree.
LEMMA ParentIsReal ==
  ASSUME NEW fs, NEW NameSet, IsTree(fs, NameSet), NEW path \in Seq(NameSet \cup {".."}), path # <<>>,
         Files!Canonicalize(fs, Files!Parent(path)).err = ""
  PROVE  Files!Canonicalize(fs, Files!Parent(path)).value \in DOMAIN fs /\ path[Len(path)] \in NameSet \cup {".."}
<1>1. Files!Parent(path) \in Seq(NameSet \cup {".."}) /\ path[Len(path)] \in NameSet \cup {".."}
  BY ParentOf
<1>2. Resolved(fs, Files!Canonicalize(fs, Files!Parent(path)))
  BY <1>1, CanonicalIsReal
<1> QED
  BY <1>1, <1>2 DEF Resolved

-----------------------------------------------------------------------------
(* Reads *)

\* What may be read below a root: a file that is there, by its real path, that this
\* user may open and that is not too large.
Readable(fs, root, path, maxSize) ==
  LET real == Files!Canonicalize(fs, path)
  IN  /\ real.err = "" /\ Files!Under(root, real.value)
      /\ fs[real.value].kind = "file" /\ ~fs[real.value].locked
      /\ Len(fs[real.value].text) <= maxSize

\* Opening a file by a path gives the file the path leads to when that is below the
\* root, and fails for everything else.
LEMMA OpenIsExact ==
  ASSUME NEW fs, NEW NameSet, IsTree(fs, NameSet), NEW path \in Seq(NameSet \cup {".."}), NEW root, NEW maxSize \in Nat
  PROVE  /\ Files!Open(fs, root, path, maxSize).err = "" <=> Readable(fs, root, path, maxSize)
         /\ Files!Open(fs, root, path, maxSize).err = "" =>
              Files!Open(fs, root, path, maxSize).value = fs[Files!Canonicalize(fs, path).value]
<1> PICK real : real = Files!Canonicalize(fs, path)
  OBVIOUS
<1> PICK pre : pre = Files!SymlinkMetadata(fs, path)
  OBVIOUS
<1> PICK open : open = Files!Open(fs, root, path, maxSize)
  OBVIOUS
<1>1. Resolved(fs, real)
  BY CanonicalIsReal
<1>2. Readable(fs, root, path, maxSize) => pre.err = "" /\ pre.value.kind \in {"file", "link"}
  <2> SUFFICES ASSUME Readable(fs, root, path, maxSize)
               PROVE  pre.err = "" /\ pre.value.kind \in {"file", "link"}
    OBVIOUS
  <2>1. real.err = "" /\ fs[real.value].kind = "file"
    BY DEF Readable
  <2>2. path # <<>>
    <3>1. path = <<>> => real = Files!Ok(<<>>)
      BY CanonicalSteps
    <3>2. Files!Ok(<<>>).value = <<>> /\ fs[<<>>].kind = "dir"
      BY ResultParts DEF IsTree
    <3> QED
      BY <2>1, <3>1, <3>2
  <2>3. PICK parent : parent = Files!Canonicalize(fs, Files!Parent(path))
    OBVIOUS
  <2>4. PICK down : down = Files!Descend(fs, parent.value, path[Len(path)])
    OBVIOUS
  <2>5. parent.err = ""
    BY <2>1, <2>2, <2>3, NoParent
  <2>6. down.err = ""
    BY <2>1, <2>2, <2>3, <2>4, <2>5, LastNameMissing
  <2>7. parent.value \in DOMAIN fs /\ path[Len(path)] \in NameSet \cup {".."}
    BY <2>2, <2>3, <2>5, ParentIsReal
  <2>8. down.value \in DOMAIN fs
    BY <2>4, <2>6, <2>7, DescendShape
  <2>9. pre = Files!Ok(fs[down.value]) /\ real = Files!Follow(fs, down.value)
    BY <2>2, <2>3, <2>4, <2>5, <2>6, LastName
  <2>10. fs[down.value].kind # "link" => Files!Follow(fs, down.value) = Files!Ok(down.value)
    BY <2>8, FollowShape
  <2>11. fs[down.value].kind \in {"file", "link"}
    BY <2>1, <2>9, <2>10, ResultParts
  <2> QED
    BY <2>9, <2>11, ResultParts
<1>3. pre.err # "" => open = pre
  BY DEF Files!Open, Files!Then
<1>4. pre.err = "" /\ pre.value.kind \notin {"file", "link"} => open.err # ""
  <2>1. ASSUME pre.err = "", pre.value.kind \notin {"file", "link"}
        PROVE  open = Files!Fail("not_regular_file")
    BY <2>1 DEF Files!Open, Files!Then
  <2> QED
    BY <2>1, ResultParts
<1>5. ASSUME pre.err = "", pre.value.kind \in {"file", "link"}
      PROVE  open = IF real.err # "" THEN real
                    ELSE IF ~Files!Under(root, real.value)
                    THEN Files!Fail(IF Files!SymlinkCausedEscape(fs, root, path, real.value)
                              THEN "symlink_escape" ELSE "containment_violation")
                    ELSE IF fs[real.value].kind # "file" THEN Files!Fail("not_regular_file")
                    ELSE IF fs[real.value].locked THEN Files!Fail("permission_denied")
                    ELSE IF Len(fs[real.value].text) > maxSize THEN Files!Fail("too_large")
                    ELSE Files!Ok(fs[real.value])
  BY <1>5 DEF Files!Open, Files!Then
<1>6. ASSUME pre.err = "", pre.value.kind \in {"file", "link"}
      PROVE  /\ open.err = "" <=> Readable(fs, root, path, maxSize)
             /\ open.err = "" => open.value = fs[real.value]
  <2>1. CASE real.err # ""
    BY <1>5, <1>6, <2>1 DEF Readable
  <2>2. CASE real.err = "" /\ ~Readable(fs, root, path, maxSize)
    <3>1. real.value \in DOMAIN fs
      BY <1>1, <2>2 DEF Resolved
    <3>2. ~(Len(fs[real.value].text) > maxSize) <=> Len(fs[real.value].text) <= maxSize
      <4>1. PICK n : n = Len(fs[real.value].text)
        OBVIOUS
      <4>2. n \in Nat
        BY <3>1, <4>1 DEF IsTree
      <4> QED
        BY <4>1, <4>2
    <3>3. \E kind \in {"symlink_escape", "containment_violation", "not_regular_file", "permission_denied", "too_large"} :
            open = Files!Fail(kind)
      <4>1. \/ ~Files!Under(root, real.value) \/ fs[real.value].kind # "file" \/ fs[real.value].locked
            \/ Len(fs[real.value].text) > maxSize
        BY <2>2, <3>2 DEF Readable
      <4> QED
        BY <1>5, <1>6, <2>2, <4>1
    <3> QED
      BY <2>2, <3>3, ResultParts
  <2>3. CASE Readable(fs, root, path, maxSize)
    <3>1. real.err = "" /\ real.value \in DOMAIN fs
      BY <1>1, <2>3 DEF Readable, Resolved
    <3>2. ~(Len(fs[real.value].text) > maxSize)
      <4>1. PICK n : n = Len(fs[real.value].text)
        OBVIOUS
      <4>2. n \in Nat /\ n <= maxSize
        BY <2>3, <3>1, <4>1 DEF Readable, IsTree
      <4> QED
        BY <4>1, <4>2
    <3>3. open = Files!Ok(fs[real.value])
      BY <1>5, <1>6, <2>3, <3>2 DEF Readable
    <3> QED
      BY <2>3, <3>3, ResultParts
  <2> QED
    BY <2>1, <2>2, <2>3
<1> QED
  BY <1>2, <1>3, <1>4, <1>6

ExactRead(fs, root, path, maxSize, read) ==
  LET text == fs[Files!Canonicalize(fs, path).value].text
  IN  /\ read.err = "" <=> Readable(fs, root, path, maxSize) /\ "invalid" \notin Files!ToSet(text)
      /\ read.err = "" => read.value = IF text # <<>> /\ text[1] = "bom" THEN Tail(text) ELSE text

\* What a read returns is what stands in a file whose real path is below the root, but
\* for a byte order mark; and it returns every such file that is valid UTF-8, may be
\* opened and is not too large: guarded_read, for all file systems, roots and paths.
THEOREM ReadIsExact ==
  ASSUME NEW fs, NEW NameSet, IsTree(fs, NameSet), NEW path \in Seq(NameSet \cup {".."}), NEW root, NEW maxSize \in Nat
  PROVE  ExactRead(fs, root, path, maxSize, Files!GuardedRead(fs, root, path, maxSize))
<1> PICK text : text = fs[Files!Canonicalize(fs, path).value].text
  OBVIOUS
<1> PICK read : read = Files!GuardedRead(fs, root, path, maxSize)
  OBVIOUS
<1> SUFFICES /\ read.err = "" <=> Readable(fs, root, path, maxSize) /\ "invalid" \notin Files!ToSet(text)
             /\ read.err = "" => read.value = IF text # <<>> /\ text[1] = "bom" THEN Tail(text) ELSE text
  BY DEF ExactRead
<1> PICK open : open = Files!Open(fs, root, path, maxSize)
  OBVIOUS
<1>1. /\ open.err = "" <=> Readable(fs, root, path, maxSize)
      /\ open.err = "" => open.value.text = text
  BY OpenIsExact
<1>2. CASE open.err # ""
  <2>1. read = open
    BY <1>2 DEF Files!GuardedRead, Files!Then
  <2> QED
    BY <1>1, <1>2, <2>1
<1>3. CASE open.err = "" /\ "invalid" \in Files!ToSet(text)
  <2>1. read = Files!Fail("io_error")
    BY <1>1, <1>3 DEF Files!GuardedRead, Files!Then
  <2> QED
    BY <1>3, <2>1, ResultParts
<1>4. CASE open.err = "" /\ "invalid" \notin Files!ToSet(text)
  <2>1. read = IF text # <<>> /\ text[1] = "bom" THEN Files!Ok(Tail(text)) ELSE Files!Ok(text)
    BY <1>1, <1>4 DEF Files!GuardedRead, Files!Then
  <2> QED
    BY <1>1, <1>4, <2>1, ResultParts
<1> QED
  BY <1>2, <1>3, <1>4

-----------------------------------------------------------------------------
(* Writes *)

\* Where something may be written below a root: a file or nothing, in a directory that
\* is there, below the root by its real path, and that this user may search.
Writable(fs, root, path) ==
  LET dir == Files!Canonicalize(fs, Files!Parent(path))
      place == Append(dir.value, path[Len(path)])
  IN  /\ path # <<>> /\ path[Len(path)] # ".."
      /\ dir.err = "" /\ Files!Under(root, dir.value)
      /\ fs[dir.value].kind = "dir" /\ ~fs[dir.value].locked
      /\ place \in DOMAIN fs => fs[place].kind = "file"

\* check_write_target accepts these paths and no others.
THEOREM TargetIsExact ==
  ASSUME NEW fs, NEW NameSet, IsTree(fs, NameSet), NEW path \in Seq(NameSet \cup {".."}), NEW root,
         NEW dir, dir = Files!Canonicalize(fs, Files!Parent(path)),
         NEW place, place = Append(dir.value, path[Len(path)]),
         NEW target, target = Files!CheckWriteTarget(fs, root, path)
  PROVE  /\ target.err = "" <=> Writable(fs, root, path)
         /\ target.err = "" => target.value = IF place \in DOMAIN fs THEN "file" ELSE "absent"
<1> PICK meta : meta = Files!SymlinkMetadata(fs, path)
  OBVIOUS
<1>1. CASE dir.err # ""
  <2>1. target = dir
    BY <1>1 DEF Files!CheckWriteTarget, Files!Then
  <2> QED
    BY <1>1, <2>1 DEF Writable
<1>2. CASE dir.err = "" /\ ~Files!Under(root, dir.value)
  <2>1. target = Files!Fail("symlink_escape")
    BY <1>2 DEF Files!CheckWriteTarget, Files!Then
  <2> QED
    BY <1>2, <2>1, ResultParts DEF Writable
<1>3. ASSUME dir.err = "", Files!Under(root, dir.value)
      PROVE  /\ meta.err = "not_found" => target = Files!Ok("absent")
             /\ meta.err \notin {"", "not_found"} => target = meta
             /\ meta.err = "" /\ meta.value.kind = "file" => target = Files!Ok("file")
             /\ meta.err = "" /\ meta.value.kind # "file" => \E kind \in {"is_symlink", "not_regular_file"} : target = Files!Fail(kind)
  BY <1>3 DEF Files!CheckWriteTarget, Files!Then
<1>4. CASE dir.err = "" /\ Files!Under(root, dir.value) /\ path = <<>>
  <2>1. meta = Files!Ok(fs[path])
    BY <1>4 DEF Files!SymlinkMetadata
  <2>2. meta.err = "" /\ meta.value.kind = "dir"
    <3>1. meta.err = "" /\ meta.value = fs[path]
      BY <2>1, ResultParts
    <3>2. fs[<<>>].kind = "dir"
      BY DEF IsTree
    <3> QED
      BY <1>4, <3>1, <3>2
  <2>3. target.err # ""
    BY <1>3, <1>4, <2>2, ResultParts
  <2> QED
    BY <1>4, <2>3 DEF Writable
<1>5. CASE dir.err = "" /\ Files!Under(root, dir.value) /\ path # <<>>
  <2> PICK name : name = path[Len(path)]
    OBVIOUS
  <2> PICK down : down = Files!Descend(fs, dir.value, name)
    OBVIOUS
  <2>1. dir.value \in DOMAIN fs /\ name \in NameSet \cup {".."}
    BY <1>5, ParentIsReal
  <2>2. \/ /\ down.err = "" /\ down.value \in DOMAIN fs
           /\ fs[dir.value].kind = "dir" /\ ~fs[dir.value].locked
           /\ IF name = ".." THEN fs[down.value].kind = "dir" ELSE down.value = place
        \/ /\ down.err = "not_found" /\ name # ".." /\ place \notin DOMAIN fs
           /\ fs[dir.value].kind = "dir" /\ ~fs[dir.value].locked
        \/ down.err \in {"io_error", "permission_denied"}
    BY <2>1, DescendShape
  <2>3. CASE down.err = ""
    <3>1. meta = Files!Ok(fs[down.value])
      BY <1>5, <2>3, LastName
    <3>2. meta.err = "" /\ meta.value.kind = fs[down.value].kind
      BY <3>1, ResultParts
    <3>3. CASE fs[down.value].kind = "file"
      <4>1. target = Files!Ok("file")
        BY <1>3, <1>5, <3>2, <3>3
      <4>2. name # ".." /\ down.value = place /\ fs[dir.value].kind = "dir" /\ ~fs[dir.value].locked
        BY <2>2, <2>3, <3>3
      <4>3. Writable(fs, root, path)
        BY <1>5, <3>3, <4>2 DEF Writable
      <4>4. target.err = "" /\ target.value = "file" /\ place \in DOMAIN fs
        BY <2>2, <2>3, <4>1, <4>2, ResultParts
      <4> QED
        BY <4>3, <4>4
    <3>4. CASE fs[down.value].kind # "file"
      <4>1. target.err # ""
        BY <1>3, <1>5, <3>2, <3>4, ResultParts
      <4>2. ~Writable(fs, root, path)
        BY <2>2, <2>3, <3>4 DEF Writable
      <4> QED
        BY <4>1, <4>2
    <3> QED
      BY <3>3, <3>4
  <2>4. CASE down.err = "not_found"
    <3>1. meta = down
      BY <1>5, <2>4, LastNameMissing
    <3>2. target = Files!Ok("absent")
      BY <1>3, <1>5, <2>4, <3>1
    <3> QED
      BY <1>5, <2>2, <2>4, <3>2, ResultParts DEF Writable
  <2>5. CASE down.err \in {"io_error", "permission_denied"}
    <3>1. meta = down
      BY <1>5, <2>5, LastNameMissing
    <3>2. target = meta
      BY <1>3, <1>5, <2>5, <3>1
    <3>3. ~Writable(fs, root, path)
      <4>1. fs[dir.value].kind = "dir" /\ ~fs[dir.value].locked /\ name # ".." => down.err \in {"", "not_found"}
        BY ResultParts DEF Files!Descend, Files!Lookup
      <4> QED
        BY <2>5, <4>1 DEF Writable
    <3> QED
      BY <2>5, <3>1, <3>2, <3>3
  <2> QED
    BY <2>2, <2>3, <2>4, <2>5
<1> QED
  BY <1>1, <1>2, <1>4, <1>5

\* The place a write goes to is below the root, and is what the path leads to when
\* something is there: no link and no ".." takes it elsewhere.
LEMMA WritablePlace ==
  ASSUME NEW fs, NEW NameSet, IsTree(fs, NameSet), NEW path \in Seq(NameSet \cup {".."}), NEW root \in Seq(NameSet),
         Writable(fs, root, path),
         NEW place, place = Append(Files!Canonicalize(fs, Files!Parent(path)).value, path[Len(path)])
  PROVE  /\ Files!Under(root, place) /\ Files!Parent(place) = Files!Canonicalize(fs, Files!Parent(path)).value
         /\ place \in DOMAIN fs => fs[place].kind = "file" /\ Files!Canonicalize(fs, path) = Files!Ok(place)
<1> PICK dir : dir = Files!Canonicalize(fs, Files!Parent(path))
  OBVIOUS
<1> PICK name : name = path[Len(path)]
  OBVIOUS
<1>1. /\ path # <<>> /\ name # ".." /\ dir.err = "" /\ Files!Under(root, dir.value)
      /\ fs[dir.value].kind = "dir" /\ ~fs[dir.value].locked
      /\ place \in DOMAIN fs => fs[place].kind = "file"
  BY DEF Writable
<1>2. dir.value \in DOMAIN fs /\ name \in NameSet
  BY <1>1, ParentIsReal
<1>3. dir.value \in Seq(NameSet)
  BY <1>2 DEF IsTree
<1>4. Files!Under(root, place)
  BY <1>1, <1>2, <1>3, UnderAppend
<1>5. Files!Parent(place) = dir.value
  <2>1. place \in Seq(NameSet) /\ place # <<>> /\ Len(place) = Len(dir.value) + 1 /\ Len(dir.value) \in Nat
        /\ \A k \in 1..Len(dir.value) : place[k] = dir.value[k]
    BY <1>2, <1>3, AppendProperties, LenProperties
  <2>2. /\ Files!Parent(place) \in Seq(NameSet) /\ Len(Files!Parent(place)) = Len(place) - 1
        /\ \A k \in 1..(Len(place) - 1) : Files!Parent(place)[k] = place[k]
    BY <2>1, ParentOf
  <2>3. Len(Files!Parent(place)) = Len(dir.value) /\ \A k \in 1..Len(Files!Parent(place)) : Files!Parent(place)[k] = dir.value[k]
    BY <2>1, <2>2
  <2> QED
    BY <1>3, <2>2, <2>3, SeqEqual
<1>6. ASSUME place \in DOMAIN fs
      PROVE  Files!Canonicalize(fs, path) = Files!Ok(place)
  <2>1. Files!Descend(fs, dir.value, name) = Files!Ok(place)
    BY <1>1, <1>6 DEF Files!Descend, Files!Lookup
  <2>2. Files!Ok(place).err = "" /\ Files!Ok(place).value = place
    BY ResultParts
  <2>3. Files!Canonicalize(fs, path) = Files!Follow(fs, place)
    BY <1>1, <2>1, <2>2, LastName
  <2> QED
    BY <1>1, <1>6, <2>3, FollowShape
<1> QED
  BY <1>1, <1>4, <1>5, <1>6

\* guarded_write, create_file, set_permissions, remove_file: the one system call that
\* follows the test touches a file below the root, or creates one there.
THEOREM WritesStayInside ==
  ASSUME NEW fs, NEW NameSet, IsTree(fs, NameSet), NEW path \in Seq(NameSet \cup {".."}), NEW root \in Seq(NameSet),
         NEW createsFile \in BOOLEAN, Files!GuardedCall(fs, root, path, createsFile).err = "",
         NEW place, place = Append(Files!Canonicalize(fs, Files!Parent(path)).value, path[Len(path)])
  PROVE  /\ Files!Under(root, place)
         /\ IF place \in DOMAIN fs THEN fs[place].kind = "file" /\ Files!Canonicalize(fs, path) = Files!Ok(place)
            ELSE createsFile /\ fs[Files!Parent(place)].kind = "dir"
<1> PICK target : target = Files!CheckWriteTarget(fs, root, path)
  OBVIOUS
<1>1. target.err = "" /\ (target.value = "absent" => createsFile)
  <2>1. target.err # "" => Files!GuardedCall(fs, root, path, createsFile) = target
    BY DEF Files!GuardedCall, Files!Then
  <2>2. target.err = "" /\ target.value = "absent" /\ ~createsFile =>
          Files!GuardedCall(fs, root, path, createsFile) = Files!Fail("not_found")
    BY DEF Files!GuardedCall, Files!Then
  <2> QED
    BY <2>1, <2>2, ResultParts
<1>2. Writable(fs, root, path) /\ target.value = IF place \in DOMAIN fs THEN "file" ELSE "absent"
  BY <1>1, TargetIsExact
<1>3. fs[Files!Canonicalize(fs, Files!Parent(path)).value].kind = "dir"
  BY <1>2 DEF Writable
<1>4. /\ Files!Under(root, place) /\ Files!Parent(place) = Files!Canonicalize(fs, Files!Parent(path)).value
      /\ place \in DOMAIN fs => fs[place].kind = "file" /\ Files!Canonicalize(fs, path) = Files!Ok(place)
  BY <1>2, WritablePlace
<1>5. place \notin DOMAIN fs => createsFile
  BY <1>1, <1>2
<1> QED
  BY <1>3, <1>4, <1>5

\* guarded_rename: a file below the root takes a place below the root.
THEOREM RenamesStayInside ==
  ASSUME NEW fs, NEW NameSet, IsTree(fs, NameSet), NEW root \in Seq(NameSet),
         NEW from \in Seq(NameSet \cup {".."}), NEW to \in Seq(NameSet \cup {".."}),
         Files!GuardedRename(fs, root, from, to).err = "",
         NEW source, source = Append(Files!Canonicalize(fs, Files!Parent(from)).value, from[Len(from)]),
         NEW target, target = Append(Files!Canonicalize(fs, Files!Parent(to)).value, to[Len(to)])
  PROVE  /\ Files!Under(root, source) /\ source \in DOMAIN fs /\ fs[source].kind = "file"
         /\ Files!Under(root, target) /\ (target \in DOMAIN fs => fs[target].kind = "file")
<1> PICK a : a = Files!CheckWriteTarget(fs, root, from)
  OBVIOUS
<1> PICK b : b = Files!CheckWriteTarget(fs, root, to)
  OBVIOUS
<1>1. a.err = "" /\ b.err = "" /\ a.value # "absent"
  <2>1. a.err # "" => Files!GuardedRename(fs, root, from, to) = a
    BY DEF Files!GuardedRename, Files!Then
  <2>2. a.err = "" /\ b.err # "" => Files!GuardedRename(fs, root, from, to) = b
    BY DEF Files!GuardedRename, Files!Then
  <2>3. a.err = "" /\ b.err = "" /\ a.value = "absent" => Files!GuardedRename(fs, root, from, to) = Files!Fail("not_found")
    BY DEF Files!GuardedRename, Files!Then
  <2> QED
    BY <2>1, <2>2, <2>3, ResultParts
<1>2. Writable(fs, root, from) /\ source \in DOMAIN fs
  BY <1>1, TargetIsExact
<1>3. Writable(fs, root, to)
  BY <1>1, TargetIsExact
<1>4. Files!Under(root, source) /\ fs[source].kind = "file"
  BY <1>2, WritablePlace
<1>5. Files!Under(root, target) /\ (target \in DOMAIN fs => fs[target].kind = "file")
  BY <1>3, WritablePlace
<1> QED
  BY <1>2, <1>4, <1>5

\* guarded_read_dir: what is listed is in the tree and below the root.
THEOREM ListingsStayInside ==
  ASSUME NEW fs, NEW NameSet, IsTree(fs, NameSet), NEW path \in Seq(NameSet \cup {".."}), NEW root \in Seq(NameSet),
         Files!GuardedReadDir(fs, root, path).err = ""
  PROVE  /\ Files!Under(root, Files!Canonicalize(fs, path).value)
         /\ \A p \in Files!GuardedReadDir(fs, root, path).value :
              p \in DOMAIN fs /\ Files!Under(root, p) /\ Files!Parent(p) = Files!Canonicalize(fs, path).value
<1> PICK dir : dir = Files!Canonicalize(fs, path)
  OBVIOUS
<1> PICK found : found = {p \in DOMAIN fs : p # <<>> /\ Files!Parent(p) = dir.value}
  OBVIOUS
<1>1. dir.err = "" /\ Files!Under(root, dir.value) /\ Files!GuardedReadDir(fs, root, path) = Files!Ok(found)
  <2>1. dir.err # "" => Files!GuardedReadDir(fs, root, path) = dir
    BY DEF Files!GuardedReadDir, Files!Then
  <2>2. dir.err = "" /\ ~Files!Under(root, dir.value) => Files!GuardedReadDir(fs, root, path) = Files!Fail("symlink_escape")
    BY DEF Files!GuardedReadDir, Files!Then
  <2>3. dir.err = "" /\ Files!Under(root, dir.value) /\ fs[dir.value].kind # "dir" =>
          Files!GuardedReadDir(fs, root, path) = Files!Fail("not_regular_file")
    BY DEF Files!GuardedReadDir, Files!Then
  <2>4. dir.err = "" /\ Files!Under(root, dir.value) /\ fs[dir.value].kind = "dir" /\ fs[dir.value].locked =>
          Files!GuardedReadDir(fs, root, path) = Files!Fail("permission_denied")
    BY DEF Files!GuardedReadDir, Files!Then
  <2>5. dir.err = "" /\ Files!Under(root, dir.value) /\ fs[dir.value].kind = "dir" /\ ~fs[dir.value].locked =>
          Files!GuardedReadDir(fs, root, path) = Files!Ok(found)
    BY DEF Files!GuardedReadDir, Files!Then
  <2>6. \A kind : Files!GuardedReadDir(fs, root, path) = Files!Fail(kind) => kind = ""
    BY ResultParts
  <2> QED
    BY <2>1, <2>2, <2>3, <2>4, <2>5, <2>6
<1>2. dir.value \in DOMAIN fs
  BY <1>1, CanonicalIsReal DEF Resolved
<1>3. ASSUME NEW p \in found
      PROVE  Files!Under(root, p)
  <2>1. p \in Seq(NameSet) /\ p # <<>> /\ dir.value \in Seq(NameSet) /\ Files!Parent(p) = dir.value
    BY <1>2 DEF IsTree
  <2>2. p = Append(dir.value, p[Len(p)]) /\ p[Len(p)] \in NameSet
    BY <2>1, ParentOf
  <2>3. PICK name \in NameSet : p = Append(dir.value, name)
    BY <2>2
  <2> QED
    BY <1>1, <2>1, <2>3, UnderAppend
<1> QED
  BY <1>1, <1>3, ResultParts

-----------------------------------------------------------------------------
(* The trees of the calls *)

\* All names but "..".
PlaceNames == Names \ {".."}

\* The parents of short paths.
LEMMA ShortPaths ==
  /\ \A a : Files!Parent(<<a>>) = <<>> /\ Len(<<a>>) = 1
  /\ \A a, b : Files!Parent(<<a, b>>) = <<a>> /\ Len(<<a, b>>) = 2
  /\ \A a, b, c : Files!Parent(<<a, b, c>>) = <<a, b>> /\ Len(<<a, b, c>>) = 3
<1>1. ASSUME NEW a PROVE Files!Parent(<<a>>) = <<>> /\ Len(<<a>>) = 1
  BY DEF Files!Parent
<1>2. ASSUME NEW a, NEW b PROVE Files!Parent(<<a, b>>) = <<a>> /\ Len(<<a, b>>) = 2
  <2> PICK p : p = <<a, b>>
    OBVIOUS
  <2>1. p \in Seq({a, b}) /\ Len(p) = 2 /\ p[1] = a
    OBVIOUS
  <2>2. Files!Parent(p) = SubSeq(p, 1, 1)
    BY <2>1 DEF Files!Parent
  <2>3. SubSeq(p, 1, 1) \in Seq({a, b}) /\ Len(SubSeq(p, 1, 1)) = 1 /\ SubSeq(p, 1, 1)[1] = a
    BY <2>1
  <2> QED
    BY <2>1, <2>2, <2>3
<1>3. ASSUME NEW a, NEW b, NEW c PROVE Files!Parent(<<a, b, c>>) = <<a, b>> /\ Len(<<a, b, c>>) = 3
  <2> PICK p : p = <<a, b, c>>
    OBVIOUS
  <2>1. p \in Seq({a, b, c}) /\ Len(p) = 3 /\ p[1] = a /\ p[2] = b
    OBVIOUS
  <2>2. Files!Parent(p) = SubSeq(p, 1, 2)
    BY <2>1 DEF Files!Parent
  <2>3. /\ SubSeq(p, 1, 2) \in Seq({a, b, c}) /\ Len(SubSeq(p, 1, 2)) = 2
        /\ SubSeq(p, 1, 2)[1] = a /\ SubSeq(p, 1, 2)[2] = b
    BY <2>1
  <2> QED
    BY <2>1, <2>2, <2>3
<1> QED
  BY <1>1, <1>2, <1>3

\* Short sequences are sequences.
LEMMA ShortSeqs ==
  \A S : \A x, y \in S : <<>> \in Seq(S) /\ <<x>> \in Seq(S) /\ <<x, y>> \in Seq(S)
OBVIOUS

\* What the texts of the trees are made of.
Words == {"secret", "b", "a", "bom", "f"}

\* A text of the trees: short, valid and no binary.
PlainText(text) ==
  text \in Seq(Words) /\ Len(text) \in 0..2 /\ "invalid" \notin Files!ToSet(text) /\ "nul" \notin Files!ToSet(text)

\* The texts of the trees are plain.
LEMMA PlainTexts ==
  \A text \in {<<>>, <<"secret">>, <<"b">>, <<"a">>, <<"bom", "a">>, <<"f">>} : PlainText(text)
<1>1. \A x, y \in Words : <<>> \in Seq(Words) /\ <<x>> \in Seq(Words) /\ <<x, y>> \in Seq(Words)
  BY ShortSeqs
<1>2. \A text \in {<<>>, <<"secret">>, <<"b">>, <<"a">>, <<"bom", "a">>, <<"f">>} :
        Len(text) \in 0..2 /\ "invalid" \notin Files!ToSet(text) /\ "nul" \notin Files!ToSet(text)
  BY DEF Files!ToSet
<1>3. \A text \in {<<>>, <<"secret">>, <<"b">>, <<"a">>, <<"bom", "a">>, <<"f">>} : text \in Seq(Words)
  <2>1. /\ <<>> \in Seq(Words) /\ <<"secret">> \in Seq(Words) /\ <<"b">> \in Seq(Words) /\ <<"a">> \in Seq(Words)
        /\ <<"f">> \in Seq(Words) /\ <<"bom", "a">> \in Seq(Words)
    <3>1. "secret" \in Words /\ "b" \in Words /\ "a" \in Words /\ "f" \in Words /\ "bom" \in Words
      BY DEF Words
    <3> QED
      BY <1>1, <3>1, Zenon
  <2> QED
    BY <2>1
<1> QED
  BY <1>2, <1>3 DEF PlainText

\* A node of the trees; its link leads to one of four places or nowhere.
PlainNode(node) ==
  /\ node.kind \in {"file", "dir", "link", "fifo"} /\ PlainText(node.text)
  /\ node.kind = "link" => node.to \in {<<"o", "s">>, <<"w", "b">>, <<"o">>, <<"w">>, <<"w", "none">>}

\* The nodes of the trees are plain.
LEMMA PlainNodes ==
  /\ \A text : PlainText(text) => PlainNode(File(text)) /\ File(text).kind = "file"
  /\ PlainNode(Dir) /\ Dir.kind = "dir" /\ ~Dir.locked
  /\ \A leaf \in Leaves : PlainNode(leaf)
  /\ \A branch \in Branches :
       /\ DOMAIN branch = {<<"w", "d">>} \/ (DOMAIN branch = {<<"w", "d">>, <<"w", "d", "f">>} /\ branch[<<"w", "d">>] = Dir)
       /\ \A p \in DOMAIN branch : PlainNode(branch[p])
<1>1. \A text : PlainText(text) => PlainNode(File(text)) /\ File(text).kind = "file"
  BY DEF PlainNode, File, Node
<1>2. PlainNode(Dir) /\ Dir.kind = "dir" /\ ~Dir.locked
  BY PlainTexts DEF PlainNode, Dir, Node
<1>3. \A to \in {<<"o", "s">>, <<"w", "b">>, <<"o">>, <<"w">>, <<"w", "none">>} : PlainNode(Link(to))
  BY PlainTexts DEF PlainNode, Link, Node
<1>4. PlainNode(Node("fifo", <<>>, <<>>)) /\ PlainNode([File(<<"a">>) EXCEPT !.locked = TRUE])
  BY PlainTexts DEF PlainNode, File, Node
<1>5. ASSUME NEW leaf \in Leaves PROVE PlainNode(leaf)
  BY <1>1, <1>2, <1>3, <1>4, PlainTexts DEF Leaves
<1>6. ASSUME NEW branch \in Branches
      PROVE  /\ \/ DOMAIN branch = {<<"w", "d">>}
                \/ DOMAIN branch = {<<"w", "d">>, <<"w", "d", "f">>} /\ branch[<<"w", "d">>] = Dir
             /\ \A p \in DOMAIN branch : PlainNode(branch[p])
  <2>1. CASE branch = [p \in {<<"w", "d">>} |-> Link(<<"o">>)]
    BY <1>3, <2>1
  <2>2. CASE branch = [p \in {<<"w", "d">>} |-> Link(Root)]
    BY <1>3, <2>2 DEF Root
  <2>3. ASSUME NEW leaf \in {File(<<"f">>), Link(<<"o", "s">>), Link(<<"w", "b">>)},
               branch = [p \in {<<"w", "d">>, <<"w", "d", "f">>} |-> IF Len(p) = 2 THEN Dir ELSE leaf]
        PROVE  /\ DOMAIN branch = {<<"w", "d">>, <<"w", "d", "f">>} /\ branch[<<"w", "d">>] = Dir
               /\ \A p \in DOMAIN branch : PlainNode(branch[p])
    <3>1. PlainNode(leaf)
      BY <1>1, <1>3, PlainTexts
    <3>2. Len(<<"w", "d">>) = 2 /\ Len(<<"w", "d", "f">>) = 3
      BY ShortPaths
    <3>3. branch[<<"w", "d">>] = Dir /\ branch[<<"w", "d", "f">>] = leaf
      BY <2>3, <3>2
    <3> QED
      BY <1>2, <2>3, <3>1, <3>3
  <2> QED
    BY <2>1, <2>2, <2>3 DEF Branches
<1> QED
  BY <1>1, <1>2, <1>5, <1>6

\* The directories and files that every tree has.
LEMMA BaseNodes ==
  /\ DOMAIN Base = {<<>>, <<"w">>, <<"o">>, <<"o", "s">>, <<"w", "b">>}
  /\ Base[<<>>] = Dir /\ Base[<<"w">>] = Dir /\ Base[<<"o">>] = Dir
  /\ Base[<<"o", "s">>] = File(<<"secret">>) /\ Base[<<"w", "b">>] = File(<<"b">>)
<1>1. DOMAIN Base = {<<>>, <<"w">>, <<"o">>, <<"o", "s">>, <<"w", "b">>}
  BY DEF Base, Root
<1>2. \A p \in DOMAIN Base :
        Base[p] = CASE p = <<"o", "s">> -> File(<<"secret">>) [] p = <<"w", "b">> -> File(<<"b">>) [] OTHER -> Dir
  BY DEF Base
<1>3. <<"o", "s">> # <<"w", "b">> /\ \A p \in {<<>>, <<"w">>, <<"o">>} : p # <<"o", "s">> /\ p # <<"w", "b">>
  <2>1. Len(<<>>) = 0 /\ Len(<<"w">>) = 1 /\ Len(<<"o">>) = 1 /\ Len(<<"o", "s">>) = 2 /\ Len(<<"w", "b">>) = 2
    BY ShortPaths
  <2>2. <<"o", "s">># <<"w", "b">>
    OBVIOUS
  <2> QED
    BY <2>1, <2>2
<1>4. \A p \in {<<>>, <<"w">>, <<"o">>} : Base[p] = Dir
  BY <1>1, <1>2, <1>3
<1>5. Base[<<"o", "s">>] = File(<<"secret">>)
  BY <1>1, <1>2
<1>6. Base[<<"w", "b">>] = File(<<"b">>)
  BY <1>1, <1>2, <1>3
<1> QED
  BY <1>1, <1>4, <1>5, <1>6

\* The trees are trees, of plain nodes, and the root is a directory that may be searched.
WorkTree(fs) ==
  /\ IsTree(fs, PlaceNames)
  /\ \A p \in DOMAIN fs : PlainNode(fs[p])
  /\ Root \in DOMAIN fs /\ fs[Root] = Dir /\ fs[<<>>] = Dir

\* The trees of the calls are trees of files with the root among them.
LEMMA TreesAreTrees ==
  ASSUME NEW fs \in Trees
  PROVE  WorkTree(fs)
<1> PICK leaf \in Leaves, branch \in Branches : fs = Tree(leaf, branch)
  BY DEF Trees
<1> DEFINE places == {<<>>, <<"w">>, <<"o">>, <<"o", "s">>, <<"w", "b">>, <<"w", "a">>}
<1>1. DOMAIN fs = places \cup DOMAIN branch
  BY BaseNodes DEF Tree
<1>2. \A p \in DOMAIN fs : fs[p] = IF p \in DOMAIN Base THEN Base[p] ELSE IF p \in DOMAIN branch THEN branch[p] ELSE leaf
  BY DEF Tree
<1>3. /\ fs[<<>>] = Dir /\ fs[<<"w">>] = Dir /\ fs[<<"o">>] = Dir
      /\ fs[<<"o", "s">>] = File(<<"secret">>) /\ fs[<<"w", "b">>] = File(<<"b">>)
  BY <1>1, <1>2, BaseNodes
<1>4. ASSUME NEW p \in DOMAIN fs
      PROVE  PlainNode(fs[p])
  <2>1. \A q \in DOMAIN Base : PlainNode(Base[q])
    BY BaseNodes, PlainNodes, PlainTexts
  <2>2. \A q \in DOMAIN branch : PlainNode(branch[q])
    BY PlainNodes
  <2>3. PlainNode(leaf)
    BY PlainNodes
  <2> QED
    BY <1>2, <2>1, <2>2, <2>3
<1>5. \/ DOMAIN branch = {<<"w", "d">>}
      \/ DOMAIN branch = {<<"w", "d">>, <<"w", "d", "f">>} /\ fs[<<"w", "d">>] = Dir
  <2>1. CASE DOMAIN branch = {<<"w", "d">>, <<"w", "d", "f">>} /\ branch[<<"w", "d">>] = Dir
    <3>1. <<"w", "d">> \notin DOMAIN Base
      <4>1. Len(<<>>) = 0 /\ Len(<<"w">>) = 1 /\ Len(<<"o">>) = 1 /\ Len(<<"w", "d">>) = 2
        BY ShortPaths
      <4>2. <<"w", "d">> # <<"o", "s">> /\ <<"w", "d">> # <<"w", "b">>
        OBVIOUS
      <4> QED
        BY <4>1, <4>2, BaseNodes
    <3>2. <<"w", "d">> \in DOMAIN fs /\ <<"w", "d">> \in DOMAIN branch
      BY <1>1, <2>1
    <3> QED
      BY <1>2, <2>1, <3>1, <3>2
  <2> QED
    BY <2>1, PlainNodes
<1>6. DOMAIN fs \subseteq Seq(PlaceNames) /\ ".." \notin PlaceNames
  <2>1. {"a", "b", "d", "f", "s", "o", "w"} \subseteq PlaceNames /\ ".." \notin PlaceNames
    BY DEF PlaceNames, Names
  <2>2. \A x, y, z \in PlaceNames : <<x>> \in Seq(PlaceNames) /\ <<x, y>> \in Seq(PlaceNames) /\ <<x, y, z>> \in Seq(PlaceNames)
    OBVIOUS
  <2>3. places \cup {<<"w", "d">>, <<"w", "d", "f">>} \subseteq Seq(PlaceNames)
    BY <2>1, <2>2
  <2> QED
    BY <1>1, <1>5, <2>1, <2>3
<1>7. ASSUME NEW p \in DOMAIN fs, p # <<>>
      PROVE  Files!Parent(p) \in DOMAIN fs /\ fs[Files!Parent(p)].kind = "dir"
  <2>1. Dir.kind = "dir"
    BY PlainNodes
  <2>2. CASE p \in {<<"w">>, <<"o">>}
    <3>1. Files!Parent(p) = <<>>
      BY <2>2, ShortPaths
    <3> QED
      BY <1>1, <1>3, <2>1, <3>1
  <2>3. CASE p \in {<<"o", "s">>, <<"w", "b">>, <<"w", "a">>, <<"w", "d">>}
    <3>1. Files!Parent(p) \in {<<"w">>, <<"o">>}
      BY <2>3, ShortPaths
    <3> QED
      BY <1>1, <1>3, <2>1, <3>1
  <2>4. CASE p = <<"w", "d", "f">> /\ <<"w", "d">> \in DOMAIN fs /\ fs[<<"w", "d">>] = Dir
    <3>1. Files!Parent(p) = <<"w", "d">>
      BY <2>4, ShortPaths
    <3> QED
      BY <2>1, <2>4, <3>1
  <2>5. p = <<"w", "d", "f">> /\ p \notin places => <<"w", "d">> \in DOMAIN fs /\ fs[<<"w", "d">>] = Dir
    <3>1. <<"w", "d", "f">> # <<"w", "d">>
      BY ShortPaths
    <3> QED
      BY <1>1, <1>5, <3>1
  <2> QED
    BY <1>1, <1>5, <1>7, <2>2, <2>3, <2>4, <2>5
<1>8. ASSUME NEW p \in DOMAIN fs, fs[p].kind = "link", fs[p].to \in DOMAIN fs
      PROVE  fs[fs[p].to].kind # "link"
  <2>1. fs[p].to \in {<<"o", "s">>, <<"w", "b">>, <<"o">>, <<"w">>, <<"w", "none">>}
    BY <1>4, <1>8 DEF PlainNode
  <2>2. <<"w", "none">> \notin DOMAIN fs
    <3>1. Len(<<>>) = 0 /\ Len(<<"w">>) = 1 /\ Len(<<"o">>) = 1 /\ Len(<<"w", "none">>) = 2 /\ Len(<<"w", "d", "f">>) = 3
      BY ShortPaths
    <3>2. <<"w", "none">> \notin {<<"o", "s">>, <<"w", "b">>, <<"w", "a">>, <<"w", "d">>}
      OBVIOUS
    <3> QED
      BY <1>1, <1>5, <3>1, <3>2
  <2>3. \A q \in {<<"o", "s">>, <<"w", "b">>, <<"o">>, <<"w">>} : fs[q].kind # "link"
    BY <1>3, PlainNodes, PlainTexts
  <2> QED
    BY <1>8, <2>1, <2>2, <2>3
<1>9. \A p \in DOMAIN fs : fs[p].kind \in {"file", "dir", "link", "fifo"} /\ Len(fs[p].text) \in Nat
  BY <1>4 DEF PlainNode, PlainText
<1>10. <<>> \in DOMAIN fs /\ Root \in DOMAIN fs /\ fs[Root] = Dir /\ fs[<<>>].kind = "dir"
  BY <1>1, <1>3, PlainNodes DEF Root
<1> QED
  BY <1>3, <1>4, <1>6, <1>7, <1>8, <1>9, <1>10 DEF WorkTree, IsTree

-----------------------------------------------------------------------------
(* Reads, writes and listings *)

\* Path::starts_with.
LEMMA UnderIsPrefix == \A root, path : Files!Under(root, path) <=> IsPrefix(root, path)
BY DEF Files!Under, Files!IsPrefix, IsPrefix

\* Two sequences together.
LEMMA ConcatNames ==
  ASSUME NEW S, NEW s \in Seq(S), NEW t \in Seq(S)
  PROVE  s \o t \in Seq(S) /\ Len(s \o t) = Len(s) + Len(t)
OBVIOUS

\* The paths that are asked for, and those below the root that they stand for.
AnyPath == Seq(PlaceNames \cup {".."})

\* The paths that are asked for, with the root in front or without, are paths.
LEMMA PathsAreAny ==
  /\ Root \in Seq(PlaceNames) /\ Root # <<>> /\ Root \in AnyPath
  /\ \A path \in Paths : path \in AnyPath /\ path # <<>> /\ Root \o path \in AnyPath /\ Root \o path # <<>>
  /\ \A name \in Names : Append(Root, name) \in AnyPath
<1>1. PlaceNames \cup {".."} = Names /\ "w" \in PlaceNames
  BY DEF PlaceNames, Names
<1>2. Root \in Seq(PlaceNames) /\ Root # <<>> /\ Root \in AnyPath /\ Root \in Seq(Names) /\ Len(Root) = 1
  BY <1>1 DEF Root, AnyPath
<1>3. ASSUME NEW path \in Paths
      PROVE  path \in Seq(Names) /\ path # <<>>
  <2>1. \A p \in SeqsUpTo(Names, Depth) : p \in Seq(Names)
    BY CallBounds, SeqsAreSeqs
  <2>2. CASE path \in SeqsUpTo(Names, Depth) /\ path # <<>>
    BY <2>1, <2>2
  <2>3. ASSUME NEW p \in SeqsUpTo(Names, Depth), path = Root \o p
        PROVE  path \in Seq(Names) /\ path # <<>>
    <3>1. p \in Seq(Names)
      BY <2>1
    <3>2. Root \o p \in Seq(Names) /\ Len(Root \o p) = Len(Root) + Len(p)
      BY <1>2, <3>1, ConcatNames
    <3> QED
      BY <1>2, <2>3, <3>1, <3>2
  <2> QED
    BY <2>2, <2>3 DEF Paths
<1>4. ASSUME NEW path \in Paths
      PROVE  Root \o path \in Seq(Names) /\ Root \o path # <<>>
  <2>1. Root \o path \in Seq(Names) /\ Len(Root \o path) = Len(Root) + Len(path)
    BY <1>2, <1>3, ConcatNames
  <2> QED
    BY <1>2, <1>3, <2>1
<1>5. \A name \in Names : Append(Root, name) \in Seq(Names)
  BY <1>2
<1> QED
  BY <1>1, <1>2, <1>3, <1>4, <1>5 DEF AnyPath

\* What ReadsStayInside calls readable, and the text that a read has to give.
CanRead(fs, path) ==
  LET real == Real(fs, path)
  IN  /\ real.err = "" /\ IsPrefix(Root, real.value)
      /\ fs[real.value].kind = "file" /\ ~fs[real.value].locked
TextOf(fs, path) ==
  LET t == fs[Real(fs, path).value].text
  IN  IF t # <<>> /\ t[1] = "bom" THEN Tail(t) ELSE t

\* Where a path leads in these trees.
LEMMA RealPlace ==
  ASSUME NEW fs, WorkTree(fs), NEW path \in AnyPath, Real(fs, path).err = ""
  PROVE  /\ Real(fs, path).value \in DOMAIN fs /\ PlainNode(fs[Real(fs, path).value])
         /\ fs[Real(fs, path).value].kind # "link"
<1>1. IsTree(fs, PlaceNames) /\ \A p \in DOMAIN fs : PlainNode(fs[p])
  BY DEF WorkTree
<1>2. Resolved(fs, Files!Canonicalize(fs, path))
  BY <1>1, CanonicalIsReal DEF AnyPath
<1> QED
  BY <1>1, <1>2 DEF Resolved, Real

\* A number without a limit.
LEMMA MinusOne == ~(-1 >= 0)
OBVIOUS

\* A read gives the text of every file below the root that may be opened, and of no other.
LEMMA ReadGives ==
  ASSUME NEW fs, WorkTree(fs), NEW path \in AnyPath,
         NEW out, out = Files!GuardedRead(fs, Root, path, 2)
  PROVE  /\ out.err = "" <=> CanRead(fs, path)
         /\ out.err = "" => out.value = TextOf(fs, path)
<1> PICK text : text = fs[Files!Canonicalize(fs, path).value].text
  OBVIOUS
<1>1. IsTree(fs, PlaceNames) /\ path \in Seq(PlaceNames \cup {".."}) /\ 2 \in Nat
  BY DEF WorkTree, AnyPath
<1>0. ExactRead(fs, Root, path, 2, out)
  BY <1>1, ReadIsExact
<1>2. /\ out.err = "" <=> Readable(fs, Root, path, 2) /\ "invalid" \notin Files!ToSet(text)
      /\ out.err = "" => out.value = IF text # <<>> /\ text[1] = "bom" THEN Tail(text) ELSE text
  BY <1>0, Zenon DEF ExactRead
<1> PICK real : real = Files!Canonicalize(fs, path)
  OBVIOUS
<1>3. real.err = "" => Len(text) \in 0..2 /\ "invalid" \notin Files!ToSet(text)
  BY RealPlace DEF Real, PlainNode, PlainText
<1>4. Readable(fs, Root, path, 2) <=> /\ real.err = "" /\ Files!Under(Root, real.value)
                                     /\ fs[real.value].kind = "file" /\ ~fs[real.value].locked
                                     /\ Len(text) <= 2
  BY Zenon DEF Readable
<1>6. CanRead(fs, path) <=> /\ real.err = "" /\ IsPrefix(Root, real.value)
                           /\ fs[real.value].kind = "file" /\ ~fs[real.value].locked
  BY Zenon DEF CanRead, Real
<1>7. real.err = "" => Len(text) <= 2
  <2>1. \A n \in 0..2 : n <= 2
    OBVIOUS
  <2> QED
    BY <1>3, <2>1, Zenon
<1>8. Readable(fs, Root, path, 2) /\ "invalid" \notin Files!ToSet(text) <=> CanRead(fs, path)
  BY <1>3, <1>4, <1>6, <1>7, UnderIsPrefix, Zenon
<1>5. TextOf(fs, path) = IF text # <<>> /\ text[1] = "bom" THEN Tail(text) ELSE text
  BY DEF TextOf, Real
<1> QED
  BY <1>2, <1>8, <1>5

\* What ReadsStayInside says of each kind of call.
ReadRight(in, out) ==
  /\ out.err = "" <=> CanRead(in.fs, in.path)
  /\ out.err = "" => out.value = TextOf(in.fs, in.path)
WriteRight(in, out) ==
  out.err = "" =>
    LET parent == Real(in.fs, Files!Parent(in.path))
        target == Append(parent.value, in.path[Len(in.path)])
    IN  /\ parent.err = "" /\ IsPrefix(Root, parent.value)
        /\ target \in DOMAIN in.fs => in.fs[target].kind = "file"
LookRight(in, out) ==
  /\ out.label = "counted" => CanRead(in.fs, in.path)
  /\ out.dir.err = "" => /\ IsPrefix(Root, Real(in.fs, in.path).value)
                         /\ \A p \in out.dir.value : IsPrefix(Root, p)

\* create_file and rename.
LEMMA WriteGives ==
  ASSUME NEW fs, WorkTree(fs), NEW path \in AnyPath, NEW renames \in BOOLEAN,
         NEW out, out = IF renames THEN Files!GuardedRename(fs, Root, <<"w", "b">>, path)
                        ELSE Files!GuardedCall(fs, Root, path, TRUE)
  PROVE  WriteRight([fs |-> fs, path |-> path], out)
<1> PICK target : target = Files!CheckWriteTarget(fs, Root, path)
  OBVIOUS
<1>1. out.err = "" => target.err = ""
  <2>1. CASE renames
    <3> PICK source : source = Files!CheckWriteTarget(fs, Root, <<"w", "b">>)
      OBVIOUS
    <3>1. out = IF source.err # "" THEN source ELSE IF target.err # "" THEN target
                ELSE IF source.value = "absent" THEN Files!Fail("not_found") ELSE Files!Ok(path)
      BY <2>1 DEF Files!GuardedRename, Files!Then
    <3> QED
      BY <3>1
  <2>2. CASE ~renames
    <3>1. out = IF target.err # "" THEN target ELSE Files!Ok(path)
      BY <2>2 DEF Files!GuardedCall, Files!Then
    <3> QED
      BY <3>1
  <2> QED
    BY <2>1, <2>2
<1>2. target.err = "" => Writable(fs, Root, path)
  BY TargetIsExact DEF WorkTree, AnyPath
<1> QED
  BY <1>1, <1>2, UnderIsPrefix DEF Writable, WriteRight, Real

\* `ls --loc` and read_dir.
LEMMA LookGives ==
  ASSUME NEW fs, WorkTree(fs), NEW path \in AnyPath,
         NEW out, out = [label |-> IF path \in DOMAIN fs THEN Files!FileLabel(fs, Root, path, TRUE, FALSE, 2, 2) ELSE "not listed",
                         dir |-> Files!GuardedReadDir(fs, Root, path)]
  PROVE  LookRight([fs |-> fs, path |-> path], out)
<1>1. IsTree(fs, PlaceNames) /\ path \in Seq(PlaceNames \cup {".."}) /\ Root \in Seq(PlaceNames)
  BY PathsAreAny DEF WorkTree, AnyPath
<1>2. ASSUME out.label = "counted" PROVE CanRead(fs, path)
  <2> PICK loc : loc = Files!CountLines(fs, Root, path, 2, 2)
    OBVIOUS
  <2>1. loc.loc >= 0
    BY <1>2 DEF Files!FileLabel
  <2> PICK read : read = Files!GuardedRead(fs, Root, path, 2)
    OBVIOUS
  <2>2. ASSUME read.err # "" PROVE FALSE
    <3> PICK real : real = Files!Canonicalize(fs, path)
      OBVIOUS
    <3> PICK nothing : nothing = [loc |-> -1, is_binary |-> FALSE, is_large |-> FALSE]
      OBVIOUS
    <3>1. \/ loc = nothing
          \/ loc = [nothing EXCEPT !.is_large = TRUE]
      BY <2>2, Zenon DEF Files!CountLines
    <3>2. [nothing EXCEPT !.is_large = TRUE].loc = -1 /\ nothing.loc = -1
      OBVIOUS
    <3> QED
      BY <2>1, <3>1, <3>2, MinusOne, Zenon
  <2> QED
    BY <2>2, ReadGives
<1>3. ASSUME out.dir.err = ""
      PROVE  /\ IsPrefix(Root, Real(fs, path).value)
             /\ \A p \in out.dir.value : IsPrefix(Root, p)
  BY <1>1, <1>3, ListingsStayInside, UnderIsPrefix DEF Real
<1> QED
  BY <1>2, <1>3 DEF LookRight

-----------------------------------------------------------------------------
(* Scans *)

\* Six things are finitely many.
LEMMA SixIsFinite ==
  ASSUME NEW a, NEW b, NEW c, NEW d, NEW e, NEW f
  PROVE  IsFiniteSet({a, b, c, d, e, f})
<1>1. IsFiniteSet({} \cup {a})
  BY FS_EmptySet, FS_AddElement
<1>2. IsFiniteSet(({} \cup {a}) \cup {b})
  BY <1>1, FS_AddElement
<1>3. IsFiniteSet((({} \cup {a}) \cup {b}) \cup {c})
  BY <1>2, FS_AddElement
<1>4. IsFiniteSet(((({} \cup {a}) \cup {b}) \cup {c}) \cup {d})
  BY <1>3, FS_AddElement
<1>5. IsFiniteSet((((({} \cup {a}) \cup {b}) \cup {c}) \cup {d}) \cup {e})
  BY <1>4, FS_AddElement
<1>6. IsFiniteSet(((((({} \cup {a}) \cup {b}) \cup {c}) \cup {d}) \cup {e}) \cup {f})
  BY <1>5, FS_AddElement
<1>7. {a, b, c, d, e, f} = ((((({} \cup {a}) \cup {b}) \cup {c}) \cup {d}) \cup {e}) \cup {f}
  OBVIOUS
<1> QED
  BY <1>6, <1>7

\* A tree of the calls has finitely many places.
LEMMA TreesAreFinite ==
  ASSUME NEW fs \in Trees
  PROVE  IsFiniteSet(DOMAIN fs)
<1> PICK leaf \in Leaves, branch \in Branches : fs = Tree(leaf, branch)
  BY DEF Trees
<1>1. DOMAIN fs = {<<>>, <<"w">>, <<"o">>, <<"o", "s">>, <<"w", "b">>, <<"w", "a">>} \cup DOMAIN branch
  BY BaseNodes DEF Tree
<1>2. \/ DOMAIN branch = {<<"w", "d">>}
      \/ DOMAIN branch = {<<"w", "d">>, <<"w", "d", "f">>}
  BY PlainNodes
<1>3. IsFiniteSet({<<>>, <<"w">>, <<"o">>, <<"o", "s">>, <<"w", "b">>, <<"w", "a">>})
  BY SixIsFinite
<1>4. IsFiniteSet({<<"w", "d">>}) /\ IsFiniteSet({<<"w", "d">>} \cup {<<"w", "d", "f">>})
  BY FS_Singleton, FS_AddElement
<1>5. {<<"w", "d">>} \cup {<<"w", "d", "f">>} = {<<"w", "d">>, <<"w", "d", "f">>}
  OBVIOUS
<1>6. IsFiniteSet(DOMAIN branch)
  BY <1>2, <1>4, <1>5
<1> QED
  BY <1>1, <1>3, <1>6, FS_Union

\* A set as a sequence has its elements and no others.
LEMMA AsSequence ==
  ASSUME NEW S, IsFiniteSet(S)
  PROVE  SetToSeq(S) \in [1..Cardinality(S) -> S] /\ Cardinality(S) \in Nat
<1>1. Cardinality(S) \in Nat /\ ExistsBijection(1..Cardinality(S), S)
  BY FS_CardinalityType
<1>2. \E f \in [1..Cardinality(S) -> S] : IsInjective(f)
  BY <1>1, Zenon DEF ExistsBijection, Bijection, Injection
<1> QED
  BY <1>1, <1>2, Zenon DEF SetToSeq

\* The smallest of some numbers.
LEMMA Smallest ==
  ASSUME NEW S \in SUBSET Nat, S # {}
  PROVE  (CHOOSE n \in S : \A m \in S : n <= m) \in S
<1>1. \E n \in S : \A m \in S : <<m, n>> \notin OpToRel(<, Nat)
  BY WFMin, NatLessThanWellFounded
<1>2. PICK n \in S : \A m \in S : <<m, n>> \notin OpToRel(<, Nat)
  BY <1>1
<1>3. \A m \in S : n <= m
  <2>1. \A m \in S : ~(m < n)
    BY <1>2 DEF OpToRel
  <2> QED
    BY <2>1
<1> QED
  BY <1>3, Zenon

\* Up to a number is up to a larger one.
LEMMA Between ==
  ASSUME NEW n \in Nat, NEW m \in 0..n, NEW i \in 1..m
  PROVE  i \in 1..n
OBVIOUS

Comes(fs, listing, entry) ==
  \E i \in 1..Len(listing) : Files!ScanEntry(fs, listing[i]).err = "" /\ entry = Files!ScanEntry(fs, listing[i]).value

\* Every entry of a scan is that of a place in the listing.
LEMMA Scanned ==
  ASSUME NEW fs, NEW listing, NEW maxEntries \in Nat, Len(listing) \in Nat,
         NEW entry \in Files!ScanDirectory(fs, listing, maxEntries).entries
  PROVE  Comes(fs, listing, entry)
<1> DEFINE full(n) == n = Len(listing) \/ Files!Cardinality(Files!ScanGood(fs, listing, n)) >= maxEntries
           stops == {n \in 0..Len(listing) : full(n)}
<1> PICK seen : seen = Files!ScanSeen(fs, listing, maxEntries)
  OBVIOUS
<1>1. seen \in 0..Len(listing)
  <2>1. full(Len(listing))
    OBVIOUS
  <2>2. seen = CHOOSE n \in stops : \A m \in stops : n <= m
    <3>1. Files!ScanSeen(fs, listing, maxEntries) = CHOOSE n \in stops : \A m \in stops : n <= m
      BY Zenon DEF Files!ScanSeen
    <3> HIDE DEF stops
    <3> QED
      BY <3>1
  <2> HIDE DEF full
  <2>3. Len(listing) \in stops /\ stops \in SUBSET Nat
    BY <2>1
  <2>4. seen \in stops
    BY <2>2, <2>3, Smallest
  <2> QED
    BY <2>4
<1>2. Files!ScanDirectory(fs, listing, maxEntries).entries =
        {Files!ScanEntry(fs, listing[i]).value : i \in Files!ScanGood(fs, listing, seen)}
  BY DEF Files!ScanDirectory
<1>3. PICK i \in Files!ScanGood(fs, listing, seen) : entry = Files!ScanEntry(fs, listing[i]).value
  BY <1>2
<1>4. i \in 1..seen /\ Files!ScanEntry(fs, listing[i]).err = ""
  BY <1>3 DEF Files!ScanGood
<1>5. i \in 1..Len(listing)
  BY <1>1, <1>4, Between
<1> QED
  BY <1>3, <1>4, <1>5, Zenon DEF Comes

\* The root is where it says, and the places in it are entered from there.
LEMMA RootIsReal ==
  ASSUME NEW fs, WorkTree(fs)
  PROVE  Files!Canonicalize(fs, Root) = Files!Ok(Root)
<1>1. /\ <<>> \in Seq(PlaceNames) /\ Root \in Seq(PlaceNames) /\ Root # <<>>
      /\ Len(Root) = 1 /\ Root[1] = "w" /\ Files!Parent(Root) = <<>> /\ Append(<<>>, "w") = Root
  BY PathsAreAny, ShortPaths DEF Root
<1>2. Files!Canonicalize(fs, <<>>) = Files!Ok(<<>>)
  BY <1>1, CanonicalSteps
<1>3. Files!Canonicalize(fs, Root) = Files!Enter(fs, Files!Ok(<<>>), "w")
  BY <1>1, <1>2, CanonicalSteps
<1>4. /\ Root \in DOMAIN fs /\ fs[Root].kind = "dir" /\ fs[<<>>].kind = "dir" /\ ~fs[<<>>].locked
  BY PlainNodes DEF WorkTree
<1>5. Files!Descend(fs, <<>>, "w") = Files!Ok(Root)
  BY <1>1, <1>4 DEF Files!Descend, Files!Lookup
<1>6. Files!Follow(fs, Root) = Files!Ok(Root)
  BY <1>4 DEF Files!Follow
<1>7. Files!Ok(<<>>).err = "" /\ Files!Ok(<<>>).value = <<>> /\ Files!Ok(Root).err = "" /\ Files!Ok(Root).value = Root
  BY ResultParts
<1>8. Files!Enter(fs, Files!Ok(<<>>), "w") = Files!Follow(fs, Root)
  BY <1>5, <1>7, EnterFollows
<1> QED
  BY <1>3, <1>6, <1>8

\* What is put behind one element is the second of two.
LEMMA AfterOne ==
  ASSUME NEW S, NEW s \in Seq(S), NEW a \in S, Len(s) = 1
  PROVE  Append(s, a)[2] = a /\ Len(Append(s, a)) = 2
<1>1. Append(s, a)[Len(s) + 1] = a /\ Len(Append(s, a)) = Len(s) + 1
  BY AppendProperties
<1>2. Len(s) + 1 = 2
  OBVIOUS
<1> QED
  BY <1>1, <1>2

\* A place in the root is its own path but for a link, and read_link sees it.
LEMMA PlaceInRoot ==
  ASSUME NEW fs, WorkTree(fs), NEW name \in PlaceNames,
         NEW path, path = Append(Root, name), path \in DOMAIN fs
  PROVE  /\ Files!Canonicalize(fs, path) = Files!Follow(fs, path)
         /\ Files!SymlinkMetadata(fs, path) = Files!Ok(fs[path])
<1>1. /\ Root \in Seq(PlaceNames) /\ path \in Seq(PlaceNames) /\ path # <<>> /\ Len(path) = 2
      /\ Files!Parent(path) = Root /\ path[Len(path)] = name
  <2>1. Root \in Seq(PlaceNames) /\ Len(Root) = 1
    BY PathsAreAny, ShortPaths DEF Root
  <2>2. path[2] = name /\ Len(path) = 2
    BY <2>1, AfterOne
  <2>3. Files!Parent(path) = Root
    <3>1. Files!Parent(path) = SubSeq(path, 1, 1)
      BY <2>2 DEF Files!Parent
    <3>2. SubSeq(path, 1, 1) \in Seq(PlaceNames) /\ Len(SubSeq(path, 1, 1)) = 1 /\ SubSeq(path, 1, 1)[1] = Root[1]
      BY <2>1
    <3> QED
      BY <2>1, <3>1, <3>2
  <2>4. path \in Seq(PlaceNames)
    BY PathsAreAny
  <2> QED
    BY <2>2, <2>3, <2>4, PathsAreAny
<1>2. Files!Canonicalize(fs, Files!Parent(path)) = Files!Ok(Root)
  BY <1>1, RootIsReal
<1>3. fs[Root].kind = "dir" /\ ~fs[Root].locked /\ name # ".."
  BY PlainNodes DEF WorkTree, PlaceNames
<1>4. Files!Descend(fs, Root, name) = Files!Ok(path)
  BY <1>3 DEF Files!Descend, Files!Lookup
<1>5. Files!Ok(Root).err = "" /\ Files!Ok(Root).value = Root /\ Files!Ok(path).err = "" /\ Files!Ok(path).value = path
  BY ResultParts
<1> PICK parent : parent = Files!Canonicalize(fs, Files!Parent(path))
  OBVIOUS
<1> PICK down : down = Files!Descend(fs, parent.value, path[Len(path)])
  OBVIOUS
<1>6. parent.err = "" /\ down.err = "" /\ down.value = path
  BY <1>1, <1>2, <1>4, <1>5
<1>7. Files!SymlinkMetadata(fs, path) = Files!Ok(fs[down.value]) /\ Files!Canonicalize(fs, path) = Files!Follow(fs, down.value)
  BY <1>1, <1>6, LastName
<1> QED
  BY <1>6, <1>7

\* The places in the root, in any order.
Listing(fs) == SetToSeq({p \in DOMAIN fs : Len(p) = 2 /\ p[1] = "w"})

\* read_dir of the root gives places in it.
LEMMA ListedPlaces ==
  ASSUME NEW fs \in Trees
  PROVE  /\ Len(Listing(fs)) \in Nat
         /\ \A i \in 1..Len(Listing(fs)) : \E name \in PlaceNames :
              Listing(fs)[i] = Append(Root, name) /\ Append(Root, name) \in DOMAIN fs
<1> DEFINE places == {p \in DOMAIN fs : Len(p) = 2 /\ p[1] = "w"}
<1>1. IsFiniteSet(places)
  BY TreesAreFinite, FS_Subset
<1> PICK listing : listing = Listing(fs)
  OBVIOUS
<1>2. listing \in [1..Cardinality(places) -> places] /\ Cardinality(places) \in Nat
  BY <1>1, AsSequence DEF Listing
<1>3. ASSUME NEW p \in places
      PROVE  \E name \in PlaceNames : p = Append(Root, name) /\ Append(Root, name) \in DOMAIN fs
  <2>1. p \in Seq(PlaceNames) /\ Len(p) = 2 /\ p[1] = "w" /\ p \in DOMAIN fs
    BY TreesAreTrees DEF WorkTree, IsTree
  <2>2. p = Append(Root, p[2]) /\ p[2] \in PlaceNames
    BY <2>1 DEF Root
  <2> QED
    BY <2>1, <2>2
<1> HIDE DEF places
<1>4. Len(listing) = Cardinality(places) /\ \A i \in 1..Len(listing) : listing[i] \in places
  BY <1>2
<1> QED
  BY <1>2, <1>3, <1>4

\* An entry of the scan tells what its name leads to.
LEMMA EntryTells ==
  ASSUME NEW fs \in Trees, NEW maxEntries \in Nat,
         NEW entry \in Files!ScanDirectory(fs, Listing(fs), maxEntries).entries
  PROVE  /\ entry.name \in PlaceNames /\ Append(Root, entry.name) \in DOMAIN fs
         /\ Files!Follow(fs, Append(Root, entry.name)).err = ""
         /\ entry.kind = fs[Files!Follow(fs, Append(Root, entry.name)).value].kind
<1>1. PICK i \in 1..Len(Listing(fs)) :
        /\ Files!ScanEntry(fs, Listing(fs)[i]).err = ""
        /\ entry = Files!ScanEntry(fs, Listing(fs)[i]).value
  <2> PICK listing : listing = Listing(fs)
    OBVIOUS
  <2>1. Len(listing) \in Nat /\ entry \in Files!ScanDirectory(fs, listing, maxEntries).entries
    BY ListedPlaces
  <2>2. Comes(fs, listing, entry)
    BY <2>1, Scanned
  <2> QED
    BY <2>2 DEF Comes
<1>2. PICK name \in PlaceNames : Listing(fs)[i] = Append(Root, name) /\ Append(Root, name) \in DOMAIN fs
  BY ListedPlaces
<1> PICK path : path = Append(Root, name)
  OBVIOUS
<1>3. path[Len(path)] = name
  BY DEF Root
<1> PICK to : to = Files!Follow(fs, path)
  OBVIOUS
<1> PICK node : node = [name |-> name, kind |-> fs[to.value].kind, is_symlink |-> fs[path].kind = "link"]
  OBVIOUS
<1>4. Files!ScanEntry(fs, path) = IF to.err # "" THEN to ELSE Files!Ok(node)
  BY <1>3 DEF Files!ScanEntry, Files!Then
<1>5. Files!ScanEntry(fs, path).err = "" /\ entry = Files!ScanEntry(fs, path).value
  BY <1>1, <1>2
<1>6. to.err = "" /\ entry = node
  BY <1>4, <1>5, ResultParts, Zenon
<1>7. entry.name = name /\ entry.kind = fs[to.value].kind
  BY <1>6
<1> QED
  BY <1>2, <1>6, <1>7

\* What the property says of a scan: of the file read by its name, of the one read by its
\* extension, and of the entry that was validated.
ByNameRight(in, scan, read) ==
  /\ read.err = "" =>
       IF in.name \in {e.name : e \in scan.entries}
       THEN CanRead(in.fs, in.path) /\ read.value = TextOf(in.fs, in.path)
       ELSE read.value = "absent"
  /\ CanRead(in.fs, in.path) /\ in.name \in {e.name : e \in scan.entries} => read.err = ""
ByExtRight(in, read) ==
  read.err = "" => \/ read.value = "absent"
                   \/ \E n \in in.names : CanRead(in.fs, Append(Root, n)) /\ read.value = TextOf(in.fs, Append(Root, n))
EntryRight(in, entry) ==
  entry = Files!Ok("file") => IsPrefix(Root, Real(in.fs, in.path).value)

\* read_checked of a scan: what a read gives, or absent when the scan has no such entry.
LEMMA ByNameGives ==
  ASSUME NEW fs \in Trees, NEW maxEntries \in Nat, NEW name \in PlaceNames,
         NEW scan, scan = Files!ScanDirectory(fs, Listing(fs), maxEntries),
         NEW in, in.fs = fs, in.path = Append(Root, name), in.name = name
  PROVE  ByNameRight(in, scan, Files!ReadChecked(fs, Root, scan, name, 2))
<1> PICK path : path = Append(Root, name)
  OBVIOUS
<1> PICK found : found = {e \in scan.entries : e.name = name}
  OBVIOUS
<1> PICK read : read = Files!GuardedRead(fs, Root, path, 2)
  OBVIOUS
<1> PICK checked : checked = Files!ReadChecked(fs, Root, scan, name, 2)
  OBVIOUS
<1>1. checked = IF found = {} THEN Files!Ok("absent")
                ELSE IF \E e \in found : e.kind # "file" THEN Files!Fail("not_regular_file") ELSE read
  BY Zenon DEF Files!ReadChecked
<1>2. name \in {e.name : e \in scan.entries} <=> found # {}
  OBVIOUS
<1>3. /\ read.err = "" <=> CanRead(fs, path)
      /\ read.err = "" => read.value = TextOf(fs, path)
  <2>1. WorkTree(fs) /\ path \in AnyPath
    BY TreesAreTrees, PathsAreAny DEF PlaceNames
  <2> QED
    BY <2>1, ReadGives
<1>4. ASSUME CanRead(fs, path), NEW e \in found
      PROVE  e.kind = "file"
  <2>1. e \in scan.entries /\ e.name = name
    OBVIOUS
  <2>2. path \in DOMAIN fs /\ e.kind = fs[Files!Follow(fs, path).value].kind
    BY <2>1, EntryTells
  <2>3. Files!Canonicalize(fs, path) = Files!Follow(fs, path)
    BY <2>2, TreesAreTrees, PlaceInRoot
  <2>4. fs[Files!Canonicalize(fs, path).value].kind = "file"
    BY <1>4, Zenon DEF CanRead, Real
  <2> QED
    BY <2>2, <2>3, <2>4
<1>5. ByNameRight(in, scan, checked) <=>
        /\ checked.err = "" => IF found # {} THEN CanRead(fs, path) /\ checked.value = TextOf(fs, path)
                               ELSE checked.value = "absent"
        /\ CanRead(fs, path) /\ found # {} => checked.err = ""
  BY <1>2, Zenon DEF ByNameRight
<1>6. CASE found = {}
  <2>1. checked.err = "" /\ checked.value = "absent"
    BY <1>1, <1>6, ResultParts, Zenon
  <2> QED
    BY <1>5, <1>6, <2>1, Zenon
<1>7. CASE found # {} /\ \E e \in found : e.kind # "file"
  <2>1. checked.err = "not_regular_file" /\ ~CanRead(fs, path)
    BY <1>1, <1>4, <1>7, ResultParts, Zenon
  <2>2. checked.err # ""
    BY <2>1
  <2> QED
    BY <1>5, <1>7, <2>1, <2>2, Zenon
<1>8. CASE found # {} /\ ~\E e \in found : e.kind # "file"
  <2>1. checked = read
    BY <1>1, <1>8, Zenon
  <2> QED
    BY <1>3, <1>5, <1>8, <2>1, Zenon
<1> QED
  BY <1>6, <1>7, <1>8

\* The only file with an extension: one of those files, or absent.
LEMMA ByExtGives ==
  ASSUME NEW fs \in Trees, NEW scan, NEW names \in SUBSET {"a", "b"},
         NEW in, in.fs = fs, in.names = names
  PROVE  ByExtRight(in, Files!ReadByExt(fs, Root, scan, names, 2))
<1> DEFINE files == {e \in scan.entries : e.name \in names /\ e.kind = "file"}
           one == (CHOOSE e \in files : TRUE).name
           path == Append(Root, one)
           read == Files!GuardedRead(fs, Root, path, 2)
<1> PICK checked : checked = Files!ReadByExt(fs, Root, scan, names, 2)
  OBVIOUS
<1>1. checked = IF files = {} THEN Files!Ok("absent")
                ELSE IF Files!Cardinality(files) > 1 THEN Files!Fail("ambiguous") ELSE read
  BY Zenon DEF Files!ReadByExt
<1> HIDE DEF read
<1>2. CASE files = {}
  BY <1>1, <1>2, ResultParts, Zenon DEF ByExtRight
<1>3. CASE files # {} /\ Files!Cardinality(files) > 1
  <2>1. checked.err = "ambiguous"
    BY <1>1, <1>3, ResultParts, Zenon
  <2>2. checked.err # ""
    BY <2>1
  <2> QED
    BY <2>2, Zenon DEF ByExtRight
<1>4. CASE files # {} /\ ~(Files!Cardinality(files) > 1)
  <2>1. one \in names
    <3>1. \E e \in files : TRUE
      BY <1>4
    <3>2. (CHOOSE e \in files : TRUE) \in files
      BY <3>1, Zenon
    <3> QED
      BY <3>2
  <2> HIDE DEF one
  <2>2. WorkTree(fs) /\ path \in AnyPath
    <3>1. one \in Names
      BY <2>1 DEF Names
    <3> QED
      BY <3>1, TreesAreTrees, PathsAreAny
  <2> HIDE DEF path
  <2>3. /\ read.err = "" <=> CanRead(fs, path)
        /\ read.err = "" => read.value = TextOf(fs, path)
    BY <2>2, ReadGives DEF read
  <2>4. checked = read
    BY <1>1, <1>4, Zenon
  <2> USE DEF path
  <2> QED
    BY <2>1, <2>3, <2>4, Zenon DEF ByExtRight
<1> QED
  BY <1>2, <1>3, <1>4

\* validate_entry says "file" of none that leads out of the root.
LEMMA EntryGives ==
  ASSUME NEW fs \in Trees, NEW maxEntries \in Nat, NEW name \in PlaceNames,
         NEW scan, scan = Files!ScanDirectory(fs, Listing(fs), maxEntries),
         NEW in, in.fs = fs, in.path = Append(Root, name)
  PROVE  EntryRight(in, Files!ValidateEntry(fs, Root, scan, name))
<1> PICK path : path = Append(Root, name)
  OBVIOUS
<1> PICK found : found = {e \in scan.entries : e.name = name}
  OBVIOUS
<1> PICK live : live = Files!SymlinkMetadata(fs, path)
  OBVIOUS
<1> PICK real : real = Files!Canonicalize(fs, path)
  OBVIOUS
<1> PICK entry : entry = Files!ValidateEntry(fs, Root, scan, name)
  OBVIOUS
<1> SUFFICES ASSUME entry = Files!Ok("file") PROVE IsPrefix(Root, real.value)
  BY Zenon DEF EntryRight, Real
<1>0. entry.err = "" /\ entry.value = "file"
  BY ResultParts
<1>1. entry = IF found = {} THEN Files!Ok("absent")
              ELSE IF \E e \in found : e.kind # "file" THEN Files!Fail("not_regular_file")
              ELSE IF live.err # "" THEN live
              ELSE IF live.value.kind # "link" THEN Files!Ok("file")
              ELSE IF real.err # "" THEN real
              ELSE IF Files!Under(Root, real.value) THEN Files!Ok("file") ELSE Files!Fail("symlink_escape")
  BY Zenon DEF Files!ValidateEntry, Files!Then
<1>2. found # {}
  <2>1. ASSUME found = {} PROVE FALSE
    <3>1. entry.value = "absent"
      BY <1>1, <2>1, ResultParts, Zenon
    <3> QED
      BY <1>0, <3>1
  <2> QED
    BY <2>1
<1>3. path \in DOMAIN fs
  <2>1. PICK e \in found : e \in scan.entries /\ e.name = name
    BY <1>2
  <2> QED
    BY <2>1, EntryTells
<1>4. real = Files!Follow(fs, path) /\ live = Files!Ok(fs[path])
  BY <1>3, TreesAreTrees, PlaceInRoot
<1>5. CASE fs[path].kind # "link"
  <2>1. real = Files!Ok(path)
    BY <1>4, <1>5 DEF Files!Follow
  <2>2. real.value = path
    BY <2>1, ResultParts
  <2>3. Files!Under(Root, Append(Root, name))
    <3>1. Root \in Seq(PlaceNames) /\ Files!Under(Root, Root)
      BY PathsAreAny DEF Files!Under, Files!IsPrefix
    <3> QED
      BY <3>1, UnderAppend
  <2> QED
    BY <2>2, <2>3, UnderIsPrefix
<1>6. CASE fs[path].kind = "link"
  <2>1. live.err = "" /\ live.value.kind = "link"
    BY <1>4, <1>6, ResultParts
  <2>2. \/ entry = Files!Fail("not_regular_file")
        \/ real.err # "" /\ entry = real
        \/ Files!Under(Root, real.value)
        \/ entry = Files!Fail("symlink_escape")
    BY <1>1, <1>2, <2>1, Zenon
  <2>3. Files!Fail("not_regular_file").err = "not_regular_file" /\ Files!Fail("symlink_escape").err = "symlink_escape"
    BY ResultParts
  <2>4. Files!Under(Root, real.value)
    BY <1>0, <2>2, <2>3
  <2> QED
    BY <2>4, UnderIsPrefix
<1> QED
  BY <1>5, <1>6

-----------------------------------------------------------------------------
(* The MCP server *)

\* The file system layer as the front ends see it is the one that Files sees.
LEMMA EntryResults ==
  /\ \A v : Entry!Ok(v) = Files!Ok(v)
  /\ \A kind : Entry!Fail(kind) = Files!Fail(kind)
BY DEF Entry!Ok, Entry!Fail, Files!Ok, Files!Fail

LEMMA EntryParent == \A path : Entry!Parent(path) = Files!Parent(path)
BY DEF Entry!Parent, Files!Parent

LEMMA EntryUnder == \A root, path : Entry!Under(root, path) <=> IsPrefix(root, path)
BY DEF Entry!Under, Entry!IsPrefix, IsPrefix

LEMMA EntryDescend == \A fs, at, name : Entry!Descend(fs, at, name) = Files!Descend(fs, at, name)
BY EntryResults, EntryParent, Zenon DEF Entry!Descend, Files!Descend, Entry!Lookup, Files!Lookup

LEMMA EntryFollow == \A fs, at : Entry!Follow(fs, at) = Files!Follow(fs, at)
BY EntryResults, Zenon DEF Entry!Follow, Files!Follow, Entry!Lookup, Files!Lookup

LEMMA EntryCanonicalize == \A fs, path : Entry!Canonicalize(fs, path) = Files!Canonicalize(fs, path)
BY Zenon DEF Entry!Canonicalize, Files!Canonicalize, Entry!Enter, Files!Enter, Entry!Then, Files!Then,
  Entry!Descend, Files!Descend, Entry!Lookup, Files!Lookup, Entry!Ok, Entry!Fail, Files!Ok, Files!Fail,
  Entry!Parent, Files!Parent, Entry!Follow, Files!Follow

LEMMA EntrySymlink == \A fs, path : Entry!SymlinkMetadata(fs, path) = Files!SymlinkMetadata(fs, path)
BY EntryResults, EntryParent, EntryDescend, EntryCanonicalize, Zenon
  DEF Entry!SymlinkMetadata, Files!SymlinkMetadata, Entry!Then, Files!Then

\* Cardinality, as Files sees it.
LEMMA SameCardinality == \A S : Files!Cardinality(S) = Cardinality(S)
BY DEF Files!Cardinality, Cardinality

\* The text of a file of the trees has two characters at most, and no null character.
LEMMA TextIsPlain ==
  ASSUME NEW fs, WorkTree(fs), NEW path \in AnyPath, CanRead(fs, path)
  PROVE  TextOf(fs, path) \in Seq(Words) /\ Len(TextOf(fs, path)) \in 0..2 /\ "nul" \notin Files!ToSet(TextOf(fs, path))
<1> PICK t : t = fs[Real(fs, path).value].text
  OBVIOUS
<1>1. t \in Seq(Words) /\ Len(t) \in 0..2 /\ "nul" \notin Files!ToSet(t)
  BY RealPlace, Zenon DEF CanRead, PlainNode, PlainText
<1>2. TextOf(fs, path) = IF t # <<>> /\ t[1] = "bom" THEN Tail(t) ELSE t
  BY DEF TextOf
<1>3. CASE t # <<>> /\ t[1] = "bom"
  <2>0. Len(t) # 0
    BY <1>1, <1>3
  <2>1. Tail(t) \in Seq(Words) /\ Len(Tail(t)) = Len(t) - 1 /\ Len(t) # 0
    BY <1>1, <1>3, <2>0, HeadTailProperties
  <2>2. \A i \in 1..Len(Tail(t)) : Tail(t)[i] = t[i + 1] /\ i + 1 \in 1..Len(t)
    BY <1>1, <1>3
  <2>3. ASSUME "nul" \in Files!ToSet(Tail(t)) PROVE FALSE
    <3>1. PICK i \in 1..Len(Tail(t)) : Tail(t)[i] = "nul"
      BY <2>1, <2>3 DEF Files!ToSet
    <3>2. t[i + 1] = "nul" /\ i + 1 \in DOMAIN t
      BY <1>1, <2>2, <3>1
    <3> QED
      BY <1>1, <3>2 DEF Files!ToSet
  <2> QED
    BY <1>1, <1>2, <1>3, <2>1, <2>3
<1>4. CASE ~(t # <<>> /\ t[1] = "bom")
  BY <1>1, <1>2, <1>4
<1> QED
  BY <1>3, <1>4

\* A text of two characters has at most three lines.
LEMMA FewLines ==
  ASSUME NEW text \in Seq(Words), Len(text) \in 0..2
  PROVE  Len(Files!LinesOf(text)) \in 0..3
<1> DEFINE ends == {i \in DOMAIN text : text[i] = "nl"}
                     \cup (IF text = <<>> \/ text[Len(text)] = "nl" THEN {} ELSE {Len(text) + 1})
           end(k) == CHOOSE i \in ends \cup {0} : Files!Cardinality({j \in ends : j <= i}) = k
           lines == [k \in 1..Files!Cardinality(ends) |-> SubSeq(text, end(k - 1) + 1, end(k) - 1)]
<1>1. ends \subseteq 1..3
  OBVIOUS
<1> HIDE DEF ends
<1>2. IsFiniteSet(1..3) /\ Cardinality(1..3) = 3
  <2>1. 1 \in Int /\ 3 \in Int /\ ~(1 > 3) /\ 3 - 1 + 1 = 3
    OBVIOUS
  <2> QED
    BY <2>1, FS_Interval
<1>3. IsFiniteSet(ends) /\ Cardinality(ends) <= 3
  BY <1>1, <1>2, FS_Subset
<1>4. Cardinality(ends) \in 0..3
  BY <1>3, FS_CardinalityType
<1>5. Files!Cardinality(ends) = Cardinality(ends)
  BY SameCardinality
<1>6. Files!LinesOf(text) = lines
  BY Zenon DEF Files!LinesOf, ends
<1> HIDE DEF end
<1> QED
  BY <1>4, <1>5, <1>6

\* `read --full` of one path, and how long its output is.
FullRead(fs, label) ==
  Files!Then(Files!ReadOne(fs, Root, label, TRUE, 2), LAMBDA report :
    Files!Ok([kind |-> report.kind, len |-> Files!RenderedLines(report, 0)]))

\* `read --full` of a short text has at most five lines.
LEMMA TextGives ==
  ASSUME NEW text \in Seq(Words), Len(text) \in 0..2, NEW label, label.range.kind = "none"
  PROVE  \E n \in 0..5 :
           Files!Then(Files!ReadText(text, label, TRUE), LAMBDA report :
             Files!Ok([kind |-> report.kind, len |-> Files!RenderedLines(report, 0)]))
           = Files!Ok([kind |-> "Full", len |-> n])
<1> PICK lines : lines = Files!LinesOf(text)
  OBVIOUS
<1>1. Len(lines) \in 0..3
  BY FewLines
<1> PICK report : report = [kind |-> "Full", first |-> 1, last |-> Len(lines), total |-> Len(lines)]
  OBVIOUS
<1>2. report.kind = "Full" /\ report.first = 1 /\ report.last = Len(lines)
  OBVIOUS
<1>3. "none" # "lines" /\ "Full" # "Symbols"
  OBVIOUS
<1>4. Files!ReadText(text, label, TRUE) = Files!Ok(report)
  BY <1>3, Zenon DEF Files!ReadText
<1>5. Files!RenderedLines(report, 0) = 2 + Len(lines) - 1 + 1
  BY <1>2, <1>3, Zenon DEF Files!RenderedLines
<1>6. 2 + Len(lines) - 1 + 1 \in 0..5
  BY <1>1
<1>7. Files!Then(Files!ReadText(text, label, TRUE), LAMBDA r :
             Files!Ok([kind |-> r.kind, len |-> Files!RenderedLines(r, 0)]))
      = Files!Ok([kind |-> report.kind, len |-> Files!RenderedLines(report, 0)])
  BY <1>4, ResultParts, Zenon DEF Files!Then
<1> QED
  BY <1>2, <1>5, <1>6, <1>7

\* `read --full` succeeds on every file that may be read, and on no other.
LEMMA FullReadGives ==
  ASSUME NEW fs, WorkTree(fs), NEW path \in AnyPath,
         NEW label, label.range.kind = "none", label.ext = "txt", label.path.absolute, label.path.names = path
  PROVE  IF CanRead(fs, path) THEN \E n \in 0..5 : FullRead(fs, label) = Files!Ok([kind |-> "Full", len |-> n])
         ELSE FullRead(fs, label).err # ""
<1> PICK read : read = Files!GuardedRead(fs, Root, path, 2)
  OBVIOUS
<1>1. read.err = "" <=> CanRead(fs, path)
  BY ReadGives
<1>2. read.err = "" => read.value = TextOf(fs, path)
  BY ReadGives
<1>3. Files!ParsePathRange(label) = Files!Ok(label)
  BY DEF Files!ParsePathRange
<1>4. Files!WorkspaceResolve(Root, label.path) = path
  BY Zenon DEF Files!WorkspaceResolve
<1>5. Files!DetectKind(label.ext) = "Text"
  BY DEF Files!DetectKind
<1>6. Files!ReadOne(fs, Root, label, TRUE, 2) =
        IF read.err # "" THEN read
        ELSE IF "nul" \in Files!ToSet(read.value) THEN Files!Fail("runtime") ELSE Files!ReadText(read.value, label, TRUE)
  <2>1. "Text" # "ReadableBinary" /\ "Text" # "OpaqueBinary"
    OBVIOUS
  <2> QED
    BY <1>3, <1>4, <1>5, <2>1, ResultParts, Zenon DEF Files!ReadOne, Files!Then
<1>7. CASE CanRead(fs, path)
  <2>1. /\ read.value \in Seq(Words) /\ Len(read.value) \in 0..2 /\ "nul" \notin Files!ToSet(read.value)
    BY <1>1, <1>2, <1>7, TextIsPlain
  <2>2. Files!ReadOne(fs, Root, label, TRUE, 2) = Files!ReadText(read.value, label, TRUE)
    BY <1>1, <1>6, <1>7, <2>1, Zenon
  <2>3. \E n \in 0..5 :
           Files!Then(Files!ReadText(read.value, label, TRUE), LAMBDA report :
             Files!Ok([kind |-> report.kind, len |-> Files!RenderedLines(report, 0)]))
           = Files!Ok([kind |-> "Full", len |-> n])
    BY <2>1, TextGives
  <2> QED
    BY <1>7, <2>2, <2>3, Zenon DEF FullRead
<1>8. CASE ~CanRead(fs, path)
  <2>1. Files!ReadOne(fs, Root, label, TRUE, 2) = read /\ read.err # ""
    BY <1>1, <1>6, <1>8, Zenon
  <2> QED
    BY <1>8, <2>1, Zenon DEF FullRead, Files!Then
<1> QED
  BY <1>7, <1>8

\* A prefix of a path that is not all of it is one of its directory.
LEMMA ShorterPrefix ==
  ASSUME NEW S, NEW root \in Seq(S), NEW path \in Seq(S), NEW name \in S,
         IsPrefix(root, Append(path, name)), Append(path, name) # root
  PROVE  IsPrefix(root, path)
<1> PICK place : place = Append(path, name)
  OBVIOUS
<1>1. place \in Seq(S) /\ Len(place) = Len(path) + 1 /\ \A i \in 1..Len(path) : place[i] = path[i]
  BY AppendProperties
<1>2. Len(root) <= Len(place) /\ \A i \in 1..Len(root) : root[i] = place[i]
  BY <1>1 DEF IsPrefix
<1>3. Len(root) # Len(place)
  BY <1>1, <1>2
<1>4. Len(root) <= Len(path)
  BY <1>1, <1>2, <1>3
<1>5. \A i \in 1..Len(root) : root[i] = path[i]
  BY <1>1, <1>2, <1>4
<1> QED
  BY <1>4, <1>5 DEF IsPrefix

\* Of a file that may be read, the server takes the path when its last name is no link.
LEMMA KnownGives ==
  ASSUME NEW fs, WorkTree(fs), NEW path \in AnyPath, path # <<>>, CanRead(fs, path)
  PROVE  Entry!ContainsPath(fs, Root, path).err = "" <=> Files!SymlinkMetadata(fs, path).value.kind # "link"
<1> PICK parent : parent = Files!Canonicalize(fs, Files!Parent(path))
  OBVIOUS
<1> PICK real : real = Files!Canonicalize(fs, path)
  OBVIOUS
<1> PICK down : down = Files!Descend(fs, parent.value, path[Len(path)])
  OBVIOUS
<1> PICK target : target = Files!SymlinkMetadata(fs, path)
  OBVIOUS
<1>1. IsTree(fs, PlaceNames) /\ path \in Seq(PlaceNames \cup {".."}) /\ Root \in Seq(PlaceNames)
  BY PathsAreAny DEF WorkTree, AnyPath
<1>2. real.err = "" /\ IsPrefix(Root, real.value) /\ fs[real.value].kind = "file"
  BY Zenon DEF CanRead, Real
<1>3. parent.err = "" /\ down.err = ""
  <2>1. ASSUME parent.err # "" PROVE FALSE
    <3>1. real = parent
      BY <1>1, <2>1, NoParent
    <3> QED
      BY <1>2, <2>1, <3>1
  <2>2. ASSUME parent.err = "", down.err # "" PROVE FALSE
    <3>1. real = down
      BY <1>1, <2>2, LastNameMissing
    <3> QED
      BY <1>2, <2>2, <3>1
  <2> QED
    BY <2>1, <2>2
<1>4. target = Files!Ok(fs[down.value]) /\ real = Files!Follow(fs, down.value)
  BY <1>1, <1>3, LastName
<1>5. target.err = "" /\ target.value = fs[down.value]
  BY <1>4, ResultParts
<1>6. path # Root
  <2>1. ASSUME path = Root PROVE FALSE
    <3>1. real = Files!Ok(Root)
      BY <2>1, RootIsReal
    <3>2. fs[Root].kind = "dir"
      BY PlainNodes DEF WorkTree
    <3> QED
      BY <1>2, <3>1, <3>2, ResultParts
  <2> QED
    BY <2>1
<1> PICK known : known = Entry!ContainsPath(fs, Root, path)
  OBVIOUS
<1>7. known = IF ~IsPrefix(Root, parent.value) THEN Files!Fail("containment_violation")
              ELSE IF fs[down.value].kind = "link" THEN Files!Fail("is_symlink") ELSE Files!Ok(TRUE)
  <2> DEFINE prefixes == {n \in 0..(Len(path) - 1) : Entry!Exists(fs, SubSeq(path, 1, n))}
             deepest == CHOOSE n \in prefixes : \A m \in prefixes : m <= n
  <2>1. known = IF ~Entry!Under(Root, Entry!Canonicalize(fs, SubSeq(path, 1, deepest)).value)
                THEN Entry!Fail("containment_violation")
                ELSE IF Entry!SymlinkMetadata(fs, path).err = "not_found" THEN Entry!Ok(FALSE)
                ELSE IF Entry!SymlinkMetadata(fs, path).err # "" THEN Entry!SymlinkMetadata(fs, path)
                ELSE IF Entry!SymlinkMetadata(fs, path).value.kind = "link" THEN Entry!Fail("is_symlink") ELSE Entry!Ok(TRUE)
    BY <1>6, Zenon DEF Entry!ContainsPath, Entry!SafeExists, Entry!Then
  <2>2. Len(path) - 1 \in Nat /\ SubSeq(path, 1, Len(path) - 1) = Files!Parent(path)
    BY <1>1 DEF Files!Parent
  <2>3. Len(path) - 1 \in prefixes
    <3>1. Entry!Exists(fs, SubSeq(path, 1, Len(path) - 1))
      BY <1>3, <2>2, EntryCanonicalize, Zenon DEF Entry!Exists
    <3>2. Len(path) - 1 \in 0..(Len(path) - 1)
      BY <2>2
    <3> QED
      BY <3>1, <3>2
  <2>4. \A m \in prefixes : m <= Len(path) - 1
    BY <2>2
  <2>5. prefixes \subseteq Nat
    OBVIOUS
  <2> HIDE DEF prefixes
  <2>6. deepest = Len(path) - 1
    <3>1. deepest \in prefixes /\ \A m \in prefixes : m <= deepest
      BY <2>3, <2>4, Zenon
    <3> HIDE DEF deepest
    <3> QED
      BY <2>2, <2>3, <2>4, <2>5, <3>1
  <2> HIDE DEF deepest
  <2>7. Entry!Canonicalize(fs, SubSeq(path, 1, deepest)).value = parent.value
    BY <2>2, <2>6, EntryCanonicalize
  <2>8. Entry!SymlinkMetadata(fs, path) = target
    BY EntrySymlink
  <2>9. "" # "not_found"
    OBVIOUS
  <2> QED
    BY <1>5, <2>1, <2>7, <2>8, <2>9, EntryUnder, EntryResults, Zenon
<1>8. CASE fs[down.value].kind = "link"
  <2>1. known = Files!Fail("containment_violation") \/ known = Files!Fail("is_symlink")
    BY <1>7, <1>8, Zenon
  <2>2. known.err # ""
    <3>1. "containment_violation" # "" /\ "is_symlink" # ""
      OBVIOUS
    <3> QED
      BY <2>1, <3>1, ResultParts, Zenon
  <2> QED
    BY <1>5, <1>8, <2>2
<1>9. CASE fs[down.value].kind # "link"
  <2>1. real = Files!Ok(down.value)
    BY <1>4, <1>9 DEF Files!Follow
  <2>2. fs[down.value].kind = "file" /\ IsPrefix(Root, down.value)
    BY <1>2, <2>1, ResultParts
  <2>3. parent.value \in DOMAIN fs /\ path[Len(path)] \in PlaceNames \cup {".."}
    BY <1>1, <1>3, ParentIsReal
  <2>4. /\ down.value \in DOMAIN fs
        /\ IF path[Len(path)] = ".." THEN fs[down.value].kind = "dir" ELSE down.value = Append(parent.value, path[Len(path)])
    BY <1>1, <1>3, <2>3, DescendShape
  <2>5. path[Len(path)] \in PlaceNames /\ down.value = Append(parent.value, path[Len(path)])
    BY <2>2, <2>3, <2>4
  <2>6. down.value # Root
    BY <2>2, PlainNodes DEF WorkTree
  <2>7. parent.value \in Seq(PlaceNames)
    BY <1>1, <2>3 DEF IsTree
  <2>8. IsPrefix(Root, parent.value)
    BY <1>1, <2>2, <2>5, <2>6, <2>7, ShorterPrefix
  <2>9. known.err = ""
    BY <1>7, <1>9, <2>8, ResultParts, Zenon
  <2> QED
    BY <1>5, <1>9, <2>9
<1> QED
  BY <1>8, <1>9

\* The path of the call, and what the server makes of it.
Asked(absolute, names) == [absolute |-> absolute, names |-> names, suffix |-> ""]
AskedPlace(absolute, names) == IF absolute THEN names ELSE Root \o names

Settled(absolute, names) == [Asked(absolute, names) EXCEPT !.absolute = TRUE, !.names = AskedPlace(absolute, names)]

\* The settled path is absolute, and below the root unless the path was absolute.
LEMMA SettledPath ==
  \A absolute, names :
    Settled(absolute, names).absolute /\ Settled(absolute, names).names = AskedPlace(absolute, names)
<1> TAKE absolute, names
<1> PICK place : place = AskedPlace(absolute, names)
  OBVIOUS
<1>1. [Asked(absolute, names) EXCEPT !.absolute = TRUE, !.names = place].absolute
  BY DEF Asked
<1>2. [Asked(absolute, names) EXCEPT !.absolute = TRUE, !.names = place].names = place
  BY DEF Asked
<1> QED
  BY <1>1, <1>2, Zenon DEF Settled

\* resolve_path settles a path that the root contains, and refuses any other.
LEMMA ResolveGives ==
  ASSUME NEW fs, NEW absolute \in BOOLEAN, NEW names \in Seq(Names), names # <<>>,
         NEW path, path = AskedPlace(absolute, names)
  PROVE  LET resolved == Entry!ResolvePath(fs, Root, Asked(absolute, names))
         IN  IF Entry!ContainsPath(fs, Root, path).err = "" THEN resolved = Files!Ok(Settled(absolute, names))
             ELSE resolved.err # ""
<1> PICK asked : asked = Asked(absolute, names)
  OBVIOUS
<1> PICK known : known = Entry!ContainsPath(fs, Root, path)
  OBVIOUS
<1> PICK resolved : resolved = Entry!ResolvePath(fs, Root, asked)
  OBVIOUS
<1>1. asked.absolute = absolute /\ asked.names = names
  BY DEF Asked
<1>2. [asked EXCEPT !.absolute = TRUE, !.names = path] = Settled(absolute, names)
  BY DEF Settled
<1>3. names[1] \in Names /\ names # <<".">>
  <2>1. names[1] \in Names /\ "." \notin Names
    BY DEF Names
  <2> QED
    BY <2>1
<1>4. names[1] # "."
  BY <1>3 DEF Names
<1>5. Entry!Resolve(<<>>, names) = names
  BY <1>3, <1>4, Zenon DEF Entry!Resolve
<1>6. \/ known.err = "" /\ resolved = Entry!Ok([asked EXCEPT !.absolute = TRUE, !.names = path])
      \/ known.err # "" /\ \E refusal \in {"outside_project", "is_symlink", "cannot validate"} : resolved = Entry!Fail(refusal)
  <2>1. (IF asked.absolute THEN asked.names ELSE Root \o Entry!Resolve(<<>>, asked.names)) = path
    BY <1>1, <1>5, Zenon DEF AskedPlace
  <2> PICK refusal : refusal = CASE known.err \in {"symlink_escape", "containment_violation"} -> "outside_project"
                    [] known.err = "is_symlink" -> "is_symlink" [] OTHER -> "cannot validate"
    OBVIOUS
  <2>2. refusal \in {"outside_project", "is_symlink", "cannot validate"}
    OBVIOUS
  <2>3. resolved = IF known.err # "" THEN Entry!Fail(refusal) ELSE Entry!Ok([asked EXCEPT !.absolute = TRUE, !.names = path])
    BY <2>1, Zenon DEF Entry!ResolvePath
  <2> QED
    BY <2>2, <2>3, Zenon
<1>7. \A refusal \in {"outside_project", "is_symlink", "cannot validate"} : Entry!Fail(refusal).err # ""
  BY DEF Entry!Fail
<1> QED
  BY <1>2, <1>6, <1>7, EntryResults, Zenon

\* One path.
LEMMA ZeroOne ==
  /\ 0 \in 0..1 /\ 1 \in 0..1 /\ 1 # 0 /\ 1 - 1 = 0
  /\ \A n \in 0..1 : n = 0 \/ n = 1
OBVIOUS

ResolvingOne(f, fs, asked) ==
  f = [n \in 0..1 |-> IF n = 0 THEN Entry!Ok(<<>>) ELSE Entry!ResolveNext(fs, Root, f[n - 1], <<asked>>[n])]

\* Of one path, resolve_paths gives what resolve_path does.
LEMMA ResolveOneGives ==
  ASSUME NEW fs, NEW asked, NEW one, one = Entry!ResolvePath(fs, Root, asked)
  PROVE  Entry!ResolvePaths(fs, Root, <<asked>>) = IF one.err # "" THEN one ELSE Files!Ok(<<one.value>>)
<1>1. Len(<<asked>>) = 1 /\ <<asked>>[1] = asked
  OBVIOUS
<1>2. \E f : ResolvingOne(f, fs, asked)
  <2> PICK last : last = Entry!ResolveNext(fs, Root, Entry!Ok(<<>>), asked)
    OBVIOUS
  <2> PICK none : none = Entry!Ok(<<>>)
    OBVIOUS
  <2> PICK f : f = [n \in 0..1 |-> IF n = 0 THEN none ELSE last]
    OBVIOUS
  <2>1. f[0] = none
    BY ZeroOne
  <2> DEFINE rest(n) == Entry!ResolveNext(fs, Root, f[n - 1], <<asked>>[n])
  <2>2. rest(1) = last
    BY <1>1, <2>1, ZeroOne
  <2>3. \A n \in 0..1 : n # 0 => rest(n) = last
    BY <2>2, ZeroOne, Zenon
  <2> HIDE DEF rest
  <2>4. f = [n \in 0..1 |-> IF n = 0 THEN none ELSE rest(n)]
    BY <2>3
  <2>5. f = [n \in 0..1 |-> IF n = 0 THEN Entry!Ok(<<>>) ELSE rest(n)]
    BY <2>4
  <2> QED
    BY <2>5, Zenon DEF ResolvingOne, rest
<1> PICK f : f = CHOOSE g : ResolvingOne(g, fs, asked)
  OBVIOUS
<1>3. ResolvingOne(f, fs, asked)
  BY <1>2, Zenon
<1>4. Entry!ResolvePaths(fs, Root, <<asked>>) = f[1]
  <2>1. Entry!ResolvePaths(fs, Root, <<asked>>) =
          (CHOOSE g : g = [n \in 0..Len(<<asked>>) |->
             IF n = 0 THEN Entry!Ok(<<>>) ELSE Entry!ResolveNext(fs, Root, g[n - 1], <<asked>>[n])])[Len(<<asked>>)]
    BY Zenon DEF Entry!ResolvePaths
  <2> QED
    BY <1>1, <2>1, Zenon DEF ResolvingOne
<1>5. f[0] = Entry!Ok(<<>>)
  BY <1>3, ZeroOne, Zenon DEF ResolvingOne
<1>6. f[1] = Entry!ResolveNext(fs, Root, f[0], asked)
  <2>1. f[1] = Entry!ResolveNext(fs, Root, f[1 - 1], <<asked>>[1])
    BY <1>3, ZeroOne, Zenon DEF ResolvingOne
  <2> QED
    BY <1>1, <2>1, ZeroOne
<1>7. Entry!Ok(<<>>).err = "" /\ Entry!Ok(<<>>).value = <<>>
  BY DEF Entry!Ok
<1>8. Append(<<>>, one.value) = <<one.value>>
  OBVIOUS
<1> QED
  BY <1>4, <1>5, <1>6, <1>7, <1>8, EntryResults, Zenon DEF Entry!ResolveNext, Entry!Then

\* The line of the call, its command, and that command when its path is settled.
ReadCommand(absolute, names) == [name |-> "read", full |-> TRUE, paths |-> <<Asked(absolute, names)>>]
ReadLine(absolute, names) ==
  [nul |-> FALSE, len |-> 1, quotes |-> "", words |-> <<"8v", "read">>, cli |-> "ok",
   command |-> ReadCommand(absolute, names)]
SettledCommand(absolute, names) == [ReadCommand(absolute, names) EXCEPT !.paths = <<Settled(absolute, names)>>]

\* The fields of the command, as it is sent and as it is settled.
LEMMA CommandParts ==
  \A absolute, names :
    /\ ReadCommand(absolute, names).name = "read" /\ ReadCommand(absolute, names).paths = <<Asked(absolute, names)>>
    /\ SettledCommand(absolute, names).name = "read" /\ SettledCommand(absolute, names).full
    /\ SettledCommand(absolute, names).paths = <<Settled(absolute, names)>>
<1> TAKE absolute, names
<1> PICK asked : asked = Asked(absolute, names)
  OBVIOUS
<1> PICK settled : settled = Settled(absolute, names)
  OBVIOUS
<1>1. /\ [name |-> "read", full |-> TRUE, paths |-> <<asked>>].name = "read"
      /\ [name |-> "read", full |-> TRUE, paths |-> <<asked>>].paths = <<asked>>
  OBVIOUS
<1>2. [[name |-> "read", full |-> TRUE, paths |-> <<asked>>] EXCEPT !.paths = <<settled>>].name = "read"
  OBVIOUS
<1>3. [[name |-> "read", full |-> TRUE, paths |-> <<asked>>] EXCEPT !.paths = <<settled>>].full
  OBVIOUS
<1>4. [[name |-> "read", full |-> TRUE, paths |-> <<asked>>] EXCEPT !.paths = <<settled>>].paths = <<settled>>
  OBVIOUS
<1> QED
  BY <1>1, <1>2, <1>3, <1>4, Zenon DEF ReadCommand, SettledCommand

\* parse_mcp_command gives the command with its path settled, or refuses the path.
LEMMA ParseGives ==
  ASSUME NEW fs, NEW absolute \in BOOLEAN, NEW names \in Seq(Names), names # <<>>
  PROVE  LET parsed == Entry!ParseMcpCommand(fs, Root, ReadLine(absolute, names))
         IN  IF Entry!ContainsPath(fs, Root, AskedPlace(absolute, names)).err = ""
             THEN parsed = Files!Ok(SettledCommand(absolute, names)) ELSE parsed.err # ""
<1> PICK command : command = ReadCommand(absolute, names)
  OBVIOUS
<1> PICK line : line = ReadLine(absolute, names)
  OBVIOUS
<1> PICK one : one = Entry!ResolvePath(fs, Root, Asked(absolute, names))
  OBVIOUS
<1>1. line.nul = FALSE
  BY DEF ReadLine
<1>2. line.len = 1 /\ line.quotes = "" /\ line.words = <<"8v", "read">> /\ line.cli = "ok" /\ line.command = command
  BY DEF ReadLine
<1>3. (IF line.words # <<>> /\ line.words[1] = "8v" THEN Tail(line.words) ELSE line.words) # <<>>
  <2>1. Tail(<<"8v", "read">>) # <<>> /\ <<"8v", "read">> # <<>>
    OBVIOUS
  <2> QED
    BY <1>2, <2>1, Zenon
<1>4. ~(line.len > Entry!MaxCommandLen)
  <2>1. ~(1 > Entry!MaxCommandLen)
    BY DEF Entry!MaxCommandLen
  <2> QED
    BY <1>2, <2>1, Zenon
<1>5. line.quotes # "unmatched" /\ line.cli # "help" /\ line.cli = "ok"
  BY <1>2
<1>6. Entry!ParseMcpCommand(fs, Root, line) = Entry!ResolveMcpPaths(fs, Root, command)
  BY <1>1, <1>2, <1>3, <1>4, <1>5, Zenon DEF Entry!ParseMcpCommand
<1>7. command.name \in Entry!PathCommands /\ command.paths = <<Asked(absolute, names)>>
  BY CommandParts DEF Entry!PathCommands
<1>8. Entry!ResolvePaths(fs, Root, command.paths) = IF one.err # "" THEN one ELSE Files!Ok(<<one.value>>)
  BY <1>7, ResolveOneGives
<1>9. Entry!ResolveMcpPaths(fs, Root, command) =
        IF one.err # "" THEN one ELSE Files!Ok([command EXCEPT !.paths = <<one.value>>])
  <2>1. Entry!ResolveMcpPaths(fs, Root, command) =
          Entry!Then(Entry!ResolvePaths(fs, Root, command.paths), LAMBDA ps : Entry!Ok([command EXCEPT !.paths = ps]))
    BY <1>7, Zenon DEF Entry!ResolveMcpPaths
  <2> QED
    BY <1>8, <2>1, ResultParts, EntryResults, Zenon DEF Entry!Then
<1>10. IF Entry!ContainsPath(fs, Root, AskedPlace(absolute, names)).err = "" THEN one = Files!Ok(Settled(absolute, names))
       ELSE one.err # ""
  BY ResolveGives
<1> QED
  BY <1>6, <1>9, <1>10, ResultParts, Zenon DEF SettledCommand

\* The sizes of one file are far below the cap.
SizingOne(f, fs, path) ==
  f = [n \in 0..1 |-> IF n = 0 THEN 0 ELSE f[n - 1] + Entry!SizeOf(fs, <<path>>[n])]

\* A file of the trees has two bytes at most.
LEMMA SizeGives ==
  ASSUME NEW fs, WorkTree(fs), NEW path \in AnyPath, NEW asked, asked.names = path
  PROVE  Entry!SizeOf(fs, asked) \in 0..2
<1> PICK real : real = Files!Canonicalize(fs, path)
  OBVIOUS
<1>1. Entry!SizeOf(fs, asked) = IF real.err = "" THEN Len(fs[real.value].text) ELSE 0
  BY EntryCanonicalize, Zenon DEF Entry!SizeOf
<1>2. real.err = "" => Len(fs[real.value].text) \in 0..2
  BY RealPlace, Zenon DEF Real, PlainNode, PlainText
<1>3. 0 \in 0..2
  OBVIOUS
<1> QED
  BY <1>1, <1>2, <1>3, Zenon

\* What is as small as that fits into the answer.
LEMMA FitsGives ==
  ASSUME NEW fs, NEW command, NEW asked, command.paths = <<asked>>, NEW size \in 0..2, size = Entry!SizeOf(fs, asked)
  PROVE  Entry!FullReadFits(fs, command, Entry!DefaultOutputCap)
<1>1. Len(<<asked>>) = 1 /\ <<asked>>[1] = asked
  OBVIOUS
<1>2. \E f : SizingOne(f, fs, asked)
  <2> PICK f : f = [n \in 0..1 |-> IF n = 0 THEN 0 ELSE size]
    OBVIOUS
  <2>1. f[0] = 0
    BY ZeroOne
  <2> DEFINE rest(n) == f[n - 1] + Entry!SizeOf(fs, <<asked>>[n])
  <2>2. rest(1) = size
    <3>1. rest(1) = f[0] + size
      BY <1>1, ZeroOne
    <3> QED
      BY <2>1, <3>1
  <2>3. \A n \in 0..1 : n # 0 => rest(n) = size
    BY <2>2, ZeroOne, Zenon
  <2> HIDE DEF rest
  <2>4. f = [n \in 0..1 |-> IF n = 0 THEN 0 ELSE rest(n)]
    BY <2>3
  <2> QED
    BY <2>4, Zenon DEF SizingOne, rest
<1> PICK f : f = CHOOSE g : SizingOne(g, fs, asked)
  OBVIOUS
<1>3. SizingOne(f, fs, asked)
  BY <1>2, Zenon
<1>4. Entry!TotalSize(fs, <<asked>>) = f[1]
  <2>1. Entry!TotalSize(fs, <<asked>>) =
          (CHOOSE g : g = [n \in 0..Len(<<asked>>) |->
             IF n = 0 THEN 0 ELSE g[n - 1] + Entry!SizeOf(fs, <<asked>>[n])])[Len(<<asked>>)]
    BY Zenon DEF Entry!TotalSize
  <2> QED
    BY <1>1, <2>1, Zenon DEF SizingOne
<1>5. f[0] = 0
  BY <1>3, ZeroOne, Zenon DEF SizingOne
<1>6. f[1] = f[0] + size
  <2>1. f[1] = f[1 - 1] + Entry!SizeOf(fs, <<asked>>[1])
    BY <1>3, ZeroOne, Zenon DEF SizingOne
  <2> QED
    BY <1>1, <2>1, ZeroOne
<1>7. Entry!TotalSize(fs, <<asked>>) = size
  BY <1>4, <1>5, <1>6
<1>8. \A n \in 0..2 : (n * 6) \div 5 <= Entry!DefaultOutputCap
  BY DEF Entry!DefaultOutputCap
<1> QED
  BY <1>7, <1>8, Zenon DEF Entry!FullReadFits

\* An answer of a few lines is below the cap.
LEMMA BelowCap == \A n \in 0..5 : ~(n > Entry!DefaultOutputCap)
BY DEF Entry!DefaultOutputCap

\* What the server answers, `answer` what the command makes of the settled path.
Handled(fs, absolute, names, answers) ==
  Entry!HandleCommand(fs, [set |-> FALSE], <<[isFile |-> TRUE, path |-> Root]>>, "", ReadLine(absolute, names), answers)

\* The server passes on what the command answers.
PassedOn(fs, absolute, names, answers, parsed) ==
  Handled(fs, absolute, names, answers) =
    IF parsed.err # "" THEN parsed
    ELSE Entry!DispatchReadMcp(answers[parsed.value], Entry!DefaultOutputCap)

\* Once the cap, the root and the path are settled, that is what the command answers.
LEMMA HandleGives ==
  ASSUME NEW fs, WorkTree(fs), NEW absolute \in BOOLEAN, NEW names \in Seq(Names), names # <<>>,
         AskedPlace(absolute, names) \in AnyPath, NEW answers,
         NEW parsed, parsed = Entry!ParseMcpCommand(fs, Root, ReadLine(absolute, names))
  PROVE  PassedOn(fs, absolute, names, answers, parsed)
<1> PICK line : line = ReadLine(absolute, names)
  OBVIOUS
<1> PICK roots : roots = <<[isFile |-> TRUE, path |-> Root]>>
  OBVIOUS
<1> PICK variable : variable = [set |-> FALSE]
  OBVIOUS
<1>1. Entry!OutputCap(variable) = Files!Ok(Entry!DefaultOutputCap)
  <2>1. variable.set = FALSE
    OBVIOUS
  <2> QED
    BY <2>1, EntryResults, Zenon DEF Entry!OutputCap
<1>2. Entry!RootDirectory(roots, "") = Files!Ok(Root)
  <2> PICK first : first = [isFile |-> TRUE, path |-> Root]
    OBVIOUS
  <2>1. first.isFile = TRUE /\ first.path = Root
    OBVIOUS
  <2>2. <<first>> # <<>> /\ <<first>>[1] = first
    OBVIOUS
  <2>3. roots = <<first>>
    OBVIOUS
  <2> QED
    BY <2>1, <2>2, <2>3, EntryResults, Zenon DEF Entry!RootDirectory
<1>3. Entry!ContainmentRoot(fs, Root) = Files!Ok(Root)
  <2>1. fs[Root].kind = "dir"
    BY PlainNodes DEF WorkTree
  <2>2. Entry!Canonicalize(fs, Root) = Files!Ok(Root)
    BY RootIsReal, EntryCanonicalize
  <2>3. Files!Ok(Root).err = "" /\ Files!Ok(Root).value = Root
    BY ResultParts
  <2>4. Entry!Ok(Root) = Files!Ok(Root)
    BY EntryResults
  <2> QED
    BY <2>1, <2>2, <2>3, <2>4, Zenon DEF Entry!ContainmentRoot, Entry!Then
<1>4. parsed.err = "" => parsed.value = SettledCommand(absolute, names)
  BY ParseGives, ResultParts, Zenon
<1>5. Entry!FullReadFits(fs, SettledCommand(absolute, names), Entry!DefaultOutputCap)
  <2> PICK settled : settled = Settled(absolute, names)
    OBVIOUS
  <2>1. settled.names = AskedPlace(absolute, names) /\ SettledCommand(absolute, names).paths = <<settled>>
    BY SettledPath, CommandParts
  <2>2. Entry!SizeOf(fs, settled) \in 0..2
    BY <2>1, SizeGives
  <2> QED
    BY <2>1, <2>2, FitsGives
<1>6. SettledCommand(absolute, names).name = "read" /\ "read" # "help"
  BY CommandParts
<1>7. Handled(fs, absolute, names, answers) =
        IF parsed.err # "" THEN parsed
        ELSE IF parsed.value.name = "help" THEN Entry!Ok(<<"text">>)
        ELSE IF ~Entry!FullReadFits(fs, parsed.value, Entry!DefaultOutputCap) THEN Entry!Fail("error: output too large")
        ELSE Entry!McpAnswer(parsed.value.name, answers[parsed.value], Entry!DefaultOutputCap)
  <2> PICK cap : cap = Entry!DefaultOutputCap
    OBVIOUS
  <2> PICK a : a = Files!Ok(cap)
    OBVIOUS
  <2> PICK b : b = Files!Ok(Root)
    OBVIOUS
  <2>1. a.err = "" /\ a.value = cap /\ b.err = "" /\ b.value = Root
    BY ResultParts
  <2>2. Entry!OutputCap(variable) = a /\ Entry!RootDirectory(roots, "") = b /\ Entry!ContainmentRoot(fs, Root) = b
    BY <1>1, <1>2, <1>3
  <2>3. Entry!HandleCommand(fs, variable, roots, "", line, answers) =
          IF parsed.err # "" THEN parsed
          ELSE IF parsed.value.name = "help" THEN Entry!Ok(<<"text">>)
          ELSE IF ~Entry!FullReadFits(fs, parsed.value, cap) THEN Entry!Fail("error: output too large")
          ELSE Entry!McpAnswer(parsed.value.name, answers[parsed.value], cap)
    BY <2>1, <2>2, Zenon DEF Entry!HandleCommand, Entry!Then
  <2> QED
    BY <2>3, Zenon DEF Handled
<1> QED
  BY <1>4, <1>5, <1>6, <1>7, Zenon DEF Entry!McpAnswer, PassedOn

\* What AskServer answers with: the command is run on the settled path.
ServerLabel(p) == [path |-> p, ext |-> "txt", range |-> [kind |-> "none"]]

ServerRight(in, out) ==
  out.err = "" <=> CanRead(in.fs, in.path) /\ Files!SymlinkMetadata(in.fs, in.path).value.kind # "link"

\* The server answers on every file that `8v read` reads, but for a link, and on no other.
LEMMA ServerGives ==
  ASSUME NEW fs, WorkTree(fs), NEW absolute \in BOOLEAN, NEW names \in Seq(Names), names # <<>>,
         NEW path \in AnyPath, path # <<>>, path = AskedPlace(absolute, names), NEW answers,
         NEW parsed, parsed = Entry!ParseMcpCommand(fs, Root, ReadLine(absolute, names)),
         parsed.err = "" => answers[parsed.value] = FullRead(fs, ServerLabel(parsed.value.paths[1])),
         NEW in, in.fs = fs, in.path = path
  PROVE  ServerRight(in, Handled(fs, absolute, names, answers))
<1> PICK out : out = Handled(fs, absolute, names, answers)
  OBVIOUS
<1> PICK known : known = Entry!ContainsPath(fs, Root, path)
  OBVIOUS
<1>1. out = IF parsed.err # "" THEN parsed
            ELSE Entry!DispatchReadMcp(answers[parsed.value], Entry!DefaultOutputCap)
  <2>1. AskedPlace(absolute, names) \in AnyPath
    OBVIOUS
  <2>2. PassedOn(fs, absolute, names, answers, parsed)
    BY <2>1, HandleGives
  <2> QED
    BY <2>2, Zenon DEF PassedOn
<1>2. IF known.err = "" THEN parsed = Files!Ok(SettledCommand(absolute, names)) ELSE parsed.err # ""
  BY ParseGives
<1>3. known.err = "" => parsed.err = "" /\ parsed.value = SettledCommand(absolute, names)
  BY <1>2, ResultParts
<1> PICK label : label = ServerLabel(Settled(absolute, names))
  OBVIOUS
<1>4. known.err = "" => answers[parsed.value] = FullRead(fs, label)
  <2>1. <<Settled(absolute, names)>>[1] = Settled(absolute, names)
    OBVIOUS
  <2> QED
    BY <1>3, <2>1, CommandParts, Zenon
<1>5. /\ label.range.kind = "none" /\ label.ext = "txt" /\ label.path = Settled(absolute, names)
  BY DEF ServerLabel
<1>6. label.path.absolute /\ label.path.names = path
  BY <1>5, SettledPath
<1>7. IF CanRead(fs, path) THEN \E n \in 0..5 : FullRead(fs, label) = Files!Ok([kind |-> "Full", len |-> n])
      ELSE FullRead(fs, label).err # ""
  BY <1>5, <1>6, FullReadGives
<1>8. CASE known.err # ""
  <2>1. out.err # ""
    BY <1>1, <1>2, <1>8, Zenon
  <2>2. CanRead(fs, path) => ~(Files!SymlinkMetadata(fs, path).value.kind # "link")
    BY <1>8, KnownGives
  <2> QED
    BY <2>1, <2>2, Zenon DEF ServerRight
<1>9. CASE known.err = "" /\ ~CanRead(fs, path)
  <2>1. out = FullRead(fs, label) /\ out.err # ""
    BY <1>1, <1>3, <1>4, <1>7, <1>9, Zenon DEF Entry!DispatchReadMcp, Entry!Then
  <2> QED
    BY <1>9, <2>1, Zenon DEF ServerRight
<1>10. CASE known.err = "" /\ CanRead(fs, path)
  <2>1. Files!SymlinkMetadata(fs, path).value.kind # "link"
    BY <1>10, KnownGives
  <2>2. PICK n \in 0..5 : FullRead(fs, label) = Files!Ok([kind |-> "Full", len |-> n])
    BY <1>7, <1>10
  <2> PICK report : report = [kind |-> "Full", len |-> n]
    OBVIOUS
  <2>3. report.kind # "Multi" /\ report.kind # "BinaryContent" /\ report.len = n
    OBVIOUS
  <2>4. ~(n > Entry!DefaultOutputCap)
    BY BelowCap
  <2>5. out = Entry!DispatchReadMcp(Files!Ok(report), Entry!DefaultOutputCap)
    BY <1>1, <1>3, <1>4, <1>10, <2>2, Zenon
  <2>6. out = Files!Ok(<<"text">>)
    BY <2>3, <2>4, <2>5, ResultParts, EntryResults, Zenon DEF Entry!DispatchReadMcp, Entry!ReportToBlocks, Entry!Then
  <2>7. out.err = ""
    BY <2>6, ResultParts
  <2> QED
    BY <1>10, <2>1, <2>7, Zenon DEF ServerRight
<1> QED
  BY <1>8, <1>9, <1>10

-----------------------------------------------------------------------------
(* ReadsStayInside *)

\* What ReadsStayInside says, kind by kind.
ScanRight(in, out) ==
  /\ ByNameRight(in, out.scan, out.byName)
  /\ ByExtRight(in, out.byExt)
  /\ EntryRight(in, out.entry)
FilesRight(c) ==
  /\ c.name = "read" => ReadRight(c.input, c.output)
  /\ c.name = "server" => ServerRight(c.input, c.output)
  /\ c.name = "write" => WriteRight(c.input, c.output)
  /\ c.name = "look" => LookRight(c.input, c.output)
  /\ c.name = "scan" => ScanRight(c.input, c.output)

\* Together they are ReadsStayInside.
LEMMA SayTheSame == FilesRight(call) <=> ReadsStayInside
BY Zenon DEF FilesRight, ReadsStayInside, ReadRight, ServerRight, WriteRight, LookRight, ScanRight,
  ByNameRight, ByExtRight, EntryRight, CanRead, TextOf

\* `read`.
LEMMA ReadFileRight ==
  ASSUME ReadFile
  PROVE  ReadRight(call'.input, call'.output)
<1>1. PICK fs \in Trees, path \in Paths :
        call' = [name |-> "read", input |-> [fs |-> fs, path |-> path], output |-> Files!GuardedRead(fs, Root, path, 2)]
  BY DEF ReadFile, Answer
<1>2. call'.input.fs = fs /\ call'.input.path = path /\ call'.output = Files!GuardedRead(fs, Root, path, 2)
  BY <1>1
<1>3. WorkTree(fs) /\ path \in AnyPath
  BY TreesAreTrees, PathsAreAny
<1>4. /\ call'.output.err = "" <=> CanRead(fs, path)
      /\ call'.output.err = "" => call'.output.value = TextOf(fs, path)
  BY <1>2, <1>3, ReadGives
<1> QED
  BY <1>2, <1>4, Zenon DEF ReadRight

\* create_file and rename.
LEMMA WriteFileRight ==
  ASSUME WriteFile
  PROVE  WriteRight(call'.input, call'.output)
<1>1. PICK fs \in Trees, path \in Paths, renames \in BOOLEAN :
        call' = [name |-> "write", input |-> [fs |-> fs, path |-> path],
                 output |-> IF renames THEN Files!GuardedRename(fs, Root, <<"w", "b">>, path)
                            ELSE Files!GuardedCall(fs, Root, path, TRUE)]
  BY Zenon DEF WriteFile, Answer
<1> PICK out : out = IF renames THEN Files!GuardedRename(fs, Root, <<"w", "b">>, path)
                     ELSE Files!GuardedCall(fs, Root, path, TRUE)
  OBVIOUS
<1>2. call'.input = [fs |-> fs, path |-> path] /\ call'.output = out
  BY <1>1
<1>3. WorkTree(fs) /\ path \in AnyPath
  BY TreesAreTrees, PathsAreAny
<1>4. WriteRight([fs |-> fs, path |-> path], out)
  BY <1>3, WriteGives
<1> QED
  BY <1>2, <1>4, Zenon

\* `ls --loc` and read_dir.
LEMMA ListPathRight ==
  ASSUME ListPath
  PROVE  LookRight(call'.input, call'.output)
<1>1. PICK fs \in Trees, path \in Paths :
        call' = [name |-> "look", input |-> [fs |-> fs, path |-> path],
                 output |-> [label |-> IF path \in DOMAIN fs THEN Files!FileLabel(fs, Root, path, TRUE, FALSE, 2, 2) ELSE "not listed",
                             dir |-> Files!GuardedReadDir(fs, Root, path)]]
  BY Zenon DEF ListPath, Answer
<1> PICK out : out = [label |-> IF path \in DOMAIN fs THEN Files!FileLabel(fs, Root, path, TRUE, FALSE, 2, 2) ELSE "not listed",
                      dir |-> Files!GuardedReadDir(fs, Root, path)]
  OBVIOUS
<1>2. call'.input = [fs |-> fs, path |-> path] /\ call'.output = out
  BY <1>1
<1>3. WorkTree(fs) /\ path \in AnyPath
  BY TreesAreTrees, PathsAreAny
<1>4. LookRight([fs |-> fs, path |-> path], out)
  BY <1>3, LookGives
<1> QED
  BY <1>2, <1>4, Zenon

\* A scan, and what is read by it.
LEMMA ScanAndReadRight ==
  ASSUME ScanAndRead
  PROVE  ScanRight(call'.input, call'.output)
<1>1. PICK fs \in Trees, name \in {"a", "b", "d"}, names \in SUBSET {"a", "b"}, maxEntries \in 1..3 :
        LET scan == Files!ScanDirectory(fs, Listing(fs), maxEntries)
        IN  call' = [name |-> "scan",
                     input |-> [fs |-> fs, path |-> Append(Root, name), name |-> name, names |-> names],
                     output |-> [scan |-> scan, entry |-> Files!ValidateEntry(fs, Root, scan, name),
                                 byName |-> Files!ReadChecked(fs, Root, scan, name, 2),
                                 byExt |-> Files!ReadByExt(fs, Root, scan, names, 2)]]
  BY Zenon DEF ScanAndRead, Answer, Listing
<1> PICK scan : scan = Files!ScanDirectory(fs, Listing(fs), maxEntries)
  OBVIOUS
<1> PICK in : in = [fs |-> fs, path |-> Append(Root, name), name |-> name, names |-> names]
  OBVIOUS
<1> PICK out : out = [scan |-> scan, entry |-> Files!ValidateEntry(fs, Root, scan, name),
                      byName |-> Files!ReadChecked(fs, Root, scan, name, 2),
                      byExt |-> Files!ReadByExt(fs, Root, scan, names, 2)]
  OBVIOUS
<1>2. call'.input = in /\ call'.output = out
  BY <1>1
<1>3. in.fs = fs /\ in.path = Append(Root, name) /\ in.name = name /\ in.names = names
  OBVIOUS
<1>4. /\ out.scan = scan /\ out.entry = Files!ValidateEntry(fs, Root, scan, name)
      /\ out.byName = Files!ReadChecked(fs, Root, scan, name, 2)
      /\ out.byExt = Files!ReadByExt(fs, Root, scan, names, 2)
  OBVIOUS
<1>5. name \in PlaceNames /\ maxEntries \in Nat
  <2>1. maxEntries \in Nat
    OBVIOUS
  <2>2. name = "a" \/ name = "b" \/ name = "d"
    OBVIOUS
  <2>3. "a" \in PlaceNames /\ "b" \in PlaceNames /\ "d" \in PlaceNames
    BY DEF PlaceNames, Names
  <2> QED
    BY <2>1, <2>2, <2>3, Zenon
<1>6. ByNameRight(in, scan, Files!ReadChecked(fs, Root, scan, name, 2))
  BY <1>3, <1>5, ByNameGives
<1>7. ByExtRight(in, Files!ReadByExt(fs, Root, scan, names, 2))
  BY <1>3, ByExtGives
<1>8. EntryRight(in, Files!ValidateEntry(fs, Root, scan, name))
  BY <1>3, <1>5, EntryGives
<1> QED
  BY <1>2, <1>4, <1>6, <1>7, <1>8, Zenon DEF ScanRight

\* What the command makes of the path it gets.
ReadAnswers(fs, parsed) ==
  [command \in IF parsed.err = "" THEN {parsed.value} ELSE {} |-> FullRead(fs, ServerLabel(command.paths[1]))]

\* `read` by way of the MCP server.
LEMMA AskServerRight ==
  ASSUME AskServer
  PROVE  ServerRight(call'.input, call'.output)
<1>1. PICK fs \in Trees, names \in Paths, absolute \in BOOLEAN :
        call' = [name |-> "server", input |-> [fs |-> fs, path |-> AskedPlace(absolute, names)],
                 output |-> Handled(fs, absolute, names,
                                    ReadAnswers(fs, Entry!ParseMcpCommand(fs, Root, ReadLine(absolute, names))))]
  BY Zenon DEF AskServer, Answer, AskedPlace, Handled, ReadAnswers, ReadLine, ReadCommand, Asked, FullRead, ServerLabel, Files!Then
<1> PICK path : path = AskedPlace(absolute, names)
  OBVIOUS
<1> PICK parsed : parsed = Entry!ParseMcpCommand(fs, Root, ReadLine(absolute, names))
  OBVIOUS
<1> PICK answers : answers = ReadAnswers(fs, parsed)
  OBVIOUS
<1> PICK out : out = Handled(fs, absolute, names, answers)
  OBVIOUS
<1> PICK in : in = [fs |-> fs, path |-> path]
  OBVIOUS
<1>2. call'.input = in /\ call'.output = out
  BY <1>1
<1>3. in.fs = fs /\ in.path = path
  OBVIOUS
<1>4. WorkTree(fs) /\ names \in Seq(Names) /\ names # <<>> /\ path \in AnyPath /\ path # <<>>
  <2>1. names \in AnyPath /\ names # <<>> /\ Root \o names \in AnyPath /\ Root \o names # <<>>
    BY PathsAreAny
  <2>2. PlaceNames \cup {".."} = Names
    BY DEF PlaceNames, Names
  <2> QED
    BY <2>1, <2>2, TreesAreTrees DEF AskedPlace, AnyPath
<1>5. parsed.err = "" => answers[parsed.value] = FullRead(fs, ServerLabel(parsed.value.paths[1]))
  BY Zenon DEF ReadAnswers
<1>6. ServerRight(in, out)
  BY <1>3, <1>4, <1>5, ServerGives
<1> QED
  BY <1>2, <1>6

\* Every call, whatever it is.
LEMMA CallsRight ==
  ASSUME Call
  PROVE  FilesRight(call')
BY CallNames, ReadFileRight, WriteFileRight, ListPathRight, ScanAndReadRight, AskServerRight, Zenon DEF NamedAs, FilesRight

\* Whatever links and ".." a path goes through, no read, write, listing, scan or answer of the
\* MCP server reaches a file outside the root, and none that is there, readable and below it is
\* refused (safe_read.rs, write_guard.rs, scan.rs, the path handling of the MCP server).
THEOREM ReadsStayInsideCorrect == CallSpec => []ReadsStayInside
<1>1. CallInit => FilesRight(call)
  BY DEF CallInit, NoCall, FilesRight
<1>2. FilesRight(call) /\ [CallNext]_callVars => FilesRight(call)'
  BY CallSteps, CallsRight
<1>3. FilesRight(call) => ReadsStayInside
  BY SayTheSame
<1> QED
  BY <1>1, <1>2, <1>3, PTL DEF CallSpec
=============================================================================
