------------------------------- MODULE Projects -------------------------------
(***************************************************************************)
(* Which projects a directory tree holds (o8v-stacks/src/detect.rs and     *)
(* detectors/*.rs, o8v-core/src/project/*.rs): the walk, the sixteen       *)
(* detectors, and what a project must be to be accepted.                   *)
(*                                                                         *)
(* A directory is [name, err, scanErrs, link, files]: `err` says why it    *)
(* cannot be scanned, `files` maps file names to files. A file is          *)
(* [err, parses, has, name, version, members, lines], with                 *)
(*   err      why ReadChecked of SafeFiles refuses it, "" when it does not *)
(*   parses   whether its format is right                                  *)
(*   has      the sections and keys it has                                 *)
(*   name, version   "" when absent; "workspace = true" and                *)
(*            "workspace = false" are what Cargo inherits                  *)
(*   members  of a workspace or a solution                                 *)
(*   lines    what a line-wise reader finds, each [word, value]            *)
(***************************************************************************)
EXTENDS Naturals, Sequences, SequencesExt, FiniteSets

Ok(value) == [err |-> "", value |-> value]
Fail(kind) == [err |-> kind, value |-> <<>>]
Then(result, Continue(_)) ==
  IF result.err # "" THEN result ELSE Continue(result.value)

\* A detector finds nothing, one project, or an error.
Nothing == Ok(<<>>)
Invalid == Fail("manifest_invalid")

-----------------------------------------------------------------------------
(* project/types.rs *)

Blank == {"", " "}
Padded == {" padded "}
Control == {"control\n"}

NewProject(stack, name, version, members) ==
  IF name \in Blank \cup Padded \cup Control THEN Invalid
  ELSE IF \E i \in DOMAIN members : members[i] \in Blank \cup Control THEN Invalid
  ELSE IF version \in Control THEN Invalid
  ELSE Ok(<<[stack |-> stack, name |-> name, members |-> members,
             version |-> IF version \in Blank THEN "" ELSE version]>>)

\* ProjectRoot::new
ProjectRoot(dir) ==
  CASE dir.err \in {"not_found", "not_directory", "cannot_resolve"} -> Fail("subdir_root_invalid")
    [] dir.name = "not UTF-8" -> Fail("subdir_root_invalid")
    [] OTHER -> Ok(dir)

-----------------------------------------------------------------------------
(* What the detectors read *)

Has(dir, file) == file \in DOMAIN dir.files

\* read_checked, and on with the manifest when there is one.
WithFile(dir, file, Continue(_)) ==
  IF ~Has(dir, file) THEN Nothing
  ELSE IF dir.files[file].err # "" THEN Fail(dir.files[file].err)
  ELSE Continue(dir.files[file])

WithManifest(dir, file, Continue(_)) ==
  WithFile(dir, file, LAMBDA m : IF m.parses THEN Continue(m) ELSE Invalid)

\* The first value after the word that is not empty.
FirstValue(lines, word) ==
  LET found == SelectSeq(lines, LAMBDA l : l.word = word /\ l.value # "")
  IN  IF found = <<>> THEN "" ELSE found[1].value

OrDirName(name, dir) == IF name = "" THEN dir.name ELSE name

\* A directory that carries the file is a project named after it.
ByPresence(dir, stack, files) ==
  IF \E f \in files : Has(dir, f) THEN NewProject(stack, dir.name, "", <<>>) ELSE Nothing

\* The same, for a file that must be readable too.
ByFile(dir, stack, file) ==
  WithFile(dir, file, LAMBDA m : NewProject(stack, dir.name, "", <<>>))

-----------------------------------------------------------------------------
(* detectors/*.rs *)

ResolveField(value, isWorkspaceRoot) ==
  CASE value = "workspace = true"  -> IF isWorkspaceRoot THEN Invalid ELSE Ok("")
    [] value = "workspace = false" -> Invalid
    [] OTHER -> Ok(value)

\* A workspace with members is a project of its own; one without is only its package.
Rust(dir) ==
  WithManifest(dir, "Cargo.toml", LAMBDA m :
    LET compound == "workspace" \in m.has /\ m.members # <<>>
        members  == IF compound THEN m.members ELSE <<>>
        package  == Then(ResolveField(m.name, compound), LAMBDA n :
                      IF n = "" /\ ~compound THEN Invalid
                      ELSE Then(ResolveField(m.version, compound), LAMBDA v :
                             IF n = "" THEN Invalid ELSE NewProject("rust", n, v, members)))
    IN  IF "package" \in m.has THEN package
        ELSE IF compound THEN NewProject("rust", dir.name, "", members) ELSE Nothing)

TypeScriptDep(m) == "typescript" \in m.has

\* validate_entry: a tsconfig.json that is there but no file of this tree is an error.
TypeScript(dir) ==
  WithManifest(dir, "package.json", LAMBDA m :
    LET tsconfig == Has(dir, "tsconfig.json")
    IN  IF tsconfig /\ dir.files["tsconfig.json"].err # "" THEN Fail(dir.files["tsconfig.json"].err)
        ELSE IF ~tsconfig /\ ~TypeScriptDep(m) THEN Nothing
        ELSE NewProject("typescript", OrDirName(m.name, dir), m.version, m.members))

\* Mutation for ProjectsFound: only a tsconfig.json makes it TypeScript.
JavaScriptUnlessTsconfig(dir) ==
  WithFile(dir, "package.json", LAMBDA m :
    IF Has(dir, "tsconfig.json") THEN Nothing
    ELSE IF ~m.parses THEN Invalid
    ELSE NewProject("javascript", OrDirName(m.name, dir), m.version, m.members))

\* What TypeScript takes is left to it.
JavaScript(dir) ==
  WithFile(dir, "package.json", LAMBDA m :
    IF Has(dir, "tsconfig.json") THEN Nothing
    ELSE IF ~m.parses THEN Invalid
    ELSE IF TypeScriptDep(m) THEN Nothing
    ELSE NewProject("javascript", OrDirName(m.name, dir), m.version, m.members))

\* [project] hides [tool.poetry], even without a name.
Python(dir) ==
  WithManifest(dir, "pyproject.toml", LAMBDA m :
    IF m.has \cap {"project", "poetry"} = {} THEN Nothing
    ELSE IF m.name = "" THEN Invalid
    ELSE NewProject("python", m.name, m.version, m.members))

Go(dir) ==
  WithFile(dir, "go.mod", LAMBDA m :
    IF FirstValue(m.lines, "module") = "" THEN Invalid
    ELSE NewProject("go", FirstValue(m.lines, "module"), FirstValue(m.lines, "go"), <<>>))

\* Comments are dropped outside strings; one that does not end is an error.
StripJsoncComments(tokens) ==
  LET step(s, t) ==
        CASE s.in = "line"  -> IF t = "nl" THEN [in |-> "code", out |-> Append(s.out, t)] ELSE s
          [] s.in = "block" -> IF t = "*/" THEN [s EXCEPT !.in = "code"]
                               ELSE IF t = "nl" THEN [s EXCEPT !.out = Append(@, t)] ELSE s
          [] s.in = "code"  -> CASE t = "//" -> [s EXCEPT !.in = "line"]
                                 [] t = "/*" -> [s EXCEPT !.in = "block"]
                                 [] OTHER    -> [s EXCEPT !.out = Append(@, t)]
      end == FoldLeft(step, [in |-> "code", out |-> <<>>], tokens)
  IN  IF end.in = "block" THEN Invalid ELSE Ok(end.out)

\* A comma goes when nothing but white space stands between it and a closing bracket.
StripTrailingCommas(tokens) ==
  LET trailing(i) == /\ tokens[i] = ","
                     /\ \E j \in (i + 1)..Len(tokens) :
                          /\ tokens[j] \in {"]", "}"}
                          /\ \A k \in (i + 1)..(j - 1) : tokens[k] \in {"nl", " "}
      kept == SelectSeq([i \in DOMAIN tokens |-> i], LAMBDA i : ~trailing(i))
  IN  [k \in DOMAIN kept |-> tokens[kept[k]]]

DenoKeys == {"name", "tasks", "imports", "importMap", "exports", "lock", "workspace"}
Deno(dir) ==
  LET file == IF Has(dir, "deno.json") THEN "deno.json" ELSE "deno.jsonc"
  IN  WithManifest(dir, file, LAMBDA m :
        IF m.has \cap DenoKeys = {} THEN Nothing
        ELSE NewProject("deno", OrDirName(m.name, dir), m.version, m.members))

\* read_by_ext: two files of one extension are an error.
WithExt(dir, ext, Continue(_)) ==
  LET files == {f \in DOMAIN dir.files : f = ext \/ f = "second " \o ext}
  IN  IF Cardinality(files) > 1 THEN Fail("ambiguous")
      ELSE WithFile(dir, IF files = {} THEN ext ELSE CHOOSE f \in files : TRUE, Continue)

\* The members of a .slnx are nested in folders, 64 deep at most; `depth` is how deep.
SlnxMembers(m, depth) ==
  IF depth > 65 \/ "" \in ToSet(m.members) THEN Invalid ELSE Ok(m.members)

\* "Project(" lines of a .sln, without its folders; a line without a name is an error.
ParseSlnProjects(lines) ==
  LET projects == SelectSeq(lines, LAMBDA l : l.word = "Project(")
  IN  IF \E i \in DOMAIN projects : projects[i].value = "" THEN Invalid
      ELSE Ok([i \in DOMAIN projects |-> projects[i].value])

Solution(name, members) ==
  Then(members, LAMBDA ms : IF ms = <<>> THEN Nothing ELSE NewProject("dotnet", name, "", ms))

CsprojName(m) ==
  LET namespace == FirstValue(m.lines, "RootNamespace")
      assembly  == FirstValue(m.lines, "AssemblyName")
  IN  IF namespace # "" THEN namespace ELSE IF assembly # "" THEN assembly ELSE m.name

\* .slnx before .sln before .csproj: the first that is there decides, even for nothing.
DotNet(dir, depth) ==
  IF Has(dir, "slnx") \/ Has(dir, "second slnx")
  THEN WithExt(dir, "slnx", LAMBDA m :
         IF ~m.parses THEN Invalid ELSE Solution(m.name, SlnxMembers(m, depth)))
  ELSE IF Has(dir, "sln") \/ Has(dir, "second sln")
  THEN WithExt(dir, "sln", LAMBDA m : Solution(m.name, ParseSlnProjects(m.lines)))
  ELSE WithExt(dir, "csproj", LAMBDA m :
         IF ~m.parses THEN Invalid
         ELSE NewProject("dotnet", CsprojName(m), FirstValue(m.lines, "Version"), <<>>))

Ruby(dir) == ByFile(dir, "ruby", "Gemfile")

\* The first artifactId of the file, its parent's when that comes first.
Java(dir) ==
  IF Has(dir, "pom.xml")
  THEN WithFile(dir, "pom.xml", LAMBDA m :
         NewProject("java", OrDirName(FirstValue(m.lines, "artifactId"), dir), "", <<>>))
  ELSE ByFile(dir, "java", "build.gradle")

\* A Groovy build with a Kotlin file beside it is one of each.
Kotlin(dir) ==
  IF Has(dir, "build.gradle.kts") THEN ByFile(dir, "kotlin", "build.gradle.kts")
  ELSE Then(ByFile(dir, "kotlin", "build.gradle"), LAMBDA found :
         IF Has(dir, "kt") THEN Ok(found) ELSE Nothing)

Swift(dir) == ByFile(dir, "swift", "Package.swift")

\* An .app.src that cannot be read is as good as none.
Erlang(dir) ==
  WithFile(dir, "rebar.config", LAMBDA rebar :
    IF Has(dir, "app.src") /\ dir.files["app.src"].err = ""
    THEN LET lines == dir.files["app.src"].lines
         IN  NewProject("erlang", OrDirName(FirstValue(lines, "application"), dir),
                        FirstValue(lines, "vsn"), <<>>)
    ELSE NewProject("erlang", dir.name, "", <<>>))

Terraform(dir)  == ByPresence(dir, "terraform", {"tf"})
Dockerfile(dir) == ByPresence(dir, "dockerfile", {"Dockerfile"})
Helm(dir)       == ByPresence(dir, "helm", {"Chart.yaml"})
Kustomize(dir)  == ByPresence(dir, "kustomize", {"kustomization.yaml", "kustomization.yml"})

Detectors(dir) ==
  <<Rust(dir), TypeScript(dir), JavaScript(dir), Python(dir), Go(dir), Deno(dir), DotNet(dir, 1),
    Ruby(dir), Java(dir), Kotlin(dir), Swift(dir), Erlang(dir), Terraform(dir), Dockerfile(dir),
    Helm(dir), Kustomize(dir)>>

-----------------------------------------------------------------------------
(* detect.rs: a tree maps the paths of directories to them *)

SkipDirs == {"node_modules", ".git", "target", "fixtures", "vendor", "dist", "build"}

\* What one directory adds. That it cannot be scanned is an error and ends it.
DetectIn(dir) ==
  LET found == SelectSeq(Detectors(dir), LAMBDA d : d.err = "" /\ d.value # <<>>)
      wrong == SelectSeq(Detectors(dir), LAMBDA d : d.err # "")
      root  == ProjectRoot(dir)
  IN  IF root.err # "" THEN [projects |-> <<>>, errors |-> <<root.err>>]
      ELSE IF dir.err # "" THEN [projects |-> <<>>, errors |-> <<dir.err>>]
      ELSE [projects |-> [i \in DOMAIN found |-> found[i].value[1]],
            errors   |-> dir.scanErrs \o [i \in DOMAIN wrong |-> wrong[i].err]]

\* The directories that are scanned: no links, none of the skipped names, and
\* nothing below a directory that could not be scanned.
Walked(tree) ==
  {p \in DOMAIN tree : \A n \in 1..Len(p) :
     /\ p[n] \notin SkipDirs
     /\ ~tree[SubSeq(p, 1, n)].link
     /\ tree[SubSeq(p, 1, n - 1)].err = ""}

DetectAll(tree) ==
  [projects |-> UNION {{[at |-> p, project |-> q] : q \in ToSet(DetectIn(tree[p]).projects)} :
                         p \in Walked(tree)},
   errors   |-> UNION {{[at |-> p, kind |-> e] : e \in ToSet(DetectIn(tree[p]).errors)} :
                         p \in Walked(tree)}]
=============================================================================
