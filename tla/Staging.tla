------------------------------ MODULE Staging ------------------------------
(***************************************************************************)
(* install.rs, stage: one package from the first byte downloaded to the    *)
(* rename that activates it, with download.rs, the snapshots of            *)
(* registry.rs, the launcher of Maia3 packages, and the recoveries that    *)
(* pass over the package once it is installed.                             *)
(*                                                                         *)
(* step is the place in stage.  Extraction has the steps of materialize;   *)
(* phase is theirs.  The user cancels at any step.                         *)
(***************************************************************************)
EXTENDS Extraction

CONSTANTS
  Kinds,           \* ArtifactKind, with "runtime" and "model"
  Candidates,      \* artifact lists that manifests may hold
  KindLimit,       \* MAX_RUNTIME_DOWNLOAD_BYTES and so on
  PackageLimit,    \* MAX_PACKAGE_DOWNLOAD_BYTES
  ReportEvery,     \* bytes between two progress reports, 512 KiB
  PartName,        \* PartName[n]: artifact-n.part
  Executables,     \* executables that packages may name
  PackageRoot,     \* package, the install root of a Maia3 launcher
  LauncherName,    \* launcher, the directory it has to be in
  Supports,        \* below PackageRoot: Python and the entry point
  Checkpoints,     \* below PackageRoot: the models, of which it needs one
  Manifest,        \* INSTALL_RECORD_FILE
  StagingNames,    \* names that begin with .staging-
  Scribbles,       \* paths that an engine, or a user later on, may touch
  NoSnapshot

ASSUME StagingAssumption ==
  /\ {"runtime", "model"} \subseteq Kinds
  /\ Candidates \subseteq Seq([kind: Kinds, bytes: Nat])
  /\ KindLimit \in [Kinds -> Nat]
  /\ PackageLimit \in Nat /\ ReportEvery \in Nat
  /\ PartName \in Seq(Paths) /\ Artifacts <= Len(PartName)
  /\ \A n \in DOMAIN PartName : Len(PartName[n]) = 1
  /\ Len(Manifest) = 1
  /\ LauncherName \in Names /\ StagingNames \subseteq Names
  /\ Supports \cup Checkpoints \subseteq Seq(Names) \ {<<>>}
  /\ {PackageRoot \o p : p \in Supports \cup Checkpoints} \cup Scribbles
       \cup Executables \cup {PackageRoot, Manifest} \subseteq AllPaths

VARIABLES
  step,
  package,     \* the artifacts of the package
  index,       \* the one at hand
  body,        \* what has come of it, and how much of that was reported
  shown,       \* the last progress report
  cancel,      \* the flag of the user
  executable,  \* that of the package
  review,      \* what a Maia3 launcher expects around it
  snapshot,    \* what the record will say
  touched      \* somebody changed the package where no check of it would look

stagingVars ==
  <<step, package, index, body, shown, cancel, executable, review, snapshot,
    touched>>

vars == <<extractionVars, stagingVars>>

-----------------------------------------------------------------------------
(* The package                                                              *)

Bytes(artifacts, n) ==
  LET sum[k \in 0..Len(artifacts)] ==
        IF k = 0 THEN 0 ELSE sum[k - 1] + artifacts[k].bytes
  IN sum[n]

Total == Bytes(package, Len(package))

OfKind(artifacts, kind) ==
  Cardinality({n \in DOMAIN artifacts : artifacts[n].kind = kind})

\* What Recipe::validate asks of the artifacts of a package.
Valid(artifacts) ==
  /\ Len(artifacts) \in 1..Artifacts
  /\ \A n \in DOMAIN artifacts :
       artifacts[n].bytes \in 1..KindLimit[artifacts[n].kind]
  /\ Bytes(artifacts, Len(artifacts)) <= PackageLimit
  /\ OfKind(artifacts, "runtime") = 1
  /\ OfKind(artifacts, "model") <= 1

NoBody == [received |-> 0, reported |-> 0]

Steps ==
  {"begin", "request", "body", "verify", "materialize", "clean", "paths",
   "personalize", "snapshot", "validate", "compare", "record", "recheck",
   "check", "commit", "active"}

Content == [path: Seq(Names), size: Nat, of: Seq(Names)]

\* Types, and no progress report that claims more than was declared.
TypeOK ==
  /\ ExtractionTypeOK
  /\ step \in Steps
  /\ package \in Candidates
  /\ index \in 1..(Len(package) + 1)
  /\ body \in [received: Nat, reported: Nat]
  /\ shown.bytes \in 0..Total
  /\ cancel \in BOOLEAN /\ touched \in BOOLEAN
  /\ executable \in Executables \cup {<<>>}
  /\ \A seen \in {review, snapshot} : seen = NoSnapshot \/ seen \subseteq Content

Init ==
  /\ ExtractionInit
  /\ step = "begin"
  /\ package \in {artifacts \in Candidates : Valid(artifacts)}
  /\ index = 1
  /\ body = NoBody
  /\ shown = [doing |-> "starting", bytes |-> 0]
  /\ cancel = FALSE
  /\ executable = <<>>
  /\ review = NoSnapshot /\ snapshot = NoSnapshot
  /\ touched = FALSE

Over == phase = "failed" \/ step = "active"

At(s) == step = s /\ ~Over

Goto(s) == step' = s

\* report_progress cuts what it reports off at the total.
Show(doing, bytes) ==
  shown' = [doing |-> doing, bytes |-> IF bytes <= Total THEN bytes ELSE Total]

Fails(error) == Refuse(error) /\ UNCHANGED stagingVars

\* The user may cancel as long as the window shows the job.  What is requested
\* while an artifact is materialized is seen at its end, step "clean".
RequestCancel ==
  /\ ~Over /\ ~cancel
  /\ step # "materialize" /\ phase \notin {"entries", "links"}
  /\ cancel' = TRUE
  /\ UNCHANGED <<extractionVars, step, package, index, body, shown, executable,
                 review, snapshot, touched>>

\* A call to the file system or to the server that fails or takes too long, an
\* archive that cannot be read, an entry that is not as long as declared.
Breaks == ~Over /\ Fails("broken")

Checked == {"begin", "body", "verify", "clean", "validate", "compare", "check"}

\* check_cancel, the one of download_impl and those of validation included.
Cancelled ==
  /\ ~Over
  /\ step \in Checked
  /\ step = "begin" => index <= Len(package)
  /\ cancel
  /\ Fails("cancelled")

Proceeds == ~cancel \/ step \notin Checked

-----------------------------------------------------------------------------
(* Downloads                                                                *)

Artifact == package[index]

PartPath == <<Downloads>> \o PartName[index]

Begin ==
  /\ At("begin") /\ index <= Len(package) /\ Proceeds
  /\ Goto("request")
  /\ body' = NoBody
  /\ Show("downloading", Bytes(package, index - 1))
  /\ UNCHANGED <<extractionVars, package, index, cancel, executable, review,
                 snapshot, touched>>

\* The server may announce another length than the manifest declares.
Request ==
  /\ At("request")
  /\ \/ Fails("download")
     \/ Exists(PartPath) # "none" /\ Fails("exists")
     \/ /\ Artifact.bytes <= KindLimit[Artifact.kind]
        /\ Exists(PartPath) = "none"
        /\ Goto("body")
        /\ disk' = WithFile(PartPath, 0, <<>>)
        /\ UNCHANGED <<phase, failure, budget, archive, walk, taken, package,
                       index, body, shown, cancel, executable, review,
                       snapshot, touched>>

\* Mutant: what was done before the artifact is left out.
ChunkAlone(n) ==
  LET received == body.received + n
      reports == \/ received = Artifact.bytes
                 \/ received - body.reported >= ReportEvery IN
  /\ At("body") /\ Proceeds
  /\ \/ received > Artifact.bytes /\ Fails("download")
     \/ /\ received <= Artifact.bytes
        /\ body' = [received |-> received,
                    reported |-> IF reports THEN received ELSE body.reported]
        /\ IF reports THEN Show("downloading", received) ELSE UNCHANGED shown
        /\ UNCHANGED <<extractionVars, step, package, index, cancel,
                       executable, review, snapshot, touched>>

Chunk(n) ==
  LET received == body.received + n
      reports == \/ received = Artifact.bytes
                 \/ received - body.reported >= ReportEvery IN
  /\ At("body") /\ Proceeds
  /\ \/ received > Artifact.bytes /\ Fails("download")
     \/ /\ received <= Artifact.bytes
        /\ body' = [received |-> received,
                    reported |-> IF reports THEN received ELSE body.reported]
        /\ IF reports
           THEN Show("downloading", Bytes(package, index - 1) + received)
           ELSE UNCHANGED shown
        /\ UNCHANGED <<extractionVars, step, package, index, cancel,
                       executable, review, snapshot, touched>>

\* The body is too short, has another digest, or is what was declared.
EndOfBody ==
  /\ At("body") /\ Proceeds
  /\ \/ Fails("download")
     \/ /\ body.received = Artifact.bytes
        /\ Goto("verify")
        /\ disk' = {IF n.path = PartPath THEN [n EXCEPT !.size = body.received]
                    ELSE n : n \in disk}
        /\ UNCHANGED <<phase, failure, budget, archive, walk, taken, package,
                       index, body, shown, cancel, executable, review,
                       snapshot, touched>>

\* independently_verify_download reads the file once more.  Its report and that of
\* the extraction are shown as one.
Verify ==
  /\ At("verify") /\ Proceeds
  /\ \E n \in disk : n.path = PartPath /\ n.size = Artifact.bytes
  /\ Goto("materialize")
  /\ Show("extracting", Bytes(package, index))
  /\ UNCHANGED <<extractionVars, package, index, body, cancel, executable,
                 review, snapshot, touched>>

Materialize ==
  /\ At("materialize")
  /\ Goto("clean")
  /\ \E p \in Destinations :
       \/ Raw(p, Artifact.bytes)
       \/ \E format \in {"zip", "tar"} : Open(p, format)
  /\ UNCHANGED <<package, index, body, shown, cancel, executable, review,
                 snapshot, touched>>

Extract == ~Over /\ Entry /\ UNCHANGED stagingVars

\* The artifact is done and its download is removed.
Clean ==
  /\ At("clean") /\ phase = "package" /\ Proceeds
  /\ Goto("begin")
  /\ index' = index + 1
  /\ disk' = {n \in disk : n.path # PartPath}
  /\ UNCHANGED <<phase, failure, budget, archive, walk, taken, package, body,
                 shown, cancel, executable, review, snapshot, touched>>

EndOfArtifacts ==
  /\ At("begin") /\ index > Len(package)
  /\ Done
  /\ Goto("paths")
  /\ UNCHANGED <<package, index, body, shown, cancel, executable, review,
                 snapshot, touched>>

-----------------------------------------------------------------------------
(* Snapshots and the launcher                                               *)

\* The regular files below root, by their paths as the file system has them.
FilesBelow(root) ==
  {[n EXCEPT !.path = SubSeq(@, Len(root) + 1, Len(@))] : n \in
     {k \in disk : /\ ~k.dir /\ Len(k.path) > Len(root)
                   /\ Slot(SubSeq(k.path, 1, Len(root))) = Slot(root)}}

Contents(files) ==
  {[path |-> n.path, size |-> n.size, of |-> n.of] : n \in files}

\* package_snapshot: the manifest at the top is left out.
Snapshot == Contents({n \in FilesBelow(<<>>) : n.path # Manifest})

\* Its limits, one entry more than those of extraction.
SnapshotFits ==
  /\ Cardinality(disk) <= EntryLimit + 1
  /\ \A n \in Snapshot : n.size <= FileLimit
  /\ Size(Snapshot) <= ByteLimit

\* Mutant: the launcher reviews the whole generation.
PayloadOfAll(launcher) ==
  Contents({n \in FilesBelow(<<>>) : n.path # launcher})

\* package_payload_snapshot: the launcher is left out, by its exact path.
Payload(launcher) ==
  Contents({n \in FilesBelow(PackageRoot) : PackageRoot \o n.path # launcher})

IsFile(p) == \E n \in disk : Slot(n.path) = Slot(p) /\ ~n.dir

IsDirectory(p) == \E n \in disk : Slot(n.path) = Slot(p) /\ n.dir

\* The path of p as canonicalize spells it.
Spelled(p) == (CHOOSE n \in disk : Slot(n.path) = Slot(p)).path

\* find_model and regular_file.
LaunchFiles ==
  LET Below(p) == PackageRoot \o p IN
  /\ \A p \in Supports : IsFile(Below(p))
  /\ Cardinality({p \in Checkpoints : IsFile(Below(p))}) = 1
  /\ \A p \in Checkpoints : ~IsDirectory(Below(p))

\* What the launcher does before it becomes Python.
LauncherAccepts ==
  /\ IsFile(executable)
  /\ LET launcher == Spelled(executable)
         directory == Front(launcher) IN
     /\ directory # <<>> /\ Last(directory) = LauncherName
     /\ Slot(Front(directory)) = Slot(PackageRoot)
     /\ LaunchFiles
     /\ Payload(launcher) = review

-----------------------------------------------------------------------------
(* From the staged files to the installed package                           *)

\* validate_staged_paths; curated Maia3 packages are then personalized.
CheckPaths ==
  /\ At("paths")
  /\ \E p \in Executables :
       \/ ~IsFile(p) /\ Fails("executable")
       \/ /\ IsFile(p)
          /\ executable' = p
          /\ step' \in {"personalize", "snapshot"}
          /\ UNCHANGED <<extractionVars, package, index, body, shown, cancel,
                         review, snapshot, touched>>

\* personalize_maia_launcher: the review is written into the launcher, which
\* has to hold one placeholder and to be below the root.
Personalize ==
  /\ At("personalize")
  /\ \/ Fails("launcher")
     \/ /\ IsStrictPrefix(PackageRoot, executable)
        /\ Goto("snapshot")
        /\ review' = Payload(executable)
        /\ disk' = {IF Slot(n.path) = Slot(executable)
                    THEN [n EXCEPT !.of = <<>>] ELSE n : n \in disk}
        /\ UNCHANGED <<phase, failure, budget, archive, walk, taken, package,
                       index, body, shown, cancel, executable, snapshot,
                       touched>>

TakeSnapshot ==
  /\ At("snapshot")
  /\ \/ ~SnapshotFits /\ Fails("snapshot")
     \/ /\ SnapshotFits
        /\ Goto("validate")
        /\ snapshot' = Snapshot
        /\ UNCHANGED <<extractionVars, package, index, body, shown, cancel,
                       executable, review, touched>>

\* What the directory may be after a path in it, spelled as the directories above
\* it are, was written, made a directory or removed.
Touched ==
  LET Without(p) == {n \in disk : \A q \in Nodes[n.path] : Slot(q) # Slot(p)}
      New(p, dir) == [path |-> p, dir |-> dir, size |-> 0, of |-> <<>>]
      Reached == {p \in Scribbles :
                    \A q \in Parents(p) : \E n \in disk : n.path = q /\ n.dir} IN
  UNION {{Without(p), Without(p) \cup {New(p, TRUE)},
          Without(p) \cup {New(p, FALSE)}} : p \in Reached}

\* The engine runs in the staged package; what it changes is in EngineWrites.
Validate ==
  /\ At("validate") /\ Proceeds
  /\ \/ Fails("engine")
     \/ /\ review # NoSnapshot => LauncherAccepts
        /\ Goto("compare")
        /\ Show("validating", Total)
        /\ UNCHANGED <<extractionVars, package, index, body, cancel, executable,
                       review, snapshot, touched>>

\* A second snapshot that cannot be taken is one that differs.
Compare ==
  /\ At("compare") /\ Proceeds
  /\ \/ Snapshot # snapshot /\ Fails("changed")
     \/ /\ Snapshot = snapshot
        /\ Goto("record")
        /\ Show("activating", Total)
        /\ UNCHANGED <<extractionVars, package, index, body, cancel, executable,
                       review, snapshot, touched>>

\* write_record: the manifest is of no artifact, and is written once.
Record ==
  /\ At("record")
  /\ \/ Exists(Manifest) # "none" /\ Fails("manifest")
     \/ /\ Exists(Manifest) = "none"
        /\ Goto("recheck")
        /\ disk' = WithFile(Manifest, 0, Manifest)
        /\ UNCHANGED <<phase, failure, budget, archive, walk, taken, package,
                       index, body, shown, cancel, executable, review,
                       snapshot, touched>>

\* Mutant: the package was compared before the manifest was written.
RecheckNothing ==
  /\ At("recheck")
  /\ Goto("check")
  /\ UNCHANGED <<extractionVars, package, index, body, shown, cancel,
                 executable, review, snapshot, touched>>

\* The third snapshot, which leaves the manifest out.
Recheck ==
  /\ At("recheck")
  /\ \/ Snapshot # snapshot /\ Fails("changed")
     \/ /\ Snapshot = snapshot
        /\ Goto("check")
        /\ UNCHANGED <<extractionVars, package, index, body, shown, cancel,
                       executable, review, snapshot, touched>>

\* Mutant: the flag is not read again before the rename.
CheckNothing ==
  /\ At("check")
  /\ Goto("commit")
  /\ UNCHANGED <<extractionVars, package, index, body, shown, cancel,
                 executable, review, snapshot, touched>>

\* The last check_cancel; the rename comes after it.
Check ==
  /\ At("check") /\ Proceeds
  /\ Goto("commit")
  /\ UNCHANGED <<extractionVars, package, index, body, shown, cancel,
                 executable, review, snapshot, touched>>

Commit ==
  /\ At("commit")
  /\ Goto("active")
  /\ Show("ready", Total)
  /\ UNCHANGED <<extractionVars, package, index, body, cancel, executable,
                 review, snapshot, touched>>

TheManifest == {n \in disk : n.path = Manifest}

\* The engine, or a process that it has started and that is still there when
\* validation is over (UciValidation), changes the package.  No check looks at what
\* is changed after the third snapshot, nor at a manifest that is there; of such
\* changes there is one.
EngineWrites ==
  /\ ~Over /\ ~touched
  /\ step \in {"compare", "record", "recheck", "check", "commit"}
  /\ disk' \in Touched
  /\ touched' = \/ step \in {"check", "commit"}
                \/ step = "recheck" /\ TheManifest' # TheManifest
  /\ UNCHANGED <<phase, failure, budget, archive, walk, taken, step, package,
                 index, body, shown, cancel, executable, review, snapshot>>

-----------------------------------------------------------------------------
(* The installed package                                                    *)

\* The user, an update or a fault changes something in it, once.
Tamper ==
  /\ step = "active" /\ ~touched
  /\ touched' = TRUE
  /\ disk' \in Touched
  /\ UNCHANGED <<phase, failure, budget, archive, walk, taken, step, package,
                 index, body, shown, cancel, executable, review, snapshot>>

\* recover visits every directory below installs, those of the installed
\* packages too, and removes each whose name begins with .staging-.  What it does
\* with the manifests is in InstallLifecycle.
Recover ==
  LET Removed == {n.path : n \in {k \in disk : /\ k.dir
                                               /\ Last(k.path) \in StagingNames}}
  IN
  /\ step = "active"
  /\ disk' = {n \in disk : Nodes[n.path] \cap Removed = {}}
  /\ UNCHANGED <<phase, failure, budget, archive, walk, taken, stagingVars>>

-----------------------------------------------------------------------------
Stage ==
  \/ Breaks \/ Cancelled
  \/ Begin \/ Request \/ (\E n \in 1..FileLimit : Chunk(n)) \/ EndOfBody
  \/ Verify \/ Materialize \/ Extract \/ Clean \/ EndOfArtifacts
  \/ CheckPaths \/ Personalize \/ TakeSnapshot \/ Validate \/ Compare
  \/ Record \/ Recheck \/ Check \/ Commit

Ended == Over /\ UNCHANGED vars

Next == Stage \/ RequestCancel \/ EngineWrites \/ Tamper \/ Recover \/ Ended

Spec == Init /\ [][Next]_vars

\* An install is one thread that runs until it is done.  A server that sends
\* nothing is given up after 15 minutes, an engine after its deadlines.
FairSpec == Spec /\ WF_vars(Stage)

-----------------------------------------------------------------------------
(* Properties                                                               *)

Staged == phase # "failed" /\ step \in
  {"begin", "request", "body", "verify", "materialize", "clean", "paths"}

\* What is on disk, the download aside, is what the budget has accounted for, by
\* any spelling, entry by entry and byte by byte, also after links and parent
\* directories were created on a file system that takes two spellings for one
\* name; the directory .downloads may be missing from either, and is in no
\* package whose artifacts are all there.
Accounted ==
  LET Slots(nodes) == {[path |-> Slot(n.path), dir |-> n.dir] : n \in
                         {k \in nodes : ~(InDownloads(k) /\ Len(k.path) = 1)}}
      Extracted == {n \in disk : n.dir \/ n.of # <<>>} IN
  Staged =>
    /\ Slots(Extracted) = Slots(budget.nodes)
    /\ Cardinality(budget.nodes) = budget.entries
    /\ Size(Extracted) = budget.bytes
    /\ step = "paths" => \A n \in disk : ~InDownloads(n)

\* Collisions and limits are found before anything is created: no snapshot is
\* larger than one may be, and the file system has to refuse neither a second
\* spelling of a path nor a file below a file.  The exceptions are an artifact
\* whose destination is in .downloads and a file system with names that
\* to_lowercase keeps apart and that it takes for one.
NeverTooLate ==
  /\ failure # "snapshot"
  /\ failure \in {"exists", "downloads"} =>
       Misjudged \/ \E p \in taken : p[1] = Fold[Downloads]

\* Progress reports (install.rs:526) never go back, from one artifact to the next
\* or from one phase to another, and never claim a byte that was not received.
ProgressIsHonest ==
  [][/\ shown'.bytes >= shown.bytes
     /\ shown'.bytes <= Bytes(package, index' - 1) + body'.received]_vars

\* A package becomes active with the files that were reviewed before its engine
\* ran, and with the manifest that stage has written, whatever the engine and the
\* processes it leaves behind change up to the third snapshot, and keeps them until
\* somebody changes it; unless a directory in it has the name of a staging
\* directory, which the next recovery removes.
ActiveAsReviewed ==
  step = "active" /\ ~touched =>
    \/ /\ Snapshot = snapshot
       /\ \E n \in TheManifest : ~n.dir /\ n.of = Manifest
    \/ \E file \in snapshot : \E name \in StagingNames :
         \E n \in 1..(Len(file.path) - 1) : file.path[n] = name

\* An installed Maia3 launcher starts exactly as long as what is below its root,
\* itself aside, is what was installed, and no directory is in the place of a
\* model: neither its own review, nor the manifest, nor a spelling makes it
\* refuse (the launcher's run and verify_payload).
LauncherTells ==
  LET Installed ==
        {[file EXCEPT !.path = SubSeq(@, Len(PackageRoot) + 1, Len(@))] :
           file \in {f \in snapshot :
                       /\ IsStrictPrefix(Slot(PackageRoot), Slot(f.path))
                       /\ Slot(f.path) # Slot(executable)}} IN
  step = "active" /\ review # NoSnapshot /\ IsFile(executable) =>
    (LauncherAccepts <=>
       /\ Payload(Spelled(executable)) = Installed
       /\ \A p \in Checkpoints : ~IsDirectory(PackageRoot \o p))

\* No manifest, server, archive or engine keeps an install from ending.
StagingEnds == <>Over

\* An install that is cancelled before its last check never becomes active, however
\* far it was: it fails.
CancelEndsIt ==
  (cancel /\ ~Over /\ step # "commit") ~> phase = "failed"
=============================================================================
